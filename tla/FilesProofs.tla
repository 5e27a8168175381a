----------------------------- MODULE FilesProofs -----------------------------
(***************************************************************************)
(* Proofs about Vfs and FatFs: for each the inductive invariant, and the   *)
(* safety properties that follow from it.                                  *)
(***************************************************************************)
EXTENDS FatFs, FiniteSetTheorems, WellFoundedInduction, TLAPS

-----------------------------------------------------------------------------
(* The inductive invariant of Vfs *)

HeapObject == [obj_size : Nat, block_size : Nat, room : Int]
Data == [length : Nat, alloced : Nat, object : HeapObject, written : SUBSET Nat]

(* What a string lives in: a block that has room for what it has allocated, *)
(* or pages, and then it is longer than any block.                         *)
Block(o) ==
  /\ o.block_size > 0 /\ o.room = o.block_size
  /\ \E c \in Caches : c.obj_size = o.obj_size /\ c.block_size = o.block_size
InBlock(s) == Block(s.object) /\ s.alloced * BlockSize <= s.object.block_size
InPages(s) == s.object.block_size = 0 /\ s.alloced * BlockSize >= MaxSize
StringOk(s) == s \in Data /\ (InBlock(s) \/ InPages(s))

(* The positions of which nothing more has to be shown: not past what is   *)
(* allocated, and if it is a block, written or at an edge.                 *)
Certain(s) ==
  {k \in Nat : /\ k <= s.alloced * BlockSize
               /\ s.object.block_size > 0 /\ k \notin Edge => k \in s.written}

Sound(s) == StringOk(s) /\ 0..s.length \subseteq Certain(s)

(* The strings; the provers do not know that literals are among them. *)
Name == STRING \cup {"test", "somedir", "devices", "wut"}
Dirent == [name : Name, inode : Nat]
NodeType == [type : {"dir", "null"}, dirents : Seq(Dirent), mount : 0..2 \cup {Nil}, data : Data]

(* A ramfs is a tree of n nodes: every node but the first has one entry,   *)
(* in a directory with a smaller inode, where no other has its name.       *)
EntryOk(table, n, d, i) ==
  table[d].type = "dir" /\ table[d].dirents[i].inode \in (d + 1)..(n - 1)
EntriesOk(table, n) ==
  \A d \in 0..(n - 1) : \A i \in 1..Len(table[d].dirents) : EntryOk(table, n, d, i)
OneEntry(table, n) ==
  \A d, e \in 0..(n - 1) :
    \A i \in 1..Len(table[d].dirents), j \in 1..Len(table[e].dirents) :
      table[d].dirents[i].inode = table[e].dirents[j].inode => d = e /\ i = j
OneName(table, n) ==
  \A d \in 0..(n - 1) : \A i, j \in 1..Len(table[d].dirents) :
    table[d].dirents[i].name = table[d].dirents[j].name => i = j
Reached(table, n) ==
  \A k \in 1..(n - 1) :
    \E d \in 0..(n - 1) : \E i \in 1..Len(table[d].dirents) : table[d].dirents[i].inode = k

TreeOf(table, n) ==
  /\ n \in Nat \ {0} /\ table \in [0..(n - 1) -> NodeType]
  /\ EntriesOk(table, n) /\ OneEntry(table, n) /\ OneName(table, n) /\ Reached(table, n)

Tree(table) == \E n \in Nat : TreeOf(table, n)

(* What is below the length of a string was written, or is at an edge. *)
NoHole(table) == \A i \in DOMAIN table : Sound(table[i].data)

TreesOk(all) ==
  /\ all = [f \in 1..2 |-> all[f]]
  /\ \A f \in 1..2 : Tree(all[f]) /\ NoHole(all[f])

(* A node that a task may hold *)
NodeOk(all, dev, node) ==
  /\ node \in FileNode
  /\ IF node.fs = Devfs THEN IsDevice(node) => node.inode - 127 \in 1..Len(dev)
     ELSE node.inode \in DOMAIN all[node.fs]

NodesOk(all, dev, nodes) ==
  /\ nodes \in [Task -> FileNode \cup {Nil}]
  /\ \A t \in Task : nodes[t] # Nil => NodeOk(all, dev, nodes[t])

ObjectType == [node : FileNode, read_offset : Nat, write_offset : Nat,
               device : Range(Device) \cup {Nil}]

(* An open file: its device is the one at its inode, and what is before    *)
(* its offset was written.                                                 *)
ObjectOk(all, dev, obj) ==
  /\ obj \in ObjectType /\ NodeOk(all, dev, obj.node)
  /\ IsDevice(obj.node) => dev[obj.node.inode - 127] = obj.device
  /\ obj.node.fs # Devfs =>
       \A k \in Nat : k < obj.write_offset => k \in Certain(all[obj.node.fs][obj.node.inode].data)

ObjectsOk(all, dev, objs) ==
  /\ objs \in [Task -> [Fd -> ObjectType \cup {Nil}]]
  /\ \A t \in Task, fd \in Fd : objs[t][fd] # Nil => ObjectOk(all, dev, objs[t][fd])

VfsInv ==
  /\ TreesOk(ramfs) /\ devices \in Seq(Range(Device))
  /\ devfs_ready \in BOOLEAN /\ halted \in BOOLEAN
  /\ ObjectsOk(ramfs, devices, pobjects)
  /\ NodesOk(ramfs, devices, froot) /\ NodesOk(ramfs, devices, curdir)
  /\ alive \subseteq Task /\ dangling \subseteq Task

-----------------------------------------------------------------------------
(* The nodes of a ramfs *)

(* Counting inodes *)
LEMMA InodeCount ==
  ASSUME NEW n \in Nat, NEW table, DOMAIN table = 0..(n - 1)
  PROVE  Cardinality(DOMAIN table) = n
BY FS_Interval

(* r is the tree with a node more in dir. *)
NodeAdded(r, table, n, dir, name, node) ==
  /\ TreeOf(r, n + 1) /\ r[n] = node
  /\ \A k \in 0..(n - 1) : /\ r[k].type = table[k].type /\ r[k].mount = table[k].mount
                           /\ r[k].data = table[k].data
  /\ \A k \in 0..(n - 1) : k # dir => r[k].dirents = table[k].dirents
  /\ r[dir].dirents = Append(table[dir].dirents, [name |-> name, inode |-> n])

(* A node more in a directory where nothing has its name *)
LEMMA AddNodeTree ==
  ASSUME NEW table, NEW n, TreeOf(table, n), NEW dir \in 0..(n - 1), table[dir].type = "dir",
         NEW name \in Name, Entries(table, dir, name) = {},
         NEW node \in NodeType, node.dirents = <<>>,
         NEW r, r = AddNode(table, dir, name, node)
  PROVE  NodeAdded(r, table, n, dir, name, node)
<1>1. n \in Nat \ {0} /\ table \in [0..(n - 1) -> NodeType] BY DEF TreeOf
<1>2. Cardinality(DOMAIN table) = n BY <1>1, InodeCount
<1>3. PICK old : old = table[dir] OBVIOUS
<1>4. old \in NodeType /\ old.dirents \in Seq(Dirent) BY <1>1, <1>3 DEF NodeType
<1>5. PICK ent \in Dirent : ent = [name |-> name, inode |-> n] BY <1>1 DEF Dirent
<1>6. ent.name = name /\ ent.inode = n BY <1>5
<1>7. PICK ents : ents = Append(old.dirents, ent) OBVIOUS
<1>8. PICK L \in Nat : L = Len(old.dirents) BY <1>4
<1>9. /\ ents \in Seq(Dirent) /\ Len(ents) = L + 1 /\ ents[L + 1] = ent
      /\ \A i \in 1..L : ents[i] = old.dirents[i]
  BY <1>4, <1>7, <1>8
<1>10. PICK new : new = [old EXCEPT !.dirents = ents] OBVIOUS
<1>11. /\ new \in NodeType /\ new.dirents = ents /\ new.type = old.type /\ new.mount = old.mount
       /\ new.data = old.data
  BY <1>4, <1>9, <1>10 DEF NodeType
<1>13. r = With([table EXCEPT ![dir] = new], n, node)
  BY <1>2, <1>3, <1>5, <1>7, <1>10 DEF AddNode
<1>14. r = [k \in 0..n |-> IF k = n THEN node ELSE IF k = dir THEN new ELSE table[k]]
  <2>1. DOMAIN table \cup {n} = 0..n BY <1>1
  <2> QED BY <1>1, <1>13, <2>1 DEF With
<1>15. r \in [0..n -> NodeType] /\ r[n] = node /\ r[dir] = new
       /\ \A k \in 0..(n - 1) : k # dir => r[k] = table[k]
  BY <1>1, <1>11, <1>14
<1>16. ASSUME NEW d \in 0..n, NEW i \in 1..Len(r[d].dirents)
       PROVE  /\ d \in 0..(n - 1) /\ r[d].type = "dir"
              /\ \/ i \in 1..Len(table[d].dirents) /\ r[d].dirents[i] = table[d].dirents[i]
                 \/ d = dir /\ i = L + 1 /\ r[d].dirents[i] = ent
  <2>1. CASE d = n
    <3>1. Len(r[d].dirents) = 0 BY <1>15, <2>1
    <3>2. i \in 1..0 BY <1>16, <3>1
    <3> QED BY <3>2
  <2>2. CASE d = dir
    <3>1. i \in 1..(L + 1) /\ r[d].dirents = ents /\ r[d].type = "dir" /\ table[d].dirents = old.dirents
      BY <1>3, <1>9, <1>11, <1>15, <1>16, <2>2
    <3>2. CASE i = L + 1 BY <1>9, <2>2, <3>1, <3>2
    <3>3. CASE i # L + 1
      <4>1. i \in 1..L BY <3>1, <3>3
      <4> QED BY <1>8, <1>9, <2>2, <3>1, <4>1
    <3> QED BY <3>2, <3>3
  <2>3. CASE d # n /\ d # dir
    <3>1. d \in 0..(n - 1) BY <1>1, <2>3
    <3>2. r[d] = table[d] BY <1>15, <2>3, <3>1
    <3>3. EntryOk(table, n, d, i) BY <1>16, <3>1, <3>2 DEF TreeOf, EntriesOk
    <3> QED BY <1>16, <3>1, <3>2, <3>3 DEF EntryOk
  <2> QED BY <2>1, <2>2, <2>3
<1>17. ASSUME NEW d \in 0..(n - 1), NEW i \in 1..Len(table[d].dirents)
       PROVE  i \in 1..Len(r[d].dirents) /\ r[d].dirents[i] = table[d].dirents[i]
  <2>1. CASE d = dir BY <1>3, <1>8, <1>9, <1>11, <1>15, <2>1
  <2>2. CASE d # dir BY <1>15, <2>2
  <2> QED BY <2>1, <2>2
<1>18. \A i \in 1..L : old.dirents[i].name # name
  <2>1. \A i \in DOMAIN table[dir].dirents : table[dir].dirents[i].name # name BY DEF Entries
  <2> QED BY <1>3, <1>4, <1>8, <2>1
<1>19. TreeOf(r, n + 1)
  <2>1. n + 1 \in Nat \ {0} /\ (n + 1) - 1 = n BY <1>1
  <2>2. ASSUME NEW d \in 0..n, NEW i \in 1..Len(r[d].dirents)
        PROVE  /\ r[d].type = "dir" /\ r[d].dirents[i].inode \in (d + 1)..n
               /\ \A e \in 0..n : \A j \in 1..Len(r[e].dirents) :
                    r[d].dirents[i].inode = r[e].dirents[j].inode => d = e /\ i = j
               /\ \A j \in 1..Len(r[d].dirents) :
                    r[d].dirents[i].name = r[d].dirents[j].name => i = j
    <3>1. \A e \in 0..(n - 1) : \A j \in 1..Len(table[e].dirents) :
            table[e].dirents[j].inode \in (e + 1)..(n - 1)
      BY DEF TreeOf, EntriesOk, EntryOk
    <3>5. PICK x : x = r[d].dirents[i] OBVIOUS
    <3>6. /\ d \in 0..(n - 1)
          /\ \/ i \in 1..Len(table[d].dirents) /\ x = table[d].dirents[i]
                /\ x.inode \in (d + 1)..(n - 1)
             \/ d = dir /\ i = L + 1 /\ x = ent /\ x.inode = n
      BY <1>6, <1>16, <2>2, <3>1, <3>5
    <3>2. r[d].dirents[i].inode \in (d + 1)..n
      <4>1. x.inode \in (d + 1)..n BY <1>1, <3>6
      <4> QED BY <3>5, <4>1
    <3>3. ASSUME NEW e \in 0..n, NEW j \in 1..Len(r[e].dirents),
                 r[d].dirents[i].inode = r[e].dirents[j].inode
          PROVE  d = e /\ i = j
      <4>1. PICK y : y = r[e].dirents[j] OBVIOUS
      <4>2. /\ e \in 0..(n - 1)
            /\ \/ j \in 1..Len(table[e].dirents) /\ y = table[e].dirents[j]
                  /\ y.inode \in (e + 1)..(n - 1)
               \/ e = dir /\ j = L + 1 /\ y = ent /\ y.inode = n
        BY <1>6, <1>16, <3>3, <3>1, <4>1
      <4>3. x.inode = y.inode BY <3>3, <3>5, <4>1
      <4>4. CASE x.inode = n BY <1>1, <3>6, <4>2, <4>3, <4>4
      <4>5. CASE x.inode # n
        <5>1. /\ i \in 1..Len(table[d].dirents) /\ x = table[d].dirents[i]
              /\ j \in 1..Len(table[e].dirents) /\ y = table[e].dirents[j]
          BY <3>6, <4>2, <4>3, <4>5
        <5>2. table[d].dirents[i].inode = table[e].dirents[j].inode BY <4>3, <5>1
        <5>3. OneEntry(table, n) BY DEF TreeOf
        <5> QED BY <3>6, <4>2, <5>1, <5>2, <5>3 DEF OneEntry
      <4> QED BY <4>4, <4>5
    <3>4. ASSUME NEW j \in 1..Len(r[d].dirents), r[d].dirents[i].name = r[d].dirents[j].name
          PROVE  i = j
      <4>1. CASE d = dir
        <5>1. /\ i \in 1..(L + 1) /\ j \in 1..(L + 1) /\ ents[i].name = ents[j].name
              /\ ents[L + 1].name = name /\ \A m \in 1..L : ents[m].name = old.dirents[m].name
          BY <1>6, <1>9, <1>11, <1>15, <2>2, <3>4, <4>1
        <5>2. CASE i \in 1..L /\ j \in 1..L
          <6>1. old.dirents[i].name = old.dirents[j].name BY <5>1, <5>2
          <6>2. OneName(table, n) BY DEF TreeOf
          <6> QED BY <1>3, <1>8, <5>2, <6>1, <6>2 DEF OneName
        <5>3. CASE i = L + 1 BY <1>18, <5>1, <5>3
        <5>4. CASE j = L + 1 BY <1>18, <5>1, <5>4
        <5> QED BY <5>1, <5>2, <5>3, <5>4
      <4>2. CASE d # dir
        <5>1. d \in 0..(n - 1) /\ r[d] = table[d] BY <1>15, <1>16, <2>2, <4>2
        <5>2. OneName(table, n) BY DEF TreeOf
        <5> QED BY <2>2, <3>4, <5>1, <5>2 DEF OneName
      <4> QED BY <4>1, <4>2
    <3> QED BY <1>16, <2>2, <3>2, <3>3, <3>4
  <2>3. ASSUME NEW k \in 1..n
        PROVE  \E d \in 0..n : \E i \in 1..Len(r[d].dirents) : r[d].dirents[i].inode = k
    <3>1. CASE k = n
      <4>1. L + 1 \in 1..Len(r[dir].dirents) /\ r[dir].dirents[L + 1].inode = n
        BY <1>6, <1>9, <1>11, <1>15
      <4> QED BY <1>1, <3>1, <4>1
    <3>2. CASE k # n
      <4>1. k \in 1..(n - 1) BY <1>1, <3>2
      <4>2. PICK d \in 0..(n - 1) : \E i \in 1..Len(table[d].dirents) : table[d].dirents[i].inode = k
        BY <4>1 DEF TreeOf, Reached
      <4>3. PICK i \in 1..Len(table[d].dirents) : table[d].dirents[i].inode = k BY <4>2
      <4>4. d \in 0..n BY <1>1
      <4> QED BY <1>17, <4>3, <4>4
    <3> QED BY <3>1, <3>2
  <2>4. EntriesOk(r, n + 1) BY <2>1, <2>2 DEF EntriesOk, EntryOk
  <2>5. OneEntry(r, n + 1) BY <2>1, <2>2 DEF OneEntry
  <2>6. OneName(r, n + 1) BY <2>1, <2>2 DEF OneName
  <2>7. Reached(r, n + 1) BY <2>1, <2>3 DEF Reached
  <2> QED BY <1>15, <2>1, <2>4, <2>5, <2>6, <2>7 DEF TreeOf
<1>20. \A k \in 0..(n - 1) : /\ r[k].type = table[k].type /\ r[k].mount = table[k].mount
                             /\ r[k].data = table[k].data
  BY <1>3, <1>11, <1>15
<1>21. \A k \in 0..(n - 1) : k # dir => r[k].dirents = table[k].dirents BY <1>15
<1>22. r[dir].dirents = Append(table[dir].dirents, [name |-> name, inode |-> n])
  BY <1>3, <1>5, <1>7, <1>11, <1>15
<1> QED BY <1>15, <1>19, <1>20, <1>21, <1>22 DEF NodeAdded

-----------------------------------------------------------------------------
(* Lookups *)

(* Among some positions one is the first. *)
LEMMA LeastOf ==
  ASSUME NEW T, T \subseteq Nat, T # {}
  PROVE  \E f \in T : \A g \in T : f <= g
<1> DEFINE R == {p \in Nat \X Nat : p[1] < p[2]}
<1>1. IsWellFoundedOn(R, Nat) BY NatLessThanWellFounded DEF OpToRel
<1>2. PICK f \in T : \A g \in T : ~(<<g, f>> \in R)
  <2> HIDE DEF R
  <2> QED BY <1>1, WFMin
<1>3. ASSUME NEW g \in T PROVE f <= g
  <2>1. g \in Nat /\ f \in Nat /\ <<g, f>> \in Nat \X Nat OBVIOUS
  <2>2. ~(<<g, f>>[1] < <<g, f>>[2]) BY <1>2, <2>1
  <2> QED BY <2>1, <2>2
<1> QED BY <1>3

(* The loops over directories find it. *)
LEMMA FirstOf ==
  ASSUME NEW T, T \subseteq Nat, T # {}
  PROVE  (CHOOSE f \in T : \A g \in T : f <= g) \in T
BY LeastOf, Zenon

(* What a lookup answers *)
AnswerOk(all, r) ==
  /\ r.st \in {"found", "error", "loop"}
  /\ r.st = "found" => NodeOk(all, devices, r.node)

(* The three answers *)
LEMMA Answers ==
  ASSUME NEW all
  PROVE  /\ AnswerOk(all, Error) /\ AnswerOk(all, Loop)
         /\ \A node : NodeOk(all, devices, node) => AnswerOk(all, Found(node))
BY DEF AnswerOk, Error, Loop, Found

(* The root of a file system *)
LEMMA RootOk ==
  ASSUME NEW all, TreesOk(all), NEW f \in 0..2
  PROVE  NodeOk(all, devices, Root(f)) /\ Root(f).fs = f /\ Root(f).inode = 0
<1>1. Root(f) \in FileNode /\ Root(f).fs = f /\ Root(f).inode = 0 BY DEF Root, FileNode
<1>2. CASE f = 0 BY <1>1, <1>2 DEF NodeOk, Devfs, IsDevice
<1>3. CASE f # 0
  <2>1. f \in 1..2 BY <1>3
  <2>2. PICK n : TreeOf(all[f], n) BY <2>1 DEF TreesOk, Tree
  <2>3. 0 \in DOMAIN all[f] BY <2>2 DEF TreeOf
  <2> QED BY <1>1, <1>3, <2>3 DEF NodeOk, Devfs
<1> QED BY <1>2, <1>3

(* ramfs_node_lookup *)
LEMMA RamfsLookupOk ==
  ASSUME NEW all, TreesOk(all), NEW node, NodeOk(all, devices, node), node.fs # Devfs, NEW name
  PROVE  AnswerOk(all, RamfsLookup(all, node, name))
<1>1. PICK f, d : f = node.fs /\ d = node.inode OBVIOUS
<1>2. f \in 1..2 /\ d \in DOMAIN all[f] BY <1>1 DEF NodeOk, FileNode, Devfs
<1>3. PICK table : table = all[f] OBVIOUS
<1>4. PICK n : TreeOf(table, n) BY <1>2, <1>3 DEF TreesOk, Tree
<1>5. n \in Nat \ {0} /\ table \in [0..(n - 1) -> NodeType] /\ d \in 0..(n - 1)
  BY <1>2, <1>3, <1>4 DEF TreeOf
<1>6. CASE table[d].type # "dir" \/ Entries(table, d, name) = {}
  BY <1>1, <1>3, <1>6, Answers DEF RamfsLookup
<1>7. CASE ~(table[d].type # "dir" \/ Entries(table, d, name) = {})
  <2>1. PICK inode : inode = FindNode(table, d, name) OBVIOUS
  <2>2. RamfsLookup(all, node, name) =
          IF table[inode].mount # Nil THEN Found(Root(table[inode].mount))
          ELSE Found([fs |-> f, inode |-> inode])
    BY <1>1, <1>3, <1>7, <2>1 DEF RamfsLookup
  <2>3. inode \in 0..(n - 1)
    <3>1. table[d].dirents \in Seq(Dirent) BY <1>5 DEF NodeType
    <3>2. Entries(table, d, name) \subseteq 1..Len(table[d].dirents) BY <3>1 DEF Entries
    <3>3. PICK i \in Entries(table, d, name) : inode = table[d].dirents[i].inode
      <4>1. Entries(table, d, name) \subseteq Nat /\ Entries(table, d, name) # {} BY <1>7, <3>2
      <4> QED BY <2>1, <4>1, FirstOf DEF FindNode
    <3>4. inode \in (d + 1)..(n - 1) BY <1>4, <1>5, <3>2, <3>3 DEF TreeOf, EntriesOk, EntryOk
    <3> QED BY <1>5, <3>4
  <2>4. table[inode].mount \in 0..2 \cup {Nil} BY <1>5, <2>3 DEF NodeType
  <2>5. CASE table[inode].mount # Nil
    <3>1. NodeOk(all, devices, Root(table[inode].mount)) BY <2>4, <2>5, RootOk
    <3> QED BY <2>2, <2>5, <3>1, Answers
  <2>6. CASE table[inode].mount = Nil
    <3>1. PICK x : x = [fs |-> f, inode |-> inode] OBVIOUS
    <3>2. x \in FileNode /\ x.fs = f /\ x.inode = inode BY <1>2, <1>5, <2>3, <3>1 DEF FileNode
    <3>3. NodeOk(all, devices, x) BY <1>2, <1>3, <1>5, <2>3, <3>2 DEF NodeOk, Devfs
    <3> QED BY <2>2, <2>6, <3>1, <3>3, Answers
  <2> QED BY <2>5, <2>6
<1> QED BY <1>6, <1>7

(* devfs_lookup_node *)
LEMMA DevfsLookupOk ==
  ASSUME devices \in Seq(Range(Device)), NEW all, NEW node, NEW name
  PROVE  AnswerOk(all, DevfsLookup(node, name))
<1>1. PICK is : is = {i \in DOMAIN devices : devices[i] = name} OBVIOUS
<1>2. PICK i : i = CHOOSE k \in is : \A j \in is : k <= j OBVIOUS
<1>3. CASE IsDevice(node) BY <1>3, Answers DEF DevfsLookup
<1>4. CASE ~IsDevice(node) /\ is = {} BY <1>1, <1>4, Answers DEF DevfsLookup
<1>5. CASE ~IsDevice(node) /\ is # {}
  <2>1. is \subseteq 1..Len(devices) BY <1>1
  <2>2. i \in 1..Len(devices)
    <3>1. is \subseteq Nat BY <2>1
    <3>2. i \in is BY <1>2, <1>5, <3>1, FirstOf
    <3> QED BY <2>1, <3>2
  <2>3. PICK x : x = [fs |-> Devfs, inode |-> 127 + i] OBVIOUS
  <2>4. x \in FileNode /\ x.fs = Devfs /\ x.inode = 127 + i BY <2>2, <2>3 DEF FileNode, Devfs
  <2>5. NodeOk(all, devices, x) BY <2>2, <2>4 DEF NodeOk
  <2>6. DevfsLookup(node, name) = Found(x) BY <1>1, <1>2, <1>5, <2>3 DEF DevfsLookup
  <2> QED BY <2>5, <2>6, Answers
<1> QED BY <1>3, <1>4, <1>5

(* file_lookup_relative *)
LookupStep(all, d, r, name) ==
  IF r.st # "found" \/ name = "." THEN r
  ELSE IF r.node.fs = Devfs THEN DevfsLookup(r.node, name)
  ELSE RamfsLookup(all, r.node, name)
LookupLoop == INSTANCE FoldTheorems WITH op <- LookupStep

(* F[k] is the answer for the first k names. *)
LookupRuns(F, all, start, names) ==
  /\ F[0] = Found(start) /\ F[Len(names)] = Lookup(all, start, names)
  /\ \A k \in 0..(Len(names) - 1) : F[k + 1] = LookupStep(all, Nil, F[k], names[k + 1])

(* The names of a path, one after the other *)
LEMMA LookupRun ==
  ASSUME NEW all, NEW start, NEW Elt, NEW names \in Seq(Elt)
  PROVE  \E F : LookupRuns(F, all, start, names)
<1>1. PICK F : LookupLoop!Runs(F, all, Nil, Found(start), names) BY LookupLoop!FoldRun
<1>2. LookupLoop!Loop(all, Nil, Found(start), names) = Lookup(all, start, names)
  BY Zenon DEF LookupLoop!Loop, LookupStep, Lookup, LookupLoop!FoldLeft, FoldLeft,
               LookupLoop!MapThenFoldSet, MapThenFoldSet, LookupLoop!Max, Max
<1>3. LookupRuns(F, all, start, names) BY <1>1, <1>2, Zenon DEF LookupLoop!Runs, LookupRuns
<1> QED BY <1>3

(* A lookup answers with a node that exists, with an error, or never. *)
LEMMA LookupOk ==
  ASSUME NEW all, TreesOk(all), devices \in Seq(Range(Device)),
         NEW start, NodeOk(all, devices, start), NEW Elt, NEW names \in Seq(Elt)
  PROVE  AnswerOk(all, Lookup(all, start, names))
<1>1. PICK F : LookupRuns(F, all, start, names) BY LookupRun
<1>2. PICK n \in Nat : n = Len(names) OBVIOUS
<1> DEFINE S == {k \in Nat : k <= n => AnswerOk(all, F[k])}
<1>3. 0 \in S BY <1>1, Answers DEF LookupRuns
<1>4. ASSUME NEW k \in Nat, k \in S PROVE k + 1 \in S
  <2> SUFFICES ASSUME k + 1 <= n PROVE AnswerOk(all, F[k + 1]) OBVIOUS
  <2>1. PICK r, name : r = F[k] /\ name = names[k + 1] OBVIOUS
  <2>2. AnswerOk(all, r) BY <1>4, <2>1
  <2>3. k \in 0..(n - 1) OBVIOUS
  <2>4. F[k + 1] = LookupStep(all, Nil, r, name) BY <1>1, <1>2, <2>1, <2>3 DEF LookupRuns
  <2>5. AnswerOk(all, LookupStep(all, Nil, r, name))
    BY <2>2, RamfsLookupOk, DevfsLookupOk DEF LookupStep, AnswerOk
  <2> QED BY <2>4, <2>5
<1>5. Nat \subseteq S
  <2> HIDE DEF S
  <2> QED BY <1>3, <1>4, LookupLoop!SetInduction
<1> QED BY <1>1, <1>2, <1>5 DEF LookupRuns

-----------------------------------------------------------------------------
(* init_vfs *)

(* A path of one name *)
LEMMA LookupOne ==
  ASSUME NEW all, NEW start, NEW a
  PROVE  Lookup(all, start, <<a>>) = LookupStep(all, Nil, Found(start), a)
<1>1. PICK s : s = <<a>> OBVIOUS
<1>2. s \in Seq({a}) /\ Len(s) = 1 /\ s[1] = a BY <1>1
<1>3. PICK F : LookupRuns(F, all, start, s) BY <1>2, LookupRun
<1>4. 0 \in 0..(Len(s) - 1) /\ 0 + 1 = 1 BY <1>2
<1>5. F[1] = LookupStep(all, Nil, F[0], s[1]) BY <1>3, <1>4, Zenon DEF LookupRuns
<1> QED BY <1>1, <1>2, <1>3, <1>5, Zenon DEF LookupRuns

(* And one of two *)
LEMMA LookupTwo ==
  ASSUME NEW all, NEW start, NEW a, NEW b
  PROVE  Lookup(all, start, <<a, b>>) =
           LookupStep(all, Nil, LookupStep(all, Nil, Found(start), a), b)
<1>1. PICK s : s = <<a, b>> OBVIOUS
<1>2. s \in Seq({a, b}) /\ Len(s) = 2 /\ s[1] = a /\ s[2] = b BY <1>1
<1>3. PICK F : LookupRuns(F, all, start, s) BY <1>2, LookupRun
<1>4. 0 \in 0..(Len(s) - 1) /\ 0 + 1 = 1 /\ 1 \in 0..(Len(s) - 1) /\ 1 + 1 = 2 BY <1>2
<1>5. F[1] = LookupStep(all, Nil, F[0], s[1]) BY <1>3, <1>4, Zenon DEF LookupRuns
<1>6. F[2] = LookupStep(all, Nil, F[1], s[2]) BY <1>3, <1>4, Zenon DEF LookupRuns
<1> QED BY <1>1, <1>2, <1>3, <1>5, <1>6, Zenon DEF LookupRuns

(* In a tree, an entry is found by its name. *)
LEMMA EntryFound ==
  ASSUME NEW table, NEW n, TreeOf(table, n), NEW d \in 0..(n - 1),
         NEW i \in 1..Len(table[d].dirents), NEW x, x = table[d].dirents[i]
  PROVE  Entries(table, d, x.name) # {} /\ FindNode(table, d, x.name) = x.inode
<1>1. PICK ents \in Seq(Dirent) : ents = table[d].dirents BY DEF TreeOf, NodeType
<1>2. PICK name : name = x.name OBVIOUS
<1>3. \A j \in 1..Len(ents) : ents[j].name = name <=> j = i BY <1>1, <1>2 DEF TreeOf, OneName
<1>4. DOMAIN ents = 1..Len(ents) /\ i \in 1..Len(ents) BY <1>1
<1>5. Entries(table, d, name) = {i} BY <1>1, <1>3, <1>4 DEF Entries
<1>6. (CHOOSE f \in {i} : \A g \in {i} : f <= g) = i
  <2>1. {i} \subseteq Nat /\ {i} # {} OBVIOUS
  <2>2. (CHOOSE f \in {i} : \A g \in {i} : f <= g) \in {i} BY <2>1, FirstOf
  <2> QED BY <2>2
<1>7. FindNode(table, d, name) = ents[i].inode BY <1>1, <1>5, <1>6 DEF FindNode
<1> QED BY <1>1, <1>2, <1>5, <1>7

(* So a step of the lookup goes to it, or to what is mounted there. *)
EntryAt(all, f, table, n, d, i, x) ==
  /\ f \in 1..2 /\ table = all[f] /\ TreeOf(table, n) /\ d \in 0..(n - 1)
  /\ i \in 1..Len(table[d].dirents) /\ x = table[d].dirents[i] /\ x.name # "."

NodeAt(f, d) == [fs |-> f, inode |-> d]
Entered(f, table, k) ==
  IF table[k].mount # Nil THEN Found(Root(table[k].mount)) ELSE Found(NodeAt(f, k))

LEMMA StepFound ==
  ASSUME NEW all, NEW f, NEW table, NEW n, NEW d, NEW i, NEW x, EntryAt(all, f, table, n, d, i, x)
  PROVE  LookupStep(all, Nil, Found(NodeAt(f, d)), x.name) = Entered(f, table, x.inode)
<1> USE DEF EntryAt
<1>1. PICK node : node = NodeAt(f, d) OBVIOUS
<1>2. node.fs = f /\ node.inode = d /\ f # 0 BY <1>1 DEF NodeAt
<1>3. Found(node).st = "found" /\ Found(node).node = node BY DEF Found
<1>4. LookupStep(all, Nil, Found(node), x.name) = RamfsLookup(all, node, x.name)
  BY <1>2, <1>3 DEF LookupStep, Devfs
<1>5. Entries(table, d, x.name) # {} /\ FindNode(table, d, x.name) = x.inode
  BY EntryFound
<1>6. table[d].type = "dir" BY DEF TreeOf, EntriesOk, EntryOk
<1>8. RamfsLookup(all, node, x.name) = Entered(f, table, x.inode)
  BY <1>2, <1>5, <1>6 DEF RamfsLookup, Entered, NodeAt
<1> QED BY <1>1, <1>4, <1>8

(* sheap_alloc finds a block of a cache, or pages. *)
LEMMA SheapAllocOk ==
  ASSUME NEW size \in Nat \ {0}
  PROVE  /\ SheapAlloc(size) \in HeapObject
         /\ size < MaxSize => Block(SheapAlloc(size)) /\ size <= SheapAlloc(size).block_size
         /\ size >= MaxSize => SheapAlloc(size).block_size = 0
<1>1. MaxSize \in Nat BY CachesAssumption
<1>2. CASE size < MaxSize
  <2> DEFINE Fits == {c \in Caches : size <= c.obj_size}
             T == {c.obj_size : c \in Fits}
             Least(c) == /\ size <= c.obj_size
                         /\ \A d \in Caches : size <= d.obj_size => c.obj_size <= d.obj_size
  <2>1. \A c \in Caches : c.obj_size \in Nat \ {0} /\ c.block_size \in Nat /\ c.obj_size <= c.block_size
    BY CachesAssumption
  <2>2. size \in 1..(MaxSize - 1) BY <1>1, <1>2
  <2>3. T \subseteq Nat /\ T # {} BY <2>1, <2>2, CachesAssumption
  <2>4. PICK least \in T : \A g \in T : least <= g
    <3> HIDE DEF T
    <3> QED BY <2>3, LeastOf
  <2>5. PICK c \in Fits : c.obj_size = least BY <2>4
  <2>6. c \in Caches /\ Least(c) BY <2>4, <2>5
  <2>7. PICK b : b = CHOOSE x \in Caches : Least(x) OBVIOUS
  <2>8. b \in Caches /\ Least(b) BY <2>6, <2>7
  <2>9. SheapAlloc(size) = [obj_size |-> b.obj_size, block_size |-> b.block_size,
                            room |-> b.block_size]
    BY <1>2, <2>7, Zenon DEF SheapAlloc
  <2>10. b.obj_size \in Nat /\ b.block_size \in Nat /\ b.obj_size <= b.block_size
         /\ size <= b.obj_size
    BY <2>1, <2>8
  <2>11. b.block_size > 0 /\ size <= b.block_size BY <2>10
  <2> QED BY <1>1, <1>2, <2>8, <2>9, <2>10, <2>11 DEF HeapObject, Block
<1>3. CASE ~(size < MaxSize)
  <2>1. PICK n \in Int : n = (size + Word) \div PageSize + (IF size % PageSize > 0 THEN 1 ELSE 0)
    BY CachesAssumption
  <2>2. PICK room \in Int : room = n * PageSize - Word BY CachesAssumption
  <2>3. SheapAlloc(size) = [obj_size |-> 0, block_size |-> 0, room |-> room]
    BY <1>3, <2>1, <2>2 DEF SheapAlloc
  <2> QED BY <1>1, <1>3, <2>3 DEF HeapObject
<1> QED BY <1>2, <1>3

(* A directory without entries *)
EmptyData == [length |-> 0, alloced |-> 0, object |-> SheapAlloc(1), written |-> {0}]

LEMMA NewNodes ==
  /\ Node \in NodeType /\ Node.dirents = <<>> /\ Node.data = EmptyData
  /\ Node.mount = Nil /\ Node.type = "null"
  /\ NewDir \in NodeType /\ NewDir.dirents = <<>> /\ NewDir.data = EmptyData
  /\ NewDir.mount = Nil /\ NewDir.type = "dir"
  /\ Sound(EmptyData) /\ 0 \in Certain(EmptyData)
<1>1. EmptyData \in Data /\ Sound(EmptyData) /\ 0 \in Certain(EmptyData)
  <2>1. 1 \in Nat /\ 1 < MaxSize /\ 1 \in Nat \ {0} BY CachesAssumption
  <2>2. SheapAlloc(1) \in HeapObject /\ Block(SheapAlloc(1)) BY <2>1, SheapAllocOk
  <2>3. EmptyData \in Data BY <2>2 DEF EmptyData, Data
  <2>4. /\ EmptyData.length = 0 /\ EmptyData.alloced = 0 /\ EmptyData.written = {0}
        /\ EmptyData.object = SheapAlloc(1)
    BY DEF EmptyData
  <2>5. 0 * BlockSize = 0 BY VfsAssumption
  <2>6. InBlock(EmptyData) BY <2>2, <2>4, <2>5 DEF InBlock, HeapObject
  <2>7. 0 \in Certain(EmptyData) BY <2>4, <2>5 DEF Certain
  <2>8. 0..0 = {0} OBVIOUS
  <2> QED BY <2>3, <2>4, <2>6, <2>7, <2>8 DEF Sound, StringOk
<1>2. /\ Node \in NodeType /\ Node.dirents = <<>> /\ Node.data = EmptyData
      /\ Node.mount = Nil /\ Node.type = "null"
  BY <1>1 DEF Node, NodeType, EmptyData
<1>3. /\ NewDir \in NodeType /\ NewDir.dirents = <<>> /\ NewDir.data = EmptyData
      /\ NewDir.mount = Nil /\ NewDir.type = "dir"
  BY <1>2 DEF NewDir, NodeType
<1> QED BY <1>1, <1>2, <1>3

(* A tree as boot code leaves it: directories, empty, nothing mounted *)
Fresh(table, n) ==
  /\ TreeOf(table, n)
  /\ \A k \in 0..(n - 1) : table[k].type = "dir" /\ table[k].mount = Nil
                           /\ table[k].data = EmptyData

(* r is the tree with a directory more in dir. *)
DirAdded(r, table, n, dir, name) ==
  /\ Fresh(r, n + 1) /\ r[n].dirents = <<>>
  /\ \A k \in 0..(n - 1) : k # dir => r[k].dirents = table[k].dirents
  /\ r[dir].dirents = Append(table[dir].dirents, [name |-> name, inode |-> n])

(* ramfs_mkdir_node keeps it so. *)
LEMMA AddDirFresh ==
  ASSUME NEW table, NEW n, Fresh(table, n), NEW dir \in 0..(n - 1),
         NEW name \in Name, Entries(table, dir, name) = {},
         NEW r, r = AddNode(table, dir, name, NewDir)
  PROVE  DirAdded(r, table, n, dir, name)
<1>2. TreeOf(table, n) /\ table[dir].type = "dir" BY DEF Fresh
<1>3. /\ TreeOf(r, n + 1) /\ r[n] = NewDir
      /\ \A k \in 0..(n - 1) : /\ r[k].type = table[k].type /\ r[k].mount = table[k].mount
                               /\ r[k].data = table[k].data
      /\ \A k \in 0..(n - 1) : k # dir => r[k].dirents = table[k].dirents
      /\ r[dir].dirents = Append(table[dir].dirents, [name |-> name, inode |-> n])
  <2>1. NodeAdded(r, table, n, dir, name, NewDir) BY <1>2, NewNodes, AddNodeTree
  <2> QED BY <2>1 DEF NodeAdded
<1>4. n \in Nat \ {0} BY <1>2 DEF TreeOf
<1>5. ASSUME NEW k \in 0..((n + 1) - 1)
      PROVE  r[k].type = "dir" /\ r[k].mount = Nil /\ r[k].data = EmptyData
  <2>1. CASE k = n BY <1>3, <2>1, NewNodes
  <2>2. CASE k # n
    <3>1. k \in 0..(n - 1) BY <1>4, <2>2
    <3> QED BY <1>3, <3>1 DEF Fresh
  <2> QED BY <2>1, <2>2
<1>6. Fresh(r, n + 1) BY <1>3, <1>5 DEF Fresh
<1> QED BY <1>3, <1>6, NewNodes DEF DirAdded

(* create_ramfs *)
TestEntry == [name |-> "test", inode |-> 1]

LEMMA NewRamfsFresh ==
  /\ Fresh(NewRamfs, 2) /\ NewRamfs[1].dirents = <<>>
  /\ NewRamfs[0].dirents = <<TestEntry>>
<1>1. PICK one : one = [i \in {0} |-> NewDir] OBVIOUS
<1>2. one \in [0..(1 - 1) -> NodeType] /\ one[0] = NewDir /\ 0..(1 - 1) = {0}
  BY <1>1, NewNodes
<1>3. Len(one[0].dirents) = 0 BY <1>2, NewNodes
<1>4. TreeOf(one, 1)
  <2>1. \A d \in 0..(1 - 1) : 1..Len(one[d].dirents) = {} BY <1>2, <1>3
  <2>2. 1..(1 - 1) = {} /\ 1 \in Nat \ {0} OBVIOUS
  <2> QED BY <1>2, <2>1, <2>2 DEF TreeOf, EntriesOk, OneEntry, OneName, Reached
<1>5. Fresh(one, 1) BY <1>2, <1>4, NewNodes DEF Fresh
<1>6. Entries(one, 0, "test") = {}
  <2>1. DOMAIN one[0].dirents = {} BY <1>2, NewNodes
  <2> QED BY <2>1 DEF Entries
<1>7. NewRamfs = AddNode(one, 0, "test", NewDir) BY <1>1 DEF NewRamfs
<1>8. 0 \in 0..(1 - 1) /\ 1 + 1 = 2 /\ "test" \in Name BY DEF Name
<1>9. /\ Fresh(NewRamfs, 1 + 1) /\ NewRamfs[1].dirents = <<>>
      /\ NewRamfs[0].dirents = Append(one[0].dirents, [name |-> "test", inode |-> 1])
  <2>1. PICK n, dir, name : n = 1 /\ dir = 0 /\ name = "test" OBVIOUS
  <2>2. /\ Fresh(one, n) /\ dir \in 0..(n - 1) /\ name \in Name /\ Entries(one, dir, name) = {}
        /\ NewRamfs = AddNode(one, dir, name, NewDir)
    BY <1>5, <1>6, <1>7, <1>8, <2>1
  <2>3. DirAdded(NewRamfs, one, n, dir, name) BY <2>2, AddDirFresh
  <2> QED BY <2>1, <2>3 DEF DirAdded
<1>10. NewRamfs[0].dirents = <<TestEntry>> BY <1>2, <1>9, NewNodes DEF TestEntry
<1> QED BY <1>8, <1>9, <1>10

(* Where "test" leads in the first file system *)
LEMMA TestFound ==
  ASSUME NEW all, NEW n, TreeOf(all[1], n), n >= 2,
         all[1][0].dirents = <<TestEntry>>, all[1][1].mount = Nil
  PROVE  LookupStep(all, Nil, Found(Root(1)), "test") = Found(NodeAt(1, 1))
<1>1. PICK table : table = all[1] OBVIOUS
<1>2. PICK f, d, i : f = 1 /\ d = 0 /\ i = 1 OBVIOUS
<1>3. PICK x : x = table[d].dirents[i] OBVIOUS
<1>4. n \in Nat BY DEF TreeOf
<1>5. f \in 1..2 /\ d \in 0..(n - 1) /\ table = all[f] /\ TreeOf(table, n) BY <1>1, <1>2, <1>4
<1>6. i \in 1..Len(table[d].dirents) /\ x = TestEntry BY <1>1, <1>2, <1>3
<1>7. x.name = "test" /\ x.name # "." /\ x.inode = 1 BY <1>6 DEF TestEntry
<1>8. LookupStep(all, Nil, Found(NodeAt(f, d)), x.name) = Entered(f, table, x.inode)
  <2>1. EntryAt(all, f, table, n, d, i, x) BY <1>3, <1>5, <1>6, <1>7 DEF EntryAt
  <2> QED BY <2>1, StepFound
<1>9. Root(1) = NodeAt(1, 0) BY DEF Root, NodeAt
<1> QED BY <1>1, <1>2, <1>7, <1>8, <1>9 DEF Entered

(* After k of the directories in /test were made *)
Booted(all, k) ==
  /\ all = [f \in 1..1 |-> all[f]] /\ Fresh(all[1], k + 2)
  /\ all[1][0].dirents = <<TestEntry>>
  /\ Len(all[1][1].dirents) = k
  /\ \A i \in 1..k : all[1][1].dirents[i].name = BootDir[i] /\ all[1][1].dirents[i].inode = i + 1

(* One directory more *)
LEMMA BootStep ==
  ASSUME NEW all, NEW k \in Nat, Booted(all, k), k + 1 <= Len(BootDir)
  PROVE  Booted(Mkdir(all, <<"test">>, BootDir[k + 1]), k + 1)
<1>1. PICK table : table = all[1] OBVIOUS
<1>2. PICK n \in Nat : n = k + 2 OBVIOUS
<1>3. Fresh(table, n) /\ TreeOf(table, n) BY <1>1, <1>2 DEF Booted, Fresh
<1>4. 0 \in 0..(n - 1) /\ 1 \in 0..(n - 1) BY <1>2
<1>5. Lookup(all, Root(1), <<"test">>) = Found(NodeAt(1, 1))
  <2>1. table[1].mount = Nil BY <1>3, <1>4 DEF Fresh
  <2>2. LookupStep(all, Nil, Found(Root(1)), "test") = Found(NodeAt(1, 1))
    <3>1. table[0].dirents = <<TestEntry>> BY <1>1 DEF Booted
    <3>2. /\ TreeOf(all[1], n) /\ n >= 2 /\ all[1][0].dirents = <<TestEntry>>
          /\ all[1][1].mount = Nil
      BY <1>1, <1>2, <1>3, <2>1, <3>1
    <3> QED BY <3>2, TestFound, Zenon
  <2> QED BY <2>2, LookupOne, Zenon
<1>6. PICK name : name = BootDir[k + 1] OBVIOUS
<1>7. name \in Name BY <1>6, VfsAssumption DEF Name
<1>8. PICK new : new = AddNode(table, 1, name, NewDir) OBVIOUS
<1>9. PICK r : r = Mkdir(all, <<"test">>, name) OBVIOUS
<1>10. r = [all EXCEPT ![1] = new]
  <2>1. PICK dir : dir = NodeAt(1, 1) OBVIOUS
  <2>2. dir.fs = 1 /\ dir.inode = 1 /\ Found(dir).node = dir BY <2>1 DEF Found, NodeAt
  <2> QED BY <1>1, <1>5, <1>8, <1>9, <2>1, <2>2 DEF Mkdir
<1>11. r = [f \in 1..1 |-> r[f]] /\ r[1] = new
  <2>1. PICK D : D = 1..1 OBVIOUS
  <2>2. all = [f \in D |-> all[f]] /\ 1 \in D BY <2>1 DEF Booted
  <2>3. r = [f \in D |-> r[f]] /\ r[1] = new BY <1>10, <2>2
  <2> QED BY <2>1, <2>3
<1>12. PICK ents \in Seq(Dirent) : ents = table[1].dirents BY <1>3, <1>4 DEF TreeOf, NodeType
<1>13. /\ Len(ents) = k
       /\ \A i \in 1..k : ents[i].name = BootDir[i] /\ ents[i].inode = i + 1
  BY <1>1, <1>12 DEF Booted
<1>14. Entries(table, 1, name) = {}
  <2>1. k + 1 \in DOMAIN BootDir /\ \A i \in 1..k : i \in DOMAIN BootDir /\ i # k + 1
    BY VfsAssumption
  <2>2. \A i \in 1..k : BootDir[i] # name BY <1>6, <2>1, VfsAssumption
  <2>3. \A i \in DOMAIN ents : ents[i].name # name BY <1>13, <2>2
  <2> QED BY <1>12, <2>3 DEF Entries
<1>15. DirAdded(new, table, n, 1, name)
  <2>1. PICK dir : dir = 1 OBVIOUS
  <2>2. dir \in 0..(n - 1) /\ Entries(table, dir, name) = {} /\ new = AddNode(table, dir, name, NewDir)
    BY <1>4, <1>8, <1>14, <2>1
  <2>3. DirAdded(new, table, n, dir, name) BY <1>3, <1>7, <2>2, AddDirFresh
  <2> QED BY <2>1, <2>3
<1>16. Fresh(new, (k + 1) + 2)
  <2>1. n + 1 = (k + 1) + 2 BY <1>2
  <2> QED BY <1>15, <2>1 DEF DirAdded
<1>17. new[0].dirents = <<TestEntry>>
  <2>1. table[0].dirents = <<TestEntry>> BY <1>1 DEF Booted
  <2>2. new[0].dirents = table[0].dirents BY <1>4, <1>15 DEF DirAdded
  <2> QED BY <2>1, <2>2
<1>18. PICK ent \in Dirent : ent = [name |-> name, inode |-> n] BY <1>7 DEF Dirent
<1>19. new[1].dirents = Append(ents, ent) BY <1>12, <1>15, <1>18 DEF DirAdded
<1>20. Len(new[1].dirents) = k + 1 BY <1>12, <1>13, <1>19
<1>21. ASSUME NEW i \in 1..(k + 1)
       PROVE  new[1].dirents[i].name = BootDir[i] /\ new[1].dirents[i].inode = i + 1
  <2>1. CASE i = k + 1
    <3>1. new[1].dirents[i] = ent BY <1>12, <1>13, <1>19, <2>1
    <3>2. ent.name = name /\ ent.inode = n BY <1>18
    <3> QED BY <1>2, <1>6, <2>1, <3>1, <3>2
  <2>2. CASE i # k + 1
    <3>1. i \in 1..k BY <2>2
    <3>2. new[1].dirents[i] = ents[i] BY <1>12, <1>13, <1>19, <3>1
    <3> QED BY <1>13, <3>1, <3>2
  <2> QED BY <2>1, <2>2
<1>22. Booted(r, k + 1) BY <1>11, <1>16, <1>17, <1>20, <1>21 DEF Booted
<1> QED BY <1>6, <1>9, <1>22

BootOp(c, d, all, name) == Mkdir(all, <<"test">>, name)
BootLoop == INSTANCE FoldTheorems WITH op <- BootOp

BootDirs == FoldLeft(LAMBDA all, name : Mkdir(all, <<"test">>, name), <<NewRamfs>>, BootDir)

(* All of them *)
LEMMA AllBooted == Booted(BootDirs, Len(BootDir))
<1>1. BootDir \in Seq(STRING) /\ Len(BootDir) \in Nat BY VfsAssumption
<1>2. PICK base : base = <<NewRamfs>> OBVIOUS
<1>3. PICK F : BootLoop!Runs(F, Nil, Nil, base, BootDir) BY <1>1, BootLoop!FoldRun
<1>4. BootLoop!Loop(Nil, Nil, base, BootDir) = BootDirs
  BY <1>2, Zenon DEF BootLoop!Loop, BootOp, BootDirs, BootLoop!FoldLeft, FoldLeft,
               BootLoop!MapThenFoldSet, MapThenFoldSet, BootLoop!Max, Max
<1>5. Booted(base, 0)
  <2>1. base = [f \in 1..1 |-> base[f]] /\ base[1] = NewRamfs BY <1>2
  <2>2. 0 + 2 = 2 /\ Len(<<>>) = 0 OBVIOUS
  <2> QED BY <2>1, <2>2, NewRamfsFresh DEF Booted
<1> DEFINE S == {k \in Nat : k <= Len(BootDir) => Booted(F[k], k)}
<1>6. 0 \in S BY <1>3, <1>5 DEF BootLoop!Runs
<1>7. ASSUME NEW k \in Nat, k \in S PROVE k + 1 \in S
  <2>1. SUFFICES ASSUME k + 1 <= Len(BootDir) PROVE Booted(F[k + 1], k + 1) OBVIOUS
  <2>2. k \in 0..(Len(BootDir) - 1) BY <1>1, <2>1
  <2>3. Booted(F[k], k) BY <1>1, <1>7, <2>1
  <2>4. F[k + 1] = Mkdir(F[k], <<"test">>, BootDir[k + 1])
    BY <1>3, <2>2, Zenon DEF BootLoop!Runs, BootOp
  <2>5. Booted(Mkdir(F[k], <<"test">>, BootDir[k + 1]), k + 1) BY <2>1, <2>3, BootStep
  <2> QED BY <2>4, <2>5
<1>8. Nat \subseteq S
  <2> HIDE DEF S
  <2> QED BY <1>6, <1>7, BootLoop!SetInduction
<1>9. Booted(F[Len(BootDir)], Len(BootDir)) BY <1>1, <1>8
<1>10. F[Len(BootDir)] = BootDirs BY <1>3, <1>4, Zenon DEF BootLoop!Runs
<1> QED BY <1>9, <1>10

(* What leaves types and entries alone leaves a tree. *)
LEMMA SameTree ==
  ASSUME NEW table, NEW n, TreeOf(table, n), NEW r \in [0..(n - 1) -> NodeType],
         \A k \in 0..(n - 1) : r[k].type = table[k].type /\ r[k].dirents = table[k].dirents
  PROVE  TreeOf(r, n)
<1>1. n \in Nat \ {0} BY DEF TreeOf
<1>2. EntriesOk(r, n) BY DEF TreeOf, EntriesOk, EntryOk
<1>3. OneEntry(r, n)
  <2>1. OneEntry(table, n) BY DEF TreeOf
  <2>2. SUFFICES ASSUME NEW d \in 0..(n - 1), NEW e \in 0..(n - 1),
                        NEW i \in 1..Len(r[d].dirents), NEW j \in 1..Len(r[e].dirents),
                        r[d].dirents[i].inode = r[e].dirents[j].inode
                 PROVE  d = e /\ i = j
    BY DEF OneEntry
  <2>3. /\ i \in 1..Len(table[d].dirents) /\ j \in 1..Len(table[e].dirents)
        /\ table[d].dirents[i].inode = table[e].dirents[j].inode
    BY <2>2
  <2> QED BY <2>1, <2>3 DEF OneEntry
<1>4. OneName(r, n)
  <2>1. OneName(table, n) BY DEF TreeOf
  <2> QED BY <2>1 DEF OneName
<1>5. Reached(r, n)
  <2>1. Reached(table, n) BY DEF TreeOf
  <2> QED BY <2>1 DEF Reached
<1> QED BY <1>1, <1>2, <1>3, <1>4, <1>5 DEF TreeOf

(* r is the table with m mounted on its node k. *)
MountedAt(r, table, n, k, m) ==
  /\ TreeOf(r, n) /\ r[k].mount = m
  /\ \A j \in 0..(n - 1) : /\ r[j].type = table[j].type /\ r[j].dirents = table[j].dirents
                           /\ r[j].data = table[j].data
                           /\ j # k => r[j].mount = table[j].mount

(* ramfs_mount_node *)
LEMMA MountTree ==
  ASSUME NEW table, NEW n, TreeOf(table, n), NEW k \in 0..(n - 1), NEW m \in 0..2,
         NEW r, r = [table EXCEPT ![k].mount = m]
  PROVE  MountedAt(r, table, n, k, m)
<1>1. n \in Nat \ {0} /\ table \in [0..(n - 1) -> NodeType] BY DEF TreeOf
<1>2. PICK old \in NodeType : old = table[k] BY <1>1
<1>3. PICK new : new = [old EXCEPT !.mount = m] OBVIOUS
<1>4. /\ new \in NodeType /\ new.type = old.type /\ new.dirents = old.dirents /\ new.data = old.data
      /\ new.mount = m
  BY <1>2, <1>3 DEF NodeType
<1>5. r = [table EXCEPT ![k] = new] BY <1>2, <1>3
<1>6. r \in [0..(n - 1) -> NodeType] /\ r[k] = new /\ \A j \in 0..(n - 1) : j # k => r[j] = table[j]
  BY <1>1, <1>4, <1>5
<1>7. \A j \in 0..(n - 1) : /\ r[j].type = table[j].type /\ r[j].dirents = table[j].dirents
                            /\ r[j].data = table[j].data
                            /\ j # k => r[j].mount = table[j].mount
  BY <1>2, <1>4, <1>6
<1>8. TreeOf(r, n) BY <1>6, <1>7, SameTree
<1> QED BY <1>4, <1>6, <1>7, <1>8 DEF MountedAt

(* file_mount_filesystem, where the path leads to a node in memory *)
LEMMA MountOnAt ==
  ASSUME NEW all, NEW path, NEW r, r = Lookup(all, Root(1), path), r.st = "found",
         NEW f, NEW k, f = r.node.fs, k = r.node.inode, f # Devfs, NEW m,
         NEW D, all = [g \in D |-> all[g]], f \in D,
         NEW new, new = [all[f] EXCEPT ![k].mount = m],
         NEW a, a = MountOn(all, path, m)
  PROVE  a = [g \in D |-> IF g = f THEN new ELSE all[g]]
<1>1. a = [all EXCEPT ![f][k].mount = m] BY DEF MountOn
<1> QED BY <1>1

(* Strings without a byte have no hole. *)
LEMMA FreshOk ==
  ASSUME NEW table, NEW n, TreeOf(table, n), \A k \in 0..(n - 1) : table[k].data = EmptyData
  PROVE  Tree(table) /\ NoHole(table)
<1>1. n \in Nat /\ DOMAIN table = 0..(n - 1) BY DEF TreeOf
<1>2. 0..0 \subseteq {0} OBVIOUS
<1>3. NoHole(table) BY <1>1, <1>2, NewNodes DEF NoHole
<1> QED BY <1>1, <1>3 DEF Tree

(* What init_vfs leaves: two trees *)
LEMMA InitTrees == TreesOk(InitVfs)
<1>1. PICK dirs : dirs = BootDirs OBVIOUS
<1>2. PICK L \in Nat : L = Len(BootDir) BY VfsAssumption
<1>3. Booted(dirs, L) BY <1>1, <1>2, AllBooted
<1>4. PICK n \in Nat : n = L + 2 OBVIOUS
<1>5. PICK table : table = dirs[1] OBVIOUS
<1>6. Fresh(table, n) /\ TreeOf(table, n) BY <1>3, <1>4, <1>5 DEF Booted, Fresh
<1>7. PICK i \in 1..L : BootDir[i] = "somedir" BY <1>2, VfsAssumption DEF Range
<1>8. PICK all : all = Append(dirs, NewRamfs) OBVIOUS
<1>9. all = [f \in 1..2 |-> all[f]] /\ all[1] = table /\ all[2] = NewRamfs
  <2>1. dirs \in Seq({table}) /\ Len(dirs) = 1 BY <1>3, <1>5 DEF Booted
  <2>2. all \in Seq({table, NewRamfs}) /\ Len(all) = 2 /\ all[1] = table /\ all[2] = NewRamfs
    <3>1. PICK S : S = {table, NewRamfs} OBVIOUS
    <3>2. dirs \in Seq(S) /\ NewRamfs \in S /\ dirs[1] = table BY <1>5, <2>1, <3>1
    <3>4. PICK new : new = NewRamfs OBVIOUS
    <3>5. new \in S /\ all = Append(dirs, new) BY <1>8, <3>2, <3>4
    <3>6. all \in Seq(S) BY <3>2, <3>5
    <3>10. dirs \in Seq(S) BY <3>2
    <3>7. Len(all) = 2
      <4>1. Len(all) = Len(dirs) + 1 BY <3>5, <3>10
      <4> QED BY <2>1, <4>1
    <3>8. all[1] = dirs[1] BY <2>1, <3>2, <3>5
    <3>9. all[2] = new
      <4>1. all[Len(dirs) + 1] = new BY <3>5, <3>10
      <4>2. Len(dirs) + 1 = 2 BY <2>1
      <4> QED BY <4>1, <4>2
    <3>3. all \in Seq(S) /\ Len(all) = 2 /\ all[1] = table /\ all[2] = NewRamfs
      BY <3>2, <3>4, <3>6, <3>7, <3>8, <3>9
    <3> QED BY <3>1, <3>3
  <2> QED BY <2>2
<1>10. PICK x : x = table[1].dirents[i] OBVIOUS
<1>11. PICK k \in 2..(n - 1) : k = i + 1 BY <1>4
<1>12. i \in 1..Len(table[1].dirents) /\ x.name = "somedir" /\ x.inode = k
  BY <1>3, <1>5, <1>7, <1>10, <1>11 DEF Booted
<1>13. 1 \in 0..(n - 1) /\ 0 \in 0..(n - 1) /\ k \in 0..(n - 1) /\ k # 1 BY <1>4
<1>14. ASSUME NEW any, NEW t, t = any[1], TreeOf(t, n), t[1].mount = Nil,
              t[0].dirents = table[0].dirents, t[1].dirents = table[1].dirents
       PROVE  Lookup(any, Root(1), <<"test", "somedir">>) = Entered(1, t, k)
  <2>1. LookupStep(any, Nil, Found(Root(1)), "test") = Found(NodeAt(1, 1))
    <3>1. t[0].dirents = <<TestEntry>> BY <1>3, <1>5, <1>14 DEF Booted
    <3>2. /\ TreeOf(any[1], n) /\ n >= 2 /\ any[1][0].dirents = <<TestEntry>>
          /\ any[1][1].mount = Nil
      BY <1>4, <1>14, <3>1
    <3> QED BY <3>2, TestFound, Zenon
  <2>2. LookupStep(any, Nil, Found(NodeAt(1, 1)), "somedir") = Entered(1, t, k)
    <3>1. PICK f, d : f = 1 /\ d = 1 OBVIOUS
    <3>2. EntryAt(any, f, t, n, d, i, x) BY <1>10, <1>12, <1>13, <1>14, <3>1 DEF EntryAt
    <3>3. LookupStep(any, Nil, Found(NodeAt(f, d)), x.name) = Entered(f, t, x.inode)
      BY <3>2, StepFound
    <3> QED BY <1>12, <3>1, <3>3
  <2> QED BY <2>1, <2>2, LookupTwo
<1>15. Lookup(all, Root(1), <<"test", "somedir">>) = Found(NodeAt(1, k))
  <2>1. table[1].mount = Nil /\ table[k].mount = Nil BY <1>6, <1>13 DEF Fresh
  <2>2. Lookup(all, Root(1), <<"test", "somedir">>) = Entered(1, table, k)
    BY <1>6, <1>9, <1>14, <2>1
  <2> QED BY <2>1, <2>2 DEF Entered
<1>16. PICK mounted : mounted = MountOn(all, <<"test", "somedir">>, 2) OBVIOUS
<1>17. PICK t : t = [table EXCEPT ![k].mount = 2] OBVIOUS
<1>18. mounted = [f \in 1..2 |-> mounted[f]] /\ mounted[1] = t /\ mounted[2] = NewRamfs
  <2>1. PICK node : node = NodeAt(1, k) OBVIOUS
  <2>2. node.fs = 1 /\ node.inode = k /\ Found(node).st = "found" /\ Found(node).node = node
    BY <2>1 DEF NodeAt, Found
  <2>3. PICK f, D, r : f = 1 /\ D = 1..2 /\ r = Lookup(all, Root(1), <<"test", "somedir">>) OBVIOUS
  <2>4. r.st = "found" /\ f = r.node.fs /\ k = r.node.inode /\ f # Devfs /\ f \in D
    BY <1>15, <2>1, <2>2, <2>3 DEF Devfs
  <2>8. all = [g \in D |-> all[g]] BY <1>9, <2>3
  <2>9. t = [all[f] EXCEPT ![k].mount = 2] BY <1>9, <1>17, <2>3
  <2>5. mounted = [g \in D |-> IF g = f THEN t ELSE all[g]]
    BY <1>16, <2>3, <2>4, <2>8, <2>9, MountOnAt
  <2>6. 1 \in D /\ 2 \in D BY <2>3
  <2>7. mounted = [g \in D |-> mounted[g]] /\ mounted[1] = t /\ mounted[2] = all[2]
    BY <2>3, <2>5, <2>6
  <2> QED BY <1>9, <2>3, <2>7
<1>19. MountedAt(t, table, n, k, 2)
  <2>1. PICK m \in 0..2 : m = 2 OBVIOUS
  <2>2. MountedAt(t, table, n, k, m) BY <1>6, <1>13, <1>17, <2>1, MountTree
  <2> QED BY <2>1, <2>2
<1>20. Lookup(mounted, Root(1), <<"test", "somedir">>) = Found(Root(2))
  <2>1. /\ TreeOf(t, n) /\ t[1].mount = Nil /\ t[k].mount = 2
        /\ t[0].dirents = table[0].dirents /\ t[1].dirents = table[1].dirents
    BY <1>6, <1>13, <1>19 DEF MountedAt, Fresh
  <2>2. Lookup(mounted, Root(1), <<"test", "somedir">>) = Entered(1, t, k)
    BY <1>14, <1>18, <2>1
  <2>3. Nil # 2 BY VfsAssumption
  <2> QED BY <2>1, <2>2, <2>3 DEF Entered
<1>21. PICK u : u = AddNode(NewRamfs, 0, "wut", NewDir) OBVIOUS
<1>22. InitVfs = [mounted EXCEPT ![2] = u]
  <2>1. Root(2).fs = 2 /\ Root(2).inode = 0 /\ Found(Root(2)).node = Root(2) BY DEF Root, Found
  <2>2. InitVfs = Mkdir(mounted, <<"test", "somedir">>, "wut")
    BY <1>1, <1>8, <1>16, Zenon DEF InitVfs, BootDirs
  <2> QED BY <1>18, <1>20, <1>21, <2>1, <2>2 DEF Mkdir
<1>23. Fresh(u, 3)
  <2>1. PICK m, d, name : m = 2 /\ d = 0 /\ name = "wut" OBVIOUS
  <2>2. Entries(NewRamfs, 0, "wut") = {}
    <3>1. \A j \in DOMAIN <<TestEntry>> : <<TestEntry>>[j].name = "test" BY DEF TestEntry
    <3> QED BY <3>1, NewRamfsFresh DEF Entries
  <2>3. /\ Fresh(NewRamfs, m) /\ d \in 0..(m - 1) /\ name \in Name /\ Entries(NewRamfs, d, name) = {}
        /\ u = AddNode(NewRamfs, d, name, NewDir) /\ m + 1 = 3
    BY <1>21, <2>1, <2>2, NewRamfsFresh DEF Name
  <2>4. DirAdded(u, NewRamfs, m, d, name) BY <2>3, AddDirFresh
  <2> QED BY <2>3, <2>4 DEF DirAdded
<1>24. Tree(u) /\ NoHole(u) BY <1>23, FreshOk DEF Fresh
<1>25. Tree(t) /\ NoHole(t)
  <2>1. TreeOf(t, n) /\ \A j \in 0..(n - 1) : t[j].data = EmptyData
    BY <1>6, <1>19 DEF MountedAt, Fresh
  <2> QED BY <2>1, FreshOk
<1>26. InitVfs = [f \in 1..2 |-> InitVfs[f]] /\ InitVfs[1] = t /\ InitVfs[2] = u
  <2>1. PICK D : D = 1..2 OBVIOUS
  <2>2. 1 \in D /\ 2 \in D /\ mounted = [f \in D |-> mounted[f]] BY <1>18, <2>1
  <2>3. InitVfs = [f \in D |-> InitVfs[f]] /\ InitVfs[1] = mounted[1] /\ InitVfs[2] = u
    BY <1>22, <2>2
  <2> QED BY <1>18, <2>1, <2>3
<1>27. \A f \in 1..2 : f = 1 \/ f = 2 OBVIOUS
<1> QED BY <1>24, <1>25, <1>26, <1>27 DEF TreesOk

-----------------------------------------------------------------------------
(* What a step leaves to the tasks that did not take it *)

(* No node goes away, and no byte becomes unwritten; devices are appended. *)
Grown(all, new) ==
  \A f \in 1..2 : \A i \in DOMAIN all[f] :
    i \in DOMAIN new[f] /\ Certain(all[f][i].data) \subseteq Certain(new[f][i].data)
Longer(dev, new) == \A i \in 1..Len(dev) : i \in 1..Len(new) /\ new[i] = dev[i]

(* Nodes stay where they are. *)
LEMMA NodeLater ==
  ASSUME NEW all, NEW dev, NEW all2, NEW dev2, Grown(all, all2), Longer(dev, dev2),
         NEW node, NodeOk(all, dev, node)
  PROVE  NodeOk(all2, dev2, node)
<1>1. CASE node.fs = Devfs BY <1>1 DEF NodeOk, Longer
<1>2. CASE node.fs # Devfs
  <2>1. node.fs \in 1..2 BY <1>2 DEF NodeOk, FileNode, Devfs
  <2> QED BY <1>2, <2>1 DEF NodeOk, Grown
<1> QED BY <1>1, <1>2

(* And so do the tasks' roots and directories *)
LEMMA NodesLater ==
  ASSUME NEW all, NEW dev, NEW all2, NEW dev2, Grown(all, all2), Longer(dev, dev2),
         NEW nodes, NodesOk(all, dev, nodes)
  PROVE  NodesOk(all2, dev2, nodes)
BY NodeLater DEF NodesOk

(* An open file stays as it is. *)
LEMMA ObjectLater ==
  ASSUME NEW all, NEW dev, NEW all2, NEW dev2, Grown(all, all2), Longer(dev, dev2),
         NEW obj, ObjectOk(all, dev, obj)
  PROVE  ObjectOk(all2, dev2, obj)
<1>1. PICK node : node = obj.node OBVIOUS
<1>2. obj \in ObjectType /\ NodeOk(all, dev, node) BY <1>1 DEF ObjectOk
<1>3. NodeOk(all2, dev2, node) BY <1>2, NodeLater
<1>4. CASE node.fs = Devfs
  <2>1. ASSUME IsDevice(node) PROVE dev2[node.inode - 127] = obj.device
    <3>1. node.inode - 127 \in 1..Len(dev) BY <1>2, <1>4, <2>1 DEF NodeOk
    <3>2. dev[node.inode - 127] = obj.device BY <1>1, <2>1 DEF ObjectOk
    <3> QED BY <3>1, <3>2 DEF Longer
  <2> QED BY <1>1, <1>2, <1>3, <1>4, <2>1 DEF ObjectOk
<1>5. CASE node.fs # Devfs
  <2>1. node.fs \in 1..2 /\ node.inode \in DOMAIN all[node.fs]
    BY <1>2, <1>5 DEF NodeOk, FileNode, Devfs
  <2>2. Certain(all[node.fs][node.inode].data) \subseteq Certain(all2[node.fs][node.inode].data)
    BY <2>1 DEF Grown
  <2>3. ~IsDevice(node) BY <1>5 DEF IsDevice
  <2>4. \A k \in Nat : k < obj.write_offset => k \in Certain(all[node.fs][node.inode].data)
    BY <1>1, <1>5 DEF ObjectOk
  <2>5. \A k \in Nat : k < obj.write_offset => k \in Certain(all2[node.fs][node.inode].data)
    BY <2>2, <2>4
  <2> QED BY <1>1, <1>2, <1>3, <2>3, <2>5 DEF ObjectOk
<1> QED BY <1>4, <1>5

(* And so do all of them. *)
LEMMA ObjectsLater ==
  ASSUME NEW all, NEW dev, NEW all2, NEW dev2, Grown(all, all2), Longer(dev, dev2),
         NEW objs, ObjectsOk(all, dev, objs)
  PROVE  ObjectsOk(all2, dev2, objs)
BY ObjectLater DEF ObjectsOk

(* One entry of one table changes. *)
LEMMA ObjectSet ==
  ASSUME NEW all, NEW dev, NEW objs, ObjectsOk(all, dev, objs), NEW t \in Task, NEW fd \in Fd,
         NEW x, x = Nil \/ ObjectOk(all, dev, x), NEW table, table = [objs[t] EXCEPT ![fd] = x],
         NEW new, new = [objs EXCEPT ![t] = table]
  PROVE  ObjectsOk(all, dev, new)
<1>1. x \in ObjectType \cup {Nil} BY DEF ObjectOk
<1>2. objs \in [Task -> [Fd -> ObjectType \cup {Nil}]] BY DEF ObjectsOk
<1>4. table \in [Fd -> ObjectType \cup {Nil}] BY <1>1, <1>2
<1>5. new \in [Task -> [Fd -> ObjectType \cup {Nil}]] BY <1>2, <1>4
<1>6. ASSUME NEW u \in Task, NEW g \in Fd, new[u][g] # Nil PROVE ObjectOk(all, dev, new[u][g])
  <2>1. CASE u = t /\ g = fd
    <3>1. new[u][g] = x BY <1>2, <2>1
    <3> QED BY <1>6, <3>1
  <2>2. CASE ~(u = t /\ g = fd)
    <3>1. new[u][g] = objs[u][g] BY <1>2, <2>2
    <3> QED BY <1>6, <3>1 DEF ObjectsOk
  <2> QED BY <2>1, <2>2
<1> QED BY <1>5, <1>6 DEF ObjectsOk

(* One table changes. *)
LEMMA TableSet ==
  ASSUME NEW all, NEW dev, NEW objs, ObjectsOk(all, dev, objs), NEW t \in Task,
         NEW table, table \in [Fd -> ObjectType \cup {Nil}],
         \A fd \in Fd : table[fd] # Nil => ObjectOk(all, dev, table[fd]),
         NEW new, new = [objs EXCEPT ![t] = table]
  PROVE  ObjectsOk(all, dev, new)
<1>1. objs \in [Task -> [Fd -> ObjectType \cup {Nil}]] BY DEF ObjectsOk
<1>2. new \in [Task -> [Fd -> ObjectType \cup {Nil}]] BY <1>1
<1>3. ASSUME NEW u \in Task, NEW g \in Fd, new[u][g] # Nil PROVE ObjectOk(all, dev, new[u][g])
  <2>1. CASE u = t
    <3>1. new[u] = table BY <1>1, <2>1
    <3> QED BY <1>3, <3>1
  <2>2. CASE u # t
    <3>1. new[u][g] = objs[u][g] BY <1>1, <2>2
    <3> QED BY <1>3, <3>1 DEF ObjectsOk
  <2> QED BY <2>1, <2>2
<1> QED BY <1>2, <1>3 DEF ObjectsOk

(* One task's node changes. *)
LEMMA NodeSet ==
  ASSUME NEW all, NEW dev, NEW nodes, NodesOk(all, dev, nodes), NEW t \in Task,
         NEW x, x = Nil \/ NodeOk(all, dev, x), NEW new, new = [nodes EXCEPT ![t] = x]
  PROVE  NodesOk(all, dev, new)
<1>1. x \in FileNode \cup {Nil} BY DEF NodeOk
<1>2. new \in [Task -> FileNode \cup {Nil}] BY <1>1 DEF NodesOk
<1>3. ASSUME NEW u \in Task, new[u] # Nil PROVE NodeOk(all, dev, new[u])
  <2>1. CASE u = t BY <1>3, <2>1 DEF NodesOk
  <2>2. CASE u # t BY <1>3, <2>2 DEF NodesOk
  <2> QED BY <2>1, <2>2
<1> QED BY <1>2, <1>3 DEF NodesOk

(* There are finitely many descriptors. *)
LEMMA FdFinite == IsFiniteSet(Fd)
BY FS_Interval, DlistAssumption DEF Fd

(* dlist_add finds the first empty entry if there is one. *)
LEMMA RoomFound ==
  ASSUME NEW table, HasRoom(table, 1)
  PROVE  FirstEmpty(table) \in Fd /\ table[FirstEmpty(table)] = Nil
<1> DEFINE T == {fd \in Fd : table[fd] = Nil}
<1>1. T # {}
  <2>1. Cardinality(T) >= 1 BY DEF HasRoom
  <2>2. Cardinality({}) = 0 BY FS_EmptySet
  <2> QED BY <2>1, <2>2
<1>2. T \subseteq Nat BY DlistAssumption DEF Fd
<1>3. PICK fd : fd = CHOOSE f \in T : \A g \in T : f <= g OBVIOUS
<1>4. fd \in T /\ \A g \in T : fd <= g
  <2> HIDE DEF T
  <2>1. \E f \in T : \A g \in T : f <= g BY <1>1, <1>2, LeastOf
  <2> QED BY <1>3, <2>1
<1>5. fd \in Fd /\ table[fd] = Nil /\ \A lower \in 0..(fd - 1) : table[lower] # Nil
  <2>1. fd \in Nat /\ \A lower \in 0..(fd - 1) : lower \in Fd /\ lower < fd /\ lower \in Nat
    BY <1>4, DlistAssumption DEF Fd
  <2> QED BY <1>4, <2>1
<1> QED BY <1>5 DEF FirstEmpty

(* What a new task is given are objects of its parent's table. *)
LEMMA CopiedFacts ==
  ASSUME NEW table, NEW fds
  PROVE  \E n \in 0..3 :
           /\ DOMAIN Copied(table, fds) = 0..(n - 1)
           /\ \A i \in 0..(n - 1) :
                /\ Copied(table, fds)[i] # Nil
                /\ \E fd \in Fd : Copied(table, fds)[i] = table[fd]
<1> DEFINE entry == [i \in 0..2 |-> Get(table, IF fds = Nil THEN i ELSE fds[i])]
           P == {i \in 0..2 : \A j \in 0..i : entry[j] # Nil}
           n == Cardinality(P)
<1>1. Copied(table, fds) = [i \in 0..(n - 1) |-> entry[i]] BY DEF Copied
<1>2. \A i \in 0..2 : entry[i] # Nil => \E fd \in Fd : entry[i] = table[fd] BY DEF Get
<1> HIDE DEF entry
<1>3. n \in 0..3 /\ P = 0..(n - 1)
  <2>1. 0..0 = {0} /\ 0..1 = {0, 1} /\ 0..2 = {0, 1, 2} /\ 0..(-1) = {} OBVIOUS
  <2>6. Cardinality(0..0) = 1 /\ Cardinality(0..1) = 2 /\ Cardinality(0..2) = 3
    <3>1. ASSUME NEW k \in Nat PROVE Cardinality(0..k) = k + 1
      <4>1. Cardinality(0..k) = IF 0 > k THEN 0 ELSE k - 0 + 1 BY FS_Interval
      <4> QED BY <4>1
    <3>2. 0 \in Nat /\ 1 \in Nat /\ 2 \in Nat OBVIOUS
    <3>3. Cardinality(0..0) = 0 + 1 BY <3>1, <3>2, Zenon
    <3>4. Cardinality(0..1) = 1 + 1 BY <3>1, <3>2, Zenon
    <3>5. Cardinality(0..2) = 2 + 1 BY <3>1, <3>2, Zenon
    <3> QED BY <3>3, <3>4, <3>5
  <2>2. CASE entry[0] = Nil
    <3>1. P = {} BY <2>1, <2>2
    <3>2. n = 0 BY <3>1, FS_EmptySet
    <3>3. 0..(0 - 1) = {} /\ 0 \in 0..3 OBVIOUS
    <3> QED BY <3>1, <3>2, <3>3
  <2>3. CASE entry[0] # Nil /\ entry[1] = Nil
    <3>1. P = 0..0 BY <2>1, <2>3
    <3>2. n = 1 BY <3>1, <2>6
    <3>3. 1 - 1 = 0 /\ 1 \in 0..3 OBVIOUS
    <3> QED BY <3>1, <3>2, <3>3
  <2>4. CASE entry[0] # Nil /\ entry[1] # Nil /\ entry[2] = Nil
    <3>1. P = 0..1 BY <2>1, <2>4
    <3>2. n = 2 BY <3>1, <2>6
    <3>3. 2 - 1 = 1 /\ 2 \in 0..3 OBVIOUS
    <3> QED BY <3>1, <3>2, <3>3
  <2>5. CASE entry[0] # Nil /\ entry[1] # Nil /\ entry[2] # Nil
    <3>1. P = 0..2 BY <2>1, <2>5
    <3>2. n = 3 BY <3>1, <2>6
    <3>3. 3 - 1 = 2 /\ 3 \in 0..3 OBVIOUS
    <3> QED BY <3>1, <3>2, <3>3
  <2> QED BY <2>2, <2>3, <2>4, <2>5
<1>4. \A i \in P : i \in 0..2 /\ entry[i] # Nil
  <2> SUFFICES ASSUME NEW i \in P PROVE entry[i] # Nil OBVIOUS
  <2>1. i \in 0..i OBVIOUS
  <2> QED BY <2>1
<1>5. PICK m : m = n OBVIOUS
<1> HIDE DEF n
<1> QED BY <1>1, <1>2, <1>3, <1>4, <1>5

(* The table of the new task *)
LEMMA InheritedOk ==
  ASSUME NEW all, NEW dev, NEW objs, ObjectsOk(all, dev, objs), NEW t \in Task, NEW fds,
         NEW table, table = Inherited(Copied(objs[t], fds))
  PROVE  /\ table \in [Fd -> ObjectType \cup {Nil}]
         /\ \A fd \in Fd : table[fd] # Nil => ObjectOk(all, dev, table[fd])
<1>1. PICK copies : copies = Copied(objs[t], fds) OBVIOUS
<1>2. \A i \in DOMAIN copies : \E fd \in Fd : copies[i] = objs[t][fd]
  BY <1>1, CopiedFacts
<1>3. table = [fd \in Fd |-> IF fd \in DOMAIN copies THEN copies[fd] ELSE Nil]
  BY <1>1 DEF Inherited
<1>4. \A fd \in Fd : objs[t][fd] \in ObjectType \cup {Nil} BY DEF ObjectsOk
<1>5. \A fd \in Fd : objs[t][fd] # Nil => ObjectOk(all, dev, objs[t][fd]) BY DEF ObjectsOk
<1>6. ASSUME NEW fd \in Fd
      PROVE  /\ table[fd] \in ObjectType \cup {Nil}
             /\ table[fd] # Nil => ObjectOk(all, dev, table[fd])
  <2>1. CASE fd \in DOMAIN copies
    <3>1. PICK g \in Fd : copies[fd] = objs[t][g] BY <1>2, <2>1
    <3>2. table[fd] = objs[t][g] BY <1>3, <2>1, <3>1
    <3> QED BY <1>4, <1>5, <3>2
  <2>2. CASE fd \notin DOMAIN copies
    <3>1. table[fd] = Nil BY <1>3, <2>2
    <3> QED BY <3>1
  <2> QED BY <2>1, <2>2
<1>7. DOMAIN table = Fd /\ table = [fd \in Fd |-> table[fd]] BY <1>3
<1> QED BY <1>6, <1>7

-----------------------------------------------------------------------------
(* Boot code, and the init functions of modules *)

(* VfsInit satisfies the invariant. *)
LEMMA VfsInitOk == VfsInit => VfsInv
<1> SUFFICES ASSUME VfsInit PROVE VfsInv OBVIOUS
<1>1. TreesOk(ramfs) BY InitTrees DEF VfsInit
<1>2. devices \in Seq(Range(Device)) BY DEF VfsInit
<1>6. devfs_ready \in BOOLEAN /\ halted \in BOOLEAN BY Zenon DEF VfsInit
<1>3. ObjectsOk(ramfs, devices, pobjects)
  <2>1. \A t \in Task : pobjects[t] = [fd \in Fd |-> Nil] BY DEF VfsInit, EmptyTable
  <2>2. pobjects = [t \in Task |-> pobjects[t]] BY DEF VfsInit
  <2> QED BY <2>1, <2>2 DEF ObjectsOk
<1>4. NodesOk(ramfs, devices, froot) /\ NodesOk(ramfs, devices, curdir) BY DEF VfsInit, NodesOk
<1>5. alive \subseteq Task /\ dangling \subseteq Task BY VfsAssumption DEF VfsInit
<1> QED BY <1>1, <1>2, <1>3, <1>4, <1>5, <1>6 DEF VfsInv

(* The tasks keep what they have while trees and devices grow. *)
LEMMA VfsGrows ==
  ASSUME VfsInv, TreesOk(ramfs'), Grown(ramfs, ramfs'), Longer(devices, devices'),
         devices' \in Seq(Range(Device)), devfs_ready' \in BOOLEAN,
         UNCHANGED <<pobjects, tasks, halted>>
  PROVE  VfsInv'
<1>1. halted' \in BOOLEAN /\ alive' \subseteq Task /\ dangling' \subseteq Task BY DEF VfsInv, tasks
<1>2. ObjectsOk(ramfs', devices', pobjects') BY ObjectsLater DEF VfsInv
<1>3. NodesOk(ramfs', devices', froot') /\ NodesOk(ramfs', devices', curdir')
  BY NodesLater DEF VfsInv, tasks
<1> QED BY <1>1, <1>2, <1>3 DEF VfsInv

(* Trees and devices that stay *)
LEMMA GrownSame == \A all, dev : Grown(all, all) /\ Longer(dev, dev)
BY DEF Grown, Longer

(* hal_register_device *)
LEMMA RegisterDeviceOk ==
  ASSUME VfsInv, RegisterDevice
  PROVE  VfsInv'
<1>1. devices \in Seq(Range(Device)) BY DEF VfsInv
<1>2. PICK L \in Nat : L = Len(devices) BY <1>1
<1>3. PICK x : x = Device[L + 1] OBVIOUS
<1>4. x \in Range(Device)
  <2>1. L + 1 \in DOMAIN Device BY <1>2, VfsAssumption DEF RegisterDevice
  <2> QED BY <1>3, <2>1 DEF Range
<1>5. devices' = Append(devices, x) BY <1>2, <1>3 DEF RegisterDevice
<1>6. devices' \in Seq(Range(Device)) BY <1>1, <1>4, <1>5
<1>7. Longer(devices, devices') BY <1>1, <1>5 DEF Longer
<1>8. TreesOk(ramfs') /\ Grown(ramfs, ramfs') /\ devfs_ready' \in BOOLEAN
      /\ UNCHANGED <<pobjects, tasks, halted>>
  BY GrownSame DEF VfsInv, RegisterDevice
<1> QED BY <1>6, <1>7, <1>8, VfsGrows

(* One of the trees changes. *)
LEMMA TreeSet ==
  ASSUME NEW all, TreesOk(all), NEW f \in 1..2, NEW new, Tree(new), NoHole(new),
         \A i \in DOMAIN all[f] :
           i \in DOMAIN new /\ Certain(all[f][i].data) \subseteq Certain(new[i].data),
         NEW all2, all2 = [g \in 1..2 |-> IF g = f THEN new ELSE all[g]]
  PROVE  TreesOk(all2) /\ Grown(all, all2)
<1>1. all2 = [g \in 1..2 |-> all2[g]] /\ all2[f] = new /\ \A g \in 1..2 : g # f => all2[g] = all[g]
  OBVIOUS
<1>2. \A g \in 1..2 : Tree(all2[g]) /\ NoHole(all2[g]) BY <1>1 DEF TreesOk
<1> QED BY <1>1, <1>2 DEF TreesOk, Grown

(* The tree of a node that is no device's *)
LEMMA NodeInTree ==
  ASSUME NEW all, TreesOk(all), NEW dev, NEW node, NodeOk(all, dev, node), node.fs # Devfs
  PROVE  /\ node.fs \in 1..2
         /\ \E n : TreeOf(all[node.fs], n) /\ node.inode \in 0..(n - 1)
<1>1. node.fs \in 1..2 /\ node.inode \in DOMAIN all[node.fs] BY DEF NodeOk, FileNode, Devfs
<1>2. PICK n : TreeOf(all[node.fs], n) BY <1>1 DEF TreesOk, Tree
<1>3. DOMAIN all[node.fs] = 0..(n - 1) BY <1>2 DEF TreeOf
<1> QED BY <1>1, <1>2, <1>3

(* file_mount_filesystem *)
LEMMA MountOnOk ==
  ASSUME NEW all, TreesOk(all), devices \in Seq(Range(Device)), NEW Elt, NEW path \in Seq(Elt),
         NEW m \in 0..2, NEW all2, all2 = MountOn(all, path, m)
  PROVE  TreesOk(all2) /\ Grown(all, all2)
<1>1. PICK r : r = Lookup(all, Root(1), path) OBVIOUS
<1>2. AnswerOk(all, r)
  <2>1. NodeOk(all, devices, Root(1))
    <3>1. PICK f \in 0..2 : f = 1 OBVIOUS
    <3> QED BY <3>1, RootOk
  <2> QED BY <1>1, <2>1, LookupOk
<1>3. CASE ~(r.st = "found" /\ r.node.fs # Devfs)
  <2>1. all2 = all BY <1>1, <1>3 DEF MountOn
  <2> QED BY <2>1, GrownSame
<1>4. CASE r.st = "found" /\ r.node.fs # Devfs
  <2>1. PICK f, k : f = r.node.fs /\ k = r.node.inode OBVIOUS
  <2>2. NodeOk(all, devices, r.node) BY <1>2, <1>4 DEF AnswerOk
  <2>3. f \in 1..2 /\ \E n : TreeOf(all[f], n) /\ k \in 0..(n - 1)
    BY <1>4, <2>1, <2>2, NodeInTree
  <2>4. PICK n : TreeOf(all[f], n) /\ k \in 0..(n - 1) BY <2>3
  <2>5. PICK table, new : table = all[f] /\ new = [table EXCEPT ![k].mount = m] OBVIOUS
  <2>6. MountedAt(new, table, n, k, m) BY <2>4, <2>5, MountTree
  <2>7. TreeOf(new, n) /\ \A j \in 0..(n - 1) : new[j].data = table[j].data
    BY <2>6 DEF MountedAt
  <2>8. DOMAIN new = 0..(n - 1) /\ DOMAIN table = 0..(n - 1) /\ n \in Nat
    BY <2>4, <2>5, <2>7 DEF TreeOf
  <2>9. NoHole(table) BY <2>3, <2>5 DEF TreesOk
  <2>10. Tree(new) /\ NoHole(new) BY <2>7, <2>8, <2>9 DEF Tree, NoHole
  <2>11. PICK D : D = 1..2 OBVIOUS
  <2>12. all = [g \in D |-> all[g]] /\ f \in D BY <2>3, <2>11 DEF TreesOk
  <2>13. all2 = [g \in D |-> IF g = f THEN new ELSE all[g]]
    <3>1. new = [all[f] EXCEPT ![k].mount = m] BY <2>5
    <3>2. r.st = "found" /\ f # Devfs BY <1>4, <2>1
    <3>3. all2 = [all EXCEPT ![f][k].mount = m] BY <1>1, <2>1, <3>2 DEF MountOn
    <3> QED BY <2>12, <3>1, <3>3
  <2>14. \A i \in DOMAIN all[f] :
           i \in DOMAIN new /\ Certain(all[f][i].data) \subseteq Certain(new[i].data)
    BY <2>5, <2>7, <2>8
  <2>15. all2 = [g \in 1..2 |-> IF g = f THEN new ELSE all[g]] BY <2>11, <2>13
  <2> QED BY <2>3, <2>10, <2>14, <2>15, TreeSet
<1> QED BY <1>3, <1>4

(* init of devfs *)
LEMMA InitDevfsOk ==
  ASSUME VfsInv, InitDevfs
  PROVE  VfsInv'
<1>1. PICK path : path = <<"test", "devices">> OBVIOUS
<1>2. path \in Seq(Name) BY <1>1 DEF Name
<1>3. PICK m \in 0..2 : m = Devfs BY DEF Devfs
<1>4. ramfs' = MountOn(ramfs, path, m) BY <1>1, <1>3 DEF InitDevfs
<1>5. TreesOk(ramfs') /\ Grown(ramfs, ramfs') BY <1>2, <1>4, MountOnOk DEF VfsInv
<1>6. UNCHANGED <<devices, pobjects, tasks, halted>> BY DEF InitDevfs
<1>7. devfs_ready' \in BOOLEAN BY Zenon DEF InitDevfs
<1>8. devices' \in Seq(Range(Device)) /\ Longer(devices, devices')
  BY <1>6, GrownSame DEF VfsInv
<1> QED BY <1>5, <1>6, <1>7, <1>8, VfsGrows

-----------------------------------------------------------------------------
(* open and close *)

(* Where a lookup begins *)
LEMMA StartOk ==
  ASSUME VfsInv, NEW t \in Task, NEW path
  PROVE  NodeOk(ramfs, devices, Start(t, path))
<1>1. NodeOk(ramfs, devices, Root(1))
  <2>1. PICK f \in 0..2 : f = 1 OBVIOUS
  <2> QED BY <2>1, RootOk DEF VfsInv
<1>2. froot[t] # Nil => NodeOk(ramfs, devices, froot[t]) BY DEF VfsInv, NodesOk
<1>3. curdir[t] # Nil => NodeOk(ramfs, devices, curdir[t]) BY DEF VfsInv, NodesOk
<1>4. NodeOk(ramfs, devices, LocalRoot(t)) BY <1>1, <1>2 DEF LocalRoot
<1>5. NodeOk(ramfs, devices, CurrentDir(t)) BY <1>3, <1>4 DEF CurrentDir
<1> QED BY <1>4, <1>5 DEF Start

(* The names of a path *)
LEMMA PathOk ==
  ASSUME NEW path \in Path
  PROVE  path.dirs \in Seq(STRING) /\ path.file \in Name /\ Names(path) \in Seq(STRING)
<1>1. path.dirs \in Seq(STRING) /\ path.file \in STRING BY DEF Path
<1>3. PICK S : S = STRING OBVIOUS
<1>4. PICK dirs \in Seq(S), file \in S : dirs = path.dirs /\ file = path.file BY <1>1, <1>3
<1>5. Append(dirs, file) \in Seq(S) OBVIOUS
<1>2. Names(path) \in Seq(STRING) BY <1>3, <1>4, <1>5 DEF Names
<1> QED BY <1>1, <1>2 DEF Name

(* A new object *)
LEMMA ObjectIsOk ==
  ASSUME NEW all, devices \in Seq(Range(Device)), NEW node, NodeOk(all, devices, node),
         NEW x, x = Object(node)
  PROVE  ObjectOk(all, devices, x)
<1>1. PICK d : d = IF IsDevice(node) THEN DeviceOf(node) ELSE Nil OBVIOUS
<1>2. IsDevice(node) => d = devices[node.inode - 127] BY <1>1 DEF DeviceOf
<1>3. d \in Range(Device) \cup {Nil}
  <2>1. CASE IsDevice(node)
    <3>1. node.inode - 127 \in 1..Len(devices) BY <2>1 DEF NodeOk, IsDevice
    <3>2. devices[node.inode - 127] \in Range(Device) BY <3>1
    <3> QED BY <1>2, <2>1, <3>2
  <2>2. CASE ~IsDevice(node) BY <1>1, <2>2
  <2> QED BY <2>1, <2>2
<1>4. x = [node |-> node, read_offset |-> 0, write_offset |-> 0, device |-> d]
  BY <1>1 DEF Object
<1>5. node \in FileNode BY DEF NodeOk
<1>6. x \in ObjectType /\ x.node = node /\ x.write_offset = 0 /\ x.device = d
  BY <1>3, <1>4, <1>5 DEF ObjectType
<1>7. \A k \in Nat : ~(k < x.write_offset) BY <1>6
<1> QED BY <1>2, <1>6, <1>7 DEF ObjectOk

(* goes into the task's table. *)
LEMMA OpenedOk ==
  ASSUME NEW all, devices \in Seq(Range(Device)), NEW objs, ObjectsOk(all, devices, objs),
         NEW t \in Task, HasRoom(objs[t], 1), NEW node, NodeOk(all, devices, node),
         NEW new, new = [objs EXCEPT ![t] = DlistAdd(@, Object(node))]
  PROVE  ObjectsOk(all, devices, new)
<1>1. PICK fd : fd = FirstEmpty(objs[t]) OBVIOUS
<1>2. fd \in Fd BY <1>1, RoomFound
<1>3. PICK x : x = Object(node) OBVIOUS
<1>4. ObjectOk(all, devices, x) BY <1>3, ObjectIsOk
<1>5. PICK table : table = [objs[t] EXCEPT ![fd] = x] OBVIOUS
<1>6. new = [objs EXCEPT ![t] = table] BY <1>1, <1>3, <1>5 DEF DlistAdd
<1> QED BY <1>2, <1>4, <1>5, <1>6, ObjectSet

(* ramfs_open_node and devfs_open_node leave trees. *)
LEMMA OpenInOk ==
  ASSUME VfsInv, NEW dir, NodeOk(ramfs, devices, dir), NEW file \in Name,
         NEW create, NEW all, all = OpenIn(dir, file, create).fs
  PROVE  TreesOk(all) /\ Grown(ramfs, all)
<1>1. TreesOk(ramfs) BY DEF VfsInv
<1>2. PICK f, d, table : f = dir.fs /\ d = dir.inode /\ table = ramfs[f] OBVIOUS
<1>3. PICK new : new = AddNode(table, d, file, Node) OBVIOUS
<1>4. CASE f = Devfs \/ table[d].type # "dir" \/ Entries(table, d, file) # {} \/ ~create
  <2>1. all = ramfs BY <1>2, <1>4 DEF OpenIn
  <2> QED BY <1>1, <2>1, GrownSame
<1>5. CASE f # Devfs /\ table[d].type = "dir" /\ Entries(table, d, file) = {} /\ create
  <2>1. all = [ramfs EXCEPT ![f] = new] BY <1>2, <1>3, <1>5 DEF OpenIn
  <2>2. f \in 1..2 /\ \E n : TreeOf(table, n) /\ d \in 0..(n - 1)
    BY <1>1, <1>2, <1>5, NodeInTree
  <2>3. PICK n : TreeOf(table, n) /\ d \in 0..(n - 1) BY <2>2
  <2>4. /\ TreeOf(new, n + 1) /\ new[n] = Node
        /\ \A k \in 0..(n - 1) : new[k].data = table[k].data
    <3>1. NodeAdded(new, table, n, d, file, Node) BY <1>3, <1>5, <2>3, NewNodes, AddNodeTree
    <3> QED BY <3>1 DEF NodeAdded
  <2>5. n \in Nat /\ DOMAIN table = 0..(n - 1) /\ DOMAIN new = 0..n /\ n + 1 \in Nat
    BY <2>3, <2>4 DEF TreeOf
  <2>6. NoHole(new)
    <3>1. NoHole(table) BY <1>1, <1>2, <2>2 DEF TreesOk
    <3>2. ASSUME NEW k \in 0..n PROVE Sound(new[k].data)
      <4>1. CASE k = n
        <5>1. new[k].data = EmptyData BY <2>4, <4>1, NewNodes
        <5> QED BY <5>1, NewNodes
      <4>2. CASE k # n
        <5>1. k \in 0..(n - 1) BY <2>5, <4>2
        <5> QED BY <2>4, <2>5, <3>1, <5>1 DEF NoHole
      <4> QED BY <4>1, <4>2
    <3> QED BY <2>5, <3>2 DEF NoHole
  <2>7. Tree(new) BY <2>4, <2>5 DEF Tree
  <2>8. \A i \in DOMAIN ramfs[f] :
          i \in DOMAIN new /\ Certain(ramfs[f][i].data) \subseteq Certain(new[i].data)
    BY <1>2, <2>4, <2>5
  <2>9. all = [g \in 1..2 |-> IF g = f THEN new ELSE ramfs[g]]
    <3>1. PICK D : D = 1..2 OBVIOUS
    <3>2. ramfs = [g \in D |-> ramfs[g]] BY <1>1, <3>1 DEF TreesOk
    <3>3. all = [g \in D |-> IF g = f THEN new ELSE ramfs[g]] BY <2>1, <3>2
    <3> QED BY <3>1, <3>3
  <2> QED BY <1>1, <2>2, <2>6, <2>7, <2>8, <2>9, TreeSet
<1> QED BY <1>4, <1>5

(* Steps that leave the trees, and the tasks' roots and directories *)
LEMMA ObjectsChange ==
  ASSUME VfsInv, UNCHANGED trees, UNCHANGED tasks, halted' \in BOOLEAN,
         ObjectsOk(ramfs, devices, pobjects')
  PROVE  VfsInv'
<1>1. UNCHANGED <<ramfs, devices, devfs_ready>> BY DEF trees
<1>2. UNCHANGED <<froot, curdir, alive, dangling>> BY DEF tasks
<1>3. ObjectsOk(ramfs', devices', pobjects') BY <1>1
<1>4. Longer(devices, devices') BY <1>1, GrownSame
<1> QED BY <1>1, <1>2, <1>3, <1>4 DEF VfsInv

(* vfs_open *)
LEMMA VfsOpenOk ==
  ASSUME VfsInv, NEW t \in Task, NEW path \in OpenPath, NEW create \in BOOLEAN,
         VfsOpen(t, path, create)
  PROVE  VfsInv'
<1> DEFINE start == Start(t, path)
           dir == Lookup(ramfs, start, path.dirs)
           open == OpenIn(dir.node, path.file, create)
           again == Lookup(open.fs, start, Names(path))
<1>1. TreesOk(ramfs) /\ devices \in Seq(Range(Device)) /\ ObjectsOk(ramfs, devices, pobjects)
  BY DEF VfsInv
<1>2. path \in Path BY VfsAssumption
<1>3. path.dirs \in Seq(STRING) /\ path.file \in Name /\ Names(path) \in Seq(STRING)
  BY <1>2, PathOk
<1>4. NodeOk(ramfs, devices, start) BY StartOk
<1>5. AnswerOk(ramfs, dir) BY <1>1, <1>3, <1>4, LookupOk
<1>6. HasRoom(pobjects[t], 1) /\ UNCHANGED <<devices, devfs_ready, tasks>> BY DEF VfsOpen
<1>7. CASE halted' = TRUE /\ UNCHANGED <<ramfs, pobjects>>
  <2>1. halted' \in BOOLEAN BY <1>7, Zenon
  <2>2. UNCHANGED trees /\ UNCHANGED tasks BY <1>6, <1>7 DEF trees
  <2>3. ObjectsOk(ramfs, devices, pobjects') BY <1>1, <1>7
  <2> QED BY <2>1, <2>2, <2>3, ObjectsChange
<1>8. CASE dir.st = "found" /\ Opened(t, dir.node) /\ UNCHANGED <<ramfs, halted>>
  <2>1. NodeOk(ramfs, devices, dir.node) BY <1>5, <1>8 DEF AnswerOk
  <2>2. PICK node : node = dir.node OBVIOUS
  <2>3. pobjects' = [pobjects EXCEPT ![t] = DlistAdd(@, Object(node))] BY <1>8, <2>2 DEF Opened
  <2>4. ObjectsOk(ramfs, devices, pobjects') BY <1>1, <1>6, <2>1, <2>2, <2>3, OpenedOk
  <2>5. UNCHANGED trees /\ UNCHANGED tasks /\ halted' \in BOOLEAN BY <1>6, <1>8 DEF trees, VfsInv
  <2> QED BY <2>4, <2>5, ObjectsChange
<1>9. CASE /\ dir.st = "found" /\ open.st = "found" /\ ramfs' = open.fs
           /\ Opened(t, IF again.st = "found" THEN again.node ELSE dir.node) /\ UNCHANGED halted
  <2>1. NodeOk(ramfs, devices, dir.node) BY <1>5, <1>9 DEF AnswerOk
  <2>2. TreesOk(ramfs') /\ Grown(ramfs, ramfs') BY <1>3, <1>9, <2>1, OpenInOk
  <2>3. Longer(devices, devices) /\ Longer(devices, devices') BY <1>6, GrownSame
  <2>4. NodeOk(ramfs', devices, start) /\ NodeOk(ramfs', devices, dir.node)
    BY <1>4, <2>1, <2>2, <2>3, NodeLater
  <2>5. PICK r : r = Lookup(ramfs', start, Names(path)) OBVIOUS
  <2>6. AnswerOk(ramfs', r) BY <1>1, <1>3, <2>2, <2>4, <2>5, LookupOk
  <2>7. r = again BY <1>9, <2>5
  <2>8. PICK node : node = IF r.st = "found" THEN r.node ELSE dir.node OBVIOUS
  <2>9. NodeOk(ramfs', devices, node) BY <2>4, <2>6, <2>8 DEF AnswerOk
  <2>10. pobjects' = [pobjects EXCEPT ![t] = DlistAdd(@, Object(node))]
    BY <1>9, <2>7, <2>8 DEF Opened
  <2>11. ObjectsOk(ramfs', devices, pobjects) BY <1>1, <2>2, <2>3, ObjectsLater
  <2>12. ObjectsOk(ramfs', devices, pobjects') BY <1>1, <1>6, <2>9, <2>10, <2>11, OpenedOk
  <2>13. ObjectsOk(ramfs', devices', pobjects') BY <1>6, <2>12
  <2>14. UNCHANGED <<froot, curdir, alive, dangling>> BY <1>6 DEF tasks
  <2>15. NodesOk(ramfs', devices', froot') /\ NodesOk(ramfs', devices', curdir')
    BY <2>2, <2>3, <2>14, NodesLater DEF VfsInv
  <2> QED BY <1>6, <1>9, <2>2, <2>3, <2>13, <2>14, <2>15 DEF VfsInv
<1> HIDE DEF start
<1> QED BY <1>7, <1>8, <1>9 DEF VfsOpen, start

(* vfs_close *)
LEMMA VfsCloseOk ==
  ASSUME VfsInv, NEW t \in Task, NEW fd \in Fd, VfsClose(t, fd)
  PROVE  VfsInv'
<1>1. PICK x : x = Nil OBVIOUS
<1>2. PICK table : table = [pobjects[t] EXCEPT ![fd] = x] OBVIOUS
<1>3. pobjects' = [pobjects EXCEPT ![t] = table] BY <1>1, <1>2 DEF VfsClose
<1>4. ObjectsOk(ramfs, devices, pobjects) BY DEF VfsInv
<1>5. ObjectsOk(ramfs, devices, pobjects') BY <1>1, <1>2, <1>3, <1>4, ObjectSet
<1>6. UNCHANGED trees /\ UNCHANGED tasks /\ halted' \in BOOLEAN BY DEF VfsClose, VfsInv
<1> QED BY <1>5, <1>6, ObjectsChange

-----------------------------------------------------------------------------
(* Offsets, roots and directories, and tasks *)

(* An object with another read offset *)
LEMMA ReadOffsetOk ==
  ASSUME NEW all, NEW dev, NEW obj, ObjectOk(all, dev, obj), NEW n \in Nat,
         NEW x, x = [obj EXCEPT !.read_offset = n]
  PROVE  ObjectOk(all, dev, x)
<1>1. obj \in ObjectType BY DEF ObjectOk
<1>2. /\ x \in ObjectType /\ x.node = obj.node /\ x.write_offset = obj.write_offset
      /\ x.device = obj.device
  BY <1>1 DEF ObjectType
<1> QED BY <1>2 DEF ObjectOk

(* An object with both offsets at zero *)
LEMMA OffsetsOk ==
  ASSUME NEW all, NEW dev, NEW obj, ObjectOk(all, dev, obj),
         NEW x, x = [obj EXCEPT !.read_offset = 0, !.write_offset = 0]
  PROVE  ObjectOk(all, dev, x)
<1>1. obj \in ObjectType BY DEF ObjectOk
<1>2. /\ x \in ObjectType /\ x.node = obj.node /\ x.write_offset = 0 /\ x.device = obj.device
  BY <1>1 DEF ObjectType
<1>3. \A k \in Nat : ~(k < x.write_offset) BY <1>2
<1> QED BY <1>2, <1>3 DEF ObjectOk

(* The file that an object is open on *)
LEMMA FileOk ==
  ASSUME VfsInv, NEW t \in Task, NEW fd \in Fd, InRamfs(t, fd)
  PROVE  FileOf(t, fd) \in NodeType /\ pobjects[t][fd] \in ObjectType
<1>1. PICK node : node = pobjects[t][fd].node OBVIOUS
<1>2. ObjectOk(ramfs, devices, pobjects[t][fd]) BY DEF VfsInv, ObjectsOk, InRamfs
<1>3. NodeOk(ramfs, devices, node) /\ node.fs # Devfs BY <1>1, <1>2 DEF ObjectOk, InRamfs
<1>4. TreesOk(ramfs) BY DEF VfsInv
<1>5. PICK n : TreeOf(ramfs[node.fs], n) /\ node.inode \in 0..(n - 1) BY <1>3, <1>4, NodeInTree
<1>6. ramfs[node.fs][node.inode] \in NodeType BY <1>5 DEF TreeOf
<1> QED BY <1>1, <1>2, <1>6 DEF FileOf, ObjectOk

(* vfs_read *)
LEMMA VfsReadOk ==
  ASSUME VfsInv, NEW t \in Task, NEW fd \in Fd, NEW n \in Length, VfsRead(t, fd, n)
  PROVE  VfsInv'
<1>1. InRamfs(t, fd) BY DEF VfsRead
<1>2. PICK file : file = FileOf(t, fd) OBVIOUS
<1>3. PICK obj : obj = pobjects[t][fd] OBVIOUS
<1>4. file \in NodeType /\ obj \in ObjectType BY <1>1, <1>2, <1>3, FileOk
<1>5. PICK len \in Nat, off \in Nat : len = file.data.length /\ off = obj.read_offset
  BY <1>4 DEF NodeType, Data, ObjectType
<1>6. n \in Nat BY VfsAssumption
<1>7. PICK ret : /\ ret \in ReadReturns(file, obj.read_offset, n)
                 /\ pobjects' = [pobjects EXCEPT ![t][fd].read_offset = @ + ret]
  BY <1>2, <1>3 DEF VfsRead
<1>8. ret \in Nat
  <2>1. CASE file.type = "dir"
    <3>1. ret \in 0..n BY <1>7, <2>1 DEF ReadReturns
    <3> QED BY <1>6, <3>1
  <2>2. CASE file.type # "dir"
    <3>1. PICK left : left = IF off > len THEN 0 ELSE len - off + 1 OBVIOUS
    <3>2. left \in Nat BY <1>5, <3>1
    <3>3. ret = IF n < left THEN n ELSE left BY <1>5, <1>7, <2>2, <3>1 DEF ReadReturns
    <3> QED BY <1>6, <3>2, <3>3
  <2> QED BY <2>1, <2>2
<1>9. PICK m \in Nat : m = off + ret BY <1>5, <1>8
<1>10. PICK x : x = [obj EXCEPT !.read_offset = m] OBVIOUS
<1>11. PICK table : table = [pobjects[t] EXCEPT ![fd] = x] OBVIOUS
<1>12. pobjects' = [pobjects EXCEPT ![t] = table]
  BY <1>3, <1>5, <1>7, <1>9, <1>10, <1>11
<1>13. ObjectsOk(ramfs, devices, pobjects) BY DEF VfsInv
<1>14. ObjectOk(ramfs, devices, obj) BY <1>1, <1>3, <1>13 DEF ObjectsOk, InRamfs
<1>15. ObjectOk(ramfs, devices, x) BY <1>10, <1>14, ReadOffsetOk
<1>16. ObjectsOk(ramfs, devices, pobjects') BY <1>11, <1>12, <1>13, <1>15, ObjectSet
<1>17. UNCHANGED trees /\ UNCHANGED tasks /\ halted' \in BOOLEAN BY DEF VfsRead, VfsInv
<1> QED BY <1>16, <1>17, ObjectsChange

(* vfs_lseek: a size that is never set leaves only the offset zero. *)
LEMMA VfsLseekOk ==
  ASSUME VfsInv, NEW t \in Task, NEW fd \in Fd, NEW offset \in Offset,
         NEW whence \in {"SET", "CUR", "END"}, VfsLseek(t, fd, offset, whence)
  PROVE  VfsInv'
<1>1. PICK obj : obj = pobjects[t][fd] OBVIOUS
<1>2. ObjectsOk(ramfs, devices, pobjects) BY DEF VfsInv
<1>3. obj # Nil /\ ObjectOk(ramfs, devices, obj) BY <1>1, <1>2 DEF ObjectsOk, VfsLseek
<1>4. PICK off \in Nat : off = obj.read_offset BY <1>3 DEF ObjectOk, ObjectType
<1>5. PICK target : target = SeekTarget(obj, offset, whence, InfoSize) OBVIOUS
<1>6. target = 0
  <2>1. offset \in Int /\ Unsigned \in Nat \ {0} BY VfsAssumption
  <2>2. \A k \in Int : k % Unsigned \in Nat BY <2>1
  <2>3. \E k \in Int : target = k % Unsigned
    <3>1. CASE whence = "SET" BY <1>5, <2>1, <3>1 DEF SeekTarget
    <3>2. CASE whence = "CUR"
      <4>1. off + offset \in Int BY <1>4, <2>1
      <4> QED BY <1>4, <1>5, <3>2, <4>1 DEF SeekTarget
    <3>3. CASE whence = "END"
      <4>1. InfoSize + offset \in Int BY <2>1 DEF InfoSize
      <4> QED BY <1>5, <3>3, <4>1 DEF SeekTarget
    <3> QED BY <3>1, <3>2, <3>3
  <2>4. target \in Nat BY <2>2, <2>3
  <2>5. target <= 0 BY <1>1, <1>5 DEF VfsLseek, InfoSize
  <2> QED BY <2>4, <2>5
<1>7. PICK x : x = [obj EXCEPT !.read_offset = 0, !.write_offset = 0] OBVIOUS
<1>8. PICK table : table = [pobjects[t] EXCEPT ![fd] = x] OBVIOUS
<1>9. pobjects' = [pobjects EXCEPT ![t] = table]
  <2>1. pobjects' = [pobjects EXCEPT ![t][fd].read_offset = target,
                                     ![t][fd].write_offset = target]
    BY <1>1, <1>5 DEF VfsLseek
  <2> QED BY <1>1, <1>2, <1>6, <1>7, <1>8, <2>1 DEF ObjectsOk
<1>10. ObjectOk(ramfs, devices, x) BY <1>3, <1>7, OffsetsOk
<1>11. ObjectsOk(ramfs, devices, pobjects') BY <1>2, <1>8, <1>9, <1>10, ObjectSet
<1>12. UNCHANGED trees /\ UNCHANGED tasks /\ halted' \in BOOLEAN BY DEF VfsLseek, VfsInv
<1> QED BY <1>11, <1>12, ObjectsChange

(* Steps that leave the trees and open files *)
LEMMA NodesChange ==
  ASSUME VfsInv, UNCHANGED trees, UNCHANGED pobjects, halted' \in BOOLEAN,
         NodesOk(ramfs, devices, froot'), NodesOk(ramfs, devices, curdir'),
         alive' \subseteq Task, dangling' \subseteq Task
  PROVE  VfsInv'
<1>1. UNCHANGED <<ramfs, devices, devfs_ready>> BY DEF trees
<1>2. NodesOk(ramfs', devices', froot') /\ NodesOk(ramfs', devices', curdir') BY <1>1
<1>3. Longer(devices, devices') BY <1>1, GrownSame
<1> QED BY <1>1, <1>2, <1>3 DEF VfsInv

(* The node that vfs_chroot and vfs_chdir leave *)
LEMMA ChangedNode ==
  ASSUME VfsInv, NEW t \in Task, NEW path \in ChangePath,
         NEW r, r = Lookup(ramfs, Start(t, path), Names(path)),
         NEW nodes, NodesOk(ramfs, devices, nodes),
         NEW new, new = [nodes EXCEPT ![t] = IF r.st = "found" THEN r.node ELSE @]
  PROVE  NodesOk(ramfs, devices, new)
<1>1. NodeOk(ramfs, devices, Start(t, path)) BY StartOk
<1>2. path \in Path BY VfsAssumption
<1>3. Names(path) \in Seq(STRING) BY <1>2, PathOk
<1>4. TreesOk(ramfs) /\ devices \in Seq(Range(Device)) BY DEF VfsInv
<1>5. AnswerOk(ramfs, r) BY <1>1, <1>3, <1>4, LookupOk
<1>6. PICK x : x = IF r.st = "found" THEN r.node ELSE nodes[t] OBVIOUS
<1>7. x = Nil \/ NodeOk(ramfs, devices, x) BY <1>5, <1>6 DEF AnswerOk, NodesOk
<1>8. new = [nodes EXCEPT ![t] = x] BY <1>6
<1> QED BY <1>7, <1>8, NodeSet

(* vfs_chroot *)
LEMMA VfsChrootOk ==
  ASSUME VfsInv, NEW t \in Task, NEW path \in ChangePath, VfsChroot(t, path)
  PROVE  VfsInv'
<1>1. PICK r : r = Lookup(ramfs, Start(t, path), Names(path)) OBVIOUS
<1>2. NodesOk(ramfs, devices, froot) /\ NodesOk(ramfs, devices, curdir) BY DEF VfsInv
<1>3. froot' = [froot EXCEPT ![t] = IF r.st = "found" THEN r.node ELSE @]
  BY <1>1 DEF VfsChroot, Change
<1>4. NodesOk(ramfs, devices, froot') BY <1>1, <1>2, <1>3, ChangedNode
<1>5. UNCHANGED curdir /\ UNCHANGED trees /\ UNCHANGED pobjects /\ UNCHANGED alive
  BY DEF VfsChroot, Change
<1>6. NodesOk(ramfs, devices, curdir') BY <1>2, <1>5
<1>7. dangling' = dangling \/ dangling' = dangling \cup {t} BY <1>1 DEF VfsChroot, Change
<1>8. alive' \subseteq Task /\ dangling' \subseteq Task BY <1>5, <1>7 DEF VfsInv
<1>9. halted' \in BOOLEAN
  <2>1. halted' = (r.st = "loop") BY <1>1, Zenon DEF VfsChroot, Change
  <2> QED BY <2>1, Zenon
<1> QED BY <1>4, <1>5, <1>6, <1>8, <1>9, NodesChange

(* vfs_chdir *)
LEMMA VfsChdirOk ==
  ASSUME VfsInv, NEW t \in Task, NEW path \in ChangePath, VfsChdir(t, path)
  PROVE  VfsInv'
<1>1. PICK r : r = Lookup(ramfs, Start(t, path), Names(path)) OBVIOUS
<1>2. NodesOk(ramfs, devices, froot) /\ NodesOk(ramfs, devices, curdir) BY DEF VfsInv
<1>3. curdir' = [curdir EXCEPT ![t] = IF r.st = "found" THEN r.node ELSE @]
  BY <1>1 DEF VfsChdir, Change
<1>4. NodesOk(ramfs, devices, curdir') BY <1>1, <1>2, <1>3, ChangedNode
<1>5. UNCHANGED froot /\ UNCHANGED trees /\ UNCHANGED pobjects /\ UNCHANGED alive
  BY DEF VfsChdir, Change
<1>6. NodesOk(ramfs, devices, froot') BY <1>2, <1>5
<1>7. dangling' = dangling \/ dangling' = dangling \cup {t} BY <1>1 DEF VfsChdir, Change
<1>8. alive' \subseteq Task /\ dangling' \subseteq Task BY <1>5, <1>7 DEF VfsInv
<1>9. halted' \in BOOLEAN
  <2>1. halted' = (r.st = "loop") BY <1>1, Zenon DEF VfsChdir, Change
  <2> QED BY <2>1, Zenon
<1> QED BY <1>4, <1>5, <1>6, <1>8, <1>9, NodesChange

(* Steps that leave the trees *)
LEMMA TasksChange ==
  ASSUME VfsInv, UNCHANGED trees, UNCHANGED halted, ObjectsOk(ramfs, devices, pobjects'),
         NodesOk(ramfs, devices, froot'), NodesOk(ramfs, devices, curdir'),
         alive' \subseteq Task, dangling' \subseteq Task
  PROVE  VfsInv'
<1>1. UNCHANGED <<ramfs, devices, devfs_ready>> BY DEF trees
<1>2. /\ NodesOk(ramfs', devices', froot') /\ NodesOk(ramfs', devices', curdir')
      /\ ObjectsOk(ramfs', devices', pobjects')
  BY <1>1
<1>3. Longer(devices, devices') BY <1>1, GrownSame
<1> QED BY <1>1, <1>2, <1>3 DEF VfsInv

(* init_task *)
LEMMA VfsSpawnOk ==
  ASSUME VfsInv, NEW t \in Task, NEW u \in Task, NEW fds \in FdList, VfsSpawn(t, u, fds)
  PROVE  VfsInv'
<1>1. /\ ObjectsOk(ramfs, devices, pobjects) /\ NodesOk(ramfs, devices, froot)
      /\ NodesOk(ramfs, devices, curdir)
  BY DEF VfsInv
<1>2. PICK table : table = Inherited(Copied(pobjects[t], fds)) OBVIOUS
<1>3. /\ table \in [Fd -> ObjectType \cup {Nil}]
      /\ \A fd \in Fd : table[fd] # Nil => ObjectOk(ramfs, devices, table[fd])
  BY <1>1, <1>2, InheritedOk
<1>4. pobjects' = [pobjects EXCEPT ![u] = table] BY <1>2 DEF VfsSpawn
<1>5. ObjectsOk(ramfs, devices, pobjects') BY <1>1, <1>3, <1>4, TableSet
<1>6. PICK root, dir : root = froot[t] /\ dir = curdir[t] OBVIOUS
<1>7. /\ root = Nil \/ NodeOk(ramfs, devices, root)
      /\ dir = Nil \/ NodeOk(ramfs, devices, dir)
  BY <1>1, <1>6 DEF NodesOk
<1>8. froot' = [froot EXCEPT ![u] = root] /\ curdir' = [curdir EXCEPT ![u] = dir]
  BY <1>6 DEF VfsSpawn
<1>9. NodesOk(ramfs, devices, froot') /\ NodesOk(ramfs, devices, curdir')
  BY <1>1, <1>7, <1>8, NodeSet
<1>10. alive' \subseteq Task /\ dangling' \subseteq Task /\ UNCHANGED trees /\ UNCHANGED halted
  BY DEF VfsSpawn, VfsInv
<1> QED BY <1>5, <1>9, <1>10, TasksChange

(* remove_task_by_pid *)
LEMMA VfsExitOk ==
  ASSUME VfsInv, NEW t \in Task, VfsExit(t)
  PROVE  VfsInv'
<1>1. /\ ObjectsOk(ramfs, devices, pobjects) /\ NodesOk(ramfs, devices, froot)
      /\ NodesOk(ramfs, devices, curdir)
  BY DEF VfsInv
<1>2. PICK table : table = EmptyTable OBVIOUS
<1>3. /\ table \in [Fd -> ObjectType \cup {Nil}]
      /\ \A fd \in Fd : table[fd] # Nil => ObjectOk(ramfs, devices, table[fd])
  BY <1>2 DEF EmptyTable
<1>4. pobjects' = [pobjects EXCEPT ![t] = table] BY <1>2 DEF VfsExit
<1>5. ObjectsOk(ramfs, devices, pobjects') BY <1>1, <1>3, <1>4, TableSet
<1>6. PICK x : x = Nil OBVIOUS
<1>7. froot' = [froot EXCEPT ![t] = x] /\ curdir' = [curdir EXCEPT ![t] = x]
  BY <1>6 DEF VfsExit
<1>8. NodesOk(ramfs, devices, froot') /\ NodesOk(ramfs, devices, curdir')
  BY <1>1, <1>6, <1>7, NodeSet
<1>9. alive' \subseteq Task /\ dangling' \subseteq Task /\ UNCHANGED trees /\ UNCHANGED halted
  BY DEF VfsExit, VfsInv
<1> QED BY <1>5, <1>8, <1>9, TasksChange

-----------------------------------------------------------------------------
(* write *)

(* A string without holes, that is written up to w *)
Written(s, w) == Sound(s) /\ \A k \in Nat : k < w => k \in Certain(s)

(* sheap_realloc for more than is allocated: what it loses is at an edge. *)
LEMMA SheapReallocOk ==
  ASSUME NEW s, StringOk(s), NEW size \in Nat, size > s.alloced * BlockSize,
         NEW new, new = SheapRealloc(s, size)
  PROVE  /\ new \in Data /\ new.length = s.length /\ new.alloced = s.alloced
         /\ \/ Block(new.object) /\ size <= new.object.block_size
            \/ new.object.block_size = 0 /\ size >= MaxSize
         /\ \A k \in Certain(s) : new.object.block_size > 0 /\ k \notin Edge => k \in new.written
<1>1. PICK a \in Nat : a = s.alloced * BlockSize
  BY VfsAssumption DEF StringOk, Data
<1>2. PICK bs \in Nat : bs = s.object.block_size BY DEF StringOk, Data, HeapObject
<1>3. size > 0 /\ size > a /\ MaxSize \in Nat BY <1>1, CachesAssumption
<1>4. s \in Data BY DEF StringOk
<1>5. \A k \in Certain(s) : k \in Nat /\ k <= a /\ (bs > 0 /\ k \notin Edge => k \in s.written)
  BY <1>1, <1>2 DEF Certain
<1>6. InPages(s) => bs = 0 /\ a >= MaxSize BY <1>1, <1>2 DEF InPages
<1>7. InBlock(s) => Block(s.object) /\ a <= bs BY <1>1, <1>2 DEF InBlock
<1>8. InPages(s) \/ InBlock(s) BY DEF StringOk
<1>9. CASE size <= bs
  <2>1. new = s BY <1>2, <1>9 DEF SheapRealloc
  <2>2. bs > 0 BY <1>3, <1>9
  <2>3. Block(s.object) BY <1>6, <1>7, <1>8, <2>2
  <2> QED BY <1>2, <1>4, <1>5, <1>9, <2>1, <2>2, <2>3
<1>10. CASE ~(size <= bs)
  <2>1. PICK o : o = SheapAlloc(size) OBVIOUS
  <2>2. o \in HeapObject /\ (size < MaxSize => Block(o) /\ size <= o.block_size)
        /\ (size >= MaxSize => o.block_size = 0)
    BY <1>3, <2>1, SheapAllocOk
  <2>3. PICK wr : wr = {p \in s.written : p < s.object.obj_size} OBVIOUS
  <2>4. new = [s EXCEPT !.object = o, !.written = wr] BY <1>2, <1>10, <2>1, <2>3 DEF SheapRealloc
  <2>5. /\ new \in Data /\ new.length = s.length /\ new.alloced = s.alloced
        /\ new.object = o /\ new.written = wr
    BY <1>4, <2>2, <2>3, <2>4 DEF Data
  <2>6. ASSUME NEW k \in Certain(s), o.block_size > 0, k \notin Edge PROVE k \in wr
    <3>1. size < MaxSize BY <1>3, <2>2, <2>6
    <3>2. Block(s.object) /\ a <= bs BY <1>3, <1>6, <1>7, <1>8, <3>1
    <3>3. PICK c \in Caches : c.obj_size = s.object.obj_size /\ c.block_size = bs
      BY <1>2, <3>2 DEF Block
    <3>4. k \in Nat /\ k <= bs /\ k \in s.written
      BY <1>2, <1>5, <2>6, <3>2 DEF Block
    <3>5. c.obj_size \in Nat /\ c.block_size \in Nat BY CachesAssumption
    <3>6. k \notin c.obj_size..c.block_size BY <2>6 DEF Edge
    <3>7. k < s.object.obj_size BY <3>3, <3>4, <3>5, <3>6
    <3> QED BY <2>3, <3>4, <3>7
  <2> QED BY <1>3, <2>2, <2>5, <2>6
<1> QED BY <1>9, <1>10

(* dstring_set_char of the next byte makes room for it. *)
LEMMA ExtendedOk ==
  ASSUME NEW s, NEW pos \in Nat, Written(s, pos), NEW new, new = Extended(s, pos)
  PROVE  /\ StringOk(new) /\ pos <= new.alloced * BlockSize
         /\ Certain(s) \subseteq Certain(new) /\ new.length \in {s.length, pos}
<1>1. StringOk(s) /\ s \in Data /\ 0..s.length \subseteq Certain(s) BY DEF Written, Sound, StringOk
<1>2. BlockSize \in Nat \ {0} BY VfsAssumption
<1>3. PICK len \in Nat, al \in Nat : len = s.length /\ al = s.alloced BY <1>1 DEF Data
<1>4. PICK a \in Nat : a = al * BlockSize BY <1>2
<1>5. len <= a
  <2>1. len \in Certain(s) BY <1>1, <1>3
  <2> QED BY <1>3, <1>4, <2>1 DEF Certain
<1>6. CASE pos > len /\ pos > a
  <2>1. PICK q \in Nat, r \in Nat :
          q = pos \div BlockSize /\ r = pos % BlockSize /\ pos = q * BlockSize + r
    BY <1>2
  <2>2. PICK al2 \in Nat : al2 = q + r OBVIOUS
  <2>3. PICK size \in Nat : size = al2 * BlockSize BY <1>2
  <2>4. pos <= size
    <3>1. size = q * BlockSize + r * BlockSize BY <1>2, <2>2, <2>3
    <3>2. r <= r * BlockSize BY <1>2
    <3>3. PICK x \in Nat, y \in Nat : x = q * BlockSize /\ y = r * BlockSize BY <1>2
    <3>4. pos = x + r /\ size = x + y /\ r <= y BY <2>1, <3>1, <3>2, <3>3
    <3> QED BY <3>4
  <2>5. PICK m : m = SheapRealloc(s, size) OBVIOUS
  <2>6. new = [m EXCEPT !.alloced = al2]
    BY <1>3, <1>4, <1>6, <2>1, <2>2, <2>3, <2>5 DEF Extended
  <2>7. size > s.alloced * BlockSize BY <1>3, <1>4, <1>6, <2>4
  <2>8. /\ m \in Data /\ m.length = s.length
        /\ \/ Block(m.object) /\ size <= m.object.block_size
           \/ m.object.block_size = 0 /\ size >= MaxSize
        /\ \A k \in Certain(s) : m.object.block_size > 0 /\ k \notin Edge => k \in m.written
    BY <1>1, <2>5, <2>7, SheapReallocOk
  <2>9. /\ new \in Data /\ new.length = m.length /\ new.alloced = al2
        /\ new.object = m.object /\ new.written = m.written
    BY <2>6, <2>8 DEF Data
  <2>10. StringOk(new) BY <2>3, <2>8, <2>9 DEF StringOk, InBlock, InPages
  <2>11. ASSUME NEW k \in Certain(s) PROVE k \in Certain(new)
    <3>1. k \in Nat /\ k <= a BY <1>3, <1>4 DEF Certain
    <3>2. k <= size BY <1>6, <2>4, <3>1
    <3> QED BY <2>3, <2>8, <2>9, <3>1, <3>2 DEF Certain
  <2> QED BY <2>3, <2>4, <2>8, <2>9, <2>10, <2>11
<1>7. CASE ~(pos > len /\ pos > a)
  <2>1. PICK len2 \in Nat : len2 = IF pos > len THEN pos ELSE len OBVIOUS
  <2>2. new = [s EXCEPT !.length = len2] BY <1>3, <1>4, <1>7, <2>1 DEF Extended
  <2>3. /\ new \in Data /\ new.length = len2 /\ new.alloced = al
        /\ new.object = s.object /\ new.written = s.written
    BY <1>1, <1>3, <2>2 DEF Data
  <2>4. StringOk(new) BY <1>1, <1>3, <2>3 DEF StringOk, InBlock, InPages
  <2>5. Certain(new) = Certain(s) BY <1>3, <2>3 DEF Certain
  <2>6. pos <= a BY <1>5, <1>7
  <2> QED BY <1>3, <1>4, <2>1, <2>3, <2>4, <2>5, <2>6
<1> QED BY <1>3, <1>4, <1>6, <1>7

(* dstring_set_char of the next byte *)
LEMMA SetCharOk ==
  ASSUME NEW s, NEW pos \in Nat, Written(s, pos), NEW new, new = SetChar(s, pos)
  PROVE  Written(new, pos + 1) /\ Certain(s) \subseteq Certain(new)
<1>1. PICK m : m = Extended(s, pos) OBVIOUS
<1>2. /\ StringOk(m) /\ pos <= m.alloced * BlockSize
      /\ Certain(s) \subseteq Certain(m) /\ m.length \in {s.length, pos}
  BY <1>1, ExtendedOk
<1>3. m \in Data BY <1>2 DEF StringOk
<1>4. /\ new \in Data /\ new.length = m.length /\ new.alloced = m.alloced
      /\ new.object = m.object /\ m.written \subseteq new.written
      /\ pos < m.object.room => pos \in new.written
  BY <1>1, <1>3 DEF SetChar, Data
<1>5. StringOk(new) BY <1>2, <1>4 DEF StringOk, InBlock, InPages
<1>6. Certain(m) \subseteq Certain(new) BY <1>4 DEF Certain
<1>7. pos \in Certain(new)
  <2>1. ASSUME m.object.block_size > 0, pos \notin Edge PROVE pos < m.object.room
    <3>1. InBlock(m) BY <1>2, <2>1 DEF StringOk, InPages
    <3>2. PICK bs \in Nat : bs = m.object.block_size BY <1>3 DEF Data, HeapObject
    <3>3. PICK a \in Nat : a = m.alloced * BlockSize BY <1>3, VfsAssumption DEF Data
    <3>4. pos <= bs BY <1>2, <3>1, <3>2, <3>3 DEF InBlock
    <3>5. PICK c \in Caches : c.block_size = bs BY <3>1, <3>2 DEF InBlock, Block
    <3>6. c.obj_size \in Nat /\ c.obj_size <= bs BY <3>5, CachesAssumption
    <3>7. pos # bs
      <4>1. bs \in c.obj_size..c.block_size BY <3>2, <3>5, <3>6
      <4> QED BY <2>1, <4>1 DEF Edge
    <3> QED BY <3>1, <3>2, <3>4, <3>7 DEF InBlock, Block
  <2> QED BY <1>2, <1>4, <2>1 DEF Certain
<1>8. \A k \in Nat : k < pos + 1 => k \in Certain(new)
  <2>1. \A k \in Nat : k < pos => k \in Certain(s) BY DEF Written
  <2>2. \A k \in Nat : k < pos + 1 => k < pos \/ k = pos OBVIOUS
  <2> QED BY <1>2, <1>6, <1>7, <2>1, <2>2
<1>9. 0..new.length \subseteq Certain(new)
  <2>1. CASE m.length = s.length
    <3>1. 0..s.length \subseteq Certain(s) BY DEF Written, Sound
    <3> QED BY <1>2, <1>4, <1>6, <2>1, <3>1
  <2>2. CASE m.length = pos
    <3>1. \A k \in 0..pos : k \in Nat /\ k < pos + 1 OBVIOUS
    <3> QED BY <1>4, <1>8, <2>2, <3>1
  <2> QED BY <1>2, <2>1, <2>2
<1> QED BY <1>2, <1>5, <1>6, <1>8, <1>9 DEF Written, Sound

WriteOp(c, d, s, pos) == SetChar(s, pos)
WriteLoop == INSTANCE FoldTheorems WITH op <- WriteOp

(* The loop of ramfs_write_node *)
LEMMA WriteOk ==
  ASSUME NEW base, NEW w \in Nat, Written(base, w), NEW n \in Nat,
         NEW at, at = [i \in 1..n |-> w + i - 1], NEW new, new = FoldLeft(SetChar, base, at)
  PROVE  Written(new, w + n) /\ Certain(base) \subseteq Certain(new)
<1>1. at \in Seq(Nat) /\ Len(at) = n OBVIOUS
<1>2. PICK F : WriteLoop!Runs(F, Nil, Nil, base, at) BY <1>1, WriteLoop!FoldRun
<1>3. WriteLoop!Loop(Nil, Nil, base, at) = new
  BY Zenon DEF WriteLoop!Loop, WriteOp, WriteLoop!FoldLeft, FoldLeft,
               WriteLoop!MapThenFoldSet, MapThenFoldSet, WriteLoop!Max, Max
<1> DEFINE S == {k \in Nat : k <= n => Written(F[k], w + k) /\ Certain(base) \subseteq Certain(F[k])}
<1>4. 0 \in S
  <2>1. F[0] = base BY <1>2, Zenon DEF WriteLoop!Runs
  <2>2. w + 0 = w OBVIOUS
  <2> QED BY <2>1, <2>2
<1>5. ASSUME NEW k \in Nat, k \in S PROVE k + 1 \in S
  <2>1. SUFFICES ASSUME k + 1 <= n
                 PROVE  Written(F[k + 1], w + (k + 1)) /\ Certain(base) \subseteq Certain(F[k + 1])
    OBVIOUS
  <2>2. k \in 0..(n - 1) /\ k + 1 \in 1..n BY <2>1
  <2>3. PICK pos \in Nat : pos = w + k OBVIOUS
  <2>4. at[k + 1] = pos BY <2>2, <2>3
  <2>5. PICK s : s = F[k] OBVIOUS
  <2>6. Written(s, pos) /\ Certain(base) \subseteq Certain(s) BY <1>5, <2>2, <2>3, <2>5
  <2>7. k \in 0..(Len(at) - 1) BY <1>1, <2>2
  <2>8. F[k + 1] = SetChar(s, pos) BY <1>2, <2>4, <2>5, <2>7, Zenon DEF WriteLoop!Runs, WriteOp
  <2>9. Written(F[k + 1], pos + 1) /\ Certain(s) \subseteq Certain(F[k + 1])
    BY <2>6, <2>8, SetCharOk
  <2>10. pos + 1 = w + (k + 1) BY <2>3
  <2> QED BY <2>6, <2>9, <2>10
<1>6. Nat \subseteq S
  <2> HIDE DEF S
  <2> QED BY <1>4, <1>5, WriteLoop!SetInduction
<1>7. Written(F[n], w + n) /\ Certain(base) \subseteq Certain(F[n]) BY <1>6
<1>8. F[n] = new BY <1>1, <1>2, <1>3, Zenon DEF WriteLoop!Runs
<1> QED BY <1>7, <1>8

(* vfs_write *)
LEMMA VfsWriteOk ==
  ASSUME VfsInv, NEW t \in Task, NEW fd \in Fd, NEW n \in Length, VfsWrite(t, fd, n)
  PROVE  VfsInv'
<1>1. TreesOk(ramfs) /\ ObjectsOk(ramfs, devices, pobjects) BY DEF VfsInv
<1>2. PICK obj : obj = pobjects[t][fd] OBVIOUS
<1>3. obj # Nil /\ obj.node.fs # Devfs BY <1>2 DEF VfsWrite, InRamfs
<1>4. ObjectOk(ramfs, devices, obj) /\ obj \in ObjectType BY <1>1, <1>2, <1>3 DEF ObjectsOk, ObjectOk
<1>5. PICK f, k : f = obj.node.fs /\ k = obj.node.inode OBVIOUS
<1>6. PICK w \in Nat : w = obj.write_offset BY <1>4 DEF ObjectType
<1>7. n \in Nat BY VfsAssumption
<1>8. PICK table : table = ramfs[f] OBVIOUS
<1>9. f \in 1..2 /\ \E m : TreeOf(table, m) /\ k \in 0..(m - 1)
  BY <1>1, <1>3, <1>4, <1>5, <1>8, NodeInTree DEF ObjectOk
<1>10. PICK m : TreeOf(table, m) /\ k \in 0..(m - 1) BY <1>9
<1>11. m \in Nat /\ table \in [0..(m - 1) -> NodeType] BY <1>10 DEF TreeOf
<1>12. PICK old \in NodeType : old = table[k] BY <1>10, <1>11
<1>13. NoHole(table) BY <1>1, <1>8, <1>9 DEF TreesOk
<1>14. PICK base : base = old.data OBVIOUS
<1>15. Written(base, w)
  <2>2. Sound(base) BY <1>10, <1>11, <1>12, <1>13, <1>14 DEF NoHole
  <2>3. \A i \in Nat : i < w => i \in Certain(base)
    BY <1>3, <1>4, <1>5, <1>6, <1>8, <1>12, <1>14 DEF ObjectOk
  <2> QED BY <2>2, <2>3 DEF Written
<1>16. PICK at : at = [i \in 1..n |-> w + i - 1] OBVIOUS
<1>17. PICK data : data = FoldLeft(SetChar, base, at) OBVIOUS
<1>18. Written(data, w + n) /\ Certain(base) \subseteq Certain(data)
  BY <1>7, <1>15, <1>16, <1>17, WriteOk
<1>19. PICK node : node = [old EXCEPT !.data = data] OBVIOUS
<1>20. /\ node \in NodeType /\ node.data = data /\ node.type = old.type
       /\ node.dirents = old.dirents
  BY <1>18, <1>19 DEF NodeType, Written, Sound, StringOk
<1>21. PICK new : new = [table EXCEPT ![k] = node] OBVIOUS
<1>22. /\ new \in [0..(m - 1) -> NodeType] /\ new[k] = node
       /\ \A i \in 0..(m - 1) : i # k => new[i] = table[i]
  BY <1>10, <1>11, <1>20, <1>21
<1>23. TreeOf(new, m)
  <2>1. \A i \in 0..(m - 1) : new[i].type = table[i].type /\ new[i].dirents = table[i].dirents
    BY <1>12, <1>20, <1>22
  <2> QED BY <1>10, <1>22, <2>1, SameTree
<1>24. DOMAIN new = 0..(m - 1) /\ DOMAIN table = 0..(m - 1) BY <1>11, <1>22
<1>25. NoHole(new)
  <2>1. ASSUME NEW i \in 0..(m - 1) PROVE Sound(new[i].data)
    <3>1. CASE i = k BY <1>18, <1>20, <1>22, <3>1 DEF Written
    <3>2. CASE i # k BY <1>13, <1>22, <1>24, <3>2 DEF NoHole
    <3> QED BY <3>1, <3>2
  <2> QED BY <1>24, <2>1 DEF NoHole
<1>26. \A i \in DOMAIN ramfs[f] :
         i \in DOMAIN new /\ Certain(ramfs[f][i].data) \subseteq Certain(new[i].data)
  BY <1>8, <1>12, <1>14, <1>18, <1>20, <1>22, <1>24
<1>27. /\ ramfs' = [ramfs EXCEPT ![f][k].data = FoldLeft(SetChar, @, at)]
       /\ pobjects' = [pobjects EXCEPT ![t][fd].write_offset = @ + n]
       /\ halted' \in BOOLEAN /\ UNCHANGED <<devices, devfs_ready, tasks>>
  <2>1. at = [i \in 1..n |-> obj.write_offset + i - 1] BY <1>6, <1>16
  <2>2. \E b : halted' \in (IF b THEN BOOLEAN ELSE {FALSE}) BY Zenon DEF VfsWrite
  <2> QED BY <1>2, <1>5, <2>1, <2>2 DEF VfsWrite
<1>28. ramfs' = [g \in 1..2 |-> IF g = f THEN new ELSE ramfs[g]]
  <2>1. PICK D : D = 1..2 OBVIOUS
  <2>2. ramfs = [g \in D |-> ramfs[g]] BY <1>1, <2>1 DEF TreesOk
  <2>3. ramfs' = [ramfs EXCEPT ![f] = new] BY <1>8, <1>12, <1>14, <1>17, <1>19, <1>21, <1>27
  <2>4. ramfs' = [g \in D |-> IF g = f THEN new ELSE ramfs[g]] BY <2>2, <2>3
  <2> QED BY <2>1, <2>4
<1>29. Tree(new) BY <1>11, <1>23 DEF Tree
<1>30. TreesOk(ramfs') /\ Grown(ramfs, ramfs') BY <1>1, <1>9, <1>25, <1>26, <1>28, <1>29, TreeSet
<1>31. Longer(devices, devices) /\ Longer(devices, devices') BY <1>27, GrownSame
<1>32. ObjectOk(ramfs', devices, obj) BY <1>4, <1>30, <1>31, ObjectLater
<1>33. PICK w2 \in Nat : w2 = w + n BY <1>7
<1>34. PICK x : x = [obj EXCEPT !.write_offset = w2] OBVIOUS
<1>35. ObjectOk(ramfs', devices, x)
  <2>1. /\ x \in ObjectType /\ x.node = obj.node /\ x.device = obj.device
        /\ x.write_offset = w2
    BY <1>4, <1>34 DEF ObjectType
  <2>2. ramfs'[f][k].data = data BY <1>9, <1>20, <1>22, <1>28
  <2>3. \A i \in Nat : i < w2 => i \in Certain(data) BY <1>18, <1>33 DEF Written
  <2>4. \A i \in Nat : i < x.write_offset => i \in Certain(ramfs'[x.node.fs][x.node.inode].data)
    BY <1>5, <2>1, <2>2, <2>3
  <2> QED BY <1>32, <2>1, <2>4 DEF ObjectOk
<1>36. PICK table2 : table2 = [pobjects[t] EXCEPT ![fd] = x] OBVIOUS
<1>37. pobjects' = [pobjects EXCEPT ![t] = table2]
  BY <1>2, <1>6, <1>27, <1>33, <1>34, <1>36
<1>38. ObjectsOk(ramfs', devices, pobjects) BY <1>1, <1>30, <1>31, ObjectsLater
<1>39. ObjectsOk(ramfs', devices, pobjects') BY <1>35, <1>36, <1>37, <1>38, ObjectSet
<1>40. halted' \in BOOLEAN /\ UNCHANGED <<froot, curdir, alive, dangling, devices, devfs_ready>>
  BY <1>27 DEF tasks
<1>41. NodesOk(ramfs', devices', froot') /\ NodesOk(ramfs', devices', curdir')
  BY <1>30, <1>31, <1>40, NodesLater DEF VfsInv
<1> QED BY <1>30, <1>31, <1>39, <1>40, <1>41 DEF VfsInv

-----------------------------------------------------------------------------
(* The theorems about Vfs *)

(* A step of the specification keeps the invariant. *)
LEMMA VfsNextOk == VfsInv /\ [VfsNext]_vfsVars => VfsInv'
<1> SUFFICES ASSUME VfsInv, [VfsNext]_vfsVars PROVE VfsInv' OBVIOUS
<1>1. CASE InitDevfs BY <1>1, InitDevfsOk
<1>2. CASE RegisterDevice BY <1>2, RegisterDeviceOk
<1>3. ASSUME NEW t \in Task, NEW path \in OpenPath, NEW create \in BOOLEAN, VfsOpen(t, path, create)
      PROVE  VfsInv'
  BY <1>3, VfsOpenOk
<1>4. ASSUME NEW t \in Task, NEW path \in ChangePath, VfsChroot(t, path) \/ VfsChdir(t, path)
      PROVE  VfsInv'
  BY <1>4, VfsChrootOk, VfsChdirOk
<1>5. ASSUME NEW t \in Task, NEW fd \in Fd, VfsClose(t, fd) PROVE VfsInv' BY <1>5, VfsCloseOk
<1>6. ASSUME NEW t \in Task, NEW fd \in Fd, NEW n \in Length, VfsWrite(t, fd, n) \/ VfsRead(t, fd, n)
      PROVE  VfsInv'
  BY <1>6, VfsWriteOk, VfsReadOk
<1>7. ASSUME NEW t \in Task, NEW fd \in Fd, NEW offset \in Offset,
             NEW whence \in {"SET", "CUR", "END"}, VfsLseek(t, fd, offset, whence)
      PROVE  VfsInv'
  BY <1>7, VfsLseekOk
<1>8. ASSUME NEW t \in Task, NEW u \in Task, NEW fds \in FdList, VfsSpawn(t, u, fds)
      PROVE  VfsInv'
  BY <1>8, VfsSpawnOk
<1>9. ASSUME NEW t \in Task, VfsExit(t) PROVE VfsInv' BY <1>9, VfsExitOk
<1>10. CASE UNCHANGED vfsVars BY <1>10 DEF vfsVars, VfsInv
<1>11. CASE VfsStopped BY <1>10, <1>11 DEF VfsStopped
<1> QED BY <1>1, <1>2, <1>3, <1>4, <1>5, <1>6, <1>7, <1>8, <1>9, <1>10, <1>11 DEF VfsNext

(* The file systems in memory stay trees with strings without holes, and   *)
(* what the tasks hold stays in them, whatever the calls of init_vfs,      *)
(* vfs_open, vfs_write and the others do.                                  *)
THEOREM VfsInvariant == VfsSpec => []VfsInv
BY VfsInitOk, VfsNextOk, PTL DEF VfsSpec

(* The type invariant of Vfs follows from it. *)
LEMMA VfsTypes == VfsInv => VfsTypeOK
<1> SUFFICES ASSUME VfsInv PROVE VfsTypeOK OBVIOUS
<1>1. ASSUME NEW f \in DOMAIN ramfs, NEW i \in DOMAIN ramfs[f]
      PROVE  /\ ramfs[f][i].type \in {"dir", "null"} /\ ramfs[f][i].mount \in 0..2 \cup {Nil}
             /\ ramfs[f][i].data \in [length : Nat, alloced : Nat, written : SUBSET Nat,
                                       object : [obj_size : Nat, block_size : Nat, room : Int]]
  <2>1. f \in 1..2 BY DEF VfsInv, TreesOk
  <2>2. PICK n : TreeOf(ramfs[f], n) BY <2>1 DEF VfsInv, TreesOk, Tree
  <2>3. ramfs[f][i] \in NodeType BY <2>2 DEF TreeOf
  <2> QED BY <2>3 DEF NodeType, Data, HeapObject
<1>2. devices \in [1..Len(devices) -> Range(Device)] BY DEF VfsInv
<1>3. \A t \in Task, fd \in Fd : pobjects[t][fd] \in ObjectType \cup {Nil} BY DEF VfsInv, ObjectsOk
<1>4. froot \in [Task -> FileNode \cup {Nil}] /\ curdir \in [Task -> FileNode \cup {Nil}]
  BY DEF VfsInv, NodesOk
<1>5. /\ devfs_ready \in BOOLEAN /\ halted \in BOOLEAN /\ alive \subseteq Task
      /\ dangling \subseteq Task
  BY DEF VfsInv
<1> QED BY <1>1, <1>2, <1>3, <1>4, <1>5, Zenon DEF VfsTypeOK, ObjectType

(* VfsTypeOK: nodes, devices, objects and offsets of vfs.c, ramfs.c and    *)
(* devfs.c keep their types.                                               *)
THEOREM VfsTypesKept == VfsSpec => []VfsTypeOK
BY VfsInvariant, VfsTypes, PTL

(* DeviceStable: the inode of an open device file goes on naming the       *)
(* device it was opened for while drivers call hal_register_device.        *)
THEOREM DevicesStable == VfsSpec => []DeviceStable
<1>1. VfsInv => DeviceStable
  BY DEF VfsInv, ObjectsOk, ObjectOk, DeviceStable, DeviceOf
<1> QED BY <1>1, VfsInvariant, PTL

(* ReadsWritten: however many writers call dstring_set_char, which grows   *)
(* the string and has krealloc move it, below the length of a file in a    *)
(* block of the heap only the bytes at an edge are lost.                   *)
THEOREM AlwaysReadsWritten == VfsSpec => []ReadsWritten
<1>1. VfsInv => ReadsWritten
  <2> SUFFICES ASSUME VfsInv, NEW f \in DOMAIN ramfs, NEW i \in DOMAIN ramfs[f],
                      ramfs[f][i].data.object.block_size > 0,
                      NEW k \in 0..ramfs[f][i].data.length, k \notin Edge
               PROVE  k \in ramfs[f][i].data.written
    BY DEF ReadsWritten
  <2>1. f \in 1..2 BY DEF VfsInv, TreesOk
  <2>2. NoHole(ramfs[f]) BY <2>1 DEF VfsInv, TreesOk
  <2>3. k \in Certain(ramfs[f][i].data) BY <2>2 DEF NoHole, Sound
  <2> QED BY <2>3 DEF Certain
<1> QED BY <1>1, VfsInvariant, PTL

(* The entries of a table, each a directory and a position in it *)
EntriesOf(table) == UNION {{<<d, i>> : i \in DOMAIN table[d].dirents} : d \in DOMAIN table}
InodeOf(table, e) == table[e[1]].dirents[e[2]].inode

(* In a tree every inode but the root's has one entry. *)
LEMMA OnlyEntry ==
  ASSUME NEW table, NEW n, TreeOf(table, n), NEW k \in DOMAIN table \ {0}
  PROVE  Cardinality({e \in EntriesOf(table) : InodeOf(table, e) = k}) = 1
<1> DEFINE E == {e \in EntriesOf(table) : InodeOf(table, e) = k}
<1>1. n \in Nat /\ DOMAIN table = 0..(n - 1) BY DEF TreeOf
<1>2. k \in 1..(n - 1) BY <1>1
<1>3. \A d \in 0..(n - 1) : DOMAIN table[d].dirents = 1..Len(table[d].dirents)
  <2> SUFFICES ASSUME NEW d \in 0..(n - 1) PROVE DOMAIN table[d].dirents = 1..Len(table[d].dirents)
    OBVIOUS
  <2>1. table[d].dirents \in Seq(Dirent) BY DEF TreeOf, NodeType
  <2> QED BY <2>1
<1>4. PICK d \in 0..(n - 1) : \E i \in 1..Len(table[d].dirents) : table[d].dirents[i].inode = k
  BY <1>2 DEF TreeOf, Reached
<1>5. PICK i \in 1..Len(table[d].dirents) : table[d].dirents[i].inode = k BY <1>4
<1>6. PICK x : x = <<d, i>> OBVIOUS
<1>7. x \in E
  <2>1. d \in DOMAIN table /\ i \in DOMAIN table[d].dirents BY <1>1, <1>3
  <2>2. x \in EntriesOf(table) BY <1>6, <2>1 DEF EntriesOf
  <2>3. InodeOf(table, x) = k BY <1>5, <1>6 DEF InodeOf
  <2> QED BY <2>2, <2>3
<1>8. ASSUME NEW e \in E PROVE e = x
  <2>1. PICK c \in DOMAIN table : e \in {<<c, j>> : j \in DOMAIN table[c].dirents} BY DEF EntriesOf
  <2>2. PICK j \in DOMAIN table[c].dirents : e = <<c, j>> BY <2>1
  <2>3. c \in 0..(n - 1) /\ j \in 1..Len(table[c].dirents) BY <1>1, <1>3
  <2>4. InodeOf(table, e) = k OBVIOUS
  <2>5. table[c].dirents[j].inode = k BY <2>2, <2>4 DEF InodeOf
  <2>6. OneEntry(table, n) BY DEF TreeOf
  <2>7. c = d /\ j = i BY <1>5, <2>3, <2>5, <2>6 DEF OneEntry
  <2> QED BY <1>6, <2>2, <2>7
<1>9. E = {x} BY <1>7, <1>8
<1> QED BY <1>9, FS_Singleton

(* Every entry leads to a node further on, and no name occurs twice. *)
LEMMA EntriesLead ==
  ASSUME NEW table, NEW n, TreeOf(table, n)
  PROVE  /\ \A e \in EntriesOf(table) : /\ InodeOf(table, e) \in DOMAIN table
                                        /\ e[1] < InodeOf(table, e) /\ table[e[1]].type = "dir"
         /\ \A d \in DOMAIN table : \A i, j \in DOMAIN table[d].dirents :
              table[d].dirents[i].name = table[d].dirents[j].name => i = j
<1>1. n \in Nat /\ DOMAIN table = 0..(n - 1) BY DEF TreeOf
<1>2. \A d \in 0..(n - 1) : DOMAIN table[d].dirents = 1..Len(table[d].dirents)
  <2> SUFFICES ASSUME NEW d \in 0..(n - 1) PROVE DOMAIN table[d].dirents = 1..Len(table[d].dirents)
    OBVIOUS
  <2>1. table[d].dirents \in Seq(Dirent) BY DEF TreeOf, NodeType
  <2> QED BY <2>1
<1>3. ASSUME NEW e \in EntriesOf(table)
      PROVE  /\ InodeOf(table, e) \in DOMAIN table
             /\ e[1] < InodeOf(table, e) /\ table[e[1]].type = "dir"
  <2>1. PICK c \in DOMAIN table : e \in {<<c, j>> : j \in DOMAIN table[c].dirents} BY DEF EntriesOf
  <2>2. PICK j \in DOMAIN table[c].dirents : e = <<c, j>> BY <2>1
  <2>3. c \in 0..(n - 1) /\ j \in 1..Len(table[c].dirents) BY <1>1, <1>2
  <2>4. EntryOk(table, n, c, j) BY <2>3 DEF TreeOf, EntriesOk
  <2>5. PICK k : k = table[c].dirents[j].inode OBVIOUS
  <2>6. k \in (c + 1)..(n - 1) /\ table[c].type = "dir" BY <2>4, <2>5 DEF EntryOk
  <2>7. k \in 0..(n - 1) /\ c < k BY <1>1, <2>3, <2>6
  <2>8. e[1] = c /\ InodeOf(table, e) = k BY <2>2, <2>5 DEF InodeOf
  <2> QED BY <1>1, <2>6, <2>7, <2>8
<1>4. ASSUME NEW d \in DOMAIN table, NEW i \in DOMAIN table[d].dirents,
             NEW j \in DOMAIN table[d].dirents,
             table[d].dirents[i].name = table[d].dirents[j].name
      PROVE  i = j
  <2>1. d \in 0..(n - 1) /\ i \in 1..Len(table[d].dirents) /\ j \in 1..Len(table[d].dirents)
    BY <1>1, <1>2
  <2>2. OneName(table, n) BY DEF TreeOf
  <2> QED BY <1>4, <2>1, <2>2 DEF OneName
<1> QED BY <1>3, <1>4

(* What the tasks hold is there. *)
LEMMA HeldThere ==
  ASSUME VfsInv, NEW t \in Task,
         NEW node \in ({froot[t], curdir[t]} \ {Nil})
                        \cup {pobjects[t][fd].node : fd \in {f \in Fd : pobjects[t][f] # Nil}}
  PROVE  IF node.fs = Devfs THEN IsDevice(node) => node.inode - 127 \in DOMAIN devices
         ELSE node.fs \in DOMAIN ramfs /\ node.inode \in DOMAIN ramfs[node.fs]
<1>1. NodeOk(ramfs, devices, node)
  <2>1. CASE node \in {froot[t], curdir[t]} \ {Nil} BY <2>1 DEF VfsInv, NodesOk
  <2>2. CASE node \in {pobjects[t][fd].node : fd \in {f \in Fd : pobjects[t][f] # Nil}}
    <3>1. PICK fd \in Fd : pobjects[t][fd] # Nil /\ node = pobjects[t][fd].node BY <2>2
    <3>2. ObjectOk(ramfs, devices, pobjects[t][fd]) BY <3>1 DEF VfsInv, ObjectsOk
    <3> QED BY <3>1, <3>2 DEF ObjectOk
  <2> QED BY <2>1, <2>2
<1>2. DOMAIN devices = 1..Len(devices) BY DEF VfsInv
<1>3. DOMAIN ramfs = 1..2 BY DEF VfsInv, TreesOk
<1>4. node.fs # Devfs => node.fs \in 1..2 BY <1>1 DEF NodeOk, FileNode, Devfs
<1> QED BY <1>1, <1>2, <1>3, <1>4 DEF NodeOk

(* TreeWellFormed: ramfs_add_node and ramfs_mount_node keep every file     *)
(* system a tree, and no call leaves a task with a node that is not in it. *)
THEOREM TreesAlwaysWellFormed == VfsSpec => []TreeWellFormed
<1>1. VfsInv => TreeWellFormed
  <2> SUFFICES ASSUME VfsInv PROVE TreeWellFormed OBVIOUS
  <2>1. ASSUME NEW f \in DOMAIN ramfs
        PROVE  /\ \A k \in DOMAIN ramfs[f] \ {0} :
                    Cardinality({e \in EntriesOf(ramfs[f]) : InodeOf(ramfs[f], e) = k}) = 1
               /\ \A e \in EntriesOf(ramfs[f]) :
                    /\ InodeOf(ramfs[f], e) \in DOMAIN ramfs[f]
                    /\ e[1] < InodeOf(ramfs[f], e) /\ ramfs[f][e[1]].type = "dir"
               /\ \A d \in DOMAIN ramfs[f] : \A i, j \in DOMAIN ramfs[f][d].dirents :
                    ramfs[f][d].dirents[i].name = ramfs[f][d].dirents[j].name => i = j
    <3>1. f \in 1..2 BY DEF VfsInv, TreesOk
    <3>2. PICK n : TreeOf(ramfs[f], n) BY <3>1 DEF VfsInv, TreesOk, Tree
    <3> QED BY <3>2, OnlyEntry, EntriesLead
  <2> QED BY <2>1, HeldThere, Zenon DEF TreeWellFormed, EntriesOf, InodeOf
<1> QED BY <1>1, VfsInvariant, PTL

-----------------------------------------------------------------------------
(* The inductive invariant of FatFs *)

(* Records, whatever their fields hold that is not counted *)
IsObject(x) == \E A, B, C : x \in [inode : A, ent : B, counted : BOOLEAN, offset : C]
IsCached(x) == \E B : x \in [ent : B, references : Nat]
CacheOk(map) ==
  map = [i \in DOMAIN map |-> map[i]] /\ \A i \in DOMAIN map : IsCached(map[i])

(* Only tasks that run, and these are finitely many, have objects. *)
FilesOk(run, objs) ==
  /\ run \subseteq Task /\ IsFiniteSet(run)
  /\ objs = [t \in Task |-> objs[t]] /\ \A t \in Task : objs[t] = [fd \in Fd |-> objs[t][fd]]
  /\ \A t \in Task, fd \in Fd : objs[t][fd] # Nil => t \in run /\ IsObject(objs[t][fd])

(* The objects of an inode that open counted, and what it should count *)
OpensOf(objs, inode) ==
  {e \in Task \X Fd :
     LET obj == objs[e[1]][e[2]] IN obj # Nil /\ obj.counted /\ obj.inode = inode}
Due(objs, inode, root) == Cardinality(OpensOf(objs, inode)) + (IF inode = root THEN 1 ELSE 0)

(* No entry counts less, unless an object was closed that was not counted. *)
CountsOk(objs, map, over, root) ==
  \A inode : inode \notin over /\ Due(objs, inode, root) > 0 =>
    inode \in DOMAIN map /\ map[inode].references >= Due(objs, inode, root)

(* The head of a bucket points to one of its nodes, or to one that was     *)
(* removed.                                                                *)
HeadsOk(map, heads, gone) ==
  \A b \in DOMAIN heads :
    Bucket(heads[b].base) = b /\ heads[b].base \in DOMAIN map \cup gone

FatInv ==
  /\ FilesOk(running, files) /\ CacheOk(inode_map)
  /\ CountsOk(files, inode_map, overclosed, RootInode)
  /\ HeadsOk(inode_map, buckets, removed)

-----------------------------------------------------------------------------
(* Counting objects *)

(* There are finitely many. *)
LEMMA OpensFinite ==
  ASSUME NEW run, NEW objs, FilesOk(run, objs), NEW inode, NEW root
  PROVE  /\ IsFiniteSet(OpensOf(objs, inode)) /\ Cardinality(OpensOf(objs, inode)) \in Nat
         /\ Due(objs, inode, root) \in Nat
<1>1. IsFiniteSet(run \X Fd) BY FdFinite, FS_Product DEF FilesOk
<1>2. OpensOf(objs, inode) \in SUBSET (run \X Fd)
  <2> SUFFICES ASSUME NEW e \in OpensOf(objs, inode) PROVE e \in run \X Fd OBVIOUS
  <2>1. PICK t \in Task, fd \in Fd : e = <<t, fd>> BY DEF OpensOf
  <2>2. objs[t][fd] # Nil BY <2>1 DEF OpensOf
  <2> QED BY <2>1, <2>2 DEF FilesOk
<1>3. IsFiniteSet(OpensOf(objs, inode)) BY <1>1, <1>2, FS_Subset
<1>4. Cardinality(OpensOf(objs, inode)) \in Nat BY <1>3, FS_CardinalityType
<1> QED BY <1>3, <1>4 DEF Due

(* Fewer objects are due less. *)
LEMMA DueLess ==
  ASSUME NEW run, NEW objs, FilesOk(run, objs), NEW inode, NEW root,
         NEW new, OpensOf(new, inode) \subseteq OpensOf(objs, inode)
  PROVE  Due(new, inode, root) \in Nat /\ Due(new, inode, root) <= Due(objs, inode, root)
<1>1. PICK n \in Nat : n = Cardinality(OpensOf(objs, inode)) BY OpensFinite
<1>2. IsFiniteSet(OpensOf(objs, inode)) BY OpensFinite
<1>3. OpensOf(new, inode) \in SUBSET OpensOf(objs, inode) OBVIOUS
<1>4. IsFiniteSet(OpensOf(new, inode)) /\ Cardinality(OpensOf(new, inode)) <= n
  BY <1>1, <1>2, <1>3, FS_Subset
<1>5. PICK m \in Nat : m = Cardinality(OpensOf(new, inode)) BY <1>4, FS_CardinalityType
<1> QED BY <1>1, <1>4, <1>5 DEF Due

(* One object less *)
LEMMA DueOneLess ==
  ASSUME NEW run, NEW objs, FilesOk(run, objs), NEW inode, NEW root,
         NEW new, NEW e \in OpensOf(objs, inode),
         OpensOf(new, inode) \subseteq OpensOf(objs, inode) \ {e}
  PROVE  Due(new, inode, root) \in Nat /\ Due(new, inode, root) + 1 <= Due(objs, inode, root)
<1>1. PICK n \in Nat : n = Cardinality(OpensOf(objs, inode)) BY OpensFinite
<1>2. PICK T : T = OpensOf(objs, inode) \ {e} OBVIOUS
<1>3. IsFiniteSet(T) /\ Cardinality(T) = n - 1 BY <1>1, <1>2, OpensFinite, FS_RemoveElement
<1>4. OpensOf(new, inode) \in SUBSET T BY <1>2
<1>5. IsFiniteSet(OpensOf(new, inode)) /\ Cardinality(OpensOf(new, inode)) <= n - 1
  BY <1>3, <1>4, FS_Subset
<1>6. PICK m \in Nat : m = Cardinality(OpensOf(new, inode)) BY <1>5, FS_CardinalityType
<1> QED BY <1>1, <1>5, <1>6 DEF Due

(* One object more *)
LEMMA DueOneMore ==
  ASSUME NEW run, NEW objs, FilesOk(run, objs), NEW inode, NEW root,
         NEW new, NEW e, OpensOf(new, inode) \subseteq OpensOf(objs, inode) \cup {e}
  PROVE  Due(new, inode, root) \in Nat /\ Due(new, inode, root) <= Due(objs, inode, root) + 1
<1>1. PICK n \in Nat : n = Cardinality(OpensOf(objs, inode)) BY OpensFinite
<1>2. PICK T : T = OpensOf(objs, inode) \cup {e} OBVIOUS
<1>3. IsFiniteSet(T) /\ Cardinality(T) <= n + 1
  <2>1. IsFiniteSet(OpensOf(objs, inode)) BY OpensFinite
  <2>2. IsFiniteSet(T) BY <1>2, <2>1, FS_AddElement
  <2>3. Cardinality(T) = IF e \in OpensOf(objs, inode) THEN n ELSE n + 1
    BY <1>1, <1>2, <2>1, FS_AddElement
  <2> QED BY <2>2, <2>3
<1>4. OpensOf(new, inode) \in SUBSET T BY <1>2
<1>5. IsFiniteSet(OpensOf(new, inode)) /\ Cardinality(OpensOf(new, inode)) <= Cardinality(T)
  BY <1>3, <1>4, FS_Subset
<1>6. PICK m \in Nat, k \in Nat : m = Cardinality(OpensOf(new, inode)) /\ k = Cardinality(T)
  BY <1>3, <1>5, FS_CardinalityType
<1> QED BY <1>1, <1>3, <1>5, <1>6 DEF Due

(* The cache counts no less, and no more is due. *)
LEMMA CountsKept ==
  ASSUME NEW run, NEW objs, FilesOk(run, objs), NEW map, CacheOk(map), NEW over, NEW root,
         CountsOk(objs, map, over, root),
         NEW new, \A inode : OpensOf(new, inode) \subseteq OpensOf(objs, inode),
         NEW map2, CacheOk(map2),
         \A i \in DOMAIN map : i \in DOMAIN map2 /\ map2[i].references = map[i].references
  PROVE  CountsOk(new, map2, over, root)
<1> SUFFICES ASSUME NEW inode, inode \notin over, Due(new, inode, root) > 0
             PROVE  inode \in DOMAIN map2 /\ map2[inode].references >= Due(new, inode, root)
  BY DEF CountsOk
<1>1. PICK n \in Nat : n = Due(new, inode, root) BY DueLess
<1>2. PICK m \in Nat : m = Due(objs, inode, root) BY OpensFinite
<1>3. n <= m BY <1>1, <1>2, DueLess
<1>4. m > 0 BY <1>1, <1>3
<1>5. inode \in DOMAIN map /\ map[inode].references >= m BY <1>2, <1>4 DEF CountsOk
<1>6. inode \in DOMAIN map2 /\ map2[inode].references = map[inode].references BY <1>5
<1>7. map[inode].references \in Nat BY <1>5 DEF CacheOk, IsCached
<1> QED BY <1>1, <1>3, <1>5, <1>6, <1>7

-----------------------------------------------------------------------------
(* Lookups in a FAT file system *)

Kept(map, map2) ==
  \A i \in DOMAIN map : i \in DOMAIN map2 /\ map2[i].references = map[i].references
IsResult(r) ==
  \E A, B, C, D, E :
    r \in [ok : BOOLEAN, inode : A, ent : B, defined : C, map : D, heads : E]
LookedUp(map, r) ==
  IsResult(r) /\ CacheOk(r.map) /\ Kept(map, r.map) /\ HeadsOk(r.map, r.heads, removed)

(* The entries of a directory *)
LEMMA EntriesOfDirectory ==
  ASSUME NEW ty, NEW sector PROVE EntriesAt(ty, sector) \in Seq(FatEntries)
<1> DEFINE at == {c \in DOMAIN Dirents : TrueSect(ty, c) = sector}
<1>1. at \subseteq DOMAIN Dirents OBVIOUS
<1>2. EntriesAt(ty, sector) = IF at = {} THEN <<>> ELSE Dirents[CHOOSE c \in at : TRUE]
  BY Zenon DEF EntriesAt
<1> HIDE DEF at
<1>3. CASE at = {}
  <2>1. <<>> \in Seq(FatEntries) OBVIOUS
  <2> QED BY <1>2, <1>3, <2>1
<1>4. CASE at # {}
  <2>1. PICK c : c = CHOOSE x \in at : TRUE OBVIOUS
  <2>2. c \in at BY <1>4, <2>1, Zenon
  <2>3. c \in DOMAIN Dirents BY <1>1, <2>2
  <2>4. Dirents[c] \in Seq(FatEntries) BY <2>3, DirentsAssumption, Zenon
  <2> QED BY <1>2, <1>4, <2>1, <2>4
<1> QED BY <1>3, <1>4

(* A lookup that finds nothing changes nothing; one that finds an entry    *)
(* adds it to the cache if its inode is not there.                         *)
Missed(r, r2) == ~r2.ok /\ r2.map = r.map /\ r2.heads = r.heads
Hit(r, r2, ty, i, e) ==
  /\ r.ok /\ r2.ok /\ r2.inode = i /\ r2.ent = e
  /\ i = RelclusToSect(ty, e.cluster) /\ e \in FatEntries
  /\ r2.map = IF i \in DOMAIN r.map THEN r.map ELSE With(r.map, i, [ent |-> e, references |-> 0])
  /\ r2.heads = IF i \in DOMAIN r.map THEN r.heads ELSE HashmapAdd(r.heads, i)

LEMMA LookupAnswer ==
  ASSUME NEW r, IsResult(r), NEW ty, NEW name, NEW r2, r2 = FatLookup(ty, r, name)
  PROVE  IsResult(r2) /\ (Missed(r, r2) \/ \E i, e : Hit(r, r2, ty, i, e))
<1> DEFINE ents == IF r.inode \in DOMAIN r.map /\ r.map[r.inode].ent.dir
                   THEN EntriesAt(ty, r.inode) ELSE <<>>
           is == {i \in DOMAIN ents : name \in ents[i].answers}
           ent == ents[CHOOSE i \in is : \A j \in is : i <= j]
           inode == RelclusToSect(ty, ent.cluster)
           there == inode \in DOMAIN r.map
           found == is # {} => /\ GetDefined(r.map, r.heads, inode)
                               /\ there \/ AddDefined(r.map, r.heads, inode)
           def == r.defined /\ (r.ok => GetDefined(r.map, r.heads, r.inode) /\ found)
           map2 == IF there THEN r.map ELSE With(r.map, inode, [ent |-> ent, references |-> 0])
           heads2 == IF there THEN r.heads ELSE HashmapAdd(r.heads, inode)
<1>1. ~r.ok \/ is = {} => r2 = [r EXCEPT !.ok = FALSE, !.defined = def]
  BY Zenon DEF FatLookup
<1>2. ~(~r.ok \/ is = {}) =>
        r2 = [ok |-> TRUE, inode |-> inode, ent |-> ent, defined |-> def,
              map |-> map2, heads |-> heads2]
  BY Zenon DEF FatLookup
<1>3. ents \in Seq(FatEntries)
  <2>1. <<>> \in Seq(FatEntries) OBVIOUS
  <2> QED BY <2>1, EntriesOfDirectory
<1>4. PICK es, T, e, i : es = ents /\ T = is /\ e = ent /\ i = inode OBVIOUS
<1>5. map2 = IF inode \in DOMAIN r.map THEN r.map
             ELSE With(r.map, inode, [ent |-> ent, references |-> 0])
  BY Zenon
<1>13. heads2 = IF inode \in DOMAIN r.map THEN r.heads ELSE HashmapAdd(r.heads, inode)
  BY Zenon
<1>6. PICK first : first = CHOOSE k \in T : \A j \in T : k <= j OBVIOUS
<1>7. T \subseteq DOMAIN es /\ i = RelclusToSect(ty, e.cluster) BY <1>4
<1>8. e = es[first] BY <1>4, <1>6
<1> HIDE DEF ents, is, ent, inode, there, found, def, map2, heads2
<1>14. PICK d : d = def BY Zenon
<1>15. PICK m, h : m = map2 /\ h = heads2 OBVIOUS
<1>9. m = IF i \in DOMAIN r.map THEN r.map ELSE With(r.map, i, [ent |-> e, references |-> 0])
  BY <1>4, <1>5, <1>15
<1>10. h = IF i \in DOMAIN r.map THEN r.heads ELSE HashmapAdd(r.heads, i) BY <1>4, <1>13, <1>15
<1>11. CASE ~r.ok \/ T = {}
  <2>1. r2 = [r EXCEPT !.ok = FALSE, !.defined = d] BY <1>1, <1>4, <1>11, <1>14
  <2>2. PICK A, B, C, D, E :
          r \in [ok : BOOLEAN, inode : A, ent : B, defined : C, map : D, heads : E]
    BY DEF IsResult
  <2>3. PICK F : F = C \cup {d} OBVIOUS
  <2>4. /\ r2 \in [ok : BOOLEAN, inode : A, ent : B, defined : F, map : D, heads : E]
        /\ r2.map = r.map /\ r2.heads = r.heads /\ r2.ok = FALSE
    BY <2>1, <2>2, <2>3
  <2> QED BY <2>4 DEF IsResult, Missed
<1>12. CASE r.ok /\ T # {}
  <2>1. r2 = [ok |-> TRUE, inode |-> i, ent |-> e, defined |-> d, map |-> m, heads |-> h]
    BY <1>2, <1>4, <1>12, <1>14, <1>15
  <2>2. PICK A, B, C, D, E : A = {i} /\ B = {e} /\ C = {d} /\ D = {m} /\ E = {h} OBVIOUS
  <2>7. r2 \in [ok : BOOLEAN, inode : A, ent : B, defined : C, map : D, heads : E]
    BY <2>1, <2>2
  <2>3. r2.ok = TRUE /\ r2.inode = i /\ r2.ent = e /\ r2.map = m /\ r2.heads = h BY <2>1
  <2>4. e \in FatEntries
    <3>1. DOMAIN es \subseteq Nat BY <1>3, <1>4
    <3>2. T \subseteq Nat /\ T # {} BY <1>7, <1>12, <3>1
    <3>3. first \in T BY <1>6, <3>2, FirstOf
    <3>4. first \in DOMAIN es BY <1>7, <3>3
    <3> QED BY <1>3, <1>4, <1>8, <3>4
  <2>5. Hit(r, r2, ty, i, e) BY <1>7, <1>9, <1>10, <1>12, <2>3, <2>4, Zenon DEF Hit
  <2>6. IsResult(r2) BY <2>7 DEF IsResult
  <2> QED BY <2>5, <2>6
<1> QED BY <1>11, <1>12

(* The cache with a node more *)
Appended(map, heads, gone, i, x, map2, heads2) ==
  /\ CacheOk(map2) /\ Kept(map, map2) /\ HeadsOk(map2, heads2, gone)
  /\ DOMAIN map2 = DOMAIN map \cup {i} /\ map2[i] = x
  /\ \A y \in DOMAIN map : map2[y] = map[y]

LEMMA NodeAppended ==
  ASSUME NEW map, CacheOk(map), NEW heads, NEW gone, HeadsOk(map, heads, gone),
         NEW i, i \notin DOMAIN map, NEW x, IsCached(x),
         NEW map2, map2 = With(map, i, x), NEW heads2, heads2 = HashmapAdd(heads, i)
  PROVE  Appended(map, heads, gone, i, x, map2, heads2)
<1>1. map2 = [y \in DOMAIN map \cup {i} |-> IF y = i THEN x ELSE map[y]] BY DEF With
<1>2. /\ DOMAIN map2 = DOMAIN map \cup {i} /\ map2[i] = x
      /\ \A y \in DOMAIN map : map2[y] = map[y]
  BY <1>1
<1>3. map2 = [y \in DOMAIN map2 |-> map2[y]] BY <1>1
<1>4. CacheOk(map2) BY <1>2, <1>3 DEF CacheOk
<1>5. Kept(map, map2) BY <1>2 DEF Kept
<1>6. PICK b : b = Bucket(i) OBVIOUS
<1>7. PICK base : base = IF b \in DOMAIN heads THEN heads[b].base ELSE i OBVIOUS
<1>8. PICK head : head = [base |-> base, last |-> i] OBVIOUS
<1>9. heads2 = With(heads, b, head) BY <1>6, <1>7, <1>8, Zenon DEF HashmapAdd
<1>10. heads2 = [y \in DOMAIN heads \cup {b} |-> IF y = b THEN head ELSE heads[y]]
  BY <1>9 DEF With
<1>11. head.base = base BY <1>8
<1>12. ASSUME NEW y \in DOMAIN heads2
       PROVE  Bucket(heads2[y].base) = y /\ heads2[y].base \in DOMAIN map2 \cup gone
  <2>1. CASE y = b
    <3>1. heads2[y].base = base BY <1>10, <1>11, <2>1
    <3>2. CASE b \in DOMAIN heads BY <1>2, <1>7, <2>1, <3>1, <3>2 DEF HeadsOk
    <3>3. CASE b \notin DOMAIN heads BY <1>2, <1>6, <1>7, <2>1, <3>1, <3>3
    <3> QED BY <3>2, <3>3
  <2>2. CASE y # b
    <3>1. y \in DOMAIN heads /\ heads2[y] = heads[y] BY <1>10, <1>12, <2>2
    <3> QED BY <1>2, <3>1 DEF HeadsOk
  <2> QED BY <2>1, <2>2
<1>13. HeadsOk(map2, heads2, gone) BY <1>12 DEF HeadsOk
<1> QED BY <1>2, <1>4, <1>5, <1>13 DEF Appended

(* fatfs_vfs_lookup changes no count, and what it finds is cached. *)
LEMMA FatLookupOk ==
  ASSUME NEW map, NEW r, LookedUp(map, r), NEW ty, NEW name, NEW r2, r2 = FatLookup(ty, r, name)
  PROVE  LookedUp(map, r2) /\ (r2.ok => r2.inode \in DOMAIN r2.map)
<1>1. IsResult(r) BY DEF LookedUp
<1>2. IsResult(r2) BY <1>1, LookupAnswer
<1>3. CASE Missed(r, r2) BY <1>2, <1>3 DEF LookedUp, Missed
<1>4. ASSUME NEW i, NEW e, Hit(r, r2, ty, i, e)
      PROVE  LookedUp(map, r2) /\ r2.inode \in DOMAIN r2.map
  <2>1. CASE i \in DOMAIN r.map
    <3>1. r2.map = r.map /\ r2.heads = r.heads /\ r2.inode = i BY <1>4, <2>1 DEF Hit
    <3> QED BY <1>2, <2>1, <3>1 DEF LookedUp
  <2>2. CASE i \notin DOMAIN r.map
    <3>1. PICK old, heads, new, heads2 :
            old = r.map /\ heads = r.heads /\ new = r2.map /\ heads2 = r2.heads
      OBVIOUS
    <3>2. PICK x : x = [ent |-> e, references |-> 0] OBVIOUS
    <3>3. x \in [ent : {e}, references : Nat] BY <3>2
    <3>4. IsCached(x) BY <3>3 DEF IsCached
    <3>5. new = With(old, i, x) /\ heads2 = HashmapAdd(heads, i) /\ r2.inode = i
      BY <1>4, <2>2, <3>1, <3>2, Zenon DEF Hit
    <3>6. CacheOk(old) /\ Kept(map, old) /\ HeadsOk(old, heads, removed) BY <3>1 DEF LookedUp
    <3>10. PICK gone : gone = removed OBVIOUS
    <3>11. HeadsOk(old, heads, gone) BY <3>6, <3>10
    <3>9. i \notin DOMAIN old BY <2>2, <3>1
    <3>12. Appended(old, heads, gone, i, x, new, heads2)
      BY <3>4, <3>5, <3>6, <3>9, <3>11, NodeAppended, Zenon
    <3>7. /\ CacheOk(new) /\ Kept(old, new) /\ HeadsOk(new, heads2, gone)
          /\ DOMAIN new = DOMAIN old \cup {i}
      BY <3>12 DEF Appended
    <3>8. Kept(map, new) BY <3>6, <3>7 DEF Kept
    <3> QED BY <1>2, <3>1, <3>5, <3>7, <3>8, <3>10 DEF LookedUp
  <2> QED BY <2>1, <2>2
<1>5. Missed(r, r2) => ~r2.ok BY DEF Missed
<1> QED BY <1>1, <1>3, <1>4, <1>5, LookupAnswer

FatOp(ty, d, r, name) == FatLookup(ty, r, name)
FatLoop == INSTANCE FoldTheorems WITH op <- FatOp

(* And neither does the lookup of a path. *)
LEMMA LookupFromOk ==
  ASSUME NEW map, NEW r, LookedUp(map, r), NEW ty, NEW Elt, NEW names \in Seq(Elt)
  PROVE  LookedUp(map, LookupFrom(ty, r, names))
<1>1. PICK F : FatLoop!Runs(F, ty, Nil, r, names) BY FatLoop!FoldRun
<1>2. FatLoop!Loop(ty, Nil, r, names) = LookupFrom(ty, r, names)
  BY Zenon DEF FatLoop!Loop, FatOp, LookupFrom, FatLoop!FoldLeft, FoldLeft,
               FatLoop!MapThenFoldSet, MapThenFoldSet, FatLoop!Max, Max
<1>3. PICK n \in Nat : n = Len(names) OBVIOUS
<1> DEFINE S == {k \in Nat : k <= n => LookedUp(map, F[k])}
<1>4. 0 \in S
  <2>1. F[0] = r BY <1>1, Zenon DEF FatLoop!Runs
  <2> QED BY <2>1
<1>5. ASSUME NEW k \in Nat, k \in S PROVE k + 1 \in S
  <2>1. SUFFICES ASSUME k + 1 <= n PROVE LookedUp(map, F[k + 1]) OBVIOUS
  <2>2. k \in 0..(Len(names) - 1) BY <1>3, <2>1
  <2>3. LookedUp(map, F[k]) BY <1>5, <2>1
  <2>4. F[k + 1] = FatLookup(ty, F[k], names[k + 1])
    BY <1>1, <2>2, Zenon DEF FatLoop!Runs, FatOp
  <2> QED BY <2>3, <2>4, FatLookupOk
<1>6. Nat \subseteq S
  <2> HIDE DEF S
  <2> QED BY <1>4, <1>5, FatLoop!SetInduction
<1>7. LookedUp(map, F[n]) BY <1>6
<1>8. F[n] = LookupFrom(ty, r, names) BY <1>1, <1>2, <1>3, Zenon DEF FatLoop!Runs
<1> QED BY <1>7, <1>8

-----------------------------------------------------------------------------
(* The steps of FatFs *)

(* The tables new are the tables objs but for one entry, which is x. *)
Put(objs, new, t, fd, x) ==
  /\ new = [u \in Task |-> new[u]] /\ \A u \in Task : new[u] = [f \in Fd |-> new[u][f]]
  /\ new[t][fd] = x
  /\ \A u \in Task, f \in Fd : u # t \/ f # fd => new[u][f] = objs[u][f]

LEMMA PutExcept ==
  ASSUME NEW run, NEW objs, FilesOk(run, objs), NEW t \in Task, NEW fd \in Fd, NEW x,
         NEW new, new = [objs EXCEPT ![t] = [objs[t] EXCEPT ![fd] = x]]
  PROVE  Put(objs, new, t, fd, x)
<1>1. PICK table : table = [objs[t] EXCEPT ![fd] = x] OBVIOUS
<1>2. objs[t] = [f \in Fd |-> objs[t][f]] BY DEF FilesOk
<1>3. /\ table = [f \in Fd |-> table[f]] /\ table[fd] = x
      /\ \A f \in Fd : f # fd => table[f] = objs[t][f]
  BY <1>1, <1>2
<1>4. objs = [u \in Task |-> objs[u]] BY DEF FilesOk
<1>5. new = [objs EXCEPT ![t] = table] BY <1>1
<1>6. new = [u \in Task |-> new[u]] /\ new[t] = table /\ \A u \in Task : u # t => new[u] = objs[u]
  BY <1>4, <1>5
<1>7. ASSUME NEW u \in Task PROVE new[u] = [f \in Fd |-> new[u][f]]
  <2>1. CASE u = t BY <1>3, <1>6, <2>1
  <2>2. CASE u # t BY <1>6, <2>2 DEF FilesOk
  <2> QED BY <2>1, <2>2
<1>8. ASSUME NEW u \in Task, NEW f \in Fd, u # t \/ f # fd PROVE new[u][f] = objs[u][f]
  <2>1. CASE u = t BY <1>3, <1>6, <1>8, <2>1
  <2>2. CASE u # t BY <1>6, <2>2
  <2> QED BY <2>1, <2>2
<1>9. new[t][fd] = x BY <1>3, <1>6
<1> QED BY <1>6, <1>7, <1>8, <1>9 DEF Put

(* The tables stay well formed if the entry is. *)
LEMMA PutFilesOk ==
  ASSUME NEW run, NEW objs, FilesOk(run, objs), NEW t \in Task, NEW fd \in Fd, NEW x,
         NEW new, Put(objs, new, t, fd, x), x # Nil => t \in run /\ IsObject(x)
  PROVE  FilesOk(run, new)
<1>1. ASSUME NEW u \in Task, NEW f \in Fd, new[u][f] # Nil
      PROVE  u \in run /\ IsObject(new[u][f])
  <2>1. CASE u = t /\ f = fd BY <1>1, <2>1 DEF Put
  <2>2. CASE u # t \/ f # fd
    <3>1. new[u][f] = objs[u][f] BY <2>2 DEF Put
    <3> QED BY <1>1, <3>1 DEF FilesOk
  <2> QED BY <2>1, <2>2
<1>2. run \subseteq Task /\ IsFiniteSet(run) BY DEF FilesOk
<1>3. new = [u \in Task |-> new[u]] /\ \A u \in Task : new[u] = [f \in Fd |-> new[u][f]]
  BY DEF Put
<1> QED BY <1>1, <1>2, <1>3, Zenon DEF FilesOk

(* What it counts *)
Counts(x, inode) == x # Nil /\ x.counted /\ x.inode = inode

LEMMA PutOpens ==
  ASSUME NEW objs, NEW t \in Task, NEW fd \in Fd, NEW x, NEW new, Put(objs, new, t, fd, x),
         NEW inode, NEW e, e = <<t, fd>>
  PROVE  /\ OpensOf(new, inode) \subseteq OpensOf(objs, inode) \cup {e}
         /\ e \in OpensOf(new, inode) => Counts(x, inode)
<1>1. ASSUME NEW a \in OpensOf(new, inode), a # <<t, fd>> PROVE a \in OpensOf(objs, inode)
  <2>1. PICK u \in Task, f \in Fd : a = <<u, f>> BY DEF OpensOf
  <2>2. u # t \/ f # fd BY <1>1, <2>1
  <2>3. new[u][f] = objs[u][f] BY <2>2 DEF Put
  <2>4. new[u][f] # Nil /\ new[u][f].counted /\ new[u][f].inode = inode BY <2>1 DEF OpensOf
  <2> QED BY <2>1, <2>3, <2>4 DEF OpensOf
<1>2. <<t, fd>> \in OpensOf(new, inode) => Counts(x, inode)
  BY DEF OpensOf, Put, Counts
<1> QED BY <1>1, <1>2

(* No more is counted in the tables new. *)
NoMoreIn(run, objs, new) ==
  FilesOk(run, new) /\ \A inode : OpensOf(new, inode) \subseteq OpensOf(objs, inode)

(* The offset of an object is not counted. *)
Moved(objs, new, t, fd, offset) ==
  new = [objs EXCEPT ![t] = [objs[t] EXCEPT ![fd] = [objs[t][fd] EXCEPT !.offset = offset]]]

LEMMA MovedOk ==
  ASSUME NEW run, NEW objs, FilesOk(run, objs), NEW t \in Task, NEW fd \in Fd,
         objs[t][fd] # Nil, NEW offset, NEW new, Moved(objs, new, t, fd, offset)
  PROVE  NoMoreIn(run, objs, new)
<1>1. PICK obj : obj = objs[t][fd] OBVIOUS
<1>2. PICK x : x = [obj EXCEPT !.offset = offset] OBVIOUS
<1>3. new = [objs EXCEPT ![t] = [objs[t] EXCEPT ![fd] = x]] BY <1>1, <1>2 DEF Moved
<1>4. Put(objs, new, t, fd, x) BY <1>3, PutExcept
<1>5. t \in run /\ IsObject(obj) BY <1>1 DEF FilesOk
<1>6. PICK A, B, C : obj \in [inode : A, ent : B, counted : BOOLEAN, offset : C]
  BY <1>5 DEF IsObject
<1>7. PICK D : D = C \cup {offset} OBVIOUS
<1>8. x \in [inode : A, ent : B, counted : BOOLEAN, offset : D]
  BY <1>2, <1>6, <1>7
<1>9. x.inode = obj.inode /\ x.counted = obj.counted BY <1>2, <1>6
<1>10. IsObject(x) BY <1>8 DEF IsObject
<1>11. FilesOk(run, new) BY <1>4, <1>5, <1>10, PutFilesOk
<1>12. ASSUME NEW inode PROVE OpensOf(new, inode) \subseteq OpensOf(objs, inode)
  <2>1. PICK e : e = <<t, fd>> OBVIOUS
  <2>2. /\ OpensOf(new, inode) \subseteq OpensOf(objs, inode) \cup {e}
        /\ e \in OpensOf(new, inode) => Counts(x, inode)
    BY <1>4, <2>1, PutOpens
  <2>3. Counts(x, inode) => e \in OpensOf(objs, inode)
    BY <1>1, <1>9, <2>1 DEF OpensOf, Counts
  <2> QED BY <2>2, <2>3
<1> QED BY <1>11, <1>12 DEF NoMoreIn

(* The cache with one count more or less *)
CountIs(map, map2, inode, n) ==
  /\ CacheOk(map2) /\ DOMAIN map2 = DOMAIN map /\ map2[inode].references = n
  /\ \A i \in DOMAIN map : i # inode => map2[i] = map[i]

LEMMA CountSet ==
  ASSUME NEW map, CacheOk(map), NEW inode, inode \in DOMAIN map, NEW n, n \in Nat,
         NEW x, x = [map[inode] EXCEPT !.references = n],
         NEW map2, map2 = [map EXCEPT ![inode] = x]
  PROVE  CountIs(map, map2, inode, n)
<1>2. PICK B : map[inode] \in [ent : B, references : Nat] BY DEF CacheOk, IsCached
<1>3. x \in [ent : B, references : Nat] /\ x.references = n BY <1>2
<1>4. IsCached(x) BY <1>3 DEF IsCached
<1>5. PICK D : D = DOMAIN map OBVIOUS
<1>6. map = [i \in D |-> map[i]] /\ inode \in D BY <1>5 DEF CacheOk
<1>8. /\ DOMAIN map2 = D /\ map2 = [i \in D |-> map2[i]] /\ map2[inode] = x
      /\ \A i \in D : i # inode => map2[i] = map[i]
  BY <1>6
<1>9. ASSUME NEW i \in D PROVE IsCached(map2[i])
  <2>1. CASE i = inode BY <1>4, <1>8, <2>1
  <2>2. CASE i # inode BY <1>5, <1>8, <2>2 DEF CacheOk
  <2> QED BY <2>1, <2>2
<1>10. CacheOk(map2) BY <1>8, <1>9 DEF CacheOk
<1> QED BY <1>3, <1>5, <1>8, <1>10 DEF CountIs

(* The cache without an entry *)
LEMMA EntryDropped ==
  ASSUME NEW map, CacheOk(map), NEW inode, NEW map2,
         map2 = [i \in DOMAIN map \ {inode} |-> map[i]]
  PROVE  CacheOk(map2) /\ \A i \in DOMAIN map : i # inode => i \in DOMAIN map2 /\ map2[i] = map[i]
<1>1. PICK D : D = DOMAIN map \ {inode} OBVIOUS
<1>2. map2 = [i \in D |-> map[i]] BY <1>1
<1>3. DOMAIN map2 = D /\ map2 = [i \in D |-> map2[i]] /\ \A i \in D : map2[i] = map[i] BY <1>2
<1>4. CacheOk(map2) BY <1>1, <1>3 DEF CacheOk
<1> QED BY <1>1, <1>3, <1>4

(* fatfs_vfs_close keeps the entry of an inode that is still open. *)
LEMMA DereferencedOk ==
  ASSUME NEW map, CacheOk(map), NEW inode, NEW map2, map2 = Dereferenced(map, inode)
  PROVE  /\ CacheOk(map2)
         /\ \A i \in DOMAIN map : i # inode => i \in DOMAIN map2 /\ map2[i] = map[i]
         /\ inode \in DOMAIN map /\ map[inode].references > 1 =>
              inode \in DOMAIN map2 /\ map2[inode].references = map[inode].references - 1
         /\ DOMAIN map2 \subseteq DOMAIN map
<1>1. CASE inode \in DOMAIN map /\ map[inode].references > 1
  <2>1. map2 = [map EXCEPT ![inode] = [map[inode] EXCEPT !.references = map[inode].references - 1]]
    BY <1>1 DEF Dereferenced
  <2>2. map[inode].references \in Nat BY <1>1 DEF CacheOk, IsCached
  <2>3. PICK n \in Nat : n = map[inode].references - 1 BY <1>1, <2>2
  <2>4. PICK x : x = [map[inode] EXCEPT !.references = n] OBVIOUS
  <2>5. map2 = [map EXCEPT ![inode] = x] BY <2>1, <2>3, <2>4
  <2>6. inode \in DOMAIN map BY <1>1
  <2>7. CountIs(map, map2, inode, n) BY <2>4, <2>5, <2>6, CountSet
  <2> QED BY <2>3, <2>6, <2>7 DEF CountIs
<1>2. CASE ~(inode \in DOMAIN map /\ map[inode].references > 1)
  <2>1. map2 = [i \in DOMAIN map \ {inode} |-> map[i]]
    BY <1>2 DEF Dereferenced, HashmapRemove
  <2> QED BY <1>2, <2>1, EntryDropped
<1> QED BY <1>1, <1>2

(* A close of an object that was counted leaves the others counted; after  *)
(* the close of another its inode may be counted too little.               *)
LEMMA CloseCounts ==
  ASSUME NEW run, NEW objs, FilesOk(run, objs), NEW map, CacheOk(map), NEW over, NEW root,
         CountsOk(objs, map, over, root),
         NEW t \in Task, NEW fd \in Fd, NEW obj, obj = objs[t][fd], obj # Nil,
         NEW new, Put(objs, new, t, fd, Nil),
         NEW map2, map2 = Dereferenced(map, obj.inode),
         NEW over2, over2 = IF obj.counted THEN over ELSE over \cup {obj.inode}
  PROVE  CountsOk(new, map2, over2, root)
<1> SUFFICES ASSUME NEW inode, inode \notin over2, Due(new, inode, root) > 0
             PROVE  inode \in DOMAIN map2 /\ map2[inode].references >= Due(new, inode, root)
  BY DEF CountsOk
<1>1. PICK e : e = <<t, fd>> OBVIOUS
<1>12. /\ OpensOf(new, inode) \subseteq OpensOf(objs, inode) \cup {e}
       /\ ~(e \in OpensOf(new, inode))
  BY <1>1, PutOpens DEF Counts
<1>2. OpensOf(new, inode) \subseteq OpensOf(objs, inode) \ {e} BY <1>12
<1>3. OpensOf(new, inode) \subseteq OpensOf(objs, inode) BY <1>2
<1>4. PICK n \in Nat : n = Due(new, inode, root) BY <1>3, DueLess
<1>5. PICK m \in Nat : m = Due(objs, inode, root) BY OpensFinite
<1>6. n <= m /\ n > 0 BY <1>3, <1>4, <1>5, DueLess
<1>7. inode \notin over
  <2>1. over \subseteq over2 BY Zenon
  <2> QED BY <2>1
<1>8. inode \in DOMAIN map /\ map[inode].references >= m BY <1>5, <1>6, <1>7 DEF CountsOk
<1>9. PICK k \in Nat : k = map[inode].references BY <1>8 DEF CacheOk, IsCached
<1>10. CASE inode = obj.inode
  <2>1. obj.counted BY <1>10, Zenon
  <2>2. e \in OpensOf(objs, inode) BY <1>1, <1>10, <2>1 DEF OpensOf
  <2>3. n + 1 <= m BY <1>2, <1>4, <1>5, <2>2, DueOneLess
  <2>4. k > 1 BY <1>6, <1>8, <1>9, <2>3
  <2>5. inode \in DOMAIN map2 /\ map2[inode].references = k - 1
    BY <1>8, <1>9, <1>10, <2>4, DereferencedOk
  <2> QED BY <1>4, <1>8, <1>9, <2>3, <2>5
<1>11. CASE inode # obj.inode
  <2>1. inode \in DOMAIN map2 /\ map2[inode] = map[inode] BY <1>8, <1>11, DereferencedOk
  <2> QED BY <1>4, <1>6, <1>8, <1>9, <2>1
<1> QED BY <1>10, <1>11

(* An open counts what it opens. *)
LEMMA OpenCounts ==
  ASSUME NEW run, NEW objs, FilesOk(run, objs), NEW map, CacheOk(map), NEW over, NEW root,
         CountsOk(objs, map, over, root),
         NEW t \in Task, NEW fd \in Fd, NEW obj, obj.inode \in DOMAIN map,
         NEW new, Put(objs, new, t, fd, obj),
         NEW map2, map2 = Referenced(map, obj.inode)
  PROVE  CacheOk(map2) /\ CountsOk(new, map2, over, root)
<1>1. PICK x : x = obj.inode OBVIOUS
<1>2. x \in DOMAIN map BY <1>1
<1>3. PICK c \in Nat : c = map[x].references BY <1>2 DEF CacheOk, IsCached
<1>4. PICK d \in Nat : d = c + 1 BY <1>3
<1>5. PICK y : y = [map[x] EXCEPT !.references = d] OBVIOUS
<1>9. map2 = [map EXCEPT ![x] = y] BY <1>1, <1>3, <1>4, <1>5 DEF Referenced
<1>10. CountIs(map, map2, x, d) BY <1>2, <1>5, <1>9, CountSet
<1>6. /\ CacheOk(map2) /\ DOMAIN map2 = DOMAIN map /\ map2[x].references = d
      /\ \A i \in DOMAIN map : i # x => map2[i] = map[i]
  BY <1>10 DEF CountIs
<1>7. ASSUME NEW inode, inode \notin over, Due(new, inode, root) > 0
      PROVE  inode \in DOMAIN map2 /\ map2[inode].references >= Due(new, inode, root)
  <2>1. PICK m \in Nat : m = Due(objs, inode, root) BY OpensFinite
  <2>2. PICK e : e = <<t, fd>> OBVIOUS
  <2>3. CASE inode = x
    <3>1. OpensOf(new, inode) \subseteq OpensOf(objs, inode) \cup {e} BY <2>2, PutOpens
    <3>2. PICK n \in Nat : n = Due(new, inode, root) /\ n <= m + 1 BY <2>1, <3>1, DueOneMore
    <3>3. m <= c
      <4>1. CASE m = 0 BY <4>1, <1>3
      <4>2. CASE m > 0 BY <1>3, <1>7, <2>1, <2>3, <4>2 DEF CountsOk
      <4> QED BY <4>1, <4>2, <2>1
    <3> QED BY <1>2, <1>3, <1>4, <1>6, <2>1, <2>3, <3>2, <3>3
  <2>4. CASE inode # x
    <3>7. /\ OpensOf(new, inode) \subseteq OpensOf(objs, inode) \cup {e}
          /\ ~(e \in OpensOf(new, inode))
      BY <1>1, <2>2, <2>4, PutOpens DEF Counts
    <3>1. OpensOf(new, inode) \subseteq OpensOf(objs, inode) BY <3>7
    <3>2. PICK n \in Nat : n = Due(new, inode, root) /\ n <= m BY <2>1, <3>1, DueLess
    <3>3. m > 0 BY <1>7, <2>1, <3>2
    <3>4. inode \in DOMAIN map /\ map[inode].references >= m BY <1>7, <2>1, <3>3 DEF CountsOk
    <3>5. PICK k \in Nat : k = map[inode].references BY <3>4 DEF CacheOk, IsCached
    <3>6. inode \in DOMAIN map2 /\ map2[inode] = map[inode] BY <1>6, <2>4, <3>4
    <3> QED BY <2>1, <3>2, <3>4, <3>5, <3>6
  <2> QED BY <2>3, <2>4
<1>8. CountsOk(new, map2, over, root) BY <1>7 DEF CountsOk
<1> QED BY <1>6, <1>8

(* A task whose table has no object that was counted *)
Uncounted(u, run2, table) ==
  /\ table = [fd \in Fd |-> table[fd]]
  /\ \A fd \in Fd : table[fd] # Nil => u \in run2 /\ IsObject(table[fd]) /\ ~table[fd].counted

LEMMA ObjectTableSet ==
  ASSUME NEW run, NEW objs, FilesOk(run, objs), NEW u \in Task,
         NEW run2, run2 \subseteq Task, IsFiniteSet(run2), run \ {u} \subseteq run2,
         NEW table, Uncounted(u, run2, table), NEW new, new = [objs EXCEPT ![u] = table]
  PROVE  NoMoreIn(run2, objs, new)
<1>1. objs = [v \in Task |-> objs[v]] BY DEF FilesOk
<1>2. new = [v \in Task |-> new[v]] /\ new[u] = table /\ \A v \in Task : v # u => new[v] = objs[v]
  BY <1>1
<1>3. ASSUME NEW v \in Task PROVE new[v] = [fd \in Fd |-> new[v][fd]]
  <2>1. CASE v = u BY <1>2, <2>1 DEF Uncounted
  <2>2. CASE v # u BY <1>2, <2>2 DEF FilesOk
  <2> QED BY <2>1, <2>2
<1>4. ASSUME NEW v \in Task, NEW fd \in Fd, new[v][fd] # Nil
      PROVE  v \in run2 /\ IsObject(new[v][fd])
  <2>1. CASE v = u BY <1>2, <1>4, <2>1 DEF Uncounted
  <2>2. CASE v # u
    <3>1. new[v][fd] = objs[v][fd] BY <1>2, <2>2
    <3> QED BY <1>4, <2>2, <3>1 DEF FilesOk
  <2> QED BY <2>1, <2>2
<1>5. FilesOk(run2, new) BY <1>2, <1>3, <1>4, Zenon DEF FilesOk
<1>6. ASSUME NEW inode, NEW e \in OpensOf(new, inode) PROVE e \in OpensOf(objs, inode)
  <2>1. PICK v \in Task, fd \in Fd : e = <<v, fd>> BY DEF OpensOf
  <2>2. new[v][fd] # Nil /\ new[v][fd].counted /\ new[v][fd].inode = inode BY <2>1 DEF OpensOf
  <2>3. v # u BY <1>2, <2>2 DEF Uncounted
  <2>4. new[v][fd] = objs[v][fd] BY <1>2, <2>3
  <2> QED BY <2>1, <2>2, <2>4 DEF OpensOf
<1>7. \A inode : OpensOf(new, inode) \subseteq OpensOf(objs, inode) BY <1>6
<1> QED BY <1>5, <1>7, Zenon DEF NoMoreIn

(* The objects that a new task gets are not counted. *)
Given(copies) == Inherited([i \in DOMAIN copies |-> [copies[i] EXCEPT !.counted = FALSE]])
NotCounted(table) ==
  /\ table = [fd \in Fd |-> table[fd]]
  /\ \A fd \in Fd : table[fd] # Nil => IsObject(table[fd]) /\ ~table[fd].counted

LEMMA GivenTable ==
  ASSUME NEW run, NEW objs, FilesOk(run, objs), NEW t \in Task, NEW fds,
         NEW copies, copies = Copied(objs[t], fds), NEW table, table = Given(copies)
  PROVE  NotCounted(table)
<1>1. \A i \in DOMAIN copies : copies[i] # Nil /\ \E fd \in Fd : copies[i] = objs[t][fd]
  BY CopiedFacts
<1>2. \A i \in DOMAIN copies : IsObject(copies[i]) BY <1>1 DEF FilesOk
<1>3. PICK D : D = DOMAIN copies OBVIOUS
<1>4. PICK given : given = [i \in D |-> [copies[i] EXCEPT !.counted = FALSE]] OBVIOUS
<1>5. DOMAIN given = D /\ \A i \in D : given[i] = [copies[i] EXCEPT !.counted = FALSE] BY <1>4
<1>6. table = [fd \in Fd |-> IF fd \in D THEN given[fd] ELSE Nil]
  BY <1>3, <1>4, <1>5 DEF Inherited, Given
<1>7. ASSUME NEW fd \in Fd, table[fd] # Nil PROVE IsObject(table[fd]) /\ ~table[fd].counted
  <2>1. fd \in D /\ table[fd] = given[fd] BY <1>6, <1>7
  <2>2. PICK obj : obj = copies[fd] OBVIOUS
  <2>3. PICK x : x = [obj EXCEPT !.counted = FALSE] OBVIOUS
  <2>4. table[fd] = x BY <1>5, <2>1, <2>2, <2>3
  <2>5. PICK A, B, C : obj \in [inode : A, ent : B, counted : BOOLEAN, offset : C]
    BY <1>2, <1>3, <2>1, <2>2 DEF IsObject
  <2>6. x \in [inode : A, ent : B, counted : BOOLEAN, offset : C] /\ x.counted = FALSE
    BY <2>3, <2>5
  <2> QED BY <2>4, <2>6 DEF IsObject
<1>8. table = [fd \in Fd |-> table[fd]] BY <1>6
<1> QED BY <1>7, <1>8 DEF NotCounted

(* The invariant after a step that does not change the type *)
LEMMA FatStep ==
  ASSUME UNCHANGED type, FilesOk(running', files'), CacheOk(inode_map'),
         CountsOk(files', inode_map', overclosed', RootInode),
         HeadsOk(inode_map', buckets', removed')
  PROVE  FatInv'
<1>1. RootInode' = RootInode BY DEF RootInode
<1> QED BY <1>1, Zenon DEF FatInv

LEMMA FatInitOk == FatInit => FatInv
<1> SUFFICES ASSUME FatInit PROVE FatInv OBVIOUS
<1>1. PICK root : root = RootInode OBVIOUS
<1>2. PICK x : x = [ent |-> RootEnt, references |-> 1] OBVIOUS
<1>3. inode_map = [i \in {root} |-> x] BY <1>1, <1>2 DEF FatInit
<1>4. x \in [ent : {RootEnt}, references : Nat] /\ x.references = 1 BY <1>2
<1>5. IsCached(x) BY <1>4 DEF IsCached
<1>6. DOMAIN inode_map = {root} /\ inode_map[root] = x BY <1>3
<1>7. CacheOk(inode_map) BY <1>3, <1>5, <1>6 DEF CacheOk
<1>8. files = [t \in Task |-> EmptyTable] BY DEF FatInit
<1>9. \A t \in Task, fd \in Fd : files[t][fd] = Nil BY <1>8 DEF EmptyTable
<1>10. FilesOk(running, files)
  <2>1. running = {First} /\ First \in Task BY VfsAssumption DEF FatInit
  <2>2. IsFiniteSet(running) BY <2>1, FS_Singleton
  <2>3. \A t \in Task : files[t] = [fd \in Fd |-> files[t][fd]] BY <1>8 DEF EmptyTable
  <2> QED BY <1>8, <1>9, <2>1, <2>2, <2>3 DEF FilesOk
<1>11. CountsOk(files, inode_map, overclosed, RootInode)
  <2> SUFFICES ASSUME NEW inode, Due(files, inode, root) > 0
               PROVE  /\ inode \in DOMAIN inode_map
                      /\ inode_map[inode].references >= Due(files, inode, root)
    BY <1>1 DEF CountsOk
  <2>1. OpensOf(files, inode) = {} BY <1>9 DEF OpensOf
  <2>2. Due(files, inode, root) = 0 + (IF inode = root THEN 1 ELSE 0) BY <2>1, FS_EmptySet DEF Due
  <2>3. inode = root /\ Due(files, inode, root) = 1 BY <2>2
  <2> QED BY <1>4, <1>6, <2>3
<1>12. HeadsOk(inode_map, buckets, removed)
  <2>1. PICK b, head : b = Bucket(root) /\ head = [base |-> root, last |-> root] OBVIOUS
  <2>2. buckets = [y \in {b} |-> head] BY <1>1, <2>1, Zenon DEF FatInit
  <2>3. head.base = root BY <2>1
  <2> QED BY <1>6, <2>1, <2>2, <2>3 DEF HeadsOk
<1> QED BY <1>7, <1>10, <1>11, <1>12 DEF FatInv

LEMMA FatCloseOk ==
  ASSUME FatInv, NEW t \in Task, NEW fd \in Fd, FatClose(t, fd) PROVE FatInv'
<1>1. PICK obj : obj = files[t][fd] OBVIOUS
<1>2. PICK new : new = files' OBVIOUS
<1>3. new = [files EXCEPT ![t] = [files[t] EXCEPT ![fd] = Nil]] BY <1>2 DEF FatClose
<1>4. Put(files, new, t, fd, Nil) BY <1>3, PutExcept DEF FatInv
<1>5. FilesOk(running, new) BY <1>4, PutFilesOk DEF FatInv
<1>6. PICK map2 : map2 = inode_map' OBVIOUS
<1>7. map2 = Dereferenced(inode_map, obj.inode) BY <1>1, <1>6 DEF FatClose
<1>8. CacheOk(map2) BY <1>7, DereferencedOk DEF FatInv
<1>9. PICK over2 : over2 = overclosed' OBVIOUS
<1>10. over2 = IF obj.counted THEN overclosed ELSE overclosed \cup {obj.inode}
  BY <1>1, <1>9 DEF FatClose
<1>11. obj # Nil BY <1>1 DEF FatClose
<1>12. FilesOk(running, files) /\ CacheOk(inode_map)
       /\ CountsOk(files, inode_map, overclosed, RootInode)
  BY DEF FatInv
<1>13. CountsOk(new, map2, over2, RootInode)
  BY <1>1, <1>4, <1>7, <1>10, <1>11, <1>12, CloseCounts
<1>14. UNCHANGED <<type, running, buckets>> BY DEF FatClose
<1>15. HeadsOk(map2, buckets, removed')
  <2>1. removed' = removed \cup (DOMAIN inode_map \ DOMAIN map2) BY <1>6 DEF FatClose
  <2>2. DOMAIN inode_map \cup removed \subseteq DOMAIN map2 \cup removed' BY <2>1
  <2> QED BY <2>2 DEF FatInv, HeadsOk
<1> QED BY <1>2, <1>5, <1>6, <1>8, <1>9, <1>13, <1>14, <1>15, FatStep

(* A step that moves the offset of an object, or none, and may change      *)
(* tables so that no more is counted                                       *)
LEMMA FatUncounted ==
  ASSUME FatInv, UNCHANGED <<type, cache, overclosed>>, NoMoreIn(running', files, files')
  PROVE  FatInv'
<1>4. UNCHANGED <<inode_map, buckets, removed>> BY DEF cache
<1>1. PICK new, map2 : new = files' /\ map2 = inode_map' OBVIOUS
<1>2. CountsOk(new, map2, overclosed, RootInode)
  <2>1. FilesOk(running, files) /\ CacheOk(inode_map)
        /\ CountsOk(files, inode_map, overclosed, RootInode)
    BY DEF FatInv
  <2>2. \A inode : OpensOf(new, inode) \subseteq OpensOf(files, inode) BY <1>1 DEF NoMoreIn
  <2>3. map2 = inode_map BY <1>1, <1>4
  <2>4. /\ CacheOk(map2)
        /\ \A i \in DOMAIN inode_map : i \in DOMAIN map2 /\ map2[i].references = inode_map[i].references
    BY <2>1, <2>3
  <2> QED BY <2>1, <2>2, <2>4, CountsKept
<1>3. CacheOk(inode_map') /\ HeadsOk(inode_map', buckets', removed') BY <1>4 DEF FatInv
<1> QED BY <1>1, <1>2, <1>3, FatStep DEF NoMoreIn

LEMMA FatReadOk ==
  ASSUME FatInv, NEW t \in Task, NEW fd \in Fd, NEW n, NEW g, FatRead(t, fd, n, g) PROVE FatInv'
<1>1. PICK offset : Moved(files, files', t, fd, offset) BY Zenon DEF FatRead, Moved
<1>2. PICK new : new = files' OBVIOUS
<1>3. files[t][fd] # Nil /\ FilesOk(running, files) BY DEF FatRead, FatInv
<1>4. NoMoreIn(running, files, new) BY <1>1, <1>2, <1>3, MovedOk
<1>5. UNCHANGED <<type, cache, overclosed, running>> BY DEF FatRead
<1> QED BY <1>2, <1>4, <1>5, FatUncounted

LEMMA FatLseekOk ==
  ASSUME FatInv, NEW t \in Task, NEW fd \in Fd, NEW n, NEW whence, FatLseek(t, fd, n, whence)
  PROVE  FatInv'
<1>1. PICK offset : Moved(files, files', t, fd, offset) BY Zenon DEF FatLseek, Moved
<1>2. PICK new : new = files' OBVIOUS
<1>3. files[t][fd] # Nil /\ FilesOk(running, files) BY DEF FatLseek, FatInv
<1>4. NoMoreIn(running, files, new) BY <1>1, <1>2, <1>3, MovedOk
<1>5. UNCHANGED <<type, cache, overclosed, running>> BY DEF FatLseek
<1> QED BY <1>2, <1>4, <1>5, FatUncounted

LEMMA FatExitOk ==
  ASSUME FatInv, NEW t \in Task, FatExit(t) PROVE FatInv'
<1>1. PICK new, run2, table : new = files' /\ run2 = running' /\ table = EmptyTable OBVIOUS
<1>2. new = [files EXCEPT ![t] = table] /\ run2 = running \ {t} BY <1>1 DEF FatExit
<1>3. table = [fd \in Fd |-> table[fd]] /\ \A fd \in Fd : table[fd] = Nil BY <1>1 DEF EmptyTable
<1>4. FilesOk(running, files) BY DEF FatInv
<1>5. run2 \subseteq Task BY <1>2, <1>4 DEF FilesOk
<1>6. run2 \in SUBSET running BY <1>2
<1>7. IsFiniteSet(run2) BY <1>4, <1>6, FS_Subset DEF FilesOk
<1>10. Uncounted(t, run2, table) BY <1>3, Zenon DEF Uncounted
<1>8. NoMoreIn(run2, files, new)
  BY <1>2, <1>4, <1>5, <1>7, <1>10, ObjectTableSet
<1>9. UNCHANGED <<type, cache, overclosed>> BY DEF FatExit
<1> QED BY <1>1, <1>8, <1>9, FatUncounted

(* vfs_spawn moves the offset, and gives a new task objects that are not   *)
(* counted.                                                                *)
Spawned(read, copies, u) ==
  \/ u \in Task \ running /\ running' = running \cup {u}
     /\ files' = [read EXCEPT ![u] = Given(copies)]
  \/ files' = read /\ UNCHANGED running

LEMMA FatSpawnOk ==
  ASSUME FatInv, NEW t \in Task, NEW fd \in Fd, NEW u \in Task, NEW fds, NEW g,
         FatSpawn(t, fd, u, fds, g)
  PROVE  FatInv'
<1> DEFINE bytes == BytesOf(files[t][fd], inode_map[files[t][fd].inode].ent.size, g)
           offset == files[t][fd].offset + Len(bytes)
           read == [files EXCEPT ![t][fd].offset = @ + Len(bytes)]
           copies == Copied(read[t], fds)
<1>1. Spawned(read, copies, u) BY Zenon DEF FatSpawn, Spawned, Given
<1>6. Moved(files, read, t, fd, offset) BY Zenon DEF Moved
<1>7. copies = Copied(read[t], fds) OBVIOUS
<1> HIDE DEF offset, read, copies
<1>2. files[t][fd] # Nil /\ FilesOk(running, files) BY DEF FatSpawn, FatInv
<1>3. NoMoreIn(running, files, read) BY <1>2, <1>6, MovedOk
<1>4. UNCHANGED <<type, cache, overclosed>> BY DEF FatSpawn
<1>5. NoMoreIn(running', files, files')
  <2>1. CASE files' = read /\ UNCHANGED running BY <1>3, <2>1
  <2>2. CASE /\ u \in Task \ running /\ running' = running \cup {u}
             /\ files' = [read EXCEPT ![u] = Given(copies)]
    <3>1. FilesOk(running, read) BY <1>3 DEF NoMoreIn
    <3>2. PICK table : table = Given(copies) OBVIOUS
    <3>3. PICK new, run2 : new = files' /\ run2 = running' OBVIOUS
    <3>4. new = [read EXCEPT ![u] = table] /\ run2 = running \cup {u} BY <2>2, <3>2, <3>3
    <3>5. NotCounted(table) BY <1>7, <3>1, <3>2, GivenTable
    <3>6. Uncounted(u, run2, table) BY <3>4, <3>5 DEF Uncounted, NotCounted
    <3>7. running \subseteq Task /\ IsFiniteSet(running) BY <1>2 DEF FilesOk
    <3>8. run2 \subseteq Task /\ running \ {u} \subseteq run2 BY <3>4, <3>7
    <3>9. IsFiniteSet(run2) BY <3>4, <3>7, FS_AddElement
    <3>10. NoMoreIn(run2, read, new)
      BY <3>1, <3>4, <3>6, <3>8, <3>9, ObjectTableSet
    <3>11. \A inode : OpensOf(new, inode) \subseteq OpensOf(files, inode)
      <4>1. ASSUME NEW inode PROVE OpensOf(new, inode) \subseteq OpensOf(files, inode)
        <5>1. OpensOf(new, inode) \subseteq OpensOf(read, inode) BY <3>10 DEF NoMoreIn
        <5>2. OpensOf(read, inode) \subseteq OpensOf(files, inode) BY <1>3 DEF NoMoreIn
        <5> QED BY <5>1, <5>2
      <4> QED BY <4>1
    <3>12. FilesOk(run2, new) BY <3>10 DEF NoMoreIn
    <3> QED BY <3>3, <3>11, <3>12, Zenon DEF NoMoreIn
  <2> QED BY <1>1, <2>1, <2>2 DEF Spawned
<1> QED BY <1>4, <1>5, FatUncounted

(* A lookup begins with the root and the cache as it is. *)
LEMMA StartKnown ==
  ASSUME FatInv, NEW start, start = Mounted(inode_map, buckets)
  PROVE  LookedUp(inode_map, start) /\ start.map = inode_map /\ start.ent = RootEnt
<1>1. PICK root, ent, map, heads :
        root = RootInode /\ ent = RootEnt /\ map = inode_map /\ heads = buckets
  OBVIOUS
<1>2. start = [ok |-> TRUE, inode |-> root, ent |-> ent, defined |-> TRUE,
               map |-> map, heads |-> heads]
  BY <1>1 DEF Mounted
<1>3. PICK A, B, C, D, E : A = {root} /\ B = {ent} /\ C = {TRUE} /\ D = {map} /\ E = {heads}
  OBVIOUS
<1>4. start \in [ok : BOOLEAN, inode : A, ent : B, defined : C, map : D, heads : E]
  BY <1>2, <1>3
<1>5. start.map = inode_map /\ start.heads = buckets /\ start.ent = RootEnt BY <1>1, <1>2
<1>6. IsResult(start) BY <1>4 DEF IsResult
<1>7. Kept(inode_map, inode_map) BY DEF Kept
<1> QED BY <1>5, <1>6, <1>7 DEF LookedUp, FatInv

(* vfs_open counts the object that it makes, or makes none that counts. *)
LEMMA FatOpenOk ==
  ASSUME FatInv, NEW t \in Task, NEW path \in FatPath, FatOpen(t, path) PROVE FatInv'
<1>1. FilesOk(running, files) /\ CacheOk(inode_map)
      /\ CountsOk(files, inode_map, overclosed, RootInode)
  BY DEF FatInv
<1>2. PICK start : start = Mounted(inode_map, buckets) OBVIOUS
<1>3. PICK dir : dir = LookupFrom(type, start, path.dirs) OBVIOUS
<1>4. PICK file : file = FatLookup(type, dir, path.file) OBVIOUS
<1>5. PICK obj : obj = IF path.file = "" THEN FatObject(dir, FALSE) ELSE FatObject(file, TRUE)
  OBVIOUS
<1>6. /\ t \in running /\ HasRoom(files[t], 1)
      /\ IF path.file = "" \/ ~file.ok THEN inode_map' = file.map
         ELSE inode_map' = Referenced(file.map, file.inode)
      /\ files' = IF (path.file = "" /\ dir.ok) \/ file.ok
                  THEN [files EXCEPT ![t] = DlistAdd(files[t], obj)] ELSE files
      /\ buckets' = file.heads /\ UNCHANGED <<type, removed, running, overclosed>>
  BY <1>2, <1>3, <1>4, <1>5, Zenon DEF FatOpen
<1>7. LookedUp(inode_map, start)
  BY <1>2, StartKnown
<1>8. LookedUp(inode_map, dir)
  <2>1. path.dirs \in Seq(STRING) BY FatAssumption DEF Path
  <2> QED BY <1>3, <1>7, <2>1, LookupFromOk
<1>9. LookedUp(inode_map, file) /\ (file.ok => file.inode \in DOMAIN file.map)
  BY <1>4, <1>8, FatLookupOk
<1>10. PICK fd : fd = FirstEmpty(files[t]) OBVIOUS
<1>11. fd \in Fd BY <1>6, <1>10, RoomFound
<1>12. PICK map : map = file.map OBVIOUS
<1>13. CacheOk(map) /\ Kept(inode_map, map) BY <1>9, <1>12 DEF LookedUp
<1>14. PICK new, map2 : new = files' /\ map2 = inode_map' OBVIOUS
<1>15. ASSUME NEW r, LookedUp(inode_map, r), NEW c \in BOOLEAN, NEW x, x = FatObject(r, c)
       PROVE  IsObject(x) /\ x.counted = c /\ x.inode = r.inode
  <2>1. PICK i, e : i = r.inode /\ e = r.ent OBVIOUS
  <2>2. x = [inode |-> i, ent |-> e, counted |-> c, offset |-> 0] BY <1>15, <2>1 DEF FatObject
  <2>3. x \in [inode : {i}, ent : {e}, counted : BOOLEAN, offset : {0}]
        /\ x.counted = c /\ x.inode = i
    BY <2>2
  <2> QED BY <2>1, <2>3 DEF IsObject
<1>19. HeadsOk(map2, buckets', removed')
  <2>1. HeadsOk(map, buckets', removed') BY <1>6, <1>9, <1>12 DEF LookedUp
  <2>2. DOMAIN map2 = DOMAIN map
    <3>1. CASE path.file = "" \/ ~file.ok BY <1>6, <1>12, <1>14, <3>1
    <3>2. CASE ~(path.file = "" \/ ~file.ok)
      <4>1. map2 = Referenced(map, file.inode) BY <1>6, <1>12, <1>14, <3>2
      <4> QED BY <4>1 DEF Referenced
    <3> QED BY <3>1, <3>2
  <2> QED BY <2>1, <2>2 DEF HeadsOk
<1>16. CountsOk(files, map, overclosed, RootInode)
  <2>1. \A inode : OpensOf(files, inode) \subseteq OpensOf(files, inode) OBVIOUS
  <2> QED BY <1>1, <1>13, <2>1, CountsKept DEF Kept
<1>17. CASE ~((path.file = "" /\ dir.ok) \/ file.ok)
  <2>1. new = files /\ map2 = map BY <1>6, <1>12, <1>14, <1>17
  <2> QED BY <1>1, <1>6, <1>13, <1>14, <1>16, <1>19, <2>1, FatStep
<1>18. CASE (path.file = "" /\ dir.ok) \/ file.ok
  <2>1. new = [files EXCEPT ![t] = [files[t] EXCEPT ![fd] = obj]]
    BY <1>6, <1>10, <1>14, <1>18 DEF DlistAdd
  <2>2. Put(files, new, t, fd, obj) BY <1>1, <1>11, <2>1, PutExcept
  <2>3. CASE path.file = ""
    <3>1. obj = FatObject(dir, FALSE) BY <1>5, <2>3
    <3>2. FALSE \in BOOLEAN OBVIOUS
    <3>3. IsObject(obj) /\ obj.counted = FALSE BY <1>8, <1>15, <3>1, <3>2
    <3>4. FilesOk(running, new) BY <1>1, <1>6, <1>11, <2>2, <3>3, PutFilesOk
    <3>5. \A inode : OpensOf(new, inode) \subseteq OpensOf(files, inode)
      <4>1. ASSUME NEW inode PROVE OpensOf(new, inode) \subseteq OpensOf(files, inode)
        <5>1. PICK e : e = <<t, fd>> OBVIOUS
        <5>2. /\ OpensOf(new, inode) \subseteq OpensOf(files, inode) \cup {e}
              /\ ~(e \in OpensOf(new, inode))
          BY <1>11, <2>2, <3>3, <5>1, PutOpens DEF Counts
        <5> QED BY <5>2
      <4> QED BY <4>1
    <3>6. map2 = map BY <1>6, <1>12, <1>14, <2>3
    <3>7. CountsOk(new, map, overclosed, RootInode)
      <4>1. \A i \in DOMAIN map : i \in DOMAIN map /\ map[i].references = map[i].references
        OBVIOUS
      <4> QED BY <1>1, <1>13, <1>16, <3>5, <4>1, CountsKept
    <3> QED BY <1>6, <1>13, <1>14, <1>19, <3>4, <3>6, <3>7, FatStep
  <2>4. CASE path.file # ""
    <3>1. obj = FatObject(file, TRUE) /\ file.ok BY <1>5, <1>18, <2>4
    <3>2. TRUE \in BOOLEAN OBVIOUS
    <3>3. IsObject(obj) /\ obj.inode = file.inode BY <1>9, <1>15, <3>1, <3>2
    <3>4. FilesOk(running, new) BY <1>1, <1>6, <1>11, <2>2, <3>3, PutFilesOk
    <3>5. map2 = Referenced(map, obj.inode) BY <1>6, <1>12, <1>14, <2>4, <3>1, <3>3
    <3>6. obj.inode \in DOMAIN map BY <1>9, <1>12, <3>1, <3>3
    <3>7. CacheOk(map2) /\ CountsOk(new, map2, overclosed, RootInode)
      BY <1>1, <1>11, <1>13, <1>16, <2>2, <3>5, <3>6, OpenCounts
    <3> QED BY <1>6, <1>14, <1>19, <3>4, <3>7, FatStep
  <2> QED BY <2>3, <2>4
<1> QED BY <1>17, <1>18

LEMMA FatNextOk == FatInv /\ [FatNext]_fatVars => FatInv'
<1> SUFFICES ASSUME FatInv, [FatNext]_fatVars PROVE FatInv' OBVIOUS
<1>1. CASE UNCHANGED fatVars
  <2>1. UNCHANGED <<type, inode_map, buckets, removed, files, running, overclosed>>
    BY <1>1 DEF fatVars
  <2> QED BY <2>1 DEF FatInv, RootInode
<1>2. ASSUME NEW t \in Task, NEW path \in FatPath, FatOpen(t, path) PROVE FatInv'
  BY <1>2, FatOpenOk
<1>3. ASSUME NEW t \in Task, NEW fd \in Fd, FatClose(t, fd) PROVE FatInv' BY <1>3, FatCloseOk
<1>4. ASSUME NEW t \in Task, NEW fd \in Fd, NEW n \in FatLength, NEW g \in Garbage,
             FatRead(t, fd, n, g)
      PROVE  FatInv'
  BY <1>4, FatReadOk
<1>5. ASSUME NEW t \in Task, NEW fd \in Fd, NEW offset \in FatOffset,
             NEW whence \in {"SET", "CUR", "END"}, FatLseek(t, fd, offset, whence)
      PROVE  FatInv'
  BY <1>5, FatLseekOk
<1>6. ASSUME NEW t \in Task, NEW fd \in Fd, NEW u \in Task \ {t}, NEW fds \in FdList,
             NEW g \in Garbage, FatSpawn(t, fd, u, fds, g)
      PROVE  FatInv'
  BY <1>6, FatSpawnOk
<1>7. ASSUME NEW t \in Task, FatExit(t) PROVE FatInv' BY <1>7, FatExitOk
<1>8. CASE FatStopped BY <1>1, <1>8 DEF FatStopped
<1> QED BY <1>1, <1>2, <1>3, <1>4, <1>5, <1>6, <1>7, <1>8, Zenon DEF FatNext

(* The inductive invariant: in every state that a FAT file system reaches, *)
(* the cache counts each inode at least as often as objects that open      *)
(* counted are there for it, and once more for the root, unless an object  *)
(* of the inode that was not counted has been closed; and what the base of *)
(* a bucket points to is a node of that bucket, or was one (list.c).       *)
THEOREM FatInvariant == FatSpec => []FatInv
<1>1. FatInit => FatInv BY FatInitOk
<1>2. FatInv /\ [FatNext]_fatVars => FatInv' BY FatNextOk
<1> QED BY <1>1, <1>2, PTL DEF FatSpec

(* The entry of an open file stays in the cache of the file system, with a *)
(* count that no other close can bring to zero, whatever else is opened,   *)
(* closed, spawned or exits (fatfs_vfs_open, fatfs_vfs_close), and a get    *)
(* from the hash map begins at a node that is there as long as no node of  *)
(* the inode's bucket has been removed (hashmap_remove).                   *)
THEOREM OpenFilesAlwaysCached == FatSpec => []OpenFileCached
<1>1. FatInv => OpenFileCached
  <2> SUFFICES ASSUME FatInv PROVE OpenFileCached OBVIOUS
  <2>1. \A inode : inode \notin overclosed /\ Due(files, inode, RootInode) > 0 =>
          /\ inode \in DOMAIN inode_map
          /\ inode_map[inode].references >= Due(files, inode, RootInode)
    BY DEF FatInv, CountsOk
  <2>2. \A inode : (\A other \in removed : Bucket(other) # Bucket(inode))
                     => GetDefined(inode_map, buckets, inode)
    BY DEF FatInv, HeadsOk, GetDefined
  <2> QED BY <2>1, <2>2, Zenon DEF OpenFileCached, Due, OpensOf
<1> QED BY <1>1, FatInvariant, PTL

-----------------------------------------------------------------------------
(* The allocation table of a FAT file system *)

(* Division with remainder, and the quotient is the only one. *)
LEMMA Division ==
  ASSUME NEW n \in Nat \ {0}, NEW x \in Nat
  PROVE  /\ x \div n \in Nat /\ x % n \in 0..(n - 1) /\ x = n * (x \div n) + (x % n)
OBVIOUS

LEMMA OneQuotient ==
  ASSUME NEW n \in Nat \ {0}, NEW q \in Nat, NEW r \in 0..(n - 1), NEW x \in Nat, x = n * q + r
  PROVE  x \div n = q /\ x % n = r
<1>1. PICK a \in Nat, b \in 0..(n - 1) : a = x \div n /\ b = x % n BY Division
<1>2. n * q + r = n * a + b BY <1>1, Division
<1>3. ASSUME NEW i \in Nat, NEW j \in Nat, i < j PROVE n * i + n <= n * j
  <2>1. PICK k \in Nat : j = i + 1 + k BY <1>3
  <2>2. n * j = n * i + n + n * k BY <2>1
  <2> QED BY <2>2
<1>4. PICK na \in Nat, nq \in Nat : na = n * a /\ nq = n * q OBVIOUS
<1>5. ~(a < q)
  <2>1. a < q => na + n <= nq BY <1>3, <1>4
  <2> QED BY <1>1, <1>2, <1>4, <2>1
<1>6. ~(q < a)
  <2>1. q < a => nq + n <= na BY <1>1, <1>3, <1>4
  <2> QED BY <1>1, <1>2, <1>4, <2>1
<1> QED BY <1>1, <1>2, <1>4, <1>5, <1>6

(* Clusters have numbers of at most sixteen bits. *)
LEMMA ClusterNumbers ==
  ASSUME NEW c \in DOMAIN Table
  PROVE  /\ c \in Nat /\ c >= 2 /\ c < 65536 /\ (Table[c] # End => Table[c] \in DOMAIN Table)
         /\ \A ty \in FatType : ~IsLastCluster(ty, c)
BY TableAssumption

(* What is in the table has a number that the type has room for. *)
LEMMA EntryRange ==
  ASSUME NEW ty \in FatType, NEW c
  PROVE  /\ TableEntry(ty, c) \in Nat
         /\ ty = 12 => TableEntry(ty, c) < 4096
         /\ ty = 16 => TableEntry(ty, c) < 65536
<1>1. ty \in {12, 16, 32} BY FatAssumption
<1>2. CASE c \in DOMAIN Table /\ Table[c] # End
  <2>1. PICK d \in DOMAIN Table : d = Table[c] BY <1>2, ClusterNumbers
  <2>2. d \in Nat /\ d >= 2 /\ d < 65536 BY ClusterNumbers
  <2>3. ~IsLastCluster(ty, d) BY ClusterNumbers
  <2>4. TableEntry(ty, c) = d BY <1>2, <2>1 DEF TableEntry
  <2>5. ty = 12 => d < 4087 BY <2>2, <2>3 DEF IsLastCluster
  <2> QED BY <2>2, <2>4, <2>5
<1>3. CASE ~(c \in DOMAIN Table /\ Table[c] # End)
  BY <1>1, <1>3 DEF TableEntry
<1> QED BY <1>2, <1>3

(* A cluster that is followed has its entry within the buffer, which has   *)
(* the part of the table that it is in.                                    *)
LEMMA EntryRead ==
  ASSUME NEW ty \in FatType, NEW c \in DOMAIN Table, Followed(ty, c), NEW g, NEW off \in Nat,
         off = TableOffset(ty, c), NEW value,
         value = TableByte(ty, off) + 256 * TableByte(ty, off + 1)
  PROVE  NextCluster(ty, c, g) =
           IF ty # 12 THEN value ELSE IF c % 2 = 1 THEN value \div 16 ELSE value % 4096
<1>1. PICK b \in Nat \ {0} : b = BytesPerSect BY FatAssumption
<1>2. PICK s \in Nat \ {0} : s = SectPerClus BY FatAssumption
<1>3. PICK n \in Nat \ {0} : n = ClusterSize /\ n = b * s
  <2>1. b * s \in Nat \ {0} OBVIOUS
  <2> QED BY <1>1, <1>2, <2>1 DEF ClusterSize
<1>4. PICK r \in Nat : r = ReservedSects BY FatAssumption
<1>5. PICK q \in Nat, e \in 0..(n - 1) : /\ q = off \div n /\ e = off % n /\ off = n * q + e
  BY Division
<1>6. e + 1 < n
  <2>1. ASSUME e + 1 = n PROVE FALSE
    <3>1. PICK u \in Nat : u = q + 1 OBVIOUS
    <3>2. n * u = n * q + n BY <3>1
    <3>3. PICK x \in Nat : x = off + 1 OBVIOUS
    <3>5. PICK nq \in Nat : nq = n * q OBVIOUS
    <3>6. x = n * u + 0 BY <1>5, <2>1, <3>2, <3>3, <3>5
    <3>7. 0 \in 0..(n - 1) OBVIOUS
    <3>4. x % n = 0 BY <3>6, <3>7, OneQuotient
    <3> QED BY <1>3, <3>3, <3>4 DEF Followed
  <2> QED BY <2>1
<1>7. (r + q) * b + e - r * b = off
  <2>1. s = 1 \/ off < n BY <1>2, <1>3 DEF Followed
  <2>2. CASE s = 1
    <3>1. n = b BY <1>3, <2>2
    <3>2. (r + q) * b = r * b + b * q BY <1>1
    <3>3. PICK x \in Nat, y \in Nat : x = r * b /\ y = b * q BY <1>1
    <3> QED BY <1>5, <3>1, <3>2, <3>3
  <2>3. CASE off < n
    <3>1. off = n * 0 + off /\ off \in 0..(n - 1) BY <2>3
    <3>2. q = 0 /\ e = off BY <1>5, <3>1, OneQuotient
    <3>3. PICK x \in Nat : x = r * b BY <1>1
    <3> QED BY <3>2, <3>3
  <2> QED BY <2>1, <2>2, <2>3
<1>8. PICK x \in Nat, y \in Nat : x = (r + q) * b /\ y = r * b BY <1>1
<1>9. x + e - y = off /\ x + (e + 1) - y = off + 1 BY <1>7, <1>8
<1>10. DeviceByte(ty, x + e) = TableByte(ty, off)
       /\ DeviceByte(ty, x + (e + 1)) = TableByte(ty, off + 1)
  BY <1>1, <1>4, <1>8, <1>9 DEF DeviceByte
<1>11. e < n /\ e + 1 < n BY <1>6
<1> DEFINE buf(k) == IF k < ClusterSize
                    THEN DeviceByte(ty, (ReservedSects + TableOffset(ty, c) \div ClusterSize)
                                          * BytesPerSect + k) ELSE g
           read == buf(TableOffset(ty, c) % ClusterSize)
                     + 256 * buf((TableOffset(ty, c) % ClusterSize) + 1)
<1>12. NextCluster(ty, c, g) =
         IF ty # 12 THEN read ELSE IF c % 2 = 1 THEN read \div 16 ELSE read % 4096
  BY Zenon DEF NextCluster
<1>13. buf(e) = TableByte(ty, off) /\ buf(e + 1) = TableByte(ty, off + 1)
  BY <1>1, <1>3, <1>4, <1>5, <1>8, <1>10, <1>11
<1>14. TableOffset(ty, c) % ClusterSize = e BY <1>3, <1>5
<1>15. read = value BY <1>13, <1>14
<1> HIDE DEF buf, read
<1> QED BY <1>12, <1>15

(* fatfs_get_next_cluster_fat16 and _fat32 read the entry's lower half. *)
LEMMA HalfEntry ==
  ASSUME NEW ty \in FatType, ty # 12, NEW c \in DOMAIN Table, Followed(ty, c), NEW g
  PROVE  NextCluster(ty, c, g) = TableEntry(ty, c) % 65536
<1>1. ty = 16 \/ ty = 32 BY FatAssumption
<1>2. PICK k \in Nat : k = c BY ClusterNumbers
<1>3. PICK e \in Nat : e = TableEntry(ty, c) BY EntryRange
<1>4. PICK w \in {2, 4} : w = ty \div 8 BY <1>1
<1>5. PICK off \in Nat : off = k * w BY <1>4
<1>6. off = TableOffset(ty, c) BY <1>1, <1>2, <1>4, <1>5 DEF TableOffset
<1>7. off \div w = k /\ off % w = 0 /\ (off + 1) \div w = k /\ (off + 1) % w = 1
  <2>1. CASE w = 2 BY <1>5, <2>1
  <2>2. CASE w = 4 BY <1>5, <2>2
  <2> QED BY <2>1, <2>2
<1>8. TableByte(ty, off) = (e \div 1) % 256
  <2>1. TableByte(ty, off) = (TableEntry(ty, off \div w) \div Weight[1 + (off % w)]) % 256
    BY <1>1, <1>4 DEF TableByte
  <2>2. 1 + (off % w) = 1 BY <1>7
  <2> QED BY <1>2, <1>3, <1>7, <2>1, <2>2 DEF Weight
<1>9. TableByte(ty, off + 1) = (e \div 256) % 256
  <2>1. TableByte(ty, off + 1) = (TableEntry(ty, (off + 1) \div w) \div Weight[1 + ((off + 1) % w)]) % 256
    BY <1>1, <1>4 DEF TableByte
  <2>2. 1 + ((off + 1) % w) = 2 BY <1>7
  <2> QED BY <1>2, <1>3, <1>7, <2>1, <2>2 DEF Weight
<1>10. PICK value : value = TableByte(ty, off) + 256 * TableByte(ty, off + 1) OBVIOUS
<1>11. NextCluster(ty, c, g) = value BY <1>6, <1>10, EntryRead
<1>12. value = e % 65536 BY <1>8, <1>9, <1>10
<1> QED BY <1>3, <1>11, <1>12

(* The halves of twelve bits *)
LEMMA Nibbles ==
  ASSUME NEW x \in Nat, x < 4096
  PROVE  /\ x % 256 \in Nat /\ x \div 256 \in Nat /\ x = 256 * (x \div 256) + (x % 256)
         /\ x % 256 < 256 /\ x \div 256 < 16
         /\ x % 16 \in Nat /\ x \div 16 \in Nat /\ x = 16 * (x \div 16) + (x % 16) /\ x % 16 < 16
OBVIOUS

(* fatfs_get_next_cluster_fat12 reads the twelve bits of the entry. *)
LEMMA TwelveBits ==
  ASSUME 12 \in FatType, NEW c \in DOMAIN Table, Followed(12, c), NEW g
  PROVE  NextCluster(12, c, g) = TableEntry(12, c)
<1>1. PICK k \in Nat : k = c BY ClusterNumbers
<1>2. PICK h \in Nat : h = k \div 2 BY <1>1
<1>3. PICK even \in Nat, odd \in Nat :
        /\ even = TableEntry(12, 2 * h) /\ odd = TableEntry(12, 2 * h + 1)
        /\ even < 4096 /\ odd < 4096
  BY EntryRange
<1>4. PICK off \in Nat : off = k + h OBVIOUS
<1>5. off = TableOffset(12, c) BY <1>1, <1>2, <1>4 DEF TableOffset
<1>6. PICK value : value = TableByte(12, off) + 256 * TableByte(12, off + 1) OBVIOUS
<1>7. NextCluster(12, c, g) = IF c % 2 = 1 THEN value \div 16 ELSE value % 4096
  BY <1>5, <1>6, EntryRead
<1>8. CASE c % 2 = 0
  <2>1. k = 2 * h /\ off = 3 * h BY <1>1, <1>2, <1>4, <1>8
  <2>2. off % 3 = 0 /\ off \div 3 = h /\ (off + 1) % 3 = 1 /\ (off + 1) \div 3 = h BY <2>1
  <2>3. TableByte(12, off) = even % 256 BY <1>3, <2>2 DEF TableByte
  <2>4. TableByte(12, off + 1) = even \div 256 + 16 * (odd % 16) BY <1>3, <2>2 DEF TableByte
  <2>5. value % 4096 = even
    <3>1. PICK lo \in Nat, hi \in Nat, m \in Nat :
            lo = even % 256 /\ hi = even \div 256 /\ m = odd % 16
      BY <1>3, Nibbles
    <3>2. even = 256 * hi + lo /\ lo < 256 /\ hi < 16 BY <1>3, <3>1, Nibbles
    <3>3. value = 4096 * m + (256 * hi + lo) BY <1>6, <2>3, <2>4, <3>1
    <3> QED BY <3>2, <3>3
  <2> QED BY <1>1, <1>3, <1>7, <1>8, <2>1, <2>5
<1>9. CASE c % 2 = 1
  <2>1. k = 2 * h + 1 /\ off = 3 * h + 1 BY <1>1, <1>2, <1>4, <1>9
  <2>2. off % 3 = 1 /\ off \div 3 = h /\ (off + 1) % 3 = 2 /\ (off + 1) \div 3 = h BY <2>1
  <2>3. TableByte(12, off) = even \div 256 + 16 * (odd % 16) BY <1>3, <2>2 DEF TableByte
  <2>4. TableByte(12, off + 1) = odd \div 16 BY <1>3, <2>2 DEF TableByte
  <2>5. value \div 16 = odd
    <3>1. PICK m \in Nat, hi \in Nat, u \in Nat :
            m = odd % 16 /\ hi = odd \div 16 /\ u = even \div 256
      BY <1>3, Nibbles
    <3>2. odd = 16 * hi + m /\ u < 16 BY <1>3, <3>1, Nibbles
    <3>3. value = 16 * (16 * hi + m) + u BY <1>6, <2>3, <2>4, <3>1
    <3> QED BY <3>2, <3>3
  <2> QED BY <1>1, <1>3, <1>7, <1>9, <2>1, <2>5
<1> QED BY <1>1, <1>8, <1>9

-----------------------------------------------------------------------------
(* Chains of clusters *)
IsChain(cs) ==
  /\ cs \in Seq(DOMAIN Table) /\ Len(cs) > 0
  /\ \A q \in 1..(Len(cs) - 1) : Table[cs[q]] = cs[q + 1]

LEMMA ChainLonger ==
  ASSUME NEW cs, IsChain(cs), NEW r, r = NextAdded(cs)
  PROVE  IsChain(r) /\ r[1] = cs[1]
<1>1. PICK n \in Nat : n = Len(cs) /\ n > 0 BY DEF IsChain
<1>2. PICK c \in DOMAIN Table : c = cs[n] BY <1>1 DEF IsChain
<1>3. CASE Table[c] = End
  <2>1. r = cs BY <1>1, <1>2, <1>3 DEF NextAdded
  <2> QED BY <2>1
<1>4. CASE Table[c] # End
  <2>1. PICK d \in DOMAIN Table : d = Table[c] BY <1>4, ClusterNumbers
  <2>2. r = Append(cs, d) BY <1>1, <1>2, <1>4, <2>1 DEF NextAdded
  <2>3. PICK D : D = DOMAIN Table OBVIOUS
  <2>4. cs \in Seq(D) /\ d \in D BY <2>3 DEF IsChain
  <2>5. /\ r \in Seq(D) /\ Len(r) = n + 1 /\ r[n + 1] = d
        /\ \A q \in 1..n : r[q] = cs[q]
    BY <1>1, <2>2, <2>4
  <2>6. ASSUME NEW q \in 1..n PROVE Table[r[q]] = r[q + 1]
    <3>1. CASE q = n BY <1>2, <2>1, <2>5, <3>1
    <3>2. CASE q # n
      <4>1. q \in 1..(n - 1) /\ q + 1 \in 1..n BY <3>2
      <4> QED BY <1>1, <2>5, <4>1 DEF IsChain
    <3> QED BY <3>1, <3>2
  <2> QED BY <1>1, <2>3, <2>5, <2>6 DEF IsChain
<1> QED BY <1>3, <1>4

OneTo(n) == [k \in 1..n |-> k]
LEMMA OneToSeq ==
  ASSUME NEW n \in Nat
  PROVE  OneTo(n) \in Seq(Nat) /\ Len(OneTo(n)) = n
BY DEF OneTo

ChainOp(c, d, cs, k) == NextAdded(cs)
ChainLoop == INSTANCE FoldTheorems WITH op <- ChainOp

(* The chain of a file whose first cluster is one of the table *)
LEMMA ChainOk ==
  ASSUME NEW ent, ent.cluster \in DOMAIN Table
  PROVE  IsChain(Chain(ent)) /\ Chain(ent)[1] = ent.cluster
<1>1. PICK first \in DOMAIN Table : first = ent.cluster OBVIOUS
<1>2. PICK n \in Nat : n = Cardinality(DOMAIN Table)
  <2>1. IsFiniteSet(DOMAIN Table) BY TableAssumption
  <2> QED BY <2>1, FS_CardinalityType
<1>3. ChainLoop!Loop(Nil, Nil, <<first>>, OneTo(n)) = Chain(ent)
  BY <1>1, <1>2, Zenon DEF ChainLoop!Loop, ChainOp, Chain, OneTo, ChainLoop!FoldLeft, FoldLeft,
               ChainLoop!MapThenFoldSet, MapThenFoldSet, ChainLoop!Max, Max
<1> DEFINE Inv == {cs \in Seq(DOMAIN Table) : IsChain(cs) /\ cs[1] = first}
<1>4. <<first>> \in Inv
  <2>1. <<first>> \in Seq(DOMAIN Table) /\ Len(<<first>>) = 1 /\ <<first>>[1] = first OBVIOUS
  <2>2. IsChain(<<first>>) BY <2>1 DEF IsChain
  <2> QED BY <2>1, <2>2
<1>5. ASSUME NEW cs \in Inv, NEW m \in 1..Len(OneTo(n))
      PROVE  ChainOp(Nil, Nil, cs, OneTo(n)[m]) \in Inv
  <2>1. PICK r : r = NextAdded(cs) OBVIOUS
  <2>2. IsChain(r) /\ r[1] = cs[1] BY <2>1, ChainLonger
  <2>3. r \in Inv BY <2>2 DEF IsChain
  <2> QED BY <2>1, <2>3 DEF ChainOp
<1>6. ChainLoop!Loop(Nil, Nil, <<first>>, OneTo(n)) \in Inv
  <2> HIDE DEF Inv
  <2> QED BY <1>2, <1>4, <1>5, OneToSeq, ChainLoop!FoldInvariant
<1> QED BY <1>1, <1>3, <1>6

(* The code follows all of them. *)
AllFollowed(ty, cs) == \A q \in 1..Len(cs) : Followed(ty, cs[q])

(* The next cluster of one that is followed is its successor, and only the *)
(* last of a chain is followed by what the code takes for the end.         *)
LEMMA NextOfChain ==
  ASSUME NEW ty \in FatType, NEW cs, IsChain(cs), AllFollowed(ty, cs), NEW q \in 1..Len(cs),
         NEW g, NEW next, next = NextCluster(ty, cs[q], g)
  PROVE  /\ q < Len(cs) => next = cs[q + 1] /\ ~IsLastCluster(ty, next)
         /\ IsLastCluster(ty, next) => q = Len(cs)
<1>1. PICK n \in Nat : n = Len(cs) BY DEF IsChain
<1>2. PICK c \in DOMAIN Table : c = cs[q] BY DEF IsChain
<1>3. Followed(ty, c) BY <1>2 DEF AllFollowed
<1>4. ASSUME q < n PROVE next = cs[q + 1] /\ ~IsLastCluster(ty, next)
  <2>1. q \in 1..(n - 1) /\ q + 1 \in 1..n BY <1>1, <1>4
  <2>2. PICK d \in DOMAIN Table : d = cs[q + 1] BY <1>1, <2>1 DEF IsChain
  <2>3. Table[c] = d BY <1>1, <1>2, <2>1, <2>2 DEF IsChain
  <2>4. d # End BY TableAssumption
  <2>5. TableEntry(ty, c) = d BY <2>3, <2>4 DEF TableEntry
  <2>6. d \in Nat /\ d < 65536 /\ ~IsLastCluster(ty, d) BY ClusterNumbers
  <2>7. CASE ty = 12 BY <1>2, <1>3, <2>2, <2>5, <2>6, <2>7, TwelveBits
  <2>8. CASE ty # 12
    <3>1. next = d % 65536 BY <1>2, <1>3, <2>5, <2>8, HalfEntry
    <3>2. d % 65536 = d BY <2>6
    <3> QED BY <2>2, <2>6, <3>1, <3>2
  <2> QED BY <2>7, <2>8
<1> QED BY <1>1, <1>4

(* Where the cluster is *)
LEMMA SectorFound ==
  ASSUME NEW ty \in FatType, NEW c \in DOMAIN Table, Followed(ty, c)
  PROVE  RelclusToSect(ty, c) = TrueSect(ty, c) /\ TrueSect(ty, c) \in Int
<1>1. PICK k \in Nat : k = c /\ k > 2 BY ClusterNumbers DEF Followed
<1>2. PICK s \in Nat \ {0}, b \in Nat \ {0} : s = SectPerClus /\ b = BytesPerSect
  BY FatAssumption
<1>3. PICK f \in Nat : f = FirstSect
  <2>1. /\ ReservedSects \in Nat /\ Fats \in Nat /\ SectsPerFat \in Nat BY FatAssumption
  <2>2. Fats * SectsPerFat \in Nat BY <2>1
  <2> QED BY <2>1, <2>2 DEF FirstSect
<1>4. PICK w \in Nat : w = RootSects
  <2>1. PICK d \in Nat : d = BpbDirents * 32 BY FatAssumption
  <2> QED BY <1>2, <2>1, Division DEF RootSects
<1>5. PICK x \in Int : x = (k - 2) * s BY <1>1
<1>6. CASE ty = 32
  <2>1. RootClus = 2 BY <1>6 DEF Followed
  <2> QED BY <1>1, <1>2, <1>3, <1>5, <1>6, <2>1 DEF RelclusToSect, TrueSect
<1>7. CASE ty # 32
  BY <1>1, <1>2, <1>3, <1>4, <1>5, <1>7 DEF RelclusToSect, TrueSect
<1> QED BY <1>6, <1>7

-----------------------------------------------------------------------------
(* The loops of fatfs_vfs_read *)
Bytes(cs) == Len(cs) * ClusterSize
Byte(ty, cs, j) ==
  TrueSect(ty, cs[1 + (j \div ClusterSize)]) * BytesPerSect + (j % ClusterSize)

LEMMA SizeOfCluster ==
  /\ ClusterSize \in Nat \ {0} /\ BytesPerSect \in Nat \ {0} /\ SectPerClus \in Nat \ {0}
<1>1. PICK b \in Nat \ {0}, s \in Nat \ {0} : b = BytesPerSect /\ s = SectPerClus BY FatAssumption
<1>2. b * s \in Nat \ {0} OBVIOUS
<1> QED BY <1>1, <1>2 DEF ClusterSize

(* A byte of a chain is in one of its clusters. *)
LEMMA InChain ==
  ASSUME NEW cs, IsChain(cs), NEW j \in Nat, NEW q, q = j \div ClusterSize
  PROVE  /\ Bytes(cs) \in Nat /\ q \in Nat
         /\ j < Bytes(cs) <=> q < Len(cs)
         /\ (j + 1) % ClusterSize = 0 =>
              (j + 1) \div ClusterSize = q + 1 /\ (q + 1 = Len(cs) => j + 1 = Bytes(cs))
         /\ (j + 1) % ClusterSize # 0 => (j + 1) \div ClusterSize = q
<1>1. PICK n \in Nat \ {0} : n = ClusterSize BY SizeOfCluster
<1>2. PICK l \in Nat : l = Len(cs) BY DEF IsChain
<1>3. PICK N \in Nat : N = n * l /\ N = Bytes(cs)
  <2>1. n * l \in Nat /\ n * l = l * n OBVIOUS
  <2> QED BY <1>1, <1>2, <2>1 DEF Bytes
<1>10. PICK p \in Nat : p = q BY <1>1, Division
<1>4. PICK r \in 0..(n - 1) : j = n * p + r BY <1>1, <1>10, Division
<1>5. ASSUME NEW i \in Nat, NEW k \in Nat, i < k PROVE n * i + n <= n * k
  <2>1. PICK d \in Nat : k = i + 1 + d BY <1>5
  <2>2. n * k = n * i + n + n * d BY <2>1
  <2>3. n * d \in Nat OBVIOUS
  <2>4. PICK x \in Nat, y \in Nat : x = n * i /\ y = n * d OBVIOUS
  <2> QED BY <2>2, <2>4
<1>6. PICK x \in Nat : x = n * p BY <1>4
<1>7. j < N <=> p < l
  <2>1. CASE p < l
    <3>1. x + n <= N BY <1>2, <1>3, <1>4, <1>5, <1>6, <2>1
    <3> QED BY <1>4, <1>6, <2>1, <3>1
  <2>2. CASE p = l BY <1>3, <1>4, <1>6, <2>2
  <2>3. CASE l < p
    <3>1. N + n <= x BY <1>2, <1>3, <1>4, <1>5, <1>6, <2>3
    <3> QED BY <1>4, <1>6, <2>3, <3>1
  <2> QED BY <1>2, <1>4, <2>1, <2>2, <2>3
<1>8. CASE r = n - 1
  <2>1. PICK u \in Nat : u = p + 1 BY <1>4
  <2>8. n * u = n * p + n BY <1>4, <2>1
  <2>2. n * u = x + n BY <1>6, <2>8
  <2>3. PICK k \in Nat : k = j + 1 OBVIOUS
  <2>4. k = n * u + 0 BY <1>4, <1>6, <1>8, <2>2, <2>3
  <2>5. 0 \in 0..(n - 1) OBVIOUS
  <2>6. k \div n = u /\ k % n = 0 BY <2>4, <2>5, OneQuotient
  <2>7. u = l => k = N BY <1>3, <2>4
  <2> QED BY <1>1, <1>2, <1>3, <1>4, <1>10, <1>7, <2>1, <2>3, <2>6, <2>7
<1>9. CASE r # n - 1
  <2>1. PICK s \in 0..(n - 1) : s = r + 1 BY <1>9
  <2>2. PICK k \in Nat : k = j + 1 OBVIOUS
  <2>3. k = n * p + s BY <1>4, <1>6, <2>1, <2>2
  <2>4. k \div n = p /\ k % n = s BY <1>4, <2>3, OneQuotient
  <2>5. s # 0 BY <1>4, <2>1
  <2> QED BY <1>1, <1>2, <1>3, <1>4, <1>10, <1>7, <2>2, <2>4, <2>5
<1> QED BY <1>8, <1>9

SkipOp(ty, g, c, k) == NextCluster(ty, c, g)
SkipLoop == INSTANCE FoldTheorems WITH op <- SkipOp

(* The skip over the clusters before the offset *)
Skipped(ty, g, first, n) == FoldLeft(LAMBDA c, k : NextCluster(ty, c, g), first, OneTo(n))

LEMMA SkipRight ==
  ASSUME NEW ty \in FatType, NEW cs, IsChain(cs), AllFollowed(ty, cs), NEW g,
         NEW n \in Nat, n < Len(cs)
  PROVE  Skipped(ty, g, cs[1], n) = cs[1 + n]
<1>1. PICK s : s = OneTo(n) OBVIOUS
<1>2. s \in Seq(Nat) /\ Len(s) = n BY <1>1, OneToSeq
<1>3. PICK F : SkipLoop!Runs(F, ty, g, cs[1], s) BY <1>2, SkipLoop!FoldRun
<1>4. SkipLoop!Loop(ty, g, cs[1], s) = Skipped(ty, g, cs[1], n)
  BY <1>1, Zenon DEF SkipLoop!Loop, SkipOp, Skipped, SkipLoop!FoldLeft, FoldLeft,
               SkipLoop!MapThenFoldSet, MapThenFoldSet, SkipLoop!Max, Max
<1>5. PICK l \in Nat : l = Len(cs) BY DEF IsChain
<1> DEFINE S == {k \in Nat : k <= n => F[k] = cs[1 + k]}
<1>6. 0 \in S
  <2>1. F[0] = cs[1] BY <1>3, Zenon DEF SkipLoop!Runs
  <2> QED BY <2>1
<1>7. ASSUME NEW k \in Nat, k \in S PROVE k + 1 \in S
  <2> SUFFICES ASSUME k + 1 <= n PROVE F[k + 1] = cs[1 + (k + 1)] OBVIOUS
  <2>1. k \in 0..(Len(s) - 1) BY <1>2
  <2>2. F[k + 1] = NextCluster(ty, F[k], g) BY <1>3, <2>1, Zenon DEF SkipLoop!Runs, SkipOp
  <2>3. PICK q \in 1..l : q = k + 1 /\ q < l BY <1>5
  <2>4. F[k] = cs[q] BY <1>7, <2>3
  <2>5. F[k + 1] = cs[q + 1] BY <1>5, <2>2, <2>3, <2>4, NextOfChain
  <2>6. q + 1 = 1 + (k + 1) BY <2>3
  <2> QED BY <2>5, <2>6
<1>8. Nat \subseteq S
  <2> HIDE DEF S
  <2> QED BY <1>6, <1>7, SkipLoop!SetInduction
<1>9. F[n] = cs[1 + n] BY <1>8
<1>10. F[n] = SkipLoop!Loop(ty, g, cs[1], s) BY <1>2, <1>3, Zenon DEF SkipLoop!Runs
<1> QED BY <1>1, <1>4, <1>9, <1>10

(* The variables of the loop, whatever is copied *)
LoopState(s) ==
  \E C, B, U : s \in [cluster : C, base : B, i : Nat, bytes : Seq(U), done : BOOLEAN]

LEMMA StepFields ==
  ASSUME NEW s, LoopState(s), ~s.done, NEW ty, NEW g, NEW r, r = ReadStep(ty, g, s),
         NEW x, x = s.base + (s.i % ClusterSize), NEW next, next = NextCluster(ty, s.cluster, g)
  PROVE  /\ LoopState(r)
         /\ (s.i + 1) % ClusterSize # 0 =>
              /\ r.cluster = s.cluster /\ r.base = s.base /\ r.i = s.i + 1
              /\ r.bytes = Append(s.bytes, x) /\ ~r.done
         /\ (s.i + 1) % ClusterSize = 0 /\ IsLastCluster(ty, next) => r.bytes = s.bytes /\ r.done
         /\ (s.i + 1) % ClusterSize = 0 /\ ~IsLastCluster(ty, next) =>
              /\ r.cluster = next /\ r.base = RelclusToSect(ty, next) * BytesPerSect
              /\ r.i = s.i + 1 /\ r.bytes = Append(s.bytes, x) /\ ~r.done
<1>1. PICK C, B, U : s \in [cluster : C, base : B, i : Nat, bytes : Seq(U), done : BOOLEAN]
  BY DEF LoopState
<1>2. PICK i2 \in Nat : i2 = s.i + 1 BY <1>1
<1>12. PICK more : more = Append(s.bytes, x) OBVIOUS
<1>3. PICK V : V = U \cup {x} OBVIOUS
<1>4. more \in Seq(V)
  <2>1. s.bytes \in Seq(V) /\ x \in V BY <1>1, <1>3
  <2> QED BY <1>12, <2>1
<1>5. PICK out : out = [s EXCEPT !.bytes = more, !.i = i2] OBVIOUS
<1>6. /\ out \in [cluster : C, base : B, i : Nat, bytes : Seq(V), done : BOOLEAN]
      /\ out.cluster = s.cluster /\ out.base = s.base /\ out.i = i2 /\ out.bytes = more
      /\ ~out.done
  BY <1>1, <1>2, <1>4, <1>5
<1>7. PICK base : base = RelclusToSect(ty, next) * BytesPerSect OBVIOUS
<1>8. r = IF (s.i + 1) % ClusterSize # 0 THEN out
          ELSE IF IsLastCluster(ty, next) THEN [s EXCEPT !.done = TRUE]
          ELSE [out EXCEPT !.cluster = next, !.base = base]
  BY <1>2, <1>5, <1>7, <1>12, Zenon DEF ReadStep
<1>9. CASE (s.i + 1) % ClusterSize # 0
  <2>1. r = out BY <1>8, <1>9
  <2>2. LoopState(r) BY <1>6, <2>1 DEF LoopState
  <2> QED BY <1>2, <1>12, <1>6, <1>9, <2>1, <2>2
<1>10. CASE (s.i + 1) % ClusterSize = 0 /\ IsLastCluster(ty, next)
  <2>1. r = [s EXCEPT !.done = TRUE] BY <1>8, <1>10
  <2>2. /\ r \in [cluster : C, base : B, i : Nat, bytes : Seq(U), done : BOOLEAN]
        /\ r.bytes = s.bytes /\ r.done
    BY <1>1, <2>1
  <2>3. LoopState(r) BY <2>2 DEF LoopState
  <2> QED BY <1>10, <2>2, <2>3
<1>11. CASE (s.i + 1) % ClusterSize = 0 /\ ~IsLastCluster(ty, next)
  <2>1. r = [out EXCEPT !.cluster = next, !.base = base] BY <1>8, <1>11
  <2>2. PICK D, E : D = C \cup {next} /\ E = B \cup {base} OBVIOUS
  <2>3. /\ r \in [cluster : D, base : E, i : Nat, bytes : Seq(V), done : BOOLEAN]
        /\ r.cluster = next /\ r.base = base /\ r.i = i2 /\ r.bytes = more /\ ~r.done
    BY <1>6, <2>1, <2>2
  <2>4. LoopState(r) BY <2>3 DEF LoopState
  <2> QED BY <1>2, <1>12, <1>7, <1>11, <2>3, <2>4
<1> QED BY <1>9, <1>10, <1>11

(* After m passes: what is copied is right as far as the chain goes, and   *)
(* the cluster is the one that the next byte is in; or the loop has been   *)
(* left at the end of the chain or beyond it.                              *)
LoopAt(ty, cs, offset, m, s) ==
  /\ LoopState(s)
  /\ \A k \in 1..Len(s.bytes) :
       offset + k - 1 < Bytes(cs) => s.bytes[k] = Byte(ty, cs, offset + k - 1)
  /\ ~s.done =>
       /\ Len(s.bytes) = m /\ s.i = (offset % ClusterSize) + m
       /\ offset + m < Bytes(cs) =>
            /\ s.cluster = cs[1 + ((offset + m) \div ClusterSize)]
            /\ s.base = TrueSect(ty, s.cluster) * BytesPerSect
  /\ s.done => offset + Len(s.bytes) + 1 >= Bytes(cs)

(* One pass *)
LEMMA LoopStepRight ==
  ASSUME NEW ty \in FatType, NEW cs, IsChain(cs), AllFollowed(ty, cs), NEW offset \in Nat,
         NEW m \in Nat, NEW s, LoopAt(ty, cs, offset, m, s), NEW g, NEW r, r = ReadStep(ty, g, s)
  PROVE  LoopAt(ty, cs, offset, m + 1, r)
<1>1. CASE s.done
  <2>1. r = s BY <1>1 DEF ReadStep
  <2> QED BY <1>1, <2>1 DEF LoopAt
<1>2. CASE ~s.done
  <2>1. PICK n \in Nat \ {0}, b \in Nat \ {0} : n = ClusterSize /\ b = BytesPerSect
    BY SizeOfCluster
  <2>2. PICK l \in Nat, N \in Nat : l = Len(cs) /\ N = Bytes(cs)
    BY InChain DEF IsChain
  <2>3. PICK p \in Nat : p = offset + m OBVIOUS
  <2>4. PICK q \in Nat : q = p \div n BY <2>1, Division
  <2>20. q = p \div ClusterSize BY <2>1, <2>4
  <2>21. /\ p < N <=> q < l
         /\ (p + 1) % n = 0 => (p + 1) \div n = q + 1 /\ (q + 1 = l => p + 1 = N)
         /\ (p + 1) % n # 0 => (p + 1) \div n = q
    <3>1. /\ p < Bytes(cs) <=> q < Len(cs)
          /\ (p + 1) % ClusterSize = 0 =>
               (p + 1) \div ClusterSize = q + 1 /\ (q + 1 = Len(cs) => p + 1 = Bytes(cs))
          /\ (p + 1) % ClusterSize # 0 => (p + 1) \div ClusterSize = q
      BY <2>20, InChain
    <3> QED BY <2>1, <2>2, <3>1
  <2>5. s.i % n = p % n /\ (s.i + 1) % n = (p + 1) % n
    <3>1. PICK a \in Nat, c \in 0..(n - 1) : /\ offset = n * a + c /\ c = offset % n
      BY <2>1, Division
    <3>2. PICK i \in Nat : i = c + m /\ i = s.i BY <1>2, <2>1, <3>1 DEF LoopAt
    <3>3. PICK na \in Nat : na = n * a BY <3>1
    <3>4. p = na + i /\ p + 1 = na + (i + 1) BY <2>3, <3>1, <3>2, <3>3
    <3>5. ASSUME NEW x \in Nat, NEW y \in Nat, y = na + x PROVE y % n = x % n
      <4>1. PICK d \in Nat, e \in 0..(n - 1) : x = n * d + e /\ e = x % n BY <2>1, Division
      <4>2. PICK u \in Nat : u = a + d BY <3>1, <4>1
      <4>3. n * u = n * a + n * d BY <3>1, <4>1, <4>2
      <4>4. PICK nd \in Nat : nd = n * d BY <4>1
      <4>5. PICK nu \in Nat : nu = n * u OBVIOUS
      <4>6. nu = na + nd BY <3>3, <4>3, <4>4, <4>5
      <4>7. y = nu + e BY <3>5, <4>1, <4>4, <4>6
      <4>8. y = n * u + e BY <4>5, <4>7
      <4>9. y % n = e BY <4>8, OneQuotient
      <4> QED BY <4>1, <4>9
    <3>6. PICK i1 \in Nat, p1 \in Nat : i1 = i + 1 /\ p1 = p + 1 BY <3>2
    <3>7. p % n = i % n BY <3>4, <3>5
    <3>8. p1 % n = i1 % n BY <3>4, <3>5, <3>6
    <3> QED BY <3>2, <3>6, <3>7, <3>8
  <2>6. PICK x : x = s.base + (s.i % ClusterSize) OBVIOUS
  <2>7. PICK next : next = NextCluster(ty, s.cluster, g) OBVIOUS
  <2>8. LoopState(s) BY DEF LoopAt
  <2>9. PICK C, B, U : s \in [cluster : C, base : B, i : Nat, bytes : Seq(U), done : BOOLEAN]
    BY <2>8 DEF LoopState
  <2>10. Len(s.bytes) = m /\ s.i = (offset % ClusterSize) + m BY <1>2 DEF LoopAt
  <2>11. p < N =>
           /\ q + 1 \in 1..l /\ s.cluster = cs[q + 1]
           /\ s.base = TrueSect(ty, s.cluster) * BytesPerSect
           /\ x = Byte(ty, cs, p)
    <3>1. ASSUME p < N PROVE q + 1 \in 1..l
      BY <2>2, <2>21, <3>1
    <3>2. ASSUME p < N
          PROVE  s.cluster = cs[1 + q] /\ s.base = TrueSect(ty, s.cluster) * BytesPerSect
      BY <1>2, <2>1, <2>2, <2>3, <2>4, <3>2 DEF LoopAt
    <3>3. ASSUME p < N PROVE x = Byte(ty, cs, p)
      BY <2>1, <2>4, <2>5, <2>6, <3>2, <3>3 DEF Byte
    <3>4. 1 + q = q + 1 OBVIOUS
    <3> QED BY <3>1, <3>2, <3>3, <3>4
  <2>12. ASSUME NEW t, LoopState(t), t.bytes = Append(s.bytes, x),
                NEW k \in 1..Len(t.bytes), offset + k - 1 < Bytes(cs)
         PROVE  t.bytes[k] = Byte(ty, cs, offset + k - 1)
    <3>1. PICK V : V = U \cup {x} OBVIOUS
    <3>2. s.bytes \in Seq(V) /\ x \in V BY <2>9, <3>1
    <3>3. /\ Len(t.bytes) = m + 1 /\ t.bytes[m + 1] = x
          /\ \A i \in 1..m : t.bytes[i] = s.bytes[i]
      BY <2>10, <2>12, <3>2
    <3>4. CASE k = m + 1
      <4>1. offset + k - 1 = p BY <2>3, <3>4
      <4> QED BY <2>2, <2>11, <2>12, <3>3, <3>4, <4>1
    <3>5. CASE k # m + 1
      <4>1. k \in 1..m BY <3>3, <3>5
      <4> QED BY <2>10, <2>12, <3>3, <4>1 DEF LoopAt
    <3> QED BY <3>4, <3>5
  <2>13. ASSUME NEW t, LoopState(t), t.bytes = Append(s.bytes, x) PROVE Len(t.bytes) = m + 1
    BY <2>9, <2>10, <2>13
  <2>14. PICK p1 \in Nat : p1 = p + 1 /\ p1 = offset + (m + 1) BY <2>3
  <2>15. (s.i + 1) % ClusterSize = p1 % n BY <2>1, <2>5, <2>14
  <2>16. s.i + 1 = (offset % ClusterSize) + (m + 1)
    <3>1. PICK c \in 0..(n - 1) : c = offset % n BY <2>1, Division
    <3> QED BY <2>1, <2>10, <3>1
  <2>17. CASE p1 % n # 0
    <3>1. /\ LoopState(r) /\ r.cluster = s.cluster /\ r.base = s.base /\ r.i = s.i + 1
          /\ r.bytes = Append(s.bytes, x) /\ ~r.done
      BY <1>2, <2>6, <2>7, <2>8, <2>15, <2>17, StepFields
    <3>2. ASSUME p1 < N
          PROVE  /\ r.cluster = cs[1 + (p1 \div n)]
                 /\ r.base = TrueSect(ty, r.cluster) * BytesPerSect
      <4>1. p < N BY <2>14, <3>2
      <4>2. p1 \div n = q BY <2>14, <2>17, <2>21
      <4>3. 1 + q = q + 1 OBVIOUS
      <4> QED BY <2>11, <3>1, <4>1, <4>2, <4>3
    <3> QED BY <2>1, <2>2, <2>12, <2>13, <2>14, <2>16, <3>1, <3>2 DEF LoopAt
  <2>18. CASE p1 % n = 0 /\ IsLastCluster(ty, next)
    <3>1. LoopState(r) /\ r.bytes = s.bytes /\ r.done
      BY <1>2, <2>6, <2>7, <2>8, <2>15, <2>18, StepFields
    <3>2. p1 >= N
      <4>1. SUFFICES ASSUME p < N PROVE p1 = N BY <2>2, <2>14
      <4>2. q + 1 \in 1..Len(cs) /\ next = NextCluster(ty, cs[q + 1], g)
        BY <2>2, <2>7, <2>11, <4>1
      <4>3. q + 1 = l BY <2>2, <2>18, <4>2, NextOfChain
      <4> QED BY <2>14, <2>18, <2>21, <4>3
    <3>3. offset + Len(r.bytes) + 1 >= Bytes(cs) BY <2>2, <2>10, <2>14, <3>1, <3>2
    <3>4. \A k \in 1..Len(r.bytes) :
            offset + k - 1 < Bytes(cs) => r.bytes[k] = Byte(ty, cs, offset + k - 1)
      BY <3>1 DEF LoopAt
    <3> QED BY <3>1, <3>3, <3>4 DEF LoopAt
  <2>19. CASE p1 % n = 0 /\ ~IsLastCluster(ty, next)
    <3>1. /\ LoopState(r) /\ r.cluster = next
          /\ r.base = RelclusToSect(ty, next) * BytesPerSect /\ r.i = s.i + 1
          /\ r.bytes = Append(s.bytes, x) /\ ~r.done
      BY <1>2, <2>6, <2>7, <2>8, <2>15, <2>19, StepFields
    <3>2. ASSUME p1 < N
          PROVE  /\ r.cluster = cs[1 + (p1 \div n)]
                 /\ r.base = TrueSect(ty, r.cluster) * BytesPerSect
      <4>1. p < N BY <2>14, <3>2
      <4>2. p1 \div n = q + 1 BY <2>14, <2>19, <2>21
      <4>11. p1 \div n = p1 \div ClusterSize BY <2>1
      <4>12. p1 < Bytes(cs) <=> p1 \div n < Len(cs) BY <4>11, InChain
      <4>3. q + 1 < l BY <2>2, <3>2, <4>2, <4>12
      <4>4. q + 1 \in 1..Len(cs) /\ next = NextCluster(ty, cs[q + 1], g)
        BY <2>2, <2>7, <2>11, <4>1
      <4>5. PICK q1 \in 1..Len(cs) : q1 = q + 1 BY <4>4
      <4>6. next = cs[q1 + 1] BY <2>2, <4>3, <4>4, <4>5, NextOfChain
      <4>7. q1 + 1 \in 1..Len(cs) BY <2>2, <4>3, <4>5
      <4>8. next \in DOMAIN Table /\ Followed(ty, next) BY <4>6, <4>7 DEF IsChain, AllFollowed
      <4>9. RelclusToSect(ty, next) = TrueSect(ty, next) BY <4>8, SectorFound
      <4>10. 1 + (p1 \div n) = q1 + 1 BY <4>2, <4>5
      <4> QED BY <3>1, <4>6, <4>9, <4>10
    <3> QED BY <2>1, <2>2, <2>12, <2>13, <2>14, <2>16, <3>1, <3>2 DEF LoopAt
  <2> QED BY <2>17, <2>18, <2>19
<1> QED BY <1>1, <1>2

ReadOp(ty, g, s, k) == ReadStep(ty, g, s)
ReadLoop == INSTANCE FoldTheorems WITH op <- ReadOp

(* F[m] is what the loop has after m passes. *)
ReadRuns(F, ty, g, start, n) ==
  /\ F[0] = start /\ \A m \in 0..(n - 1) : F[m + 1] = ReadStep(ty, g, F[m])
  /\ F[n] = FoldLeft(LAMBDA s, k : ReadStep(ty, g, s), start, OneTo(n))

LEMMA ReadRun ==
  ASSUME NEW ty, NEW g, NEW start, NEW n \in Nat
  PROVE  \E F : ReadRuns(F, ty, g, start, n)
<1>1. PICK s : s = OneTo(n) OBVIOUS
<1>2. s \in Seq(Nat) /\ Len(s) = n BY <1>1, OneToSeq
<1>3. PICK F : ReadLoop!Runs(F, ty, g, start, s) BY <1>2, ReadLoop!FoldRun
<1>4. ReadLoop!Loop(ty, g, start, s) = FoldLeft(LAMBDA x, k : ReadStep(ty, g, x), start, s)
  BY Zenon DEF ReadLoop!Loop, ReadOp, ReadLoop!FoldLeft, FoldLeft,
               ReadLoop!MapThenFoldSet, MapThenFoldSet, ReadLoop!Max, Max
<1>5. ReadRuns(F, ty, g, start, n)
  BY <1>1, <1>2, <1>3, <1>4, Zenon DEF ReadLoop!Runs, ReadRuns, ReadOp
<1> QED BY <1>5

(* The parts of fatfs_vfs_read *)
ReadParts(ty, ent, length, offset, g, bytes, skip, start, loops) ==
  /\ skip = Skipped(ty, g, ent.cluster, offset \div ClusterSize)
  /\ start = [cluster |-> skip, base |-> RelclusToSect(ty, skip) * BytesPerSect,
               i |-> offset % ClusterSize, bytes |-> <<>>, done |-> FALSE]
  /\ loops = IF length < ent.size THEN length ELSE ent.size
  /\ bytes = IF offset >= ent.size \/ IsLastCluster(ty, skip) THEN <<>>
             ELSE FoldLeft(LAMBDA s, k : ReadStep(ty, g, s), start, OneTo(loops)).bytes

LEMMA ReadFileParts ==
  ASSUME NEW ty, NEW ent, NEW length, NEW offset, NEW g, NEW bytes,
         bytes = ReadFile(ty, ent, length, offset, g)
  PROVE  \E skip, start, loops : ReadParts(ty, ent, length, offset, g, bytes, skip, start, loops)
<1>1. PICK skip : skip = Skipped(ty, g, ent.cluster, offset \div ClusterSize) OBVIOUS
<1>2. PICK start : start = [cluster |-> skip, base |-> RelclusToSect(ty, skip) * BytesPerSect,
                            i |-> offset % ClusterSize, bytes |-> <<>>, done |-> FALSE]
  OBVIOUS
<1>3. PICK loops : loops = IF length < ent.size THEN length ELSE ent.size OBVIOUS
<1>4. bytes = IF offset >= ent.size \/ IsLastCluster(ty, skip) THEN <<>>
              ELSE FoldLeft(LAMBDA s, k : ReadStep(ty, g, s), start, OneTo(loops)).bytes
  BY <1>1, <1>2, <1>3, Zenon DEF ReadFile, OneTo, Skipped
<1> QED BY <1>1, <1>2, <1>3, <1>4, Zenon DEF ReadParts

(* Where the loop starts *)
LEMMA ReadStart ==
  ASSUME NEW ty, NEW ent, ent.size \in Nat, NEW length \in Nat, NEW offset \in Nat, NEW g,
         NEW bytes, NEW skip, NEW start, NEW loops,
         ReadParts(ty, ent, length, offset, g, bytes, skip, start, loops)
  PROVE  /\ loops \in Nat /\ LoopState(start) /\ start.cluster = skip
         /\ start.base = RelclusToSect(ty, skip) * BytesPerSect
         /\ start.i = offset % ClusterSize /\ start.bytes = <<>> /\ ~start.done
<1>1. loops \in Nat BY DEF ReadParts
<1>2. PICK i \in Nat : i = offset % ClusterSize
  <2>1. PICK n \in Nat \ {0} : n = ClusterSize BY SizeOfCluster
  <2>2. PICK i \in 0..(n - 1) : i = offset % n BY Division
  <2> QED BY <2>1, <2>2
<1>3. PICK base : base = RelclusToSect(ty, skip) * BytesPerSect OBVIOUS
<1>4. start = [cluster |-> skip, base |-> base, i |-> i, bytes |-> <<>>, done |-> FALSE]
  BY <1>2, <1>3, Zenon DEF ReadParts
<1>5. start \in [cluster : {skip}, base : {base}, i : Nat, bytes : Seq({}), done : BOOLEAN]
  BY <1>4
<1>6. LoopState(start) BY <1>5 DEF LoopState
<1> QED BY <1>1, <1>2, <1>3, <1>4, <1>6

(* What is read is a sequence of bytes. *)
LEMMA ReadSequence ==
  ASSUME NEW ty, NEW ent, ent.size \in Nat, NEW length \in Nat, NEW offset \in Nat, NEW g,
         NEW bytes, bytes = ReadFile(ty, ent, length, offset, g)
  PROVE  \E U : bytes \in Seq(U)
<1>1. PICK skip, start, loops : ReadParts(ty, ent, length, offset, g, bytes, skip, start, loops)
  BY ReadFileParts
<1>2. loops \in Nat /\ LoopState(start) BY <1>1, ReadStart
<1>3. PICK F : ReadRuns(F, ty, g, start, loops) BY <1>2, ReadRun
<1> DEFINE S == {m \in Nat : m <= loops => LoopState(F[m])}
<1>4. 0 \in S BY <1>2, <1>3 DEF ReadRuns
<1>5. ASSUME NEW m \in Nat, m \in S PROVE m + 1 \in S
  <2> SUFFICES ASSUME m + 1 <= loops PROVE LoopState(F[m + 1]) OBVIOUS
  <2>1. m \in 0..(loops - 1) BY <1>2
  <2>2. PICK s, r : s = F[m] /\ r = F[m + 1] OBVIOUS
  <2>3. r = ReadStep(ty, g, s) BY <1>3, <2>1, <2>2 DEF ReadRuns
  <2>4. LoopState(s) BY <1>2, <1>5, <2>1, <2>2
  <2>5. CASE s.done BY <2>2, <2>3, <2>4, <2>5 DEF ReadStep
  <2>6. CASE ~s.done BY <2>2, <2>3, <2>4, <2>6, StepFields
  <2> QED BY <2>5, <2>6
<1>6. Nat \subseteq S
  <2> HIDE DEF S
  <2> QED BY <1>4, <1>5, ReadLoop!SetInduction
<1>7. LoopState(F[loops]) BY <1>2, <1>6
<1>8. PICK r : r = F[loops] OBVIOUS
<1>9. PICK C, B, U : r \in [cluster : C, base : B, i : Nat, bytes : Seq(U), done : BOOLEAN]
  BY <1>7, <1>8 DEF LoopState
<1>10. bytes = <<>> \/ bytes = r.bytes BY <1>1, <1>3, <1>8, Zenon DEF ReadParts, ReadRuns
<1>11. <<>> \in Seq(U) OBVIOUS
<1> QED BY <1>9, <1>10, <1>11

(* What a read promises *)
DueOf(size, offset, length) ==
  IF size - offset < 0 THEN 0 ELSE IF size - offset < length THEN size - offset ELSE length
Right(ty, cs, size, offset, length, bytes) ==
  LET due == DueOf(size, offset, length)
  IN  /\ \A k \in 1..Len(bytes) : k <= due => bytes[k] = Byte(ty, cs, offset + k - 1)
      /\ \/ Len(bytes) >= due
         \/ Len(bytes) = due - 1 /\ offset + due = Bytes(cs)

(* A file with a chain that the code follows is read right. *)
LEMMA ReadFileRight ==
  ASSUME NEW ty \in FatType, NEW ent, NEW size \in Nat, size = ent.size,
         NEW cs, IsChain(cs), cs[1] = ent.cluster, AllFollowed(ty, cs), size <= Bytes(cs),
         NEW length \in Nat, NEW offset \in Nat, NEW g, NEW bytes,
         bytes = ReadFile(ty, ent, length, offset, g)
  PROVE  Right(ty, cs, size, offset, length, bytes)
<1>1. PICK skip, start, loops : ReadParts(ty, ent, length, offset, g, bytes, skip, start, loops)
  BY ReadFileParts
<1>2. PICK due \in Nat : due = DueOf(size, offset, length) BY DEF DueOf
<1>3. CASE offset >= size
  <2>1. bytes = <<>> BY <1>1, <1>3 DEF ReadParts
  <2>2. due = 0 BY <1>2, <1>3 DEF DueOf
  <2>3. Len(bytes) = 0 BY <2>1
  <2> QED BY <1>2, <2>2, <2>3 DEF Right
<1>4. CASE offset < size
  <2>1. PICK n \in Nat \ {0} : n = ClusterSize BY SizeOfCluster
  <2>2. PICK q \in Nat : q = offset \div ClusterSize BY <2>1, Division
  <2>3. PICK l \in Nat, N \in Nat : l = Len(cs) /\ N = Bytes(cs) BY InChain DEF IsChain
  <2>4. offset < N BY <1>4, <2>3
  <2>5. q < l BY <2>2, <2>3, <2>4, InChain
  <2>6. skip = cs[1 + q]
    <3>1. skip = Skipped(ty, g, cs[1], q)
      BY <1>1, <2>2, Zenon DEF ReadParts
    <3>2. q < Len(cs) BY <2>3, <2>5
    <3>3. Skipped(ty, g, cs[1], q) = cs[1 + q] BY <3>2, SkipRight
    <3> QED BY <3>1, <3>3
  <2>7. 1 + q \in 1..Len(cs) BY <2>3, <2>5
  <2>8. skip \in DOMAIN Table /\ Followed(ty, skip) BY <2>6, <2>7 DEF IsChain, AllFollowed
  <2>9. ~IsLastCluster(ty, skip) BY <2>8, ClusterNumbers
  <2>10. /\ loops \in Nat /\ LoopState(start) /\ start.cluster = skip
         /\ start.base = RelclusToSect(ty, skip) * BytesPerSect
         /\ start.i = offset % ClusterSize /\ start.bytes = <<>> /\ ~start.done
    BY <1>1, ReadStart
  <2>11. PICK F : ReadRuns(F, ty, g, start, loops) BY <2>10, ReadRun
  <2>12. LoopAt(ty, cs, offset, 0, start)
    <3>1. RelclusToSect(ty, skip) = TrueSect(ty, skip) BY <2>8, SectorFound
    <3>2. PICK i \in 0..(n - 1) : i = offset % ClusterSize BY <2>1, Division
    <3>3. start.i = (offset % ClusterSize) + 0 /\ offset + 0 = offset BY <2>10, <3>2
    <3>4. Len(start.bytes) = 0 BY <2>10
    <3>5. start.base = TrueSect(ty, start.cluster) * BytesPerSect BY <2>10, <3>1
    <3>6. start.cluster = cs[1 + ((offset + 0) \div ClusterSize)] BY <2>2, <2>6, <2>10, <3>3
    <3> QED BY <2>10, <3>3, <3>4, <3>5, <3>6 DEF LoopAt
  <2> DEFINE S == {m \in Nat : m <= loops => LoopAt(ty, cs, offset, m, F[m])}
  <2>13. 0 \in S BY <2>11, <2>12 DEF ReadRuns
  <2>14. ASSUME NEW m \in Nat, m \in S PROVE m + 1 \in S
    <3> SUFFICES ASSUME m + 1 <= loops PROVE LoopAt(ty, cs, offset, m + 1, F[m + 1]) OBVIOUS
    <3>1. m \in 0..(loops - 1) BY <2>10
    <3>2. PICK s, r : s = F[m] /\ r = F[m + 1] OBVIOUS
    <3>3. r = ReadStep(ty, g, s) BY <2>11, <3>1, <3>2 DEF ReadRuns
    <3>4. LoopAt(ty, cs, offset, m, s) BY <2>10, <2>14, <3>1, <3>2
    <3> QED BY <3>2, <3>3, <3>4, LoopStepRight
  <2>15. Nat \subseteq S
    <3> HIDE DEF S
    <3> QED BY <2>13, <2>14, ReadLoop!SetInduction
  <2>16. PICK r : r = F[loops] OBVIOUS
  <2>17. LoopAt(ty, cs, offset, loops, r) BY <2>10, <2>15, <2>16
  <2>18. bytes = r.bytes
    <3>2. ~(offset >= ent.size) BY <1>4
    <3>1. bytes = FoldLeft(LAMBDA s, k : ReadStep(ty, g, s), start, OneTo(loops)).bytes
      BY <1>1, <2>9, <3>2, Zenon DEF ReadParts
    <3> QED BY <2>11, <2>16, <3>1, Zenon DEF ReadRuns
  <2>19. PICK C, B, U : r \in [cluster : C, base : B, i : Nat, bytes : Seq(U), done : BOOLEAN]
    BY <2>17 DEF LoopAt, LoopState
  <2>20. PICK len \in Nat : len = Len(bytes) BY <2>18, <2>19
  <2>21. loops >= due /\ offset + due <= N
    <3>1. loops = IF length < size THEN length ELSE size BY <1>1 DEF ReadParts
    <3> QED BY <1>2, <1>4, <2>3, <3>1 DEF DueOf
  <2>22. ASSUME NEW k \in 1..len, k <= due PROVE bytes[k] = Byte(ty, cs, offset + k - 1)
    <3>1. offset + k - 1 < N BY <2>21, <2>22
    <3> QED BY <2>3, <2>17, <2>18, <2>20, <3>1 DEF LoopAt
  <2>23. len >= due \/ (len = due - 1 /\ offset + due = N)
    <3>1. CASE ~r.done
      <4>1. len = loops BY <2>17, <2>18, <2>20, <3>1 DEF LoopAt
      <4> QED BY <2>21, <4>1, <2>10
    <3>2. CASE r.done
      <4>1. offset + len + 1 >= N BY <2>3, <2>17, <2>18, <2>20, <3>2 DEF LoopAt
      <4> QED BY <2>21, <4>1
    <3> QED BY <3>1, <3>2
  <2> QED BY <1>2, <2>3, <2>20, <2>22, <2>23 DEF Right
<1> QED BY <1>3, <1>4

-----------------------------------------------------------------------------
(* Entries and inodes *)
LEMMA EntryFacts ==
  ASSUME NEW ent \in FatEntries
  PROVE  /\ ent.cluster \in Nat /\ ent.size \in Nat
         /\ ent.size > 0 =>
              /\ ent.cluster \in DOMAIN Table /\ ent.size <= Bytes(Chain(ent))
              /\ \A other \in FatEntries : other.cluster = ent.cluster => other.size = ent.size
BY DirentsAssumption, Zenon DEF Bytes

LEMMA RootEntFacts == RootEnt.size = 0 /\ RootEnt.dir = TRUE
BY DEF RootEnt

(* An entry of the root, or one whose first cluster gives the inode *)
EntOf(ty, inode, ent) ==
  ent = RootEnt \/ (ent \in FatEntries /\ inode = RelclusToSect(ty, ent.cluster))

(* Clusters that are followed have inodes of their own. *)
LEMMA OneInode ==
  ASSUME NEW ty \in FatType, NEW c \in DOMAIN Table, Followed(ty, c), NEW d \in Nat,
         RelclusToSect(ty, d) = RelclusToSect(ty, c)
  PROVE  d = c
<1>1. PICK k \in Nat : k = c /\ k > 2 BY ClusterNumbers DEF Followed
<1>2. PICK s \in Nat \ {0} : s = SectPerClus BY FatAssumption
<1>3. PICK f \in Nat : f = FirstSect
  <2>1. /\ ReservedSects \in Nat /\ Fats \in Nat /\ SectsPerFat \in Nat BY FatAssumption
  <2>2. Fats * SectsPerFat \in Nat BY <2>1
  <2> QED BY <2>1, <2>2 DEF FirstSect
<1>4. PICK w \in Nat : w = RootSects
  <2>1. PICK x \in Nat, b \in Nat \ {0} : x = BpbDirents * 32 /\ b = BytesPerSect
    BY FatAssumption
  <2> QED BY <2>1, Division DEF RootSects
<1>5. ASSUME NEW i \in Int, NEW j \in Int, i < j PROVE i * s < j * s
  <2>1. PICK m \in Nat : j = i + 1 + m BY <1>5
  <2>2. j * s = i * s + s + m * s BY <2>1
  <2>3. PICK x \in Int, y \in Nat : x = i * s /\ y = m * s OBVIOUS
  <2> QED BY <2>2, <2>3
<1>6. ASSUME NEW i \in Int, NEW j \in Int, i * s = j * s PROVE i = j
  <2>1. PICK x \in Int, y \in Int : x = i * s /\ y = j * s OBVIOUS
  <2>2. ~(i < j) /\ ~(j < i) BY <1>5, <1>6, <2>1
  <2> QED BY <2>2
<1>7. CASE ty = 32
  <2>1. RootClus = 2 BY <1>7 DEF Followed
  <2>2. PICK x \in Int, y \in Int : x = (d - 2) * s /\ y = (k - 2) * s OBVIOUS
  <2>3. x + f = y + f BY <1>1, <1>2, <1>3, <1>7, <2>1, <2>2 DEF RelclusToSect
  <2>4. (d - 2) * s = (k - 2) * s BY <2>2, <2>3
  <2>5. PICK i \in Int, j \in Int : i = d - 2 /\ j = k - 2 OBVIOUS
  <2>6. i = j BY <1>6, <2>4, <2>5
  <2> QED BY <1>1, <2>5, <2>6
<1>8. CASE ty # 32
  <2>1. PICK i \in Int, j \in Int : i = d - 2 /\ j = k - 2 OBVIOUS
  <2>2. PICK x \in Int, y \in Int : x = i * s /\ y = j * s OBVIOUS
  <2>3. 0 * s < j * s BY <1>1, <1>5, <2>1
  <2>4. y > 0 BY <2>2, <2>3
  <2>5. RelclusToSect(ty, c) = y + f + w BY <1>1, <1>2, <1>3, <1>4, <1>8, <2>1, <2>2 DEF RelclusToSect
  <2>6. CASE d > 2
    <3>1. RelclusToSect(ty, d) = x + f + w BY <1>2, <1>3, <1>4, <1>8, <2>1, <2>2, <2>6 DEF RelclusToSect
    <3>2. x = y BY <2>5, <3>1
    <3>3. i = j BY <1>6, <2>2, <3>2
    <3> QED BY <1>1, <2>1, <3>3
  <2>7. CASE ~(d > 2)
    <3>1. RelclusToSect(ty, d) = f BY <1>3, <1>8, <2>7 DEF RelclusToSect
    <3> QED BY <2>4, <2>5, <3>1
  <2> QED BY <2>6, <2>7
<1> QED BY <1>7, <1>8

(* What is read through an inode is right for every entry that has it. *)
LEMMA AnswerRight ==
  ASSUME NEW ty \in FatType, NEW inode, NEW ent, EntOf(ty, inode, ent),
         NEW ent2, EntOf(ty, inode, ent2), ~ent2.dir,
         NEW length \in Nat, NEW offset \in Nat, NEW g, NEW bytes,
         bytes = ReadFile(ty, ent2, length, offset, g), NEW cs, cs = Chain(ent),
         \A k \in DOMAIN cs : Followed(ty, cs[k])
  PROVE  Right(ty, cs, ent.size, offset, length, bytes)
<1>1. ent2 \in FatEntries /\ inode = RelclusToSect(ty, ent2.cluster)
  BY RootEntFacts DEF EntOf
<1>2. ent2.size \in Nat /\ ent2.cluster \in Nat BY <1>1, EntryFacts
<1>3. PICK U : bytes \in Seq(U) BY <1>2, ReadSequence
<1>4. PICK size \in Nat : size = ent.size BY EntryFacts, RootEntFacts DEF EntOf
<1>5. CASE size = 0
  <2>1. DueOf(size, offset, length) = 0 BY <1>5 DEF DueOf
  <2>2. Len(bytes) \in Nat BY <1>3
  <2>3. \A k \in 1..Len(bytes) : ~(k <= 0) BY <2>2
  <2>4. Len(bytes) >= 0 BY <2>2
  <2> QED BY <1>4, <2>1, <2>3, <2>4 DEF Right
<1>6. CASE size > 0
  <2>1. ent \in FatEntries /\ inode = RelclusToSect(ty, ent.cluster)
    BY <1>4, <1>6, RootEntFacts DEF EntOf
  <2>2. PICK c \in DOMAIN Table : c = ent.cluster BY <1>4, <1>6, <2>1, EntryFacts
  <2>3. IsChain(cs) /\ cs[1] = c BY <2>2, ChainOk
  <2>4. DOMAIN cs = 1..Len(cs) /\ Len(cs) \in Nat /\ Len(cs) > 0 BY <2>3 DEF IsChain
  <2>5. AllFollowed(ty, cs) BY <2>4 DEF AllFollowed
  <2>6. Followed(ty, c) BY <2>3, <2>4
  <2>7. ent2.cluster = c BY <1>1, <1>2, <2>1, <2>2, <2>6, OneInode
  <2>8. ent2.size = size BY <1>1, <1>4, <1>6, <2>1, <2>2, <2>7, EntryFacts
  <2>9. size <= Bytes(cs) BY <1>4, <1>6, <2>1, EntryFacts
  <2>10. cs[1] = ent2.cluster BY <2>3, <2>7
  <2> QED BY <1>4, <2>3, <2>5, <2>8, <2>9, <2>10, ReadFileRight
<1> QED BY <1>4, <1>5, <1>6

-----------------------------------------------------------------------------
(* The inductive invariant of reads: the entries that the cache and the    *)
(* objects have for an inode are of one file, offsets are natural numbers. *)
CacheKnown(ty, map) == \A i \in DOMAIN map : EntOf(ty, i, map[i].ent)
ObjKnown(ty, x) == EntOf(ty, x.inode, x.ent) /\ x.offset \in Nat
TableKnown(ty, table) == \A fd \in Fd : table[fd] # Nil => ObjKnown(ty, table[fd])
ObjsKnown(ty, objs) == \A t \in Task : TableKnown(ty, objs[t])

FatReadInv ==
  /\ type \in FatType /\ CacheKnown(type, inode_map) /\ ObjsKnown(type, files)
  /\ FatReadCorrect

(* FatReadCorrect is that the last answer was right. *)
LEMMA CorrectIfRight ==
  ASSUME NEW ty, NEW ans, ty = type', ans = answer',
         ans # Nil /\ (\A k \in DOMAIN Chain(ans.ent) : Followed(ty, Chain(ans.ent)[k])) =>
           Right(ty, Chain(ans.ent), ans.ent.size, ans.offset, ans.length, ans.bytes)
  PROVE  FatReadCorrect'
BY Zenon DEF FatReadCorrect, Right, DueOf, Byte, Bytes

LEMMA NoAnswer == answer' = Nil => FatReadCorrect'
BY Zenon DEF FatReadCorrect

(* Lookups find and cache entries with their inodes. *)
FoundKnown(ty, map, r) ==
  LookedUp(map, r) /\ CacheKnown(ty, r.map) /\ (r.ok => EntOf(ty, r.inode, r.ent))

LEMMA FatLookupKnown ==
  ASSUME NEW ty, NEW map, NEW r, FoundKnown(ty, map, r), NEW name, NEW r2, r2 = FatLookup(ty, r, name)
  PROVE  FoundKnown(ty, map, r2)
<1>1. LookedUp(map, r) /\ CacheKnown(ty, r.map) BY DEF FoundKnown
<1>2. LookedUp(map, r2) BY <1>1, FatLookupOk
<1>3. CASE Missed(r, r2) BY <1>1, <1>2, <1>3 DEF Missed, FoundKnown
<1>4. ASSUME NEW i, NEW e, Hit(r, r2, ty, i, e) PROVE FoundKnown(ty, map, r2)
  <2>1. EntOf(ty, i, e) BY <1>4 DEF EntOf, Hit
  <2>2. PICK m : m = r2.map OBVIOUS
  <2>3. m = IF i \in DOMAIN r.map THEN r.map ELSE With(r.map, i, [ent |-> e, references |-> 0])
    BY <1>4, <2>2 DEF Hit
  <2>4. CacheKnown(ty, m)
    <3>1. CASE i \in DOMAIN r.map BY <1>1, <2>3, <3>1
    <3>2. CASE i \notin DOMAIN r.map
      <4>1. PICK old, x : old = r.map /\ x = [ent |-> e, references |-> 0] OBVIOUS
      <4>2. m = [y \in DOMAIN old \cup {i} |-> IF y = i THEN x ELSE old[y]]
        BY <2>3, <3>2, <4>1 DEF With
      <4>3. CacheKnown(ty, old) BY <1>1, <4>1
      <4>4. x.ent = e BY <4>1
      <4>5. ASSUME NEW y \in DOMAIN m PROVE EntOf(ty, y, m[y].ent)
        <5>1. CASE y = i BY <2>1, <4>2, <4>4, <5>1
        <5>2. CASE y # i
          <6>1. y \in DOMAIN old /\ m[y] = old[y] BY <4>2, <4>5, <5>2
          <6> QED BY <4>3, <6>1 DEF CacheKnown
        <5> QED BY <5>1, <5>2
      <4> QED BY <4>5 DEF CacheKnown
    <3> QED BY <3>1, <3>2
  <2> QED BY <1>2, <1>4, <2>1, <2>2, <2>4 DEF FoundKnown, Hit
<1>5. IsResult(r) BY <1>1 DEF LookedUp
<1> QED BY <1>3, <1>4, <1>5, LookupAnswer

LEMMA LookupFromKnown ==
  ASSUME NEW ty, NEW map, NEW r, FoundKnown(ty, map, r), NEW Elt, NEW names \in Seq(Elt)
  PROVE  FoundKnown(ty, map, LookupFrom(ty, r, names))
<1>1. PICK F : FatLoop!Runs(F, ty, Nil, r, names) BY FatLoop!FoldRun
<1>2. FatLoop!Loop(ty, Nil, r, names) = LookupFrom(ty, r, names)
  BY Zenon DEF FatLoop!Loop, FatOp, LookupFrom, FatLoop!FoldLeft, FoldLeft,
               FatLoop!MapThenFoldSet, MapThenFoldSet, FatLoop!Max, Max
<1>3. PICK n \in Nat : n = Len(names) OBVIOUS
<1> DEFINE S == {k \in Nat : k <= n => FoundKnown(ty, map, F[k])}
<1>4. 0 \in S
  <2>1. F[0] = r BY <1>1, Zenon DEF FatLoop!Runs
  <2> QED BY <2>1
<1>5. ASSUME NEW k \in Nat, k \in S PROVE k + 1 \in S
  <2>1. SUFFICES ASSUME k + 1 <= n PROVE FoundKnown(ty, map, F[k + 1]) OBVIOUS
  <2>2. k \in 0..(Len(names) - 1) BY <1>3, <2>1
  <2>3. FoundKnown(ty, map, F[k]) BY <1>5, <2>1
  <2>4. F[k + 1] = FatLookup(ty, F[k], names[k + 1])
    BY <1>1, <2>2, Zenon DEF FatLoop!Runs, FatOp
  <2> QED BY <2>3, <2>4, FatLookupKnown
<1>6. Nat \subseteq S
  <2> HIDE DEF S
  <2> QED BY <1>4, <1>5, FatLoop!SetInduction
<1>7. FoundKnown(ty, map, F[n]) BY <1>6
<1>8. F[n] = LookupFrom(ty, r, names) BY <1>1, <1>2, <1>3, Zenon DEF FatLoop!Runs
<1> QED BY <1>7, <1>8

(* Nothing is found below what was not. *)
LEMMA FileFound ==
  ASSUME NEW ty, NEW map, NEW r, FoundKnown(ty, map, r), NEW name, NEW r2,
         r2 = FatLookup(ty, r, name), r2.ok
  PROVE  r.ok
<1>1. IsResult(r) BY DEF FoundKnown, LookedUp
<1>2. ~Missed(r, r2) BY DEF Missed
<1> QED BY <1>1, <1>2, LookupAnswer DEF Hit

-----------------------------------------------------------------------------
(* The steps, and what they read *)

(* The entries stay known if the one that changes is. *)
LEMMA PutKnown ==
  ASSUME NEW ty, NEW objs, ObjsKnown(ty, objs), NEW t \in Task, NEW fd \in Fd, NEW x,
         x # Nil => ObjKnown(ty, x), NEW new, Put(objs, new, t, fd, x)
  PROVE  ObjsKnown(ty, new)
<1> SUFFICES ASSUME NEW u \in Task, NEW f \in Fd, new[u][f] # Nil PROVE ObjKnown(ty, new[u][f])
  BY DEF ObjsKnown, TableKnown
<1>1. CASE u = t /\ f = fd BY <1>1 DEF Put
<1>2. CASE u # t \/ f # fd
  <2>1. new[u][f] = objs[u][f] BY <1>2 DEF Put
  <2> QED BY <2>1 DEF ObjsKnown, TableKnown
<1> QED BY <1>1, <1>2

LEMMA MovedKnown ==
  ASSUME NEW run, NEW objs, FilesOk(run, objs), NEW ty, ObjsKnown(ty, objs),
         NEW t \in Task, NEW fd \in Fd, objs[t][fd] # Nil,
         NEW offset \in Nat, NEW new, Moved(objs, new, t, fd, offset)
  PROVE  ObjsKnown(ty, new)
<1>1. PICK obj : obj = objs[t][fd] OBVIOUS
<1>2. PICK x : x = [obj EXCEPT !.offset = offset] OBVIOUS
<1>3. new = [objs EXCEPT ![t] = [objs[t] EXCEPT ![fd] = x]] BY <1>1, <1>2 DEF Moved
<1>4. Put(objs, new, t, fd, x) BY <1>3, PutExcept
<1>5. IsObject(obj) BY <1>1 DEF FilesOk
<1>6. PICK A, B, C : obj \in [inode : A, ent : B, counted : BOOLEAN, offset : C]
  BY <1>5 DEF IsObject
<1>7. x.inode = obj.inode /\ x.ent = obj.ent /\ x.offset = offset BY <1>2, <1>6
<1>8. ObjKnown(ty, obj) BY <1>1 DEF ObjsKnown, TableKnown
<1>9. ObjKnown(ty, x) BY <1>7, <1>8 DEF ObjKnown
<1> QED BY <1>4, <1>9, PutKnown

(* The cache keeps its entries when a count changes or one is dropped. *)
LEMMA CountKnown ==
  ASSUME NEW map, CacheOk(map), NEW ty, CacheKnown(ty, map), NEW inode, inode \in DOMAIN map,
         NEW n, n \in Nat, NEW map2,
         map2 = [map EXCEPT ![inode] = [map[inode] EXCEPT !.references = n]]
  PROVE  CacheKnown(ty, map2)
<1>1. PICK x : x = [map[inode] EXCEPT !.references = n] OBVIOUS
<1>2. PICK B : map[inode] \in [ent : B, references : Nat] BY DEF CacheOk, IsCached
<1>3. x.ent = map[inode].ent BY <1>1, <1>2
<1>4. map2 = [map EXCEPT ![inode] = x] BY <1>1
<1>5. map = [i \in DOMAIN map |-> map[i]] BY DEF CacheOk
<1>6. /\ DOMAIN map2 = DOMAIN map /\ map2[inode] = x
      /\ \A i \in DOMAIN map : i # inode => map2[i] = map[i]
  BY <1>4, <1>5
<1>7. ASSUME NEW i \in DOMAIN map2 PROVE map2[i].ent = map[i].ent /\ i \in DOMAIN map
  BY <1>3, <1>6
<1> QED BY <1>7 DEF CacheKnown

LEMMA DereferencedKnown ==
  ASSUME NEW map, CacheOk(map), NEW ty, CacheKnown(ty, map), NEW inode,
         NEW map2, map2 = Dereferenced(map, inode)
  PROVE  CacheKnown(ty, map2)
<1>1. CASE inode \in DOMAIN map /\ map[inode].references > 1
  <2>1. map2 = [map EXCEPT ![inode] = [map[inode] EXCEPT !.references = map[inode].references - 1]]
    BY <1>1 DEF Dereferenced
  <2>2. map[inode].references \in Nat BY <1>1 DEF CacheOk, IsCached
  <2>3. PICK n \in Nat : n = map[inode].references - 1 BY <1>1, <2>2
  <2>4. map2 = [map EXCEPT ![inode] = [map[inode] EXCEPT !.references = n]] BY <2>1, <2>3
  <2> QED BY <1>1, <2>4, CountKnown
<1>2. CASE ~(inode \in DOMAIN map /\ map[inode].references > 1)
  <2>1. map2 = [i \in DOMAIN map \ {inode} |-> map[i]]
    BY <1>2 DEF Dereferenced, HashmapRemove
  <2>2. ASSUME NEW i \in DOMAIN map2 PROVE map2[i] = map[i] /\ i \in DOMAIN map BY <2>1
  <2> QED BY <2>2 DEF CacheKnown
<1> QED BY <1>1, <1>2

LEMMA ReferencedKnown ==
  ASSUME NEW map, CacheOk(map), NEW ty, CacheKnown(ty, map), NEW inode, inode \in DOMAIN map,
         NEW map2, map2 = Referenced(map, inode)
  PROVE  CacheKnown(ty, map2)
<1>1. PICK c \in Nat : c = map[inode].references BY DEF CacheOk, IsCached
<1>2. PICK n \in Nat : n = c + 1 OBVIOUS
<1>3. map2 = [map EXCEPT ![inode] = [map[inode] EXCEPT !.references = n]]
  BY <1>1, <1>2 DEF Referenced
<1> QED BY <1>2, <1>3, CountKnown

(* What a new task is given is known if its parent's is. *)
LEMMA GivenKnown ==
  ASSUME NEW run, NEW objs, FilesOk(run, objs), NEW ty, ObjsKnown(ty, objs), NEW t \in Task, NEW fds,
         NEW copies, copies = Copied(objs[t], fds), NEW table, table = Given(copies)
  PROVE  TableKnown(ty, table)
<1>1. \A i \in DOMAIN copies : copies[i] # Nil /\ \E fd \in Fd : copies[i] = objs[t][fd]
  BY CopiedFacts
<1>2. \A i \in DOMAIN copies : IsObject(copies[i]) /\ ObjKnown(ty, copies[i])
  BY <1>1 DEF FilesOk, ObjsKnown, TableKnown
<1>3. PICK D : D = DOMAIN copies OBVIOUS
<1>4. PICK given : given = [i \in D |-> [copies[i] EXCEPT !.counted = FALSE]] OBVIOUS
<1>5. DOMAIN given = D /\ \A i \in D : given[i] = [copies[i] EXCEPT !.counted = FALSE] BY <1>4
<1>6. table = [fd \in Fd |-> IF fd \in D THEN given[fd] ELSE Nil]
  BY <1>3, <1>4, <1>5 DEF Inherited, Given
<1>7. ASSUME NEW fd \in Fd, table[fd] # Nil PROVE ObjKnown(ty, table[fd])
  <2>1. fd \in D /\ table[fd] = given[fd] BY <1>6, <1>7
  <2>2. PICK obj : obj = copies[fd] OBVIOUS
  <2>3. PICK x : x = [obj EXCEPT !.counted = FALSE] OBVIOUS
  <2>4. table[fd] = x BY <1>5, <2>1, <2>2, <2>3
  <2>5. PICK A, B, C : obj \in [inode : A, ent : B, counted : BOOLEAN, offset : C]
    BY <1>2, <1>3, <2>1, <2>2 DEF IsObject
  <2>6. x.inode = obj.inode /\ x.ent = obj.ent /\ x.offset = obj.offset BY <2>3, <2>5
  <2>7. ObjKnown(ty, obj) BY <1>2, <1>3, <2>1, <2>2
  <2> QED BY <2>4, <2>6, <2>7 DEF ObjKnown
<1> QED BY <1>7 DEF TableKnown

LEMMA TableKnownSet ==
  ASSUME NEW run, NEW objs, FilesOk(run, objs), NEW ty, ObjsKnown(ty, objs), NEW u \in Task,
         NEW table, TableKnown(ty, table), NEW new, new = [objs EXCEPT ![u] = table]
  PROVE  ObjsKnown(ty, new)
<1>1. objs = [v \in Task |-> objs[v]] BY DEF FilesOk
<1>2. new[u] = table /\ \A v \in Task : v # u => new[v] = objs[v] BY <1>1
<1>3. ASSUME NEW v \in Task PROVE TableKnown(ty, new[v])
  <2>1. CASE v = u BY <1>2, <2>1
  <2>2. CASE v # u BY <1>2, <2>2 DEF ObjsKnown
  <2> QED BY <2>1, <2>2
<1> QED BY <1>3 DEF ObjsKnown

(* A step that answers nothing *)
LEMMA SilentStep ==
  ASSUME FatReadInv, UNCHANGED type, answer' = Nil,
         CacheKnown(type, inode_map'), ObjsKnown(type, files')
  PROVE  FatReadInv'
<1>1. FatReadCorrect' BY NoAnswer
<1>2. PICK ty : ty = type OBVIOUS
<1>3. type' = ty BY <1>2
<1> QED BY <1>1, <1>2, <1>3, Zenon DEF FatReadInv

LEMMA FatInitKnown == FatInit => FatReadInv
<1> SUFFICES ASSUME FatInit PROVE FatReadInv OBVIOUS
<1>1. PICK root : root = RootInode OBVIOUS
<1>2. PICK x : x = [ent |-> RootEnt, references |-> 1] OBVIOUS
<1>3. inode_map = [i \in {root} |-> x] BY <1>1, <1>2 DEF FatInit
<1>4. x.ent = RootEnt BY <1>2
<1>5. DOMAIN inode_map = {root} /\ inode_map[root] = x BY <1>3
<1>6. CacheKnown(type, inode_map) BY <1>4, <1>5 DEF CacheKnown, EntOf
<1>7. files = [t \in Task |-> EmptyTable] BY DEF FatInit
<1>8. \A t \in Task, fd \in Fd : files[t][fd] = Nil BY <1>7 DEF EmptyTable
<1>9. ObjsKnown(type, files) BY <1>8 DEF ObjsKnown, TableKnown
<1>10. answer = Nil /\ type \in FatType BY DEF FatInit
<1>11. FatReadCorrect BY <1>10, Zenon DEF FatReadCorrect
<1> QED BY <1>6, <1>9, <1>10, <1>11 DEF FatReadInv

LEMMA FatCloseKnown ==
  ASSUME FatInv, FatReadInv, NEW t \in Task, NEW fd \in Fd, FatClose(t, fd) PROVE FatReadInv'
<1>1. PICK inode : inode = files[t][fd].inode OBVIOUS
<1>2. PICK new : new = files' OBVIOUS
<1>3. new = [files EXCEPT ![t] = [files[t] EXCEPT ![fd] = Nil]] BY <1>2 DEF FatClose
<1>4. Put(files, new, t, fd, Nil) BY <1>3, PutExcept DEF FatInv
<1>5. ObjsKnown(type, new) BY <1>4, PutKnown DEF FatReadInv
<1>6. PICK map2 : map2 = inode_map' OBVIOUS
<1>7. map2 = Dereferenced(inode_map, inode) BY <1>1, <1>6 DEF FatClose
<1>8. CacheKnown(type, map2) BY <1>7, DereferencedKnown DEF FatInv, FatReadInv
<1>9. UNCHANGED type /\ answer' = Nil BY DEF FatClose
<1> QED BY <1>2, <1>5, <1>6, <1>8, <1>9, SilentStep

LEMMA FatLseekKnown ==
  ASSUME FatInv, FatReadInv, NEW t \in Task, NEW fd \in Fd, NEW n \in FatOffset,
         NEW whence \in {"SET", "CUR", "END"}, FatLseek(t, fd, n, whence)
  PROVE  FatReadInv'
<1>1. PICK obj : obj = files[t][fd] OBVIOUS
<1>2. obj # Nil /\ obj.inode \in DOMAIN inode_map BY <1>1 DEF FatLseek
<1>3. PICK offset : /\ offset = SeekTarget([read_offset |-> obj.offset], n, whence,
                                           inode_map[obj.inode].ent.size)
                    /\ Moved(files, files', t, fd, offset)
  BY <1>1, Zenon DEF FatLseek, Moved
<1>4. obj.offset \in Nat BY <1>1, <1>2 DEF FatReadInv, ObjsKnown, TableKnown, ObjKnown
<1>5. EntOf(type, obj.inode, inode_map[obj.inode].ent) BY <1>2 DEF FatReadInv, CacheKnown
<1>6. PICK size \in Nat : size = inode_map[obj.inode].ent.size
  BY <1>5, EntryFacts, RootEntFacts DEF EntOf
<1>7. n \in Int /\ Unsigned \in Nat \ {0} BY FatAssumption, VfsAssumption
<1>8. \A k \in Int : k % Unsigned \in Nat BY <1>7
<1>9. \E k \in Int : offset = k % Unsigned
  <2>1. PICK x : x = [read_offset |-> obj.offset] OBVIOUS
  <2>2. x.read_offset = obj.offset BY <2>1
  <2>3. offset = SeekTarget(x, n, whence, size) BY <1>3, <1>6, <2>1
  <2>4. PICK a \in Int, b \in Int : a = obj.offset + n /\ b = size + n BY <1>4, <1>6, <1>7
  <2>5. CASE whence = "SET" BY <1>7, <2>3, <2>5 DEF SeekTarget
  <2>6. CASE whence = "CUR"
    <3>1. offset = a % Unsigned BY <2>2, <2>3, <2>4, <2>6 DEF SeekTarget
    <3> QED BY <3>1
  <2>7. CASE whence = "END"
    <3>1. offset = b % Unsigned BY <2>3, <2>4, <2>7 DEF SeekTarget
    <3> QED BY <3>1
  <2> QED BY <2>5, <2>6, <2>7
<1>10. offset \in Nat BY <1>8, <1>9
<1>11. PICK new : new = files' OBVIOUS
<1>12. FilesOk(running, files) /\ ObjsKnown(type, files) BY DEF FatInv, FatReadInv
<1>13. ObjsKnown(type, new) BY <1>1, <1>2, <1>3, <1>10, <1>11, <1>12, MovedKnown
<1>14. PICK map2 : map2 = inode_map' OBVIOUS
<1>15. map2 = inode_map /\ UNCHANGED type /\ answer' = Nil BY <1>14 DEF FatLseek, cache
<1>16. CacheKnown(type, map2) BY <1>15 DEF FatReadInv
<1> QED BY <1>11, <1>13, <1>14, <1>15, <1>16, SilentStep

LEMMA FatExitKnown ==
  ASSUME FatInv, FatReadInv, NEW t \in Task, FatExit(t) PROVE FatReadInv'
<1>1. PICK new, table : new = files' /\ table = EmptyTable OBVIOUS
<1>2. new = [files EXCEPT ![t] = table] BY <1>1 DEF FatExit
<1>3. \A fd \in Fd : table[fd] = Nil BY <1>1 DEF EmptyTable
<1>4. TableKnown(type, table) BY <1>3 DEF TableKnown
<1>5. FilesOk(running, files) /\ ObjsKnown(type, files) BY DEF FatInv, FatReadInv
<1>6. ObjsKnown(type, new) BY <1>2, <1>4, <1>5, TableKnownSet
<1>7. PICK map2 : map2 = inode_map' OBVIOUS
<1>8. map2 = inode_map /\ UNCHANGED type /\ answer' = Nil BY <1>7 DEF FatExit, cache
<1>9. CacheKnown(type, map2) BY <1>8 DEF FatReadInv
<1> QED BY <1>1, <1>6, <1>7, <1>8, <1>9, SilentStep

(* The objects and cached entries of the invariant, and what a read of one *)
(* through the other answers                                               *)
LEMMA BytesKnown ==
  ASSUME FatReadInv, NEW t \in Task, NEW fd \in Fd, NEW obj, obj = files[t][fd], obj # Nil,
         obj.inode \in DOMAIN inode_map, NEW length \in Nat, NEW g,
         NEW bytes, bytes = BytesOf(obj, length, g)
  PROVE  obj.offset \in Nat /\ obj.offset + Len(bytes) \in Nat
<1>1. PICK offset \in Nat : offset = obj.offset
  BY DEF FatReadInv, ObjsKnown, TableKnown, ObjKnown
<1>2. PICK ent : ent = inode_map[obj.inode].ent OBVIOUS
<1>3. EntOf(type, obj.inode, ent) BY <1>2 DEF FatReadInv, CacheKnown
<1>4. ent.size \in Nat BY <1>3, EntryFacts, RootEntFacts DEF EntOf
<1>5. bytes = ReadFile(type, ent, length, offset, g) BY <1>1, <1>2 DEF BytesOf
<1>6. PICK U : bytes \in Seq(U) BY <1>4, <1>5, ReadSequence
<1> QED BY <1>1, <1>6

LEMMA FatReadKnown ==
  ASSUME FatInv, FatReadInv, NEW t \in Task, NEW fd \in Fd, NEW n \in FatLength, NEW g,
         FatRead(t, fd, n, g)
  PROVE  FatReadInv'
<1>1. PICK obj : obj = files[t][fd] OBVIOUS
<1>2. obj # Nil /\ obj.inode \in DOMAIN inode_map /\ ~inode_map[obj.inode].ent.dir
  BY <1>1 DEF FatRead, Readable
<1>3. PICK bytes : bytes = BytesOf(obj, n, g) OBVIOUS
<1>4. PICK offset : offset = obj.offset + Len(bytes) OBVIOUS
<1>5. Moved(files, files', t, fd, offset) BY <1>1, <1>3, <1>4, Zenon DEF FatRead, Moved
<1>6. PICK ans : ans = answer' OBVIOUS
<1>7. ans = [ent |-> obj.ent, offset |-> obj.offset, length |-> n, bytes |-> bytes]
  BY <1>1, <1>3, <1>6, Zenon DEF FatRead
<1>8. PICK a, b : a = obj.ent /\ b = obj.offset OBVIOUS
<1>9. ans = [ent |-> a, offset |-> b, length |-> n, bytes |-> bytes] BY <1>7, <1>8
<1>10. ans.ent = a /\ ans.offset = b /\ ans.length = n /\ ans.bytes = bytes BY <1>9
<1>11. n \in Nat BY FatAssumption
<1>12. b \in Nat /\ offset \in Nat BY <1>1, <1>2, <1>3, <1>4, <1>8, <1>11, BytesKnown
<1>13. PICK new : new = files' OBVIOUS
<1>14. FilesOk(running, files) /\ ObjsKnown(type, files) /\ CacheKnown(type, inode_map)
       /\ type \in FatType
  BY DEF FatInv, FatReadInv
<1>15. ObjsKnown(type, new) BY <1>1, <1>2, <1>5, <1>12, <1>13, <1>14, MovedKnown
<1>16. UNCHANGED <<type, inode_map>> BY DEF FatRead, cache
<1>17. PICK ty : ty = type OBVIOUS
<1>18. PICK ent2, inode : ent2 = inode_map[obj.inode].ent /\ inode = obj.inode OBVIOUS
<1>19. EntOf(ty, inode, a) /\ EntOf(ty, inode, ent2)
  BY <1>1, <1>2, <1>8, <1>14, <1>17, <1>18 DEF ObjsKnown, TableKnown, ObjKnown, CacheKnown
<1>20. bytes = ReadFile(ty, ent2, n, b, g) BY <1>3, <1>8, <1>17, <1>18 DEF BytesOf
<1>21. ASSUME \A k \in DOMAIN Chain(a) : Followed(ty, Chain(a)[k])
       PROVE  Right(ty, Chain(a), a.size, b, n, bytes)
  <2>1. PICK cs : cs = Chain(a) OBVIOUS
  <2>2. \A k \in DOMAIN cs : Followed(ty, cs[k]) BY <1>21, <2>1
  <2>3. ty \in FatType /\ ~ent2.dir BY <1>2, <1>14, <1>17, <1>18
  <2>4. Right(ty, cs, a.size, b, n, bytes)
    BY <1>11, <1>12, <1>19, <1>20, <2>1, <2>2, <2>3, AnswerRight
  <2> QED BY <2>1, <2>4
<1>22. ty = type' BY <1>16, <1>17
<1>23. FatReadCorrect' BY <1>6, <1>10, <1>21, <1>22, CorrectIfRight
<1>24. PICK map2 : map2 = inode_map' OBVIOUS
<1>25. CacheKnown(ty, map2) /\ ObjsKnown(ty, new) /\ ty \in FatType
  BY <1>14, <1>15, <1>16, <1>17, <1>24
<1> QED BY <1>13, <1>22, <1>23, <1>24, <1>25, Zenon DEF FatReadInv

LEMMA FatSpawnKnown ==
  ASSUME FatInv, FatReadInv, NEW t \in Task, NEW fd \in Fd, NEW u \in Task, NEW fds, NEW g,
         FatSpawn(t, fd, u, fds, g)
  PROVE  FatReadInv'
<1> DEFINE size == inode_map[files[t][fd].inode].ent.size
           bytes == BytesOf(files[t][fd], size, g)
           offset == files[t][fd].offset + Len(bytes)
           read == [files EXCEPT ![t][fd].offset = @ + Len(bytes)]
           copies == Copied(read[t], fds)
<1>1. Spawned(read, copies, u) BY Zenon DEF FatSpawn, Spawned, Given
<1>2. Moved(files, read, t, fd, offset) BY Zenon DEF Moved
<1>3. copies = Copied(read[t], fds) OBVIOUS
<1>4. files[t][fd] # Nil /\ files[t][fd].inode \in DOMAIN inode_map
  BY DEF FatSpawn, Readable
<1>5. PICK obj : obj = files[t][fd] OBVIOUS
<1>6. offset \in Nat
  <2>1. EntOf(type, obj.inode, inode_map[obj.inode].ent)
    BY <1>4, <1>5 DEF FatReadInv, CacheKnown
  <2>2. inode_map[obj.inode].ent.size \in Nat BY <2>1, EntryFacts, RootEntFacts DEF EntOf
  <2>3. PICK n \in Nat : n = size BY <1>5, <2>2
  <2>4. PICK bs : bs = bytes OBVIOUS
  <2>5. bs = BytesOf(obj, n, g) BY <1>5, <2>3, <2>4, Zenon
  <2> HIDE DEF bytes, size
  <2>6. obj.offset + Len(bs) \in Nat BY <1>4, <1>5, <2>5, BytesKnown
  <2> QED BY <1>5, <2>4, <2>6
<1> HIDE DEF size, bytes, offset, read, copies
<1>7. FilesOk(running, files) /\ ObjsKnown(type, files) BY DEF FatInv, FatReadInv
<1>8. FilesOk(running, read) BY <1>2, <1>4, <1>7, MovedOk DEF NoMoreIn
<1>9. ObjsKnown(type, read) BY <1>2, <1>4, <1>6, <1>7, MovedKnown
<1>10. PICK new : new = files' OBVIOUS
<1>11. ObjsKnown(type, new)
  <2>1. CASE new = read BY <1>9, <2>1
  <2>2. CASE new = [read EXCEPT ![u] = Given(copies)]
    <3>1. PICK table : table = Given(copies) OBVIOUS
    <3>2. new = [read EXCEPT ![u] = table] BY <2>2, <3>1
    <3>3. TableKnown(type, table) BY <1>3, <1>8, <1>9, <3>1, GivenKnown
    <3> QED BY <1>8, <1>9, <3>2, <3>3, TableKnownSet
  <2> QED BY <1>1, <1>10, <2>1, <2>2 DEF Spawned
<1>12. PICK map2 : map2 = inode_map' OBVIOUS
<1>13. map2 = inode_map /\ UNCHANGED type /\ answer' = Nil BY <1>12 DEF FatSpawn, cache
<1>14. CacheKnown(type, map2) BY <1>13 DEF FatReadInv
<1> QED BY <1>10, <1>11, <1>12, <1>13, <1>14, SilentStep

(* The object of an open is of the entry that its path led to. *)
LEMMA ObjectKnown ==
  ASSUME NEW ty, NEW map, NEW r, FoundKnown(ty, map, r), r.ok, NEW c, NEW x, x = FatObject(r, c)
  PROVE  ObjKnown(ty, x)
<1>1. PICK i, e : i = r.inode /\ e = r.ent OBVIOUS
<1>2. x = [inode |-> i, ent |-> e, counted |-> c, offset |-> 0] BY <1>1 DEF FatObject
<1>3. x.inode = i /\ x.ent = e /\ x.offset = 0 BY <1>2
<1> QED BY <1>1, <1>3 DEF FoundKnown, ObjKnown

LEMMA FatOpenKnown ==
  ASSUME FatInv, FatReadInv, NEW t \in Task, NEW path \in FatPath, FatOpen(t, path)
  PROVE  FatReadInv'
<1>1. FilesOk(running, files) /\ CacheOk(inode_map)
      /\ ObjsKnown(type, files) /\ CacheKnown(type, inode_map)
  BY DEF FatInv, FatReadInv
<1>2. PICK start : start = Mounted(inode_map, buckets) OBVIOUS
<1>3. PICK dir : dir = LookupFrom(type, start, path.dirs) OBVIOUS
<1>4. PICK file : file = FatLookup(type, dir, path.file) OBVIOUS
<1>5. PICK obj : obj = IF path.file = "" THEN FatObject(dir, FALSE) ELSE FatObject(file, TRUE)
  OBVIOUS
<1>6. /\ HasRoom(files[t], 1)
      /\ IF path.file = "" \/ ~file.ok THEN inode_map' = file.map
         ELSE inode_map' = Referenced(file.map, file.inode)
      /\ files' = IF (path.file = "" /\ dir.ok) \/ file.ok
                  THEN [files EXCEPT ![t] = DlistAdd(files[t], obj)] ELSE files
      /\ answer' = Nil /\ UNCHANGED type
  BY <1>2, <1>3, <1>4, <1>5, Zenon DEF FatOpen
<1>7. FoundKnown(type, inode_map, start)
  BY <1>1, <1>2, StartKnown DEF FoundKnown, EntOf
<1>8. FoundKnown(type, inode_map, dir)
  <2>1. path.dirs \in Seq(STRING) BY FatAssumption DEF Path
  <2> QED BY <1>3, <1>7, <2>1, LookupFromKnown
<1>9. FoundKnown(type, inode_map, file) BY <1>4, <1>8, FatLookupKnown
<1>10. file.ok => file.inode \in DOMAIN file.map BY <1>4, <1>8, FatLookupOk DEF FoundKnown
<1>11. PICK map : map = file.map OBVIOUS
<1>12. CacheOk(map) /\ CacheKnown(type, map) BY <1>9, <1>11 DEF FoundKnown, LookedUp
<1>13. PICK new, map2 : new = files' /\ map2 = inode_map' OBVIOUS
<1>14. CacheKnown(type, map2)
  <2>1. CASE path.file = "" \/ ~file.ok BY <1>6, <1>11, <1>12, <1>13, <2>1
  <2>2. CASE ~(path.file = "" \/ ~file.ok)
    <3>1. PICK inode : inode = file.inode OBVIOUS
    <3>2. map2 = Referenced(map, inode) BY <1>6, <1>11, <1>13, <2>2, <3>1
    <3>3. inode \in DOMAIN map BY <1>10, <1>11, <2>2, <3>1
    <3> QED BY <1>12, <3>2, <3>3, ReferencedKnown
  <2> QED BY <2>1, <2>2
<1>15. ObjsKnown(type, new)
  <2>1. CASE ~((path.file = "" /\ dir.ok) \/ file.ok) BY <1>1, <1>6, <1>13, <2>1
  <2>2. CASE (path.file = "" /\ dir.ok) \/ file.ok
    <3>1. PICK fd : fd = FirstEmpty(files[t]) OBVIOUS
    <3>2. fd \in Fd BY <1>6, <3>1, RoomFound
    <3>3. new = [files EXCEPT ![t] = [files[t] EXCEPT ![fd] = obj]]
      BY <1>6, <1>13, <2>2, <3>1 DEF DlistAdd
    <3>4. Put(files, new, t, fd, obj) BY <1>1, <3>2, <3>3, PutExcept
    <3>5. CASE path.file # ""
      <4>1. obj = FatObject(file, TRUE) /\ file.ok BY <1>5, <2>2, <3>5
      <4>2. ObjKnown(type, obj) BY <1>9, <4>1, ObjectKnown
      <4> QED BY <1>1, <3>2, <3>4, <4>2, PutKnown
    <3>6. CASE path.file = "" /\ dir.ok
      <4>1. obj = FatObject(dir, FALSE) BY <1>5, <3>6
      <4>2. ObjKnown(type, obj) BY <1>8, <3>6, <4>1, ObjectKnown
      <4> QED BY <1>1, <3>2, <3>4, <4>2, PutKnown
    <3>7. file.ok => dir.ok BY <1>4, <1>8, FileFound
    <3> QED BY <2>2, <3>5, <3>6, <3>7
  <2> QED BY <2>1, <2>2
<1> QED BY <1>6, <1>13, <1>14, <1>15, SilentStep

LEMMA FatNextKnown == FatInv /\ FatReadInv /\ [FatNext]_fatVars => FatReadInv'
<1> SUFFICES ASSUME FatInv, FatReadInv, [FatNext]_fatVars PROVE FatReadInv' OBVIOUS
<1>1. CASE UNCHANGED fatVars
  <2>1. UNCHANGED <<type, inode_map, files, answer>> BY <1>1 DEF fatVars
  <2>2. FatReadCorrect' = FatReadCorrect BY <2>1, Zenon DEF FatReadCorrect
  <2> QED BY <2>1, <2>2 DEF FatReadInv
<1>2. ASSUME NEW t \in Task, NEW path \in FatPath, FatOpen(t, path) PROVE FatReadInv'
  BY <1>2, FatOpenKnown
<1>3. ASSUME NEW t \in Task, NEW fd \in Fd, FatClose(t, fd) PROVE FatReadInv'
  BY <1>3, FatCloseKnown
<1>4. ASSUME NEW t \in Task, NEW fd \in Fd, NEW n \in FatLength, NEW g \in Garbage,
             FatRead(t, fd, n, g)
      PROVE  FatReadInv'
  BY <1>4, FatReadKnown
<1>5. ASSUME NEW t \in Task, NEW fd \in Fd, NEW offset \in FatOffset,
             NEW whence \in {"SET", "CUR", "END"}, FatLseek(t, fd, offset, whence)
      PROVE  FatReadInv'
  BY <1>5, FatLseekKnown
<1>6. ASSUME NEW t \in Task, NEW fd \in Fd, NEW u \in Task \ {t}, NEW fds \in FdList,
             NEW g \in Garbage, FatSpawn(t, fd, u, fds, g)
      PROVE  FatReadInv'
  BY <1>6, FatSpawnKnown
<1>7. ASSUME NEW t \in Task, FatExit(t) PROVE FatReadInv' BY <1>7, FatExitKnown
<1>8. CASE FatStopped BY <1>1, <1>8 DEF FatStopped
<1> QED BY <1>1, <1>2, <1>3, <1>4, <1>5, <1>6, <1>7, <1>8, Zenon DEF FatNext

(* In every state that a FAT file system reaches, what the cache and the   *)
(* objects of any task hold for an inode are entries of one and the same   *)
(* file, whose first cluster gives the inode (fatfs_vfs_lookup), and the   *)
(* last read answered with that file's bytes.                              *)
THEOREM FatReadInvariant == FatSpec => []FatReadInv
<1>1. FatInit => FatReadInv BY FatInitKnown
<1>2. FatInv /\ FatReadInv /\ [FatNext]_fatVars => FatReadInv' BY FatNextKnown
<1> QED BY <1>1, <1>2, FatInvariant, PTL DEF FatSpec

(* A read returns the bytes of the file that the object was opened for, in *)
(* their order and across its clusters, up to the length asked for or the  *)
(* end of the file, on any device and for any table of any of the three    *)
(* types, whatever else was opened, moved, closed or spawned before        *)
(* (fatfs_vfs_read, fatfs_get_next_cluster, fatfs_relclus_to_sect).        *)
THEOREM ReadsAlwaysCorrect == FatSpec => []FatReadCorrect
<1>1. FatReadInv => FatReadCorrect BY DEF FatReadInv
<1> QED BY <1>1, FatReadInvariant, PTL
====
