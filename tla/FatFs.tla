-------------------------------- MODULE FatFs --------------------------------
(***************************************************************************)
(* A FAT file system below the VFS (modules/fatfs): its tables and cluster *)
(* chains, the cache of directory entries by inode, which is the sector    *)
(* that an entry begins at, and the system calls on its files.             *)
(*                                                                         *)
(* A byte of a file is known by its address on the device.  A directory    *)
(* entry has the set of names that the comparison of fatfs_vfs_lookup lets *)
(* it answer to (its long name, and every name that begins as its short    *)
(* one does).  Files have the archive attribute and their clusters are     *)
(* below 2^16.  Paths begin at the root of the file system, and a call is  *)
(* one step, as in Vfs.                                                    *)
(***************************************************************************)
EXTENDS Vfs

CONSTANTS
  FatType,      \* which of 12, 16 and 32 the instance has
  BytesPerSect, SectPerClus, ReservedSects, Fats, SectsPerFat, BpbDirents, RootClus,
  Table,         \* the allocation table: the next cluster, or End
  End,
  Dirents,      \* the entries of each directory, by its cluster (0 is the root)
  FatPath,      \* the paths that are opened
  FatLength, FatOffset,  \* the lengths of reads, the offsets of lseek
  NBuckets,       \* the buckets of the cache's hash map
  MaxReferences,  \* bound: the opens of an inode that are counted
  Garbage       \* what may be in the heap behind a buffer

ASSUME FatAssumption ==
  /\ FatType \subseteq {12, 16, 32}
  /\ {BytesPerSect, SectPerClus} \subseteq Nat \ {0}
  /\ {ReservedSects, Fats, SectsPerFat, BpbDirents, RootClus} \subseteq Nat
  /\ FatPath \subseteq Path
  /\ FatLength \subseteq Nat \ {0} /\ FatOffset \subseteq Int /\ MaxReferences \in Nat
  /\ Garbage \subseteq 0..255 /\ Garbage # {} /\ NBuckets \in Nat \ {0}

VARIABLES
  type,        \* of the file system
  inode_map,   \* the nodes of the hash map: inode -> the entry found there, and
               \* how often it is opened
  buckets,     \* its lists that were added to: the inodes of base and last
  removed,     \* inodes whose node was removed from it
  files,       \* the object tables
  running,
  answer,      \* the last read, or Nil
  overclosed   \* inodes that an object was closed of that nobody had counted

fatVars == <<type, inode_map, buckets, removed, files, running, answer, overclosed>>
cache == <<inode_map, buckets, removed>>

ClusterSize == BytesPerSect * SectPerClus

-----------------------------------------------------------------------------
(* What is on the device: where a cluster really is, and the bytes of the  *)
(* allocation table.                                                       *)
RootSects == (BpbDirents * 32) \div BytesPerSect
FirstSect == ReservedSects + Fats * SectsPerFat

TrueSect(ty, cluster) ==
  IF cluster = 0 THEN FirstSect + (IF ty = 32 THEN (RootClus - 2) * SectPerClus ELSE 0)
  ELSE FirstSect + (cluster - 2) * SectPerClus + (IF ty = 32 THEN 0 ELSE RootSects)

TableEntry(ty, cluster) ==
  IF cluster \notin DOMAIN Table THEN 0
  ELSE IF Table[cluster] # End THEN Table[cluster]
  ELSE CASE ty = 12 -> 4095 [] ty = 16 -> 65535 [] ty = 32 -> 268435455

(* The k-th byte of the table; in FAT12 three bytes hold two entries. *)
Weight == <<1, 256, 65536, 16777216>>
TableByte(ty, k) ==
  LET even == TableEntry(ty, 2 * (k \div 3))
      odd == TableEntry(ty, 2 * (k \div 3) + 1)
      width == ty \div 8
  IN  IF ty = 12
      THEN CASE k % 3 = 0 -> even % 256
             [] k % 3 = 1 -> even \div 256 + 16 * (odd % 16)
             [] k % 3 = 2 -> odd \div 16
      ELSE (TableEntry(ty, k \div width) \div Weight[1 + (k % width)]) % 256

DeviceByte(ty, address) == TableByte(ty, address - ReservedSects * BytesPerSect)

-----------------------------------------------------------------------------
(* clusters.c *)

(* Faulty variant of RelclusToSect: the root directory takes no room. *)
RelclusToSectOfData(ty, cluster) ==
  IF ty = 32 THEN (cluster - RootClus) * SectPerClus + FirstSect
  ELSE IF cluster > 2 THEN (cluster - 2) * SectPerClus + FirstSect
  ELSE FirstSect

(* fatfs_relclus_to_sect: in FAT12 and 16, cluster 2 is taken for the root. *)
RelclusToSect(ty, cluster) ==
  IF ty = 32 THEN (cluster - RootClus) * SectPerClus + FirstSect
  ELSE IF cluster > 2 THEN (cluster - 2) * SectPerClus + FirstSect + RootSects
  ELSE FirstSect

(* fatfs_get_next_cluster_fat12, _fat16 and _fat32: the entry is read from *)
(* a buffer of one cluster, and may reach one byte past it.  In FAT32 the  *)
(* variable it is kept in has room for its lower half only.                *)
TableOffset(ty, cluster) ==
  IF ty = 12 THEN cluster + cluster \div 2 ELSE cluster * (ty \div 8)

NextCluster(ty, cluster, garbage) ==
  LET offset == TableOffset(ty, cluster)
      sector == ReservedSects + offset \div ClusterSize
      ent == offset % ClusterSize
      buf(k) == IF k < ClusterSize THEN DeviceByte(ty, sector * BytesPerSect + k) ELSE garbage
      value == buf(ent) + 256 * buf(ent + 1)
  IN  IF ty # 12 THEN value
      ELSE IF cluster % 2 = 1 THEN value \div 16 ELSE value % 4096

IsLastCluster(ty, cluster) ==
  cluster >= (CASE ty = 12 -> 4087 [] ty = 16 -> 65527 [] ty = 32 -> 268435447)

-----------------------------------------------------------------------------
(* The body of the loop of fatfs_vfs_read: the end of the chain leaves it  *)
(* before the byte just copied is counted.                                 *)
ReadStep(ty, garbage, s) ==
  IF s.done THEN s
  ELSE LET out == [s EXCEPT !.bytes = Append(@, s.base + (s.i % ClusterSize)), !.i = @ + 1]
           next == NextCluster(ty, s.cluster, garbage)
       IN  IF (s.i + 1) % ClusterSize # 0 THEN out
           ELSE IF IsLastCluster(ty, next) THEN [s EXCEPT !.done = TRUE]
           ELSE [out EXCEPT !.cluster = next,
                            !.base = RelclusToSect(ty, next) * BytesPerSect]

(* fatfs_vfs_read of a cached entry: the bytes that it counts. *)
ReadFile(ty, ent, length, offset, garbage) ==
  LET skip == FoldLeft(LAMBDA c, k : NextCluster(ty, c, garbage),
                       ent.cluster, [k \in 1..(offset \div ClusterSize) |-> k])
      start == [cluster |-> skip, base |-> RelclusToSect(ty, skip) * BytesPerSect,
                i |-> offset % ClusterSize, bytes |-> <<>>, done |-> FALSE]
      loops == IF length < ent.size THEN length ELSE ent.size
  IN  IF offset >= ent.size \/ IsLastCluster(ty, skip) THEN <<>>
      ELSE FoldLeft(LAMBDA s, k : ReadStep(ty, garbage, s),
                    start, [k \in 1..loops |-> k]).bytes

-----------------------------------------------------------------------------
(* hashmap.c and list.c.  The nodes of a bucket are linked in the order    *)
(* that they were added in, between those that its head points to.         *)
Bucket(inode) == inode % NBuckets

(* hashmap_add with list_add_data *)
HashmapAdd(heads, inode) ==
  LET b == Bucket(inode)
  IN  With(heads, b, [base |-> IF b \in DOMAIN heads THEN heads[b].base ELSE inode,
                      last |-> inode])

(* hashmap_remove: list_remove_node unlinks the node and frees it, and the *)
(* head goes on pointing to it.  The entry itself is not freed.            *)
HashmapRemove(map, inode) == [i \in DOMAIN map \ {inode} |-> map[i]]

(* hashmap_get begins at base and list_add_node at last; what they do when *)
(* that is a freed node is undefined.                                      *)
GetDefined(map, heads, inode) ==
  Bucket(inode) \in DOMAIN heads => heads[Bucket(inode)].base \in DOMAIN map
AddDefined(map, heads, inode) ==
  Bucket(inode) \in DOMAIN heads => heads[Bucket(inode)].last \in DOMAIN map

-----------------------------------------------------------------------------
(* Lookups *)

RootEnt == [answers |-> {}, dir |-> TRUE, cluster |-> 2, size |-> 0]
RootInode ==
  IF type = 32 THEN (RootClus - 2) * SectPerClus + FirstSect ELSE FirstSect

(* The entries of the directory that begins at a sector *)
EntriesAt(ty, sector) ==
  LET at == {c \in DOMAIN Dirents : TrueSect(ty, c) = sector}
  IN  IF at = {} THEN <<>> ELSE Dirents[CHOOSE c \in at : TRUE]

(* fatfs_vfs_lookup: the first entry that answers to the name, which goes  *)
(* into the cache if its inode is not there.                               *)
FatLookup(ty, r, name) ==
  LET ents == IF r.inode \in DOMAIN r.map /\ r.map[r.inode].ent.dir
              THEN EntriesAt(ty, r.inode) ELSE <<>>
      is == {i \in DOMAIN ents : name \in ents[i].answers}
      ent == ents[CHOOSE i \in is : \A j \in is : i <= j]
      inode == RelclusToSect(ty, ent.cluster)
      there == inode \in DOMAIN r.map
      found == is # {} => /\ GetDefined(r.map, r.heads, inode)
                          /\ there \/ AddDefined(r.map, r.heads, inode)
      defined == r.defined /\ (r.ok => GetDefined(r.map, r.heads, r.inode) /\ found)
  IN  IF ~r.ok \/ is = {} THEN [r EXCEPT !.ok = FALSE, !.defined = defined]
      ELSE [ok |-> TRUE, inode |-> inode, ent |-> ent, defined |-> defined,
            map |-> IF there THEN r.map ELSE With(r.map, inode, [ent |-> ent, references |-> 0]),
            heads |-> IF there THEN r.heads ELSE HashmapAdd(r.heads, inode)]

LookupFrom(ty, r, names) == FoldLeft(LAMBDA s, name : FatLookup(ty, s, name), r, names)

Mounted(map, heads) ==
  [ok |-> TRUE, inode |-> RootInode, ent |-> RootEnt, defined |-> TRUE,
   map |-> map, heads |-> heads]

-----------------------------------------------------------------------------
(* fatfs_create *)
FatInit ==
  /\ type \in FatType
  /\ inode_map = [i \in {RootInode} |-> [ent |-> RootEnt, references |-> 1]]
  /\ buckets = [b \in {Bucket(RootInode)} |-> [base |-> RootInode, last |-> RootInode]]
  /\ removed = {}
  /\ files = [t \in Task |-> EmptyTable]
  /\ running = {First} /\ answer = Nil /\ overclosed = {}

FatObject(r, counted) ==
  [inode |-> r.inode, ent |-> r.ent, counted |-> counted, offset |-> 0]

(* The count of fatfs_vfs_open *)
Referenced(map, inode) == [map EXCEPT ![inode].references = @ + 1]

(* vfs_open: fatfs_vfs_open counts what it finds, and what a path with a   *)
(* slash at its end leads to is not counted.                               *)
FatOpen(t, path) ==
  LET dir == LookupFrom(type, Mounted(inode_map, buckets), path.dirs)
      file == FatLookup(type, dir, path.file)
      obj == IF path.file = "" THEN FatObject(dir, FALSE) ELSE FatObject(file, TRUE)
  IN  /\ t \in running /\ HasRoom(files[t], 1)
      /\ IF path.file = "" THEN dir.defined ELSE file.defined
      /\ path.file # "" /\ file.ok => file.map[file.inode].references < MaxReferences
      /\ IF path.file = "" \/ ~file.ok THEN inode_map' = file.map
         ELSE inode_map' = Referenced(file.map, file.inode)
      /\ buckets' = file.heads
      /\ files' = IF (path.file = "" /\ dir.ok) \/ file.ok
                  THEN [files EXCEPT ![t] = DlistAdd(@, obj)] ELSE files
      /\ answer' = Nil
      /\ UNCHANGED <<type, removed, running, overclosed>>

(* Faulty variant of Dereferenced: the first close drops the entry. *)
DereferencedAtOnce(map, inode) == HashmapRemove(map, inode)

(* fatfs_vfs_close: at zero the entry leaves the cache. *)
Dereferenced(map, inode) ==
  IF inode \in DOMAIN map /\ map[inode].references > 1
  THEN [map EXCEPT ![inode].references = @ - 1]
  ELSE HashmapRemove(map, inode)

(* Its bucket is not torn: what hashmap_get does is defined. *)
Gets(obj) == GetDefined(inode_map, buckets, obj.inode)

(* vfs_close drops the object whatever the file system answers. *)
FatClose(t, fd) ==
  /\ t \in running /\ files[t][fd] # Nil /\ Gets(files[t][fd])
  /\ inode_map' = Dereferenced(inode_map, files[t][fd].inode)
  /\ removed' = removed \cup (DOMAIN inode_map \ DOMAIN inode_map')
  /\ overclosed' = IF files[t][fd].counted THEN overclosed
                   ELSE overclosed \cup {files[t][fd].inode}
  /\ files' = [files EXCEPT ![t][fd] = Nil]
  /\ answer' = Nil
  /\ UNCHANGED <<type, buckets, running>>

(* A file whose entry is cached, and what a read of it returns *)
Readable(obj) ==
  Gets(obj) /\ obj.inode \in DOMAIN inode_map /\ ~inode_map[obj.inode].ent.dir

BytesOf(obj, n, garbage) ==
  ReadFile(type, inode_map[obj.inode].ent, n, obj.offset, garbage)

(* vfs_read; a directory and an entry that is not cached are refused. *)
FatRead(t, fd, n, garbage) ==
  /\ t \in running /\ files[t][fd] # Nil /\ Readable(files[t][fd])
  /\ LET obj == files[t][fd]
         bytes == BytesOf(obj, n, garbage)
     IN  /\ answer' = [ent |-> obj.ent, offset |-> obj.offset, length |-> n, bytes |-> bytes]
         /\ files' = [files EXCEPT ![t][fd].offset = @ + Len(bytes)]
  /\ UNCHANGED <<type, cache, running, overclosed>>

(* vfs_lseek: fatfs_vfs_get_info has the size of the cached entry. *)
FatLseek(t, fd, offset, whence) ==
  /\ t \in running /\ files[t][fd] # Nil
  /\ Gets(files[t][fd]) /\ files[t][fd].inode \in DOMAIN inode_map
  /\ LET obj == files[t][fd]
         size == inode_map[obj.inode].ent.size
         target == SeekTarget([read_offset |-> obj.offset], offset, whence, size)
     IN  /\ target <= size
         /\ files' = [files EXCEPT ![t][fd].offset = target]
  /\ answer' = Nil
  /\ UNCHANGED <<type, cache, running, overclosed>>

(* vfs_spawn reads the file to its end from where the object stands, and   *)
(* starts it if that many bytes came.  The copies that init_task makes are *)
(* not counted.                                                            *)
FatSpawn(t, fd, u, fds, garbage) ==
  /\ t \in running /\ files[t][fd] # Nil /\ Readable(files[t][fd])
  /\ LET obj == files[t][fd]
         size == inode_map[obj.inode].ent.size
         bytes == BytesOf(obj, size, garbage)
         read == [files EXCEPT ![t][fd].offset = @ + Len(bytes)]
         copies == Copied(read[t], fds)
     IN  /\ size > 0
         /\ IF Len(bytes) = size
            THEN /\ u \in Task \ running
                 /\ running' = running \cup {u}
                 /\ files' = [read EXCEPT ![u] =
                      Inherited([i \in DOMAIN copies |-> [copies[i] EXCEPT !.counted = FALSE]])]
            ELSE files' = read /\ UNCHANGED running
  /\ answer' = Nil
  /\ UNCHANGED <<type, cache, overclosed>>

(* remove_task_by_pid frees the objects and does not close them. *)
FatExit(t) ==
  /\ t \in running
  /\ running' = running \ {t}
  /\ files' = [files EXCEPT ![t] = EmptyTable]
  /\ answer' = Nil
  /\ UNCHANGED <<type, cache, overclosed>>

FatStopped == running = {} /\ UNCHANGED fatVars

FatNext ==
  \/ \E t \in Task :
       \/ \E path \in FatPath : FatOpen(t, path)
       \/ \E fd \in Fd :
            \/ FatClose(t, fd)
            \/ \E n \in FatLength, g \in Garbage : FatRead(t, fd, n, g)
            \/ \E offset \in FatOffset, whence \in {"SET", "CUR", "END"} :
                 FatLseek(t, fd, offset, whence)
            \/ \E u \in Task \ {t}, fds \in FdList, g \in Garbage : FatSpawn(t, fd, u, fds, g)
       \/ FatExit(t)
  \/ FatStopped

FatSpec == FatInit /\ [][FatNext]_fatVars

-----------------------------------------------------------------------------
(* The file system keeps the entry of every file that is open, and that of *)
(* its root, whatever else is opened, closed, spawned or exits: the count  *)
(* of a cached entry is no less than the opens that are not closed yet.    *)
(* Only the close of an object that open never counted (a path with a      *)
(* slash at its end, or a copy that a new task got) can take it away.  And *)
(* hashmap_get gets to it, unless a node of its bucket was removed: the    *)
(* last close of another file leaves base pointing to freed memory, and    *)
(* the open files behind it are lost.                                      *)
OpenFileCached ==
  LET opens(inode) == Cardinality({e \in Task \X Fd :
                        LET obj == files[e[1]][e[2]]
                        IN  obj # Nil /\ obj.counted /\ obj.inode = inode})
                      + (IF inode = RootInode THEN 1 ELSE 0)
      inodes == {RootInode} \cup UNION {{files[t][fd].inode : fd \in {f \in Fd : files[t][f] # Nil}}
                                         : t \in Task}
  IN  \A inode \in inodes \ overclosed :
        opens(inode) > 0 =>
          /\ inode \in DOMAIN inode_map /\ inode_map[inode].references >= opens(inode)
          /\ (\A other \in removed : Bucket(other) # Bucket(inode))
               => GetDefined(inode_map, buckets, inode)

(* The clusters of a file, as the allocation table has them *)
NextAdded(cs) ==
  LET c == cs[Len(cs)]
  IN  IF c \in DOMAIN Table /\ Table[c] # End THEN Append(cs, Table[c]) ELSE cs

Chain(ent) == FoldLeft(LAMBDA cs, k : NextAdded(cs), <<ent.cluster>>,
                       [k \in 1..Cardinality(DOMAIN Table) |-> k])

(* A well-formed file system: a cluster's successor is a cluster, and all  *)
(* have numbers that the type has room for; a file with contents has a     *)
(* chain that is long enough for them, and its first cluster is no other's.*)
ASSUME TableAssumption ==
  /\ IsFiniteSet(DOMAIN Table) /\ \A c \in DOMAIN Table : c \in Nat /\ 2 <= c /\ c < 65536
  /\ End \notin DOMAIN Table /\ \A c \in DOMAIN Table : Table[c] \in DOMAIN Table \cup {End}
  /\ \A ty \in FatType, c \in DOMAIN Table : ~IsLastCluster(ty, c)

FatEntries == UNION {Range(Dirents[c]) : c \in DOMAIN Dirents}

ASSUME DirentsAssumption ==
  /\ \A c \in DOMAIN Dirents : Dirents[c] \in Seq(FatEntries)
  /\ \A ent \in FatEntries :
       /\ ent.cluster \in Nat /\ ent.size \in Nat
       /\ ent.size > 0 =>
            /\ ent.cluster \in DOMAIN Table /\ ent.size <= Len(Chain(ent)) * ClusterSize
            /\ \A other \in FatEntries : other.cluster = ent.cluster => other.size = ent.size

(* The clusters that the code finds and follows: not 2, which is taken for *)
(* the root directory; in FAT32 only if that is where the root directory   *)
(* is; none with an entry of the table across the end of a buffer; and,    *)
(* since the entry's sector is counted in clusters, none with an entry     *)
(* beyond the first buffer unless a cluster is one sector.                 *)
Followed(ty, c) ==
  /\ c # 2 /\ (ty = 32 => RootClus = 2)
  /\ (TableOffset(ty, c) + 1) % ClusterSize # 0
  /\ SectPerClus = 1 \/ TableOffset(ty, c) < ClusterSize

(* A read returns the bytes of the file that the object was opened for, in *)
(* their order and across clusters and sectors of the table, and all of    *)
(* them up to the length asked for or the file's end; but for the last     *)
(* byte of the last cluster, which the loop copies and does not count.     *)
(* Not for files with a cluster that the code does not follow.             *)
FatReadCorrect ==
  LET ent == answer.ent
      chain == Chain(ent)
      left == ent.size - answer.offset
      due == IF left < 0 THEN 0 ELSE IF left < answer.length THEN left ELSE answer.length
      byte(j) == TrueSect(type, chain[1 + j \div ClusterSize]) * BytesPerSect + (j % ClusterSize)
  IN  answer # Nil /\ (\A k \in DOMAIN chain : Followed(type, chain[k])) =>
        /\ \A k \in 1..Len(answer.bytes) :
             k <= due => answer.bytes[k] = byte(answer.offset + k - 1)
        /\ \/ Len(answer.bytes) >= due
           \/ /\ Len(answer.bytes) = due - 1
              /\ answer.offset + due = Len(chain) * ClusterSize
=============================================================================
