--------------------------------- MODULE Vfs ---------------------------------
(***************************************************************************)
(* The virtual file system (vfs.c, vfs_syscalls.c) over file systems in    *)
(* memory (ramfs.c, dynstring.c) and the device files (devfs.c, hal.c):    *)
(* path lookup across mounts, open files with their offsets, and each      *)
(* task's root and current directory.                                      *)
(*                                                                         *)
(* Every call runs with interrupts off from its gate to its end and so is  *)
(* one step (the heap is taken to be free).  Names are compared whole, and *)
(* a path is a record: whether it begins with a slash, its directories,    *)
(* and what follows the last slash ("" if nothing does).  The mount list   *)
(* and the reference counts of file systems and drivers are never read and *)
(* are left out.                                                           *)
(***************************************************************************)
EXTENDS Dlist, Sequences, SequencesExt

CONSTANTS
  Task,         \* the tasks that make system calls
  First,        \* the one that boot code creates
  OpenPath, ChangePath,  \* the paths of open, and of chroot and chdir
  BootDir,      \* the directories that boot code makes in /test, in order
  Device,       \* the devices, in the order that drivers register them
  Offset,       \* the offsets of lseek
  Length,       \* the lengths of reads and writes
  BlockSize,    \* DEFAULT_DYNSTRING_BSIZE
  Caches,       \* the slab caches of the heap: their obj_size and block_size
  MaxSize,      \* the max_size of the heap, from where on pages are mapped
  PageSize, Word,  \* PAGE_SIZE, and sizeof(uint32_t)
  Unsigned,     \* 2^32
  MaxInode, MaxPos   \* bounds: inodes in a file system, bytes in a file

Path == [slash : BOOLEAN, dirs : Seq(STRING), file : STRING]

ASSUME VfsAssumption ==
  /\ First \in Task /\ Nil \notin Nat
  /\ OpenPath \cup ChangePath \subseteq Path /\ Device \in Seq(STRING)
  /\ BootDir \in Seq(STRING) /\ "somedir" \in Range(BootDir)
  /\ \A i, j \in DOMAIN BootDir : BootDir[i] = BootDir[j] => i = j
  /\ Offset \subseteq Int /\ Length \subseteq Nat \ {0}
  /\ BlockSize \in Nat \ {0} /\ Unsigned \in Nat \ {0}
  /\ MaxInode \in Nat /\ MaxPos \in Nat

(* A block is as long as the objects of its cache, or a little longer, and *)
(* there is a cache for every size below max_size.                         *)
ASSUME CachesAssumption ==
  /\ MaxSize \in Nat /\ MaxSize > 1
  /\ PageSize \in Nat \ {0} /\ Word \in Nat
  /\ Caches \subseteq [obj_size : Nat \ {0}, block_size : Nat]
  /\ \A c \in Caches : c.obj_size <= c.block_size
  /\ \A size \in 1..(MaxSize - 1) : \E c \in Caches : size <= c.obj_size

VARIABLES
  ramfs,       \* the nodes of each ramfs, by inode; the first is mounted on "/"
  devices,     \* hal_device_list
  devfs_ready, \* the devfs driver is registered
  pobjects,    \* the object tables
  froot, curdir,  \* per task, or Nil
  alive,
  dangling,    \* the tasks whose root or directory points to freed memory
  halted       \* a lookup does not end, and interrupts are off; or a byte
               \* written past a block hit one that somebody uses

vfsVars == <<ramfs, devices, devfs_ready, pobjects, froot, curdir, alive, dangling, halted>>
trees == <<ramfs, devices, devfs_ready>>
tasks == <<froot, curdir, alive, dangling>>

Devfs == 0   \* as a file system; those in memory are numbered from 1

Root(fs) == [fs |-> fs, inode |-> 0]

(* Nodes of devfs: its directory, or 128 more than the device's index. *)
IsDevice(node) == node.fs = Devfs /\ node.inode >= 128

(* hal_get_device: the list is append only. *)
DeviceOf(node) == devices[node.inode - 127]

(* What a string lives in.  sheap_alloc: below max_size a block of the     *)
(* first cache with large enough objects, else pages behind a word with    *)
(* the size.  The room is what may be written to; of pages a move copies   *)
(* as many bytes as the first four of the contents say, so none for sure.  *)
SheapAlloc(size) ==
  IF size < MaxSize
  THEN LET c == CHOOSE c \in Caches :
                  /\ size <= c.obj_size
                  /\ \A d \in Caches : size <= d.obj_size => c.obj_size <= d.obj_size
       IN  [obj_size |-> c.obj_size, block_size |-> c.block_size, room |-> c.block_size]
  ELSE LET npages == (size + Word) \div PageSize + (IF size % PageSize > 0 THEN 1 ELSE 0)
       IN  [obj_size |-> 0, block_size |-> 0, room |-> npages * PageSize - Word]

(* A string's data: written are the positions that are certain to hold     *)
(* what was last written there (the zero of the empty string at first).    *)
Node == [type |-> "null", dirents |-> <<>>, mount |-> Nil,
         data |-> [length |-> 0, alloced |-> 0, object |-> SheapAlloc(1), written |-> {0}]]
NewDir == [Node EXCEPT !.type = "dir"]

(* The function f with another value, or a value more, at x *)
With(f, x, value) == [y \in DOMAIN f \cup {x} |-> IF y = x THEN value ELSE f[y]]

-----------------------------------------------------------------------------
(* Faulty variant of AddNode: a file's place in the directory is its inode. *)
AddNodeByEntry(table, dir, name, node) ==
  LET inode == IF node.type = "dir" THEN Cardinality(DOMAIN table)
               ELSE Len(table[dir].dirents) + 1
  IN  With([table EXCEPT ![dir].dirents = Append(@, [name |-> name, inode |-> inode])],
           inode, node)

(* ramfs_add_node: the next inode, and an entry at the end of dir. *)
AddNode(table, dir, name, node) ==
  LET inode == Cardinality(DOMAIN table)
  IN  With([table EXCEPT ![dir].dirents = Append(@, [name |-> name, inode |-> inode])],
           inode, node)

(* create_ramfs: a root directory with "test" in it. *)
NewRamfs == AddNode([i \in {0} |-> NewDir], 0, "test", NewDir)

(* ramfs_dir_findnode: the first entry with this name, if there is one. *)
Entries(table, dir, name) ==
  {i \in DOMAIN table[dir].dirents : table[dir].dirents[i].name = name}

FindNode(table, dir, name) ==
  LET is == Entries(table, dir, name)
  IN  table[dir].dirents[CHOOSE i \in is : \A j \in is : i <= j].inode

-----------------------------------------------------------------------------
(* The result of a lookup, in the file systems fs: a node, an error, or    *)
(* none at all.                                                            *)
Found(node) == [st |-> "found", node |-> node]
Error == [st |-> "error"]
Loop == [st |-> "loop"]

(* ramfs_node_lookup, and the step of file_lookup_relative to the root of  *)
(* what is mounted there.                                                  *)
RamfsLookup(fs, node, name) ==
  LET table == fs[node.fs]
  IN  IF table[node.inode].type # "dir" \/ Entries(table, node.inode, name) = {}
      THEN Error
      ELSE LET inode == FindNode(table, node.inode, name)
           IN  IF table[inode].mount # Nil THEN Found(Root(table[inode].mount))
               ELSE Found([fs |-> node.fs, inode |-> inode])

(* devfs_lookup_node: the first device of that name.  devfs_readdir_node   *)
(* answers a node that is no directory with an error, which its loop takes *)
(* for an entry.                                                           *)
DevfsLookup(node, name) ==
  LET is == {i \in DOMAIN devices : devices[i] = name}
  IN  IF IsDevice(node) THEN Loop
      ELSE IF is = {} THEN Error
      ELSE Found([fs |-> Devfs, inode |-> 127 + CHOOSE i \in is : \A j \in is : i <= j])

(* file_lookup_relative *)
Lookup(fs, start, names) ==
  FoldLeft(LAMBDA r, name :
             IF r.st # "found" \/ name = "." THEN r
             ELSE IF r.node.fs = Devfs THEN DevfsLookup(r.node, name)
             ELSE RamfsLookup(fs, r.node, name),
           Found(start), names)

(* get_local_vfs_root, get_current_dir, and where file_lookup begins *)
LocalRoot(t) == IF froot[t] # Nil THEN froot[t] ELSE Root(1)
CurrentDir(t) == IF curdir[t] # Nil THEN curdir[t] ELSE LocalRoot(t)
Start(t, path) == IF path.slash THEN LocalRoot(t) ELSE CurrentDir(t)

Names(path) == IF path.file = "" THEN path.dirs ELSE Append(path.dirs, path.file)

-----------------------------------------------------------------------------
(* Boot code and the init functions of modules, on the kernel's own thread *)

(* file_mount_filesystem of fs with ramfs_mount_node, where the path leads *)
(* to; a lookup that fails leaves the file system without a place.         *)
MountOn(all, path, fs) ==
  LET r == Lookup(all, Root(1), path)
  IN  IF r.st = "found" /\ r.node.fs # Devfs
      THEN [all EXCEPT ![r.node.fs][r.node.inode].mount = fs] ELSE all

(* ramfs_mkdir_node, in the directory that the path leads to *)
Mkdir(all, path, name) ==
  LET dir == Lookup(all, Root(1), path).node
  IN  [all EXCEPT ![dir.fs] = AddNode(@, dir.inode, name, NewDir)]

(* init_vfs: a ramfs on "/", directories in /test, and a second ramfs on   *)
(* one of them.                                                            *)
InitVfs ==
  LET dirs == FoldLeft(LAMBDA all, name : Mkdir(all, <<"test">>, name), <<NewRamfs>>, BootDir)
      mounted == MountOn(Append(dirs, NewRamfs), <<"test", "somedir">>, 2)
  IN  Mkdir(mounted, <<"test", "somedir">>, "wut")

VfsInit ==
  /\ ramfs = InitVfs
  /\ devices = <<>> /\ devfs_ready = FALSE
  /\ pobjects = [t \in Task |-> EmptyTable]
  /\ froot = [t \in Task |-> Nil] /\ curdir = [t \in Task |-> Nil]
  /\ alive = {First} /\ dangling = {} /\ halted = FALSE

(* init of devfs, with its test( ) *)
InitDevfs ==
  /\ ~halted /\ ~devfs_ready
  /\ devfs_ready' = TRUE
  /\ ramfs' = MountOn(ramfs, <<"test", "devices">>, Devfs)
  /\ UNCHANGED <<devices, pobjects, tasks, halted>>

(* Faulty variant of RegisterDevice: the newest device comes first. *)
RegisterDeviceFirst ==
  /\ ~halted /\ Len(devices) < Len(Device)
  /\ devices' = <<Device[Len(devices) + 1]>> \o devices
  /\ UNCHANGED <<ramfs, devfs_ready, pobjects, tasks, halted>>

(* hal_register_device, by the init of a driver *)
RegisterDevice ==
  /\ ~halted /\ Len(devices) < Len(Device)
  /\ devices' = Append(devices, Device[Len(devices) + 1])
  /\ UNCHANGED <<ramfs, devfs_ready, pobjects, tasks, halted>>

-----------------------------------------------------------------------------
(* The system calls.  What one does after its task's root or directory was *)
(* freed is undefined, and not modelled.                                   *)
Calls(t) == ~halted /\ t \in alive \ dangling

(* A new object: the file system's node, and for a device its name. *)
Object(node) ==
  [node |-> node, read_offset |-> 0, write_offset |-> 0,
   device |-> IF IsDevice(node) THEN DeviceOf(node) ELSE Nil]

Opened(t, node) == pobjects' = [pobjects EXCEPT ![t] = DlistAdd(@, Object(node))]

(* Whether open succeeds in directory dir, and the file systems it leaves: *)
(* ramfs_open_node may add a file, devfs_open_node looks the name up.      *)
OpenIn(dir, file, create) ==
  IF dir.fs = Devfs
  THEN [st |-> Lookup(ramfs, dir, <<file>>).st, fs |-> ramfs]
  ELSE LET table == ramfs[dir.fs]
       IN  IF table[dir.inode].type # "dir" THEN [st |-> "error", fs |-> ramfs]
           ELSE IF Entries(table, dir.inode, file) # {} THEN [st |-> "found", fs |-> ramfs]
           ELSE IF ~create THEN [st |-> "error", fs |-> ramfs]
           ELSE [st |-> "found",
                 fs |-> [ramfs EXCEPT ![dir.fs] = AddNode(@, dir.inode, file, Node)]]

(* The directory is looked up, the file opened in it, and then the whole   *)
(* path looked up once more; the result of that is not checked.            *)
VfsOpen(t, path, create) ==
  LET dir == Lookup(ramfs, Start(t, path), path.dirs)
      open == OpenIn(dir.node, path.file, create)
      again == Lookup(open.fs, Start(t, path), Names(path))
      loops == dir.st = "loop" \/ (dir.st = "found" /\ path.file # "" /\ open.st = "loop")
  IN  /\ Calls(t) /\ HasRoom(pobjects[t], 1)
      /\ create => \A f \in DOMAIN ramfs : Cardinality(DOMAIN ramfs[f]) < MaxInode
      /\ \/ loops /\ halted' = TRUE /\ UNCHANGED <<ramfs, pobjects>>
         \/ /\ dir.st = "found" /\ path.file = ""
            /\ Opened(t, dir.node) /\ UNCHANGED <<ramfs, halted>>
         \/ /\ dir.st = "found" /\ path.file # "" /\ open.st = "found"
            /\ ramfs' = open.fs
            /\ Opened(t, IF again.st = "found" THEN again.node ELSE dir.node)
            /\ UNCHANGED halted
      /\ UNCHANGED <<devices, devfs_ready, tasks>>

(* vfs_close: close of ramfs does nothing, devfs has none. *)
VfsClose(t, fd) ==
  /\ Calls(t) /\ pobjects[t][fd] # Nil
  /\ pobjects' = [pobjects EXCEPT ![t][fd] = Nil]
  /\ UNCHANGED <<trees, tasks, halted>>

-----------------------------------------------------------------------------
(* Faulty variant of SheapRealloc: what was in the old object stays there. *)
SheapReallocUncopied(s, size) ==
  IF size <= s.object.block_size THEN s
  ELSE [s EXCEPT !.object = SheapAlloc(size), !.written = {}]

(* sheap_realloc: in place as far as the block goes, else the object is    *)
(* copied to a new one, and what it has behind obj_size is not.            *)
SheapRealloc(s, size) ==
  IF size <= s.object.block_size THEN s
  ELSE [s EXCEPT !.object = SheapAlloc(size),
                 !.written = {p \in @ : p < s.object.obj_size}]

(* dstring_set_char up to its write: where the string grows its length     *)
(* stays behind, and it does not grow for the byte at alloced * BlockSize. *)
Extended(s, pos) ==
  LET alloced == (pos \div BlockSize) + (pos % BlockSize)
  IN  IF pos > s.length /\ pos > s.alloced * BlockSize
      THEN [SheapRealloc(s, alloced * BlockSize) EXCEPT !.alloced = alloced]
      ELSE [s EXCEPT !.length = IF pos > @ THEN pos ELSE @]

(* dstring_set_char; a byte past the object is in somebody else's block.   *)
SetChar(s, pos) ==
  LET new == Extended(s, pos)
  IN  IF pos < new.object.room THEN [new EXCEPT !.written = @ \cup {pos}] ELSE new

Spills(s, pos) == pos >= Extended(s, pos).object.room

InRamfs(t, fd) == pobjects[t][fd] # Nil /\ pobjects[t][fd].node.fs # Devfs

FileOf(t, fd) == LET n == pobjects[t][fd].node IN ramfs[n.fs][n.inode]

(* vfs_write with ramfs_write_node: byte after byte.  A directory is       *)
(* refused, and what a device does with the bytes is its own.  What a byte *)
(* past its object hits may be free, or anything of the kernel's.          *)
VfsWrite(t, fd, n) ==
  /\ Calls(t) /\ InRamfs(t, fd) /\ FileOf(t, fd).type # "dir"
  /\ LET obj == pobjects[t][fd]
         at == [i \in 1..n |-> obj.write_offset + i - 1]
         spills == \E i \in 1..n :
                     Spills(FoldLeft(SetChar, FileOf(t, fd).data, SubSeq(at, 1, i - 1)), at[i])
     IN  /\ obj.write_offset + n <= MaxPos + 1
         /\ ramfs' = [ramfs EXCEPT ![obj.node.fs][obj.node.inode].data = FoldLeft(SetChar, @, at)]
         /\ pobjects' = [pobjects EXCEPT ![t][fd].write_offset = @ + n]
         /\ halted' \in (IF spills THEN BOOLEAN ELSE {FALSE})
  /\ UNCHANGED <<devices, devfs_ready, tasks>>

(* What ramfs_read_node returns: the bytes up to the one at length, that   *)
(* one included.  A directory's entries are taken for a string.            *)
ReadReturns(file, offset, n) ==
  IF file.type = "dir" THEN 0..n
  ELSE LET left == IF offset > file.data.length THEN 0 ELSE file.data.length - offset + 1
       IN  {IF n < left THEN n ELSE left}

VfsRead(t, fd, n) ==
  /\ Calls(t) /\ InRamfs(t, fd)
  /\ \E ret \in ReadReturns(FileOf(t, fd), pobjects[t][fd].read_offset, n) :
       /\ pobjects[t][fd].read_offset + ret <= MaxPos + 1
       /\ pobjects' = [pobjects EXCEPT ![t][fd].read_offset = @ + ret]
  /\ UNCHANGED <<trees, tasks, halted>>

(* Faulty variant of SeekTarget: nothing wraps. *)
SeekTargetSigned(obj, offset, whence, size) ==
  CASE whence = "SET" -> offset
    [] whence = "CUR" -> obj.read_offset + offset
    [] whence = "END" -> size + offset

(* The sums of vfs_lseek are unsigned, and so is their comparison. *)
SeekTarget(obj, offset, whence, size) ==
  CASE whence = "SET" -> offset % Unsigned
    [] whence = "CUR" -> (obj.read_offset + offset) % Unsigned
    [] whence = "END" -> (size + offset) % Unsigned

(* ramfs never sets info.size, and devfs_get_info_node leaves it out. *)
InfoSize == 0

VfsLseek(t, fd, offset, whence) ==
  /\ Calls(t) /\ pobjects[t][fd] # Nil
  /\ LET target == SeekTarget(pobjects[t][fd], offset, whence, InfoSize)
     IN  /\ target <= InfoSize
         /\ pobjects' = [pobjects EXCEPT ![t][fd].read_offset = target,
                                         ![t][fd].write_offset = target]
  /\ UNCHANGED <<trees, tasks, halted>>

-----------------------------------------------------------------------------
(* vfs_chroot and vfs_chdir look the path up into the task's own node, if  *)
(* it has one, and free it when that fails.                                *)
Change(t, path, var) ==
  LET r == Lookup(ramfs, Start(t, path), Names(path))
  IN  /\ Calls(t)
      /\ var' = [var EXCEPT ![t] = IF r.st = "found" THEN r.node ELSE @]
      /\ dangling' = IF r.st = "error" /\ var[t] # Nil THEN dangling \cup {t} ELSE dangling
      /\ halted' = (r.st = "loop")
      /\ UNCHANGED <<trees, pobjects, alive>>

VfsChroot(t, path) == Change(t, path, froot) /\ UNCHANGED curdir
VfsChdir(t, path) == Change(t, path, curdir) /\ UNCHANGED froot

(* init_task copies root, directory and objects, remove_task_by_pid drops  *)
(* them; neither asks the file system.                                     *)
VfsSpawn(t, u, fds) ==
  /\ Calls(t) /\ u \in Task \ alive
  /\ alive' = alive \cup {u}
  /\ froot' = [froot EXCEPT ![u] = froot[t]]
  /\ curdir' = [curdir EXCEPT ![u] = curdir[t]]
  /\ pobjects' = [pobjects EXCEPT ![u] = Inherited(Copied(pobjects[t], fds))]
  /\ UNCHANGED <<trees, dangling, halted>>

VfsExit(t) ==
  /\ ~halted /\ t \in alive
  /\ alive' = alive \ {t} /\ dangling' = dangling \ {t}
  /\ froot' = [froot EXCEPT ![t] = Nil] /\ curdir' = [curdir EXCEPT ![t] = Nil]
  /\ pobjects' = [pobjects EXCEPT ![t] = EmptyTable]
  /\ UNCHANGED <<trees, halted>>

(* Nothing more is modelled, or no task is left. *)
VfsStopped == (halted \/ alive = {}) /\ UNCHANGED vfsVars

VfsNext ==
  \/ InitDevfs
  \/ RegisterDevice
  \/ \E t \in Task :
       \/ \E path \in OpenPath, create \in BOOLEAN : VfsOpen(t, path, create)
       \/ \E path \in ChangePath : VfsChroot(t, path) \/ VfsChdir(t, path)
       \/ \E fd \in Fd :
            \/ VfsClose(t, fd)
            \/ \E n \in Length : VfsWrite(t, fd, n) \/ VfsRead(t, fd, n)
            \/ \E offset \in Offset, whence \in {"SET", "CUR", "END"} :
                 VfsLseek(t, fd, offset, whence)
       \/ \E u \in Task, fds \in FdList : VfsSpawn(t, u, fds)
       \/ VfsExit(t)
  \/ VfsStopped

VfsSpec == VfsInit /\ [][VfsNext]_vfsVars

-----------------------------------------------------------------------------
FileNode == [fs : 0..2, inode : Nat]

VfsTypeOK ==
  /\ \A f \in DOMAIN ramfs : \A i \in DOMAIN ramfs[f] :
       /\ ramfs[f][i].type \in {"dir", "null"}
       /\ ramfs[f][i].mount \in 0..2 \cup {Nil}
       /\ ramfs[f][i].data \in [length : Nat, alloced : Nat, written : SUBSET Nat,
                                 object : [obj_size : Nat, block_size : Nat, room : Int]]
  /\ devices \in [1..Len(devices) -> Range(Device)] /\ devfs_ready \in BOOLEAN
  /\ \A t \in Task, fd \in Fd :
       pobjects[t][fd] \in [node : FileNode, read_offset : Nat, write_offset : Nat,
                            device : Range(Device) \cup {Nil}] \cup {Nil}
  /\ froot \in [Task -> FileNode \cup {Nil}] /\ curdir \in [Task -> FileNode \cup {Nil}]
  /\ alive \subseteq Task /\ dangling \subseteq Task /\ halted \in BOOLEAN

(* However files and directories are added and file systems mounted, each  *)
(* ramfs is a tree: every inode but the root's is named by exactly one     *)
(* entry of one directory, whose inode is smaller; no directory has a name *)
(* twice; and every node that a task holds exists.                         *)
TreeWellFormed ==
  /\ \A f \in DOMAIN ramfs :
       LET table == ramfs[f]
           names == UNION {{<<d, i>> : i \in DOMAIN table[d].dirents} : d \in DOMAIN table}
           inodeOf(e) == table[e[1]].dirents[e[2]].inode
       IN  /\ \A i \in DOMAIN table \ {0} : Cardinality({e \in names : inodeOf(e) = i}) = 1
           /\ \A e \in names : /\ inodeOf(e) \in DOMAIN table
                               /\ e[1] < inodeOf(e) /\ table[e[1]].type = "dir"
           /\ \A d \in DOMAIN table :
                \A i, j \in DOMAIN table[d].dirents :
                  table[d].dirents[i].name = table[d].dirents[j].name => i = j
  /\ \A t \in Task :
       \A node \in ({froot[t], curdir[t]} \ {Nil})
                     \cup {pobjects[t][fd].node : fd \in {f \in Fd : pobjects[t][f] # Nil}} :
         IF node.fs = Devfs THEN IsDevice(node) => node.inode - 127 \in DOMAIN devices
         ELSE node.fs \in DOMAIN ramfs /\ node.inode \in DOMAIN ramfs[node.fs]

(* An open device file goes on leading to the device that it was opened    *)
(* for, though its inode is only a position in the HAL's list and drivers  *)
(* are still registering devices.                                          *)
DeviceStable ==
  \A t \in Task, fd \in Fd :
    pobjects[t][fd] # Nil /\ IsDevice(pobjects[t][fd].node)
      => DeviceOf(pobjects[t][fd].node) = pobjects[t][fd].device

(* Where a string loses bytes as it outgrows the objects of a cache: those *)
(* behind obj_size stay behind in the move, and one at the block's end is  *)
(* written past it (the blocks of 64 bytes: position 64).                  *)
Edge == UNION {c.obj_size..c.block_size : c \in Caches}

(* Whatever tasks write through objects of their own, and however often    *)
(* the string grows and moves, a read of a file returns no byte that       *)
(* nobody wrote (but the zero that ends the empty string), nor one that a  *)
(* move lost: below the length every position holds what was last written  *)
(* there, except for those at an edge.  Not for strings in pages: when one *)
(* of those moves, its contents decide how much of it is copied.           *)
ReadsWritten ==
  \A f \in DOMAIN ramfs : \A i \in DOMAIN ramfs[f] :
    LET s == ramfs[f][i].data
    IN  s.object.block_size > 0 => (0..s.length) \ Edge \subseteq s.written
=============================================================================
