# A TLA+ verification project for the Helix kernel

Helix is a small i586 kernel in C (`src/kernel/base`) with loadable modules
(`src/kernel/modules`) and a few user programs (`src/userland/ports/test_progs`). It runs
on one CPU. What makes it hard to get right is preemption: the timer interrupt
calls the scheduler between almost any two instructions, and the data
structures below it (the task list, the semaphores, the heap's pages and slabs)
are changed step by step in plain C.

All paths below are relative to `src/kernel/` unless they start with `src/`.

## 1. The system and its parts

| Part | State it keeps | Operations | Used by |
|---|---|---|---|
| Tasking (`base/tasking/task.c`, `rrsched.c`, `semaphore.c`) | the task list, `current_task`, `pidcount`, per task its state, deadline, semaphore, number of waiters | `create_thread`, `create_process`, `exit_process`, `waitpid`, `usleep`, `rrschedule_call`, `enter_semaphore`, `leave_semaphore` | everything |
| Timer (`base/arch/i586/pitimer.c`) | the tick counter | `pitimer_stub`, the interrupt handler that calls the scheduler | tasking |
| Interrupt and system call entry (`idt.s`, `isr.c`, `syscalls.c`) | the interrupt flag | gates, `syscall_handler`, `isr_common_stub` | user programs |
| Slab caches (`base/mem/slabnew.c`) | per cache three lists of slabs, counters; per slab a bitmap of blocks | `slab_alloc`, `slab_free`, `slab_cache_add_page_block`, `free_one_cache_page` | the heap |
| Kernel heap (`base/mem/alloc.c`, `salloc.c`, `region.c`) | a bitmap of pages, the place where searches start, a size word in front of every large block | `kmalloc`, `kfree`, `krealloc`, `kmalloca` | everything |
| Paging (`base/arch/i586/paging.c`, `base/mem/memmap.c`) | a bitmap of frames, page directories, memory maps | `map_page`, `free_page`, `page_fault_handler` | heap, tasking |
| Data structures (`base/datastructs`) | lists, growing arrays (`dlist`), hash maps, strings, ring buffers (`pipe`), reference counted boxes (`shared`) | | VFS, IPC, drivers |
| IPC pipes (`base/ipc/pipes.c`) | a ring, numbers of readers and writers, a semaphore, references | create, copy, open, close, read, write | user programs |
| VFS (`base/vfs`) and ramfs | mounts, per task root, directory and open objects | open, read, write, close, chdir, chroot, mount, readdir | user programs |
| Process objects, ELF loading | per task object table | copy, close, load | tasking, VFS |
| Module loader (`base/module.c`) | module list, symbol caches | load, link, resolve dependencies | boot |
| Boot archive (`base/initrd.c`) | the table of a tar archive's headers | `init_initrd`, lookup by name | module loader |
| HAL and devfs (`modules/hal`, `modules/devfs`) | the list of devices; device files are positions in it | register, lookup, read, write | drivers, VFS |
| FAT (`modules/fatfs`) | the cache of directory entries by inode, with counts | lookup, open, read, close, get_info | VFS |
| Keyboard (`modules/ps2keybd`) | a ring, a semaphore, modifiers, the keymap in use | the interrupt handler, `kbd_hal_read` | devfs |
| Disks (`modules/ata`, `modules/parts`, `modules/pci`) | the drives of a controller, partitions | probe, read and write sectors | devfs |

How they interact: a system call enters through an interrupt gate, so with
interrupts off, and stays so until the first reschedule: every switch to a task
enables interrupts, also in the middle of a system call that called the
scheduler (a blocked read, a taken semaphore, `waitpid`). From there on the
timer may preempt it anywhere. `block_tasks` only clears the interrupt flag,
and anything that reschedules inside a blocked section undoes it. The heap is
guarded by one counting semaphore, `heap_semaphore`, which every `kmalloc` and
`kfree` takes; pipes and drivers have semaphores of their own. `waitpid` and
`remove_task_by_pid` communicate through two fields of the target's structure.

The hard behaviours are listed as hazards in `PROJECT.json`, each at its line,
and decide what the properties below are about: the scheduler's loop has no
exit of its own; a task frees the structure that it runs on; semaphores test,
load and store in separate steps; the deadline, the state and the reschedule of
`usleep` are separate steps; creators share `++pidcount` and the list's tail; a
dying task hands its status over in one reschedule; a slab moves between three
lists from any position and its page may be given back; the region's search
counts bytes against a bound in pages; large blocks are rounded to pages and
freed page by page; a frame is found in one step and marked in another; a
reader looks into a pipe in one step and at its writers in another; the keyboard's
interrupt comes between the load and the store of a counter it changes too; an
inode is a position in a list that grows, or a sector that two entries may share;
an index counts the drives that were found and is used as if it counted slots.

## 2. Modules

| Module | Models | Kind |
|---|---|---|
| `Tasking` | task list, scheduler, timer, semaphores, `usleep`, `waitpid`, exit, kill, creation | component |
| `MCTasking` | instances of `Tasking`: which task uses which service | TLC |
| `TaskingProofs` | its inductive invariants and six safety theorems | TLAPS |
| `BlockAllocator` | what `slab_alloc` and `slab_free` promise | abstract specification |
| `Slab` | one slab cache | component |
| `MCSlab`, `SlabProofs` | its instance; its invariants, lists and counters, and the refinement of `BlockAllocator` | TLC, TLAPS |
| `Heap` | the bitmap region and its three users | component |
| `MCHeap`, `HeapProofs` | its instance; its invariant | TLC, TLAPS |
| `Ring` | the ring buffer of `pipe.c`, as operators on a record | data structure |
| `LossyQueue` | what a pipe promises its readers | abstract specification |
| `Dlist` | a task's table of objects, and how `init_task` fills it | data structure |
| `Pipes` | the ends of pipes in the tables, `shared`, blocked reads | component, on `Ring` and `Dlist` |
| `Keyboard` | the interrupt handler against a reader | component, on `Ring` |
| `MCIpc`, `PipesProofs` | an instance of `Pipes`; its invariant and the refinement of `LossyQueue` | TLC, TLAPS |
| `KeyboardProofs` | the invariant of `Keyboard`, on the ring's lemmas of `PipesProofs` | TLAPS |
| `Vfs` | lookup, mounts, ramfs, devfs and HAL, open files | component, on `Dlist` |
| `FatFs` | FAT12, 16 and 32 below the VFS | component, on `Vfs` |
| `MCFiles` | instances of `Vfs` and `FatFs` | TLC |
| `FilesProofs` | the invariants of `Vfs` and `FatFs`, the reads of FAT | TLAPS |
| `Paging` | frames, directories, program loading, page faults, `sbrk` | component |
| `Loader` | the boot archive and the module loader | component |
| `Disk` | IDE drives and partitions | component |
| `MCImages` | instances of `Paging`, `Loader`, `Disk` and `Keyboard` | TLC |
| `ImagesProofs` | the invariants of `Paging`, `Loader` and `Disk`, writable pages | TLAPS |
| `FoldTheorems` | what a left fold over a sequence computes, for any length | TLAPS |

### Tasking

A step is what the CPU does between two accesses to shared memory, and only
`current` takes steps; `Timer` may come between any two of them while `intr`
holds. Program counters (`pc`) follow the C functions: `wait_*`, `dec_*`, `inc_*`
are `semaphore_wait`, `enter_semaphore` and `leave_semaphore`; `sleep_*`
`usleep`; `wp_*` `waitpid`; `ex_*` `remove_task_by_pid`; `c_*` the creation of a
task. `arg`, `ret`, `tmp`, `node` and `tail` are the local variables of the
function a task is in. `x++` and `x--` are a load and a store wherever interrupts
can be on: the kernel is compiled without optimisation, and the variables are
shared.

- `Switch` is `rrschedule_call`: the loop's test is `Eligible`, the node of its
  d-th round is `Walk(d)`. A task that has unlinked itself is no longer in
  `list`; the next pointer of its node still leads into it (`gap`), and from the
  end of the list the loop goes back to the head.
- `sem[NullSem]` is what a null `sem` pointer reads: the scheduler dereferences
  it when the timer comes between the two stores of `semaphore_wait` the first
  time. The value is any, fixed at the start.
- `PageFaultKill` models `*current->sem++` as C reads it: the pointer moves, the
  semaphore's value does not.
- Every `kmalloc` and `kfree` of creation and removal enters the heap's
  semaphore (`EnterCall`); the several calls of `init_task` and `add_task`, and
  those at the end of `remove_task_by_pid`, are one each. With the heap free they
  run in one stretch without interrupts, so nothing can come in between; with the
  heap taken, the first one already reschedules.
- Task structures are numbered as they are allocated. A freed structure keeps
  its contents: reuse of its memory would only add to what a stale pointer reads,
  and the properties are about the pointers, not about what they read.
- After `panic`, or when `list_remove_node` is handed a node that is no longer
  linked, the machine stops: nothing is claimed from there on.
- The tick stays below its 32 bits (49 days at 1000 Hz): the wrap is listed as a
  hazard and not modelled. `usleep` is given its length in ticks.

Left out: registers, page directories, `sbrk`, process groups, the contents of
the new task's stack, and `kill` of another task (there is no such call).

### Slab

One action per branch of `slab_alloc` and `slab_free`. A call that changes the
lists twice takes two steps (`op` says where it is in between): `slab_alloc` grows
and tries again (`AllocGrow`), `slab_free` moves the slab and then trims (`Trim`).
`MoveBlock` translates `slab_cache_move_block` link by link. `Grow` takes any run
of pages from the region or none. Blocks in the callers' hands are `live`;
`outstanding` counts them without looking at which they are. Callers free what
they were given: `slab_free` does not test its argument, and freeing a block twice
is the caller's fault. The model takes one call at a time, as a semaphore that
keeps its promise would (but see finding 2). `delete_slab_cache` has no callers.

### Heap

Every operation is one step. `bitmap` is the set of pages whose bit is set,
`extra_data` the byte where searches start. `SearchEnds` says in which byte the
search of `bitmap_region_alloc_page` ends: a byte that is not full and, for more
than one page, one whose first clear bit starts a long enough run. `FreePage`
lowers `extra_data` by the page's position within its byte, as the code does. The
loop's bound is the number of pages and its counter counts bytes, so a search that
finds nothing reads past the bitmap: `Overrun`, after which nothing is claimed.
The bitmap comes from `kmalloc_early` and is not cleared, so it starts with any
contents. Slab caches appear as takers and givers of pages. Sizes are counted in
words of four bytes, the size of a large block's header. `SheapRealloc` gives a
new block and leaves the old one marked, as the code does. `kfreea` has no callers.

### Ring, Dlist, Pipes

`Ring` has one operator per function of `pipe.c`: `Put` is the body of
`pipe_write`'s loop, `BytesRead` and `AfterRead` what `pipeline_read` copies and
leaves. `writep` only grows, and wraps at `Wrap`; that `Wrap` is a multiple of
`Size` (2^32 of 256) is an assumption that the refinement needs. `Dlist` is the
table of a task: `dlist_add` takes the first empty entry, `Copied` and
`Inherited` are the loop of `init_task` over the descriptors that `spawn` was
given (or 0, 1 and 2) with `pobj_copy`.

In `Pipes` a task's call is one step, because it runs with interrupts off. The
exception is a read that found the pipe empty: after its first reschedule
interrupts are on, and `pipe_vfs_read` looks into the ring inside `pipe->sem`
(`ReadAgain`) and at `temp->writers` outside (`TestWriters`). That semaphore is
taken to keep its promise: finding 2 says when it does not. `readers`, `writers`
and `references` are the counters of `pipe_obj_ctor`, `pipe_obj_dtor` and
`shared_*`. `got` and `eof` record what reads returned.

### Keyboard

The handler runs with interrupts off, so it is one step. The reader's steps are
its loads and stores of `readp`, `avail` and `keybd_sem`, with `intr` off from the
gate until `vfs_read` first reschedules. There is one reader. The prefix 0xe0
indexes past the keymap; what it finds there is any set of bits to clear.
`overflowed` says that a byte was typed into a full ring. It looks at `avail` and at
the number of bytes that nobody has read: each store of an old `avail` by the reader
can forget a byte, so after two of them the ring can hold more unread bytes than it
has room for while `avail` is below its limit. (The first version looked at `avail`
alone, and `TypedInOrder` held in the run only because no more than three bytes were
typed; the proof did not go through, and showed why.)

### Vfs

Each system call of `vfs_syscalls.c` on files is one action, with the file
system's part in it: `vfs_open` looks up the directory, opens (and in a ramfs may
create) the file in it and looks the whole path up again, without checking.
`Lookup` is `file_lookup_relative` over `RamfsLookup` and `DevfsLookup`. The
sums of `vfs_lseek` are unsigned (`% Unsigned`). Modules register devices and mount devfs at any time meanwhile.

Of a file's string the model keeps `length` and `alloced`, the block it lives in
(`object`: the cache's `obj_size` and `block_size`, and the room there is), and
`written`, the positions that are certain to hold what was last written there.
`SetChar` is the whole of `dstring_set_char`: it does not grow for the byte at
`alloced * block_size`, it grows without moving `length`, and `krealloc`
(`SheapRealloc`) keeps the string in place up to `block_size`, but copies only
`obj_size` bytes when it moves it. A byte past the block is lost (`Spills`), and what
it hits is open: nothing that matters, or the system stops (`halted`). From
`max_size` on a string lives in pages; when it moves on from there, the first four
bytes of its *contents* say how much is copied (`mapped_alloc_size` reads behind the
length word), so nothing is certain any more.

`dangling` are the tasks whose root or directory a failed `chroot` or `chdir`
freed; `halted` also stands for a lookup through a device file, which never ends.
From there on nothing is claimed of the task, or of the system. `mkdir` and `mount`
have no system calls of their own here: boot code and modules call them.

### FatFs

A byte is known by its address on the device. `TrueSect`, `TableEntry` and
`TableByte` say what the FAT format puts where, byte by byte; `RelclusToSect`,
`NextCluster` and `ReadStep` are what the code makes of it, an entry of the table
in the middle of a byte, or across the end of the buffer (`garbage`), included.
`inode_map` has the nodes of the hash map that is the cache of directory entries,
with their counts, and `buckets` the heads of its lists. `hashmap_remove` frees a
node and leaves the `base` and `last` of its bucket as they are (`list_remove_node`
gets no head), so after the last close of a file they may point to freed memory:
`hashmap_get`, which begins at `base`, and `hashmap_add`, which goes on from `last`,
are undefined then (`GetDefined`, `AddDefined`), and no call of the model goes
through such a bucket. `removed` remembers which inodes were removed.
Names are the set of names an entry answers to. Files have the archive attribute, and clusters are
below 2^16. `Dirents` holds directories of one cluster, and no `readdir`.

### Paging

`mem` has the frame bitmap, `last_free_page`, the page tables and which directory has
which of them: `clone_page_dir` shares the kernel's. All functions of `paging.c` are
operators on it, and the actions their callers: the heap's region, `elfload_from_mem`
with `create_process`, the page fault handler, `sbrk`, exit. A kernel thread's
`map_page` is two steps (`KernelSearch`, `KernelEnter`), since interrupts are on; a
system call's is one. If a frame that was found is taken before it is marked, `stale`
says so, and nothing is claimed afterwards. Memory does not run out (`Room`):
`get_free_page` has no bound and would leave the bitmap. New tables are taken to be
zero. `KernelPages` and `ProgramPages` name the pages that the two sides use, for the
assumption about the layout.

### Loader

`init_initrd` walks the archive from header to header (`Advance`), and
`load_module` is one action for each line of the table: the object is copied, its
dependencies looked up, its relocations linked one after the other (`LinkSymbol`
fills the symbol caches as it goes), and it is added to the list and to the links
of its dependencies, or refused at the point where the code gives up. The
double free on that path is a hazard that is not modelled.

### Disk

The four slots of a controller are probed in turn (`ProbeNext`), then partition
tables are read through the drivers just registered (`CheckForParts`). `Access`
says which sectors a transfer goes to: the index, the check of the end and the
registers (`Lba`) are the code's, with the number of sectors in a byte and the
head bits missing. `HalWrite` has the arguments as the code passes them, number
and offset swapped and the channel left out. Register I/O below that and PCI are
not modelled.

## 3. Runs

| Run | Properties | Result |
|---|---|---|
| `tasking_quiet` | `TypeOK`, `SchedulerFindsTask`, `FreedNeverRuns`, `UsleepNotEarly`, `UniquePids`, `NoLostTask` | pass |
| `tasking_contended` | `SchedulerFindsTask`, `FreedNeverRuns` | pass |
| `tasking_live` | `ReadyRuns`, `SleeperWakes`, `DyingFreed` | pass |
| `waitpid_status` | `ExitStatusDelivered` | violated, finding 1 |
| `semaphore_exclusion` | `SemaphoreExclusion` | violated, finding 2 |
| `slab` | `TypeOK`, `LiveOwned`, `StatusAgrees`, `ListsWellFormed`, `CountsAgree`, `ImplementsAllocator` | pass |
| `heap` | `TypeOK`, `OwnersDisjoint`, `OwnedMapped` | pass |
| `ipc` | `PipesTypeOK`, `EndsCounted`, `EofFinal`, `ImplementsQueue`, `ReaderReturns` | pass |
| `files` | `VfsTypeOK`, `TreeWellFormed`, `DeviceStable`, `ReadsWritten`; `OpenFileCached`, `FatReadCorrect` | pass |
| `images` | `FrameOwnedOnce`, `FreeFrameFound`, `WritableKept`; `ModulesWellFormed`, `SymbolsRight`, `ArchiveListed`; `DiskReadRight`; `TypedInOrder`, `KeymapAgrees` | pass |
| `heap_fits` | `LargeFits` | violated, finding 3 |
| `heap_free` | `FreeUnmapsBlock` | violated, finding 4 |

**tasking_quiet** (about 700,000 states). The kernel's main thread creates tasks
and sleeps, a process creates, waits and exits, another faults or exits, and two
more tasks come into being, so two creators, a waiter and a dying task meet in
every order. No task uses the heap for anything else ("quiet"): the sections that
`block_tasks` protects are then never left by a reschedule, which is what
`UniquePids` and `NoLostTask` need. One tick is enough for a deadline to lie ahead
and to pass; the order of deadlines does not matter to a single sleeper.

**tasking_contended** (about 19,000 states). A task is preempted inside the heap's
semaphore and may be killed there by a page fault, while another creates a task
and the main thread may panic. The creation and the removal then do reschedule in
the middle, and the task list can lose members; still the scheduler always finds
a task and never switches to freed memory. Ticks are not needed (`MaxTick = 0`
lets the timer interrupt without counting).

**tasking_live** (about 5,000 states). Under `FairSpec`: round robin comes to every
ready task, a sleeper wakes, and a task that has begun to exit is freed although
another waits for it. Two ticks, so that a nap of one tick can be started after
the first.

**slab** (about 150,000 states). Four pages asked for two at a time, pages of four
blocks (three plus the header), one free page kept: slabs are moved from the
head, the middle and the end of each list, the region runs out, pages are given
back and taken again.

**heap** (about 180,000 states). Three bytes of two bits, pages of four words,
blocks of one, two and three pages, every initial bitmap. Runs cross bytes, the
search skips runs that are too short, and its start is lowered wrongly.

**files** and **images** each check components that share code and no
state, side by side: the variable `part` is chosen at the start and says which of
them moves, and the others keep their initial values. A run then explores the sum
of the components' states, not the product.

**ipc** (about 320,000 states). Two tasks and one pipe in a ring of three bytes
whose position wraps at six; three descriptors, passed on as they are or swapped;
messages of one byte and of more than fit. `EndsCounted`: however ends are copied
by spawn, closed and dropped at exit, the counters are the numbers of open ends,
and the pipe is freed with the last. `EofFinal`: 0 is returned only when no writing
end is left, also when the test comes long after the look into the ring; bytes that
were written in between stay unread. `ImplementsQueue`: the ring refines
`LossyQueue`. `ReaderReturns`: a blocked read returns once its last writer is gone
and does not wait in front of bytes.

**files** (about 790,000 states). The part `trees` (540,000): two tasks with a
descriptor each (filling a table is checked in `ipc`), files of at most two bytes in a
ramfs and devices, paths with and without a slash at either end and one through a device, while modules register devices and mount
devfs. Two inodes can be created.

The part `strings` (190,000): two tasks write to one file, three bytes at a time
and each at its own offset, up to position 17. Slab objects have 4, 8 and 16 bytes, the
blocks of the second cache are two bytes longer than its objects, as where a page does
not divide evenly, and 16 bytes go into pages. So the string moves through all caches,
the byte at `alloced * block_size` is written past its block, those behind `obj_size` do
not come along, a writer that is behind writes them again, and pages are reached.
`ReadsWritten`: while the string is in a slab block, every position up to `length` holds
what was last written there, but for those at an `Edge`. In the kernel's caches the edge
is the byte at the end of a block: a file that is written byte after byte loses the
byte at 64, for one. Below `length` it is then what the heap had there.

The part `fat` (60,000): two tasks (in FAT32 one), and a cache of two buckets.
A file of two and a half clusters whose chain goes forward and back over sectors of
the table, one that fills its last cluster, an empty one, and a directory that is
opened by `sub/../`. A last close takes the first node of a bucket while the file behind
it is open, or the last one before another file is added. FAT32 has the same cache with
other inodes, and a task alone reads the same files in it.
`OpenFileCached` excepts inodes of which an object was closed that open had not
counted (`overclosed`); and that a get reaches the entry it claims only while no node
of its bucket was removed: after that the code can lose an open file of the same
bucket, whose next read fails, or which the next open of it does not find in the cache
it was just added to (`fatfs_vfs_open` uses the null pointer it gets).
`FatReadCorrect` compares with the format: the last byte of
the last cluster may be missing (the loop does not count it), and files with a
cluster that the code does not find (`Followed`) are excepted: cluster 2, which is
taken for the root directory; an entry of the table across the end of the buffer; and,
outside the run's constants, clusters of several sectors with an entry beyond the first
buffer, and FAT32 with a root directory that is not on cluster 2 (section 4 says why).

**images** (about 160,000 states). Paging: sixteen frames, two to a byte, tables of
four pages, two processes with a read-only and a writable segment, a heap of two
pages, faults inside and outside the maps. Loader: every table of up to four lines
over six objects (with dependencies, a symbol of the same name in two modules, two
names with one hash, a missing symbol, no `init`, no ELF), and archives with files of
every remainder. `ArchiveListed` holds up to a file whose size is one more than a
multiple of the block, `SymbolsRight` for names that share their hash with no
other. Disk: each of the 81 ways to fill four slots; disks and partitions at both
sides of the address limits. `DiskReadRight` is claimed for disks with no empty slot
before them: with one, the read goes to another drive or to none. Keyboard: three
bytes are typed into the ring of two, with all modifiers: a lost update of `avail` can
hide a byte from the reader until more is typed, but never reorders or repeats one.

The violation runs use the smallest instance in which the behaviour happens.

The bounds are the sets of tasks, pipes, processes and paths; `MaxFd`, `MaxTyped`,
`MaxInode`, `MaxPos`, `MaxReferences`, `MaxBrk`; `MaxTask`, `MaxTick`, `NPages` (or
`NBytes` and `ByteBits`), and `MaxDrift`, which stops a semaphore from being entered
again once lost updates have driven it out of 0..1 by more than that. They bound TLC
only: the theorems of section 4 hold for all of them.

**Deadlock** is checked in every run. The models stop on purpose, by stuttering,
after `panic` (`Halted`), after a search has left the bitmap (`Lost`), when a lookup
never ends, a byte past a block did harm, or no task is left (`VfsStopped`,
`FatStopped`), when all processes have
ended or a frame has two owners (`PagingStopped`), at the end of the module table
(`LoaderDone`) and without any disk (`DiskStopped`).

**Fairness.** `SF(Timer)`: the interrupt controller holds a tick that comes while
interrupts are off and delivers it once they are on, so the timer comes if
interrupts are enabled again and again. `SF` of the steps of each task's kernel
code: a tick (a millisecond) is long enough for a task to execute the few
instructions between two shared accesses, so a task that gets the CPU again and
again makes progress. User code is under no fairness: a program need not call the
kernel, nor exit. `PipesFairness` is weak fairness of the two steps of a blocked
read: the task stays ready while it polls, and `ReadyRuns` of Tasking is that a
ready task is run.

## 4. What is proved

All theorems hold for every value of the constants that satisfies the named assumptions.
`TaskingAssumption`, `SlabAssumption` and `HeapAssumption` only give the constants their
types and say that there is at least the idle task, room for two blocks beside a header,
and a page has some words. `RingAssumption` adds that the wrap of `writep` is a multiple
of the size, `PipesAssumption` that a table has room for the three descriptors of a new
task, `PagingAssumption` that memory is larger than what boot maps, `LoaderAssumption`
that the object files are well-formed (their relocations name symbols of the table, and
the kernel depends on nothing). `VfsAssumption` has the names of paths, devices and
directories be strings, and the directories that boot code makes be distinct and
`somedir` one of them (`ramfs_mkdir_node` does not look whether a name is taken);
`CachesAssumption` has blocks be no shorter than their objects and a cache fit each size
below `max_size` (as `sheap_init_at_addr` makes them);
`FatAssumption` adds the same of paths and the positive sizes of sectors, clusters and the hash map.
`TableAssumption` and `DirentsAssumption` are a well-formed file system: the successor
of a cluster is a cluster of the table, cluster numbers are below the marks of the
type's end and below 2^16, a file with contents has a chain long enough for them, and
entries with one first cluster have one size. `LayoutAssumption` is what `elfload_from_mem` and `sbrk` take for granted about
addresses (the TODO at `base/tasking/elfload.c:44` says that nothing checks them):
programs are linked below the kernel's stacks, and no page table has pages of a program
or of its heap together with pages of the kernel; and the stacks are neither in the
kernel's heap nor where modules are put. `EndAssumption`, `NoNilAssumption` and
the like say that the null pointer is no object. TLC evaluates all of them in the runs.

**Tasking** (`TaskingProofs`): `TypeCorrect`, `SchedulerTerminates` (the loop of
`rrschedule_call` always comes to an eligible task) and `FreedSafe` (no switch goes
to a freed structure), whatever the tasks call and however the heap is contended.
None of them is inductive. That the loop ends rests on the idle task: it is linked,
RUNNING and in its loop for ever. For that no removal may hit it, so no other task
may have its pid (`IdleInv`: pids of the others are at least 2, which needs
`pidcount >= 1` and the creators' loaded copies of it); no creation may cut it off
the list (`CreateLink` keeps only what is before the tail that was found, so
`CreateInv` says that this tail is never the main thread); and a structure under
construction is in the hands of one creator and unknown to everyone else.
`FreedNeverRuns` needs that what a remover is about to free is no longer linked
(`RemoveInv`), across the wait for the heap's semaphore in between, hence `At`,
which looks through a semaphore call to the label it returns to. `IInv` is the
conjunction of `TypeOK`, `ListInv`, `IdleInv`, `CreateInv`, `RemoveInv` and
`CallInv`; there is one lemma per action.

**Slab** (`SlabProofs`): `Refinement` (the cache implements `BlockAllocator`),
`TrimSafe`, `StatusCorrect`, `TypeCorrect`. The argument: `LinkInv` says that
neighbours point at each other, share a status, and that only a head has no newer
neighbour; this local form of well-formedness is what `MoveBlock` preserves
(`MoveLinks`, `Reclassify`), whatever the position. With `MarkInv` (the bits are the
header's and those of live blocks) and `StatusAgrees`, the head of the partial list
has a clear bit inside the page and the head of the free list has only its header's,
so what is handed out is free and what is trimmed is empty.

**Heap** (`HeapProofs`): `Disjointness`, `Mapping`, `TypeCorrect`. `HeapInv` is
`TypeOK`, `OwnersDisjoint` and `OwnedMapped`: a page in somebody's hands has its bit
set, so a search, which ends only at clear bits, never finds it, wherever it starts.
`MinFacts` and `LargePagesFacts` give what the arithmetic needs.

**Tasking with a quiet heap** (`PidsUnique`, `TasksNeverLost`, `NeverEarly`). These
three have the hypothesis `QuietHeap`: no task uses the heap beside creation and
removal. Without it they are false, which is the hazard at `task.c:126`: a `kmalloc`
that waits inside `block_tasks` turns interrupts back on. `QuietInv` says what
`block_tasks` then achieves: `BlockInv` (only the current task is between
`block_tasks` and `unblock_tasks`, interrupts are off there and the heap's semaphore
is free, so the copies of `pidcount` and of the list's tail that it holds are
current), `PidInv` (a pid is given once and is at most `pidcount`), `LinkedInv` (a task
removes only itself, and is linked until it does) and `SleepInv` (between the stores of
`usleep` and its return the task is SLEEPING, or its deadline has passed).

**Slab lists** (`ListsCorrect`, `CountsCorrect`). `ListsWellFormed` follows the pointers
from a list's head. That this ends needs that there is no cycle, which `LinkInv` cannot
say: `Acyclic` gives every page a rank that falls along every `last` pointer, and
`MoveBlock` and the growth of the cache have the new head's rank above all others. A
chain that did not end within `NPages` steps would have more ranks than pages
(`FS_PigeonHole`); a slab that is not on its list's chain would have an endless chain of
newer ones.

**Pipes** (`PipesProofs`). `RingInv`: `readp + avail` and `writep` agree modulo `Size`,
also after `writep` has wrapped, and the bytes in between are bytes that were written.
From it one `Put` is an append that drops the oldest byte when the ring is full, and a
`Write` of any length is so many of them (`FoldRun`); `PipesImplementQueue` follows.
`EndsCounted` is inductive with `EndsKnown` (open ends are of pipes that were made, a
waiting read has its end open); its lemmas count the entries that `Copied`, `Close` and
`Exit` add and take away. `EofFinal` follows from the counters: a pipe without writers
stays so, since only an open end can be copied.

**Keyboard** (`KeyboardProofs`). `avail` is not the number of unread bytes, so `RingInv`
does not hold. `InOrder` says instead that it is never more than that number, for every
label of the reader how far `readp` and `avail` are behind what it has copied
(`ReadpBehind`, `AvailBehind`), and that the newest `Size` bytes typed are in the buffer.

**Paging, Loader, Disk** (`ImagesProofs`). `MemInv`: directories name tables, an entry's
frame is marked and in no other entry, no unmarked frame is before `last_free_page`, and
`nfree_pages` counts them. Every operator on `mem` keeps it, `MapPages` over any number
of pages by induction, provided a frame is free, which is what `Room` says. For the
loader, `ListOk` holds of the list also while a module is being linked: the caches of
modules hold addresses of symbols that these modules define, and filling one changes
nothing else. `ArchiveListed` needs an induction over the files: up to the first bad
size the position is that of a header. For disks, `Placed` says which slot
the n-th drive found is in.

**Writable pages** (`WritableAlwaysKept`, an action property). That a mapping never
lands on a page that is in use does not follow from `MemInv`. `LayoutInv` adds that a
page table is at one index of the directories that have it, that the tables a process
shares with the kernel are those with kernel pages, that the stacks of pids which are
still to be given are not mapped, and that the page which a kernel thread is about to
enter is not. `Keeps` says what a sequence of mappings leaves alone, and is shown for
`map_page`, `map_pages` and `remap_pages` by induction over the pages; a step then keeps
what can be written (`WritesKept`) if what it maps was not mapped, or not for writing.
Only `free_page` of the heap's region takes writable pages away, and these are the
heap's.

**Vfs** (`FilesProofs`). `VfsInv` has every ramfs be a tree of `n` nodes: the one entry
of each inode is in a directory with a smaller inode, which `TreeWellFormed` does not
say and which excludes cycles. A string in a block fits it as far as it is allocated
(`InBlock`), one in pages is as long as a string must be to get there (`InPages`).
`Certain` are the positions of a string of which nothing has to be shown (in pages,
or at an edge) or that were written, and up to what is allocated: `Sound` says that all
up to `length` are, and `ObjectOk` the same of what is before the `write_offset` of an
open file, so that a write at an offset leaves no hole even if another writer has moved
the `length`. `SheapReallocOk` and `ExtendedOk` show that a move takes nothing out of
`Certain`. And the list of devices is only
appended to, so that a node's position in it stays good. A lookup over a path of any
length (`FoldRun`) ends in a node of these trees, an error or the loop of devfs. The
initial state is a proof of its own: `init_vfs` makes directories for any sequence of
names, and mounts the second ramfs.

**FatFs** (`FilesProofs`). `FatInv` compares the count of each cached entry with `Due`, the
number of counted objects of its inode (and one for the root). Only running tasks have
objects and these are finitely many, so `Due` is a number; each action adds at most
the object it counts, and a close takes one away with its count, so an entry leaves the
cache only when nothing is due. Reads, seeks and `vfs_spawn` move an offset, and the
copies that a new task gets are not counted. Lookups add entries and change no count.
`HeadsOk` says of the hash map that the `base` of a bucket is a node of that bucket that
is there or was removed, whatever is added behind it: so a get is defined until a node
of the bucket is removed, and no later than that.

**FAT reads** (`ReadsAlwaysCorrect`). `NextOfChain`: for a cluster that is followed, and
each of the three types, the two bytes that the code takes out of the buffer are the
entry that `TableByte` put on the device, also in FAT12 where it begins in the middle of
a byte. `SkipRight` and `LoopStepRight` follow the chain: `LoopAt` says after m turns of
the loop of `fatfs_vfs_read` which cluster of the chain it is on, and that the m bytes
behind are the file's from the offset on, until the end of the chain leaves it one byte
short. That the file is the right one is `FatReadInv`: the objects and the cache have,
for one inode, entries of one file. `OneInode` is the reason: the sector of a cluster
that is followed is that of no other cluster. The invariant needs `FatInv` only for its
types.

The proof changed the property. As it was first stated, with cluster 2 and entries
across the end of a buffer excepted, it held in the run and was false for other
constants: `fatfs_get_next_cluster_fat12` and its siblings
(`modules/fatfs/clusters.c:102`) divide an offset in the table by the size of a
*cluster* and take the quotient for a number of *sectors*, so that with several sectors
in a cluster every entry beyond the first buffer is read in the wrong place; and
`fatfs_relclus_to_sect_fat32` (`clusters.c:15`) subtracts the root's cluster where the
format has 2, while `fatfs_create` places the root directory by 2, so that a FAT32 whose
root is elsewhere is read from wrong sectors. Both are exceptions in `Followed` now.

**Induction.** The library's induction theorems take an operator and cannot be
used with the provers at hand. What is used instead is induction for a *set* of
numbers (`SetInduction`, from the well-ordering of the naturals): it is a statement about
a bound variable, not about an operator, and with it `FoldTheorems` gives, for a left
fold over a sequence of any length, the sequence of its intermediate values
(`FoldRun`) and that what every step keeps holds at the end (`FoldInvariant`).

**Only model-checked.** Liveness (`ReadyRuns`, `SleeperWakes`, `DyingFreed`,
`ReaderReturns`): there is no proof support for fairness here. All other properties of the
passing runs have a theorem.

## 5. Findings

1. **The exit status may not be seen** (`waitpid_status`). The message at
   `base/tasking/task.c:401` announces that the waiters get to fetch the status,
   in one reschedule,
   but the scheduler sets the dying task RUNNING when it picks it
   (`rrsched.c:52`). A waiter that registers late finds it RUNNING and goes on
   waiting for a structure that is then freed.
2. **A semaphore of 1 admits two** (`semaphore_exclusion`). `enter_semaphore` tests
   and decrements in separate steps, and a woken waiter does not test again. In a
   call that has rescheduled before, and so runs with interrupts on, two tasks get
   in.
3. **Large blocks of whole pages are too short** (`heap_fits`). The number of pages
   adds the length word to the quotient but not to the remainder.
4. **Only the first page of a large block is unmapped** (`heap_free`). The loop
   never advances its pointer.

Findings 3 and 4 do not break `OwnersDisjoint` and `OwnedMapped`, which are about
whose pages are whose: a page that stays behind is marked for ever.

## 6. Plan

Done: all components that the table above names, and the theorems of section 4, which
state every safety and action property of the passing runs. What is left is outside the
provers' reach: liveness stays with TLC.

## 7. Not modelled

- PCI and the register protocol of a disk transfer, display drivers: port I/O and
  output.
- Boot code, the command line, interrupt tables: sequential, before the first
  interrupt.
- Logging and string helpers; the lists and hash maps of `base/datastructs` appear as
  sequences and functions in the modules that use them, with the heads of the buckets
  where nodes are removed (`FatFs`; nothing is removed from the maps of `Loader`).
- `readdir` of the file systems (formatting of entries), procfs, cpplib and the
  example modules, the lists of drivers and mounts, which are only appended to.
- User programs: they appear as callers. The `.old` files are not built.
- What follows undefined behaviour: a freed root or directory node, a double free in
  `load_module`, a frame with two owners, memory that has run out, a list of the hash
  map that begins or ends in a freed node, what a byte past a string's block hits, and
  what a move of a string out of pages copies or, past their end, faults on.
