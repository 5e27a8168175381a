-------------------------------- MODULE Paging --------------------------------
(***************************************************************************)
(* Page frames, page tables and processes' memory: paging.c, memmap.c, the *)
(* loading of a program (elfload.c) and what tasks ask of it (sbrk, exit). *)
(*                                                                         *)
(* System calls and page faults run with interrupts off and are one step;  *)
(* the kernel's own threads can be interrupted inside map_page, between    *)
(* the search for a frame and its first write.  The heap region maps and   *)
(* frees its pages under heap_semaphore.                                   *)
(*                                                                         *)
(* Page tables come from kmalloc_early, which never runs out here, and are *)
(* taken to be zero.  An address is a number of bytes, a page of PageSize. *)
(***************************************************************************)
EXTENDS Integers, Sequences, FiniteSets, SequencesExt

CONSTANTS
  NFrames,        \* npages
  FramesPerByte,  \* of page_bitmap (8)
  BootFrames,     \* mapped one to one by init_paging
  PageSize, PagesPerTable,
  Process, Image, \* a program: a sequence of segments
  HeapPage, ModulePage,  \* kernel addresses: the heap region's, the modules'
  StackBase, UserHeap,   \* 0xa1000000 and 0xb0000000, as pages
  Address,        \* where programs fault
  Increment, MaxBrk,     \* of sbrk, and a bound on the address it reaches
  Nil

Kernel == "kernel"   \* as a page directory

ASSUME PagingAssumption ==
  /\ {NFrames, BootFrames, StackBase, UserHeap, MaxBrk} \subseteq Nat
  /\ {FramesPerByte, PageSize, PagesPerTable} \subseteq Nat \ {0}
  /\ HeapPage \cup ModulePage \cup Address \subseteq Nat /\ Increment \subseteq Nat
  /\ Image \subseteq Seq([vaddr : Nat, memsz : Nat, writable : BOOLEAN])
  /\ BootFrames < NFrames   \* there is a frame for the idle task's stack
  /\ IsFiniteSet(Process) /\ Kernel \notin Process

VARIABLES
  mem,       \* the frames and page tables
  process,   \* a process's memmaps; <<>> when it has ended
  dirpages,  \* the heap's pages with page directories on them, never freed
  pidcount,
  taking,    \* the page that a kernel thread maps, and the frame it found
  stale      \* what a kernel thread found was not the free frame to take any more

pagingVars == <<mem, process, dirpages, pidcount, taking, stale>>

Frame == 0..(NFrames - 1)
Page(address) == address \div PageSize

-----------------------------------------------------------------------------
(* paging.c.  m is a value of mem. *)

Unmarked(m) == Frame \ m.page_bitmap

(* get_free_page: the first byte of the bitmap from last_free_page on that *)
(* has a clear bit, and its lowest one.                                    *)
FreeFrame(m) ==
  CHOOSE f \in Unmarked(m) :
    /\ f \div FramesPerByte >= m.last_free_page
    /\ \A g \in Unmarked(m) : g \div FramesPerByte >= m.last_free_page => f <= g

(* What get_free_page writes *)
TakeFrame(m, frame) ==
  [m EXCEPT !.last_free_page = frame \div FramesPerByte, !.nfree_pages = @ - 1]

(* An entry of a directory's tables, Nil if there is none; get_page *)
GetPage(m, dir, page) ==
  LET table == m.dirs[dir][page \div PagesPerTable]
  IN  IF table = Nil THEN Nil ELSE m.tables[table][page % PagesPerTable]

WithTable(m, dir, page) ==
  IF m.dirs[dir][page \div PagesPerTable] # Nil THEN m
  ELSE [m EXCEPT !.dirs[dir][page \div PagesPerTable] = Len(m.tables) + 1,
                 !.tables = Append(@, [i \in 0..(PagesPerTable - 1) |-> Nil])]

(* map_r_page *)
MapRPage(m, dir, page, frame, writable) ==
  LET with == WithTable(m, dir, page)
  IN  [with EXCEPT !.tables[with.dirs[dir][page \div PagesPerTable]][page % PagesPerTable] =
                     [frame |-> frame, writable |-> writable]]

(* Faulty variant of Enter: the frame is marked in the kernel's directory  *)
(* only.                                                                   *)
EnterUnmarked(m, dir, page, frame, writable) ==
  LET entered == MapRPage(TakeFrame(m, frame), dir, page, frame, writable)
  IN  [entered EXCEPT !.page_bitmap = IF dir = Kernel THEN @ \cup {frame} ELSE @]

(* map_page from the writes of get_free_page on; what was mapped there     *)
(* before is lost.                                                         *)
Enter(m, dir, page, frame, writable) ==
  LET entered == MapRPage(TakeFrame(m, frame), dir, page, frame, writable)
  IN  [entered EXCEPT !.page_bitmap = @ \cup {frame}]

MapPage(m, dir, page, writable) == Enter(m, dir, page, FreeFrame(m), writable)

(* map_pages and remap_pages step by PageSize from start, which need not   *)
(* be the start of a page.                                                 *)
PagesFrom(start, end) ==
  [i \in 1..((end - start + PageSize - 1) \div PageSize) |-> Page(start) + i - 1]

MapPages(m, dir, pages, writable) ==
  FoldLeft(LAMBDA n, page : MapPage(n, dir, page, writable), m, pages)

RemapPages(m, dir, pages, writable) ==
  FoldLeft(LAMBDA n, page : MapRPage(n, dir, page, GetPage(n, dir, page).frame, writable),
           m, pages)

(* Faulty variant of FreePage: last_free_page is left where it is. *)
FreePageKeepingLast(m, dir, page) ==
  LET frame == GetPage(m, dir, page).frame
  IN  [m EXCEPT !.tables[m.dirs[dir][page \div PagesPerTable]][page % PagesPerTable] = Nil,
                !.page_bitmap = @ \ {frame}, !.nfree_pages = @ + 1]

(* free_page of a page that is mapped *)
FreePage(m, dir, page) ==
  LET frame == GetPage(m, dir, page).frame
      byte == frame \div FramesPerByte
  IN  [m EXCEPT !.tables[m.dirs[dir][page \div PagesPerTable]][page % PagesPerTable] = Nil,
                !.page_bitmap = @ \ {frame}, !.nfree_pages = @ + 1,
                !.last_free_page = IF @ > byte THEN byte ELSE @]

-----------------------------------------------------------------------------
(* Faulty variant of StackPage: there is one stack. *)
StackPageFixed(pid) == StackBase

(* init_task: a stack page for each pid *)
StackPage(pid) == StackBase + pid

(* The pages of a segment *)
SegmentPages(segment) == PagesFrom(segment.vaddr, segment.vaddr + segment.memsz)

TableOf(pages) == {p \div PagesPerTable : p \in pages}

TableIndex ==
  TableOf(HeapPage \cup ModulePage \cup {Page(a) : a \in Address} \cup {UserHeap}
          \cup {StackBase + i : i \in 0..(Cardinality(Process) + 1)}
          \cup UNION {Range(SegmentPages(s)) : s \in UNION {Range(image) : image \in Image}})

PageEntry == [frame : Frame, writable : BOOLEAN]
MemMap == [start : Nat, end : Nat]

ASSUME NoNilAssumption ==
  /\ Nil \notin Nat /\ Nil \notin PageEntry
  /\ Nil \notin [TableIndex -> Nat \cup {Nil}] /\ Nil \notin Seq(MemMap)

(* The kernel's own pages, and those that a program brings or can ask for: *)
(* its segments', the start of its heap and what it reaches with sbrk.     *)
KernelPages ==
  HeapPage \cup ModulePage \cup {StackPage(i) : i \in 1..(Cardinality(Process) + 1)}

ProgramAddress(a) ==
  \/ UserHeap * PageSize <= a /\ a < MaxBrk
  \/ \E image \in Image : \E i \in DOMAIN image :
       image[i].vaddr <= a /\ a < image[i].vaddr + image[i].memsz

ProgramPages ==
  {UserHeap} \cup {Page(a) : a \in {x \in Address : ProgramAddress(x)}}
  \cup UNION {Range(SegmentPages(s)) : s \in UNION {Range(image) : image \in Image}}

(* Programs are linked below 0xa1000000 and end their heap, which begins   *)
(* at 0xb0000000, before the kernel's heap at 0xd0000000: no page table    *)
(* has pages of both.  elfload_from_mem and sbrk take this for granted.    *)
ASSUME LayoutAssumption ==
  /\ TableOf(ProgramPages) \cap TableOf(KernelPages) = {}
  /\ (HeapPage \cup ModulePage) \cap {StackPage(i) : i \in 1..(Cardinality(Process) + 1)} = {}

(* init_paging, and the stack that create_thread maps for the idle task *)
PagingInit ==
  LET empty == [i \in TableIndex |-> Nil]
      boot == [page_bitmap |-> 0..(BootFrames - 1), last_free_page |-> 0,
               nfree_pages |-> NFrames - BootFrames, tables |-> <<>>,
               dirs |-> [d \in {Kernel} \cup Process |-> IF d = Kernel THEN empty ELSE Nil]]
  IN  /\ mem = MapPage(boot, Kernel, StackPage(1), TRUE)
      /\ process = [p \in Process |-> Nil]
      /\ dirpages = {} /\ pidcount = 1 /\ taking = Nil /\ stale = FALSE

HeapBusy == taking # Nil /\ taking.page \in HeapPage
Room(n) == Cardinality(Unmarked(mem)) > n   \* bound: memory never runs out

(* The number of pages of a program's segments *)
SegmentsSize(image) == FoldLeft(LAMBDA n, segment : n + Len(SegmentPages(segment)), 0, image)

(* A kernel thread (kmalloc, or load_module) is in map_page. *)
KernelSearch(page) ==
  /\ ~stale /\ taking = Nil /\ Room(1) /\ GetPage(mem, Kernel, page) = Nil
  /\ taking' = [page |-> page, frame |-> FreeFrame(mem)]
  /\ UNCHANGED <<mem, process, dirpages, pidcount, stale>>

KernelEnter ==
  /\ ~stale /\ taking # Nil
  /\ mem' = Enter(mem, Kernel, taking.page, taking.frame, TRUE)
  /\ stale' = (taking.frame # FreeFrame(mem))
  /\ taking' = Nil
  /\ UNCHANGED <<process, dirpages, pidcount>>

(* bitmap_region_alloc_page and bitmap_region_free_page, by a system call *)
HeapMap(page) ==
  /\ ~stale /\ ~HeapBusy /\ Room(1) /\ GetPage(mem, Kernel, page) = Nil
  /\ mem' = MapPage(mem, Kernel, page, TRUE)
  /\ UNCHANGED <<process, dirpages, pidcount, taking, stale>>

HeapFree(page) ==
  /\ ~stale /\ ~HeapBusy /\ GetPage(mem, Kernel, page) # Nil /\ page \notin dirpages
  /\ mem' = FreePage(mem, Kernel, page)
  /\ UNCHANGED <<process, dirpages, pidcount, taking, stale>>

(* One segment of elfload_from_mem *)
LoadSegment(m, dir, segment) ==
  LET pages == SegmentPages(segment)
      mapped == MapPages(m, dir, pages, TRUE)
  IN  IF segment.writable THEN mapped ELSE RemapPages(mapped, dir, pages, FALSE)

Map(start, end) == [start |-> start, end |-> end]

(* elfload_from_mem with create_process: a directory on a page of the heap *)
(* with the kernel's tables in it (clone_page_dir), the segments, the user *)
(* heap and the stack; each segment and the user heap is a memmap.         *)
ElfloadFromMem(p, image, dirpage) ==
  LET cloned == LET m == MapPage(mem, Kernel, dirpage, TRUE)
                IN  [m EXCEPT !.dirs[p] = m.dirs[Kernel]]
      loaded == FoldLeft(LAMBDA m, segment : LoadSegment(m, p, segment), cloned, image)
      heap == MapPage(loaded, p, UserHeap, TRUE)
  IN  /\ ~stale /\ ~HeapBusy /\ process[p] = Nil
      /\ GetPage(mem, Kernel, dirpage) = Nil /\ Room(3 + SegmentsSize(image))
      /\ mem' = MapPage(heap, p, StackPage(pidcount + 1), TRUE)
      /\ process' = [process EXCEPT ![p] =
           Append([i \in DOMAIN image |->
                     Map(image[i].vaddr, image[i].vaddr + image[i].memsz)],
                  Map(UserHeap * PageSize, UserHeap * PageSize + 1))]
      /\ dirpages' = dirpages \cup {dirpage} /\ pidcount' = pidcount + 1
      /\ UNCHANGED <<taking, stale>>

Runs(p) == ~stale /\ process[p] # Nil /\ process[p] # <<>>

(* memmap_check *)
InMap(p, address) ==
  \E i \in DOMAIN process[p] : process[p][i].start <= address /\ address < process[p][i].end

(* page_fault_handler: an access to what is not mapped, or a write to what *)
(* is read only.  A fault outside its memmaps ends the process, and its    *)
(* frames stay where they are.                                             *)
PageFault(p, address) ==
  LET entry == GetPage(mem, p, Page(address))
  IN  /\ Runs(p) /\ (entry # Nil => ~entry.writable)
      /\ IF InMap(p, address)
         THEN /\ Room(1) /\ mem' = MapPage(mem, p, Page(address), TRUE)
              /\ UNCHANGED process
         ELSE process' = [process EXCEPT ![p] = <<>>] /\ UNCHANGED mem
      /\ UNCHANGED <<dirpages, pidcount, taking, stale>>

(* sbrk moves the end of the last memmap. *)
Sbrk(p, increment) ==
  LET last == Len(process[p])
  IN  /\ Runs(p) /\ process[p][last].end + increment <= MaxBrk
      /\ process' = [process EXCEPT ![p][last].end = @ + increment]
      /\ UNCHANGED <<mem, dirpages, pidcount, taking, stale>>

(* remove_task_by_pid: "TODO: unmap stack pages here" *)
ProcessExit(p) ==
  /\ Runs(p)
  /\ process' = [process EXCEPT ![p] = <<>>]
  /\ UNCHANGED <<mem, dirpages, pidcount, taking, stale>>

(* Every process has ended, or a frame has two owners and what follows is  *)
(* undefined.                                                              *)
PagingStopped ==
  /\ stale \/ \A p \in Process : process[p] = <<>>
  /\ UNCHANGED pagingVars

PagingNext ==
  \/ \E page \in HeapPage \cup ModulePage : KernelSearch(page)
  \/ KernelEnter
  \/ \E page \in HeapPage : HeapMap(page) \/ HeapFree(page)
  \/ \E p \in Process :
       \/ \E image \in Image, page \in HeapPage : ElfloadFromMem(p, image, page)
       \/ \E address \in Address : PageFault(p, address)
       \/ \E increment \in Increment : Sbrk(p, increment)
       \/ ProcessExit(p)
  \/ PagingStopped

PagingSpec == PagingInit /\ [][PagingNext]_pagingVars

-----------------------------------------------------------------------------
(* The entries of tables that map a frame *)
Mapped == {e \in (DOMAIN mem.tables) \X (0..(PagesPerTable - 1)) :
             mem.tables[e[1]][e[2]] # Nil}
FrameAt(e) == mem.tables[e[1]][e[2]].frame

(* However processes are loaded, fault, grow and end, and whatever the     *)
(* kernel's heap does: unless a kernel thread was interrupted inside       *)
(* map_page and frames were taken or freed meanwhile, a frame is behind    *)
(* one page at most, it is marked in the bitmap, and it is none of those   *)
(* that init_paging mapped one to one.                                     *)
FrameOwnedOnce ==
  ~stale =>
    /\ \A e, f \in Mapped : FrameAt(e) = FrameAt(f) => e = f
    /\ \A e \in Mapped : FrameAt(e) \in mem.page_bitmap /\ FrameAt(e) >= BootFrames

(* get_free_page begins at last_free_page: no free frame is before it, and *)
(* nfree_pages is the number of free frames.                               *)
FreeFrameFound ==
  ~stale =>
    /\ \A f \in Unmarked(mem) : f \div FramesPerByte >= mem.last_free_page
    /\ mem.nfree_pages = Cardinality(Unmarked(mem))

(* A writable page keeps its frame, and so what was written to it, through *)
(* faults, program loads and exits of any process; only the kernel's heap  *)
(* frees pages.                                                            *)
WritableKept ==
  [][\A t \in DOMAIN mem.tables, i \in 0..(PagesPerTable - 1) :
       LET before == mem.tables[t][i]
           after == mem'.tables[t][i]
       IN  before # Nil /\ before.writable =>
             \/ after = before
             \/ after = Nil /\ \E page \in HeapPage :
                  mem.dirs[Kernel][page \div PagesPerTable] = t /\ page % PagesPerTable = i]_pagingVars
=============================================================================
