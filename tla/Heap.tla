-------------------------------- MODULE Heap --------------------------------
(***************************************************************************)
(* The pages of the kernel heap: the bitmap region that gives them out     *)
(* (region.c) and its three users, the slab caches (module Slab, seen here *)
(* only as takers and givers of pages), the large blocks of sheap_alloc,   *)
(* sheap_free and sheap_realloc (salloc.c), and kmalloca.                  *)
(*                                                                         *)
(* Every operation runs with heap_semaphore held and is one step.  Sizes   *)
(* are counted in words of the 4 bytes that a large block's header takes.  *)
(***************************************************************************)
EXTENDS Integers, FiniteSetsExt

CONSTANTS
  NBytes,      \* bytes of the bitmap
  ByteBits,    \* bits in a byte of the bitmap, 8 in the code
  PageSize,    \* PAGE_SIZE, in words
  BlockPages,  \* BLOCK_SIZE: the pages a slab cache asks for at a time
  Sizes        \* the sizes, in words, of the allocations past max_size

ASSUME HeapAssumption ==
  /\ NBytes \in Nat /\ ByteBits \in Nat \ {0}
  /\ PageSize \in Nat \ {0} /\ BlockPages \in Nat \ {0}
  /\ Sizes \subseteq Nat \ {0}

NPages == NBytes * ByteBits   \* region->pages
Page == 0..(NPages - 1)
Header == 1                   \* sizeof(uint32_t), in words

VARIABLES
  bitmap,      \* the pages whose bit is set
  extra_data,  \* the byte of the bitmap where searches start
  mapped,      \* the pages of the region that are mapped
  slab,        \* the pages in the hands of the slab caches
  large,       \* the large blocks in their callers' hands
  aligned,     \* the pages that kmalloca has handed out
  lost         \* the search has left the bitmap: nothing is said from there on

vars == <<bitmap, extra_data, mapped, slab, large, aligned, lost>>

(* A large block: its first page, the number of pages asked of the region  *)
(* and the size asked of the heap.                                         *)
Block == [page : Page, npages : Nat \ {0}, size : Sizes]
Pages(a) == a.page..(a.page + a.npages - 1)

-----------------------------------------------------------------------------
(***************************************************************************)
(* bitmap_region_alloc_page and bitmap_region_free_page.                   *)
(***************************************************************************)
Byte(i) == (i * ByteBits)..(i * ByteBits + ByteBits - 1)

Full(i) == Byte(i) \subseteq bitmap

FirstFree(i) == Min(Byte(i) \ bitmap)

(* Faulty variant of Free: the last page of the run is not looked at. *)
FreeButLast(first, n) == (first..(first + n - 2)) \cap bitmap = {}

(* All n bits from first on are clear, as far as the bitmap goes. *)
Free(first, n) == (first..(first + n - 1)) \cap bitmap = {}

(* Byte i ends the search for n pages: one page is always found in a byte  *)
(* that is not full, more only if they start at its first clear bit.       *)
Ends(i, n) == ~Full(i) /\ (n > 1 => Free(FirstFree(i), n))

(* The search, from byte extra_data on, ends in byte i. *)
SearchEnds(i, n) ==
  /\ i >= extra_data /\ Ends(i, n)
  /\ \A j \in extra_data..(i - 1) : ~Ends(j, n)

(* It goes on past the last byte, or a run past the last page is tested.   *)
SearchLeaves(n) ==
  \A i \in 0..(NBytes - 1) : SearchEnds(i, n) => FirstFree(i) + n > NPages

(* n pages are marked and mapped; extra_data moves to the first byte that  *)
(* was not full.                                                           *)
AllocPage(first, n) ==
  /\ ~lost
  /\ \E i \in 0..(NBytes - 1) : SearchEnds(i, n) /\ first = FirstFree(i)
  /\ first + n <= NPages
  /\ bitmap' = bitmap \cup (first..(first + n - 1))
  /\ mapped' = mapped \cup (first..(first + n - 1))
  /\ extra_data' = Min({i \in extra_data..(NBytes - 1) : ~Full(i)})
  /\ UNCHANGED lost

(* Faulty variants of FreePage: the bit of the neighbour is cleared; the   *)
(* next search starts one byte too early.                                  *)
FreePageNext(p) ==
  /\ ~lost
  /\ bitmap' = bitmap \ {p + 1}
  /\ mapped' = mapped \ {p}
  /\ extra_data' = IF p % ByteBits <= extra_data THEN p % ByteBits ELSE extra_data
FreePageBefore(p) ==
  /\ ~lost
  /\ bitmap' = bitmap \ {p}
  /\ mapped' = mapped \ {p}
  /\ extra_data' = IF p % ByteBits <= extra_data THEN (p % ByteBits) - 1 ELSE extra_data

(* The place where the next search starts is lowered to the page's place   *)
(* within its byte.                                                        *)
FreePage(p) ==
  /\ ~lost
  /\ bitmap' = bitmap \ {p}
  /\ mapped' = mapped \ {p}
  /\ extra_data' = IF p % ByteBits <= extra_data THEN p % ByteBits ELSE extra_data

-----------------------------------------------------------------------------
(* slab_cache_add_page_block, and the slab cache's free_one_cache_page. *)
SlabGrow ==
  \E first \in Page :
    /\ AllocPage(first, BlockPages)
    /\ slab' = slab \cup (first..(first + BlockPages - 1))
    /\ UNCHANGED <<large, aligned>>

SlabTrim(p) ==
  /\ p \in slab
  /\ FreePage(p)
  /\ slab' = slab \ {p}
  /\ UNCHANGED <<large, aligned, lost>>

(* The number of pages that sheap_alloc asks for. *)
LargePages(size) ==
  (size + Header) \div PageSize + (IF size % PageSize > 0 THEN 1 ELSE 0)

(* sheap_alloc past max_size. *)
SheapAlloc(size) ==
  \E first \in Page :
    /\ AllocPage(first, LargePages(size))
    /\ large' = large \cup {[page |-> first, npages |-> LargePages(size), size |-> size]}
    /\ UNCHANGED <<slab, aligned>>

(* sheap_free of a large block: free_page is called for every page of the  *)
(* block, each time with the address of the first.                         *)
SheapFree(a) ==
  /\ a \in large
  /\ FreePage(a.page)
  /\ large' = large \ {a}
  /\ UNCHANGED <<slab, aligned, lost>>

(* sheap_realloc of a large block, which its callers only grow: always a   *)
(* new block; the old one is not freed, and its callers forget it.         *)
SheapRealloc(a, size) ==
  /\ a \in large
  /\ \E first \in Page :
       /\ AllocPage(first, LargePages(size))
       /\ large' = (large \ {a}) \cup
                     {[page |-> first, npages |-> LargePages(size), size |-> size]}
  /\ UNCHANGED <<slab, aligned>>

(* kmalloca; kfreea has no callers. *)
AlignedPages(size) == size \div PageSize + (IF size % PageSize > 0 THEN 1 ELSE 0)

Kmalloca(size) ==
  \E first \in Page :
    /\ AllocPage(first, AlignedPages(size))
    /\ aligned' = aligned \cup (first..(first + AlignedPages(size) - 1))
    /\ UNCHANGED <<slab, large>>

(* A search that leaves the bitmap: the loop's bound is the number of      *)
(* pages, and its counter counts bytes.                                    *)
Overrun ==
  /\ ~lost
  /\ \/ SearchLeaves(BlockPages)
     \/ \E size \in Sizes : SearchLeaves(LargePages(size)) \/ SearchLeaves(AlignedPages(size))
  /\ lost' = TRUE
  /\ UNCHANGED <<bitmap, extra_data, mapped, slab, large, aligned>>

Lost == lost /\ UNCHANGED vars

-----------------------------------------------------------------------------
(* init_kernel_heap: the bitmap comes from kmalloc_early and is not        *)
(* cleared.                                                                *)
Init ==
  /\ bitmap \in SUBSET Page /\ extra_data = 0 /\ mapped = {}
  /\ slab = {} /\ large = {} /\ aligned = {} /\ lost = FALSE

Next ==
  \/ SlabGrow \/ Overrun \/ Lost
  \/ \E p \in Page : SlabTrim(p)
  \/ \E size \in Sizes : SheapAlloc(size) \/ Kmalloca(size)
  \/ \E a \in large : SheapFree(a)
  \/ \E a \in large, size \in Sizes : SheapRealloc(a, size)

Spec == Init /\ [][Next]_vars

-----------------------------------------------------------------------------
(* Every variable has its type. *)
TypeOK ==
  /\ bitmap \in SUBSET Page /\ extra_data \in Nat /\ mapped \in SUBSET Page
  /\ slab \in SUBSET Page /\ large \in SUBSET Block /\ aligned \in SUBSET Page
  /\ lost \in BOOLEAN

(* No page is in two hands: not in those of two large blocks, nor of a     *)
(* large block and a slab cache, although large blocks come and go by the  *)
(* first of their pages only and the rest stay behind.                     *)
OwnersDisjoint ==
  /\ slab \cap aligned = {}
  /\ \A a \in large : Pages(a) \cap (slab \cup aligned) = {}
  /\ \A a, b \in large : a # b => Pages(a) \cap Pages(b) = {}

(* A page in somebody's hands is mapped, and its bit is set. *)
OwnedMapped ==
  /\ mapped \subseteq bitmap
  /\ slab \cup aligned \cup UNION {Pages(a) : a \in large} \subseteq mapped

(* The words of a large block, its header first, lie in no page that is in *)
(* somebody else's hands.                                                  *)
LargeFits ==
  \A a \in large :
    LET extent == a.page..(a.page + (a.size + Header - 1) \div PageSize)
    IN  extent \cap (slab \cup aligned \cup UNION {Pages(b) : b \in large \ {a}}) = {}

(* sheap_free unmaps the pages of the block. *)
FreeUnmapsBlock ==
  [][\A a \in large : SheapFree(a) => Pages(a) \cap mapped' = {}]_vars
=============================================================================
