-------------------------------- MODULE Slab --------------------------------
(***************************************************************************)
(* One slab cache of the kernel heap (slabnew.c): pages divided into       *)
(* blocks, the first of which holds the page's slab header, and three      *)
(* doubly linked lists of slabs by how full they are.  A list hangs on its *)
(* newest slab; last leads to the older one, next to the newer one.        *)
(*                                                                         *)
(* kmalloc and kfree call the cache with heap_semaphore held, and here no  *)
(* two calls overlap.  One step is one change of the lists, so a call that *)
(* makes two takes two steps (op says where it is in between).             *)
(***************************************************************************)
EXTENDS Integers, FiniteSets

CONSTANTS
  NPages,      \* bound: the region's pages are 0..(NPages - 1)
  NoPage,      \* the null pointer
  MapBits,     \* cache->map_bits: blocks in a page, its header's included
  BlockPages,  \* BLOCK_SIZE: pages asked of the region at a time
  MaxFree      \* MAX_FREE_PAGES

ASSUME SlabAssumption ==
  /\ NPages \in Nat /\ NoPage \notin Nat
  /\ MapBits \in Nat /\ MapBits >= 3
  /\ BlockPages \in Nat \ {0} /\ MaxFree \in Nat

Page == 0..(NPages - 1)
Link == Page \cup {NoPage}
Bits == 0..(MapBits - 1)
Status == {"free", "partial", "full"}

VARIABLES
  head,            \* head[s]: cache->free, cache->partial, cache->full
  last, next,      \* the links of the slab in each page
  map,             \* the bits that are set in slab->map
  bits_free,
  status,
  free_pages, pages_alloced,   \* counters of the cache
  owned,           \* the pages that the region has given to the cache
  op,              \* where the call under way is
  live,            \* the blocks in the callers' hands
  outstanding      \* the number of allocations not yet freed

links == <<head, last, next>>
slabs == <<map, bits_free, status>>
counts == <<free_pages, pages_alloced, owned>>
vars == <<head, last, next, map, bits_free, status, free_pages, pages_alloced,
          owned, op, live, outstanding>>

-----------------------------------------------------------------------------
(* Faulty variant of MoveBlock: the newer neighbour keeps its link. *)
MoveBlockDangling(from, to, p) ==
  /\ head' = [head EXCEPT ![from] = IF next[p] = NoPage THEN last[p] ELSE @,
                          ![to] = p]
  /\ last' = [last EXCEPT ![p] = head[to]]
  /\ next' = [q \in Page |-> IF q = p THEN NoPage
                             ELSE IF q = last[p] THEN next[p]
                             ELSE IF q = head[to] THEN p ELSE next[q]]

(* slab_cache_move_block: slab p goes from one list to the front of        *)
(* another.                                                                *)
MoveBlock(from, to, p) ==
  /\ head' = [head EXCEPT ![from] = IF next[p] = NoPage THEN last[p] ELSE @,
                          ![to] = p]
  /\ last' = [q \in Page |-> IF q = p THEN head[to]
                             ELSE IF q = next[p] THEN last[p] ELSE last[q]]
  /\ next' = [q \in Page |-> IF q = p THEN NoPage
                             ELSE IF q = last[p] THEN next[p]
                             ELSE IF q = head[to] THEN p ELSE next[q]]

(* slab_cache_add_page_block: BlockPages pages from the region, the first  *)
(* of them base, each pushed to the front of the free list in turn.        *)
AddPageBlock(base) ==
  LET new == base..(base + BlockPages - 1)
  IN  /\ new \subseteq Page \ owned
      /\ head' = [head EXCEPT !["free"] = base + BlockPages - 1]
      /\ last' = [q \in Page |-> IF q \in new
                                 THEN IF q = base THEN head["free"] ELSE q - 1
                                 ELSE last[q]]
      /\ next' = [q \in Page |-> IF q \in new
                                 THEN IF q = base + BlockPages - 1 THEN NoPage ELSE q + 1
                                 ELSE IF q = head["free"] THEN base ELSE next[q]]
      /\ map' = [q \in Page |-> IF q \in new THEN {0} ELSE map[q]]
      /\ bits_free' = [q \in Page |-> IF q \in new THEN MapBits - 1 ELSE bits_free[q]]
      /\ status' = [q \in Page |-> IF q \in new THEN "free" ELSE status[q]]
      /\ free_pages' = free_pages + BlockPages
      /\ pages_alloced' = pages_alloced + BlockPages
      /\ owned' = owned \cup new

(* The region may also have no such pages left. *)
Grow ==
  \/ \E base \in Page : AddPageBlock(base)
  \/ UNCHANGED <<links, slabs, counts>>

(* new_slab_cache_at_addr asks for the first pages. *)
NewSlabCache ==
  /\ op = "new"
  /\ Grow
  /\ op' = "idle"
  /\ UNCHANGED <<live, outstanding>>

-----------------------------------------------------------------------------
(* Faulty variant of FirstClear: blocks below the highest one in use are   *)
(* not found again.                                                        *)
FirstClearAbove(p) ==
  CHOOSE b \in 1..MapBits : b - 1 \in map[p] /\ \A c \in b..MapBits : c \notin map[p]

(* The lowest bit that is clear, the position one after the last included. *)
FirstClear(p) ==
  CHOOSE b \in 0..MapBits : b \notin map[p] /\ \A c \in 0..(b - 1) : c \in map[p]

(* Block b of slab p is handed out. *)
Give(p, b) ==
  /\ map' = [map EXCEPT ![p] = @ \cup {b}]
  /\ bits_free' = [bits_free EXCEPT ![p] = @ - 1]
  /\ live' = live \cup {<<p, b>>}
  /\ outstanding' = outstanding + 1
  /\ op' = "idle"

(* slab_alloc from the newest partial slab, which may fill it. *)
AllocPartial ==
  /\ op \in {"idle", "retry"} /\ head["partial"] # NoPage
  /\ LET p == head["partial"]
     IN  /\ Give(p, FirstClear(p))
         /\ IF bits_free'[p] = 0
            THEN /\ status' = [status EXCEPT ![p] = "full"]
                 /\ MoveBlock("partial", "full", p)
            ELSE UNCHANGED <<links, status>>
  /\ UNCHANGED counts

(* slab_alloc from the newest free slab. *)
AllocFree ==
  /\ op \in {"idle", "retry"} /\ head["partial"] = NoPage /\ head["free"] # NoPage
  /\ LET p == head["free"]
     IN  /\ Give(p, 1)
         /\ status' = [status EXCEPT ![p] = "partial"]
         /\ MoveBlock("free", "partial", p)
  /\ free_pages' = free_pages - 1
  /\ UNCHANGED <<pages_alloced, owned>>

(* slab_alloc finds nothing and asks the region, in the first round of its *)
(* loop and again in the second, which then returns NULL.                  *)
AllocGrow ==
  /\ op \in {"idle", "retry"} /\ head["partial"] = NoPage /\ head["free"] = NoPage
  /\ Grow
  /\ op' = IF op = "idle" THEN "retry" ELSE "idle"
  /\ UNCHANGED <<live, outstanding>>

-----------------------------------------------------------------------------
(* Faulty variant of ClearBit: the lowest block's bit is cleared. *)
ClearLowestBit(p, b) ==
  map' = [map EXCEPT ![p] = @ \ {CHOOSE c \in 1..MapBits :
                                   c \in @ /\ \A d \in 1..(c - 1) : d \notin @}]

ClearBit(p, b) == map' = [map EXCEPT ![p] = @ \ {b}]

(* Faulty variant of Emptied: the header's bit is expected to be clear. *)
EmptiedHeader(p) == status[p] = "partial" /\ bits_free'[p] = MapBits

(* Only the header's bit is left. *)
Emptied(p) == status[p] = "partial" /\ bits_free'[p] = MapBits - 1

(* slab_free of a block that was handed out. *)
SlabFree(p, b) ==
  /\ op = "idle" /\ <<p, b>> \in live
  /\ ClearBit(p, b)
  /\ bits_free' = [bits_free EXCEPT ![p] = @ + 1]
  /\ IF status[p] = "full"
     THEN /\ status' = [status EXCEPT ![p] = "partial"]
          /\ MoveBlock("full", "partial", p)
          /\ UNCHANGED free_pages
     ELSE IF Emptied(p)
     THEN /\ status' = [status EXCEPT ![p] = "free"]
          /\ MoveBlock("partial", "free", p)
          /\ free_pages' = free_pages + 1
     ELSE UNCHANGED <<links, status, free_pages>>
  /\ live' = live \ {<<p, b>>}
  /\ outstanding' = outstanding - 1
  /\ op' = "trim"
  /\ UNCHANGED <<pages_alloced, owned>>

(* Faulty variants of FreeOneCachePage: a partial slab's page goes back if *)
(* there is one; the free page that goes back is still counted.            *)
FreeOneCachePagePartial ==
  LET s == IF head["partial"] # NoPage THEN "partial" ELSE "free"
      p == head[s]
  IN  /\ p # NoPage
      /\ head' = [head EXCEPT ![s] = last[p]]
      /\ last' = last
      /\ next' = [q \in Page |-> IF q = last[p] THEN next[p] ELSE next[q]]
      /\ free_pages' = free_pages - 1
      /\ pages_alloced' = pages_alloced - 1
      /\ owned' = owned \ {p}
FreeOneCachePageCounted ==
  LET p == head["free"]
  IN  /\ p # NoPage
      /\ head' = [head EXCEPT !["free"] = last[p]]
      /\ last' = last
      /\ next' = [q \in Page |-> IF q = last[p] THEN next[p] ELSE next[q]]
      /\ free_pages' = free_pages
      /\ pages_alloced' = pages_alloced - 1
      /\ owned' = owned \ {p}

(* free_one_cache_page: the newest free slab's page goes back to the       *)
(* region.                                                                 *)
FreeOneCachePage ==
  LET p == head["free"]
  IN  /\ p # NoPage
      /\ head' = [head EXCEPT !["free"] = last[p]]
      /\ last' = [q \in Page |-> IF q = next[p] THEN last[p] ELSE last[q]]
      /\ next' = [q \in Page |-> IF q = last[p] THEN next[p] ELSE next[q]]
      /\ free_pages' = free_pages - 1
      /\ pages_alloced' = pages_alloced - 1
      /\ owned' = owned \ {p}

(* The end of slab_free: at most one page goes back. *)
Trim ==
  /\ op = "trim"
  /\ \/ free_pages > MaxFree /\ FreeOneCachePage
     \/ ~(free_pages > MaxFree /\ head["free"] # NoPage) /\ UNCHANGED <<links, counts>>
  /\ op' = "idle"
  /\ UNCHANGED <<slabs, live, outstanding>>

-----------------------------------------------------------------------------
Init ==
  /\ head = [s \in Status |-> NoPage]
  /\ last = [p \in Page |-> NoPage] /\ next = [p \in Page |-> NoPage]
  /\ map = [p \in Page |-> {}] /\ bits_free = [p \in Page |-> 0]
  /\ status = [p \in Page |-> "free"]
  /\ free_pages = 0 /\ pages_alloced = 0 /\ owned = {}
  /\ op = "new" /\ live = {} /\ outstanding = 0

Next ==
  \/ NewSlabCache \/ AllocPartial \/ AllocFree \/ AllocGrow \/ Trim
  \/ \E p \in Page, b \in Bits : SlabFree(p, b)

Spec == Init /\ [][Next]_vars

-----------------------------------------------------------------------------
(* Every variable has its type. *)
TypeOK ==
  /\ head \in [Status -> Link]
  /\ last \in [Page -> Link] /\ next \in [Page -> Link]
  /\ map \in [Page -> SUBSET Bits]
  /\ bits_free \in [Page -> Bits]
  /\ status \in [Page -> Status]
  /\ free_pages \in Int /\ pages_alloced \in Int /\ owned \in SUBSET Page
  /\ op \in {"new", "idle", "retry", "trim"}
  /\ live \in SUBSET (Page \X Bits) /\ outstanding \in Int

(* The cache is a block allocator: no block is handed out while it is in   *)
(* somebody's hands, none lies on a slab's header or beyond its page.      *)
Blocks == Page \X (1..(MapBits - 1))
Allocator == INSTANCE BlockAllocator
ImplementsAllocator == Allocator!Spec

(* A block in somebody's hands is on a page of the cache: what trimming    *)
(* gives back to the region holds none.                                    *)
LiveOwned == \A b \in live : b[1] \in owned

(* The bitmap, the count of clear bits and the status of a slab agree. *)
StatusAgrees ==
  \A p \in owned :
    /\ bits_free[p] = MapBits - Cardinality(map[p])
    /\ status[p] = CASE map[p] = {0} -> "free" [] map[p] = Bits -> "full"
                     [] OTHER -> "partial"

(* The slab k links behind the head of a list. *)
Behind(s) ==
  LET f[k \in 0..NPages] ==
        IF k = 0 THEN head[s]
        ELSE IF f[k - 1] = NoPage THEN NoPage ELSE last[f[k - 1]]
  IN  f

(* Each list ends, holds the cache's slabs of its status and no others,    *)
(* and is linked back the same way.                                        *)
ListsWellFormed ==
  \A s \in Status :
    LET chain == Behind(s)
    IN  /\ chain[NPages] = NoPage
        /\ {chain[k] : k \in 0..NPages} \ {NoPage} = {p \in owned : status[p] = s}
        /\ \A k \in 1..NPages : chain[k] # NoPage => next[chain[k]] = chain[k - 1]

(* The cache's counters are right.                                         *)
CountsAgree ==
  /\ pages_alloced = Cardinality(owned)
  /\ free_pages = Cardinality({p \in owned : status[p] = "free"})

(***************************************************************************)
(* The inductive invariant.                                                *)
(***************************************************************************)

(* Neighbours in a list point at each other and have one status; a slab    *)
(* without a newer one is the head of its list.                            *)
LinkInv ==
  /\ \A p \in owned : last[p] # NoPage =>
       last[p] \in owned /\ status[last[p]] = status[p] /\ next[last[p]] = p
  /\ \A p \in owned : next[p] # NoPage =>
       next[p] \in owned /\ status[next[p]] = status[p] /\ last[next[p]] = p
  /\ \A s \in Status : head[s] # NoPage =>
       head[s] \in owned /\ status[head[s]] = s /\ next[head[s]] = NoPage
  /\ \A p \in owned : next[p] = NoPage => head[status[p]] = p

(* The bits of a slab are its header's and those of its blocks in          *)
(* somebody's hands.                                                       *)
MarkInv ==
  \A p \in owned :
    0 \in map[p] /\ \A b \in Bits : <<p, b>> \in live <=> b \in map[p] /\ b # 0

SlabInv == TypeOK /\ LinkInv /\ MarkInv /\ LiveOwned /\ StatusAgrees
=============================================================================
