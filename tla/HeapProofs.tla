----------------------------- MODULE HeapProofs -----------------------------
(***************************************************************************)
(* No page of the kernel heap is in two hands, for every size of the       *)
(* region and its bitmap, of a page and of the allocations.                *)
(***************************************************************************)
EXTENDS Heap, WellFoundedInduction, TLAPS

USE HeapAssumption

(* The inductive invariant: who holds a page has its bit. *)
HeapInv == TypeOK /\ OwnersDisjoint /\ OwnedMapped

(* A set of natural numbers that is not empty has a minimum. *)
LEMMA MinFacts ==
  ASSUME NEW T \in SUBSET Nat, T # {}
  PROVE  Min(T) \in T /\ \A y \in T : Min(T) <= y
<1>1. \E x \in T : \A y \in T : ~(<<y, x>> \in OpToRel(<, Nat))
  BY NatLessThanWellFounded, WFMin, Zenon
<1>2. \A x, y \in Nat : <<y, x>> \in OpToRel(<, Nat) <=> y < x
  BY DEF OpToRel
<1>3. PICK x \in T : \A y \in T : ~(<<y, x>> \in OpToRel(<, Nat)) BY <1>1
<1>4. \A y \in T : ~(y < x) BY <1>2, <1>3
<1>5. \A y \in T : x <= y BY <1>4
<1> QED BY <1>5 DEF Min

(* The bits of a byte are natural numbers. *)
LEMMA ByteFacts == ASSUME NEW i \in Nat PROVE Byte(i) \in SUBSET Nat
<1>1. i * ByteBits \in Nat OBVIOUS
<1> QED BY <1>1 DEF Byte

(* A large block has a page. *)
LEMMA LargePagesFacts ==
  ASSUME NEW size \in Sizes PROVE LargePages(size) \in Nat \ {0}
<1>1. size \in Nat /\ size > 0 OBVIOUS
<1>2. /\ size \div PageSize \in Nat /\ size % PageSize \in 0..(PageSize - 1)
      /\ size = PageSize * (size \div PageSize) + (size % PageSize)
  BY <1>1
<1>3. /\ (size + 1) \div PageSize \in Nat /\ (size + 1) % PageSize \in 0..(PageSize - 1)
      /\ size + 1 = PageSize * ((size + 1) \div PageSize) + ((size + 1) % PageSize)
  BY <1>1
<1>4. CASE size % PageSize > 0 BY <1>3, <1>4 DEF LargePages, Header
<1>5. CASE size % PageSize = 0
  <2>1. size \div PageSize >= 1
    <3>1. size \div PageSize = 0 => size = 0 BY <1>2, <1>5
    <3> QED BY <1>1, <1>2, <3>1
  <2>2. size >= PageSize BY <1>2, <1>5, <2>1
  <2>3. (size + 1) \div PageSize # 0
    <3>1. (size + 1) \div PageSize = 0 => size + 1 <= PageSize - 1 BY <1>3
    <3> QED BY <1>1, <2>2, <3>1
  <2> QED BY <1>3, <1>5, <2>3 DEF LargePages, Header
<1> QED BY <1>2, <1>4, <1>5

(* What bitmap_region_alloc_page gives out was marked by nobody. *)
LEMMA AllocPageFacts ==
  ASSUME HeapInv, NEW first \in Page, NEW n \in Nat, AllocPage(first, n)
  PROVE  /\ (first..(first + n - 1)) \cap bitmap = {}
         /\ first..(first + n - 1) \in SUBSET Page
         /\ bitmap' = bitmap \cup (first..(first + n - 1))
         /\ mapped' = mapped \cup (first..(first + n - 1))
         /\ extra_data' \in Nat /\ lost' = lost
<1>1. PICK i \in 0..(NBytes - 1) : SearchEnds(i, n) /\ first = FirstFree(i)
  BY DEF AllocPage
<1>2. i \in Nat /\ extra_data \in Nat /\ i >= extra_data /\ ~Full(i)
      /\ (n > 1 => Free(first, n))
  BY <1>1 DEF SearchEnds, Ends, HeapInv, TypeOK
<1>3. first \notin bitmap
  <2>1. PICK T : T = Byte(i) \ bitmap OBVIOUS
  <2>2. T \in SUBSET Nat /\ T # {} BY <1>2, <2>1, ByteFacts DEF Full
  <2>3. Min(T) \in T BY <2>2, MinFacts
  <2> QED BY <1>1, <2>1, <2>3 DEF FirstFree
<1>4. NPages \in Nat BY DEF NPages
<1>5. first \in Nat BY <1>4 DEF Page
<1>6. (first..(first + n - 1)) \cap bitmap = {}
  <2>1. CASE n > 1 BY <1>2, <2>1 DEF Free
  <2>2. CASE ~(n > 1)
    <3>1. \A q \in first..(first + n - 1) : q = first BY <1>5, <2>2
    <3> QED BY <1>3, <3>1
  <2> QED BY <2>1, <2>2
<1>7. first..(first + n - 1) \in SUBSET Page
  <2>1. first + n <= NPages BY DEF AllocPage
  <2> QED BY <1>4, <1>5, <2>1 DEF Page
<1>8. extra_data' \in Nat
  <2>1. PICK T : T = {j \in extra_data..(NBytes - 1) : ~Full(j)} OBVIOUS
  <2>2. T \in SUBSET Nat /\ i \in T BY <1>1, <1>2, <2>1
  <2>3. Min(T) \in T BY <2>2, MinFacts
  <2> QED BY <2>1, <2>2, <2>3 DEF AllocPage
<1> QED BY <1>6, <1>7, <1>8 DEF AllocPage

(* Nobody but its holder loses a page that goes back. *)
LEMMA FreePageFacts ==
  ASSUME HeapInv, NEW p \in Page, FreePage(p)
  PROVE  /\ bitmap' = bitmap \ {p} /\ mapped' = mapped \ {p} /\ extra_data' \in Nat
<1>1. NPages \in Nat BY DEF NPages
<1>2. p \in Nat BY <1>1 DEF Page
<1>3. p % ByteBits \in Nat BY <1>2
<1> QED BY <1>3 DEF FreePage, HeapInv, TypeOK

(* Facts about the owners before a step. *)
LEMMA Owners ==
  ASSUME HeapInv
  PROVE  /\ slab \subseteq mapped /\ aligned \subseteq mapped /\ mapped \subseteq bitmap
         /\ \A a \in large : Pages(a) \subseteq mapped /\ a.page \in Page /\ a.page \in Pages(a)
<1>1. NPages \in Nat BY DEF NPages
<1>2. \A a \in large : a.page \in Nat /\ a.npages \in Nat \ {0} /\ a.page \in Page
  BY <1>1 DEF HeapInv, TypeOK, Block, Page
<1>3. \A a \in large : a.page \in Pages(a) BY <1>2 DEF Pages
<1>4. \A a \in large : Pages(a) \subseteq mapped BY DEF HeapInv, OwnedMapped
<1> QED BY <1>2, <1>3, <1>4 DEF HeapInv, OwnedMapped

(* A slab cache takes a block of pages. *)
LEMMA SlabGrowInv == ASSUME HeapInv, SlabGrow PROVE HeapInv'
<1>1. PICK first \in Page : /\ AllocPage(first, BlockPages)
                            /\ slab' = slab \cup (first..(first + BlockPages - 1))
                            /\ large' = large /\ aligned' = aligned
  BY DEF SlabGrow
<1>2. PICK run : run = first..(first + BlockPages - 1) OBVIOUS
<1>3. /\ run \cap bitmap = {} /\ run \in SUBSET Page /\ bitmap' = bitmap \cup run
      /\ mapped' = mapped \cup run /\ extra_data' \in Nat /\ lost' = lost
      /\ slab' = slab \cup run
  BY <1>1, <1>2, AllocPageFacts
<1>4. TypeOK' BY <1>1, <1>3 DEF HeapInv, TypeOK
<1>5. OwnersDisjoint' BY <1>1, <1>3, Owners DEF HeapInv, OwnersDisjoint
<1>6. OwnedMapped' BY <1>1, <1>3, Owners DEF HeapInv, OwnedMapped
<1> QED BY <1>4, <1>5, <1>6 DEF HeapInv

(* A slab cache gives a page back. *)
LEMMA SlabTrimInv == ASSUME HeapInv, NEW p \in Page, SlabTrim(p) PROVE HeapInv'
<1>1. /\ bitmap' = bitmap \ {p} /\ mapped' = mapped \ {p} /\ extra_data' \in Nat
      /\ slab' = slab \ {p} /\ large' = large /\ aligned' = aligned /\ lost' = lost
      /\ p \in slab
  BY FreePageFacts DEF SlabTrim
<1>2. TypeOK' BY <1>1 DEF HeapInv, TypeOK
<1>3. OwnersDisjoint' BY <1>1 DEF HeapInv, OwnersDisjoint
<1>4. OwnedMapped'
  <2>1. p \notin aligned /\ \A a \in large : p \notin Pages(a)
    BY <1>1 DEF HeapInv, OwnersDisjoint
  <2> QED BY <1>1, <2>1, Owners DEF HeapInv, OwnedMapped
<1> QED BY <1>2, <1>3, <1>4 DEF HeapInv

(* A new large block beside any of those that there are. *)
LEMMA NewBlockInv ==
  ASSUME HeapInv, NEW first \in Page, NEW size \in Sizes, NEW kept \in SUBSET large,
         AllocPage(first, LargePages(size)), slab' = slab, aligned' = aligned,
         large' = kept \cup
                    {[page |-> first, npages |-> LargePages(size), size |-> size]}
  PROVE  HeapInv'
<1>1. LargePages(size) \in Nat \ {0} BY LargePagesFacts
<1>2. PICK new : new = [page |-> first, npages |-> LargePages(size), size |-> size] OBVIOUS
<1>3. new \in Block /\ large' = kept \cup {new} BY <1>1, <1>2 DEF Block
<1>4. Pages(new) = first..(first + LargePages(size) - 1) BY <1>2 DEF Pages
<1>5. PICK run : run = Pages(new) OBVIOUS
<1>6. /\ run \cap bitmap = {} /\ run \in SUBSET Page /\ bitmap' = bitmap \cup run
      /\ mapped' = mapped \cup run /\ extra_data' \in Nat /\ lost' = lost
  BY <1>1, <1>4, <1>5, AllocPageFacts
<1>7. TypeOK' BY <1>3, <1>6 DEF HeapInv, TypeOK
<1>8. OwnersDisjoint'
  <2>1. run \cap slab = {} /\ run \cap aligned = {} /\ \A a \in large : run \cap Pages(a) = {}
    BY <1>6, Owners
  <2>2. \A a \in kept : Pages(a) \cap (slab \cup aligned) = {}
    BY DEF HeapInv, OwnersDisjoint
  <2>3. \A a, b \in kept : a # b => Pages(a) \cap Pages(b) = {}
    BY DEF HeapInv, OwnersDisjoint
  <2>4. \A a \in large' : Pages(a) \cap (slab \cup aligned) = {} BY <1>3, <1>5, <2>1, <2>2
  <2>5. \A a, b \in large' : a # b => Pages(a) \cap Pages(b) = {} BY <1>3, <1>5, <2>1, <2>3
  <2> QED BY <2>4, <2>5 DEF HeapInv, OwnersDisjoint
<1>9. OwnedMapped'
  <2>1. \A a \in large' : Pages(a) \subseteq mapped' BY <1>3, <1>5, <1>6, Owners
  <2>2. slab \subseteq mapped' /\ aligned \subseteq mapped' /\ mapped' \subseteq bitmap'
    BY <1>6, Owners
  <2> QED BY <2>1, <2>2 DEF OwnedMapped
<1> QED BY <1>7, <1>8, <1>9 DEF HeapInv

(* A large block is freed: its first page goes back. *)
LEMMA SheapFreeInv == ASSUME HeapInv, NEW a \in large, SheapFree(a) PROVE HeapInv'
<1>1. a.page \in Page /\ a.page \in Pages(a) BY Owners
<1>2. /\ bitmap' = bitmap \ {a.page} /\ mapped' = mapped \ {a.page} /\ extra_data' \in Nat
      /\ slab' = slab /\ large' = large \ {a} /\ aligned' = aligned /\ lost' = lost
  BY <1>1, FreePageFacts DEF SheapFree
<1>3. TypeOK' BY <1>2 DEF HeapInv, TypeOK
<1>4. OwnersDisjoint' BY <1>2 DEF HeapInv, OwnersDisjoint
<1>5. OwnedMapped'
  <2>1. a.page \notin slab /\ a.page \notin aligned BY <1>1 DEF HeapInv, OwnersDisjoint
  <2>2. \A b \in large' : a.page \notin Pages(b) BY <1>1, <1>2 DEF HeapInv, OwnersDisjoint
  <2>3. \A b \in large' : Pages(b) \subseteq mapped' BY <1>2, <2>2, Owners
  <2>4. slab \subseteq mapped' /\ aligned \subseteq mapped' /\ mapped' \subseteq bitmap'
    BY <1>2, <2>1, Owners
  <2> QED BY <1>2, <2>3, <2>4 DEF OwnedMapped
<1> QED BY <1>3, <1>4, <1>5 DEF HeapInv

(* kmalloca takes pages. *)
LEMMA KmallocaInv == ASSUME HeapInv, NEW size \in Sizes, Kmalloca(size) PROVE HeapInv'
<1>1. PICK n : n = AlignedPages(size) OBVIOUS
<1>2. n \in Nat
  <2>1. size \in Nat /\ size \div PageSize \in Nat OBVIOUS
  <2> QED BY <1>1, <2>1 DEF AlignedPages
<1>3. PICK first \in Page : /\ AllocPage(first, n)
                            /\ aligned' = aligned \cup (first..(first + n - 1))
                            /\ large' = large /\ slab' = slab
  BY <1>1 DEF Kmalloca
<1>4. PICK run : run = first..(first + n - 1) OBVIOUS
<1>5. /\ run \cap bitmap = {} /\ run \in SUBSET Page /\ bitmap' = bitmap \cup run
      /\ mapped' = mapped \cup run /\ extra_data' \in Nat /\ lost' = lost
      /\ aligned' = aligned \cup run
  BY <1>2, <1>3, <1>4, AllocPageFacts
<1>6. TypeOK' BY <1>3, <1>5 DEF HeapInv, TypeOK
<1>7. OwnersDisjoint' BY <1>3, <1>5, Owners DEF HeapInv, OwnersDisjoint
<1>8. OwnedMapped' BY <1>3, <1>5, Owners DEF HeapInv, OwnedMapped
<1> QED BY <1>6, <1>7, <1>8 DEF HeapInv

(* Every step keeps the invariant. *)
LEMMA NextInv == ASSUME HeapInv, [Next]_vars PROVE HeapInv'
<1>1. CASE SlabGrow BY <1>1, SlabGrowInv
<1>2. CASE Overrun BY <1>2 DEF Overrun, HeapInv, TypeOK, OwnersDisjoint, OwnedMapped
<1>3. CASE UNCHANGED vars BY <1>3 DEF vars, HeapInv, TypeOK, OwnersDisjoint, OwnedMapped
<1>4. CASE \E p \in Page : SlabTrim(p) BY <1>4, SlabTrimInv
<1>5. ASSUME NEW size \in Sizes, SheapAlloc(size) PROVE HeapInv'
  <2>1. PICK first \in Page :
          /\ AllocPage(first, LargePages(size))
          /\ large' = large \cup {[page |-> first, npages |-> LargePages(size), size |-> size]}
          /\ slab' = slab /\ aligned' = aligned
    BY <1>5 DEF SheapAlloc
  <2> QED BY <2>1, NewBlockInv
<1>6. ASSUME NEW size \in Sizes, Kmalloca(size) PROVE HeapInv' BY <1>6, KmallocaInv
<1>7. CASE \E a \in large : SheapFree(a) BY <1>7, SheapFreeInv
<1>8. ASSUME NEW a \in large, NEW size \in Sizes, SheapRealloc(a, size) PROVE HeapInv'
  <2>1. PICK first \in Page :
          /\ AllocPage(first, LargePages(size))
          /\ large' = (large \ {a}) \cup
                        {[page |-> first, npages |-> LargePages(size), size |-> size]}
          /\ slab' = slab /\ aligned' = aligned
    BY <1>8 DEF SheapRealloc
  <2>2. large \ {a} \in SUBSET large OBVIOUS
  <2> QED BY <2>1, <2>2, NewBlockInv
<1> QED BY <1>1, <1>2, <1>3, <1>4, <1>5, <1>6, <1>7, <1>8 DEF Next, Lost

(* The pages of the heap keep their owners apart: HeapInv is inductive. *)
THEOREM Invariance == Spec => []HeapInv
<1>1. ASSUME Init PROVE HeapInv
  <2>1. /\ bitmap \in SUBSET Page /\ extra_data = 0 /\ mapped = {} /\ slab = {}
        /\ large = {} /\ aligned = {} /\ lost = FALSE
    BY <1>1 DEF Init
  <2>2. TypeOK BY <2>1 DEF TypeOK
  <2>3. OwnersDisjoint BY <2>1 DEF OwnersDisjoint
  <2>4. OwnedMapped BY <2>1 DEF OwnedMapped
  <2> QED BY <2>2, <2>3, <2>4 DEF HeapInv
<1>2. HeapInv /\ [Next]_vars => HeapInv' BY NextInv
<1> QED BY <1>1, <1>2, PTL DEF Spec

(* Every variable keeps its type. *)
THEOREM TypeCorrect == Spec => []TypeOK
<1>1. HeapInv => TypeOK BY DEF HeapInv
<1> QED BY <1>1, Invariance, PTL

(* The region never gives a page out twice, whatever is leaked or freed by *)
(* its first page only.                                                    *)
THEOREM Disjointness == Spec => []OwnersDisjoint
<1>1. HeapInv => OwnersDisjoint BY DEF HeapInv
<1> QED BY <1>1, Invariance, PTL

(* Whoever holds a page of the heap can touch it. *)
THEOREM Mapping == Spec => []OwnedMapped
<1>1. HeapInv => OwnedMapped BY DEF HeapInv
<1> QED BY <1>1, Invariance, PTL
=============================================================================
