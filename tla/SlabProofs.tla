----------------------------- MODULE SlabProofs -----------------------------
(***************************************************************************)
(* The slab cache implements the block allocator, its lists are what they  *)
(* should be and its counters right, for every number of pages and blocks, *)
(* every page block size and every limit of free pages.                    *)
(***************************************************************************)
EXTENDS Slab, FiniteSetTheorems, WellFoundedInduction, TLAPS

USE SlabAssumption

(* Counting the bits of a slab. *)
LEMMA BitCounts ==
  ASSUME NEW M \in SUBSET Bits
  PROVE  /\ Cardinality(M) \in 0..MapBits
         /\ Cardinality(M) = MapBits => M = Bits
         /\ M = Bits => Cardinality(M) = MapBits
         /\ 0 \in M => Cardinality(M) >= 1 /\ (Cardinality(M) = 1 <=> M = {0})
         /\ \A b \in Bits : b \notin M => Cardinality(M \cup {b}) = Cardinality(M) + 1
         /\ \A b \in M : Cardinality(M \ {b}) = Cardinality(M) - 1
<1>1. IsFiniteSet(Bits) /\ Cardinality(Bits) = MapBits BY FS_Interval DEF Bits
<1>2. IsFiniteSet(M) /\ Cardinality(M) <= MapBits /\ (Cardinality(M) = MapBits => M = Bits)
  BY <1>1, FS_Subset
<1>3. Cardinality(M) \in Nat BY <1>2, FS_CardinalityType
<1>4. 0 \in M => Cardinality(M) # 0 BY <1>2, FS_EmptySet
<1>5. Cardinality(M) = 1 => \E x : M = {x} BY <1>2, FS_Singleton
<1>6. 0 \in M /\ Cardinality(M) = 1 => M = {0} BY <1>5
<1>7. M = {0} => Cardinality(M) = 1 BY FS_Singleton
<1>8. \A b \in Bits : b \notin M => Cardinality(M \cup {b}) = Cardinality(M) + 1
  BY <1>2, FS_AddElement
<1>9. \A b \in M : Cardinality(M \ {b}) = Cardinality(M) - 1
  BY <1>2, FS_RemoveElement
<1> QED BY <1>1, <1>2, <1>3, <1>4, <1>6, <1>7, <1>8, <1>9

(* A set of natural numbers that is not empty has a least element. *)
LEMMA LeastNatural ==
  ASSUME NEW T \in SUBSET Nat, T # {}
  PROVE  \E x \in T : \A y \in T : x <= y
<1>1. \E x \in T : \A y \in T : ~(<<y, x>> \in OpToRel(<, Nat))
  BY NatLessThanWellFounded, WFMin, Zenon
<1>2. \A x, y \in Nat : <<y, x>> \in OpToRel(<, Nat) <=> y < x
  BY DEF OpToRel
<1>3. PICK x \in T : \A y \in T : ~(<<y, x>> \in OpToRel(<, Nat)) BY <1>1
<1>4. \A y \in T : ~(y < x) BY <1>2, <1>3
<1>5. \A y \in T : x <= y BY <1>4
<1> QED BY <1>5

(* In a slab that is not full the search ends on a clear bit. *)
LEMMA FirstClearFacts ==
  ASSUME NEW p, map[p] \in SUBSET Bits, 0 \in map[p], map[p] # Bits
  PROVE  FirstClear(p) \in Bits /\ FirstClear(p) \notin map[p] /\ FirstClear(p) # 0
<1> DEFINE T == Bits \ map[p]
<1>1. T \in SUBSET Nat /\ T # {}
  <2>1. T \in SUBSET Nat BY DEF Bits
  <2>2. \E b \in Bits : b \notin map[p] OBVIOUS
  <2> QED BY <2>1, <2>2
<1>2. PICK x \in T : \A y \in T : x <= y
  <2> HIDE DEF T
  <2> QED BY <1>1, LeastNatural
<1>3. x \in 0..MapBits /\ x \notin map[p] BY <1>2 DEF Bits
<1>4. \A c \in 0..(x - 1) : c \in map[p] BY <1>2 DEF Bits
<1>5. /\ FirstClear(p) \in 0..MapBits /\ FirstClear(p) \notin map[p]
      /\ \A c \in 0..(FirstClear(p) - 1) : c \in map[p]
  BY <1>3, <1>4 DEF FirstClear
<1>6. FirstClear(p) <= x
  <2>1. x \in Nat /\ FirstClear(p) \in Nat BY <1>3, <1>5
  <2> QED BY <1>3, <1>5, <2>1
<1> QED BY <1>2, <1>5, <1>6 DEF Bits

(* Moving a slab to the list of its new status keeps the lists linked. *)
LEMMA MoveLinks ==
  ASSUME TypeOK, LinkInv, NEW from \in Status, NEW to \in Status, from # to,
         NEW p \in owned, status[p] = from, MoveBlock(from, to, p),
         status' = [status EXCEPT ![p] = to], owned' = owned
  PROVE  /\ LinkInv' /\ status' \in [Page -> Status] /\ head' \in [Status -> Link]
         /\ last' \in [Page -> Link] /\ next' \in [Page -> Link]
<1>1. /\ head \in [Status -> Link] /\ last \in [Page -> Link] /\ next \in [Page -> Link]
      /\ status \in [Page -> Status] /\ owned \in SUBSET Page
  BY DEF TypeOK
<1>2. NoPage \notin Page BY DEF Page
<1>3. /\ \A s \in Status : head'[s] = IF s = to THEN p
                                      ELSE IF s = from /\ next[p] = NoPage THEN last[p]
                                      ELSE head[s]
      /\ \A q \in Page : last'[q] = IF q = p THEN head[to]
                                    ELSE IF q = next[p] THEN last[p] ELSE last[q]
      /\ \A q \in Page : next'[q] = IF q = p THEN NoPage
                                    ELSE IF q = last[p] THEN next[p]
                                    ELSE IF q = head[to] THEN p ELSE next[q]
      /\ \A q \in Page : status'[q] = IF q = p THEN to ELSE status[q]
  BY <1>1 DEF MoveBlock
<1>4. /\ head' \in [Status -> Link] /\ last' \in [Page -> Link] /\ next' \in [Page -> Link]
      /\ status' \in [Page -> Status]
  BY <1>1, <1>2 DEF MoveBlock, Link
<1>5. \A q \in owned : last'[q] # NoPage =>
        last'[q] \in owned /\ status'[last'[q]] = status'[q] /\ next'[last'[q]] = q
  <2> SUFFICES ASSUME NEW q \in owned, last'[q] # NoPage
               PROVE  last'[q] \in owned /\ status'[last'[q]] = status'[q] /\ next'[last'[q]] = q
    OBVIOUS
  <2>1. CASE q = p BY <1>1, <1>2, <1>3, <2>1 DEF LinkInv
  <2>2. CASE q # p /\ q = next[p] BY <1>1, <1>2, <1>3, <2>2 DEF LinkInv
  <2>3. CASE q # p /\ q # next[p] BY <1>1, <1>2, <1>3, <2>3 DEF LinkInv
  <2> QED BY <2>1, <2>2, <2>3
<1>6. \A q \in owned : next'[q] # NoPage =>
        next'[q] \in owned /\ status'[next'[q]] = status'[q] /\ last'[next'[q]] = q
  <2> SUFFICES ASSUME NEW q \in owned, next'[q] # NoPage
               PROVE  next'[q] \in owned /\ status'[next'[q]] = status'[q] /\ last'[next'[q]] = q
    OBVIOUS
  <2>1. CASE q # p /\ q = last[p] BY <1>1, <1>2, <1>3, <2>1 DEF LinkInv
  <2>2. CASE q # p /\ q # last[p] /\ q = head[to] BY <1>1, <1>2, <1>3, <2>2 DEF LinkInv
  <2>3. CASE q # p /\ q # last[p] /\ q # head[to] BY <1>1, <1>2, <1>3, <2>3 DEF LinkInv
  <2> QED BY <1>1, <1>3, <2>1, <2>2, <2>3
<1>7. \A s \in Status : head'[s] # NoPage =>
        head'[s] \in owned /\ status'[head'[s]] = s /\ next'[head'[s]] = NoPage
  BY <1>1, <1>2, <1>3 DEF LinkInv
<1>8. \A q \in owned : next'[q] = NoPage => head'[status'[q]] = q
  BY <1>1, <1>2, <1>3 DEF LinkInv
<1> QED BY <1>4, <1>5, <1>6, <1>7, <1>8 DEF LinkInv

(* The status that a bitmap with the header's bit calls for. *)
LEMMA Reclassify ==
  ASSUME TypeOK, StatusAgrees, NEW p \in owned, NEW M \in SUBSET Bits, 0 \in M,
         map' = [map EXCEPT ![p] = M],
         bits_free' = [bits_free EXCEPT ![p] = MapBits - Cardinality(M)],
         NEW s \in Status, status' = [status EXCEPT ![p] = s], owned' = owned,
         s = "free" <=> M = {0}, s = "full" <=> M = Bits
  PROVE  /\ StatusAgrees' /\ map' \in [Page -> SUBSET Bits] /\ bits_free' \in [Page -> Bits]
         /\ status' \in [Page -> Status]
<1>1. /\ map \in [Page -> SUBSET Bits] /\ bits_free \in [Page -> Bits]
      /\ status \in [Page -> Status] /\ owned \in SUBSET Page
  BY DEF TypeOK
<1>2. Cardinality(M) \in 1..MapBits BY BitCounts
<1>3. MapBits - Cardinality(M) \in Bits BY <1>2 DEF Bits
<1>4. Bits # {0} BY DEF Bits
<1>5. \A q \in Page : /\ map'[q] = IF q = p THEN M ELSE map[q]
                      /\ bits_free'[q] = IF q = p THEN MapBits - Cardinality(M) ELSE bits_free[q]
                      /\ status'[q] = IF q = p THEN s ELSE status[q]
  BY <1>1
<1>6. s = CASE M = {0} -> "free" [] M = Bits -> "full" [] OTHER -> "partial"
  BY <1>4 DEF Status
<1>7. StatusAgrees'
  <2> SUFFICES ASSUME NEW q \in owned
               PROVE  /\ bits_free'[q] = MapBits - Cardinality(map'[q])
                      /\ status'[q] = CASE map'[q] = {0} -> "free" [] map'[q] = Bits -> "full"
                                        [] OTHER -> "partial"
    BY DEF StatusAgrees
  <2>1. CASE q = p BY <1>1, <1>5, <1>6, <2>1
  <2>2. CASE q # p BY <1>1, <1>5, <2>2 DEF StatusAgrees
  <2> QED BY <2>1, <2>2
<1>8. map' \in [Page -> SUBSET Bits] /\ bits_free' \in [Page -> Bits] /\ status' \in [Page -> Status]
  BY <1>1, <1>3
<1> QED BY <1>7, <1>8

(* A slab's status tells whether its bitmap is empty or full. *)
LEMMA StatusMeans ==
  ASSUME StatusAgrees, NEW p \in owned
  PROVE  /\ bits_free[p] = MapBits - Cardinality(map[p])
         /\ status[p] = "free" <=> map[p] = {0}
         /\ status[p] = "full" <=> map[p] = Bits
<1>1. Bits # {0} BY DEF Bits
<1> QED BY <1>1 DEF StatusAgrees

(* The lists of an empty cache. *)
LEMMA InitInv == Init => SlabInv
<1> SUFFICES ASSUME Init PROVE SlabInv OBVIOUS
<1>1. owned = {} /\ live = {} BY DEF Init
<1>2. TypeOK
  <2>1. 0 \in Bits /\ NoPage \in Link BY DEF Bits, Link
  <2> QED BY <2>1 DEF Init, TypeOK, Status
<1>3. \A s \in Status : head[s] = NoPage BY DEF Init
<1> QED BY <1>1, <1>2, <1>3 DEF SlabInv, LinkInv, MarkInv, LiveOwned, StatusAgrees

(* New pages from the region, which are not the cache's yet, join the free *)
(* list as slabs that hold their header alone.                             *)
LEMMA AddPageBlockInv ==
  ASSUME SlabInv, NEW base \in Page, AddPageBlock(base), live' = live,
         op' \in {"new", "idle", "retry", "trim"}, outstanding' = outstanding
  PROVE  SlabInv'
<1>1. /\ head \in [Status -> Link] /\ last \in [Page -> Link] /\ next \in [Page -> Link]
      /\ map \in [Page -> SUBSET Bits] /\ bits_free \in [Page -> Bits]
      /\ status \in [Page -> Status] /\ owned \in SUBSET Page
      /\ free_pages \in Int /\ pages_alloced \in Int
      /\ live \in SUBSET (Page \X Bits) /\ outstanding \in Int
  BY DEF SlabInv, TypeOK
<1>2. NoPage \notin Page BY DEF Page
<1>3. PICK top : top = base + BlockPages - 1 OBVIOUS
<1>4. PICK new : new = base..top OBVIOUS
<1>5. /\ new \subseteq Page /\ new \cap owned = {} /\ owned' = owned \cup new
      /\ base \in new /\ top \in new
      /\ \A q \in new : q # base => q - 1 \in new
      /\ \A q \in new : q # top => q + 1 \in new
      /\ \A q \in new : q # base => (q - 1) + 1 = q /\ q - 1 # top
      /\ \A q \in new : q # top => (q + 1) - 1 = q /\ q + 1 # base
  <2>1. new \subseteq Page \ owned /\ owned' = owned \cup new
    BY <1>3, <1>4 DEF AddPageBlock
  <2>2. base \in Nat /\ top \in Nat /\ base <= top BY <1>3 DEF Page
  <2>3. \A q \in new : q \in Nat /\ base <= q /\ q <= top BY <1>4, <2>2
  <2> QED BY <1>4, <2>1, <2>2, <2>3
<1>6. /\ \A s \in Status : head'[s] = IF s = "free" THEN top ELSE head[s]
      /\ \A q \in Page : last'[q] = IF q \in new
                                    THEN IF q = base THEN head["free"] ELSE q - 1
                                    ELSE last[q]
      /\ \A q \in Page : next'[q] = IF q \in new
                                    THEN IF q = top THEN NoPage ELSE q + 1
                                    ELSE IF q = head["free"] THEN base ELSE next[q]
      /\ \A q \in Page : map'[q] = IF q \in new THEN {0} ELSE map[q]
      /\ \A q \in Page : bits_free'[q] = IF q \in new THEN MapBits - 1 ELSE bits_free[q]
      /\ \A q \in Page : status'[q] = IF q \in new THEN "free" ELSE status[q]
  BY <1>1, <1>3, <1>4 DEF AddPageBlock
<1>7. "free" \in Status /\ head["free"] \in Link BY <1>1 DEF Status
<1>8. TypeOK'
  <2>1. {0} \in SUBSET Bits /\ MapBits - 1 \in Bits BY DEF Bits
  <2>2. head' \in [Status -> Link]
    BY <1>1, <1>3, <1>5, <1>7 DEF AddPageBlock, Link
  <2>3. last' \in [Page -> Link]
    <3>1. \A q \in Page : last'[q] \in Link BY <1>1, <1>5, <1>6, <1>7 DEF Link
    <3> QED BY <3>1 DEF AddPageBlock
  <2>4. next' \in [Page -> Link]
    <3>1. \A q \in Page : next'[q] \in Link BY <1>1, <1>5, <1>6, <1>7 DEF Link
    <3> QED BY <3>1 DEF AddPageBlock
  <2>5. map' \in [Page -> SUBSET Bits]
    <3>1. \A q \in Page : map'[q] \in SUBSET Bits BY <1>1, <1>6, <2>1
    <3> QED BY <3>1 DEF AddPageBlock
  <2>6. bits_free' \in [Page -> Bits]
    <3>1. \A q \in Page : bits_free'[q] \in Bits BY <1>1, <1>6, <2>1
    <3> QED BY <3>1 DEF AddPageBlock
  <2>7. status' \in [Page -> Status]
    <3>1. \A q \in Page : status'[q] \in Status BY <1>1, <1>6, <1>7
    <3> QED BY <3>1 DEF AddPageBlock
  <2>8. free_pages' \in Int /\ pages_alloced' \in Int /\ owned' \in SUBSET Page
    BY <1>1, <1>5 DEF AddPageBlock
  <2> QED BY <1>1, <2>2, <2>3, <2>4, <2>5, <2>6, <2>7, <2>8 DEF TypeOK
<1>9. LinkInv'
  <2>1. \A q \in owned' : last'[q] # NoPage =>
          last'[q] \in owned' /\ status'[last'[q]] = status'[q] /\ next'[last'[q]] = q
    <3> SUFFICES ASSUME NEW q \in owned', last'[q] # NoPage
                 PROVE  last'[q] \in owned' /\ status'[last'[q]] = status'[q] /\ next'[last'[q]] = q
      OBVIOUS
    <3>1. CASE q \in new /\ q = base
      BY <1>1, <1>2, <1>5, <1>6, <1>7, <3>1 DEF SlabInv, LinkInv
    <3>2. CASE q \in new /\ q # base BY <1>5, <1>6, <3>2
    <3>3. CASE q \notin new
      <4>1. q \in owned /\ last[q] # NoPage BY <1>1, <1>5, <1>6, <3>3
      <4>2. last[q] \in owned /\ status[last[q]] = status[q] /\ next[last[q]] = q
        BY <4>1 DEF SlabInv, LinkInv
      <4>3. last[q] # head["free"] BY <1>1, <1>2, <1>7, <4>1, <4>2 DEF SlabInv, LinkInv
      <4> QED BY <1>1, <1>5, <1>6, <3>3, <4>1, <4>2, <4>3
    <3> QED BY <3>1, <3>2, <3>3
  <2>2. \A q \in owned' : next'[q] # NoPage =>
          next'[q] \in owned' /\ status'[next'[q]] = status'[q] /\ last'[next'[q]] = q
    <3> SUFFICES ASSUME NEW q \in owned', next'[q] # NoPage
                 PROVE  next'[q] \in owned' /\ status'[next'[q]] = status'[q] /\ last'[next'[q]] = q
      OBVIOUS
    <3>1. CASE q \in new BY <1>5, <1>6, <3>1
    <3>2. CASE q \notin new /\ q = head["free"]
      BY <1>1, <1>2, <1>5, <1>6, <1>7, <3>2 DEF SlabInv, LinkInv
    <3>3. CASE q \notin new /\ q # head["free"]
      BY <1>1, <1>5, <1>6, <3>3 DEF SlabInv, LinkInv
    <3> QED BY <3>1, <3>2, <3>3
  <2>3. \A s \in Status : head'[s] # NoPage =>
          head'[s] \in owned' /\ status'[head'[s]] = s /\ next'[head'[s]] = NoPage
    BY <1>1, <1>2, <1>5, <1>6, <1>7 DEF SlabInv, LinkInv
  <2>4. \A q \in owned' : next'[q] = NoPage => head'[status'[q]] = q
    BY <1>1, <1>2, <1>5, <1>6, <1>7 DEF SlabInv, LinkInv
  <2> QED BY <2>1, <2>2, <2>3, <2>4 DEF LinkInv
<1>10. MarkInv'
  <2> SUFFICES ASSUME NEW q \in owned'
               PROVE  /\ 0 \in map'[q]
                      /\ \A b \in Bits : <<q, b>> \in live <=> b \in map'[q] /\ b # 0
    BY DEF MarkInv
  <2>1. CASE q \in new
    <3>1. \A b \in Bits : <<q, b>> \notin live BY <1>5, <2>1 DEF SlabInv, LiveOwned
    <3> QED BY <1>5, <1>6, <2>1, <3>1
  <2>2. CASE q \notin new BY <1>1, <1>5, <1>6, <2>2 DEF SlabInv, MarkInv
  <2> QED BY <2>1, <2>2
<1>11. LiveOwned' BY <1>5 DEF SlabInv, LiveOwned
<1>12. StatusAgrees'
  <2>1. Cardinality({0}) = 1 BY FS_Singleton
  <2> SUFFICES ASSUME NEW q \in owned'
               PROVE  /\ bits_free'[q] = MapBits - Cardinality(map'[q])
                      /\ status'[q] = CASE map'[q] = {0} -> "free" [] map'[q] = Bits -> "full"
                                        [] OTHER -> "partial"
    BY DEF StatusAgrees
  <2>2. CASE q \in new
    <3>1. Bits # {0} BY DEF Bits
    <3> QED BY <1>5, <1>6, <2>1, <2>2, <3>1
  <2>3. CASE q \notin new BY <1>1, <1>5, <1>6, <2>3 DEF SlabInv, StatusAgrees
  <2> QED BY <2>2, <2>3
<1> QED BY <1>8, <1>9, <1>10, <1>11, <1>12 DEF SlabInv

(* Growing the cache, or failing to. *)
LEMMA GrowInv ==
  ASSUME SlabInv, Grow, live' = live, outstanding' = outstanding,
         op' \in {"new", "idle", "retry", "trim"}
  PROVE  SlabInv'
<1>1. CASE \E base \in Page : AddPageBlock(base) BY <1>1, AddPageBlockInv
<1>2. CASE UNCHANGED <<links, slabs, counts>>
  BY <1>2 DEF SlabInv, TypeOK, LinkInv, MarkInv, LiveOwned, StatusAgrees, links, slabs, counts
<1> QED BY <1>1, <1>2 DEF Grow

(* A block is taken from a partial slab. *)
LEMMA AllocPartialInv == ASSUME SlabInv, AllocPartial PROVE SlabInv'
<1>1. /\ head \in [Status -> Link] /\ map \in [Page -> SUBSET Bits]
      /\ bits_free \in [Page -> Bits] /\ status \in [Page -> Status] /\ owned \in SUBSET Page
      /\ last \in [Page -> Link] /\ next \in [Page -> Link]
      /\ free_pages \in Int /\ pages_alloced \in Int
      /\ live \in SUBSET (Page \X Bits) /\ outstanding \in Int
  BY DEF SlabInv, TypeOK
<1>2. PICK p : p = head["partial"] OBVIOUS
<1>3. p \in owned /\ status[p] = "partial" /\ p \in Page
  BY <1>1, <1>2 DEF AllocPartial, SlabInv, LinkInv, Status
<1>4. map[p] \in SUBSET Bits /\ 0 \in map[p] /\ map[p] # {0} /\ map[p] # Bits
  BY <1>1, <1>3, StatusMeans DEF SlabInv, MarkInv
<1>5. PICK b : b = FirstClear(p) OBVIOUS
<1>6. b \in Bits /\ b \notin map[p] /\ b # 0 BY <1>4, <1>5, FirstClearFacts
<1>7. PICK M : M = map[p] \cup {b} OBVIOUS
<1>8. M \in SUBSET Bits /\ 0 \in M /\ M # {0} BY <1>4, <1>6, <1>7
<1>9. Cardinality(M) = Cardinality(map[p]) + 1 /\ Cardinality(map[p]) \in Nat
  BY <1>4, <1>6, <1>7, BitCounts
<1>10. Give(p, b) BY <1>2, <1>5 DEF AllocPartial
<1>11. bits_free[p] - 1 = MapBits - Cardinality(M)
  BY <1>3, <1>9, StatusMeans DEF SlabInv
<1>12. /\ map' = [map EXCEPT ![p] = M]
       /\ bits_free' = [bits_free EXCEPT ![p] = MapBits - Cardinality(M)]
       /\ bits_free'[p] = MapBits - Cardinality(M)
       /\ live' = live \cup {<<p, b>>} /\ outstanding' = outstanding + 1 /\ op' = "idle"
  BY <1>1, <1>3, <1>7, <1>10, <1>11 DEF Give
<1>13. bits_free'[p] = 0 <=> M = Bits
  <2>1. Cardinality(M) \in Nat BY <1>9
  <2>2. Cardinality(M) = MapBits <=> M = Bits BY <1>8, BitCounts
  <2> QED BY <1>12, <2>1, <2>2
<1>14. owned' = owned /\ free_pages' = free_pages /\ pages_alloced' = pages_alloced
  BY DEF AllocPartial, counts
<1>15. /\ LinkInv' /\ head' \in [Status -> Link] /\ last' \in [Page -> Link]
       /\ next' \in [Page -> Link] /\ StatusAgrees' /\ map' \in [Page -> SUBSET Bits]
       /\ bits_free' \in [Page -> Bits] /\ status' \in [Page -> Status]
  <2>1. CASE bits_free'[p] = 0
    <3>1. status' = [status EXCEPT ![p] = "full"] /\ MoveBlock("partial", "full", p)
      BY <1>2, <2>1 DEF AllocPartial
    <3>2. /\ LinkInv' /\ head' \in [Status -> Link] /\ last' \in [Page -> Link]
          /\ next' \in [Page -> Link]
      <4>1. "partial" \in Status /\ "full" \in Status BY DEF Status
      <4> QED BY <1>3, <1>14, <3>1, <4>1, MoveLinks DEF SlabInv
    <3>3. /\ StatusAgrees' /\ map' \in [Page -> SUBSET Bits]
          /\ bits_free' \in [Page -> Bits] /\ status' \in [Page -> Status]
      <4>1. "full" \in Status BY DEF Status
      <4>2. M = Bits BY <1>13, <2>1
      <4> QED BY <1>3, <1>8, <1>12, <1>14, <3>1, <4>1, <4>2, Reclassify DEF SlabInv
    <3> QED BY <3>2, <3>3
  <2>2. CASE bits_free'[p] # 0
    <3>1. status' = status /\ head' = head /\ last' = last /\ next' = next
      BY <1>2, <2>2 DEF AllocPartial, links
    <3>2. LinkInv' BY <1>14, <3>1 DEF SlabInv, LinkInv
    <3>3. /\ StatusAgrees' /\ map' \in [Page -> SUBSET Bits]
          /\ bits_free' \in [Page -> Bits] /\ status' \in [Page -> Status]
      <4>1. "partial" \in Status BY DEF Status
      <4>2. M # Bits BY <1>13, <2>2
      <4>3. status' = [status EXCEPT ![p] = "partial"] BY <1>1, <1>3, <3>1
      <4> QED BY <1>3, <1>8, <1>12, <1>14, <4>1, <4>2, <4>3, Reclassify DEF SlabInv
    <3> QED BY <1>1, <3>1, <3>2, <3>3
  <2> QED BY <2>1, <2>2
<1>16. MarkInv' BY <1>1, <1>3, <1>6, <1>7, <1>8, <1>12, <1>14 DEF SlabInv, MarkInv
<1>17. LiveOwned' BY <1>3, <1>12, <1>14 DEF SlabInv, LiveOwned
<1>18. TypeOK'
  <2>1. live' \in SUBSET (Page \X Bits) /\ outstanding' \in Int BY <1>1, <1>3, <1>6, <1>12
  <2> QED BY <1>1, <1>12, <1>14, <1>15, <2>1 DEF TypeOK
<1> QED BY <1>15, <1>16, <1>17, <1>18 DEF SlabInv

(* A block is taken from a free slab, which becomes partial: a page holds  *)
(* at least two blocks beside its header.                                  *)
LEMMA AllocFreeInv == ASSUME SlabInv, AllocFree PROVE SlabInv'
<1>1. /\ head \in [Status -> Link] /\ map \in [Page -> SUBSET Bits]
      /\ bits_free \in [Page -> Bits] /\ status \in [Page -> Status] /\ owned \in SUBSET Page
      /\ free_pages \in Int /\ pages_alloced \in Int
      /\ live \in SUBSET (Page \X Bits) /\ outstanding \in Int
  BY DEF SlabInv, TypeOK
<1>2. PICK p : p = head["free"] OBVIOUS
<1>3. p \in owned /\ status[p] = "free" /\ p \in Page
  BY <1>1, <1>2 DEF AllocFree, SlabInv, LinkInv, Status
<1>4. map[p] = {0} /\ bits_free[p] = MapBits - Cardinality(map[p])
  BY <1>3, StatusMeans DEF SlabInv
<1>5. 1 \in Bits /\ {0} \in SUBSET Bits BY DEF Bits
<1>6. PICK M : M = {0} \cup {1} OBVIOUS
<1>7. M \in SUBSET Bits /\ 0 \in M /\ M # {0} /\ M # Bits BY <1>6 DEF Bits
<1>8. Cardinality(M) = Cardinality({0}) + 1 /\ Cardinality({0}) \in Nat
  <2>1. IsFiniteSet({0}) /\ Cardinality({0}) = 1 BY FS_Singleton
  <2>2. Cardinality({0} \cup {1}) = Cardinality({0}) + 1 BY <2>1, FS_AddElement
  <2> QED BY <1>6, <2>1, <2>2
<1>9. bits_free[p] - 1 = MapBits - Cardinality(M) BY <1>4, <1>8
<1>10. Give(p, 1) /\ status' = [status EXCEPT ![p] = "partial"] /\ MoveBlock("free", "partial", p)
  BY <1>2 DEF AllocFree
<1>11. /\ map' = [map EXCEPT ![p] = M]
       /\ bits_free' = [bits_free EXCEPT ![p] = MapBits - Cardinality(M)]
       /\ live' = live \cup {<<p, 1>>} /\ outstanding' = outstanding + 1 /\ op' = "idle"
  BY <1>1, <1>3, <1>4, <1>6, <1>9, <1>10 DEF Give
<1>12. owned' = owned /\ free_pages' \in Int /\ pages_alloced' = pages_alloced
  BY <1>1 DEF AllocFree
<1>13. "partial" \in Status /\ "free" \in Status BY DEF Status
<1>14. /\ LinkInv' /\ head' \in [Status -> Link] /\ last' \in [Page -> Link]
       /\ next' \in [Page -> Link]
  BY <1>3, <1>10, <1>12, <1>13, MoveLinks DEF SlabInv
<1>15. /\ StatusAgrees' /\ map' \in [Page -> SUBSET Bits]
       /\ bits_free' \in [Page -> Bits] /\ status' \in [Page -> Status]
  BY <1>3, <1>7, <1>10, <1>11, <1>12, <1>13, Reclassify DEF SlabInv
<1>16. MarkInv' BY <1>1, <1>3, <1>4, <1>5, <1>6, <1>7, <1>11, <1>12 DEF SlabInv, MarkInv
<1>17. LiveOwned' BY <1>3, <1>11, <1>12 DEF SlabInv, LiveOwned
<1>18. TypeOK'
  <2>1. live' \in SUBSET (Page \X Bits) /\ outstanding' \in Int BY <1>1, <1>3, <1>5, <1>11
  <2> QED BY <1>1, <1>11, <1>12, <1>14, <1>15, <2>1 DEF TypeOK
<1> QED BY <1>14, <1>15, <1>16, <1>17, <1>18 DEF SlabInv

(* A block comes back: a full slab becomes partial, one left with its      *)
(* header alone becomes free.                                              *)
LEMMA SlabFreeInv ==
  ASSUME SlabInv, NEW p \in Page, NEW b \in Bits, SlabFree(p, b) PROVE SlabInv'
<1>1. /\ head \in [Status -> Link] /\ map \in [Page -> SUBSET Bits]
      /\ bits_free \in [Page -> Bits] /\ status \in [Page -> Status] /\ owned \in SUBSET Page
      /\ last \in [Page -> Link] /\ next \in [Page -> Link]
      /\ free_pages \in Int /\ pages_alloced \in Int
      /\ live \in SUBSET (Page \X Bits) /\ outstanding \in Int
  BY DEF SlabInv, TypeOK
<1>2. <<p, b>> \in live BY DEF SlabFree
<1>3. p \in owned BY <1>2 DEF SlabInv, LiveOwned
<1>4. b \in map[p] /\ b # 0 /\ 0 \in map[p] /\ map[p] \in SUBSET Bits
  BY <1>1, <1>2, <1>3 DEF SlabInv, MarkInv
<1>5. PICK M : M = map[p] \ {b} OBVIOUS
<1>6. M \in SUBSET Bits /\ 0 \in M /\ M # Bits BY <1>4, <1>5
<1>7. Cardinality(M) = Cardinality(map[p]) - 1 /\ Cardinality(map[p]) \in Nat
  BY <1>4, <1>5, BitCounts
<1>8. bits_free[p] + 1 = MapBits - Cardinality(M) BY <1>3, <1>7, StatusMeans DEF SlabInv
<1>9. /\ map' = [map EXCEPT ![p] = M]
      /\ bits_free' = [bits_free EXCEPT ![p] = MapBits - Cardinality(M)]
      /\ bits_free'[p] = MapBits - Cardinality(M)
      /\ live' = live \ {<<p, b>>} /\ outstanding' = outstanding - 1 /\ op' = "trim"
  BY <1>1, <1>3, <1>5, <1>8 DEF SlabFree, ClearBit
<1>10. owned' = owned /\ pages_alloced' = pages_alloced BY DEF SlabFree
<1>11. bits_free'[p] = MapBits - 1 <=> M = {0}
  <2>1. Cardinality(M) \in Nat BY <1>6, BitCounts
  <2>2. Cardinality(M) = 1 <=> M = {0} BY <1>6, BitCounts
  <2> QED BY <1>9, <2>1, <2>2
<1>12. status[p] = "full" <=> map[p] = Bits BY <1>3, StatusMeans DEF SlabInv
<1>13. status[p] # "free"
  <2>1. map[p] # {0} BY <1>4
  <2> QED BY <1>3, <2>1, StatusMeans DEF SlabInv
<1>14. "partial" \in Status /\ "free" \in Status /\ "full" \in Status BY DEF Status
<1>15. /\ LinkInv' /\ head' \in [Status -> Link] /\ last' \in [Page -> Link]
       /\ next' \in [Page -> Link] /\ StatusAgrees' /\ map' \in [Page -> SUBSET Bits]
       /\ bits_free' \in [Page -> Bits] /\ status' \in [Page -> Status] /\ free_pages' \in Int
  <2>1. CASE status[p] = "full"
    <3>1. /\ status' = [status EXCEPT ![p] = "partial"] /\ MoveBlock("full", "partial", p)
          /\ free_pages' = free_pages
      BY <2>1 DEF SlabFree
    <3>2. M # {0}
      <4>1. PICK c \in Bits : c # 0 /\ c # b BY <1>4 DEF Bits
      <4> QED BY <1>5, <1>12, <2>1, <4>1
    <3>3. /\ LinkInv' /\ head' \in [Status -> Link] /\ last' \in [Page -> Link]
          /\ next' \in [Page -> Link]
      BY <1>3, <1>10, <1>14, <2>1, <3>1, MoveLinks DEF SlabInv
    <3>4. /\ StatusAgrees' /\ map' \in [Page -> SUBSET Bits]
          /\ bits_free' \in [Page -> Bits] /\ status' \in [Page -> Status]
      BY <1>3, <1>6, <1>9, <1>10, <1>14, <3>1, <3>2, Reclassify DEF SlabInv
    <3> QED BY <1>1, <3>1, <3>3, <3>4
  <2>2. CASE status[p] # "full" /\ Emptied(p)
    <3>1. /\ status' = [status EXCEPT ![p] = "free"] /\ MoveBlock("partial", "free", p)
          /\ free_pages' = free_pages + 1
      BY <2>2 DEF SlabFree
    <3>2. status[p] = "partial" /\ M = {0} BY <1>11, <2>2 DEF Emptied
    <3>3. /\ LinkInv' /\ head' \in [Status -> Link] /\ last' \in [Page -> Link]
          /\ next' \in [Page -> Link]
      BY <1>3, <1>10, <1>14, <3>1, <3>2, MoveLinks DEF SlabInv
    <3>4. /\ StatusAgrees' /\ map' \in [Page -> SUBSET Bits]
          /\ bits_free' \in [Page -> Bits] /\ status' \in [Page -> Status]
      BY <1>3, <1>6, <1>9, <1>10, <1>14, <3>1, <3>2, Reclassify DEF SlabInv
    <3> QED BY <1>1, <3>1, <3>3, <3>4
  <2>3. CASE status[p] # "full" /\ ~Emptied(p)
    <3>1. /\ status' = status /\ head' = head /\ last' = last /\ next' = next
          /\ free_pages' = free_pages
      BY <2>3 DEF SlabFree, links
    <3>2. status[p] = "partial" BY <1>1, <1>3, <1>13, <2>3 DEF Status
    <3>3. M # {0} BY <1>11, <2>3, <3>2 DEF Emptied
    <3>4. LinkInv' BY <1>10, <3>1 DEF SlabInv, LinkInv
    <3>5. status' = [status EXCEPT ![p] = "partial"] BY <1>1, <1>3, <3>1, <3>2
    <3>6. /\ StatusAgrees' /\ map' \in [Page -> SUBSET Bits]
          /\ bits_free' \in [Page -> Bits] /\ status' \in [Page -> Status]
      BY <1>3, <1>6, <1>9, <1>10, <1>14, <3>3, <3>5, Reclassify DEF SlabInv
    <3> QED BY <1>1, <3>1, <3>4, <3>6
  <2> QED BY <2>1, <2>2, <2>3
<1>16. MarkInv' BY <1>1, <1>3, <1>5, <1>6, <1>9, <1>10 DEF SlabInv, MarkInv
<1>17. LiveOwned' BY <1>9, <1>10 DEF SlabInv, LiveOwned
<1>18. TypeOK'
  <2>1. live' \in SUBSET (Page \X Bits) /\ outstanding' \in Int BY <1>1, <1>9
  <2> QED BY <1>1, <1>9, <1>10, <1>15, <2>1 DEF TypeOK
<1> QED BY <1>15, <1>16, <1>17, <1>18 DEF SlabInv

(* A page that goes back to the region holds no block in anybody's hands. *)
LEMMA TrimInv == ASSUME SlabInv, Trim PROVE SlabInv'
<1>1. /\ head \in [Status -> Link] /\ map \in [Page -> SUBSET Bits]
      /\ bits_free \in [Page -> Bits] /\ status \in [Page -> Status] /\ owned \in SUBSET Page
      /\ last \in [Page -> Link] /\ next \in [Page -> Link]
      /\ free_pages \in Int /\ pages_alloced \in Int
      /\ live \in SUBSET (Page \X Bits) /\ outstanding \in Int
  BY DEF SlabInv, TypeOK
<1>2. /\ map' = map /\ bits_free' = bits_free /\ status' = status /\ live' = live
      /\ outstanding' = outstanding /\ op' = "idle"
  BY DEF Trim, slabs
<1>3. CASE UNCHANGED <<links, counts>>
  BY <1>2, <1>3 DEF SlabInv, TypeOK, LinkInv, MarkInv, LiveOwned, StatusAgrees, links, counts
<1>4. CASE FreeOneCachePage
  <2>1. PICK p : p = head["free"] OBVIOUS
  <2>2. NoPage \notin Page BY DEF Page
  <2>3. p # NoPage /\ p \in Page /\ p \in owned /\ status[p] = "free" /\ next[p] = NoPage
    BY <1>1, <1>4, <2>1 DEF FreeOneCachePage, SlabInv, LinkInv, Status
  <2>4. /\ owned' = owned \ {p}
        /\ \A s \in Status : head'[s] = IF s = "free" THEN last[p] ELSE head[s]
        /\ \A q \in Page : last'[q] = last[q]
        /\ \A q \in Page : next'[q] = IF q = last[p] THEN NoPage ELSE next[q]
    BY <1>1, <1>4, <2>1, <2>2, <2>3 DEF FreeOneCachePage
  <2>5. TypeOK'
    <3>1. head' \in [Status -> Link] /\ last' \in [Page -> Link] /\ next' \in [Page -> Link]
      BY <1>1, <1>4, <2>1, <2>3 DEF FreeOneCachePage, Status
    <3>2. free_pages' \in Int /\ pages_alloced' \in Int /\ owned' \in SUBSET Page
      BY <1>1, <1>4, <2>4 DEF FreeOneCachePage
    <3> QED BY <1>1, <1>2, <3>1, <3>2 DEF TypeOK
  <2>6. LinkInv'
    <3>1. \A q \in owned' : last'[q] # NoPage =>
            last'[q] \in owned' /\ status'[last'[q]] = status'[q] /\ next'[last'[q]] = q
      BY <1>1, <1>2, <2>2, <2>3, <2>4 DEF SlabInv, LinkInv
    <3>2. \A q \in owned' : next'[q] # NoPage =>
            next'[q] \in owned' /\ status'[next'[q]] = status'[q] /\ last'[next'[q]] = q
      BY <1>1, <1>2, <2>2, <2>3, <2>4 DEF SlabInv, LinkInv
    <3>3. \A s \in Status : head'[s] # NoPage =>
            head'[s] \in owned' /\ status'[head'[s]] = s /\ next'[head'[s]] = NoPage
      BY <1>1, <1>2, <2>2, <2>3, <2>4 DEF SlabInv, LinkInv
    <3>4. \A q \in owned' : next'[q] = NoPage => head'[status'[q]] = q
      BY <1>1, <1>2, <2>1, <2>2, <2>3, <2>4 DEF SlabInv, LinkInv
    <3> QED BY <3>1, <3>2, <3>3, <3>4 DEF LinkInv
  <2>7. MarkInv' BY <1>2, <2>4 DEF SlabInv, MarkInv
  <2>8. LiveOwned'
    <3>1. map[p] = {0} BY <2>3, StatusMeans DEF SlabInv
    <3>2. \A c \in Bits : <<p, c>> \notin live BY <2>3, <3>1 DEF SlabInv, MarkInv
    <3>3. \A c \in live : c[1] # p BY <1>1, <3>2
    <3> QED BY <1>2, <2>4, <3>3 DEF SlabInv, LiveOwned
  <2>9. StatusAgrees' BY <1>2, <2>4 DEF SlabInv, StatusAgrees
  <2> QED BY <2>5, <2>6, <2>7, <2>8, <2>9 DEF SlabInv
<1> QED BY <1>3, <1>4 DEF Trim

(* Every step of the cache keeps the invariant. *)
LEMMA NextInv == ASSUME SlabInv, [Next]_vars PROVE SlabInv'
<1>1. CASE NewSlabCache BY <1>1, GrowInv DEF NewSlabCache
<1>2. CASE AllocPartial BY <1>2, AllocPartialInv
<1>3. CASE AllocFree BY <1>3, AllocFreeInv
<1>4. CASE AllocGrow BY <1>4, GrowInv DEF AllocGrow
<1>5. CASE Trim BY <1>5, TrimInv
<1>6. CASE \E p \in Page, b \in Bits : SlabFree(p, b) BY <1>6, SlabFreeInv
<1>7. CASE UNCHANGED vars
  BY <1>7 DEF vars, SlabInv, TypeOK, LinkInv, MarkInv, LiveOwned, StatusAgrees
<1> QED BY <1>1, <1>2, <1>3, <1>4, <1>5, <1>6, <1>7 DEF Next

(* SlabInv is an inductive invariant: the links of the three lists, the    *)
(* bitmaps, the counts and the statuses of the slabs stay consistent.      *)
THEOREM Invariance == Spec => []SlabInv
<1>1. Init => SlabInv BY InitInv
<1>2. SlabInv /\ [Next]_vars => SlabInv' BY NextInv
<1> QED BY <1>1, <1>2, PTL DEF Spec

(* The variables of the cache keep their types: the search for a clear bit *)
(* never runs past the page.                                               *)
THEOREM TypeCorrect == Spec => []TypeOK
<1>1. SlabInv => TypeOK BY DEF SlabInv
<1> QED BY <1>1, Invariance, PTL

(* free_one_cache_page takes no page that holds a block in use. *)
THEOREM TrimSafe == Spec => []LiveOwned
<1>1. SlabInv => LiveOwned BY DEF SlabInv
<1> QED BY <1>1, Invariance, PTL

(* What a slab says of itself is what its bitmap says. *)
THEOREM StatusCorrect == Spec => []StatusAgrees
<1>1. SlabInv => StatusAgrees BY DEF SlabInv
<1> QED BY <1>1, Invariance, PTL

(* slab_alloc hands out a block that nobody holds, never a slab's header   *)
(* and never beyond the page; slab_free takes back what was handed out:    *)
(* the cache implements the block allocator.                               *)
THEOREM Refinement == Spec => ImplementsAllocator
<1>1. Init => Allocator!Init BY DEF Init, Allocator!Init
<1>2. ASSUME SlabInv, [Next]_vars PROVE [Allocator!Next]_<<live, outstanding>>
  <2>1. map \in [Page -> SUBSET Bits] /\ head \in [Status -> Link] /\ owned \in SUBSET Page
    BY <1>2 DEF SlabInv, TypeOK
  <2>2. CASE AllocPartial
    <3>1. PICK p : p = head["partial"] OBVIOUS
    <3>2. p \in owned /\ status[p] = "partial" /\ p \in Page
      BY <1>2, <2>1, <2>2, <3>1 DEF AllocPartial, SlabInv, LinkInv, Status
    <3>3. map[p] \in SUBSET Bits /\ 0 \in map[p] /\ map[p] # Bits
      BY <1>2, <2>1, <3>2, StatusMeans DEF SlabInv, MarkInv
    <3>4. PICK b : b = FirstClear(p) OBVIOUS
    <3>5. b \in Bits /\ b \notin map[p] /\ b # 0 BY <3>3, <3>4, FirstClearFacts
    <3>6. Give(p, b) BY <2>2, <3>1, <3>4 DEF AllocPartial
    <3>7. <<p, b>> \in Blocks BY <3>2, <3>5 DEF Blocks, Bits
    <3>8. <<p, b>> \notin live BY <1>2, <3>2, <3>5 DEF SlabInv, MarkInv
    <3>9. Allocator!Alloc(<<p, b>>) BY <3>6, <3>8 DEF Give, Allocator!Alloc
    <3> QED BY <3>7, <3>9 DEF Allocator!Next
  <2>3. CASE AllocFree
    <3>1. PICK p : p = head["free"] OBVIOUS
    <3>2. p \in owned /\ status[p] = "free" /\ p \in Page
      BY <1>2, <2>1, <2>3, <3>1 DEF AllocFree, SlabInv, LinkInv, Status
    <3>3. map[p] = {0} BY <1>2, <3>2, StatusMeans DEF SlabInv
    <3>4. 1 \in Bits /\ <<p, 1>> \in Blocks BY <3>2 DEF Blocks, Bits
    <3>5. <<p, 1>> \notin live BY <1>2, <3>2, <3>3, <3>4 DEF SlabInv, MarkInv
    <3>6. Give(p, 1) BY <2>3, <3>1 DEF AllocFree
    <3>7. Allocator!Alloc(<<p, 1>>) BY <3>5, <3>6 DEF Give, Allocator!Alloc
    <3> QED BY <3>4, <3>7 DEF Allocator!Next
  <2>4. ASSUME NEW p \in Page, NEW b \in Bits, SlabFree(p, b) PROVE Allocator!Next
    <3>1. <<p, b>> \in live BY <2>4 DEF SlabFree
    <3>2. p \in owned BY <1>2, <3>1 DEF SlabInv, LiveOwned
    <3>3. b # 0 BY <1>2, <3>1, <3>2 DEF SlabInv, MarkInv
    <3>4. <<p, b>> \in Blocks BY <3>3 DEF Blocks, Bits
    <3>5. Allocator!Free(<<p, b>>) BY <2>4 DEF SlabFree, Allocator!Free
    <3> QED BY <3>4, <3>5 DEF Allocator!Next
  <2>5. CASE NewSlabCache BY <2>5 DEF NewSlabCache
  <2>6. CASE AllocGrow BY <2>6 DEF AllocGrow
  <2>7. CASE Trim BY <2>7 DEF Trim
  <2>8. CASE UNCHANGED vars BY <2>8 DEF vars
  <2> QED BY <1>2, <2>2, <2>3, <2>4, <2>5, <2>6, <2>7, <2>8 DEF Next
<1> QED BY <1>1, <1>2, Invariance, PTL DEF Spec, ImplementsAllocator, Allocator!Spec

-----------------------------------------------------------------------------
(* The lists have no cycles: ranks, all below some bound, that go down     *)
(* with every link to an older slab.                                       *)
Ranked(rank, N) ==
  /\ \A q \in Page : rank[q] \in Nat /\ rank[q] < N
  /\ \A q \in owned : last[q] # NoPage => rank[last[q]] < rank[q]

Acyclic == \E rank \in [Page -> Nat], N \in Nat : Ranked(rank, N)

(* Moving a slab to the front of another list closes no cycle. *)
LEMMA MoveAcyclic ==
  ASSUME TypeOK, LinkInv, Acyclic, NEW from \in Status, NEW to \in Status, from # to,
         NEW p \in owned, status[p] = from, MoveBlock(from, to, p), owned' = owned
  PROVE  Acyclic'
<1>1. /\ head \in [Status -> Link] /\ last \in [Page -> Link] /\ next \in [Page -> Link]
      /\ owned \in SUBSET Page
  BY DEF TypeOK
<1>2. NoPage \notin Page BY DEF Page
<1>3. \A q \in Page : last'[q] = IF q = p THEN head[to]
                                 ELSE IF q = next[p] THEN last[p] ELSE last[q]
  BY <1>1 DEF MoveBlock
<1>4. PICK rank \in [Page -> Nat], N \in Nat : Ranked(rank, N) BY DEF Acyclic
<1>5. PICK more : more = [rank EXCEPT ![p] = N] OBVIOUS
<1>6. more \in [Page -> Nat] /\ \A q \in Page : more[q] = IF q = p THEN N ELSE rank[q]
  BY <1>1, <1>4, <1>5
<1>7. \A q \in owned : last[q] # NoPage => /\ last[q] \in owned /\ next[last[q]] = q
                                           /\ rank[last[q]] < rank[q]
  BY <1>4 DEF LinkInv, Ranked
<1>8. ASSUME NEW q \in owned, last'[q] # NoPage PROVE more[last'[q]] < more[q]
  <2>1. CASE q = p
    <3>1. last'[q] = head[to] /\ head[to] \in owned /\ status[head[to]] = to
      BY <1>1, <1>3, <1>8, <2>1 DEF LinkInv
    <3>2. head[to] # p /\ head[to] \in Page BY <1>1, <3>1
    <3> QED BY <1>1, <1>4, <1>6, <2>1, <3>1, <3>2 DEF Ranked
  <2>2. CASE q # p /\ q = next[p]
    <3>1. last'[q] = last[p] /\ last[q] = p
      BY <1>1, <1>2, <1>3, <2>2 DEF LinkInv
    <3>2. last[p] \in owned /\ rank[last[p]] < rank[p] BY <1>7, <1>8, <3>1
    <3>3. rank[p] < rank[q] BY <1>1, <1>2, <1>7, <3>1
    <3>4. last[p] # p /\ last[p] \in Page /\ rank[last[p]] \in Nat /\ rank[p] \in Nat /\ rank[q] \in Nat
      BY <1>1, <1>4, <3>2
    <3>5. more[last[p]] = rank[last[p]] /\ more[q] = rank[q] BY <1>1, <1>6, <2>2, <3>4
    <3> QED BY <3>1, <3>2, <3>3, <3>4, <3>5
  <2>3. CASE q # p /\ q # next[p]
    <3>1. last'[q] = last[q] BY <1>1, <1>3, <2>3
    <3>2. last[q] # p /\ last[q] \in Page BY <1>1, <1>7, <1>8, <2>3, <3>1
    <3> QED BY <1>1, <1>6, <1>7, <1>8, <2>3, <3>1, <3>2
  <2> QED BY <2>1, <2>2, <2>3
<1>9. Ranked(more, N + 1)'
  <2>1. \A q \in Page : more[q] \in Nat /\ more[q] < N + 1 BY <1>4, <1>6 DEF Ranked
  <2> QED BY <1>8, <2>1 DEF Ranked
<1>10. N + 1 \in Nat OBVIOUS
<1> QED BY <1>6, <1>9, <1>10 DEF Acyclic

(* Nor do new pages, each in front of the one before. *)
LEMMA AddAcyclic ==
  ASSUME TypeOK, LinkInv, Acyclic, NEW base \in Page, AddPageBlock(base)
  PROVE  Acyclic'
<1>1. /\ head \in [Status -> Link] /\ last \in [Page -> Link] /\ owned \in SUBSET Page
  BY DEF TypeOK
<1>2. NoPage \notin Page /\ NPages \in Nat /\ \A q \in Page : q \in Nat /\ q < NPages BY DEF Page
<1>3. PICK new : new = base..(base + BlockPages - 1) OBVIOUS
<1>4. /\ new \subseteq Page /\ new \cap owned = {} /\ owned' = owned \cup new /\ base \in new
      /\ \A q \in new : q # base => q - 1 \in new
  <2>1. new \subseteq Page \ owned /\ owned' = owned \cup new BY <1>3 DEF AddPageBlock
  <2>2. base \in Nat BY <1>2
  <2> QED BY <1>3, <2>1, <2>2
<1>5. \A q \in Page : last'[q] = IF q \in new
                                 THEN IF q = base THEN head["free"] ELSE q - 1
                                 ELSE last[q]
  BY <1>1, <1>3 DEF AddPageBlock
<1>6. PICK rank \in [Page -> Nat], N \in Nat : Ranked(rank, N) BY DEF Acyclic
<1>7. PICK more : more = [q \in Page |-> IF q \in new THEN N + q ELSE rank[q]] OBVIOUS
<1>8. more \in [Page -> Nat] /\ \A q \in Page : more[q] = IF q \in new THEN N + q ELSE rank[q]
  BY <1>2, <1>6, <1>7
<1>9. \A q \in Page : rank[q] \in Nat /\ rank[q] < N BY <1>6 DEF Ranked
<1>10. ASSUME NEW q \in owned', last'[q] # NoPage PROVE more[last'[q]] < more[q]
  <2>0. q \in Page /\ q \in Nat BY <1>1, <1>2, <1>4
  <2>1. CASE q \in new /\ q = base
    <3>1. last'[q] = head["free"] BY <1>5, <2>0, <2>1
    <3>2. head["free"] \in owned /\ head["free"] \in Page
      BY <1>1, <1>10, <3>1 DEF LinkInv, Status
    <3>3. more[head["free"]] < N BY <1>4, <1>8, <1>9, <3>2
    <3>4. more[q] = N + q BY <1>8, <2>0, <2>1
    <3>5. more[head["free"]] \in Nat BY <1>8, <3>2
    <3> QED BY <2>0, <3>1, <3>3, <3>4, <3>5
  <2>2. CASE q \in new /\ q # base
    <3>1. last'[q] = q - 1 /\ q - 1 \in new BY <1>4, <1>5, <2>0, <2>2
    <3> QED BY <1>4, <1>8, <2>0, <2>2, <3>1
  <2>3. CASE q \notin new
    <3>1. q \in owned /\ last'[q] = last[q] BY <1>4, <1>5, <2>0, <2>3
    <3>2. last[q] \in owned /\ rank[last[q]] < rank[q] BY <1>6, <1>10, <3>1 DEF LinkInv, Ranked
    <3> QED BY <1>1, <1>4, <1>8, <2>0, <2>3, <3>1, <3>2
  <2> QED BY <2>1, <2>2, <2>3
<1>11. Ranked(more, N + NPages)'
  <2>1. \A q \in Page : more[q] \in Nat /\ more[q] < N + NPages BY <1>2, <1>8, <1>9
  <2> QED BY <1>10, <2>1 DEF Ranked
<1>12. N + NPages \in Nat BY <1>2
<1> QED BY <1>8, <1>11, <1>12 DEF Acyclic

-----------------------------------------------------------------------------
(* The slabs that free_pages counts *)
Free == {p \in owned : status[p] = "free"}

(* The pages of the cache are finitely many. *)
LEMMA CountFacts ==
  ASSUME TypeOK
  PROVE  IsFiniteSet(Page) /\ Cardinality(Page) = NPages /\ IsFiniteSet(owned) /\ IsFiniteSet(Free)
<1>1. IsFiniteSet(Page) /\ Cardinality(Page) = NPages
  <2>1. 0 \in Int /\ NPages - 1 \in Int /\ (NPages - 1) - 0 + 1 = NPages OBVIOUS
  <2> QED BY <2>1, FS_Interval DEF Page
<1>2. IsFiniteSet(owned) BY <1>1, FS_Subset DEF TypeOK
<1>3. Free \in SUBSET owned BY DEF Free
<1> QED BY <1>1, <1>2, <1>3, FS_Subset

(* A slab leaves the free ones, or joins them. *)
LEMMA MoveCounts ==
  ASSUME TypeOK, CountsAgree, NEW to \in Status, NEW p \in owned,
         status' = [status EXCEPT ![p] = to], owned' = owned, pages_alloced' = pages_alloced,
         free_pages' = IF status[p] = "free" /\ to # "free" THEN free_pages - 1
                       ELSE IF status[p] # "free" /\ to = "free" THEN free_pages + 1
                       ELSE free_pages
  PROVE  CountsAgree'
<1>1. \A q \in owned : status'[q] = IF q = p THEN to ELSE status[q] BY DEF TypeOK
<1>2. IsFiniteSet(Free) /\ Cardinality(Free) = free_pages BY CountFacts DEF CountsAgree, Free
<1>3. Free' = IF to = "free" THEN Free \cup {p} ELSE Free \ {p} BY <1>1 DEF Free
<1>4. p \in Free <=> status[p] = "free" BY DEF Free
<1>5. Cardinality(Free') = free_pages'
  <2>1. CASE to = "free" BY <1>2, <1>3, <1>4, <2>1, FS_AddElement
  <2>2. CASE to # "free" BY <1>2, <1>3, <1>4, <2>2, FS_RemoveElement
  <2> QED BY <2>1, <2>2
<1> QED BY <1>5 DEF CountsAgree, Free

(* New pages are counted, in both counters. *)
LEMMA AddCounts ==
  ASSUME TypeOK, CountsAgree, NEW base \in Page, AddPageBlock(base)
  PROVE  CountsAgree'
<1>1. PICK new : new = base..(base + BlockPages - 1) OBVIOUS
<1>2. IsFiniteSet(new) /\ Cardinality(new) = BlockPages
  <2>1. PICK top \in Nat : top = base + BlockPages - 1 /\ base \in Nat /\ base <= top
                           /\ top - base + 1 = BlockPages
    BY DEF Page
  <2> QED BY <1>1, <2>1, FS_Interval
<1>3. /\ new \subseteq Page /\ new \cap owned = {} /\ owned' = owned \cup new
      /\ free_pages' = free_pages + BlockPages /\ pages_alloced' = pages_alloced + BlockPages
  BY <1>1 DEF AddPageBlock
<1>4. \A q \in Page : status'[q] = IF q \in new THEN "free" ELSE status[q]
  BY <1>1 DEF AddPageBlock
<1>5. Free' = Free \cup new /\ Free \cap new = {} /\ owned \subseteq Page
  BY <1>3, <1>4 DEF Free, TypeOK
<1>6. Cardinality({}) = 0 BY FS_EmptySet
<1>7. Cardinality(owned') = pages_alloced'
  <2>1. Cardinality(owned \cup new) = Cardinality(owned) + Cardinality(new) - Cardinality(owned \cap new)
    BY <1>2, CountFacts, FS_Union
  <2>2. owned \cap new = {} BY <1>3
  <2>3. Cardinality(owned) = pages_alloced /\ pages_alloced \in Int BY DEF CountsAgree, TypeOK
  <2>4. Cardinality(owned \cup new) = pages_alloced + BlockPages - 0
    BY <1>2, <1>6, <2>1, <2>2, <2>3
  <2> QED BY <1>3, <2>3, <2>4
<1>8. Cardinality(Free') = free_pages'
  <2>1. Cardinality(Free \cup new) = Cardinality(Free) + Cardinality(new) - Cardinality(Free \cap new)
    BY <1>2, CountFacts, FS_Union
  <2>2. Cardinality(Free) = free_pages /\ free_pages \in Int BY DEF CountsAgree, TypeOK, Free
  <2>3. Cardinality(Free \cup new) = free_pages + BlockPages - 0
    BY <1>2, <1>5, <1>6, <2>1, <2>2
  <2> QED BY <1>3, <1>5, <2>2, <2>3
<1> QED BY <1>7, <1>8 DEF CountsAgree, Free

(* What is left alone by a call that changes no list. *)
LEMMA SameOrder ==
  ASSUME Acyclic, CountsAgree, UNCHANGED <<last, status, owned, free_pages, pages_alloced>>
  PROVE  Acyclic' /\ CountsAgree'
BY DEF Acyclic, Ranked, CountsAgree

(* Every step keeps the lists free of cycles and the counters right. *)
LEMMA NextOrder ==
  ASSUME SlabInv, Acyclic, CountsAgree, [Next]_vars
  PROVE  Acyclic' /\ CountsAgree'
<1>1. TypeOK /\ LinkInv BY DEF SlabInv
<1>2. /\ head \in [Status -> Link] /\ owned \in SUBSET Page /\ status \in [Page -> Status]
      /\ last \in [Page -> Link] /\ next \in [Page -> Link]
  BY <1>1 DEF TypeOK
<1>3. "free" \in Status /\ "partial" \in Status /\ "full" \in Status BY DEF Status
<1>4. \A s \in Status : head[s] # NoPage => head[s] \in owned /\ status[head[s]] = s
  BY <1>1 DEF LinkInv
<1>5. CASE NewSlabCache \/ AllocGrow
  <2>1. CASE \E base \in Page : AddPageBlock(base) BY <1>1, <2>1, AddAcyclic, AddCounts
  <2>2. CASE UNCHANGED <<links, slabs, counts>>
    BY <2>2, SameOrder DEF links, slabs, counts
  <2> QED BY <1>5, <2>1, <2>2 DEF NewSlabCache, AllocGrow, Grow
<1>6. CASE AllocPartial
  <2>1. PICK p : p = head["partial"] OBVIOUS
  <2>2. p \in owned /\ status[p] = "partial" BY <1>3, <1>4, <1>6, <2>1 DEF AllocPartial
  <2>3. UNCHANGED <<owned, free_pages, pages_alloced>> BY <1>6 DEF AllocPartial, counts
  <2>4. CASE status' = [status EXCEPT ![p] = "full"] /\ MoveBlock("partial", "full", p)
    <3>1. Acyclic' BY <1>1, <1>3, <2>2, <2>3, <2>4, MoveAcyclic
    <3>2. CountsAgree' BY <1>1, <1>3, <2>2, <2>3, <2>4, MoveCounts
    <3> QED BY <3>1, <3>2
  <2>5. CASE UNCHANGED <<links, status>> BY <2>3, <2>5, SameOrder DEF links
  <2> QED BY <1>6, <2>1, <2>4, <2>5 DEF AllocPartial
<1>7. CASE AllocFree
  <2>1. PICK p : p = head["free"] OBVIOUS
  <2>2. p \in owned /\ status[p] = "free" BY <1>3, <1>4, <1>7, <2>1 DEF AllocFree
  <2>3. /\ UNCHANGED <<owned, pages_alloced>> /\ free_pages' = free_pages - 1
        /\ status' = [status EXCEPT ![p] = "partial"] /\ MoveBlock("free", "partial", p)
    BY <1>7, <2>1 DEF AllocFree
  <2>4. Acyclic' BY <1>1, <1>3, <2>2, <2>3, MoveAcyclic
  <2>5. CountsAgree' BY <1>1, <1>3, <2>2, <2>3, MoveCounts
  <2> QED BY <2>4, <2>5
<1>8. ASSUME NEW p \in Page, NEW b \in Bits, SlabFree(p, b) PROVE Acyclic' /\ CountsAgree'
  <2>1. p \in owned BY <1>8 DEF SlabFree, SlabInv, LiveOwned
  <2>2. UNCHANGED <<owned, pages_alloced>> BY <1>8 DEF SlabFree
  <2>3. CASE status[p] = "full"
    <3>1. /\ free_pages' = free_pages /\ status' = [status EXCEPT ![p] = "partial"]
          /\ MoveBlock("full", "partial", p)
      BY <1>8, <2>3 DEF SlabFree
    <3>2. Acyclic' BY <1>1, <1>3, <2>1, <2>2, <2>3, <3>1, MoveAcyclic
    <3>3. CountsAgree' BY <1>1, <1>3, <2>1, <2>2, <2>3, <3>1, MoveCounts
    <3> QED BY <3>2, <3>3
  <2>4. CASE status[p] # "full" /\ Emptied(p)
    <3>1. /\ free_pages' = free_pages + 1 /\ status' = [status EXCEPT ![p] = "free"]
          /\ MoveBlock("partial", "free", p) /\ status[p] = "partial"
      BY <1>8, <2>4 DEF SlabFree, Emptied
    <3>2. Acyclic' BY <1>1, <1>3, <2>1, <2>2, <3>1, MoveAcyclic
    <3>3. CountsAgree' BY <1>1, <1>3, <2>1, <2>2, <3>1, MoveCounts
    <3> QED BY <3>2, <3>3
  <2>5. CASE status[p] # "full" /\ ~Emptied(p)
    <3>1. UNCHANGED <<last, status, free_pages>> BY <1>8, <2>5 DEF SlabFree, links
    <3> QED BY <2>2, <3>1, SameOrder
  <2> QED BY <2>3, <2>4, <2>5
<1>9. CASE Trim
  <2>1. status' = status BY <1>9 DEF Trim, slabs
  <2>2. CASE UNCHANGED <<links, counts>> BY <2>1, <2>2, SameOrder DEF links, counts
  <2>3. CASE FreeOneCachePage
    <3>1. PICK p : p = head["free"] OBVIOUS
    <3>2. p # NoPage /\ p \in owned /\ status[p] = "free" /\ next[p] = NoPage /\ NoPage \notin Page
      BY <1>1, <1>3, <1>4, <2>3, <3>1 DEF FreeOneCachePage, LinkInv, Page
    <3>3. /\ owned' = owned \ {p} /\ free_pages' = free_pages - 1
          /\ pages_alloced' = pages_alloced - 1
          /\ \A q \in Page : last'[q] = last[q]
      BY <1>2, <2>3, <3>1, <3>2 DEF FreeOneCachePage
    <3>4. Acyclic'
      <4>1. PICK rank \in [Page -> Nat], N \in Nat : Ranked(rank, N) BY DEF Acyclic
      <4>2. Ranked(rank, N)' BY <1>2, <3>3, <4>1 DEF Ranked
      <4> QED BY <4>2 DEF Acyclic
    <3>5. CountsAgree'
      <4>1. Free' = Free \ {p} /\ p \in Free BY <2>1, <3>2, <3>3 DEF Free
      <4>2. Cardinality(Free') = Cardinality(Free) - 1 BY <1>1, <4>1, CountFacts, FS_RemoveElement
      <4>3. Cardinality(owned') = Cardinality(owned) - 1
        BY <1>1, <3>2, <3>3, CountFacts, FS_RemoveElement
      <4> QED BY <3>3, <4>2, <4>3 DEF CountsAgree, Free
    <3> QED BY <3>4, <3>5
  <2> QED BY <1>9, <2>2, <2>3 DEF Trim
<1>10. CASE UNCHANGED vars BY <1>10, SameOrder DEF vars
<1> QED BY <1>5, <1>6, <1>7, <1>8, <1>9, <1>10 DEF Next

(* The three together are invariant. *)
THEOREM OrderInvariance == Spec => [](SlabInv /\ Acyclic /\ CountsAgree)
<1>1. Init => SlabInv /\ Acyclic /\ CountsAgree
  <2> SUFFICES ASSUME Init PROVE Acyclic /\ CountsAgree BY InitInv
  <2>1. owned = {} BY DEF Init
  <2>2. CountsAgree
    <3>1. {p \in owned : status[p] = "free"} = {} BY <2>1
    <3> QED BY <2>1, <3>1, FS_EmptySet DEF CountsAgree, Init
  <2>3. Acyclic
    <3>1. PICK rank : rank = [q \in Page |-> 0] OBVIOUS
    <3>2. rank \in [Page -> Nat] /\ Ranked(rank, 1) BY <2>1, <3>1 DEF Ranked
    <3> QED BY <3>2 DEF Acyclic
  <2> QED BY <2>2, <2>3
<1>2. SlabInv /\ Acyclic /\ CountsAgree /\ [Next]_vars => SlabInv' /\ Acyclic' /\ CountsAgree'
  BY NextInv, NextOrder
<1> QED BY <1>1, <1>2, PTL DEF Spec

(* pages_alloced and free_pages, on which trimming depends, are right. *)
THEOREM CountsCorrect == Spec => []CountsAgree
<1> QED BY OrderInvariance, PTL

-----------------------------------------------------------------------------
(* Induction over the natural numbers, for a set instead of a formula. *)
LEMMA SetInduction ==
  ASSUME NEW S, 0 \in S, \A n \in Nat : n \in S => n + 1 \in S
  PROVE  Nat \subseteq S
<1>1. SUFFICES ASSUME Nat \ S # {} PROVE FALSE OBVIOUS
<1>2. PICK T : T = Nat \ S OBVIOUS
<1>3. PICK x \in T : \A y \in T : x <= y BY <1>1, <1>2, LeastNatural
<1>4. x \in Nat /\ x # 0 /\ x \notin S BY <1>2, <1>3
<1>5. x - 1 \in Nat /\ (x - 1) + 1 = x /\ ~(x <= x - 1) BY <1>4
<1>6. x - 1 \in S BY <1>2, <1>3, <1>5
<1> QED BY <1>4, <1>5, <1>6

(* The links behind the head of a list, as far as they are followed. *)
Follow(s, g, k) == IF k = 0 THEN head[s]
                   ELSE IF g[k - 1] = NoPage THEN NoPage ELSE last[g[k - 1]]
Follows(s, g, n) == g = [k \in 0..n |-> Follow(s, g, k)]

(* They can be followed any number of times. *)
LEMMA FollowsExists ==
  ASSUME NEW s, NEW n \in Nat
  PROVE  \E g : Follows(s, g, n)
<1> DEFINE S == {k \in Nat : \E g : Follows(s, g, k)}
<1>1. 0 \in S
  <2> DEFINE g == [k \in 0..0 |-> head[s]]
  <2>1. Follows(s, g, 0) BY DEF Follows, Follow
  <2> QED BY <2>1
<1>2. ASSUME NEW m \in Nat, m \in S PROVE m + 1 \in S
  <2>1. PICK g : Follows(s, g, m) BY <1>2
  <2> DEFINE h == [k \in 0..(m + 1) |-> IF k = m + 1 THEN Follow(s, g, k) ELSE g[k]]
  <2>2. \A k \in 0..m : k \in 0..(m + 1) /\ k # m + 1 /\ h[k] = g[k] OBVIOUS
  <2>3. ASSUME NEW k \in 0..(m + 1) PROVE h[k] = Follow(s, h, k)
    <3>1. h[k] = Follow(s, g, k)
      <4>1. CASE k = m + 1 BY <4>1
      <4>2. CASE k # m + 1
        <5>1. k \in 0..m BY <4>2
        <5> QED BY <2>1, <2>2, <5>1 DEF Follows
      <4> QED BY <4>1, <4>2
    <3>2. CASE k = 0 BY <3>1, <3>2 DEF Follow
    <3>3. CASE k # 0
      <4>1. k - 1 \in 0..m BY <3>3
      <4>2. h[k - 1] = g[k - 1] BY <2>2, <4>1
      <4> HIDE DEF h
      <4> QED BY <3>1, <3>3, <4>2 DEF Follow
    <3> QED BY <3>2, <3>3
  <2>4. h = [k \in 0..(m + 1) |-> h[k]] OBVIOUS
  <2> HIDE DEF h
  <2>5. Follows(s, h, m + 1) BY <2>3, <2>4, Zenon DEF Follows
  <2> QED BY <2>5
<1>3. Nat \subseteq S
  <2> HIDE DEF S
  <2> QED BY <1>1, <1>2, SetInduction
<1> QED BY <1>3

(* Behind is what they lead to. *)
LEMMA BehindFollows == ASSUME NEW s PROVE Follows(s, Behind(s), NPages)
<1>1. PICK g : Follows(s, g, NPages) BY FollowsExists
<1> DEFINE f == CHOOSE g1 : g1 = [k \in 0..NPages |->
                              IF k = 0 THEN head[s]
                              ELSE IF g1[k - 1] = NoPage THEN NoPage ELSE last[g1[k - 1]]]
<1>2. Behind(s) = f BY DEF Behind
<1>3. f = [k \in 0..NPages |-> IF k = 0 THEN head[s]
                               ELSE IF f[k - 1] = NoPage THEN NoPage ELSE last[f[k - 1]]]
  BY <1>1, Zenon DEF Follows, Follow
<1> HIDE DEF f
<1> QED BY <1>2, <1>3, Zenon DEF Follows, Follow

(* A list ends because its ranks go down, and holds every slab of its      *)
(* status because from each of them the newer ones lead to the head.       *)
LEMMA ListWellFormed ==
  ASSUME SlabInv, Acyclic, NEW s \in Status, NEW chain, Follows(s, chain, NPages)
  PROVE  /\ chain[NPages] = NoPage
         /\ {chain[k] : k \in 0..NPages} \ {NoPage} = {p \in owned : status[p] = s}
         /\ \A k \in 1..NPages : chain[k] # NoPage => next[chain[k]] = chain[k - 1]
<1>1. TypeOK /\ LinkInv BY DEF SlabInv
<1>2. owned \subseteq Page /\ NoPage \notin Page /\ NPages \in Nat /\ last \in [Page -> Link]
  BY <1>1 DEF TypeOK, Page
<1>3. PICK rank \in [Page -> Nat], N \in Nat : Ranked(rank, N) BY DEF Acyclic
<1>4. chain[0] = head[s] BY <1>2 DEF Follows, Follow
<1>5. \A k \in 1..NPages : chain[k] = IF chain[k - 1] = NoPage THEN NoPage ELSE last[chain[k - 1]]
  <2>1. \A k \in 1..NPages : k \in 0..NPages /\ k # 0 BY <1>2
  <2> QED BY <2>1, Zenon DEF Follows, Follow
<1> DEFINE Slab(p) == p \in owned /\ status[p] = s
<1>6. \A k \in 0..NPages : chain[k] = NoPage \/ Slab(chain[k])
  <2> DEFINE S == {k \in Nat : k <= NPages => chain[k] = NoPage \/ Slab(chain[k])}
  <2>1. 0 \in S BY <1>1, <1>4 DEF LinkInv
  <2>2. ASSUME NEW k \in Nat, k \in S PROVE k + 1 \in S
    <3>1. SUFFICES ASSUME k + 1 <= NPages PROVE chain[k + 1] = NoPage \/ Slab(chain[k + 1]) OBVIOUS
    <3>2. k + 1 \in 1..NPages /\ (k + 1) - 1 = k /\ k <= NPages BY <1>2, <3>1
    <3>3. chain[k + 1] = IF chain[k] = NoPage THEN NoPage ELSE last[chain[k]] BY <1>5, <3>2
    <3> QED BY <1>1, <2>2, <3>2, <3>3 DEF LinkInv
  <2>3. Nat \subseteq S
    <3> HIDE DEF S
    <3> QED BY <2>1, <2>2, SetInduction
  <2> QED BY <2>3
<1>7. \A k \in 1..NPages : chain[k] # NoPage =>
        /\ Slab(chain[k]) /\ Slab(chain[k - 1]) /\ chain[k] = last[chain[k - 1]]
        /\ next[chain[k]] = chain[k - 1] /\ rank[chain[k]] < rank[chain[k - 1]]
  <2> SUFFICES ASSUME NEW k \in 1..NPages, chain[k] # NoPage
               PROVE  /\ Slab(chain[k]) /\ Slab(chain[k - 1]) /\ chain[k] = last[chain[k - 1]]
                      /\ next[chain[k]] = chain[k - 1] /\ rank[chain[k]] < rank[chain[k - 1]]
    OBVIOUS
  <2>1. k \in 0..NPages /\ k - 1 \in 0..NPages BY <1>2
  <2>2. chain[k - 1] # NoPage /\ chain[k] = last[chain[k - 1]] BY <1>5
  <2>3. Slab(chain[k]) /\ Slab(chain[k - 1]) BY <1>6, <2>1, <2>2
  <2> QED BY <1>1, <1>3, <2>2, <2>3 DEF LinkInv, Ranked
(* Two places of the list differ in rank. *)
<1>8. \A k \in 0..NPages : \A j \in 0..NPages :
        j < k /\ chain[k] # NoPage => chain[j] # NoPage /\ rank[chain[k]] < rank[chain[j]]
  <2> DEFINE Down(k) == \A j \in 0..NPages : j < k /\ chain[k] # NoPage =>
                          chain[j] # NoPage /\ rank[chain[k]] < rank[chain[j]]
             S == {k \in Nat : k <= NPages => Down(k)}
  <2>1. 0 \in S OBVIOUS
  <2>2. ASSUME NEW k \in Nat, k \in S PROVE k + 1 \in S
    <3>1. SUFFICES ASSUME k + 1 <= NPages, NEW j \in 0..NPages, j < k + 1, chain[k + 1] # NoPage
                   PROVE  chain[j] # NoPage /\ rank[chain[k + 1]] < rank[chain[j]]
      OBVIOUS
    <3>2. k + 1 \in 1..NPages /\ (k + 1) - 1 = k /\ k <= NPages /\ k \in 0..NPages BY <1>2, <3>1
    <3>3. Slab(chain[k + 1]) /\ Slab(chain[k]) /\ rank[chain[k + 1]] < rank[chain[k]]
      BY <1>7, <3>1, <3>2
    <3>4. chain[k] # NoPage BY <1>2, <3>3
    <3>5. CASE j = k BY <3>3, <3>4, <3>5
    <3>6. CASE j < k
      <4>1. chain[j] # NoPage /\ rank[chain[k]] < rank[chain[j]] BY <2>2, <3>2, <3>4, <3>6
      <4>2. Slab(chain[j]) BY <1>6, <4>1
      <4>3. rank[chain[j]] \in Nat /\ rank[chain[k]] \in Nat /\ rank[chain[k + 1]] \in Nat
        BY <1>2, <1>3, <3>3, <4>2
      <4> QED BY <3>3, <4>1, <4>3
    <3> QED BY <3>1, <3>5, <3>6
  <2>3. Nat \subseteq S
    <3> HIDE DEF S
    <3> QED BY <2>1, <2>2, SetInduction
  <2> QED BY <2>3
(* More places than pages would have two the same. *)
<1>9. chain[NPages] = NoPage
  <2> SUFFICES ASSUME chain[NPages] # NoPage PROVE FALSE OBVIOUS
  <2>1. \A k \in 0..NPages : Slab(chain[k])
    <3>1. NPages \in 0..NPages /\ \A k \in 0..NPages : k < NPages \/ k = NPages BY <1>2
    <3> QED BY <1>6, <1>8, <3>1
  <2>2. PICK f : f = [k \in 0..NPages |-> chain[k]] OBVIOUS
  <2>3. f \in [0..NPages -> Page] BY <1>2, <2>1, <2>2
  <2>4. IsFiniteSet(0..NPages) /\ Cardinality(0..NPages) = NPages + 1
    <3>1. NPages - 0 + 1 = NPages + 1 /\ 0 <= NPages BY <1>2
    <3> QED BY <1>2, <3>1, FS_Interval
  <2>5. Cardinality(Page) < Cardinality(0..NPages) /\ IsFiniteSet(Page)
    <3>1. IsFiniteSet(Page) /\ Cardinality(Page) = NPages BY <1>1, CountFacts
    <3> QED BY <1>2, <2>4, <3>1
  <2>6. PICK x, y \in 0..NPages : x # y /\ f[x] = f[y] BY <2>3, <2>4, <2>5, FS_PigeonHole
  <2>7. chain[x] = chain[y] /\ Slab(chain[x]) BY <2>1, <2>2, <2>6
  <2>8. rank[chain[x]] \in Nat /\ chain[x] # NoPage BY <1>2, <1>3, <2>7
  <2>9. x < y \/ y < x BY <1>2, <2>6
  <2> QED BY <1>8, <2>7, <2>8, <2>9
<1>10. \A p \in owned : status[p] = s => \E k \in 0..NPages : chain[k] = p
  <2> DEFINE Missing == {p \in owned : status[p] = s /\ \A k \in 0..NPages : chain[k] # p}
             Depths == {d \in Nat : \E p \in Missing : d = N - rank[p]}
  <2> SUFFICES ASSUME Missing # {} PROVE FALSE OBVIOUS
  <2>1. \A p \in Missing : rank[p] \in Nat /\ N - rank[p] \in Nat BY <1>2, <1>3 DEF Ranked
  <2>2. Depths \in SUBSET Nat /\ Depths # {}
    <3>1. PICK p \in Missing : TRUE OBVIOUS
    <3>2. N - rank[p] \in Depths BY <2>1, <3>1
    <3> QED BY <3>2
  <2>3. PICK d \in Depths : \A e \in Depths : d <= e
    <3> HIDE DEF Depths
    <3> QED BY <2>2, LeastNatural
  <2>4. PICK p \in Missing : d = N - rank[p] BY <2>3
  <2>5. \A q \in Missing : N - rank[p] <= N - rank[q] BY <2>1, <2>3, <2>4
  <2>6. p \in owned /\ status[p] = s /\ p \in Page BY <1>2, <2>4
  <2>7. next[p] # NoPage
    <3>1. 0 \in 0..NPages BY <1>2
    <3> QED BY <1>1, <1>4, <2>4, <2>6, <3>1 DEF LinkInv
  <2>8. PICK q : q = next[p] OBVIOUS
  <2>9. q \in owned /\ status[q] = s /\ last[q] = p BY <1>1, <2>6, <2>7, <2>8 DEF LinkInv
  <2>10. rank[p] < rank[q] BY <1>2, <1>3, <2>6, <2>9 DEF Ranked
  <2>11. q \notin Missing
    <3>1. rank[p] \in Nat /\ rank[q] \in Nat BY <1>2, <1>3, <2>6, <2>9
    <3>2. ~(N - rank[p] <= N - rank[q]) BY <2>10, <3>1
    <3> QED BY <2>5, <3>2
  <2>12. PICK k \in 0..NPages : chain[k] = q BY <2>9, <2>11
  <2>13. k # NPages BY <1>2, <1>9, <2>9, <2>12
  <2>14. k + 1 \in 1..NPages /\ (k + 1) - 1 = k /\ k + 1 \in 0..NPages BY <1>2, <2>13
  <2>15. chain[k + 1] = p BY <1>2, <1>5, <2>9, <2>12, <2>14
  <2> QED BY <2>4, <2>14, <2>15
<1>11. \A x : x \in {chain[k] : k \in 0..NPages} \ {NoPage} <=> Slab(x)
  BY <1>2, <1>6, <1>10
<1>12. {chain[k] : k \in 0..NPages} \ {NoPage} = {p \in owned : status[p] = s} BY <1>11
<1> QED BY <1>7, <1>9, <1>12

(* Each of the three lists ends, holds the slabs of its status and no      *)
(* others, and is linked back the same way.                                *)
THEOREM ListsCorrect == Spec => []ListsWellFormed
<1>1. ASSUME SlabInv, Acyclic PROVE ListsWellFormed
  <2> SUFFICES ASSUME NEW s \in Status
               PROVE  LET chain == Behind(s)
                      IN  /\ chain[NPages] = NoPage
                          /\ {chain[k] : k \in 0..NPages} \ {NoPage} = {p \in owned : status[p] = s}
                          /\ \A k \in 1..NPages : chain[k] # NoPage => next[chain[k]] = chain[k - 1]
    BY DEF ListsWellFormed
  <2>1. PICK chain : chain = Behind(s) OBVIOUS
  <2>2. Follows(s, chain, NPages) BY <2>1, BehindFollows
  <2> QED BY <1>1, <2>1, <2>2, ListWellFormed
<1> QED BY <1>1, OrderInvariance, PTL
=============================================================================
