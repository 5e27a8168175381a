----------------------------- MODULE ImagesProofs -----------------------------
(***************************************************************************)
(* Proofs about Paging, Disk and Loader: for each the inductive invariant, *)
(* and the safety properties that follow from it.                          *)
(***************************************************************************)
EXTENDS Paging, Loader, Disk, FiniteSetTheorems, TLAPS

-----------------------------------------------------------------------------
(* The parts of mem *)
TableSlot == 0..(PagesPerTable - 1)
Table == [TableSlot -> PageEntry \cup {Nil}]
Directory == [TableIndex -> Nat \cup {Nil}]
Dir == {Kernel} \cup Process

MemType == [page_bitmap : SUBSET Frame, last_free_page : Nat, nfree_pages : Nat,
            tables : Seq(Table), dirs : [Dir -> Directory \cup {Nil}]]

(* What a directory names are tables. *)
MemOk(m) ==
  /\ m \in MemType
  /\ \A d \in Dir, x \in TableIndex :
       m.dirs[d] # Nil /\ m.dirs[d][x] # Nil => m.dirs[d][x] \in 1..Len(m.tables)

(* A frame has one owner, is marked, and is none of the first ones. *)
Owned(m) ==
  /\ \A t, u \in 1..Len(m.tables), i, j \in TableSlot :
       m.tables[t][i] # Nil /\ m.tables[u][j] # Nil
         /\ m.tables[t][i].frame = m.tables[u][j].frame => t = u /\ i = j
  /\ \A t \in 1..Len(m.tables), i \in TableSlot :
       m.tables[t][i] # Nil =>
         m.tables[t][i].frame \in m.page_bitmap /\ m.tables[t][i].frame >= BootFrames

(* The free frames are counted, and none is before last_free_page. *)
Counted(m) ==
  /\ 0..(BootFrames - 1) \subseteq m.page_bitmap
  /\ \A f \in Unmarked(m) : f \div FramesPerByte >= m.last_free_page
  /\ m.nfree_pages = Cardinality(Unmarked(m))

MemInv(m) == MemOk(m) /\ Owned(m) /\ Counted(m)

(* A page that directory d can map *)
Mappable(m, d, page) ==
  d \in Dir /\ m.dirs[d] # Nil /\ page \in Nat /\ page \div PagesPerTable \in TableIndex

-----------------------------------------------------------------------------
(* Division with remainder *)
LEMMA DivMod ==
  ASSUME NEW n \in Nat \ {0}, NEW x \in Int
  PROVE  x = n * (x \div n) + (x % n)
OBVIOUS

(* The quotient is the only one. *)
LEMMA DivUnique ==
  ASSUME NEW n \in Nat \ {0}, NEW q \in Nat, NEW r \in Nat, r < n, NEW x, x = n * q + r
  PROVE  x \div n = q
<1>1. x \in Nat
  <2>1. PICK u \in Nat : u = n * q OBVIOUS
  <2> QED BY <2>1
<1>2. PICK a \in Nat, b \in 0..(n - 1) : a = x \div n /\ b = x % n BY <1>1
<1>3. x = n * a + b BY <1>1, <1>2
<1>4. \A i, j \in Nat, k \in Nat : i = j + (1 + k) => n * i = n * j + (n + n * k) OBVIOUS
<1>5. PICK na \in Nat, nq \in Nat : na = n * a /\ nq = n * q OBVIOUS
<1>6. na + b = nq + r BY <1>3, <1>5
<1>7. ASSUME a > q PROVE FALSE
  <2>1. PICK k \in Nat : a = q + (1 + k)
    <3>1. a - q - 1 \in Nat /\ a = q + (1 + (a - q - 1)) BY <1>7
    <3> QED BY <3>1
  <2>2. PICK nk \in Nat : nk = n * k OBVIOUS
  <2>3. na = nq + (n + nk) BY <1>4, <1>5, <2>1, <2>2
  <2> QED BY <1>6, <2>3
<1>8. ASSUME a < q PROVE FALSE
  <2>1. PICK k \in Nat : q = a + (1 + k)
    <3>1. q - a - 1 \in Nat /\ q = a + (1 + (q - a - 1)) BY <1>8
    <3> QED BY <3>1
  <2>2. PICK nk \in Nat : nk = n * k OBVIOUS
  <2>3. nq = na + (n + nk) BY <1>4, <1>5, <2>1, <2>2
  <2> QED BY <1>6, <2>3
<1> QED BY <1>2, <1>7, <1>8

(* Division keeps the order. *)
LEMMA DivMonotone ==
  ASSUME NEW n \in Nat \ {0}, NEW x \in Nat, NEW y \in Nat, x <= y
  PROVE  x \div n \in Nat /\ y \div n \in Nat /\ x \div n <= y \div n
<1>1. x \div n \in Nat /\ y \div n \in Nat OBVIOUS
<1>2. x % n \in 0..(n - 1) /\ y % n \in 0..(n - 1) OBVIOUS
<1>3. x = n * (x \div n) + (x % n) /\ y = n * (y \div n) + (y % n) OBVIOUS
<1>4. PICK a \in Nat, b \in Nat, r \in 0..(n - 1), s \in 0..(n - 1) :
        a = x \div n /\ b = y \div n /\ r = x % n /\ s = y % n
  BY <1>1, <1>2
<1>5. x = n * a + r /\ y = n * b + s BY <1>3, <1>4
<1>6. ASSUME a > b PROVE FALSE
  <2>1. PICK c \in Nat : a = b + (1 + c)
    <3>1. a - b - 1 \in Nat /\ a = b + (1 + (a - b - 1)) BY <1>6
    <3> QED BY <3>1
  <2>2. n * (b + (1 + c)) = n * b + n * (1 + c) OBVIOUS
  <2>3. n * (1 + c) = n + n * c OBVIOUS
  <2>4. PICK u \in Nat, v \in Nat : u = n * b /\ v = n * c OBVIOUS
  <2>5. x = (u + (n + v)) + r /\ y = u + s BY <1>5, <2>1, <2>2, <2>3, <2>4
  <2> QED BY <2>5
<1> QED BY <1>1, <1>4, <1>6

(* There is a frame to find, and get_free_page finds the lowest. *)
LEMMA FreeFrameLowest ==
  ASSUME NEW m, MemInv(m), Unmarked(m) # {}
  PROVE  /\ FreeFrame(m) \in Unmarked(m) /\ FreeFrame(m) \in Frame
         /\ FreeFrame(m) \in Nat /\ FreeFrame(m) >= BootFrames
         /\ \A g \in Unmarked(m) : FreeFrame(m) <= g
<1> DEFINE R == {p \in Nat \X Nat : p[1] < p[2]}
<1>1. NFrames \in Nat /\ BootFrames \in Nat BY PagingAssumption
<1>2. Unmarked(m) \subseteq Nat BY <1>1 DEF Unmarked, Frame
<1>3. IsWellFoundedOn(R, Nat) BY NatLessThanWellFounded DEF OpToRel
<1>4. PICK f \in Unmarked(m) : \A g \in Unmarked(m) : ~(<<g, f>> \in R)
  <2> HIDE DEF R
  <2> QED BY <1>2, <1>3, WFMin
<1>5. ASSUME NEW g \in Unmarked(m) PROVE f <= g
  <2>1. g \in Nat /\ f \in Nat /\ <<g, f>> \in Nat \X Nat BY <1>2
  <2>2. ~(<<g, f>>[1] < <<g, f>>[2]) BY <1>4, <2>1
  <2> QED BY <2>1, <2>2
<1>6. \A g \in Unmarked(m) : g \div FramesPerByte >= m.last_free_page BY DEF MemInv, Counted
<1>7. /\ FreeFrame(m) \in Unmarked(m)
      /\ \A g \in Unmarked(m) : g \div FramesPerByte >= m.last_free_page => FreeFrame(m) <= g
  <2>1. \E h \in Unmarked(m) : /\ h \div FramesPerByte >= m.last_free_page
                               /\ \A g \in Unmarked(m) : g \div FramesPerByte >= m.last_free_page => h <= g
    BY <1>5, <1>6
  <2> QED BY <2>1, Zenon DEF FreeFrame
<1>8. FreeFrame(m) >= BootFrames
  <2>1. FreeFrame(m) \notin 0..(BootFrames - 1) BY <1>7 DEF MemInv, Counted, Unmarked
  <2> QED BY <1>1, <1>2, <1>7, <2>1
<1> QED BY <1>2, <1>6, <1>7, <1>8 DEF Unmarked

-----------------------------------------------------------------------------
(* map_r_page: r is m with the entry e for a page, in table t. *)
Entered(m, r, d, page, t, e) ==
  /\ MemOk(r) /\ r.page_bitmap = m.page_bitmap
  /\ r.last_free_page = m.last_free_page /\ r.nfree_pages = m.nfree_pages
  /\ Len(m.tables) \in Nat /\ Len(r.tables) \in Nat /\ Len(m.tables) <= Len(r.tables)
  /\ t \in 1..Len(r.tables) /\ page % PagesPerTable \in TableSlot
  /\ r.tables[t][page % PagesPerTable] = e
  /\ \A u \in 1..Len(r.tables), i \in TableSlot :
       ~(u = t /\ i = page % PagesPerTable) =>
         r.tables[u][i] = IF u <= Len(m.tables) THEN m.tables[u][i] ELSE Nil
  /\ r.dirs[d] # Nil /\ r.dirs[d][page \div PagesPerTable] = t
  /\ \A b \in Dir : b # d => r.dirs[b] = m.dirs[b]
  /\ \A y \in TableIndex : y # page \div PagesPerTable => r.dirs[d][y] = m.dirs[d][y]
  /\ IF m.dirs[d][page \div PagesPerTable] = Nil THEN t > Len(m.tables)
     ELSE t = m.dirs[d][page \div PagesPerTable]

(* The table of a page is there, if need be a new one. *)
LEMMA WithTableFacts ==
  ASSUME NEW m, MemOk(m), NEW d, NEW page, Mappable(m, d, page)
  PROVE  LET w == WithTable(m, d, page)
             x == page \div PagesPerTable
         IN  /\ MemOk(w) /\ w.page_bitmap = m.page_bitmap
             /\ w.last_free_page = m.last_free_page /\ w.nfree_pages = m.nfree_pages
             /\ Len(m.tables) \in Nat /\ Len(w.tables) \in Nat /\ Len(m.tables) <= Len(w.tables)
             /\ w.dirs[d] # Nil /\ w.dirs[d][x] \in 1..Len(w.tables)
             /\ \A u \in 1..Len(w.tables), i \in TableSlot :
                  w.tables[u][i] = IF u <= Len(m.tables) THEN m.tables[u][i] ELSE Nil
             /\ \A b \in Dir : b # d => w.dirs[b] = m.dirs[b]
             /\ \A y \in TableIndex : y # x => w.dirs[d][y] = m.dirs[d][y]
             /\ IF m.dirs[d][x] = Nil THEN w.dirs[d][x] > Len(m.tables)
                ELSE w.dirs[d][x] = m.dirs[d][x]
<1>1. PICK w : w = WithTable(m, d, page) OBVIOUS
<1>2. PICK x : x = page \div PagesPerTable OBVIOUS
<1>3. m \in MemType /\ d \in Dir /\ x \in TableIndex /\ m.dirs[d] # Nil
  BY <1>2 DEF MemOk, Mappable
<1>4. /\ m.dirs \in [Dir -> Directory \cup {Nil}] /\ m.tables \in Seq(Table)
      /\ m.dirs[d] \in [TableIndex -> Nat \cup {Nil}]
  BY <1>3 DEF MemType, Directory
<1>5. PICK n \in Nat : n = Len(m.tables) BY <1>4
<1>6. CASE m.dirs[d][x] # Nil
  <2>1. w = m BY <1>1, <1>2, <1>6 DEF WithTable
  <2>2. m.dirs[d][x] \in 1..n BY <1>3, <1>5, <1>6 DEF MemOk
  <2>3. \A u \in 1..n : u <= n OBVIOUS
  <2> QED BY <1>1, <1>2, <1>3, <1>5, <1>6, <2>1, <2>2, <2>3
<1>7. CASE m.dirs[d][x] = Nil
  <2> DEFINE new == [i \in TableSlot |-> Nil]
  <2>1. new \in Table BY DEF Table
  <2>2. w = [m EXCEPT !.dirs[d][x] = n + 1, !.tables = Append(@, new)]
    BY <1>1, <1>2, <1>5, <1>7 DEF WithTable, TableSlot
  <2>3. PICK nd : nd = [m.dirs EXCEPT ![d][x] = n + 1] OBVIOUS
  <2>4. PICK nt : nt = Append(m.tables, new) OBVIOUS
  <2>5. nt \in Seq(Table) /\ Len(nt) = n + 1 /\ nt[n + 1] = new /\ \A u \in 1..n : nt[u] = m.tables[u]
    BY <1>4, <1>5, <2>1, <2>4
  <2>6. /\ nd[d] \in Directory /\ nd[d][x] = n + 1
        /\ \A y \in TableIndex : y # x => nd[d][y] = m.dirs[d][y]
        /\ \A b \in Dir : b # d => nd[b] = m.dirs[b]
        /\ nd \in [Dir -> Directory \cup {Nil}]
    BY <1>3, <1>4, <2>3 DEF Directory
  <2>7. /\ w.dirs = nd /\ w.tables = nt /\ w.page_bitmap = m.page_bitmap
        /\ w.last_free_page = m.last_free_page /\ w.nfree_pages = m.nfree_pages
    BY <1>3, <2>2, <2>3, <2>4 DEF MemType
  <2>8. w \in MemType
    <3>1. w \in [page_bitmap : {m.page_bitmap}, last_free_page : {m.last_free_page},
                 nfree_pages : {m.nfree_pages}, tables : {nt}, dirs : {nd}]
      BY <1>3, <2>2, <2>3, <2>4 DEF MemType
    <3> QED BY <1>3, <2>5, <2>6, <3>1 DEF MemType
  <2>9. nd[d] # Nil BY <2>6, NoNilAssumption DEF Directory
  <2>10. ASSUME NEW b \in Dir, NEW y \in TableIndex, nd[b] # Nil, nd[b][y] # Nil
         PROVE  nd[b][y] \in 1..(n + 1)
    <3>1. CASE b = d /\ y = x BY <1>5, <2>6, <3>1
    <3>2. CASE ~(b = d /\ y = x)
      <4>1. nd[b][y] = m.dirs[b][y] /\ m.dirs[b] # Nil BY <1>3, <2>6, <2>10, <3>2
      <4>2. m.dirs[b][y] \in 1..n BY <1>5, <2>10, <4>1 DEF MemOk
      <4> QED BY <4>1, <4>2
    <3> QED BY <3>1, <3>2
  <2>11. MemOk(w) BY <2>5, <2>7, <2>8, <2>10 DEF MemOk
  <2>12. \A u \in 1..(n + 1), i \in TableSlot :
           nt[u][i] = IF u <= n THEN m.tables[u][i] ELSE Nil
    BY <2>5
  <2>13. n <= n + 1 /\ n + 1 > n /\ n + 1 \in 1..(n + 1) /\ n + 1 \in Nat OBVIOUS
  <2> QED BY <1>1, <1>2, <1>3, <1>5, <1>7, <2>5, <2>6, <2>7, <2>9, <2>11, <2>12, <2>13
<1> QED BY <1>6, <1>7

(* map_r_page writes one entry. *)
LEMMA MapRPageFacts ==
  ASSUME NEW m, MemOk(m), NEW d, NEW page, Mappable(m, d, page),
         NEW frame \in Frame, NEW writable \in BOOLEAN
  PROVE  \E t : Entered(m, MapRPage(m, d, page, frame, writable), d, page, t,
                        [frame |-> frame, writable |-> writable])
<1>1. PICK w, x, k, e : /\ w = WithTable(m, d, page) /\ x = page \div PagesPerTable
                        /\ k = page % PagesPerTable
                        /\ e = [frame |-> frame, writable |-> writable]
  OBVIOUS
<1>2. PICK t : t = w.dirs[d][x] OBVIOUS
<1>3. PICK n \in Nat, l \in Nat : n = Len(m.tables) /\ l = Len(w.tables) BY <1>1, WithTableFacts
<1>4. /\ MemOk(w) /\ w.page_bitmap = m.page_bitmap
      /\ w.last_free_page = m.last_free_page /\ w.nfree_pages = m.nfree_pages /\ n <= l
      /\ w.dirs[d] # Nil /\ t \in 1..l
      /\ \A u \in 1..l, i \in TableSlot : w.tables[u][i] = IF u <= n THEN m.tables[u][i] ELSE Nil
      /\ \A b \in Dir : b # d => w.dirs[b] = m.dirs[b]
      /\ \A y \in TableIndex : y # x => w.dirs[d][y] = m.dirs[d][y]
      /\ IF m.dirs[d][x] = Nil THEN t > n ELSE t = m.dirs[d][x]
  BY <1>1, <1>2, <1>3, WithTableFacts
<1>5. PICK r : r = MapRPage(m, d, page, frame, writable) OBVIOUS
<1>6. r = [w EXCEPT !.tables[t][k] = e] BY <1>1, <1>2, <1>5 DEF MapRPage
<1>7. w \in MemType BY <1>4 DEF MemOk
<1>8. e \in PageEntry BY <1>1 DEF PageEntry
<1>9. k \in TableSlot
  <2>1. PagesPerTable \in Nat \ {0} /\ page \in Nat BY PagingAssumption DEF Mappable
  <2> QED BY <1>1, <2>1 DEF TableSlot
<1>10. PICK nt : nt = [w.tables EXCEPT ![t][k] = e] OBVIOUS
<1>11. w.tables \in Seq(Table) BY <1>7 DEF MemType
<1>12. PICK tab : tab = [w.tables[t] EXCEPT ![k] = e] OBVIOUS
<1>13. tab \in Table /\ tab[k] = e /\ \A i \in TableSlot : i # k => tab[i] = w.tables[t][i]
  <2>1. w.tables[t] \in Table BY <1>3, <1>4, <1>11
  <2> QED BY <1>8, <1>9, <1>12, <2>1 DEF Table
<1>14. nt = [w.tables EXCEPT ![t] = tab] BY <1>10, <1>12
<1>15. nt \in Seq(Table) /\ Len(nt) = l /\ nt[t] = tab /\ \A u \in 1..l : u # t => nt[u] = w.tables[u]
  BY <1>3, <1>4, <1>11, <1>13, <1>14
<1>16. /\ r.tables = nt /\ r.dirs = w.dirs /\ r.page_bitmap = w.page_bitmap
       /\ r.last_free_page = w.last_free_page /\ r.nfree_pages = w.nfree_pages
  BY <1>6, <1>7, <1>10 DEF MemType
<1>17. r \in MemType
  <2>1. r \in [page_bitmap : {w.page_bitmap}, last_free_page : {w.last_free_page},
               nfree_pages : {w.nfree_pages}, tables : {nt}, dirs : {w.dirs}]
    BY <1>6, <1>7, <1>10 DEF MemType
  <2> QED BY <1>7, <1>15, <2>1 DEF MemType
<1>18. MemOk(r) BY <1>3, <1>4, <1>15, <1>16, <1>17 DEF MemOk
<1>19. ASSUME NEW u \in 1..l, NEW i \in TableSlot, ~(u = t /\ i = k)
       PROVE  nt[u][i] = IF u <= n THEN m.tables[u][i] ELSE Nil
  <2>1. nt[u][i] = w.tables[u][i] BY <1>13, <1>15, <1>19
  <2> QED BY <1>4, <2>1
<1>20. Entered(m, r, d, page, t, e)
  BY <1>1, <1>2, <1>3, <1>4, <1>9, <1>13, <1>15, <1>16, <1>18, <1>19 DEF Entered
<1> QED BY <1>1, <1>5, <1>20

(* In every directory that names it a page table has one index. *)
OneIndex(m) ==
  \A b, c \in Dir, x, y \in TableIndex :
    m.dirs[b] # Nil /\ m.dirs[c] # Nil /\ m.dirs[b][x] # Nil /\ m.dirs[b][x] = m.dirs[c][y] => x = y

(* What mapping some of the pages P in directory d leaves alone: the other *)
(* directories, what d names already, the entries of other pages, and so   *)
(* what every directory says of them.                                      *)
Touches(m, r, d, P) ==
  /\ Len(m.tables) <= Len(r.tables)
  /\ \A b \in Dir : b # d => r.dirs[b] = m.dirs[b]
  /\ \A x \in TableIndex :
       \/ r.dirs[d][x] = m.dirs[d][x]
       \/ /\ m.dirs[d][x] = Nil /\ x \in TableOf(P)
          /\ r.dirs[d][x] \in Nat /\ r.dirs[d][x] > Len(m.tables)
  /\ \A u \in 1..Len(m.tables), i \in TableSlot :
       r.tables[u][i] # m.tables[u][i] =>
         \E q \in P : /\ q \div PagesPerTable \in TableIndex
                      /\ m.dirs[d][q \div PagesPerTable] = u /\ q % PagesPerTable = i
  /\ OneIndex(m) => /\ OneIndex(r)
                    /\ \A b \in Dir, q \in Nat : Mappable(m, b, q) /\ q \notin P =>
                         GetPage(r, b, q) = GetPage(m, b, q)

(* So a page that was mapped stays mapped. *)
Keeps(m, r, d, P) ==
  /\ MemOk(m) /\ MemOk(r) /\ Touches(m, r, d, P)
  /\ \A b \in Dir : r.dirs[b] = Nil <=> m.dirs[b] = Nil
  /\ \A q \in Nat : Mappable(m, d, q) /\ GetPage(m, d, q) # Nil => GetPage(r, d, q) # Nil

(* Pages are apart: they differ by the table's index or by the entry's.    *)
LEMMA PagesApart ==
  ASSUME NEW p \in Nat, NEW q \in Nat,
         p \div PagesPerTable = q \div PagesPerTable, p % PagesPerTable = q % PagesPerTable
  PROVE  p = q
<1>1. PagesPerTable \in Nat \ {0} BY PagingAssumption
<1>2. p = PagesPerTable * (p \div PagesPerTable) + (p % PagesPerTable) BY <1>1, DivMod
<1>3. q = PagesPerTable * (q \div PagesPerTable) + (q % PagesPerTable) BY <1>1, DivMod
<1> QED BY <1>2, <1>3

(* map_r_page touches its own page only. *)
LEMMA EnteredTouches ==
  ASSUME NEW m, MemOk(m), NEW r, NEW d, NEW page, Mappable(m, d, page), NEW t, NEW e,
         Entered(m, r, d, page, t, e), NEW P, page \in P
  PROVE  Touches(m, r, d, P)
<1>1. PICK x, k : x = page \div PagesPerTable /\ k = page % PagesPerTable OBVIOUS
<1>2. PICK n \in Nat, l \in Nat : n = Len(m.tables) /\ l = Len(r.tables) BY DEF Entered
<1>3. /\ n <= l /\ t \in 1..l /\ k \in TableSlot /\ r.dirs[d] # Nil /\ r.dirs[d][x] = t
      /\ \A u \in 1..l, i \in TableSlot : ~(u = t /\ i = k) =>
           r.tables[u][i] = IF u <= n THEN m.tables[u][i] ELSE Nil
      /\ \A b \in Dir : b # d => r.dirs[b] = m.dirs[b]
      /\ \A y \in TableIndex : y # x => r.dirs[d][y] = m.dirs[d][y]
      /\ IF m.dirs[d][x] = Nil THEN t > n ELSE t = m.dirs[d][x]
  BY <1>1, <1>2 DEF Entered
<1>4. d \in Dir /\ m.dirs[d] # Nil /\ page \in Nat /\ x \in TableIndex BY <1>1 DEF Mappable
<1>5. \A b \in Dir, y \in TableIndex : m.dirs[b] # Nil /\ m.dirs[b][y] # Nil => m.dirs[b][y] \in 1..n
  BY <1>2 DEF MemOk
<1>6. x \in TableOf(P) BY <1>1 DEF TableOf
<1>7. ASSUME NEW y \in TableIndex
      PROVE  \/ r.dirs[d][y] = m.dirs[d][y]
             \/ /\ m.dirs[d][y] = Nil /\ y \in TableOf(P)
                /\ r.dirs[d][y] \in Nat /\ r.dirs[d][y] > n
  <2>1. CASE y # x BY <1>3, <2>1
  <2>2. CASE y = x BY <1>3, <1>6, <2>2
  <2> QED BY <2>1, <2>2
<1>8. ASSUME NEW u \in 1..n, NEW i \in TableSlot, r.tables[u][i] # m.tables[u][i]
      PROVE  /\ page \div PagesPerTable \in TableIndex
             /\ m.dirs[d][page \div PagesPerTable] = u /\ page % PagesPerTable = i
  <2>1. u \in 1..l /\ u <= n BY <1>3
  <2>2. u = t /\ i = k BY <1>3, <1>8, <2>1
  <2> QED BY <1>1, <1>3, <1>4, <2>1, <2>2
<1>9. ASSUME OneIndex(m) PROVE OneIndex(r)
  <2> SUFFICES ASSUME NEW b \in Dir, NEW c \in Dir, NEW y \in TableIndex, NEW z \in TableIndex,
                      r.dirs[b] # Nil, r.dirs[c] # Nil, r.dirs[b][y] # Nil,
                      r.dirs[b][y] = r.dirs[c][z]
               PROVE  y = z
    BY DEF OneIndex
  <2>1. m.dirs[b] # Nil /\ m.dirs[c] # Nil BY <1>3, <1>4
  <2>2. \/ r.dirs[b][y] = m.dirs[b][y]
        \/ b = d /\ y = x /\ r.dirs[b][y] = t /\ t > n
    BY <1>3
  <2>3. \/ r.dirs[c][z] = m.dirs[c][z]
        \/ c = d /\ z = x /\ r.dirs[c][z] = t /\ t > n
    BY <1>3
  <2>4. CASE r.dirs[b][y] = m.dirs[b][y] /\ r.dirs[c][z] = m.dirs[c][z]
    BY <1>9, <2>1, <2>4 DEF OneIndex
  <2>5. CASE r.dirs[b][y] # m.dirs[b][y] /\ r.dirs[c][z] = m.dirs[c][z]
    <3>1. t = m.dirs[c][z] /\ t > n BY <2>2, <2>5
    <3>2. t # Nil BY <1>3, NoNilAssumption
    <3>3. t \in 1..n BY <1>5, <2>1, <3>1, <3>2
    <3> QED BY <3>1, <3>3
  <2>6. CASE r.dirs[b][y] = m.dirs[b][y] /\ r.dirs[c][z] # m.dirs[c][z]
    <3>1. t = m.dirs[b][y] /\ t > n BY <2>3, <2>6
    <3>2. t # Nil BY <1>3, NoNilAssumption
    <3>3. t \in 1..n BY <1>5, <2>1, <3>1, <3>2
    <3> QED BY <3>1, <3>3
  <2>7. CASE r.dirs[b][y] # m.dirs[b][y] /\ r.dirs[c][z] # m.dirs[c][z] BY <2>2, <2>3, <2>7
  <2> QED BY <2>4, <2>5, <2>6, <2>7
<1>10. ASSUME OneIndex(m), NEW b \in Dir, NEW q \in Nat, Mappable(m, b, q), q \notin P
       PROVE  GetPage(r, b, q) = GetPage(m, b, q)
  <2>1. PICK y, i : y = q \div PagesPerTable /\ i = q % PagesPerTable OBVIOUS
  <2>2. y \in TableIndex /\ m.dirs[b] # Nil BY <1>10, <2>1 DEF Mappable
  <2>3. i \in TableSlot
    <3>1. PagesPerTable \in Nat \ {0} BY PagingAssumption
    <3> QED BY <2>1, <3>1 DEF TableSlot
  <2>4. ~(y = x /\ i = k)
    <3>1. q # page BY <1>10
    <3> QED BY <1>1, <1>4, <2>1, <3>1, PagesApart
  <2>5. CASE r.dirs[b][y] = m.dirs[b][y]
    <3>1. PICK u : u = m.dirs[b][y] OBVIOUS
    <3>2. CASE u = Nil BY <2>1, <2>5, <3>1, <3>2 DEF GetPage
    <3>3. CASE u # Nil
      <4>1. u \in 1..n BY <1>5, <2>2, <3>1, <3>3
      <4>2. ASSUME u = t PROVE y = x
        <5>1. m.dirs[d][x] = t BY <1>3, <4>1, <4>2
        <5> QED BY <1>4, <1>10, <2>2, <3>1, <3>3, <4>2, <5>1 DEF OneIndex
      <4>3. r.tables[u][i] = m.tables[u][i] BY <1>3, <2>3, <2>4, <4>1, <4>2
      <4> QED BY <2>1, <2>5, <3>1, <4>3 DEF GetPage
    <3> QED BY <3>2, <3>3
  <2>6. CASE r.dirs[b][y] # m.dirs[b][y]
    <3>1. b = d /\ y = x /\ m.dirs[d][x] = Nil /\ r.dirs[b][y] = t /\ t > n BY <1>3, <2>2, <2>6
    <3>2. r.tables[t][i] = Nil BY <1>3, <2>3, <2>4, <3>1
    <3>3. t # Nil BY <1>3, NoNilAssumption
    <3> QED BY <2>1, <3>1, <3>2, <3>3 DEF GetPage
  <2> QED BY <2>5, <2>6
<1> QED BY <1>2, <1>3, <1>7, <1>8, <1>9, <1>10 DEF Touches

(* map_r_page enters a page, and no page that was mapped is unmapped. *)
LEMMA EnteredKeeps ==
  ASSUME NEW m, MemOk(m), NEW r, NEW d, NEW page, Mappable(m, d, page), NEW t, NEW e,
         Entered(m, r, d, page, t, e), e # Nil, NEW P, page \in P
  PROVE  Keeps(m, r, d, P) /\ GetPage(r, d, page) = e
<1>1. PICK x, k : x = page \div PagesPerTable /\ k = page % PagesPerTable OBVIOUS
<1>2. d \in Dir /\ m.dirs[d] # Nil /\ r.dirs[d] # Nil /\ r.dirs[d][x] = t /\ t \in Nat
      /\ r.tables[t][k] = e
  BY <1>1 DEF Entered, Mappable
<1>3. GetPage(r, d, page) = e BY <1>1, <1>2, NoNilAssumption DEF GetPage
<1>4. \A b \in Dir : r.dirs[b] = Nil <=> m.dirs[b] = Nil BY <1>2 DEF Entered
<1>5. ASSUME NEW q \in Nat, Mappable(m, d, q), GetPage(m, d, q) # Nil PROVE GetPage(r, d, q) # Nil
  <2>1. PICK y, i : y = q \div PagesPerTable /\ i = q % PagesPerTable OBVIOUS
  <2>2. y \in TableIndex BY <1>5, <2>1 DEF Mappable
  <2>3. i \in TableSlot
    <3>1. PagesPerTable \in Nat \ {0} BY PagingAssumption
    <3> QED BY <2>1, <3>1 DEF TableSlot
  <2>4. PICK v : v = m.dirs[d][y] OBVIOUS
  <2>5. v # Nil /\ m.tables[v][i] # Nil BY <1>5, <2>1, <2>4 DEF GetPage
  <2>6. v \in 1..Len(m.tables) BY <1>2, <2>2, <2>4, <2>5 DEF MemOk
  <2>7. r.dirs[d][y] = v BY <1>1, <1>2, <2>2, <2>4, <2>5 DEF Entered
  <2>8. v \in 1..Len(r.tables) /\ v <= Len(m.tables) BY <2>6 DEF Entered
  <2>9. r.tables[v][i] = e \/ r.tables[v][i] = m.tables[v][i]
    BY <1>1, <1>2, <2>3, <2>8 DEF Entered
  <2> QED BY <2>1, <2>5, <2>7, <2>9 DEF GetPage
<1>6. Touches(m, r, d, P) BY EnteredTouches
<1>7. MemOk(r) BY DEF Entered
<1> QED BY <1>3, <1>4, <1>5, <1>6, <1>7 DEF Keeps

(* What a memory keeps depends on its tables and directories only. *)
LEMMA KeepsSame ==
  ASSUME NEW m1, NEW m2, NEW d, NEW P, Keeps(m1, m2, d, P),
         NEW m, NEW r, MemOk(m), MemOk(r), m1.tables = m.tables, m1.dirs = m.dirs,
         r.tables = m2.tables, r.dirs = m2.dirs
  PROVE  Keeps(m, r, d, P)
<1>1. \A b, q : GetPage(m1, b, q) = GetPage(m, b, q) /\ GetPage(m2, b, q) = GetPage(r, b, q)
  BY DEF GetPage
<1>2. \A b, q : Mappable(m1, b, q) <=> Mappable(m, b, q) BY DEF Mappable
<1>3. OneIndex(m1) <=> OneIndex(m) BY DEF OneIndex
<1>4. OneIndex(m2) <=> OneIndex(r) BY DEF OneIndex
<1>5. Touches(m1, m2, d, P) BY DEF Keeps
<1>6. Touches(m, r, d, P) BY <1>1, <1>2, <1>3, <1>4, <1>5 DEF Touches
<1> QED BY <1>1, <1>2, <1>6 DEF Keeps

(* map_page of the frame that get_free_page finds *)
Gets(m, r, d, page, P) ==
  /\ MemInv(r) /\ Unmarked(r) = Unmarked(m) \ {FreeFrame(m)}
  /\ Keeps(m, r, d, P) /\ GetPage(r, d, page) # Nil

(* map_page takes one free frame, of nobody else, and keeps the memory     *)
(* well-formed.                                                            *)
LEMMA MapPageFacts ==
  ASSUME NEW m, MemInv(m), Unmarked(m) # {}, NEW d, NEW page, Mappable(m, d, page),
         NEW writable \in BOOLEAN, NEW P, page \in P
  PROVE  Gets(m, MapPage(m, d, page, writable), d, page, P)
<1>1. PICK f, e : f = FreeFrame(m) /\ e = [frame |-> f, writable |-> writable] OBVIOUS
<1>2. /\ f \in Unmarked(m) /\ f \in Frame /\ f \in Nat /\ f >= BootFrames
      /\ \A g \in Unmarked(m) : f <= g
  BY <1>1, FreeFrameLowest
<1>3. NFrames \in Nat /\ BootFrames \in Nat /\ FramesPerByte \in Nat \ {0} BY PagingAssumption
<1>4. e \in PageEntry /\ e # Nil /\ e.frame = f BY <1>1, <1>2, NoNilAssumption DEF PageEntry
<1>5. MemOk(m) /\ Owned(m) /\ Counted(m) /\ m \in MemType BY DEF MemInv, MemOk
<1>6. IsFiniteSet(Unmarked(m)) /\ Unmarked(m) \subseteq Frame
  <2>1. IsFiniteSet(Frame)
    <3>1. NFrames - 1 \in Int BY <1>3
    <3> QED BY <3>1, FS_Interval DEF Frame
  <2>2. Unmarked(m) \in SUBSET Frame BY DEF Unmarked
  <2> QED BY <2>1, <2>2, FS_Subset
<1>7. PICK nf \in Nat : nf = Cardinality(Unmarked(m)) /\ nf >= 1
  <2>1. Cardinality(Unmarked(m)) \in Nat BY <1>6, FS_CardinalityType
  <2>2. Cardinality(Unmarked(m)) # 0 BY <1>6, FS_EmptySet
  <2> QED BY <2>1, <2>2
<1>8. PICK byte : byte = f \div FramesPerByte OBVIOUS
<1>9. byte \in Nat BY <1>2, <1>3, <1>8
<1>10. PICK m1 : m1 = TakeFrame(m, f) OBVIOUS
<1>11. /\ m1.last_free_page = byte /\ m1.nfree_pages = nf - 1 /\ m1.page_bitmap = m.page_bitmap
       /\ m1.tables = m.tables /\ m1.dirs = m.dirs
       /\ m1 \in [page_bitmap : {m.page_bitmap}, last_free_page : {byte},
                  nfree_pages : {nf - 1}, tables : {m.tables}, dirs : {m.dirs}]
  <2>1. m.nfree_pages = nf BY <1>5, <1>7 DEF Counted
  <2> QED BY <1>5, <1>8, <1>10, <2>1 DEF TakeFrame, MemType
<1>12. MemOk(m1)
  <2>1. nf - 1 \in Nat BY <1>7
  <2>2. m1 \in MemType BY <1>5, <1>9, <1>11, <2>1 DEF MemType
  <2> QED BY <1>5, <1>11, <2>2 DEF MemOk
<1>13. Mappable(m1, d, page) BY <1>11 DEF Mappable
<1>14. PICK m2 : m2 = MapRPage(m1, d, page, f, writable) OBVIOUS
<1>15. PICK t : Entered(m1, m2, d, page, t, e) BY <1>1, <1>2, <1>12, <1>13, <1>14, MapRPageFacts
<1>16. PICK r : r = MapPage(m, d, page, writable) OBVIOUS
<1>17. r = [m2 EXCEPT !.page_bitmap = @ \cup {f}]
  BY <1>1, <1>10, <1>14, <1>16 DEF MapPage, Enter
<1>18. MemOk(m2) /\ m2 \in MemType BY <1>15 DEF Entered, MemOk
<1>19. PICK pb : pb = m2.page_bitmap \cup {f} OBVIOUS
<1>20. /\ r.page_bitmap = pb /\ r.last_free_page = m2.last_free_page
       /\ r.nfree_pages = m2.nfree_pages /\ r.tables = m2.tables /\ r.dirs = m2.dirs
       /\ r \in [page_bitmap : {pb}, last_free_page : {m2.last_free_page},
                 nfree_pages : {m2.nfree_pages}, tables : {m2.tables}, dirs : {m2.dirs}]
  BY <1>17, <1>18, <1>19 DEF MemType
<1>21. r.last_free_page = byte /\ r.nfree_pages = nf - 1 /\ pb = m.page_bitmap \cup {f}
  BY <1>11, <1>15, <1>19, <1>20 DEF Entered
<1>22. MemOk(r)
  <2>1. pb \subseteq Frame BY <1>2, <1>18, <1>19 DEF MemType
  <2>2. r \in MemType BY <1>18, <1>20, <2>1 DEF MemType
  <2> QED BY <1>18, <1>20, <2>2 DEF MemOk
<1>23. Unmarked(r) = Unmarked(m) \ {f} BY <1>20, <1>21 DEF Unmarked
<1>24. Counted(r)
  <2>1. 0..(BootFrames - 1) \subseteq pb BY <1>5, <1>21 DEF Counted
  <2>2. ASSUME NEW g \in Unmarked(r) PROVE g \div FramesPerByte >= byte
    <3>1. g \in Nat /\ f <= g BY <1>2, <1>3, <1>6, <1>23 DEF Frame
    <3> QED BY <1>2, <1>3, <1>8, <3>1, DivMonotone
  <2>3. Cardinality(Unmarked(r)) = nf - 1 BY <1>2, <1>6, <1>7, <1>23, FS_RemoveElement
  <2> QED BY <1>20, <1>21, <2>1, <2>2, <2>3 DEF Counted
<1>25. Owned(r)
  <2>1. PICK k, n, l : k = page % PagesPerTable /\ n = Len(m.tables) /\ l = Len(r.tables) OBVIOUS
  <2>2. /\ n \in Nat /\ l \in Nat /\ n <= l /\ t \in 1..l /\ k \in TableSlot /\ r.tables[t][k] = e
        /\ \A u \in 1..l, i \in TableSlot : ~(u = t /\ i = k) =>
             r.tables[u][i] = IF u <= n THEN m.tables[u][i] ELSE Nil
    BY <1>11, <1>15, <1>20, <2>1 DEF Entered
  <2>3. ASSUME NEW u \in 1..l, NEW i \in TableSlot, r.tables[u][i] # Nil, ~(u = t /\ i = k)
        PROVE  /\ u \in 1..n /\ r.tables[u][i] = m.tables[u][i]
               /\ r.tables[u][i].frame \in m.page_bitmap /\ r.tables[u][i].frame >= BootFrames
               /\ r.tables[u][i].frame # f
    <3>1. u \in 1..n /\ r.tables[u][i] = m.tables[u][i] BY <2>2, <2>3
    <3>2. r.tables[u][i].frame \in m.page_bitmap /\ r.tables[u][i].frame >= BootFrames
      BY <1>5, <2>1, <2>3, <3>1 DEF Owned
    <3>3. f \notin m.page_bitmap BY <1>2 DEF Unmarked
    <3> QED BY <3>1, <3>2, <3>3
  <2>4. ASSUME NEW u \in 1..l, NEW v \in 1..l, NEW i \in TableSlot, NEW j \in TableSlot,
               r.tables[u][i] # Nil, r.tables[v][j] # Nil,
               r.tables[u][i].frame = r.tables[v][j].frame
        PROVE  u = v /\ i = j
    <3>1. CASE u = t /\ i = k /\ v = t /\ j = k BY <3>1
    <3>2. CASE u = t /\ i = k /\ ~(v = t /\ j = k) BY <1>4, <2>2, <2>3, <2>4, <3>2
    <3>3. CASE ~(u = t /\ i = k) /\ v = t /\ j = k BY <1>4, <2>2, <2>3, <2>4, <3>3
    <3>4. CASE ~(u = t /\ i = k) /\ ~(v = t /\ j = k)
      <4>1. /\ u \in 1..n /\ r.tables[u][i] = m.tables[u][i]
            /\ v \in 1..n /\ r.tables[v][j] = m.tables[v][j]
        BY <2>3, <2>4, <3>4
      <4> QED BY <1>5, <2>1, <2>4, <4>1 DEF Owned
    <3> QED BY <3>1, <3>2, <3>3, <3>4
  <2>5. ASSUME NEW u \in 1..l, NEW i \in TableSlot, r.tables[u][i] # Nil
        PROVE  r.tables[u][i].frame \in pb /\ r.tables[u][i].frame >= BootFrames
    <3>1. CASE u = t /\ i = k BY <1>2, <1>4, <1>21, <2>2, <3>1
    <3>2. CASE ~(u = t /\ i = k) BY <1>21, <2>3, <2>5, <3>2
    <3> QED BY <3>1, <3>2
  <2> QED BY <1>20, <2>1, <2>4, <2>5 DEF Owned
<1>26. Keeps(m1, m2, d, P) /\ GetPage(m2, d, page) = e BY <1>4, <1>12, <1>13, <1>15, EnteredKeeps
<1>27. Keeps(m, r, d, P) /\ GetPage(r, d, page) = e
  <2>1. m1.tables = m.tables /\ m1.dirs = m.dirs /\ r.tables = m2.tables /\ r.dirs = m2.dirs
    BY <1>11, <1>20
  <2>2. Keeps(m, r, d, P) BY <1>5, <1>22, <1>26, <2>1, KeepsSame
  <2> QED BY <1>26, <2>1, <2>2 DEF GetPage
<1> QED BY <1>1, <1>4, <1>16, <1>22, <1>23, <1>24, <1>25, <1>27 DEF Gets, MemInv

-----------------------------------------------------------------------------
(* There are finitely many frames. *)
Count(m) == Cardinality(Unmarked(m))

(* So the free ones can be counted. *)
LEMMA UnmarkedFinite ==
  ASSUME NEW m
  PROVE  /\ IsFiniteSet(Unmarked(m)) /\ Count(m) \in Nat
         /\ Count(m) = 0 <=> Unmarked(m) = {}
<1>1. NFrames \in Nat BY PagingAssumption
<1>2. IsFiniteSet(Frame)
  <2>1. NFrames - 1 \in Int BY <1>1
  <2> QED BY <2>1, FS_Interval DEF Frame
<1>3. Unmarked(m) \in SUBSET Frame BY DEF Unmarked
<1>4. IsFiniteSet(Unmarked(m)) BY <1>2, <1>3, FS_Subset
<1> QED BY <1>4, FS_CardinalityType, FS_EmptySet DEF Count

(* map_page takes one frame. *)
LEMMA GetsOne ==
  ASSUME NEW m, NEW r, NEW d, NEW page, NEW P,
         MemInv(m), Unmarked(m) # {}, Gets(m, r, d, page, P)
  PROVE  Count(r) = Count(m) - 1 /\ Count(m) >= 1
<1>1. FreeFrame(m) \in Unmarked(m) BY FreeFrameLowest
<1>2. Unmarked(r) = Unmarked(m) \ {FreeFrame(m)} BY DEF Gets
<1>3. IsFiniteSet(Unmarked(m)) /\ Count(m) \in Nat /\ Count(m) # 0 BY UnmarkedFinite
<1>4. Count(r) = Count(m) - 1 BY <1>1, <1>2, <1>3, FS_RemoveElement DEF Count
<1> QED BY <1>3, <1>4

(* What two steps touch. *)
LEMMA TouchesOn ==
  ASSUME NEW m, NEW r, NEW s, NEW d, NEW P, Keeps(m, r, d, P), Keeps(r, s, d, P)
  PROVE  Touches(m, s, d, P)
<1>1. PICK n \in Nat, l \in Nat, h \in Nat :
        n = Len(m.tables) /\ l = Len(r.tables) /\ h = Len(s.tables)
  BY DEF Keeps, MemOk, MemType
<1>2. n <= l /\ l <= h BY <1>1 DEF Keeps, Touches
<1>3. \A b \in Dir : b # d => s.dirs[b] = m.dirs[b] BY DEF Keeps, Touches
<1>4. ASSUME NEW x \in TableIndex
      PROVE  \/ r.dirs[d][x] = m.dirs[d][x]
             \/ /\ m.dirs[d][x] = Nil /\ x \in TableOf(P)
                /\ r.dirs[d][x] \in Nat /\ r.dirs[d][x] > n
  BY <1>1 DEF Keeps, Touches
<1>5. ASSUME NEW x \in TableIndex
      PROVE  \/ s.dirs[d][x] = r.dirs[d][x]
             \/ /\ r.dirs[d][x] = Nil /\ x \in TableOf(P)
                /\ s.dirs[d][x] \in Nat /\ s.dirs[d][x] > l
  BY <1>1 DEF Keeps, Touches
<1>6. ASSUME NEW x \in TableIndex
      PROVE  \/ s.dirs[d][x] = m.dirs[d][x]
             \/ /\ m.dirs[d][x] = Nil /\ x \in TableOf(P)
                /\ s.dirs[d][x] \in Nat /\ s.dirs[d][x] > n
  <2>1. CASE s.dirs[d][x] = r.dirs[d][x] BY <1>4, <2>1
  <2>2. CASE s.dirs[d][x] # r.dirs[d][x] BY <1>2, <1>4, <1>5, <2>2
  <2> QED BY <2>1, <2>2
<1>7. ASSUME NEW u \in 1..n, NEW i \in TableSlot, s.tables[u][i] # m.tables[u][i]
      PROVE  \E q \in P : /\ q \div PagesPerTable \in TableIndex
                          /\ m.dirs[d][q \div PagesPerTable] = u /\ q % PagesPerTable = i
  <2>1. u \in 1..l BY <1>2
  <2>2. CASE r.tables[u][i] # m.tables[u][i] BY <1>1, <2>2 DEF Keeps, Touches
  <2>3. CASE s.tables[u][i] # r.tables[u][i]
    <3>1. PICK q \in P : /\ q \div PagesPerTable \in TableIndex
                         /\ r.dirs[d][q \div PagesPerTable] = u /\ q % PagesPerTable = i
      BY <1>1, <2>1, <2>3 DEF Keeps, Touches
    <3>2. m.dirs[d][q \div PagesPerTable] = u BY <1>4, <3>1
    <3> QED BY <3>1, <3>2
  <2> QED BY <1>7, <2>2, <2>3
<1>8. ASSUME OneIndex(m)
      PROVE  /\ OneIndex(s)
             /\ \A b \in Dir, q \in Nat : Mappable(m, b, q) /\ q \notin P =>
                  GetPage(s, b, q) = GetPage(m, b, q)
  <2>1. OneIndex(r) /\ OneIndex(s) BY <1>8 DEF Keeps, Touches
  <2>2. ASSUME NEW b \in Dir, NEW q \in Nat, Mappable(m, b, q), q \notin P
        PROVE  GetPage(s, b, q) = GetPage(m, b, q)
    <3>1. Mappable(r, b, q) BY <2>2 DEF Keeps, Mappable
    <3>2. GetPage(r, b, q) = GetPage(m, b, q) BY <1>8, <2>2 DEF Keeps, Touches
    <3>3. GetPage(s, b, q) = GetPage(r, b, q) BY <2>1, <2>2, <3>1 DEF Keeps, Touches
    <3> QED BY <3>2, <3>3
  <2> QED BY <2>1, <2>2
<1>9. n <= h BY <1>2
<1> QED BY <1>1, <1>3, <1>6, <1>7, <1>8, <1>9 DEF Touches

(* What is kept step by step is kept. *)
LEMMA KeepsOn ==
  ASSUME NEW m, NEW r, NEW d, NEW P
  PROVE  /\ MemOk(m) => Keeps(m, m, d, P)
         /\ Keeps(m, r, d, P) => \A q : Mappable(m, d, q) <=> Mappable(r, d, q)
         /\ \A s : Keeps(m, r, d, P) /\ Keeps(r, s, d, P) => Keeps(m, s, d, P)
<1>1. MemOk(m) => Keeps(m, m, d, P)
  <2>1. MemOk(m) => Len(m.tables) \in Nat BY DEF MemOk, MemType
  <2> QED BY <2>1 DEF Keeps, Touches
<1>2. Keeps(m, r, d, P) => \A q : Mappable(m, d, q) <=> Mappable(r, d, q) BY DEF Keeps, Mappable
<1>3. ASSUME NEW s, Keeps(m, r, d, P), Keeps(r, s, d, P) PROVE Keeps(m, s, d, P)
  <2>1. \A b \in Dir : s.dirs[b] = Nil <=> m.dirs[b] = Nil BY <1>3 DEF Keeps
  <2>2. ASSUME NEW q \in Nat, Mappable(m, d, q), GetPage(m, d, q) # Nil PROVE GetPage(s, d, q) # Nil
    <3>1. Mappable(r, d, q) /\ GetPage(r, d, q) # Nil BY <1>2, <1>3, <2>2 DEF Keeps
    <3> QED BY <1>3, <2>2, <3>1 DEF Keeps
  <2>3. Touches(m, s, d, P) BY <1>3, TouchesOn
  <2> QED BY <1>3, <2>1, <2>2, <2>3 DEF Keeps
<1> QED BY <1>1, <1>2, <1>3

(* map_pages *)
MapStep(c, d, n, page) == MapPage(n, c, page, d)
MapLoop == INSTANCE FoldTheorems WITH op <- MapStep

(* map_pages maps every page asked for, each on a frame of its own, if     *)
(* there are enough.                                                       *)
LEMMA MapPagesFacts ==
  ASSUME NEW m, MemInv(m), NEW d, NEW pages \in Seq(Nat), NEW writable \in BOOLEAN,
         NEW P, \A i \in 1..Len(pages) : Mappable(m, d, pages[i]) /\ pages[i] \in P,
         Count(m) >= Len(pages)
  PROVE  LET r == MapPages(m, d, pages, writable)
         IN  /\ MemInv(r) /\ Keeps(m, r, d, P) /\ Count(r) = Count(m) - Len(pages)
             /\ \A i \in 1..Len(pages) : GetPage(r, d, pages[i]) # Nil
<1>1. PICK F : MapLoop!Runs(F, d, writable, m, pages) BY MapLoop!FoldRun
<1>2. MapLoop!Loop(d, writable, m, pages) = MapPages(m, d, pages, writable)
  BY Zenon DEF MapLoop!Loop, MapStep, MapPages, MapLoop!FoldLeft, FoldLeft,
               MapLoop!MapThenFoldSet, MapThenFoldSet, MapLoop!Max, Max
<1>3. PICK n \in Nat : n = Len(pages) OBVIOUS
<1>4. PICK free \in Nat : free = Count(m) /\ free >= n BY <1>3, UnmarkedFinite
<1>5. /\ F[0] = m /\ F[n] = MapPages(m, d, pages, writable)
      /\ \A k \in 0..(n - 1) : F[k + 1] = MapPage(F[k], d, pages[k + 1], writable)
  BY <1>1, <1>2, <1>3, Zenon DEF MapLoop!Runs, MapStep
<1> DEFINE Ok(k) == /\ MemInv(F[k]) /\ Keeps(m, F[k], d, P) /\ Count(F[k]) = free - k
                    /\ \A i \in 1..k : GetPage(F[k], d, pages[i]) # Nil
           S == {k \in Nat : k <= n => Ok(k)}
<1>6. 0 \in S BY <1>4, <1>5, KeepsOn DEF MemInv
<1>7. ASSUME NEW k \in Nat, k \in S PROVE k + 1 \in S
  <2> SUFFICES ASSUME k + 1 <= n PROVE Ok(k + 1) OBVIOUS
  <2>1. PICK s, p : s = F[k] /\ p = pages[k + 1] OBVIOUS
  <2>2. /\ MemInv(s) /\ Keeps(m, s, d, P) /\ Count(s) = free - k
        /\ \A i \in 1..k : GetPage(s, d, pages[i]) # Nil
    BY <1>7, <2>1
  <2>3. k + 1 \in 1..n /\ k \in 0..(n - 1) OBVIOUS
  <2>4. F[k + 1] = MapPage(s, d, p, writable) BY <1>5, <2>1, <2>3
  <2>5. Mappable(s, d, p) /\ p \in P BY <1>3, <2>1, <2>2, <2>3, KeepsOn
  <2>6. Unmarked(s) # {}
    <3>1. Count(s) # 0 BY <1>4, <2>2
    <3> QED BY <3>1, UnmarkedFinite
  <2>7. PICK r : r = MapPage(s, d, p, writable) OBVIOUS
  <2>8. Gets(s, r, d, p, P) BY <2>2, <2>5, <2>6, <2>7, MapPageFacts
  <2>9. Count(r) = free - (k + 1)
    <3>1. Count(r) = Count(s) - 1 BY <2>2, <2>6, <2>8, GetsOne
    <3> QED BY <1>4, <2>2, <3>1
  <2>10. MemInv(r) /\ Keeps(s, r, d, P) /\ GetPage(r, d, p) # Nil BY <2>8 DEF Gets
  <2>11. Keeps(m, r, d, P) BY <2>2, <2>10, KeepsOn
  <2>12. ASSUME NEW i \in 1..(k + 1) PROVE GetPage(r, d, pages[i]) # Nil
    <3>1. CASE i = k + 1 BY <2>1, <2>10, <3>1
    <3>2. CASE i # k + 1
      <4>1. i \in 1..k /\ i \in 1..n BY <2>3, <3>2
      <4>2. Mappable(s, d, pages[i]) /\ pages[i] \in Nat BY <1>3, <2>2, <4>1, KeepsOn
      <4> QED BY <2>2, <2>10, <4>1, <4>2 DEF Keeps
    <3> QED BY <3>1, <3>2
  <2> QED BY <2>4, <2>7, <2>9, <2>10, <2>11, <2>12
<1>8. Nat \subseteq S
  <2> HIDE DEF S
  <2> QED BY <1>6, <1>7, MapLoop!SetInduction
<1>9. n \in S /\ n <= n BY <1>8
<1> QED BY <1>3, <1>4, <1>5, <1>9

(* map_r_page of the frame that a page has already *)
LEMMA RemapFacts ==
  ASSUME NEW m, MemInv(m), NEW d, NEW page, Mappable(m, d, page), NEW writable \in BOOLEAN,
         GetPage(m, d, page) # Nil, NEW P, page \in P
  PROVE  LET r == MapRPage(m, d, page, GetPage(m, d, page).frame, writable)
         IN  MemInv(r) /\ Keeps(m, r, d, P) /\ Count(r) = Count(m)
<1>1. PICK x, k : x = page \div PagesPerTable /\ k = page % PagesPerTable OBVIOUS
<1>2. PICK t : t = m.dirs[d][x] OBVIOUS
<1>3. t # Nil /\ GetPage(m, d, page) = m.tables[t][k] BY <1>1, <1>2 DEF GetPage
<1>4. PICK old : old = m.tables[t][k] OBVIOUS
<1>5. MemOk(m) /\ Owned(m) /\ Counted(m) /\ m \in MemType BY DEF MemInv, MemOk
<1>6. t \in 1..Len(m.tables) BY <1>1, <1>2, <1>3, <1>5 DEF MemOk, Mappable
<1>7. k \in TableSlot
  <2>1. PagesPerTable \in Nat \ {0} /\ page \in Nat BY PagingAssumption DEF Mappable
  <2> QED BY <1>1, <2>1 DEF TableSlot
<1>8. old \in PageEntry /\ old # Nil
  <2>1. m.tables[t] \in Table BY <1>5, <1>6 DEF MemType
  <2> QED BY <1>3, <1>4, <1>7, <2>1 DEF Table
<1>9. PICK f, e : f = old.frame /\ e = [frame |-> f, writable |-> writable] OBVIOUS
<1>10. f \in Frame BY <1>8, <1>9 DEF PageEntry
<1>11. e \in PageEntry /\ e # Nil /\ e.frame = f BY <1>9, <1>10, NoNilAssumption DEF PageEntry
<1>12. PICK r : r = MapRPage(m, d, page, f, writable) OBVIOUS
<1>13. PICK tt : Entered(m, r, d, page, tt, e) BY <1>5, <1>9, <1>10, <1>12, MapRPageFacts
<1>14. tt = t BY <1>1, <1>2, <1>3, <1>13 DEF Entered
<1>22. MemOk(r) BY <1>13 DEF Entered
<1>15. MemOk(r) /\ Keeps(m, r, d, P) BY <1>5, <1>11, <1>13, <1>22, EnteredKeeps
<1>16. /\ r.page_bitmap = m.page_bitmap /\ r.last_free_page = m.last_free_page
       /\ r.nfree_pages = m.nfree_pages
  BY <1>13 DEF Entered
<1>17. Unmarked(r) = Unmarked(m) BY <1>16 DEF Unmarked
<1>18. Counted(r) BY <1>5, <1>16, <1>17 DEF Counted
<1>19. PICK n \in Nat, l \in Nat : n = Len(m.tables) /\ l = Len(r.tables) BY <1>13 DEF Entered
<1>20. ASSUME NEW u \in 1..l, NEW i \in TableSlot, r.tables[u][i] # Nil
       PROVE  /\ u \in 1..n /\ m.tables[u][i] # Nil
              /\ r.tables[u][i].frame = m.tables[u][i].frame
  <2>1. CASE u = t /\ i = k
    <3>1. r.tables[u][i] = e BY <1>1, <1>13, <1>14, <2>1 DEF Entered
    <3> QED BY <1>4, <1>6, <1>8, <1>9, <1>11, <1>19, <2>1, <3>1
  <2>2. CASE ~(u = t /\ i = k)
    <3>1. r.tables[u][i] = IF u <= n THEN m.tables[u][i] ELSE Nil
      BY <1>1, <1>13, <1>14, <1>19, <2>2 DEF Entered
    <3> QED BY <1>20, <3>1
  <2> QED BY <2>1, <2>2
<1>21. Owned(r)
  <2>1. ASSUME NEW u \in 1..l, NEW v \in 1..l, NEW i \in TableSlot, NEW j \in TableSlot,
               r.tables[u][i] # Nil, r.tables[v][j] # Nil,
               r.tables[u][i].frame = r.tables[v][j].frame
        PROVE  u = v /\ i = j
    BY <1>5, <1>19, <1>20, <2>1 DEF Owned
  <2>2. ASSUME NEW u \in 1..l, NEW i \in TableSlot, r.tables[u][i] # Nil
        PROVE  r.tables[u][i].frame \in m.page_bitmap /\ r.tables[u][i].frame >= BootFrames
    BY <1>5, <1>19, <1>20, <2>2 DEF Owned
  <2> QED BY <1>16, <1>19, <2>1, <2>2 DEF Owned
<1> QED BY <1>3, <1>4, <1>9, <1>12, <1>15, <1>17, <1>18, <1>21 DEF MemInv, Count

(* remap_pages *)
RemapStep(c, d, n, page) == MapRPage(n, c, page, GetPage(n, c, page).frame, d)
RemapLoop == INSTANCE FoldTheorems WITH op <- RemapStep

(* remap_pages changes the rights of mapped pages, and takes no frame. *)
LEMMA RemapPagesFacts ==
  ASSUME NEW m, MemInv(m), NEW d, NEW pages \in Seq(Nat), NEW writable \in BOOLEAN,
         NEW P, \A i \in 1..Len(pages) :
                  Mappable(m, d, pages[i]) /\ GetPage(m, d, pages[i]) # Nil /\ pages[i] \in P
  PROVE  LET r == RemapPages(m, d, pages, writable)
         IN  MemInv(r) /\ Keeps(m, r, d, P) /\ Count(r) = Count(m)
<1>1. PICK F : RemapLoop!Runs(F, d, writable, m, pages) BY RemapLoop!FoldRun
<1>2. RemapLoop!Loop(d, writable, m, pages) = RemapPages(m, d, pages, writable)
  BY Zenon DEF RemapLoop!Loop, RemapStep, RemapPages, RemapLoop!FoldLeft, FoldLeft,
               RemapLoop!MapThenFoldSet, MapThenFoldSet, RemapLoop!Max, Max
<1>3. PICK n \in Nat : n = Len(pages) OBVIOUS
<1>4. /\ F[0] = m /\ F[n] = RemapPages(m, d, pages, writable)
      /\ \A k \in 0..(n - 1) : F[k + 1] = MapRPage(F[k], d, pages[k + 1],
                                                   GetPage(F[k], d, pages[k + 1]).frame, writable)
  BY <1>1, <1>2, <1>3, Zenon DEF RemapLoop!Runs, RemapStep
<1> DEFINE Ok(k) == MemInv(F[k]) /\ Keeps(m, F[k], d, P) /\ Count(F[k]) = Count(m)
           S == {k \in Nat : k <= n => Ok(k)}
<1>5. 0 \in S BY <1>4, KeepsOn DEF MemInv
<1>6. ASSUME NEW k \in Nat, k \in S PROVE k + 1 \in S
  <2> SUFFICES ASSUME k + 1 <= n PROVE Ok(k + 1) OBVIOUS
  <2>1. PICK s, p : s = F[k] /\ p = pages[k + 1] OBVIOUS
  <2>2. MemInv(s) /\ Keeps(m, s, d, P) /\ Count(s) = Count(m) BY <1>6, <2>1
  <2>3. k + 1 \in 1..n /\ k \in 0..(n - 1) OBVIOUS
  <2>4. PICK r : r = MapRPage(s, d, p, GetPage(s, d, p).frame, writable) OBVIOUS
  <2>5. F[k + 1] = r BY <1>4, <2>1, <2>3, <2>4
  <2>6. Mappable(m, d, p) /\ GetPage(m, d, p) # Nil /\ p \in Nat /\ p \in P BY <1>3, <2>1, <2>3
  <2>7. Mappable(s, d, p) /\ GetPage(s, d, p) # Nil BY <2>2, <2>6, KeepsOn DEF Keeps
  <2>8. MemInv(r) /\ Keeps(s, r, d, P) /\ Count(r) = Count(s)
    BY <2>2, <2>4, <2>6, <2>7, RemapFacts
  <2>9. Keeps(m, r, d, P) BY <2>2, <2>8, KeepsOn
  <2> QED BY <2>2, <2>5, <2>8, <2>9
<1>7. Nat \subseteq S
  <2> HIDE DEF S
  <2> QED BY <1>5, <1>6, RemapLoop!SetInduction
<1>8. n \in S /\ n <= n BY <1>7
<1> QED BY <1>4, <1>8

(* free_page: the frame has no other owner, so unmarking it frees it. *)
LEMMA FreePageFacts ==
  ASSUME NEW m, MemInv(m), NEW d, NEW page, Mappable(m, d, page), GetPage(m, d, page) # Nil
  PROVE  LET r == FreePage(m, d, page)
         IN  /\ MemInv(r) /\ r.dirs = m.dirs /\ Unmarked(r) # {} /\ Len(r.tables) = Len(m.tables)
             /\ \A u \in 1..Len(m.tables), i \in TableSlot : r.tables[u][i] # m.tables[u][i] =>
                  /\ m.dirs[d][page \div PagesPerTable] = u /\ page % PagesPerTable = i
                  /\ r.tables[u][i] = Nil
<1>1. PICK x, k : x = page \div PagesPerTable /\ k = page % PagesPerTable OBVIOUS
<1>2. PICK t : t = m.dirs[d][x] OBVIOUS
<1>3. t # Nil /\ GetPage(m, d, page) = m.tables[t][k] BY <1>1, <1>2 DEF GetPage
<1>4. PICK old : old = m.tables[t][k] OBVIOUS
<1>5. MemOk(m) /\ Owned(m) /\ Counted(m) /\ m \in MemType BY DEF MemInv, MemOk
<1>6. t \in 1..Len(m.tables) BY <1>1, <1>2, <1>3, <1>5 DEF MemOk, Mappable
<1>7. k \in TableSlot
  <2>1. PagesPerTable \in Nat \ {0} /\ page \in Nat BY PagingAssumption DEF Mappable
  <2> QED BY <1>1, <2>1 DEF TableSlot
<1>8. old \in PageEntry /\ old # Nil
  <2>1. m.tables[t] \in Table BY <1>5, <1>6 DEF MemType
  <2> QED BY <1>3, <1>4, <1>7, <2>1 DEF Table
<1>9. PICK f : f = old.frame OBVIOUS
<1>10. /\ f \in Frame /\ f \in Nat /\ f \in m.page_bitmap /\ f >= BootFrames
       /\ BootFrames \in Nat /\ FramesPerByte \in Nat \ {0} /\ NFrames \in Nat
  <2>1. BootFrames \in Nat /\ FramesPerByte \in Nat \ {0} /\ NFrames \in Nat BY PagingAssumption
  <2>2. f \in Frame BY <1>8, <1>9 DEF PageEntry
  <2>3. f \in m.page_bitmap /\ f >= BootFrames BY <1>4, <1>5, <1>6, <1>7, <1>8, <1>9 DEF Owned
  <2> QED BY <2>1, <2>2, <2>3 DEF Frame
<1>11. PICK byte, nt, last : /\ byte = f \div FramesPerByte
                             /\ nt = [m.tables EXCEPT ![t][k] = Nil]
                             /\ last = IF m.last_free_page > byte THEN byte ELSE m.last_free_page
  OBVIOUS
<1>12. PICK r : r = FreePage(m, d, page) OBVIOUS
<1>13. r = [m EXCEPT !.tables[t][k] = Nil, !.page_bitmap = @ \ {f}, !.nfree_pages = @ + 1,
                     !.last_free_page = IF @ > byte THEN byte ELSE @]
  BY <1>1, <1>2, <1>3, <1>4, <1>9, <1>11, <1>12 DEF FreePage
<1>14. /\ r.page_bitmap = m.page_bitmap \ {f} /\ r.last_free_page = last
       /\ r.nfree_pages = m.nfree_pages + 1 /\ r.tables = nt /\ r.dirs = m.dirs
       /\ r \in [page_bitmap : {m.page_bitmap \ {f}}, last_free_page : {last},
                 nfree_pages : {m.nfree_pages + 1}, tables : {nt}, dirs : {m.dirs}]
  BY <1>5, <1>11, <1>13 DEF MemType
<1>15. PICK n \in Nat : n = Len(m.tables) BY <1>5 DEF MemType
<1>16. PICK tab : tab = [m.tables[t] EXCEPT ![k] = Nil] OBVIOUS
<1>17. m.tables \in Seq(Table) BY <1>5 DEF MemType
<1>18. tab \in Table /\ tab[k] = Nil /\ \A i \in TableSlot : i # k => tab[i] = m.tables[t][i]
  <2>1. m.tables[t] \in Table BY <1>6, <1>17
  <2> QED BY <1>7, <1>16, <2>1 DEF Table
<1>19. nt \in Seq(Table) /\ Len(nt) = n /\ nt[t] = tab /\ \A u \in 1..n : u # t => nt[u] = m.tables[u]
  <2>1. nt = [m.tables EXCEPT ![t] = tab] BY <1>11, <1>16
  <2> QED BY <1>6, <1>15, <1>17, <1>18, <2>1
<1>20. /\ nt[t][k] = Nil
       /\ \A u \in 1..n, i \in TableSlot : ~(u = t /\ i = k) => nt[u][i] = m.tables[u][i]
  BY <1>18, <1>19
<1>21. byte \in Nat /\ last \in Nat /\ last <= byte /\ last <= m.last_free_page
  <2>1. byte \in Nat BY <1>10, <1>11
  <2>2. m.last_free_page \in Nat BY <1>5 DEF MemType
  <2> QED BY <1>11, <2>1, <2>2
<1>22. MemOk(r)
  <2>1. m.nfree_pages + 1 \in Nat /\ m.page_bitmap \ {f} \subseteq Frame BY <1>5 DEF MemType
  <2>2. r \in MemType BY <1>5, <1>14, <1>19, <1>21, <2>1 DEF MemType
  <2> QED BY <1>5, <1>14, <1>15, <1>19, <2>2 DEF MemOk
<1>23. Unmarked(r) = Unmarked(m) \cup {f} /\ f \notin Unmarked(m) BY <1>10, <1>14 DEF Unmarked
<1>24. Counted(r)
  <2>1. 0..(BootFrames - 1) \subseteq m.page_bitmap \ {f} BY <1>5, <1>10 DEF Counted
  <2>2. ASSUME NEW g \in Unmarked(r) PROVE g \div FramesPerByte >= last
    <3>1. CASE g = f BY <1>11, <1>21, <3>1
    <3>2. CASE g # f
      <4>1. g \in Unmarked(m) BY <1>23, <3>2
      <4>2. g \div FramesPerByte >= m.last_free_page BY <1>5, <4>1 DEF Counted
      <4>3. g \in Nat BY <1>10, <4>1 DEF Unmarked, Frame
      <4>4. g \div FramesPerByte \in Nat /\ m.last_free_page \in Nat BY <1>5, <1>10, <4>3 DEF MemType
      <4> QED BY <1>21, <4>2, <4>4
    <3> QED BY <3>1, <3>2
  <2>3. Cardinality(Unmarked(r)) = Cardinality(Unmarked(m)) + 1
    BY <1>23, UnmarkedFinite, FS_AddElement
  <2>4. m.nfree_pages = Cardinality(Unmarked(m)) BY <1>5 DEF Counted
  <2> QED BY <1>14, <2>1, <2>2, <2>3, <2>4 DEF Counted
<1>25. Owned(r)
  <2>1. ASSUME NEW u \in 1..n, NEW i \in TableSlot, nt[u][i] # Nil
        PROVE  ~(u = t /\ i = k) /\ nt[u][i] = m.tables[u][i] /\ nt[u][i].frame # f
    <3>1. ~(u = t /\ i = k) /\ nt[u][i] = m.tables[u][i] BY <1>20, <2>1
    <3> QED BY <1>4, <1>5, <1>6, <1>7, <1>8, <1>9, <1>15, <2>1, <3>1 DEF Owned
  <2>2. ASSUME NEW u \in 1..n, NEW v \in 1..n, NEW i \in TableSlot, NEW j \in TableSlot,
               nt[u][i] # Nil, nt[v][j] # Nil, nt[u][i].frame = nt[v][j].frame
        PROVE  u = v /\ i = j
    BY <1>5, <1>15, <2>1, <2>2 DEF Owned
  <2>3. ASSUME NEW u \in 1..n, NEW i \in TableSlot, nt[u][i] # Nil
        PROVE  nt[u][i].frame \in m.page_bitmap \ {f} /\ nt[u][i].frame >= BootFrames
    BY <1>5, <1>15, <2>1, <2>3 DEF Owned
  <2> QED BY <1>14, <1>19, <2>2, <2>3 DEF Owned
<1>26. Len(r.tables) = Len(m.tables)
       /\ \A u \in 1..Len(m.tables), i \in TableSlot : r.tables[u][i] # m.tables[u][i] =>
            /\ m.dirs[d][page \div PagesPerTable] = u /\ page % PagesPerTable = i
            /\ r.tables[u][i] = Nil
  BY <1>1, <1>2, <1>14, <1>15, <1>19, <1>20
<1> QED BY <1>12, <1>14, <1>22, <1>23, <1>24, <1>25, <1>26 DEF MemInv

-----------------------------------------------------------------------------
(* Every page that is mapped has its place in the directories. *)
LEMMA PagesInTables ==
  /\ \A page \in HeapPage \cup ModulePage \cup {UserHeap} :
       page \in Nat /\ page \div PagesPerTable \in TableIndex
  /\ \A a \in Address : Page(a) \in Nat /\ Page(a) \div PagesPerTable \in TableIndex
  /\ \A i \in 0..(Cardinality(Process) + 1) :
       StackPage(i) \in Nat /\ StackPage(i) \div PagesPerTable \in TableIndex
<1>1. \A page \in HeapPage \cup ModulePage \cup {UserHeap} : page \div PagesPerTable \in TableIndex
  BY DEF TableIndex, TableOf
<1>2. \A a \in Address : Page(a) \div PagesPerTable \in TableIndex BY DEF TableIndex, TableOf
<1>3. \A i \in 0..(Cardinality(Process) + 1) : StackPage(i) \div PagesPerTable \in TableIndex
  BY DEF TableIndex, TableOf, StackPage
<1>4. /\ HeapPage \cup ModulePage \cup {UserHeap} \subseteq Nat
      /\ Address \subseteq Nat /\ StackBase \in Nat /\ PageSize \in Nat \ {0}
  BY PagingAssumption
<1>5. \A a \in Address : Page(a) \in Nat BY <1>4 DEF Page
<1>6. \A i \in 0..(Cardinality(Process) + 1) : StackPage(i) \in Nat
  <2>1. Cardinality(Process) \in Nat BY PagingAssumption, FS_CardinalityType
  <2> QED BY <1>4, <2>1 DEF StackPage
<1> QED BY <1>1, <1>2, <1>3, <1>4, <1>5, <1>6

(* A program's segments are pages of programs. *)
LEMMA PagesOfProgram ==
  ASSUME NEW image \in Image
  PROVE  \A i \in 1..Len(image) : Range(SegmentPages(image[i])) \subseteq ProgramPages
<1>1. image \in Seq([vaddr : Nat, memsz : Nat, writable : BOOLEAN]) BY PagingAssumption
<1> SUFFICES ASSUME NEW i \in 1..Len(image)
             PROVE  Range(SegmentPages(image[i])) \subseteq ProgramPages
  OBVIOUS
<1>2. PICK s : s = image[i] OBVIOUS
<1>3. s \in Range(image) BY <1>1, <1>2 DEF Range
<1>4. s \in UNION {Range(im) : im \in Image} BY <1>3
<1>5. Range(SegmentPages(s)) \subseteq ProgramPages BY <1>4 DEF ProgramPages
<1> QED BY <1>2, <1>5

(* All of them have their place in the directories. *)
LEMMA ProgramInTables ==
  \A q \in ProgramPages : q \div PagesPerTable \in TableIndex
<1>1. \A q \in ProgramPages :
        q \in HeapPage \cup ModulePage \cup {Page(a) : a \in Address} \cup {UserHeap}
              \cup {StackBase + i : i \in 0..(Cardinality(Process) + 1)}
              \cup UNION {Range(SegmentPages(s)) : s \in UNION {Range(image) : image \in Image}}
  BY DEF ProgramPages
<1> QED BY <1>1 DEF TableIndex, TableOf

(* The pages of a program's segments are in the page directory too. *)
LEMMA SegmentInTables ==
  ASSUME NEW image \in Image, NEW i \in 1..Len(image)
  PROVE  /\ SegmentPages(image[i]) \in Seq(Nat) /\ image[i].writable \in BOOLEAN
         /\ \A j \in 1..Len(SegmentPages(image[i])) :
              SegmentPages(image[i])[j] \div PagesPerTable \in TableIndex
<1> DEFINE Segment == [vaddr : Nat, memsz : Nat, writable : BOOLEAN]
<1>1. image \in Seq(Segment) BY PagingAssumption
<1>2. PICK s : s = image[i] OBVIOUS
<1>3. s \in Segment
  <2> HIDE DEF Segment
  <2> QED BY <1>1, <1>2
<1>4. PageSize \in Nat \ {0} BY PagingAssumption
<1>5. PICK v \in Nat, z \in Nat : v = s.vaddr /\ z = s.memsz BY <1>3
<1>6. PICK n : n = (((v + z) - v) + PageSize - 1) \div PageSize OBVIOUS
<1>7. n \in Nat
  <2>1. ((v + z) - v) + PageSize - 1 \in Nat BY <1>4
  <2> QED BY <1>4, <1>6, <2>1
<1>8. Page(v) \in Nat BY <1>4 DEF Page
<1>9. SegmentPages(s) = [j \in 1..n |-> Page(v) + j - 1]
  BY <1>5, <1>6 DEF SegmentPages, PagesFrom
<1>10. \A j \in 1..n : Page(v) + j - 1 \in Nat BY <1>7, <1>8
<1>11. SegmentPages(s) \in Seq(Nat) BY <1>7, <1>9, <1>10
<1>12. s \in UNION {Range(im) : im \in Image}
  <2>1. s \in Range(image) BY <1>1, <1>2 DEF Range
  <2> QED BY <2>1
<1>13. \A j \in 1..Len(SegmentPages(s)) : SegmentPages(s)[j] \in Range(SegmentPages(s))
  BY <1>11 DEF Range
<1>14. \A j \in 1..Len(SegmentPages(s)) : SegmentPages(s)[j] \div PagesPerTable \in TableIndex
  BY <1>12, <1>13 DEF TableIndex, TableOf
<1> QED BY <1>2, <1>3, <1>11, <1>14

(* A segment takes as many frames as it has pages. *)
LEMMA LoadSegmentFacts ==
  ASSUME NEW m, MemInv(m), NEW d \in Dir, m.dirs[d] # Nil,
         NEW image \in Image, NEW i \in 1..Len(image),
         Count(m) >= Len(SegmentPages(image[i])), NEW P, Range(SegmentPages(image[i])) \subseteq P
  PROVE  LET r == LoadSegment(m, d, image[i])
         IN  /\ MemInv(r) /\ Keeps(m, r, d, P)
             /\ Count(r) = Count(m) - Len(SegmentPages(image[i]))
<1>1. PICK s, pages : s = image[i] /\ pages = SegmentPages(s) OBVIOUS
<1>2. /\ pages \in Seq(Nat) /\ s.writable \in BOOLEAN
      /\ \A j \in 1..Len(pages) : pages[j] \div PagesPerTable \in TableIndex
  BY <1>1, SegmentInTables
<1>3. \A j \in 1..Len(pages) : pages[j] \in Nat /\ Mappable(m, d, pages[j]) /\ pages[j] \in P
  BY <1>1, <1>2 DEF Mappable, Range
<1>4. PICK r : r = MapPages(m, d, pages, TRUE) OBVIOUS
<1>5. /\ MemInv(r) /\ Keeps(m, r, d, P) /\ Count(r) = Count(m) - Len(pages)
      /\ \A j \in 1..Len(pages) : GetPage(r, d, pages[j]) # Nil
  BY <1>1, <1>2, <1>3, <1>4, MapPagesFacts
<1>6. \A j \in 1..Len(pages) : Mappable(r, d, pages[j]) BY <1>3, <1>5, KeepsOn
<1>7. PICK q : q = RemapPages(r, d, pages, FALSE) OBVIOUS
<1>8. MemInv(q) /\ Keeps(r, q, d, P) /\ Count(q) = Count(r)
  BY <1>2, <1>3, <1>5, <1>6, <1>7, RemapPagesFacts
<1>9. Keeps(m, q, d, P) BY <1>5, <1>8, KeepsOn
<1>10. LoadSegment(m, d, s) = IF s.writable THEN r ELSE q
  BY <1>1, <1>4, <1>7 DEF LoadSegment
<1> QED BY <1>1, <1>5, <1>8, <1>9, <1>10

(* The segments of a program *)
SegStep(c, d, n, segment) == LoadSegment(n, c, segment)
SegLoop == INSTANCE FoldTheorems WITH op <- SegStep
SizeStep(c, d, n, segment) == n + Len(SegmentPages(segment))
SizeLoop == INSTANCE FoldTheorems WITH op <- SizeStep
Loaded(m, d, image) == FoldLeft(LAMBDA n, segment : LoadSegment(n, d, segment), m, image)

(* The number of a program's pages, counted segment by segment *)
Sums(G, image) ==
  /\ G[0] = 0 /\ G[Len(image)] = SegmentsSize(image)
  /\ \A k \in 0..(Len(image) - 1) : G[k + 1] = G[k] + Len(SegmentPages(image[k + 1]))
  /\ \A k \in Nat : k <= Len(image) => G[k] \in Nat /\ G[k] <= SegmentsSize(image)

(* It is the sum, and no part of it is more than the whole. *)
LEMMA SegmentsSums ==
  ASSUME NEW image \in Image
  PROVE  Len(image) \in Nat /\ image \in Seq(Range(image)) /\ \E G : Sums(G, image)
<1>1. PICK n \in Nat : n = Len(image)
  <2>1. image \in Seq([vaddr : Nat, memsz : Nat, writable : BOOLEAN]) BY PagingAssumption
  <2> QED BY <2>1
<1>2. image \in Seq(Range(image))
  <2>1. image \in Seq([vaddr : Nat, memsz : Nat, writable : BOOLEAN]) BY PagingAssumption
  <2> QED BY <2>1 DEF Range
<1>5. PICK G : SizeLoop!Runs(G, 0, 0, 0, image) BY <1>2, SizeLoop!FoldRun
<1>6. SizeLoop!Loop(0, 0, 0, image) = SegmentsSize(image)
  BY Zenon DEF SizeLoop!Loop, SizeStep, SegmentsSize, SizeLoop!FoldLeft, FoldLeft,
               SizeLoop!MapThenFoldSet, MapThenFoldSet, SizeLoop!Max, Max
<1>8. /\ G[0] = 0 /\ G[n] = SegmentsSize(image)
      /\ \A k \in 0..(n - 1) : G[k + 1] = G[k] + Len(SegmentPages(image[k + 1]))
  BY <1>1, <1>5, <1>6, Zenon DEF SizeLoop!Runs, SizeStep
<1>9. \A i \in 1..n : Len(SegmentPages(image[i])) \in Nat BY <1>1, SegmentInTables
<1>10. \A k \in Nat : k <= n => G[k] \in Nat
  <2> DEFINE S == {k \in Nat : k <= n => G[k] \in Nat}
  <2>1. 0 \in S BY <1>8
  <2>2. ASSUME NEW k \in Nat, k \in S PROVE k + 1 \in S
    <3> SUFFICES ASSUME k + 1 <= n PROVE G[k + 1] \in Nat OBVIOUS
    <3>1. G[k] \in Nat BY <2>2
    <3>2. k \in 0..(n - 1) /\ k + 1 \in 1..n OBVIOUS
    <3> QED BY <1>8, <1>9, <3>1, <3>2
  <2>3. Nat \subseteq S
    <3> HIDE DEF S
    <3> QED BY <2>1, <2>2, SegLoop!SetInduction
  <2> QED BY <2>3
<1>11. \A k \in Nat : k <= n => G[n - k] <= G[n]
  <2> DEFINE S == {k \in Nat : k <= n => G[n - k] <= G[n]}
  <2>1. 0 \in S BY <1>10
  <2>2. ASSUME NEW k \in Nat, k \in S PROVE k + 1 \in S
    <3> SUFFICES ASSUME k + 1 <= n PROVE G[n - (k + 1)] <= G[n] OBVIOUS
    <3>1. PICK j \in Nat : j = n - (k + 1) OBVIOUS
    <3>2. j + 1 = n - k /\ j \in 0..(n - 1) /\ j + 1 \in 1..n /\ j <= n BY <3>1
    <3>3. G[j + 1] = G[j] + Len(SegmentPages(image[j + 1])) BY <1>8, <3>2
    <3>4. PICK a \in Nat, b \in Nat, c \in Nat :
            a = G[j] /\ b = Len(SegmentPages(image[j + 1])) /\ c = G[n]
      BY <1>9, <1>10, <3>2
    <3>5. G[j + 1] <= c BY <2>2, <3>2, <3>4
    <3>6. a <= c BY <3>3, <3>4, <3>5
    <3> QED BY <3>1, <3>4, <3>6
  <2>3. Nat \subseteq S
    <3> HIDE DEF S
    <3> QED BY <2>1, <2>2, SegLoop!SetInduction
  <2> QED BY <2>3
<1>12. G[n] \in Nat BY <1>10
<1>13. ASSUME NEW k \in Nat, k <= n PROVE G[k] \in Nat /\ G[k] <= SegmentsSize(image)
  <2>1. n - k \in Nat /\ n - k <= n /\ n - (n - k) = k BY <1>13
  <2> QED BY <1>8, <1>10, <1>11, <1>13, <2>1
<1>14. Sums(G, image) BY <1>1, <1>8, <1>13 DEF Sums
<1> QED BY <1>1, <1>2, <1>14

(* It is a number. *)
LEMMA SegmentsSizeType ==
  ASSUME NEW image \in Image
  PROVE  SegmentsSize(image) \in Nat
<1>1. PICK G : Sums(G, image) BY SegmentsSums
<1>2. Len(image) \in Nat /\ Len(image) <= Len(image) BY SegmentsSums
<1> QED BY <1>1, <1>2 DEF Sums

(* A program takes as many frames as its segments have pages. *)
LEMMA LoadedFacts ==
  ASSUME NEW m, MemInv(m), NEW d \in Dir, m.dirs[d] # Nil, NEW image \in Image,
         Count(m) >= SegmentsSize(image), NEW P,
         \A i \in 1..Len(image) : Range(SegmentPages(image[i])) \subseteq P
  PROVE  LET r == Loaded(m, d, image)
         IN  /\ MemInv(r) /\ Keeps(m, r, d, P) /\ SegmentsSize(image) \in Nat
             /\ Count(r) = Count(m) - SegmentsSize(image)
<1>1. PICK n \in Nat : n = Len(image) BY SegmentsSums
<1>2. image \in Seq(Range(image)) BY SegmentsSums
<1>3. PICK F : SegLoop!Runs(F, d, d, m, image) BY <1>2, SegLoop!FoldRun
<1>4. SegLoop!Loop(d, d, m, image) = Loaded(m, d, image)
  BY Zenon DEF SegLoop!Loop, SegStep, Loaded, SegLoop!FoldLeft, FoldLeft,
               SegLoop!MapThenFoldSet, MapThenFoldSet, SegLoop!Max, Max
<1>7. /\ F[0] = m /\ F[n] = Loaded(m, d, image)
      /\ \A k \in 0..(n - 1) : F[k + 1] = LoadSegment(F[k], d, image[k + 1])
  BY <1>1, <1>3, <1>4, Zenon DEF SegLoop!Runs, SegStep
<1>8. PICK G : Sums(G, image) BY SegmentsSums
<1>9. \A i \in 1..n : Len(SegmentPages(image[i])) \in Nat BY <1>1, SegmentInTables
<1>12. PICK free \in Nat, all \in Nat : free = Count(m) /\ all = SegmentsSize(image) /\ all <= free
  BY UnmarkedFinite, SegmentsSizeType
<1>13. /\ \A k \in Nat : k <= n => G[k] \in Nat /\ G[k] <= all
       /\ G[0] = 0 /\ G[n] = all
       /\ \A k \in 0..(n - 1) : G[k + 1] = G[k] + Len(SegmentPages(image[k + 1]))
  BY <1>1, <1>8, <1>12 DEF Sums
<1> DEFINE Ok(k) == MemInv(F[k]) /\ Keeps(m, F[k], d, P) /\ Count(F[k]) = free - G[k]
           S == {k \in Nat : k <= n => Ok(k)}
<1>14. 0 \in S BY <1>7, <1>12, <1>13, KeepsOn DEF MemInv
<1>15. ASSUME NEW k \in Nat, k \in S PROVE k + 1 \in S
  <2> SUFFICES ASSUME k + 1 <= n PROVE Ok(k + 1) OBVIOUS
  <2>1. PICK s, p : s = F[k] /\ p = image[k + 1] OBVIOUS
  <2>2. MemInv(s) /\ Keeps(m, s, d, P) /\ Count(s) = free - G[k] BY <1>15, <2>1
  <2>3. /\ k + 1 \in 1..n /\ k \in 0..(n - 1) /\ k <= n
        /\ G[k] \in Nat /\ G[k + 1] \in Nat /\ G[k + 1] <= all
    BY <1>13
  <2>4. PICK a \in Nat, b \in Nat, c \in Nat :
          a = G[k] /\ b = Len(SegmentPages(p)) /\ c = G[k + 1] /\ c <= all
    BY <1>9, <2>1, <2>3
  <2>5. c = a + b BY <1>13, <2>1, <2>3, <2>4
  <2>6. Count(s) >= b /\ Count(s) = free - a BY <1>12, <2>2, <2>4, <2>5
  <2>7. s.dirs[d] # Nil BY <2>2 DEF Keeps
  <2>8. PICK r : r = LoadSegment(s, d, p) OBVIOUS
  <2>9. MemInv(r) /\ Keeps(s, r, d, P) /\ Count(r) = Count(s) - b
    BY <1>1, <2>1, <2>2, <2>3, <2>4, <2>6, <2>7, <2>8, LoadSegmentFacts
  <2>10. Keeps(m, r, d, P) BY <2>2, <2>9, KeepsOn
  <2>11. F[k + 1] = r BY <1>7, <2>1, <2>3, <2>8
  <2>12. Count(r) = free - G[k + 1] BY <1>12, <2>4, <2>5, <2>6, <2>9
  <2> QED BY <2>9, <2>10, <2>11, <2>12
<1>16. Nat \subseteq S
  <2> HIDE DEF S
  <2> QED BY <1>14, <1>15, SegLoop!SetInduction
<1>17. n \in S /\ n <= n BY <1>16
<1> QED BY <1>7, <1>12, <1>13, <1>17

-----------------------------------------------------------------------------
(* The inductive invariant: while no kernel thread has entered a stale     *)
(* frame, the frames, tables and directories are as above, a process has a *)
(* directory once it is loaded, each has had a pid, and a kernel thread    *)
(* that searched a frame still finds one.                                  *)
Live == {p \in Process : process[p] # Nil}

PagingInv ==
  /\ stale \in BOOLEAN /\ process \in [Process -> Seq(MemMap) \cup {Nil}]
  /\ pidcount = 1 + Cardinality(Live)
  /\ taking = Nil \/ taking \in [page : HeapPage \cup ModulePage, frame : Frame]
  /\ ~stale => /\ MemInv(mem) /\ mem.dirs[Kernel] # Nil
               /\ taking # Nil => Unmarked(mem) # {}
               /\ \A p \in Process : process[p] = Nil <=> mem.dirs[p] = Nil

(* A frame is left when there was room for two. *)
LEMMA MapOne ==
  ASSUME NEW m, MemInv(m), NEW d, NEW page, Mappable(m, d, page), Count(m) > 1,
         NEW P, page \in P
  PROVE  LET r == MapPage(m, d, page, TRUE)
         IN  /\ MemInv(r) /\ Keeps(m, r, d, P) /\ Unmarked(r) # {} /\ Count(r) = Count(m) - 1
<1>1. Count(m) \in Nat BY UnmarkedFinite
<1>2. Unmarked(m) # {} BY <1>1, UnmarkedFinite
<1>3. PICK r : r = MapPage(m, d, page, TRUE) OBVIOUS
<1>4. Gets(m, r, d, page, P) BY <1>2, <1>3, MapPageFacts
<1>5. Count(r) = Count(m) - 1 BY <1>2, <1>4, GetsOne
<1>6. Unmarked(r) # {}
  <2>1. Count(r) # 0 BY <1>1, <1>5
  <2> QED BY <2>1, UnmarkedFinite
<1> QED BY <1>3, <1>4, <1>5, <1>6 DEF Gets

(* clone_page_dir: the tables get another directory. *)
LEMMA CloneFacts ==
  ASSUME NEW m, MemInv(m), NEW p \in Process, m.dirs[Kernel] # Nil
  PROVE  LET r == [m EXCEPT !.dirs[p] = m.dirs[Kernel]]
         IN  /\ MemInv(r) /\ r.dirs[p] # Nil /\ Count(r) = Count(m)
             /\ r.tables = m.tables /\ r.dirs[p] = m.dirs[Kernel]
             /\ \A b \in Dir : b # p => r.dirs[b] = m.dirs[b]
<1>1. PICK r : r = [m EXCEPT !.dirs[p] = m.dirs[Kernel]] OBVIOUS
<1>2. MemOk(m) /\ Owned(m) /\ Counted(m) /\ m \in MemType BY DEF MemInv, MemOk
<1>3. PICK nd : nd = [m.dirs EXCEPT ![p] = m.dirs[Kernel]] OBVIOUS
<1>4. m.dirs \in [Dir -> Directory \cup {Nil}] BY <1>2 DEF MemType
<1>5. p \in Dir /\ Kernel \in Dir BY DEF Dir
<1>6. /\ nd \in [Dir -> Directory \cup {Nil}] /\ nd[p] = m.dirs[Kernel]
      /\ \A b \in Dir : b # p => nd[b] = m.dirs[b]
  BY <1>3, <1>4, <1>5
<1>7. /\ r.dirs = nd /\ r.tables = m.tables /\ r.page_bitmap = m.page_bitmap
      /\ r.last_free_page = m.last_free_page /\ r.nfree_pages = m.nfree_pages
      /\ r \in [page_bitmap : {m.page_bitmap}, last_free_page : {m.last_free_page},
                nfree_pages : {m.nfree_pages}, tables : {m.tables}, dirs : {nd}]
  BY <1>1, <1>2, <1>3 DEF MemType
<1>8. r \in MemType BY <1>2, <1>6, <1>7 DEF MemType
<1>9. MemOk(r) BY <1>2, <1>5, <1>6, <1>7, <1>8 DEF MemOk
<1>10. Owned(r) BY <1>2, <1>7 DEF Owned
<1>11. Unmarked(r) = Unmarked(m) BY <1>7 DEF Unmarked
<1>12. Counted(r) BY <1>2, <1>7, <1>11 DEF Counted
<1> QED BY <1>1, <1>6, <1>7, <1>9, <1>10, <1>11, <1>12 DEF MemInv, Count

(* Each process that is not loaded yet leaves a pid for one more stack. *)
LEMMA PidsLeft ==
  ASSUME process \in [Process -> Seq(MemMap) \cup {Nil}], pidcount = 1 + Cardinality(Live),
         NEW p \in Process, process[p] = Nil
  PROVE  pidcount \in Nat /\ pidcount + 1 \in 0..(Cardinality(Process) + 1)
<1>1. IsFiniteSet(Process) BY PagingAssumption
<1>2. Live \cup {p} \in SUBSET Process /\ Live \in SUBSET Process /\ p \notin Live BY DEF Live
<1>3. IsFiniteSet(Live) /\ IsFiniteSet(Live \cup {p}) BY <1>1, <1>2, FS_Subset
<1>4. Cardinality(Live \cup {p}) = Cardinality(Live) + 1 BY <1>2, <1>3, FS_AddElement
<1>5. Cardinality(Live \cup {p}) <= Cardinality(Process) BY <1>1, <1>2, FS_Subset
<1>6. Cardinality(Live) \in Nat /\ Cardinality(Process) \in Nat BY <1>1, <1>3, FS_CardinalityType
<1> QED BY <1>4, <1>5, <1>6

(* The processes that were loaded stay the same: so does pidcount. *)
LEMMA LiveKept ==
  ASSUME \A p \in Process : process'[p] = Nil <=> process[p] = Nil
  PROVE  Live' = Live
BY DEF Live

-----------------------------------------------------------------------------
(* m is the memory of init_paging; then the idle task's stack is mapped.   *)
Booted(m) ==
  /\ MemInv(m) /\ m.dirs[Kernel] # Nil /\ \A x \in TableIndex : m.dirs[Kernel][x] = Nil
  /\ \A p \in Process : m.dirs[p] = Nil
  /\ Gets(m, mem, Kernel, StackPage(1), {StackPage(1)})

(* Nothing is mapped before. *)
LEMMA BootFacts ==
  ASSUME PagingInit
  PROVE  \E m : Booted(m)
<1>1. /\ NFrames \in Nat /\ BootFrames \in Nat /\ BootFrames < NFrames
      /\ PagesPerTable \in Nat \ {0} /\ FramesPerByte \in Nat \ {0}
      /\ Kernel \notin Process /\ IsFiniteSet(Process)
  BY PagingAssumption
<1> DEFINE empty == [i \in TableIndex |-> Nil]
           dirs == [d \in {Kernel} \cup Process |-> IF d = Kernel THEN empty ELSE Nil]
           boot == [page_bitmap |-> 0..(BootFrames - 1), last_free_page |-> 0,
                    nfree_pages |-> NFrames - BootFrames, tables |-> <<>>, dirs |-> dirs]
<1>2. empty \in Directory /\ empty # Nil BY NoNilAssumption DEF Directory
<1>3. /\ dirs \in [Dir -> Directory \cup {Nil}] /\ dirs[Kernel] = empty
      /\ \A p \in Process : dirs[p] = Nil
  <2> HIDE DEF empty
  <2> QED BY <1>1, <1>2 DEF Dir
<1>4. PICK nd : nd = dirs OBVIOUS
<1>5. PICK m : m = boot OBVIOUS
<1>6. /\ m.page_bitmap = 0..(BootFrames - 1) /\ m.last_free_page = 0
      /\ m.nfree_pages = NFrames - BootFrames /\ m.tables = <<>> /\ m.dirs = nd
      /\ m \in [page_bitmap : {0..(BootFrames - 1)}, last_free_page : {0},
                nfree_pages : {NFrames - BootFrames}, tables : {<<>>}, dirs : {nd}]
  <2> HIDE DEF dirs
  <2> QED BY <1>4, <1>5
<1>7. nd \in [Dir -> Directory \cup {Nil}] /\ nd[Kernel] # Nil /\ \A p \in Process : nd[p] = Nil
  BY <1>2, <1>3, <1>4
<1>8. m \in MemType
  <2>1. 0..(BootFrames - 1) \subseteq Frame /\ NFrames - BootFrames \in Nat BY <1>1 DEF Frame
  <2>2. <<>> \in Seq(Table) OBVIOUS
  <2>3. PICK bitmap, nfree, tables, last :
          bitmap = 0..(BootFrames - 1) /\ nfree = NFrames - BootFrames /\ tables = <<>> /\ last = 0
    OBVIOUS
  <2>4. /\ bitmap \in SUBSET Frame /\ nfree \in Nat /\ tables \in Seq(Table) /\ last \in Nat
        /\ m \in [page_bitmap : {bitmap}, last_free_page : {last}, nfree_pages : {nfree},
                  tables : {tables}, dirs : {nd}]
    BY <1>6, <2>1, <2>2, <2>3
  <2> HIDE DEF empty, dirs, boot
  <2> QED BY <1>7, <2>4 DEF MemType
<1>9. MemOk(m)
  <2>1. ASSUME NEW d \in Dir, NEW x \in TableIndex, nd[d] # Nil PROVE nd[d][x] = Nil
    <3>1. d = Kernel BY <1>7, <2>1 DEF Dir
    <3> QED BY <1>3, <1>4, <3>1
  <2> QED BY <1>6, <1>8, <2>1 DEF MemOk
<1>10. Owned(m) BY <1>6 DEF Owned
<1>11. Unmarked(m) = BootFrames..(NFrames - 1) BY <1>1, <1>6 DEF Unmarked, Frame
<1>12. Cardinality(Unmarked(m)) = NFrames - BootFrames
  <2>1. BootFrames \in Int /\ NFrames - 1 \in Int /\ ~(BootFrames > NFrames - 1) BY <1>1
  <2>2. Cardinality(BootFrames..(NFrames - 1)) = (NFrames - 1) - BootFrames + 1
    BY <2>1, FS_Interval
  <2> QED BY <1>1, <1>11, <2>2
<1>13. Counted(m)
  <2>1. \A f \in Unmarked(m) : f \div FramesPerByte >= 0
    <3>1. \A f \in Unmarked(m) : f \in Nat BY <1>1, <1>11
    <3>2. \A f \in Nat : f \div FramesPerByte \in Nat BY <1>1
    <3> QED BY <3>1, <3>2
  <2> QED BY <1>6, <1>12, <2>1 DEF Counted
<1>14. MemInv(m) BY <1>9, <1>10, <1>13 DEF MemInv
<1>15. Unmarked(m) # {} BY <1>1, <1>11
<1>16. Mappable(m, Kernel, StackPage(1))
  <2>1. Cardinality(Process) \in Nat BY <1>1, FS_CardinalityType
  <2>2. 1 \in 0..(Cardinality(Process) + 1) BY <2>1
  <2> QED BY <1>6, <1>7, <2>2, PagesInTables DEF Mappable, Dir
<1>17. mem = MapPage(m, Kernel, StackPage(1), TRUE)
  BY <1>5 DEF PagingInit
<1>18. Gets(m, mem, Kernel, StackPage(1), {StackPage(1)}) BY <1>14, <1>15, <1>16, <1>17, MapPageFacts
<1>19. \A x \in TableIndex : m.dirs[Kernel][x] = Nil BY <1>3, <1>4, <1>6
<1>20. Booted(m) BY <1>6, <1>7, <1>14, <1>18, <1>19 DEF Booted
<1> QED BY <1>20

(* The invariant holds when init_paging has run. *)
LEMMA PagingInitInv == PagingInit => PagingInv
<1> SUFFICES ASSUME PagingInit PROVE PagingInv OBVIOUS
<1>1. PICK m : Booted(m) BY BootFacts
<1>2. m.dirs[Kernel] # Nil /\ \A p \in Process : m.dirs[p] = Nil BY <1>1 DEF Booted
<1>19. MemInv(mem) /\ Keeps(m, mem, Kernel, {StackPage(1)}) BY <1>1 DEF Booted, Gets
<1>20. /\ mem.dirs[Kernel] # Nil /\ \A p \in Process : mem.dirs[p] = Nil
  BY <1>2, <1>19 DEF Keeps, Dir
<1>21. /\ process = [p \in Process |-> Nil] /\ pidcount = 1 /\ taking = Nil /\ stale = FALSE
  BY DEF PagingInit
<1>22. Cardinality(Live) = 0
  <2>1. Live = {} BY <1>21 DEF Live
  <2> QED BY <2>1, FS_EmptySet
<1>23. process \in [Process -> Seq(MemMap) \cup {Nil}] BY <1>21
<1>24. pidcount = 1 + Cardinality(Live) /\ \A p \in Process : process[p] = Nil BY <1>21, <1>22
<1> QED BY <1>19, <1>20, <1>21, <1>23, <1>24 DEF PagingInv

(* What a kernel thread does *)
LEMMA KernelInv ==
  ASSUME PagingInv,
         (\E page \in HeapPage \cup ModulePage : KernelSearch(page)) \/ KernelEnter
  PROVE  PagingInv'
<1>1. CASE \E page \in HeapPage \cup ModulePage : KernelSearch(page)
  <2>1. PICK page \in HeapPage \cup ModulePage : KernelSearch(page) BY <1>1
  <2>2. /\ ~stale /\ Room(1) /\ taking' = [page |-> page, frame |-> FreeFrame(mem)]
        /\ mem' = mem /\ process' = process /\ pidcount' = pidcount /\ stale' = stale
    BY <2>1 DEF KernelSearch
  <2>3. Unmarked(mem) # {}
    <3>1. Count(mem) \in Nat /\ Count(mem) > 1 BY <2>2, UnmarkedFinite DEF Room, Count
    <3> QED BY <3>1, UnmarkedFinite
  <2>4. MemInv(mem) BY <2>2 DEF PagingInv
  <2>5. FreeFrame(mem) \in Frame BY <2>3, <2>4, FreeFrameLowest
  <2>6. taking' \in [page : HeapPage \cup ModulePage, frame : Frame] BY <2>2, <2>5
  <2>7. Live' = Live BY <2>2 DEF Live
  <2> QED BY <2>2, <2>3, <2>6, <2>7 DEF PagingInv
<1>2. CASE KernelEnter
  <2>1. /\ ~stale /\ taking # Nil /\ stale' = (taking.frame # FreeFrame(mem)) /\ taking' = Nil
        /\ mem' = Enter(mem, Kernel, taking.page, taking.frame, TRUE)
        /\ process' = process /\ pidcount' = pidcount
    BY <1>2 DEF KernelEnter
  <2>2. stale' \in BOOLEAN BY <2>1
  <2>3. Live' = Live BY <2>1 DEF Live
  <2>4. ASSUME ~stale'
        PROVE  MemInv(mem') /\ mem'.dirs[Kernel] # Nil
               /\ \A p \in Process : process[p] = Nil <=> mem'.dirs[p] = Nil
    <3>1. PICK page : page = taking.page OBVIOUS
    <3>2. page \in HeapPage \cup ModulePage BY <2>1, <3>1 DEF PagingInv
    <3>3. taking.frame = FreeFrame(mem) BY <2>1, <2>4
    <3>4. mem' = MapPage(mem, Kernel, page, TRUE) BY <2>1, <3>1, <3>3 DEF MapPage
    <3>5. /\ MemInv(mem) /\ Unmarked(mem) # {} /\ mem.dirs[Kernel] # Nil
          /\ \A p \in Process : process[p] = Nil <=> mem.dirs[p] = Nil
      BY <2>1 DEF PagingInv
    <3>6. Mappable(mem, Kernel, page) BY <3>2, <3>5, PagesInTables DEF Mappable, Dir
    <3>7. Gets(mem, mem', Kernel, page, {page}) BY <3>4, <3>5, <3>6, MapPageFacts
    <3> QED BY <3>5, <3>7 DEF Gets, Keeps, Dir
  <2> QED BY <2>1, <2>2, <2>3, <2>4 DEF PagingInv
<1> QED BY <1>1, <1>2

(* What the heap's region does *)
LEMMA RegionInv ==
  ASSUME PagingInv, NEW page \in HeapPage, HeapMap(page) \/ HeapFree(page)
  PROVE  PagingInv'
<1>1. /\ ~stale /\ process' = process /\ pidcount' = pidcount /\ taking' = taking /\ stale' = stale
  BY DEF HeapMap, HeapFree
<1>2. /\ MemInv(mem) /\ mem.dirs[Kernel] # Nil
      /\ \A p \in Process : process[p] = Nil <=> mem.dirs[p] = Nil
  BY <1>1 DEF PagingInv
<1>3. Live' = Live BY <1>1 DEF Live
<1>4. Mappable(mem, Kernel, page) BY <1>2, PagesInTables DEF Mappable, Dir
<1>5. CASE HeapMap(page)
  <2>1. Room(1) /\ mem' = MapPage(mem, Kernel, page, TRUE) BY <1>5 DEF HeapMap
  <2>2. Count(mem) > 1 BY <2>1 DEF Room, Count
  <2>3. MemInv(mem') /\ Keeps(mem, mem', Kernel, {page}) /\ Unmarked(mem') # {}
    BY <1>2, <1>4, <2>1, <2>2, MapOne
  <2>4. /\ mem'.dirs[Kernel] # Nil
        /\ \A p \in Process : process'[p] = Nil <=> mem'.dirs[p] = Nil
    BY <1>1, <1>2, <2>3 DEF Keeps, Dir
  <2> QED BY <1>1, <1>3, <2>3, <2>4 DEF PagingInv
<1>6. CASE HeapFree(page)
  <2>1. GetPage(mem, Kernel, page) # Nil /\ mem' = FreePage(mem, Kernel, page)
    BY <1>6 DEF HeapFree
  <2>2. MemInv(mem') /\ mem'.dirs = mem.dirs /\ Unmarked(mem') # {}
    BY <1>2, <1>4, <2>1, FreePageFacts
  <2> QED BY <1>1, <1>2, <1>3, <2>2 DEF PagingInv
<1> QED BY <1>5, <1>6

(* elfload_from_mem: m has the page of the directory, c the directory, h   *)
(* the program and its heap; then comes the stack.                         *)
LoadedBy(p, dirpage, m, c, h) ==
  /\ MemInv(m) /\ Keeps(mem, m, Kernel, {dirpage})
  /\ MemInv(c) /\ c.tables = m.tables /\ c.dirs[p] = m.dirs[Kernel]
  /\ \A b \in Dir : b # p => c.dirs[b] = m.dirs[b]
  /\ MemInv(h) /\ Keeps(c, h, p, ProgramPages)
  /\ MemInv(mem') /\ Keeps(h, mem', p, {StackPage(pidcount + 1)}) /\ Unmarked(mem') # {}
  /\ StackPage(pidcount + 1) \in Nat /\ pidcount + 1 \in 2..(Cardinality(Process) + 1)

(* Every one of these steps finds its frames. *)
LEMMA ElfloadFacts ==
  ASSUME PagingInv, NEW p \in Process, NEW image \in Image, NEW dirpage \in HeapPage,
         ElfloadFromMem(p, image, dirpage)
  PROVE  \E m, c, h : LoadedBy(p, dirpage, m, c, h)
<1>1. PICK m : m = MapPage(mem, Kernel, dirpage, TRUE) OBVIOUS
<1>2. PICK cloned : cloned = [m EXCEPT !.dirs[p] = m.dirs[Kernel]] OBVIOUS
<1>3. PICK loaded : loaded = Loaded(cloned, p, image) OBVIOUS
<1>4. PICK heap : heap = MapPage(loaded, p, UserHeap, TRUE) OBVIOUS
<1>5. /\ ~stale /\ process[p] = Nil /\ Room(3 + SegmentsSize(image))
      /\ mem' = MapPage(heap, p, StackPage(pidcount + 1), TRUE)
      /\ process' = [process EXCEPT ![p] =
           Append([i \in DOMAIN image |->
                     Map(image[i].vaddr, image[i].vaddr + image[i].memsz)],
                  Map(UserHeap * PageSize, UserHeap * PageSize + 1))]
      /\ pidcount' = pidcount + 1 /\ taking' = taking /\ stale' = stale
  BY <1>1, <1>2, <1>3, <1>4, Zenon DEF ElfloadFromMem, Loaded
<1>6. /\ MemInv(mem) /\ mem.dirs[Kernel] # Nil /\ pidcount = 1 + Cardinality(Live)
      /\ process \in [Process -> Seq(MemMap) \cup {Nil}]
      /\ \A q \in Process : process[q] = Nil <=> mem.dirs[q] = Nil
  BY <1>5 DEF PagingInv
<1>7. PICK free \in Nat, size \in Nat : free = Count(mem) /\ size = SegmentsSize(image)
  <2>1. Count(mem) \in Nat BY UnmarkedFinite
  <2>2. SegmentsSize(image) \in Nat BY SegmentsSizeType
  <2> QED BY <2>1, <2>2
<1>8. free > 3 + size BY <1>5, <1>7 DEF Room, Count
<1>9. Mappable(mem, Kernel, dirpage) BY <1>6, PagesInTables DEF Mappable, Dir
<1>10. MemInv(m) /\ Keeps(mem, m, Kernel, {dirpage}) /\ Count(m) = free - 1
  <2>1. Count(mem) > 1 BY <1>7, <1>8
  <2> QED BY <1>1, <1>6, <1>7, <1>9, <2>1, MapOne
<1>11. m.dirs[Kernel] # Nil /\ \A b \in Dir : m.dirs[b] = Nil <=> mem.dirs[b] = Nil
  BY <1>6, <1>10 DEF Keeps, Dir
<1>12. /\ MemInv(cloned) /\ cloned.dirs[p] # Nil /\ Count(cloned) = free - 1
       /\ \A b \in Dir : b # p => (cloned.dirs[b] = Nil <=> mem.dirs[b] = Nil)
  BY <1>2, <1>10, <1>11, CloneFacts
<1>13. p \in Dir /\ Kernel \in Dir /\ Kernel # p BY PagingAssumption DEF Dir
<1>14. MemInv(loaded) /\ Keeps(cloned, loaded, p, ProgramPages) /\ Count(loaded) = (free - 1) - size
  <2>1. Count(cloned) >= SegmentsSize(image) BY <1>7, <1>8, <1>12
  <2>2. \A i \in 1..Len(image) : Range(SegmentPages(image[i])) \subseteq ProgramPages
    BY PagesOfProgram
  <2> QED BY <1>3, <1>7, <1>12, <1>13, <2>1, <2>2, LoadedFacts
<1>15. loaded.dirs[p] # Nil BY <1>12, <1>13, <1>14 DEF Keeps
<1>16. Mappable(loaded, p, UserHeap) BY <1>13, <1>15, PagesInTables DEF Mappable
<1>17. MemInv(heap) /\ Keeps(loaded, heap, p, ProgramPages) /\ Count(heap) = ((free - 1) - size) - 1
  <2>1. Count(loaded) > 1 BY <1>8, <1>14
  <2>2. UserHeap \in ProgramPages BY DEF ProgramPages
  <2> QED BY <1>4, <1>14, <1>16, <2>1, <2>2, MapOne
<1>18. heap.dirs[p] # Nil BY <1>13, <1>15, <1>17 DEF Keeps
<1>19. pidcount \in Nat /\ pidcount + 1 \in 0..(Cardinality(Process) + 1)
  BY <1>5, <1>6, PidsLeft
<1>20. Mappable(heap, p, StackPage(pidcount + 1))
  BY <1>13, <1>18, <1>19, PagesInTables DEF Mappable
<1>21. MemInv(mem') /\ Keeps(heap, mem', p, {StackPage(pidcount + 1)}) /\ Unmarked(mem') # {}
  <2>1. Count(heap) > 1 BY <1>8, <1>17
  <2> QED BY <1>5, <1>17, <1>20, <2>1, MapOne
<1>22. Keeps(cloned, heap, p, ProgramPages) BY <1>14, <1>17, KeepsOn
<1>23. StackPage(pidcount + 1) \in Nat /\ pidcount + 1 \in 2..(Cardinality(Process) + 1)
  <2>1. Cardinality(Live) \in Nat
    <3>1. Live \in SUBSET Process BY DEF Live
    <3>2. IsFiniteSet(Live) BY <3>1, PagingAssumption, FS_Subset
    <3> QED BY <3>2, FS_CardinalityType
  <2>2. pidcount >= 1 BY <1>6, <2>1
  <2>3. Cardinality(Process) \in Nat BY PagingAssumption, FS_CardinalityType
  <2> QED BY <1>19, <2>2, <2>3, PagesInTables
<1>24. /\ cloned.tables = m.tables /\ cloned.dirs[p] = m.dirs[Kernel]
       /\ \A b \in Dir : b # p => cloned.dirs[b] = m.dirs[b]
  BY <1>2, <1>10, <1>11, CloneFacts
<1>25. LoadedBy(p, dirpage, m, cloned, heap)
  BY <1>10, <1>12, <1>17, <1>21, <1>22, <1>23, <1>24 DEF LoadedBy
<1> QED BY <1>25

(* elfload_from_mem *)
LEMMA ElfloadInv ==
  ASSUME PagingInv, NEW p \in Process, NEW image \in Image, NEW dirpage \in HeapPage,
         ElfloadFromMem(p, image, dirpage)
  PROVE  PagingInv'
<1>1. PICK m, c, h : LoadedBy(p, dirpage, m, c, h) BY ElfloadFacts
<1>5. /\ ~stale /\ process[p] = Nil
      /\ process' = [process EXCEPT ![p] =
           Append([i \in DOMAIN image |->
                     Map(image[i].vaddr, image[i].vaddr + image[i].memsz)],
                  Map(UserHeap * PageSize, UserHeap * PageSize + 1))]
      /\ pidcount' = pidcount + 1 /\ taking' = taking /\ stale' = stale
  BY Zenon DEF ElfloadFromMem
<1>6. /\ MemInv(mem) /\ mem.dirs[Kernel] # Nil /\ pidcount = 1 + Cardinality(Live)
      /\ process \in [Process -> Seq(MemMap) \cup {Nil}]
      /\ \A q \in Process : process[q] = Nil <=> mem.dirs[q] = Nil
  BY <1>5 DEF PagingInv
<1>13. p \in Dir /\ Kernel \in Dir /\ Kernel # p BY PagingAssumption DEF Dir
<1>12. c.dirs[p] # Nil /\ \A b \in Dir : b # p => (c.dirs[b] = Nil <=> mem.dirs[b] = Nil)
  BY <1>1, <1>6, <1>13 DEF LoadedBy, Keeps
<1>21. MemInv(mem') /\ Unmarked(mem') # {} BY <1>1 DEF LoadedBy
<1>22. \A b \in Dir : mem'.dirs[b] = Nil <=> c.dirs[b] = Nil BY <1>1 DEF LoadedBy, Keeps
<1>23. process'[p] \in Seq(MemMap) /\ \A q \in Process : q # p => process'[q] = process[q]
  <2> DEFINE Segment == [vaddr : Nat, memsz : Nat, writable : BOOLEAN]
  <2>1. image \in Seq(Segment) BY PagingAssumption
  <2>2. ASSUME NEW i \in DOMAIN image
        PROVE  Map(image[i].vaddr, image[i].vaddr + image[i].memsz) \in MemMap
    <3>1. image[i] \in Segment
      <4> HIDE DEF Segment
      <4> QED BY <2>1
    <3>2. image[i].vaddr \in Nat /\ image[i].memsz \in Nat BY <3>1
    <3> QED BY <3>2 DEF Map, MemMap
  <2>3. PICK maps : maps = [i \in DOMAIN image |->
                              Map(image[i].vaddr, image[i].vaddr + image[i].memsz)]
    OBVIOUS
  <2>4. DOMAIN image = 1..Len(image) /\ Len(image) \in Nat
    <3> HIDE DEF Segment
    <3> QED BY <2>1
  <2>5. maps \in Seq(MemMap)
    <3>1. maps = [i \in 1..Len(image) |->
                    Map(image[i].vaddr, image[i].vaddr + image[i].memsz)]
      BY <2>3, <2>4
    <3>2. \A i \in 1..Len(image) :
            Map(image[i].vaddr, image[i].vaddr + image[i].memsz) \in MemMap
      BY <2>2, <2>4
    <3> QED BY <2>4, <3>1, <3>2
  <2>6. UserHeap \in Nat /\ PageSize \in Nat BY PagingAssumption
  <2>7. UserHeap * PageSize \in Nat /\ UserHeap * PageSize + 1 \in Nat BY <2>6
  <2>8. PICK last : last = Map(UserHeap * PageSize, UserHeap * PageSize + 1) OBVIOUS
  <2>9. last \in MemMap BY <2>7, <2>8 DEF Map, MemMap
  <2>10. Append(maps, last) \in Seq(MemMap) BY <2>5, <2>9
  <2>11. process' = [process EXCEPT ![p] = Append(maps, last)] BY <1>5, <2>3, <2>8
  <2> QED BY <1>6, <2>10, <2>11
<1>24. process' \in [Process -> Seq(MemMap) \cup {Nil}] BY <1>5, <1>6, <1>23
<1>25. process'[p] # Nil BY <1>23, NoNilAssumption
<1>26. \A q \in Process : process'[q] = Nil <=> mem'.dirs[q] = Nil
  BY <1>6, <1>12, <1>22, <1>23, <1>25 DEF Dir
<1>27. mem'.dirs[Kernel] # Nil BY <1>6, <1>12, <1>13, <1>22
<1>28. pidcount' = 1 + Cardinality(Live')
  <2>1. Live' = Live \cup {p} /\ p \notin Live BY <1>5, <1>23, <1>25 DEF Live
  <2>2. Live \in SUBSET Process BY DEF Live
  <2>3. IsFiniteSet(Live) BY <2>2, PagingAssumption, FS_Subset
  <2>4. Cardinality(Live \cup {p}) = Cardinality(Live) + 1 BY <2>1, <2>3, FS_AddElement
  <2>5. Cardinality(Live) \in Nat BY <2>3, FS_CardinalityType
  <2> QED BY <1>5, <1>6, <2>1, <2>4, <2>5
<1> QED BY <1>5, <1>21, <1>24, <1>26, <1>27, <1>28 DEF PagingInv

(* What tasks and their faults do *)
LEMMA FaultInv ==
  ASSUME PagingInv, NEW p \in Process, NEW address \in Address, PageFault(p, address)
  PROVE  PagingInv'
<1>1. /\ ~stale /\ process[p] # Nil
      /\ pidcount' = pidcount /\ taking' = taking /\ stale' = stale
  BY DEF PageFault, Runs
<1>2. /\ MemInv(mem) /\ mem.dirs[Kernel] # Nil /\ pidcount = 1 + Cardinality(Live)
      /\ process \in [Process -> Seq(MemMap) \cup {Nil}]
      /\ \A q \in Process : process[q] = Nil <=> mem.dirs[q] = Nil
      /\ taking # Nil => Unmarked(mem) # {}
  BY <1>1 DEF PagingInv
<1>3. CASE InMap(p, address)
  <2>1. Room(1) /\ mem' = MapPage(mem, p, Page(address), TRUE) /\ process' = process
    BY <1>3 DEF PageFault
  <2>2. Mappable(mem, p, Page(address)) BY <1>1, <1>2, PagesInTables DEF Mappable, Dir
  <2>3. Count(mem) > 1 BY <2>1 DEF Room, Count
  <2>4. MemInv(mem') /\ Keeps(mem, mem', p, {Page(address)}) /\ Unmarked(mem') # {}
    BY <1>2, <2>1, <2>2, <2>3, MapOne
  <2>5. /\ mem'.dirs[Kernel] # Nil /\ Live' = Live
        /\ \A q \in Process : process'[q] = Nil <=> mem'.dirs[q] = Nil
    BY <1>2, <2>1, <2>4 DEF Keeps, Dir, Live
  <2> QED BY <1>1, <2>1, <2>4, <2>5 DEF PagingInv
<1>4. CASE ~InMap(p, address)
  <2>1. mem' = mem /\ process' = [process EXCEPT ![p] = <<>>] BY <1>4 DEF PageFault
  <2>2. process' \in [Process -> Seq(MemMap) \cup {Nil}] /\ process'[p] # Nil
        /\ \A q \in Process : q # p => process'[q] = process[q]
    <3>1. <<>> \in Seq(MemMap) /\ <<>> # Nil
      <4>1. <<>> \in Seq(MemMap) OBVIOUS
      <4> QED BY <4>1, NoNilAssumption, Zenon
    <3> QED BY <1>2, <2>1, <3>1
  <2>3. \A q \in Process : process'[q] = Nil <=> process[q] = Nil BY <1>1, <2>2
  <2>4. Live' = Live BY <2>3, LiveKept
  <2> QED BY <1>1, <1>2, <2>1, <2>2, <2>3, <2>4 DEF PagingInv
<1> QED BY <1>3, <1>4

(* sbrk and the end of a process keep the invariant: they change the       *)
(* process's maps only.                                                    *)
LEMMA BrkExitInv ==
  ASSUME PagingInv, NEW p \in Process,
         ProcessExit(p) \/ \E increment \in Increment : Sbrk(p, increment)
  PROVE  PagingInv'
<1>1. /\ ~stale /\ process[p] # Nil /\ process[p] # <<>> /\ mem' = mem
      /\ pidcount' = pidcount /\ taking' = taking /\ stale' = stale
  BY DEF ProcessExit, Sbrk, Runs
<1>2. process \in [Process -> Seq(MemMap) \cup {Nil}] BY DEF PagingInv
<1>3. PICK new \in Seq(MemMap) : process' = [process EXCEPT ![p] = new]
  <2>1. CASE ProcessExit(p)
    <3>1. <<>> \in Seq(MemMap) OBVIOUS
    <3> QED BY <2>1, <3>1 DEF ProcessExit
  <2>2. CASE \E increment \in Increment : Sbrk(p, increment)
    <3>1. PICK increment \in Increment : Sbrk(p, increment) BY <2>2
    <3>2. PICK s : s = process[p] OBVIOUS
    <3>3. s \in Seq(MemMap) /\ s # <<>> BY <1>1, <1>2, <3>2
    <3>4. PICK last : last = Len(s) OBVIOUS
    <3>5. last \in 1..Len(s) /\ last \in Nat BY <3>3, <3>4
    <3>6. process' = [process EXCEPT ![p][last].end = @ + increment]
      BY <3>1, <3>2, <3>4 DEF Sbrk
    <3>7. PICK map : map = [s[last] EXCEPT !.end = @ + increment] OBVIOUS
    <3>8. increment \in Nat BY PagingAssumption
    <3>9. s[last] \in MemMap
      BY <3>3, <3>5
    <3>10. map \in MemMap BY <3>7, <3>8, <3>9 DEF MemMap
    <3>11. PICK new : new = [s EXCEPT ![last] = map] OBVIOUS
    <3>12. new \in Seq(MemMap) BY <3>3, <3>5, <3>10, <3>11
    <3>13. process' = [process EXCEPT ![p] = new] BY <1>2, <3>2, <3>6, <3>7, <3>11
    <3> QED BY <3>12, <3>13
  <2> QED BY <2>1, <2>2
<1>4. new # Nil BY NoNilAssumption
<1>5. /\ process' \in [Process -> Seq(MemMap) \cup {Nil}]
      /\ \A q \in Process : process'[q] = Nil <=> process[q] = Nil
  BY <1>1, <1>2, <1>3, <1>4
<1>6. Live' = Live BY <1>5, LiveKept
<1> QED BY <1>1, <1>5, <1>6 DEF PagingInv

-----------------------------------------------------------------------------
(* Every step of the kernel's threads, the heap and the processes keeps    *)
(* the frames, tables and directories in order.                            *)
THEOREM PagingInvariant == PagingSpec => []PagingInv
<1>1. PagingInv /\ [PagingNext]_pagingVars => PagingInv'
  <2> SUFFICES ASSUME PagingInv, [PagingNext]_pagingVars PROVE PagingInv' OBVIOUS
  <2>1. ASSUME NEW page \in HeapPage \cup ModulePage, KernelSearch(page) PROVE PagingInv'
    BY <2>1, KernelInv
  <2>2. CASE KernelEnter BY <2>2, KernelInv
  <2>3. ASSUME NEW page \in HeapPage, HeapMap(page) \/ HeapFree(page) PROVE PagingInv'
    BY <2>3, RegionInv
  <2>4. ASSUME NEW p \in Process, NEW image \in Image, NEW page \in HeapPage,
               ElfloadFromMem(p, image, page)
        PROVE  PagingInv'
    BY <2>4, ElfloadInv
  <2>5. ASSUME NEW p \in Process, NEW address \in Address, PageFault(p, address) PROVE PagingInv'
    BY <2>5, FaultInv
  <2>6. ASSUME NEW p \in Process,
               ProcessExit(p) \/ \E increment \in Increment : Sbrk(p, increment)
        PROVE  PagingInv'
    BY <2>6, BrkExitInv
  <2>7. CASE PagingStopped \/ UNCHANGED pagingVars
    <3>1. UNCHANGED pagingVars BY <2>7 DEF PagingStopped
    <3> QED BY <3>1 DEF PagingInv, pagingVars, Live
  <2> QED BY <2>1, <2>2, <2>3, <2>4, <2>5, <2>6, <2>7 DEF PagingNext
<1> QED BY <1>1, PagingInitInv, PTL DEF PagingSpec

(* However processes are loaded, fault, grow and end: as long as no kernel *)
(* thread has entered a frame that was taken or freed meanwhile, a frame   *)
(* is behind one page, is marked, and is none of those mapped at boot.     *)
THEOREM FramesOwnedOnce == PagingSpec => []FrameOwnedOnce
<1>1. PagingInv => FrameOwnedOnce
  <2> SUFFICES ASSUME PagingInv, ~stale PROVE FrameOwnedOnce BY DEF FrameOwnedOnce
  <2>1. Owned(mem) /\ mem.tables \in Seq(Table) BY DEF PagingInv, MemInv, MemOk, MemType
  <2>2. DOMAIN mem.tables = 1..Len(mem.tables) BY <2>1
  <2>3. ASSUME NEW e \in Mapped
        PROVE  /\ e = <<e[1], e[2]>> /\ e[1] \in 1..Len(mem.tables) /\ e[2] \in TableSlot
               /\ mem.tables[e[1]][e[2]] # Nil
    BY <2>2, <2>3 DEF Mapped, TableSlot
  <2>4. ASSUME NEW e \in Mapped, NEW f \in Mapped, FrameAt(e) = FrameAt(f) PROVE e = f
    <3>1. e[1] = f[1] /\ e[2] = f[2] BY <2>1, <2>3, <2>4 DEF Owned, FrameAt
    <3> QED BY <2>3, <3>1
  <2>5. ASSUME NEW e \in Mapped PROVE FrameAt(e) \in mem.page_bitmap /\ FrameAt(e) >= BootFrames
    BY <2>1, <2>3, <2>5 DEF Owned, FrameAt
  <2> QED BY <2>4, <2>5 DEF FrameOwnedOnce
<1> QED BY <1>1, PagingInvariant, PTL

(* get_free_page, which begins at last_free_page, misses no free frame,    *)
(* and nfree_pages counts them.                                            *)
THEOREM FreeFramesFound == PagingSpec => []FreeFrameFound
<1>1. PagingInv => FreeFrameFound BY DEF PagingInv, MemInv, Counted, FreeFrameFound
<1> QED BY <1>1, PagingInvariant, PTL

-----------------------------------------------------------------------------
(* Where everything lies: a map is a segment's or the user heap's, which   *)
(* is the last one.                                                        *)
UserMap(map) ==
  map.start = UserHeap * PageSize /\ (map.end <= MaxBrk \/ map.end = map.start + 1)
SegmentMap(map) ==
  \E image \in Image : \E i \in DOMAIN image :
    map.start = image[i].vaddr /\ map.end = image[i].vaddr + image[i].memsz
UserMaps(maps) ==
  /\ maps # <<>> => UserMap(maps[Len(maps)])
  /\ \A i \in DOMAIN maps : UserMap(maps[i]) \/ SegmentMap(maps[i])

(* The kernel's tables have the kernel's pages only. *)
KernelTables(m) == \A x \in TableIndex : m.dirs[Kernel][x] # Nil => x \in TableOf(KernelPages)

(* The stacks of the pids to come are not mapped yet. *)
StacksLeft(m, pids) ==
  \A i \in 1..(Cardinality(Process) + 1) : i > pids => GetPage(m, Kernel, StackPage(i)) = Nil

(* The inductive invariant: nothing is mapped where a kernel thread or a   *)
(* program that is loaded will map a page, and a page table is at one      *)
(* place.                                                                  *)
LayoutInv ==
  /\ \A p \in Process : process[p] # Nil => UserMaps(process[p])
  /\ ~stale => /\ OneIndex(mem) /\ KernelTables(mem) /\ StacksLeft(mem, pidcount)
               /\ taking # Nil => GetPage(mem, Kernel, taking.page) = Nil

(* Writable entries of m are entries of r. *)
WritesKept(m, r) ==
  /\ Len(m.tables) <= Len(r.tables)
  /\ \A u \in 1..Len(m.tables), i \in TableSlot :
       m.tables[u][i] # Nil /\ m.tables[u][i].writable => r.tables[u][i] = m.tables[u][i]

(* Pages that were not mapped, or not for writing, are mapped: what could  *)
(* be written stays.                                                       *)
LEMMA KeptPages ==
  ASSUME NEW m, NEW r, NEW d, NEW P, Keeps(m, r, d, P),
         \A q \in P : GetPage(m, d, q) # Nil => ~GetPage(m, d, q).writable
  PROVE  WritesKept(m, r)
<1>1. PICK n \in Nat : n = Len(m.tables) BY DEF Keeps, MemOk, MemType
<1>2. n <= Len(r.tables) BY <1>1 DEF Keeps, Touches
<1>3. ASSUME NEW u \in 1..n, NEW i \in TableSlot, m.tables[u][i] # Nil, m.tables[u][i].writable,
             r.tables[u][i] # m.tables[u][i]
      PROVE  FALSE
  <2>1. PICK q \in P : /\ m.dirs[d][q \div PagesPerTable] = u /\ q % PagesPerTable = i
    BY <1>1, <1>3 DEF Keeps, Touches
  <2>2. u # Nil BY NoNilAssumption
  <2>3. GetPage(m, d, q) = m.tables[u][i] BY <2>1, <2>2 DEF GetPage
  <2> QED BY <1>3, <2>3
<1> QED BY <1>1, <1>2, <1>3 DEF WritesKept

(* What is kept in two steps *)
LEMMA WritesKeptOn ==
  ASSUME NEW m, NEW r, NEW s, MemOk(m), MemOk(r), MemOk(s), WritesKept(m, r), WritesKept(r, s)
  PROVE  WritesKept(m, s)
<1>1. PICK n \in Nat, l \in Nat, h \in Nat :
        n = Len(m.tables) /\ l = Len(r.tables) /\ h = Len(s.tables)
  BY DEF MemOk, MemType
<1>2. n <= l /\ l <= h BY <1>1 DEF WritesKept
<1>3. \A u \in 1..n : u \in 1..l BY <1>2
<1>4. ASSUME NEW u \in 1..n, NEW i \in TableSlot, m.tables[u][i] # Nil, m.tables[u][i].writable
      PROVE  s.tables[u][i] = m.tables[u][i]
  <2>1. r.tables[u][i] = m.tables[u][i] BY <1>1, <1>4 DEF WritesKept
  <2> QED BY <1>1, <1>3, <1>4, <2>1 DEF WritesKept
<1>5. n <= h BY <1>2
<1> QED BY <1>1, <1>4, <1>5 DEF WritesKept

(* A page of the kernel is no page of a program, and no page of its heap   *)
(* or of a module is a stack.                                              *)
LEMMA PagesDisjoint ==
  /\ KernelPages \cap ProgramPages = {}
  /\ \A page \in HeapPage \cup ModulePage :
       /\ page \in KernelPages /\ page \in Nat /\ page \div PagesPerTable \in TableIndex
       /\ \A i \in 1..(Cardinality(Process) + 1) : StackPage(i) # page
  /\ \A i \in 1..(Cardinality(Process) + 1) :
       /\ StackPage(i) \in KernelPages /\ StackPage(i) \in Nat
       /\ StackPage(i) \div PagesPerTable \in TableIndex
       /\ \A j \in 1..(Cardinality(Process) + 1) : StackPage(i) = StackPage(j) => i = j
<1>1. KernelPages \cap ProgramPages = {} BY LayoutAssumption DEF TableOf
<1>2. Cardinality(Process) \in Nat BY PagingAssumption, FS_CardinalityType
<1>3. \A i \in 1..(Cardinality(Process) + 1) : i \in 0..(Cardinality(Process) + 1) BY <1>2
<1>4. StackBase \in Nat BY PagingAssumption
<1>5. ASSUME NEW i \in 1..(Cardinality(Process) + 1)
      PROVE  /\ StackPage(i) \in KernelPages /\ StackPage(i) \in Nat
             /\ StackPage(i) \div PagesPerTable \in TableIndex
             /\ \A j \in 1..(Cardinality(Process) + 1) : StackPage(i) = StackPage(j) => i = j
  <2>1. StackPage(i) \in KernelPages BY DEF KernelPages
  <2>2. StackPage(i) \in Nat /\ StackPage(i) \div PagesPerTable \in TableIndex
    BY <1>3, PagesInTables
  <2>3. \A j \in 1..(Cardinality(Process) + 1) : StackPage(i) = StackPage(j) => i = j
    BY <1>2, <1>4 DEF StackPage
  <2> QED BY <2>1, <2>2, <2>3
<1>6. ASSUME NEW page \in HeapPage \cup ModulePage
      PROVE  /\ page \in KernelPages /\ page \in Nat /\ page \div PagesPerTable \in TableIndex
             /\ \A i \in 1..(Cardinality(Process) + 1) : StackPage(i) # page
  <2>1. page \in KernelPages BY DEF KernelPages
  <2>2. page \in Nat /\ page \div PagesPerTable \in TableIndex BY PagesInTables
  <2>3. \A i \in 1..(Cardinality(Process) + 1) : StackPage(i) # page BY LayoutAssumption
  <2> QED BY <2>1, <2>2, <2>3
<1> QED BY <1>1, <1>5, <1>6

(* The kernel maps a page of its own. *)
LEMMA KernelMaps ==
  ASSUME NEW m, NEW r, NEW page \in HeapPage \cup ModulePage, Keeps(m, r, Kernel, {page}),
         m.dirs[Kernel] # Nil, OneIndex(m), KernelTables(m), NEW pids, StacksLeft(m, pids)
  PROVE  /\ OneIndex(r) /\ KernelTables(r) /\ StacksLeft(r, pids)
         /\ \A q \in HeapPage \cup ModulePage : q # page =>
              GetPage(r, Kernel, q) = GetPage(m, Kernel, q)
<1>1. Touches(m, r, Kernel, {page}) /\ Kernel \in Dir BY DEF Keeps, Dir
<1>2. OneIndex(r) BY <1>1 DEF Touches
<1>3. ASSUME NEW q \in Nat, q \div PagesPerTable \in TableIndex, q # page
      PROVE  GetPage(r, Kernel, q) = GetPage(m, Kernel, q)
  <2>1. Mappable(m, Kernel, q) /\ q \notin {page} BY <1>1, <1>3 DEF Mappable
  <2> QED BY <1>1, <2>1 DEF Touches
<1>4. KernelTables(r)
  <2> SUFFICES ASSUME NEW x \in TableIndex, r.dirs[Kernel][x] # Nil
               PROVE  x \in TableOf(KernelPages)
    BY DEF KernelTables
  <2>1. r.dirs[Kernel][x] = m.dirs[Kernel][x] \/ x \in TableOf({page}) BY <1>1 DEF Touches
  <2>2. TableOf({page}) \subseteq TableOf(KernelPages) BY PagesDisjoint DEF TableOf
  <2> QED BY <2>1, <2>2 DEF KernelTables
<1>5. StacksLeft(r, pids)
  <2> SUFFICES ASSUME NEW i \in 1..(Cardinality(Process) + 1), i > pids
               PROVE  GetPage(r, Kernel, StackPage(i)) = Nil
    BY DEF StacksLeft
  <2>1. GetPage(m, Kernel, StackPage(i)) = Nil BY DEF StacksLeft
  <2> QED BY <1>3, <2>1, PagesDisjoint
<1>6. ASSUME NEW q \in HeapPage \cup ModulePage, q # page
      PROVE  GetPage(r, Kernel, q) = GetPage(m, Kernel, q)
  BY <1>3, <1>6, PagesDisjoint
<1> QED BY <1>2, <1>4, <1>5, <1>6

(* A program's pages are mapped: the kernel's are as they were. *)
LEMMA ProgramMaps ==
  ASSUME NEW m, NEW r, NEW p \in Process, NEW P, P \subseteq ProgramPages, Keeps(m, r, p, P),
         m.dirs[Kernel] # Nil, OneIndex(m)
  PROVE  /\ OneIndex(r) /\ r.dirs[Kernel] = m.dirs[Kernel]
         /\ \A b \in Dir, q \in KernelPages :
              m.dirs[b] # Nil /\ q \in Nat /\ q \div PagesPerTable \in TableIndex =>
                GetPage(r, b, q) = GetPage(m, b, q)
<1>1. Touches(m, r, p, P) /\ Kernel \in Dir /\ Kernel # p BY PagingAssumption DEF Keeps, Dir
<1>2. OneIndex(r) /\ r.dirs[Kernel] = m.dirs[Kernel] BY <1>1 DEF Touches
<1>3. ASSUME NEW b \in Dir, NEW q \in KernelPages, m.dirs[b] # Nil, q \in Nat,
             q \div PagesPerTable \in TableIndex
      PROVE  GetPage(r, b, q) = GetPage(m, b, q)
  <2>1. Mappable(m, b, q) BY <1>3 DEF Mappable
  <2>2. q \notin P BY PagesDisjoint
  <2> QED BY <1>1, <1>3, <2>1, <2>2 DEF Touches
<1> QED BY <1>2, <1>3

(* map_page on whatever frame a kernel thread found *)
LEMMA EnterKeeps ==
  ASSUME NEW m, MemInv(m), Unmarked(m) # {}, NEW d, NEW page, Mappable(m, d, page),
         NEW frame \in Frame, NEW writable \in BOOLEAN
  PROVE  Keeps(m, Enter(m, d, page, frame, writable), d, {page})
<1>1. PICK e, byte, m1, m2, r :
        /\ e = [frame |-> frame, writable |-> writable] /\ byte = frame \div FramesPerByte
        /\ m1 = TakeFrame(m, frame) /\ m2 = MapRPage(m1, d, page, frame, writable)
        /\ r = Enter(m, d, page, frame, writable)
  OBVIOUS
<1>2. NFrames \in Nat /\ FramesPerByte \in Nat \ {0} BY PagingAssumption
<1>3. frame \in Nat /\ byte \in Nat BY <1>1, <1>2 DEF Frame
<1>4. e \in PageEntry /\ e # Nil BY <1>1, NoNilAssumption DEF PageEntry
<1>5. MemOk(m) /\ m \in MemType BY DEF MemInv, MemOk
<1>6. m.nfree_pages \in Nat /\ m.nfree_pages # 0
  <2>1. m.nfree_pages = Count(m) BY DEF MemInv, Counted, Count
  <2> QED BY <2>1, UnmarkedFinite
<1>7. /\ m1.last_free_page = byte /\ m1.nfree_pages = m.nfree_pages - 1
      /\ m1.page_bitmap = m.page_bitmap /\ m1.tables = m.tables /\ m1.dirs = m.dirs
      /\ m1 \in [page_bitmap : {m.page_bitmap}, last_free_page : {byte},
                 nfree_pages : {m.nfree_pages - 1}, tables : {m.tables}, dirs : {m.dirs}]
  BY <1>1, <1>5 DEF TakeFrame, MemType
<1>8. MemOk(m1)
  <2>1. m.nfree_pages - 1 \in Nat BY <1>6
  <2>2. m1 \in MemType BY <1>3, <1>5, <1>7, <2>1 DEF MemType
  <2> QED BY <1>5, <1>7, <2>2 DEF MemOk
<1>9. Mappable(m1, d, page) BY <1>7 DEF Mappable
<1>10. PICK t : Entered(m1, m2, d, page, t, e) BY <1>1, <1>8, <1>9, MapRPageFacts
<1>11. MemOk(m2) /\ m2 \in MemType BY <1>10 DEF Entered, MemOk
<1>12. PICK pb : pb = m2.page_bitmap \cup {frame} OBVIOUS
<1>13. r = [m2 EXCEPT !.page_bitmap = @ \cup {frame}] BY <1>1 DEF Enter
<1>14. /\ r.page_bitmap = pb /\ r.last_free_page = m2.last_free_page
       /\ r.nfree_pages = m2.nfree_pages /\ r.tables = m2.tables /\ r.dirs = m2.dirs
       /\ r \in [page_bitmap : {pb}, last_free_page : {m2.last_free_page},
                 nfree_pages : {m2.nfree_pages}, tables : {m2.tables}, dirs : {m2.dirs}]
  BY <1>11, <1>12, <1>13 DEF MemType
<1>15. MemOk(r)
  <2>1. pb \subseteq Frame BY <1>11, <1>12 DEF MemType
  <2>2. r \in MemType BY <1>11, <1>14, <2>1 DEF MemType
  <2> QED BY <1>11, <1>14, <2>2 DEF MemOk
<1>16. Keeps(m1, m2, d, {page}) BY <1>4, <1>8, <1>9, <1>10, EnteredKeeps
<1>17. Keeps(m, r, d, {page}) BY <1>5, <1>7, <1>14, <1>15, <1>16, KeepsSame
<1> QED BY <1>1, <1>17

(* What a step may not do: WritableKept *)
StepKeeps ==
  \A t \in DOMAIN mem.tables, i \in 0..(PagesPerTable - 1) :
    LET before == mem.tables[t][i]
        after == mem'.tables[t][i]
    IN  before # Nil /\ before.writable =>
          \/ after = before
          \/ after = Nil /\ \E page \in HeapPage :
               mem.dirs[Kernel][page \div PagesPerTable] = t /\ page % PagesPerTable = i

(* Nothing that could be written was changed. *)
LEMMA StepKept ==
  ASSUME MemOk(mem), WritesKept(mem, mem')
  PROVE  StepKeeps
<1>1. DOMAIN mem.tables = 1..Len(mem.tables) BY DEF MemOk, MemType
<1> QED BY <1>1 DEF StepKeeps, WritesKept, TableSlot

(* Or nothing at all. *)
LEMMA StepStays ==
  ASSUME mem' = mem
  PROVE  StepKeeps
BY DEF StepKeeps

(* A kernel thread *)
LEMMA KernelLayout ==
  ASSUME PagingInv, LayoutInv,
         (\E page \in HeapPage \cup ModulePage : KernelSearch(page)) \/ KernelEnter
  PROVE  LayoutInv' /\ StepKeeps
<1>1. CASE \E page \in HeapPage \cup ModulePage : KernelSearch(page)
  <2>1. PICK page \in HeapPage \cup ModulePage : KernelSearch(page) BY <1>1
  <2>2. /\ ~stale /\ GetPage(mem, Kernel, page) = Nil
        /\ taking' = [page |-> page, frame |-> FreeFrame(mem)]
        /\ mem' = mem /\ process' = process /\ pidcount' = pidcount /\ stale' = stale
    BY <2>1 DEF KernelSearch
  <2>3. taking'.page = page BY <2>2
  <2> QED BY <2>2, <2>3, StepStays DEF LayoutInv
<1>2. CASE KernelEnter
  <2>1. /\ ~stale /\ taking # Nil /\ taking' = Nil
        /\ mem' = Enter(mem, Kernel, taking.page, taking.frame, TRUE)
        /\ process' = process /\ pidcount' = pidcount
    BY <1>2 DEF KernelEnter
  <2>2. PICK page, frame : page = taking.page /\ frame = taking.frame OBVIOUS
  <2>3. page \in HeapPage \cup ModulePage /\ frame \in Frame BY <2>1, <2>2 DEF PagingInv
  <2>4. /\ MemInv(mem) /\ Unmarked(mem) # {} /\ mem.dirs[Kernel] # Nil
    BY <2>1 DEF PagingInv
  <2>5. Mappable(mem, Kernel, page) BY <2>3, <2>4, PagesInTables DEF Mappable, Dir
  <2>6. mem' = Enter(mem, Kernel, page, frame, TRUE) BY <2>1, <2>2
  <2>7. Keeps(mem, mem', Kernel, {page}) BY <2>3, <2>4, <2>5, <2>6, EnterKeeps
  <2>8. /\ OneIndex(mem) /\ KernelTables(mem) /\ StacksLeft(mem, pidcount)
        /\ GetPage(mem, Kernel, page) = Nil
    BY <2>1, <2>2 DEF LayoutInv
  <2>9. OneIndex(mem') /\ KernelTables(mem') /\ StacksLeft(mem', pidcount)
    BY <2>3, <2>4, <2>7, <2>8, KernelMaps
  <2>10. LayoutInv' BY <2>1, <2>9 DEF LayoutInv
  <2>11. WritesKept(mem, mem') BY <2>7, <2>8, KeptPages
  <2> QED BY <2>4, <2>10, <2>11, StepKept DEF MemInv
<1> QED BY <1>1, <1>2

(* The heap's region *)
LEMMA RegionLayout ==
  ASSUME PagingInv, LayoutInv, NEW page \in HeapPage, HeapMap(page) \/ HeapFree(page)
  PROVE  LayoutInv' /\ StepKeeps
<1>1. /\ ~stale /\ process' = process /\ pidcount' = pidcount /\ taking' = taking /\ stale' = stale
  BY DEF HeapMap, HeapFree
<1>2. MemInv(mem) /\ mem.dirs[Kernel] # Nil BY <1>1 DEF PagingInv
<1>3. Mappable(mem, Kernel, page) BY <1>2, PagesInTables DEF Mappable, Dir
<1>4. /\ OneIndex(mem) /\ KernelTables(mem) /\ StacksLeft(mem, pidcount)
      /\ taking # Nil => GetPage(mem, Kernel, taking.page) = Nil
  BY <1>1 DEF LayoutInv
<1>5. taking # Nil => taking.page \in HeapPage \cup ModulePage BY DEF PagingInv
<1>6. CASE HeapMap(page)
  <2>1. /\ Room(1) /\ ~HeapBusy /\ GetPage(mem, Kernel, page) = Nil
        /\ mem' = MapPage(mem, Kernel, page, TRUE)
    BY <1>6 DEF HeapMap
  <2>2. Count(mem) > 1 BY <2>1 DEF Room, Count
  <2>3. Keeps(mem, mem', Kernel, {page}) BY <1>2, <1>3, <2>1, <2>2, MapOne
  <2>4. /\ OneIndex(mem') /\ KernelTables(mem') /\ StacksLeft(mem', pidcount)
        /\ \A q \in HeapPage \cup ModulePage : q # page =>
             GetPage(mem', Kernel, q) = GetPage(mem, Kernel, q)
    BY <1>2, <1>4, <2>3, KernelMaps
  <2>5. taking # Nil => taking.page # page BY <2>1 DEF HeapBusy
  <2>6. taking # Nil => GetPage(mem', Kernel, taking.page) = Nil BY <1>4, <1>5, <2>4, <2>5
  <2>7. LayoutInv' BY <1>1, <2>4, <2>6 DEF LayoutInv
  <2>8. \A q \in {page} : GetPage(mem, Kernel, q) = Nil BY <2>1
  <2>9. WritesKept(mem, mem') BY <2>3, <2>8, KeptPages
  <2> QED BY <1>2, <2>7, <2>9, StepKept DEF MemInv
<1>7. CASE HeapFree(page)
  <2>1. GetPage(mem, Kernel, page) # Nil /\ mem' = FreePage(mem, Kernel, page)
    BY <1>7 DEF HeapFree
  <2>2. PICK n : n = Len(mem.tables) OBVIOUS
  <2>3. /\ MemInv(mem') /\ mem'.dirs = mem.dirs /\ Len(mem'.tables) = n
        /\ \A u \in 1..n, i \in TableSlot : mem'.tables[u][i] # mem.tables[u][i] =>
             /\ mem.dirs[Kernel][page \div PagesPerTable] = u /\ page % PagesPerTable = i
             /\ mem'.tables[u][i] = Nil
    BY <1>2, <1>3, <2>1, <2>2, FreePageFacts
  <2>4. ASSUME NEW q \in Nat, q \div PagesPerTable \in TableIndex, GetPage(mem, Kernel, q) = Nil
        PROVE  GetPage(mem', Kernel, q) = Nil
    <3>1. PICK u, i : u = mem.dirs[Kernel][q \div PagesPerTable] /\ i = q % PagesPerTable OBVIOUS
    <3>2. mem'.dirs[Kernel][q \div PagesPerTable] = u BY <2>3, <3>1
    <3>3. CASE u = Nil BY <3>2, <3>3 DEF GetPage
    <3>4. CASE u # Nil
      <4>1. u \in 1..n BY <1>2, <2>2, <2>4, <3>1, <3>4 DEF MemInv, MemOk, Dir
      <4>2. i \in TableSlot
        <5>1. PagesPerTable \in Nat \ {0} BY PagingAssumption
        <5> QED BY <3>1, <5>1 DEF TableSlot
      <4>3. mem.tables[u][i] = Nil BY <2>4, <3>1, <3>4 DEF GetPage
      <4>4. mem'.tables[u][i] = Nil BY <2>3, <4>1, <4>2, <4>3
      <4> QED BY <3>1, <3>2, <3>4, <4>4 DEF GetPage
    <3> QED BY <3>3, <3>4
  <2>5. OneIndex(mem') BY <1>4, <2>3 DEF OneIndex
  <2>6. KernelTables(mem') BY <1>4, <2>3 DEF KernelTables
  <2>7. StacksLeft(mem', pidcount) BY <1>4, <2>4, PagesDisjoint DEF StacksLeft
  <2>8. taking # Nil => GetPage(mem', Kernel, taking.page) = Nil
    BY <1>4, <1>5, <2>4, PagesDisjoint
  <2>9. LayoutInv' BY <1>1, <2>5, <2>6, <2>7, <2>8 DEF LayoutInv
  <2>10. DOMAIN mem.tables = 1..n BY <1>2, <2>2 DEF MemInv, MemOk, MemType
  <2>11. StepKeeps
    <3> SUFFICES ASSUME NEW t \in DOMAIN mem.tables, NEW i \in 0..(PagesPerTable - 1),
                        mem'.tables[t][i] # mem.tables[t][i]
                 PROVE  /\ mem'.tables[t][i] = Nil
                        /\ \E q \in HeapPage : /\ mem.dirs[Kernel][q \div PagesPerTable] = t
                                               /\ q % PagesPerTable = i
      BY DEF StepKeeps
    <3>1. t \in 1..n /\ i \in TableSlot BY <2>10 DEF TableSlot
    <3>2. /\ mem.dirs[Kernel][page \div PagesPerTable] = t /\ page % PagesPerTable = i
          /\ mem'.tables[t][i] = Nil
      BY <2>3, <3>1
    <3> QED BY <3>2
  <2> QED BY <2>9, <2>11
<1> QED BY <1>6, <1>7

(* The maps that elfload_from_mem makes *)
LEMMA LoadedMaps ==
  ASSUME NEW image \in Image,
         NEW maps, maps = Append([i \in DOMAIN image |->
                                    Map(image[i].vaddr, image[i].vaddr + image[i].memsz)],
                                 Map(UserHeap * PageSize, UserHeap * PageSize + 1))
  PROVE  UserMaps(maps)
<1>1. image \in Seq([vaddr : Nat, memsz : Nat, writable : BOOLEAN]) BY PagingAssumption
<1>2. PICK n \in Nat : n = Len(image) /\ DOMAIN image = 1..n BY <1>1
<1>3. PICK segments, last :
        /\ segments = [i \in 1..n |-> Map(image[i].vaddr, image[i].vaddr + image[i].memsz)]
        /\ last = Map(UserHeap * PageSize, UserHeap * PageSize + 1)
  OBVIOUS
<1>4. maps = Append(segments, last) BY <1>2, <1>3
<1>5. /\ Len(maps) = n + 1 /\ DOMAIN maps = 1..(n + 1) /\ maps[n + 1] = last
      /\ \A i \in 1..n : maps[i] = segments[i]
  <2>1. segments \in Seq(Range(segments)) /\ Len(segments) = n BY <1>3 DEF Range
  <2> QED BY <1>4, <2>1
<1>6. UserMap(last) BY <1>3 DEF UserMap, Map
<1>7. ASSUME NEW i \in 1..n PROVE SegmentMap(maps[i])
  <2>1. maps[i] = Map(image[i].vaddr, image[i].vaddr + image[i].memsz) BY <1>3, <1>5
  <2>2. /\ maps[i].start = image[i].vaddr /\ maps[i].end = image[i].vaddr + image[i].memsz
        /\ i \in DOMAIN image
    BY <1>2, <2>1 DEF Map
  <2> QED BY <2>2 DEF SegmentMap
<1>8. ASSUME NEW i \in DOMAIN maps PROVE UserMap(maps[i]) \/ SegmentMap(maps[i])
  <2>1. CASE i = n + 1 BY <1>5, <1>6, <2>1
  <2>2. CASE i # n + 1
    <3>1. i \in 1..n BY <1>5, <2>2
    <3> QED BY <1>7, <3>1
  <2> QED BY <2>1, <2>2
<1> QED BY <1>5, <1>6, <1>8 DEF UserMaps

(* elfload_from_mem: the directory's page, the program and the stack are   *)
(* mapped where nothing was.                                               *)
LEMMA ElfloadLayout ==
  ASSUME PagingInv, LayoutInv, NEW p \in Process, NEW image \in Image, NEW dirpage \in HeapPage,
         ElfloadFromMem(p, image, dirpage)
  PROVE  LayoutInv' /\ StepKeeps
<1>1. PICK m, c, h : LoadedBy(p, dirpage, m, c, h) BY ElfloadFacts
<1>2. PICK stack : stack = StackPage(pidcount + 1) OBVIOUS
<1>3. /\ ~stale /\ ~HeapBusy /\ GetPage(mem, Kernel, dirpage) = Nil
      /\ process' = [process EXCEPT ![p] =
           Append([i \in DOMAIN image |->
                     Map(image[i].vaddr, image[i].vaddr + image[i].memsz)],
                  Map(UserHeap * PageSize, UserHeap * PageSize + 1))]
      /\ pidcount' = pidcount + 1 /\ taking' = taking /\ stale' = stale
  BY Zenon DEF ElfloadFromMem
<1>4. /\ mem.dirs[Kernel] # Nil /\ process \in [Process -> Seq(MemMap) \cup {Nil}] /\ MemInv(mem)
  BY <1>3 DEF PagingInv
<1>5. /\ OneIndex(mem) /\ KernelTables(mem) /\ StacksLeft(mem, pidcount)
      /\ taking # Nil => GetPage(mem, Kernel, taking.page) = Nil
  BY <1>3 DEF LayoutInv
<1>6. p \in Dir /\ Kernel \in Dir /\ Kernel # p BY PagingAssumption DEF Dir
<1>7. /\ MemInv(m) /\ MemInv(c) /\ MemInv(h) /\ MemInv(mem')
      /\ Keeps(mem, m, Kernel, {dirpage}) /\ Keeps(c, h, p, ProgramPages)
      /\ Keeps(h, mem', p, {stack})
      /\ c.tables = m.tables /\ c.dirs[p] = m.dirs[Kernel]
      /\ \A b \in Dir : b # p => c.dirs[b] = m.dirs[b]
      /\ stack \in Nat /\ pidcount + 1 \in 2..(Cardinality(Process) + 1)
  BY <1>1, <1>2 DEF LoadedBy
<1>8. pidcount \in Nat
  <2>1. Live \in SUBSET Process BY DEF Live
  <2>2. IsFiniteSet(Live) BY <2>1, PagingAssumption, FS_Subset
  <2>3. Cardinality(Live) \in Nat BY <2>2, FS_CardinalityType
  <2> QED BY <2>3 DEF PagingInv
<1>9. pidcount + 1 \in 1..(Cardinality(Process) + 1) /\ pidcount + 1 > pidcount
  BY <1>7, <1>8
<1>10. /\ stack \in KernelPages /\ stack \div PagesPerTable \in TableIndex
       /\ \A q \in HeapPage \cup ModulePage : q # stack
  BY <1>2, <1>9, PagesDisjoint
<1>11. m.dirs[Kernel] # Nil BY <1>4, <1>6, <1>7 DEF Keeps
<1>12. /\ OneIndex(m) /\ KernelTables(m) /\ StacksLeft(m, pidcount)
       /\ \A q \in HeapPage \cup ModulePage : q # dirpage =>
            GetPage(m, Kernel, q) = GetPage(mem, Kernel, q)
  BY <1>4, <1>5, <1>7, KernelMaps
<1>13. GetPage(m, Kernel, stack) = Nil BY <1>2, <1>9, <1>12 DEF StacksLeft
<1>14. /\ c.dirs[Kernel] = m.dirs[Kernel] /\ c.dirs[p] # Nil /\ c.dirs[Kernel] # Nil
       /\ \A q : GetPage(c, Kernel, q) = GetPage(m, Kernel, q)
       /\ \A q : GetPage(c, p, q) = GetPage(m, Kernel, q)
  BY <1>6, <1>7, <1>11 DEF GetPage
<1>15. OneIndex(c)
  <2> SUFFICES ASSUME NEW a \in Dir, NEW b \in Dir, NEW x \in TableIndex, NEW y \in TableIndex,
                      c.dirs[a] # Nil, c.dirs[b] # Nil, c.dirs[a][x] # Nil,
                      c.dirs[a][x] = c.dirs[b][y]
               PROVE  x = y
    BY DEF OneIndex
  <2>1. PICK f \in Dir : c.dirs[a] = m.dirs[f] BY <1>6, <1>7
  <2>2. PICK g \in Dir : c.dirs[b] = m.dirs[g] BY <1>6, <1>7
  <2> QED BY <1>12, <2>1, <2>2 DEF OneIndex
<1>16. /\ OneIndex(h) /\ h.dirs[Kernel] = c.dirs[Kernel]
       /\ \A b \in Dir, q \in KernelPages :
            c.dirs[b] # Nil /\ q \in Nat /\ q \div PagesPerTable \in TableIndex =>
              GetPage(h, b, q) = GetPage(c, b, q)
  BY <1>7, <1>14, <1>15, ProgramMaps
<1>17. GetPage(h, p, stack) = Nil BY <1>6, <1>7, <1>10, <1>13, <1>14, <1>16
<1>18. /\ OneIndex(mem') /\ mem'.dirs[Kernel] = h.dirs[Kernel]
       /\ \A q \in Nat : q # stack /\ q \div PagesPerTable \in TableIndex =>
            GetPage(mem', Kernel, q) = GetPage(h, Kernel, q)
  <2>1. Touches(h, mem', p, {stack}) BY <1>7 DEF Keeps
  <2>2. OneIndex(mem') /\ mem'.dirs[Kernel] = h.dirs[Kernel]
    BY <1>6, <1>16, <2>1 DEF Touches
  <2>3. ASSUME NEW q \in Nat, q # stack, q \div PagesPerTable \in TableIndex
        PROVE  GetPage(mem', Kernel, q) = GetPage(h, Kernel, q)
    <3>1. Mappable(h, Kernel, q) /\ q \notin {stack} BY <1>6, <1>14, <1>16, <2>3 DEF Mappable
    <3> QED BY <1>6, <1>16, <2>1, <3>1 DEF Touches
  <2> QED BY <2>2, <2>3
<1>19. ASSUME NEW q \in KernelPages, q \in Nat, q # stack, q \div PagesPerTable \in TableIndex
       PROVE  GetPage(mem', Kernel, q) = GetPage(m, Kernel, q)
  BY <1>6, <1>14, <1>16, <1>18, <1>19
<1>20. KernelTables(mem') BY <1>12, <1>14, <1>16, <1>18 DEF KernelTables
<1>21. StacksLeft(mem', pidcount + 1)
  <2> SUFFICES ASSUME NEW i \in 1..(Cardinality(Process) + 1), i > pidcount + 1
               PROVE  GetPage(mem', Kernel, StackPage(i)) = Nil
    BY DEF StacksLeft
  <2>1. i > pidcount /\ i # pidcount + 1 BY <1>8
  <2>2. GetPage(m, Kernel, StackPage(i)) = Nil BY <1>12, <2>1 DEF StacksLeft
  <2>3. StackPage(i) # stack BY <1>2, <1>9, <2>1, PagesDisjoint
  <2> QED BY <1>19, <2>2, <2>3, PagesDisjoint
<1>22. ASSUME taking # Nil PROVE GetPage(mem', Kernel, taking.page) = Nil
  <2>1. PICK q : q = taking.page OBVIOUS
  <2>2. q \in HeapPage \cup ModulePage BY <1>22, <2>1 DEF PagingInv
  <2>3. q # dirpage BY <1>3, <1>22, <2>1 DEF HeapBusy
  <2>4. GetPage(m, Kernel, q) = Nil BY <1>5, <1>12, <1>22, <2>1, <2>2, <2>3
  <2>5. q # stack BY <1>10, <2>2
  <2> QED BY <1>19, <2>1, <2>2, <2>4, <2>5, PagesDisjoint
<1>23. ASSUME NEW q \in Process, process'[q] # Nil PROVE UserMaps(process'[q])
  <2>1. CASE q = p
    <3>1. PICK maps : maps = Append([i \in DOMAIN image |->
                                       Map(image[i].vaddr, image[i].vaddr + image[i].memsz)],
                                    Map(UserHeap * PageSize, UserHeap * PageSize + 1))
      OBVIOUS
    <3>2. process' = [process EXCEPT ![p] = maps] BY <1>3, <3>1
    <3>3. process'[p] = maps BY <1>4, <3>2
    <3>4. UserMaps(maps) BY <3>1, LoadedMaps
    <3> QED BY <2>1, <3>3, <3>4
  <2>2. CASE q # p
    <3>1. process'[q] = process[q] BY <1>3, <1>4, <2>2
    <3> QED BY <1>23, <3>1 DEF LayoutInv
  <2> QED BY <2>1, <2>2
<1>24. LayoutInv' BY <1>3, <1>18, <1>20, <1>21, <1>22, <1>23 DEF LayoutInv
<1>25. WritesKept(mem, m)
  <2>1. \A q \in {dirpage} : GetPage(mem, Kernel, q) = Nil BY <1>3
  <2> QED BY <1>7, <2>1, KeptPages
<1>26. WritesKept(c, h)
  <2>1. ASSUME NEW q \in ProgramPages, GetPage(c, p, q) # Nil PROVE FALSE
    <3>1. PICK x : x = q \div PagesPerTable OBVIOUS
    <3>2. x \in TableOf(ProgramPages) BY <3>1 DEF TableOf
    <3>3. m.dirs[Kernel][x] # Nil BY <1>7, <2>1, <3>1 DEF GetPage
    <3>4. x \in TableIndex BY <3>1, ProgramInTables
    <3> QED BY <1>12, <3>2, <3>3, <3>4, LayoutAssumption DEF KernelTables
  <2> QED BY <1>7, <2>1, KeptPages
<1>27. WritesKept(h, mem')
  <2>1. \A q \in {stack} : GetPage(h, p, q) = Nil BY <1>17
  <2> QED BY <1>7, <2>1, KeptPages
<1>28. WritesKept(m, h) BY <1>7, <1>26 DEF WritesKept
<1>29. MemOk(mem) /\ MemOk(m) /\ MemOk(h) /\ MemOk(mem') BY <1>4, <1>7 DEF MemInv
<1>30. WritesKept(m, mem') BY <1>27, <1>28, <1>29, WritesKeptOn
<1>31. WritesKept(mem, mem') BY <1>25, <1>29, <1>30, WritesKeptOn
<1> QED BY <1>24, <1>29, <1>31, StepKept

(* The end of a process *)
LEMMA EndedLayout ==
  ASSUME LayoutInv, process \in [Process -> Seq(MemMap) \cup {Nil}], NEW p \in Process,
         process' = [process EXCEPT ![p] = <<>>],
         mem' = mem, pidcount' = pidcount, taking' = taking, stale' = stale
  PROVE  LayoutInv'
<1>1. process'[p] = <<>> /\ \A q \in Process : q # p => process'[q] = process[q] OBVIOUS
<1>2. UserMaps(<<>>) BY DEF UserMaps
<1>3. \A q \in Process : process'[q] # Nil => UserMaps(process'[q]) BY <1>1, <1>2 DEF LayoutInv
<1> QED BY <1>3 DEF LayoutInv

(* Where a process may fault is a page of programs. *)
LEMMA FaultPage ==
  ASSUME LayoutInv, process \in [Process -> Seq(MemMap) \cup {Nil}],
         NEW p \in Process, process[p] # Nil, NEW address \in Address, InMap(p, address)
  PROVE  Page(address) \in ProgramPages
<1>1. PICK map \in MemMap : /\ map.start <= address /\ address < map.end
                            /\ UserMap(map) \/ SegmentMap(map)
  BY DEF InMap, LayoutInv, UserMaps
<1>2. UserHeap \in Nat /\ PageSize \in Nat \ {0} /\ MaxBrk \in Nat /\ address \in Nat
      /\ map.start \in Nat /\ map.end \in Nat
  BY PagingAssumption DEF MemMap
<1>3. CASE UserMap(map) /\ map.end <= MaxBrk
  <2>1. UserHeap * PageSize <= address /\ address < MaxBrk BY <1>1, <1>2, <1>3 DEF UserMap
  <2>2. ProgramAddress(address) BY <2>1 DEF ProgramAddress
  <2> QED BY <2>2 DEF ProgramPages
<1>4. CASE UserMap(map) /\ map.end = map.start + 1
  <2>1. address = map.start /\ map.start = UserHeap * PageSize BY <1>1, <1>2, <1>4 DEF UserMap
  <2>2. address = PageSize * UserHeap + 0 BY <1>2, <2>1
  <2>3. Page(address) = UserHeap BY <1>2, <2>2, DivUnique DEF Page
  <2> QED BY <2>3 DEF ProgramPages
<1>5. CASE SegmentMap(map)
  <2>1. PICK image \in Image : \E i \in DOMAIN image :
          map.start = image[i].vaddr /\ map.end = image[i].vaddr + image[i].memsz
    BY <1>5 DEF SegmentMap
  <2>2. ProgramAddress(address) BY <1>1, <2>1 DEF ProgramAddress
  <2> QED BY <2>2 DEF ProgramPages
<1> QED BY <1>1, <1>3, <1>4, <1>5 DEF UserMap

(* page_fault_handler *)
LEMMA FaultLayout ==
  ASSUME PagingInv, LayoutInv, NEW p \in Process, NEW address \in Address, PageFault(p, address)
  PROVE  LayoutInv' /\ StepKeeps
<1>1. /\ ~stale /\ process[p] # Nil
      /\ pidcount' = pidcount /\ taking' = taking /\ stale' = stale
      /\ GetPage(mem, p, Page(address)) # Nil => ~GetPage(mem, p, Page(address)).writable
  BY DEF PageFault, Runs
<1>2. /\ MemInv(mem) /\ mem.dirs[Kernel] # Nil
      /\ process \in [Process -> Seq(MemMap) \cup {Nil}]
      /\ \A q \in Process : process[q] = Nil <=> mem.dirs[q] = Nil
  BY <1>1 DEF PagingInv
<1>3. /\ OneIndex(mem) /\ KernelTables(mem) /\ StacksLeft(mem, pidcount)
      /\ taking # Nil => GetPage(mem, Kernel, taking.page) = Nil
  BY <1>1 DEF LayoutInv
<1>4. CASE InMap(p, address)
  <2>1. Room(1) /\ mem' = MapPage(mem, p, Page(address), TRUE) /\ process' = process
    BY <1>4 DEF PageFault
  <2>2. Mappable(mem, p, Page(address)) BY <1>1, <1>2, PagesInTables DEF Mappable, Dir
  <2>3. Count(mem) > 1 BY <2>1 DEF Room, Count
  <2>4. Keeps(mem, mem', p, {Page(address)}) BY <1>2, <2>1, <2>2, <2>3, MapOne
  <2>5. {Page(address)} \subseteq ProgramPages BY <1>1, <1>2, <1>4, FaultPage
  <2>6. /\ OneIndex(mem') /\ mem'.dirs[Kernel] = mem.dirs[Kernel]
        /\ \A b \in Dir, q \in KernelPages :
             mem.dirs[b] # Nil /\ q \in Nat /\ q \div PagesPerTable \in TableIndex =>
               GetPage(mem', b, q) = GetPage(mem, b, q)
    BY <1>2, <1>3, <2>4, <2>5, ProgramMaps
  <2>7. \A q \in KernelPages : q \in Nat /\ q \div PagesPerTable \in TableIndex =>
          GetPage(mem', Kernel, q) = GetPage(mem, Kernel, q)
    BY <1>2, <2>6 DEF Dir
  <2>8. KernelTables(mem') BY <1>3, <2>6 DEF KernelTables
  <2>9. StacksLeft(mem', pidcount) BY <1>3, <2>7, PagesDisjoint DEF StacksLeft
  <2>10. ASSUME taking # Nil PROVE GetPage(mem', Kernel, taking.page) = Nil
    <3>1. taking.page \in HeapPage \cup ModulePage BY <2>10 DEF PagingInv
    <3> QED BY <1>3, <2>7, <2>10, <3>1, PagesDisjoint
  <2>11. LayoutInv' BY <1>1, <2>1, <2>6, <2>8, <2>9, <2>10 DEF LayoutInv
  <2>12. \A q \in {Page(address)} : GetPage(mem, p, q) # Nil => ~GetPage(mem, p, q).writable
    BY <1>1
  <2>13. WritesKept(mem, mem') BY <2>4, <2>12, KeptPages
  <2> QED BY <1>2, <2>11, <2>13, StepKept DEF MemInv
<1>5. CASE ~InMap(p, address)
  <2>1. mem' = mem /\ process' = [process EXCEPT ![p] = <<>>] BY <1>5 DEF PageFault
  <2>2. LayoutInv' BY <1>1, <1>2, <2>1, EndedLayout
  <2> QED BY <2>1, <2>2, StepStays
<1> QED BY <1>4, <1>5

(* sbrk, and the end of a process *)
LEMMA BrkExitLayout ==
  ASSUME PagingInv, LayoutInv, NEW p \in Process,
         ProcessExit(p) \/ \E increment \in Increment : Sbrk(p, increment)
  PROVE  LayoutInv' /\ StepKeeps
<1>1. /\ process[p] # Nil /\ process[p] # <<>> /\ mem' = mem
      /\ pidcount' = pidcount /\ taking' = taking /\ stale' = stale
  BY DEF ProcessExit, Sbrk, Runs
<1>2. process \in [Process -> Seq(MemMap) \cup {Nil}] BY DEF PagingInv
<1>3. CASE ProcessExit(p)
  <2>1. process' = [process EXCEPT ![p] = <<>>] BY <1>3 DEF ProcessExit
  <2> QED BY <1>1, <1>2, <2>1, EndedLayout, StepStays
<1>4. CASE \E increment \in Increment : Sbrk(p, increment)
  <2>1. PICK increment \in Increment : Sbrk(p, increment) BY <1>4
  <2>2. PICK s, last : s = process[p] /\ last = Len(s) OBVIOUS
  <2>3. s \in Seq(MemMap) /\ s # <<>> /\ UserMaps(s) BY <1>1, <1>2, <2>2 DEF LayoutInv
  <2>4. last \in 1..Len(s) /\ s[last] \in MemMap /\ UserMap(s[last])
    BY <2>2, <2>3 DEF UserMaps
  <2>5. s[last].end + increment <= MaxBrk /\ process' = [process EXCEPT ![p][last].end = @ + increment]
    BY <2>1, <2>2 DEF Sbrk
  <2>6. PICK map : map = [s[last] EXCEPT !.end = @ + increment] OBVIOUS
  <2>7. map.start = s[last].start /\ map.end = s[last].end + increment BY <2>4, <2>6 DEF MemMap
  <2>8. UserMap(map) BY <2>4, <2>5, <2>7 DEF UserMap
  <2>9. PICK new : new = [s EXCEPT ![last] = map] OBVIOUS
  <2>10. /\ DOMAIN new = DOMAIN s /\ Len(new) = Len(s) /\ new[last] = map
         /\ \A i \in DOMAIN s : i # last => new[i] = s[i]
    BY <2>3, <2>4, <2>9
  <2>11. UserMaps(new) BY <2>2, <2>3, <2>8, <2>10 DEF UserMaps
  <2>12. process' = [process EXCEPT ![p] = new] BY <1>2, <2>2, <2>5, <2>6, <2>9
  <2>13. process'[p] = new /\ \A q \in Process : q # p => process'[q] = process[q]
    BY <1>2, <2>12
  <2>14. \A q \in Process : process'[q] # Nil => UserMaps(process'[q])
    BY <2>11, <2>13 DEF LayoutInv
  <2> QED BY <1>1, <2>14, StepStays DEF LayoutInv
<1> QED BY <1>3, <1>4

(* init_paging and the idle task's stack *)
LEMMA LayoutInit == PagingInit => LayoutInv
<1> SUFFICES ASSUME PagingInit PROVE LayoutInv OBVIOUS
<1>1. /\ process = [p \in Process |-> Nil] /\ pidcount = 1 /\ taking = Nil BY DEF PagingInit
<1>2. PICK m : Booted(m) BY BootFacts
<1>3. PICK stack : stack = StackPage(1) OBVIOUS
<1>4. /\ m.dirs[Kernel] # Nil /\ \A x \in TableIndex : m.dirs[Kernel][x] = Nil
      /\ \A p \in Process : m.dirs[p] = Nil
      /\ Keeps(m, mem, Kernel, {stack}) /\ Kernel \in Dir
  BY <1>2, <1>3 DEF Booted, Gets, Dir
<1>5. \A b \in Dir, x \in TableIndex : m.dirs[b] # Nil => m.dirs[b][x] = Nil
  BY <1>4 DEF Dir
<1>6. OneIndex(m) BY <1>5 DEF OneIndex
<1>7. Touches(m, mem, Kernel, {stack}) BY <1>4 DEF Keeps
<1>8. OneIndex(mem) BY <1>6, <1>7 DEF Touches
<1>9. Cardinality(Process) \in Nat BY PagingAssumption, FS_CardinalityType
<1>10. 1 \in 1..(Cardinality(Process) + 1) BY <1>9
<1>11. KernelTables(mem)
  <2> SUFFICES ASSUME NEW x \in TableIndex, mem.dirs[Kernel][x] # Nil
               PROVE  x \in TableOf(KernelPages)
    BY DEF KernelTables
  <2>1. x \in TableOf({stack}) BY <1>4, <1>7 DEF Touches
  <2>2. stack \in KernelPages BY <1>3, <1>10, PagesDisjoint
  <2> QED BY <2>1, <2>2 DEF TableOf
<1>12. StacksLeft(mem, 1)
  <2> SUFFICES ASSUME NEW i \in 1..(Cardinality(Process) + 1), i > 1
               PROVE  GetPage(mem, Kernel, StackPage(i)) = Nil
    BY DEF StacksLeft
  <2>1. PICK q : q = StackPage(i) OBVIOUS
  <2>2. q \in Nat /\ q \div PagesPerTable \in TableIndex BY <2>1, PagesDisjoint
  <2>3. q # stack
    <3>1. i # 1 BY <1>9
    <3> QED BY <1>3, <1>10, <2>1, <3>1, PagesDisjoint
  <2>4. Mappable(m, Kernel, q) /\ q \notin {stack} BY <1>4, <2>2, <2>3 DEF Mappable
  <2>5. GetPage(mem, Kernel, q) = GetPage(m, Kernel, q) BY <1>4, <1>6, <1>7, <2>2, <2>4 DEF Touches
  <2>6. GetPage(m, Kernel, q) = Nil BY <1>4, <2>2 DEF GetPage
  <2> QED BY <2>1, <2>5, <2>6
<1> QED BY <1>1, <1>8, <1>11, <1>12 DEF LayoutInv

(* A step of PagingNext *)
LEMMA LayoutStep ==
  ASSUME PagingInv, LayoutInv, [PagingNext]_pagingVars
  PROVE  LayoutInv' /\ StepKeeps
<1>1. ASSUME NEW page \in HeapPage \cup ModulePage, KernelSearch(page)
      PROVE  LayoutInv' /\ StepKeeps
  BY <1>1, KernelLayout
<1>2. CASE KernelEnter BY <1>2, KernelLayout
<1>3. ASSUME NEW page \in HeapPage, HeapMap(page) \/ HeapFree(page)
      PROVE  LayoutInv' /\ StepKeeps
  BY <1>3, RegionLayout
<1>4. ASSUME NEW p \in Process, NEW image \in Image, NEW page \in HeapPage,
             ElfloadFromMem(p, image, page)
      PROVE  LayoutInv' /\ StepKeeps
  BY <1>4, ElfloadLayout
<1>5. ASSUME NEW p \in Process, NEW address \in Address, PageFault(p, address)
      PROVE  LayoutInv' /\ StepKeeps
  BY <1>5, FaultLayout
<1>6. ASSUME NEW p \in Process,
             ProcessExit(p) \/ \E increment \in Increment : Sbrk(p, increment)
      PROVE  LayoutInv' /\ StepKeeps
  BY <1>6, BrkExitLayout
<1>7. CASE PagingStopped \/ UNCHANGED pagingVars
  <2>1. UNCHANGED pagingVars BY <1>7 DEF PagingStopped
  <2>2. LayoutInv' BY <2>1 DEF LayoutInv, pagingVars
  <2> QED BY <2>1, <2>2, StepStays DEF pagingVars
<1> QED BY <1>1, <1>2, <1>3, <1>4, <1>5, <1>6, <1>7 DEF PagingNext

(* Whatever the steps of the kernel's threads, the heap and the processes, *)
(* no page is mapped over another that was in use.                         *)
THEOREM LayoutInvariant == PagingSpec => []LayoutInv
<1>1. PagingInv /\ LayoutInv /\ [PagingNext]_pagingVars => LayoutInv'
  BY LayoutStep
<1> QED BY <1>1, LayoutInit, PagingInvariant, PTL DEF PagingSpec

(* A writable page keeps its frame, and with it what was written, through  *)
(* faults, loads, growth and ends of any process and the stale frame of a  *)
(* kernel thread: only bitmap_region_free_page takes one away.             *)
THEOREM WritableAlwaysKept == PagingSpec => WritableKept
<1>1. PagingInv /\ LayoutInv /\ [PagingNext]_pagingVars => [StepKeeps]_pagingVars
  BY LayoutStep
<1> QED BY <1>1, PagingInvariant, LayoutInvariant, PTL DEF PagingSpec, WritableKept, StepKeeps

-----------------------------------------------------------------------------
(* Disk.  A drive is at an index no higher than its slot, and at its slot  *)
(* itself unless there is an empty one before it.                          *)
Full(slot) == \A s \in 0..(slot - 1) : drives[s] # "none"

Placed(index) ==
  LET slot == ide_devices[index]
  IN  slot \in 0..(probed - 1) /\ index < found /\ (Full(slot) => index = slot)

(* A device of the HAL is a drive that was found, or a partition of it,    *)
(* whose first sector the drive's own table has unless it is misplaced.    *)
HalDevice == {disk \in [index : Slot, part : Nat, rel : Nat] :
  LET slot == ide_devices[disk.index]
  IN  /\ slot # NoDrive /\ (disk.part = 0 => disk.rel = 0)
      /\ disk.part > 0 /\ Full(slot) =>
           disk.part \in DOMAIN PartTable[slot] /\ disk.rel = PartTable[slot][disk.part]}

DiskInv ==
  /\ drives \in Drives /\ probed \in 0..4 /\ found \in 0..probed
  /\ Full(probed) => found = probed
  /\ ide_devices \in [Slot -> Slot \cup {NoDrive}]
  /\ \A i \in Slot : ide_devices[i] # NoDrive => Placed(i)
  /\ disks \in Seq(HalDevice)
  /\ parts_ready \in BOOLEAN /\ (parts_ready => probed = 4)
  /\ ~parts_ready => transfer = <<>> /\ written = <<>>
                     /\ \A i \in DOMAIN disks : disks[i].part = 0
  /\ transfer # <<>> =>
       \E disk \in HalDevice, count \in SectCount, offset \in SectOffset :
         transfer = <<disk, count, offset, HalRead(disk, count, offset)>>
  /\ \A w \in Range(written) : w[2] < Sectors[w[1]]

(* What a transfer of a drive goes to: sectors of that drive, all below    *)
(* its end, and those that were asked for unless the head register would   *)
(* have been needed.                                                       *)
Transfers(sectors, slot, lba, n) ==
  /\ sectors \in Seq(Slot \X Nat)
  /\ \A i \in DOMAIN sectors : sectors[i][2] < Sectors[sectors[i][1]]
  /\ lba < LowWrap \/ lba > ExtAbove =>
       \A i \in DOMAIN sectors : sectors[i] = <<slot, lba + i - 1>>
  /\ slot # NoDrive /\ n < CountWrap /\ lba + n <= Sectors[slot] => Len(sectors) = n

(* ata_ide_pio_access goes to such sectors. *)
LEMMA AccessFacts ==
  ASSUME ide_devices \in [Slot -> Slot \cup {NoDrive}],
         NEW index \in Slot, NEW lba \in Nat, NEW n \in Nat
  PROVE  Transfers(Access(index, lba, n), ide_devices[index], lba, n)
<1>1. /\ CountWrap \in Nat \ {0} /\ LowWrap \in Nat \ {0} /\ ExtAbove \in Nat
      /\ Sectors \in [Slot -> Nat] /\ NoDrive \notin Slot
  BY DiskAssumption
<1>2. PICK slot, num, at, sectors :
        /\ slot = ide_devices[index] /\ num = n % CountWrap /\ at = Lba(lba)
        /\ sectors = Access(index, lba, n)
  OBVIOUS
<1>3. num \in Nat /\ (n < CountWrap => num = n) BY <1>1, <1>2
<1>4. /\ at \in Nat /\ at <= lba /\ (lba < LowWrap \/ lba > ExtAbove => at = lba)
  <2>1. lba % LowWrap \in Nat /\ lba % LowWrap <= lba /\ (lba < LowWrap => lba % LowWrap = lba)
    BY <1>1
  <2> QED BY <1>1, <1>2, <2>1 DEF Lba
<1>5. CASE slot = NoDrive
  <2>1. sectors = <<>> BY <1>2, <1>5 DEF Access
  <2> QED BY <1>2, <1>5, <2>1 DEF Transfers
<1>6. CASE slot # NoDrive /\ lba + num > Sectors[slot]
  <2>1. sectors = <<>> BY <1>2, <1>6 DEF Access
  <2>2. ~(n < CountWrap /\ lba + n <= Sectors[slot])
    <3>1. Sectors[slot] \in Nat BY <1>1, <1>2, <1>6
    <3> QED BY <1>3, <1>6, <3>1
  <2> QED BY <1>2, <2>1, <2>2 DEF Transfers
<1>7. CASE slot # NoDrive /\ ~(lba + num > Sectors[slot])
  <2>1. sectors = [i \in 1..num |-> <<slot, at + i - 1>>] BY <1>2, <1>7 DEF Access
  <2>2. slot \in Slot /\ Sectors[slot] \in Nat BY <1>1, <1>2, <1>7
  <2>3. \A i \in 1..num : at + i - 1 \in Nat /\ at + i - 1 < Sectors[slot]
    BY <1>3, <1>4, <1>7, <2>2
  <2>4. sectors \in Seq(Slot \X Nat) /\ Len(sectors) = num /\ DOMAIN sectors = 1..num
    BY <1>3, <2>1, <2>2, <2>3
  <2>5. \A i \in DOMAIN sectors : sectors[i] = <<slot, at + i - 1>> BY <2>1, <2>4
  <2>6. \A i \in DOMAIN sectors : sectors[i][2] < Sectors[sectors[i][1]] BY <2>3, <2>4, <2>5
  <2>7. lba < LowWrap \/ lba > ExtAbove =>
          \A i \in DOMAIN sectors : sectors[i] = <<slot, lba + i - 1>>
    BY <1>4, <2>5
  <2> QED BY <1>2, <1>3, <2>4, <2>6, <2>7 DEF Transfers
<1> QED BY <1>5, <1>6, <1>7

(* A drive that is not misplaced is the one at its own slot. *)
LEMMA OwnSlot ==
  ASSUME DiskInv, NEW disk \in HalDevice
  PROVE  /\ disk.index \in Slot /\ disk.part \in Nat /\ disk.rel \in Nat
         /\ ide_devices[disk.index] \in Slot
         /\ Full(ide_devices[disk.index]) =>
              ide_devices[ide_devices[disk.index]] = ide_devices[disk.index]
<1>1. disk.index \in Slot /\ ide_devices[disk.index] # NoDrive /\ disk.part \in Nat /\ disk.rel \in Nat
  BY DEF HalDevice
<1>2. ide_devices[disk.index] \in Slot BY <1>1 DEF DiskInv
<1>3. Placed(disk.index) BY <1>1 DEF DiskInv
<1> QED BY <1>1, <1>2, <1>3 DEF Placed

(* ata_ide_hal_read delivers sectors of the drive's own slot. *)
LEMMA ReadFacts ==
  ASSUME DiskInv, NEW disk \in HalDevice, NEW n \in Nat, NEW offset \in Nat
  PROVE  LET slot == ide_devices[disk.index]
             sectors == HalRead(disk, n, offset)
         IN  /\ sectors \in Seq(Slot \X Nat)
             /\ \A i \in DOMAIN sectors : sectors[i][2] < Sectors[sectors[i][1]]
             /\ Full(slot) => Transfers(sectors, slot, disk.rel + offset, n)
<1>1. PICK slot, sectors : slot = ide_devices[disk.index] /\ sectors = HalRead(disk, n, offset)
  OBVIOUS
<1>2. slot \in Slot /\ disk.rel \in Nat /\ (Full(slot) => ide_devices[slot] = slot) BY <1>1, OwnSlot
<1>3. PICK lba \in Nat : lba = disk.rel + offset BY <1>2
<1>4. ide_devices \in [Slot -> Slot \cup {NoDrive}] BY DEF DiskInv
<1>5. sectors = Access(slot, lba, n) BY <1>1, <1>3 DEF HalRead
<1>6. Transfers(sectors, ide_devices[slot], lba, n) BY <1>2, <1>4, <1>5, AccessFacts
<1> QED BY <1>1, <1>2, <1>3, <1>6 DEF Transfers

(* check_for_parts on one disk *)
LEMMA PartsFacts ==
  ASSUME DiskInv, NEW disk \in HalDevice, disk.part = 0
  PROVE  PartsOn(disk) \in Seq(HalDevice)
<1>1. PICK slot, mbr : slot = ide_devices[disk.index] /\ mbr = HalRead(disk, 1, 0) OBVIOUS
<1>2. /\ disk.index \in Slot /\ slot \in Slot /\ disk.rel = 0 /\ slot # NoDrive
  BY <1>1, OwnSlot DEF HalDevice
<1>3. /\ CountWrap \in Nat \ {0} /\ LowWrap \in Nat \ {0} /\ PartTable \in [Slot -> Seq(Nat)]
  BY DiskAssumption
<1>4. /\ mbr \in Seq(Slot \X Nat) /\ (Full(slot) => Transfers(mbr, slot, 0, 1))
  <2>1. PICK n \in Nat, offset \in Nat : n = 1 /\ offset = 0 OBVIOUS
  <2>2. mbr = HalRead(disk, n, offset) BY <1>1, <2>1
  <2>3. /\ mbr \in Seq(Slot \X Nat)
        /\ Full(slot) => Transfers(mbr, slot, disk.rel + offset, n)
    BY <1>1, <2>2, ReadFacts, Zenon
  <2>4. disk.rel + offset = 0 BY <1>2, <2>1
  <2> QED BY <2>1, <2>3, <2>4
<1>5. PICK table : table = IF mbr = <<>> THEN <<>> ELSE PartTable[mbr[1][1]] OBVIOUS
<1>6. PartsOn(disk) = [i \in DOMAIN table |-> Disk(disk.index, i, table[i])]
  BY <1>1, <1>5 DEF PartsOn
<1>7. mbr # <<>> => 1 \in DOMAIN mbr /\ mbr[1][1] \in Slot
  <2>1. mbr # <<>> => 1 \in DOMAIN mbr /\ mbr[1] \in Slot \X Nat BY <1>4
  <2> QED BY <2>1
<1>8. table \in Seq(Nat)
  <2>1. CASE mbr = <<>> BY <1>5, <2>1
  <2>2. CASE mbr # <<>> BY <1>3, <1>5, <1>7, <2>2
  <2> QED BY <2>1, <2>2
<1>9. ASSUME Full(slot), table # <<>> PROVE table = PartTable[slot]
  <2>1. mbr # <<>> BY <1>5, <1>9
  <2>2. \A i \in DOMAIN mbr : mbr[i] = <<slot, 0 + i - 1>> BY <1>3, <1>4, <1>9 DEF Transfers
  <2>3. mbr[1][1] = slot BY <1>7, <2>1, <2>2
  <2> QED BY <1>5, <2>1, <2>3
<1>10. ASSUME NEW i \in DOMAIN table PROVE Disk(disk.index, i, table[i]) \in HalDevice
  <2>1. i \in Nat /\ i > 0 /\ table[i] \in Nat /\ table # <<>> BY <1>8, <1>10
  <2>2. PICK d : d = Disk(disk.index, i, table[i]) OBVIOUS
  <2>3. d.index = disk.index /\ d.part = i /\ d.rel = table[i] /\ d \in [index : Slot, part : Nat, rel : Nat]
    BY <1>2, <2>1, <2>2 DEF Disk
  <2>4. Full(slot) => table = PartTable[slot] BY <1>9, <2>1
  <2> QED BY <1>1, <1>2, <2>1, <2>2, <2>3, <2>4 DEF HalDevice
<1>11. DOMAIN table = 1..Len(table) /\ Len(table) \in Nat BY <1>8
<1>12. [i \in 1..Len(table) |-> Disk(disk.index, i, table[i])] \in Seq(HalDevice)
  BY <1>10, <1>11
<1> QED BY <1>6, <1>11, <1>12

(* check_for_parts: the loop over the disks that were there *)
PartsStep(c, d, all, disk) == all \o PartsOn(disk)
PartsLoop == INSTANCE FoldTheorems WITH op <- PartsStep

(* The partitions are devices like the disks. *)
LEMMA CheckedParts ==
  ASSUME DiskInv, ~parts_ready
  PROVE  FoldLeft(LAMBDA all, disk : all \o PartsOn(disk), disks, disks) \in Seq(HalDevice)
<1>1. disks \in Seq(HalDevice) BY DEF DiskInv
<1>2. \A i \in 1..Len(disks) : disks[i] \in HalDevice /\ disks[i].part = 0
  BY <1>1 DEF DiskInv
<1>3. \A i \in 1..Len(disks) : PartsOn(disks[i]) \in Seq(HalDevice) BY <1>2, PartsFacts
<1>4. ASSUME NEW all \in Seq(HalDevice), NEW i \in 1..Len(disks)
      PROVE  PartsStep(0, 0, all, disks[i]) \in Seq(HalDevice)
  BY <1>3 DEF PartsStep
<1>5. PartsLoop!Loop(0, 0, disks, disks) \in Seq(HalDevice)
  BY <1>1, <1>4, PartsLoop!FoldInvariant
<1>6. PartsLoop!Loop(0, 0, disks, disks)
        = FoldLeft(LAMBDA all, disk : all \o PartsOn(disk), disks, disks)
  BY Zenon DEF PartsLoop!Loop, PartsStep, PartsLoop!FoldLeft, FoldLeft,
               PartsLoop!MapThenFoldSet, MapThenFoldSet, PartsLoop!Max, Max
<1> QED BY <1>5, <1>6

-----------------------------------------------------------------------------
(* The invariant holds before the first slot is probed. *)
LEMMA DiskInitInv == DiskInit => DiskInv
<1> SUFFICES ASSUME DiskInit PROVE DiskInv OBVIOUS
<1>1. /\ drives \in Drives /\ ide_devices = [i \in Slot |-> NoDrive] /\ probed = 0 /\ found = 0
      /\ disks = <<>> /\ parts_ready = FALSE /\ transfer = <<>> /\ written = <<>>
  BY DEF DiskInit
<1>2. disks \in Seq(HalDevice) BY <1>1
<1>3. Range(written) = {} BY <1>1 DEF Range
<1>4. ide_devices \in [Slot -> Slot \cup {NoDrive}] /\ \A i \in Slot : ide_devices[i] = NoDrive
  BY <1>1
<1>5. DOMAIN disks = {} BY <1>1
<1>6. probed \in 0..4 /\ found \in 0..probed /\ found = probed BY <1>1
<1> QED BY <1>1, <1>2, <1>3, <1>4, <1>5, <1>6 DEF DiskInv

(* The devices that were found stay what they are as others are. *)
LEMMA DevicesKept ==
  ASSUME drives' = drives, \A i \in Slot : ide_devices[i] # NoDrive => ide_devices'[i] = ide_devices[i]
  PROVE  HalDevice \subseteq HalDevice'
<1> SUFFICES ASSUME NEW disk \in HalDevice PROVE disk \in HalDevice' OBVIOUS
<1>1. PICK slot : slot = ide_devices[disk.index] OBVIOUS
<1>2. /\ disk \in [index : Slot, part : Nat, rel : Nat] /\ slot # NoDrive
      /\ disk.part = 0 => disk.rel = 0
      /\ disk.part > 0 /\ Full(slot) =>
           disk.part \in DOMAIN PartTable[slot] /\ disk.rel = PartTable[slot][disk.part]
  BY <1>1 DEF HalDevice
<1>3. ide_devices'[disk.index] = slot BY <1>1, <1>2
<1>4. \A s : Full(s)' <=> Full(s) BY DEF Full
<1> QED BY <1>2, <1>3, <1>4 DEF HalDevice, Full

(* A step of ata_initialize_ide keeps the invariant. *)
LEMMA ProbeInv == ASSUME DiskInv, ProbeNext PROVE DiskInv'
<1>1. /\ probed \in Slot /\ probed' = probed + 1 /\ found' = CountAfter(drives[probed])
      /\ drives' = drives /\ parts_ready' = parts_ready /\ transfer' = transfer
      /\ written' = written
  BY DEF ProbeNext
<1>2. /\ drives \in Drives /\ found \in 0..probed /\ (Full(probed) => found = probed)
      /\ ide_devices \in [Slot -> Slot \cup {NoDrive}]
      /\ \A i \in Slot : ide_devices[i] # NoDrive => Placed(i)
      /\ disks \in Seq(HalDevice) /\ ~parts_ready /\ transfer = <<>> /\ written = <<>>
      /\ \A i \in DOMAIN disks : disks[i].part = 0
  BY <1>1 DEF DiskInv, Slot
<1>3. probed \in 0..3 /\ probed + 1 \in 0..4 /\ found \in Slot BY <1>1, <1>2 DEF Slot
<1>4. \A s : Full(s)' <=> Full(s) BY <1>1 DEF Full
<1>5. Full(probed + 1) <=> Full(probed) /\ drives[probed] # "none"
  <2>1. 0..((probed + 1) - 1) = 0..(probed - 1) \cup {probed} BY <1>3
  <2> QED BY <2>1 DEF Full
<1>6. found' \in 0..(probed + 1) /\ found' >= found BY <1>1, <1>2, <1>3 DEF CountAfter
<1>7. Full(probed + 1) => found' = probed + 1 BY <1>1, <1>2, <1>5 DEF CountAfter
<1>8. ide_devices[found] = NoDrive
  <2>1. ~Placed(found) BY <1>3 DEF Placed, Slot
  <2> QED BY <1>2, <1>3, <2>1
<1>9. CASE drives[probed] = "ata"
  <2>1. /\ ide_devices' = [ide_devices EXCEPT ![found] = probed]
        /\ disks' = Append(disks, Disk(found, 0, 0))
    BY <1>9 DEF ProbeNext
  <2>2. /\ ide_devices' \in [Slot -> Slot \cup {NoDrive}] /\ ide_devices'[found] = probed
        /\ \A i \in Slot : i # found => ide_devices'[i] = ide_devices[i]
    BY <1>1, <1>2, <1>3, <2>1
  <2>3. HalDevice \subseteq HalDevice' BY <1>1, <1>8, <2>2, DevicesKept
  <2>4. Disk(found, 0, 0) \in HalDevice'
    <3>1. probed # NoDrive BY <1>1, DiskAssumption
    <3>2. PICK d : d = Disk(found, 0, 0) OBVIOUS
    <3>3. d \in [index : Slot, part : Nat, rel : Nat] /\ d.index = found /\ d.part = 0 /\ d.rel = 0
      BY <1>3, <3>2 DEF Disk
    <3> QED BY <2>2, <3>1, <3>2, <3>3 DEF HalDevice
  <2>5. disks' \in Seq(HalDevice') /\ \A i \in DOMAIN disks' : disks'[i].part = 0
    <3>1. disks \in Seq(HalDevice') BY <1>2, <2>3
    <3>2. disks' \in Seq(HalDevice') BY <2>1, <2>4, <3>1
    <3>3. Disk(found, 0, 0).part = 0 BY DEF Disk
    <3> QED BY <1>2, <2>1, <2>4, <3>1, <3>2, <3>3
  <2>6. found' = found + 1 BY <1>1, <1>9 DEF CountAfter
  <2>7. ASSUME NEW i \in Slot, ide_devices'[i] # NoDrive PROVE Placed(i)'
    <3>1. CASE i = found
      <4>1. probed \in 0..(probed' - 1) /\ i < found' BY <1>1, <1>2, <1>3, <2>6, <3>1
      <4>2. Full(probed) => i = probed BY <1>2, <3>1
      <4> QED BY <1>4, <2>2, <3>1, <4>1, <4>2 DEF Placed
    <3>2. CASE i # found
      <4>1. PICK slot : slot = ide_devices[i] OBVIOUS
      <4>2. slot \in 0..(probed - 1) /\ i < found /\ (Full(slot) => i = slot)
        BY <1>2, <2>2, <2>7, <3>2, <4>1 DEF Placed
      <4>3. ide_devices'[i] = slot BY <2>2, <3>2, <4>1
      <4>4. slot \in 0..(probed' - 1) /\ i < found' BY <1>1, <1>2, <1>3, <2>6, <4>2 DEF Slot
      <4> QED BY <1>4, <4>2, <4>3, <4>4 DEF Placed
    <3> QED BY <3>1, <3>2
  <2> QED BY <1>1, <1>2, <1>3, <1>4, <1>6, <1>7, <2>2, <2>5, <2>7 DEF DiskInv
<1>10. CASE drives[probed] # "ata"
  <2>1. ide_devices' = ide_devices /\ disks' = disks BY <1>10 DEF ProbeNext
  <2>2. HalDevice \subseteq HalDevice' BY <1>1, <2>1, DevicesKept
  <2>3. disks' \in Seq(HalDevice') BY <1>2, <2>1, <2>2
  <2>4. ASSUME NEW i \in Slot, ide_devices'[i] # NoDrive PROVE Placed(i)'
    <3>1. PICK slot : slot = ide_devices[i] OBVIOUS
    <3>2. slot \in 0..(probed - 1) /\ i < found /\ (Full(slot) => i = slot)
      BY <1>2, <2>1, <2>4, <3>1 DEF Placed
    <3>3. slot \in 0..(probed' - 1) /\ i < found' BY <1>1, <1>2, <1>3, <1>6, <3>2 DEF Slot
    <3> QED BY <1>4, <2>1, <3>1, <3>2, <3>3 DEF Placed
  <2> QED BY <1>1, <1>2, <1>3, <1>4, <1>6, <1>7, <2>1, <2>3, <2>4 DEF DiskInv
<1> QED BY <1>9, <1>10

(* After boot nothing changes but what the latest transfer did. *)
LEMMA DiskNextInv == ASSUME DiskInv, [DiskNext]_diskVars PROVE DiskInv'
<1>1. ASSUME ide_devices' = ide_devices, drives' = drives, probed' = probed, found' = found
      PROVE  /\ HalDevice' = HalDevice /\ (\A s : Full(s)' <=> Full(s))
             /\ \A i : Placed(i)' <=> Placed(i)
  BY <1>1 DEF HalDevice, Full, Placed
<1>2. CASE CheckForParts
  <2>1. /\ probed = 4 /\ ~parts_ready /\ parts_ready' = TRUE
        /\ disks' = FoldLeft(LAMBDA all, disk : all \o PartsOn(disk), disks, disks)
        /\ drives' = drives /\ ide_devices' = ide_devices /\ probed' = probed /\ found' = found
        /\ transfer' = transfer /\ written' = written
    BY <1>2 DEF CheckForParts
  <2>2. disks' \in Seq(HalDevice) BY <2>1, CheckedParts
  <2>3. transfer' = <<>> /\ \A w \in Range(written') : w[2] < Sectors[w[1]] BY <2>1 DEF DiskInv
  <2>4. HalDevice' = HalDevice /\ (\A s : Full(s)' <=> Full(s)) /\ \A i : Placed(i)' <=> Placed(i)
    BY <1>1, <2>1
  <2> QED BY <2>1, <2>2, <2>3, <2>4 DEF DiskInv
<1>3. ASSUME NEW disk \in Range(disks), NEW count \in SectCount, NEW offset \in SectOffset,
             DiskRead(disk, count, offset) \/ DiskWrite(disk, count, offset)
      PROVE  DiskInv'
  <2>1. /\ parts_ready /\ parts_ready' = parts_ready /\ drives' = drives
        /\ ide_devices' = ide_devices /\ probed' = probed /\ found' = found /\ disks' = disks
    BY <1>3 DEF DiskRead, DiskWrite
  <2>2. HalDevice' = HalDevice /\ (\A s : Full(s)' <=> Full(s)) /\ \A i : Placed(i)' <=> Placed(i)
    BY <1>1, <2>1
  <2>3. disk \in HalDevice
    <3>1. disks \in Seq(HalDevice) BY DEF DiskInv
    <3> QED BY <3>1 DEF Range
  <2>4. count \in Nat /\ offset \in Nat BY DiskAssumption
  <2>5. CASE DiskRead(disk, count, offset)
    <3>1. transfer' = <<disk, count, offset, HalRead(disk, count, offset)>> /\ written' = <<>>
      BY <2>5 DEF DiskRead
    <3>2. HalRead(disk, count, offset)' = HalRead(disk, count, offset)
      BY <2>1 DEF HalRead, Access
    <3>3. \E d \in HalDevice, c \in SectCount, o \in SectOffset :
            transfer' = <<d, c, o, HalRead(d, c, o)'>>
      BY <2>3, <3>1, <3>2
    <3>4. \A d, c, o : HalRead(d, c, o)' = HalRead(d, c, o) BY <2>1 DEF HalRead, Access
    <3>5. Range(written') = {} BY <3>1 DEF Range
    <3> QED BY <2>1, <2>2, <3>3, <3>5 DEF DiskInv
  <2>6. CASE DiskWrite(disk, count, offset)
    <3>1. written' = HalWrite(disk, count, offset) /\ transfer' = <<>> BY <2>6 DEF DiskWrite
    <3>2. PICK slot, lba : slot = ide_devices[disk.index] % 2 /\ lba = disk.rel + offset OBVIOUS
    <3>3. ide_devices[disk.index] \in Slot /\ disk.rel \in Nat BY <2>3, OwnSlot
    <3>4. slot \in Slot /\ lba \in Nat BY <2>4, <3>2, <3>3 DEF Slot
    <3>5. ide_devices \in [Slot -> Slot \cup {NoDrive}] BY DEF DiskInv
    <3>6. written' = Access(slot, count, lba) BY <3>1, <3>2 DEF HalWrite
    <3>7. Transfers(written', ide_devices[slot], count, lba)
      BY <2>4, <3>4, <3>5, <3>6, AccessFacts
    <3>8. \A w \in Range(written') : w[2] < Sectors[w[1]] BY <3>7 DEF Transfers, Range
    <3> QED BY <2>1, <2>2, <3>1, <3>8 DEF DiskInv
  <2> QED BY <1>3, <2>5, <2>6
<1>4. CASE DiskStopped \/ UNCHANGED diskVars
  <2>1. UNCHANGED diskVars BY <1>4 DEF DiskStopped
  <2>2. HalDevice' = HalDevice /\ (\A s : Full(s)' <=> Full(s)) /\ \A i : Placed(i)' <=> Placed(i)
    BY <1>1, <2>1 DEF diskVars
  <2>3. \A d, c, o : HalRead(d, c, o)' = HalRead(d, c, o) BY <2>1 DEF HalRead, Access, diskVars
  <2> QED BY <2>1, <2>2, <2>3 DEF DiskInv, diskVars
<1> QED BY <1>2, <1>3, <1>4, ProbeInv DEF DiskNext

(* Every way the slots are filled, and every read and write. *)
THEOREM DiskInvariant == DiskSpec => []DiskInv
BY DiskInitInv, DiskNextInv, PTL DEF DiskSpec

(* A disk without an empty slot before it is read right, and no transfer   *)
(* goes past the end of a drive.                                           *)
THEOREM DiskAlwaysReadRight == DiskSpec => []DiskReadRight
<1>1. DiskInv => DiskReadRight
  <2> SUFFICES ASSUME DiskInv PROVE DiskReadRight OBVIOUS
  <2>1. ASSUME NEW disk \in Range(disks), disk.part > 0, Full(ide_devices[disk.index])
        PROVE  disk.rel = PartTable[ide_devices[disk.index]][disk.part]
    <3>1. disk \in HalDevice BY DEF DiskInv, Range
    <3> QED BY <2>1, <3>1 DEF HalDevice
  <2>2. ASSUME transfer # <<>>
        PROVE  LET disk == transfer[1]
                   count == transfer[2]
                   start == disk.rel + transfer[3]
                   sectors == transfer[4]
               IN  /\ \A i \in DOMAIN sectors : sectors[i][2] < Sectors[sectors[i][1]]
                   /\ Full(ide_devices[disk.index]) /\ (start < LowWrap \/ start > ExtAbove) =>
                        /\ \A i \in DOMAIN sectors :
                             sectors[i] = <<ide_devices[disk.index], start + i - 1>>
                        /\ count < CountWrap /\ start + count <= Sectors[ide_devices[disk.index]]
                             => Len(sectors) = count
    <3>1. PICK disk \in HalDevice, count \in SectCount, offset \in SectOffset :
            transfer = <<disk, count, offset, HalRead(disk, count, offset)>>
      BY <2>2 DEF DiskInv
    <3>2. PICK slot, sectors : slot = ide_devices[disk.index] /\ sectors = HalRead(disk, count, offset)
      OBVIOUS
    <3>3. /\ transfer[1] = disk /\ transfer[2] = count /\ transfer[3] = offset
          /\ transfer[4] = sectors
      BY <3>1, <3>2
    <3>4. count \in Nat /\ offset \in Nat BY DiskAssumption
    <3>5. /\ \A i \in DOMAIN sectors : sectors[i][2] < Sectors[sectors[i][1]]
          /\ Full(slot) => Transfers(sectors, slot, disk.rel + offset, count)
      BY <3>2, <3>4, ReadFacts
    <3>6. slot # NoDrive BY <3>2 DEF HalDevice
    <3> QED BY <3>2, <3>3, <3>5, <3>6 DEF Transfers
  <2>3. \A w \in Range(written) : w[2] < Sectors[w[1]] BY DEF DiskInv
  <2> QED BY <2>1, <2>2, <2>3 DEF DiskReadRight, Full
<1> QED BY <1>1, DiskInvariant, PTL

-----------------------------------------------------------------------------
(* From one header to the next: init_initrd goes as far as the archive,    *)
(* but for a file that has a single byte in its last block.                *)
LEMMA AdvanceRight ==
  ASSUME NEW at \in Nat, NEW size \in Nat, size % Block # 1
  PROVE  Advance(at, size) = at + 1 + ((size + Block - 1) \div Block)
<1>1. Block \in Nat \ {0} BY LoaderAssumption
<1>2. PICK q \in Nat, r \in 0..(Block - 1) : q = size \div Block /\ r = size % Block BY <1>1
<1>3. size = Block * q + r BY <1>1, <1>2
<1>4. PICK u \in Nat : u = Block * q BY <1>1
<1>5. CASE r = 0
  <2>1. size + Block - 1 = Block * q + (Block - 1) BY <1>1, <1>3, <1>4, <1>5
  <2>2. Block - 1 \in Nat /\ Block - 1 < Block BY <1>1
  <2>3. (size + Block - 1) \div Block = q BY <1>1, <2>1, <2>2, DivUnique
  <2> QED BY <1>2, <1>5, <2>3 DEF Advance
<1>6. CASE r > 0
  <2>1. Block * (q + 1) = Block * q + Block BY <1>1
  <2>2. size + Block - 1 = Block * (q + 1) + (r - 1) BY <1>1, <1>3, <1>4, <1>6, <2>1
  <2>3. PICK p \in Nat, s \in Nat : p = q + 1 /\ s = r - 1 /\ s < Block BY <1>1, <1>6
  <2>4. PICK x : x = size + Block - 1 OBVIOUS
  <2>7. x = Block * p + s BY <2>2, <2>3, <2>4
  <2>8. x \div Block = p BY <1>1, <2>3, <2>7, DivUnique
  <2>5. r > 1 BY <1>2, <1>6
  <2>6. Advance(at, size) = at + q + 1 + 1 BY <1>2, <2>5 DEF Advance
  <2> QED BY <2>3, <2>4, <2>6, <2>8
<1> QED BY <1>5, <1>6

(* The header of each file, counted from the first one on *)
Blocks(size) == (size + Block - 1) \div Block
AtStep(c, d, at, f) == at + 1 + Blocks(f.size)
AtLoop == INSTANCE FoldTheorems WITH op <- AtStep

Files(files) == files \in Seq(Range(files)) /\ \A i \in DOMAIN files : files[i].size \in Nat

(* A file's header is behind the file before it. *)
LEMMA HeadersFollow ==
  ASSUME NEW files, Files(files)
  PROVE  \E G : /\ G[0] = 0
                /\ \A i \in 1..Len(files) :
                     /\ HeaderAt(files, i) = G[i - 1] /\ G[i - 1] \in Nat
                     /\ G[i] = G[i - 1] + 1 + Blocks(files[i].size)
<1>1. files \in Seq(Range(files)) BY DEF Files
<1>2. PICK n \in Nat : n = Len(files) BY <1>1
<1>3. PICK G : AtLoop!Runs(G, 0, 0, 0, files) BY <1>1, AtLoop!FoldRun
<1>4. G[0] = 0 /\ \A k \in 0..(n - 1) : G[k + 1] = G[k] + 1 + Blocks(files[k + 1].size)
  BY <1>2, <1>3, Zenon DEF AtLoop!Runs, AtStep
<1>5. \A i \in 1..n : files[i].size \in Nat /\ Blocks(files[i].size) \in Nat
  <2>1. \A i \in 1..n : files[i].size \in Nat BY <1>1, <1>2 DEF Files
  <2>2. Block \in Nat \ {0} BY LoaderAssumption
  <2>3. \A size \in Nat : (size + Block - 1) \div Block \in Nat
    <3>1. ASSUME NEW size \in Nat PROVE size + Block - 1 \in Nat BY <2>2
    <3> QED BY <2>2, <3>1
  <2> QED BY <2>1, <2>3 DEF Blocks
<1>6. \A k \in Nat : k <= n => G[k] \in Nat
  <2> DEFINE S == {k \in Nat : k <= n => G[k] \in Nat}
  <2>1. 0 \in S BY <1>4
  <2>2. ASSUME NEW k \in Nat, k \in S PROVE k + 1 \in S
    <3> SUFFICES ASSUME k + 1 <= n PROVE G[k + 1] \in Nat OBVIOUS
    <3>1. k \in 0..(n - 1) /\ k + 1 \in 1..n /\ G[k] \in Nat BY <2>2
    <3> QED BY <1>4, <1>5, <3>1
  <2>3. Nat \subseteq S
    <3> HIDE DEF S
    <3> QED BY <2>1, <2>2, AtLoop!SetInduction
  <2> QED BY <2>3
<1>7. ASSUME NEW i \in 1..n PROVE HeaderAt(files, i) = G[i - 1]
  <2>1. PICK first : first = SubSeq(files, 1, i - 1) OBVIOUS
  <2>2. /\ first \in Seq(Range(files)) /\ Len(first) = i - 1 /\ i - 1 \in Nat
        /\ \A k \in 1..(i - 1) : first[k] = files[k]
    BY <1>1, <1>2, <2>1
  <2>3. PICK H : AtLoop!Runs(H, 0, 0, 0, first) BY <2>2, AtLoop!FoldRun
  <2>4. /\ H[0] = 0 /\ H[i - 1] = AtLoop!Loop(0, 0, 0, first)
        /\ \A k \in 0..((i - 1) - 1) : H[k + 1] = H[k] + 1 + Blocks(first[k + 1].size)
    BY <2>2, <2>3, Zenon DEF AtLoop!Runs, AtStep
  <2>5. AtLoop!Loop(0, 0, 0, first) = HeaderAt(files, i)
    <3>1. AtLoop!Loop(0, 0, 0, SubSeq(files, 1, i - 1)) = HeaderAt(files, i)
      BY Zenon DEF AtLoop!Loop, AtStep, Blocks, HeaderAt, AtLoop!FoldLeft, FoldLeft,
                   AtLoop!MapThenFoldSet, MapThenFoldSet, AtLoop!Max, Max
    <3> QED BY <2>1, <3>1, Zenon
  <2> DEFINE S == {k \in Nat : k <= i - 1 => H[k] = G[k]}
  <2>6. 0 \in S BY <1>4, <2>4
  <2>7. ASSUME NEW k \in Nat, k \in S PROVE k + 1 \in S
    <3> SUFFICES ASSUME k + 1 <= i - 1 PROVE H[k + 1] = G[k + 1] OBVIOUS
    <3>1. k \in 0..((i - 1) - 1) /\ k \in 0..(n - 1) /\ k + 1 \in 1..(i - 1) /\ H[k] = G[k]
      BY <1>2, <2>2, <2>7
    <3> QED BY <1>4, <2>2, <2>4, <3>1
  <2>8. Nat \subseteq S
    <3> HIDE DEF S
    <3> QED BY <2>6, <2>7, AtLoop!SetInduction
  <2>9. i - 1 \in S /\ i - 1 <= i - 1 BY <2>2, <2>8
  <2> QED BY <2>4, <2>5, <2>9
<1>8. ASSUME NEW i \in 1..n PROVE G[i] = G[i - 1] + 1 + Blocks(files[i].size) /\ G[i - 1] \in Nat
  <2>1. PICK k \in 0..(n - 1) : k = i - 1 /\ i = k + 1 /\ k <= n BY <1>2
  <2> QED BY <1>4, <1>6, <2>1
<1> QED BY <1>2, <1>4, <1>7, <1>8

(* init_initrd, one file after the other *)
WalkStep(c, d, s, i) ==
  IF s.at # HeaderAt(c, i) THEN s
  ELSE [at |-> Advance(s.at, c[i].size), found |-> Append(s.found, c[i].name)]
WalkLoop == INSTANCE FoldTheorems WITH op <- WalkStep

(* No file before this one has a single byte in its last block. *)
Clean(files, i) == \A j \in 1..(i - 1) : files[j].size % Block # 1

(* As long as all are clean, the walk is at the next header. *)
LEMMA WalkFinds ==
  ASSUME NEW files, Files(files), NEW i \in DOMAIN files, Clean(files, i)
  PROVE  files[i].name \in Range(InitInitrd(files))
<1>1. files \in Seq(Range(files)) /\ Block \in Nat \ {0} BY LoaderAssumption DEF Files
<1>2. PICK n \in Nat : n = Len(files) /\ DOMAIN files = 1..n BY <1>1
<1>3. PICK G : /\ G[0] = 0
               /\ \A k \in 1..n : /\ HeaderAt(files, k) = G[k - 1] /\ G[k - 1] \in Nat
                                  /\ G[k] = G[k - 1] + 1 + Blocks(files[k].size)
  BY <1>2, HeadersFollow
<1>4. PICK index : index = [k \in 1..Len(files) |-> k] OBVIOUS
<1>5. index \in Seq(1..n) /\ Len(index) = n /\ \A k \in 1..n : index[k] = k BY <1>2, <1>4
<1> DEFINE start == [at |-> 0, found |-> <<>>]
           Name == {files[k].name : k \in 1..n}
<1>6. PICK F : WalkLoop!Runs(F, files, 0, start, index) BY <1>5, WalkLoop!FoldRun
<1>7. WalkLoop!Loop(files, 0, start, index).found = InitInitrd(files)
  <2>1. WalkLoop!Loop(files, 0, start, [k \in 1..Len(files) |-> k]).found = InitInitrd(files)
    BY Zenon DEF WalkLoop!Loop, WalkStep, InitInitrd, WalkLoop!FoldLeft, FoldLeft,
                 WalkLoop!MapThenFoldSet, MapThenFoldSet, WalkLoop!Max, Max
  <2> QED BY <1>4, <2>1, Zenon
<1>8. F[0] = start /\ F[n] = WalkLoop!Loop(files, 0, start, index)
      /\ \A k \in 0..(n - 1) : F[k + 1] = WalkStep(files, 0, F[k], index[k + 1])
  BY <1>5, <1>6, Zenon DEF WalkLoop!Runs
<1>9. \A k \in 1..n : files[k].size \in Nat BY <1>2 DEF Files
<1> DEFINE Ok(k) ==
             /\ F[k] \in [at : Nat, found : Seq(Name)]
             /\ \A j \in 1..k : Clean(files, j) => files[j].name \in Range(F[k].found)
             /\ k < n /\ Clean(files, k + 1) => F[k].at = G[k]
           S == {k \in Nat : k <= n => Ok(k)}
<1>10. 0 \in S
  <2>1. start \in [at : Nat, found : Seq(Name)] /\ start.at = 0 OBVIOUS
  <2> HIDE DEF start, Name
  <2> QED BY <1>3, <1>8, <2>1
<1>11. ASSUME NEW k \in Nat, k \in S PROVE k + 1 \in S
  <2> SUFFICES ASSUME k + 1 <= n PROVE Ok(k + 1) OBVIOUS
  <2>1. PICK s, r : s = F[k] /\ r = F[k + 1] OBVIOUS
  <2>2. PICK m \in 1..n : m = k + 1 /\ k \in 0..(n - 1) /\ m - 1 = k OBVIOUS
  <2>12. files[m].size \in Nat /\ files[m].name \in Name BY <1>9
  <2>13. PICK at, got : at = s.at /\ got = s.found OBVIOUS
  <2>14. PICK size, name : size = files[m].size /\ name = files[m].name OBVIOUS
  <2>3. /\ at = s.at /\ got = s.found /\ size = files[m].size /\ name = files[m].name
        /\ size \in Nat /\ name \in Name
    <3> HIDE DEF Name
    <3> QED BY <2>12, <2>13, <2>14
  <2>4. /\ s \in [at : Nat, found : Seq(Name)] /\ at \in Nat /\ got \in Seq(Name)
        /\ \A j \in 1..k : Clean(files, j) => files[j].name \in Range(got)
        /\ Clean(files, m) => at = G[k]
    <3>1. Ok(k) BY <1>11
    <3> HIDE DEF Name
    <3> QED BY <2>1, <2>2, <2>3, <3>1
  <2>5. HeaderAt(files, m) = G[k] /\ G[k] \in Nat /\ G[m] = G[k] + 1 + Blocks(size)
    BY <1>3, <2>2, <2>3
  <2>6. r = IF at # G[k] THEN s ELSE [at |-> Advance(at, size), found |-> Append(got, name)]
    <3>1. r = WalkStep(files, 0, s, m) BY <1>5, <1>8, <2>1, <2>2
    <3> QED BY <2>3, <2>5, <3>1 DEF WalkStep
  <2>7. Clean(files, m + 1) => Clean(files, m) /\ size % Block # 1
    <3>1. m \in 1..((m + 1) - 1) /\ 1..(m - 1) \subseteq 1..((m + 1) - 1) BY <2>2
    <3> QED BY <2>3, <3>1 DEF Clean
  <2>8. CASE at # G[k]
    <3>1. r = s /\ ~Clean(files, m) BY <2>4, <2>6, <2>8
    <3>2. \A j \in 1..(k + 1) : Clean(files, j) => files[j].name \in Range(got)
      BY <2>2, <2>4, <3>1
    <3> HIDE DEF Name
    <3> QED BY <2>1, <2>2, <2>3, <2>4, <2>7, <3>1, <3>2
  <2>9. CASE at = G[k]
    <3>1. PICK nat, ngot : nat = Advance(at, size) /\ ngot = Append(got, name) OBVIOUS
    <3>2. nat \in Nat
      <4>1. size \in Nat BY <2>3
      <4>2. size \div Block \in Nat BY <1>1, <4>1
      <4> QED BY <2>4, <3>1, <4>2 DEF Advance
    <3>3. /\ ngot \in Seq(Name) /\ name \in Range(ngot)
          /\ \A x \in Range(got) : x \in Range(ngot)
      <4> HIDE DEF Name
      <4>1. ngot \in Seq(Name) /\ Len(ngot) = Len(got) + 1 /\ ngot[Len(got) + 1] = name
            /\ \A j \in 1..Len(got) : ngot[j] = got[j]
        BY <2>3, <2>4, <3>1
      <4>2. Len(got) \in Nat /\ DOMAIN got = 1..Len(got) /\ DOMAIN ngot = 1..(Len(got) + 1)
        BY <2>4, <4>1
      <4> QED BY <4>1, <4>2 DEF Range
    <3>4. r \in [at : Nat, found : Seq(Name)] /\ r.at = nat /\ r.found = ngot
      <4> HIDE DEF Name
      <4> QED BY <2>6, <2>9, <3>1, <3>2, <3>3
    <3>5. ASSUME NEW j \in 1..(k + 1), Clean(files, j) PROVE files[j].name \in Range(ngot)
      <4>1. CASE j = m BY <2>3, <3>3, <4>1
      <4>2. CASE j # m
        <5>1. j \in 1..k BY <2>2, <4>2
        <5> QED BY <2>4, <3>3, <3>5, <5>1
      <4> QED BY <4>1, <4>2
    <3>6. Clean(files, m + 1) => nat = G[m]
      BY <2>3, <2>4, <2>5, <2>7, <2>9, <3>1, AdvanceRight DEF Blocks
    <3> HIDE DEF Name
    <3> QED BY <2>1, <2>2, <3>4, <3>5, <3>6
  <2> QED BY <2>8, <2>9
<1>12. Nat \subseteq S
  <2> HIDE DEF S
  <2> QED BY <1>10, <1>11, WalkLoop!SetInduction
<1>13. n \in S
  <2> HIDE DEF S
  <2> QED BY <1>12
<1>14. files[i].name \in Range(F[n].found)
  <2>1. Ok(n)
    <3> HIDE DEF Ok
    <3> QED BY <1>13
  <2> QED BY <1>2, <2>1
<1> QED BY <1>7, <1>8, <1>14

-----------------------------------------------------------------------------
(* Loader.  The modules of a list: what they depend on was there before    *)
(* them and is what the object asks for, links are the other way round,    *)
(* and caches hold symbols of the module itself.                           *)
Module == [name : DOMAIN Object, address : Nat, depends : Seq(Nat), links : Seq(Nat),
           symcache : SUBSET (Nat \X (DOMAIN Hash)),
           resolved : SUBSET ((DOMAIN Hash) \X SUBSET (Nat \X (DOMAIN Hash)))]

Depends(list, mod, before) ==
  /\ Len(mod.depends) = Len(ObjectOf(mod).depends)
  /\ \A k \in DOMAIN mod.depends :
       mod.depends[k] \in before /\ list[mod.depends[k]].name = ObjectOf(mod).depends[k]

CachesOwn(mod) == \A c \in mod.symcache : \E name \in ObjectOf(mod).symbols : c = SymbolAddress(mod, name)

Alone(name) == \A other \in DOMAIN Hash : Hash[other] = Hash[name] => other = name

(* The address of a symbol is that of the first place that defines it. *)
Found(list, mod, name, address) ==
  IF name \in ObjectOf(mod).symbols THEN address = {SymbolAddress(mod, name)}
  ELSE \E k \in DOMAIN mod.depends :
         /\ name \in ObjectOf(list[mod.depends[k]]).symbols
         /\ \A l \in 1..(k - 1) : name \notin ObjectOf(list[mod.depends[l]]).symbols
         /\ address = {SymbolAddress(list[mod.depends[k]], name)}

Resolved(list, mod) == \A r \in mod.resolved : Alone(r[1]) => Found(list, mod, r[1], r[2])

ListOk(list) ==
  /\ list \in Seq(Module)
  /\ \A i \in DOMAIN list : /\ Depends(list, list[i], 1..(i - 1))
                            /\ CachesOwn(list[i]) /\ Resolved(list, list[i])
  /\ \A i \in DOMAIN list : Range(list[i].links) \subseteq DOMAIN list
  /\ \A i, j \in DOMAIN list : j \in Range(list[i].links) <=> i \in Range(list[j].depends)

AreasOk ==
  /\ mod_address \in Nat /\ mod_address % ModPage = 0
  /\ \A a \in areas : \A page \in a.area : page \in Int /\ page < mod_address \div ModPage
  /\ \A a, b \in areas : a # b => a.area \cap b.area = {}

LoaderInv ==
  /\ archive \in Archive /\ modtab \in Modtab /\ next \in Nat
  /\ next > 0 => headers = InitInitrd(archive)
  /\ ListOk(mod_list) /\ AreasOk

(* The module as its cache fills *)
Like(m, w) ==
  /\ w \in Module /\ w.name = m.name /\ w.address = m.address /\ w.depends = m.depends
  /\ w.links = m.links /\ w.resolved = m.resolved /\ CachesOwn(w)

(* Naturals have a least one. *)
LEMMA LeastOf ==
  ASSUME NEW T, T \subseteq Nat, T # {}
  PROVE  \E f \in T : \A g \in T : f <= g
<1> DEFINE R == {p \in Nat \X Nat : p[1] < p[2]}
<1>1. IsWellFoundedOn(R, Nat) BY NatLessThanWellFounded DEF OpToRel
<1>2. PICK f \in T : \A g \in T : ~(<<g, f>> \in R)
  <2> HIDE DEF R
  <2> QED BY <1>1, WFMin
<1>3. ASSUME NEW g \in T PROVE f <= g
  <2>1. g \in Nat /\ f \in Nat /\ <<g, f>> \in Nat \X Nat OBVIOUS
  <2>2. ~(<<g, f>>[1] < <<g, f>>[2]) BY <1>2, <2>1
  <2> QED BY <2>1, <2>2
<1> QED BY <1>3

(* Min of the community modules is that one. *)
LEMMA MinIsLeast ==
  ASSUME NEW T, T \subseteq Nat, T # {}
  PROVE  Min(T) \in T /\ \A g \in T : Min(T) <= g
<1>1. \E f \in T : \A g \in T : f <= g BY LeastOf
<1> QED BY <1>1, Zenon DEF Min

(* What get_real_symbol_address answers: symbols of the module, and the    *)
(* one asked for if no other name has its hash.                            *)
LEMMA RealFacts ==
  ASSUME NEW mod \in Module, CachesOwn(mod), NEW name \in DOMAIN Hash
  PROVE  LET real == RealSymbolAddress(mod, name)
         IN  /\ real \subseteq Nat \X (DOMAIN Hash)
             /\ \A c \in real : \E n \in ObjectOf(mod).symbols : c = SymbolAddress(mod, n)
             /\ name \in ObjectOf(mod).symbols => real # {}
             /\ Alone(name) /\ real # {} =>
                  name \in ObjectOf(mod).symbols /\ real = {SymbolAddress(mod, name)}
<1>1. mod.name \in DOMAIN Object /\ mod.address \in Nat /\ mod.symcache \subseteq Nat \X (DOMAIN Hash)
  BY DEF Module
<1>2. PICK symbols : symbols = ObjectOf(mod).symbols OBVIOUS
<1>3. symbols \subseteq DOMAIN Hash BY <1>1, <1>2, LoaderAssumption DEF ObjectOf, ObjectFile
<1>4. PICK real : real = RealSymbolAddress(mod, name) OBVIOUS
<1>5. \A c \in mod.symcache : \E n \in symbols : c = SymbolAddress(mod, n)
  BY <1>2 DEF CachesOwn
<1>6. \A n : SymbolAddress(mod, n)[2] = n /\ (n \in DOMAIN Hash => SymbolAddress(mod, n) \in Nat \X (DOMAIN Hash))
  BY <1>1 DEF SymbolAddress
<1>7. CASE Cached(mod, name) # {}
  <2>1. real = {c \in mod.symcache : Hash[c[2]] = Hash[name]} BY <1>4, <1>7 DEF RealSymbolAddress, Cached
  <2>2. real # {} BY <1>4, <1>7 DEF RealSymbolAddress
  <2>3. ASSUME Alone(name), NEW c \in real PROVE c = SymbolAddress(mod, name) /\ name \in symbols
    <3>1. PICK n \in symbols : c = SymbolAddress(mod, n) BY <1>5, <2>1
    <3>2. Hash[n] = Hash[name] /\ n \in DOMAIN Hash BY <1>3, <1>6, <2>1, <3>1
    <3>3. n = name BY <2>3, <3>2 DEF Alone
    <3> QED BY <3>1, <3>3
  <2>4. Alone(name) => name \in symbols /\ real = {SymbolAddress(mod, name)} BY <2>2, <2>3
  <2> QED BY <1>1, <1>2, <1>4, <1>5, <2>1, <2>2, <2>4
<1>8. CASE Cached(mod, name) = {}
  <2>1. real = IF name \in symbols THEN {SymbolAddress(mod, name)} ELSE {}
    BY <1>2, <1>4, <1>8 DEF RealSymbolAddress
  <2> QED BY <1>2, <1>4, <1>6, <2>1
<1> QED BY <1>7, <1>8

(* A module after an answer went to its cache *)
LEMMA WithCachedFacts ==
  ASSUME NEW mod \in Module, CachesOwn(mod), NEW name \in DOMAIN Hash
  PROVE  Like(mod, WithCached(mod, name))
<1>1. PICK real, cache, w : /\ real = RealSymbolAddress(mod, name)
                            /\ cache = mod.symcache \cup real /\ w = WithCached(mod, name)
  OBVIOUS
<1>2. /\ real \subseteq Nat \X (DOMAIN Hash)
      /\ \A c \in real : \E n \in ObjectOf(mod).symbols : c = SymbolAddress(mod, n)
  BY <1>1, RealFacts
<1>3. w = [mod EXCEPT !.symcache = @ \cup real] BY <1>1 DEF WithCached
<1>4. /\ w.name = mod.name /\ w.address = mod.address /\ w.depends = mod.depends
      /\ w.links = mod.links /\ w.resolved = mod.resolved /\ w.symcache = cache
      /\ w \in [name : {mod.name}, address : {mod.address}, depends : {mod.depends},
                links : {mod.links}, symcache : {cache}, resolved : {mod.resolved}]
  BY <1>1, <1>3 DEF Module
<1>5. cache \subseteq Nat \X (DOMAIN Hash) BY <1>1, <1>2 DEF Module
<1>6. w \in Module BY <1>4, <1>5 DEF Module
<1>7. ObjectOf(w) = ObjectOf(mod) /\ \A n : SymbolAddress(w, n) = SymbolAddress(mod, n)
  BY <1>4 DEF ObjectOf, SymbolAddress
<1>8. CachesOwn(w) BY <1>1, <1>2, <1>4, <1>7 DEF CachesOwn
<1> QED BY <1>1, <1>4, <1>6, <1>8 DEF Like

(* While module m is linked: the modules of the list are as they were but  *)
(* for their caches, m is but for its cache and what is resolved, and that *)
(* is resolved right.                                                      *)
Linking(s, m, list) ==
  /\ s \in [mod : Module, mods : Seq(Module), ok : BOOLEAN]
  /\ s.mod.name = m.name /\ s.mod.address = m.address
  /\ s.mod.depends = m.depends /\ s.mod.links = m.links /\ CachesOwn(s.mod)
  /\ Len(s.mods) = Len(list) /\ \A i \in 1..Len(list) : Like(list[i], s.mods[i])
  /\ Resolved(list, s.mod)

(* One more symbol is resolved. *)
LEMMA ResolvedMore ==
  ASSUME NEW list, NEW m \in Module, NEW w \in Module, Resolved(list, m),
         w.name = m.name, w.address = m.address, w.depends = m.depends,
         NEW name, NEW address, w.resolved = m.resolved \cup {<<name, address>>},
         Alone(name) => Found(list, m, name, address)
  PROVE  Resolved(list, w)
<1>1. ObjectOf(w) = ObjectOf(m) /\ \A n : SymbolAddress(w, n) = SymbolAddress(m, n)
  BY DEF ObjectOf, SymbolAddress
<1>2. \A n, x : Found(list, w, n, x) <=> Found(list, m, n, x) BY <1>1 DEF Found
<1>3. ASSUME NEW r \in w.resolved, Alone(r[1]) PROVE Found(list, w, r[1], r[2])
  <2>1. CASE r \in m.resolved BY <1>2, <1>3, <2>1 DEF Resolved
  <2>2. CASE r = <<name, address>>
    <3>1. r[1] = name /\ r[2] = address BY <2>2
    <3> QED BY <1>2, <1>3, <3>1
  <2> QED BY <1>3, <2>1, <2>2
<1> QED BY <1>3 DEF Resolved

(* A module with one more symbol resolved *)
OneMore(m, w, name, address) ==
  /\ w \in Module /\ w.name = m.name /\ w.address = m.address /\ w.depends = m.depends
  /\ w.links = m.links /\ w.resolved = m.resolved \cup {<<name, address>>} /\ CachesOwn(w)

(* That is what its record becomes. *)
LEMMA WithResolved ==
  ASSUME NEW m \in Module, CachesOwn(m), NEW name \in DOMAIN Hash,
         NEW address, address \subseteq Nat \X (DOMAIN Hash)
  PROVE  OneMore(m, [m EXCEPT !.resolved = @ \cup {<<name, address>>}], name, address)
<1>1. PICK new, w : /\ new = m.resolved \cup {<<name, address>>}
                    /\ w = [m EXCEPT !.resolved = @ \cup {<<name, address>>}]
  OBVIOUS
<1>2. /\ w.name = m.name /\ w.address = m.address /\ w.depends = m.depends
      /\ w.links = m.links /\ w.resolved = new /\ w.symcache = m.symcache
      /\ w \in [name : {m.name}, address : {m.address}, depends : {m.depends},
                links : {m.links}, symcache : {m.symcache}, resolved : {new}]
  BY <1>1 DEF Module
<1>3. new \subseteq (DOMAIN Hash) \X SUBSET (Nat \X (DOMAIN Hash)) BY <1>1 DEF Module
<1>4. w \in Module BY <1>2, <1>3 DEF Module
<1>5. ObjectOf(w) = ObjectOf(m) /\ \A n : SymbolAddress(w, n) = SymbolAddress(m, n)
  BY <1>2 DEF ObjectOf, SymbolAddress
<1>6. CachesOwn(w) BY <1>2, <1>5 DEF CachesOwn
<1> QED BY <1>1, <1>2, <1>4, <1>6 DEF OneMore

(* module_link_symbol keeps all that. *)
LEMMA LinkSymbolFacts ==
  ASSUME NEW m, NEW list, NEW s, Linking(s, m, list), NEW name \in DOMAIN Hash,
         \A k \in DOMAIN m.depends : m.depends[k] \in 1..Len(list)
  PROVE  Linking(LinkSymbol(s, name), m, list)
<1>1. PICK mod, mods : mod = s.mod /\ mods = s.mods OBVIOUS
<1>2. /\ s \in [mod : Module, mods : Seq(Module), ok : BOOLEAN]
      /\ mod \in Module /\ mods \in Seq(Module) /\ s.ok \in BOOLEAN
      /\ mod.name = m.name /\ mod.address = m.address
      /\ mod.depends = m.depends /\ mod.links = m.links /\ CachesOwn(mod)
      /\ Len(mods) = Len(list) /\ (\A i \in 1..Len(list) : Like(list[i], mods[i]))
      /\ Resolved(list, mod)
  BY <1>1 DEF Linking
<1>3. PICK t : t = LinkSymbol(s, name) OBVIOUS
<1>4. PICK own, in, d, real : /\ own = RealSymbolAddress(mod, name)
                        /\ in = {k \in DOMAIN mod.depends :
                                   RealSymbolAddress(mods[mod.depends[k]], name) # {}}
                        /\ d = mod.depends[Min(in)] /\ real = RealSymbolAddress(mods[d], name)
  OBVIOUS
<1>5. /\ own # {} => t = [s EXCEPT !.mod = [WithCached(mod, name) EXCEPT
                                              !.resolved = @ \cup {<<name, own>>}]]
      /\ own = {} /\ in # {} =>
           t = [s EXCEPT !.mods[d] = WithCached(@, name),
                         !.mod.resolved = @ \cup {<<name, real>>}]
      /\ own = {} /\ in = {} => t = [s EXCEPT !.ok = FALSE]
  BY <1>1, <1>3, <1>4 DEF LinkSymbol
<1>6. mod.depends \in Seq(Nat) BY <1>2 DEF Module
<1>7. /\ own \subseteq Nat \X (DOMAIN Hash)
      /\ name \in ObjectOf(mod).symbols => own # {}
      /\ Alone(name) /\ own # {} =>
           name \in ObjectOf(mod).symbols /\ own = {SymbolAddress(mod, name)}
  BY <1>2, <1>4, RealFacts
<1>8. CASE own # {}
  <2>1. PICK w, v : /\ w = WithCached(mod, name)
                    /\ v = [w EXCEPT !.resolved = @ \cup {<<name, own>>}]
    OBVIOUS
  <2>2. Like(mod, w) BY <1>2, <2>1, WithCachedFacts
  <2>3. w \in Module /\ CachesOwn(w) BY <2>2 DEF Like
  <2>4. /\ v \in Module /\ v.name = w.name /\ v.address = w.address /\ v.depends = w.depends
        /\ v.links = w.links /\ v.resolved = w.resolved \cup {<<name, own>>} /\ CachesOwn(v)
    <3>1. OneMore(w, v, name, own) BY <1>7, <2>1, <2>3, WithResolved
    <3> QED BY <3>1 DEF OneMore
  <2>5. /\ v.name = mod.name /\ v.address = mod.address /\ v.depends = mod.depends
        /\ v.links = mod.links /\ v.resolved = mod.resolved \cup {<<name, own>>}
    BY <2>2, <2>4 DEF Like
  <2>6. Alone(name) => Found(list, mod, name, own) BY <1>7, <1>8 DEF Found
  <2>7. Resolved(list, v) BY <1>2, <2>4, <2>5, <2>6, ResolvedMore
  <2>8. t = [s EXCEPT !.mod = v] BY <1>5, <1>8, <2>1
  <2>9. t \in [mod : Module, mods : Seq(Module), ok : BOOLEAN] /\ t.mod = v /\ t.mods = mods
    BY <1>1, <1>2, <2>4, <2>8
  <2> QED BY <1>2, <1>3, <2>4, <2>5, <2>7, <2>9 DEF Linking
<1>9. CASE own = {} /\ in # {}
  <2>1. PICK k : k = Min(in) OBVIOUS
  <2>2. in \subseteq Nat /\ in \subseteq DOMAIN mod.depends BY <1>4, <1>6
  <2>3. k \in in /\ \A g \in in : k <= g BY <1>9, <2>1, <2>2, MinIsLeast
  <2>4. d = mod.depends[k] /\ d \in 1..Len(mods) /\ k \in DOMAIN mod.depends
    BY <1>2, <1>4, <2>1, <2>2, <2>3
  <2>5. mods[d] \in Module /\ CachesOwn(mods[d]) BY <1>2, <2>4 DEF Like
  <2>6. PICK w, nm : w = WithCached(mods[d], name) /\ nm = [mods EXCEPT ![d] = w] OBVIOUS
  <2>7. Like(mods[d], w) BY <2>5, <2>6, WithCachedFacts
  <2>8. /\ nm \in Seq(Module) /\ Len(nm) = Len(mods) /\ nm[d] = w
        /\ \A i \in 1..Len(mods) : i # d => nm[i] = mods[i]
    <3>1. w \in Module BY <2>7 DEF Like
    <3> QED BY <1>2, <2>4, <2>6, <3>1
  <2>9. ASSUME NEW i \in 1..Len(list) PROVE Like(list[i], nm[i])
    BY <1>2, <2>7, <2>8 DEF Like
  <2>10. /\ real \subseteq Nat \X (DOMAIN Hash) /\ real # {}
         /\ Alone(name) => name \in ObjectOf(mods[d]).symbols /\ real = {SymbolAddress(mods[d], name)}
    <3>1. real # {} BY <1>4, <2>3, <2>4
    <3> QED BY <1>4, <2>5, <3>1, RealFacts
  <2>11. ASSUME NEW l \in DOMAIN mod.depends
         PROVE  /\ mod.depends[l] \in 1..Len(list)
                /\ ObjectOf(list[mod.depends[l]]) = ObjectOf(mods[mod.depends[l]])
                /\ SymbolAddress(list[mod.depends[l]], name) = SymbolAddress(mods[mod.depends[l]], name)
                /\ l < k => name \notin ObjectOf(mods[mod.depends[l]]).symbols
    <3>1. PICK e : e = mod.depends[l] OBVIOUS
    <3>2. e \in 1..Len(list) BY <1>2, <3>1
    <3>3. Like(list[e], mods[e]) /\ mods[e] \in Module /\ CachesOwn(mods[e])
      BY <1>2, <3>2 DEF Like
    <3>4. ObjectOf(list[e]) = ObjectOf(mods[e]) /\ SymbolAddress(list[e], name) = SymbolAddress(mods[e], name)
      BY <3>3 DEF Like, ObjectOf, SymbolAddress
    <3>5. ASSUME l < k PROVE name \notin ObjectOf(mods[e]).symbols
      <4>1. l \notin in
        <5>1. l \in Nat /\ k \in Nat BY <1>6, <2>2, <2>3
        <5> QED BY <2>3, <3>5, <5>1
      <4>2. RealSymbolAddress(mods[e], name) = {} BY <1>4, <3>1, <4>1
      <4> QED BY <3>3, <4>2, RealFacts
    <3> QED BY <3>1, <3>2, <3>4, <3>5
  <2>12. ASSUME Alone(name) PROVE Found(list, mod, name, real)
    <3>1. name \notin ObjectOf(mod).symbols BY <1>7, <1>9
    <3>2. /\ name \in ObjectOf(list[mod.depends[k]]).symbols
          /\ real = {SymbolAddress(list[mod.depends[k]], name)}
      BY <2>4, <2>10, <2>11, <2>12
    <3>3. ASSUME NEW l \in 1..(k - 1) PROVE name \notin ObjectOf(list[mod.depends[l]]).symbols
      <4>1. l \in DOMAIN mod.depends /\ l < k
        <5>1. DOMAIN mod.depends = 1..Len(mod.depends) /\ Len(mod.depends) \in Nat BY <1>6
        <5> QED BY <2>4, <5>1
      <4> QED BY <2>11, <4>1
    <3> QED BY <2>4, <3>1, <3>2, <3>3 DEF Found
  <2>13. PICK v : v = [mod EXCEPT !.resolved = @ \cup {<<name, real>>}] OBVIOUS
  <2>14. /\ v \in Module /\ v.name = mod.name /\ v.address = mod.address /\ v.depends = mod.depends
         /\ v.links = mod.links /\ v.resolved = mod.resolved \cup {<<name, real>>} /\ CachesOwn(v)
    <3>1. OneMore(mod, v, name, real) BY <1>2, <2>10, <2>13, WithResolved
    <3> QED BY <3>1 DEF OneMore
  <2>15. Resolved(list, v) BY <1>2, <2>12, <2>14, ResolvedMore
  <2>16. t = [s EXCEPT !.mods = nm, !.mod = v]
    BY <1>1, <1>5, <1>9, <2>6, <2>13
  <2>17. t \in [mod : Module, mods : Seq(Module), ok : BOOLEAN] /\ t.mod = v /\ t.mods = nm
    BY <1>1, <1>2, <2>8, <2>14, <2>16
  <2> QED BY <1>2, <1>3, <2>8, <2>9, <2>14, <2>15, <2>17 DEF Linking
<1>10. CASE own = {} /\ in = {}
  <2>1. t = [s EXCEPT !.ok = FALSE] BY <1>5, <1>10
  <2>2. t \in [mod : Module, mods : Seq(Module), ok : BOOLEAN] /\ t.mod = mod /\ t.mods = mods
    BY <1>1, <1>2, <2>1
  <2> QED BY <1>2, <1>3, <2>2 DEF Linking
<1> QED BY <1>8, <1>9, <1>10

(* The loop over the relocations *)
LinkStep(c, d, s, name) == IF s.ok THEN LinkSymbol(s, name) ELSE s
LinkLoop == INSTANCE FoldTheorems WITH op <- LinkStep
Linked(s, relocations) ==
  FoldLeft(LAMBDA t, name : IF t.ok THEN LinkSymbol(t, name) ELSE t, s, relocations)

(* It stops at the first symbol that is missing. *)
LEMMA LinkedFacts ==
  ASSUME NEW m, NEW list, NEW s, Linking(s, m, list), NEW relocations \in Seq(DOMAIN Hash),
         \A k \in DOMAIN m.depends : m.depends[k] \in 1..Len(list)
  PROVE  Linking(Linked(s, relocations), m, list)
<1>1. PICK F : LinkLoop!Runs(F, 0, 0, s, relocations) BY LinkLoop!FoldRun
<1>2. LinkLoop!Loop(0, 0, s, relocations) = Linked(s, relocations)
  BY Zenon DEF LinkLoop!Loop, LinkStep, Linked, LinkLoop!FoldLeft, FoldLeft,
               LinkLoop!MapThenFoldSet, MapThenFoldSet, LinkLoop!Max, Max
<1>3. PICK n \in Nat : n = Len(relocations) OBVIOUS
<1>4. /\ F[0] = s /\ F[n] = Linked(s, relocations)
      /\ \A k \in 0..(n - 1) : F[k + 1] = LinkStep(0, 0, F[k], relocations[k + 1])
  BY <1>1, <1>2, <1>3, Zenon DEF LinkLoop!Runs
<1> DEFINE S == {k \in Nat : k <= n => Linking(F[k], m, list)}
<1>5. 0 \in S BY <1>4
<1>6. ASSUME NEW k \in Nat, k \in S PROVE k + 1 \in S
  <2> SUFFICES ASSUME k + 1 <= n PROVE Linking(F[k + 1], m, list) OBVIOUS
  <2>1. k \in 0..(n - 1) /\ Linking(F[k], m, list) BY <1>6
  <2>2. PICK name : name = relocations[k + 1] OBVIOUS
  <2>3. name \in DOMAIN Hash BY <1>3, <2>1, <2>2
  <2>4. Linking(LinkSymbol(F[k], name), m, list) BY <2>1, <2>3, LinkSymbolFacts
  <2>5. F[k + 1] = LinkStep(0, 0, F[k], name) BY <1>4, <2>1, <2>2
  <2> QED BY <2>1, <2>4, <2>5 DEF LinkStep
<1>7. Nat \subseteq S
  <2> HIDE DEF S
  <2> QED BY <1>5, <1>6, LinkLoop!SetInduction
<1>8. n \in S /\ n <= n BY <1>7
<1> QED BY <1>4, <1>8

-----------------------------------------------------------------------------
(* Where the rest of a module changes, its dependencies and symbols do not. *)
Alike(m, w) == w.name = m.name /\ w.address = m.address /\ w.depends = m.depends

(* What is said of a module holds of one alike in a list alike. *)
LEMMA AlikeKeeps ==
  ASSUME NEW list, NEW more, NEW m, NEW w, Alike(m, w), m.depends \in Seq(Nat), NEW before,
         \A k \in DOMAIN m.depends : Alike(list[m.depends[k]], more[m.depends[k]])
  PROVE  /\ Depends(list, m, before) => Depends(more, w, before)
         /\ Resolved(list, m) /\ w.resolved = m.resolved => Resolved(more, w)
         /\ CachesOwn(m) /\ w.symcache = m.symcache => CachesOwn(w)
<1>1. ObjectOf(w) = ObjectOf(m) /\ \A n : SymbolAddress(w, n) = SymbolAddress(m, n)
  BY DEF ObjectOf, SymbolAddress, Alike
<1>2. w.depends = m.depends /\ DOMAIN m.depends = 1..Len(m.depends) /\ Len(m.depends) \in Nat
  BY DEF Alike
<1>3. ASSUME NEW k \in DOMAIN m.depends
      PROVE  /\ list[m.depends[k]].name = more[m.depends[k]].name
             /\ ObjectOf(list[m.depends[k]]) = ObjectOf(more[m.depends[k]])
             /\ \A n : SymbolAddress(list[m.depends[k]], n) = SymbolAddress(more[m.depends[k]], n)
  BY DEF Alike, ObjectOf, SymbolAddress
<1>4. Depends(list, m, before) => Depends(more, w, before) BY <1>1, <1>2, <1>3 DEF Depends
<1>5. ASSUME NEW name, NEW address, Found(list, m, name, address) PROVE Found(more, w, name, address)
  <2>1. CASE name \in ObjectOf(m).symbols BY <1>1, <1>5, <2>1 DEF Found
  <2>2. CASE name \notin ObjectOf(m).symbols
    <3>1. PICK k \in DOMAIN m.depends :
            /\ name \in ObjectOf(list[m.depends[k]]).symbols
            /\ \A l \in 1..(k - 1) : name \notin ObjectOf(list[m.depends[l]]).symbols
            /\ address = {SymbolAddress(list[m.depends[k]], name)}
      BY <1>5, <2>2 DEF Found
    <3>2. \A l \in 1..(k - 1) : l \in DOMAIN m.depends BY <1>2
    <3>3. \A l \in 1..(k - 1) : name \notin ObjectOf(more[m.depends[l]]).symbols
      BY <1>3, <3>1, <3>2
    <3> QED BY <1>1, <1>2, <1>3, <2>2, <3>1, <3>3 DEF Found
  <2> QED BY <2>1, <2>2
<1>6. Resolved(list, m) /\ w.resolved = m.resolved => Resolved(more, w) BY <1>5 DEF Resolved
<1>7. CachesOwn(m) /\ w.symcache = m.symcache => CachesOwn(w) BY <1>1 DEF CachesOwn
<1> QED BY <1>4, <1>6, <1>7

(* What is known of a module in a list *)
LEMMA InList ==
  ASSUME NEW list, ListOk(list)
  PROVE  /\ list \in Seq(Module) /\ Len(list) \in Nat /\ DOMAIN list = 1..Len(list)
         /\ \A i \in 1..Len(list) :
              /\ list[i] \in Module /\ list[i].depends \in Seq(Nat) /\ list[i].links \in Seq(Nat)
              /\ \A k \in DOMAIN list[i].depends : list[i].depends[k] \in 1..(i - 1)
<1>1. list \in Seq(Module) BY DEF ListOk
<1>2. Len(list) \in Nat /\ DOMAIN list = 1..Len(list) /\ \A i \in 1..Len(list) : list[i] \in Module
  BY <1>1
<1>3. \A i \in 1..Len(list) : list[i].depends \in Seq(Nat) /\ list[i].links \in Seq(Nat)
  BY <1>2 DEF Module
<1>4. \A i \in 1..Len(list) : \A k \in DOMAIN list[i].depends : list[i].depends[k] \in 1..(i - 1)
  BY <1>2 DEF ListOk, Depends
<1> QED BY <1>1, <1>2, <1>3, <1>4

(* Caches may fill. *)
LEMMA CachesFill ==
  ASSUME NEW list, ListOk(list), NEW mods \in Seq(Module), Len(mods) = Len(list),
         \A i \in 1..Len(list) : Like(list[i], mods[i])
  PROVE  ListOk(mods)
<1>1. PICK n \in Nat : n = Len(list) /\ DOMAIN list = 1..n /\ DOMAIN mods = 1..n BY InList
<1>2. \A i \in 1..n : Alike(list[i], mods[i]) BY <1>1 DEF Like, Alike
<1>3. ASSUME NEW i \in 1..n
      PROVE  Depends(mods, mods[i], 1..(i - 1)) /\ CachesOwn(mods[i]) /\ Resolved(mods, mods[i])
  <2>1. PICK m, w : m = list[i] /\ w = mods[i] OBVIOUS
  <2>2. m.depends \in Seq(Nat) /\ \A k \in DOMAIN m.depends : m.depends[k] \in 1..n
    <3>1. m.depends \in Seq(Nat) /\ \A k \in DOMAIN m.depends : m.depends[k] \in 1..(i - 1)
      BY <1>1, <2>1, InList
    <3> QED BY <1>1, <3>1
  <2>3. Depends(list, m, 1..(i - 1)) /\ Resolved(list, m) BY <1>1, <2>1 DEF ListOk
  <2>4. CachesOwn(w) /\ w.resolved = m.resolved BY <1>1, <2>1 DEF Like
  <2>5. Alike(m, w) /\ \A k \in DOMAIN m.depends : Alike(list[m.depends[k]], mods[m.depends[k]])
    BY <1>2, <2>1, <2>2
  <2>6. PICK before : before = 1..(i - 1) OBVIOUS
  <2>7. /\ Depends(list, m, before) => Depends(mods, w, before)
        /\ Resolved(list, m) /\ w.resolved = m.resolved => Resolved(mods, w)
    BY <2>2, <2>5, AlikeKeeps, Zenon
  <2> QED BY <2>1, <2>3, <2>4, <2>6, <2>7
<1>4. \A i \in 1..n : mods[i].links = list[i].links /\ mods[i].depends = list[i].depends
  BY <1>1 DEF Like
<1> QED BY <1>1, <1>3, <1>4 DEF ListOk

(* module_link_depends: the links of the modules that the new one depends  *)
(* on have its index more, and nothing else changes.                       *)
LEMMA LinkDependsFacts ==
  ASSUME NEW mods \in Seq(Module), NEW mod \in Module, NEW index \in Nat
  PROVE  LET to == LinkDepends(mods, mod, index)
         IN  /\ to \in Seq(Module) /\ Len(to) = Len(mods)
             /\ \A i \in 1..Len(mods) :
                  /\ Alike(mods[i], to[i]) /\ to[i].symcache = mods[i].symcache
                  /\ to[i].resolved = mods[i].resolved
                  /\ \A x : x \in Range(to[i].links) <=>
                       x \in Range(mods[i].links) \/ (x = index /\ i \in Range(mod.depends))
<1>1. PICK n \in Nat : n = Len(mods) /\ DOMAIN mods = 1..n OBVIOUS
<1>2. mod.depends \in Seq(Nat) BY DEF Module
<1>3. PICK to : to = LinkDepends(mods, mod, index) OBVIOUS
<1> DEFINE At(i) == {j \in DOMAIN mod.depends : mod.depends[j] = i}
           New(i) == [k \in 1..Cardinality(At(i)) |-> index]
<1>4. to = [i \in 1..n |-> [mods[i] EXCEPT !.links = @ \o New(i)]]
  BY <1>1, <1>3 DEF LinkDepends
<1>5. ASSUME NEW i \in 1..n
      PROVE  /\ to[i] \in Module /\ Alike(mods[i], to[i]) /\ to[i].symcache = mods[i].symcache
             /\ to[i].resolved = mods[i].resolved
             /\ \A x : x \in Range(to[i].links) <=>
                  x \in Range(mods[i].links) \/ (x = index /\ i \in Range(mod.depends))
  <2>1. PICK new, m, w, links : new = New(i) /\ m = mods[i] /\ w = to[i] /\ links = m.links \o new
    OBVIOUS
  <2>2. m \in Module /\ m.links \in Seq(Nat)
    <3>1. m \in Module BY <1>1, <2>1
    <3> QED BY <3>1 DEF Module
  <2>3. PICK c \in Nat : c = Cardinality(At(i)) /\ (c = 0 <=> At(i) = {})
    <3>1. DOMAIN mod.depends = 1..Len(mod.depends) /\ Len(mod.depends) \in Nat BY <1>2
    <3>2. IsFiniteSet(DOMAIN mod.depends)
      <4>1. 1 \in Int /\ Len(mod.depends) \in Int BY <3>1
      <4> QED BY <3>1, <4>1, FS_Interval
    <3>3. At(i) \in SUBSET DOMAIN mod.depends OBVIOUS
    <3> HIDE DEF At
    <3>4. IsFiniteSet(At(i)) BY <3>2, <3>3, FS_Subset
    <3> QED BY <3>4, FS_CardinalityType, FS_EmptySet
  <2>4. new = [k \in 1..c |-> index] BY <2>1, <2>3
  <2>5. new \in Seq(Nat) /\ Len(new) = c /\ \A k \in 1..c : new[k] = index BY <2>4
  <2>6. /\ links \in Seq(Nat) /\ Len(links) = Len(m.links) + c
        /\ \A k \in 1..Len(m.links) : links[k] = m.links[k]
        /\ \A k \in 1..c : links[Len(m.links) + k] = new[k]
    <3>1. PICK old \in Seq(Nat) : old = m.links BY <2>2
    <3>2. links = old \o new /\ Len(old) \in Nat BY <2>1, <3>1
    <3> HIDE DEF New
    <3>3. /\ links \in Seq(Nat) /\ Len(links) = Len(old) + c
          /\ \A k \in 1..Len(old) : links[k] = old[k]
      BY <2>5, <3>2
    <3>4. ASSUME NEW k \in 1..c PROVE links[Len(old) + k] = new[k]
      <4>1. Len(old) + k \in 1..(Len(old) + c) /\ Len(old) + k > Len(old)
            /\ (Len(old) + k) - Len(old) = k
        BY <3>2
      <4> QED BY <2>5, <3>2, <4>1
    <3> QED BY <3>1, <3>3, <3>4
  <2>7. w = [m EXCEPT !.links = @ \o new]
    <3> HIDE DEF New
    <3> QED BY <1>4, <2>1
  <2>8. /\ w.name = m.name /\ w.address = m.address /\ w.depends = m.depends
        /\ w.links = links /\ w.resolved = m.resolved /\ w.symcache = m.symcache
        /\ w \in [name : {m.name}, address : {m.address}, depends : {m.depends},
                  links : {links}, symcache : {m.symcache}, resolved : {m.resolved}]
    <3> HIDE DEF New
    <3> QED BY <2>1, <2>2, <2>7 DEF Module
  <2>9. w \in Module BY <2>2, <2>6, <2>8 DEF Module
  <2>10. i \in Range(mod.depends) <=> c > 0 BY <2>3 DEF Range
  <2>11. PICK l \in Nat : l = Len(m.links) /\ DOMAIN m.links = 1..l /\ DOMAIN links = 1..(l + c)
    BY <2>2, <2>6
  <2>12. ASSUME NEW x
         PROVE  x \in Range(links) <=> x \in Range(m.links) \/ (x = index /\ c > 0)
    <3>1. ASSUME x \in Range(links) PROVE x \in Range(m.links) \/ (x = index /\ c > 0)
      <4>1. PICK k \in 1..(l + c) : x = links[k] BY <2>11, <3>1 DEF Range
      <4>2. CASE k <= l
        <5>1. k \in 1..l /\ x = m.links[k] BY <2>6, <2>11, <4>1, <4>2
        <5> QED BY <2>11, <5>1 DEF Range
      <4>3. CASE k > l
        <5>1. PICK j \in 1..c : k = l + j
          <6>1. k - l \in 1..c /\ k = l + (k - l) BY <4>3
          <6> QED BY <6>1
        <5>2. x = index BY <2>5, <2>6, <2>11, <4>1, <5>1
        <5> QED BY <5>1, <5>2
      <4> QED BY <4>2, <4>3
    <3>2. ASSUME x \in Range(m.links) PROVE x \in Range(links)
      <4>1. PICK k \in 1..l : x = m.links[k] BY <2>11, <3>2 DEF Range
      <4>2. k \in 1..(l + c) /\ x = links[k] BY <2>6, <2>11, <4>1
      <4> QED BY <2>11, <4>2 DEF Range
    <3>3. ASSUME x = index, c > 0 PROVE x \in Range(links)
      <4>1. 1 \in 1..c /\ l + 1 \in 1..(l + c) BY <3>3
      <4>2. links[l + 1] = x BY <2>5, <2>6, <2>11, <3>3, <4>1
      <4> QED BY <2>11, <4>1, <4>2 DEF Range
    <3> QED BY <3>1, <3>2, <3>3
  <2> QED BY <2>1, <2>8, <2>9, <2>10, <2>12 DEF Alike
<1>6. to \in Seq(Module) /\ Len(to) = n
  <2>1. to = [i \in 1..n |-> to[i]]
    <3> HIDE DEF New
    <3> QED BY <1>4
  <2> QED BY <1>5, <2>1
<1> QED BY <1>1, <1>3, <1>5, <1>6

(* A module that was linked goes to the end of the list. *)
LEMMA ListGrows ==
  ASSUME NEW mods, ListOk(mods), NEW mod \in Module, mod.links = <<>>,
         Depends(mods, mod, 1..Len(mods)), CachesOwn(mod), Resolved(mods, mod)
  PROVE  ListOk(Append(LinkDepends(mods, mod, Len(mods) + 1), mod))
<1>1. PICK n \in Nat : n = Len(mods) /\ DOMAIN mods = 1..n BY InList
<1>2. PICK to : to = LinkDepends(mods, mod, n + 1) OBVIOUS
<1>3. PICK more : more = Append(to, mod) OBVIOUS
<1>4. mods \in Seq(Module) BY InList
<1>5. /\ to \in Seq(Module) /\ Len(to) = n
      /\ \A i \in 1..n :
           /\ Alike(mods[i], to[i]) /\ to[i].symcache = mods[i].symcache
           /\ to[i].resolved = mods[i].resolved
           /\ \A x : x \in Range(to[i].links) <=>
                x \in Range(mods[i].links) \/ (x = n + 1 /\ i \in Range(mod.depends))
  <2>1. n + 1 \in Nat OBVIOUS
  <2> QED BY <1>1, <1>2, <1>4, <2>1, LinkDependsFacts
<1>6. /\ more \in Seq(Module) /\ Len(more) = n + 1 /\ more[n + 1] = mod
      /\ DOMAIN more = 1..(n + 1) /\ \A i \in 1..n : more[i] = to[i]
  BY <1>3, <1>5
<1>7. /\ mod.depends \in Seq(Nat) /\ \A k \in DOMAIN mod.depends : mod.depends[k] \in 1..n
  BY <1>1 DEF Module, Depends
<1>8. \A i \in 1..n : Alike(mods[i], more[i]) BY <1>5, <1>6
<1>9. ASSUME NEW i \in 1..(n + 1)
      PROVE  Depends(more, more[i], 1..(i - 1)) /\ CachesOwn(more[i]) /\ Resolved(more, more[i])
  <2>1. PICK m, w : w = more[i] /\ m = IF i = n + 1 THEN mod ELSE mods[i] OBVIOUS
  <2>2. PICK before : before = 1..(i - 1) OBVIOUS
  <2>3. /\ Alike(m, w) /\ w.symcache = m.symcache /\ w.resolved = m.resolved
        /\ m.depends \in Seq(Nat) /\ (\A k \in DOMAIN m.depends : m.depends[k] \in 1..n)
        /\ Depends(mods, m, before) /\ CachesOwn(m) /\ Resolved(mods, m)
    <3>1. CASE i = n + 1
      <4>1. m = mod /\ w = mod /\ before = 1..n BY <1>6, <2>1, <2>2, <3>1
      <4> QED BY <1>1, <1>7, <4>1 DEF Alike
    <3>2. CASE i # n + 1
      <4>1. i \in 1..n /\ m = mods[i] /\ w = to[i] BY <1>6, <2>1, <3>2
      <4>2. /\ m.depends \in Seq(Nat) /\ \A k \in DOMAIN m.depends : m.depends[k] \in 1..n
        <5>1. m.depends \in Seq(Nat) /\ \A k \in DOMAIN m.depends : m.depends[k] \in 1..(i - 1)
          BY <1>1, <4>1, InList
        <5> QED BY <4>1, <5>1
      <4>3. Depends(mods, m, before) /\ CachesOwn(m) /\ Resolved(mods, m)
        BY <1>1, <2>2, <4>1 DEF ListOk
      <4> QED BY <1>5, <4>1, <4>2, <4>3
    <3> QED BY <3>1, <3>2
  <2>4. \A k \in DOMAIN m.depends : Alike(mods[m.depends[k]], more[m.depends[k]])
    BY <1>8, <2>3
  <2>5. Depends(more, w, before) /\ Resolved(more, w) /\ CachesOwn(w)
    BY <2>3, <2>4, AlikeKeeps, Zenon
  <2> QED BY <2>1, <2>2, <2>5
<1>10. ASSUME NEW i \in 1..n, NEW x \in Range(mods[i].links) PROVE x \in 1..n
  BY <1>1 DEF ListOk
<1>11. Range(mod.links) = {} BY DEF Range
<1>12. ASSUME NEW i \in 1..(n + 1) PROVE Range(more[i].links) \subseteq 1..(n + 1)
  <2>1. CASE i = n + 1 BY <1>6, <1>11, <2>1
  <2>2. CASE i # n + 1
    <3>1. i \in 1..n BY <2>2
    <3>2. \A x \in Range(more[i].links) : x \in Range(mods[i].links) \/ x = n + 1 BY <1>5, <1>6, <3>1
    <3>3. \A x \in Range(mods[i].links) : x \in 1..(n + 1) BY <1>10, <3>1
    <3>4. n + 1 \in 1..(n + 1) OBVIOUS
    <3> QED BY <3>2, <3>3, <3>4
  <2> QED BY <2>1, <2>2
<1>13. \A j \in 1..n : \A x \in Range(mods[j].depends) : x \in 1..(j - 1)
  BY <1>1, InList DEF Range
<1>14. \A x \in Range(mod.depends) : x \in 1..n BY <1>7 DEF Range
<1>15. ASSUME NEW i \in 1..(n + 1), NEW j \in 1..(n + 1)
       PROVE  j \in Range(more[i].links) <=> i \in Range(more[j].depends)
  <2>1. CASE i = n + 1
    <3>1. j \notin Range(more[i].links) BY <1>6, <1>11, <2>1
    <3>2. i \notin Range(more[j].depends)
      <4>1. CASE j = n + 1 BY <1>6, <1>14, <2>1, <4>1
      <4>2. CASE j # n + 1
        <5>1. j \in 1..n BY <4>2
        <5>2. more[j].depends = mods[j].depends BY <1>8, <5>1 DEF Alike
        <5>3. \A x \in Range(mods[j].depends) : x \in 1..(j - 1) BY <1>13, <5>1
        <5>4. i \notin 1..(j - 1) BY <2>1, <5>1
        <5> QED BY <5>2, <5>3, <5>4
      <4> QED BY <4>1, <4>2
    <3> QED BY <3>1, <3>2
  <2>2. CASE i # n + 1 /\ j = n + 1
    <3>1. i \in 1..n BY <2>2
    <3>2. j \notin Range(mods[i].links) BY <1>10, <2>2, <3>1
    <3>3. j \in Range(to[i].links) <=> i \in Range(mod.depends) BY <1>5, <2>2, <3>1, <3>2
    <3> QED BY <1>6, <2>2, <3>1, <3>3
  <2>3. CASE i # n + 1 /\ j # n + 1
    <3>1. i \in 1..n /\ j \in 1..n BY <2>3
    <3>2. j \in Range(more[i].links) <=> j \in Range(mods[i].links) BY <1>5, <1>6, <2>3, <3>1
    <3>3. more[j].depends = mods[j].depends BY <1>8, <3>1 DEF Alike
    <3> QED BY <1>1, <3>1, <3>2, <3>3 DEF ListOk
  <2> QED BY <2>1, <2>2, <2>3
<1> QED BY <1>1, <1>2, <1>3, <1>6, <1>9, <1>12, <1>15 DEF ListOk

-----------------------------------------------------------------------------
(* What is below a multiple has a lower quotient. *)
LEMMA DivBelow ==
  ASSUME NEW n \in Nat \ {0}, NEW x \in Int, NEW q \in Int, x < n * q
  PROVE  x \div n < q /\ x \div n \in Int
<1>1. x \div n \in Int /\ x % n \in 0..(n - 1) /\ x = n * (x \div n) + (x % n) OBVIOUS
<1>2. PICK a \in Int, b \in Nat : a = x \div n /\ b = x % n BY <1>1
<1>3. PICK na \in Int, nq \in Int : na = n * a /\ nq = n * q OBVIOUS
<1>4. na < nq BY <1>1, <1>2, <1>3
<1>5. ASSUME a >= q PROVE FALSE
  <2>1. PICK k \in Nat : a = q + k
    <3>1. a - q \in Nat /\ a = q + (a - q) BY <1>5
    <3> QED BY <3>1
  <2>2. n * (q + k) = n * q + n * k OBVIOUS
  <2>3. PICK nk \in Nat : nk = n * k OBVIOUS
  <2> QED BY <1>3, <1>4, <2>1, <2>2, <2>3
<1> QED BY <1>2, <1>5

(* And what is at a multiple or above it has no lower one. *)
LEMMA DivAbove ==
  ASSUME NEW n \in Nat \ {0}, NEW x \in Int, NEW q \in Int, x >= n * q
  PROVE  x \div n >= q
<1>1. x \div n \in Int /\ x % n \in 0..(n - 1) /\ x = n * (x \div n) + (x % n) OBVIOUS
<1>2. PICK a \in Int, b \in 0..(n - 1) : a = x \div n /\ b = x % n BY <1>1
<1>3. PICK na \in Int, nq \in Int : na = n * a /\ nq = n * q OBVIOUS
<1>4. na + b >= nq BY <1>1, <1>2, <1>3
<1>5. ASSUME a < q PROVE FALSE
  <2>1. PICK k \in Nat : q = a + (1 + k)
    <3>1. q - a - 1 \in Nat /\ q = a + (1 + (q - a - 1)) BY <1>5
    <3> QED BY <3>1
  <2>2. n * (a + (1 + k)) = n * a + (n + n * k) OBVIOUS
  <2>3. PICK nk \in Nat : nk = n * k OBVIOUS
  <2> QED BY <1>3, <1>4, <2>1, <2>2, <2>3
<1> QED BY <1>2, <1>5

(* load_module rounds the end of a segment up to a page. *)
LEMMA EndAligned ==
  ASSUME NEW segment \in [vaddr : Nat, memsz : Nat, writable : BOOLEAN]
  PROVE  /\ EndAddress(segment) \in Nat /\ EndAddress(segment) >= segment.vaddr + segment.memsz
         /\ \E q \in Nat : EndAddress(segment) = ModPage * q
<1>1. ModPage \in Nat \ {0} BY LoaderAssumption
<1>2. PICK e \in Nat : e = segment.vaddr + segment.memsz OBVIOUS
<1>3. PICK x \in Int : x = ModPage - e BY <1>1
<1>4. PICK a \in Int, r \in Nat : a = x \div ModPage /\ r = x % ModPage /\ x = ModPage * a + r
  BY <1>1, <1>3
<1>5. EndAddress(segment) = e + r BY <1>2, <1>3, <1>4 DEF EndAddress
<1>6. PICK b \in Int : b = 1 - a OBVIOUS
<1>7. ModPage * (1 - a) = ModPage - ModPage * a BY <1>1
<1>8. PICK u \in Int : u = ModPage * a BY <1>1
<1>9. e + r = ModPage * b BY <1>1, <1>3, <1>4, <1>6, <1>7, <1>8
<1>10. b \in Nat
  <2>1. ASSUME b < 0 PROVE FALSE
    <3>1. PICK c \in Nat : b = -(1 + c)
      <4>1. -b - 1 \in Nat /\ b = -(1 + (-b - 1)) BY <2>1
      <4> QED BY <4>1
    <3>2. ModPage * (-(1 + c)) = -(ModPage + ModPage * c) BY <1>1
    <3>3. PICK v \in Nat : v = ModPage * c BY <1>1
    <3> QED BY <1>1, <1>9, <3>1, <3>2, <3>3
  <2> QED BY <2>1
<1> QED BY <1>2, <1>5, <1>9, <1>10

(* The pages that an object is copied to are those between its address and *)
(* the next one.                                                           *)
LEMMA AreaBetween ==
  ASSUME NEW q \in Nat, NEW top \in Nat, NEW segment \in [vaddr : Nat, memsz : Nat, writable : BOOLEAN],
         ModPage * q + (segment.vaddr + segment.memsz) <= ModPage * top
  PROVE  \A page \in Area(ModPage * q, segment) : page \in Int /\ q <= page /\ page < top
<1>1. ModPage \in Nat \ {0} BY LoaderAssumption
<1>2. PICK v \in Nat, z \in Nat, u \in Nat, t \in Nat :
        v = segment.vaddr /\ z = segment.memsz /\ u = ModPage * q /\ t = ModPage * top
  BY <1>1
<1>3. PICK low \in Int, high \in Int : low = u + v /\ high = low + z - 1 OBVIOUS
<1>4. Area(ModPage * q, segment) = (low \div ModPage)..(high \div ModPage)
  BY <1>2, <1>3 DEF Area
<1>5. low >= ModPage * q /\ high < ModPage * top BY <1>2, <1>3
<1>6. low \div ModPage >= q BY <1>1, <1>5, DivAbove
<1>7. high \div ModPage < top /\ high \div ModPage \in Int BY <1>1, <1>5, DivBelow
<1>8. low \div ModPage \in Int BY <1>1
<1> QED BY <1>4, <1>6, <1>7, <1>8

(* load_module copies an object to pages that no other has. *)
LEMMA AreasGrow ==
  ASSUME AreasOk, NEW name \in DOMAIN Object, NEW object, object = Object[name],
         areas' = areas \cup {[object |-> object.provides, index |-> next,
                               area |-> UNION {Area(mod_address, object.segments[i]) :
                                                 i \in DOMAIN object.segments}]},
         mod_address' = IF object.segments = <<>> THEN mod_address
                        ELSE mod_address + EndAddress(object.segments[Len(object.segments)])
  PROVE  AreasOk'
<1> DEFINE Segment == [vaddr : Nat, memsz : Nat, writable : BOOLEAN]
<1>1. ModPage \in Nat \ {0} BY LoaderAssumption
<1>2. /\ mod_address \in Nat /\ mod_address % ModPage = 0
      /\ \A a \in areas : \A page \in a.area : page \in Int /\ page < mod_address \div ModPage

      /\ \A a, b \in areas : a # b => a.area \cap b.area = {}
  BY DEF AreasOk
<1>3. PICK q \in Nat : q = mod_address \div ModPage /\ mod_address = ModPage * q
  <2>1. mod_address \div ModPage \in Nat /\ mod_address = ModPage * (mod_address \div ModPage) + 0
    BY <1>1, <1>2
  <2>2. ModPage * (mod_address \div ModPage) \in Nat BY <1>1, <2>1
  <2> QED BY <2>1, <2>2
<1>4. PICK segments, new : /\ segments = object.segments
                           /\ new = [object |-> object.provides, index |-> next,
                                     area |-> UNION {Area(mod_address, segments[i]) :
                                                       i \in DOMAIN segments}]
  OBVIOUS
<1>5. /\ segments \in Seq(Segment)
      /\ \A i \in DOMAIN segments :
           LET last == segments[Len(segments)]
           IN  segments[i].vaddr + segments[i].memsz <= last.vaddr + last.memsz
  BY <1>4, LoaderAssumption DEF ObjectFile
<1>6. /\ new.area = UNION {Area(mod_address, segments[i]) : i \in DOMAIN segments}
      /\ areas' = areas \cup {new}
  BY <1>4
<1>7. PICK top \in Nat : /\ mod_address' = ModPage * top /\ q <= top
                         /\ \A page \in new.area : page \in Int /\ q <= page /\ page < top
  <2>1. CASE segments = <<>>
    <3>1. new.area = {} BY <1>6, <2>1
    <3>2. mod_address' = ModPage * q BY <1>3, <1>4, <2>1
    <3> QED BY <3>1, <3>2
  <2>2. CASE segments # <<>>
    <3>1. PICK last : last = segments[Len(segments)] OBVIOUS
    <3>2. DOMAIN segments = 1..Len(segments) /\ Len(segments) \in Nat /\ Len(segments) \in DOMAIN segments
      <4> HIDE DEF Segment
      <4> QED BY <1>5, <2>2
    <3>3. last \in Segment /\ \A i \in DOMAIN segments : segments[i] \in Segment
      <4> HIDE DEF Segment
      <4> QED BY <1>5, <3>1, <3>2
    <3>4. PICK e \in Nat : e = EndAddress(last) BY <3>3, EndAligned
    <3>5. e >= last.vaddr + last.memsz BY <3>3, <3>4, EndAligned
    <3>6. PICK p \in Nat : e = ModPage * p BY <3>3, <3>4, EndAligned
    <3>7. PICK u \in Nat : u = q + p OBVIOUS
    <3>8. ModPage * (q + p) = ModPage * q + ModPage * p BY <1>1
    <3>9. mod_address' = ModPage * u
      <4>1. mod_address' = mod_address + e BY <1>4, <2>2, <3>1, <3>4
      <4> QED BY <1>3, <3>6, <3>7, <3>8, <4>1
    <3>10. ASSUME NEW i \in DOMAIN segments
           PROVE  \A page \in Area(mod_address, segments[i]) : page \in Int /\ q <= page /\ page < u
      <4>1. PICK s : s = segments[i] OBVIOUS
      <4>2. s \in Segment BY <3>3, <4>1
      <4>3. PICK size \in Nat, all \in Nat : size = s.vaddr + s.memsz /\ all = last.vaddr + last.memsz
        BY <3>3, <4>2
      <4>4. size <= all BY <1>5, <3>1, <4>1, <4>3
      <4>5. PICK nq \in Nat, np \in Nat : nq = ModPage * q /\ np = ModPage * p BY <1>1
      <4>6. nq + size <= nq + np BY <3>5, <3>6, <4>3, <4>4, <4>5
      <4>7. ModPage * q + (s.vaddr + s.memsz) <= ModPage * u BY <3>7, <3>8, <4>3, <4>5, <4>6
      <4>8. \A page \in Area(ModPage * q, s) : page \in Int /\ q <= page /\ page < u
        BY <4>2, <4>7, AreaBetween
      <4> QED BY <1>3, <4>1, <4>8
    <3>11. \A page \in new.area : page \in Int /\ q <= page /\ page < u BY <1>6, <3>10
    <3> QED BY <3>7, <3>9, <3>11
  <2> QED BY <2>1, <2>2
<1>8. mod_address' \in Nat /\ mod_address' % ModPage = 0 /\ mod_address' \div ModPage = top
  <2>1. PICK u \in Nat : u = ModPage * top BY <1>1
  <2>2. u = ModPage * top + 0 BY <2>1
  <2>3. u \div ModPage = top BY <1>1, <2>2, DivUnique
  <2>4. PICK b \in Int : b = u % ModPage BY <1>1
  <2>5. u = ModPage * (u \div ModPage) + b BY <1>1, <2>4, DivMod
  <2>6. b = 0 BY <2>1, <2>3, <2>4, <2>5
  <2> QED BY <1>7, <2>1, <2>3, <2>4, <2>6
<1>9. \A a \in areas : \A page \in a.area : page \in Int /\ page < q BY <1>2, <1>3
<1>10. \A a \in areas : \A page \in a.area : page < top BY <1>7, <1>9
<1>11. \A a \in areas : a.area \cap new.area = {}
  <2>1. ASSUME NEW a \in areas, NEW page \in a.area, page \in new.area PROVE FALSE
    <3>1. page \in Int /\ q <= page /\ page < q BY <1>7, <1>9, <2>1
    <3> QED BY <3>1
  <2> QED BY <2>1
<1>12. ASSUME NEW a \in areas'
       PROVE  \A page \in a.area : page \in Int /\ page < mod_address' \div ModPage
  BY <1>2, <1>6, <1>7, <1>8, <1>9, <1>10
<1>13. ASSUME NEW a \in areas', NEW b \in areas', a # b PROVE a.area \cap b.area = {}
  BY <1>2, <1>6, <1>11, <1>13
<1> QED BY <1>8, <1>12, <1>13 DEF AreasOk

-----------------------------------------------------------------------------
(* get_module finds the first module of a name, if there is one. *)
LEMMA GetModuleFacts ==
  ASSUME NEW list, ListOk(list), NEW name, Named(list, name) # {}
  PROVE  GetModule(list, name) \in 1..Len(list) /\ list[GetModule(list, name)].name = name
<1>1. Named(list, name) \subseteq 1..Len(list) /\ Named(list, name) \subseteq Nat
  <2>1. DOMAIN list = 1..Len(list) /\ Len(list) \in Nat BY InList
  <2> QED BY <2>1 DEF Named
<1>2. \E f \in Named(list, name) : \A g \in Named(list, name) : f <= g BY <1>1, LeastOf
<1>3. GetModule(list, name) \in Named(list, name) BY <1>2, Zenon DEF GetModule
<1> QED BY <1>1, <1>3 DEF Named

(* The module that load_module is about to link *)
NewModule(object) ==
  [name |-> object.provides, address |-> mod_address, depends |-> <<>>,
   links |-> <<>>, symcache |-> {}, resolved |-> {}]
ToLink(object) ==
  [WithCached(WithCached(NewModule(object), "provides"), "depends")
     EXCEPT !.depends = LoadDepends(object)]

(* It has all its dependencies. *)
LEMMA ToLinkFacts ==
  ASSUME LoaderInv, NEW name \in DOMAIN Object, NEW object, object = Object[name],
         {"provides", "depends"} \subseteq object.symbols, DependsFound(object)
  PROVE  LET mod == ToLink(object)
         IN  /\ mod \in Module /\ mod.links = <<>> /\ mod.resolved = {} /\ CachesOwn(mod)
             /\ Depends(mod_list, mod, 1..Len(mod_list))
<1>1. ListOk(mod_list) /\ mod_address \in Nat BY DEF LoaderInv, AreasOk
<1>2. /\ object.provides = name /\ object.symbols \subseteq DOMAIN Hash
      /\ object.depends \in Seq(DOMAIN Object)
  BY LoaderAssumption DEF ObjectFile
<1>3. PICK new, w, v, deps, mod :
        /\ new = NewModule(object) /\ w = WithCached(new, "provides")
        /\ v = WithCached(w, "depends") /\ deps = LoadDepends(object)
        /\ mod = [v EXCEPT !.depends = deps]
  OBVIOUS
<1>4. mod = ToLink(object) BY <1>3 DEF ToLink
<1>5. /\ new \in Module /\ new.links = <<>> /\ new.resolved = {} /\ new.name = name
      /\ new.symcache = {}
  <2>1. PICK e, o : e = <<>> /\ o = {} OBVIOUS
  <2>2. e \in Seq(Nat) /\ o \in SUBSET (Nat \X (DOMAIN Hash))
        /\ o \in SUBSET ((DOMAIN Hash) \X SUBSET (Nat \X (DOMAIN Hash)))
    BY <2>1
  <2>3. new = [name |-> name, address |-> mod_address, depends |-> e, links |-> e,
               symcache |-> o, resolved |-> o]
    BY <1>2, <1>3, <2>1 DEF NewModule
  <2> QED BY <1>1, <2>1, <2>2, <2>3 DEF Module
<1>6. CachesOwn(new) BY <1>5 DEF CachesOwn
<1>7. {"provides", "depends"} \subseteq DOMAIN Hash BY <1>2
<1>8. Like(new, w) BY <1>3, <1>5, <1>6, <1>7, WithCachedFacts
<1>9. Like(w, v)
  <2>1. w \in Module /\ CachesOwn(w) BY <1>8 DEF Like
  <2> QED BY <1>3, <1>7, <2>1, WithCachedFacts
<1>10. /\ v \in Module /\ v.links = <<>> /\ v.resolved = {} /\ v.name = name /\ CachesOwn(v)
  BY <1>5, <1>8, <1>9 DEF Like
<1>11. deps = [i \in DOMAIN object.depends |-> GetModule(mod_list, object.depends[i])]
  BY <1>3 DEF LoadDepends
<1>12. PICK d \in Nat : d = Len(object.depends) /\ DOMAIN object.depends = 1..d BY <1>2
<1>13. ASSUME NEW i \in 1..d
       PROVE  /\ GetModule(mod_list, object.depends[i]) \in 1..Len(mod_list)
              /\ mod_list[GetModule(mod_list, object.depends[i])].name = object.depends[i]
  <2>1. Named(mod_list, object.depends[i]) # {} BY <1>12 DEF DependsFound
  <2> QED BY <1>1, <2>1, GetModuleFacts
<1>14. Len(mod_list) \in Nat BY <1>1, InList
<1>15. deps \in Seq(Nat) /\ Len(deps) = d /\ DOMAIN deps = 1..d
       /\ \A i \in 1..d : deps[i] = GetModule(mod_list, object.depends[i])
  <2>1. \A i \in 1..d : GetModule(mod_list, object.depends[i]) \in Nat BY <1>13, <1>14
  <2>2. deps = [i \in 1..d |-> GetModule(mod_list, object.depends[i])] BY <1>11, <1>12
  <2> QED BY <2>1, <2>2
<1>16. /\ mod.name = v.name /\ mod.address = v.address /\ mod.depends = deps
       /\ mod.links = v.links /\ mod.resolved = v.resolved /\ mod.symcache = v.symcache
       /\ mod \in [name : {v.name}, address : {v.address}, depends : {deps},
                   links : {v.links}, symcache : {v.symcache}, resolved : {v.resolved}]
  BY <1>3, <1>10 DEF Module
<1>17. mod \in Module BY <1>10, <1>15, <1>16 DEF Module
<1>18. ObjectOf(mod) = object /\ ObjectOf(v) = object
       /\ \A n : SymbolAddress(mod, n) = SymbolAddress(v, n)
  BY <1>10, <1>16 DEF ObjectOf, SymbolAddress
<1>19. CachesOwn(mod) BY <1>10, <1>16, <1>18 DEF CachesOwn
<1>20. Depends(mod_list, mod, 1..Len(mod_list))
  BY <1>12, <1>13, <1>15, <1>16, <1>18 DEF Depends
<1> QED BY <1>4, <1>10, <1>16, <1>17, <1>19, <1>20

(* load_module *)
LEMMA LoadModuleInv ==
  ASSUME LoaderInv, NEW name \in DOMAIN Object, LoadModule(Object[name])
  PROVE  ListOk(mod_list)' /\ AreasOk'
<1>1. PICK object : object = Object[name] OBVIOUS
<1>2. ListOk(mod_list) /\ AreasOk BY DEF LoaderInv
<1>3. CASE ~object.dynamic
  <2>1. mod_list' = mod_list /\ mod_address' = mod_address /\ areas' = areas
    BY <1>1, <1>3 DEF LoadModule
  <2> QED BY <1>2, <2>1 DEF AreasOk
<1>4. CASE object.dynamic
  <2>1. PICK mod, start, linked :
          /\ mod = ToLink(object) /\ start = [mod |-> mod, mods |-> mod_list, ok |-> TRUE]
          /\ linked = Linked(start, object.relocations)
    OBVIOUS
  <2>2. PICK named : named = ({"provides", "depends"} \subseteq object.symbols) OBVIOUS
  <2>3. /\ areas' = areas \cup {[object |-> object.provides, index |-> next,
                                 area |-> UNION {Area(mod_address, object.segments[i]) :
                                                  i \in DOMAIN object.segments}]}
        /\ mod_address' = IF object.segments = <<>> THEN mod_address
                          ELSE mod_address + EndAddress(object.segments[Len(object.segments)])
        /\ IF ~named \/ ~DependsFound(object) THEN UNCHANGED mod_list
           ELSE IF ~linked.ok \/ "init" \notin object.symbols THEN mod_list' = linked.mods
           ELSE mod_list' =
                  Append(LinkDepends(linked.mods, linked.mod, Len(mod_list) + 1), linked.mod)
    BY <1>1, <1>4, <2>1, <2>2, Zenon DEF LoadModule, ToLink, NewModule, Linked
  <2>4. AreasOk' BY <1>1, <1>2, <2>3, AreasGrow
  <2>5. CASE ~named \/ ~DependsFound(object)
    <3>1. mod_list' = mod_list BY <2>3, <2>5
    <3> QED BY <1>2, <2>4, <3>1
  <2>6. CASE named /\ DependsFound(object)
    <3>1. {"provides", "depends"} \subseteq object.symbols BY <2>2, <2>6
    <3>2. /\ mod \in Module /\ mod.links = <<>> /\ mod.resolved = {} /\ CachesOwn(mod)
          /\ Depends(mod_list, mod, 1..Len(mod_list))
      BY <1>1, <2>1, <2>6, <3>1, ToLinkFacts
    <3>3. mod_list \in Seq(Module) BY <1>2 DEF ListOk
    <3>4. \A i \in 1..Len(mod_list) : Like(mod_list[i], mod_list[i])
      BY <1>2, InList DEF Like, ListOk
    <3>5. Resolved(mod_list, mod) BY <3>2 DEF Resolved
    <3>6. /\ start \in [mod : Module, mods : Seq(Module), ok : BOOLEAN]
          /\ start.mod = mod /\ start.mods = mod_list
      BY <2>1, <3>2, <3>3
    <3>7. Linking(start, mod, mod_list) BY <3>2, <3>4, <3>5, <3>6 DEF Linking
    <3>8. object.relocations \in Seq(DOMAIN Hash) BY <1>1, LoaderAssumption DEF ObjectFile
    <3>9. \A k \in DOMAIN mod.depends : mod.depends[k] \in 1..Len(mod_list) BY <3>2 DEF Depends
    <3>10. Linking(linked, mod, mod_list) BY <2>1, <3>7, <3>8, <3>9, LinkedFacts
    <3>11. PICK m, mods : m = linked.mod /\ mods = linked.mods OBVIOUS
    <3>12. /\ m \in Module /\ mods \in Seq(Module) /\ Len(mods) = Len(mod_list)
           /\ \A i \in 1..Len(mod_list) : Like(mod_list[i], mods[i])
           /\ Alike(mod, m) /\ m.links = <<>> /\ CachesOwn(m) /\ Resolved(mod_list, m)
      BY <3>2, <3>10, <3>11 DEF Linking, Alike
    <3>13. ListOk(mods) BY <1>2, <3>12, CachesFill
    <3>14. Depends(mods, m, 1..Len(mods)) /\ Resolved(mods, m)
      <4>1. PICK before : before = 1..Len(mods) OBVIOUS
      <4>2. m.depends \in Seq(Nat) /\ mod.depends = m.depends BY <3>12 DEF Module, Alike
      <4>3. \A i \in 1..Len(mod_list) : Alike(mod_list[i], mods[i]) BY <3>12 DEF Like, Alike
      <4>4. \A k \in DOMAIN m.depends : Alike(mod_list[m.depends[k]], mods[m.depends[k]])
        BY <3>9, <4>2, <4>3
      <4>5. Depends(mod_list, m, before)
        BY <3>2, <3>12, <4>1, <4>2 DEF Depends, Alike, ObjectOf
      <4>6. Alike(m, m) /\ m.resolved = m.resolved BY DEF Alike
      <4>7. Depends(mods, m, before) /\ Resolved(mods, m)
        BY <3>12, <4>2, <4>4, <4>5, <4>6, AlikeKeeps, Zenon
      <4> QED BY <4>1, <4>7
    <3>15. CASE ~linked.ok \/ "init" \notin object.symbols
      <4>1. mod_list' = mods BY <2>3, <2>6, <3>11, <3>15
      <4> QED BY <2>4, <3>13, <4>1
    <3>16. CASE linked.ok /\ "init" \in object.symbols
      <4>1. mod_list' = Append(LinkDepends(mods, m, Len(mods) + 1), m)
        BY <2>3, <2>6, <3>11, <3>12, <3>16
      <4>2. ListOk(Append(LinkDepends(mods, m, Len(mods) + 1), m))
        BY <3>12, <3>13, <3>14, ListGrows
      <4> QED BY <2>4, <4>1, <4>2
    <3> QED BY <3>15, <3>16
  <2> QED BY <2>5, <2>6
<1> QED BY <1>3, <1>4

(* The kernel alone is a list of modules. *)
LEMMA LoaderInitInv == LoaderInit => LoaderInv
<1> SUFFICES ASSUME LoaderInit PROVE LoaderInv OBVIOUS
<1>1. /\ archive \in Archive /\ modtab \in Modtab /\ next = 0 /\ mod_list = <<Base>>
      /\ mod_address = ModBase /\ areas = {}
  BY DEF LoaderInit
<1>2. AreasOk BY <1>1, LoaderAssumption DEF AreasOk
<1>3. /\ Base \in Module /\ Base.depends = <<>> /\ Base.links = <<>> /\ Base.symcache = {}
      /\ Base.resolved = {} /\ ObjectOf(Base).depends = <<>>
  <2>1. PICK e, o, z, base : e = <<>> /\ o = {} /\ z = 0 /\ base = "base" OBVIOUS
  <2>2. /\ e \in Seq(Nat) /\ o \in SUBSET (Nat \X (DOMAIN Hash)) /\ z \in Nat
        /\ o \in SUBSET ((DOMAIN Hash) \X SUBSET (Nat \X (DOMAIN Hash))) /\ base \in DOMAIN Object
    BY <2>1, LoaderAssumption
  <2>3. Base = [name |-> base, address |-> z, depends |-> e, links |-> e, symcache |-> o,
                resolved |-> o]
    BY <2>1 DEF Base
  <2>4. Base.name = base /\ Base \in Module /\ Base.depends = e /\ Base.links = e
        /\ Base.symcache = o /\ Base.resolved = o
    BY <2>2, <2>3 DEF Module
  <2> QED BY <2>1, <2>4, LoaderAssumption DEF ObjectOf
<1>4. /\ mod_list \in Seq(Module) /\ DOMAIN mod_list = {1} /\ mod_list[1] = Base
  BY <1>1, <1>3
<1>5. Depends(mod_list, Base, 1..(1 - 1)) /\ CachesOwn(Base) /\ Resolved(mod_list, Base)
  BY <1>3 DEF Depends, CachesOwn, Resolved
<1>6. Range(Base.links) = {} /\ Range(Base.depends) = {} BY <1>3 DEF Range
<1>7. ListOk(mod_list) BY <1>4, <1>5, <1>6 DEF ListOk
<1> QED BY <1>1, <1>2, <1>7 DEF LoaderInv

(* Every step of the boot keeps the list of modules in order. *)
THEOREM LoaderInvariant == LoaderSpec => []LoaderInv
<1>1. LoaderInv /\ [LoaderNext]_loaderVars => LoaderInv'
  <2> SUFFICES ASSUME LoaderInv, [LoaderNext]_loaderVars PROVE LoaderInv' OBVIOUS
  <2>1. CASE OpenInitrd
    <3>1. /\ next = 0 /\ next' = 1 /\ headers' = InitInitrd(archive) /\ archive' = archive
          /\ modtab' = modtab /\ mod_list' = mod_list /\ mod_address' = mod_address /\ areas' = areas
      BY <2>1 DEF OpenInitrd
    <3> QED BY <3>1 DEF LoaderInv, AreasOk
  <2>2. CASE LoadNext
    <3>1. /\ next \in DOMAIN modtab /\ next' = next + 1 /\ archive' = archive
          /\ modtab' = modtab /\ headers' = headers
      BY <2>2 DEF LoadNext
    <3>2. modtab \in Seq(DOMAIN Object) /\ next \in Nat BY LoaderAssumption DEF LoaderInv
    <3>3. modtab[next] \in DOMAIN Object /\ next > 0 BY <3>1, <3>2
    <3>4. ListOk(mod_list)' /\ AreasOk'
      <4>1. CASE modtab[next] \in Range(headers)
        <5>1. LoadModule(Object[modtab[next]]) BY <2>2, <4>1 DEF LoadNext
        <5> QED BY <3>3, <5>1, LoadModuleInv
      <4>2. CASE modtab[next] \notin Range(headers)
        <5>1. mod_list' = mod_list /\ mod_address' = mod_address /\ areas' = areas
          BY <2>2, <4>2 DEF LoadNext
        <5> QED BY <5>1 DEF LoaderInv, AreasOk
      <4> QED BY <4>1, <4>2
    <3> QED BY <3>1, <3>2, <3>3, <3>4 DEF LoaderInv
  <2>3. CASE LoaderDone \/ UNCHANGED loaderVars
    <3>1. UNCHANGED loaderVars BY <2>3 DEF LoaderDone
    <3> QED BY <3>1 DEF LoaderInv, AreasOk, loaderVars
  <2> QED BY <2>1, <2>2, <2>3 DEF LoaderNext
<1> QED BY <1>1, LoaderInitInv, PTL DEF LoaderSpec

(* In whatever order the table names modules, and whichever fail to load,  *)
(* the modules of the list have their dependencies before them, links are  *)
(* the other way round, and no two objects share a page.                   *)
THEOREM ModulesAlwaysWellFormed == LoaderSpec => []ModulesWellFormed
<1>1. LoaderInv => ModulesWellFormed
  BY DEF LoaderInv, ListOk, AreasOk, Depends, ModulesWellFormed
<1> QED BY <1>1, LoaderInvariant, PTL

(* Every file of the archive is listed, unless one before it has a single  *)
(* byte in its last block.                                                 *)
THEOREM ArchiveAlwaysListed == LoaderSpec => []ArchiveListed
<1>1. LoaderInv => ArchiveListed
  <2> SUFFICES ASSUME LoaderInv, next > 0, NEW i \in DOMAIN archive, Clean(archive, i)
               PROVE  archive[i].name \in Range(headers)
    BY DEF ArchiveListed, Clean
  <2>1. Files(archive) /\ headers = InitInitrd(archive) BY LoaderAssumption DEF LoaderInv, Files
  <2> QED BY <2>1, WalkFinds
<1> QED BY <1>1, LoaderInvariant, PTL

(* A relocation of a loaded module has the address of its symbol in the    *)
(* first place that defines it, whatever the caches held, unless another   *)
(* name has the same hash.                                                 *)
THEOREM SymbolsAlwaysRight == LoaderSpec => []SymbolsRight
<1>1. ASSUME LoaderInv, NEW i \in DOMAIN mod_list, NEW r \in mod_list[i].resolved, Alone(r[1])
      PROVE  LET places == <<i>> \o mod_list[i].depends
                 in == {k \in DOMAIN places : r[1] \in ObjectOf(mod_list[places[k]]).symbols}
             IN  in # {} /\ r[2] = {SymbolAddress(mod_list[places[Min(in)]], r[1])}
  <2>1. PICK m, name, deps : m = mod_list[i] /\ name = r[1] /\ deps = m.depends OBVIOUS
  <2>2. PICK places : places = <<i>> \o deps OBVIOUS
  <2>3. PICK in : in = {k \in DOMAIN places : name \in ObjectOf(mod_list[places[k]]).symbols} OBVIOUS
  <2>4. i \in Nat /\ deps \in Seq(Nat)
    <3>1. ListOk(mod_list) BY <1>1 DEF LoaderInv
    <3> QED BY <1>1, <2>1, <3>1, InList
  <2>5. PICK d \in Nat : d = Len(deps) /\ DOMAIN deps = 1..d BY <2>4
  <2>6. /\ DOMAIN places = 1..(d + 1) /\ places[1] = i
        /\ \A k \in 1..d : places[k + 1] = deps[k]
    BY <2>2, <2>4, <2>5
  <2>7. Found(mod_list, m, name, r[2]) BY <1>1, <2>1 DEF LoaderInv, ListOk, Resolved
  <2>8. \E k \in in : /\ \A g \in in : k <= g
                      /\ r[2] = {SymbolAddress(mod_list[places[k]], name)}
    <3>1. CASE name \in ObjectOf(m).symbols
      <4>1. r[2] = {SymbolAddress(m, name)} BY <2>7, <3>1 DEF Found
      <4>2. 1 \in in /\ \A g \in in : 1 <= g BY <2>1, <2>3, <2>5, <2>6, <3>1
      <4> QED BY <2>1, <2>6, <4>1, <4>2
    <3>2. CASE name \notin ObjectOf(m).symbols
      <4>1. PICK k \in 1..d :
              /\ name \in ObjectOf(mod_list[deps[k]]).symbols
              /\ \A l \in 1..(k - 1) : name \notin ObjectOf(mod_list[deps[l]]).symbols
              /\ r[2] = {SymbolAddress(mod_list[deps[k]], name)}
        BY <2>1, <2>5, <2>7, <3>2 DEF Found
      <4>2. k + 1 \in DOMAIN places /\ places[k + 1] = deps[k] BY <2>5, <2>6
      <4>3. k + 1 \in in BY <2>3, <4>1, <4>2
      <4>4. ASSUME NEW g \in in, g < k + 1 PROVE FALSE
        <5>1. g \in 1..(d + 1) /\ name \in ObjectOf(mod_list[places[g]]).symbols BY <2>3, <2>6
        <5>2. g # 1 BY <2>1, <2>6, <3>2, <5>1
        <5>3. PICK l \in 1..(k - 1) : g = l + 1
          <6>1. g - 1 \in 1..(k - 1) /\ g = (g - 1) + 1 BY <4>4, <5>1, <5>2
          <6> QED BY <6>1
        <5>4. l \in 1..d /\ places[g] = deps[l] BY <2>6, <5>3
        <5> QED BY <4>1, <5>1, <5>3, <5>4
      <4>5. \A g \in in : g \in Nat BY <2>3, <2>6
      <4>6. \A g \in in : k + 1 <= g BY <4>4, <4>5
      <4> QED BY <4>1, <4>2, <4>3, <4>6
    <3> QED BY <3>1, <3>2
  <2>9. in \subseteq Nat /\ in # {} BY <2>3, <2>6, <2>8
  <2>10. Min(in) \in in /\ \A g \in in : Min(in) <= g BY <2>9, MinIsLeast
  <2>11. PICK k \in in : (\A g \in in : k <= g) /\ r[2] = {SymbolAddress(mod_list[places[k]], name)}
    BY <2>8
  <2>12. k = Min(in)
    <3>1. PICK x \in in : x = Min(in) BY <2>10
    <3>2. k <= x /\ x <= k /\ k \in Nat /\ x \in Nat BY <2>9, <2>10, <2>11, <3>1
    <3> QED BY <3>1, <3>2
  <2> QED BY <2>1, <2>2, <2>3, <2>9, <2>11, <2>12
<1>2. LoaderInv => SymbolsRight BY <1>1 DEF SymbolsRight, Alone
<1> QED BY <1>2, LoaderInvariant, PTL

=============================================================================
