----------------------------- MODULE PipesProofs -----------------------------
(***************************************************************************)
(* Proofs about the ring of pipe.c and about Pipes.                        *)
(***************************************************************************)
EXTENDS Pipes, FiniteSetTheorems, TLAPS

-----------------------------------------------------------------------------
(* Division, for a divisor that is no constant.  Products are given names  *)
(* before they are added.                                                  *)

(* A product of natural numbers is one. *)
LEMMA Product == ASSUME NEW x \in Nat, NEW y \in Nat PROVE x * y \in Nat
OBVIOUS

(* The distributive law *)
LEMMA Distributes ==
  ASSUME NEW x \in Nat, NEW y \in Nat, NEW z \in Nat
  PROVE  x * (y + z) = x * y + x * z
OBVIOUS

(* The associative law *)
LEMMA Associates ==
  ASSUME NEW x \in Nat, NEW y \in Nat, NEW z \in Nat
  PROVE  (x * y) * z = x * (y * z)
OBVIOUS

(* Every number is a multiple of n and a remainder. *)
LEMMA DivMod ==
  ASSUME NEW n \in Nat \ {0}, NEW x \in Nat
  PROVE  \E q \in Nat, r \in 0..(n - 1) : x = n * q + r /\ r = x % n
<1>1. x \div n \in Nat OBVIOUS
<1>2. x % n \in 0..(n - 1) OBVIOUS
<1>3. x = n * (x \div n) + (x % n) OBVIOUS
<1> QED BY <1>1, <1>2, <1>3, Zenon

(* The remainder is the only one. *)
LEMMA ModUnique ==
  ASSUME NEW n \in Nat \ {0}, NEW q \in Nat, NEW r \in 0..(n - 1)
  PROVE  (n * q + r) % n = r
OBVIOUS

(* A position of a ring of n, advanced at most once around *)
Pos(x, n) == IF x < n THEN x ELSE x - n

(* That is what % makes of it: read and write positions of the ring. *)
LEMMA ModPos ==
  ASSUME NEW n \in Nat \ {0}, NEW x \in 0..(n - 1), NEW y \in 0..n
  PROVE  x % n = x /\ (x + y) % n = Pos(x + y, n)
BY DEF Pos

(* Reducing a summand first changes nothing. *)
LEMMA ModAdd ==
  ASSUME NEW n \in Nat \ {0}, NEW x \in Nat, NEW y \in Nat
  PROVE  ((x % n) + y) % n = (x + y) % n
<1>1. PICK q \in Nat, r \in 0..(n - 1) : x = n * q + r /\ r = x % n BY DivMod
<1>2. PICK z \in Nat : z = r + y OBVIOUS
<1>3. PICK p \in Nat, s \in 0..(n - 1) : z = n * p + s /\ s = z % n BY DivMod
<1>4. x + y = n * (q + p) + s
  <2>1. PICK u \in Nat : u = n * q BY Product
  <2>2. PICK v \in Nat : v = n * p BY Product
  <2>3. n * (q + p) = u + v BY <2>1, <2>2, Distributes
  <2>4. x = u + r /\ z = v + s BY <1>1, <1>3, <2>1, <2>2
  <2> QED BY <1>2, <2>3, <2>4
<1>5. (n * (q + p) + s) % n = s
  <2>1. q + p \in Nat OBVIOUS
  <2> QED BY <2>1, ModUnique
<1> QED BY <1>1, <1>2, <1>3, <1>4, <1>5

(* Nor does reducing first modulo a multiple of n: writep wraps at Wrap. *)
LEMMA ModMod ==
  ASSUME NEW n \in Nat \ {0}, NEW k \in Nat \ {0}, k % n = 0, NEW x \in Nat
  PROVE  (x % k) % n = x % n
<1>1. PICK m \in Nat : k = n * m
  <2>1. PICK q \in Nat, r \in 0..(n - 1) : k = n * q + r /\ r = k % n BY DivMod
  <2>2. PICK u \in Nat : u = n * q BY Product
  <2>3. k = u BY <2>1, <2>2
  <2> QED BY <2>2, <2>3
<1>2. PICK q \in Nat, z \in 0..(k - 1) : x = k * q + z /\ z = x % k BY DivMod
<1>3. z \in Nat OBVIOUS
<1>4. PICK p \in Nat, r \in 0..(n - 1) : z = n * p + r /\ r = z % n BY <1>3, DivMod
<1>5. k * q = n * (m * q) BY <1>1, Associates
<1>6. PICK u \in Nat : u = m * q BY Product
<1>7. x = n * (u + p) + r
  <2>1. PICK v \in Nat : v = n * u BY Product
  <2>2. PICK w \in Nat : w = n * p BY Product
  <2>3. n * (u + p) = v + w BY <2>1, <2>2, Distributes
  <2>4. k * q = v BY <1>5, <1>6, <2>1
  <2>5. x = v + z /\ z = w + r BY <1>2, <1>4, <2>4, <2>2
  <2> QED BY <2>3, <2>5
<1>8. u + p \in Nat OBVIOUS
<1>9. x % n = r BY <1>7, <1>8, ModUnique
<1> QED BY <1>2, <1>4, <1>9

-----------------------------------------------------------------------------
(* The ring *)

(* The bytes a ring holds, oldest first *)
Held(r) == BytesRead(r, Size)

(* avail bytes lie between the reading and the writing position. *)
RingInv(r) ==
  /\ r \in RingType
  /\ (r.readp + r.avail) % Size = r.writep % Size
  /\ \A i \in 0..(r.avail - 1) : r.buf[(r.readp + i) % Size] \in Byte

(* s is the newest Size - 1 of the first n bytes of t. *)
NewestOf(s, t, n) ==
  /\ Len(s) = IF n <= Size - 1 THEN n ELSE Size - 1
  /\ \A i \in 1..Len(s) : s[i] = t[n - Len(s) + i]

(* A new ring satisfies the invariant. *)
LEMMA NewRingInv == RingInv(NewRing)
<1>1. Size \in Nat /\ Size >= 2 /\ Wrap \in Nat \ {0} BY RingAssumption
<1>2. 0 \in Index /\ 0 \in 0..(Wrap - 1) BY <1>1 DEF Index
<1>3. NewRing \in RingType BY <1>2 DEF NewRing, RingType
<1>4. NewRing.avail = 0 /\ NewRing.readp = 0 /\ NewRing.writep = 0 BY DEF NewRing
<1> QED BY <1>1, <1>3, <1>4 DEF RingInv

(* What a ring holds, position by position *)
LEMMA HeldFacts ==
  ASSUME NEW r, RingInv(r)
  PROVE  /\ Held(r) \in Seq(Byte) /\ Len(Held(r)) = r.avail
         /\ \A i \in 1..r.avail : Held(r)[i] = r.buf[(r.readp + i - 1) % Size]
<1>1. Size \in Nat /\ Size >= 2 BY RingAssumption
<1>2. r.avail \in Index /\ r.readp \in Index BY DEF RingInv, RingType
<1>3. r.avail \in Nat /\ r.avail < Size /\ r.readp \in Nat BY <1>1, <1>2 DEF Index
<1>4. Readable(r, Size) = r.avail BY <1>1, <1>3 DEF Readable
<1>5. Held(r) = [i \in 1..r.avail |-> r.buf[(r.readp + i - 1) % Size]]
  BY <1>4 DEF Held, BytesRead
<1>6. ASSUME NEW i \in 1..r.avail PROVE r.buf[(r.readp + i - 1) % Size] \in Byte
  <2>1. i - 1 \in 0..(r.avail - 1) BY <1>3
  <2>2. r.readp + i - 1 = r.readp + (i - 1) BY <1>3
  <2> QED BY <2>1, <2>2 DEF RingInv
<1> QED BY <1>3, <1>5, <1>6

(* Where the bytes of a ring lie before and after a byte is written at w:  *)
(* the ring has n places, begins at rd and then rd2, and holds av and then *)
(* av2 bytes.                                                              *)
Places(n, rd, av, w, rd2, av2) ==
  /\ w \in 0..(n - 1) /\ rd2 \in 0..(n - 1) /\ av2 \in 1..(n - 1)
  /\ Pos(rd2 + av2, n) = Pos(w + 1, n)
  /\ \A i \in 0..(av2 - 1) :
       LET j == IF av = n - 1 THEN i + 1 ELSE i
       IN  /\ Pos(rd2 + i, n) \in 0..(n - 1)
           /\ i = av2 - 1 => Pos(rd2 + i, n) = w
           /\ i # av2 - 1 => /\ Pos(rd2 + i, n) # w /\ j \in 0..(av - 1)
                             /\ Pos(rd2 + i, n) = Pos(rd + j, n)

(* That is where they lie. *)
LEMMA PutPlaces ==
  ASSUME NEW n \in Nat, n >= 2, NEW rd \in 0..(n - 1), NEW av \in 0..(n - 1), NEW w, NEW rd2, NEW av2,
         w = Pos(rd + av, n),
         rd2 = IF av = n - 1 THEN Pos(rd + 1, n) ELSE rd,
         av2 = IF av = n - 1 THEN av ELSE av + 1
  PROVE  Places(n, rd, av, w, rd2, av2)
<1>1. CASE av = n - 1 BY <1>1 DEF Pos, Places
<1>2. CASE av # n - 1 BY <1>2 DEF Pos, Places
<1> QED BY <1>1, <1>2

(* The fields that Put leaves *)
LEMMA PutFields ==
  ASSUME NEW r \in RingType, NEW b
  PROVE  /\ Put(r, b).buf = [r.buf EXCEPT ![r.writep % Size] = b]
         /\ Put(r, b).avail = IF r.avail = Size - 1 THEN r.avail ELSE r.avail + 1
         /\ Put(r, b).writep = (r.writep + 1) % Wrap
         /\ Put(r, b).readp = IF r.avail = Size - 1 THEN (r.readp + 1) % Size ELSE r.readp
         /\ Put(r, b) \in [buf : {Put(r, b).buf}, avail : {Put(r, b).avail},
                           writep : {Put(r, b).writep}, readp : {Put(r, b).readp}]
<1>1. Put(r, b).buf = [r.buf EXCEPT ![r.writep % Size] = b] BY DEF Put, RingType
<1>2. Put(r, b).avail = IF r.avail = Size - 1 THEN r.avail ELSE r.avail + 1
  BY DEF Put, RingType
<1>3. Put(r, b).writep = (r.writep + 1) % Wrap BY DEF Put, RingType
<1>4. Put(r, b).readp = IF r.avail = Size - 1 THEN (r.readp + 1) % Size ELSE r.readp
  BY DEF Put, RingType
<1>5. Put(r, b) \in [buf : {[r.buf EXCEPT ![r.writep % Size] = b]},
                     avail : {IF r.avail = Size - 1 THEN r.avail ELSE r.avail + 1},
                     writep : {(r.writep + 1) % Wrap},
                     readp : {IF r.avail = Size - 1 THEN (r.readp + 1) % Size ELSE r.readp}]
  BY DEF Put, RingType
<1> QED BY <1>1, <1>2, <1>3, <1>4, <1>5

(* Put writes one byte: the ring stays one, and if full it lost its oldest. *)
LEMMA PutFacts ==
  ASSUME NEW r, RingInv(r), NEW b \in Byte
  PROVE  LET s == Put(r, b)
             full == r.avail = Size - 1
         IN  /\ RingInv(s)
             /\ s.avail = IF full THEN r.avail ELSE r.avail + 1
             /\ Held(s)[s.avail] = b
             /\ \A i \in 1..(s.avail - 1) :
                  Held(s)[i] = Held(r)[IF full THEN i + 1 ELSE i]
<1>1. Size \in Nat /\ Size >= 2 /\ Size \in Nat \ {0} /\ Wrap \in Nat \ {0} /\ Wrap % Size = 0
  BY RingAssumption
<1>2. PICK rd \in 0..(Size - 1), av \in 0..(Size - 1), wp \in 0..(Wrap - 1) :
        rd = r.readp /\ av = r.avail /\ wp = r.writep
  BY DEF RingInv, RingType, Index
<1>3. PICK s : s = Put(r, b) OBVIOUS
<1> DEFINE full == av = Size - 1
<1>4. PICK w : w = wp % Size OBVIOUS
<1>5. PICK rd2 : rd2 = IF full THEN (rd + 1) % Size ELSE rd OBVIOUS
<1>6. PICK av2 : av2 = IF full THEN av ELSE av + 1 OBVIOUS
<1>7. /\ s.buf = [r.buf EXCEPT ![w] = b] /\ s.avail = av2 /\ s.readp = rd2
      /\ s.writep = (wp + 1) % Wrap
      /\ s \in [buf : {s.buf}, avail : {s.avail}, writep : {s.writep}, readp : {s.readp}]
  BY <1>2, <1>3, <1>4, <1>5, <1>6, PutFields DEF RingInv
<1>8. w = Pos(rd + av, Size)
  <2>1. (rd + av) % Size = w BY <1>2, <1>4 DEF RingInv
  <2>2. av \in 0..Size BY <1>1
  <2> QED BY <1>1, <2>1, <2>2, ModPos
<1>9. rd2 = IF full THEN Pos(rd + 1, Size) ELSE rd
  <2>1. 1 \in 0..Size BY <1>1
  <2> QED BY <1>1, <1>5, <2>1, ModPos
<1>10. /\ Places(Size, rd, av, w, rd2, av2)
       /\ w \in 0..(Size - 1) /\ rd2 \in 0..(Size - 1) /\ av2 \in 1..(Size - 1)
       /\ Pos(rd2 + av2, Size) = Pos(w + 1, Size)
  <2>1. Places(Size, rd, av, w, rd2, av2) BY <1>1, <1>6, <1>8, <1>9, PutPlaces
  <2> QED BY <2>1 DEF Places
<1>11. r.buf \in [0..(Size - 1) -> Byte \cup {NoByte}] BY DEF RingInv, RingType, Index
<1>12. s \in RingType
  <2>1. s.buf \in [0..(Size - 1) -> Byte \cup {NoByte}] BY <1>7, <1>11
  <2>2. s.writep \in 0..(Wrap - 1)
    <3>1. wp + 1 \in Nat BY <1>1
    <3> QED BY <1>1, <1>7, <3>1
  <2>3. s.avail \in 0..(Size - 1) /\ s.readp \in 0..(Size - 1) BY <1>1, <1>7, <1>10
  <2> QED BY <1>7, <2>1, <2>2, <2>3 DEF RingType, Index
<1>13. (s.readp + s.avail) % Size = s.writep % Size
  <2>1. wp \in Nat /\ wp + 1 \in Nat /\ 1 \in Nat /\ 1 \in 0..Size BY <1>1
  <2>2. s.writep % Size = (wp + 1) % Size BY <1>1, <1>7, <2>1, ModMod
  <2>3. (wp + 1) % Size = (w + 1) % Size BY <1>1, <1>4, <2>1, ModAdd
  <2>4. (w + 1) % Size = Pos(w + 1, Size) BY <1>1, <1>10, <2>1, ModPos
  <2>5. av2 \in 0..Size BY <1>1, <1>10
  <2>6. (rd2 + av2) % Size = Pos(rd2 + av2, Size) BY <1>1, <1>10, <2>5, ModPos
  <2> QED BY <1>7, <1>10, <2>2, <2>3, <2>4, <2>6
(* The place of every byte that is kept, and of the new one *)
<1>14. ASSUME NEW i \in 0..(av2 - 1)
       PROVE  /\ i = av2 - 1 => s.buf[(rd2 + i) % Size] = b
              /\ i # av2 - 1 =>
                   \E j \in 0..(av - 1) : /\ j = IF full THEN i + 1 ELSE i
                                          /\ s.buf[(rd2 + i) % Size] = r.buf[(rd + j) % Size]
  <2>1. PICK j : j = IF full THEN i + 1 ELSE i OBVIOUS
  <2>2. /\ Pos(rd2 + i, Size) \in 0..(Size - 1)
        /\ i = av2 - 1 => Pos(rd2 + i, Size) = w
        /\ i # av2 - 1 => /\ Pos(rd2 + i, Size) # w /\ j \in 0..(av - 1)
                          /\ Pos(rd2 + i, Size) = Pos(rd + j, Size)
    BY <1>10, <2>1 DEF Places
  <2>3. i \in 0..Size BY <1>1, <1>10
  <2>4. (rd2 + i) % Size = Pos(rd2 + i, Size) BY <1>1, <1>10, <2>3, ModPos
  <2>5. CASE i = av2 - 1 BY <1>7, <1>11, <2>2, <2>4, <2>5
  <2>6. CASE i # av2 - 1
    <3>1. j \in 0..(av - 1) /\ j \in 0..Size BY <1>1, <2>2, <2>6
    <3>2. (rd + j) % Size = Pos(rd + j, Size) BY <1>1, <3>1, ModPos
    <3>3. s.buf[(rd2 + i) % Size] = r.buf[(rd + j) % Size]
      BY <1>7, <1>11, <2>2, <2>4, <2>6, <3>2
    <3> QED BY <2>1, <2>6, <3>1, <3>3
  <2> QED BY <2>5, <2>6
<1>15. \A i \in 0..(av2 - 1) : s.buf[(rd2 + i) % Size] \in Byte
  BY <1>2, <1>14 DEF RingInv
<1>16. RingInv(s) BY <1>7, <1>12, <1>13, <1>15 DEF RingInv
<1>17. Held(s)[s.avail] = b
  <2>1. av2 \in 1..av2 /\ av2 - 1 \in 0..(av2 - 1) /\ rd2 + av2 - 1 = rd2 + (av2 - 1)
    BY <1>1, <1>10
  <2> QED BY <1>7, <1>14, <1>16, <2>1, HeldFacts
<1>18. ASSUME NEW i \in 1..(av2 - 1)
       PROVE  Held(s)[i] = Held(r)[IF full THEN i + 1 ELSE i]
  <2>1. i \in 1..av2 /\ i - 1 \in 0..(av2 - 1) /\ i - 1 # av2 - 1 /\ rd2 + i - 1 = rd2 + (i - 1)
    BY <1>1, <1>10
  <2>2. Held(s)[i] = s.buf[(rd2 + (i - 1)) % Size] BY <1>7, <1>16, <2>1, HeldFacts
  <2>3. PICK j \in 0..(av - 1) : /\ j = IF full THEN (i - 1) + 1 ELSE i - 1
                                 /\ s.buf[(rd2 + (i - 1)) % Size] = r.buf[(rd + j) % Size]
    BY <1>14, <2>1
  <2>4. j + 1 \in 1..av /\ rd + (j + 1) - 1 = rd + j /\ j + 1 = (IF full THEN i + 1 ELSE i)
    BY <1>1, <1>10, <2>3
  <2>5. Held(r)[j + 1] = r.buf[(rd + j) % Size] BY <1>2, <2>4, HeldFacts
  <2> QED BY <2>2, <2>3, <2>4, <2>5
<1> QED BY <1>2, <1>3, <1>6, <1>7, <1>16, <1>17, <1>18

-----------------------------------------------------------------------------
(* pipe_write's loop *)
PutStep(c, d, r, b) == Put(r, b)
PutLoop == INSTANCE FoldTheorems WITH op <- PutStep

(* pipe_write writes one byte after the other. *)
LEMMA WriteRun ==
  ASSUME NEW r, NEW bs \in Seq(Byte)
  PROVE  \E F : /\ F[0] = r
                /\ \A m \in 0..(Len(bs) - 1) : F[m + 1] = Put(F[m], bs[m + 1])
                /\ F[Len(bs)] = Write(r, bs)
<1>1. PICK F : PutLoop!Runs(F, 0, 0, r, bs) BY PutLoop!FoldRun
<1>2. PutLoop!Loop(0, 0, r, bs) = Write(r, bs)
  BY Zenon DEF PutLoop!Loop, PutStep, Write, PutLoop!FoldLeft, FoldLeft,
               PutLoop!MapThenFoldSet, MapThenFoldSet, PutLoop!Max, Max
<1> QED BY <1>1, <1>2, Zenon DEF PutLoop!Runs, PutStep

(* Writing keeps the invariant, and the ring then holds the newest bytes   *)
(* of what it held and what was written.                                   *)
LEMMA WriteFacts ==
  ASSUME NEW r, RingInv(r), NEW bs \in Seq(Byte)
  PROVE  /\ RingInv(Write(r, bs))
         /\ NewestOf(Held(Write(r, bs)), Held(r) \o bs, r.avail + Len(bs))
<1>1. PICK F : /\ F[0] = r
               /\ \A m \in 0..(Len(bs) - 1) : F[m + 1] = Put(F[m], bs[m + 1])
               /\ F[Len(bs)] = Write(r, bs)
  BY WriteRun
<1>2. PICK t : t = Held(r) \o bs OBVIOUS
<1>3. PICK n : n = Len(bs) OBVIOUS
<1>4. PICK a : a = r.avail OBVIOUS
<1>5. n \in Nat /\ Size \in Nat /\ Size >= 2 /\ a \in 0..(Size - 1)
  BY <1>3, <1>4, RingAssumption DEF RingInv, RingType, Index
<1>6. /\ \A i \in 1..a : t[i] = Held(r)[i]
      /\ \A k \in 1..n : t[a + k] = bs[k]
  <2>1. Held(r) \in Seq(Byte) /\ Len(Held(r)) = a BY <1>4, HeldFacts
  <2> QED BY <1>2, <1>3, <1>5, <2>1
<1> DEFINE S == {k \in Nat : k <= n => RingInv(F[k]) /\ NewestOf(Held(F[k]), t, a + k)}
<1>7. 0 \in S
  <2>1. Len(Held(r)) = a /\ a + 0 = a /\ \A i \in 1..a : a - a + i = i BY <1>4, <1>5, HeldFacts
  <2>2. NewestOf(Held(r), t, a) BY <1>5, <1>6, <2>1 DEF NewestOf
  <2> QED BY <1>1, <2>1, <2>2
<1>8. ASSUME NEW k \in Nat, k \in S PROVE k + 1 \in S
  <2> SUFFICES ASSUME k + 1 <= n PROVE RingInv(F[k + 1]) /\ NewestOf(Held(F[k + 1]), t, a + (k + 1))
    OBVIOUS
  <2>1. PICK s : s = F[k] OBVIOUS
  <2>2. PICK b : b = bs[k + 1] OBVIOUS
  <2>3. b \in Byte /\ k \in 0..(n - 1) /\ k + 1 \in 1..n BY <1>3, <1>5, <2>2
  <2>4. F[k + 1] = Put(s, b) BY <1>1, <1>3, <2>1, <2>2, <2>3
  <2>5. RingInv(s) /\ NewestOf(Held(s), t, a + k) BY <1>5, <1>8, <2>1
  <2>6. PICK v : v = s.avail OBVIOUS
  <2>7. PICK u : u = Put(s, b) OBVIOUS
  <2>8. /\ RingInv(u)
        /\ u.avail = IF v = Size - 1 THEN v ELSE v + 1
        /\ Held(u)[u.avail] = b
        /\ \A i \in 1..(u.avail - 1) : Held(u)[i] = Held(s)[IF v = Size - 1 THEN i + 1 ELSE i]
    BY <2>3, <2>5, <2>6, <2>7, PutFacts
  <2>9. v \in 0..(Size - 1) /\ Len(Held(s)) = v /\ Len(Held(u)) = u.avail
    BY <2>5, <2>6, <2>8, HeldFacts DEF RingInv, RingType, Index
  <2>10. v = IF a + k <= Size - 1 THEN a + k ELSE Size - 1 BY <2>5, <2>9 DEF NewestOf
  <2>11. \A i \in 1..v : Held(s)[i] = t[((a + k) - v) + i]
    <3>1. \A i \in 1..Len(Held(s)) : Held(s)[i] = t[((a + k) - Len(Held(s))) + i]
      BY <2>5, Zenon DEF NewestOf
    <3> QED BY <2>9, <3>1, Zenon
  <2>12. PICK l : l = u.avail OBVIOUS
  <2>13. l = IF a + (k + 1) <= Size - 1 THEN a + (k + 1) ELSE Size - 1
    BY <1>5, <2>8, <2>9, <2>10, <2>12
  <2>14. ASSUME NEW i \in 1..l PROVE Held(u)[i] = t[((a + (k + 1)) - l) + i]
    <3>1. CASE i = l
      <4>1. ((a + (k + 1)) - l) + i = a + (k + 1) BY <1>5, <2>13, <3>1
      <4> QED BY <1>6, <2>2, <2>3, <2>8, <2>12, <3>1, <4>1
    <3>2. CASE i # l
      <4>1. PICK j : j = IF v = Size - 1 THEN i + 1 ELSE i OBVIOUS
      <4>2. i \in 1..(l - 1) /\ j \in 1..v /\ ((a + (k + 1)) - l) + i = ((a + k) - v) + j
        BY <1>5, <2>8, <2>9, <2>10, <2>12, <2>13, <3>2, <4>1
      <4>3. Held(u)[i] = Held(s)[j] BY <2>8, <2>12, <4>1, <4>2
      <4> QED BY <2>11, <4>2, <4>3
    <3> QED BY <3>1, <3>2
  <2>15. Len(Held(u)) = l BY <2>9, <2>12
  <2>16. \A i \in 1..Len(Held(u)) : Held(u)[i] = t[((a + (k + 1)) - Len(Held(u))) + i]
    BY <2>14, <2>15, Zenon
  <2>17. NewestOf(Held(u), t, a + (k + 1)) BY <2>13, <2>15, <2>16, Zenon DEF NewestOf
  <2> QED BY <2>4, <2>7, <2>8, <2>17
<1>9. Nat \subseteq S
  <2> HIDE DEF S
  <2> QED BY <1>7, <1>8, PutLoop!SetInduction
<1>10. n <= n BY <1>5
<1> QED BY <1>1, <1>2, <1>3, <1>4, <1>5, <1>9, <1>10

(* Reading takes bytes from the front of what the ring holds. *)
LEMMA ReadFacts ==
  ASSUME NEW r, RingInv(r), NEW n \in Nat
  PROVE  LET m == Readable(r, n)
         IN  /\ m \in 0..r.avail /\ m = IF n < r.avail THEN n ELSE r.avail
             /\ RingInv(AfterRead(r, n))
             /\ BytesRead(r, n) = [i \in 1..m |-> Held(r)[i]]
             /\ Len(Held(AfterRead(r, n))) = r.avail - m
             /\ \A i \in 1..(r.avail - m) : Held(AfterRead(r, n))[i] = Held(r)[m + i]
<1>1. Size \in Nat /\ Size >= 2 /\ Size \in Nat \ {0} BY RingAssumption
<1>2. PICK rd \in 0..(Size - 1), av \in 0..(Size - 1), wp \in 0..(Wrap - 1) :
        rd = r.readp /\ av = r.avail /\ wp = r.writep
  BY DEF RingInv, RingType, Index
<1>3. PICK m : m = Readable(r, n) OBVIOUS
<1>4. m \in 0..av /\ m = (IF n < av THEN n ELSE av) BY <1>1, <1>2, <1>3 DEF Readable
<1>5. PICK s : s = AfterRead(r, n) OBVIOUS
<1>6. PICK rd2 : rd2 = (rd + m) % Size OBVIOUS
<1>7. /\ s.buf = r.buf /\ s.avail = av - m /\ s.readp = rd2 /\ s.writep = wp
      /\ s \in [buf : {r.buf}, avail : {av - m}, writep : {wp}, readp : {rd2}]
  BY <1>2, <1>3, <1>5, <1>6 DEF AfterRead, RingInv, RingType
<1>8. rd2 = Pos(rd + m, Size) /\ rd2 \in 0..(Size - 1)
  <2>1. m \in 0..Size BY <1>1, <1>4
  <2>2. rd2 = Pos(rd + m, Size) BY <1>1, <1>6, <2>1, ModPos
  <2> QED BY <1>1, <2>1, <2>2 DEF Pos
<1>9. ASSUME NEW i \in 0..(av - m) PROVE (rd2 + i) % Size = (rd + (m + i)) % Size
  <2>1. i \in 0..Size /\ m + i \in 0..Size /\ m + i <= Size - 1 BY <1>1, <1>4
  <2>2. (rd2 + i) % Size = Pos(rd2 + i, Size) BY <1>1, <1>8, <2>1, ModPos
  <2>3. (rd + (m + i)) % Size = Pos(rd + (m + i), Size) BY <1>1, <2>1, ModPos
  <2>4. Pos(rd2 + i, Size) = Pos(rd + (m + i), Size) BY <1>1, <1>8, <2>1, <1>4 DEF Pos
  <2> QED BY <2>2, <2>3, <2>4
<1>10. RingInv(s)
  <2>1. s \in RingType
    <3>1. r.buf \in [Index -> Byte \cup {NoByte}] BY DEF RingInv, RingType
    <3>2. av - m \in 0..(Size - 1) BY <1>1, <1>4
    <3> QED BY <1>7, <1>8, <3>1, <3>2 DEF RingType, Index
  <2>2. (rd2 + (av - m)) % Size = wp % Size
    <3>1. av - m \in 0..(av - m) /\ m + (av - m) = av BY <1>1, <1>4
    <3>2. (rd2 + (av - m)) % Size = (rd + av) % Size BY <1>9, <3>1
    <3> QED BY <1>2, <3>2 DEF RingInv
  <2>3. ASSUME NEW i \in 0..(av - m - 1) PROVE r.buf[(rd2 + i) % Size] \in Byte
    <3>1. i \in 0..(av - m) /\ m + i \in 0..(av - 1) BY <1>1, <1>4
    <3> QED BY <1>2, <1>9, <3>1 DEF RingInv
  <2> QED BY <1>7, <2>1, <2>2, <2>3 DEF RingInv
<1>11. BytesRead(r, n) = [i \in 1..m |-> Held(r)[i]]
  <2>1. BytesRead(r, n) = [i \in 1..m |-> r.buf[(r.readp + i - 1) % Size]]
    BY <1>3 DEF BytesRead
  <2>2. \A i \in 1..m : i \in 1..r.avail BY <1>1, <1>2, <1>4
  <2>3. \A i \in 1..m : Held(r)[i] = r.buf[(r.readp + i - 1) % Size] BY <2>2, HeldFacts
  <2> QED BY <2>1, <2>3
<1>12. Len(Held(s)) = av - m BY <1>7, <1>10, HeldFacts
<1>13. ASSUME NEW i \in 1..(av - m) PROVE Held(s)[i] = Held(r)[m + i]
  <2>1. /\ i - 1 \in 0..(av - m) /\ m + i \in 1..av
        /\ rd2 + i - 1 = rd2 + (i - 1) /\ rd + (m + i) - 1 = rd + (m + (i - 1))
    BY <1>1, <1>4, <1>8
  <2>2. Held(s)[i] = r.buf[(rd2 + (i - 1)) % Size] BY <1>7, <1>10, <2>1, HeldFacts
  <2>3. Held(r)[m + i] = r.buf[(rd + (m + (i - 1))) % Size] BY <1>2, <2>1, HeldFacts
  <2> QED BY <1>9, <2>1, <2>2, <2>3
<1> QED BY <1>2, <1>3, <1>4, <1>5, <1>10, <1>11, <1>12, <1>13

-----------------------------------------------------------------------------
(* The object tables *)

(* There are finitely many descriptors. *)
LEMMA FdFinite == IsFiniteSet(Fd) /\ 0 \in Fd /\ 1 \in Fd /\ 2 \in Fd
BY FS_Interval, DlistAssumption, PipesAssumption DEF Fd

(* dlist_add finds the first empty entry if there is one. *)
LEMMA FirstEmptyFound ==
  ASSUME NEW table, NEW x \in Fd, table[x] = Nil
  PROVE  FirstEmpty(table) \in Fd /\ table[FirstEmpty(table)] = Nil
<1> DEFINE T == {fd \in Fd : table[fd] = Nil}
           R == {ss \in Nat \X Nat : ss[1] < ss[2]}
<1>1. IsWellFoundedOn(R, Nat) BY NatLessThanWellFounded DEF OpToRel
<1>2. T \subseteq Nat /\ T # {} BY DlistAssumption DEF Fd
<1>3. PICK fd \in T : \A y \in T : ~ (<<y, fd>> \in R)
  <2> HIDE DEF R, T
  <2> QED BY <1>1, <1>2, WFMin
<1>4. fd \in Fd /\ table[fd] = Nil /\ \A lower \in 0..(fd - 1) : table[lower] # Nil
  <2>1. fd \in Nat /\ \A lower \in 0..(fd - 1) : lower \in Fd /\ lower < fd /\ lower \in Nat
    BY <1>2, DlistAssumption DEF Fd
  <2> QED BY <1>3, <2>1
<1> QED BY <1>4 DEF FirstEmpty

(* Two objects go into two different empty entries. *)
TwoAdded(table, x, y) ==
  \E i, j \in Fd : /\ i # j /\ table[i] = Nil /\ table[j] = Nil
                   /\ DlistAdd(DlistAdd(table, x), y) = [table EXCEPT ![i] = x, ![j] = y]

(* dlist_add of a pipe's two ends, where there is room for both *)
LEMMA AddTwo ==
  ASSUME NEW table, table = [fd \in Fd |-> table[fd]], HasRoom(table, 2),
         NEW x, NEW y, x # Nil
  PROVE  TwoAdded(table, x, y)
<1> DEFINE T == {fd \in Fd : table[fd] = Nil}
<1>1. IsFiniteSet(T) /\ Cardinality(T) >= 2
  <2>1. T \in SUBSET Fd OBVIOUS
  <2> QED BY <2>1, FdFinite, FS_Subset DEF HasRoom
<1>2. PICK z \in T : TRUE
  <2>1. T # {} BY <1>1, FS_EmptySet
  <2> QED BY <2>1
<1>3. PICK i : i = FirstEmpty(table) OBVIOUS
<1>4. i \in T BY <1>2, <1>3, FirstEmptyFound
<1>5. PICK table2 : table2 = DlistAdd(table, x) OBVIOUS
<1>6. table2 = [table EXCEPT ![i] = x] BY <1>3, <1>5 DEF DlistAdd
<1>7. PICK v \in T : v # i
  <2>1. Cardinality(T \ {i}) = Cardinality(T) - 1 /\ IsFiniteSet(T \ {i})
    BY <1>1, <1>4, FS_RemoveElement
  <2>2. Cardinality(T) \in Nat BY <1>1, FS_CardinalityType
  <2>3. Cardinality(T \ {i}) # 0 BY <1>1, <2>1, <2>2
  <2>4. T \ {i} # {} BY <2>3, FS_EmptySet
  <2> QED BY <2>4
<1>8. PICK j : j = FirstEmpty(table2) OBVIOUS
<1>9. j \in Fd /\ table2[j] = Nil
  <2>1. v \in Fd /\ table2[v] = Nil BY <1>6, <1>7
  <2> QED BY <1>8, <2>1, FirstEmptyFound
<1>10. j # i /\ table[j] = Nil BY <1>4, <1>6, <1>9
<1>11. DlistAdd(table2, y) = [table2 EXCEPT ![j] = y] BY <1>8 DEF DlistAdd
<1>12. [table2 EXCEPT ![j] = y] = [table EXCEPT ![i] = x, ![j] = y] BY <1>6, <1>10
<1> QED BY <1>4, <1>5, <1>9, <1>10, <1>11, <1>12 DEF TwoAdded

(* What a new task is given are objects of its parent's table. *)
LEMMA CopiedFacts ==
  ASSUME NEW table, NEW fds
  PROVE  \E n \in 0..3 :
           /\ DOMAIN Copied(table, fds) = 0..(n - 1)
           /\ \A i \in 0..(n - 1) :
                /\ Copied(table, fds)[i] # Nil
                /\ \E fd \in Fd : Copied(table, fds)[i] = table[fd]
<1> DEFINE entry == [i \in 0..2 |-> Get(table, IF fds = Nil THEN i ELSE fds[i])]
           P == {i \in 0..2 : \A j \in 0..i : entry[j] # Nil}
           n == Cardinality(P)
<1>1. Copied(table, fds) = [i \in 0..(n - 1) |-> entry[i]] BY DEF Copied
<1>2. \A i \in 0..2 : entry[i] # Nil => \E fd \in Fd : entry[i] = table[fd] BY DEF Get
<1> HIDE DEF entry
<1>3. n \in 0..3 /\ P = 0..(n - 1)
  <2>1. 0..0 = {0} /\ 0..1 = {0, 1} /\ 0..2 = {0, 1, 2} /\ 0..(-1) = {} OBVIOUS
  <2>6. Cardinality(0..0) = 1 /\ Cardinality(0..1) = 2 /\ Cardinality(0..2) = 3
    <3>1. ASSUME NEW k \in Nat PROVE Cardinality(0..k) = k + 1
      <4>1. Cardinality(0..k) = IF 0 > k THEN 0 ELSE k - 0 + 1 BY FS_Interval
      <4> QED BY <4>1
    <3>2. 0 \in Nat /\ 1 \in Nat /\ 2 \in Nat OBVIOUS
    <3>3. Cardinality(0..0) = 0 + 1 BY <3>1, <3>2, Zenon
    <3>4. Cardinality(0..1) = 1 + 1 BY <3>1, <3>2, Zenon
    <3>5. Cardinality(0..2) = 2 + 1 BY <3>1, <3>2, Zenon
    <3> QED BY <3>3, <3>4, <3>5
  <2>2. CASE entry[0] = Nil
    <3>1. P = {} BY <2>1, <2>2
    <3>2. n = 0 BY <3>1, FS_EmptySet
    <3>3. 0..(0 - 1) = {} /\ 0 \in 0..3 OBVIOUS
    <3> QED BY <3>1, <3>2, <3>3
  <2>3. CASE entry[0] # Nil /\ entry[1] = Nil
    <3>1. P = 0..0 BY <2>1, <2>3
    <3>2. n = 1 BY <3>1, <2>6
    <3>3. 1 - 1 = 0 /\ 1 \in 0..3 OBVIOUS
    <3> QED BY <3>1, <3>2, <3>3
  <2>4. CASE entry[0] # Nil /\ entry[1] # Nil /\ entry[2] = Nil
    <3>1. P = 0..1 BY <2>1, <2>4
    <3>2. n = 2 BY <3>1, <2>6
    <3>3. 2 - 1 = 1 /\ 2 \in 0..3 OBVIOUS
    <3> QED BY <3>1, <3>2, <3>3
  <2>5. CASE entry[0] # Nil /\ entry[1] # Nil /\ entry[2] # Nil
    <3>1. P = 0..2 BY <2>1, <2>5
    <3>2. n = 3 BY <3>1, <2>6
    <3>3. 3 - 1 = 2 /\ 3 \in 0..3 OBVIOUS
    <3> QED BY <3>1, <3>2, <3>3
  <2> QED BY <2>2, <2>3, <2>4, <2>5
<1>4. \A i \in P : i \in 0..2 /\ entry[i] # Nil
  <2> SUFFICES ASSUME NEW i \in P PROVE entry[i] # Nil OBVIOUS
  <2>1. i \in 0..i OBVIOUS
  <2> QED BY <2>1
<1>5. PICK m : m = n OBVIOUS
<1> HIDE DEF n
<1> QED BY <1>1, <1>2, <1>3, <1>4, <1>5

-----------------------------------------------------------------------------
(* The inductive invariant *)

RingsKept ==
  /\ \A p \in Pipe : RingInv(ring[p])
  /\ \A p \in Pipe \ made : ring[p] = NewRing

(* Every open end is one of a pipe that was made; a read that waits has    *)
(* its end open.                                                           *)
EndsKnown ==
  /\ IsFiniteSet(alive)
  /\ \A e \in Ends : pobjects[e[1]][e[2]].pipe \in made
  /\ \A t \in Task : reading[t] # Nil => t \in alive /\ pobjects[t][reading[t].fd] # Nil
  /\ freed \subseteq made /\ eof \subseteq made

PipesInv == PipesTypeOK /\ RingsKept /\ EndsKnown /\ EndsCounted /\ EofFinal

(* Counting a part of a finite set and the rest *)
LEMMA Counting ==
  ASSUME NEW E, IsFiniteSet(E), NEW G \in SUBSET E
  PROVE  /\ IsFiniteSet(G) /\ IsFiniteSet(E \ G)
         /\ Cardinality(G) \in Nat /\ Cardinality(E) \in Nat
         /\ Cardinality(G) <= Cardinality(E) /\ Cardinality(E) - Cardinality(G) \in Nat
         /\ Cardinality(E \ G) = Cardinality(E) - Cardinality(G)
         /\ G = {} <=> Cardinality(G) = 0
<1>1. IsFiniteSet(G) /\ Cardinality(G) <= Cardinality(E) BY FS_Subset
<1>2. Cardinality(G) \in Nat /\ Cardinality(E) \in Nat BY <1>1, FS_CardinalityType
<1>3. E \cap G = G OBVIOUS
<1>4. IsFiniteSet(E \ G) /\ Cardinality(E \ G) = Cardinality(E) - Cardinality(G)
  BY <1>3, FS_Difference
<1>5. G = {} <=> Cardinality(G) = 0 BY <1>1, FS_EmptySet
<1> QED BY <1>1, <1>2, <1>4, <1>5

(* The ends among E of one pipe, and of one type, in a table of tables *)
Of(objs, E, p) == {e \in E : objs[e[1]][e[2]].pipe = p}
OfType(objs, E, p, type) == {e \in Of(objs, E, p) : objs[e[1]][e[2]].file_type = type}

(* An end is of one of the two types. *)
LEMMA ByType ==
  ASSUME NEW objs, NEW E, IsFiniteSet(E), \A e \in E : objs[e[1]][e[2]] \in End, NEW p
  PROVE  /\ Cardinality(Of(objs, E, p)) = Cardinality(OfType(objs, E, p, "PIPELINE_POBJ"))
                                            + Cardinality(OfType(objs, E, p, "PIPE_POBJ"))
         /\ \A type : /\ IsFiniteSet(OfType(objs, E, p, type))
                      /\ Cardinality(OfType(objs, E, p, type)) \in Nat
         /\ IsFiniteSet(Of(objs, E, p)) /\ Cardinality(Of(objs, E, p)) \in Nat
<1>1. Of(objs, E, p) \in SUBSET E BY DEF Of
<1>2. IsFiniteSet(Of(objs, E, p)) /\ Cardinality(Of(objs, E, p)) \in Nat BY <1>1, Counting
<1>3. \A type : OfType(objs, E, p, type) \in SUBSET Of(objs, E, p) BY DEF OfType
<1>4. \A type : /\ IsFiniteSet(OfType(objs, E, p, type))
                /\ Cardinality(OfType(objs, E, p, type)) \in Nat
  BY <1>2, <1>3, Counting
<1>5. \A e \in Of(objs, E, p) : objs[e[1]][e[2]].file_type \in {"PIPE_POBJ", "PIPELINE_POBJ"}
  BY DEF Of, End
<1>6. OfType(objs, E, p, "PIPE_POBJ") = Of(objs, E, p) \ OfType(objs, E, p, "PIPELINE_POBJ")
  BY <1>5 DEF OfType
<1>7. Cardinality(OfType(objs, E, p, "PIPE_POBJ")) =
        Cardinality(Of(objs, E, p)) - Cardinality(OfType(objs, E, p, "PIPELINE_POBJ"))
  BY <1>2, <1>3, <1>6, Counting
<1>8. PICK x \in Nat, y \in Nat, z \in Nat :
        /\ x = Cardinality(Of(objs, E, p))
        /\ y = Cardinality(OfType(objs, E, p, "PIPELINE_POBJ"))
        /\ z = Cardinality(OfType(objs, E, p, "PIPE_POBJ"))
  BY <1>2, <1>4
<1> QED BY <1>2, <1>4, <1>7, <1>8

(* The counters are the numbers of ends. *)
LEMMA CountedEnds ==
  /\ \A p : EndsOf(p) = Of(pobjects, Ends, p)
  /\ \A p, type : EndsOfType(p, type) = OfType(pobjects, Ends, p, type)
BY DEF EndsOf, EndsOfType, Of, OfType

(* There are finitely many open ends, and each is an object. *)
LEMMA EndsFinite ==
  ASSUME PipesTypeOK, EndsKnown
  PROVE  /\ IsFiniteSet(Ends) /\ Ends \subseteq alive \X Fd
         /\ \A e \in Ends : pobjects[e[1]][e[2]] \in End
         /\ \A t \in alive, fd \in Fd : <<t, fd>> \in Ends <=> pobjects[t][fd] # Nil
<1>1. IsFiniteSet(alive \X Fd) BY FdFinite, FS_Product DEF EndsKnown
<1>2. Ends \in SUBSET (alive \X Fd) BY DEF Ends
<1>3. IsFiniteSet(Ends) BY <1>1, <1>2, FS_Subset
<1>4. \A e \in Ends : pobjects[e[1]][e[2]] \in End
  BY DEF Ends, PipesTypeOK
<1> QED BY <1>2, <1>3, <1>4 DEF Ends

(* Some ends are closed: what shared_release and the counters make of it. *)
LEMMA ReleaseCounts ==
  ASSUME PipesInv, NEW ends \in SUBSET Ends, Release(ends), Ends' = Ends \ ends,
         \A e \in Ends' : pobjects'[e[1]][e[2]] = pobjects[e[1]][e[2]],
         made' = made, eof' = eof
  PROVE  /\ EndsCounted' /\ EofFinal'
         /\ {readers', writers', references'} \subseteq [Pipe -> Nat]
         /\ freed' \subseteq made'
<1> DEFINE R == "PIPELINE_POBJ"
           W == "PIPE_POBJ"
           Less(E, G) == /\ Cardinality(E \ G) = Cardinality(E) - Cardinality(G)
                         /\ Cardinality(E) - Cardinality(G) \in Nat
           gone(p) == Of(pobjects, ends, p)
           goneOf(p, type) == OfType(pobjects, ends, p, type)
<1>1. PipesTypeOK /\ EndsKnown /\ EndsCounted /\ EofFinal BY DEF PipesInv
<1>2. IsFiniteSet(Ends) /\ \A e \in Ends : pobjects[e[1]][e[2]] \in End BY <1>1, EndsFinite
<1>3. /\ readers' = [p \in Pipe |-> readers[p] - Cardinality(goneOf(p, R))]
      /\ writers' = [p \in Pipe |-> writers[p] - Cardinality(goneOf(p, W))]
      /\ references' = [p \in Pipe |-> references[p] - Cardinality(gone(p))]
      /\ freed' = freed \cup {p \in Pipe : gone(p) # {} /\ references'[p] = 0}
  BY DEF Release, Of, OfType
<1>4. ASSUME NEW p PROVE /\ gone(p) \in SUBSET EndsOf(p) /\ EndsOf(p)' = EndsOf(p) \ gone(p)
                         /\ IsFiniteSet(EndsOf(p))
  <2>1. EndsOf(p)' = {e \in Ends \ ends : pobjects[e[1]][e[2]].pipe = p} BY DEF EndsOf
  <2>2. EndsOf(p) \in SUBSET Ends BY DEF EndsOf
  <2> QED BY <1>2, <2>1, <2>2, FS_Subset DEF EndsOf, Of
<1>5. ASSUME NEW p, NEW type
      PROVE  /\ goneOf(p, type) \in SUBSET EndsOfType(p, type)
             /\ EndsOfType(p, type)' = EndsOfType(p, type) \ goneOf(p, type)
             /\ IsFiniteSet(EndsOfType(p, type))
  <2>1. EndsOfType(p, type)' = {e \in EndsOf(p)' : pobjects[e[1]][e[2]].file_type = type}
    BY DEF EndsOfType, EndsOf
  <2>2. EndsOfType(p, type) \in SUBSET EndsOf(p) BY DEF EndsOfType
  <2> QED BY <1>4, <2>1, <2>2, FS_Subset DEF EndsOfType, OfType
<1> HIDE DEF gone, goneOf
<1>6. ASSUME NEW p \in made
      PROVE  /\ readers'[p] \in Nat /\ readers'[p] = Cardinality(EndsOfType(p, R)')
             /\ writers'[p] \in Nat /\ writers'[p] = Cardinality(EndsOfType(p, W)')
             /\ references'[p] \in Nat /\ references'[p] = Cardinality(EndsOf(p)')
             /\ p \in freed' <=> EndsOf(p)' = {}
  <2>1. p \in Pipe BY <1>1 DEF PipesTypeOK
  <2>2. /\ readers[p] = Cardinality(EndsOfType(p, R)) /\ writers[p] = Cardinality(EndsOfType(p, W))
        /\ references[p] = Cardinality(EndsOf(p)) /\ (p \in freed <=> EndsOf(p) = {})
    BY <1>1 DEF EndsCounted
  <2>3. readers'[p] \in Nat /\ readers'[p] = Cardinality(EndsOfType(p, R)')
    <3>1. readers'[p] = readers[p] - Cardinality(goneOf(p, R)) BY <1>3, <2>1
    <3>2. Less(EndsOfType(p, R), goneOf(p, R)) BY <1>5, Counting DEF Less
    <3> QED BY <1>5, <2>2, <3>1, <3>2 DEF Less
  <2>4. writers'[p] \in Nat /\ writers'[p] = Cardinality(EndsOfType(p, W)')
    <3>1. writers'[p] = writers[p] - Cardinality(goneOf(p, W)) BY <1>3, <2>1
    <3>2. Less(EndsOfType(p, W), goneOf(p, W)) BY <1>5, Counting DEF Less
    <3> QED BY <1>5, <2>2, <3>1, <3>2 DEF Less
  <2>5. references'[p] \in Nat /\ references'[p] = Cardinality(EndsOf(p)')
    <3>1. references'[p] = references[p] - Cardinality(gone(p)) BY <1>3, <2>1
    <3>2. Less(EndsOf(p), gone(p)) BY <1>4, Counting DEF Less
    <3> QED BY <1>4, <2>2, <3>1, <3>2 DEF Less
  <2>6. references'[p] = 0 <=> EndsOf(p)' = {}
    BY <1>4, <2>5, Counting, FS_EmptySet
  <2>7. gone(p) # {} /\ EndsOf(p)' = {} => EndsOf(p) # {} BY <1>4
  <2>8. p \in freed' <=> EndsOf(p)' = {} BY <1>3, <1>4, <2>1, <2>2, <2>6
  <2> QED BY <2>3, <2>4, <2>5, <2>8
<1>7. ASSUME NEW p \in Pipe \ made
      PROVE  /\ readers'[p] \in Nat /\ writers'[p] \in Nat /\ references'[p] \in Nat
             /\ gone(p) = {}
  <2>1. gone(p) = {} BY <1>1 DEF EndsKnown, gone, Of
  <2>2. goneOf(p, R) = {} /\ goneOf(p, W) = {} BY <2>1 DEF goneOf, gone, OfType
  <2>3. readers[p] \in Nat /\ writers[p] \in Nat /\ references[p] \in Nat
    BY <1>1 DEF PipesTypeOK
  <2>4. Cardinality({}) = 0 BY FS_EmptySet
  <2>5. readers'[p] = readers[p] - 0 /\ writers'[p] = writers[p] - 0
        /\ references'[p] = references[p] - 0
    BY <1>3, <2>1, <2>2, <2>4
  <2> QED BY <2>1, <2>3, <2>5
<1>8. EndsCounted' BY <1>6 DEF EndsCounted
<1>9. EofFinal' BY <1>1, <1>5 DEF EofFinal
<1>10. {readers', writers', references'} \subseteq [Pipe -> Nat]
  <2>1. \A p \in Pipe : readers'[p] \in Nat /\ writers'[p] \in Nat /\ references'[p] \in Nat
    BY <1>6, <1>7
  <2> QED BY <1>3, <2>1
<1>11. freed' \subseteq made' BY <1>1, <1>3, <1>7 DEF EndsKnown
<1> QED BY <1>8, <1>9, <1>10, <1>11

(* An open end of a task *)
LEMMA OpenEnd ==
  ASSUME PipesInv, NEW t \in alive, NEW fd \in Fd, pobjects[t][fd] # Nil
  PROVE  /\ pobjects[t][fd] \in End /\ <<t, fd>> \in Ends
         /\ pobjects[t][fd].pipe \in made /\ pobjects[t][fd].pipe \in Pipe
<1>1. <<t, fd>> \in Ends BY DEF Ends
<1>2. pobjects[t][fd] \in End BY DEF PipesInv, PipesTypeOK
<1>3. pobjects[t][fd].pipe \in made BY <1>1 DEF PipesInv, EndsKnown
<1> QED BY <1>1, <1>2, <1>3 DEF End

(* No object table and no counter changes: the ends stay counted. *)
LEMMA SameEnds ==
  ASSUME PipesInv, UNCHANGED <<pobjects, alive, counts>>
  PROVE  /\ EndsCounted' /\ Ends' = Ends
         /\ \A p, type : EndsOfType(p, type)' = EndsOfType(p, type)
<1>1. Ends' = Ends BY DEF Ends
<1>2. \A p : EndsOf(p)' = EndsOf(p) BY <1>1 DEF EndsOf
<1>3. \A p, type : EndsOfType(p, type)' = EndsOfType(p, type) BY <1>2 DEF EndsOfType
<1>4. /\ made' = made /\ freed' = freed
      /\ readers' = readers /\ writers' = writers /\ references' = references
  BY DEF counts
<1>5. EndsCounted' BY <1>2, <1>3, <1>4 DEF EndsCounted, PipesInv
<1> QED BY <1>1, <1>3, <1>5

(* vfs_close *)
LEMMA CloseInv ==
  ASSUME PipesInv, NEW t \in Task, NEW fd \in Fd, Close(t, fd)
  PROVE  PipesInv'
<1>1. /\ t \in alive /\ reading[t] = Nil /\ pobjects[t][fd] # Nil /\ Release({<<t, fd>>})
      /\ pobjects' = [pobjects EXCEPT ![t][fd] = Nil]
      /\ alive' = alive /\ ring' = ring /\ made' = made /\ reading' = reading
      /\ got' = got /\ eof' = eof
  BY DEF Close, Running
<1>2. PipesTypeOK /\ RingsKept /\ EndsKnown BY DEF PipesInv
<1>3. /\ pobjects' \in [Task -> [Fd -> End \cup {Nil}]]
      /\ pobjects'[t][fd] = Nil
      /\ \A u \in Task, f \in Fd : <<u, f>> # <<t, fd>> => pobjects'[u][f] = pobjects[u][f]
  BY <1>1, <1>2 DEF PipesTypeOK
<1>4. alive \subseteq Task BY <1>2 DEF PipesTypeOK
<1>5. Ends' = Ends \ {<<t, fd>>} /\ {<<t, fd>>} \in SUBSET Ends
  BY <1>1, <1>3, <1>4 DEF Ends
<1>6. \A e \in Ends' : pobjects'[e[1]][e[2]] = pobjects[e[1]][e[2]]
  BY <1>1, <1>3, <1>4, <1>5 DEF Ends
<1>7. /\ EndsCounted' /\ EofFinal' /\ freed' \subseteq made'
      /\ {readers', writers', references'} \subseteq [Pipe -> Nat]
  BY <1>1, <1>5, <1>6, ReleaseCounts
<1>8. PipesTypeOK'
  <2>1. freed' \subseteq Pipe BY <1>1, <1>2, <1>7 DEF PipesTypeOK
  <2> QED BY <1>1, <1>2, <1>3, <1>7, <2>1 DEF PipesTypeOK
<1>9. RingsKept' BY <1>1, <1>2 DEF RingsKept
<1>10. EndsKnown'
  <2>1. \A e \in Ends' : pobjects'[e[1]][e[2]].pipe \in made' BY <1>1, <1>2, <1>5, <1>6 DEF EndsKnown
  <2>2. ASSUME NEW u \in Task, reading[u] # Nil PROVE u \in alive /\ pobjects'[u][reading[u].fd] # Nil
    <3>1. u # t /\ u \in alive /\ pobjects[u][reading[u].fd] # Nil BY <1>1, <1>2, <2>2 DEF EndsKnown
    <3>2. reading[u].fd \in Fd BY <1>2, <2>2 DEF PipesTypeOK, Reading
    <3> QED BY <1>3, <3>1, <3>2
  <2> QED BY <1>1, <1>2, <1>7, <2>1, <2>2 DEF EndsKnown
<1> QED BY <1>7, <1>8, <1>9, <1>10 DEF PipesInv

(* remove_task_by_pid *)
LEMMA ExitInv ==
  ASSUME PipesInv, NEW t \in Task, Exit(t)
  PROVE  PipesInv'
<1> DEFINE ends == {t} \X {fd \in Fd : pobjects[t][fd] # Nil}
<1>1. /\ t \in alive /\ reading[t] = Nil /\ Release(ends)
      /\ pobjects' = [pobjects EXCEPT ![t] = EmptyTable]
      /\ alive' = alive \ {t} /\ ring' = ring /\ made' = made /\ reading' = reading
      /\ got' = got /\ eof' = eof
  BY DEF Exit, Running
<1>2. PipesTypeOK /\ RingsKept /\ EndsKnown BY DEF PipesInv
<1>3. /\ pobjects' \in [Task -> [Fd -> End \cup {Nil}]]
      /\ \A u \in Task : u # t => pobjects'[u] = pobjects[u]
  BY <1>1, <1>2 DEF PipesTypeOK, EmptyTable
<1>4. alive \subseteq Task BY <1>2 DEF PipesTypeOK
<1>5. Ends' = Ends \ ends /\ ends \in SUBSET Ends
  BY <1>1, <1>3, <1>4 DEF Ends
<1>6. \A e \in Ends' : pobjects'[e[1]][e[2]] = pobjects[e[1]][e[2]]
  BY <1>1, <1>3, <1>4 DEF Ends
<1> HIDE DEF ends
<1>7. /\ EndsCounted' /\ EofFinal' /\ freed' \subseteq made'
      /\ {readers', writers', references'} \subseteq [Pipe -> Nat]
  BY <1>1, <1>5, <1>6, ReleaseCounts
<1>8. PipesTypeOK'
  <2>1. freed' \subseteq Pipe /\ alive' \subseteq Task BY <1>1, <1>2, <1>7 DEF PipesTypeOK
  <2> QED BY <1>1, <1>2, <1>3, <1>7, <2>1 DEF PipesTypeOK
<1>9. RingsKept' BY <1>1, <1>2 DEF RingsKept
<1>10. EndsKnown'
  <2>1. \A e \in Ends' : pobjects'[e[1]][e[2]].pipe \in made' BY <1>1, <1>2, <1>5, <1>6 DEF EndsKnown
  <2>2. ASSUME NEW u \in Task, reading[u] # Nil
        PROVE  u \in alive' /\ pobjects'[u][reading[u].fd] # Nil
    <3>1. u # t /\ u \in alive /\ pobjects[u][reading[u].fd] # Nil BY <1>1, <1>2, <2>2 DEF EndsKnown
    <3> QED BY <1>1, <1>3, <3>1
  <2>3. IsFiniteSet(alive') BY <1>1, <1>2, FS_RemoveElement DEF EndsKnown
  <2> QED BY <1>1, <1>2, <1>7, <2>1, <2>2, <2>3 DEF EndsKnown
<1> QED BY <1>7, <1>8, <1>9, <1>10 DEF PipesInv

(* vfs_fcntl leaves the pipe and the type of the end. *)
LEMMA FcntlInv ==
  ASSUME PipesInv, NEW t \in Task, NEW fd \in Fd, NEW nonblock \in BOOLEAN,
         Fcntl(t, fd, nonblock)
  PROVE  PipesInv'
<1>1. /\ t \in alive /\ reading[t] = Nil /\ pobjects[t][fd] # Nil
      /\ pobjects' = [pobjects EXCEPT ![t][fd].nonblock = nonblock]
      /\ alive' = alive /\ ring' = ring /\ made' = made /\ freed' = freed
      /\ readers' = readers /\ writers' = writers /\ references' = references
      /\ reading' = reading /\ got' = got /\ eof' = eof
  BY DEF Fcntl, Running, counts
<1>2. PipesTypeOK /\ RingsKept /\ EndsKnown /\ EndsCounted /\ EofFinal BY DEF PipesInv
<1>3. PICK x : x = [pobjects[t][fd] EXCEPT !.nonblock = nonblock] OBVIOUS
<1>4. pobjects[t][fd] \in End BY <1>1, <1>2 DEF PipesTypeOK
<1>5. x \in End /\ x.pipe = pobjects[t][fd].pipe /\ x.file_type = pobjects[t][fd].file_type
  BY <1>3, <1>4 DEF End
<1>6. x # Nil BY <1>5, EndAssumption
<1>7. pobjects' = [pobjects EXCEPT ![t][fd] = x] BY <1>1, <1>3
<1>8. /\ pobjects' \in [Task -> [Fd -> End \cup {Nil}]]
      /\ pobjects'[t][fd] = x
      /\ \A u \in Task, f \in Fd : <<u, f>> # <<t, fd>> => pobjects'[u][f] = pobjects[u][f]
  BY <1>2, <1>5, <1>7 DEF PipesTypeOK
<1>9. \A u \in Task, f \in Fd : /\ pobjects'[u][f] = Nil <=> pobjects[u][f] = Nil
                                /\ pobjects'[u][f].pipe = pobjects[u][f].pipe
                                /\ pobjects'[u][f].file_type = pobjects[u][f].file_type
  BY <1>1, <1>5, <1>6, <1>8
<1>10. alive \subseteq Task BY <1>2 DEF PipesTypeOK
<1>11. Ends' = Ends /\ \A e \in Ends : e[1] \in Task /\ e[2] \in Fd
  BY <1>1, <1>9, <1>10 DEF Ends
<1>19. \A e \in Ends : /\ pobjects'[e[1]][e[2]].pipe = pobjects[e[1]][e[2]].pipe
                       /\ pobjects'[e[1]][e[2]].file_type = pobjects[e[1]][e[2]].file_type
  <2> SUFFICES ASSUME NEW e \in Ends
               PROVE  /\ pobjects'[e[1]][e[2]].pipe = pobjects[e[1]][e[2]].pipe
                      /\ pobjects'[e[1]][e[2]].file_type = pobjects[e[1]][e[2]].file_type
    OBVIOUS
  <2>1. PICK u \in Task, f \in Fd : u = e[1] /\ f = e[2] BY <1>11
  <2>2. /\ pobjects'[u][f].pipe = pobjects[u][f].pipe
        /\ pobjects'[u][f].file_type = pobjects[u][f].file_type
    BY <1>9, Zenon
  <2> QED BY <2>1, <2>2, Zenon
<1>12. \A p : EndsOf(p)' = EndsOf(p) BY <1>11, <1>19 DEF EndsOf
<1>13. \A p, type : EndsOfType(p, type)' = EndsOfType(p, type)
  BY <1>12, <1>19 DEF EndsOfType, EndsOf
<1>14. PipesTypeOK' BY <1>1, <1>2, <1>8 DEF PipesTypeOK
<1>15. RingsKept' BY <1>1, <1>2 DEF RingsKept
<1>16. EndsKnown'
  <2>1. \A u \in Task : reading[u] # Nil => reading[u].fd \in Fd BY <1>2 DEF PipesTypeOK, Reading
  <2>2. \A u \in Task : reading[u] # Nil => u \in alive /\ pobjects'[u][reading[u].fd] # Nil
    BY <1>2, <1>9, <2>1 DEF EndsKnown
  <2>3. \A e \in Ends' : pobjects'[e[1]][e[2]].pipe \in made BY <1>2, <1>11, <1>19 DEF EndsKnown
  <2> QED BY <1>1, <1>2, <2>2, <2>3 DEF EndsKnown
<1>17. EndsCounted' BY <1>1, <1>2, <1>12, <1>13 DEF EndsCounted
<1>18. EofFinal' BY <1>1, <1>2, <1>13 DEF EofFinal
<1> QED BY <1>14, <1>15, <1>16, <1>17, <1>18 DEF PipesInv

(* make_pipes *)
LEMMA MakePipesInv ==
  ASSUME PipesInv, NEW t \in Task, MakePipes(t)
  PROVE  PipesInv'
<1> DEFINE R == "PIPELINE_POBJ"
           W == "PIPE_POBJ"
           end(p, type) == [pipe |-> p, file_type |-> type, nonblock |-> FALSE]
<1>1. PICK p \in Pipe \ made :
        /\ t \in alive /\ HasRoom(pobjects[t], 2)
        /\ pobjects' = [pobjects EXCEPT ![t] = DlistAdd(DlistAdd(@, end(p, R)), end(p, W))]
        /\ made' = made \cup {p}
        /\ readers' = [readers EXCEPT ![p] = 1]
        /\ writers' = [writers EXCEPT ![p] = 1]
        /\ references' = [references EXCEPT ![p] = 2]
        /\ ring' = [ring EXCEPT ![p] = NewRing]
        /\ alive' = alive /\ freed' = freed /\ reading' = reading /\ got' = got /\ eof' = eof
  BY DEF MakePipes, Running
<1>2. PipesTypeOK /\ RingsKept /\ EndsKnown /\ EndsCounted /\ EofFinal BY DEF PipesInv
<1>3. PICK x, y : x = end(p, R) /\ y = end(p, W) OBVIOUS
<1>4. /\ x \in End /\ y \in End /\ x.pipe = p /\ y.pipe = p
      /\ x.file_type = R /\ y.file_type = W
  BY <1>3 DEF End
<1>5. x # Nil /\ y # Nil BY <1>4, EndAssumption
<1> HIDE DEF end
<1>6. PICK i \in Fd, j \in Fd :
        /\ i # j /\ pobjects[t][i] = Nil /\ pobjects[t][j] = Nil
        /\ DlistAdd(DlistAdd(pobjects[t], x), y) = [pobjects[t] EXCEPT ![i] = x, ![j] = y]
  <2>1. pobjects[t] \in [Fd -> End \cup {Nil}] BY <1>2 DEF PipesTypeOK
  <2>2. pobjects[t] = [fd \in Fd |-> pobjects[t][fd]] BY <2>1
  <2>3. PICK tab : tab = pobjects[t] OBVIOUS
  <2>4. HasRoom(tab, 2) /\ tab = [fd \in Fd |-> tab[fd]] BY <1>1, <2>2, <2>3
  <2>5. TwoAdded(tab, x, y) BY <1>5, <2>4, AddTwo
  <2> QED BY <2>3, <2>5 DEF TwoAdded
<1>7. pobjects' = [pobjects EXCEPT ![t] = [pobjects[t] EXCEPT ![i] = x, ![j] = y]]
  BY <1>1, <1>3, <1>6
<1>8. /\ pobjects' \in [Task -> [Fd -> End \cup {Nil}]]
      /\ pobjects'[t][i] = x /\ pobjects'[t][j] = y
      /\ \A u \in Task, f \in Fd :
           <<u, f>> # <<t, i>> /\ <<u, f>> # <<t, j>> => pobjects'[u][f] = pobjects[u][f]
  BY <1>2, <1>4, <1>6, <1>7 DEF PipesTypeOK
<1>9. alive \subseteq Task BY <1>2 DEF PipesTypeOK
<1>10. /\ Ends' = Ends \cup {<<t, i>>, <<t, j>>}
       /\ <<t, i>> \notin Ends /\ <<t, j>> \notin Ends /\ <<t, i>> # <<t, j>>
  BY <1>1, <1>5, <1>6, <1>8, <1>9 DEF Ends
<1>11. \A e \in Ends : pobjects'[e[1]][e[2]] = pobjects[e[1]][e[2]]
  BY <1>8, <1>9, <1>10 DEF Ends
<1>12. \A e \in Ends : pobjects[e[1]][e[2]].pipe \in made BY <1>2 DEF EndsKnown
<1>13. /\ EndsOf(p)' = {<<t, i>>, <<t, j>>}
       /\ EndsOfType(p, R)' = {<<t, i>>} /\ EndsOfType(p, W)' = {<<t, j>>}
  <2>1. EndsOf(p)' = {<<t, i>>, <<t, j>>}
    BY <1>1, <1>4, <1>8, <1>10, <1>11, <1>12 DEF EndsOf
  <2> QED BY <1>4, <1>8, <2>1 DEF EndsOfType
<1>14. \A q \in made : EndsOf(q)' = EndsOf(q) BY <1>1, <1>4, <1>8, <1>10, <1>11 DEF EndsOf
<1>15. \A q \in made : \A type : EndsOfType(q, type)' = EndsOfType(q, type)
  <2> SUFFICES ASSUME NEW q \in made, NEW type
               PROVE  EndsOfType(q, type)' = EndsOfType(q, type)
    OBVIOUS
  <2>1. EndsOf(q)' = EndsOf(q) /\ EndsOf(q) \subseteq Ends BY <1>14 DEF EndsOf
  <2> QED BY <1>11, <2>1 DEF EndsOfType
<1>16. EndsCounted'
  <2>1. ASSUME NEW q \in made
        PROVE  /\ readers'[q] = Cardinality(EndsOfType(q, R)')
               /\ writers'[q] = Cardinality(EndsOfType(q, W)')
               /\ references'[q] = Cardinality(EndsOf(q)')
               /\ q \in freed' <=> EndsOf(q)' = {}
    <3>1. q # p /\ q \in Pipe BY <1>1, <1>2 DEF PipesTypeOK
    <3>2. /\ readers'[q] = readers[q] /\ writers'[q] = writers[q]
          /\ references'[q] = references[q] /\ freed' = freed
      BY <1>1, <1>2, <3>1 DEF PipesTypeOK
    <3>3. /\ readers[q] = Cardinality(EndsOfType(q, R))
          /\ writers[q] = Cardinality(EndsOfType(q, W))
          /\ references[q] = Cardinality(EndsOf(q)) /\ (q \in freed <=> EndsOf(q) = {})
      BY <1>2 DEF EndsCounted
    <3> QED BY <1>14, <1>15, <3>2, <3>3
  <2>2. /\ readers'[p] = Cardinality(EndsOfType(p, R)')
        /\ writers'[p] = Cardinality(EndsOfType(p, W)')
        /\ references'[p] = Cardinality(EndsOf(p)')
        /\ p \in freed' <=> EndsOf(p)' = {}
    <3>1. readers'[p] = 1 /\ writers'[p] = 1 /\ references'[p] = 2 /\ p \notin freed'
      BY <1>1, <1>2 DEF PipesTypeOK, EndsKnown
    <3>2. Cardinality({<<t, i>>}) = 1 /\ Cardinality({<<t, j>>}) = 1 BY FS_Singleton
    <3>3. Cardinality({<<t, i>>, <<t, j>>}) = 2
      <4>1. IsFiniteSet({<<t, i>>}) BY FS_Singleton
      <4>2. Cardinality({<<t, i>>} \cup {<<t, j>>}) = Cardinality({<<t, i>>}) + 1
        BY <1>10, <4>1, FS_AddElement
      <4>3. {<<t, i>>} \cup {<<t, j>>} = {<<t, i>>, <<t, j>>} OBVIOUS
      <4> QED BY <3>2, <4>2, <4>3
    <3> QED BY <1>13, <3>1, <3>2, <3>3
  <2> QED BY <1>1, <2>1, <2>2 DEF EndsCounted
<1>17. EofFinal' BY <1>1, <1>2, <1>15 DEF EofFinal, EndsKnown
<1>18. RingsKept' BY <1>1, <1>2, NewRingInv DEF RingsKept, PipesTypeOK
<1>19. PipesTypeOK'
  <2>1. {readers', writers', references'} \subseteq [Pipe -> Nat] BY <1>1, <1>2 DEF PipesTypeOK
  <2>2. ring' \in [Pipe -> RingType] BY <1>1, <1>2, NewRingInv DEF PipesTypeOK, RingInv
  <2> QED BY <1>1, <1>2, <1>8, <2>1, <2>2 DEF PipesTypeOK
<1>20. EndsKnown'
  <2>1. \A e \in Ends' : pobjects'[e[1]][e[2]].pipe \in made'
    BY <1>1, <1>4, <1>8, <1>10, <1>11, <1>12
  <2>2. ASSUME NEW u \in Task, reading[u] # Nil
        PROVE  u \in alive /\ pobjects'[u][reading[u].fd] # Nil
    <3>1. u \in alive /\ pobjects[u][reading[u].fd] # Nil BY <1>2, <2>2 DEF EndsKnown
    <3>2. reading[u].fd \in Fd BY <1>2, <2>2 DEF PipesTypeOK, Reading
    <3> QED BY <1>6, <1>8, <3>1, <3>2
  <2> QED BY <1>1, <1>2, <2>1, <2>2 DEF EndsKnown
<1> QED BY <1>16, <1>17, <1>18, <1>19, <1>20 DEF PipesInv

(* Ends are added that a new task has: how the counters follow. *)
AddedUp(E, F, C) ==
  /\ IsFiniteSet(F) /\ Cardinality(F) = Cardinality(E) + Cardinality(C)
  /\ Cardinality(E) \in Nat /\ Cardinality(C) \in Nat

(* A new task's copies of the ends that C names are as many as C has. *)
LEMMA CopiesCounted ==
  ASSUME NEW u, NEW E, IsFiniteSet(E), NEW C, IsFiniteSet(C), \A e \in E : e[1] # u
  PROVE  AddedUp(E, E \cup ({u} \X C), C)
<1>1. IsFiniteSet({u}) /\ Cardinality({u}) = 1 BY FS_Singleton
<1>2. IsFiniteSet({u} \X C) /\ Cardinality({u} \X C) = 1 * Cardinality(C)
  BY <1>1, FS_Product
<1>3. Cardinality(C) \in Nat /\ Cardinality(E) \in Nat BY FS_CardinalityType
<1>4. E \cap ({u} \X C) = {} OBVIOUS
<1>5. /\ IsFiniteSet(E \cup ({u} \X C))
      /\ Cardinality(E \cup ({u} \X C)) =
           Cardinality(E) + Cardinality({u} \X C) - Cardinality(E \cap ({u} \X C))
  BY <1>2, FS_Union
<1>6. Cardinality(E \cap ({u} \X C)) = 0 BY <1>4, FS_EmptySet
<1> QED BY <1>2, <1>3, <1>5, <1>6 DEF AddedUp

(* create_process and create_thread *)
LEMMA SpawnInv ==
  ASSUME PipesInv, NEW t \in Task, NEW u \in Task, NEW fds \in FdList, Spawn(t, u, fds)
  PROVE  PipesInv'
<1> DEFINE R == "PIPELINE_POBJ"
           W == "PIPE_POBJ"
<1>1. PICK copies : copies = Copied(pobjects[t], fds) OBVIOUS
<1>2. /\ t \in alive /\ u \notin alive
      /\ pobjects' = [pobjects EXCEPT ![u] = Inherited(copies)]
      /\ readers' = [p \in Pipe |-> readers[p] + Counted(copies, p, R)]
      /\ writers' = [p \in Pipe |-> writers[p] + Counted(copies, p, W)]
      /\ references' = [p \in Pipe |-> references[p] + Counted(copies, p, R) + Counted(copies, p, W)]
      /\ alive' = alive \cup {u} /\ ring' = ring /\ made' = made /\ freed' = freed
      /\ reading' = reading /\ got' = got /\ eof' = eof
  BY <1>1 DEF Spawn, Running
<1>3. PipesTypeOK /\ RingsKept /\ EndsKnown /\ EndsCounted /\ EofFinal BY DEF PipesInv
<1>4. PICK n \in 0..3 : /\ DOMAIN copies = 0..(n - 1)
                        /\ \A i \in 0..(n - 1) : /\ copies[i] # Nil
                                                 /\ \E fd \in Fd : copies[i] = pobjects[t][fd]
  BY <1>1, CopiedFacts
<1> DEFINE D == 0..(n - 1)
<1>5. D \subseteq Fd /\ IsFiniteSet(D)
  <2>1. D \subseteq Fd BY DlistAssumption, PipesAssumption DEF Fd
  <2> QED BY <2>1, FdFinite, FS_Subset
<1> HIDE DEF D
<1>6. \A i \in D : /\ copies[i] \in End /\ copies[i] # Nil
                   /\ \E fd \in Fd : /\ <<t, fd>> \in Ends /\ copies[i] = pobjects[t][fd]
                                     /\ copies[i].pipe \in made
  BY <1>2, <1>4, OpenEnd DEF D
<1>7. /\ pobjects' \in [Task -> [Fd -> End \cup {Nil}]]
      /\ \A fd \in Fd : pobjects'[u][fd] = IF fd \in D THEN copies[fd] ELSE Nil
      /\ \A v \in Task : v # u => pobjects'[v] = pobjects[v]
  BY <1>2, <1>3, <1>4, <1>6 DEF PipesTypeOK, Inherited, D
<1>8. alive \subseteq Task BY <1>3 DEF PipesTypeOK
<1>9. Ends' = Ends \cup ({u} \X D) /\ \A e \in Ends : e[1] \in Task /\ e[1] # u
  BY <1>2, <1>5, <1>6, <1>7, <1>8 DEF Ends
<1>10. \A e \in Ends : pobjects'[e[1]][e[2]] = pobjects[e[1]][e[2]] BY <1>7, <1>9
<1>11. \A fd \in D : pobjects'[u][fd] = copies[fd] BY <1>5, <1>7
<1> DEFINE C(p) == {i \in D : copies[i].pipe = p}
           CT(p, type) == {i \in D : copies[i].pipe = p /\ copies[i].file_type = type}
<1>12. ASSUME NEW p PROVE EndsOf(p)' = EndsOf(p) \cup ({u} \X C(p))
  BY <1>9, <1>10, <1>11 DEF EndsOf
<1>13. ASSUME NEW p, NEW type
       PROVE  EndsOfType(p, type)' = EndsOfType(p, type) \cup ({u} \X CT(p, type))
  <2>1. EndsOf(p) \subseteq Ends BY DEF EndsOf
  <2>2. EndsOfType(p, type)' =
          {e \in EndsOf(p) \cup ({u} \X C(p)) : pobjects'[e[1]][e[2]].file_type = type}
    BY <1>12 DEF EndsOfType
  <2> QED BY <1>10, <1>11, <2>1, <2>2 DEF EndsOfType
<1>14. ASSUME NEW p, NEW type
       PROVE  IsFiniteSet(CT(p, type)) /\ Counted(copies, p, type) = Cardinality(CT(p, type))
  <2>1. CT(p, type) \in SUBSET D OBVIOUS
  <2>2. CT(p, type) = {i \in DOMAIN copies : copies[i].pipe = p /\ copies[i].file_type = type}
    BY <1>4 DEF D
  <2> QED BY <1>5, <2>1, <2>2, FS_Subset DEF Counted
<1> HIDE DEF CT
<1>15. ASSUME NEW p, NEW type
       PROVE  /\ IsFiniteSet(EndsOfType(p, type)) /\ IsFiniteSet(EndsOfType(p, type)')
              /\ Cardinality(EndsOfType(p, type)') =
                   Cardinality(EndsOfType(p, type)) + Counted(copies, p, type)
              /\ Counted(copies, p, type) \in Nat
  <2>1. IsFiniteSet(Ends) BY <1>3, EndsFinite
  <2>2. EndsOfType(p, type) \in SUBSET Ends BY DEF EndsOfType, EndsOf
  <2>3. IsFiniteSet(EndsOfType(p, type)) BY <2>1, <2>2, FS_Subset
  <2>4. \A e \in EndsOfType(p, type) : e[1] # u BY <1>9, <2>2
  <2>5. PICK E, K : E = EndsOfType(p, type) /\ K = CT(p, type) OBVIOUS
  <2>6. IsFiniteSet(E) /\ IsFiniteSet(K) /\ \A e \in E : e[1] # u BY <1>14, <2>3, <2>4, <2>5
  <2>7. AddedUp(E, E \cup ({u} \X K), K) BY <2>6, CopiesCounted
  <2>8. EndsOfType(p, type)' = E \cup ({u} \X K) BY <1>13, <2>5
  <2>9. Counted(copies, p, type) = Cardinality(K) BY <1>14, <2>5
  <2> QED BY <2>5, <2>6, <2>7, <2>8, <2>9 DEF AddedUp
<1>16. ASSUME NEW p \in made
       PROVE  /\ readers'[p] = Cardinality(EndsOfType(p, R)')
              /\ writers'[p] = Cardinality(EndsOfType(p, W)')
              /\ references'[p] = Cardinality(EndsOf(p)')
              /\ p \in freed' <=> EndsOf(p)' = {}
  <2>1. p \in Pipe BY <1>3 DEF PipesTypeOK
  <2>2. /\ readers[p] = Cardinality(EndsOfType(p, R))
        /\ writers[p] = Cardinality(EndsOfType(p, W))
        /\ references[p] = Cardinality(EndsOf(p)) /\ (p \in freed <=> EndsOf(p) = {})
    BY <1>3 DEF EndsCounted
  <2>3. /\ readers'[p] = Cardinality(EndsOfType(p, R)')
        /\ writers'[p] = Cardinality(EndsOfType(p, W)')
    BY <1>2, <1>15, <2>1, <2>2
  <2>4. Cardinality(EndsOf(p)) = Cardinality(EndsOfType(p, R)) + Cardinality(EndsOfType(p, W))
    BY <1>3, EndsFinite, ByType, CountedEnds
  <2>5. Cardinality(EndsOf(p)') =
          Cardinality(EndsOfType(p, R)') + Cardinality(EndsOfType(p, W)')
    <3>1. IsFiniteSet(Ends')
      <4>1. IsFiniteSet(Ends) BY <1>3, EndsFinite
      <4> QED BY <1>5, <1>9, <4>1, CopiesCounted DEF AddedUp
    <3>2. \A e \in Ends' : pobjects'[e[1]][e[2]] \in End
      BY <1>3, <1>6, <1>9, <1>10, <1>11, EndsFinite
    <3>3. EndsOf(p)' = Of(pobjects', Ends', p) BY DEF EndsOf, Of
    <3>4. \A type : EndsOfType(p, type)' = OfType(pobjects', Ends', p, type)
      BY DEF EndsOf, EndsOfType, Of, OfType
    <3> QED BY <3>1, <3>2, <3>3, <3>4, ByType
  <2>6. references'[p] = Cardinality(EndsOf(p)')
    <3>1. PICK x \in Nat, y \in Nat, a \in Nat, b \in Nat :
            /\ x = Cardinality(EndsOfType(p, R)) /\ y = Cardinality(EndsOfType(p, W))
            /\ a = Counted(copies, p, R) /\ b = Counted(copies, p, W)
      BY <1>15, FS_CardinalityType
    <3>2. references'[p] = (x + y) + a + b BY <1>2, <2>1, <2>2, <2>4, <3>1
    <3>3. Cardinality(EndsOf(p)') = (x + a) + (y + b) BY <1>15, <2>5, <3>1
    <3> QED BY <3>2, <3>3
  <2>7. EndsOf(p)' = {} <=> EndsOf(p) = {}
    <3>1. ASSUME NEW i \in D, copies[i].pipe = p PROVE EndsOf(p) # {}
      <4>1. PICK fd \in Fd : <<t, fd>> \in Ends /\ copies[i] = pobjects[t][fd] BY <1>6
      <4>2. <<t, fd>> \in EndsOf(p) BY <3>1, <4>1 DEF EndsOf
      <4> QED BY <4>2
    <3> QED BY <1>12, <3>1
  <2> QED BY <1>2, <2>2, <2>3, <2>6, <2>7
<1>17. EndsCounted' BY <1>2, <1>16 DEF EndsCounted
<1>18. EofFinal'
  <2> SUFFICES ASSUME NEW p \in eof PROVE EndsOfType(p, W)' = {} BY <1>2 DEF EofFinal
  <2>1. EndsOfType(p, W) = {} BY <1>3 DEF EofFinal
  <2>2. CT(p, W) = {}
    <3> SUFFICES ASSUME NEW i \in D, copies[i].pipe = p, copies[i].file_type = W PROVE FALSE
      BY DEF CT
    <3>1. PICK fd \in Fd : <<t, fd>> \in Ends /\ copies[i] = pobjects[t][fd] BY <1>6
    <3>2. <<t, fd>> \in EndsOfType(p, W) BY <3>1 DEF EndsOf, EndsOfType
    <3> QED BY <2>1, <3>2
  <2> QED BY <1>13, <2>1, <2>2
<1>19. RingsKept' BY <1>2, <1>3 DEF RingsKept
<1>20. PipesTypeOK'
  <2>1. {readers', writers', references'} \subseteq [Pipe -> Nat]
    <3>1. \A p \in Pipe : readers[p] \in Nat /\ writers[p] \in Nat /\ references[p] \in Nat
      BY <1>3 DEF PipesTypeOK
    <3>2. \A p \in Pipe : /\ readers[p] + Counted(copies, p, R) \in Nat
                          /\ writers[p] + Counted(copies, p, W) \in Nat
                          /\ references[p] + Counted(copies, p, R) + Counted(copies, p, W) \in Nat
      BY <1>15, <3>1
    <3> QED BY <1>2, <3>2
  <2> QED BY <1>2, <1>3, <1>7, <2>1 DEF PipesTypeOK
<1>21. EndsKnown'
  <2>1. \A e \in Ends' : pobjects'[e[1]][e[2]].pipe \in made'
    <3>1. \A e \in Ends : pobjects'[e[1]][e[2]].pipe \in made BY <1>3, <1>10 DEF EndsKnown
    <3>2. \A i \in D : pobjects'[u][i].pipe \in made BY <1>6, <1>11
    <3>3. \A e \in {u} \X D : e[1] = u /\ e[2] \in D OBVIOUS
    <3> QED BY <1>2, <1>9, <3>1, <3>2, <3>3
  <2>2. \A v \in Task : reading[v] # Nil => v \in alive' /\ pobjects'[v][reading[v].fd] # Nil
    BY <1>2, <1>3, <1>7 DEF EndsKnown
  <2>3. IsFiniteSet(alive') BY <1>2, <1>3, FS_AddElement DEF EndsKnown
  <2> QED BY <1>2, <1>3, <2>1, <2>2, <2>3 DEF EndsKnown
<1> QED BY <1>17, <1>18, <1>19, <1>20, <1>21 DEF PipesInv

(* The end that a waiting read has open *)
LEMMA WaitingEnd ==
  ASSUME PipesInv, NEW t \in Task, reading[t] # Nil
  PROVE  /\ t \in alive /\ reading[t] \in Reading
         /\ reading[t].fd \in Fd /\ reading[t].length \in Length
         /\ pobjects[t][reading[t].fd] # Nil
         /\ pobjects[t][reading[t].fd].pipe \in made /\ pobjects[t][reading[t].fd].pipe \in Pipe
<1>1. reading[t] \in Reading BY DEF PipesInv, PipesTypeOK
<1>2. reading[t].fd \in Fd /\ reading[t].length \in Length BY <1>1 DEF Reading
<1>3. t \in alive /\ pobjects[t][reading[t].fd] # Nil BY DEF PipesInv, EndsKnown
<1> QED BY <1>1, <1>2, <1>3, OpenEnd

(* pipe_vfs_write *)
LEMMA VfsWriteInv ==
  ASSUME PipesInv, NEW t \in Task, NEW fd \in Fd, NEW bytes \in Message, VfsWrite(t, fd, bytes)
  PROVE  PipesInv'
<1>1. PICK p : p = pobjects[t][fd].pipe OBVIOUS
<1>2. /\ t \in alive /\ pobjects[t][fd] # Nil
      /\ ring' = [ring EXCEPT ![p] = Write(@, bytes)]
      /\ pobjects' = pobjects /\ alive' = alive /\ counts' = counts /\ reading' = reading
      /\ got' = got /\ eof' = eof
  BY <1>1 DEF VfsWrite, Running
<1>3. PipesTypeOK /\ RingsKept /\ EndsKnown /\ EofFinal BY DEF PipesInv
<1>4. p \in made /\ p \in Pipe BY <1>1, <1>2, OpenEnd
<1>5. /\ EndsCounted' /\ Ends' = Ends
      /\ \A q, type : EndsOfType(q, type)' = EndsOfType(q, type)
  BY <1>2, SameEnds
<1>6. /\ made' = made /\ freed' = freed
      /\ readers' = readers /\ writers' = writers /\ references' = references
  BY <1>2 DEF counts
<1>7. bytes \in Seq(Byte) BY PipesAssumption
<1>8. RingInv(Write(ring[p], bytes)) BY <1>3, <1>4, <1>7, WriteFacts DEF RingsKept
<1>9. /\ ring'[p] = Write(ring[p], bytes) /\ \A q \in Pipe : q # p => ring'[q] = ring[q]
      /\ ring' \in [Pipe -> RingType]
  BY <1>2, <1>3, <1>4, <1>8 DEF PipesTypeOK, RingInv
<1>10. RingsKept' BY <1>3, <1>4, <1>6, <1>8, <1>9 DEF RingsKept
<1>11. PipesTypeOK' BY <1>2, <1>3, <1>6, <1>9 DEF PipesTypeOK
<1>12. EndsKnown' BY <1>2, <1>3, <1>5, <1>6 DEF EndsKnown
<1>13. EofFinal' BY <1>2, <1>3, <1>5 DEF EofFinal
<1> QED BY <1>5, <1>10, <1>11, <1>12, <1>13 DEF PipesInv

(* pipeline_read *)
LEMMA TakeInv ==
  ASSUME PipesInv, NEW p \in made, NEW n \in Nat, Take(p, n), made' = made
  PROVE  RingsKept' /\ ring' \in [Pipe -> RingType] /\ got' \in [Pipe -> Seq(Byte)]
<1>1. PipesTypeOK /\ RingsKept BY DEF PipesInv
<1>2. p \in Pipe BY <1>1 DEF PipesTypeOK
<1>3. RingInv(ring[p]) BY <1>1, <1>2 DEF RingsKept
<1>4. PICK m : m = Readable(ring[p], n) OBVIOUS
<1>5. /\ RingInv(AfterRead(ring[p], n)) /\ m \in 0..ring[p].avail
      /\ BytesRead(ring[p], n) = [i \in 1..m |-> Held(ring[p])[i]]
  BY <1>3, <1>4, ReadFacts
<1>6. BytesRead(ring[p], n) \in Seq(Byte)
  <2>1. Held(ring[p]) \in Seq(Byte) /\ Len(Held(ring[p])) = ring[p].avail BY <1>3, HeldFacts
  <2>2. ring[p].avail \in Nat BY <1>3, RingAssumption DEF RingInv, RingType, Index
  <2>3. m \in Nat /\ \A i \in 1..m : Held(ring[p])[i] \in Byte BY <1>5, <2>1, <2>2
  <2> QED BY <1>5, <2>3
<1>7. /\ ring'[p] = AfterRead(ring[p], n) /\ \A q \in Pipe : q # p => ring'[q] = ring[q]
      /\ ring' \in [Pipe -> RingType]
  BY <1>1, <1>2, <1>5 DEF Take, PipesTypeOK, RingInv
<1>8. got' \in [Pipe -> Seq(Byte)] BY <1>1, <1>2, <1>6 DEF Take, PipesTypeOK
<1>9. RingsKept' BY <1>1, <1>2, <1>5, <1>7 DEF RingsKept
<1> QED BY <1>7, <1>8, <1>9

(* How a read goes on: the end of the file is seen when writers is 0, and  *)
(* then no writing end is open.                                            *)
LEMMA ResultInv ==
  ASSUME PipesInv, NEW t \in alive, NEW fd \in Fd, NEW n \in Length, NEW nread \in Nat,
         pobjects[t][fd] # Nil, Result(t, fd, n, nread), UNCHANGED <<pobjects, alive, counts>>
  PROVE  /\ reading' \in [Task -> Reading \cup {Nil}] /\ eof' \subseteq Pipe
         /\ EofFinal' /\ EndsKnown' /\ EndsCounted'
<1>1. PICK p : p = pobjects[t][fd].pipe OBVIOUS
<1>2. p \in made /\ p \in Pipe BY <1>1, OpenEnd
<1>3. PipesTypeOK /\ EndsKnown /\ EndsCounted /\ EofFinal BY DEF PipesInv
<1>4. /\ EndsCounted' /\ Ends' = Ends
      /\ \A q, type : EndsOfType(q, type)' = EndsOfType(q, type)
  BY SameEnds
<1>5. made' = made /\ freed' = freed BY DEF counts
<1>6. PICK x : /\ reading' = [reading EXCEPT ![t] = x]
               /\ x = Nil \/ x = [fd |-> fd, length |-> n, at |-> "rescheduled"]
  BY DEF Result
<1>7. x = Nil \/ (x \in Reading /\ x.fd = fd) BY <1>6 DEF Reading
<1>8. t \in Task BY <1>3 DEF PipesTypeOK
<1>9. /\ reading' \in [Task -> Reading \cup {Nil}] /\ reading'[t] = x
      /\ \A u \in Task : u # t => reading'[u] = reading[u]
  BY <1>3, <1>6, <1>7, <1>8 DEF PipesTypeOK
<1>10. eof' = eof \/ (eof' = eof \cup {p} /\ EndsOfType(p, "PIPE_POBJ") = {})
  <2>1. CASE nread = 0 /\ ~TryAgain(p, nread)
    <3>1. writers[p] = 0 BY <1>2, <1>3, <2>1 DEF PipesTypeOK, TryAgain
    <3>2. Cardinality(EndsOfType(p, "PIPE_POBJ")) = 0 BY <1>2, <1>3, <3>1 DEF EndsCounted
    <3>3. IsFiniteSet(EndsOfType(p, "PIPE_POBJ"))
      <4>1. EndsOfType(p, "PIPE_POBJ") \in SUBSET Ends BY DEF EndsOfType, EndsOf
      <4> QED BY <1>3, <4>1, EndsFinite, FS_Subset
    <3>4. EndsOfType(p, "PIPE_POBJ") = {} BY <3>2, <3>3, FS_EmptySet
    <3> QED BY <1>1, <2>1, <3>4 DEF Result
  <2>2. CASE ~(nread = 0 /\ ~TryAgain(p, nread)) BY <1>1, <2>2 DEF Result
  <2> QED BY <2>1, <2>2
<1>11. EofFinal' BY <1>3, <1>4, <1>10 DEF EofFinal
<1>12. EndsKnown'
  <2>1. \A u \in Task : reading'[u] # Nil => u \in alive' /\ pobjects'[u][reading'[u].fd] # Nil
    BY <1>3, <1>7, <1>9 DEF EndsKnown
  <2>2. eof' \subseteq made' BY <1>2, <1>3, <1>5, <1>10 DEF EndsKnown
  <2>3. \A e \in Ends' : pobjects'[e[1]][e[2]].pipe \in made' BY <1>3, <1>4, <1>5 DEF EndsKnown
  <2> QED BY <1>3, <1>5, <2>1, <2>2, <2>3 DEF EndsKnown
<1>13. eof' \subseteq Pipe BY <1>2, <1>3, <1>10 DEF PipesTypeOK
<1> QED BY <1>4, <1>9, <1>11, <1>12, <1>13

(* vfs_read's first try *)
LEMMA VfsReadInv ==
  ASSUME PipesInv, NEW t \in Task, NEW fd \in Fd, NEW n \in Length, VfsRead(t, fd, n)
  PROVE  PipesInv'
<1>1. PICK p : p = pobjects[t][fd].pipe OBVIOUS
<1>2. /\ t \in alive /\ pobjects[t][fd] # Nil
      /\ Take(p, n) /\ Result(t, fd, n, Readable(ring[p], n))
      /\ pobjects' = pobjects /\ alive' = alive /\ counts' = counts
  BY <1>1 DEF VfsRead, Running
<1>3. p \in made /\ p \in Pipe /\ PipesTypeOK BY <1>1, <1>2, OpenEnd DEF PipesInv
<1>4. n \in Nat BY PipesAssumption
<1>5. Readable(ring[p], n) \in Nat
  BY <1>3, <1>4, RingAssumption DEF PipesTypeOK, RingType, Index, Readable
<1>6. /\ made' = made /\ freed' = freed
      /\ readers' = readers /\ writers' = writers /\ references' = references
  BY <1>2 DEF counts
<1>7. RingsKept' /\ ring' \in [Pipe -> RingType] /\ got' \in [Pipe -> Seq(Byte)]
  BY <1>2, <1>3, <1>4, <1>6, TakeInv
<1>8. /\ reading' \in [Task -> Reading \cup {Nil}] /\ eof' \subseteq Pipe
      /\ EofFinal' /\ EndsKnown' /\ EndsCounted'
  BY <1>2, <1>5, ResultInv
<1>9. PipesTypeOK' BY <1>2, <1>3, <1>6, <1>7, <1>8 DEF PipesTypeOK
<1> QED BY <1>7, <1>8, <1>9 DEF PipesInv

(* A try after a reschedule *)
LEMMA ReadAgainInv ==
  ASSUME PipesInv, NEW t \in Task, ReadAgain(t)
  PROVE  PipesInv'
<1>1. PICK p, n, x :
        /\ p = pobjects[t][reading[t].fd].pipe /\ n = reading[t].length
        /\ Take(p, n) /\ reading' = [reading EXCEPT ![t] = x]
        /\ x = Nil \/ x = [reading[t] EXCEPT !.at = "read"]
  BY DEF ReadAgain
<1>2. /\ pobjects' = pobjects /\ alive' = alive /\ counts' = counts /\ eof' = eof
      /\ reading[t] # Nil
  BY DEF ReadAgain
<1>3. t \in alive /\ reading[t] \in Reading /\ n \in Length /\ p \in made BY <1>1, <1>2, WaitingEnd
<1>4. PipesTypeOK /\ EndsKnown /\ EofFinal BY DEF PipesInv
<1>5. x = Nil \/ (x \in Reading /\ x.fd = reading[t].fd) BY <1>1, <1>3 DEF Reading
<1>6. /\ made' = made /\ freed' = freed
      /\ readers' = readers /\ writers' = writers /\ references' = references
  BY <1>2 DEF counts
<1>7. RingsKept' /\ ring' \in [Pipe -> RingType] /\ got' \in [Pipe -> Seq(Byte)]
  BY <1>1, <1>3, <1>6, PipesAssumption, TakeInv
<1>8. /\ EndsCounted' /\ Ends' = Ends
      /\ \A q, type : EndsOfType(q, type)' = EndsOfType(q, type)
  BY <1>2, SameEnds
<1>9. /\ reading' \in [Task -> Reading \cup {Nil}] /\ reading'[t] = x
      /\ \A u \in Task : u # t => reading'[u] = reading[u]
  BY <1>1, <1>4, <1>5 DEF PipesTypeOK
<1>10. EofFinal' BY <1>2, <1>4, <1>8 DEF EofFinal
<1>11. EndsKnown'
  <2>1. \A u \in Task : reading'[u] # Nil => u \in alive' /\ pobjects'[u][reading'[u].fd] # Nil
    BY <1>2, <1>4, <1>5, <1>9 DEF EndsKnown
  <2> QED BY <1>2, <1>4, <1>6, <1>8, <2>1 DEF EndsKnown
<1>12. PipesTypeOK' BY <1>2, <1>4, <1>6, <1>7, <1>9 DEF PipesTypeOK
<1> QED BY <1>7, <1>8, <1>10, <1>11, <1>12 DEF PipesInv

(* The test of writers that follows *)
LEMMA TestWritersInv ==
  ASSUME PipesInv, NEW t \in Task, TestWriters(t)
  PROVE  PipesInv'
<1>1. PICK fd, n : fd = reading[t].fd /\ n = reading[t].length OBVIOUS
<1>2. /\ reading[t] # Nil /\ Result(t, fd, n, 0)
      /\ pobjects' = pobjects /\ alive' = alive /\ counts' = counts /\ ring' = ring /\ got' = got
  BY <1>1 DEF TestWriters
<1>3. t \in alive /\ fd \in Fd /\ n \in Length /\ pobjects[t][fd] # Nil BY <1>1, <1>2, WaitingEnd
<1>4. /\ reading' \in [Task -> Reading \cup {Nil}] /\ eof' \subseteq Pipe
      /\ EofFinal' /\ EndsKnown' /\ EndsCounted'
  BY <1>2, <1>3, ResultInv
<1>5. /\ made' = made /\ freed' = freed
      /\ readers' = readers /\ writers' = writers /\ references' = references
  BY <1>2 DEF counts
<1>6. PipesTypeOK /\ RingsKept BY DEF PipesInv
<1>7. PipesTypeOK' BY <1>2, <1>4, <1>5, <1>6 DEF PipesTypeOK
<1>8. RingsKept' BY <1>2, <1>5, <1>6 DEF RingsKept
<1> QED BY <1>4, <1>7, <1>8 DEF PipesInv

(* The invariant holds at the start. *)
LEMMA PipesInitInv == PipesInit => PipesInv
<1> SUFFICES ASSUME PipesInit PROVE PipesInv OBVIOUS
<1>1. /\ pobjects = [t \in Task |-> EmptyTable] /\ alive = {Shell}
      /\ ring = [p \in Pipe |-> NewRing]
      /\ readers = [p \in Pipe |-> 0] /\ writers = [p \in Pipe |-> 0]
      /\ references = [p \in Pipe |-> 0]
      /\ made = {} /\ freed = {} /\ reading = [t \in Task |-> Nil]
      /\ got = [p \in Pipe |-> <<>>] /\ eof = {}
  BY DEF PipesInit
<1>2. Ends = {}
  <2>1. \A t \in alive, fd \in Fd : pobjects[t][fd] = Nil
    BY <1>1, PipesAssumption DEF EmptyTable
  <2> QED BY <2>1 DEF Ends
<1>3. PipesTypeOK
  <2>1. ring \in [Pipe -> RingType] BY <1>1, NewRingInv DEF RingInv
  <2>2. pobjects \in [Task -> [Fd -> End \cup {Nil}]] BY <1>1 DEF EmptyTable
  <2>3. got \in [Pipe -> Seq(Byte)] BY <1>1
  <2>4. {readers, writers, references} \subseteq [Pipe -> Nat] BY <1>1
  <2> QED BY <1>1, <2>1, <2>2, <2>3, <2>4, PipesAssumption DEF PipesTypeOK
<1>4. RingsKept BY <1>1, NewRingInv DEF RingsKept
<1>5. EndsKnown BY <1>1, <1>2, FS_Singleton DEF EndsKnown
<1>6. EndsCounted /\ EofFinal BY <1>1 DEF EndsCounted, EofFinal
<1> QED BY <1>3, <1>4, <1>5, <1>6 DEF PipesInv

(* Every step keeps it. *)
LEMMA PipesNextInv == PipesInv /\ [PipesNext]_pipeVars => PipesInv'
<1> SUFFICES ASSUME PipesInv, [PipesNext]_pipeVars PROVE PipesInv' OBVIOUS
<1>1. ASSUME NEW t \in Task, MakePipes(t) PROVE PipesInv' BY <1>1, MakePipesInv
<1>2. ASSUME NEW t \in Task, Exit(t) PROVE PipesInv' BY <1>2, ExitInv
<1>3. ASSUME NEW t \in Task, ReadAgain(t) PROVE PipesInv' BY <1>3, ReadAgainInv
<1>4. ASSUME NEW t \in Task, TestWriters(t) PROVE PipesInv' BY <1>4, TestWritersInv
<1>5. ASSUME NEW t \in Task, NEW u \in Task, NEW fds \in FdList, Spawn(t, u, fds) PROVE PipesInv'
  BY <1>5, SpawnInv
<1>6. ASSUME NEW t \in Task, NEW fd \in Fd, Close(t, fd) PROVE PipesInv' BY <1>6, CloseInv
<1>7. ASSUME NEW t \in Task, NEW fd \in Fd, NEW nonblock \in BOOLEAN, Fcntl(t, fd, nonblock)
      PROVE  PipesInv'
  BY <1>7, FcntlInv
<1>8. ASSUME NEW t \in Task, NEW fd \in Fd, NEW bytes \in Message, VfsWrite(t, fd, bytes)
      PROVE  PipesInv'
  BY <1>8, VfsWriteInv
<1>9. ASSUME NEW t \in Task, NEW fd \in Fd, NEW n \in Length, VfsRead(t, fd, n) PROVE PipesInv'
  BY <1>9, VfsReadInv
<1>10. CASE UNCHANGED pipeVars
  <2>1. /\ pobjects' = pobjects /\ alive' = alive /\ counts' = counts /\ ring' = ring
        /\ reading' = reading /\ got' = got /\ eof' = eof /\ made' = made /\ freed' = freed
        /\ readers' = readers /\ writers' = writers /\ references' = references
    BY <1>10 DEF pipeVars, counts
  <2>2. /\ EndsCounted' /\ Ends' = Ends
        /\ \A q, type : EndsOfType(q, type)' = EndsOfType(q, type)
    BY <2>1, SameEnds
  <2>3. PipesTypeOK /\ RingsKept /\ EndsKnown /\ EofFinal BY DEF PipesInv
  <2>4. PipesTypeOK' BY <2>1, <2>3 DEF PipesTypeOK
  <2>5. RingsKept' BY <2>1, <2>3 DEF RingsKept
  <2>6. EndsKnown' BY <2>1, <2>2, <2>3 DEF EndsKnown
  <2>7. EofFinal' BY <2>1, <2>2, <2>3 DEF EofFinal
  <2> QED BY <2>2, <2>4, <2>5, <2>6, <2>7 DEF PipesInv
<1>11. CASE PipesNext
  BY <1>1, <1>2, <1>3, <1>4, <1>5, <1>6, <1>7, <1>8, <1>9, <1>11, Zenon DEF PipesNext
<1> QED BY <1>10, <1>11

(* The inductive invariant of the pipes holds in every reachable state.    *)
THEOREM PipesInvariant == PipesSpec => []PipesInv
<1> QED BY PipesInitInv, PipesNextInv, PTL DEF PipesSpec

(* Every table entry is empty or an end, every counter a natural number,   *)
(* every ring within its buffer.                                           *)
THEOREM PipesTypesKept == PipesSpec => []PipesTypeOK
<1>1. PipesInv => PipesTypeOK BY DEF PipesInv
<1> QED BY <1>1, PipesInvariant, PTL

(* However pipes are made, their ends copied, closed and dropped at exit,  *)
(* readers, writers and references are the numbers of open ends, and a     *)
(* pipe is freed exactly when none is open.                                *)
THEOREM EndsAlwaysCounted == PipesSpec => []EndsCounted
<1>1. PipesInv => EndsCounted BY DEF PipesInv
<1> QED BY <1>1, PipesInvariant, PTL

(* A read returns 0 only when no task has the writing end open, and none   *)
(* gets it later.                                                          *)
THEOREM EofIsFinal == PipesSpec => []EofFinal
<1>1. PipesInv => EofFinal BY DEF PipesInv
<1> QED BY <1>1, PipesInvariant, PTL

-----------------------------------------------------------------------------
(* The ring implements the queue. *)

(* Two sequences of the same length with the same entries are equal. *)
LEMMA SameSequence ==
  ASSUME NEW S, NEW s \in Seq(S), NEW t \in Seq(S), Len(s) = Len(t),
         \A i \in 1..Len(s) : s[i] = t[i]
  PROVE  s = t
<1>1. s = [i \in 1..Len(s) |-> s[i]] /\ t = [i \in 1..Len(t) |-> t[i]] OBVIOUS
<1> QED BY <1>1

(* Writing is sending: the newest bytes are kept. *)
LEMMA WriteSends ==
  ASSUME NEW r, RingInv(r), NEW bs \in Seq(Byte)
  PROVE  Held(Write(r, bs)) = Queue!Newest(Held(r) \o bs)
<1>1. PICK s : s = Held(Write(r, bs)) OBVIOUS
<1>2. PICK t : t = Held(r) \o bs OBVIOUS
<1>3. RingInv(Write(r, bs)) /\ NewestOf(s, t, r.avail + Len(bs)) BY <1>1, <1>2, WriteFacts
<1>4. s \in Seq(Byte) BY <1>1, <1>3, HeldFacts
<1>5. Held(r) \in Seq(Byte) /\ Len(Held(r)) = r.avail BY HeldFacts
<1>6. t \in Seq(Byte) /\ Len(t) = r.avail + Len(bs) BY <1>2, <1>5
<1>7. PICK n \in Nat : n = Len(t) BY <1>6
<1>8. Size \in Nat /\ Size >= 2 BY RingAssumption
<1>9. /\ Len(s) = IF n <= Size - 1 THEN n ELSE Size - 1
      /\ \A i \in 1..Len(s) : s[i] = t[n - Len(s) + i]
  BY <1>3, <1>6, <1>7 DEF NewestOf
<1>10. CASE n <= Size - 1
  <2>1. Len(s) = n /\ \A i \in 1..n : s[i] = t[i] BY <1>9, <1>10
  <2>2. s = t BY <1>4, <1>6, <1>7, <2>1, SameSequence
  <2> QED BY <1>1, <1>2, <1>7, <1>10, <2>2 DEF Queue!Newest
<1>11. CASE ~(n <= Size - 1)
  <2>1. PICK k \in 1..n : k = n - (Size - 1) + 1 BY <1>8, <1>11
  <2>2. /\ SubSeq(t, k, n) \in Seq(Byte) /\ Len(SubSeq(t, k, n)) = n - k + 1
        /\ \A i \in 1..(n - k + 1) : SubSeq(t, k, n)[i] = t[k + i - 1]
    BY <1>6, <1>7, <2>1
  <2>3. Len(s) = n - k + 1 /\ \A i \in 1..(n - k + 1) : s[i] = t[k + i - 1]
    BY <1>8, <1>9, <1>11, <2>1
  <2>4. s = SubSeq(t, k, n) BY <1>4, <2>2, <2>3, SameSequence
  <2> QED BY <1>1, <1>2, <1>7, <1>8, <1>11, <2>1, <2>4 DEF Queue!Newest
<1> QED BY <1>10, <1>11

(* Reading is receiving. *)
LEMMA ReadReceives ==
  ASSUME NEW r, RingInv(r), NEW n \in Nat
  PROVE  LET q == Held(r)
             m == IF n < Len(q) THEN n ELSE Len(q)
         IN  /\ BytesRead(r, n) = SubSeq(q, 1, m)
             /\ Held(AfterRead(r, n)) = SubSeq(q, m + 1, Len(q))
<1>1. PICK q : q = Held(r) OBVIOUS
<1>2. PICK m : m = Readable(r, n) OBVIOUS
<1>3. q \in Seq(Byte) /\ Len(q) = r.avail BY <1>1, HeldFacts
<1>4. PICK a \in Nat : a = Len(q) BY <1>3
<1>5. /\ m \in 0..a /\ m = IF n < a THEN n ELSE a
      /\ RingInv(AfterRead(r, n)) /\ BytesRead(r, n) = [i \in 1..m |-> q[i]]
      /\ Len(Held(AfterRead(r, n))) = a - m
      /\ \A i \in 1..(a - m) : Held(AfterRead(r, n))[i] = q[m + i]
  <2>1. /\ m \in 0..r.avail /\ m = IF n < r.avail THEN n ELSE r.avail
        /\ RingInv(AfterRead(r, n)) /\ BytesRead(r, n) = [i \in 1..m |-> Held(r)[i]]
    BY <1>2, ReadFacts
  <2>2. /\ Len(Held(AfterRead(r, n))) = r.avail - m
        /\ \A i \in 1..(r.avail - m) : Held(AfterRead(r, n))[i] = Held(r)[m + i]
    BY <1>2, ReadFacts
  <2> QED BY <1>1, <1>3, <1>4, <2>1, <2>2
<1>6. BytesRead(r, n) = SubSeq(q, 1, m)
  <2>1. SubSeq(q, 1, m) = [i \in 1..m |-> q[i]] BY <1>3, <1>4, <1>5
  <2> QED BY <1>5, <2>1
<1>7. Held(AfterRead(r, n)) = SubSeq(q, m + 1, a)
  <2>1. Held(AfterRead(r, n)) \in Seq(Byte) BY <1>5, HeldFacts
  <2>2. /\ SubSeq(q, m + 1, a) \in Seq(Byte) /\ Len(SubSeq(q, m + 1, a)) = a - m
        /\ \A i \in 1..(a - m) : SubSeq(q, m + 1, a)[i] = q[m + i]
    BY <1>3, <1>4, <1>5
  <2>3. PICK s, w : s = Held(AfterRead(r, n)) /\ w = SubSeq(q, m + 1, a) OBVIOUS
  <2>4. s \in Seq(Byte) /\ w \in Seq(Byte) /\ Len(s) = a - m /\ Len(w) = a - m BY <1>5, <2>1, <2>2, <2>3
  <2>5. \A i \in 1..Len(s) : s[i] = w[i] BY <1>5, <2>2, <2>3, <2>4
  <2>6. s = w BY <2>4, <2>5, SameSequence
  <2> QED BY <2>3, <2>6
<1> QED BY <1>1, <1>4, <1>5, <1>6, <1>7

(* The first state is one of the queue's. *)
LEMMA QueueInit == PipesInit => Queue!Init
<1> SUFFICES ASSUME PipesInit PROVE Queue!Init OBVIOUS
<1>1. ring = [p \in Pipe |-> NewRing] /\ got = [p \in Pipe |-> <<>>] BY DEF PipesInit
<1>2. Held(NewRing) = <<>>
  <2>1. Len(Held(NewRing)) = 0 /\ Held(NewRing) \in Seq(Byte) BY NewRingInv, HeldFacts DEF NewRing
  <2> QED BY <2>1
<1>3. \A p \in Pipe : Contents(p) = <<>> BY <1>1, <1>2 DEF Contents, Held
<1> QED BY <1>1, <1>3 DEF Queue!Init

(* What a step that only changes one ring means for the queue *)
LEMMA OneQueue ==
  ASSUME NEW p \in Pipe, ring \in [Pipe -> RingType], NEW r, ring' = [ring EXCEPT ![p] = r]
  PROVE  [q \in Pipe |-> Contents(q)]' = [[q \in Pipe |-> Contents(q)] EXCEPT ![p] = Held(r)]
BY DEF Contents, Held

(* Every step of the pipes is one of the queue, or leaves the queue alone. *)
LEMMA QueueStep ==
  PipesInv /\ [PipesNext]_pipeVars => [Queue!Next]_<<[p \in Pipe |-> Contents(p)], got>>
<1> SUFFICES ASSUME PipesInv, [PipesNext]_pipeVars
             PROVE  [Queue!Next]_<<[p \in Pipe |-> Contents(p)], got>>
  OBVIOUS
<1> DEFINE queue == [p \in Pipe |-> Contents(p)]
<1>1. ring \in [Pipe -> RingType] /\ got \in [Pipe -> Seq(Byte)] /\ RingsKept
  BY DEF PipesInv, PipesTypeOK
<1>2. ASSUME ring' = ring, got' = got PROVE UNCHANGED <<queue, got>> BY <1>2 DEF Contents
<1>3. ASSUME NEW t \in Task, MakePipes(t) PROVE UNCHANGED <<queue, got>>
  <2>1. PICK p \in Pipe \ made : ring' = [ring EXCEPT ![p] = NewRing] /\ got' = got
    BY <1>3 DEF MakePipes
  <2>2. ring[p] = NewRing BY <1>1 DEF RingsKept
  <2>3. ring' = ring BY <1>1, <2>1, <2>2
  <2> QED BY <1>2, <2>1, <2>3
<1>4. ASSUME NEW p \in Pipe, NEW n \in Length, Take(p, n) PROVE Queue!Next
  <2>1. n \in Nat /\ RingInv(ring[p]) BY <1>1, PipesAssumption DEF RingsKept
  <2>2. /\ got' = [got EXCEPT ![p] = BytesRead(ring[p], n)]
        /\ queue' = [queue EXCEPT ![p] = Held(AfterRead(ring[p], n))]
    BY <1>1, <1>4, OneQueue DEF Take
  <2>3. queue[p] = Held(ring[p]) BY DEF Contents, Held
  <2>4. Queue!Receive(p, n) BY <2>1, <2>2, <2>3, ReadReceives DEF Queue!Receive
  <2> QED BY <2>4 DEF Queue!Next
<1>5. ASSUME NEW t \in Task, NEW fd \in Fd, NEW bytes \in Message, VfsWrite(t, fd, bytes)
      PROVE  Queue!Next
  <2>1. PICK p : p = pobjects[t][fd].pipe OBVIOUS
  <2>2. p \in Pipe BY <1>5, <2>1, OpenEnd DEF VfsWrite, Running
  <2>3. bytes \in Seq(Byte) /\ RingInv(ring[p]) BY <1>1, <2>2, PipesAssumption DEF RingsKept
  <2>4. ring' = [ring EXCEPT ![p] = Write(ring[p], bytes)] /\ got' = got
    BY <1>1, <1>5, <2>1, <2>2 DEF VfsWrite
  <2>5. queue' = [queue EXCEPT ![p] = Held(Write(ring[p], bytes))]
    BY <1>1, <2>2, <2>4, OneQueue
  <2>6. queue[p] = Held(ring[p]) BY <2>2 DEF Contents, Held
  <2>7. Queue!Send(p, bytes) BY <2>3, <2>4, <2>5, <2>6, WriteSends DEF Queue!Send
  <2> QED BY <2>2, <2>7 DEF Queue!Next
<1>6. ASSUME NEW t \in Task, NEW fd \in Fd, NEW n \in Length, VfsRead(t, fd, n) PROVE Queue!Next
  <2>1. pobjects[t][fd].pipe \in Pipe BY <1>6, OpenEnd DEF VfsRead, Running
  <2> QED BY <1>4, <1>6, <2>1 DEF VfsRead
<1>7. ASSUME NEW t \in Task, ReadAgain(t) PROVE Queue!Next
  <2>1. pobjects[t][reading[t].fd].pipe \in Pipe /\ reading[t].length \in Length
    BY <1>7, WaitingEnd DEF ReadAgain
  <2> QED BY <1>4, <1>7, <2>1 DEF ReadAgain
<1>8. ASSUME NEW t \in Task, Exit(t) PROVE UNCHANGED <<queue, got>> BY <1>2, <1>8 DEF Exit
<1>9. ASSUME NEW t \in Task, TestWriters(t) PROVE UNCHANGED <<queue, got>>
  BY <1>2, <1>9 DEF TestWriters
<1>10. ASSUME NEW t \in Task, NEW u \in Task, NEW fds \in FdList, Spawn(t, u, fds)
       PROVE  UNCHANGED <<queue, got>>
  BY <1>2, <1>10 DEF Spawn
<1>11. ASSUME NEW t \in Task, NEW fd \in Fd, Close(t, fd) PROVE UNCHANGED <<queue, got>>
  BY <1>2, <1>11 DEF Close
<1>12. ASSUME NEW t \in Task, NEW fd \in Fd, NEW nonblock \in BOOLEAN, Fcntl(t, fd, nonblock)
       PROVE  UNCHANGED <<queue, got>>
  BY <1>2, <1>12 DEF Fcntl
<1>13. CASE UNCHANGED pipeVars
  <2>1. UNCHANGED <<queue, got>> BY <1>2, <1>13 DEF pipeVars
  <2> QED BY <2>1
<1>14. CASE PipesNext
  BY <1>3, <1>5, <1>6, <1>7, <1>8, <1>9, <1>10, <1>11, <1>12, <1>14, Zenon DEF PipesNext
<1> QED BY <1>13, <1>14

(* Every behaviour of the pipes is one of the queue that keeps the newest  *)
(* Size - 1 bytes: readers get the bytes that were written, in order, none *)
(* twice.                                                                  *)
THEOREM PipesImplementQueue == PipesSpec => ImplementsQueue
<1> QED BY PipesInvariant, QueueInit, QueueStep, PTL DEF PipesSpec, ImplementsQueue, Queue!Spec
=============================================================================
