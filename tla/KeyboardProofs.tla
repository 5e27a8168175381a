---------------------------- MODULE KeyboardProofs ----------------------------
(***************************************************************************)
(* Proofs about Keyboard.  The lemmas on remainders and on the ring are    *)
(* those of PipesProofs; that avail is the number of bytes between the two *)
(* positions (RingInv) does not hold here, where updates of avail can be   *)
(* lost.                                                                   *)
(***************************************************************************)
EXTENDS Keyboard, PipesProofs

Label == {"user", "enter", "load_sem", "store_sem", "test", "load_j", "copy", "load_readp",
          "store_readp", "load_avail", "store_avail", "leave", "load_back", "result"}

KbdTypeOK ==
  /\ line \in RingType /\ keybd_sem \in Nat
  /\ metastatus \subseteq Meta /\ keymap \in {"lower", "upper"}
  /\ pc \in Label /\ loaded \in Nat /\ count \in Nat
  /\ typed \in Seq(Byte) /\ read \in Seq(Byte \cup {NoByte})

(* keybd_sem is above 0 where the reader tests it: what the reader takes   *)
(* it gives back, and the interrupt only sets it to 1.                     *)
SemaphoreFree ==
  /\ pc \in {"user", "enter", "load_sem", "store_sem", "result"} => keybd_sem > 0
  /\ pc = "store_sem" => loaded > 0

(* From the test of the loop until avail is stored there is a byte to      *)
(* take.                                                                   *)
ByteToTake ==
  /\ pc \in {"load_j", "copy", "load_readp", "store_readp", "load_avail"} => line.avail >= 1
  /\ pc = "store_avail" => loaded \in 1..(Size - 1)
  /\ pc \in {"copy", "store_readp"} => loaded \in Index

(* The newest of the first n bytes of t, up to Size, lie in the buffer. *)
InBuffer(buf, t, n) == \A j \in 1..n : j > n - Size => buf[(j - 1) % Size] = t[j]

(* How far readp and avail are behind what the reader has copied *)
ReadpBehind == IF pc \in {"load_readp", "store_readp"} THEN 1 ELSE 0
AvailBehind == IF pc \in {"load_readp", "store_readp", "load_avail", "store_avail"} THEN 1 ELSE 0

(* The positions are those of the bytes typed and read, and avail is no    *)
(* more than what is unread; lost updates make it less.                    *)
InOrder ==
  /\ Len(read) <= Len(typed) /\ Len(typed) - Len(read) <= Size
  /\ \A i \in 1..Len(read) : read[i] = typed[i]
  /\ line.writep % Size = Len(typed) % Size
  /\ InBuffer(line.buf, typed, Len(typed))
  /\ Len(read) >= ReadpBehind /\ line.readp = (Len(read) - ReadpBehind) % Size
  /\ line.avail <= (Len(typed) - Len(read)) + AvailBehind
  /\ pc \in {"copy", "store_readp"} => loaded = line.readp
  /\ pc = "store_avail" => loaded <= (Len(typed) - Len(read)) + 1

(* The inductive invariant *)
KbdInv ==
  /\ KbdTypeOK /\ KeymapAgrees /\ SemaphoreFree /\ ByteToTake
  /\ ~overflowed => InOrder

-----------------------------------------------------------------------------
(* Less than n apart, two numbers have different remainders. *)
LEMMA ModDistinct ==
  ASSUME NEW n \in Nat \ {0}, NEW x \in Nat, NEW d \in 1..(n - 1)
  PROVE  (x + d) % n # x % n
<1>1. PICK r \in 0..(n - 1) : r = x % n BY DivMod
<1>3. d \in 0..n /\ d \in Nat OBVIOUS
<1>2. ((x % n) + d) % n = (x + d) % n BY <1>3, ModAdd
<1>4. (r + d) % n = Pos(r + d, n) BY <1>3, ModPos
<1>5. Pos(r + d, n) # r BY DEF Pos
<1> QED BY <1>1, <1>2, <1>4, <1>5

(* Put in a ring of any kind *)
LEMMA PutType ==
  ASSUME NEW r \in RingType, NEW b \in Byte
  PROVE  Put(r, b) \in RingType /\ Put(r, b).avail >= r.avail
<1>1. Size \in Nat /\ Size >= 2 /\ Wrap \in Nat \ {0} BY RingAssumption
<1>2. PICK rd \in 0..(Size - 1), av \in 0..(Size - 1), wp \in 0..(Wrap - 1) :
        rd = r.readp /\ av = r.avail /\ wp = r.writep
  BY DEF RingType, Index
<1>3. PICK s : s = Put(r, b) OBVIOUS
<1>4. /\ s.buf = [r.buf EXCEPT ![wp % Size] = b]
      /\ s.avail = IF av = Size - 1 THEN av ELSE av + 1
      /\ s.writep = (wp + 1) % Wrap
      /\ s.readp = IF av = Size - 1 THEN (rd + 1) % Size ELSE rd
      /\ s \in [buf : {s.buf}, avail : {s.avail}, writep : {s.writep}, readp : {s.readp}]
  BY <1>2, <1>3, PutFields
<1>5. r.buf \in [0..(Size - 1) -> Byte \cup {NoByte}] BY DEF RingType, Index
<1>6. s.buf \in [0..(Size - 1) -> Byte \cup {NoByte}] BY <1>4, <1>5
<1>7. s.writep \in 0..(Wrap - 1)
  <2>1. wp + 1 \in Nat BY <1>1
  <2> QED BY <1>1, <1>4, <2>1
<1>8. s.readp \in 0..(Size - 1)
  <2>1. rd + 1 \in Nat BY <1>1
  <2>2. (rd + 1) % Size \in 0..(Size - 1) BY <1>1, <2>1
  <2> QED BY <1>4, <2>2
<1>9. s.avail \in 0..(Size - 1) /\ s.avail >= av BY <1>1, <1>4
<1> QED BY <1>2, <1>3, <1>4, <1>6, <1>7, <1>8, <1>9 DEF RingType, Index

(* Writing leaves at least as many bytes. *)
LEMMA WriteType ==
  ASSUME NEW r \in RingType, NEW bs \in Seq(Byte)
  PROVE  Write(r, bs) \in RingType /\ Write(r, bs).avail >= r.avail
<1>1. PICK F : /\ F[0] = r
               /\ \A m \in 0..(Len(bs) - 1) : F[m + 1] = Put(F[m], bs[m + 1])
               /\ F[Len(bs)] = Write(r, bs)
  BY WriteRun
<1>2. PICK n \in Nat : n = Len(bs) OBVIOUS
<1>3. Size \in Nat BY RingAssumption
<1> DEFINE S == {k \in Nat : k <= n => F[k] \in RingType /\ F[k].avail >= r.avail}
<1>4. 0 \in S
  <2>1. r.avail >= r.avail BY <1>3 DEF RingType, Index
  <2> QED BY <1>1, <2>1
<1>5. ASSUME NEW k \in Nat, k \in S PROVE k + 1 \in S
  <2> SUFFICES ASSUME k + 1 <= n PROVE F[k + 1] \in RingType /\ F[k + 1].avail >= r.avail
    OBVIOUS
  <2>1. F[k] \in RingType /\ F[k].avail >= r.avail BY <1>5
  <2>2. bs[k + 1] \in Byte /\ k \in 0..(n - 1) BY <1>2
  <2>3. F[k + 1] = Put(F[k], bs[k + 1]) BY <1>1, <1>2, <2>2
  <2>4. F[k + 1] \in RingType /\ F[k + 1].avail >= F[k].avail BY <2>1, <2>2, <2>3, PutType
  <2> QED BY <1>3, <2>1, <2>4 DEF RingType, Index
<1>6. Nat \subseteq S
  <2> HIDE DEF S
  <2> QED BY <1>4, <1>5, PutLoop!SetInduction
<1>7. n \in S /\ n <= n BY <1>6
<1> QED BY <1>1, <1>2, <1>7

(* What writes that fit make of the ring: t was written before. *)
Fits(r, s, t, k) ==
  /\ s \in RingType /\ s.avail = r.avail + k /\ s.readp = r.readp
  /\ s.writep % Size = (Len(t) + k) % Size

(* A write of no more than is free leaves what was written in place and    *)
(* adds to it.                                                             *)
LEMMA WriteFits ==
  ASSUME NEW r \in RingType, NEW bs \in Seq(Byte), r.avail + Len(bs) <= Size - 1,
         NEW t \in Seq(Byte), r.writep % Size = Len(t) % Size, InBuffer(r.buf, t, Len(t))
  PROVE  /\ Fits(r, Write(r, bs), t, Len(bs))
         /\ InBuffer(Write(r, bs).buf, t \o bs, Len(t) + Len(bs))
<1>1. PICK F : /\ F[0] = r
               /\ \A m \in 0..(Len(bs) - 1) : F[m + 1] = Put(F[m], bs[m + 1])
               /\ F[Len(bs)] = Write(r, bs)
  BY WriteRun
<1>2. PICK n \in Nat, l \in Nat : n = Len(bs) /\ l = Len(t) OBVIOUS
<1>3. Size \in Nat /\ Size >= 2 /\ Size \in Nat \ {0} /\ Wrap \in Nat \ {0} /\ Wrap % Size = 0
  BY RingAssumption
<1>4. PICK a \in 0..(Size - 1) : a = r.avail BY DEF RingType, Index
<1>5. PICK u : u = t \o bs OBVIOUS
<1>6. /\ \A i \in 1..l : u[i] = t[i]
      /\ \A k \in 1..n : u[l + k] = bs[k]
  BY <1>2, <1>5
<1> DEFINE S == {k \in Nat : k <= n => Fits(r, F[k], t, k) /\ InBuffer(F[k].buf, u, l + k)}
<1>7. 0 \in S
  <2>1. l + 0 = l /\ a + 0 = a BY <1>3
  <2>2. InBuffer(r.buf, u, l) BY <1>2, <1>6 DEF InBuffer
  <2> QED BY <1>1, <1>2, <1>4, <2>1, <2>2 DEF Fits
<1>8. ASSUME NEW k \in Nat, k \in S PROVE k + 1 \in S
  <2> SUFFICES ASSUME k + 1 <= n
               PROVE  Fits(r, F[k + 1], t, k + 1) /\ InBuffer(F[k + 1].buf, u, l + (k + 1))
    OBVIOUS
  <2>1. PICK s, b : s = F[k] /\ b = bs[k + 1] OBVIOUS
  <2>2. b \in Byte /\ k \in 0..(n - 1) /\ k + 1 \in 1..n BY <1>2, <2>1
  <2>3. F[k + 1] = Put(s, b) BY <1>1, <1>2, <2>1, <2>2
  <2>4. Fits(r, s, t, k) /\ InBuffer(s.buf, u, l + k) BY <1>8, <2>1
  <2>5. PICK m \in Nat : m = l + k OBVIOUS
  <2>6. PICK wp \in 0..(Wrap - 1), w \in 0..(Size - 1) : wp = s.writep /\ w = wp % Size
    <3>1. s.writep \in 0..(Wrap - 1) BY <2>4 DEF Fits, RingType
    <3>2. s.writep \in Nat BY <1>3, <3>1
    <3>3. s.writep % Size \in 0..(Size - 1) BY <1>3, <3>2
    <3> QED BY <3>1, <3>3
  <2>7. w = m % Size BY <1>2, <2>4, <2>5, <2>6 DEF Fits
  <2>8. PICK v : v = Put(s, b) OBVIOUS
  <2>9. s.avail = a + k /\ s.avail # Size - 1 BY <1>2, <1>3, <1>4, <2>2, <2>4 DEF Fits
  <2>10. /\ v \in RingType /\ v.buf = [s.buf EXCEPT ![w] = b] /\ v.avail = s.avail + 1
         /\ v.writep = (wp + 1) % Wrap /\ v.readp = s.readp
    BY <2>2, <2>4, <2>6, <2>8, <2>9, PutFields, PutType DEF Fits
  <2>11. v.writep % Size = (m + 1) % Size
    <3>1. wp \in Nat /\ wp + 1 \in Nat /\ 1 \in Nat BY <1>3
    <3>2. ((wp + 1) % Wrap) % Size = (wp + 1) % Size BY <1>3, <3>1, ModMod
    <3>3. ((wp % Size) + 1) % Size = (wp + 1) % Size BY <1>3, <3>1, ModAdd
    <3>4. ((m % Size) + 1) % Size = (m + 1) % Size BY <1>3, <3>1, ModAdd
    <3> QED BY <2>6, <2>7, <2>10, <3>2, <3>3, <3>4
  <2>12. Fits(r, v, t, k + 1)
    <3>1. a + k + 1 = a + (k + 1) /\ l + (k + 1) = m + 1 BY <2>5, <1>3
    <3> QED BY <1>2, <1>4, <2>4, <2>9, <2>10, <2>11, <3>1 DEF Fits
  <2>13. s.buf \in [0..(Size - 1) -> Byte \cup {NoByte}] BY <2>4 DEF Fits, RingType, Index
  <2>14. ASSUME NEW j \in 1..(m + 1), j > (m + 1) - Size PROVE v.buf[(j - 1) % Size] = u[j]
    <3>1. CASE j = m + 1
      <4>1. j - 1 = m /\ j = l + (k + 1) BY <2>5, <3>1
      <4>2. u[j] = b BY <1>6, <2>1, <2>2, <4>1
      <4> QED BY <2>7, <2>10, <2>13, <4>1, <4>2
    <3>2. CASE j # m + 1
      <4>1. PICK x \in Nat, d \in 1..(Size - 1) : x = j - 1 /\ d = m - x /\ m = x + d
        <5>1. j - 1 \in Nat /\ m - (j - 1) \in 1..(Size - 1) /\ m = (j - 1) + (m - (j - 1))
          BY <1>3, <2>14, <3>2
        <5> QED BY <5>1
      <4>2. x % Size # w BY <1>3, <2>7, <4>1, ModDistinct
      <4>3. x % Size \in 0..(Size - 1) BY <1>3
      <4>4. v.buf[x % Size] = s.buf[x % Size] BY <2>10, <2>13, <4>2, <4>3
      <4>5. j \in 1..m /\ j > m - Size BY <1>3, <2>14, <3>2
      <4>6. s.buf[(j - 1) % Size] = u[j] BY <2>4, <2>5, <4>5 DEF InBuffer
      <4> QED BY <4>1, <4>4, <4>6
    <3> QED BY <3>1, <3>2
  <2>15. InBuffer(v.buf, u, m + 1) BY <2>14 DEF InBuffer
  <2>16. l + (k + 1) = m + 1 BY <2>5
  <2> QED BY <2>3, <2>8, <2>12, <2>15, <2>16
<1>9. Nat \subseteq S
  <2> HIDE DEF S
  <2> QED BY <1>7, <1>8, PutLoop!SetInduction
<1>10. n \in S /\ n <= n BY <1>9
<1> QED BY <1>1, <1>2, <1>5, <1>10

-----------------------------------------------------------------------------
(* The handler's modifiers: only metastatus and keymap change. *)
LEMMA KeysInv ==
  ASSUME KbdInv, metastatus' \subseteq Meta, keymap' \in {"lower", "upper"}, KeymapAgrees',
         UNCHANGED <<line, keybd_sem, reader, typed, overflowed>>
  PROVE  KbdInv'
<1>1. /\ line' = line /\ keybd_sem' = keybd_sem /\ pc' = pc /\ loaded' = loaded
      /\ count' = count /\ read' = read /\ typed' = typed /\ overflowed' = overflowed
  BY DEF reader
<1>2. KbdTypeOK' BY <1>1 DEF KbdInv, KbdTypeOK
<1>3. SemaphoreFree' /\ ByteToTake' BY <1>1 DEF KbdInv, SemaphoreFree, ByteToTake
<1>4. ReadpBehind' = ReadpBehind /\ AvailBehind' = AvailBehind BY <1>1 DEF ReadpBehind, AvailBehind
<1>5. ~overflowed => InOrder' BY <1>1, <1>4 DEF KbdInv, InOrder
<1> QED BY <1>1, <1>2, <1>3, <1>5 DEF KbdInv

(* A modifier goes down. *)
LEMMA PressMetaInv == ASSUME KbdInv, NEW m \in Meta, PressMeta(m) PROVE KbdInv'
<1>1. metastatus \subseteq Meta /\ keymap \in {"lower", "upper"} /\ KeymapAgrees
  BY DEF KbdInv, KbdTypeOK
<1>2. /\ metastatus' = metastatus \cup {m}
      /\ keymap' = IF Shifted(metastatus') THEN "upper" ELSE keymap
      /\ UNCHANGED <<line, keybd_sem, reader, typed, overflowed>>
  BY DEF PressMeta
<1>3. KeymapAgrees' BY <1>1, <1>2 DEF KeymapAgrees, Shifted
<1>4. metastatus' \subseteq Meta /\ keymap' \in {"lower", "upper"} BY <1>1, <1>2
<1> QED BY <1>2, <1>3, <1>4, KeysInv

(* Modifiers are cleared: by a release, or by what a prefix is taken for. *)
LEMMA ClearBitsInv ==
  ASSUME KbdInv, NEW bits \in SUBSET Meta, ClearBits(bits),
         UNCHANGED <<line, keybd_sem, reader, typed, overflowed>>
  PROVE  KbdInv'
<1>1. metastatus \subseteq Meta /\ keymap \in {"lower", "upper"} /\ KeymapAgrees
  BY DEF KbdInv, KbdTypeOK
<1>2. KeymapAgrees' BY <1>1 DEF KeymapAgrees, Shifted, ClearBits
<1>3. metastatus' \subseteq Meta /\ keymap' \in {"lower", "upper"} BY <1>1 DEF ClearBits
<1> QED BY <1>2, <1>3, KeysInv

(* The bytes of a key *)
LEMMA TypedBytes == ASSUME KbdInv, NEW k \in Key PROVE Typed(k) \in Seq(Byte)
<1>1. Lower[k] \in Seq(Byte) /\ Upper[k] \in Seq(Byte) /\ Escape \in Seq(Byte) /\ <<>> \in Seq(Byte)
  BY KeyboardAssumption
<1>2. PICK x \in Seq(Byte) : x = IF "CTRL" \in metastatus THEN Escape ELSE <<>> BY <1>1
<1>3. PICK y \in Seq(Byte) : y = IF keymap = "lower" THEN Lower[k] ELSE Upper[k] BY <1>1
<1> QED BY <1>2, <1>3 DEF Typed

(* A key is typed, at any step of the reader. *)
LEMMA PressKeyInv == ASSUME KbdInv, NEW k \in Key, PressKey(k) PROVE KbdInv'
<1>1. PICK bs \in Seq(Byte) : bs = Typed(k) BY TypedBytes
<1>2. /\ line' = Write(line, bs) /\ keybd_sem' = 1 /\ typed' = typed \o bs
      /\ metastatus' = metastatus /\ keymap' = keymap
      /\ pc' = pc /\ loaded' = loaded /\ count' = count /\ read' = read
      /\ overflowed' = \/ overflowed
                       \/ line.avail + Len(bs) > Size - 1
                       \/ Len(typed') - Len(read) > Size
  BY <1>1 DEF PressKey, keys, reader
<1>3. KbdTypeOK /\ KeymapAgrees /\ SemaphoreFree /\ ByteToTake BY DEF KbdInv
<1>4. line \in RingType /\ typed \in Seq(Byte) BY <1>3 DEF KbdTypeOK
<1>5. line' \in RingType /\ line'.avail >= line.avail BY <1>2, <1>4, WriteType
<1>6. Size \in Nat /\ Size >= 2 BY RingAssumption
<1>7. line.avail \in Nat /\ line'.avail \in Nat BY <1>4, <1>5, <1>6 DEF RingType, Index
<1>8. KbdTypeOK' BY <1>2, <1>3, <1>4, <1>5 DEF KbdTypeOK
<1>9. KeymapAgrees' BY <1>2, <1>3 DEF KeymapAgrees
<1>10. SemaphoreFree' BY <1>2, <1>3 DEF SemaphoreFree
<1>11. ByteToTake' BY <1>2, <1>3, <1>5, <1>7 DEF ByteToTake
<1>12. ASSUME ~overflowed' PROVE InOrder'
  <2>1. InOrder BY <1>2, <1>12 DEF KbdInv
  <2>2. PICK n \in Nat, l \in Nat, m \in Nat : n = Len(bs) /\ l = Len(typed) /\ m = Len(read)
    BY <1>3 DEF KbdTypeOK
  <2>3. Len(typed') = l + n BY <1>2, <1>4, <2>2
  <2>4. line.avail + n <= Size - 1 /\ (l + n) - m <= Size BY <1>2, <1>6, <1>7, <1>12, <2>2, <2>3
  <2>5. /\ m <= l /\ (\A i \in 1..m : read[i] = typed[i])
        /\ line.writep % Size = l % Size /\ InBuffer(line.buf, typed, l)
        /\ m >= ReadpBehind /\ line.readp = (m - ReadpBehind) % Size
        /\ line.avail <= (l - m) + AvailBehind
        /\ pc \in {"copy", "store_readp"} => loaded = line.readp
        /\ pc = "store_avail" => loaded <= (l - m) + 1
    BY <2>1, <2>2 DEF InOrder
  <2>6. Fits(line, line', typed, n) /\ InBuffer(line'.buf, typed', l + n)
    BY <1>2, <1>4, <2>2, <2>4, <2>5, WriteFits
  <2>7. /\ line'.avail = line.avail + n /\ line'.readp = line.readp
        /\ line'.writep % Size = (l + n) % Size
    BY <2>2, <2>6 DEF Fits
  <2>8. ReadpBehind' = ReadpBehind /\ AvailBehind' = AvailBehind /\ AvailBehind \in {0, 1}
    BY <1>2 DEF ReadpBehind, AvailBehind
  <2>9. \A i \in 1..m : read[i] = typed'[i] BY <1>2, <1>4, <2>2, <2>5
  <2>10. line'.avail <= ((l + n) - m) + AvailBehind BY <1>7, <2>5, <2>7, <2>8
  <2>11. pc = "store_avail" => loaded <= ((l + n) - m) + 1
    <3>1. loaded \in Nat BY <1>3 DEF KbdTypeOK
    <3> QED BY <2>5, <3>1
  <2>12. m <= l + n BY <2>5
  <2> QED BY <1>2, <2>2, <2>3, <2>4, <2>5, <2>6, <2>7, <2>8, <2>9, <2>10, <2>11, <2>12 DEF InOrder
<1> QED BY <1>8, <1>9, <1>10, <1>11, <1>12 DEF KbdInv

(* The steps of the reader that change neither the ring nor what was read  *)
(* and are not inside the loop's body *)
LEMMA OutsideInv ==
  ASSUME KbdInv, line' = line, read' = read, UNCHANGED <<keys, typed, overflowed>>,
         pc \in Label \ {"copy", "load_readp", "store_readp", "load_avail", "store_avail"},
         pc' \in Label \ {"copy", "load_readp", "store_readp", "load_avail", "store_avail"},
         keybd_sem' \in Nat, loaded' \in Nat, count' \in Nat, SemaphoreFree',
         pc' = "load_j" => line.avail >= 1
  PROVE  KbdInv'
<1>1. metastatus' = metastatus /\ keymap' = keymap /\ typed' = typed /\ overflowed' = overflowed
  BY DEF keys
<1>2. KbdTypeOK /\ KeymapAgrees BY DEF KbdInv
<1>3. KbdTypeOK' BY <1>1, <1>2 DEF KbdTypeOK
<1>4. KeymapAgrees' BY <1>1, <1>2 DEF KeymapAgrees
<1>5. ByteToTake' BY DEF ByteToTake
<1>6. ReadpBehind = 0 /\ AvailBehind = 0 /\ ReadpBehind' = 0 /\ AvailBehind' = 0
  BY DEF ReadpBehind, AvailBehind
<1>7. ~overflowed' => InOrder' BY <1>1, <1>6 DEF KbdInv, InOrder
<1> QED BY <1>3, <1>4, <1>5, <1>7 DEF KbdInv

(* What the steps inside the loop of pipeline_read have in common: the     *)
(* semaphore and what the handler writes stay.                             *)
LEMMA LoopInv ==
  ASSUME KbdInv, keybd_sem' = keybd_sem, UNCHANGED <<keys, typed, overflowed>>,
         pc' \in {"test", "copy", "load_readp", "store_readp", "load_avail", "store_avail"},
         line' \in RingType, loaded' \in Nat, count' \in Nat, read' \in Seq(Byte \cup {NoByte}),
         ByteToTake', ~overflowed => InOrder'
  PROVE  KbdInv'
<1>1. metastatus' = metastatus /\ keymap' = keymap /\ typed' = typed /\ overflowed' = overflowed
  BY DEF keys
<1>2. KbdTypeOK /\ KeymapAgrees BY DEF KbdInv
<1>3. KbdTypeOK' BY <1>1, <1>2 DEF KbdTypeOK, Label
<1>4. KeymapAgrees' BY <1>1, <1>2 DEF KeymapAgrees
<1>5. SemaphoreFree' BY DEF SemaphoreFree
<1> QED BY <1>1, <1>3, <1>4, <1>5 DEF KbdInv

(* The ring's fields are numbers. *)
LEMMA LineFields ==
  ASSUME KbdInv
  PROVE  /\ Size \in Nat \ {0} /\ Size >= 2 /\ Size <= Wrap /\ Wrap \in Nat \ {0}
         /\ line \in RingType /\ line.avail \in 0..(Size - 1) /\ line.readp \in 0..(Size - 1)
         /\ line.buf \in [0..(Size - 1) -> Byte \cup {NoByte}]
         /\ Len(read) \in Nat /\ Len(typed) \in Nat /\ loaded \in Nat /\ count \in Nat
         /\ keybd_sem \in Nat /\ read \in Seq(Byte \cup {NoByte}) /\ typed \in Seq(Byte)
<1>1. KbdTypeOK BY DEF KbdInv
<1>2. Size \in Nat \ {0} /\ Size >= 2 /\ Wrap \in Nat \ {0} /\ Wrap % Size = 0 BY RingAssumption
<1>3. Size <= Wrap
  <2>1. Wrap < Size => Wrap % Size = Wrap BY <1>2
  <2> QED BY <1>2, <2>1
<1>4. /\ line.avail \in 0..(Size - 1) /\ line.readp \in 0..(Size - 1) /\ line \in RingType
      /\ line.buf \in [0..(Size - 1) -> Byte \cup {NoByte}]
  BY <1>1 DEF KbdTypeOK, RingType, Index
<1>5. Len(read) \in Nat /\ Len(typed) \in Nat BY <1>1 DEF KbdTypeOK
<1> QED BY <1>1, <1>2, <1>3, <1>4, <1>5 DEF KbdTypeOK

(* The byte that is copied is the next one that was typed. *)
LEMMA CopyInv ==
  ASSUME KbdInv, pc = "copy", pc' = "load_readp", read' = Append(read, line.buf[loaded]),
         UNCHANGED <<line, loaded, count, keybd_sem>>, UNCHANGED <<keys, typed, overflowed>>
  PROVE  KbdInv'
<1>1. PICK m \in Nat, l \in Nat : m = Len(read) /\ l = Len(typed) BY LineFields
<1>2. ByteToTake BY DEF KbdInv
<1>3. loaded \in 0..(Size - 1) /\ line.avail >= 1 BY <1>2 DEF ByteToTake, Index
<1>4. line.buf[loaded] \in Byte \cup {NoByte} BY <1>3, LineFields
<1>5. /\ read' \in Seq(Byte \cup {NoByte}) /\ Len(read') = m + 1 /\ read'[m + 1] = line.buf[loaded]
      /\ \A i \in 1..m : read'[i] = read[i]
  BY <1>1, <1>4, LineFields
<1>6. ByteToTake' BY <1>3 DEF ByteToTake
<1>7. ASSUME ~overflowed PROVE InOrder'
  <2>1. InOrder /\ ReadpBehind = 0 /\ AvailBehind = 0 /\ ReadpBehind' = 1 /\ AvailBehind' = 1
    BY <1>7 DEF KbdInv, ReadpBehind, AvailBehind
  <2>2. /\ m <= l /\ l - m <= Size /\ (\A i \in 1..m : read[i] = typed[i])
        /\ line.writep % Size = l % Size /\ InBuffer(line.buf, typed, l)
        /\ line.readp = (m - 0) % Size /\ line.avail <= (l - m) + 0 /\ loaded = line.readp
    BY <1>1, <2>1 DEF InOrder
  <2>3. m + 1 \in 1..l /\ m + 1 > l - Size /\ m - 0 = m /\ (m + 1) - 1 = m
    BY <1>3, <2>2, LineFields
  <2>4. line.buf[m % Size] = typed[m + 1]
    <3>1. line.buf[((m + 1) - 1) % Size] = typed[m + 1] BY <2>2, <2>3 DEF InBuffer
    <3> QED BY <2>3, <3>1
  <2>5. \A i \in 1..(m + 1) : read'[i] = typed[i] BY <1>5, <2>2, <2>3, <2>4
  <2>6. /\ m + 1 <= l /\ l - (m + 1) <= Size /\ line.avail <= (l - (m + 1)) + 1 /\ m + 1 >= 1
    BY <2>2, <2>3, LineFields
  <2>7. typed' = typed BY DEF keys
  <2> QED BY <1>1, <1>5, <2>1, <2>2, <2>3, <2>5, <2>6, <2>7 DEF InOrder
<1> QED BY <1>5, <1>6, <1>7, LoopInv, LineFields

(* readp is advanced to the byte after it. *)
LEMMA AdvanceInv ==
  ASSUME KbdInv, pc = "store_readp", pc' = "load_avail",
         line' = [line EXCEPT !.readp = (loaded + 1) % Size],
         UNCHANGED <<loaded, count, read, keybd_sem>>, UNCHANGED <<keys, typed, overflowed>>
  PROVE  KbdInv'
<1>1. PICK m \in Nat, l \in Nat : m = Len(read) /\ l = Len(typed) BY LineFields
<1>2. ByteToTake BY DEF KbdInv
<1>3. line.avail >= 1 BY <1>2 DEF ByteToTake
<1>4. PICK p : p = (loaded + 1) % Size OBVIOUS
<1>5. p \in 0..(Size - 1)
  <2>1. loaded + 1 \in Nat BY LineFields
  <2> QED BY <1>4, <2>1, LineFields
<1>6. /\ line' \in RingType /\ line'.readp = p /\ line'.avail = line.avail
      /\ line'.writep = line.writep /\ line'.buf = line.buf
  BY <1>4, <1>5, LineFields DEF RingType, Index
<1>7. ByteToTake' BY <1>3, <1>6 DEF ByteToTake
<1>8. ASSUME ~overflowed PROVE InOrder'
  <2>1. InOrder /\ ReadpBehind = 1 /\ AvailBehind = 1 /\ ReadpBehind' = 0 /\ AvailBehind' = 1
    BY <1>8 DEF KbdInv, ReadpBehind, AvailBehind
  <2>2. m >= 1 /\ loaded = (m - 1) % Size BY <1>1, <2>1 DEF InOrder
  <2>3. p = m % Size
    <3>1. m - 1 \in Nat /\ 1 \in Nat /\ (m - 1) + 1 = m BY <2>2
    <3>2. (((m - 1) % Size) + 1) % Size = ((m - 1) + 1) % Size BY <3>1, LineFields, ModAdd
    <3> QED BY <1>4, <2>2, <3>1, <3>2
  <2>4. m - 0 = m /\ m >= 0 OBVIOUS
  <2>5. typed' = typed /\ read' = read BY DEF keys
  <2> QED BY <1>1, <1>6, <2>1, <2>3, <2>4, <2>5 DEF InOrder
<1> QED BY <1>6, <1>7, <1>8, LoopInv, LineFields

(* avail is stored: an interrupt since it was loaded is forgotten. *)
LEMMA StoreAvailInv ==
  ASSUME KbdInv, pc = "store_avail", pc' = "test",
         line' = [line EXCEPT !.avail = (loaded - 1) % Wrap], count' = count + 1,
         UNCHANGED <<loaded, read, keybd_sem>>, UNCHANGED <<keys, typed, overflowed>>
  PROVE  KbdInv'
<1>1. PICK m \in Nat, l \in Nat : m = Len(read) /\ l = Len(typed) BY LineFields
<1>2. ByteToTake BY DEF KbdInv
<1>3. loaded \in 1..(Size - 1) BY <1>2 DEF ByteToTake
<1>4. (loaded - 1) % Wrap = loaded - 1
  <2>1. Size \in Nat /\ Wrap \in Nat \ {0} /\ Size <= Wrap BY LineFields
  <2>2. PICK x : x = loaded - 1 OBVIOUS
  <2>3. x \in 0..(Wrap - 1) BY <1>3, <2>1, <2>2
  <2>4. x % Wrap = x BY <2>1, <2>3
  <2> QED BY <2>2, <2>4
<1>5. loaded - 1 \in 0..(Size - 1) BY <1>3, LineFields
<1>6. /\ line' \in RingType /\ line'.avail = loaded - 1 /\ line'.readp = line.readp
      /\ line'.writep = line.writep /\ line'.buf = line.buf
  BY <1>4, <1>5, LineFields DEF RingType, Index
<1>7. ByteToTake' BY DEF ByteToTake
<1>8. ASSUME ~overflowed PROVE InOrder'
  <2>1. InOrder /\ ReadpBehind = 0 /\ AvailBehind = 1 /\ ReadpBehind' = 0 /\ AvailBehind' = 0
    BY <1>8 DEF KbdInv, ReadpBehind, AvailBehind
  <2>2. loaded <= (l - m) + 1 BY <1>1, <2>1 DEF InOrder
  <2>3. loaded - 1 <= (l - m) + 0 BY <1>3, <2>2, LineFields
  <2>4. typed' = typed /\ read' = read BY DEF keys
  <2> QED BY <1>1, <1>6, <2>1, <2>3, <2>4 DEF InOrder
<1>9. count + 1 \in Nat BY LineFields
<1> QED BY <1>6, <1>7, <1>8, <1>9, LoopInv, LineFields

(* The loads: of readp, twice, and of avail *)
LEMMA LoadInv ==
  ASSUME KbdInv, UNCHANGED <<line, count, read, keybd_sem>>, UNCHANGED <<keys, typed, overflowed>>,
         \/ pc = "load_j" /\ pc' = "copy" /\ loaded' = line.readp
         \/ pc = "load_readp" /\ pc' = "store_readp" /\ loaded' = line.readp
         \/ pc = "load_avail" /\ pc' = "store_avail" /\ loaded' = line.avail
  PROVE  KbdInv'
<1>1. PICK m \in Nat, l \in Nat : m = Len(read) /\ l = Len(typed) BY LineFields
<1>2. ByteToTake BY DEF KbdInv
<1>3. line.avail >= 1 BY <1>2 DEF ByteToTake
<1>4. loaded' \in Nat BY LineFields
<1>5. ByteToTake' BY <1>3, LineFields DEF ByteToTake, Index
<1>6. ReadpBehind' = ReadpBehind /\ AvailBehind' = AvailBehind BY DEF ReadpBehind, AvailBehind
<1>7. ASSUME ~overflowed PROVE InOrder'
  <2>1. InOrder BY <1>7 DEF KbdInv
  <2>2. pc' = "store_avail" => loaded' <= (l - m) + 1
    <3>1. pc = "load_avail" => AvailBehind = 1 BY DEF AvailBehind
    <3>2. line.avail <= (l - m) + AvailBehind BY <1>1, <2>1 DEF InOrder
    <3> QED BY <3>1, <3>2
  <2>3. typed' = typed /\ read' = read /\ line' = line BY DEF keys
  <2>4. pc' \in {"copy", "store_readp"} => loaded' = line.readp OBVIOUS
  <2> QED BY <1>1, <1>6, <2>1, <2>2, <2>3, <2>4 DEF InOrder
<1> QED BY <1>4, <1>5, <1>7, LoopInv, LineFields

(* A step of the reader *)
LEMMA ReaderInv == ASSUME KbdInv, Reader PROVE KbdInv'
<1>1. UNCHANGED <<keys, typed, overflowed>> BY DEF Reader
<1>2. SemaphoreFree BY DEF KbdInv
<1>3. CASE CallRead
  <2>1. /\ pc = "user" /\ pc' = "enter" /\ count' = 0 /\ line' = line /\ keybd_sem' = keybd_sem
        /\ loaded' = loaded /\ read' = read
    BY <1>3 DEF CallRead, Goto
  <2>2. SemaphoreFree' BY <1>2, <2>1 DEF SemaphoreFree
  <2> QED BY <1>1, <2>1, <2>2, OutsideInv, LineFields DEF Label
<1>4. CASE EnterSemaphore
  <2>1. line' = line /\ count' = count /\ read' = read BY <1>4 DEF EnterSemaphore
  <2>2. CASE pc = "enter"
    <3>1. pc' = "load_sem" /\ keybd_sem > 0 /\ keybd_sem' = keybd_sem /\ loaded' = loaded
      BY <1>4, <2>2 DEF EnterSemaphore, Goto
    <3>2. SemaphoreFree' BY <3>1 DEF SemaphoreFree
    <3> QED BY <1>1, <2>1, <2>2, <3>1, <3>2, OutsideInv, LineFields DEF Label
  <2>3. CASE pc = "load_sem"
    <3>1. pc' = "store_sem" /\ loaded' = keybd_sem /\ keybd_sem' = keybd_sem
      BY <1>4, <2>3 DEF EnterSemaphore, Goto
    <3>2. SemaphoreFree' BY <1>2, <2>3, <3>1 DEF SemaphoreFree
    <3> QED BY <1>1, <2>1, <2>3, <3>1, <3>2, OutsideInv, LineFields DEF Label
  <2>4. CASE pc = "store_sem"
    <3>1. pc' = "test" /\ loaded' = loaded /\ keybd_sem' = loaded - 1
      BY <1>4, <2>4 DEF EnterSemaphore, Goto
    <3>2. SemaphoreFree' BY <3>1 DEF SemaphoreFree
    <3>3. loaded - 1 \in Nat BY <1>2, <2>4, LineFields DEF SemaphoreFree
    <3> QED BY <1>1, <2>1, <2>4, <3>1, <3>2, <3>3, OutsideInv, LineFields DEF Label
  <2> QED BY <1>4, <2>2, <2>3, <2>4 DEF EnterSemaphore, Goto
<1>5. CASE PipelineRead
  <2>1. keybd_sem' = keybd_sem BY <1>5 DEF PipelineRead
  <2>2. CASE pc = "test"
    <3>1. /\ pc' = IF MoreToRead THEN "load_j" ELSE "leave"
          /\ line' = line /\ loaded' = loaded /\ count' = count /\ read' = read
      BY <1>5, <2>2 DEF PipelineRead, Goto
    <3>2. MoreToRead => line.avail >= 1 BY LineFields DEF MoreToRead
    <3>3. SemaphoreFree' BY <3>1 DEF SemaphoreFree
    <3> QED BY <1>1, <2>1, <2>2, <3>1, <3>2, <3>3, OutsideInv, LineFields DEF Label
  <2>3. CASE pc \in {"load_j", "load_readp", "load_avail"}
    BY <1>1, <1>5, <2>1, <2>3, LoadInv DEF PipelineRead, Goto
  <2>4. CASE pc = "copy" BY <1>1, <1>5, <2>1, <2>4, CopyInv DEF PipelineRead, Goto
  <2>5. CASE pc = "store_readp" BY <1>1, <1>5, <2>1, <2>5, AdvanceInv DEF PipelineRead, Goto
  <2>6. CASE pc = "store_avail" BY <1>1, <1>5, <2>1, <2>6, StoreAvailInv DEF PipelineRead, Goto
  <2> QED BY <1>5, <2>2, <2>3, <2>4, <2>5, <2>6 DEF PipelineRead, Goto
<1>6. CASE LeaveSemaphore
  <2>1. line' = line /\ count' = count /\ read' = read BY <1>6 DEF LeaveSemaphore
  <2>2. CASE pc = "leave"
    <3>1. pc' = "load_back" /\ loaded' = keybd_sem /\ keybd_sem' = keybd_sem
      BY <1>6, <2>2 DEF LeaveSemaphore, Goto
    <3>2. SemaphoreFree' BY <3>1 DEF SemaphoreFree
    <3> QED BY <1>1, <2>1, <2>2, <3>1, <3>2, OutsideInv, LineFields DEF Label
  <2>3. CASE pc = "load_back"
    <3>1. pc' = "result" /\ loaded' = loaded /\ keybd_sem' = loaded + 1
      BY <1>6, <2>3 DEF LeaveSemaphore, Goto
    <3>2. loaded + 1 \in Nat /\ loaded + 1 > 0 BY LineFields
    <3>3. SemaphoreFree' BY <3>1, <3>2 DEF SemaphoreFree
    <3> QED BY <1>1, <2>1, <2>3, <3>1, <3>2, <3>3, OutsideInv, LineFields DEF Label
  <2> QED BY <1>6, <2>2, <2>3 DEF LeaveSemaphore, Goto
<1>7. CASE ReadResult
  <2>1. /\ pc = "result" /\ pc' = (IF count = 0 THEN "enter" ELSE "user") /\ line' = line
        /\ keybd_sem' = keybd_sem /\ loaded' = loaded /\ count' = count /\ read' = read
    BY <1>7 DEF ReadResult, Goto
  <2>2. SemaphoreFree' BY <1>2, <2>1 DEF SemaphoreFree
  <2> QED BY <1>1, <2>1, <2>2, OutsideInv, LineFields DEF Label
<1> QED BY <1>3, <1>4, <1>5, <1>6, <1>7 DEF Reader

-----------------------------------------------------------------------------
(* The invariant holds at the start. *)
LEMMA KbdInitInv == KbdInit => KbdInv
<1> SUFFICES ASSUME KbdInit PROVE KbdInv OBVIOUS
<1>1. /\ line = NewRing /\ keybd_sem = 1 /\ metastatus = {} /\ keymap = "lower" /\ pc = "user"
      /\ loaded = 0 /\ count = 0 /\ typed = <<>> /\ read = <<>> /\ overflowed = FALSE
  BY DEF KbdInit
<1>2. line \in RingType BY <1>1, NewRingInv DEF RingInv
<1>3. KbdTypeOK BY <1>1, <1>2 DEF KbdTypeOK, Label
<1>4. KeymapAgrees BY <1>1 DEF KeymapAgrees, Shifted
<1>5. SemaphoreFree /\ ByteToTake BY <1>1 DEF SemaphoreFree, ByteToTake
<1>6. InOrder
  <2>1. line.avail = 0 /\ line.writep = 0 /\ line.readp = 0 BY <1>1 DEF NewRing
  <2>2. Size \in Nat /\ Size >= 2 /\ Len(typed) = 0 /\ Len(read) = 0 BY <1>1, RingAssumption
  <2>3. ReadpBehind = 0 /\ AvailBehind = 0 BY <1>1 DEF ReadpBehind, AvailBehind
  <2>4. 0 % Size = 0 BY <2>2
  <2>5. InBuffer(line.buf, typed, 0) BY DEF InBuffer
  <2> QED BY <1>1, <2>1, <2>2, <2>3, <2>4, <2>5 DEF InOrder
<1> QED BY <1>3, <1>4, <1>5, <1>6 DEF KbdInv

(* Every step keeps it. *)
LEMMA KbdNextInv == KbdInv /\ [KbdNext]_kbdVars => KbdInv'
<1> SUFFICES ASSUME KbdInv, [KbdNext]_kbdVars PROVE KbdInv' OBVIOUS
<1>1. CASE Reader BY <1>1, ReaderInv
<1>2. ASSUME NEW m \in Meta, PressMeta(m) PROVE KbdInv' BY <1>2, PressMetaInv
<1>3. ASSUME NEW m \in Meta, ReleaseMeta(m) PROVE KbdInv'
  BY <1>3, ClearBitsInv DEF ReleaseMeta
<1>4. CASE ExtendedPrefix BY <1>4, ClearBitsInv DEF ExtendedPrefix
<1>5. ASSUME NEW k \in Key, PressKey(k) PROVE KbdInv' BY <1>5, PressKeyInv
<1>6. CASE UNCHANGED kbdVars
  <2>1. UNCHANGED <<line, keybd_sem, reader, typed, overflowed>> /\ metastatus' = metastatus
        /\ keymap' = keymap
    BY <1>6 DEF kbdVars, reader
  <2>2. metastatus \subseteq Meta /\ keymap \in {"lower", "upper"} /\ KeymapAgrees
    BY DEF KbdInv, KbdTypeOK
  <2>3. KeymapAgrees' BY <2>1, <2>2 DEF KeymapAgrees
  <2> QED BY <2>1, <2>2, <2>3, KeysInv
<1> QED BY <1>1, <1>2, <1>3, <1>4, <1>5, <1>6 DEF KbdNext

(* The inductive invariant of the keyboard holds in every reachable state. *)
THEOREM KbdInvariant == KbdSpec => []KbdInv
<1> QED BY KbdInitInv, KbdNextInv, PTL DEF KbdSpec

(* Whichever modifiers go down and up, the upper case map is in use        *)
(* exactly while shift or caps lock is set.                                *)
THEOREM KeymapAlwaysAgrees == KbdSpec => []KeymapAgrees
<1>1. KbdInv => KeymapAgrees BY DEF KbdInv
<1> QED BY <1>1, KbdInvariant, PTL

(* Wherever the interrupt comes in a read: until the ring runs over, the   *)
(* reader is given what was typed, in order; avail and readp stay in their *)
(* range for ever, and the reader never finds the semaphore taken.         *)
THEOREM AlwaysTypedInOrder == KbdSpec => []TypedInOrder
<1>1. KbdInv => TypedInOrder
  <2> SUFFICES ASSUME KbdInv PROVE TypedInOrder OBVIOUS
  <2>1. line.avail \in Index /\ line.readp \in Index BY LineFields DEF Index
  <2>2. pc = "enter" => keybd_sem > 0 BY DEF KbdInv, SemaphoreFree
  <2>3. ASSUME ~overflowed PROVE IsPrefix(read, typed)
    <3>1. PICK m \in Nat, l \in Nat : m = Len(read) /\ l = Len(typed) BY LineFields
    <3>2. m <= l /\ \A i \in 1..m : read[i] = typed[i] BY <2>3, <3>1 DEF KbdInv, InOrder
    <3>3. SubSeq(read, 1, m) = [i \in 1..m |-> read[i]] BY <3>1, LineFields
    <3>4. SubSeq(typed, 1, m) = [i \in 1..m |-> typed[i]] BY <3>1, <3>2, LineFields
    <3>5. SubSeq(read, 1, m) = SubSeq(typed, 1, m) BY <3>2, <3>3, <3>4
    <3> QED BY <3>1, <3>2, <3>5 DEF IsPrefix
  <2> QED BY <2>1, <2>2, <2>3 DEF TypedInOrder
<1> QED BY <1>1, KbdInvariant, PTL
=============================================================================
