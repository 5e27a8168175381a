---------------------------- MODULE FoldTheorems ----------------------------
(***************************************************************************)
(* What a loop over a sequence computes.  The modules write such loops     *)
(* with FoldLeft of the community modules: one application of op is one    *)
(* pass of the loop, and c and d are what its body reads and never         *)
(* changes.  A proof takes the theorems for its own loop by                *)
(* INSTANCE FoldTheorems WITH op <- ...                                    *)
(***************************************************************************)
EXTENDS Integers, Sequences, SequencesExt, WellFoundedInduction, TLAPS

CONSTANT op(_, _, _, _)

Loop(c, d, base, s) == FoldLeft(LAMBDA x, y : op(c, d, x, y), base, s)

(* F[m] is what the loop has computed after m of its passes. *)
Runs(F, c, d, base, s) ==
  /\ F[0] = base
  /\ \A m \in 0..(Len(s) - 1) : F[m + 1] = op(c, d, F[m], s[m + 1])
  /\ F[Len(s)] = Loop(c, d, base, s)

(* Induction over the natural numbers, for a set instead of a formula. *)
LEMMA SetInduction ==
  ASSUME NEW S, 0 \in S, \A n \in Nat : n \in S => n + 1 \in S
  PROVE  Nat \subseteq S
<1> DEFINE T == Nat \ S
           R == {ss \in Nat \X Nat : ss[1] < ss[2]}
<1>1. SUFFICES ASSUME T # {} PROVE FALSE OBVIOUS
<1>2. IsWellFoundedOn(R, Nat) BY NatLessThanWellFounded DEF OpToRel
<1>3. T \subseteq Nat OBVIOUS
<1>4. PICK x \in T : \A y \in T : ~ (<<y, x>> \in R)
  <2> HIDE DEF R, T
  <2> QED BY <1>1, <1>2, <1>3, WFMin
<1>5. x # 0 /\ x \in Nat OBVIOUS
<1>6. x - 1 \in Nat /\ x - 1 < x BY <1>5
<1>7. x - 1 \in S BY <1>4, <1>5, <1>6
<1> QED BY <1>7, <1>5, <1>6

(* FoldLeft's recursive function exists: it is built for the subsets of    *)
(* 1..k from the one for the subsets of 1..(k - 1).                        *)
Body(c, d, base, s, g, i) ==
  IF i = {} THEN base
  ELSE op(c, d, g[i \ {Max(i)}], s[Max(i)])

Defines(g, c, d, base, s, k) ==
  g = [i \in SUBSET (1..k) |-> Body(c, d, base, s, g, i)]

(* By induction on the length, a function that defines itself so exists. *)
LEMMA FoldFunctionExists ==
  ASSUME NEW c, NEW d, NEW base, NEW s, NEW n \in Nat
  PROVE  \E g : Defines(g, c, d, base, s, n)
<1> DEFINE S == {k \in Nat : \E g : Defines(g, c, d, base, s, k)}
<1>1. 0 \in S
  <2> DEFINE g == [i \in SUBSET (1..0) |-> base]
  <2>1. \A i \in SUBSET (1..0) : i = {} OBVIOUS
  <2>2. Defines(g, c, d, base, s, 0) BY <2>1 DEF Defines, Body
  <2> QED BY <2>2
<1>2. ASSUME NEW k \in Nat, k \in S PROVE k + 1 \in S
  <2>1. PICK g : Defines(g, c, d, base, s, k) BY <1>2
  <2> DEFINE D == SUBSET (1..k)
             E == SUBSET (1..(k + 1))
             h == [i \in E |-> IF k + 1 \in i THEN op(c, d, g[i \ {k + 1}], s[k + 1])
                               ELSE g[i]]
  <2>2. ASSUME NEW i \in E PROVE h[i] = Body(c, d, base, s, h, i)
    <3>1. CASE k + 1 \in i
      <4>1. Max(i) = k + 1
        <5>1. \A y \in i : k + 1 >= y OBVIOUS
        <5>2. \A x \in i : (\A y \in i : x >= y) => x = k + 1 BY <3>1, <5>1
        <5> QED BY <3>1, <5>1, <5>2 DEF Max
      <4>2. i \ {k + 1} \in E /\ k + 1 \notin i \ {k + 1} OBVIOUS
      <4>3. h[i \ {k + 1}] = g[i \ {k + 1}] BY <4>2
      <4>4. h[i] = op(c, d, g[i \ {k + 1}], s[k + 1]) BY <3>1
      <4> QED BY <3>1, <4>1, <4>3, <4>4, Zenon DEF Body
    <3>2. CASE k + 1 \notin i
      <4>1. i \in D BY <3>2
      <4>2. h[i] = g[i] BY <3>2
      <4>3. g[i] = Body(c, d, base, s, g, i) BY <2>1, <4>1, Zenon DEF Defines
      <4>4. CASE i = {} BY <4>2, <4>3, <4>4, Zenon DEF Body
      <4>5. CASE i # {}
        <5>1. PICK j : j = i \ {Max(i)} OBVIOUS
        <5>2. j \in E /\ k + 1 \notin j BY <3>2, <5>1
        <5>3. h[j] = g[j] BY <5>2
        <5> HIDE DEF h
        <5> QED BY <4>2, <4>3, <5>1, <5>3, Zenon DEF Body
      <4> QED BY <4>4, <4>5
    <3> QED BY <3>1, <3>2
  <2>3. Defines(h, c, d, base, s, k + 1)
    <3>1. h = [i \in E |-> h[i]] OBVIOUS
    <3> HIDE DEF h
    <3> QED BY <2>2, <3>1, Zenon DEF Defines
  <2> HIDE DEF h
  <2> QED BY <2>3
<1>3. Nat \subseteq S
  <2> HIDE DEF S
  <2> QED BY <1>1, <1>2, SetInduction
<1> QED BY <1>3

(* The passes of the loop, one after the other. *)
THEOREM FoldRun ==
  ASSUME NEW c, NEW d, NEW base, NEW Elt, NEW s \in Seq(Elt)
  PROVE  \E F : Runs(F, c, d, base, s)
<1> DEFINE n == Len(s)
           iter == CHOOSE g : g = [i \in SUBSET (1..n) |->
                                     IF i = {} THEN base
                                     ELSE op(c, d, g[i \ {Max(i)}], s[Max(i)])]
<1>1. n \in Nat /\ DOMAIN s = 1..n OBVIOUS
<1>2. Loop(c, d, base, s) = iter[1..n]
  BY <1>1, Zenon DEF Loop, FoldLeft, MapThenFoldSet
<1>3. Defines(iter, c, d, base, s, n)
  <2>1. \E g : Defines(g, c, d, base, s, n) BY <1>1, FoldFunctionExists
  <2> QED BY <2>1, Zenon DEF Defines, Body
<1> HIDE DEF iter
<1> DEFINE F == [m \in 0..n |-> iter[1..m]]
<1>4. F[0] = base
  <2>1. 1..0 = {} OBVIOUS
  <2>2. iter[{}] = base BY <1>3, Zenon DEF Defines, Body
  <2> QED BY <2>1, <2>2, <1>1
<1>5. ASSUME NEW m \in 0..(n - 1) PROVE F[m + 1] = op(c, d, F[m], s[m + 1])
  <2>1. 1..(m + 1) \in SUBSET (1..n) /\ 1..(m + 1) # {}
    <3>1. m \in Nat /\ m + 1 <= n BY <1>1
    <3>2. m + 1 \in 1..(m + 1) BY <3>1
    <3>3. \A i \in 1..(m + 1) : i \in 1..n BY <1>1, <3>1
    <3> QED BY <3>2, <3>3
  <2>2. Max(1..(m + 1)) = m + 1
    <3>1. m + 1 \in 1..(m + 1) /\ \A y \in 1..(m + 1) : m + 1 >= y BY <1>1
    <3>2. \A x \in 1..(m + 1) : (\A y \in 1..(m + 1) : x >= y) => x = m + 1 BY <1>1, <3>1
    <3> QED BY <3>1, <3>2 DEF Max
  <2>3. (1..(m + 1)) \ {m + 1} = 1..m BY <1>1
  <2>4. iter[1..(m + 1)] = Body(c, d, base, s, iter, 1..(m + 1))
    BY <1>3, <2>1, Zenon DEF Defines
  <2>5. iter[1..(m + 1)] = op(c, d, iter[1..m], s[m + 1])
    BY <2>1, <2>2, <2>3, <2>4, Zenon DEF Body
  <2> QED BY <1>1, <2>5
<1>6. F[n] = Loop(c, d, base, s) BY <1>1, <1>2
<1> HIDE DEF F
<1> QED BY <1>4, <1>5, <1>6 DEF Runs

(* What the body of a loop preserves, the loop preserves. *)
THEOREM FoldInvariant ==
  ASSUME NEW c, NEW d, NEW base, NEW Elt, NEW s \in Seq(Elt), NEW Inv,
         base \in Inv,
         \A x \in Inv, m \in 1..Len(s) : op(c, d, x, s[m]) \in Inv
  PROVE  Loop(c, d, base, s) \in Inv
<1>1. PICK F : Runs(F, c, d, base, s) BY FoldRun
<1> DEFINE S == {k \in Nat : k <= Len(s) => F[k] \in Inv}
<1>2. 0 \in S BY <1>1 DEF Runs
<1>3. ASSUME NEW k \in Nat, k \in S PROVE k + 1 \in S
  <2>1. SUFFICES ASSUME k + 1 <= Len(s) PROVE F[k + 1] \in Inv OBVIOUS
  <2>2. k \in 0..(Len(s) - 1) /\ k + 1 \in 1..Len(s) BY <2>1
  <2>3. F[k] \in Inv BY <1>3, <2>2
  <2>4. F[k + 1] = op(c, d, F[k], s[k + 1]) BY <1>1, <2>2 DEF Runs
  <2> QED BY <2>2, <2>3, <2>4
<1>4. Nat \subseteq S
  <2> HIDE DEF S
  <2> QED BY <1>2, <1>3, SetInduction
<1>5. Len(s) \in Nat OBVIOUS
<1>6. F[Len(s)] \in Inv BY <1>4, <1>5
<1> QED BY <1>1, <1>6 DEF Runs
=============================================================================
