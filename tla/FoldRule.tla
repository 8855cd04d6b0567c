------------------------------ MODULE FoldRule ------------------------------
(***************************************************************************)
(* Induction over a fold.  FoldLeft over a sequence q, from s, unfolds to  *)
(* Iter(c, s, q)[DOMAIN q] when its step is Op(c, -, -); what holds of s   *)
(* and is kept by each step holds in the end.  P and Op are parameters of  *)
(* the module, so that each loop instantiates it with its own.             *)
(***************************************************************************)
EXTENDS Integers, TLAPS, WellFoundedInduction

CONSTANTS Op(_, _, _),   \* the step: context, what is folded so far, element
          P(_, _, _)     \* what holds: context, elements taken, what is folded so far

Last(S) == CHOOSE x \in S : \A y \in S : x >= y
Iter(c, s, q) ==
   CHOOSE iter : iter = [S \in SUBSET DOMAIN q |->
        IF S = {} THEN s ELSE Op(c, iter[S \ {Last(S)}], q[Last(S)])]

\* The last index of a set of indices up to m that has m.
LEMMA LastIs ==
    ASSUME NEW m \in Nat, NEW S \in SUBSET (1 .. m), m \in S
    PROVE  Last(S) = m
<1> DEFINE Q(x) == \A y \in S : x >= y
<1>1. Q(m) OBVIOUS
<1>2. \A x \in S : Q(x) => x = m
  <2> SUFFICES ASSUME NEW x \in S, Q(x) PROVE x = m OBVIOUS
  <2>1. x >= m /\ x \in 1 .. m OBVIOUS
  <2> QED BY <2>1
<1> HIDE DEF Q
<1>3. Last(S) = CHOOSE x \in S : Q(x) BY DEF Last, Q
<1> QED BY <1>1, <1>2, <1>3

\* A set of naturals that is not empty has a least element.
LEMMA LeastNat ==
    ASSUME NEW T, T \subseteq Nat, T # {}
    PROVE  \E x \in T : \A y \in T : x <= y
<1> DEFINE R == OpToRel(<, Nat)
<1>1. IsWellFoundedOn(R, Nat)
  BY NatLessThanWellFounded
<1>2. \A x, y \in Nat : x < y => <<x, y>> \in R
  BY DEF OpToRel
<1> HIDE DEF R
<1>3. PICK x \in T : \A y \in T : ~(<<y, x>> \in R)
  BY <1>1, WFMin
<1>4. ASSUME NEW y \in T PROVE x <= y
  <2>1. x \in Nat /\ y \in Nat
    OBVIOUS
  <2>2. ~(y < x)
    BY <2>1, <1>2, <1>3
  <2> QED
    BY <2>1, <2>2
<1> QED
  BY <1>4

\* The fold exists, and each index adds one step to it.
LEMMA IterAt ==
   ASSUME NEW c, NEW s, NEW q, NEW n \in Nat, DOMAIN q = 1 .. n 
   PROVE  /\ Iter(c, s, q)[{}] = s
          /\ \A i \in 1 .. n : Iter(c, s, q)[1 .. i] = Op(c, Iter(c, s, q)[1 .. i - 1], q[i])
<1> DEFINE Body(m, h) == [S \in SUBSET (1 .. m) |->
                              IF S = {} THEN s ELSE Op(c, h[S \ {Last(S)}], q[Last(S)])]
           Bad == {m \in 0 .. n : ~ \E h : h = Body(m, h)}
<1>1. Bad = {}
  <2> SUFFICES ASSUME Bad /= {} PROVE FALSE OBVIOUS
  <2>1. PICK m \in Bad : \A y \in Bad : m <= y
    <3> HIDE DEF Body
    <3>1. Bad \subseteq Nat OBVIOUS
    <3> QED BY <3>1, LeastNat
  <2>2. m \in 0 .. n /\ ~ \E h : h = Body(m, h) OBVIOUS
  <2>3. CASE m = 0
    <3> DEFINE h == [S \in SUBSET (1 .. 0) |-> s]
    <3>1. SUBSET (1 .. 0) = {{}} OBVIOUS
    <3>2. h = Body(0, h) BY <3>1
    <3> QED BY <3>2, <2>2, <2>3
  <2>4. CASE m /= 0
    <3>1. m - 1 \in 0 .. n /\ ~(m <= m - 1) BY <2>2, <2>4
    <3>2. m - 1 \notin Bad
      <4> HIDE DEF Bad
      <4> QED BY <2>1, <3>1
    <3>3. PICK g : g = Body(m - 1, g) BY <3>1, <3>2
    <3> DEFINE h == [S \in SUBSET (1 .. m) |-> IF m \in S THEN Op(c, g[S \ {m}], q[m]) ELSE g[S]]
    <3> HIDE DEF h
    <3>5. ASSUME NEW S \in SUBSET (1 .. m)
          PROVE  h[S] = IF S = {} THEN s ELSE Op(c, h[S \ {Last(S)}], q[Last(S)])
      <4>1. CASE m \in S
        <5>1. Last(S) = m BY <4>1, <2>2, LastIs
        <5>2. h[S] = Op(c, g[S \ {m}], q[m]) BY <4>1 DEF h
        <5>3. S \ {m} \in SUBSET (1 .. m) /\ m \notin S \ {m} OBVIOUS
        <5>4. h[S \ {m}] = g[S \ {m}] BY <5>3 DEF h
        <5> QED BY <4>1, <5>1, <5>2, <5>4
      <4>2. CASE m \notin S
        <5>1. S \in SUBSET (1 .. m - 1) BY <4>2, <2>2
        <5>2. h[S] = g[S] BY <4>2 DEF h
        <5>3. S \ {Last(S)} \in SUBSET (1 .. m) /\ m \notin S \ {Last(S)} BY <4>2
        <5>4. h[S \ {Last(S)}] = g[S \ {Last(S)}] BY <5>3 DEF h
        <5>5. g[S] = IF S = {} THEN s ELSE Op(c, g[S \ {Last(S)}], q[Last(S)]) BY <3>3, <5>1
        <5> QED BY <5>2, <5>4, <5>5
      <4> QED BY <4>1, <4>2
    <3>6. h = Body(m, h)
      <4>1. h = [S \in SUBSET (1 .. m) |-> h[S]] BY DEF h
      <4> QED BY <4>1, <3>5
    <3> QED BY <3>6, <2>2
  <2> QED BY <2>3, <2>4
<1> DEFINE it == Iter(c, s, q)
<1>2. it = Body(n, it)
  <2>1. n \in 0 .. n OBVIOUS
  <2>2. \E h : h = Body(n, h)
    <3> HIDE DEF Body
    <3> QED BY <1>1, <2>1
  <2>3. it = CHOOSE h : h = Body(n, h) BY DEF Iter
  <2> HIDE DEF Body, it
  <2> QED BY <2>2, <2>3
<1> HIDE DEF it
<1>3. it[{}] = s BY <1>2
<1>4. ASSUME NEW i \in 1 .. n PROVE it[1 .. i] = Op(c, it[1 .. i - 1], q[i])
  <2>1. 1 .. i \in SUBSET (1 .. n) /\ i \in 1 .. i /\ i \in Nat OBVIOUS
  <2>2. (1 .. i) \ {i} = 1 .. i - 1 OBVIOUS
  <2>3. Last(1 .. i) = i BY <2>1, LastIs
  <2>4. it[1 .. i] = Op(c, it[(1 .. i) \ {Last(1 .. i)}], q[Last(1 .. i)]) BY <1>2, <2>1
  <2> QED BY <2>2, <2>3, <2>4
<1> QED BY <1>3, <1>4 DEF it

\* What the start satisfies and each step keeps, the whole fold satisfies.
THEOREM FoldInv ==
    ASSUME NEW c, NEW s, NEW n \in Nat, NEW q, DOMAIN q = 1 .. n,
           P(c, 0, s), \A i \in 1 .. n : \A t : P(c, i - 1, t) => P(c, i, Op(c, t, q[i]))
    PROVE  P(c, n, Iter(c, s, q)[DOMAIN q])
<1> DEFINE it == Iter(c, s, q)
           Bad == {i \in 0 .. n : ~P(c, i, it[1 .. i])}
<1>1. it[{}] = s /\ \A i \in 1 .. n : it[1 .. i] = Op(c, it[1 .. i - 1], q[i]) BY IterAt
<1> HIDE DEF it
<1>2. Bad = {}
  <2> SUFFICES ASSUME Bad /= {} PROVE FALSE OBVIOUS
  <2>1. PICK m \in Bad : \A y \in Bad : m <= y
    <3>1. Bad \subseteq Nat OBVIOUS
    <3> QED BY <3>1, LeastNat
  <2>2. m \in 0 .. n /\ ~P(c, m, it[1 .. m]) OBVIOUS
  <2>3. CASE m = 0
    <3>1. 1 .. 0 = {} OBVIOUS
    <3> QED BY <3>1, <1>1, <2>2, <2>3
  <2>4. CASE m /= 0
    <3>1. m - 1 \in 0 .. n /\ ~(m <= m - 1) /\ m \in 1 .. n BY <2>2, <2>4
    <3>2. m - 1 \notin Bad
      <4> HIDE DEF Bad
      <4> QED BY <2>1, <3>1
    <3>3. P(c, m - 1, it[1 .. m - 1]) BY <3>1, <3>2
    <3> QED BY <3>1, <3>3, <1>1, <2>2
  <2> QED BY <2>3, <2>4
<1>3. P(c, n, it[1 .. n])
  <2>1. n \in 0 .. n OBVIOUS
  <2> QED BY <1>2, <2>1
<1> QED BY <1>3 DEF it
=============================================================================
