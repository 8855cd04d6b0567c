-------------------------- MODULE SampleCoreProofs --------------------------
(***************************************************************************)
(* What acts before it commits is never speculative, the event counter is  *)
(* exact and sampling is transparent, for any program and handler, any     *)
(* width and any size of the reorder buffer; and, as long as the program   *)
(* leaves its sampling registers alone while a sample is due, no mark leaks*)
(* and no sample is late.                                                  *)
(***************************************************************************)
EXTENDS SampleCore, FiniteSetTheorems, WellFoundedInduction, TLAPS

Causes == {None, "overflow", "irq", "fault"}
Uops == [pc : Nat, i : Insts, st : {"wait", "exec", "done"}, exc : Causes,
         wp : BOOLEAN, mis : BOOLEAN]
Regs == [tag : Nat, func : Nat, max : Nat, now : Nat, warm : Nat, nowWarm : Nat,
         happen : Nat, exitPC : Nat, temp : Nat]

TypeOK ==
    /\ prog \in Programs
    /\ ur \in Regs
    /\ cpu \in [prv : {0, 1}, d1 : {0, 1}, d2 : {0, 1}, epc : Nat, cause : Causes \cup {"ecall"}]
    /\ fetch \in [pc : Nat, wp : BOOLEAN]
    /\ ren2 \in Seq(Uops) /\ rob \in Seq(Uops)
    /\ rstate \in {"normal", "rollback", "wait"}
    /\ commD \in Nat
    /\ xcptD \in [cause : Causes, pc : Nat]
    /\ flushD \in [t : {"none", "xcpt", "uret", "eret"}, pc : Nat]

\* A branch that was predicted wrong and has not told so yet.
Unresolved(u) == u.mis /\ u.st # "done"
InRob  == \E i \in 1..Len(rob) : Unresolved(rob[i])
InRen2 == \E i \in 1..Len(ren2) : Unresolved(ren2[i])

\* What is on a wrong path is behind the branch that will kill it.
WrongPath ==
    /\ \A j \in 1..Len(rob) : rob[j].wp => \E i \in 1..(j - 1) : Unresolved(rob[i])
    /\ \A j \in 1..Len(ren2) : ren2[j].wp => InRob \/ \E i \in 1..(j - 1) : Unresolved(ren2[i])
    /\ fetch.wp => InRob \/ InRen2

\* A rollback empties the ROB; the redirect has emptied what was behind it.
Squashed == rstate = "rollback" => flushD.t = "xcpt" \/ (ren2 = <<>> /\ ~fetch.wp)

Fresh == \A j \in 1..Len(ren2) : ren2[j].st = "wait"

\* A unique uop is alone in the ROB and keeps it closed.
Alone == \A j \in 1..Len(rob) : IsUnique(rob[j]) =>
             /\ Len(rob) = 1 /\ rstate # "normal"
             /\ rob[j].st # "wait" => rob[j].exc = None

IInv == TypeOK /\ WrongPath /\ Squashed /\ Fresh /\ Alone

-----------------------------------------------------------------------------
\* The choices of a clock cycle, within the bounds of Next.
Clocked(c, n, ks, irq, mis, comp, flt, ev, rbk) ==
    /\ c \in 0..CoreWidth /\ n \in 0..CoreWidth /\ ks \in {"kern", "sret"}
    /\ irq \in BOOLEAN /\ mis \in BOOLEAN /\ rbk \in BOOLEAN /\ ev \in 0..1
    /\ comp \subseteq Finishing /\ flt \subseteq Loads /\ flt \subseteq comp
    /\ rbk => rstate = "rollback"
    /\ Cycle(c, n, ks, irq, mis, comp, flt, ev, rbk)

\* A stretch of a queue.
LEMMA SubSeqIs ==
    ASSUME NEW S, NEW q \in Seq(S), NEW a \in Nat, NEW b \in Nat, a <= b, b <= Len(q)
    PROVE  /\ SubSeq(q, a + 1, b) \in Seq(S) /\ Len(SubSeq(q, a + 1, b)) = b - a
           /\ \A j \in 1..(b - a) : SubSeq(q, a + 1, b)[j] = q[j + a]
  OBVIOUS

\* The queues are finite.
LEMMA LengthsAre == TypeOK => Len(rob) \in Nat /\ Len(ren2) \in Nat
  BY DEF TypeOK

\* A set of numbers has a least one.
LEMMA LeastNat ==
    ASSUME NEW T, T \subseteq Nat, T # {}
    PROVE  \E x \in T : \A y \in T : x <= y
<1> DEFINE R == OpToRel(<, Nat)
<1>1. IsWellFoundedOn(R, Nat)
  BY NatLessThanWellFounded
<1>2. \A x, y \in Nat : x < y => <<x, y>> \in R
  BY DEF OpToRel
<1> HIDE DEF R
<1>3. PICK x \in T : \A y \in T : ~(<<y, x>> \in R)
  BY <1>1, WFMin
<1>4. ASSUME NEW y \in T PROVE x <= y
  <2>1. x \in Nat /\ y \in Nat
    OBVIOUS
  <2>2. ~(y < x)
    BY <2>1, <1>2, <1>3
  <2> QED
    BY <2>1, <2>2
<1> QED
  BY <1>4

\* The oldest mispredicted branch among those that resolve.
LEMMA MispredictIs ==
    ASSUME TypeOK, NEW comp, comp \subseteq 1..Len(rob)
    PROVE  /\ Mispredict(comp) \in 0..Len(rob)
           /\ Mispredict(comp) = 0 => \A j \in comp : ~rob[j].mis
           /\ Mispredict(comp) # 0 =>
                 /\ Mispredict(comp) \in comp /\ rob[Mispredict(comp)].mis
                 /\ \A j \in comp : rob[j].mis => Mispredict(comp) <= j
<1> DEFINE M == {j \in comp : rob[j].mis}
<1>1. Len(rob) \in Nat
  BY DEF TypeOK
<1>2. CASE M = {}
  <2>1. Mispredict(comp) = 0
    BY <1>2 DEF Mispredict
  <2> QED
    BY <2>1, <1>1, <1>2
<1>3. CASE M # {}
  <2>0. M \subseteq comp /\ comp \subseteq Nat
    BY <1>1
  <2>1. \E j \in M : \A m \in M : j <= m
    <3> HIDE DEF M
    <3> QED
      BY <1>3, <2>0, LeastNat
  <2>2. Mispredict(comp) = CHOOSE j \in M : \A m \in M : j <= m
    BY <1>3 DEF Mispredict
  <2> DEFINE mp == Mispredict(comp)
  <2> HIDE DEF mp
  <2>3. mp \in M /\ \A m \in M : mp <= m
    <3> HIDE DEF M
    <3> QED
      BY <2>1, <2>2 DEF mp
  <2>4. mp \in comp /\ rob[mp].mis /\ \A j \in comp : rob[j].mis => mp <= j
    BY <2>3
  <2>5. mp \in 1..Len(rob)
    BY <2>4
  <2> QED
    BY <2>4, <2>5, <1>1 DEF mp
<1> QED
  BY <1>2, <1>3

\* The uops dispatched in a cycle have no hazard.
LEMMA DispatchedIs ==
    ASSUME TypeOK
    PROVE  Dispatched \in DispatchCounts
<1>1. Len(ren2) \in Nat
  BY DEF TypeOK
<1>2. 0 \in DispatchCounts /\ DispatchCounts \subseteq 0..Len(ren2)
  BY <1>1 DEF DispatchCounts
<1> DEFINE T == {Len(ren2) - m : m \in DispatchCounts}
<1>3. T \subseteq Nat /\ T # {}
  BY <1>1, <1>2
<1>4. PICK x \in T : \A y \in T : x <= y
  BY <1>3, LeastNat
<1>5. PICK d \in DispatchCounts : x = Len(ren2) - d
  BY <1>4
<1>6. ASSUME NEW m \in DispatchCounts PROVE m <= d
  <2>1. Len(ren2) - m \in T
    OBVIOUS
  <2>2. Len(ren2) - d <= Len(ren2) - m
    BY <2>1, <1>4, <1>5
  <2> QED
    BY <2>2, <1>1, <1>2
<1> QED
  BY <1>6 DEF Dispatched

\* What a uop keeps when it makes progress.
LEMMA ProgressIs ==
    ASSUME NEW u \in Uops, NEW fault \in BOOLEAN, fault => u.i.k = "ld"
    PROVE  LET e == Progress(u, fault)
           IN  /\ e \in Uops
               /\ e.pc = u.pc /\ e.i = u.i /\ e.wp = u.wp /\ e.mis = u.mis
               /\ IsUnique(u) => e.exc = u.exc
               /\ e.exc = u.exc \/ (fault /\ e.exc = "fault")
<1>1. u = [pc |-> u.pc, i |-> u.i, st |-> u.st, exc |-> u.exc, wp |-> u.wp, mis |-> u.mis]
  BY DEF Uops
<1>2. CASE fault
  BY <1>1, <1>2 DEF Progress, Uops, Causes, IsUnique
<1>3. CASE ~fault
  BY <1>1, <1>3 DEF Progress, Uops
<1> QED
  BY <1>2, <1>3

\* What the entries of the ROB keep when units finish.
LEMMA ExecutedIs ==
    ASSUME TypeOK, NEW comp, comp \subseteq Finishing, NEW flt, flt \subseteq Loads
    PROVE  LET exe == Executed(comp, flt)
           IN  /\ exe \in Seq(Uops) /\ Len(exe) = Len(rob)
               /\ \A j \in 1..Len(rob) :
                     /\ exe[j].pc = rob[j].pc
                     /\ exe[j].exc = rob[j].exc \/ (rob[j].i.k = "ld" /\ exe[j].exc = "fault")
                     /\ exe[j].i = rob[j].i /\ exe[j].wp = rob[j].wp /\ exe[j].mis = rob[j].mis
                     /\ j \notin comp => exe[j] = rob[j]
                     /\ j \in comp /\ IsUnique(rob[j]) => exe[j].exc = None
<1> DEFINE exe == Executed(comp, flt)
<1>1. Len(rob) \in Nat /\ \A j \in 1..Len(rob) : rob[j] \in Uops
  BY DEF TypeOK
<1>2. ASSUME NEW j \in 1..Len(rob)
      PROVE  /\ exe[j] = IF j \in comp THEN Progress(rob[j], j \in flt) ELSE rob[j]
             /\ exe[j] \in Uops
             /\ exe[j].pc = rob[j].pc
             /\ exe[j].exc = rob[j].exc \/ (rob[j].i.k = "ld" /\ exe[j].exc = "fault")
             /\ exe[j].i = rob[j].i /\ exe[j].wp = rob[j].wp /\ exe[j].mis = rob[j].mis
             /\ j \notin comp => exe[j] = rob[j]
             /\ j \in comp /\ IsUnique(rob[j]) => exe[j].exc = None
  <2>1. exe[j] = IF j \in comp THEN Progress(rob[j], j \in flt) ELSE rob[j]
    BY DEF Executed
  <2> HIDE DEF exe
  <2>2. CASE j \notin comp
    BY <1>1, <2>1, <2>2
  <2>3. CASE j \in comp
    <3>1. j \in flt => rob[j].i.k = "ld"
      BY DEF Loads
    <3>2. rob[j].exc = None
      BY <2>3 DEF Finishing, Waiting
    <3>3. rob[j] \in Uops
      BY <1>1
    <3>4. /\ exe[j] \in Uops /\ exe[j].pc = rob[j].pc
          /\ exe[j].exc = rob[j].exc \/ (rob[j].i.k = "ld" /\ exe[j].exc = "fault")
          /\ exe[j].i = rob[j].i /\ exe[j].wp = rob[j].wp /\ exe[j].mis = rob[j].mis
          /\ IsUnique(rob[j]) => exe[j].exc = rob[j].exc
      <4>1. CASE j \in flt
        <5>1. exe[j] = Progress(rob[j], TRUE)
          BY <2>1, <2>3, <4>1 DEF Progress
        <5> DEFINE u == rob[j]
                   e == Progress(u, TRUE)
        <5>2. u \in Uops /\ u.i.k = "ld"
          BY <3>1, <3>3, <4>1
        <5> HIDE DEF u
        <5>3. /\ e \in Uops
              /\ e.pc = u.pc /\ e.i = u.i /\ e.wp = u.wp /\ e.mis = u.mis
              /\ IsUnique(u) => e.exc = u.exc
              /\ e.exc = u.exc \/ e.exc = "fault"
          BY <5>2, ProgressIs
        <5> HIDE DEF e
        <5>4. exe[j] = e
          BY <5>1 DEF e, u
        <5> QED
          BY <5>2, <5>3, <5>4 DEF u
      <4>2. CASE j \notin flt
        <5>1. exe[j] = Progress(rob[j], FALSE)
          BY <2>1, <2>3, <4>2 DEF Progress
        <5>2. /\ Progress(rob[j], FALSE) \in Uops
              /\ LET e == Progress(rob[j], FALSE)
                 IN  /\ e.pc = rob[j].pc /\ e.exc = rob[j].exc
                     /\ e.i = rob[j].i /\ e.wp = rob[j].wp /\ e.mis = rob[j].mis
          <6> DEFINE u == rob[j]
          <6>1. u \in Uops
            BY <3>3
          <6> HIDE DEF u
          <6>2. /\ Progress(u, FALSE) \in Uops
                /\ LET e == Progress(u, FALSE)
                   IN  e.pc = u.pc /\ e.exc = u.exc /\ e.i = u.i /\ e.wp = u.wp /\ e.mis = u.mis
            BY <6>1, ProgressIs
          <6> QED
            BY <6>2 DEF u
        <5> QED
          BY <5>1, <5>2
      <4> QED
        BY <4>1, <4>2
    <3> QED
      BY <2>1, <2>3, <3>2, <3>4
  <2> QED
    BY <2>2, <2>3
<1>3. exe \in [1..Len(rob) -> Uops]
  <2>1. exe = [j \in 1..Len(rob) |-> IF j \in comp THEN Progress(rob[j], j \in flt) ELSE rob[j]]
    BY DEF Executed
  <2>2. \A j \in 1..Len(rob) : exe[j] \in Uops
    BY <1>2
  <2> QED
    BY <2>1, <2>2
<1>4. exe \in Seq(Uops) /\ Len(exe) = Len(rob)
  <2> HIDE DEF exe
  <2> QED
    BY <1>1, <1>3
<1> QED
  BY <1>2, <1>4

-----------------------------------------------------------------------------
\* How many of the uops of the ROB stay up to the mispredicted branch, and how
\* many join them.
Upto(comp)   == IF Mispredict(comp) = 0 THEN Len(rob) ELSE Mispredict(comp)
Joining(comp) == IF Mispredict(comp) = 0 THEN Dispatched ELSE 0

\* What commits is done, so a branch that tells of its misprediction is behind it.
LEMMA CommitsBefore ==
    ASSUME TypeOK, NEW comp, comp \subseteq Finishing, NEW c \in CommitCounts
    PROVE  /\ c \in 0..Upto(comp) /\ Upto(comp) \in 0..Len(rob)
           /\ Joining(comp) \in 0..Len(ren2)
           /\ \A j \in 1..c : rob[j].st = "done" /\ rob[j].exc = None
           /\ c > 0 => rstate # "rollback"
<1>1. comp \subseteq 1..Len(rob) /\ \A j \in comp : rob[j].st # "done"
  BY DEF Finishing, Waiting
<1>2. c \in 0..Len(rob) /\ \A j \in 1..c : rob[j].st = "done" /\ rob[j].exc = None
  <2>1. c \in 0..CoreWidth /\ CommitReady(c)
    BY DEF CommitCounts
  <2>2. CoreWidth \in Nat /\ Len(rob) \in Nat
    BY CoreAssumption DEF TypeOK
  <2> QED
    BY <2>1, <2>2 DEF CommitReady
<1>3. Dispatched \in 0..Len(ren2)
  BY DispatchedIs DEF DispatchCounts
<1>4. Joining(comp) \in 0..Len(ren2)
  BY <1>3 DEF Joining, TypeOK
<1>5. Upto(comp) \in 0..Len(rob)
  <2>1. Mispredict(comp) \in 0..Len(rob)
    BY <1>1, MispredictIs
  <2>2. Len(rob) \in Nat
    BY DEF TypeOK
  <2> QED
    BY <2>1, <2>2 DEF Upto
<1>6. c <= Upto(comp)
  <2>1. CASE Mispredict(comp) = 0
    BY <1>2, <2>1 DEF Upto
  <2>2. CASE Mispredict(comp) # 0
    <3>1. Mispredict(comp) \in comp
      BY <1>1, <2>2, MispredictIs
    <3>2. Mispredict(comp) \notin 1..c
      BY <1>1, <1>2, <3>1
    <3>3. Mispredict(comp) \in 1..Len(rob) /\ Len(rob) \in Nat
      BY <1>1, <3>1, LengthsAre
    <3>4. Upto(comp) = Mispredict(comp)
      BY <2>2 DEF Upto
    <3> QED
      BY <1>2, <3>2, <3>3, <3>4
  <2> QED
    BY <2>1, <2>2
<1>7. c > 0 => rstate # "rollback"
  BY DEF CommitCounts, CommitReady
<1> QED
  BY <1>2, <1>4, <1>5, <1>6, <1>7

\* q holds the k uops of the ROB that stay behind the c that commit, then the d
\* oldest of ren2.
Follows(q, k, d, c, exe) ==
    /\ q \in Seq(Uops) /\ k \in Nat /\ Len(q) = k + d
    /\ \A j \in 1..k : j + c \in 1..Len(rob) /\ q[j] = exe[j + c]
    /\ \A j \in 1..d : q[k + j] = ren2[j]

\* The ROB after a cycle that is not part of a rollback.
LEMMA RobAfterIs ==
    ASSUME TypeOK, NEW comp, comp \subseteq Finishing, NEW flt, flt \subseteq Loads,
           NEW c \in CommitCounts, NEW rbk, rstate # "rollback"
    PROVE  Follows(RobAfter(c, comp, flt, rbk), Upto(comp) - c, Joining(comp), c,
                   Executed(comp, flt))
<1> DEFINE exe  == Executed(comp, flt)
           up   == Upto(comp)
           d    == Joining(comp)
           kept == SubSeq(exe, c + 1, up)
           new  == SubSeq(ren2, 1, d)
<1>1. RobAfter(c, comp, flt, rbk) = kept \o new
  <2>1. RobAfter(c, comp, flt, rbk)
           = SubSeq(exe, c + 1, IF Mispredict(comp) = 0 THEN Len(exe) ELSE Mispredict(comp))
             \o SubSeq(ren2, 1, IF Mispredict(comp) = 0 THEN Dispatched ELSE 0)
    BY DEF RobAfter
  <2>2. Len(exe) = Len(rob)
    BY ExecutedIs
  <2> HIDE DEF exe
  <2> QED
    BY <2>1, <2>2 DEF Upto, Joining
<1>2. /\ exe \in Seq(Uops) /\ Len(exe) = Len(rob) /\ ren2 \in Seq(Uops)
      /\ c \in 0..up /\ up \in 0..Len(rob) /\ d \in 0..Len(ren2)
      /\ Len(rob) \in Nat /\ Len(ren2) \in Nat
  <2>1. exe \in Seq(Uops) /\ Len(exe) = Len(rob)
    BY ExecutedIs
  <2>2. c \in 0..up /\ up \in 0..Len(rob) /\ d \in 0..Len(ren2)
    BY CommitsBefore
  <2>3. ren2 \in Seq(Uops) /\ Len(rob) \in Nat /\ Len(ren2) \in Nat
    BY DEF TypeOK
  <2> HIDE DEF exe, up, d
  <2> QED
    BY <2>1, <2>2, <2>3
<1> HIDE DEF exe, up, d
<1>3. PICK k \in Nat : k = up - c
  BY <1>2
<1>4. /\ kept \in Seq(Uops) /\ Len(kept) = k
      /\ \A j \in 1..k : j + c \in 1..Len(rob) /\ kept[j] = exe[j + c]
  BY <1>2, <1>3
<1>5. /\ new \in Seq(Uops) /\ Len(new) = d
      /\ \A j \in 1..d : new[j] = ren2[j]
  BY <1>2
<1> HIDE DEF kept, new
<1>6. /\ kept \o new \in Seq(Uops) /\ Len(kept \o new) = k + d
      /\ \A j \in 1..k : (kept \o new)[j] = kept[j]
      /\ \A j \in 1..d : (kept \o new)[k + j] = new[j]
  <2>1. kept \in Seq(Uops) /\ new \in Seq(Uops) /\ k \in Nat /\ Len(kept) = k /\ Len(new) = d
    BY <1>3, <1>4, <1>5
  <2>2. /\ kept \o new \in Seq(Uops) /\ Len(kept \o new) = k + Len(new)
        /\ \A j \in 1..k : (kept \o new)[j] = kept[j]
        /\ \A j \in 1..Len(new) : (kept \o new)[k + j] = new[j]
    BY <2>1
  <2> QED
    BY <2>1, <2>2
<1>7. Follows(kept \o new, k, d, c, exe)
  BY <1>4, <1>5, <1>6 DEF Follows
<1> QED
  BY <1>1, <1>3, <1>7 DEF exe, up, d

\* Nothing is dispatched but in the normal state, and a unique uop only alone,
\* into an empty ROB.
LEMMA DispatchIs ==
    ASSUME TypeOK
    PROVE  /\ Dispatched \in 0..Len(ren2)
           /\ rstate # "normal" => Dispatched = 0
           /\ \A j \in 1..Dispatched : IsUnique(ren2[j]) => rob = <<>> /\ Dispatched = 1
<1>1. /\ Dispatched \in 0..Len(ren2) /\ Len(ren2) \in Nat
      /\ \A j \in 1..Dispatched : ~DispatchHazard(j)
  BY DispatchedIs DEF DispatchCounts, TypeOK
<1>2. ASSUME Dispatched # 0 PROVE rstate = "normal"
  <2>1. 1 \in 1..Dispatched
    BY <1>1, <1>2
  <2> QED
    BY <1>1, <2>1 DEF DispatchHazard
<1>3. ASSUME NEW j \in 1..Dispatched, IsUnique(ren2[j]) PROVE rob = <<>> /\ Dispatched = 1
  <2>1. rob = <<>> /\ ~(j > 1)
    BY <1>1, <1>3 DEF DispatchHazard
  <2>2. j = 1
    BY <2>1, <1>1
  <2>3. CASE Dispatched > 1
    <3>1. ~DispatchHazard(Dispatched) /\ 1 \in 1..(Dispatched - 1)
      BY <1>1, <2>3
    <3> QED
      BY <3>1, <2>2, <1>3 DEF DispatchHazard
  <2> QED
    BY <1>1, <2>1, <2>2, <2>3
<1> QED
  BY <1>1, <1>2, <1>3

\* A branch that has not told of its misprediction after a cycle outside a
\* rollback stays in the ROB, if nothing older tells.
LEMMA StaysUnresolved ==
    ASSUME TypeOK, NEW comp, comp \subseteq Finishing, NEW flt, flt \subseteq Loads,
           NEW c \in CommitCounts, NEW rbk, rstate # "rollback",
           NEW i \in 1..Len(rob), Unresolved(rob[i]),
           Mispredict(comp) = 0 \/ i < Mispredict(comp)
    PROVE  /\ i - c \in 1..(Upto(comp) - c)
           /\ Unresolved(RobAfter(c, comp, flt, rbk)[i - c])
<1> DEFINE k == Upto(comp) - c
<1>1. /\ c \in 0..Upto(comp) /\ Upto(comp) \in 0..Len(rob) /\ Len(rob) \in Nat
      /\ \A j \in 1..c : rob[j].st = "done"
  BY CommitsBefore, LengthsAre
<1>2. i > c
  BY <1>1 DEF Unresolved
<1>3. i <= Upto(comp)
  BY <1>1 DEF Upto
<1>4. i \notin comp
  <2>1. comp \subseteq 1..Len(rob)
    BY DEF Finishing, Waiting
  <2>2. /\ Mispredict(comp) \in 0..Len(rob)
        /\ Mispredict(comp) = 0 => \A j \in comp : ~rob[j].mis
        /\ Mispredict(comp) # 0 => \A j \in comp : rob[j].mis => Mispredict(comp) <= j
    BY <2>1, MispredictIs
  <2> QED
    BY <1>1, <2>2 DEF Unresolved
<1>5. i - c \in 1..k /\ (i - c) + c = i
  BY <1>1, <1>2, <1>3
<1>6. RobAfter(c, comp, flt, rbk)[i - c] = Executed(comp, flt)[(i - c) + c]
  BY <1>5, RobAfterIs DEF Follows
<1>7. Executed(comp, flt)[i] = rob[i]
  BY <1>4, ExecutedIs
<1> QED
  BY <1>5, <1>6, <1>7

-----------------------------------------------------------------------------
\* What fetch delivers is an instruction of the program or of the kernel.
LEMMA InstAtIs ==
    ASSUME TypeOK, NEW ks \in {"kern", "sret"}, NEW n \in Nat, Fetchable(n), NEW j \in 1..n
    PROVE  /\ NextPC(j - 1) \in Nat /\ InstAt(NextPC(j - 1), ks) \in Insts
           /\ fetch.pc # 0 => NextPC(j - 1) # 0 /\ InstAt(NextPC(j - 1), ks) \in UserInsts
           /\ fetch.pc = 0 => NextPC(j - 1) = 0 /\ InstAt(NextPC(j - 1), ks) = [k |-> ks]
<1>1. fetch.pc \in Nat /\ prog \in Programs
  BY DEF TypeOK
<1>2. NextPC(j - 1) \in Nat
  BY <1>1 DEF NextPC
<1>3. CASE fetch.pc = 0
  <2>1. NextPC(j - 1) = 0
    BY <1>3 DEF NextPC
  <2>2. [k |-> ks] \in Insts
    <3>1. CASE ks = "kern"
      BY <3>1 DEF Insts
    <3>2. CASE ks = "sret"
      BY <3>2 DEF Insts
    <3> QED
      BY <3>1, <3>2
  <2> QED
    BY <1>3, <2>1, <2>2 DEF InstAt
<1>4. CASE fetch.pc # 0
  <2>1. NextPC(j - 1) = fetch.pc + (j - 1)
    BY <1>4 DEF NextPC
  <2>2. fetch.pc + (j - 1) \in fetch.pc..(fetch.pc + n - 1) /\ fetch.pc + (j - 1) # 0
    BY <1>1, <1>4
  <2>3. fetch.pc + (j - 1) <= Len(Code)
    BY <1>4, <2>2 DEF Fetchable
  <2>4. Code \in Seq(UserInsts)
    BY <1>1, CoreAssumption DEF Code
  <2>5. fetch.pc + (j - 1) \in 1..Len(Code)
    BY <1>1, <2>2, <2>3, <2>4
  <2>6. Code[fetch.pc + (j - 1)] \in UserInsts
    BY <2>4, <2>5
  <2> QED
    BY <1>2, <1>4, <2>1, <2>2, <2>6 DEF InstAt, Insts
<1> QED
  BY <1>2, <1>3, <1>4

\* The bundle that decode hands to ren2.
LEMMA BundleIs ==
    ASSUME TypeOK, NEW ks \in {"kern", "sret"}, NEW n \in Nat, Fetchable(n),
           NEW irq \in BOOLEAN, NEW mis \in BOOLEAN
    PROVE  LET b == Bundle(n, ks, irq, mis)
           IN  /\ b \in Seq(Uops) /\ Len(b) = n
               /\ \A j \in 1..n :
                     /\ b[j].st = "wait" /\ b[j].wp = fetch.wp /\ b[j].mis = (mis /\ j = n)
                     /\ b[j].exc = DecodeXcpt(irq)
                     /\ fetch.pc # 0 => b[j].pc # 0 /\ b[j].i \in UserInsts
                     /\ fetch.pc = 0 => b[j].pc = 0 /\ b[j].i = [k |-> ks]
<1> DEFINE b == Bundle(n, ks, irq, mis)
<1>1. ASSUME NEW j \in 1..n
      PROVE  /\ b[j] \in Uops
             /\ b[j].st = "wait" /\ b[j].wp = fetch.wp /\ b[j].mis = (mis /\ j = n)
             /\ b[j].exc = DecodeXcpt(irq)
             /\ fetch.pc # 0 => b[j].pc # 0 /\ b[j].i \in UserInsts
             /\ fetch.pc = 0 => b[j].pc = 0 /\ b[j].i = [k |-> ks]
  <2>1. b[j] = Uop(NextPC(j - 1), InstAt(NextPC(j - 1), ks), DecodeXcpt(irq), fetch.wp, mis /\ j = n)
    BY DEF Bundle
  <2>2. /\ NextPC(j - 1) \in Nat /\ InstAt(NextPC(j - 1), ks) \in Insts
        /\ fetch.pc # 0 => NextPC(j - 1) # 0 /\ InstAt(NextPC(j - 1), ks) \in UserInsts
        /\ fetch.pc = 0 => NextPC(j - 1) = 0 /\ InstAt(NextPC(j - 1), ks) = [k |-> ks]
    BY InstAtIs
  <2>3. DecodeXcpt(irq) \in Causes
    BY DEF DecodeXcpt, Causes
  <2>4. fetch.wp \in BOOLEAN /\ (mis /\ j = n) \in BOOLEAN
    BY DEF TypeOK
  <2> HIDE DEF b
  <2> QED
    BY <2>1, <2>2, <2>3, <2>4 DEF Uop, Uops
<1>2. b = [j \in 1..n |-> b[j]]
  BY DEF Bundle
<1> HIDE DEF b
<1>3. b \in [1..n -> Uops]
  BY <1>1, <1>2
<1>4. b \in Seq(Uops) /\ Len(b) = n
  BY <1>3
<1> QED
  BY <1>1, <1>4 DEF b

\* A register holds a number whatever writes it.
LEMMA RegsTyped ==
    ASSUME TypeOK, NEW comp, comp \subseteq Finishing, NEW ev \in 0..1
    PROVE  RegsAfter(comp, ev) \in Regs
<1>1. /\ ur \in Regs /\ commD \in Nat /\ xcptD.pc \in Nat /\ Rearm \in Nat
      /\ \A j \in 1..Len(rob) : rob[j].i \in Insts
  <2>1. \A j \in 1..Len(rob) : rob[j] \in Uops
    BY DEF TypeOK
  <2>2. \A j \in 1..Len(rob) : rob[j].i \in Insts
    BY <2>1 DEF Uops
  <2>3. ur \in Regs /\ commD \in Nat /\ xcptD.pc \in Nat /\ prog \in Programs
    BY DEF TypeOK
  <2> QED
    BY <2>2, <2>3, CoreAssumption DEF Rearm
<1>2. Counted(ur, ev) \in Regs
  <2>1. EventInc(ev) \in Nat
    BY <1>1 DEF EventInc
  <2>2. ~(SampleValid /\ WarmupValid)
    BY DEF SampleValid, WarmupValid
  <2>3. CASE SampleValid
    <3>1. Counted(ur, ev) = [ur EXCEPT !.now = @ + EventInc(ev)]
      BY <2>2, <2>3 DEF Counted
    <3>2. [ur EXCEPT !.now = @ + EventInc(ev)] \in Regs
      <4>1. ur.now + EventInc(ev) \in Nat
        BY <1>1, <2>1 DEF Regs
      <4> QED
        BY <1>1, <4>1 DEF Regs
    <3> QED
      BY <3>1, <3>2
  <2>4. CASE WarmupValid /\ ur.nowWarm > ur.warm
    <3>1. Counted(ur, ev) = [ur EXCEPT !.warm = 0, !.nowWarm = 0, !.now = 0]
      BY <1>1, <2>2, <2>4 DEF Counted, Regs
    <3>2. [ur EXCEPT !.warm = 0, !.nowWarm = 0, !.now = 0] \in Regs
      BY <1>1 DEF Regs
    <3> QED
      BY <3>1, <3>2
  <2>5. CASE WarmupValid /\ ur.nowWarm <= ur.warm
    <3>1. Counted(ur, ev) = [ur EXCEPT !.nowWarm = @ + commD]
      BY <1>1, <2>2, <2>5 DEF Counted, Regs
    <3>2. [ur EXCEPT !.nowWarm = @ + commD] \in Regs
      <4>1. ur.nowWarm + commD \in Nat
        BY <1>1 DEF Regs
      <4> QED
        BY <1>1, <4>1 DEF Regs
    <3> QED
      BY <3>1, <3>2
  <2>6. CASE ~SampleValid /\ ~WarmupValid
    BY <1>1, <2>6 DEF Counted
  <2> QED
    BY <1>1, <2>3, <2>4, <2>5, <2>6 DEF Regs
<1>3. ASSUME NEW r \in Regs PROVE Redirected(r) \in Regs
  BY <1>1 DEF Redirected, SampleRegs, Regs
<1>4. ASSUME NEW r \in Regs PROVE Written(r, comp) \in Regs
  <2>1. CASE Starts(comp, "set") # {}
    <3> DEFINE j == CHOOSE j \in Starts(comp, "set") : TRUE
    <3>1. j \in Starts(comp, "set")
      BY <2>1
    <3>2. j \in 1..Len(rob) /\ rob[j].i.k = "set"
      BY <3>1 DEF Starts, Finishing, Waiting
    <3>3. rob[j].i \in [k : {"set"}, r : {"tag", "func", "max", "warm"}, v : Nat]
      BY <1>1, <3>2 DEF Insts, UserInsts
    <3>4. SetReg(r, rob[j].i) \in Regs
      <4>1. rob[j].i.v \in Nat
        BY <3>3
      <4> QED
        BY <4>1 DEF SetReg, Regs
    <3> QED
      BY <2>1, <3>4 DEF Written
  <2>2. CASE Starts(comp, "set") = {}
    BY <1>1, <2>2 DEF Written, SoftwareRearm, Regs
  <2> QED
    BY <2>1, <2>2
<1> QED
  BY <1>2, <1>3, <1>4 DEF RegsAfter

\* The queue between decode and dispatch after a cycle.
LEMMA Ren2Is ==
    ASSUME NEW c, NEW n, NEW ks, NEW irq, NEW mis, NEW comp, NEW flt, NEW ev, NEW rbk,
           Clocked(c, n, ks, irq, mis, comp, flt, ev, rbk)
    PROVE  /\ n \in Nat
           /\ n > 0 => DecodeReady /\ Mispredict(comp) = 0
           /\ Redirecting \/ Mispredict(comp) # 0 => ren2' = <<>> /\ ~fetch'.wp
           /\ n > 0 => ren2' = Bundle(n, ks, irq, mis)
           /\ ~Redirecting /\ Mispredict(comp) = 0 /\ n = 0 =>
                 ren2' = SubSeq(ren2, Dispatched + 1, Len(ren2))
<1>1. /\ n \in Nat
      /\ n > 0 => DecodeReady
      /\ Mispredict(comp) # 0 => n = 0
  BY CoreAssumption DEF Clocked, Cycle, Decodable
<1>2. ren2' = CASE Redirecting \/ Mispredict(comp) # 0 -> <<>>
                [] n > 0 -> Bundle(n, ks, irq, mis)
                [] OTHER -> SubSeq(ren2, Dispatched + 1, Len(ren2))
  BY DEF Clocked, Cycle
<1>3. fetch' = CASE Redirecting -> [pc |-> RedirectPC, wp |-> FALSE]
                 [] ~Redirecting /\ Mispredict(comp) # 0 ->
                       [pc |-> rob[Mispredict(comp)].pc + 1, wp |-> FALSE]
                 [] OTHER -> [pc |-> NextPC(IF mis THEN n + 1 ELSE n), wp |-> fetch.wp \/ mis]
  BY DEF Clocked, Cycle
<1>4. ASSUME n > 0 PROVE ~Redirecting /\ Mispredict(comp) = 0
  BY <1>1, <1>4 DEF DecodeReady
<1>5. ASSUME Redirecting \/ Mispredict(comp) # 0 PROVE ren2' = <<>>
  BY <1>2, <1>4, <1>5
<1>6. ASSUME Redirecting \/ Mispredict(comp) # 0 PROVE ~fetch'.wp
  <2>1. CASE Redirecting
    BY <1>3, <2>1
  <2>2. CASE ~Redirecting /\ Mispredict(comp) # 0
    BY <1>3, <2>2
  <2> QED
    BY <1>6, <2>1, <2>2
<1>7. ASSUME n > 0 PROVE ren2' = Bundle(n, ks, irq, mis)
  BY <1>2, <1>4, <1>7
<1>8. ASSUME ~Redirecting, Mispredict(comp) = 0, n = 0
      PROVE  ren2' = SubSeq(ren2, Dispatched + 1, Len(ren2))
  <2>1. ~(n > 0)
    BY <1>8
  <2> QED
    BY <1>2, <1>8, <2>1
<1> QED
  BY <1>1, <1>4, <1>5, <1>6, <1>7, <1>8

\* What a cycle leaves in the ROB, ren2 and the frontend, by its type.
LEMMA QueuesTyped ==
    ASSUME TypeOK, NEW c, NEW n, NEW ks, NEW irq, NEW mis, NEW comp, NEW flt, NEW ev, NEW rbk,
           Clocked(c, n, ks, irq, mis, comp, flt, ev, rbk)
    PROVE  rob' \in Seq(Uops) /\ ren2' \in Seq(Uops) /\ fetch' \in [pc : Nat, wp : BOOLEAN]
<1>1. /\ c \in CommitCounts /\ n \in Nat /\ ks \in {"kern", "sret"} /\ irq \in BOOLEAN
      /\ mis \in BOOLEAN /\ comp \subseteq Finishing /\ flt \subseteq Loads /\ Fetchable(n)
  BY CoreAssumption DEF Clocked, Cycle, Decodable
<1>2. rob' \in Seq(Uops)
  <2>1. rob' = RobAfter(c, comp, flt, rbk)
    BY DEF Clocked, Cycle
  <2>2. CASE rstate = "rollback"
    <3>1. rob' = <<>> \/ rob' = rob
      BY <2>1, <2>2 DEF RobAfter, Clocked
    <3>2. <<>> \in Seq(Uops) /\ rob \in Seq(Uops)
      BY DEF TypeOK
    <3> QED
      BY <3>1, <3>2
  <2>3. CASE rstate # "rollback"
    BY <1>1, <2>1, <2>3, RobAfterIs DEF Follows
  <2> QED
    BY <2>2, <2>3
<1>3. ren2' \in Seq(Uops)
  <2>1. \/ ren2' = <<>> \/ ren2' = Bundle(n, ks, irq, mis)
        \/ ren2' = SubSeq(ren2, Dispatched + 1, Len(ren2))
    BY Ren2Is
  <2>2. Bundle(n, ks, irq, mis) \in Seq(Uops)
    BY <1>1, BundleIs
  <2>3. SubSeq(ren2, Dispatched + 1, Len(ren2)) \in Seq(Uops)
    <3>1. Dispatched \in 0..Len(ren2) /\ ren2 \in Seq(Uops) /\ Len(ren2) \in Nat
      BY DispatchIs DEF TypeOK
    <3> QED
      BY <3>1, SubSeqIs
  <2>4. <<>> \in Seq(Uops)
    OBVIOUS
  <2> QED
    BY <2>1, <2>2, <2>3, <2>4
<1>4. fetch' \in [pc : Nat, wp : BOOLEAN]
  <2>1. CASE Redirecting
    <3>1. fetch' = [pc |-> RedirectPC, wp |-> FALSE]
      BY <2>1 DEF Clocked, Cycle
    <3>2. flushD.pc \in Nat /\ ur.func \in Nat
      BY DEF TypeOK, Regs
    <3> QED
      BY <3>1, <3>2 DEF RedirectPC
  <2>2. CASE ~Redirecting /\ Mispredict(comp) # 0
    <3>1. fetch' = [pc |-> rob[Mispredict(comp)].pc + 1, wp |-> FALSE]
      BY <2>2 DEF Clocked, Cycle
    <3>2. comp \subseteq 1..Len(rob)
      BY <1>1 DEF Finishing, Waiting
    <3>3. Mispredict(comp) \in 1..Len(rob)
      BY <2>2, <3>2, MispredictIs
    <3>4. rob[Mispredict(comp)] \in Uops
      BY <3>3 DEF TypeOK
    <3> QED
      BY <3>1, <3>4 DEF Uops
  <2>3. CASE ~Redirecting /\ Mispredict(comp) = 0
    <3>1. fetch' = [pc |-> NextPC(IF mis THEN n + 1 ELSE n), wp |-> fetch.wp \/ mis]
      BY <2>3 DEF Clocked, Cycle
    <3>2. (IF mis THEN n + 1 ELSE n) \in Nat /\ fetch.pc \in Nat /\ fetch.wp \in BOOLEAN
      BY <1>1 DEF TypeOK
    <3>3. NextPC(IF mis THEN n + 1 ELSE n) \in Nat
      BY <3>2 DEF NextPC
    <3> QED
      BY <1>1, <3>1, <3>2, <3>3
  <2> QED
    BY <2>1, <2>2, <2>3
<1> QED
  BY <1>2, <1>3, <1>4

\* A cycle keeps the types.
LEMMA TypeOKStep ==
    ASSUME TypeOK, NEW c, NEW n, NEW ks, NEW irq, NEW mis, NEW comp, NEW flt, NEW ev, NEW rbk,
           Clocked(c, n, ks, irq, mis, comp, flt, ev, rbk)
    PROVE  TypeOK'
<1>1. /\ c \in CommitCounts /\ c \in Nat /\ comp \subseteq Finishing /\ flt \subseteq Loads
      /\ ev \in 0..1 /\ prog' = prog /\ commD' = c /\ ur' = RegsAfter(comp, ev)
      /\ cpu' = CpuAfter(comp) /\ flushD' = Flush(c)
      /\ rstate' = RobStateAfter(Mispredict(comp), rbk)
      /\ xcptD' = IF Throws THEN [cause |-> rob[1].exc, pc |-> rob[1].pc] ELSE NoXcpt
  BY CoreAssumption DEF Clocked, Cycle
<1>2. \A j \in 1..Len(rob) : rob[j] \in Uops
  BY DEF TypeOK
<1>3. ur' \in Regs
  BY <1>1, RegsTyped
<1>4. cpu' \in [prv : {0, 1}, d1 : {0, 1}, d2 : {0, 1}, epc : Nat, cause : Causes \cup {"ecall"}]
  <2>1. /\ cpu \in [prv : {0, 1}, d1 : {0, 1}, d2 : {0, 1}, epc : Nat, cause : Causes \cup {"ecall"}]
        /\ xcptD.pc \in Nat /\ xcptD.cause \in Causes
    BY DEF TypeOK
  <2>2. Starts(comp, "ecall") # {} => rob[CHOOSE j \in Starts(comp, "ecall") : TRUE].pc \in Nat
    <3>1. Starts(comp, "ecall") \subseteq 1..Len(rob)
      BY <1>1 DEF Starts, Finishing, Waiting
    <3>2. \A j \in 1..Len(rob) : rob[j].pc \in Nat
      BY <1>2 DEF Uops
    <3> QED
      BY <3>1, <3>2
  <2>3. ResumePC \in Nat
    BY <2>1 DEF ResumePC
  <2>4. TrapCause \in Causes \cup {"ecall"}
    BY <2>1 DEF TrapCause
  <2> QED
    BY <1>1, <2>1, <2>2, <2>3, <2>4 DEF CpuAfter
<1>5. rstate' \in {"normal", "rollback", "wait"}
  BY <1>1 DEF RobStateAfter, TypeOK
<1>6. xcptD' \in [cause : Causes, pc : Nat]
  <2>1. CASE Throws
    <3>1. 1 \in 1..Len(rob)
      BY <2>1 DEF Throws, TypeOK
    <3> QED
      BY <1>1, <1>2, <2>1, <3>1 DEF Uops
  <2>2. CASE ~Throws
    BY <1>1, <2>2 DEF NoXcpt, Causes
  <2> QED
    BY <2>1, <2>2
<1>7. flushD' \in [t : {"none", "xcpt", "uret", "eret"}, pc : Nat]
  <2>1. CASE Throws
    <3>1. 1 \in 1..Len(rob)
      BY <2>1 DEF Throws, TypeOK
    <3>2. rob[1].pc \in Nat
      BY <1>2, <3>1 DEF Uops
    <3> QED
      BY <1>1, <2>1, <3>2 DEF Flush
  <2>2. ASSUME NEW u PROVE FlushOf(u) \in [t : {"none", "xcpt", "uret", "eret"}, pc : Nat]
    <3>1. ur.temp \in Nat /\ cpu.epc \in Nat
      BY DEF TypeOK, Regs
    <3>2. Nowhere \in Nat
      <4>1. Code \in Seq(UserInsts)
        BY CoreAssumption DEF TypeOK, Code
      <4> QED
        BY <4>1 DEF Nowhere
    <3> QED
      BY <3>1, <3>2 DEF FlushOf, NoFlush
  <2>3. CASE ~Throws
    BY <1>1, <2>2, <2>3 DEF Flush, NoFlush
  <2> QED
    BY <2>1, <2>3
<1>8. rob' \in Seq(Uops) /\ ren2' \in Seq(Uops) /\ fetch' \in [pc : Nat, wp : BOOLEAN]
  BY QueuesTyped
<1> QED
  BY <1>1, <1>3, <1>4, <1>5, <1>6, <1>7, <1>8 DEF TypeOK

-----------------------------------------------------------------------------
\* While a rollback lasts nothing executes, decodes or is dispatched.
LEMMA RollbackIs ==
    ASSUME TypeOK, Squashed, rstate = "rollback",
           NEW c, NEW n, NEW ks, NEW irq, NEW mis, NEW comp, NEW flt, NEW ev, NEW rbk,
           Clocked(c, n, ks, irq, mis, comp, flt, ev, rbk)
    PROVE  /\ rob' = (IF rbk THEN <<>> ELSE rob) /\ rstate' = (IF rbk THEN "normal" ELSE rstate)
           /\ ren2' = <<>> /\ ~fetch'.wp
<1>1. comp = {} /\ n = 0 /\ ~mis
  <2>1. comp = {}
    BY DEF Clocked, Finishing
  <2>2. n = 0
    BY CoreAssumption DEF Clocked, Cycle, Decodable, DecodeReady
  <2>3. ~mis
    BY <2>2 DEF Clocked, Cycle, Decodable, CanMispredict
  <2> QED
    BY <2>1, <2>2, <2>3
<1>2. Mispredict(comp) = 0
  BY <1>1 DEF Mispredict
<1>3. ren2' = <<>> /\ ~fetch'.wp
  <2>1. CASE Redirecting
    BY <2>1, Ren2Is
  <2>2. CASE ~Redirecting
    <3>1. ren2 = <<>> /\ ~fetch.wp
      BY <2>2 DEF Squashed, Redirecting
    <3>2. ren2' = SubSeq(ren2, Dispatched + 1, Len(ren2))
      BY <1>1, <1>2, <2>2, Ren2Is
    <3>3. Dispatched = 0
      BY DispatchIs
    <3>4. SubSeq(ren2, 0 + 1, Len(ren2)) = <<>>
      <4>1. <<>> \in Seq(Uops) /\ Len(<<>>) = 0
        OBVIOUS
      <4>2. SubSeq(<<>>, 0 + 1, 0) \in Seq(Uops) /\ Len(SubSeq(<<>>, 0 + 1, 0)) = 0 - 0
        BY <4>1, SubSeqIs
      <4> QED
        BY <3>1, <4>1, <4>2
    <3>5. fetch'.wp = (fetch.wp \/ mis)
      BY <1>2, <2>2 DEF Clocked, Cycle
    <3> QED
      BY <1>1, <3>1, <3>2, <3>3, <3>4, <3>5
  <2> QED
    BY <2>1, <2>2
<1>4. rob' = (IF rbk THEN <<>> ELSE rob)
  BY DEF Clocked, Cycle, RobAfter
<1>5. rstate' = (IF rbk THEN "normal" ELSE rstate)
  BY DEF Clocked, Cycle, RobStateAfter, Throws
<1> QED
  BY <1>3, <1>4, <1>5

\* Outside a rollback.
LEMMA ForwardIs ==
    ASSUME TypeOK, rstate # "rollback",
           NEW c, NEW n, NEW ks, NEW irq, NEW mis, NEW comp, NEW flt, NEW ev, NEW rbk,
           Clocked(c, n, ks, irq, mis, comp, flt, ev, rbk)
    PROVE  /\ c \in CommitCounts /\ comp \subseteq Finishing /\ flt \subseteq Loads
           /\ rob' = RobAfter(c, comp, flt, rbk)
           /\ \/ ren2' = <<>> /\ ~fetch'.wp
              \/ /\ Mispredict(comp) = 0 /\ fetch'.wp = (fetch.wp \/ mis)
                 /\ \/ /\ Dispatched = Len(ren2) /\ ren2' \in Seq(Uops) /\ n > 0 /\ Len(ren2') = n
                       /\ \A j \in 1..n : /\ ren2'[j].st = "wait" /\ ren2'[j].wp = fetch.wp
                                          /\ ren2'[j].mis = (mis /\ j = n)
                    \/ /\ ~mis /\ ren2' \in Seq(Uops) /\ Len(ren2') = Len(ren2) - Dispatched
                       /\ \A j \in 1..Len(ren2') : ren2'[j] = ren2[j + Dispatched]
<1>1. /\ c \in CommitCounts /\ comp \subseteq Finishing /\ flt \subseteq Loads
      /\ rob' = RobAfter(c, comp, flt, rbk) /\ n \in Nat /\ ks \in {"kern", "sret"}
      /\ irq \in BOOLEAN /\ mis \in BOOLEAN /\ Decodable(n, ks, mis)
  BY CoreAssumption DEF Clocked, Cycle
<1>2. CASE Redirecting \/ Mispredict(comp) # 0
  BY <1>1, <1>2, Ren2Is
<1>3. CASE ~Redirecting /\ Mispredict(comp) = 0
  <2>1. fetch'.wp = (fetch.wp \/ mis)
    BY <1>3 DEF Clocked, Cycle
  <2>2. CASE n > 0
    <3>1. ren2' = Bundle(n, ks, irq, mis)
      BY <2>2, Ren2Is
    <3>2. Dispatched = Len(ren2) /\ Fetchable(n)
      BY <1>1, <2>2 DEF Decodable, DecodeReady
    <3>3. /\ ren2' \in Seq(Uops) /\ Len(ren2') = n
          /\ \A j \in 1..n : /\ ren2'[j].st = "wait" /\ ren2'[j].wp = fetch.wp
                             /\ ren2'[j].mis = (mis /\ j = n)
      BY <1>1, <3>1, <3>2, BundleIs
    <3> QED
      BY <1>1, <1>3, <2>1, <2>2, <3>2, <3>3
  <2>3. CASE n = 0
    <3>1. ren2' = SubSeq(ren2, Dispatched + 1, Len(ren2))
      BY <1>3, <2>3, Ren2Is
    <3>2. ~mis
      BY <1>1, <2>3 DEF Decodable, CanMispredict
    <3>3. Dispatched \in 0..Len(ren2) /\ ren2 \in Seq(Uops) /\ Len(ren2) \in Nat
      BY DispatchIs DEF TypeOK
    <3>4. /\ ren2' \in Seq(Uops) /\ Len(ren2') = Len(ren2) - Dispatched
          /\ \A j \in 1..(Len(ren2) - Dispatched) : ren2'[j] = ren2[j + Dispatched]
      BY <3>1, <3>3, SubSeqIs
    <3> QED
      BY <1>1, <1>3, <2>1, <3>2, <3>4
  <2> QED
    BY <1>1, <2>2, <2>3
<1> QED
  BY <1>2, <1>3

\* A mispredicted branch stays in front of what was fetched on its wrong path.
LEMMA WrongPathStep ==
    ASSUME TypeOK, WrongPath, Fresh, rstate # "rollback",
           NEW c, NEW n, NEW ks, NEW irq, NEW mis, NEW comp, NEW flt, NEW ev, NEW rbk,
           Clocked(c, n, ks, irq, mis, comp, flt, ev, rbk)
    PROVE  WrongPath'
<1> DEFINE q == RobAfter(c, comp, flt, rbk)
           k == Upto(comp) - c
           d == Joining(comp)
<1>1. /\ c \in CommitCounts /\ comp \subseteq Finishing /\ flt \subseteq Loads /\ rob' = q
      /\ mis \in BOOLEAN /\ n \in Nat
  BY ForwardIs, CoreAssumption DEF Clocked
<1>2. /\ q \in Seq(Uops) /\ k \in Nat /\ d \in Nat /\ Len(q) = k + d /\ c \in Nat
      /\ \A j \in 1..k : j + c \in 1..Len(rob) /\ q[j] = Executed(comp, flt)[j + c]
      /\ \A j \in 1..d : q[k + j] = ren2[j]
  <2>1. /\ c \in Nat /\ d \in Nat
    <3>1. c \in 0..Upto(comp) /\ Joining(comp) \in 0..Len(ren2)
      BY <1>1, CommitsBefore
    <3> QED
      BY <3>1
  <2>2. Follows(q, k, d, c, Executed(comp, flt))
    BY <1>1, RobAfterIs
  <2> HIDE DEF q, k, d
  <2> QED
    BY <2>1, <2>2 DEF Follows
<1>3. Len(rob) \in Nat /\ Len(ren2) \in Nat /\ d \in 0..Len(ren2) /\ Dispatched \in 0..Len(ren2)
  <2>1. d \in 0..Len(ren2)
    BY <1>1, CommitsBefore
  <2> QED
    BY <2>1, DispatchIs, LengthsAre
<1>4. ASSUME NEW i \in 1..Len(rob), Unresolved(rob[i]),
             Mispredict(comp) = 0 \/ i < Mispredict(comp)
      PROVE  i - c \in 1..k /\ Unresolved(q[i - c])
  BY <1>1, <1>4, StaysUnresolved
<1>5. ASSUME Mispredict(comp) = 0, InRob PROVE InRob'
  <2>1. PICK i \in 1..Len(rob) : Unresolved(rob[i])
    BY <1>5 DEF InRob
  <2>2. i - c \in 1..k /\ Unresolved(q[i - c])
    BY <1>4, <1>5, <2>1
  <2>3. i - c \in 1..Len(q)
    BY <1>2, <2>2
  <2> HIDE DEF q, k
  <2> QED
    BY <1>1, <2>2, <2>3 DEF InRob, Unresolved
<1>6. ASSUME Mispredict(comp) = 0, NEW i \in 1..Dispatched, Unresolved(ren2[i])
      PROVE  k + i \in 1..Len(q) /\ Unresolved(q[k + i]) /\ InRob'
  <2>1. d = Dispatched
    BY <1>6 DEF Joining
  <2>2. k + i \in 1..Len(q) /\ q[k + i] = ren2[i]
    BY <1>2, <1>3, <2>1
  <2> HIDE DEF q, k
  <2> QED
    BY <1>1, <1>6, <2>2 DEF InRob, Unresolved
<1> HIDE DEF q, k, d
<1>7. ASSUME NEW j \in 1..Len(q), q[j].wp PROVE \E i \in 1..(j - 1) : Unresolved(q[i])
  <2>1. CASE j <= k
    <3>1. j \in 1..k
      BY <1>2, <2>1
    <3>2. /\ j + c \in 1..Len(rob) /\ rob[j + c].wp
          /\ Mispredict(comp) = 0 \/ j + c <= Mispredict(comp)
      <4>1. j + c \in 1..Len(rob) /\ q[j] = Executed(comp, flt)[j + c]
        BY <1>2, <3>1
      <4>2. rob[j + c].wp
        BY <1>1, <1>7, <4>1, ExecutedIs
      <4>3. j <= Upto(comp) - c /\ Upto(comp) \in Nat
        BY <3>1, <1>1, <1>3, CommitsBefore DEF k
      <4> QED
        BY <1>2, <4>1, <4>2, <4>3 DEF Upto
    <3>3. PICK i \in 1..(j + c - 1) : Unresolved(rob[i])
      <4>1. \A m \in 1..Len(rob) : rob[m].wp => \E i \in 1..(m - 1) : Unresolved(rob[i])
        BY DEF WrongPath
      <4>2. PICK m : m = j + c
        OBVIOUS
      <4>3. \E i \in 1..(m - 1) : Unresolved(rob[i])
        BY <3>2, <4>1, <4>2
      <4>4. PICK l \in 1..(m - 1) : Unresolved(rob[l])
        BY <4>3
      <4>5. l \in 1..(j + c - 1)
        BY <1>2, <1>3, <3>1, <3>2, <4>2, <4>4
      <4> QED
        BY <4>4, <4>5
    <3>4. i \in 1..Len(rob) /\ (Mispredict(comp) = 0 \/ i < Mispredict(comp))
      <4>1. Mispredict(comp) \in 0..Len(rob)
        <5>1. comp \subseteq 1..Len(rob)
          BY <1>1 DEF Finishing, Waiting
        <5> QED
          BY <5>1, MispredictIs
      <4> QED
        BY <1>2, <1>3, <3>1, <3>2, <3>3, <4>1
    <3>5. i - c \in 1..k /\ Unresolved(q[i - c])
      BY <1>4, <3>3, <3>4
    <3>6. i - c \in 1..(j - 1)
      BY <1>2, <3>1, <3>3, <3>5
    <3> QED
      BY <3>5, <3>6
  <2>2. CASE j > k
    <3>1. j - k \in 1..d /\ k + (j - k) = j
      BY <1>2, <2>2
    <3>2. ren2[j - k].wp
      BY <1>2, <1>7, <3>1
    <3>3. Mispredict(comp) = 0 /\ d = Dispatched
      BY <3>1 DEF d, Joining
    <3>4. CASE InRob
      <4>1. PICK i \in 1..Len(rob) : Unresolved(rob[i])
        BY <3>4 DEF InRob
      <4>2. i - c \in 1..k /\ Unresolved(q[i - c])
        BY <1>4, <3>3, <4>1
      <4>3. i - c \in 1..(j - 1)
        BY <1>2, <2>2, <4>2
      <4> QED
        BY <4>2, <4>3
    <3>5. CASE \E i \in 1..(j - k - 1) : Unresolved(ren2[i])
      <4>1. PICK i \in 1..(j - k - 1) : Unresolved(ren2[i])
        BY <3>5
      <4>2. i \in 1..Dispatched /\ k + i \in 1..(j - 1)
        BY <1>2, <1>3, <3>1, <3>3, <4>1
      <4>3. Unresolved(q[k + i])
        BY <1>6, <3>3, <4>1, <4>2
      <4> QED
        BY <4>2, <4>3
    <3>6. j - k \in 1..Len(ren2)
      BY <1>2, <1>3, <3>1
    <3> QED
      BY <3>2, <3>4, <3>5, <3>6 DEF WrongPath
  <2> QED
    BY <1>2, <2>1, <2>2
<1> DEFINE Behind ==
             /\ \A j \in 1..Len(ren2') :
                   ren2'[j].wp => InRob' \/ \E i \in 1..(j - 1) : Unresolved(ren2'[i])
             /\ fetch'.wp => InRob' \/ InRen2'
<1>8. Behind
  <2>1. CASE ren2' = <<>> /\ ~fetch'.wp
    BY <2>1
  <2>2. ASSUME Mispredict(comp) = 0, fetch'.wp = (fetch.wp \/ mis),
               Dispatched = Len(ren2), n > 0, Len(ren2') = n,
               \A j \in 1..n : /\ ren2'[j].st = "wait" /\ ren2'[j].wp = fetch.wp
                               /\ ren2'[j].mis = (mis /\ j = n)
        PROVE  Behind
    <3>1. fetch.wp => InRob'
      <4>1. CASE InRob
        BY <1>5, <2>2, <4>1
      <4>2. ASSUME InRen2 PROVE InRob'
        <5>1. PICK i \in 1..Len(ren2) : Unresolved(ren2[i])
          BY <4>2 DEF InRen2
        <5> QED
          BY <1>6, <2>2, <5>1
      <4> QED
        BY <4>1, <4>2 DEF WrongPath
    <3>2. mis => InRen2'
      <4>1. ASSUME mis PROVE n \in 1..Len(ren2') /\ Unresolved(ren2'[n])
        <5>1. n \in 1..n /\ 1..n = 1..Len(ren2')
          BY <1>1, <2>2
        <5>2. ren2'[n].mis = (mis /\ n = n) /\ ren2'[n].st = "wait"
          BY <2>2, <5>1
        <5>3. ren2'[n].mis
          BY <4>1, <5>2
        <5> QED
          BY <5>1, <5>2, <5>3 DEF Unresolved
      <4> QED
        BY <4>1 DEF InRen2, Unresolved
    <3> QED
      BY <2>2, <3>1, <3>2
  <2>3. ASSUME Mispredict(comp) = 0, fetch'.wp = (fetch.wp \/ mis), ~mis,
               Len(ren2') = Len(ren2) - Dispatched,
               \A j \in 1..Len(ren2') : ren2'[j] = ren2[j + Dispatched]
        PROVE  Behind
    <3>1. ASSUME NEW i \in 1..Len(ren2), Unresolved(ren2[i])
          PROVE  InRob' \/ (i - Dispatched \in 1..Len(ren2') /\ Unresolved(ren2'[i - Dispatched]))
      <4>1. CASE i <= Dispatched
        BY <1>3, <1>6, <2>3, <3>1, <4>1
      <4>2. CASE i > Dispatched
        <5>1. i - Dispatched \in 1..Len(ren2') /\ (i - Dispatched) + Dispatched = i
          BY <1>3, <2>3, <4>2
        <5> QED
          BY <2>3, <3>1, <5>1
      <4> QED
        BY <1>3, <4>1, <4>2
    <3>2. ASSUME NEW j \in 1..Len(ren2'), ren2'[j].wp
          PROVE  InRob' \/ \E i \in 1..(j - 1) : Unresolved(ren2'[i])
      <4>1. j + Dispatched \in 1..Len(ren2) /\ ren2[j + Dispatched].wp
        BY <1>3, <2>3, <3>2
      <4>2. CASE InRob
        BY <1>5, <2>3, <4>2
      <4>3. ASSUME NEW i \in 1..(j + Dispatched - 1), Unresolved(ren2[i])
            PROVE  InRob' \/ \E m \in 1..(j - 1) : Unresolved(ren2'[m])
        <5>1. i \in 1..Len(ren2)
          BY <1>3, <4>1, <4>3
        <5>2. i - Dispatched \in 1..Len(ren2') => i - Dispatched \in 1..(j - 1)
          BY <1>3, <4>3
        <5> QED
          BY <3>1, <4>3, <5>1, <5>2
      <4>4. \A m \in 1..Len(ren2) :
               ren2[m].wp => InRob \/ \E i \in 1..(m - 1) : Unresolved(ren2[i])
        BY DEF WrongPath
      <4>5. InRob \/ \E i \in 1..(j + Dispatched - 1) : Unresolved(ren2[i])
        <5>1. PICK m : m = j + Dispatched
          OBVIOUS
        <5>2. InRob \/ \E i \in 1..(m - 1) : Unresolved(ren2[i])
          BY <4>1, <4>4, <5>1
        <5>3. ASSUME NEW l \in 1..(m - 1) PROVE l \in 1..(j + Dispatched - 1)
          BY <1>3, <4>1, <5>1
        <5> QED
          BY <5>2, <5>3
      <4> QED
        BY <4>2, <4>3, <4>5
    <3>3. ASSUME fetch'.wp PROVE InRob' \/ InRen2'
      <4>1. InRob \/ InRen2
        BY <2>3, <3>3 DEF WrongPath
      <4>2. CASE InRob
        BY <1>5, <2>3, <4>2
      <4>3. ASSUME InRen2 PROVE InRob' \/ InRen2'
        <5>1. PICK i \in 1..Len(ren2) : Unresolved(ren2[i])
          BY <4>3 DEF InRen2
        <5>2. InRob' \/ (i - Dispatched \in 1..Len(ren2') /\ Unresolved(ren2'[i - Dispatched]))
          BY <3>1, <5>1
        <5> QED
          BY <5>2 DEF InRen2, Unresolved
      <4> QED
        BY <4>1, <4>2, <4>3
    <3> QED
      BY <3>2, <3>3
  <2> QED
    BY ForwardIs, <2>1, <2>2, <2>3
<1> QED
  BY <1>1, <1>7, <1>8 DEF WrongPath, Unresolved

\* A unique uop stays alone, and the ROB closed, until it is gone.
LEMMA AloneStep ==
    ASSUME TypeOK, Alone, Fresh, rstate # "rollback",
           NEW c, NEW n, NEW ks, NEW irq, NEW mis, NEW comp, NEW flt, NEW ev, NEW rbk,
           Clocked(c, n, ks, irq, mis, comp, flt, ev, rbk)
    PROVE  Alone'
<1> DEFINE q == RobAfter(c, comp, flt, rbk)
           k == Upto(comp) - c
           d == Joining(comp)
           exe == Executed(comp, flt)
<1>1. /\ c \in CommitCounts /\ comp \subseteq Finishing /\ flt \subseteq Loads /\ rob' = q
      /\ rstate' = RobStateAfter(Mispredict(comp), rbk)
  BY ForwardIs DEF Clocked, Cycle
<1>2. /\ k \in Nat /\ d \in Nat /\ Len(q) = k + d /\ c \in Nat /\ Len(rob) \in Nat
      /\ Upto(comp) \in 0..Len(rob)
      /\ \A j \in 1..k : j + c \in 1..Len(rob) /\ q[j] = exe[j + c]
      /\ \A j \in 1..d : q[k + j] = ren2[j]
  <2>1. c \in 0..Upto(comp) /\ Upto(comp) \in 0..Len(rob) /\ d \in 0..Len(ren2)
    BY <1>1, CommitsBefore
  <2>2. c \in Nat /\ d \in Nat /\ Len(rob) \in Nat
    BY <2>1, LengthsAre
  <2>3. Follows(q, k, d, c, exe)
    BY <1>1, RobAfterIs
  <2> HIDE DEF q, k, d, exe
  <2> QED
    BY <2>1, <2>2, <2>3 DEF Follows
<1>3. /\ d \in 0..Len(ren2) /\ Len(ren2) \in Nat /\ Dispatched \in 0..Len(ren2)
      /\ d # 0 => d = Dispatched /\ Mispredict(comp) = 0
  <2>1. d \in 0..Len(ren2)
    BY <1>1, CommitsBefore
  <2> QED
    BY <2>1, DispatchIs, LengthsAre DEF Joining
<1> SUFFICES ASSUME NEW j \in 1..Len(q), IsUnique(q[j])
             PROVE  /\ Len(q) = 1 /\ rstate' # "normal"
                    /\ q[j].st # "wait" => q[j].exc = None
  BY <1>1 DEF Alone, IsUnique
<1>4. CASE j <= k
  <2>1. j + c \in 1..Len(rob) /\ q[j] = exe[j + c]
    <3>1. j \in 1..k
      <4>1. k \in Nat /\ d \in Nat /\ Len(q) = k + d
        BY <1>2
      <4> HIDE DEF q, k, d
      <4> QED
        BY <1>4, <4>1
    <3> HIDE DEF q, k, exe
    <3> QED
      BY <1>2, <3>1
  <2>2. IsUnique(rob[j + c])
    BY <1>1, <2>1, ExecutedIs DEF IsUnique
  <2>3. /\ Len(rob) = 1 /\ rstate # "normal"
        /\ rob[j + c].st # "wait" => rob[j + c].exc = None
    BY <2>1, <2>2 DEF Alone
  <2>4. j = 1 /\ c = 0 /\ rob # <<>>
    <3>1. rob # <<>>
      <4>1. Len(<<>>) # 1
        OBVIOUS
      <4> QED
        BY <2>3, <4>1, Zenon
    <3>2. j \in Nat /\ j >= 1
      BY <1>2
    <3> QED
      BY <1>2, <2>1, <2>3, <3>1, <3>2
  <2>5. Len(q) = 1
    <3>1. d = 0
      BY <1>3, <2>3, DispatchIs
    <3>2. k <= 1
      BY <1>2, <2>3
    <3> QED
      BY <1>2, <1>4, <2>4, <3>1, <3>2
  <2>6. rstate' # "normal"
    <3>1. rstate = "wait"
      BY <2>3 DEF TypeOK
    <3> QED
      BY <1>1, <2>4, <3>1 DEF RobStateAfter
  <2>7. q[j].st # "wait" => q[j].exc = None
    <3>1. CASE j + c \in comp
      BY <1>1, <2>1, <2>2, <3>1, ExecutedIs
    <3>2. CASE j + c \notin comp
      <4>1. q[j] = rob[j + c]
        BY <1>1, <2>1, <3>2, ExecutedIs
      <4> QED
        BY <2>3, <4>1
    <3> QED
      BY <3>1, <3>2
  <2> QED
    BY <2>5, <2>6, <2>7
<1>5. CASE j > k
  <2>1. j - k \in 1..d /\ k + (j - k) = j
    <3>1. k \in Nat /\ d \in Nat /\ Len(q) = k + d
      BY <1>2
    <3> HIDE DEF q, k, d
    <3> QED
      BY <1>5, <3>1
  <2>2. q[j] = ren2[j - k] /\ d = Dispatched /\ Mispredict(comp) = 0
    <3>1. q[k + (j - k)] = ren2[j - k]
      BY <1>2, <2>1
    <3>2. d # 0
      BY <1>2, <2>1
    <3> QED
      BY <1>3, <2>1, <3>1, <3>2
  <2>3. IsUnique(ren2[j - k])
    BY <2>2
  <2>4. rob = <<>> /\ Dispatched = 1 /\ rstate = "normal"
    BY <2>1, <2>2, <2>3, DispatchIs
  <2>5. j - k = 1
    BY <2>1, <2>2, <2>4
  <2>6. Len(q) = 1
    <3>1. Len(rob) = 0
      BY <2>4
    <3>2. k = 0
      BY <1>2, <3>1
    <3> QED
      BY <1>2, <2>2, <2>4, <3>2
  <2>7. rstate' # "normal"
    <3>1. ~Throws
      BY <2>4 DEF Throws
    <3>2. Dispatched > 0 /\ IsUnique(ren2[Dispatched])
      BY <2>3, <2>4, <2>5
    <3> QED
      BY <1>1, <2>2, <2>4, <3>1, <3>2 DEF RobStateAfter
  <2>8. q[j].st = "wait"
    BY <1>3, <2>1, <2>2 DEF Fresh
  <2> QED
    BY <2>6, <2>7, <2>8
<1> QED
  BY <1>2, <1>4, <1>5

\* What a cycle fetched has not begun, and what follows a rollback is squashed.
LEMMA FreshSquashedStep ==
    ASSUME TypeOK, Fresh, Squashed,
           NEW c, NEW n, NEW ks, NEW irq, NEW mis, NEW comp, NEW flt, NEW ev, NEW rbk,
           Clocked(c, n, ks, irq, mis, comp, flt, ev, rbk)
    PROVE  Fresh' /\ Squashed'
<1>1. CASE rstate = "rollback"
  <2>1. ren2' = <<>> /\ ~fetch'.wp
    BY <1>1, RollbackIs
  <2> QED
    BY <2>1 DEF Fresh, Squashed
<1>2. CASE rstate # "rollback"
  <2>1. Fresh'
    <3>1. \A j \in 1..Len(ren2') : ren2'[j].st = "wait"
      <4>1. CASE ren2' = <<>>
        BY <4>1
      <4>2. CASE \A j \in 1..Len(ren2') : ren2'[j].st = "wait"
        BY <4>2
      <4>3. ASSUME Len(ren2') = Len(ren2) - Dispatched,
                   \A j \in 1..Len(ren2') : ren2'[j] = ren2[j + Dispatched],
                   NEW j \in 1..Len(ren2')
            PROVE  ren2'[j].st = "wait"
        <5>1. Dispatched \in 0..Len(ren2) /\ Len(ren2) \in Nat
          BY DispatchIs DEF TypeOK
        <5>2. j + Dispatched \in 1..Len(ren2)
          BY <4>3, <5>1
        <5> QED
          BY <4>3, <5>2 DEF Fresh
      <4> QED
        BY <1>2, ForwardIs, <4>1, <4>2, <4>3
    <3> QED
      BY <3>1 DEF Fresh
  <2>2. Squashed'
    <3>1. rstate' = RobStateAfter(Mispredict(comp), rbk) /\ flushD' = Flush(c)
      BY DEF Clocked, Cycle
    <3>2. rstate' = "rollback" => Throws
      BY <1>2, <3>1 DEF RobStateAfter
    <3>3. Throws => flushD'.t = "xcpt"
      BY <3>1 DEF Flush
    <3> QED
      BY <3>2, <3>3 DEF Squashed
  <2> QED
    BY <2>1, <2>2
<1> QED
  BY <1>1, <1>2

-----------------------------------------------------------------------------
\* Reset satisfies the inductive invariant.
LEMMA InitIInv == Init => IInv
<1> SUFFICES ASSUME Init PROVE IInv
  OBVIOUS
<1>1. TypeOK
  BY DEF Init, TypeOK, Regs, Causes, NoXcpt, NoFlush, None
<1>2. WrongPath /\ Squashed /\ Fresh /\ Alone
  BY DEF Init, WrongPath, Squashed, Fresh, Alone
<1> QED
  BY <1>1, <1>2 DEF IInv

\* A clock cycle keeps it, whatever its choices.
LEMMA CycleIInv ==
    ASSUME IInv, NEW c, NEW n, NEW ks, NEW irq, NEW mis, NEW comp, NEW flt, NEW ev, NEW rbk,
           Clocked(c, n, ks, irq, mis, comp, flt, ev, rbk)
    PROVE  IInv'
<1> USE DEF IInv
<1>1. TypeOK'
  BY TypeOKStep
<1>2. Fresh' /\ Squashed'
  BY FreshSquashedStep
<1>3. CASE rstate = "rollback"
  <2>1. /\ rob' = <<>> \/ (rob' = rob /\ rstate' = rstate)
        /\ ren2' = <<>> /\ ~fetch'.wp
    BY <1>3, RollbackIs
  <2>2. WrongPath'
    BY <2>1 DEF WrongPath, Unresolved
  <2>3. Alone'
    BY <1>3, <2>1 DEF Alone, IsUnique
  <2> QED
    BY <1>1, <1>2, <2>2, <2>3
<1>4. CASE rstate # "rollback"
  BY <1>1, <1>2, <1>4, WrongPathStep, AloneStep
<1> QED
  BY <1>3, <1>4

\* Every step of the specification keeps it.
LEMMA NextIInv == IInv /\ [Next]_vars => IInv'
<1> SUFFICES ASSUME IInv, [Next]_vars PROVE IInv'
  OBVIOUS
<1>1. CASE Next
  <2>1. PICK c \in 0..CoreWidth, n \in 0..CoreWidth, ks \in {"kern", "sret"}, irq \in BOOLEAN,
             mis \in BOOLEAN, rbk \in BOOLEAN, comp \in SUBSET Finishing, flt \in SUBSET Loads,
             ev \in 0..1 : Clocked(c, n, ks, irq, mis, comp, flt, ev, rbk)
    BY <1>1 DEF Next, Clocked
  <2> QED
    BY <2>1, CycleIInv
<1>2. CASE UNCHANGED vars
  BY <1>2 DEF vars, IInv, TypeOK, WrongPath, InRob, InRen2, Squashed, Fresh, Alone,
              Unresolved, IsUnique
<1> QED
  BY <1>1, <1>2

\* The ROB, the queue before it and the frontend keep their shape in every cycle
\* (rob.scala 403-482 and 809-839, core.scala 962-996): the inductive invariant.
THEOREM Invariance == Spec => []IInv
<1> QED
  BY InitIInv, NextIInv, PTL DEF Spec

\* What writes a sampling register, traps or returns has begun only on the right
\* path, without an exception and with nothing older in flight
\* (core.scala 1279-1281, 1392-1422), for every program, width and ROB size.
THEOREM NotSpeculativeHolds == Spec => []NotSpeculative
<1>1. IInv => NotSpeculative
  <2> SUFFICES ASSUME IInv, NEW j \in 1..Len(rob), rob[j].st # "wait", IsUnique(rob[j])
               PROVE  j = 1 /\ ~rob[j].wp /\ rob[j].exc = None
    BY DEF NotSpeculative
  <2>1. Len(rob) = 1 /\ rob[j].exc = None
    BY DEF IInv, Alone
  <2>2. j = 1
    BY <2>1
  <2>3. rob[j].wp => \E i \in 1..(j - 1) : Unresolved(rob[i])
    BY DEF IInv, WrongPath
  <2> QED
    BY <2>1, <2>2, <2>3
<1> QED
  BY <1>1, Invariance, PTL
-----------------------------------------------------------------------------
(* The phases of a core that runs a program and its kernel.                *)

AllUser(q)   == \A j \in 1..Len(q) : q[j].pc # 0 /\ q[j].i \in UserInsts
AllKernel(q) == \A j \in 1..Len(q) : /\ q[j].pc = 0 /\ q[j].i.k \in {"kern", "sret"}
                                     /\ q[j].exc = None /\ ~q[j].mis
\* No instruction of this kind has begun.
Waits(k) == \A j \in 1..Len(rob) : rob[j].i.k = k => rob[j].st = "wait"
\* One of this kind is alone in the ROB and commits now.
Completes(k) == /\ Len(rob) = 1 /\ rob[1].i.k = k /\ rob[1].st = "done" /\ rob[1].exc = None
                /\ rstate = "wait" /\ xcptD.cause = None /\ flushD.t = "none"
\* Its redirect.
Redirects == rob = <<>> /\ rstate = "wait" /\ xcptD.cause = None /\ flushD.t = "eret"

\* The program runs; in its last cycle, a trap or sample may be on its way.
UserPhase ==
    /\ IsUserMode /\ AllUser(rob) /\ AllUser(ren2) /\ fetch.pc # 0 /\ Waits("ecall")
    /\ flushD.t # "eret" /\ (flushD.t = "uret" => flushD.pc # 0)
    /\ xcptD.cause # None <=> flushD.t = "xcpt"
    /\ xcptD.cause # None => xcptD.pc # 0 /\ rstate = "rollback" /\ commD = 0

\* The kernel runs, once the uops of the program have been rolled back.
KernelPhase ==
    /\ cpu.prv = 1 /\ cpu.epc # 0 /\ xcptD.cause = None /\ flushD.t = "none"
    /\ AllKernel(ren2) /\ fetch.pc = 0
    /\ rstate # "rollback" => AllKernel(rob) /\ Waits("sret")

\* The cycles between the start of an ecall or sret and its redirect.
Calling   == cpu.prv = 1 /\ cpu.epc # 0 /\ Completes("ecall")
Called    == cpu.prv = 1 /\ cpu.epc # 0 /\ Redirects /\ flushD.pc = 0
Returning == cpu.prv = 0 /\ cpu.d1 = 1 /\ cpu.epc # 0 /\ Completes("sret")
Returned  == cpu.prv = 0 /\ cpu.d1 = 0 /\ cpu.d2 = 1 /\ Redirects /\ flushD.pc # 0

Phases == UserPhase \/ KernelPhase \/ Calling \/ Called \/ Returning \/ Returned

\* The counter and the instruction counted by the history are together.
Counter == EventSel = 0 => ur.now + (IF SampleValid THEN commD ELSE 0) = ucount

CInv == IInv /\ Phases /\ ucount \in Nat /\ Counter

-----------------------------------------------------------------------------
\* Where a uop of the ROB comes from.
LEMMA RobOriginIs ==
    ASSUME TypeOK, rstate # "rollback",
           NEW c, NEW n, NEW ks, NEW irq, NEW mis, NEW comp, NEW flt, NEW ev, NEW rbk,
           Clocked(c, n, ks, irq, mis, comp, flt, ev, rbk), NEW j \in 1..Len(rob')
    PROVE  \/ \E i \in 1..Len(rob) : rob'[j] = Executed(comp, flt)[i]
           \/ \E i \in 1..Dispatched : rob'[j] = ren2[i]
<1>0. /\ c \in CommitCounts /\ comp \subseteq Finishing /\ flt \subseteq Loads
      /\ rob' = RobAfter(c, comp, flt, rbk) /\ n \in Nat /\ ks \in {"kern", "sret"}
      /\ irq \in BOOLEAN /\ mis \in BOOLEAN /\ Decodable(n, ks, mis)
      /\ Len(rob) \in Nat /\ Len(ren2) \in Nat
  BY LengthsAre, CoreAssumption DEF Clocked, Cycle
<1> DEFINE k == Upto(comp) - c
           d == Joining(comp)
<1>1. Follows(rob', k, d, c, Executed(comp, flt))
  BY <1>0, RobAfterIs
<1>2. d \in 0..Len(ren2) /\ (d = Dispatched \/ d = 0) /\ Dispatched \in 0..Len(ren2)
  BY <1>0, CommitsBefore, DispatchIs DEF Joining
<1> HIDE DEF k, d
<1>3. \/ \E i \in 1..Len(rob) : rob'[j] = Executed(comp, flt)[i]
      \/ \E i \in 1..Dispatched : rob'[j] = ren2[i]
  <2>1. k \in Nat /\ Len(rob') = k + d
    BY <1>1 DEF Follows
  <2>2. CASE j \in 1..k
    BY <1>1, <2>2 DEF Follows
  <2>3. CASE j \notin 1..k
    <3>1. j - k \in 1..d /\ k + (j - k) = j
      BY <1>2, <2>1, <2>3
    <3>2. rob'[j] = ren2[j - k]
      BY <1>1, <3>1 DEF Follows
    <3>3. j - k \in 1..Dispatched
      BY <1>2, <3>1, <1>0
    <3> QED
      BY <3>2, <3>3
  <2> QED
    BY <2>2, <2>3
<1> QED
  BY <1>3

\* Where a uop of ren2 comes from.
LEMMA Ren2OriginIs ==
    ASSUME TypeOK, rstate # "rollback",
           NEW c, NEW n, NEW ks, NEW irq, NEW mis, NEW comp, NEW flt, NEW ev, NEW rbk,
           Clocked(c, n, ks, irq, mis, comp, flt, ev, rbk), NEW j \in 1..Len(ren2')
    PROVE  \/ \E i \in 1..Len(ren2) : ren2'[j] = ren2[i]
           \/ /\ n > 0 /\ ~Redirecting
              /\ ren2'[j].exc = DecodeXcpt(irq) /\ (ren2'[j].mis => mis)
              /\ fetch.pc # 0 => ren2'[j].pc # 0 /\ ren2'[j].i \in UserInsts
              /\ fetch.pc = 0 => ren2'[j].pc = 0 /\ ren2'[j].i = [k |-> ks]
<1>0. /\ c \in CommitCounts /\ comp \subseteq Finishing /\ flt \subseteq Loads
      /\ rob' = RobAfter(c, comp, flt, rbk) /\ n \in Nat /\ ks \in {"kern", "sret"}
      /\ irq \in BOOLEAN /\ mis \in BOOLEAN /\ Decodable(n, ks, mis)
      /\ Len(rob) \in Nat /\ Len(ren2) \in Nat
  BY LengthsAre, CoreAssumption DEF Clocked, Cycle
<1>1. ~Redirecting /\ Mispredict(comp) = 0
  <2>1. ren2' # <<>>
    <3>1. ren2' = <<>> => Len(ren2') = 0
      OBVIOUS
    <3> QED
      BY <3>1
  <2> QED
    BY <2>1, Ren2Is
<1>2. CASE n > 0
  <2>1. ren2' = Bundle(n, ks, irq, mis)
    BY <1>2, Ren2Is
  <2>2. Fetchable(n)
    BY <1>0 DEF Decodable
  <2>3. Len(ren2') = n
    BY <1>0, <2>1, <2>2, BundleIs
  <2> QED
    BY <1>0, <1>1, <1>2, <2>1, <2>2, <2>3, BundleIs
<1>3. CASE n = 0
  <2>1. ren2' = SubSeq(ren2, Dispatched + 1, Len(ren2))
    BY <1>1, <1>3, Ren2Is
  <2>2. Dispatched \in 0..Len(ren2) /\ ren2 \in Seq(Uops)
    BY DispatchIs DEF TypeOK
  <2>3. /\ Len(ren2') = Len(ren2) - Dispatched
        /\ \A i \in 1..(Len(ren2) - Dispatched) : ren2'[i] = ren2[i + Dispatched]
    BY <1>0, <2>1, <2>2, SubSeqIs
  <2>4. j + Dispatched \in 1..Len(ren2)
    BY <1>0, <2>2, <2>3
  <2> QED
    BY <2>3, <2>4
<1> QED
  BY <1>0, <1>2, <1>3

\* What is decoded is marked when a sample is due.
LEMMA Ren2ExcIs ==
    ASSUME TypeOK, rstate # "rollback",
           NEW c, NEW n, NEW ks, NEW irq, NEW mis, NEW comp, NEW flt, NEW ev, NEW rbk,
           Clocked(c, n, ks, irq, mis, comp, flt, ev, rbk), NEW j \in 1..Len(ren2')
    PROVE  (\E i \in 1..Len(ren2) : ren2'[j] = ren2[i]) \/ ren2'[j].exc = DecodeXcpt(irq)
  BY Ren2OriginIs

-----------------------------------------------------------------------------
\* The choices of a cycle, the registers after it and the history.
LEMMA ChoicesAre ==
    ASSUME NEW c, NEW n, NEW ks, NEW irq, NEW mis, NEW comp, NEW flt, NEW ev, NEW rbk,
           Clocked(c, n, ks, irq, mis, comp, flt, ev, rbk)
    PROVE  /\ c \in CommitCounts /\ c \in Nat /\ c <= CoreWidth
           /\ n \in Nat /\ n <= CoreWidth /\ ks \in {"kern", "sret"}
           /\ irq \in BOOLEAN /\ mis \in BOOLEAN /\ ev \in 0..1
           /\ comp \subseteq Finishing /\ flt \subseteq Loads
           /\ Decodable(n, ks, mis) /\ (irq => cpu.prv = 0 /\ n > 0)
  BY CoreAssumption DEF Clocked, Cycle

\* The next value of the registers and of the ROB.
LEMMA RegistersAre ==
    ASSUME NEW c, NEW n, NEW ks, NEW irq, NEW mis, NEW comp, NEW flt, NEW ev, NEW rbk,
           Clocked(c, n, ks, irq, mis, comp, flt, ev, rbk)
    PROVE  /\ prog' = prog /\ ur' = RegsAfter(comp, ev) /\ cpu' = CpuAfter(comp) /\ commD' = c
           /\ rob' = RobAfter(c, comp, flt, rbk)
           /\ rstate' = RobStateAfter(Mispredict(comp), rbk)
           /\ xcptD' = (IF Throws THEN [cause |-> rob[1].exc, pc |-> rob[1].pc] ELSE NoXcpt)
           /\ flushD' = Flush(c)
  BY DEF Clocked, Cycle

\* Where fetch goes on: a redirect, the other side of a branch, or the next pc.
LEMMA FetchIs ==
    ASSUME NEW c, NEW n, NEW ks, NEW irq, NEW mis, NEW comp, NEW flt, NEW ev, NEW rbk,
           Clocked(c, n, ks, irq, mis, comp, flt, ev, rbk)
    PROVE  fetch'.pc = IF Redirecting THEN RedirectPC
                       ELSE IF Mispredict(comp) # 0 THEN rob[Mispredict(comp)].pc + 1
                       ELSE NextPC(IF mis THEN n + 1 ELSE n)
<1>1. fetch' = CASE Redirecting -> [pc |-> RedirectPC, wp |-> FALSE]
                 [] ~Redirecting /\ Mispredict(comp) # 0
                       -> [pc |-> rob[Mispredict(comp)].pc + 1, wp |-> FALSE]
                 [] OTHER -> [pc |-> NextPC(IF mis THEN n + 1 ELSE n), wp |-> fetch.wp \/ mis]
  BY DEF Clocked, Cycle
<1>2. CASE Redirecting
  BY <1>1, <1>2
<1>3. CASE ~Redirecting /\ Mispredict(comp) # 0
  BY <1>1, <1>3
<1>4. CASE ~Redirecting /\ Mispredict(comp) = 0
  <2>1. fetch' = [pc |-> NextPC(IF mis THEN n + 1 ELSE n), wp |-> fetch.wp \/ mis]
    BY <1>1, <1>4
  <2> QED
    BY <1>4, <2>1
<1> QED
  BY <1>2, <1>3, <1>4

Armed == ur.tag = Target /\ ur.max # 0 /\ ur.warm = 0

\* The history variable counts the commits while the sampling is armed.
LEMMA HistoryIs ==
    ASSUME NEW c, NEW n, NEW ks, NEW irq, NEW mis, NEW comp, NEW flt, NEW ev, NEW rbk,
           Clocked(c, n, ks, irq, mis, comp, flt, ev, rbk)
    PROVE  ucount' = (IF Zeroes(comp) THEN 0 ELSE ucount)
                     + (IF Armed' THEN Cardinality({j \in 1..c : Counts(rob[j])}) ELSE 0)
  BY DEF Clocked, Cycle, Armed

\* Nothing begins in a cycle in which nothing can make progress.
LEMMA IdleIs ==
    ASSUME NEW comp, comp = {}
    PROVE  Mispredict(comp) = 0 /\ \A k : Starts(comp, k) = {}
  BY DEF Mispredict, Starts

\* Without trap, ecall and sret the privilege mode only moves through its delays.
LEMMA CpuShifts ==
    ASSUME NEW comp, ~TrapTaken, Starts(comp, "ecall") = {}, Starts(comp, "sret") = {}
    PROVE  CpuAfter(comp) = [cpu EXCEPT !.d1 = cpu.prv, !.d2 = cpu.d1]
  BY Zenon DEF CpuAfter

\* The cycle after an ecall or sret has begun: it commits.
LEMMA CompletesStep ==
    ASSUME TypeOK, NEW k, Completes(k),
           NEW c, NEW n, NEW ks, NEW irq, NEW mis, NEW comp, NEW flt, NEW ev, NEW rbk,
           Clocked(c, n, ks, irq, mis, comp, flt, ev, rbk)
    PROVE  /\ comp = {} /\ c = 1 /\ rob' = <<>> /\ rstate' = "wait"
           /\ xcptD'.cause = None /\ flushD' = FlushOf(rob[1])
           /\ cpu' = [cpu EXCEPT !.d1 = cpu.prv, !.d2 = cpu.d1]
<1> USE DEF Completes
<1>1. comp = {}
  <2>1. comp \subseteq Waiting
    BY ChoicesAre DEF Finishing
  <2>2. \A j \in 1..Len(rob) : j = 1
    OBVIOUS
  <2> QED
    BY <2>1, <2>2 DEF Waiting
<1>2. Mispredict(comp) = 0 /\ \A l : Starts(comp, l) = {}
  BY <1>1, IdleIs
<1>3. c = 1
  <2>1. c \in CommitCounts /\ c \in Nat
    BY ChoicesAre
  <2>2. CommitReady(1)
    BY DEF CommitReady
  <2> QED
    BY <2>1, <2>2 DEF CommitCounts, CommitReady
<1>4. rob # <<>> /\ ~Throws
  <2>1. rob = <<>> => Len(rob) = 0
    OBVIOUS
  <2> QED
    BY <2>1 DEF Throws
<1>5. rob' = <<>>
  <2>1. Follows(rob', Upto(comp) - c, Joining(comp), c, Executed(comp, flt))
    BY ChoicesAre, RegistersAre, RobAfterIs
  <2>2. Upto(comp) = 1 /\ Joining(comp) = 0
    BY <1>2, DispatchIs DEF Upto, Joining
  <2>3. rob' \in Seq(Uops) /\ Len(rob') = 0
    BY <1>3, <2>1, <2>2 DEF Follows
  <2> QED
    BY <2>3
<1>6. rstate' = "wait"
  BY <1>2, <1>4, RegistersAre DEF RobStateAfter
<1>7. xcptD'.cause = None /\ flushD' = FlushOf(rob[1])
  BY <1>3, <1>4, RegistersAre DEF Flush, NoXcpt
<1>8. cpu' = [cpu EXCEPT !.d1 = cpu.prv, !.d2 = cpu.d1]
  <2>1. ~TrapTaken /\ Starts(comp, "ecall") = {} /\ Starts(comp, "sret") = {}
    BY <1>2 DEF TrapTaken
  <2> QED
    BY <2>1, RegistersAre, CpuShifts
<1> QED
  BY <1>1, <1>3, <1>5, <1>6, <1>7, <1>8

\* The cycle of its redirect.
LEMMA RedirectsStep ==
    ASSUME TypeOK, Redirects,
           NEW c, NEW n, NEW ks, NEW irq, NEW mis, NEW comp, NEW flt, NEW ev, NEW rbk,
           Clocked(c, n, ks, irq, mis, comp, flt, ev, rbk)
    PROVE  /\ comp = {} /\ c = 0 /\ rob' = <<>> /\ ren2' = <<>> /\ fetch'.pc = flushD.pc
           /\ xcptD'.cause = None /\ flushD'.t = "none"
           /\ cpu' = [cpu EXCEPT !.d1 = cpu.prv, !.d2 = cpu.d1]
<1> USE DEF Redirects
<1>1. comp = {}
  BY ChoicesAre DEF Finishing, Waiting
<1>2. Mispredict(comp) = 0 /\ \A l : Starts(comp, l) = {}
  BY <1>1, IdleIs
<1>3. c = 0
  <2>1. c \in CommitCounts /\ c \in Nat
    BY ChoicesAre
  <2> QED
    BY <2>1 DEF CommitCounts, CommitReady
<1>4. ~Throws /\ Redirecting
  BY DEF Throws, Redirecting
<1>5. rob' = <<>>
  <2>1. Follows(rob', Upto(comp) - c, Joining(comp), c, Executed(comp, flt))
    BY ChoicesAre, RegistersAre, RobAfterIs
  <2>2. Upto(comp) = 0 /\ Joining(comp) = 0
    BY <1>2, DispatchIs DEF Upto, Joining
  <2>3. rob' \in Seq(Uops) /\ Len(rob') = 0
    BY <1>3, <2>1, <2>2 DEF Follows
  <2> QED
    BY <2>3
<1>6. ren2' = <<>> /\ fetch'.pc = flushD.pc
  BY <1>4, Ren2Is, FetchIs DEF RedirectPC
<1>7. xcptD'.cause = None /\ flushD'.t = "none"
  BY <1>3, <1>4, RegistersAre DEF Flush, NoXcpt, NoFlush
<1>8. cpu' = [cpu EXCEPT !.d1 = cpu.prv, !.d2 = cpu.d1]
  <2>1. ~TrapTaken /\ Starts(comp, "ecall") = {} /\ Starts(comp, "sret") = {}
    BY <1>2 DEF TrapTaken
  <2> QED
    BY <2>1, RegistersAre, CpuShifts
<1> QED
  BY <1>1, <1>3, <1>5, <1>6, <1>7, <1>8

\* An ecall or sret that has begun is carried through.
LEMMA CallStep ==
    ASSUME TypeOK, Calling \/ Called \/ Returning \/ Returned,
           NEW c, NEW n, NEW ks, NEW irq, NEW mis, NEW comp, NEW flt, NEW ev, NEW rbk,
           Clocked(c, n, ks, irq, mis, comp, flt, ev, rbk)
    PROVE  /\ Phases' /\ comp = {}
           /\ \A j \in 1..c : rob[j].i.k \in {"ecall", "sret"}
           /\ IsUserMode' => c = 0 /\ rob' = <<>> /\ ren2' = <<>>
<1>0. cpu \in [prv : {0, 1}, d1 : {0, 1}, d2 : {0, 1}, epc : Nat, cause : Causes \cup {"ecall"}]
  BY DEF TypeOK
<1>1. CASE Calling
  <2>1. /\ comp = {} /\ c = 1 /\ rob' = <<>> /\ rstate' = "wait" /\ xcptD'.cause = None
        /\ flushD' = FlushOf(rob[1]) /\ cpu' = [cpu EXCEPT !.d1 = cpu.prv, !.d2 = cpu.d1]
    BY <1>1, CompletesStep DEF Calling
  <2>2. cpu'.prv = 1 /\ cpu'.epc # 0 /\ ~IsUserMode'
    BY <1>0, <1>1, <2>1 DEF Calling, IsUserMode
  <2>3. flushD'.t = "eret" /\ flushD'.pc = 0 /\ rob[1].i.k = "ecall"
    BY <1>1, <2>1 DEF Calling, Completes, FlushOf
  <2>4. Called'
    BY <2>1, <2>2, <2>3 DEF Called, Redirects
  <2> QED
    BY <2>1, <2>2, <2>3, <2>4 DEF Phases
<1>2. CASE Returning
  <2>1. /\ comp = {} /\ c = 1 /\ rob' = <<>> /\ rstate' = "wait" /\ xcptD'.cause = None
        /\ flushD' = FlushOf(rob[1]) /\ cpu' = [cpu EXCEPT !.d1 = cpu.prv, !.d2 = cpu.d1]
    BY <1>2, CompletesStep DEF Returning
  <2>2. cpu'.prv = 0 /\ cpu'.d1 = 0 /\ cpu'.d2 = 1 /\ ~IsUserMode'
    BY <1>0, <1>2, <2>1 DEF Returning, IsUserMode
  <2>3. flushD'.t = "eret" /\ flushD'.pc # 0 /\ rob[1].i.k = "sret"
    BY <1>2, <2>1 DEF Returning, Completes, FlushOf
  <2>4. Returned'
    BY <2>1, <2>2, <2>3 DEF Returned, Redirects
  <2> QED
    BY <2>1, <2>2, <2>3, <2>4 DEF Phases
<1>3. CASE Called
  <2>1. /\ comp = {} /\ c = 0 /\ rob' = <<>> /\ ren2' = <<>> /\ fetch'.pc = 0
        /\ xcptD'.cause = None /\ flushD'.t = "none"
        /\ cpu' = [cpu EXCEPT !.d1 = cpu.prv, !.d2 = cpu.d1]
    BY <1>3, RedirectsStep DEF Called
  <2>2. cpu'.prv = 1 /\ cpu'.epc # 0 /\ ~IsUserMode'
    BY <1>0, <1>3, <2>1 DEF Called, IsUserMode
  <2>3. KernelPhase'
    BY <2>1, <2>2 DEF KernelPhase, AllKernel, Waits
  <2> QED
    BY <2>1, <2>2, <2>3 DEF Phases
<1>4. CASE Returned
  <2>1. /\ comp = {} /\ c = 0 /\ rob' = <<>> /\ ren2' = <<>> /\ fetch'.pc # 0
        /\ xcptD'.cause = None /\ flushD'.t = "none"
        /\ cpu' = [cpu EXCEPT !.d1 = cpu.prv, !.d2 = cpu.d1]
    BY <1>4, RedirectsStep DEF Returned
  <2>2. IsUserMode'
    BY <1>0, <1>4, <2>1 DEF Returned, IsUserMode
  <2>3. UserPhase'
    BY <2>1, <2>2 DEF UserPhase, AllUser, Waits
  <2> QED
    BY <2>1, <2>2, <2>3 DEF Phases
<1> QED
  BY <1>1, <1>2, <1>3, <1>4

-----------------------------------------------------------------------------
\* What an entry of the ROB keeps.
LEMMA KeepsIs ==
    ASSUME TypeOK, NEW comp, comp \subseteq Finishing, NEW flt, flt \subseteq Loads,
           NEW i \in 1..Len(rob)
    PROVE  /\ Executed(comp, flt)[i].pc = rob[i].pc /\ Executed(comp, flt)[i].i = rob[i].i
           /\ Executed(comp, flt)[i].mis = rob[i].mis
           /\ \/ Executed(comp, flt)[i].exc = rob[i].exc
              \/ rob[i].i.k = "ld" /\ Executed(comp, flt)[i].exc = "fault"
           /\ i \notin comp => Executed(comp, flt)[i] = rob[i]
  BY ExecutedIs

\* A rollback, whatever the phase: nothing begins or commits.
LEMMA RollbackStep ==
    ASSUME TypeOK, Squashed, rstate = "rollback",
           NEW c, NEW n, NEW ks, NEW irq, NEW mis, NEW comp, NEW flt, NEW ev, NEW rbk,
           Clocked(c, n, ks, irq, mis, comp, flt, ev, rbk)
    PROVE  /\ comp = {} /\ c = 0 /\ n = 0 /\ ~mis
           /\ rob' = <<>> \/ (rob' = rob /\ rstate' = "rollback")
           /\ ren2' = <<>> /\ xcptD'.cause = None /\ flushD'.t = "none"
           /\ fetch'.pc = IF Redirecting THEN RedirectPC ELSE fetch.pc
<1>1. comp = {} /\ n = 0 /\ c = 0
  <2>1. comp = {}
    BY ChoicesAre DEF Finishing
  <2>2. n = 0
    BY ChoicesAre DEF Decodable, DecodeReady
  <2>3. c = 0
    <3>1. c \in CommitCounts /\ c \in Nat
      BY ChoicesAre
    <3> QED
      BY <3>1 DEF CommitCounts, CommitReady
  <2> QED
    BY <2>1, <2>2, <2>3
<1>2. ~mis
  BY <1>1, ChoicesAre DEF Decodable, CanMispredict
<1>3. Mispredict(comp) = 0 /\ ~Throws
  BY <1>1, IdleIs DEF Throws
<1>4. /\ rob' = <<>> \/ (rob' = rob /\ rstate' = "rollback")
      /\ ren2' = <<>>
  <2>1. /\ rob' = (IF rbk THEN <<>> ELSE rob) /\ rstate' = (IF rbk THEN "normal" ELSE rstate)
        /\ ren2' = <<>>
    BY RollbackIs
  <2> QED
    BY <2>1
<1>5. xcptD'.cause = None /\ flushD'.t = "none"
  BY <1>1, <1>3, RegistersAre DEF Flush, NoXcpt, NoFlush
<1>6. fetch'.pc = IF Redirecting THEN RedirectPC ELSE fetch.pc
  <2>1. NextPC(0) = fetch.pc
    BY DEF NextPC, TypeOK
  <2> QED
    BY <1>1, <1>2, <1>3, <2>1, FetchIs
<1> QED
  BY <1>1, <1>2, <1>4, <1>5, <1>6

\* A unique uop that begins is alone; nothing commits beside it.
LEMMA StartIs ==
    ASSUME TypeOK, Alone, rstate # "rollback", NEW k \in {"set", "exitpc", "ecall", "sret"},
           NEW c, NEW n, NEW ks, NEW irq, NEW mis, NEW comp, NEW flt, NEW ev, NEW rbk,
           Clocked(c, n, ks, irq, mis, comp, flt, ev, rbk), Starts(comp, k) # {}
    PROVE  /\ Starts(comp, k) = {1} /\ Len(rob) = 1 /\ rob[1].i.k = k /\ rob[1].st = "wait"
           /\ rob[1].exc = None /\ c = 0 /\ rstate = "wait" /\ ~Throws /\ Dispatched = 0
           /\ \A l \in {"set", "exitpc", "ecall", "sret"} : l # k => Starts(comp, l) = {}
           /\ rstate' = "wait" /\ Len(rob') = 1 /\ rob'[1] = Executed(comp, flt)[1]
           /\ Executed(comp, flt)[1].exc = None
           /\ Executed(comp, flt)[1].st = IF k \in {"set", "exitpc"} THEN "exec" ELSE "done"
<1>1. PICK j \in Starts(comp, k) : TRUE
  OBVIOUS
<1>2. /\ j \in comp /\ rob[j].st = "wait" /\ rob[j].i.k = k
      /\ j \in 1..Len(rob) /\ rob[j].exc = None /\ Len(rob) \in Nat
      /\ comp \subseteq 1..Len(rob)
  BY <1>1, ChoicesAre, LengthsAre DEF Starts, Finishing, Waiting
<1>3. IsUnique(rob[j])
  BY <1>2 DEF IsUnique
<1>4. Len(rob) = 1 /\ rstate # "normal"
  BY <1>2, <1>3 DEF Alone
<1>5. j = 1 /\ \A i \in comp : i = 1
  BY <1>2, <1>4
<1>6. rstate = "wait"
  BY <1>4 DEF TypeOK
<1>7. c = 0
  <2>1. c \in CommitCounts /\ c \in Nat
    BY ChoicesAre
  <2>2. c > 0 => rob[1].st = "done"
    BY <2>1 DEF CommitCounts, CommitReady
  <2> QED
    BY <1>2, <1>5, <2>1, <2>2
<1>8. Starts(comp, k) = {1}
  BY <1>1, <1>5 DEF Starts
<1>9. \A l \in {"set", "exitpc", "ecall", "sret"} : l # k => Starts(comp, l) = {}
  BY <1>2, <1>5 DEF Starts
<1>10. ~Throws /\ rob # <<>>
  <2>1. rob = <<>> => Len(rob) = 0
    OBVIOUS
  <2> QED
    BY <1>2, <1>4, <1>5, <2>1 DEF Throws
<1>11. Dispatched = 0
  BY <1>6, DispatchIs
<1>12. rstate' = "wait"
  BY <1>6, <1>10, <1>11, RegistersAre DEF RobStateAfter
<1>13. Len(rob') = 1 /\ rob'[1] = Executed(comp, flt)[1]
  <2>1. Follows(rob', Upto(comp) - c, Joining(comp), c, Executed(comp, flt))
    BY <1>6, ChoicesAre, RegistersAre, RobAfterIs
  <2>2. Upto(comp) = 1
    <3>1. Mispredict(comp) \in 0..1
      BY <1>2, <1>4, MispredictIs
    <3> QED
      BY <1>4, <3>1 DEF Upto
  <2>3. Joining(comp) = 0
    BY <1>11 DEF Joining
  <2>4. Len(rob') = 1 /\ 1 \in 1..1
    BY <1>7, <2>1, <2>2, <2>3 DEF Follows
  <2>5. rob'[1] = Executed(comp, flt)[1 + c]
    BY <1>7, <2>1, <2>2, <2>4 DEF Follows
  <2> QED
    BY <1>7, <2>4, <2>5
<1>14. /\ Executed(comp, flt)[1].exc = None
       /\ Executed(comp, flt)[1].st = IF k \in {"set", "exitpc"} THEN "exec" ELSE "done"
  <2>1. Executed(comp, flt)[1] = Progress(rob[1], 1 \in flt)
    BY <1>2, <1>5 DEF Executed
  <2>2. ~(1 \in flt)
    BY <1>2, <1>5, ChoicesAre DEF Loads
  <2>3. rob[1] \in Uops
    BY <1>2, <1>5 DEF TypeOK
  <2>4. rob[1] = [pc |-> rob[1].pc, i |-> rob[1].i, st |-> rob[1].st, exc |-> rob[1].exc,
                  wp |-> rob[1].wp, mis |-> rob[1].mis]
    BY <2>3 DEF Uops
  <2>5. CASE k \in {"set", "exitpc"}
    <3>1. Executed(comp, flt)[1] = [rob[1] EXCEPT !.st = "exec"]
      BY <1>2, <1>5, <2>1, <2>2, <2>5 DEF Progress
    <3> QED
      BY <1>2, <1>5, <2>4, <2>5, <3>1
  <2>6. CASE k \notin {"set", "exitpc"}
    <3>1. Executed(comp, flt)[1] = [rob[1] EXCEPT !.st = "done"]
      BY <1>2, <1>5, <2>1, <2>2, <2>6 DEF Progress
    <3> QED
      BY <1>2, <1>5, <2>4, <2>6, <3>1
  <2> QED
    BY <2>5, <2>6
<1> QED
  BY <1>2, <1>4, <1>5, <1>6, <1>7, <1>8, <1>9, <1>10, <1>11, <1>12, <1>13, <1>14

\* Instructions of a kind wait on as long as none begins.
LEMMA WaitsStep ==
    ASSUME TypeOK, Fresh, rstate # "rollback", NEW k, Waits(k),
           NEW c, NEW n, NEW ks, NEW irq, NEW mis, NEW comp, NEW flt, NEW ev, NEW rbk,
           Clocked(c, n, ks, irq, mis, comp, flt, ev, rbk), Starts(comp, k) = {}
    PROVE  Waits(k)'
<1>1. Dispatched \in 0..Len(ren2) /\ Len(ren2) \in Nat
  BY DispatchIs, LengthsAre
<1>2. comp \subseteq Finishing /\ flt \subseteq Loads
  BY ChoicesAre
<1>3. ASSUME NEW j \in 1..Len(rob'), rob'[j].i.k = k PROVE rob'[j].st = "wait"
  <2>1. CASE \E i \in 1..Len(rob) : rob'[j] = Executed(comp, flt)[i]
    <3>1. PICK i \in 1..Len(rob) : rob'[j] = Executed(comp, flt)[i]
      BY <2>1
    <3>2. /\ Executed(comp, flt)[i].i = rob[i].i
          /\ i \notin comp => Executed(comp, flt)[i] = rob[i]
      BY <1>2, KeepsIs
    <3>3. rob[i].st = "wait" /\ i \notin comp
      BY <1>3, <3>1, <3>2 DEF Waits, Starts
    <3> QED
      BY <3>1, <3>2, <3>3
  <2>2. CASE \E i \in 1..Dispatched : rob'[j] = ren2[i]
    <3>1. PICK i \in 1..Dispatched : rob'[j] = ren2[i]
      BY <2>2
    <3>2. i \in 1..Len(ren2)
      BY <1>1
    <3>3. ren2[i].st = "wait"
      BY <3>2 DEF Fresh
    <3> QED
      BY <2>1, <3>1, <3>3, Z3
  <2> QED
    BY <2>1, <2>2, RobOriginIs
<1> QED
  BY <1>3 DEF Waits

-----------------------------------------------------------------------------
\* A cycle of the kernel.
LEMMA KernelStep ==
    ASSUME TypeOK, Squashed, Fresh, Alone, KernelPhase,
           NEW c, NEW n, NEW ks, NEW irq, NEW mis, NEW comp, NEW flt, NEW ev, NEW rbk,
           Clocked(c, n, ks, irq, mis, comp, flt, ev, rbk)
    PROVE  /\ Phases' /\ ~IsUserMode'
           /\ \A k \in {"set", "exitpc", "ecall"} : Starts(comp, k) = {}
           /\ \A j \in 1..c : rob[j].i.k \in {"kern", "sret"} /\ rob[j].pc = 0
           /\ Starts(comp, "sret") = {} => KernelPhase'
           /\ Starts(comp, "sret") # {} => Returning' /\ rob'[1].pc = 0
<1>0. /\ cpu \in [prv : {0, 1}, d1 : {0, 1}, d2 : {0, 1}, epc : Nat, cause : Causes \cup {"ecall"}]
      /\ ~TrapTaken /\ ~Redirecting /\ fetch.pc = 0 /\ \A x : NextPC(x) = 0
      /\ cpu.prv = 1 /\ cpu.epc # 0 /\ ~OverflowEvent
  BY DEF TypeOK, KernelPhase, TrapTaken, Redirecting, NextPC, OverflowEvent, SampleValid, IsUserMode
<1>1. CASE rstate = "rollback"
  <2>1. /\ comp = {} /\ c = 0
        /\ rob' = <<>> \/ (rob' = rob /\ rstate' = "rollback")
        /\ ren2' = <<>> /\ xcptD'.cause = None /\ flushD'.t = "none" /\ fetch'.pc = 0
    BY <1>0, <1>1, RollbackStep
  <2>2. \A l : Starts(comp, l) = {}
    BY <2>1, IdleIs
  <2>3. cpu' = [cpu EXCEPT !.d1 = cpu.prv, !.d2 = cpu.d1]
    BY <1>0, <2>2, CpuShifts, RegistersAre
  <2>4. cpu'.prv = 1 /\ cpu'.epc # 0 /\ ~IsUserMode'
    BY <1>0, <2>3 DEF IsUserMode
  <2>5. KernelPhase'
    BY <2>1, <2>4 DEF KernelPhase, AllKernel, Waits
  <2> QED
    BY <2>1, <2>2, <2>4, <2>5 DEF Phases
<1>2. CASE rstate # "rollback"
  <2>1. AllKernel(rob) /\ Waits("sret") /\ AllKernel(ren2)
    BY <1>2 DEF KernelPhase
  <2>2. /\ comp \subseteq 1..Len(rob) /\ c \in Nat /\ c <= Len(rob) /\ Len(rob) \in Nat
        /\ flt \subseteq Loads /\ comp \subseteq Finishing
        /\ \A j \in 1..c : rob[j].st = "done"
    <3>1. CommitReady(c) /\ c \in Nat
      BY ChoicesAre DEF CommitCounts
    <3> QED
      BY <3>1, ChoicesAre, LengthsAre DEF Finishing, Waiting, CommitReady
  <2>3. \A j \in 1..c : rob[j].i.k = "kern" /\ rob[j].pc = 0
    BY <2>1, <2>2 DEF AllKernel, Waits
  <2>4. \A k \in {"set", "exitpc", "ecall"} : Starts(comp, k) = {}
    BY <2>1, <2>2 DEF Starts, AllKernel
  <2>5. ~Throws /\ Mispredict(comp) = 0
    <3>1. rob # <<>> => 1 \in 1..Len(rob)
      BY <2>2 DEF TypeOK
    <3>2. ~Throws
      BY <2>1, <3>1 DEF Throws, AllKernel
    <3>3. Mispredict(comp) # 0 => Mispredict(comp) \in 1..Len(rob) /\ rob[Mispredict(comp)].mis
      BY <2>2, MispredictIs
    <3> QED
      BY <2>1, <3>2, <3>3 DEF AllKernel
  <2>6. flushD'.t = "none" /\ xcptD'.cause = None
    <3>1. c > 0 => c \in 1..c
      BY <2>2
    <3>2. c > 0 => FlushOf(rob[c]) = NoFlush
      BY <2>3, <3>1 DEF FlushOf
    <3> QED
      BY <2>5, <3>2, RegistersAre DEF Flush, NoFlush, NoXcpt
  <2>7. fetch'.pc = 0
    BY <1>0, <2>5, FetchIs
  <2>8. ~mis /\ ~irq
    <3>1. irq => cpu.prv = 0
      BY ChoicesAre
    <3>2. mis => InstAt(NextPC(n - 1), "kern").k = "br"
      <4>1. mis => CanMispredict(n)
        BY ChoicesAre DEF Decodable
      <4> QED
        BY <4>1 DEF CanMispredict
    <3>3. InstAt(0, "kern").k = "kern"
      BY DEF InstAt
    <3> QED
      BY <1>0, <3>1, <3>2, <3>3
  <2>9. AllKernel(ren2')
    <3>1. DecodeXcpt(irq) = None
      BY <1>0, <2>8 DEF DecodeXcpt
    <3>2. ks \in {"kern", "sret"}
      BY ChoicesAre
    <3>3. ASSUME NEW j \in 1..Len(ren2')
          PROVE  /\ ren2'[j].pc = 0 /\ ren2'[j].i.k \in {"kern", "sret"}
                 /\ ren2'[j].exc = None /\ ~ren2'[j].mis
      <4>1. CASE \E i \in 1..Len(ren2) : ren2'[j] = ren2[i]
        <5>1. PICK i \in 1..Len(ren2) : ren2'[j] = ren2[i]
          BY <4>1
        <5>2. /\ ren2[i].pc = 0 /\ ren2[i].i.k \in {"kern", "sret"}
              /\ ren2[i].exc = None /\ ~ren2[i].mis
          BY <2>1 DEF AllKernel
        <5> QED
          BY <5>1, <5>2
      <4>2. CASE ~\E i \in 1..Len(ren2) : ren2'[j] = ren2[i]
        <5>1. /\ ren2'[j].exc = DecodeXcpt(irq) /\ (ren2'[j].mis => mis)
              /\ ren2'[j].pc = 0 /\ ren2'[j].i = [k |-> ks]
          BY <1>0, <1>2, <4>2, Ren2OriginIs
        <5>2. ~ren2'[j].mis
          BY <2>8, <5>1, Zenon
        <5>3. ren2'[j].i.k = ks
          BY <5>1
        <5> QED
          BY <3>1, <3>2, <5>1, <5>2, <5>3
      <4> QED
        BY <4>1, <4>2
    <3> QED
      BY <3>3 DEF AllKernel
  <2>10. AllKernel(rob')
    <3>1. Dispatched \in 0..Len(ren2) /\ Len(ren2) \in Nat
      BY DispatchIs, LengthsAre
    <3>2. ASSUME NEW j \in 1..Len(rob')
          PROVE  /\ rob'[j].pc = 0 /\ rob'[j].i.k \in {"kern", "sret"}
                 /\ rob'[j].exc = None /\ ~rob'[j].mis
      <4>1. CASE \E i \in 1..Len(rob) : rob'[j] = Executed(comp, flt)[i]
        <5>1. PICK i \in 1..Len(rob) : rob'[j] = Executed(comp, flt)[i]
          BY <4>1
        <5>2. /\ rob[i].pc = 0 /\ rob[i].i.k \in {"kern", "sret"}
              /\ rob[i].exc = None /\ ~rob[i].mis
          BY <2>1 DEF AllKernel
        <5>0. comp \subseteq Finishing /\ flt \subseteq Loads
          BY <2>2
        <5>3. Executed(comp, flt)[i].pc = rob[i].pc
          BY <5>0, KeepsIs
        <5>7. Executed(comp, flt)[i].i = rob[i].i
          BY <5>0, KeepsIs
        <5>4. Executed(comp, flt)[i].mis = rob[i].mis
          BY <5>0, KeepsIs
        <5>5. Executed(comp, flt)[i].exc = rob[i].exc
          <6>1. Executed(comp, flt)[i].exc = rob[i].exc \/ rob[i].i.k = "ld"
            BY <5>0, KeepsIs
          <6> QED
            BY <5>2, <6>1
        <5>6. ~rob'[j].mis
          BY <5>1, <5>2, <5>4, Zenon
        <5> QED
          BY <5>1, <5>2, <5>3, <5>5, <5>6, <5>7
      <4>2. CASE \E i \in 1..Dispatched : rob'[j] = ren2[i]
        <5>1. PICK i \in 1..Dispatched : rob'[j] = ren2[i]
          BY <4>2
        <5>2. i \in 1..Len(ren2)
          BY <3>1
        <5>3. /\ ren2[i].pc = 0 /\ ren2[i].i.k \in {"kern", "sret"}
              /\ ren2[i].exc = None /\ ~ren2[i].mis
          BY <2>1, <5>2 DEF AllKernel
        <5>4. ~rob'[j].mis
          BY <5>1, <5>3, Zenon
        <5> QED
          BY <5>1, <5>3, <5>4
      <4> QED
        BY <1>2, <4>1, <4>2, RobOriginIs
    <3> QED
      BY <3>2 DEF AllKernel
  <2>11. CASE Starts(comp, "sret") # {}
    <3>1. /\ Starts(comp, "ecall") = {} /\ rstate' = "wait" /\ Len(rob') = 1
          /\ rob'[1] = Executed(comp, flt)[1] /\ Executed(comp, flt)[1].exc = None
          /\ Executed(comp, flt)[1].st = "done" /\ rob[1].i.k = "sret" /\ Len(rob) = 1
      BY <1>2, <2>11, StartIs
    <3>2. Executed(comp, flt)[1].i = rob[1].i
      <4>1. comp \subseteq Finishing /\ flt \subseteq Loads /\ 1 \in 1..Len(rob)
        BY <3>1, ChoicesAre
      <4> QED
        BY <4>1, KeepsIs
    <3>3. Completes("sret")'
      BY <2>6, <3>1, <3>2 DEF Completes
    <3>4. cpu' = [[cpu EXCEPT !.d1 = cpu.prv, !.d2 = cpu.d1] EXCEPT !.prv = 0, !.epc = ResumePC]
      BY <1>0, <2>11, <3>1, RegistersAre DEF CpuAfter
    <3>5. ResumePC # 0
      BY <1>0 DEF ResumePC
    <3>6. cpu'.prv = 0 /\ cpu'.d1 = 1 /\ cpu'.epc # 0
      BY <1>0, <3>4, <3>5
    <3>7. Returning' /\ ~IsUserMode'
      BY <3>3, <3>6 DEF Returning, IsUserMode
    <3>8. rob'[1].pc = 0
      BY <2>10, <3>1 DEF AllKernel
    <3> QED
      BY <2>3, <2>4, <2>11, <3>7, <3>8 DEF Phases
  <2>12. CASE Starts(comp, "sret") = {}
    <3>1. cpu' = [cpu EXCEPT !.d1 = cpu.prv, !.d2 = cpu.d1]
      BY <1>0, <2>4, <2>12, CpuShifts, RegistersAre
    <3>2. cpu'.prv = 1 /\ cpu'.epc # 0 /\ ~IsUserMode'
      BY <1>0, <3>1 DEF IsUserMode
    <3>3. Waits("sret")'
      BY <1>2, <2>1, <2>12, WaitsStep
    <3>4. KernelPhase'
      BY <2>6, <2>7, <2>9, <2>10, <3>2, <3>3 DEF KernelPhase
    <3> QED
      BY <2>3, <2>4, <2>12, <3>2, <3>4 DEF Phases
  <2> QED
    BY <2>11, <2>12
<1> QED
  BY <1>1, <1>2

-----------------------------------------------------------------------------
\* The queues of a program that runs hold its own instructions.
LEMMA UserQueues ==
    ASSUME TypeOK, rstate # "rollback", AllUser(rob), AllUser(ren2), fetch.pc # 0,
           NEW c, NEW n, NEW ks, NEW irq, NEW mis, NEW comp, NEW flt, NEW ev, NEW rbk,
           Clocked(c, n, ks, irq, mis, comp, flt, ev, rbk)
    PROVE  AllUser(rob') /\ AllUser(ren2')
<1>1. Dispatched \in 0..Len(ren2) /\ Len(ren2) \in Nat
  BY DispatchIs, LengthsAre
<1>2. comp \subseteq Finishing /\ flt \subseteq Loads
  BY ChoicesAre
<1>3. ASSUME NEW i \in 1..Len(ren2) PROVE ren2[i].pc # 0 /\ ren2[i].i \in UserInsts
  BY DEF AllUser
<1>4. ASSUME NEW j \in 1..Len(rob') PROVE rob'[j].pc # 0 /\ rob'[j].i \in UserInsts
  <2>1. CASE \E i \in 1..Len(rob) : rob'[j] = Executed(comp, flt)[i]
    <3>1. PICK i \in 1..Len(rob) : rob'[j] = Executed(comp, flt)[i]
      BY <2>1
    <3>2. Executed(comp, flt)[i].pc = rob[i].pc /\ Executed(comp, flt)[i].i = rob[i].i
      BY <1>2, KeepsIs
    <3>3. rob[i].pc # 0 /\ rob[i].i \in UserInsts
      BY DEF AllUser
    <3> QED
      BY <3>1, <3>2, <3>3
  <2>2. CASE \E i \in 1..Dispatched : rob'[j] = ren2[i]
    <3>1. PICK i \in 1..Dispatched : rob'[j] = ren2[i]
      BY <2>2
    <3>2. i \in 1..Len(ren2)
      BY <1>1
    <3> QED
      BY <1>3, <3>1, <3>2
  <2> QED
    BY <2>1, <2>2, RobOriginIs
<1>5. ASSUME NEW j \in 1..Len(ren2') PROVE ren2'[j].pc # 0 /\ ren2'[j].i \in UserInsts
  <2>1. CASE \E i \in 1..Len(ren2) : ren2'[j] = ren2[i]
    <3>1. PICK i \in 1..Len(ren2) : ren2'[j] = ren2[i]
      BY <2>1
    <3> QED
      BY <1>3, <3>1
  <2>2. CASE ~\E i \in 1..Len(ren2) : ren2'[j] = ren2[i]
    BY <2>2, Ren2OriginIs
  <2> QED
    BY <2>1, <2>2
<1> QED
  BY <1>4, <1>5 DEF AllUser

\* A cycle in which the program's uops are rolled back.
LEMMA UserRollback ==
    ASSUME TypeOK, Squashed, UserPhase, rstate = "rollback",
           NEW c, NEW n, NEW ks, NEW irq, NEW mis, NEW comp, NEW flt, NEW ev, NEW rbk,
           Clocked(c, n, ks, irq, mis, comp, flt, ev, rbk)
    PROVE  /\ Phases' /\ c = 0 /\ comp = {} /\ (TrapTaken <=> ~IsUserMode')
           /\ TrapTaken => KernelPhase' /\ cpu'.epc = xcptD.pc /\ cpu'.cause = TrapCause
           /\ ~TrapTaken => UserPhase'
<1>1. /\ comp = {} /\ c = 0
      /\ rob' = <<>> \/ (rob' = rob /\ rstate' = "rollback")
      /\ ren2' = <<>> /\ xcptD'.cause = None /\ flushD'.t = "none"
      /\ fetch'.pc = IF Redirecting THEN RedirectPC ELSE fetch.pc
  BY RollbackStep
<1>2. /\ cpu \in [prv : {0, 1}, d1 : {0, 1}, d2 : {0, 1}, epc : Nat, cause : Causes \cup {"ecall"}]
      /\ cpu.prv = 0 /\ cpu.d1 = 0 /\ cpu.d2 = 0 /\ cpu' = CpuAfter(comp)
      /\ \A l : Starts(comp, l) = {}
  BY <1>1, IdleIs, RegistersAre DEF TypeOK, UserPhase, IsUserMode
<1>3. CASE TrapTaken
  <2>1. xcptD.cause # None /\ flushD.t = "xcpt" /\ xcptD.pc # 0
    BY <1>3 DEF TrapTaken, UserPhase
  <2>2. cpu'.prv = 1 /\ cpu'.epc # 0 /\ cpu'.epc = xcptD.pc /\ cpu'.cause = TrapCause
    <3>1. cpu' = [[cpu EXCEPT !.d1 = cpu.prv, !.d2 = cpu.d1]
                     EXCEPT !.prv = 1, !.epc = xcptD.pc, !.cause = TrapCause]
      BY <1>2, <1>3 DEF CpuAfter
    <3> QED
      BY <1>2, <2>1, <3>1
  <2>3. fetch'.pc = 0
    BY <1>1, <1>3, <2>1 DEF Redirecting, RedirectPC, TrapTaken
  <2>4. KernelPhase'
    BY <1>1, <2>2, <2>3 DEF KernelPhase, AllKernel, Waits
  <2> QED
    BY <1>1, <1>3, <2>2, <2>4 DEF Phases, IsUserMode
<1>4. CASE ~TrapTaken
  <2>1. IsUserMode'
    <3>1. cpu' = [cpu EXCEPT !.d1 = cpu.prv, !.d2 = cpu.d1]
      BY <1>2, <1>4, CpuShifts
    <3> QED
      BY <1>2, <3>1 DEF IsUserMode
  <2>2. fetch'.pc # 0
    <3>1. flushD.t = "xcpt" => IsOverFlowExcpt /\ ur.func # 0
      BY <1>4 DEF TrapTaken, UserPhase
    <3> QED
      BY <1>1, <3>1 DEF Redirecting, RedirectPC, UserPhase, TypeOK
  <2>3. AllUser(rob') /\ Waits("ecall")'
    BY <1>1 DEF UserPhase, AllUser, Waits
  <2>4. AllUser(ren2')
    BY <1>1 DEF AllUser
  <2>5. UserPhase'
    BY <1>1, <2>1, <2>2, <2>3, <2>4 DEF UserPhase, AllUser
  <2> QED
    BY <1>1, <1>4, <2>1, <2>5 DEF Phases
<1> QED
  BY <1>3, <1>4

\* Uops that commit are instructions of the program, and no ecall.
LEMMA UserCommits ==
    ASSUME TypeOK, UserPhase, NEW c \in CommitCounts
    PROVE  /\ c \in 0..Len(rob)
           /\ \A j \in 1..c : /\ rob[j].i \in UserInsts /\ rob[j].i.k # "ecall"
                              /\ rob[j].exc = None /\ Counts(rob[j])
           /\ Throws => c = 0
<1>1. /\ c \in 0..Len(rob) /\ Len(rob) \in Nat
      /\ \A j \in 1..c : rob[j].st = "done" /\ rob[j].exc = None
  BY CoreAssumption, LengthsAre DEF CommitCounts, CommitReady
<1>2. ASSUME NEW j \in 1..c
      PROVE  /\ rob[j].i \in UserInsts /\ rob[j].i.k # "ecall"
             /\ rob[j].exc = None /\ Counts(rob[j])
  <2>1. rob[j].i \in UserInsts /\ rob[j].i.k # "ecall" /\ rob[j].exc = None
    BY <1>1 DEF UserPhase, AllUser, Waits
  <2>2. rob[j].i.k # "kern" /\ rob[j].i.k # "sret"
    BY <2>1 DEF UserInsts
  <2> QED
    BY <2>1, <2>2 DEF Counts
<1>3. ASSUME Throws PROVE c = 0
  <2>1. c > 0 => rob[1].exc = None
    BY <1>1
  <2> QED
    BY <1>1, <1>3, <2>1 DEF Throws
<1> QED
  BY <1>1, <1>2, <1>3

\* Outside a rollback the program's next system call takes it to the kernel.
LEMMA UserCalls ==
    ASSUME TypeOK, Alone, UserPhase, rstate # "rollback",
           NEW c, NEW n, NEW ks, NEW irq, NEW mis, NEW comp, NEW flt, NEW ev, NEW rbk,
           Clocked(c, n, ks, irq, mis, comp, flt, ev, rbk), Starts(comp, "ecall") # {}
    PROVE  /\ Calling' /\ ~IsUserMode' /\ c = 0 /\ rob'[1].pc = rob[1].pc
           /\ cpu'.epc = rob[1].pc /\ cpu'.cause = "ecall"
<1>1. /\ Starts(comp, "ecall") = {1} /\ Len(rob) = 1 /\ rob[1].i.k = "ecall" /\ c = 0
      /\ ~Throws /\ rstate' = "wait" /\ Len(rob') = 1 /\ rob'[1] = Executed(comp, flt)[1]
      /\ Executed(comp, flt)[1].exc = None /\ Executed(comp, flt)[1].st = "done"
  BY StartIs
<1>2. /\ Executed(comp, flt)[1].i = rob[1].i /\ rob[1].pc # 0
      /\ Executed(comp, flt)[1].pc = rob[1].pc
  <2>1. comp \subseteq Finishing /\ flt \subseteq Loads
    BY ChoicesAre
  <2> QED
    BY <1>1, <2>1, KeepsIs DEF UserPhase, AllUser
<1>3. xcptD'.cause = None /\ flushD'.t = "none"
  BY <1>1, RegistersAre DEF Flush, NoFlush, NoXcpt
<1>4. Completes("ecall")'
  BY <1>1, <1>2, <1>3 DEF Completes
<1>5. ~TrapTaken
  BY DEF TrapTaken, UserPhase
<1>6. cpu'.prv = 1 /\ cpu'.epc # 0 /\ cpu'.epc = rob[1].pc /\ cpu'.cause = "ecall"
  <2>1. cpu' = [[cpu EXCEPT !.d1 = cpu.prv, !.d2 = cpu.d1]
                   EXCEPT !.prv = 1, !.cause = "ecall",
                          !.epc = rob[CHOOSE j \in Starts(comp, "ecall") : TRUE].pc]
    BY <1>1, <1>5, RegistersAre DEF CpuAfter
  <2>2. (CHOOSE j \in Starts(comp, "ecall") : TRUE) = 1
    BY <1>1
  <2>3. cpu \in [prv : {0, 1}, d1 : {0, 1}, d2 : {0, 1}, epc : Nat, cause : Causes \cup {"ecall"}]
    BY DEF TypeOK
  <2> QED
    BY <1>2, <2>1, <2>2, <2>3
<1> QED
  BY <1>1, <1>2, <1>4, <1>6 DEF Calling, IsUserMode

\* Otherwise the program runs on.
LEMMA UserRuns ==
    ASSUME TypeOK, Fresh, Alone, UserPhase, rstate # "rollback",
           NEW c, NEW n, NEW ks, NEW irq, NEW mis, NEW comp, NEW flt, NEW ev, NEW rbk,
           Clocked(c, n, ks, irq, mis, comp, flt, ev, rbk), Starts(comp, "ecall") = {}
    PROVE  UserPhase' /\ Starts(comp, "sret") = {} /\ ~TrapTaken
<1>1. /\ comp \subseteq 1..Len(rob) /\ c \in 0..Len(rob) /\ Len(rob) \in Nat /\ n \in Nat
      /\ \A j \in 1..Len(rob) : rob[j].pc # 0 /\ rob[j].i \in UserInsts /\ rob[j] \in Uops
  <2>1. c \in CommitCounts /\ n \in Nat /\ comp \subseteq Finishing
    BY ChoicesAre
  <2>2. c \in 0..Len(rob)
    BY <2>1, UserCommits
  <2>3. ASSUME NEW j \in 1..Len(rob)
        PROVE  rob[j].pc # 0 /\ rob[j].i \in UserInsts /\ rob[j] \in Uops
    BY DEF UserPhase, AllUser, TypeOK
  <2> QED
    BY <2>1, <2>2, <2>3, LengthsAre DEF Finishing, Waiting
<1>2. Starts(comp, "sret") = {}
  <2>1. ASSUME NEW j \in Starts(comp, "sret") PROVE FALSE
    <3>1. rob[j].i \in UserInsts /\ rob[j].i.k = "sret"
      BY <1>1 DEF Starts
    <3> QED
      BY <3>1 DEF UserInsts
  <2> QED
    BY <2>1
<1>3. ~TrapTaken
  BY DEF TrapTaken, UserPhase
<1>4. IsUserMode'
  <2>1. cpu' = [cpu EXCEPT !.d1 = cpu.prv, !.d2 = cpu.d1]
    BY <1>2, <1>3, CpuShifts, RegistersAre
  <2>2. /\ cpu \in [prv : {0, 1}, d1 : {0, 1}, d2 : {0, 1}, epc : Nat,
                    cause : Causes \cup {"ecall"}]
        /\ cpu.prv = 0 /\ cpu.d1 = 0
    BY DEF TypeOK, UserPhase, IsUserMode
  <2> QED
    BY <2>1, <2>2 DEF IsUserMode
<1>5. AllUser(rob') /\ AllUser(ren2')
  BY UserQueues DEF UserPhase
<1>6. Waits("ecall")'
  BY WaitsStep DEF UserPhase
<1>7. fetch'.pc # 0
  <2>1. fetch'.pc = IF Redirecting THEN RedirectPC
                    ELSE IF Mispredict(comp) # 0 THEN rob[Mispredict(comp)].pc + 1
                    ELSE NextPC(IF mis THEN n + 1 ELSE n)
    BY FetchIs
  <2>2. CASE Redirecting
    <3>1. flushD.t = "uret" /\ flushD.pc # 0
      BY <2>2 DEF Redirecting, UserPhase, TypeOK
    <3> QED
      BY <2>1, <2>2, <3>1 DEF RedirectPC
  <2>3. CASE ~Redirecting /\ Mispredict(comp) # 0
    <3>1. Mispredict(comp) \in 1..Len(rob)
      BY <1>1, <2>3, MispredictIs
    <3>2. rob[Mispredict(comp)].pc \in Nat
      BY <1>1, <3>1 DEF Uops
    <3> QED
      BY <2>1, <2>3, <3>2
  <2>4. CASE ~Redirecting /\ Mispredict(comp) = 0
    <3>1. fetch.pc \in Nat /\ fetch.pc # 0
      BY DEF TypeOK, UserPhase
    <3> QED
      BY <1>1, <2>1, <2>4, <3>1 DEF NextPC
  <2> QED
    BY <2>2, <2>3, <2>4
<1>8. /\ flushD'.t # "eret" /\ (flushD'.t = "uret" => flushD'.pc # 0)
      /\ xcptD'.cause # None <=> flushD'.t = "xcpt"
      /\ xcptD'.cause # None => xcptD'.pc # 0 /\ rstate' = "rollback" /\ commD' = 0
  <2>1. /\ xcptD' = (IF Throws THEN [cause |-> rob[1].exc, pc |-> rob[1].pc] ELSE NoXcpt)
        /\ flushD' = Flush(c) /\ rstate' = RobStateAfter(Mispredict(comp), rbk) /\ commD' = c
        /\ c \in CommitCounts
    BY RegistersAre, ChoicesAre
  <2>2. CASE Throws
    <3>1. rob[1].exc # None /\ rob[1].pc # 0 /\ c = 0
      <4>1. rob # <<>> => 1 \in 1..Len(rob)
        BY <1>1 DEF TypeOK
      <4> QED
        BY <1>1, <2>1, <2>2, <4>1, UserCommits DEF Throws
    <3>2. xcptD'.cause # None /\ xcptD'.pc # 0
      BY <2>1, <2>2, <3>1
    <3>3. flushD'.t = "xcpt" /\ rstate' = "rollback"
      BY <2>1, <2>2 DEF Flush, RobStateAfter
    <3> QED
      BY <2>1, <3>1, <3>2, <3>3
  <2>3. CASE ~Throws
    <3>1. xcptD'.cause = None
      BY <2>1, <2>3 DEF NoXcpt
    <3>2. flushD'.t \in {"none", "uret"} /\ (flushD'.t = "uret" => flushD'.pc # 0)
      <4>1. CASE c = 0
        BY <2>1, <2>3, <4>1 DEF Flush, NoFlush
      <4>2. CASE c > 0
        <5>1. flushD' = FlushOf(rob[c])
          BY <2>1, <2>3, <4>2 DEF Flush
        <5>2. rob[c].i.k # "ecall" /\ rob[c].i.k # "sret"
          <6>1. c \in 1..c
            BY <1>1, <4>2
          <6>2. rob[c].i \in UserInsts /\ rob[c].i.k # "ecall"
            BY <2>1, <6>1, UserCommits
          <6> QED
            BY <6>2 DEF UserInsts
        <5>3. Nowhere # 0 /\ (IF ur.temp = 0 THEN Nowhere ELSE ur.temp) # 0
          <6>1. Code \in Seq(UserInsts)
            BY CoreAssumption DEF Code, TypeOK
          <6>2. Len(Code) \in Nat
            BY <6>1
          <6> QED
            BY <6>2 DEF Nowhere
        <5> QED
          BY <5>1, <5>2, <5>3 DEF FlushOf, NoFlush
      <4> QED
        BY <1>1, <4>1, <4>2
    <3> QED
      BY <3>1, <3>2
  <2> QED
    BY <2>2, <2>3
<1>9. UserPhase'
  BY <1>4, <1>5, <1>6, <1>7, <1>8 DEF UserPhase, AllUser
<1> QED
  BY <1>2, <1>3, <1>9

-----------------------------------------------------------------------------
\* A cycle of any phase: where it leads, and that what commits is counted if
\* and only if the program runs in the next cycle.
LEMMA PhaseStep ==
    ASSUME IInv, Phases,
           NEW c, NEW n, NEW ks, NEW irq, NEW mis, NEW comp, NEW flt, NEW ev, NEW rbk,
           Clocked(c, n, ks, irq, mis, comp, flt, ev, rbk)
    PROVE  /\ Phases'
           /\ IsUserMode' => \A j \in 1..c : Counts(rob[j])
           /\ ~IsUserMode' => \A j \in 1..c : ~Counts(rob[j])
           /\ Starts(comp, "sret") # {} => xcptD.cause = None
<1> USE DEF IInv
<1>1. CASE UserPhase /\ rstate = "rollback"
  <2>1. Phases' /\ c = 0 /\ comp = {}
    BY <1>1, UserRollback
  <2> QED
    BY <2>1, IdleIs
<1>2. CASE UserPhase /\ rstate # "rollback"
  <2>1. xcptD.cause = None /\ c \in CommitCounts
    BY <1>2, ChoicesAre DEF UserPhase
  <2>2. CASE Starts(comp, "ecall") # {}
    BY <1>2, <2>1, <2>2, UserCalls DEF Phases
  <2>3. CASE Starts(comp, "ecall") = {}
    <3>1. UserPhase'
      BY <1>2, <2>3, UserRuns
    <3>2. \A j \in 1..c : Counts(rob[j])
      BY <1>2, <2>1, UserCommits
    <3> QED
      BY <2>1, <3>1, <3>2 DEF Phases, UserPhase
  <2> QED
    BY <2>2, <2>3
<1>3. CASE KernelPhase
  <2>1. Phases' /\ ~IsUserMode' /\ xcptD.cause = None
    BY <1>3, KernelStep DEF KernelPhase
  <2>2. \A j \in 1..c : rob[j].i.k \in {"kern", "sret"}
    BY <1>3, KernelStep
  <2> QED
    BY <2>1, <2>2 DEF Counts
<1>4. CASE Calling \/ Called \/ Returning \/ Returned
  <2>1. Phases' /\ comp = {} /\ (IsUserMode' => c = 0)
    BY <1>4, CallStep, Zenon
  <2>2. \A j \in 1..c : rob[j].i.k \in {"ecall", "sret"}
    BY <1>4, CallStep
  <2> QED
    BY <2>1, <2>2, IdleIs DEF Counts
<1> QED
  BY <1>1, <1>2, <1>3, <1>4 DEF Phases

\* The counters are numbers.
LEMMA CountersAre ==
    ASSUME TypeOK, NEW ev \in 0..1
    PROVE  ur.now \in Nat /\ ur.max \in Nat /\ commD \in Nat /\ EventInc(ev) \in Nat
<1>1. ur \in Regs /\ commD \in Nat
  BY DEF TypeOK
<1>2. ur.now \in Nat /\ ur.max \in Nat
  BY <1>1 DEF Regs
<1>3. EventInc(ev) = commD \/ EventInc(ev) = ev
  BY DEF EventInc
<1> QED
  BY <1>1, <1>2, <1>3

\* What counting does to the registers.
LEMMA CountedIs ==
    ASSUME TypeOK, NEW ev \in 0..1
    PROVE  LET r == Counted(ur, ev)
           IN  /\ r \in Regs
               /\ r.tag = ur.tag /\ r.func = ur.func /\ r.max = ur.max /\ r.happen = ur.happen
               /\ r.warm = IF WarmupValid /\ ur.nowWarm > ur.warm THEN 0 ELSE ur.warm
               /\ r.now = IF SampleValid THEN ur.now + EventInc(ev)
                          ELSE IF WarmupValid /\ ur.nowWarm > ur.warm THEN 0 ELSE ur.now
<1>1. ur \in Regs /\ commD \in Nat /\ ~(SampleValid /\ WarmupValid)
  BY DEF TypeOK, SampleValid, WarmupValid
<1>2. ur.now + EventInc(ev) \in Nat /\ ur.nowWarm + commD \in Nat
  BY <1>1 DEF EventInc, Regs
<1>3. CASE SampleValid
  <2>1. Counted(ur, ev) = [ur EXCEPT !.now = @ + EventInc(ev)]
    BY <1>1, <1>3 DEF Counted
  <2> QED
    BY <1>1, <1>2, <1>3, <2>1 DEF Regs
<1>4. CASE WarmupValid /\ ur.nowWarm > ur.warm
  <2>1. Counted(ur, ev) = [ur EXCEPT !.warm = 0, !.nowWarm = 0, !.now = 0]
    BY <1>1, <1>4 DEF Counted, Regs
  <2>2. /\ Counted(ur, ev) \in Regs /\ Counted(ur, ev).warm = 0 /\ Counted(ur, ev).now = 0
        /\ Counted(ur, ev).tag = ur.tag /\ Counted(ur, ev).func = ur.func
        /\ Counted(ur, ev).max = ur.max /\ Counted(ur, ev).happen = ur.happen
    <3>1. ur \in Regs
      BY <1>1
    <3> DEFINE r == [ur EXCEPT !.warm = 0, !.nowWarm = 0, !.now = 0]
    <3>2. r \in Regs
      BY <3>1 DEF Regs
    <3>3. r.warm = 0 /\ r.now = 0
      BY <3>1 DEF Regs
    <3>4. r.tag = ur.tag /\ r.func = ur.func /\ r.max = ur.max /\ r.happen = ur.happen
      BY <3>1 DEF Regs
    <3> QED
      BY <2>1, <3>2, <3>3, <3>4
  <2> QED
    BY <1>1, <1>4, <2>2
<1>5. CASE WarmupValid /\ ~(ur.nowWarm > ur.warm)
  <2>1. Counted(ur, ev) = [ur EXCEPT !.nowWarm = @ + commD]
    BY <1>1, <1>5 DEF Counted, Regs
  <2> QED
    BY <1>1, <1>2, <1>5, <2>1 DEF Regs
<1>6. CASE ~SampleValid /\ ~WarmupValid
  <2>1. Counted(ur, ev) = ur
    BY <1>6 DEF Counted
  <2> QED
    BY <1>1, <1>6, <2>1
<1> QED
  BY <1>1, <1>3, <1>4, <1>5, <1>6

\* The counter restarts, goes on by what committed, or stays.
LEMMA NowIs ==
    ASSUME IInv, NEW c, NEW n, NEW ks, NEW irq, NEW mis, NEW comp, NEW flt, NEW ev, NEW rbk,
           Clocked(c, n, ks, irq, mis, comp, flt, ev, rbk),
           Starts(comp, "sret") # {} => xcptD.cause = None
    PROVE  ur'.now = IF Zeroes(comp) THEN 0
                     ELSE ur.now + (IF SampleValid THEN EventInc(ev) ELSE 0)
<1> DEFINE r1 == Counted(ur, ev)
           r2 == Redirected(r1)
           n1 == ur.now + (IF SampleValid THEN EventInc(ev) ELSE 0)
           Z1 == WarmupValid /\ ur.nowWarm > ur.warm
           Z2 == Redirecting /\ IsOverFlowExcpt
<1>1. /\ ur' = Written(r2, comp) /\ ev \in 0..1 /\ comp \subseteq Finishing
      /\ TypeOK /\ Alone /\ ur \in Regs /\ ~(SampleValid /\ WarmupValid)
  BY RegistersAre, ChoicesAre DEF IInv, TypeOK, RegsAfter, SampleValid, WarmupValid
<1>2. /\ r1 \in Regs /\ r1.happen = ur.happen /\ n1 \in Nat
      /\ r1.now = IF Z1 THEN 0 ELSE n1
  <2>1. ur.now \in Nat /\ commD \in Nat /\ EventInc(ev) \in Nat
    BY <1>1, CountersAre
  <2> QED
    BY <1>1, <2>1, CountedIs
<1> HIDE DEF r1, n1
<1>3. /\ r2 \in Regs
      /\ r2.now = IF Z1 \/ Z2 THEN 0 ELSE n1
      /\ ~Z2 => r2 = r1
  <2>1. xcptD.pc \in Nat
    BY <1>1 DEF TypeOK
  <2>2. CASE Z2
    <3>1. r2 = SampleRegs(r1)
      BY <2>2 DEF Redirected
    <3>2. SampleRegs(r1) \in Regs /\ SampleRegs(r1).now = 0
      BY <1>2, <2>1 DEF SampleRegs, Regs
    <3> QED
      BY <2>2, <3>1, <3>2
  <2>3. CASE ~Z2
    <3>1. r2 = r1
      BY <2>3 DEF Redirected
    <3> QED
      BY <1>2, <2>3, <3>1
  <2> QED
    BY <2>2, <2>3
<1>4. Zeroes(comp) <=> \/ Z1 \/ Z2
                       \/ \E j \in Starts(comp, "set") : rob[j].i.r = "max"
                       \/ Starts(comp, "sret") # {} /\ SoftwareRearm(ur) # ur
  BY DEF Zeroes
<1> HIDE DEF r2
<1>5. ASSUME NEW k \in {"set", "exitpc", "sret"}, Starts(comp, k) # {}
      PROVE  /\ Starts(comp, k) = {1}
             /\ \A l \in {"set", "exitpc", "ecall", "sret"} : l # k => Starts(comp, l) = {}
  <2>1. rstate # "rollback"
    BY <1>1, <1>5 DEF Finishing, Starts
  <2> QED
    BY <1>1, <1>5, <2>1, StartIs
<1>6. CASE Starts(comp, "set") # {}
  <2>1. Starts(comp, "set") = {1} /\ Starts(comp, "sret") = {}
    BY <1>5, <1>6
  <2>2. ur' = SetReg(r2, rob[1].i)
    <3>1. (CHOOSE j \in Starts(comp, "set") : TRUE) = 1
      BY <2>1
    <3> QED
      BY <1>1, <1>6, <3>1 DEF Written
  <2>3. ur'.now = IF rob[1].i.r = "max" THEN 0 ELSE r2.now
    BY <1>3, <2>2 DEF SetReg, Regs
  <2> QED
    BY <1>3, <1>4, <2>1, <2>3 DEF n1
<1>7. CASE Starts(comp, "exitpc") # {} /\ Starts(comp, "set") = {}
  <2>1. Starts(comp, "sret") = {}
    BY <1>5, <1>7
  <2>2. ur' = [r2 EXCEPT !.temp = r2.exitPC]
    BY <1>1, <1>7 DEF Written
  <2>3. ur'.now = r2.now
    BY <1>3, <2>2 DEF Regs
  <2> QED
    BY <1>3, <1>4, <1>7, <2>1, <2>3 DEF n1
<1>8. CASE Starts(comp, "sret") # {} /\ Starts(comp, "exitpc") = {} /\ Starts(comp, "set") = {}
  <2>1. ur' = SoftwareRearm(r2)
    BY <1>1, <1>8 DEF Written
  <2>2. r2 = r1
    BY <1>3, <1>8 DEF IsOverFlowExcpt, None
  <2>3. ur'.now = IF ur.happen = 1 /\ cpu.cause = "ecall" THEN 0 ELSE r2.now
    BY <1>2, <1>3, <2>1, <2>2 DEF SoftwareRearm, Regs
  <2>4. SoftwareRearm(ur) # ur <=> ur.happen = 1 /\ cpu.cause = "ecall"
    <3>1. ASSUME ur.happen = 1, cpu.cause = "ecall" PROVE SoftwareRearm(ur) # ur
      <4>1. SoftwareRearm(ur).happen = 0
        BY <1>1, <3>1 DEF SoftwareRearm, Regs
      <4> QED
        BY <3>1, <4>1
    <3> QED
      BY <3>1 DEF SoftwareRearm
  <2> QED
    BY <1>3, <1>4, <1>8, <2>3, <2>4 DEF n1
<1>9. CASE Starts(comp, "sret") = {} /\ Starts(comp, "exitpc") = {} /\ Starts(comp, "set") = {}
  <2>1. ur' = r2
    BY <1>1, <1>9 DEF Written
  <2> QED
    BY <1>3, <1>4, <1>9, <2>1 DEF n1
<1> QED
  BY <1>6, <1>7, <1>8, <1>9

\* The uops that commit in a cycle, as the history counts them.
LEMMA CountedCommits ==
    ASSUME NEW c \in Nat
    PROVE  /\ (\A j \in 1..c : Counts(rob[j])) => Cardinality({j \in 1..c : Counts(rob[j])}) = c
           /\ (\A j \in 1..c : ~Counts(rob[j])) => Cardinality({j \in 1..c : Counts(rob[j])}) = 0
<1>1. ASSUME \A j \in 1..c : Counts(rob[j])
      PROVE  Cardinality({j \in 1..c : Counts(rob[j])}) = c
  <2>1. {j \in 1..c : Counts(rob[j])} = 1..c
    BY <1>1
  <2>2. Cardinality(1..c) = c
    BY FS_Interval
  <2> QED
    BY <2>1, <2>2
<1>2. ASSUME \A j \in 1..c : ~Counts(rob[j])
      PROVE  Cardinality({j \in 1..c : Counts(rob[j])}) = 0
  <2>1. {j \in 1..c : Counts(rob[j])} = {}
    BY <1>2
  <2> QED
    BY <2>1, FS_EmptySet
<1> QED
  BY <1>1, <1>2

\* The counter and the history move together.
LEMMA CounterStep ==
    ASSUME CInv,
           NEW c, NEW n, NEW ks, NEW irq, NEW mis, NEW comp, NEW flt, NEW ev, NEW rbk,
           Clocked(c, n, ks, irq, mis, comp, flt, ev, rbk)
    PROVE  Counter' /\ ucount' \in Nat
<1> USE DEF CInv
<1>1. /\ c \in Nat /\ ev \in 0..1 /\ commD' = c /\ EventSel' = EventSel
      /\ commD \in Nat /\ ur.now \in Nat
  BY ChoicesAre, RegistersAre DEF IInv, TypeOK, Regs, EventSel
<1>2. /\ IsUserMode' => \A j \in 1..c : Counts(rob[j])
      /\ ~IsUserMode' => \A j \in 1..c : ~Counts(rob[j])
      /\ Starts(comp, "sret") # {} => xcptD.cause = None
  BY PhaseStep
<1>3. SampleValid' <=> IsUserMode' /\ Armed'
  BY DEF SampleValid, IsTargetProc, Armed
<1> DEFINE d == IF Armed' THEN Cardinality({j \in 1..c : Counts(rob[j])}) ELSE 0
           z == Zeroes(comp)
<1>4. d = (IF SampleValid' THEN c ELSE 0) /\ d \in Nat
  BY <1>1, <1>2, <1>3, CountedCommits
<1>5. ucount' = (IF z THEN 0 ELSE ucount) + d
  BY HistoryIs
<1>6. ur'.now = IF z THEN 0 ELSE ur.now + (IF SampleValid THEN EventInc(ev) ELSE 0)
  BY <1>2, NowIs
<1> HIDE DEF d, z
<1>7. ucount' \in Nat
  BY <1>4, <1>5
<1>8. ASSUME EventSel = 0 PROVE ur'.now + (IF SampleValid' THEN commD' ELSE 0) = ucount'
  <2>1. EventInc(ev) = commD
    BY <1>8 DEF EventInc
  <2>2. ur.now + (IF SampleValid THEN commD ELSE 0) = ucount
    BY <1>8 DEF Counter
  <2>3. ur'.now = IF z THEN 0 ELSE ucount
    BY <1>6, <2>1, <2>2
  <2>4. (IF SampleValid' THEN commD' ELSE 0) = d
    BY <1>1, <1>4
  <2> QED
    BY <1>5, <2>3, <2>4
<1> QED
  BY <1>1, <1>7, <1>8 DEF Counter

\* Reset satisfies the invariant.
LEMMA InitCInv == Init => CInv
<1> SUFFICES ASSUME Init PROVE CInv
  OBVIOUS
<1>1. UserPhase
  BY DEF Init, UserPhase, IsUserMode, AllUser, Waits, NoFlush, NoXcpt
<1>2. ucount \in Nat /\ Counter
  BY DEF Init, Counter
<1> QED
  BY <1>1, <1>2, InitIInv DEF CInv, Phases

\* Every step of the specification keeps it.
LEMMA NextCInv == CInv /\ [Next]_vars => CInv'
<1> SUFFICES ASSUME CInv, [Next]_vars PROVE CInv'
  OBVIOUS
<1>1. IInv'
  BY NextIInv DEF CInv
<1>2. CASE Next
  <2>1. PICK c \in 0..CoreWidth, n \in 0..CoreWidth, ks \in {"kern", "sret"}, irq \in BOOLEAN,
             mis \in BOOLEAN, rbk \in BOOLEAN, comp \in SUBSET Finishing, flt \in SUBSET Loads,
             ev \in 0..1 : Clocked(c, n, ks, irq, mis, comp, flt, ev, rbk)
    BY <1>2 DEF Next, Clocked
  <2>2. Phases'
    BY <2>1, PhaseStep DEF CInv
  <2>3. Counter' /\ ucount' \in Nat
    BY <2>1, CounterStep
  <2> QED
    BY <1>1, <2>2, <2>3 DEF CInv
<1>3. CASE UNCHANGED vars
  <2>1. Phases'
    <3>1. Phases
      BY DEF CInv
    <3> QED
      BY <1>3, <3>1 DEF vars, Phases, UserPhase, KernelPhase, Calling, Called, Returning, Returned,
         IsUserMode, AllUser, AllKernel, Waits, Completes, Redirects
  <2>2. Counter' /\ ucount' \in Nat
    BY <1>3 DEF vars, CInv, Counter, SampleValid, IsUserMode, IsTargetProc, EventSel
  <2> QED
    BY <1>1, <2>1, <2>2 DEF CInv
<1> QED
  BY <1>2, <1>3

\* The core is always in one of the phases, from the program to the kernel and
\* back (core.scala 385-395, 1275-1311): the inductive invariant of the counter.
THEOREM CountInvariance == Spec => []CInv
<1> QED
  BY InitCInv, NextCInv, PTL DEF Spec

\* With sampleEventSel = 0 the counter holds every committed user instruction
\* of the target since it was zeroed and none of the kernel (core.scala
\* 389-391, 533-534), for every program, width and ROB size.
THEOREM CountExactHolds == Spec => []CountExact
<1>1. CInv => CountExact
  BY DEF CInv, Counter, CountExact
<1> QED
  BY <1>1, CountInvariance, PTL

-----------------------------------------------------------------------------
(* The sample itself.  SetsWhileDue: the program sets procTag, maxEventNum or
   the warm-up although a sample is due.  Then the uops that are already
   marked meet a counter that is not over its threshold. *)
SetsWhileDue ==
    OverflowEvent /\ \E j \in 1..Len(rob) : /\ rob[j].i.k = "set" /\ rob[j].i.r # "func"
                                            /\ rob[j].st = "wait" /\ rob[j].exc = None

Marked(u) == u.exc = "overflow"

\* A mark that may still reach the CSR file.
MarkedInFlight ==
    \/ rstate # "rollback" /\ \E j \in 1..Len(rob) : Marked(rob[j])
    \/ flushD.t = "none" /\ \E j \in 1..Len(ren2) : Marked(ren2[j])
    \/ xcptD.cause = "overflow"

\* While there is one, the sample is due.
Due == IsUserMode /\ MarkedInFlight => OverflowEvent

HInv == CInv /\ Due /\ OverflowHidden

\* A cycle that does not restart the counter leaves the threshold, and the
\* counter armed.
LEMMA ArmedStep ==
    ASSUME CInv, ~SetsWhileDue,
           NEW c, NEW n, NEW ks, NEW irq, NEW mis, NEW comp, NEW flt, NEW ev, NEW rbk,
           Clocked(c, n, ks, irq, mis, comp, flt, ev, rbk), ~Zeroes(comp)
    PROVE  ur'.max = ur.max /\ (Armed /\ ~Armed' => SampleValid /\ ~Exceeded)
<1> DEFINE r == Counted(ur, ev)
<1>1. /\ ev \in 0..1 /\ comp \subseteq Finishing /\ TypeOK /\ Alone /\ Phases /\ ur \in Regs
      /\ ur' = Written(Redirected(r), comp)
  BY RegistersAre, ChoicesAre DEF CInv, IInv, TypeOK, RegsAfter
<1>2. Redirected(r) = r
  BY DEF Zeroes, Redirected
<1>3. ~(WarmupValid /\ ur.nowWarm > ur.warm)
  BY DEF Zeroes
<1>4. /\ r \in Regs /\ r.tag = ur.tag /\ r.max = ur.max /\ r.warm = ur.warm
      /\ r.happen = ur.happen
  BY <1>1, <1>3, CountedIs
<1> HIDE DEF r
<1>5. CASE Starts(comp, "set") # {}
  <2>1. rstate # "rollback"
    BY <1>1, <1>5 DEF Finishing, Starts
  <2>2. /\ Starts(comp, "set") = {1} /\ Len(rob) = 1 /\ rob[1].i.k = "set"
        /\ rob[1].st = "wait" /\ rob[1].exc = None
    BY <1>1, <1>5, <2>1, StartIs
  <2>3. ur' = SetReg(r, rob[1].i)
    <3>1. (CHOOSE j \in Starts(comp, "set") : TRUE) = 1
      BY <2>2
    <3> QED
      BY <1>1, <1>2, <1>5, <3>1 DEF Written
  <2>4. rob[1].i.r # "max"
    BY <2>2 DEF Zeroes
  <2>5. ur'.max = ur.max
    BY <1>4, <2>3, <2>4 DEF SetReg, Regs
  <2>6. rob[1].i.r = "func" => ur'.tag = ur.tag /\ ur'.warm = ur.warm
    BY <1>4, <2>3 DEF SetReg, Regs
  <2>7. UserPhase
    <3>1. CASE KernelPhase
      BY <1>1, <1>5, <3>1, KernelStep DEF CInv, IInv
    <3>2. CASE Calling \/ Called \/ Returning \/ Returned
      <4>1. comp = {}
        BY <1>1, <3>2, CallStep
      <4> QED
        BY <1>5, <4>1, IdleIs
    <3> QED
      BY <1>1, <3>1, <3>2 DEF Phases
  <2>8. ASSUME Armed, ~Armed' PROVE SampleValid /\ ~Exceeded
    <3>1. SampleValid
      BY <2>7, <2>8 DEF UserPhase, Armed, SampleValid, IsTargetProc
    <3>2. rob[1].i.r # "func"
      BY <2>5, <2>6, <2>8 DEF Armed
    <3>3. ~OverflowEvent
      BY <2>2, <3>2 DEF SetsWhileDue
    <3> QED
      BY <3>1, <3>3 DEF OverflowEvent
  <2> QED
    BY <2>5, <2>8
<1>6. ASSUME Starts(comp, "set") = {}
      PROVE  ur'.tag = ur.tag /\ ur'.max = ur.max /\ ur'.warm = ur.warm
  <2>1. CASE Starts(comp, "exitpc") # {}
    <3>1. ur' = [r EXCEPT !.temp = r.exitPC]
      BY <1>1, <1>2, <1>6, <2>1 DEF Written
    <3> QED
      BY <1>4, <3>1 DEF Regs
  <2>2. CASE Starts(comp, "exitpc") = {} /\ Starts(comp, "sret") # {}
    <3>1. ur' = SoftwareRearm(r)
      BY <1>1, <1>2, <1>6, <2>2 DEF Written
    <3>2. ASSUME ur.happen = 1, cpu.cause = "ecall" PROVE FALSE
      <4>1. SoftwareRearm(ur).happen = 0
        BY <1>1, <3>2 DEF SoftwareRearm, Regs
      <4>2. SoftwareRearm(ur) = ur
        BY <2>2 DEF Zeroes
      <4> QED
        BY <3>2, <4>1, <4>2
    <3>3. ur' = r
      BY <1>4, <3>1, <3>2 DEF SoftwareRearm
    <3> QED
      BY <1>4, <3>3
  <2>3. CASE Starts(comp, "exitpc") = {} /\ Starts(comp, "sret") = {}
    <3>1. ur' = r
      BY <1>1, <1>2, <1>6, <2>3 DEF Written
    <3> QED
      BY <1>4, <3>1
  <2> QED
    BY <2>1, <2>2, <2>3
<1> QED
  BY <1>5, <1>6 DEF Armed

\* A sample that is due stays due while the program runs.
LEMMA DueStays ==
    ASSUME CInv, ~SetsWhileDue, UserPhase, rstate # "rollback", OverflowEvent,
           NEW c, NEW n, NEW ks, NEW irq, NEW mis, NEW comp, NEW flt, NEW ev, NEW rbk,
           Clocked(c, n, ks, irq, mis, comp, flt, ev, rbk), UserPhase'
    PROVE  OverflowEvent'
<1>1. TypeOK /\ Alone /\ Fresh /\ comp \subseteq Finishing /\ ev \in 0..1
  BY ChoicesAre DEF CInv, IInv
<1>2. xcptD.cause = None /\ SampleValid /\ Armed /\ Exceeded
  BY DEF UserPhase, OverflowEvent, SampleValid, IsTargetProc, Armed
<1>3. Starts(comp, "sret") = {}
  <2>1. Starts(comp, "ecall") = {}
    <3>1. IsUserMode'
      BY DEF UserPhase
    <3> QED
      BY <1>1, <3>1, UserCalls
  <2> QED
    BY <1>1, <2>1, UserRuns
<1>4. ~Zeroes(comp)
  <2>1. ~IsOverFlowExcpt
    BY <1>2 DEF IsOverFlowExcpt, None
  <2>2. ~WarmupValid
    BY <1>2 DEF SampleValid, WarmupValid
  <2>3. ASSUME NEW j \in Starts(comp, "set"), rob[j].i.r = "max" PROVE FALSE
    <3>1. /\ j \in 1..Len(rob) /\ rob[j].i.k = "set" /\ rob[j].st = "wait"
          /\ rob[j].exc = None
      BY <1>1, <2>3 DEF Starts, Finishing, Waiting
    <3> QED
      BY <2>3, <3>1 DEF SetsWhileDue
  <2> QED
    BY <1>3, <2>1, <2>2, <2>3 DEF Zeroes
<1>5. Armed' /\ ur'.max = ur.max
  BY <1>2, <1>4, ArmedStep
<1>6. ur'.now = ur.now + EventInc(ev)
  BY <1>2, <1>3, <1>4, NowIs DEF CInv
<1>7. ur'.now > ur'.max
  <2>1. ur.now \in Nat /\ ur.max \in Nat /\ EventInc(ev) \in Nat
    BY <1>1, CountersAre
  <2> QED
    BY <1>2, <1>5, <1>6, <2>1 DEF Exceeded
<1>8. IsUserMode'
  BY DEF UserPhase
<1> QED
  BY <1>5, <1>7, <1>8 DEF OverflowEvent, SampleValid, IsTargetProc, Exceeded, Armed

\* A mark that is in flight after a cycle was in flight before it, or a sample
\* was due.
LEMMA MarksFrom ==
    ASSUME CInv, UserPhase, rstate # "rollback",
           NEW c, NEW n, NEW ks, NEW irq, NEW mis, NEW comp, NEW flt, NEW ev, NEW rbk,
           Clocked(c, n, ks, irq, mis, comp, flt, ev, rbk), MarkedInFlight'
    PROVE  MarkedInFlight \/ OverflowEvent
<1>1. /\ TypeOK /\ Dispatched \in 0..Len(ren2) /\ Len(ren2) \in Nat /\ Len(rob) \in Nat
      /\ comp \subseteq Finishing /\ flt \subseteq Loads
  BY ChoicesAre, DispatchIs, LengthsAre DEF CInv, IInv
<1>2. Dispatched > 0 => flushD.t = "none"
  <2>1. Dispatched > 0 => 1 \in 1..Dispatched
    BY <1>1
  <2>2. \A j \in 1..Dispatched : ~DispatchHazard(j)
    BY <1>1, DispatchedIs DEF DispatchCounts
  <2> QED
    BY <2>1, <2>2 DEF DispatchHazard, Redirecting
<1>3. ASSUME NEW j \in 1..Len(rob'), Marked(rob'[j]) PROVE MarkedInFlight
  <2>1. CASE \E i \in 1..Len(rob) : rob'[j] = Executed(comp, flt)[i]
    <3>1. PICK i \in 1..Len(rob) : rob'[j] = Executed(comp, flt)[i]
      BY <2>1
    <3>2. \/ Executed(comp, flt)[i].exc = rob[i].exc
          \/ Executed(comp, flt)[i].exc = "fault"
      BY <1>1, KeepsIs
    <3>3. Marked(rob[i])
      BY <1>3, <3>1, <3>2 DEF Marked
    <3> QED
      BY <3>3 DEF MarkedInFlight
  <2>2. CASE \E i \in 1..Dispatched : rob'[j] = ren2[i]
    <3>1. PICK i \in 1..Dispatched : rob'[j] = ren2[i]
      BY <2>2
    <3>2. i \in 1..Len(ren2) /\ Dispatched > 0
      BY <1>1
    <3>3. Marked(ren2[i])
      BY <1>3, <3>1 DEF Marked
    <3> QED
      BY <1>2, <3>2, <3>3 DEF MarkedInFlight
  <2> QED
    BY <1>1, <2>1, <2>2, RobOriginIs
<1>4. ASSUME NEW j \in 1..Len(ren2'), Marked(ren2'[j]) PROVE MarkedInFlight \/ OverflowEvent
  <2>1. CASE \E i \in 1..Len(ren2) : ren2'[j] = ren2[i]
    <3>1. PICK i \in 1..Len(ren2) : ren2'[j] = ren2[i]
      BY <2>1
    <3>2. Marked(ren2[i])
      BY <1>4, <3>1 DEF Marked
    <3>3. flushD.t = "none"
      <4>1. ren2' # <<>>
        <5>1. ren2' = <<>> => Len(ren2') = 0
          OBVIOUS
        <5> QED
          BY <5>1
      <4>2. ~Redirecting
        BY <4>1, Ren2Is
      <4> QED
        BY <4>2 DEF Redirecting
    <3> QED
      BY <3>2, <3>3 DEF MarkedInFlight
  <2>2. CASE ~\E i \in 1..Len(ren2) : ren2'[j] = ren2[i]
    <3>1. TypeOK
      BY <1>1
    <3>2. ren2'[j].exc = DecodeXcpt(irq)
      BY <2>2, <3>1, Ren2ExcIs
    <3> QED
      BY <1>4, <3>2 DEF Marked, DecodeXcpt, None
  <2> QED
    BY <2>1, <2>2
<1>5. ASSUME xcptD'.cause = "overflow" PROVE MarkedInFlight
  <2>1. Throws /\ rob[1].exc = "overflow"
    BY <1>5, RegistersAre DEF NoXcpt, None
  <2>2. 1 \in 1..Len(rob)
    BY <1>1, <2>1 DEF Throws, TypeOK
  <2> QED
    BY <2>1, <2>2 DEF MarkedInFlight, Marked
<1> QED
  BY <1>3, <1>4, <1>5 DEF MarkedInFlight, Marked

\* As long as the program does not set its registers then, a sample is due as
\* long as a mark is in flight.
LEMMA DueStep ==
    ASSUME CInv, Due, ~SetsWhileDue,
           NEW c, NEW n, NEW ks, NEW irq, NEW mis, NEW comp, NEW flt, NEW ev, NEW rbk,
           Clocked(c, n, ks, irq, mis, comp, flt, ev, rbk)
    PROVE  Due'
<1>1. TypeOK /\ Squashed /\ Fresh /\ Alone /\ Phases
  BY DEF CInv, IInv
<1> SUFFICES ASSUME IsUserMode', MarkedInFlight' PROVE OverflowEvent'
  BY DEF Due
<1>2. ASSUME rob' = <<>> \/ rstate' = "rollback", ren2' = <<>>, xcptD'.cause = None
      PROVE  FALSE
  BY <1>2 DEF MarkedInFlight, None, Marked
<1>3. CASE UserPhase /\ rstate = "rollback"
  BY <1>1, <1>2, <1>3, RollbackStep
<1>4. CASE UserPhase /\ rstate # "rollback"
  <2>1. UserPhase'
    <3>1. Starts(comp, "ecall") = {}
      BY <1>1, <1>4, UserCalls
    <3> QED
      BY <1>1, <1>4, <3>1, UserRuns
  <2>2. OverflowEvent
    BY <1>4, MarksFrom DEF Due, UserPhase
  <2> QED
    BY <1>4, <2>1, <2>2, DueStays
<1>5. CASE KernelPhase
  BY <1>1, <1>5, KernelStep
<1>6. CASE Calling \/ Called \/ Returning
  <2>1. ~IsUserMode'
    <3>1. cpu' = [cpu EXCEPT !.d1 = cpu.prv, !.d2 = cpu.d1]
      BY <1>1, <1>6, CompletesStep, RedirectsStep DEF Calling, Called, Returning
    <3>2. cpu \in [prv : {0, 1}, d1 : {0, 1}, d2 : {0, 1}, epc : Nat,
                   cause : Causes \cup {"ecall"}]
      BY <1>1 DEF TypeOK
    <3>3. cpu.prv = 1 \/ cpu.d1 = 1
      BY <1>6 DEF Calling, Called, Returning
    <3> QED
      BY <3>1, <3>2, <3>3 DEF IsUserMode
  <2> QED
    BY <2>1
<1>7. CASE Returned
  <2>1. rob' = <<>> /\ ren2' = <<>> /\ xcptD'.cause = None
    BY <1>1, <1>7, RedirectsStep DEF Returned
  <2> QED
    BY <1>2, <2>1
<1> QED
  BY <1>1, <1>3, <1>4, <1>5, <1>6, <1>7 DEF Phases

\* The cause that reaches the CSR file.
LEMMA HiddenStep ==
    ASSUME CInv, Due, OverflowHidden,
           NEW c, NEW n, NEW ks, NEW irq, NEW mis, NEW comp, NEW flt, NEW ev, NEW rbk,
           Clocked(c, n, ks, irq, mis, comp, flt, ev, rbk)
    PROVE  OverflowHidden'
<1>1. cpu' = CpuAfter(comp) /\ cpu.cause # "overflow"
  BY RegistersAre DEF OverflowHidden
<1>2. cpu \in [prv : {0, 1}, d1 : {0, 1}, d2 : {0, 1}, epc : Nat, cause : Causes \cup {"ecall"}]
  BY DEF CInv, IInv, TypeOK
<1>3. CASE TrapTaken
  <2>1. UserPhase
    BY <1>3 DEF TrapTaken, CInv, Phases, KernelPhase, Calling, Called, Returning, Returned,
                Completes, Redirects
  <2>2. TrapCause # "overflow"
    <3>1. xcptD.cause = "overflow" => OverflowEvent
      BY <2>1 DEF Due, MarkedInFlight, UserPhase
    <3> QED
      BY <3>1 DEF TrapCause, IsOverFlowExcpt
  <2>3. cpu'.cause = TrapCause
    <3>1. cpu' = [[cpu EXCEPT !.d1 = cpu.prv, !.d2 = cpu.d1]
                     EXCEPT !.prv = 1, !.epc = xcptD.pc, !.cause = TrapCause]
      BY <1>1, <1>3 DEF CpuAfter
    <3> QED
      BY <1>2, <3>1
  <2> QED
    BY <2>2, <2>3 DEF OverflowHidden
<1>4. CASE ~TrapTaken
  <2>1. cpu'.cause = "ecall" \/ cpu'.cause = cpu.cause
    <3> DEFINE s == [cpu EXCEPT !.d1 = cpu.prv, !.d2 = cpu.d1]
    <3>1. CASE Starts(comp, "ecall") # {}
      <4>1. cpu' = [s EXCEPT !.prv = 1, !.cause = "ecall",
                             !.epc = rob[CHOOSE j \in Starts(comp, "ecall") : TRUE].pc]
        BY <1>1, <1>4, <3>1 DEF CpuAfter
      <4> QED
        BY <1>2, <4>1
    <3>2. CASE Starts(comp, "ecall") = {} /\ Starts(comp, "sret") # {}
      <4>1. cpu' = [s EXCEPT !.prv = 0, !.epc = ResumePC]
        BY <1>1, <1>4, <3>2 DEF CpuAfter
      <4> QED
        BY <1>2, <4>1
    <3>3. CASE Starts(comp, "ecall") = {} /\ Starts(comp, "sret") = {}
      <4>1. cpu' = s
        BY <1>1, <1>4, <3>3, CpuShifts
      <4> QED
        BY <1>2, <4>1
    <3> QED
      BY <3>1, <3>2, <3>3
  <2> QED
    BY <1>1, <2>1 DEF OverflowHidden
<1> QED
  BY <1>3, <1>4

\* While the program leaves its registers alone when a sample is due, every step
\* keeps the invariant of the marks.
LEMMA NextHInv == HInv /\ ~SetsWhileDue /\ [Next]_vars => HInv'
<1> SUFFICES ASSUME HInv, ~SetsWhileDue, [Next]_vars PROVE HInv'
  OBVIOUS
<1>1. CInv'
  BY NextCInv DEF HInv
<1>2. CASE Next
  <2>1. PICK c \in 0..CoreWidth, n \in 0..CoreWidth, ks \in {"kern", "sret"}, irq \in BOOLEAN,
             mis \in BOOLEAN, rbk \in BOOLEAN, comp \in SUBSET Finishing, flt \in SUBSET Loads,
             ev \in 0..1 : Clocked(c, n, ks, irq, mis, comp, flt, ev, rbk)
    BY <1>2 DEF Next, Clocked
  <2>2. Due'
    BY <2>1, DueStep DEF HInv
  <2>3. OverflowHidden'
    BY <2>1, HiddenStep DEF HInv
  <2> QED
    BY <1>1, <2>2, <2>3 DEF HInv
<1>3. CASE UNCHANGED vars
  BY <1>1, <1>3 DEF vars, HInv, Due, OverflowHidden, IsUserMode, MarkedInFlight, Marked,
                    OverflowEvent, SampleValid, Exceeded, IsTargetProc
<1> QED
  BY <1>2, <1>3

\* The overflow mark never reaches the CSR file as a cause (core.scala
\* 1292-1310), for every program, width and ROB size, as long as the program
\* does not set its sampling registers while a sample is due.
THEOREM OverflowHiddenHolds == Spec /\ []~SetsWhileDue => []OverflowHidden
<1>1. Init => HInv
  <2> SUFFICES ASSUME Init PROVE HInv
    OBVIOUS
  <2>1. Due /\ OverflowHidden
    BY DEF Init, Due, OverflowHidden, MarkedInFlight, NoXcpt, None, IsUserMode, Marked
  <2> QED
    BY <2>1, InitCInv DEF HInv
<1>2. HInv => OverflowHidden
  BY DEF HInv
<1> QED
  BY <1>1, <1>2, NextHInv, PTL DEF Spec

-----------------------------------------------------------------------------
(* How late a sample is.  Unmarked(k): the uops without a mark are among the k
   oldest of the ROB and ren2; Live: the program's uops may still commit. *)
Unmarked(k) ==
    /\ \A j \in 1..Len(rob) : j > k => Marked(rob[j])
    /\ \A j \in 1..Len(ren2) : Len(rob) + j > k => Marked(ren2[j])
Live  == rstate # "rollback" /\ flushD.t = "none" /\ IsUserMode
Bound == ur.max + RobSize + 2 * CoreWidth

Sizes ==
    /\ commD <= CoreWidth /\ Len(ren2) <= CoreWidth /\ commD + Len(rob) <= RobSize
    /\ flushD.t = "uret" => rob = <<>>

\* An armed counter over its threshold: the uops that can still be counted fit
\* under the bound.
Exceeds ==
    Exceeded => IF Live THEN \E k \in Nat : Unmarked(k) /\ ur.now + commD + k <= Bound
                ELSE ur.now + (IF SampleValid THEN commD ELSE 0) <= Bound

Late == EventSel = 0 => IF Armed THEN Exceeds ELSE ur.now <= ur.max + CoreWidth

LInv == CInv /\ Sizes /\ Late

\* No more uops than fit are in flight; a uret leaves an empty ROB.
LEMMA SizesStep ==
    ASSUME CInv, Sizes,
           NEW c, NEW n, NEW ks, NEW irq, NEW mis, NEW comp, NEW flt, NEW ev, NEW rbk,
           Clocked(c, n, ks, irq, mis, comp, flt, ev, rbk)
    PROVE  Sizes'
<1>1. /\ TypeOK /\ Squashed /\ Alone /\ CoreWidth \in Nat /\ RobSize \in Nat
      /\ c \in Nat /\ c <= CoreWidth /\ n \in Nat /\ n <= CoreWidth /\ c \in CommitCounts
      /\ comp \subseteq Finishing /\ flt \subseteq Loads /\ commD' = c
      /\ Len(rob) \in Nat /\ Len(ren2) \in Nat /\ commD \in Nat
  BY ChoicesAre, RegistersAre, LengthsAre, CoreAssumption DEF CInv, IInv, TypeOK
<1>2. CASE rstate = "rollback"
  <2>1. /\ c = 0 /\ ren2' = <<>> /\ flushD'.t = "none"
        /\ rob' = <<>> \/ rob' = rob
    BY <1>1, <1>2, RollbackStep
  <2>2. Len(ren2') = 0 /\ (rob' = <<>> => Len(rob') = 0)
    BY <2>1
  <2>3. Len(rob') <= Len(rob)
    BY <1>1, <2>1, <2>2
  <2> QED
    BY <1>1, <2>1, <2>2, <2>3 DEF Sizes
<1>3. CASE rstate # "rollback"
  <2>1. /\ Len(rob') = (Upto(comp) - c) + Joining(comp) /\ rob' \in Seq(Uops)
        /\ c \in 0..Upto(comp) /\ Upto(comp) \in 0..Len(rob) /\ Joining(comp) \in 0..Len(ren2)
    <3>1. Follows(rob', Upto(comp) - c, Joining(comp), c, Executed(comp, flt))
      BY <1>1, <1>3, RegistersAre, RobAfterIs
    <3>2. /\ c \in 0..Upto(comp) /\ Upto(comp) \in 0..Len(rob)
          /\ Joining(comp) \in 0..Len(ren2)
      BY <1>1, CommitsBefore
    <3> QED
      BY <3>1, <3>2 DEF Follows
  <2>2. Joining(comp) > 0 => Len(rob) + Joining(comp) <= RobSize
    <3>1. ASSUME Joining(comp) > 0 PROVE Len(rob) + Joining(comp) <= RobSize
      <4>1. Joining(comp) = Dispatched /\ Dispatched \in 1..Dispatched
        BY <1>1, <2>1, <3>1 DEF Joining
      <4>2. ~DispatchHazard(Dispatched)
        BY <1>1, <4>1, DispatchedIs DEF DispatchCounts
      <4> QED
        BY <1>1, <2>1, <4>1, <4>2 DEF DispatchHazard
    <3> QED
      BY <3>1
  <2>3. c + Len(rob') <= RobSize
    <3>1. Upto(comp) + Joining(comp) <= RobSize
      BY <1>1, <2>1, <2>2 DEF Sizes
    <3> QED
      BY <1>1, <2>1, <3>1
  <2>4. Len(ren2') <= CoreWidth
    <3>1. CASE ren2' = <<>>
      <4>1. Len(ren2') = 0
        BY <3>1
      <4> QED
        BY <1>1, <4>1
    <3>2. CASE n > 0
      <4>1. ren2' = Bundle(n, ks, irq, mis) /\ Fetchable(n)
        BY <3>2, Ren2Is, ChoicesAre DEF Decodable
      <4>2. Len(ren2') = n
        BY <1>1, <4>1, ChoicesAre, BundleIs
      <4> QED
        BY <1>1, <4>2
    <3>3. CASE ren2' # <<>> /\ ~(n > 0)
      <4>1. ren2' = SubSeq(ren2, Dispatched + 1, Len(ren2))
        BY <1>1, <3>3, Ren2Is
      <4>2. Dispatched \in 0..Len(ren2) /\ ren2 \in Seq(Uops)
        BY <1>1, DispatchIs DEF TypeOK
      <4>3. Len(ren2') = Len(ren2) - Dispatched
        BY <1>1, <4>1, <4>2, SubSeqIs
      <4> QED
        BY <1>1, <4>2, <4>3 DEF Sizes
    <3> QED
      BY <3>1, <3>2, <3>3
  <2>5. ASSUME flushD'.t = "uret" PROVE rob' = <<>>
    <3>1. c > 0 /\ rob[c].i.k = "uret"
      <4>1. flushD' = Flush(c)
        BY RegistersAre
      <4> QED
        BY <2>5, <4>1 DEF Flush, FlushOf, NoFlush
    <3>2. Len(rob) = 1 /\ rstate # "normal"
      <4>1. c \in 1..Len(rob)
        BY <1>1, <2>1, <3>1
      <4>2. IsUnique(rob[c])
        BY <3>1 DEF IsUnique
      <4> QED
        BY <1>1, <4>1, <4>2 DEF Alone
    <3>3. Joining(comp) = 0
      <4>1. Dispatched = 0
        BY <1>1, <3>2, DispatchIs
      <4> QED
        BY <4>1 DEF Joining
    <3>4. Len(rob') = 0
      BY <1>1, <2>1, <3>1, <3>2, <3>3
    <3> QED
      BY <2>1, <3>4
  <2> QED
    BY <1>1, <2>3, <2>4, <2>5 DEF Sizes
<1> QED
  BY <1>2, <1>3

\* When the program's uops cannot commit any more, none is counted, and when
\* they can again they are new ones.
LEMMA DeadStep ==
    ASSUME CInv, Sizes, ~Live,
           NEW c, NEW n, NEW ks, NEW irq, NEW mis, NEW comp, NEW flt, NEW ev, NEW rbk,
           Clocked(c, n, ks, irq, mis, comp, flt, ev, rbk)
    PROVE  /\ IsUserMode' => c = 0
           /\ Live' => rob' = <<>> /\ ren2' = <<>>
<1>1. TypeOK /\ Squashed /\ Fresh /\ Alone /\ Phases
  BY DEF CInv, IInv
<1>2. CASE UserPhase /\ rstate = "rollback"
  <2>1. c = 0 /\ ren2' = <<>> /\ (rob' = <<>> \/ rstate' = "rollback")
    BY <1>1, <1>2, RollbackStep
  <2> QED
    BY <2>1 DEF Live
<1>3. CASE UserPhase /\ rstate # "rollback"
  <2>1. flushD.t = "uret" /\ rob = <<>> /\ Redirecting
    <3>1. flushD.t \in {"none", "xcpt", "uret", "eret"}
      BY <1>1 DEF TypeOK
    <3>2. flushD.t # "none"
      BY <1>3 DEF Live, UserPhase
    <3>3. flushD.t # "eret" /\ flushD.t # "xcpt"
      BY <1>3 DEF UserPhase
    <3> QED
      BY <3>1, <3>2, <3>3 DEF Sizes, Redirecting
  <2>2. Len(rob) = 0 /\ c \in CommitCounts /\ comp \subseteq Finishing /\ flt \subseteq Loads
    BY <2>1, ChoicesAre
  <2>3. c = 0 /\ Upto(comp) = 0
    <3>1. c \in 0..Upto(comp) /\ Upto(comp) \in 0..Len(rob)
      BY <1>1, <2>2, CommitsBefore
    <3> QED
      BY <2>2, <3>1
  <2>4. Joining(comp) = 0
    <3>1. \A j \in 1..Dispatched : ~DispatchHazard(j)
      BY <1>1, DispatchedIs DEF DispatchCounts
    <3>2. Dispatched \in 0..Len(ren2) /\ Len(ren2) \in Nat
      BY <1>1, DispatchIs, LengthsAre
    <3>3. Dispatched = 0
      BY <2>1, <3>1, <3>2 DEF DispatchHazard
    <3> QED
      BY <3>3 DEF Joining
  <2>5. rob' = <<>>
    <3>1. Follows(rob', Upto(comp) - c, Joining(comp), c, Executed(comp, flt))
      BY <1>1, <1>3, <2>2, RegistersAre, RobAfterIs
    <3>2. rob' \in Seq(Uops) /\ Len(rob') = 0
      BY <2>3, <2>4, <3>1 DEF Follows
    <3> QED
      BY <3>2
  <2>6. ren2' = <<>>
    BY <2>1, Ren2Is
  <2> QED
    BY <2>3, <2>5, <2>6
<1>4. CASE KernelPhase
  <2>1. ~IsUserMode'
    BY <1>1, <1>4, KernelStep
  <2> QED
    BY <2>1 DEF Live
<1>5. CASE Calling \/ Called \/ Returning \/ Returned
  <2>1. IsUserMode' => c = 0 /\ rob' = <<>> /\ ren2' = <<>>
    BY <1>1, <1>5, CallStep
  <2> QED
    BY <2>1 DEF Live
<1> QED
  BY <1>1, <1>2, <1>3, <1>4, <1>5 DEF Phases

\* Counter, row, ROB and ren2 add up to the bound.
LEMMA Fits ==
    ASSUME NEW now \in Nat, NEW max \in Nat, NEW w \in Nat, NEW r \in Nat, NEW d \in Nat,
           NEW a \in Nat, NEW b \in Nat, now <= max + w, d + a <= r, b <= w
    PROVE  now + d + (a + b) <= max + r + 2 * w
  OBVIOUS

\* The bound when nothing is marked.
LEMMA FitsAlone ==
    ASSUME NEW now \in Nat, NEW max \in Nat, NEW w \in Nat, NEW r \in Nat, NEW d \in Nat,
           now <= max + w, d <= w
    PROVE  now + d <= max + r + 2 * w
  OBVIOUS

\* All that is in flight fits under the bound when the counter is less than a
\* bundle over the threshold.
LEMMA FitsStep ==
    ASSUME TypeOK', Sizes', (ur.now <= ur.max + CoreWidth)'
    PROVE  Late'
<1>1. /\ CoreWidth \in Nat /\ RobSize \in Nat /\ ur'.now \in Nat /\ ur'.max \in Nat
      /\ commD' \in Nat /\ Len(rob') \in Nat /\ Len(ren2') \in Nat
  <2>1. ur' \in Regs /\ commD' \in Nat /\ rob' \in Seq(Uops) /\ ren2' \in Seq(Uops)
    BY DEF TypeOK
  <2>2. ur'.now \in Nat /\ ur'.max \in Nat
    BY <2>1 DEF Regs
  <2> QED
    BY <2>1, <2>2, CoreAssumption
<1>2. /\ commD' <= CoreWidth /\ Len(ren2') <= CoreWidth /\ commD' + Len(rob') <= RobSize
      /\ ur'.now <= ur'.max + CoreWidth
  BY DEF Sizes
<1>3. ur'.now + commD' <= Bound'
  <2>1. Bound' = ur'.max + RobSize + 2 * CoreWidth
    BY DEF Bound
  <2>2. ur'.now + commD' <= ur'.max + RobSize + 2 * CoreWidth
    BY <1>1, <1>2, FitsAlone
  <2> QED
    BY <1>1, <2>1, <2>2
<1>4. \E k \in Nat : Unmarked(k)' /\ ur'.now + commD' + k <= Bound'
  <2>1. PICK k \in Nat : k = Len(rob') + Len(ren2')
    BY <1>1
  <2>2. Unmarked(k)'
    BY <1>1, <2>1 DEF Unmarked
  <2>3. ur'.now + commD' + k <= Bound'
    <3>1. Bound' = ur'.max + RobSize + 2 * CoreWidth
      BY DEF Bound
    <3> QED
      BY <1>1, <1>2, <2>1, <3>1, Fits
  <2> QED
    BY <2>2, <2>3
<1>5. ur'.now <= Bound'
  BY <1>1, <1>2 DEF Bound
<1>6. Exceeds'
  <2>1. CASE Live'
    BY <1>4, <2>1 DEF Exceeds
  <2>2. CASE ~Live'
    <3>1. ur'.now + (IF SampleValid' THEN commD' ELSE 0) <= Bound'
      BY <1>1, <1>3, <1>5
    <3> QED
      BY <2>2, <3>1 DEF Exceeds
  <2> QED
    BY <2>1, <2>2
<1> QED
  BY <1>2, <1>6 DEF Late

\* What commits while a sample is due was among the unmarked uops, and what is
\* decoded is marked.
LEMMA LiveStep ==
    ASSUME CInv, Sizes, EventSel = 0, Live, Armed, Exceeded,
           NEW k \in Nat, Unmarked(k), ur.now + commD + k <= Bound,
           NEW c, NEW n, NEW ks, NEW irq, NEW mis, NEW comp, NEW flt, NEW ev, NEW rbk,
           Clocked(c, n, ks, irq, mis, comp, flt, ev, rbk),
           ur'.max = ur.max, ur'.now = ur.now + commD
    PROVE  Exceeds'
<1>1. /\ TypeOK /\ rstate # "rollback" /\ c \in CommitCounts /\ c \in Nat /\ commD' = c
      /\ comp \subseteq Finishing /\ flt \subseteq Loads /\ n \in Nat
      /\ Len(rob) \in Nat /\ Len(ren2) \in Nat
      /\ ur.now \in Nat /\ ur.max \in Nat /\ commD \in Nat
      /\ CoreWidth \in Nat /\ RobSize \in Nat
  BY ChoicesAre, RegistersAre, LengthsAre, CoreAssumption DEF CInv, IInv, Live, TypeOK, Regs
<1>2. UserPhase
  BY DEF CInv, Phases, Live, IsUserMode, KernelPhase, Calling, Called, Returning, Returned
<1>3. OverflowEvent
  BY DEF Live, Armed, OverflowEvent, SampleValid, IsTargetProc
<1>4. c \in 0..Len(rob) /\ c <= k
  <2>1. c \in 0..Len(rob) /\ \A j \in 1..c : rob[j].exc = None
    BY <1>1, <1>2, UserCommits
  <2>2. ASSUME c > k PROVE FALSE
    <3>1. c \in 1..c /\ c \in 1..Len(rob)
      BY <1>1, <2>1, <2>2
    <3>2. Marked(rob[c])
      BY <2>2, <3>1 DEF Unmarked
    <3> QED
      BY <2>1, <3>1, <3>2 DEF Marked, None
  <2> QED
    BY <1>1, <2>1, <2>2
<1>5. ur'.now + commD' <= Bound' /\ ur'.now <= Bound' /\ ur'.now + commD' + (k - c) <= Bound'
  <2>1. Bound' = Bound /\ Bound \in Nat
    BY <1>1 DEF Bound
  <2> QED
    BY <1>1, <1>4, <2>1
<1>6. Unmarked(k - c)'
  <2> DEFINE up == Upto(comp) - c
             d  == Joining(comp)
  <2>1. Follows(rob', up, d, c, Executed(comp, flt))
    BY <1>1, RegistersAre, RobAfterIs
  <2>2. /\ c \in 0..Upto(comp) /\ Upto(comp) \in 0..Len(rob) /\ d \in 0..Len(ren2)
        /\ d > 0 => Upto(comp) = Len(rob)
        /\ Mispredict(comp) = 0 => Upto(comp) = Len(rob) /\ d = Dispatched
    BY <1>1, CommitsBefore DEF Upto, Joining
  <2>3. up \in Nat /\ Len(rob') = up + d /\ up + c = Upto(comp) /\ d \in Nat
    BY <1>1, <2>1, <2>2 DEF Follows
  <2>4. /\ \A j \in 1..up : j + c \in 1..Len(rob) /\ rob'[j] = Executed(comp, flt)[j + c]
        /\ \A j \in 1..d : rob'[up + j] = ren2[j]
    BY <2>1 DEF Follows
  <2> HIDE DEF up, d
  <2>5. ASSUME NEW j \in 1..Len(rob'), j > k - c PROVE Marked(rob'[j])
    <3>1. CASE j \in 1..up
      <4>1. PICK i \in 1..Len(rob) : i = j + c /\ rob'[j] = Executed(comp, flt)[i]
        BY <2>4, <3>1
      <4>2. Marked(rob[i])
        <5>1. i > k
          BY <1>1, <2>5, <4>1
        <5> QED
          BY <5>1 DEF Unmarked
      <4>3. i \notin comp
        <5>1. rob[i].exc # None
          BY <4>2 DEF Marked, None
        <5> QED
          BY <1>1, <5>1 DEF Finishing, Waiting
      <4>4. Executed(comp, flt)[i] = rob[i]
        <5>1. TypeOK /\ comp \subseteq Finishing /\ flt \subseteq Loads
          BY <1>1
        <5> QED
          BY <4>3, <5>1, KeepsIs
      <4> QED
        BY <4>1, <4>2, <4>4
    <3>2. CASE j \notin 1..up
      <4>1. j - up \in 1..d /\ up + (j - up) = j
        BY <2>3, <3>2
      <4>2. PICK i \in 1..d : i = j - up
        BY <4>1
      <4>3. rob'[j] = ren2[i]
        BY <2>4, <4>1, <4>2
      <4>4. i \in 1..Len(ren2) /\ Len(rob) + i > k
        BY <1>1, <2>2, <2>3, <2>5, <4>2
      <4> QED
        BY <4>3, <4>4 DEF Unmarked
    <3> QED
      BY <3>1, <3>2
  <2>6. ASSUME NEW j \in 1..Len(ren2'), Len(rob') + j > k - c PROVE Marked(ren2'[j])
    <3>1. ~Redirecting /\ Mispredict(comp) = 0
      <4>1. ren2' # <<>>
        <5>1. ren2' = <<>> => Len(ren2') = 0
          OBVIOUS
        <5> QED
          BY <5>1
      <4> QED
        BY <4>1, Ren2Is
    <3>2. CASE n > 0
      <4>0. TypeOK /\ ks \in {"kern", "sret"} /\ n \in Nat /\ irq \in BOOLEAN /\ mis \in BOOLEAN
        BY <1>1, ChoicesAre
      <4>1. ren2' = Bundle(n, ks, irq, mis) /\ Fetchable(n)
        BY <3>2, Ren2Is, ChoicesAre DEF Decodable
      <4>2. Len(ren2') = n
        BY <4>0, <4>1, BundleIs
      <4>3. ren2'[j].exc = DecodeXcpt(irq)
        BY <4>0, <4>1, <4>2, BundleIs
      <4> QED
        BY <1>3, <4>3 DEF Marked, DecodeXcpt
    <3>3. CASE n = 0
      <4>1. ren2' = SubSeq(ren2, Dispatched + 1, Len(ren2))
        BY <3>1, <3>3, Ren2Is
      <4>2. Dispatched \in 0..Len(ren2) /\ ren2 \in Seq(Uops)
        BY <1>1, DispatchIs DEF TypeOK
      <4>3. /\ Len(ren2') = Len(ren2) - Dispatched
            /\ \A i \in 1..(Len(ren2) - Dispatched) : ren2'[i] = ren2[i + Dispatched]
        BY <1>1, <4>1, <4>2, SubSeqIs
      <4>4. PICK i \in 1..Len(ren2) : i = j + Dispatched /\ ren2'[j] = ren2[i]
        <5>1. Len(ren2) \in Nat /\ j \in 1..(Len(ren2) - Dispatched)
          BY <4>2, <4>3
        <5>2. j + Dispatched \in 1..Len(ren2)
          BY <4>2, <5>1
        <5> QED
          BY <4>3, <5>1, <5>2
      <4>5. Len(rob) + i > k
        <5>1. Len(rob') = Len(rob) - c + Dispatched
          <6>1. Upto(comp) = Len(rob) /\ d = Dispatched
            BY <2>2, <3>1
          <6>2. Len(rob') = up + Dispatched /\ up + c = Len(rob)
            BY <2>3, <6>1
          <6>3. up \in Nat /\ c \in Nat /\ Dispatched \in Nat
            BY <1>1, <2>3, <4>2
          <6> QED
            BY <6>2, <6>3
        <5> QED
          BY <1>1, <2>6, <4>2, <4>4, <5>1
      <4> QED
        BY <4>4, <4>5 DEF Unmarked
    <3> QED
      BY <1>1, <3>2, <3>3
  <2> QED
    BY <2>5, <2>6 DEF Unmarked
<1>7. \E m \in Nat : Unmarked(m)' /\ ur'.now + commD' + m <= Bound'
  <2>1. k - c \in Nat
    BY <1>1, <1>4
  <2> QED
    BY <1>5, <1>6, <2>1
<1>8. CASE Live'
  BY <1>7, <1>8 DEF Exceeds
<1>9. CASE ~Live'
  <2>1. ur'.now + (IF SampleValid' THEN commD' ELSE 0) <= Bound'
    BY <1>1, <1>5
  <2> QED
    BY <1>9, <2>1 DEF Exceeds
<1> QED
  BY <1>8, <1>9

\* A cycle keeps every sample within the bound.
LEMMA LateStep ==
    ASSUME LInv, ~SetsWhileDue,
           NEW c, NEW n, NEW ks, NEW irq, NEW mis, NEW comp, NEW flt, NEW ev, NEW rbk,
           Clocked(c, n, ks, irq, mis, comp, flt, ev, rbk), CInv', Sizes'
    PROVE  Late'
<1>1. /\ CInv /\ Sizes /\ Late /\ TypeOK' /\ ev \in 0..1 /\ c \in Nat /\ commD' = c
      /\ CoreWidth \in Nat /\ RobSize \in Nat /\ ur.now \in Nat /\ ur.max \in Nat
      /\ commD \in Nat /\ ur'.max \in Nat /\ commD <= CoreWidth
  BY ChoicesAre, RegistersAre, CoreAssumption DEF LInv, CInv, IInv, TypeOK, Regs, Sizes
<1> SUFFICES ASSUME EventSel = 0 PROVE Late'
  BY RegistersAre DEF Late, EventSel
<1> DEFINE inc == IF SampleValid THEN commD ELSE 0
<1>2. ur'.now = IF Zeroes(comp) THEN 0 ELSE ur.now + inc
  <2>1. EventInc(ev) = commD
    BY DEF EventInc
  <2>2. Starts(comp, "sret") # {} => xcptD.cause = None
    BY <1>1, PhaseStep DEF CInv
  <2> QED
    BY <1>1, <2>1, <2>2, NowIs DEF CInv
<1>3. SampleValid => Armed
  BY DEF SampleValid, Armed, IsTargetProc
<1>4. inc \in Nat /\ inc <= CoreWidth
  BY <1>1
<1> HIDE DEF inc
<1>5. CASE Zeroes(comp) \/ (Armed /\ ~Exceeded) \/ (~Armed /\ ur.now <= ur.max + CoreWidth)
  <2>1. ur'.now <= ur'.max + CoreWidth
    <3>1. CASE Zeroes(comp)
      BY <1>1, <1>2, <3>1
    <3>2. CASE ~Zeroes(comp) /\ Armed /\ ~Exceeded
      <4>1. ur'.max = ur.max
        BY <1>1, <3>2, ArmedStep
      <4> QED
        BY <1>1, <1>2, <1>4, <3>2, <4>1 DEF Exceeded
    <3>3. CASE ~Zeroes(comp) /\ ~Armed /\ ur.now <= ur.max + CoreWidth
      <4>1. ur'.max = ur.max
        BY <1>1, <3>3, ArmedStep
      <4>2. inc = 0
        BY <1>3, <3>3 DEF inc
      <4> QED
        BY <1>1, <1>2, <3>3, <4>1, <4>2
    <3> QED
      BY <1>5, <3>1, <3>2, <3>3
  <2> QED
    BY <1>1, <2>1, FitsStep
<1>6. CASE ~Zeroes(comp) /\ Armed /\ Exceeded
  <2>1. ur'.max = ur.max /\ Exceeds
    BY <1>1, <1>6, ArmedStep DEF Late
  <2>2. Armed'
    <3>1. CASE SampleValid /\ ~Exceeded
      BY <1>6, <3>1
    <3> QED
      BY <1>1, <1>6, ArmedStep
  <2>3. Exceeds'
    <3>1. CASE Live
      <4>1. PICK k \in Nat : Unmarked(k) /\ ur.now + commD + k <= Bound
        BY <1>6, <2>1, <3>1 DEF Exceeds
      <4>2. inc = commD
        BY <1>6, <3>1 DEF inc, Live, Armed, SampleValid, IsTargetProc
      <4>3. ur'.now = ur.now + commD
        BY <1>2, <1>6, <4>2
      <4> QED
        BY <1>1, <1>6, <2>1, <3>1, <4>1, <4>3, LiveStep
    <3>2. CASE ~Live
      <4>1. ur'.now <= Bound' /\ Bound' = Bound
        BY <1>1, <1>2, <1>6, <2>1, <3>2 DEF Exceeds, Bound, inc
      <4>2. /\ IsUserMode' => c = 0
            /\ Live' => rob' = <<>> /\ ren2' = <<>>
        BY <1>1, <3>2, DeadStep
      <4>3. CASE Live'
        <5>1. c = 0 /\ Len(rob') = 0 /\ Len(ren2') = 0
          BY <4>2, <4>3 DEF Live
        <5>2. Unmarked(0)'
          BY <5>1 DEF Unmarked
        <5>0. ur'.now \in Nat
          BY <1>1 DEF TypeOK, Regs
        <5>3. Bound' \in Nat
          BY <1>1 DEF Bound
        <5>4. ur'.now + commD' + 0 <= Bound'
          BY <1>1, <4>1, <5>0, <5>1, <5>3
        <5> QED
          BY <4>3, <5>2, <5>4 DEF Exceeds
      <4>4. CASE ~Live'
        <5>1. SampleValid' => commD' = 0
          BY <1>1, <4>2 DEF SampleValid
        <5>2. ur'.now \in Nat
          BY <1>1 DEF TypeOK, Regs
        <5>3. ur'.now + (IF SampleValid' THEN commD' ELSE 0) <= Bound'
          BY <4>1, <5>1, <5>2
        <5> QED
          BY <4>4, <5>3 DEF Exceeds
      <4> QED
        BY <4>3, <4>4
    <3> QED
      BY <3>1, <3>2
  <2> QED
    BY <2>2, <2>3 DEF Late
<1> QED
  BY <1>1, <1>5, <1>6 DEF Late

\* While the program leaves its registers alone when a sample is due, every step
\* keeps the invariant of the bound.
LEMMA NextLInv == LInv /\ ~SetsWhileDue /\ [Next]_vars => LInv'
<1> SUFFICES ASSUME LInv, ~SetsWhileDue, [Next]_vars PROVE LInv'
  OBVIOUS
<1>1. CInv'
  BY NextCInv DEF LInv
<1>2. CASE Next
  <2>1. PICK c \in 0..CoreWidth, n \in 0..CoreWidth, ks \in {"kern", "sret"}, irq \in BOOLEAN,
             mis \in BOOLEAN, rbk \in BOOLEAN, comp \in SUBSET Finishing, flt \in SUBSET Loads,
             ev \in 0..1 : Clocked(c, n, ks, irq, mis, comp, flt, ev, rbk)
    BY <1>2 DEF Next, Clocked
  <2>2. Sizes'
    BY <2>1, SizesStep DEF LInv
  <2>3. Late'
    BY <1>1, <2>1, <2>2, LateStep
  <2> QED
    BY <1>1, <2>2, <2>3 DEF LInv
<1>3. CASE UNCHANGED vars
  <2>1. Sizes /\ Late
    BY DEF LInv
  <2>2. Sizes'
    BY <1>3, <2>1 DEF vars, Sizes
  <2>3. Late'
    BY <1>3, <2>1 DEF vars, Late, Exceeds, Exceeded, Armed, Live, IsUserMode, Unmarked, Marked,
                      Bound, SampleValid, IsTargetProc, EventSel
  <2> QED
    BY <1>1, <2>2, <2>3 DEF LInv
<1> QED
  BY <1>2, <1>3

\* A sample is late by at most the uops that were decoded before the threshold
\* was passed (core.scala 392, 793-797), for every program, width and ROB size,
\* as long as the program does not set its registers while a sample is due.
THEOREM OvershootBoundHolds == Spec /\ []~SetsWhileDue => []OvershootBound
<1>1. Init => LInv
  <2> SUFFICES ASSUME Init PROVE LInv
    OBVIOUS
  <2>1. CoreWidth \in Nat /\ RobSize \in Nat
    BY CoreAssumption
  <2>2. Sizes /\ Late
    BY <2>1 DEF Init, Sizes, Late, Armed, NoFlush, Target
  <2> QED
    BY <2>2, InitCInv DEF LInv
<1>2. LInv => OvershootBound
  <2> SUFFICES ASSUME LInv, SampleValid, EventSel = 0
               PROVE  ur.now <= ur.max + RobSize + 2 * CoreWidth
    BY DEF OvershootBound
  <2>1. /\ ur.now \in Nat /\ ur.max \in Nat /\ commD \in Nat /\ CoreWidth \in Nat
        /\ RobSize \in Nat
    BY CoreAssumption DEF LInv, CInv, IInv, TypeOK, Regs
  <2>2. Exceeds
    BY DEF LInv, Late, Armed, SampleValid, IsTargetProc
  <2>3. CASE ~Exceeded
    BY <2>1, <2>3 DEF Exceeded
  <2>4. CASE Exceeded /\ Live
    <3>1. PICK k \in Nat : ur.now + commD + k <= Bound
      BY <2>2, <2>4 DEF Exceeds
    <3> QED
      BY <2>1, <3>1 DEF Bound
  <2>5. CASE Exceeded /\ ~Live
    <3>1. ur.now + commD <= Bound
      BY <2>2, <2>5 DEF Exceeds
    <3> QED
      BY <2>1, <3>1 DEF Bound
  <2> QED
    BY <2>3, <2>4, <2>5
<1> QED
  BY <1>1, <1>2, NextLInv, PTL DEF Spec

-----------------------------------------------------------------------------
(***************************************************************************)
(* Sampling is transparent: the program commits its instructions in order, *)
(* each once.                                                              *)
(***************************************************************************)

\* The pc of the next instruction of the program.
Following == Len(trace) + 1

\* Going on at q, a handler reads the exit pc before it returns.
Ahead(q) == ReadsExitPC(Code, q)

\* An exit pc that is none, that of the next instruction, or one of the handler.
Harmless(q) == q = 0 \/ q = Following \/ q > Last

\* Where the core may go on: at the next instruction of the program, or in the handler
\* if it will return to that.
Resumable(q) ==
    /\ q # 0
    /\ \/ q = Following
       \/ q > Last /\ Harmless(ur.exitPC) /\ (Ahead(q) \/ Harmless(ur.temp))

History == trace \in Seq(Nat) /\ Transparent /\ Len(trace) < Last

Handlers == ur.func # 0 => ur.func > Last /\ Ahead(ur.func)

\* A uop of the program is what is at its pc; one that mispredicts is on the right path.
UopRight(u) == /\ u.pc # 0 => u.pc \in 1..Len(Code) /\ u.i = Code[u.pc] /\ u.i.k # "end"
               /\ u.mis => ~u.wp

UopsRight ==
    /\ rstate # "rollback" => \A j \in 1..Len(rob) : UopRight(rob[j])
    /\ \A j \in 1..Len(ren2) : UopRight(ren2[j])

\* An exitpc of the handler that has begun has read the right one.
ExitRead ==
    rstate # "rollback" =>
        \A j \in 1..Len(rob) :
            rob[j].i.k = "exitpc" /\ rob[j].st # "wait" /\ rob[j].pc > Last => Harmless(ur.temp)

\* The uops on the right path are those from pc q on, and fetch goes on behind them.
Queued == IF rstate = "rollback" THEN 0 ELSE Len(rob)
Path(q) ==
    /\ \A j \in 1..Queued : ~rob[j].wp => rob[j].pc = q + j - 1
    /\ \A j \in 1..Len(ren2) : ~ren2[j].wp => ren2[j].pc = q + Queued + j - 1
    /\ ~fetch.wp => fetch.pc = q + Queued + Len(ren2)

\* Where each phase goes on.
UserFlow ==
    UserPhase =>
        /\ ur.happen = 0
        /\ flushD.t = "none" => \E q \in Nat : Path(q) /\ Resumable(q)
        /\ flushD.t = "uret" => Resumable(flushD.pc)
        /\ flushD.t = "xcpt" => Resumable(xcptD.pc)

KernelFlow ==
    KernelPhase => /\ Resumable(ResumePC)
                   /\ ur.happen = 0 \/ (ur.happen = 1 /\ cpu.cause = "ecall")

CallFlow ==
    /\ Calling => /\ ur.happen = 0 /\ cpu.cause = "ecall"
                  /\ rob[1].pc = cpu.epc /\ Resumable(cpu.epc)
    /\ Called => ur.happen = 0 /\ cpu.cause = "ecall" /\ Resumable(cpu.epc + 1)
    /\ Returning => ur.happen = 0 /\ rob[1].pc = 0 /\ Resumable(cpu.epc)
    /\ Returned => ur.happen = 0 /\ Resumable(flushD.pc)

FlowInv == /\ CInv /\ Sizes /\ History /\ Handlers /\ UopsRight /\ ExitRead
           /\ UserFlow /\ KernelFlow /\ CallFlow

-----------------------------------------------------------------------------
\* What is assumed of the program that runs, and that it does not change.
LEMMA ProgramIs ==
    ASSUME TypeOK
    PROVE  /\ Code \in Seq(UserInsts) /\ Len(Code) \in Nat /\ Last \in 1..Len(Code) /\ Last \in Nat
           /\ Code[Last].k = "end" /\ \A j \in 1..Last : Code[j].k # "uret"
           /\ \A j \in 1..Len(Code) :
                 Code[j].k = "set" /\ Code[j].r = "func" /\ Code[j].v # 0 =>
                     Code[j].v > Last /\ Ahead(Code[j].v)
<1>1. prog \in Programs
  BY DEF TypeOK
<1>2. Code \in Seq(UserInsts) /\ Last \in 1..Len(Code) /\ Code[Last].k = "end"
  BY <1>1, CoreAssumption DEF Code, Last
<1>3. DOMAIN Code = 1..Len(Code) /\ Len(Code) \in Nat
  BY <1>2
<1>4. \A j \in 1..Last : Code[j].k # "uret"
  BY <1>1, HandlerAssumption DEF Code, Last
<1>5. \A j \in DOMAIN Code :
          Code[j].k = "set" /\ Code[j].r = "func" /\ Code[j].v # 0 =>
              Code[j].v > Last /\ Ahead(Code[j].v)
  BY <1>1, HandlerAssumption DEF Code, Last, Ahead
<1> QED
  BY <1>2, <1>3, <1>4, <1>5

\* The program and what its code says stay.
LEMMA SameProgram ==
    ASSUME NEW c, NEW n, NEW ks, NEW irq, NEW mis, NEW comp, NEW flt, NEW ev, NEW rbk,
           Clocked(c, n, ks, irq, mis, comp, flt, ev, rbk)
    PROVE  prog' = prog /\ Code' = Code /\ Last' = Last /\ \A q : Ahead(q)' = Ahead(q)
<1>1. prog' = prog
  BY RegistersAre
<1> QED
  BY <1>1 DEF Code, Last, Ahead

\* A place to go on stays one while the program commits nothing.
LEMMA StaysResumable ==
    ASSUME NEW c, NEW n, NEW ks, NEW irq, NEW mis, NEW comp, NEW flt, NEW ev, NEW rbk,
           Clocked(c, n, ks, irq, mis, comp, flt, ev, rbk), trace' = trace,
           NEW q, Resumable(q), ur'.temp \in {ur.temp, ur.exitPC},
           ur'.exitPC = ur.exitPC \/ Harmless(ur'.exitPC)
    PROVE  Resumable(q)'
<1>1. Following' = Following /\ Last' = Last /\ Ahead(q)' = Ahead(q)
  BY SameProgram DEF Following
<1>2. \A x : Harmless(x) => (x = 0 \/ x = Following' \/ x > Last')
  BY <1>1 DEF Harmless
<1>3. CASE q = Following
  BY <1>1, <1>3 DEF Resumable
<1>4. CASE q # Following
  <2>1. q > Last /\ q # 0 /\ Harmless(ur.exitPC) /\ (Ahead(q) \/ Harmless(ur.temp))
    BY <1>4 DEF Resumable
  <2>2. Harmless(ur'.exitPC) /\ (Ahead(q) \/ Harmless(ur'.temp))
    BY <2>1
  <2>3. Harmless(ur.exitPC)' /\ (Ahead(q)' \/ Harmless(ur.temp)')
    BY <1>1, <1>2, <2>2 DEF Harmless
  <2> QED
    BY <1>1, <2>1, <2>3 DEF Resumable
<1> QED
  BY <1>3, <1>4

\* A place to go on is a harmless exit pc.
LEMMA ResumableHarmless ==
    ASSUME NEW q, Resumable(q)
    PROVE  Harmless(q)
BY DEF Resumable, Harmless

-----------------------------------------------------------------------------
\* What a redirect does to the registers of the sampling.
LEMMA RedirectedIs ==
    ASSUME TypeOK, NEW ev \in 0..1, NEW r, r = Redirected(Counted(ur, ev))
    PROVE  /\ r \in Regs /\ r.func = ur.func /\ r.temp = ur.temp
           /\ r.exitPC = IF Redirecting /\ IsOverFlowExcpt THEN xcptD.pc ELSE ur.exitPC
           /\ r.happen = IF Redirecting /\ IsOverFlowExcpt /\ ur.func = 0 THEN 1 ELSE ur.happen
<1>1. PICK s : s = Counted(ur, ev)
  OBVIOUS
<1>2. s \in Regs /\ s.func = ur.func /\ s.happen = ur.happen
  BY <1>1, CountedIs
<1>3. s.exitPC = ur.exitPC /\ s.temp = ur.temp
  <2>1. ur \in Regs
    BY DEF TypeOK
  <2> QED
    BY <1>1, <2>1 DEF Counted, Regs
<1>4. r = Redirected(s) /\ xcptD.pc \in Nat
  BY <1>1 DEF TypeOK
<1>5. CASE Redirecting /\ IsOverFlowExcpt
  <2>1. r = SampleRegs(s)
    BY <1>4, <1>5 DEF Redirected
  <2>2. r \in Regs
    <3>1. ASSUME NEW t \in Regs PROVE SampleRegs(t) \in Regs
      BY <1>4 DEF SampleRegs, Regs
    <3> QED
      BY <1>2, <2>1, <3>1
  <2>3. PICK p \in Nat : p = xcptD.pc
    BY <1>4
  <2>4. /\ r.func = s.func /\ r.temp = s.temp /\ r.exitPC = p
        /\ r.happen = IF s.func = 0 THEN 1 ELSE s.happen
    BY <1>2, <2>1, <2>3 DEF SampleRegs, Regs
  <2> QED
    BY <1>2, <1>3, <1>5, <2>2, <2>3, <2>4
<1>6. CASE ~(Redirecting /\ IsOverFlowExcpt)
  <2>1. r = s
    BY <1>4, <1>6 DEF Redirected
  <2> QED
    BY <1>2, <1>3, <1>6, <2>1
<1> QED
  BY <1>5, <1>6

\* The registers after a cycle without exception, by the instruction that begins in it.
LEMMA RegsNext ==
    ASSUME IInv, NEW c, NEW n, NEW ks, NEW irq, NEW mis, NEW comp, NEW flt, NEW ev, NEW rbk,
           Clocked(c, n, ks, irq, mis, comp, flt, ev, rbk), xcptD.cause = None
    PROVE  /\ ur'.exitPC = ur.exitPC
           /\ ur'.func = IF Starts(comp, "set") # {} /\ rob[1].i.r = "func"
                         THEN rob[1].i.v ELSE ur.func
           /\ ur'.temp = IF Starts(comp, "exitpc") # {} THEN ur.exitPC ELSE ur.temp
           /\ ur'.happen = IF Starts(comp, "sret") # {} /\ ur.happen = 1 /\ cpu.cause = "ecall"
                           THEN 0 ELSE ur.happen
<1>1. /\ TypeOK /\ Alone /\ ev \in 0..1 /\ comp \subseteq Finishing
      /\ ur' = RegsAfter(comp, ev)
  BY RegistersAre, ChoicesAre DEF IInv
<1>2. PICK r : r = Redirected(Counted(ur, ev))
  OBVIOUS
<1>3. ~IsOverFlowExcpt
  BY DEF IsOverFlowExcpt, None
<1>4. /\ r \in Regs /\ r.func = ur.func /\ r.temp = ur.temp /\ r.exitPC = ur.exitPC
      /\ r.happen = ur.happen /\ ur' = Written(r, comp)
  BY <1>1, <1>2, <1>3, RedirectedIs DEF RegsAfter
<1>5. ASSUME NEW k \in {"set", "exitpc", "sret"}, Starts(comp, k) # {}
      PROVE  /\ Starts(comp, k) = {1}
             /\ \A l \in {"set", "exitpc", "ecall", "sret"} : l # k => Starts(comp, l) = {}
  <2>1. rstate # "rollback"
    BY <1>1, <1>5 DEF Finishing, Starts
  <2> QED
    BY <1>1, <1>5, <2>1, StartIs
<1>6. CASE Starts(comp, "set") # {}
  <2>1. Starts(comp, "set") = {1} /\ Starts(comp, "sret") = {} /\ Starts(comp, "exitpc") = {}
    BY <1>5, <1>6
  <2>2. ur' = SetReg(r, rob[1].i)
    <3>1. (CHOOSE j \in Starts(comp, "set") : TRUE) = 1
      BY <2>1
    <3> QED
      BY <1>4, <1>6, <3>1 DEF Written
  <2>3. /\ ur'.exitPC = r.exitPC /\ ur'.temp = r.temp /\ ur'.happen = r.happen
        /\ ur'.func = IF rob[1].i.r = "func" THEN rob[1].i.v ELSE r.func
    BY <1>4, <2>2 DEF SetReg, Regs
  <2> QED
    BY <1>4, <1>6, <2>1, <2>3
<1>7. CASE Starts(comp, "exitpc") # {}
  <2>1. Starts(comp, "sret") = {} /\ Starts(comp, "set") = {}
    BY <1>5, <1>7
  <2>2. ur' = [r EXCEPT !.temp = r.exitPC]
    BY <1>4, <1>7, <2>1 DEF Written
  <2>3. /\ ur'.exitPC = r.exitPC /\ ur'.temp = r.exitPC /\ ur'.happen = r.happen
        /\ ur'.func = r.func
    BY <1>4, <2>2 DEF Regs
  <2> QED
    BY <1>4, <1>7, <2>1, <2>3
<1>8. CASE Starts(comp, "sret") # {}
  <2>1. Starts(comp, "exitpc") = {} /\ Starts(comp, "set") = {}
    BY <1>5, <1>8
  <2>2. ur' = SoftwareRearm(r)
    BY <1>4, <1>8, <2>1 DEF Written
  <2>3. /\ ur'.exitPC = r.exitPC /\ ur'.temp = r.temp /\ ur'.func = r.func
        /\ ur'.happen = IF r.happen = 1 /\ cpu.cause = "ecall" THEN 0 ELSE r.happen
    BY <1>4, <2>2 DEF SoftwareRearm, Regs
  <2> QED
    BY <1>4, <1>8, <2>1, <2>3
<1>9. CASE Starts(comp, "sret") = {} /\ Starts(comp, "exitpc") = {} /\ Starts(comp, "set") = {}
  <2>1. ur' = r
    BY <1>4, <1>9 DEF Written
  <2> QED
    BY <1>4, <1>9, <2>1
<1> QED
  BY <1>6, <1>7, <1>8, <1>9

-----------------------------------------------------------------------------
\* The nth of the first c numbers is n.
LEMMA NthOfAll ==
    ASSUME NEW c \in Nat, NEW n \in 1..c
    PROVE  Nth(1..c, n) = n
<1>1. ASSUME NEW x \in 1..c PROVE Cardinality({y \in 1..c : y < x}) = x - 1
  <2>1. PICK m \in Nat : m = x - 1
    OBVIOUS
  <2>2. {y \in 1..c : y < x} = 1..m
    BY <2>1
  <2>3. Cardinality(1..m) = m
    BY FS_Interval
  <2> QED
    BY <2>1, <2>2, <2>3
<1>2. \A x \in 1..c : Cardinality({y \in 1..c : y < x}) = n - 1 <=> x = n
  BY <1>1
<1> QED
  BY <1>2 DEF Nth

\* The elements of a sequence that is extended.
LEMMA AppendedIs ==
    ASSUME NEW S, NEW p \in Seq(S), NEW q \in Seq(S)
    PROVE  /\ p \o q \in Seq(S) /\ Len(p \o q) = Len(p) + Len(q)
           /\ \A k \in 1..Len(p) : (p \o q)[k] = p[k]
           /\ \A j \in 1..Len(q) : (p \o q)[Len(p) + j] = q[j]
OBVIOUS

\* What the uops that commit add to the history of the program.
LEMMA TraceNext ==
    ASSUME trace \in Seq(Nat), NEW c, NEW n, NEW ks, NEW irq, NEW mis, NEW comp, NEW flt, NEW ev,
           NEW rbk, Clocked(c, n, ks, irq, mis, comp, flt, ev, rbk)
    PROVE  /\ (\A j \in 1..c : rob[j].pc \notin 1..Last) => trace' = trace
           /\ (\A j \in 1..c : rob[j].pc \in 1..Last /\ rob[j].pc \in Nat) =>
                 /\ trace' \in Seq(Nat) /\ Len(trace') = Len(trace) + c
                 /\ \A k \in 1..Len(trace) : trace'[k] = trace[k]
                 /\ \A j \in 1..c : trace'[Len(trace) + j] = rob[j].pc
<1>1. c \in Nat /\ trace' = trace \o CommittedPCs(c)
  BY ChoicesAre DEF Clocked, Cycle
<1>2. ASSUME \A j \in 1..c : rob[j].pc \notin 1..Last PROVE trace' = trace
  <2>1. InProgram(c) = {}
    BY <1>2 DEF InProgram
  <2>2. Cardinality(InProgram(c)) = 0
    BY <2>1, FS_EmptySet
  <2>3. CommittedPCs(c) = << >>
    BY <2>2 DEF CommittedPCs
  <2> QED
    BY <1>1, <2>3
<1>3. ASSUME \A j \in 1..c : rob[j].pc \in 1..Last /\ rob[j].pc \in Nat
      PROVE  /\ trace' \in Seq(Nat) /\ Len(trace') = Len(trace) + c
             /\ \A k \in 1..Len(trace) : trace'[k] = trace[k]
             /\ \A j \in 1..c : trace'[Len(trace) + j] = rob[j].pc
  <2>1. InProgram(c) = 1..c
    BY <1>3 DEF InProgram
  <2>2. Cardinality(InProgram(c)) = c
    BY <1>1, <2>1, FS_Interval
  <2>3. CommittedPCs(c) = [j \in 1..c |-> rob[j].pc]
    BY <1>1, <2>1, <2>2, NthOfAll DEF CommittedPCs
  <2>4. PICK q : q = CommittedPCs(c)
    OBVIOUS
  <2>5. q \in Seq(Nat) /\ Len(q) = c /\ \A j \in 1..c : q[j] = rob[j].pc
    <3>1. q = [j \in 1..c |-> rob[j].pc]
      BY <2>3, <2>4
    <3>2. \A j \in 1..c : rob[j].pc \in Nat
      BY <1>3
    <3>3. q \in [1..c -> Nat] /\ \A j \in 1..c : q[j] = rob[j].pc
      BY <3>1, <3>2
    <3>4. DOMAIN q = 1..c
      BY <3>1
    <3> QED
      BY <1>1, <3>3, <3>4
  <2>6. trace' = trace \o q
    BY <1>1, <2>4
  <2>7. /\ trace \o q \in Seq(Nat) /\ Len(trace \o q) = Len(trace) + Len(q)
        /\ \A k \in 1..Len(trace) : (trace \o q)[k] = trace[k]
        /\ \A j \in 1..Len(q) : (trace \o q)[Len(trace) + j] = q[j]
    <3>1. trace \in Seq(Nat) /\ q \in Seq(Nat)
      BY <2>5
    <3> QED
      BY <3>1, AppendedIs
  <2> QED
    BY <2>5, <2>6, <2>7
<1> QED
  BY <1>2, <1>3

\* What commits is on the right path.
LEMMA CommitsRight ==
    ASSUME TypeOK, WrongPath, NEW c \in CommitCounts
    PROVE  c \in 0..Len(rob) /\ \A j \in 1..c : ~rob[j].wp
<1>1. c \in Nat /\ c <= Len(rob) /\ \A j \in 1..c : rob[j].st = "done"
  BY DEF CommitCounts, CommitReady
<1>2. Len(rob) \in Nat
  BY LengthsAre
<1>3. ASSUME NEW j \in 1..c, rob[j].wp PROVE FALSE
  <2>1. PICK i \in 1..(j - 1) : Unresolved(rob[i])
    BY <1>1, <1>2, <1>3 DEF WrongPath
  <2> QED
    BY <1>1, <2>1 DEF Unresolved
<1> QED
  BY <1>1, <1>2, <1>3

\* Committing from a place to go on leads to one: the next instruction of the program, or
\* the next of the handler, where exitpc has been read when it is no longer ahead.
LEMMA AdvanceStep ==
    ASSUME TypeOK, Alone, History, UopsRight, ExitRead, rstate # "rollback",
           NEW c, NEW n, NEW ks, NEW irq, NEW mis, NEW comp, NEW flt, NEW ev, NEW rbk,
           Clocked(c, n, ks, irq, mis, comp, flt, ev, rbk),
           NEW q \in Nat, Resumable(q), c \in 0..Len(rob),
           \A j \in 1..c : rob[j].pc = q + j - 1 /\ rob[j].st # "wait",
           ur'.exitPC = ur.exitPC, ur'.temp \in {ur.temp, ur.exitPC},
           c > 0 => ur'.temp = ur.temp
    PROVE  Resumable(q + c)' /\ History'
<1>0. /\ c \in Nat /\ Len(rob) \in Nat /\ q # 0
      /\ Len(Code) \in Nat /\ Last \in 1..Len(Code) /\ Last \in Nat /\ Code[Last].k = "end"
      /\ trace \in Seq(Nat) /\ Transparent /\ Len(trace) \in Nat /\ Len(trace) < Last
  BY LengthsAre, ProgramIs DEF Resumable, History
<1>1. /\ prog' = prog /\ Code' = Code /\ Last' = Last /\ \A x : Ahead(x)' = Ahead(x)
  BY SameProgram
<1>2. ASSUME NEW j \in 1..c
      PROVE  /\ j \in 1..Len(rob) /\ rob[j].pc = q + j - 1 /\ rob[j].pc \in 1..Len(Code)
             /\ rob[j].i = Code[rob[j].pc] /\ rob[j].i.k # "end"
  <2>1. j \in 1..Len(rob) /\ rob[j].pc = q + j - 1 /\ q + j - 1 # 0
    BY <1>0
  <2> QED
    BY <2>1 DEF UopsRight, UopRight
<1>3. CASE trace' = trace /\ c = 0
  <2>1. Resumable(q)'
    BY <1>3, StaysResumable
  <2>2. q + c = q
    BY <1>0, <1>3
  <2>3. History'
    BY <1>0, <1>1, <1>3 DEF History, Transparent
  <2> QED
    BY <2>1, <2>2, <2>3
<1>4. c = 0 => trace' = trace
  <2>1. c = 0 => \A j \in 1..c : rob[j].pc \notin 1..Last
    OBVIOUS
  <2> QED
    BY <1>0, <2>1, TraceNext
<1>5. CASE c > 0 /\ q = Following
  <2>1. q = Len(trace) + 1
    BY <1>5 DEF Following
  <2>2. q + c - 1 < Last
    <3>1. ASSUME q + c - 1 >= Last PROVE FALSE
      <4>1. PICK j \in 1..c : q + j - 1 = Last
        <5>1. Last - q + 1 \in 1..c /\ q + (Last - q + 1) - 1 = Last
          BY <1>0, <2>1, <3>1
        <5> QED
          BY <5>1
      <4>2. rob[j].i = Code[Last] /\ rob[j].i.k # "end"
        BY <1>2, <4>1
      <4> QED
        BY <1>0, <4>2
    <3> QED
      BY <1>0, <3>1
  <2>3. \A j \in 1..c : rob[j].pc = q + j - 1 /\ rob[j].pc \in 1..Last /\ rob[j].pc \in Nat
    BY <1>0, <1>2, <2>2
  <2>4. /\ trace' \in Seq(Nat) /\ Len(trace') = Len(trace) + c
        /\ \A k \in 1..Len(trace) : trace'[k] = trace[k]
        /\ \A j \in 1..c : trace'[Len(trace) + j] = rob[j].pc
    BY <1>0, <2>3, TraceNext
  <2>5. \A k \in 1..Len(trace') : trace'[k] = k
    <3>1. ASSUME NEW k \in 1..Len(trace') PROVE trace'[k] = k
      <4>1. CASE k <= Len(trace)
        <5>1. k \in 1..Len(trace)
          BY <1>0, <4>1
        <5>2. trace[k] = k
          BY <1>0, <5>1 DEF Transparent
        <5> QED
          BY <2>4, <5>1, <5>2
      <4>2. CASE k > Len(trace)
        <5>1. PICK j \in 1..c : k = Len(trace) + j
          <6>1. k - Len(trace) \in 1..c /\ k = Len(trace) + (k - Len(trace))
            BY <1>0, <2>4, <4>2
          <6> QED
            BY <6>1
        <5>2. trace'[k] = q + j - 1
          BY <2>3, <2>4, <5>1
        <5> QED
          BY <1>0, <2>1, <5>1, <5>2
      <4> QED
        BY <1>0, <2>4, <4>1, <4>2
    <3> QED
      BY <3>1
  <2>6. Transparent'
    <3>1. PICK t : t = trace'
      OBVIOUS
    <3>2. t \in Seq(Nat) /\ \A k \in 1..Len(t) : t[k] = k
      BY <2>4, <2>5, <3>1
    <3>3. t = [k \in 1..Len(t) |-> k]
      BY <3>2
    <3> QED
      BY <3>1, <3>3 DEF Transparent
  <2>7. Len(trace') < Last /\ q + c = Len(trace') + 1
    BY <1>0, <2>1, <2>2, <2>4
  <2>8. History'
    BY <1>1, <2>4, <2>6, <2>7 DEF History
  <2>9. Resumable(q + c)'
    BY <1>0, <2>7 DEF Resumable, Following
  <2> QED
    BY <2>8, <2>9
<1>6. CASE c > 0 /\ q # Following
  <2>1. q > Last /\ Harmless(ur.exitPC) /\ (Ahead(q) \/ Harmless(ur.temp))
    BY <1>6 DEF Resumable
  <2>2. \A j \in 1..c : rob[j].pc \notin 1..Last
    BY <1>0, <1>2, <2>1
  <2>3. trace' = trace
    BY <1>0, <2>2, TraceNext
  <2>4. History' /\ Following' = Following
    BY <1>0, <1>1, <2>3 DEF History, Transparent, Following
  <2>5. Ahead(q + c) \/ Harmless(ur.temp)
    <3>1. CASE Harmless(ur.temp)
      BY <3>1
    <3>2. CASE Ahead(q)
      <4>1. PICK e \in q..Len(Code) :
                Code[e].k = "exitpc" /\ \A j \in q..e : Code[j].k # "uret"
        BY <3>2 DEF Ahead, ReadsExitPC
      <4>2. CASE e >= q + c
        <5>1. e \in (q + c)..Len(Code) /\ \A j \in (q + c)..e : j \in q..e
          BY <1>0, <4>1, <4>2
        <5> QED
          BY <4>1, <5>1 DEF Ahead, ReadsExitPC
      <4>3. CASE e < q + c
        <5>1. PICK j \in 1..c : q + j - 1 = e
          <6>1. e - q + 1 \in 1..c /\ q + (e - q + 1) - 1 = e
            BY <1>0, <4>1, <4>3
          <6> QED
            BY <6>1
        <5>2. j \in 1..Len(rob) /\ rob[j].pc = e /\ rob[j].i = Code[e] /\ rob[j].i.k = "exitpc"
          BY <1>2, <4>1, <5>1
        <5>3. rob[j].st # "wait" /\ rob[j].pc > Last
          BY <1>0, <2>1, <4>1, <5>2
        <5>4. Harmless(ur.temp)
          BY <5>2, <5>3 DEF ExitRead
        <5> QED
          BY <5>4
      <4> QED
        BY <1>0, <4>1, <4>2, <4>3
    <3> QED
      BY <2>1, <3>1, <3>2
  <2>6. /\ q + c > Last /\ q + c # 0 /\ ur'.exitPC = ur.exitPC /\ ur'.temp = ur.temp
    BY <1>0, <1>6, <2>1
  <2>7. Harmless(ur.exitPC)' /\ (Ahead(q + c)' \/ Harmless(ur.temp)')
    <3>1. Harmless(ur.exitPC)'
      BY <1>1, <2>1, <2>4, <2>6 DEF Harmless
    <3>2. Harmless(ur.temp) => Harmless(ur.temp)'
      BY <1>1, <2>4, <2>6 DEF Harmless
    <3>3. Ahead(q + c) => Ahead(q + c)'
      BY <1>1, SameProgram DEF Ahead
    <3> QED
      BY <2>5, <3>1, <3>2, <3>3
  <2>8. Resumable(q + c)'
    BY <1>1, <2>6, <2>7 DEF Resumable
  <2> QED
    BY <2>4, <2>8
<1> QED
  BY <1>0, <1>3, <1>4, <1>5, <1>6

-----------------------------------------------------------------------------
\* What decode and fetch do in a cycle without redirect.
LEMMA FrontIs ==
    ASSUME NEW c, NEW n, NEW ks, NEW irq, NEW mis, NEW comp, NEW flt, NEW ev, NEW rbk,
           Clocked(c, n, ks, irq, mis, comp, flt, ev, rbk), flushD.t = "none"
    PROVE  /\ Mispredict(comp) # 0 =>
                 ren2' = <<>> /\ fetch' = [pc |-> rob[Mispredict(comp)].pc + 1, wp |-> FALSE]
           /\ Mispredict(comp) = 0 =>
                 /\ fetch' = [pc |-> NextPC(IF mis THEN n + 1 ELSE n), wp |-> fetch.wp \/ mis]
                 /\ n = 0 => ~mis /\ ren2' = SubSeq(ren2, Dispatched + 1, Len(ren2))
                 /\ n > 0 => /\ Dispatched = Len(ren2) /\ Fetchable(n) /\ (mis => ~fetch.wp)
                             /\ ren2' = Bundle(n, ks, irq, mis)
<1>1. ~Redirecting /\ n \in Nat
  BY ChoicesAre DEF Redirecting
<1>2. ASSUME Mispredict(comp) # 0
      PROVE  ren2' = <<>> /\ fetch' = [pc |-> rob[Mispredict(comp)].pc + 1, wp |-> FALSE]
  BY <1>1, <1>2 DEF Clocked, Cycle
<1>3. Mispredict(comp) = 0 =>
          fetch' = [pc |-> NextPC(IF mis THEN n + 1 ELSE n), wp |-> fetch.wp \/ mis]
  BY <1>1 DEF Clocked, Cycle
<1>4. Decodable(n, ks, mis)
  BY ChoicesAre
<1>5. n > 0 => Dispatched = Len(ren2) /\ Fetchable(n) /\ (mis => ~fetch.wp)
  BY <1>4 DEF Decodable, DecodeReady, CanMispredict
<1>6. n = 0 => ~mis
  BY <1>4 DEF Decodable, CanMispredict
<1> QED
  BY <1>1, <1>2, <1>3, <1>5, <1>6, Ren2Is

\* The uops of a bundle of the program.
LEMMA DecodedIs ==
    ASSUME TypeOK, fetch.pc # 0, NEW n \in Nat, Fetchable(n), NEW ks, NEW irq,
           NEW mis \in BOOLEAN, NEW b, b = Bundle(n, ks, irq, mis), NEW j \in 1..n
    PROVE  /\ Len(b) = n /\ b[j].pc = fetch.pc + j - 1 /\ b[j].i = Code[fetch.pc + j - 1]
           /\ b[j].wp = fetch.wp /\ b[j].mis = (mis /\ j = n)
           /\ fetch.pc + j - 1 \in 1..Len(Code) /\ Code[fetch.pc + j - 1].k # "end"
<1>1. fetch.pc \in Nat /\ fetch.pc > 0
  BY DEF TypeOK
<1>2. PICK p \in Nat : p = fetch.pc + j - 1 /\ p > 0
  <2>1. fetch.pc + j - 1 \in Nat /\ fetch.pc + j - 1 > 0
    BY <1>1
  <2> QED
    BY <2>1
<1>3. NextPC(j - 1) = p
  BY <1>1, <1>2 DEF NextPC
<1>4. InstAt(p, ks) = Code[p]
  BY <1>2 DEF InstAt
<1>5. b[j] = Uop(p, Code[p], DecodeXcpt(irq), fetch.wp, mis /\ j = n)
  BY <1>3, <1>4 DEF Bundle
<1>6. Len(b) = n
  BY DEF Bundle
<1>7. p \in fetch.pc..(fetch.pc + n - 1)
  BY <1>1, <1>2
<1>8. p \in 1..Len(Code) /\ Code[p].k # "end"
  <2>1. Len(Code) \in Nat
    BY ProgramIs
  <2> QED
    BY <1>2, <1>7, <2>1 DEF Fetchable
<1> QED
  BY <1>2, <1>5, <1>6, <1>8 DEF Uop

\* The right path goes on behind what commits.
LEMMA PathStep ==
    ASSUME TypeOK, UopsRight, fetch.pc # 0, flushD.t = "none", rstate # "rollback",
           NEW c, NEW n, NEW ks, NEW irq, NEW mis, NEW comp, NEW flt, NEW ev, NEW rbk,
           Clocked(c, n, ks, irq, mis, comp, flt, ev, rbk), rstate' # "rollback",
           NEW q \in Nat, Path(q)
    PROVE  Path(q + c)'
<1>0. /\ c \in CommitCounts /\ c \in Nat /\ comp \subseteq Finishing /\ flt \subseteq Loads
      /\ n \in Nat /\ mis \in BOOLEAN /\ rob' = RobAfter(c, comp, flt, rbk)
      /\ Len(rob) \in Nat /\ Len(ren2) \in Nat /\ fetch.pc \in Nat
  BY ChoicesAre, RegistersAre, LengthsAre DEF TypeOK
<1> DEFINE U == Upto(comp)  D == Joining(comp)
<1>1. Follows(rob', U - c, D, c, Executed(comp, flt))
  BY <1>0, RobAfterIs
<1>2. c \in 0..U /\ U \in 0..Len(rob) /\ D \in 0..Len(ren2)
  BY <1>0, CommitsBefore
<1>3. /\ Len(rob') = U - c + D
      /\ \A j \in 1..(U - c) : j + c \in 1..Len(rob) /\ rob'[j].wp = rob[j + c].wp
                               /\ rob'[j].pc = rob[j + c].pc
      /\ \A j \in 1..D : rob'[U - c + j] = ren2[j]
  <2>1. ASSUME NEW j \in 1..(U - c)
        PROVE  j + c \in 1..Len(rob) /\ rob'[j].wp = rob[j + c].wp /\ rob'[j].pc = rob[j + c].pc
    <3>1. j + c \in 1..Len(rob) /\ rob'[j] = Executed(comp, flt)[j + c]
      BY <1>1 DEF Follows
    <3> QED
      BY <1>0, <3>1, ExecutedIs
  <2>2. Len(rob') = U - c + D /\ \A j \in 1..D : rob'[U - c + j] = ren2[j]
    BY <1>1 DEF Follows
  <2> QED
    BY <2>1, <2>2
<1>4. Queued = Len(rob) /\ Queued' = Len(rob')
  BY DEF Queued
<1>5. /\ \A j \in 1..Len(rob) : ~rob[j].wp => rob[j].pc = q + j - 1
      /\ \A j \in 1..Len(ren2) : ~ren2[j].wp => ren2[j].pc = q + Len(rob) + j - 1
      /\ ~fetch.wp => fetch.pc = q + Len(rob) + Len(ren2)
  BY <1>4 DEF Path
<1>6. \A j \in 1..(U - c) : ~rob'[j].wp => rob'[j].pc = (q + c) + j - 1
  <2>1. ASSUME NEW j \in 1..(U - c), ~rob'[j].wp PROVE rob'[j].pc = (q + c) + j - 1
    <3>1. j + c \in 1..Len(rob) /\ rob'[j].pc = rob[j + c].pc /\ ~rob[j + c].wp
      BY <1>3, <2>1
    <3>2. rob[j + c].pc = q + (j + c) - 1
      BY <1>5, <3>1
    <3> QED
      BY <1>0, <1>2, <3>1, <3>2
  <2> QED
    BY <2>1
<1>7. CASE Mispredict(comp) # 0
  <2>1. comp \subseteq 1..Len(rob)
    BY <1>0 DEF Finishing, Waiting
  <2>2. PICK m \in 1..Len(rob) : m = Mispredict(comp) /\ rob[m].mis
    <3>1. Mispredict(comp) \in comp /\ rob[Mispredict(comp)].mis
      BY <1>7, <2>1, MispredictIs
    <3> QED
      BY <2>1, <3>1
  <2>3. ~rob[m].wp /\ rob[m].pc = q + m - 1
    BY <1>5, <2>2 DEF UopsRight, UopRight
  <2>4. ren2' = <<>> /\ fetch'.pc = q + m - 1 + 1
    <3>1. fetch' = [pc |-> rob[m].pc + 1, wp |-> FALSE] /\ ren2' = <<>>
      BY <1>7, <2>2, FrontIs
    <3> QED
      BY <2>3, <3>1
  <2>5. U = m /\ D = 0
    BY <1>7, <2>2 DEF Upto, Joining
  <2>6. Len(rob') = m - c /\ Len(ren2') = 0
    BY <1>0, <1>2, <1>3, <2>4, <2>5
  <2>7. fetch'.pc = (q + c) + Len(rob') + Len(ren2')
    BY <1>0, <2>2, <2>4, <2>6
  <2>8. \A j \in 1..Len(rob') : ~rob'[j].wp => rob'[j].pc = (q + c) + j - 1
    BY <1>6, <2>5, <2>6
  <2> QED
    BY <1>4, <2>6, <2>7, <2>8 DEF Path
<1>8. CASE Mispredict(comp) = 0
  <2>1. U = Len(rob) /\ D = Dispatched
    BY <1>8 DEF Upto, Joining
  <2>2. Len(rob') = Len(rob) - c + D
    BY <1>3, <2>1
  <2>3. \A j \in 1..Len(rob') : ~rob'[j].wp => rob'[j].pc = (q + c) + j - 1
    <3>1. ASSUME NEW j \in 1..Len(rob'), ~rob'[j].wp PROVE rob'[j].pc = (q + c) + j - 1
      <4>1. CASE j <= Len(rob) - c
        <5>1. j \in 1..(U - c)
          BY <1>0, <1>2, <2>1, <2>2, <4>1
        <5> QED
          BY <1>6, <3>1, <5>1
      <4>2. CASE j > Len(rob) - c
        <5>1. PICK i \in 1..D : j = Len(rob) - c + i
          <6>1. j - (Len(rob) - c) \in 1..D /\ j = Len(rob) - c + (j - (Len(rob) - c))
            BY <1>0, <1>2, <2>1, <2>2, <4>2
          <6> QED
            BY <6>1
        <5>2. rob'[j] = ren2[i] /\ i \in 1..Len(ren2)
          BY <1>2, <1>3, <2>1, <5>1
        <5>3. rob'[j].pc = q + Len(rob) + i - 1
          BY <1>5, <3>1, <5>2
        <5> QED
          BY <1>0, <1>2, <2>1, <5>1, <5>3
      <4> QED
        BY <1>0, <1>2, <2>1, <2>2, <4>1, <4>2
    <3> QED
      BY <3>1
  <2>4. fetch' = [pc |-> NextPC(IF mis THEN n + 1 ELSE n), wp |-> fetch.wp \/ mis]
    BY <1>8, FrontIs
  <2>5. ~fetch'.wp => ~fetch.wp /\ ~mis /\ fetch'.pc = fetch.pc + n
    BY <2>4 DEF NextPC
  <2>6. CASE n > 0
    <3>1. D = Len(ren2) /\ Fetchable(n) /\ ren2' = Bundle(n, ks, irq, mis)
      BY <1>8, <2>1, <2>6, FrontIs
    <3>2. Len(ren2') = n /\ \A j \in 1..n : ren2'[j].pc = fetch.pc + j - 1 /\ ren2'[j].wp = fetch.wp
      <4>1. ASSUME NEW j \in 1..n
            PROVE  Len(ren2') = n /\ ren2'[j].pc = fetch.pc + j - 1 /\ ren2'[j].wp = fetch.wp
        <5>1. PICK b : b = Bundle(n, ks, irq, mis)
          OBVIOUS
        <5>2. Len(b) = n /\ b[j].pc = fetch.pc + j - 1 /\ b[j].wp = fetch.wp
          <6>1. n \in Nat /\ mis \in BOOLEAN /\ Fetchable(n)
            BY <1>0, <3>1
          <6> QED
            BY <5>1, <6>1, DecodedIs
        <5>3. ren2' = b
          BY <3>1, <5>1
        <5> QED
          BY <5>2, <5>3
      <4>2. 1 \in 1..n
        BY <1>0, <2>6
      <4> QED
        BY <4>1, <4>2
    <3>3. ASSUME NEW j \in 1..Len(ren2'), ~ren2'[j].wp
          PROVE  ren2'[j].pc = (q + c) + Len(rob') + j - 1
      <4>1. ~fetch.wp /\ ren2'[j].pc = fetch.pc + j - 1
        BY <3>2, <3>3
      <4>2. fetch.pc = q + Len(rob) + Len(ren2)
        BY <1>5, <4>1
      <4> QED
        <5>1. Len(rob') = Len(rob) - c + Len(ren2) /\ j \in Nat
          BY <2>2, <3>1, <3>2
        <5>2. PICK a \in Nat : a = Len(rob)
          BY <1>0
        <5>3. PICK b \in Nat : b = Len(ren2)
          BY <1>0
        <5>4. PICK k : k = Len(rob')
          OBVIOUS
        <5>5. k = a - c + b /\ fetch.pc = q + a + b
          BY <4>2, <5>1, <5>2, <5>3, <5>4
        <5>6. (q + a + b) + j - 1 = (q + c) + k + j - 1
          BY <1>0, <5>1, <5>5
        <5> QED
          BY <4>1, <5>4, <5>5, <5>6
    <3>4. ~fetch'.wp => fetch'.pc = (q + c) + Len(rob') + Len(ren2')
      <4>1. ~fetch.wp => fetch.pc = q + Len(rob) + Len(ren2)
        BY <1>5
      <4> QED
        BY <1>0, <1>2, <2>1, <2>2, <2>5, <3>1, <3>2, <4>1
    <3> QED
      BY <1>4, <2>3, <3>3, <3>4 DEF Path
  <2>7. CASE n = 0
    <3>1. ren2' = SubSeq(ren2, D + 1, Len(ren2))
      BY <1>8, <2>1, <2>7, FrontIs
    <3>2. Len(ren2') = Len(ren2) - D /\ \A j \in 1..(Len(ren2) - D) : ren2'[j] = ren2[j + D]
      <4>1. ren2 \in Seq(Uops) /\ D \in Nat /\ D <= Len(ren2)
        BY <1>0, <1>2 DEF TypeOK
      <4> QED
        BY <1>0, <3>1, <4>1, SubSeqIs
    <3>3. ASSUME NEW j \in 1..Len(ren2'), ~ren2'[j].wp
          PROVE  ren2'[j].pc = (q + c) + Len(rob') + j - 1
      <4>1. j + D \in 1..Len(ren2) /\ ren2'[j] = ren2[j + D]
        BY <1>0, <1>2, <3>2
      <4>2. ren2'[j].pc = q + Len(rob) + (j + D) - 1
        BY <1>5, <3>3, <4>1
      <4> QED
        <5>1. Len(rob') = Len(rob) - c + D /\ j \in Nat /\ D \in Nat
          BY <1>0, <1>2, <2>2, <3>2
        <5>2. PICK a \in Nat : a = Len(rob)
          BY <1>0
        <5>3. PICK k : k = Len(rob')
          OBVIOUS
        <5>4. PICK d \in Nat : d = D
          BY <5>1
        <5>5. k = a - c + d /\ ren2'[j].pc = q + a + (j + d) - 1
          BY <4>2, <5>1, <5>2, <5>3, <5>4
        <5>6. q + a + (j + d) - 1 = (q + c) + k + j - 1
          BY <1>0, <5>1, <5>5
        <5> QED
          BY <5>3, <5>5, <5>6
    <3>4. ~fetch'.wp => fetch'.pc = (q + c) + Len(rob') + Len(ren2')
      <4>1. ~fetch.wp => fetch.pc = q + Len(rob) + Len(ren2)
        BY <1>5
      <4> QED
        BY <1>0, <1>2, <2>1, <2>2, <2>5, <2>7, <3>2, <4>1
    <3> QED
      BY <1>4, <2>3, <3>3, <3>4 DEF Path
  <2> QED
    BY <1>0, <2>6, <2>7
<1> QED
  BY <1>7, <1>8

-----------------------------------------------------------------------------
\* Where nothing makes progress, only a redirect writes the registers.
LEMMA RegsIdle ==
    ASSUME TypeOK, NEW c, NEW n, NEW ks, NEW irq, NEW mis, NEW comp, NEW flt, NEW ev, NEW rbk,
           Clocked(c, n, ks, irq, mis, comp, flt, ev, rbk), comp = {}
    PROVE  /\ ur'.func = ur.func /\ ur'.temp = ur.temp
           /\ ur'.exitPC = IF Redirecting /\ IsOverFlowExcpt THEN xcptD.pc ELSE ur.exitPC
           /\ ur'.happen = IF Redirecting /\ IsOverFlowExcpt /\ ur.func = 0 THEN 1 ELSE ur.happen
<1>1. ev \in 0..1 /\ ur' = RegsAfter(comp, ev)
  BY ChoicesAre, RegistersAre
<1>2. \A k : Starts(comp, k) = {}
  BY IdleIs
<1>3. PICK r : r = Redirected(Counted(ur, ev))
  OBVIOUS
<1>4. ur' = r
  BY <1>1, <1>2, <1>3 DEF RegsAfter, Written
<1> QED
  BY <1>1, <1>3, <1>4, RedirectedIs

\* An exception of the last cycle is only found while the program is rolled back.
LEMMA QuietIs ==
    ASSUME Phases, ~(UserPhase /\ rstate = "rollback")
    PROVE  xcptD.cause = None
<1>1. CASE UserPhase
  BY <1>1 DEF UserPhase
<1>2. CASE ~UserPhase
  BY <1>2 DEF Phases, KernelPhase, Calling, Called, Returning, Returned, Completes, Redirects
<1> QED
  BY <1>1, <1>2

\* The uops of the program stay what its code says.
LEMMA UopsStep ==
    ASSUME IInv, UopsRight,
           NEW c, NEW n, NEW ks, NEW irq, NEW mis, NEW comp, NEW flt, NEW ev, NEW rbk,
           Clocked(c, n, ks, irq, mis, comp, flt, ev, rbk)
    PROVE  UopsRight'
<1>0. /\ TypeOK /\ Squashed /\ c \in Nat /\ n \in Nat /\ mis \in BOOLEAN /\ irq \in BOOLEAN
      /\ ks \in {"kern", "sret"} /\ comp \subseteq Finishing /\ flt \subseteq Loads
      /\ Len(ren2) \in Nat /\ Code' = Code
  BY ChoicesAre, LengthsAre, SameProgram DEF IInv
<1>1. CASE rstate = "rollback"
  <2>1. ren2' = <<>> /\ (rob' = <<>> \/ rstate' = "rollback")
    BY <1>0, <1>1, RollbackStep
  <2> QED
    BY <2>1 DEF UopsRight
<1>2. CASE rstate # "rollback"
  <2>1. ASSUME NEW j \in 1..Len(rob') PROVE UopRight(rob'[j])
    <3>1. \/ \E i \in 1..Len(rob) : rob'[j] = Executed(comp, flt)[i]
          \/ \E i \in 1..Dispatched : rob'[j] = ren2[i]
      BY <1>0, <1>2, RobOriginIs
    <3>2. ASSUME NEW i \in 1..Len(rob), rob'[j] = Executed(comp, flt)[i] PROVE UopRight(rob'[j])
      <4>1. PICK u : u = Executed(comp, flt)[i]
        OBVIOUS
      <4>2. u.pc = rob[i].pc /\ u.i = rob[i].i /\ u.mis = rob[i].mis /\ u.wp = rob[i].wp
        BY <1>0, <4>1, ExecutedIs
      <4>3. UopRight(rob[i])
        BY <1>2 DEF UopsRight
      <4>4. UopRight(u)
        BY <4>2, <4>3 DEF UopRight
      <4> QED
        BY <3>2, <4>1, <4>4
    <3>3. ASSUME NEW i \in 1..Dispatched, rob'[j] = ren2[i] PROVE UopRight(rob'[j])
      <4>1. i \in 1..Len(ren2)
        BY <1>0, DispatchIs
      <4> QED
        BY <3>3, <4>1 DEF UopsRight
    <3> QED
      BY <3>1, <3>2, <3>3
  <2>2. ASSUME NEW j \in 1..Len(ren2') PROVE UopRight(ren2'[j])
    <3>1. CASE \E i \in 1..Len(ren2) : ren2'[j] = ren2[i]
      BY <3>1 DEF UopsRight
    <3>2. CASE ~(\E i \in 1..Len(ren2) : ren2'[j] = ren2[i])
      <4>1. n > 0 /\ ~Redirecting
        BY <1>0, <1>2, <3>2, Ren2OriginIs
      <4>2. flushD.t = "none" /\ Mispredict(comp) = 0
        BY <4>1, Ren2Is DEF Redirecting
      <4>3. Fetchable(n) /\ (mis => ~fetch.wp) /\ ren2' = Bundle(n, ks, irq, mis)
        BY <4>1, <4>2, FrontIs
      <4>4. CASE fetch.pc # 0
        <5>1. j \in 1..n
          <6>1. 1 \in 1..n
            BY <1>0, <4>1
          <6>2. Len(ren2') = n
            BY <1>0, <4>3, <4>4, <6>1, DecodedIs
          <6> QED
            BY <6>2
        <5>2. PICK u : u = ren2'[j]
          OBVIOUS
        <5>3. PICK p : p = fetch.pc + j - 1
          OBVIOUS
        <5>4. /\ u.pc = p /\ u.i = Code[p] /\ u.wp = fetch.wp /\ (u.mis => mis)
              /\ p \in 1..Len(Code) /\ Code[p].k # "end"
          BY <1>0, <4>3, <4>4, <5>1, <5>2, <5>3, DecodedIs
        <5>5. UopRight(u)
          BY <4>3, <5>4 DEF UopRight
        <5> QED
          BY <5>2, <5>5
      <4>5. CASE fetch.pc = 0
        <5>1. PICK b : b = Bundle(n, ks, irq, mis)
          OBVIOUS
        <5>2. /\ Len(b) = n
              /\ \A i \in 1..n : b[i].wp = fetch.wp /\ (b[i].mis => mis) /\ b[i].pc = 0
          BY <1>0, <4>3, <4>5, <5>1, BundleIs
        <5>3. ren2' = b /\ j \in 1..n
          BY <4>3, <5>1, <5>2
        <5>4. UopRight(b[j])
          BY <4>3, <5>2, <5>3 DEF UopRight
        <5> QED
          BY <5>3, <5>4
      <4> QED
        BY <4>4, <4>5
    <3> QED
      BY <3>1, <3>2
  <2> QED
    BY <1>0, <2>1, <2>2 DEF UopsRight, UopRight
<1> QED
  BY <1>1, <1>2

-----------------------------------------------------------------------------
\* The oldest uop of the program is the one to go on at.
LEMMA OldestIs ==
    ASSUME CInv, Sizes, UserFlow, UserPhase, rstate # "rollback", Len(rob) > 0
    PROVE  /\ flushD.t = "none" /\ Path(rob[1].pc) /\ Resumable(rob[1].pc)
           /\ rob[1].pc \in Nat /\ rob[1].pc # 0
<1>1. TypeOK /\ WrongPath /\ Len(rob) \in Nat /\ 1 \in 1..Len(rob)
  BY LengthsAre DEF CInv, IInv
<1>2. rob[1] \in Uops /\ rob[1].pc # 0
  BY <1>1 DEF TypeOK, UserPhase, AllUser
<1>3. flushD.t = "none"
  <2>1. flushD.t # "xcpt" /\ flushD.t # "eret"
    BY DEF UserPhase
  <2>2. flushD.t # "uret"
    <3>1. Len(<<>>) = 0
      OBVIOUS
    <3> QED
      BY <3>1 DEF Sizes
  <2> QED
    BY <1>1, <2>1, <2>2 DEF TypeOK
<1>4. PICK q \in Nat : Path(q) /\ Resumable(q)
  BY <1>3 DEF UserFlow
<1>5. ~rob[1].wp
  <2>1. rob[1].wp => \E i \in 1..(1 - 1) : Unresolved(rob[i])
    BY <1>1 DEF WrongPath
  <2> QED
    BY <2>1
<1>6. rob[1].pc = q
  BY <1>1, <1>4, <1>5 DEF Path, Queued
<1> QED
  BY <1>2, <1>3, <1>4, <1>6 DEF Uops

\* A handler that is registered stays one that reads the exit pc.
LEMMA HandlersStep ==
    ASSUME CInv, Handlers, UopsRight,
           NEW c, NEW n, NEW ks, NEW irq, NEW mis, NEW comp, NEW flt, NEW ev, NEW rbk,
           Clocked(c, n, ks, irq, mis, comp, flt, ev, rbk)
    PROVE  Handlers'
<1>1. /\ IInv /\ Phases /\ TypeOK /\ Squashed /\ Alone /\ Fresh /\ comp \subseteq Finishing
      /\ Last' = Last /\ \A q : Ahead(q)' = Ahead(q)
  BY ChoicesAre, SameProgram DEF CInv, IInv
<1>2. SUFFICES ur'.func # 0 => ur'.func > Last /\ Ahead(ur'.func)
  <2>1. PICK f : f = ur'.func
    OBVIOUS
  <2> QED
    BY <1>1, <1>2, SameProgram DEF Handlers, Ahead
<1>3. CASE ur'.func = ur.func
  BY <1>3 DEF Handlers
<1>4. CASE Starts(comp, "set") # {} /\ rob[1].i.r = "func" /\ ur'.func = rob[1].i.v
  <2>1. rstate # "rollback"
    BY <1>1, <1>4 DEF Finishing, Starts
  <2>2. Len(rob) = 1 /\ rob[1].i.k = "set"
    BY <1>1, <1>4, <2>1, StartIs
  <2>3. UserPhase
    <3>1. ~KernelPhase
      BY <1>1, <1>4, KernelStep
    <3>2. ~(Calling \/ Called \/ Returning \/ Returned)
      BY <1>1, <1>4, CallStep, IdleIs
    <3> QED
      BY <1>1, <3>1, <3>2 DEF Phases
  <2>4. rob[1].pc \in 1..Len(Code) /\ rob[1].i = Code[rob[1].pc]
    BY <2>1, <2>2, <2>3 DEF UserPhase, AllUser, UopsRight, UopRight
  <2>5. PICK p \in 1..Len(Code) : rob[1].i = Code[p]
    BY <2>4
  <2>6. rob[1].i.v # 0 => rob[1].i.v > Last /\ Ahead(rob[1].i.v)
    BY <1>1, <1>4, <2>2, <2>5, ProgramIs
  <2> QED
    BY <1>4, <2>6
<1>5. CASE UserPhase /\ rstate = "rollback"
  <2>1. comp = {}
    BY <1>1, <1>5, UserRollback
  <2> QED
    BY <1>1, <1>3, <2>1, RegsIdle
<1>6. CASE ~(UserPhase /\ rstate = "rollback")
  <2>1. xcptD.cause = None
    BY <1>1, <1>6, QuietIs
  <2>2. ur'.func = IF Starts(comp, "set") # {} /\ rob[1].i.r = "func"
                   THEN rob[1].i.v ELSE ur.func
    BY <1>1, <2>1, RegsNext
  <2> QED
    BY <1>3, <1>4, <2>2
<1> QED
  BY <1>5, <1>6

\* An exitpc of the handler reads an exit pc that is harmless.
LEMMA ExitStep ==
    ASSUME CInv, Sizes, History, UserFlow, ExitRead, UserPhase, rstate # "rollback",
           NEW c, NEW n, NEW ks, NEW irq, NEW mis, NEW comp, NEW flt, NEW ev, NEW rbk,
           Clocked(c, n, ks, irq, mis, comp, flt, ev, rbk)
    PROVE  ExitRead'
<1>1. /\ IInv /\ TypeOK /\ WrongPath /\ Alone /\ Fresh /\ xcptD.cause = None
      /\ comp \subseteq Finishing /\ flt \subseteq Loads /\ Last' = Last /\ Last \in Nat
      /\ c \in 0..Len(rob) /\ Len(rob) \in Nat /\ trace \in Seq(Nat) /\ Len(trace) < Last
  <2>1. TypeOK /\ WrongPath
    BY DEF CInv, IInv
  <2>2. c \in 0..Len(rob)
    BY <2>1, ChoicesAre, CommitsRight
  <2> QED
    BY <2>1, <2>2, ChoicesAre, SameProgram, ProgramIs, LengthsAre
       DEF CInv, IInv, UserPhase, History
<1>2. SUFFICES ASSUME NEW j \in 1..Len(rob'), rob'[j].i.k = "exitpc", rob'[j].st # "wait",
                      rob'[j].pc > Last
               PROVE  Harmless(ur.temp)'
  BY <1>1 DEF ExitRead
<1>3. PICK i \in 1..Len(rob) : rob'[j] = Executed(comp, flt)[i]
  <2>1. \/ \E i \in 1..Len(rob) : rob'[j] = Executed(comp, flt)[i]
        \/ \E i \in 1..Dispatched : rob'[j] = ren2[i]
    BY <1>1, RobOriginIs
  <2>2. ASSUME NEW i \in 1..Dispatched PROVE ren2[i].st = "wait"
    <3>1. i \in 1..Len(ren2)
      BY <1>1, DispatchIs, LengthsAre
    <3> QED
      BY <1>1, <3>1 DEF Fresh
  <2> QED
    BY <1>2, <2>1, <2>2
<1>4. PICK u : u = Executed(comp, flt)[i]
  OBVIOUS
<1>5. /\ u.i.k = "exitpc" /\ u.st # "wait" /\ u.pc > Last
      /\ rob[i].i = u.i /\ rob[i].pc = u.pc /\ (i \notin comp => u = rob[i])
  BY <1>1, <1>2, <1>3, <1>4, KeepsIs
<1>6. Len(rob) = 1 /\ i = 1
  BY <1>1, <1>5 DEF Alone, IsUnique
<1>7. trace' = trace /\ Following' = Following
  <2>1. \A k \in 1..c : rob[k].pc \notin 1..Last
    BY <1>1, <1>5, <1>6
  <2>2. trace' = trace
    BY <1>1, <2>1, TraceNext
  <2> QED
    BY <2>2 DEF Following
<1>8. Harmless(ur'.temp)
  <2>1. CASE rob[1].st = "wait"
    <3>1. 1 \in Starts(comp, "exitpc")
      BY <1>5, <1>6, <2>1 DEF Starts
    <3>2. ur'.temp = ur.exitPC
      BY <1>1, <3>1, RegsNext
    <3>3. Resumable(rob[1].pc)
      BY <1>6, OldestIs
    <3>4. Harmless(ur.exitPC)
      BY <1>1, <1>5, <1>6, <3>3 DEF Resumable, Following
    <3> QED
      BY <3>2, <3>4
  <2>2. CASE rob[1].st # "wait"
    <3>1. Starts(comp, "exitpc") = {}
      BY <1>1, <1>6, <2>2 DEF Starts, Finishing, Waiting
    <3>2. ur'.temp = ur.temp
      BY <1>1, <3>1, RegsNext
    <3> QED
      BY <1>5, <1>6, <2>2, <3>2 DEF ExitRead
  <2> QED
    BY <2>1, <2>2
<1> QED
  BY <1>1, <1>7, <1>8 DEF Harmless

\* The phases exclude each other.
LEMMA PhasesApart ==
    ASSUME TypeOK'
    PROVE  /\ UserPhase' => ~(KernelPhase' \/ Calling' \/ Called' \/ Returning' \/ Returned')
           /\ KernelPhase' => ~(Calling' \/ Called' \/ Returning' \/ Returned')
           /\ Calling' => ~(Called' \/ Returning' \/ Returned')
           /\ Called' => ~(Returning' \/ Returned')
           /\ Returning' => ~Returned'
<1>1. ~(KernelPhase' /\ Calling')
  <2>1. Calling' => rstate' # "rollback" /\ Len(rob') = 1 /\ rob'[1].i.k = "ecall"
    BY DEF Calling, Completes
  <2>2. KernelPhase' /\ rstate' # "rollback" => \A j \in 1..Len(rob') : rob'[j].i.k # "ecall"
    BY DEF KernelPhase, AllKernel
  <2> QED
    BY <2>1, <2>2
<1>2. UserPhase' => ~(KernelPhase' \/ Calling' \/ Called' \/ Returning' \/ Returned')
  BY DEF UserPhase, KernelPhase, Calling, Called, Returning, Returned, IsUserMode
<1>3. KernelPhase' => ~(Called' \/ Returning' \/ Returned')
  BY DEF KernelPhase, Called, Returning, Returned, Redirects
<1>4. /\ Calling' => ~(Called' \/ Returning' \/ Returned')
      /\ Called' => ~(Returning' \/ Returned')
      /\ Returning' => ~Returned'
  BY DEF Calling, Called, Returning, Returned, Completes, Redirects
<1> QED
  BY <1>1, <1>2, <1>3, <1>4

-----------------------------------------------------------------------------
\* A cycle in which the program commits nothing.
LEMMA HistoryStays ==
    ASSUME History,
           NEW c, NEW n, NEW ks, NEW irq, NEW mis, NEW comp, NEW flt, NEW ev, NEW rbk,
           Clocked(c, n, ks, irq, mis, comp, flt, ev, rbk), trace' = trace
    PROVE  History' /\ Following' = Following
<1>1. Last' = Last
  BY SameProgram
<1> QED
  BY <1>1 DEF History, Transparent, Following

\* Nothing is in flight: the right path begins where fetch goes on.
LEMMA PathStarts ==
    ASSUME TypeOK', ren2' = <<>>, rob' = <<>> \/ rstate' = "rollback", NEW q, fetch'.pc = q
    PROVE  Path(q)'
<1>1. Queued' = 0 /\ Len(ren2') = 0 /\ q \in Nat
  BY DEF Queued, TypeOK
<1> QED
  BY <1>1 DEF Path

\* The flow through a cycle; what the uops of a cycle leave is proved apart.
Flows == History /\ ExitRead /\ UserFlow /\ KernelFlow /\ CallFlow

\* A trap or sample in its last cycle, and what remains of the rollback.
LEMMA FlowRollback ==
    ASSUME FlowInv, UserPhase, rstate = "rollback",
           NEW c, NEW n, NEW ks, NEW irq, NEW mis, NEW comp, NEW flt, NEW ev, NEW rbk,
           Clocked(c, n, ks, irq, mis, comp, flt, ev, rbk), TypeOK'
    PROVE  Flows'
<1>1. /\ IInv /\ TypeOK /\ Squashed /\ History /\ Handlers /\ UserFlow /\ ur.happen = 0
      /\ xcptD.cause # None <=> flushD.t = "xcpt"
      /\ flushD.t # "eret" /\ trace \in Seq(Nat)
  BY DEF FlowInv, CInv, IInv, UserFlow, UserPhase, History
<1>2. /\ comp = {} /\ c = 0 /\ (rob' = <<>> \/ (rob' = rob /\ rstate' = "rollback"))
      /\ ren2' = <<>> /\ flushD'.t = "none"
      /\ fetch'.pc = IF Redirecting THEN RedirectPC ELSE fetch.pc
  BY <1>1, RollbackStep
<1>3. /\ TrapTaken => KernelPhase' /\ cpu'.epc = xcptD.pc /\ cpu'.cause = TrapCause
      /\ ~TrapTaken => UserPhase'
  BY <1>1, UserRollback
<1>4. /\ ur'.func = ur.func /\ ur'.temp = ur.temp
      /\ ur'.exitPC = IF Redirecting /\ IsOverFlowExcpt THEN xcptD.pc ELSE ur.exitPC
      /\ ur'.happen = IF Redirecting /\ IsOverFlowExcpt /\ ur.func = 0 THEN 1 ELSE 0
  BY <1>1, <1>2, RegsIdle
<1>5. trace' = trace
  <2>1. \A j \in 1..c : rob[j].pc \notin 1..Last
    BY <1>2
  <2> QED
    BY <1>1, <2>1, TraceNext
<1>6. History' /\ Following' = Following
  BY <1>1, <1>5, HistoryStays
<1>7. Last' = Last /\ \A q : Ahead(q)' = Ahead(q)
  BY SameProgram
<1>8. xcptD.cause # None => Resumable(xcptD.pc) /\ Harmless(xcptD.pc)
  BY <1>1, ResumableHarmless DEF UserFlow
<1>9. ASSUME NEW q, Resumable(q) PROVE Resumable(q)'
  <2>1. ur'.exitPC = ur.exitPC \/ Harmless(ur'.exitPC)
    <3>1. IsOverFlowExcpt => xcptD.cause # None
      BY DEF IsOverFlowExcpt, None
    <3> QED
      BY <1>4, <1>8, <3>1
  <2> QED
    BY <1>4, <1>5, <1>9, <2>1, StaysResumable
<1>10. ExitRead'
  <2>1. rob' = <<>> => Len(rob') = 0
    OBVIOUS
  <2> QED
    BY <1>2, <2>1 DEF ExitRead
<1>11. CASE TrapTaken
  <2>1. xcptD.cause # None /\ flushD.t = "xcpt" /\ Redirecting
    BY <1>1, <1>11 DEF TrapTaken, Redirecting
  <2>2. Resumable(cpu.epc)'
    <3>1. PICK q : q = xcptD.pc
      OBVIOUS
    <3>2. Resumable(q)' /\ cpu'.epc = q
      BY <1>3, <1>8, <1>9, <1>11, <2>1, <3>1
    <3> QED
      BY <3>2 DEF Resumable
  <2>3. /\ ResumePC' = cpu'.epc
        /\ ur'.happen = 0 \/ (ur'.happen = 1 /\ cpu'.cause = "ecall")
    <3>1. CASE IsOverFlowExcpt
      <4>1. ur'.happen = 1 /\ cpu'.cause = "ecall"
        BY <1>3, <1>4, <1>11, <2>1, <3>1 DEF TrapTaken, TrapCause
      <4> QED
        BY <4>1 DEF ResumePC
    <3>2. CASE ~IsOverFlowExcpt
      <4>1. ur'.happen = 0 /\ cpu'.cause = xcptD.cause
        BY <1>3, <1>4, <1>11, <3>2 DEF TrapCause
      <4>2. cpu'.cause # "ecall"
        BY <1>1, <4>1 DEF TypeOK, Causes, None
      <4> QED
        BY <4>1, <4>2 DEF ResumePC
    <3> QED
      BY <3>1, <3>2
  <2>4. KernelFlow'
    <3>1. Resumable(ResumePC)'
      BY <2>2, <2>3 DEF Resumable
    <3> QED
      BY <2>3, <3>1 DEF KernelFlow
  <2> QED
    BY <1>3, <1>6, <1>10, <1>11, <2>4, PhasesApart DEF Flows, UserFlow, CallFlow
<1>12. CASE ~TrapTaken
  <2>1. ur'.happen = 0
    <3>1. IsOverFlowExcpt => ur.func # 0
      BY <1>12 DEF TrapTaken, IsOverFlowExcpt, None
    <3> QED
      BY <1>4, <3>1
  <2>2. Resumable(fetch.pc)'
    <3>1. CASE flushD.t = "none"
      <4>1. ren2 = <<>> /\ ~fetch.wp /\ fetch'.pc = fetch.pc
        BY <1>1, <1>2, <3>1 DEF Squashed, Redirecting
      <4>2. PICK q \in Nat : Path(q) /\ Resumable(q)
        BY <1>1, <3>1 DEF UserFlow
      <4>3. fetch.pc = q
        <5>1. Queued = 0 /\ Len(ren2) = 0
          BY <4>1 DEF Queued
        <5> QED
          BY <4>1, <4>2, <5>1 DEF Path
      <4>4. Resumable(q)'
        BY <1>9, <4>2
      <4> QED
        BY <4>1, <4>3, <4>4 DEF Resumable
    <3>2. CASE flushD.t = "uret"
      <4>1. PICK q : q = flushD.pc
        OBVIOUS
      <4>2. fetch'.pc = q /\ Resumable(q)
        BY <1>1, <1>2, <3>2, <4>1 DEF Redirecting, RedirectPC, UserFlow
      <4>3. Resumable(q)'
        BY <1>9, <4>2
      <4> QED
        BY <4>2, <4>3 DEF Resumable
    <3>3. CASE flushD.t = "xcpt"
      <4>1. IsOverFlowExcpt /\ ur.func # 0 /\ Redirecting
        BY <1>1, <1>12, <3>3 DEF TrapTaken, Redirecting
      <4>2. fetch'.pc = ur.func /\ ur'.exitPC = xcptD.pc
        BY <1>2, <1>4, <3>3, <4>1 DEF RedirectPC
      <4>3. ur.func > Last /\ Ahead(ur.func) /\ Harmless(xcptD.pc)
        BY <1>1, <1>8, <3>3, <4>1 DEF Handlers
      <4>4. Harmless(ur.exitPC)'
        BY <1>6, <1>7, <4>2, <4>3 DEF Harmless
      <4>5. Ahead(fetch.pc)'
        BY <4>2, <4>3, SameProgram DEF Ahead
      <4> QED
        BY <1>7, <4>1, <4>2, <4>3, <4>4, <4>5 DEF Resumable
    <3> QED
      BY <1>1, <3>1, <3>2, <3>3 DEF TypeOK
  <2>3. PICK q \in Nat : q = fetch'.pc
    BY DEF TypeOK
  <2>4. Path(q)' /\ Resumable(q)'
    BY <1>2, <2>2, <2>3, PathStarts DEF Resumable
  <2>5. UserFlow'
    BY <1>2, <2>1, <2>4 DEF UserFlow
  <2> QED
    BY <1>3, <1>6, <1>10, <1>12, <2>5, PhasesApart DEF Flows, KernelFlow, CallFlow
<1> QED
  BY <1>11, <1>12

\* The program's ecall begins: it is the uop to go on at.
LEMMA FlowCalls ==
    ASSUME FlowInv, UserPhase, rstate # "rollback",
           NEW c, NEW n, NEW ks, NEW irq, NEW mis, NEW comp, NEW flt, NEW ev, NEW rbk,
           Clocked(c, n, ks, irq, mis, comp, flt, ev, rbk), TypeOK', Starts(comp, "ecall") # {}
    PROVE  Flows'
<1>1. /\ CInv /\ Sizes /\ IInv /\ TypeOK /\ Alone /\ History /\ UserFlow /\ ExitRead
      /\ ur.happen = 0 /\ xcptD.cause = None /\ trace \in Seq(Nat)
  BY DEF FlowInv, CInv, IInv, UserFlow, UserPhase, History
<1>2. /\ Calling' /\ c = 0 /\ rob'[1].pc = rob[1].pc
      /\ cpu'.epc = rob[1].pc /\ cpu'.cause = "ecall"
  BY <1>1, UserCalls
<1>3. /\ Len(rob) = 1 /\ Starts(comp, "set") = {} /\ Starts(comp, "exitpc") = {}
      /\ Starts(comp, "sret") = {}
  BY <1>1, StartIs
<1>4. ur'.exitPC = ur.exitPC /\ ur'.temp = ur.temp /\ ur'.happen = 0
  BY <1>1, <1>3, RegsNext
<1>5. trace' = trace
  <2>1. \A j \in 1..c : rob[j].pc \notin 1..Last
    BY <1>2
  <2> QED
    BY <1>1, <2>1, TraceNext
<1>6. History' /\ ExitRead'
  BY <1>1, <1>5, HistoryStays, ExitStep
<1>7. Resumable(cpu.epc)'
  <2>1. PICK q : q = rob[1].pc
    OBVIOUS
  <2>2. Resumable(q)
    BY <1>1, <1>3, <2>1, OldestIs
  <2>3. Resumable(q)'
    BY <1>4, <1>5, <2>2, StaysResumable
  <2> QED
    BY <1>2, <2>1, <2>3 DEF Resumable
<1>8. CallFlow'
  BY <1>2, <1>4, <1>7, PhasesApart DEF CallFlow
<1> QED
  BY <1>2, <1>6, <1>8, PhasesApart DEF Flows, UserFlow, KernelFlow

\* An exception is thrown: the program goes on at the uop that has it.
LEMMA FlowThrows ==
    ASSUME FlowInv, UserPhase, rstate # "rollback", Throws,
           NEW c, NEW n, NEW ks, NEW irq, NEW mis, NEW comp, NEW flt, NEW ev, NEW rbk,
           Clocked(c, n, ks, irq, mis, comp, flt, ev, rbk), TypeOK', UserPhase',
           ur'.happen = 0, ur'.exitPC = ur.exitPC, ur'.temp \in {ur.temp, ur.exitPC}
    PROVE  History' /\ UserFlow'
<1>1. /\ CInv /\ Sizes /\ TypeOK /\ History /\ UserFlow /\ trace \in Seq(Nat) /\ Len(rob) \in Nat
  BY LengthsAre DEF FlowInv, CInv, IInv, History
<1>2. c = 0 /\ Len(rob) > 0
  <2>1. rob # <<>> => Len(rob) > 0
    BY <1>1 DEF TypeOK
  <2> QED
    BY <1>1, <2>1, ChoicesAre, UserCommits DEF Throws
<1>3. trace' = trace
  <2>1. \A j \in 1..c : rob[j].pc \notin 1..Last
    BY <1>2
  <2> QED
    BY <1>1, <2>1, TraceNext
<1>4. xcptD'.pc = rob[1].pc /\ flushD'.t = "xcpt"
  BY RegistersAre DEF Flush
<1>5. Resumable(xcptD.pc)'
  <2>1. PICK q : q = rob[1].pc
    OBVIOUS
  <2>2. Resumable(q)
    BY <1>1, <1>2, <2>1, OldestIs
  <2>3. Resumable(q)'
    BY <1>3, <2>2, StaysResumable
  <2> QED
    BY <1>4, <2>1, <2>3 DEF Resumable
<1> QED
  BY <1>1, <1>3, <1>4, <1>5, HistoryStays DEF UserFlow

\* A uret commits: the exit pc it returns to is harmless.
LEMMA FlowReturns ==
    ASSUME FlowInv, UserPhase, rstate # "rollback", ~Throws,
           NEW c, NEW n, NEW ks, NEW irq, NEW mis, NEW comp, NEW flt, NEW ev, NEW rbk,
           Clocked(c, n, ks, irq, mis, comp, flt, ev, rbk), TypeOK', UserPhase',
           ur'.happen = 0, ur'.exitPC = ur.exitPC, ur'.temp \in {ur.temp, ur.exitPC},
           c > 0, rob[c].i.k = "uret"
    PROVE  History' /\ UserFlow'
<1>1. /\ CInv /\ IInv /\ Sizes /\ TypeOK /\ WrongPath /\ Alone /\ History /\ UserFlow /\ UopsRight
      /\ xcptD.cause = None /\ trace \in Seq(Nat) /\ Len(trace) \in Nat /\ Len(trace) < Last
      /\ Len(rob) \in Nat /\ Len(Code) \in Nat /\ Last \in 1..Len(Code) /\ Last \in Nat
      /\ Last' = Last /\ Code' = Code
  BY LengthsAre, ProgramIs, SameProgram DEF FlowInv, CInv, IInv, History, UserPhase
<1>2. c = 1 /\ Len(rob) = 1
  <2>1. c \in 1..Len(rob)
    BY <1>1, ChoicesAre, CommitsRight
  <2>2. Len(rob) = 1
    BY <1>1, <2>1 DEF Alone, IsUnique
  <2> QED
    BY <2>1, <2>2
<1>3. PICK q \in Nat : q = rob[1].pc /\ q # 0 /\ Resumable(q)
  BY <1>1, <1>2, OldestIs
<1>4. q \in 1..Len(Code) /\ Code[q].k = "uret"
  <2>1. UopRight(rob[1])
    BY <1>1, <1>2 DEF UopsRight
  <2> QED
    BY <1>2, <1>3, <2>1 DEF UopRight
<1>5. q > Last
  BY <1>1, <1>4, ProgramIs
<1>6. ~Ahead(q)
  <2>1. ASSUME NEW e \in q..Len(Code), \A j \in q..e : Code[j].k # "uret" PROVE FALSE
    <3>1. q \in q..e
      BY <2>1
    <3> QED
      BY <1>4, <2>1, <3>1
  <2> QED
    BY <2>1 DEF Ahead, ReadsExitPC
<1>7. Harmless(ur.exitPC) /\ Harmless(ur.temp)
  BY <1>1, <1>3, <1>5, <1>6 DEF Resumable, Following
<1>8. ur'.temp = ur.temp
  <2>1. Starts(comp, "exitpc") = {}
    <3>1. Starts(comp, "exitpc") # {} => rob[1].i.k = "exitpc"
      BY <1>1, StartIs
    <3> QED
      BY <1>2, <3>1
  <2> QED
    BY <1>1, <2>1, RegsNext
<1>9. trace' = trace
  <2>1. \A j \in 1..c : rob[j].pc \notin 1..Last
    BY <1>1, <1>2, <1>3, <1>5
  <2> QED
    BY <1>1, <2>1, TraceNext
<1>10. History' /\ Following' = Following
  BY <1>1, <1>9, HistoryStays
<1>11. flushD' = [t |-> "uret", pc |-> IF ur.temp = 0 THEN Nowhere ELSE ur.temp]
  <2>1. flushD' = FlushOf(rob[c])
    BY RegistersAre DEF Flush
  <2> QED
    BY <2>1 DEF FlushOf
<1>12. Resumable(flushD.pc)'
  <2>1. Harmless(ur.exitPC)' /\ Harmless(ur.temp)'
    BY <1>1, <1>7, <1>8, <1>10 DEF Harmless
  <2>2. flushD'.pc # 0 /\ (flushD'.pc = Following \/ flushD'.pc > Last)
    <3>1. CASE ur.temp = 0
      <4>1. flushD'.pc = Len(Code) + 1
        BY <1>11, <3>1 DEF Nowhere
      <4> QED
        BY <1>1, <4>1
    <3>2. CASE ur.temp # 0
      BY <1>7, <1>11, <3>2 DEF Harmless
    <3> QED
      BY <3>1, <3>2
  <2> QED
    BY <1>1, <1>10, <2>1, <2>2 DEF Resumable
<1> QED
  BY <1>10, <1>11, <1>12 DEF UserFlow

\* The redirect of a uret: nothing is in flight and fetch goes on at its target.
LEMMA FlowLands ==
    ASSUME FlowInv, UserPhase, rstate # "rollback", flushD.t = "uret",
           NEW c, NEW n, NEW ks, NEW irq, NEW mis, NEW comp, NEW flt, NEW ev, NEW rbk,
           Clocked(c, n, ks, irq, mis, comp, flt, ev, rbk), TypeOK', UserPhase',
           ur'.happen = 0, ur'.exitPC = ur.exitPC, ur'.temp \in {ur.temp, ur.exitPC}
    PROVE  History' /\ UserFlow'
<1>1. /\ TypeOK /\ History /\ UserFlow /\ trace \in Seq(Nat) /\ rob = <<>> /\ Len(rob) = 0
      /\ Redirecting /\ Len(ren2) \in Nat
  BY LengthsAre DEF FlowInv, CInv, IInv, History, Sizes, Redirecting
<1>2. /\ c \in CommitCounts /\ c \in Nat /\ comp \subseteq Finishing /\ flt \subseteq Loads
      /\ comp = {} /\ c = 0 /\ ~Throws
  <2>1. c \in CommitCounts /\ c \in Nat /\ comp \subseteq Finishing /\ flt \subseteq Loads
    BY ChoicesAre
  <2>2. comp = {}
    BY <1>1, <2>1 DEF Finishing, Waiting
  <2>3. c = 0
    BY <1>1, <2>1 DEF CommitCounts, CommitReady
  <2> QED
    BY <1>1, <2>1, <2>2, <2>3 DEF Throws
<1>3. rob' = <<>>
  <2>1. Mispredict(comp) = 0
    BY <1>2, IdleIs
  <2>2. Dispatched = 0
    <3>1. Dispatched \in DispatchCounts
      BY <1>1, DispatchedIs
    <3>2. \A j \in 1..Dispatched : ~DispatchHazard(j)
      BY <3>1 DEF DispatchCounts
    <3>3. \A j : DispatchHazard(j)
      BY <1>1 DEF DispatchHazard
    <3> QED
      BY <1>1, <3>1, <3>2, <3>3 DEF DispatchCounts
  <2>3. Follows(rob', Upto(comp) - c, Joining(comp), c, Executed(comp, flt))
    BY <1>1, <1>2, RegistersAre, RobAfterIs
  <2>4. Len(rob') = 0 /\ rob' \in Seq(Uops)
    BY <1>1, <1>2, <2>1, <2>2, <2>3 DEF Follows, Upto, Joining
  <2> QED
    BY <2>4
<1>4. ren2' = <<>> /\ fetch'.pc = flushD.pc
  BY <1>1, FetchIs, Ren2Is DEF RedirectPC
<1>5. trace' = trace
  <2>1. \A j \in 1..c : rob[j].pc \notin 1..Last
    BY <1>2
  <2> QED
    BY <1>1, <2>1, TraceNext
<1>6. flushD'.t = "none"
  BY <1>2, RegistersAre DEF Flush, NoFlush
<1>7. PICK q \in Nat : q = flushD.pc /\ Resumable(q)
  BY <1>1 DEF UserFlow, TypeOK
<1>8. Path(q)' /\ Resumable(q)'
  BY <1>3, <1>4, <1>5, <1>7, PathStarts, StaysResumable
<1> QED
  BY <1>1, <1>5, <1>6, <1>8, HistoryStays DEF UserFlow

\* Otherwise the right path goes on behind what commits.
LEMMA FlowRuns ==
    ASSUME FlowInv, UserPhase, rstate # "rollback", ~Throws, flushD.t = "none",
           NEW c, NEW n, NEW ks, NEW irq, NEW mis, NEW comp, NEW flt, NEW ev, NEW rbk,
           Clocked(c, n, ks, irq, mis, comp, flt, ev, rbk), TypeOK', UserPhase',
           ur'.happen = 0, ur'.exitPC = ur.exitPC, ur'.temp \in {ur.temp, ur.exitPC},
           c > 0 => rob[c].i.k # "uret"
    PROVE  History' /\ UserFlow'
<1>1. /\ TypeOK /\ Alone /\ WrongPath /\ History /\ UserFlow /\ UopsRight /\ ExitRead
      /\ fetch.pc # 0 /\ xcptD.cause = None /\ IInv
  BY DEF FlowInv, CInv, IInv, UserPhase
<1>2. /\ c \in CommitCounts /\ c \in Nat /\ c \in 0..Len(rob) /\ Len(rob) \in Nat
      /\ \A j \in 1..c : ~rob[j].wp /\ rob[j].st = "done"
  <2>1. c \in CommitCounts /\ c \in Nat /\ comp \subseteq Finishing
    BY ChoicesAre
  <2>2. c \in 0..Len(rob) /\ \A j \in 1..c : ~rob[j].wp
    BY <1>1, <2>1, CommitsRight
  <2> QED
    BY <1>1, <2>1, <2>2, LengthsAre DEF CommitCounts, CommitReady
<1>3. PICK q \in Nat : Path(q) /\ Resumable(q)
  BY <1>1 DEF UserFlow
<1>4. rstate' # "rollback"
  <2>1. rstate' = RobStateAfter(Mispredict(comp), rbk)
    BY RegistersAre
  <2> QED
    BY <2>1 DEF RobStateAfter
<1>5. Path(q + c)'
  BY <1>1, <1>3, <1>4, PathStep
<1>6. Resumable(q + c)' /\ History'
  <2>1. \A j \in 1..c : rob[j].pc = q + j - 1 /\ rob[j].st # "wait"
    BY <1>2, <1>3 DEF Path, Queued
  <2>2. c > 0 => ur'.temp = ur.temp
    <3>1. c > 0 => Starts(comp, "exitpc") = {}
      <4>1. Starts(comp, "exitpc") # {} => c = 0
        BY <1>1, StartIs
      <4> QED
        BY <1>2, <4>1
    <3> QED
      BY <1>1, <3>1, RegsNext
  <2> QED
    BY <1>1, <1>2, <1>3, <2>1, <2>2, AdvanceStep
<1>7. flushD'.t = "none"
  <2>1. flushD' = Flush(c)
    BY RegistersAre
  <2>2. CASE c = 0
    BY <2>1, <2>2 DEF Flush, NoFlush
  <2>3. CASE c > 0
    <3>1. c \in 1..c
      BY <1>2, <2>3
    <3>2. rob[c].i \in UserInsts /\ rob[c].i.k # "ecall"
      BY <1>1, <1>2, <3>1, UserCommits
    <3>3. rob[c].i.k # "sret"
      BY <3>2 DEF UserInsts
    <3>4. FlushOf(rob[c]) = NoFlush
      BY <2>3, <3>2, <3>3 DEF FlushOf
    <3> QED
      BY <2>1, <2>3, <3>4 DEF Flush, NoFlush
  <2> QED
    BY <1>2, <2>2, <2>3
<1>8. q + c \in Nat
  BY <1>2
<1>9. PICK r \in Nat : r = q + c
  BY <1>8
<1>10. Path(r)' /\ Resumable(r)'
  BY <1>5, <1>6, <1>9
<1> QED
  BY <1>6, <1>7, <1>10 DEF UserFlow

\* A cycle of the program outside a rollback.
LEMMA FlowUser ==
    ASSUME FlowInv, UserPhase, rstate # "rollback",
           NEW c, NEW n, NEW ks, NEW irq, NEW mis, NEW comp, NEW flt, NEW ev, NEW rbk,
           Clocked(c, n, ks, irq, mis, comp, flt, ev, rbk), TypeOK'
    PROVE  Flows'
<1>1. /\ CInv /\ IInv /\ TypeOK /\ Fresh /\ Alone /\ WrongPath /\ Sizes /\ History /\ UserFlow
      /\ ExitRead /\ ur.happen = 0 /\ xcptD.cause = None /\ Len(rob) \in Nat
  BY LengthsAre DEF FlowInv, CInv, IInv, UserFlow, UserPhase
<1>2. CASE Starts(comp, "ecall") # {}
  BY <1>2, FlowCalls
<1>3. CASE Starts(comp, "ecall") = {}
  <2>1. UserPhase' /\ Starts(comp, "sret") = {}
    BY <1>1, <1>3, UserRuns
  <2>2. ur'.happen = 0 /\ ur'.exitPC = ur.exitPC /\ ur'.temp \in {ur.temp, ur.exitPC}
    <3>1. /\ ur'.exitPC = ur.exitPC
          /\ ur'.temp = IF Starts(comp, "exitpc") # {} THEN ur.exitPC ELSE ur.temp
          /\ ur'.happen = IF Starts(comp, "sret") # {} /\ ur.happen = 1 /\ cpu.cause = "ecall"
                          THEN 0 ELSE ur.happen
      BY <1>1, RegsNext
    <3> QED
      BY <1>1, <2>1, <3>1
  <2>3. ExitRead'
    BY <1>1, ExitStep
  <2>4. History' /\ UserFlow'
    <3>1. CASE Throws
      BY <2>1, <2>2, <3>1, FlowThrows
    <3>2. CASE ~Throws /\ c > 0 /\ rob[c].i.k = "uret"
      BY <2>1, <2>2, <3>2, FlowReturns
    <3>3. CASE ~Throws /\ ~(c > 0 /\ rob[c].i.k = "uret") /\ flushD.t = "none"
      BY <2>1, <2>2, <3>3, FlowRuns
    <3>4. CASE flushD.t = "uret"
      BY <2>1, <2>2, <3>4, FlowLands
    <3>5. flushD.t \in {"none", "uret"}
      <4>1. flushD.t # "xcpt" /\ flushD.t # "eret"
        BY <1>1 DEF UserPhase
      <4> QED
        BY <1>1, <4>1 DEF TypeOK
    <3> QED
      BY <3>1, <3>2, <3>3, <3>4, <3>5
  <2> QED
    BY <2>1, <2>3, <2>4, PhasesApart DEF Flows, KernelFlow, CallFlow
<1> QED
  BY <1>2, <1>3

\* The kernel: where it goes on stays until its sret begins, which goes there.
LEMMA FlowKernel ==
    ASSUME FlowInv, KernelPhase,
           NEW c, NEW n, NEW ks, NEW irq, NEW mis, NEW comp, NEW flt, NEW ev, NEW rbk,
           Clocked(c, n, ks, irq, mis, comp, flt, ev, rbk), TypeOK'
    PROVE  Flows'
<1>1. /\ CInv /\ IInv /\ TypeOK /\ Squashed /\ Fresh /\ Alone /\ History /\ KernelFlow
      /\ xcptD.cause = None /\ trace \in Seq(Nat) /\ Last' = Last /\ Last \in Nat
      /\ Resumable(ResumePC) /\ (ur.happen = 0 \/ (ur.happen = 1 /\ cpu.cause = "ecall"))
  BY SameProgram, ProgramIs DEF FlowInv, CInv, IInv, KernelPhase, History, KernelFlow
<1>2. /\ Starts(comp, "set") = {} /\ Starts(comp, "exitpc") = {} /\ Starts(comp, "ecall") = {}
      /\ \A j \in 1..c : rob[j].pc = 0
      /\ Starts(comp, "sret") = {} => KernelPhase'
      /\ Starts(comp, "sret") # {} => Returning' /\ rob'[1].pc = 0
  BY <1>1, KernelStep
<1>3. /\ ur'.exitPC = ur.exitPC /\ ur'.temp = ur.temp
      /\ ur'.happen = IF Starts(comp, "sret") # {} /\ ur.happen = 1 /\ cpu.cause = "ecall"
                      THEN 0 ELSE ur.happen
  BY <1>1, <1>2, RegsNext
<1>4. trace' = trace
  <2>1. \A j \in 1..c : rob[j].pc \notin 1..Last
    BY <1>1, <1>2
  <2> QED
    BY <1>1, <2>1, TraceNext
<1>5. History'
  BY <1>1, <1>4, HistoryStays
<1>6. PICK q : q = ResumePC
  OBVIOUS
<1>7. Resumable(q)'
  BY <1>1, <1>3, <1>4, <1>6, StaysResumable
<1>8. ~TrapTaken /\ cpu' = CpuAfter(comp)
  BY <1>1, RegistersAre DEF TrapTaken
<1>9. cpu \in [prv : {0, 1}, d1 : {0, 1}, d2 : {0, 1}, epc : Nat, cause : Causes \cup {"ecall"}]
  BY <1>1 DEF TypeOK
<1>10. CASE Starts(comp, "sret") = {}
  <2>1. cpu'.epc = cpu.epc /\ cpu'.cause = cpu.cause
    <3>1. cpu' = [cpu EXCEPT !.d1 = cpu.prv, !.d2 = cpu.d1]
      BY <1>2, <1>8, <1>10, CpuShifts
    <3> QED
      BY <1>9, <3>1
  <2>2. ur'.happen = ur.happen
    BY <1>3, <1>10
  <2>3. ResumePC' = q
    BY <1>6, <2>1, <2>2 DEF ResumePC
  <2>4. KernelPhase'
    BY <1>2, <1>10
  <2>5. KernelFlow'
    <3>1. Resumable(ResumePC)'
      BY <1>7, <2>3 DEF Resumable
    <3> QED
      BY <1>1, <2>1, <2>2, <3>1 DEF KernelFlow
  <2>6. ExitRead'
    <3>1. rstate' # "rollback" => \A j \in 1..Len(rob') : rob'[j].pc = 0
      BY <2>4 DEF KernelPhase, AllKernel
    <3> QED
      BY <1>1, <3>1 DEF ExitRead
  <2> QED
    BY <1>5, <2>4, <2>5, <2>6, PhasesApart DEF Flows, UserFlow, CallFlow
<1>11. CASE Starts(comp, "sret") # {}
  <2>1. cpu'.epc = q
    <3>1. cpu' = [[cpu EXCEPT !.d1 = cpu.prv, !.d2 = cpu.d1] EXCEPT !.prv = 0, !.epc = ResumePC]
      BY <1>2, <1>8, <1>11 DEF CpuAfter
    <3> QED
      BY <1>6, <1>9, <3>1
  <2>2. ur'.happen = 0
    BY <1>1, <1>3, <1>11
  <2>3. Returning' /\ rob'[1].pc = 0
    BY <1>2, <1>11
  <2>4. CallFlow'
    <3>1. Resumable(cpu.epc)'
      BY <1>7, <2>1 DEF Resumable
    <3> QED
      BY <2>2, <2>3, <3>1, PhasesApart DEF CallFlow
  <2>5. ExitRead'
    <3>1. Len(rob') = 1 /\ rob'[1].i.k = "sret"
      BY <2>3 DEF Returning, Completes
    <3> QED
      BY <3>1 DEF ExitRead
  <2> QED
    BY <1>5, <2>3, <2>4, <2>5, PhasesApart DEF Flows, UserFlow, KernelFlow
<1> QED
  BY <1>10, <1>11

\* An ecall or sret that has begun commits: an ecall is an instruction of the program,
\* which goes on behind it.
LEMMA FlowCompletes ==
    ASSUME FlowInv, Calling \/ Returning,
           NEW c, NEW n, NEW ks, NEW irq, NEW mis, NEW comp, NEW flt, NEW ev, NEW rbk,
           Clocked(c, n, ks, irq, mis, comp, flt, ev, rbk), TypeOK'
    PROVE  Flows'
<1>1. /\ TypeOK /\ Alone /\ History /\ UopsRight /\ ExitRead /\ CallFlow /\ ~Redirecting
      /\ rstate # "rollback" /\ Len(rob) = 1 /\ rob[1].st = "done" /\ cpu.epc \in Nat
      /\ trace \in Seq(Nat) /\ Last \in Nat /\ ur.happen = 0
      /\ cpu \in [prv : {0, 1}, d1 : {0, 1}, d2 : {0, 1}, epc : Nat, cause : Causes \cup {"ecall"}]
  BY ProgramIs
     DEF FlowInv, CInv, IInv, Calling, Returning, Completes, TypeOK, History, CallFlow, Redirecting
<1>2. /\ comp = {} /\ c = 1 /\ rob' = <<>> /\ rstate' = "wait" /\ flushD' = FlushOf(rob[1])
      /\ cpu' = [cpu EXCEPT !.d1 = cpu.prv, !.d2 = cpu.d1]
  <2>1. Completes("ecall") \/ Completes("sret")
    BY DEF Calling, Returning
  <2> QED
    BY <1>1, <2>1, CompletesStep
<1>3. /\ cpu'.prv = cpu.prv /\ cpu'.d1 = cpu.prv /\ cpu'.d2 = cpu.d1 /\ cpu'.epc = cpu.epc
      /\ cpu'.cause = cpu.cause
  BY <1>1, <1>2
<1>4. ur'.exitPC = ur.exitPC /\ ur'.temp = ur.temp /\ ur'.happen = 0
  BY <1>1, <1>2, RegsIdle
<1>5. ExitRead' /\ Len(rob') = 0
  BY <1>2 DEF ExitRead
<1>6. CASE Calling
  <2>1. /\ rob[1].i.k = "ecall" /\ cpu.prv = 1 /\ cpu.cause = "ecall" /\ rob[1].pc = cpu.epc
        /\ Resumable(cpu.epc)
    BY <1>1, <1>6 DEF Calling, Completes, CallFlow
  <2>2. flushD'.t = "eret"
    BY <1>2, <2>1 DEF FlushOf
  <2>3. PICK q \in Nat : q = cpu.epc
    BY <1>1
  <2>4. Resumable(q + c)' /\ History'
    <3>1. \A j \in 1..c : rob[j].pc = q + j - 1 /\ rob[j].st # "wait"
      BY <1>1, <1>2, <2>1, <2>3
    <3>2. c \in 0..Len(rob) /\ Resumable(q)
      BY <1>1, <1>2, <2>1, <2>3
    <3> QED
      BY <1>1, <1>4, <3>1, <3>2, AdvanceStep
  <2>5. Resumable(cpu.epc + 1)'
    <3>1. cpu'.epc + 1 = q + c
      BY <1>2, <1>3, <2>3
    <3> QED
      BY <2>4, <3>1 DEF Resumable
  <2>6. ~UserPhase' /\ ~KernelPhase' /\ ~Calling' /\ ~Returning' /\ ~Returned'
    BY <1>3, <2>1, <2>2
       DEF UserPhase, IsUserMode, KernelPhase, Calling, Returning, Returned, Completes
  <2>7. CallFlow'
    BY <1>3, <1>4, <2>1, <2>5, <2>6 DEF CallFlow
  <2> QED
    BY <1>5, <2>4, <2>6, <2>7 DEF Flows, UserFlow, KernelFlow
<1>7. CASE Returning
  <2>1. /\ rob[1].i.k = "sret" /\ cpu.prv = 0 /\ cpu.d1 = 1 /\ rob[1].pc = 0
        /\ Resumable(cpu.epc)
    BY <1>1, <1>7 DEF Returning, Completes, CallFlow
  <2>2. flushD'.t = "eret" /\ flushD'.pc = cpu.epc
    BY <1>2, <2>1 DEF FlushOf
  <2>3. trace' = trace
    <3>1. \A j \in 1..c : rob[j].pc \notin 1..Last
      BY <1>1, <1>2, <2>1
    <3> QED
      BY <1>1, <3>1, TraceNext
  <2>4. Resumable(flushD.pc)'
    <3>1. PICK q : q = cpu.epc
      OBVIOUS
    <3>2. Resumable(q)'
      BY <1>4, <2>1, <2>3, <3>1, StaysResumable
    <3> QED
      BY <2>2, <3>1, <3>2 DEF Resumable
  <2>5. ~UserPhase' /\ ~KernelPhase' /\ ~Calling' /\ ~Called' /\ ~Returning'
    BY <1>3, <2>1, <2>2
       DEF UserPhase, IsUserMode, KernelPhase, Calling, Called, Returning, Completes
  <2>6. CallFlow'
    BY <1>4, <2>4, <2>5 DEF CallFlow
  <2>7. History'
    BY <1>1, <2>3, HistoryStays
  <2> QED
    BY <1>5, <2>5, <2>6, <2>7 DEF Flows, UserFlow, KernelFlow
<1> QED
  BY <1>6, <1>7

\* The redirect of an ecall or sret: to the kernel, which will go on behind the ecall, or
\* to where the program goes on.
LEMMA FlowRedirects ==
    ASSUME FlowInv, Called \/ Returned,
           NEW c, NEW n, NEW ks, NEW irq, NEW mis, NEW comp, NEW flt, NEW ev, NEW rbk,
           Clocked(c, n, ks, irq, mis, comp, flt, ev, rbk), TypeOK'
    PROVE  Flows'
<1>1. /\ TypeOK /\ History /\ CallFlow /\ Redirects /\ ~IsOverFlowExcpt /\ trace \in Seq(Nat)
      /\ ur.happen = 0
      /\ cpu \in [prv : {0, 1}, d1 : {0, 1}, d2 : {0, 1}, epc : Nat, cause : Causes \cup {"ecall"}]
  BY DEF FlowInv, CInv, IInv, Called, Returned, Redirects, IsOverFlowExcpt, None, TypeOK,
         History, CallFlow
<1>2. /\ comp = {} /\ c = 0 /\ rob' = <<>> /\ ren2' = <<>> /\ fetch'.pc = flushD.pc
      /\ xcptD'.cause = None /\ flushD'.t = "none"
      /\ cpu' = [cpu EXCEPT !.d1 = cpu.prv, !.d2 = cpu.d1]
  BY <1>1, RedirectsStep
<1>3. /\ cpu'.prv = cpu.prv /\ cpu'.d1 = cpu.prv /\ cpu'.d2 = cpu.d1 /\ cpu'.epc = cpu.epc
      /\ cpu'.cause = cpu.cause
  BY <1>1, <1>2
<1>4. ur'.exitPC = ur.exitPC /\ ur'.temp = ur.temp /\ ur'.happen = 0
  BY <1>1, <1>2, RegsIdle
<1>5. ExitRead' /\ Len(rob') = 0
  BY <1>2 DEF ExitRead
<1>6. trace' = trace
  <2>1. \A j \in 1..c : rob[j].pc \notin 1..Last
    BY <1>2
  <2> QED
    BY <1>1, <2>1, TraceNext
<1>7. History'
  BY <1>1, <1>6, HistoryStays
<1>8. ~Calling' /\ ~Called' /\ ~Returning' /\ ~Returned'
  BY <1>2, <1>5 DEF Calling, Called, Returning, Returned, Completes, Redirects
<1>9. CallFlow'
  BY <1>8 DEF CallFlow
<1>10. CASE Called
  <2>1. cpu.prv = 1 /\ cpu.cause = "ecall" /\ Resumable(cpu.epc + 1)
    BY <1>1, <1>10 DEF Called, CallFlow
  <2>2. PICK q : q = cpu.epc + 1
    OBVIOUS
  <2>3. Resumable(q)'
    BY <1>4, <1>6, <2>1, <2>2, StaysResumable
  <2>4. ResumePC' = q
    BY <1>3, <1>4, <2>1, <2>2 DEF ResumePC
  <2>5. KernelFlow'
    <3>1. Resumable(ResumePC)'
      BY <2>3, <2>4 DEF Resumable
    <3> QED
      BY <1>4, <3>1 DEF KernelFlow
  <2>6. ~UserPhase'
    BY <1>3, <2>1 DEF UserPhase, IsUserMode
  <2> QED
    BY <1>5, <1>7, <1>9, <2>5, <2>6 DEF Flows, UserFlow
<1>11. CASE Returned
  <2>1. cpu.prv = 0 /\ Resumable(flushD.pc)
    BY <1>1, <1>11 DEF Returned, CallFlow
  <2>2. PICK q \in Nat : q = flushD.pc
    BY <1>1 DEF TypeOK
  <2>3. Path(q)' /\ Resumable(q)'
    BY <1>2, <1>4, <1>6, <2>1, <2>2, PathStarts, StaysResumable
  <2>4. UserFlow'
    BY <1>2, <1>4, <2>3 DEF UserFlow
  <2>5. ~KernelPhase'
    BY <1>3, <2>1 DEF KernelPhase
  <2> QED
    BY <1>5, <1>7, <1>9, <2>4, <2>5 DEF Flows, KernelFlow
<1> QED
  BY <1>10, <1>11

-----------------------------------------------------------------------------
\* The flow holds before the first instruction.
LEMMA InitFlowInv == Init => FlowInv
<1> SUFFICES ASSUME Init PROVE FlowInv
  OBVIOUS
<1>1. CInv /\ TypeOK
  BY InitCInv DEF CInv, IInv
<1>2. Last \in 1..Len(Code) /\ Last \in Nat /\ Len(Code) \in Nat
  BY <1>1, ProgramIs
<1>3. /\ trace = <<>> /\ rob = <<>> /\ ren2 = <<>> /\ fetch = [pc |-> 1, wp |-> FALSE]
      /\ flushD.t = "none" /\ commD = 0 /\ rstate = "normal" /\ cpu.prv = 0 /\ cpu.d1 = 0
      /\ ur.func = 0 /\ ur.happen = 0 /\ cpu.d2 = 0
  BY DEF Init, NoFlush
<1>4. Len(trace) = 0 /\ Len(rob) = 0 /\ Len(ren2) = 0
  BY <1>3
<1>5. History
  <2>1. trace = [j \in 1..0 |-> j]
    BY <1>3
  <2> QED
    BY <1>2, <1>3, <1>4, <2>1 DEF History, Transparent
<1>6. Sizes
  BY <1>3, <1>4, CoreAssumption DEF Sizes
<1>7. Handlers /\ UopsRight /\ ExitRead
  BY <1>3, <1>4 DEF Handlers, UopsRight, ExitRead
<1>8. Path(1) /\ Resumable(1)
  <2>1. Following = 1
    BY <1>4 DEF Following
  <2>2. Queued = 0
    BY <1>4 DEF Queued
  <2> QED
    BY <1>3, <1>4, <2>1, <2>2 DEF Path, Resumable
<1>9. UserFlow
  BY <1>3, <1>8 DEF UserFlow
<1>10. KernelFlow /\ CallFlow
  BY <1>3 DEF KernelFlow, CallFlow, KernelPhase, Calling, Called, Returning, Returned, Redirects
<1> QED
  BY <1>1, <1>5, <1>6, <1>7, <1>9, <1>10 DEF FlowInv

\* Every cycle keeps the flow.
LEMMA NextFlowInv == FlowInv /\ [Next]_vars => FlowInv'
<1> SUFFICES ASSUME FlowInv, [Next]_vars PROVE FlowInv'
  OBVIOUS
<1>1. CInv'
  BY NextCInv DEF FlowInv
<1>2. CASE UNCHANGED vars
  BY <1>1, <1>2
     DEF vars, FlowInv, Sizes, History, Transparent, Handlers, UopsRight, UopRight, ExitRead,
         UserFlow, KernelFlow, CallFlow, UserPhase, KernelPhase, Calling, Called, Returning,
         Returned, Completes, Redirects, AllUser, AllKernel, Waits, IsUserMode, Resumable,
         Harmless, Ahead, Following, Path, Queued, ResumePC, Code, Last
<1>3. CASE Next
  <2>1. PICK c \in 0..CoreWidth, n \in 0..CoreWidth, ks \in {"kern", "sret"}, irq \in BOOLEAN,
             mis \in BOOLEAN, rbk \in BOOLEAN, comp \in SUBSET Finishing, flt \in SUBSET Loads,
             ev \in 0..1 : Clocked(c, n, ks, irq, mis, comp, flt, ev, rbk)
    BY <1>3 DEF Next, Clocked
  <2>2. CInv /\ Sizes /\ IInv /\ Phases /\ UopsRight /\ Handlers /\ TypeOK'
    BY <1>1 DEF FlowInv, CInv, IInv
  <2>3. Sizes' /\ UopsRight' /\ Handlers'
    BY <2>1, <2>2, SizesStep, UopsStep, HandlersStep
  <2>4. Flows'
    <3>1. CASE UserPhase /\ rstate = "rollback"
      BY <2>1, <2>2, <3>1, FlowRollback
    <3>2. CASE UserPhase /\ rstate # "rollback"
      BY <2>1, <2>2, <3>2, FlowUser
    <3>3. CASE KernelPhase
      BY <2>1, <2>2, <3>3, FlowKernel
    <3>4. CASE Calling \/ Returning
      BY <2>1, <2>2, <3>4, FlowCompletes
    <3>5. CASE Called \/ Returned
      BY <2>1, <2>2, <3>5, FlowRedirects
    <3> QED
      BY <2>2, <3>1, <3>2, <3>3, <3>4, <3>5 DEF Phases
  <2> QED
    BY <1>1, <2>3, <2>4 DEF FlowInv, Flows
<1> QED
  BY <1>2, <1>3

\* Whatever samples, traps, mispredictions and rollbacks happen, the program commits its
\* instructions in order, each once, and none behind its end.
THEOREM TransparentHolds == Spec => []Transparent
<1>1. FlowInv => Transparent
  BY DEF FlowInv, History
<1> QED
  BY InitFlowInv, NextFlowInv, <1>1, PTL DEF Spec
=============================================================================
