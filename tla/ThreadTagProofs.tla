-------------------------- MODULE ThreadTagProofs --------------------------
(***************************************************************************)
(* procTag is the tag of the running thread: proofs for any number of      *)
(* harts, tasks and tags.                                                  *)
(***************************************************************************)
EXTENDS ThreadTag, TLAPS

\* TagIsolation alone is not inductive: to know which tag SwitchRestore loads
\* one has to know that the task it switches to is on no other hart, and that
\* its saved tag was not overwritten since it was saved.
IInv == TypeOK /\ Placement /\ TagIsolation

\* The boot state satisfies the inductive invariant.
LEMMA InitIInv == Init => IInv
<1> SUFFICES ASSUME Init PROVE IInv
  OBVIOUS
<1>1. TypeOK
  BY TagAssumption, IdleAssumption DEF Init, TypeOK, IsIdle
<1>2. Placement
  BY IdleAssumption DEF Init, Placement, OnHart, IsIdle
<1>3. TagIsolation
  BY IdleAssumption DEF Init, TagIsolation, IsIdle
<1> QED
  BY <1>1, <1>2, <1>3 DEF IInv

\* A task is on one hart only: what another hart runs is a different task.
LEMMA Elsewhere ==
  ASSUME IInv, NEW g \in Harts, NEW h \in Harts, g # h
  PROVE  /\ curr[g] # curr[h]
         /\ phase[g] = "saved" => next[g] # curr[h]
         /\ phase[h] = "saved" => next[h] # curr[g]
         /\ phase[g] = "saved" /\ phase[h] = "saved" => next[g] # next[h]
  BY DEF IInv, TypeOK, Placement, OnHart

\* Writing the register from the running task (addi x0, rs1, 1, or the clear
\* of a sample redirect) keeps the invariant.
LEMMA WriteStep ==
  ASSUME IInv, NEW h \in Harts, NEW v \in Tags,
         phase[h] = "run",
         hwTag' = [hwTag EXCEPT ![h] = v],
         own' = [own EXCEPT ![curr[h]] = v],
         UNCHANGED <<threadtag, curr, next, phase, life>>
  PROVE  IInv'
<1>1. TypeOK'
  BY DEF IInv, TypeOK
<1>2. Placement'
  BY Elsewhere DEF IInv, TypeOK, Placement, OnHart
<1>3. TagIsolation'
  BY Elsewhere DEF IInv, TypeOK, Placement, TagIsolation
<1> QED
  BY <1>1, <1>2, <1>3 DEF IInv

\* Every step of the specification keeps the inductive invariant.
LEMMA NextIInv == IInv /\ [Next]_vars => IInv'
<1> SUFFICES ASSUME IInv, [Next]_vars PROVE IInv'
  OBVIOUS
<1>1. ASSUME NEW h \in Harts, NEW v \in Tags, SetProcTag(h, v) PROVE IInv'
  BY <1>1, WriteStep DEF SetProcTag, Running
<1>2. ASSUME NEW h \in Harts, SampleRedirect(h) PROVE IInv'
  BY <1>2, WriteStep, TagAssumption DEF SampleRedirect, Running
<1>3. ASSUME NEW h \in Harts, NEW c \in Tasks, Fork(h, c) PROVE IInv'
  <2>1. TypeOK'
    BY <1>3 DEF IInv, TypeOK, Fork, ForkTag
  <2>2. Placement'
    BY <1>3 DEF IInv, TypeOK, Placement, OnHart, Fork, ForkTag
  <2>3. TagIsolation'
    BY <1>3 DEF IInv, TypeOK, Placement, TagIsolation, Fork, ForkTag
  <2> QED
    BY <2>1, <2>2, <2>3 DEF IInv
<1>4. ASSUME NEW h \in Harts, Exit(h) PROVE IInv'
  <2>1. TypeOK'
    BY <1>4 DEF IInv, TypeOK, Exit
  <2>2. Placement'
    BY <1>4, Elsewhere DEF IInv, TypeOK, Placement, OnHart, Exit, Running
  <2>3. TagIsolation'
    BY <1>4 DEF IInv, TypeOK, TagIsolation, Exit
  <2> QED
    BY <2>1, <2>2, <2>3 DEF IInv
<1>5. ASSUME NEW h \in Harts, NEW n \in Tasks, SwitchSave(h, n) PROVE IInv'
  <2>1. TypeOK'
    BY <1>5 DEF IInv, TypeOK, SwitchSave, SavedTag
  <2>2. n # curr[h]
    BY <1>5 DEF IInv, TypeOK, Placement, SwitchSave
  <2>3. Placement'
    <3>1. \A g \in Harts : (life[curr[g]] \in {"oncpu", "dying"})'
      BY <1>5 DEF IInv, TypeOK, Placement, SwitchSave
    <3>2. \A g \in Harts : (phase[g] = "saved" =>
             /\ life[next[g]] = "oncpu"
             /\ next[g] # curr[g]
             /\ threadtag[next[g]] = own[next[g]]
             /\ threadtag[curr[g]] = own[curr[g]])'
      BY <1>5, <2>2, Elsewhere
      DEF IInv, TypeOK, Placement, TagIsolation, SwitchSave, SavedTag
    <3>3. \A g, k \in Harts : \A t \in Tasks :
             (OnHart(t, g) /\ OnHart(t, k))' => g = k
      BY <1>5 DEF IInv, TypeOK, Placement, OnHart, SwitchSave
    <3> QED
      BY <3>1, <3>2, <3>3 DEF Placement
  <2>4. TagIsolation'
    BY <1>5 DEF IInv, TypeOK, TagIsolation, SwitchSave, SavedTag
  <2> QED
    BY <2>1, <2>3, <2>4 DEF IInv
<1>6. ASSUME NEW h \in Harts, SwitchRestore(h) PROVE IInv'
  <2>1. TypeOK'
    BY <1>6 DEF IInv, TypeOK, SwitchRestore, RestoredTag
  <2>2. Placement'
    <3>1. \A g \in Harts : (life[curr[g]] \in {"oncpu", "dying"})'
      BY <1>6, Elsewhere DEF IInv, TypeOK, Placement, SwitchRestore
    <3>2. \A g \in Harts : (phase[g] = "saved" =>
             /\ life[next[g]] = "oncpu"
             /\ next[g] # curr[g]
             /\ threadtag[next[g]] = own[next[g]]
             /\ threadtag[curr[g]] = own[curr[g]])'
      BY <1>6, Elsewhere DEF IInv, TypeOK, Placement, SwitchRestore
    <3>3. \A g, k \in Harts : \A t \in Tasks :
             (OnHart(t, g) /\ OnHart(t, k))' => g = k
      BY <1>6 DEF IInv, TypeOK, Placement, OnHart, SwitchRestore
    <3> QED
      BY <3>1, <3>2, <3>3 DEF Placement
  <2>3. TagIsolation'
    <3>1. \A g \in Harts : (hwTag[g] = own[curr[g]])'
      BY <1>6 DEF IInv, TypeOK, Placement, TagIsolation, SwitchRestore, RestoredTag
    <3>2. threadtag[curr[h]] = own[curr[h]]
      BY <1>6 DEF IInv, TypeOK, Placement, SwitchRestore
    <3> QED
      BY <1>6, <3>1, <3>2 DEF IInv, TypeOK, TagIsolation, SwitchRestore
  <2> QED
    BY <2>1, <2>2, <2>3 DEF IInv
<1>7. CASE UNCHANGED vars
  BY <1>7 DEF IInv, TypeOK, Placement, OnHart, TagIsolation, vars
<1> QED
  BY <1>1, <1>2, <1>3, <1>4, <1>5, <1>6, <1>7 DEF Next

\* The three-part invariant holds in every reachable state.
THEOREM Invariance == Spec => []IInv
  BY InitIInv, NextIInv, PTL DEF Spec

\* procTag always is the tag of the thread that runs, and a waiting thread's
\* saved tag is the one it left with, for any number of harts and threads.
THEOREM TagIsolationHolds == Spec => []TagIsolation
<1>1. IInv => TagIsolation
  BY DEF IInv
<1> QED
  BY <1>1, Invariance, PTL
=============================================================================
