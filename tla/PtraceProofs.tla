---------------------------- MODULE PtraceProofs ----------------------------
(***************************************************************************)
(* Until a signal comes, every sample the ptrace tool takes is over before *)
(* the child runs on, and the traced program takes only steps of the       *)
(* untraced one: proofs for any program, any number of periods and signals.*)
(***************************************************************************)
EXTENDS PtraceSampler, TLAPS

Registers == [pc : Int, a0 : Int, a7 : Int]

TypeOK ==
    /\ regs \in Registers
    /\ hw \in [max : {0, 1}, happen : {0, 1}, pfc : {0, 1}]
    /\ tr \in [at : {"cont1", "wait1", "cont2", "wait2", "done"}, regs : Registers,
               old : Int, times : Nat, ran : {0, 1}]
    /\ sigs \in Nat

\* No sample is open, and the next one is armed after the first brk.
Armed == hw.happen = 0 /\ (tr.ran = 1 => hw.max # 0)

\* Where tracer and child are, what is armed, and where the program's registers
\* are: the tool has not lost step with the stops.
Before  == [pc |-> regs.pc - 1, a0 |-> regs.a0, a7 |-> regs.a7]
Between == tr.at = "cont1" /\ st \in {"sigstop", "exitstop"} /\ Armed /\ view.regs = regs
Runs    == tr.at = "wait1" /\ st = "user" /\ Armed /\ view.regs = regs
Calling == /\ trap = "ecall" /\ Armed
           /\ \/ tr.at \in {"wait1", "cont2"} /\ st = "entrystop"
              \/ tr.at = "wait2" /\ st = "sys"
           /\ tr.at # "wait1" => tr.regs = regs
           /\ view.regs = Before
           /\ view.regs.pc <= Len(Code) /\ Code[view.regs.pc].k = "ecall"
Called  == /\ trap = "ecall" /\ Armed /\ tr.at = "wait2" /\ st = "exitstop"
           /\ tr.regs.a7 # Bogus /\ view.regs = regs
Sampled == /\ trap = "sample" /\ hw.happen = 1 /\ tr.at = "wait1" /\ st = "entrystop"
           /\ view.regs = Before
Hidden  == /\ trap = "sample" /\ hw.happen = 0
           /\ \/ tr.at = "cont2" /\ st = "entrystop"
              \/ tr.at = "wait2" /\ st = "sys"
           /\ tr.regs = regs /\ regs.a7 = Bogus
           /\ view.regs = [regs EXCEPT !.a7 = tr.old]
Skipped == /\ trap = "sample" /\ hw.happen = 0 /\ tr.at = "wait2" /\ st = "exitstop"
           /\ tr.regs.a7 = Bogus
           /\ view.regs = [tr.regs EXCEPT !.a7 = tr.old]

InStep ==
    /\ view.calls = calls
    /\ view.regs.a7 # Bogus
    /\ Between \/ Runs \/ Calling \/ Called \/ Sampled \/ Hidden \/ Skipped \/ st = "exited"

\* SamplingGoesOn speaks of user mode only; that it holds again after a sample
\* depends on the whole round of stops.
IInv == TypeOK /\ (sigs = 0 => InStep)

\* What a step makes of view, as long as no signal came.
Mapped == <<view.regs.pc, view.regs.a0, view.regs.a7, view.calls>>

\* The child is stopped in execv: the invariant holds at the start.
LEMMA InitIInv == Init => IInv
<1> SUFFICES ASSUME Init PROVE IInv
  OBVIOUS
<1>1. TypeOK
  BY DEF Init, TypeOK, Registers
<1>2. InStep
  BY ToolAssumption DEF Init, InStep, Between, Armed
<1> QED
  BY <1>1, <1>2 DEF IInv

\* Every step keeps the types.
LEMMA NextType == TypeOK /\ [Next]_vars => TypeOK'
<1> SUFFICES ASSUME TypeOK, [Next]_vars PROVE TypeOK'
  OBVIOUS
<1> USE DEF TypeOK, Registers
<1>1. CASE ChildAlu
  BY <1>1 DEF ChildAlu, UserStep
<1>2. CASE ChildLi
  <2>1. Code[regs.pc].nr \in Int
    BY <1>2, ToolAssumption DEF ChildLi, At
  <2> QED
    BY <1>2, <2>1 DEF ChildLi, UserStep
<1>a. [regs EXCEPT !.pc = @ + 1] \in Registers
  OBVIOUS
<1>3. CASE ChildEcall
  BY <1>3, <1>a DEF ChildEcall, EnterKernel
<1>4. CASE Sample
  BY <1>4, <1>a DEF Sample, EnterKernel
<1>5. CASE Signal
  BY <1>5 DEF Signal
<1>6. CASE SysExec
  BY <1>6, ToolAssumption DEF SysExec
<1>7. CASE Cont1 \/ Cont2
  BY <1>7 DEF Cont1, Cont2, Cont
<1>8. CASE Exited
  BY <1>8 DEF Exited
<1>9. CASE Stop1Plain
  BY <1>9 DEF Stop1Plain
<1>10. CASE Stop1Sample
  <2>1. regs' \in Registers
    BY <1>10, ToolAssumption DEF Stop1Sample, HideCall
  <2>2. hw' \in [max : {0, 1}, happen : {0, 1}, pfc : {0, 1}] /\ sigs' = sigs
    BY <1>10 DEF Stop1Sample
  <2>3. PICK a \in {"done", "cont2"} :
           tr' = [at |-> a, regs |-> regs', old |-> regs.a7, times |-> tr.times + 1, ran |-> tr.ran]
    BY <1>10 DEF Stop1Sample
  <2> QED
    BY <2>1, <2>2, <2>3
<1>11. CASE Stop2Sample
  <2>1. regs' \in Registers
    BY <1>11 DEF Stop2Sample, RepairRegs
  <2> QED
    BY <1>11, <2>1 DEF Stop2Sample, Arm
<1>12. CASE Stop2Start
  BY <1>12 DEF Stop2Start, Arm
<1>13. CASE Stop2Plain
  BY <1>13 DEF Stop2Plain
<1>14. CASE UNCHANGED vars
  BY <1>14 DEF vars
<1> QED
  BY <1>1, <1>2, <1>3, <1>4, <1>5, <1>6, <1>7, <1>8, <1>9, <1>10, <1>11, <1>12, <1>13, <1>14
     DEF Next, Child, Tracer, Finished

\* The calls that a program makes are none of the tool's: a7 is never Bogus.
LEMMA CallsKnown == \A i \in 1..Len(Code) : Code[i].k = "li" => Code[i].nr # Bogus
BY ToolAssumption

\* The registers before the trap are those after it with the pc moved back.
LEMMA Trapped ==
  ASSUME TypeOK, regs' = [regs EXCEPT !.pc = @ + 1]
  PROVE  Before' = regs
<1>1. regs'.pc - 1 = regs.pc /\ regs'.a0 = regs.a0 /\ regs'.a7 = regs.a7
  BY DEF TypeOK, Registers
<1>2. regs = [pc |-> regs.pc, a0 |-> regs.a0, a7 |-> regs.a7]
  BY DEF TypeOK, Registers
<1> QED
  BY <1>1, <1>2 DEF Before

\* The child's steps keep the round of stops, as long as no signal came.
LEMMA ChildInStep ==
  ASSUME TypeOK, InStep, sigs = 0, ChildAlu \/ ChildLi \/ ChildEcall \/ Sample \/ SysExec
  PROVE  InStep'
<1> USE DEF TypeOK, Registers
<1>1. CASE ChildAlu
  <2>1. Runs
    BY <1>1 DEF InStep, ChildAlu, At, Between, Calling, Called, Sampled, Hidden, Skipped
  <2> QED
    BY <1>1, <2>1 DEF InStep, Runs, Armed, ChildAlu, UserStep, See
<1>2. CASE ChildLi
  <2>1. Runs
    BY <1>2 DEF InStep, ChildLi, At, Between, Calling, Called, Sampled, Hidden, Skipped
  <2>2. Code[regs.pc].nr # Bogus
    BY <1>2, CallsKnown DEF ChildLi, At
  <2> QED
    BY <1>2, <2>1, <2>2 DEF InStep, Runs, Armed, ChildLi, UserStep, See
<1>3. CASE ChildEcall
  <2>1. Runs
    BY <1>3 DEF InStep, ChildEcall, At, Between, Calling, Called, Sampled, Hidden, Skipped
  <2>2. Before' = view'.regs /\ view'.regs = regs
    BY <1>3, <2>1, Trapped DEF ChildEcall, Runs, EnterKernel
  <2>3. Armed' /\ tr'.at = "wait1" /\ trap' = "ecall" /\ st' = "entrystop"
    BY <1>3, <2>1 DEF Runs, Armed, ChildEcall, EnterKernel
  <2>4. Calling'
    BY <1>3, <2>2, <2>3, ToolAssumption DEF Calling, ChildEcall, At
  <2> QED
    BY <1>3, <2>4 DEF InStep, ChildEcall, EnterKernel
<1>4. CASE Sample
  <2>1. Runs
    BY <1>4 DEF InStep, Sample, Between, Calling, Called, Sampled, Hidden, Skipped
  <2>2. Before' = view'.regs
    BY <1>4, <2>1, Trapped DEF Sample, Runs, EnterKernel
  <2>3. Sampled'
    BY <1>4, <2>1, <2>2 DEF Runs, Sampled, Sample, EnterKernel
  <2> QED
    BY <1>4, <2>3 DEF InStep, Sample, EnterKernel
<1>5. CASE SysExec
  <2>1. Calling \/ Hidden
    BY <1>5 DEF InStep, SysExec, Between, Runs, Called, Sampled, Skipped
  <2>2. CASE Calling
    <3>1. Known(regs.a7) /\ regs.a7 = view.regs.a7
      BY <2>2 DEF InStep, Calling, Known, Before
    <3>2. view'.regs = regs' /\ view'.calls = calls' /\ regs'.a7 = regs.a7
      BY <1>5, <3>1 DEF SysExec, See
    <3>3. st' = "exited" \/ Called'
      BY <1>5, <2>2, <3>1, <3>2 DEF SysExec, Calling, Called, Armed, InStep
    <3> QED
      BY <3>1, <3>2, <3>3 DEF InStep
  <2>3. CASE Hidden
    <3>1. ~Known(regs.a7) /\ st = "sys" /\ tr.at = "wait2"
      BY <1>5, <2>3 DEF Hidden, Known, SysExec
    <3>2. Skipped'
      BY <1>5, <2>3, <3>1 DEF SysExec, Hidden, Skipped
    <3> QED
      BY <1>5, <3>1, <3>2 DEF InStep, SysExec
  <2> QED
    BY <2>1, <2>2, <2>3
<1> QED
  BY <1>1, <1>2, <1>3, <1>4, <1>5

\* So do the tracer's: each stop is answered by what belongs to it.
LEMMA TracerInStep ==
  ASSUME TypeOK, InStep, sigs = 0, Tracer
  PROVE  InStep'
<1> USE DEF TypeOK, Registers
<1>1. CASE Cont1
  <2>1. CASE Between
    <3>1. Runs'
      BY <1>1, <2>1 DEF Between, Runs, Armed, Cont1, Cont, See
    <3> QED
      BY <1>1, <2>1, <3>1 DEF InStep, Between, Cont1, Cont, See
  <2> QED
    BY <1>1, <2>1
       DEF InStep, Cont1, Cont, Stopped, Runs, Calling, Called, Sampled, Hidden, Skipped
<1>2. CASE Cont2
  <2>1. st = "entrystop" /\ (Calling \/ Hidden)
    BY <1>2 DEF InStep, Cont2, Cont, Stopped, Between, Runs, Calling, Called, Sampled, Hidden, Skipped
  <2>2. UNCHANGED <<view, calls, regs, trap, hw>> /\ st' = "sys"
        /\ tr' = [tr EXCEPT !.at = "wait2"]
    BY <1>2, <2>1 DEF Cont2, Cont
  <2>3. tr'.at = "wait2" /\ tr'.regs = tr.regs /\ tr'.old = tr.old /\ tr'.ran = tr.ran
        /\ tr.at = "cont2"
    BY <1>2, <2>2 DEF Cont2, Cont
  <2>4. CASE Calling
    <3>1. Calling'
      BY <2>2, <2>3, <2>4 DEF Calling, Armed, Before
    <3> QED
      BY <2>2, <3>1 DEF InStep
  <2>5. CASE Hidden
    <3>1. Hidden'
      BY <2>2, <2>3, <2>5 DEF Hidden
    <3> QED
      BY <2>2, <3>1 DEF InStep
  <2> QED
    BY <2>1, <2>4, <2>5
<1>3. CASE Exited
  BY <1>3 DEF InStep, Exited
<1>4. CASE Stop1Plain
  <2>1. Calling
    BY <1>4 DEF InStep, Stop1Plain, Stopped, Between, Runs, Calling, Called, Sampled, Hidden, Skipped
  <2>2. tr'.at = "cont2" /\ tr'.regs = regs /\ tr'.ran = tr.ran
    BY <1>4 DEF Stop1Plain
  <2>3. Calling'
    BY <1>4, <2>1, <2>2 DEF Calling, Armed, Before, Stop1Plain
  <2> QED
    BY <1>4, <2>3 DEF InStep, Stop1Plain
<1>5. CASE Stop1Sample
  <2>1. Sampled
    BY <1>5 DEF InStep, Stop1Sample, Stopped, Between, Runs, Calling, Called, Sampled, Hidden,
                Skipped, Armed
  <2>2. st' = "exited" \/ (st' = "entrystop" /\ tr'.at = "cont2")
    BY <1>5, <2>1 DEF Stop1Sample, Sampled
  <2>3. /\ regs' = [pc |-> regs.pc - 1, a0 |-> regs.a0, a7 |-> Bogus]
        /\ tr'.regs = regs' /\ tr'.old = regs.a7 /\ hw'.happen = 0
        /\ UNCHANGED <<trap, view, calls>>
    BY <1>5 DEF Stop1Sample, HideCall
  <2>4. [regs' EXCEPT !.a7 = tr'.old] = Before
    BY <2>3 DEF Before
  <2>5. st' = "exited" \/ Hidden'
    BY <2>1, <2>2, <2>3, <2>4 DEF Sampled, Hidden
  <2> QED
    BY <2>3, <2>5 DEF InStep
<1>6. CASE Stop2Sample
  <2>1. Skipped
    BY <1>6 DEF InStep, Stop2Sample, Stopped, Between, Runs, Calling, Called, Sampled, Hidden, Skipped
  <2>2. Between'
    BY <1>6, <2>1 DEF Skipped, Between, Armed, Stop2Sample, RepairRegs, Arm
  <2> QED
    BY <1>6, <2>2 DEF InStep, Stop2Sample
<1>7. CASE Stop2Start
  <2>1. Called
    BY <1>7, ToolAssumption
       DEF InStep, Stop2Start, Stopped, Between, Runs, Calling, Called, Sampled, Hidden, Skipped
  <2>2. Between'
    BY <1>7, <2>1 DEF Called, Between, Armed, Stop2Start, Arm
  <2> QED
    BY <1>7, <2>2 DEF InStep, Stop2Start
<1>8. CASE Stop2Plain
  <2>1. Called
    BY <1>8 DEF InStep, Stop2Plain, Stopped, Between, Runs, Calling, Called, Sampled, Hidden, Skipped
  <2>2. Between'
    BY <1>8, <2>1 DEF Called, Between, Armed, Stop2Plain
  <2> QED
    BY <1>8, <2>2 DEF InStep, Stop2Plain
<1> QED
  BY <1>1, <1>2, <1>3, <1>4, <1>5, <1>6, <1>7, <1>8 DEF Tracer

\* Every step keeps the invariant; a signal ends what InStep claims.
LEMMA NextIInv == IInv /\ [Next]_vars => IInv'
<1> SUFFICES ASSUME IInv, [Next]_vars PROVE IInv'
  OBVIOUS
<1>1. TypeOK /\ TypeOK'
  BY NextType DEF IInv
<1>2. ASSUME sigs' = 0 PROVE InStep'
  <2>1. CASE Signal
    BY <1>1, <1>2, <2>1 DEF Signal, TypeOK
  <2>2. CASE ChildAlu \/ ChildLi \/ ChildEcall \/ Sample \/ SysExec
    <3>1. sigs = 0
      BY <1>2, <2>2 DEF ChildAlu, ChildLi, UserStep, ChildEcall, Sample, EnterKernel, SysExec
    <3> QED
      BY <1>1, <2>2, <3>1, ChildInStep DEF IInv
  <2>3. CASE Tracer
    <3>1. sigs = 0
      BY <1>2, <2>3 DEF Tracer, Cont1, Cont2, Cont, Exited, Stop1Plain, Stop1Sample, Stop2Sample,
                        Stop2Start, Stop2Plain
    <3> QED
      BY <1>1, <2>3, <3>1, TracerInStep DEF IInv
  <2>4. CASE UNCHANGED vars
    BY <1>2, <2>4 DEF vars, IInv, InStep, Between, Runs, Calling, Called, Sampled, Hidden, Skipped,
                      Armed, Before
  <2> QED
    BY <2>1, <2>2, <2>3, <2>4 DEF Next, Child, Finished
<1> QED
  BY <1>1, <1>2 DEF IInv

\* In every reachable state tool and child are in step until a signal comes.
THEOREM Invariance == Spec => []IInv
<1> QED
  BY InitIInv, NextIInv, PTL DEF Spec

\* While the child runs and no signal came, no sample is open and, after the
\* first brk, the next one is armed (trace.cpp 76-78, 83-85).
THEOREM SamplingGoesOnHolds == Spec => []SamplingGoesOn
<1>1. IInv => SamplingGoesOn
  BY DEF IInv, InStep, SamplingGoesOn, Between, Runs, Calling, Called, Sampled, Hidden, Skipped,
         Armed
<1> QED
  BY <1>1, Invariance, PTL

\* What the tool and the kernel do around the program leaves its registers and
\* calls alone; its own steps, and its calls when the kernel executes them, are
\* steps of the untraced program.
LEMMA ChildMapped ==
  ASSUME TypeOK, InStep, sigs = 0, ChildAlu \/ ChildLi \/ ChildEcall \/ Sample \/ SysExec
  PROVE  Untraced!Next \/ Mapped' = Mapped
<1>1. CASE ChildAlu
  <2>1. Runs
    BY <1>1 DEF InStep, ChildAlu, At, Between, Calling, Called, Sampled, Hidden, Skipped
  <2>2. view' = [regs |-> [pc |-> regs.pc + 1, a0 |-> regs.pc, a7 |-> regs.a7], calls |-> calls]
    BY <1>1 DEF ChildAlu, UserStep, See
  <2> QED
    BY <1>1, <2>1, <2>2, ToolAssumption
       DEF InStep, Runs, ChildAlu, At, Untraced!Next, Untraced!Alu, Untraced!At
<1>2. CASE ChildLi
  <2>1. Runs
    BY <1>2 DEF InStep, ChildLi, At, Between, Calling, Called, Sampled, Hidden, Skipped
  <2>2. view' = [regs |-> [pc |-> regs.pc + 1, a0 |-> regs.a0, a7 |-> Code[regs.pc].nr],
                 calls |-> calls]
    BY <1>2 DEF ChildLi, UserStep, See
  <2> QED
    BY <1>2, <2>1, <2>2, ToolAssumption
       DEF InStep, Runs, ChildLi, At, Untraced!Next, Untraced!Li, Untraced!At
<1>3. CASE ChildEcall
  BY <1>3 DEF ChildEcall, EnterKernel, Mapped
<1>4. CASE Sample
  BY <1>4 DEF Sample, EnterKernel, Mapped
<1>5. CASE SysExec
  <2>1. CASE Calling
    <3>1. Known(regs.a7) /\ view.regs = Before
      BY <2>1 DEF InStep, Calling, Known, Before
    <3>2. view' = [regs |-> [regs EXCEPT !.a0 = Ret], calls |-> Append(calls, regs.a7)]
      BY <1>5, <3>1 DEF SysExec, See
    <3>3. /\ view'.regs.a0 = Ret /\ view'.regs.pc = regs.pc /\ view'.regs.a7 = regs.a7
          /\ view'.calls = Append(calls, regs.a7)
      BY <3>2 DEF TypeOK, Registers
    <3>4. view'.regs.pc = view.regs.pc + 1 /\ regs.a7 = view.regs.a7
      BY <3>1, <3>3 DEF Before, TypeOK, Registers
    <3> QED
      BY <2>1, <3>3, <3>4 DEF InStep, Calling, Untraced!Next, Untraced!Ecall, Untraced!At
  <2>2. CASE ~Calling
    <3>1. Hidden
      BY <1>5, <2>2 DEF InStep, SysExec, Between, Runs, Called, Sampled, Skipped
    <3> QED
      BY <1>5, <3>1 DEF Hidden, Known, SysExec, Mapped
  <2> QED
    BY <2>1, <2>2
<1> QED
  BY <1>1, <1>2, <1>3, <1>4, <1>5

\* The tracer's steps change nothing that the program sees.
LEMMA TracerMapped ==
  ASSUME TypeOK, InStep, sigs = 0, Tracer
  PROVE  Mapped' = Mapped
<1>1. CASE Cont1
  <2>1. CASE st = "entrystop"
    BY <1>1, <2>1 DEF Cont1, Cont, Mapped
  <2>2. CASE st # "entrystop"
    <3>1. Between
      BY <1>1, <2>2 DEF InStep, Cont1, Cont, Stopped, Runs, Calling, Called, Sampled, Hidden, Skipped
    <3> QED
      BY <1>1, <2>2, <3>1 DEF InStep, Between, Cont1, Cont, See, Mapped
  <2> QED
    BY <2>1, <2>2
<1>2. CASE Cont2
  <2>1. st = "entrystop"
    BY <1>2 DEF InStep, Cont2, Cont, Stopped, Between, Runs, Calling, Called, Sampled, Hidden, Skipped
  <2> QED
    BY <1>2, <2>1 DEF Cont2, Cont, Mapped
<1>3. CASE ~Cont1 /\ ~Cont2
  BY <1>3 DEF Tracer, Exited, Stop1Plain, Stop1Sample, Stop2Sample, Stop2Start, Stop2Plain, Mapped
<1> QED
  BY <1>1, <1>2, <1>3

\* ptrace/README.md and trace.cpp 46-79: up to the first signal the traced and
\* sampled program takes the steps of the untraced one, and the kernel executes
\* exactly its calls, for every program and wherever the samples hit.
THEOREM Refinement == Spec => Invisible
<1>1. Init => Untraced!Init
  BY DEF Init, Untraced!Init
<1>2. IInv /\ [Next]_vars => [Untraced!Next]_(Untraced!progvars)
  <2> SUFFICES ASSUME IInv, [Next]_vars PROVE Untraced!Next \/ Mapped' = Mapped
    BY DEF Untraced!progvars, Mapped
  <2>1. CASE Signal
    BY <2>1 DEF Signal, Mapped
  <2>2. CASE sigs # 0 /\ ~Signal
    BY <2>2 DEF Next, Child, Tracer, Finished, vars, Mapped, ChildAlu, ChildLi, UserStep, ChildEcall,
                Sample, EnterKernel, SysExec, See, Cont1, Cont2, Cont, Exited, Stop1Plain,
                Stop1Sample, Stop2Sample, Stop2Start, Stop2Plain
  <2>3. CASE sigs = 0 /\ ~Signal
    <3>1. CASE UNCHANGED vars
      BY <3>1 DEF vars, Mapped
    <3> QED
      BY <2>3, <3>1, ChildMapped, TracerMapped DEF IInv, Next, Child, Finished
  <2> QED
    BY <2>1, <2>2, <2>3
<1> QED
  BY <1>1, <1>2, Invariance, PTL DEF Spec, Invisible, Untraced!Spec
=============================================================================
