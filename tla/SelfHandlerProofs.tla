------------------------- MODULE SelfHandlerProofs -------------------------
(***************************************************************************)
(* The handler of a self-sampled program is never sampled itself, and the  *)
(* sampled program takes only steps of the unsampled one: proofs for any   *)
(* program, any period that SelfAssumption allows and any lateness.        *)
(***************************************************************************)
EXTENDS SelfHandler, FiniteSetTheorems, TLAPS

Places == {"prog"} \cup Starting \cup Handler

TypeOK ==
    /\ regs \in [pc : Nat, a0 : Nat, a7 : Nat]
    /\ at \in Places
    /\ mem \in [a0 : Nat, a7 : Nat]
    /\ hw \in [tag : Nat, func : Nat, max : Nat, now : Nat, exitPC : Nat, temp : Nat]

\* Blocks in which the counter is disarmed, and what the others have counted.
Disarmed == {"initbase", "initctrl", "temp", "save", "savea0", "basic", "exitpc", "func", "base", "ctrl"}
CountedAt(b) == CASE b = "reset" -> 0 [] b = "load" -> 1 [] b = "loada0" -> 2 [] b = "uret" -> 3

\* Blocks after the one that moves the exit pc to temporary register 0.
Kept == {"func", "base", "ctrl"} \cup AfterArm

\* HandlerAlone is not inductive: that the last blocks stay below the period
\* needs the number of events counted there, and that a sample finds nothing
\* in temporary register 0 that is still needed needs HandlerAlone.
IInv ==
    /\ TypeOK
    /\ at \in Disarmed => hw.max = 0
    /\ at \in AfterArm => hw.max = MaxEvent /\ hw.now <= CountedAt(at)
    /\ at \in Kept => hw.temp = hw.exitPC

\* The blocks behind the one that arms the core, as a number.
LEMMA AfterArmSize == Cardinality(AfterArm) = 4
<1>1. IsFiniteSet({}) /\ Cardinality({}) = 0
  BY FS_EmptySet
<1>2. IsFiniteSet({"reset"}) /\ Cardinality({"reset"}) = 1
  BY FS_Singleton
<1>3. IsFiniteSet({"reset", "load"}) /\ Cardinality({"reset", "load"}) = 2
  <2>1. {"reset", "load"} = {"reset"} \cup {"load"}
    OBVIOUS
  <2> QED
    BY <1>2, <2>1, FS_AddElement
<1>4. IsFiniteSet({"reset", "load", "loada0"}) /\ Cardinality({"reset", "load", "loada0"}) = 3
  <2>1. {"reset", "load", "loada0"} = {"reset", "load"} \cup {"loada0"}
    OBVIOUS
  <2>2. "loada0" \notin {"reset", "load"}
    OBVIOUS
  <2>3. /\ IsFiniteSet({"reset", "load"} \cup {"loada0"})
        /\ Cardinality({"reset", "load"} \cup {"loada0"}) = 2 + 1
    BY <1>3, <2>2, FS_AddElement, Zenon
  <2> QED
    BY <2>1, <2>3
<1>5. AfterArm = {"reset", "load", "loada0"} \cup {"uret"}
  BY DEF AfterArm
<1>6. "uret" \notin {"reset", "load", "loada0"}
  OBVIOUS
<1>7. Cardinality({"reset", "load", "loada0"} \cup {"uret"}) = 3 + 1
  BY <1>4, <1>6, FS_AddElement, Zenon
<1> QED
  BY <1>5, <1>7

\* A handler that has counted what IInv says is not due to be sampled.
LEMMA NotSampled == IInv => HandlerAlone
<1> SUFFICES ASSUME IInv, at \in Handler PROVE ~Overflow
  BY DEF HandlerAlone
<1>1. CASE at \in Disarmed
  BY <1>1 DEF IInv, Overflow, Counting
<1>2. CASE at \in AfterArm
  <2>1. hw.now <= 3
    BY <1>2 DEF IInv, CountedAt, AfterArm, TypeOK
  <2>2. hw.max >= 4 /\ hw.now \in Nat /\ hw.max \in Nat
    BY <1>2, AfterArmSize, SelfAssumption DEF IInv, TypeOK
  <2> QED
    BY <2>1, <2>2 DEF Overflow
<1> QED
  BY <1>1, <1>2 DEF Handler, Disarmed

\* Before initStart runs, the invariant holds.
LEMMA InitIInv == Init => IInv
BY SelfAssumption DEF Init, IInv, TypeOK, Places, Starting, Handler, Disarmed, AfterArm, Kept

\* One event more, if the core counts; nothing else changes.
LEMMA TickType ==
  ASSUME TypeOK
  PROVE  /\ Tick \in [tag : Nat, func : Nat, max : Nat, now : Nat, exitPC : Nat, temp : Nat]
         /\ Tick.max = hw.max /\ Tick.exitPC = hw.exitPC /\ Tick.temp = hw.temp
         /\ Tick.now \in {hw.now, hw.now + 1}
BY DEF TypeOK, Tick

\* A step of the program keeps the invariant.
LEMMA ProgramStep == IInv /\ (Alu \/ Li \/ Ecall) => IInv'
<1> SUFFICES ASSUME IInv, Alu \/ Li \/ Ecall PROVE IInv'
  OBVIOUS
<1>1. at = "prog" /\ at' = at /\ mem' = mem /\ regs.pc \in 1..Len(Code)
  BY DEF Alu, Li, Ecall, Running
<1>2. hw' = Tick \/ hw' = hw
  BY DEF Alu, Li, Ecall
<1>3. regs' \in [pc : Nat, a0 : Nat, a7 : Nat]
  <2>1. regs.pc + 1 \in Nat /\ regs.pc \in Nat
    BY DEF IInv, TypeOK
  <2>2. ASSUME Alu PROVE regs' \in [pc : Nat, a0 : Nat, a7 : Nat]
    BY <2>1, <2>2 DEF Alu, IInv, TypeOK
  <2>3. ASSUME Li PROVE regs' \in [pc : Nat, a0 : Nat, a7 : Nat]
    <3>1. Code[regs.pc].nr \in Nat
      BY <1>1, <2>3, SelfAssumption DEF Li, Running
    <3> QED
      BY <2>1, <2>3, <3>1 DEF Li, IInv, TypeOK
  <2>4. ASSUME Ecall PROVE regs' \in [pc : Nat, a0 : Nat, a7 : Nat]
    BY <2>1, <2>4, SelfAssumption DEF Ecall, IInv, TypeOK
  <2> QED
    BY <2>2, <2>3, <2>4
<1> QED
  BY <1>1, <1>2, <1>3, TickType DEF IInv, TypeOK, Disarmed, AfterArm, Kept

\* A sample disarms the core and enters the handler.
LEMMA SampleStep == IInv /\ Sample => IInv'
<1> SUFFICES ASSUME IInv, Sample PROVE IInv'
  OBVIOUS
<1>1. at' = "temp" /\ mem' = mem
  BY DEF Sample
<1>2. regs' \in [pc : Nat, a0 : Nat, a7 : Nat]
  BY DEF IInv, TypeOK, Sample
<1>3. /\ hw' \in [tag : Nat, func : Nat, max : Nat, now : Nat, exitPC : Nat, temp : Nat]
      /\ hw'.max = 0
  BY DEF IInv, TypeOK, Sample, SampleHw
<1>4. TypeOK'
  BY <1>1, <1>2, <1>3 DEF IInv, TypeOK, Places, Handler
<1> QED
  BY <1>1, <1>3, <1>4 DEF IInv, AfterArm, Kept

\* initStart: the counter is armed by its second block.
LEMMA InitStartStep == IInv /\ InitStart => IInv'
<1> SUFFICES ASSUME IInv, InitStart PROVE IInv'
  OBVIOUS
<1> USE TickType, SelfAssumption DEF Places, Starting
<1>0. TypeOK
  BY DEF IInv
<1>1. CASE Block("initbase", "initctrl", regs, mem, [hw EXCEPT !.tag = 1, !.func = 1])
  <2>1. TypeOK' /\ at = "initbase" /\ at' = "initctrl" /\ hw' = [hw EXCEPT !.tag = 1, !.func = 1]
    BY <1>0, <1>1 DEF TypeOK, Block
  <2> QED
    BY <1>0, <2>1 DEF IInv, TypeOK, Disarmed, AfterArm, Kept
<1>2. CASE Block("initctrl", "initreset", regs, mem, Armed(hw))
  <2>1. TypeOK' /\ at' = "initreset"
    BY <1>0, <1>2 DEF TypeOK, Block, Armed
  <2> QED
    BY <2>1 DEF IInv, Disarmed, AfterArm, Kept
<1>3. CASE Block("initreset", "prog", regs, mem, Tick)
  <2>1. TypeOK' /\ at' = "prog"
    BY <1>0, <1>3 DEF TypeOK, Block
  <2> QED
    BY <2>1 DEF IInv, Disarmed, AfterArm, Kept
<1> QED
  BY <1>1, <1>2, <1>3 DEF InitStart

\* Saving the registers: the core is disarmed, so nothing is counted.
LEMMA SaveStep == IInv /\ SaveAllIntRegs => IInv'
<1> SUFFICES ASSUME IInv, SaveAllIntRegs PROVE IInv'
  OBVIOUS
<1>0. TypeOK
  BY DEF IInv
<1>1. hw.max = 0
  BY DEF IInv, SaveAllIntRegs, Block, Disarmed
<1>2. Tick = hw
  BY <1>1 DEF Tick, Counting
<1>3. TypeOK'
  BY <1>0, <1>2, SelfAssumption DEF SaveAllIntRegs, Block, TypeOK, Places, Handler
<1>4. at' \in {"save", "savea0", "basic"} /\ hw'.max = 0
  BY <1>0, <1>1, <1>2 DEF SaveAllIntRegs, Block, TypeOK
<1> QED
  BY <1>3, <1>4 DEF IInv, AfterArm, Kept

\* The work of the handler: the exit pc moves to temporary register 0.
LEMMA WorkStep == IInv /\ Work => IInv'
<1> SUFFICES ASSUME IInv, Work PROVE IInv'
  OBVIOUS
<1>0. TypeOK
  BY DEF IInv
<1>1. hw.max = 0
  BY DEF IInv, Work, Block, Disarmed
<1>2. Tick = hw
  BY <1>1 DEF Tick, Counting
<1>3. TypeOK'
  BY <1>0, <1>2, SelfAssumption DEF Work, Block, TypeOK, Places, Handler
<1>4. at' \in {"exitpc", "func", "base"} /\ hw'.max = 0
  BY <1>0, <1>1, <1>2 DEF Work, Block, TypeOK
<1>5. at' \in Kept => hw'.temp = hw'.exitPC
  BY <1>0, <1>2 DEF IInv, Work, Block, TypeOK, Kept, AfterArm
<1> QED
  BY <1>3, <1>4, <1>5 DEF IInv, AfterArm

\* Arming again: the count starts at 0 in the block "reset".
LEMMA RearmStep == IInv /\ Rearm => IInv'
<1> SUFFICES ASSUME IInv, Rearm PROVE IInv'
  OBVIOUS
<1>0. TypeOK
  BY DEF IInv
<1>1. CASE Block("base", "ctrl", regs, mem, [Tick EXCEPT !.tag = 1, !.func = 1])
  <2>1. TypeOK' /\ at' = "ctrl" /\ hw'.max = hw.max /\ hw'.temp = hw.temp /\ hw'.exitPC = hw.exitPC
    BY <1>0, <1>1, TickType DEF TypeOK, Block, Places, Handler
  <2> QED
    BY <1>1, <2>1 DEF IInv, Block, Disarmed, AfterArm, Kept
<1>2. CASE Block("ctrl", "reset", regs, mem, Armed(Tick))
  <2>1. TypeOK' /\ at' = "reset" /\ hw'.max = MaxEvent /\ hw'.now = 0
    BY <1>0, <1>2, TickType, SelfAssumption DEF TypeOK, Block, Armed, Places, Handler, AfterArm
  <2>2. hw'.temp = hw'.exitPC
    BY <1>0, <1>2, TickType DEF IInv, Block, Armed, Kept
  <2> QED
    BY <2>1, <2>2 DEF IInv, CountedAt, Disarmed
<1>3. CASE Block("reset", "load", regs, mem, Tick)
  <2>1. TypeOK' /\ at' = "load"
    BY <1>0, <1>3, TickType DEF TypeOK, Block, Places, Handler, AfterArm
  <2>2. hw'.max = MaxEvent /\ hw'.now <= 1 /\ hw'.temp = hw'.exitPC
    BY <1>0, <1>3, TickType DEF IInv, TypeOK, Block, AfterArm, CountedAt, Kept
  <2> QED
    BY <2>1, <2>2 DEF IInv, CountedAt, Disarmed
<1> QED
  BY <1>1, <1>2, <1>3 DEF Rearm

\* Loading the registers: each block counts one event at most.
LEMMA LoadStep == IInv /\ LoadAllIntRegs => IInv'
<1> SUFFICES ASSUME IInv, LoadAllIntRegs PROVE IInv'
  OBVIOUS
<1>0. TypeOK
  BY DEF IInv
<1>1. CASE Block("load", "loada0", [regs EXCEPT !.a7 = mem.a7, !.a0 = Junk], mem, Tick)
  <2>1. TypeOK' /\ at' = "loada0"
    BY <1>0, <1>1, TickType, SelfAssumption DEF TypeOK, Block, Places, Handler, AfterArm
  <2>2. hw'.max = MaxEvent /\ hw'.now <= 2 /\ hw'.temp = hw'.exitPC
    BY <1>0, <1>1, TickType DEF IInv, TypeOK, Block, AfterArm, CountedAt, Kept
  <2> QED
    BY <2>1, <2>2 DEF IInv, CountedAt, Disarmed
<1>2. CASE Block("loada0", "uret", [regs EXCEPT !.a0 = mem.a0], mem, Tick)
  <2>1. TypeOK' /\ at' = "uret"
    BY <1>0, <1>2, TickType DEF TypeOK, Block, Places, Handler, AfterArm
  <2>2. hw'.max = MaxEvent /\ hw'.now <= 3 /\ hw'.temp = hw'.exitPC
    BY <1>0, <1>2, TickType DEF IInv, TypeOK, Block, AfterArm, CountedAt, Kept
  <2> QED
    BY <2>1, <2>2 DEF IInv, CountedAt, Disarmed
<1>3. CASE Block("uret", "prog", [regs EXCEPT !.pc = hw.temp], mem, Tick)
  <2>1. TypeOK' /\ at' = "prog"
    BY <1>0, <1>3, TickType DEF TypeOK, Block, Places
  <2> QED
    BY <2>1 DEF IInv, Disarmed, AfterArm, Kept
<1> QED
  BY <1>1, <1>2, <1>3 DEF LoadAllIntRegs

\* Every step keeps the inductive invariant.
LEMMA NextIInv == IInv /\ [Next]_vars => IInv'
<1> SUFFICES ASSUME IInv, [Next]_vars PROVE IInv'
  OBVIOUS
<1>1. CASE UNCHANGED vars
  BY <1>1 DEF vars, IInv, TypeOK
<1>2. CASE Next
  BY <1>1, <1>2, ProgramStep, SampleStep, InitStartStep, SaveStep, WorkStep, RearmStep, LoadStep DEF Next
<1> QED
  BY <1>1, <1>2

\* The invariant in every reachable state, for any program and period.
THEOREM Invariance == Spec => []IInv
BY InitIInv, NextIInv, PTL DEF Spec

\* The handler is not sampled itself (ctrl.h 55-62), whatever the program, the
\* period and the number of uops in flight.
THEOREM HandlerAloneHolds == Spec => []HandlerAlone
BY Invariance, NotSampled, PTL

\* Where the program's registers are, as one value: what the refinement maps to.
Mapped == <<SavedPC, SavedA0, SavedA7, calls>>

\* The blocks of the handler and of initStart only move the program's registers.
LEMMA BlocksInvisible ==
  IInv /\ (InitStart \/ SaveAllIntRegs \/ Work \/ Rearm \/ LoadAllIntRegs) => Mapped' = Mapped
<1> SUFFICES ASSUME IInv, InitStart \/ SaveAllIntRegs \/ Work \/ Rearm \/ LoadAllIntRegs
             PROVE Mapped' = Mapped
  OBVIOUS
<1> USE DEF Mapped, SavedPC, SavedA0, SavedA7, Handler, AfterArm, Block
<1>0. TypeOK
  BY DEF IInv
<1>1. CASE InitStart
  BY <1>1 DEF InitStart
<1>2. CASE SaveAllIntRegs
  BY <1>0, <1>2, TickType DEF SaveAllIntRegs, TypeOK
<1>3. CASE Work
  BY <1>0, <1>3, TickType DEF Work, TypeOK
<1>4. CASE Rearm
  BY <1>0, <1>4, TickType DEF Rearm, Armed, TypeOK
<1>5. CASE LoadAllIntRegs
  BY <1>0, <1>5, TickType DEF LoadAllIntRegs, TypeOK, IInv, Kept
<1> QED
  BY <1>1, <1>2, <1>3, <1>4, <1>5

\* A sample comes between two instructions and only moves the exit pc; it does
\* not come inside the handler.
LEMMA SampleInvisible == IInv /\ Sample => Mapped' = Mapped
<1> SUFFICES ASSUME IInv, Sample PROVE Mapped' = Mapped
  OBVIOUS
<1>1. at \notin Handler
  BY NotSampled DEF HandlerAlone, Sample
<1>2. hw'.exitPC = regs.pc /\ regs'.a0 = regs.a0 /\ regs'.a7 = regs.a7 /\ at' = "temp" /\ calls' = calls
  BY DEF IInv, TypeOK, Sample, SampleHw
<1> QED
  BY <1>1, <1>2 DEF Mapped, SavedPC, SavedA0, SavedA7, Handler, AfterArm

\* An instruction of the sampled program is one of the unsampled program.
LEMMA ProgramMapped == IInv /\ (Alu \/ Li \/ Ecall) => Unsampled!Next
<1> SUFFICES ASSUME IInv, Alu \/ Li \/ Ecall PROVE Unsampled!Next
  OBVIOUS
<1>1. at = "prog" /\ at' = "prog" /\ regs.pc <= Len(Code) /\ regs \in [pc : Nat, a0 : Nat, a7 : Nat]
  BY SelfAssumption DEF IInv, TypeOK, Alu, Li, Ecall, Running
<1>2. /\ SavedPC = regs.pc /\ SavedA0 = regs.a0 /\ SavedA7 = regs.a7
      /\ SavedPC' = regs'.pc /\ SavedA0' = regs'.a0 /\ SavedA7' = regs'.a7
  BY <1>1 DEF SavedPC, SavedA0, SavedA7, Handler, AfterArm
<1>3. CASE Alu
  BY <1>1, <1>2, <1>3 DEF Alu, Running, Unsampled!Next, Unsampled!Alu, Unsampled!At
<1>4. CASE Li
  BY <1>1, <1>2, <1>4 DEF Li, Running, Unsampled!Next, Unsampled!Li, Unsampled!At
<1>5. CASE Ecall
  BY <1>1, <1>2, <1>5 DEF Ecall, Running, Unsampled!Next, Unsampled!Ecall, Unsampled!At
<1> QED
  BY <1>3, <1>4, <1>5

\* The program does not notice its samples: the sampled program implements the
\* unsampled one (ctrl.h 43-63, define.h 174-186), for any program and period.
THEOREM Refinement == Spec => Invisible
<1>1. Init => Unsampled!Init
  BY DEF Init, Unsampled!Init, SavedPC, SavedA0, SavedA7, Handler, AfterArm
<1>2. IInv /\ [Next]_vars => [Unsampled!Next]_(Unsampled!progvars)
  <2> SUFFICES ASSUME IInv, [Next]_vars PROVE Unsampled!Next \/ Mapped' = Mapped
    BY DEF Unsampled!progvars, Mapped
  <2>1. CASE UNCHANGED vars
    BY <2>1 DEF vars, Mapped, SavedPC, SavedA0, SavedA7
  <2>2. CASE Next
    BY <2>1, <2>2, ProgramMapped, SampleInvisible, BlocksInvisible DEF Next
  <2> QED
    BY <2>1, <2>2
<1> QED
  BY <1>1, <1>2, Invariance, PTL DEF Spec, Invisible, Unsampled!Spec
=============================================================================
