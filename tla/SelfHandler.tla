---------------------------- MODULE SelfHandler ----------------------------
(***************************************************************************)
(* A program that is sampled by its own handler (example/self_handle).     *)
(*                                                                         *)
(* initStart arms the core.  When the counter exceeds maxevent the core    *)
(* jumps to __sampleFucAddr; based_sample_func saves the registers in      *)
(* tempStackMem with the help of temporary register 0, does its work, arms *)
(* the core again, reloads the registers and jumps back through temporary  *)
(* register 0.                                                             *)
(*                                                                         *)
(* One step is an instruction of the program or an asm block of the        *)
(* handler.  Of the integer registers, a0 (which addresses tempStackMem)   *)
(* and a7 (which stands for all others) are told apart.  A block that runs *)
(* while the core counts adds one event.  The system calls of sample_func  *)
(* (its output) are not the program's and are left out.                    *)
(***************************************************************************)
EXTENDS Naturals, Sequences, FiniteSets

CONSTANTS Code, ExitNr, Ret,  \* the program: see Program
          MaxEvent,           \* maxevent of ctrl.h
          Slack,              \* uops in flight when the threshold is passed
          Junk                \* what registers hold that the handler has used

\* Blocks of the handler behind the one that arms the core.
AfterArm == {"reset", "load", "loada0", "uret"}

\* The period (20000 in ctrl.h) is longer than those blocks: a shorter one would
\* sample the handler, or the program before its first instruction.
ASSUME SelfAssumption ==
    /\ MaxEvent \in Nat /\ Slack \in Nat /\ Junk \in Nat /\ Ret \in Nat
    /\ MaxEvent >= Cardinality(AfterArm)
    /\ Len(Code) \in Nat
    /\ \A i \in 1..Len(Code) : Code[i].k = "li" => Code[i].nr \in Nat

VARIABLES regs,   \* pc, a0, a7
          at,     \* "prog", or the block of initStart or based_sample_func
          mem,    \* tempStackMem: the saved a0 and a7
          hw,     \* registers of the core: tag (procTag is the target), func
                  \* (exitFuncAddr is set), maxEventNum, nowEventNum,
                  \* userExitPC, temporary register 0
          calls   \* system calls of the program

vars == <<regs, at, mem, hw, calls>>

Handler == {"temp", "save", "savea0", "basic", "exitpc", "func", "base", "ctrl"} \cup AfterArm
Starting == {"initbase", "initctrl", "initreset"}

-----------------------------------------------------------------------------
(* The core. *)

Counting == hw.tag = 1 /\ hw.max # 0
Overflow == Counting /\ hw.now > hw.max

\* The registers after a user instruction or block that is counted.
Tick == IF Counting THEN [hw EXCEPT !.now = @ + 1] ELSE hw

\* Uops that were decoded before the threshold was passed still commit.
MayRun == Overflow => hw.now <= hw.max + Slack

SampleHw_Armed == [hw EXCEPT !.now = hw.max, !.exitPC = regs.pc]

SampleHw == [hw EXCEPT !.tag = 0, !.max = 0, !.now = 0, !.exitPC = regs.pc]

\* The jump to the handler, wherever the user mode is.
Sample ==
    /\ Overflow /\ hw.func = 1
    /\ hw' = SampleHw
    /\ at' = "temp" /\ regs' = [regs EXCEPT !.pc = 0]
    /\ UNCHANGED <<mem, calls>>

-----------------------------------------------------------------------------
(* The program. *)

Running(k) == at = "prog" /\ MayRun /\ regs.pc \in 1..Len(Code) /\ Code[regs.pc].k = k

Alu == /\ Running("alu")
       /\ regs' = [regs EXCEPT !.pc = @ + 1, !.a0 = regs.pc]
       /\ hw' = Tick /\ UNCHANGED <<at, mem, calls>>

Li == /\ Running("li")
      /\ regs' = [regs EXCEPT !.pc = @ + 1, !.a7 = Code[regs.pc].nr]
      /\ hw' = Tick /\ UNCHANGED <<at, mem, calls>>

Ecall == /\ Running("ecall")
         /\ calls' = Append(calls, regs.a7)
         /\ regs' = [regs EXCEPT !.pc = @ + 1, !.a0 = Ret]
         /\ UNCHANGED <<at, mem, hw>>

-----------------------------------------------------------------------------
(* initStart and based_sample_func.  A step is Block(from, to, ...). *)

Block(from, to, r, m, h) ==
    /\ at = from /\ at' = to
    /\ MayRun
    /\ regs' = r /\ mem' = m /\ hw' = h
    /\ UNCHANGED calls

Armed_Short(h) == [h EXCEPT !.max = MaxEvent - 1, !.now = 0]

\* Set_MaxEvents.
Armed(h) == [h EXCEPT !.max = MaxEvent, !.now = 0]

\* SetSampleBaseInfo, SetSampleCtrlReg, RESET_COUNTER; the program starts
\* behind initStart with its first instruction.
InitStart ==
    \/ Block("initbase", "initctrl", regs, mem, [hw EXCEPT !.tag = 1, !.func = 1])
    \/ Block("initctrl", "initreset", regs, mem, Armed(hw))
    \/ Block("initreset", "prog", regs, mem, Tick)

SaveAllIntRegs_A0Late ==
    \/ Block("temp", "save", [regs EXCEPT !.a0 = Junk], mem, [hw EXCEPT !.temp = Junk])
    \/ Block("save", "savea0", regs, [mem EXCEPT !.a7 = regs.a7], Tick)
    \/ Block("savea0", "basic", [regs EXCEPT !.a7 = hw.temp], [mem EXCEPT !.a0 = hw.temp], Tick)

\* Set_TempReg(a0, 0); la a0; sd of all others; then a0 by way of a1.
SaveAllIntRegs ==
    \/ Block("temp", "save", [regs EXCEPT !.a0 = Junk], mem, [Tick EXCEPT !.temp = regs.a0])
    \/ Block("save", "savea0", regs, [mem EXCEPT !.a7 = regs.a7], Tick)
    \/ Block("savea0", "basic", [regs EXCEPT !.a7 = hw.temp], [mem EXCEPT !.a0 = hw.temp], Tick)

\* Load_Basic_Regs, GetExitPC and SetTempReg, sample_func (which may use every
\* register).
Work ==
    \/ Block("basic", "exitpc", [regs EXCEPT !.a7 = Junk], mem, Tick)
    \/ Block("exitpc", "func", [regs EXCEPT !.a0 = hw.exitPC], mem, [Tick EXCEPT !.temp = hw.exitPC])
    \/ Block("func", "base", [regs EXCEPT !.a0 = Junk, !.a7 = Junk], mem, Tick)

\* SetSampleBaseInfo; SetSampleCtrlReg; RESET_COUNTER.
Rearm ==
    \/ Block("base", "ctrl", regs, mem, [Tick EXCEPT !.tag = 1, !.func = 1])
    \/ Block("ctrl", "reset", regs, mem, Armed(Tick))
    \/ Block("reset", "load", regs, mem, Tick)

\* la a0; ld of all others; ld a0; JmpTempReg(0).
LoadAllIntRegs ==
    \/ Block("load", "loada0", [regs EXCEPT !.a7 = mem.a7, !.a0 = Junk], mem, Tick)
    \/ Block("loada0", "uret", [regs EXCEPT !.a0 = mem.a0], mem, Tick)
    \/ Block("uret", "prog", [regs EXCEPT !.pc = hw.temp], mem, Tick)

-----------------------------------------------------------------------------
Init ==
    /\ regs = [pc |-> 1, a0 |-> 0, a7 |-> 0]
    /\ at = "initbase"
    /\ mem = [a0 |-> Junk, a7 |-> Junk]
    /\ hw = [tag |-> 0, func |-> 0, max |-> 0, now |-> 0, exitPC |-> 0, temp |-> 0]
    /\ calls = <<>>

Ended == at = "prog" /\ regs.pc = Len(Code) + 1

Next == \/ Alu \/ Li \/ Ecall \/ Sample
        \/ InitStart \/ SaveAllIntRegs \/ Work \/ Rearm \/ LoadAllIntRegs
        \/ Ended /\ UNCHANGED vars

Spec == Init /\ [][Next]_vars

\* The hart goes on.
FairSpec == Spec /\ WF_vars(Next)

-----------------------------------------------------------------------------
\* The program's registers while its handler runs: in the registers, in
\* temporary register 0, or in tempStackMem.
SavedPC == IF at \in Handler THEN hw.exitPC ELSE regs.pc
SavedA0 == IF at = "temp" \/ at \notin Handler \/ at = "uret" THEN regs.a0
           ELSE IF at \in {"save", "savea0"} THEN hw.temp ELSE mem.a0
SavedA7 == IF at \in {"temp", "save", "loada0", "uret"} \/ at \notin Handler THEN regs.a7
           ELSE mem.a7

\* The program does not notice its samples (ctrl.h 43-63, define.h 174-186):
\* it computes what it computes without them, although the handler uses every
\* register and only one temporary register for both a0 and the exit pc.
Unsampled == INSTANCE Program WITH pc <- SavedPC, a0 <- SavedA0, a7 <- SavedA7
Invisible == Unsampled!Spec

\* The handler is not sampled itself (ctrl.h 55-62): it arms the core while it
\* still has the program's registers in tempStackMem, and a sample there would
\* overwrite them and the exit pc.
HandlerAlone == at \in Handler => ~Overflow

\* The program ends (ctrl.h 43-63): its samples never keep it from going on,
\* even with the shortest period that SelfAssumption allows.
ProgramEnds == <>Ended
=============================================================================
