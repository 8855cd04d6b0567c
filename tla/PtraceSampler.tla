--------------------------- MODULE PtraceSampler ---------------------------
(***************************************************************************)
(* The sampling tool example/ptrace: start_run_and_trace (trace.cpp) as    *)
(* the tracer, the sampled child, and the kernel's system call path        *)
(* (entry.S) between them.                                                 *)
(*                                                                         *)
(* The child runs with sampleFuncAddr = 0, so that a sample looks to the   *)
(* kernel like a system call at the sampled instruction.  The tracer sees  *)
(* the two stops of every system call; it recognises a sample by the       *)
(* register sampleHappen, replaces the call number by one that does not    *)
(* exist, and repairs the registers at the second stop.                    *)
(*                                                                         *)
(* pc counts instructions, so the 4 of the code is 1 here.  The kernel's   *)
(* ptrace machinery (stops, PTRACE_SYSCALL, GETREGSET, SETREGSET) is       *)
(* external and modelled by its contract.  One hart.                       *)
(***************************************************************************)
EXTENDS Integers, Sequences

CONSTANTS Code, ExitNr, Ret,
          BrkNr,        \* 214
          Bogus,        \* 3656, a system call that does not exist
          ENOSYS,       \* what the kernel returns for it
          MaxPeriods,   \* maxperiods of samplectrl.txt
          MaxSignals    \* BOUND: signals delivered to the child

\* The call the tool hides a sample with is none that the program makes.
ASSUME ToolAssumption ==
    /\ Ret \in Int /\ ENOSYS \in Int /\ Bogus \in Int
    /\ Bogus \notin {0, BrkNr}
    /\ Len(Code) \in Nat
    /\ \A i \in 1..Len(Code) : Code[i].k = "li" => Code[i].nr \in Int \ {Bogus}

VARIABLES regs,    \* registers of the child (its pt_regs while it is in the kernel)
          st,      \* where the child is: "user", "sys" in the kernel, a ptrace stop
                   \* "entrystop", "exitstop", "sigstop", or "exited"
          trap,    \* history: why the child entered the kernel, "ecall" or "sample"
          calls,   \* system calls the kernel executed for the child
          hw,      \* sampling registers of the hart
          tr,      \* the tracer: control point and local variables
          sigs,    \* signals so far
          view     \* history: the registers the program computes with and the calls
                   \* made for it, as they were before the first signal

vars == <<regs, st, trap, calls, hw, tr, sigs, view>>

Stopped == st \in {"entrystop", "exitstop", "sigstop"}

-----------------------------------------------------------------------------
\* The child is stopped in execv; sampling is not yet armed (maxevent = 0).
Init ==
    /\ regs = [pc |-> 1, a0 |-> 0, a7 |-> 0]
    /\ st = "sigstop" /\ trap = "none" /\ calls = <<>> /\ sigs = 0
    /\ view = [regs |-> regs, calls |-> calls]
    /\ hw = [max |-> 0, happen |-> 0, pfc |-> 0]
    /\ tr = [at |-> "cont1", regs |-> regs, old |-> 0, times |-> 0, ran |-> 0]

(* The child in user mode. *)

At(k) == st = "user" /\ regs.pc \in 1..Len(Code) /\ Code[regs.pc].k = k

See(r, c) == view' = IF sigs = 0 THEN [regs |-> r, calls |-> c] ELSE view

UserStep(r) == /\ regs' = r /\ See(r, calls)
               /\ UNCHANGED <<st, trap, calls, hw, tr, sigs>>

ChildAlu == At("alu") /\ UserStep([pc |-> regs.pc + 1, a0 |-> regs.pc, a7 |-> regs.a7])
ChildLi  == At("li")  /\ UserStep([pc |-> regs.pc + 1, a0 |-> regs.a0, a7 |-> Code[regs.pc].nr])

\* handle_syscall: sepc is advanced before the stop of trace_enter.
EnterKernel(why) == /\ st' = "entrystop" /\ trap' = why
                    /\ regs' = [regs EXCEPT !.pc = @ + 1]
                    /\ UNCHANGED <<calls, tr, sigs, view>>

ChildEcall == At("ecall") /\ EnterKernel("ecall") /\ UNCHANGED hw

\* The core samples the child before the instruction at pc: maxEventNum and
\* pfc_enable are cleared, sampleHappen is set, the trap looks like an ecall.
Sample == /\ st = "user" /\ regs.pc <= Len(Code) /\ hw.max # 0
          /\ hw' = [hw EXCEPT !.max = 0, !.happen = 1, !.pfc = 0]
          /\ EnterKernel("sample")

\* A signal for the child is reported to the tracer.
Signal == /\ st = "user" /\ sigs < MaxSignals
          /\ sigs' = sigs + 1 /\ st' = "sigstop"
          /\ UNCHANGED <<regs, trap, calls, hw, tr, view>>

(* check_syscall_nr .. ret_from_syscall: the kernel executes call a7. *)

Known(nr) == nr # Bogus

SysExec ==
    /\ st = "sys"
    /\ IF Known(regs.a7)
       THEN /\ calls' = Append(calls, regs.a7)
            /\ regs' = [regs EXCEPT !.a0 = Ret]
            /\ See(regs', calls')
            /\ st' = IF regs.a7 = ExitNr THEN "exited" ELSE "exitstop"
       ELSE /\ regs' = [regs EXCEPT !.a0 = ENOSYS]
            /\ st' = "exitstop"
            /\ UNCHANGED <<calls, view>>
    /\ UNCHANGED <<trap, hw, tr, sigs>>

-----------------------------------------------------------------------------
(* The tracer. *)

\* ptrace(PTRACE_SYSCALL, child, 0, 0): no signal is passed on.
Cont(from, to) ==
    /\ tr.at = from /\ Stopped
    /\ tr' = [tr EXCEPT !.at = to]
    /\ st' = IF st = "entrystop" THEN "sys" ELSE "user"
    /\ IF st = "entrystop" THEN UNCHANGED view ELSE See(regs, calls)
    /\ UNCHANGED <<regs, trap, calls, hw, sigs>>

Cont1 == Cont("cont1", "wait1")
Cont2 == Cont("cont2", "wait2")

\* waitpid returned and WIFEXITED(status).
Exited == /\ tr.at \in {"wait1", "wait2"} /\ st = "exited"
          /\ tr' = [tr EXCEPT !.at = "done"]
          /\ UNCHANGED <<regs, st, trap, calls, hw, sigs, view>>

\* The registers of the child with the call number hidden and the pc moved back.
HideCall(r) == [pc |-> r.pc - 1, a0 |-> r.a0, a7 |-> Bogus]

\* The first waitpid of the loop returned with a stop.
Stop1Plain ==
    /\ tr.at = "wait1" /\ Stopped /\ hw.happen = 0
    /\ tr' = [tr EXCEPT !.at = "cont2", !.regs = regs]
    /\ UNCHANGED <<regs, st, trap, calls, hw, sigs, view>>

\* Mutant: samples are not counted against maxperiods.
Stop1Sample_NotCounted ==
    /\ tr.at = "wait1" /\ Stopped /\ hw.happen # 0
    /\ hw' = [hw EXCEPT !.happen = 0]
    /\ regs' = HideCall(regs)
    /\ tr' = [tr EXCEPT !.at = "cont2", !.regs = regs', !.old = regs.a7]
    /\ UNCHANGED <<st, trap, calls, sigs, view>>

Stop1Sample ==
    /\ tr.at = "wait1" /\ Stopped /\ hw.happen # 0
    /\ hw' = [hw EXCEPT !.happen = 0]
    /\ regs' = HideCall(regs)
    /\ LET last == tr.times + 1 > MaxPeriods
       IN  /\ tr' = [at |-> IF last THEN "done" ELSE "cont2", regs |-> regs',
                     old |-> regs.a7, times |-> tr.times + 1, ran |-> tr.ran]
           /\ st' = IF last THEN "exited" ELSE st      \* kill(child, SIGKILL)
    /\ UNCHANGED <<trap, calls, sigs, view>>

\* The second waitpid returned with a stop.
\* Mutants: the registers are not armed again; a0 is not repaired.
Arm_Not == hw' = [hw EXCEPT !.pfc = 1]

RepairRegs_NotA0 == [tr.regs EXCEPT !.a7 = tr.old, !.a0 = regs.a0]

Arm == hw' = [hw EXCEPT !.pfc = 1, !.max = 1]

RepairRegs == [tr.regs EXCEPT !.a7 = tr.old]

Stop2Sample ==
    /\ tr.at = "wait2" /\ Stopped /\ tr.regs.a7 = Bogus
    /\ regs' = RepairRegs
    /\ Arm
    /\ tr' = [tr EXCEPT !.at = "cont1", !.regs = regs']
    /\ UNCHANGED <<st, trap, calls, sigs, view>>

Stop2Start ==
    /\ tr.at = "wait2" /\ Stopped /\ tr.regs.a7 = BrkNr /\ tr.ran = 0
    /\ Arm
    /\ tr' = [tr EXCEPT !.at = "cont1", !.ran = 1]
    /\ UNCHANGED <<regs, st, trap, calls, sigs, view>>

Stop2Plain ==
    /\ tr.at = "wait2" /\ Stopped
    /\ tr.regs.a7 # Bogus /\ ~(tr.regs.a7 = BrkNr /\ tr.ran = 0)
    /\ tr' = [tr EXCEPT !.at = "cont1"]
    /\ UNCHANGED <<regs, st, trap, calls, hw, sigs, view>>

-----------------------------------------------------------------------------
Child  == ChildAlu \/ ChildLi \/ ChildEcall \/ Sample \/ Signal \/ SysExec
Tracer == Cont1 \/ Cont2 \/ Exited \/ Stop1Plain \/ Stop1Sample
            \/ Stop2Sample \/ Stop2Start \/ Stop2Plain
Finished == tr.at = "done" /\ UNCHANGED vars

Next == Child \/ Tracer \/ Finished
Spec == Init /\ [][Next]_vars

\* Both processes are scheduled.
FairSpec == Spec /\ WF_vars(Child) /\ WF_vars(Tracer)

-----------------------------------------------------------------------------
\* The sampled program computes what it computes untraced, and the kernel
\* executes exactly its system calls for it (trace.cpp 46-79): samples, wherever
\* they hit, are invisible.  A signal's stop shifts the pairing of stops that the
\* tool relies on, so that this is claimed up to the first signal.
Untraced == INSTANCE Program WITH pc <- view.regs.pc, a0 <- view.regs.a0,
                                  a7 <- view.regs.a7, calls <- view.calls
Invisible == Untraced!Spec

\* While the child is in user mode and no signal came, a sample that was taken
\* is always over: the register that announces it is clear, and after the first
\* brk the next sample is armed (trace.cpp 76-78, 83-85).
SamplingGoesOn == st = "user" /\ sigs = 0 => hw.happen = 0 /\ (tr.ran = 1 => hw.max # 0)

\* Tracer and child never wait for each other for ever: the tool ends.
ToolEnds == <>(tr.at = "done")
=============================================================================
