----------------------------- MODULE SampleCore -----------------------------
(***************************************************************************)
(* Event sampling in the BOOM core, cycle by cycle.                        *)
(*                                                                         *)
(* The core counts events of the process whose procTag is Target.  When    *)
(* nowEventNum exceeds maxEventNum, every uop that is decoded is marked    *)
(* with the exception Cause_OverFlow; when a marked uop reaches the head   *)
(* of the ROB the core either jumps to the user's handler (exitFuncAddr)   *)
(* or pretends that the program made a system call (core.scala).           *)
(*                                                                         *)
(* One step is one clock cycle: every register gets its next value from    *)
(* the registers of this cycle.  Where Chisel connects a register twice    *)
(* in one cycle the later connection wins; RegsAfter applies them in that  *)
(* order.  Nondeterministic per cycle: how many uops fetch delivers, which *)
(* uops of the ROB finish, interrupts and page faults (at most MaxXcpts),  *)
(* mispredictions, and the length of a rollback and of the kernel's work.  *)
(*                                                                         *)
(* Not modelled here: renaming and the pointers of the ROB (Rename, Rob),  *)
(* the performance counters that are not compared with maxEventNum.        *)
(***************************************************************************)
EXTENDS Naturals, Sequences, FiniteSets

CONSTANTS Programs,   \* the programs to run, one per behaviour: see prog
          CoreWidth,  \* coreWidth
          RobSize     \* numRobEntries

Target == 1           \* stands for 0x1234567; 0 is any other tag
None   == "none"      \* no exception

\* Instructions of a program: of a kind, and the ones that set a sampling register.
UserInsts == [k : {"alu", "br", "ld", "end", "exitpc", "uret", "ecall"}]
             \cup [k : {"set"}, r : {"tag", "func", "max", "warm"}, v : Nat]
Insts == UserInsts \cup [k : {"kern", "sret"}]

ASSUME CoreAssumption ==
    /\ CoreWidth \in Nat \ {0} /\ RobSize \in Nat \ {0}
    /\ \A p \in Programs :
           /\ p.last \in 1..Len(p.code) /\ p.code[p.last].k = "end"
           /\ p.sel \in 0..3 /\ p.rearm \in Nat /\ p.xcpts \in Nat
           /\ p.code \in Seq(UserInsts)

\* A handler that begins at h reads the exit pc before it returns (ctrl.h).
ReadsExitPC(code, h) ==
    \E e \in h..Len(code) : code[e].k = "exitpc" /\ \A j \in h..e : code[j].k # "uret"

\* Handlers are behind the program, and only they return with uret.
ASSUME HandlerAssumption ==
    \A p \in Programs :
        /\ \A j \in 1..p.last : p.code[j].k # "uret"
        /\ \A j \in DOMAIN p.code :
               LET i == p.code[j]
               IN  i.k = "set" /\ i.r = "func" /\ i.v # 0 =>
                       i.v > p.last /\ ReadsExitPC(p.code, i.v)

VARIABLES prog,     \* the program, with the environment it runs in
          ur,       \* the sampling registers
          cpu,      \* privilege level with its two delayed copies, sepc, scause
          fetch,    \* pc of the next uop, and whether it is on a wrong path
          ren2,     \* uops between decode and dispatch
          rob,      \* uops in the reorder buffer, oldest first
          rstate,   \* rob_state: "normal", "rollback" or "wait" (wait_till_empty)
          commD,    \* RegNext(PopCount(rob.io.commit.arch_valids))
          xcptD,    \* RegNext of com_xcpt: cause and pc
          flushD,   \* RegNext of flush: type and target
          xcpts,    \* interrupts and faults so far
          trace,    \* history: program pcs in commit order
          ucount    \* history: user instructions to be counted since the last zeroing

vars == <<prog, ur, cpu, fetch, ren2, rob, rstate, commD, xcptD, flushD, xcpts, trace, ucount>>

Code     == prog.code   \* sequence of instructions: the program, then its handler
Last     == prog.last   \* Code[Last] is the end of the program
EventSel == prog.sel    \* sampleEventSel: 0 committed instructions, else an LSU event
Rearm    == prog.rearm  \* maxEventNum the tracer sets after a sample
MaxXcpts == prog.xcpts  \* BOUND: interrupts and page faults in a behaviour

-----------------------------------------------------------------------------
(* Uops.  pc 0 is the kernel; st is the progress of a uop in the backend.  *)

Uop(pc, i, exc, wp, mis) ==
    [pc |-> pc, i |-> i, st |-> "wait", exc |-> exc, wp |-> wp, mis |-> mis]

IsUnique(u) == u.i.k \in {"set", "exitpc", "uret", "ecall", "sret"}

NoFlush == [t |-> "none", pc |-> 0]
NoXcpt  == [cause |-> None, pc |-> 0]

(* The conditions of core.scala on the sampling registers. *)

IsUserMode_NoDelay == cpu.prv = 0      \* mutant: without the delayed copies

IsUserMode   == cpu.prv = 0 /\ cpu.d1 = 0 /\ cpu.d2 = 0
IsTargetProc == ur.tag = Target
SampleValid  == IsUserMode /\ IsTargetProc /\ ur.max # 0 /\ ur.warm = 0
WarmupValid  == IsUserMode /\ IsTargetProc /\ ur.warm # 0
Exceeded     == ur.now > ur.max
OverflowEvent == SampleValid /\ Exceeded

Redirecting == flushD.t # "none"

\* The exception of the previous cycle is a sample (isOverFlowExcpt).
IsOverFlowExcpt == xcptD.cause = "overflow" /\ OverflowEvent

-----------------------------------------------------------------------------
(* Commit: oldest first, at most a row; an exception is only thrown by the
   first valid uop of the row, so in a cycle without commits. *)

CommitReady(n) == /\ n <= Len(rob)
                  /\ n > 0 => rstate # "rollback"
                  /\ \A j \in 1..n : rob[j].st = "done" /\ rob[j].exc = None

CommitCounts == {n \in 0..CoreWidth : CommitReady(n) /\ (CommitReady(1) => n > 0)}

Throws == rstate # "rollback" /\ rob # <<>> /\ rob[1].exc # None

Nowhere == Len(Code) + 1    \* address 0 holds no instruction of the program

FlushOf(u) ==
    CASE u.i.k = "uret"  -> [t |-> "uret", pc |-> IF ur.temp = 0 THEN Nowhere ELSE ur.temp]
      [] u.i.k = "ecall" -> [t |-> "eret", pc |-> 0]
      [] u.i.k = "sret"  -> [t |-> "eret", pc |-> cpu.epc]
      [] OTHER           -> NoFlush

Flush(c) == IF Throws THEN [t |-> "xcpt", pc |-> rob[1].pc]
            ELSE IF c > 0 THEN FlushOf(rob[c]) ELSE NoFlush

-----------------------------------------------------------------------------
(* Execution.  comp: indices of rob entries that make progress; flt: the
   loads among them that fault.  A register-setting instruction writes its
   register when it reads its operand ("exec") and finishes later. *)

Waiting == {j \in 1..Len(rob) : rob[j].st # "done" /\ rob[j].exc = None}

Progress(u, fault) ==
    IF fault THEN [u EXCEPT !.exc = "fault"]
    ELSE IF u.st = "wait" /\ u.i.k \in {"set", "exitpc"} THEN [u EXCEPT !.st = "exec"]
    ELSE [u EXCEPT !.st = "done"]

Executed(comp, flt) ==
    [j \in 1..Len(rob) |-> IF j \in comp THEN Progress(rob[j], j \in flt) ELSE rob[j]]

\* The oldest mispredicted branch that resolves now; 0 if there is none.
Mispredict(comp) ==
    LET M == {j \in comp : rob[j].mis}
    IN  IF M = {} THEN 0 ELSE CHOOSE j \in M : \A m \in M : j <= m

Starts(comp, k) == {j \in comp : rob[j].st = "wait" /\ rob[j].i.k = k}

-----------------------------------------------------------------------------
(* The sampling registers after a cycle. *)

EventInc(ev) == IF EventSel = 0 THEN commD ELSE ev

Counted(r, ev) ==
    CASE SampleValid -> [r EXCEPT !.now = @ + EventInc(ev)]
      [] WarmupValid /\ r.nowWarm > r.warm ->
            [r EXCEPT !.warm = 0, !.nowWarm = 0, !.now = 0]
      [] WarmupValid /\ r.nowWarm <= r.warm -> [r EXCEPT !.nowWarm = @ + commD]
      [] OTHER -> r

\* Mutant: the exit pc is that of the next instruction.
SampleRegs_NextPC(r) ==
    [r EXCEPT !.tag = 0, !.max = 0, !.now = 0, !.exitPC = xcptD.pc + 1]

SampleRegs(r) ==
    IF r.func # 0
    THEN [r EXCEPT !.tag = 0, !.max = 0, !.now = 0, !.exitPC = xcptD.pc]
    ELSE [r EXCEPT !.happen = 1, !.max = 0, !.now = 0, !.exitPC = xcptD.pc]

Redirected(r) == IF Redirecting /\ IsOverFlowExcpt THEN SampleRegs(r) ELSE r

SetReg(r, i) ==
    CASE i.r = "tag"  -> [r EXCEPT !.tag = i.v]
      [] i.r = "func" -> [r EXCEPT !.func = i.v]
      [] i.r = "max"  -> [r EXCEPT !.max = i.v, !.now = 0]
      [] i.r = "warm" -> [r EXCEPT !.warm = i.v, !.nowWarm = 0]
      [] OTHER        -> r

\* What the kernel and the tracer do before they return to a sampled program:
\* see PtraceSampler.  The tracer clears sampleHappen and sets maxEventNum.
SoftwareRearm(r) == IF r.happen = 1 /\ cpu.cause = "ecall"
                    THEN [r EXCEPT !.happen = 0, !.max = Rearm, !.now = 0]
                    ELSE r

Written(r, comp) ==
    IF Starts(comp, "set") # {}
    THEN SetReg(r, rob[CHOOSE j \in Starts(comp, "set") : TRUE].i)
    ELSE IF Starts(comp, "exitpc") # {} THEN [r EXCEPT !.temp = r.exitPC]
    ELSE IF Starts(comp, "sret") # {} THEN SoftwareRearm(r)
    ELSE r

RegsAfter(comp, ev) == Written(Redirected(Counted(ur, ev)), comp)

-----------------------------------------------------------------------------
(* The CSR file: traps and returns. *)

\* An exception of the previous cycle reaches the CSR file, except for a
\* sample that goes to the user's handler.
TrapTaken == xcptD.cause # None /\ ~(IsOverFlowExcpt /\ ur.func # 0)
TrapCause_Raw == xcptD.cause           \* mutant: the mark is passed on
TrapCause == IF IsOverFlowExcpt THEN "ecall" ELSE xcptD.cause

\* A real system call returns behind the ecall, everything else to the trap's pc.
ResumePC == IF cpu.cause = "ecall" /\ ur.happen = 0 THEN cpu.epc + 1 ELSE cpu.epc

CpuAfter(comp) ==
    LET shifted == [cpu EXCEPT !.d1 = cpu.prv, !.d2 = cpu.d1]
    IN  IF TrapTaken
        THEN [shifted EXCEPT !.prv = 1, !.epc = xcptD.pc, !.cause = TrapCause]
        ELSE IF Starts(comp, "ecall") # {}
        THEN [shifted EXCEPT !.prv = 1, !.cause = "ecall",
                             !.epc = rob[CHOOSE j \in Starts(comp, "ecall") : TRUE].pc]
        ELSE IF Starts(comp, "sret") # {}
        THEN [shifted EXCEPT !.prv = 0, !.epc = ResumePC]
        ELSE shifted

RedirectPC == IF flushD.t # "xcpt" THEN flushD.pc
              ELSE IF IsOverFlowExcpt /\ ur.func # 0 THEN ur.func
              ELSE 0

-----------------------------------------------------------------------------
(* Decode and dispatch. *)

\* Mutant: a unique uop does not wait.
DispatchHazard_NoWait(j) ==
    \/ rstate = "rollback" \/ Len(rob) + j > RobSize \/ Redirecting
    \/ \E n \in 1..Len(rob) : rob[n].exc # None
\* Mutant: a unique uop is taken for one that is in front of itself.
DispatchHazard_Itself(j) ==
    \/ rstate # "normal" \/ Len(rob) + j > RobSize \/ Redirecting
    \/ \E n \in 1..Len(rob) : rob[n].exc # None
    \/ IsUnique(ren2[j]) /\ (rob # <<>> \/ j > 1)
    \/ \E n \in 1..j : IsUnique(ren2[n])
\* dis_hazards: uop j of ren2 cannot be dispatched.  A unique uop waits for an
\* empty ROB and blocks the uops behind it.
DispatchHazard(j) ==
    \/ rstate # "normal"
    \/ \E n \in 1..Len(rob) : rob[n].exc # None          \* r_xcpt_val
    \/ Len(rob) + j > RobSize
    \/ IsUnique(ren2[j]) /\ (rob # <<>> \/ j > 1)
    \/ \E n \in 1..(j - 1) : IsUnique(ren2[n])
    \/ Redirecting

DispatchCounts == {n \in 0..Len(ren2) : \A j \in 1..n : ~DispatchHazard(j)}
Dispatched == CHOOSE n \in DispatchCounts : \A m \in DispatchCounts : m <= n

\* dec_hazards: ren2 must be able to take a bundle.
DecodeReady == Dispatched = Len(ren2) /\ rstate # "rollback" /\ ~Redirecting

\* Mutant: the mark is lost while a uop waits for ren2.
DecodeXcpt_Lost(irq) ==
    IF OverflowEvent /\ ren2 = <<>> THEN "overflow" ELSE IF irq THEN "irq" ELSE None

\* The exception a uop is decoded with: the overflow mark hides an interrupt.
DecodeXcpt(irq) == IF OverflowEvent THEN "overflow" ELSE IF irq THEN "irq" ELSE None

\* What fetch delivers from pc on: n uops in a row, stopping at the end of the
\* program.  In the kernel it is some work or the sret.
InstAt(pc, ks) == IF pc = 0 THEN [k |-> ks] ELSE Code[pc]

Fetchable(n) == fetch.pc # 0 => \A j \in fetch.pc..(fetch.pc + n - 1) :
                                   j <= Len(Code) /\ Code[j].k # "end"

NextPC(j) == IF fetch.pc = 0 THEN 0 ELSE fetch.pc + j

Bundle(n, ks, irq, mis) ==
    [j \in 1..n |-> Uop(NextPC(j - 1), InstAt(NextPC(j - 1), ks), DecodeXcpt(irq),
                        fetch.wp, mis /\ j = n)]

\* A branch predicted taken ends the bundle.  When that is wrong (mis), fetch
\* goes on one instruction too far, on a wrong path, until the branch resolves.
CanMispredict(n) == n > 0 /\ InstAt(NextPC(n - 1), "kern").k = "br" /\ ~fetch.wp

Decodable(n, ks, mis) ==
    /\ n > 0 => DecodeReady
    /\ Fetchable(n)
    /\ mis => CanMispredict(n)
    /\ (n # 1 \/ fetch.pc # 0) => ks = "kern"

-----------------------------------------------------------------------------
Init ==
    /\ prog \in Programs
    /\ ur = [tag |-> 0, func |-> 0, max |-> 0, now |-> 0, warm |-> 0, nowWarm |-> 0,
             happen |-> 0, exitPC |-> 0, temp |-> 0]
    /\ cpu = [prv |-> 0, d1 |-> 0, d2 |-> 0, epc |-> 0, cause |-> None]
    /\ fetch = [pc |-> 1, wp |-> FALSE]
    /\ ren2 = <<>> /\ rob = <<>> /\ rstate = "normal"
    /\ commD = 0 /\ xcptD = NoXcpt /\ flushD = NoFlush /\ xcpts = 0
    /\ trace = <<>> /\ ucount = 0

\* The pcs of the uops of the program among the c that commit, oldest first.
InProgram(c) == {j \in 1..c : rob[j].pc \in 1..Last}
Nth(S, n) == CHOOSE x \in S : Cardinality({y \in S : y < x}) = n - 1
CommittedPCs(c) == [n \in 1..Cardinality(InProgram(c)) |-> rob[Nth(InProgram(c), n)].pc]

Counts(u) == u.i.k \notin {"kern", "sret", "ecall"}

\* nowEventNum restarts in this cycle.
Zeroes(comp) ==
    \/ Redirecting /\ IsOverFlowExcpt
    \/ WarmupValid /\ ur.nowWarm > ur.warm
    \/ \E j \in Starts(comp, "set") : rob[j].i.r = "max"
    \/ Starts(comp, "sret") # {} /\ SoftwareRearm(ur) # ur

RobAfter(c, comp, flt, rbk) ==
    LET mp   == Mispredict(comp)
        exe  == Executed(comp, flt)
        kept == SubSeq(exe, c + 1, IF mp = 0 THEN Len(exe) ELSE mp)
    IN  CASE rstate = "rollback" /\ rbk  -> <<>>
          [] rstate = "rollback" /\ ~rbk -> rob
          [] OTHER -> kept \o SubSeq(ren2, 1, IF mp = 0 THEN Dispatched ELSE 0)

RobStateAfter(mp, rbk) ==
    CASE Throws -> "rollback"
      [] rstate = "rollback" -> IF rbk THEN "normal" ELSE rstate
      [] rstate = "wait" /\ ~Throws -> IF rob = <<>> THEN "normal" ELSE rstate
      [] OTHER -> IF mp = 0 /\ Dispatched > 0 /\ IsUnique(ren2[Dispatched])
                  THEN "wait" ELSE rstate

\* One clock cycle.  c: uops committed, n: uops decoded (ks: kind of kernel
\* work), irq: an interrupt is pending, mis: the last branch is mispredicted,
\* comp/flt: uops that progress / fault, ev: LSU event, rbk: rollback ends.
\* Events beyond an exceeded threshold change nothing; the model stops them.
Cycle(c, n, ks, irq, mis, comp, flt, ev, rbk) ==
    LET mp == Mispredict(comp)
    IN
    /\ c \in CommitCounts
    /\ Decodable(n, ks, mis)
    /\ mp # 0 => n = 0
    /\ irq => cpu.prv = 0 /\ n > 0
    /\ xcpts + Cardinality(flt) + (IF irq THEN 1 ELSE 0) <= MaxXcpts
    /\ UNCHANGED prog
    /\ xcpts' = xcpts + Cardinality(flt) + (IF irq THEN 1 ELSE 0)
    /\ rob' = RobAfter(c, comp, flt, rbk)
    /\ rstate' = RobStateAfter(mp, rbk)
    /\ ren2' = CASE Redirecting \/ mp # 0 -> <<>>
                 [] n > 0 -> Bundle(n, ks, irq, mis)
                 [] OTHER -> SubSeq(ren2, Dispatched + 1, Len(ren2))
    /\ fetch' = CASE Redirecting -> [pc |-> RedirectPC, wp |-> FALSE]
                  [] ~Redirecting /\ mp # 0 -> [pc |-> rob[mp].pc + 1, wp |-> FALSE]
                  [] OTHER -> [pc |-> NextPC(IF mis THEN n + 1 ELSE n),
                               wp |-> fetch.wp \/ mis]
    /\ ur' = RegsAfter(comp, ev)
    /\ cpu' = CpuAfter(comp)
    /\ commD' = c
    /\ xcptD' = IF Throws THEN [cause |-> rob[1].exc, pc |-> rob[1].pc] ELSE NoXcpt
    /\ flushD' = Flush(c)
    /\ trace' = trace \o CommittedPCs(c)
    /\ ucount' = (IF Zeroes(comp) THEN 0 ELSE ucount)
                 + (IF ur'.tag = Target /\ ur'.max # 0 /\ ur'.warm = 0
                    THEN Cardinality({j \in 1..c : Counts(rob[j])}) ELSE 0)

Finishing == IF rstate = "rollback" THEN {} ELSE Waiting
Loads == {j \in Finishing : rob[j].i.k = "ld"}

Next ==
    \E c, n \in 0..CoreWidth, ks \in {"kern", "sret"}, irq, mis, rbk \in BOOLEAN,
       comp \in SUBSET Finishing, flt \in SUBSET Loads, ev \in 0..1 :
        /\ flt \subseteq comp
        /\ ev = 1 => EventSel # 0 /\ ur.now <= ur.max
        /\ rbk => rstate = "rollback"
        /\ Cycle(c, n, ks, irq, mis, comp, flt, ev, rbk)

\* A cycle in which every uop of the ROB finishes, fetch delivers if decode can
\* take a uop, and a rollback ends.
Busy ==
    \E c, n \in 0..CoreWidth, ks \in {"kern", "sret"}, ev \in 0..1 :
        /\ n = 0 => ~(DecodeReady /\ Fetchable(1)) \/ Mispredict(Finishing) # 0
        /\ Cycle(c, n, ks, FALSE, FALSE, Finishing, {}, ev, rstate = "rollback")

\* A cycle in which the kernel's sret is decoded.
KernelReturns ==
    \E c \in 0..CoreWidth, comp \in SUBSET Finishing, ev \in 0..1 :
        Cycle(c, 1, "sret", FALSE, FALSE, comp, {}, ev, FALSE)

Spec == Init /\ [][Next]_vars

\* Units finish what they were issued, the frontend delivers what it fetched
\* and the kernel returns from a trap.  Only the programs that are sampled by
\* their own handler are asked to end, so fairness is stated for those.
OwnHandler == \E j \in DOMAIN Code : Code[j].k = "uret"
FairSpec == Spec /\ WF_vars(OwnHandler /\ Busy) /\ SF_vars(OwnHandler /\ KernelReturns)

-----------------------------------------------------------------------------
\* Sampling is transparent (core.scala 640-697, 793-797, 1292-1311): whatever
\* samples, interrupts, faults and mispredictions happen, the program commits
\* its instructions in order, each exactly once.
Transparent == trace = [j \in 1..Len(trace) |-> j]

\* With sampleEventSel = 0 the counter is exact (core.scala 389-391, 533-534):
\* it holds every committed user instruction of the target since it was zeroed,
\* and no instruction of the kernel, the sret and the ecall included.
CountExact == SampleValid /\ EventSel = 0 => ur.now + commD = ucount

\* A sample is late by at most the uops that were decoded before the threshold
\* was passed (core.scala 392, 793-797): a full ROB, and two bundles for ren2 and
\* the delay of the counter.
OvershootBound ==
    SampleValid /\ EventSel = 0 => ur.now <= ur.max + RobSize + 2 * CoreWidth

\* The overflow mark never reaches the CSR file as a cause: a sample goes to
\* the handler or is disguised as a system call (core.scala 1292-1310).
OverflowHidden == cpu.cause # "overflow"

\* A sampling register is written, and a trap or return is taken, before the
\* instruction commits (core.scala 1279-1281, 1392-1422); this is right only
\* because such an instruction is alone: it is on the right path, has no
\* exception and nothing older is in flight.
NotSpeculative ==
    \A j \in 1..Len(rob) :
        rob[j].st # "wait" /\ IsUnique(rob[j]) =>
            j = 1 /\ ~rob[j].wp /\ rob[j].exc = None

Finished == Len(trace) = Last - 1

\* Sampling does not starve the program: it finishes although it is sampled
\* again and again.
Terminates == OwnHandler => <>Finished
=============================================================================
