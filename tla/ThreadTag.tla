----------------------------- MODULE ThreadTag -----------------------------
(***************************************************************************)
(* Ownership of the hardware register procTag.                             *)
(*                                                                         *)
(* Every hart of the modified BOOM core has ONE procTag register.  The     *)
(* modified Linux makes it look like a per-thread register: __switch_to    *)
(* saves it into prev->thread.threadtag and loads next->thread.threadtag   *)
(* (entry.S), and arch_dup_task_struct copies the saved value to a child   *)
(* (process.c).  The core itself writes the register too: a sample that is *)
(* redirected to a user handler clears it (core.scala).                    *)
(*                                                                         *)
(* The scheduler of Linux is not part of the repository; it is modelled by *)
(* its contract (marked external in the map): a task runs on at most one   *)
(* hart, and a task being switched out is not picked by another hart       *)
(* before its switch is over (task_struct.on_cpu).                         *)
(***************************************************************************)
EXTENDS Naturals, FiniteSets

CONSTANTS Harts,    \* the hardware threads
          Tasks,    \* the task_structs; the idle tasks are among them
          Tags,     \* the values of a 32-bit procTag that are told apart
          NoTag,    \* 0, the reset value of procTag
          Target,   \* 0x1234567, the tag the core samples
          Idle      \* Idle[h]: the task hart h boots with

ASSUME TagAssumption  == NoTag \in Tags /\ Target \in Tags /\ NoTag # Target
ASSUME IdleAssumption == /\ Idle \in [Harts -> Tasks]
                         /\ \A g, h \in Harts : Idle[g] = Idle[h] => g = h

VARIABLES hwTag,      \* hwTag[h]: procTag of hart h
          threadtag,  \* threadtag[t]: task_struct.thread.threadtag
          curr,       \* curr[h]: the task on hart h
          next,       \* next[h]: the task hart h switches to
          phase,      \* phase[h]: "run", or "saved" in the middle of __switch_to
          life,       \* life[t]: "free", "ready", "oncpu" or "dying"
          own         \* history: the tag task t last gave itself, was born
                      \* with, or was left with by a sample

vars == <<hwTag, threadtag, curr, next, phase, life, own>>

IsIdle(t) == \E h \in Harts : Idle[h] = t

Running(h) == phase[h] = "run" /\ life[curr[h]] = "oncpu"

-----------------------------------------------------------------------------
Init ==
    /\ hwTag = [h \in Harts |-> NoTag]
    /\ threadtag = [t \in Tasks |-> NoTag]
    /\ curr = Idle
    /\ next = Idle
    /\ phase = [h \in Harts |-> "run"]
    /\ life = [t \in Tasks |-> IF IsIdle(t) THEN "oncpu" ELSE "free"]
    /\ own = [t \in Tasks |-> NoTag]

\* addi x0, rs1, 1 executed by the user program on hart h (outside __switch_to
\* the kernel never executes it, so an idle task does not).
SetProcTag(h, v) ==
    /\ Running(h)
    /\ ~IsIdle(curr[h])
    /\ hwTag' = [hwTag EXCEPT ![h] = v]
    /\ own' = [own EXCEPT ![curr[h]] = v]
    /\ UNCHANGED <<threadtag, curr, next, phase, life>>

\* The core redirects a sample to the user's handler: procTag is cleared.
\* A sample needs procTag = Target (isTargetProc).
SampleRedirect(h) ==
    /\ Running(h)
    /\ hwTag[h] = Target
    /\ hwTag' = [hwTag EXCEPT ![h] = NoTag]
    /\ own' = [own EXCEPT ![curr[h]] = NoTag]
    /\ UNCHANGED <<threadtag, curr, next, phase, life>>

\* Mutant of the value that __switch_to saves.
SavedTag_Stale(h) == threadtag[curr[h]]       \* the save is missing

\* fork/clone: arch_dup_task_struct copies the SAVED tag of the parent.
ForkTag(h) == threadtag[curr[h]]

Fork(h, c) ==
    /\ Running(h)
    /\ life[c] = "free"
    /\ threadtag' = [threadtag EXCEPT ![c] = ForkTag(h)]
    /\ own' = [own EXCEPT ![c] = ForkTag(h)]
    /\ life' = [life EXCEPT ![c] = "ready"]
    /\ UNCHANGED <<hwTag, curr, next, phase>>

\* do_exit: the task runs no more user code and waits to be switched out.
Exit(h) ==
    /\ Running(h)
    /\ ~IsIdle(curr[h])
    /\ life' = [life EXCEPT ![curr[h]] = "dying"]
    /\ UNCHANGED <<hwTag, threadtag, curr, next, phase, own>>

\* First half of __switch_to: the scheduler picked n; the tag of prev is saved.
SavedTag(h) == hwTag[h]

SwitchSave(h, n) ==
    /\ phase[h] = "run"
    /\ life[n] = "ready"
    /\ threadtag' = [threadtag EXCEPT ![curr[h]] = SavedTag(h)]
    /\ phase' = [phase EXCEPT ![h] = "saved"]
    /\ next' = [next EXCEPT ![h] = n]
    /\ life' = [life EXCEPT ![n] = "oncpu"]
    /\ UNCHANGED <<hwTag, curr, own>>

\* Second half: the tag of next is loaded; prev may then be picked by another
\* hart, or, if it exited, its task_struct may be reused by a fork.
RestoredTag(h) == threadtag[next[h]]

SwitchRestore(h) ==
    /\ phase[h] = "saved"
    /\ hwTag' = [hwTag EXCEPT ![h] = RestoredTag(h)]
    /\ curr' = [curr EXCEPT ![h] = next[h]]
    /\ phase' = [phase EXCEPT ![h] = "run"]
    /\ life' = [life EXCEPT ![curr[h]] = IF @ = "dying" THEN "free" ELSE "ready"]
    /\ UNCHANGED <<threadtag, next, own>>

Next ==
    \/ \E h \in Harts, v \in Tags : SetProcTag(h, v)
    \/ \E h \in Harts : SampleRedirect(h) \/ Exit(h) \/ SwitchRestore(h)
    \/ \E h \in Harts, t \in Tasks : Fork(h, t) \/ SwitchSave(h, t)

Spec == Init /\ [][Next]_vars

-----------------------------------------------------------------------------
TypeOK ==
    /\ hwTag \in [Harts -> Tags]
    /\ threadtag \in [Tasks -> Tags]
    /\ curr \in [Harts -> Tasks]
    /\ next \in [Harts -> Tasks]
    /\ phase \in [Harts -> {"run", "saved"}]
    /\ life \in [Tasks -> {"free", "ready", "oncpu", "dying"}]
    /\ own \in [Tasks -> Tags]

\* A sample or a counted event is charged to whoever runs while procTag equals
\* Target, so procTag must be the tag of the thread that runs, whatever forks,
\* migrations, preemptions in a handler and task_struct reuse happened before
\* (entry.S __switch_to 534-541); and the tag of a thread that waits must be
\* the one it had when it was switched out.
TagIsolation ==
    /\ \A h \in Harts : hwTag[h] = own[curr[h]]
    /\ \A t \in Tasks : life[t] = "ready" => threadtag[t] = own[t]

\* The strengthening of TagIsolation that is inductive: which tasks are on
\* which hart.
OnHart(t, h) == curr[h] = t \/ (phase[h] = "saved" /\ next[h] = t)

Placement ==
    /\ \A h \in Harts : life[curr[h]] \in {"oncpu", "dying"}
    /\ \A h \in Harts : phase[h] = "saved" =>
           /\ life[next[h]] = "oncpu"
           /\ next[h] # curr[h]
           /\ threadtag[next[h]] = own[next[h]]
           /\ threadtag[curr[h]] = own[curr[h]]
    /\ \A g, h \in Harts : \A t \in Tasks : OnHart(t, g) /\ OnHart(t, h) => g = h
=============================================================================
