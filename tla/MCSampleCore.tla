--------------------------- MODULE MCSampleCore ---------------------------
(* Programs for SampleCore: arm the sampling, run, be sampled. *)
EXTENDS SampleCore

Op(k)      == [k |-> k]
Set(r, v)  == [k |-> "set", r |-> r, v |-> v]

(* The handler of ctrl.h at pc h: keep the exit pc, set procTag and maxEventNum
   again, return.  Its two last instructions are counted, so m must be >= 2. *)
Handler(m) == <<Op("exitpc"), Set("tag", Target), Set("max", m), Op("uret")>>

(* Samples are taken by the handler. *)
HandlerCode ==
    <<Set("tag", Target), Set("func", 10), Set("max", 1),
      Op("alu"), Op("br"), Op("ld"), Op("alu"), Op("alu"), Op("end")>> \o Handler(2)
HandlerLast == 9

(* Samples are disguised as system calls; the program makes one of its own. *)
EcallCode ==
    <<Set("max", 1), Set("tag", Target),
      Op("alu"), Op("ecall"), Op("br"), Op("alu"), Op("ld"), Op("end")>>
EcallLast == 8

(* A warm-up before the sampling. *)
WarmupCode ==
    <<Set("tag", Target), Set("max", 1), Set("warm", 1),
      Op("alu"), Op("alu"), Op("br"), Op("alu"), Op("ld"), Op("alu"), Op("end")>>
WarmupLast == 10

(* A long stretch of instructions that are counted. *)
LongCode ==
    <<Set("tag", Target), Set("max", 1)>> \o [j \in 1..13 |-> Op("alu")] \o <<Op("end")>>
LongLast == 16

(* The program sets maxEventNum again while it is being sampled. *)
RearmCode ==
    <<Set("tag", Target), Set("max", 1), Op("alu"), Op("alu"), Set("max", 5),
      Op("alu"), Op("alu"), Op("end")>>
RearmLast == 8

Program(code, last, sel, rearm, x) ==
    [code |-> code, last |-> last, sel |-> sel, rearm |-> rearm, xcpts |-> x]

\* The third one samples on an event that may happen in any cycle, so that a
\* sample can hit every point of the program.
AllPrograms == {Program(HandlerCode, HandlerLast, 0, 1, 1),
                Program(EcallCode, EcallLast, 0, 1, 2),
                Program(EcallCode, EcallLast, 2, 1, 1),
                Program(WarmupCode, WarmupLast, 0, 1, 1),
                Program(LongCode, LongLast, 0, 9, 0)}
RearmOnly == {Program(RearmCode, RearmLast, 0, 1, 1)}
=============================================================================
