-------------------------------- MODULE Lsu --------------------------------
(***************************************************************************)
(* The load/store unit (lsu.scala) of a core with coreWidth = memWidth = 1: *)
(* loads run ahead of older stores whose addresses are not known, take     *)
(* their data from the store queue or from the data cache, and are thrown  *)
(* back when an older store or load turns out to be in the way.            *)
(*                                                                         *)
(* One step is one clock cycle: every operation on ldq and stq below is    *)
(* the part of the cycle that its lines describe, in the order in which    *)
(* the last assignment wins.  An address is a set of locations (the bytes  *)
(* of GenByteMask) within one double word and a value is the position of   *)
(* the store that wrote it, so that masks are sets.  The data cache, the   *)
(* TLB and the pipeline around the LSU are modelled by their contracts     *)
(* (dcache.scala 599-912, rob.scala 325-598, core.scala 186-216, 976-996). *)
(*                                                                         *)
(* Not modelled: AMOs, LR/SC, SFENCE, FP store data, the HellaCache port.  *)
(***************************************************************************)
EXTENDS Naturals, Sequences, FiniteSets, SequencesExt, TLC

CONSTANTS NL, NS,      \* numLdqEntries, numStqEntries
          Locs, Line,  \* locations, and the cache line of each
          IOLocs,      \* locations that are not cacheable
          Programs,    \* sequences of [k, loc, to]: k is "ld", "st", "fence" or "br";
                       \* a mispredicted branch goes on at position to
          Refetch,     \* BOUND: cycles from a redirect to the next dispatch (more in the core)
          MaxTrouble,  \* BOUND: misses, nacks, faults, stalls and releases per behaviour
          Starts,      \* positions <<l, s>> of the empty queues at the start
          Patience     \* BOUND: cycles in which the LSU alone must drain

ASSUME LsuAssumption == NL \in Nat \ {0} /\ NS \in Nat \ {0} /\ IOLocs \subseteq Locs

VARIABLES code,    \* the program
          rob,     \* the ROB entries of the operations in flight, oldest first
          fe,      \* front end: next position, cycles to wait, exception and brupdate.b2
          ldq, stq, ptr, live,
          pipe,    \* registers between the stages of the LSU
          dc,      \* the data cache: s1, s2 and the loads waiting in MSHRs
          memory,  \* per location: the writers, in the order of their writes
          done,    \* history: committed operations and what the loads returned
          broken,  \* history: assertions of the code that failed
          trouble, \* counter for MaxTrouble
          quiet    \* history: cycles since nothing outside the LSU has work left

vars == <<code, rob, fe, ldq, stq, ptr, live, pipe, dc, memory, done, broken, trouble, quiet>>

External == 100     \* writer of a location that another hart has written
NoLine == "none"
NoExe == [p |-> 0, part |-> "none", q |-> 0]
NoBr == [p |-> 0, mis |-> FALSE]

Ldq == 0..(NL - 1)
Stq == 0..(NS - 1)
IncL(i) == (i + 1) % NL
IncS(i) == (i + 1) % NS

\* (i0 < i1) ^ (i0 < head) ^ (i1 < head)
IsOlder(i0, i1, head) == ((i0 < i1) # (i0 < head)) # (i1 < head)

\* First of S at or after head; the last index when there is none.
AgeFirst(S, head, n) ==
    IF S = {} THEN n - 1
    ELSE CHOOSE i \in S : \A j \in S : (i + n - head) % n <= (j + n - head) % n

\* An entry that is not valid has p = 0; its other fields are never read.
NewLd(p, dep, yst) ==
    [p |-> p, ad |-> "none", exec |-> FALSE, succ |-> FALSE, fail |-> FALSE, obs |-> FALSE,
     dep |-> dep, yst |-> yst, fwd |-> NS, val |-> <<>>]
NewSt(p) == [p |-> p, ad |-> "none", dv |-> FALSE, com |-> FALSE, succ |-> FALSE, xc |-> FALSE]
NoLd == NewLd(0, {}, 0)
NoSt == NewSt(0)

Loc(p) == code[p].loc
LdLoc(i) == Loc(ldq[i].p)
StLoc(i) == Loc(stq[i].p)
IsFence(i) == stq[i].p # 0 /\ code[stq[i].p].k = "fence"
Uncached(p) == Loc(p) \subseteq IOLocs
LineOf(p) == Line[CHOOSE l \in Loc(p) : TRUE]

NoReq == [k |-> "none", p |-> 0, q |-> 0, nk |-> FALSE]
NoMem == [f |-> {}, li |-> 0, p |-> 0, dep |-> {}, si |-> 0, loc |-> {}, line |-> NoLine,
          miss |-> FALSE, ex |-> NL, req |-> FALSE]
NoFwd == [v |-> FALSE, li |-> 0, si |-> 0]
NoXm  == [p |-> 0, si |-> NS]
NoB2  == [v |-> FALSE, lt |-> 0, st |-> 0]

Init ==
    /\ code \in Programs
    /\ rob = <<>>
    /\ fe = [pc |-> 1, hold |-> 0, exc |-> 0, exc1 |-> FALSE, exc2 |-> FALSE, b2 |-> NoB2,
             walk |-> FALSE]
    /\ ldq = [i \in Ldq |-> NoLd] /\ stq = [i \in Stq |-> NoSt]
    \* the queues are empty at any position: what ran before left the pointers there
    /\ \E b \in Starts : ptr = [lh |-> b[1], lt |-> b[1],
                              sh |-> b[2], st |-> b[2], sc |-> b[2], se |-> b[2]]
    /\ live = {}
    /\ pipe = [mem |-> NoMem, fwd |-> NoFwd, xm |-> NoXm, rx |-> 0, clr1 |-> 0, clr2 |-> 0,
               lr |-> NL - 1, sr |-> NS - 1, lw |-> NL - 1, p1 |-> NL, p2 |-> NL, nacked |-> NL,
               rdy |-> TRUE, bw |-> FALSE, sbc |-> 0, head |-> FALSE]
    /\ dc = [s1 |-> NoReq, s2 |-> NoReq, pend |-> <<>>]
    /\ memory = [l \in Locs |-> <<0>>]
    /\ done = <<>> /\ broken = {} /\ trouble = 0 /\ quiet = 0

Exc == fe.exc # 0        \* io.core.exception; fe.exc is the position to go on at

-----------------------------------------------------------------------------
(* What can fire in this cycle, and what does.  in is the cycle's input. *)

\* The fence at the head of stq waits until the cache is ordered.
Ordered == dc.s1 = NoReq /\ dc.s2 = NoReq /\ dc.pend = <<>>
StoreNeedsOrder == stq[ptr.sh].com /\ IsFence(ptr.sh) /\ ~Ordered
ClearStore == /\ stq[ptr.sh].p # 0 /\ stq[ptr.sh].com
              /\ IF IsFence(ptr.sh) THEN Ordered ELSE stq[ptr.sh].succ
FenceiRdy == (\A i \in Stq : stq[i].p = 0) /\ Ordered

BlockLoadWakeup == pipe.bw \/ pipe.sbc = 15

CanLoadRetry == LET e == ldq[pipe.lr] IN
    /\ e.p # 0 /\ e.ad = "virt" /\ ~e.fail
    /\ pipe.lr \notin {pipe.p1, pipe.p2} /\ pipe.rdy /\ ~StoreNeedsOrder
CanStaRetry == stq[pipe.sr].p # 0 /\ stq[pipe.sr].ad = "virt" /\ pipe.rdy
CanStoreCommit == LET e == stq[ptr.se] IN
    e.p # 0 /\ ~IsFence(ptr.se) /\ pipe.xm.p = 0 /\ ~e.xc /\ e.com

\* Mutants: an uncacheable load goes out before it is the oldest operation, or before
\* the stores that it follows.
CanLoadWakeup_Early == LET e == ldq[pipe.lw] IN
    /\ e.p # 0 /\ e.ad = "phys" /\ ~e.succ /\ ~e.exec /\ ~e.fail
    /\ pipe.lw \notin {pipe.p1, pipe.p2} /\ ~StoreNeedsOrder /\ ~BlockLoadWakeup
    /\ Uncached(e.p) => ptr.lh = pipe.lw /\ e.dep = {}

CanLoadWakeup == LET e == ldq[pipe.lw] IN
    /\ e.p # 0 /\ e.ad = "phys" /\ ~e.succ /\ ~e.exec /\ ~e.fail
    /\ pipe.lw \notin {pipe.p1, pipe.p2} /\ ~StoreNeedsOrder /\ ~BlockLoadWakeup
    /\ Uncached(e.p) => pipe.head /\ ptr.lh = pipe.lw /\ e.dep = {}

CanFire(exe, rel) ==
    (IF exe = NoExe THEN {} ELSE {exe.part}) \cup (IF rel = NoLine THEN {} ELSE {"release"})
      \cup (IF CanLoadRetry THEN {"ldretry"} ELSE {}) \cup (IF CanStaRetry THEN {"staretry"} ELSE {})
      \cup (IF CanLoadWakeup THEN {"wakeup"} ELSE {}) \cup (IF CanStoreCommit THEN {"commit"} ELSE {})

Priority == <<"ld", "stad", "sta", "std", "release", "ldretry", "staretry", "wakeup", "commit">>
Uses == [ld |-> {"tlb", "dc", "lcam"}, stad |-> {"tlb", "lcam", "rob"},
         sta |-> {"tlb", "lcam", "rob"}, std |-> {"rob"}, release |-> {"lcam"},
         ldretry |-> {"tlb", "dc", "lcam"}, staretry |-> {"tlb", "lcam", "rob"},
         wakeup |-> {"dc", "lcam"}, commit |-> {"dc"}]

\* lsu_sched: each takes the resources that those before it left.
WillFire(exe, rel) ==
    LET can == CanFire(exe, rel)
        fired[n \in 0..Len(Priority)] ==
            IF n = 0 THEN {}
            ELSE LET f == Priority[n]  before == fired[n - 1] IN
                 IF f \in can /\ \A g \in before : Uses[g] \cap Uses[f] = {}
                 THEN before \cup {f} ELSE before
    IN  fired[Len(Priority)]

OfLoad == {"ld", "ldretry", "wakeup"}
OfSta  == {"stad", "sta", "staretry"}
OfTlb  == {"ld", "ldretry"} \cup OfSta

\* in: what the cycle gets from outside, with fire = WillFire(in.exe, in.rel)
Killed(in, p) == in.br.mis /\ p > in.br.p

LoadIdx(in) == IF "ld" \in in.fire THEN in.exe.q
               ELSE IF "ldretry" \in in.fire THEN pipe.lr ELSE pipe.lw
StoreIdx(in) == IF in.fire \cap {"stad", "sta"} # {} THEN in.exe.q ELSE pipe.sr
Translated(in) == IF in.fire \cap OfTlb = {} THEN 0
                  ELSE IF in.fire \cap {"ld", "stad", "sta"} # {} THEN in.exe.p
                  ELSE IF "ldretry" \in in.fire THEN ldq[pipe.lr].p ELSE stq[pipe.sr].p

\* dmem_req: what goes to the data cache in this cycle, if it is ready.
LoadReq(i, p) == [k |-> "ld", p |-> p, q |-> i, nk |-> FALSE]
DmemReq(in) ==
    IF in.fire \cap {"ld", "ldretry"} # {}
    THEN IF in.tlb = "miss" \/ Uncached(Translated(in)) THEN NoReq
         ELSE LoadReq(LoadIdx(in), Translated(in))
    ELSE IF "commit" \in in.fire
    THEN [k |-> "st", p |-> stq[ptr.se].p, q |-> ptr.se, nk |-> FALSE]
    ELSE IF "wakeup" \in in.fire THEN LoadReq(pipe.lw, ldq[pipe.lw].p) ELSE NoReq

-----------------------------------------------------------------------------
(* The search stage: what fired in the last cycle looks through the queues. *)

DoStSearch == pipe.mem.f \cap OfSta # {} /\ ~pipe.mem.miss
DoLdSearch == \/ pipe.mem.f \cap {"ld", "ldretry"} # {} /\ ~pipe.mem.miss
              \/ "wakeup" \in pipe.mem.f

IsForwarding(i) == pipe.fwd.v /\ pipe.fwd.li = i
ForwardIdx(i) == IF IsForwarding(i) THEN pipe.fwd.si ELSE ldq[i].fwd
HasData(i) == ldq[i].exec \/ ldq[i].succ \/ IsForwarding(i)
Overlaps(i) == /\ ldq[i].p # 0 /\ ldq[i].ad = "phys"
               /\ LdLoc(i) \cap pipe.mem.loc # {}

\* Mutant: a load that has its data from an older store is not looked at again.
StSearchFails_NotForwarded ==
    IF ~DoStSearch THEN {} ELSE
    {i \in Ldq : Overlaps(i) /\ HasData(i) /\ pipe.mem.si \in ldq[i].dep /\ ldq[i].fwd = NS}

\* A store finds a younger load that did not wait for it.
StSearchFails ==
    IF ~DoStSearch THEN {} ELSE
    {i \in Ldq : /\ Overlaps(i) /\ HasData(i) /\ pipe.mem.si \in ldq[i].dep
                 /\ \/ ldq[i].fwd = NS
                    \/ /\ ForwardIdx(i) # pipe.mem.si
                       /\ IsOlder(ForwardIdx(i), pipe.mem.si, ldq[i].yst)}

\* A load finds a younger load whose line another hart has taken since.
LdSearchFails ==
    IF ~DoLdSearch THEN {} ELSE
    {i \in Ldq : /\ Overlaps(i) /\ HasData(i) /\ ldq[i].obs
                 /\ IsOlder(pipe.mem.li, i, ptr.lh)}

FailedLoads == StSearchFails \cup LdSearchFails

\* The loads that an older load must still overtake, which is nacked, or never went out.
OlderUndone(nack) ==
    {i \in Ldq : /\ DoLdSearch /\ Overlaps(i) /\ i # pipe.mem.li
                 /\ ~IsOlder(pipe.mem.li, i, ptr.lh)
                 /\ ~(ldq[i].exec \/ ldq[i].succ) \/ i \in {nack, pipe.nacked}}

DepStores == {i \in pipe.mem.dep : DoLdSearch /\ stq[i].p # 0}
ForwardMatches(nack) ==
    {i \in DepStores : /\ stq[i].ad = "phys" /\ ~IsFence(i) /\ pipe.mem.loc \subseteq StLoc(i)
                       /\ ~Uncached(pipe.mem.p) /\ OlderUndone(nack) = {}}
AddrMatches(nack) ==
    ForwardMatches(nack)
      \cup {i \in DepStores : stq[i].ad = "phys" /\ pipe.mem.loc \cap StLoc(i) # {}}
      \cup {i \in DepStores : IsFence(i)}

\* ForwardingAgeLogic: the youngest match before youngest_st_idx, around the ring.
Youngest(S, yst) ==
    LET below == {i \in S : i < yst}
        of == IF below # {} THEN below ELSE S
    IN  IF S = {} THEN 0 ELSE CHOOSE i \in of : \A j \in of : j <= i

Forward(in, nack) ==
    LET f == Youngest(AddrMatches(nack), ldq[pipe.mem.li].yst)
    IN  [v |-> /\ f \in ForwardMatches(nack) /\ ~Killed(in, pipe.mem.p)
               /\ ~Exc /\ ~fe.exc1,
         li |-> pipe.mem.li, si |-> f]

\* s1_kill: the request of the searching load is taken back.
SearchKills(nack) == OlderUndone(nack) # {} \/ AddrMatches(nack) # {}

-----------------------------------------------------------------------------
(* The data cache answers: the request in s2, and one that waited in an MSHR. *)

LoadData(p) == [l \in Loc(p) |-> IF l \in IOLocs THEN p ELSE Last(memory[l])]
SameLine(r, e) == LineOf(r.p) = LineOf(e.p)
Waiting(r) == \E i \in DOMAIN dc.pend : SameLine(r, dc.pend[i])
LiveS2(br) == /\ dc.s2 # NoReq
              /\ dc.s2.k = "ld" => ~Exc /\ ~(br.mis /\ dc.s2.p > br.p)
NackForced(rel) == \/ dc.s2.nk \/ LineOf(dc.s2.p) = rel
                   \/ /\ Uncached(dc.s2.p)
                      /\ \E i \in DOMAIN dc.pend : Uncached(dc.pend[i].p)
MissForced == Uncached(dc.s2.p) \/ Waiting(dc.s2)

Answers(br, rel) == IF ~LiveS2(br) THEN {"none"}
                    ELSE IF NackForced(rel) THEN {"nack"}
                    ELSE IF MissForced THEN {"miss", "nack"} ELSE {"hit", "miss", "nack"}

\* The oldest request of a line leaves its MSHR; a load needs the response port.
Refills(s2) == {0} \cup {i \in DOMAIN dc.pend :
                           /\ \A j \in 1..(i - 1) : ~SameLine(dc.pend[i], dc.pend[j])
                           /\ \/ dc.pend[i].k = "st"
                              \/ ~(s2 = "hit" \/ (s2 = "miss" /\ dc.s2.k = "st"))}

Nacked(in) == IF in.s2 = "nack" /\ dc.s2.k = "ld" THEN dc.s2.q ELSE NL
StoreFailed(in) == in.s2 = "nack" /\ dc.s2.k = "st"
Acked(in) == IF in.s2 \in {"hit", "miss"} /\ dc.s2.k = "st" THEN dc.s2.q ELSE NS
Refilled(in) == IF in.mshr = 0 THEN NoReq ELSE dc.pend[in.mshr]
Answered(in) ==
    IF in.s2 = "hit" /\ dc.s2.k = "ld" THEN dc.s2
    ELSE IF Refilled(in).k = "ld" /\ ~Exc /\ ~Killed(in, Refilled(in).p) THEN Refilled(in) ELSE NoReq

\* A load that a store gives its data to; a response of the cache goes first.
Forwarded(in) ==
    IF /\ pipe.fwd.v /\ Answered(in) = NoReq /\ stq[pipe.fwd.si].dv
       /\ ~Killed(in, ldq[pipe.fwd.li].p)
    THEN pipe.fwd.li ELSE NL

Performed(in) ==     \* the accesses that reach memory in this cycle
    (IF in.s2 = "hit" /\ dc.s2.k = "st" THEN {dc.s2.p} ELSE {})
      \cup (IF Refilled(in).k = "st" \/ (Refilled(in) # NoReq /\ Uncached(Refilled(in).p))
            THEN {Refilled(in).p} ELSE {})
MemoryAfter(in) ==
    [l \in Locs |->
       IF Line[l] = in.rel THEN Append(memory[l], External + Len(memory[l]))
       ELSE memory[l] \o SetToSeq({p \in Performed(in) : l \in Loc(p)})]

DropLoad(in, r) == r.k = "ld" /\ (Exc \/ Killed(in, r.p))
CacheAfter(in, ready, s1kill) ==
    LET Next1(r) == IF r = NoReq \/ DropLoad(in, r) \/ (StoreFailed(in) /\ r.k = "st") THEN NoReq
                    ELSE [r EXCEPT !.nk = @ \/ LineOf(r.p) = in.rel]
        kept == IF in.mshr = 0 THEN dc.pend ELSE RemoveAt(dc.pend, in.mshr)
    IN  [s1   |-> IF ready THEN Next1(DmemReq(in)) ELSE NoReq,
         s2   |-> IF s1kill THEN NoReq ELSE Next1(dc.s1),
         pend |-> SelectSeq(kept, LAMBDA r : ~DropLoad(in, r))
                    \o (IF in.s2 = "miss" THEN <<dc.s2>> ELSE <<>>)]

-----------------------------------------------------------------------------
(* The reorder buffer commits its head; an exception is thrown in its place.  The LSU  *)
(* learns of the flush one cycle later, in fe.exc.                                     *)

Oldest == rob[1]
Commits == rob # <<>> /\ ~Oldest.bsy /\ ~Oldest.xc /\ ~Exc
IsOp(p, k) == code[p].k = k
Flush == IF rob # <<>> /\ Oldest.xc /\ ~Exc THEN Oldest.p
         ELSE IF Commits /\ IsOp(Oldest.p, "fence") THEN Oldest.p + 1 ELSE 0

NoDispatch == \/ Exc \/ fe.b2.v \/ fe.hold > 0 \/ fe.pc > Len(code)
              \/ \E i \in DOMAIN rob : rob[i].xc \/ IsOp(rob[i].p, "fence")
CanDispatch == /\ ~NoDispatch
               /\ CASE IsOp(fe.pc, "ld")    -> IncL(ptr.lt) # ptr.lh
                    [] IsOp(fe.pc, "st")    -> IncS(ptr.st) # ptr.sh
                    [] IsOp(fe.pc, "fence") -> rob = <<>> /\ FenceiRdy
                    [] OTHER                -> TRUE
Dispatches(in, k) == in.dis /\ IsOp(fe.pc, k)
DisStore(in) == Dispatches(in, "st") \/ Dispatches(in, "fence")

\* Mutant: a store reports that it is done although an exception has flushed it.
ClearBusy_Flushed(in) == IF pipe.clr2 # 0 /\ ~Killed(in, pipe.clr2) THEN {pipe.clr2} ELSE {}

ClearBusy(in) == IF pipe.clr2 # 0 /\ ~Killed(in, pipe.clr2) /\ ~Exc /\ ~fe.exc1 /\ ~fe.exc2
                 THEN {pipe.clr2} ELSE {}
WroteBack(in) == (IF Answered(in) = NoReq THEN {} ELSE {Answered(in).q}) \cup ({Forwarded(in)} \ {NL})
Done(in) == ClearBusy(in) \cup {ldq[i].p : i \in WroteBack(in)}
              \cup (IF in.br = NoBr THEN {} ELSE {in.br.p})
Lxcpt(in) == IF Exc \/ Killed(in, pipe.rx) THEN 0 ELSE pipe.rx

RobAfter(in) ==
    LET now == Done(in)
        sent == IF in.exe.part = "stad" THEN {"sta", "std"} ELSE {in.exe.part}
        Written(e) == [p |-> e.p, lt |-> e.lt, st |-> e.st, bsy |-> e.bsy /\ e.p \notin now,
                       xc |-> e.xc \/ e.p = Lxcpt(in),
                       todo |-> IF in.exe.p = e.p THEN e.todo \ sent ELSE e.todo]
        left == SelectSeq([i \in DOMAIN rob |-> Written(rob[i])], LAMBDA e : ~Killed(in, e.p))
        new == [p |-> fe.pc, lt |-> ptr.lt, st |-> ptr.st, bsy |-> ~IsOp(fe.pc, "fence"), xc |-> FALSE,
                todo |-> CASE IsOp(fe.pc, "ld") -> {"ld"} [] IsOp(fe.pc, "st") -> {"sta", "std"}
                           [] OTHER -> {}]
    IN  IF Exc THEN <<>>
        ELSE (IF Commits THEN Tail(left) ELSE left) \o (IF in.dis THEN <<new>> ELSE <<>>)

FrontAfter(in) ==
    [pc   |-> IF Exc THEN fe.exc ELSE IF in.br.mis THEN code[in.br.p].to
              ELSE IF in.dis THEN fe.pc + 1 ELSE fe.pc,
     hold |-> IF Exc \/ in.br.mis THEN Refetch ELSE IF fe.hold = 0 THEN 0 ELSE fe.hold - 1,
     exc  |-> Flush, exc1 |-> Exc, exc2 |-> fe.exc1,
     b2   |-> IF ~in.br.mis THEN NoB2
              ELSE LET i == CHOOSE j \in DOMAIN rob : rob[j].p = in.br.p
                   IN  [v |-> TRUE, lt |-> rob[i].lt, st |-> rob[i].st],
     walk |-> in.tlb = "miss" \/ (fe.walk /\ ~in.walk)]

-----------------------------------------------------------------------------
(* The load queue after the cycle. *)

Cleared == IF ClearStore THEN {ptr.sh} ELSE {}
LdqEnqueue(in, i) ==
    IF Dispatches(in, "ld") /\ i = ptr.lt THEN NewLd(fe.pc, live, ptr.st) ELSE ldq[i]

\* The TLB has answered a load.
LdqAddress(in, i, ad) == IF in.fire \cap {"ld", "ldretry"} = {} \/ i # LoadIdx(in) THEN ad
                         ELSE IF in.tlb = "miss" THEN "virt" ELSE "phys"
Observed(i) == /\ "release" \in pipe.mem.f /\ ldq[i].p # 0 /\ ldq[i].ad # "none"
               /\ LineOf(ldq[i].p) = pipe.mem.line

\* Mutant: a load that the cache refused counts as executed.
ExecutedAfter_Nacked(in, i, executed, kills) == executed \/ (i = pipe.mem.ex /\ ~kills)

ExecutedAfter(in, i, executed, kills) ==
    (executed \/ (i = pipe.mem.ex /\ ~kills)) /\ i # Nacked(in)

LdqAfter(in, kills) ==
    LET freed == IF Commits /\ IsOp(Oldest.p, "ld") THEN ptr.lh ELSE NL
        answered == Answered(in)  forwarded == Forwarded(in)
        wrote == WroteBack(in)    failed == FailedLoads
        Value(i) == IF i = forwarded THEN [l \in LdLoc(i) |-> stq[pipe.fwd.si].p]
                    ELSE LoadData(answered.p)
        Entry(e, i) ==
            IF e.p = 0 \/ Killed(in, e.p) \/ Exc \/ i = freed THEN NoLd
            ELSE [p |-> e.p, ad |-> LdqAddress(in, i, e.ad),
                  exec |-> ExecutedAfter(in, i, e.exec, kills),
                  succ |-> e.succ \/ i \in wrote, fail |-> e.fail \/ i \in failed,
                  obs |-> e.obs \/ Observed(i), dep |-> e.dep \ Cleared, yst |-> e.yst,
                  fwd |-> IF i = forwarded THEN pipe.fwd.si ELSE e.fwd,
                  val |-> IF i \in wrote THEN Value(i) ELSE e.val]
    IN  [i \in Ldq |-> Entry(LdqEnqueue(in, i), i)]

-----------------------------------------------------------------------------
(* The store queue after the cycle, its pointers and the mask of live stores. *)

\* The TLB has answered a store; an address that faults is not valid.
StqAddress(in, i, ad) == IF in.fire \cap OfSta = {} \/ i # StoreIdx(in) THEN ad
                         ELSE IF in.tlb = "fault" THEN "none"
                         ELSE IF in.tlb = "miss" THEN "virt" ELSE "phys"

BrKilled(in) == {i \in Stq : stq[i].p # 0 /\ Killed(in, stq[i].p)}
ExcKilled == IF Exc THEN {i \in Stq : ~stq[i].com /\ ~stq[i].succ} ELSE {}
CommitsStore == Commits /\ (IsOp(Oldest.p, "st") \/ IsOp(Oldest.p, "fence"))

StqAfter(in) ==
    LET gone == BrKilled(in) \cup Cleared \cup ExcKilled
        Entry(e, i) ==
            IF e.p = 0 \/ i \in gone THEN NoSt
            ELSE [p |-> e.p, ad |-> StqAddress(in, i, e.ad),
                  dv |-> e.dv \/ (in.fire \cap {"std", "stad"} # {} /\ i = in.exe.q),
                  com |-> e.com \/ (CommitsStore /\ i = ptr.sc),
                  succ |-> (e.succ /\ ~("commit" \in in.fire /\ i = ptr.se)) \/ i = Acked(in),
                  xc |-> e.xc \/ (pipe.xm.p # 0 /\ i = pipe.xm.si)]
    IN  [i \in Stq |-> Entry(IF DisStore(in) /\ i = ptr.st THEN NewSt(fe.pc) ELSE stq[i], i)]

LiveAfter(in) == ((live \ Cleared) \cup (IF DisStore(in) THEN {ptr.st} ELSE {}))
                   \ (BrKilled(in) \cup ExcKilled)

PtrAfter(in, ready) ==
    LET comld == Commits /\ IsOp(Oldest.p, "ld")
    IN  [lh |-> IF Exc THEN 0 ELSE IF comld THEN IncL(ptr.lh) ELSE ptr.lh,
         lt |-> IF Exc THEN 0 ELSE IF fe.b2.v THEN fe.b2.lt
                ELSE IF Dispatches(in, "ld") THEN IncL(ptr.lt) ELSE ptr.lt,
         sh |-> IF ClearStore THEN IncS(ptr.sh) ELSE ptr.sh,
         st |-> IF Exc THEN ptr.sc ELSE IF fe.b2.v THEN fe.b2.st
                ELSE IF DisStore(in) THEN IncS(ptr.st) ELSE ptr.st,
         sc |-> IF CommitsStore THEN IncS(ptr.sc) ELSE ptr.sc,
         se |-> IF ClearStore /\ IsFence(ptr.sh) THEN IncS(ptr.se)
                ELSE IF StoreFailed(in) /\ IsOlder(dc.s2.q, ptr.se, ptr.sh) THEN dc.s2.q
                ELSE IF "commit" \in in.fire /\ ready THEN IncS(ptr.se) ELSE ptr.se]

-----------------------------------------------------------------------------
(* The registers between the stages. *)

\* An operation that fires, and that no branch kills in the same cycle, goes on.
GoesOn(in) ==
    {f \in in.fire : f \in {"release", "commit"}
                       \/ ~Killed(in, CASE f \in {"ld", "stad", "sta", "std"} -> in.exe.p
                                        [] f = "ldretry" -> ldq[pipe.lr].p
                                        [] f = "staretry" -> stq[pipe.sr].p
                                        [] f = "wakeup" -> ldq[pipe.lw].p)}

MemAfter(in, ready) ==
    LET isld == in.fire \cap OfLoad # {}
        p == IF isld THEN (IF "ld" \in in.fire THEN in.exe.p ELSE ldq[LoadIdx(in)].p)
             ELSE IF in.fire \cap OfSta # {} THEN Translated(in) ELSE 0
        req == DmemReq(in) # NoReq /\ ready
    IN  [f |-> GoesOn(in) \ {"std", "commit"}, li |-> IF isld THEN LoadIdx(in) ELSE 0, p |-> p,
         dep |-> IF isld THEN ldq[LoadIdx(in)].dep ELSE {},
         si |-> IF in.fire \cap OfSta # {} THEN StoreIdx(in) ELSE 0,
         loc |-> IF p = 0 THEN {} ELSE Loc(p), line |-> in.rel, miss |-> in.tlb = "miss",
         ex |-> IF isld /\ req THEN LoadIdx(in) ELSE NL, req |-> req]

\* clr_bsy: a store whose address and data were there is done.
ClearsBusy(in) ==
    LET e == IF in.exe = NoExe THEN NoSt ELSE stq[in.exe.q]  r == stq[pipe.sr]  go == GoesOn(in) IN
    IF "stad" \in go /\ e.p # 0 /\ in.tlb # "miss" THEN e.p
    ELSE IF "sta" \in go /\ e.p # 0 /\ e.dv /\ in.tlb # "miss" THEN e.p
    ELSE IF "std" \in go /\ e.p # 0 /\ e.ad = "phys" THEN e.p
    ELSE IF "staretry" \in go /\ r.p # 0 /\ r.dv /\ in.tlb # "miss" THEN r.p ELSE 0

Faults(in) == IF in.tlb = "fault" /\ ~Exc /\ ~Killed(in, Translated(in))
              THEN [p |-> Translated(in), si |-> IF in.fire \cap OfSta # {} THEN StoreIdx(in) ELSE NS]
              ELSE NoXm

\* r_xcpt: the oldest of the loads that failed and the operation that faulted.
Reports(in) ==
    LET failed == FailedLoads
        ld == ldq[AgeFirst(failed, ptr.lh, NL)].p
        oldest == IF failed = {} \/ (pipe.xm.p # 0 /\ pipe.xm.p < ld) THEN pipe.xm.p ELSE ld
    IN  IF oldest = 0 \/ Exc \/ Killed(in, oldest) THEN 0 ELSE oldest

StoreBlockedAfter(in) == IF "commit" \in in.fire \/ ~CanStoreCommit THEN 0
                         ELSE IF pipe.sbc = 15 THEN 0 ELSE 15

PipeAfter(in, ready, nack, fwd) ==
    LET fired == IF in.fire \cap OfLoad = {} THEN NL ELSE LoadIdx(in)
        blocked == {fired, pipe.p1}
    IN  [mem |-> MemAfter(in, ready), fwd |-> IF fwd.v THEN fwd ELSE NoFwd, xm |-> Faults(in),
         rx |-> Reports(in), clr1 |-> ClearsBusy(in),
         clr2 |-> IF Killed(in, pipe.clr1) THEN 0 ELSE pipe.clr1,
         lr |-> AgeFirst({i \in Ldq : ldq[i].ad = "virt"} \ blocked, ptr.lh, NL),
         sr |-> AgeFirst({i \in Stq : stq[i].ad = "virt"}, ptr.sc, NS),
         lw |-> AgeFirst({i \in Ldq : ldq[i].ad = "phys" /\ ~ldq[i].exec /\ ~ldq[i].succ} \ blocked,
                         ptr.lh, NL),
         p1 |-> fired, p2 |-> pipe.p1, nacked |-> nack, rdy |-> ~fe.walk,
         bw |-> AddrMatches(nack) # {} /\ ~fwd.v, sbc |-> StoreBlockedAfter(in),
         head |-> rob # <<>> /\ IsOp(Oldest.p, "ld") /\ ~Commits]

-----------------------------------------------------------------------------
(* The assertions of lsu.scala and of the ROB's write ports. *)

Busy(p) == \E i \in DOMAIN rob : rob[i].p = p /\ rob[i].bsy
Breaks(in) ==
    LET load == in.fire \cap OfLoad # {}
        com == ldq[ptr.lh]
    IN  {a \in {"execute head", "enqueue", "executed", "address", "data", "nack", "commit",
                "branch", "writeback", "clr_bsy"} :
           CASE a = "execute head" -> ~(\/ fe.b2.v \/ stq[ptr.se].p # 0
                                        \/ ptr.sh = ptr.se \/ ptr.st = ptr.se)
             [] a = "enqueue" -> \/ Dispatches(in, "ld") /\ ldq[ptr.lt].p # 0
                                 \/ DisStore(in) /\ stq[ptr.st].p # 0
             [] a = "executed" -> load /\ ldq[LoadIdx(in)].exec
             [] a = "address" -> \/ "ld" \in in.fire /\ ldq[in.exe.q].ad # "none"
                                 \/ "sta" \in in.fire /\ stq[in.exe.q].ad # "none"
             [] a = "data" -> in.fire \cap {"std", "stad"} # {} /\ stq[in.exe.q].dv
             [] a = "nack" -> Nacked(in) # NL /\ ~ldq[Nacked(in)].exec
             [] a = "commit" -> /\ Commits /\ IsOp(Oldest.p, "ld")
                                /\ ~(com.p # 0 /\ com.succ /\ (com.exec \/ com.fwd # NS))
             [] a = "branch" -> \E i \in BrKilled(in) : stq[i].com
             [] a = "writeback" -> \E i \in WroteBack(in) : ~Busy(ldq[i].p)
             [] a = "clr_bsy" -> \E p \in ClearBusy(in) : ~Busy(p)}

-----------------------------------------------------------------------------
(* One clock cycle. *)

\* What the issue queues may send: any part of an operation, once.
Issues == {NoExe} \cup
    UNION {{[p |-> rob[i].p, part |-> t, q |-> IF t = "ld" THEN rob[i].lt ELSE rob[i].st] :
              t \in rob[i].todo \cup (IF {"sta", "std"} \subseteq rob[i].todo THEN {"stad"} ELSE {})} :
           i \in DOMAIN rob}
Resolutions == {NoBr} \cup
    {[p |-> rob[i].p, mis |-> m] : m \in BOOLEAN,
       i \in {j \in DOMAIN rob : IsOp(rob[j].p, "br") /\ rob[j].bsy /\ ~Exc /\ Flush = 0}}

Cost(in) == Cardinality({x \in {"tlb", "s2", "release"} :
    CASE x = "tlb" -> in.tlb # "hit"
      [] x = "s2" -> \/ in.s2 = "nack" /\ ~NackForced(in.rel)
                     \/ in.s2 = "miss" /\ ~MissForced
      [] x = "release" -> in.rel # NoLine})

OthersMove == Issues # {NoExe} \/ Resolutions # {NoBr} \/ CanDispatch \/ fe.walk \/ dc.pend # <<>>
Drained == /\ rob = <<>> /\ fe.pc > Len(code)
           /\ \A i \in Ldq : ldq[i].p = 0
           /\ \A i \in Stq : stq[i].p = 0

Cycle(in, ready) ==
    LET nack == Nacked(in)
        kills == SearchKills(nack)
    IN  /\ trouble' = trouble + Cost(in) + (IF ready THEN 0 ELSE 1) /\ trouble' <= MaxTrouble
        /\ rob' = RobAfter(in) /\ fe' = FrontAfter(in)
        /\ ldq' = LdqAfter(in, kills) /\ stq' = StqAfter(in)
        /\ ptr' = PtrAfter(in, ready) /\ live' = LiveAfter(in)
        /\ pipe' = PipeAfter(in, ready, nack, Forward(in, nack))
        /\ dc' = CacheAfter(in, ready, kills /\ pipe.mem.req) /\ memory' = MemoryAfter(in)
        /\ done' = IF ~Commits \/ ~(IsOp(Oldest.p, "ld") \/ IsOp(Oldest.p, "st")) THEN done
                   ELSE Append(done, [p |-> Oldest.p,
                                      val |-> IF IsOp(Oldest.p, "ld") THEN ldq[ptr.lh].val
                                              ELSE [l \in Loc(Oldest.p) |-> Oldest.p]])
        /\ broken' = broken \cup Breaks(in)
        /\ quiet' = IF OthersMove \/ Drained THEN 0 ELSE quiet + 1
        /\ UNCHANGED code

\* A line leaves the cache when no request of this core waits for it.
Releases(exe) == {NoLine} \cup
    IF exe.part \in {"none", "std"}
    THEN {Line[l] : l \in Locs \ IOLocs} \ {LineOf(dc.pend[i].p) : i \in DOMAIN dc.pend} ELSE {}

TlbAnswers(fire) == IF fire \cap OfTlb = {} THEN {"hit"} ELSE {"hit", "miss", "fault"}
Readiness(in) == IF DmemReq(in) = NoReq THEN {TRUE} ELSE BOOLEAN
WalkEnds == IF fe.walk THEN BOOLEAN ELSE {FALSE}

Dispatching(br) == IF CanDispatch /\ ~br.mis THEN BOOLEAN ELSE {FALSE}

Next ==
    \E exe \in Issues, br \in Resolutions :
    \E rel \in Releases(exe), dis \in Dispatching(br) :
          LET fire == WillFire(exe, rel) IN
          \E tlb \in TlbAnswers(fire), s2 \in Answers(br, rel), walk \in WalkEnds :
          \E mshr \in Refills(s2) :
             LET in == [exe |-> exe, br |-> br, dis |-> dis, rel |-> rel, fire |-> fire,
                        tlb |-> tlb, s2 |-> s2, walk |-> walk, mshr |-> mshr] IN
             /\ trouble + Cost(in) <= MaxTrouble
             /\ \E ready \in Readiness(in) : Cycle(in, ready)

Spec == Init /\ [][Next]_vars

-----------------------------------------------------------------------------
(* Properties. *)

\* The place of a write in the order of the writes to l: those in memory, then those
\* that are still in stq, which follow in program order.
Rank(w, l) == LET S == {i \in DOMAIN memory[l] : memory[l][i] = w}
              IN IF S = {} THEN Len(memory[l]) + w ELSE CHOOSE i \in S : \A j \in S : j <= i

\* What commits is coherent (lsu.scala 1087-1152): per location, loads and stores of this
\* core see the writes of all harts in one order that agrees with program order,
\* although loads are answered in any order, by the cache, by an older store or late,
\* and the line may have been away in between.  A violation takes a load that was
\* answered too early and a search that did not find it.
Coherent ==
    \A j, k \in DOMAIN done : j < k =>
       \A l \in DOMAIN done[j].val \cap DOMAIN done[k].val :
          /\ Rank(done[j].val[l], l) <= Rank(done[k].val[l], l)
          /\ IsOp(done[k].p, "st") => Rank(done[j].val[l], l) < Rank(done[k].val[l], l)

Committed == {done[i].p : i \in DOMAIN done}
InStq == {stq[i].p : i \in {j \in Stq : stq[j].com}}
InCache == {dc.pend[i].p : i \in {j \in DOMAIN dc.pend : dc.pend[j].k = "st"}}
Own(l) == {memory[l][i] : i \in DOMAIN memory[l]} \cap 1..(External - 1)

\* What reaches memory is right (lsu.scala 503-531, 1314-1319, 1511-1535): no
\* store is written before it commits, none is lost between its commit and its write
\* whatever the cache refuses, the writes of a location are in program order, and an
\* uncacheable load goes out only when nothing older can fail, after the stores before it.
WritesRight ==
    /\ \A l \in Locs : \A i, j \in DOMAIN memory[l] :
          {memory[l][i], memory[l][j]} \subseteq Own(l) /\ i < j => memory[l][i] < memory[l][j]
    /\ \A l \in Locs : \A p \in Own(l) :
          /\ \/ p \in Committed
             \/ IsOp(p, "ld") /\ rob # <<>> /\ Oldest.p = p /\ ~Oldest.xc
          /\ \A w \in Committed : w < p /\ IsOp(w, "st") /\ l \in Loc(w) => w \in Own(l)
    /\ \A w \in Committed : IsOp(w, "st") =>
          w \in InStq \cup InCache \/ \A l \in Loc(w) : w \in Own(l)

\* The assertions of lsu.scala (222-226, 319-346, 785-815, 861-895, 1310, 1434, 1476-1478)
\* and those of the ROB on late write-backs (rob.scala 363-371, 508-526) hold, though
\* nacks, kills, flushes and retries of one operation meet in any order.
AssertionsHold == broken = {}

\* Nothing waits for ever (lsu.scala 1210-1231, "Avoid deadlock with a 1-w LSU"): with
\* nothing left to do outside the LSU, it drains within Patience cycles, although
\* wakeups go before store commits and a load may have to wait for such a store.
DrainsInTime == quiet < Patience
=============================================================================
