-------------------------------- MODULE Rob --------------------------------
(***************************************************************************)
(* The reorder buffer (rob.scala): a ring of rows with one bank per slot   *)
(* of the dispatch packet.  It keeps no age: order, fullness, rollback and *)
(* exceptions all rest on the pointers rob_head, rob_tail and rob_pnr,     *)
(* the hint maybe_full, partial rows and the one remembered exception.     *)
(*                                                                         *)
(* One step is one clock cycle.  Dispatch (core.scala), the execution      *)
(* units and the LSU are nondeterministic within what they guarantee.      *)
(***************************************************************************)
EXTENDS Integers, FiniteSets

CONSTANTS CoreWidth,  \* coreWidth
          NumRows,    \* numRobRows
          MaxBrCount, \* maxBrCount
          Ports,      \* numWakeupPorts: writebacks and branch resolutions per cycle
          Mixes       \* sets of AllKinds; a behaviour dispatches the kinds of one of them

\* A load can fault or fail memory ordering, a store can fault; "xcpt" carries
\* an exception from decode; "uniq" is is_unique and flush_on_commit.
AllKinds == {"alu", "load", "store", "br", "xcpt", "uniq"}

ASSUME RobAssumption ==
    /\ CoreWidth \in Nat \ {0} /\ NumRows \in Nat \ {0, 1} /\ MaxBrCount \in Nat \ {0}
    /\ Ports \in Nat \ {0} /\ Mixes \subseteq SUBSET AllKinds

Rows  == 0..(NumRows - 1)
Banks == 0..(CoreWidth - 1)
Tags  == 1..MaxBrCount
NoEnt == [k |-> "none"]
NoXcpt == [val |-> FALSE, pos |-> <<0, 0>>, br_mask |-> {}]

VARIABLES ent,             \* rob_val, rob_bsy, rob_unsafe, rob_exception, rob_uop
          rob_state,       \* "reset", "normal", "rollback", "wait_till_empty"
          rob_head, rob_head_lsb, rob_tail, rob_tail_lsb, rob_pnr, rob_pnr_lsb,
          maybe_full, r_partial_row, pnr_maybe_at_tail,
          r_xcpt,          \* r_xcpt_val and r_xcpt_uop
          thrown1, thrown2,\* exception_thrown one and two cycles ago
          flush1,          \* io.flush.valid one cycle ago
          b1, b2,          \* brupdate
          kinds,           \* the kinds of uop of this behaviour
          pkt,             \* what is left of the packet in dispatch
          order            \* history: <<p, q>> if p and q are in flight and q is not
                           \* before p in program order

ptrs == <<rob_head, rob_head_lsb, rob_tail, rob_tail_lsb, rob_pnr, rob_pnr_lsb,
          maybe_full, r_partial_row, pnr_maybe_at_tail>>
vars == <<ent, rob_state, ptrs, r_xcpt, thrown1, thrown2, flush1, b1, b2, kinds, pkt, order>>

Val(r, w) == ent[r, w].k # "none"
Valid == {p \in Rows \X Banks : ent[p].k # "none"}
IsUnique(k) == k = "uniq"

WrapInc(r) == (r + 1) % NumRows
WrapDec(r) == (r + NumRows - 1) % NumRows
Idx(r, w) == r * CoreWidth + w
IdxOf(p) == Idx(p[1], p[2])
SetMin(S) == CHOOSE x \in S : \A y \in S : x <= y

\* (i0 < i1) ^ (i0 < head) ^ (i1 < head)
IsOlder(i0, i1, head) == ((i0 < i1) # (i0 < head)) # (i1 < head)

HeadIdx == Idx(rob_head, rob_head_lsb)
HeadVals == {w \in Banks : Val(rob_head, w)}

Full  == rob_tail = rob_head /\ maybe_full
Empty == rob_head = rob_tail /\ HeadVals = {}
Ready == rob_state = "normal" /\ ~Full /\ ~r_xcpt.val

Killed(p) == ent[p].br_mask \cap b1.mis # {}

-----------------------------------------------------------------------------
(* Dispatch (core.scala 963-1012).  extra is the first slot that stalls for
   a reason outside of the ROB. *)

RedirectFlush == flush1 \/ b2.mispredict \/ r_xcpt.val \/ b1.mis # {}

Waiting(p) == ent[p].k = "br" /\ ent[p].st = "wait"
HeldTags == {ent[p].br_tag : p \in {q \in Valid : Waiting(q)}} \cup b1.res
BrMask == {ent[p].br_tag : p \in {q \in Valid : Waiting(q)}}

\* The tags that the branches of the packet in front of slot w get: as many of
\* the lowest free ones as there are branches.
FreeTags == Tags \ HeldTags
Below(S, x) == Cardinality({y \in S : y < x})
PktTags(w) == {t \in FreeTags : Below(FreeTags, t) < Below({v \in Banks : pkt[v] = "br"}, w)}

DisHazard(w, extra) ==
    /\ pkt[w] # "none"
    /\ \/ ~Ready
       \/ IsUnique(pkt[w]) /\ (~Empty \/ \E v \in 0..(w - 1) : pkt[v] # "none")
       \/ \E v \in 0..(w - 1) : IsUnique(pkt[v])
       \/ RedirectFlush
       \/ pkt[w] = "br" /\ FreeTags \subseteq PktTags(w)
       \/ w >= extra

Stalled(extra) == \E w \in Banks : DisHazard(w, extra)      \* enq_partial_stall
EnqValids(extra) == {w \in Banks : pkt[w] # "none" /\ \A v \in 0..w : ~DisHazard(v, extra)}

NewEnt(w) ==
    [k |-> pkt[w], bsy |-> TRUE, unsafe |-> pkt[w] \in {"load", "store", "br"},
     exc |-> pkt[w] = "xcpt", st |-> "wait", br_mask |-> BrMask \cup PktTags(w),
     br_tag |-> IF pkt[w] = "br" THEN SetMin(FreeTags \ PktTags(w)) ELSE 0]

-----------------------------------------------------------------------------
(* Commit.  stall is csr_stall. *)

CanCommit(w, stall) == Val(rob_head, w) /\ ~ent[rob_head, w].bsy /\ ~stall
CanThrow(w) == Val(rob_head, w) /\ ent[rob_head, w].exc

BlockCommit(w, stall) ==
    \/ rob_state \notin {"normal", "wait_till_empty"} \/ thrown1 \/ thrown2
    \/ \E v \in 0..(w - 1) : Val(rob_head, v) /\ (~CanCommit(v, stall) \/ CanThrow(v))

\* Mutant: a bank does not wait for the banks before it.
WillCommit_Any(stall) == {w \in Banks : CanCommit(w, stall) /\ ~CanThrow(w)}

WillCommit(stall) ==
    {w \in Banks : CanCommit(w, stall) /\ ~CanThrow(w) /\ ~BlockCommit(w, stall)}

ExceptionThrown(stall) ==
    \E w \in Banks : CanThrow(w) /\ ~BlockCommit(w, stall) /\ w - 1 \notin WillCommit(stall)

FlushVal(stall) ==
    \/ ExceptionThrown(stall)
    \/ \E w \in WillCommit(stall) : ent[rob_head, w].k = "uniq"

\* Mutant: a full ROB rolls back the row at the tail, which is the oldest one.
RbkRow_Always == rob_state = "rollback"

\* Don't roll back the tail's row when the ROB is full.
RbkRow == rob_state = "rollback" /\ ~Full

-----------------------------------------------------------------------------
(* The remembered exception.  lx is the entry for which the LSU raises an
   exception, or <<>>. *)

NextXcpt(lx, enq, stall) ==
    LET enqx == {w \in enq : pkt[w] = "xcpt"}
    IN  IF FlushVal(stall) \/ rob_state = "rollback" THEN r_xcpt
        ELSE IF lx # <<>>
        THEN IF ~r_xcpt.val \/ IsOlder(IdxOf(lx), IdxOf(r_xcpt.pos), HeadIdx)
             THEN [val |-> TRUE, pos |-> lx, br_mask |-> ent[lx].br_mask] ELSE r_xcpt
        ELSE IF ~r_xcpt.val /\ enqx # {}
        THEN [val |-> TRUE, pos |-> <<rob_tail, SetMin(enqx)>>,
              br_mask |-> NewEnt(SetMin(enqx)).br_mask]
        ELSE r_xcpt

\* Mutant: the latest exception is kept, not the oldest.
XcptAfter_Latest(lx, enq, stall) ==
    IF FlushVal(stall) \/ rob_state = "rollback" THEN NoXcpt
    ELSE IF lx # <<>> THEN [val |-> TRUE, pos |-> lx, br_mask |-> ent[lx].br_mask \ b1.res]
    ELSE IF NextXcpt(lx, enq, stall).br_mask \cap b1.mis # {} THEN NoXcpt
    ELSE [NextXcpt(lx, enq, stall) EXCEPT !.br_mask = @ \ b1.res]

XcptAfter(lx, enq, stall) ==
    LET n == NextXcpt(lx, enq, stall)
    IN  IF ~n.val \/ FlushVal(stall) \/ n.br_mask \cap b1.mis # {} THEN NoXcpt
        ELSE [n EXCEPT !.br_mask = @ \ b1.res]

-----------------------------------------------------------------------------
(* Head, tail, fullness and the point of no return. *)

FinishedRow(stall) ==
    /\ WillCommit(stall) # {} /\ WillCommit(stall) = HeadVals
    /\ ~(r_partial_row /\ rob_head = rob_tail /\ ~maybe_full)

\* Mutant: a full ROB looks empty to the rollback.
RollbackARow_NoHint == rob_state = "rollback" /\ rob_tail # rob_head

RollbackARow == rob_state = "rollback" /\ (rob_tail # rob_head \/ maybe_full)

RobDeq(stall) == FinishedRow(stall) \/ RollbackARow
RobEnq(enq, part) == ~RollbackARow /\ rob_state # "rollback" /\ ~b2.mispredict
                        /\ enq # {} /\ ~part

HeadAfter(stall) ==
    /\ rob_head' = IF FinishedRow(stall) THEN WrapInc(rob_head) ELSE rob_head
    /\ rob_head_lsb' = IF FinishedRow(stall) \/ HeadVals = {} THEN 0 ELSE SetMin(HeadVals)

TailAfter(enq, part) ==
    \/ /\ RollbackARow
       /\ rob_tail' = WrapDec(rob_tail) /\ rob_tail_lsb' = CoreWidth - 1
    \/ /\ rob_state = "rollback" /\ ~RollbackARow
       /\ rob_tail' = rob_tail /\ rob_tail_lsb' = rob_head_lsb
    \/ /\ rob_state # "rollback" /\ b2.mispredict
       /\ rob_tail' = WrapInc(b2.pos[1]) /\ rob_tail_lsb' = 0
    \/ /\ RobEnq(enq, part)
       /\ rob_tail' = WrapInc(rob_tail) /\ rob_tail_lsb' = 0
    \/ /\ rob_state # "rollback" /\ ~b2.mispredict /\ enq # {} /\ part
       /\ rob_tail' = rob_tail
       /\ rob_tail_lsb' = 1 + CHOOSE w \in enq : \A v \in enq : v <= w
    \/ /\ rob_state # "rollback" /\ ~b2.mispredict /\ enq = {}
       /\ UNCHANGED <<rob_tail, rob_tail_lsb>>

\* Mutant: dispatch does not make the ROB full.
MaybeFullAfter_NoEnq(enq, part, stall) ==
    (~RobDeq(stall) /\ maybe_full) \/ b1.mis # {}

MaybeFullAfter(enq, part, stall) ==
    (~RobDeq(stall) /\ (RobEnq(enq, part) \/ maybe_full)) \/ b1.mis # {}

PnrUnsafe == {w \in Banks : Val(rob_pnr, w) /\ (ent[rob_pnr, w].unsafe \/ ent[rob_pnr, w].exc)}
SafeToInc == rob_state \in {"normal", "wait_till_empty"}
PnrBehind == rob_pnr # rob_tail \/ (Full /\ ~pnr_maybe_at_tail)
DoIncRow == PnrUnsafe = {} /\ PnrBehind

\* PriorityEncoder: the last bank if there is none.
PriorityEncoder(S) == IF S = {} THEN CoreWidth - 1 ELSE SetMin(S)

PnrAfter(enq, stall) ==
    /\ pnr_maybe_at_tail' = (~RobDeq(stall) /\ (DoIncRow \/ pnr_maybe_at_tail))
    /\ IF Empty /\ enq # {}
       THEN rob_pnr' = rob_head /\ rob_pnr_lsb' = SetMin(enq)
       ELSE IF SafeToInc /\ DoIncRow
       THEN rob_pnr' = WrapInc(rob_pnr) /\ rob_pnr_lsb' = 0
       ELSE /\ rob_pnr' = rob_pnr
            /\ rob_pnr_lsb' =
                 IF SafeToInc /\ PnrBehind THEN PriorityEncoder(PnrUnsafe)
                 ELSE IF SafeToInc /\ ~Full /\ ~Empty
                 THEN PriorityEncoder(PnrUnsafe \cup
                          {w \in Banks : \A v \in w..(CoreWidth - 1) : ~Val(rob_tail, v)})
                 ELSE IF Full /\ pnr_maybe_at_tail THEN 0 ELSE rob_pnr_lsb

StateAfter(enq) ==
    CASE rob_state = "reset" -> "normal"
      [] rob_state = "normal" ->
            IF thrown2 THEN "rollback"
            ELSE IF \E w \in enq : IsUnique(pkt[w]) THEN "wait_till_empty" ELSE "normal"
      [] rob_state = "rollback" -> IF Empty THEN "normal" ELSE "rollback"
      [] rob_state = "wait_till_empty" ->
            IF thrown1 THEN "rollback" ELSE IF Empty THEN "normal" ELSE "wait_till_empty"

-----------------------------------------------------------------------------
(* Execution units and LSU. *)

InFlight == {p \in Rows \X Banks : <<p, p>> \in order}
Before(p) == {q \in InFlight : <<q, p>> \in order /\ q # p}

\* A branch writes back after it has resolved.
CanWriteback == {p \in Valid : ent[p].bsy /\ ~ent[p].exc /\ ~Killed(p) /\ ~Waiting(p)
                                 /\ rob_state # "rollback" /\ ~thrown2}

CanResolve(stall) ==
    IF FlushVal(stall) \/ flush1 \/ thrown2 \/ rob_state = "rollback" THEN {}
    ELSE {p \in Valid : Waiting(p) /\ ~Killed(p)}

\* The LSU faults an access it has not done, or finds that a load it has done
\* should have waited for an older access, which is still busy then.
CanFault ==
    IF flush1 \/ thrown2 \/ rob_state = "rollback" THEN {}
    ELSE {p \in Valid : /\ ent[p].k \in {"load", "store"} /\ ~ent[p].exc /\ ~Killed(p)
                        /\ \/ ent[p].bsy
                           \/ /\ ent[p].k = "load"
                              /\ \E q \in Before(p) : ent[q].k \in {"load", "store"} /\ ent[q].bsy}

EntAfter(enq, stall, E, R, lx) ==
    [p \in Rows \X Banks |->
        IF p[1] = rob_tail /\ p[2] \in enq THEN NewEnt(p[2])
        ELSE IF \/ p \notin Valid
                \/ Killed(p)
                \/ p[1] = rob_head /\ p[2] \in WillCommit(stall)
                \/ RbkRow /\ p[1] = rob_tail
        THEN NoEnt
        ELSE [ent[p] EXCEPT !.bsy = @ /\ p \notin E, !.unsafe = @ /\ p \notin E,
                            !.exc = @ \/ p = lx, !.br_mask = @ \ b1.res,
                            !.st = IF p \in R THEN "resolved" ELSE @]]

\* The oldest misprediction of b1 (core.scala 199-216).
Mispredicted == {p \in b1.pos : ent[p].br_tag \in b1.mis}
OldestMis ==
    CHOOSE p \in Mispredicted :
        \A q \in Mispredicted \ {p} : IsOlder(IdxOf(p), IdxOf(q), HeadIdx)

\* Program order: dispatch appends a packet, commit, kill and rollback remove.
Squashed(p) == Before(p) \cap Mispredicted # {}

Stays(p, stall) ==
    ~Squashed(p) /\ ~(p[1] = rob_head /\ p[2] \in WillCommit(stall)) /\ ~(RbkRow /\ p[1] = rob_tail)

OrderAfter(enq, stall) ==
    LET keep == {p \in InFlight : Stays(p, stall)}
        new  == {rob_tail} \X enq
        left == keep \cup new
    IN  {e \in left \X left :
            \/ e \in order
            \/ e[2] \in new /\ (e[1] \in keep \/ e[1][2] <= e[2][2])}

-----------------------------------------------------------------------------
\* A packet fills the slots lo..hi.
Packets == {[w \in Banks |-> IF w \in lo..hi THEN f[w] ELSE "none"] :
               lo \in Banks, hi \in Banks, f \in [Banks -> kinds]}
NoPkt == [w \in Banks |-> "none"]

Init ==
    /\ ent = [p \in Rows \X Banks |-> NoEnt]
    /\ rob_state = "reset"
    /\ rob_head = 0 /\ rob_head_lsb = 0 /\ rob_tail = 0 /\ rob_tail_lsb = 0
    /\ rob_pnr = 0 /\ rob_pnr_lsb = 0
    /\ maybe_full = FALSE /\ r_partial_row = FALSE /\ pnr_maybe_at_tail = FALSE
    /\ r_xcpt = NoXcpt
    /\ thrown1 = FALSE /\ thrown2 = FALSE /\ flush1 = FALSE
    /\ b1 = [res |-> {}, mis |-> {}, pos |-> {}]
    /\ b2 = [mispredict |-> FALSE, pos |-> <<0, 0>>]
    /\ kinds \in Mixes /\ pkt = NoPkt
    /\ order = {}

Cycle(extra, stall, E, R, M, lx) ==
    LET enq  == EnqValids(extra)
        part == Stalled(extra)
    IN
    /\ ent' = EntAfter(enq, stall, E, R, lx)
    /\ rob_state' = StateAfter(enq)
    /\ HeadAfter(stall) /\ TailAfter(enq, part) /\ PnrAfter(enq, stall)
    /\ maybe_full' = MaybeFullAfter(enq, part, stall)
    /\ r_partial_row' = IF enq # {} THEN part ELSE r_partial_row
    /\ r_xcpt' = XcptAfter(lx, enq, stall)
    /\ thrown1' = ExceptionThrown(stall) /\ thrown2' = thrown1
    /\ flush1' = FlushVal(stall)
    /\ b1' = [res |-> {ent[p].br_tag : p \in R}, mis |-> {ent[p].br_tag : p \in M}, pos |-> R]
    /\ b2' = IF b1.mis = {} THEN [mispredict |-> FALSE, pos |-> <<0, 0>>]
             ELSE [mispredict |-> TRUE, pos |-> OldestMis]
    /\ IF RedirectFlush THEN pkt' = NoPkt
       ELSE IF part THEN pkt' = [w \in Banks |-> IF w \in enq THEN "none" ELSE pkt[w]]
       ELSE pkt' \in Packets \cup {NoPkt}
    /\ UNCHANGED kinds
    /\ order' = OrderAfter(enq, stall)

AtMost(n, S) == {T \in SUBSET S : Cardinality(T) <= n}

Next ==
    \E extra \in {CoreWidth} \cup EnqValids(CoreWidth),      \* stalls that stall something
       stall \in {FALSE} \cup {CanCommit(w, FALSE) : w \in Banks} :
      \E E \in AtMost(Ports, CanWriteback), R \in AtMost(Ports, CanResolve(stall)),
         lx \in CanFault \cup {<<>>} :
        \E M \in SUBSET R : lx \notin E /\ Cycle(extra, stall, E, R, M, lx)

Spec == Init /\ [][Next]_vars

\* The clock does not stop while the ROB rolls back.  Nothing else is asked to
\* happen, so fairness is stated for no other cycle.
FairSpec == Spec /\ WF_vars(rob_state = "rollback" /\ Next)

-----------------------------------------------------------------------------
\* The ring is a queue in program order: the valid entries are the uops in
\* flight, and walking the rows from the head meets them oldest first, whatever
\* partial rows, mispredictions and rollbacks did to the pointers
\* (rob.scala 685-797).
Dist(r) == (r + NumRows - rob_head) % NumRows
Age(p) == Dist(p[1]) * CoreWidth + p[2]

QueueOrder == order = {e \in Valid \X Valid : Age(e[1]) <= Age(e[2])}

\* Dispatch never writes over an entry in use (rob.scala 336, assertion
\* "overwriting a valid entry"), although maybe_full is only a hint.
NoOverwrite == \A w \in EnqValids(CoreWidth) : ~Val(rob_tail, w)

\* What commits is the oldest in program order and all of it is older than
\* what stays; nothing commits in the shadow of a misprediction.
CommitInOrder ==
    \A stall \in BOOLEAN : \A w \in WillCommit(stall) :
        /\ \A q \in Before(<<rob_head, w>>) : q[1] = rob_head /\ q[2] \in WillCommit(stall)
        /\ ~Killed(<<rob_head, w>>)

\* The exception that is thrown is the one that was remembered, i.e. the oldest
\* (rob.scala 667-675, the three assertions there).
XcptRight ==
    /\ \A stall \in BOOLEAN : ExceptionThrown(stall) =>
           r_xcpt.val /\ r_xcpt.pos = <<rob_head, SetMin(HeadVals)>>
    /\ ~(Empty /\ r_xcpt.val)

\* Rollback undoes the youngest first and ends with nothing in flight.
RollbackRight ==
    /\ RbkRow => \A e \in order : e[1][1] = rob_tail => e[2][1] = rob_tail
    /\ rob_state = "rollback" /\ Empty => order = {}
    /\ rob_state = "rollback" => b1.mis = {} /\ ~b2.mispredict

\* A uop that flushes the pipeline when it commits is alone in the ROB, so the
\* flush, which rolls nothing back, loses nothing (core.scala 643-646).
FlushAlone == \A p \in Valid : ent[p].k = "uniq" => Valid = {p}

\* The point of no return stays between head and tail (rob.scala 749-752, the
\* two assertions there).
PnrBetween ==
    LET pnr  == Idx(rob_pnr, rob_pnr_lsb)
        tail == Idx(rob_tail, rob_tail_lsb)
    IN  /\ ~IsOlder(pnr, HeadIdx, tail) \/ pnr = tail
        /\ ~IsOlder(tail, pnr, HeadIdx) \/ Full

\* The ring is a queue in program order with three pointers in the right order, and
\* dispatch finds a free entry, however rows are filled in parts, killed and emptied
\* (rob.scala 690-810).
RingRight == QueueOrder /\ NoOverwrite /\ PnrBetween

\* Commit takes a prefix of the program, and one that flushes the pipeline leaves
\* nothing behind (rob.scala 540-562, core.scala 643-646).
CommitRight == CommitInOrder /\ FlushAlone

\* A rollback ends.
RollbackEnds == rob_state = "rollback" ~> rob_state = "normal"
=============================================================================
