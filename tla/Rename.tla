------------------------------- MODULE Rename -------------------------------
(***************************************************************************)
(* Register renaming in the BOOM core: branch tags (decode.scala), the     *)
(* rename stage with map table, free list and busy table (rename/), and    *)
(* what they see of the rest: dispatch into the ROB, writeback, commit,    *)
(* branch resolution in two cycles (b1 kills, b2 restores) and the         *)
(* rollback of the ROB after an exception.                                 *)
(*                                                                         *)
(* One step is one clock cycle.  Uops are nondeterministic: each has one   *)
(* source, maybe a destination, and may be a branch or raise an exception. *)
(* The ROB is a sequence here; its pointers are modelled in Rob.           *)
(***************************************************************************)
EXTENDS Naturals, Sequences, FiniteSets

CONSTANTS PlWidth,    \* plWidth: uops per cycle
          Lregs,      \* logical registers other than x0, a set of positive numbers
          NumPregs,   \* numPregs: physical registers 0..NumPregs-1; 0 is never allocated
          MaxBrCount, \* maxBrCount: branch tags
          RobSize     \* numRobEntries

ASSUME RenameAssumption ==
    /\ PlWidth \in Nat \ {0} /\ NumPregs \in Nat \ {0} /\ MaxBrCount \in Nat \ {0}
    /\ RobSize \in Nat \ {0}
    /\ Lregs \subseteq Nat \ {0} /\ Lregs # {} /\ IsFiniteSet(Lregs)

Slots == 1..PlWidth
Pregs == 0..(NumPregs - 1)
Tags  == 1..MaxBrCount
NoUop == [k |-> "none"]

VARIABLES map_table,      \* logical -> physical register
          br_snapshots,   \* per branch tag: map table at that branch
          free_list,      \* set of free physical registers
          alloc_pregs,    \* per slot: register selected ahead of time, 0 if invalid
          br_alloc_lists, \* per branch tag: registers allocated since that branch
          busy_table,     \* set of physical registers whose value is not written yet
          branch_mask,    \* branch tags in use, as decode sees them
          ren2,           \* per slot: uop between decode and dispatch, or NoUop
          rob,            \* dispatched uops, oldest first
          b1,             \* branch tags resolved and mispredicted (brinfos)
          b2,             \* the oldest misprediction, one cycle later
          rstate,         \* "normal"; "x1", "x2" after an exception; "rollback"
          arch_map        \* history: the map table at the commit point

vars == <<map_table, br_snapshots, free_list, alloc_pregs, br_alloc_lists, busy_table,
          branch_mask, ren2, rob, b1, b2, rstate, arch_map>>

-----------------------------------------------------------------------------
(* What decode may see: a uop without or with a destination, a branch, or a
   uop that will raise an exception. *)

UopKinds == [k : {"op"}, ldst : Lregs \cup {0}, lrs1 : Lregs]
              \cup [k : {"br", "xcpt"}, ldst : {0}, lrs1 : {CHOOSE l \in Lregs : TRUE}]

IsUop(u) == u.k # "none"
IsBr(u)  == u.k = "br"
Writes(u) == u.k = "op" /\ u.ldst # 0      \* ldst_val && dst_rtype === RT_FIX

Least(S)    == CHOOSE x \in S : \A y \in S : x <= y
Greatest(S) == CHOOSE x \in S : \A y \in S : y <= x

\* The element of S with n - 1 smaller ones (SelectFirstN, PriorityEncoder).
Nth(S, n) == CHOOSE x \in S : Cardinality({y \in S : y < x}) = n - 1

-----------------------------------------------------------------------------
(* Dispatch: which slots of ren2 leave in this cycle. *)

Mispredicting == b1.mis # {} \/ b2.mispredict
XcptPending   == rstate = "normal" /\ \E j \in 1..Len(rob) : rob[j].k = "xcpt"  \* r_xcpt_val
Redirecting   == Mispredicting \/ rstate = "x1" \/ XcptPending      \* redirect_flush

RobReady(n) == rstate = "normal" /\ ~XcptPending /\ Len(rob) + n <= RobSize

\* extra: first slot that stalls for a reason outside of rename.
DisHazard(w, extra) ==
    /\ IsUop(ren2[w])
    /\ \/ ~RobReady(w)
       \/ Writes(ren2[w]) /\ alloc_pregs[w] = 0       \* ren_stalls
       \/ Redirecting
       \/ w >= extra

DisFire(extra) == {w \in Slots : IsUop(ren2[w]) /\ \A v \in 1..w : ~DisHazard(v, extra)}
DisReady(extra) == \A w \in Slots : ~DisHazard(w, extra)

AllocReqs(fire) == {w \in fire : Writes(ren2[w])}

\* Mutant: the oldest uop of the bundle wins.
Bypass_Oldest(old, lreg, S) ==
    LET hits == {v \in S : ren2[v].ldst = lreg}
    IN  IF hits = {} THEN old ELSE alloc_pregs[Least(hits)]

\* BypassAllocations: the youngest uop of S that writes the register wins.
Bypass(old, lreg, S) ==
    LET hits == {v \in S : ren2[v].ldst = lreg}
    IN  IF hits = {} THEN old ELSE alloc_pregs[Greatest(hits)]

Bypassed(u, S) ==
    IF ~IsUop(u) THEN u
    ELSE [u EXCEPT !.prs1 = Bypass(@, u.lrs1, S),
                   !.stale_pdst = IF Writes(u) THEN Bypass(@, u.ldst, S) ELSE @,
                   !.br_mask = @ \ b1.res]

\* A uop as it is dispatched from slot w.
DisUop(w, fire) ==
    LET u == Bypassed(ren2[w], {v \in AllocReqs(fire) : v < w})
    IN  [u EXCEPT !.pdst = IF Writes(u) THEN alloc_pregs[w] ELSE 0]

-----------------------------------------------------------------------------
(* Decode: branch tags and masks, and the first map table lookup. *)

\* The branches of bundle B up to slot w take the lowest tags, in their order.
Branches(B, w) == Cardinality({v \in 1..w : IsBr(B[v])})
NewTag(n)      == Nth(Tags \ branch_mask, n)

\* The tags in use in front of slot w of bundle B.
MaskBefore(B, w) == branch_mask \cup {NewTag(n) : n \in 1..Branches(B, w - 1)}

BranchMaskFull(B, w) == IsBr(B[w]) /\ Cardinality(Tags \ branch_mask) < Branches(B, w)

DecUop(B, w) ==
    IF ~IsUop(B[w]) THEN NoUop
    ELSE [k |-> B[w].k, ldst |-> B[w].ldst, lrs1 |-> B[w].lrs1,
          br_tag  |-> IF IsBr(B[w]) THEN NewTag(Branches(B, w)) ELSE 0,
          br_mask |-> MaskBefore(B, w),
          prs1 |-> map_table[B[w].lrs1],
          stale_pdst |-> IF Writes(B[w]) THEN map_table[B[w].ldst] ELSE 0,
          pdst |-> 0, st |-> "wait"]

\* The frontend, redirected in "x1", has nothing to decode in "x2" yet.
CanDecode(B, extra) ==
    \/ \A w \in Slots : ~IsUop(B[w])
    \/ /\ DisReady(extra) /\ rstate = "normal" /\ ~Redirecting
       /\ \A w \in Slots : ~BranchMaskFull(B, w)

-----------------------------------------------------------------------------
(* Commit and rollback. *)

CommitCounts == {n \in 0..PlWidth :
    /\ n <= Len(rob)
    /\ n > 0 => rstate = "normal"
    /\ \A j \in 1..n : rob[j].st = "done"}

Throws == rstate = "normal" /\ rob # <<>> /\ rob[1].k = "xcpt"

\* The row that is rolled back: the youngest uops, from the tail.
RollbackCount == IF rstate # "rollback" THEN 0
                 ELSE IF Len(rob) < PlWidth THEN Len(rob) ELSE PlWidth

Deallocs(c) ==
    {rob[j].stale_pdst : j \in {i \in 1..c : Writes(rob[i])}}
        \cup {rob[j].pdst : j \in {i \in (Len(rob) - RollbackCount + 1)..Len(rob) : Writes(rob[i])}}

Killed(u) == u.br_mask \cap b1.mis # {}

-----------------------------------------------------------------------------
(* Map table. *)

\* m with the mappings of the uops us[w], w \in S: the last one for a register wins.
Remapped(m, us, S) ==
    [l \in Lregs |-> LET hits == {w \in S : Writes(us[w]) /\ us[w].ldst = l}
                     IN  IF hits = {} THEN m[l] ELSE us[Greatest(hits)].pdst]

\* What dispatches; what is rolled back, with the registers to return to.
DisRow(fire) == [w \in Slots |-> IF w \in fire THEN DisUop(w, fire) ELSE NoUop]
RbkRow == [w \in Slots |-> LET u == rob[Len(rob) + 1 - w]
                           IN  IF w <= RollbackCount THEN [u EXCEPT !.pdst = u.stale_pdst]
                               ELSE NoUop]

\* The map table behind the slots of S (remap_table).
RemapTable(fire, S) ==
    Remapped(map_table, IF rstate = "rollback" THEN RbkRow ELSE DisRow(fire), S)

MapTableAfter(fire) ==
    IF b2.mispredict THEN br_snapshots[b2.tag] ELSE RemapTable(fire, Slots)

\* The slot that dispatches the branch with tag t; 0 if there is none.
BranchSlot(fire, t) ==
    LET S == {w \in fire : IsBr(ren2[w]) /\ ren2[w].br_tag = t}
    IN  IF S = {} THEN 0 ELSE Least(S)

\* Mutant: the snapshot holds the whole bundle, not what is before the branch.
SnapshotsAfter_Bundle(fire) ==
    [t \in Tags |-> IF BranchSlot(fire, t) = 0 THEN br_snapshots[t] ELSE RemapTable(fire, Slots)]

SnapshotsAfter(fire) ==
    [t \in Tags |-> LET w == BranchSlot(fire, t)
                    IN  IF w = 0 THEN br_snapshots[t] ELSE RemapTable(fire, 1..w)]

-----------------------------------------------------------------------------
(* Free list. *)

\* The w-th lowest free register, 0 if there is none.
Sel(w) == IF w <= Cardinality(free_list) THEN Nth(free_list, w) ELSE 0

SelFire(fire) == {w \in Slots : Sel(w) # 0 /\ (alloc_pregs[w] = 0 \/ w \in AllocReqs(fire))}

AllocsFrom(fire, S) == {alloc_pregs[w] : w \in AllocReqs(fire) \cap S}

BrDeallocs == IF b2.mispredict THEN br_alloc_lists[b2.tag] ELSE {}

FreeListAfter(fire, c) ==
    ((free_list \ {Sel(w) : w \in SelFire(fire)}) \cup Deallocs(c) \cup BrDeallocs) \ {0}

AllocPregsAfter(fire) ==
    [w \in Slots |-> IF w \in SelFire(fire) THEN Sel(w)
                     ELSE IF w \in AllocReqs(fire) THEN 0 ELSE alloc_pregs[w]]

\* Mutant: what the bundle allocates behind a branch is not on its list.
BrAllocListsAfter_Bundle(fire) ==
    [t \in Tags |-> IF BranchSlot(fire, t) # 0 THEN {}
                    ELSE (br_alloc_lists[t] \ BrDeallocs) \cup AllocsFrom(fire, Slots)]

BrAllocListsAfter(fire) ==
    [t \in Tags |-> LET w == BranchSlot(fire, t)
                    IN  IF w # 0 THEN AllocsFrom(fire, (w + 1)..PlWidth)
                        ELSE (br_alloc_lists[t] \ BrDeallocs) \cup AllocsFrom(fire, Slots)]

-----------------------------------------------------------------------------
(* Execution: the uops of E finish, the branches of R resolve, those of M of
   them mispredicted.  A branch can commit one cycle after b1. *)

CanFinish  == {j \in 1..Len(rob) : rob[j].k = "op" /\ rob[j].st = "wait" /\ ~Killed(rob[j])}
CanResolve == IF Throws \/ rstate # "normal" THEN {}
              ELSE {j \in 1..Len(rob) : IsBr(rob[j]) /\ rob[j].st = "wait" /\ ~Killed(rob[j])}

RobExec(E, R) ==
    [j \in 1..Len(rob) |->
        [rob[j] EXCEPT !.br_mask = @ \ b1.res,
                       !.st = IF j \in E THEN "done" ELSE IF j \in R THEN "resolved"
                              ELSE IF rob[j].st = "resolved" THEN "done" ELSE @]]

\* Mispredictions kill a suffix of the ROB (SurvivorsAre proves it): the new length.
Survivors == Least({n \in 0..Len(rob) : \A j \in (n + 1)..Len(rob) : Killed(rob[j])})

RobAfter(fire, c, E, R) ==
    SubSeq(RobExec(E, R), c + 1, Survivors - RollbackCount)
        \o [n \in 1..Cardinality(fire) |-> DisUop(Nth(fire, n), fire)]

-----------------------------------------------------------------------------
(* Busy table: writebacks clear, allocations set; then the branches. *)

\* Mutant: a writeback does not clear the busy bit.
BusyTableAfter_NoWakeup(fire, E) == busy_table \cup AllocsFrom(fire, Slots)

BusyTableAfter(fire, E) ==
    (busy_table \ {rob[j].pdst : j \in {i \in E : Writes(rob[i])}})
        \cup AllocsFrom(fire, Slots)

\* The oldest branch that mispredicted in the cycle before.
OldestMis == LET S == {j \in 1..Len(rob) : IsBr(rob[j]) /\ rob[j].br_tag \in b1.mis
                                              /\ rob[j].st = "resolved"}
             IN  rob[Least(S)]

B2After == IF b1.mis = {} THEN [mispredict |-> FALSE, tag |-> 0, br_mask |-> {}]
           ELSE [mispredict |-> TRUE, tag |-> OldestMis.br_tag,
                 br_mask |-> OldestMis.br_mask \ b1.res]

\* Mutant: a misprediction frees the tags of the branches before it too.
BranchMaskAfter_ClearAll(B) ==
    IF rstate = "x1" \/ b2.mispredict THEN {} ELSE MaskBefore(B, PlWidth + 1) \ b1.res

BranchMaskAfter(B) ==
    IF rstate = "x1" THEN {}
    ELSE (MaskBefore(B, PlWidth + 1) \ b1.res)
            \cap (IF b2.mispredict THEN b2.br_mask ELSE Tags)

RobStateAfter ==
    CASE Throws -> "x1"
      [] rstate = "x1" -> "x2"
      [] rstate = "x2" -> "rollback"
      [] rstate = "rollback" /\ rob = <<>> -> "normal"
      [] OTHER -> rstate

-----------------------------------------------------------------------------
Init ==
    /\ map_table = [l \in Lregs |-> 0]
    /\ br_snapshots = [t \in Tags |-> [l \in Lregs |-> 0]]
    /\ free_list = Pregs \ {0}
    /\ alloc_pregs = [w \in Slots |-> 0]
    /\ br_alloc_lists = [t \in Tags |-> {}]
    /\ busy_table = {} /\ branch_mask = {}
    /\ ren2 = [w \in Slots |-> NoUop]
    /\ rob = <<>> /\ rstate = "normal"
    /\ b1 = [res |-> {}, mis |-> {}]
    /\ b2 = [mispredict |-> FALSE, tag |-> 0, br_mask |-> {}]
    /\ arch_map = map_table

\* One clock cycle: B is what decode has, extra the first slot stalled from
\* outside, c the number of uops committed.
Cycle(B, extra, c, E, R, M) ==
    LET fire == DisFire(extra)
    IN
    /\ CanDecode(B, extra)
    /\ map_table' = MapTableAfter(fire)
    /\ br_snapshots' = SnapshotsAfter(fire)
    /\ free_list' = FreeListAfter(fire, c)
    /\ alloc_pregs' = AllocPregsAfter(fire)
    /\ br_alloc_lists' = BrAllocListsAfter(fire)
    /\ busy_table' = BusyTableAfter(fire, E)
    /\ branch_mask' = BranchMaskAfter(B)
    /\ ren2' = [w \in Slots |->
                   IF Redirecting THEN NoUop
                   ELSE IF DisReady(extra) THEN Bypassed(DecUop(B, w), AllocReqs(fire))
                   ELSE IF w \in fire THEN NoUop
                   ELSE Bypassed(ren2[w], AllocReqs(fire))]
    /\ rob' = RobAfter(fire, c, E, R)
    /\ b1' = [res |-> {rob[j].br_tag : j \in R}, mis |-> {rob[j].br_tag : j \in M}]
    /\ b2' = B2After
    /\ rstate' = RobStateAfter
    /\ arch_map' = Remapped(arch_map, rob, 1..c)

\* Stalls from outside that stall something, and none.
Stalls == {PlWidth + 1} \cup DisFire(PlWidth + 1)

Next ==
    \E B \in [Slots -> UopKinds \cup {NoUop}], extra \in Stalls, c \in CommitCounts,
       E \in SUBSET CanFinish, R \in SUBSET CanResolve :
        \E M \in SUBSET R : Cycle(B, extra, c, E, R, M)

Spec == Init /\ [][Next]_vars

-----------------------------------------------------------------------------
\* The map table as the program order defines it, in front of ROB entry n.
MapBefore(n) == Remapped(arch_map, rob, 1..(n - 1))

\* Renaming is right (rename-maptable.scala 81-109, rename-stage.scala 170-206):
\* whatever speculation was undone, the map table is the committed one updated
\* by the uops in flight, in program order.
MapTableRight == ~Mispredicting => map_table = MapBefore(Len(rob) + 1)

\* Every uop in flight reads the register its source was last renamed to before
\* it in program order, also through the bypasses of a bundle, and will return
\* the register its destination had before it.
OperandsRight ==
    \A j \in 1..Len(rob) :
        /\ rob[j].prs1 = MapBefore(j)[rob[j].lrs1]
        /\ Writes(rob[j]) => rob[j].stale_pdst = MapBefore(j)[rob[j].ldst]

\* The registers that hold a value: committed, or of a uop in flight.
Live == {arch_map[l] : l \in Lregs} \cup {rob[j].pdst : j \in {i \in 1..Len(rob) : Writes(rob[i])}}
Ahead == {alloc_pregs[w] : w \in Slots} \ {0}

\* No register is handed out while it holds a value, or twice
\* (rename-freelist.scala 94, assertion "Returning a free physical register").
NoDoubleUse ==
    /\ (free_list \cup Ahead) \cap Live = {}
    /\ free_list \cap Ahead = {}
    /\ \A v, w \in Slots : alloc_pregs[v] = alloc_pregs[w] /\ v # w => alloc_pregs[v] = 0

\* No register is lost: one that is neither free nor live belongs to a
\* misprediction that is being repaired (rename-freelist.scala 95, assertion
\* "Leaking physical registers").
NoLeak == Pregs \ {0} \subseteq free_list \cup Ahead \cup Live \cup BrDeallocs

\* Every register is free, ahead of its use or live, and only one of these, across
\* overlapping mispredictions, exceptions and tags that are reused
\* (rename-freelist.scala 60-110).
FreeListRight == NoDoubleUse /\ NoLeak

\* A register is busy exactly as long as its uop has not written it, so a uop
\* is neither issued too early nor left waiting (rename-busytable.scala 49-56).
BusyRight ==
    /\ \A l \in Lregs : arch_map[l] \notin busy_table
    /\ \A j \in 1..Len(rob) : Writes(rob[j]) =>
           (rob[j].pdst \in busy_table <=> rob[j].st = "wait")

Unresolved == {j \in 1..Len(rob) : IsBr(rob[j]) /\ rob[j].st = "wait"}

\* Two branches in flight never share a tag (decode.scala 767-812).
TagsUnique ==
    /\ \A i, j \in Unresolved : rob[i].br_tag = rob[j].br_tag => i = j
    /\ \A i \in Unresolved, w \in Slots : IsBr(ren2[w]) => ren2[w].br_tag # rob[i].br_tag
    /\ \A v, w \in Slots : IsBr(ren2[v]) /\ IsBr(ren2[w]) /\ ren2[v].br_tag = ren2[w].br_tag
                               => v = w

\* No tag is lost: unless an exception or a misprediction is about to reset the
\* mask, a tag is taken only by a branch that waits in rename or in the ROB
\* (decode.scala 795-812); a packet that a redirect drops from rename does not
\* take its tags with it for good.
NoTagLost ==
    ~Redirecting /\ rstate = "normal" =>
        branch_mask \ b1.res \subseteq {rob[i].br_tag : i \in Unresolved}
            \cup {ren2[w].br_tag : w \in {v \in Slots : IsBr(ren2[v])}}

\* Branch tags are right (decode.scala 765-813): whatever is killed, redirected
\* or resolved in the cycle a tag is handed out, two branches in flight never
\* have the same one, and a tag always comes back.
TagsRight == TagsUnique /\ NoTagLost
=============================================================================
