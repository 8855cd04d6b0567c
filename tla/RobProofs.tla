----------------------------- MODULE RobProofs -----------------------------
(***************************************************************************)
(* The ring of the reorder buffer is a queue in program order, commit,     *)
(* rollback and exceptions follow it, and the point of no return stays     *)
(* between its head and its tail, for any width, number of rows, of tags   *)
(* and of ports.                                                           *)
(*                                                                         *)
(* RInv says how the registers fit together; PnrInv adds what is known of  *)
(* the point of no return.  A cycle is taken apart into its arguments      *)
(* (Clocked), and every part of the two invariants has its lemma.          *)
(***************************************************************************)
EXTENDS Rob, FiniteSetTheorems, WellFoundedInduction, TLAPS

-----------------------------------------------------------------------------
\* The remainder of a number below twice the divisor.
LEMMA ModIs ==
    ASSUME NEW a \in Nat, NEW n \in Nat, n > 0, a < n + n
    PROVE  a % n = IF a < n THEN a ELSE a - n
<1>1. CASE a < n
  BY <1>1
<1>2. CASE a >= n
  BY <1>2
<1> QED
  BY <1>1, <1>2

\* Numbers of two digits are compared digit by digit.
LEMMA DigitsLess ==
    ASSUME NEW n \in Nat, NEW d \in Nat, NEW e \in Nat, NEW v \in Nat, NEW w \in Nat,
           v < n, w < n
    PROVE  /\ d < e => d * n + v < e * n + w
           /\ d * n + v \in Nat /\ d * n \in Nat
<1>1. d * n \in Nat /\ d * n + v \in Nat /\ e * n \in Nat
  OBVIOUS
<1>2. ASSUME d < e PROVE d * n + v < e * n + w
  <2>1. PICK x \in Nat : x = e - (d + 1)
    BY <1>2
  <2>2. e = (x + d) + 1
    BY <2>1
  <2>3. e * n = (x * n + d * n) + n
    BY <2>2
  <2>4. x * n \in Nat
    OBVIOUS
  <2> QED
    BY <1>1, <2>3, <2>4
<1> QED
  BY <1>1, <1>2

\* Two numbers of two digits compare digit by digit.
LEMMA DigitsLeq ==
    ASSUME NEW n \in Nat, NEW d \in Nat, NEW e \in Nat, NEW v \in Nat, NEW w \in Nat,
           v < n, w < n
    PROVE  /\ d * n + v <= e * n + w <=> d < e \/ (d = e /\ v <= w)
           /\ d * n + v < e * n + w <=> d < e \/ (d = e /\ v < w)
<1>1. d * n + v \in Nat /\ e * n + w \in Nat /\ d * n \in Nat
  OBVIOUS
<1>2. CASE d < e
  BY <1>1, <1>2, DigitsLess
<1>3. CASE e < d
  <2>1. e * n + w < d * n + v
    BY <1>3, DigitsLess
  <2> QED
    BY <1>1, <1>3, <2>1
<1>4. CASE d = e
  BY <1>1, <1>4
<1> QED
  BY <1>2, <1>3, <1>4

-----------------------------------------------------------------------------
(* The ring. *)

Spots == Rows \X Banks

\* What the sizes of the ring (numRobRows, coreWidth, maxBrCount) are good for.
LEMMA Constants ==
    /\ CoreWidth \in Nat /\ CoreWidth >= 1 /\ NumRows \in Nat /\ NumRows >= 2
    /\ MaxBrCount \in Nat /\ Tags \subseteq Nat /\ IsFiniteSet(Tags)
    /\ \A r : r \in Rows <=> r \in Nat /\ r < NumRows
    /\ \A w : w \in Banks <=> w \in Nat /\ w < CoreWidth
<1>1. IsFiniteSet(Tags)
  BY RobAssumption, FS_Interval DEF Tags
<1> QED
  BY <1>1, RobAssumption DEF Rows, Banks, Tags

\* How far a row is from the head.
LEMMA DistIs ==
    ASSUME rob_head \in Rows, NEW r \in Rows
    PROVE  /\ Dist(r) = IF r < rob_head THEN (r - rob_head) + NumRows ELSE r - rob_head
           /\ Dist(r) \in Nat /\ Dist(r) < NumRows
<1>1. PICK a : a = r + NumRows - rob_head
  OBVIOUS
<1>2. a \in Nat /\ a < NumRows + NumRows /\ NumRows > 0
  BY <1>1, Constants
<1>3. Dist(r) = IF a < NumRows THEN a ELSE a - NumRows
  BY <1>1, <1>2, Constants, ModIs DEF Dist
<1> QED
  BY <1>1, <1>2, <1>3, Constants

\* The head, and no other row, is at distance 0.
LEMMA DistHead ==
    ASSUME rob_head \in Rows
    PROVE  Dist(rob_head) = 0 /\ \A r \in Rows : Dist(r) = 0 => r = rob_head
<1>1. Dist(rob_head) = 0
  BY DistIs, Constants
<1>2. ASSUME NEW r \in Rows, Dist(r) = 0 PROVE r = rob_head
  BY <1>2, DistIs, Constants
<1> QED
  BY <1>1, <1>2

\* Rows at the same distance from the head are the same row.
LEMMA DistSame ==
    ASSUME rob_head \in Rows, NEW r \in Rows, NEW s \in Rows, Dist(r) = Dist(s)
    PROVE  r = s
BY DistIs, Constants

\* WrapInc (util.scala) goes to the next row of the ring.
LEMMA WrapIncIs ==
    ASSUME NEW r \in Rows
    PROVE  WrapInc(r) \in Rows /\ WrapInc(r) = IF r = NumRows - 1 THEN 0 ELSE r + 1
<1>1. r + 1 \in Nat /\ r + 1 < NumRows + NumRows /\ NumRows > 0
  BY Constants
<1>2. WrapInc(r) = IF r + 1 < NumRows THEN r + 1 ELSE (r + 1) - NumRows
  BY <1>1, Constants, ModIs DEF WrapInc
<1> QED
  BY <1>2, Constants

\* WrapDec (util.scala) goes to the row before.
LEMMA WrapDecIs ==
    ASSUME NEW r \in Rows
    PROVE  WrapDec(r) \in Rows /\ WrapDec(r) = IF r = 0 THEN NumRows - 1 ELSE r - 1
<1>1. PICK a : a = r + NumRows - 1
  OBVIOUS
<1>2. a \in Nat /\ a < NumRows + NumRows /\ NumRows > 0
  BY <1>1, Constants
<1>3. WrapDec(r) = IF a < NumRows THEN a ELSE a - NumRows
  BY <1>1, <1>2, Constants, ModIs DEF WrapDec
<1> QED
  BY <1>1, <1>3, Constants

\* What WrapInc and WrapDec do to the distance from the head.
LEMMA DistWrap ==
    ASSUME rob_head \in Rows, NEW r \in Rows
    PROVE  /\ Dist(WrapInc(r)) = IF Dist(r) = NumRows - 1 THEN 0 ELSE Dist(r) + 1
           /\ Dist(WrapDec(r)) = IF Dist(r) = 0 THEN NumRows - 1 ELSE Dist(r) - 1
<1>1. PICK a \in Rows : a = WrapInc(r) /\ a = IF r = NumRows - 1 THEN 0 ELSE r + 1
  BY WrapIncIs
<1>2. PICK b \in Rows : b = WrapDec(r) /\ b = IF r = 0 THEN NumRows - 1 ELSE r - 1
  BY WrapDecIs
<1>3. Dist(a) = IF Dist(r) = NumRows - 1 THEN 0 ELSE Dist(r) + 1
  BY <1>1, DistIs, Constants
<1>4. Dist(b) = IF Dist(r) = 0 THEN NumRows - 1 ELSE Dist(r) - 1
  BY <1>2, DistIs, Constants
<1> QED
  BY <1>1, <1>2, <1>3, <1>4

\* The head moves on by a row or stays; every row comes nearer by as much.
LEMMA DistNext ==
    ASSUME rob_head \in Rows, NEW r \in Rows
    PROVE  /\ rob_head' = rob_head => Dist(r)' = Dist(r)
           /\ rob_head' = WrapInc(rob_head) =>
                  Dist(r)' = IF Dist(r) = 0 THEN NumRows - 1 ELSE Dist(r) - 1
<1>1. rob_head' = rob_head => Dist(r)' = Dist(r)
  BY DEF Dist
<1>2. ASSUME rob_head' = WrapInc(rob_head)
      PROVE  Dist(r)' = IF Dist(r) = 0 THEN NumRows - 1 ELSE Dist(r) - 1
  <2>1. PICK h \in Rows : h = rob_head' /\ h = IF rob_head = NumRows - 1 THEN 0 ELSE rob_head + 1
    BY <1>2, WrapIncIs
  <2>2. PICK a : a = r + NumRows - h
    OBVIOUS
  <2>3. a \in Nat /\ a < NumRows + NumRows /\ NumRows > 0
    BY <2>1, <2>2, Constants
  <2>4. a % NumRows = IF a < NumRows THEN a ELSE a - NumRows
    BY <2>3, Constants, ModIs
  <2>5. Dist(r)' = a % NumRows
    BY <2>1, <2>2 DEF Dist
  <2> QED
    BY <2>1, <2>2, <2>3, <2>4, <2>5, DistIs, Constants
<1> QED
  BY <1>1, <1>2

\* Ages are compared row by row, then bank by bank.
LEMMA AgeIs ==
    ASSUME rob_head \in Rows, NEW p \in Spots, NEW q \in Spots
    PROVE  /\ Age(p) <= Age(q) <=> Dist(p[1]) < Dist(q[1])
                                   \/ (Dist(p[1]) = Dist(q[1]) /\ p[2] <= q[2])
           /\ Age(p) < Age(q) <=> Dist(p[1]) < Dist(q[1])
                                   \/ (Dist(p[1]) = Dist(q[1]) /\ p[2] < q[2])
           /\ Age(p) \in Nat /\ Age(q) \in Nat
           /\ Age(p) = Age(q) => p = q
<1>1. /\ p[1] \in Rows /\ q[1] \in Rows /\ p[2] \in Banks /\ q[2] \in Banks
      /\ p = <<p[1], p[2]>> /\ q = <<q[1], q[2]>>
  BY DEF Spots
<1>2. PICK d \in Nat, e \in Nat : d = Dist(p[1]) /\ e = Dist(q[1])
  BY <1>1, DistIs
<1>3. PICK v \in Nat, w \in Nat : v = p[2] /\ w = q[2] /\ v < CoreWidth /\ w < CoreWidth
  BY <1>1, Constants
<1>4. CoreWidth \in Nat
  BY Constants
<1>5. Age(p) = d * CoreWidth + v /\ Age(q) = e * CoreWidth + w
  BY <1>2, <1>3 DEF Age
<1>6. /\ d * CoreWidth + v <= e * CoreWidth + w <=> d < e \/ (d = e /\ v <= w)
      /\ d * CoreWidth + v < e * CoreWidth + w <=> d < e \/ (d = e /\ v < w)
  BY <1>3, <1>4, DigitsLeq
<1>7. d * CoreWidth + v \in Nat /\ e * CoreWidth + w \in Nat
  BY <1>3, <1>4, DigitsLess
<1>8. Age(p) = Age(q) => d = e /\ v = w
  BY <1>3, <1>5, <1>6, <1>7
<1>9. Age(p) = Age(q) => p = q
  BY <1>1, <1>2, <1>3, <1>8, DistSame
<1> QED
  BY <1>2, <1>3, <1>5, <1>6, <1>7, <1>9

-----------------------------------------------------------------------------
(* The invariant. *)

Entries == [k : AllKinds, bsy : BOOLEAN, unsafe : BOOLEAN, exc : BOOLEAN,
            st : {"wait", "resolved"}, br_mask : SUBSET Tags, br_tag : Tags \cup {0}]
Pending(w) == pkt[w] # "none"

TypeOK ==
    /\ ent \in [Spots -> Entries \cup {NoEnt}]
    /\ rob_state \in {"reset", "normal", "rollback", "wait_till_empty"}
    /\ rob_head \in Rows /\ rob_tail \in Rows /\ rob_pnr \in Rows
    /\ rob_head_lsb \in Banks /\ rob_tail_lsb \in Banks /\ rob_pnr_lsb \in Banks
    /\ maybe_full \in BOOLEAN /\ r_partial_row \in BOOLEAN /\ pnr_maybe_at_tail \in BOOLEAN
    /\ r_xcpt \in [val : BOOLEAN, pos : Spots, br_mask : SUBSET Tags]
    /\ thrown1 \in BOOLEAN /\ thrown2 \in BOOLEAN /\ flush1 \in BOOLEAN
    /\ b1 \in [res : SUBSET Tags, mis : SUBSET Tags, pos : SUBSET Spots]
    /\ b2 \in [mispredict : BOOLEAN, pos : Spots]
    /\ kinds \subseteq AllKinds /\ pkt \in [Banks -> AllKinds \cup {"none"}]

\* The rows in use.  In the cycle in which a misprediction moves the tail back, they
\* end with the row of the branch.
Limit == IF b2.mispredict THEN Dist(b2.pos[1]) + 1
         ELSE IF Full THEN NumRows ELSE Dist(rob_tail)

\* They have no gap, neither between rows nor in a row; behind them there is at most
\* the row that is dispatched in parts.
Shape ==
    /\ \A p \in Valid : Dist(p[1]) < Limit \/ (~b2.mispredict /\ ~Full /\ p[1] = rob_tail)
    /\ \A r \in Rows : Dist(r) < Limit => \E w \in Banks : Val(r, w)
    /\ \A r \in Rows, u, v, w \in Banks : u < v /\ v < w /\ Val(r, u) /\ Val(r, w) => Val(r, v)
    /\ b2.mispredict => /\ b2.pos \in Valid /\ maybe_full
                        /\ \A p \in Valid : Age(p) <= Age(b2.pos)
    /\ \A w \in Banks : Val(rob_head, w) => rob_head_lsb <= w

\* The rest of a packet fits behind the part of it that is in the ROB, and that
\* part waits for the rest, or for a redirect that removes it.
Partial ==
    /\ \A u, v, w \in Banks : u < v /\ v < w /\ Pending(u) /\ Pending(w) => Pending(v)
    /\ rob_state # "rollback" /\ ~b2.mispredict /\ ~Full =>
           /\ \A v, w \in Banks : Val(rob_tail, v) /\ Pending(w) =>
                  v < w /\ \A u \in Banks : v < u /\ u < w => Val(rob_tail, u) \/ Pending(u)
           /\ (\E v \in Banks : Val(rob_tail, v)) =>
                  /\ r_partial_row
                  /\ \/ \E w \in Banks : Pending(w)
                     \/ b1.mis # {} \/ r_xcpt.val \/ thrown1 \/ thrown2

\* What the states of the ROB and the redirects exclude.
Control ==
    /\ rob_state # "normal" => ~thrown1 /\ ~thrown2 /\ b1.pos = {} /\ ~b2.mispredict /\ ~r_xcpt.val
    /\ rob_state = "reset" => Valid = {}
    /\ (thrown1 => flush1) /\ ~(thrown1 /\ thrown2)
    /\ flush1 \/ thrown2 => b1.pos = {} /\ ~r_xcpt.val
    /\ flush1 /\ ~thrown1 => Valid = {} /\ ~b2.mispredict
    /\ thrown2 => ~b2.mispredict
    /\ b2.mispredict \/ thrown1 \/ thrown2 => \A w \in Banks : ~Pending(w)

\* What the units may still do with a uop.
Progress ==
    /\ \A p \in Valid :
           /\ ent[p].k = "br" => ent[p].br_tag \in Tags /\ ~ent[p].exc
           /\ ent[p].k \in {"load", "store", "br"} => ent[p].unsafe = ent[p].bsy
           /\ ent[p].k \in {"alu", "uniq"} => ~ent[p].exc
           /\ Waiting(p) => ent[p].bsy
    /\ b1.res = {ent[p].br_tag : p \in b1.pos} /\ b1.mis \subseteq b1.res
    /\ \A p \in b1.pos : p \in Valid /\ ent[p].k = "br" /\ ent[p].st = "resolved" /\ ent[p].bsy

\* A uop that flushes is alone.
Alone ==
    /\ \A p \in Valid : ent[p].k = "uniq" => rob_state = "wait_till_empty"
    /\ rob_state = "wait_till_empty" => \A p, q \in Valid : p = q /\ ent[p].k = "uniq"

\* A branch holds its tag until the cycle after the one it is resolved in has passed.
\* The mask of a uop is the tags held in front of it, and not its own.
Open(p)     == p \in Valid /\ ent[p].k = "br" /\ (ent[p].st = "wait" \/ p \in b1.pos)
OpenTags(p) == {ent[q].br_tag : q \in {x \in Valid : Open(x) /\ Age(x) < Age(p)}}
Masks ==
    \A p \in Valid : /\ ent[p].br_mask = OpenTags(p)
                     /\ Open(p) => ent[p].br_tag \notin ent[p].br_mask

\* The exception that is remembered is the oldest of all; if none is, none waits,
\* except behind the one that is being thrown.
Excepted ==
    /\ r_xcpt.val => /\ r_xcpt.pos \in Valid /\ ent[r_xcpt.pos].exc
                     /\ r_xcpt.br_mask = ent[r_xcpt.pos].br_mask
                     /\ \A p \in Valid : ent[p].exc => Age(r_xcpt.pos) <= Age(p)
    /\ ~r_xcpt.val /\ ~thrown1 /\ ~thrown2 /\ rob_state # "rollback" =>
           \A p \in Valid : ~ent[p].exc
    /\ thrown1 \/ thrown2 => \E w \in Banks : Val(rob_head, w) /\ ent[rob_head, w].exc

RInv == /\ TypeOK /\ QueueOrder /\ Shape /\ Partial /\ Control /\ Progress /\ Alone
        /\ Masks /\ Excepted

-----------------------------------------------------------------------------
(* One cycle. *)

Clocked(extra, stall, E, R, M, lx) ==
    /\ stall \in BOOLEAN /\ E \subseteq CanWriteback /\ R \subseteq CanResolve(stall) /\ M \subseteq R
    /\ lx \in CanFault \cup {<<>>} /\ lx \notin E
    /\ Cycle(extra, stall, E, R, M, lx)

\* Every step of Next is one clock cycle.
LEMMA NextIs ==
    ASSUME Next
    PROVE  \E extra, stall, E, R, M, lx : Clocked(extra, stall, E, R, M, lx)
<1>1. PICK extra \in {CoreWidth} \cup EnqValids(CoreWidth),
           stall \in {FALSE} \cup {CanCommit(w, FALSE) : w \in Banks} :
          \E E \in AtMost(Ports, CanWriteback), R \in AtMost(Ports, CanResolve(stall)),
             lx \in CanFault \cup {<<>>} :
             \E M \in SUBSET R : lx \notin E /\ Cycle(extra, stall, E, R, M, lx)
  BY DEF Next
<1>2. stall \in BOOLEAN
  BY <1>1 DEF CanCommit
<1>3. PICK E \in AtMost(Ports, CanWriteback), R \in AtMost(Ports, CanResolve(stall)),
           lx \in CanFault \cup {<<>>} :
           \E M \in SUBSET R : lx \notin E /\ Cycle(extra, stall, E, R, M, lx)
  BY <1>1
<1>4. PICK M \in SUBSET R : lx \notin E /\ Cycle(extra, stall, E, R, M, lx)
  BY <1>3
<1>5. E \subseteq CanWriteback /\ R \subseteq CanResolve(stall)
  BY <1>3 DEF AtMost
<1> QED
  BY <1>2, <1>3, <1>4, <1>5 DEF Clocked

\* rob_val, read as a set of places or bank by bank, is the same.
LEMMA ValidIs ==
    ASSUME TypeOK
    PROVE  /\ \A p : p \in Valid <=> p \in Spots /\ ent[p].k # "none"
           /\ \A p \in Valid : ent[p] \in Entries
           /\ \A r \in Rows, w \in Banks : Val(r, w) <=> <<r, w>> \in Valid
           /\ \A p \in Spots : p \in Valid <=> Val(p[1], p[2])
<1>1. \A p : p \in Valid <=> p \in Spots /\ ent[p].k # "none"
  BY DEF Valid, Spots
<1>2. \A p \in Valid : ent[p] \in Entries
  BY <1>1 DEF TypeOK, NoEnt
<1>3. \A r \in Rows, w \in Banks : Val(r, w) <=> <<r, w>> \in Valid
  BY <1>1 DEF Val, Spots
<1>4. \A p \in Spots : p \in Valid <=> Val(p[1], p[2])
  <2>1. \A p \in Spots : p = <<p[1], p[2]>> /\ p[1] \in Rows /\ p[2] \in Banks
    BY DEF Spots
  <2> QED
    BY <2>1, <1>3
<1> QED
  BY <1>1, <1>2, <1>3, <1>4

\* What is dispatched is a first part of the packet.
LEMMA EnqIs ==
    ASSUME TypeOK, NEW extra, NEW enq, enq = EnqValids(extra)
    PROVE  /\ enq \subseteq Banks
           /\ \A w \in enq : Pending(w) /\ pkt[w] \in AllKinds
           /\ enq # {} => /\ rob_state = "normal" /\ ~Full /\ ~r_xcpt.val
                          /\ ~flush1 /\ ~b2.mispredict /\ b1.mis = {}
           /\ \A w \in enq, v \in Banks : v < w /\ Pending(v) => v \in enq
           /\ ~Stalled(extra) => \A w \in Banks : Pending(w) => w \in enq
           /\ Stalled(extra) => \E h \in Banks : Pending(h) /\ h \notin enq /\ \A w \in enq : w < h
           /\ \A w \in enq : pkt[w] = "uniq" => Empty /\ enq = {w}
           /\ \A w \in enq : pkt[w] = "br" => ~(FreeTags \subseteq PktTags(w))
<1>1. /\ \A w : w \in enq <=> w \in Banks /\ Pending(w) /\ \A v \in 0..w : ~DisHazard(v, extra)
      /\ \A w \in Banks : w \in 0..w
  BY Constants DEF EnqValids, Pending
<1>2. \A w \in enq : w \in Banks /\ Pending(w) /\ ~DisHazard(w, extra) /\ pkt[w] \in AllKinds
  BY <1>1 DEF TypeOK, Pending
<1>3. enq # {} => /\ rob_state = "normal" /\ ~Full /\ ~r_xcpt.val
                  /\ ~flush1 /\ ~b2.mispredict /\ b1.mis = {}
  BY <1>2 DEF DisHazard, Ready, RedirectFlush, Pending
<1>4. \A w \in enq, v \in Banks : v < w /\ Pending(v) => v \in enq
  BY <1>1, Constants
<1>5. ASSUME ~Stalled(extra) PROVE \A w \in Banks : Pending(w) => w \in enq
  <2>1. \A w \in Banks : \A v \in 0..w : v \in Banks
    BY Constants
  <2> QED
    BY <1>1, <1>5, <2>1 DEF Stalled
<1>6. ASSUME Stalled(extra)
      PROVE  \E h \in Banks : Pending(h) /\ h \notin enq /\ \A w \in enq : w < h
  <2>1. PICK h \in Banks : DisHazard(h, extra)
    BY <1>6 DEF Stalled
  <2>2. Pending(h) /\ h \notin enq
    BY <2>1, <1>2 DEF DisHazard, Pending
  <2>3. \A w \in enq : ~(h \in 0..w)
    BY <1>1, <2>1
  <2>4. \A w \in enq : w < h
    BY <1>2, <2>1, <2>3, Constants
  <2> QED
    BY <2>2, <2>4
<1>7. ASSUME NEW w \in enq, pkt[w] = "uniq" PROVE Empty /\ enq = {w}
  <2>1. Empty /\ \A v \in 0..(w - 1) : pkt[v] = "none"
    BY <1>2, <1>7 DEF DisHazard, IsUnique
  <2>2. ASSUME NEW x \in enq PROVE x = w
    <3>1. ~(x < w)
      BY <1>2, <2>1, Constants DEF Pending
    <3>2. ~(w < x)
      <4>1. \A v \in 0..(x - 1) : ~IsUnique(pkt[v])
        BY <1>2 DEF DisHazard, Pending
      <4> QED
        BY <4>1, <1>2, <1>7, Constants DEF IsUnique
    <3> QED
      BY <3>1, <3>2, <1>2, Constants
  <2> QED
    BY <2>1, <2>2
<1>8. \A w \in enq : pkt[w] = "br" => ~(FreeTags \subseteq PktTags(w))
  BY <1>2 DEF DisHazard, Pending
<1> QED
  BY <1>2, <1>3, <1>4, <1>5, <1>6, <1>7, <1>8

\* What a cycle leaves in the ROB, and what it adds.
Left(stall) == {p \in Valid : /\ ~Killed(p)
                              /\ ~(p[1] = rob_head /\ p[2] \in WillCommit(stall))
                              /\ ~(RbkRow /\ p[1] = rob_tail)}
Added(extra) == {rob_tail} \X EnqValids(extra)

\* What is dispatched goes into free banks of the row of the tail.
LEMMA AddedIs ==
    ASSUME TypeOK, Partial, NEW extra
    PROVE  /\ Added(extra) \subseteq Spots
           /\ \A p : p \in Added(extra) <=> p = <<rob_tail, p[2]>> /\ p[2] \in EnqValids(extra)
           /\ \A w \in Banks : Val(rob_tail, w) => w \notin EnqValids(extra)
           /\ Added(extra) \cap Valid = {}
<1>1. EnqValids(extra) \subseteq Banks /\ rob_tail \in Rows
  BY EnqIs DEF TypeOK
<1>2. Added(extra) \subseteq Spots /\ \A p : p \in Added(extra) <=> p = <<rob_tail, p[2]>> /\ p[2] \in EnqValids(extra)
  BY <1>1 DEF Added, Spots
<1>3. ASSUME NEW w \in EnqValids(extra), Val(rob_tail, w) PROVE FALSE
  <2>1. /\ w \in Banks /\ Pending(w) /\ ~Full /\ ~b2.mispredict /\ rob_state = "normal"
    BY EnqIs
  <2>2. w < w
    BY <1>3, <2>1 DEF Partial
  <2> QED
    BY <2>1, <2>2, Constants
<1>4. Added(extra) \cap Valid = {}
  BY <1>1, <1>2, <1>3, ValidIs
<1> QED
  BY <1>1, <1>2, <1>3, <1>4

-----------------------------------------------------------------------------
(* The tags of a packet. *)

\* SetMin, the priority encoder over banks, finds the least element.
LEMMA MinIs ==
    ASSUME NEW T, T \subseteq Nat, T # {}
    PROVE  SetMin(T) \in T /\ \A y \in T : SetMin(T) <= y
<1> DEFINE Less == OpToRel(<, Nat)
<1>1. IsWellFoundedOn(Less, Nat)
  BY NatLessThanWellFounded
<1>2. \A x, y \in Nat : x < y => <<x, y>> \in Less
  BY DEF OpToRel
<1> HIDE DEF Less
<1>3. PICK x \in T : \A y \in T : ~(<<y, x>> \in Less)
  BY <1>1, WFMin
<1>4. ASSUME NEW y \in T PROVE x <= y
  <2>1. x \in Nat /\ y \in Nat
    OBVIOUS
  <2>2. ~(y < x)
    BY <2>1, <1>2, <1>3
  <2> QED
    BY <2>1, <2>2
<1> QED
  BY <1>4 DEF SetMin

\* A set of numbers with a bound has a greatest element.
LEMMA MaxIs ==
    ASSUME NEW n \in Nat, NEW T, T \subseteq 0..n, T # {}
    PROVE  \E g \in T : \A y \in T : y <= g
<1> DEFINE U == {n - x : x \in T}
<1>1. U \subseteq Nat /\ U # {}
  BY \A x \in 0..n : n - x \in Nat
<1>2. PICK g \in T : SetMin(U) = n - g
  BY <1>1, MinIs
<1>3. ASSUME NEW y \in T PROVE y <= g
  <2>1. n - g <= n - y
    BY <1>1, <1>2, MinIs
  <2>2. n \in Nat /\ g \in Nat /\ y \in Nat
    OBVIOUS
  <2> QED
    BY <2>1, <2>2
<1> QED
  BY <1>3

\* Of the elements below x the greatest has one less below it.
LEMMA BelowPred ==
    ASSUME NEW S, S \subseteq Nat, IsFiniteSet(S), NEW x \in Nat
    PROVE  /\ Below(S, x) \in Nat
           /\ \A y \in S : y < x => Below(S, y) \in Nat /\ Below(S, y) < Below(S, x)
           /\ Below(S, x) # 0 => \E u \in S : u < x /\ Below(S, x) = Below(S, u) + 1
<1> DEFINE X(z) == {y \in S : y < z}
<1>1. \A z \in Nat : IsFiniteSet(X(z)) /\ Cardinality(X(z)) \in Nat
  <2>1. \A z \in Nat : X(z) \subseteq S
    OBVIOUS
  <2> QED
    BY <2>1, FS_Subset, FS_CardinalityType
<1>2. \A z \in Nat : Below(S, z) = Cardinality(X(z))
  BY DEF Below
<1>3. ASSUME NEW y \in S, y < x PROVE Below(S, y) \in Nat /\ Below(S, y) < Below(S, x)
  <2>2. y \in Nat
    OBVIOUS
  <2>1. X(y) \subseteq X(x) /\ y \in X(x) /\ y \notin X(y)
    <3>1. \A z \in S : z \in Nat /\ (z < y => z < x)
      BY <1>3, <2>2
    <3>2. ~(y < y)
      BY <2>2
    <3> QED
      BY ONLY <1>3, <3>1, <3>2
  <2> HIDE DEF X
  <2>3. Cardinality(X(y)) <= Cardinality(X(x)) /\ Cardinality(X(y)) # Cardinality(X(x))
    BY <2>1, <1>1, FS_Subset
  <2> QED
    BY <2>2, <2>3, <1>1, <1>2
<1>4. ASSUME Below(S, x) # 0 PROVE \E u \in S : u < x /\ Below(S, x) = Below(S, u) + 1
  <2>1. X(x) # {}
    BY <1>2, <1>4, FS_EmptySet
  <2>2. X(x) \subseteq 0..x
    <3>1. \A z \in S : z \in Nat /\ (z < x => z \in 0..x)
      OBVIOUS
    <3> QED
      BY <3>1
  <2>3. PICK u \in X(x) : \A y \in X(x) : y <= u
    BY <2>1, <2>2, MaxIs
  <2>4. u \in S /\ u < x /\ u \in Nat
    BY <2>3
  <2>5. X(x) = X(u) \cup {u} /\ u \notin X(u)
    <3>1. \A z \in S : z \in Nat /\ (z < u => z < x) /\ (z <= u <=> z < u \/ z = u)
      BY <2>4
    <3>2. ~(u < u)
      BY <2>4
    <3> QED
      BY ONLY <2>3, <2>4, <3>1, <3>2
  <2> HIDE DEF X
  <2>6. Cardinality(X(x)) = Cardinality(X(u)) + 1
    BY <2>4, <2>5, <1>1, FS_AddElement
  <2> QED
    BY <2>4, <2>6, <1>2
<1>5. Below(S, x) \in Nat
  BY <1>1, <1>2
<1> QED
  BY <1>3, <1>4, <1>5

\* Every rank below that of x is the rank of an element below x.
LEMMA BelowOnto ==
    ASSUME NEW S, S \subseteq Nat, IsFiniteSet(S), NEW x \in Nat, NEW j \in Nat, j < Below(S, x)
    PROVE  \E v \in S : v < x /\ Below(S, v) = j
<1> DEFINE X == {v \in S : v < x /\ j <= Below(S, v)}
<1>1. X # {} /\ X \subseteq Nat
  <2>1. PICK n \in Nat : n = Below(S, x)
    BY BelowPred
  <2>5. Below(S, x) # 0
    BY <2>1
  <2>2. PICK u \in S : u < x /\ n = Below(S, u) + 1
    BY <2>1, <2>5, BelowPred
  <2>3. Below(S, u) \in Nat
    BY <2>2, BelowPred
  <2>4. u \in X
    BY <2>1, <2>2, <2>3
  <2> QED
    BY <2>4
<1>2. PICK v \in X : \A y \in X : v <= y
  BY <1>1, MinIs
<1>3. v \in S /\ v \in Nat /\ v < x /\ j <= Below(S, v)
  BY <1>2
<1>4. ASSUME j # Below(S, v) PROVE FALSE
  <2>0. PICK n \in Nat : n = Below(S, v)
    BY <1>3, BelowPred
  <2>4. Below(S, v) # 0
    BY <1>3, <1>4, <2>0
  <2>1. PICK u \in S : u < v /\ n = Below(S, u) + 1
    BY <1>3, <2>0, <2>4, BelowPred
  <2>3. u \in Nat /\ Below(S, u) \in Nat
    BY <1>3, <2>1, BelowPred
  <2>2. u \in X
    BY <1>3, <1>4, <2>0, <2>1, <2>3
  <2> QED
    BY <1>2, <1>3, <2>1, <2>2, <2>3
<1> QED
  BY <1>3, <1>4

NewTag(w) == SetMin(FreeTags \ PktTags(w))
Branches  == {v \in Banks : pkt[v] = "br"}

\* A branch gets the free tag that has as many below it as there are branches in
\* front of it.
LEMMA NewTagIs ==
    ASSUME TypeOK, NEW w \in Banks, ~(FreeTags \subseteq PktTags(w))
    PROVE  /\ NewTag(w) \in FreeTags /\ NewTag(w) \notin PktTags(w)
           /\ Below(FreeTags, NewTag(w)) = Below(Branches, w)
<1>1. FreeTags \subseteq Nat /\ IsFiniteSet(FreeTags) /\ Branches \subseteq Nat /\ IsFiniteSet(Branches)
  <2>1. IsFiniteSet(Banks)
    BY RobAssumption, FS_Interval DEF Banks
  <2> QED
    BY <2>1, Constants, FS_Subset DEF FreeTags, Branches
<1>2. NewTag(w) \in FreeTags \ PktTags(w) /\ \A y \in FreeTags \ PktTags(w) : NewTag(w) <= y
  BY <1>1, MinIs DEF NewTag
<1>3. PICK m \in Nat : m = NewTag(w)
  BY <1>1, <1>2
<1>4. PICK n \in Nat, b \in Nat : n = Below(Branches, w) /\ b = Below(FreeTags, m)
  BY <1>1, BelowPred, Constants
<1>5. \A t \in FreeTags : t \in PktTags(w) <=> Below(FreeTags, t) < n
  BY <1>4 DEF PktTags, Branches
<1>6. n <= b
  BY <1>2, <1>3, <1>4, <1>5
<1>7. ASSUME n < b PROVE FALSE
  <2>0. b # 0
    BY <1>7
  <2>1. PICK u \in FreeTags : u < m /\ b = Below(FreeTags, u) + 1
    BY <1>1, <1>4, <2>0, BelowPred
  <2>2. Below(FreeTags, u) \in Nat /\ u \in Nat
    BY <1>1, <2>1, BelowPred
  <2>3. u \in PktTags(w)
    <3>1. u \in FreeTags \ PktTags(w) => m <= u
      BY <1>2, <1>3
    <3> QED
      BY <2>1, <2>2, <3>1
  <2> QED
    BY <1>5, <1>7, <2>1, <2>2, <2>3
<1> QED
  BY <1>2, <1>3, <1>4, <1>6, <1>7

\* The branches of a packet get different tags, none of which is held.
LEMMA PktTagsAre ==
    ASSUME TypeOK, NEW extra, NEW w \in EnqValids(extra)
    PROVE  /\ PktTags(w) \subseteq FreeTags /\ FreeTags \subseteq Tags /\ FreeTags \cap HeldTags = {}
           /\ PktTags(w) = {NewTag(v) : v \in {u \in EnqValids(extra) : u < w /\ pkt[u] = "br"}}
           /\ pkt[w] = "br" => NewTag(w) \in FreeTags /\ NewTag(w) \notin PktTags(w)
<1>1. FreeTags \subseteq Nat /\ IsFiniteSet(FreeTags) /\ Branches \subseteq Nat /\ IsFiniteSet(Branches)
  <2>1. IsFiniteSet(Banks)
    BY RobAssumption, FS_Interval DEF Banks
  <2> QED
    BY <2>1, Constants, FS_Subset DEF FreeTags, Branches
<1>2. w \in Banks /\ w \in Nat
  BY EnqIs, Constants
<1>3. PktTags(w) \subseteq FreeTags /\ FreeTags \subseteq Tags /\ FreeTags \cap HeldTags = {}
  BY DEF PktTags, FreeTags
<1>4. PICK B : B = {u \in EnqValids(extra) : u < w /\ pkt[u] = "br"}
  OBVIOUS
<1>5. \A u : u \in B <=> u \in Branches /\ u < w
  <2>1. \A u \in Branches : u < w => u \in EnqValids(extra)
    BY EnqIs DEF Branches, Pending
  <2> QED
    BY <1>4, <2>1, EnqIs DEF Branches
<1>6. \A u \in B : /\ NewTag(u) \in FreeTags
                   /\ Below(FreeTags, NewTag(u)) = Below(Branches, u)
  <2>1. \A u \in B : u \in Banks /\ ~(FreeTags \subseteq PktTags(u))
    BY <1>4, EnqIs
  <2> QED
    BY <2>1, NewTagIs
<1>7. \A t \in FreeTags : t \in PktTags(w) <=> Below(FreeTags, t) < Below(Branches, w)
  BY DEF PktTags, Branches
<1>8. ASSUME NEW u \in B PROVE NewTag(u) \in PktTags(w)
  <2>1. Below(Branches, u) < Below(Branches, w)
    BY <1>1, <1>2, <1>5, BelowPred
  <2> QED
    BY <1>6, <1>7, <2>1
<1>9. ASSUME NEW t \in PktTags(w) PROVE \E u \in B : t = NewTag(u)
  <2>1. t \in FreeTags /\ t \in Nat
    BY <1>1, <1>3
  <2>2. PICK j \in Nat : j = Below(FreeTags, t)
    BY <1>1, <2>1, BelowPred
  <2>3. PICK u \in Branches : u < w /\ Below(Branches, u) = j
    BY <1>1, <1>2, <1>7, <2>1, <2>2, BelowOnto
  <2>4. PICK m \in FreeTags : m = NewTag(u) /\ Below(FreeTags, m) = j
    BY <1>5, <1>6, <2>3
  <2>5. m \in Nat /\ j \in Nat
    BY <1>1, <2>2, <2>4
  <2>6. ~(m < t)
    <3>1. m < t => Below(FreeTags, m) < Below(FreeTags, t)
      BY <1>1, <2>1, <2>4, BelowPred
    <3> QED
      BY <2>2, <2>4, <2>5, <3>1
  <2>7. ~(t < m)
    <3>1. t < m => Below(FreeTags, t) < Below(FreeTags, m)
      BY <1>1, <2>1, <2>5, BelowPred
    <3> QED
      BY <2>2, <2>4, <2>5, <3>1
  <2> QED
    BY <1>5, <2>1, <2>3, <2>4, <2>5, <2>6, <2>7
<1>10. pkt[w] = "br" => NewTag(w) \in FreeTags /\ NewTag(w) \notin PktTags(w)
  BY <1>2, EnqIs, NewTagIs
<1> QED
  BY <1>3, <1>4, <1>8, <1>9, <1>10

-----------------------------------------------------------------------------
(* The entries of the next cycle. *)

\* The fields of an entry that dispatch writes (rob.scala 327-334).
LEMMA NewEntIs ==
    ASSUME TypeOK, Progress, NEW extra, NEW w \in EnqValids(extra)
    PROVE  /\ NewEnt(w) \in Entries
           /\ NewEnt(w).k = pkt[w] /\ NewEnt(w).bsy /\ NewEnt(w).st = "wait"
           /\ NewEnt(w).unsafe = (pkt[w] \in {"load", "store", "br"})
           /\ NewEnt(w).exc = (pkt[w] = "xcpt")
           /\ NewEnt(w).br_mask = BrMask \cup PktTags(w)
           /\ pkt[w] = "br" => NewEnt(w).br_tag = NewTag(w) /\ NewTag(w) \in Tags
<1>1. pkt[w] \in AllKinds
  BY EnqIs
<1>2. BrMask \subseteq Tags /\ PktTags(w) \subseteq Tags
  <2>1. \A p \in Valid : Waiting(p) => ent[p].br_tag \in Tags
    BY DEF Progress, Waiting
  <2> QED
    BY <2>1, PktTagsAre DEF BrMask
<1>3. pkt[w] = "br" => NewTag(w) \in Tags
  BY PktTagsAre
<1>4. NewEnt(w) = [k |-> pkt[w], bsy |-> TRUE, unsafe |-> pkt[w] \in {"load", "store", "br"},
                   exc |-> pkt[w] = "xcpt", st |-> "wait", br_mask |-> BrMask \cup PktTags(w),
                   br_tag |-> IF pkt[w] = "br" THEN NewTag(w) ELSE 0]
  BY DEF NewEnt, NewTag
<1>5. PICK t \in Tags \cup {0} : t = IF pkt[w] = "br" THEN NewTag(w) ELSE 0
  BY <1>3
<1>6. PICK m \in SUBSET Tags : m = BrMask \cup PktTags(w)
  BY <1>2
<1>7. NewEnt(w) = [k |-> pkt[w], bsy |-> TRUE, unsafe |-> pkt[w] \in {"load", "store", "br"},
                   exc |-> pkt[w] = "xcpt", st |-> "wait", br_mask |-> m, br_tag |-> t]
  BY <1>4, <1>5, <1>6
<1>8. NewEnt(w) \in Entries
  BY <1>1, <1>7 DEF Entries
<1>9. pkt[w] = "br" => NewEnt(w).br_tag = NewTag(w) /\ NewTag(w) \in Tags
  BY <1>3, <1>5, <1>7
<1> QED
  BY <1>6, <1>7, <1>8, <1>9

\* What one cycle makes of every entry: it stays with its fields updated, is written by
\* dispatch, or is free.
LEMMA EntNext ==
    ASSUME TypeOK, Partial, Progress,
           NEW extra, NEW stall, NEW E, NEW R, NEW M, NEW lx, Clocked(extra, stall, E, R, M, lx)
    PROVE  /\ \A p \in Left(stall) :
                  /\ p \in Spots /\ p \in Valid /\ p \notin Added(extra)
                  /\ ent'[p] \in Entries
                  /\ ent'[p].k = ent[p].k /\ ent'[p].br_tag = ent[p].br_tag
                  /\ ent'[p].bsy = (ent[p].bsy /\ p \notin E)
                  /\ ent'[p].unsafe = (ent[p].unsafe /\ p \notin E)
                  /\ ent'[p].exc = (ent[p].exc \/ p = lx)
                  /\ ent'[p].br_mask = ent[p].br_mask \ b1.res
                  /\ ent'[p].st = IF p \in R THEN "resolved" ELSE ent[p].st
           /\ \A p \in Added(extra) : ent'[p] = NewEnt(p[2]) /\ ent'[p] \in Entries
           /\ \A p \in Spots : p \notin Left(stall) \cup Added(extra) => ent'[p] = NoEnt
           /\ ent' \in [Spots -> Entries \cup {NoEnt}]
           /\ Valid' = Left(stall) \cup Added(extra)
<1>1. PICK enq : enq = EnqValids(extra)
  OBVIOUS
<1>2. ent' = EntAfter(enq, stall, E, R, lx)
  BY <1>1 DEF Clocked, Cycle
<1>3. ent' = [p \in Spots |->
        IF p[1] = rob_tail /\ p[2] \in enq THEN NewEnt(p[2])
        ELSE IF p \notin Left(stall) THEN NoEnt
        ELSE [ent[p] EXCEPT !.bsy = @ /\ p \notin E, !.unsafe = @ /\ p \notin E,
                            !.exc = @ \/ p = lx, !.br_mask = @ \ b1.res,
                            !.st = IF p \in R THEN "resolved" ELSE @]]
  <2>1. \A p : (\/ p \notin Valid
                \/ Killed(p)
                \/ p[1] = rob_head /\ p[2] \in WillCommit(stall)
                \/ RbkRow /\ p[1] = rob_tail) <=> p \notin Left(stall)
    BY DEF Left
  <2> QED
    BY <1>2, <2>1, Zenon DEF EntAfter, Spots
<1>4. /\ \A p \in Spots : p \in Added(extra) <=> p[1] = rob_tail /\ p[2] \in enq
      /\ Added(extra) \subseteq Spots /\ Added(extra) \cap Valid = {}
  <2>1. /\ Added(extra) \subseteq Spots /\ Added(extra) \cap Valid = {}
        /\ \A p : p \in Added(extra) <=> p = <<rob_tail, p[2]>> /\ p[2] \in enq
    BY <1>1, AddedIs
  <2>2. \A p \in Spots : p = <<p[1], p[2]>>
    BY DEF Spots
  <2> QED
    BY <2>1, <2>2
<1>5. ASSUME NEW p \in Left(stall)
      PROVE  /\ p \in Spots /\ p \in Valid /\ p \notin Added(extra)
             /\ ent'[p] \in Entries
             /\ ent'[p].k = ent[p].k /\ ent'[p].br_tag = ent[p].br_tag
             /\ ent'[p].bsy = (ent[p].bsy /\ p \notin E)
             /\ ent'[p].unsafe = (ent[p].unsafe /\ p \notin E)
             /\ ent'[p].exc = (ent[p].exc \/ p = lx)
             /\ ent'[p].br_mask = ent[p].br_mask \ b1.res
             /\ ent'[p].st = IF p \in R THEN "resolved" ELSE ent[p].st
  <2>1. p \in Valid /\ p \in Spots /\ p \notin Added(extra)
    BY <1>4, ValidIs DEF Left
  <2>2. PICK u \in Entries : u = ent[p]
    BY <2>1, ValidIs
  <2>3. ent'[p] = [u EXCEPT !.bsy = @ /\ p \notin E, !.unsafe = @ /\ p \notin E,
                            !.exc = @ \/ p = lx, !.br_mask = @ \ b1.res,
                            !.st = IF p \in R THEN "resolved" ELSE @]
    BY <1>3, <1>4, <2>1, <2>2
  <2>4. PICK v : v = ent'[p]
    OBVIOUS
  <2>5. /\ v.k = u.k /\ v.br_tag = u.br_tag
        /\ v.bsy = (u.bsy /\ p \notin E) /\ v.unsafe = (u.unsafe /\ p \notin E)
        /\ v.exc = (u.exc \/ p = lx) /\ v.br_mask = u.br_mask \ b1.res
        /\ v.st = IF p \in R THEN "resolved" ELSE u.st
    BY <2>3, <2>4 DEF Entries
  <2>6. v \in Entries
    <3>1. PICK b \in BOOLEAN, c \in BOOLEAN, d \in BOOLEAN, m \in SUBSET Tags,
               s \in {"wait", "resolved"} :
             /\ b = (u.bsy /\ p \notin E) /\ c = (u.unsafe /\ p \notin E)
             /\ d = (u.exc \/ p = lx) /\ m = u.br_mask \ b1.res
             /\ s = IF p \in R THEN "resolved" ELSE u.st
      <4>1. u.br_mask \ b1.res \in SUBSET Tags /\ u.st \in {"wait", "resolved"}
        BY DEF Entries
      <4> QED
        BY <4>1
    <3>2. v = [u EXCEPT !.bsy = b, !.unsafe = c, !.exc = d, !.br_mask = m, !.st = s]
      BY <2>3, <2>4, <3>1
    <3> QED
      BY <3>2 DEF Entries
  <2> QED
    BY <2>1, <2>2, <2>4, <2>5, <2>6
<1>6. ASSUME NEW p \in Added(extra) PROVE ent'[p] = NewEnt(p[2]) /\ ent'[p] \in Entries
  <2>1. p \in Spots /\ p[1] = rob_tail /\ p[2] \in enq
    BY <1>4
  <2> QED
    BY <1>1, <1>3, <2>1, NewEntIs
<1>7. \A p \in Spots : p \notin Left(stall) \cup Added(extra) => ent'[p] = NoEnt
  BY <1>3, <1>4
<1>8. ent' \in [Spots -> Entries \cup {NoEnt}]
  <2>1. \A p \in Spots : ent'[p] \in Entries \cup {NoEnt}
    BY <1>5, <1>6, <1>7
  <2>2. ent' = [p \in Spots |-> ent'[p]]
    BY <1>3
  <2> QED
    BY <2>1, <2>2
<1>9. Valid' = Left(stall) \cup Added(extra)
  <2>1. Valid' = {p \in Spots : ent'[p].k # "none"}
    BY DEF Valid, Spots
  <2>2. \A p \in Spots : p \in Left(stall) \cup Added(extra) => ent'[p].k # "none"
    BY <1>5, <1>6 DEF Entries, AllKinds
  <2>3. \A p \in Spots : p \notin Left(stall) \cup Added(extra) => ent'[p].k = "none"
    BY <1>7 DEF NoEnt
  <2>4. Left(stall) \cup Added(extra) \subseteq Spots
    BY <1>4, <1>5
  <2> QED
    BY <2>1, <2>2, <2>3, <2>4
<1> QED
  BY <1>5, <1>6, <1>7, <1>8, <1>9

-----------------------------------------------------------------------------
(* Program order, kills and commit. *)

\* A place is a row and a bank.
LEMMA SpotIs ==
    ASSUME NEW p \in Spots
    PROVE  p[1] \in Rows /\ p[2] \in Banks /\ p = <<p[1], p[2]>>
BY DEF Spots

\* A row and a bank are a place.
LEMMA PairIs ==
    ASSUME NEW r \in Rows, NEW w \in Banks
    PROVE  \E p \in Spots : p = <<r, w>> /\ p[1] = r /\ p[2] = w
<1>1. <<r, w>> \in Spots
  BY DEF Spots
<1> QED
  BY <1>1

\* Program order and in-flight uops, which the model keeps as history, are read off the
\* ring.
LEMMA BeforeIs ==
    ASSUME RInv
    PROVE  /\ InFlight = Valid
           /\ \A p, q : <<p, q>> \in order <=> p \in Valid /\ q \in Valid /\ Age(p) <= Age(q)
           /\ \A p \in Valid : \A q : q \in Before(p) <=> q \in Valid /\ Age(q) < Age(p)
<1>0. rob_head \in Rows /\ Valid \subseteq Spots
  BY DEF RInv, TypeOK, Valid, Spots
<1>1. \A p, q : <<p, q>> \in order <=> p \in Valid /\ q \in Valid /\ Age(p) <= Age(q)
  BY DEF RInv, QueueOrder
<1>2. \A p, q \in Valid : /\ Age(p) \in Nat /\ Age(q) \in Nat
                          /\ Age(p) = Age(q) => p = q
  BY <1>0, AgeIs
<1>3. InFlight = Valid
  <2>1. \A p \in Valid : Age(p) <= Age(p)
    BY <1>2
  <2> QED
    BY <1>0, <1>1, <2>1 DEF InFlight, Spots
<1>4. \A p \in Valid : \A q : q \in Before(p) <=> q \in Valid /\ Age(q) < Age(p)
  <2>1. \A p, q \in Valid : Age(q) < Age(p) <=> Age(q) <= Age(p) /\ q # p
    BY <1>2
  <2> QED
    BY <1>1, <1>3, <2>1 DEF Before
<1> QED
  BY <1>1, <1>3, <1>4

\* Branches that hold a tag hold different ones, and a mask names those in front of it.
LEMMA OpenIs ==
    ASSUME RInv
    PROVE  /\ \A p : Open(p) => p \in Valid /\ p \in Spots
           /\ \A p, q : Open(p) /\ Open(q) /\ ent[p].br_tag = ent[q].br_tag => p = q
           /\ \A p \in b1.pos : Open(p)
           /\ \A p \in Valid : Waiting(p) => Open(p)
           /\ \A p \in Valid : \A t : t \in ent[p].br_mask
                  <=> \E q : Open(q) /\ Age(q) < Age(p) /\ t = ent[q].br_tag
<1>1. rob_head \in Rows /\ \A p : Open(p) => p \in Valid /\ p \in Spots
  BY DEF Open, RInv, TypeOK, Valid, Spots
<1>2. \A p \in Valid : \A t : t \in ent[p].br_mask
          <=> \E q : Open(q) /\ Age(q) < Age(p) /\ t = ent[q].br_tag
  BY <1>1 DEF RInv, Masks, OpenTags
<1>3. ASSUME NEW p, NEW q, Open(p), Open(q), ent[p].br_tag = ent[q].br_tag PROVE p = q
  <2>1. Age(p) \in Nat /\ Age(q) \in Nat /\ (Age(p) = Age(q) => p = q)
    BY <1>1, <1>3, AgeIs
  <2>2. ~(Age(p) < Age(q)) /\ ~(Age(q) < Age(p))
    BY <1>1, <1>2, <1>3 DEF RInv, Masks
  <2> QED
    BY <2>1, <2>2
<1>4. \A p \in b1.pos : Open(p)
  BY DEF RInv, Progress, Open
<1>5. \A p \in Valid : Waiting(p) => Open(p)
  BY DEF Waiting, Open
<1> QED
  BY <1>1, <1>2, <1>3, <1>4, <1>5

\* A uop is killed by mask exactly if a misprediction is in front of it.
LEMMA KilledIs ==
    ASSUME RInv
    PROVE  /\ \A p \in Valid : Killed(p) <=> \E q \in Mispredicted : Age(q) < Age(p)
           /\ \A p \in Valid : Killed(p) <=> Squashed(p)
           /\ \A p, q \in Valid : Killed(p) /\ Age(p) <= Age(q) => Killed(q)
           /\ b1.mis = {} <=> Mispredicted = {}
           /\ \A p \in Mispredicted : Open(p) /\ ent[p].bsy
<1>0. rob_head \in Rows /\ Valid \subseteq Spots
  BY DEF RInv, TypeOK, Valid, Spots
<1>1. \A p \in Mispredicted : Open(p) /\ p \in b1.pos /\ ent[p].br_tag \in b1.mis /\ ent[p].bsy
  BY OpenIs DEF Mispredicted, RInv, Progress
<1>2. \A t \in b1.mis : \E q \in Mispredicted : t = ent[q].br_tag
  BY DEF Mispredicted, RInv, Progress
<1>3. ASSUME NEW p \in Valid PROVE Killed(p) <=> \E q \in Mispredicted : Age(q) < Age(p)
  <2>1. ASSUME Killed(p) PROVE \E q \in Mispredicted : Age(q) < Age(p)
    <3>1. PICK t : t \in ent[p].br_mask /\ t \in b1.mis
      BY <2>1 DEF Killed
    <3>2. PICK q : Open(q) /\ Age(q) < Age(p) /\ t = ent[q].br_tag
      BY <3>1, OpenIs
    <3>3. PICK x \in Mispredicted : t = ent[x].br_tag
      BY <1>2, <3>1
    <3>4. x = q
      BY <1>1, <3>2, <3>3, OpenIs
    <3> QED
      BY <3>2, <3>3, <3>4
  <2>2. ASSUME NEW q \in Mispredicted, Age(q) < Age(p) PROVE Killed(p)
    <3>1. Open(q) /\ ent[q].br_tag \in b1.mis
      BY <1>1
    <3>2. ent[q].br_tag \in ent[p].br_mask
      BY <2>2, <3>1, OpenIs
    <3> QED
      BY <3>1, <3>2 DEF Killed
  <2> QED
    BY <2>1, <2>2
<1>4. \A p \in Valid : Killed(p) <=> Squashed(p)
  <2>1. \A p \in Valid : Squashed(p) <=> \E q \in Mispredicted : q \in Before(p)
    BY DEF Squashed
  <2>2. \A q \in Mispredicted : q \in Valid
    BY <1>1, OpenIs
  <2>3. \A p \in Valid, q \in Mispredicted : q \in Before(p) <=> Age(q) < Age(p)
    BY <2>2, BeforeIs
  <2> QED
    BY <1>3, <2>1, <2>3
<1>5. ASSUME NEW p \in Valid, NEW q \in Valid, Killed(p), Age(p) <= Age(q) PROVE Killed(q)
  <2>1. PICK x \in Mispredicted : Age(x) < Age(p)
    BY <1>3, <1>5
  <2>2. x \in Spots
    BY <1>1, OpenIs
  <2>3. Age(x) \in Nat /\ Age(p) \in Nat /\ Age(q) \in Nat
    BY <1>0, <2>2, AgeIs
  <2>4. Age(x) < Age(q)
    BY <1>5, <2>1, <2>3
  <2> QED
    BY <1>3, <2>4
<1>6. b1.mis = {} <=> Mispredicted = {}
  BY <1>2 DEF Mispredicted
<1> QED
  BY <1>1, <1>3, <1>4, <1>5, <1>6

\* What commits is a first part of the row at the head, done, and not in the shadow
\* of a misprediction.
LEMMA CommitIs ==
    ASSUME RInv, NEW stall
    PROVE  /\ \A w \in WillCommit(stall) :
                  /\ w \in Banks /\ <<rob_head, w>> \in Valid /\ Val(rob_head, w)
                  /\ ~ent[rob_head, w].bsy /\ ~ent[rob_head, w].exc
                  /\ ~Killed(<<rob_head, w>>)
                  /\ rob_state \in {"normal", "wait_till_empty"} /\ ~thrown1 /\ ~thrown2
           /\ \A w \in WillCommit(stall), v \in Banks :
                  v < w /\ Val(rob_head, v) => v \in WillCommit(stall)
<1>0. rob_head \in Rows /\ Dist(rob_head) = 0
  BY DistHead DEF RInv, TypeOK
<1>1. ASSUME NEW w \in WillCommit(stall)
      PROVE  /\ w \in Banks /\ <<rob_head, w>> \in Valid /\ Val(rob_head, w)
             /\ ~ent[rob_head, w].bsy /\ ~ent[rob_head, w].exc
             /\ rob_state \in {"normal", "wait_till_empty"} /\ ~thrown1 /\ ~thrown2
             /\ ~BlockCommit(w, stall) /\ CanCommit(w, stall)
  <2>1. w \in Banks /\ CanCommit(w, stall) /\ ~CanThrow(w) /\ ~BlockCommit(w, stall)
    BY DEF WillCommit
  <2>2. Val(rob_head, w) /\ ~ent[rob_head, w].bsy /\ ~ent[rob_head, w].exc
    BY <2>1 DEF CanCommit, CanThrow
  <2>3. rob_state \in {"normal", "wait_till_empty"} /\ ~thrown1 /\ ~thrown2
    BY <2>1 DEF BlockCommit
  <2> QED
    BY <1>0, <2>1, <2>2, <2>3, ValidIs DEF RInv
<1>2. ASSUME NEW w \in WillCommit(stall), NEW v \in Banks, v < w, Val(rob_head, v)
      PROVE  v \in WillCommit(stall)
  <2>1. w \in Nat /\ v \in Nat
    BY <1>1, Constants
  <2>2. \A u \in 0..(w - 1) : Val(rob_head, u) => CanCommit(u, stall) /\ ~CanThrow(u)
    BY <1>1 DEF BlockCommit
  <2>3. v \in 0..(w - 1) /\ \A u \in 0..(v - 1) : u \in 0..(w - 1)
    BY <1>2, <2>1
  <2>4. ~BlockCommit(v, stall)
    BY <1>1, <2>2, <2>3 DEF BlockCommit
  <2> QED
    BY <1>2, <2>2, <2>3, <2>4 DEF WillCommit
<1>3. ASSUME NEW w \in WillCommit(stall), Killed(<<rob_head, w>>) PROVE FALSE
  <2>1. PICK p \in Valid : p = <<rob_head, w>> /\ p[1] = rob_head /\ p[2] = w
    BY <1>1
  <2>2. PICK q \in Mispredicted : Age(q) < Age(p)
    BY <1>3, <2>1, KilledIs
  <2>3. q \in Valid /\ q \in Spots /\ p \in Spots /\ ent[q].bsy
    BY <2>1, <2>2, KilledIs, OpenIs DEF Valid, Spots
  <2>4. q[1] \in Rows /\ q[2] \in Banks /\ q = <<q[1], q[2]>> /\ Dist(q[1]) \in Nat
    BY <1>0, <2>3, DistIs, SpotIs
  <2>5. q[1] = rob_head /\ q[2] < w
    <3>1. Dist(q[1]) < Dist(p[1]) \/ (Dist(q[1]) = Dist(p[1]) /\ q[2] < p[2])
      BY <1>0, <2>2, <2>3, AgeIs
    <3>2. Dist(q[1]) = 0 /\ q[2] < w
      BY <1>0, <2>1, <2>4, <3>1
    <3> QED
      BY <1>0, <2>4, <3>2, DistHead
  <2>6. q[2] \in WillCommit(stall)
    <3>1. Val(rob_head, q[2])
      BY <2>3, <2>4, <2>5, ValidIs DEF RInv
    <3> QED
      BY <1>2, <2>4, <2>5, <3>1
  <2> QED
    BY <1>1, <2>3, <2>4, <2>5, <2>6
<1> QED
  BY <1>1, <1>2, <1>3

-----------------------------------------------------------------------------
(* The parts of a cycle. *)

\* The next value of every variable but the entries.
LEMMA CycleIs ==
    ASSUME NEW extra, NEW stall, NEW E, NEW R, NEW M, NEW lx, Clocked(extra, stall, E, R, M, lx)
    PROVE  /\ rob_state' = StateAfter(EnqValids(extra))
           /\ HeadAfter(stall) /\ TailAfter(EnqValids(extra), Stalled(extra))
           /\ PnrAfter(EnqValids(extra), stall)
           /\ maybe_full' = MaybeFullAfter(EnqValids(extra), Stalled(extra), stall)
           /\ r_partial_row' = IF EnqValids(extra) # {} THEN Stalled(extra) ELSE r_partial_row
           /\ r_xcpt' = XcptAfter(lx, EnqValids(extra), stall)
           /\ thrown1' = ExceptionThrown(stall) /\ thrown2' = thrown1 /\ flush1' = FlushVal(stall)
           /\ b1' = [res |-> {ent[p].br_tag : p \in R}, mis |-> {ent[p].br_tag : p \in M}, pos |-> R]
           /\ b2' = IF b1.mis = {} THEN [mispredict |-> FALSE, pos |-> <<0, 0>>]
                    ELSE [mispredict |-> TRUE, pos |-> OldestMis]
           /\ IF RedirectFlush THEN pkt' = NoPkt
              ELSE IF Stalled(extra)
              THEN pkt' = [w \in Banks |-> IF w \in EnqValids(extra) THEN "none" ELSE pkt[w]]
              ELSE pkt' \in Packets \cup {NoPkt}
           /\ kinds' = kinds
           /\ order' = OrderAfter(EnqValids(extra), stall)
BY DEF Clocked, Cycle

\* The redirects that a cycle passes on.
LEMMA RedirectNext ==
    ASSUME NEW extra, NEW stall, NEW E, NEW R, NEW M, NEW lx, Clocked(extra, stall, E, R, M, lx)
    PROVE  /\ b1'.pos = R /\ b1'.res = {ent[p].br_tag : p \in R}
           /\ b1'.mis = {ent[p].br_tag : p \in M}
           /\ b2'.mispredict = (b1.mis # {})
           /\ b1.mis # {} => b2'.pos = OldestMis
           /\ b1.mis = {} => b2'.pos = <<0, 0>>
           /\ M \subseteq R
<1>1. M \subseteq R
  BY DEF Clocked
<1>2. b2' = IF b1.mis = {} THEN [mispredict |-> FALSE, pos |-> <<0, 0>>]
            ELSE [mispredict |-> TRUE, pos |-> OldestMis]
  BY CycleIs
<1>3. b1' = [res |-> {ent[p].br_tag : p \in R}, mis |-> {ent[p].br_tag : p \in M}, pos |-> R]
  BY CycleIs
<1> QED
  BY <1>1, <1>2, <1>3

\* Where the rows in use begin and end.
LEMMA LimitIs ==
    ASSUME RInv
    PROVE  /\ rob_head \in Rows /\ rob_tail \in Rows /\ Valid \subseteq Spots
           /\ Limit \in Nat /\ Limit <= NumRows
           /\ ~b2.mispredict /\ Full => Limit = NumRows
           /\ ~b2.mispredict /\ ~Full => Limit = Dist(rob_tail)
           /\ \A p \in Valid : Dist(p[1]) <= Limit
           /\ \A p \in Valid : b2.mispredict => Dist(p[1]) < Limit
           /\ b2.mispredict => b2.pos \in Valid /\ b2.pos \in Spots /\ Limit = Dist(b2.pos[1]) + 1
<1>1. rob_head \in Rows /\ rob_tail \in Rows /\ Valid \subseteq Spots
  BY DEF RInv, TypeOK, Valid, Spots
<1>2. ASSUME b2.mispredict
      PROVE  /\ b2.pos \in Valid /\ b2.pos \in Spots /\ Limit = Dist(b2.pos[1]) + 1
             /\ b2.pos[1] \in Rows
  <2>1. b2.pos \in Valid /\ b2.pos \in Spots
    BY <1>1, <1>2 DEF RInv, Shape
  <2> QED
    BY <1>2, <2>1, SpotIs DEF Limit
<1>3. (~b2.mispredict /\ Full => Limit = NumRows) /\ (~b2.mispredict /\ ~Full => Limit = Dist(rob_tail))
  BY DEF Limit
<1>4. Limit \in Nat /\ Limit <= NumRows
  <2>1. CASE b2.mispredict
    BY <1>1, <1>2, <2>1, DistIs, Constants
  <2>2. CASE ~b2.mispredict
    BY <1>1, <1>3, <2>2, DistIs, Constants
  <2> QED
    BY <2>1, <2>2
<1>5. ASSUME NEW p \in Valid
      PROVE  Dist(p[1]) <= Limit /\ (b2.mispredict => Dist(p[1]) < Limit)
  <2>1. p[1] \in Rows /\ Dist(p[1]) \in Nat
    BY <1>1, SpotIs, DistIs
  <2>2. Dist(p[1]) < Limit \/ (~b2.mispredict /\ ~Full /\ p[1] = rob_tail)
    BY DEF RInv, Shape
  <2> QED
    BY <1>3, <1>4, <2>1, <2>2
<1> QED
  BY <1>1, <1>2, <1>3, <1>4, <1>5

\* The head pointer and HeadVals find out whether anything is in flight.
LEMMA EmptyIs ==
    ASSUME RInv, Empty
    PROVE  Valid = {} /\ ~b2.mispredict /\ ~Full
<1>1. /\ rob_head = rob_tail /\ \A w \in Banks : ~Val(rob_head, w)
      /\ rob_head \in Rows /\ Dist(rob_head) = 0
  BY LimitIs, DistHead DEF Empty, HeadVals
<1>2. ~(0 < Limit)
  BY <1>1 DEF RInv, Shape
<1>3. ~b2.mispredict
  <2>1. b2.mispredict => Limit = Dist(b2.pos[1]) + 1 /\ b2.pos[1] \in Rows
    BY LimitIs, SpotIs
  <2> QED
    BY <1>1, <1>2, <2>1, DistIs
<1>4. ~Full
  BY <1>2, <1>3, LimitIs, Constants
<1>5. ASSUME NEW p \in Valid PROVE FALSE
  <2>1. p \in Spots /\ p = <<p[1], p[2]>> /\ p[2] \in Banks /\ p[1] \in Rows
    BY LimitIs, SpotIs
  <2>2. Dist(p[1]) \in Nat /\ Dist(p[1]) <= Limit /\ Limit \in Nat
    BY <1>1, <2>1, LimitIs, DistIs
  <2>3. Dist(p[1]) = 0
    BY <1>2, <2>2
  <2>4. Val(rob_head, p[2])
    BY <1>1, <2>1, <2>3, DistHead, ValidIs DEF RInv
  <2> QED
    BY <1>1, <2>1, <2>4
<1> QED
  BY <1>3, <1>4, <1>5

\* An exception is thrown for the oldest uop of all, and with nothing committed.
LEMMA ThrowIs ==
    ASSUME RInv, NEW stall, ExceptionThrown(stall)
    PROVE  \E w \in Banks :
             /\ <<rob_head, w>> \in Valid /\ Val(rob_head, w) /\ ent[rob_head, w].exc
             /\ \A v \in HeadVals : w <= v
             /\ w = SetMin(HeadVals)
             /\ r_xcpt.val /\ r_xcpt.pos = <<rob_head, w>>
             /\ \A q \in Valid : Age(<<rob_head, w>>) <= Age(q)
             /\ WillCommit(stall) = {} /\ rob_state = "normal" /\ ~thrown1 /\ ~thrown2
<1>1. PICK w \in Banks : CanThrow(w) /\ ~BlockCommit(w, stall) /\ w - 1 \notin WillCommit(stall)
  BY DEF ExceptionThrown
<1>2. /\ Val(rob_head, w) /\ ent[rob_head, w].exc
      /\ rob_state \in {"normal", "wait_till_empty"} /\ ~thrown1 /\ ~thrown2
      /\ \A v \in 0..(w - 1) : Val(rob_head, v) => CanCommit(v, stall) /\ ~CanThrow(v)
  BY <1>1 DEF CanThrow, BlockCommit
<1>3. rob_head \in Rows /\ Dist(rob_head) = 0 /\ <<rob_head, w>> \in Valid /\ Valid \subseteq Spots
  BY <1>1, <1>2, LimitIs, DistHead, ValidIs DEF RInv
<1>4. w \in Nat /\ w < CoreWidth
  BY <1>1, Constants
<1>5. ASSUME NEW u \in HeadVals, u < w PROVE FALSE
  <2>1. u \in Nat /\ u \in Banks /\ Val(rob_head, u)
    BY Constants DEF HeadVals
  <2>2. PICK x : x = w - 1
    OBVIOUS
  <2>3. x \in Nat /\ x < w /\ u <= x /\ x \in Banks
    BY <1>4, <1>5, <2>1, <2>2, Constants
  <2>4. Val(rob_head, x)
    <3>1. CASE u = x
      BY <2>1, <3>1
    <3>2. CASE u # x
      <4>1. u < x
        BY <2>1, <2>3, <3>2
      <4> QED
        BY <1>1, <1>2, <1>3, <2>1, <2>3, <4>1 DEF RInv, Shape
    <3> QED
      BY <3>1, <3>2
  <2>5. x \in 0..(w - 1) /\ \A v \in 0..(x - 1) : v \in 0..(w - 1)
    BY <1>4, <2>3
  <2>6. CanCommit(x, stall) /\ ~CanThrow(x)
    BY <1>2, <2>4, <2>5
  <2>7. ~BlockCommit(x, stall)
    BY <1>2, <2>5 DEF BlockCommit
  <2> QED
    BY <1>1, <2>2, <2>3, <2>6, <2>7 DEF WillCommit
<1>6. \A v \in HeadVals : v \in Nat /\ w <= v
  <2>1. \A v \in HeadVals : v \in Nat /\ ~(v < w)
    BY <1>5, Constants DEF HeadVals
  <2> QED
    BY <1>4, <2>1
<1>7. w \in HeadVals
  BY <1>1, <1>2 DEF HeadVals
<1>8. w = SetMin(HeadVals)
  <2>1. HeadVals \subseteq Nat
    BY <1>6
  <2>2. SetMin(HeadVals) \in HeadVals /\ SetMin(HeadVals) <= w
    BY <1>7, <2>1, MinIs
  <2> QED
    BY <1>4, <1>6, <2>2
<1>9. ~thrown1 /\ ~thrown2 /\ rob_state # "rollback"
  BY <1>2
<1>10. r_xcpt.val
  BY <1>2, <1>3, <1>9 DEF RInv, Excepted
<1>11. rob_state = "normal"
  BY <1>10 DEF RInv, Control
<1>12. ASSUME NEW q \in Valid PROVE Age(<<rob_head, w>>) <= Age(q)
  <2>1. q \in Spots /\ q[1] \in Rows /\ q[2] \in Banks /\ q = <<q[1], q[2]>> /\ Dist(q[1]) \in Nat
    BY <1>3, SpotIs, DistIs
  <2>2. PICK p \in Spots : p = <<rob_head, w>> /\ p[1] = rob_head /\ p[2] = w
    BY <1>3
  <2>3. CASE Dist(q[1]) = 0
    <3>1. q[1] = rob_head
      BY <1>3, <2>1, <2>3, DistHead
    <3>2. q[2] \in HeadVals
      BY <2>1, <3>1, ValidIs DEF RInv, HeadVals
    <3> QED
      BY <1>3, <1>6, <2>1, <2>2, <3>1, <3>2, AgeIs
  <2>4. CASE Dist(q[1]) # 0
    BY <1>3, <2>1, <2>2, <2>4, AgeIs
  <2> QED
    BY <2>3, <2>4
<1>13. r_xcpt.pos = <<rob_head, w>>
  <2>1. PICK p \in Valid : p = <<rob_head, w>>
    BY <1>3
  <2>2. PICK x \in Valid : x = r_xcpt.pos
    BY <1>10 DEF RInv, Excepted
  <2>3. Age(x) <= Age(p)
    BY <1>2, <1>10, <2>1, <2>2 DEF RInv, Excepted
  <2>4. Age(p) <= Age(x)
    BY <1>12, <2>1
  <2>5. p \in Spots /\ x \in Spots
    BY <1>3
  <2> QED
    BY <1>3, <2>1, <2>2, <2>3, <2>4, <2>5, AgeIs
<1>14. WillCommit(stall) = {}
  <2>1. ASSUME NEW v \in WillCommit(stall) PROVE FALSE
    <3>1. v \in Banks /\ Val(rob_head, v) /\ ~ent[rob_head, v].exc
      BY <2>1, CommitIs
    <3>2. v \in HeadVals /\ v # w /\ v \in Nat
      BY <1>2, <1>6, <3>1 DEF HeadVals
    <3>3. w \in Banks /\ w < v
      BY <1>1, <1>4, <1>6, <3>2
    <3>4. w \in WillCommit(stall)
      BY <1>2, <2>1, <3>3, CommitIs
    <3> QED
      BY <1>2, <3>4, CommitIs
  <2> QED
    BY <2>1
<1> QED
  BY <1>1, <1>2, <1>3, <1>6, <1>8, <1>9, <1>10, <1>11, <1>12, <1>13, <1>14

\* A row that is finished is not the row that dispatch still fills.
LEMMA FinishedIs ==
    ASSUME RInv, NEW stall, FinishedRow(stall)
    PROVE  /\ WillCommit(stall) = HeadVals /\ HeadVals # {}
           /\ rob_state \in {"normal", "wait_till_empty"} /\ ~RollbackARow /\ ~RbkRow
           /\ ~b2.mispredict /\ ~Full => rob_tail # rob_head
           /\ ~(~b2.mispredict /\ Limit = 0)
<1>1. /\ WillCommit(stall) = HeadVals /\ HeadVals # {}
      /\ ~(r_partial_row /\ rob_head = rob_tail /\ ~maybe_full)
  BY DEF FinishedRow
<1>2. PICK w \in WillCommit(stall) : w \in HeadVals
  BY <1>1
<1>3. rob_state \in {"normal", "wait_till_empty"} /\ Val(rob_head, w) /\ w \in Banks
  BY <1>2, CommitIs
<1>4. ~RollbackARow /\ ~RbkRow
  BY <1>3 DEF RollbackARow, RbkRow
<1>5. ASSUME ~b2.mispredict, ~Full, rob_tail = rob_head PROVE FALSE
  <2>1. r_partial_row
    BY <1>3, <1>5 DEF RInv, Partial
  <2>2. ~maybe_full
    BY <1>5 DEF Full
  <2> QED
    BY <1>1, <1>5, <2>1, <2>2
<1>6. ASSUME ~b2.mispredict, Limit = 0 PROVE FALSE
  <2>1. ~Full
    BY <1>6, LimitIs, Constants
  <2>2. rob_tail = rob_head
    BY <1>6, <2>1, LimitIs, DistHead
  <2> QED
    BY <1>5, <1>6, <2>1, <2>2
<1> QED
  BY <1>1, <1>3, <1>4, <1>5, <1>6

-----------------------------------------------------------------------------
(* What stays, and where it is in the next cycle. *)

\* What stays in the ring through a cycle.
LEMMA LeftIs ==
    ASSUME RInv, NEW stall
    PROVE  /\ \A p \in Left(stall) : /\ p \in Valid /\ p \in Spots /\ ~Killed(p)
                                     /\ p[1] \in Rows /\ p[2] \in Banks
                                     /\ ~(p[1] = rob_head /\ p[2] \in WillCommit(stall))
                                     /\ ~(RbkRow /\ p[1] = rob_tail)
           /\ \A p \in Valid : /\ ent[p].bsy \/ ent[p].exc
                               /\ ~Killed(p) /\ rob_state # "rollback"
                               => p \in Left(stall)
           /\ \A p \in Valid, q \in Left(stall) :
                  Age(p) <= Age(q) /\ (p[1] = rob_head => p[2] \notin WillCommit(stall))
                      => p \in Left(stall)
<1>0. rob_head \in Rows /\ rob_tail \in Rows /\ Valid \subseteq Spots
  BY LimitIs
<1>1. \A p \in Left(stall) : /\ p \in Valid /\ p \in Spots /\ ~Killed(p)
                             /\ p[1] \in Rows /\ p[2] \in Banks
                             /\ ~(p[1] = rob_head /\ p[2] \in WillCommit(stall))
                             /\ ~(RbkRow /\ p[1] = rob_tail)
  BY <1>0, SpotIs DEF Left
<1>2. ASSUME NEW p \in Valid, ent[p].bsy \/ ent[p].exc, ~Killed(p), rob_state # "rollback"
      PROVE  p \in Left(stall)
  <2>1. p = <<p[1], p[2]>>
    BY <1>0, SpotIs
  <2>2. ASSUME p[1] = rob_head, p[2] \in WillCommit(stall) PROVE FALSE
    <3>1. ~ent[rob_head, p[2]].bsy /\ ~ent[rob_head, p[2]].exc
      BY <2>2, CommitIs
    <3>2. p = <<rob_head, p[2]>>
      BY <2>1, <2>2
    <3> QED
      BY <1>2, <3>1, <3>2
  <2> QED
    BY <1>2, <2>2 DEF Left, RbkRow
<1>3. ASSUME NEW p \in Valid, NEW q \in Left(stall), Age(p) <= Age(q),
             p[1] = rob_head => p[2] \notin WillCommit(stall)
      PROVE  p \in Left(stall)
  <2>1. ~Killed(p)
    BY <1>1, <1>3, KilledIs
  <2>2. ASSUME RbkRow, p[1] = rob_tail PROVE FALSE
    <3>1. rob_state = "rollback" /\ ~Full
      BY <2>2 DEF RbkRow
    <3>2. ~b2.mispredict
      BY <3>1 DEF RInv, Control
    <3>3. Dist(q[1]) <= Dist(rob_tail) /\ q[1] \in Rows /\ Dist(q[1]) \in Nat /\ Dist(rob_tail) \in Nat
      BY <1>0, <1>1, <3>1, <3>2, LimitIs, DistIs
    <3>4. Dist(p[1]) <= Dist(q[1])
      BY <1>0, <1>1, <1>3, <2>2, <3>3, AgeIs
    <3>5. q[1] = rob_tail
      BY <1>0, <2>2, <3>3, <3>4, DistSame
    <3> QED
      BY <1>1, <2>2, <3>5
  <2> QED
    BY <1>3, <2>1, <2>2 DEF Left
<1> QED
  BY <1>1, <1>2, <1>3

\* Dispatch appends behind everything that stays.
LEMMA AddedLast ==
    ASSUME RInv, NEW extra, NEW stall, EnqValids(extra) # {}
    PROVE  /\ \A p \in Valid, q \in Added(extra) : Age(p) < Age(q)
           /\ \A q \in Added(extra) : q[1] = rob_tail /\ q[2] \in EnqValids(extra) /\ q \in Spots
                                      /\ q = <<rob_tail, q[2]>>
           /\ \A w \in EnqValids(extra) : <<rob_tail, w>> \in Added(extra)
           /\ rob_state = "normal" /\ ~Full /\ ~b2.mispredict /\ b1.mis = {} /\ ~flush1
           /\ ~thrown1 /\ ~thrown2 /\ ~RbkRow /\ ~RollbackARow /\ ~r_xcpt.val
           /\ \A p : ~Killed(p)
<1>0. rob_head \in Rows /\ rob_tail \in Rows /\ Valid \subseteq Spots /\ TypeOK /\ Partial
  BY LimitIs DEF RInv
<1>1. rob_state = "normal" /\ ~Full /\ ~b2.mispredict /\ b1.mis = {} /\ ~flush1 /\ ~r_xcpt.val
  BY <1>0, EnqIs
<1>2. PICK w \in EnqValids(extra) : w \in Banks /\ Pending(w)
  BY <1>0, EnqIs
<1>3. ~thrown1 /\ ~thrown2 /\ ~RbkRow /\ ~RollbackARow
  BY <1>1, <1>2 DEF RInv, Control, RbkRow, RollbackARow
<1>4. \A q \in Added(extra) : q[1] = rob_tail /\ q[2] \in EnqValids(extra) /\ q \in Spots
                              /\ q = <<rob_tail, q[2]>>
  BY <1>0, AddedIs
<1>5. \A v \in EnqValids(extra) : <<rob_tail, v>> \in Added(extra)
  BY DEF Added
<1>6. ASSUME NEW p \in Valid, NEW q \in Added(extra) PROVE Age(p) < Age(q)
  <2>1. q[1] = rob_tail /\ q[2] \in EnqValids(extra) /\ q \in Spots
    BY <1>4
  <2>2. p \in Spots /\ p = <<p[1], p[2]>> /\ p[1] \in Rows /\ p[2] \in Banks
    BY <1>0, SpotIs
  <2>3. Dist(p[1]) <= Dist(rob_tail) /\ Dist(p[1]) \in Nat /\ Dist(rob_tail) \in Nat
    BY <1>0, <1>1, <2>2, LimitIs, DistIs
  <2>4. CASE Dist(p[1]) = Dist(rob_tail)
    <3>1. p[1] = rob_tail
      BY <1>0, <2>2, <2>4, DistSame
    <3>2. Val(rob_tail, p[2]) /\ Pending(q[2]) /\ q[2] \in Banks
      BY <1>0, <2>1, <2>2, <3>1, ValidIs, EnqIs
    <3>3. p[2] < q[2]
      BY <1>0, <1>1, <2>2, <3>2 DEF Partial
    <3> QED
      BY <1>0, <2>1, <2>2, <3>1, <3>3, AgeIs
  <2>5. CASE Dist(p[1]) # Dist(rob_tail)
    <3>1. Dist(p[1]) < Dist(q[1])
      BY <2>1, <2>3, <2>5
    <3> QED
      BY <1>0, <2>1, <2>2, <3>1, AgeIs
  <2> QED
    BY <2>4, <2>5
<1>7. \A p : ~Killed(p)
  BY <1>1 DEF Killed
<1> QED
  BY <1>1, <1>3, <1>4, <1>5, <1>6, <1>7

Moves(stall) == IF FinishedRow(stall) THEN 1 ELSE 0

\* The head moves past its row when that row has finished, and what stays follows it.
LEMMA HeadNext ==
    ASSUME RInv, NEW extra, NEW stall, NEW E, NEW R, NEW M, NEW lx,
           Clocked(extra, stall, E, R, M, lx)
    PROVE  /\ rob_head' \in Rows
           /\ Moves(stall) \in {0, 1}
           /\ \A r \in Rows : Dist(r)' = IF Moves(stall) = 0 THEN Dist(r)
                                         ELSE IF Dist(r) = 0 THEN NumRows - 1 ELSE Dist(r) - 1
           /\ \A p \in Left(stall) \cup Added(extra) :
                  /\ p \in Spots /\ p[1] \in Rows /\ p[2] \in Banks
                  /\ Moves(stall) <= Dist(p[1])
                  /\ Dist(p[1])' = Dist(p[1]) - Moves(stall)
           /\ Moves(stall) = 0 => rob_head' = rob_head
           /\ Moves(stall) = 1 <=> FinishedRow(stall)
<1>0. rob_head \in Rows /\ rob_tail \in Rows
  BY LimitIs
<1>1. rob_head' = IF FinishedRow(stall) THEN WrapInc(rob_head) ELSE rob_head
  BY CycleIs DEF HeadAfter
<1>2. rob_head' \in Rows
  BY <1>0, <1>1, WrapIncIs
<1>3. Moves(stall) \in {0, 1} /\ (Moves(stall) = 1 <=> FinishedRow(stall))
  BY DEF Moves
<1>4. \A r \in Rows : Dist(r)' = IF Moves(stall) = 0 THEN Dist(r)
                                 ELSE IF Dist(r) = 0 THEN NumRows - 1 ELSE Dist(r) - 1
  <2>1. CASE FinishedRow(stall)
    BY <1>0, <1>1, <1>3, <2>1, DistNext
  <2>2. CASE ~FinishedRow(stall)
    BY <1>0, <1>1, <2>2, DistNext DEF Moves
  <2> QED
    BY <2>1, <2>2
<1>5. ASSUME NEW p \in Left(stall) \cup Added(extra)
      PROVE  p \in Spots /\ p[1] \in Rows /\ p[2] \in Banks /\ Moves(stall) <= Dist(p[1])
  <2>1. p \in Spots
    BY LeftIs, AddedIs DEF RInv
  <2>2. p[1] \in Rows /\ p[2] \in Banks /\ Dist(p[1]) \in Nat /\ p = <<p[1], p[2]>>
    BY <1>0, <2>1, SpotIs, DistIs
  <2>3. ASSUME FinishedRow(stall), Dist(p[1]) = 0 PROVE FALSE
    <3>1. p[1] = rob_head
      BY <1>0, <2>2, <2>3, DistHead
    <3>2. CASE p \in Left(stall)
      <4>1. p[2] \in HeadVals
        BY <2>2, <3>1, <3>2, LeftIs, ValidIs DEF HeadVals, RInv
      <4> QED
        BY <2>3, <3>1, <3>2, <4>1, FinishedIs, LeftIs
    <3>3. CASE p \in Added(extra)
      <4>1. EnqValids(extra) # {}
        BY <3>3 DEF Added
      <4>2. rob_tail = rob_head /\ ~Full /\ ~b2.mispredict
        BY <3>1, <3>3, <4>1, AddedLast
      <4> QED
        BY <2>3, <4>2, FinishedIs
    <3> QED
      BY <3>2, <3>3
  <2>4. Moves(stall) <= Dist(p[1])
    BY <2>2, <2>3 DEF Moves
  <2> QED
    BY <2>1, <2>2, <2>4
<1>6. ASSUME NEW p \in Left(stall) \cup Added(extra) PROVE Dist(p[1])' = Dist(p[1]) - Moves(stall)
  <2>1. PICK r \in Rows : r = p[1]
    BY <1>5
  <2>2. PICK d \in Nat : d = Dist(r)
    BY <1>0, DistIs
  <2>3. Dist(p[1])' = IF Moves(stall) = 0 THEN d ELSE IF d = 0 THEN NumRows - 1 ELSE d - 1
    BY <1>4, <2>1, <2>2
  <2>4. Moves(stall) <= d
    BY <1>5, <2>1, <2>2
  <2> QED
    BY <1>3, <2>1, <2>2, <2>3, <2>4
<1>7. Moves(stall) = 0 => rob_head' = rob_head
  BY <1>1, <1>3
<1> QED
  BY <1>2, <1>3, <1>4, <1>5, <1>6, <1>7

\* So the order of ages stays.
LEMMA AgeNext ==
    ASSUME RInv, NEW extra, NEW stall, NEW E, NEW R, NEW M, NEW lx,
           Clocked(extra, stall, E, R, M, lx),
           NEW p \in Left(stall) \cup Added(extra), NEW q \in Left(stall) \cup Added(extra)
    PROVE  /\ (Age(p) <= Age(q))' <=> Age(p) <= Age(q)
           /\ (Age(p) < Age(q))' <=> Age(p) < Age(q)
           /\ Age(p) \in Nat /\ Age(q) \in Nat /\ (Age(p) = Age(q) => p = q)
           /\ Age(p)' \in Nat /\ Age(q)' \in Nat
<1>0. rob_head \in Rows
  BY LimitIs
<1>1. PICK d \in Nat, e \in Nat, m \in Nat :
          d = Dist(p[1]) /\ e = Dist(q[1]) /\ m = Moves(stall) /\ m <= d /\ m <= e
  BY <1>0, HeadNext, DistIs
<1>2. PICK v \in Nat, w \in Nat : v = p[2] /\ w = q[2] /\ v < CoreWidth /\ w < CoreWidth
  BY HeadNext, Constants
<1>3. PICK i \in Nat, j \in Nat : i = d - m /\ j = e - m
  BY <1>1
<1>4. Dist(p[1])' = i /\ Dist(q[1])' = j
  BY <1>1, <1>3, HeadNext
<1>5. Age(p) = d * CoreWidth + v /\ Age(q) = e * CoreWidth + w
  BY <1>1, <1>2 DEF Age
<1>6. Age(p)' = i * CoreWidth + v /\ Age(q)' = j * CoreWidth + w
  BY <1>2, <1>4 DEF Age
<1>7. CoreWidth \in Nat
  BY Constants
<1>8. /\ d * CoreWidth + v <= e * CoreWidth + w <=> d < e \/ (d = e /\ v <= w)
      /\ d * CoreWidth + v < e * CoreWidth + w <=> d < e \/ (d = e /\ v < w)
      /\ i * CoreWidth + v <= j * CoreWidth + w <=> i < j \/ (i = j /\ v <= w)
      /\ i * CoreWidth + v < j * CoreWidth + w <=> i < j \/ (i = j /\ v < w)
  BY <1>2, <1>7, DigitsLeq
<1>9. (i < j <=> d < e) /\ (i = j <=> d = e)
  BY <1>1, <1>3
<1>10. /\ (Age(p) <= Age(q))' <=> Age(p) <= Age(q)
       /\ (Age(p) < Age(q))' <=> Age(p) < Age(q)
  BY <1>5, <1>6, <1>8, <1>9
<1>11. Age(p) \in Nat /\ Age(q) \in Nat /\ (Age(p) = Age(q) => p = q)
  BY <1>0, HeadNext, AgeIs
<1>12. i * CoreWidth + v \in Nat /\ j * CoreWidth + w \in Nat
  BY <1>2, <1>7, DigitsLess
<1> QED
  BY <1>6, <1>10, <1>11, <1>12

-----------------------------------------------------------------------------
(* Ages and the comparison of the hardware. *)

\* The index of a place in the ring, on which IsOlder works, orders rows, then banks.
LEMMA IdxIs ==
    ASSUME NEW r \in Rows, NEW v \in Banks, NEW s \in Rows, NEW w \in Banks
    PROVE  /\ Idx(r, v) \in Nat /\ Idx(s, w) \in Nat
           /\ Idx(r, v) < Idx(s, w) <=> r < s \/ (r = s /\ v < w)
           /\ Idx(r, v) = Idx(s, w) => r = s /\ v = w
<1>1. r \in Nat /\ s \in Nat /\ v \in Nat /\ w \in Nat /\ v < CoreWidth /\ w < CoreWidth
      /\ CoreWidth \in Nat
  BY Constants
<1>2. r * CoreWidth + v \in Nat /\ s * CoreWidth + w \in Nat
  BY <1>1, DigitsLess
<1>3. /\ r * CoreWidth + v < s * CoreWidth + w <=> r < s \/ (r = s /\ v < w)
      /\ r * CoreWidth + v <= s * CoreWidth + w <=> r < s \/ (r = s /\ v <= w)
  BY <1>1, DigitsLeq
<1>4. PICK i \in Nat, j \in Nat : i = r * CoreWidth + v /\ j = s * CoreWidth + w
  BY <1>2
<1>5. i < j <=> r < s \/ (r = s /\ v < w)
  BY <1>3, <1>4
<1>6. i <= j <=> r < s \/ (r = s /\ v <= w)
  BY <1>3, <1>4
<1>7. i = j => r = s /\ v = w
  BY <1>1, <1>5, <1>6
<1> QED
  BY <1>4, <1>5, <1>7 DEF Idx

\* IsOlder (util.scala) with the head as reference tells which of two entries is older.
LEMMA OlderIs ==
    ASSUME RInv, NEW p \in Valid, NEW q \in Valid
    PROVE  IsOlder(IdxOf(p), IdxOf(q), HeadIdx) <=> Age(p) < Age(q)
<1>0. rob_head \in Rows /\ p \in Spots /\ q \in Spots /\ rob_head_lsb \in Banks
  BY LimitIs DEF RInv, TypeOK
<1>1. PICK a \in Nat, v \in Nat, b \in Nat, w \in Nat, h \in Nat, l \in Nat :
          /\ a = p[1] /\ v = p[2] /\ b = q[1] /\ w = q[2] /\ h = rob_head /\ l = rob_head_lsb
          /\ v < CoreWidth /\ w < CoreWidth /\ l < CoreWidth
          /\ a < NumRows /\ b < NumRows /\ h < NumRows
  BY <1>0, SpotIs, Constants
<1>2. a \in Rows /\ b \in Rows /\ v \in Banks /\ w \in Banks /\ p = <<a, v>> /\ q = <<b, w>>
  BY <1>0, <1>1, SpotIs
<1>3. (a = h => l <= v) /\ (b = h => l <= w)
  <2>1. a = h => Val(rob_head, v)
    BY <1>1, <1>2, ValidIs DEF RInv
  <2>2. b = h => Val(rob_head, w)
    BY <1>1, <1>2, ValidIs DEF RInv
  <2> QED
    BY <1>1, <1>2, <2>1, <2>2 DEF RInv, Shape
<1>4. PICK i \in Nat, j \in Nat, k \in Nat :
         /\ i = Idx(a, v) /\ j = Idx(b, w) /\ k = Idx(h, l)
         /\ (i < j <=> a < b \/ (a = b /\ v < w))
         /\ (i < k <=> a < h \/ (a = h /\ v < l))
         /\ (j < k <=> b < h \/ (b = h /\ w < l))
  <2>1. Idx(a, v) \in Nat /\ Idx(b, w) \in Nat /\ Idx(h, l) \in Nat
    BY <1>0, <1>1, <1>2, IdxIs
  <2>2. Idx(a, v) < Idx(b, w) <=> a < b \/ (a = b /\ v < w)
    BY <1>2, IdxIs
  <2>3. Idx(a, v) < Idx(h, l) <=> a < h \/ (a = h /\ v < l)
    BY <1>0, <1>1, <1>2, IdxIs
  <2>4. Idx(b, w) < Idx(h, l) <=> b < h \/ (b = h /\ w < l)
    BY <1>0, <1>1, <1>2, IdxIs
  <2> QED
    BY <2>1, <2>2, <2>3, <2>4
<1>5. IdxOf(p) = i /\ IdxOf(q) = j /\ HeadIdx = k
  BY <1>1, <1>4 DEF IdxOf, HeadIdx
<1>6. (i < k <=> a < h) /\ (j < k <=> b < h)
  BY <1>1, <1>3, <1>4
<1>7. PICK d \in Nat, e \in Nat :
         /\ d = Dist(p[1]) /\ d = IF a < h THEN (a - h) + NumRows ELSE a - h
         /\ e = Dist(q[1]) /\ e = IF b < h THEN (b - h) + NumRows ELSE b - h
  BY <1>0, <1>1, <1>2, DistIs
<1>8. Age(p) < Age(q) <=> d < e \/ (d = e /\ v < w)
  <2>1. Age(p) < Age(q) <=> Dist(p[1]) < Dist(q[1]) \/ (Dist(p[1]) = Dist(q[1]) /\ p[2] < q[2])
    BY <1>0, AgeIs
  <2> QED
    BY <1>1, <1>7, <2>1
<1>9. d < e \/ (d = e /\ v < w) <=> IF a < h <=> b < h THEN i < j ELSE b < h
  <2>1. CASE a < h /\ b < h
    BY <1>1, <1>4, <1>7, <2>1, Constants
  <2>2. CASE ~(a < h) /\ ~(b < h)
    BY <1>1, <1>4, <1>7, <2>2, Constants
  <2>3. CASE a < h /\ ~(b < h)
    BY <1>1, <1>7, <2>3, Constants
  <2>4. CASE ~(a < h) /\ b < h
    BY <1>1, <1>7, <2>4, Constants
  <2> QED
    BY <2>1, <2>2, <2>3, <2>4
<1>10. a < h /\ ~(b < h) => i < j
  BY <1>1, <1>4
<1>11. ~(a < h) /\ b < h => ~(i < j)
  BY <1>1, <1>4
<1>12. PICK x \in BOOLEAN, y \in BOOLEAN, z \in BOOLEAN :
          x = (i < j) /\ y = (i < k) /\ z = (j < k)
  <2>1. (i < j) \in BOOLEAN /\ (i < k) \in BOOLEAN /\ (j < k) \in BOOLEAN
    OBVIOUS
  <2> QED
    BY <2>1, Zenon
<1>13. IsOlder(i, j, k) = ((x # y) # z)
  BY <1>12 DEF IsOlder
<1>15. y = (a < h) /\ z = (b < h)
  BY <1>6, <1>12
<1>16. (IF y <=> z THEN x ELSE z) <=> ((x # y) # z)
  <2>2. y /\ ~z => x
    BY <1>10, <1>12, <1>15
  <2>3. ~y /\ z => ~x
    BY <1>11, <1>12, <1>15
  <2>4. CASE x
    BY <2>2, <2>3, <2>4, Zenon
  <2>5. CASE ~x
    BY <2>2, <2>3, <2>5, Zenon
  <2> QED
    BY <2>4, <2>5
<1>17. (IF a < h <=> b < h THEN i < j ELSE b < h) <=> (IF y <=> z THEN x ELSE z)
  BY <1>12, <1>15
<1> QED
  BY <1>5, <1>8, <1>9, <1>13, <1>16, <1>17

\* The misprediction that the core picks is the oldest one.
LEMMA OldestIs ==
    ASSUME RInv, NEW stall, b1.mis # {}
    PROVE  /\ OldestMis \in Mispredicted /\ OldestMis \in Valid /\ OldestMis \in Spots
           /\ rob_state = "normal" /\ ~RbkRow /\ ~RollbackARow
           /\ ~Killed(OldestMis) /\ ent[OldestMis].bsy /\ OldestMis \in Left(stall)
           /\ \A p \in Valid : Killed(p) <=> Age(OldestMis) < Age(p)
           /\ \A p \in Left(stall) : Age(p) <= Age(OldestMis)
<1>0. rob_head \in Rows /\ Valid \subseteq Spots
  BY LimitIs
<1>1. Mispredicted # {} /\ \A p \in Mispredicted : p \in Valid /\ ent[p].bsy
  BY KilledIs, OpenIs
<1> DEFINE T == {Age(p) : p \in Mispredicted}
<1>2. \A p \in Valid : Age(p) \in Nat
  BY <1>0, AgeIs
<1>3. T \subseteq Nat /\ T # {}
  BY <1>1, <1>2
<1>4. SetMin(T) \in T /\ \A y \in T : SetMin(T) <= y
  BY <1>3, MinIs
<1>5. PICK m \in Mispredicted : \A q \in Mispredicted : Age(m) <= Age(q)
  BY <1>4
<1>6. \A p, q \in Mispredicted : IsOlder(IdxOf(p), IdxOf(q), HeadIdx) <=> Age(p) < Age(q)
  BY <1>1, OlderIs
<1>7. ASSUME NEW q \in Mispredicted, q # m PROVE IsOlder(IdxOf(m), IdxOf(q), HeadIdx)
  <2>1. Age(m) <= Age(q) /\ Age(m) # Age(q)
    BY <1>0, <1>1, <1>5, <1>7, AgeIs
  <2> QED
    BY <1>1, <1>2, <1>6, <2>1
<1>8. OldestMis \in Mispredicted /\ \A q \in Mispredicted \ {OldestMis} :
          IsOlder(IdxOf(OldestMis), IdxOf(q), HeadIdx)
  BY <1>7 DEF OldestMis
<1>9. \A q \in Mispredicted : Age(OldestMis) <= Age(q)
  <2>1. ASSUME NEW q \in Mispredicted PROVE Age(OldestMis) <= Age(q)
    <3>1. CASE q = OldestMis
      BY <1>1, <1>2, <3>1
    <3>2. CASE q # OldestMis
      BY <1>1, <1>2, <1>6, <1>8, <3>2
    <3> QED
      BY <3>1, <3>2
  <2> QED
    BY <2>1
<1>10. PICK x \in Mispredicted : x = OldestMis
  BY <1>8
<1>11. ASSUME NEW p \in Valid PROVE Killed(p) <=> Age(x) < Age(p)
  <2>1. Killed(p) => Age(x) < Age(p)
    <3>1. \A q \in Mispredicted : Age(x) <= Age(q) /\ Age(q) \in Nat /\ Age(x) \in Nat /\ Age(p) \in Nat
      BY <1>1, <1>2, <1>9, <1>10
    <3> QED
      BY <3>1, KilledIs
  <2> QED
    BY <2>1, KilledIs
<1>12. ~Killed(x)
  BY <1>1, <1>2, <1>11
<1>13. rob_state = "normal"
  <2>1. b1.pos # {}
    BY <1>10 DEF Mispredicted
  <2> QED
    BY <2>1 DEF RInv, Control
<1>14. x \in Left(stall)
  BY <1>1, <1>12, <1>13, LeftIs
<1>15. \A p \in Left(stall) : Age(p) <= Age(x)
  BY <1>1, <1>2, <1>11, LeftIs
<1> QED
  BY <1>0, <1>1, <1>10, <1>11, <1>12, <1>13, <1>14, <1>15 DEF RbkRow, RollbackARow

-----------------------------------------------------------------------------
(* The rows in use in the next cycle. *)

Grows(extra) == IF RobEnq(EnqValids(extra), Stalled(extra)) THEN 1
                ELSE IF RollbackARow THEN -1 ELSE 0

\* The five ways in which the tail moves (rob.scala 757-776).
LEMMA TailIs ==
    ASSUME RInv, NEW extra, NEW stall, NEW E, NEW R, NEW M, NEW lx,
           Clocked(extra, stall, E, R, M, lx)
    PROVE  /\ RobEnq(EnqValids(extra), Stalled(extra))
                  => /\ rob_tail' = WrapInc(rob_tail) /\ rob_tail_lsb' = 0
                     /\ EnqValids(extra) # {} /\ ~Stalled(extra) /\ ~RollbackARow
                     /\ ~b2.mispredict /\ ~Full /\ b1.mis = {}
           /\ RollbackARow
                  => /\ rob_tail' = WrapDec(rob_tail) /\ rob_tail_lsb' = CoreWidth - 1
                     /\ rob_state = "rollback" /\ ~b2.mispredict /\ b1.mis = {}
           /\ b2.mispredict => /\ rob_tail' = WrapInc(b2.pos[1]) /\ rob_tail_lsb' = 0
                               /\ ~RollbackARow /\ rob_state = "normal" /\ maybe_full
                               /\ EnqValids(extra) = {}
           /\ ~RobEnq(EnqValids(extra), Stalled(extra)) /\ ~RollbackARow /\ ~b2.mispredict
                  => /\ rob_tail' = rob_tail
                     /\ rob_state # "rollback" /\ EnqValids(extra) = {}
                            => rob_tail_lsb' = rob_tail_lsb
                     /\ rob_state # "rollback" /\ EnqValids(extra) # {} =>
                            /\ Stalled(extra)
                            /\ rob_tail_lsb' = 1 + CHOOSE w \in EnqValids(extra) :
                                                       \A v \in EnqValids(extra) : v <= w
                     /\ rob_state = "rollback" =>
                            rob_tail_lsb' = rob_head_lsb /\ rob_tail = rob_head /\ ~maybe_full
<1>1. PICK enq, part : enq = EnqValids(extra) /\ part = Stalled(extra)
  OBVIOUS
<1>2. TailAfter(enq, part)
  BY <1>1, CycleIs
<1>3. RollbackARow => rob_state = "rollback"
  BY DEF RollbackARow
<1>4. b2.mispredict => rob_state = "normal" /\ maybe_full
  BY DEF RInv, Control, Shape
<1>5. b2.mispredict => enq = {}
  BY <1>1, EnqIs DEF RInv
<1>6. enq # {} => ~b2.mispredict /\ ~Full /\ b1.mis = {} /\ rob_state = "normal"
  BY <1>1, EnqIs DEF RInv
<1>7. rob_state = "rollback" => b1.mis = {}
  <2>1. rob_state = "rollback" => b1.pos = {}
    BY DEF RInv, Control
  <2> QED
    BY <2>1, KilledIs DEF Mispredicted
<1>8. RobEnq(enq, part) <=> ~RollbackARow /\ rob_state # "rollback" /\ ~b2.mispredict
                            /\ enq # {} /\ ~part
  BY DEF RobEnq
<1>9. RollbackARow <=> rob_state = "rollback" /\ (rob_tail # rob_head \/ maybe_full)
  BY DEF RollbackARow
<1>10. CASE RobEnq(enq, part)
  BY <1>1, <1>2, <1>4, <1>5, <1>6, <1>8, <1>9, <1>10 DEF TailAfter
<1>11. CASE RollbackARow
  BY <1>1, <1>2, <1>4, <1>7, <1>8, <1>9, <1>11 DEF TailAfter
<1>12. CASE b2.mispredict
  BY <1>1, <1>2, <1>4, <1>5, <1>8, <1>9, <1>12 DEF TailAfter
<1>13. CASE ~RobEnq(enq, part) /\ ~RollbackARow /\ ~b2.mispredict /\ rob_state = "rollback"
  BY <1>1, <1>2, <1>8, <1>9, <1>13 DEF TailAfter
<1>14. CASE ~RobEnq(enq, part) /\ ~RollbackARow /\ ~b2.mispredict /\ rob_state # "rollback"
  BY <1>1, <1>2, <1>8, <1>9, <1>14 DEF TailAfter
<1> QED
  BY <1>1, <1>10, <1>11, <1>12, <1>13, <1>14

\* maybe_full at the end of a cycle (rob.scala 795-797).
LEMMA FullNext ==
    ASSUME RInv, NEW extra, NEW stall, NEW E, NEW R, NEW M, NEW lx,
           Clocked(extra, stall, E, R, M, lx)
    PROVE  /\ b1.mis # {} => maybe_full'
           /\ (FinishedRow(stall) \/ RollbackARow) /\ b1.mis = {} => ~maybe_full'
           /\ ~FinishedRow(stall) /\ ~RollbackARow /\ b1.mis = {} =>
                  (maybe_full' <=> RobEnq(EnqValids(extra), Stalled(extra)) \/ maybe_full)
           /\ Full' <=> rob_tail' = rob_head' /\ maybe_full'
           /\ maybe_full' \in BOOLEAN
<1>1. maybe_full' = ((~RobDeq(stall) /\ (RobEnq(EnqValids(extra), Stalled(extra)) \/ maybe_full))
                        \/ b1.mis # {})
  BY CycleIs DEF MaybeFullAfter
<1>2. RobDeq(stall) <=> FinishedRow(stall) \/ RollbackARow
  BY DEF RobDeq
<1>3. Full' <=> rob_tail' = rob_head' /\ maybe_full'
  BY DEF Full
<1> QED
  BY <1>1, <1>2, <1>3

\* The rows in use grow by the row that is dispatched, and shrink by the row that is
\* committed or rolled back; a misprediction leaves those up to the branch.
LEMMA LimitNext ==
    ASSUME RInv, NEW extra, NEW stall, NEW E, NEW R, NEW M, NEW lx,
           Clocked(extra, stall, E, R, M, lx)
    PROVE  /\ b1.mis # {} => /\ Limit' = (Dist(OldestMis[1]) + 1) - Moves(stall)
                             /\ Moves(stall) <= Dist(OldestMis[1]) /\ Dist(OldestMis[1]) \in Nat
                             /\ OldestMis[1] \in Rows
           /\ b1.mis = {} => /\ Limit' = (Limit + Grows(extra)) - Moves(stall)
                             /\ Moves(stall) <= Limit
           /\ Limit' <= NumRows - Moves(stall)
           /\ Grows(extra) \in {-1, 0, 1} /\ (Grows(extra) = 1 => ~Full /\ ~b2.mispredict)
<1>0. /\ rob_head \in Rows /\ rob_tail \in Rows /\ Limit \in Nat /\ Limit <= NumRows
      /\ NumRows \in Nat /\ NumRows >= 2
  BY LimitIs, Constants
<1> DEFINE D(r) == (r + NumRows - rob_head') % NumRows
<1>1. Limit' = IF b2'.mispredict THEN D(b2'.pos[1]) + 1 ELSE IF Full' THEN NumRows ELSE D(rob_tail')
  BY DEF Limit, Dist
<1>2. PICK m \in {0, 1} : m = Moves(stall) /\ (m = 1 <=> FinishedRow(stall))
  BY HeadNext
<1>3. \A r \in Rows : D(r) = IF m = 0 THEN Dist(r) ELSE IF Dist(r) = 0 THEN NumRows - 1 ELSE Dist(r) - 1
  <2>1. ASSUME NEW r \in Rows
        PROVE  D(r) = IF m = 0 THEN Dist(r) ELSE IF Dist(r) = 0 THEN NumRows - 1 ELSE Dist(r) - 1
    <3>1. Dist(r)' = D(r)
      BY DEF Dist
    <3> QED
      BY <1>2, <3>1, HeadNext
  <2> QED
    BY <2>1
<1> HIDE DEF D
<1>4. \A r \in Rows : Dist(r) \in Nat /\ Dist(r) < NumRows
  BY <1>0, DistIs
<1>5. /\ Grows(extra) \in {-1, 0, 1}
      /\ Grows(extra) = 1 <=> RobEnq(EnqValids(extra), Stalled(extra))
      /\ Grows(extra) = -1 <=> RollbackARow /\ ~RobEnq(EnqValids(extra), Stalled(extra))
  BY DEF Grows
<1>6. Grows(extra) = 1 => ~Full /\ ~b2.mispredict
  BY <1>5, TailIs
<1>7. Full' <=> D(rob_tail') = 0 /\ maybe_full'
  <2>1. rob_tail' \in Rows /\ rob_head' \in Rows
    <3>1. CASE RobEnq(EnqValids(extra), Stalled(extra))
      BY <1>0, <3>1, TailIs, WrapIncIs, HeadNext
    <3>2. CASE RollbackARow
      BY <1>0, <3>2, TailIs, WrapDecIs, HeadNext
    <3>3. CASE b2.mispredict
      BY <1>0, <3>3, TailIs, LimitIs, SpotIs, WrapIncIs, HeadNext
    <3>4. CASE ~RobEnq(EnqValids(extra), Stalled(extra)) /\ ~RollbackARow /\ ~b2.mispredict
      BY <1>0, <3>4, TailIs, HeadNext
    <3> QED
      BY <3>1, <3>2, <3>3, <3>4
  <2>2. PICK t \in Rows, h \in Rows : t = rob_tail' /\ h = rob_head'
    BY <2>1
  <2>3. D(t) = 0 <=> t = h
    <3>1. PICK a : a = t + NumRows - h
      OBVIOUS
    <3>2. a \in Nat /\ a < NumRows + NumRows /\ NumRows > 0
      BY <2>2, <3>1, Constants
    <3>3. D(t) = IF a < NumRows THEN a ELSE a - NumRows
      BY <1>0, <2>2, <3>1, <3>2, ModIs DEF D
    <3> QED
      BY <2>2, <3>1, <3>3, Constants
  <2> QED
    BY <2>2, <2>3, FullNext
<1>8. CASE b1.mis # {}
  <2>1. /\ OldestMis \in Left(stall) /\ OldestMis \in Spots /\ ~RollbackARow
    BY <1>8, OldestIs
  <2>2. OldestMis[1] \in Rows /\ m <= Dist(OldestMis[1])
    BY <1>2, <2>1, HeadNext
  <2>3. b2'.mispredict /\ b2'.pos = OldestMis
    BY <1>8, RedirectNext
  <2>4. PICK r \in Rows, d \in Nat : r = OldestMis[1] /\ d = Dist(r) /\ d < NumRows
    BY <1>4, <2>2
  <2>5. D(r) = d - m
    BY <1>2, <1>3, <2>2, <2>4
  <2>6. Limit' = (d + 1) - m
    BY <1>1, <1>2, <2>2, <2>3, <2>4, <2>5
  <2> QED
    BY <1>0, <1>2, <1>5, <1>6, <1>8, <2>2, <2>4, <2>6
<1>9. CASE b1.mis = {} /\ b2.mispredict
  <2>1. /\ rob_tail' = WrapInc(b2.pos[1]) /\ ~RollbackARow /\ maybe_full
        /\ ~RobEnq(EnqValids(extra), Stalled(extra))
    BY <1>9, TailIs DEF RobEnq
  <2>2. PICK r \in Rows, d \in Nat : r = b2.pos[1] /\ d = Dist(r) /\ d < NumRows /\ Limit = d + 1
    BY <1>4, <1>9, LimitIs, SpotIs
  <2>3. Dist(WrapInc(r)) = (IF d = NumRows - 1 THEN 0 ELSE d + 1) /\ WrapInc(r) \in Rows
    BY <1>0, <2>2, DistWrap, WrapIncIs
  <2>4. PICK x \in Nat : x = D(rob_tail') /\ x = IF m = 0 THEN IF d = NumRows - 1 THEN 0 ELSE d + 1
                                      ELSE IF d = NumRows - 1 THEN NumRows - 1 ELSE d
    BY <1>0, <1>2, <1>3, <2>1, <2>2, <2>3
  <2>5. ~b2'.mispredict
    BY <1>9, RedirectNext
  <2>6. maybe_full' <=> m = 0
    BY <1>2, <1>9, <2>1, FullNext
  <2>7. Limit' = IF x = 0 /\ m = 0 THEN NumRows ELSE x
    BY <1>1, <1>7, <2>4, <2>5, <2>6
  <2>8. Grows(extra) = 0
    BY <1>5, <2>1
  <2> QED
    BY <1>0, <1>2, <1>6, <1>9, <2>2, <2>4, <2>7, <2>8
<1>10. CASE RollbackARow
  <2>1. /\ rob_tail' = WrapDec(rob_tail) /\ rob_state = "rollback" /\ ~b2.mispredict /\ b1.mis = {}
        /\ ~RobEnq(EnqValids(extra), Stalled(extra))
    BY <1>10, TailIs
  <2>2. m = 0
    BY <1>2, <1>10, FinishedIs
  <2>3. PICK d \in Nat : d = Dist(rob_tail) /\ d < NumRows /\ Limit = IF Full THEN NumRows ELSE d
    BY <1>0, <1>4, <2>1, LimitIs
  <2>4. d = 0 <=> rob_tail = rob_head
    BY <1>0, <2>3, DistHead
  <2>5. d = 0 <=> Full
    BY <1>10, <2>4 DEF Full, RollbackARow
  <2>6. Dist(WrapDec(rob_tail)) = (IF d = 0 THEN NumRows - 1 ELSE d - 1) /\ WrapDec(rob_tail) \in Rows
    BY <1>0, <2>3, DistWrap, WrapDecIs
  <2>7. D(rob_tail') = IF d = 0 THEN NumRows - 1 ELSE d - 1
    BY <1>3, <2>1, <2>2, <2>6
  <2>8. ~b2'.mispredict /\ ~Full'
    BY <1>10, <2>1, RedirectNext, FullNext
  <2>9. Limit' = IF d = 0 THEN NumRows - 1 ELSE d - 1
    BY <1>1, <2>7, <2>8
  <2>10. Grows(extra) = -1
    BY <1>5, <1>10, <2>1
  <2> QED
    BY <1>0, <1>2, <1>6, <2>1, <2>2, <2>3, <2>5, <2>9, <2>10
<1>11. CASE RobEnq(EnqValids(extra), Stalled(extra))
  <2>1. /\ rob_tail' = WrapInc(rob_tail) /\ ~RollbackARow /\ ~b2.mispredict /\ ~Full /\ b1.mis = {}
    BY <1>11, TailIs
  <2>2. PICK d \in Nat : d = Dist(rob_tail) /\ d < NumRows /\ Limit = d
    BY <1>0, <1>4, <2>1, LimitIs
  <2>3. m = 1 => d # 0
    BY <1>0, <1>2, <2>1, <2>2, FinishedIs, DistHead
  <2>4. Dist(WrapInc(rob_tail)) = (IF d = NumRows - 1 THEN 0 ELSE d + 1) /\ WrapInc(rob_tail) \in Rows
    BY <1>0, <2>2, DistWrap, WrapIncIs
  <2>5. PICK x \in Nat : x = D(rob_tail') /\ x = IF m = 0 THEN IF d = NumRows - 1 THEN 0 ELSE d + 1
                                                 ELSE IF d = NumRows - 1 THEN NumRows - 1 ELSE d
    BY <1>0, <1>2, <1>3, <2>1, <2>2, <2>4
  <2>6. ~b2'.mispredict /\ (maybe_full' <=> m = 0)
    <3>1. ~b2'.mispredict
      BY <2>1, RedirectNext
    <3>2. m = 0 => maybe_full'
      BY <1>2, <1>11, <2>1, FullNext
    <3>3. m = 1 => ~maybe_full'
      BY <1>2, <2>1, FullNext
    <3> QED
      BY <3>1, <3>2, <3>3
  <2>7. Limit' = IF x = 0 /\ m = 0 THEN NumRows ELSE x
    BY <1>1, <1>7, <2>5, <2>6
  <2>8. Grows(extra) = 1
    BY <1>5, <1>11
  <2> QED
    BY <1>0, <1>2, <1>6, <2>1, <2>2, <2>3, <2>5, <2>7, <2>8
<1>12. CASE /\ b1.mis = {} /\ ~b2.mispredict /\ ~RollbackARow
            /\ ~RobEnq(EnqValids(extra), Stalled(extra))
  <2>1. rob_tail' = rob_tail
    BY <1>12, TailIs
  <2>2. PICK d \in Nat : d = Dist(rob_tail) /\ d < NumRows /\ Limit = IF Full THEN NumRows ELSE d
    BY <1>0, <1>4, <1>12, LimitIs
  <2>3. (d = 0 <=> rob_tail = rob_head) /\ (m = 1 /\ ~Full => d # 0) /\ (Full => d = 0)
    BY <1>0, <1>2, <1>12, <2>2, FinishedIs, DistHead DEF Full
  <2>4. PICK x \in Nat : x = D(rob_tail') /\ x = IF m = 0 THEN d ELSE IF d = 0 THEN NumRows - 1 ELSE d - 1
    BY <1>0, <1>2, <1>3, <2>1, <2>2
  <2>5. ~b2'.mispredict /\ (maybe_full' <=> m = 0 /\ maybe_full)
    <3>1. ~b2'.mispredict
      BY <1>12, RedirectNext
    <3>2. m = 0 => (maybe_full' <=> maybe_full)
      BY <1>2, <1>12, FullNext
    <3>3. m = 1 => ~maybe_full'
      BY <1>2, <1>12, FullNext
    <3> QED
      BY <3>1, <3>2, <3>3
  <2>6. Limit' = IF x = 0 /\ m = 0 /\ maybe_full THEN NumRows ELSE x
    BY <1>1, <1>7, <2>4, <2>5
  <2>7. Full <=> d = 0 /\ maybe_full
    BY <2>3 DEF Full
  <2>8. Grows(extra) = 0
    BY <1>5, <1>12
  <2> QED
    BY <1>0, <1>2, <1>6, <1>12, <2>2, <2>3, <2>4, <2>6, <2>7, <2>8
<1> QED
  BY <1>8, <1>9, <1>10, <1>11, <1>12

-----------------------------------------------------------------------------
(* Every cycle keeps the invariant. *)

\* The ring stays a queue in program order.
LEMMA QueueNext ==
    ASSUME RInv, NEW extra, NEW stall, NEW E, NEW R, NEW M, NEW lx,
           Clocked(extra, stall, E, R, M, lx)
    PROVE  QueueOrder'
<1>0. TypeOK /\ Partial /\ Progress
  BY DEF RInv
<1>1. PICK V : V = Left(stall) \cup Added(extra)
  OBVIOUS
<1>2. Valid' = V
  BY <1>0, <1>1, EntNext
<1>3. {p \in InFlight : Stays(p, stall)} = Left(stall)
  <2>1. InFlight = Valid
    BY BeforeIs
  <2>2. \A p \in Valid : Stays(p, stall) <=> p \in Left(stall)
    BY KilledIs DEF Stays, Left
  <2>3. Left(stall) \subseteq Valid
    BY DEF Left
  <2> QED
    BY <2>1, <2>2, <2>3
<1>4. order' = {e \in V \X V :
                   \/ e \in order
                   \/ e[2] \in Added(extra) /\ (e[1] \in Left(stall) \/ e[1][2] <= e[2][2])}
  BY <1>1, <1>3, CycleIs DEF OrderAfter, Added
<1>5. ASSUME NEW p \in V, NEW q \in V
      PROVE  (\/ <<p, q>> \in order
              \/ q \in Added(extra) /\ (p \in Left(stall) \/ p[2] <= q[2])) <=> (Age(p) <= Age(q))'
  <2>0. rob_head \in Rows
    BY <1>0 DEF TypeOK
  <2>1. /\ Age(p) \in Nat /\ Age(q) \in Nat /\ ((Age(p) <= Age(q))' <=> Age(p) <= Age(q))
    BY <1>1, AgeNext
  <2>2. CASE p \in Left(stall) /\ q \in Left(stall)
    <3>1. p \in Valid /\ q \in Valid /\ q \notin Added(extra)
      BY <1>0, <2>2, EntNext, LeftIs
    <3> QED
      BY <2>1, <3>1, BeforeIs
  <2>3. CASE p \in Left(stall) /\ q \in Added(extra)
    <3>1. EnqValids(extra) # {}
      BY <2>3 DEF Added
    <3>2. Age(p) < Age(q)
      BY <2>3, <3>1, AddedLast, LeftIs
    <3> QED
      BY <2>1, <2>3, <3>2
  <2>4. CASE p \in Added(extra) /\ q \in Left(stall)
    <3>1. EnqValids(extra) # {}
      BY <2>4 DEF Added
    <3>2. Age(q) < Age(p)
      BY <2>4, <3>1, AddedLast, LeftIs
    <3>3. p \notin Valid /\ q \notin Added(extra)
      BY <1>0, <2>4, AddedIs, EntNext
    <3>4. <<p, q>> \notin order
      BY <3>3, BeforeIs
    <3> QED
      BY <2>1, <3>2, <3>3, <3>4
  <2>5. CASE p \in Added(extra) /\ q \in Added(extra)
    <3>1. EnqValids(extra) # {}
      BY <2>5 DEF Added
    <3>2. p[1] = rob_tail /\ q[1] = rob_tail /\ p \in Spots /\ q \in Spots
      BY <2>5, <3>1, AddedLast
    <3>3. Age(p) <= Age(q) <=> p[2] <= q[2]
      <4>1. Dist(rob_tail) \in Nat
        BY <2>0, LimitIs, DistIs
      <4>2. Age(p) <= Age(q) <=> Dist(p[1]) < Dist(q[1]) \/ (Dist(p[1]) = Dist(q[1]) /\ p[2] <= q[2])
        BY <2>0, <3>2, AgeIs
      <4> QED
        BY <3>2, <4>1, <4>2
    <3>4. p \notin Valid /\ p \notin Left(stall)
      BY <1>0, <2>5, AddedIs, LeftIs
    <3>5. <<p, q>> \notin order
      BY <3>4, BeforeIs
    <3> QED
      BY <2>1, <2>5, <3>3, <3>4, <3>5
  <2> QED
    BY <1>1, <2>2, <2>3, <2>4, <2>5
<1>6. order' = {e \in V \X V : (Age(e[1]) <= Age(e[2]))'}
  <2>1. ASSUME NEW e \in V \X V
        PROVE  (\/ e \in order
                \/ e[2] \in Added(extra) /\ (e[1] \in Left(stall) \/ e[1][2] <= e[2][2]))
               <=> (Age(e[1]) <= Age(e[2]))'
    <3>1. PICK p \in V, q \in V : e = <<p, q>> /\ p = e[1] /\ q = e[2]
      OBVIOUS
    <3> QED
      BY <1>5, <3>1
  <2> QED
    BY <1>4, <2>1
<1>7. QueueOrder' <=> order' = {e \in Valid' \X Valid' : (Age(e[1]) <= Age(e[2]))'}
  BY DEF QueueOrder
<1> QED
  BY <1>2, <1>6, <1>7

\* What stays of the rows in use is in the rows in use.
LEMMA RowsNext ==
    ASSUME RInv, NEW extra, NEW stall, NEW E, NEW R, NEW M, NEW lx,
           Clocked(extra, stall, E, R, M, lx), NEW p \in Left(stall) \cup Added(extra)
    PROVE  Dist(p[1])' < Limit' \/ (~b2'.mispredict /\ ~Full' /\ p[1] = rob_tail')
<1>0. /\ rob_head \in Rows /\ rob_tail \in Rows /\ Limit \in Nat /\ Limit <= NumRows
      /\ TypeOK /\ Partial /\ Dist(rob_tail) \in Nat
  BY LimitIs, DistIs DEF RInv
<1>1. PICK r \in Rows, d \in Nat, n \in {0, 1} :
         /\ r = p[1] /\ d = Dist(r) /\ n = Moves(stall) /\ n <= d /\ Dist(r)' = d - n
         /\ (n = 1 <=> FinishedRow(stall)) /\ p \in Spots /\ d < NumRows
  <2>1. p[1] \in Rows /\ Moves(stall) \in {0, 1}
    BY HeadNext
  <2>2. PICK r \in Rows, n \in {0, 1} : r = p[1] /\ n = Moves(stall)
    BY <2>1
  <2>3. Dist(r)' = Dist(p[1])'
    BY <2>2
  <2> QED
    BY <1>0, <2>2, <2>3, HeadNext, DistIs
<1>2. Dist(p[1])' = d - n
  BY <1>1
<1>3. p \in Added(extra) => EnqValids(extra) # {}
  BY DEF Added
<1>4. CASE b1.mis # {}
  <2>1. p \in Left(stall)
    BY <1>3, <1>4, AddedLast
  <2>2. Age(p) <= Age(OldestMis) /\ OldestMis \in Spots
    BY <1>4, <2>1, OldestIs
  <2>3. PICK e \in Nat : e = Dist(OldestMis[1]) /\ Limit' = (e + 1) - n
    BY <1>1, <1>4, LimitNext
  <2>4. d <= e
    BY <1>0, <1>1, <2>2, <2>3, AgeIs
  <2> QED
    BY <1>1, <1>2, <2>3, <2>4
<1>5. CASE b1.mis = {} /\ b2.mispredict
  <2>1. p \in Left(stall)
    BY <1>3, <1>5, AddedLast
  <2>2. d < Limit
    BY <1>1, <1>5, <2>1, LimitIs, LeftIs
  <2>3. Grows(extra) = 0
    BY <1>5, TailIs DEF Grows
  <2>4. Limit' = Limit - n
    BY <1>0, <1>1, <1>5, <2>3, LimitNext
  <2> QED
    BY <1>0, <1>1, <1>2, <2>2, <2>4
<1>6. CASE RollbackARow
  <2>1. /\ rob_tail' = WrapDec(rob_tail) /\ rob_state = "rollback" /\ ~b2.mispredict /\ b1.mis = {}
    BY <1>6, TailIs
  <2>2. n = 0 /\ p \in Left(stall)
    BY <1>1, <1>3, <1>6, FinishedIs, AddedLast
  <2>3. ~b2'.mispredict /\ ~Full'
    BY <1>6, <2>1, RedirectNext, FullNext
  <2>4. Grows(extra) = -1
    BY <1>6, TailIs DEF Grows
  <2>5. Limit' = Limit - 1
    <3>1. Limit' = (Limit + Grows(extra)) - n
      BY <1>1, <2>1, LimitNext
    <3> QED
      BY <1>0, <2>2, <2>4, <3>1
  <2>6. PICK t \in Rows, e \in Nat : t = rob_tail' /\ e = Dist(t) /\ e = Limit - 1
    <3>1. WrapDec(rob_tail) \in Rows
      BY <1>0, WrapDecIs
    <3>2. Dist(WrapDec(rob_tail)) = IF Dist(rob_tail) = 0 THEN NumRows - 1 ELSE Dist(rob_tail) - 1
      BY <1>0, DistWrap
    <3>3. Dist(rob_tail) = 0 => Full
      BY <1>0, <1>6, DistHead DEF RollbackARow, Full
    <3>4. Full => Dist(rob_tail) = 0 /\ Limit = NumRows
      BY <1>0, <2>1, DistHead, LimitIs DEF Full
    <3>5. ~Full => Limit = Dist(rob_tail)
      BY <2>1, LimitIs
    <3>6. Dist(WrapDec(rob_tail)) = Limit - 1
      BY <1>0, <3>2, <3>3, <3>4, <3>5
    <3>7. Dist(WrapDec(rob_tail)) \in Nat
      BY <1>0, <3>1, DistIs
    <3> QED
      BY <2>1, <3>1, <3>6, <3>7
  <2>7. d < Limit
    <3>1. d <= Limit
      BY <1>1, <2>2, LimitIs, LeftIs
    <3>2. ASSUME d = Limit PROVE r = rob_tail /\ ~Full
      <4>1. ~Full
        BY <1>1, <2>1, <3>2, LimitIs, Constants
      <4>2. Dist(r) = Dist(rob_tail)
        BY <1>1, <2>1, <3>2, <4>1, LimitIs
      <4> QED
        BY <1>0, <4>1, <4>2, DistSame
    <3>3. ~(r = rob_tail /\ ~Full)
      BY <1>1, <2>1, <2>2, LeftIs DEF RbkRow
    <3> QED
      BY <1>0, <1>1, <3>1, <3>2, <3>3
  <2>8. CASE d = Limit - 1
    BY <1>0, <1>1, <2>3, <2>6, <2>8, DistSame
  <2>9. CASE d # Limit - 1
    BY <1>0, <1>1, <1>2, <2>2, <2>5, <2>7, <2>9
  <2> QED
    BY <2>8, <2>9
<1>7. CASE RobEnq(EnqValids(extra), Stalled(extra))
  <2>1. ~RollbackARow /\ ~b2.mispredict /\ ~Full /\ b1.mis = {}
    BY <1>7, TailIs
  <2>2. Limit' = (Limit + 1) - n
    BY <1>1, <1>7, <2>1, LimitNext DEF Grows
  <2>3. d <= Limit
    <3>1. CASE p \in Left(stall)
      BY <1>1, <3>1, LimitIs, LeftIs
    <3>2. CASE p \in Added(extra)
      BY <1>0, <1>1, <1>3, <2>1, <3>2, LimitIs, AddedLast
    <3> QED
      BY <3>1, <3>2
  <2> QED
    BY <1>0, <1>1, <1>2, <2>2, <2>3
<1>8. CASE /\ b1.mis = {} /\ ~b2.mispredict /\ ~RollbackARow
           /\ ~RobEnq(EnqValids(extra), Stalled(extra))
  <2>1. rob_tail' = rob_tail
    BY <1>8, TailIs
  <2>2. Limit' = Limit - n
    BY <1>0, <1>1, <1>8, LimitNext DEF Grows
  <2>3. ~b2'.mispredict
    BY <1>8, RedirectNext
  <2>4. d <= Limit
    <3>1. CASE p \in Left(stall)
      BY <1>1, <3>1, LimitIs, LeftIs
    <3>2. CASE p \in Added(extra)
      BY <1>0, <1>1, <1>3, <3>2, LimitIs, AddedLast
    <3> QED
      BY <3>1, <3>2
  <2>5. CASE d < Limit
    BY <1>0, <1>1, <1>2, <2>2, <2>5
  <2>6. CASE d = Limit
    <3>1. ~Full
      BY <1>1, <1>8, <2>6, LimitIs, Constants
    <3>2. r = rob_tail
      <4>1. Dist(r) = Dist(rob_tail)
        BY <1>1, <1>8, <2>6, <3>1, LimitIs
      <4> QED
        BY <1>0, <4>1, DistSame
    <3>3. ~Full'
      <4>1. CASE n = 0
        <5>1. maybe_full' <=> maybe_full
          BY <1>1, <1>8, <4>1, FullNext
        <5>2. rob_head' = rob_head
          BY <1>1, <4>1, HeadNext
        <5> QED
          BY <2>1, <3>1, <5>1, <5>2, FullNext DEF Full
      <4>2. CASE n = 1
        BY <1>1, <1>8, <4>2, FullNext
      <4> QED
        BY <4>1, <4>2
    <3> QED
      BY <1>1, <2>1, <2>3, <3>2, <3>3
  <2> QED
    BY <1>0, <1>1, <2>4, <2>5, <2>6
<1> QED
  BY <1>4, <1>5, <1>6, <1>7, <1>8, TailIs

\* What is in the ring next is what stays and what is dispatched.
LEMMA ValNext ==
    ASSUME RInv, NEW extra, NEW stall, NEW E, NEW R, NEW M, NEW lx,
           Clocked(extra, stall, E, R, M, lx)
    PROVE  /\ Valid' = Left(stall) \cup Added(extra)
           /\ \A r \in Rows, w \in Banks :
                  Val(r, w)' <=> <<r, w>> \in Left(stall) \cup Added(extra)
<1>1. Valid' = Left(stall) \cup Added(extra)
  BY EntNext DEF RInv
<1>2. \A r \in Rows, w \in Banks : Val(r, w)' <=> <<r, w>> \in Valid'
  BY DEF Val, Valid
<1> QED
  BY <1>1, <1>2

\* No row in use is left without an entry.
LEMMA NoGapNext ==
    ASSUME RInv, NEW extra, NEW stall, NEW E, NEW R, NEW M, NEW lx,
           Clocked(extra, stall, E, R, M, lx), NEW r \in Rows, Dist(r)' < Limit'
    PROVE  \E w \in Banks : <<r, w>> \in Left(stall) \cup Added(extra)
<1>0. /\ rob_head \in Rows /\ rob_tail \in Rows /\ Limit \in Nat /\ Limit <= NumRows
      /\ TypeOK /\ Partial /\ Dist(rob_tail) \in Nat /\ NumRows \in Nat /\ NumRows >= 2
      /\ Dist(rob_head) = 0
  BY LimitIs, DistIs, DistHead, Constants DEF RInv
<1>1. PICK d \in Nat, n \in {0, 1} :
         /\ d = Dist(r) /\ d < NumRows /\ n = Moves(stall) /\ (n = 1 <=> FinishedRow(stall))
         /\ Dist(r)' = IF n = 0 THEN d ELSE IF d = 0 THEN NumRows - 1 ELSE d - 1
  BY <1>0, HeadNext, DistIs
<1>2. Limit' <= NumRows - n
  BY <1>1, LimitNext
<1>2a. Limit' \in Int
  <2>1. CASE b1.mis # {}
    BY <1>1, <2>1, LimitNext
  <2>2. CASE b1.mis = {}
    BY <1>0, <1>1, <2>2, LimitNext
  <2> QED
    BY <2>1, <2>2
<1>3. n <= d /\ d - n < Limit'
  BY <1>0, <1>1, <1>2, <1>2a
<1>4. ASSUME NEW w \in Banks, Val(r, w), ~Killed(<<r, w>>), ~(RbkRow /\ r = rob_tail),
             r = rob_head => Limit # 0 \/ b2.mispredict \/ ent[r, w].bsy
      PROVE  \E v \in Banks : <<r, v>> \in Left(stall) \cup Added(extra)
  <2>1. <<r, w>> \in Valid
    BY <1>0, <1>4, ValidIs
  <2>2. CASE ~(r = rob_head /\ w \in WillCommit(stall))
    <3>1. PICK p \in Spots : p = <<r, w>> /\ p[1] = r /\ p[2] = w
      BY <2>1, LimitIs
    <3>2. p \in Left(stall)
      BY <1>4, <2>1, <2>2, <3>1 DEF Left
    <3> QED
      BY <3>1, <3>2
  <2>3. CASE r = rob_head /\ w \in WillCommit(stall)
    <3>1. ~FinishedRow(stall)
      BY <1>0, <1>1, <1>3, <2>3
    <3>2. ~ent[r, w].bsy
      BY <2>3, CommitIs
    <3>3. ~(r_partial_row /\ rob_head = rob_tail /\ ~maybe_full)
      <4>1. ASSUME rob_head = rob_tail, ~maybe_full PROVE FALSE
        <5>1. ~b2.mispredict /\ ~Full
          BY <4>1 DEF RInv, Shape, Full
        <5>2. Limit = 0
          BY <1>0, <4>1, <5>1, LimitIs
        <5> QED
          BY <1>4, <2>3, <3>2, <5>1, <5>2
      <4> QED
        BY <4>1
    <3>4. WillCommit(stall) # HeadVals
      BY <2>3, <3>1, <3>3 DEF FinishedRow
    <3>5. \A v \in WillCommit(stall) : v \in HeadVals
      BY CommitIs DEF HeadVals
    <3>6. PICK v \in HeadVals : v \notin WillCommit(stall)
      BY <3>4, <3>5
    <3>7. v \in Banks /\ Val(rob_head, v) /\ <<rob_head, v>> \in Valid
      BY <1>0, <3>6, ValidIs DEF HeadVals
    <3>8. rob_state # "rollback" /\ \A u \in WillCommit(stall), x \in Banks :
              x < u /\ Val(rob_head, x) => x \in WillCommit(stall)
      BY <2>3, CommitIs
    <3>9. CASE Killed(<<rob_head, v>>)
      <4>1. b1.mis # {}
        BY <3>9 DEF Killed
      <4>2. Age(OldestMis) < Age(<<rob_head, v>>) /\ OldestMis \in Left(stall) /\ OldestMis \in Spots
        BY <3>7, <3>9, <4>1, OldestIs
      <4>3. PICK m \in Spots : m = OldestMis /\ m[1] \in Rows /\ m[2] \in Banks /\ m = <<m[1], m[2]>>
        BY <4>2, SpotIs
      <4>4. PICK p \in Spots : p = <<rob_head, v>> /\ p[1] = rob_head /\ p[2] = v
        BY <3>7, LimitIs
      <4>5. Dist(m[1]) < Dist(p[1]) \/ (Dist(m[1]) = Dist(p[1]) /\ m[2] < p[2])
        BY <1>0, <4>2, <4>3, <4>4, AgeIs
      <4>6. m[1] = rob_head
        BY <1>0, <4>3, <4>4, <4>5, DistIs, DistHead
      <4> QED
        BY <2>3, <4>2, <4>3, <4>6
    <3>10. CASE ~Killed(<<rob_head, v>>)
      <4>1. PICK p \in Spots : p = <<rob_head, v>> /\ p[1] = rob_head /\ p[2] = v
        BY <3>7, LimitIs
      <4>2. p \in Left(stall)
        BY <3>6, <3>7, <3>8, <3>10, <4>1 DEF Left, RbkRow
      <4> QED
        BY <2>3, <3>7, <4>1, <4>2
    <3> QED
      BY <3>9, <3>10
  <2> QED
    BY <2>2, <2>3
<1>5. CASE b1.mis # {}
  <2>1. PICK m \in Spots : m = OldestMis /\ m[1] \in Rows /\ m[2] \in Banks /\ m = <<m[1], m[2]>>
    BY <1>5, OldestIs, SpotIs
  <2>2. PICK e \in Nat : e = Dist(m[1]) /\ Limit' = (e + 1) - n
    BY <1>1, <1>5, <2>1, LimitNext
  <2>3. d <= e
    BY <1>1, <1>3, <2>2
  <2>4. CASE d = e
    <3>1. r = m[1]
      BY <1>0, <1>1, <2>1, <2>2, <2>4, DistSame
    <3>2. m \in Left(stall)
      BY <1>5, <2>1, OldestIs
    <3> QED
      BY <2>1, <3>1, <3>2
  <2>5. CASE d < e
    <3>1. m \in Valid /\ e <= Limit
      BY <1>5, <2>1, <2>2, OldestIs, LimitIs
    <3>2. d < Limit
      BY <1>0, <2>2, <2>5, <3>1
    <3>3. PICK w \in Banks : Val(r, w)
      BY <1>1, <3>2 DEF RInv, Shape
    <3>4. ~Killed(<<r, w>>)
      <4>1. PICK p \in Valid : p = <<r, w>> /\ p[1] = r /\ p \in Spots
        BY <1>0, <3>3, ValidIs, LimitIs
      <4>2. Age(p) < Age(m) /\ Age(p) \in Nat /\ Age(m) \in Nat
        BY <1>0, <1>1, <2>1, <2>2, <2>5, <4>1, AgeIs
      <4>3. Killed(p) <=> Age(m) < Age(p)
        BY <1>5, <2>1, <4>1, OldestIs
      <4> QED
        BY <4>1, <4>2, <4>3
    <3>5. ~RbkRow /\ Limit # 0
      BY <1>1, <1>5, <3>2, OldestIs
    <3> QED
      BY <1>4, <3>3, <3>4, <3>5
  <2> QED
    BY <1>1, <2>2, <2>3, <2>4, <2>5
<1>6. CASE b1.mis = {}
  <2>1. PICK g \in {-1, 0, 1} : g = Grows(extra) /\ Limit' = (Limit + g) - n
                                /\ (g = 1 => RobEnq(EnqValids(extra), Stalled(extra)))
    <3>1. Limit' = (Limit + Grows(extra)) - n
      BY <1>1, <1>6, LimitNext
    <3>2. Grows(extra) \in {-1, 0, 1}
      BY LimitNext
    <3>3. Grows(extra) = 1 => RobEnq(EnqValids(extra), Stalled(extra))
      BY DEF Grows
    <3> QED
      BY <3>1, <3>2, <3>3
  <2>2. d < Limit + g
    BY <1>0, <1>1, <1>3, <2>1
  <2>3. CASE d < Limit
    <3>1. PICK w \in Banks : Val(r, w)
      BY <1>1, <2>3 DEF RInv, Shape
    <3>2. ~Killed(<<r, w>>)
      BY <1>6 DEF Killed
    <3>3. ASSUME RbkRow, r = rob_tail PROVE FALSE
      <4>1. rob_state = "rollback" /\ ~Full
        BY <3>3 DEF RbkRow
      <4>2. ~b2.mispredict
        BY <4>1 DEF RInv, Control
      <4>3. Limit = Dist(rob_tail)
        BY <4>1, <4>2, LimitIs
      <4> QED
        BY <1>1, <2>3, <3>3, <4>3
    <3>4. Limit # 0
      BY <1>1, <2>3
    <3> QED
      BY <1>4, <3>1, <3>2, <3>3, <3>4
  <2>4. CASE ~(d < Limit)
    <3>1. g = 1 /\ d = Limit
      BY <1>0, <1>1, <2>1, <2>2, <2>4
    <3>2. EnqValids(extra) # {} /\ ~Full /\ ~b2.mispredict
      BY <2>1, <3>1, TailIs
    <3>3. Limit = Dist(rob_tail)
      BY <3>2, LimitIs
    <3>4. r = rob_tail
      BY <1>0, <1>1, <3>1, <3>3, DistSame
    <3>5. PICK w \in EnqValids(extra) : w \in Banks /\ <<rob_tail, w>> \in Added(extra)
      BY <1>0, <3>2, EnqIs, AddedLast
    <3> QED
      BY <3>4, <3>5
  <2> QED
    BY <2>3, <2>4
<1> QED
  BY <1>5, <1>6

\* The entries of a row that stay have no gap.
LEMMA ContigNext ==
    ASSUME RInv, NEW extra, NEW stall, NEW r \in Rows, NEW u \in Banks, NEW v \in Banks,
           NEW w \in Banks, u < v, v < w,
           <<r, u>> \in Left(stall) \cup Added(extra), <<r, w>> \in Left(stall) \cup Added(extra)
    PROVE  <<r, v>> \in Left(stall) \cup Added(extra)
<1>0. rob_head \in Rows /\ rob_tail \in Rows /\ TypeOK /\ Partial /\ Shape
  BY LimitIs DEF RInv
<1>1. PICK p \in Spots, q \in Spots, x \in Spots :
         /\ p = <<r, u>> /\ p[1] = r /\ p[2] = u
         /\ q = <<r, v>> /\ q[1] = r /\ q[2] = v
         /\ x = <<r, w>> /\ x[1] = r /\ x[2] = w
  <2>1. PICK p \in Spots : p = <<r, u>> /\ p[1] = r /\ p[2] = u
    BY PairIs
  <2>2. PICK q \in Spots : q = <<r, v>> /\ q[1] = r /\ q[2] = v
    BY PairIs
  <2>3. PICK x \in Spots : x = <<r, w>> /\ x[1] = r /\ x[2] = w
    BY PairIs
  <2> QED
    BY <2>1, <2>2, <2>3
<1>2. u \in Nat /\ v \in Nat /\ w \in Nat /\ u < w
  BY Constants
<1>3. ASSUME p \in Left(stall), q \in Valid, ~Killed(q) PROVE q \in Left(stall)
  <2>1. Val(r, u) /\ Val(r, v) /\ ~(RbkRow /\ r = rob_tail)
        /\ ~(r = rob_head /\ u \in WillCommit(stall))
    BY <1>0, <1>1, <1>3, LeftIs, ValidIs
  <2>2. ~(r = rob_head /\ v \in WillCommit(stall))
    BY <2>1, CommitIs
  <2> QED
    BY <1>1, <1>3, <2>1, <2>2 DEF Left
<1>4. CASE p \in Left(stall) /\ x \in Left(stall)
  <2>1. Val(r, u) /\ Val(r, w) /\ x \in Valid /\ ~Killed(x)
    BY <1>0, <1>1, <1>4, LeftIs, ValidIs
  <2>2. q \in Valid
    BY <1>0, <1>1, <2>1, ValidIs DEF Shape
  <2>3. Age(q) <= Age(x)
    <3>1. Dist(r) \in Nat
      BY <1>0, DistIs
    <3> QED
      BY <1>0, <1>1, <1>2, <3>1, AgeIs
  <2>4. ~Killed(q)
    BY <2>1, <2>2, <2>3, KilledIs
  <2> QED
    BY <1>1, <1>3, <1>4, <2>2, <2>4
<1>5. CASE x \in Added(extra)
  <2>1. EnqValids(extra) # {}
    BY <1>5 DEF Added
  <2>2. r = rob_tail /\ w \in EnqValids(extra) /\ Pending(w)
        /\ rob_state # "rollback" /\ ~Full /\ ~b2.mispredict /\ ~Killed(q)
    BY <1>0, <1>1, <1>5, <2>1, AddedLast, EnqIs
  <2>3. Pending(v) => <<r, v>> \in Added(extra)
    <3>1. Pending(v) => v \in EnqValids(extra)
      BY <1>0, <2>2, EnqIs
    <3> QED
      BY <2>1, <2>2, <3>1, AddedLast
  <2>4. CASE p \in Left(stall)
    <3>1. Val(rob_tail, u)
      BY <1>0, <1>1, <2>2, <2>4, LeftIs, ValidIs
    <3>2. Val(rob_tail, v) \/ Pending(v)
      BY <1>0, <2>2, <3>1 DEF Partial
    <3>3. Val(rob_tail, v) => q \in Valid
      BY <1>0, <1>1, <2>2, ValidIs
    <3> QED
      BY <1>1, <1>3, <2>2, <2>3, <2>4, <3>2, <3>3
  <2>5. CASE p \in Added(extra)
    <3>1. Pending(u)
      BY <1>0, <1>1, <2>1, <2>5, AddedLast, EnqIs
    <3>2. Pending(v)
      BY <1>0, <2>2, <3>1 DEF Partial
    <3> QED
      BY <2>3, <3>2
  <2> QED
    BY <1>1, <2>4, <2>5
<1>6. CASE p \in Added(extra) /\ x \in Left(stall)
  <2>1. EnqValids(extra) # {}
    BY <1>6 DEF Added
  <2>2. r = rob_tail /\ Pending(u) /\ rob_state # "rollback" /\ ~Full /\ ~b2.mispredict
    BY <1>0, <1>1, <1>6, <2>1, AddedLast, EnqIs
  <2>3. Val(rob_tail, w)
    BY <1>0, <1>1, <1>6, <2>2, LeftIs, ValidIs
  <2>4. w < u
    BY <1>0, <2>2, <2>3 DEF Partial
  <2> QED
    BY <1>2, <2>4
<1> QED
  BY <1>1, <1>4, <1>5, <1>6

\* The rows in use stay without a gap.
LEMMA ShapeNext ==
    ASSUME RInv, NEW extra, NEW stall, NEW E, NEW R, NEW M, NEW lx,
           Clocked(extra, stall, E, R, M, lx)
    PROVE  Shape'
<1>0. rob_head \in Rows /\ rob_tail \in Rows /\ TypeOK /\ Partial /\ Shape
  BY LimitIs DEF RInv
<1>1. PICK V : V = Left(stall) \cup Added(extra)
  OBVIOUS
<1>2. Valid' = V /\ \A r \in Rows, w \in Banks : Val(r, w)' <=> <<r, w>> \in V
  BY <1>1, ValNext
<1>3. \A p \in V : Dist(p[1])' < Limit' \/ (~b2'.mispredict /\ ~Full' /\ p[1] = rob_tail')
  BY <1>1, RowsNext
<1>4. \A r \in Rows : Dist(r)' < Limit' => \E w \in Banks : <<r, w>> \in V
  BY <1>1, NoGapNext
<1>5. \A r \in Rows, u, v, w \in Banks :
          u < v /\ v < w /\ <<r, u>> \in V /\ <<r, w>> \in V => <<r, v>> \in V
  BY <1>1, ContigNext
<1>6. ASSUME b2'.mispredict
      PROVE  b2'.pos \in V /\ maybe_full' /\ \A p \in V : (Age(p) <= Age(b2.pos))'
  <2>1. b1.mis # {}
    BY <1>6, RedirectNext
  <2>2. PICK m \in V : m = OldestMis /\ m \in Left(stall) /\ \A p \in Left(stall) : Age(p) <= Age(m)
    BY <1>1, <2>1, OldestIs
  <2>3. b2'.pos = m
    BY <2>1, <2>2, RedirectNext
  <2>4. V = Left(stall)
    <3>1. Added(extra) = {}
      BY <1>0, <2>1, EnqIs DEF Added
    <3> QED
      BY <1>1, <3>1
  <2>5. \A p \in V : (Age(p) <= Age(m))'
    BY <1>1, <2>2, <2>4, AgeNext
  <2>6. \A p \in V : (Age(p) <= Age(b2.pos))'
    <3>1. (\A p : Age(p) <= Age(b2.pos) <=> Age(p) <= Age(m))'
      BY <2>3
    <3> QED
      BY <2>5, <3>1
  <2> QED
    BY <2>1, <2>3, <2>6, FullNext
<1>7. ASSUME NEW w \in Banks, <<rob_head', w>> \in V PROVE rob_head_lsb' <= w
  <2>1. rob_head_lsb' = IF FinishedRow(stall) \/ HeadVals = {} THEN 0 ELSE SetMin(HeadVals)
    BY CycleIs DEF HeadAfter
  <2>2. CASE FinishedRow(stall) \/ HeadVals = {}
    BY <2>1, <2>2, Constants
  <2>3. CASE ~(FinishedRow(stall) \/ HeadVals = {})
    <3>1. rob_head' = rob_head
      BY <2>3, CycleIs DEF HeadAfter
    <3>2. HeadVals \subseteq Nat /\ HeadVals # {} /\ w \in Nat
      BY <2>3, Constants DEF HeadVals
    <3>3. SetMin(HeadVals) \in HeadVals /\ \A y \in HeadVals : SetMin(HeadVals) <= y
      BY <3>2, MinIs
    <3>4. PICK p \in Spots : p = <<rob_head, w>> /\ p[1] = rob_head /\ p[2] = w
      BY <1>0, PairIs
    <3>5. CASE p \in Left(stall)
      <4>1. w \in HeadVals
        BY <1>0, <3>4, <3>5, LeftIs, ValidIs DEF HeadVals
      <4> QED
        BY <2>1, <2>3, <3>3, <4>1
    <3>6. CASE p \in Added(extra)
      <4>1. EnqValids(extra) # {}
        BY <3>6 DEF Added
      <4>2. rob_tail = rob_head /\ w \in EnqValids(extra) /\ Pending(w)
            /\ rob_state # "rollback" /\ ~Full /\ ~b2.mispredict
        BY <1>0, <3>4, <3>6, <4>1, AddedLast, EnqIs
      <4>3. PICK v \in Banks : v = SetMin(HeadVals) /\ Val(rob_head, v) /\ v \in Nat
        BY <3>2, <3>3 DEF HeadVals
      <4>4. v < w
        BY <1>0, <4>2, <4>3 DEF Partial
      <4> QED
        BY <2>1, <2>3, <3>2, <4>3, <4>4
    <3> QED
      BY <1>1, <1>7, <3>1, <3>4, <3>5, <3>6
  <2> QED
    BY <2>2, <2>3
<1>8. \A w \in Banks : Val(rob_head, w)' <=> <<rob_head', w>> \in V
  <2>1. rob_head' \in Rows
    BY HeadNext
  <2>2. \A r \in Rows, w \in Banks : Val(r, w)' <=> ent'[r, w].k # "none"
    BY DEF Val
  <2>3. \A w \in Banks : Val(rob_head, w)' <=> ent'[rob_head', w].k # "none"
    BY DEF Val
  <2> QED
    BY <1>2, <2>1, <2>2, <2>3
<1> QED
  BY <1>2, <1>3, <1>4, <1>5, <1>6, <1>7, <1>8 DEF Shape

\* The state machine of the ROB; from wait_till_empty no exception leads to a rollback.
LEMMA StateNext ==
    ASSUME RInv, NEW extra, NEW stall, NEW E, NEW R, NEW M, NEW lx,
           Clocked(extra, stall, E, R, M, lx)
    PROVE  /\ rob_state = "reset" => rob_state' = "normal"
           /\ rob_state = "normal" =>
                  rob_state' = IF thrown2 THEN "rollback"
                               ELSE IF \E w \in EnqValids(extra) : pkt[w] = "uniq"
                               THEN "wait_till_empty" ELSE "normal"
           /\ rob_state = "rollback" => rob_state' = IF Empty THEN "normal" ELSE "rollback"
           /\ rob_state = "wait_till_empty" =>
                  rob_state' = IF Empty THEN "normal" ELSE "wait_till_empty"
           /\ rob_state \in {"reset", "normal", "rollback", "wait_till_empty"}
<1>1. rob_state' = StateAfter(EnqValids(extra))
  BY CycleIs
<1>2. rob_state = "wait_till_empty" => ~thrown1
  BY DEF RInv, Control
<1>3. rob_state \in {"reset", "normal", "rollback", "wait_till_empty"}
  BY DEF RInv, TypeOK
<1>4. CASE rob_state = "reset"
  BY <1>1, <1>4 DEF StateAfter
<1>5. CASE rob_state = "normal"
  BY <1>1, <1>5 DEF StateAfter, IsUnique
<1>6. CASE rob_state = "rollback"
  BY <1>1, <1>6 DEF StateAfter
<1>7. CASE rob_state = "wait_till_empty"
  BY <1>1, <1>2, <1>7 DEF StateAfter
<1> QED
  BY <1>3, <1>4, <1>5, <1>6, <1>7

\* A flush without an exception is the commit of a uop that is alone.
LEMMA FlushIs ==
    ASSUME RInv, NEW extra, NEW stall, FlushVal(stall), ~ExceptionThrown(stall)
    PROVE  /\ rob_state = "wait_till_empty" /\ Left(stall) = {} /\ Added(extra) = {}
           /\ b1.mis = {} /\ ~r_xcpt.val
<1>1. PICK w \in WillCommit(stall) : ent[rob_head, w].k = "uniq"
  BY DEF FlushVal
<1>2. <<rob_head, w>> \in Valid
  BY <1>1, CommitIs
<1>3. rob_state = "wait_till_empty" /\ \A p \in Valid : p = <<rob_head, w>>
  BY <1>1, <1>2 DEF RInv, Alone
<1>4. b1.pos = {} /\ ~r_xcpt.val
  BY <1>3 DEF RInv, Control
<1>5. b1.mis = {}
  BY <1>4, KilledIs DEF Mispredicted
<1>6. ASSUME NEW p \in Left(stall) PROVE FALSE
  <2>1. p = <<rob_head, w>> /\ ~(p[1] = rob_head /\ p[2] \in WillCommit(stall))
    BY <1>3, <1>6, LeftIs
  <2> QED
    BY <1>1, <2>1
<1>7. EnqValids(extra) = {}
  BY <1>3, EnqIs DEF RInv
<1>8. Added(extra) = {}
  BY <1>7 DEF Added
<1> QED
  BY <1>3, <1>4, <1>5, <1>6, <1>8

\* The exception that is remembered next.
Remembers(n, extra, stall, lx) ==
    /\ r_xcpt' = IF ~n.val \/ FlushVal(stall) \/ n.br_mask \cap b1.mis # {} THEN NoXcpt
                 ELSE [val |-> TRUE, pos |-> n.pos, br_mask |-> n.br_mask \ b1.res]
    /\ \/ /\ n = r_xcpt
          /\ \/ FlushVal(stall) \/ rob_state = "rollback"
             \/ lx # <<>> /\ r_xcpt.val /\ ~(Age(lx) < Age(r_xcpt.pos))
             \/ lx = <<>> /\ (r_xcpt.val \/ \A w \in EnqValids(extra) : pkt[w] # "xcpt")
       \/ /\ ~FlushVal(stall) /\ rob_state # "rollback"
          /\ lx # <<>> /\ n.val /\ n.pos = lx /\ n.br_mask = ent[lx].br_mask
          /\ r_xcpt.val => Age(lx) < Age(r_xcpt.pos)
       \/ /\ ~FlushVal(stall) /\ rob_state # "rollback"
          /\ lx = <<>> /\ ~r_xcpt.val /\ n.val
          /\ \E w \in EnqValids(extra) :
                /\ pkt[w] = "xcpt" /\ n.pos = <<rob_tail, w>>
                /\ n.br_mask = NewEnt(w).br_mask
                /\ \A v \in EnqValids(extra) : pkt[v] = "xcpt" => w <= v

\* The logic of r_xcpt picks the oldest of the remembered, the LSU's and the dispatched
\* exception (rob.scala 631-665).
LEMMA XcptNextIs ==
    ASSUME RInv, NEW extra, NEW stall, NEW E, NEW R, NEW M, NEW lx,
           Clocked(extra, stall, E, R, M, lx)
    PROVE  \E n \in [val : BOOLEAN, pos : Spots, br_mask : SUBSET Tags] :
               Remembers(n, extra, stall, lx)
<1>0. /\ TypeOK /\ Partial /\ Progress /\ Valid \subseteq Spots
      /\ r_xcpt \in [val : BOOLEAN, pos : Spots, br_mask : SUBSET Tags]
  BY LimitIs DEF RInv, TypeOK
<1>1. PICK enqx : enqx = {w \in EnqValids(extra) : pkt[w] = "xcpt"}
  OBVIOUS
<1>2. PICK n : n = NextXcpt(lx, EnqValids(extra), stall)
  OBVIOUS
<1>3. n = IF FlushVal(stall) \/ rob_state = "rollback" THEN r_xcpt
          ELSE IF lx # <<>>
          THEN IF ~r_xcpt.val \/ IsOlder(IdxOf(lx), IdxOf(r_xcpt.pos), HeadIdx)
               THEN [val |-> TRUE, pos |-> lx, br_mask |-> ent[lx].br_mask] ELSE r_xcpt
          ELSE IF ~r_xcpt.val /\ enqx # {}
          THEN [val |-> TRUE, pos |-> <<rob_tail, SetMin(enqx)>>,
                br_mask |-> NewEnt(SetMin(enqx)).br_mask]
          ELSE r_xcpt
  BY <1>1, <1>2 DEF NextXcpt
<1>4. r_xcpt' = IF ~n.val \/ FlushVal(stall) \/ n.br_mask \cap b1.mis # {} THEN NoXcpt
                ELSE [n EXCEPT !.br_mask = @ \ b1.res]
  BY <1>2, CycleIs DEF XcptAfter
<1>5. ASSUME n \in [val : BOOLEAN, pos : Spots, br_mask : SUBSET Tags], n.val
      PROVE  [n EXCEPT !.br_mask = @ \ b1.res]
                 = [val |-> TRUE, pos |-> n.pos, br_mask |-> n.br_mask \ b1.res]
  <2>1. n.val = TRUE /\ n.br_mask \ b1.res \in SUBSET Tags
    BY <1>5
  <2>2. PICK y : y = [n EXCEPT !.br_mask = @ \ b1.res]
    OBVIOUS
  <2>3. y \in [val : BOOLEAN, pos : Spots, br_mask : SUBSET Tags]
    BY <1>5, <2>1, <2>2
  <2>4. y.val = TRUE /\ y.pos = n.pos /\ y.br_mask = n.br_mask \ b1.res
    BY <1>5, <2>1, <2>2
  <2> QED
    BY <2>2, <2>3, <2>4
<1>6. ASSUME n \in [val : BOOLEAN, pos : Spots, br_mask : SUBSET Tags]
      PROVE  r_xcpt' = IF ~n.val \/ FlushVal(stall) \/ n.br_mask \cap b1.mis # {} THEN NoXcpt
                       ELSE [val |-> TRUE, pos |-> n.pos, br_mask |-> n.br_mask \ b1.res]
  BY <1>4, <1>5, <1>6
<1>7. CASE FlushVal(stall) \/ rob_state = "rollback"
  <2>1. n = r_xcpt
    BY <1>3, <1>7
  <2> QED
    BY <1>0, <1>6, <1>7, <2>1 DEF Remembers
<1>8. CASE ~(FlushVal(stall) \/ rob_state = "rollback") /\ lx # <<>>
  <2>1. lx \in Valid /\ ent[lx].br_mask \in SUBSET Tags
    <3>1. lx \in CanFault
      BY <1>8 DEF Clocked
    <3>2. lx \in Valid
      BY <3>1 DEF CanFault
    <3> QED
      BY <1>0, <3>2, ValidIs DEF Entries
  <2>2. r_xcpt.val => (IsOlder(IdxOf(lx), IdxOf(r_xcpt.pos), HeadIdx) <=> Age(lx) < Age(r_xcpt.pos))
    <3>1. r_xcpt.val => r_xcpt.pos \in Valid
      BY DEF RInv, Excepted
    <3> QED
      BY <2>1, <3>1, OlderIs
  <2>3. CASE ~r_xcpt.val \/ IsOlder(IdxOf(lx), IdxOf(r_xcpt.pos), HeadIdx)
    <3>1. n = [val |-> TRUE, pos |-> lx, br_mask |-> ent[lx].br_mask]
      BY <1>3, <1>8, <2>3
    <3>2. n \in [val : BOOLEAN, pos : Spots, br_mask : SUBSET Tags] /\ n.val /\ n.pos = lx
          /\ n.br_mask = ent[lx].br_mask
      BY <1>0, <2>1, <3>1
    <3> QED
      BY <1>6, <1>8, <2>2, <2>3, <3>2 DEF Remembers
  <2>4. CASE ~(~r_xcpt.val \/ IsOlder(IdxOf(lx), IdxOf(r_xcpt.pos), HeadIdx))
    <3>1. n = r_xcpt
      BY <1>3, <1>8, <2>4
    <3> QED
      BY <1>0, <1>6, <1>8, <2>2, <2>4, <3>1 DEF Remembers
  <2> QED
    BY <2>3, <2>4
<1>9. CASE ~(FlushVal(stall) \/ rob_state = "rollback") /\ lx = <<>>
  <2>1. CASE ~r_xcpt.val /\ enqx # {}
    <3>1. enqx \subseteq Nat
      BY <1>0, <1>1, EnqIs, Constants
    <3>2. PICK w \in enqx : w = SetMin(enqx) /\ \A y \in enqx : w <= y
      BY <2>1, <3>1, MinIs
    <3>3. w \in EnqValids(extra) /\ pkt[w] = "xcpt" /\ w \in Banks
      BY <1>0, <1>1, <3>2, EnqIs
    <3>4. PICK p \in Spots, m \in SUBSET Tags : p = <<rob_tail, w>> /\ m = NewEnt(w).br_mask
      <4>1. NewEnt(w).br_mask \in SUBSET Tags
        BY <1>0, <3>3, NewEntIs DEF Entries
      <4>2. rob_tail \in Rows
        BY <1>0 DEF TypeOK
      <4> QED
        BY <3>3, <4>1, <4>2, PairIs
    <3>5. n = [val |-> TRUE, pos |-> p, br_mask |-> m]
      BY <1>3, <1>9, <2>1, <3>2, <3>4
    <3>6. n \in [val : BOOLEAN, pos : Spots, br_mask : SUBSET Tags] /\ n.val /\ n.pos = p /\ n.br_mask = m
      BY <3>5
    <3>7. \A v \in EnqValids(extra) : pkt[v] = "xcpt" => w <= v
      BY <1>1, <3>2
    <3> QED
      BY <1>6, <1>9, <2>1, <3>3, <3>4, <3>6, <3>7 DEF Remembers
  <2>2. CASE ~(~r_xcpt.val /\ enqx # {})
    <3>1. n = r_xcpt
      BY <1>3, <1>9, <2>2
    <3>2. r_xcpt.val \/ \A w \in EnqValids(extra) : pkt[w] # "xcpt"
      BY <1>1, <2>2
    <3> QED
      BY <1>0, <1>6, <1>9, <3>1, <3>2 DEF Remembers
  <2> QED
    BY <2>1, <2>2
<1> QED
  BY <1>7, <1>8, <1>9

\* If dispatch finds something in the row at the tail, it put it there.
LEMMA TailRowNext ==
    ASSUME RInv, NEW extra, NEW stall, NEW E, NEW R, NEW M, NEW lx,
           Clocked(extra, stall, E, R, M, lx),
           rob_state' # "rollback", ~b2'.mispredict, ~Full',
           NEW p \in Left(stall) \cup Added(extra), p[1] = rob_tail'
    PROVE  /\ rob_tail' = rob_tail /\ rob_state # "rollback" /\ ~b2.mispredict /\ ~Full
           /\ b1.mis = {} /\ ~RobEnq(EnqValids(extra), Stalled(extra)) /\ ~RollbackARow
           /\ p[1] = rob_tail
<1>0. /\ rob_head \in Rows /\ rob_tail \in Rows /\ Limit \in Nat /\ TypeOK /\ NumRows \in Nat
      /\ p \in Added(extra) => EnqValids(extra) # {}
  BY LimitIs, Constants DEF RInv, Added
<1>1. b1.mis = {}
  BY RedirectNext
<1>2. PICK r \in Rows, d \in Nat, n \in {0, 1}, g \in {-1, 0, 1} :
         /\ r = p[1] /\ d = Dist(r) /\ d < NumRows /\ n = Moves(stall) /\ Dist(r)' = d - n
         /\ g = Grows(extra) /\ Limit' = (Limit + g) - n
  <2>1. Dist(p[1])' = Dist(p[1]) - Moves(stall) /\ p[1] \in Rows /\ Moves(stall) \in {0, 1}
    BY HeadNext
  <2>2. Limit' = (Limit + Grows(extra)) - Moves(stall) /\ Grows(extra) \in {-1, 0, 1}
    BY <1>1, LimitNext
  <2>3. PICK r \in Rows, n \in {0, 1} : r = p[1] /\ n = Moves(stall) /\ Dist(r)' = Dist(r) - n
    BY <2>1
  <2> QED
    BY <1>0, <2>2, <2>3, DistIs
<1>3. Limit' = Dist(r)'
  <2>1. Limit' = Dist(rob_tail)'
    BY DEF Limit
  <2> QED
    BY <1>2, <2>1 DEF Dist
<1>4. d = Limit + g
  BY <1>0, <1>2, <1>3
<1>5. ~RobEnq(EnqValids(extra), Stalled(extra))
  <2>1. ASSUME RobEnq(EnqValids(extra), Stalled(extra)) PROVE FALSE
    <3>1. g = 1 /\ ~Full /\ ~b2.mispredict
      BY <1>2, <2>1, TailIs DEF Grows
    <3>2. d <= Limit
      <4>1. CASE p \in Left(stall)
        BY <1>2, <4>1, LimitIs, LeftIs
      <4>2. CASE p \in Added(extra)
        BY <1>0, <1>2, <3>1, <4>2, LimitIs, AddedLast
      <4> QED
        BY <4>1, <4>2
    <3> QED
      BY <1>0, <1>4, <3>1, <3>2
  <2> QED
    BY <2>1
<1>6. rob_state # "rollback"
  <2>1. ASSUME rob_state = "rollback" PROVE FALSE
    <3>1. Empty
      BY <2>1, StateNext
    <3>2. p \notin Left(stall)
      BY <3>1, EmptyIs, LeftIs
    <3>3. EnqValids(extra) # {}
      BY <1>0, <3>2
    <3> QED
      BY <2>1, <3>3, AddedLast
  <2> QED
    BY <2>1
<1>7. ~RollbackARow
  BY <1>6 DEF RollbackARow
<1>8. g = 0 /\ d = Limit
  BY <1>0, <1>2, <1>4, <1>5, <1>7 DEF Grows
<1>9. ~b2.mispredict
  <2>1. ASSUME b2.mispredict PROVE FALSE
    <3>1. p \in Left(stall)
      BY <1>0, <2>1, AddedLast
    <3>2. d < Limit
      BY <1>2, <2>1, <3>1, LimitIs, LeftIs
    <3> QED
      BY <1>0, <1>8, <3>2
  <2> QED
    BY <2>1
<1>10. ~Full
  BY <1>2, <1>8, <1>9, LimitIs, Constants
<1>11. rob_tail' = rob_tail
  BY <1>5, <1>7, <1>9, TailIs
<1> QED
  BY <1>1, <1>5, <1>6, <1>7, <1>9, <1>10, <1>11

\* The rest of the packet stays in its place behind the part that was dispatched.
LEMMA RestNext ==
    ASSUME RInv, NEW extra, NEW stall, NEW E, NEW R, NEW M, NEW lx,
           Clocked(extra, stall, E, R, M, lx)
    PROVE  /\ \/ \A w \in Banks : pkt'[w] = "none"
              \/ /\ ~RedirectFlush /\ Stalled(extra)
                 /\ \A w \in Banks : pkt'[w] = IF w \in EnqValids(extra) THEN "none" ELSE pkt[w]
              \/ /\ ~RedirectFlush /\ ~Stalled(extra)
                 /\ \A u, v, w \in Banks : u < v /\ v < w /\ Pending(u)' /\ Pending(w)' => Pending(v)'
           /\ RedirectFlush => \A w \in Banks : pkt'[w] = "none"
           /\ pkt' \in [Banks -> AllKinds \cup {"none"}]
<1>0. TypeOK /\ kinds \subseteq AllKinds
  BY DEF RInv, TypeOK
<1>1. CASE RedirectFlush
  <2>1. pkt' = NoPkt
    BY <1>1, CycleIs
  <2>2. \A w \in Banks : pkt'[w] = "none"
    BY <2>1 DEF NoPkt
  <2>3. pkt' \in [Banks -> AllKinds \cup {"none"}]
    BY <2>1 DEF NoPkt
  <2> QED
    BY <2>2, <2>3
<1>2. CASE ~RedirectFlush /\ Stalled(extra)
  <2>1. pkt' = [w \in Banks |-> IF w \in EnqValids(extra) THEN "none" ELSE pkt[w]]
    BY <1>2, CycleIs
  <2>2. pkt' \in [Banks -> AllKinds \cup {"none"}]
    BY <1>0, <2>1 DEF TypeOK
  <2>3. \A w \in Banks : pkt'[w] = IF w \in EnqValids(extra) THEN "none" ELSE pkt[w]
    BY <2>1
  <2> QED
    BY <1>2, <2>2, <2>3
<1>3. CASE ~RedirectFlush /\ ~Stalled(extra)
  <2>1. pkt' \in Packets \cup {NoPkt}
    BY <1>3, CycleIs
  <2>2. CASE pkt' = NoPkt
    <3>1. \A w \in Banks : pkt'[w] = "none"
      BY <2>2 DEF NoPkt
    <3>2. pkt' \in [Banks -> AllKinds \cup {"none"}]
      BY <2>2 DEF NoPkt
    <3> QED
      BY <1>3, <3>1, <3>2
  <2>3. CASE pkt' \in Packets
    <3>1. PICK lo \in Banks, hi \in Banks, f \in [Banks -> kinds] :
             pkt' = [w \in Banks |-> IF w \in lo..hi THEN f[w] ELSE "none"]
      BY <2>3 DEF Packets
    <3>2. \A w \in Banks : f[w] \in AllKinds /\ f[w] # "none"
      BY <1>0 DEF AllKinds
    <3>3. \A w \in Banks : pkt'[w] # "none" <=> w \in lo..hi
      BY <3>1, <3>2
    <3>4. \A u, v, w \in Banks : u < v /\ v < w /\ u \in lo..hi /\ w \in lo..hi => v \in lo..hi
      BY Constants
    <3>5. \A u, v, w \in Banks : u < v /\ v < w /\ Pending(u)' /\ Pending(w)' => Pending(v)'
      BY <3>3, <3>4 DEF Pending
    <3>6. pkt' \in [Banks -> AllKinds \cup {"none"}]
      BY <3>1, <3>2
    <3> QED
      BY <1>3, <3>5, <3>6
  <2> QED
    BY <2>1, <2>2, <2>3
<1> QED
  BY <1>1, <1>2, <1>3

\* What is left of a packet has no gap.
LEMMA PacketNext ==
    ASSUME RInv, NEW extra, NEW stall, NEW E, NEW R, NEW M, NEW lx,
           Clocked(extra, stall, E, R, M, lx),
           NEW u \in Banks, NEW v \in Banks, NEW w \in Banks,
           u < v, v < w, Pending(u)', Pending(w)'
    PROVE  Pending(v)'
<1>0. TypeOK /\ Partial
  BY DEF RInv
<1>1. \A x : Pending(x)' <=> pkt'[x] # "none"
  BY DEF Pending
<1>2. CASE \A x \in Banks : pkt'[x] = "none"
  BY <1>1, <1>2
<1>3. CASE \A x \in Banks : pkt'[x] = IF x \in EnqValids(extra) THEN "none" ELSE pkt[x]
  <2>1. \A x \in Banks : Pending(x)' <=> Pending(x) /\ x \notin EnqValids(extra)
    BY <1>1, <1>3 DEF Pending
  <2>2. Pending(u) /\ Pending(w) /\ u \notin EnqValids(extra)
    BY <2>1
  <2>3. Pending(v)
    BY <1>0, <2>2 DEF Partial
  <2>4. v \notin EnqValids(extra)
    BY <1>0, <2>2, EnqIs
  <2> QED
    BY <2>1, <2>3, <2>4
<1>4. CASE \A i, j, k \in Banks : i < j /\ j < k /\ Pending(i)' /\ Pending(k)' => Pending(j)'
  BY <1>4
<1> QED
  BY <1>2, <1>3, <1>4, RestNext

\* The partial row and the rest of its packet stay together.
LEMMA PartialNext ==
    ASSUME RInv, NEW extra, NEW stall, NEW E, NEW R, NEW M, NEW lx,
           Clocked(extra, stall, E, R, M, lx)
    PROVE  Partial'
<1>0. TypeOK /\ Partial /\ rob_tail \in Rows /\ rob_head \in Rows
  BY LimitIs DEF RInv
<1>1. PICK V : V = Left(stall) \cup Added(extra)
  OBVIOUS
<1>2. PICK enq : enq = EnqValids(extra)
  OBVIOUS
<1>3. \A w \in Banks : Val(rob_tail, w)' <=> <<rob_tail', w>> \in V
  <2>1. Valid' = V
    BY <1>1, ValNext
  <2>2. \A w \in Banks : Val(rob_tail, w)' <=> ent'[rob_tail', w].k # "none"
    BY DEF Val
  <2>3. \A w \in Banks : <<rob_tail', w>> \in Valid' <=> rob_tail' \in Rows /\ ent'[rob_tail', w].k # "none"
    BY DEF Valid
  <2>4. rob_tail' \in Rows
    <3>1. CASE RobEnq(EnqValids(extra), Stalled(extra))
      BY <1>0, <3>1, TailIs, WrapIncIs
    <3>2. CASE RollbackARow
      BY <1>0, <3>2, TailIs, WrapDecIs
    <3>3. CASE b2.mispredict
      BY <1>0, <3>3, TailIs, LimitIs, SpotIs, WrapIncIs
    <3>4. CASE ~RobEnq(EnqValids(extra), Stalled(extra)) /\ ~RollbackARow /\ ~b2.mispredict
      BY <1>0, <3>4, TailIs
    <3> QED
      BY <3>1, <3>2, <3>3, <3>4
  <2> QED
    BY <2>1, <2>2, <2>3, <2>4
<1>4. ASSUME rob_state' # "rollback", ~b2'.mispredict, ~Full', NEW v \in Banks, <<rob_tail', v>> \in V
      PROVE  /\ \A w \in Banks : Pending(w)' =>
                    v < w /\ \A u \in Banks : v < u /\ u < w => <<rob_tail', u>> \in V \/ Pending(u)'
             /\ r_partial_row'
             /\ (\E w \in Banks : Pending(w)') \/ b1'.mis # {} \/ r_xcpt'.val \/ thrown1' \/ thrown2'
  <2>1. PICK p \in V : p = <<rob_tail', v>> /\ p[1] = rob_tail' /\ p[2] = v /\ p \in Spots
    <3>1. \A x \in V : x \in Spots
      BY <1>1, HeadNext
    <3> QED
      BY <1>4, <3>1
  <2>2. /\ rob_tail' = rob_tail /\ rob_state # "rollback" /\ ~b2.mispredict /\ ~Full
        /\ b1.mis = {} /\ ~RobEnq(EnqValids(extra), Stalled(extra)) /\ ~RollbackARow
    BY <1>1, <1>4, <2>1, TailRowNext
  <2>3. p = <<rob_tail, v>>
    BY <2>1, <2>2
  <2>4. enq # {} => Stalled(extra)
    BY <1>2, <2>2 DEF RobEnq
  <2>5. p \in Left(stall) => Val(rob_tail, v) /\ ~(rob_tail = rob_head /\ v \in WillCommit(stall))
    BY <1>0, <2>3, LeftIs, ValidIs
  <2>6. p \in Added(extra) => v \in enq
    BY <1>2, <2>3 DEF Added
  <2>7. \A x : Pending(x)' <=> pkt'[x] # "none"
    BY DEF Pending
  <2>8. CASE enq # {}
    <3>1. ~RedirectFlush
      <4>1. ~flush1 /\ ~b2.mispredict /\ b1.mis = {} /\ ~r_xcpt.val
        BY <1>0, <1>2, <2>8, EnqIs
      <4> QED
        BY <4>1 DEF RedirectFlush
    <3>2. \A w \in Banks : Pending(w)' <=> Pending(w) /\ w \notin enq
      <4>1. CASE \A w \in Banks : pkt'[w] = "none"
        <5>1. pkt' = [w \in Banks |-> IF w \in EnqValids(extra) THEN "none" ELSE pkt[w]]
          BY <1>2, <2>4, <2>8, <3>1, CycleIs
        <5>2. \A w \in Banks : pkt'[w] = IF w \in EnqValids(extra) THEN "none" ELSE pkt[w]
          BY <5>1
        <5> QED
          BY <1>2, <2>7, <5>2 DEF Pending
      <4>2. CASE \A w \in Banks : pkt'[w] = IF w \in EnqValids(extra) THEN "none" ELSE pkt[w]
        BY <1>2, <2>7, <4>2 DEF Pending
      <4> QED
        BY <1>2, <2>4, <2>8, <4>1, <4>2, RestNext
    <3>3. r_partial_row'
      BY <1>2, <2>4, <2>8, CycleIs
    <3>4. \E w \in Banks : Pending(w)'
      BY <1>0, <1>2, <2>4, <2>8, <3>2, EnqIs
    <3>5. ASSUME NEW w \in Banks, Pending(w)'
          PROVE  v < w /\ \A u \in Banks : v < u /\ u < w => <<rob_tail, u>> \in V \/ Pending(u)'
      <4>0. v \in Nat /\ w \in Nat
        BY Constants
      <4>1. Pending(w) /\ w \notin enq
        BY <3>2, <3>5
      <4>2. CASE p \in Left(stall)
        <5>1. Val(rob_tail, v)
          BY <2>5, <4>2
        <5>2. v < w /\ \A u \in Banks : v < u /\ u < w => Val(rob_tail, u) \/ Pending(u)
          BY <1>0, <2>2, <4>1, <5>1 DEF Partial
        <5>3. ASSUME NEW u \in Banks, v < u, u < w, Val(rob_tail, u) PROVE <<rob_tail, u>> \in V
          <6>1. PICK q \in Spots : q = <<rob_tail, u>> /\ q[1] = rob_tail /\ q[2] = u
            BY <1>0, PairIs
          <6>2. q \in Valid /\ ~Killed(q)
            BY <1>0, <2>2, <5>3, <6>1, ValidIs DEF Killed
          <6>3. ~(rob_tail = rob_head /\ u \in WillCommit(stall))
            BY <2>5, <4>2, <5>1, <5>3, CommitIs
          <6> QED
            BY <1>1, <2>2, <6>1, <6>2, <6>3 DEF Left, RbkRow
        <5>4. ASSUME NEW u \in Banks, v < u, u < w, Pending(u)
              PROVE  <<rob_tail, u>> \in V \/ Pending(u)'
          <6>1. CASE u \in enq
            BY <1>1, <1>2, <6>1 DEF Added
          <6>2. CASE u \notin enq
            BY <3>2, <5>4, <6>2
          <6> QED
            BY <6>1, <6>2
        <5> QED
          BY <5>2, <5>3, <5>4
      <4>3. CASE p \in Added(extra)
        <5>1. v \in enq /\ Pending(v)
          BY <1>0, <1>2, <2>6, <4>3, EnqIs
        <5>2. v < w
          <6>1. ~(w < v) /\ w # v
            BY <1>0, <1>2, <4>1, <5>1, EnqIs
          <6> QED
            BY <4>0, <6>1
        <5>3. \A u \in Banks : v < u /\ u < w => Pending(u)
          BY <1>0, <4>1, <5>1 DEF Partial
        <5>4. \A u \in enq : <<rob_tail, u>> \in V
          BY <1>1, <1>2 DEF Added
        <5> QED
          BY <3>2, <5>2, <5>3, <5>4
      <4> QED
        BY <1>1, <4>2, <4>3
    <3> QED
      BY <2>2, <3>3, <3>4, <3>5
  <2>9. CASE enq = {}
    <3>1. p \in Left(stall) /\ p \in Valid /\ Val(rob_tail, v)
      BY <1>1, <2>5, <2>6, <2>9, LeftIs
    <3>2. /\ r_partial_row
          /\ (\E w \in Banks : Pending(w)) \/ r_xcpt.val \/ thrown1 \/ thrown2
      BY <1>0, <2>2, <3>1 DEF Partial
    <3>3. r_partial_row'
      BY <1>2, <2>9, <3>2, CycleIs
    <3>4. ~thrown2
      <4>1. thrown2 => rob_state = "normal"
        BY DEF RInv, Control
      <4> QED
        BY <1>4, <4>1, StateNext
    <3>5. thrown1 => thrown2'
      BY CycleIs
    <3>6. flush1 => thrown1
      BY <3>1 DEF RInv, Control
    <3>7. r_xcpt.val => r_xcpt'.val \/ thrown1'
      <4>1. ASSUME r_xcpt.val PROVE r_xcpt'.val \/ thrown1'
        <5>1. PICK n \in [val : BOOLEAN, pos : Spots, br_mask : SUBSET Tags] :
                 /\ r_xcpt' = IF ~n.val \/ FlushVal(stall) \/ n.br_mask \cap b1.mis # {} THEN NoXcpt
                              ELSE [val |-> TRUE, pos |-> n.pos, br_mask |-> n.br_mask \ b1.res]
                 /\ n = r_xcpt \/ n.val
          BY <4>1, XcptNextIs DEF Remembers
        <5>2. n.val /\ n.br_mask \cap b1.mis = {}
          BY <2>2, <4>1, <5>1
        <5>3. CASE FlushVal(stall)
          BY <4>1, <5>3, FlushIs, CycleIs
        <5>4. CASE ~FlushVal(stall)
          BY <5>1, <5>2, <5>4
        <5> QED
          BY <5>3, <5>4
      <4> QED
        BY <4>1
    <3>8. CASE r_xcpt.val \/ thrown1
      <4>1. RedirectFlush
        <5>1. thrown1 => flush1
          BY DEF RInv, Control
        <5> QED
          BY <3>8, <5>1 DEF RedirectFlush
      <4>2. \A w \in Banks : ~Pending(w)'
        BY <2>7, <4>1, RestNext
      <4> QED
        BY <3>3, <3>5, <3>7, <3>8, <4>2
    <3>9. CASE ~(r_xcpt.val \/ thrown1)
      <4>1. PICK h \in Banks : Pending(h)
        BY <3>2, <3>4, <3>9
      <4>2. ~RedirectFlush
        BY <2>2, <3>6, <3>9 DEF RedirectFlush
      <4>3. Stalled(extra)
        BY <1>0, <1>2, <2>9, <4>1, EnqIs
      <4>4. pkt' = [w \in Banks |-> IF w \in EnqValids(extra) THEN "none" ELSE pkt[w]]
        BY <4>2, <4>3, CycleIs
      <4>5. \A w \in Banks : Pending(w)' <=> Pending(w)
        BY <1>2, <2>7, <2>9, <4>4 DEF Pending
      <4>6. ASSUME NEW w \in Banks, Pending(w)
            PROVE  v < w /\ \A u \in Banks : v < u /\ u < w => <<rob_tail, u>> \in V \/ Pending(u)
        <5>1. v < w /\ \A u \in Banks : v < u /\ u < w => Val(rob_tail, u) \/ Pending(u)
          BY <1>0, <2>2, <3>1, <4>6 DEF Partial
        <5>2. ASSUME NEW u \in Banks, v < u, u < w, Val(rob_tail, u) PROVE <<rob_tail, u>> \in V
          <6>1. PICK q \in Spots : q = <<rob_tail, u>> /\ q[1] = rob_tail /\ q[2] = u
            BY <1>0, PairIs
          <6>2. q \in Valid /\ ~Killed(q)
            BY <1>0, <2>2, <5>2, <6>1, ValidIs DEF Killed
          <6>3. ~(rob_tail = rob_head /\ u \in WillCommit(stall))
            BY <2>5, <3>1, <5>2, CommitIs
          <6> QED
            BY <1>1, <2>2, <6>1, <6>2, <6>3 DEF Left, RbkRow
        <5> QED
          BY <5>1, <5>2
      <4> QED
        BY <2>2, <3>3, <4>1, <4>5, <4>6
    <3> QED
      BY <3>8, <3>9
  <2> QED
    BY <2>8, <2>9
<1>5. \A u, v, w \in Banks : u < v /\ v < w /\ Pending(u)' /\ Pending(w)' => Pending(v)'
  BY PacketNext
<1> QED
  BY <1>3, <1>4, <1>5 DEF Partial

\* What cannot happen in a cycle.
LEMMA QuietIs ==
    ASSUME RInv, NEW extra, NEW stall, NEW E, NEW R, NEW M, NEW lx,
           Clocked(extra, stall, E, R, M, lx)
    PROVE  /\ FlushVal(stall) \/ flush1 \/ thrown2 \/ rob_state = "rollback" => R = {}
           /\ flush1 \/ thrown2 \/ rob_state = "rollback" => lx = <<>>
           /\ thrown1 \/ thrown2 \/ rob_state \notin {"normal", "wait_till_empty"}
                  => ~ExceptionThrown(stall) /\ WillCommit(stall) = {}
           /\ \A p \in R : p \in Valid /\ Waiting(p) /\ ~Killed(p) /\ ent[p].bsy /\ ent[p].k = "br"
           /\ lx # <<>> => /\ lx \in Valid /\ ~Killed(lx) /\ ent[lx].k \in {"load", "store"}
                           /\ ~ent[lx].exc /\ ~thrown1
                           /\ \/ ent[lx].bsy
                              \/ \E q \in Valid : Age(q) < Age(lx) /\ ent[q].bsy
           /\ \A p \in E : p \in Valid /\ ent[p].bsy /\ ~ent[p].exc /\ ~Waiting(p)
<1>1. R \subseteq CanResolve(stall) /\ E \subseteq CanWriteback /\ lx \in CanFault \cup {<<>>}
  BY DEF Clocked
<1>2. FlushVal(stall) \/ flush1 \/ thrown2 \/ rob_state = "rollback" => R = {}
  BY <1>1 DEF CanResolve
<1>3. flush1 \/ thrown2 \/ rob_state = "rollback" => lx = <<>>
  BY <1>1 DEF CanFault
<1>4. ASSUME thrown1 \/ thrown2 \/ rob_state \notin {"normal", "wait_till_empty"}
      PROVE  ~ExceptionThrown(stall) /\ WillCommit(stall) = {}
  <2>1. \A w : BlockCommit(w, stall)
    BY <1>4 DEF BlockCommit
  <2> QED
    BY <2>1 DEF ExceptionThrown, WillCommit
<1>5. \A p \in R : p \in Valid /\ Waiting(p) /\ ~Killed(p) /\ ent[p].bsy /\ ent[p].k = "br"
  <2>1. \A p \in R : p \in Valid /\ Waiting(p) /\ ~Killed(p)
    BY <1>1 DEF CanResolve
  <2> QED
    BY <2>1 DEF RInv, Progress, Waiting
<1>6. ASSUME lx # <<>>
      PROVE  /\ lx \in Valid /\ ~Killed(lx) /\ ent[lx].k \in {"load", "store"}
             /\ ~ent[lx].exc /\ ~thrown1
             /\ \/ ent[lx].bsy
                \/ \E q \in Valid : Age(q) < Age(lx) /\ ent[q].bsy
  <2>1. lx \in CanFault
    BY <1>1, <1>6
  <2>2. /\ lx \in Valid /\ ent[lx].k \in {"load", "store"} /\ ~ent[lx].exc /\ ~Killed(lx)
        /\ \/ ent[lx].bsy
           \/ \E q \in Before(lx) : ent[q].bsy
    BY <2>1 DEF CanFault
  <2>3. \A q \in Before(lx) : q \in Valid /\ Age(q) < Age(lx)
    BY <2>2, BeforeIs
  <2>4. ~thrown1
    BY <1>3, <1>6 DEF RInv, Control
  <2> QED
    BY <2>2, <2>3, <2>4
<1>7. \A p \in E : p \in Valid /\ ent[p].bsy /\ ~ent[p].exc /\ ~Waiting(p)
  BY <1>1 DEF CanWriteback
<1> QED
  BY <1>2, <1>3, <1>4, <1>5, <1>6, <1>7

\* Nothing new is remembered while the pipeline flushes or no exception arises.
LEMMA NothingRemembered ==
    ASSUME RInv, NEW extra, NEW stall, NEW E, NEW R, NEW M, NEW lx,
           Clocked(extra, stall, E, R, M, lx), ~r_xcpt.val,
           FlushVal(stall) \/ rob_state = "rollback"
               \/ (lx = <<>> /\ \A w \in EnqValids(extra) : pkt[w] # "xcpt")
    PROVE  ~r_xcpt'.val
<1>1. PICK n \in [val : BOOLEAN, pos : Spots, br_mask : SUBSET Tags] :
         /\ r_xcpt' = IF ~n.val \/ FlushVal(stall) \/ n.br_mask \cap b1.mis # {} THEN NoXcpt
                      ELSE [val |-> TRUE, pos |-> n.pos, br_mask |-> n.br_mask \ b1.res]
         /\ n = r_xcpt
  BY XcptNextIs DEF Remembers
<1>2. r_xcpt' = NoXcpt
  BY <1>1
<1> QED
  BY <1>2 DEF NoXcpt

\* The states exclude what they exclude in the next cycle, too.
LEMMA ControlNext ==
    ASSUME RInv, NEW extra, NEW stall, NEW E, NEW R, NEW M, NEW lx,
           Clocked(extra, stall, E, R, M, lx)
    PROVE  Control'
<1>0. TypeOK /\ Partial /\ Control
  BY DEF RInv
<1>1. /\ thrown1' = ExceptionThrown(stall) /\ thrown2' = thrown1 /\ flush1' = FlushVal(stall)
      /\ b1'.pos = R /\ b2'.mispredict = (b1.mis # {})
  BY CycleIs, RedirectNext
<1>2. b1.pos = {} => b1.mis = {}
  BY KilledIs DEF Mispredicted
<1>3. \A x : Pending(x)' <=> pkt'[x] # "none"
  BY DEF Pending
<1>4. Valid' = Left(stall) \cup Added(extra)
  BY ValNext
<1>5. ASSUME rob_state' # "normal"
      PROVE  ~thrown1' /\ ~thrown2' /\ b1'.pos = {} /\ ~b2'.mispredict /\ ~r_xcpt'.val
  <2>1. CASE rob_state = "normal" /\ thrown2
    <3>1. ~thrown1 /\ b1.pos = {} /\ ~r_xcpt.val /\ \A w \in Banks : ~Pending(w)
      BY <1>0, <2>1 DEF Control
    <3>2. EnqValids(extra) = {}
      BY <1>0, <3>1, EnqIs
    <3>3. R = {} /\ lx = <<>> /\ ~ExceptionThrown(stall)
      BY <2>1, QuietIs
    <3>4. ~r_xcpt'.val
      BY <3>1, <3>2, <3>3, NothingRemembered
    <3> QED
      BY <1>1, <1>2, <3>1, <3>3, <3>4
  <2>2. CASE rob_state = "normal" /\ ~thrown2
    <3>1. PICK w \in EnqValids(extra) : pkt[w] = "uniq"
      BY <1>5, <2>2, StateNext
    <3>2. Empty /\ EnqValids(extra) = {w}
      BY <1>0, <3>1, EnqIs
    <3>3. Valid = {}
      BY <3>2, EmptyIs
    <3>4. R = {} /\ lx = <<>>
      BY <3>3, QuietIs
    <3>5. ~ExceptionThrown(stall)
      BY <3>3, ThrowIs
    <3>6. ~thrown1 /\ ~r_xcpt.val /\ b1.mis = {}
      BY <3>1, AddedLast
    <3>7. ~r_xcpt'.val
      BY <3>1, <3>2, <3>4, <3>6, NothingRemembered
    <3> QED
      BY <1>1, <3>4, <3>5, <3>6, <3>7
  <2>3. CASE rob_state \in {"rollback", "wait_till_empty"}
    <3>1. ~thrown1 /\ ~thrown2 /\ b1.pos = {} /\ ~r_xcpt.val
      BY <1>0, <2>3 DEF Control
    <3>2. rob_state = "wait_till_empty" => \A p \in Valid : ent[p].k = "uniq"
      BY DEF RInv, Alone
    <3>3. R = {} /\ lx = <<>>
      BY <2>3, <3>2, QuietIs
    <3>4. ~ExceptionThrown(stall)
      BY <2>3, ThrowIs
    <3>5. EnqValids(extra) = {}
      BY <1>0, <2>3, EnqIs
    <3>6. ~r_xcpt'.val
      BY <3>1, <3>3, <3>5, NothingRemembered
    <3> QED
      BY <1>1, <1>2, <3>1, <3>3, <3>4, <3>6
  <2>4. CASE rob_state = "reset"
    BY <1>5, <2>4, StateNext
  <2> QED
    BY <2>1, <2>2, <2>3, <2>4, StateNext
<1>6. rob_state' # "reset"
  BY StateNext
<1>7. (thrown1' => flush1') /\ ~(thrown1' /\ thrown2')
  <2>1. ExceptionThrown(stall) => FlushVal(stall)
    BY DEF FlushVal
  <2>2. thrown1 => ~ExceptionThrown(stall)
    BY QuietIs
  <2> QED
    BY <1>1, <2>1, <2>2
<1>8. ASSUME flush1' \/ thrown2' PROVE b1'.pos = {} /\ ~r_xcpt'.val
  <2>1. CASE FlushVal(stall)
    <3>1. r_xcpt' = NoXcpt
      BY <2>1, XcptNextIs DEF Remembers
    <3> QED
      BY <1>1, <2>1, <3>1, QuietIs DEF NoXcpt
  <2>2. CASE thrown1
    <3>1. flush1 /\ ~r_xcpt.val
      BY <1>0, <2>2 DEF Control
    <3>2. EnqValids(extra) = {}
      BY <1>0, <3>1, EnqIs
    <3>3. R = {} /\ lx = <<>>
      BY <3>1, QuietIs
    <3> QED
      BY <1>1, <3>1, <3>2, <3>3, NothingRemembered
  <2> QED
    BY <1>1, <1>8, <2>1, <2>2
<1>9. flush1' /\ ~thrown1' => Valid' = {} /\ ~b2'.mispredict
  BY <1>1, <1>4, FlushIs
<1>10. thrown2' => ~b2'.mispredict
  BY <1>0, <1>1, <1>2 DEF Control
<1>11. ASSUME b2'.mispredict \/ thrown1' \/ thrown2' PROVE \A w \in Banks : ~Pending(w)'
  <2>1. RedirectFlush
    <3>1. ExceptionThrown(stall) => r_xcpt.val
      BY ThrowIs
    <3>2. thrown1 => flush1
      BY <1>0 DEF Control
    <3> QED
      BY <1>1, <1>11, <3>1, <3>2 DEF RedirectFlush
  <2> QED
    BY <1>3, <2>1, RestNext
<1> QED
  BY <1>5, <1>6, <1>7, <1>8, <1>9, <1>10, <1>11 DEF Control

\* A uop that flushes the pipeline stays alone.
LEMMA AloneNext ==
    ASSUME RInv, NEW extra, NEW stall, NEW E, NEW R, NEW M, NEW lx,
           Clocked(extra, stall, E, R, M, lx)
    PROVE  Alone'
<1>0. TypeOK /\ Partial /\ Progress /\ Alone
  BY DEF RInv
<1>1. Valid' = Left(stall) \cup Added(extra)
  BY ValNext
<1>2. \A p \in Left(stall) : p \in Valid /\ ent'[p].k = ent[p].k
  BY <1>0, EntNext
<1>3. \A p \in Added(extra) : /\ ent'[p].k = pkt[p[2]] /\ p[2] \in EnqValids(extra)
                              /\ p = <<rob_tail, p[2]>>
  BY <1>0, EntNext, AddedIs, NewEntIs
<1>4. ASSUME NEW p \in Left(stall) \cup Added(extra), ent'[p].k = "uniq"
      PROVE  rob_state' = "wait_till_empty"
  <2>1. CASE p \in Left(stall)
    <3>1. p \in Valid /\ rob_state = "wait_till_empty"
      BY <1>0, <1>2, <1>4, <2>1 DEF Alone
    <3>2. ~Empty
      BY <3>1, EmptyIs
    <3> QED
      BY <3>1, <3>2, StateNext
  <2>2. CASE p \in Added(extra)
    <3>1. p[2] \in EnqValids(extra) /\ pkt[p[2]] = "uniq"
      BY <1>3, <1>4, <2>2
    <3>2. rob_state = "normal" /\ ~thrown2
      BY <3>1, AddedLast
    <3> QED
      BY <3>1, <3>2, StateNext
  <2> QED
    BY <2>1, <2>2
<1>5. ASSUME rob_state' = "wait_till_empty", NEW p \in Left(stall) \cup Added(extra),
             NEW q \in Left(stall) \cup Added(extra)
      PROVE  p = q /\ ent'[p].k = "uniq"
  <2>1. CASE rob_state = "wait_till_empty"
    <3>1. EnqValids(extra) = {}
      BY <1>0, <2>1, EnqIs
    <3>2. p \in Left(stall) /\ q \in Left(stall)
      BY <3>1 DEF Added
    <3> QED
      BY <1>0, <1>2, <2>1, <3>2 DEF Alone
  <2>2. CASE rob_state # "wait_till_empty"
    <3>1. PICK w \in EnqValids(extra) : pkt[w] = "uniq"
      BY <1>5, <2>2, StateNext
    <3>2. Empty /\ EnqValids(extra) = {w}
      BY <1>0, <3>1, EnqIs
    <3>3. p \in Added(extra) /\ q \in Added(extra)
      BY <1>2, <3>2, EmptyIs
    <3>4. p[2] = w /\ q[2] = w /\ p = <<rob_tail, p[2]>> /\ q = <<rob_tail, q[2]>>
      BY <1>3, <3>2, <3>3
    <3>5. p = q
      BY <3>4
    <3>6. ent'[p].k = "uniq"
      BY <1>3, <3>1, <3>3, <3>4
    <3> QED
      BY <3>5, <3>6
  <2> QED
    BY <2>1, <2>2
<1> QED
  BY <1>1, <1>4, <1>5 DEF Alone

\* A branch that resolves stays, busy, for the next cycle.
LEMMA ResolvedStay ==
    ASSUME RInv, NEW extra, NEW stall, NEW E, NEW R, NEW M, NEW lx,
           Clocked(extra, stall, E, R, M, lx)
    PROVE  \A p \in R : /\ p \in Left(stall) /\ p \in Valid /\ p \notin E
                        /\ ent'[p].k = "br" /\ ent'[p].st = "resolved" /\ ent'[p].bsy
                        /\ ent'[p].br_tag = ent[p].br_tag
<1>1. ASSUME NEW p \in R
      PROVE  p \in Left(stall) /\ p \in Valid /\ p \notin E /\ ent[p].k = "br" /\ ent[p].bsy
  <2>1. p \in Valid /\ Waiting(p) /\ ~Killed(p) /\ ent[p].bsy /\ ent[p].k = "br"
        /\ rob_state # "rollback"
    BY QuietIs
  <2>2. p \notin E
    BY <2>1, QuietIs
  <2> QED
    BY <2>1, <2>2, LeftIs
<1>2. \A p \in Left(stall) : /\ ent'[p].k = ent[p].k /\ ent'[p].br_tag = ent[p].br_tag
                             /\ ent'[p].bsy = (ent[p].bsy /\ p \notin E)
                             /\ ent'[p].st = IF p \in R THEN "resolved" ELSE ent[p].st
  BY EntNext DEF RInv
<1>3. ASSUME NEW p \in R
      PROVE  /\ ent'[p].k = "br" /\ ent'[p].st = "resolved" /\ ent'[p].br_tag = ent[p].br_tag
             /\ ent'[p].bsy = (ent[p].bsy /\ p \notin E)
  BY <1>1, <1>2
<1>4. \A p \in R : ent'[p].bsy
  BY <1>1, <1>3
<1> QED
  BY <1>1, <1>3, <1>4

\* The units leave every entry in a state they can go on from.
LEMMA ProgressNext ==
    ASSUME RInv, NEW extra, NEW stall, NEW E, NEW R, NEW M, NEW lx,
           Clocked(extra, stall, E, R, M, lx)
    PROVE  Progress'
<1>0. TypeOK /\ Partial /\ Progress
  BY DEF RInv
<1>1. Valid' = Left(stall) \cup Added(extra)
  BY ValNext
<1>2. \A p : Waiting(p)' <=> ent'[p].k = "br" /\ ent'[p].st = "wait"
  BY DEF Waiting
<1>3. ASSUME NEW p \in Left(stall)
      PROVE  /\ ent'[p].k = "br" => ent'[p].br_tag \in Tags /\ ~ent'[p].exc
             /\ ent'[p].k \in {"load", "store", "br"} => ent'[p].unsafe = ent'[p].bsy
             /\ ent'[p].k \in {"alu", "uniq"} => ~ent'[p].exc
             /\ Waiting(p)' => ent'[p].bsy
  <2>1. p \in Valid
    BY LeftIs
  <2>2. /\ ent'[p].k = ent[p].k /\ ent'[p].br_tag = ent[p].br_tag
        /\ ent'[p].bsy = (ent[p].bsy /\ p \notin E)
        /\ ent'[p].unsafe = (ent[p].unsafe /\ p \notin E)
        /\ ent'[p].exc = (ent[p].exc \/ p = lx)
        /\ ent'[p].st = IF p \in R THEN "resolved" ELSE ent[p].st
    BY <1>0, EntNext
  <2>3. /\ ent[p].k = "br" => ent[p].br_tag \in Tags /\ ~ent[p].exc
        /\ ent[p].k \in {"load", "store", "br"} => ent[p].unsafe = ent[p].bsy
        /\ ent[p].k \in {"alu", "uniq"} => ~ent[p].exc
        /\ Waiting(p) => ent[p].bsy
    BY <1>0, <2>1 DEF Progress
  <2>4. p = lx => ent[p].k \in {"load", "store"}
    <3>1. lx # <<>> => ent[lx].k \in {"load", "store"}
      BY QuietIs
    <3>2. p # <<>>
      <4>1. p \in Spots
        BY LeftIs
      <4> QED
        BY <4>1 DEF Spots
    <3> QED
      BY <3>1, <3>2
  <2>5. Waiting(p)' => Waiting(p) /\ p \notin E
    <3>1. Waiting(p)' => Waiting(p)
      BY <1>2, <2>2 DEF Waiting
    <3>2. Waiting(p) => p \notin E
      BY QuietIs
    <3> QED
      BY <3>1, <3>2
  <2>6. ent'[p].k = "br" => ent'[p].br_tag \in Tags /\ ~ent'[p].exc
    BY <2>2, <2>3, <2>4
  <2>7. ent'[p].k \in {"load", "store", "br"} => ent'[p].unsafe = ent'[p].bsy
    BY <2>2, <2>3
  <2>8. ent'[p].k \in {"alu", "uniq"} => ~ent'[p].exc
    BY <2>2, <2>3, <2>4
  <2>9. Waiting(p)' => ent'[p].bsy
    BY <2>2, <2>3, <2>5
  <2> QED
    BY <2>6, <2>7, <2>8, <2>9
<1>4. ASSUME NEW p \in Added(extra)
      PROVE  /\ ent'[p].k = "br" => ent'[p].br_tag \in Tags /\ ~ent'[p].exc
             /\ ent'[p].k \in {"load", "store", "br"} => ent'[p].unsafe = ent'[p].bsy
             /\ ent'[p].k \in {"alu", "uniq"} => ~ent'[p].exc
             /\ Waiting(p)' => ent'[p].bsy
  <2>1. PICK w \in EnqValids(extra) : w = p[2] /\ ent'[p] = NewEnt(w)
    BY <1>0, EntNext, AddedIs
  <2>2. PICK x : x = NewEnt(w)
    OBVIOUS
  <2>3. /\ x.k = pkt[w] /\ x.bsy /\ x.st = "wait"
        /\ x.unsafe = (pkt[w] \in {"load", "store", "br"}) /\ x.exc = (pkt[w] = "xcpt")
        /\ pkt[w] = "br" => x.br_tag \in Tags
    BY <1>0, <2>2, NewEntIs
  <2>4. x \in Entries
    BY <1>0, <2>2, NewEntIs
  <2>5. x.bsy = TRUE
    BY <2>3, <2>4 DEF Entries
  <2> QED
    BY <1>2, <2>1, <2>2, <2>3, <2>5
<1>5. b1'.res = {ent'[p].br_tag : p \in b1'.pos} /\ b1'.mis \subseteq b1'.res
  <2>1. b1'.pos = R /\ b1'.res = {ent[p].br_tag : p \in R} /\ b1'.mis = {ent[p].br_tag : p \in M} /\ M \subseteq R
    BY RedirectNext
  <2>2. \A p \in R : ent'[p].br_tag = ent[p].br_tag
    BY ResolvedStay
  <2> QED
    BY <2>1, <2>2
<1>6. \A p \in b1'.pos : p \in Valid' /\ ent'[p].k = "br" /\ ent'[p].st = "resolved" /\ ent'[p].bsy
  BY <1>1, ResolvedStay, RedirectNext
<1> QED
  BY <1>1, <1>3, <1>4, <1>5, <1>6 DEF Progress

-----------------------------------------------------------------------------
(* Branch masks. *)

\* The branches that hold a tag in the next cycle are those that wait, and those of
\* the packet.
LEMMA OpenNext ==
    ASSUME RInv, NEW extra, NEW stall, NEW E, NEW R, NEW M, NEW lx,
           Clocked(extra, stall, E, R, M, lx)
    PROVE  /\ \A p \in Left(stall) : Open(p)' <=> Waiting(p)
           /\ \A p \in Added(extra) : Open(p)' <=> pkt[p[2]] = "br"
           /\ \A p : Open(p)' => p \in Left(stall) \cup Added(extra)
           /\ \A p \in Left(stall) : ent'[p].br_tag = ent[p].br_tag
           /\ \A p \in Added(extra) : pkt[p[2]] = "br" => ent'[p].br_tag = NewTag(p[2])
<1>0. TypeOK /\ Partial /\ Progress
  BY DEF RInv
<1>1. Valid' = Left(stall) \cup Added(extra)
  BY ValNext
<1>2. b1'.pos = R
  BY RedirectNext
<1>3. \A p : Open(p)' <=> p \in Valid' /\ ent'[p].k = "br" /\ (ent'[p].st = "wait" \/ p \in R)
  BY <1>2 DEF Open
<1>4. ASSUME NEW p \in Left(stall)
      PROVE  (Open(p)' <=> Waiting(p)) /\ ent'[p].br_tag = ent[p].br_tag
  <2>1. /\ ent'[p].k = ent[p].k /\ ent'[p].br_tag = ent[p].br_tag
        /\ ent'[p].st = IF p \in R THEN "resolved" ELSE ent[p].st
    BY <1>0, EntNext
  <2>2. p \in R => Waiting(p)
    BY QuietIs
  <2> QED
    BY <1>1, <1>3, <2>1, <2>2 DEF Waiting
<1>5. ASSUME NEW p \in Added(extra)
      PROVE  /\ Open(p)' <=> pkt[p[2]] = "br"
             /\ pkt[p[2]] = "br" => ent'[p].br_tag = NewTag(p[2])
  <2>1. PICK w \in EnqValids(extra) : w = p[2] /\ ent'[p] = NewEnt(w)
    BY <1>0, EntNext, AddedIs
  <2>2. NewEnt(w).k = pkt[w] /\ NewEnt(w).st = "wait" /\ (pkt[w] = "br" => NewEnt(w).br_tag = NewTag(w))
    BY <1>0, NewEntIs
  <2> QED
    BY <1>1, <1>3, <2>1, <2>2
<1> QED
  BY <1>1, <1>3, <1>4, <1>5

\* Every mask stays the set of tags held in front of its uop.
LEMMA MasksNext ==
    ASSUME RInv, NEW extra, NEW stall, NEW E, NEW R, NEW M, NEW lx,
           Clocked(extra, stall, E, R, M, lx)
    PROVE  Masks'
<1>0. TypeOK /\ Partial /\ Progress /\ Valid \subseteq Spots /\ rob_head \in Rows
  BY LimitIs DEF RInv
<1>1. PICK V : V = Left(stall) \cup Added(extra)
  OBVIOUS
<1>2. Valid' = V
  BY <1>1, ValNext
<1>3. \A p, q \in V : (Age(p) < Age(q))' <=> Age(p) < Age(q)
  BY <1>1, AgeNext
<1>4. \A p \in V : OpenTags(p)' = {ent'[q].br_tag : q \in {x \in V : Open(x)' /\ Age(x) < Age(p)}}
  <2>1. ASSUME NEW p \in V
        PROVE  OpenTags(p)' = {ent'[q].br_tag : q \in {x \in V : Open(x)' /\ Age(x) < Age(p)}}
    <3>1. OpenTags(p)' = {ent'[q].br_tag : q \in {x \in V : Open(x)' /\ (Age(x) < Age(p))'}}
      BY <1>2 DEF OpenTags
    <3>2. \A x \in V : (Age(x) < Age(p))' <=> Age(x) < Age(p)
      BY <1>3
    <3> QED
      BY <3>1, <3>2
  <2> QED
    BY <2>1
<1>5. \A t : t \in b1.res <=> \E q \in b1.pos : t = ent[q].br_tag
  BY <1>0 DEF Progress
<1>6. \A p \in b1.pos : Open(p) /\ ~Waiting(p)
  BY <1>0, OpenIs DEF Progress, Waiting
<1>7. \A q \in Valid : Waiting(q) => ent[q].br_tag \notin b1.res /\ Open(q)
  <2>1. ASSUME NEW q \in Valid, Waiting(q), ent[q].br_tag \in b1.res PROVE FALSE
    <3>1. PICK x \in b1.pos : ent[x].br_tag = ent[q].br_tag
      BY <1>5, <2>1
    <3>2. x = q
      BY <1>6, <2>1, <3>1, OpenIs
    <3> QED
      BY <1>6, <2>1, <3>2
  <2> QED
    BY <2>1, OpenIs
<1>8. \A q : Open(q) /\ ent[q].br_tag \notin b1.res => Waiting(q)
  BY <1>5 DEF Open, Waiting
<1>9. ASSUME NEW p \in Left(stall)
      PROVE  ent'[p].br_mask = OpenTags(p)' /\ (Open(p)' => ent'[p].br_tag \notin ent'[p].br_mask)
  <2>1. p \in Valid /\ ent'[p].br_mask = ent[p].br_mask \ b1.res /\ p \in V
    BY <1>0, <1>1, EntNext
  <2>2. ASSUME NEW q \in Valid, Age(q) < Age(p), Waiting(q) PROVE q \in Left(stall)
    <3>1. Age(q) \in Nat /\ Age(p) \in Nat
      BY <1>0, <2>1, AgeIs
    <3>2. q[1] = rob_head => q[2] \notin WillCommit(stall)
      <4>1. ASSUME q[1] = rob_head, q[2] \in WillCommit(stall) PROVE FALSE
        <5>1. q = <<q[1], q[2]>>
          BY <1>0, SpotIs
        <5>2. ~ent[rob_head, q[2]].bsy
          BY <4>1, CommitIs
        <5>3. ent[q].bsy
          BY <1>0, <2>2 DEF Progress
        <5> QED
          BY <4>1, <5>1, <5>2, <5>3
      <4> QED
        BY <4>1
    <3> QED
      BY <2>2, <3>1, <3>2, LeftIs
  <2>3. \A q \in V : Open(q)' /\ Age(q) < Age(p) => q \in Left(stall)
    <3>1. ASSUME NEW q \in Added(extra), Age(q) < Age(p) PROVE FALSE
      <4>1. EnqValids(extra) # {}
        BY <3>1 DEF Added
      <4>2. Age(p) < Age(q) /\ q \in Spots
        BY <2>1, <4>1, AddedLast
      <4>3. Age(p) \in Nat /\ Age(q) \in Nat
        BY <1>0, <2>1, <4>2, AgeIs
      <4> QED
        BY <3>1, <4>2, <4>3
    <3> QED
      BY <1>1, <3>1
  <2>4. \A t : t \in ent'[p].br_mask <=> t \in OpenTags(p)'
    <3>1. ASSUME NEW t, t \in ent'[p].br_mask PROVE t \in OpenTags(p)'
      <4>1. t \in ent[p].br_mask /\ t \notin b1.res
        BY <2>1, <3>1
      <4>2. PICK q : Open(q) /\ Age(q) < Age(p) /\ t = ent[q].br_tag
        BY <2>1, <4>1, OpenIs
      <4>3. q \in Valid /\ Waiting(q)
        BY <1>8, <4>1, <4>2, OpenIs
      <4>4. q \in Left(stall) /\ Open(q)' /\ ent'[q].br_tag = t
        BY <2>2, <4>2, <4>3, OpenNext
      <4> QED
        BY <1>1, <1>4, <2>1, <4>2, <4>4
    <3>2. ASSUME NEW t, t \in OpenTags(p)' PROVE t \in ent'[p].br_mask
      <4>1. PICK q \in V : Open(q)' /\ Age(q) < Age(p) /\ t = ent'[q].br_tag
        BY <1>4, <2>1, <3>2
      <4>2. q \in Left(stall) /\ Waiting(q) /\ t = ent[q].br_tag /\ q \in Valid
        BY <2>3, <4>1, OpenNext, LeftIs
      <4>3. Open(q) /\ t \notin b1.res
        BY <1>7, <4>2
      <4>4. t \in ent[p].br_mask
        BY <2>1, <4>1, <4>2, <4>3, OpenIs
      <4> QED
        BY <2>1, <4>3, <4>4
    <3> QED
      BY <3>1, <3>2
  <2>5. ASSUME Open(p)' PROVE ent'[p].br_tag \notin ent'[p].br_mask
    <3>1. Waiting(p) /\ ent'[p].br_tag = ent[p].br_tag
      BY <2>5, OpenNext
    <3>2. Open(p)
      BY <1>7, <2>1, <3>1
    <3>3. ent[p].br_tag \notin ent[p].br_mask
      BY <2>1, <3>2 DEF RInv, Masks
    <3> QED
      BY <2>1, <3>1, <3>3
  <2>6. ent'[p].br_mask = OpenTags(p)'
    BY <2>4, <1>4, <2>1
  <2> QED
    BY <2>5, <2>6
<1>10. ASSUME NEW p \in Added(extra)
       PROVE  ent'[p].br_mask = OpenTags(p)' /\ (Open(p)' => ent'[p].br_tag \notin ent'[p].br_mask)
  <2>1. PICK w \in EnqValids(extra) : w = p[2] /\ ent'[p] = NewEnt(w) /\ p = <<rob_tail, w>> /\ w \in Banks
    BY <1>0, EntNext, AddedIs, EnqIs
  <2>2. /\ p \in V /\ p[1] = rob_tail /\ p \in Spots /\ EnqValids(extra) # {}
    BY <1>1, <2>1, AddedLast
  <2>3. ent'[p].br_mask = BrMask \cup PktTags(w)
    BY <1>0, <2>1, NewEntIs
  <2>4. \A t : t \in BrMask <=> \E q \in Valid : Waiting(q) /\ t = ent[q].br_tag
    BY DEF BrMask
  <2>5. \A t : t \in PktTags(w) <=> \E u \in EnqValids(extra) : u < w /\ pkt[u] = "br" /\ t = NewTag(u)
    BY <1>0, PktTagsAre
  <2>6. ASSUME NEW q \in Valid, Waiting(q) PROVE q \in Left(stall) /\ Age(q) < Age(p)
    <3>1. ent[q].bsy /\ ~Killed(q) /\ rob_state # "rollback"
      BY <1>0, <2>2, <2>6, AddedLast DEF Progress
    <3> QED
      BY <2>2, <3>1, LeftIs, AddedLast
  <2>7. \A q \in Added(extra) : Age(q) < Age(p) <=> q[2] < w
    <3>1. ASSUME NEW q \in Added(extra) PROVE Age(q) < Age(p) <=> q[2] < w
      <4>1. q \in Spots /\ q[1] = rob_tail /\ rob_tail \in Rows /\ Dist(rob_tail) \in Nat
        BY <1>0, <2>2, AddedLast, LimitIs, DistIs
      <4>2. Age(q) < Age(p) <=> Dist(q[1]) < Dist(p[1]) \/ (Dist(q[1]) = Dist(p[1]) /\ q[2] < p[2])
        BY <1>0, <2>2, <4>1, AgeIs
      <4> QED
        BY <2>1, <2>2, <4>1, <4>2
    <3> QED
      BY <3>1
  <2>8. \A t : t \in OpenTags(p)' <=> t \in BrMask \cup PktTags(w)
    <3>1. ASSUME NEW t, t \in OpenTags(p)' PROVE t \in BrMask \cup PktTags(w)
      <4>1. PICK q \in V : Open(q)' /\ Age(q) < Age(p) /\ t = ent'[q].br_tag
        BY <1>4, <2>2, <3>1
      <4>2. CASE q \in Left(stall)
        BY <2>4, <4>1, <4>2, OpenNext, LeftIs
      <4>3. CASE q \in Added(extra)
        <5>1. q[2] \in EnqValids(extra) /\ pkt[q[2]] = "br" /\ t = NewTag(q[2]) /\ q[2] < w
          BY <2>2, <2>7, <4>1, <4>3, OpenNext, AddedLast
        <5> QED
          BY <2>5, <5>1
      <4> QED
        BY <1>1, <4>1, <4>2, <4>3
    <3>2. ASSUME NEW t, t \in BrMask PROVE t \in OpenTags(p)'
      <4>1. PICK q \in Valid : Waiting(q) /\ t = ent[q].br_tag
        BY <2>4, <3>2
      <4>2. q \in Left(stall) /\ Age(q) < Age(p) /\ Open(q)' /\ ent'[q].br_tag = t
        BY <2>6, <4>1, OpenNext
      <4> QED
        BY <1>1, <1>4, <2>2, <4>2
    <3>3. ASSUME NEW t, t \in PktTags(w) PROVE t \in OpenTags(p)'
      <4>1. PICK u \in EnqValids(extra) : u < w /\ pkt[u] = "br" /\ t = NewTag(u)
        BY <2>5, <3>3
      <4>2. PICK q \in Added(extra) : q = <<rob_tail, u>> /\ q[2] = u
        <5>1. <<rob_tail, u>> \in Added(extra)
          BY DEF Added
        <5> QED
          BY <5>1
      <4>3. Open(q)' /\ ent'[q].br_tag = t /\ Age(q) < Age(p)
        BY <2>7, <4>1, <4>2, OpenNext
      <4> QED
        BY <1>1, <1>4, <2>2, <4>3
    <3> QED
      BY <3>1, <3>2, <3>3
  <2>9. ASSUME Open(p)' PROVE ent'[p].br_tag \notin ent'[p].br_mask
    <3>1. pkt[w] = "br" /\ ent'[p].br_tag = NewTag(w)
      BY <2>1, <2>9, OpenNext
    <3>2. NewTag(w) \in FreeTags /\ NewTag(w) \notin PktTags(w) /\ FreeTags \cap HeldTags = {}
      BY <1>0, <3>1, PktTagsAre
    <3>3. BrMask \subseteq HeldTags
      BY DEF BrMask, HeldTags
    <3> QED
      BY <2>3, <3>1, <3>2, <3>3
  <2>10. ent'[p].br_mask = OpenTags(p)'
    BY <2>3, <2>8, <1>4, <2>2
  <2> QED
    BY <2>9, <2>10
<1> QED
  BY <1>1, <1>2, <1>9, <1>10 DEF Masks

-----------------------------------------------------------------------------
(* The remembered exception. *)

\* A uop that is dispatched is not touched by the resolutions of that cycle.
LEMMA FreshMask ==
    ASSUME RInv, NEW extra, NEW w \in EnqValids(extra)
    PROVE  NewEnt(w).br_mask \ b1.res = NewEnt(w).br_mask /\ NewEnt(w).br_mask \cap b1.mis = {}
<1>0. TypeOK /\ Progress
  BY DEF RInv
<1>1. NewEnt(w).br_mask = BrMask \cup PktTags(w)
  BY <1>0, NewEntIs
<1>2. PktTags(w) \cap b1.res = {}
  <2>1. PktTags(w) \subseteq FreeTags /\ FreeTags \cap HeldTags = {}
    BY <1>0, PktTagsAre
  <2> QED
    BY <2>1 DEF HeldTags
<1>3. ASSUME NEW t \in BrMask, t \in b1.res PROVE FALSE
  <2>1. PICK q \in Valid : Waiting(q) /\ t = ent[q].br_tag
    BY DEF BrMask
  <2>2. PICK x \in b1.pos : t = ent[x].br_tag
    BY <1>0, <1>3 DEF Progress
  <2>3. x = q
    BY <2>1, <2>2, OpenIs
  <2>4. ent[x].st = "resolved" /\ ent[q].st = "wait"
    BY <1>0, <2>1, <2>2 DEF Progress, Waiting
  <2> QED
    BY <2>3, <2>4
<1>4. b1.mis = {}
  BY <1>0, EnqIs
<1> QED
  BY <1>1, <1>2, <1>3, <1>4

\* What is remembered is an entry that stays, and older than all other exceptions.
LEMMA RememberedNext ==
    ASSUME RInv, NEW extra, NEW stall, NEW E, NEW R, NEW M, NEW lx,
           Clocked(extra, stall, E, R, M, lx), r_xcpt'.val
    PROVE  \E x \in Left(stall) \cup Added(extra) :
             /\ x = r_xcpt'.pos /\ ent'[x].exc /\ r_xcpt'.br_mask = ent'[x].br_mask
             /\ \A p \in Left(stall) \cup Added(extra) : ent'[p].exc => Age(x) <= Age(p)
<1>0. TypeOK /\ Partial /\ Progress /\ Valid \subseteq Spots /\ rob_head \in Rows /\ rob_tail \in Rows
  BY LimitIs DEF RInv
<1>1. PICK n \in [val : BOOLEAN, pos : Spots, br_mask : SUBSET Tags] : Remembers(n, extra, stall, lx)
  BY XcptNextIs
<1>2. /\ n.val /\ ~FlushVal(stall) /\ n.br_mask \cap b1.mis = {}
      /\ r_xcpt'.pos = n.pos /\ r_xcpt'.br_mask = n.br_mask \ b1.res
  <2>1. r_xcpt' # NoXcpt
    BY DEF NoXcpt
  <2>2. ~(~n.val \/ FlushVal(stall) \/ n.br_mask \cap b1.mis # {})
    BY <1>1, <2>1 DEF Remembers
  <2> QED
    BY <1>1, <2>2 DEF Remembers
<1>3. \A p \in Left(stall) : /\ p \in Valid /\ p \in Spots /\ ent'[p].exc = (ent[p].exc \/ p = lx)
                             /\ ent'[p].br_mask = ent[p].br_mask \ b1.res
  BY <1>0, EntNext
<1>4. \A p \in Added(extra) : /\ p[2] \in EnqValids(extra) /\ p = <<rob_tail, p[2]>> /\ p \in Spots
                              /\ p[1] = rob_tail /\ ent'[p].exc = (pkt[p[2]] = "xcpt")
                              /\ ent'[p].br_mask = NewEnt(p[2]).br_mask
                              /\ EnqValids(extra) # {}
  <2>1. ASSUME NEW p \in Added(extra)
        PROVE  /\ p[2] \in EnqValids(extra) /\ p = <<rob_tail, p[2]>> /\ p \in Spots
               /\ p[1] = rob_tail /\ EnqValids(extra) # {}
    <3>1. EnqValids(extra) # {}
      BY <2>1 DEF Added
    <3> QED
      BY <3>1, AddedLast
  <2>2. \A p \in Added(extra) : ent'[p] = NewEnt(p[2])
    BY <1>0, EntNext
  <2> QED
    BY <1>0, <2>1, <2>2, NewEntIs
<1>5. \A p \in Valid, q \in Added(extra) : Age(p) <= Age(q)
  <2>1. ASSUME NEW p \in Valid, NEW q \in Added(extra) PROVE Age(p) <= Age(q)
    <3>1. Age(p) < Age(q)
      BY <1>4, AddedLast
    <3>2. Age(p) \in Nat /\ Age(q) \in Nat
      BY <1>0, <1>4, AgeIs
    <3> QED
      BY <3>1, <3>2
  <2> QED
    BY <2>1
<1>6. \A p \in Valid : Age(p) \in Nat
  BY <1>0, AgeIs
<1>7. CASE n = r_xcpt
  <2>1. PICK x \in Valid : /\ x = r_xcpt.pos /\ ent[x].exc /\ n.br_mask = ent[x].br_mask
                           /\ \A p \in Valid : ent[p].exc => Age(x) <= Age(p)
    BY <1>2, <1>7 DEF RInv, Excepted
  <2>2. ~Killed(x)
    BY <1>2, <2>1 DEF Killed
  <2>3. rob_state # "rollback"
    BY <1>2, <1>7 DEF RInv, Control
  <2>4. x \in Left(stall)
    BY <2>1, <2>2, <2>3, LeftIs
  <2>5. lx # <<>> => lx \in Valid /\ ~(Age(lx) < Age(x))
    BY <1>1, <1>2, <1>7, <2>1, <2>3, QuietIs DEF Remembers
  <2>6. \A p \in Left(stall) : ent'[p].exc => Age(x) <= Age(p)
    <3>1. ASSUME NEW p \in Left(stall), ent'[p].exc PROVE Age(x) <= Age(p)
      <4>1. CASE ent[p].exc
        BY <1>3, <2>1, <4>1
      <4>2. CASE p = lx
        <5>1. p # <<>>
          BY <1>3 DEF Spots
        <5> QED
          BY <1>6, <2>1, <2>5, <4>2, <5>1
      <4> QED
        BY <1>3, <3>1, <4>1, <4>2
    <3> QED
      BY <3>1
  <2> QED
    BY <1>2, <1>3, <1>5, <1>7, <2>1, <2>4, <2>6
<1>8. CASE /\ rob_state # "rollback"
           /\ lx # <<>> /\ n.val /\ n.pos = lx /\ n.br_mask = ent[lx].br_mask
           /\ r_xcpt.val => Age(lx) < Age(r_xcpt.pos)
  <2>1. /\ lx \in Valid /\ ~Killed(lx) /\ ~thrown1 /\ ~thrown2
        /\ \/ ent[lx].bsy
           \/ \E q \in Valid : Age(q) < Age(lx) /\ ent[q].bsy
    BY <1>8, QuietIs
  <2>2. lx \in Left(stall)
    <3>1. ASSUME lx[1] = rob_head, lx[2] \in WillCommit(stall) PROVE FALSE
      <4>1. lx = <<rob_head, lx[2]>> /\ lx \in Spots /\ lx[2] \in Banks
        BY <1>0, <2>1, <3>1, SpotIs
      <4>2. ~ent[lx].bsy
        BY <3>1, <4>1, CommitIs
      <4>3. PICK q \in Valid : Age(q) < Age(lx) /\ ent[q].bsy
        BY <2>1, <4>2
      <4>4. q \in Spots /\ q[1] \in Rows /\ q[2] \in Banks /\ q = <<q[1], q[2]>> /\ Dist(q[1]) \in Nat
        BY <1>0, SpotIs, DistIs
      <4>5. Dist(q[1]) < Dist(lx[1]) \/ (Dist(q[1]) = Dist(lx[1]) /\ q[2] < lx[2])
        BY <1>0, <4>1, <4>3, <4>4, AgeIs
      <4>6. q[1] = rob_head /\ q[2] < lx[2]
        BY <1>0, <3>1, <4>4, <4>5, DistHead
      <4>7. Val(rob_head, q[2])
        BY <1>0, <4>4, <4>6, ValidIs
      <4>8. q[2] \in WillCommit(stall)
        BY <3>1, <4>4, <4>6, <4>7, CommitIs
      <4>9. ~ent[rob_head, q[2]].bsy
        BY <4>8, CommitIs
      <4> QED
        BY <4>3, <4>4, <4>6, <4>9
    <3> QED
      BY <1>8, <2>1, <3>1 DEF Left, RbkRow
  <2>3. \A p \in Valid : ent[p].exc => Age(lx) <= Age(p)
    <3>1. CASE r_xcpt.val
      <4>1. PICK x \in Valid : x = r_xcpt.pos /\ \A p \in Valid : ent[p].exc => Age(x) <= Age(p)
        BY <3>1 DEF RInv, Excepted
      <4> QED
        BY <1>6, <1>8, <2>1, <3>1, <4>1
    <3>2. CASE ~r_xcpt.val
      BY <1>8, <2>1, <3>2 DEF RInv, Excepted
    <3> QED
      BY <3>1, <3>2
  <2>4. \A p \in Left(stall) : ent'[p].exc => Age(lx) <= Age(p)
    <3>1. Age(lx) <= Age(lx)
      BY <1>6, <2>1
    <3>2. \A p \in Left(stall) : ent'[p].exc => ent[p].exc \/ p = lx
      BY <1>3
    <3>3. \A p \in Left(stall) : p \in Valid
      BY <1>3
    <3> QED
      BY <2>3, <3>1, <3>2, <3>3
  <2>5. ent'[lx].exc
    <3>1. ent'[lx] \in Entries /\ ent[lx] \in Entries
      BY <1>0, <2>1, <2>2, EntNext, ValidIs
    <3>2. ent'[lx].exc = (ent[lx].exc \/ lx = lx)
      BY <1>3, <2>2
    <3> QED
      BY <3>2
  <2> QED
    BY <1>2, <1>3, <1>5, <1>8, <2>1, <2>2, <2>4, <2>5
<1>9. CASE /\ lx = <<>> /\ ~r_xcpt.val /\ n.val /\ rob_state # "rollback"
           /\ \E w \in EnqValids(extra) :
                 /\ pkt[w] = "xcpt" /\ n.pos = <<rob_tail, w>>
                 /\ n.br_mask = NewEnt(w).br_mask
                 /\ \A v \in EnqValids(extra) : pkt[v] = "xcpt" => w <= v
  <2>1. PICK w \in EnqValids(extra) :
                 /\ pkt[w] = "xcpt" /\ n.pos = <<rob_tail, w>>
                 /\ n.br_mask = NewEnt(w).br_mask
                 /\ \A v \in EnqValids(extra) : pkt[v] = "xcpt" => w <= v
    BY <1>9
  <2>2. PICK x \in Added(extra) : x = <<rob_tail, w>> /\ x[1] = rob_tail /\ x[2] = w
    <3>1. <<rob_tail, w>> \in Added(extra)
      BY DEF Added
    <3> QED
      BY <3>1
  <2>3. ent'[x].exc /\ ent'[x].br_mask = n.br_mask
    BY <1>4, <2>1, <2>2
  <2>4. n.br_mask \ b1.res = n.br_mask
    BY <2>1, FreshMask
  <2>5. ~thrown1 /\ ~thrown2
    BY <2>1, AddedLast
  <2>6. \A p \in Left(stall) : ~ent'[p].exc
    <3>1. \A p \in Valid : ~ent[p].exc
      BY <1>9, <2>5 DEF RInv, Excepted
    <3>2. \A p \in Left(stall) : p # lx
      BY <1>3, <1>9 DEF Spots
    <3> QED
      BY <1>3, <3>1, <3>2
  <2>7. \A p \in Added(extra) : ent'[p].exc => Age(x) <= Age(p)
    <3>1. ASSUME NEW p \in Added(extra), ent'[p].exc PROVE Age(x) <= Age(p)
      <4>1. w <= p[2] /\ p[1] = rob_tail /\ p \in Spots /\ x \in Spots
        BY <1>4, <2>1, <2>2, <3>1
      <4>2. Dist(rob_tail) \in Nat
        BY <1>0, DistIs
      <4>3. Age(x) <= Age(p) <=> Dist(x[1]) < Dist(p[1]) \/ (Dist(x[1]) = Dist(p[1]) /\ x[2] <= p[2])
        BY <1>0, <4>1, AgeIs
      <4> QED
        BY <2>2, <4>1, <4>2, <4>3
    <3> QED
      BY <3>1
  <2> QED
    BY <1>2, <2>1, <2>2, <2>3, <2>4, <2>6, <2>7
<1> QED
  BY <1>1, <1>2, <1>7, <1>8, <1>9 DEF Remembers

\* An exception that is not remembered is being thrown, or is gone.
LEMMA ForgottenNext ==
    ASSUME RInv, NEW extra, NEW stall, NEW E, NEW R, NEW M, NEW lx,
           Clocked(extra, stall, E, R, M, lx),
           ~r_xcpt'.val, ~thrown1', ~thrown2', rob_state' # "rollback",
           NEW p \in Left(stall) \cup Added(extra)
    PROVE  ~ent'[p].exc
<1>0. TypeOK /\ Partial /\ Progress /\ Valid \subseteq Spots /\ rob_head \in Rows
  BY LimitIs DEF RInv
<1>1. ~ExceptionThrown(stall) /\ ~thrown1
  BY CycleIs
<1>2. p \in Added(extra) => EnqValids(extra) # {}
  BY DEF Added
<1>3. rob_state # "rollback"
  <2>1. ASSUME rob_state = "rollback" PROVE FALSE
    <3>1. Empty
      BY <2>1, StateNext
    <3>2. p \notin Left(stall)
      BY <3>1, EmptyIs, LeftIs
    <3> QED
      BY <1>2, <2>1, <3>2, AddedLast
  <2> QED
    BY <2>1
<1>4. ~thrown2
  <2>1. thrown2 => rob_state = "normal"
    BY DEF RInv, Control
  <2> QED
    BY <2>1, StateNext
<1>5. ~FlushVal(stall)
  BY <1>1, FlushIs
<1>6. PICK n \in [val : BOOLEAN, pos : Spots, br_mask : SUBSET Tags] : Remembers(n, extra, stall, lx)
  BY XcptNextIs
<1>7. ~n.val \/ n.br_mask \cap b1.mis # {}
  <2>1. ASSUME n.val, n.br_mask \cap b1.mis = {} PROVE FALSE
    <3>1. r_xcpt' = [val |-> TRUE, pos |-> n.pos, br_mask |-> n.br_mask \ b1.res]
      BY <1>5, <1>6, <2>1 DEF Remembers
    <3> QED
      BY <3>1
  <2> QED
    BY <2>1
<1>8. p \in Left(stall) => /\ p \in Valid /\ p \in Spots /\ p # <<>> /\ ~Killed(p)
                           /\ ent'[p].exc = (ent[p].exc \/ p = lx)
  <2>1. p \in Spots => p # <<>>
    BY DEF Spots
  <2> QED
    BY <1>0, <2>1, EntNext, LeftIs
<1>9. p \in Added(extra) => ent'[p].exc = (pkt[p[2]] = "xcpt") /\ p[2] \in EnqValids(extra)
  BY <1>0, EntNext, AddedIs, NewEntIs
<1>10. CASE ~n.val
  <2>1. n = r_xcpt /\ lx = <<>> /\ ~r_xcpt.val /\ \A w \in EnqValids(extra) : pkt[w] # "xcpt"
    BY <1>3, <1>5, <1>6, <1>10 DEF Remembers
  <2>2. \A q \in Valid : ~ent[q].exc
    BY <1>1, <1>3, <1>4, <2>1 DEF RInv, Excepted
  <2> QED
    BY <1>8, <1>9, <2>1, <2>2
<1>11. CASE n.val /\ n.br_mask \cap b1.mis # {}
  <2>1. p \in Left(stall)
    <3>1. EnqValids(extra) # {} => b1.mis = {}
      BY <1>0, EnqIs
    <3> QED
      BY <1>2, <1>11, <3>1
  <2>2. lx # <<>> => lx \in Valid /\ ~Killed(lx)
    BY QuietIs
  <2>3. n = r_xcpt
    <3>1. ASSUME lx # <<>>, n.br_mask = ent[lx].br_mask PROVE FALSE
      BY <1>11, <2>2, <3>1 DEF Killed
    <3>2. EnqValids(extra) = {}
      BY <1>0, <1>11, EnqIs
    <3> QED
      BY <1>6, <3>1, <3>2 DEF Remembers
  <2>4. PICK x \in Valid : /\ x = r_xcpt.pos /\ n.br_mask = ent[x].br_mask
                           /\ \A q \in Valid : ent[q].exc => Age(x) <= Age(q)
    BY <1>11, <2>3 DEF RInv, Excepted
  <2>5. Killed(x)
    BY <1>11, <2>4 DEF Killed
  <2>6. ~ent[p].exc
    BY <1>8, <2>1, <2>4, <2>5, KilledIs
  <2>7. p # lx
    <3>1. ASSUME p = lx PROVE FALSE
      <4>0. lx # <<>> /\ r_xcpt.val
        BY <1>8, <1>11, <2>1, <2>3, <3>1
      <4>4. ~(Age(lx) < Age(r_xcpt.pos)) \/ n.br_mask = ent[lx].br_mask
        BY <1>3, <1>5, <1>6, <4>0 DEF Remembers
      <4>5. n.br_mask # ent[lx].br_mask
        BY <1>11, <2>2, <4>0 DEF Killed
      <4>1. lx # <<>> /\ ~(Age(lx) < Age(x))
        BY <2>4, <4>0, <4>4, <4>5
      <4>2. Age(lx) \in Nat /\ Age(x) \in Nat
        BY <1>0, <2>2, <2>4, <4>1, AgeIs
      <4>3. Age(x) <= Age(lx)
        BY <4>1, <4>2
      <4> QED
        BY <2>2, <2>4, <2>5, <4>1, <4>3, KilledIs
    <3> QED
      BY <3>1
  <2> QED
    BY <1>8, <2>1, <2>6, <2>7
<1> QED
  BY <1>7, <1>10, <1>11

\* The exception that is thrown waits at the head for the rollback.
LEMMA ThrownNext ==
    ASSUME RInv, NEW extra, NEW stall, NEW E, NEW R, NEW M, NEW lx,
           Clocked(extra, stall, E, R, M, lx), thrown1' \/ thrown2'
    PROVE  \E w \in Banks : Val(rob_head, w)' /\ ent'[rob_head', w].exc
<1>0. TypeOK /\ Partial /\ Progress /\ Valid \subseteq Spots /\ rob_head \in Rows
  BY LimitIs DEF RInv
<1>1. ExceptionThrown(stall) \/ thrown1
  BY CycleIs
<1>2. WillCommit(stall) = {}
  BY <1>1, ThrowIs, QuietIs
<1>3. rob_head' = rob_head
  BY <1>2, CycleIs DEF HeadAfter, FinishedRow
<1>4. PICK w \in Banks : <<rob_head, w>> \in Valid /\ ent[rob_head, w].exc /\ ~Killed(<<rob_head, w>>)
                         /\ rob_state # "rollback"
  <2>1. CASE ExceptionThrown(stall)
    <3>1. PICK w \in Banks : /\ <<rob_head, w>> \in Valid /\ ent[rob_head, w].exc
                             /\ \A q \in Valid : Age(<<rob_head, w>>) <= Age(q)
                             /\ rob_state = "normal"
      BY <2>1, ThrowIs
    <3>2. PICK p \in Valid : p = <<rob_head, w>>
      BY <3>1
    <3>3. ASSUME Killed(p) PROVE FALSE
      <4>1. PICK q \in Mispredicted : Age(q) < Age(p)
        BY <3>3, KilledIs
      <4>2. q \in Valid
        BY KilledIs, OpenIs
      <4>3. Age(p) <= Age(q) /\ Age(p) \in Nat /\ Age(q) \in Nat
        BY <1>0, <3>1, <3>2, <4>2, AgeIs
      <4> QED
        BY <4>1, <4>3
    <3> QED
      BY <3>1, <3>2, <3>3
  <2>2. CASE thrown1
    <3>1. PICK w \in Banks : Val(rob_head, w) /\ ent[rob_head, w].exc
      BY <2>2 DEF RInv, Excepted
    <3>2. b1.pos = {} /\ rob_state = "normal"
      BY <2>2 DEF RInv, Control
    <3>3. b1.mis = {}
      BY <3>2, KilledIs DEF Mispredicted
    <3>4. ~Killed(<<rob_head, w>>)
      BY <3>3 DEF Killed
    <3> QED
      BY <1>0, <3>1, <3>2, <3>4, ValidIs
  <2> QED
    BY <1>1, <2>1, <2>2
<1>5. PICK p \in Valid : p = <<rob_head, w>>
  BY <1>4
<1>6. p \in Left(stall)
  BY <1>4, <1>5, LeftIs
<1>7. ent'[p] \in Entries /\ ent'[p].exc = (ent[p].exc \/ p = lx) /\ p \in Valid'
  BY <1>0, <1>6, EntNext
<1>8. ent'[p].exc
  <2>1. ent[p].exc
    BY <1>4, <1>5
  <2> QED
    BY <1>7, <2>1
<1>9. Val(rob_head, w)'
  <2>1. Val(rob_head, w)' <=> ent'[rob_head, w].k # "none"
    BY <1>3 DEF Val
  <2>2. ent'[p].k # "none"
    BY <1>7 DEF Valid
  <2> QED
    BY <1>5, <2>1, <2>2
<1> QED
  BY <1>3, <1>5, <1>8, <1>9

\* The remembered exception stays the oldest.
LEMMA ExceptedNext ==
    ASSUME RInv, NEW extra, NEW stall, NEW E, NEW R, NEW M, NEW lx,
           Clocked(extra, stall, E, R, M, lx)
    PROVE  Excepted'
<1>1. PICK V : V = Left(stall) \cup Added(extra)
  OBVIOUS
<1>2. Valid' = V
  BY <1>1, ValNext
<1>3. ASSUME r_xcpt'.val
      PROVE  /\ r_xcpt'.pos \in V /\ ent'[r_xcpt'.pos].exc
             /\ r_xcpt'.br_mask = ent'[r_xcpt'.pos].br_mask
             /\ \A p \in V : ent'[p].exc => (Age(r_xcpt.pos) <= Age(p))'
  <2>1. PICK x \in V :
             /\ x = r_xcpt'.pos /\ ent'[x].exc /\ r_xcpt'.br_mask = ent'[x].br_mask
             /\ \A p \in V : ent'[p].exc => Age(x) <= Age(p)
    BY <1>1, <1>3, RememberedNext
  <2>2. \A p \in V : (Age(x) <= Age(p))' <=> Age(x) <= Age(p)
    BY <1>1, AgeNext
  <2>3. (\A p : Age(r_xcpt.pos) <= Age(p) <=> Age(x) <= Age(p))'
    BY <2>1
  <2> QED
    BY <2>1, <2>2, <2>3
<1>4. ~r_xcpt'.val /\ ~thrown1' /\ ~thrown2' /\ rob_state' # "rollback" => \A p \in V : ~ent'[p].exc
  BY <1>1, ForgottenNext
<1>5. thrown1' \/ thrown2' => \E w \in Banks : Val(rob_head, w)' /\ ent'[rob_head', w].exc
  BY ThrownNext
<1> QED
  BY <1>2, <1>3, <1>4, <1>5 DEF Excepted

-----------------------------------------------------------------------------
(* Types. *)

\* The tail stays a row and a bank.
LEMMA TailTypes ==
    ASSUME RInv, NEW extra, NEW stall, NEW E, NEW R, NEW M, NEW lx,
           Clocked(extra, stall, E, R, M, lx)
    PROVE  rob_tail' \in Rows /\ rob_tail_lsb' \in Banks
<1>0. /\ rob_tail \in Rows /\ rob_tail_lsb \in Banks /\ rob_head_lsb \in Banks
      /\ 0 \in Banks /\ CoreWidth - 1 \in Banks /\ rob_state \in {"reset", "normal", "rollback", "wait_till_empty"}
  BY Constants DEF RInv, TypeOK
<1>1. CASE RobEnq(EnqValids(extra), Stalled(extra))
  BY <1>0, <1>1, TailIs, WrapIncIs
<1>2. CASE RollbackARow
  BY <1>0, <1>2, TailIs, WrapDecIs
<1>3. CASE b2.mispredict
  <2>1. b2.pos[1] \in Rows
    BY <1>3, LimitIs, SpotIs
  <2> QED
    BY <1>0, <1>3, <2>1, TailIs, WrapIncIs
<1>4. CASE ~RobEnq(EnqValids(extra), Stalled(extra)) /\ ~RollbackARow /\ ~b2.mispredict
  <2>1. rob_tail' = rob_tail
    BY <1>4, TailIs
  <2>2. CASE rob_state = "rollback"
    BY <1>0, <1>4, <2>1, <2>2, TailIs
  <2>3. CASE rob_state # "rollback" /\ EnqValids(extra) = {}
    BY <1>0, <1>4, <2>1, <2>3, TailIs
  <2>4. CASE rob_state # "rollback" /\ EnqValids(extra) # {}
    <3>1. Stalled(extra) /\ rob_tail_lsb' = 1 + CHOOSE w \in EnqValids(extra) :
                                                   \A v \in EnqValids(extra) : v <= w
      BY <1>4, <2>4, TailIs
    <3>2. PICK enq : enq = EnqValids(extra)
      OBVIOUS
    <3>3. PICK h \in Banks : \A w \in enq : w \in Banks /\ w < h
      BY <3>1, <3>2, EnqIs DEF RInv
    <3>4. enq \subseteq 0..(CoreWidth - 1) /\ CoreWidth - 1 \in Nat
      BY <3>3, Constants DEF Banks
    <3>5. \E g \in enq : \A v \in enq : v <= g
      BY <2>4, <3>2, <3>4, MaxIs
    <3>6. PICK g : g = CHOOSE w \in enq : \A v \in enq : v <= w
      OBVIOUS
    <3>7. g \in enq
      BY <3>5, <3>6
    <3>8. rob_tail_lsb' = 1 + g
      BY <3>1, <3>2, <3>6
    <3> QED
      BY <2>1, <1>0, <3>3, <3>7, <3>8, Constants
  <2> QED
    BY <2>2, <2>3, <2>4
<1> QED
  BY <1>1, <1>2, <1>3, <1>4

\* PriorityEncoder returns a bank.
LEMMA EncoderIs ==
    ASSUME NEW S, S \subseteq Banks
    PROVE  PriorityEncoder(S) \in Banks
<1>1. CASE S = {}
  BY <1>1, Constants DEF PriorityEncoder
<1>2. CASE S # {}
  BY <1>2, Constants, MinIs DEF PriorityEncoder
<1> QED
  BY <1>1, <1>2

\* The point of no return stays a row and a bank.
LEMMA PnrTypes ==
    ASSUME RInv, NEW extra, NEW stall, NEW E, NEW R, NEW M, NEW lx,
           Clocked(extra, stall, E, R, M, lx)
    PROVE  rob_pnr' \in Rows /\ rob_pnr_lsb' \in Banks /\ pnr_maybe_at_tail' \in BOOLEAN
<1>0. /\ rob_head \in Rows /\ rob_pnr \in Rows /\ rob_pnr_lsb \in Banks
      /\ 0 \in Banks /\ pnr_maybe_at_tail \in BOOLEAN
  BY Constants DEF RInv, TypeOK
<1>1. PICK enq : enq = EnqValids(extra) /\ enq \subseteq Banks
  BY EnqIs DEF RInv
<1>2. PnrAfter(enq, stall)
  BY <1>1, CycleIs
<1>3. pnr_maybe_at_tail' \in BOOLEAN
  BY <1>2 DEF PnrAfter
<1>4. enq # {} => SetMin(enq) \in Banks
  BY <1>1, Constants, MinIs
<1>5. PnrUnsafe \subseteq Banks
  BY DEF PnrUnsafe
<1>6. /\ PriorityEncoder(PnrUnsafe) \in Banks
      /\ PriorityEncoder(PnrUnsafe \cup
             {w \in Banks : \A v \in w..(CoreWidth - 1) : ~Val(rob_tail, v)}) \in Banks
  BY <1>5, EncoderIs
<1>7. CASE Empty /\ enq # {}
  BY <1>0, <1>2, <1>3, <1>4, <1>7 DEF PnrAfter
<1>8. CASE ~(Empty /\ enq # {}) /\ SafeToInc /\ DoIncRow
  BY <1>0, <1>2, <1>3, <1>8, WrapIncIs DEF PnrAfter
<1>9. CASE ~(Empty /\ enq # {}) /\ ~(SafeToInc /\ DoIncRow)
  <2>1. rob_pnr' = rob_pnr
    BY <1>2, <1>9 DEF PnrAfter
  <2>2. rob_pnr_lsb' =
          IF SafeToInc /\ PnrBehind THEN PriorityEncoder(PnrUnsafe)
          ELSE IF SafeToInc /\ ~Full /\ ~Empty
          THEN PriorityEncoder(PnrUnsafe \cup
                   {w \in Banks : \A v \in w..(CoreWidth - 1) : ~Val(rob_tail, v)})
          ELSE IF Full /\ pnr_maybe_at_tail THEN 0 ELSE rob_pnr_lsb
    BY <1>2, <1>9 DEF PnrAfter
  <2> QED
    BY <1>0, <1>3, <1>6, <2>1, <2>2
<1> QED
  BY <1>7, <1>8, <1>9

\* The head stays a row and a bank.
LEMMA HeadTypes ==
    ASSUME RInv, NEW extra, NEW stall, NEW E, NEW R, NEW M, NEW lx,
           Clocked(extra, stall, E, R, M, lx)
    PROVE  rob_head' \in Rows /\ rob_head_lsb' \in Banks
<1>1. rob_head_lsb' = IF FinishedRow(stall) \/ HeadVals = {} THEN 0 ELSE SetMin(HeadVals)
  BY CycleIs DEF HeadAfter
<1>2. HeadVals \subseteq Banks
  BY DEF HeadVals
<1>3. 0 \in Banks /\ Banks \subseteq Nat
  BY Constants
<1>4. HeadVals # {} => SetMin(HeadVals) \in Banks
  BY <1>2, <1>3, MinIs
<1> QED
  BY <1>1, <1>3, <1>4, HeadNext

\* The two stages of brupdate stay of their types.
LEMMA RedirectTypes ==
    ASSUME RInv, NEW extra, NEW stall, NEW E, NEW R, NEW M, NEW lx,
           Clocked(extra, stall, E, R, M, lx)
    PROVE  /\ b1' \in [res : SUBSET Tags, mis : SUBSET Tags, pos : SUBSET Spots]
           /\ b2' \in [mispredict : BOOLEAN, pos : Spots]
<1>1. \A p \in R : p \in Spots /\ ent[p].br_tag \in Tags
  <2>1. ASSUME NEW p \in R
        PROVE  p \in Spots /\ ent[p].br_tag \in Tags
    <3>1. p \in Valid /\ ent[p].k = "br"
      BY QuietIs
    <3> QED
      BY <3>1, LimitIs DEF RInv, Progress
  <2> QED
    BY <2>1
<1>2. M \subseteq R
  BY RedirectNext
<1>3. {ent[p].br_tag : p \in R} \subseteq Tags /\ {ent[p].br_tag : p \in M} \subseteq Tags
  BY <1>1, <1>2
<1>4. b1' \in [res : SUBSET Tags, mis : SUBSET Tags, pos : SUBSET Spots]
  <2>1. b1' = [res |-> {ent[p].br_tag : p \in R}, mis |-> {ent[p].br_tag : p \in M}, pos |-> R]
    BY CycleIs
  <2>2. R \subseteq Spots
    BY <1>1
  <2> QED
    BY <1>3, <2>1, <2>2
<1>5. b2' \in [mispredict : BOOLEAN, pos : Spots]
  <2>1. b2' = IF b1.mis = {} THEN [mispredict |-> FALSE, pos |-> <<0, 0>>]
              ELSE [mispredict |-> TRUE, pos |-> OldestMis]
    BY CycleIs
  <2>2. <<0, 0>> \in Spots
    BY Constants DEF Spots
  <2>3. b1.mis # {} => OldestMis \in Spots
    BY OldestIs
  <2> QED
    BY <2>1, <2>2, <2>3
<1> QED
  BY <1>4, <1>5

\* r_xcpt stays of its type.
LEMMA XcptTypes ==
    ASSUME RInv, NEW extra, NEW stall, NEW E, NEW R, NEW M, NEW lx,
           Clocked(extra, stall, E, R, M, lx)
    PROVE  r_xcpt' \in [val : BOOLEAN, pos : Spots, br_mask : SUBSET Tags]
<1>1. PICK n \in [val : BOOLEAN, pos : Spots, br_mask : SUBSET Tags] : Remembers(n, extra, stall, lx)
  BY XcptNextIs
<1>2. NoXcpt \in [val : BOOLEAN, pos : Spots, br_mask : SUBSET Tags]
  BY Constants DEF NoXcpt, Spots
<1>3. [val |-> TRUE, pos |-> n.pos, br_mask |-> n.br_mask \ b1.res]
          \in [val : BOOLEAN, pos : Spots, br_mask : SUBSET Tags]
  BY <1>1
<1> QED
  BY <1>1, <1>2, <1>3 DEF Remembers

\* Every variable stays of its type.
LEMMA TypeNext ==
    ASSUME RInv, NEW extra, NEW stall, NEW E, NEW R, NEW M, NEW lx,
           Clocked(extra, stall, E, R, M, lx)
    PROVE  TypeOK'
<1>0. TypeOK /\ Partial /\ Progress
  BY DEF RInv
<1>1. ent' \in [Spots -> Entries \cup {NoEnt}]
  BY <1>0, EntNext
<1>2. rob_state' \in {"reset", "normal", "rollback", "wait_till_empty"}
  BY StateNext
<1>3. r_partial_row' \in BOOLEAN
  BY <1>0, CycleIs DEF TypeOK, Stalled
<1>4. thrown1' \in BOOLEAN /\ thrown2' \in BOOLEAN /\ flush1' \in BOOLEAN
  BY <1>0, CycleIs DEF TypeOK, ExceptionThrown, FlushVal
<1>5. kinds' \subseteq AllKinds
  BY <1>0, CycleIs DEF TypeOK
<1>6. pkt' \in [Banks -> AllKinds \cup {"none"}]
  BY RestNext
<1>7. maybe_full' \in BOOLEAN
  BY FullNext
<1>8. Spots' = Spots /\ Entries' = Entries /\ Rows' = Rows /\ Banks' = Banks
  OBVIOUS
<1> QED
  BY <1>1, <1>2, <1>3, <1>4, <1>5, <1>6, <1>7, TailTypes, PnrTypes, HeadTypes, RedirectTypes,
     XcptTypes DEF TypeOK

-----------------------------------------------------------------------------
(* The invariant holds. *)

\* The invariant holds after reset.
LEMMA InitRInv ==
    ASSUME Init
    PROVE  RInv
<1>1. Valid = {}
  <2>1. \A p \in Rows \X Banks : ent[p].k = "none"
    BY DEF Init, NoEnt
  <2> QED
    BY <2>1 DEF Valid
<1>2. 0 \in Rows /\ 0 \in Banks /\ <<0, 0>> \in Spots /\ NumRows \in Nat /\ NumRows >= 2
  BY Constants DEF Spots
<1>3. \A r, w : r \in Rows /\ w \in Banks => ~Val(r, w)
  <2>1. \A r \in Rows, w \in Banks : <<r, w>> \in Spots
    BY DEF Spots
  <2>2. \A p \in Spots : ent[p].k = "none"
    BY DEF Init, NoEnt, Spots
  <2> QED
    BY <2>1, <2>2 DEF Val
<1>4. TypeOK
  <2>1. ent \in [Spots -> Entries \cup {NoEnt}]
    BY DEF Init, Spots
  <2>2. r_xcpt \in [val : BOOLEAN, pos : Spots, br_mask : SUBSET Tags]
    BY <1>2 DEF Init, NoXcpt
  <2>3. /\ b1 \in [res : SUBSET Tags, mis : SUBSET Tags, pos : SUBSET Spots]
        /\ b2 \in [mispredict : BOOLEAN, pos : Spots]
    BY <1>2 DEF Init
  <2>4. kinds \subseteq AllKinds
    BY RobAssumption DEF Init
  <2>5. pkt \in [Banks -> AllKinds \cup {"none"}]
    BY DEF Init, NoPkt
  <2>6. /\ rob_state = "reset" /\ rob_head = 0 /\ rob_tail = 0 /\ rob_pnr = 0
        /\ rob_head_lsb = 0 /\ rob_tail_lsb = 0 /\ rob_pnr_lsb = 0
        /\ maybe_full = FALSE /\ r_partial_row = FALSE /\ pnr_maybe_at_tail = FALSE
        /\ thrown1 = FALSE /\ thrown2 = FALSE /\ flush1 = FALSE
    BY DEF Init
  <2> QED
    BY <1>2, <2>1, <2>2, <2>3, <2>4, <2>5, <2>6 DEF TypeOK
<1>5. QueueOrder
  <2>1. order = {}
    BY DEF Init
  <2> QED
    BY <1>1, <2>1 DEF QueueOrder
<1>6. \A w \in Banks : ~Pending(w)
  BY DEF Init, NoPkt, Pending
<1>7. ~b2.mispredict /\ ~Full /\ rob_head = 0 /\ rob_tail = 0
  BY DEF Init, Full
<1>8. Limit = 0
  <2>1. Limit = Dist(0)
    BY <1>7 DEF Limit
  <2>2. Dist(0) = 0
    BY <1>2, <1>7, DistHead
  <2> QED
    BY <2>1, <2>2
<1>9. Shape
  <2>1. \A r \in Rows : ~(Dist(r) < Limit)
    BY <1>2, <1>7, <1>8, DistIs
  <2> QED
    BY <1>1, <1>2, <1>3, <1>7, <2>1 DEF Shape
<1>10. Partial
  BY <1>2, <1>3, <1>6, <1>7 DEF Partial
<1>11. /\ b1.pos = {} /\ b1.res = {} /\ b1.mis = {} /\ ~r_xcpt.val
       /\ ~thrown1 /\ ~thrown2 /\ ~flush1 /\ rob_state = "reset"
  BY DEF Init, NoXcpt
<1>12. Control
  BY <1>1, <1>7, <1>11 DEF Control
<1>13. Progress
  <2>1. {ent[p].br_tag : p \in b1.pos} = {}
    BY <1>11
  <2> QED
    BY <1>1, <1>11, <2>1 DEF Progress
<1>14. Alone /\ Masks /\ Excepted
  BY <1>1, <1>11 DEF Alone, Masks, Excepted
<1> QED
  BY <1>4, <1>5, <1>9, <1>10, <1>12, <1>13, <1>14 DEF RInv

\* A cycle keeps it.
LEMMA NextRInv ==
    ASSUME RInv, Next
    PROVE  RInv'
<1>1. PICK extra, stall, E, R, M, lx : Clocked(extra, stall, E, R, M, lx)
  BY NextIs
<1>2. TypeOK' /\ QueueOrder' /\ Shape' /\ Partial' /\ Control'
  BY <1>1, TypeNext, QueueNext, ShapeNext, PartialNext, ControlNext
<1>3. Progress' /\ Alone' /\ Masks' /\ Excepted'
  BY <1>1, ProgressNext, AloneNext, MasksNext, ExceptedNext
<1> QED
  BY <1>2, <1>3 DEF RInv

\* So does a step in which nothing changes.
LEMMA StutterRInv ==
    ASSUME RInv, UNCHANGED vars
    PROVE  RInv'
<1>1. /\ ent' = ent /\ rob_state' = rob_state /\ ptrs' = ptrs /\ r_xcpt' = r_xcpt
      /\ thrown1' = thrown1 /\ thrown2' = thrown2 /\ flush1' = flush1 /\ b1' = b1 /\ b2' = b2
      /\ kinds' = kinds /\ pkt' = pkt /\ order' = order
  BY DEF vars
<1>2. /\ rob_head' = rob_head /\ rob_head_lsb' = rob_head_lsb /\ rob_tail' = rob_tail
      /\ rob_tail_lsb' = rob_tail_lsb /\ rob_pnr' = rob_pnr /\ rob_pnr_lsb' = rob_pnr_lsb
      /\ maybe_full' = maybe_full /\ r_partial_row' = r_partial_row
      /\ pnr_maybe_at_tail' = pnr_maybe_at_tail
  BY <1>1 DEF ptrs
<1>3. Valid' = Valid /\ Full' = Full
  BY <1>1, <1>2 DEF Valid, Full
<1>4. \A r, w : Val(r, w)' <=> Val(r, w)
  BY <1>1 DEF Val
<1>5. \A r : Dist(r)' = Dist(r)
  BY <1>2 DEF Dist
<1>6. \A p : Age(p)' = Age(p)
  BY <1>5 DEF Age
<1>7. Limit' = Limit
  BY <1>1, <1>2, <1>3 DEF Limit, Dist
<1>8. TypeOK'
  BY <1>1, <1>2 DEF RInv, TypeOK
<1>9. QueueOrder'
  BY <1>1, <1>2 DEF RInv, QueueOrder, Age, Dist, Valid
<1>10. Shape'
  BY <1>1, <1>2 DEF RInv, Shape, Age, Dist, Valid, Val, Limit, Full
<1>11. Partial'
  BY <1>1, <1>2 DEF RInv, Partial, Val, Pending, Full
<1>12. Control' /\ Progress' /\ Alone'
  BY <1>1, <1>2 DEF RInv, Control, Progress, Alone, Valid, Pending, Waiting
<1>13. Masks'
  BY <1>1, <1>2 DEF RInv, Masks, OpenTags, Open, Valid, Age, Dist
<1>14. Excepted'
  BY <1>1, <1>2 DEF RInv, Excepted, Valid, Val, Age, Dist
<1> QED
  BY <1>8, <1>9, <1>10, <1>11, <1>12, <1>13, <1>14 DEF RInv

\* The ring, its partial row, the branch tags and the remembered exception fit together
\* in every cycle (the registers of rob.scala and brupdate of core.scala).
THEOREM RInvHolds == Spec => []RInv
<1>1. Init => RInv
  BY InitRInv
<1>2. RInv /\ [Next]_vars => RInv'
  BY NextRInv, StutterRInv
<1> QED
  BY <1>1, <1>2, PTL DEF Spec

-----------------------------------------------------------------------------
(* What the runs check. *)

\* What the head commits is a prefix of the program that no misprediction kills.
LEMMA CommitInOrderIs ==
    ASSUME RInv
    PROVE  CommitInOrder
<1>1. SUFFICES ASSUME NEW stall \in BOOLEAN, NEW w \in WillCommit(stall)
               PROVE  /\ \A q \in Before(<<rob_head, w>>) : q[1] = rob_head /\ q[2] \in WillCommit(stall)
                      /\ ~Killed(<<rob_head, w>>)
  BY DEF CommitInOrder
<1>2. w \in Banks /\ <<rob_head, w>> \in Valid /\ ~Killed(<<rob_head, w>>)
  BY CommitIs
<1>3. rob_head \in Rows /\ Valid \subseteq Spots /\ TypeOK
  BY LimitIs DEF RInv
<1>4. PICK p \in Spots : p = <<rob_head, w>> /\ p[1] = rob_head /\ p[2] = w
  BY <1>2, <1>3, PairIs
<1>5. ASSUME NEW q \in Before(<<rob_head, w>>)
      PROVE  q[1] = rob_head /\ q[2] \in WillCommit(stall)
  <2>1. q \in Valid /\ q \in Spots /\ Age(q) < Age(p)
    BY <1>2, <1>3, <1>4, <1>5, BeforeIs
  <2>2. q[1] \in Rows /\ q[2] \in Banks /\ q = <<q[1], q[2]>>
    BY <2>1, SpotIs
  <2>3. Dist(q[1]) < Dist(p[1]) \/ (Dist(q[1]) = Dist(p[1]) /\ q[2] < p[2])
    BY <1>3, <2>1, AgeIs
  <2>4. Dist(p[1]) = 0 /\ Dist(q[1]) \in Nat
    BY <1>3, <1>4, <2>2, DistHead, DistIs
  <2>5. Dist(q[1]) = 0 /\ q[2] < w
    BY <1>4, <2>3, <2>4
  <2>6. q[1] = rob_head
    BY <1>3, <2>2, <2>5, DistHead
  <2>7. Val(rob_head, q[2])
    BY <1>3, <2>1, <2>2, <2>6, ValidIs
  <2> QED
    BY <2>2, <2>5, <2>6, <2>7, CommitIs
<1> QED
  BY <1>2, <1>5

\* A uop that flushes is the only one in the ROB.
LEMMA FlushAloneIs ==
    ASSUME RInv
    PROVE  FlushAlone
<1>1. SUFFICES ASSUME NEW p \in Valid, ent[p].k = "uniq"
               PROVE  Valid = {p}
  BY DEF FlushAlone
<1>2. \A x, y \in Valid : x = y
  BY <1>1 DEF RInv, Alone
<1> QED
  BY <1>1, <1>2

\* Commit takes a prefix of the program, and one that flushes the pipeline leaves nothing
\* behind (rob.scala 540-562, core.scala 643-646).
THEOREM CommitRightHolds == Spec => []CommitRight
<1>1. RInv => CommitRight
  BY CommitInOrderIs, FlushAloneIs DEF CommitRight
<1> QED
  BY <1>1, RInvHolds, PTL

\* A rollback works from the youngest row to the oldest.
LEMMA RollbackRightIs ==
    ASSUME RInv
    PROVE  RollbackRight
<1>1. rob_state = "rollback" => ~b2.mispredict /\ b1.pos = {}
  BY DEF RInv, Control
<1>2. rob_state = "rollback" => b1.mis = {} /\ ~b2.mispredict
  BY <1>1, KilledIs DEF Mispredicted
<1>3. ASSUME RbkRow, NEW e \in order, e[1][1] = rob_tail
      PROVE  e[2][1] = rob_tail
  <2>1. rob_head \in Rows /\ rob_tail \in Rows /\ Limit = Dist(rob_tail) /\ Valid \subseteq Spots
    BY <1>1, <1>3, LimitIs DEF RbkRow
  <2>2. e[1] \in Valid /\ e[2] \in Valid /\ Age(e[1]) <= Age(e[2])
    BY DEF RInv, QueueOrder
  <2>3. PICK p \in Spots, q \in Spots : p = e[1] /\ q = e[2]
    BY <2>1, <2>2
  <2>4. p[1] \in Rows /\ q[1] \in Rows /\ Dist(q[1]) \in Nat /\ Dist(p[1]) \in Nat
    BY <2>1, SpotIs, DistIs
  <2>5. Dist(p[1]) <= Dist(q[1])
    <3>1. Dist(p[1]) < Dist(q[1]) \/ Dist(p[1]) = Dist(q[1])
      BY <2>1, <2>2, <2>3, AgeIs
    <3> QED
      BY <2>4, <3>1
  <2>6. Dist(q[1]) <= Dist(p[1])
    BY <1>3, <2>1, <2>2, <2>3, LimitIs
  <2>7. q[1] = p[1]
    BY <2>1, <2>4, <2>5, <2>6, DistSame
  <2> QED
    BY <1>3, <2>3, <2>7
<1>4. ASSUME Empty PROVE order = {}
  BY <1>4, EmptyIs DEF RInv, QueueOrder
<1> QED
  BY <1>2, <1>3, <1>4 DEF RollbackRight

\* Rollback undoes the youngest first, ends with nothing in flight, and meets no
\* misprediction (rob.scala 757-767).
THEOREM RollbackRightHolds == Spec => []RollbackRight
<1>1. RInv => RollbackRight
  BY RollbackRightIs
<1> QED
  BY <1>1, RInvHolds, PTL

\* The exception thrown is the one remembered.
LEMMA XcptRightIs ==
    ASSUME RInv
    PROVE  XcptRight
<1>1. ASSUME NEW stall \in BOOLEAN, ExceptionThrown(stall)
      PROVE  r_xcpt.val /\ r_xcpt.pos = <<rob_head, SetMin(HeadVals)>>
  BY <1>1, ThrowIs
<1>2. ASSUME Empty, r_xcpt.val PROVE FALSE
  <2>1. Valid = {}
    BY <1>2, EmptyIs
  <2> QED
    BY <1>2, <2>1 DEF RInv, Excepted
<1> QED
  BY <1>1, <1>2 DEF XcptRight

\* The exception that is thrown is the remembered one, at the first bank of the head, and
\* none is remembered when the ROB is empty (rob.scala 667-675, its three assertions).
THEOREM XcptRightHolds == Spec => []XcptRight
<1>1. RInv => XcptRight
  BY XcptRightIs
<1> QED
  BY <1>1, RInvHolds, PTL

\* Dispatch finds its banks free.
LEMMA NoOverwriteIs ==
    ASSUME RInv
    PROVE  NoOverwrite
<1>1. \A w \in Banks : Val(rob_tail, w) => w \notin EnqValids(CoreWidth)
  BY AddedIs DEF RInv
<1>2. EnqValids(CoreWidth) \subseteq Banks
  BY EnqIs DEF RInv
<1> QED
  BY <1>1, <1>2 DEF NoOverwrite

-----------------------------------------------------------------------------
(* The point of no return. *)

\* The rows it has passed.
Passed == IF rob_pnr = rob_head /\ pnr_maybe_at_tail THEN NumRows ELSE Dist(rob_pnr)

\* It passes rows in use only, not that of a misprediction, and nothing it has passed
\* can still go wrong.
PnrRow ==
    /\ b2.mispredict => Passed <= Dist(b2.pos[1])
    /\ ~b2.mispredict => Passed <= Limit
    /\ rob_state = "rollback" => Passed = 0
    /\ \A p \in Valid : /\ ent[p].unsafe => ent[p].bsy
                        /\ Dist(p[1]) < Passed => ~ent[p].unsafe /\ ~ent[p].exc

\* Its slot lies between those of the head and of the tail.
PnrSlot ==
    /\ Passed = 0 => rob_head_lsb <= rob_pnr_lsb
    /\ Passed = NumRows => rob_pnr_lsb = 0
    /\ rob_pnr = rob_tail /\ (~Full \/ rob_tail_lsb # 0) => rob_pnr_lsb <= rob_tail_lsb

\* The exception that is thrown is the first of the head's row, where the point of no
\* return waits until the rollback is over.
HeadSlot ==
    /\ rob_state = "rollback" => /\ rob_pnr_lsb = rob_head_lsb
                                 /\ HeadVals # {} => rob_head_lsb \in HeadVals
    /\ thrown1 \/ thrown2 => \E w \in HeadVals : ent[rob_head, w].exc /\ \A v \in HeadVals : w <= v

\* The tail's slot is behind what its row holds, and the row of a misprediction not
\* behind the tail's.
TailSlot ==
    /\ ~b2.mispredict /\ Full => rob_tail_lsb = 0
    /\ ~b2.mispredict /\ ~Full /\ rob_state # "rollback" =>
           \A v \in Banks : Val(rob_tail, v) => v < rob_tail_lsb
    /\ b2.mispredict /\ ~Full => Dist(b2.pos[1]) <= Dist(rob_tail)
    /\ b2.mispredict /\ Full /\ rob_tail_lsb # 0 => Dist(b2.pos[1]) = 0

PnrInv == PnrRow /\ PnrSlot /\ HeadSlot /\ TailSlot

\* The pointer and its hint determine the rows passed.
LEMMA PassedIs ==
    ASSUME RInv, PnrRow
    PROVE  /\ rob_pnr \in Rows /\ Passed \in Nat /\ Passed <= NumRows /\ Passed <= Limit
           /\ Passed = NumRows => /\ rob_pnr = rob_head /\ pnr_maybe_at_tail /\ Full
                                  /\ ~b2.mispredict /\ rob_pnr = rob_tail
           /\ Passed < NumRows => Passed = Dist(rob_pnr)
           /\ Passed = 0 => rob_pnr = rob_head /\ ~pnr_maybe_at_tail
           /\ rob_pnr = rob_head /\ pnr_maybe_at_tail => Passed = NumRows
<1>0. /\ rob_head \in Rows /\ rob_tail \in Rows /\ rob_pnr \in Rows /\ NumRows \in Nat /\ NumRows >= 2
      /\ Limit \in Nat /\ Limit <= NumRows
  BY LimitIs, Constants DEF RInv, TypeOK
<1>1. Dist(rob_pnr) \in Nat /\ Dist(rob_pnr) < NumRows /\ Dist(rob_tail) < NumRows /\ Dist(rob_tail) \in Nat
  BY <1>0, DistIs
<1>2. Passed = IF rob_pnr = rob_head /\ pnr_maybe_at_tail THEN NumRows ELSE Dist(rob_pnr)
  BY DEF Passed
<1>3. b2.mispredict => /\ Limit = Dist(b2.pos[1]) + 1 /\ Dist(b2.pos[1]) \in Nat
                       /\ Passed <= Dist(b2.pos[1])
  <2>1. b2.mispredict => b2.pos[1] \in Rows /\ Limit = Dist(b2.pos[1]) + 1
    BY LimitIs, SpotIs
  <2> QED
    BY <1>0, <2>1, DistIs DEF PnrRow
<1>4. ~b2.mispredict => Passed <= Limit
  BY DEF PnrRow
<1>5. Passed <= Limit
  BY <1>0, <1>1, <1>2, <1>3, <1>4
<1>6. Passed = NumRows => ~b2.mispredict
  BY <1>0, <1>1, <1>2, <1>3
<1>7. Passed = NumRows => Full
  <2>1. ~b2.mispredict /\ ~Full => Limit = Dist(rob_tail)
    BY LimitIs
  <2> QED
    BY <1>0, <1>1, <1>5, <1>6, <2>1
<1>8. Passed = 0 => rob_pnr = rob_head /\ ~pnr_maybe_at_tail
  <2>1. Passed = 0 => Dist(rob_pnr) = 0 /\ ~(rob_pnr = rob_head /\ pnr_maybe_at_tail)
    BY <1>0, <1>1, <1>2
  <2> QED
    BY <1>0, <2>1, DistHead
<1>9. Full => rob_tail = rob_head
  BY DEF Full
<1> QED
  BY <1>0, <1>1, <1>2, <1>5, <1>6, <1>7, <1>8, <1>9

\* It only moves on when rows in use are ahead of it.
LEMMA BehindIs ==
    ASSUME RInv, PnrRow
    PROVE  /\ PnrBehind => Passed < NumRows /\ Passed < Limit
           /\ ~PnrBehind => rob_pnr = rob_tail /\ (Full => pnr_maybe_at_tail)
           /\ Empty => ~PnrBehind /\ Limit = 0 /\ Passed = 0 /\ rob_pnr = rob_head
<1>0. /\ rob_head \in Rows /\ rob_tail \in Rows /\ rob_pnr \in Rows /\ NumRows \in Nat /\ NumRows >= 2
      /\ Limit \in Nat /\ Limit <= NumRows /\ Passed \in Nat /\ Passed <= NumRows /\ Passed <= Limit
  BY LimitIs, PassedIs, Constants
<1>1. PnrBehind <=> rob_pnr # rob_tail \/ (Full /\ ~pnr_maybe_at_tail)
  BY DEF PnrBehind
<1>2. ASSUME PnrBehind PROVE Passed < NumRows /\ Passed < Limit
  <2>1. Passed < NumRows
    BY <1>0, <1>1, <1>2, PassedIs
  <2>2. CASE b2.mispredict
    <3>1. b2.pos[1] \in Rows /\ Limit = Dist(b2.pos[1]) + 1
      BY <2>2, LimitIs, SpotIs
    <3>2. Dist(b2.pos[1]) \in Nat /\ Passed <= Dist(b2.pos[1])
      BY <1>0, <2>2, <3>1, DistIs DEF PnrRow
    <3> QED
      BY <1>0, <2>1, <3>1, <3>2
  <2>3. CASE ~b2.mispredict /\ Full
    BY <2>1, <2>3, LimitIs
  <2>4. CASE ~b2.mispredict /\ ~Full
    <3>1. Limit = Dist(rob_tail) /\ rob_pnr # rob_tail /\ Passed = Dist(rob_pnr)
      BY <1>1, <1>2, <2>1, <2>4, LimitIs, PassedIs
    <3>2. Dist(rob_tail) # Dist(rob_pnr)
      BY <1>0, <3>1, DistSame
    <3> QED
      BY <1>0, <2>1, <3>1, <3>2
  <2> QED
    BY <2>2, <2>3, <2>4
<1>3. ASSUME Empty PROVE ~PnrBehind /\ Limit = 0 /\ Passed = 0 /\ rob_pnr = rob_head
  <2>1. ~b2.mispredict /\ ~Full /\ rob_tail = rob_head
    BY <1>3, EmptyIs DEF Empty
  <2>2. Limit = 0
    BY <1>0, <2>1, LimitIs, DistHead
  <2>3. Passed = 0
    BY <1>0, <2>2
  <2> QED
    BY <1>0, <1>2, <2>2, <2>3, PassedIs
<1> QED
  BY <1>1, <1>2, <1>3

\* In a cycle it passes one row more, or none.
Incs == IF SafeToInc /\ DoIncRow THEN 1 ELSE 0

\* The rows passed count up when the pointer moves and down when the head does; the head
\* does not overtake it.
LEMMA PnrStep ==
    ASSUME RInv, PnrRow, NEW extra, NEW stall, NEW E, NEW R, NEW M, NEW lx,
           Clocked(extra, stall, E, R, M, lx)
    PROVE  /\ Incs \in {0, 1}
           /\ Incs = 1 => /\ rob_state \in {"normal", "wait_till_empty"} /\ PnrUnsafe = {} /\ PnrBehind
                          /\ Passed < NumRows /\ Passed < Limit /\ ~Empty
                          /\ rob_pnr_lsb' = 0 /\ rob_pnr' = WrapInc(rob_pnr)
           /\ Incs = 0 => rob_pnr' = rob_pnr
           /\ Incs = 0 <=> ~(SafeToInc /\ DoIncRow)
           /\ Moves(stall) = 1 => Passed + Incs >= 1
           /\ Moves(stall) = 1 => ~Empty
           /\ Passed' = (Passed + Incs) - Moves(stall)
<1>0. /\ rob_head \in Rows /\ rob_pnr \in Rows /\ NumRows \in Nat /\ NumRows >= 2
      /\ Passed \in Nat /\ Passed <= NumRows /\ rob_head' \in Rows
  BY LimitIs, PassedIs, Constants, HeadNext
<1>1. PnrAfter(EnqValids(extra), stall)
  BY CycleIs
<1>2. Incs \in {0, 1} /\ (Incs = 1 <=> SafeToInc /\ DoIncRow)
  BY DEF Incs
<1>3. Moves(stall) \in {0, 1} /\ (Moves(stall) = 1 <=> FinishedRow(stall))
  BY HeadNext
<1>4. SafeToInc <=> rob_state \in {"normal", "wait_till_empty"}
  BY DEF SafeToInc
<1>5. DoIncRow <=> PnrUnsafe = {} /\ PnrBehind
  BY DEF DoIncRow
<1>6. Incs = 1 => ~Empty
  BY <1>2, <1>5, BehindIs
<1>7. Incs = 1 => rob_pnr_lsb' = 0 /\ rob_pnr' = WrapInc(rob_pnr)
  BY <1>1, <1>2, <1>6 DEF PnrAfter
<1>8. Incs = 0 => rob_pnr' = rob_pnr
  BY <1>1, <1>2, BehindIs DEF PnrAfter
<1>9. Moves(stall) = 1 => ~Empty
  BY <1>3, FinishedIs DEF Empty
<1>10. ASSUME Moves(stall) = 1, Passed = 0 PROVE Incs = 1
  <2>1. /\ WillCommit(stall) = HeadVals /\ rob_state \in {"normal", "wait_till_empty"}
        /\ (~b2.mispredict /\ ~Full => rob_tail # rob_head)
    BY <1>3, <1>10, FinishedIs
  <2>2. rob_pnr = rob_head /\ ~pnr_maybe_at_tail
    BY <1>10, PassedIs
  <2>3. PnrUnsafe = {}
    <3>1. ASSUME NEW w \in PnrUnsafe PROVE FALSE
      <4>1. w \in Banks /\ Val(rob_head, w) /\ (ent[rob_head, w].unsafe \/ ent[rob_head, w].exc)
        BY <2>2, <3>1 DEF PnrUnsafe
      <4>2. w \in WillCommit(stall)
        BY <2>1, <4>1 DEF HeadVals
      <4>3. <<rob_head, w>> \in Valid /\ ~ent[rob_head, w].bsy /\ ~ent[rob_head, w].exc
        BY <4>2, CommitIs
      <4> QED
        BY <4>1, <4>3 DEF PnrRow
    <3> QED
      BY <3>1
  <2>4. PnrBehind
    <3>1. b2.mispredict => maybe_full
      BY DEF RInv, Shape
    <3>2. rob_tail = rob_head => Full
      BY <2>1, <3>1 DEF Full
    <3> QED
      BY <2>2, <3>2 DEF PnrBehind
  <2> QED
    BY <1>2, <1>4, <1>5, <2>1, <2>3, <2>4
<1>11. Moves(stall) = 1 => Passed + Incs >= 1
  BY <1>0, <1>2, <1>10
<1> DEFINE D(r) == (r + NumRows - rob_head') % NumRows
<1>12. Passed' = IF rob_pnr' = rob_head' /\ pnr_maybe_at_tail' THEN NumRows ELSE D(rob_pnr')
  BY DEF Passed, Dist
<1>13. \A r \in Rows : D(r) = IF Moves(stall) = 0 THEN Dist(r) ELSE IF Dist(r) = 0 THEN NumRows - 1 ELSE Dist(r) - 1
  <2>1. ASSUME NEW r \in Rows
        PROVE  D(r) = IF Moves(stall) = 0 THEN Dist(r) ELSE IF Dist(r) = 0 THEN NumRows - 1 ELSE Dist(r) - 1
    <3>1. Dist(r)' = D(r)
      BY DEF Dist
    <3> QED
      BY <3>1, HeadNext
  <2> QED
    BY <2>1
<1> HIDE DEF D
<1>14. \A r \in Rows : Dist(r) \in Nat /\ Dist(r) < NumRows
  BY <1>0, DistIs
<1>15. pnr_maybe_at_tail' <=> ~RobDeq(stall) /\ (DoIncRow \/ pnr_maybe_at_tail)
  BY <1>1 DEF PnrAfter
<1>16. RobDeq(stall) <=> Moves(stall) = 1 \/ RollbackARow
  BY <1>3 DEF RobDeq
<1>17. RollbackARow => rob_state = "rollback" /\ Passed = 0 /\ Incs = 0 /\ Moves(stall) = 0
  <2>1. RollbackARow => rob_state = "rollback"
    BY DEF RollbackARow
  <2>2. rob_state = "rollback" => Passed = 0
    BY DEF PnrRow
  <2>3. Moves(stall) = 1 => ~RollbackARow
    BY <1>3, FinishedIs
  <2> QED
    BY <1>2, <1>3, <1>4, <2>1, <2>2, <2>3
<1>18. Passed = NumRows => rob_pnr = rob_head /\ pnr_maybe_at_tail /\ ~PnrBehind
  BY <1>0, PassedIs, BehindIs
<1>19. Passed < NumRows => Passed = Dist(rob_pnr) /\ (rob_pnr = rob_head => Passed = 0 /\ ~pnr_maybe_at_tail)
  BY <1>0, PassedIs, DistHead
<1>20. Incs = 1 => Passed < NumRows /\ Passed < Limit
  BY <1>2, <1>5, BehindIs
<1>21. Moves(stall) = 0 => rob_head' = rob_head
  BY HeadNext
<1>22. ASSUME Incs = 1 PROVE Passed' = (Passed + Incs) - Moves(stall)
  <2>1. PICK s \in Rows : s = WrapInc(rob_pnr) /\ s = rob_pnr'
    BY <1>0, <1>7, <1>22, WrapIncIs
  <2>2. Dist(s) = IF Dist(rob_pnr) = NumRows - 1 THEN 0 ELSE Dist(rob_pnr) + 1
    BY <1>0, <2>1, DistWrap
  <2>3. Passed = Dist(rob_pnr) /\ Passed < NumRows
    BY <1>19, <1>20, <1>22
  <2>4. ~RollbackARow /\ DoIncRow
    BY <1>2, <1>17, <1>22
  <2>5. CASE Moves(stall) = 1
    <3>1. Passed' = D(s)
      BY <1>12, <1>15, <1>16, <2>1, <2>5
    <3> QED
      BY <1>0, <1>13, <1>22, <2>2, <2>3, <2>5, <3>1
  <2>6. CASE Moves(stall) = 0
    <3>1. pnr_maybe_at_tail' /\ rob_head' = rob_head
      BY <1>15, <1>16, <1>21, <2>4, <2>6
    <3>2. CASE Passed = NumRows - 1
      <4>1. s = rob_head
        BY <1>0, <2>1, <2>2, <2>3, <3>2, DistHead
      <4> QED
        BY <1>0, <1>12, <1>22, <2>1, <2>6, <3>1, <3>2, <4>1
    <3>3. CASE Passed # NumRows - 1
      <4>1. Dist(s) = Passed + 1
        BY <2>2, <2>3, <3>3
      <4>2. s # rob_head
        BY <1>0, <4>1, DistHead
      <4> QED
        BY <1>0, <1>12, <1>13, <1>22, <2>1, <2>6, <3>1, <4>1, <4>2
    <3> QED
      BY <3>2, <3>3
  <2> QED
    BY <1>3, <2>5, <2>6
<1>23. ASSUME Incs = 0 PROVE Passed' = (Passed + Incs) - Moves(stall)
  <2>1. rob_pnr' = rob_pnr
    BY <1>8, <1>23
  <2>2. CASE Moves(stall) = 1
    <3>1. Passed' = D(rob_pnr)
      BY <1>12, <1>15, <1>16, <2>1, <2>2
    <3>2. D(rob_pnr) = IF Dist(rob_pnr) = 0 THEN NumRows - 1 ELSE Dist(rob_pnr) - 1
      BY <1>0, <1>13, <2>2
    <3>3. Passed >= 1
      BY <1>0, <1>10, <1>23, <2>2
    <3>4. CASE Passed = NumRows
      <4>1. Dist(rob_pnr) = 0
        BY <1>0, <1>18, <3>4, DistHead
      <4> QED
        BY <1>0, <1>23, <2>2, <3>1, <3>2, <3>4, <4>1
    <3>5. CASE Passed < NumRows
      BY <1>0, <1>19, <1>23, <2>2, <3>1, <3>2, <3>3, <3>5
    <3> QED
      BY <1>0, <3>4, <3>5
  <2>3. CASE Moves(stall) = 0
    <3>1. rob_head' = rob_head /\ D(rob_pnr) = Dist(rob_pnr)
      BY <1>0, <1>13, <1>21, <2>3
    <3>2. CASE Passed = NumRows
      <4>1. ~RollbackARow
        BY <1>0, <1>17, <3>2
      <4>2. pnr_maybe_at_tail'
        BY <1>15, <1>16, <1>18, <2>3, <3>2, <4>1
      <4> QED
        BY <1>0, <1>12, <1>18, <1>23, <2>1, <2>3, <3>1, <3>2, <4>2
    <3>3. CASE Passed < NumRows /\ rob_pnr # rob_head
      BY <1>0, <1>12, <1>19, <1>23, <2>1, <2>3, <3>1, <3>3
    <3>4. CASE Passed < NumRows /\ rob_pnr = rob_head
      <4>1. Passed = 0 /\ ~pnr_maybe_at_tail /\ Passed = Dist(rob_pnr)
        BY <1>19, <3>4
      <4>2. ~pnr_maybe_at_tail'
        <5>1. ASSUME pnr_maybe_at_tail' PROVE FALSE
          <6>1. DoIncRow /\ ~RollbackARow
            BY <1>15, <1>16, <4>1, <5>1
          <6>2. PnrBehind /\ ~SafeToInc
            BY <1>2, <1>5, <1>23, <6>1
          <6>3. rob_state \in {"reset", "rollback"}
            BY <1>4, <6>2 DEF RInv, TypeOK
          <6>4. CASE rob_state = "reset"
            <7>1. Valid = {} /\ ~b2.mispredict
              BY <6>4 DEF RInv, Control
            <7>2. Limit \in Nat /\ Limit > 0
              BY <1>0, <6>2, LimitIs, BehindIs
            <7>3. Dist(rob_head) < Limit
              BY <1>0, <7>2, DistHead
            <7>4. \E w \in Banks : Val(rob_head, w)
              BY <1>0, <7>3 DEF RInv, Shape
            <7> QED
              BY <1>0, <7>1, <7>4, ValidIs DEF RInv
          <6>5. CASE rob_state = "rollback"
            <7>1. rob_tail = rob_head /\ ~maybe_full
              BY <6>1, <6>5 DEF RollbackARow
            <7> QED
              BY <3>4, <6>2, <7>1 DEF PnrBehind, Full
          <6> QED
            BY <6>3, <6>4, <6>5
        <5> QED
          BY <5>1
      <4> QED
        BY <1>0, <1>12, <1>23, <2>1, <2>3, <3>1, <4>1, <4>2
    <3> QED
      BY <1>0, <3>2, <3>3, <3>4
  <2> QED
    BY <1>3, <2>2, <2>3
<1>24. Passed' = (Passed + Incs) - Moves(stall)
  BY <1>2, <1>22, <1>23
<1> QED
  BY <1>2, <1>4, <1>5, <1>6, <1>7, <1>8, <1>9, <1>11, <1>20, <1>24

\* What it has passed at the end of the cycle is safe in this cycle.
LEMMA SafeIs ==
    ASSUME RInv, PnrRow, NEW p \in Valid, Dist(p[1]) < Passed + Incs
    PROVE  ~ent[p].unsafe /\ ~ent[p].exc
<1>0. /\ rob_head \in Rows /\ rob_pnr \in Rows /\ p \in Spots /\ Passed \in Nat /\ NumRows \in Nat
      /\ p[1] \in Rows /\ p[2] \in Banks /\ p = <<p[1], p[2]>> /\ TypeOK
  BY LimitIs, PassedIs, SpotIs, Constants DEF RInv
<1>1. Dist(p[1]) \in Nat
  BY <1>0, DistIs
<1>2. CASE Dist(p[1]) < Passed
  BY <1>2 DEF PnrRow
<1>3. CASE ~(Dist(p[1]) < Passed)
  <2>1. Dist(p[1]) = Passed /\ Incs = 1
    BY <1>0, <1>1, <1>3 DEF Incs
  <2>2. PnrBehind /\ PnrUnsafe = {}
    BY <2>1 DEF Incs, DoIncRow
  <2>3. Passed = Dist(rob_pnr)
    BY <2>2, PassedIs, BehindIs
  <2>4. p[1] = rob_pnr
    BY <1>0, <2>1, <2>3, DistSame
  <2>5. p[2] \notin PnrUnsafe
    BY <2>2
  <2>6. Val(rob_pnr, p[2]) /\ p = <<rob_pnr, p[2]>>
    BY <1>0, <2>4, ValidIs
  <2> QED
    BY <1>0, <2>5, <2>6 DEF PnrUnsafe
<1> QED
  BY <1>2, <1>3

\* A uop that faults is unsafe, or an older one is.
LEMMA FaultIs ==
    ASSUME RInv, NEW extra, NEW stall, NEW E, NEW R, NEW M, NEW lx,
           Clocked(extra, stall, E, R, M, lx), lx # <<>>
    PROVE  lx \in Valid /\ \E q \in Valid : Age(q) <= Age(lx) /\ ent[q].unsafe
<1>1. lx \in CanFault
  BY DEF Clocked
<1>2. /\ lx \in Valid /\ ent[lx].k \in {"load", "store"}
      /\ \/ ent[lx].bsy
         \/ \E q \in Before(lx) : ent[q].k \in {"load", "store"} /\ ent[q].bsy
  BY <1>1 DEF CanFault
<1>3. \A q \in Valid : Age(q) \in Nat /\ (ent[q].k \in {"load", "store"} /\ ent[q].bsy => ent[q].unsafe)
  <2>1. \A q \in Valid : Age(q) \in Nat
    BY LimitIs, AgeIs
  <2> QED
    BY <2>1 DEF RInv, Progress
<1>4. CASE ent[lx].bsy
  BY <1>2, <1>3, <1>4
<1>5. CASE \E q \in Before(lx) : ent[q].k \in {"load", "store"} /\ ent[q].bsy
  <2>1. PICK q \in Before(lx) : ent[q].k \in {"load", "store"} /\ ent[q].bsy
    BY <1>5
  <2>2. q \in Valid /\ Age(q) < Age(lx)
    BY <1>2, <2>1, BeforeIs
  <2>3. Age(q) <= Age(lx)
    BY <1>2, <1>3, <2>2
  <2> QED
    BY <1>2, <1>3, <2>1, <2>2, <2>3
<1> QED
  BY <1>2, <1>4, <1>5

\* What has been passed stays safe: no fault, no misprediction and no replay in it.
LEMMA SafeNext ==
    ASSUME RInv, PnrRow, NEW extra, NEW stall, NEW E, NEW R, NEW M, NEW lx,
           Clocked(extra, stall, E, R, M, lx), NEW p \in Left(stall) \cup Added(extra)
    PROVE  /\ ent'[p].unsafe => ent'[p].bsy
           /\ Dist(p[1])' < Passed' => ~ent'[p].unsafe /\ ~ent'[p].exc
<1>0. TypeOK /\ Partial /\ Progress /\ rob_head \in Rows /\ Valid \subseteq Spots
  BY LimitIs DEF RInv
<1>1. /\ p \in Spots /\ p[1] \in Rows /\ Moves(stall) \in {0, 1}
      /\ Dist(p[1])' = Dist(p[1]) - Moves(stall)
  BY HeadNext
<1>2. /\ Passed' = (Passed + Incs) - Moves(stall) /\ Incs \in {0, 1} /\ Passed \in Nat
      /\ Passed <= Limit /\ (Incs = 1 => Passed < Limit) /\ Limit \in Nat
      /\ Dist(p[1]) \in Nat
  BY <1>0, <1>1, PnrStep, PassedIs, LimitIs, DistIs
<1>3. CASE p \in Left(stall)
  <2>1. /\ p \in Valid
        /\ ent'[p].bsy = (ent[p].bsy /\ p \notin E)
        /\ ent'[p].unsafe = (ent[p].unsafe /\ p \notin E)
        /\ ent'[p].exc = (ent[p].exc \/ p = lx)
    BY <1>0, <1>3, EntNext
  <2>2. ent[p].unsafe => ent[p].bsy
    BY <2>1 DEF PnrRow
  <2>3. ASSUME Dist(p[1])' < Passed' PROVE ~ent'[p].unsafe /\ ~ent'[p].exc
    <3>1. Dist(p[1]) < Passed + Incs
      BY <1>1, <1>2, <2>3
    <3>2. ~ent[p].unsafe /\ ~ent[p].exc
      BY <2>1, <3>1, SafeIs
    <3>3. ASSUME p = lx PROVE FALSE
      <4>1. lx # <<>>
        BY <1>1, <3>3 DEF Spots
      <4>2. PICK q \in Valid : Age(q) <= Age(p) /\ ent[q].unsafe
        BY <3>3, <4>1, FaultIs
      <4>3. q \in Spots /\ q[1] \in Rows
        BY <1>0, SpotIs
      <4>4. Dist(q[1]) \in Nat /\ (Dist(q[1]) < Dist(p[1]) \/ Dist(q[1]) = Dist(p[1]))
        BY <1>0, <1>1, <4>2, <4>3, AgeIs, DistIs
      <4>5. Dist(q[1]) < Passed + Incs
        BY <1>2, <3>1, <4>4
      <4> QED
        BY <4>2, <4>5, SafeIs
    <3> QED
      BY <2>1, <3>2, <3>3
  <2> QED
    BY <2>1, <2>2, <2>3
<1>4. CASE p \in Added(extra)
  <2>1. EnqValids(extra) # {}
    BY <1>4 DEF Added
  <2>2. p[1] = rob_tail /\ p[2] \in EnqValids(extra) /\ ~Full /\ ~b2.mispredict
    BY <1>4, <2>1, AddedLast
  <2>3. ent'[p] = NewEnt(p[2])
    BY <1>0, <1>4, EntNext
  <2>4. ent'[p].bsy
    BY <1>0, <2>2, <2>3, NewEntIs
  <2>5. Dist(p[1]) = Limit
    BY <2>2, LimitIs
  <2>6. ~(Dist(p[1])' < Passed')
    BY <1>1, <1>2, <2>5
  <2> QED
    BY <2>4, <2>6
<1> QED
  BY <1>3, <1>4

\* The row of the point of no return stays right.
LEMMA PnrRowNext ==
    ASSUME RInv, PnrRow, NEW extra, NEW stall, NEW E, NEW R, NEW M, NEW lx,
           Clocked(extra, stall, E, R, M, lx)
    PROVE  PnrRow'
<1>0. /\ TypeOK /\ Partial /\ Progress /\ rob_head \in Rows /\ Valid \subseteq Spots
      /\ NumRows \in Nat /\ NumRows >= 2
  BY LimitIs, Constants DEF RInv
<1>1. /\ Passed' = (Passed + Incs) - Moves(stall) /\ Incs \in {0, 1} /\ Passed \in Nat
      /\ Passed <= Limit /\ (Incs = 1 => Passed < Limit) /\ Limit \in Nat
      /\ Moves(stall) \in {0, 1} /\ Passed <= NumRows
  BY PnrStep, PassedIs, LimitIs, HeadNext
<1>2. b2'.mispredict <=> b1.mis # {}
  BY RedirectNext DEF RInv, TypeOK
<1>3. ASSUME b1.mis # {} PROVE Passed' <= Dist(b2.pos[1])'
  <2>1. PICK o \in Left(stall) : o = OldestMis /\ o \in Mispredicted /\ o \in Valid /\ ent[o].bsy
    BY <1>3, OldestIs
  <2>2. b2'.pos = o
    BY <1>3, <2>1, RedirectNext
  <2>3. o[1] \in Rows /\ Dist(o[1])' = Dist(o[1]) - Moves(stall) /\ Dist(o[1]) \in Nat
    BY <1>0, HeadNext, DistIs
  <2>4. Dist(b2.pos[1])' = Dist(o[1])'
    BY <2>2 DEF Dist
  <2>5. ent[o].k = "br"
    BY <2>1, KilledIs DEF Open
  <2>6. ent[o].unsafe
    BY <2>1, <2>5 DEF RInv, Progress
  <2>7. ~(Dist(o[1]) < Passed + Incs)
    BY <2>1, <2>6, SafeIs
  <2> QED
    BY <1>1, <2>3, <2>4, <2>7
<1>4. ASSUME b1.mis = {} PROVE Passed' <= Limit'
  <2>1. Limit' = (Limit + Grows(extra)) - Moves(stall) /\ Grows(extra) \in {-1, 0, 1}
    BY <1>4, LimitNext
  <2>2. ASSUME Grows(extra) = -1 PROVE Passed = 0 /\ Incs = 0 /\ Limit >= 1
    <3>1. RollbackARow
      BY <2>2 DEF Grows
    <3>2. rob_state = "rollback" /\ (rob_tail # rob_head \/ maybe_full)
      BY <3>1 DEF RollbackARow
    <3>3. Passed = 0 /\ Incs = 0
      BY <3>2 DEF PnrRow, Incs, SafeToInc
    <3>4. ~b2.mispredict
      BY <3>1, TailIs
    <3>5. Limit >= 1
      <4>1. CASE Full
        BY <1>0, <3>4, <4>1, LimitIs
      <4>2. CASE ~Full
        <5>1. rob_tail # rob_head /\ Limit = Dist(rob_tail) /\ rob_tail \in Rows
          BY <3>2, <3>4, <4>2, LimitIs DEF Full
        <5>2. Limit # 0
          BY <1>0, <5>1, DistHead
        <5> QED
          BY <1>1, <5>2
      <4> QED
        BY <4>1, <4>2
    <3> QED
      BY <3>3, <3>5
  <2> QED
    BY <1>1, <2>1, <2>2
<1>5. ASSUME rob_state' = "rollback" PROVE Passed' = 0
  <2>1. CASE rob_state = "rollback"
    <3>1. Passed = 0 /\ Incs = 0
      BY <2>1 DEF PnrRow, Incs, SafeToInc
    <3>2. Moves(stall) = 0
      BY <2>1, HeadNext, FinishedIs
    <3> QED
      BY <1>1, <3>1, <3>2
  <2>2. CASE rob_state # "rollback"
    <3>1. thrown2
      BY <1>0, <1>5, <2>2, StateNext DEF TypeOK
    <3>2. PICK w \in Banks : Val(rob_head, w) /\ ent[rob_head, w].exc
      BY <3>1 DEF RInv, Excepted
    <3>3. PICK p \in Valid : p = <<rob_head, w>> /\ p[1] = rob_head
      <4>1. <<rob_head, w>> \in Valid
        BY <1>0, <3>2, ValidIs
      <4> QED
        BY <1>0, <4>1, PairIs
    <3>4. ~(Dist(rob_head) < Passed + Incs)
      BY <3>2, <3>3, SafeIs
    <3>5. Dist(rob_head) = 0
      BY <1>0, DistHead
    <3>6. Moves(stall) = 0
      <4>1. WillCommit(stall) = {}
        BY <3>1, QuietIs
      <4> QED
        BY <4>1 DEF Moves, FinishedRow
    <3> QED
      BY <1>1, <3>4, <3>5, <3>6
  <2> QED
    BY <2>1, <2>2
<1>6. ASSUME NEW p \in Valid'
      PROVE  /\ ent'[p].unsafe => ent'[p].bsy
             /\ Dist(p[1])' < Passed' => ~ent'[p].unsafe /\ ~ent'[p].exc
  <2>1. p \in Left(stall) \cup Added(extra)
    BY ValNext
  <2> QED
    BY <2>1, SafeNext
<1>7. (b2.mispredict => Passed <= Dist(b2.pos[1]))' /\ (~b2.mispredict => Passed <= Limit)'
  BY <1>2, <1>3, <1>4
<1>8. (\A p \in Valid : /\ ent[p].unsafe => ent[p].bsy
                        /\ Dist(p[1]) < Passed => ~ent[p].unsafe /\ ~ent[p].exc)'
  BY <1>6
<1> QED
  BY <1>5, <1>7, <1>8 DEF PnrRow

\* Its slot is the first that is unsafe, or in the tail's row the first that is free.
FreeSlots == {w \in Banks : \A v \in w..(CoreWidth - 1) : ~Val(rob_tail, v)}

\* The four ways in which its slot is set (rob.scala 737-743).
LEMMA SlotIs ==
    ASSUME RInv, PnrRow, NEW extra, NEW stall, NEW E, NEW R, NEW M, NEW lx,
           Clocked(extra, stall, E, R, M, lx), Incs = 0, ~(Empty /\ EnqValids(extra) # {})
    PROVE  \/ /\ SafeToInc /\ PnrBehind /\ PnrUnsafe # {}
              /\ rob_pnr_lsb' = PriorityEncoder(PnrUnsafe)
           \/ /\ SafeToInc /\ ~Full /\ ~Empty /\ rob_pnr = rob_tail
              /\ rob_pnr_lsb' = PriorityEncoder(PnrUnsafe \cup FreeSlots)
           \/ Full /\ pnr_maybe_at_tail /\ (SafeToInc => ~PnrBehind) /\ rob_pnr_lsb' = 0
           \/ (SafeToInc => ~PnrBehind /\ Empty) /\ rob_pnr_lsb' = rob_pnr_lsb
<1>1. rob_pnr_lsb' =
        IF SafeToInc /\ PnrBehind THEN PriorityEncoder(PnrUnsafe)
        ELSE IF SafeToInc /\ ~Full /\ ~Empty THEN PriorityEncoder(PnrUnsafe \cup FreeSlots)
        ELSE IF Full /\ pnr_maybe_at_tail THEN 0 ELSE rob_pnr_lsb
  <2>1. PnrAfter(EnqValids(extra), stall) /\ ~(SafeToInc /\ DoIncRow)
    BY CycleIs, PnrStep
  <2> QED
    BY <2>1 DEF PnrAfter, FreeSlots
<1>2. ~(SafeToInc /\ PnrBehind /\ PnrUnsafe = {})
  BY PnrStep DEF DoIncRow
<1>3. ~PnrBehind => rob_pnr = rob_tail /\ (Full => pnr_maybe_at_tail)
  BY BehindIs
<1> QED
  BY <1>1, <1>2, <1>3

\* PriorityEncoder returns the least bank of a set.
LEMMA EncoderMin ==
    ASSUME NEW S, S \subseteq Banks, NEW w \in S
    PROVE  PriorityEncoder(S) \in S /\ PriorityEncoder(S) <= w
<1>1. S \subseteq Nat /\ S # {}
  BY Constants
<1> QED
  BY <1>1, MinIs DEF PriorityEncoder

\* The banks the slot is taken from.
LEMMA UnsafeIs ==
    ASSUME RInv
    PROVE  /\ PnrUnsafe \subseteq Banks /\ FreeSlots \subseteq Banks /\ HeadVals \subseteq Banks
           /\ \A w \in PnrUnsafe : Val(rob_pnr, w)
           /\ \A w \in FreeSlots, v \in Banks : Val(rob_tail, v) => v < w
           /\ \A v \in HeadVals : rob_head_lsb <= v
<1>1. ASSUME NEW w \in FreeSlots, NEW v \in Banks, Val(rob_tail, v) PROVE v < w
  <2>1. w \in Nat /\ v \in Nat /\ v < CoreWidth /\ CoreWidth \in Nat
    BY Constants DEF FreeSlots
  <2>2. ~(w <= v)
    <3>1. ASSUME w <= v PROVE FALSE
      <4>1. v \in w..(CoreWidth - 1)
        BY <2>1, <3>1
      <4> QED
        BY <1>1, <4>1 DEF FreeSlots
    <3> QED
      BY <3>1
  <2> QED
    BY <2>1, <2>2
<1> QED
  BY <1>1 DEF PnrUnsafe, FreeSlots, HeadVals, RInv, Shape

\* The row of the head while the head stays.
LEMMA HeadRowNext ==
    ASSUME RInv, NEW extra, NEW stall, NEW E, NEW R, NEW M, NEW lx,
           Clocked(extra, stall, E, R, M, lx), Moves(stall) = 0
    PROVE  /\ rob_head' = rob_head
           /\ \A w : w \in HeadVals' <=> w \in Banks /\ <<rob_head, w>> \in Left(stall) \cup Added(extra)
           /\ rob_head_lsb' = IF HeadVals = {} THEN 0 ELSE SetMin(HeadVals)
           /\ \A w \in HeadVals : /\ w \in Banks /\ w \in Nat /\ <<rob_head, w>> \in Valid
                                  /\ <<rob_head, w>> \in Spots
           /\ HeadVals # {} => SetMin(HeadVals) \in HeadVals /\ \A w \in HeadVals : SetMin(HeadVals) <= w
<1>0. rob_head \in Rows /\ TypeOK /\ Valid \subseteq Spots
  BY LimitIs DEF RInv
<1>1. rob_head' = rob_head /\ ~FinishedRow(stall)
  BY HeadNext
<1>2. \A w \in Banks : Val(rob_head, w)' <=> <<rob_head, w>> \in Left(stall) \cup Added(extra)
  <2>1. \A w \in Banks : Val(rob_head, w)' <=> ent'[rob_head, w].k # "none"
    BY <1>1 DEF Val
  <2>2. \A w \in Banks : <<rob_head, w>> \in Valid' <=> ent'[rob_head, w].k # "none"
    BY <1>0 DEF Valid
  <2> QED
    BY <2>1, <2>2, ValNext
<1>3. \A w : w \in HeadVals' <=> w \in Banks /\ Val(rob_head, w)'
  BY DEF HeadVals
<1>4. rob_head_lsb' = IF HeadVals = {} THEN 0 ELSE SetMin(HeadVals)
  BY <1>1, CycleIs DEF HeadAfter
<1>5. \A w \in HeadVals : w \in Banks /\ w \in Nat /\ <<rob_head, w>> \in Valid /\ <<rob_head, w>> \in Spots
  BY <1>0, Constants, ValidIs DEF HeadVals
<1>6. HeadVals \subseteq Nat
  BY <1>5
<1> QED
  BY <1>1, <1>2, <1>3, <1>4, <1>5, <1>6, MinIs

\* An exception in the first bank in use of the head's row.
FirstThrown(w) == w \in HeadVals /\ ent[rob_head, w].exc /\ \A v \in HeadVals : w <= v

\* It stays there in the cycles in which it is thrown.
LEMMA FirstStays ==
    ASSUME RInv, NEW extra, NEW stall, NEW E, NEW R, NEW M, NEW lx,
           Clocked(extra, stall, E, R, M, lx), ExceptionThrown(stall) \/ thrown1 \/ thrown2,
           NEW w, FirstThrown(w)
    PROVE  /\ Moves(stall) = 0 /\ rob_state = "normal"
           /\ w \in HeadVals' /\ HeadVals' \subseteq HeadVals
           /\ ent'[rob_head', w].exc
           /\ rob_head_lsb' = w
<1>0. TypeOK /\ Partial /\ Progress /\ rob_head \in Rows /\ Valid \subseteq Spots
  BY LimitIs DEF RInv
<1>1. WillCommit(stall) = {} /\ rob_state = "normal" /\ (r_xcpt.val \/ thrown1 \/ thrown2)
  BY ThrowIs, QuietIs DEF RInv, Control
<1>2. Moves(stall) = 0
  BY <1>1 DEF Moves, FinishedRow
<1>3. EnqValids(extra) = {} /\ Added(extra) = {}
  BY <1>1, AddedLast DEF Added
<1>10. w \in HeadVals /\ ent[rob_head, w].exc /\ \A v \in HeadVals : w <= v
  BY DEF FirstThrown
<1>4. PICK p \in Spots : p = <<rob_head, w>> /\ p[1] = rob_head /\ p[2] = w /\ p \in Valid
  BY <1>0, <1>2, <1>10, HeadRowNext, PairIs
<1>5. ~Killed(p)
  <2>1. ASSUME Killed(p) PROVE FALSE
    <3>1. PICK q \in Mispredicted : Age(q) < Age(p)
      BY <1>4, <2>1, KilledIs
    <3>2. q \in Valid /\ q \in Spots
      BY <1>0, KilledIs DEF Open
    <3>3. q[1] \in Rows /\ q[2] \in Banks /\ q = <<q[1], q[2]>>
      BY <3>2, SpotIs
    <3>4. Dist(q[1]) < Dist(p[1]) \/ (Dist(q[1]) = Dist(p[1]) /\ q[2] < p[2])
      BY <1>0, <1>4, <3>1, <3>2, AgeIs
    <3>5. Dist(p[1]) = 0 /\ Dist(q[1]) \in Nat
      BY <1>0, <1>4, <3>3, DistHead, DistIs
    <3>9. Dist(q[1]) = 0 /\ q[2] < w
      BY <1>4, <3>4, <3>5
    <3>6. q[1] = rob_head /\ q[2] < w
      BY <1>0, <3>3, <3>9, DistHead
    <3>7. q[2] \in HeadVals
      BY <1>0, <3>2, <3>3, <3>6, ValidIs DEF HeadVals
    <3>8. PICK i \in Nat, j \in Nat : i = w /\ j = q[2]
      BY <1>10, <3>3, Constants DEF HeadVals
    <3>10. i <= j /\ j < i
      BY <1>10, <3>6, <3>7, <3>8
    <3> QED
      BY <3>8, <3>10
  <2> QED
    BY <2>1
<1>6. p \in Left(stall)
  BY <1>1, <1>4, <1>5 DEF Left, RbkRow
<1>7. w \in HeadVals' /\ HeadVals' \subseteq HeadVals
  <2>1. \A v : v \in HeadVals' => v \in Banks /\ <<rob_head, v>> \in Valid
    BY <1>2, <1>3, HeadRowNext, LeftIs
  <2>2. \A v : v \in HeadVals' => v \in HeadVals
    BY <1>0, <2>1, ValidIs DEF HeadVals
  <2>3. w \in Banks
    BY <1>10 DEF HeadVals
  <2> QED
    BY <1>2, <1>4, <1>6, <2>2, <2>3, HeadRowNext
<1>8. ent'[rob_head', w].exc
  <2>1. rob_head' = rob_head
    BY <1>2, HeadNext
  <2>2. \A x \in Left(stall) : ent'[x].exc = (ent[x].exc \/ x = lx)
    BY <1>0, EntNext
  <2> QED
    BY <1>4, <1>6, <1>10, <2>1, <2>2
<1>9. rob_head_lsb' = w
  <2>1. PICK m : m = SetMin(HeadVals)
    OBVIOUS
  <2>2. rob_head_lsb' = m /\ m \in HeadVals /\ m <= w /\ m \in Nat /\ w \in Nat
    BY <1>2, <1>10, <2>1, HeadRowNext
  <2>3. w <= m
    BY <1>10, <2>2
  <2>4. m = w
    BY <2>2, <2>3
  <2> QED
    BY <2>2, <2>4
<1> QED
  BY <1>1, <1>2, <1>7, <1>8, <1>9

\* The slots at the head stay right until the rollback is over.
LEMMA HeadSlotNext ==
    ASSUME RInv, PnrInv, NEW extra, NEW stall, NEW E, NEW R, NEW M, NEW lx,
           Clocked(extra, stall, E, R, M, lx)
    PROVE  HeadSlot'
<1>0. /\ TypeOK /\ rob_head \in Rows /\ rob_tail \in Rows /\ Valid \subseteq Spots /\ NumRows \in Nat
      /\ PnrRow /\ PnrSlot /\ HeadSlot /\ TailSlot
  BY LimitIs, Constants DEF RInv, PnrInv
<1>1. ASSUME thrown1' \/ thrown2'
      PROVE  \E w \in HeadVals' : ent'[rob_head', w].exc /\ \A v \in HeadVals' : w <= v
  <2>1. ExceptionThrown(stall) \/ thrown1
    BY <1>1, CycleIs
  <2>2. PICK w : FirstThrown(w)
    <3>1. CASE ExceptionThrown(stall)
      <4>1. PICK w \in Banks : Val(rob_head, w) /\ ent[rob_head, w].exc /\ \A v \in HeadVals : w <= v
        BY <3>1, ThrowIs
      <4>2. FirstThrown(w)
        BY <4>1 DEF FirstThrown, HeadVals
      <4> QED
        BY <4>2
    <3>2. CASE thrown1
      <4>1. PICK w \in HeadVals : ent[rob_head, w].exc /\ \A v \in HeadVals : w <= v
        BY <1>0, <3>2 DEF HeadSlot
      <4>2. FirstThrown(w)
        BY <4>1 DEF FirstThrown
      <4> QED
        BY <4>2
    <3> QED
      BY <2>1, <3>1, <3>2
  <2>3. w \in HeadVals' /\ HeadVals' \subseteq HeadVals /\ ent'[rob_head', w].exc
    BY <2>1, <2>2, FirstStays
  <2> QED
    BY <2>2, <2>3 DEF FirstThrown
<1>2. ASSUME rob_state' = "rollback"
      PROVE  rob_pnr_lsb' = rob_head_lsb' /\ (HeadVals' # {} => rob_head_lsb' \in HeadVals')
  <2>1. CASE rob_state = "rollback"
    <3>1. ~Empty
      BY <1>2, <2>1, StateNext
    <3>2. Moves(stall) = 0 /\ EnqValids(extra) = {} /\ ~b2.mispredict /\ b1.mis = {}
      <4>1. ~b2.mispredict /\ b1.pos = {}
        BY <2>1 DEF RInv, Control
      <4> QED
        BY <2>1, <4>1, HeadNext, FinishedIs, AddedLast, KilledIs DEF Mispredicted
    <3>3. HeadVals # {}
      <4>1. CASE rob_tail = rob_head /\ ~Full
        BY <3>1, <4>1 DEF Empty
      <4>2. CASE rob_tail # rob_head \/ Full
        <5>1. Limit \in Nat /\ Limit # 0
          <6>1. CASE Full
            BY <3>2, <6>1, LimitIs, Constants
          <6>2. CASE ~Full
            BY <1>0, <3>2, <4>2, <6>2, LimitIs, DistHead
          <6> QED
            BY <6>1, <6>2
        <5>2. Dist(rob_head) < Limit
          BY <1>0, <5>1, DistHead
        <5> QED
          BY <1>0, <5>2 DEF RInv, Shape, HeadVals
      <4> QED
        BY <4>1, <4>2
    <3>4. rob_pnr_lsb' = rob_pnr_lsb
      <4>1. Incs = 0 /\ ~SafeToInc
        BY <2>1 DEF Incs, SafeToInc
      <4>2. ~(Full /\ pnr_maybe_at_tail) \/ rob_pnr_lsb' = rob_pnr_lsb
        <5>1. ~pnr_maybe_at_tail
          BY <1>0, <2>1, PassedIs DEF PnrRow
        <5> QED
          BY <5>1
      <4> QED
        BY <1>0, <3>2, <4>1, <4>2, SlotIs
    <3>5. rob_pnr_lsb = rob_head_lsb /\ rob_head_lsb \in HeadVals
      BY <1>0, <2>1, <3>3 DEF HeadSlot
    <3>6. rob_head_lsb' = rob_head_lsb
      <4>1. PICK m : m = SetMin(HeadVals)
        OBVIOUS
      <4>2. rob_head_lsb' = m /\ m \in HeadVals /\ m <= rob_head_lsb /\ m \in Nat /\ rob_head_lsb \in Nat
        BY <3>2, <3>3, <3>5, <4>1, HeadRowNext
      <4>3. rob_head_lsb <= m
        BY <4>2, UnsafeIs
      <4>4. m = rob_head_lsb
        BY <4>2, <4>3
      <4> QED
        BY <4>2, <4>4
    <3>7. ASSUME HeadVals' # {} PROVE rob_head_lsb \in HeadVals'
      <4>1. PICK v \in HeadVals' : v \in Banks /\ <<rob_head, v>> \in Left(stall) \cup Added(extra)
        BY <3>2, <3>7, HeadRowNext
      <4>2. Added(extra) = {}
        BY <3>2 DEF Added
      <4>3. <<rob_head, v>> \in Left(stall)
        BY <4>1, <4>2
      <4>4. ~(RbkRow /\ rob_head = rob_tail)
        BY <4>3 DEF Left
      <4>5. PICK p \in Valid : p = <<rob_head, rob_head_lsb>> /\ p[1] = rob_head
        BY <3>2, <3>5, HeadRowNext
      <4>6. ~Killed(p) /\ WillCommit(stall) = {}
        BY <2>1, <3>2, QuietIs DEF Killed
      <4>7. p \in Left(stall)
        BY <4>4, <4>5, <4>6 DEF Left
      <4> QED
        BY <3>2, <3>5, <4>5, <4>7, HeadRowNext
    <3> QED
      BY <3>4, <3>5, <3>6, <3>7
  <2>2. CASE rob_state # "rollback"
    <3>1. thrown2
      BY <1>0, <1>2, <2>2, StateNext DEF TypeOK
    <3>2. PICK w : FirstThrown(w)
      <4>1. PICK w \in HeadVals : ent[rob_head, w].exc /\ \A v \in HeadVals : w <= v
        BY <1>0, <3>1 DEF HeadSlot
      <4>2. FirstThrown(w)
        BY <4>1 DEF FirstThrown
      <4> QED
        BY <4>2
    <3>3. Moves(stall) = 0 /\ rob_state = "normal" /\ w \in HeadVals' /\ rob_head_lsb' = w
      BY <3>1, <3>2, FirstStays
    <3>4. w \in HeadVals /\ w \in Banks /\ <<rob_head, w>> \in Valid /\ ent[rob_head, w].exc
          /\ Val(rob_head, w) /\ \A v \in HeadVals : w <= v
      BY <3>2, <3>3, HeadRowNext DEF FirstThrown, HeadVals
    <3>5. Passed = 0 /\ Incs = 0
      <4>1. PICK p \in Valid : p = <<rob_head, w>> /\ p[1] = rob_head
        BY <3>4
      <4>2. ent[p].exc
        BY <3>4, <4>1
      <4>3. ~(Dist(rob_head) < Passed + Incs)
        BY <1>0, <4>1, <4>2, SafeIs
      <4>4. Dist(rob_head) = 0 /\ Passed \in Nat /\ Incs \in {0, 1}
        BY <1>0, DistHead, PassedIs, PnrStep
      <4> QED
        BY <4>3, <4>4
    <3>6. rob_pnr = rob_head /\ ~pnr_maybe_at_tail
      BY <1>0, <3>5, PassedIs
    <3>7. w \in PnrUnsafe
      BY <3>4, <3>6 DEF PnrUnsafe
    <3>8. ~Empty /\ SafeToInc
      BY <3>3, <3>4 DEF Empty, SafeToInc
    <3>9. \A v \in PnrUnsafe : v \in HeadVals
      BY <3>6, UnsafeIs DEF HeadVals
    <3>10. ASSUME NEW S, S \subseteq Banks, w \in S, \A v \in S : w <= v
           PROVE  PriorityEncoder(S) = w
      <4>1. PICK m : m = PriorityEncoder(S)
        OBVIOUS
      <4>2. m \in S /\ m <= w /\ w <= m
        BY <3>10, <4>1, EncoderMin
      <4>3. m \in Nat /\ w \in Nat
        BY <3>10, <4>2, Constants
      <4>4. m = w
        BY <4>2, <4>3
      <4> QED
        BY <4>1, <4>4
    <3>11. PriorityEncoder(PnrUnsafe) = w
      <4>1. PnrUnsafe \subseteq Banks /\ \A v \in PnrUnsafe : w <= v
        BY <3>4, <3>9, UnsafeIs
      <4> QED
        BY <3>7, <3>10, <4>1
    <3>12. rob_pnr = rob_tail => PriorityEncoder(PnrUnsafe \cup FreeSlots) = w
      <4>1. ASSUME rob_pnr = rob_tail, NEW v \in PnrUnsafe \cup FreeSlots PROVE w <= v
        <5>1. CASE v \in PnrUnsafe
          BY <3>4, <3>9, <5>1
        <5>2. CASE v \in FreeSlots
          <6>1. Val(rob_tail, w)
            BY <3>4, <3>6, <4>1
          <6>2. w < v
            BY <3>4, <5>2, <6>1, UnsafeIs
          <6>3. w \in Nat /\ v \in Nat
            BY <3>4, <5>2, UnsafeIs, Constants
          <6> QED
            BY <6>2, <6>3
        <5> QED
          BY <4>1, <5>1, <5>2
      <4>2. PnrUnsafe \cup FreeSlots \subseteq Banks
        BY UnsafeIs
      <4>3. ASSUME rob_pnr = rob_tail PROVE \A v \in PnrUnsafe \cup FreeSlots : w <= v
        BY <4>1, <4>3
      <4> QED
        BY <3>7, <3>10, <4>2, <4>3
    <3>13. rob_pnr_lsb' = w
      BY <1>0, <3>5, <3>6, <3>8, <3>11, <3>12, SlotIs
    <3> QED
      BY <3>3, <3>13
  <2> QED
    BY <2>1, <2>2
<1> QED
  BY <1>1, <1>2 DEF HeadSlot

\* The slots that are dispatched end in front of the tail's next slot.
LEMMA LastEnq ==
    ASSUME RInv, NEW extra, NEW stall, NEW E, NEW R, NEW M, NEW lx,
           Clocked(extra, stall, E, R, M, lx), EnqValids(extra) # {}, Stalled(extra)
    PROVE  \E g \in EnqValids(extra) : /\ rob_tail' = rob_tail /\ rob_tail_lsb' = g + 1 /\ g \in Banks
                                       /\ \A v \in EnqValids(extra) : v <= g
                                       /\ \A v \in Banks : Val(rob_tail, v) => v < g
<1>0. TypeOK /\ rob_head \in Rows /\ rob_tail \in Rows /\ Valid \subseteq Spots
  BY LimitIs DEF RInv
<1>1. PICK enq : enq = EnqValids(extra) /\ enq \subseteq Banks
  BY <1>0, EnqIs
<1>2. enq \subseteq 0..(CoreWidth - 1) /\ CoreWidth - 1 \in Nat
  BY <1>1, Constants DEF Banks
<1>3. \E g \in enq : \A v \in enq : v <= g
  BY <1>1, <1>2, MaxIs
<1>4. PICK g : g = CHOOSE w \in enq : \A v \in enq : v <= w
  OBVIOUS
<1>5. g \in enq /\ \A v \in enq : v <= g
  BY <1>3, <1>4
<1>6. ~b2.mispredict /\ ~RollbackARow /\ rob_state = "normal" /\ ~RobEnq(enq, Stalled(extra))
  BY <1>1, AddedLast DEF RobEnq
<1>7. rob_tail' = rob_tail /\ rob_tail_lsb' = 1 + g
  BY <1>1, <1>4, <1>6, TailIs
<1>8. g \in Banks /\ g \in Nat
  BY <1>1, <1>5, Constants
<1>9. ASSUME NEW v \in Banks, Val(rob_tail, v) PROVE v < g
  <2>1. PICK p \in Spots : p = <<rob_tail, v>> /\ p[1] = rob_tail /\ p[2] = v
    BY <1>0, PairIs
  <2>2. PICK q \in Spots : q = <<rob_tail, g>> /\ q[1] = rob_tail /\ q[2] = g
    BY <1>0, <1>8, PairIs
  <2>3. p \in Valid /\ q \in Added(extra)
    BY <1>0, <1>1, <1>5, <1>9, <2>1, <2>2, AddedLast, ValidIs
  <2>4. Age(p) < Age(q)
    BY <2>3, AddedLast
  <2>5. Dist(rob_tail) < Dist(rob_tail) \/ (Dist(rob_tail) = Dist(rob_tail) /\ v < g)
    BY <1>0, <2>1, <2>2, <2>4, AgeIs
  <2>6. Dist(rob_tail) \in Nat
    BY <1>0, DistIs
  <2> QED
    BY <2>5, <2>6
<1> QED
  BY <1>1, <1>5, <1>7, <1>8, <1>9

\* The slot of the tail stays right.
LEMMA TailSlotNext ==
    ASSUME RInv, PnrInv, NEW extra, NEW stall, NEW E, NEW R, NEW M, NEW lx,
           Clocked(extra, stall, E, R, M, lx)
    PROVE  TailSlot'
<1>0. /\ TypeOK /\ rob_head \in Rows /\ rob_tail \in Rows /\ Valid \subseteq Spots /\ NumRows \in Nat
      /\ NumRows >= 2 /\ rob_head' \in Rows /\ TailSlot /\ Moves(stall) \in {0, 1} /\ rob_tail' \in Rows
  BY LimitIs, Constants, HeadNext, TailTypes DEF RInv, PnrInv
<1>1. b2'.mispredict <=> b1.mis # {}
  BY <1>0, RedirectNext DEF TypeOK
<1>2. Full' <=> rob_tail' = rob_head' /\ maybe_full'
  BY FullNext
<1>3. Moves(stall) = 1 <=> FinishedRow(stall)
  BY HeadNext
<1>4. EnqValids(extra) # {} => ~Full /\ b1.mis = {} /\ ~b2.mispredict /\ rob_state = "normal"
  BY AddedLast
<1>5. ASSUME b1.mis = {}, Full', rob_tail_lsb' # 0 PROVE FALSE
  <2>1. ~RollbackARow
    BY <1>2, <1>5, FullNext
  <2>2. ~RobEnq(EnqValids(extra), Stalled(extra)) /\ ~b2.mispredict
    BY <1>5, TailIs
  <2>3. ~FinishedRow(stall) /\ maybe_full
    BY <1>2, <1>5, <2>1, <2>2, FullNext
  <2>4. rob_tail' = rob_tail /\ rob_head' = rob_head
    BY <1>0, <1>3, <2>1, <2>2, <2>3, TailIs, HeadNext
  <2>5. Full
    BY <1>2, <1>5, <2>3, <2>4 DEF Full
  <2>6. EnqValids(extra) = {} /\ rob_state # "rollback"
    BY <1>4, <2>1, <2>3, <2>5 DEF RollbackARow
  <2>7. rob_tail_lsb' = rob_tail_lsb
    BY <2>1, <2>2, <2>6, TailIs
  <2> QED
    BY <1>0, <1>5, <2>2, <2>5, <2>7 DEF TailSlot
<1>6. ASSUME b1.mis = {}, ~Full', rob_state' # "rollback", NEW v \in Banks, Val(rob_tail, v)'
      PROVE  v < rob_tail_lsb'
  <2>1. PICK p \in Spots : p = <<rob_tail', v>> /\ p[1] = rob_tail' /\ p[2] = v
    BY <1>0, PairIs
  <2>2. p \in Left(stall) \cup Added(extra)
    <3>1. ent'[p].k # "none"
      BY <1>6, <2>1 DEF Val
    <3>2. p \in Valid'
      BY <1>0, <2>1, <3>1 DEF Valid, Spots
    <3> QED
      BY <3>2, ValNext
  <2>3. /\ rob_tail' = rob_tail /\ rob_state # "rollback" /\ ~b2.mispredict /\ ~Full
        /\ ~RobEnq(EnqValids(extra), Stalled(extra)) /\ ~RollbackARow
    BY <1>1, <1>6, <2>1, <2>2, TailRowNext
  <2>4. p \in Left(stall) => Val(rob_tail, v)
    BY <1>0, <2>1, <2>3, LeftIs, ValidIs
  <2>5. p \in Added(extra) => v \in EnqValids(extra)
    BY <2>1 DEF Added
  <2>6. CASE EnqValids(extra) = {}
    <3>1. rob_tail_lsb' = rob_tail_lsb
      BY <2>3, <2>6, TailIs
    <3>2. Val(rob_tail, v)
      BY <2>2, <2>4, <2>5, <2>6
    <3> QED
      BY <1>0, <2>3, <3>1, <3>2 DEF TailSlot
  <2>7. CASE EnqValids(extra) # {}
    <3>1. Stalled(extra)
      BY <2>3, <2>7 DEF RobEnq
    <3>2. PICK g \in Banks : /\ rob_tail_lsb' = g + 1 /\ \A u \in EnqValids(extra) : u <= g
                             /\ \A u \in Banks : Val(rob_tail, u) => u < g
      BY <2>7, <3>1, LastEnq
    <3>3. v < g \/ v <= g
      BY <2>2, <2>4, <2>5, <3>2
    <3>4. v \in Nat /\ g \in Nat
      BY Constants
    <3> QED
      BY <3>2, <3>3, <3>4
  <2> QED
    BY <2>6, <2>7
<1>7. ASSUME b1.mis # {}
      PROVE  /\ ~Full' => Dist(b2.pos[1])' <= Dist(rob_tail)'
             /\ Full' /\ rob_tail_lsb' # 0 => Dist(b2.pos[1])' = 0
  <2>1. PICK o \in Left(stall) : o = OldestMis /\ o \in Valid /\ o \in Spots
    BY <1>7, OldestIs
  <2>2. b2'.pos = o
    BY <1>7, <2>1, RedirectNext
  <2>3. o[1] \in Rows /\ Dist(o[1])' = Dist(o[1]) - Moves(stall) /\ Dist(o[1]) \in Nat /\ Moves(stall) <= Dist(o[1])
        /\ Dist(o[1]) < NumRows
    BY <1>0, HeadNext, DistIs
  <2>4. Dist(b2.pos[1])' = Dist(o[1])'
    BY <2>2 DEF Dist
  <2>5. PICK t \in Rows : t = rob_tail'
    BY <1>0
  <2>6. /\ Dist(t)' = IF Moves(stall) = 0 THEN Dist(t) ELSE IF Dist(t) = 0 THEN NumRows - 1 ELSE Dist(t) - 1
        /\ Dist(t) \in Nat /\ Dist(t) < NumRows
    BY <1>0, HeadNext, DistIs
  <2>7. Dist(rob_tail)' = Dist(t)'
    BY <2>5 DEF Dist
  <2>8. /\ EnqValids(extra) = {} /\ ~RollbackARow /\ rob_state = "normal" /\ maybe_full'
        /\ ~RobEnq(EnqValids(extra), Stalled(extra))
    BY <1>4, <1>7, OldestIs, FullNext DEF RobEnq
  <2>9. Full' <=> t = rob_head'
    BY <1>2, <2>5, <2>8
  <2>10. Moves(stall) = 0 => rob_head' = rob_head
    BY HeadNext
  <2>11. Moves(stall) = 0 /\ Dist(t) = 0 => Full'
    BY <1>0, <2>9, <2>10, DistHead
  <2>12. CASE b2.mispredict
    <3>1. PICK s \in Rows : s = b2.pos[1] /\ Limit = Dist(s) + 1
      BY <2>12, LimitIs, SpotIs
    <3>2. t = WrapInc(s) /\ rob_tail_lsb' = 0
      BY <2>5, <2>12, <3>1, TailIs
    <3>3. Dist(t) = (IF Dist(s) = NumRows - 1 THEN 0 ELSE Dist(s) + 1) /\ Dist(s) \in Nat
      BY <1>0, <3>1, <3>2, DistWrap, DistIs
    <3>4. Dist(o[1]) < Dist(s) + 1
      BY <2>1, <2>12, <3>1, LimitIs
    <3>5. ASSUME ~Full' PROVE Dist(o[1])' <= Dist(t)'
      BY <1>0, <2>3, <2>6, <2>11, <3>3, <3>4, <3>5
    <3> QED
      BY <2>4, <2>7, <3>2, <3>5
  <2>13. CASE ~b2.mispredict
    <3>1. t = rob_tail /\ rob_tail_lsb' = rob_tail_lsb
      BY <2>5, <2>8, <2>13, TailIs
    <3>2. ~Full => Limit = Dist(t) /\ Dist(o[1]) <= Dist(t)
      BY <2>1, <2>13, <3>1, LimitIs
    <3>3. Full => rob_tail_lsb = 0 /\ Dist(t) = 0
      BY <1>0, <2>13, <3>1, DistHead DEF TailSlot, Full
    <3>4. Moves(stall) = 1 /\ ~Full => Dist(t) # 0
      <4>1. Moves(stall) = 1 /\ ~Full => t # rob_head
        BY <1>3, <2>13, <3>1, FinishedIs
      <4> QED
        BY <1>0, <4>1, DistHead
    <3>5. ASSUME ~Full' PROVE Dist(o[1])' <= Dist(t)'
      BY <1>0, <2>3, <2>6, <2>11, <3>2, <3>3, <3>4, <3>5
    <3>6. ASSUME Full', rob_tail_lsb' # 0 PROVE Dist(o[1])' = 0
      <4>1. ~Full /\ Dist(o[1]) <= Dist(t)
        BY <3>1, <3>2, <3>3, <3>6
      <4>2. t = rob_head'
        BY <2>9, <3>6
      <4>3. Dist(t)' = 0
        <5>1. Dist(t)' = (t + NumRows - rob_head') % NumRows
          BY DEF Dist
        <5>2. Dist(t)' = NumRows % NumRows
          BY <1>0, <4>2, <5>1, Constants
        <5> QED
          BY <1>0, <5>2, ModIs
      <4> QED
        BY <1>0, <2>3, <2>6, <3>4, <4>1, <4>3
    <3> QED
      BY <2>4, <2>7, <3>5, <3>6
  <2> QED
    BY <2>12, <2>13
<1> QED
  BY <1>1, <1>5, <1>6, <1>7 DEF TailSlot

\* In the row of the head, the point of no return does not fall behind the head.
LEMMA PnrSlotHead ==
    ASSUME RInv, PnrInv, NEW extra, NEW stall, NEW E, NEW R, NEW M, NEW lx,
           Clocked(extra, stall, E, R, M, lx), Passed' = 0
    PROVE  rob_head_lsb' <= rob_pnr_lsb'
<1>0. /\ TypeOK /\ rob_head \in Rows /\ rob_tail \in Rows /\ Valid \subseteq Spots /\ NumRows \in Nat
      /\ PnrRow /\ PnrSlot /\ HeadSlot /\ Moves(stall) \in {0, 1} /\ CoreWidth \in Nat
  BY LimitIs, Constants, HeadNext DEF RInv, PnrInv
<1>1. rob_head_lsb' \in Nat /\ rob_pnr_lsb' \in Nat /\ rob_pnr_lsb' < CoreWidth /\ rob_head_lsb' < CoreWidth
  BY HeadTypes, PnrTypes, Constants
<1>2. rob_head_lsb' = IF FinishedRow(stall) \/ HeadVals = {} THEN 0 ELSE SetMin(HeadVals)
  BY CycleIs DEF HeadAfter
<1>3. CASE FinishedRow(stall) \/ HeadVals = {}
  BY <1>1, <1>2, <1>3
<1>4. CASE ~FinishedRow(stall) /\ HeadVals # {}
  <2>1. Moves(stall) = 0 /\ Passed = 0 /\ Incs = 0
    <3>1. Moves(stall) = 0
      BY <1>4 DEF Moves
    <3>2. Passed' = (Passed + Incs) - Moves(stall) /\ Passed \in Nat /\ Incs \in {0, 1}
      BY <1>0, PnrStep, PassedIs
    <3> QED
      BY <3>1, <3>2
  <2>2. rob_pnr = rob_head /\ ~pnr_maybe_at_tail /\ ~Empty
    BY <1>0, <1>4, <2>1, PassedIs DEF Empty
  <2>3. PICK m : m = SetMin(HeadVals)
    OBVIOUS
  <2>4. m \in HeadVals /\ m \in Nat /\ rob_head_lsb' = m /\ m \in Banks /\ Val(rob_head, m)
        /\ \A w \in HeadVals : m <= w
    <3>1. m \in HeadVals /\ rob_head_lsb' = m /\ \A w \in HeadVals : m <= w
      BY <1>2, <1>4, <2>1, <2>3, HeadRowNext
    <3> QED
      BY <3>1, Constants DEF HeadVals
  <2>5. \A w \in PnrUnsafe : m <= w
    BY <2>2, <2>4, UnsafeIs DEF HeadVals
  <2>6. rob_pnr = rob_tail => \A w \in FreeSlots : m < w
    BY <2>2, <2>4, UnsafeIs
  <2>7. CASE PnrUnsafe # {} /\ rob_pnr_lsb' = PriorityEncoder(PnrUnsafe)
    <3>1. rob_pnr_lsb' \in PnrUnsafe
      BY <2>7, EncoderMin, UnsafeIs
    <3> QED
      BY <2>4, <2>5, <3>1
  <2>8. CASE rob_pnr = rob_tail /\ rob_pnr_lsb' = PriorityEncoder(PnrUnsafe \cup FreeSlots)
    <3>1. CASE PnrUnsafe \cup FreeSlots = {}
      <4>1. rob_pnr_lsb' = CoreWidth - 1
        BY <2>8, <3>1 DEF PriorityEncoder
      <4> QED
        BY <1>0, <1>1, <4>1
    <3>2. CASE PnrUnsafe \cup FreeSlots # {}
      <4>1. PICK y : y = rob_pnr_lsb'
        OBVIOUS
      <4>2. y \in PnrUnsafe \cup FreeSlots
        BY <2>8, <3>2, <4>1, EncoderMin, UnsafeIs
      <4>3. m <= y \/ m < y
        BY <2>5, <2>6, <2>8, <4>2
      <4> QED
        BY <1>1, <2>4, <4>1, <4>3
    <3> QED
      BY <3>1, <3>2
  <2>9. CASE (SafeToInc => ~PnrBehind /\ Empty) /\ rob_pnr_lsb' = rob_pnr_lsb
    <3>1. rob_state \in {"reset", "rollback"}
      BY <1>0, <2>2, <2>9 DEF TypeOK, SafeToInc
    <3>2. rob_state # "reset"
      <4>1. <<rob_head, m>> \in Valid
        BY <1>0, <2>4, ValidIs
      <4> QED
        BY <4>1 DEF RInv, Control
    <3>3. rob_pnr_lsb = rob_head_lsb /\ rob_head_lsb \in HeadVals
      BY <1>0, <1>4, <3>1, <3>2 DEF HeadSlot
    <3> QED
      BY <2>4, <2>9, <3>3
  <2> QED
    BY <1>0, <2>1, <2>2, <2>7, <2>8, <2>9, SlotIs
<1> QED
  BY <1>3, <1>4

\* When all rows of a full ROB are passed, its slot is 0, like that of the tail.
LEMMA PnrSlotEnd ==
    ASSUME RInv, PnrInv, NEW extra, NEW stall, NEW E, NEW R, NEW M, NEW lx,
           Clocked(extra, stall, E, R, M, lx), Passed' = NumRows
    PROVE  rob_pnr_lsb' = 0
<1>0. /\ PnrRow /\ NumRows \in Nat /\ Moves(stall) \in {0, 1} /\ Passed \in Nat /\ Passed <= NumRows
      /\ Passed' = (Passed + Incs) - Moves(stall) /\ Incs \in {0, 1} /\ (Incs = 1 => Passed < NumRows)
  BY LimitIs, Constants, HeadNext, PnrStep, PassedIs DEF PnrInv
<1>1. CASE Incs = 1
  BY <1>0, <1>1, PnrStep
<1>2. CASE Incs = 0
  <2>1. Passed = NumRows
    BY <1>0, <1>2
  <2>2. Full /\ pnr_maybe_at_tail /\ rob_pnr = rob_head
    BY <1>0, <2>1, PassedIs
  <2>3. ~PnrBehind /\ ~Empty
    BY <1>0, <2>1, <2>2, BehindIs, EmptyIs
  <2>4. rob_pnr_lsb = 0
    BY <2>1 DEF PnrInv, PnrSlot
  <2> QED
    BY <1>0, <1>2, <2>2, <2>3, <2>4, SlotIs
<1> QED
  BY <1>0, <1>1, <1>2

\* The point of no return does not reach a tail that moves on.
LEMMA TailMoves ==
    ASSUME RInv, PnrInv, NEW extra, NEW stall, NEW E, NEW R, NEW M, NEW lx,
           Clocked(extra, stall, E, R, M, lx), rob_pnr' = rob_tail', ~Full' \/ rob_tail_lsb' # 0,
           RobEnq(EnqValids(extra), Stalled(extra)) \/ b2.mispredict
    PROVE  rob_pnr_lsb' = 0
<1>0. /\ PnrRow /\ NumRows \in Nat /\ NumRows >= 2 /\ Moves(stall) \in {0, 1} /\ Passed \in Nat /\ Passed <= Limit
      /\ Passed' = (Passed + Incs) - Moves(stall) /\ Incs \in {0, 1} /\ (Incs = 1 => Passed < Limit)
      /\ Limit \in Nat /\ rob_head \in Rows
  BY LimitIs, Constants, HeadNext, PnrStep, PassedIs DEF PnrInv
<1>1. rob_tail_lsb' = 0 /\ ~Full'
  BY TailIs
<1>2. CASE Incs = 1
  BY <1>0, <1>2, PnrStep
<1>3. CASE Incs = 0
  <2>1. (PnrRow)'
    BY <1>0, PnrRowNext
  <2>2. Passed' = Dist(rob_tail)' \/ Passed' = NumRows
    BY DEF Passed, Dist
  <2>3. CASE b1.mis = {}
    <3>1. Limit' = (Limit + Grows(extra)) - Moves(stall)
      BY <2>3, LimitNext
    <3>2. ~b2'.mispredict
      BY <2>3, RedirectNext
    <3>3. Limit' = Dist(rob_tail)'
      BY <1>1, <3>2 DEF Limit
    <3>4. RobEnq(EnqValids(extra), Stalled(extra)) => Grows(extra) = 1
      BY DEF Grows
    <3>5. Limit' <= NumRows
      BY <1>0, <3>1, LimitNext
    <3>6. Passed' # NumRows
      <4>1. CASE Passed' = NumRows
        <5>1. Passed = NumRows /\ Moves(stall) = 0
          BY <1>0, <1>3, <4>1, PassedIs
        <5>2. Full /\ ~b2.mispredict
          BY <1>0, <5>1, PassedIs
        <5> QED
          BY <5>2, TailIs
      <4> QED
        BY <4>1
    <3>7. Passed' = Limit'
      BY <2>2, <3>3, <3>6
    <3>8. CASE RobEnq(EnqValids(extra), Stalled(extra))
      BY <1>0, <1>3, <3>1, <3>4, <3>7, <3>8
    <3>9. CASE b2.mispredict
      <4>1. Grows(extra) = 0
        BY <3>9, TailIs DEF Grows
      <4>2. b2.pos[1] \in Rows /\ Limit = Dist(b2.pos[1]) + 1
        BY <3>9, LimitIs, SpotIs
      <4>3. Passed <= Dist(b2.pos[1]) /\ Dist(b2.pos[1]) \in Nat
        BY <1>0, <3>9, <4>2, DistIs DEF PnrRow
      <4> QED
        BY <1>0, <1>3, <3>1, <3>7, <4>1, <4>2, <4>3
    <3> QED
      BY <3>8, <3>9
  <2>4. CASE b1.mis # {}
    <3>1. b2.mispredict
      BY <2>4, TailIs
    <3>2. PICK s \in Rows : s = b2.pos[1] /\ Limit = Dist(s) + 1 /\ rob_tail' = WrapInc(s)
      BY <3>1, LimitIs, SpotIs, TailIs
    <3>3. PICK o \in Left(stall) : o = OldestMis /\ o \in Valid /\ o \in Spots
      BY <2>4, OldestIs
    <3>4. /\ o[1] \in Rows /\ Dist(o[1])' = Dist(o[1]) - Moves(stall) /\ Dist(o[1]) \in Nat
          /\ Dist(o[1]) < Dist(s) + 1 /\ Dist(s) \in Nat /\ Dist(s) < NumRows /\ Moves(stall) <= Dist(o[1])
      BY <1>0, <3>1, <3>2, <3>3, HeadNext, DistIs, LimitIs
    <3>5. b2'.pos = o /\ b2'.mispredict
      BY <2>4, <3>3, RedirectNext
    <3>6. Dist(b2.pos[1])' = Dist(o[1])'
      BY <3>5 DEF Dist
    <3>7. Passed' <= Dist(o[1])'
      BY <2>1, <3>5, <3>6 DEF PnrRow
    <3>8. PICK t \in Rows : t = rob_tail' /\ t = WrapInc(s)
      BY <3>2, WrapIncIs
    <3>9. /\ Dist(t)' = IF Moves(stall) = 0 THEN Dist(t) ELSE IF Dist(t) = 0 THEN NumRows - 1 ELSE Dist(t) - 1
          /\ Dist(t) = IF Dist(s) = NumRows - 1 THEN 0 ELSE Dist(s) + 1
      BY <1>0, <3>8, HeadNext, DistWrap
    <3>10. Dist(rob_tail)' = Dist(t)'
      BY <3>8 DEF Dist
    <3>11. ~(Moves(stall) = 0 /\ Dist(t) = 0)
      <4>1. ASSUME Moves(stall) = 0, Dist(t) = 0 PROVE FALSE
        <5>1. t = rob_head /\ rob_head' = rob_head
          BY <1>0, <4>1, DistHead, HeadNext
        <5>2. maybe_full'
          BY <2>4, FullNext
        <5> QED
          BY <1>1, <3>8, <5>1, <5>2, FullNext
      <4> QED
        BY <4>1
    <3>12. Passed' < NumRows
      BY <1>0, <3>4, <3>7
    <3>13. Passed' = Dist(t)'
      BY <1>0, <2>2, <3>10, <3>12
    <3>14. FALSE
      BY <1>0, <3>4, <3>7, <3>9, <3>11, <3>13
    <3> QED
      BY <3>14
  <2> QED
    BY <2>3, <2>4
<1> QED
  BY <1>0, <1>2, <1>3

\* In the row of the tail, it does not pass the tail.
LEMMA PnrSlotTail ==
    ASSUME RInv, PnrInv, NEW extra, NEW stall, NEW E, NEW R, NEW M, NEW lx,
           Clocked(extra, stall, E, R, M, lx), rob_pnr' = rob_tail', ~Full' \/ rob_tail_lsb' # 0
    PROVE  rob_pnr_lsb' <= rob_tail_lsb'
<1>0. /\ TypeOK /\ PnrRow /\ PnrSlot /\ HeadSlot /\ TailSlot /\ rob_head \in Rows /\ rob_tail \in Rows
      /\ Incs \in {0, 1} /\ Moves(stall) \in {0, 1} /\ CoreWidth \in Nat /\ NumRows \in Nat /\ NumRows >= 2
  BY LimitIs, HeadNext, PnrStep, Constants DEF RInv, PnrInv
<1>1. rob_tail_lsb' \in Nat /\ rob_pnr_lsb' \in Nat /\ rob_pnr_lsb' < CoreWidth /\ rob_tail_lsb' < CoreWidth
  BY TailTypes, PnrTypes, Constants
<1>2. CASE Incs = 1
  <2>1. rob_pnr_lsb' = 0
    BY <1>0, <1>2, PnrStep
  <2> QED
    BY <1>1, <2>1
<1>3. CASE RobEnq(EnqValids(extra), Stalled(extra)) \/ b2.mispredict
  <2>1. rob_pnr_lsb' = 0
    BY <1>3, TailMoves
  <2> QED
    BY <1>1, <2>1
<1>4. CASE RollbackARow
  <2>1. rob_tail_lsb' = CoreWidth - 1
    BY <1>4, TailIs
  <2> QED
    BY <1>0, <1>1, <2>1
<1>5. CASE /\ Incs = 0 /\ ~RollbackARow
           /\ ~RobEnq(EnqValids(extra), Stalled(extra)) /\ ~b2.mispredict
  <2>1. rob_tail' = rob_tail /\ rob_pnr' = rob_pnr /\ rob_pnr = rob_tail
    BY <1>0, <1>5, TailIs, PnrStep
  <2>2. CASE rob_state = "rollback"
    <3>1. rob_tail_lsb' = rob_head_lsb /\ rob_pnr_lsb = rob_head_lsb
      BY <1>0, <1>5, <2>2, TailIs DEF HeadSlot
    <3>2. ~SafeToInc /\ ~pnr_maybe_at_tail /\ EnqValids(extra) = {}
      BY <1>0, <2>2, PassedIs, AddedLast DEF SafeToInc, PnrRow
    <3>3. rob_pnr_lsb' = rob_pnr_lsb
      BY <1>0, <1>5, <3>2, SlotIs
    <3> QED
      BY <1>1, <3>1, <3>3
  <2>3. CASE rob_state # "rollback" /\ EnqValids(extra) # {}
    <3>1. Stalled(extra)
      BY <1>5, <2>3 DEF RobEnq, RollbackARow
    <3>2. PICK g \in Banks : /\ rob_tail_lsb' = g + 1 /\ \A v \in EnqValids(extra) : v <= g
                             /\ \A v \in Banks : Val(rob_tail, v) => v < g
      BY <2>3, <3>1, LastEnq
    <3>3. g \in Nat
      BY Constants
    <3>4. CASE Empty
      <4>1. PICK enq : enq = EnqValids(extra) /\ enq \subseteq Nat
        BY <1>0, EnqIs, Constants
      <4>2. rob_pnr_lsb' = SetMin(enq)
        BY <2>3, <3>4, <4>1, CycleIs DEF PnrAfter
      <4>3. rob_pnr_lsb' <= g
        BY <2>3, <3>2, <4>1, <4>2, MinIs
      <4> QED
        BY <1>1, <3>2, <3>3, <4>3
    <3>5. CASE ~Empty
      <4>1. ~Full /\ rob_state = "normal" /\ ~PnrBehind
        BY <2>1, <2>3, AddedLast DEF PnrBehind
      <4>2. rob_pnr_lsb' = PriorityEncoder(PnrUnsafe \cup FreeSlots)
        BY <1>0, <1>5, <3>5, <4>1, SlotIs DEF SafeToInc
      <4>3. g \in FreeSlots
        <5>1. ASSUME NEW v \in g..(CoreWidth - 1), Val(rob_tail, v) PROVE FALSE
          <6>1. v \in Banks /\ v \in Nat /\ g <= v
            BY <1>0, <3>3, <5>1 DEF Banks
          <6>2. v < g
            BY <3>2, <5>1, <6>1
          <6> QED
            BY <3>3, <6>1, <6>2
        <5> QED
          BY <5>1 DEF FreeSlots
      <4>4. rob_pnr_lsb' <= g
        BY <4>2, <4>3, EncoderMin, UnsafeIs
      <4> QED
        BY <1>1, <3>2, <3>3, <4>4
    <3> QED
      BY <3>4, <3>5
  <2>4. CASE rob_state # "rollback" /\ EnqValids(extra) = {}
    <3>1. rob_tail_lsb' = rob_tail_lsb
      BY <1>5, <2>4, TailIs
    <3>2. CASE Full /\ ~pnr_maybe_at_tail
      <4>1. rob_tail_lsb = 0 /\ rob_tail = rob_head /\ maybe_full
        BY <1>0, <1>5, <3>2 DEF TailSlot, Full
      <4>2. ~Full'
        BY <3>1, <4>1
      <4>3. FinishedRow(stall)
        <5>1. ASSUME ~FinishedRow(stall) PROVE FALSE
          <6>1. maybe_full'
            BY <1>5, <4>1, <5>1, FullNext
          <6>2. rob_head' = rob_head
            BY <1>0, <5>1, HeadNext
          <6> QED
            BY <2>1, <4>1, <4>2, <6>1, <6>2, FullNext
        <5> QED
          BY <5>1
      <4>4. Passed = 0
        <5>1. Passed < NumRows
          BY <1>0, <3>2, PassedIs
        <5> QED
          BY <1>0, <2>1, <4>1, <5>1, PassedIs, DistHead
      <4>5. Moves(stall) = 1
        BY <4>3, HeadNext
      <4>6. Passed + Incs >= 1
        BY <1>0, <4>5, PnrStep
      <4> QED
        BY <1>5, <4>4, <4>6
    <3>3. CASE Full /\ pnr_maybe_at_tail
      <4>1. rob_pnr_lsb' = 0
        <5>1. ~PnrBehind
          BY <2>1, <3>3 DEF PnrBehind
        <5>2. Passed = NumRows
          BY <1>0, <2>1, <3>3, PassedIs DEF Full
        <5>3. rob_pnr_lsb = 0
          BY <1>0, <5>2 DEF PnrSlot
        <5>4. ~Empty
          BY <3>3, EmptyIs
        <5> QED
          BY <1>0, <1>5, <3>3, <5>1, <5>3, <5>4, SlotIs
      <4> QED
        BY <1>1, <4>1
    <3>4. CASE ~Full
      <4>1. ~PnrBehind /\ rob_pnr_lsb <= rob_tail_lsb
        BY <1>0, <2>1, <3>4 DEF PnrBehind, PnrSlot
      <4>2. CASE rob_pnr_lsb' = rob_pnr_lsb
        BY <3>1, <4>1, <4>2
      <4>3. CASE SafeToInc /\ rob_pnr_lsb' = PriorityEncoder(PnrUnsafe \cup FreeSlots)
        <5>1. \A v \in Banks : Val(rob_tail, v) => v < rob_tail_lsb
          BY <1>0, <1>5, <2>4, <3>4 DEF TailSlot
        <5>2. rob_tail_lsb \in Banks /\ rob_tail_lsb \in Nat
          BY <1>0, Constants DEF TypeOK
        <5>3. rob_tail_lsb \in FreeSlots
          <6>1. ASSUME NEW v \in rob_tail_lsb..(CoreWidth - 1), Val(rob_tail, v) PROVE FALSE
            <7>1. v \in Banks /\ v \in Nat /\ rob_tail_lsb <= v
              BY <1>0, <5>2, <6>1 DEF Banks
            <7>2. v < rob_tail_lsb
              BY <5>1, <6>1, <7>1
            <7> QED
              BY <5>2, <7>1, <7>2
          <6> QED
            BY <5>2, <6>1 DEF FreeSlots
        <5>4. rob_pnr_lsb' <= rob_tail_lsb
          BY <4>3, <5>3, EncoderMin, UnsafeIs
        <5> QED
          BY <3>1, <5>4
      <4> QED
        BY <1>0, <1>5, <2>4, <3>4, <4>1, <4>2, <4>3, SlotIs
    <3> QED
      BY <3>2, <3>3, <3>4
  <2> QED
    BY <2>2, <2>3, <2>4
<1> QED
  BY <1>0, <1>2, <1>3, <1>4, <1>5

\* A cycle keeps the invariant of the point of no return.
LEMMA NextPnrInv ==
    ASSUME RInv, PnrInv, Next
    PROVE  PnrInv'
<1>1. PICK extra, stall, E, R, M, lx : Clocked(extra, stall, E, R, M, lx)
  BY NextIs
<1>2. PnrRow'
  BY <1>1, PnrRowNext DEF PnrInv
<1>3. PnrSlot'
  BY <1>1, PnrSlotHead, PnrSlotEnd, PnrSlotTail DEF PnrSlot
<1>4. HeadSlot' /\ TailSlot'
  BY <1>1, HeadSlotNext, TailSlotNext
<1> QED
  BY <1>2, <1>3, <1>4 DEF PnrInv

\* It holds after reset.
LEMMA InitPnrInv ==
    ASSUME Init
    PROVE  PnrInv
<1>1. RInv
  BY InitRInv
<1>2. /\ rob_state = "reset" /\ rob_head = 0 /\ rob_tail = 0 /\ rob_pnr = 0
      /\ rob_head_lsb = 0 /\ rob_tail_lsb = 0 /\ rob_pnr_lsb = 0 /\ ~maybe_full
      /\ ~thrown1 /\ ~thrown2 /\ ~b2.mispredict /\ ~pnr_maybe_at_tail
  BY DEF Init
<1>3. Valid = {}
  BY <1>1, <1>2 DEF RInv, Control
<1>4. rob_head \in Rows /\ ~Full /\ NumRows \in Nat /\ NumRows >= 2
  BY <1>1, <1>2, LimitIs, Constants DEF Full
<1>5. Passed = 0 /\ Limit = 0
  BY <1>2, <1>4, DistHead DEF Passed, Limit
<1>6. \A v \in Banks : ~Val(rob_tail, v)
  BY <1>1, <1>2, <1>3, <1>4, ValidIs DEF RInv
<1>7. PnrRow
  BY <1>2, <1>3, <1>4, <1>5 DEF PnrRow
<1>8. PnrSlot
  BY <1>2, <1>4, <1>5 DEF PnrSlot
<1>9. HeadSlot /\ TailSlot
  BY <1>2, <1>4, <1>6 DEF HeadSlot, TailSlot
<1> QED
  BY <1>7, <1>8, <1>9 DEF PnrInv

\* A step in which nothing changes keeps it.
LEMMA StutterPnrInv ==
    ASSUME PnrInv, UNCHANGED vars
    PROVE  PnrInv'
<1>1. /\ ent' = ent /\ rob_state' = rob_state /\ thrown1' = thrown1 /\ thrown2' = thrown2
      /\ b2' = b2 /\ ptrs' = ptrs
  BY DEF vars
<1>2. /\ rob_head' = rob_head /\ rob_head_lsb' = rob_head_lsb /\ rob_tail' = rob_tail
      /\ rob_tail_lsb' = rob_tail_lsb /\ rob_pnr' = rob_pnr /\ rob_pnr_lsb' = rob_pnr_lsb
      /\ maybe_full' = maybe_full /\ pnr_maybe_at_tail' = pnr_maybe_at_tail
  BY <1>1 DEF ptrs
<1>3. PnrRow'
  BY <1>1, <1>2 DEF PnrInv, PnrRow, Passed, Limit, Dist, Full, Valid
<1>4. PnrSlot'
  BY <1>1, <1>2 DEF PnrInv, PnrSlot, Passed, Dist, Full
<1>5. HeadSlot'
  BY <1>1, <1>2 DEF PnrInv, HeadSlot, HeadVals, Val
<1>6. TailSlot'
  BY <1>1, <1>2 DEF PnrInv, TailSlot, Full, Dist, Val
<1> QED
  BY <1>3, <1>4, <1>5, <1>6 DEF PnrInv

\* The two assertions on the point of no return hold (rob.scala 749-752).
LEMMA PnrBetweenIs ==
    ASSUME RInv, PnrInv
    PROVE  PnrBetween
<1>0. /\ PnrRow /\ PnrSlot /\ TailSlot /\ NumRows \in Nat /\ NumRows >= 2
  BY Constants DEF PnrInv
<1>1. PICK h \in Rows, t \in Rows, p \in Rows, hl \in Banks, tl \in Banks, pl \in Banks :
          /\ h = rob_head /\ t = rob_tail /\ p = rob_pnr
          /\ hl = rob_head_lsb /\ tl = rob_tail_lsb /\ pl = rob_pnr_lsb
  BY DEF RInv, TypeOK
<1>2. /\ \A r \in Rows : r \in Nat /\ r < NumRows
      /\ hl \in Nat /\ tl \in Nat /\ pl \in Nat
  BY Constants
<1> DEFINE pn == Idx(p, pl)
           hd == Idx(h, hl)
           tt == Idx(t, tl)
<1>3. /\ pn \in Nat /\ hd \in Nat /\ tt \in Nat
      /\ pn < hd <=> p < h \/ (p = h /\ pl < hl)
      /\ pn < tt <=> p < t \/ (p = t /\ pl < tl)
      /\ hd < tt <=> h < t \/ (h = t /\ hl < tl)
      /\ tt < pn <=> t < p \/ (t = p /\ tl < pl)
      /\ tt < hd <=> t < h \/ (t = h /\ tl < hl)
  BY IdxIs
<1>4. p = t /\ pl = tl => pn = tt
  OBVIOUS
<1> HIDE DEF pn, hd, tt
<1>5. /\ IsOlder(pn, hd, tt) <=> (((pn < hd) # (pn < tt)) # (hd < tt))
      /\ IsOlder(tt, pn, hd) <=> (((tt < pn) # (tt < hd)) # (pn < hd))
  BY DEF IsOlder
<1>6. CASE ~Full
  <2>1. Passed <= Dist(t) /\ Dist(t) \in Nat /\ Dist(t) < NumRows /\ Passed \in Nat
    <3>1. Dist(t) \in Nat /\ Dist(t) < NumRows /\ Passed \in Nat
      BY <1>0, <1>1, DistIs, PassedIs
    <3>2. CASE b2.mispredict
      <4>1. b2.pos[1] \in Rows
        BY <3>2, LimitIs, SpotIs
      <4>2. Dist(b2.pos[1]) \in Nat
        BY <1>1, <4>1, DistIs
      <4>3. Passed <= Dist(b2.pos[1]) /\ Dist(b2.pos[1]) <= Dist(t)
        BY <1>0, <1>1, <1>6, <3>2 DEF PnrRow, TailSlot
      <4> QED
        BY <3>1, <4>2, <4>3
    <3>3. CASE ~b2.mispredict
      BY <1>0, <1>1, <1>6, <3>1, <3>3, LimitIs DEF PnrRow
    <3> QED
      BY <3>2, <3>3
  <2>2. Passed = Dist(p)
    BY <1>0, <1>1, <2>1, PassedIs
  <2>3. /\ Dist(p) = (IF p < h THEN (p - h) + NumRows ELSE p - h)
        /\ Dist(t) = (IF t < h THEN (t - h) + NumRows ELSE t - h)
    BY <1>1, DistIs
  <2>4. p = h => hl <= pl
    <3>1. p = h => Dist(p) = 0
      BY <1>1, DistHead
    <3> QED
      BY <1>0, <1>1, <2>2, <3>1 DEF PnrSlot
  <2>5. p = t => pl <= tl
    BY <1>0, <1>1, <1>6 DEF PnrSlot
  <2>6. Dist(p) <= Dist(t)
    BY <2>1, <2>2
  <2>7. p \in Nat /\ t \in Nat /\ h \in Nat /\ p < NumRows /\ t < NumRows /\ h < NumRows
    BY <1>2
  <2>8. \/ h < p /\ p < t
        \/ p < t /\ t < h
        \/ t < h /\ h < p
        \/ p = h /\ p # t
        \/ p = t
    <3>1. CASE p < h /\ t < h
      BY <1>0, <2>3, <2>6, <2>7, <3>1
    <3>2. CASE p < h /\ ~(t < h)
      BY <1>0, <2>3, <2>6, <2>7, <3>2
    <3>3. CASE ~(p < h) /\ t < h
      BY <1>0, <2>3, <2>6, <2>7, <3>3
    <3>4. CASE ~(p < h) /\ ~(t < h)
      BY <1>0, <2>3, <2>6, <2>7, <3>4
    <3> QED
      BY <3>1, <3>2, <3>3, <3>4
  <2>9. ~IsOlder(pn, hd, tt) \/ (p = t /\ pl = tl)
    <3>1. CASE h < p /\ p < t
      BY <1>2, <1>3, <1>5, <2>7, <3>1
    <3>2. CASE p < t /\ t < h
      BY <1>2, <1>3, <1>5, <2>7, <3>2
    <3>3. CASE t < h /\ h < p
      BY <1>2, <1>3, <1>5, <2>7, <3>3
    <3>4. CASE p = h /\ p # t
      BY <1>2, <1>3, <1>5, <2>4, <2>7, <3>4
    <3>5. CASE p = t
      BY <1>2, <1>3, <1>5, <2>4, <2>5, <2>7, <3>5
    <3> QED
      BY <2>8, <3>1, <3>2, <3>3, <3>4, <3>5
  <2>10. ~IsOlder(tt, pn, hd)
    <3>1. CASE h < p /\ p < t
      BY <1>2, <1>3, <1>5, <2>7, <3>1
    <3>2. CASE p < t /\ t < h
      BY <1>2, <1>3, <1>5, <2>7, <3>2
    <3>3. CASE t < h /\ h < p
      BY <1>2, <1>3, <1>5, <2>7, <3>3
    <3>4. CASE p = h /\ p # t
      BY <1>2, <1>3, <1>5, <2>4, <2>7, <3>4
    <3>5. CASE p = t
      BY <1>2, <1>3, <1>5, <2>4, <2>5, <2>7, <3>5
    <3> QED
      BY <2>8, <3>1, <3>2, <3>3, <3>4, <3>5
  <2> QED
    BY <1>1, <1>4, <2>9, <2>10 DEF PnrBetween, HeadIdx, pn, hd, tt
<1>7. CASE Full
  <2>1. t = h
    BY <1>1, <1>7 DEF Full
  <2>2. ~b2.mispredict => tl = 0
    BY <1>0, <1>1, <1>7 DEF TailSlot
  <2>3. tl # 0 => Passed = 0
    <3>1. ASSUME tl # 0 PROVE Passed = 0
      <4>1. b2.mispredict /\ Dist(b2.pos[1]) = 0
        BY <1>0, <1>1, <1>7, <2>2, <3>1 DEF TailSlot
      <4>2. Passed <= 0 /\ Passed \in Nat
        BY <1>0, <4>1, PassedIs DEF PnrRow
      <4> QED
        BY <4>2
    <3> QED
      BY <3>1
  <2>4. p # h => tl = 0
    BY <1>0, <1>1, <2>3, PassedIs
  <2>5. p = h /\ Passed # 0 => pl = 0 /\ tl = 0
    <3>1. ASSUME p = h, Passed # 0 PROVE Passed = NumRows
      <4>1. Dist(p) = 0
        BY <1>1, <3>1, DistHead
      <4> QED
        BY <1>0, <1>1, <3>1, <4>1, PassedIs
    <3> QED
      BY <1>0, <1>1, <2>3, <3>1 DEF PnrSlot
  <2>6. Passed = 0 => hl <= pl /\ (tl # 0 /\ p = t => pl <= tl)
    BY <1>0, <1>1, <1>7 DEF PnrSlot
  <2>7. p \in Nat /\ t \in Nat /\ h \in Nat
    BY <1>2
  <2>8. ~IsOlder(pn, hd, tt) \/ (p = t /\ pl = tl)
    <3>1. CASE p # h
      BY <1>2, <1>3, <1>5, <2>1, <2>4, <2>7, <3>1
    <3>2. CASE p = h /\ Passed # 0
      BY <2>1, <2>5, <3>2
    <3>3. CASE p = h /\ Passed = 0
      BY <1>2, <1>3, <1>5, <2>1, <2>6, <2>7, <3>3
    <3> QED
      BY <3>1, <3>2, <3>3
  <2> QED
    BY <1>1, <1>4, <1>7, <2>8 DEF PnrBetween, HeadIdx, pn, hd, tt
<1> QED
  BY <1>6, <1>7

\* The ring is a queue in program order, dispatch never writes over an entry in use, and
\* the point of no return stays between head and tail (rob.scala 336, 685-797).
THEOREM RingRightHolds == Spec => []RingRight
<1>1. Init => RInv /\ PnrInv
  BY InitRInv, InitPnrInv
<1>2. RInv /\ PnrInv /\ [Next]_vars => RInv' /\ PnrInv'
  BY NextRInv, StutterRInv, NextPnrInv, StutterPnrInv
<1>3. RInv /\ PnrInv => RingRight
  BY NoOverwriteIs, PnrBetweenIs DEF RInv, RingRight
<1> QED
  BY <1>1, <1>2, <1>3, PTL DEF Spec
=============================================================================
