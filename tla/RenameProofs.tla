---------------------------- MODULE RenameProofs ----------------------------
(***************************************************************************)
(* Branch tags, branch masks, the map table, the operands, the free list   *)
(* and the busy table are right, for any width, any number of tags,        *)
(* registers and ROB entries, and any order of dispatch, resolution,       *)
(* misprediction, exception and rollback.                                  *)
(***************************************************************************)
EXTENDS Rename, FiniteSetTheorems, TLAPS

Uops == [k : {"op", "br", "xcpt"}, ldst : Lregs \cup {0}, lrs1 : Lregs,
         br_tag : Tags \cup {0}, br_mask : SUBSET Tags, prs1 : Pregs, stale_pdst : Pregs,
         pdst : Pregs, st : {"wait", "resolved", "done"}]

TypeOK ==
    /\ map_table \in [Lregs -> Pregs] /\ arch_map \in [Lregs -> Pregs]
    /\ br_snapshots \in [Tags -> [Lregs -> Pregs]]
    /\ br_alloc_lists \in [Tags -> SUBSET Pregs]
    /\ free_list \subseteq Pregs \ {0} /\ alloc_pregs \in [Slots -> Pregs]
    /\ busy_table \subseteq Pregs \ {0} /\ branch_mask \subseteq Tags
    /\ ren2 \in [Slots -> Uops \cup {NoUop}] /\ rob \in Seq(Uops)
    /\ b1 \in [res : SUBSET Tags, mis : SUBSET Tags]
    /\ b2 \in [mispredict : BOOLEAN, tag : Tags \cup {0}, br_mask : SUBSET Tags]
    /\ rstate \in {"normal", "x1", "x2", "rollback"}

Row == {w \in Slots : IsUop(ren2[w])}

\* Branches resolve only in normal operation, and redirects empty ren2.
Control ==
    /\ b1.mis \subseteq b1.res
    /\ b1.res # {} => rstate = "normal"
    /\ rstate # "normal" => Row = {}
    /\ b2.mispredict => Row = {} /\ rstate \in {"normal", "x1"} /\ b2.tag \in Tags
    /\ \A w \in Row : /\ ren2[w].st = "wait" /\ ren2[w].pdst = 0
                      /\ IsBr(ren2[w]) => ren2[w].br_tag \in Tags
    /\ \A j \in 1..Len(rob) : /\ rob[j].st = "resolved" => IsBr(rob[j])
                              /\ IsBr(rob[j]) => rob[j].br_tag \in Tags
                              /\ rob[j].k = "xcpt" => rob[j].st = "wait"

\* A branch holds its tag until the cycle in which it is resolved has passed.
Open(u) == IsBr(u) /\ u.st \in {"wait", "resolved"}
OpenTags(n) == {rob[i].br_tag : i \in {m \in 1..n : Open(rob[m])}}
RenTags(n)  == {ren2[v].br_tag : v \in {w \in 1..n : IsBr(ren2[w])}}

\* The mask of a uop is the tags held in front of it, and not its own.
Masks ==
    /\ \A j \in 1..Len(rob) : /\ rob[j].br_mask = OpenTags(j - 1)
                              /\ Open(rob[j]) => rob[j].br_tag \notin rob[j].br_mask
    /\ \A w \in Row : /\ ren2[w].br_mask = OpenTags(Len(rob)) \cup RenTags(w - 1)
                      /\ IsBr(ren2[w]) => ren2[w].br_tag \notin ren2[w].br_mask

\* What is resolved now is in the ROB.
Resolved ==
    /\ \A t \in b1.res : \E j \in 1..Len(rob) :
           IsBr(rob[j]) /\ rob[j].st = "resolved" /\ rob[j].br_tag = t
    /\ \A j \in 1..Len(rob) : rob[j].st = "resolved" => rob[j].br_tag \in b1.res

\* Decode knows every tag in use, and, once redirects have passed, no other.
MaskKnown ==
    /\ rstate = "normal" => OpenTags(Len(rob)) \cup RenTags(PlWidth) \subseteq branch_mask
    /\ rstate = "normal" /\ ~Redirecting =>
           branch_mask \subseteq OpenTags(Len(rob)) \cup RenTags(PlWidth)
    /\ rstate \in {"x2", "rollback"} => branch_mask = {}
    /\ b2.mispredict => b2.br_mask = OpenTags(Len(rob))

TInv == TypeOK /\ Control /\ Masks /\ Resolved /\ MaskKnown

-----------------------------------------------------------------------------
\* A set of numbers has a least element, a bounded one a greatest.
LEMMA LeastIs ==
    ASSUME NEW T, T \subseteq Nat, T # {}
    PROVE  Least(T) \in T /\ \A y \in T : Least(T) <= y
<1> DEFINE R == OpToRel(<, Nat)
<1>1. IsWellFoundedOn(R, Nat)
  BY NatLessThanWellFounded
<1>2. \A x, y \in Nat : x < y => <<x, y>> \in R
  BY DEF OpToRel
<1> HIDE DEF R
<1>3. PICK x \in T : \A y \in T : ~(<<y, x>> \in R)
  BY <1>1, WFMin
<1>4. ASSUME NEW y \in T PROVE x <= y
  <2>1. x \in Nat /\ y \in Nat
    OBVIOUS
  <2>2. ~(y < x)
    BY <2>1, <1>2, <1>3
  <2> QED
    BY <2>1, <2>2
<1> QED
  BY <1>4 DEF Least

\* A set of numbers with a bound has a greatest element.
LEMMA GreatestIs ==
    ASSUME NEW n \in Nat, NEW T, T \subseteq 0..n, T # {}
    PROVE  Greatest(T) \in T /\ \A y \in T : y <= Greatest(T)
<1> DEFINE U == {n - x : x \in T}
<1>1. U \subseteq Nat /\ U # {}
  <2>1. \A x \in T : n - x \in Nat
    <3>1. \A x \in 0..n : n - x \in Nat
      OBVIOUS
    <3> QED
      BY <3>1
  <2>2. PICK x \in T : TRUE
    OBVIOUS
  <2>3. n - x \in U
    BY <2>2
  <2> QED
    BY <2>1, <2>3
<1>2. PICK g \in T : Least(U) = n - g
  BY <1>1, LeastIs
<1>3. ASSUME NEW y \in T PROVE y <= g
  <2>1. n - g <= n - y
    BY <1>1, <1>2, LeastIs
  <2>2. n \in Nat /\ g \in Nat /\ y \in Nat
    OBVIOUS
  <2> QED
    BY <2>1, <2>2
<1> QED
  BY <1>3 DEF Greatest

-----------------------------------------------------------------------------
\* The elements of a finite set of numbers, counted from the lowest.
Below(S, x) == Cardinality({y \in S : y < x})

\* The rank of an element of a finite set is below its size and grows with the element.
LEMMA BelowIs ==
    ASSUME NEW S, S \subseteq Nat, IsFiniteSet(S), NEW x \in S
    PROVE  /\ x \in Nat /\ Cardinality(S) \in Nat
           /\ Below(S, x) \in Nat /\ Below(S, x) < Cardinality(S)
           /\ \A z \in S : x < z => Below(S, x) < Below(S, z)
<1>1. \A z \in S : {y \in S : y < z} \in SUBSET S /\ {y \in S : y < z} # S
  <2>1. \A z \in S : ~(z < z)
    OBVIOUS
  <2> QED
    BY <2>1
<1>2. /\ Cardinality(S) \in Nat
      /\ \A z \in S : /\ IsFiniteSet({y \in S : y < z}) /\ Below(S, z) \in Nat
                      /\ Below(S, z) <= Cardinality(S) /\ Below(S, z) # Cardinality(S)
  <2>1. ASSUME NEW z \in S
        PROVE  /\ IsFiniteSet({y \in S : y < z}) /\ Below(S, z) \in Nat
               /\ Below(S, z) <= Cardinality(S) /\ Below(S, z) # Cardinality(S)
    <3>1. {y \in S : y < z} \in SUBSET S /\ {y \in S : y < z} # S
      BY <1>1
    <3>2. /\ IsFiniteSet({y \in S : y < z})
          /\ Cardinality({y \in S : y < z}) <= Cardinality(S)
          /\ Cardinality({y \in S : y < z}) # Cardinality(S)
      BY <3>1, FS_Subset
    <3> QED
      BY <3>2, FS_CardinalityType DEF Below
  <2> QED
    BY <2>1, FS_CardinalityType
<1>3. ASSUME NEW z \in S, x < z PROVE Below(S, x) < Below(S, z)
  <2> DEFINE X == {y \in S : y < x}
             Z == {y \in S : y < z}
  <2>1. x \in Nat /\ z \in Nat /\ \A y \in S : y \in Nat
    OBVIOUS
  <2>2. \A y \in S : y < x => y < z
    BY <2>1, <1>3
  <2>3. X \in SUBSET Z /\ X # Z
    <3>1. x \in Z /\ x \notin X
      BY <2>1, <1>3
    <3> QED
      BY <2>2, <3>1
  <2>4. IsFiniteSet(Z) /\ Cardinality(Z) \in Nat /\ Cardinality(X) \in Nat
    BY <1>2 DEF Below
  <2> HIDE DEF X, Z
  <2>5. Cardinality(X) <= Cardinality(Z) /\ Cardinality(X) # Cardinality(Z)
    BY <2>3, <2>4, FS_Subset
  <2> QED
    BY <2>4, <2>5 DEF X, Z, Below
<1>4. Below(S, x) \in Nat /\ Cardinality(S) \in Nat /\ Below(S, x) < Cardinality(S)
  <2>1. /\ Below(S, x) \in Nat /\ Below(S, x) <= Cardinality(S) /\ Below(S, x) # Cardinality(S)
        /\ Cardinality(S) \in Nat
    BY <1>2
  <2> QED
    BY <2>1
<1> QED
  BY <1>3, <1>4

\* Nth, the priority selection, finds the element of its rank.
LEMMA NthIs ==
    ASSUME NEW S, S \subseteq Nat, IsFiniteSet(S), NEW n \in 1..Cardinality(S)
    PROVE  Nth(S, n) \in S /\ Below(S, Nth(S, n)) = n - 1
<1> DEFINE N == Cardinality(S)
           f == [x \in S |-> Below(S, x) + 1]
<1>1. N \in Nat /\ IsFiniteSet(1..N) /\ Cardinality(1..N) = N
  BY FS_CardinalityType, FS_Interval
<1>2. f \in Injection(S, 1..N)
  <2>1. ASSUME NEW x \in S PROVE Below(S, x) \in Nat /\ Below(S, x) + 1 \in 1..N
    <3>1. Below(S, x) \in Nat /\ Below(S, x) < N
      BY BelowIs
    <3> QED
      BY <1>1, <3>1
  <2>2. ASSUME NEW x \in S, NEW z \in S, f[x] = f[z] PROVE x = z
    <3>1. Below(S, x) + 1 = Below(S, z) + 1
      BY <2>2
    <3>2. Below(S, x) = Below(S, z) /\ Below(S, x) \in Nat
      BY <2>1, <3>1
    <3>3. x < z => Below(S, x) < Below(S, z)
      BY BelowIs
    <3>4. z < x => Below(S, z) < Below(S, x)
      BY BelowIs
    <3> QED
      BY <3>2, <3>3, <3>4
  <2>3. f \in [S -> 1..N]
    BY <2>1
  <2>4. \A x, z \in S : f[x] = f[z] => x = z
    BY <2>2
  <2> HIDE DEF f, N
  <2> QED
    BY <2>3, <2>4 DEF Injection, IsInjective
<1>3. f \in Surjection(S, 1..N)
  BY <1>1, <1>2, FS_Injection
<1>4. PICK x \in S : f[x] = n
  BY <1>3 DEF Surjection
<1>5. Below(S, x) = n - 1
  <2>1. Below(S, x) + 1 = n
    BY <1>4
  <2>2. Below(S, x) \in Nat
    BY BelowIs
  <2> QED
    BY <2>1, <2>2
<1>6. \E z \in S : Cardinality({y \in S : y < z}) = n - 1
  BY <1>5 DEF Below
<1> HIDE DEF f, N
<1> QED
  BY <1>6 DEF Nth, Below

\* They come in order, each of them once.
LEMMA NthOrder ==
    ASSUME NEW S, S \subseteq Nat, IsFiniteSet(S),
           NEW m \in 1..Cardinality(S), NEW n \in 1..Cardinality(S)
    PROVE  m < n <=> Nth(S, m) < Nth(S, n)
<1> DEFINE x == Nth(S, m)
           z == Nth(S, n)
<1>0. Cardinality(S) \in Nat
  BY FS_CardinalityType
<1>1. x \in S /\ z \in S /\ Below(S, x) = m - 1 /\ Below(S, z) = n - 1
  BY NthIs
<1>2. x \in Nat /\ z \in Nat /\ m \in Nat /\ n \in Nat
  <2>1. x \in Nat /\ z \in Nat
    BY <1>1
  <2>2. m \in Nat /\ n \in Nat
    BY <1>0
  <2> QED
    BY <2>1, <2>2
<1> HIDE DEF x, z
<1>3. (x < z => m - 1 < n - 1) /\ (z < x => n - 1 < m - 1)
  <2>1. x < z => Below(S, x) < Below(S, z)
    BY <1>1, BelowIs
  <2>2. z < x => Below(S, z) < Below(S, x)
    BY <1>1, BelowIs
  <2> QED
    BY <1>1, <2>1, <2>2
<1> QED
  <2>1. x < z <=> m < n
    <3>1. x = z => m - 1 = n - 1
      BY <1>1
    <3> QED
      BY <1>1, <1>2, <1>3, <3>1
  <2> QED
    BY <2>1 DEF x, z

\* Every element of a finite set is the Nth for its rank.
LEMMA NthOnto ==
    ASSUME NEW S, S \subseteq Nat, IsFiniteSet(S), NEW x \in S
    PROVE  \E n \in 1..Cardinality(S) : Nth(S, n) = x /\ n = Below(S, x) + 1
<1> DEFINE n == Below(S, x) + 1
<1>1. n \in 1..Cardinality(S) /\ Below(S, x) \in Nat /\ x \in Nat
  <2>1. x \in Nat /\ Below(S, x) \in Nat /\ Below(S, x) < Cardinality(S) /\ Cardinality(S) \in Nat
    BY BelowIs
  <2> QED
    BY <2>1
<1>2. Nth(S, n) \in S /\ Below(S, Nth(S, n)) = n - 1
  BY <1>1, NthIs
<1>3. Below(S, Nth(S, n)) = Below(S, x)
  BY <1>1, <1>2
<1> DEFINE z == Nth(S, n)
<1> HIDE DEF n, z
<1>4. z \in S /\ z \in Nat /\ Below(S, z) = Below(S, x)
  BY <1>2, <1>3 DEF z
<1>5. x < z => Below(S, x) < Below(S, z)
  BY <1>4, BelowIs
<1>6. z < x => Below(S, z) < Below(S, x)
  BY <1>4, BelowIs
<1>7. z = x
  BY <1>1, <1>4, <1>5, <1>6
<1> QED
  BY <1>1, <1>7 DEF z, n

-----------------------------------------------------------------------------
\* The choices of a clock cycle.
Clocked(B, extra, c, E, R, M) ==
    /\ B \in [Slots -> UopKinds \cup {NoUop}] /\ c \in CommitCounts
    /\ E \subseteq CanFinish /\ R \subseteq CanResolve /\ M \subseteq R
    /\ Cycle(B, extra, c, E, R, M)

\* What the sizes (plWidth, numPregs, maxBrCount) are good for.
LEMMA Constants ==
    /\ PlWidth \in Nat /\ PlWidth > 0 /\ 0 \in Pregs /\ Pregs \subseteq Nat
    /\ Tags \subseteq Nat /\ 0 \notin Tags /\ IsFiniteSet(Tags)
    /\ Slots \subseteq Nat /\ IsFiniteSet(Slots)
    /\ \A w \in Slots : 1..w \subseteq Slots /\ 1..(w - 1) \subseteq Slots
<1>1. PlWidth \in Nat /\ PlWidth > 0 /\ NumPregs \in Nat /\ NumPregs > 0 /\ MaxBrCount \in Nat
  BY RenameAssumption
<1>2. IsFiniteSet(Tags) /\ IsFiniteSet(Slots)
  BY <1>1, FS_Interval DEF Tags, Slots
<1> QED
  BY <1>1, <1>2 DEF Pregs, Tags, Slots

\* What is in the slots of ren2.
LEMMA RowIs ==
    ASSUME TypeOK
    PROVE  /\ Row \subseteq Slots /\ Row \subseteq Nat
           /\ \A w \in Row : ren2[w] \in Uops
           /\ \A w \in Slots : IsBr(ren2[w]) \/ Writes(ren2[w]) => w \in Row
<1>1. \A w \in Slots : ren2[w] \in Uops \/ ren2[w] = NoUop
  BY DEF TypeOK
<1>2. NoUop.k = "none"
  BY DEF NoUop
<1> QED
  BY <1>1, <1>2, Constants DEF Row, IsUop, IsBr, Writes

\* The slots that dispatch.
LEMMA FireIs ==
    ASSUME TypeOK, NEW extra
    PROVE  LET fire == DisFire(extra)
           IN  /\ fire \subseteq Row /\ fire \subseteq Slots /\ fire \subseteq Nat /\ IsFiniteSet(fire)
               /\ fire # {} => ~Redirecting /\ rstate = "normal"
               /\ \A w \in fire, v \in Row : v < w => v \in fire
               /\ \A w \in fire : Writes(ren2[w]) => alloc_pregs[w] # 0
               /\ DisReady(extra) => fire = Row
<1> DEFINE fire == DisFire(extra)
<1>1. /\ \A w \in fire : /\ w \in Slots /\ w \in Row /\ \A v \in 1..w : ~DisHazard(v, extra)
      /\ \A w \in Row : (\A v \in 1..w : ~DisHazard(v, extra)) => w \in fire
  BY DEF DisFire, Row
<1>2. \A w \in fire : w \in Nat /\ w \in 1..w /\ IsUop(ren2[w])
  BY <1>1 DEF Slots, Row
<1>3. \A w \in fire : /\ ~Redirecting /\ RobReady(w)
                      /\ Writes(ren2[w]) => alloc_pregs[w] # 0
  BY <1>1, <1>2 DEF DisHazard
<1>4. ASSUME NEW w \in fire, NEW v \in Row, v < w PROVE v \in fire
  <2>1. v \in Nat /\ w \in Nat
    BY <1>2, RowIs
  <2>2. 1..v \subseteq 1..w
    BY <2>1, <1>4
  <2> QED
    BY <1>1, <2>2
<1>5. DisReady(extra) => Row \subseteq fire
  <2>1. \A w \in Row : w \in Slots /\ 1..w \subseteq Slots
    BY RowIs, Constants
  <2> QED
    BY <1>1, <2>1 DEF DisReady
<1>6. IsFiniteSet(fire)
  <2>1. fire \in SUBSET Slots
    BY <1>1
  <2> QED
    BY <2>1, Constants, FS_Subset
<1>7. fire # {} => ~Redirecting /\ rstate = "normal"
  BY <1>3 DEF RobReady
<1>8. fire \subseteq Row /\ fire \subseteq Slots /\ fire \subseteq Nat
  BY <1>1, <1>2
<1> HIDE DEF fire
<1> QED
  BY <1>3, <1>4, <1>5, <1>6, <1>7, <1>8 DEF fire

\* A register of the bypass network.
LEMMA BypassIs ==
    ASSUME TypeOK, NEW old \in Pregs, NEW lreg, NEW S, S \subseteq Slots
    PROVE  /\ Bypass(old, lreg, S) \in Pregs
           /\ (\A v \in S : ren2[v].ldst # lreg) => Bypass(old, lreg, S) = old
           /\ \A y \in S : /\ ren2[y].ldst = lreg
                           /\ \A v \in S : v > y => ren2[v].ldst # lreg
                           => Bypass(old, lreg, S) = alloc_pregs[y]
<1> DEFINE hits == {v \in S : ren2[v].ldst = lreg}
<1>1. CASE hits = {}
  BY <1>1 DEF Bypass
<1>2. CASE hits # {}
  <2>1. PlWidth \in Nat /\ hits \subseteq 0..PlWidth
    <3>1. hits \subseteq Slots
      OBVIOUS
    <3> HIDE DEF hits
    <3>2. PlWidth \in Nat
      BY Constants
    <3>3. Slots \subseteq 0..PlWidth
      BY <3>2 DEF Slots
    <3> QED
      BY <3>1, <3>2, <3>3
  <2>2. Greatest(hits) \in hits /\ \A y \in hits : y <= Greatest(hits)
    BY <1>2, <2>1, GreatestIs
  <2>3. Bypass(old, lreg, S) = alloc_pregs[Greatest(hits)]
    BY <1>2 DEF Bypass
  <2> DEFINE g == Greatest(hits)
  <2>4. g \in S /\ ren2[g].ldst = lreg /\ g \in Nat
    BY <2>1, <2>2
  <2>5. alloc_pregs[g] \in Pregs
    BY <2>4 DEF TypeOK
  <2>6. ASSUME NEW y \in S, ren2[y].ldst = lreg, \A v \in S : v > y => ren2[v].ldst # lreg
        PROVE  y = g
    <3>1. y <= g /\ y \in Nat
      BY <2>1, <2>2, <2>6
    <3>2. ~(g > y)
      BY <2>4, <2>6
    <3> QED
      BY <2>4, <3>1, <3>2
  <2> HIDE DEF g
  <2>7. Bypass(old, lreg, S) = alloc_pregs[g]
    BY <2>3 DEF g
  <2> QED
    BY <2>4, <2>5, <2>6, <2>7
<1> QED
  BY <1>1, <1>2

\* What the bypasses change in a uop.
LEMMA BypassedIs ==
    ASSUME TypeOK, NEW u \in Uops, NEW S, S \subseteq Slots
    PROVE  LET b == Bypassed(u, S)
           IN  /\ b \in Uops
               /\ b.k = u.k /\ b.ldst = u.ldst /\ b.lrs1 = u.lrs1 /\ b.br_tag = u.br_tag
               /\ b.pdst = u.pdst /\ b.st = u.st
               /\ b.br_mask = u.br_mask \ b1.res
               /\ b.prs1 = Bypass(u.prs1, u.lrs1, S)
               /\ Writes(u) => b.stale_pdst = Bypass(u.stale_pdst, u.ldst, S)
<1>1. IsUop(u)
  BY DEF Uops, IsUop
<1>2. u = [k |-> u.k, ldst |-> u.ldst, lrs1 |-> u.lrs1, br_tag |-> u.br_tag,
           br_mask |-> u.br_mask, prs1 |-> u.prs1, stale_pdst |-> u.stale_pdst,
           pdst |-> u.pdst, st |-> u.st]
  BY DEF Uops
<1> DEFINE p == Bypass(u.prs1, u.lrs1, S)
           q == IF Writes(u) THEN Bypass(u.stale_pdst, u.ldst, S) ELSE u.stale_pdst
<1>3. /\ u.k \in {"op", "br", "xcpt"} /\ u.ldst \in Lregs \cup {0} /\ u.lrs1 \in Lregs
      /\ u.br_tag \in Tags \cup {0} /\ u.br_mask \in SUBSET Tags /\ u.prs1 \in Pregs
      /\ u.stale_pdst \in Pregs /\ u.pdst \in Pregs /\ u.st \in {"wait", "resolved", "done"}
  BY DEF Uops
<1>4. p \in Pregs /\ q \in Pregs
  BY <1>3, BypassIs
<1>5. Bypassed(u, S) = [u EXCEPT !.prs1 = p, !.stale_pdst = q, !.br_mask = u.br_mask \ b1.res]
  BY <1>1 DEF Bypassed
<1> HIDE DEF p, q
<1>6. Bypassed(u, S) = [k |-> u.k, ldst |-> u.ldst, lrs1 |-> u.lrs1, br_tag |-> u.br_tag,
                        br_mask |-> u.br_mask \ b1.res, prs1 |-> p, stale_pdst |-> q,
                        pdst |-> u.pdst, st |-> u.st]
  BY <1>2, <1>5
<1>7. Bypassed(u, S) \in Uops
  BY <1>3, <1>4, <1>6 DEF Uops
<1> QED
  BY <1>6, <1>7 DEF p, q

\* The slots whose registers are bypassed to slot w.
Older(fire, w) == {v \in AllocReqs(fire) : v < w}

\* What dispatches from a slot.
LEMMA DisUopIs ==
    ASSUME TypeOK, Control, NEW extra, NEW w \in DisFire(extra)
    PROVE  LET fire == DisFire(extra)
               d == DisUop(w, fire)
               u == ren2[w]
           IN  /\ d \in Uops
               /\ d.k = u.k /\ d.ldst = u.ldst /\ d.lrs1 = u.lrs1 /\ d.br_tag = u.br_tag
               /\ d.st = "wait" /\ d.br_mask = u.br_mask \ b1.res
               /\ d.pdst = (IF Writes(u) THEN alloc_pregs[w] ELSE 0)
               /\ d.prs1 = Bypass(u.prs1, u.lrs1, Older(fire, w))
               /\ Writes(u) =>
                      d.stale_pdst = Bypass(u.stale_pdst, u.ldst, Older(fire, w))
<1> DEFINE fire == DisFire(extra)
           S == Older(fire, w)
           u == ren2[w]
           b == Bypassed(u, S)
           p == IF Writes(u) THEN alloc_pregs[w] ELSE 0
<1>1. u \in Uops /\ u.st = "wait" /\ S \subseteq Slots /\ w \in Slots
  BY FireIs, RowIs DEF Control, AllocReqs, Older
<1>2. p \in Pregs
  BY <1>1, Constants DEF TypeOK
<1>3. DisUop(w, fire) = [b EXCEPT !.pdst = IF Writes(b) THEN alloc_pregs[w] ELSE 0]
  BY DEF DisUop, Older
<1> HIDE DEF S, fire, u
<1>4. /\ b \in Uops
      /\ b.k = u.k /\ b.ldst = u.ldst /\ b.lrs1 = u.lrs1 /\ b.br_tag = u.br_tag
      /\ b.st = u.st /\ b.br_mask = u.br_mask \ b1.res
      /\ b.prs1 = Bypass(u.prs1, u.lrs1, S)
      /\ Writes(u) => b.stale_pdst = Bypass(u.stale_pdst, u.ldst, S)
  BY <1>1, BypassedIs
<1>8. DisUop(w, fire) = [b EXCEPT !.pdst = p]
  BY <1>3, <1>4 DEF Writes
<1> HIDE DEF b, p
<1> DEFINE d == [b EXCEPT !.pdst = p]
<1>5. /\ d \in Uops /\ d.k = b.k /\ d.ldst = b.ldst /\ d.lrs1 = b.lrs1 /\ d.br_tag = b.br_tag
      /\ d.st = b.st /\ d.br_mask = b.br_mask /\ d.pdst = p /\ d.prs1 = b.prs1
      /\ d.stale_pdst = b.stale_pdst
  BY <1>2, <1>4 DEF Uops
<1> HIDE DEF d
<1>6. d = DisUop(w, fire)
  BY <1>8 DEF d
<1>7. /\ d \in Uops
      /\ d.k = u.k /\ d.ldst = u.ldst /\ d.lrs1 = u.lrs1 /\ d.br_tag = u.br_tag
      /\ d.st = "wait" /\ d.br_mask = u.br_mask \ b1.res /\ d.pdst = p
      /\ d.prs1 = Bypass(u.prs1, u.lrs1, S)
      /\ Writes(u) => d.stale_pdst = Bypass(u.stale_pdst, u.ldst, S)
  BY <1>1, <1>4, <1>5
<1> QED
  BY <1>6, <1>7 DEF fire, S, u, p

-----------------------------------------------------------------------------
\* Two branches that hold a tag hold different ones.
LEMMA TagsDiffer ==
    ASSUME TypeOK, Masks, NEW i \in 1..Len(rob), NEW j \in 1..Len(rob),
           Open(rob[i]), Open(rob[j]), rob[i].br_tag = rob[j].br_tag
    PROVE  i = j
<1>1. Len(rob) \in Nat
  BY DEF TypeOK
<1>2. ASSUME NEW a \in 1..Len(rob), NEW z \in 1..Len(rob), a < z, Open(rob[a]), Open(rob[z])
      PROVE  rob[a].br_tag # rob[z].br_tag
  <2>1. a \in 1..(z - 1)
    BY <1>1, <1>2
  <2>2. rob[a].br_tag \in OpenTags(z - 1)
    BY <1>2, <2>1 DEF OpenTags
  <2> QED
    BY <1>2, <2>2 DEF Masks
<1>3. ~(i < j) /\ ~(j < i)
  BY <1>2
<1> QED
  BY <1>1, <1>3

\* A tag in the mask of a uop is resolved now if and only if its branch is.
LEMMA ResolvedIs ==
    ASSUME TInv, NEW i \in 1..Len(rob), Open(rob[i])
    PROVE  rob[i].br_tag \in b1.res <=> rob[i].st = "resolved"
<1>1. ASSUME rob[i].br_tag \in b1.res PROVE rob[i].st = "resolved"
  <2>1. PICK j \in 1..Len(rob) :
            IsBr(rob[j]) /\ rob[j].st = "resolved" /\ rob[j].br_tag = rob[i].br_tag
    BY <1>1 DEF TInv, Resolved
  <2>2. Open(rob[j])
    BY <2>1 DEF Open
  <2>3. i = j
    BY <2>1, <2>2, TagsDiffer DEF TInv
  <2> QED
    BY <2>1, <2>3
<1>2. rob[i].st = "resolved" => rob[i].br_tag \in b1.res
  BY DEF TInv, Resolved
<1> QED
  BY <1>1, <1>2

\* A misprediction kills exactly what is behind the oldest branch that mispredicted.
MisSet == {j \in 1..Len(rob) : IsBr(rob[j]) /\ rob[j].br_tag \in b1.mis /\ rob[j].st = "resolved"}

\* A misprediction keeps a prefix of the ROB, which ends with its branch: every mask
\* behind it contains its tag (IsKilledByBranch in util.scala).
LEMMA SurvivorsAre ==
    ASSUME TInv
    PROVE  /\ Survivors \in 0..Len(rob) /\ Len(rob) \in Nat
           /\ \A j \in 1..Len(rob) : Killed(rob[j]) <=> j > Survivors
           /\ b1.mis = {} => Survivors = Len(rob)
           /\ b1.mis # {} => /\ Survivors \in MisSet /\ Survivors \in 1..Len(rob)
                             /\ OldestMis = rob[Survivors]
<1> DEFINE C == {n \in 0..Len(rob) : \A j \in (n + 1)..Len(rob) : Killed(rob[j])}
<1>1. Len(rob) \in Nat
  BY DEF TInv, TypeOK
<1>2. C \subseteq Nat /\ Len(rob) \in C
  <2>1. \A j : ~(j \in (Len(rob) + 1)..Len(rob))
    BY <1>1
  <2> QED
    BY <1>1, <2>1
<1>3. Survivors \in C /\ \A n \in C : Survivors <= n
  BY <1>2, LeastIs DEF Survivors
<1>4. ASSUME NEW s \in 0..Len(rob), \A j \in 1..Len(rob) : Killed(rob[j]) <=> j > s
      PROVE  Survivors = s
  <2>1. s \in C
    BY <1>1, <1>4
  <2>2. Survivors <= s /\ Survivors \in 0..Len(rob)
    BY <1>3, <2>1
  <2>3. ~(Survivors < s)
    <3>1. SUFFICES ASSUME Survivors < s PROVE FALSE
      OBVIOUS
    <3>2. s \in (Survivors + 1)..Len(rob) /\ s \in 1..Len(rob)
      BY <1>1, <2>2, <3>1
    <3>3. Killed(rob[s])
      BY <1>3, <3>2
    <3> QED
      BY <1>4, <3>2, <3>3
  <2> QED
    BY <1>1, <2>2, <2>3
<1> HIDE DEF C
<1>5. CASE b1.mis = {}
  <2>1. \A j \in 1..Len(rob) : ~Killed(rob[j]) /\ ~(j > Len(rob))
    BY <1>1, <1>5 DEF Killed
  <2>2. Survivors = Len(rob)
    BY <1>1, <1>4, <2>1
  <2> QED
    BY <1>1, <1>5, <2>1, <2>2
<1>6. CASE b1.mis # {}
  <2> DEFINE m == Least(MisSet)
  <2>1. MisSet \subseteq Nat /\ MisSet # {}
    <3>1. PICK t \in b1.mis : TRUE
      BY <1>6
    <3>2. t \in b1.res
      BY DEF TInv, Control
    <3>3. PICK j \in 1..Len(rob) : IsBr(rob[j]) /\ rob[j].st = "resolved" /\ rob[j].br_tag = t
      BY <3>2 DEF TInv, Resolved
    <3>4. j \in MisSet
      BY <3>3 DEF MisSet
    <3>5. MisSet \subseteq Nat
      BY DEF MisSet
    <3> QED
      BY <3>4, <3>5
  <2>2. m \in MisSet /\ \A j \in MisSet : m <= j
    BY <2>1, LeastIs
  <2> HIDE DEF m
  <2>3. /\ m \in 1..Len(rob) /\ Open(rob[m]) /\ rob[m].br_tag \in b1.mis
    BY <2>2 DEF MisSet, Open
  <2>4. ASSUME NEW j \in 1..Len(rob), j > m PROVE Killed(rob[j])
    <3>1. m \in 1..(j - 1)
      BY <1>1, <2>3, <2>4
    <3>2. rob[m].br_tag \in rob[j].br_mask
      BY <2>3, <3>1 DEF TInv, Masks, OpenTags
    <3> QED
      BY <2>3, <3>2 DEF Killed
  <2>5. ASSUME NEW j \in 1..Len(rob), Killed(rob[j]) PROVE j > m
    <3>1. PICK t \in b1.mis : t \in OpenTags(j - 1)
      BY <2>5 DEF Killed, TInv, Masks
    <3>2. PICK i \in 1..(j - 1) : Open(rob[i]) /\ rob[i].br_tag = t
      BY <3>1 DEF OpenTags
    <3>3. i \in 1..Len(rob) /\ i < j
      BY <1>1
    <3>4. t \in b1.res
      BY DEF TInv, Control
    <3>5. rob[i].st = "resolved"
      BY <3>2, <3>3, <3>4, ResolvedIs
    <3>6. i \in MisSet
      BY <3>2, <3>3, <3>5 DEF MisSet, Open
    <3>7. m <= i
      BY <2>2, <3>6
    <3> QED
      BY <1>1, <2>3, <3>3, <3>7
  <2>6. Survivors = m
    <3>1. m \in 0..Len(rob)
      BY <1>1, <2>3
    <3>2. \A j \in 1..Len(rob) : Killed(rob[j]) <=> j > m
      BY <2>4, <2>5
    <3> QED
      BY <1>4, <3>1, <3>2
  <2>7. OldestMis = rob[m]
    BY DEF OldestMis, MisSet, m
  <2>8. m \in 0..Len(rob)
    BY <1>1, <2>3
  <2> QED
    BY <1>1, <1>6, <2>2, <2>3, <2>4, <2>5, <2>6, <2>7, <2>8
<1> QED
  BY <1>5, <1>6

-----------------------------------------------------------------------------
\* Stretches and concatenations of queues.
LEMMA SubSeqIs ==
    ASSUME NEW S, NEW q \in Seq(S), NEW a \in Nat, NEW b \in Nat, a <= b, b <= Len(q)
    PROVE  /\ SubSeq(q, a + 1, b) \in Seq(S) /\ Len(SubSeq(q, a + 1, b)) = b - a
           /\ \A j \in 1..(b - a) : SubSeq(q, a + 1, b)[j] = q[j + a]
  OBVIOUS

\* The elements of a concatenation.
LEMMA ConcatIs ==
    ASSUME NEW S, NEW p \in Seq(S), NEW q \in Seq(S)
    PROVE  /\ p \o q \in Seq(S) /\ Len(p \o q) = Len(p) + Len(q)
           /\ \A j \in 1..Len(p) : (p \o q)[j] = p[j]
           /\ \A j \in 1..Len(q) : (p \o q)[Len(p) + j] = q[j]
  OBVIOUS

\* The entries of the ROB that stay, up to this index.
Kept == Survivors - RollbackCount

\* What stays of the ROB in a cycle is a prefix, of which the head may commit a part.
LEMMA KeptIs ==
    ASSUME TInv, NEW c \in CommitCounts
    PROVE  /\ Kept \in 0..Len(rob) /\ c \in 0..Kept /\ Len(rob) \in Nat
           /\ \A j \in 1..c : rob[j].st = "done"
           /\ \A j \in 1..Kept : ~Killed(rob[j])
           /\ rstate # "rollback" => Kept = Survivors
           /\ rstate = "rollback" => /\ c = 0 /\ Survivors = Len(rob)
                                     /\ RollbackCount \in 0..PlWidth
                                     /\ Kept = Len(rob) - RollbackCount
                                     /\ Kept > 0 => RollbackCount = PlWidth
<1>1. /\ Survivors \in 0..Len(rob) /\ Len(rob) \in Nat /\ PlWidth \in Nat
      /\ \A j \in 1..Len(rob) : Killed(rob[j]) <=> j > Survivors
      /\ b1.mis = {} => Survivors = Len(rob)
  BY SurvivorsAre, Constants
<1>2. /\ c \in Nat /\ c <= Len(rob) /\ (c > 0 => rstate = "normal")
      /\ \A j \in 1..c : rob[j].st = "done"
  BY Constants DEF CommitCounts
<1>3. CASE rstate = "rollback"
  <2>1. b1.mis = {} /\ c = 0
    BY <1>2, <1>3 DEF TInv, Control
  <2>2. /\ RollbackCount \in 0..PlWidth /\ RollbackCount <= Len(rob)
        /\ RollbackCount < Len(rob) => RollbackCount = PlWidth
    BY <1>1, <1>3 DEF RollbackCount
  <2>3. Kept = Len(rob) - RollbackCount /\ Kept \in 0..Len(rob) /\ RollbackCount \in Nat
    BY <1>1, <2>1, <2>2 DEF Kept
  <2>4. \A j \in 1..Kept : ~Killed(rob[j])
    BY <1>1, <2>1, <2>3
  <2> QED
    BY <1>1, <1>2, <1>3, <2>1, <2>2, <2>3, <2>4
<1>4. CASE rstate # "rollback"
  <2>1. RollbackCount = 0
    BY <1>4 DEF RollbackCount
  <2>2. Kept = Survivors
    BY <1>1, <2>1 DEF Kept
  <2>3. c <= Survivors
    <3>1. CASE c = 0
      BY <1>1, <3>1
    <3>2. CASE c > 0
      <4>1. c \in 1..c /\ c \in 1..Len(rob)
        BY <1>1, <1>2, <3>2
      <4>2. ~Killed(rob[c])
        <5>1. OpenTags(c - 1) = {}
          <6>1. \A i \in 1..(c - 1) : i \in 1..c
            BY <1>2
          <6>2. \A i \in 1..(c - 1) : ~Open(rob[i])
            BY <1>2, <6>1 DEF Open
          <6> QED
            BY <6>2 DEF OpenTags
        <5> QED
          BY <4>1, <5>1 DEF Killed, TInv, Masks
      <4> QED
        BY <1>1, <4>1, <4>2
    <3> QED
      BY <1>2, <3>1, <3>2
  <2>4. \A j \in 1..Kept : ~Killed(rob[j])
    BY <1>1, <2>2
  <2> QED
    BY <1>1, <1>2, <1>4, <2>2, <2>3, <2>4
<1> QED
  BY <1>3, <1>4

\* What execution changes in the ROB.
LEMMA ExecIs ==
    ASSUME TypeOK, NEW E, NEW R
    PROVE  LET q == RobExec(E, R)
           IN  /\ q \in Seq(Uops) /\ Len(q) = Len(rob)
               /\ \A j \in 1..Len(rob) :
                     /\ q[j].k = rob[j].k /\ q[j].ldst = rob[j].ldst /\ q[j].lrs1 = rob[j].lrs1
                     /\ q[j].br_tag = rob[j].br_tag /\ q[j].prs1 = rob[j].prs1
                     /\ q[j].stale_pdst = rob[j].stale_pdst /\ q[j].pdst = rob[j].pdst
                     /\ q[j].br_mask = rob[j].br_mask \ b1.res
                     /\ q[j].st = IF j \in E THEN "done" ELSE IF j \in R THEN "resolved"
                                  ELSE IF rob[j].st = "resolved" THEN "done" ELSE rob[j].st
<1> DEFINE q == RobExec(E, R)
           st(j) == IF j \in E THEN "done" ELSE IF j \in R THEN "resolved"
                    ELSE IF rob[j].st = "resolved" THEN "done" ELSE rob[j].st
           e(j) == [rob[j] EXCEPT !.br_mask = rob[j].br_mask \ b1.res, !.st = st(j)]
<1>1. rob \in Seq(Uops) /\ Len(rob) \in Nat /\ \A j \in 1..Len(rob) : rob[j] \in Uops
  BY DEF TypeOK
<1>2. q = [j \in 1..Len(rob) |-> e(j)]
  BY DEF RobExec
<1>3. ASSUME NEW j \in 1..Len(rob)
      PROVE  /\ e(j) \in Uops
             /\ e(j).k = rob[j].k /\ e(j).ldst = rob[j].ldst /\ e(j).lrs1 = rob[j].lrs1
             /\ e(j).br_tag = rob[j].br_tag /\ e(j).prs1 = rob[j].prs1
             /\ e(j).stale_pdst = rob[j].stale_pdst /\ e(j).pdst = rob[j].pdst
             /\ e(j).br_mask = rob[j].br_mask \ b1.res /\ e(j).st = st(j)
  <2> DEFINE u == rob[j]
             s == st(j)
             m == u.br_mask \ b1.res
             f == [u EXCEPT !.br_mask = m, !.st = s]
  <2>1. u \in Uops
    BY <1>1
  <2>2. s \in {"wait", "resolved", "done"} /\ m \in SUBSET Tags
    BY <2>1 DEF Uops
  <2>3. e(j) = f
    OBVIOUS
  <2> HIDE DEF u, s, m, e
  <2>4. /\ f \in Uops /\ f.k = u.k /\ f.ldst = u.ldst /\ f.lrs1 = u.lrs1 /\ f.br_tag = u.br_tag
        /\ f.prs1 = u.prs1 /\ f.stale_pdst = u.stale_pdst /\ f.pdst = u.pdst
        /\ f.br_mask = m /\ f.st = s
    BY <2>1, <2>2 DEF Uops
  <2> HIDE DEF f
  <2>5. /\ e(j) \in Uops
        /\ e(j).k = u.k /\ e(j).ldst = u.ldst /\ e(j).lrs1 = u.lrs1
        /\ e(j).br_tag = u.br_tag /\ e(j).prs1 = u.prs1
        /\ e(j).stale_pdst = u.stale_pdst /\ e(j).pdst = u.pdst
        /\ e(j).br_mask = m /\ e(j).st = s
    BY <2>3, <2>4
  <2> QED
    BY <2>5 DEF u, s, m
<1> HIDE DEF e, st
<1>4. q \in [1..Len(rob) -> Uops] /\ \A j \in 1..Len(rob) : q[j] = e(j)
  BY <1>2, <1>3
<1> HIDE DEF q
<1>5. q \in Seq(Uops) /\ Len(q) = Len(rob)
  BY <1>1, <1>4
<1>6. \A j \in 1..Len(rob) :
         /\ q[j].k = rob[j].k /\ q[j].ldst = rob[j].ldst /\ q[j].lrs1 = rob[j].lrs1
         /\ q[j].br_tag = rob[j].br_tag /\ q[j].prs1 = rob[j].prs1
         /\ q[j].stale_pdst = rob[j].stale_pdst /\ q[j].pdst = rob[j].pdst
         /\ q[j].br_mask = rob[j].br_mask \ b1.res /\ q[j].st = st(j)
  BY <1>3, <1>4
<1> QED
  BY <1>5, <1>6 DEF q, st

\* The ROB after a cycle: what stays, and what dispatches in the order of the slots.
LEMMA RobIs ==
    ASSUME TInv, NEW B, NEW extra, NEW c, NEW E, NEW R, NEW M, Clocked(B, extra, c, E, R, M)
    PROVE  LET fire == DisFire(extra)
               n == Cardinality(fire)
               k == Kept - c
           IN  /\ rob' \in Seq(Uops) /\ n \in Nat /\ k \in Nat /\ Len(rob') = k + n
               /\ \A j \in 1..k : j + c \in 1..Kept /\ rob'[j] = RobExec(E, R)[j + c]
               /\ \A i \in 1..n : rob'[k + i] = DisUop(Nth(fire, i), fire)
               /\ fire # {} => Kept = Len(rob)
               /\ fire = {} => n = 0
<1> DEFINE fire == DisFire(extra)
           n == Cardinality(fire)
           k == Kept - c
           q == RobExec(E, R)
           p == SubSeq(q, c + 1, Kept)
           d == [i \in 1..n |-> DisUop(Nth(fire, i), fire)]
<1>1. c \in CommitCounts /\ TypeOK /\ Control /\ rob' = p \o d
  BY DEF Clocked, Cycle, TInv, RobAfter, Kept
<1>2. /\ fire \subseteq Nat /\ IsFiniteSet(fire)
      /\ fire # {} => ~Redirecting /\ rstate = "normal"
  BY <1>1, FireIs
<1>3. n \in Nat /\ (fire = {} => n = 0)
  BY <1>2, FS_CardinalityType, FS_EmptySet
<1>4. Kept \in 0..Len(rob) /\ c \in 0..Kept /\ Len(rob) \in Nat
  BY <1>1, KeptIs
<1>5. k \in Nat /\ c \in Nat /\ Kept \in Nat /\ c <= Kept /\ Kept <= Len(rob)
      /\ \A j \in 1..k : j + c \in 1..Kept
  BY <1>4
<1>6. p \in Seq(Uops) /\ Len(p) = k /\ \A j \in 1..k : p[j] = q[j + c]
  <2>1. q \in Seq(Uops) /\ Len(q) = Len(rob)
    BY <1>1, ExecIs
  <2> HIDE DEF q
  <2> QED
    BY <1>5, <2>1, SubSeqIs
<1>7. d \in Seq(Uops) /\ Len(d) = n /\ \A i \in 1..n : d[i] = DisUop(Nth(fire, i), fire)
  <2>1. ASSUME NEW i \in 1..n PROVE DisUop(Nth(fire, i), fire) \in Uops
    <3>1. Nth(fire, i) \in fire
      BY <1>2, NthIs
    <3> QED
      BY <1>1, <3>1, DisUopIs
  <2>2. d \in [1..n -> Uops]
    BY <2>1
  <2> HIDE DEF n
  <2> QED
    BY <1>3, <2>2
<1>8. fire # {} => Kept = Len(rob)
  <2>1. fire # {} => b1.mis = {} /\ rstate # "rollback"
    BY <1>2 DEF Redirecting, Mispredicting
  <2> QED
    BY <1>1, <2>1, KeptIs, SurvivorsAre
<1> HIDE DEF p, d, k, n, fire, q
<1>9. /\ rob' \in Seq(Uops) /\ Len(rob') = k + n
      /\ \A j \in 1..k : rob'[j] = p[j]
      /\ \A i \in 1..n : rob'[k + i] = d[i]
  <2>1. p \in Seq(Uops) /\ d \in Seq(Uops) /\ Len(p) = k /\ Len(d) = n
    BY <1>6, <1>7
  <2>2. /\ p \o d \in Seq(Uops) /\ Len(p \o d) = Len(p) + Len(d)
        /\ \A j \in 1..Len(p) : (p \o d)[j] = p[j]
        /\ \A j \in 1..Len(d) : (p \o d)[Len(p) + j] = d[j]
    <3>1. PICK u : u = p
      OBVIOUS
    <3>2. PICK v : v = d
      OBVIOUS
    <3>3. u \in Seq(Uops) /\ v \in Seq(Uops)
      BY <2>1, <3>1, <3>2
    <3>4. /\ u \o v \in Seq(Uops) /\ Len(u \o v) = Len(u) + Len(v)
          /\ \A j \in 1..Len(u) : (u \o v)[j] = u[j]
          /\ \A j \in 1..Len(v) : (u \o v)[Len(u) + j] = v[j]
      BY <3>3, ConcatIs
    <3> QED
      BY <3>1, <3>2, <3>4
  <2>3. rob' = p \o d
    BY <1>1
  <2> HIDE DEF Uops
  <2> QED
    BY <2>1, <2>2, <2>3
<1> QED
  BY <1>3, <1>5, <1>6, <1>7, <1>8, <1>9 DEF k, n, fire, q

-----------------------------------------------------------------------------
\* Which entries that stay hold a tag after the cycle.
LEMMA OpenKept ==
    ASSUME TInv, NEW B, NEW extra, NEW c, NEW E, NEW R, NEW M, Clocked(B, extra, c, E, R, M),
           NEW i \in 1..(Kept - c)
    PROVE  /\ i + c \in 1..Len(rob)
           /\ rob'[i].br_tag = rob[i + c].br_tag /\ rob'[i].k = rob[i + c].k
           /\ rob'[i].br_mask = rob[i + c].br_mask \ b1.res
           /\ Open(rob'[i]) <=> IsBr(rob[i + c]) /\ rob[i + c].st = "wait"
           /\ rob'[i].st = "resolved" <=> i + c \in R
<1>1. /\ c \in CommitCounts /\ TypeOK /\ E \subseteq CanFinish /\ R \subseteq CanResolve
  BY DEF Clocked, TInv
<1>2. Kept \in 0..Len(rob) /\ Len(rob) \in Nat
  BY <1>1, KeptIs
<1>3. i + c \in 1..Kept /\ rob'[i] = RobExec(E, R)[i + c]
  BY RobIs
<1>4. i + c \in 1..Len(rob)
  BY <1>2, <1>3
<1> DEFINE u == rob[i + c]
<1>5. /\ rob'[i].br_tag = u.br_tag /\ rob'[i].k = u.k /\ rob'[i].br_mask = u.br_mask \ b1.res
      /\ rob'[i].st = IF i + c \in E THEN "done" ELSE IF i + c \in R THEN "resolved"
                      ELSE IF u.st = "resolved" THEN "done" ELSE u.st
  BY <1>1, <1>3, <1>4, ExecIs
<1>6. /\ i + c \in E => u.k = "op"
      /\ i + c \in R => u.k = "br" /\ u.st = "wait"
  BY <1>1 DEF CanFinish, CanResolve, IsBr
<1>7. u.st \in {"wait", "resolved", "done"}
  <2>1. u \in Uops
    BY <1>1, <1>4 DEF TypeOK
  <2> QED
    BY <2>1 DEF Uops
<1>8. rob'[i].st = "resolved" <=> i + c \in R
  BY <1>5, <1>6
<1>9. Open(rob'[i]) <=> IsBr(u) /\ u.st = "wait"
  BY <1>5, <1>6, <1>7 DEF Open, IsBr
<1> QED
  BY <1>4, <1>5, <1>8, <1>9

\* The tags held in front of an entry that stays, less those that are resolved.
LEMMA OpenTagsKept ==
    ASSUME TInv, NEW B, NEW extra, NEW c, NEW E, NEW R, NEW M, Clocked(B, extra, c, E, R, M),
           NEW n \in 0..(Kept - c)
    PROVE  OpenTags(n)' = OpenTags(n + c) \ b1.res
<1>1. /\ c \in CommitCounts /\ c \in Nat /\ Kept \in Nat /\ Kept <= Len(rob) /\ Len(rob) \in Nat
      /\ n \in Nat /\ n <= Kept - c
  BY KeptIs DEF Clocked
<1>2. ASSUME NEW t \in OpenTags(n)' PROVE t \in OpenTags(n + c) \ b1.res
  <2>1. PICK i \in 1..n : Open(rob'[i]) /\ rob'[i].br_tag = t
    BY DEF OpenTags
  <2>2. i \in 1..(Kept - c)
    BY <1>1
  <2>3. /\ i + c \in 1..Len(rob) /\ rob[i + c].br_tag = t
        /\ IsBr(rob[i + c]) /\ rob[i + c].st = "wait"
    BY <2>1, <2>2, OpenKept
  <2>4. Open(rob[i + c]) /\ t \notin b1.res
    BY <2>3, ResolvedIs DEF Open
  <2>5. i + c \in 1..(n + c)
    BY <1>1
  <2> QED
    BY <2>3, <2>4, <2>5 DEF OpenTags
<1>3. ASSUME NEW t \in OpenTags(n + c), t \notin b1.res PROVE t \in OpenTags(n)'
  <2>1. PICK m \in 1..(n + c) : Open(rob[m]) /\ rob[m].br_tag = t
    BY DEF OpenTags
  <2>2. m \in 1..Len(rob)
    BY <1>1
  <2>3. IsBr(rob[m]) /\ rob[m].st = "wait"
    BY <1>3, <2>1, <2>2, ResolvedIs DEF Open
  <2>4. ~(m <= c)
    <3>1. \A j \in 1..c : rob[j].st = "done"
      BY <1>1, KeptIs
    <3> QED
      BY <1>1, <2>3, <3>1
  <2>5. PICK i \in 1..n : m = i + c
    <3>1. m - c \in 1..n /\ m = (m - c) + c
      BY <1>1, <2>4
    <3> QED
      BY <3>1
  <2>6. i \in 1..(Kept - c)
    BY <1>1
  <2>7. Open(rob'[i]) /\ rob'[i].br_tag = t
    BY <2>1, <2>3, <2>5, <2>6, OpenKept
  <2> QED
    BY <2>7 DEF OpenTags
<1> QED
  BY <1>2, <1>3

\* The tags of the first n uops that dispatch.
FiredTags(fire, n) ==
    {ren2[v].br_tag : v \in {w \in fire : IsBr(ren2[w]) /\ Below(fire, w) < n}}

\* The tags held in front of an entry that is dispatched.
LEMMA OpenTagsFired ==
    ASSUME TInv, NEW B, NEW extra, NEW c, NEW E, NEW R, NEW M, Clocked(B, extra, c, E, R, M),
           NEW k, k = Kept - c, NEW n \in 0..Cardinality(DisFire(extra))
    PROVE  OpenTags(k + n)'
               = (OpenTags(Kept) \ b1.res) \cup FiredTags(DisFire(extra), n)
<1> DEFINE fire == DisFire(extra)
           N == Cardinality(fire)
<1>1. /\ c \in CommitCounts /\ c \in Nat /\ Kept \in Nat /\ k \in Nat /\ n \in Nat
      /\ n <= N /\ N \in Nat
  <2>1. c \in CommitCounts
    BY DEF Clocked
  <2>2. c \in Nat /\ Kept \in Nat
    BY <2>1, KeptIs
  <2>3. N \in Nat /\ k \in Nat
    BY RobIs
  <2> QED
    BY <2>1, <2>2, <2>3
<1>2. TypeOK /\ Control /\ fire \subseteq Nat /\ IsFiniteSet(fire)
  BY FireIs DEF TInv
<1>3. OpenTags(k)' = OpenTags(Kept) \ b1.res
  <2>1. k \in 0..(Kept - c) /\ k + c = Kept
    BY <1>1
  <2>2. OpenTags(k)' = OpenTags(k + c) \ b1.res
    BY <2>1, OpenTagsKept
  <2> QED
    BY <2>1, <2>2
<1>4. ASSUME NEW i \in 1..N
      PROVE  /\ rob'[k + i].br_tag = ren2[Nth(fire, i)].br_tag
             /\ Open(rob'[k + i]) <=> IsBr(ren2[Nth(fire, i)])
             /\ Nth(fire, i) \in fire /\ Below(fire, Nth(fire, i)) = i - 1
  <2>1. rob'[k + i] = DisUop(Nth(fire, i), fire)
    BY RobIs
  <2>2. Nth(fire, i) \in fire /\ Below(fire, Nth(fire, i)) = i - 1
    BY <1>2, NthIs
  <2>3. LET d == DisUop(Nth(fire, i), fire)
        IN  d.k = ren2[Nth(fire, i)].k /\ d.br_tag = ren2[Nth(fire, i)].br_tag /\ d.st = "wait"
    BY <1>2, <2>2, DisUopIs
  <2> QED
    BY <2>1, <2>2, <2>3 DEF Open, IsBr
<1>5. ASSUME NEW t \in OpenTags(k + n)' PROVE t \in OpenTags(k)' \cup FiredTags(fire, n)
  <2>1. PICK m \in 1..(k + n) : Open(rob'[m]) /\ rob'[m].br_tag = t
    BY DEF OpenTags
  <2>2. CASE m \in 1..k
    BY <2>1, <2>2 DEF OpenTags
  <2>3. CASE m \notin 1..k
    <3>1. PICK i \in 1..n : m = k + i
      <4>1. m - k \in 1..n /\ m = k + (m - k)
        BY <1>1, <2>3
      <4> QED
        BY <4>1
    <3>2. i \in 1..N
      BY <1>1
    <3> DEFINE v == Nth(fire, i)
    <3>3. /\ v \in fire /\ IsBr(ren2[v]) /\ ren2[v].br_tag = t /\ Below(fire, v) = i - 1
      BY <1>4, <2>1, <3>1, <3>2
    <3>4. i - 1 < n
      BY <1>1
    <3> HIDE DEF v, fire
    <3> QED
      BY <3>3, <3>4 DEF FiredTags
  <2> QED
    BY <2>2, <2>3
<1>6. ASSUME NEW t \in OpenTags(k)' \cup FiredTags(fire, n) PROVE t \in OpenTags(k + n)'
  <2>1. CASE t \in OpenTags(k)'
    <3>1. PICK m \in 1..k : Open(rob'[m]) /\ rob'[m].br_tag = t
      BY <2>1 DEF OpenTags
    <3>2. m \in 1..(k + n)
      BY <1>1
    <3> QED
      BY <3>1, <3>2 DEF OpenTags
  <2>2. CASE t \in FiredTags(fire, n)
    <3>1. PICK v \in fire : IsBr(ren2[v]) /\ Below(fire, v) < n /\ ren2[v].br_tag = t
      BY <2>2 DEF FiredTags
    <3>2. PICK i \in 1..N : Nth(fire, i) = v /\ i = Below(fire, v) + 1
      BY <1>2, NthOnto
    <3>3. Open(rob'[k + i]) /\ rob'[k + i].br_tag = t
      BY <1>4, <3>1, <3>2
    <3>4. Below(fire, v) \in Nat
      BY <1>2, BelowIs
    <3>5. k + i \in 1..(k + n)
      <4> HIDE DEF fire
      <4> QED
        BY <1>1, <3>1, <3>2, <3>4
    <3> QED
      BY <3>3, <3>5 DEF OpenTags
  <2> QED
    BY <1>6, <2>1, <2>2
<1> QED
  BY <1>3, <1>5, <1>6

-----------------------------------------------------------------------------
\* The branches that decode hands tags to.
LEMMA BelowMono ==
    ASSUME NEW S, S \subseteq Nat, IsFiniteSet(S), NEW a \in Nat, NEW b \in Nat
    PROVE  /\ Below(S, b) \in Nat /\ Below(S, b) <= Cardinality(S)
           /\ a <= b => Below(S, a) <= Below(S, b)
           /\ a \in S /\ a < b => Below(S, a) < Below(S, b)
<1> DEFINE X == {y \in S : y < a}
           Z == {y \in S : y < b}
<1>1. X \in SUBSET S /\ Z \in SUBSET S
  OBVIOUS
<1>2. /\ IsFiniteSet(X) /\ IsFiniteSet(Z) /\ Cardinality(Z) \in Nat /\ Cardinality(X) \in Nat
      /\ Cardinality(Z) <= Cardinality(S)
  <2> HIDE DEF X, Z
  <2>1. IsFiniteSet(X) /\ IsFiniteSet(Z) /\ Cardinality(Z) <= Cardinality(S)
    BY <1>1, FS_Subset
  <2> QED
    BY <2>1, FS_CardinalityType
<1>3. a <= b => X \in SUBSET Z
  <2>1. \A y \in S : y \in Nat
    OBVIOUS
  <2>2. \A y \in Nat : y < a /\ a <= b => y < b
    OBVIOUS
  <2> QED
    BY <2>1, <2>2
<1>4. a \in S /\ a < b => a \in Z /\ a \notin X
  OBVIOUS
<1> HIDE DEF X, Z
<1>5. a <= b => Cardinality(X) <= Cardinality(Z)
  BY <1>2, <1>3, FS_Subset
<1>6. a \in S /\ a < b => Cardinality(X) < Cardinality(Z)
  <2>1. SUFFICES ASSUME a \in S, a < b PROVE Cardinality(X) < Cardinality(Z)
    OBVIOUS
  <2>2. X \in SUBSET Z /\ X # Z
    BY <1>3, <1>4, <2>1
  <2>3. Cardinality(X) <= Cardinality(Z) /\ Cardinality(X) # Cardinality(Z)
    BY <1>2, <2>2, FS_Subset
  <2> QED
    BY <1>2, <2>3
<1> QED
  BY <1>2, <1>5, <1>6 DEF X, Z, Below

BranchSlots(B) == {v \in Slots : IsBr(B[v])}

\* The branches counted up to a slot are the rank of the slot among them.
LEMMA BranchSlotsAre ==
    ASSUME NEW B
    PROVE  /\ BranchSlots(B) \subseteq Nat /\ IsFiniteSet(BranchSlots(B))
           /\ \A w \in 1..(PlWidth + 1) : Branches(B, w - 1) = Below(BranchSlots(B), w)
           /\ \A w \in BranchSlots(B) : /\ Branches(B, w) = Below(BranchSlots(B), w) + 1
                                        /\ Branches(B, w) \in Nat
<1> DEFINE S == BranchSlots(B)
<1>1. S \in SUBSET Slots /\ S \subseteq Nat /\ IsFiniteSet(S) /\ PlWidth \in Nat
  <2>1. S \in SUBSET Slots
    BY DEF BranchSlots
  <2> QED
    BY <2>1, Constants, FS_Subset
<1>2. ASSUME NEW w \in 1..(PlWidth + 1) PROVE Branches(B, w - 1) = Below(S, w)
  <2>1. {v \in 1..(w - 1) : IsBr(B[v])} = {v \in S : v < w}
    <3>1. \A v : v \in 1..(w - 1) <=> v \in Slots /\ v < w
      BY <1>1 DEF Slots
    <3> QED
      BY <3>1 DEF BranchSlots
  <2> QED
    BY <2>1 DEF Branches, Below
<1>3. ASSUME NEW w \in S PROVE Branches(B, w) = Below(S, w) + 1 /\ Branches(B, w) \in Nat
  <2> DEFINE T == {v \in S : v < w}
  <2>1. w \in Slots /\ IsBr(B[w]) /\ w \in Nat
    BY <1>1 DEF BranchSlots
  <2>2. {v \in 1..w : IsBr(B[v])} = T \cup {w}
    <3>1. \A v : v \in 1..w <=> (v \in Slots /\ v < w) \/ v = w
      BY <1>1, <2>1 DEF Slots
    <3> QED
      BY <2>1, <3>1 DEF BranchSlots
  <2>3. T \in SUBSET S /\ w \notin T
    BY <2>1
  <2>4. IsFiniteSet(T) /\ Cardinality(T) \in Nat
    <3> HIDE DEF T, S
    <3> QED
      BY <1>1, <2>3, FS_Subset, FS_CardinalityType
  <2>5. Cardinality(T \cup {w}) = Cardinality(T) + 1
    <3> HIDE DEF T
    <3> QED
      BY <2>3, <2>4, FS_AddElement
  <2>6. Branches(B, w) = Cardinality(T \cup {w}) /\ Below(S, w) = Cardinality(T)
    BY <2>2 DEF Branches, Below
  <2> HIDE DEF T, S
  <2> QED
    BY <2>4, <2>5, <2>6
<1> QED
  BY <1>1, <1>2, <1>3

\* A branch of the bundle gets a tag of its own that is not in use.
LEMMA NewTagsAre ==
    ASSUME TypeOK, NEW B, \A w \in Slots : ~BranchMaskFull(B, w)
    PROVE  /\ \A w \in BranchSlots(B) : NewTag(Branches(B, w)) \in Tags \ branch_mask
           /\ \A v, w \in BranchSlots(B) :
                  v < w => NewTag(Branches(B, v)) # NewTag(Branches(B, w))
           /\ \A w \in 1..(PlWidth + 1) :
                  MaskBefore(B, w) = branch_mask \cup
                      {NewTag(Branches(B, v)) : v \in {x \in BranchSlots(B) : x < w}}
<1> DEFINE S == BranchSlots(B)
           F == Tags \ branch_mask
<1>1. /\ S \subseteq Slots /\ S \subseteq Nat /\ IsFiniteSet(S) /\ PlWidth \in Nat
      /\ \A w \in 1..(PlWidth + 1) : Branches(B, w - 1) = Below(S, w)
      /\ \A w \in S : Branches(B, w) = Below(S, w) + 1
  BY BranchSlotsAre, Constants DEF BranchSlots
<1>2. F \subseteq Nat /\ IsFiniteSet(F) /\ Cardinality(F) \in Nat
  <2>1. F \in SUBSET Tags
    OBVIOUS
  <2> HIDE DEF F
  <2>2. F \subseteq Nat /\ IsFiniteSet(F)
    BY <2>1, Constants, FS_Subset
  <2> QED
    BY <2>2, FS_CardinalityType
<1>3. ASSUME NEW w \in S
      PROVE  Branches(B, w) \in 1..Cardinality(F) /\ Below(S, w) \in Nat /\ w \in Nat
  <2>1. Below(S, w) \in Nat /\ w \in Nat
    BY <1>1, BelowMono
  <2>2. Branches(B, w) = Below(S, w) + 1
    BY <1>1
  <2>3. ~(Cardinality(F) < Branches(B, w))
    <3>1. w \in Slots /\ IsBr(B[w])
      BY DEF BranchSlots
    <3> QED
      BY <3>1 DEF BranchMaskFull
  <2> HIDE DEF F, S
  <2> QED
    BY <1>2, <2>1, <2>2, <2>3
<1> HIDE DEF F, S
<1>4. ASSUME NEW w \in S PROVE NewTag(Branches(B, w)) \in F
  <2>1. Branches(B, w) \in 1..Cardinality(F)
    BY <1>3
  <2>2. Nth(F, Branches(B, w)) \in F
    BY <1>2, <2>1, NthIs
  <2> QED
    BY <2>2 DEF NewTag, F
<1>5. ASSUME NEW v \in S, NEW w \in S, v < w
      PROVE  NewTag(Branches(B, v)) # NewTag(Branches(B, w))
  <2>1. /\ Branches(B, v) \in 1..Cardinality(F) /\ Branches(B, w) \in 1..Cardinality(F)
        /\ v \in Nat /\ w \in Nat
    BY <1>3
  <2>2. Below(S, v) < Below(S, w)
    BY <1>1, <1>5, <2>1, BelowMono
  <2>3. Branches(B, v) < Branches(B, w)
    BY <1>1, <1>3, <2>2
  <2>4. Nth(F, Branches(B, v)) < Nth(F, Branches(B, w))
    BY <1>2, <2>1, <2>3, NthOrder
  <2>5. Nth(F, Branches(B, v)) \in Nat
    BY <1>2, <2>1, NthIs
  <2>6. Nth(F, Branches(B, v)) # Nth(F, Branches(B, w))
    BY <2>4, <2>5
  <2> QED
    BY <2>6 DEF NewTag, F
<1>6. ASSUME NEW w \in 1..(PlWidth + 1)
      PROVE  {NewTag(n) : n \in 1..Branches(B, w - 1)}
                 = {NewTag(Branches(B, v)) : v \in {x \in S : x < w}}
  <2>0. w \in Nat /\ Branches(B, w - 1) = Below(S, w)
    BY <1>1
  <2>1. Below(S, w) \in Nat /\ Below(S, w) <= Cardinality(S) /\ Cardinality(S) \in Nat
    BY <1>1, <2>0, BelowMono, FS_CardinalityType
  <2>2. ASSUME NEW n \in 1..Below(S, w) PROVE \E v \in S : v < w /\ Branches(B, v) = n
    <3>1. n \in 1..Cardinality(S) /\ n \in Nat /\ n <= Below(S, w)
      BY <2>1
    <3>2. PICK v \in S : v = Nth(S, n) /\ Below(S, v) = n - 1
      BY <1>1, <3>1, NthIs
    <3>3. v \in Nat /\ Below(S, v) \in Nat
      BY <1>1, BelowMono
    <3>4. w <= v => Below(S, w) <= Below(S, v)
      BY <1>1, <2>0, <3>3, BelowMono
    <3>5. v < w
      BY <2>0, <2>1, <3>1, <3>2, <3>3, <3>4
    <3>6. Branches(B, v) = n
      BY <1>1, <3>1, <3>2
    <3> QED
      BY <3>5, <3>6
  <2>3. ASSUME NEW v \in S, v < w PROVE Branches(B, v) \in 1..Below(S, w)
    <3>1. v \in Nat /\ Below(S, v) \in Nat
      BY <1>1, BelowMono
    <3>2. Below(S, v) < Below(S, w)
      BY <1>1, <2>0, <2>3, <3>1, BelowMono
    <3>3. Branches(B, v) = Below(S, v) + 1
      BY <1>1
    <3> QED
      BY <2>1, <3>1, <3>2, <3>3
  <2> QED
    BY <2>0, <2>2, <2>3
<1>7. \A w \in 1..(PlWidth + 1) :
          MaskBefore(B, w) = branch_mask \cup {NewTag(Branches(B, v)) : v \in {x \in S : x < w}}
  BY <1>6 DEF MaskBefore
<1> QED
  BY <1>4, <1>5, <1>7 DEF F, S

-----------------------------------------------------------------------------
\* The tags in ren2 are in use, by nobody else, and are not being resolved.
LEMMA RenTagsFresh ==
    ASSUME TInv, NEW w \in Row, IsBr(ren2[w])
    PROVE  /\ ren2[w].br_tag \in Tags /\ ren2[w].br_tag \notin b1.res
           /\ ren2[w].br_tag \notin OpenTags(Len(rob))
           /\ \A v \in Row : v < w /\ IsBr(ren2[v]) => ren2[v].br_tag # ren2[w].br_tag
<1>1. ren2[w].br_tag \notin OpenTags(Len(rob)) \cup RenTags(w - 1) /\ ren2[w].br_tag \in Tags
  BY DEF TInv, Masks, Control
<1>2. b1.res \subseteq OpenTags(Len(rob))
  BY DEF TInv, Resolved, OpenTags, Open
<1>3. ASSUME NEW v \in Row, v < w, IsBr(ren2[v]) PROVE ren2[v].br_tag \in RenTags(w - 1)
  <2>1. v \in 1..(w - 1)
    BY <1>3 DEF Row, Slots
  <2> QED
    BY <1>3, <2>1 DEF RenTags
<1> QED
  BY <1>1, <1>2, <1>3

\* Without a redirect, nothing is killed and nothing rolled back.
LEMMA CalmIs ==
    ASSUME TInv, ~Redirecting, rstate = "normal"
    PROVE  Kept = Len(rob) /\ b1.mis = {} /\ ~b2.mispredict
<1>1. b1.mis = {} /\ ~b2.mispredict
  BY DEF Redirecting, Mispredicting
<1>2. Survivors = Len(rob) /\ Len(rob) \in Nat
  BY <1>1, SurvivorsAre
<1>3. RollbackCount = 0
  BY DEF RollbackCount
<1> QED
  BY <1>1, <1>2, <1>3 DEF Kept

\* The tags in front of a uop that dispatches are those of the ones that
\* dispatch before it.
LEMMA FiredIs ==
    ASSUME TInv, NEW extra
    PROVE  LET fire == DisFire(extra)
           IN  /\ \A w \in fire : FiredTags(fire, Below(fire, w)) = RenTags(w - 1)
               /\ FiredTags(fire, Cardinality(fire))
                      = {ren2[v].br_tag : v \in {x \in fire : IsBr(ren2[x])}}
<1> DEFINE fire == DisFire(extra)
<1>1. /\ fire \subseteq Row /\ fire \subseteq Nat /\ fire \subseteq Slots /\ IsFiniteSet(fire)
      /\ \A w \in fire, v \in Row : v < w => v \in fire
      /\ \A w \in Slots : IsBr(ren2[w]) => w \in Row
  BY FireIs, RowIs DEF TInv
<1> HIDE DEF fire
<1>2. ASSUME NEW w \in fire PROVE FiredTags(fire, Below(fire, w)) = RenTags(w - 1)
  <2>1. ASSUME NEW v \in fire PROVE Below(fire, v) < Below(fire, w) <=> v \in 1..(w - 1)
    <3>1. v \in Nat /\ w \in Nat /\ v > 0 /\ Below(fire, v) \in Nat /\ Below(fire, w) \in Nat
      <4>1. v \in 1..PlWidth /\ PlWidth \in Nat
        BY <1>1, Constants DEF Slots
      <4>2. v \in Nat /\ w \in Nat /\ v > 0
        BY <1>1, <4>1
      <4> QED
        BY <1>1, <4>2, BelowMono
    <3>2. v < w => Below(fire, v) < Below(fire, w)
      BY <1>1, <3>1, BelowMono
    <3>3. w <= v => Below(fire, w) <= Below(fire, v)
      BY <1>1, <3>1, BelowMono
    <3> QED
      BY <3>1, <3>2, <3>3
  <2>2. ASSUME NEW v \in 1..(w - 1), IsBr(ren2[v]) PROVE v \in fire
    <3>1. v \in Slots /\ v < w
      BY <1>1, Constants DEF Slots
    <3> QED
      BY <1>1, <2>2, <3>1
  <2> QED
    BY <2>1, <2>2 DEF FiredTags, RenTags
<1>3. \A v \in fire : Below(fire, v) < Cardinality(fire)
  BY <1>1, BelowIs
<1> QED
  BY <1>2, <1>3 DEF fire, FiredTags

\* The tags held in the whole of the next ROB.
LEMMA OpenTagsAll ==
    ASSUME TInv, NEW B, NEW extra, NEW c, NEW E, NEW R, NEW M, Clocked(B, extra, c, E, R, M)
    PROVE  OpenTags(Len(rob))' = (OpenTags(Kept) \ b1.res)
               \cup {ren2[v].br_tag : v \in {x \in DisFire(extra) : IsBr(ren2[x])}}
<1>1. PICK k : k = Kept - c
  OBVIOUS
<1>2. PICK n : n = Cardinality(DisFire(extra))
  OBVIOUS
<1>3. n \in 0..n /\ n \in Nat /\ Len(rob') = k + n
  <2>1. n \in Nat /\ Len(rob') = k + n
    BY <1>1, <1>2, RobIs
  <2> QED
    BY <2>1
<1>4. OpenTags(k + n)' = (OpenTags(Kept) \ b1.res) \cup FiredTags(DisFire(extra), n)
  BY <1>1, <1>2, <1>3, OpenTagsFired
<1>5. OpenTags(Len(rob))' = OpenTags(k + n)'
  BY <1>3 DEF OpenTags
<1> QED
  BY <1>2, <1>4, <1>5, FiredIs

\* The masks in the ROB after the cycle.
LEMMA RobMasks ==
    ASSUME TInv, NEW B, NEW extra, NEW c, NEW E, NEW R, NEW M, Clocked(B, extra, c, E, R, M),
           NEW j \in 1..Len(rob')
    PROVE  /\ rob'[j].br_mask = OpenTags(j - 1)'
           /\ Open(rob'[j]) => rob'[j].br_tag \notin rob'[j].br_mask
<1> DEFINE fire == DisFire(extra)
<1>0. PICK k : k = Kept - c
  OBVIOUS
<1>1. PICK n : n = Cardinality(fire)
  OBVIOUS
<1>2. /\ k \in Nat /\ n \in Nat /\ Len(rob') = k + n /\ c \in Nat /\ Kept \in Nat
      /\ Kept <= Len(rob) /\ Len(rob) \in Nat
  BY <1>0, <1>1, RobIs, KeptIs DEF Clocked
<1>3. CASE j \in 1..k
  <2>1. /\ j + c \in 1..Len(rob) /\ rob'[j].br_tag = rob[j + c].br_tag
        /\ rob'[j].br_mask = rob[j + c].br_mask \ b1.res
        /\ Open(rob'[j]) => Open(rob[j + c])
    BY <1>0, <1>3, OpenKept DEF Open
  <2>2. /\ rob[j + c].br_mask = OpenTags((j + c) - 1)
        /\ Open(rob[j + c]) => rob[j + c].br_tag \notin rob[j + c].br_mask
    <3>1. PICK m : m = j + c
      OBVIOUS
    <3>2. m \in 1..Len(rob)
      BY <2>1, <3>1
    <3>3. rob[m].br_mask = OpenTags(m - 1) /\ (Open(rob[m]) => rob[m].br_tag \notin rob[m].br_mask)
      BY <3>2 DEF TInv, Masks
    <3> QED
      BY <3>1, <3>3
  <2>3. OpenTags(j - 1)' = OpenTags((j - 1) + c) \ b1.res
    <3>1. j - 1 \in 0..(Kept - c)
      BY <1>0, <1>2, <1>3
    <3> QED
      BY <3>1, OpenTagsKept
  <2>4. (j - 1) + c = (j + c) - 1
    BY <1>2, <1>3
  <2> QED
    BY <2>1, <2>2, <2>3, <2>4
<1>4. CASE j \notin 1..k
  <2>1. PICK i \in 1..n : j = k + i
    <3>1. j - k \in 1..n /\ j = k + (j - k)
      BY <1>2, <1>4
    <3> QED
      BY <3>1
  <2>2. i - 1 \in 0..n /\ i \in 1..Cardinality(fire) /\ j - 1 = k + (i - 1)
    BY <1>1, <1>2, <2>1
  <2> DEFINE w == Nth(fire, i)
  <2>3. rob'[j] = DisUop(w, fire) /\ fire # {}
    <3>1. rob'[k + i] = DisUop(w, fire) /\ (fire = {} => n = 0)
      BY <1>0, <1>1, <2>1, RobIs
    <3>2. n # 0
      BY <1>2, <2>1
    <3> QED
      BY <2>1, <3>1, <3>2
  <2>4. w \in fire /\ Below(fire, w) = i - 1
    BY <2>2, FireIs, NthIs DEF TInv
  <2>5. /\ rob'[j].br_tag = ren2[w].br_tag /\ rob'[j].br_mask = ren2[w].br_mask \ b1.res
        /\ rob'[j].k = ren2[w].k
    <3>1. TypeOK /\ Control
      BY DEF TInv
    <3>2. LET d == DisUop(w, fire)
          IN  d.k = ren2[w].k /\ d.br_tag = ren2[w].br_tag /\ d.br_mask = ren2[w].br_mask \ b1.res
      BY <2>4, <3>1, DisUopIs
    <3> QED
      BY <2>3, <3>2
  <2>6. /\ w \in Row /\ ~Redirecting /\ rstate = "normal" /\ Kept = Len(rob)
    BY <2>3, <2>4, FireIs, CalmIs DEF TInv
  <2>7. OpenTags(k + (i - 1))' = (OpenTags(Kept) \ b1.res) \cup FiredTags(fire, i - 1)
    <3>1. i - 1 \in 0..Cardinality(fire)
      BY <1>1, <2>2
    <3> QED
      BY <1>0, <3>1, OpenTagsFired
  <2>8. FiredTags(fire, i - 1) = RenTags(w - 1)
    BY <2>4, FiredIs
  <2>9. ren2[w].br_mask = OpenTags(Len(rob)) \cup RenTags(w - 1)
    BY <2>6 DEF TInv, Masks
  <2>10. RenTags(w - 1) \cap b1.res = {}
    <3>1. ASSUME NEW v \in 1..(w - 1), IsBr(ren2[v]) PROVE ren2[v].br_tag \notin b1.res
      <4>1. v \in Slots
        BY <2>6, Constants DEF Row
      <4>2. v \in Row
        BY <3>1, <4>1, RowIs DEF TInv
      <4> QED
        BY <3>1, <4>2, RenTagsFresh
    <3> QED
      BY <3>1 DEF RenTags
  <2>11. Open(rob'[j]) => rob'[j].br_tag \notin rob'[j].br_mask
    <3>1. Open(rob'[j]) => IsBr(ren2[w])
      BY <2>5 DEF Open, IsBr
    <3>2. IsBr(ren2[w]) => ren2[w].br_tag \notin ren2[w].br_mask
      BY <2>6 DEF TInv, Masks
    <3> QED
      BY <2>5, <3>1, <3>2
  <2>12. OpenTags(j - 1)' = OpenTags(k + (i - 1))'
    BY <2>2
  <2> HIDE DEF w, fire
  <2> QED
    BY <2>5, <2>6, <2>7, <2>8, <2>9, <2>10, <2>11, <2>12
<1> QED
  BY <1>3, <1>4

-----------------------------------------------------------------------------
\* What is decoded, if anything.
LEMMA DecodeIs ==
    ASSUME TInv, NEW B, NEW extra, NEW c, NEW E, NEW R, NEW M, Clocked(B, extra, c, E, R, M),
           NEW x \in Slots, IsUop(B[x])
    PROVE  /\ DisReady(extra) /\ DisFire(extra) = Row /\ rstate = "normal" /\ ~Redirecting
           /\ branch_mask = OpenTags(Len(rob)) \cup RenTags(PlWidth)
           /\ \A w \in Slots : ~BranchMaskFull(B, w)
<1>1. CanDecode(B, extra)
  BY DEF Clocked, Cycle
<1>2. /\ DisReady(extra) /\ rstate = "normal" /\ ~Redirecting
      /\ \A w \in Slots : ~BranchMaskFull(B, w)
  BY <1>1 DEF CanDecode
<1>3. DisFire(extra) = Row
  BY <1>2, FireIs DEF TInv
<1> QED
  BY <1>2, <1>3 DEF TInv, MaskKnown

\* The uop that decode makes.
LEMMA DecUopIs ==
    ASSUME TInv, NEW B, NEW extra, NEW c, NEW E, NEW R, NEW M, Clocked(B, extra, c, E, R, M),
           NEW w \in Slots, IsUop(B[w])
    PROVE  LET d == DecUop(B, w)
           IN  /\ d \in Uops /\ d.k = B[w].k /\ d.ldst = B[w].ldst /\ d.lrs1 = B[w].lrs1
               /\ d.st = "wait" /\ d.pdst = 0 /\ d.br_mask = MaskBefore(B, w)
               /\ IsBr(d) => IsBr(B[w]) /\ d.br_tag = NewTag(Branches(B, w)) /\ d.br_tag \in Tags
               /\ d.prs1 = map_table[B[w].lrs1]
               /\ Writes(d) => Writes(B[w]) /\ d.stale_pdst = map_table[B[w].ldst]
<1> DEFINE u == B[w]
           t == IF IsBr(u) THEN NewTag(Branches(B, w)) ELSE 0
           m == MaskBefore(B, w)
           p == map_table[u.lrs1]
           s == IF Writes(u) THEN map_table[u.ldst] ELSE 0
           d == DecUop(B, w)
<1>1. u.k \in {"op", "br", "xcpt"} /\ u.ldst \in Lregs \cup {0} /\ u.lrs1 \in Lregs
  <2>1. u \in UopKinds
    <3>1. u \in UopKinds \/ u = NoUop
      BY DEF Clocked
    <3> QED
      BY <3>1 DEF IsUop, NoUop
  <2>2. (CHOOSE l \in Lregs : TRUE) \in Lregs
    BY RenameAssumption
  <2> QED
    BY <2>1, <2>2 DEF UopKinds
<1>2. \A x \in Slots : ~BranchMaskFull(B, x)
  BY DecodeIs
<1>3. /\ \A v \in BranchSlots(B) : NewTag(Branches(B, v)) \in Tags
      /\ m \subseteq Tags
  <2>1. \A v \in BranchSlots(B) : NewTag(Branches(B, v)) \in Tags \ branch_mask
    BY <1>2, NewTagsAre DEF TInv
  <2>2. w \in 1..(PlWidth + 1)
    BY Constants DEF Slots
  <2>3. m = branch_mask \cup {NewTag(Branches(B, v)) : v \in {x \in BranchSlots(B) : x < w}}
    BY <1>2, <2>2, NewTagsAre DEF TInv
  <2>4. branch_mask \subseteq Tags
    BY DEF TInv, TypeOK
  <2> HIDE DEF m
  <2> QED
    BY <2>1, <2>3, <2>4
<1>4. t \in Tags \cup {0} /\ (IsBr(u) => t = NewTag(Branches(B, w)) /\ t \in Tags)
  BY <1>3 DEF BranchSlots
<1>5. p \in Pregs /\ s \in Pregs /\ 0 \in Pregs /\ (Writes(u) => s = map_table[u.ldst])
  <2>1. map_table \in [Lregs -> Pregs]
    BY DEF TInv, TypeOK
  <2>2. Writes(u) => u.ldst \in Lregs
    BY <1>1 DEF Writes
  <2> QED
    BY <1>1, <2>1, <2>2, Constants
<1>6. d = [k |-> u.k, ldst |-> u.ldst, lrs1 |-> u.lrs1, br_tag |-> t, br_mask |-> m,
           prs1 |-> p, stale_pdst |-> s, pdst |-> 0, st |-> "wait"]
  BY DEF DecUop
<1> HIDE DEF t, m, p, s, u
<1>7. d \in Uops
  BY <1>1, <1>3, <1>4, <1>5, <1>6 DEF Uops
<1>8. /\ d.k = u.k /\ d.ldst = u.ldst /\ d.lrs1 = u.lrs1 /\ d.st = "wait" /\ d.pdst = 0
      /\ d.br_mask = m /\ d.br_tag = t /\ d.prs1 = p /\ d.stale_pdst = s
  BY <1>6
<1> HIDE DEF d
<1>9. (IsBr(d) <=> IsBr(u)) /\ (Writes(d) <=> Writes(u))
  BY <1>8 DEF IsBr, Writes
<1>10. /\ d \in Uops /\ d.k = u.k /\ d.ldst = u.ldst /\ d.lrs1 = u.lrs1
       /\ d.st = "wait" /\ d.pdst = 0 /\ d.br_mask = m
       /\ IsBr(d) => IsBr(u) /\ d.br_tag = NewTag(Branches(B, w)) /\ d.br_tag \in Tags
       /\ d.prs1 = p
       /\ Writes(d) => Writes(u) /\ d.stale_pdst = map_table[u.ldst]
  BY <1>4, <1>5, <1>7, <1>8, <1>9
<1> QED
  BY <1>10 DEF d, u, m, p

\* A slot of ren2 after the cycle: empty, decoded, or left over.
LEMMA Ren2Is ==
    ASSUME TInv, NEW B, NEW extra, NEW c, NEW E, NEW R, NEW M, Clocked(B, extra, c, E, R, M),
           NEW w \in Slots
    PROVE  LET fire == DisFire(extra)
               S == AllocReqs(fire)
           IN  \/ /\ ren2'[w] = NoUop
                  /\ Redirecting \/ (DisReady(extra) /\ ~IsUop(B[w]))
                                 \/ (~DisReady(extra) /\ (w \notin Row \/ w \in fire))
               \/ /\ ~Redirecting /\ DisReady(extra) /\ IsUop(B[w])
                  /\ ren2'[w] = Bypassed(DecUop(B, w), S)
               \/ /\ ~Redirecting /\ ~DisReady(extra) /\ w \in Row /\ w \notin fire
                  /\ ren2'[w] = Bypassed(ren2[w], S)
<1> DEFINE fire == DisFire(extra)
           S == AllocReqs(fire)
<1>1. ren2'[w] = IF Redirecting THEN NoUop
                 ELSE IF DisReady(extra) THEN Bypassed(DecUop(B, w), S)
                 ELSE IF w \in fire THEN NoUop ELSE Bypassed(ren2[w], S)
  BY DEF Clocked, Cycle
<1>2. Bypassed(NoUop, S) = NoUop
  BY DEF Bypassed, IsUop, NoUop
<1>3. ~IsUop(B[w]) => DecUop(B, w) = NoUop
  BY DEF DecUop
<1>4. w \notin Row => ren2[w] = NoUop
  <2>1. ren2[w] \in Uops \/ ren2[w] = NoUop
    BY DEF TInv, TypeOK
  <2>2. \A u \in Uops : IsUop(u)
    BY DEF Uops, IsUop
  <2> QED
    BY <2>1, <2>2 DEF Row
<1> HIDE DEF S, fire
<1>5. CASE Redirecting
  BY <1>1, <1>5 DEF fire, S
<1>6. CASE ~Redirecting /\ DisReady(extra)
  BY <1>1, <1>2, <1>3, <1>6 DEF fire, S
<1>7. CASE ~Redirecting /\ ~DisReady(extra)
  <2>1. CASE w \in fire
    BY <1>1, <1>7, <2>1 DEF fire
  <2>2. CASE w \notin fire /\ w \notin Row
    BY <1>1, <1>2, <1>4, <1>7, <2>2 DEF fire, S
  <2>3. CASE w \notin fire /\ w \in Row
    BY <1>1, <1>7, <2>3 DEF fire, S
  <2> QED
    BY <2>1, <2>2, <2>3
<1> QED
  BY <1>5, <1>6, <1>7

\* A uop of ren2 after the cycle.
LEMMA RowNext ==
    ASSUME TInv, NEW B, NEW extra, NEW c, NEW E, NEW R, NEW M, Clocked(B, extra, c, E, R, M),
           NEW w \in Slots, IsUop(ren2'[w])
    PROVE  LET u == ren2'[w]
           IN  /\ u \in Uops /\ u.st = "wait" /\ u.pdst = 0
               /\ IsBr(u) => u.br_tag \in Tags
               /\ rstate = "normal" /\ ~Redirecting
               /\ \/ /\ DisReady(extra) /\ IsUop(B[w])
                     /\ u.br_mask = MaskBefore(B, w) \ b1.res
                     /\ IsBr(u) => IsBr(B[w]) /\ u.br_tag = NewTag(Branches(B, w))
                  \/ /\ ~DisReady(extra) /\ w \in Row /\ w \notin DisFire(extra)
                     /\ u.br_mask = ren2[w].br_mask \ b1.res
                     /\ IsBr(u) => IsBr(ren2[w]) /\ u.br_tag = ren2[w].br_tag
<1> DEFINE fire == DisFire(extra)
           S == AllocReqs(fire)
           u == ren2'[w]
<1>1. S \subseteq Slots /\ TypeOK
  BY FireIs DEF AllocReqs, TInv
<1>2. u # NoUop
  BY DEF NoUop, IsUop
<1>3. CASE ~Redirecting /\ DisReady(extra) /\ IsUop(B[w]) /\ u = Bypassed(DecUop(B, w), S)
  <2>1. rstate = "normal"
    BY <1>3, DecodeIs
  <2> DEFINE d == DecUop(B, w)
  <2>2. /\ d \in Uops /\ d.st = "wait" /\ d.pdst = 0 /\ d.br_mask = MaskBefore(B, w)
        /\ IsBr(d) => IsBr(B[w]) /\ d.br_tag = NewTag(Branches(B, w)) /\ d.br_tag \in Tags
    BY <1>3, DecUopIs
  <2> HIDE DEF d, S
  <2>3. LET b == Bypassed(d, S)
        IN  /\ b \in Uops /\ b.k = d.k /\ b.br_tag = d.br_tag /\ b.pdst = d.pdst /\ b.st = d.st
            /\ b.br_mask = d.br_mask \ b1.res
    BY <1>1, <2>2, BypassedIs
  <2>4. u = Bypassed(d, S)
    BY <1>3 DEF d
  <2> HIDE DEF u
  <2>5. /\ u \in Uops /\ u.k = d.k /\ u.br_tag = d.br_tag /\ u.pdst = 0 /\ u.st = "wait"
        /\ u.br_mask = MaskBefore(B, w) \ b1.res
    BY <2>2, <2>3, <2>4
  <2>6. IsBr(u) => IsBr(B[w]) /\ u.br_tag = NewTag(Branches(B, w)) /\ u.br_tag \in Tags
    BY <2>2, <2>5 DEF IsBr
  <2> QED
    BY <1>3, <2>1, <2>5, <2>6 DEF u
<1>4. CASE /\ ~Redirecting /\ ~DisReady(extra) /\ w \in Row /\ w \notin fire
           /\ u = Bypassed(ren2[w], S)
  <2> DEFINE d == ren2[w]
  <2>1. /\ d \in Uops /\ d.st = "wait" /\ d.pdst = 0 /\ (IsBr(d) => d.br_tag \in Tags)
        /\ rstate = "normal"
    BY <1>1, <1>4, RowIs DEF TInv, Control
  <2> HIDE DEF d, S
  <2>2. LET b == Bypassed(d, S)
        IN  /\ b \in Uops /\ b.k = d.k /\ b.br_tag = d.br_tag /\ b.pdst = d.pdst /\ b.st = d.st
            /\ b.br_mask = d.br_mask \ b1.res
    BY <1>1, <2>1, BypassedIs
  <2>3. u = Bypassed(d, S)
    BY <1>4 DEF d
  <2> HIDE DEF u
  <2>4. /\ u \in Uops /\ u.k = d.k /\ u.br_tag = d.br_tag /\ u.pdst = 0 /\ u.st = "wait"
        /\ u.br_mask = d.br_mask \ b1.res
    BY <2>1, <2>2, <2>3
  <2>5. IsBr(u) => IsBr(d) /\ u.br_tag = d.br_tag /\ u.br_tag \in Tags
    BY <2>1, <2>4 DEF IsBr
  <2> QED
    BY <1>4, <2>1, <2>4, <2>5 DEF u, d, fire
<1> QED
  BY <1>2, <1>3, <1>4, Ren2Is

\* Where the branches of ren2 come from.
LEMMA BranchNext ==
    ASSUME TInv, NEW B, NEW extra, NEW c, NEW E, NEW R, NEW M, Clocked(B, extra, c, E, R, M),
           NEW w \in Slots
    PROVE  /\ IsBr(ren2'[w]) =>
                  /\ ~Redirecting /\ rstate = "normal"
                  /\ \/ /\ DisReady(extra) /\ IsBr(B[w])
                        /\ ren2'[w].br_tag = NewTag(Branches(B, w))
                     \/ /\ ~DisReady(extra) /\ w \in Row /\ w \notin DisFire(extra)
                        /\ IsBr(ren2[w]) /\ ren2'[w].br_tag = ren2[w].br_tag
           /\ ~Redirecting /\ DisReady(extra) /\ IsBr(B[w]) => IsBr(ren2'[w])
           /\ ~Redirecting /\ ~DisReady(extra) /\ w \in Row /\ w \notin DisFire(extra)
                  /\ IsBr(ren2[w]) => IsBr(ren2'[w])
<1> DEFINE S == AllocReqs(DisFire(extra))
<1>1. S \subseteq Slots /\ TypeOK
  BY FireIs DEF AllocReqs, TInv
<1>2. \A u : IsBr(u) => IsUop(u)
  BY DEF IsBr, IsUop
<1>3. ASSUME IsBr(ren2'[w])
      PROVE  /\ ~Redirecting /\ rstate = "normal"
             /\ \/ /\ DisReady(extra) /\ IsBr(B[w])
                   /\ ren2'[w].br_tag = NewTag(Branches(B, w))
                \/ /\ ~DisReady(extra) /\ w \in Row /\ w \notin DisFire(extra)
                   /\ IsBr(ren2[w]) /\ ren2'[w].br_tag = ren2[w].br_tag
  <2>1. IsUop(ren2'[w])
    BY <1>2, <1>3
  <2> QED
    BY <1>3, <2>1, RowNext
<1>4. ASSUME ~Redirecting, DisReady(extra), IsBr(B[w]) PROVE IsBr(ren2'[w])
  <2>1. IsUop(B[w])
    BY <1>2, <1>4
  <2>2. ren2'[w] = Bypassed(DecUop(B, w), S)
    BY <1>4, <2>1, Ren2Is
  <2>3. DecUop(B, w) \in Uops /\ DecUop(B, w).k = B[w].k
    BY <2>1, DecUopIs
  <2> HIDE DEF S
  <2>4. Bypassed(DecUop(B, w), S).k = B[w].k
    BY <1>1, <2>3, BypassedIs
  <2> QED
    BY <1>4, <2>2, <2>4 DEF IsBr
<1>5. ASSUME ~Redirecting, ~DisReady(extra), w \in Row, w \notin DisFire(extra), IsBr(ren2[w])
      PROVE  IsBr(ren2'[w])
  <2>1. ren2'[w] = Bypassed(ren2[w], S)
    BY <1>5, Ren2Is
  <2>2. ren2[w] \in Uops
    BY <1>1, <1>5, RowIs
  <2> HIDE DEF S
  <2>3. Bypassed(ren2[w], S).k = ren2[w].k
    BY <1>1, <2>2, BypassedIs
  <2> QED
    BY <1>5, <2>1, <2>3 DEF IsBr
<1> QED
  BY <1>3, <1>4, <1>5

\* The tags in ren2 after the cycle.
LEMMA RenTagsNext ==
    ASSUME TInv, NEW B, NEW extra, NEW c, NEW E, NEW R, NEW M, Clocked(B, extra, c, E, R, M),
           NEW n \in 0..PlWidth
    PROVE  /\ Redirecting \/ rstate # "normal" => RenTags(n)' = {}
           /\ ~Redirecting /\ DisReady(extra) /\ rstate = "normal" =>
                  RenTags(n)' = {NewTag(Branches(B, v)) : v \in {x \in BranchSlots(B) : x < n + 1}}
           /\ ~Redirecting /\ ~DisReady(extra) /\ rstate = "normal" =>
                  RenTags(n)' = {ren2[v].br_tag :
                      v \in {x \in Row : x \notin DisFire(extra) /\ IsBr(ren2[x]) /\ x < n + 1}}
<1>1. \A v : v \in 1..n <=> v \in Slots /\ v < n + 1
  BY Constants DEF Slots
<1>2. RenTags(n)' = {ren2'[v].br_tag : v \in {w \in 1..n : IsBr(ren2'[w])}}
  BY DEF RenTags
<1>3. CASE Redirecting \/ rstate # "normal"
  <2>1. \A v \in 1..n : ~IsBr(ren2'[v])
    BY <1>1, <1>3, BranchNext
  <2> QED
    BY <1>2, <1>3, <2>1
<1>4. CASE ~Redirecting /\ DisReady(extra) /\ rstate = "normal"
  <2>1. \A v \in Slots : /\ IsBr(ren2'[v]) <=> IsBr(B[v])
                         /\ IsBr(ren2'[v]) => ren2'[v].br_tag = NewTag(Branches(B, v))
    BY <1>4, BranchNext
  <2>2. {w \in 1..n : IsBr(ren2'[w])} = {x \in BranchSlots(B) : x < n + 1}
    BY <1>1, <2>1 DEF BranchSlots
  <2>3. \A v \in {x \in BranchSlots(B) : x < n + 1} : ren2'[v].br_tag = NewTag(Branches(B, v))
    BY <2>1 DEF BranchSlots
  <2>4. RenTags(n)' = {NewTag(Branches(B, v)) : v \in {x \in BranchSlots(B) : x < n + 1}}
    BY <1>2, <2>2, <2>3
  <2> QED
    BY <1>4, <2>4
<1>5. CASE ~Redirecting /\ ~DisReady(extra) /\ rstate = "normal"
  <2> DEFINE T == {x \in Row : x \notin DisFire(extra) /\ IsBr(ren2[x]) /\ x < n + 1}
  <2>1. \A v \in Slots :
            /\ IsBr(ren2'[v]) <=> v \in Row /\ v \notin DisFire(extra) /\ IsBr(ren2[v])
            /\ IsBr(ren2'[v]) => ren2'[v].br_tag = ren2[v].br_tag
    BY <1>5, BranchNext
  <2>2. \A v \in Row : v \in Slots
    BY DEF Row
  <2>3. {w \in 1..n : IsBr(ren2'[w])} = T
    BY <1>1, <2>1, <2>2
  <2>4. \A v \in T : ren2'[v].br_tag = ren2[v].br_tag
    BY <2>1, <2>2
  <2> HIDE DEF T
  <2>5. RenTags(n)' = {ren2[v].br_tag : v \in T}
    BY <1>2, <2>3, <2>4
  <2> QED
    BY <1>5, <2>5 DEF T
<1> QED
  BY <1>3, <1>4, <1>5

\* The tags in ren2 are those of its uops, and none is being resolved.
LEMMA RenTagsAre ==
    ASSUME TInv
    PROVE  /\ RenTags(PlWidth) = {ren2[v].br_tag : v \in {x \in Row : IsBr(ren2[x])}}
           /\ RenTags(PlWidth) \cap b1.res = {}
<1>1. {w \in 1..PlWidth : IsBr(ren2[w])} = {x \in Row : IsBr(ren2[x])}
  BY RowIs DEF Slots, TInv
<1>2. RenTags(PlWidth) = {ren2[v].br_tag : v \in {x \in Row : IsBr(ren2[x])}}
  BY <1>1 DEF RenTags
<1> QED
  BY <1>2, RenTagsFresh

\* The masks in ren2 after the cycle.
LEMMA Ren2Masks ==
    ASSUME TInv, NEW B, NEW extra, NEW c, NEW E, NEW R, NEW M, Clocked(B, extra, c, E, R, M),
           NEW w \in Slots, IsUop(ren2'[w])
    PROVE  /\ ren2'[w].br_mask = OpenTags(Len(rob))' \cup RenTags(w - 1)'
           /\ IsBr(ren2'[w]) => ren2'[w].br_tag \notin ren2'[w].br_mask
<1> DEFINE fire == DisFire(extra)
           A == {ren2[v].br_tag : v \in {x \in fire : IsBr(ren2[x])}}
           O == OpenTags(Len(rob))
<1>1. rstate = "normal" /\ ~Redirecting
  BY RowNext
<1>2. OpenTags(Len(rob))' = (O \ b1.res) \cup A
  BY <1>1, CalmIs, OpenTagsAll
<1>3. w - 1 \in 0..PlWidth /\ (w - 1) + 1 = w /\ w \in 1..(PlWidth + 1)
  BY Constants DEF Slots
<1>4. CASE DisReady(extra) /\ IsUop(B[w])
  <2> DEFINE N == {NewTag(Branches(B, v)) : v \in {x \in BranchSlots(B) : x < w}}
  <2>1. ren2'[w].br_mask = MaskBefore(B, w) \ b1.res
    BY <1>4, RowNext
  <2>2. /\ fire = Row /\ branch_mask = O \cup RenTags(PlWidth)
        /\ \A x \in Slots : ~BranchMaskFull(B, x)
    BY <1>4, DecodeIs
  <2>3. /\ \A v \in BranchSlots(B) : NewTag(Branches(B, v)) \notin branch_mask
        /\ \A u, v \in BranchSlots(B) : u < v => NewTag(Branches(B, u)) # NewTag(Branches(B, v))
        /\ MaskBefore(B, w) = branch_mask \cup N
    BY <1>3, <2>2, NewTagsAre DEF TInv
  <2>4. RenTags(PlWidth) = A /\ A \cap b1.res = {}
    BY <2>2, RenTagsAre
  <2>5. b1.res \subseteq branch_mask
    <3>1. b1.res \subseteq O
      BY DEF TInv, Resolved, OpenTags, Open
    <3> QED
      BY <2>2, <3>1
  <2>6. RenTags(w - 1)' = {NewTag(Branches(B, v)) : v \in {x \in BranchSlots(B) : x < (w - 1) + 1}}
    BY <1>1, <1>3, <1>4, RenTagsNext
  <2>7. RenTags(w - 1)' = N
    BY <1>3, <2>6
  <2>8. N \cap b1.res = {}
    BY <2>3, <2>5
  <2>9. IsBr(ren2'[w]) => ren2'[w].br_tag \notin branch_mask \cup N
    <3>1. SUFFICES ASSUME IsBr(ren2'[w]) PROVE ren2'[w].br_tag \notin branch_mask \cup N
      OBVIOUS
    <3>2. IsBr(B[w]) /\ ren2'[w].br_tag = NewTag(Branches(B, w))
      BY <1>4, <3>1, BranchNext
    <3>3. w \in BranchSlots(B)
      BY <3>2 DEF BranchSlots
    <3> QED
      BY <2>3, <3>2, <3>3
  <2> HIDE DEF N, A, O, fire
  <2>10. ren2'[w].br_mask = ((O \ b1.res) \cup A) \cup N
    BY <2>1, <2>2, <2>3, <2>4, <2>8
  <2>11. IsBr(ren2'[w]) => ren2'[w].br_tag \notin ren2'[w].br_mask
    BY <2>1, <2>3, <2>9
  <2> QED
    BY <1>2, <2>7, <2>10, <2>11
<1>5. CASE ~DisReady(extra) /\ w \in Row /\ w \notin fire
  <2> DEFINE L == {ren2[v].br_tag : v \in {x \in Row : x \notin fire /\ IsBr(ren2[x]) /\ x < w}}
  <2>1. ren2'[w].br_mask = ren2[w].br_mask \ b1.res
    BY <1>5, RowNext
  <2>2. /\ ren2[w].br_mask = O \cup RenTags(w - 1)
        /\ IsBr(ren2[w]) => ren2[w].br_tag \notin ren2[w].br_mask
    BY <1>5 DEF TInv, Masks
  <2>3. RenTags(w - 1) = A \cup L /\ (A \cup L) \cap b1.res = {}
    <3>1. RenTags(w - 1) = A \cup L
      <4>1. /\ fire \subseteq Row /\ Row \subseteq Nat /\ w \in Nat
            /\ \A y \in fire, v \in Row : v < y => v \in fire
            /\ \A y \in Slots : IsBr(ren2[y]) => y \in Row
        BY <1>5, FireIs, RowIs DEF TInv
      <4>2. \A v : v \in 1..(w - 1) <=> v \in Slots /\ v < w
        BY Constants DEF Slots
      <4>3. \A v \in fire : v \in Slots /\ v < w
        <5>1. ASSUME NEW v \in fire, ~(v < w) PROVE FALSE
          <6>1. v # w /\ v \in Nat
            BY <1>5, <4>1
          <6>2. w < v
            BY <4>1, <5>1, <6>1
          <6> QED
            BY <1>5, <4>1, <6>2
        <5> QED
          BY <4>1, <5>1 DEF Row
      <4>4. {x \in 1..(w - 1) : IsBr(ren2[x])}
                = {x \in fire : IsBr(ren2[x])}
                      \cup {x \in Row : x \notin fire /\ IsBr(ren2[x]) /\ x < w}
        <5> HIDE DEF fire
        <5>1. \A x \in Row : x \in Slots
          BY DEF Row
        <5> QED
          BY <4>1, <4>2, <4>3, <5>1
      <4> QED
        BY <4>4 DEF RenTags
    <3>2. RenTags(w - 1) \subseteq RenTags(PlWidth)
      <4>1. 1..(w - 1) \subseteq 1..PlWidth
        BY Constants DEF Slots
      <4> QED
        BY <4>1 DEF RenTags
    <3> QED
      BY <3>1, <3>2, RenTagsAre
  <2>4. RenTags(w - 1)' = L
    <3>1. RenTags(w - 1)' = {ren2[v].br_tag :
              v \in {x \in Row : x \notin fire /\ IsBr(ren2[x]) /\ x < (w - 1) + 1}}
      BY <1>1, <1>3, <1>5, RenTagsNext
    <3> QED
      BY <1>3, <3>1
  <2>5. IsBr(ren2'[w]) => ren2'[w].br_tag \notin ren2[w].br_mask
    BY <1>5, <2>2, BranchNext
  <2> HIDE DEF L, A, O, fire
  <2> QED
    BY <1>2, <2>1, <2>2, <2>3, <2>4, <2>5
<1> QED
  BY <1>4, <1>5, RowNext

-----------------------------------------------------------------------------
\* Nothing is decoded while the core is redirected.
LEMMA NoDecode ==
    ASSUME TInv, NEW B, NEW extra, NEW c, NEW E, NEW R, NEW M, Clocked(B, extra, c, E, R, M),
           Redirecting \/ rstate # "normal" \/ ~DisReady(extra)
    PROVE  MaskBefore(B, PlWidth + 1) = branch_mask
<1>1. \A x \in Slots : ~IsUop(B[x])
  BY DecodeIs
<1>2. \A x \in Slots : ~IsBr(B[x])
  BY <1>1 DEF IsBr, IsUop
<1>3. \A x \in Slots : ~BranchMaskFull(B, x)
  BY <1>2 DEF BranchMaskFull
<1>4. PlWidth + 1 \in 1..(PlWidth + 1)
  BY Constants
<1>5. MaskBefore(B, PlWidth + 1) = branch_mask \cup
          {NewTag(Branches(B, v)) : v \in {x \in BranchSlots(B) : x < PlWidth + 1}}
  BY <1>3, <1>4, NewTagsAre DEF TInv
<1> QED
  BY <1>2, <1>5 DEF BranchSlots

\* The mask that decode keeps, in normal operation.
LEMMA MaskAfter ==
    ASSUME TInv, NEW B, NEW extra, NEW c, NEW E, NEW R, NEW M, Clocked(B, extra, c, E, R, M),
           ~Redirecting, rstate = "normal"
    PROVE  branch_mask' = OpenTags(Len(rob))' \cup RenTags(PlWidth)'
<1> DEFINE fire == DisFire(extra)
           A == {ren2[v].br_tag : v \in {x \in fire : IsBr(ren2[x])}}
           O == OpenTags(Len(rob))
<1>1. /\ OpenTags(Len(rob))' = (O \ b1.res) \cup A
      /\ branch_mask = O \cup RenTags(PlWidth)
  BY CalmIs, OpenTagsAll DEF TInv, MaskKnown
<1>2. branch_mask' = (MaskBefore(B, PlWidth + 1) \ b1.res) \cap Tags
  BY CalmIs DEF Clocked, Cycle, BranchMaskAfter
<1>3. /\ b1.res \subseteq O /\ RenTags(PlWidth) \cap b1.res = {} /\ branch_mask \subseteq Tags
      /\ RenTags(PlWidth) = {ren2[v].br_tag : v \in {x \in Row : IsBr(ren2[x])}}
  <2>1. b1.res \subseteq O
    BY DEF TInv, Resolved, OpenTags, Open
  <2>2. branch_mask \subseteq Tags
    BY DEF TInv, TypeOK
  <2> HIDE DEF O
  <2> QED
    BY <2>1, <2>2, RenTagsAre
<1>4. PlWidth \in 0..PlWidth /\ PlWidth + 1 \in 1..(PlWidth + 1)
  BY Constants
<1>5. CASE DisReady(extra)
  <2> DEFINE N == {NewTag(Branches(B, v)) : v \in {x \in BranchSlots(B) : x < PlWidth + 1}}
  <2>1. fire = Row
    BY <1>5, FireIs DEF TInv
  <2>2. \A x \in Slots : ~BranchMaskFull(B, x)
    <3>1. (\E x \in Slots : IsUop(B[x])) => \A x \in Slots : ~BranchMaskFull(B, x)
      BY DecodeIs
    <3>2. \A x \in Slots : ~IsUop(B[x]) => ~BranchMaskFull(B, x)
      BY DEF BranchMaskFull, IsBr, IsUop
    <3> QED
      BY <3>1, <3>2
  <2>3. /\ \A v \in BranchSlots(B) : NewTag(Branches(B, v)) \in Tags \ branch_mask
        /\ MaskBefore(B, PlWidth + 1) = branch_mask \cup N
    BY <1>4, <2>2, NewTagsAre DEF TInv
  <2>4. RenTags(PlWidth)' = N
    BY <1>4, <1>5, RenTagsNext
  <2>5. N \subseteq Tags /\ N \cap branch_mask = {}
    BY <2>3
  <2>6. A = RenTags(PlWidth)
    BY <1>3, <2>1
  <2> HIDE DEF N, A, O
  <2> QED
    BY <1>1, <1>2, <1>3, <2>3, <2>4, <2>5, <2>6
<1>6. CASE ~DisReady(extra)
  <2> DEFINE L == {ren2[v].br_tag :
                      v \in {x \in Row : x \notin fire /\ IsBr(ren2[x]) /\ x < PlWidth + 1}}
  <2>1. MaskBefore(B, PlWidth + 1) = branch_mask
    BY <1>6, NoDecode
  <2>2. RenTags(PlWidth)' = L
    BY <1>4, <1>6, RenTagsNext
  <2>3. RenTags(PlWidth) = A \cup L
    <3>1. fire \subseteq Row
      BY FireIs DEF TInv
    <3>2. \A x \in Row : x < PlWidth + 1
      BY Constants DEF Row, Slots
    <3> HIDE DEF fire
    <3>3. {x \in Row : IsBr(ren2[x])}
              = {x \in fire : IsBr(ren2[x])}
                    \cup {x \in Row : x \notin fire /\ IsBr(ren2[x]) /\ x < PlWidth + 1}
      BY <3>1, <3>2
    <3> QED
      BY <1>3, <3>3
  <2> HIDE DEF L, A, O
  <2> QED
    BY <1>1, <1>2, <1>3, <2>1, <2>2, <2>3
<1> QED
  BY <1>5, <1>6

\* The tags in the ROB after a cycle in which nothing dispatches.
LEMMA Redirected ==
    ASSUME TInv, NEW B, NEW extra, NEW c, NEW E, NEW R, NEW M, Clocked(B, extra, c, E, R, M),
           Redirecting \/ rstate # "normal"
    PROVE  /\ OpenTags(Len(rob))' = OpenTags(Kept) \ b1.res
           /\ RenTags(PlWidth)' = {} /\ Row' = {} /\ DisFire(extra) = {}
           /\ MaskBefore(B, PlWidth + 1) = branch_mask
<1>1. DisFire(extra) = {}
  BY FireIs DEF TInv
<1>2. OpenTags(Len(rob))' = OpenTags(Kept) \ b1.res
  BY <1>1, OpenTagsAll
<1>3. RenTags(PlWidth)' = {}
  <2>1. PlWidth \in 0..PlWidth
    BY Constants
  <2> QED
    BY <2>1, RenTagsNext
<1>4. Row' = {}
  BY RowNext DEF Row
<1> QED
  BY <1>1, <1>2, <1>3, <1>4, NoDecode

\* A longer part of the ROB holds no fewer tags.
LEMMA OpenTagsMono ==
    ASSUME NEW m \in Nat, NEW n \in Nat, m <= n
    PROVE  OpenTags(m) \subseteq OpenTags(n)
<1>1. 1..m \subseteq 1..n
  OBVIOUS
<1> QED
  BY <1>1 DEF OpenTags

\* An exception that waits does not go away, except by a misprediction.
LEMMA XcptStays ==
    ASSUME TInv, NEW B, NEW extra, NEW c, NEW E, NEW R, NEW M, Clocked(B, extra, c, E, R, M),
           XcptPending, b1.mis = {}, rstate' = "normal"
    PROVE  XcptPending'
<1>1. PICK j \in 1..Len(rob) : rob[j].k = "xcpt"
  BY DEF XcptPending
<1>2. rstate = "normal" /\ c \in CommitCounts
  BY DEF XcptPending, Clocked
<1>3. Kept = Len(rob) /\ c \in 0..Kept /\ Len(rob) \in Nat /\ \A i \in 1..c : rob[i].st = "done"
  BY <1>2, KeptIs, SurvivorsAre
<1>4. rob[j].st = "wait"
  BY <1>1 DEF TInv, Control
<1>5. ~(j <= c)
  BY <1>3, <1>4
<1>6. PICK i \in 1..(Kept - c) : j = i + c
  <2>1. j - c \in 1..(Kept - c) /\ j = (j - c) + c
    BY <1>3, <1>5
  <2> QED
    BY <2>1
<1>7. rob'[i].k = "xcpt"
  BY <1>1, <1>6, OpenKept
<1>8. i \in 1..Len(rob')
  <2>1. PICK n : n = Cardinality(DisFire(extra))
    OBVIOUS
  <2>2. n \in Nat /\ Len(rob') = (Kept - c) + n
    BY <2>1, RobIs
  <2> QED
    BY <1>3, <2>2
<1> QED
  BY <1>7, <1>8 DEF XcptPending

\* The state of the ROB that follows.
LEMMA RobStateIs ==
    ASSUME TInv, NEW B, NEW extra, NEW c, NEW E, NEW R, NEW M, Clocked(B, extra, c, E, R, M)
    PROVE  /\ rstate' \in {"normal", "x1", "x2", "rollback"}
           /\ rstate' = "normal" => \/ rstate = "normal" /\ ~Throws
                                    \/ rstate = "rollback" /\ rob = <<>>
           /\ rstate = "normal" /\ ~Throws => rstate' = "normal"
           /\ rstate = "normal" => rstate' \in {"normal", "x1"}
           /\ rstate = "x1" <=> rstate' = "x2"
           /\ rstate' = "rollback" => rstate \in {"x2", "rollback"}
           /\ Throws => XcptPending /\ rstate = "normal"
<1>1. rstate' = RobStateAfter /\ rstate \in {"normal", "x1", "x2", "rollback"}
  BY DEF Clocked, Cycle, TInv, TypeOK
<1>2. Throws => rstate = "normal" /\ XcptPending
  <2>1. Throws => rstate = "normal" /\ rob # <<>> /\ rob[1].k = "xcpt"
    BY DEF Throws
  <2>2. rob # <<>> => 1 \in 1..Len(rob)
    BY DEF TInv, TypeOK
  <2> QED
    BY <2>1, <2>2 DEF XcptPending
<1>3. CASE Throws
  BY <1>1, <1>2, <1>3 DEF RobStateAfter
<1>4. CASE ~Throws /\ rstate = "normal"
  BY <1>1, <1>4 DEF RobStateAfter
<1>5. CASE rstate = "x1"
  BY <1>1, <1>2, <1>5 DEF RobStateAfter
<1>6. CASE rstate = "x2"
  BY <1>1, <1>2, <1>6 DEF RobStateAfter
<1>7. CASE rstate = "rollback"
  BY <1>1, <1>2, <1>7 DEF RobStateAfter
<1> QED
  BY <1>1, <1>3, <1>4, <1>5, <1>6, <1>7

\* Decode goes on knowing the tags in use.
LEMMA MaskKnownStep ==
    ASSUME TInv, NEW B, NEW extra, NEW c, NEW E, NEW R, NEW M, Clocked(B, extra, c, E, R, M)
    PROVE  MaskKnown'
<1> DEFINE O == OpenTags(Len(rob))
           calm == ~Redirecting /\ rstate = "normal"
<1>1. branch_mask' = (IF rstate = "x1" THEN {}
                      ELSE (MaskBefore(B, PlWidth + 1) \ b1.res)
                               \cap (IF b2.mispredict THEN b2.br_mask ELSE Tags))
  BY DEF Clocked, Cycle, BranchMaskAfter
<1>2. /\ branch_mask \subseteq Tags /\ Len(rob) \in Nat
      /\ c \in CommitCounts /\ Kept \in 0..Len(rob)
  BY KeptIs DEF TInv, TypeOK, Clocked
<1>3. OpenTags(Kept) \subseteq O
  BY <1>2, OpenTagsMono
<1>4. ASSUME rstate' = "normal"
      PROVE  OpenTags(Len(rob))' \cup RenTags(PlWidth)' \subseteq branch_mask'
  <2>1. CASE calm
    BY <2>1, MaskAfter
  <2>2. CASE ~calm /\ rstate = "normal"
    <3>1. /\ OpenTags(Len(rob))' = OpenTags(Kept) \ b1.res /\ RenTags(PlWidth)' = {}
          /\ MaskBefore(B, PlWidth + 1) = branch_mask
      BY <2>2, Redirected
    <3>2. O \subseteq branch_mask /\ (b2.mispredict => b2.br_mask = O)
      BY <2>2 DEF TInv, MaskKnown
    <3> HIDE DEF O
    <3> QED
      BY <1>1, <1>2, <1>3, <2>2, <3>1, <3>2
  <2>3. CASE rstate = "rollback" /\ rob = <<>>
    <3>1. OpenTags(Len(rob))' = OpenTags(Kept) \ b1.res /\ RenTags(PlWidth)' = {}
      BY <2>3, Redirected
    <3>2. Kept = 0
      BY <1>2, <2>3
    <3>3. OpenTags(Kept) = {}
      BY <3>2 DEF OpenTags
    <3> QED
      BY <3>1, <3>3
  <2> QED
    BY <1>4, <2>1, <2>2, <2>3, RobStateIs
<1>5. ASSUME rstate' = "normal", ~Redirecting'
      PROVE  branch_mask' \subseteq OpenTags(Len(rob))' \cup RenTags(PlWidth)'
  <2>1. CASE calm
    BY <2>1, MaskAfter
  <2>2. CASE ~calm /\ rstate = "normal"
    <3>1. /\ OpenTags(Len(rob))' = OpenTags(Kept) \ b1.res /\ RenTags(PlWidth)' = {}
          /\ MaskBefore(B, PlWidth + 1) = branch_mask
      BY <2>2, Redirected
    <3>2. b1.mis = {}
      <4>1. ~b2'.mispredict
        BY <1>5 DEF Redirecting, Mispredicting
      <4>2. b2' = B2After
        BY DEF Clocked, Cycle
      <4> QED
        BY <4>1, <4>2 DEF B2After
    <3>3. ~XcptPending'
      BY <1>5 DEF Redirecting
    <3>4. ~XcptPending
      BY <1>5, <3>2, <3>3, XcptStays
    <3>5. b2.mispredict
      BY <2>2, <3>2, <3>4 DEF Redirecting, Mispredicting
    <3>6. b2.br_mask = O
      BY <3>5 DEF TInv, MaskKnown
    <3>7. Kept = Len(rob)
      BY <1>2, <2>2, <3>2, KeptIs, SurvivorsAre
    <3> HIDE DEF O
    <3>8. branch_mask' \subseteq O \ b1.res
      BY <1>1, <2>2, <3>5, <3>6
    <3> QED
      BY <3>1, <3>7, <3>8 DEF O
  <2>3. CASE rstate = "rollback"
    <3>1. branch_mask = {} /\ MaskBefore(B, PlWidth + 1) = branch_mask
      BY <2>3, Redirected DEF TInv, MaskKnown
    <3> QED
      BY <1>1, <2>3, <3>1
  <2> QED
    BY <1>5, <2>1, <2>2, <2>3, RobStateIs
<1>6. ASSUME rstate' \in {"x2", "rollback"} PROVE branch_mask' = {}
  <2>1. CASE rstate = "x1"
    BY <1>1, <2>1
  <2>2. CASE rstate \in {"x2", "rollback"}
    <3>1. branch_mask = {} /\ MaskBefore(B, PlWidth + 1) = branch_mask
      BY <2>2, Redirected DEF TInv, MaskKnown
    <3> QED
      BY <1>1, <2>2, <3>1
  <2> QED
    BY <1>6, <2>1, <2>2, RobStateIs
<1>7. ASSUME b2'.mispredict PROVE b2'.br_mask = OpenTags(Len(rob))'
  <2>1. b2' = B2After
    BY DEF Clocked, Cycle
  <2>2. b1.mis # {}
    BY <1>7, <2>1 DEF B2After
  <2>3. /\ Survivors \in MisSet /\ Survivors \in 1..Len(rob) /\ OldestMis = rob[Survivors]
    BY <2>2, SurvivorsAre
  <2>4. b2'.br_mask = OpenTags(Survivors - 1) \ b1.res
    <3>1. b2'.br_mask = rob[Survivors].br_mask \ b1.res
      BY <2>1, <2>2, <2>3 DEF B2After
    <3>2. rob[Survivors].br_mask = OpenTags(Survivors - 1)
      BY <2>3 DEF TInv, Masks
    <3> QED
      BY <3>1, <3>2
  <2>5. rstate = "normal" /\ b1.mis \subseteq b1.res
    BY <2>2 DEF TInv, Control
  <2>6. OpenTags(Len(rob))' = OpenTags(Survivors) \ b1.res
    <3>1. Redirecting
      BY <2>2 DEF Redirecting, Mispredicting
    <3>2. Kept = Survivors
      BY <1>2, <2>5, KeptIs
    <3> QED
      BY <3>1, <3>2, Redirected
  <2>7. OpenTags(Survivors) \ b1.res = OpenTags(Survivors - 1) \ b1.res
    <3>1. PICK s : s = Survivors
      OBVIOUS
    <3>2. s \in 1..Len(rob) /\ rob[s].br_tag \in b1.res
      BY <2>3, <2>5, <3>1 DEF MisSet
    <3>3. \A i : i \in 1..s <=> i \in 1..(s - 1) \/ i = s
      BY <1>2, <3>2
    <3>4. OpenTags(s) \ b1.res = OpenTags(s - 1) \ b1.res
      BY <3>2, <3>3 DEF OpenTags
    <3> QED
      BY <3>1, <3>4
  <2> QED
    BY <2>4, <2>6, <2>7
<1> QED
  BY <1>4, <1>5, <1>6, <1>7 DEF MaskKnown

-----------------------------------------------------------------------------
\* An entry of the ROB was there before, or it dispatches now.
LEMMA RobEntry ==
    ASSUME TInv, NEW B, NEW extra, NEW c, NEW E, NEW R, NEW M, Clocked(B, extra, c, E, R, M),
           NEW j \in 1..Len(rob')
    PROVE  /\ rob'[j] \in Uops /\ c \in Nat /\ Kept - c \in Nat /\ Kept \in Nat /\ Kept <= Len(rob)
           /\ \/ /\ j \in 1..(Kept - c) /\ j + c \in 1..Len(rob)
                 /\ rob'[j] = RobExec(E, R)[j + c]
              \/ \E i \in 1..Cardinality(DisFire(extra)) :
                    /\ j = (Kept - c) + i
                    /\ Nth(DisFire(extra), i) \in DisFire(extra)
                    /\ Below(DisFire(extra), Nth(DisFire(extra), i)) = i - 1
                    /\ rob'[j] = DisUop(Nth(DisFire(extra), i), DisFire(extra))
<1> DEFINE fire == DisFire(extra)
<1>1. PICK k : k = Kept - c
  OBVIOUS
<1>2. PICK n : n = Cardinality(fire)
  OBVIOUS
<1>3. /\ k \in Nat /\ n \in Nat /\ Len(rob') = k + n /\ rob' \in Seq(Uops)
      /\ c \in Nat /\ Kept \in Nat /\ Kept <= Len(rob) /\ Len(rob) \in Nat
      /\ \A i \in 1..k : i + c \in 1..Kept /\ rob'[i] = RobExec(E, R)[i + c]
      /\ \A i \in 1..n : rob'[k + i] = DisUop(Nth(fire, i), fire)
  <2>1. c \in Nat /\ Kept \in Nat /\ Kept <= Len(rob) /\ Len(rob) \in Nat
    BY KeptIs DEF Clocked
  <2>2. /\ k \in Nat /\ n \in Nat /\ Len(rob') = k + n /\ rob' \in Seq(Uops)
        /\ \A i \in 1..n : rob'[k + i] = DisUop(Nth(fire, i), fire)
    BY <1>1, <1>2, RobIs
  <2>3. \A i \in 1..k : i + c \in 1..Kept /\ rob'[i] = RobExec(E, R)[i + c]
    BY <1>1, RobIs
  <2> QED
    BY <2>1, <2>2, <2>3
<1>4. rob'[j] \in Uops
  BY <1>3
<1>5. CASE j \in 1..k
  <2>1. j + c \in 1..Len(rob) /\ rob'[j] = RobExec(E, R)[j + c]
    BY <1>3, <1>5
  <2> QED
    BY <1>1, <1>3, <1>4, <1>5, <2>1
<1>6. CASE j \notin 1..k
  <2>1. PICK i \in 1..n : j = k + i
    <3>1. j - k \in 1..n /\ j = k + (j - k)
      BY <1>3, <1>6
    <3> QED
      BY <3>1
  <2>2. Nth(fire, i) \in fire /\ Below(fire, Nth(fire, i)) = i - 1
    BY <1>2, FireIs, NthIs DEF TInv
  <2>3. rob'[j] = DisUop(Nth(fire, i), fire)
    BY <1>3, <2>1
  <2> HIDE DEF fire
  <2>4. i \in 1..Cardinality(fire)
    BY <1>2
  <2> QED
    BY <1>1, <1>3, <1>4, <2>1, <2>2, <2>3, <2>4 DEF fire
<1> QED
  BY <1>5, <1>6

\* Masks stay the sets of tags held in front of their uops.
LEMMA MasksStep ==
    ASSUME TInv, NEW B, NEW extra, NEW c, NEW E, NEW R, NEW M, Clocked(B, extra, c, E, R, M)
    PROVE  Masks'
BY RobMasks, Ren2Masks DEF Masks, Row

\* What is resolved in the next cycle is in the next ROB.
LEMMA ResolvedStep ==
    ASSUME TInv, NEW B, NEW extra, NEW c, NEW E, NEW R, NEW M, Clocked(B, extra, c, E, R, M)
    PROVE  Resolved'
<1>1. /\ b1'.res = {rob[j].br_tag : j \in R} /\ R \subseteq CanResolve /\ c \in CommitCounts
      /\ TypeOK /\ Control
  BY DEF Clocked, Cycle, TInv
<1>2. /\ c \in Nat /\ Kept \in Nat /\ Kept <= Len(rob) /\ Len(rob) \in Nat
      /\ \A i \in 1..c : rob[i].st = "done"
  BY <1>1, KeptIs
<1>3. ASSUME NEW t \in b1'.res
      PROVE  \E j \in 1..Len(rob') : IsBr(rob'[j]) /\ rob'[j].st = "resolved" /\ rob'[j].br_tag = t
  <2>1. PICK j \in R : rob[j].br_tag = t
    BY <1>1
  <2>2. /\ j \in 1..Len(rob) /\ IsBr(rob[j]) /\ rob[j].st = "wait" /\ ~Killed(rob[j])
        /\ rstate = "normal"
    BY <1>1 DEF CanResolve
  <2>3. j <= Kept /\ ~(j <= c)
    <3>1. Kept = Survivors
      BY <1>1, <2>2, KeptIs
    <3>2. j <= Kept
      BY <1>2, <2>2, <3>1, SurvivorsAre
    <3>3. ~(j <= c)
      BY <1>2, <2>2
    <3> QED
      BY <3>2, <3>3
  <2>4. PICK i \in 1..(Kept - c) : j = i + c
    <3>1. j - c \in 1..(Kept - c) /\ j = (j - c) + c
      BY <1>2, <2>2, <2>3
    <3> QED
      BY <3>1
  <2>5. /\ rob'[i].br_tag = t /\ IsBr(rob'[i]) /\ rob'[i].st = "resolved"
    BY <2>1, <2>2, <2>4, OpenKept DEF IsBr
  <2>6. i \in 1..Len(rob')
    <3>1. PICK n : n = Cardinality(DisFire(extra))
      OBVIOUS
    <3>2. n \in Nat /\ Len(rob') = (Kept - c) + n
      BY <3>1, RobIs
    <3> QED
      BY <1>2, <3>2
  <2> QED
    BY <2>5, <2>6
<1>4. ASSUME NEW j \in 1..Len(rob'), rob'[j].st = "resolved" PROVE rob'[j].br_tag \in b1'.res
  <2>1. CASE j \in 1..(Kept - c)
    BY <1>1, <1>4, <2>1, OpenKept
  <2>2. CASE j \notin 1..(Kept - c)
    <3>1. PICK w \in DisFire(extra) : rob'[j] = DisUop(w, DisFire(extra))
      BY <2>2, RobEntry
    <3>2. rob'[j].st = "wait"
      BY <1>1, <3>1, DisUopIs
    <3> QED
      BY <1>4, <3>2
  <2> QED
    BY <2>1, <2>2
<1> QED
  BY <1>3, <1>4 DEF Resolved

\* The states and redirects exclude what they exclude in the next cycle, too.
LEMMA ControlStep ==
    ASSUME TInv, NEW B, NEW extra, NEW c, NEW E, NEW R, NEW M, Clocked(B, extra, c, E, R, M)
    PROVE  Control'
<1>1. /\ b1' = [res |-> {rob[j].br_tag : j \in R}, mis |-> {rob[j].br_tag : j \in M}]
      /\ R \subseteq CanResolve /\ M \subseteq R /\ E \subseteq CanFinish /\ b2' = B2After
      /\ TypeOK /\ Control
  BY DEF Clocked, Cycle, TInv
<1>2. b1'.mis \subseteq b1'.res
  BY <1>1
<1>3. ASSUME b1'.res # {} PROVE rstate' = "normal"
  <2>1. CanResolve # {}
    BY <1>1, <1>3
  <2>2. rstate = "normal" /\ ~Throws
    BY <2>1 DEF CanResolve
  <2> QED
    BY <2>2, RobStateIs
<1>4. ASSUME rstate' # "normal" PROVE Row' = {}
  <2>1. Redirecting \/ rstate # "normal"
    BY <1>4, RobStateIs DEF Redirecting
  <2> QED
    BY <2>1, Redirected
<1>5. ASSUME b2'.mispredict
      PROVE  Row' = {} /\ rstate' \in {"normal", "x1"} /\ b2'.tag \in Tags
  <2>1. b1.mis # {}
    BY <1>1, <1>5 DEF B2After
  <2>2. rstate = "normal" /\ Redirecting
    BY <1>1, <2>1 DEF Control, Redirecting, Mispredicting
  <2>3. Survivors \in MisSet /\ OldestMis = rob[Survivors]
    BY <2>1, SurvivorsAre
  <2>4. b2'.tag \in Tags
    <3>1. b2'.tag = rob[Survivors].br_tag
      BY <1>1, <2>1, <2>3 DEF B2After
    <3>2. Survivors \in 1..Len(rob) /\ IsBr(rob[Survivors])
      BY <2>3 DEF MisSet
    <3> QED
      BY <1>1, <3>1, <3>2 DEF Control
  <2> QED
    BY <2>2, <2>4, Redirected, RobStateIs
<1>6. ASSUME NEW w \in Row'
      PROVE  /\ ren2'[w].st = "wait" /\ ren2'[w].pdst = 0
             /\ IsBr(ren2'[w]) => ren2'[w].br_tag \in Tags
  BY RowNext DEF Row
<1>7. ASSUME NEW j \in 1..Len(rob')
      PROVE  /\ rob'[j].st = "resolved" => IsBr(rob'[j])
             /\ IsBr(rob'[j]) => rob'[j].br_tag \in Tags
             /\ rob'[j].k = "xcpt" => rob'[j].st = "wait"
  <2>1. CASE j + c \in 1..Len(rob) /\ rob'[j] = RobExec(E, R)[j + c]
    <3>1. PICK i : i = j + c
      OBVIOUS
    <3>2. /\ i \in 1..Len(rob) /\ rob'[j].k = rob[i].k /\ rob'[j].br_tag = rob[i].br_tag
          /\ rob'[j].st = (IF i \in E THEN "done" ELSE IF i \in R THEN "resolved"
                           ELSE IF rob[i].st = "resolved" THEN "done" ELSE rob[i].st)
      BY <1>1, <2>1, <3>1, ExecIs
    <3>3. /\ rob[i].st = "resolved" => IsBr(rob[i])
          /\ IsBr(rob[i]) => rob[i].br_tag \in Tags
          /\ rob[i].k = "xcpt" => rob[i].st = "wait"
      BY <1>1, <3>2 DEF Control
    <3>4. (i \in E => rob[i].k = "op") /\ (i \in R => rob[i].k = "br")
      BY <1>1 DEF CanFinish, CanResolve, IsBr
    <3> QED
      BY <3>2, <3>3, <3>4 DEF IsBr
  <2>2. ASSUME NEW w \in DisFire(extra), rob'[j] = DisUop(w, DisFire(extra))
        PROVE  /\ rob'[j].st = "resolved" => IsBr(rob'[j])
               /\ IsBr(rob'[j]) => rob'[j].br_tag \in Tags
               /\ rob'[j].k = "xcpt" => rob'[j].st = "wait"
    <3> DEFINE d == DisUop(w, DisFire(extra))
    <3>0. d.st = "wait" /\ d.k = ren2[w].k /\ d.br_tag = ren2[w].br_tag
      BY <1>1, DisUopIs
    <3>1. rob'[j].st = "wait" /\ rob'[j].k = ren2[w].k /\ rob'[j].br_tag = ren2[w].br_tag
      BY <2>2, <3>0
    <3>2. w \in Row
      BY <1>1, FireIs
    <3>3. IsBr(ren2[w]) => ren2[w].br_tag \in Tags
      BY <1>1, <3>2 DEF Control
    <3> QED
      BY <3>1, <3>3 DEF IsBr
  <2>3. \/ j \in 1..(Kept - c) /\ j + c \in 1..Len(rob) /\ rob'[j] = RobExec(E, R)[j + c]
        \/ \E w \in DisFire(extra) : rob'[j] = DisUop(w, DisFire(extra))
    BY RobEntry
  <2> QED
    BY <2>1, <2>2, <2>3
<1> QED
  BY <1>2, <1>3, <1>4, <1>5, <1>6, <1>7 DEF Control

-----------------------------------------------------------------------------
\* A map table that is updated: the last uop that writes a register wins.
LEMMA RemappedIs ==
    ASSUME NEW m \in [Lregs -> Pregs], NEW us, NEW n \in Nat, NEW S, S \subseteq 0..n,
           \A w \in S : Writes(us[w]) => us[w].pdst \in Pregs
    PROVE  /\ Remapped(m, us, S) \in [Lregs -> Pregs]
           /\ \A l \in Lregs :
                 /\ (\A w \in S : ~(Writes(us[w]) /\ us[w].ldst = l)) => Remapped(m, us, S)[l] = m[l]
                 /\ \A y \in S :
                       /\ Writes(us[y]) /\ us[y].ldst = l
                       /\ \A v \in S : v > y => ~(Writes(us[v]) /\ us[v].ldst = l)
                       => Remapped(m, us, S)[l] = us[y].pdst
<1> DEFINE hits(l) == {w \in S : Writes(us[w]) /\ us[w].ldst = l}
           r(l) == IF hits(l) = {} THEN m[l] ELSE us[Greatest(hits(l))].pdst
<1>1. Remapped(m, us, S) = [l \in Lregs |-> r(l)]
  BY DEF Remapped
<1>2. ASSUME NEW l \in Lregs
      PROVE  /\ r(l) \in Pregs
             /\ (\A w \in S : ~(Writes(us[w]) /\ us[w].ldst = l)) => r(l) = m[l]
             /\ \A y \in S :
                   /\ Writes(us[y]) /\ us[y].ldst = l
                   /\ \A v \in S : v > y => ~(Writes(us[v]) /\ us[v].ldst = l)
                   => r(l) = us[y].pdst
  <2>1. CASE hits(l) = {}
    BY <2>1
  <2>2. CASE hits(l) # {}
    <3>1. PICK T : T = hits(l)
      OBVIOUS
    <3>2. T \subseteq 0..n /\ T # {}
      BY <2>2, <3>1
    <3>3. PICK g : g = Greatest(T) /\ g \in T /\ \A y \in T : y <= g
      BY <3>2, GreatestIs
    <3>4. g \in S /\ Writes(us[g]) /\ us[g].ldst = l /\ r(l) = us[g].pdst /\ us[g].pdst \in Pregs
      BY <2>2, <3>1, <3>3
    <3>5. ASSUME NEW y \in S, Writes(us[y]), us[y].ldst = l,
                 \A v \in S : v > y => ~(Writes(us[v]) /\ us[v].ldst = l)
          PROVE  y = g
      <4>1. y \in Nat /\ g \in Nat
        BY <3>2, <3>3
      <4>2. y <= g
        BY <3>1, <3>3, <3>5
      <4>3. ~(g > y)
        BY <3>4, <3>5
      <4> QED
        BY <4>1, <4>2, <4>3
    <3> HIDE DEF r, hits
    <3> QED
      BY <3>4, <3>5
  <2> QED
    BY <2>1, <2>2
<1> HIDE DEF r
<1> QED
  BY <1>1, <1>2

\* What is rolled back, slot by slot from the tail.
LEMMA RbkRowIs ==
    ASSUME TInv, rstate = "rollback", NEW w \in Slots
    PROVE  /\ w > RollbackCount => RbkRow[w] = NoUop
           /\ w <= RollbackCount =>
                 /\ (Len(rob) + 1) - w \in 1..Len(rob)
                 /\ RbkRow[w].k = rob[(Len(rob) + 1) - w].k
                 /\ RbkRow[w].ldst = rob[(Len(rob) + 1) - w].ldst
                 /\ RbkRow[w].pdst = rob[(Len(rob) + 1) - w].stale_pdst
<1>1. /\ Len(rob) \in Nat /\ w \in Nat /\ w > 0 /\ PlWidth \in Nat
  BY KeptIs, Constants DEF Slots, TInv, TypeOK
<1>2. RollbackCount \in Nat /\ RollbackCount <= Len(rob)
  BY <1>1 DEF RollbackCount
<1>3. PICK i : i = (Len(rob) + 1) - w
  OBVIOUS
<1>4. i = Len(rob) + 1 - w
  BY <1>1, <1>3
<1>5. RbkRow[w] = IF w <= RollbackCount THEN [rob[i] EXCEPT !.pdst = rob[i].stale_pdst] ELSE NoUop
  BY <1>4 DEF RbkRow
<1>6. ASSUME w <= RollbackCount
      PROVE  /\ i \in 1..Len(rob) /\ RbkRow[w].k = rob[i].k /\ RbkRow[w].ldst = rob[i].ldst
             /\ RbkRow[w].pdst = rob[i].stale_pdst
  <2>1. i \in 1..Len(rob)
    BY <1>1, <1>2, <1>3, <1>6
  <2>2. PICK u : u = rob[i]
    OBVIOUS
  <2>3. u \in Uops
    BY <2>1, <2>2 DEF TInv, TypeOK
  <2>4. RbkRow[w] = [u EXCEPT !.pdst = u.stale_pdst]
    BY <1>5, <1>6, <2>2
  <2>5. RbkRow[w].k = u.k /\ RbkRow[w].ldst = u.ldst /\ RbkRow[w].pdst = u.stale_pdst
    BY <2>3, <2>4 DEF Uops
  <2> QED
    BY <2>1, <2>2, <2>5
<1>7. w > RollbackCount => RbkRow[w] = NoUop
  BY <1>1, <1>2, <1>5
<1> QED
  BY <1>3, <1>6, <1>7

\* The slot that dispatches the branch with a tag.
LEMMA BranchSlotIs ==
    ASSUME TInv, NEW extra, NEW t
    PROVE  LET fire == DisFire(extra)
               w == BranchSlot(fire, t)
           IN  /\ w # 0 => w \in fire /\ IsBr(ren2[w]) /\ ren2[w].br_tag = t
               /\ \A v \in fire : IsBr(ren2[v]) /\ ren2[v].br_tag = t => w = v
<1> DEFINE fire == DisFire(extra)
           S == {v \in fire : IsBr(ren2[v]) /\ ren2[v].br_tag = t}
           w == BranchSlot(fire, t)
<1>1. w = IF S = {} THEN 0 ELSE Least(S)
  BY DEF BranchSlot
<1>2. fire \subseteq Nat /\ fire \subseteq Row /\ 0 \notin fire
  BY FireIs, Constants DEF TInv, Slots
<1> HIDE DEF fire, w
<1>3. CASE S = {}
  BY <1>1, <1>3 DEF w, fire
<1>4. CASE S # {}
  <2>1. S \subseteq Nat
    BY <1>2
  <2>2. w = Least(S) /\ w \in S
    BY <1>1, <1>4, <2>1, LeastIs
  <2>3. ASSUME NEW v \in S PROVE w = v
    <3>1. /\ v \in Row /\ w \in Row /\ IsBr(ren2[v]) /\ IsBr(ren2[w])
          /\ ren2[v].br_tag = ren2[w].br_tag /\ v \in Nat /\ w \in Nat
      BY <1>2, <2>2
    <3>2. ~(v < w) /\ ~(w < v)
      BY <3>1, RenTagsFresh
    <3> QED
      BY <3>1, <3>2
  <2> QED
    BY <2>2, <2>3 DEF w, fire
<1> QED
  BY <1>3, <1>4

-----------------------------------------------------------------------------
\* The map tables hold registers.
LEMMA RemapTableType ==
    ASSUME TInv, NEW extra, NEW S, S \subseteq Slots
    PROVE  RemapTable(DisFire(extra), S) \in [Lregs -> Pregs]
<1> DEFINE fire == DisFire(extra)
           us == IF rstate = "rollback" THEN RbkRow ELSE DisRow(fire)
<1>1. map_table \in [Lregs -> Pregs] /\ PlWidth \in Nat /\ S \subseteq 0..PlWidth
  BY Constants DEF TInv, TypeOK, Slots
<1>2. ASSUME NEW w \in S, Writes(us[w]) PROVE us[w].pdst \in Pregs
  <2>1. w \in Slots /\ us[w] # NoUop
    BY <1>2 DEF Writes, NoUop
  <2>2. CASE rstate = "rollback"
    <3>1. us[w] = RbkRow[w]
      BY <2>2
    <3>2. w <= RollbackCount
      <4>1. w \in Nat /\ RollbackCount \in Nat
        BY <2>1, Constants DEF RollbackCount, TInv, TypeOK
      <4> QED
        BY <2>1, <2>2, <3>1, <4>1, RbkRowIs
    <3>3. PICK i \in 1..Len(rob) : RbkRow[w].pdst = rob[i].stale_pdst
      BY <2>1, <2>2, <3>2, RbkRowIs
    <3>4. rob[i] \in Uops
      BY DEF TInv, TypeOK
    <3>5. rob[i].stale_pdst \in Pregs
      BY <3>4 DEF Uops
    <3> QED
      BY <3>1, <3>3, <3>5
  <2>3. CASE rstate # "rollback"
    <3>1. us[w] = IF w \in fire THEN DisUop(w, fire) ELSE NoUop
      BY <2>1, <2>3 DEF DisRow
    <3>2. w \in fire /\ us[w] = DisUop(w, fire)
      BY <2>1, <3>1
    <3>3. DisUop(w, fire) \in Uops
      BY <3>2, DisUopIs DEF TInv
    <3> HIDE DEF us, fire
    <3>4. us[w] \in Uops
      BY <3>2, <3>3
    <3> QED
      BY <3>4 DEF Uops
  <2> QED
    BY <2>2, <2>3
<1> HIDE DEF us, fire
<1>3. Remapped(map_table, us, S) \in [Lregs -> Pregs]
  BY <1>1, <1>2, RemappedIs
<1> QED
  BY <1>3 DEF RemapTable, us, fire

\* The map table and its snapshots stay of their types.
LEMMA MapsType ==
    ASSUME TInv, NEW B, NEW extra, NEW c, NEW E, NEW R, NEW M, Clocked(B, extra, c, E, R, M)
    PROVE  /\ map_table' \in [Lregs -> Pregs] /\ arch_map' \in [Lregs -> Pregs]
           /\ br_snapshots' \in [Tags -> [Lregs -> Pregs]]
<1> DEFINE fire == DisFire(extra)
<1>1. /\ map_table' = MapTableAfter(fire) /\ br_snapshots' = SnapshotsAfter(fire)
      /\ arch_map' = Remapped(arch_map, rob, 1..c) /\ c \in CommitCounts
      /\ br_snapshots \in [Tags -> [Lregs -> Pregs]] /\ arch_map \in [Lregs -> Pregs]
  BY DEF Clocked, Cycle, TInv, TypeOK
<1>2. \A S : S \subseteq Slots => RemapTable(fire, S) \in [Lregs -> Pregs]
  BY RemapTableType
<1>3. map_table' \in [Lregs -> Pregs]
  <2>1. b2.mispredict => br_snapshots[b2.tag] \in [Lregs -> Pregs]
    BY <1>1 DEF TInv, Control
  <2> QED
    BY <1>1, <1>2, <2>1 DEF MapTableAfter
<1>4. br_snapshots' \in [Tags -> [Lregs -> Pregs]]
  <2>1. ASSUME NEW t \in Tags
        PROVE  (IF BranchSlot(fire, t) = 0 THEN br_snapshots[t]
                ELSE RemapTable(fire, 1..BranchSlot(fire, t))) \in [Lregs -> Pregs]
    <3>1. PICK w : w = BranchSlot(fire, t)
      OBVIOUS
    <3>2. w # 0 => w \in Slots
      BY <3>1, BranchSlotIs, FireIs DEF TInv
    <3>3. w # 0 => 1..w \subseteq Slots
      BY <3>2, Constants
    <3> QED
      BY <1>1, <1>2, <3>1, <3>3
  <2> HIDE DEF fire
  <2> QED
    BY <1>1, <2>1 DEF SnapshotsAfter
<1>5. arch_map' \in [Lregs -> Pregs]
  <2>1. c \in Nat /\ c <= Len(rob) /\ Len(rob) \in Nat
    BY <1>1, KeptIs
  <2>2. \A w \in 1..c : rob[w] \in Uops
    <3>1. \A w \in 1..c : w \in 1..Len(rob)
      BY <2>1
    <3> QED
      BY <3>1 DEF TInv, TypeOK
  <2>3. \A w \in 1..c : rob[w].pdst \in Pregs
    BY <2>2 DEF Uops
  <2>4. 1..c \subseteq 0..c
    BY <2>1
  <2>5. Remapped(arch_map, rob, 1..c) \in [Lregs -> Pregs]
    BY <1>1, <2>1, <2>3, <2>4, RemappedIs
  <2> QED
    BY <1>1, <2>5
<1> QED
  BY <1>3, <1>4, <1>5

\* The registers selected ahead of their use.
LEMMA SelIs ==
    ASSUME TypeOK, NEW w \in Slots
    PROVE  /\ Sel(w) \in Pregs
           /\ Sel(w) # 0 => Sel(w) \in free_list /\ Sel(w) = Nth(free_list, w)
                             /\ w \in 1..Cardinality(free_list)
           /\ free_list \subseteq Nat /\ IsFiniteSet(free_list) /\ Cardinality(free_list) \in Nat
<1>1. free_list \in SUBSET (Pregs \ {0})
  BY DEF TypeOK
<1>2. IsFiniteSet(Pregs)
  <2>1. NumPregs - 1 \in Nat
    BY RenameAssumption
  <2> QED
    BY <2>1, FS_Interval DEF Pregs
<1>3. free_list \subseteq Nat /\ IsFiniteSet(free_list) /\ Cardinality(free_list) \in Nat
  <2>1. free_list \in SUBSET Pregs
    BY <1>1
  <2>2. IsFiniteSet(free_list)
    BY <1>2, <2>1, FS_Subset
  <2> QED
    BY <1>1, <2>2, Constants, FS_CardinalityType
<1>4. CASE w <= Cardinality(free_list)
  <2>1. w \in 1..Cardinality(free_list)
    BY <1>3, <1>4, Constants DEF Slots
  <2>2. Nth(free_list, w) \in free_list
    BY <1>3, <2>1, NthIs
  <2>3. Sel(w) = Nth(free_list, w)
    BY <1>4 DEF Sel
  <2> QED
    BY <1>1, <1>3, <2>1, <2>2, <2>3
<1>5. CASE ~(w <= Cardinality(free_list))
  BY <1>3, <1>5, Constants DEF Sel
<1> QED
  BY <1>4, <1>5

\* The registers given out to a bundle are among those selected ahead.
LEMMA AllocsAre ==
    ASSUME TInv, NEW extra, NEW S
    PROVE  /\ AllocsFrom(DisFire(extra), S) \subseteq Pregs \ {0}
           /\ AllocsFrom(DisFire(extra), S) \subseteq Ahead
           /\ AllocReqs(DisFire(extra)) \subseteq Slots
<1> DEFINE fire == DisFire(extra)
<1>1. /\ fire \subseteq Slots /\ \A w \in fire : Writes(ren2[w]) => alloc_pregs[w] # 0
      /\ alloc_pregs \in [Slots -> Pregs]
  BY FireIs DEF TInv, TypeOK
<1> HIDE DEF fire
<1>2. \A w \in AllocReqs(fire) : w \in Slots /\ alloc_pregs[w] \in Pregs \ {0}
  BY <1>1 DEF AllocReqs
<1>3. AllocReqs(fire) \subseteq Slots
  BY <1>2
<1>4. AllocsFrom(fire, S) \subseteq Pregs \ {0}
  BY <1>2 DEF AllocsFrom
<1>5. AllocsFrom(fire, S) \subseteq Ahead
  BY <1>2 DEF AllocsFrom, Ahead
<1> QED
  BY <1>3, <1>4, <1>5 DEF fire

\* Free list, selected registers, allocation lists and busy table stay of their types.
LEMMA ListsType ==
    ASSUME TInv, NEW B, NEW extra, NEW c, NEW E, NEW R, NEW M, Clocked(B, extra, c, E, R, M)
    PROVE  /\ free_list' \subseteq Pregs \ {0} /\ alloc_pregs' \in [Slots -> Pregs]
           /\ br_alloc_lists' \in [Tags -> SUBSET Pregs] /\ busy_table' \subseteq Pregs \ {0}
<1> DEFINE fire == DisFire(extra)
<1>1. /\ free_list' = FreeListAfter(fire, c) /\ alloc_pregs' = AllocPregsAfter(fire)
      /\ br_alloc_lists' = BrAllocListsAfter(fire) /\ busy_table' = BusyTableAfter(fire, E)
      /\ TypeOK /\ c \in CommitCounts
  BY DEF Clocked, Cycle, TInv
<1>2. \A S : AllocsFrom(fire, S) \subseteq Pregs \ {0}
  BY AllocsAre
<1>3. BrDeallocs \subseteq Pregs
  BY <1>1 DEF BrDeallocs, TypeOK, TInv, Control
<1>4. Deallocs(c) \subseteq Pregs
  <2>1. \A j \in 1..Len(rob) : rob[j] \in Uops
    BY <1>1 DEF TypeOK
  <2>2. \A j \in 1..Len(rob) : rob[j].pdst \in Pregs /\ rob[j].stale_pdst \in Pregs
    BY <2>1 DEF Uops
  <2>3. /\ \A j \in 1..c : j \in 1..Len(rob)
        /\ \A j \in ((Len(rob) - RollbackCount) + 1)..Len(rob) : j \in 1..Len(rob)
    <3>1. c \in Nat /\ c <= Len(rob) /\ Len(rob) \in Nat
      BY <1>1, KeptIs
    <3>2. RollbackCount \in Nat /\ RollbackCount <= Len(rob)
      BY <3>1, Constants DEF RollbackCount
    <3> QED
      BY <3>1, <3>2
  <2>4. Len(rob) - RollbackCount + 1 = (Len(rob) - RollbackCount) + 1
    OBVIOUS
  <2> QED
    BY <2>2, <2>3, <2>4 DEF Deallocs
<1>5. free_list' \subseteq Pregs \ {0}
  <2> HIDE DEF fire
  <2> QED
    BY <1>1, <1>3, <1>4 DEF FreeListAfter, TypeOK
<1>6. alloc_pregs' \in [Slots -> Pregs]
  <2>1. \A w \in Slots : Sel(w) \in Pregs /\ alloc_pregs[w] \in Pregs /\ 0 \in Pregs
    BY <1>1, SelIs, Constants DEF TypeOK
  <2> HIDE DEF fire
  <2> QED
    BY <1>1, <2>1 DEF AllocPregsAfter
<1>7. br_alloc_lists' \in [Tags -> SUBSET Pregs]
  <2>1. \A t \in Tags : br_alloc_lists[t] \subseteq Pregs
    BY <1>1 DEF TypeOK
  <2>2. \A S : AllocsFrom(fire, S) \subseteq Pregs
    BY <1>2
  <2> HIDE DEF fire
  <2>3. \A t \in Tags :
           LET w == BranchSlot(fire, t)
           IN  (IF w # 0 THEN AllocsFrom(fire, (w + 1)..PlWidth)
                ELSE (br_alloc_lists[t] \ BrDeallocs) \cup AllocsFrom(fire, Slots)) \in SUBSET Pregs
    BY <2>1, <2>2
  <2> QED
    BY <1>1, <2>3 DEF BrAllocListsAfter
<1>8. busy_table' \subseteq Pregs \ {0}
  <2>1. AllocsFrom(fire, Slots) \subseteq Pregs \ {0}
    BY <1>2
  <2> HIDE DEF fire
  <2> QED
    BY <1>1, <2>1 DEF BusyTableAfter, TypeOK
<1> QED
  BY <1>5, <1>6, <1>7, <1>8

\* Every variable stays of its type.
LEMMA TypeStep ==
    ASSUME TInv, NEW B, NEW extra, NEW c, NEW E, NEW R, NEW M, Clocked(B, extra, c, E, R, M)
    PROVE  TypeOK'
<1>1. /\ b1' = [res |-> {rob[j].br_tag : j \in R}, mis |-> {rob[j].br_tag : j \in M}]
      /\ R \subseteq CanResolve /\ M \subseteq R /\ b2' = B2After /\ TypeOK /\ Control
      /\ branch_mask' = BranchMaskAfter(B)
      /\ ren2' = [w \in Slots |-> ren2'[w]]
  BY DEF Clocked, Cycle, TInv
<1>2. rob' \in Seq(Uops) /\ rstate' \in {"normal", "x1", "x2", "rollback"}
  BY RobIs, RobStateIs
<1>3. ren2' \in [Slots -> Uops \cup {NoUop}]
  <2>1. ASSUME NEW w \in Slots PROVE ren2'[w] \in Uops \cup {NoUop}
    <3>1. CASE IsUop(ren2'[w])
      BY <3>1, RowNext
    <3>2. CASE ren2'[w] = NoUop
      BY <3>2
    <3>3. ren2'[w] # NoUop => IsUop(ren2'[w])
      <4>1. PICK S : S = AllocReqs(DisFire(extra))
        OBVIOUS
      <4>2. S \subseteq Slots
        BY <4>1, AllocsAre
      <4>3. ASSUME NEW u \in Uops PROVE IsUop(Bypassed(u, S))
        <5>1. Bypassed(u, S) \in Uops
          BY <1>1, <4>2, BypassedIs
        <5> QED
          BY <5>1 DEF Uops, IsUop
      <4>4. IsUop(B[w]) => DecUop(B, w) \in Uops
        BY DecUopIs
      <4>5. w \in Row => ren2[w] \in Uops
        BY <1>1, RowIs
      <4> QED
        BY <4>1, <4>3, <4>4, <4>5, Ren2Is
    <3> QED
      BY <3>1, <3>2, <3>3
  <2> QED
    BY <1>1, <2>1
<1>4. b1' \in [res : SUBSET Tags, mis : SUBSET Tags]
  <2>1. \A j \in R : rob[j].br_tag \in Tags
    BY <1>1 DEF CanResolve, Control
  <2> QED
    BY <1>1, <2>1
<1>5. b2' \in [mispredict : BOOLEAN, tag : Tags \cup {0}, br_mask : SUBSET Tags]
  <2>1. CASE b1.mis = {}
    BY <1>1, <2>1 DEF B2After
  <2>2. CASE b1.mis # {}
    <3>1. Survivors \in 1..Len(rob) /\ OldestMis = rob[Survivors]
      BY <2>2, SurvivorsAre
    <3>2. OldestMis \in Uops
      BY <1>1, <3>1 DEF TypeOK
    <3>3. OldestMis.br_tag \in Tags \cup {0} /\ OldestMis.br_mask \in SUBSET Tags
      BY <3>2 DEF Uops
    <3> QED
      BY <1>1, <2>2, <3>3 DEF B2After
  <2> QED
    BY <2>1, <2>2
<1>6. branch_mask' \subseteq Tags
  <2>1. MaskBefore(B, PlWidth + 1) \subseteq Tags
    <3>1. CASE \E x \in Slots : IsUop(B[x])
      <4>1. \A x \in Slots : ~BranchMaskFull(B, x)
        BY <3>1, DecodeIs
      <4>2. PlWidth + 1 \in 1..(PlWidth + 1)
        BY Constants
      <4>3. MaskBefore(B, PlWidth + 1) = branch_mask \cup
                {NewTag(Branches(B, v)) : v \in {x \in BranchSlots(B) : x < PlWidth + 1}}
        BY <1>1, <4>1, <4>2, NewTagsAre
      <4>4. \A v \in BranchSlots(B) : NewTag(Branches(B, v)) \in Tags
        BY <1>1, <4>1, NewTagsAre
      <4>5. branch_mask \subseteq Tags
        BY <1>1 DEF TypeOK
      <4> QED
        BY <4>3, <4>4, <4>5
    <3>2. CASE ~\E x \in Slots : IsUop(B[x])
      <4>1. \A v \in 1..PlWidth : ~IsBr(B[v])
        BY <3>2 DEF IsBr, IsUop, Slots
      <4>2. (PlWidth + 1) - 1 = PlWidth
        BY Constants
      <4>3. Branches(B, (PlWidth + 1) - 1) = 0
        <5>1. {v \in 1..PlWidth : IsBr(B[v])} = {}
          BY <4>1
        <5> QED
          BY <4>2, <5>1, FS_EmptySet DEF Branches
      <4>4. MaskBefore(B, PlWidth + 1) = branch_mask \cup {NewTag(n) : n \in 1..0}
        BY <4>2, <4>3 DEF MaskBefore
      <4>5. branch_mask \subseteq Tags /\ 1..0 = {}
        BY <1>1 DEF TypeOK
      <4> QED
        BY <4>4, <4>5
    <3> QED
      BY <3>1, <3>2
  <2> QED
    BY <1>1, <2>1 DEF BranchMaskAfter
<1> QED
  BY <1>2, <1>3, <1>4, <1>5, <1>6, MapsType, ListsType DEF TypeOK

-----------------------------------------------------------------------------
\* The invariant holds after reset.
LEMMA InitTInv == Init => TInv
<1> SUFFICES ASSUME Init PROVE TInv
  OBVIOUS
<1>1. \A w \in Slots : ren2[w] = NoUop /\ ~IsUop(ren2[w]) /\ ~IsBr(ren2[w])
  BY DEF Init, NoUop, IsUop, IsBr
<1>2. Row = {} /\ Len(rob) = 0
  BY <1>1 DEF Row, Init
<1>3. TypeOK
  <2>1. /\ map_table \in [Lregs -> Pregs] /\ arch_map \in [Lregs -> Pregs]
        /\ br_snapshots \in [Tags -> [Lregs -> Pregs]] /\ alloc_pregs \in [Slots -> Pregs]
    BY Constants DEF Init
  <2>2. /\ br_alloc_lists \in [Tags -> SUBSET Pregs] /\ ren2 \in [Slots -> Uops \cup {NoUop}]
        /\ free_list \subseteq Pregs \ {0} /\ busy_table \subseteq Pregs \ {0}
        /\ branch_mask \subseteq Tags
    BY DEF Init
  <2>3. /\ rob \in Seq(Uops) /\ rstate \in {"normal", "x1", "x2", "rollback"}
        /\ b1 \in [res : SUBSET Tags, mis : SUBSET Tags]
        /\ b2 \in [mispredict : BOOLEAN, tag : Tags \cup {0}, br_mask : SUBSET Tags]
    BY DEF Init
  <2> QED
    BY <2>1, <2>2, <2>3 DEF TypeOK
<1>4. Control
  BY <1>2 DEF Control, Init
<1>5. Masks /\ Resolved
  BY <1>2 DEF Masks, Resolved, Init
<1>6. MaskKnown
  <2>1. OpenTags(Len(rob)) = {}
    BY <1>2 DEF OpenTags
  <2>2. RenTags(PlWidth) = {}
    BY <1>1 DEF RenTags, Slots
  <2> QED
    BY <2>1, <2>2 DEF MaskKnown, Init
<1> QED
  BY <1>3, <1>4, <1>5, <1>6 DEF TInv

\* Nothing of this can change when nothing changes.
LEMMA StutterTInv == TInv /\ UNCHANGED vars => TInv'
<1> SUFFICES ASSUME TInv, UNCHANGED vars PROVE TInv'
  OBVIOUS
<1>0. /\ map_table' = map_table /\ br_snapshots' = br_snapshots /\ free_list' = free_list
      /\ alloc_pregs' = alloc_pregs /\ br_alloc_lists' = br_alloc_lists
      /\ busy_table' = busy_table /\ branch_mask' = branch_mask /\ ren2' = ren2 /\ rob' = rob
      /\ b1' = b1 /\ b2' = b2 /\ rstate' = rstate /\ arch_map' = arch_map
  BY DEF vars
<1>1. TypeOK'
  BY <1>0 DEF TInv, TypeOK
<1>2. Row' = Row /\ \A n : OpenTags(n)' = OpenTags(n) /\ RenTags(n)' = RenTags(n)
  BY <1>0 DEF Row, OpenTags, RenTags
<1>3. Control'
  BY <1>0, <1>2 DEF TInv, Control
<1>4. Masks'
  BY <1>0, <1>2 DEF TInv, Masks
<1>5. Resolved'
  BY <1>0 DEF TInv, Resolved
<1>6. MaskKnown'
  BY <1>0, <1>2 DEF TInv, MaskKnown, Redirecting, Mispredicting, XcptPending
<1> QED
  BY <1>1, <1>3, <1>4, <1>5, <1>6 DEF TInv

\* A cycle keeps it.
LEMMA NextTInv == TInv /\ [Next]_vars => TInv'
<1>1. ASSUME TInv, NEW B, NEW extra, NEW c, NEW E, NEW R, NEW M, Clocked(B, extra, c, E, R, M)
      PROVE  TInv'
  BY <1>1, TypeStep, ControlStep, MasksStep, ResolvedStep, MaskKnownStep DEF TInv
<1>2. ASSUME Next PROVE \E B, extra, c, E, R, M : Clocked(B, extra, c, E, R, M)
  BY <1>2 DEF Next, Clocked
<1> QED
  BY <1>1, <1>2, StutterTInv

\* Types, the states of the core, masks and tags are as TInv says in every
\* reachable state, for any number of tags, registers and ROB entries.
THEOREM TagInvariance == Spec => []TInv
<1>1. Init => TInv
  BY InitTInv
<1>2. TInv /\ [Next]_vars => TInv'
  BY NextTInv
<1> QED
  BY <1>1, <1>2, PTL DEF Spec

-----------------------------------------------------------------------------
\* The invariant implies that tags in flight differ and that none is lost.
LEMMA TagsFollow == TInv => TagsRight
<1> SUFFICES ASSUME TInv PROVE TagsRight
  OBVIOUS
<1>1. \A i \in Unresolved : i \in 1..Len(rob) /\ Open(rob[i])
  BY DEF Unresolved, Open
<1>2. \A i, j \in Unresolved : rob[i].br_tag = rob[j].br_tag => i = j
  BY <1>1, TagsDiffer DEF TInv
<1>3. \A i \in Unresolved, w \in Slots : IsBr(ren2[w]) => ren2[w].br_tag # rob[i].br_tag
  <2>1. \A i \in Unresolved : rob[i].br_tag \in OpenTags(Len(rob))
    BY <1>1 DEF OpenTags
  <2>2. \A w \in Slots : IsBr(ren2[w]) => ren2[w].br_tag \notin OpenTags(Len(rob))
    BY RowIs, RenTagsFresh DEF TInv
  <2> QED
    BY <2>1, <2>2
<1>4. ASSUME NEW v \in Slots, NEW w \in Slots, IsBr(ren2[v]), IsBr(ren2[w]),
             ren2[v].br_tag = ren2[w].br_tag
      PROVE  v = w
  <2>1. v \in Row /\ w \in Row /\ v \in Nat /\ w \in Nat
    BY <1>4, RowIs, Constants DEF TInv
  <2>2. ~(v < w) /\ ~(w < v)
    BY <1>4, <2>1, RenTagsFresh
  <2> QED
    BY <2>1, <2>2
<1>5. ASSUME ~Redirecting, rstate = "normal", NEW t \in branch_mask \ b1.res
      PROVE  t \in {rob[i].br_tag : i \in Unresolved}
                       \cup {ren2[w].br_tag : w \in {v \in Slots : IsBr(ren2[v])}}
  <2>1. t \in OpenTags(Len(rob)) \cup RenTags(PlWidth)
    BY <1>5 DEF TInv, MaskKnown
  <2>2. CASE t \in OpenTags(Len(rob))
    <3>1. PICK i \in 1..Len(rob) : Open(rob[i]) /\ rob[i].br_tag = t
      BY <2>2 DEF OpenTags
    <3>2. rob[i].st # "resolved"
      BY <3>1, ResolvedIs
    <3>3. i \in Unresolved
      BY <3>1, <3>2 DEF Open, Unresolved
    <3> QED
      BY <3>1, <3>3
  <2>3. CASE t \in RenTags(PlWidth)
    BY <2>3 DEF RenTags, Slots
  <2> QED
    BY <2>1, <2>2, <2>3
<1>6. NoTagLost
  BY <1>5 DEF NoTagLost
<1> QED
  BY <1>2, <1>3, <1>4, <1>6 DEF TagsRight, TagsUnique

\* Two branches in flight never have the same tag, and no tag is lost
\* (decode.scala 765-813), for any number of tags and any width.
THEOREM TagsRightHolds == Spec => []TagsRight
<1>1. TInv => TagsRight
  BY TagsFollow
<1> QED
  BY <1>1, TagInvariance, PTL

-----------------------------------------------------------------------------
(***************************************************************************)
(* From the tags to the registers: the map table, the operands, the free   *)
(* list and the busy table.                                                *)
(***************************************************************************)

\* A branch in flight has the map table to return to, and so has the
\* misprediction that is being repaired.
Snapshots ==
    /\ \A j \in 1..Len(rob) : Open(rob[j]) => br_snapshots[rob[j].br_tag] = MapBefore(j)
    /\ b2.mispredict => br_snapshots[b2.tag] = MapBefore(Len(rob) + 1)

\* What waits in front of dispatch follows the map table.
Ren2Right ==
    \A w \in Row : /\ ren2[w].prs1 = map_table[ren2[w].lrs1]
                   /\ Writes(ren2[w]) => ren2[w].stale_pdst = map_table[ren2[w].ldst]

MInv == TInv /\ MapTableRight /\ Snapshots /\ OperandsRight /\ Ren2Right

\* The uop us[w] writes l; none of S does; of S, y is the last that does.
Hit(us, w, l)         == Writes(us[w]) /\ us[w].ldst = l
Unwritten(us, S, l)   == \A w \in S : ~Hit(us, w, l)
Youngest(us, S, l, y) == y \in S /\ Hit(us, y, l) /\ \A v \in S : v > y => ~Hit(us, v, l)
Bounded(S)            == \E n \in Nat : S \subseteq 0..n

\* The first i uops of q write what those of p behind the first c do.
Follows(q, p, c, i) == \A j \in 1..i : /\ q[j].k = p[j + c].k /\ q[j].ldst = p[j + c].ldst
                                       /\ q[j].pdst = p[j + c].pdst

-----------------------------------------------------------------------------
\* A register that nothing writes keeps its mapping, otherwise the youngest
\* writer decides.
LEMMA NoHit ==
    ASSUME NEW m, NEW us, NEW S, NEW l \in Lregs, Unwritten(us, S, l), NEW r, r = Remapped(m, us, S)
    PROVE  r[l] = m[l]
<1>1. {w \in S : Writes(us[w]) /\ us[w].ldst = l} = {}
  BY DEF Unwritten, Hit
<1> QED
  BY <1>1 DEF Remapped

\* A map table that is updated by a sequence of uops has for a register the destination
\* of its youngest writer.
LEMMA LastHit ==
    ASSUME NEW m, NEW us, NEW S, Bounded(S), NEW l \in Lregs, NEW y, Youngest(us, S, l, y),
           NEW r, r = Remapped(m, us, S)
    PROVE  r[l] = us[y].pdst
<1> DEFINE T == {w \in S : Writes(us[w]) /\ us[w].ldst = l}
<1>0. PICK n \in Nat : S \subseteq 0..n
  BY DEF Bounded
<1>1. y \in T /\ T \subseteq 0..n /\ \A v \in T : v \in S /\ Hit(us, v, l)
  BY <1>0 DEF Hit, Youngest
<1>2. r[l] = us[Greatest(T)].pdst
  BY <1>1 DEF Remapped
<1> HIDE DEF T
<1>3. PICK g : g = Greatest(T) /\ g \in T /\ \A v \in T : v <= g
  BY <1>1, GreatestIs
<1>4. y <= g /\ ~(g > y) /\ y \in Nat /\ g \in Nat
  BY <1>1, <1>3 DEF Youngest
<1>5. y = g
  BY <1>4
<1> QED
  BY <1>2, <1>3, <1>5

\* A register has a youngest writer or none.
LEMMA HitIs ==
    ASSUME NEW us, NEW S, Bounded(S), NEW l
    PROVE  Unwritten(us, S, l) \/ \E y : Youngest(us, S, l, y)
<1>0. PICK n \in Nat : S \subseteq 0..n
  BY DEF Bounded
<1>1. PICK T : T = {w \in S : Hit(us, w, l)}
  OBVIOUS
<1>2. T \subseteq 0..n /\ \A w \in T : w \in S /\ Hit(us, w, l)
  BY <1>0, <1>1
<1>3. CASE T = {}
  BY <1>1, <1>3 DEF Unwritten
<1>4. CASE T # {}
  <2>1. PICK g : g = Greatest(T) /\ g \in T /\ \A y \in T : y <= g
    BY <1>2, <1>4, GreatestIs
  <2>2. g \in S /\ Hit(us, g, l) /\ g \in Nat
    BY <1>2, <2>1
  <2>3. ASSUME NEW v \in S, v > g, Hit(us, v, l) PROVE FALSE
    <3>1. v \in T
      BY <1>1, <2>3
    <3>2. v <= g /\ v \in Nat
      BY <1>2, <2>1, <3>1
    <3> QED
      BY <2>2, <2>3, <3>2
  <2> QED
    BY <2>2, <2>3 DEF Youngest
<1> QED
  BY <1>3, <1>4

\* The index sets that occur have a bound.
LEMMA BoundedIs ==
    /\ \A c \in Nat : \A S : S \subseteq 1..c => Bounded(S)
    /\ \A S : S \subseteq Slots => Bounded(S)
<1>1. ASSUME NEW c \in Nat, NEW S, S \subseteq 1..c PROVE Bounded(S)
  <2>1. 1..c \subseteq 0..c
    OBVIOUS
  <2> QED
    BY <1>1, <2>1 DEF Bounded
<1> QED
  BY <1>1, Constants DEF Slots

\* Map tables that agree on every register are the same.
LEMMA SameMap ==
    ASSUME NEW m, NEW us, NEW S, NEW n, NEW vs, NEW T, NEW f, NEW h,
           f = Remapped(m, us, S), h = Remapped(n, vs, T), \A l \in Lregs : f[l] = h[l]
    PROVE  f = h
<1>1. f = [l \in Lregs |-> f[l]] /\ h = [l \in Lregs |-> h[l]]
  BY DEF Remapped
<1> QED
  BY <1>1

\* Updating by a stretch of a queue after what is in front of it.
LEMMA RemappedShift ==
    ASSUME NEW m, NEW p, NEW q, NEW c \in Nat, NEW i \in Nat, NEW d, d = i + c,
           Follows(q, p, c, i)
    PROVE  Remapped(Remapped(m, p, 1..c), q, 1..i) = Remapped(m, p, 1..d)
<1>1. /\ d \in Nat /\ c <= d /\ 1..c \subseteq 1..d /\ \A j \in 1..i : j + c \in 1..d
      /\ Bounded(1..c) /\ Bounded(1..i) /\ Bounded(1..d)
  <2>1. d \in Nat /\ c <= d /\ 1..c \subseteq 1..d /\ \A j \in 1..i : j + c \in 1..d
    OBVIOUS
  <2> QED
    BY <2>1, BoundedIs
<1>2. PICK r : r = Remapped(m, p, 1..c)
  OBVIOUS
<1>3. PICK s : s = Remapped(r, q, 1..i)
  OBVIOUS
<1>4. PICK t : t = Remapped(m, p, 1..d)
  OBVIOUS
<1>5. \A j \in 1..i : \A l : (Hit(q, j, l) <=> Hit(p, j + c, l)) /\ q[j].pdst = p[j + c].pdst
  BY DEF Writes, Hit, Follows
<1>6. ASSUME NEW l \in Lregs PROVE s[l] = t[l]
  <2>1. CASE Unwritten(p, 1..d, l)
    <3>1. t[l] = m[l]
      BY <1>4, <2>1, NoHit
    <3>2. Unwritten(p, 1..c, l)
      BY <1>1, <2>1 DEF Unwritten
    <3>3. Unwritten(q, 1..i, l)
      BY <1>1, <1>5, <2>1 DEF Unwritten
    <3>4. r[l] = m[l]
      BY <1>2, <3>2, NoHit
    <3>5. s[l] = r[l]
      BY <1>3, <3>3, NoHit
    <3> QED
      BY <3>1, <3>4, <3>5
  <2>2. CASE \E y : Youngest(p, 1..d, l, y)
    <3>1. PICK y : Youngest(p, 1..d, l, y)
      BY <2>2
    <3>2. t[l] = p[y].pdst
      BY <1>1, <1>4, <3>1, LastHit
    <3>3. y \in 1..d /\ Hit(p, y, l) /\ \A v \in 1..d : v > y => ~Hit(p, v, l)
      BY <3>1 DEF Youngest
    <3>4. CASE y <= c
      <4>1. Youngest(p, 1..c, l, y)
        <5>1. y \in 1..c
          BY <1>1, <3>3, <3>4
        <5> QED
          BY <1>1, <3>3, <5>1 DEF Youngest
      <4>2. r[l] = p[y].pdst
        BY <1>1, <1>2, <4>1, LastHit
      <4>3. Unwritten(q, 1..i, l)
        <5>1. \A w \in 1..i : w + c > y
          BY <1>1, <3>3, <3>4
        <5> QED
          BY <1>1, <1>5, <3>3, <5>1 DEF Unwritten
      <4>4. s[l] = r[l]
        BY <1>3, <4>3, NoHit
      <4> QED
        BY <3>2, <4>2, <4>4
    <3>5. CASE y > c
      <4>1. PICK x \in 1..i : y = x + c
        <5>1. y - c \in 1..i /\ y = (y - c) + c
          BY <1>1, <3>3, <3>5
        <5> QED
          BY <5>1
      <4>2. Hit(q, x, l) /\ q[x].pdst = p[y].pdst
        BY <1>5, <3>3, <4>1
      <4>3. ASSUME NEW v \in 1..i, v > x PROVE ~Hit(q, v, l)
        <5>1. v + c > y /\ v + c \in 1..d
          BY <1>1, <4>1, <4>3
        <5> QED
          BY <1>5, <3>3, <5>1
      <4>4. Youngest(q, 1..i, l, x)
        BY <4>2, <4>3 DEF Youngest
      <4>5. s[l] = q[x].pdst
        BY <1>1, <1>3, <4>4, LastHit
      <4> QED
        BY <3>2, <4>2, <4>5
    <3> QED
      BY <1>1, <3>3, <3>4, <3>5
  <2> QED
    BY <1>1, <2>1, <2>2, HitIs
<1>7. s = t
  BY <1>3, <1>4, <1>6, SameMap
<1> QED
  BY <1>2, <1>3, <1>4, <1>7

\* Updating by the same uops in the same order, numbered otherwise.
LEMMA RemappedAlong ==
    ASSUME NEW m, NEW q, NEW i \in Nat, NEW us,
           NEW T, T \subseteq Slots, NEW g \in [1..i -> T],
           \A x \in 1..i : /\ q[x].k = us[g[x]].k /\ q[x].ldst = us[g[x]].ldst
                           /\ q[x].pdst = us[g[x]].pdst,
           \A x, y \in 1..i : x < y => g[x] < g[y],
           \A w \in T : Writes(us[w]) => \E x \in 1..i : g[x] = w
    PROVE  Remapped(m, q, 1..i) = Remapped(m, us, T)
<1>1. /\ Bounded(1..i) /\ Bounded(T) /\ \A x \in 1..i : g[x] \in T /\ g[x] \in Nat /\ x \in Nat
  <2>1. Bounded(1..i) /\ Bounded(T)
    BY BoundedIs
  <2>2. \A x \in 1..i : g[x] \in T
    OBVIOUS
  <2>3. \A y \in T : y \in Nat
    BY Constants
  <2>4. \A x \in 1..i : g[x] \in Nat /\ x \in Nat
    BY <2>2, <2>3
  <2> QED
    BY <2>1, <2>2, <2>4
<1>2. PICK s : s = Remapped(m, q, 1..i)
  OBVIOUS
<1>3. PICK t : t = Remapped(m, us, T)
  OBVIOUS
<1>4. \A x \in 1..i : \A l : Hit(q, x, l) <=> Hit(us, g[x], l)
  BY DEF Writes, Hit
<1>5. ASSUME NEW l \in Lregs PROVE s[l] = t[l]
  <2>1. CASE Unwritten(us, T, l)
    <3>1. t[l] = m[l]
      BY <1>3, <2>1, NoHit
    <3>2. Unwritten(q, 1..i, l)
      BY <1>1, <1>4, <2>1 DEF Unwritten
    <3>3. s[l] = m[l]
      BY <1>2, <3>2, NoHit
    <3> QED
      BY <3>1, <3>3
  <2>2. CASE \E y : Youngest(us, T, l, y)
    <3>1. PICK y : Youngest(us, T, l, y)
      BY <2>2
    <3>2. t[l] = us[y].pdst
      BY <1>1, <1>3, <3>1, LastHit
    <3>3. y \in T /\ Hit(us, y, l) /\ \A v \in T : v > y => ~Hit(us, v, l)
      BY <3>1 DEF Youngest
    <3>4. PICK x \in 1..i : g[x] = y
      BY <3>3 DEF Hit
    <3>5. Hit(q, x, l) /\ q[x].pdst = us[y].pdst
      BY <1>4, <3>3, <3>4
    <3>6. ASSUME NEW v \in 1..i, v > x PROVE ~Hit(q, v, l)
      <4>1. x < v
        BY <1>1, <3>6
      <4>2. g[x] < g[v]
        BY <4>1
      <4>3. g[v] > y /\ g[v] \in T
        BY <1>1, <3>4, <4>2
      <4> QED
        BY <1>4, <3>3, <4>3
    <3>7. Youngest(q, 1..i, l, x)
      BY <3>5, <3>6 DEF Youngest
    <3>8. s[l] = q[x].pdst
      BY <1>1, <1>2, <3>7, LastHit
    <3> QED
      BY <3>2, <3>5, <3>8
  <2> QED
    BY <1>1, <2>1, <2>2, HitIs
<1> QED
  BY <1>2, <1>3, <1>5, SameMap

-----------------------------------------------------------------------------
\* What dispatches, slot by slot.
LEMMA DisRowIs ==
    ASSUME TInv, NEW extra, NEW w \in Slots
    PROVE  LET fire == DisFire(extra)
           IN  /\ Writes(DisRow(fire)[w]) <=> w \in AllocReqs(fire)
               /\ w \in fire => DisRow(fire)[w] = DisUop(w, fire)
               /\ w \in AllocReqs(fire) => /\ DisRow(fire)[w].ldst = ren2[w].ldst
                                           /\ DisRow(fire)[w].pdst = alloc_pregs[w]
<1> DEFINE fire == DisFire(extra)
<1>1. DisRow(fire)[w] = IF w \in fire THEN DisUop(w, fire) ELSE NoUop
  BY DEF DisRow
<1>2. ~Writes(NoUop)
  BY DEF NoUop, Writes
<1>3. ASSUME w \in fire
      PROVE  LET d == DisUop(w, fire)
             IN  /\ Writes(d) <=> Writes(ren2[w]) 
                 /\ d.ldst = ren2[w].ldst /\ (Writes(ren2[w]) => d.pdst = alloc_pregs[w])
  <2> DEFINE d == DisUop(w, fire)
  <2>1. /\ d.k = ren2[w].k /\ d.ldst = ren2[w].ldst
        /\ d.pdst = (IF Writes(ren2[w]) THEN alloc_pregs[w] ELSE 0)
    BY <1>3, DisUopIs DEF TInv
  <2> HIDE DEF d
  <2>2. Writes(d) <=> Writes(ren2[w])
    BY <2>1 DEF Writes
  <2> QED
    BY <2>1, <2>2 DEF d
<1>4. w \in AllocReqs(fire) <=> w \in fire /\ Writes(ren2[w])
  BY DEF AllocReqs
<1> HIDE DEF fire
<1> QED
  BY <1>1, <1>2, <1>3, <1>4 DEF fire

\* The map table in front of an entry that stays does not change.
LEMMA MapShift ==
    ASSUME TInv, NEW B, NEW extra, NEW c, NEW E, NEW R, NEW M, Clocked(B, extra, c, E, R, M),
           NEW n \in 0..(Kept - c)
    PROVE  MapBefore(n + 1)' = MapBefore((n + c) + 1)
<1>1. /\ arch_map' = Remapped(arch_map, rob, 1..c) /\ c \in CommitCounts /\ TypeOK
  BY DEF Clocked, Cycle, TInv
<1>2. /\ c \in Nat /\ Kept \in Nat /\ Kept <= Len(rob) /\ Len(rob) \in Nat /\ n \in Nat
      /\ n <= Kept - c
  BY <1>1, KeptIs
<1>3. (n + 1) - 1 = n /\ ((n + c) + 1) - 1 = n + c
  BY <1>2
<1>4. MapBefore(n + 1)' = Remapped(arch_map', rob', 1..n)
  BY <1>3 DEF MapBefore
<1>5. MapBefore((n + c) + 1) = Remapped(arch_map, rob, 1..(n + c))
  BY <1>3 DEF MapBefore
<1>6. ASSUME NEW j \in 1..n
      PROVE  /\ rob'[j].k = rob[j + c].k /\ rob'[j].ldst = rob[j + c].ldst
             /\ rob'[j].pdst = rob[j + c].pdst
  <2>1. j \in 1..(Kept - c)
    BY <1>2
  <2>2. j + c \in 1..Kept /\ rob'[j] = RobExec(E, R)[j + c]
    BY <2>1, RobIs
  <2>3. PICK i : i = j + c
    OBVIOUS
  <2>4. i \in 1..Len(rob)
    BY <1>2, <2>2, <2>3
  <2>5. /\ RobExec(E, R)[i].k = rob[i].k /\ RobExec(E, R)[i].ldst = rob[i].ldst
        /\ RobExec(E, R)[i].pdst = rob[i].pdst
    BY <1>1, <2>4, ExecIs
  <2> QED
    BY <2>2, <2>3, <2>5
<1>7. Remapped(Remapped(arch_map, rob, 1..c), rob', 1..n) = Remapped(arch_map, rob, 1..(n + c))
  <2>1. Follows(rob', rob, c, n)
    BY <1>6 DEF Follows
  <2>2. PICK d : d = n + c
    OBVIOUS
  <2>3. Remapped(Remapped(arch_map, rob, 1..c), rob', 1..n) = Remapped(arch_map, rob, 1..d)
    BY <1>2, <2>1, <2>2, RemappedShift
  <2> QED
    BY <2>2, <2>3
<1> QED
  BY <1>1, <1>4, <1>5, <1>7

\* The map table behind what dispatches from the slots of T.
LEMMA MapDispatch ==
    ASSUME TInv, NEW B, NEW extra, NEW c, NEW E, NEW R, NEW M, Clocked(B, extra, c, E, R, M),
           NEW k, k = Kept - c, NEW i \in 0..Cardinality(DisFire(extra)),
           NEW T, T \subseteq Slots,
           \A x \in 1..i : Nth(DisFire(extra), x) \in T,
           \A v \in T : v \in DisFire(extra) => \E x \in 1..i : Nth(DisFire(extra), x) = v
    PROVE  MapBefore((k + i) + 1)' = Remapped(MapBefore(Kept + 1), DisRow(DisFire(extra)), T)
<1> DEFINE fire == DisFire(extra)
           q == [x \in 1..i |-> rob'[k + x]]
           g == [x \in 1..i |-> Nth(fire, x)]
<1>1. PICK n : n = Cardinality(fire)
  OBVIOUS
<1>2. /\ n \in Nat /\ k \in Nat /\ i \in Nat /\ i <= n /\ c \in Nat /\ Kept \in Nat
      /\ \A x \in 1..n : rob'[k + x] = DisUop(Nth(fire, x), fire)
  <2>1. /\ n \in Nat /\ k \in Nat /\ \A x \in 1..n : rob'[k + x] = DisUop(Nth(fire, x), fire)
    BY <1>1, RobIs
  <2>2. c \in Nat /\ Kept \in Nat
    BY KeptIs DEF Clocked
  <2> QED
    BY <1>1, <2>1, <2>2
<1>3. MapBefore(k + 1)' = MapBefore(Kept + 1)
  <2>1. k \in 0..(Kept - c) /\ k + c = Kept
    BY <1>2
  <2>2. MapBefore(k + 1)' = MapBefore((k + c) + 1)
    BY <2>1, MapShift
  <2> QED
    BY <2>1, <2>2
<1>4. /\ MapBefore(k + 1)' = Remapped(arch_map', rob', 1..k)
      /\ MapBefore((k + i) + 1)' = Remapped(arch_map', rob', 1..(k + i))
  <2>1. (k + 1) - 1 = k /\ ((k + i) + 1) - 1 = k + i
    BY <1>2
  <2> QED
    BY <2>1 DEF MapBefore
<1>5. Remapped(Remapped(arch_map', rob', 1..k), q, 1..i) = Remapped(arch_map', rob', 1..(k + i))
  <2>1. k + i = i + k /\ \A j \in 1..i : k + j = j + k
    BY <1>2
  <2>2. \A j \in 1..i : q[j] = rob'[j + k]
    BY <2>1
  <2>3. PICK d : d = i + k
    OBVIOUS
  <2> HIDE DEF q
  <2>5. Follows(q, rob', k, i)
    BY <2>2 DEF Follows
  <2>4. Remapped(Remapped(arch_map', rob', 1..k), q, 1..i) = Remapped(arch_map', rob', 1..d)
    BY <1>2, <2>5, <2>3, RemappedShift
  <2> QED
    BY <2>1, <2>3, <2>4
<1>6. ASSUME NEW m PROVE Remapped(m, q, 1..i) = Remapped(m, DisRow(fire), T)
  <2>1. fire \subseteq Nat /\ fire \subseteq Slots /\ IsFiniteSet(fire)
    BY FireIs DEF TInv
  <2>2. g \in [1..i -> T] /\ \A x \in 1..i : g[x] = Nth(fire, x)
    OBVIOUS
  <2>3. \A x \in 1..i : x \in 1..n /\ x \in 1..Cardinality(fire)
    BY <1>1, <1>2
  <2>4. \A x \in 1..i : Nth(fire, x) \in fire
    BY <2>1, <2>3, NthIs
  <2>5. ASSUME NEW x \in 1..i
        PROVE  q[x] = DisRow(fire)[g[x]]
    <3>1. q[x] = DisUop(Nth(fire, x), fire)
      BY <1>2, <2>3
    <3>2. Nth(fire, x) \in Slots
      BY <2>1, <2>4
    <3>3. DisRow(fire)[Nth(fire, x)] = DisUop(Nth(fire, x), fire)
      BY <2>4, <3>2, DisRowIs
    <3> QED
      BY <2>2, <3>1, <3>3
  <2>6. ASSUME NEW x \in 1..i, NEW y \in 1..i, x < y PROVE g[x] < g[y]
    BY <2>1, <2>2, <2>3, <2>6, NthOrder
  <2>7. ASSUME NEW w \in T, Writes(DisRow(fire)[w]) PROVE \E x \in 1..i : g[x] = w
    <3>1. w \in Slots
      OBVIOUS
    <3>2. w \in fire
      BY <2>7, <3>1, DisRowIs DEF AllocReqs
    <3> QED
      BY <2>2, <3>2
  <2> HIDE DEF q, g
  <2> QED
    BY <1>2, <2>2, <2>5, <2>6, <2>7, RemappedAlong
<1> HIDE DEF q, g
<1> QED
  BY <1>3, <1>4, <1>5, <1>6

\* In front of what dispatches from slot w, and behind all of it.
LEMMA MapDispatched ==
    ASSUME TInv, NEW B, NEW extra, NEW c, NEW E, NEW R, NEW M, Clocked(B, extra, c, E, R, M),
           NEW k, k = Kept - c
    PROVE  LET fire == DisFire(extra)
           IN  /\ \A w \in fire : \A i : i = Below(fire, w) =>
                     /\ MapBefore((k + i) + 1)'
                            = Remapped(MapBefore(Kept + 1), DisRow(fire), 1..(w - 1))
                     /\ 1..(w - 1) \subseteq Slots
               /\ MapBefore(Len(rob) + 1)' = Remapped(MapBefore(Kept + 1), DisRow(fire), Slots)
<1> DEFINE fire == DisFire(extra)
<1>1. fire \subseteq Nat /\ fire \subseteq Slots /\ IsFiniteSet(fire)
  BY FireIs DEF TInv
<1>2. PICK n : n = Cardinality(fire)
  OBVIOUS
<1>3. n \in Nat /\ k \in Nat /\ Len(rob') = k + n
  BY <1>2, RobIs
<1> HIDE DEF fire
<1>4. ASSUME NEW w \in fire, NEW i, i = Below(fire, w)
      PROVE  /\ MapBefore((k + i) + 1)'
                    = Remapped(MapBefore(Kept + 1), DisRow(fire), 1..(w - 1))
             /\ 1..(w - 1) \subseteq Slots
  <2>1. i \in Nat /\ i < n /\ i \in 0..n
    <3>1. i \in Nat /\ i < n
      BY <1>1, <1>2, <1>4, BelowIs
    <3> QED
      BY <1>3, <3>1
  <2>2. w \in Nat /\ 1..(w - 1) \subseteq Slots
    BY <1>1, Constants
  <2>3. ASSUME NEW x \in 1..i PROVE Nth(fire, x) \in 1..(w - 1)
    <3>1. x \in 1..Cardinality(fire) /\ x - 1 < i /\ x - 1 \in Nat
      BY <1>2, <1>3, <2>1
    <3>2. PICK v : v = Nth(fire, x) /\ v \in fire /\ Below(fire, v) = x - 1
      BY <1>1, <3>1, NthIs
    <3>3. v \in Nat /\ v > 0 /\ v \in Slots
      BY <1>1, <3>2 DEF Slots
    <3>4. w <= v => Below(fire, w) <= Below(fire, v)
      BY <1>1, <2>2, <3>3, BelowMono
    <3>5. v < w
      BY <1>4, <2>1, <2>2, <3>1, <3>2, <3>3, <3>4
    <3> QED
      BY <2>2, <3>2, <3>3, <3>5
  <2>4. ASSUME NEW v \in 1..(w - 1), v \in fire PROVE \E x \in 1..i : Nth(fire, x) = v
    <3>1. v < w /\ v \in Nat
      BY <2>2
    <3>2. Below(fire, v) \in Nat /\ Below(fire, v) < i
      <4>1. Below(fire, v) < Below(fire, w)
        BY <1>1, <2>2, <2>4, <3>1, BelowMono
      <4> QED
        BY <1>1, <1>4, <3>1, <4>1, BelowMono
    <3>3. PICK x \in 1..Cardinality(fire) : Nth(fire, x) = v /\ x = Below(fire, v) + 1
      BY <1>1, <2>4, NthOnto
    <3>4. x \in 1..i
      BY <2>1, <3>2, <3>3
    <3> QED
      BY <3>3, <3>4
  <2>5. PICK T : T = 1..(w - 1)
    OBVIOUS
  <2>6. i \in 0..Cardinality(DisFire(extra))
    BY <1>2, <2>1 DEF fire
  <2>7. MapBefore((k + i) + 1)' = Remapped(MapBefore(Kept + 1), DisRow(DisFire(extra)), T)
    <3>1. \A x \in 1..i : Nth(DisFire(extra), x) \in T
      BY <2>3, <2>5 DEF fire
    <3>2. \A v \in T : v \in DisFire(extra) => \E x \in 1..i : Nth(DisFire(extra), x) = v
      BY <2>4, <2>5 DEF fire
    <3>3. T \subseteq Slots
      BY <2>2, <2>5
    <3> QED
      BY <2>6, <3>1, <3>2, <3>3, MapDispatch
  <2> QED
    BY <2>2, <2>5, <2>7 DEF fire
<1>5. MapBefore(Len(rob) + 1)' = Remapped(MapBefore(Kept + 1), DisRow(fire), Slots)
  <2>1. n \in 0..Cardinality(DisFire(extra))
    BY <1>2, <1>3 DEF fire
  <2>2. \A x \in 1..n : Nth(fire, x) \in Slots
    BY <1>1, <1>2, NthIs
  <2>3. \A v \in Slots : v \in fire => \E x \in 1..n : Nth(fire, x) = v
    BY <1>1, <1>2, NthOnto
  <2>4. PICK T : T = Slots
    OBVIOUS
  <2>5. MapBefore((k + n) + 1)' = Remapped(MapBefore(Kept + 1), DisRow(DisFire(extra)), T)
    BY <2>1, <2>2, <2>3, <2>4, MapDispatch DEF fire
  <2>6. MapBefore(Len(rob) + 1)' = MapBefore((k + n) + 1)'
    BY <1>3 DEF MapBefore
  <2> QED
    BY <2>4, <2>5, <2>6 DEF fire
<1> QED
  BY <1>4, <1>5 DEF fire

-----------------------------------------------------------------------------
\* The bypasses of a bundle give what its map table would.
LEMMA BypassRemap ==
    ASSUME TInv, NEW extra, NEW S, S \subseteq Slots, NEW l \in Lregs,
           NEW r, r = Remapped(map_table, DisRow(DisFire(extra)), S),
           NEW T, T = AllocReqs(DisFire(extra)) \cap S
    PROVE  Bypass(map_table[l], l, T) = r[l]
<1> DEFINE us == DisRow(DisFire(extra))
<1>0. PICK m : m = map_table /\ m \in [Lregs -> Pregs]
  BY DEF TInv, TypeOK
<1>1. T \subseteq Slots /\ Bounded(S) /\ m[l] \in Pregs /\ TypeOK
  BY <1>0, BoundedIs DEF TInv
<1>2. \A v \in S : Hit(us, v, l) <=> v \in T /\ ren2[v].ldst = l
  BY DisRowIs DEF Hit
<1>3. \A v \in T : v \in S /\ us[v].pdst = alloc_pregs[v]
  BY DisRowIs
<1> HIDE DEF us
<1>4. CASE Unwritten(us, S, l)
  <2>1. r[l] = m[l]
    BY <1>0, <1>4, NoHit DEF us
  <2>2. \A v \in T : ren2[v].ldst # l
    BY <1>2, <1>3, <1>4 DEF Unwritten
  <2>3. Bypass(m[l], l, T) = m[l]
    BY <1>1, <2>2, BypassIs
  <2> QED
    BY <1>0, <2>1, <2>3
<1>5. CASE \E y : Youngest(us, S, l, y)
  <2>1. PICK y : Youngest(us, S, l, y)
    BY <1>5
  <2>2. r[l] = us[y].pdst
    BY <1>0, <1>1, <2>1, LastHit DEF us
  <2>3. /\ y \in T /\ ren2[y].ldst = l /\ us[y].pdst = alloc_pregs[y]
        /\ \A v \in T : v > y => ren2[v].ldst # l
    BY <1>2, <1>3, <2>1 DEF Youngest
  <2>4. Bypass(m[l], l, T) = alloc_pregs[y]
    BY <1>1, <2>3, BypassIs
  <2> QED
    BY <1>0, <2>2, <2>3, <2>4
<1> QED
  BY <1>1, <1>4, <1>5, HitIs

\* Entries that do not write a register leave its mapping.
LEMMA MapSame ==
    ASSUME TypeOK, NEW a \in Nat, NEW b \in Nat, 1 <= a, a <= b, NEW l \in Lregs,
           \A j \in a..(b - 1) : ~Hit(rob, j, l)
    PROVE  MapBefore(b)[l] = MapBefore(a)[l]
<1>1. PICK s : s = MapBefore(a) /\ s = Remapped(arch_map, rob, 1..(a - 1))
  BY DEF MapBefore
<1>2. PICK t : t = MapBefore(b) /\ t = Remapped(arch_map, rob, 1..(b - 1))
  BY DEF MapBefore
<1>3. Bounded(1..(a - 1)) /\ Bounded(1..(b - 1))
  <2>1. a - 1 \in Nat /\ b - 1 \in Nat
    OBVIOUS
  <2> QED
    BY <2>1, BoundedIs
<1>4. \A j : j \in 1..(b - 1) <=> j \in 1..(a - 1) \/ j \in a..(b - 1)
  OBVIOUS
<1>5. CASE Unwritten(rob, 1..(b - 1), l)
  <2>1. Unwritten(rob, 1..(a - 1), l)
    BY <1>4, <1>5 DEF Unwritten
  <2>2. s[l] = arch_map[l]
    BY <1>1, <2>1, NoHit
  <2>3. t[l] = arch_map[l]
    BY <1>2, <1>5, NoHit
  <2> QED
    BY <1>1, <1>2, <2>2, <2>3
<1>6. CASE \E y : Youngest(rob, 1..(b - 1), l, y)
  <2>1. PICK y : Youngest(rob, 1..(b - 1), l, y)
    BY <1>6
  <2>2. t[l] = rob[y].pdst
    BY <1>2, <1>3, <2>1, LastHit
  <2>3. Youngest(rob, 1..(a - 1), l, y)
    BY <1>4, <2>1 DEF Youngest
  <2>4. s[l] = rob[y].pdst
    BY <1>1, <1>3, <2>3, LastHit
  <2> QED
    BY <1>1, <1>2, <2>2, <2>4
<1> QED
  BY <1>3, <1>5, <1>6, HitIs

\* A row that is rolled back takes its mappings back.
LEMMA RollbackMap ==
    ASSUME MInv, rstate = "rollback", NEW extra
    PROVE  RemapTable(DisFire(extra), Slots) = MapBefore(Kept + 1)
<1>1. PICK L : L = Len(rob)
  OBVIOUS
<1>2. PICK k : k = RollbackCount
  OBVIOUS
<1>3. /\ L \in Nat /\ k \in 0..PlWidth /\ k <= L /\ Kept = L - k /\ L - k \in Nat /\ PlWidth \in Nat
  <2>1. 0 \in CommitCounts
    BY Constants DEF CommitCounts, MInv, TInv, TypeOK
  <2>2. /\ Kept \in 0..L /\ L \in Nat /\ k \in 0..PlWidth /\ Kept = L - k
    BY <1>1, <1>2, <2>1, KeptIs DEF MInv
  <2> QED
    BY <2>2, Constants
<1>4. PICK s : s = MapBefore(Kept + 1) /\ s = Remapped(arch_map, rob, 1..Kept)
  <2>1. (Kept + 1) - 1 = Kept
    BY <1>3
  <2> QED
    BY <2>1 DEF MapBefore
<1>5. PICK t : /\ t = RemapTable(DisFire(extra), Slots)
               /\ t = Remapped(map_table, RbkRow, Slots)
  BY DEF RemapTable
<1>6. map_table = MapBefore(L + 1)
  <2>1. ~Mispredicting
    BY DEF MInv, TInv, Control, Mispredicting
  <2> QED
    BY <1>1, <2>1 DEF MInv, MapTableRight
<1>7. ASSUME NEW w \in Slots
      PROVE  /\ w > k => RbkRow[w] = NoUop
             /\ w <= k => /\ (L + 1) - w \in (Kept + 1)..L
                          /\ RbkRow[w].k = rob[(L + 1) - w].k
                          /\ RbkRow[w].ldst = rob[(L + 1) - w].ldst
                          /\ RbkRow[w].pdst = rob[(L + 1) - w].stale_pdst
  <2>1. w \in Nat /\ w > 0
    BY Constants DEF Slots
  <2>2. w <= k => (L + 1) - w \in (Kept + 1)..L
    BY <1>3, <2>1
  <2> QED
    BY <1>1, <1>2, <2>2, RbkRowIs DEF MInv
<1>8. ~Writes(NoUop)
  BY DEF NoUop, Writes
<1>9. ASSUME NEW l \in Lregs PROVE s[l] = t[l]
  <2>1. CASE Unwritten(RbkRow, Slots, l)
    <3>1. t[l] = map_table[l]
      BY <1>5, <2>1, NoHit
    <3>2. ASSUME NEW j \in (Kept + 1)..((L + 1) - 1) PROVE ~Hit(rob, j, l)
      <4>1. PICK w : w = (L + 1) - j
        OBVIOUS
      <4>2. w \in Slots /\ w <= k /\ j = (L + 1) - w
        BY <1>3, <4>1 DEF Slots
      <4>3. ~Hit(RbkRow, w, l)
        BY <2>1, <4>2 DEF Unwritten
      <4> QED
        BY <1>7, <4>2, <4>3 DEF Hit, Writes
    <3>3. MapBefore(L + 1)[l] = MapBefore(Kept + 1)[l]
      <4>1. PICK a : a = Kept + 1
        OBVIOUS
      <4>2. PICK b : b = L + 1
        OBVIOUS
      <4>3. a \in Nat /\ b \in Nat /\ 1 <= a /\ a <= b
        BY <1>3, <4>1, <4>2
      <4>4. \A j \in a..(b - 1) : ~Hit(rob, j, l)
        BY <3>2, <4>1, <4>2
      <4> QED
        BY <4>1, <4>2, <4>3, <4>4, MapSame DEF MInv, TInv
    <3> QED
      BY <1>4, <1>6, <3>1, <3>3
  <2>2. CASE \E y : Youngest(RbkRow, Slots, l, y)
    <3>1. PICK y : Youngest(RbkRow, Slots, l, y)
      BY <2>2
    <3>2. Bounded(Slots)
      BY BoundedIs
    <3>3. t[l] = RbkRow[y].pdst
      BY <1>5, <3>1, <3>2, LastHit
    <3>4. y \in Slots /\ Hit(RbkRow, y, l) /\ \A v \in Slots : v > y => ~Hit(RbkRow, v, l)
      BY <3>1 DEF Youngest
    <3>5. y \in Nat /\ y > 0 /\ y <= k
      <4>1. y \in Nat /\ y > 0
        BY <3>4, Constants DEF Slots
      <4>2. ~(y > k)
        BY <1>7, <1>8, <3>4 DEF Hit
      <4> QED
        BY <1>3, <4>1, <4>2
    <3>6. PICK i : i = (L + 1) - y
      OBVIOUS
    <3>7. /\ i \in (Kept + 1)..L /\ Writes(rob[i]) /\ rob[i].ldst = l
          /\ t[l] = rob[i].stale_pdst
      BY <1>7, <3>3, <3>4, <3>5, <3>6 DEF Hit, Writes
    <3>8. i \in 1..L /\ i \in Nat
      BY <1>3, <3>7
    <3>9. rob[i].stale_pdst = MapBefore(i)[l]
      BY <1>1, <3>7, <3>8 DEF MInv, OperandsRight
    <3>10. ASSUME NEW j \in (Kept + 1)..(i - 1) PROVE ~Hit(rob, j, l)
      <4>1. PICK w : w = (L + 1) - j
        OBVIOUS
      <4>2. w \in Slots /\ w <= k /\ j = (L + 1) - w /\ w > y
        BY <1>3, <3>5, <3>6, <3>7, <4>1 DEF Slots
      <4>3. ~Hit(RbkRow, w, l)
        BY <3>4, <4>2
      <4> QED
        BY <1>7, <4>2, <4>3 DEF Hit, Writes
    <3>11. MapBefore(i)[l] = MapBefore(Kept + 1)[l]
      <4>1. PICK a : a = Kept + 1
        OBVIOUS
      <4>2. a \in Nat /\ 1 <= a /\ a <= i
        BY <1>3, <3>7, <4>1
      <4>3. \A j \in a..(i - 1) : ~Hit(rob, j, l)
        BY <3>10, <4>1
      <4> QED
        BY <3>8, <4>1, <4>2, <4>3, MapSame DEF MInv, TInv
    <3> QED
      BY <1>4, <3>7, <3>9, <3>11
  <2> QED
    BY <2>1, <2>2, HitIs, BoundedIs
<1>10. s = t
  BY <1>4, <1>5, <1>9, SameMap
<1> QED
  BY <1>4, <1>5, <1>10

-----------------------------------------------------------------------------
\* The map table behind the ROB when nothing dispatches.
LEMMA MapQuiet ==
    ASSUME TInv, NEW B, NEW extra, NEW c, NEW E, NEW R, NEW M, Clocked(B, extra, c, E, R, M),
           DisFire(extra) = {}
    PROVE  MapBefore(Len(rob) + 1)' = MapBefore(Kept + 1)
<1>1. PICK k : k = Kept - c
  OBVIOUS
<1>2. PICK n : n = Cardinality(DisFire(extra))
  OBVIOUS
<1>3. n = 0 /\ Len(rob') = k + n /\ k \in Nat /\ c \in Nat /\ Kept \in Nat
  <2>1. n = 0 /\ Len(rob') = k + n /\ k \in Nat
    BY <1>1, <1>2, RobIs
  <2> QED
    BY <2>1, KeptIs DEF Clocked
<1>4. k \in 0..(Kept - c) /\ k + c = Kept /\ Len(rob') = k
  BY <1>1, <1>3
<1>5. MapBefore(k + 1)' = MapBefore((k + c) + 1)
  BY <1>4, MapShift
<1>6. MapBefore(Len(rob) + 1)' = MapBefore(k + 1)'
  BY <1>4 DEF MapBefore
<1> QED
  BY <1>4, <1>5, <1>6

\* In normal operation the map table is that behind the ROB, and dispatch updates it.
LEMMA RemapCalm ==
    ASSUME MInv, NEW B, NEW extra, NEW c, NEW E, NEW R, NEW M, Clocked(B, extra, c, E, R, M),
           ~Redirecting, rstate = "normal"
    PROVE  /\ map_table = MapBefore(Kept + 1) /\ Kept = Len(rob) /\ ~b2.mispredict
           /\ map_table' = RemapTable(DisFire(extra), Slots)
           /\ \A S : RemapTable(DisFire(extra), S)
                        = Remapped(MapBefore(Kept + 1), DisRow(DisFire(extra)), S)
<1>1. Kept = Len(rob) /\ b1.mis = {} /\ ~b2.mispredict
  BY CalmIs DEF MInv
<1>2. map_table = MapBefore(Kept + 1)
  BY <1>1 DEF MInv, MapTableRight, Mispredicting
<1>3. map_table' = RemapTable(DisFire(extra), Slots)
  BY <1>1 DEF Clocked, Cycle, MapTableAfter
<1> QED
  BY <1>1, <1>2, <1>3 DEF RemapTable

\* The map table stays the committed one updated by the ROB (rename-maptable.scala 94-109).
LEMMA MapTableStep ==
    ASSUME MInv, NEW B, NEW extra, NEW c, NEW E, NEW R, NEW M, Clocked(B, extra, c, E, R, M)
    PROVE  MapTableRight'
<1> SUFFICES ASSUME ~Mispredicting' PROVE map_table' = MapBefore(Len(rob) + 1)'
  BY DEF MapTableRight
<1>1. b1.mis = {}
  <2>1. ~b2'.mispredict /\ b2' = B2After
    BY DEF Mispredicting, Clocked, Cycle
  <2> QED
    BY <2>1 DEF B2After
<1>2. map_table' = MapTableAfter(DisFire(extra)) /\ c \in CommitCounts /\ TInv
  BY DEF Clocked, Cycle, MInv
<1>3. rstate # "rollback" => Kept = Len(rob)
  BY <1>1, <1>2, KeptIs, SurvivorsAre
<1>4. CASE b2.mispredict
  <2>1. DisFire(extra) = {} /\ rstate # "rollback"
    BY <1>2, <1>4, FireIs DEF TInv, Control, Redirecting, Mispredicting
  <2>2. map_table' = br_snapshots[b2.tag]
    BY <1>2, <1>4 DEF MapTableAfter
  <2>3. br_snapshots[b2.tag] = MapBefore(Len(rob) + 1)
    BY <1>4 DEF MInv, Snapshots
  <2> QED
    BY <1>2, <1>3, <2>1, <2>2, <2>3, MapQuiet
<1>5. CASE ~b2.mispredict /\ rstate = "rollback"
  <2>1. map_table' = RemapTable(DisFire(extra), Slots)
    BY <1>2, <1>5 DEF MapTableAfter
  <2>2. DisFire(extra) = {}
    BY <1>2, <1>5, FireIs DEF TInv
  <2> QED
    BY <1>2, <1>5, <2>1, <2>2, RollbackMap, MapQuiet
<1>6. CASE ~b2.mispredict /\ rstate # "rollback"
  <2>1. map_table = MapBefore(Len(rob) + 1)
    BY <1>1, <1>6 DEF MInv, MapTableRight, Mispredicting
  <2>2. map_table' = Remapped(map_table, DisRow(DisFire(extra)), Slots)
    BY <1>2, <1>6 DEF MapTableAfter, RemapTable
  <2>3. PICK k : k = Kept - c
    OBVIOUS
  <2>4. MapBefore(Len(rob) + 1)' = Remapped(MapBefore(Kept + 1), DisRow(DisFire(extra)), Slots)
    BY <1>2, <2>3, MapDispatched
  <2> QED
    BY <1>3, <1>6, <2>1, <2>2, <2>4
<1> QED
  BY <1>4, <1>5, <1>6

\* The map table in front of a uop that dispatches from slot w.
LEMMA FiredMap ==
    ASSUME MInv, NEW B, NEW extra, NEW c, NEW E, NEW R, NEW M, Clocked(B, extra, c, E, R, M),
           NEW j \in 1..Len(rob'), j \notin 1..(Kept - c)
    PROVE  \E w \in DisFire(extra) :
              /\ rob'[j] = DisUop(w, DisFire(extra))
              /\ MapBefore(j)' = RemapTable(DisFire(extra), 1..(w - 1))
              /\ 1..(w - 1) \subseteq Slots /\ w \in Slots /\ w \in Row
              /\ ~Redirecting /\ rstate = "normal"
<1> DEFINE fire == DisFire(extra)
<1>0. TInv
  BY DEF MInv
<1>1. PICK k : k = Kept - c
  OBVIOUS
<1>2. PICK i \in 1..Cardinality(fire) :
          /\ j = (Kept - c) + i
          /\ Nth(fire, i) \in fire /\ Below(fire, Nth(fire, i)) = i - 1
          /\ rob'[j] = DisUop(Nth(fire, i), fire)
  BY <1>0, RobEntry
<1>3. PICK w \in fire : w = Nth(fire, i)
  BY <1>2
<1>4. PICK b : b = Below(fire, w) /\ b = i - 1
  BY <1>2, <1>3
<1>5. k \in Nat /\ i \in Nat
  <2>1. Kept - c \in Nat
    BY <1>0, RobEntry
  <2>2. Cardinality(fire) \in Nat
    BY <1>0, RobIs
  <2> QED
    BY <1>1, <2>1, <2>2
<1>6. j = (k + b) + 1
  BY <1>1, <1>2, <1>4, <1>5
<1>7. /\ MapBefore((k + b) + 1)' = Remapped(MapBefore(Kept + 1), DisRow(fire), 1..(w - 1))
      /\ 1..(w - 1) \subseteq Slots
  <2>1. \A v \in fire : \A x : x = Below(fire, v) =>
            /\ MapBefore((k + x) + 1)'
                   = Remapped(MapBefore(Kept + 1), DisRow(fire), 1..(v - 1))
            /\ 1..(v - 1) \subseteq Slots
    BY <1>0, <1>1, MapDispatched
  <2> HIDE DEF fire
  <2> QED
    BY <1>4, <2>1
<1>8. w \in Slots /\ w \in Row /\ ~Redirecting /\ rstate = "normal"
  BY <1>0, FireIs DEF TInv
<1>9. RemapTable(fire, 1..(w - 1)) = Remapped(MapBefore(Kept + 1), DisRow(fire), 1..(w - 1))
  BY <1>8, RemapCalm
<1> QED
  BY <1>2, <1>3, <1>6, <1>7, <1>8, <1>9

\* What a dispatching uop finds through the bypasses.
LEMMA BypassOlder ==
    ASSUME TInv, NEW extra, NEW w \in Slots, NEW l \in Lregs,
           NEW S, S \subseteq Slots, \A v \in Slots : v \in S <=> v < w,
           NEW r, r = Remapped(map_table, DisRow(DisFire(extra)), S)
    PROVE  Bypass(map_table[l], l, Older(DisFire(extra), w)) = r[l]
<1>1. PICK T : T = AllocReqs(DisFire(extra)) \cap S
  OBVIOUS
<1>3. Bypass(map_table[l], l, T) = r[l]
  BY <1>1, BypassRemap
<1>2. Older(DisFire(extra), w) = AllocReqs(DisFire(extra)) \cap S
  <2>1. AllocReqs(DisFire(extra)) \subseteq Slots
    BY AllocsAre
  <2> QED
    BY <2>1 DEF Older
<1> QED
  BY <1>1, <1>2, <1>3

\* Every entry of the next ROB reads and returns the registers it should.
LEMMA OperandsStep ==
    ASSUME MInv, NEW B, NEW extra, NEW c, NEW E, NEW R, NEW M, Clocked(B, extra, c, E, R, M)
    PROVE  OperandsRight'
<1> SUFFICES ASSUME NEW j \in 1..Len(rob')
             PROVE  /\ rob'[j].prs1 = MapBefore(j)'[rob'[j].lrs1]
                    /\ Writes(rob'[j]) => rob'[j].stale_pdst = MapBefore(j)'[rob'[j].ldst]
  BY DEF OperandsRight
<1>0. TInv /\ TypeOK /\ Control
  BY DEF MInv, TInv
<1>1. CASE j \in 1..(Kept - c)
  <2>1. /\ j + c \in 1..Len(rob) /\ rob'[j] = RobExec(E, R)[j + c] /\ c \in Nat /\ Kept - c \in Nat
    <3>1. /\ c \in Nat /\ Kept - c \in Nat /\ Kept \in Nat /\ Kept <= Len(rob)
      BY <1>0, RobEntry
    <3>2. j + c \in 1..Kept /\ rob'[j] = RobExec(E, R)[j + c] /\ Len(rob) \in Nat
      BY <1>0, <1>1, RobIs DEF TypeOK
    <3> QED
      BY <3>1, <3>2
  <2>2. PICK i : i = j + c
    OBVIOUS
  <2>3. /\ i \in 1..Len(rob) /\ rob'[j].prs1 = rob[i].prs1 /\ rob'[j].lrs1 = rob[i].lrs1
        /\ rob'[j].stale_pdst = rob[i].stale_pdst /\ rob'[j].ldst = rob[i].ldst
        /\ rob'[j].k = rob[i].k
    BY <1>0, <2>1, <2>2, ExecIs
  <2>4. MapBefore(j)' = MapBefore(i)
    <3>1. j - 1 \in 0..(Kept - c) /\ (j - 1) + 1 = j /\ ((j - 1) + c) + 1 = i
      BY <1>1, <2>1, <2>2
    <3>2. MapBefore((j - 1) + 1)' = MapBefore(((j - 1) + c) + 1)
      BY <1>0, <3>1, MapShift
    <3> QED
      BY <3>1, <3>2
  <2>5. /\ rob[i].prs1 = MapBefore(i)[rob[i].lrs1]
        /\ Writes(rob[i]) => rob[i].stale_pdst = MapBefore(i)[rob[i].ldst]
    BY <2>3 DEF MInv, OperandsRight
  <2> QED
    BY <2>3, <2>4, <2>5 DEF Writes
<1>2. CASE j \notin 1..(Kept - c)
  <2>1. PICK w \in DisFire(extra) :
              /\ rob'[j] = DisUop(w, DisFire(extra)) /\ MapBefore(j)' = RemapTable(DisFire(extra), 1..(w - 1))
              /\ 1..(w - 1) \subseteq Slots /\ w \in Slots /\ w \in Row
              /\ ~Redirecting /\ rstate = "normal"
    BY <1>2, FiredMap
  <2> DEFINE T == Older(DisFire(extra), w)
             u == ren2[w]
  <2>2. /\ rob'[j].k = u.k /\ rob'[j].ldst = u.ldst /\ rob'[j].lrs1 = u.lrs1
        /\ rob'[j].prs1 = Bypass(u.prs1, u.lrs1, T)
        /\ Writes(u) => rob'[j].stale_pdst = Bypass(u.stale_pdst, u.ldst, T)
    BY <1>0, <2>1, DisUopIs
  <2>3. u.prs1 = map_table[u.lrs1] /\ (Writes(u) => u.stale_pdst = map_table[u.ldst])
    BY <2>1 DEF MInv, Ren2Right
  <2>4. u.lrs1 \in Lregs /\ (Writes(u) => u.ldst \in Lregs)
    <3>1. u \in Uops
      BY <1>0, <2>1, RowIs
    <3> QED
      BY <3>1 DEF Uops, Writes
  <2>5. PICK r : r = RemapTable(DisFire(extra), 1..(w - 1)) /\ r = Remapped(map_table, DisRow(DisFire(extra)), 1..(w - 1))
    BY <2>1, RemapCalm
  <2>6. PICK S : S = 1..(w - 1)
    OBVIOUS
  <2> HIDE DEF T, u
  <2>8. ASSUME NEW l \in Lregs PROVE Bypass(map_table[l], l, T) = r[l]
    <3>1. TInv
      BY <1>0
    <3>2. S \subseteq Slots
      BY <2>1, <2>6
    <3>3. r = Remapped(map_table, DisRow(DisFire(extra)), S)
      BY <2>5, <2>6
    <3>4. w \in Slots /\ \A v \in Slots : v \in S <=> v < w
      BY <2>1, <2>6, Constants DEF Slots
    <3>5. Bypass(map_table[l], l, Older(DisFire(extra), w)) = r[l]
      BY <3>1, <3>2, <3>3, <3>4, BypassOlder
    <3> QED
      BY <3>5 DEF T
  <2>9. MapBefore(j)' = r
    BY <2>1, <2>5
  <2>10. rob'[j].prs1 = r[rob'[j].lrs1]
    BY <2>2, <2>3, <2>4, <2>8
  <2>11. Writes(rob'[j]) => rob'[j].stale_pdst = r[rob'[j].ldst]
    BY <2>2, <2>3, <2>4, <2>8 DEF Writes
  <2> QED
    BY <2>9, <2>10, <2>11
<1> QED
  BY <1>1, <1>2

-----------------------------------------------------------------------------
\* A uop that writes nothing can be left out.
LEMMA RemappedBranch ==
    ASSUME NEW m, NEW us, NEW w \in Nat, w > 0, ~Writes(us[w])
    PROVE  Remapped(m, us, 1..w) = Remapped(m, us, 1..(w - 1))
<1>1. ASSUME NEW l
      PROVE  {v \in 1..w : Writes(us[v]) /\ us[v].ldst = l}
                 = {v \in 1..(w - 1) : Writes(us[v]) /\ us[v].ldst = l}
  <2>1. \A v : v \in 1..w <=> v \in 1..(w - 1) \/ v = w
    OBVIOUS
  <2> QED
    BY <2>1
<1> QED
  BY <1>1 DEF Remapped

\* The snapshot of a branch that dispatches is the map table in front of it.
LEMMA SnapshotTaken ==
    ASSUME MInv, NEW B, NEW extra, NEW c, NEW E, NEW R, NEW M, Clocked(B, extra, c, E, R, M),
           NEW w \in DisFire(extra), IsBr(ren2[w]), ren2[w].br_tag \in Tags, rstate = "normal"
    PROVE  br_snapshots'[ren2[w].br_tag] = RemapTable(DisFire(extra), 1..(w - 1))
<1>1. TInv /\ TypeOK
  BY DEF MInv, TInv
<1>2. PICK t : t = ren2[w].br_tag
  OBVIOUS
<1>3. w \in Slots /\ w \in Nat /\ w > 0
  BY <1>1, FireIs, Constants DEF Slots
<1>4. BranchSlot(DisFire(extra), t) = w
  BY <1>1, <1>2, BranchSlotIs
<1>5. br_snapshots'[t] = RemapTable(DisFire(extra), 1..w)
  <2>1. br_snapshots' = SnapshotsAfter(DisFire(extra)) /\ t \in Tags /\ w # 0
    BY <1>2, <1>3 DEF Clocked, Cycle
  <2> QED
    BY <1>4, <2>1 DEF SnapshotsAfter
<1>6. ~Writes(DisRow(DisFire(extra))[w])
  <2>1. w \notin AllocReqs(DisFire(extra))
    BY DEF AllocReqs, Writes, IsBr
  <2> QED
    BY <1>1, <1>3, <2>1, DisRowIs
<1>7. RemapTable(DisFire(extra), 1..w) = RemapTable(DisFire(extra), 1..(w - 1))
  <2>1. Remapped(map_table, DisRow(DisFire(extra)), 1..w)
            = Remapped(map_table, DisRow(DisFire(extra)), 1..(w - 1))
    BY <1>3, <1>6, RemappedBranch
  <2>2. rstate # "rollback"
    OBVIOUS
  <2> QED
    BY <2>1, <2>2 DEF RemapTable
<1> QED
  BY <1>2, <1>5, <1>7

\* The other snapshots stay.
LEMMA SnapshotStays ==
    ASSUME MInv, NEW B, NEW extra, NEW c, NEW E, NEW R, NEW M, Clocked(B, extra, c, E, R, M),
           NEW i \in 1..Len(rob), Open(rob[i])
    PROVE  /\ BranchSlot(DisFire(extra), rob[i].br_tag) = 0 /\ rob[i].br_tag \in Tags
           /\ br_snapshots'[rob[i].br_tag] = br_snapshots[rob[i].br_tag]
<1>0. TInv /\ TypeOK /\ Control
  BY DEF MInv, TInv
<1>1. PICK t : t = rob[i].br_tag
  OBVIOUS
<1>2. t \in Tags /\ t \in OpenTags(Len(rob))
  BY <1>0, <1>1 DEF Control, Open, OpenTags
<1>3. BranchSlot(DisFire(extra), t) = 0
  <2>1. SUFFICES ASSUME BranchSlot(DisFire(extra), t) # 0 PROVE FALSE
    OBVIOUS
  <2>2. PICK w : w = BranchSlot(DisFire(extra), t) /\ w \in DisFire(extra) /\ IsBr(ren2[w]) /\ ren2[w].br_tag = t
    BY <1>0, <2>1, BranchSlotIs
  <2>3. w \in Row
    BY <1>0, <2>2, FireIs
  <2> QED
    BY <1>0, <1>2, <2>2, <2>3, RenTagsFresh
<1>4. br_snapshots' = SnapshotsAfter(DisFire(extra))
  BY DEF Clocked, Cycle
<1>5. br_snapshots'[t] = br_snapshots[t]
  BY <1>2, <1>3, <1>4 DEF SnapshotsAfter
<1> QED
  BY <1>1, <1>2, <1>3, <1>5

\* The branch that the restoring cycle returns to is the last survivor.
LEMMA B2Next ==
    ASSUME TInv, NEW B, NEW extra, NEW c, NEW E, NEW R, NEW M, Clocked(B, extra, c, E, R, M),
           b2'.mispredict
    PROVE  /\ b1.mis # {} /\ Survivors \in 1..Len(rob) /\ Open(rob[Survivors])
           /\ IsBr(rob[Survivors]) /\ b2'.tag = rob[Survivors].br_tag
           /\ Kept = Survivors /\ DisFire(extra) = {} /\ rstate = "normal" /\ Redirecting
<1>1. b2' = B2After /\ c \in CommitCounts
  BY DEF Clocked, Cycle
<1>2. b1.mis # {} /\ b2'.tag = OldestMis.br_tag
  BY <1>1 DEF B2After
<1>3. Survivors \in MisSet /\ Survivors \in 1..Len(rob) /\ OldestMis = rob[Survivors]
  BY <1>2, SurvivorsAre
<1>4. IsBr(rob[Survivors]) /\ Open(rob[Survivors])
  BY <1>3 DEF MisSet, Open
<1>5. Redirecting /\ rstate = "normal"
  BY <1>2 DEF Redirecting, Mispredicting, TInv, Control
<1>6. Kept = Survivors /\ DisFire(extra) = {}
  BY <1>1, <1>5, KeptIs, FireIs DEF TInv
<1> QED
  BY <1>2, <1>3, <1>4, <1>5, <1>6

\* The snapshot of an open branch stays the map in front of the uop behind it.
LEMMA SnapshotsStep ==
    ASSUME MInv, NEW B, NEW extra, NEW c, NEW E, NEW R, NEW M, Clocked(B, extra, c, E, R, M)
    PROVE  Snapshots'
<1>0. TInv /\ TypeOK /\ Control
  BY DEF MInv, TInv
<1>1. ASSUME NEW j \in 1..Len(rob'), Open(rob'[j])
      PROVE  br_snapshots'[rob'[j].br_tag] = MapBefore(j)'
  <2>1. CASE j \in 1..(Kept - c)
    <3>1. /\ j + c \in 1..Len(rob) /\ rob'[j].br_tag = rob[j + c].br_tag
          /\ IsBr(rob[j + c]) /\ rob[j + c].st = "wait"
      BY <1>0, <1>1, <2>1, OpenKept
    <3>2. PICK i : i = j + c
      OBVIOUS
    <3>3. i \in 1..Len(rob) /\ rob'[j].br_tag = rob[i].br_tag /\ Open(rob[i])
      BY <3>1, <3>2 DEF Open
    <3>4. br_snapshots'[rob[i].br_tag] = br_snapshots[rob[i].br_tag]
      BY <3>3, SnapshotStays
    <3>5. br_snapshots[rob[i].br_tag] = MapBefore(i)
      BY <3>3 DEF MInv, Snapshots
    <3>6. MapBefore(j)' = MapBefore(i)
      <4>1. c \in Nat /\ Kept - c \in Nat
        BY <1>0, RobEntry
      <4>2. j - 1 \in 0..(Kept - c) /\ (j - 1) + 1 = j /\ ((j - 1) + c) + 1 = i
        BY <2>1, <3>2, <4>1
      <4>3. MapBefore((j - 1) + 1)' = MapBefore(((j - 1) + c) + 1)
        BY <1>0, <4>2, MapShift
      <4> QED
        BY <4>2, <4>3
    <3> QED
      BY <3>3, <3>4, <3>5, <3>6
  <2>2. CASE j \notin 1..(Kept - c)
    <3>1. PICK w \in DisFire(extra) :
              /\ rob'[j] = DisUop(w, DisFire(extra))
              /\ MapBefore(j)' = RemapTable(DisFire(extra), 1..(w - 1))
              /\ w \in Row /\ rstate = "normal"
      BY <2>2, FiredMap
    <3>2. rob'[j].k = ren2[w].k /\ rob'[j].br_tag = ren2[w].br_tag
      BY <1>0, <3>1, DisUopIs
    <3>3. IsBr(ren2[w]) /\ ren2[w].br_tag \in Tags
      BY <1>0, <1>1, <3>1, <3>2 DEF Open, IsBr, Control
    <3>4. br_snapshots'[ren2[w].br_tag] = RemapTable(DisFire(extra), 1..(w - 1))
      BY <3>1, <3>3, SnapshotTaken
    <3> QED
      BY <3>1, <3>2, <3>4
  <2> QED
    BY <2>1, <2>2
<1>2. ASSUME b2'.mispredict PROVE br_snapshots'[b2'.tag] = MapBefore(Len(rob) + 1)'
  <2>1. PICK s : s = Survivors
    OBVIOUS
  <2>2. /\ s \in 1..Len(rob) /\ Open(rob[s]) /\ IsBr(rob[s]) /\ b2'.tag = rob[s].br_tag
        /\ Kept = s /\ DisFire(extra) = {}
    BY <1>0, <1>2, <2>1, B2Next
  <2>3. br_snapshots'[b2'.tag] = MapBefore(s)
    <3>1. br_snapshots'[rob[s].br_tag] = br_snapshots[rob[s].br_tag]
      BY <2>2, SnapshotStays
    <3>2. br_snapshots[rob[s].br_tag] = MapBefore(s)
      BY <2>2 DEF MInv, Snapshots
    <3> QED
      BY <2>2, <3>1, <3>2
  <2>4. MapBefore(s + 1) = MapBefore(s)
    <3>1. s \in Nat /\ s > 0 /\ (s + 1) - 1 = s
      BY <2>2
    <3>2. ~Writes(rob[s])
      BY <2>2 DEF IsBr, Writes
    <3>3. Remapped(arch_map, rob, 1..s) = Remapped(arch_map, rob, 1..(s - 1))
      BY <3>1, <3>2, RemappedBranch
    <3> QED
      BY <3>1, <3>3 DEF MapBefore
  <2>5. MapBefore(Len(rob) + 1)' = MapBefore(s + 1)
    BY <1>0, <2>2, MapQuiet
  <2> QED
    BY <2>3, <2>4, <2>5
<1>3. \A j \in 1..Len(rob') : Open(rob'[j]) => br_snapshots'[rob'[j].br_tag] = MapBefore(j)'
  BY <1>1
<1> QED
  BY <1>2, <1>3 DEF Snapshots, Open, IsBr

\* What a uop reads behind a whole bundle.
LEMMA BypassAll ==
    ASSUME MInv, NEW B, NEW extra, NEW c, NEW E, NEW R, NEW M, Clocked(B, extra, c, E, R, M),
           ~Redirecting, rstate = "normal", NEW l \in Lregs
    PROVE  Bypass(map_table[l], l, AllocReqs(DisFire(extra))) = map_table'[l]
<1>0. TInv
  BY DEF MInv
<1>1. PICK S : S = Slots
  OBVIOUS
<1>2. PICK r : r = map_table' /\ r = Remapped(map_table, DisRow(DisFire(extra)), Slots)
  <2>1. map_table' = RemapTable(DisFire(extra), Slots)
    BY RemapCalm
  <2> QED
    BY <2>1 DEF RemapTable
<1>3. S \subseteq Slots
  BY <1>1
<1>4. r = Remapped(map_table, DisRow(DisFire(extra)), S)
  BY <1>1, <1>2
<1>5. PICK T : T = AllocReqs(DisFire(extra)) /\ T = AllocReqs(DisFire(extra)) \cap S
  BY <1>0, <1>1, AllocsAre
<1>6. Bypass(map_table[l], l, T) = r[l]
  BY <1>0, <1>3, <1>4, <1>5, BypassRemap
<1> QED
  BY <1>2, <1>5, <1>6

\* A uop that read the map table follows it once the bypasses are applied.
LEMMA BypassedRight ==
    ASSUME MInv, NEW B, NEW extra, NEW c, NEW E, NEW R, NEW M, Clocked(B, extra, c, E, R, M),
           ~Redirecting, rstate = "normal", NEW u \in Uops, u.prs1 = map_table[u.lrs1],
           Writes(u) => u.stale_pdst = map_table[u.ldst],
           NEW v, v = Bypassed(u, AllocReqs(DisFire(extra)))
    PROVE  /\ v.prs1 = map_table'[v.lrs1]
           /\ Writes(v) => v.stale_pdst = map_table'[v.ldst]
<1>0. TypeOK /\ AllocReqs(DisFire(extra)) \subseteq Slots
  BY AllocsAre DEF MInv, TInv
<1>1. /\ v.k = u.k /\ v.ldst = u.ldst /\ v.lrs1 = u.lrs1
      /\ v.prs1 = Bypass(u.prs1, u.lrs1, AllocReqs(DisFire(extra)))
      /\ Writes(u) => v.stale_pdst = Bypass(u.stale_pdst, u.ldst, AllocReqs(DisFire(extra)))
  BY <1>0, BypassedIs
<1>2. u.lrs1 \in Lregs /\ (Writes(u) => u.ldst \in Lregs)
  BY DEF Uops, Writes
<1>3. Bypass(map_table[u.lrs1], u.lrs1, AllocReqs(DisFire(extra))) = map_table'[u.lrs1]
  BY <1>2, BypassAll
<1>4. ASSUME Writes(u)
      PROVE  Bypass(map_table[u.ldst], u.ldst, AllocReqs(DisFire(extra))) = map_table'[u.ldst]
  BY <1>2, <1>4, BypassAll
<1>5. Writes(v) <=> Writes(u)
  BY <1>1 DEF Writes
<1> QED
  BY <1>1, <1>3, <1>4, <1>5

\* The uops that wait in rename follow the map table.
LEMMA Ren2Step ==
    ASSUME MInv, NEW B, NEW extra, NEW c, NEW E, NEW R, NEW M, Clocked(B, extra, c, E, R, M)
    PROVE  Ren2Right'
<1> SUFFICES ASSUME NEW w \in Slots, IsUop(ren2'[w])
             PROVE  /\ ren2'[w].prs1 = map_table'[ren2'[w].lrs1]
                    /\ Writes(ren2'[w]) => ren2'[w].stale_pdst = map_table'[ren2'[w].ldst]
  BY DEF Ren2Right, Row
<1>0. TInv /\ TypeOK
  BY DEF MInv, TInv
<1>1. ~Redirecting /\ rstate = "normal"
  BY <1>0, RowNext
<1>2. ren2'[w] # NoUop
  BY DEF IsUop, NoUop
<1>3. CASE IsUop(B[w]) /\ ren2'[w] = Bypassed(DecUop(B, w), AllocReqs(DisFire(extra)))
  <2>1. PICK d : d = DecUop(B, w)
    OBVIOUS
  <2>2. d \in Uops /\ d.ldst = B[w].ldst /\ d.lrs1 = B[w].lrs1
        /\ d.prs1 = map_table[B[w].lrs1] /\ (Writes(d) => d.stale_pdst = map_table[B[w].ldst])
    BY <1>0, <1>3, <2>1, DecUopIs
  <2>3. d.prs1 = map_table[d.lrs1] /\ (Writes(d) => d.stale_pdst = map_table[d.ldst])
    BY <2>2
  <2> QED
    BY <1>1, <1>3, <2>1, <2>2, <2>3, BypassedRight
<1>4. CASE w \in Row /\ ren2'[w] = Bypassed(ren2[w], AllocReqs(DisFire(extra)))
  <2>1. PICK d : d = ren2[w]
    OBVIOUS
  <2>2. d \in Uops
    BY <1>0, <1>4, <2>1, RowIs
  <2>3. d.prs1 = map_table[d.lrs1] /\ (Writes(d) => d.stale_pdst = map_table[d.ldst])
    BY <1>4, <2>1 DEF MInv, Ren2Right
  <2> QED
    BY <1>1, <1>4, <2>1, <2>2, <2>3, BypassedRight
<1> QED
  BY <1>0, <1>2, <1>3, <1>4, Ren2Is

-----------------------------------------------------------------------------
\* The invariant of the map table holds after reset.
LEMMA InitMInv == Init => MInv
<1> SUFFICES ASSUME Init PROVE MInv
  OBVIOUS
<1>1. TInv
  BY InitTInv
<1>2. Len(rob) = 0 /\ ~b2.mispredict /\ map_table = arch_map
      /\ map_table = [l \in Lregs |-> 0]
  BY DEF Init
<1>3. Row = {}
  BY DEF Row, Init, IsUop, NoUop
<1>4. MapBefore(1) = map_table
  <2>1. \A l : {w \in 1..(1 - 1) : Writes(rob[w]) /\ rob[w].ldst = l} = {}
    OBVIOUS
  <2>2. MapBefore(1) = [l \in Lregs |-> arch_map[l]]
    BY <2>1 DEF MapBefore, Remapped
  <2> QED
    BY <1>2, <2>2
<1>5. MapTableRight
  BY <1>2, <1>4 DEF MapTableRight
<1>6. OperandsRight /\ Ren2Right
  BY <1>2, <1>3 DEF OperandsRight, Ren2Right
<1>7. Snapshots
  <2>1. \A j \in 1..Len(rob) : FALSE
    BY <1>2
  <2> QED
    BY <1>2, <2>1, Zenon DEF Snapshots
<1> QED
  BY <1>1, <1>5, <1>6, <1>7 DEF MInv

\* A step in which nothing changes keeps it.
LEMMA StutterMInv == MInv /\ UNCHANGED vars => MInv'
<1> SUFFICES ASSUME MInv, UNCHANGED vars PROVE MInv'
  OBVIOUS
<1>1. TInv'
  BY StutterTInv DEF MInv
<1>2. /\ map_table' = map_table /\ br_snapshots' = br_snapshots /\ ren2' = ren2 /\ rob' = rob
      /\ b1' = b1 /\ b2' = b2 /\ arch_map' = arch_map
  BY DEF vars
<1>3. Row' = Row /\ \A n : MapBefore(n)' = MapBefore(n)
  BY <1>2 DEF Row, MapBefore
<1>4. MapTableRight' /\ Snapshots' /\ OperandsRight' /\ Ren2Right'
  BY <1>2, <1>3 DEF MInv, MapTableRight, Snapshots, OperandsRight, Ren2Right, Mispredicting
<1> QED
  BY <1>1, <1>4 DEF MInv

\* A cycle keeps it.
LEMMA NextMInv == MInv /\ [Next]_vars => MInv'
<1>1. ASSUME MInv, NEW B, NEW extra, NEW c, NEW E, NEW R, NEW M, Clocked(B, extra, c, E, R, M)
      PROVE  MInv'
  <2>1. TInv'
    BY <1>1, TypeStep, ControlStep, MasksStep, ResolvedStep, MaskKnownStep DEF MInv, TInv
  <2> QED
    BY <1>1, <2>1, MapTableStep, SnapshotsStep, OperandsStep, Ren2Step DEF MInv
<1>2. ASSUME Next PROVE \E B, extra, c, E, R, M : Clocked(B, extra, c, E, R, M)
  BY <1>2 DEF Next, Clocked
<1> QED
  BY <1>1, <1>2, StutterMInv

\* In every reachable state the map table is the committed one updated by the
\* uops in flight, in program order, unless a misprediction is being repaired
\* (rename-maptable.scala 81-109).
THEOREM MapTableRightHolds == Spec => []MapTableRight
<1>1. Init => MInv
  BY InitMInv
<1>2. MInv /\ [Next]_vars => MInv'
  BY NextMInv
<1>3. MInv => MapTableRight
  BY DEF MInv
<1> QED
  BY <1>1, <1>2, <1>3, PTL DEF Spec

\* Every uop in flight reads the register its source was last renamed to, and
\* returns the one its destination had before it (rename-stage.scala 170-206).
THEOREM OperandsRightHolds == Spec => []OperandsRight
<1>1. Init => MInv
  BY InitMInv
<1>2. MInv /\ [Next]_vars => MInv'
  BY NextMInv
<1>3. MInv => OperandsRight
  BY DEF MInv
<1> QED
  BY <1>1, <1>2, <1>3, PTL DEF Spec

-----------------------------------------------------------------------------
(* The free list and the busy table. *)

\* The entries of the ROB that hold a register; the registers of a stretch of it.
Held           == {j \in 1..Len(rob) : Writes(rob[j])}
RobPregs(a, b) == {rob[j].pdst : j \in {i \in a..b : Writes(rob[i])}}
ArchPregs      == {arch_map[l] : l \in Lregs}

\* No two of the values in flight and committed are in one register; 0 holds none.
Distinct ==
    /\ \A j \in Held : rob[j].pdst # 0 /\ \A l \in Lregs : arch_map[l] # rob[j].pdst
    /\ \A i, j \in Held : rob[i].pdst = rob[j].pdst => i = j
    /\ \A l, m \in Lregs : arch_map[l] = arch_map[m] => l = m \/ arch_map[l] = 0

\* A branch in flight knows what was allocated behind it, and may still have the
\* list of the misprediction that is being repaired, whose registers have no use.
Lists ==
    /\ rstate # "rollback" => \A j \in 1..Len(rob) : Open(rob[j]) =>
           br_alloc_lists[rob[j].br_tag] = RobPregs(j + 1, Len(rob)) \cup BrDeallocs
    /\ BrDeallocs \cap (free_list \cup Ahead \cup Live) = {}

FInv == MInv /\ FreeListRight /\ Distinct /\ Lists /\ BusyRight

-----------------------------------------------------------------------------
\* Live, and what it is made of.
LEMMA LiveIs ==
    /\ Live = ArchPregs \cup RobPregs(1, Len(rob))
    /\ \A p, a, b : p \in RobPregs(a, b) <=> \E j \in a..b : Writes(rob[j]) /\ rob[j].pdst = p
    /\ \A p : p \in ArchPregs <=> \E l \in Lregs : arch_map[l] = p
BY DEF Live, ArchPregs, RobPregs

\* What a map table has for a register in front of an entry: the register of
\* the youngest older writer, or what is committed.
LEMMA MappedIs ==
    ASSUME NEW n \in Nat, NEW l \in Lregs, NEW r, r = Remapped(arch_map, rob, 1..n)
    PROVE  \/ r[l] = arch_map[l] /\ \A j \in 1..n : ~Hit(rob, j, l)
           \/ \E y \in 1..n : /\ Hit(rob, y, l) /\ r[l] = rob[y].pdst
                              /\ \A j \in 1..n : j > y => ~Hit(rob, j, l)
<1>1. Bounded(1..n)
  BY BoundedIs
<1>2. CASE Unwritten(rob, 1..n, l)
  <2>1. r[l] = arch_map[l]
    BY <1>2, NoHit
  <2> QED
    BY <1>2, <2>1 DEF Unwritten
<1>3. CASE \E y : Youngest(rob, 1..n, l, y)
  <2>1. PICK y : Youngest(rob, 1..n, l, y)
    BY <1>3
  <2>2. r[l] = rob[y].pdst
    BY <1>1, <2>1, LastHit
  <2> QED
    BY <2>1, <2>2 DEF Youngest
<1> QED
  BY <1>1, <1>2, <1>3, HitIs

\* The register that entry j returns: of the youngest older writer, or committed.
LEMMA StaleIs ==
    ASSUME MInv, NEW j \in Held
    PROVE  \/ /\ rob[j].stale_pdst = arch_map[rob[j].ldst]
              /\ \A i \in 1..(j - 1) : ~Hit(rob, i, rob[j].ldst)
           \/ \E y \in 1..(j - 1) : /\ Hit(rob, y, rob[j].ldst) /\ rob[j].stale_pdst = rob[y].pdst
                                    /\ \A i \in 1..(j - 1) : i > y => ~Hit(rob, i, rob[j].ldst)
<1>1. j \in 1..Len(rob) /\ Writes(rob[j]) /\ j - 1 \in Nat
  BY DEF Held
<1>2. rob[j] \in Uops
  BY <1>1 DEF MInv, TInv, TypeOK
<1>3. PICK l \in Lregs : l = rob[j].ldst
  BY <1>1, <1>2 DEF Uops, Writes
<1>4. PICK n \in Nat : n = j - 1
  BY <1>1
<1>5. PICK r : r = MapBefore(j) /\ r = Remapped(arch_map, rob, 1..n)
  BY <1>4 DEF MapBefore
<1>6. rob[j].stale_pdst = r[l]
  BY <1>1, <1>3, <1>5 DEF MInv, OperandsRight
<1> QED
  BY <1>3, <1>4, <1>5, <1>6, MappedIs

\* What the entries that commit return has no use any more.
LEMMA StaleDead ==
    ASSUME MInv, Distinct, NEW c \in Nat, c <= Len(rob),
           NEW m, m = Remapped(arch_map, rob, 1..c),
           NEW j \in 1..c, Writes(rob[j]), rob[j].stale_pdst # 0
    PROVE  /\ rob[j].stale_pdst \in ArchPregs \cup RobPregs(1, c)
           /\ \A l \in Lregs : m[l] # rob[j].stale_pdst
           /\ \A i \in Held : i > c => rob[i].pdst # rob[j].stale_pdst
<1>0. Len(rob) \in Nat /\ j \in Nat
  BY DEF MInv, TInv, TypeOK
<1>1. j \in Held /\ j \in 1..Len(rob) /\ rob[j] \in Uops
  BY <1>0 DEF Held, MInv, TInv, TypeOK
<1>2. PICK h \in Lregs : h = rob[j].ldst
  BY <1>1 DEF Uops, Writes
<1>3. PICK p : p = rob[j].stale_pdst
  OBVIOUS
<1>4. Hit(rob, j, h)
  BY <1>2 DEF Hit
<1>5. \A i \in 1..c : \A l : Hit(rob, i, l) => i \in Held /\ i \in Nat
  BY <1>0 DEF Hit, Held
<1>6. CASE p = arch_map[h] /\ \A i \in 1..(j - 1) : ~Hit(rob, i, h)
  <2>1. ASSUME NEW l \in Lregs, m[l] = p PROVE FALSE
    <3>1. CASE m[l] = arch_map[l] /\ \A i \in 1..c : ~Hit(rob, i, l)
      <4>1. l = h
        BY <1>3, <1>6, <2>1, <3>1 DEF Distinct
      <4> QED
        BY <1>4, <3>1, <4>1
    <3>2. CASE \E y \in 1..c : Hit(rob, y, l) /\ m[l] = rob[y].pdst
      BY <1>5, <1>6, <2>1, <3>2 DEF Distinct
    <3> QED
      BY <3>1, <3>2, MappedIs
  <2>2. \A i \in Held : rob[i].pdst # p
    BY <1>6 DEF Distinct
  <2>3. p \in ArchPregs
    BY <1>6 DEF ArchPregs
  <2> QED
    BY <1>3, <2>1, <2>2, <2>3
<1>7. CASE \E y \in 1..(j - 1) : /\ Hit(rob, y, h) /\ p = rob[y].pdst
  <2>1. PICK y \in 1..(j - 1) : Hit(rob, y, h) /\ p = rob[y].pdst
    BY <1>7
  <2>2. y \in 1..c /\ y \in Nat /\ y < j /\ y \in Held
    <3>1. y \in 1..c /\ y \in Nat /\ y < j
      BY <1>0
    <3> QED
      BY <1>5, <2>1, <3>1
  <2>3. ASSUME NEW l \in Lregs, m[l] = p PROVE FALSE
    <3>1. CASE m[l] = arch_map[l]
      BY <2>1, <2>2, <2>3, <3>1 DEF Distinct
    <3>2. CASE \E z \in 1..c : /\ Hit(rob, z, l) /\ m[l] = rob[z].pdst
                               /\ \A i \in 1..c : i > z => ~Hit(rob, i, l)
      <4>1. PICK z \in 1..c : /\ Hit(rob, z, l) /\ m[l] = rob[z].pdst
                              /\ \A i \in 1..c : i > z => ~Hit(rob, i, l)
        BY <3>2
      <4>2. z = y
        BY <1>5, <2>1, <2>2, <2>3, <4>1 DEF Distinct
      <4>3. l = h /\ j > y
        BY <2>1, <2>2, <4>1, <4>2 DEF Hit
      <4> QED
        BY <1>4, <4>1, <4>2, <4>3
    <3> QED
      BY <3>1, <3>2, MappedIs
  <2>4. ASSUME NEW i \in Held, i > c, rob[i].pdst = p PROVE FALSE
    <3>1. i = y
      BY <2>1, <2>2, <2>4 DEF Distinct
    <3> QED
      BY <2>2, <2>4, <3>1
  <2>5. p \in RobPregs(1, c)
    BY <2>1, <2>2 DEF RobPregs, Hit
  <2> QED
    BY <1>3, <2>3, <2>4, <2>5
<1> QED
  BY <1>1, <1>2, <1>3, <1>6, <1>7, StaleIs

\* What is committed has one register each, and no entry behind has it.
LEMMA CommitKeeps ==
    ASSUME MInv, Distinct, NEW c \in Nat, c <= Len(rob),
           NEW m, m = Remapped(arch_map, rob, 1..c), NEW l \in Lregs
    PROVE  /\ m[l] \in ArchPregs \cup RobPregs(1, c)
           /\ \A i \in Held : i > c => rob[i].pdst # m[l]
           /\ \A k \in Lregs : m[k] = m[l] => k = l \/ m[l] = 0
<1>0. Len(rob) \in Nat /\ \A i \in 1..c : \A h : Hit(rob, i, h) => i \in Held /\ i \in Nat
  BY DEF Hit, Held, MInv, TInv, TypeOK
<1>1. ASSUME NEW h \in Lregs
      PROVE  \/ m[h] = arch_map[h]
             \/ \E y \in 1..c : y \in Held /\ y \in Nat /\ rob[y].ldst = h /\ m[h] = rob[y].pdst
  <2>1. CASE m[h] = arch_map[h]
    BY <2>1
  <2>2. CASE \E y \in 1..c : Hit(rob, y, h) /\ m[h] = rob[y].pdst
    BY <1>0, <2>2 DEF Hit
  <2> QED
    BY <2>1, <2>2, MappedIs
<1>2. m[l] \in ArchPregs \cup RobPregs(1, c)
  BY <1>1 DEF ArchPregs, RobPregs, Held
<1>3. ASSUME NEW i \in Held, i > c, rob[i].pdst = m[l] PROVE FALSE
  <2>1. \A y \in 1..c : y # i
    BY <1>3
  <2> QED
    BY <1>1, <1>3, <2>1 DEF Distinct
<1>4. ASSUME NEW k \in Lregs, m[k] = m[l] PROVE k = l \/ m[l] = 0
  BY <1>1, <1>4 DEF Distinct
<1> QED
  BY <1>2, <1>3, <1>4

\* Behind entry a, register l is mapped to p.
Mapped(a, l, p) == \/ a = 0 /\ p = arch_map[l]
                   \/ a > 0 /\ Hit(rob, a, l) /\ p = rob[a].pdst

\* A register that was mapped at some point is returned by the next writer, or still mapped.
LEMMA NextWriter ==
    ASSUME MInv, NEW c \in Nat, c <= Len(rob), NEW m, m = Remapped(arch_map, rob, 1..c),
           NEW l \in Lregs, NEW a \in 0..c, NEW p, Mapped(a, l, p)
    PROVE  m[l] = p \/ \E j \in 1..c : Writes(rob[j]) /\ rob[j].stale_pdst = p
<1> USE DEF Mapped
<1>0. Len(rob) \in Nat /\ \A i \in 1..c : \A h : Hit(rob, i, h) => i \in Held /\ i \in Nat
  BY DEF Hit, Held, MInv, TInv, TypeOK
<1>1. PICK T : T = {j \in 1..c : j > a /\ Hit(rob, j, l)}
  OBVIOUS
<1>2. CASE T = {}
  <2>1. \A j \in 1..c : j > a => ~Hit(rob, j, l)
    BY <1>1, <1>2
  <2>2. CASE m[l] = arch_map[l] /\ \A j \in 1..c : ~Hit(rob, j, l)
    <3>1. a > 0 => a \in 1..c
      OBVIOUS
    <3> QED
      BY <2>2, <3>1
  <2>3. CASE \E y \in 1..c : /\ Hit(rob, y, l) /\ m[l] = rob[y].pdst
                             /\ \A j \in 1..c : j > y => ~Hit(rob, j, l)
    <3>1. PICK y \in 1..c : /\ Hit(rob, y, l) /\ m[l] = rob[y].pdst
                            /\ \A j \in 1..c : j > y => ~Hit(rob, j, l)
      BY <2>3
    <3>2. ~(y > a) /\ y \in Nat /\ y > 0
      BY <2>1, <3>1
    <3>3. a > 0 /\ a \in 1..c
      BY <3>2
    <3>4. ~(a > y)
      BY <3>1, <3>3
    <3>5. a = y
      BY <3>2, <3>4
    <3> QED
      BY <3>1, <3>3, <3>5
  <2> QED
    BY <2>2, <2>3, MappedIs
<1>3. CASE T # {}
  <2>1. T \subseteq Nat
    BY <1>1
  <2>2. PICK j : j = Least(T) /\ j \in T /\ \A y \in T : j <= y
    BY <1>3, <2>1, LeastIs
  <2>3. j \in 1..c /\ j > a /\ Hit(rob, j, l) /\ j \in Nat
    BY <1>1, <2>2
  <2>4. j \in Held /\ Writes(rob[j]) /\ rob[j].ldst = l
    BY <1>0, <2>3 DEF Hit
  <2>5. ASSUME NEW i \in 1..(j - 1), i > a PROVE ~Hit(rob, i, l)
    <3>1. i \in 1..c /\ ~(j <= i)
      BY <2>3
    <3> QED
      BY <1>1, <2>2, <2>5, <3>1
  <2>6. CASE rob[j].stale_pdst = arch_map[l] /\ \A i \in 1..(j - 1) : ~Hit(rob, i, l)
    <3>1. a > 0 => a \in 1..(j - 1)
      BY <2>3
    <3> QED
      BY <2>3, <2>4, <2>6, <3>1
  <2>7. CASE \E y \in 1..(j - 1) : /\ Hit(rob, y, l) /\ rob[j].stale_pdst = rob[y].pdst
                                   /\ \A i \in 1..(j - 1) : i > y => ~Hit(rob, i, l)
    <3>1. PICK y \in 1..(j - 1) : /\ Hit(rob, y, l) /\ rob[j].stale_pdst = rob[y].pdst
                                  /\ \A i \in 1..(j - 1) : i > y => ~Hit(rob, i, l)
      BY <2>7
    <3>2. ~(y > a) /\ y \in Nat /\ y > 0
      BY <2>3, <2>5, <3>1
    <3>3. a > 0 /\ a \in 1..(j - 1)
      BY <2>3, <3>2
    <3>4. ~(a > y)
      BY <3>1, <3>3
    <3>5. a = y
      BY <3>2, <3>4
    <3> QED
      BY <2>3, <2>4, <3>1, <3>3, <3>5
  <2> QED
    BY <2>4, <2>6, <2>7, StaleIs
<1> QED
  BY <1>2, <1>3

\* A register of the old committed map or of a committed uop is in the new committed map,
\* or one of the uops returns it.
LEMMA StaleCovers ==
    ASSUME MInv, NEW c \in Nat, c <= Len(rob), NEW m, m = Remapped(arch_map, rob, 1..c),
           NEW p \in ArchPregs \cup RobPregs(1, c)
    PROVE  \/ \E l \in Lregs : m[l] = p
           \/ \E j \in 1..c : Writes(rob[j]) /\ rob[j].stale_pdst = p
<1>1. CASE p \in ArchPregs
  <2>1. PICK l \in Lregs : p = arch_map[l]
    BY <1>1 DEF ArchPregs
  <2>2. PICK a \in 0..c : a = 0
    OBVIOUS
  <2>3. m[l] = p \/ \E j \in 1..c : Writes(rob[j]) /\ rob[j].stale_pdst = p
    <3>1. Mapped(a, l, p)
      BY <2>1, <2>2 DEF Mapped
    <3> QED
      BY <3>1, NextWriter
  <2> QED
    BY <2>3
<1>2. CASE p \in RobPregs(1, c)
  <2>1. PICK a \in 1..c : Writes(rob[a]) /\ p = rob[a].pdst
    BY <1>2 DEF RobPregs
  <2>2. a \in 0..c /\ a > 0 /\ a \in 1..Len(rob)
    BY DEF MInv, TInv, TypeOK
  <2>3. rob[a] \in Uops
    BY <2>2 DEF MInv, TInv, TypeOK
  <2>4. PICK l \in Lregs : l = rob[a].ldst
    BY <2>1, <2>3 DEF Uops, Writes
  <2>5. Hit(rob, a, l)
    BY <2>1, <2>4 DEF Hit
  <2>6. Mapped(a, l, p)
    BY <2>1, <2>2, <2>5 DEF Mapped
  <2> QED
    BY <2>2, <2>6, NextWriter
<1> QED
  BY <1>1, <1>2

-----------------------------------------------------------------------------
\* An entry after the cycle: one that stayed, or what dispatched from a slot.
LEMMA EntryNext ==
    ASSUME TInv, NEW B, NEW extra, NEW c, NEW E, NEW R, NEW M, Clocked(B, extra, c, E, R, M),
           NEW j \in 1..Len(rob')
    PROVE  \/ /\ j \in 1..(Kept - c) /\ j + c \in 1..Len(rob) /\ j + c \in (c + 1)..Kept
              /\ rob'[j].pdst = rob[j + c].pdst /\ (Writes(rob'[j]) <=> Writes(rob[j + c]))
              /\ rob'[j].st = (IF j + c \in E THEN "done" ELSE IF j + c \in R THEN "resolved"
                               ELSE IF rob[j + c].st = "resolved" THEN "done" ELSE rob[j + c].st)
           \/ /\ j \notin 1..(Kept - c)
              /\ \E w \in DisFire(extra) :
                    /\ j = ((Kept - c) + Below(DisFire(extra), w)) + 1
                    /\ rob'[j].st = "wait" /\ (Writes(rob'[j]) <=> w \in AllocReqs(DisFire(extra)))
                    /\ Writes(rob'[j]) => /\ rob'[j].pdst = alloc_pregs[w]
                                          /\ rob'[j].pdst # 0 /\ w \in Slots
<1>0. TypeOK /\ Control
  BY DEF TInv
<1>1. c \in Nat /\ Kept - c \in Nat /\ Kept \in Nat /\ Kept <= Len(rob)
  BY RobEntry
<1>2. CASE j \in 1..(Kept - c) /\ j + c \in 1..Len(rob) /\ rob'[j] = RobExec(E, R)[j + c]
  <2>1. PICK i : i = j + c
    OBVIOUS
  <2>2. /\ rob'[j].k = rob[i].k /\ rob'[j].ldst = rob[i].ldst /\ rob'[j].pdst = rob[i].pdst
        /\ rob'[j].st = (IF i \in E THEN "done" ELSE IF i \in R THEN "resolved"
                         ELSE IF rob[i].st = "resolved" THEN "done" ELSE rob[i].st)
    BY <1>0, <1>2, <2>1, ExecIs
  <2>3. Writes(rob'[j]) <=> Writes(rob[i])
    BY <2>2 DEF Writes
  <2>4. i \in (c + 1)..Kept
    BY <1>1, <1>2, <2>1
  <2> QED
    BY <1>2, <2>1, <2>2, <2>3, <2>4
<1>3. CASE \E i \in 1..Cardinality(DisFire(extra)) :
               /\ j = (Kept - c) + i
               /\ Nth(DisFire(extra), i) \in DisFire(extra)
               /\ Below(DisFire(extra), Nth(DisFire(extra), i)) = i - 1
               /\ rob'[j] = DisUop(Nth(DisFire(extra), i), DisFire(extra))
  <2>1. PICK i \in 1..Cardinality(DisFire(extra)) :
               /\ j = (Kept - c) + i
               /\ Nth(DisFire(extra), i) \in DisFire(extra)
               /\ Below(DisFire(extra), Nth(DisFire(extra), i)) = i - 1
               /\ rob'[j] = DisUop(Nth(DisFire(extra), i), DisFire(extra))
    BY <1>3
  <2>2. PICK w : w = Nth(DisFire(extra), i) /\ w \in DisFire(extra)
    BY <2>1
  <2>3. PICK b : b = Below(DisFire(extra), w) /\ b = i - 1
    BY <2>1, <2>2
  <2>4. i \in Nat /\ i > 0
    BY RobIs
  <2>5. j \notin 1..(Kept - c) /\ j = ((Kept - c) + b) + 1
    BY <1>1, <2>1, <2>3, <2>4
  <2>6. /\ rob'[j].st = "wait" /\ rob'[j].k = ren2[w].k /\ rob'[j].ldst = ren2[w].ldst
        /\ rob'[j].pdst = IF Writes(ren2[w]) THEN alloc_pregs[w] ELSE 0
    BY <1>0, <2>1, <2>2, DisUopIs
  <2>7. Writes(rob'[j]) <=> Writes(ren2[w])
    BY <2>6 DEF Writes
  <2>8. w \in AllocReqs(DisFire(extra)) <=> Writes(ren2[w])
    BY <2>2 DEF AllocReqs
  <2>9. w \in Slots /\ (Writes(ren2[w]) => alloc_pregs[w] # 0)
    BY <1>0, <2>2, FireIs
  <2> QED
    BY <2>2, <2>3, <2>5, <2>6, <2>7, <2>8, <2>9
<1> QED
  BY <1>2, <1>3, RobEntry

\* What dispatches from a slot is in the ROB.
LEMMA FiredEntry ==
    ASSUME TInv, NEW B, NEW extra, NEW c, NEW E, NEW R, NEW M, Clocked(B, extra, c, E, R, M),
           NEW w \in AllocReqs(DisFire(extra)), NEW j,
           j = ((Kept - c) + Below(DisFire(extra), w)) + 1
    PROVE  /\ j \in 1..Len(rob') /\ j \notin 1..(Kept - c)
           /\ Writes(rob'[j]) /\ rob'[j].pdst = alloc_pregs[w]
<1>0. TypeOK /\ Control /\ w \in DisFire(extra) /\ Writes(ren2[w])
  BY DEF TInv, AllocReqs
<1>1. DisFire(extra) \subseteq Nat /\ IsFiniteSet(DisFire(extra))
  BY <1>0, FireIs
<1>2. PICK i \in 1..Cardinality(DisFire(extra)) :
          Nth(DisFire(extra), i) = w /\ i = Below(DisFire(extra), w) + 1
  BY <1>0, <1>1, NthOnto
<1>3. PICK k : k = Kept - c
  OBVIOUS
<1>4. PICK n : n = Cardinality(DisFire(extra))
  OBVIOUS
<1>5. /\ k \in Nat /\ n \in Nat /\ Len(rob') = k + n
      /\ \A x \in 1..n : rob'[k + x] = DisUop(Nth(DisFire(extra), x), DisFire(extra))
  BY <1>3, <1>4, RobIs
<1>6. PICK b : b = Below(DisFire(extra), w) /\ b \in Nat
  BY <1>0, <1>1, BelowIs
<1>7. j = k + i /\ i \in 1..n
  BY <1>2, <1>3, <1>4, <1>5, <1>6
<1>8. j \in 1..Len(rob') /\ j \notin 1..k
  BY <1>5, <1>7
<1>9. rob'[j] = DisUop(w, DisFire(extra))
  BY <1>2, <1>5, <1>7
<1>10. rob'[j].k = ren2[w].k /\ rob'[j].ldst = ren2[w].ldst /\ rob'[j].pdst = alloc_pregs[w]
  BY <1>0, <1>9, DisUopIs
<1> QED
  BY <1>0, <1>3, <1>8, <1>10 DEF Writes

\* The registers in flight behind an entry after the cycle.
LEMMA RobPregsNext ==
    ASSUME TInv, NEW B, NEW extra, NEW c, NEW E, NEW R, NEW M, Clocked(B, extra, c, E, R, M),
           NEW n \in 0..(Kept - c)
    PROVE  RobPregs(n + 1, Len(rob))'
               = RobPregs((n + c) + 1, Kept) \cup AllocsFrom(DisFire(extra), Slots)
<1>1. c \in Nat /\ Kept \in Nat /\ Kept - c \in Nat /\ n \in Nat
  <2>1. c \in Nat /\ Kept \in Nat /\ c <= Kept
    BY KeptIs DEF Clocked
  <2> QED
    BY <2>1
<1>2. AllocReqs(DisFire(extra)) \subseteq Slots
  BY AllocsAre
<1>3. ASSUME NEW j \in (n + 1)..Len(rob'), Writes(rob'[j])
      PROVE  rob'[j].pdst \in RobPregs((n + c) + 1, Kept) \cup AllocsFrom(DisFire(extra), Slots)
  <2>0. j \in 1..Len(rob')
    BY <1>1
  <2>1. CASE /\ j + c \in (c + 1)..Kept
             /\ rob'[j].pdst = rob[j + c].pdst /\ (Writes(rob'[j]) <=> Writes(rob[j + c]))
    <3>1. j + c \in ((n + c) + 1)..Kept
      BY <1>1, <2>1
    <3> QED
      BY <1>3, <2>1, <3>1 DEF RobPregs
  <2>2. CASE \E w \in AllocReqs(DisFire(extra)) : rob'[j].pdst = alloc_pregs[w]
    BY <1>2, <2>2 DEF AllocsFrom
  <2> QED
    BY <1>3, <2>0, <2>1, <2>2, EntryNext
<1>4. ASSUME NEW i \in ((n + c) + 1)..Kept, Writes(rob[i])
      PROVE  \E j \in (n + 1)..Len(rob') : Writes(rob'[j]) /\ rob'[j].pdst = rob[i].pdst
  <2>1. PICK j : j = i - c
    OBVIOUS
  <2>2. j \in 1..(Kept - c) /\ j + c = i /\ j > n
    BY <1>1, <2>1
  <2>3. j \in 1..Len(rob') /\ j \in (n + 1)..Len(rob')
    <3>1. PICK k : k = Kept - c
      OBVIOUS
    <3>2. PICK x : x = Cardinality(DisFire(extra))
      OBVIOUS
    <3>3. k \in Nat /\ x \in Nat /\ Len(rob') = k + x
      BY <3>1, <3>2, RobIs
    <3> QED
      BY <1>1, <2>2, <3>1, <3>3
  <2> QED
    BY <1>4, <2>2, <2>3, EntryNext
<1>5. ASSUME NEW w \in AllocReqs(DisFire(extra))
      PROVE  \E j \in (n + 1)..Len(rob') : Writes(rob'[j]) /\ rob'[j].pdst = alloc_pregs[w]
  <2>1. PICK j : j = ((Kept - c) + Below(DisFire(extra), w)) + 1
    OBVIOUS
  <2>2. /\ j \in 1..Len(rob') /\ j \notin 1..(Kept - c)
        /\ Writes(rob'[j]) /\ rob'[j].pdst = alloc_pregs[w]
    BY <2>1, FiredEntry
  <2>3. j \in (n + 1)..Len(rob')
    BY <1>1, <2>2
  <2> QED
    BY <2>2, <2>3
<1>6. \A p : p \in RobPregs(n + 1, Len(rob))'
                 <=> \E j \in (n + 1)..Len(rob') : Writes(rob'[j]) /\ rob'[j].pdst = p
  BY DEF RobPregs
<1>7. \A p : p \in RobPregs((n + c) + 1, Kept)
                 <=> \E i \in ((n + c) + 1)..Kept : Writes(rob[i]) /\ rob[i].pdst = p
  BY DEF RobPregs
<1>8. \A p : p \in AllocsFrom(DisFire(extra), Slots)
                 <=> \E w \in AllocReqs(DisFire(extra)) : alloc_pregs[w] = p
  BY <1>2 DEF AllocsFrom
<1> QED
  BY <1>3, <1>4, <1>5, <1>6, <1>7, <1>8

-----------------------------------------------------------------------------
\* The ROB is cut in three: what commits, what stays, what is killed or rolled back.
LEMMA Cut ==
    ASSUME TInv, NEW c \in CommitCounts
    PROVE  /\ c \in Nat /\ Kept \in Nat /\ c <= Kept /\ Kept <= Len(rob) /\ Len(rob) \in Nat
           /\ RobPregs(1, Len(rob)) = RobPregs(1, c) \cup RobPregs(c + 1, Kept) \cup RobPregs(Kept + 1, Len(rob))
<1>1. c \in Nat /\ Kept \in Nat /\ c <= Kept /\ Kept <= Len(rob) /\ Len(rob) \in Nat
  BY KeptIs
<1>2. \A j : j \in 1..Len(rob) <=> j \in 1..c \/ j \in (c + 1)..Kept \/ j \in (Kept + 1)..Len(rob)
  BY <1>1
<1>3. \A p : p \in RobPregs(1, Len(rob))
                 <=> p \in RobPregs(1, c) \/ p \in RobPregs(c + 1, Kept) \/ p \in RobPregs(Kept + 1, Len(rob))
  BY <1>2, LiveIs
<1> QED
  BY <1>1, <1>3

\* Two stretches that do not meet have no register in common.
LEMMA Apart ==
    ASSUME TInv, Distinct, NEW a \in Nat, NEW b \in Nat, b <= Len(rob)
    PROVE  /\ RobPregs(a + 1, b) \cap RobPregs(b + 1, Len(rob)) = {}
           /\ 0 \notin RobPregs(a + 1, Len(rob))
           /\ RobPregs(a + 1, b) \subseteq RobPregs(a + 1, Len(rob))
           /\ RobPregs(b + 1, Len(rob)) \subseteq RobPregs(1, Len(rob))
<1>1. Len(rob) \in Nat
  BY DEF TInv, TypeOK
<1>2. \A i \in (a + 1)..Len(rob) : Writes(rob[i]) => i \in Held
  BY <1>1 DEF Held
<1>3. \A i \in (b + 1)..Len(rob) : (Writes(rob[i]) => i \in Held) /\ i \in 1..Len(rob)
  BY <1>1 DEF Held
<1>4. \A i \in (a + 1)..b, j \in (b + 1)..Len(rob) : i # j
  BY <1>1
<1>5. \A i \in (a + 1)..b : i \in (a + 1)..Len(rob)
  BY <1>1
<1>6. RobPregs(a + 1, b) \cap RobPregs(b + 1, Len(rob)) = {}
  <2>1. SUFFICES ASSUME NEW p, p \in RobPregs(a + 1, b), p \in RobPregs(b + 1, Len(rob)) PROVE FALSE
    OBVIOUS
  <2>2. PICK i \in (a + 1)..b : Writes(rob[i]) /\ rob[i].pdst = p
    BY <2>1, LiveIs
  <2>3. PICK j \in (b + 1)..Len(rob) : Writes(rob[j]) /\ rob[j].pdst = p
    BY <2>1, LiveIs
  <2>4. i \in Held /\ j \in Held /\ i # j
    BY <1>2, <1>3, <1>4, <1>5, <2>2, <2>3
  <2> QED
    BY <2>2, <2>3, <2>4 DEF Distinct
<1>7. 0 \notin RobPregs(a + 1, Len(rob))
  BY <1>2, LiveIs DEF Distinct
<1>8. RobPregs(a + 1, b) \subseteq RobPregs(a + 1, Len(rob))
  BY <1>5, LiveIs
<1>9. RobPregs(b + 1, Len(rob)) \subseteq RobPregs(1, Len(rob))
  BY <1>3, LiveIs
<1> QED
  BY <1>6, <1>7, <1>8, <1>9

\* The registers of killed entries are on the list of the branch that is repaired next.
LEMMA BrDeallocsNext ==
    ASSUME FInv, NEW B, NEW extra, NEW c, NEW E, NEW R, NEW M, Clocked(B, extra, c, E, R, M)
    PROVE  BrDeallocs' = RobPregs(Survivors + 1, Len(rob))
<1>0. TInv /\ TypeOK /\ Len(rob) \in Nat
  BY DEF FInv, MInv, TInv, TypeOK
<1>1. BrDeallocs' = IF b2'.mispredict THEN br_alloc_lists'[b2'.tag] ELSE {}
  BY DEF BrDeallocs
<1>2. CASE ~b2'.mispredict
  <2>1. b1.mis = {}
    BY <1>2 DEF Clocked, Cycle, B2After
  <2>2. Survivors = Len(rob)
    BY <1>0, <2>1, SurvivorsAre
  <2>3. \A j : j \notin (Len(rob) + 1)..Len(rob)
    BY <1>0
  <2>4. RobPregs(Survivors + 1, Len(rob)) = {}
    BY <2>2, <2>3 DEF RobPregs
  <2> QED
    BY <1>1, <1>2, <2>4
<1>3. CASE b2'.mispredict
  <2>1. PICK s : s = Survivors
    OBVIOUS
  <2>2. /\ s \in 1..Len(rob) /\ Open(rob[s]) /\ b2'.tag = rob[s].br_tag
        /\ DisFire(extra) = {} /\ rstate = "normal"
    BY <1>0, <1>3, <2>1, B2Next
  <2>3. BranchSlot(DisFire(extra), rob[s].br_tag) = 0 /\ rob[s].br_tag \in Tags
    BY <2>2, SnapshotStays DEF FInv
  <2>4. AllocsFrom(DisFire(extra), Slots) = {}
    BY <2>2 DEF AllocsFrom, AllocReqs
  <2>5. br_alloc_lists'[rob[s].br_tag] = br_alloc_lists[rob[s].br_tag] \ BrDeallocs
    <3>1. br_alloc_lists' = BrAllocListsAfter(DisFire(extra))
      BY DEF Clocked, Cycle
    <3> QED
      BY <2>3, <2>4, <3>1 DEF BrAllocListsAfter
  <2>6. br_alloc_lists[rob[s].br_tag] = RobPregs(s + 1, Len(rob)) \cup BrDeallocs
    BY <2>2 DEF FInv, Lists
  <2>7. RobPregs(s + 1, Len(rob)) \cap BrDeallocs = {}
    <3>1. RobPregs(s + 1, Len(rob)) \subseteq Live
      <4>1. s \in Nat /\ s <= Len(rob)
        BY <1>0, <2>2
      <4> QED
        BY <1>0, <4>1, Apart, LiveIs DEF FInv
    <3> QED
      BY <3>1 DEF FInv, Lists
  <2>8. br_alloc_lists'[b2'.tag] = RobPregs(s + 1, Len(rob))
    BY <2>2, <2>5, <2>6, <2>7
  <2> QED
    BY <1>1, <1>3, <2>1, <2>8
<1> QED
  BY <1>2, <1>3

\* What is deallocated: the registers that the entries that commit return, and
\* those of the row that is rolled back.
LEMMA DeallocsAre ==
    ASSUME TInv, NEW c \in CommitCounts
    PROVE  /\ Deallocs(c) = {rob[j].stale_pdst : j \in {i \in 1..c : Writes(rob[i])}}
                                \cup RobPregs((Len(rob) - RollbackCount) + 1, Len(rob))
           /\ \/ /\ RobPregs((Len(rob) - RollbackCount) + 1, Len(rob)) = {}
                 /\ RobPregs(Survivors + 1, Len(rob)) = RobPregs(Kept + 1, Len(rob))
              \/ /\ RobPregs(Survivors + 1, Len(rob)) = {}
                 /\ RobPregs((Len(rob) - RollbackCount) + 1, Len(rob)) = RobPregs(Kept + 1, Len(rob))
<1>1. Deallocs(c) = {rob[j].stale_pdst : j \in {i \in 1..c : Writes(rob[i])}}
                        \cup RobPregs((Len(rob) - RollbackCount) + 1, Len(rob))
  BY DEF Deallocs, RobPregs
<1>2. Len(rob) \in Nat /\ \A j : j \notin (Len(rob) + 1)..Len(rob)
  BY DEF TInv, TypeOK
<1>3. RobPregs(Len(rob) + 1, Len(rob)) = {}
  BY <1>2 DEF RobPregs
<1>4. PICK t : t = (Len(rob) - RollbackCount) + 1
  OBVIOUS
<1>5. \/ t = Len(rob) + 1 /\ Survivors = Kept
      \/ t = Kept + 1 /\ Survivors = Len(rob)
  <2>1. CASE rstate = "rollback"
    BY <1>4, <2>1, KeptIs
  <2>2. CASE rstate # "rollback"
    BY <1>2, <1>4, <2>2, KeptIs DEF RollbackCount
  <2> QED
    BY <2>1, <2>2
<1>6. \/ /\ RobPregs(t, Len(rob)) = {}
         /\ RobPregs(Survivors + 1, Len(rob)) = RobPregs(Kept + 1, Len(rob))
      \/ /\ RobPregs(Survivors + 1, Len(rob)) = {}
         /\ RobPregs(t, Len(rob)) = RobPregs(Kept + 1, Len(rob))
  BY <1>3, <1>5
<1> QED
  BY <1>1, <1>4, <1>6

\* How the registers move: a cut of Live, what dispatch takes, what is selected ahead.
LEMMA Moves ==
    ASSUME FInv, NEW B, NEW extra, NEW c, NEW E, NEW R, NEW M, Clocked(B, extra, c, E, R, M)
    PROVE  /\ free_list' = ((free_list \ {Sel(w) : w \in SelFire(DisFire(extra))})
                                \cup Deallocs(c) \cup BrDeallocs) \ {0}
           /\ Ahead' = (Ahead \ AllocsFrom(DisFire(extra), Slots))
                           \cup {Sel(w) : w \in SelFire(DisFire(extra))}
           /\ Live' = ArchPregs' \cup RobPregs(c + 1, Kept) \cup AllocsFrom(DisFire(extra), Slots)
           /\ AllocsFrom(DisFire(extra), Slots) \subseteq Ahead
           /\ {Sel(w) : w \in SelFire(DisFire(extra))} \subseteq free_list
           /\ \A v, w \in Slots : alloc_pregs'[v] = alloc_pregs'[w] /\ v # w => alloc_pregs'[v] = 0
<1> DEFINE fire == DisFire(extra)
           Sels == {Sel(w) : w \in SelFire(fire)}
<1>0. TInv /\ TypeOK
  BY DEF FInv, MInv, TInv
<1>1. free_list' = ((free_list \ Sels) \cup Deallocs(c) \cup BrDeallocs) \ {0}
  BY DEF Clocked, Cycle, FreeListAfter
<1>2. Live' = ArchPregs' \cup RobPregs(c + 1, Kept) \cup AllocsFrom(fire, Slots)
  <2>1. Live' = ArchPregs' \cup RobPregs(1, Len(rob))'
    BY DEF Live, ArchPregs, RobPregs
  <2>2. PICK n \in 0..(Kept - c) : n = 0 /\ n + 1 = 1 /\ n + c = c
    <3>1. Kept - c \in Nat /\ c \in Nat
      <4>1. c \in Nat /\ Kept \in Nat /\ c <= Kept
        BY <1>0, KeptIs DEF Clocked
      <4> QED
        BY <4>1
    <3> QED
      BY <3>1
  <2>3. RobPregs(n + 1, Len(rob))' = RobPregs((n + c) + 1, Kept) \cup AllocsFrom(fire, Slots)
    BY <1>0, RobPregsNext
  <2> QED
    BY <2>1, <2>2, <2>3
<1>3. AllocsFrom(fire, Slots) \subseteq Ahead /\ AllocReqs(fire) \subseteq Slots
      /\ 0 \notin AllocsFrom(fire, Slots)
  BY <1>0, AllocsAre
<1>4. \A w \in SelFire(fire) : w \in Slots /\ Sel(w) # 0 /\ Sel(w) \in free_list
  BY <1>0, SelIs DEF SelFire
<1>5. \A v, w \in SelFire(fire) : Sel(v) = Sel(w) => v = w
  <2>1. SUFFICES ASSUME NEW v \in SelFire(fire), NEW w \in SelFire(fire), Sel(v) = Sel(w)
                 PROVE  v = w
    OBVIOUS
  <2>2. /\ v \in 1..Cardinality(free_list) /\ w \in 1..Cardinality(free_list)
        /\ Sel(v) = Nth(free_list, v) /\ Sel(w) = Nth(free_list, w)
        /\ free_list \subseteq Nat /\ IsFiniteSet(free_list) /\ Cardinality(free_list) \in Nat
        /\ free_list \subseteq Pregs
    BY <1>0, <1>4, SelIs DEF TypeOK
  <2>3. \A p \in free_list : ~(p < p)
    BY <2>2
  <2>4. ~(v < w) /\ ~(w < v)
    <3>1. Nth(free_list, v) = Nth(free_list, w) /\ Nth(free_list, v) \in free_list
      BY <1>4, <2>1, <2>2
    <3> QED
      BY <2>2, <2>3, <3>1, NthOrder
  <2> QED
    BY <2>2, <2>4
<1>6. \A w \in Slots : alloc_pregs'[w] = IF w \in SelFire(fire) THEN Sel(w)
                                         ELSE IF w \in AllocReqs(fire) THEN 0 ELSE alloc_pregs[w]
  BY DEF Clocked, Cycle, AllocPregsAfter
<1>7. \A w \in Slots : alloc_pregs[w] # 0 => w \in AllocReqs(fire) \/ w \notin SelFire(fire)
  BY DEF SelFire
<1>8. \A p : /\ p \in Ahead <=> p # 0 /\ \E w \in Slots : alloc_pregs[w] = p
             /\ p \in Ahead' <=> p # 0 /\ \E w \in Slots : alloc_pregs'[w] = p
             /\ p \in AllocsFrom(fire, Slots) <=> \E w \in AllocReqs(fire) : alloc_pregs[w] = p
             /\ p \in Sels <=> \E w \in SelFire(fire) : Sel(w) = p
  BY <1>3 DEF Ahead, AllocsFrom
<1>9. \A v, w \in Slots : alloc_pregs[v] = alloc_pregs[w] /\ v # w => alloc_pregs[v] = 0
  BY DEF FInv, FreeListRight, NoDoubleUse
<1>10. free_list \cap Ahead = {}
  BY DEF FInv, FreeListRight, NoDoubleUse
<1> HIDE DEF fire, Sels
<1>11. Ahead' = (Ahead \ AllocsFrom(fire, Slots)) \cup Sels
  <2>1. ASSUME NEW p \in Ahead' PROVE p \in (Ahead \ AllocsFrom(fire, Slots)) \cup Sels
    <3>1. PICK w \in Slots : alloc_pregs'[w] = p /\ p # 0
      BY <1>8, <2>1
    <3>2. CASE w \in SelFire(fire)
      BY <1>6, <1>8, <3>1, <3>2
    <3>3. CASE w \notin SelFire(fire)
      <4>1. alloc_pregs[w] = p /\ w \notin AllocReqs(fire)
        BY <1>6, <3>1, <3>3
      <4>2. p \in Ahead
        BY <1>8, <3>1, <4>1
      <4>3. p \notin AllocsFrom(fire, Slots)
        BY <1>3, <1>8, <1>9, <3>1, <4>1
      <4> QED
        BY <4>2, <4>3
    <3> QED
      BY <3>2, <3>3
  <2>2. ASSUME NEW p \in Ahead, p \notin AllocsFrom(fire, Slots) PROVE p \in Ahead'
    <3>1. PICK w \in Slots : alloc_pregs[w] = p /\ p # 0
      BY <1>8, <2>2
    <3>2. w \notin AllocReqs(fire)
      BY <1>8, <2>2, <3>1
    <3>3. alloc_pregs'[w] = p
      BY <1>6, <1>7, <3>1, <3>2
    <3> QED
      BY <1>8, <3>1, <3>3
  <2>3. ASSUME NEW p \in Sels PROVE p \in Ahead'
    BY <1>4, <1>6, <1>8, <2>3
  <2> QED
    BY <2>1, <2>2, <2>3
<1>12. Sels \subseteq free_list
  BY <1>4, <1>8
<1>13. ASSUME NEW v \in Slots, NEW w \in Slots, alloc_pregs'[v] = alloc_pregs'[w], v # w
       PROVE  alloc_pregs'[v] = 0
  <2>1. \A u \in Slots : u \notin SelFire(fire) /\ alloc_pregs'[u] # 0
              => alloc_pregs'[u] = alloc_pregs[u] /\ alloc_pregs[u] \in Ahead
    BY <1>6, <1>8
  <2>2. \A u \in Slots : u \in SelFire(fire) => alloc_pregs'[u] = Sel(u) /\ Sel(u) \in free_list
    BY <1>4, <1>6
  <2>3. CASE v \in SelFire(fire) /\ w \in SelFire(fire)
    BY <1>5, <1>13, <2>2, <2>3
  <2>4. CASE v \notin SelFire(fire) /\ w \notin SelFire(fire)
    BY <1>9, <1>13, <2>1, <2>4
  <2>5. CASE v \notin SelFire(fire) <=> w \in SelFire(fire)
    BY <1>10, <1>13, <2>1, <2>2, <2>5
  <2> QED
    BY <2>3, <2>4, <2>5
<1> QED
  BY <1>1, <1>2, <1>3, <1>11, <1>12, <1>13 DEF fire, Sels

\* The algebra of a cycle.  Live is cut into X, what commits; U, what stays; K,
\* what is killed; and T, what is rolled back.  Of X, the part Y stays live and D is returned.
LEMMA Algebra ==
    ASSUME NEW P, NEW F, NEW H, NEW L, NEW Q, NEW X, NEW U, NEW K, NEW T, NEW Y, NEW D, NEW A, NEW S,
           L = X \cup U \cup K \cup T, (F \cup H) \cap L = {}, F \cap H = {}, 0 \notin F \cup H,
           Q \cap (F \cup H \cup L) = {}, P \ {0} \subseteq F \cup H \cup L \cup Q,
           0 \notin U \cup K \cup T, U \cap (K \cup T) = {}, K = {} \/ T = {},
           Y \subseteq X, D \ {0} \subseteq X, X \subseteq Y \cup D, Y \cap D \subseteq {0},
           Y \cap (U \cup K \cup T) = {}, D \cap (U \cup K \cup T) = {},
           A \subseteq H, S \subseteq F,
           NEW F1, F1 = ((F \ S) \cup (D \cup T) \cup Q) \ {0},
           NEW H1, H1 = (H \ A) \cup S, NEW L1, L1 = Y \cup U \cup A
    PROVE  /\ (F1 \cup H1) \cap L1 = {} /\ F1 \cap H1 = {}
           /\ K \cap (F1 \cup H1 \cup L1) = {}
           /\ P \ {0} \subseteq F1 \cup H1 \cup L1 \cup K
<1>1. ASSUME NEW p \in F1 PROVE p \notin H1 /\ p \notin L1 /\ p \notin K
  <2>1. p # 0 /\ (p \in F \/ p \in D \/ p \in T \/ p \in Q) /\ (p \in F => p \notin S)
    <3>1. (F \cap D) \ {0} = {} /\ F \cap T = {} /\ F \cap Q = {}
      OBVIOUS
    <3> QED
      BY <3>1
  <2>2. CASE p \in F
    BY <2>1, <2>2
  <2>3. CASE p \in D
    BY <2>1, <2>3
  <2>4. CASE p \in T
    BY <2>1, <2>4
  <2>5. CASE p \in Q
    BY <2>1, <2>5
  <2> QED
    BY <2>1, <2>2, <2>3, <2>4, <2>5
<1>2. ASSUME NEW p \in H1 PROVE p \notin L1 /\ p \notin K
  OBVIOUS
<1>3. ASSUME NEW p \in L1 PROVE p \notin K
  OBVIOUS
<1>4. ASSUME NEW p \in P, p # 0 PROVE p \in F1 \cup H1 \cup L1 \cup K
  BY <1>4
<1> QED
  BY <1>1, <1>2, <1>3, <1>4

\* Every register stays free, selected ahead or live (rename-freelist.scala 61-89).
LEMMA FreeListStep ==
    ASSUME FInv, NEW B, NEW extra, NEW c, NEW E, NEW R, NEW M, Clocked(B, extra, c, E, R, M)
    PROVE  FreeListRight' /\ (BrDeallocs \cap (free_list \cup Ahead \cup Live) = {})'
<1>0. MInv /\ TInv /\ Distinct /\ c \in CommitCounts
  BY DEF FInv, MInv, Clocked
<1>1. /\ c \in Nat /\ Kept \in Nat /\ c <= Kept /\ Kept <= Len(rob) /\ Len(rob) \in Nat
      /\ RobPregs(1, Len(rob)) = RobPregs(1, c) \cup RobPregs(c + 1, Kept) \cup RobPregs(Kept + 1, Len(rob))
  BY <1>0, Cut
<1>2. PICK F : F = free_list
  OBVIOUS
<1>3. PICK H : H = Ahead
  OBVIOUS
<1>4. PICK L : L = Live
  OBVIOUS
<1>5. PICK Q : Q = BrDeallocs
  OBVIOUS
<1>6. PICK X : X = ArchPregs \cup RobPregs(1, c)
  OBVIOUS
<1>7. PICK U : U = RobPregs(c + 1, Kept)
  OBVIOUS
<1>8. PICK K : K = RobPregs(Survivors + 1, Len(rob))
  OBVIOUS
<1>9. PICK T : T = RobPregs((Len(rob) - RollbackCount) + 1, Len(rob))
  OBVIOUS
<1>10. PICK m : m = Remapped(arch_map, rob, 1..c) /\ m = arch_map'
  BY DEF Clocked, Cycle
<1>11. PICK Y : Y = ArchPregs' /\ Y = {m[l] : l \in Lregs}
  BY <1>10 DEF ArchPregs
<1>12. PICK D : D = {rob[j].stale_pdst : j \in {i \in 1..c : Writes(rob[i])}}
  OBVIOUS
<1>13. PICK A : A = AllocsFrom(DisFire(extra), Slots)
  OBVIOUS
<1>14. PICK S : S = {Sel(w) : w \in SelFire(DisFire(extra))}
  OBVIOUS
<1>15. Deallocs(c) = D \cup T /\ (K = {} \/ T = {}) /\ K \cup T = RobPregs(Kept + 1, Len(rob))
  BY <1>0, <1>8, <1>9, <1>12, DeallocsAre
<1>16. L = X \cup U \cup K \cup T
  BY <1>1, <1>4, <1>6, <1>7, <1>15, LiveIs
<1>17. /\ (F \cup H) \cap L = {} /\ F \cap H = {} /\ 0 \notin F \cup H
       /\ Q \cap (F \cup H \cup L) = {} /\ Pregs \ {0} \subseteq F \cup H \cup L \cup Q
  <2>1. 0 \notin F \cup H
    BY <1>0, <1>2, <1>3 DEF TInv, TypeOK, Ahead
  <2> QED
    BY <1>2, <1>3, <1>4, <1>5, <2>1 DEF FInv, FreeListRight, NoDoubleUse, NoLeak, Lists
<1>18. 0 \notin U \cup K \cup T /\ U \cap (K \cup T) = {}
  <2>1. RobPregs(c + 1, Kept) \cap RobPregs(Kept + 1, Len(rob)) = {}
    BY <1>0, <1>1, Apart
  <2>2. 0 \notin RobPregs(c + 1, Len(rob)) /\ 0 \notin RobPregs(Kept + 1, Len(rob))
    BY <1>0, <1>1, Apart
  <2>3. RobPregs(c + 1, Kept) \subseteq RobPregs(c + 1, Len(rob))
    BY <1>0, <1>1, Apart
  <2> QED
    BY <1>7, <1>15, <2>1, <2>2, <2>3
<1>19. U \cup K \cup T = RobPregs(c + 1, Len(rob))
  <2>1. \A j : j \in (c + 1)..Len(rob) <=> j \in (c + 1)..Kept \/ j \in (Kept + 1)..Len(rob)
    BY <1>1
  <2>2. \A p : p \in RobPregs(c + 1, Len(rob))
                   <=> p \in RobPregs(c + 1, Kept) \/ p \in RobPregs(Kept + 1, Len(rob))
    BY <2>1, LiveIs
  <2> QED
    BY <1>7, <1>15, <2>2
<1>20. \A i \in (c + 1)..Len(rob) : Writes(rob[i]) => i \in Held /\ i > c
  BY <1>1 DEF Held
<1>21. c <= Len(rob)
  BY <1>1
<1>22. ASSUME NEW l \in Lregs PROVE m[l] \in X /\ m[l] \notin RobPregs(c + 1, Len(rob))
  <2>1. m[l] \in ArchPregs \cup RobPregs(1, c) /\ \A i \in Held : i > c => rob[i].pdst # m[l]
    BY <1>0, <1>1, <1>10, <1>21, CommitKeeps
  <2> QED
    BY <1>6, <1>20, <2>1, LiveIs
<1>23. Y \subseteq X /\ Y \cap (U \cup K \cup T) = {}
  BY <1>11, <1>19, <1>22
<1>24. ASSUME NEW j \in 1..c, Writes(rob[j]), rob[j].stale_pdst # 0
       PROVE  /\ rob[j].stale_pdst \in X /\ rob[j].stale_pdst \notin Y
              /\ rob[j].stale_pdst \notin RobPregs(c + 1, Len(rob))
  <2>1. /\ rob[j].stale_pdst \in ArchPregs \cup RobPregs(1, c)
        /\ \A l \in Lregs : m[l] # rob[j].stale_pdst
        /\ \A i \in Held : i > c => rob[i].pdst # rob[j].stale_pdst
    BY <1>0, <1>1, <1>10, <1>21, <1>24, StaleDead
  <2> QED
    BY <1>6, <1>11, <1>20, <2>1, LiveIs
<1>25. D \ {0} \subseteq X /\ Y \cap D \subseteq {0} /\ D \cap (U \cup K \cup T) = {}
  <2>1. \A p \in D : p # 0 => p \in X /\ p \notin Y /\ p \notin RobPregs(c + 1, Len(rob))
    BY <1>12, <1>24
  <2> QED
    BY <1>18, <1>19, <2>1
<1>26. X \subseteq Y \cup D
  <2>1. SUFFICES ASSUME NEW p \in ArchPregs \cup RobPregs(1, c) PROVE p \in Y \cup D
    BY <1>6
  <2>2. \/ \E l \in Lregs : m[l] = p
        \/ \E j \in 1..c : Writes(rob[j]) /\ rob[j].stale_pdst = p
    BY <1>0, <1>1, <1>10, <1>21, StaleCovers
  <2> QED
    BY <1>11, <1>12, <2>2
<1>27. A \subseteq H /\ S \subseteq F
  BY <1>2, <1>3, <1>13, <1>14, Moves
<1>28. PICK F1 : F1 = free_list' /\ F1 = ((F \ S) \cup (D \cup T) \cup Q) \ {0}
  BY <1>2, <1>5, <1>14, <1>15, Moves
<1>29. PICK H1 : H1 = Ahead' /\ H1 = (H \ A) \cup S
  BY <1>3, <1>13, <1>14, Moves
<1>30. PICK L1 : L1 = Live' /\ L1 = Y \cup U \cup A
  BY <1>7, <1>11, <1>13, Moves
<1>31. BrDeallocs' = K
  BY <1>8, BrDeallocsNext
<1>32. /\ (F1 \cup H1) \cap L1 = {} /\ F1 \cap H1 = {}
       /\ K \cap (F1 \cup H1 \cup L1) = {}
       /\ Pregs \ {0} \subseteq F1 \cup H1 \cup L1 \cup K
  BY <1>15, <1>16, <1>17, <1>18, <1>23, <1>25, <1>26, <1>27, <1>28, <1>29, <1>30, Algebra
<1>33. \A v, w \in Slots : alloc_pregs'[v] = alloc_pregs'[w] /\ v # w => alloc_pregs'[v] = 0
  BY Moves
<1> QED
  BY <1>28, <1>29, <1>30, <1>31, <1>32, <1>33 DEF FreeListRight, NoDoubleUse, NoLeak

-----------------------------------------------------------------------------
\* An entry that holds a register after the cycle held it before, or took it from
\* those selected ahead; no two entries did the same.
LEMMA HeldNext ==
    ASSUME FInv, NEW B, NEW extra, NEW c, NEW E, NEW R, NEW M, Clocked(B, extra, c, E, R, M),
           NEW j \in 1..Len(rob'), Writes(rob'[j])
    PROVE  \/ \E i \in Held : /\ i = j + c /\ i > c /\ rob'[j].pdst = rob[i].pdst /\ rob[i].pdst \in Live
                              /\ rob'[j].st = "wait" <=> i \notin E /\ rob[i].st = "wait"
           \/ \E w \in AllocReqs(DisFire(extra)) :
                    /\ j = ((Kept - c) + Below(DisFire(extra), w)) + 1 /\ w \in Slots
                    /\ rob'[j].st = "wait" /\ rob'[j].pdst = alloc_pregs[w] /\ alloc_pregs[w] # 0
                    /\ alloc_pregs[w] \in Ahead /\ alloc_pregs[w] \in AllocsFrom(DisFire(extra), Slots)
<1>0. TInv /\ Len(rob) \in Nat /\ R \subseteq CanResolve /\ c \in Nat
  <2>1. TInv /\ Len(rob) \in Nat /\ R \subseteq CanResolve
    BY DEF FInv, MInv, TInv, TypeOK, Clocked
  <2> QED
    BY <2>1, RobEntry
<1>1. CASE /\ j + c \in 1..Len(rob) /\ j + c \in (c + 1)..Kept
           /\ rob'[j].pdst = rob[j + c].pdst /\ (Writes(rob'[j]) <=> Writes(rob[j + c]))
           /\ rob'[j].st = (IF j + c \in E THEN "done" ELSE IF j + c \in R THEN "resolved"
                            ELSE IF rob[j + c].st = "resolved" THEN "done" ELSE rob[j + c].st)
  <2>1. PICK i : i = j + c
    OBVIOUS
  <2>2. i \in Held /\ i > c /\ i \in 1..Len(rob)
    BY <1>0, <1>1, <2>1 DEF Held
  <2>3. i \notin R
    BY <1>0, <1>1, <2>1 DEF CanResolve, IsBr, Writes
  <2>4. rob[i].pdst \in Live
    BY <1>1, <2>1, <2>2 DEF Live
  <2> QED
    BY <1>1, <2>1, <2>2, <2>3, <2>4
<1>2. CASE \E w \in DisFire(extra) :
              /\ j = ((Kept - c) + Below(DisFire(extra), w)) + 1
              /\ rob'[j].st = "wait" /\ (Writes(rob'[j]) <=> w \in AllocReqs(DisFire(extra)))
              /\ Writes(rob'[j]) => /\ rob'[j].pdst = alloc_pregs[w]
                                    /\ rob'[j].pdst # 0 /\ w \in Slots
  <2>1. PICK w \in AllocReqs(DisFire(extra)) :
              /\ j = ((Kept - c) + Below(DisFire(extra), w)) + 1
              /\ rob'[j].st = "wait" /\ rob'[j].pdst = alloc_pregs[w]
              /\ rob'[j].pdst # 0 /\ w \in Slots
    BY <1>2
  <2>2. alloc_pregs[w] \in Ahead /\ alloc_pregs[w] \in AllocsFrom(DisFire(extra), Slots)
    BY <2>1 DEF Ahead, AllocsFrom
  <2> QED
    BY <2>1, <2>2
<1> QED
  BY <1>0, <1>1, <1>2, EntryNext

\* No register becomes the destination of two uops.
LEMMA DistinctStep ==
    ASSUME FInv, NEW B, NEW extra, NEW c, NEW E, NEW R, NEW M, Clocked(B, extra, c, E, R, M)
    PROVE  Distinct'
<1>0. MInv /\ TInv /\ Distinct /\ c \in CommitCounts
  BY DEF FInv, MInv, Clocked
<1>1. c \in Nat /\ c <= Len(rob) /\ Len(rob) \in Nat
  <2>1. c \in Nat /\ Kept \in Nat /\ c <= Kept /\ Kept <= Len(rob) /\ Len(rob) \in Nat
    BY <1>0, Cut
  <2> QED
    BY <2>1
<1>2. PICK m : m = Remapped(arch_map, rob, 1..c) /\ m = arch_map'
  BY DEF Clocked, Cycle
<1>3. ASSUME NEW l \in Lregs
      PROVE  /\ m[l] \in Live /\ \A i \in Held : i > c => rob[i].pdst # m[l]
             /\ \A k \in Lregs : m[k] = m[l] => k = l \/ m[l] = 0
  <2>1. /\ m[l] \in ArchPregs \cup RobPregs(1, c) /\ \A i \in Held : i > c => rob[i].pdst # m[l]
        /\ \A k \in Lregs : m[k] = m[l] => k = l \/ m[l] = 0
    BY <1>0, <1>1, <1>2, CommitKeeps
  <2>2. \A j \in 1..c : j \in 1..Len(rob)
    BY <1>1
  <2>3. m[l] \in Live
    BY <2>1, <2>2, LiveIs
  <2> QED
    BY <2>1, <2>3
<1>4. Live \cap Ahead = {} /\ \A v, w \in Slots : alloc_pregs[v] = alloc_pregs[w] /\ v # w => alloc_pregs[v] = 0
  BY DEF FInv, FreeListRight, NoDoubleUse
<1>5. ASSUME NEW j \in 1..Len(rob'), Writes(rob'[j])
      PROVE  rob'[j].pdst # 0 /\ \A l \in Lregs : m[l] # rob'[j].pdst
  <2>1. CASE \E i \in Held : i > c /\ rob'[j].pdst = rob[i].pdst
    BY <1>0, <1>3, <2>1 DEF Distinct
  <2>2. CASE \E w \in Slots : rob'[j].pdst = alloc_pregs[w] /\ alloc_pregs[w] # 0 /\ alloc_pregs[w] \in Ahead
    BY <1>3, <1>4, <2>2
  <2> QED
    BY <1>5, <2>1, <2>2, HeldNext
<1>6. ASSUME NEW i \in 1..Len(rob'), NEW j \in 1..Len(rob'), Writes(rob'[i]), Writes(rob'[j]),
             rob'[i].pdst = rob'[j].pdst
      PROVE  i = j
  <2>1. CASE /\ \E x \in Held : x = i + c /\ rob'[i].pdst = rob[x].pdst
             /\ \E y \in Held : y = j + c /\ rob'[j].pdst = rob[y].pdst
    <3>1. PICK x \in Held : x = i + c /\ rob'[i].pdst = rob[x].pdst
      BY <2>1
    <3>2. PICK y \in Held : y = j + c /\ rob'[j].pdst = rob[y].pdst
      BY <2>1
    <3>3. x = y
      BY <1>0, <1>6, <3>1, <3>2 DEF Distinct
    <3> QED
      BY <1>1, <3>1, <3>2, <3>3
  <2>2. CASE /\ \E v \in Slots : /\ i = ((Kept - c) + Below(DisFire(extra), v)) + 1
                                 /\ rob'[i].pdst = alloc_pregs[v] /\ alloc_pregs[v] # 0
             /\ \E w \in Slots : /\ j = ((Kept - c) + Below(DisFire(extra), w)) + 1
                                 /\ rob'[j].pdst = alloc_pregs[w] /\ alloc_pregs[w] # 0
    <3>1. PICK v \in Slots : /\ i = ((Kept - c) + Below(DisFire(extra), v)) + 1
                             /\ rob'[i].pdst = alloc_pregs[v] /\ alloc_pregs[v] # 0
      BY <2>2
    <3>2. PICK w \in Slots : /\ j = ((Kept - c) + Below(DisFire(extra), w)) + 1
                             /\ rob'[j].pdst = alloc_pregs[w] /\ alloc_pregs[w] # 0
      BY <2>2
    <3>3. v = w
      BY <1>4, <1>6, <3>1, <3>2
    <3> QED
      BY <3>1, <3>2, <3>3
  <2>3. CASE \/ rob'[i].pdst \in Live /\ rob'[j].pdst \in Ahead
             \/ rob'[i].pdst \in Ahead /\ rob'[j].pdst \in Live
    BY <1>4, <1>6, <2>3
  <2>4. \/ /\ \E x \in Held : x = i + c /\ rob'[i].pdst = rob[x].pdst
           /\ rob'[i].pdst \in Live
        \/ /\ \E v \in Slots : /\ i = ((Kept - c) + Below(DisFire(extra), v)) + 1
                               /\ rob'[i].pdst = alloc_pregs[v] /\ alloc_pregs[v] # 0
           /\ rob'[i].pdst \in Ahead
    BY <1>6, HeldNext
  <2>5. \/ /\ \E y \in Held : y = j + c /\ rob'[j].pdst = rob[y].pdst
           /\ rob'[j].pdst \in Live
        \/ /\ \E w \in Slots : /\ j = ((Kept - c) + Below(DisFire(extra), w)) + 1
                               /\ rob'[j].pdst = alloc_pregs[w] /\ alloc_pregs[w] # 0
           /\ rob'[j].pdst \in Ahead
    BY <1>6, HeldNext
  <2> QED
    BY <2>1, <2>2, <2>3, <2>4, <2>5
<1> QED
  BY <1>2, <1>3, <1>5, <1>6 DEF Distinct, Held

\* The busy table stays the set of registers not yet written.
LEMMA BusyStep ==
    ASSUME FInv, NEW B, NEW extra, NEW c, NEW E, NEW R, NEW M, Clocked(B, extra, c, E, R, M)
    PROVE  BusyRight'
<1>0. MInv /\ TInv /\ Distinct /\ c \in CommitCounts /\ BusyRight
  BY DEF FInv, MInv, Clocked
<1>1. c \in Nat /\ c <= Len(rob) /\ Len(rob) \in Nat
  <2>1. c \in Nat /\ Kept \in Nat /\ c <= Kept /\ Kept <= Len(rob) /\ Len(rob) \in Nat
    BY <1>0, Cut
  <2> QED
    BY <2>1
<1>2. PICK m : m = Remapped(arch_map, rob, 1..c) /\ m = arch_map'
  BY DEF Clocked, Cycle
<1>3. \A p : p \in busy_table' <=>
          \/ p \in AllocsFrom(DisFire(extra), Slots)
          \/ p \in busy_table /\ \A i \in E : Writes(rob[i]) => rob[i].pdst # p
  BY DEF Clocked, Cycle, BusyTableAfter
<1>4. Live \cap Ahead = {} /\ AllocsFrom(DisFire(extra), Slots) \subseteq Ahead
  BY <1>0, AllocsAre DEF FInv, FreeListRight, NoDoubleUse
<1>5. E \subseteq 1..Len(rob) /\ \A i \in E : rob[i].st = "wait"
  BY DEF Clocked, CanFinish
<1>6. ASSUME NEW l \in Lregs PROVE m[l] \notin busy_table'
  <2>1. m[l] \notin busy_table
    <3>1. CASE m[l] = arch_map[l]
      BY <1>0, <3>1 DEF BusyRight
    <3>2. CASE \E y \in 1..c : Hit(rob, y, l) /\ m[l] = rob[y].pdst
      <4>1. PICK y \in 1..c : Hit(rob, y, l) /\ m[l] = rob[y].pdst
        BY <3>2
      <4>2. y \in 1..Len(rob) /\ Writes(rob[y]) /\ rob[y].st = "done"
        BY <1>0, <1>1, <4>1 DEF Hit, CommitCounts
      <4> QED
        BY <1>0, <4>1, <4>2 DEF BusyRight
    <3> QED
      BY <1>1, <1>2, <3>1, <3>2, MappedIs
  <2>2. m[l] \in Live
    <3>1. m[l] \in ArchPregs \cup RobPregs(1, c)
      BY <1>0, <1>1, <1>2, CommitKeeps
    <3>2. \A j \in 1..c : j \in 1..Len(rob)
      BY <1>1
    <3> QED
      BY <3>1, <3>2, LiveIs
  <2> QED
    BY <1>3, <1>4, <2>1, <2>2
<1>7. ASSUME NEW j \in 1..Len(rob'), Writes(rob'[j])
      PROVE  rob'[j].pdst \in busy_table' <=> rob'[j].st = "wait"
  <2>1. CASE \E i \in Held : /\ rob'[j].pdst = rob[i].pdst /\ rob[i].pdst \in Live
                             /\ rob'[j].st = "wait" <=> i \notin E /\ rob[i].st = "wait"
    <3>1. PICK i \in Held : /\ rob'[j].pdst = rob[i].pdst /\ rob[i].pdst \in Live
                            /\ rob'[j].st = "wait" <=> i \notin E /\ rob[i].st = "wait"
      BY <2>1
    <3>2. i \in 1..Len(rob) /\ Writes(rob[i])
      BY DEF Held
    <3>3. rob[i].pdst \notin AllocsFrom(DisFire(extra), Slots)
      BY <1>4, <3>1
    <3>4. rob[i].pdst \in busy_table <=> rob[i].st = "wait"
      BY <1>0, <3>2 DEF BusyRight
    <3>5. (\A x \in E : Writes(rob[x]) => rob[x].pdst # rob[i].pdst) <=> i \notin E
      <4>1. \A x \in E : Writes(rob[x]) => x \in Held
        BY <1>5 DEF Held
      <4> QED
        BY <1>0, <3>2, <4>1 DEF Distinct
    <3> QED
      BY <1>3, <3>1, <3>3, <3>4, <3>5
  <2>2. CASE rob'[j].st = "wait" /\ rob'[j].pdst \in AllocsFrom(DisFire(extra), Slots)
    BY <1>3, <2>2
  <2> QED
    BY <1>7, <2>1, <2>2, HeldNext
<1> QED
  BY <1>2, <1>6, <1>7 DEF BusyRight

-----------------------------------------------------------------------------
\* The list of a branch that stays gains what is dispatched.
LEMMA ListKept ==
    ASSUME FInv, NEW B, NEW extra, NEW c, NEW E, NEW R, NEW M, Clocked(B, extra, c, E, R, M),
           rstate' # "rollback", NEW j \in 1..(Kept - c), Open(rob'[j])
    PROVE  br_alloc_lists'[rob'[j].br_tag] = RobPregs(j + 1, Len(rob))' \cup BrDeallocs'
<1>0. MInv /\ TInv /\ c \in CommitCounts
  BY DEF FInv, MInv, Clocked
<1>1. c \in Nat /\ Kept \in Nat /\ c <= Kept /\ Kept <= Len(rob) /\ Len(rob) \in Nat
  BY <1>0, Cut
<1>2. PICK i : i = j + c
  OBVIOUS
<1>3. i \in 1..Len(rob) /\ rob'[j].br_tag = rob[i].br_tag /\ Open(rob[i])
  BY <1>0, <1>2, OpenKept DEF Open
<1>4. rstate # "rollback"
  <2>1. rob # <<>>
    BY <1>3
  <2>2. rstate = "rollback" => rstate' = "rollback"
    BY <2>1 DEF Clocked, Cycle, RobStateAfter, Throws
  <2> QED
    BY <2>2
<1>5. Kept = Survivors
  BY <1>0, <1>4, KeptIs
<1>6. BranchSlot(DisFire(extra), rob[i].br_tag) = 0 /\ rob[i].br_tag \in Tags
  BY <1>0, <1>3, SnapshotStays
<1>7. br_alloc_lists'[rob[i].br_tag]
          = (br_alloc_lists[rob[i].br_tag] \ BrDeallocs) \cup AllocsFrom(DisFire(extra), Slots)
  <2>1. br_alloc_lists' = BrAllocListsAfter(DisFire(extra))
    BY DEF Clocked, Cycle
  <2> QED
    BY <1>6, <2>1 DEF BrAllocListsAfter
<1>8. br_alloc_lists[rob[i].br_tag] = RobPregs(i + 1, Len(rob)) \cup BrDeallocs
  BY <1>3, <1>4 DEF FInv, Lists
<1>9. RobPregs(i + 1, Len(rob)) \cap BrDeallocs = {}
  <2>1. i \in Nat /\ i <= Len(rob)
    BY <1>1, <1>3
  <2>2. RobPregs(i + 1, Len(rob)) \subseteq Live
    BY <1>0, <2>1, Apart, LiveIs DEF FInv
  <2> QED
    BY <2>2 DEF FInv, Lists
<1>10. RobPregs(i + 1, Len(rob)) = RobPregs(i + 1, Kept) \cup RobPregs(Kept + 1, Len(rob))
  <2>1. i <= Kept /\ i \in Nat
    BY <1>1, <1>2
  <2>2. \A x : x \in (i + 1)..Len(rob) <=> x \in (i + 1)..Kept \/ x \in (Kept + 1)..Len(rob)
    BY <1>1, <2>1
  <2>3. \A p : p \in RobPregs(i + 1, Len(rob))
                   <=> p \in RobPregs(i + 1, Kept) \/ p \in RobPregs(Kept + 1, Len(rob))
    BY <2>2, LiveIs
  <2> QED
    BY <2>3
<1>11. RobPregs(j + 1, Len(rob))' = RobPregs(i + 1, Kept) \cup AllocsFrom(DisFire(extra), Slots)
  <2>1. PICK n \in 0..(Kept - c) : n = j
    BY <1>1
  <2>2. RobPregs(n + 1, Len(rob))' = RobPregs((n + c) + 1, Kept) \cup AllocsFrom(DisFire(extra), Slots)
    BY <1>0, RobPregsNext
  <2> QED
    BY <1>2, <2>1, <2>2
<1>12. BrDeallocs' = RobPregs(Kept + 1, Len(rob))
  BY <1>5, BrDeallocsNext
<1> QED
  BY <1>3, <1>7, <1>8, <1>9, <1>10, <1>11, <1>12

\* The list of a branch that dispatches starts with what is dispatched behind it.
LEMMA ListFired ==
    ASSUME FInv, NEW B, NEW extra, NEW c, NEW E, NEW R, NEW M, Clocked(B, extra, c, E, R, M),
           NEW j \in 1..Len(rob'), j \notin 1..(Kept - c), Open(rob'[j])
    PROVE  br_alloc_lists'[rob'[j].br_tag] = RobPregs(j + 1, Len(rob))' \cup BrDeallocs'
<1>0. MInv /\ TInv /\ TypeOK /\ Control
  BY DEF FInv, MInv, TInv
<1>1. PICK k : k = Kept - c
  OBVIOUS
<1>2. PICK w \in DisFire(extra) :
          j = (k + Below(DisFire(extra), w)) + 1 /\ rob'[j] = DisUop(w, DisFire(extra))
  <2>0. TInv /\ j \notin 1..(Kept - c)
    BY <1>0
  <2>1. PICK i \in 1..Cardinality(DisFire(extra)) :
              /\ j = (Kept - c) + i
              /\ Nth(DisFire(extra), i) \in DisFire(extra)
              /\ Below(DisFire(extra), Nth(DisFire(extra), i)) = i - 1
              /\ rob'[j] = DisUop(Nth(DisFire(extra), i), DisFire(extra))
    <3>1. CASE j \in 1..(Kept - c) /\ j + c \in 1..Len(rob) /\ rob'[j] = RobExec(E, R)[j + c]
      BY <2>0, <3>1
    <3>2. CASE \E i \in 1..Cardinality(DisFire(extra)) :
                   /\ j = (Kept - c) + i
                   /\ Nth(DisFire(extra), i) \in DisFire(extra)
                   /\ Below(DisFire(extra), Nth(DisFire(extra), i)) = i - 1
                   /\ rob'[j] = DisUop(Nth(DisFire(extra), i), DisFire(extra))
      BY <3>2
    <3> QED
      BY <2>0, <3>1, <3>2, RobEntry
  <2>2. PICK w \in DisFire(extra) : w = Nth(DisFire(extra), i)
    BY <2>1
  <2>3. PICK b : b = Below(DisFire(extra), w) /\ b = i - 1
    BY <2>1, <2>2
  <2>4. i \in Nat /\ k \in Nat
    BY <1>0, <1>1, RobIs
  <2>5. j = (k + b) + 1
    BY <1>1, <2>1, <2>3, <2>4
  <2> QED
    BY <2>1, <2>2, <2>3, <2>5
<1>3. /\ DisFire(extra) \subseteq Nat /\ IsFiniteSet(DisFire(extra)) /\ DisFire(extra) \subseteq Slots
      /\ w \in Row /\ ~Redirecting /\ rstate = "normal" /\ w \in Nat /\ w > 0 /\ w <= PlWidth
  <2>1. /\ DisFire(extra) \subseteq Nat /\ IsFiniteSet(DisFire(extra)) /\ DisFire(extra) \subseteq Slots
        /\ w \in Row /\ ~Redirecting /\ rstate = "normal"
    BY <1>0, FireIs
  <2> QED
    BY <2>1, Constants DEF Slots
<1>4. rob'[j].k = ren2[w].k /\ rob'[j].br_tag = ren2[w].br_tag
  BY <1>0, <1>2, DisUopIs
<1>5. IsBr(ren2[w]) /\ ren2[w].br_tag \in Tags
  BY <1>0, <1>3, <1>4 DEF Open, IsBr, Control
<1>6. br_alloc_lists'[rob'[j].br_tag] = AllocsFrom(DisFire(extra), (w + 1)..PlWidth)
  <2>1. BranchSlot(DisFire(extra), ren2[w].br_tag) = w
    BY <1>0, <1>5, BranchSlotIs
  <2>2. br_alloc_lists' = BrAllocListsAfter(DisFire(extra)) /\ w # 0
    BY <1>3 DEF Clocked, Cycle
  <2> QED
    BY <1>4, <1>5, <2>1, <2>2 DEF BrAllocListsAfter
<1>7. BrDeallocs' = {}
  <2>1. b1.mis = {}
    BY <1>0, <1>3, CalmIs
  <2>2. ~b2'.mispredict
    BY <2>1 DEF Clocked, Cycle, B2After
  <2> QED
    BY <2>2 DEF BrDeallocs
<1>8. k \in Nat /\ Len(rob') \in Nat /\ j \in Nat /\ j > k
  <2>1. PICK n : n = Cardinality(DisFire(extra))
    OBVIOUS
  <2>2. k \in Nat /\ n \in Nat /\ Len(rob') = k + n
    BY <1>0, <1>1, <2>1, RobIs
  <2> QED
    BY <1>1, <2>2
<1>9. AllocReqs(DisFire(extra)) \subseteq Slots /\ AllocReqs(DisFire(extra)) \subseteq DisFire(extra)
  BY <1>3 DEF AllocReqs
<1>10. \A p : p \in AllocsFrom(DisFire(extra), (w + 1)..PlWidth)
                  <=> \E v \in AllocReqs(DisFire(extra)) : v > w /\ alloc_pregs[v] = p
  <2>1. \A v \in AllocReqs(DisFire(extra)) : v \in (w + 1)..PlWidth <=> v > w
    BY <1>3, <1>9 DEF Slots
  <2> QED
    BY <2>1 DEF AllocsFrom
<1>11. \A p : p \in RobPregs(j + 1, Len(rob))'
                  <=> \E i \in (j + 1)..Len(rob') : Writes(rob'[i]) /\ rob'[i].pdst = p
  BY DEF RobPregs
<1>12. ASSUME NEW i \in (j + 1)..Len(rob'), Writes(rob'[i])
       PROVE  \E v \in AllocReqs(DisFire(extra)) : v > w /\ alloc_pregs[v] = rob'[i].pdst
  <2>1. i \in 1..Len(rob') /\ i > j /\ i \notin 1..(Kept - c) /\ i \in Nat
    BY <1>1, <1>8
  <2>2. PICK v \in AllocReqs(DisFire(extra)) :
            i = ((Kept - c) + Below(DisFire(extra), v)) + 1 /\ rob'[i].pdst = alloc_pregs[v]
    BY <1>0, <1>12, <2>1, EntryNext
  <2>3. v \in Nat /\ v \in DisFire(extra)
    BY <1>3, <1>9
  <2>4. ~(v <= w)
    <3>1. SUFFICES ASSUME v <= w PROVE FALSE
      OBVIOUS
    <3>2. PICK a : a = Below(DisFire(extra), v)
      OBVIOUS
    <3>3. PICK b : b = Below(DisFire(extra), w)
      OBVIOUS
    <3>4. a \in Nat /\ b \in Nat /\ a <= b
      BY <1>3, <2>3, <3>1, <3>2, <3>3, BelowMono
    <3> QED
      BY <1>1, <1>2, <1>8, <2>1, <2>2, <3>2, <3>3, <3>4
  <2> QED
    BY <1>3, <2>2, <2>3, <2>4
<1>13. ASSUME NEW v \in AllocReqs(DisFire(extra)), v > w
       PROVE  \E i \in (j + 1)..Len(rob') : Writes(rob'[i]) /\ rob'[i].pdst = alloc_pregs[v]
  <2>1. PICK i : i = ((Kept - c) + Below(DisFire(extra), v)) + 1
    OBVIOUS
  <2>2. i \in 1..Len(rob') /\ Writes(rob'[i]) /\ rob'[i].pdst = alloc_pregs[v]
    BY <1>0, <2>1, FiredEntry
  <2>3. i > j
    <3>1. PICK a : a = Below(DisFire(extra), v)
      OBVIOUS
    <3>2. PICK b : b = Below(DisFire(extra), w)
      OBVIOUS
    <3>3. v \in DisFire(extra) /\ v \in Nat /\ w < v
      BY <1>3, <1>9, <1>13
    <3>4. a \in Nat /\ b \in Nat /\ b < a
      BY <1>3, <3>1, <3>2, <3>3, BelowMono
    <3> QED
      BY <1>1, <1>2, <1>8, <2>1, <3>1, <3>2, <3>4
  <2> QED
    BY <1>8, <2>2, <2>3
<1>14. AllocsFrom(DisFire(extra), (w + 1)..PlWidth) = RobPregs(j + 1, Len(rob))'
  BY <1>10, <1>11, <1>12, <1>13
<1> QED
  BY <1>6, <1>7, <1>14

\* The allocation list of an open branch stays what has been given out behind it.
LEMMA ListsStep ==
    ASSUME FInv, NEW B, NEW extra, NEW c, NEW E, NEW R, NEW M, Clocked(B, extra, c, E, R, M)
    PROVE  Lists'
<1>1. (BrDeallocs \cap (free_list \cup Ahead \cup Live) = {})'
  BY FreeListStep
<1>2. ASSUME rstate' # "rollback", NEW j \in 1..Len(rob'), Open(rob'[j])
      PROVE  br_alloc_lists'[rob'[j].br_tag] = RobPregs(j + 1, Len(rob))' \cup BrDeallocs'
  <2>1. CASE j \in 1..(Kept - c)
    BY <1>2, <2>1, ListKept
  <2>2. CASE j \notin 1..(Kept - c)
    BY <1>2, <2>2, ListFired
  <2> QED
    BY <2>1, <2>2
<1> QED
  BY <1>1, <1>2 DEF Lists

-----------------------------------------------------------------------------
\* The invariant of the free list holds after reset.
LEMMA InitFInv == Init => FInv
<1> SUFFICES ASSUME Init PROVE FInv
  OBVIOUS
<1>1. MInv
  BY InitMInv
<1>2. /\ Len(rob) = 0 /\ free_list = Pregs \ {0} /\ busy_table = {} /\ ~b2.mispredict
      /\ \A l \in Lregs : arch_map[l] = 0
      /\ \A w \in Slots : alloc_pregs[w] = 0
  BY DEF Init
<1>3. Held = {} /\ \A j \in 1..Len(rob) : FALSE
  BY <1>2 DEF Held
<1>4. Ahead = {} /\ BrDeallocs = {} /\ \A p \in Live : p = 0
  <2>1. Ahead = {}
    BY <1>2 DEF Ahead
  <2>2. BrDeallocs = {}
    BY <1>2 DEF BrDeallocs
  <2>3. \A p \in Live : p = 0
    BY <1>2, <1>3 DEF Live
  <2> QED
    BY <2>1, <2>2, <2>3
<1>5. FreeListRight
  BY <1>2, <1>4 DEF FreeListRight, NoDoubleUse, NoLeak
<1>6. Distinct
  BY <1>2, <1>3 DEF Distinct
<1>7. Lists
  BY <1>3, <1>4 DEF Lists
<1>8. BusyRight
  BY <1>2, <1>3 DEF BusyRight
<1> QED
  BY <1>1, <1>5, <1>6, <1>7, <1>8 DEF FInv

\* A step in which nothing changes keeps it.
LEMMA StutterFInv == FInv /\ UNCHANGED vars => FInv'
<1> SUFFICES ASSUME FInv, UNCHANGED vars PROVE FInv'
  OBVIOUS
<1>1. MInv'
  BY StutterMInv DEF FInv
<1>2. /\ rob' = rob /\ b2' = b2 /\ arch_map' = arch_map /\ free_list' = free_list
      /\ alloc_pregs' = alloc_pregs /\ br_alloc_lists' = br_alloc_lists /\ rstate' = rstate
      /\ busy_table' = busy_table
  BY DEF vars
<1>3. Live' = Live /\ Ahead' = Ahead /\ BrDeallocs' = BrDeallocs /\ Held' = Held
  BY <1>2 DEF Live, Ahead, BrDeallocs, Held
<1>4. \A a : RobPregs(a, Len(rob))' = RobPregs(a, Len(rob))
  BY <1>2 DEF RobPregs
<1>5. FreeListRight'
  BY <1>2, <1>3 DEF FInv, FreeListRight, NoDoubleUse, NoLeak
<1>6. Distinct' /\ BusyRight'
  BY <1>2, <1>3 DEF FInv, Distinct, BusyRight
<1>7. Lists'
  <2>1. (BrDeallocs \cap (free_list \cup Ahead \cup Live) = {})'
    BY <1>2, <1>3 DEF FInv, Lists
  <2>2. ASSUME rstate' # "rollback", NEW j \in 1..Len(rob'), Open(rob'[j])
        PROVE  br_alloc_lists'[rob'[j].br_tag] = RobPregs(j + 1, Len(rob))' \cup BrDeallocs'
    <3>1. rstate # "rollback" /\ j \in 1..Len(rob) /\ Open(rob[j])
      BY <1>2, <2>2
    <3>2. br_alloc_lists[rob[j].br_tag] = RobPregs(j + 1, Len(rob)) \cup BrDeallocs
      BY <3>1 DEF FInv, Lists
    <3>3. PICK a : a = j + 1
      OBVIOUS
    <3>4. RobPregs(a, Len(rob))' = RobPregs(a, Len(rob))
      BY <1>4
    <3> QED
      BY <1>2, <1>3, <3>2, <3>3, <3>4
  <2> QED
    BY <2>1, <2>2 DEF Lists
<1> QED
  BY <1>1, <1>5, <1>6, <1>7 DEF FInv

\* A cycle keeps it.
LEMMA NextFInv == FInv /\ [Next]_vars => FInv'
<1>1. ASSUME FInv, NEW B, NEW extra, NEW c, NEW E, NEW R, NEW M, Clocked(B, extra, c, E, R, M), MInv'
      PROVE  FInv'
  BY <1>1, FreeListStep, DistinctStep, ListsStep, BusyStep DEF FInv
<1>2. ASSUME Next PROVE \E B, extra, c, E, R, M : Clocked(B, extra, c, E, R, M)
  BY <1>2 DEF Next, Clocked
<1>3. FInv /\ Next => MInv'
  BY NextMInv DEF FInv
<1> QED
  BY <1>1, <1>2, <1>3, StutterFInv

\* Every register is free, selected ahead or live, and only one of these, and none
\* is lost, across overlapping mispredictions, exceptions and tags that are reused
\* (rename-freelist.scala 60-110).
THEOREM FreeListRightHolds == Spec => []FreeListRight
<1>1. Init => FInv
  BY InitFInv
<1>2. FInv /\ [Next]_vars => FInv'
  BY NextFInv
<1>3. FInv => FreeListRight
  BY DEF FInv
<1> QED
  BY <1>1, <1>2, <1>3, PTL DEF Spec

\* A register is busy exactly as long as its uop has not written it
\* (rename-busytable.scala 49-56).
THEOREM BusyRightHolds == Spec => []BusyRight
<1>1. Init => FInv
  BY InitFInv
<1>2. FInv /\ [Next]_vars => FInv'
  BY NextFInv
<1>3. FInv => BusyRight
  BY DEF FInv
<1> QED
  BY <1>1, <1>2, <1>3, PTL DEF Spec
=============================================================================
