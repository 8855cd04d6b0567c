------------------------------ MODULE PkProofs ------------------------------
(***************************************************************************)
(* The proxy kernel: references, mappings, contents, translations and what *)
(* the host is handed are right, for any programs, calls, files and sizes  *)
(* of the tables and of the memory that the assumptions of PkFile, PkMmap  *)
(* and Pk allow.                                                           *)
(*                                                                         *)
(* J(s, hold, b, due) is the invariant of the kernel state s: the file     *)
(* table pays for hold[f] references to f that the function in progress    *)
(* has taken and not given back, due[v] pages of region v are counted and  *)
(* not yet entered, and the heap starts at b.  J0 is J but for the TLB,    *)
(* which a mapping leaves stale until it flushes.  Each function of the    *)
(* kernel has a lemma ...OK, what it makes of J, and where it may start    *)
(* from a panic a lemma ...Stay, that it keeps the fields of the state and *)
(* never ends the panic.  The loops of the code are folds; FoldRule is the *)
(* induction over them.                                                    *)
(***************************************************************************)
EXTENDS Pk, FiniteSetTheorems, WellFoundedInduction, TLAPS

----------------------------------------------------------------------------
(* Arithmetic of pages.                                                    *)

\* Where the program's memory ends, and the pages of the kernel.
Max0 == Smaller(DRAM_BASE, MemPages - (KernelPages + FreePages)) * PGSIZE
KernelRange == DRAM_BASE .. DRAM_BASE + KernelPages + FreePages - 1

\* Multiplication by the page size keeps the order.
LEMMA TimesMono ==
    ASSUME NEW x \in Int, NEW y \in Int, x < y
    PROVE  x * PGSIZE + PGSIZE <= y * PGSIZE
<1>1. PGSIZE \in Nat /\ PGSIZE > 0 BY MmapAssumption
<1>2. PICK d \in Nat : y = x + 1 + d
  <2>1. y - x - 1 \in Nat /\ y = x + 1 + (y - x - 1) OBVIOUS
  <2> QED BY <2>1
<1>3. y * PGSIZE = x * PGSIZE + PGSIZE + d * PGSIZE BY <1>1, <1>2
<1>4. d * PGSIZE >= 0 /\ d * PGSIZE \in Int BY <1>1
<1>5. x * PGSIZE \in Int /\ y * PGSIZE \in Int BY <1>1
<1> QED BY <1>1, <1>3, <1>4, <1>5

\* An address is its page times the page size and an offset in the page.
LEMMA PageSplit ==
    ASSUME NEW a \in Int
    PROVE  /\ PageOf(a) \in Int
           /\ PageOf(a) * PGSIZE \in Int
           /\ PageOf(a) * PGSIZE <= a
           /\ a < PageOf(a) * PGSIZE + PGSIZE
           /\ a % PGSIZE = a - PageOf(a) * PGSIZE
<1>1. PGSIZE \in Nat /\ PGSIZE > 0 BY MmapAssumption
<1> QED BY <1>1 DEF PageOf

\* The page is the only multiple of the page size that close below the address.
LEMMA PageIs ==
    ASSUME NEW q \in Int, NEW r \in 0 .. PGSIZE - 1
    PROVE  PageOf(q * PGSIZE + r) = q
<1>1. PGSIZE \in Nat /\ PGSIZE > 0 BY MmapAssumption
<1> DEFINE a == q * PGSIZE + r
           p == PageOf(a)
<1>2. q * PGSIZE \in Int /\ a \in Int /\ r \in Int /\ r >= 0 /\ r < PGSIZE BY <1>1
<1>3. p \in Int /\ p * PGSIZE \in Int /\ p * PGSIZE <= a /\ a < p * PGSIZE + PGSIZE BY <1>2, PageSplit
<1> HIDE DEF p
<1>4. ~(p < q)
  <2> SUFFICES ASSUME p < q PROVE FALSE OBVIOUS
  <2>1. p * PGSIZE + PGSIZE <= q * PGSIZE BY <1>3, TimesMono
  <2> QED BY <1>1, <1>2, <1>3, <2>1
<1>5. ~(q < p)
  <2> SUFFICES ASSUME q < p PROVE FALSE OBVIOUS
  <2>1. q * PGSIZE + PGSIZE <= p * PGSIZE BY <1>3, TimesMono
  <2> QED BY <1>1, <1>2, <1>3, <2>1
<1>6. p = q BY <1>3, <1>4, <1>5
<1> QED BY <1>6 DEF p

\* The units of the address space are those of its pages.
LEMMA PageIn ==
    ASSUME NEW a \in Int, NEW n \in Nat
    PROVE  a \in 0 .. n * PGSIZE - 1 <=> PageOf(a) \in 0 .. n - 1
<1>1. PGSIZE \in Nat /\ PGSIZE > 0 BY MmapAssumption
<1> DEFINE p == PageOf(a)
<1>2. p \in Int /\ p * PGSIZE \in Int /\ p * PGSIZE <= a /\ a < p * PGSIZE + PGSIZE BY PageSplit
<1> HIDE DEF p
<1>0. n * PGSIZE \in Int BY <1>1
<1>3. ASSUME a >= 0, a < n * PGSIZE PROVE p >= 0 /\ p < n
  <2>1. ~(p < 0)
    <3> SUFFICES ASSUME p < 0 PROVE FALSE OBVIOUS
    <3>1. p * PGSIZE + PGSIZE <= 0 * PGSIZE BY <1>2, TimesMono
    <3> QED BY <1>1, <1>2, <1>3, <3>1
  <2>2. ~(p >= n)
    <3> SUFFICES ASSUME p >= n PROVE FALSE OBVIOUS
    <3>1. n * PGSIZE <= p * PGSIZE
      <4>1. CASE p = n BY <4>1, <1>0
      <4>2. CASE p > n
        <5>1. n * PGSIZE + PGSIZE <= p * PGSIZE BY <1>2, <4>2, TimesMono
        <5> QED BY <5>1, <1>0, <1>1, <1>2
      <4> QED BY <4>1, <4>2, <1>2
    <3> QED BY <1>0, <1>2, <1>3, <3>1
  <2> QED BY <2>1, <2>2, <1>2
<1>4. ASSUME p >= 0, p < n PROVE a >= 0 /\ a < n * PGSIZE
  <2>1. p * PGSIZE + PGSIZE <= n * PGSIZE BY <1>2, <1>4, TimesMono
  <2>2. p * PGSIZE >= 0 BY <1>1, <1>2, <1>4
  <2> QED BY <1>0, <1>1, <1>2, <2>1, <2>2
<1>5. (a >= 0 /\ a < n * PGSIZE) <=> (p >= 0 /\ p < n) BY <1>3, <1>4
<1>6. a \in 0 .. n * PGSIZE - 1 <=> (a >= 0 /\ a < n * PGSIZE) BY <1>0
<1>7. p \in 0 .. n - 1 <=> (p >= 0 /\ p < n) BY <1>2
<1> QED BY <1>5, <1>6, <1>7 DEF p

\* The program's memory.
LEMMA MaxFacts ==
    /\ Word \in Nat /\ Word > 0 /\ Max0 \in Nat /\ Max0 > 0 /\ Max0 < Word
    /\ \E m \in Nat : Max0 = m * PGSIZE /\ m <= DRAM_BASE /\ m > 0 /\ StackPages <= m
    /\ VaPages \in Nat /\ KernelRange \subseteq VPages
    /\ \A p \in VPages : p * PGSIZE < Max0 => p \notin KernelRange
<1> DEFINE m == Smaller(DRAM_BASE, MemPages - (KernelPages + FreePages))
<1>1. PGSIZE \in Nat /\ PGSIZE > 0 /\ VaPages \in Nat /\ KernelPages \in Nat /\ FreePages \in Nat
      /\ FreePages > 0 /\ DRAM_BASE \in Nat /\ DRAM_BASE > 0 /\ MemPages \in Nat /\ StackPages \in Nat
      /\ DRAM_BASE + KernelPages + FreePages <= VaPages
      /\ StackPages < MemPages - (KernelPages + FreePages) /\ StackPages <= DRAM_BASE
  BY MmapAssumption
<1>2. m \in Nat /\ m <= DRAM_BASE /\ m > 0 /\ StackPages <= m BY <1>1 DEF Smaller
<1>3. Max0 = m * PGSIZE BY DEF Max0
<1> HIDE DEF m
<1>4. m < VaPages BY <1>1, <1>2
<1>5. m * PGSIZE + PGSIZE <= VaPages * PGSIZE BY <1>1, <1>2, <1>4, TimesMono
<1>6. 0 * PGSIZE + PGSIZE <= m * PGSIZE BY <1>2, TimesMono
<1>7. Word \in Nat /\ Word > 0 /\ Max0 \in Nat /\ Max0 > 0 /\ Max0 < Word
  <2>1. Word = VaPages * PGSIZE /\ m * PGSIZE \in Int /\ VaPages * PGSIZE \in Int BY <1>1, <1>2 DEF Word
  <2> QED BY <2>1, <1>1, <1>3, <1>5, <1>6
<1>8. KernelRange \subseteq VPages BY <1>1 DEF KernelRange, VPages
<1>9. ASSUME NEW p \in VPages, p * PGSIZE < Max0 PROVE p \notin KernelRange
  <2>1. p \in Nat BY <1>1 DEF VPages
  <2>2. ~(m < p)
    <3> SUFFICES ASSUME m < p PROVE FALSE OBVIOUS
    <3>1. m * PGSIZE + PGSIZE <= p * PGSIZE BY <2>1, <1>2, TimesMono
    <3>2. m * PGSIZE \in Int /\ p * PGSIZE \in Int BY <2>1, <1>1, <1>2
    <3> QED BY <3>1, <3>2, <1>3, <1>9, <1>1
  <2>3. p /= m BY <1>9, <1>3, <1>2, <1>1
  <2> QED BY <2>1, <2>2, <2>3, <1>1, <1>2 DEF KernelRange
<1> QED BY <1>1, <1>2, <1>3, <1>7, <1>8, <1>9

----------------------------------------------------------------------------
(* Counting.                                                               *)

\* Two sets that agree but on x have sizes that differ by what x adds.
LEMMA CardFlip ==
    ASSUME NEW I, IsFiniteSet(I), NEW A, NEW B, A \subseteq I, B \subseteq I,
           NEW x, A \ {x} = B \ {x}
    PROVE  /\ Cardinality(A) \in Nat /\ Cardinality(B) \in Nat
           /\ Cardinality(A) + (IF x \in B THEN 1 ELSE 0) = Cardinality(B) + (IF x \in A THEN 1 ELSE 0)
           /\ x \in A => Cardinality(A) >= 1
<1> DEFINE C == A \ {x}
<1>1. IsFiniteSet(A) /\ IsFiniteSet(B) /\ IsFiniteSet(C) BY FS_Subset
<1>2. Cardinality(A) \in Nat /\ Cardinality(B) \in Nat /\ Cardinality(C) \in Nat BY <1>1, FS_CardinalityType
<1>3. x \in A => Cardinality(A) = Cardinality(C) + 1
  <2> SUFFICES ASSUME x \in A PROVE Cardinality(A) = Cardinality(C) + 1 OBVIOUS
  <2>1. Cardinality(C) = Cardinality(A) - 1 BY <1>1, FS_RemoveElement
  <2> QED BY <2>1, <1>2
<1>4. x \notin A => A = C OBVIOUS
<1>5. x \in B => Cardinality(B) = Cardinality(C) + 1
  <2> SUFFICES ASSUME x \in B PROVE Cardinality(B) = Cardinality(C) + 1 OBVIOUS
  <2>1. C = B \ {x} OBVIOUS
  <2>2. Cardinality(B \ {x}) = Cardinality(B) - 1 BY <1>1, FS_RemoveElement
  <2>3. Cardinality(C) = Cardinality(B) - 1 BY <2>1, <2>2
  <2> HIDE DEF C
  <2> QED BY <2>3, <1>2
<1>6. x \notin B => B = C OBVIOUS
<1> HIDE DEF C
<1> QED BY <1>2, <1>3, <1>4, <1>5, <1>6

\* The tables are finite and no index is a sentinel.
LEMMA Finite ==
    /\ IsFiniteSet(Fds) /\ IsFiniteSet(Files) /\ IsFiniteSet(Vmrs) /\ IsFiniteSet(VPages)
    /\ Fds \subseteq Nat /\ Files \subseteq Nat /\ Vmrs \subseteq Nat \ {0} /\ VPages \subseteq Nat
    /\ None \notin Fds /\ None \notin Files /\ 0 \notin Vmrs
<1>1. MAX_FILES \in Nat /\ MAX_FDS \in Nat BY FileAssumption
<1>2. MAX_VMR \in Nat /\ VaPages \in Nat BY MmapAssumption
<1>3. IsFiniteSet(0 .. MAX_FDS - 1) /\ IsFiniteSet(0 .. MAX_FILES - 1) /\ IsFiniteSet(1 .. MAX_VMR)
      /\ IsFiniteSet(0 .. VaPages - 1)
  BY <1>1, <1>2, FS_Interval
<1> QED BY <1>1, <1>2, <1>3 DEF Fds, Files, Vmrs, VPages, None

\* A set of naturals that is not empty has a least element.
LEMMA LeastNat ==
    ASSUME NEW S, S \subseteq Nat, S /= {}
    PROVE  \E x \in S : \A y \in S : x <= y
<1> DEFINE R == OpToRel(<, Nat)
<1>1. IsWellFoundedOn(R, Nat) BY NatLessThanWellFounded
<1>2. \A x, y \in Nat : x < y => <<x, y>> \in R BY DEF OpToRel
<1> HIDE DEF R
<1>3. PICK x \in S : \A y \in S : ~(<<y, x>> \in R) BY <1>1, WFMin
<1>4. ASSUME NEW y \in S PROVE x <= y
  <2>1. x \in Nat /\ y \in Nat OBVIOUS
  <2>2. ~(y < x) BY <2>1, <1>2, <1>3
  <2> QED BY <2>1, <2>2
<1> QED BY <1>4

\* The free entry a call takes is one of the free ones.
LEMMA FirstIn ==
    ASSUME NEW S, S \subseteq Nat, S /= {}
    PROVE  FirstOf(S) \in S /\ \A y \in S : FirstOf(S) <= y
<1> DEFINE Q(x) == \A y \in S : x <= y
<1>1. \E x \in S : Q(x) BY LeastNat
<1> HIDE DEF Q
<1>2. FirstOf(S) = CHOOSE x \in S : Q(x) BY DEF FirstOf, Q
<1>3. FirstOf(S) \in S /\ Q(FirstOf(S)) BY <1>1, <1>2
<1> QED BY <1>3 DEF Q

----------------------------------------------------------------------------
(* The file table.  hold[f] counts the references to f that the kernel     *)
(* function in progress has taken and not yet given back.                  *)

HostNames == Names \cup {"free", "std"}
FileEntry == [kfd : Int, refcnt : Int]
VmrEntry == [addr : Int, length : Int, file : Files \cup {None}, offset : Int, refcnt : Int,
             prot : SUBSET RWX]
\* The descriptors and the regions that use a file, and all that do.
FdUses(fds, f) == Cardinality({d \in Fds : fds[d] = f})
MapsFile(e, f) == e.refcnt > 0 /\ e.file = f
VmrUses(vmrs, f) == Cardinality({v \in Vmrs : MapsFile(vmrs[v], f)})
Need(fds, vmrs, hold, f) == FdUses(fds, f) + VmrUses(vmrs, f) + hold[f]

\* An entry that is used counts one more than its uses, an entry is in use when its
\* host descriptor is open, and entry f holds host descriptor f.
FileOK(fds, files, host, vmrs, hold) ==
    /\ fds \in [Fds -> Files \cup {None}]
    /\ files \in [Files -> FileEntry]
    /\ host \in [Files -> HostNames]
    /\ vmrs \in [Vmrs -> VmrEntry]
    /\ hold \in [Files -> Nat]
    /\ \A f \in Files :
          /\ files[f].refcnt >= 0
          /\ Need(fds, vmrs, hold, f) > 0 => files[f].refcnt > Need(fds, vmrs, hold, f)
          /\ files[f].refcnt > 0 <=> host[f] /= "free"
          /\ files[f].kfd \in {-1, f}
          /\ files[f].refcnt > 0 => files[f].kfd = f

More(hold, f) == [hold EXCEPT ![f] = @ + 1]
Less(hold, f) == [hold EXCEPT ![f] = @ - 1]

\* The uses of a file are counted in naturals.
LEMMA UsesNat ==
    ASSUME NEW fds, NEW vmrs, NEW f
    PROVE  FdUses(fds, f) \in Nat /\ VmrUses(vmrs, f) \in Nat
<1>1. IsFiniteSet({d \in Fds : fds[d] = f}) BY Finite, FS_Subset
<1>2. IsFiniteSet({v \in Vmrs : MapsFile(vmrs[v], f)}) BY Finite, FS_Subset
<1> QED BY <1>1, <1>2, FS_CardinalityType DEF FdUses, VmrUses

\* s and t agree but on x.
Else(I, s, t, x) == \A e \in I : e /= x => t[e] = s[e]
InFd(fds, d, f) == IF fds[d] = f THEN 1 ELSE 0
InVmr(vmrs, v, f) == IF MapsFile(vmrs[v], f) THEN 1 ELSE 0

\* A descriptor that changes from one file to another.
LEMMA FdUsesSet ==
    ASSUME NEW fds, NEW new, NEW d \in Fds, NEW f, Else(Fds, fds, new, d)
    PROVE  FdUses(new, f) + InFd(fds, d, f) = FdUses(fds, f) + InFd(new, d, f)
<1> DEFINE A == {e \in Fds : new[e] = f}
           B == {e \in Fds : fds[e] = f}
<1>1. A \ {d} = B \ {d} BY DEF Else
<1>2. (d \in A <=> new[d] = f) /\ (d \in B <=> fds[d] = f) OBVIOUS
<1> HIDE DEF A, B
<1>3. A \subseteq Fds /\ B \subseteq Fds BY DEF A, B
<1>4. Cardinality(A) + (IF d \in B THEN 1 ELSE 0) = Cardinality(B) + (IF d \in A THEN 1 ELSE 0)
  <2>1. IsFiniteSet(Fds) BY Finite
  <2> QED BY ONLY <1>1, <1>3, <2>1, CardFlip
<1>5. FdUses(new, f) = Cardinality(A) /\ FdUses(fds, f) = Cardinality(B) BY DEF FdUses, A, B
<1> QED BY <1>2, <1>4, <1>5 DEF InFd

\* A region that changes.
LEMMA VmrUsesSet ==
    ASSUME NEW vmrs, NEW new, NEW v \in Vmrs, NEW f, Else(Vmrs, vmrs, new, v)
    PROVE  VmrUses(new, f) + InVmr(vmrs, v, f) = VmrUses(vmrs, f) + InVmr(new, v, f)
<1> DEFINE A == {u \in Vmrs : MapsFile(new[u], f)}
           B == {u \in Vmrs : MapsFile(vmrs[u], f)}
<1>1. A \ {v} = B \ {v} BY DEF Else
<1>2. (v \in A <=> MapsFile(new[v], f)) /\ (v \in B <=> MapsFile(vmrs[v], f)) OBVIOUS
<1> HIDE DEF A, B
<1>3. A \subseteq Vmrs /\ B \subseteq Vmrs BY DEF A, B
<1>4. Cardinality(A) + (IF v \in B THEN 1 ELSE 0) = Cardinality(B) + (IF v \in A THEN 1 ELSE 0)
  <2>1. IsFiniteSet(Vmrs) BY Finite
  <2> QED BY ONLY <1>1, <1>3, <2>1, CardFlip
<1>5. VmrUses(new, f) = Cardinality(A) /\ VmrUses(vmrs, f) = Cardinality(B) BY DEF VmrUses, A, B
<1> QED BY <1>2, <1>4, <1>5 DEF InVmr

\* Fewer references held never hurt.
LEMMA FileForget ==
    ASSUME NEW fds, NEW files, NEW host, NEW vmrs, NEW hold, FileOK(fds, files, host, vmrs, hold),
           NEW hold2 \in [Files -> Nat], \A f \in Files : hold2[f] <= hold[f]
    PROVE  FileOK(fds, files, host, vmrs, hold2)
<1>1. ASSUME NEW f \in Files
      PROVE  Need(fds, vmrs, hold2, f) > 0 => files[f].refcnt > Need(fds, vmrs, hold2, f)
  <2>1. FdUses(fds, f) \in Nat /\ VmrUses(vmrs, f) \in Nat BY UsesNat
  <2>2. hold[f] \in Nat /\ hold2[f] \in Nat /\ hold2[f] <= hold[f] /\ files[f].refcnt \in Int
    BY DEF FileOK, FileEntry
  <2>3. Need(fds, vmrs, hold, f) > 0 => files[f].refcnt > Need(fds, vmrs, hold, f) BY DEF FileOK
  <2> QED BY <2>1, <2>2, <2>3 DEF Need
<1> QED BY <1>1 DEF FileOK

\* file_incref and file_get take a reference.
LEMMA FileHold ==
    ASSUME NEW fds, NEW files, NEW host, NEW vmrs, NEW hold, FileOK(fds, files, host, vmrs, hold),
           NEW f \in Files, files[f].refcnt > 0,
           NEW files2, files2 = [files EXCEPT ![f].refcnt = @ + 1],
           files[f].refcnt > 1 \/ Need(fds, vmrs, hold, f) > 0
    PROVE  FileOK(fds, files2, host, vmrs, More(hold, f))
<1>0. files \in [Files -> FileEntry] /\ hold \in [Files -> Nat] BY DEF FileOK
<1>1. /\ files2 \in [Files -> FileEntry]
      /\ files2[f].refcnt = files[f].refcnt + 1 /\ files2[f].kfd = files[f].kfd
      /\ \A g \in Files : g /= f => files2[g] = files[g]
  BY <1>0 DEF FileEntry
<1>2. /\ More(hold, f) \in [Files -> Nat] /\ More(hold, f)[f] = hold[f] + 1
      /\ \A g \in Files : g /= f => More(hold, f)[g] = hold[g]
  BY <1>0 DEF More
<1>3. files[f].refcnt \in Int BY <1>0 DEF FileEntry
<1>4. ASSUME NEW g \in Files
      PROVE  /\ files2[g].refcnt >= 0
             /\ Need(fds, vmrs, More(hold, f), g) > 0 => files2[g].refcnt > Need(fds, vmrs, More(hold, f), g)
             /\ files2[g].refcnt > 0 <=> host[g] /= "free"
             /\ files2[g].kfd \in {-1, g}
             /\ files2[g].refcnt > 0 => files2[g].kfd = g
  <2>1. FdUses(fds, g) \in Nat /\ VmrUses(vmrs, g) \in Nat /\ hold[g] \in Nat BY UsesNat, <1>0
  <2>2. /\ files[g].refcnt >= 0
        /\ Need(fds, vmrs, hold, g) > 0 => files[g].refcnt > Need(fds, vmrs, hold, g)
        /\ files[g].refcnt > 0 <=> host[g] /= "free"
        /\ files[g].kfd \in {-1, g}
        /\ files[g].refcnt > 0 => files[g].kfd = g
    BY DEF FileOK
  <2>3. CASE g = f BY <2>1, <2>2, <2>3, <1>1, <1>2, <1>3 DEF Need
  <2>4. CASE g /= f BY <2>2, <2>4, <1>1, <1>2 DEF Need
  <2> QED BY <2>3, <2>4
<1> QED BY <1>1, <1>2, <1>4 DEF FileOK

\* file_decref gives one back, and closes the file with the last.
LEMMA FileDrop ==
    ASSUME NEW fds, NEW files, NEW host, NEW vmrs, NEW hold, FileOK(fds, files, host, vmrs, hold),
           NEW f \in Files, hold[f] >= 1,
           NEW files2, files2 = [files EXCEPT ![f].refcnt = IF @ = 2 THEN 0 ELSE @ - 1],
           NEW host2, host2 = IF files[f].refcnt = 2 THEN [host EXCEPT ![f] = "free"] ELSE host
    PROVE  /\ FileOK(fds, files2, host2, vmrs, Less(hold, f))
           /\ files[f].refcnt > 0 /\ files[f].kfd = f
           /\ \A g \in Files : files2[g].kfd = files[g].kfd
           /\ \A g \in Files : Need(fds, vmrs, Less(hold, f), g) > 0 => host2[g] = host[g]
<1>0. files \in [Files -> FileEntry] /\ hold \in [Files -> Nat] /\ host \in [Files -> HostNames] BY DEF FileOK
<1>1. /\ files2 \in [Files -> FileEntry]
      /\ files2[f].refcnt = (IF files[f].refcnt = 2 THEN 0 ELSE files[f].refcnt - 1)
      /\ files2[f].kfd = files[f].kfd
      /\ \A g \in Files : g /= f => files2[g] = files[g]
  BY <1>0 DEF FileEntry
<1>2. /\ Less(hold, f) \in [Files -> Nat] /\ Less(hold, f)[f] = hold[f] - 1
      /\ \A g \in Files : g /= f => Less(hold, f)[g] = hold[g]
  BY <1>0 DEF Less
<1>3. /\ host2 \in [Files -> HostNames] /\ host2[f] = (IF files[f].refcnt = 2 THEN "free" ELSE host[f])
      /\ \A g \in Files : g /= f => host2[g] = host[g]
  BY <1>0 DEF HostNames
<1>4. files[f].refcnt \in Int BY <1>0 DEF FileEntry
<1>5. FdUses(fds, f) \in Nat /\ VmrUses(vmrs, f) \in Nat /\ hold[f] \in Nat BY UsesNat, <1>0
<1>6. /\ files[f].refcnt >= 0
      /\ Need(fds, vmrs, hold, f) > 0 => files[f].refcnt > Need(fds, vmrs, hold, f)
      /\ files[f].refcnt > 0 <=> host[f] /= "free"
      /\ files[f].kfd \in {-1, f}
      /\ files[f].refcnt > 0 => files[f].kfd = f
  BY DEF FileOK
<1>7. files[f].refcnt > FdUses(fds, f) + VmrUses(vmrs, f) + hold[f] /\ files[f].refcnt >= 2
  BY <1>4, <1>5, <1>6 DEF Need
<1>8. Need(fds, vmrs, Less(hold, f), f) = FdUses(fds, f) + VmrUses(vmrs, f) + hold[f] - 1
  BY <1>2, <1>5 DEF Need
<1>9. ASSUME NEW g \in Files
      PROVE  /\ files2[g].refcnt >= 0
             /\ Need(fds, vmrs, Less(hold, f), g) > 0 => files2[g].refcnt > Need(fds, vmrs, Less(hold, f), g)
             /\ files2[g].refcnt > 0 <=> host2[g] /= "free"
             /\ files2[g].kfd \in {-1, g}
             /\ files2[g].refcnt > 0 => files2[g].kfd = g
             /\ files2[g].kfd = files[g].kfd
             /\ Need(fds, vmrs, Less(hold, f), g) > 0 => host2[g] = host[g]
  <2>1. CASE g = f BY <2>1, <1>1, <1>3, <1>4, <1>5, <1>6, <1>7, <1>8
  <2>2. CASE g /= f
    <3>1. /\ files[g].refcnt >= 0
          /\ Need(fds, vmrs, hold, g) > 0 => files[g].refcnt > Need(fds, vmrs, hold, g)
          /\ files[g].refcnt > 0 <=> host[g] /= "free"
          /\ files[g].kfd \in {-1, g}
          /\ files[g].refcnt > 0 => files[g].kfd = g
      BY DEF FileOK
    <3> QED BY <3>1, <2>2, <1>1, <1>2, <1>3 DEF Need
  <2> QED BY <2>1, <2>2
<1>10. FileOK(fds, files2, host2, vmrs, Less(hold, f)) BY <1>1, <1>2, <1>3, <1>9 DEF FileOK
<1>11. files[f].refcnt > 0 /\ files[f].kfd = f BY <1>4, <1>6, <1>7
<1> QED BY <1>9, <1>10, <1>11

\* A descriptor changes and the references held change with it.
LEMMA FileFds ==
    ASSUME NEW fds, NEW files, NEW host, NEW vmrs, NEW hold, FileOK(fds, files, host, vmrs, hold),
           NEW d \in Fds, NEW x \in Files \cup {None}, NEW hold2 \in [Files -> Nat],
           NEW new, new = [fds EXCEPT ![d] = x],
           \A f \in Files : (IF x = f THEN 1 ELSE 0) + hold2[f] <= (IF fds[d] = f THEN 1 ELSE 0) + hold[f]
    PROVE  FileOK(new, files, host, vmrs, hold2)
<1>0. fds \in [Fds -> Files \cup {None}] /\ files \in [Files -> FileEntry] /\ hold \in [Files -> Nat] BY DEF FileOK
<1>1. new \in [Fds -> Files \cup {None}] BY <1>0
<1>2. ASSUME NEW f \in Files
      PROVE  Need(new, vmrs, hold2, f) > 0 => files[f].refcnt > Need(new, vmrs, hold2, f)
  <2>1. FdUses(new, f) + (IF fds[d] = f THEN 1 ELSE 0) = FdUses(fds, f) + (IF x = f THEN 1 ELSE 0)
    <3>1. new[d] = x /\ Else(Fds, fds, new, d) BY <1>0 DEF Else
    <3>2. FdUses(new, f) + InFd(fds, d, f) = FdUses(fds, f) + InFd(new, d, f) BY <3>1, FdUsesSet
    <3> QED BY <3>1, <3>2 DEF InFd
  <2>2. FdUses(fds, f) \in Nat /\ FdUses(new, f) \in Nat /\ VmrUses(vmrs, f) \in Nat BY UsesNat
  <2>3. hold[f] \in Nat /\ hold2[f] \in Nat /\ files[f].refcnt \in Int BY <1>0 DEF FileEntry
  <2>4. (IF x = f THEN 1 ELSE 0) + hold2[f] <= (IF fds[d] = f THEN 1 ELSE 0) + hold[f] OBVIOUS
  <2>5. FdUses(new, f) + hold2[f] <= FdUses(fds, f) + hold[f] BY <2>1, <2>2, <2>3, <2>4
  <2>6. Need(fds, vmrs, hold, f) > 0 => files[f].refcnt > Need(fds, vmrs, hold, f) BY DEF FileOK
  <2> QED BY <2>2, <2>3, <2>5, <2>6 DEF Need
<1> QED BY <1>1, <1>2 DEF FileOK

\* A region changes and the references held change with it.
LEMMA FileVmr ==
    ASSUME NEW fds, NEW files, NEW host, NEW vmrs, NEW hold, FileOK(fds, files, host, vmrs, hold),
           NEW v \in Vmrs, NEW e \in VmrEntry, NEW hold2 \in [Files -> Nat],
           NEW new, new = [vmrs EXCEPT ![v] = e],
           \A f \in Files : (IF MapsFile(e, f) THEN 1 ELSE 0) + hold2[f]
                              <= (IF MapsFile(vmrs[v], f) THEN 1 ELSE 0) + hold[f]
    PROVE  FileOK(fds, files, host, new, hold2)
<1>0. vmrs \in [Vmrs -> VmrEntry] /\ files \in [Files -> FileEntry] /\ hold \in [Files -> Nat] BY DEF FileOK
<1>1. new \in [Vmrs -> VmrEntry] BY <1>0
<1>2. ASSUME NEW f \in Files
      PROVE  Need(fds, new, hold2, f) > 0 => files[f].refcnt > Need(fds, new, hold2, f)
  <2>1. VmrUses(new, f) + (IF MapsFile(vmrs[v], f) THEN 1 ELSE 0) = VmrUses(vmrs, f) + (IF MapsFile(e, f) THEN 1 ELSE 0)
    <3>1. new[v] = e /\ Else(Vmrs, vmrs, new, v) BY <1>0 DEF Else
    <3>2. VmrUses(new, f) + InVmr(vmrs, v, f) = VmrUses(vmrs, f) + InVmr(new, v, f) BY <3>1, VmrUsesSet
    <3> QED BY <3>1, <3>2 DEF InVmr
  <2>2. FdUses(fds, f) \in Nat /\ VmrUses(new, f) \in Nat /\ VmrUses(vmrs, f) \in Nat BY UsesNat
  <2>3. hold[f] \in Nat /\ hold2[f] \in Nat /\ files[f].refcnt \in Int BY <1>0 DEF FileEntry
  <2>4. (IF MapsFile(e, f) THEN 1 ELSE 0) + hold2[f] <= (IF MapsFile(vmrs[v], f) THEN 1 ELSE 0) + hold[f] OBVIOUS
  <2>5. VmrUses(new, f) + hold2[f] <= VmrUses(vmrs, f) + hold[f] BY <2>1, <2>2, <2>3, <2>4
  <2>6. Need(fds, vmrs, hold, f) > 0 => files[f].refcnt > Need(fds, vmrs, hold, f) BY DEF FileOK
  <2> QED BY <2>2, <2>3, <2>5, <2>6 DEF Need
<1> QED BY <1>1, <1>2 DEF FileOK

\* A free entry is taken for a host descriptor that is opened for it.
LEMMA FileTake ==
    ASSUME NEW fds, NEW files, NEW host, NEW vmrs, NEW hold, FileOK(fds, files, host, vmrs, hold),
           NEW f \in Files, files[f].refcnt = 0, NEW name \in HostNames \ {"free"},
           NEW files2, files2 = [files EXCEPT ![f] = [kfd |-> f, refcnt |-> 2]],
           NEW host2, host2 = [host EXCEPT ![f] = name]
    PROVE  FileOK(fds, files2, host2, vmrs, More(hold, f)) /\ Need(fds, vmrs, hold, f) = 0
<1>0. files \in [Files -> FileEntry] /\ hold \in [Files -> Nat] /\ host \in [Files -> HostNames] BY DEF FileOK
<1>f. f \in Int BY Finite
<1>1. /\ files2 \in [Files -> FileEntry] /\ files2[f].refcnt = 2 /\ files2[f].kfd = f
      /\ \A g \in Files : g /= f => files2[g] = files[g]
  BY <1>0, <1>f DEF FileEntry
<1>2. /\ More(hold, f) \in [Files -> Nat] /\ More(hold, f)[f] = hold[f] + 1
      /\ \A g \in Files : g /= f => More(hold, f)[g] = hold[g]
  BY <1>0 DEF More
<1>3. host2 \in [Files -> HostNames] /\ host2[f] = name /\ \A g \in Files : g /= f => host2[g] = host[g]
  BY <1>0
<1>4. FdUses(fds, f) \in Nat /\ VmrUses(vmrs, f) \in Nat /\ hold[f] \in Nat BY UsesNat, <1>0
<1>5. Need(fds, vmrs, hold, f) > 0 => files[f].refcnt > Need(fds, vmrs, hold, f) BY DEF FileOK
<1>6. Need(fds, vmrs, hold, f) = 0 BY <1>4, <1>5 DEF Need
<1>7. Need(fds, vmrs, More(hold, f), f) = 1 BY <1>2, <1>4, <1>6 DEF Need
<1>8. ASSUME NEW g \in Files
      PROVE  /\ files2[g].refcnt >= 0
             /\ Need(fds, vmrs, More(hold, f), g) > 0 => files2[g].refcnt > Need(fds, vmrs, More(hold, f), g)
             /\ files2[g].refcnt > 0 <=> host2[g] /= "free"
             /\ files2[g].kfd \in {-1, g}
             /\ files2[g].refcnt > 0 => files2[g].kfd = g
  <2>1. CASE g = f BY <2>1, <1>1, <1>3, <1>7
  <2>2. CASE g /= f
    <3>1. /\ files[g].refcnt >= 0
          /\ Need(fds, vmrs, hold, g) > 0 => files[g].refcnt > Need(fds, vmrs, hold, g)
          /\ files[g].refcnt > 0 <=> host[g] /= "free"
          /\ files[g].kfd \in {-1, g}
          /\ files[g].refcnt > 0 => files[g].kfd = g
      BY DEF FileOK
    <3> QED BY <3>1, <2>2, <1>1, <1>2, <1>3 DEF Need
  <2> QED BY <2>1, <2>2
<1> QED BY <1>1, <1>2, <1>3, <1>6, <1>8 DEF FileOK

----------------------------------------------------------------------------
(* The page table and the regions.  due[v] counts the pages of region v    *)
(* that the mapping in progress has counted and not entered yet.           *)

PteBits == RWX \cup {"A", "D", "U", "V"}
PteEntry == [vmr : {0} \cup Vmrs, bits : SUBSET PteBits]
Waiting(pte, v) == Cardinality({p \in VPages : pte[p].vmr = v})
InPte(pte, p, v) == IF pte[p].vmr = v THEN 1 ELSE 0
PteFit(e) == (e.vmr /= 0 => e.bits = {}) /\ (e.bits /= {} => "V" \in e.bits)

\* A region counts the pages that wait for it and those still due.
MapOK(pte, vmrs, due) ==
    /\ pte \in [VPages -> PteEntry]
    /\ vmrs \in [Vmrs -> VmrEntry]
    /\ due \in [Vmrs -> Nat]
    /\ \A p \in VPages : PteFit(pte[p])
    /\ \A v \in Vmrs : vmrs[v].refcnt = Waiting(pte, v) + due[v]

\* The pages that wait for a region are counted in naturals, and one of them counts.
LEMMA WaitingNat ==
    ASSUME NEW pte, NEW v
    PROVE  Waiting(pte, v) \in Nat /\ \A p \in VPages : pte[p].vmr = v => Waiting(pte, v) >= 1
<1> DEFINE A == {p \in VPages : pte[p].vmr = v}
<1>1. IsFiniteSet(A) BY Finite, FS_Subset
<1>2. Cardinality(A) \in Nat BY <1>1, FS_CardinalityType
<1>3. Cardinality(A) = 0 <=> A = {} BY <1>1, FS_EmptySet
<1>4. ASSUME NEW p \in VPages, pte[p].vmr = v PROVE Cardinality(A) >= 1
  <2>1. A /= {} BY <1>4
  <2> HIDE DEF A
  <2> QED BY <2>1, <1>2, <1>3
<1> QED BY <1>2, <1>4 DEF Waiting

\* A page whose entry changes may leave one region and join another.
LEMMA WaitingSet ==
    ASSUME NEW pte, NEW new, NEW p \in VPages, NEW v, Else(VPages, pte, new, p)
    PROVE  Waiting(new, v) + InPte(pte, p, v) = Waiting(pte, v) + InPte(new, p, v)
<1> DEFINE A == {q \in VPages : new[q].vmr = v}
           B == {q \in VPages : pte[q].vmr = v}
<1>1. A \ {p} = B \ {p} BY DEF Else
<1>2. (p \in A <=> new[p].vmr = v) /\ (p \in B <=> pte[p].vmr = v) OBVIOUS
<1> HIDE DEF A, B
<1>3. A \subseteq VPages /\ B \subseteq VPages BY DEF A, B
<1>4. Cardinality(A) + (IF p \in B THEN 1 ELSE 0) = Cardinality(B) + (IF p \in A THEN 1 ELSE 0)
  <2>1. IsFiniteSet(VPages) BY Finite
  <2> QED BY ONLY <1>1, <1>3, <2>1, CardFlip
<1>5. Waiting(new, v) = Cardinality(A) /\ Waiting(pte, v) = Cardinality(B) BY DEF Waiting, A, B
<1> QED BY <1>2, <1>4, <1>5 DEF InPte

\* A page changes, and what is due with it.
LEMMA MapSet ==
    ASSUME NEW pte, NEW vmrs, NEW due, MapOK(pte, vmrs, due),
           NEW p \in VPages, NEW x \in PteEntry, PteFit(x),
           NEW new, new = [pte EXCEPT ![p] = x], NEW due2 \in [Vmrs -> Nat],
           \A v \in Vmrs : due2[v] + (IF x.vmr = v THEN 1 ELSE 0) = due[v] + (IF pte[p].vmr = v THEN 1 ELSE 0)
    PROVE  MapOK(new, vmrs, due2)
<1>0. pte \in [VPages -> PteEntry] /\ vmrs \in [Vmrs -> VmrEntry] /\ due \in [Vmrs -> Nat] BY DEF MapOK
<1>1. new \in [VPages -> PteEntry] /\ new[p] = x /\ Else(VPages, pte, new, p) BY <1>0 DEF Else
<1>2. \A q \in VPages : PteFit(new[q]) BY <1>0, <1>1 DEF Else, MapOK
<1>3. ASSUME NEW v \in Vmrs PROVE vmrs[v].refcnt = Waiting(new, v) + due2[v]
  <2>1. Waiting(new, v) + InPte(pte, p, v) = Waiting(pte, v) + InPte(new, p, v) BY <1>1, WaitingSet
  <2>2. Waiting(new, v) \in Nat /\ Waiting(pte, v) \in Nat BY WaitingNat
  <2>3. vmrs[v].refcnt = Waiting(pte, v) + due[v] /\ due[v] \in Nat /\ due2[v] \in Nat BY <1>0 DEF MapOK
  <2>4. due2[v] + InPte(new, p, v) = due[v] + InPte(pte, p, v) BY <1>1 DEF InPte
  <2>5. InPte(new, p, v) \in Nat /\ InPte(pte, p, v) \in Nat BY DEF InPte
  <2> QED BY <2>1, <2>2, <2>3, <2>4, <2>5
<1> QED BY <1>0, <1>1, <1>2, <1>3 DEF MapOK

\* A region's count changes, and what is due with it.
LEMMA MapVmr ==
    ASSUME NEW pte, NEW vmrs, NEW due, MapOK(pte, vmrs, due),
           NEW v \in Vmrs, NEW e \in VmrEntry, NEW new, new = [vmrs EXCEPT ![v] = e],
           NEW due2 \in [Vmrs -> Nat], \A u \in Vmrs : u /= v => due2[u] = due[u],
           e.refcnt - due2[v] = vmrs[v].refcnt - due[v]
    PROVE  MapOK(pte, new, due2)
<1>0. pte \in [VPages -> PteEntry] /\ vmrs \in [Vmrs -> VmrEntry] /\ due \in [Vmrs -> Nat] BY DEF MapOK
<1>1. new \in [Vmrs -> VmrEntry] /\ new[v] = e /\ \A u \in Vmrs : u /= v => new[u] = vmrs[u] BY <1>0
<1>2. ASSUME NEW u \in Vmrs PROVE new[u].refcnt = Waiting(pte, u) + due2[u]
  <2>1. vmrs[u].refcnt = Waiting(pte, u) + due[u] /\ due[u] \in Nat /\ due2[u] \in Nat BY <1>0 DEF MapOK
  <2>2. Waiting(pte, u) \in Nat BY WaitingNat
  <2>3. e.refcnt \in Int BY DEF VmrEntry
  <2>4. CASE u = v BY <2>1, <2>2, <2>3, <2>4, <1>1
  <2>5. CASE u /= v BY <2>1, <2>5, <1>1
  <2> QED BY <2>4, <2>5
<1> QED BY <1>0, <1>1, <1>2 DEF MapOK

\* A region that a page refers to is in use.
LEMMA MapUse ==
    ASSUME NEW pte, NEW vmrs, NEW due, MapOK(pte, vmrs, due), NEW p \in VPages, pte[p].vmr /= 0
    PROVE  pte[p].vmr \in Vmrs /\ vmrs[pte[p].vmr].refcnt >= 1 /\ pte[p].bits = {}
<1>0. pte \in [VPages -> PteEntry] /\ vmrs \in [Vmrs -> VmrEntry] /\ due \in [Vmrs -> Nat] BY DEF MapOK
<1> DEFINE v == pte[p].vmr
<1>1. v \in Vmrs /\ pte[p].bits = {} BY <1>0 DEF MapOK, PteEntry, PteFit
<1>2. Waiting(pte, v) >= 1 /\ Waiting(pte, v) \in Nat BY WaitingNat
<1>3. vmrs[v].refcnt = Waiting(pte, v) + due[v] /\ due[v] \in Nat BY <1>0, <1>1 DEF MapOK
<1> HIDE DEF v
<1>4. vmrs[v].refcnt >= 1 BY <1>2, <1>3
<1> QED BY <1>1, <1>4 DEF v

----------------------------------------------------------------------------
(* What the pages hold.                                                    *)

NameOf(files, host, f) == IF f = None THEN "free" ELSE host[files[f].kfd]
SourceN(name, a, addr, length, offset) ==
    [name |-> name, off |-> offset + (a - addr), len |-> length - (a - addr)]
\* The part of a file that region e will load into page p.
Promise(p, e, files, host) ==
    SourceN(NameOf(files, host, e.file), p * PGSIZE, e.addr, e.length, e.offset)

\* Source reads the kernel state for no more than the file's name.
LEMMA SourceIs ==
    ASSUME NEW s, NEW a, NEW addr, NEW length, NEW f, NEW offset
    PROVE  Source(s, a, addr, length, f, offset)
             = SourceN(NameOf(s.files, s.host, f), a, addr, length, offset)
BY DEF Source, SourceN, NameOf

\* A page shows what it may; a page that waits was mapped to that part of a file, and
\* may show what the part now holds.
Shows(page, w) == \A j \in Units : page[j] \in w.units[j]
Awaits(disk, w, from) == w.from = from /\ \A j \in Units : Content(disk, from)[j] \in w.units[j]

\* The history of a page is a record of values for its units, as its content is.
Awaited(w) == DOMAIN w = {"from", "units"} /\ DOMAIN w.units = Units
Formed(page, w) == DOMAIN page = Units /\ Awaited(w)

\* What mapping a page makes of it.
LEMMA WantedIs ==
    ASSUME NEW s, NEW a, NEW addr, NEW length, NEW f, NEW offset
    PROVE  /\ Awaited(Wanted(s, a, addr, length, f, offset))
           /\ Awaits(s.disk, Wanted(s, a, addr, length, f, offset),
                     SourceN(NameOf(s.files, s.host, f), a, addr, length, offset))
<1> DEFINE from == SourceN(NameOf(s.files, s.host, f), a, addr, length, offset)
<1>1. Source(s, a, addr, length, f, offset) = from BY SourceIs
<1> HIDE DEF from
<1>2. Wanted(s, a, addr, length, f, offset) = [from |-> from, units |-> [j \in Units |-> {Content(s.disk, from)[j]}]]
  BY <1>1 DEF Wanted
<1> QED BY <1>2 DEF Awaits, Awaited, from

\* A page that is there shows what it may; a page that waits may show what its region
\* promises.
ContentOK(pte, vmrs, files, host, disk, mem, want) ==
    /\ DOMAIN mem = VPages /\ DOMAIN want = VPages
    /\ \A p \in VPages :
          /\ Formed(mem[p], want[p])
          /\ "V" \in pte[p].bits => Shows(mem[p], want[p])
          /\ pte[p].vmr /= 0 => Awaits(disk, want[p], Promise(p, vmrs[pte[p].vmr], files, host))

\* The host's files have sizes.
DiskOK(disk) == DOMAIN disk = Names /\ \A n \in Names : disk[n].size \in Nat

----------------------------------------------------------------------------
(* The rest of the kernel's state, and all of it.                          *)

KernelPte == pte_create(prot_to_type(RWX, FALSE))
KernelOK(pte, max) ==
    /\ max = Max0
    /\ \A p \in VPages : /\ "U" \in pte[p].bits => p * PGSIZE < Max0
                         /\ p \in KernelRange => pte[p] = KernelPte
TlbOK(pte, tlb) ==
    /\ tlb \in [VPages -> SUBSET PteBits]
    /\ \A p \in VPages : tlb[p] /= {} => tlb[p] = pte[p].bits
BrkOK(brk, min, max, b) ==
    /\ brk \in Nat /\ brk <= Max0 /\ brk % PGSIZE = 0
    /\ max \in Nat /\ max <= Max0
    /\ min = b /\ b \in Nat

Fields == {"fds", "files", "host", "pte", "tabs", "vmrs", "vmrs0", "next", "used", "brk", "brk_min",
           "brk_max", "mmap_max", "demand", "mem", "tlb", "disk", "want", "stale", "lost", "panic"}
\* The fields of a kernel state; the ones that two states differ in at most.
Shape(s) == DOMAIN s = Fields /\ s.panic \in BOOLEAN
Live(s) == s.panic = FALSE
Differ(s, t, F) == \A x \in Fields \ F : t[x] = s[x]
\* The fields that the kernel's invariant speaks of.
Told == {"fds", "files", "host", "pte", "vmrs", "brk", "brk_min", "brk_max", "mmap_max", "mem", "disk",
         "want", "stale"}

\* The invariant, but for the TLB, and with it.
J0(s, hold, b, due) ==
    /\ Shape(s) /\ s.panic = FALSE /\ "seen" \notin s.stale /\ DiskOK(s.disk)
    /\ FileOK(s.fds, s.files, s.host, s.vmrs, hold)
    /\ MapOK(s.pte, s.vmrs, due)
    /\ KernelOK(s.pte, s.mmap_max)
    /\ ContentOK(s.pte, s.vmrs, s.files, s.host, s.disk, s.mem, s.want)
    /\ BrkOK(s.brk, s.brk_min, s.brk_max, b)
J(s, hold, b, due) == J0(s, hold, b, due) /\ TlbOK(s.pte, s.tlb)

\* What the invariant does not speak of may change.
LEMMA J0Frame ==
    ASSUME NEW s, NEW t, NEW hold, NEW b, NEW due, J0(s, hold, b, due),
           Shape(t), t.panic = FALSE, \A x \in Told : t[x] = s[x]
    PROVE  J0(t, hold, b, due)
<1>1. /\ t.fds = s.fds /\ t.files = s.files /\ t.host = s.host /\ t.pte = s.pte /\ t.vmrs = s.vmrs
      /\ t.brk = s.brk /\ t.brk_min = s.brk_min /\ t.brk_max = s.brk_max /\ t.mmap_max = s.mmap_max
      /\ t.mem = s.mem /\ t.want = s.want /\ t.stale = s.stale /\ t.disk = s.disk
  BY DEF Told
<1> QED BY <1>1 DEF J0

----------------------------------------------------------------------------
(* References to files.                                                    *)

\* The files that somebody holds stay open on what they were open on.
Held(s, t, hold) ==
    \A f \in Files : hold[f] >= 1 => NameOf(t.files, t.host, f) = NameOf(s.files, s.host, f)

\* What file a region names counts as a use.
LEMMA VmrUsesIn ==
    ASSUME NEW vmrs, NEW v \in Vmrs, NEW f, MapsFile(vmrs[v], f)
    PROVE  VmrUses(vmrs, f) >= 1
<1> DEFINE A == {u \in Vmrs : MapsFile(vmrs[u], f)}
<1>1. IsFiniteSet(A) /\ A /= {} BY Finite, FS_Subset
<1> HIDE DEF A
<1>2. Cardinality(A) \in Nat /\ Cardinality(A) /= 0 BY <1>1, FS_CardinalityType, FS_EmptySet
<1>3. Cardinality(A) >= 1 BY <1>2
<1> QED BY <1>3 DEF A, VmrUses

\* What pages must read as only changes with the names of the files in use.
LEMMA ContentKeep ==
    ASSUME NEW pte, NEW vmrs, NEW due, NEW files, NEW host, NEW disk, NEW mem, NEW want,
           MapOK(pte, vmrs, due), ContentOK(pte, vmrs, files, host, disk, mem, want),
           NEW files2, NEW host2,
           \A v \in Vmrs : vmrs[v].refcnt >= 1 =>
               NameOf(files2, host2, vmrs[v].file) = NameOf(files, host, vmrs[v].file)
    PROVE  ContentOK(pte, vmrs, files2, host2, disk, mem, want)
<1>1. ASSUME NEW p \in VPages, pte[p].vmr /= 0
      PROVE  Awaits(disk, want[p], Promise(p, vmrs[pte[p].vmr], files2, host2))
  <2>1. pte[p].vmr \in Vmrs /\ vmrs[pte[p].vmr].refcnt >= 1 BY <1>1, MapUse
  <2>2. Awaits(disk, want[p], Promise(p, vmrs[pte[p].vmr], files, host)) BY <1>1 DEF ContentOK
  <2>3. NameOf(files2, host2, vmrs[pte[p].vmr].file) = NameOf(files, host, vmrs[pte[p].vmr].file) BY <2>1
  <2> QED BY <2>2, <2>3 DEF Promise
<1> QED BY <1>1 DEF ContentOK

\* Counting references keeps the fields and a panic.
LEMMA FileStay ==
    ASSUME NEW s, Shape(s), NEW f
    PROVE  /\ Shape(file_incref(s, f)) /\ (s.panic => file_incref(s, f).panic)
           /\ Differ(s, file_incref(s, f), {"files", "panic"})
           /\ Shape(file_decref(s, f)) /\ file_decref(s, f).panic = s.panic
           /\ Differ(s, file_decref(s, f), {"files", "host"})
BY DEF Shape, Fields, Differ, file_incref, file_decref, HostClose, kassert, Panic

\* file_incref, on a file that is in use: the caller holds one reference more.
LEMMA IncrefOK ==
    ASSUME NEW s, NEW hold, NEW b, NEW due, J0(s, hold, b, due), NEW f \in Files,
           s.files[f].refcnt > 0,
           s.files[f].refcnt > 1 \/ Need(s.fds, s.vmrs, hold, f) > 0,
           NEW t, t = file_incref(s, f)
    PROVE  J0(t, More(hold, f), b, due) /\ Differ(s, t, {"files"}) /\ Held(s, t, More(hold, f))
<1>1. Shape(t) /\ t.panic = FALSE /\ Differ(s, t, {"files"})
      /\ t.files = [s.files EXCEPT ![f].refcnt = @ + 1]
  BY DEF J0, Shape, Fields, Differ, file_incref, kassert, Panic
<1>2. FileOK(s.fds, s.files, s.host, s.vmrs, hold) BY DEF J0
<1>3. FileOK(s.fds, t.files, s.host, s.vmrs, More(hold, f)) BY <1>1, <1>2, FileHold
<1>4. \A g \in Files : t.files[g].kfd = s.files[g].kfd BY <1>1, <1>2 DEF FileOK, FileEntry
<1>5. t.fds = s.fds /\ t.host = s.host /\ t.pte = s.pte /\ t.vmrs = s.vmrs
      /\ t.brk = s.brk /\ t.brk_min = s.brk_min /\ t.brk_max = s.brk_max /\ t.mmap_max = s.mmap_max
      /\ t.mem = s.mem /\ t.want = s.want /\ t.stale = s.stale /\ t.disk = s.disk
  BY <1>1 DEF Differ, Fields
<1>6. \A g \in Files \cup {None} : NameOf(t.files, t.host, g) = NameOf(s.files, s.host, g)
  BY <1>4, <1>5 DEF NameOf
<1>7. \A v \in Vmrs : s.vmrs[v].file \in Files \cup {None} BY <1>2 DEF FileOK, VmrEntry
<1>8. ContentOK(s.pte, s.vmrs, t.files, t.host, s.disk, s.mem, s.want)
  <2>1. MapOK(s.pte, s.vmrs, due) /\ ContentOK(s.pte, s.vmrs, s.files, s.host, s.disk, s.mem, s.want) BY DEF J0
  <2> QED BY <2>1, <1>6, <1>7, ContentKeep
<1> QED BY <1>1, <1>3, <1>5, <1>6, <1>8 DEF J0, Held

\* file_decref gives back a reference that the caller holds (file.c 23-33).
LEMMA DecrefOK ==
    ASSUME NEW s, NEW hold, NEW b, NEW due, J0(s, hold, b, due), NEW f \in Files, hold[f] >= 1,
           NEW t, t = file_decref(s, f)
    PROVE  J0(t, Less(hold, f), b, due) /\ Differ(s, t, {"files", "host"}) /\ Held(s, t, Less(hold, f))
<1> DEFINE files2 == [s.files EXCEPT ![f].refcnt = IF @ = 2 THEN 0 ELSE @ - 1]
           host2 == IF s.files[f].refcnt = 2 THEN [s.host EXCEPT ![f] = "free"] ELSE s.host
<1>2. FileOK(s.fds, s.files, s.host, s.vmrs, hold) BY DEF J0
<1>3. /\ FileOK(s.fds, files2, host2, s.vmrs, Less(hold, f))
      /\ s.files[f].refcnt > 0 /\ s.files[f].kfd = f
      /\ \A g \in Files : files2[g].kfd = s.files[g].kfd
      /\ \A g \in Files : Need(s.fds, s.vmrs, Less(hold, f), g) > 0 => host2[g] = s.host[g]
  <2> HIDE DEF files2, host2
  <2>1. files2 = [s.files EXCEPT ![f].refcnt = IF @ = 2 THEN 0 ELSE @ - 1] BY DEF files2
  <2>2. host2 = (IF s.files[f].refcnt = 2 THEN [s.host EXCEPT ![f] = "free"] ELSE s.host) BY DEF host2
  <2> QED BY <1>2, <2>1, <2>2, FileDrop
<1>1. Shape(t) /\ t.panic = FALSE /\ Differ(s, t, {"files", "host"}) /\ t.files = files2 /\ t.host = host2
  <2>0. Shape(s) /\ s.panic = FALSE /\ s.files \in [Files -> FileEntry] BY <1>2 DEF J0, FileOK
  <2>1. CASE s.files[f].refcnt = 2
    <3>1. t = [s EXCEPT !.files[f].refcnt = 0, !.host[f] = "free"]
      BY <2>1, <1>3, <2>0 DEF file_decref, HostClose, Shape, Fields
    <3> QED BY <3>1, <2>0, <2>1 DEF Shape, Fields, Differ
  <2>2. CASE s.files[f].refcnt /= 2
    <3>1. t = [s EXCEPT !.files[f].refcnt = @ - 1] BY <2>2 DEF file_decref
    <3> QED BY <3>1, <2>0, <2>2 DEF Shape, Fields, Differ
  <2> QED BY <2>1, <2>2
<1> HIDE DEF files2, host2
<1>5. t.fds = s.fds /\ t.pte = s.pte /\ t.vmrs = s.vmrs
      /\ t.brk = s.brk /\ t.brk_min = s.brk_min /\ t.brk_max = s.brk_max /\ t.mmap_max = s.mmap_max
      /\ t.mem = s.mem /\ t.want = s.want /\ t.stale = s.stale /\ t.disk = s.disk
  BY <1>1 DEF Differ, Fields
<1>6. ASSUME NEW g \in Files, Need(s.fds, s.vmrs, Less(hold, f), g) > 0
      PROVE  NameOf(t.files, t.host, g) = NameOf(s.files, s.host, g)
  <2>1. t.files[g].refcnt > 0 /\ t.files[g].kfd = g
    <3>1. t.files[g].refcnt > Need(s.fds, s.vmrs, Less(hold, f), g) /\ t.files[g].refcnt \in Int
      BY <1>6, <1>1, <1>3 DEF FileOK, FileEntry
    <3>2. FdUses(s.fds, g) \in Nat /\ VmrUses(s.vmrs, g) \in Nat /\ Less(hold, f)[g] \in Nat
      BY <1>3, UsesNat DEF FileOK
    <3>3. Need(s.fds, s.vmrs, Less(hold, f), g) \in Nat BY <3>2 DEF Need
    <3>4. t.files[g].refcnt > 0 BY <3>1, <3>3, <1>6
    <3> QED BY <3>4, <1>1, <1>3 DEF FileOK
  <2>2. s.files[g].kfd = g BY <2>1, <1>1, <1>3
  <2>3. t.host[g] = s.host[g] BY <1>1, <1>3, <1>6
  <2> QED BY <2>1, <2>2, <2>3 DEF NameOf
<1>7. ASSUME NEW g \in Files, Less(hold, f)[g] >= 1 \/ VmrUses(s.vmrs, g) >= 1
      PROVE  Need(s.fds, s.vmrs, Less(hold, f), g) > 0
  <2>1. FdUses(s.fds, g) \in Nat /\ VmrUses(s.vmrs, g) \in Nat /\ Less(hold, f)[g] \in Nat
    BY <1>3, UsesNat DEF FileOK
  <2> QED BY <2>1, <1>7 DEF Need
<1>8. ContentOK(s.pte, s.vmrs, t.files, t.host, s.disk, s.mem, s.want)
  <2>1. MapOK(s.pte, s.vmrs, due) /\ ContentOK(s.pte, s.vmrs, s.files, s.host, s.disk, s.mem, s.want) BY DEF J0
  <2>2. ASSUME NEW v \in Vmrs, s.vmrs[v].refcnt >= 1
        PROVE  NameOf(t.files, t.host, s.vmrs[v].file) = NameOf(s.files, s.host, s.vmrs[v].file)
    <3>1. s.vmrs[v].file \in Files \cup {None} /\ s.vmrs[v].refcnt \in Int BY <1>2 DEF FileOK, VmrEntry
    <3>2. CASE s.vmrs[v].file = None BY <3>2 DEF NameOf
    <3>3. CASE s.vmrs[v].file \in Files
      <4>1. MapsFile(s.vmrs[v], s.vmrs[v].file) BY <2>2, <3>1 DEF MapsFile
      <4>2. VmrUses(s.vmrs, s.vmrs[v].file) >= 1 BY <4>1, VmrUsesIn
      <4> QED BY <3>3, <4>2, <1>6, <1>7
    <3> QED BY <3>1, <3>2, <3>3
  <2> QED BY <2>1, <2>2, ContentKeep
<1>9. Held(s, t, Less(hold, f)) BY <1>6, <1>7 DEF Held
<1>10. J0(t, Less(hold, f), b, due) BY <1>1, <1>3, <1>5, <1>8 DEF J0
<1> QED BY <1>1, <1>9, <1>10

----------------------------------------------------------------------------
(* Descriptors.                                                            *)

\* One reference more and one reference less cancel.
LEMMA MoreLess ==
    ASSUME NEW hold \in [Files -> Nat], NEW f \in Files
    PROVE  /\ More(hold, f) \in [Files -> Nat] /\ More(hold, f)[f] = hold[f] + 1
           /\ \A g \in Files : g /= f => More(hold, f)[g] = hold[g]
           /\ hold[f] >= 1 => /\ Less(hold, f) \in [Files -> Nat] /\ Less(hold, f)[f] = hold[f] - 1
                              /\ \A g \in Files : g /= f => Less(hold, f)[g] = hold[g]
                              /\ More(Less(hold, f), f) = hold
           /\ Less(More(hold, f), f) = hold
<1>1. hold[f] \in Nat OBVIOUS
<1>2. More(hold, f) \in [Files -> Nat] /\ More(hold, f)[f] = hold[f] + 1
      /\ \A g \in Files : g /= f => More(hold, f)[g] = hold[g]
  BY <1>1 DEF More
<1>3. Less(More(hold, f), f) = hold
  <2> DEFINE m == More(hold, f)
  <2>1. Less(m, f) \in [Files -> Nat] /\ \A g \in Files : Less(m, f)[g] = hold[g]
    <3> HIDE DEF m
    <3> QED BY <1>1, <1>2 DEF Less, m
  <2> QED BY <2>1
<1>4. ASSUME hold[f] >= 1
      PROVE  /\ Less(hold, f) \in [Files -> Nat] /\ Less(hold, f)[f] = hold[f] - 1
             /\ \A g \in Files : g /= f => Less(hold, f)[g] = hold[g]
             /\ More(Less(hold, f), f) = hold
  <2>1. /\ Less(hold, f) \in [Files -> Nat] /\ Less(hold, f)[f] = hold[f] - 1
        /\ \A g \in Files : g /= f => Less(hold, f)[g] = hold[g]
    BY <1>1, <1>4 DEF Less
  <2> DEFINE m == Less(hold, f)
  <2>2. More(m, f) \in [Files -> Nat] /\ \A g \in Files : More(m, f)[g] = hold[g]
    <3> HIDE DEF m
    <3> QED BY <1>1, <2>1 DEF More, m
  <2>3. More(m, f) = hold BY <2>2
  <2> QED BY <2>1, <2>3
<1> QED BY <1>2, <1>3, <1>4

\* A descriptor of a file is counted.
LEMMA FdUsesIn ==
    ASSUME NEW fds, NEW d \in Fds, NEW f, fds[d] = f
    PROVE  FdUses(fds, f) >= 1
<1> DEFINE A == {e \in Fds : fds[e] = f}
<1>1. IsFiniteSet(A) /\ A /= {} BY Finite, FS_Subset
<1> HIDE DEF A
<1>2. Cardinality(A) \in Nat /\ Cardinality(A) /= 0 BY <1>1, FS_CardinalityType, FS_EmptySet
<1>3. Cardinality(A) >= 1 BY <1>2
<1> QED BY <1>3 DEF A, FdUses

\* A file that a descriptor, a region or a function uses has its entry.
LEMMA NeedIn ==
    ASSUME NEW fds, NEW files, NEW host, NEW vmrs, NEW hold, FileOK(fds, files, host, vmrs, hold),
           NEW f \in Files,
           FdUses(fds, f) >= 1 \/ VmrUses(vmrs, f) >= 1 \/ hold[f] >= 1
    PROVE  Need(fds, vmrs, hold, f) > 0 /\ files[f].refcnt > 1 /\ files[f].refcnt > 0
<1>1. FdUses(fds, f) \in Nat /\ VmrUses(vmrs, f) \in Nat /\ hold[f] \in Nat BY UsesNat DEF FileOK
<1>2. Need(fds, vmrs, hold, f) \in Nat /\ Need(fds, vmrs, hold, f) >= 1 BY <1>1 DEF Need
<1>3. files[f].refcnt > Need(fds, vmrs, hold, f) /\ files[f].refcnt \in Int BY <1>2 DEF FileOK, FileEntry
<1> QED BY <1>2, <1>3

\* The references held before pay for the descriptor and those held after.
FdTrade(fds, d, x, hold, hold2) ==
    \A f \in Files : (IF x = f THEN 1 ELSE 0) + hold2[f] <= (IF fds[d] = f THEN 1 ELSE 0) + hold[f]
FdSet(s, t, d, x) == t = [s EXCEPT !.fds[d] = x]

\* A change of the descriptors alone.
LEMMA FdsFrame ==
    ASSUME NEW s, NEW hold, NEW b, NEW due, J0(s, hold, b, due),
           NEW d \in Fds, NEW x \in Files \cup {None}, NEW hold2 \in [Files -> Nat],
           FdTrade(s.fds, d, x, hold, hold2), NEW t, FdSet(s, t, d, x)
    PROVE  J0(t, hold2, b, due) /\ Differ(s, t, {"fds"}) /\ t.fds[d] = x
<1>1. FileOK(s.fds, s.files, s.host, s.vmrs, hold) BY DEF J0
<1>2. Shape(t) /\ t.panic = FALSE /\ Differ(s, t, {"fds"}) /\ t.fds = [s.fds EXCEPT ![d] = x]
  BY DEF J0, Shape, Fields, Differ, FdSet
<1>3. FileOK(t.fds, s.files, s.host, s.vmrs, hold2) BY <1>1, <1>2, FileFds DEF FdTrade
<1>4. t.files = s.files /\ t.host = s.host /\ t.pte = s.pte /\ t.vmrs = s.vmrs
      /\ t.brk = s.brk /\ t.brk_min = s.brk_min /\ t.brk_max = s.brk_max /\ t.mmap_max = s.mmap_max
      /\ t.mem = s.mem /\ t.want = s.want /\ t.stale = s.stale /\ t.disk = s.disk
  BY <1>2 DEF Differ, Fields
<1>5. t.fds[d] = x BY <1>1, <1>2 DEF FileOK
<1> QED BY <1>2, <1>3, <1>4, <1>5 DEF J0

\* References nobody gives back.
LEMMA Forget ==
    ASSUME NEW s, NEW hold, NEW b, NEW due, J0(s, hold, b, due), NEW hold2 \in [Files -> Nat],
           \A f \in Files : hold2[f] <= hold[f]
    PROVE  J0(s, hold2, b, due)
<1>1. FileOK(s.fds, s.files, s.host, s.vmrs, hold2) BY FileForget DEF J0
<1> QED BY <1>1 DEF J0

\* What changes neither the page table nor the TLB leaves both.
LEMMA DifferTlb ==
    ASSUME NEW s, NEW t, NEW F, Differ(s, t, F), "pte" \notin F, "tlb" \notin F
    PROVE  t.pte = s.pte /\ t.tlb = s.tlb
BY DEF Differ, Fields

\* file_get leaves the caller with a reference to an open file, or with nothing.
LEMMA GetOK ==
    ASSUME NEW s, NEW hold, NEW b, NEW due, J0(s, hold, b, due), NEW fd, NEW g, g = file_get(s, fd)
    PROVE  /\ g.r \in Files \cup {None}
           /\ g.r = None => g.k = s
           /\ g.r \in Files => /\ J0(g.k, More(hold, g.r), b, due) /\ Differ(s, g.k, {"files"})
                               /\ Held(s, g.k, More(hold, g.r)) /\ fd \in Fds /\ s.fds[fd] = g.r
<1>1. CASE \/ fd \notin Fds \/ s.fds[fd] = None \/ s.files[s.fds[fd]].refcnt = 0
  <2>1. g = [k |-> s, r |-> None] BY <1>1 DEF file_get
  <2> QED BY <2>1, Finite
<1>2. CASE ~(\/ fd \notin Fds \/ s.fds[fd] = None \/ s.files[s.fds[fd]].refcnt = 0)
  <2> DEFINE f == s.fds[fd]
  <2>1. FileOK(s.fds, s.files, s.host, s.vmrs, hold) BY DEF J0
  <2>2. f \in Files /\ fd \in Fds BY <1>2, <2>1 DEF FileOK
  <2>3. FdUses(s.fds, f) >= 1 BY <1>2, FdUsesIn
  <2> HIDE DEF f
  <2>4. Need(s.fds, s.vmrs, hold, f) > 0 /\ s.files[f].refcnt > 1 /\ s.files[f].refcnt > 0
    BY <2>1, <2>2, <2>3, NeedIn
  <2>5. g = [k |-> file_incref(s, f), r |-> f] BY <1>2, <2>4 DEF file_get, file_incref, kassert, f
  <2>6. /\ J0(file_incref(s, f), More(hold, f), b, due) /\ Differ(s, file_incref(s, f), {"files"})
        /\ Held(s, file_incref(s, f), More(hold, f))
    BY <2>2, <2>4, IncrefOK
  <2>7. g.k = file_incref(s, f) /\ g.r = f BY <2>5
  <2>8. g.r \in Files /\ g.r /= None BY <2>2, <2>7, Finite
  <2>9. s.fds[fd] = g.r BY <2>7 DEF f
  <2> QED BY <2>2, <2>6, <2>7, <2>8, <2>9
<1> QED BY <1>1, <1>2

\* file_dup gives a held file a descriptor, and the caller keeps its reference.
LEMMA DupOK ==
    ASSUME NEW s, NEW hold, NEW b, NEW due, J0(s, hold, b, due), NEW f \in Files, hold[f] >= 1,
           NEW d, d = file_dup(s, f)
    PROVE  J0(d.k, hold, b, due) /\ Differ(s, d.k, {"fds", "files"}) /\ d.r \in Int
<1> DEFINE free == {e \in Fds : s.fds[e] = None}
<1>0. FileOK(s.fds, s.files, s.host, s.vmrs, hold) /\ hold \in [Files -> Nat] BY DEF J0, FileOK
<1>1. CASE free = {}
  <2>1. d = [k |-> s, r |-> -1] BY <1>1 DEF file_dup
  <2> QED BY <2>1 DEF Differ
<1>2. CASE free /= {}
  <2> DEFINE x == FirstOf(free)
             u == [s EXCEPT !.fds[x] = f]
  <2>1. x \in Fds /\ s.fds[x] = None /\ x \in Int
    <3>1. free \subseteq Nat BY Finite
    <3>2. x \in free /\ x \in Nat
      <4> HIDE DEF free
      <4> QED BY <3>1, <1>2, FirstIn
    <3> QED BY <3>2
  <2>2. d = [k |-> file_incref(u, f), r |-> x] BY <1>2 DEF file_dup
  <2> HIDE DEF x, free
  <2>3. Less(hold, f) \in [Files -> Nat] /\ Less(hold, f)[f] = hold[f] - 1
        /\ (\A g \in Files : g /= f => Less(hold, f)[g] = hold[g]) /\ More(Less(hold, f), f) = hold
    BY <1>0, MoreLess
  <2>4. J0(u, Less(hold, f), b, due) /\ Differ(s, u, {"fds"}) /\ u.fds[x] = f
    <3>1. FdTrade(s.fds, x, f, hold, Less(hold, f))
      <4> SUFFICES ASSUME NEW g \in Files
                   PROVE (IF f = g THEN 1 ELSE 0) + Less(hold, f)[g] <= (IF s.fds[x] = g THEN 1 ELSE 0) + hold[g]
        BY DEF FdTrade
      <4>1. s.fds[x] /= g BY <2>1, Finite
      <4>2. hold[g] \in Nat BY <1>0
      <4> QED BY <4>1, <4>2, <2>3
    <3>2. FdSet(s, u, x, f) BY DEF FdSet
    <3> HIDE DEF u
    <3> QED BY <2>1, <2>3, <3>1, <3>2, FdsFrame
  <2> HIDE DEF u
  <2>5. FdUses(u.fds, f) >= 1 BY <2>1, <2>4, FdUsesIn
  <2>6. Need(u.fds, u.vmrs, Less(hold, f), f) > 0 /\ u.files[f].refcnt > 1 /\ u.files[f].refcnt > 0
    <3>1. FileOK(u.fds, u.files, u.host, u.vmrs, Less(hold, f)) BY <2>4 DEF J0
    <3> QED BY <3>1, <2>5, NeedIn
  <2>7. J0(file_incref(u, f), More(Less(hold, f), f), b, due) /\ Differ(u, file_incref(u, f), {"files"})
    BY <2>4, <2>6, IncrefOK
  <2>8. d.k = file_incref(u, f) /\ d.r = x BY <2>2
  <2>9. Differ(s, d.k, {"fds", "files"}) BY <2>4, <2>7, <2>8 DEF Differ
  <2>10. J0(d.k, hold, b, due) BY <2>3, <2>7, <2>8
  <2> QED BY <2>1, <2>8, <2>9, <2>10
<1> QED BY <1>1, <1>2

\* fd_close drops the reference that it takes and the descriptor's.
LEMMA CloseOK ==
    ASSUME NEW s, NEW hold, NEW b, NEW due, J(s, hold, b, due), NEW fd
    PROVE  J(fd_close(s, fd).k, hold, b, due)
<1> DEFINE g == file_get(s, fd)
           f == g.r
           u == [g.k EXCEPT !.fds[fd] = None]
           w == file_decref(u, f)
           t == file_decref(w, f)
<1>0. J0(s, hold, b, due) /\ hold \in [Files -> Nat] BY DEF J, J0, FileOK
<1>1. /\ f \in Files \cup {None}
      /\ f = None => g.k = s
      /\ f \in Files => /\ J0(g.k, More(hold, f), b, due) /\ Differ(s, g.k, {"files"})
                        /\ fd \in Fds /\ s.fds[fd] = f
  BY <1>0, GetOK
<1>2. CASE f = None
  <2>1. fd_close(s, fd) = [k |-> s, r |-> -1] BY <1>2 DEF fd_close
  <2> QED BY <2>1
<1>3. CASE f /= None
  <2>1. fd_close(s, fd) = [k |-> t, r |-> 0] BY <1>3 DEF fd_close
  <2>2. f \in Files /\ J0(g.k, More(hold, f), b, due) /\ Differ(s, g.k, {"files"}) /\ fd \in Fds /\ s.fds[fd] = f
    BY <1>1, <1>3
  <2> HIDE DEF g, f
  <2>3. g.k.fds[fd] = f BY <2>2 DEF Differ, Fields
  <2> DEFINE h1 == More(hold, f)
             h2 == More(h1, f)
  <2>4. /\ h1 \in [Files -> Nat] /\ h1[f] = hold[f] + 1 /\ Less(h1, f) = hold
        /\ h2 \in [Files -> Nat] /\ h2[f] = h1[f] + 1 /\ (\A e \in Files : e /= f => h2[e] = h1[e])
        /\ Less(h2, f) = h1
    <3>1. h1 \in [Files -> Nat] /\ h1[f] = hold[f] + 1 /\ Less(h1, f) = hold BY <1>0, <2>2, MoreLess
    <3> HIDE DEF h1
    <3> QED BY <3>1, <2>2, MoreLess
  <2>5. J0(u, h2, b, due) /\ Differ(g.k, u, {"fds"})
    <3> HIDE DEF h1, h2
    <3>1. FdTrade(g.k.fds, fd, None, h1, h2)
      <4> SUFFICES ASSUME NEW e \in Files
                   PROVE (IF None = e THEN 1 ELSE 0) + h2[e] <= (IF g.k.fds[fd] = e THEN 1 ELSE 0) + h1[e]
        BY DEF FdTrade
      <4>1. None /= e /\ h1[e] \in Nat /\ h2[e] \in Nat BY <2>4, Finite
      <4> QED BY <4>1, <2>3, <2>4
    <3>2. J0(g.k, h1, b, due) BY <2>2 DEF h1
    <3>3. FdSet(g.k, u, fd, None) BY DEF FdSet
    <3> HIDE DEF u
    <3> QED BY <3>1, <3>2, <3>3, <2>2, <2>4, FdsFrame
  <2> HIDE DEF u, h1, h2
  <2>6. hold[f] \in Nat /\ h1[f] >= 1 /\ h2[f] >= 1 BY <2>2, <2>4, <1>0
  <2>7. J0(w, h1, b, due) /\ Differ(u, w, {"files", "host"}) BY <2>2, <2>4, <2>5, <2>6, DecrefOK
  <2> HIDE DEF w
  <2>8. J0(t, hold, b, due) /\ Differ(w, t, {"files", "host"}) BY <2>2, <2>4, <2>6, <2>7, DecrefOK
  <2> HIDE DEF t
  <2>9. t.pte = s.pte /\ t.tlb = s.tlb BY <2>2, <2>5, <2>7, <2>8 DEF Differ, Fields
  <2>10. fd_close(s, fd).k = t BY <2>1
  <2> QED BY <2>8, <2>9, <2>10 DEF J
<1> QED BY <1>2, <1>3

\* The free entry of the table and the free descriptor of the host are the same.
LEMMA LowestFree ==
    ASSUME NEW fds, NEW files, NEW host, NEW vmrs, NEW hold, FileOK(fds, files, host, vmrs, hold)
    PROVE  {f \in Files : files[f].refcnt = 0} = {d \in Files : host[d] = "free"}
<1>1. ASSUME NEW f \in Files PROVE files[f].refcnt = 0 <=> host[f] = "free"
  <2>1. /\ files[f].refcnt >= 0 /\ files[f].refcnt \in Int
        /\ files[f].refcnt > 0 <=> host[f] /= "free"
    BY DEF FileOK, FileEntry
  <2> QED BY <2>1
<1> QED BY <1>1

\* The host refused the name: nothing has changed.
LEMMA OpenRefused ==
    ASSUME NEW s, NEW hold, NEW b, NEW due, J0(s, hold, b, due), NEW f \in Files, s.files[f].refcnt = 0,
           NEW t, t = file_decref([s EXCEPT !.files[f].refcnt = 2], f)
    PROVE  J0(t, hold, b, due) /\ Differ(s, t, {"files", "host"})
<1>0. Shape(s) /\ s.panic = FALSE /\ FileOK(s.fds, s.files, s.host, s.vmrs, hold) BY DEF J0
<1>1. s.files \in [Files -> FileEntry] /\ s.host \in [Files -> HostNames]
      /\ s.files[f].kfd \in {-1, f} /\ s.host[f] = "free" /\ s.files[f] \in FileEntry
  <2>1. s.files[f].refcnt > 0 <=> s.host[f] /= "free" BY <1>0 DEF FileOK
  <2> QED BY <1>0, <2>1 DEF FileOK
<1> DEFINE u == [s EXCEPT !.files[f].refcnt = 2]
           w == [u EXCEPT !.files[f].refcnt = 0]
<1>2. u.files[f].refcnt = 2 /\ u.files[f].kfd = s.files[f].kfd BY <1>0, <1>1 DEF Shape, Fields, FileEntry
<1>3. t = HostClose(w, s.files[f].kfd)
  <2> HIDE DEF w
  <2>1. t = HostClose([u EXCEPT !.files[f].refcnt = 0], u.files[f].kfd)
    <3>1. t = file_decref(u, f) OBVIOUS
    <3> HIDE DEF u
    <3> QED BY <3>1, <1>2 DEF file_decref
  <2> QED BY <2>1, <1>2 DEF w
<1>4. Shape(w) /\ w.panic = FALSE /\ Differ(s, w, {"files"}) /\ w.files = s.files
  <2>1. Shape(w) /\ w.panic = FALSE /\ Differ(s, w, {"files"}) BY <1>0 DEF Shape, Fields, Differ
  <2>2. w.files \in [Files -> FileEntry] /\ \A g \in Files : g /= f => w.files[g] = s.files[g]
    BY <1>0, <1>1 DEF Shape, Fields, FileEntry
  <2>3. w.files[f] = [kfd |-> s.files[f].kfd, refcnt |-> 0] BY <1>0, <1>1 DEF Shape, Fields, FileEntry
  <2>4. s.files[f] = [kfd |-> s.files[f].kfd, refcnt |-> 0] BY <1>1 DEF FileEntry
  <2>5. \A g \in Files : w.files[g] = s.files[g] BY <2>2, <2>3, <2>4
  <2> QED BY <1>1, <2>1, <2>2, <2>5
<1> HIDE DEF w, u
<1>5. w.host = s.host BY <1>4 DEF Differ, Fields
<1>6. Shape(t) /\ t.panic = FALSE /\ Differ(w, t, {"host"}) /\ t.host = s.host
  <2>1. CASE s.files[f].kfd \notin Files
    <3>1. t = w BY <2>1, <1>3 DEF HostClose
    <3> QED BY <3>1, <1>4, <1>5 DEF Differ
  <2>2. CASE s.files[f].kfd \in Files
    <3>1. s.files[f].kfd = f BY <2>2, <1>1, Finite DEF None
    <3>2. t = [w EXCEPT !.host[f] = "free"] BY <2>2, <3>1, <1>3 DEF HostClose
    <3>3. [s.host EXCEPT ![f] = "free"] = s.host BY <1>1
    <3> QED BY <3>2, <3>3, <1>4, <1>5 DEF Shape, Fields, Differ
  <2> QED BY <2>1, <2>2
<1>7. t.fds = s.fds /\ t.files = s.files /\ t.pte = s.pte /\ t.vmrs = s.vmrs
      /\ t.brk = s.brk /\ t.brk_min = s.brk_min /\ t.brk_max = s.brk_max /\ t.mmap_max = s.mmap_max
      /\ t.mem = s.mem /\ t.want = s.want /\ t.stale = s.stale /\ t.disk = s.disk
  BY <1>4, <1>6 DEF Differ, Fields
<1>8. J0(t, hold, b, due) BY <1>6, <1>7 DEF J0
<1>9. Differ(s, t, {"files", "host"}) BY <1>4, <1>6 DEF Differ
<1> QED BY <1>8, <1>9

\* The file that is opened is not one that anybody uses.
LEMMA OpenDone ==
    ASSUME NEW s, NEW hold, NEW b, NEW due, J0(s, hold, b, due), NEW f \in Files, s.files[f].refcnt = 0,
           NEW name \in HostNames \ {"free"}, NEW t, Shape(t), t.panic = FALSE, Differ(s, t, {"files", "host"}),
           t.files = [s.files EXCEPT ![f] = [kfd |-> f, refcnt |-> 2]],
           t.host = [s.host EXCEPT ![f] = name]
    PROVE  J0(t, More(hold, f), b, due)
<1>0. FileOK(s.fds, s.files, s.host, s.vmrs, hold) BY DEF J0
<1>1. FileOK(s.fds, t.files, t.host, s.vmrs, More(hold, f)) /\ Need(s.fds, s.vmrs, hold, f) = 0
  <2> DEFINE files2 == t.files
             host2 == t.host
  <2>1. files2 = [s.files EXCEPT ![f] = [kfd |-> f, refcnt |-> 2]] OBVIOUS
  <2>2. host2 = [s.host EXCEPT ![f] = name] OBVIOUS
  <2> HIDE DEF files2, host2
  <2>3. FileOK(s.fds, files2, host2, s.vmrs, More(hold, f)) /\ Need(s.fds, s.vmrs, hold, f) = 0
    BY ONLY <1>0, <2>1, <2>2, f \in Files, s.files[f].refcnt = 0, name \in HostNames \ {"free"}, FileTake
  <2> QED BY <2>3 DEF files2, host2
<1>2. t.fds = s.fds /\ t.pte = s.pte /\ t.vmrs = s.vmrs
      /\ t.brk = s.brk /\ t.brk_min = s.brk_min /\ t.brk_max = s.brk_max /\ t.mmap_max = s.mmap_max
      /\ t.mem = s.mem /\ t.want = s.want /\ t.stale = s.stale /\ t.disk = s.disk
  BY DEF Differ, Fields
<1>3. ContentOK(s.pte, s.vmrs, t.files, t.host, s.disk, s.mem, s.want)
  <2>1. MapOK(s.pte, s.vmrs, due) /\ ContentOK(s.pte, s.vmrs, s.files, s.host, s.disk, s.mem, s.want) BY DEF J0
  <2>2. ASSUME NEW v \in Vmrs, s.vmrs[v].refcnt >= 1
        PROVE  NameOf(t.files, t.host, s.vmrs[v].file) = NameOf(s.files, s.host, s.vmrs[v].file)
    <3> DEFINE g == s.vmrs[v].file
    <3>1. g \in Files \cup {None} /\ s.vmrs[v].refcnt \in Int BY <1>0 DEF FileOK, VmrEntry
    <3>2. CASE g = None BY <3>2 DEF NameOf
    <3>3. CASE g \in Files
      <4>1. MapsFile(s.vmrs[v], g) BY <2>2, <3>1 DEF MapsFile
      <4> HIDE DEF g
      <4>2. VmrUses(s.vmrs, g) >= 1 BY <4>1, VmrUsesIn
      <4>3. Need(s.fds, s.vmrs, hold, g) > 0 /\ s.files[g].refcnt > 0 BY <3>3, <4>2, <1>0, NeedIn
      <4>4. g /= f BY <4>3, <1>1
      <4>5. s.files[g].kfd = g BY <3>3, <4>3, <1>0 DEF FileOK
      <4>6. t.files[g] = s.files[g] /\ t.host[g] = s.host[g] BY <3>3, <4>4, <1>0 DEF FileOK
      <4>7. NameOf(t.files, t.host, g) = NameOf(s.files, s.host, g) BY <4>5, <4>6 DEF NameOf
      <4> QED BY <4>7 DEF g
    <3> QED BY <3>1, <3>2, <3>3
  <2> QED BY <2>1, <2>2, ContentKeep
<1> QED BY <1>1, <1>2, <1>3 DEF J0

\* file_openat gives the caller a reference to a file nobody else holds, or nothing.
LEMMA OpenOK ==
    ASSUME NEW s, NEW hold, NEW b, NEW due, J0(s, hold, b, due), NEW name,
           NEW o, o = file_openat(s, name)
    PROVE  /\ o.r \in Files \cup {None} /\ Differ(s, o.k, {"files", "host"})
           /\ o.r = None => J0(o.k, hold, b, due)
           /\ o.r \in Files => J0(o.k, More(hold, o.r), b, due)
<1> DEFINE free == {f \in Files : s.files[f].refcnt = 0}
           f == FirstOf(free)
           g == [k |-> [s EXCEPT !.files[f].refcnt = 2], r |-> f]
<1>0. Shape(s) /\ s.panic = FALSE /\ FileOK(s.fds, s.files, s.host, s.vmrs, hold) BY DEF J0
<1>n. None \notin Files BY Finite
<1>1. CASE free = {}
  <2>1. file_get_free(s) = [k |-> s, r |-> None] BY <1>1 DEF file_get_free
  <2>2. o = [k |-> s, r |-> None] BY <2>1 DEF file_openat
  <2> QED BY <2>2, <1>n DEF Differ
<1>2. CASE free /= {}
  <2>1. file_get_free(s) = g BY <1>2 DEF file_get_free
  <2>2. f \in Files /\ s.files[f].refcnt = 0
    <3>1. free \subseteq Nat BY Finite
    <3>2. f \in free
      <4> HIDE DEF free
      <4> QED BY <3>1, <1>2, FirstIn
    <3> QED BY <3>2
  <2>3. FirstOf({d \in Files : g.k.host[d] = "free"}) = f
    <3>1. g.k.host = s.host BY <1>0 DEF Shape, Fields
    <3>2. free = {d \in Files : s.host[d] = "free"} BY <1>0, LowestFree
    <3> HIDE DEF free
    <3> QED BY <3>1, <3>2
  <2> HIDE DEF f
  <2>4. g.r /= None BY <2>2, <1>n
  <2>5. CASE name \notin Names
    <3> DEFINE t == file_decref([s EXCEPT !.files[f].refcnt = 2], f)
    <3>1. o = [k |-> t, r |-> None] BY <2>1, <2>4, <2>5 DEF file_openat
    <3>2. J0(t, hold, b, due) /\ Differ(s, t, {"files", "host"}) BY <2>2, OpenRefused
    <3> HIDE DEF t
    <3> QED BY <3>1, <3>2, <1>n
  <2>6. CASE name \in Names
    <3> DEFINE t == [[s EXCEPT !.files[f].refcnt = 2] EXCEPT !.files[f].kfd = f, !.host[f] = name]
    <3>1. o = [g EXCEPT !.k.files[g.r].kfd = f, !.k.host[f] = name]
      BY <2>1, <2>4, <2>6, <2>3 DEF file_openat, HostOpen
    <3>2. o.k = t /\ o.r = f BY <3>1
    <3>3. Shape(t) /\ t.panic = FALSE /\ Differ(s, t, {"files", "host"})
          /\ t.host = [s.host EXCEPT ![f] = name]
      BY <1>0 DEF Shape, Fields, Differ
    <3>4. t.files = [s.files EXCEPT ![f] = [kfd |-> f, refcnt |-> 2]]
      <4>1. s.files \in [Files -> FileEntry] BY <1>0 DEF FileOK
      <4>2. t.files = [[s.files EXCEPT ![f].refcnt = 2] EXCEPT ![f].kfd = f] BY <1>0 DEF Shape, Fields
      <4>3. DOMAIN t.files = Files /\ \A e \in Files : e /= f => t.files[e] = s.files[e] BY <4>1, <4>2
      <4>4. t.files[f] = [kfd |-> f, refcnt |-> 2] BY <4>1, <4>2, <2>2 DEF FileEntry
      <4> HIDE DEF t
      <4> QED BY <4>1, <4>2, <4>3, <4>4, <2>2
    <3>5. name \in HostNames \ {"free"} BY <2>6, FileAssumption DEF HostNames, Names
    <3> HIDE DEF t
    <3>6. J0(t, More(hold, f), b, due) BY <2>2, <3>3, <3>4, <3>5, OpenDone
    <3> QED BY <3>2, <3>3, <3>6, <2>2, <1>n
  <2> QED BY <2>5, <2>6
<1> QED BY <1>1, <1>2

----------------------------------------------------------------------------
(* The pool of pages and the regions.                                      *)

\* The page pool touches only its own counters.
LEMMA PoolStay ==
    ASSUME NEW s, Shape(s), NEW a
    PROVE  /\ Shape(__page_alloc(s)) /\ (s.panic => __page_alloc(s).panic)
           /\ Differ(s, __page_alloc(s), {"next", "used", "panic"})
           /\ Shape(__page_alloc1(s)) /\ (s.panic => __page_alloc1(s).panic)
           /\ Differ(s, __page_alloc1(s), {"next", "used", "panic"})
           /\ Shape(__walk_create(s, a)) /\ (s.panic => __walk_create(s, a).panic)
           /\ Differ(s, __walk_create(s, a), {"tabs", "next", "used", "panic"})
<1>1. /\ Shape(__page_alloc(s)) /\ (s.panic => __page_alloc(s).panic)
      /\ Differ(s, __page_alloc(s), {"next", "used", "panic"})
  BY DEF Shape, Fields, Differ, __page_alloc, kassert, Panic, Handed
<1>2. /\ Shape(__page_alloc1(s)) /\ (s.panic => __page_alloc1(s).panic)
      /\ Differ(s, __page_alloc1(s), {"next", "used", "panic"})
  BY DEF Shape, Fields, Differ, __page_alloc1, kassert, Panic, Handed
<1> DEFINE x == PageOf(a) \div TableSpan
           w == __page_alloc(s)
           t == __walk_create(s, a)
<1>3. t = s \/ t = [w EXCEPT !.tabs = @ \cup {x}] BY DEF __walk_create
<1> HIDE DEF w, t, x
<1>4. Shape(w) /\ (s.panic => w.panic) /\ Differ(s, w, {"next", "used", "panic"}) BY <1>1 DEF w
<1>5. Shape(t) /\ (s.panic => t.panic) /\ Differ(s, t, {"tabs", "next", "used", "panic"})
  <2>1. CASE t = s BY <2>1 DEF Differ
  <2>2. CASE t = [w EXCEPT !.tabs = @ \cup {x}]
    <3>1. Shape(t) /\ t.panic = w.panic /\ Differ(w, t, {"tabs"}) BY <2>2, <1>4 DEF Shape, Fields, Differ
    <3> QED BY <3>1, <1>4 DEF Differ
  <2> QED BY <2>1, <2>2, <1>3
<1> QED BY <1>1, <1>2, <1>5 DEF t

\* Taking pages from the pool is not seen by the invariant.
LEMMA PoolOK ==
    ASSUME NEW s, NEW hold, NEW b, NEW due, J0(s, hold, b, due), NEW t, Shape(t), t.panic = FALSE,
           Differ(s, t, {"tabs", "next", "used", "panic", "vmrs0"})
    PROVE  J0(t, hold, b, due)
<1>1. \A x \in Told : t[x] = s[x] BY DEF Differ, Fields, Told
<1> QED BY <1>1, J0Frame

\* The references held before pay for the region and those held after.
VmrTrade(vmrs, v, e, hold, hold2) ==
    \A f \in Files : (IF MapsFile(e, f) THEN 1 ELSE 0) + hold2[f] <= (IF MapsFile(vmrs[v], f) THEN 1 ELSE 0) + hold[f]
VmrSet(s, t, v, e) == t = [s EXCEPT !.vmrs[v] = e]
SameRegion(d, e) == d.addr = e.addr /\ d.length = e.length /\ d.file = e.file /\ d.offset = e.offset

\* A region's entry alone changes.
LEMMA VmrFrame ==
    ASSUME NEW s, NEW hold, NEW b, NEW due, J0(s, hold, b, due), NEW v \in Vmrs, NEW e \in VmrEntry,
           NEW hold2 \in [Files -> Nat], VmrTrade(s.vmrs, v, e, hold, hold2),
           NEW due2 \in [Vmrs -> Nat], \A u \in Vmrs : u /= v => due2[u] = due[u],
           e.refcnt - due2[v] = s.vmrs[v].refcnt - due[v],
           SameRegion(s.vmrs[v], e) \/ \A p \in VPages : s.pte[p].vmr /= v,
           NEW t, VmrSet(s, t, v, e)
    PROVE  J0(t, hold2, b, due2) /\ Differ(s, t, {"vmrs"}) /\ t.vmrs[v] = e
           /\ \A u \in Vmrs : u /= v => t.vmrs[u] = s.vmrs[u]
<1>0. FileOK(s.fds, s.files, s.host, s.vmrs, hold) /\ MapOK(s.pte, s.vmrs, due)
      /\ ContentOK(s.pte, s.vmrs, s.files, s.host, s.disk, s.mem, s.want)
  BY DEF J0
<1>1. Shape(t) /\ t.panic = FALSE /\ Differ(s, t, {"vmrs"}) /\ t.vmrs = [s.vmrs EXCEPT ![v] = e]
  BY DEF J0, Shape, Fields, Differ, VmrSet
<1>2. t.vmrs[v] = e /\ \A u \in Vmrs : u /= v => t.vmrs[u] = s.vmrs[u] BY <1>0, <1>1 DEF FileOK
<1>3. FileOK(s.fds, s.files, s.host, t.vmrs, hold2) BY <1>0, <1>1, FileVmr DEF VmrTrade
<1>4. MapOK(s.pte, t.vmrs, due2) BY <1>0, <1>1, MapVmr
<1>5. t.fds = s.fds /\ t.files = s.files /\ t.host = s.host /\ t.pte = s.pte
      /\ t.brk = s.brk /\ t.brk_min = s.brk_min /\ t.brk_max = s.brk_max /\ t.mmap_max = s.mmap_max
      /\ t.mem = s.mem /\ t.want = s.want /\ t.stale = s.stale /\ t.disk = s.disk
  BY <1>1 DEF Differ, Fields
<1>6. ContentOK(s.pte, t.vmrs, s.files, s.host, s.disk, s.mem, s.want)
  <2>1. ASSUME NEW p \in VPages, s.pte[p].vmr /= 0
        PROVE  Awaits(s.disk, s.want[p], Promise(p, t.vmrs[s.pte[p].vmr], s.files, s.host))
    <3>1. Awaits(s.disk, s.want[p], Promise(p, s.vmrs[s.pte[p].vmr], s.files, s.host)) BY <1>0, <2>1 DEF ContentOK
    <3>2. s.pte[p].vmr \in Vmrs BY <1>0, <2>1, MapUse
    <3>3. CASE s.pte[p].vmr /= v BY <3>1, <3>2, <3>3, <1>2
    <3>4. CASE s.pte[p].vmr = v
      <4>1. SameRegion(s.vmrs[v], e) BY <3>4
      <4> QED BY <3>1, <3>4, <4>1, <1>2 DEF SameRegion, Promise
    <3> QED BY <3>3, <3>4
  <2> QED BY <2>1, <1>0 DEF ContentOK
<1> QED BY <1>1, <1>2, <1>3, <1>4, <1>5, <1>6 DEF J0

\* __vmr_decref changes the region, and the file that it may give up.
LEMMA VmrDecrefStay ==
    ASSUME NEW s, Shape(s), NEW v
    PROVE  /\ Shape(__vmr_decref(s, v)) /\ __vmr_decref(s, v).panic = s.panic
           /\ Differ(s, __vmr_decref(s, v), {"vmrs", "files", "host"})
<1> DEFINE u == [s EXCEPT !.vmrs[v].refcnt = @ - 1]
           e == u.vmrs[v]
           t == __vmr_decref(s, v)
<1>1. Shape(u) /\ u.panic = s.panic /\ Differ(s, u, {"vmrs"}) BY DEF Shape, Fields, Differ
<1>2. t = u \/ t = file_decref(u, e.file) BY DEF __vmr_decref
<1> HIDE DEF u, t, e
<1>3. CASE t = u BY <1>3, <1>1 DEF Differ, t
<1>4. CASE t = file_decref(u, e.file)
  <2>1. Shape(t) /\ t.panic = u.panic /\ Differ(u, t, {"files", "host"}) BY <1>1, <1>4, FileStay
  <2>2. Differ(s, t, {"vmrs", "files", "host"}) BY <2>1, <1>1 DEF Differ
  <2> QED BY <2>1, <2>2, <1>1 DEF t
<1> QED BY <1>2, <1>3, <1>4

\* One page less to be entered.
LEMMA DueLess ==
    ASSUME NEW due \in [Vmrs -> Nat], NEW v \in Vmrs, due[v] >= 1
    PROVE  /\ Less(due, v) \in [Vmrs -> Nat] /\ Less(due, v)[v] = due[v] - 1
           /\ \A u \in Vmrs : u /= v => Less(due, v)[u] = due[u]
<1>1. due[v] \in Nat OBVIOUS
<1> QED BY <1>1 DEF Less

\* A region loses a page that waited for its first access.
LEMMA VmrDecrefOK ==
    ASSUME NEW s, NEW hold, NEW b, NEW due, J0(s, hold, b, due), NEW v \in Vmrs, due[v] >= 1,
           NEW t, t = __vmr_decref(s, v)
    PROVE  /\ J0(t, hold, b, Less(due, v)) /\ Differ(s, t, {"vmrs", "files", "host"}) /\ Held(s, t, hold)
           /\ \A u \in Vmrs : SameRegion(s.vmrs[u], t.vmrs[u])
           /\ \A u \in Vmrs : t.vmrs[u].prot = s.vmrs[u].prot
<1> DEFINE e == [s.vmrs[v] EXCEPT !.refcnt = @ - 1]
           f == e.file
           u == [s EXCEPT !.vmrs[v].refcnt = @ - 1]
<1>0. FileOK(s.fds, s.files, s.host, s.vmrs, hold) /\ MapOK(s.pte, s.vmrs, due)
      /\ hold \in [Files -> Nat] /\ due \in [Vmrs -> Nat] /\ Shape(s) /\ s.panic = FALSE
  BY DEF J0, FileOK, MapOK
<1>1. s.vmrs[v] \in VmrEntry /\ s.vmrs \in [Vmrs -> VmrEntry] BY <1>0 DEF FileOK
<1>2. e \in VmrEntry /\ SameRegion(s.vmrs[v], e) /\ e.refcnt = s.vmrs[v].refcnt - 1 /\ f = s.vmrs[v].file
      /\ e.prot = s.vmrs[v].prot
  BY <1>1 DEF VmrEntry, SameRegion
<1>3. u = [s EXCEPT !.vmrs[v] = e] OBVIOUS
<1>4. s.vmrs[v].refcnt >= 1 /\ s.vmrs[v].refcnt \in Int
  <2>1. Waiting(s.pte, v) \in Nat /\ s.vmrs[v].refcnt = Waiting(s.pte, v) + due[v] /\ due[v] \in Nat
    BY <1>0, WaitingNat DEF MapOK
  <2> QED BY <2>1
<1>5. /\ Less(due, v) \in [Vmrs -> Nat] /\ Less(due, v)[v] = due[v] - 1
      /\ \A w \in Vmrs : w /= v => Less(due, v)[w] = due[w]
  BY <1>0, DueLess
<1>6. e.refcnt - Less(due, v)[v] = s.vmrs[v].refcnt - due[v]
  <2>1. due[v] \in Nat BY <1>0
  <2> QED BY <2>1, <1>2, <1>4, <1>5
<1>7. f \in Files \cup {None} BY <1>1, <1>2 DEF VmrEntry
<1>8. t = (IF e.refcnt = 0 /\ f /= None THEN file_decref(u, f) ELSE u)
  <2>1. u.vmrs[v] = e BY <1>0, <1>1, <1>3 DEF Shape, Fields
  <2> HIDE DEF e
  <2>2. t = (IF u.vmrs[v].refcnt = 0 /\ u.vmrs[v].file /= None THEN file_decref(u, u.vmrs[v].file) ELSE u)
    BY DEF __vmr_decref
  <2> QED BY <2>1, <2>2
<1>9. VmrSet(s, u, v, e) BY <1>3 DEF VmrSet
<1> HIDE DEF e, f, u
<1>10. CASE e.refcnt = 0 /\ f /= None
  <2>1. f \in Files BY <1>10, <1>7
  <2>2. More(hold, f) \in [Files -> Nat] /\ More(hold, f)[f] = hold[f] + 1 /\ Less(More(hold, f), f) = hold
        /\ \A g \in Files : g /= f => More(hold, f)[g] = hold[g]
    BY <2>1, <1>0, MoreLess
  <2>3. VmrTrade(s.vmrs, v, e, hold, More(hold, f))
    <3>1. ASSUME NEW g \in Files
          PROVE  (IF MapsFile(e, g) THEN 1 ELSE 0) + More(hold, f)[g] <= (IF MapsFile(s.vmrs[v], g) THEN 1 ELSE 0) + hold[g]
      <4>1. hold[g] \in Nat BY <1>0
      <4>2. ~MapsFile(e, g) BY <1>10 DEF MapsFile
      <4>3. g = f => MapsFile(s.vmrs[v], g) BY <1>2, <1>4 DEF MapsFile
      <4> QED BY <4>1, <4>2, <4>3, <2>2
    <3> QED BY <3>1 DEF VmrTrade
  <2>4. J0(u, More(hold, f), b, Less(due, v)) /\ Differ(s, u, {"vmrs"}) /\ u.vmrs[v] = e
        /\ \A w \in Vmrs : w /= v => u.vmrs[w] = s.vmrs[w]
    BY <1>2, <1>5, <1>6, <1>9, <2>2, <2>3, VmrFrame
  <2>5. More(hold, f)[f] >= 1
    <3>1. hold[f] \in Nat BY <1>0, <2>1
    <3> QED BY <3>1, <2>2
  <2>6. t = file_decref(u, f) BY <1>8, <1>10
  <2>7. J0(t, hold, b, Less(due, v)) /\ Differ(u, t, {"files", "host"}) /\ Held(u, t, hold)
    BY <2>1, <2>2, <2>4, <2>5, <2>6, DecrefOK
  <2>8. t.vmrs = u.vmrs /\ u.files = s.files /\ u.host = s.host BY <2>4, <2>7 DEF Differ, Fields
  <2>9. Held(s, t, hold) BY <2>7, <2>8 DEF Held
  <2>10. Differ(s, t, {"vmrs", "files", "host"}) BY <2>4, <2>7 DEF Differ
  <2>11. \A w \in Vmrs : SameRegion(s.vmrs[w], t.vmrs[w]) /\ t.vmrs[w].prot = s.vmrs[w].prot
    BY <2>4, <2>8, <1>2 DEF SameRegion
  <2> QED BY <2>7, <2>9, <2>10, <2>11
<1>11. CASE ~(e.refcnt = 0 /\ f /= None)
  <2>3. VmrTrade(s.vmrs, v, e, hold, hold)
    <3>1. ASSUME NEW g \in Files
          PROVE  (IF MapsFile(e, g) THEN 1 ELSE 0) + hold[g] <= (IF MapsFile(s.vmrs[v], g) THEN 1 ELSE 0) + hold[g]
      <4>1. hold[g] \in Nat BY <1>0
      <4>2. MapsFile(e, g) => MapsFile(s.vmrs[v], g) BY <1>2, <1>4 DEF MapsFile, SameRegion
      <4> QED BY <4>1, <4>2
    <3> QED BY <3>1 DEF VmrTrade
  <2>4. J0(u, hold, b, Less(due, v)) /\ Differ(s, u, {"vmrs"}) /\ u.vmrs[v] = e
        /\ \A w \in Vmrs : w /= v => u.vmrs[w] = s.vmrs[w]
    BY <1>0, <1>2, <1>5, <1>6, <1>9, <2>3, VmrFrame
  <2>6. t = u BY <1>8, <1>11
  <2>8. u.files = s.files /\ u.host = s.host BY <2>4 DEF Differ, Fields
  <2>9. Held(s, t, hold) BY <2>6, <2>8 DEF Held
  <2>10. Differ(s, t, {"vmrs", "files", "host"}) BY <2>4, <2>6 DEF Differ
  <2>11. \A w \in Vmrs : SameRegion(s.vmrs[w], t.vmrs[w]) /\ t.vmrs[w].prot = s.vmrs[w].prot
    BY <2>4, <2>6, <1>2 DEF SameRegion
  <2> QED BY <2>4, <2>6, <2>9, <2>10, <2>11
<1> QED BY <1>10, <1>11

\* What is due pays for a page that comes to refer to region j instead of i.
DueTrade(i, j, due, due2) ==
    \A v \in Vmrs : due2[v] + (IF j = v THEN 1 ELSE 0) = due[v] + (IF i = v THEN 1 ELSE 0)

\* A page p may become x; s and t differ in that page alone, and t keeps what x promises.
PageFits(p, x) ==
    /\ p \in VPages /\ p \notin KernelRange /\ x \in PteEntry /\ PteFit(x)
    /\ "U" \in x.bits => p * PGSIZE < Max0
PageStep(s, t, p, x) ==
    /\ Shape(t) /\ t.panic = FALSE /\ Differ(s, t, {"pte", "mem", "want", "tlb"})
    /\ t.pte = [s.pte EXCEPT ![p] = x]
    /\ DOMAIN t.mem = VPages /\ DOMAIN t.want = VPages
    /\ \A q \in VPages : q /= p => t.mem[q] = s.mem[q] /\ t.want[q] = s.want[q]
    /\ Formed(t.mem[p], t.want[p])
    /\ "V" \in x.bits => Shows(t.mem[p], t.want[p])
    /\ x.vmr /= 0 => Awaits(t.disk, t.want[p], Promise(p, s.vmrs[x.vmr], s.files, s.host))

\* One page changes.
LEMMA PageFrame ==
    ASSUME NEW s, NEW hold, NEW b, NEW due, J0(s, hold, b, due), NEW p, NEW x, PageFits(p, x),
           NEW due2 \in [Vmrs -> Nat], DueTrade(s.pte[p].vmr, x.vmr, due, due2),
           NEW t, PageStep(s, t, p, x)
    PROVE  J0(t, hold, b, due2) /\ t.pte[p] = x /\ \A q \in VPages : q /= p => t.pte[q] = s.pte[q]
<1>0. /\ MapOK(s.pte, s.vmrs, due) /\ s.pte \in [VPages -> PteEntry]
      /\ KernelOK(s.pte, s.mmap_max)
      /\ ContentOK(s.pte, s.vmrs, s.files, s.host, s.disk, s.mem, s.want)
  BY DEF J0, MapOK
<1> USE DEF PageFits, PageStep
<1>d. t.disk = s.disk BY DEF Differ, Fields
<1>1. t.pte[p] = x /\ \A q \in VPages : q /= p => t.pte[q] = s.pte[q] BY <1>0
<1>2. MapOK(t.pte, s.vmrs, due2) BY <1>0, MapSet DEF DueTrade
<1>3. KernelOK(t.pte, s.mmap_max) BY <1>0, <1>1 DEF KernelOK
<1>4. ContentOK(t.pte, s.vmrs, s.files, s.host, t.disk, t.mem, t.want)
  <2>1. ASSUME NEW q \in VPages
        PROVE  /\ Formed(t.mem[q], t.want[q])
               /\ "V" \in t.pte[q].bits => Shows(t.mem[q], t.want[q])
               /\ t.pte[q].vmr /= 0 => Awaits(t.disk, t.want[q], Promise(q, s.vmrs[t.pte[q].vmr], s.files, s.host))
    <3>1. CASE q = p BY <3>1, <1>1
    <3>2. CASE q /= p BY <3>2, <1>0, <1>1, <1>d DEF ContentOK
    <3> QED BY <3>1, <3>2
  <2> QED BY <2>1 DEF ContentOK
<1>5. t.fds = s.fds /\ t.files = s.files /\ t.host = s.host /\ t.vmrs = s.vmrs
      /\ t.brk = s.brk /\ t.brk_min = s.brk_min /\ t.brk_max = s.brk_max /\ t.mmap_max = s.mmap_max
      /\ t.stale = s.stale
  BY DEF Differ, Fields
<1> QED BY <1>1, <1>2, <1>3, <1>4, <1>5, <1>d DEF J0

\* __vmr_alloc changes the pool, the region and its file's count.
LEMMA VmrAllocStay ==
    ASSUME NEW s, Shape(s), NEW addr, NEW length, NEW file, NEW offset, NEW refcnt, NEW prot,
           NEW m, m = __vmr_alloc(s, addr, length, file, offset, refcnt, prot)
    PROVE  /\ Shape(m.k) /\ (s.panic => m.k.panic)
           /\ Differ(s, m.k, {"vmrs0", "next", "used", "panic", "files", "vmrs"})
<1> DEFINE entry == [addr |-> addr, length |-> length, file |-> file,
                     offset |-> offset, refcnt |-> refcnt, prot |-> prot]
           w == __page_alloc1(s)
           t == IF s.vmrs0 THEN s ELSE [w EXCEPT !.vmrs0 = TRUE]
           v == FirstOf({i \in Vmrs : t.vmrs[i].refcnt = 0})
           u == IF file = None THEN t ELSE file_incref(t, file)
           r == [u EXCEPT !.vmrs[v] = entry]
<1>1. m.k = t \/ m.k = r BY DEF __vmr_alloc
<1>2. Shape(w) /\ (s.panic => w.panic) /\ Differ(s, w, {"next", "used", "panic"}) BY PoolStay
<1> HIDE DEF w
<1>3. Shape(t) /\ (s.panic => t.panic) /\ Differ(s, t, {"vmrs0", "next", "used", "panic"})
  <2>1. CASE s.vmrs0 BY <2>1 DEF Differ
  <2>2. CASE ~s.vmrs0
    <3>1. t = [w EXCEPT !.vmrs0 = TRUE] BY <2>2
    <3> HIDE DEF t
    <3> QED BY <3>1, <1>2 DEF Shape, Fields, Differ
  <2> QED BY <2>1, <2>2
<1> HIDE DEF t, v, entry
<1>4. Shape(u) /\ (t.panic => u.panic) /\ Differ(t, u, {"files", "panic"})
  <2>1. CASE file = None BY <2>1, <1>3 DEF Differ
  <2>2. CASE file /= None BY <2>2, <1>3, FileStay
  <2> QED BY <2>1, <2>2
<1> HIDE DEF u
<1>5. Shape(r) /\ (u.panic => r.panic) /\ Differ(u, r, {"vmrs"}) BY <1>4 DEF Shape, Fields, Differ
<1> HIDE DEF r
<1>6. Differ(s, r, {"vmrs0", "next", "used", "panic", "files", "vmrs"}) BY <1>3, <1>4, <1>5 DEF Differ
<1>7. Differ(s, t, {"vmrs0", "next", "used", "panic", "files", "vmrs"}) BY <1>3 DEF Differ
<1> QED BY <1>1, <1>3, <1>4, <1>5, <1>6, <1>7

\* A region that is taken was free, and refers to nothing yet.
LEMMA VmrAllocOK ==
    ASSUME NEW s, NEW hold, NEW b, NEW due, J0(s, hold, b, due),
           NEW addr \in Int, NEW length \in Int, NEW file \in Files \cup {None}, NEW offset \in Int,
           NEW refcnt \in Nat, NEW prot \in SUBSET RWX, file = None \/ hold[file] >= 1,
           NEW m, m = __vmr_alloc(s, addr, length, file, offset, refcnt, prot), Live(m.k)
    PROVE  /\ m.r \in {0} \cup Vmrs
           /\ m.r = 0 => J0(m.k, hold, b, due) /\ Held(s, m.k, hold)
           /\ m.r /= 0 =>
                /\ due[m.r] = 0 /\ \A p \in VPages : s.pte[p].vmr /= m.r
                /\ [due EXCEPT ![m.r] = refcnt] \in [Vmrs -> Nat]
                /\ J0(m.k, hold, b, [due EXCEPT ![m.r] = refcnt]) /\ Held(s, m.k, hold)
                /\ m.k.vmrs[m.r] = [addr |-> addr, length |-> length, file |-> file,
                                    offset |-> offset, refcnt |-> refcnt, prot |-> prot]
<1> DEFINE entry == [addr |-> addr, length |-> length, file |-> file,
                     offset |-> offset, refcnt |-> refcnt, prot |-> prot]
           w == __page_alloc1(s)
           t == IF s.vmrs0 THEN s ELSE [w EXCEPT !.vmrs0 = TRUE]
           free == {i \in Vmrs : t.vmrs[i].refcnt = 0}
           v == FirstOf(free)
           u == IF file = None THEN t ELSE file_incref(t, file)
           r == [u EXCEPT !.vmrs[v] = entry]
           due2 == [due EXCEPT ![v] = refcnt]
<1>0. Shape(s) /\ s.panic = FALSE /\ hold \in [Files -> Nat] /\ due \in [Vmrs -> Nat]
      /\ FileOK(s.fds, s.files, s.host, s.vmrs, hold) /\ MapOK(s.pte, s.vmrs, due)
  BY DEF J0, FileOK, MapOK
<1>1. m = (IF free = {} THEN [k |-> t, r |-> 0] ELSE [k |-> r, r |-> v]) BY DEF __vmr_alloc
<1>2. Shape(t) /\ (t.panic => m.k.panic) /\ Differ(s, t, {"vmrs0", "next", "used", "panic"})
  <2>1. Shape(w) /\ Differ(s, w, {"next", "used", "panic"}) BY <1>0, PoolStay
  <2> HIDE DEF w
  <2>2. Shape(t) /\ Differ(s, t, {"vmrs0", "next", "used", "panic"})
    <3>1. CASE s.vmrs0 BY <3>1, <1>0 DEF Differ
    <3>2. CASE ~s.vmrs0
      <4>1. t = [w EXCEPT !.vmrs0 = TRUE] BY <3>2
      <4> HIDE DEF t
      <4> QED BY <4>1, <2>1 DEF Shape, Fields, Differ
    <3> QED BY <3>1, <3>2
  <2> HIDE DEF t
  <2>3. t.panic => m.k.panic
    <3>1. CASE free = {} BY <3>1, <1>1
    <3>2. CASE free /= {}
      <4>1. Shape(u) /\ (t.panic => u.panic)
        <5>1. CASE file = None BY <5>1, <2>2
        <5>2. CASE file /= None BY <5>2, <2>2, FileStay
        <5> QED BY <5>1, <5>2
      <4> HIDE DEF u, entry, v
      <4>2. r.panic = u.panic BY <4>1 DEF Shape, Fields
      <4> QED BY <4>1, <4>2, <3>2, <1>1
    <3> QED BY <3>1, <3>2
  <2> QED BY <2>2, <2>3
<1>3. t.panic = FALSE
  <2>1. m.k.panic = FALSE BY DEF Live
  <2> QED BY <2>1, <1>2 DEF Shape
<1>4. J0(t, hold, b, due)
  <2>1. Differ(s, t, {"tabs", "next", "used", "panic", "vmrs0"}) BY <1>2 DEF Differ
  <2> HIDE DEF t
  <2> QED BY <2>1, <1>2, <1>3, PoolOK
<1>5. t.vmrs = s.vmrs /\ t.pte = s.pte /\ t.files = s.files /\ t.host = s.host /\ t.fds = s.fds
  BY <1>2 DEF Differ, Fields
<1> HIDE DEF t, w
<1>6. CASE free = {}
  <2>1. Held(s, t, hold) BY <1>5 DEF Held
  <2> QED BY <2>1, <1>6, <1>1, <1>4
<1>7. CASE free /= {}
  <2>1. v \in Vmrs /\ t.vmrs[v].refcnt = 0 /\ v /= 0
    <3>1. free \subseteq Nat BY Finite
    <3>2. v \in free
      <4> HIDE DEF free
      <4> QED BY <3>1, <1>7, FirstIn
    <3> QED BY <3>2, Finite
  <2>2. m.k = r /\ m.r = v BY <1>1, <1>7
  <2> HIDE DEF v, free
  <2>3. due[v] = 0 /\ \A p \in VPages : s.pte[p].vmr /= v
    <3>1. s.vmrs[v].refcnt = Waiting(s.pte, v) + due[v] /\ due[v] \in Nat BY <1>0, <2>1 DEF MapOK
    <3>2. Waiting(s.pte, v) \in Nat /\ \A p \in VPages : s.pte[p].vmr = v => Waiting(s.pte, v) >= 1 BY WaitingNat
    <3>3. Waiting(s.pte, v) = 0 /\ due[v] = 0 BY <3>1, <3>2, <2>1, <1>5
    <3> QED BY <3>2, <3>3
  <2>4. due2 \in [Vmrs -> Nat] /\ due2[v] = refcnt /\ \A x \in Vmrs : x /= v => due2[x] = due[x]
    BY <1>0, <2>1
  <2>5. entry \in VmrEntry /\ entry.refcnt = refcnt /\ entry.file = file BY DEF VmrEntry
  <2>6. entry.refcnt - due2[v] = t.vmrs[v].refcnt - due[v] BY <2>1, <2>3, <2>4, <2>5
  <2>v. \A f \in Files : ~MapsFile(t.vmrs[v], f) BY <2>1 DEF MapsFile
  <2>e. \A f \in Files : MapsFile(entry, f) => f = file BY <2>5 DEF MapsFile
  <2>7. J0(r, hold, b, due2) /\ Differ(u, r, {"vmrs"}) /\ r.vmrs[v] = entry /\ Held(s, u, hold)
    <3>1. CASE file = None
      <4>1. VmrTrade(u.vmrs, v, entry, hold, hold)
        <5>1. ASSUME NEW f \in Files
              PROVE  (IF MapsFile(entry, f) THEN 1 ELSE 0) + hold[f] <= (IF MapsFile(u.vmrs[v], f) THEN 1 ELSE 0) + hold[f]
          <6>1. hold[f] \in Nat BY <1>0
          <6>2. ~MapsFile(entry, f) BY <3>1, <2>e, Finite
          <6> QED BY <6>1, <6>2
        <5> QED BY <5>1 DEF VmrTrade
      <4>2. u = t BY <3>1
      <4>3. VmrSet(u, r, v, entry) BY DEF VmrSet
      <4>4. Held(s, u, hold) BY <4>2, <1>5 DEF Held
      <4>5. \A p \in VPages : u.pte[p].vmr /= v BY <4>2, <1>5, <2>3
      <4> HIDE DEF u, r, entry, due2
      <4> QED BY <4>1, <4>2, <4>3, <4>4, <4>5, <1>0, <1>4, <2>1, <2>4, <2>5, <2>6, VmrFrame
    <3>2. CASE file /= None
      <4>1. file \in Files /\ hold[file] >= 1 BY <3>2
      <4>2. Need(t.fds, t.vmrs, hold, file) > 0 /\ t.files[file].refcnt > 1 /\ t.files[file].refcnt > 0
        BY <4>1, <1>0, <1>5, NeedIn
      <4>3. u = file_incref(t, file) BY <3>2
      <4>4. VmrSet(u, r, v, entry) BY DEF VmrSet
      <4> HIDE DEF u, r, entry, due2
      <4>5. J0(u, More(hold, file), b, due) /\ Differ(t, u, {"files"}) /\ Held(t, u, More(hold, file))
        BY <1>4, <4>1, <4>2, <4>3, IncrefOK
      <4>6. More(hold, file) \in [Files -> Nat] /\ More(hold, file)[file] = hold[file] + 1
            /\ \A g \in Files : g /= file => More(hold, file)[g] = hold[g]
        BY <1>0, <4>1, MoreLess
      <4>7. u.vmrs = s.vmrs /\ u.pte = s.pte /\ u.host = s.host BY <4>5, <1>5 DEF Differ, Fields
      <4>8. VmrTrade(u.vmrs, v, entry, More(hold, file), hold)
        <5>1. ASSUME NEW f \in Files
              PROVE  (IF MapsFile(entry, f) THEN 1 ELSE 0) + hold[f]
                       <= (IF MapsFile(u.vmrs[v], f) THEN 1 ELSE 0) + More(hold, file)[f]
          <6>1. hold[f] \in Nat BY <1>0
          <6>2. CASE f = file BY <6>1, <6>2, <4>6
          <6>3. CASE f /= file BY <6>1, <6>3, <4>6, <2>e
          <6> QED BY <6>2, <6>3
        <5> QED BY <5>1 DEF VmrTrade
      <4>9. \A p \in VPages : u.pte[p].vmr /= v BY <4>7, <2>3
      <4>10. entry.refcnt - due2[v] = u.vmrs[v].refcnt - due[v] BY <2>6, <1>5, <4>7
      <4>11. J0(r, hold, b, due2) /\ Differ(u, r, {"vmrs"}) /\ r.vmrs[v] = entry
        BY <4>4, <4>5, <4>8, <4>9, <4>10, <1>0, <2>1, <2>4, <2>5, VmrFrame
      <4>12. Held(s, u, hold)
        <5>1. \A f \in Files : hold[f] \in Nat BY <1>0
        <5>2. \A f \in Files : hold[f] >= 1 => More(hold, file)[f] >= 1 BY <5>1, <4>6
        <5> QED BY <5>2, <4>5, <1>5 DEF Held
      <4> QED BY <4>11, <4>12
    <3> QED BY <3>1, <3>2
  <2> HIDE DEF u, r, due2
  <2>8. r.files = u.files /\ r.host = u.host BY <2>7 DEF Differ, Fields
  <2>9. Held(s, r, hold) BY <2>7, <2>8 DEF Held
  <2>10. J0(r, hold, b, [due EXCEPT ![v] = refcnt]) /\ [due EXCEPT ![v] = refcnt] \in [Vmrs -> Nat]
    BY <2>4, <2>7 DEF due2
  <2> QED BY <2>1, <2>2, <2>3, <2>7, <2>9, <2>10
<1> QED BY <1>6, <1>7

----------------------------------------------------------------------------
(* Loops over the pages of a range.                                        *)

\* The steps are the addresses below the end, a page apart.
LEMMA StepsAre ==
    ASSUME NEW addr \in Int, NEW len \in Int
    PROVE  \E n \in Nat :
              /\ DOMAIN Steps(addr, len) = 1 .. n
              /\ \A i \in 1 .. n : /\ Steps(addr, len)[i] = addr + (i - 1) * PGSIZE
                                   /\ addr + (i - 1) * PGSIZE < Plus(addr, len)
              /\ \A i \in Nat \ {0} : addr + (i - 1) * PGSIZE < Plus(addr, len) => i <= n
<1>1. PGSIZE \in Nat /\ PGSIZE > 0 BY MmapAssumption
<1> DEFINE e == Plus(addr, len)
           D == e - addr + PGSIZE - 1
           d == PageOf(D)
           n == IF d < 0 THEN 0 ELSE d
<1>2. e \in Int BY MaxFacts DEF Plus
<1> HIDE DEF e
<1>3. D \in Int BY <1>1, <1>2
<1>4. d \in Int /\ d * PGSIZE \in Int /\ d * PGSIZE <= D /\ D < d * PGSIZE + PGSIZE BY <1>3, PageSplit
<1>5. Steps(addr, len) = [j \in 1 .. d |-> addr + (j - 1) * PGSIZE] BY DEF Steps, PageOf, e
<1> HIDE DEF d
<1>6. 1 .. d = 1 .. n /\ n \in Nat BY <1>4
<1>7. ASSUME NEW i \in 1 .. n PROVE addr + (i - 1) * PGSIZE < e
  <2>1. i \in Int /\ i >= 1 /\ i <= d BY <1>4
  <2>2. i * PGSIZE <= d * PGSIZE
    <3>1. CASE i = d BY <3>1, <1>4
    <3>2. CASE i < d
      <4>1. i * PGSIZE + PGSIZE <= d * PGSIZE BY <2>1, <1>4, <3>2, TimesMono
      <4>2. i * PGSIZE \in Int BY <2>1, <1>1
      <4> QED BY <4>1, <4>2, <1>1, <1>4
    <3> QED BY <3>1, <3>2, <2>1, <1>4
  <2>3. i * PGSIZE \in Int /\ (i - 1) * PGSIZE = i * PGSIZE - PGSIZE BY <2>1, <1>1
  <2> QED BY <2>2, <2>3, <1>1, <1>2, <1>4
<1>8. ASSUME NEW i \in Nat \ {0}, addr + (i - 1) * PGSIZE < e PROVE i <= n
  <2> SUFFICES ASSUME d < i PROVE FALSE BY <1>4
  <2>1. d * PGSIZE + PGSIZE <= i * PGSIZE BY <1>4, TimesMono
  <2>2. i * PGSIZE \in Int /\ (i - 1) * PGSIZE = i * PGSIZE - PGSIZE BY <1>1
  <2> QED BY <2>1, <2>2, <1>1, <1>2, <1>4, <1>8
<1>9. DOMAIN Steps(addr, len) = 1 .. n BY <1>5, <1>6
<1>10. \A i \in 1 .. n : Steps(addr, len)[i] = addr + (i - 1) * PGSIZE BY <1>5, <1>6
<1> HIDE DEF n
<1> QED BY <1>6, <1>7, <1>8, <1>9, <1>10 DEF e

----------------------------------------------------------------------------
(* Unmapping.                                                              *)

PteSet(s, t, p, x) == t = [s EXCEPT !.pte[p] = x]

\* A region's count may be lowered before or after the page is cleared.
LEMMA Commute ==
    ASSUME NEW s, Shape(s), NEW v, NEW p, NEW x, NEW u, PteSet(s, u, p, x),
           NEW t, PteSet(__vmr_decref(s, v), t, p, x)
    PROVE  Shape(t) /\ t.panic = s.panic /\ \A y \in Fields : t[y] = __vmr_decref(u, v)[y]
<1> DEFINE s1 == [s EXCEPT !.vmrs[v].refcnt = @ - 1]
           u1 == [u EXCEPT !.vmrs[v].refcnt = @ - 1]
           f == s1.vmrs[v].file
           close == s1.vmrs[v].refcnt = 0 /\ f /= None
           ds == __vmr_decref(s, v)
           du == __vmr_decref(u, v)
<1>1. Shape(u) /\ u.panic = s.panic /\ Differ(s, u, {"pte"}) /\ u.pte = [s.pte EXCEPT ![p] = x]
  BY DEF Shape, Fields, Differ, PteSet
<1>2. Shape(s1) /\ Shape(u1) /\ Differ(s1, u1, {"pte"}) /\ s1.pte = s.pte /\ u1.pte = u.pte
      /\ s1.panic = s.panic
  <2>1. u.vmrs = s.vmrs BY <1>1 DEF Differ, Fields
  <2> QED BY <1>1, <2>1 DEF Shape, Fields, Differ
<1>3. u1.vmrs = s1.vmrs /\ u1.files = s1.files /\ u1.host = s1.host BY <1>2 DEF Differ, Fields
<1>4. ds = IF close THEN file_decref(s1, f) ELSE s1 BY DEF __vmr_decref
<1>5. du = IF close THEN file_decref(u1, f) ELSE u1
  <2>1. u1.vmrs[v].file = f /\ u1.vmrs[v].refcnt = s1.vmrs[v].refcnt BY <1>3
  <2>2. du = IF u1.vmrs[v].refcnt = 0 /\ u1.vmrs[v].file /= None THEN file_decref(u1, u1.vmrs[v].file) ELSE u1
    BY DEF __vmr_decref
  <2> HIDE DEF u1, f, du
  <2> QED BY <2>1, <2>2
<1> HIDE DEF s1, u1, f, ds, du
<1>6. /\ Shape(ds) /\ ds.panic = s.panic /\ Shape(du) /\ Differ(ds, du, {"pte"})
      /\ ds.pte = s.pte /\ du.pte = u.pte
  <2>1. CASE ~close BY <2>1, <1>2, <1>4, <1>5
  <2>2. CASE close
    <3>1. ds = file_decref(s1, f) /\ du = file_decref(u1, f) BY <2>2, <1>4, <1>5
    <3>2. /\ Shape(ds) /\ ds.panic = s1.panic /\ Shape(du)
          /\ Differ(s1, ds, {"files", "host"}) /\ Differ(u1, du, {"files", "host"})
      BY <3>1, <1>2, FileStay
    <3>3. ds.files = du.files /\ ds.host = du.host
      BY <3>1, <1>2, <1>3 DEF Shape, Fields, file_decref, HostClose
    <3>4. Differ(ds, du, {"pte"}) BY <3>2, <3>3, <1>2 DEF Differ, Fields
    <3>5. ds.pte = s.pte /\ du.pte = u.pte BY <3>2, <1>2 DEF Differ, Fields
    <3> QED BY <3>2, <3>4, <3>5, <1>2
  <2> QED BY <2>1, <2>2
<1>7. t = [ds EXCEPT !.pte[p] = x] BY DEF ds, PteSet
<1>8. Shape(t) /\ t.panic = s.panic /\ Differ(ds, t, {"pte"}) /\ t.pte = [s.pte EXCEPT ![p] = x]
  BY <1>6, <1>7 DEF Shape, Fields, Differ
<1>9. \A y \in Fields : t[y] = du[y] BY <1>1, <1>6, <1>8 DEF Differ
<1> QED BY <1>8, <1>9 DEF du

\* One page of Unmap.
UnmapOne(c, t, a) ==
    LET v == t.pte[PageOf(a)].vmr
    IN  [IF v /= 0 THEN __vmr_decref(t, v) ELSE t EXCEPT !.pte[PageOf(a)] = ZeroPte]

\* Unmapping a page neither panics nor ends a panic.
LEMMA UnmapOneStay ==
    ASSUME NEW c, NEW s, Shape(s), NEW a
    PROVE  Shape(UnmapOne(c, s, a)) /\ UnmapOne(c, s, a).panic = s.panic
<1> DEFINE p == PageOf(a)
           w == IF s.pte[p].vmr /= 0 THEN __vmr_decref(s, s.pte[p].vmr) ELSE s
<1>1. Shape(w) /\ w.panic = s.panic BY VmrDecrefStay
<1>2. UnmapOne(c, s, a) = [w EXCEPT !.pte[p] = ZeroPte] BY DEF UnmapOne
<1> HIDE DEF w, p
<1> QED BY <1>1, <1>2 DEF Shape, Fields

\* What unmapping leaves alone.
Kept(s, t, hold) ==
    /\ Differ(s, t, {"pte", "vmrs", "files", "host"})
    /\ Held(s, t, hold)
    /\ \A u \in Vmrs : SameRegion(s.vmrs[u], t.vmrs[u])

\* An empty page table entry is one.
LEMMA ZeroIs == ZeroPte \in PteEntry /\ PteFit(ZeroPte) /\ ZeroPte.vmr = 0 /\ ZeroPte.bits = {}
BY DEF ZeroPte, PteEntry, PteFit

\* Unmapping a page of the user's: its region waits for one page less.
LEMMA UnmapOneOK ==
    ASSUME NEW s, NEW hold, NEW b, NEW due, J0(s, hold, b, due), NEW c,
           NEW a, PageOf(a) \in VPages, PageOf(a) \notin KernelRange, NEW t, t = UnmapOne(c, s, a)
    PROVE  /\ J0(t, hold, b, due) /\ Kept(s, t, hold)
           /\ t.pte[PageOf(a)] = ZeroPte /\ \A q \in VPages : q /= PageOf(a) => t.pte[q] = s.pte[q]
<1> DEFINE p == PageOf(a)
           v == s.pte[p].vmr
           u == [s EXCEPT !.pte[p] = ZeroPte]
           due1 == IF v = 0 THEN due ELSE More(due, v)
<1>0. /\ Shape(s) /\ s.panic = FALSE /\ MapOK(s.pte, s.vmrs, due) /\ due \in [Vmrs -> Nat]
      /\ s.pte \in [VPages -> PteEntry] /\ ContentOK(s.pte, s.vmrs, s.files, s.host, s.disk, s.mem, s.want)
  BY DEF J0, MapOK
<1>1. v \in {0} \cup Vmrs
  <2>1. s.pte[p] \in PteEntry BY <1>0
  <2> QED BY <2>1 DEF PteEntry
<1>2. Shape(u) /\ u.panic = FALSE /\ Differ(s, u, {"pte"}) /\ u.pte = [s.pte EXCEPT ![p] = ZeroPte]
  BY <1>0 DEF Shape, Fields, Differ
<1> HIDE DEF u, v, p
<1>3. due1 \in [Vmrs -> Nat] /\ DueTrade(v, 0, due, due1)
  <2>1. \A w \in Vmrs : due[w] \in Nat BY <1>0
  <2>2. CASE v = 0 BY <2>2, <1>0 DEF DueTrade
  <2>3. CASE v \in Vmrs
    <3>1. v /= 0 /\ \A w \in Vmrs : w /= 0 BY <2>3, Finite
    <3>2. due1 = More(due, v) BY <3>1
    <3>3. due1 \in [Vmrs -> Nat] BY <3>2, <2>3, <1>0, <2>1 DEF More
    <3>4. due1[v] = due[v] + 1 /\ \A w \in Vmrs : w /= v => due1[w] = due[w] BY <3>2, <2>3, <1>0 DEF More
    <3> HIDE DEF due1
    <3>5. DueTrade(v, 0, due, due1)
      <4>1. ASSUME NEW w \in Vmrs
            PROVE due1[w] + (IF 0 = w THEN 1 ELSE 0) = due[w] + (IF v = w THEN 1 ELSE 0)
        <5>1. due[w] \in Nat /\ w /= 0 BY <2>1, <3>1
        <5>2. CASE w = v BY <5>1, <5>2, <3>4
        <5>3. CASE w /= v BY <5>1, <5>3, <3>4
        <5> QED BY <5>2, <5>3
      <4> QED BY <4>1 DEF DueTrade
    <3> QED BY <3>3, <3>5
  <2> QED BY <2>2, <2>3, <1>1
<1> HIDE DEF due1
<1>4. J0(u, hold, b, due1) /\ u.pte[p] = ZeroPte /\ \A q \in VPages : q /= p => u.pte[q] = s.pte[q]
  <2>1. u.mem = s.mem /\ u.want = s.want BY <1>2 DEF Differ, Fields
  <2>4. p \in VPages /\ p \notin KernelRange BY DEF p
  <2>2. DOMAIN u.mem = VPages /\ DOMAIN u.want = VPages /\ Formed(u.mem[p], u.want[p])
    BY <2>1, <2>4, <1>0 DEF ContentOK
  <2>3. Differ(s, u, {"pte", "mem", "want", "tlb"}) BY <1>2 DEF Differ
  <2>5. DueTrade(s.pte[p].vmr, ZeroPte.vmr, due, due1) BY <1>3, ZeroIs DEF v
  <2>6. PageFits(p, ZeroPte) BY <2>4, ZeroIs DEF PageFits
  <2>7. PageStep(s, u, p, ZeroPte) BY <1>2, <2>1, <2>2, <2>3, ZeroIs DEF PageStep
  <2> QED BY <1>3, <2>5, <2>6, <2>7, PageFrame
<1>5. u.vmrs = s.vmrs /\ u.files = s.files /\ u.host = s.host BY <1>2 DEF Differ, Fields
<1>6. CASE v = 0
  <2>1. t = u BY <1>6 DEF UnmapOne, v, u, p
  <2>2. Kept(s, t, hold) BY <2>1, <1>2, <1>5 DEF Kept, Differ, Held, SameRegion
  <2> QED BY <1>4, <1>6, <2>1, <2>2 DEF due1, p
<1>7. CASE v /= 0
  <2>1. v \in Vmrs BY <1>1, <1>7
  <2>2. due1 = More(due, v) BY <1>7 DEF due1
  <2>3. due1[v] >= 1 /\ Less(due1, v) = due
    <3>1. due[v] \in Nat /\ due1[v] = due[v] + 1 BY <1>0, <2>1, <2>2 DEF More
    <3>2. due1[v] >= 1 BY <3>1
    <3>3. /\ Less(due1, v) \in [Vmrs -> Nat] /\ Less(due1, v)[v] = due1[v] - 1
          /\ \A w \in Vmrs : w /= v => Less(due1, v)[w] = due1[w]
      BY <1>3, <2>1, <3>2, DueLess
    <3>4. \A w \in Vmrs : w /= v => due1[w] = due[w] BY <1>0, <2>1, <2>2 DEF More
    <3>5. \A w \in Vmrs : Less(due1, v)[w] = due[w] BY <3>1, <3>3, <3>4
    <3> QED BY <3>2, <3>3, <3>5, <1>0
  <2> DEFINE d == __vmr_decref(u, v)
  <2>4. /\ J0(d, hold, b, due) /\ Differ(u, d, {"vmrs", "files", "host"}) /\ Held(u, d, hold)
        /\ \A w \in Vmrs : SameRegion(u.vmrs[w], d.vmrs[w])
    BY <1>4, <2>1, <2>3, VmrDecrefOK
  <2>5. Shape(t) /\ t.panic = s.panic /\ \A y \in Fields : t[y] = d[y]
    <3>1. PteSet(__vmr_decref(s, v), t, p, ZeroPte) BY <1>7 DEF UnmapOne, v, p, PteSet
    <3>2. PteSet(s, u, p, ZeroPte) BY DEF u, PteSet
    <3> QED BY <3>1, <3>2, <1>0, Commute
  <2> HIDE DEF d
  <2>6. J0(t, hold, b, due)
    <3>1. \A x \in Told : t[x] = d[x] BY <2>5 DEF Told, Fields
    <3> QED BY <3>1, <2>4, <2>5, <1>0, J0Frame
  <2>7. t.pte = u.pte /\ t.vmrs = d.vmrs /\ t.files = d.files /\ t.host = d.host
    BY <2>4, <2>5 DEF Differ, Fields
  <2>8. Kept(s, t, hold)
    <3>1. Differ(s, t, {"pte", "vmrs", "files", "host"}) BY <1>2, <2>4, <2>5 DEF Differ
    <3> QED BY <3>1, <2>4, <2>7, <1>5 DEF Kept, Held
  <2> QED BY <1>4, <2>6, <2>7, <2>8 DEF p
<1> QED BY <1>6, <1>7

\* What holds after i pages: c tells where the loop started.
UP(c, i, t) ==
    /\ Shape(t) /\ t.panic = c.s.panic
    /\ c.live =>
         /\ J0(t, c.hold, c.b, c.due) /\ Kept(c.s, t, c.hold)
         /\ \A p \in VPages : t.pte[p] = IF \E j \in 1 .. i : PageOf(c.q[j]) = p
                                          THEN ZeroPte ELSE c.s.pte[p]
U == INSTANCE FoldRule WITH Op <- UnmapOne, P <- UP

\* Unmap, as a repetition of its step.
LEMMA UnmapIs ==
    ASSUME NEW c, NEW s, NEW addr, NEW len
    PROVE  Unmap(s, addr, len) = U!Iter(c, s, Steps(addr, len))[DOMAIN Steps(addr, len)]
BY DEF Unmap, UnmapOne, U!Iter, U!Last, FoldLeft, MapThenFoldSet, Max

\* Unmapping neither panics nor ends a panic.
LEMMA UnmapStay ==
    ASSUME NEW s, Shape(s), NEW addr \in Int, NEW len \in Int
    PROVE  Shape(Unmap(s, addr, len)) /\ Unmap(s, addr, len).panic = s.panic
<1> DEFINE q == Steps(addr, len)
           c == [live |-> FALSE, s |-> s]
           t == Unmap(s, addr, len)
<1>1. PICK n \in Nat : DOMAIN q = 1 .. n BY StepsAre
<1>2. t = U!Iter(c, s, q)[DOMAIN q] BY UnmapIs
<1>3. c.live = FALSE /\ c.s = s OBVIOUS
<1> HIDE DEF q, c, t
<1>4. UP(c, 0, s) BY <1>3 DEF UP
<1>5. ASSUME NEW i \in 1 .. n, NEW u, UP(c, i - 1, u) PROVE UP(c, i, UnmapOne(c, u, q[i]))
  <2>1. Shape(u) /\ u.panic = s.panic BY <1>3, <1>5 DEF UP
  <2>2. Shape(UnmapOne(c, u, q[i])) /\ UnmapOne(c, u, q[i]).panic = u.panic BY <2>1, UnmapOneStay
  <2> QED BY <2>1, <2>2, <1>3 DEF UP
<1>6. UP(c, n, t) BY <1>1, <1>2, <1>4, <1>5, U!FoldInv
<1> QED BY <1>6, <1>3 DEF UP, t

\* What two steps keep, both together keep.
LEMMA KeptTrans ==
    ASSUME NEW s, NEW t, NEW u, NEW hold, Kept(s, t, hold), Kept(t, u, hold)
    PROVE  Kept(s, u, hold)
BY DEF Kept, Differ, Held, SameRegion

\* After Unmap the visited pages are empty and the others are as before.
LEMMA UnmapOK ==
    ASSUME NEW s, NEW hold, NEW b, NEW due, J0(s, hold, b, due), NEW addr \in Int, NEW len \in Int,
           \A i \in DOMAIN Steps(addr, len) :
               PageOf(Steps(addr, len)[i]) \in VPages \ KernelRange,
           NEW t, t = Unmap(s, addr, len)
    PROVE  /\ J0(t, hold, b, due) /\ Kept(s, t, hold)
           /\ \A p \in VPages : t.pte[p] = IF \E i \in DOMAIN Steps(addr, len) : PageOf(Steps(addr, len)[i]) = p
                                            THEN ZeroPte ELSE s.pte[p]
<1> DEFINE q == Steps(addr, len)
           c == [live |-> TRUE, s |-> s, hold |-> hold, b |-> b, due |-> due, q |-> q]
<1>1. PICK n \in Nat : DOMAIN q = 1 .. n BY StepsAre
<1>2. t = U!Iter(c, s, q)[DOMAIN q] BY UnmapIs
<1>3. c.live = TRUE /\ c.s = s /\ c.hold = hold /\ c.b = b /\ c.due = due /\ c.q = q OBVIOUS
<1>0. \A i \in 1 .. n : PageOf(q[i]) \in VPages /\ PageOf(q[i]) \notin KernelRange BY <1>1
<1> HIDE DEF q, c
<1>4. UP(c, 0, s)
  <2>1. Kept(s, s, hold) BY DEF Kept, Differ, Held, SameRegion
  <2>2. \A p \in VPages : ~ \E j \in 1 .. 0 : PageOf(q[j]) = p OBVIOUS
  <2> QED BY <1>3, <2>1, <2>2 DEF UP, J0
<1>5. ASSUME NEW i \in 1 .. n, NEW u, UP(c, i - 1, u) PROVE UP(c, i, UnmapOne(c, u, q[i]))
  <2> DEFINE w == UnmapOne(c, u, q[i])
             r == PageOf(q[i])
  <2>1. /\ Shape(u) /\ u.panic = s.panic /\ J0(u, hold, b, due) /\ Kept(s, u, hold)
        /\ \A p \in VPages : u.pte[p] = IF \E j \in 1 .. (i - 1) : PageOf(q[j]) = p THEN ZeroPte ELSE s.pte[p]
    BY <1>3, <1>5 DEF UP
  <2>2. /\ J0(w, hold, b, due) /\ Kept(u, w, hold)
        /\ w.pte[r] = ZeroPte /\ \A p \in VPages : p /= r => w.pte[p] = u.pte[p]
    BY <2>1, <1>0, UnmapOneOK
  <2> HIDE DEF w
  <2>3. Kept(s, w, hold) BY <2>1, <2>2, KeptTrans
  <2>4. Shape(w) /\ w.panic = s.panic BY <2>2 DEF J0
  <2>5. ASSUME NEW p \in VPages
        PROVE  w.pte[p] = IF \E j \in 1 .. i : PageOf(q[j]) = p THEN ZeroPte ELSE s.pte[p]
    <3>1. CASE p = r
      <4>1. i \in 1 .. i OBVIOUS
      <4> QED BY <4>1, <3>1, <2>2
    <3>2. CASE p /= r
      <4>1. (\E j \in 1 .. i : PageOf(q[j]) = p) <=> (\E j \in 1 .. (i - 1) : PageOf(q[j]) = p)
        <5>1. \A j \in 1 .. i : j = i \/ j \in 1 .. (i - 1) OBVIOUS
        <5>2. \A j \in 1 .. (i - 1) : j \in 1 .. i OBVIOUS
        <5> QED BY <5>1, <5>2, <3>2
      <4> QED BY <4>1, <3>2, <2>1, <2>2
    <3> QED BY <3>1, <3>2
  <2>6. UP(c, i, w) BY <1>3, <2>2, <2>3, <2>4, <2>5 DEF UP
  <2> QED BY <2>6 DEF w
<1>6. UP(c, n, t) BY <1>1, <1>2, <1>4, <1>5, U!FoldInv
<1>7. /\ J0(t, hold, b, due) /\ Kept(s, t, hold)
      /\ \A p \in VPages : t.pte[p] = IF \E j \in 1 .. n : PageOf(q[j]) = p THEN ZeroPte ELSE s.pte[p]
  BY <1>6, <1>3 DEF UP
<1> QED BY <1>7, <1>1 DEF q

\* Flushing makes the cached translations right.
LEMMA FlushOK ==
    ASSUME NEW s, Shape(s), NEW t, t = flush_tlb(s)
    PROVE  /\ Shape(t) /\ t.panic = s.panic /\ Differ(s, t, {"tlb"}) /\ TlbOK(t.pte, t.tlb)
           /\ t.tlb = [p \in VPages |-> {}]
           /\ \A hold, b, due : J0(s, hold, b, due) => J0(t, hold, b, due) /\ J(t, hold, b, due)
<1>1. Shape(t) /\ t.panic = s.panic /\ Differ(s, t, {"tlb"}) /\ t.tlb = [p \in VPages |-> {}]
  BY DEF flush_tlb, Shape, Fields, Differ
<1>2. TlbOK(t.pte, t.tlb) BY <1>1 DEF TlbOK
<1>3. ASSUME NEW hold, NEW b, NEW due, J0(s, hold, b, due) PROVE J0(t, hold, b, due)
  <2>1. \A x \in Told : t[x] = s[x] BY <1>1 DEF Differ, Told, Fields
  <2>2. s.panic = FALSE BY <1>3 DEF J0
  <2>3. t.panic = FALSE BY <2>2, <1>1
  <2>4. Shape(t) BY <1>1
  <2> QED BY <2>1, <2>3, <2>4, <1>3, J0Frame
<1> QED BY <1>1, <1>2, <1>3 DEF J

\* __do_munmap neither panics nor ends a panic.
LEMMA DoMunmapStay ==
    ASSUME NEW s, Shape(s), NEW addr \in Int, NEW len \in Int
    PROVE  Shape(__do_munmap(s, addr, len)) /\ __do_munmap(s, addr, len).panic = s.panic
<1> DEFINE u == Unmap(s, addr, len)
<1>1. Shape(u) /\ u.panic = s.panic BY UnmapStay
<1> HIDE DEF u
<1>2. Shape(flush_tlb(u)) /\ flush_tlb(u).panic = u.panic BY <1>1, FlushOK
<1> QED BY <1>1, <1>2 DEF __do_munmap, u

\* What mapping and unmapping leave alone.
Kept2(s, t, hold) ==
    /\ Differ(s, t, {"pte", "vmrs", "files", "host", "tlb"})
    /\ Held(s, t, hold)
    /\ \A u \in Vmrs : SameRegion(s.vmrs[u], t.vmrs[u])

\* __do_munmap empties the visited pages and every cached translation.
LEMMA DoMunmapOK ==
    ASSUME NEW s, NEW hold, NEW b, NEW due, J0(s, hold, b, due), NEW addr \in Int, NEW len \in Int,
           \A i \in DOMAIN Steps(addr, len) :
               PageOf(Steps(addr, len)[i]) \in VPages \ KernelRange,
           NEW t, t = __do_munmap(s, addr, len)
    PROVE  /\ J(t, hold, b, due) /\ Kept2(s, t, hold)
           /\ \A p \in VPages : t.pte[p] = IF \E i \in DOMAIN Steps(addr, len) : PageOf(Steps(addr, len)[i]) = p
                                            THEN ZeroPte ELSE s.pte[p]
<1> DEFINE u == Unmap(s, addr, len)
<1>1. /\ J0(u, hold, b, due) /\ Kept(s, u, hold)
      /\ \A p \in VPages : u.pte[p] = IF \E i \in DOMAIN Steps(addr, len) : PageOf(Steps(addr, len)[i]) = p
                                            THEN ZeroPte ELSE s.pte[p]
  BY UnmapOK
<1>2. t = flush_tlb(u) BY DEF __do_munmap
<1> HIDE DEF u
<1>3. Differ(u, t, {"tlb"}) /\ J(t, hold, b, due)
  <2>1. Shape(u) BY <1>1 DEF J0
  <2> QED BY <1>1, <1>2, <2>1, FlushOK
<1>4. t.pte = u.pte /\ t.vmrs = u.vmrs /\ t.files = u.files /\ t.host = u.host BY <1>3 DEF Differ, Fields
<1>5. Kept2(s, t, hold)
  <2>1. Differ(s, t, {"pte", "vmrs", "files", "host", "tlb"}) BY <1>1, <1>3 DEF Kept, Differ
  <2> QED BY <2>1, <1>1, <1>4 DEF Kept, Kept2, Held
<1> QED BY <1>1, <1>3, <1>4, <1>5

----------------------------------------------------------------------------
(* Page faults.                                                            *)

\* What is read into a page is what the mapping promised.
LEMMA FillRight ==
    ASSUME NEW disk, DiskOK(disk), NEW p \in Int, NEW v \in VmrEntry, NEW name \in Names,
           NEW j \in Units, NEW ret,
           ret = Smaller(Smaller(PGSIZE, v.length - (p * PGSIZE - v.addr)),
                         IF p * PGSIZE - v.addr + v.offset < disk[name].size
                         THEN disk[name].size - (p * PGSIZE - v.addr + v.offset) ELSE 0),
           ret > 0
    PROVE  (IF j < ret THEN disk[name].unit[p * PGSIZE - v.addr + v.offset + j] ELSE Zero)
             = Content(disk, SourceN(name, p * PGSIZE, v.addr, v.length, v.offset))[j]
<1> DEFINE at == p * PGSIZE - v.addr
           size == disk[name].size
           unit == disk[name].unit
           off == at + v.offset
           from == SourceN(name, p * PGSIZE, v.addr, v.length, v.offset)
<1>1. PGSIZE \in Nat /\ at \in Int /\ v.length \in Int /\ v.offset \in Int /\ size \in Int /\ j \in Int
      /\ j >= 0 /\ j < PGSIZE
  <2>1. PGSIZE \in Nat BY MmapAssumption
  <2>2. v.length \in Int /\ v.offset \in Int /\ v.addr \in Int BY DEF VmrEntry
  <2>3. size \in Nat BY DEF DiskOK
  <2> QED BY <2>1, <2>2, <2>3 DEF Units
<1>2. from.name = name /\ from.len = v.length - at /\ from.off = v.offset + at BY DEF SourceN
<1>3. ret = Smaller(Smaller(PGSIZE, v.length - at), IF off < size THEN size - off ELSE 0)
  OBVIOUS
<1>8. (IF j < ret THEN unit[off + j] ELSE Zero)
        = (IF j < ret THEN disk[name].unit[p * PGSIZE - v.addr + v.offset + j] ELSE Zero)
  OBVIOUS
<1>9. disk[from.name].size = size /\ disk[from.name].unit = unit BY <1>2
<1> HIDE DEF at, size, unit, from
<1>4. Content(disk, from)[j]
        = IF from.name \in Names /\ j < from.len /\ from.off + j < disk[from.name].size
          THEN disk[from.name].unit[from.off + j] ELSE Zero
  BY DEF Content
<1>5. from.off + j = off + j BY <1>1, <1>2
<1>6. j < ret <=> j < v.length - at /\ off + j < size
  BY <1>1, <1>3 DEF Smaller
<1>7. (IF j < ret THEN unit[off + j] ELSE Zero) = Content(disk, from)[j]
  <2>1. CASE j < ret BY <2>1, <1>2, <1>4, <1>5, <1>6, <1>9
  <2>2. CASE ~(j < ret) BY <2>2, <1>2, <1>4, <1>5, <1>6, <1>9
  <2> QED BY <2>1, <2>2
<1> QED BY <1>7, <1>8 DEF from

\* Filling a page changes its content, or panics.
LEMMA FillStay ==
    ASSUME NEW s, Shape(s), NEW p, NEW v
    PROVE  /\ Shape(__fault_in(s, p, v)) /\ (s.panic => __fault_in(s, p, v).panic)
           /\ Differ(s, __fault_in(s, p, v), {"mem", "panic"})
BY DEF __fault_in, Fill, kassert, Panic, Shape, Fields, Differ

\* A page that is filled holds what its region promised.
LEMMA FillOK ==
    ASSUME NEW s, Shape(s), DiskOK(s.disk), DOMAIN s.mem = VPages, NEW p \in VPages, NEW v \in VmrEntry,
           NEW t, t = __fault_in(s, p, v), Live(t)
    PROVE  /\ Differ(s, t, {"mem"})
           /\ DOMAIN t.mem = VPages /\ \A q \in VPages : q /= p => t.mem[q] = s.mem[q]
           /\ DOMAIN t.mem[p] = Units
           /\ \A j \in Units : t.mem[p][j] = Content(s.disk, Promise(p, v, s.files, s.host))[j]
<1> DEFINE w == Content(s.disk, Promise(p, v, s.files, s.host))
<1>0. Shape(t) /\ (s.panic => t.panic) /\ Differ(s, t, {"mem", "panic"}) /\ t.panic = FALSE
  BY FillStay DEF Live
<1>1. Differ(s, t, {"mem"})
  <2>1. s.panic = FALSE BY <1>0 DEF Shape
  <2> QED BY <2>1, <1>0 DEF Differ
<1>2. \E page : /\ t.mem = [s.mem EXCEPT ![p] = page] /\ DOMAIN page = Units
                /\ \A j \in Units : page[j] = w[j]
  <2>1. CASE v.file = None
    <3>1. t = [s EXCEPT !.mem[p] = [j \in Units |-> Zero]] BY <2>1 DEF __fault_in, Fill
    <3>2. \A j \in Units : w[j] = Zero
      <4>1. Promise(p, v, s.files, s.host).name = "free" BY <2>1 DEF Promise, SourceN, NameOf
      <4>2. "free" \notin Names BY FileAssumption DEF Names
      <4> QED BY <4>1, <4>2 DEF Content
    <3> HIDE DEF w
    <3>3. t.mem = [s.mem EXCEPT ![p] = [j \in Units |-> Zero]] BY <3>1 DEF Shape, Fields
    <3>4. DOMAIN [i \in Units |-> Zero] = Units /\ \A j \in Units : [i \in Units |-> Zero][j] = w[j] BY <3>2
    <3> QED BY <3>3, <3>4
  <2>2. CASE v.file /= None
    <3> DEFINE name == s.host[s.files[v.file].kfd]
               at == p * PGSIZE - v.addr
               n == Smaller(PGSIZE, v.length - at)
               off == at + v.offset
               unit == s.disk[name].unit
               size == s.disk[name].size
               ret == HostPread(s, v.file, n, off)
               page == [j \in Units |-> IF j < ret THEN unit[off + j] ELSE Zero]
    <3>1. t = kassert(ret > 0, [s EXCEPT !.mem[p] =
                  [j \in Units |-> IF j < ret THEN unit[off + j] ELSE [i \in Units |-> Zero][j]]])
      BY <2>2 DEF __fault_in, Fill
    <3>2. page = [j \in Units |-> IF j < ret THEN unit[off + j] ELSE [i \in Units |-> Zero][j]]
      OBVIOUS
    <3>3. t = kassert(ret > 0, [s EXCEPT !.mem[p] = page])
      <4> HIDE DEF ret, unit, off
      <4> QED BY <3>1, <3>2
    <3>4. ret > 0 /\ t.mem = [s.mem EXCEPT ![p] = page]
      <4> HIDE DEF page, ret
      <4>1. ret > 0 BY <3>3, <1>0 DEF kassert, Panic, Shape, Fields
      <4> QED BY <4>1, <3>3 DEF kassert, Shape, Fields
    <3>5. name \in Names /\ ret = Smaller(n, IF off < size THEN size - off ELSE 0)
      <4>1. ret = (IF s.files[v.file].kfd \notin Files \/ name \notin Names THEN -1
                   ELSE Smaller(n, IF off < size THEN size - off ELSE 0))
        BY DEF HostPread
      <4> HIDE DEF ret, name, n, off, size
      <4> QED BY <4>1, <3>4
    <3>6. w = Content(s.disk, SourceN(name, p * PGSIZE, v.addr, v.length, v.offset))
      BY <2>2 DEF Promise, NameOf
    <3>7. ASSUME NEW j \in Units PROVE page[j] = w[j]
      <4>1. p \in Int BY Finite
      <4>2. page[j] = (IF j < ret THEN s.disk[name].unit[p * PGSIZE - v.addr + v.offset + j] ELSE Zero) OBVIOUS
      <4> HIDE DEF page, ret, name, w
      <4> QED BY <4>1, <4>2, <3>4, <3>5, <3>6, FillRight
    <3>8. DOMAIN page = Units OBVIOUS
    <3> HIDE DEF page, w
    <3> QED BY <3>4, <3>7, <3>8
  <2> QED BY <2>1, <2>2
<1> HIDE DEF w
<1>3. DOMAIN t.mem = VPages /\ DOMAIN t.mem[p] = Units /\ (\A j \in Units : t.mem[p][j] = w[j]) /\ \A q \in VPages : q /= p => t.mem[q] = s.mem[q]
  BY <1>2
<1> QED BY <1>1, <1>3 DEF w

\* Translations are valid, and the user's only when asked for.
LEMMA PteIs ==
    ASSUME NEW prot \in SUBSET RWX, NEW user \in BOOLEAN
    PROVE  LET e == pte_create(prot_to_type(prot, user)) IN
           /\ e \in PteEntry /\ PteFit(e) /\ e.vmr = 0 /\ "V" \in e.bits /\ ("U" \in e.bits <=> user)
<1> DEFINE B == prot_to_type(prot, user)
<1>1. B \in SUBSET PteBits /\ ("U" \in B <=> user) BY DEF prot_to_type, RWX, PteBits
<1> HIDE DEF B
<1>2. pte_create(B) \in PteEntry /\ pte_create(B).vmr = 0 /\ pte_create(B).bits = B \cup {"V"}
  BY <1>1 DEF pte_create, PteEntry, PteBits
<1>3. "V" \in pte_create(B).bits /\ ("U" \in pte_create(B).bits <=> user) /\ PteFit(pte_create(B))
  BY <1>1, <1>2 DEF PteFit
<1> QED BY <1>2, <1>3 DEF B

Own == pte_create(prot_to_type({"R", "W"}, FALSE))
Final(prot) == pte_create(prot_to_type(prot, TRUE))
\* The state after the page fault of p has loaded its page.
Faulted(s, p) ==
    LET i == s.pte[p].vmr
    IN  [__vmr_decref(__fault_in(flush_tlb([s EXCEPT !.pte[p] = Own]), p, s.vmrs[i]), i)
            EXCEPT !.pte[p] = Final(s.vmrs[i].prot), !.tlb[p] = Own.bits]

\* A page fault is the load of the page, if it waits, and then the test of its protection.
LEMMA FaultIs ==
    ASSUME NEW s, NEW a, NEW prot
    PROVE  LET p == PageOf(a)
               t == IF s.pte[p].vmr = 0 THEN s ELSE Faulted(s, p)
               bad == s.pte[p] = ZeroPte \/ ~__valid_user_range(s, p * PGSIZE, 1)
               fit == pte_create(prot_to_type(prot, TRUE)).bits \subseteq t.pte[p].bits
           IN  __handle_page_fault(s, a, prot)
                 = IF bad THEN [k |-> s, r |-> -1]
                   ELSE IF fit THEN [k |-> flush_tlb(t), r |-> 0] ELSE [k |-> t, r |-> -1]
BY DEF __handle_page_fault, Faulted, Own, Final

\* Loading a page keeps the fields and a panic.
LEMMA FaultedStay ==
    ASSUME NEW s, Shape(s), NEW p
    PROVE  Shape(Faulted(s, p)) /\ (s.panic => Faulted(s, p).panic)
<1> DEFINE i == s.pte[p].vmr
           v == s.vmrs[i]
           u0 == [s EXCEPT !.pte[p] = Own]
           u1 == flush_tlb(u0)
           u2 == __fault_in(u1, p, v)
           u3 == __vmr_decref(u2, i)
           u4 == [u3 EXCEPT !.pte[p] = Final(v.prot), !.tlb[p] = Own.bits]
<1>1. Faulted(s, p) = u4 BY DEF Faulted
<1>2. Shape(u0) /\ u0.panic = s.panic BY DEF Shape, Fields
<1> HIDE DEF u0, i, v
<1>3. Shape(u1) /\ u1.panic = u0.panic BY <1>2, FlushOK
<1> HIDE DEF u1
<1>4. Shape(u2) /\ (u1.panic => u2.panic) BY <1>3, FillStay
<1> HIDE DEF u2
<1>5. Shape(u3) /\ u3.panic = u2.panic BY <1>4, VmrDecrefStay
<1> HIDE DEF u3
<1>6. Shape(u4) /\ u4.panic = u3.panic BY <1>5 DEF Shape, Fields
<1> QED BY <1>1, <1>2, <1>3, <1>4, <1>5, <1>6

\* A page fault keeps the fields and a panic.
LEMMA FaultStay ==
    ASSUME NEW s, Shape(s), NEW a, NEW prot, NEW t, t = Expect(__handle_page_fault(s, a, prot), {0})
    PROVE  Shape(t) /\ (s.panic => t.panic)
<1> DEFINE m == __handle_page_fault(s, a, prot)
           u == IF s.pte[PageOf(a)].vmr = 0 THEN s ELSE Faulted(s, PageOf(a))
<1>1. Shape(u) /\ (s.panic => u.panic) BY FaultedStay
<1> HIDE DEF u
<1>2. Shape(flush_tlb(u)) /\ flush_tlb(u).panic = u.panic BY <1>1, FlushOK
<1>3. m.k \in {s, u, flush_tlb(u)} BY FaultIs DEF u
<1> HIDE DEF m
<1>4. Shape(m.k) /\ (s.panic => m.k.panic) BY <1>1, <1>2, <1>3
<1>5. t = m.k \/ t = [m.k EXCEPT !.panic = TRUE] BY DEF Expect, kassert, Panic, m
<1> QED BY <1>4, <1>5 DEF Shape, Fields

\* The first access to a page of a region.
LEMMA FaultedOK ==
    ASSUME NEW s, NEW hold, NEW b, NEW due, J0(s, hold, b, due), NEW p \in VPages, p * PGSIZE < Max0,
           s.pte[p].vmr /= 0, NEW t, t = Faulted(s, p), Live(t)
    PROVE  /\ J0(t, hold, b, due) /\ Held(s, t, hold)
           /\ Differ(s, t, {"pte", "vmrs", "files", "host", "mem", "tlb"})
           /\ \A u \in Vmrs : SameRegion(s.vmrs[u], t.vmrs[u])
           /\ PteFit(t.pte[p]) /\ "V" \in t.pte[p].bits
           /\ \A q \in VPages : q /= p => t.pte[q] = s.pte[q]
<1> DEFINE i == s.pte[p].vmr
           v == s.vmrs[i]
           u0 == [s EXCEPT !.pte[p] = Own]
           u1 == flush_tlb(u0)
           u2 == __fault_in(u1, p, v)
           u3 == __vmr_decref(u2, i)
           x == Final(v.prot)
           u4 == [u3 EXCEPT !.pte[p] = x, !.tlb[p] = Own.bits]
           due1 == More(due, i)
<1>0. /\ Shape(s) /\ s.panic = FALSE /\ MapOK(s.pte, s.vmrs, due) /\ due \in [Vmrs -> Nat]
      /\ s.pte \in [VPages -> PteEntry] /\ ContentOK(s.pte, s.vmrs, s.files, s.host, s.disk, s.mem, s.want)
      /\ s.vmrs \in [Vmrs -> VmrEntry]
  BY DEF J0, MapOK
<1>1. i \in Vmrs /\ v \in VmrEntry /\ v.prot \in SUBSET RWX /\ i /= 0
  <2>1. i \in Vmrs BY <1>0, MapUse
  <2>2. v \in VmrEntry BY <2>1, <1>0
  <2> HIDE DEF i, v
  <2>3. i /= 0 BY <2>1, Finite
  <2> QED BY <2>1, <2>2, <2>3 DEF VmrEntry
<1>k. p \notin KernelRange BY MaxFacts
<1>t. t = u4 /\ t.panic = FALSE BY DEF Faulted, Live
<1>c. Awaits(s.disk, s.want[p], Promise(p, v, s.files, s.host)) BY <1>0 DEF ContentOK
<1>i. s.pte[p].vmr = i OBVIOUS
<1> HIDE DEF i, v
<1>2. Shape(u0) /\ u0.panic = FALSE /\ Differ(s, u0, {"pte"}) /\ u0.pte = [s.pte EXCEPT ![p] = Own]
  BY <1>0 DEF Shape, Fields, Differ
<1> HIDE DEF u0
<1>3. Shape(u1) /\ u1.panic = FALSE /\ Differ(u0, u1, {"tlb"}) BY <1>2, FlushOK
<1> HIDE DEF u1
<1>4. Shape(u2) /\ (u1.panic => u2.panic) BY <1>3, FillStay
<1>5. Shape(u3) /\ u3.panic = u2.panic
  <2> HIDE DEF u2
  <2> QED BY <1>4, VmrDecrefStay
<1>6. Shape(u4) /\ u4.panic = u3.panic /\ Differ(u3, u4, {"pte", "tlb"}) /\ u4.pte = [u3.pte EXCEPT ![p] = x]
  <2> HIDE DEF u3, x
  <2> QED BY <1>5 DEF Shape, Fields, Differ
<1>7. u2.panic = FALSE BY <1>5, <1>6, <1>t
<1>8. u1.mem = s.mem /\ u1.want = s.want /\ u1.disk = s.disk /\ u1.files = s.files /\ u1.host = s.host /\ u1.vmrs = s.vmrs
      /\ u1.pte = [s.pte EXCEPT ![p] = Own]
  BY <1>2, <1>3 DEF Differ, Fields
<1>9. /\ Differ(u1, u2, {"mem"}) /\ DOMAIN u2.mem = VPages /\ Shows(u2.mem[p], s.want[p])
      /\ Formed(u2.mem[p], s.want[p])
      /\ \A q \in VPages : q /= p => u2.mem[q] = s.mem[q]
  <2>1. DOMAIN u1.mem = VPages /\ DiskOK(u1.disk) BY <1>8, <1>0 DEF ContentOK, J0
  <2> DEFINE y == u2
  <2>2. y = __fault_in(u1, p, v) /\ Live(y) BY <1>7 DEF Live
  <2> HIDE DEF y
  <2>3. /\ Differ(u1, y, {"mem"})
        /\ DOMAIN y.mem = VPages /\ \A q \in VPages : q /= p => y.mem[q] = u1.mem[q]
        /\ DOMAIN y.mem[p] = Units
        /\ \A j \in Units : y.mem[p][j] = Content(u1.disk, Promise(p, v, u1.files, u1.host))[j]
    <3>1. v \in VmrEntry /\ p \in VPages /\ Shape(u1) BY <1>1, <1>3
    <3> QED BY <2>1, <2>2, <3>1, FillOK
  <2>4. Shows(y.mem[p], s.want[p]) BY <2>3, <1>8, <1>c DEF Shows, Awaits
  <2>5. Formed(y.mem[p], s.want[p]) BY <2>3, <1>0 DEF ContentOK, Formed
  <2> QED BY <2>3, <2>4, <2>5, <1>8 DEF y
<1> HIDE DEF u2
<1>10. /\ due1 \in [Vmrs -> Nat] /\ due1[i] >= 1 /\ Less(due1, i) = due
       /\ DueTrade(i, 0, due, due1)
  <2>1. due[i] \in Nat /\ due1 \in [Vmrs -> Nat] /\ due1[i] = due[i] + 1
        /\ \A w \in Vmrs : w /= i => due1[w] = due[w]
    BY <1>0, <1>1 DEF More
  <2> HIDE DEF due1
  <2>2. due1[i] >= 1 BY <2>1
  <2>3. /\ Less(due1, i) \in [Vmrs -> Nat] /\ Less(due1, i)[i] = due1[i] - 1
        /\ \A w \in Vmrs : w /= i => Less(due1, i)[w] = due1[w]
    BY <2>1, <2>2, <1>1, DueLess
  <2>4. Less(due1, i) = due
    <3>1. \A w \in Vmrs : Less(due1, i)[w] = due[w] BY <2>1, <2>3
    <3> QED BY <3>1, <2>3, <1>0
  <2>5. DueTrade(i, 0, due, due1)
    <3>1. ASSUME NEW w \in Vmrs
          PROVE due1[w] + (IF 0 = w THEN 1 ELSE 0) = due[w] + (IF i = w THEN 1 ELSE 0)
      <4>1. due[w] \in Nat /\ w /= 0 BY <1>0, Finite
      <4>2. CASE w = i BY <4>1, <4>2, <2>1
      <4>3. CASE w /= i BY <4>1, <4>3, <2>1
      <4> QED BY <4>2, <4>3
    <3> QED BY <3>1 DEF DueTrade
  <2> QED BY <2>1, <2>2, <2>4, <2>5
<1> HIDE DEF due1
<1>11. Own \in PteEntry /\ PteFit(Own) /\ Own.vmr = 0 /\ "V" \in Own.bits /\ "U" \notin Own.bits
  <2>1. {"R", "W"} \in SUBSET RWX BY DEF RWX
  <2> QED BY <2>1, PteIs DEF Own
<1>12. x \in PteEntry /\ PteFit(x) /\ x.vmr = 0 /\ "V" \in x.bits
  BY <1>1, PteIs DEF Final
<1>13. J0(u2, hold, b, due1) /\ u2.pte[p] = Own /\ \A q \in VPages : q /= p => u2.pte[q] = s.pte[q]
  <2>1. u2.want = s.want /\ u2.pte = [s.pte EXCEPT ![p] = Own] BY <1>8, <1>9 DEF Differ, Fields
  <2>2. DOMAIN u2.want = VPages BY <2>1, <1>0 DEF ContentOK
  <2>3. Differ(s, u2, {"pte", "mem", "want", "tlb"}) BY <1>2, <1>3, <1>9 DEF Differ
  <2>4. PageFits(p, Own) BY <1>11, <1>k DEF PageFits
  <2>5. DueTrade(s.pte[p].vmr, Own.vmr, due, due1) BY <1>10, <1>11, <1>i
  <2>6. PageStep(s, u2, p, Own) BY <1>4, <1>7, <1>9, <1>11, <2>1, <2>2, <2>3 DEF PageStep
  <2> QED BY <1>10, <2>4, <2>5, <2>6, PageFrame
<1>14. /\ J0(u3, hold, b, due) /\ Differ(u2, u3, {"vmrs", "files", "host"}) /\ Held(u2, u3, hold)
       /\ \A w \in Vmrs : SameRegion(u2.vmrs[w], u3.vmrs[w])
  BY <1>1, <1>10, <1>13, VmrDecrefOK
<1> HIDE DEF u3, x
<1>15. u3.pte = u2.pte /\ u3.mem = u2.mem /\ u3.want = u2.want BY <1>14 DEF Differ, Fields
<1> HIDE DEF u4
<1>16. J0(u4, hold, b, due) /\ u4.pte[p] = x /\ \A q \in VPages : q /= p => u4.pte[q] = u3.pte[q]
  <2>1. u4.want = u3.want /\ u4.mem = u3.mem BY <1>6 DEF Differ, Fields
  <2>2. /\ DOMAIN u3.want = VPages /\ DOMAIN u3.mem = VPages /\ Shows(u3.mem[p], u3.want[p])
        /\ Formed(u3.mem[p], u3.want[p])
        /\ due \in [Vmrs -> Nat]
    <3>1. u3.pte[p] = Own BY <1>13, <1>15
    <3> QED BY <3>1, <1>11, <1>14, <1>0 DEF J0, ContentOK
  <2>3. Differ(u3, u4, {"pte", "mem", "want", "tlb"}) BY <1>6 DEF Differ
  <2>4. PageFits(p, x) BY <1>12, <1>k DEF PageFits
  <2>5. DueTrade(u3.pte[p].vmr, x.vmr, due, due)
    <3>1. u3.pte[p].vmr = 0 BY <1>11, <1>13, <1>15
    <3> QED BY <3>1, <1>12 DEF DueTrade
  <2>6. u4.panic = FALSE BY <1>t
  <2>7. PageStep(u3, u4, p, x) BY <1>6, <1>12, <2>1, <2>2, <2>3, <2>6 DEF PageStep
  <2> QED BY <2>2, <2>4, <2>5, <2>7, <1>14, PageFrame
<1>17. Differ(s, u4, {"pte", "vmrs", "files", "host", "mem", "tlb"})
  BY <1>2, <1>3, <1>6, <1>9, <1>14 DEF Differ
<1>18. u2.files = s.files /\ u2.host = s.host /\ u2.vmrs = s.vmrs /\ u4.vmrs = u3.vmrs
       /\ u4.files = u3.files /\ u4.host = u3.host
  BY <1>6, <1>8, <1>9 DEF Differ, Fields
<1>19. Held(s, u4, hold) BY <1>14, <1>18 DEF Held
<1>20. \A w \in Vmrs : SameRegion(s.vmrs[w], u4.vmrs[w]) BY <1>14, <1>18
<1>21. \A q \in VPages : q /= p => u4.pte[q] = s.pte[q] BY <1>13, <1>15, <1>16
<1> QED BY <1>t, <1>12, <1>16, <1>17, <1>19, <1>20, <1>21

\* A fault that is accepted leaves a page the access may use.
LEMMA FaultOK ==
    ASSUME NEW s, NEW hold, NEW b, NEW due, J0(s, hold, b, due), NEW a, PageOf(a) \in VPages,
           NEW prot \in SUBSET RWX,
           NEW t, t = Expect(__handle_page_fault(s, a, prot), {0}), Live(t)
    PROVE  /\ J(t, hold, b, due) /\ Held(s, t, hold)
           /\ Differ(s, t, {"pte", "vmrs", "files", "host", "mem", "tlb"})
           /\ \A u \in Vmrs : SameRegion(s.vmrs[u], t.vmrs[u])
           /\ Valid(t, PageOf(a)) /\ t.tlb = [q \in VPages |-> {}]
           /\ \A q \in VPages : q /= PageOf(a) => t.pte[q] = s.pte[q]
<1> DEFINE p == PageOf(a)
           m == __handle_page_fault(s, a, prot)
           u == IF s.pte[p].vmr = 0 THEN s ELSE Faulted(s, p)
           need == pte_create(prot_to_type(prot, TRUE)).bits
           bad == s.pte[p] = ZeroPte \/ ~__valid_user_range(s, p * PGSIZE, 1)
<1>0. Shape(s) /\ s.panic = FALSE BY DEF J0
<1>1. m = IF bad THEN [k |-> s, r |-> -1]
          ELSE IF need \subseteq u.pte[p].bits THEN [k |-> flush_tlb(u), r |-> 0] ELSE [k |-> u, r |-> -1]
  BY FaultIs
<1>2. t = IF m.r = 0 THEN m.k ELSE [m.k EXCEPT !.panic = TRUE] BY DEF Expect, kassert, Panic
<1>3. Shape(u)
  <2>1. Shape(Faulted(s, p)) BY <1>0, FaultedStay
  <2> QED BY <1>0, <2>1
<1>4. Shape(flush_tlb(u)) BY <1>3, FlushOK
<1> HIDE DEF u, bad
<1>5. m.r = 0
  <2>1. Shape(m.k)
    <3> HIDE DEF m
    <3>1. m.k = s \/ m.k = u \/ m.k = flush_tlb(u) BY <1>1
    <3> QED BY <3>1, <1>0, <1>3, <1>4
  <2> HIDE DEF m
  <2> SUFFICES ASSUME m.r /= 0 PROVE FALSE OBVIOUS
  <2>2. t = [m.k EXCEPT !.panic = TRUE] BY <1>2
  <2>3. t.panic = TRUE BY <2>1, <2>2 DEF Shape, Fields
  <2> QED BY <2>3 DEF Live
<1>6. ~bad /\ need \subseteq u.pte[p].bits /\ t = flush_tlb(u)
  <2>1. t = m.k BY <1>2, <1>5
  <2> HIDE DEF m, need
  <2> QED BY <1>1, <1>5, <2>1
<1>7. "V" \in u.pte[p].bits BY <1>6, PteIs
<1>8. p * PGSIZE < Max0
  <2>1. s.mmap_max = Max0 BY DEF J0, KernelOK
  <2>2. p * PGSIZE + 1 <= Max0 BY <1>6, <2>1 DEF bad, __valid_user_range
  <2>3. p \in Nat /\ p * PGSIZE \in Int
    <3>1. p \in Nat BY Finite
    <3>2. PGSIZE \in Nat BY MmapAssumption
    <3> QED BY <3>1, <3>2
  <2> QED BY <2>2, <2>3, MaxFacts
<1>9. Live(u)
  <2>1. t.panic = u.panic BY <1>3, <1>6, FlushOK
  <2> QED BY <2>1 DEF Live
<1>10. /\ J0(u, hold, b, due) /\ Held(s, u, hold)
       /\ Differ(s, u, {"pte", "vmrs", "files", "host", "mem", "tlb"})
       /\ \A w \in Vmrs : SameRegion(s.vmrs[w], u.vmrs[w])
       /\ \A q \in VPages : q /= p => u.pte[q] = s.pte[q]
  <2>1. CASE s.pte[p].vmr = 0
    <3>1. u = s BY <2>1 DEF u
    <3> QED BY <3>1 DEF Held, Differ, SameRegion
  <2>2. CASE s.pte[p].vmr /= 0
    <3>1. u = Faulted(s, p) BY <2>2 DEF u
    <3> HIDE DEF p
    <3>2. p \in VPages BY DEF p
    <3> QED BY <1>8, <1>9, <2>2, <3>1, <3>2, FaultedOK
  <2> QED BY <2>1, <2>2
<1>11. J(t, hold, b, due) /\ Differ(u, t, {"tlb"}) /\ t.tlb = [q \in VPages |-> {}]
  BY <1>3, <1>6, <1>10, FlushOK
<1>12. t.pte = u.pte /\ t.vmrs = u.vmrs /\ t.files = u.files /\ t.host = u.host BY <1>11 DEF Differ, Fields
<1>13. Differ(s, t, {"pte", "vmrs", "files", "host", "mem", "tlb"}) BY <1>10, <1>11 DEF Differ
<1>14. Held(s, t, hold) BY <1>10, <1>12 DEF Held
<1>15. Valid(t, p) BY <1>7, <1>12 DEF Valid
<1> QED BY <1>10, <1>11, <1>12, <1>13, <1>14, <1>15

----------------------------------------------------------------------------
(* The pages a mapping takes.                                              *)

\* The pages of a length are the fewest that hold it.
LEMMA NPageIs ==
    ASSUME NEW length \in Nat
    PROVE  /\ NPage(length) \in Nat /\ NPage(length) * PGSIZE \in Nat
           /\ length <= NPage(length) * PGSIZE /\ NPage(length) * PGSIZE < length + PGSIZE
           /\ length > 0 => NPage(length) >= 1
           /\ \A m \in Nat : length <= m * PGSIZE => NPage(length) <= m
<1> DEFINE n == NPage(length)
           x == length + PGSIZE - 1
<1>1. PGSIZE \in Nat /\ PGSIZE > 0 BY MmapAssumption
<1>2. n = PageOf(x) /\ x \in Int BY <1>1 DEF NPage, PageOf
<1> HIDE DEF n
<1>3. n \in Int /\ n * PGSIZE \in Int /\ n * PGSIZE <= x /\ x < n * PGSIZE + PGSIZE BY <1>2, PageSplit
<1>4. n >= 0
  <2> SUFFICES ASSUME n < 0 PROVE FALSE BY <1>3
  <2>1. n * PGSIZE + PGSIZE <= 0 * PGSIZE BY <1>3, TimesMono
  <2> QED BY <2>1, <1>1, <1>3
<1>5. length > 0 => n >= 1
  <2> SUFFICES ASSUME length > 0, n = 0 PROVE FALSE BY <1>3, <1>4
  <2>1. n * PGSIZE = 0 BY <1>1
  <2> QED BY <2>1, <1>1, <1>3
<1>6. ASSUME NEW m \in Nat, length <= m * PGSIZE PROVE n <= m
  <2> SUFFICES ASSUME m < n PROVE FALSE BY <1>3
  <2>1. m * PGSIZE + PGSIZE <= n * PGSIZE BY <1>3, TimesMono
  <2>2. m * PGSIZE \in Int BY <1>1
  <2> QED BY <2>1, <2>2, <1>1, <1>3, <1>6
<1>7. n * PGSIZE >= 0
  <2>1. CASE n = 0 BY <2>1, <1>1
  <2>2. CASE n > 0
    <3>1. 0 * PGSIZE + PGSIZE <= n * PGSIZE BY <1>3, <2>2, TimesMono
    <3> QED BY <3>1, <1>1, <1>3
  <2> QED BY <2>1, <2>2, <1>3, <1>4
<1>8. n \in Nat /\ n * PGSIZE \in Nat BY <1>3, <1>4, <1>7
<1>9. length <= n * PGSIZE /\ n * PGSIZE < length + PGSIZE BY <1>1, <1>3
<1> QED BY <1>5, <1>6, <1>8, <1>9 DEF n

\* The steps of a range that starts with a page are the starts of its pages.
LEMMA AlignedSteps ==
    ASSUME NEW at \in Nat, at % PGSIZE = 0, at < Word, NEW length \in Nat
    PROVE  \E n \in Nat :
              /\ DOMAIN Steps(at, length) = 1 .. n
              /\ \A i \in 1 .. n :
                    /\ Steps(at, length)[i] = at + (i - 1) * PGSIZE
                    /\ PageOf(Steps(at, length)[i]) = PageOf(at) + (i - 1)
                    /\ Steps(at, length)[i] = PageOf(Steps(at, length)[i]) * PGSIZE
                    /\ PageOf(Steps(at, length)[i]) \in VPages
              /\ at + length < Word => /\ n = NPage(length)
                                       /\ \A i \in 1 .. n : Steps(at, length)[i] < at + length
              /\ length < Word /\ at + length >= Word => n = 0
<1> DEFINE q == Steps(at, length)
           m == PageOf(at)
           e == Plus(at, length)
<1>1. PGSIZE \in Nat /\ PGSIZE > 0 BY MmapAssumption
<1>2. m \in Int /\ m * PGSIZE = at /\ at \in Int BY PageSplit
<1>3. PICK n \in Nat :
              /\ DOMAIN q = 1 .. n
              /\ \A i \in 1 .. n : q[i] = at + (i - 1) * PGSIZE /\ at + (i - 1) * PGSIZE < e
              /\ \A i \in Nat \ {0} : at + (i - 1) * PGSIZE < e => i <= n
  <2>1. at \in Int /\ length \in Int OBVIOUS
  <2>2. \E n \in Nat :
              /\ DOMAIN Steps(at, length) = 1 .. n
              /\ \A i \in 1 .. n : /\ Steps(at, length)[i] = at + (i - 1) * PGSIZE
                                   /\ at + (i - 1) * PGSIZE < Plus(at, length)
              /\ \A i \in Nat \ {0} : at + (i - 1) * PGSIZE < Plus(at, length) => i <= n
    BY ONLY <2>1, StepsAre
  <2> QED BY <2>2
<1>4. e \in Int /\ e < Word /\ e >= 0
  <2>1. Word \in Nat /\ Word > 0 BY MaxFacts
  <2>2. at + length \in Int OBVIOUS
  <2> QED BY <2>1, <2>2 DEF Plus
<1>e. /\ at + length < Word => e = at + length
      /\ length < Word /\ at + length >= Word => e < at
  <2>1. Word \in Nat /\ Word > 0 BY MaxFacts
  <2>2. at + length < Word => (at + length) % Word = at + length BY <2>1
  <2>3. ASSUME length < Word, at + length >= Word PROVE (at + length) % Word = at + length - Word
    <3>1. at + length - Word \in 0 .. Word - 1 BY <2>1, <2>3
    <3>2. at + length = (at + length - Word) + 1 * Word BY <2>1
    <3> QED BY <2>1, <2>3, <3>1, <3>2
  <2> QED BY <2>1, <2>2, <2>3 DEF Plus
<1> HIDE DEF q, e, m
<1>5. ASSUME NEW i \in 1 .. n
      PROVE  /\ q[i] = at + (i - 1) * PGSIZE /\ PageOf(q[i]) = m + (i - 1)
             /\ q[i] = PageOf(q[i]) * PGSIZE /\ PageOf(q[i]) \in VPages
  <2>1. i - 1 \in Nat /\ q[i] = at + (i - 1) * PGSIZE /\ q[i] < e BY <1>3
  <2>2. (m + (i - 1)) * PGSIZE = m * PGSIZE + (i - 1) * PGSIZE BY <2>1, <1>1, <1>2
  <2>3. (i - 1) * PGSIZE \in Nat BY <2>1, <1>1
  <2>4. q[i] = (m + (i - 1)) * PGSIZE + 0 /\ q[i] \in Int BY <2>1, <2>2, <2>3, <1>2
  <2>5. m + (i - 1) \in Int /\ 0 \in 0 .. PGSIZE - 1 BY <1>1, <1>2, <2>1
  <2>6. PageOf(q[i]) = m + (i - 1) BY <2>4, <2>5, PageIs
  <2>7. q[i] = PageOf(q[i]) * PGSIZE BY <2>1, <2>2, <2>3, <2>6, <1>2
  <2>8. q[i] \in 0 .. VaPages * PGSIZE - 1
    <3>1. q[i] >= 0 /\ q[i] < Word BY <2>1, <2>3, <2>4, <1>4, MaxFacts
    <3> QED BY <3>1, <2>4, MaxFacts DEF Word
  <2>9. PageOf(q[i]) \in VPages BY <2>4, <2>8, PageIn, MaxFacts DEF VPages
  <2> QED BY <2>1, <2>6, <2>7, <2>9
<1>6. ASSUME at + length < Word PROVE n = NPage(length) /\ \A i \in 1 .. n : q[i] < at + length
  <2>1. e = at + length BY <1>6, <1>e
  <2> DEFINE k2 == NPage(length)
  <2>2. k2 \in Nat /\ k2 * PGSIZE \in Nat /\ length <= k2 * PGSIZE /\ k2 * PGSIZE < length + PGSIZE
    BY NPageIs
  <2> HIDE DEF k2
  <2>3. ~(n < k2)
    <3> SUFFICES ASSUME n < k2 PROVE FALSE OBVIOUS
    <3>1. k2 \in Nat \ {0} /\ (k2 - 1) * PGSIZE = k2 * PGSIZE - PGSIZE BY <2>2, <1>1
    <3>2. at + (k2 - 1) * PGSIZE < e BY <3>1, <2>1, <2>2, <1>1
    <3> QED BY <3>1, <3>2, <1>3
  <2>4. ~(k2 < n)
    <3> SUFFICES ASSUME k2 < n PROVE FALSE OBVIOUS
    <3>1. k2 + 1 \in 1 .. n /\ (k2 + 1) - 1 = k2 BY <2>2
    <3>2. at + k2 * PGSIZE < e BY <3>1, <1>3
    <3> QED BY <3>2, <2>1, <2>2
  <2>5. n = k2 BY <2>2, <2>3, <2>4
  <2> QED BY <2>1, <2>5, <1>3 DEF k2
<1>7. ASSUME length < Word, at + length >= Word PROVE n = 0
  <2>1. e < at BY <1>7, <1>e
  <2> SUFFICES ASSUME n /= 0 PROVE FALSE OBVIOUS
  <2>2. 1 \in 1 .. n /\ (1 - 1) * PGSIZE = 0 BY <1>1
  <2>3. at + (1 - 1) * PGSIZE < e BY <2>2, <1>3
  <2> QED BY <2>1, <2>2, <2>3, <1>4
<1> QED BY <1>3, <1>5, <1>6, <1>7 DEF q, m

\* The program's memory ends with a page.
LEMMA PageBelow ==
    ASSUME NEW p \in Int, p * PGSIZE < Max0
    PROVE  p * PGSIZE \in Int /\ p * PGSIZE + PGSIZE <= Max0
<1>1. PGSIZE \in Nat /\ PGSIZE > 0 BY MmapAssumption
<1>2. PICK m \in Nat : Max0 = m * PGSIZE BY MaxFacts
<1>3. p * PGSIZE \in Int /\ m * PGSIZE \in Int BY <1>1
<1>4. p < m
  <2> SUFFICES ASSUME m <= p PROVE FALSE OBVIOUS
  <2>1. CASE m = p BY <2>1, <1>2, <1>3
  <2>2. CASE m < p
    <3>1. m * PGSIZE + PGSIZE <= p * PGSIZE BY <2>2, TimesMono
    <3> QED BY <3>1, <1>1, <1>2, <1>3
  <2> QED BY <2>1, <2>2
<1>5. p * PGSIZE + PGSIZE <= m * PGSIZE BY <1>4, TimesMono
<1> QED BY <1>2, <1>3, <1>5

\* A page that a mapping may take: nobody's, or the program's.
Fresh(s, p) == p \in VPages /\ p \notin KernelRange /\ (s.pte[p] = ZeroPte \/ p * PGSIZE < Max0)
Area(s, q, n) ==
    /\ DOMAIN q = 1 .. n
    /\ \A i \in 1 .. n : q[i] = PageOf(q[i]) * PGSIZE /\ Fresh(s, PageOf(q[i]))
    /\ \A i, j \in 1 .. n : PageOf(q[i]) = PageOf(q[j]) => i = j

\* A range that the program may name is its own.
LEMMA FixedArea ==
    ASSUME NEW s, NEW at \in Nat, at % PGSIZE = 0, NEW length \in Nat, at + length <= Max0
    PROVE  Area(s, Steps(at, length), NPage(length))
<1> DEFINE q == Steps(at, length)
           m == PageOf(at)
<1>1. at < Word /\ at + length < Word BY MaxFacts
<1>2. PICK n \in Nat :
              /\ DOMAIN q = 1 .. n
              /\ \A i \in 1 .. n : /\ PageOf(q[i]) = m + (i - 1)
                                   /\ q[i] = PageOf(q[i]) * PGSIZE /\ PageOf(q[i]) \in VPages
              /\ n = NPage(length) /\ \A i \in 1 .. n : q[i] < at + length
  BY <1>1, AlignedSteps
<1>3. m \in Int BY PageSplit
<1> HIDE DEF q, m
<1>4. ASSUME NEW i \in 1 .. n PROVE q[i] = PageOf(q[i]) * PGSIZE /\ Fresh(s, PageOf(q[i]))
  <2>1. q[i] = PageOf(q[i]) * PGSIZE /\ q[i] < at + length /\ PageOf(q[i]) \in VPages BY <1>2
  <2>2. PGSIZE \in Nat /\ VPages \subseteq Nat BY MmapAssumption, Finite
  <2>3. q[i] \in Int
    <3>1. PageOf(q[i]) \in Nat BY <2>1, <2>2
    <3>2. PageOf(q[i]) * PGSIZE \in Int BY <2>2, <3>1
    <3> QED BY <2>1, <3>2
  <2>4. PageOf(q[i]) * PGSIZE < Max0 BY <2>1, <2>3, MaxFacts
  <2>5. PageOf(q[i]) \notin KernelRange BY <2>1, <2>4, MaxFacts
  <2> QED BY <2>1, <2>4, <2>5 DEF Fresh
<1>5. ASSUME NEW i \in 1 .. n, NEW j \in 1 .. n, PageOf(q[i]) = PageOf(q[j]) PROVE i = j
  <2>1. m + (i - 1) = m + (j - 1) BY <1>2, <1>5
  <2> QED BY <2>1, <1>3
<1>6. Area(s, q, n) BY <1>2, <1>4, <1>5 DEF Area
<1> QED BY <1>2, <1>6 DEF q

\* The kernel's pages are never free.
LEMMA ZeroFresh ==
    ASSUME NEW s, NEW hold, NEW b, NEW due, J0(s, hold, b, due), NEW p \in VPages, s.pte[p] = ZeroPte
    PROVE  Fresh(s, p)
<1>1. KernelPte /= ZeroPte
  <2>1. {"R", "W", "X"} \in SUBSET RWX BY DEF RWX
  <2>2. "V" \in KernelPte.bits BY PteIs DEF KernelPte, RWX
  <2> QED BY <2>2 DEF ZeroPte
<1>2. p \notin KernelRange BY <1>1 DEF J0, KernelOK
<1> QED BY <1>2 DEF Fresh

\* A hole that is found starts a page, and its pages are nobody's, below the kernel
\* or above it.
LEMMA FreeArea ==
    ASSUME NEW s, NEW hold, NEW b, NEW due, J0(s, hold, b, due), NEW length \in Nat,
           NEW at, at = __vm_alloc(s, NPage(length)), at /= 0
    PROVE  at \in Nat /\ Area(s, Steps(at, length), NPage(length))
<1> DEFINE N == NPage(length)
           top == IF N * PGSIZE <= s.mmap_max THEN s.mmap_max ELSE Word - 1
           end == top - N * PGSIZE
           Free(a) == \A j \in 0 .. N - 1 : __va_avail(s, a + j * PGSIZE)
           fit == {a \in s.brk .. end : (a - s.brk) % PGSIZE = 0 /\ Free(a)}
           q == Steps(at, length)
<1>1. PGSIZE \in Nat /\ PGSIZE > 0 /\ Max0 \in Nat /\ Word \in Nat /\ Max0 < Word BY MmapAssumption, MaxFacts
<1>2. N \in Nat /\ N * PGSIZE \in Nat /\ length <= N * PGSIZE BY NPageIs
<1>3. s.mmap_max = Max0 /\ s.brk \in Nat /\ s.brk % PGSIZE = 0 BY DEF J0, KernelOK, BrkOK
<1>4. at = IF fit = {} THEN 0 ELSE FirstOf(fit) BY DEF __vm_alloc
<1> HIDE DEF N
<1>5. end \in Int /\ end <= Word - 1 - N * PGSIZE BY <1>1, <1>2, <1>3
<1> HIDE DEF end, Free
<1>6. at \in fit
  <2>1. fit /= {} BY <1>4
  <2>2. fit \subseteq Nat BY <1>3, <1>5
  <2> HIDE DEF fit
  <2> QED BY <2>1, <2>2, <1>4, FirstIn
<1>7. at \in Nat /\ at >= s.brk /\ at <= end /\ (at - s.brk) % PGSIZE = 0 /\ Free(at)
  BY <1>3, <1>5, <1>6
<1> HIDE DEF fit, q
<1>8. at % PGSIZE = 0
  <2>1. at - s.brk \in Int /\ at \in Int /\ s.brk \in Int BY <1>3, <1>7
  <2>2. at - s.brk = PageOf(at - s.brk) * PGSIZE /\ PageOf(at - s.brk) \in Int BY <2>1, <1>7, PageSplit
  <2>3. s.brk = PageOf(s.brk) * PGSIZE /\ PageOf(s.brk) \in Int
    <3> DEFINE z == s.brk
    <3>1. z \in Int /\ z % PGSIZE = 0 BY <2>1, <1>3
    <3> HIDE DEF z
    <3> DEFINE y == PageOf(z) * PGSIZE
    <3>2. z % PGSIZE = z - y /\ y \in Int /\ PageOf(z) \in Int BY <3>1, PageSplit
    <3> HIDE DEF y
    <3>3. z = y BY <3>1, <3>2
    <3> QED BY <3>2, <3>3 DEF z, y
  <2> DEFINE x == PageOf(at - s.brk)
             y == PageOf(s.brk)
  <2> HIDE DEF x, y
  <2>4. x \in Int /\ y \in Int /\ x * PGSIZE = at - s.brk /\ y * PGSIZE = s.brk BY <2>2, <2>3 DEF x, y
  <2>5. (x + y) * PGSIZE = x * PGSIZE + y * PGSIZE BY <2>4, <1>1
  <2>6. at = (x + y) * PGSIZE + 0 BY <2>4, <2>5, <1>3, <1>7
  <2>7. x + y \in Int /\ 0 \in 0 .. PGSIZE - 1 BY <2>4, <1>1
  <2>8. PageOf(at) = x + y BY <2>6, <2>7, PageIs
  <2>9. at % PGSIZE = at - PageOf(at) * PGSIZE BY <2>1, PageSplit
  <2>10. (x + y) * PGSIZE \in Int BY <2>7, <1>1
  <2> QED BY <2>6, <2>8, <2>9, <2>10
<1>9. at < Word /\ at + length < Word BY <1>1, <1>2, <1>5, <1>7
<1>10. /\ DOMAIN q = 1 .. N
       /\ \A i \in 1 .. N :
             /\ q[i] = at + (i - 1) * PGSIZE
             /\ PageOf(q[i]) = PageOf(at) + (i - 1)
             /\ q[i] = PageOf(q[i]) * PGSIZE
             /\ PageOf(q[i]) \in VPages
  <2>1. \E n \in Nat :
              /\ DOMAIN Steps(at, length) = 1 .. n
              /\ \A i \in 1 .. n :
                    /\ Steps(at, length)[i] = at + (i - 1) * PGSIZE
                    /\ PageOf(Steps(at, length)[i]) = PageOf(at) + (i - 1)
                    /\ Steps(at, length)[i] = PageOf(Steps(at, length)[i]) * PGSIZE
                    /\ PageOf(Steps(at, length)[i]) \in VPages
              /\ at + length < Word => /\ n = NPage(length)
                                       /\ \A i \in 1 .. n : Steps(at, length)[i] < at + length
              /\ length < Word /\ at + length >= Word => n = 0
    BY ONLY <1>7, <1>8, <1>9, length \in Nat, AlignedSteps
  <2> QED BY <2>1, <1>9 DEF N, q
<1>11. ASSUME NEW i \in 1 .. N PROVE s.pte[PageOf(q[i])] = ZeroPte
  <2>1. i - 1 \in 0 .. N - 1 BY <1>2
  <2>2. __va_avail(s, at + (i - 1) * PGSIZE) BY <2>1, <1>7 DEF Free
  <2> QED BY <2>2, <1>10 DEF __va_avail
<1>12. Area(s, q, N)
  <2>1. ASSUME NEW i \in 1 .. N PROVE q[i] = PageOf(q[i]) * PGSIZE /\ Fresh(s, PageOf(q[i]))
    BY <1>10, <1>11, ZeroFresh
  <2>2. ASSUME NEW i \in 1 .. N, NEW j \in 1 .. N, PageOf(q[i]) = PageOf(q[j]) PROVE i = j
    <3>1. PageOf(at) + (i - 1) = PageOf(at) + (j - 1) BY <1>10, <2>2
    <3>2. PageOf(at) \in Int BY <1>7, PageSplit
    <3> HIDE DEF PageOf
    <3> QED BY <3>1, <3>2, <1>2
  <2> QED BY <2>1, <2>2, <1>10 DEF Area
<1> QED BY <1>7, <1>12 DEF N, q

----------------------------------------------------------------------------
(* Entering pages into a region.                                           *)

\* One iteration: c holds what the loop does not change.
MapOne(c, t, a) ==
    LET w == __walk_create(t, a)
    IN  [IF __va_avail(w, a) THEN w ELSE __do_munmap(w, a, PGSIZE) EXCEPT
            !.pte[PageOf(a)] = VmrPte(c.v),
            !.want[PageOf(a)] = Wanted(c.s, a, c.at, c.length, c.f, c.offset)]

\* What mapping leaves alone.
Mapped(s, t, hold) ==
    /\ Differ(s, t, {"pte", "vmrs", "files", "host", "tlb", "want", "mem", "tabs", "next", "used", "panic", "vmrs0"})
    /\ Held(s, t, hold)

\* The region that the loop fills, whose file somebody holds.
Serves(c, s, hold) ==
    LET e == s.vmrs[c.v] IN
    /\ e.addr = c.at /\ e.length = c.length /\ e.file = c.f /\ e.offset = c.offset
    /\ c.v \in Vmrs /\ c.f \in Files \cup {None} /\ (c.f = None \/ hold[c.f] >= 1)
    /\ NameOf(c.s.files, c.s.host, c.f) = NameOf(s.files, s.host, c.f) /\ c.s.disk = s.disk

\* Entering a page keeps the fields and a panic.
LEMMA MapOneStay ==
    ASSUME NEW c, NEW s, Shape(s), NEW a \in Int
    PROVE  Shape(MapOne(c, s, a)) /\ (s.panic => MapOne(c, s, a).panic)
<1> DEFINE p == PageOf(a)
           w == __walk_create(s, a)
           u == IF __va_avail(w, a) THEN w ELSE __do_munmap(w, a, PGSIZE)
           x == Wanted(c.s, a, c.at, c.length, c.f, c.offset)
<1>1. Shape(w) /\ (s.panic => w.panic) BY PoolStay
<1> HIDE DEF w
<1>2. Shape(u) /\ u.panic = w.panic
  <2>1. PGSIZE \in Int BY MmapAssumption
  <2>2. Shape(__do_munmap(w, a, PGSIZE)) /\ __do_munmap(w, a, PGSIZE).panic = w.panic
    BY <1>1, <2>1, DoMunmapStay
  <2> QED BY <1>1, <2>2
<1>3. MapOne(c, s, a) = [u EXCEPT !.pte[p] = VmrPte(c.v), !.want[p] = x] BY DEF MapOne, w
<1> HIDE DEF u, p, x
<1> QED BY <1>1, <1>2, <1>3 DEF Shape, Fields

\* Unmapping a page of the program visits that page.
LEMMA OnePage ==
    ASSUME NEW a \in Nat, a % PGSIZE = 0, a + PGSIZE <= Max0
    PROVE  DOMAIN Steps(a, PGSIZE) = {1} /\ Steps(a, PGSIZE)[1] = a /\ PageOf(a) * PGSIZE = a
<1>1. PGSIZE \in Nat /\ PGSIZE > 0 BY MmapAssumption
<1>2. a < Word /\ a + PGSIZE < Word BY <1>1, MaxFacts
<1> DEFINE q == Steps(a, PGSIZE)
<1>3. PICK n \in Nat : /\ DOMAIN q = 1 .. n /\ \A i \in 1 .. n : q[i] = a + (i - 1) * PGSIZE
                       /\ n = NPage(PGSIZE)
  <2>1. \E n \in Nat :
              /\ DOMAIN Steps(a, PGSIZE) = 1 .. n
              /\ \A i \in 1 .. n :
                    /\ Steps(a, PGSIZE)[i] = a + (i - 1) * PGSIZE
                    /\ PageOf(Steps(a, PGSIZE)[i]) = PageOf(a) + (i - 1)
                    /\ Steps(a, PGSIZE)[i] = PageOf(Steps(a, PGSIZE)[i]) * PGSIZE
                    /\ PageOf(Steps(a, PGSIZE)[i]) \in VPages
              /\ a + PGSIZE < Word => /\ n = NPage(PGSIZE)
                                      /\ \A i \in 1 .. n : Steps(a, PGSIZE)[i] < a + PGSIZE
              /\ PGSIZE < Word /\ a + PGSIZE >= Word => n = 0
    BY ONLY <1>1, <1>2, a \in Nat, a % PGSIZE = 0, AlignedSteps
  <2> QED BY <2>1, <1>2
<1>4. n = 1
  <2>1. PGSIZE <= 1 * PGSIZE BY <1>1
  <2>2. NPage(PGSIZE) <= 1 /\ NPage(PGSIZE) >= 1 /\ NPage(PGSIZE) \in Nat BY <2>1, <1>1, NPageIs
  <2> QED BY <2>2, <1>3
<1> HIDE DEF q
<1>5. q[1] = a + 0 * PGSIZE BY <1>3, <1>4
<1>6. q[1] = a /\ DOMAIN q = {1} BY <1>1, <1>3, <1>4, <1>5
<1>7. PageOf(a) * PGSIZE = a BY PageSplit
<1> QED BY <1>6, <1>7 DEF q

\* A page is unmapped if there is something in it.
LEMMA ClearOK ==
    ASSUME NEW s, NEW hold, NEW b, NEW due, J(s, hold, b, due), NEW p, Fresh(s, p),
           NEW a, a = p * PGSIZE,
           NEW u, u = IF __va_avail(s, a) THEN s ELSE __do_munmap(s, a, PGSIZE)
    PROVE  /\ J(u, hold, b, due) /\ Kept2(s, u, hold) /\ PageOf(a) = p
           /\ u.pte[p] = ZeroPte /\ \A q \in VPages : q /= p => u.pte[q] = s.pte[q]
<1>1. p \in Nat /\ PGSIZE \in Nat /\ PGSIZE > 0 BY MmapAssumption, Finite DEF Fresh
<1>2. PageOf(a) = p
  <2>1. a = p * PGSIZE + 0 /\ p \in Int /\ 0 \in 0 .. PGSIZE - 1
    <3>1. p * PGSIZE \in Int BY <1>1
    <3> QED BY <1>1, <3>1
  <2> QED BY ONLY <2>1, PageIs
<1>3. CASE __va_avail(s, a)
  <2>1. u = s /\ s.pte[p] = ZeroPte BY <1>2, <1>3 DEF __va_avail
  <2>2. Kept2(s, s, hold) BY DEF Kept2, Differ, Held, SameRegion
  <2> QED BY <1>2, <2>1, <2>2
<1>4. CASE ~__va_avail(s, a)
  <2>1. u = __do_munmap(s, a, PGSIZE) BY <1>4
  <2>2. p * PGSIZE < Max0 BY <1>2, <1>4 DEF __va_avail, Fresh
  <2>3. a \in Nat /\ a + PGSIZE <= Max0
    <3>1. p * PGSIZE + PGSIZE <= Max0 /\ p * PGSIZE \in Int BY <1>1, <2>2, PageBelow
    <3>2. p * PGSIZE >= 0
      <4>1. CASE p = 0 BY <4>1, <1>1
      <4>2. CASE p > 0
        <5>1. 0 * PGSIZE + PGSIZE <= p * PGSIZE BY <1>1, <4>2, TimesMono
        <5> QED BY <5>1, <1>1, <3>1
      <4> QED BY <4>1, <4>2, <1>1
    <3> QED BY <3>1, <3>2
  <2>4. a % PGSIZE = 0
    <3>1. a \in Int BY <2>3
    <3>2. a % PGSIZE = a - PageOf(a) * PGSIZE BY ONLY <3>1, PageSplit
    <3>3. a = PageOf(a) * PGSIZE BY <1>2
    <3> QED BY <3>1, <3>2, <3>3
  <2>5. DOMAIN Steps(a, PGSIZE) = {1} /\ Steps(a, PGSIZE)[1] = a BY <2>3, <2>4, OnePage
  <2>6. p \in VPages \ KernelRange BY DEF Fresh
  <2>7. \A i \in DOMAIN Steps(a, PGSIZE) : PageOf(Steps(a, PGSIZE)[i]) \in VPages \ KernelRange
    BY <2>5, <2>6, <1>2
  <2>8. J0(s, hold, b, due) /\ a \in Int /\ PGSIZE \in Int BY <1>1, <2>3 DEF J
  <2>9. /\ J(u, hold, b, due) /\ Kept2(s, u, hold)
        /\ \A q \in VPages : u.pte[q] = IF \E i \in DOMAIN Steps(a, PGSIZE) : PageOf(Steps(a, PGSIZE)[i]) = q
                                         THEN ZeroPte ELSE s.pte[q]
    BY <2>1, <2>7, <2>8, DoMunmapOK
  <2>10. \A q \in VPages : (\E i \in DOMAIN Steps(a, PGSIZE) : PageOf(Steps(a, PGSIZE)[i]) = q) <=> q = p
    BY <2>5, <1>2
  <2> QED BY <1>2, <2>6, <2>9, <2>10
<1> QED BY <1>3, <1>4

\* A page is entered into the region that is being mapped.
LEMMA MapOneOK ==
    ASSUME NEW s, NEW hold, NEW b, NEW due, J(s, hold, b, due), NEW c, Serves(c, s, hold),
           NEW p, Fresh(s, p), NEW a, a = p * PGSIZE, due[c.v] >= 1,
           NEW t, t = MapOne(c, s, a), Live(t)
    PROVE  /\ J(t, hold, b, Less(due, c.v)) /\ Mapped(s, t, hold) /\ Serves(c, t, hold)
           /\ \A q \in VPages : q /= p => t.pte[q] = s.pte[q]
<1> DEFINE w == __walk_create(s, a)
           u == IF __va_avail(w, a) THEN w ELSE __do_munmap(w, a, PGSIZE)
           x == Wanted(c.s, a, c.at, c.length, c.f, c.offset)
           v == c.v
<1>0. J0(s, hold, b, due) /\ Shape(s) /\ s.panic = FALSE /\ TlbOK(s.pte, s.tlb) BY DEF J, J0
<1>1. Shape(w) /\ Differ(s, w, {"tabs", "next", "used", "panic"}) BY <1>0, PoolStay
<1> HIDE DEF w
<1>a. PageOf(a) = p
  <2>1. p \in Nat /\ PGSIZE \in Nat /\ PGSIZE > 0 BY MmapAssumption, Finite DEF Fresh
  <2>2. a = p * PGSIZE + 0 /\ p \in Int /\ 0 \in 0 .. PGSIZE - 1
    <3>1. p * PGSIZE \in Int BY <2>1
    <3> QED BY <2>1, <3>1
  <2> QED BY ONLY <2>2, PageIs
<1>2. t = [u EXCEPT !.pte[p] = VmrPte(v), !.want[p] = x] BY <1>a DEF MapOne, w
<1>3. Shape(u) /\ u.panic = w.panic
  <2>1. PGSIZE \in Int /\ a \in Int
    <3>1. p \in Nat /\ PGSIZE \in Nat /\ PGSIZE > 0 BY MmapAssumption, Finite DEF Fresh
    <3> QED BY <3>1
  <2>2. Shape(__do_munmap(w, a, PGSIZE)) /\ __do_munmap(w, a, PGSIZE).panic = w.panic
    BY <1>1, <2>1, DoMunmapStay
  <2> QED BY <1>1, <2>2
<1>u. u = IF __va_avail(w, a) THEN w ELSE __do_munmap(w, a, PGSIZE) OBVIOUS
<1>x. x = Wanted(c.s, a, c.at, c.length, c.f, c.offset) OBVIOUS
<1> HIDE DEF u, x, v
<1>4. Shape(t) /\ t.panic = u.panic /\ Differ(u, t, {"pte", "want"})
      /\ t.pte = [u.pte EXCEPT ![p] = VmrPte(v)] /\ t.want = [u.want EXCEPT ![p] = x]
  BY <1>2, <1>3 DEF Shape, Fields, Differ
<1>5. w.panic = FALSE /\ u.panic = FALSE /\ t.panic = FALSE BY <1>3, <1>4 DEF Live
<1>6. J(w, hold, b, due)
  <2>1. Differ(s, w, {"tabs", "next", "used", "panic", "vmrs0"}) BY <1>1 DEF Differ
  <2>2. J0(w, hold, b, due) BY <1>0, <1>1, <1>5, <2>1, PoolOK
  <2>3. w.pte = s.pte /\ w.tlb = s.tlb BY <1>1 DEF Differ, Fields
  <2> QED BY <1>0, <2>2, <2>3 DEF J
<1>w. w.pte = s.pte /\ w.vmrs = s.vmrs /\ w.files = s.files /\ w.host = s.host /\ w.disk = s.disk
  BY <1>1 DEF Differ, Fields
<1>7. /\ J(u, hold, b, due) /\ Kept2(w, u, hold)
      /\ u.pte[p] = ZeroPte /\ \A q \in VPages : q /= p => u.pte[q] = w.pte[q]
  <2>1. Fresh(w, p) BY <1>w DEF Fresh
  <2> QED BY <2>1, <1>u, <1>6, ClearOK
<1>8. v \in Vmrs /\ v /= 0 /\ SameRegion(w.vmrs[v], u.vmrs[v]) /\ p \in VPages /\ p \notin KernelRange
  BY <1>7, Finite DEF Serves, v, Kept2, Fresh
<1>9. NameOf(u.files, u.host, c.f) = NameOf(c.s.files, c.s.host, c.f)
  <2>1. NameOf(c.s.files, c.s.host, c.f) = NameOf(w.files, w.host, c.f) BY <1>w DEF Serves
  <2>2. CASE c.f = None BY <2>2 DEF NameOf
  <2>3. CASE c.f /= None
    <3>1. c.f \in Files /\ hold[c.f] >= 1 BY <2>3 DEF Serves
    <3>2. NameOf(u.files, u.host, c.f) = NameOf(w.files, w.host, c.f) BY <3>1, <1>7 DEF Kept2, Held
    <3> QED BY <2>1, <3>2
  <2> QED BY <2>2, <2>3
<1>d. u.disk = c.s.disk
  <2>1. u.disk = w.disk BY <1>7 DEF Kept2, Differ, Fields
  <2> QED BY <2>1, <1>w DEF Serves
<1>10. Awaits(u.disk, x, Promise(p, u.vmrs[v], u.files, u.host)) /\ Awaited(x)
  <2> DEFINE e == u.vmrs[v]
  <2>1. e.addr = c.at /\ e.length = c.length /\ e.file = c.f /\ e.offset = c.offset
    BY <1>8, <1>w DEF SameRegion, Serves, v
  <2> HIDE DEF e
  <2>2. /\ Awaited(x)
        /\ Awaits(c.s.disk, x, SourceN(NameOf(c.s.files, c.s.host, c.f), a, c.at, c.length, c.offset))
    BY <1>x, WantedIs
  <2>3. Promise(p, e, u.files, u.host) = SourceN(NameOf(u.files, u.host, c.f), a, c.at, c.length, c.offset)
    BY <2>1 DEF Promise
  <2> QED BY <2>2, <2>3, <1>9, <1>d DEF e
<1>11. VmrPte(v) \in PteEntry /\ PteFit(VmrPte(v)) /\ VmrPte(v).vmr = v /\ VmrPte(v).bits = {}
  BY <1>8 DEF VmrPte, PteEntry, PteFit
<1>12. J0(u, hold, b, due) /\ TlbOK(u.pte, u.tlb) /\ due \in [Vmrs -> Nat]
       /\ u.pte \in [VPages -> PteEntry] /\ DOMAIN u.mem = VPages /\ DOMAIN u.want = VPages
       /\ DOMAIN u.mem[p] = Units
  BY <1>7, <1>8 DEF J, J0, MapOK, ContentOK, Formed
<1>13. Less(due, v) \in [Vmrs -> Nat] /\ Less(due, v)[v] = due[v] - 1
       /\ \A y \in Vmrs : y /= v => Less(due, v)[y] = due[y]
  <2>1. due[v] >= 1 BY DEF v
  <2> QED BY <2>1, <1>8, <1>12, DueLess
<1>14. DueTrade(u.pte[p].vmr, VmrPte(v).vmr, due, Less(due, v))
  <2>1. u.pte[p].vmr = 0 BY <1>7, ZeroIs
  <2>2. ASSUME NEW y \in Vmrs
        PROVE Less(due, v)[y] + (IF v = y THEN 1 ELSE 0) = due[y] + (IF 0 = y THEN 1 ELSE 0)
    <3>1. due[y] \in Nat /\ y /= 0 BY <1>12, Finite
    <3>2. CASE y = v BY <3>1, <3>2, <1>13
    <3>3. CASE y /= v BY <3>1, <3>3, <1>13
    <3> QED BY <3>2, <3>3
  <2> QED BY <2>1, <2>2, <1>11 DEF DueTrade
<1>15. J0(t, hold, b, Less(due, v)) /\ t.pte[p] = VmrPte(v) /\ \A q \in VPages : q /= p => t.pte[q] = u.pte[q]
  <2>1. t.mem = u.mem /\ t.disk = u.disk BY <1>4 DEF Differ, Fields
  <2>2. DOMAIN t.want = VPages /\ t.want[p] = x /\ \A q \in VPages : q /= p => t.want[q] = u.want[q]
    BY <1>4, <1>8, <1>12
  <2>3. Differ(u, t, {"pte", "mem", "want", "tlb"}) BY <1>4 DEF Differ
  <2>4. PageFits(p, VmrPte(v)) BY <1>8, <1>11 DEF PageFits
  <2>6. Formed(t.mem[p], t.want[p]) BY <1>8, <1>10, <1>12, <2>1, <2>2 DEF Formed
  <2>5. PageStep(u, t, p, VmrPte(v)) BY <1>4, <1>5, <1>10, <1>11, <1>12, <2>1, <2>2, <2>3, <2>6 DEF PageStep
  <2> QED BY <2>4, <2>5, <1>12, <1>13, <1>14, PageFrame
<1>16. TlbOK(t.pte, t.tlb)
  <2>1. t.tlb = u.tlb BY <1>4 DEF Differ, Fields
  <2>2. u.tlb[p] = {} BY <1>7, <1>8, <1>12, ZeroIs DEF TlbOK
  <2>3. ASSUME NEW q \in VPages, t.tlb[q] /= {} PROVE t.tlb[q] = t.pte[q].bits
    <3>1. q /= p BY <2>1, <2>2, <2>3
    <3> QED BY <3>1, <2>1, <2>3, <1>12, <1>15 DEF TlbOK
  <2> QED BY <2>1, <2>3, <1>12 DEF TlbOK
<1>17. \A q \in VPages : q /= p => t.pte[q] = s.pte[q] BY <1>7, <1>15, <1>w
<1>18. Mapped(s, t, hold)
  <2>1. Differ(s, t, {"pte", "vmrs", "files", "host", "tlb", "want", "mem", "tabs", "next", "used", "panic", "vmrs0"})
    BY <1>1, <1>4, <1>7 DEF Kept2, Differ
  <2>2. t.files = u.files /\ t.host = u.host BY <1>4 DEF Differ, Fields
  <2>3. Held(s, t, hold) BY <2>2, <1>w, <1>7 DEF Kept2, Held
  <2> QED BY <2>1, <2>3 DEF Mapped
<1>19. Serves(c, t, hold)
  <2>1. t.files = u.files /\ t.host = u.host /\ t.vmrs = u.vmrs /\ t.disk = u.disk BY <1>4 DEF Differ, Fields
  <2> QED BY <2>1, <1>8, <1>9, <1>d, <1>w DEF Serves, SameRegion, v
<1> QED BY <1>15, <1>16, <1>17, <1>18, <1>19 DEF J, v

----------------------------------------------------------------------------
(* __do_mmap.                                                              *)

\* Its two loops: the pages are entered, and loaded when they must be.
MapAll(s, at, length, f, offset, v, s0) ==
    FoldLeft(LAMBDA t, a : [(IF __va_avail(__walk_create(t, a), a) THEN __walk_create(t, a)
                             ELSE __do_munmap(__walk_create(t, a), a, PGSIZE)) EXCEPT
                !.pte[PageOf(a)] = VmrPte(v), !.want[PageOf(a)] = Wanted(s, a, at, length, f, offset)],
             s0, Steps(at, length))
\* One page of the loop that loads a populated mapping, and the loop.
FillOne(c, t, a) == IF t.panic THEN t ELSE Expect(__handle_page_fault(t, a, c.prot), {0})
FillAll(t, prot, at, length) ==
    FoldLeft(LAMBDA u, a : IF u.panic THEN u ELSE Expect(__handle_page_fault(u, a, prot), {0}),
             t, Steps(at, length))
\* __do_mmap once the address is chosen.
MmapAt(s, at, length, prot, flags, f, offset) ==
    LET v == __vmr_alloc(s, at, length, f, offset, NPage(length), prot)
        w == MapAll(s, at, length, f, offset, v.r, v.k)
    IN  IF v.r = 0 THEN [k |-> v.k, r |-> None]
        ELSE [k |-> IF w.demand /\ "POPULATE" \notin flags THEN w ELSE FillAll(w, prot, at, length),
              r |-> at]

\* __do_mmap chooses the address and maps there.
LEMMA DoMmapIs ==
    ASSUME NEW s, NEW addr, NEW length, NEW prot, NEW flags, NEW f, NEW offset
    PROVE  __do_mmap(s, addr, length, prot, flags, f, offset)
             = IF "FIXED" \notin flags
               THEN IF __vm_alloc(s, NPage(length)) = 0 THEN [k |-> s, r |-> None]
                    ELSE MmapAt(s, __vm_alloc(s, NPage(length)), length, prot, flags, f, offset)
               ELSE IF addr % PGSIZE /= 0 \/ ~__valid_user_range(s, addr, length)
                    THEN [k |-> s, r |-> None]
                    ELSE MmapAt(s, addr, length, prot, flags, f, offset)
BY Zenon DEF __do_mmap, MmapAt, MapAll, FillAll, NPage

Owes(c, i) == [c.due EXCEPT ![c.v] = c.n - i]
\* What holds after i pages.
MapP(c, i, t) ==
    /\ Shape(t) /\ (c.s0.panic => t.panic)
    /\ c.live /\ Live(t) =>
         /\ J(t, c.hold, c.b, Owes(c, i)) /\ Mapped(c.s0, t, c.hold) /\ Serves(c, t, c.hold)
         /\ \A p \in VPages : (\A j \in 1 .. i : PageOf(c.q[j]) /= p) => t.pte[p] = c.s0.pte[p]
MapLoop == INSTANCE FoldRule WITH Op <- MapOne, P <- MapP

\* The loop of __do_mmap that enters the pages, as a repetition of its step.
LEMMA MapIs ==
    ASSUME NEW c, NEW s0
    PROVE  MapAll(c.s, c.at, c.length, c.f, c.offset, c.v, s0)
             = MapLoop!Iter(c, s0, Steps(c.at, c.length))[DOMAIN Steps(c.at, c.length)]
BY DEF MapAll, MapOne, MapLoop!Iter, MapLoop!Last, FoldLeft, MapThenFoldSet, Max

FillP(c, i, t) ==
    /\ Shape(t) /\ (c.s0.panic => t.panic)
    /\ c.live /\ Live(t) =>
         /\ J(t, c.hold, c.b, c.due) /\ Mapped(c.s0, t, c.hold)
FillLoop == INSTANCE FoldRule WITH Op <- FillOne, P <- FillP

\* The loop of __do_mmap that loads the pages, as a repetition of its step.
LEMMA FillIs ==
    ASSUME NEW c, NEW s0, NEW at, NEW length
    PROVE  FillAll(s0, c.prot, at, length)
             = FillLoop!Iter(c, s0, Steps(at, length))[DOMAIN Steps(at, length)]
BY DEF FillAll, FillOne, FillLoop!Iter, FillLoop!Last, FoldLeft, MapThenFoldSet, Max

\* The addresses of a loop are a finite sequence of integers.
LEMMA StepsInt ==
    ASSUME NEW at \in Int, NEW length \in Int
    PROVE  \E n \in Nat : DOMAIN Steps(at, length) = 1 .. n /\ \A i \in 1 .. n : Steps(at, length)[i] \in Int
<1>1. PICK n \in Nat : DOMAIN Steps(at, length) = 1 .. n
                       /\ \A i \in 1 .. n : Steps(at, length)[i] = at + (i - 1) * PGSIZE
  BY StepsAre
<1>2. ASSUME NEW i \in 1 .. n PROVE Steps(at, length)[i] \in Int
  <2>1. PGSIZE \in Nat BY MmapAssumption
  <2>2. (i - 1) * PGSIZE \in Int BY <2>1
  <2> QED BY <1>1, <2>2
<1> QED BY <1>1, <1>2

\* Entering the pages keeps the fields and a panic.
LEMMA MapAllStay ==
    ASSUME NEW s, NEW at \in Int, NEW length \in Int, NEW f, NEW offset, NEW v, NEW s0, Shape(s0),
           NEW t, t = MapAll(s, at, length, f, offset, v, s0)
    PROVE  Shape(t) /\ (s0.panic => t.panic)
<1> DEFINE q == Steps(at, length)
           c == [live |-> FALSE, s |-> s, s0 |-> s0, at |-> at, length |-> length, f |-> f,
                 offset |-> offset, v |-> v]
<1>1. PICK n \in Nat : DOMAIN q = 1 .. n /\ \A i \in 1 .. n : q[i] \in Int BY StepsInt
<1>3. /\ c.live = FALSE /\ c.s0 = s0 /\ c.s = s /\ c.at = at /\ c.length = length /\ c.f = f
      /\ c.offset = offset /\ c.v = v
  OBVIOUS
<1> HIDE DEF c
<1>2. t = MapLoop!Iter(c, s0, q)[DOMAIN q]
  <2>1. MapAll(c.s, c.at, c.length, c.f, c.offset, c.v, s0)
             = MapLoop!Iter(c, s0, Steps(c.at, c.length))[DOMAIN Steps(c.at, c.length)]
    BY MapIs
  <2> QED BY <2>1, <1>3
<1> HIDE DEF q
<1>4. MapP(c, 0, s0) BY <1>3 DEF MapP
<1>5. ASSUME NEW i \in 1 .. n, NEW u, MapP(c, i - 1, u) PROVE MapP(c, i, MapOne(c, u, q[i]))
  <2>1. Shape(u) /\ (s0.panic => u.panic) BY <1>3, <1>5 DEF MapP
  <2>2. q[i] \in Int BY <1>1
  <2>3. Shape(MapOne(c, u, q[i])) /\ (u.panic => MapOne(c, u, q[i]).panic) BY <2>1, <2>2, MapOneStay
  <2> QED BY <2>1, <2>3, <1>3 DEF MapP
<1>6. MapP(c, n, t) BY <1>1, <1>2, <1>4, <1>5, MapLoop!FoldInv
<1> QED BY <1>6, <1>3 DEF MapP

\* Loading the pages keeps the fields and a panic.
LEMMA FillAllStay ==
    ASSUME NEW prot, NEW at \in Int, NEW length \in Int, NEW s0, Shape(s0),
           NEW t, t = FillAll(s0, prot, at, length)
    PROVE  Shape(t) /\ (s0.panic => t.panic)
<1> DEFINE q == Steps(at, length)
           c == [live |-> FALSE, s0 |-> s0, prot |-> prot]
<1>1. PICK n \in Nat : DOMAIN q = 1 .. n /\ \A i \in 1 .. n : q[i] \in Int BY StepsInt
<1>3. c.live = FALSE /\ c.s0 = s0 /\ c.prot = prot OBVIOUS
<1> HIDE DEF c
<1>2. t = FillLoop!Iter(c, s0, q)[DOMAIN q]
  <2>1. FillAll(s0, c.prot, at, length) = FillLoop!Iter(c, s0, q)[DOMAIN q] BY FillIs
  <2> QED BY <2>1, <1>3
<1> HIDE DEF q
<1>4. FillP(c, 0, s0) BY <1>3 DEF FillP
<1>5. ASSUME NEW i \in 1 .. n, NEW u, FillP(c, i - 1, u) PROVE FillP(c, i, FillOne(c, u, q[i]))
  <2>1. Shape(u) /\ (s0.panic => u.panic) BY <1>3, <1>5 DEF FillP
  <2> DEFINE w == Expect(__handle_page_fault(u, q[i], prot), {0})
  <2>2. Shape(w) /\ (u.panic => w.panic) BY <2>1, FaultStay
  <2>3. FillOne(c, u, q[i]) = IF u.panic THEN u ELSE w BY <1>3 DEF FillOne
  <2> HIDE DEF w
  <2>4. Shape(FillOne(c, u, q[i])) /\ (u.panic => FillOne(c, u, q[i]).panic) BY <2>1, <2>2, <2>3
  <2> QED BY <2>1, <2>4, <1>3 DEF FillP
<1>6. FillP(c, n, t) BY <1>1, <1>2, <1>4, <1>5, FillLoop!FoldInv
<1> QED BY <1>6, <1>3 DEF FillP

\* Every page of the area is entered, and what was due is paid.
LEMMA MapAllOK ==
    ASSUME NEW hold, NEW b, NEW due \in [Vmrs -> Nat], NEW s, NEW s0, NEW v \in Vmrs, NEW N \in Nat,
           J(s0, hold, b, [due EXCEPT ![v] = N]),
           NEW at \in Int, NEW length \in Int, NEW f, NEW offset,
           Serves([s |-> s, at |-> at, length |-> length, f |-> f, offset |-> offset, v |-> v], s0, hold),
           NEW n \in Nat, Area(s0, Steps(at, length), n), n <= N,
           NEW t, t = MapAll(s, at, length, f, offset, v, s0), Live(t)
    PROVE  J(t, hold, b, [due EXCEPT ![v] = N - n]) /\ Mapped(s0, t, hold)
<1> DEFINE q == Steps(at, length)
           c == [live |-> TRUE, s |-> s, s0 |-> s0, at |-> at, length |-> length, f |-> f,
                 offset |-> offset, v |-> v, hold |-> hold, b |-> b, due |-> due, n |-> N, q |-> q]
<1>3. /\ c.live = TRUE /\ c.s0 = s0 /\ c.s = s /\ c.at = at /\ c.length = length /\ c.f = f
      /\ c.offset = offset /\ c.v = v /\ c.hold = hold /\ c.b = b /\ c.due = due /\ c.n = N /\ c.q = q
  OBVIOUS
<1> HIDE DEF c
<1>2. t = MapLoop!Iter(c, s0, q)[DOMAIN q]
  <2>1. MapAll(c.s, c.at, c.length, c.f, c.offset, c.v, s0)
             = MapLoop!Iter(c, s0, Steps(c.at, c.length))[DOMAIN Steps(c.at, c.length)]
    BY MapIs
  <2> QED BY <2>1, <1>3
<1>1. /\ DOMAIN q = 1 .. n
      /\ \A i \in 1 .. n : q[i] = PageOf(q[i]) * PGSIZE /\ Fresh(s0, PageOf(q[i]))
      /\ \A i, j \in 1 .. n : PageOf(q[i]) = PageOf(q[j]) => i = j
  BY DEF Area
<1>s. Serves(c, s0, hold) BY <1>3 DEF Serves
<1>0. Shape(s0) /\ s0.panic = FALSE BY DEF J, J0
<1> HIDE DEF q
<1>o. ASSUME NEW i \in 0 .. n
      PROVE  Owes(c, i) = [due EXCEPT ![v] = N - i] /\ N - i \in Nat /\ Owes(c, i)[v] = N - i
  BY <1>3 DEF Owes
<1>4. MapP(c, 0, s0)
  <2>1. Owes(c, 0) = [due EXCEPT ![v] = N] BY <1>3 DEF Owes
  <2>2. Mapped(s0, s0, hold) BY DEF Mapped, Differ, Held
  <2> QED BY <2>1, <2>2, <1>0, <1>3, <1>s DEF MapP
<1>5. ASSUME NEW i \in 1 .. n, NEW u, MapP(c, i - 1, u) PROVE MapP(c, i, MapOne(c, u, q[i]))
  <2> DEFINE w == MapOne(c, u, q[i])
             p == PageOf(q[i])
  <2>1. Shape(u) /\ (s0.panic => u.panic) BY <1>3, <1>5 DEF MapP
  <2>a. p \in Nat /\ q[i] = p * PGSIZE /\ Fresh(s0, p) BY <1>1, Finite DEF Fresh
  <2>2. q[i] \in Int
    <3>1. PGSIZE \in Nat BY MmapAssumption
    <3> HIDE DEF p
    <3> QED BY <2>a, <3>1
  <2>3. Shape(w) /\ (u.panic => w.panic) BY <2>1, <2>2, MapOneStay
  <2> HIDE DEF w, p
  <2>4. ASSUME Live(w)
        PROVE  /\ J(w, hold, b, Owes(c, i)) /\ Mapped(s0, w, hold) /\ Serves(c, w, hold)
               /\ \A x \in VPages : (\A j \in 1 .. i : PageOf(q[j]) /= x) => w.pte[x] = s0.pte[x]
    <3>1. Live(u) BY <2>1, <2>3, <2>4 DEF Live, Shape
    <3>2. /\ J(u, hold, b, Owes(c, i - 1)) /\ Mapped(s0, u, hold) /\ Serves(c, u, hold)
          /\ \A x \in VPages : (\A j \in 1 .. (i - 1) : PageOf(q[j]) /= x) => u.pte[x] = s0.pte[x]
      BY <3>1, <1>3, <1>5 DEF MapP
    <3>3. Fresh(u, p)
      <4>1. \A j \in 1 .. (i - 1) : PageOf(q[j]) /= p
        <5>1. \A j \in 1 .. (i - 1) : j \in 1 .. n /\ j /= i OBVIOUS
        <5> QED BY <5>1, <1>1 DEF p
      <4>2. u.pte[p] = s0.pte[p] BY <4>1, <3>2, <2>a DEF Fresh
      <4> QED BY <4>2, <2>a DEF Fresh
    <3>4. Owes(c, i - 1)[c.v] >= 1 /\ Less(Owes(c, i - 1), c.v) = Owes(c, i)
      <4>1. i - 1 \in 0 .. n /\ i \in 0 .. n /\ i - 1 < N OBVIOUS
      <4>2. /\ Owes(c, i - 1) = [due EXCEPT ![v] = N - (i - 1)] /\ Owes(c, i - 1)[v] = N - (i - 1)
            /\ Owes(c, i) = [due EXCEPT ![v] = N - i]
        BY <4>1, <1>o
      <4>3. N - (i - 1) >= 1 /\ (N - (i - 1)) - 1 = N - i BY <4>1
      <4>4. [[due EXCEPT ![v] = N - (i - 1)] EXCEPT ![v] = @ - 1] = [due EXCEPT ![v] = N - i]
        <5> DEFINE x == N - (i - 1)
        <5>1. x - 1 = N - i BY <4>3
        <5> HIDE DEF x
        <5>2. [[due EXCEPT ![v] = x] EXCEPT ![v] = @ - 1] = [due EXCEPT ![v] = x - 1] OBVIOUS
        <5> QED BY <5>1, <5>2 DEF x
      <4> QED BY <4>2, <4>3, <4>4, <1>3 DEF Less
    <3>5. w = MapOne(c, u, q[i]) BY DEF w
    <3>6. /\ J(w, hold, b, Less(Owes(c, i - 1), c.v)) /\ Mapped(u, w, hold) /\ Serves(c, w, hold)
          /\ \A x \in VPages : x /= p => w.pte[x] = u.pte[x]
      BY <2>4, <2>a, <3>2, <3>3, <3>4, <3>5, MapOneOK
    <3>7. Mapped(s0, w, hold) BY <3>2, <3>6 DEF Mapped, Differ, Held
    <3>8. ASSUME NEW x \in VPages, \A j \in 1 .. i : PageOf(q[j]) /= x PROVE w.pte[x] = s0.pte[x]
      <4>1. i \in 1 .. i /\ \A j \in 1 .. (i - 1) : j \in 1 .. i OBVIOUS
      <4>2. x /= p BY <4>1, <3>8 DEF p
      <4> QED BY <4>1, <4>2, <3>2, <3>6, <3>8
    <3> QED BY <3>4, <3>6, <3>7, <3>8
  <2>5. MapP(c, i, w) BY <2>1, <2>3, <2>4, <1>3 DEF MapP
  <2> QED BY <2>5 DEF w
<1>6. MapP(c, n, t) BY <1>1, <1>2, <1>4, <1>5, MapLoop!FoldInv
<1>7. n \in 0 .. n OBVIOUS
<1>8. Owes(c, n) = [due EXCEPT ![v] = N - n] BY <1>7, <1>o
<1> QED BY <1>6, <1>8, <1>3 DEF MapP

Inside(q, n) == DOMAIN q = 1 .. n /\ \A i \in 1 .. n : PageOf(q[i]) \in VPages

\* Loading the pages at once faults them in.
LEMMA FillAllOK ==
    ASSUME NEW hold, NEW b, NEW due, NEW s0, J(s0, hold, b, due), NEW prot \in SUBSET RWX,
           NEW at \in Int, NEW length \in Int, NEW n \in Nat, Inside(Steps(at, length), n),
           NEW t, t = FillAll(s0, prot, at, length), Live(t)
    PROVE  J(t, hold, b, due) /\ Mapped(s0, t, hold)
<1> DEFINE q == Steps(at, length)
           c == [live |-> TRUE, s0 |-> s0, prot |-> prot, hold |-> hold, b |-> b, due |-> due]
<1>1. DOMAIN q = 1 .. n /\ \A i \in 1 .. n : PageOf(q[i]) \in VPages BY DEF Inside
<1>3. c.live = TRUE /\ c.s0 = s0 /\ c.prot = prot /\ c.hold = hold /\ c.b = b /\ c.due = due OBVIOUS
<1> HIDE DEF c
<1>2. t = FillLoop!Iter(c, s0, q)[DOMAIN q]
  <2>1. FillAll(s0, c.prot, at, length) = FillLoop!Iter(c, s0, q)[DOMAIN q] BY FillIs
  <2> QED BY <2>1, <1>3
<1> HIDE DEF q
<1>0. Shape(s0) BY DEF J, J0
<1>4. FillP(c, 0, s0)
  <2>1. Mapped(s0, s0, hold) BY DEF Mapped, Differ, Held
  <2> QED BY <2>1, <1>0, <1>3 DEF FillP
<1>5. ASSUME NEW i \in 1 .. n, NEW u, FillP(c, i - 1, u) PROVE FillP(c, i, FillOne(c, u, q[i]))
  <2>1. Shape(u) /\ (s0.panic => u.panic) BY <1>3, <1>5 DEF FillP
  <2> DEFINE w == Expect(__handle_page_fault(u, q[i], prot), {0})
             z == FillOne(c, u, q[i])
  <2>2. Shape(w) /\ (u.panic => w.panic) BY <2>1, FaultStay
  <2>3. z = IF u.panic THEN u ELSE w BY <1>3 DEF FillOne
  <2>w. w = Expect(__handle_page_fault(u, q[i], prot), {0}) OBVIOUS
  <2> HIDE DEF w, z
  <2>4. Shape(z) /\ (u.panic => z.panic) BY <2>1, <2>2, <2>3
  <2>5. ASSUME Live(z) PROVE J(z, hold, b, due) /\ Mapped(s0, z, hold)
    <3>1. Live(u) /\ z = w /\ Live(w) BY <2>1, <2>3, <2>4, <2>5 DEF Live, Shape
    <3>2. J(u, hold, b, due) /\ Mapped(s0, u, hold) BY <3>1, <1>3, <1>5 DEF FillP
    <3>3. J0(u, hold, b, due) BY <3>2 DEF J
    <3>4. /\ J(w, hold, b, due) /\ Held(u, w, hold)
          /\ Differ(u, w, {"pte", "vmrs", "files", "host", "mem", "tlb"})
      BY <3>1, <3>3, <2>w, <1>1, FaultOK
    <3>5. Mapped(s0, w, hold) BY <3>2, <3>4 DEF Mapped, Differ, Held
    <3> QED BY <3>1, <3>4, <3>5
  <2>6. FillP(c, i, z) BY <2>1, <2>4, <2>5, <1>3 DEF FillP
  <2> QED BY <2>6 DEF z
<1>6. FillP(c, n, t) BY <1>1, <1>2, <1>4, <1>5, FillLoop!FoldInv
<1> QED BY <1>6, <1>3 DEF FillP

\* Mapping at an address keeps the fields and a panic.
LEMMA MmapAtStay ==
    ASSUME NEW s, Shape(s), NEW at \in Int, NEW length \in Int, NEW prot, NEW flags, NEW f, NEW offset,
           NEW m, m = MmapAt(s, at, length, prot, flags, f, offset)
    PROVE  Shape(m.k) /\ (s.panic => m.k.panic)
<1> DEFINE v == __vmr_alloc(s, at, length, f, offset, NPage(length), prot)
           w == MapAll(s, at, length, f, offset, v.r, v.k)
           x == FillAll(w, prot, at, length)
<1>1. Shape(v.k) /\ (s.panic => v.k.panic) BY VmrAllocStay
<1>2. m.k = v.k \/ m.k = w \/ m.k = x BY DEF MmapAt
<1> HIDE DEF v
<1>3. Shape(w) /\ (v.k.panic => w.panic) BY <1>1, MapAllStay
<1> HIDE DEF w
<1>4. Shape(x) /\ (w.panic => x.panic) BY <1>3, FillAllStay
<1> HIDE DEF x
<1> QED BY <1>1, <1>2, <1>3, <1>4

\* A mapping of an area: every page that the region counts is entered.
LEMMA MmapAtOK ==
    ASSUME NEW s, NEW hold, NEW b, NEW due, J(s, hold, b, due), NEW at \in Int, NEW length \in Nat,
           Area(s, Steps(at, length), NPage(length)),
           NEW f \in Files \cup {None}, f = None \/ hold[f] >= 1, NEW offset \in Int,
           NEW prot \in SUBSET RWX, NEW flags,
           NEW m, m = MmapAt(s, at, length, prot, flags, f, offset), Live(m.k)
    PROVE  m.r \in {None, at} /\ Mapped(s, m.k, hold) /\ J(m.k, hold, b, due)
<1> DEFINE N == NPage(length)
           v == __vmr_alloc(s, at, length, f, offset, N, prot)
           r == v.r
           w == MapAll(s, at, length, f, offset, r, v.k)
           x == FillAll(w, prot, at, length)
           y == IF w.demand /\ "POPULATE" \notin flags THEN w ELSE x
           due1 == [due EXCEPT ![r] = N]
<1>0. J0(s, hold, b, due) /\ Shape(s) /\ TlbOK(s.pte, s.tlb) /\ due \in [Vmrs -> Nat] /\ length \in Int
  BY DEF J, J0, MapOK
<1>1. m = IF r = 0 THEN [k |-> v.k, r |-> None] ELSE [k |-> y, r |-> at] BY DEF MmapAt
<1>2. Shape(v.k) /\ Differ(s, v.k, {"vmrs0", "next", "used", "panic", "files", "vmrs"})
  BY <1>0, VmrAllocStay
<1>N. N \in Nat BY NPageIs
<1>a. Area(s, Steps(at, length), N) OBVIOUS
<1>v. v = __vmr_alloc(s, at, length, f, offset, N, prot) OBVIOUS
<1> HIDE DEF N, v
<1>3. Shape(w) /\ (v.k.panic => w.panic) BY <1>0, <1>2, MapAllStay
<1>w. w = MapAll(s, at, length, f, offset, r, v.k) OBVIOUS
<1> HIDE DEF w
<1>4. Shape(x) /\ (w.panic => x.panic) BY <1>0, <1>3, FillAllStay
<1>x. x = FillAll(w, prot, at, length) OBVIOUS
<1> HIDE DEF x
<1>5. Shape(y) /\ (w.panic => y.panic) BY <1>3, <1>4
<1>y. y = w \/ y = x OBVIOUS
<1> HIDE DEF y
<1>6. Live(v.k)
  <2>1. CASE r = 0 BY <2>1, <1>1
  <2>2. CASE r /= 0
    <3>1. m.k = y BY <1>1, <2>2
    <3>2. y.panic = FALSE BY <3>1 DEF Live
    <3> QED BY <3>2, <1>2, <1>3, <1>5 DEF Live, Shape
  <2> QED BY <2>1, <2>2
<1>7. /\ v.r \in {0} \cup Vmrs
      /\ v.r = 0 => J0(v.k, hold, b, due) /\ Held(s, v.k, hold)
      /\ v.r /= 0 =>
           /\ due[v.r] = 0 /\ \A p \in VPages : s.pte[p].vmr /= v.r
           /\ [due EXCEPT ![v.r] = N] \in [Vmrs -> Nat]
           /\ J0(v.k, hold, b, [due EXCEPT ![v.r] = N]) /\ Held(s, v.k, hold)
           /\ v.k.vmrs[v.r] = [addr |-> at, length |-> length, file |-> f,
                               offset |-> offset, refcnt |-> N, prot |-> prot]
  <2>1. J0(s, hold, b, due) BY <1>0
  <2>2. at \in Int /\ length \in Int /\ f \in Files \cup {None} /\ offset \in Int
        /\ prot \in SUBSET RWX /\ (f = None \/ hold[f] >= 1) BY <1>0
  <2> HIDE DEF due1, r
  <2> QED BY ONLY <2>1, <2>2, <1>N, <1>v, <1>6, VmrAllocOK
<1>8. v.k.pte = s.pte /\ v.k.tlb = s.tlb BY <1>2 DEF Differ, Fields
<1>9. Mapped(s, v.k, hold)
  <2>1. Differ(s, v.k, {"pte", "vmrs", "files", "host", "tlb", "want", "mem", "tabs", "next", "used", "panic", "vmrs0"})
    BY <1>2 DEF Differ
  <2> QED BY <2>1, <1>7 DEF Mapped
<1>10. CASE r = 0
  <2>1. m.k = v.k /\ m.r = None BY <1>1, <1>10
  <2>2. J(v.k, hold, b, due) BY <1>0, <1>7, <1>8, <1>10 DEF J
  <2> QED BY <2>1, <2>2, <1>9
<1>11. CASE r /= 0
  <2>1. m.k = y /\ m.r = at /\ r \in Vmrs BY <1>1, <1>7, <1>11
  <2>2. J(v.k, hold, b, due1) BY <1>0, <1>7, <1>8, <1>11 DEF J
  <2>3. Serves([s |-> s, at |-> at, length |-> length, f |-> f, offset |-> offset, v |-> r], v.k, hold)
    <3> DEFINE c == [s |-> s, at |-> at, length |-> length, f |-> f, offset |-> offset, v |-> r]
               e == v.k.vmrs[r]
    <3>1. c.s = s /\ c.at = at /\ c.length = length /\ c.f = f /\ c.offset = offset /\ c.v = r OBVIOUS
    <3>2. e.addr = at /\ e.length = length /\ e.file = f /\ e.offset = offset BY <1>7, <1>11
    <3>3. NameOf(s.files, s.host, f) = NameOf(v.k.files, v.k.host, f)
      <4>1. CASE f = None BY <4>1 DEF NameOf
      <4>2. CASE f /= None
        <5>1. f \in Files /\ hold[f] >= 1 BY <4>2
        <5>2. Held(s, v.k, hold) BY <1>7, <1>11
        <5> QED BY <5>1, <5>2 DEF Held
      <4> QED BY <4>1, <4>2
    <3> HIDE DEF c
    <3>4. v.k.disk = s.disk BY <1>2 DEF Differ, Fields
    <3>5. Serves(c, v.k, hold) BY <2>1, <3>1, <3>2, <3>3, <3>4 DEF Serves
    <3> QED BY <3>5 DEF c
  <2>4. Area(v.k, Steps(at, length), N) BY <1>8, <1>a DEF Area, Fresh
  <2>5. Live(y) /\ Live(w)
    <3>1. y.panic = FALSE BY <2>1 DEF Live
    <3> QED BY <3>1, <1>3, <1>5 DEF Live, Shape
  <2>7. J(w, hold, b, due) /\ Mapped(v.k, w, hold)
    <3>1. J(v.k, hold, b, [due EXCEPT ![r] = N]) BY <2>2
    <3>4. N <= N BY <1>N
    <3>5. w = MapAll(s, at, length, f, offset, r, v.k) /\ due \in [Vmrs -> Nat] /\ r \in Vmrs /\ length \in Int /\ Live(w)
      BY <2>1, <2>5, <1>0, <1>w
    <3> HIDE DEF r
    <3>2. J(w, hold, b, [due EXCEPT ![r] = N - N]) /\ Mapped(v.k, w, hold)
      BY <3>1, <3>4, <3>5, <2>3, <2>4, <1>N, MapAllOK
    <3>3. [due EXCEPT ![r] = N - N] = due
      <4>1. N - N = 0 BY <1>N
      <4> QED BY <4>1, <1>0, <1>7, <1>11 DEF r
    <3> QED BY <3>2, <3>3
  <2>8. Inside(Steps(at, length), N) BY <1>a DEF Area, Fresh, Inside
  <2>9. J(y, hold, b, due) /\ Mapped(w, y, hold)
    <3>1. CASE y = w
      <4>1. Mapped(w, w, hold) BY DEF Mapped, Differ, Held
      <4> QED BY <3>1, <4>1, <2>7
    <3>2. CASE y = x
      <4>1. Live(x) BY <2>5, <3>2
      <4>2. J(w, hold, b, due) BY <2>7
      <4>3. J(x, hold, b, due) /\ Mapped(w, x, hold) BY <4>1, <4>2, <2>8, <1>x, <1>N, FillAllOK
      <4> QED BY <4>3, <3>2
    <3> QED BY <3>1, <3>2, <1>y
  <2>10. Mapped(s, y, hold) BY <2>7, <2>9, <1>9 DEF Mapped, Differ, Held
  <2> QED BY <2>1, <2>9, <2>10
<1> QED BY <1>10, <1>11

\* __do_mmap keeps the fields and a panic.
LEMMA DoMmapStay ==
    ASSUME NEW s, Shape(s), NEW addr \in Int, NEW length \in Int, NEW prot, NEW flags, "FIXED" \in flags,
           NEW f, NEW offset, NEW m, m = __do_mmap(s, addr, length, prot, flags, f, offset)
    PROVE  Shape(m.k) /\ (s.panic => m.k.panic)
<1> DEFINE z == MmapAt(s, addr, length, prot, flags, f, offset)
<1>1. m = IF addr % PGSIZE /= 0 \/ ~__valid_user_range(s, addr, length) THEN [k |-> s, r |-> None] ELSE z
  BY DoMmapIs
<1>2. Shape(z.k) /\ (s.panic => z.k.panic) BY MmapAtStay
<1> HIDE DEF z
<1> QED BY <1>1, <1>2

\* A mapping at a given address: all of it is entered, or nothing is done.
LEMMA FixedOK ==
    ASSUME NEW s, NEW hold, NEW b, NEW due, J(s, hold, b, due), NEW addr \in Nat, NEW length \in Nat,
           NEW f \in Files \cup {None}, f = None \/ hold[f] >= 1, NEW offset \in Int,
           NEW prot \in SUBSET RWX, NEW flags, "FIXED" \in flags,
           NEW m, m = __do_mmap(s, addr, length, prot, flags, f, offset), Live(m.k)
    PROVE  /\ m.r \in {None, addr} /\ Mapped(s, m.k, hold) /\ J(m.k, hold, b, due)
           /\ m.r /= None => addr % PGSIZE = 0 /\ addr + length <= Max0
<1> DEFINE z == MmapAt(s, addr, length, prot, flags, f, offset)
           bad == addr % PGSIZE /= 0 \/ ~__valid_user_range(s, addr, length)
<1>1. m = IF bad THEN [k |-> s, r |-> None] ELSE z BY DoMmapIs
<1>2. CASE bad
  <2>1. m.k = s /\ m.r = None BY <1>1, <1>2
  <2>2. Mapped(s, s, hold) BY DEF Mapped, Differ, Held
  <2> QED BY <2>1, <2>2
<1>3. CASE ~bad
  <2>1. s.mmap_max = Max0 BY DEF J, J0, KernelOK
  <2>2. addr % PGSIZE = 0 /\ addr + length <= Max0 BY <1>3, <2>1 DEF __valid_user_range
  <2>3. Area(s, Steps(addr, length), NPage(length)) BY <2>2, FixedArea
  <2>4. m = z BY <1>1, <1>3
  <2>z. z = MmapAt(s, addr, length, prot, flags, f, offset) OBVIOUS
  <2> HIDE DEF z, bad
  <2>5. m.r \in {None, addr} /\ Mapped(s, m.k, hold) /\ J(m.k, hold, b, due)
    <3>1. addr \in Int OBVIOUS
    <3>2. m = MmapAt(s, addr, length, prot, flags, f, offset) BY <2>4, <2>z
    <3> QED BY <2>3, <3>1, <3>2, MmapAtOK
  <2> QED BY <2>2, <2>5
<1> QED BY <1>2, <1>3

\* A mapping wherever there is room.
LEMMA AnywhereOK ==
    ASSUME NEW s, NEW hold, NEW b, NEW due, J(s, hold, b, due), NEW addr, NEW length \in Nat,
           NEW f \in Files \cup {None}, f = None \/ hold[f] >= 1, NEW offset \in Int,
           NEW prot \in SUBSET RWX, NEW flags, "FIXED" \notin flags,
           NEW m, m = __do_mmap(s, addr, length, prot, flags, f, offset)
    PROVE  Shape(m.k) /\ (Live(m.k) => m.r \in {None} \cup Nat /\ J(m.k, hold, b, due))
<1> DEFINE at == __vm_alloc(s, NPage(length))
           z == MmapAt(s, at, length, prot, flags, f, offset)
<1>0. J0(s, hold, b, due) /\ Shape(s) BY DEF J, J0
<1>1. m = IF at = 0 THEN [k |-> s, r |-> None] ELSE z BY DoMmapIs
<1>2. CASE at = 0
  <2>1. m.k = s /\ m.r = None BY <1>1, <1>2
  <2> QED BY <2>1, <1>0
<1>3. CASE at /= 0
  <2>1. at \in Nat /\ Area(s, Steps(at, length), NPage(length)) BY <1>0, <1>3, FreeArea
  <2> HIDE DEF at
  <2>3. m = MmapAt(s, at, length, prot, flags, f, offset) BY <1>1, <1>3
  <2>4. at \in Int /\ length \in Int BY <2>1
  <2>5. Shape(m.k) BY <1>0, <2>3, <2>4, MmapAtStay
  <2>6. ASSUME Live(m.k) PROVE m.r \in {None, at} /\ J(m.k, hold, b, due)
    BY <2>1, <2>3, <2>4, <2>6, MmapAtOK
  <2> QED BY <2>1, <2>5, <2>6
<1> QED BY <1>2, <1>3

\* munmap
LEMMA MunmapOK ==
    ASSUME NEW s, NEW hold, NEW b, NEW due, J(s, hold, b, due), NEW addr \in Nat, NEW length \in Nat
    PROVE  J(do_munmap(s, addr, length), hold, b, due)
<1>0. J0(s, hold, b, due) BY DEF J
<1>1. CASE addr % PGSIZE /= 0 \/ ~__valid_user_range(s, addr, length) BY <1>1 DEF do_munmap
<1>2. CASE ~(addr % PGSIZE /= 0 \/ ~__valid_user_range(s, addr, length))
  <2>1. s.mmap_max = Max0 BY DEF J, J0, KernelOK
  <2>2. addr % PGSIZE = 0 /\ addr + length <= Max0 BY <1>2, <2>1 DEF __valid_user_range
  <2>3. Area(s, Steps(addr, length), NPage(length)) BY <2>2, FixedArea
  <2>4. \A i \in DOMAIN Steps(addr, length) : PageOf(Steps(addr, length)[i]) \in VPages \ KernelRange
    BY <2>3 DEF Area, Fresh
  <2>5. addr \in Int /\ length \in Int OBVIOUS
  <2>6. J(__do_munmap(s, addr, length), hold, b, due) BY <1>0, <2>4, <2>5, DoMunmapOK
  <2> QED BY <2>6, <1>2 DEF do_munmap
<1> QED BY <1>1, <1>2

\* A mapping, at a given address or anywhere.
LEMMA MmapOK ==
    ASSUME NEW s, NEW hold, NEW b, NEW due, J(s, hold, b, due), NEW addr \in Nat, NEW length \in Nat,
           NEW f \in Files \cup {None}, f = None \/ hold[f] >= 1, NEW offset \in Int,
           NEW prot \in SUBSET RWX, NEW flags,
           NEW m, m = __do_mmap(s, addr, length, prot, flags, f, offset)
    PROVE  Shape(m.k) /\ (Live(m.k) => m.r \in {None} \cup Nat /\ J(m.k, hold, b, due))
<1>1. CASE "FIXED" \in flags
  <2>1. Shape(m.k)
    <3>1. Shape(s) /\ addr \in Int /\ length \in Int BY DEF J, J0
    <3> QED BY <3>1, <1>1, DoMmapStay
  <2>2. Live(m.k) => m.r \in {None, addr} /\ J(m.k, hold, b, due) BY <1>1, FixedOK
  <2> QED BY <2>1, <2>2
<1>2. CASE "FIXED" \notin flags BY <1>2, AnywhereOK
<1> QED BY <1>1, <1>2

\* The heap may be told to end lower.
LEMMA LowerOK ==
    ASSUME NEW s, NEW hold, NEW b, NEW due, J(s, hold, b, due), NEW r \in Nat, r < s.brk_max,
           NEW t, t = [s EXCEPT !.brk_max = r]
    PROVE  J(t, hold, b, due)
<1>1. Shape(s) /\ s.panic = FALSE BY DEF J, J0
<1>2. Shape(t) /\ t.panic = FALSE /\ t.brk_max = r /\ \A x \in Fields \ {"brk_max"} : t[x] = s[x]
  BY <1>1 DEF Shape, Fields
<1>3. /\ t.fds = s.fds /\ t.files = s.files /\ t.host = s.host /\ t.pte = s.pte /\ t.vmrs = s.vmrs
      /\ t.brk = s.brk /\ t.brk_min = s.brk_min /\ t.mmap_max = s.mmap_max
      /\ t.mem = s.mem /\ t.want = s.want /\ t.stale = s.stale /\ t.disk = s.disk /\ t.tlb = s.tlb
  BY <1>2 DEF Fields
<1>4. Max0 \in Nat BY MaxFacts
<1>5. BrkOK(t.brk, t.brk_min, t.brk_max, b)
  <2>1. BrkOK(s.brk, s.brk_min, s.brk_max, b) BY DEF J, J0
  <2> QED BY <2>1, <1>2, <1>3, <1>4 DEF BrkOK
<1> QED BY <1>2, <1>3, <1>5 DEF J, J0

Lower(m) == IF m.r /= None /\ m.r < m.k.brk_max THEN [m EXCEPT !.k.brk_max = m.r] ELSE m
Release(m, f) == IF f = None THEN m ELSE [m EXCEPT !.k = file_decref(@, f)]
Result(m) == m = [k |-> m.k, r |-> m.r]

\* do_mmap may lower the highest break.
LEMMA LowerStay ==
    ASSUME NEW m, Result(m), Shape(m.k), NEW l, l = Lower(m)
    PROVE  /\ Result(l) /\ Shape(l.k) /\ l.k.panic = m.k.panic
           /\ \/ l.k = m.k
              \/ /\ m.r /= None /\ m.r < m.k.brk_max
                 /\ l.k = [m.k EXCEPT !.brk_max = m.r]
<1> DEFINE u == [m.k EXCEPT !.brk_max = m.r]
<1>1. Shape(u) /\ u.panic = m.k.panic BY DEF Shape, Fields
<1>2. l = m \/ (m.r /= None /\ m.r < m.k.brk_max /\ l.k = u /\ Result(l)) BY DEF Lower, Result
<1> QED BY <1>1, <1>2

\* mmap with the reference of the file it took already.
LEMMA MmapHeld ==
    ASSUME NEW s, NEW hold, NEW b, NEW due, J(s, hold, b, due), NEW addr \in Nat, NEW length \in Nat,
           NEW f \in Files \cup {None}, f = None \/ hold[f] >= 1, NEW offset \in Int,
           NEW prot \in SUBSET RWX, NEW flags,
           NEW m, m = Lower(__do_mmap(s, addr, length, prot, flags, f, offset))
    PROVE  Result(m) /\ Shape(m.k) /\ (Live(m.k) => J(m.k, hold, b, due))
<1> DEFINE n == __do_mmap(s, addr, length, prot, flags, f, offset)
<1>r. Result(n)
  <2> DEFINE a1 == MmapAt(s, __vm_alloc(s, NPage(length)), length, prot, flags, f, offset)
             a2 == MmapAt(s, addr, length, prot, flags, f, offset)
  <2>1. Result(a1) BY DEF MmapAt, Result
  <2>2. Result(a2) BY DEF MmapAt, Result
  <2>3. n = [k |-> s, r |-> None] \/ n = a1 \/ n = a2 BY DoMmapIs
  <2> HIDE DEF a1, a2, n
  <2>4. Result([k |-> s, r |-> None]) BY DEF Result
  <2> QED BY <2>1, <2>2, <2>3, <2>4
<1>1. Shape(n.k) /\ (Live(n.k) => n.r \in {None} \cup Nat /\ J(n.k, hold, b, due)) BY MmapOK
<1>m. m = Lower(n) OBVIOUS
<1> HIDE DEF n
<1>2. /\ Result(m) /\ Shape(m.k) /\ m.k.panic = n.k.panic
      /\ \/ m.k = n.k
         \/ n.r /= None /\ n.r < n.k.brk_max /\ m.k = [n.k EXCEPT !.brk_max = n.r]
  BY <1>1, <1>r, <1>m, LowerStay
<1>3. ASSUME Live(m.k) PROVE J(m.k, hold, b, due)
  <2>1. Live(n.k) BY <1>2, <1>3 DEF Live
  <2>2. J(n.k, hold, b, due) BY <1>1, <2>1
  <2>3. CASE m.k = n.k BY <2>2, <2>3
  <2>4. CASE n.r /= None /\ n.r < n.k.brk_max /\ m.k = [n.k EXCEPT !.brk_max = n.r]
    <3>1. n.r \in Nat BY <2>4, <1>1, <2>1
    <3> QED BY <3>1, <2>4, <2>2, LowerOK
  <2> QED BY <2>3, <2>4, <1>2
<1> QED BY <1>2, <1>3

\* do_mmap keeps the invariant.
LEMMA DoMmapOK ==
    ASSUME NEW s, NEW hold, NEW b, NEW due, J(s, hold, b, due), NEW addr \in Nat, NEW length \in Nat,
           NEW prot \in SUBSET RWX, NEW flags, NEW fd, NEW offset \in Nat,
           NEW m, m = do_mmap(s, addr, length, prot, flags, fd, offset)
    PROVE  Shape(m.k) /\ (Live(m.k) => J(m.k, hold, b, due))
<1> DEFINE g == file_get(s, fd)
           h == Lower(__do_mmap(g.k, addr, length, prot, flags, g.r, offset))
           l == Lower(__do_mmap(s, addr, length, prot, flags, None, offset))
           bad == "PRIVATE" \notin flags \/ length = 0 \/ offset % PGSIZE /= 0
<1>0. J0(s, hold, b, due) /\ Shape(s) /\ TlbOK(s.pte, s.tlb) /\ hold \in [Files -> Nat] /\ offset \in Int
  BY DEF J, J0, FileOK
<1>1. m = IF bad THEN [k |-> s, r |-> None]
          ELSE IF "ANONYMOUS" \in flags THEN l
          ELSE IF g.r = None THEN [k |-> s, r |-> None] ELSE Release(h, g.r)
  BY DEF do_mmap, Lower, Release
<1>2. CASE m = [k |-> s, r |-> None]
  <2>1. m.k = s BY <1>2
  <2> QED BY <2>1, <1>0
<1>3. CASE ~bad /\ m = l
  <2>2. None \in Files \cup {None} OBVIOUS
  <2> HIDE DEF bad
  <2>3. m = Lower(__do_mmap(s, addr, length, prot, flags, None, offset)) BY <1>3
  <2> QED BY <2>2, <2>3, <1>0, MmapHeld
<1>4. CASE ~bad /\ g.r /= None /\ m = Release(h, g.r)
  <2>g. g = file_get(s, fd) OBVIOUS
  <2> HIDE DEF bad, l
  <2>2. /\ g.r \in Files /\ J0(g.k, More(hold, g.r), b, due) /\ Differ(s, g.k, {"files"})
    <3> HIDE DEF g, h
    <3> QED BY <1>0, <1>4, <2>g, GetOK
  <2>h. h = Lower(__do_mmap(g.k, addr, length, prot, flags, g.r, offset)) OBVIOUS
  <2> HIDE DEF g, h
  <2>3. J(g.k, More(hold, g.r), b, due)
    <3>1. g.k.pte = s.pte /\ g.k.tlb = s.tlb BY <2>2, DifferTlb
    <3> QED BY <3>1, <2>2, <1>0 DEF J
  <2>4. More(hold, g.r)[g.r] >= 1 /\ Less(More(hold, g.r), g.r) = hold
    <3>1. hold[g.r] \in Nat BY <1>0, <2>2
    <3> QED BY <3>1, <1>0, <2>2, MoreLess
  <2> DEFINE hold1 == More(hold, g.r)
             f == g.r
             t == file_decref(h.k, f)
  <2>5. J(g.k, hold1, b, due) /\ hold1[f] >= 1 /\ Less(hold1, f) = hold /\ f \in Files BY <2>2, <2>3, <2>4
  <2>t. t = file_decref(h.k, f) /\ h = Lower(__do_mmap(g.k, addr, length, prot, flags, f, offset)) BY <2>h
  <2>6. Result(m) /\ m.k = t
    <3>1. Release(h, f) = [h EXCEPT !.k = file_decref(@, f)]
      <4>1. f /= None BY <1>4
      <4> QED BY <4>1 DEF Release
    <3>2. Result(h)
      <4> HIDE DEF hold1, f, t
      <4> QED BY <2>5, <2>t, <1>0, MmapHeld
    <3> QED BY <3>1, <3>2, <1>4 DEF Result
  <2> HIDE DEF hold1, f, t
  <2>7. Result(h) /\ Shape(h.k) /\ (Live(h.k) => J(h.k, hold1, b, due))
    BY <2>5, <2>t, <1>0, MmapHeld
  <2>8. Shape(t) /\ t.panic = h.k.panic /\ Differ(h.k, t, {"files", "host"}) BY <2>7, <2>t, FileStay
  <2>9. ASSUME Live(t) PROVE J(t, hold, b, due)
    <3>1. Live(h.k) BY <2>8, <2>9 DEF Live
    <3>2. J(h.k, hold1, b, due) BY <3>1, <2>7
    <3>3. J0(h.k, hold1, b, due) /\ TlbOK(h.k.pte, h.k.tlb) BY <3>2 DEF J
    <3>4. J0(t, Less(hold1, f), b, due) BY <3>3, <2>5, <2>t, DecrefOK
    <3>5. t.pte = h.k.pte /\ t.tlb = h.k.tlb BY <2>8, DifferTlb
    <3> QED BY <3>3, <3>4, <3>5, <2>5 DEF J
  <2> QED BY <2>6, <2>8, <2>9
<1>5. m = [k |-> s, r |-> None] \/ (~bad /\ m = l) \/ (~bad /\ g.r /= None /\ m = Release(h, g.r))
  <2> HIDE DEF g, h, l, bad
  <2> QED BY <1>1
<1> HIDE DEF g, h, l, bad
<1> QED BY <1>2, <1>3, <1>4, <1>5

\* An address the heap may end at.
Even(a) == a \in Nat /\ a % PGSIZE = 0 /\ a <= Max0

\* A multiple of the page size starts a page.
LEMMA TimesEven ==
    ASSUME NEW q \in Int
    PROVE  (q * PGSIZE) % PGSIZE = 0 /\ PageOf(q * PGSIZE) = q /\ q * PGSIZE \in Int
<1>0. PGSIZE \in Nat /\ PGSIZE > 0 BY MmapAssumption
<1> DEFINE a == q * PGSIZE
<1>1. a \in Int BY <1>0
<1>2. PageOf(q * PGSIZE + 0) = q
  <2>1. 0 \in 0 .. PGSIZE - 1 BY <1>0
  <2> QED BY <2>1, PageIs
<1>3. q * PGSIZE + 0 = a BY <1>0
<1>4. PageOf(a) = q BY <1>2, <1>3
<1> HIDE DEF a
<1>5. a % PGSIZE = a - PageOf(a) * PGSIZE BY <1>1, PageSplit
<1>6. a % PGSIZE = a - a
  <2>1. q * PGSIZE = a BY DEF a
  <2> QED BY <2>1, <1>4, <1>5
<1>7. a % PGSIZE = 0 BY <1>1, <1>6
<1> QED BY <1>1, <1>4, <1>7 DEF a

\* Rounding up stays below the end of the user's memory.
LEMMA RoundUp ==
    ASSUME NEW x \in Nat, x <= Max0
    PROVE  Even(ROUNDUP(x)) /\ x <= ROUNDUP(x) /\ ROUNDUP(x) < x + PGSIZE
<1>0. PGSIZE \in Nat /\ PGSIZE > 0 /\ VaPages \in Nat BY MmapAssumption
<1>1. Word \in Nat /\ Word > 0 /\ Max0 \in Nat /\ Max0 < Word BY MaxFacts
<1>2. CASE x = 0
  <2>1. Minus(x, 1) = Word - 1 BY <1>1, <1>2 DEF Minus
  <2>2. PageOf((VaPages - 1) * PGSIZE + (PGSIZE - 1)) = VaPages - 1
    <3>1. PGSIZE - 1 \in 0 .. PGSIZE - 1 /\ VaPages - 1 \in Int BY <1>0
    <3> QED BY <3>1, PageIs
  <2>3. (VaPages - 1) * PGSIZE + (PGSIZE - 1) = Word - 1 BY <1>0 DEF Word
  <2>4. Minus(x, 1) \div PGSIZE = VaPages - 1 BY <2>1, <2>2, <2>3 DEF PageOf
  <2>5. ROUNDUP(x) = ((VaPages - 1 + 1) * PGSIZE) % Word BY <2>4 DEF ROUNDUP
  <2>6. (VaPages - 1 + 1) * PGSIZE = Word BY <1>0 DEF Word
  <2>7. ROUNDUP(x) = Word % Word BY <2>5, <2>6
  <2> HIDE DEF Word
  <2>8. Word % Word = 0 BY <1>1
  <2>9. ROUNDUP(x) = 0 BY <2>7, <2>8
  <2>10. 0 % PGSIZE = 0 BY <1>0
  <2> QED BY <2>9, <2>10, <1>0, <1>1, <1>2 DEF Even
<1>3. CASE x > 0
  <2> DEFINE q == PageOf(x - 1)
  <2>1. x - 1 \in Int /\ x - 1 \in Nat BY <1>3
  <2>2. /\ q \in Int /\ q * PGSIZE \in Int /\ q * PGSIZE <= x - 1 /\ x - 1 < q * PGSIZE + PGSIZE
    BY <2>1, PageSplit
  <2>3. Minus(x, 1) = x - 1 BY <2>1, <1>1, <1>3 DEF Minus
  <2>4. ROUNDUP(x) = ((q + 1) * PGSIZE) % Word BY <2>3 DEF ROUNDUP, PageOf
  <2> HIDE DEF q
  <2>5. (q + 1) * PGSIZE = q * PGSIZE + PGSIZE BY <2>2, <1>0
  <2>6. PICK m \in Nat : Max0 = m * PGSIZE BY MaxFacts
  <2>7. q < m
    <3>1. SUFFICES ASSUME m <= q PROVE FALSE BY <2>2, <2>6
    <3>2. m * PGSIZE <= q * PGSIZE
      <4>1. CASE m = q BY <4>1, <2>2
      <4>2. CASE m < q
        <5>1. m * PGSIZE + PGSIZE <= q * PGSIZE BY <4>2, <2>2, TimesMono
        <5>2. m * PGSIZE \in Int BY <2>6, <1>0
        <5> QED BY <5>1, <5>2, <2>2, <1>0
      <4> QED BY <4>1, <4>2, <3>1, <2>2
    <3> QED BY <3>2, <2>2, <2>6, <1>1
  <2>8. q * PGSIZE + PGSIZE <= Max0 BY <2>2, <2>6, <2>7, TimesMono
  <2> DEFINE y == (q + 1) * PGSIZE
  <2>9. y \in Nat /\ y <= Max0 /\ x <= y /\ y < x + PGSIZE BY <2>2, <2>5, <2>8, <1>0, <1>1
  <2>10. y % PGSIZE = 0 BY <2>2, TimesEven
  <2> HIDE DEF y
  <2>11. y % Word = y BY <2>9, <1>1
  <2>12. ROUNDUP(x) = y BY <2>4, <2>11 DEF y
  <2> QED BY <2>9, <2>10, <2>12 DEF Even
<1> QED BY <1>2, <1>3

\* The break moves.
LEMMA BrkSet ==
    ASSUME NEW s, NEW hold, NEW b, NEW due, J(s, hold, b, due), NEW new, Even(new),
           NEW t, t = [s EXCEPT !.brk = new]
    PROVE  J(t, hold, b, due)
<1>1. Shape(s) /\ s.panic = FALSE BY DEF J, J0
<1>2. Shape(t) /\ t.panic = FALSE /\ t.brk = new /\ \A x \in Fields \ {"brk"} : t[x] = s[x]
  BY <1>1 DEF Shape, Fields
<1>3. /\ t.fds = s.fds /\ t.files = s.files /\ t.host = s.host /\ t.pte = s.pte /\ t.vmrs = s.vmrs
      /\ t.brk_max = s.brk_max /\ t.brk_min = s.brk_min /\ t.mmap_max = s.mmap_max
      /\ t.mem = s.mem /\ t.want = s.want /\ t.stale = s.stale /\ t.disk = s.disk /\ t.tlb = s.tlb
  BY <1>2 DEF Fields
<1>5. BrkOK(t.brk, t.brk_min, t.brk_max, b)
  <2>1. BrkOK(s.brk, s.brk_min, s.brk_max, b) BY DEF J, J0
  <2> QED BY <2>1, <1>2, <1>3 DEF BrkOK, Even
<1> QED BY <1>2, <1>3, <1>5 DEF J, J0

\* What Expect lets through is what the call left.
LEMMA ExpectIs ==
    ASSUME NEW m, NEW S, Shape(m.k), NEW t, t = Expect(m, S)
    PROVE  /\ Shape(t) /\ (m.k.panic => t.panic) /\ Differ(m.k, t, {"panic"})
           /\ Live(t) => m.r \in S /\ t = m.k /\ Live(m.k)
<1> DEFINE u == [m.k EXCEPT !.panic = TRUE]
<1>1. Shape(u) /\ u.panic = TRUE /\ \A x \in Fields \ {"panic"} : u[x] = m.k[x] BY DEF Shape, Fields
<1>2. CASE m.r \in S
  <2>1. t = m.k BY <1>2 DEF Expect, kassert
  <2> QED BY <2>1, <1>2 DEF Differ
<1>3. CASE m.r \notin S
  <2>1. t = u BY <1>3 DEF Expect, kassert, Panic
  <2> QED BY <2>1, <1>1 DEF Differ, Live
<1> QED BY <1>2, <1>3

Heap == {"FIXED", "PRIVATE", "ANONYMOUS"}
\* What __do_brk maps or unmaps.
Moved(s, old, new) ==
    IF old > new THEN __do_munmap(s, new, old - new)
    ELSE IF old < new THEN Expect(__do_mmap(s, old, new - old, RWX, Heap, None, 0), {old})
    ELSE s

\* Moving the break maps or unmaps the pages between.
LEMMA MovedOK ==
    ASSUME NEW s, NEW hold, NEW b, NEW due, J(s, hold, b, due), NEW old, Even(old), NEW new, Even(new),
           NEW t, t = Moved(s, old, new)
    PROVE  Shape(t) /\ (Live(t) => J(t, hold, b, due))
<1>0. J0(s, hold, b, due) /\ Shape(s) /\ old \in Nat /\ new \in Nat /\ Max0 \in Nat BY MaxFacts DEF J, J0, Even
<1>1. CASE old > new
  <2> DEFINE l == old - new
  <2>1. l \in Nat /\ new + l <= Max0 BY <1>0, <1>1 DEF Even
  <2>t. t = __do_munmap(s, new, l) BY <1>0, <1>1 DEF Moved
  <2> HIDE DEF l
  <2>2. Area(s, Steps(new, l), NPage(l)) BY <2>1, <1>0, FixedArea DEF Even
  <2>3. \A i \in DOMAIN Steps(new, l) : PageOf(Steps(new, l)[i]) \in VPages \ KernelRange
    BY <2>2 DEF Area, Fresh
  <2>4. new \in Int /\ l \in Int BY <1>0, <2>1
  <2>5. J(t, hold, b, due) BY <1>0, <2>3, <2>4, <2>t, DoMunmapOK
  <2> QED BY <2>5 DEF J, J0
<1>2. CASE old < new
  <2> DEFINE l == new - old
             m == __do_mmap(s, old, l, RWX, Heap, None, 0)
  <2>1. l \in Nat /\ l \in Int /\ old \in Int BY <1>0, <1>2
  <2>t. t = Expect(m, {old}) BY <1>0, <1>2 DEF Moved
  <2>2. "FIXED" \in Heap /\ None \in Files \cup {None} /\ RWX \in SUBSET RWX /\ 0 \in Int BY DEF Heap
  <2>m. m = __do_mmap(s, old, l, RWX, Heap, None, 0) OBVIOUS
  <2> HIDE DEF l, m
  <2>3. Shape(m.k) BY <1>0, <2>1, <2>2, <2>m, DoMmapStay
  <2>4. Shape(t) /\ (Live(t) => t = m.k /\ Live(m.k)) BY <2>3, <2>t, ExpectIs
  <2>5. Live(m.k) => J(m.k, hold, b, due)
    <3> SUFFICES ASSUME Live(m.k) PROVE J(m.k, hold, b, due) OBVIOUS
    <3> QED BY <1>0, <2>1, <2>2, <2>m, FixedOK
  <2> QED BY <2>4, <2>5
<1>3. CASE ~(old > new) /\ ~(old < new)
  <2>1. t = s BY <1>3 DEF Moved
  <2> QED BY <2>1, <1>0
<1> QED BY <1>1, <1>2, <1>3

\* do_brk keeps the invariant.
LEMMA BrkDone ==
    ASSUME NEW s, NEW hold, NEW b, NEW due, J(s, hold, b, due), b <= Max0, NEW addr \in Nat,
           NEW t, t = do_brk(s, addr)
    PROVE  Shape(t) /\ (Live(t) => J(t, hold, b, due))
<1> DEFINE newbrk == IF addr < s.brk_min THEN s.brk_min
                     ELSE IF addr > s.brk_max THEN s.brk_max ELSE addr
           old == IF s.brk = 0 THEN ROUNDUP(s.brk_min) ELSE s.brk
           new == ROUNDUP(newbrk)
           u == Moved(s, old, new)
<1>0. BrkOK(s.brk, s.brk_min, s.brk_max, b) BY DEF J, J0
<1>1. newbrk \in Nat /\ newbrk <= Max0 BY <1>0, MaxFacts DEF BrkOK
<1>2. Even(new)
  <2> HIDE DEF newbrk
  <2> QED BY <1>1, RoundUp
<1>3. Even(old)
  <2>1. CASE s.brk = 0
    <3>1. s.brk_min \in Nat /\ s.brk_min <= Max0 BY <1>0 DEF BrkOK
    <3>2. Even(ROUNDUP(s.brk_min)) BY <3>1, RoundUp
    <3> QED BY <3>2, <2>1
  <2>2. CASE s.brk /= 0 BY <2>2, <1>0 DEF BrkOK, Even
  <2> QED BY <2>1, <2>2
<1>4. t = [u EXCEPT !.brk = new] BY DEF do_brk, __do_brk, Moved, Heap
<1>u. u = Moved(s, old, new) OBVIOUS
<1> HIDE DEF new, old, u
<1>5. Shape(u) /\ (Live(u) => J(u, hold, b, due)) BY <1>2, <1>3, <1>u, MovedOK
<1>6. Shape(t) /\ t.panic = u.panic BY <1>4, <1>5 DEF Shape, Fields
<1>7. ASSUME Live(t) PROVE J(t, hold, b, due)
  <2>1. Live(u) BY <1>6, <1>7 DEF Live
  <2> QED BY <2>1, <1>5, <1>4, <1>2, BrkSet
<1> QED BY <1>6, <1>7

\* One page of the loop of do_mprotect; the state is the kernel's and the result.
SetProt(u, v, prot) == [u EXCEPT !.vmrs[v].prot = prot]
SetPage(u, p, prot) == [u EXCEPT !.pte[p] = Final(prot)]
\* One page of do_mprotect, and the loop.
ProtOne(c, u, a) ==
    LET p == PageOf(a)
        e == u.k.pte[p]
    IN  IF u.r /= 0 THEN u
        ELSE IF e.vmr /= 0 /\ c.prot \subseteq u.k.vmrs[e.vmr].prot
             THEN [u EXCEPT !.k = SetProt(@, e.vmr, c.prot)]
             ELSE IF e.vmr = 0 /\ "U" \in e.bits /\ c.prot \subseteq e.bits
             THEN [u EXCEPT !.k = SetPage(@, p, c.prot)]
             ELSE [u EXCEPT !.r = -1]

ProtAll(s, addr, length, prot) ==
    FoldLeft(LAMBDA u, a :
        IF u.r /= 0 THEN u
        ELSE IF /\ u.k.pte[PageOf(a)].vmr /= 0
                /\ prot \subseteq u.k.vmrs[u.k.pte[PageOf(a)].vmr].prot
             THEN [u EXCEPT !.k.vmrs[u.k.pte[PageOf(a)].vmr].prot = prot]
             ELSE IF /\ u.k.pte[PageOf(a)].vmr = 0 /\ "U" \in u.k.pte[PageOf(a)].bits
                     /\ prot \subseteq u.k.pte[PageOf(a)].bits
             THEN [u EXCEPT !.k.pte[PageOf(a)] = pte_create(prot_to_type(prot, TRUE))]
             ELSE [u EXCEPT !.r = -1],
        [k |-> s, r |-> 0], Steps(addr, length))

\* do_mprotect is its loop and a flush.
LEMMA MprotectIs ==
    ASSUME NEW s, NEW addr, NEW length, NEW prot
    PROVE  do_mprotect(s, addr, length, prot)
             = IF addr % PGSIZE /= 0 THEN [k |-> s, r |-> -1]
               ELSE [ProtAll(s, addr, length, prot) EXCEPT !.k = flush_tlb(@)]
BY Zenon DEF do_mprotect, ProtAll

ProtP(c, i, u) ==
    /\ Result(u) /\ Shape(u.k) /\ u.k.panic = c.s.panic
    /\ c.live => J0(u.k, c.hold, c.b, c.due)
ProtLoop == INSTANCE FoldRule WITH Op <- ProtOne, P <- ProtP

\* The loop of do_mprotect, as a repetition of its step.
LEMMA ProtIs ==
    ASSUME NEW c, NEW s, NEW addr, NEW length
    PROVE  ProtAll(s, addr, length, c.prot)
             = ProtLoop!Iter(c, [k |-> s, r |-> 0], Steps(addr, length))[DOMAIN Steps(addr, length)]
BY DEF ProtAll, ProtOne, SetProt, SetPage, Final, ProtLoop!Iter, ProtLoop!Last, FoldLeft, MapThenFoldSet, Max

\* Changing a protection keeps the fields and a panic.
LEMMA SetStay ==
    ASSUME NEW s, Shape(s), NEW x, NEW prot
    PROVE  /\ Shape(SetProt(s, x, prot)) /\ SetProt(s, x, prot).panic = s.panic
           /\ Shape(SetPage(s, x, prot)) /\ SetPage(s, x, prot).panic = s.panic
BY DEF SetProt, SetPage, Shape, Fields

\* What one page of the loop does.
ProtStep(c, u, a, w) ==
    /\ Result(w) /\ Shape(w.k) /\ w.k.panic = u.k.panic
    /\ \/ w.k = u.k
       \/ /\ u.k.pte[PageOf(a)].vmr /= 0
          /\ w.k = SetProt(u.k, u.k.pte[PageOf(a)].vmr, c.prot)
       \/ /\ u.k.pte[PageOf(a)].vmr = 0 /\ "U" \in u.k.pte[PageOf(a)].bits
          /\ w.k = SetPage(u.k, PageOf(a), c.prot)

\* One page of do_mprotect changes its region, itself or nothing.
LEMMA ProtOneStay ==
    ASSUME NEW c, NEW u, Result(u), Shape(u.k), NEW a
    PROVE  ProtStep(c, u, a, ProtOne(c, u, a))
<1> DEFINE w == ProtOne(c, u, a)
<1> DEFINE p == PageOf(a)
           e == u.k.pte[p]
           x == SetProt(u.k, e.vmr, c.prot)
           y == SetPage(u.k, p, c.prot)
<1>1. Shape(x) /\ x.panic = u.k.panic /\ Shape(y) /\ y.panic = u.k.panic BY SetStay
<1>2. \/ w = u \/ w = [u EXCEPT !.r = -1]
      \/ e.vmr /= 0 /\ w = [u EXCEPT !.k = x]
      \/ e.vmr = 0 /\ "U" \in e.bits /\ w = [u EXCEPT !.k = y]
  BY DEF ProtOne
<1> HIDE DEF x, y, e, p, w
<1>3. Result(w) /\ \/ w.k = u.k
                   \/ e.vmr /= 0 /\ w.k = x
                   \/ e.vmr = 0 /\ "U" \in e.bits /\ w.k = y
  BY <1>2 DEF Result
<1>4. ProtStep(c, u, a, w)
  <2> HIDE DEF w
  <2> QED BY <1>1, <1>3 DEF ProtStep, x, y, e, p
<1> QED BY <1>4 DEF w

\* A page that waits changes the protection of its region, which nothing counts.
LEMMA SetProtOK ==
    ASSUME NEW s, NEW hold, NEW b, NEW due, J0(s, hold, b, due), NEW p \in VPages, NEW prot \in SUBSET RWX,
           s.pte[p].vmr /= 0, NEW t, t = SetProt(s, s.pte[p].vmr, prot)
    PROVE  J0(t, hold, b, due)
<1> DEFINE v == s.pte[p].vmr
           e == [s.vmrs[v] EXCEPT !.prot = prot]
<1>1. Shape(s) /\ MapOK(s.pte, s.vmrs, due) /\ hold \in [Files -> Nat] BY DEF J0, FileOK
<1>2. v \in Vmrs BY <1>1, MapUse
<1>3. s.vmrs \in [Vmrs -> VmrEntry] /\ due \in [Vmrs -> Nat] BY <1>1 DEF MapOK
<1> HIDE DEF v
<1>4. /\ e \in VmrEntry /\ e.refcnt = s.vmrs[v].refcnt /\ e.addr = s.vmrs[v].addr
      /\ e.length = s.vmrs[v].length /\ e.file = s.vmrs[v].file /\ e.offset = s.vmrs[v].offset
  <2> DEFINE d == s.vmrs[v]
  <2>1. d \in VmrEntry BY <1>2, <1>3
  <2> HIDE DEF d
  <2>2. [d EXCEPT !.prot = prot] \in VmrEntry BY <2>1 DEF VmrEntry
  <2> QED BY <2>1, <2>2 DEF d, VmrEntry
<1>5. t = [s EXCEPT !.vmrs[v] = e] BY DEF SetProt, v
<1> HIDE DEF e
<1>6. VmrSet(s, t, v, e) BY <1>5 DEF VmrSet
<1>7. SameRegion(s.vmrs[v], e) BY <1>4 DEF SameRegion
<1>8. VmrTrade(s.vmrs, v, e, hold, hold)
  <2>1. \A f \in Files : MapsFile(e, f) <=> MapsFile(s.vmrs[v], f) BY <1>4 DEF MapsFile
  <2>2. \A f \in Files : hold[f] \in Nat BY <1>1
  <2> QED BY <2>1, <2>2 DEF VmrTrade
<1>9. e.refcnt - due[v] = s.vmrs[v].refcnt - due[v] BY <1>4
<1> QED BY <1>1, <1>2, <1>3, <1>4, <1>6, <1>7, <1>8, <1>9, VmrFrame

\* A page that is there changes its own protection and keeps what it holds.
LEMMA SetPageOK ==
    ASSUME NEW s, NEW hold, NEW b, NEW due, J0(s, hold, b, due), NEW p \in VPages, NEW prot \in SUBSET RWX,
           s.pte[p].vmr = 0, "U" \in s.pte[p].bits, NEW t, t = SetPage(s, p, prot)
    PROVE  J0(t, hold, b, due)
<1> DEFINE x == Final(prot)
<1>1. /\ Shape(s) /\ MapOK(s.pte, s.vmrs, due) /\ KernelOK(s.pte, s.mmap_max) /\ s.panic = FALSE
      /\ ContentOK(s.pte, s.vmrs, s.files, s.host, s.disk, s.mem, s.want)
  BY DEF J0
<1>2. x \in PteEntry /\ PteFit(x) /\ x.vmr = 0 BY PteIs DEF Final
<1>3. p * PGSIZE < Max0 /\ p \notin KernelRange
  <2>1. p * PGSIZE < Max0 BY <1>1 DEF KernelOK
  <2> QED BY <2>1, MaxFacts
<1> HIDE DEF x
<1>4. Shape(t) /\ t.panic = FALSE /\ t.pte = [s.pte EXCEPT ![p] = x] /\ \A y \in Fields \ {"pte"} : t[y] = s[y]
  BY <1>1 DEF SetPage, Shape, Fields, x
<1>5. t.mem = s.mem /\ t.want = s.want BY <1>4 DEF Fields
<1>6. Shows(s.mem[p], s.want[p]) /\ DOMAIN s.mem = VPages /\ DOMAIN s.want = VPages
      /\ Formed(s.mem[p], s.want[p])
  <2>1. "V" \in s.pte[p].bits BY <1>1 DEF MapOK, PteFit
  <2> QED BY <2>1, <1>1 DEF ContentOK
<1>7. PageFits(p, x) BY <1>2, <1>3 DEF PageFits
<1>8. Differ(s, t, {"pte", "mem", "want", "tlb"}) BY <1>4 DEF Differ
<1>9. PageStep(s, t, p, x) BY <1>2, <1>4, <1>5, <1>6, <1>8 DEF PageStep
<1>10. due \in [Vmrs -> Nat] /\ DueTrade(s.pte[p].vmr, x.vmr, due, due) BY <1>1, <1>2 DEF MapOK, DueTrade
<1> QED BY <1>7, <1>9, <1>10, PageFrame

\* The loop of do_mprotect keeps the fields and a panic.
LEMMA ProtAllStay ==
    ASSUME NEW s, Shape(s), NEW addr \in Int, NEW length \in Int, NEW prot,
           NEW m, m = ProtAll(s, addr, length, prot)
    PROVE  Result(m) /\ Shape(m.k) /\ m.k.panic = s.panic
<1> DEFINE q == Steps(addr, length)
           c == [live |-> FALSE, s |-> s, prot |-> prot]
           m0 == [k |-> s, r |-> 0]
<1>1. PICK n \in Nat : DOMAIN q = 1 .. n BY StepsAre
<1>3. c.live = FALSE /\ c.s = s /\ c.prot = prot OBVIOUS
<1>m. m0 = [k |-> s, r |-> 0] OBVIOUS
<1> HIDE DEF c
<1>2. m = ProtLoop!Iter(c, m0, q)[DOMAIN q]
  <2>1. ProtAll(s, addr, length, c.prot) = ProtLoop!Iter(c, m0, q)[DOMAIN q] BY ProtIs
  <2> QED BY <2>1, <1>3
<1>4. ProtP(c, 0, m0) BY <1>3 DEF ProtP, Result
<1> HIDE DEF q, m0
<1>5. ASSUME NEW i \in 1 .. n, NEW u, ProtP(c, i - 1, u) PROVE ProtP(c, i, ProtOne(c, u, q[i]))
  <2> DEFINE w == ProtOne(c, u, q[i])
  <2>1. Result(u) /\ Shape(u.k) /\ u.k.panic = s.panic BY <1>3, <1>5 DEF ProtP
  <2>w. w = ProtOne(c, u, q[i]) OBVIOUS
  <2> HIDE DEF w
  <2>2. Result(w) /\ Shape(w.k) /\ w.k.panic = u.k.panic
    <3>1. ProtStep(c, u, q[i], w) BY <2>1, <2>w, ProtOneStay
    <3> QED BY <3>1 DEF ProtStep
  <2>3. ProtP(c, i, w) BY <2>1, <2>2, <1>3 DEF ProtP
  <2> QED BY <2>3 DEF w
<1>6. ProtP(c, n, m) BY <1>1, <1>2, <1>4, <1>5, ProtLoop!FoldInv
<1> QED BY <1>6, <1>3 DEF ProtP

\* The loop of do_mprotect keeps the invariant, but for the TLB.
LEMMA ProtAllOK ==
    ASSUME NEW s, NEW hold, NEW b, NEW due, J0(s, hold, b, due), NEW addr \in Int, NEW length \in Int,
           NEW n \in Nat, Inside(Steps(addr, length), n), NEW prot \in SUBSET RWX,
           NEW m, m = ProtAll(s, addr, length, prot)
    PROVE  Result(m) /\ J0(m.k, hold, b, due)
<1> DEFINE q == Steps(addr, length)
           c == [live |-> TRUE, s |-> s, prot |-> prot, hold |-> hold, b |-> b, due |-> due]
           m0 == [k |-> s, r |-> 0]
<1>1. DOMAIN q = 1 .. n /\ \A i \in 1 .. n : PageOf(q[i]) \in VPages BY DEF Inside
<1>3. c.live = TRUE /\ c.s = s /\ c.prot = prot /\ c.hold = hold /\ c.b = b /\ c.due = due OBVIOUS
<1> HIDE DEF c
<1>2. m = ProtLoop!Iter(c, m0, q)[DOMAIN q]
  <2>1. ProtAll(s, addr, length, c.prot) = ProtLoop!Iter(c, m0, q)[DOMAIN q] BY ProtIs
  <2> QED BY <2>1, <1>3
<1>0. Shape(s) BY DEF J0
<1>4. ProtP(c, 0, m0) BY <1>0, <1>3 DEF ProtP, Result
<1> HIDE DEF q, m0
<1>5. ASSUME NEW i \in 1 .. n, NEW u, ProtP(c, i - 1, u) PROVE ProtP(c, i, ProtOne(c, u, q[i]))
  <2> DEFINE w == ProtOne(c, u, q[i])
             p == PageOf(q[i])
             v == u.k.pte[p].vmr
  <2>1. Result(u) /\ Shape(u.k) /\ u.k.panic = s.panic /\ J0(u.k, hold, b, due) BY <1>3, <1>5 DEF ProtP
  <2>p. p \in VPages BY <1>1
  <2>2. /\ Result(w) /\ Shape(w.k) /\ w.k.panic = u.k.panic
        /\ \/ w.k = u.k
           \/ v /= 0 /\ w.k = SetProt(u.k, v, c.prot)
           \/ v = 0 /\ "U" \in u.k.pte[p].bits /\ w.k = SetPage(u.k, p, c.prot)
    <3>1. Result(u) /\ Shape(u.k) BY <2>1
    <3>2. w = ProtOne(c, u, q[i]) OBVIOUS
    <3> HIDE DEF w, p, v
    <3>3. ProtStep(c, u, q[i], w) BY <3>1, <3>2, ProtOneStay
    <3> QED BY <3>3 DEF p, v, ProtStep
  <2> HIDE DEF w, p, v
  <2>3. J0(w.k, hold, b, due)
    <3>1. CASE w.k = u.k BY <3>1, <2>1
    <3>2. CASE v /= 0 /\ w.k = SetProt(u.k, v, c.prot)
      <4>1. u.k.pte[p].vmr /= 0 /\ w.k = SetProt(u.k, u.k.pte[p].vmr, prot) BY <3>2, <1>3 DEF v
      <4> QED BY <4>1, <2>1, <2>p, SetProtOK
    <3>3. CASE v = 0 /\ "U" \in u.k.pte[p].bits /\ w.k = SetPage(u.k, p, c.prot)
      <4>1. u.k.pte[p].vmr = 0 /\ "U" \in u.k.pte[p].bits /\ w.k = SetPage(u.k, p, prot) BY <3>3, <1>3 DEF v
      <4> QED BY <4>1, <2>1, <2>p, SetPageOK
    <3> QED BY <2>2, <3>1, <3>2, <3>3
  <2>4. ProtP(c, i, w) BY <2>1, <2>2, <2>3, <1>3 DEF ProtP
  <2> QED BY <2>4 DEF w
<1>6. ProtP(c, n, m) BY <1>1, <1>2, <1>4, <1>5, ProtLoop!FoldInv
<1> QED BY <1>6, <1>3 DEF ProtP

\* do_mprotect keeps the fields and a panic.
LEMMA MprotectStay ==
    ASSUME NEW s, Shape(s), NEW addr \in Int, NEW length \in Int, NEW prot,
           NEW m, m = do_mprotect(s, addr, length, prot)
    PROVE  Shape(m.k) /\ m.k.panic = s.panic
<1> DEFINE n == ProtAll(s, addr, length, prot)
<1>1. m = IF addr % PGSIZE /= 0 THEN [k |-> s, r |-> -1] ELSE [n EXCEPT !.k = flush_tlb(@)] BY MprotectIs
<1>2. Result(n) /\ Shape(n.k) /\ n.k.panic = s.panic BY ProtAllStay
<1> HIDE DEF n
<1>3. Shape(flush_tlb(n.k)) /\ flush_tlb(n.k).panic = n.k.panic BY <1>2, FlushOK
<1>4. m.k = s \/ m.k = flush_tlb(n.k) BY <1>1, <1>2 DEF Result
<1> QED BY <1>2, <1>3, <1>4

\* mprotect
LEMMA MprotectOK ==
    ASSUME NEW s, NEW hold, NEW b, NEW due, J(s, hold, b, due), NEW addr \in Nat, addr < Word,
           NEW length \in Nat, NEW prot \in SUBSET RWX, NEW m, m = do_mprotect(s, addr, length, prot)
    PROVE  J(m.k, hold, b, due)
<1> DEFINE n == ProtAll(s, addr, length, prot)
<1>1. m = IF addr % PGSIZE /= 0 THEN [k |-> s, r |-> -1] ELSE [n EXCEPT !.k = flush_tlb(@)] BY MprotectIs
<1>2. CASE addr % PGSIZE /= 0
  <2>1. m.k = s BY <1>1, <1>2
  <2> QED BY <2>1
<1>3. CASE addr % PGSIZE = 0
  <2>1. PICK z \in Nat : DOMAIN Steps(addr, length) = 1 .. z
                         /\ \A i \in 1 .. z : PageOf(Steps(addr, length)[i]) \in VPages
    BY <1>3, AlignedSteps
  <2>2. Inside(Steps(addr, length), z) BY <2>1 DEF Inside
  <2>3. J0(s, hold, b, due) /\ addr \in Int /\ length \in Int BY DEF J
  <2>n. n = ProtAll(s, addr, length, prot) OBVIOUS
  <2> HIDE DEF n
  <2>4. Result(n) /\ J0(n.k, hold, b, due) BY <2>2, <2>3, <2>n, ProtAllOK
  <2>5. Shape(n.k) BY <2>4 DEF J0
  <2>6. J(flush_tlb(n.k), hold, b, due) BY <2>4, <2>5, FlushOK
  <2>7. m.k = flush_tlb(n.k) BY <1>1, <1>3, <2>4 DEF Result
  <2> QED BY <2>6, <2>7
<1> QED BY <1>2, <1>3

\* The hart caches a translation and changes nothing else.
LEMMA CacheStay ==
    ASSUME NEW s, Shape(s), NEW p
    PROVE  /\ Shape(Cache(s, p)) /\ Cache(s, p).panic = s.panic /\ Differ(s, Cache(s, p), {"tlb"})
           /\ Cache(s, p).tlb = [s.tlb EXCEPT ![p] = Bits(s, p)]
BY DEF Cache, Shape, Fields, Differ

\* A cached translation is the page table's.
LEMMA CacheOK ==
    ASSUME NEW s, NEW hold, NEW b, NEW due, J(s, hold, b, due), NEW p \in VPages
    PROVE  J(Cache(s, p), hold, b, due)
<1> DEFINE t == Cache(s, p)
           x == Bits(s, p)
<1>1. Shape(s) /\ s.panic = FALSE /\ TlbOK(s.pte, s.tlb) /\ MapOK(s.pte, s.vmrs, due) /\ J0(s, hold, b, due)
  BY DEF J, J0
<1>2. Shape(t) /\ t.panic = s.panic /\ Differ(s, t, {"tlb"}) /\ t.tlb = [s.tlb EXCEPT ![p] = x]
  BY <1>1, CacheStay
<1>3. s.pte[p].bits \in SUBSET PteBits BY <1>1 DEF MapOK, PteEntry
<1>4. x \in SUBSET PteBits /\ (x /= {} => x = s.pte[p].bits) BY <1>1, <1>3 DEF Bits, TlbOK
<1> HIDE DEF t, x
<1>5. t.pte = s.pte BY <1>2 DEF Differ, Fields
<1>6. TlbOK(t.pte, t.tlb) BY <1>1, <1>2, <1>4, <1>5 DEF TlbOK
<1>7. J0(t, hold, b, due)
  <2>1. \A y \in Told : t[y] = s[y] BY <1>2 DEF Differ, Told, Fields
  <2>2. t.panic = FALSE BY <1>1, <1>2
  <2> QED BY <2>1, <2>2, <1>1, <1>2, J0Frame
<1> QED BY <1>6, <1>7 DEF J, t

\* An access that the hart allows is to a page that is there.
LEMMA AllowedValid ==
    ASSUME NEW s, NEW hold, NEW b, NEW due, J(s, hold, b, due), NEW p \in VPages, NEW t \in RWX,
           NEW user \in BOOLEAN, Allowed(s, p, t, user)
    PROVE  Valid(s, p)
<1>1. TlbOK(s.pte, s.tlb) /\ PteFit(s.pte[p]) BY DEF J, J0, MapOK
<1>2. Needs(t) /= {} BY DEF Needs, RWX
<1>3. Bits(s, p) /= {} BY <1>2 DEF Allowed
<1>4. Valid(s, p) \/ s.pte[p].bits /= {} BY <1>1, <1>3 DEF Bits, TlbOK
<1> QED BY <1>1, <1>4 DEF PteFit, Valid

\* A kernel access keeps the fields and a panic.
LEMMA TouchStay ==
    ASSUME NEW s, Shape(s), NEW a, NEW t
    PROVE  Shape(Touch(s, a, t)) /\ (s.panic => Touch(s, a, t).panic)
<1> DEFINE p == PageOf(a)
           f == Expect(__handle_page_fault(s, a, {t}), {0})
           h == IF Allowed(s, p, t, FALSE) THEN s ELSE f
<1>1. Touch(s, a, t) = IF h.panic THEN h ELSE Cache(h, p) BY DEF Touch, handle_fault, handle_page_fault
<1>2. Shape(f) /\ (s.panic => f.panic) BY FaultStay
<1> HIDE DEF f, p
<1>3. Shape(h) /\ (s.panic => h.panic) BY <1>2
<1> HIDE DEF h
<1>4. Shape(Cache(h, p)) /\ Cache(h, p).panic = h.panic BY <1>3, CacheStay
<1> QED BY <1>1, <1>3, <1>4

\* An access of the kernel finds the page there, or brings it there.
LEMMA TouchOK ==
    ASSUME NEW s, NEW hold, NEW b, NEW due, J(s, hold, b, due), NEW a, PageOf(a) \in VPages,
           NEW t \in RWX, NEW u, u = Touch(s, a, t), Live(u)
    PROVE  /\ J(u, hold, b, due) /\ Valid(u, PageOf(a))
           /\ \A q \in VPages : Valid(s, q) => Valid(u, q)
<1> DEFINE p == PageOf(a)
           f == Expect(__handle_page_fault(s, a, {t}), {0})
           h == IF Allowed(s, p, t, FALSE) THEN s ELSE f
<1>0. Shape(s) /\ J0(s, hold, b, due) /\ {t} \in SUBSET RWX BY DEF J, J0
<1>1. u = IF h.panic THEN h ELSE Cache(h, p) BY DEF Touch, handle_fault, handle_page_fault
<1>2. Shape(f) /\ (s.panic => f.panic) BY <1>0, FaultStay
<1>f. f = Expect(__handle_page_fault(s, a, {t}), {0}) OBVIOUS
<1> HIDE DEF f
<1>h. Shape(h) BY <1>0, <1>2
<1>3. ~h.panic /\ u = Cache(h, p) /\ Live(h)
  <2> HIDE DEF h
  <2>1. ~h.panic BY <1>1 DEF Live
  <2> QED BY <2>1, <1>1, <1>h DEF Live, Shape
<1>4. J(h, hold, b, due) /\ Valid(h, p) /\ \A q \in VPages : Valid(s, q) => Valid(h, q)
  <2>1. CASE Allowed(s, p, t, FALSE)
    <3>1. h = s BY <2>1
    <3>2. Valid(s, p) BY <2>1, AllowedValid
    <3> QED BY <3>1, <3>2
  <2>2. CASE ~Allowed(s, p, t, FALSE)
    <3>1. h = f /\ Live(f) BY <2>2, <1>3
    <3>2. /\ J(f, hold, b, due) /\ Valid(f, PageOf(a))
          /\ \A q \in VPages : q /= PageOf(a) => f.pte[q] = s.pte[q]
      BY <3>1, <1>0, <1>f, FaultOK
    <3> QED BY <3>1, <3>2 DEF Valid
  <2> QED BY <2>1, <2>2
<1> HIDE DEF h
<1>5. p \in VPages OBVIOUS
<1>6. J(u, hold, b, due) BY <1>3, <1>4, <1>5, CacheOK
<1>7. u.pte = h.pte
  <2>1. Differ(h, Cache(h, p), {"tlb"}) BY <1>h, CacheStay
  <2> QED BY <2>1, <1>3 DEF Differ, Fields
<1> QED BY <1>4, <1>6, <1>7 DEF Valid

----------------------------------------------------------------------------
\* The loop of populate_mapping, and one page of it.
PopAll(s, at, length, t) ==
    FoldLeft(LAMBDA u, a : IF u.panic THEN u ELSE Touch(u, a, t), s, Steps(at, length))
PopOne(c, u, a) == IF u.panic THEN u ELSE Touch(u, a, c.t)
PopP(c, i, u) ==
    /\ Shape(u) /\ (c.s.panic => u.panic)
    /\ c.live /\ Live(u) => /\ J(u, c.hold, c.b, c.due)
                            /\ \A j \in 1 .. i : Valid(u, PageOf(c.q[j]))
PopLoop == INSTANCE FoldRule WITH Op <- PopOne, P <- PopP

\* The loop of populate_mapping, as a repetition of its step.
LEMMA PopIs ==
    ASSUME NEW c, NEW s, NEW at, NEW length
    PROVE  PopAll(s, at, length, c.t) = PopLoop!Iter(c, s, Steps(at, length))[DOMAIN Steps(at, length)]
BY DEF PopAll, PopOne, PopLoop!Iter, PopLoop!Last, FoldLeft, MapThenFoldSet, Max

\* A step of populate_mapping keeps the fields and a panic.
LEMMA PopOneStay ==
    ASSUME NEW c, NEW u, Shape(u), NEW a
    PROVE  Shape(PopOne(c, u, a)) /\ (u.panic => PopOne(c, u, a).panic)
<1> DEFINE w == Touch(u, a, c.t)
<1>1. Shape(w) /\ (u.panic => w.panic) BY TouchStay
<1>2. PopOne(c, u, a) = IF u.panic THEN u ELSE w BY DEF PopOne
<1> HIDE DEF w
<1> QED BY <1>1, <1>2

\* populate_mapping's loop keeps the fields and a panic.
LEMMA PopAllStay ==
    ASSUME NEW s, Shape(s), NEW at \in Int, NEW length \in Int, NEW t, NEW w, w = PopAll(s, at, length, t)
    PROVE  Shape(w) /\ (s.panic => w.panic)
<1> DEFINE q == Steps(at, length)
           c == [live |-> FALSE, s |-> s, t |-> t]
<1>1. PICK n \in Nat : DOMAIN q = 1 .. n BY StepsAre
<1>3. c.live = FALSE /\ c.s = s /\ c.t = t OBVIOUS
<1> HIDE DEF c
<1>2. w = PopLoop!Iter(c, s, q)[DOMAIN q]
  <2>1. PopAll(s, at, length, c.t) = PopLoop!Iter(c, s, q)[DOMAIN q] BY PopIs
  <2> QED BY <2>1, <1>3
<1>4. PopP(c, 0, s) BY <1>3 DEF PopP
<1> HIDE DEF q
<1>5. ASSUME NEW i \in 1 .. n, NEW u, PopP(c, i - 1, u) PROVE PopP(c, i, PopOne(c, u, q[i]))
  <2> DEFINE z == PopOne(c, u, q[i])
  <2>1. Shape(u) /\ (s.panic => u.panic) BY <1>3, <1>5 DEF PopP
  <2>2. Shape(z) /\ (u.panic => z.panic) BY <2>1, PopOneStay
  <2> HIDE DEF z
  <2>3. PopP(c, i, z) BY <2>1, <2>2, <1>3 DEF PopP
  <2> QED BY <2>3 DEF z
<1>6. PopP(c, n, w) BY <1>1, <1>2, <1>4, <1>5, PopLoop!FoldInv
<1> QED BY <1>6, <1>3 DEF PopP

\* The visited pages are all there afterwards.
LEMMA PopAllOK ==
    ASSUME NEW s, NEW hold, NEW b, NEW due, J(s, hold, b, due), NEW at \in Int, NEW length \in Int,
           NEW n \in Nat, Inside(Steps(at, length), n), NEW t \in RWX,
           NEW w, w = PopAll(s, at, length, t), Live(w)
    PROVE  J(w, hold, b, due) /\ \A j \in 1 .. n : Valid(w, PageOf(Steps(at, length)[j]))
<1> DEFINE q == Steps(at, length)
           c == [live |-> TRUE, s |-> s, t |-> t, hold |-> hold, b |-> b, due |-> due, q |-> q]
<1>1. DOMAIN q = 1 .. n /\ \A i \in 1 .. n : PageOf(q[i]) \in VPages BY DEF Inside
<1>3. c.live = TRUE /\ c.s = s /\ c.t = t /\ c.hold = hold /\ c.b = b /\ c.due = due /\ c.q = q OBVIOUS
<1> HIDE DEF c
<1>2. w = PopLoop!Iter(c, s, q)[DOMAIN q]
  <2>1. PopAll(s, at, length, c.t) = PopLoop!Iter(c, s, q)[DOMAIN q] BY PopIs
  <2> QED BY <2>1, <1>3
<1>0. Shape(s) BY DEF J, J0
<1>4. PopP(c, 0, s) BY <1>0, <1>3 DEF PopP
<1> HIDE DEF q
<1>5. ASSUME NEW i \in 1 .. n, NEW u, PopP(c, i - 1, u) PROVE PopP(c, i, PopOne(c, u, q[i]))
  <2> DEFINE z == PopOne(c, u, q[i])
             a == q[i]
  <2>1. Shape(u) /\ (s.panic => u.panic) BY <1>3, <1>5 DEF PopP
  <2>2. Shape(z) /\ (u.panic => z.panic) BY <2>1, PopOneStay
  <2>z. z = IF u.panic THEN u ELSE Touch(u, a, t) BY <1>3 DEF PopOne
  <2>a. PageOf(a) \in VPages BY <1>1
  <2> HIDE DEF z
  <2>3. ASSUME Live(z) PROVE J(z, hold, b, due) /\ \A j \in 1 .. i : Valid(z, PageOf(q[j]))
    <3>1. Live(u) /\ z = Touch(u, a, t) BY <2>1, <2>2, <2>3, <2>z DEF Live, Shape
    <3>2. J(u, hold, b, due) /\ \A j \in 1 .. (i - 1) : Valid(u, PageOf(q[j])) BY <3>1, <1>3, <1>5 DEF PopP
    <3> HIDE DEF a
    <3>3. J(z, hold, b, due) /\ Valid(z, PageOf(a)) /\ \A p \in VPages : Valid(u, p) => Valid(z, p)
      BY <2>3, <2>a, <3>1, <3>2, TouchOK
    <3>4. ASSUME NEW j \in 1 .. i PROVE Valid(z, PageOf(q[j]))
      <4>1. CASE j = i BY <4>1, <3>3 DEF a
      <4>2. CASE j /= i
        <5>1. j \in 1 .. (i - 1) /\ j \in 1 .. n BY <4>2
        <5> QED BY <5>1, <3>2, <3>3, <1>1
      <4> QED BY <4>1, <4>2
    <3> QED BY <3>3, <3>4
  <2>4. PopP(c, i, z) BY <2>1, <2>2, <2>3, <1>3 DEF PopP
  <2> QED BY <2>4 DEF z
<1>6. PopP(c, n, w) BY <1>1, <1>2, <1>4, <1>5, PopLoop!FoldInv
<1> QED BY <1>6, <1>3 DEF PopP, q

\* Every unit of a buffer is on a page that is there.
Covered(s, a, n) == \A u \in a .. a + n - 1 : PageOf(u) \in VPages /\ Valid(s, PageOf(u))

\* populate_mapping is its loop from the start of the page.
LEMMA PopulateIs ==
    ASSUME NEW s, NEW start, NEW size, NEW t
    PROVE  populate_mapping(s, start, size, t)
             = PopAll(s, PageOf(start) * PGSIZE, size + start - PageOf(start) * PGSIZE, t)
BY DEF populate_mapping, PopAll

\* populate_mapping keeps the fields and a panic.
LEMMA PopulateStay ==
    ASSUME NEW s, Shape(s), NEW start \in Int, NEW size \in Int, NEW t
    PROVE  Shape(populate_mapping(s, start, size, t)) /\ (s.panic => populate_mapping(s, start, size, t).panic)
<1> DEFINE a0 == PageOf(start) * PGSIZE
           l == size + start - a0
           w == PopAll(s, a0, l, t)
<1>1. a0 \in Int BY PageSplit
<1>2. l \in Int BY <1>1
<1>3. w = PopAll(s, a0, l, t) OBVIOUS
<1> HIDE DEF a0, l, w
<1>4. Shape(w) /\ (s.panic => w.panic) BY <1>1, <1>2, <1>3, PopAllStay
<1> QED BY <1>4, PopulateIs DEF w, a0, l

\* The kernel's walk over a buffer reaches each of its pages.
LEMMA PopulateOK ==
    ASSUME NEW s, NEW hold, NEW b, NEW due, J(s, hold, b, due), NEW start \in Nat, NEW size \in Nat,
           start + size < Word, NEW t \in RWX,
           NEW w, w = populate_mapping(s, start, size, t), Live(w)
    PROVE  J(w, hold, b, due) /\ Covered(w, start, size)
<1> DEFINE p0 == PageOf(start)
           a0 == p0 * PGSIZE
           l == size + start - a0
<1>0. PGSIZE \in Nat /\ PGSIZE > 0 /\ Word \in Nat /\ VaPages \in Nat BY MmapAssumption, MaxFacts
<1>1. p0 \in Int /\ a0 \in Int /\ a0 <= start BY PageSplit
<1>2. p0 \in Nat /\ p0 \in 0 .. VaPages - 1
  <2>1. start \in 0 .. VaPages * PGSIZE - 1 BY <1>0 DEF Word
  <2> QED BY <2>1, <1>0, PageIn
<1>3. a0 \in Nat BY <1>0, <1>1, <1>2
<1>4. a0 % PGSIZE = 0 /\ PageOf(a0) = p0 BY <1>1, TimesEven
<1>w. w = PopAll(s, a0, l, t) BY PopulateIs
<1> HIDE DEF a0
<1>5. l \in Nat /\ l \in Int /\ a0 + l = start + size /\ a0 < Word BY <1>1, <1>3, <1>0
<1> HIDE DEF l
<1>6. PICK n \in Nat :
              /\ DOMAIN Steps(a0, l) = 1 .. n
              /\ \A i \in 1 .. n :
                    /\ Steps(a0, l)[i] = a0 + (i - 1) * PGSIZE
                    /\ PageOf(Steps(a0, l)[i]) = PageOf(a0) + (i - 1)
                    /\ Steps(a0, l)[i] = PageOf(Steps(a0, l)[i]) * PGSIZE
                    /\ PageOf(Steps(a0, l)[i]) \in VPages
              /\ a0 + l < Word => /\ n = NPage(l)
                                  /\ \A i \in 1 .. n : Steps(a0, l)[i] < a0 + l
              /\ l < Word /\ a0 + l >= Word => n = 0
  BY <1>3, <1>4, <1>5, AlignedSteps
<1>7. n = NPage(l) BY <1>5, <1>6
<1>8. Inside(Steps(a0, l), n) BY <1>6 DEF Inside
<1>9. J(w, hold, b, due) /\ \A j \in 1 .. n : Valid(w, PageOf(Steps(a0, l)[j]))
  BY <1>3, <1>5, <1>8, <1>w, PopAllOK
<1>10. ASSUME NEW u \in start .. start + size - 1 PROVE PageOf(u) \in VPages /\ Valid(w, PageOf(u))
  <2> DEFINE p == PageOf(u)
  <2>1. /\ u \in Int /\ p \in Int /\ p * PGSIZE \in Int /\ p * PGSIZE <= u /\ u < p * PGSIZE + PGSIZE
    BY PageSplit
  <2> HIDE DEF p, p0
  <2>2. p0 <= p
    <3>1. SUFFICES ASSUME p < p0 PROVE FALSE BY <1>1, <2>1
    <3>2. p * PGSIZE + PGSIZE <= p0 * PGSIZE BY <3>1, <1>1, <2>1, TimesMono
    <3>3. p0 * PGSIZE <= start BY <1>1 DEF a0
    <3>4. p0 * PGSIZE \in Int BY <1>1 DEF a0
    <3> QED BY <3>2, <3>3, <3>4, <2>1, <1>0
  <2>3. NPage(l) * PGSIZE \in Nat /\ l <= NPage(l) * PGSIZE /\ NPage(l) \in Nat BY <1>5, NPageIs
  <2>4. (p - p0) < NPage(l)
    <3>1. SUFFICES ASSUME NPage(l) <= p - p0 PROVE FALSE BY <1>1, <2>1, <2>3
    <3>2. NPage(l) * PGSIZE <= (p - p0) * PGSIZE
      <4>1. CASE NPage(l) = p - p0 BY <4>1, <2>3
      <4>2. CASE NPage(l) < p - p0
        <5>1. NPage(l) * PGSIZE + PGSIZE <= (p - p0) * PGSIZE BY <4>2, <1>1, <2>1, <2>3, TimesMono
        <5>2. (p - p0) * PGSIZE \in Int BY <1>0, <1>1, <2>1
        <5> QED BY <5>1, <5>2, <2>3, <1>0
      <4> QED BY <4>1, <4>2, <3>1, <1>1, <2>1, <2>3
    <3>3. (p - p0) * PGSIZE = p * PGSIZE - p0 * PGSIZE BY <1>0, <1>1, <2>1
    <3>4. a0 = p0 * PGSIZE BY DEF a0
    <3> QED BY <3>2, <3>3, <3>4, <2>1, <2>3, <1>1, <1>5
  <2> DEFINE i == p - p0 + 1
  <2>5. i \in 1 .. n BY <2>2, <2>4, <1>7, <1>1, <2>1
  <2>6. PageOf(Steps(a0, l)[i]) = p BY <2>5, <1>4, <1>6, <1>1, <2>1
  <2> QED BY <2>5, <2>6, <1>6, <1>9 DEF p
<1> QED BY <1>9, <1>10 DEF Covered

----------------------------------------------------------------------------
\* Stores and loads through the kernel keep the fields and do not panic.
LEMMA WriteStay ==
    ASSUME NEW s, Shape(s), NEW a, NEW n, NEW x
    PROVE  Shape(Write(s, a, n, x)) /\ Write(s, a, n, x).panic = s.panic
BY DEF Write, Shape, Fields
LEMMA LoadStay ==
    ASSUME NEW s, Shape(s), NEW a, NEW n, NEW walked
    PROVE  Shape(HostLoad(s, a, n, walked)) /\ HostLoad(s, a, n, walked).panic = s.panic
BY DEF HostLoad, Shape, Fields

\* A page of a buffer: what the store makes of it.
Put(page, p, a, n, y) == [j \in Units |-> IF InRange(p, j, a, n) THEN y ELSE page[j]]

\* A page that shows what was stored still does.
LEMMA PutIs ==
    ASSUME NEW page, NEW units, NEW p, NEW a, NEW n, NEW x, \A j \in Units : page[j] \in units[j]
    PROVE  \A j \in Units : Put(page, p, a, n, x)[j] \in Put(units, p, a, n, {x})[j]
BY DEF Put

\* A store through the kernel's mapping of the user's pages.
LEMMA WriteOK ==
    ASSUME NEW s, NEW hold, NEW b, NEW due, J(s, hold, b, due), NEW a \in Int, NEW n \in Int,
           \A u \in a .. a + n - 1 : PageOf(u) \in VPages => Valid(s, PageOf(u)), NEW x
    PROVE  J(Write(s, a, n, x), hold, b, due)
<1> DEFINE t == Write(s, a, n, x)
           w(p) == [s.want[p] EXCEPT !.units = Put(s.want[p].units, p, a, n, {x})]
<1>1. /\ Shape(s) /\ s.panic = FALSE /\ J0(s, hold, b, due) /\ TlbOK(s.pte, s.tlb)
      /\ ContentOK(s.pte, s.vmrs, s.files, s.host, s.disk, s.mem, s.want) /\ MapOK(s.pte, s.vmrs, due)
  BY DEF J, J0
<1>2. /\ Shape(t) /\ t.panic = FALSE /\ \A y \in Fields \ {"mem", "want", "lost"} : t[y] = s[y]
      /\ t.mem = [p \in VPages |-> Put(s.mem[p], p, a, n, x)]
      /\ t.want = [p \in VPages |-> w(p)]
  <2> DEFINE page == [p \in VPages |-> Put(s.mem[p], p, a, n, x)]
             wanted == [p \in VPages |-> w(p)]
             over == s.lost \/ \E u \in a .. a + n - 1 : PageOf(u) >= DRAM_BASE
  <2>1. t = [s EXCEPT !.mem = page, !.want = wanted, !.lost = over] BY <1>1, Zenon DEF Write, Put
  <2>2. Shape(t) /\ t.panic = s.panic BY <1>1, WriteStay
  <2> HIDE DEF t, page, wanted, over
  <2>3. \A y \in Fields \ {"mem", "want", "lost"} : t[y] = s[y] BY <2>1, <1>1 DEF Shape, Fields
  <2>4. t.mem = page /\ t.want = wanted BY <2>1, <1>1 DEF Shape, Fields
  <2> QED BY <2>2, <2>3, <2>4, <1>1 DEF page, wanted
<1> HIDE DEF t
<1>3. /\ t.fds = s.fds /\ t.files = s.files /\ t.host = s.host /\ t.pte = s.pte /\ t.vmrs = s.vmrs
      /\ t.brk = s.brk /\ t.brk_min = s.brk_min /\ t.brk_max = s.brk_max /\ t.mmap_max = s.mmap_max
      /\ t.stale = s.stale /\ t.tlb = s.tlb /\ t.disk = s.disk
  BY <1>2 DEF Fields
<1>4. ASSUME NEW p \in VPages
      PROVE  /\ Formed(s.mem[p], s.want[p]) /\ Formed(t.mem[p], t.want[p])
             /\ t.mem[p] = Put(s.mem[p], p, a, n, x)
             /\ t.want[p].from = s.want[p].from
             /\ t.want[p].units = Put(s.want[p].units, p, a, n, {x})
  <2>1. Formed(s.mem[p], s.want[p]) BY <1>1 DEF ContentOK
  <2>2. t.mem[p] = Put(s.mem[p], p, a, n, x) /\ t.want[p] = w(p) BY <1>2
  <2>3. DOMAIN t.mem[p] = Units BY <2>2 DEF Put
  <2>4. /\ DOMAIN w(p) = {"from", "units"} /\ w(p).from = s.want[p].from
        /\ w(p).units = Put(s.want[p].units, p, a, n, {x})
    BY <2>1 DEF Formed, Awaited
  <2> HIDE DEF w
  <2>5. DOMAIN w(p).units = Units BY <2>4 DEF Put
  <2> QED BY <2>1, <2>2, <2>3, <2>4, <2>5 DEF Formed, Awaited
<1> HIDE DEF w
<1>5. ContentOK(t.pte, t.vmrs, t.files, t.host, t.disk, t.mem, t.want)
  <2>1. ASSUME NEW p \in VPages, "V" \in t.pte[p].bits PROVE Shows(t.mem[p], t.want[p])
    <3>1. \A j \in Units : s.mem[p][j] \in s.want[p].units[j] BY <2>1, <1>1, <1>3 DEF ContentOK, Shows
    <3>2. \A j \in Units : Put(s.mem[p], p, a, n, x)[j] \in Put(s.want[p].units, p, a, n, {x})[j]
      BY <3>1, PutIs
    <3> QED BY <3>2, <1>4 DEF Shows
  <2>2. ASSUME NEW p \in VPages, t.pte[p].vmr /= 0
        PROVE  Awaits(t.disk, t.want[p], Promise(p, t.vmrs[t.pte[p].vmr], t.files, t.host))
    <3>1. Awaits(s.disk, s.want[p], Promise(p, s.vmrs[s.pte[p].vmr], s.files, s.host)) BY <2>2, <1>1, <1>3 DEF ContentOK
    <3>2. ~Valid(s, p) BY <2>2, <1>1, <1>3 DEF MapOK, PteFit, Valid
    <3>3. \A j \in Units : ~InRange(p, j, a, n)
      <4> SUFFICES ASSUME NEW j \in Units, InRange(p, j, a, n) PROVE FALSE OBVIOUS
      <4>1. j \in 0 .. PGSIZE - 1 /\ p \in Int BY Finite DEF Units
      <4>2. PageOf(p * PGSIZE + j) = p BY <4>1, PageIs
      <4>3. p * PGSIZE + j \in a .. a + n - 1 BY DEF InRange
      <4> QED BY <4>2, <4>3, <3>2
    <3>4. \A j \in Units : t.want[p].units[j] = s.want[p].units[j]
      <4> DEFINE q == s.want[p].units
      <4>1. t.want[p].units = Put(q, p, a, n, {x}) BY <1>4
      <4> HIDE DEF q
      <4>2. \A j \in Units : Put(q, p, a, n, {x})[j] = q[j] BY <3>3 DEF Put
      <4> QED BY <4>1, <4>2 DEF q
    <3>5. t.want[p].from = s.want[p].from BY <1>4
    <3> QED BY <3>1, <3>4, <3>5, <1>3 DEF Awaits
  <2>3. DOMAIN t.mem = VPages /\ DOMAIN t.want = VPages BY <1>2
  <2> QED BY <2>1, <2>2, <2>3, <1>4 DEF ContentOK
<1>6. J(t, hold, b, due) BY <1>1, <1>2, <1>3, <1>5 DEF J, J0
<1> QED BY <1>6 DEF t

\* The host reads what the user sees, but for a page nobody has touched.
LEMMA HostLoadOK ==
    ASSUME NEW s, NEW hold, NEW b, NEW due, J(s, hold, b, due), NEW a \in Int, NEW n \in Int,
           NEW walked \in BOOLEAN, walked => Covered(s, a, n),
           \A u \in a .. a + n - 1 : PageOf(u) \in VPages
    PROVE  J(HostLoad(s, a, n, walked), hold, b, due)
<1> DEFINE t == HostLoad(s, a, n, walked)
           more == {IF walked \/ Valid(s, PageOf(u)) THEN "seen" ELSE "unseen" :
                       u \in {w \in a .. a + n - 1 : Differs(s, w)}}
<1>1. /\ Shape(s) /\ s.panic = FALSE /\ J0(s, hold, b, due) /\ TlbOK(s.pte, s.tlb) /\ "seen" \notin s.stale
      /\ ContentOK(s.pte, s.vmrs, s.files, s.host, s.disk, s.mem, s.want)
  BY DEF J, J0
<1>2. "seen" \notin more
  <2>1. ASSUME NEW u \in a .. a + n - 1, Differs(s, u) PROVE ~walked /\ ~Valid(s, PageOf(u))
    <3>1. u % PGSIZE \in Units /\ PageOf(u) \in VPages
      <4>1. PGSIZE \in Nat /\ PGSIZE > 0 /\ u \in Int BY MmapAssumption
      <4>2. u % PGSIZE \in 0 .. PGSIZE - 1 BY <4>1
      <4> QED BY <4>2 DEF Units
    <3>2. ~Valid(s, PageOf(u))
      <4> SUFFICES ASSUME Valid(s, PageOf(u)) PROVE FALSE OBVIOUS
      <4>1. Shows(s.mem[PageOf(u)], s.want[PageOf(u)]) BY <3>1, <1>1 DEF ContentOK, Valid
      <4> QED BY <4>1, <3>1, <2>1 DEF Shows, Differs
    <3>3. ~walked BY <3>2 DEF Covered
    <3> QED BY <3>2, <3>3
  <2>2. \A u \in {w \in a .. a + n - 1 : Differs(s, w)} :
          (IF walked \/ Valid(s, PageOf(u)) THEN "seen" ELSE "unseen") = "unseen"
    BY <2>1
  <2> QED BY <2>2
<1>3. t = [s EXCEPT !.stale = @ \cup more] BY <1>1 DEF HostLoad
<1> HIDE DEF more
<1>4. Shape(t) /\ t.panic = FALSE /\ "seen" \notin t.stale /\ \A y \in Fields \ {"stale"} : t[y] = s[y]
  <2>1. Shape(t) /\ t.panic = s.panic BY <1>1, LoadStay
  <2>2. t.stale = s.stale \cup more /\ \A y \in Fields \ {"stale"} : t[y] = s[y]
    <3> HIDE DEF t
    <3> QED BY <1>1, <1>3 DEF Shape, Fields
  <2> QED BY <2>1, <2>2, <1>1, <1>2
<1> HIDE DEF t
<1>5. /\ t.fds = s.fds /\ t.files = s.files /\ t.host = s.host /\ t.pte = s.pte /\ t.vmrs = s.vmrs
      /\ t.brk = s.brk /\ t.brk_min = s.brk_min /\ t.brk_max = s.brk_max /\ t.mmap_max = s.mmap_max
      /\ t.mem = s.mem /\ t.want = s.want /\ t.tlb = s.tlb /\ t.disk = s.disk
  BY <1>4 DEF Fields
<1>6. J(t, hold, b, due) BY <1>1, <1>4, <1>5 DEF J, J0
<1> QED BY <1>6 DEF t

\* A change of a host's file keeps the fields and does not panic.
LEMMA HostChangesStay ==
    ASSUME NEW s, Shape(s), NEW name, NEW file
    PROVE  /\ Shape(HostChanges(s, name, file)) /\ HostChanges(s, name, file).panic = s.panic
           /\ Differ(s, HostChanges(s, name, file), {"disk", "want"})
BY DEF HostChanges, Shape, Fields, Differ

\* A host's file changes: pages that wait for it may show the new content too.
LEMMA HostChangesOK ==
    ASSUME NEW s, NEW hold, NEW b, NEW due, J(s, hold, b, due), NEW name \in Names, NEW file,
           file.size \in Nat
    PROVE  J(HostChanges(s, name, file), hold, b, due)
<1> DEFINE t == HostChanges(s, name, file)
           disk == [s.disk EXCEPT ![name] = file]
           late(p) == s.want[p].from.name = name /\ ~Valid(s, p)
           more(p) == [j \in Units |-> s.want[p].units[j] \cup {Content(disk, s.want[p].from)[j]}]
           w(p) == IF late(p) THEN [s.want[p] EXCEPT !.units = more(p)] ELSE s.want[p]
<1>1. /\ Shape(s) /\ s.panic = FALSE /\ J0(s, hold, b, due) /\ TlbOK(s.pte, s.tlb) /\ DiskOK(s.disk)
      /\ ContentOK(s.pte, s.vmrs, s.files, s.host, s.disk, s.mem, s.want) /\ MapOK(s.pte, s.vmrs, due)
  BY DEF J, J0
<1>2. t.disk = disk /\ t.want = [p \in VPages |-> w(p)]
  <2> DEFINE wanted == [p \in VPages |-> w(p)]
  <2>1. t = [s EXCEPT !.disk = disk, !.want = wanted] BY Zenon DEF HostChanges
  <2> HIDE DEF t, disk, wanted
  <2>2. t.disk = disk /\ t.want = wanted BY <2>1, <1>1 DEF Shape, Fields
  <2> QED BY <2>2 DEF wanted
<1>3. Shape(t) /\ t.panic = FALSE /\ Differ(s, t, {"disk", "want"}) BY <1>1, HostChangesStay
<1> HIDE DEF t
<1>4. /\ t.fds = s.fds /\ t.files = s.files /\ t.host = s.host /\ t.pte = s.pte /\ t.vmrs = s.vmrs
      /\ t.brk = s.brk /\ t.brk_min = s.brk_min /\ t.brk_max = s.brk_max /\ t.mmap_max = s.mmap_max
      /\ t.stale = s.stale /\ t.tlb = s.tlb /\ t.mem = s.mem
  BY <1>3 DEF Differ, Fields
<1>5. /\ DiskOK(disk) /\ disk[name] = file
      /\ \A other \in Names : other /= name => disk[other] = s.disk[other]
  BY <1>1 DEF DiskOK
<1> HIDE DEF disk
<1>6. ASSUME NEW p \in VPages
      PROVE  /\ Formed(t.mem[p], t.want[p]) /\ t.want[p].from = s.want[p].from
             /\ ~late(p) => t.want[p] = s.want[p]
             /\ late(p) => \A j \in Units : t.want[p].units[j] = s.want[p].units[j] \cup {Content(disk, s.want[p].from)[j]}
  <2>1. Formed(s.mem[p], s.want[p]) BY <1>1 DEF ContentOK
  <2>2. t.want[p] = w(p) BY <1>2
  <2>3. CASE ~late(p) BY <2>1, <2>2, <2>3, <1>4
  <2>4. CASE late(p)
    <3> DEFINE q == more(p)
               z == [s.want[p] EXCEPT !.units = q]
    <3>1. DOMAIN q = Units /\ \A j \in Units : q[j] = s.want[p].units[j] \cup {Content(disk, s.want[p].from)[j]}
      OBVIOUS
    <3>2. t.want[p] = z BY <2>2, <2>4
    <3> HIDE DEF q
    <3>3. DOMAIN z = {"from", "units"} /\ z.from = s.want[p].from /\ z.units = q
      BY <2>1 DEF Formed, Awaited
    <3> HIDE DEF z
    <3> QED BY <2>1, <2>4, <3>1, <3>2, <3>3, <1>4 DEF Formed, Awaited
  <2> QED BY <2>3, <2>4
<1>7. ContentOK(t.pte, t.vmrs, t.files, t.host, t.disk, t.mem, t.want)
  <2>1. ASSUME NEW p \in VPages, "V" \in t.pte[p].bits PROVE Shows(t.mem[p], t.want[p])
    <3>1. Shows(s.mem[p], s.want[p]) /\ ~late(p) BY <2>1, <1>1, <1>4 DEF ContentOK, Valid
    <3> QED BY <3>1, <1>4, <1>6
  <2>2. ASSUME NEW p \in VPages, t.pte[p].vmr /= 0
        PROVE  Awaits(t.disk, t.want[p], Promise(p, t.vmrs[t.pte[p].vmr], t.files, t.host))
    <3> DEFINE from == Promise(p, t.vmrs[t.pte[p].vmr], t.files, t.host)
    <3>1. Awaits(s.disk, s.want[p], from) BY <2>2, <1>1, <1>4 DEF ContentOK
    <3>2. ~Valid(s, p) BY <2>2, <1>1, <1>4 DEF MapOK, PteFit, Valid
    <3> HIDE DEF from
    <3>3. s.want[p].from = from /\ t.want[p].from = from BY <3>1, <1>6 DEF Awaits
    <3>4. ASSUME NEW j \in Units PROVE Content(disk, from)[j] \in t.want[p].units[j]
      <4>1. CASE from.name = name
        <5>1. late(p) BY <4>1, <3>2, <3>3
        <5> QED BY <5>1, <3>3, <1>6
      <4>2. CASE from.name /= name
        <5>1. ~late(p) BY <4>2, <3>3
        <5>2. t.want[p] = s.want[p] BY <5>1, <1>6
        <5>3. Content(disk, from)[j] = Content(s.disk, from)[j] BY <4>2, <1>5 DEF Content
        <5> QED BY <5>2, <5>3, <3>1 DEF Awaits
      <4> QED BY <4>1, <4>2
    <3>5. Awaits(t.disk, t.want[p], from) BY <3>3, <3>4, <1>2 DEF Awaits
    <3> QED BY <3>5 DEF from
  <2>3. DOMAIN t.mem = VPages /\ DOMAIN t.want = VPages BY <1>1, <1>2, <1>4 DEF ContentOK
  <2> QED BY <2>1, <2>2, <2>3, <1>6 DEF ContentOK
<1>8. J(t, hold, b, due) BY <1>1, <1>2, <1>3, <1>4, <1>5, <1>7 DEF J, J0
<1> QED BY <1>8 DEF t

----------------------------------------------------------------------------
\* What a kernel step makes of a good state.
Good(t, hold, b, due) == Shape(t) /\ (Live(t) => J(t, hold, b, due))
\* A buffer inside the address space.
BufferFits(addr, len) == addr \in Nat /\ len \in Nat /\ addr + len < Word

\* The invariant is good.
LEMMA GoodJ ==
    ASSUME NEW s, NEW hold, NEW b, NEW due, J(s, hold, b, due)
    PROVE  Good(s, hold, b, due) /\ Shape(s) /\ Live(s)
BY DEF J, J0, Good, Live

\* Store keeps the fields and a panic.
LEMMA StoreStay ==
    ASSUME NEW s, Shape(s), NEW a \in Int, NEW n \in Int, NEW x
    PROVE  Shape(Store(s, a, n, x)) /\ (s.panic => Store(s, a, n, x).panic)
<1> DEFINE w == populate_mapping(s, a, n, "W")
<1>1. Shape(w) /\ (s.panic => w.panic) BY PopulateStay
<1> HIDE DEF w
<1>2. Shape(Write(w, a, n, x)) /\ Write(w, a, n, x).panic = w.panic BY <1>1, WriteStay
<1> QED BY <1>1, <1>2 DEF Store, w

\* The kernel, or the host on the kernel's behalf, stores to a buffer.
LEMMA StoreOK ==
    ASSUME NEW s, NEW hold, NEW b, NEW due, J(s, hold, b, due), NEW a, NEW n, BufferFits(a, n), NEW x,
           NEW t, t = Store(s, a, n, x)
    PROVE  Good(t, hold, b, due)
<1> DEFINE w == populate_mapping(s, a, n, "W")
<1>0. Shape(s) /\ a \in Int /\ n \in Int /\ a \in Nat /\ n \in Nat /\ a + n < Word /\ "W" \in RWX
  BY GoodJ DEF BufferFits, RWX
<1>1. Shape(w) BY <1>0, PopulateStay
<1>2. t = Write(w, a, n, x) BY DEF Store
<1>w. w = populate_mapping(s, a, n, "W") OBVIOUS
<1> HIDE DEF w
<1>3. Shape(t) /\ t.panic = w.panic BY <1>1, <1>2, WriteStay
<1>4. ASSUME Live(t) PROVE J(t, hold, b, due)
  <2>1. Live(w) BY <1>3, <1>4 DEF Live
  <2>2. J(w, hold, b, due) /\ Covered(w, a, n) BY <2>1, <1>0, <1>w, PopulateOK
  <2>3. \A u \in a .. a + n - 1 : PageOf(u) \in VPages => Valid(w, PageOf(u)) BY <2>2 DEF Covered
  <2> QED BY <2>2, <2>3, <1>0, <1>2, WriteOK
<1> QED BY <1>3, <1>4 DEF Good

\* The host reads a buffer that the kernel has walked over.
LEMMA PathOK ==
    ASSUME NEW s, NEW hold, NEW b, NEW due, J(s, hold, b, due), NEW buf, BufferFits(buf.addr, buf.len),
           NEW t, t = Path(s, buf)
    PROVE  Good(t, hold, b, due)
<1> DEFINE a == buf.addr
           n == buf.len
           w == populate_mapping(s, a, n, "R")
<1>0. Shape(s) /\ a \in Int /\ n \in Int /\ a \in Nat /\ n \in Nat /\ a + n < Word /\ "R" \in RWX
  BY GoodJ DEF BufferFits, RWX
<1> HIDE DEF a, n
<1>1. Shape(w) BY <1>0, PopulateStay
<1>2. t = HostLoad(w, a, n, TRUE) BY DEF Path, a, n
<1>w. w = populate_mapping(s, a, n, "R") OBVIOUS
<1> HIDE DEF w
<1>3. Shape(t) /\ t.panic = w.panic BY <1>1, <1>2 DEF HostLoad, Shape, Fields
<1>4. ASSUME Live(t) PROVE J(t, hold, b, due)
  <2>1. Live(w) BY <1>3, <1>4 DEF Live
  <2>2. J(w, hold, b, due) /\ Covered(w, a, n) BY <2>1, <1>0, <1>w, PopulateOK
  <2>3. TRUE \in BOOLEAN /\ \A u \in a .. a + n - 1 : PageOf(u) \in VPages BY <2>2 DEF Covered
  <2> QED BY <2>2, <2>3, <1>0, <1>2, HostLoadOK
<1> QED BY <1>3, <1>4 DEF Good

\* What a file is open on becomes d.
OpenOn(s, f) == s.host[s.files[f].kfd]
Updated(s, f, d) ==
    IF s.panic \/ s.files[f].kfd \notin Files \/ OpenOn(s, f) \notin Names THEN s
    ELSE HostChanges(s, OpenOn(s, f), d)

\* Truncating and writing give the file a new content.
LEMMA UpdateIs ==
    ASSUME NEW s, NEW f, NEW len, NEW buf, NEW pos
    PROVE  /\ file_truncate(s, f, len) = Updated(s, f, Resized(s.disk[OpenOn(s, f)], len))
           /\ file_write(s, f, buf, pos)
                = Updated(Path(s, buf), f,
                          Overwritten(Path(s, buf), Path(s, buf).disk[OpenOn(Path(s, buf), f)], pos, buf.addr, buf.len))
BY DEF file_truncate, file_write, HostUpdate, Updated, OpenOn

\* The host's file may change when what it becomes has a size.
LEMMA UpdatedOK ==
    ASSUME NEW s, NEW hold, NEW b, NEW due, Good(s, hold, b, due), NEW f, NEW d,
           Live(s) /\ OpenOn(s, f) \in Names => d.size \in Nat
    PROVE  Good(Updated(s, f, d), hold, b, due)
<1> DEFINE n == OpenOn(s, f)
           z == HostChanges(s, n, d)
           u == Updated(s, f, d)
<1>1. u = IF s.panic \/ s.files[f].kfd \notin Files \/ n \notin Names THEN s ELSE z BY DEF Updated
<1>2. CASE u = s BY <1>2
<1>3. CASE u /= s
  <2>1. u = z /\ n \in Names /\ ~s.panic BY <1>1, <1>3
  <2>2. Live(s) BY <2>1 DEF Good, Shape, Live
  <2>3. J(s, hold, b, due) /\ d.size \in Nat BY <2>1, <2>2 DEF Good
  <2> HIDE DEF n, u
  <2>4. J(z, hold, b, due) BY <2>1, <2>3, HostChangesOK
  <2> HIDE DEF z
  <2>5. Good(u, hold, b, due) BY <2>1, <2>4, GoodJ
  <2> QED BY <2>5 DEF u
<1> QED BY <1>2, <1>3

\* ftruncate, and the truncation that open asks for.
LEMMA TruncateOK ==
    ASSUME NEW s, NEW hold, NEW b, NEW due, J(s, hold, b, due), NEW f, NEW len \in Nat
    PROVE  Good(file_truncate(s, f, len), hold, b, due)
<1> DEFINE d == Resized(s.disk[OpenOn(s, f)], len)
<1>1. d.size = len BY DEF Resized
<1>2. file_truncate(s, f, len) = Updated(s, f, d) BY UpdateIs
<1> HIDE DEF d
<1> QED BY <1>1, <1>2, GoodJ, UpdatedOK

\* write.
LEMMA FileWriteBody ==
    ASSUME NEW s, NEW hold, NEW b, NEW due, J(s, hold, b, due), NEW f, NEW buf,
           BufferFits(buf.addr, buf.len), NEW pos \in Nat
    PROVE  Good(file_write(s, f, buf, pos), hold, b, due)
<1> DEFINE t == Path(s, buf)
           old == t.disk[OpenOn(t, f)]
           a == buf.addr
           n == buf.len
           d == Overwritten(t, old, pos, a, n)
           size == IF n = 0 \/ old.size > pos + n THEN old.size ELSE pos + n
<1>1. Good(t, hold, b, due) BY PathOK
<1>2. file_write(s, f, buf, pos) = Updated(t, f, d) BY UpdateIs
<1>3. n \in Nat BY DEF BufferFits
<1> HIDE DEF t, a, n
<1>4. d.size = size BY DEF Overwritten, Resized
<1>5. ASSUME Live(t), OpenOn(t, f) \in Names PROVE d.size \in Nat
  <2>1. DiskOK(t.disk) BY <1>1, <1>5 DEF Good, J, J0
  <2>2. old.size \in Nat BY <2>1, <1>5 DEF DiskOK
  <2> HIDE DEF d, old
  <2> QED BY <2>2, <1>3, <1>4
<1> HIDE DEF d
<1> QED BY <1>1, <1>2, <1>5, UpdatedOK

\* Reading a file stores into the buffer.
LEMMA FileReadIs ==
    ASSUME NEW s, NEW f, NEW buf
    PROVE  file_read(s, f, buf) = Store(s, buf.addr, buf.len, Stored)
BY DEF file_read, HostStore, Store

\* A reference more, and less again.
LEMMA MoreHold ==
    ASSUME NEW s, NEW hold, NEW b, NEW due, J0(s, hold, b, due), NEW f \in Files
    PROVE  /\ More(hold, f) \in [Files -> Nat] /\ More(hold, f)[f] >= 1 /\ Less(More(hold, f), f) = hold
           /\ hold \in [Files -> Nat] /\ \A g \in Files : hold[g] <= More(hold, f)[g]
<1>1. hold \in [Files -> Nat] BY DEF J0, FileOK
<1>2. /\ More(hold, f) \in [Files -> Nat] /\ More(hold, f)[f] = hold[f] + 1
      /\ \A g \in Files : g /= f => More(hold, f)[g] = hold[g]
      /\ Less(More(hold, f), f) = hold
  BY <1>1, MoreLess
<1>3. \A g \in Files : hold[g] \in Nat BY <1>1
<1>4. \A g \in Files : hold[g] <= More(hold, f)[g]
  <2> SUFFICES ASSUME NEW g \in Files PROVE hold[g] <= More(hold, f)[g] OBVIOUS
  <2>1. CASE g = f BY <2>1, <1>2, <1>3
  <2>2. CASE g /= f BY <2>2, <1>2, <1>3
  <2> QED BY <2>1, <2>2
<1>5. More(hold, f)[f] >= 1 BY <1>2, <1>3
<1> QED BY <1>1, <1>2, <1>4, <1>5

\* A call that takes a reference, does t and drops it.
Used(s, g, t) == IF g.r = None THEN s ELSE IF t.panic THEN t ELSE file_decref(t, g.r)
Serve(g, t, hold, b, due) ==
    g.r \in Files /\ J(g.k, More(hold, g.r), b, due) => Good(t, More(hold, g.r), b, due)

\* A call on a descriptor keeps the invariant when its body does.
LEMMA UsedOK ==
    ASSUME NEW s, NEW hold, NEW b, NEW due, J(s, hold, b, due), NEW fd, NEW g, g = file_get(s, fd),
           NEW t, Serve(g, t, hold, b, due), NEW u, u = Used(s, g, t)
    PROVE  Good(u, hold, b, due)
<1>0. J0(s, hold, b, due) /\ TlbOK(s.pte, s.tlb) BY DEF J
<1>1. /\ g.r \in Files \cup {None}
      /\ g.r \in Files => J0(g.k, More(hold, g.r), b, due) /\ Differ(s, g.k, {"files"})
  BY <1>0, GetOK
<1>2. CASE g.r = None
  <2>1. u = s BY <1>2 DEF Used
  <2> QED BY <2>1, GoodJ
<1>3. CASE g.r \in Files
  <2> DEFINE f == g.r
             hold1 == More(hold, f)
  <2>0. f \in Files BY <1>3
  <2>1. f /= None BY <1>3, Finite
  <2>2. g.k.pte = s.pte /\ g.k.tlb = s.tlb BY <1>1, <1>3, DifferTlb
  <2>3. J(g.k, hold1, b, due) BY <1>0, <1>1, <1>3, <2>2 DEF J
  <2>4. Good(t, hold1, b, due) BY <2>3, <1>3 DEF Serve
  <2>5. u = IF t.panic THEN t ELSE file_decref(t, f) BY <2>1 DEF Used
  <2>6. hold1[f] >= 1 /\ Less(hold1, f) = hold BY <1>0, <2>0, MoreHold
  <2> HIDE DEF f, hold1
  <2>7. Shape(t) BY <2>4 DEF Good
  <2>8. CASE t.panic
    <3>1. u = t /\ ~Live(t) BY <2>5, <2>8 DEF Live
    <3> QED BY <3>1, <2>7 DEF Good
  <2>9. CASE ~t.panic
    <3>1. u = file_decref(t, f) /\ Live(t) BY <2>5, <2>7, <2>9 DEF Live, Shape
    <3>2. J(t, hold1, b, due) BY <3>1, <2>4 DEF Good
    <3>3. J0(t, hold1, b, due) /\ TlbOK(t.pte, t.tlb) BY <3>2 DEF J
    <3>4. J0(u, Less(hold1, f), b, due) /\ Differ(t, u, {"files", "host"}) BY <3>1, <3>3, <2>0, <2>6, DecrefOK
    <3>5. u.pte = t.pte /\ u.tlb = t.tlb BY <3>4, DifferTlb
    <3>6. J(u, hold, b, due) BY <3>3, <3>4, <3>5, <2>6 DEF J
    <3> QED BY <3>6, GoodJ
  <2> QED BY <2>8, <2>9
<1> QED BY <1>1, <1>2, <1>3

\* read, pread and fstat.
LEMMA ReadOK ==
    ASSUME NEW s, NEW hold, NEW b, NEW due, J(s, hold, b, due), NEW fd, NEW buf, BufferFits(buf.addr, buf.len)
    PROVE  /\ Good(sys_read(s, fd, buf), hold, b, due) /\ Good(sys_pread(s, fd, buf), hold, b, due)
           /\ Good(sys_fstat(s, fd, buf), hold, b, due)
<1> DEFINE g == file_get(s, fd)
           t == Store(g.k, buf.addr, buf.len, Stored)
<1>1. sys_read(s, fd, buf) = Used(s, g, t) BY DEF sys_read, WithFile, Used, file_read, HostStore, Store
<1>2. sys_fstat(s, fd, buf) = Used(s, g, t) BY DEF sys_fstat, WithFile, Used
<1>g. g = file_get(s, fd) /\ t = Store(g.k, buf.addr, buf.len, Stored) OBVIOUS
<1> HIDE DEF g, t
<1>3. Serve(g, t, hold, b, due)
  <2> SUFFICES ASSUME g.r \in Files, J(g.k, More(hold, g.r), b, due)
               PROVE  Good(t, More(hold, g.r), b, due)
    BY DEF Serve
  <2> QED BY <1>g, StoreOK
<1>4. Good(Used(s, g, t), hold, b, due) BY <1>3, <1>g, UsedOK
<1> QED BY <1>1, <1>2, <1>4 DEF sys_pread

\* write takes a reference to its file, and drops it.
LEMMA FileWriteOK ==
    ASSUME NEW s, NEW hold, NEW b, NEW due, J(s, hold, b, due), NEW fd, NEW buf,
           BufferFits(buf.addr, buf.len), NEW pos \in Nat
    PROVE  Good(sys_write(s, fd, buf, pos), hold, b, due)
<1> DEFINE g == file_get(s, fd)
           t == file_write(g.k, g.r, buf, pos)
<1>1. sys_write(s, fd, buf, pos) = Used(s, g, t) BY DEF sys_write, WithFile, Used
<1>g. g = file_get(s, fd) /\ t = file_write(g.k, g.r, buf, pos) OBVIOUS
<1> HIDE DEF g, t
<1>3. Serve(g, t, hold, b, due)
  <2> SUFFICES ASSUME g.r \in Files, J(g.k, More(hold, g.r), b, due)
               PROVE  Good(t, More(hold, g.r), b, due)
    BY DEF Serve
  <2> QED BY <1>g, FileWriteBody
<1>4. Good(Used(s, g, t), hold, b, due) BY <1>3, <1>g, UsedOK
<1> QED BY <1>1, <1>4

\* writev reads the vector before it takes the reference.
LEMMA WritevOK ==
    ASSUME NEW s, NEW hold, NEW b, NEW due, J(s, hold, b, due), NEW fd, NEW buf,
           BufferFits(buf.addr, buf.len), NEW pos \in Nat
    PROVE  Good(sys_writev(s, fd, buf, pos), hold, b, due)
<1> DEFINE w == populate_mapping(s, buf.addr, buf.len, "R")
           z == sys_write(w, fd, buf, pos)
<1>0. Shape(s) /\ buf.addr \in Int /\ buf.len \in Int /\ buf.addr \in Nat /\ buf.len \in Nat
      /\ buf.addr + buf.len < Word /\ "R" \in RWX
  BY GoodJ DEF BufferFits, RWX
<1>1. Shape(w) BY <1>0, PopulateStay
<1>2. sys_writev(s, fd, buf, pos) = IF w.panic THEN w ELSE z BY DEF sys_writev
<1>w. w = populate_mapping(s, buf.addr, buf.len, "R") /\ z = sys_write(w, fd, buf, pos) OBVIOUS
<1> HIDE DEF w, z
<1>3. CASE w.panic
  <2>1. ~Live(w) BY <1>3 DEF Live
  <2> QED BY <2>1, <1>1, <1>2, <1>3 DEF Good
<1>4. CASE ~w.panic
  <2>1. Live(w) BY <1>1, <1>4 DEF Live, Shape
  <2>2. J(w, hold, b, due)
    <3> DEFINE a == buf.addr
               n == buf.len
    <3>1. a \in Nat /\ n \in Nat /\ a + n < Word /\ w = populate_mapping(s, a, n, "R") BY <1>0, <1>w
    <3> HIDE DEF a, n
    <3> QED BY <3>1, <2>1, <1>0, PopulateOK
  <2>3. Good(z, hold, b, due) BY <2>2, <1>w, FileWriteOK
  <2> QED BY <2>3, <1>2, <1>4
<1> QED BY <1>3, <1>4

\* fcntl, ftruncate, lseek and dup.
LEMMA HostOnlyOK ==
    ASSUME NEW s, NEW hold, NEW b, NEW due, J(s, hold, b, due), NEW fd, NEW len \in Nat
    PROVE  /\ Good(sys_fcntl(s, fd), hold, b, due) /\ Good(sys_ftruncate(s, fd, len), hold, b, due)
           /\ Good(sys_lseek(s, fd), hold, b, due) /\ Good(sys_dup(s, fd), hold, b, due)
<1> DEFINE g == file_get(s, fd)
           t == g.k
           d == file_dup(g.k, g.r)
           u == d.k
           z == file_truncate(g.k, g.r, len)
<1>1. sys_fcntl(s, fd) = Used(s, g, t) BY DEF sys_fcntl, WithFile, Used, HostOnly
<1>2. sys_ftruncate(s, fd, len) = Used(s, g, z) BY DEF sys_ftruncate, WithFile, Used
<1>3. sys_lseek(s, fd) = Used(s, g, t) BY DEF sys_lseek, WithFile, Used, HostOnly
<1>4. sys_dup(s, fd) = Used(s, g, u) BY DEF sys_dup, WithFile, Used
<1>g. g = file_get(s, fd) OBVIOUS
<1>0. J0(s, hold, b, due) BY DEF J
<1>d. d = file_dup(g.k, g.r) OBVIOUS
<1>z. z = file_truncate(g.k, g.r, len) OBVIOUS
<1> HIDE DEF g, d, z
<1>5. Serve(g, t, hold, b, due)
  <2> SUFFICES ASSUME g.r \in Files, J(g.k, More(hold, g.r), b, due)
               PROVE  Good(t, More(hold, g.r), b, due)
    BY DEF Serve
  <2> QED BY GoodJ
<1>6. Serve(g, u, hold, b, due)
  <2> SUFFICES ASSUME g.r \in Files, J(g.k, More(hold, g.r), b, due)
               PROVE  Good(u, More(hold, g.r), b, due)
    BY DEF Serve
  <2> DEFINE f == g.r
             hold1 == More(hold, f)
  <2>1. J0(g.k, hold1, b, due) /\ TlbOK(g.k.pte, g.k.tlb) /\ f \in Files BY DEF J
  <2>2. hold1[f] >= 1 BY <1>0, MoreHold
  <2>3. d = file_dup(g.k, f) BY <1>d
  <2> HIDE DEF f, hold1
  <2>4. J0(d.k, hold1, b, due) /\ Differ(g.k, d.k, {"fds", "files"}) BY <2>1, <2>2, <2>3, DupOK
  <2>5. d.k.pte = g.k.pte /\ d.k.tlb = g.k.tlb BY <2>4, DifferTlb
  <2>6. J(d.k, hold1, b, due) BY <2>1, <2>4, <2>5 DEF J
  <2>7. Good(d.k, hold1, b, due) BY <2>6, GoodJ
  <2> QED BY <2>7 DEF hold1, f
<1> HIDE DEF t, u
<1>9. Serve(g, z, hold, b, due)
  <2> SUFFICES ASSUME g.r \in Files, J(g.k, More(hold, g.r), b, due)
               PROVE  Good(z, More(hold, g.r), b, due)
    BY DEF Serve
  <2> QED BY <1>z, TruncateOK
<1>7. Good(Used(s, g, t), hold, b, due) BY <1>5, <1>g, UsedOK
<1>8. Good(Used(s, g, u), hold, b, due) BY <1>6, <1>g, UsedOK
<1>10. Good(Used(s, g, z), hold, b, due) BY <1>9, <1>g, UsedOK
<1> QED BY <1>1, <1>2, <1>3, <1>4, <1>7, <1>8, <1>10

----------------------------------------------------------------------------
\* The reference to a directory is taken and forgotten.
LEMMA AtOK ==
    ASSUME NEW s, NEW hold, NEW b, NEW due, J(s, hold, b, due), NEW dirfd, NEW d, d = at_kfd(s, dirfd)
    PROVE  J(d.k, hold, b, due)
<1>0. J0(s, hold, b, due) /\ TlbOK(s.pte, s.tlb) BY DEF J
<1>1. CASE dirfd = None
  <2>1. d.k = s BY <1>1 DEF at_kfd
  <2> QED BY <2>1
<1>2. CASE dirfd /= None
  <2>1. d = file_get(s, dirfd) BY <1>2 DEF at_kfd
  <2>2. /\ d.r \in Files \cup {None}
        /\ d.r = None => d.k = s
        /\ d.r \in Files => J0(d.k, More(hold, d.r), b, due) /\ Differ(s, d.k, {"files"})
    BY <1>0, <2>1, GetOK
  <2>3. CASE d.r = None
    <3>1. d.k = s BY <2>2, <2>3
    <3> QED BY <3>1
  <2>4. CASE d.r \in Files
    <3>1. J0(d.k, More(hold, d.r), b, due) /\ Differ(s, d.k, {"files"}) BY <2>2, <2>4
    <3>2. hold \in [Files -> Nat] /\ \A g \in Files : hold[g] <= More(hold, d.r)[g] BY <1>0, <2>4, MoreHold
    <3>3. J0(d.k, hold, b, due) BY <3>1, <3>2, Forget
    <3>4. d.k.pte = s.pte /\ d.k.tlb = s.tlb BY <3>1, DifferTlb
    <3> QED BY <3>3, <3>4, <1>0 DEF J
  <2> QED BY <2>2, <2>3, <2>4
<1> QED BY <1>1, <1>2

\* unlinkat, mkdirat, faccessat and fstatat.
LEMMA PathatOK ==
    ASSUME NEW s, NEW hold, NEW b, NEW due, J(s, hold, b, due), NEW dirfd, NEW buf,
           BufferFits(buf.addr, buf.len)
    PROVE  /\ Good(sys_pathat(s, dirfd, buf), hold, b, due) /\ Good(sys_fstatat(s, dirfd, buf), hold, b, due)
<1> DEFINE d == at_kfd(s, dirfd)
           t == Path(d.k, buf)
           a == buf.addr
           n == buf.len
           z == Store(t, a, n, Stored)
<1>1. sys_pathat(s, dirfd, buf) = IF d.r = None THEN s ELSE t BY DEF sys_pathat
<1>2. sys_fstatat(s, dirfd, buf) = IF d.r = None THEN s ELSE IF t.panic THEN t ELSE z BY DEF sys_fstatat
<1>3. J(d.k, hold, b, due) BY AtOK
<1>z. t = Path(d.k, buf) /\ z = Store(t, a, n, Stored) /\ BufferFits(a, n) OBVIOUS
<1> HIDE DEF d, t, z, a, n
<1>4. Good(t, hold, b, due) BY <1>3, <1>z, PathOK
<1>5. Good(s, hold, b, due) BY GoodJ
<1>6. ASSUME ~t.panic PROVE Good(z, hold, b, due)
  <2>1. J(t, hold, b, due) BY <1>4, <1>6 DEF Good, Shape, Live
  <2> QED BY <2>1, <1>z, StoreOK
<1> QED BY <1>1, <1>2, <1>4, <1>5, <1>6

\* linkat and renameat take two directories.
LEMMA LinkatOK ==
    ASSUME NEW s, NEW hold, NEW b, NEW due, J(s, hold, b, due), NEW dirfd1, NEW dirfd2, NEW buf,
           BufferFits(buf.addr, buf.len)
    PROVE  Good(sys_linkat(s, dirfd1, dirfd2, buf), hold, b, due)
<1> DEFINE d1 == at_kfd(s, dirfd1)
           d2 == at_kfd(d1.k, dirfd2)
           t == Path(d2.k, buf)
<1>1. sys_linkat(s, dirfd1, dirfd2, buf) = IF d1.r = None \/ d2.r = None THEN d2.k ELSE t BY DEF sys_linkat
<1>2. J(d1.k, hold, b, due) BY AtOK
<1>3. d2 = at_kfd(d1.k, dirfd2) OBVIOUS
<1> HIDE DEF d1
<1>4. J(d2.k, hold, b, due) BY <1>2, <1>3, AtOK
<1> HIDE DEF d2
<1>5. Good(t, hold, b, due) BY <1>4, PathOK
<1>6. Good(d2.k, hold, b, due) BY <1>4, GoodJ
<1> QED BY <1>1, <1>5, <1>6

\* The file that openat opened gets a descriptor, or is given back.
LEMMA InstallOK ==
    ASSUME NEW s, NEW hold, NEW b, NEW due, J(s, hold, b, due), NEW name,
           NEW o, o = file_openat(s, name), NEW trunc,
           NEW c, c = IF trunc THEN file_truncate(o.k, o.r, 0) ELSE o.k, NEW u, u = file_dup(c, o.r),
           NEW t, t = IF o.r = None THEN o.k ELSE IF u.r < 0 THEN file_decref(u.k, o.r) ELSE u.k
    PROVE  J(t, hold, b, due)
<1>0. J0(s, hold, b, due) /\ TlbOK(s.pte, s.tlb) BY DEF J
<1>1. /\ o.r \in Files \cup {None} /\ Differ(s, o.k, {"files", "host"})
      /\ o.r = None => J0(o.k, hold, b, due)
      /\ o.r \in Files => J0(o.k, More(hold, o.r), b, due)
  BY <1>0, OpenOK
<1>2. o.k.pte = s.pte /\ o.k.tlb = s.tlb BY <1>1, DifferTlb
<1>3. CASE o.r = None
  <2>1. t = o.k BY <1>3
  <2> QED BY <2>1, <1>0, <1>1, <1>2, <1>3 DEF J
<1>4. CASE o.r \in Files
  <2> DEFINE f == o.r
             hold1 == More(hold, f)
             w == file_decref(u.k, f)
  <2>0. f \in Files /\ J0(o.k, hold1, b, due) /\ u = file_dup(c, f) BY <1>1, <1>4
  <2>1. /\ hold1[f] >= 1 /\ Less(hold1, f) = hold /\ hold \in [Files -> Nat]
        /\ \A g \in Files : hold[g] <= hold1[g]
    BY <1>0, <2>0, MoreHold
  <2>2. f /= None BY <2>0, Finite
  <2>3. t = IF u.r < 0 THEN w ELSE u.k BY <2>2
  <2>w. w = file_decref(u.k, f) /\ c = IF trunc THEN file_truncate(o.k, f, 0) ELSE o.k OBVIOUS
  <2> HIDE DEF f, hold1, w
  <2>c. J(c, hold1, b, due)
    <3>1. J(o.k, hold1, b, due) BY <2>0, <1>0, <1>2 DEF J
    <3>2. CASE trunc
      <4>1. c = file_truncate(o.k, f, 0) /\ 0 \in Nat BY <3>2, <2>w
      <4>2. Good(c, hold1, b, due) BY <4>1, <3>1, TruncateOK
      <4>3. Live(c)
        <5>1. c.panic = o.k.panic
          <6> DEFINE d == Resized(o.k.disk[OpenOn(o.k, f)], 0)
          <6>1. c = Updated(o.k, f, d) BY <4>1, UpdateIs
          <6>2. Shape(o.k) BY <3>1, GoodJ
          <6> HIDE DEF d
          <6>3. HostChanges(o.k, OpenOn(o.k, f), d).panic = o.k.panic BY <6>2, HostChangesStay
          <6> QED BY <6>1, <6>3 DEF Updated
        <5>2. Live(o.k) BY <3>1, GoodJ
        <5> QED BY <5>1, <5>2 DEF Live
      <4> QED BY <4>2, <4>3 DEF Good
    <3>3. CASE ~trunc BY <3>1, <3>3, <2>w
    <3> QED BY <3>2, <3>3
  <2>d. J0(c, hold1, b, due) /\ TlbOK(c.pte, c.tlb) BY <2>c DEF J
  <2>4. J0(u.k, hold1, b, due) /\ Differ(c, u.k, {"fds", "files"}) BY <2>0, <2>1, <2>d, DupOK
  <2>5. u.k.pte = c.pte /\ u.k.tlb = c.tlb BY <2>4, DifferTlb
  <2>6. J0(u.k, hold, b, due) BY <2>1, <2>4, Forget
  <2>7. J0(w, Less(hold1, f), b, due) /\ Differ(u.k, w, {"files", "host"}) BY <2>0, <2>1, <2>4, <2>w, DecrefOK
  <2>8. w.pte = u.k.pte /\ w.tlb = u.k.tlb BY <2>7, DifferTlb
  <2>9. J(w, hold, b, due) /\ J(u.k, hold, b, due) BY <2>1, <2>d, <2>5, <2>6, <2>7, <2>8 DEF J
  <2> QED BY <2>3, <2>9
<1> QED BY <1>1, <1>3, <1>4

\* openat.
LEMMA OpenatOK ==
    ASSUME NEW s, NEW hold, NEW b, NEW due, J(s, hold, b, due), NEW dirfd, NEW buf, NEW name,
           BufferFits(buf.addr, buf.len), NEW trunc
    PROVE  Good(sys_openat(s, dirfd, buf, name, trunc), hold, b, due)
<1> DEFINE d == at_kfd(s, dirfd)
           t == Path(d.k, buf)
           o == file_openat(t, name)
           c == IF trunc THEN file_truncate(o.k, o.r, 0) ELSE o.k
           u == file_dup(c, o.r)
           z == IF o.r = None THEN o.k ELSE IF u.r < 0 THEN file_decref(u.k, o.r) ELSE u.k
<1>1. sys_openat(s, dirfd, buf, name, trunc) = IF d.r = None THEN s ELSE IF t.panic THEN t ELSE z
  BY DEF sys_openat
<1>2. J(d.k, hold, b, due) BY AtOK
<1> HIDE DEF d
<1>3. Good(t, hold, b, due) BY <1>2, PathOK
<1>4. Good(s, hold, b, due) BY GoodJ
<1>t. t.panic \/ J(t, hold, b, due)
  <2> HIDE DEF t
  <2> QED BY <1>3 DEF Good, Shape, Live
<1>z. /\ o = file_openat(t, name) /\ c = IF trunc THEN file_truncate(o.k, o.r, 0) ELSE o.k
      /\ u = file_dup(c, o.r)
      /\ z = IF o.r = None THEN o.k ELSE IF u.r < 0 THEN file_decref(u.k, o.r) ELSE u.k
  OBVIOUS
<1> HIDE DEF t, o, c, u, z
<1>5. ASSUME J(t, hold, b, due) PROVE Good(z, hold, b, due)
  <2>1. J(z, hold, b, due) BY <1>z, <1>5, InstallOK
  <2> QED BY <2>1, GoodJ
<1> QED BY <1>1, <1>3, <1>4, <1>5, <1>t

\* chdir hands the host a path that the kernel has not walked over.
LEMMA ChdirOK ==
    ASSUME NEW s, NEW hold, NEW b, NEW due, J(s, hold, b, due), NEW buf, BufferFits(buf.addr, buf.len)
    PROVE  Good(sys_chdir(s, buf), hold, b, due)
<1> DEFINE a == buf.addr
           n == buf.len
<1>0. a \in Nat /\ n \in Nat /\ a + n < Word /\ a \in Int /\ n \in Int BY DEF BufferFits
<1>2. sys_chdir(s, buf) = HostLoad(s, a, n, FALSE) BY DEF sys_chdir
<1> HIDE DEF a, n
<1>3. ASSUME NEW u \in a .. a + n - 1 PROVE PageOf(u) \in VPages
  <2>1. VaPages \in Nat BY MmapAssumption
  <2>2. u \in 0 .. VaPages * PGSIZE - 1 BY <1>0, MaxFacts DEF Word
  <2>3. u \in Int OBVIOUS
  <2>4. PageOf(u) \in 0 .. VaPages - 1 BY <2>1, <2>2, <2>3, PageIn
  <2> QED BY <2>4 DEF VPages
<1>5. J(HostLoad(s, a, n, FALSE), hold, b, due) BY <1>0, <1>3, HostLoadOK
<1> QED BY <1>2, <1>5, GoodJ

----------------------------------------------------------------------------
(* The boot.                                                               *)

\* No reference is held and no page is due.
Zeros == [f \in Files |-> 0]
NoDue == [v \in Vmrs |-> 0]

\* The file table after i of the three standard files.
FdsAt(i) == [d \in Fds |-> IF d < i THEN d ELSE None]
FilesAt(i) == [f \in Files |-> IF f < i THEN [kfd |-> f, refcnt |-> 3] ELSE [kfd |-> -1, refcnt |-> 0]]
HostAt(i) == [d \in Files |-> IF d < i THEN "std" ELSE "free"]
StdAt(s, i, t) ==
    /\ Shape(t) /\ Live(t) /\ Differ(s, t, {"fds", "files", "host"})
    /\ t.fds = FdsAt(i) /\ t.files = FilesAt(i) /\ t.host = HostAt(i)

StdOne(c, t, i) ==
    file_dup([file_get_free(t).k EXCEPT !.files[file_get_free(t).r].kfd = i, !.host[i] = "std"],
             file_get_free(t).r).k
StdP(c, i, t) == StdAt(c, i, t)
StdLoop == INSTANCE FoldRule WITH Op <- StdOne, P <- StdP

\* file_init, as a repetition of its step.
LEMMA FileInitIs ==
    ASSUME NEW s
    PROVE  file_init(s) = StdLoop!Iter(s, s, <<0, 1, 2>>)[DOMAIN <<0, 1, 2>>]
BY DEF file_init, StdOne, StdLoop!Iter, StdLoop!Last, FoldLeft, MapThenFoldSet, Max

\* The lowest number that is not below i is i.
LEMMA Lowest ==
    ASSUME NEW n \in Nat, NEW i \in Nat, i < n, NEW S, S = {x \in 0 .. n - 1 : ~(x < i)}
    PROVE  S /= {} /\ FirstOf(S) = i
<1>1. i \in S /\ S \subseteq Nat BY SMT
<1>2. FirstOf(S) \in S /\ \A y \in S : FirstOf(S) <= y BY <1>1, FirstIn
<1>3. FirstOf(S) \in Nat /\ FirstOf(S) <= i /\ ~(FirstOf(S) < i) BY <1>1, <1>2
<1> QED BY <1>1, <1>3

\* Each step of file_init opens one of the standard files.
LEMMA StdStep ==
    ASSUME NEW s, NEW i \in 0 .. 2, NEW t, StdAt(s, i, t), NEW c
    PROVE  StdAt(s, i + 1, StdOne(c, t, i))
<1>0. MAX_FILES \in Nat /\ MAX_FILES >= 3 /\ MAX_FDS \in Nat /\ MAX_FDS >= 3 BY FileAssumption
<1>t. /\ Shape(t) /\ t.panic = FALSE /\ Differ(s, t, {"fds", "files", "host"})
      /\ t.fds = FdsAt(i) /\ t.files = FilesAt(i) /\ t.host = HostAt(i)
  BY DEF StdAt, Live
<1>i. i \in Nat /\ i < MAX_FILES /\ i < MAX_FDS /\ i \in Files /\ i \in Fds BY <1>0 DEF Files, Fds
<1> DEFINE S == {f \in Files : t.files[f].refcnt = 0}
           D == {d \in Fds : t.fds[d] = None}
<1>1. S = {x \in 0 .. MAX_FILES - 1 : ~(x < i)}
  <2>1. \A f \in Files : t.files[f].refcnt = 0 <=> ~(f < i) BY <1>t DEF FilesAt
  <2> QED BY <2>1 DEF Files
<1>2. D = {x \in 0 .. MAX_FDS - 1 : ~(x < i)}
  <2>1. \A d \in Fds : t.fds[d] = None <=> ~(d < i)
    <3>1. \A d \in Fds : d /= None BY Finite
    <3> QED BY <3>1, <1>t DEF FdsAt
  <2> QED BY <2>1 DEF Fds
<1>3. S /= {} /\ FirstOf(S) = i BY <1>0, <1>1, <1>i, Lowest
<1>4. D /= {} /\ FirstOf(D) = i BY <1>0, <1>2, <1>i, Lowest
<1> DEFINE g == file_get_free(t)
           u == [g.k EXCEPT !.files[g.r].kfd = i, !.host[i] = "std"]
           w == [u EXCEPT !.fds[i] = i]
           z == [w EXCEPT !.files[i].refcnt = @ + 1]
<1>5. g = [k |-> [t EXCEPT !.files[i].refcnt = 2], r |-> i] BY <1>3 DEF file_get_free
<1>6. /\ Shape(u) /\ u.panic = FALSE /\ \A x \in Fields \ {"files", "host"} : u[x] = t[x]
      /\ u.files = [t.files EXCEPT ![i].refcnt = 2, ![i].kfd = i]
      /\ u.host = [t.host EXCEPT ![i] = "std"]
  <2>1. g.r = i /\ g.k = [t EXCEPT !.files[i].refcnt = 2] BY <1>5
  <2> DEFINE v == g.k
  <2>2. /\ Shape(v) /\ v.panic = FALSE /\ \A x \in Fields \ {"files"} : v[x] = t[x]
        /\ v.files = [t.files EXCEPT ![i].refcnt = 2]
    BY <2>1, <1>t DEF Shape, Fields
  <2>3. u = [v EXCEPT !.files[i].kfd = i, !.host[i] = "std"] BY <2>1
  <2> HIDE DEF v, g, u
  <2>4. /\ Shape(u) /\ u.panic = FALSE /\ \A x \in Fields \ {"files", "host"} : u[x] = v[x]
        /\ u.files = [v.files EXCEPT ![i].kfd = i]
        /\ u.host = [v.host EXCEPT ![i] = "std"]
    BY <2>2, <2>3 DEF Shape, Fields
  <2>5. [v.files EXCEPT ![i].kfd = i] = [t.files EXCEPT ![i].refcnt = 2, ![i].kfd = i] BY <2>2
  <2>6. v.host = t.host BY <2>2 DEF Fields
  <2> QED BY <2>2, <2>4, <2>5, <2>6
<1>r. g.r = i BY <1>5
<1>7. StdOne(c, t, i) = file_dup(u, i).k BY <1>r DEF StdOne
<1> HIDE DEF g, u
<1>8. u.fds = t.fds BY <1>6 DEF Fields
<1>9. file_dup(u, i) = [k |-> file_incref(w, i), r |-> i] BY <1>4, <1>8 DEF file_dup
<1>10. /\ Shape(w) /\ w.panic = FALSE /\ \A x \in Fields \ {"fds"} : w[x] = u[x]
       /\ w.fds = [u.fds EXCEPT ![i] = i]
  BY <1>6 DEF Shape, Fields
<1> HIDE DEF w
<1>11. w.files = u.files /\ w.host = u.host BY <1>10 DEF Fields
<1>12. t.files[i] = [kfd |-> -1, refcnt |-> 0] /\ DOMAIN t.files = Files BY <1>t, <1>i DEF FilesAt
<1>13. w.files[i] = [kfd |-> i, refcnt |-> 2] /\ \A f \in Files : f /= i => w.files[f] = t.files[f]
  BY <1>6, <1>11, <1>12, <1>i
<1>14. file_incref(w, i) = z BY <1>13 DEF file_incref, kassert
<1>15. /\ Shape(z) /\ z.panic = FALSE /\ \A x \in Fields \ {"files"} : z[x] = w[x]
       /\ z.files = [w.files EXCEPT ![i].refcnt = @ + 1]
  BY <1>10 DEF Shape, Fields
<1>16. StdOne(c, t, i) = z BY <1>7, <1>9, <1>14
<1> HIDE DEF z
<1>17. z.fds = FdsAt(i + 1)
  <2>1. z.fds = [FdsAt(i) EXCEPT ![i] = i] BY <1>15, <1>10, <1>8, <1>t DEF Fields
  <2>2. [FdsAt(i) EXCEPT ![i] = i] = FdsAt(i + 1)
    <3>1. \A d \in Fds : d \in Int BY DEF Fds
    <3>2. \A d \in Fds : d < i + 1 <=> (d < i \/ d = i) BY <3>1, <1>i
    <3> QED BY <3>2, <1>i DEF FdsAt
  <2> QED BY <2>1, <2>2
<1>18. z.host = HostAt(i + 1)
  <2>1. z.host = [HostAt(i) EXCEPT ![i] = "std"] BY <1>15, <1>11, <1>6, <1>t DEF Fields
  <2>2. [HostAt(i) EXCEPT ![i] = "std"] = HostAt(i + 1)
    <3>1. \A d \in Files : d \in Int BY DEF Files
    <3>2. \A d \in Files : d < i + 1 <=> (d < i \/ d = i) BY <3>1, <1>i
    <3> QED BY <3>2, <1>i DEF HostAt
  <2> QED BY <2>1, <2>2
<1>19. z.files = FilesAt(i + 1)
  <2>0. DOMAIN w.files = Files BY <1>6, <1>11, <1>12
  <2>1. z.files[i] = [kfd |-> i, refcnt |-> 3] /\ \A f \in Files : f /= i => z.files[f] = t.files[f]
    BY <2>0, <1>13, <1>15, <1>i
  <2>2. DOMAIN z.files = Files /\ z.files = [f \in Files |-> z.files[f]]
    <3>1. z.files = [f \in Files |-> IF f = i THEN [w.files[f] EXCEPT !.refcnt = @ + 1] ELSE w.files[f]]
      BY <2>0, <1>15, <1>i, <1>6, <1>11, <1>12
    <3> QED BY <3>1
  <2>3. \A f \in Files : z.files[f] = FilesAt(i + 1)[f]
    <3> SUFFICES ASSUME NEW f \in Files PROVE z.files[f] = FilesAt(i + 1)[f] OBVIOUS
    <3>1. f \in Int BY DEF Files
    <3>2. CASE f = i
      <4>1. FilesAt(i + 1)[f] = [kfd |-> f, refcnt |-> 3] BY <3>2, <1>i DEF FilesAt
      <4> QED BY <4>1, <3>2, <2>1
    <3>3. CASE f /= i
      <4>1. f < i + 1 <=> f < i BY <3>1, <3>3, <1>i
      <4>2. FilesAt(i + 1)[f] = FilesAt(i)[f] BY <4>1 DEF FilesAt
      <4> QED BY <4>2, <3>3, <2>1, <1>t
    <3> QED BY <3>2, <3>3
  <2> DEFINE F == FilesAt(i + 1)
  <2>4. F = [f \in Files |-> F[f]] BY DEF FilesAt
  <2> HIDE DEF F
  <2>5. \A f \in Files : z.files[f] = F[f] BY <2>3 DEF F
  <2> QED BY <2>2, <2>4, <2>5 DEF F
<1>20. Differ(s, z, {"fds", "files", "host"}) BY <1>t, <1>6, <1>10, <1>15 DEF Differ
<1> QED BY <1>15, <1>16, <1>17, <1>18, <1>19, <1>20 DEF StdAt, Live

\* The three standard files are open, each in its own entry.
LEMMA FileInitOK ==
    ASSUME NEW s, s = Off
    PROVE  StdAt(s, 3, file_init(s)) /\ Shape(s)
<1>1. Shape(s) /\ Live(s) /\ s.fds = FdsAt(0) /\ s.files = FilesAt(0) /\ s.host = HostAt(0)
  <2>1. Shape(s) /\ Live(s) BY DEF Off, Shape, Fields, Live
  <2>2. /\ s.fds = [d \in Fds |-> None] /\ s.files = [f \in Files |-> [kfd |-> -1, refcnt |-> 0]]
        /\ s.host = [d \in Files |-> "free"]
    BY DEF Off
  <2>3. (\A d \in Fds : ~(d < 0)) /\ (\A d \in Files : ~(d < 0)) BY DEF Fds, Files
  <2> QED BY <2>1, <2>2, <2>3 DEF FdsAt, FilesAt, HostAt
<1>2. StdP(s, 0, s) BY <1>1 DEF StdP, StdAt, Differ
<1> DEFINE q == <<0, 1, 2>>
<1>3. DOMAIN q = 1 .. 3 /\ \A j \in 1 .. 3 : q[j] = j - 1
  <2>1. DOMAIN q = 1 .. 3 OBVIOUS
  <2>2. q[1] = 0 /\ q[2] = 1 /\ q[3] = 2 OBVIOUS
  <2> HIDE DEF q
  <2> QED BY <2>1, <2>2
<1>4. file_init(s) = StdLoop!Iter(s, s, q)[DOMAIN q] BY FileInitIs
<1> HIDE DEF q
<1>n. PICK n \in Nat : n = 3 OBVIOUS
<1>5. ASSUME NEW j \in 1 .. n, NEW t, StdP(s, j - 1, t) PROVE StdP(s, j, StdOne(s, t, q[j]))
  <2>1. j - 1 \in 0 .. 2 /\ q[j] = j - 1 /\ (j - 1) + 1 = j BY <1>3, <1>n
  <2>2. StdAt(s, j - 1, t) BY <1>5 DEF StdP
  <2>3. StdAt(s, (j - 1) + 1, StdOne(s, t, j - 1)) BY <2>1, <2>2, StdStep
  <2> QED BY <2>1, <2>3 DEF StdP
<1>6. StdP(s, n, file_init(s))
  <2>1. DOMAIN q = 1 .. n BY <1>3, <1>n
  <2> QED BY <1>2, <1>4, <1>5, <2>1, StdLoop!FoldInv
<1> QED BY <1>1, <1>6, <1>n DEF StdP

\* The kernel's own mapping, and one page of it.
KernAll(s, vaddr, len, prot) ==
    FoldLeft(LAMBDA t, i : [__walk_create(t, (vaddr + i - 1) * PGSIZE) EXCEPT
                               !.pte[vaddr + i - 1] = pte_create(prot_to_type(prot, FALSE))],
             s, [i \in 1 .. len |-> i])
KernOne(c, t, i) ==
    [__walk_create(t, (c.vaddr + i - 1) * PGSIZE) EXCEPT
        !.pte[c.vaddr + i - 1] = pte_create(prot_to_type(c.prot, FALSE))]
KernP(c, i, t) ==
    /\ Shape(t) /\ (c.s.panic => t.panic) /\ Differ(c.s, t, {"pte", "tabs", "next", "used", "panic"})
    /\ t.pte = [p \in VPages |-> IF p \in c.vaddr .. c.vaddr + i - 1
                                 THEN pte_create(prot_to_type(c.prot, FALSE)) ELSE c.s.pte[p]]
KernLoop == INSTANCE FoldRule WITH Op <- KernOne, P <- KernP

\* __map_kernel_range, as a repetition of its step.
LEMMA KernIs ==
    ASSUME NEW c, NEW s, NEW len, NEW q, q = [i \in 1 .. len |-> i]
    PROVE  __map_kernel_range(s, c.vaddr, len, c.prot) = KernLoop!Iter(c, s, q)[DOMAIN q]
BY DEF __map_kernel_range, KernOne, KernLoop!Iter, KernLoop!Last, FoldLeft, MapThenFoldSet, Max

PteFun(pte) == DOMAIN pte = VPages /\ pte = [p \in VPages |-> pte[p]]
KernMapped(s, t, vaddr, len, prot) ==
    /\ Shape(t) /\ (s.panic => t.panic) /\ Differ(s, t, {"pte", "tabs", "next", "used", "panic"})
    /\ t.pte = [p \in VPages |-> IF p \in vaddr .. vaddr + len - 1
                                 THEN pte_create(prot_to_type(prot, FALSE)) ELSE s.pte[p]]

\* __map_kernel_range enters the kernel's translations and no other.
LEMMA KernOK ==
    ASSUME NEW s, Shape(s), PteFun(s.pte), NEW vaddr \in Int, NEW len \in Nat, NEW prot,
           NEW t, t = __map_kernel_range(s, vaddr, len, prot)
    PROVE  KernMapped(s, t, vaddr, len, prot)
<1> DEFINE q == [i \in 1 .. len |-> i]
           c == [s |-> s, vaddr |-> vaddr, prot |-> prot]
           x == pte_create(prot_to_type(prot, FALSE))
<1>3. c.s = s /\ c.vaddr = vaddr /\ c.prot = prot OBVIOUS
<1> HIDE DEF c
<1>1. t = KernLoop!Iter(c, s, q)[DOMAIN q]
  <2>1. __map_kernel_range(s, c.vaddr, len, c.prot) = KernLoop!Iter(c, s, q)[DOMAIN q]
    <3>1. q = [i \in 1 .. len |-> i] OBVIOUS
    <3> HIDE DEF q
    <3> QED BY <3>1, KernIs
  <2> QED BY <2>1, <1>3
<1>2. DOMAIN q = 1 .. len /\ \A i \in 1 .. len : q[i] = i OBVIOUS
<1> HIDE DEF q
<1>x. x = pte_create(prot_to_type(prot, FALSE)) OBVIOUS
<1> HIDE DEF x
<1>4. KernP(c, 0, s)
  <2>1. \A p \in VPages : p \notin vaddr .. vaddr + 0 - 1 OBVIOUS
  <2>2. Differ(s, s, {"pte", "tabs", "next", "used", "panic"}) BY DEF Differ
  <2> QED BY <2>1, <2>2, <1>3, <1>x DEF KernP, PteFun
<1>5. ASSUME NEW i \in 1 .. len, NEW u, KernP(c, i - 1, u) PROVE KernP(c, i, KernOne(c, u, q[i]))
  <2> DEFINE p0 == vaddr + i - 1
             w == __walk_create(u, p0 * PGSIZE)
             z == KernOne(c, u, q[i])
  <2>1. /\ Shape(u) /\ (s.panic => u.panic) /\ Differ(s, u, {"pte", "tabs", "next", "used", "panic"})
        /\ u.pte = [p \in VPages |-> IF p \in vaddr .. vaddr + (i - 1) - 1 THEN x ELSE s.pte[p]]
    BY <1>3, <1>5, <1>x DEF KernP
  <2>2. Shape(w) /\ (u.panic => w.panic) /\ Differ(u, w, {"tabs", "next", "used", "panic"})
    BY <2>1, PoolStay
  <2>3. z = [w EXCEPT !.pte[p0] = x] BY <1>2, <1>3, <1>x DEF KernOne
  <2>p. p0 \in Int /\ p0 = vaddr + i - 1 OBVIOUS
  <2> HIDE DEF w, z, p0
  <2>4. /\ Shape(z) /\ z.panic = w.panic /\ \A y \in Fields \ {"pte"} : z[y] = w[y]
        /\ z.pte = [w.pte EXCEPT ![p0] = x]
    BY <2>2, <2>3 DEF Shape, Fields
  <2>5. w.pte = u.pte BY <2>2 DEF Differ, Fields
  <2>6. z.pte = [p \in VPages |-> IF p \in vaddr .. vaddr + i - 1 THEN x ELSE s.pte[p]]
    <3>1. \A p \in VPages : p \in vaddr .. vaddr + i - 1 <=> (p \in vaddr .. vaddr + (i - 1) - 1 \/ p = p0)
      <4>1. \A p \in VPages : p \in Int BY DEF VPages
      <4> QED BY <4>1, <2>p
    <3> QED BY <3>1, <2>1, <2>4, <2>5
  <2>7. Differ(s, z, {"pte", "tabs", "next", "used", "panic"}) BY <2>1, <2>2, <2>4 DEF Differ
  <2>8. KernP(c, i, z)
    <3>1. Shape(z) /\ (s.panic => z.panic) BY <2>1, <2>2, <2>4
    <3>2. /\ z.pte = [p \in VPages |-> IF p \in c.vaddr .. c.vaddr + i - 1
                                       THEN pte_create(prot_to_type(c.prot, FALSE)) ELSE c.s.pte[p]]
      BY <2>6, <1>3, <1>x
    <3> QED BY <3>1, <3>2, <2>7, <1>3 DEF KernP
  <2> QED BY <2>8 DEF z
<1>6. KernP(c, len, t) BY <1>1, <1>2, <1>4, <1>5, KernLoop!FoldInv
<1> QED BY <1>6, <1>3 DEF KernP, KernMapped

----------------------------------------------------------------------------
\* The state before the stack is mapped.
Bare(s, t) ==
    /\ Shape(t) /\ Differ(s, t, {"fds", "files", "host", "pte", "tabs", "next", "used", "panic",
                                 "mmap_max", "brk_max"})
    /\ t.fds = FdsAt(3) /\ t.files = FilesAt(3) /\ t.host = HostAt(3)
    /\ t.pte = [p \in VPages |-> IF p \in KernelRange THEN KernelPte ELSE ZeroPte]
    /\ t.mmap_max = Max0 /\ t.brk_max = Max0

\* The standard files, a descriptor each, are a good file table.
LEMMA StdFiles ==
    ASSUME NEW vmrs \in [Vmrs -> VmrEntry], \A v \in Vmrs : vmrs[v].refcnt = 0
    PROVE  FileOK(FdsAt(3), FilesAt(3), HostAt(3), vmrs, Zeros)
<1>0. MAX_FILES \in Nat /\ MAX_FILES >= 3 /\ MAX_FDS \in Nat /\ MAX_FDS >= 3 BY FileAssumption
<1>1. FdsAt(3) \in [Fds -> Files \cup {None}]
  <2>1. \A d \in Fds : d < 3 => d \in Files BY <1>0 DEF Fds, Files
  <2> QED BY <2>1 DEF FdsAt
<1>2. FilesAt(3) \in [Files -> FileEntry]
  <2>1. \A f \in Files : f \in Int BY DEF Files
  <2> QED BY <2>1 DEF FilesAt, FileEntry
<1>3. HostAt(3) \in [Files -> HostNames] BY DEF HostAt, HostNames
<1>4. Zeros \in [Files -> Nat] BY DEF Zeros
<1>5. ASSUME NEW f \in Files
      PROVE  /\ FilesAt(3)[f].refcnt >= 0
             /\ Need(FdsAt(3), vmrs, Zeros, f) > 0 => FilesAt(3)[f].refcnt > Need(FdsAt(3), vmrs, Zeros, f)
             /\ FilesAt(3)[f].refcnt > 0 <=> HostAt(3)[f] /= "free"
             /\ FilesAt(3)[f].kfd \in {-1, f}
             /\ FilesAt(3)[f].refcnt > 0 => FilesAt(3)[f].kfd = f
  <2>1. f \in Nat BY DEF Files
  <2>2. VmrUses(vmrs, f) = 0
    <3>1. {v \in Vmrs : MapsFile(vmrs[v], f)} = {} BY DEF MapsFile
    <3> QED BY <3>1, FS_EmptySet DEF VmrUses
  <2>3. FdUses(FdsAt(3), f) = IF f < 3 THEN 1 ELSE 0
    <3>1. CASE f < 3
      <4>1. f \in Fds /\ \A d \in Fds : d \in Int /\ d /= None
        <5>1. \A d \in Fds : d /= None BY Finite
        <5> QED BY <5>1, <3>1, <2>1, <1>0 DEF Fds
      <4>2. f /= None BY <2>1 DEF None
      <4>3. {d \in Fds : FdsAt(3)[d] = f} = {f} BY <3>1, <4>1, <4>2 DEF FdsAt
      <4> QED BY <4>3, <3>1, FS_Singleton DEF FdUses
    <3>2. CASE ~(f < 3)
      <4>1. f /= None BY <2>1 DEF None
      <4>2. {d \in Fds : FdsAt(3)[d] = f} = {} BY <3>2, <4>1 DEF FdsAt
      <4> QED BY <4>2, <3>2, FS_EmptySet DEF FdUses
    <3> QED BY <3>1, <3>2
  <2>4. Zeros[f] = 0 BY DEF Zeros
  <2>5. Need(FdsAt(3), vmrs, Zeros, f) = IF f < 3 THEN 1 ELSE 0 BY <2>2, <2>3, <2>4 DEF Need
  <2>6. FilesAt(3)[f] = IF f < 3 THEN [kfd |-> f, refcnt |-> 3] ELSE [kfd |-> -1, refcnt |-> 0] BY DEF FilesAt
  <2>7. HostAt(3)[f] = IF f < 3 THEN "std" ELSE "free" BY DEF HostAt
  <2> QED BY <2>5, <2>6, <2>7
<1> QED BY <1>1, <1>2, <1>3, <1>4, <1>5 DEF FileOK

\* The kernel's translation is a page table entry the user may not use.
LEMMA KernelPteIs == KernelPte \in PteEntry /\ PteFit(KernelPte) /\ KernelPte.vmr = 0 /\ "U" \notin KernelPte.bits
<1>1. RWX \in SUBSET RWX /\ FALSE \in BOOLEAN OBVIOUS
<1> QED BY <1>1, PteIs DEF KernelPte

\* A kernel with standard files and its own mapping satisfies the invariant.
LEMMA BareOK ==
    ASSUME NEW s, s = Off, NEW t, Bare(s, t), Live(t)
    PROVE  J(t, Zeros, 0, NoDue)
<1>1. /\ s.vmrs = [v \in Vmrs |-> [addr |-> 0, length |-> 0, file |-> None,
                                   offset |-> 0, refcnt |-> 0, prot |-> {}]]
      /\ s.brk = 0 /\ s.brk_min = 0 /\ s.mem = [p \in VPages |-> [j \in Units |-> Unwritten]]
      /\ s.tlb = [p \in VPages |-> {}] /\ s.stale = {}
      /\ s.want = [p \in VPages |-> [from |-> [name |-> "free", off |-> 0, len |-> 0],
                                     units |-> [j \in Units |-> {Unwritten}]]]
      /\ s.disk = [n \in Names |-> [size |-> FileSize[n],
                                    unit |-> [o \in 0 .. FileSize[n] - 1 |-> FileUnit(n, o)]]]
  BY DEF Off
<1>2. /\ t.vmrs = s.vmrs /\ t.brk = s.brk /\ t.brk_min = s.brk_min /\ t.mem = s.mem /\ t.tlb = s.tlb
      /\ t.want = s.want /\ t.stale = s.stale /\ t.disk = s.disk
  BY DEF Bare, Differ, Fields
<1>3. t.vmrs \in [Vmrs -> VmrEntry] /\ \A v \in Vmrs : t.vmrs[v].refcnt = 0 BY <1>1, <1>2 DEF VmrEntry
<1>4. FileOK(t.fds, t.files, t.host, t.vmrs, Zeros) BY <1>3, StdFiles DEF Bare
<1>p. t.pte = [p \in VPages |-> IF p \in KernelRange THEN KernelPte ELSE ZeroPte] BY DEF Bare
<1>5. MapOK(t.pte, t.vmrs, NoDue)
  <2>1. t.pte \in [VPages -> PteEntry] BY <1>p, KernelPteIs, ZeroIs
  <2>2. \A p \in VPages : PteFit(t.pte[p]) /\ t.pte[p].vmr = 0 BY <1>p, KernelPteIs, ZeroIs
  <2>3. ASSUME NEW v \in Vmrs PROVE t.vmrs[v].refcnt = Waiting(t.pte, v) + NoDue[v]
    <3>1. v /= 0 BY Finite
    <3>2. {p \in VPages : t.pte[p].vmr = v} = {} BY <3>1, <2>2
    <3>3. Waiting(t.pte, v) = 0 BY <3>2, FS_EmptySet DEF Waiting
    <3> QED BY <3>3, <1>3 DEF NoDue
  <2>4. NoDue \in [Vmrs -> Nat] BY DEF NoDue
  <2> QED BY <1>3, <2>1, <2>2, <2>3, <2>4 DEF MapOK
<1>6. KernelOK(t.pte, t.mmap_max)
  <2>1. t.mmap_max = Max0 BY DEF Bare
  <2>2. \A p \in VPages : "U" \notin t.pte[p].bits /\ (p \in KernelRange => t.pte[p] = KernelPte)
    BY <1>p, KernelPteIs, ZeroIs
  <2> QED BY <2>1, <2>2 DEF KernelOK
<1>7. ContentOK(t.pte, t.vmrs, t.files, t.host, t.disk, t.mem, t.want)
  <2>1. DOMAIN t.mem = VPages /\ DOMAIN t.want = VPages BY <1>1, <1>2
  <2>2. \A p \in VPages : t.pte[p].vmr = 0 BY <1>p, KernelPteIs, ZeroIs
  <2>3. ASSUME NEW p \in VPages PROVE Formed(t.mem[p], t.want[p]) /\ Shows(t.mem[p], t.want[p])
    <3>1. /\ t.mem[p] = [j \in Units |-> Unwritten]
          /\ t.want[p] = [from |-> [name |-> "free", off |-> 0, len |-> 0],
                          units |-> [j \in Units |-> {Unwritten}]]
      BY <1>1, <1>2
    <3>2. DOMAIN t.want[p] = {"from", "units"} /\ t.want[p].units = [j \in Units |-> {Unwritten}] BY <3>1
    <3> QED BY <3>1, <3>2 DEF Formed, Awaited, Shows
  <2> QED BY <2>1, <2>2, <2>3 DEF ContentOK
<1>d. DiskOK(t.disk)
  <2>1. DOMAIN t.disk = Names /\ \A n \in Names : t.disk[n].size = FileSize[n] BY <1>1, <1>2
  <2>2. \A n \in Names : FileSize[n] \in Nat BY FileAssumption DEF Names
  <2> QED BY <2>1, <2>2 DEF DiskOK
<1>8. TlbOK(t.pte, t.tlb) BY <1>1, <1>2 DEF TlbOK
<1>9. BrkOK(t.brk, t.brk_min, t.brk_max, 0)
  <2>1. t.brk_max = Max0 /\ Max0 \in Nat BY MaxFacts DEF Bare
  <2>2. PGSIZE \in Nat /\ PGSIZE > 0 BY MmapAssumption
  <2>3. 0 % PGSIZE = 0 BY <2>2
  <2> QED BY <2>1, <2>3, <1>1, <1>2 DEF BrkOK
<1>10. Shape(t) /\ t.panic = FALSE /\ "seen" \notin t.stale BY <1>1, <1>2 DEF Bare, Live
<1> QED BY <1>4, <1>5, <1>6, <1>7, <1>8, <1>9, <1>10, <1>d DEF J, J0

\* The kernel's memory is ready, with the user's stack mapped.
LEMMA VmInitOK ==
    ASSUME NEW s, s = Off, NEW t, t = pk_vm_init(file_init(s))
    PROVE  Good(t, Zeros, 0, NoDue)
<1> DEFINE s1 == file_init(s)
           s2 == __page_alloc(s1)
           kern == __map_kernel_range(s2, DRAM_BASE, KernelPages + FreePages, RWX)
           s3 == [kern EXCEPT !.mmap_max = Max0, !.brk_max = Max0]
           size == StackPages * PGSIZE
           stack == Max0 - size
           m == __do_mmap(s3, stack, size, RWX, Heap, None, 0)
           s4 == Expect(m, {stack})
           s5 == flush_tlb(s4)
<1>0. /\ PGSIZE \in Nat /\ StackPages \in Nat /\ KernelPages \in Nat /\ FreePages \in Nat /\ DRAM_BASE \in Nat
  BY MmapAssumption
<1>1. StdAt(s, 3, s1) /\ Shape(s) BY FileInitOK
<1>2. t = __page_alloc(s5) BY DEF pk_vm_init, Max0, Heap
<1> HIDE DEF s1
<1>3. /\ Shape(s2) /\ (s1.panic => s2.panic) /\ Differ(s1, s2, {"next", "used", "panic"})
  <2>1. Shape(s1) BY <1>1 DEF StdAt
  <2> QED BY <2>1, PoolStay
<1>k. kern = __map_kernel_range(s2, DRAM_BASE, KernelPages + FreePages, RWX) OBVIOUS
<1> HIDE DEF s2, kern
<1>4. s2.pte = [p \in VPages |-> ZeroPte] /\ DOMAIN s2.pte = VPages /\ s2.pte = [p \in VPages |-> s2.pte[p]]
  <2>1. s2.pte = s.pte BY <1>1, <1>3 DEF StdAt, Differ, Fields
  <2>2. s.pte = [p \in VPages |-> ZeroPte] BY DEF Off
  <2> QED BY <2>1, <2>2
<1>5. /\ Shape(kern) /\ (s2.panic => kern.panic)
      /\ Differ(s2, kern, {"pte", "tabs", "next", "used", "panic"})
      /\ kern.pte = [p \in VPages |-> IF p \in DRAM_BASE .. DRAM_BASE + (KernelPages + FreePages) - 1
                                      THEN pte_create(prot_to_type(RWX, FALSE)) ELSE s2.pte[p]]
  <2> DEFINE n == KernelPages + FreePages
  <2>1. DRAM_BASE \in Int /\ n \in Nat /\ RWX = RWX BY <1>0
  <2>2. kern = __map_kernel_range(s2, DRAM_BASE, n, RWX) BY <1>k
  <2> HIDE DEF n
  <2>3. KernMapped(s2, kern, DRAM_BASE, n, RWX)
    <3>1. Shape(s2) /\ PteFun(s2.pte) BY <1>3, <1>4 DEF PteFun
    <3> QED BY <2>1, <2>2, <3>1, KernOK
  <2> QED BY <2>3 DEF n, KernMapped
<1>6. /\ Shape(s3) /\ s3.mmap_max = Max0 /\ s3.brk_max = Max0 /\ s3.panic = kern.panic
      /\ \A x \in Fields \ {"mmap_max", "brk_max"} : s3[x] = kern[x]
  BY <1>5 DEF Shape, Fields
<1> HIDE DEF s3
<1>7. Bare(s, s3)
  <2>1. s3.fds = s1.fds /\ s3.files = s1.files /\ s3.host = s1.host /\ s3.pte = kern.pte
    BY <1>3, <1>5, <1>6 DEF Differ, Fields
  <2>2. kern.pte = [p \in VPages |-> IF p \in KernelRange THEN KernelPte ELSE ZeroPte]
    <3>1. KernelRange = DRAM_BASE .. DRAM_BASE + (KernelPages + FreePages) - 1
      <4>1. DRAM_BASE + KernelPages + FreePages - 1 = DRAM_BASE + (KernelPages + FreePages) - 1 BY <1>0
      <4> QED BY <4>1 DEF KernelRange
    <3> QED BY <3>1, <1>4, <1>5 DEF KernelPte
  <2>3. Differ(s, s3, {"fds", "files", "host", "pte", "tabs", "next", "used", "panic", "mmap_max", "brk_max"})
    BY <1>1, <1>3, <1>5, <1>6 DEF StdAt, Differ
  <2> QED BY <2>1, <2>2, <2>3, <1>1, <1>6 DEF Bare, StdAt
<1>8. size \in Nat /\ stack \in Nat /\ stack \in Int /\ size \in Int
  <2>1. PICK n \in Nat : Max0 = n * PGSIZE /\ StackPages <= n BY MaxFacts
  <2>2. size \in Nat BY <1>0
  <2>3. size <= n * PGSIZE
    <3>1. CASE StackPages = n BY <3>1, <2>2
    <3>2. CASE StackPages < n
      <4>1. size + PGSIZE <= n * PGSIZE BY <3>2, <1>0, <2>1, TimesMono
      <4>2. n * PGSIZE \in Nat BY <1>0, <2>1
      <4> QED BY <4>1, <4>2, <2>2, <1>0
    <3> QED BY <3>1, <3>2, <2>1, <1>0
  <2> HIDE DEF size
  <2> QED BY <2>1, <2>2, <2>3, MaxFacts
<1> HIDE DEF size, stack
<1>m. m = __do_mmap(s3, stack, size, RWX, Heap, None, 0) OBVIOUS
<1>n. s4 = Expect(m, {stack}) OBVIOUS
<1> HIDE DEF m, s4
<1>9. "FIXED" \in Heap /\ None \in Files \cup {None} /\ RWX \in SUBSET RWX /\ 0 \in Int BY DEF Heap
<1>10. Shape(m.k) /\ (s3.panic => m.k.panic) BY <1>6, <1>8, <1>9, <1>m, DoMmapStay
<1>11. Shape(s4) /\ (m.k.panic => s4.panic) /\ (Live(s4) => s4 = m.k) BY <1>10, <1>n, ExpectIs
<1>12. /\ Shape(s5) /\ s5.panic = s4.panic
       /\ \A hold, b, due : J0(s4, hold, b, due) => J0(s5, hold, b, due) /\ J(s5, hold, b, due)
  BY <1>11, FlushOK
<1> HIDE DEF s5
<1>13. Shape(t) /\ (s5.panic => t.panic) /\ Differ(s5, t, {"next", "used", "panic"}) BY <1>2, <1>12, PoolStay
<1>14. ASSUME Live(t) PROVE J(t, Zeros, 0, NoDue)
  <2>1. Live(s5) /\ Live(s4) /\ Live(m.k) /\ Live(s3)
    BY <1>6, <1>10, <1>11, <1>12, <1>13, <1>14 DEF Live, Shape
  <2>2. J(s3, Zeros, 0, NoDue) BY <1>7, <2>1, BareOK
  <2>3. J(m.k, Zeros, 0, NoDue) BY <2>1, <2>2, <1>8, <1>9, <1>m, FixedOK
  <2>4. J0(s4, Zeros, 0, NoDue) BY <2>1, <2>3, <1>11 DEF J
  <2>5. J(s5, Zeros, 0, NoDue) BY <2>4, <1>12
  <2>6. J0(s5, Zeros, 0, NoDue) /\ TlbOK(s5.pte, s5.tlb) BY <2>5 DEF J
  <2>7. Differ(s5, t, {"tabs", "next", "used", "panic", "vmrs0"}) BY <1>13 DEF Differ
  <2>8. t.panic = FALSE BY <1>14 DEF Live
  <2>9. J0(t, Zeros, 0, NoDue) BY <2>6, <2>7, <2>8, <1>13, PoolOK
  <2>10. t.pte = s5.pte /\ t.tlb = s5.tlb BY <1>13, DifferTlb
  <2> QED BY <2>6, <2>9, <2>10 DEF J
<1> QED BY <1>13, <1>14 DEF Good

\* What the loading of the program makes of a good state: the heap's start moves.
GoodB(t, hold, due) == Shape(t) /\ (Live(t) => \E b \in Nat : b <= Max0 /\ J(t, hold, b, due))

\* The heap starts after the segments.
LEMMA GrowOK ==
    ASSUME NEW s, NEW hold, NEW b, NEW due, J(s, hold, b, due), NEW e \in Nat,
           NEW t, t = IF e > s.brk_min THEN [s EXCEPT !.brk_min = e] ELSE s
    PROVE  /\ Shape(t) /\ Live(t) /\ b \in Nat
           /\ J(t, hold, IF e > b THEN e ELSE b, due)
<1>1. Shape(s) /\ s.panic = FALSE /\ BrkOK(s.brk, s.brk_min, s.brk_max, b) BY DEF J, J0
<1>2. s.brk_min = b /\ b \in Nat BY <1>1 DEF BrkOK
<1>3. CASE ~(e > b)
  <2>1. t = s BY <1>2, <1>3
  <2> QED BY <2>1, <1>1, <1>2, <1>3 DEF Live
<1>4. CASE e > b
  <2>1. t = [s EXCEPT !.brk_min = e] BY <1>2, <1>4
  <2>2. Shape(t) /\ t.panic = FALSE /\ t.brk_min = e /\ \A x \in Fields \ {"brk_min"} : t[x] = s[x]
    BY <1>1, <2>1 DEF Shape, Fields
  <2>3. /\ t.fds = s.fds /\ t.files = s.files /\ t.host = s.host /\ t.pte = s.pte /\ t.vmrs = s.vmrs
        /\ t.brk = s.brk /\ t.brk_max = s.brk_max /\ t.mmap_max = s.mmap_max
        /\ t.mem = s.mem /\ t.want = s.want /\ t.stale = s.stale /\ t.disk = s.disk /\ t.tlb = s.tlb
    BY <2>2 DEF Fields
  <2>4. BrkOK(t.brk, t.brk_min, t.brk_max, e) BY <1>1, <2>2, <2>3 DEF BrkOK
  <2>5. J(t, hold, e, due) BY <2>2, <2>3, <2>4 DEF J, J0
  <2> QED BY <2>2, <2>5, <1>2, <1>4 DEF Live
<1> QED BY <1>3, <1>4

SegEntry == [vaddr : 0 .. Word - 1, memsz : 0 .. Word - 1, filesz : 0 .. Word - 1,
             offset : Nat, prot : SUBSET RWX]

\* The steps of LoadSegment after the text is mapped.
Pad(t, start, prepad) == IF prepad = 0 THEN t ELSE Store(t, start, prepad, Zero)
Protect(t, start, n, prot) ==
    IF "W" \in prot THEN t ELSE Expect(do_mprotect(t, start, n, prot), {0})
Bss(t, vaddr, memsz, mapped, prot) ==
    IF memsz <= mapped THEN t
    ELSE Expect(__do_mmap(t, vaddr + mapped, memsz - mapped, prot,
                          {"FIXED", "PRIVATE"} \cup {"ANONYMOUS"}, None, 0), {vaddr + mapped})

\* The start of a segment's first page is cleared.
LEMMA PadOK ==
    ASSUME NEW s, NEW hold, NEW b, NEW due, J(s, hold, b, due), NEW start, NEW prepad,
           BufferFits(start, prepad), NEW t, t = Pad(s, start, prepad)
    PROVE  Good(t, hold, b, due)
<1> DEFINE z == Store(s, start, prepad, Zero)
<1>1. Good(z, hold, b, due) BY StoreOK
<1>2. Good(s, hold, b, due) BY GoodJ
<1>3. t = s \/ t = z BY DEF Pad
<1> HIDE DEF z
<1> QED BY <1>1, <1>2, <1>3

\* A segment that is not writable is protected.
LEMMA ProtectOK ==
    ASSUME NEW s, NEW hold, NEW b, NEW due, Good(s, hold, b, due), NEW start \in Nat, start < Word,
           NEW n \in Nat, NEW prot \in SUBSET RWX, NEW t, t = Protect(s, start, n, prot)
    PROVE  Good(t, hold, b, due) /\ (s.panic => t.panic)
<1> DEFINE m == do_mprotect(s, start, n, prot)
           z == Expect(m, {0})
<1>0. Shape(s) /\ start \in Int /\ n \in Int BY DEF Good
<1>m. m = do_mprotect(s, start, n, prot) /\ z = Expect(m, {0}) OBVIOUS
<1>t. t = s \/ t = z BY DEF Protect
<1> HIDE DEF m, z
<1>1. Shape(m.k) /\ m.k.panic = s.panic BY <1>0, <1>m, MprotectStay
<1>2. Shape(z) /\ (m.k.panic => z.panic) /\ (Live(z) => z = m.k /\ Live(m.k)) BY <1>1, <1>m, ExpectIs
<1>3. ASSUME Live(z) PROVE J(z, hold, b, due)
  <2>1. Live(s) BY <1>1, <1>2, <1>3 DEF Live
  <2>2. J(s, hold, b, due) BY <2>1 DEF Good
  <2>3. J(m.k, hold, b, due) BY <2>2, <1>m, MprotectOK
  <2> QED BY <2>3, <1>2, <1>3
<1> QED BY <1>1, <1>2, <1>3, <1>t DEF Good

\* The rest of a segment is mapped anonymously, below the end of the user's memory.
LEMMA BssOK ==
    ASSUME NEW s, NEW hold, NEW b, NEW due, Good(s, hold, b, due), NEW vaddr \in Int, NEW memsz \in Nat,
           NEW mapped \in Int, vaddr + mapped \in Nat, vaddr + mapped <= Max0,
           NEW prot \in SUBSET RWX, NEW t, t = Bss(s, vaddr, memsz, mapped, prot)
    PROVE  Good(t, hold, b, due) /\ (Live(t) => vaddr + memsz <= Max0)
<1>0. Shape(s) /\ Max0 \in Nat BY MaxFacts DEF Good
<1>1. CASE memsz <= mapped
  <2>1. t = s BY <1>1 DEF Bss
  <2> QED BY <2>1, <1>0, <1>1
<1>2. CASE ~(memsz <= mapped)
  <2> DEFINE at == vaddr + mapped
             l == memsz - mapped
             flags == {"FIXED", "PRIVATE"} \cup {"ANONYMOUS"}
             m == __do_mmap(s, at, l, prot, flags, None, 0)
  <2>1. at \in Nat /\ at \in Int /\ l \in Nat /\ l \in Int /\ at + l = vaddr + memsz BY <1>2
  <2>2. "FIXED" \in flags /\ None \in Files \cup {None} /\ 0 \in Int OBVIOUS
  <2>3. t = Expect(m, {at}) BY <1>2 DEF Bss
  <2>m. m = __do_mmap(s, at, l, prot, flags, None, 0) OBVIOUS
  <2>f. at /= None BY <2>1 DEF None
  <2> HIDE DEF at, l, flags, m
  <2>4. Shape(m.k) /\ (s.panic => m.k.panic) BY <1>0, <2>1, <2>2, <2>m, DoMmapStay
  <2>5. Shape(t) /\ (Live(t) => m.r \in {at} /\ t = m.k /\ Live(m.k)) BY <2>3, <2>4, ExpectIs
  <2>6. ASSUME Live(t) PROVE J(t, hold, b, due) /\ vaddr + memsz <= Max0
    <3>1. Live(m.k) /\ m.r = at /\ t = m.k BY <2>5, <2>6
    <3>2. Live(s) BY <1>0, <2>4, <3>1 DEF Live, Shape
    <3>3. J(s, hold, b, due) BY <3>2 DEF Good
    <3>4. /\ m.r \in {None, at} /\ Mapped(s, m.k, hold) /\ J(m.k, hold, b, due)
          /\ m.r /= None => at % PGSIZE = 0 /\ at + l <= Max0
      <4>1. Live(m.k) BY <3>1
      <4>2. at \in Nat /\ l \in Nat BY <2>1
      <4> QED BY <4>1, <4>2, <3>3, <2>2, <2>m, FixedOK
    <3> QED BY <3>1, <3>4, <2>1, <2>f
  <2> QED BY <2>5, <2>6 DEF Good
<1> QED BY <1>1, <1>2

\* Rounding the end of the text up keeps it below the end of the user's memory.
LEMMA TextEnd ==
    ASSUME NEW start \in Nat, start % PGSIZE = 0, NEW n \in Nat, start + n <= Max0
    PROVE  ROUNDUP(n) \in Nat /\ start + ROUNDUP(n) <= Max0
<1>0. PGSIZE \in Nat /\ PGSIZE > 0 /\ Max0 \in Nat BY MmapAssumption, MaxFacts
<1>1. n <= Max0 BY <1>0
<1> DEFINE y == ROUNDUP(n)
           q == PageOf(start)
           r == PageOf(y)
<1>2. Even(y) /\ n <= y /\ y < n + PGSIZE BY <1>1, RoundUp
<1> HIDE DEF y
<1>3. y \in Nat /\ y \in Int BY <1>2 DEF Even
<1>4. q \in Int /\ q * PGSIZE \in Int /\ start % PGSIZE = start - q * PGSIZE BY PageSplit
<1>5. r \in Int /\ r * PGSIZE \in Int /\ y % PGSIZE = y - r * PGSIZE BY <1>3, PageSplit
<1>6. start = q * PGSIZE /\ y = r * PGSIZE BY <1>2, <1>3, <1>4, <1>5 DEF Even
<1> HIDE DEF q, r
<1>7. PICK m \in Nat : Max0 = m * PGSIZE BY MaxFacts
<1>8. (q + r) * PGSIZE = start + y BY <1>0, <1>4, <1>5, <1>6
<1>9. q + r <= m
  <2>1. SUFFICES ASSUME m < q + r PROVE FALSE BY <1>4, <1>5, <1>7
  <2>2. m * PGSIZE + PGSIZE <= (q + r) * PGSIZE BY <2>1, <1>4, <1>5, <1>7, TimesMono
  <2>3. Max0 + PGSIZE <= start + y BY <2>2, <1>7, <1>8
  <2> QED BY <2>3, <1>0, <1>2, <1>3
<1>10. start + y <= Max0
  <2>1. CASE q + r = m
    <3>1. start + y = Max0 BY <2>1, <1>7, <1>8
    <3> QED BY <3>1, <1>0
  <2>2. CASE q + r < m
    <3>1. (q + r) * PGSIZE + PGSIZE <= m * PGSIZE BY <2>2, <1>4, <1>5, <1>7, TimesMono
    <3>2. start + y + PGSIZE <= Max0 BY <3>1, <1>7, <1>8
    <3> QED BY <3>2, <1>0, <1>3
  <2> QED BY <2>1, <2>2, <1>9, <1>4, <1>5, <1>7
<1> QED BY <1>3, <1>10 DEF y

----------------------------------------------------------------------------
\* One segment.
Load(s, f, seg, bias) ==
    LET prepad == seg.vaddr % PGSIZE
        vaddr == seg.vaddr + bias
        start == vaddr - prepad
        n == seg.filesz + prepad
        flags2 == IF prepad /= 0 THEN {"FIXED", "PRIVATE"} \cup {"POPULATE"} ELSE {"FIXED", "PRIVATE"}
        grown == IF vaddr + seg.memsz > s.brk_min THEN [s EXCEPT !.brk_min = vaddr + seg.memsz] ELSE s
        m == __do_mmap(grown, start, n, seg.prot \cup {"W"}, flags2, f, seg.offset - prepad)
    IN  IF m.r = None \/ m.k.panic THEN Panic(m.k)
        ELSE Bss(Protect(Pad(m.k, start, prepad), start, n, seg.prot),
                 vaddr, seg.memsz, ROUNDUP(n) - prepad, seg.prot)

\* LoadSegment is Load unless the kernel has panicked.
LEMMA LoadIs ==
    ASSUME NEW s, NEW f, NEW seg, NEW bias
    PROVE  LoadSegment(s, f, seg, bias) = IF s.panic THEN s ELSE Load(s, f, seg, bias)
BY DEF LoadSegment, Load, Pad, Protect, Bss

\* A panic keeps the fields.
LEMMA PanicIs ==
    ASSUME NEW s, Shape(s)
    PROVE  Shape(Panic(s)) /\ Panic(s).panic = TRUE
BY DEF Panic, Shape, Fields

\* Loading a segment keeps the invariant and moves the heap's start.
LEMMA LoadOK ==
    ASSUME NEW s, NEW hold, NEW b, NEW due, J(s, hold, b, due), b <= Max0,
           NEW f \in Files, hold[f] >= 1, NEW seg \in SegEntry, NEW bias \in Nat,
           NEW t, t = Load(s, f, seg, bias)
    PROVE  GoodB(t, hold, due)
<1> DEFINE prepad == seg.vaddr % PGSIZE
           vaddr == seg.vaddr + bias
           start == vaddr - prepad
           n == seg.filesz + prepad
           flags2 == IF prepad /= 0 THEN {"FIXED", "PRIVATE"} \cup {"POPULATE"} ELSE {"FIXED", "PRIVATE"}
           e == vaddr + seg.memsz
           grown == IF e > s.brk_min THEN [s EXCEPT !.brk_min = e] ELSE s
           prot == seg.prot
           offset == seg.offset - prepad
           m == __do_mmap(grown, start, n, prot \cup {"W"}, flags2, f, offset)
           b2 == IF e > b THEN e ELSE b
           mapped == ROUNDUP(n) - prepad
           u == Pad(m.k, start, prepad)
           w == Protect(u, start, n, prot)
           z == Bss(w, vaddr, seg.memsz, mapped, prot)
<1>0. PGSIZE \in Nat /\ PGSIZE > 0 /\ Max0 \in Nat /\ Max0 < Word /\ Word \in Nat BY MmapAssumption, MaxFacts
<1>1. /\ seg.vaddr \in Nat /\ seg.memsz \in Nat /\ seg.filesz \in Nat /\ seg.offset \in Nat
      /\ prot \in SUBSET RWX
  BY <1>0 DEF SegEntry
<1>2. prepad \in Nat /\ prepad < PGSIZE /\ prepad <= seg.vaddr
  <2> DEFINE a == seg.vaddr
             q == PageOf(a)
  <2>1. a \in Nat /\ a \in Int BY <1>1
  <2>2. /\ q \in Int /\ q * PGSIZE \in Int /\ q * PGSIZE <= a /\ a < q * PGSIZE + PGSIZE
        /\ a % PGSIZE = a - q * PGSIZE
    BY <2>1, PageSplit
  <2>4. prepad = a - q * PGSIZE BY <2>2
  <2> HIDE DEF prepad
  <2>5. prepad \in Nat /\ prepad < PGSIZE BY <2>1, <2>2, <2>4, <1>0
  <2>3. q * PGSIZE >= 0
    <3>1. a \in 0 .. (a + 1) * PGSIZE - 1
      <4>1. (a + 1) * PGSIZE >= a + 1
        <5>1. CASE a = 0 BY <5>1, <1>0
        <5>2. CASE a > 0
          <6>1. (a + 1) * PGSIZE = a * PGSIZE + PGSIZE BY <2>1, <1>0
          <6>2. a * PGSIZE >= a BY <2>1, <1>0
          <6>3. a * PGSIZE \in Int BY <2>1, <1>0
          <6> QED BY <6>1, <6>2, <6>3, <2>1, <1>0
        <5> QED BY <5>1, <5>2, <2>1
      <4>2. (a + 1) * PGSIZE \in Int BY <2>1, <1>0
      <4> QED BY <4>1, <4>2, <2>1
    <3>2. a + 1 \in Nat BY <2>1
    <3>3. q \in 0 .. (a + 1) - 1 BY <3>1, <3>2, <2>1, PageIn
    <3>4. q \in Nat BY <3>3
    <3> HIDE DEF q
    <3> QED BY <3>4, <1>0
  <2> QED BY <2>1, <2>2, <2>3, <2>4, <2>5
<1>t. t = IF m.r = None \/ m.k.panic THEN Panic(m.k) ELSE z BY DEF Load
<1>f. "FIXED" \in flags2 OBVIOUS
<1> HIDE DEF prepad
<1>3. vaddr \in Nat /\ vaddr \in Int /\ start \in Nat /\ start \in Int /\ n \in Nat /\ n \in Int
      /\ e \in Nat /\ offset \in Int /\ start + prepad = vaddr
      /\ seg.memsz \in Nat /\ start + n = vaddr + seg.filesz
  BY <1>1, <1>2
<1>v. start = vaddr - prepad /\ mapped = ROUNDUP(n) - prepad /\ e = vaddr + seg.memsz OBVIOUS
<1>n. prepad <= n BY <1>1, <1>2
<1>g. grown = IF e > s.brk_min THEN [s EXCEPT !.brk_min = e] ELSE s OBVIOUS
<1>m. m = __do_mmap(grown, start, n, prot \cup {"W"}, flags2, f, offset) OBVIOUS
<1>u. /\ u = Pad(m.k, start, prepad) /\ w = Protect(u, start, n, prot)
      /\ z = Bss(w, vaddr, seg.memsz, mapped, prot)
  OBVIOUS
<1> HIDE DEF vaddr, start, n, e, flags2, grown, offset, prot, m, mapped, u, w, z
<1>4. Shape(grown) /\ Live(grown) /\ b \in Nat /\ J(grown, hold, b2, due) BY <1>3, <1>g, GrowOK
<1> HIDE DEF b2
<1>w. prot \cup {"W"} \in SUBSET RWX /\ f \in Files \cup {None} BY <1>1 DEF RWX
<1>5. Shape(m.k) BY <1>3, <1>4, <1>f, <1>m, DoMmapStay
<1>6. CASE m.r = None \/ m.k.panic
  <2>1. t = Panic(m.k) BY <1>6, <1>t
  <2>2. Shape(t) /\ t.panic = TRUE BY <2>1, <1>5, PanicIs
  <2> QED BY <2>2 DEF GoodB, Live
<1>7. CASE ~(m.r = None \/ m.k.panic)
  <2>1. t = z /\ Live(m.k) /\ m.r /= None BY <1>7, <1>t, <1>5 DEF Live, Shape
  <2> DEFINE prot2 == prot \cup {"W"}
  <2>p. prot2 \in SUBSET RWX /\ m = __do_mmap(grown, start, n, prot2, flags2, f, offset) BY <1>w, <1>m
  <2> HIDE DEF prot2
  <2>2. /\ J(m.k, hold, b2, due) /\ start % PGSIZE = 0 /\ start + n <= Max0
    <3>1. /\ m.r \in {None, start} /\ Mapped(grown, m.k, hold) /\ J(m.k, hold, b2, due)
          /\ m.r /= None => start % PGSIZE = 0 /\ start + n <= Max0
      BY <2>1, <2>p, <1>3, <1>4, <1>f, <1>w, FixedOK
    <3> QED BY <3>1, <2>1
  <2>3. BufferFits(start, prepad)
    <3>1. start + prepad < Word BY <2>2, <1>0, <1>2, <1>3, <1>n
    <3> QED BY <3>1, <1>2, <1>3 DEF BufferFits
  <2>4. Good(u, hold, b2, due) BY <2>2, <2>3, <1>u, PadOK
  <2>5. start < Word BY <2>2, <1>0, <1>3
  <2>6. Good(w, hold, b2, due) BY <2>4, <2>5, <1>1, <1>3, <1>u, ProtectOK
  <2>7. ROUNDUP(n) \in Nat /\ start + ROUNDUP(n) <= Max0 BY <2>2, <1>3, TextEnd
  <2>8. mapped \in Int /\ vaddr + mapped \in Nat /\ vaddr + mapped <= Max0
    <3> DEFINE y == ROUNDUP(n)
    <3>1. y \in Nat /\ start + y <= Max0 /\ mapped = y - prepad BY <2>7, <1>v
    <3> HIDE DEF y
    <3>2. vaddr + mapped = start + y BY <3>1, <1>v, <1>2, <1>3
    <3> QED BY <3>1, <3>2, <1>2, <1>3
  <2>9. Good(z, hold, b2, due) /\ (Live(z) => vaddr + seg.memsz <= Max0)
    <3> DEFINE l == seg.memsz
    <3>1. l \in Nat /\ z = Bss(w, vaddr, l, mapped, prot) BY <1>3, <1>u
    <3> HIDE DEF l
    <3>2. Good(z, hold, b2, due) /\ (Live(z) => vaddr + l <= Max0) BY <3>1, <2>6, <2>8, <1>1, <1>3, BssOK
    <3> QED BY <3>2 DEF l
  <2>10. ASSUME Live(z) PROVE \E x \in Nat : x <= Max0 /\ J(z, hold, x, due)
    <3>1. J(z, hold, b2, due) /\ e <= Max0 BY <2>9, <2>10, <1>v DEF Good
    <3>2. b2 \in Nat /\ b2 <= Max0 BY <3>1, <1>3, <1>4 DEF b2
    <3> QED BY <3>1, <3>2
  <2> QED BY <2>1, <2>9, <2>10 DEF Good, GoodB
<1> QED BY <1>6, <1>7

\* Opening a file neither panics nor ends a panic.
LEMMA OpenStay ==
    ASSUME NEW s, Shape(s), NEW name, NEW o, o = file_openat(s, name)
    PROVE  Shape(o.k) /\ o.k.panic = s.panic
<1> DEFINE free == {f \in Files : s.files[f].refcnt = 0}
           f == FirstOf(free)
           u == [s EXCEPT !.files[f].refcnt = 2]
           g == [k |-> u, r |-> f]
           d == HostOpen(u)
<1>0. s.panic \in BOOLEAN BY DEF Shape
<1>1. CASE free = {}
  <2>1. file_get_free(s) = [k |-> s, r |-> None] BY <1>1 DEF file_get_free
  <2>2. o = [k |-> s, r |-> None] BY <2>1 DEF file_openat
  <2> QED BY <2>2
<1>2. CASE free /= {}
  <2>1. file_get_free(s) = g BY <1>2 DEF file_get_free
  <2>2. Shape(u) /\ u.panic = s.panic BY DEF Shape, Fields
  <2> HIDE DEF u, f, free
  <2>6. g.k = u /\ g.r = f OBVIOUS
  <2>3. /\ g.r = None => o = g
        /\ g.r /= None /\ name \notin Names => o = [k |-> file_decref(u, f), r |-> None]
        /\ g.r /= None /\ name \in Names => o = [g EXCEPT !.k.files[g.r].kfd = d, !.k.host[d] = name]
    <3> HIDE DEF g
    <3> QED BY <2>1, <2>6 DEF file_openat
  <2> DEFINE w == [[u EXCEPT !.files[f].kfd = d] EXCEPT !.host[d] = name]
             z == file_decref(u, f)
  <2>4. Shape(w) /\ w.panic = s.panic
    <3> HIDE DEF u, d
    <3> QED BY <2>2 DEF Shape, Fields
  <2> HIDE DEF d
  <2>5. Shape(z) /\ z.panic = s.panic BY <2>2, FileStay
  <2>7. [g EXCEPT !.k.files[g.r].kfd = d, !.k.host[d] = name].k = w BY <2>6
  <2> HIDE DEF w, z
  <2>8. o.k = u \/ o.k = z \/ o.k = w
    <3>1. CASE f = None BY <3>1, <2>3, <2>6
    <3>2. CASE f /= None /\ name \notin Names BY <3>2, <2>3, <2>6 DEF z
    <3>3. CASE f /= None /\ name \in Names BY <3>3, <2>3, <2>6, <2>7
    <3> QED BY <3>1, <3>2, <3>3
  <2> QED BY <2>2, <2>4, <2>5, <2>8
<1> QED BY <1>1, <1>2

----------------------------------------------------------------------------
\* All the segments, from the last to the first.
SegOne(c, t, seg) == LoadSegment(t, c.f, seg, c.bias)
SegP(c, i, t) == IF c.live THEN GoodB(t, c.hold, c.due) ELSE t = c.s
SegLoop == INSTANCE FoldRule WITH Op <- SegOne, P <- SegP

LoadAll(s, f, q, bias) == FoldLeft(LAMBDA t, seg : LoadSegment(t, f, seg, bias), s, q)

\* The loop over the segments, as a repetition of its step.
LEMMA SegIs ==
    ASSUME NEW c, NEW s, NEW q
    PROVE  LoadAll(s, c.f, q, c.bias) = SegLoop!Iter(c, s, q)[DOMAIN q]
BY DEF LoadAll, SegOne, SegLoop!Iter, SegLoop!Last, FoldLeft, MapThenFoldSet, Max

\* LoadSegment, from any good state.
LEMMA SegOneOK ==
    ASSUME NEW s, NEW hold, NEW due, GoodB(s, hold, due), NEW f \in Files, hold[f] >= 1,
           NEW seg \in SegEntry, NEW bias \in Nat, NEW t, t = LoadSegment(s, f, seg, bias)
    PROVE  GoodB(t, hold, due)
<1> DEFINE z == Load(s, f, seg, bias)
<1>1. t = IF s.panic THEN s ELSE z BY LoadIs
<1>z. z = Load(s, f, seg, bias) OBVIOUS
<1> HIDE DEF z
<1>2. CASE s.panic BY <1>1, <1>2
<1>3. CASE ~s.panic
  <2>1. t = z /\ Live(s) BY <1>1, <1>3 DEF GoodB, Shape, Live
  <2>2. PICK b \in Nat : b <= Max0 /\ J(s, hold, b, due) BY <2>1 DEF GoodB
  <2>3. GoodB(z, hold, due) BY <2>2, <1>z, LoadOK
  <2> QED BY <2>1, <2>3
<1> QED BY <1>2, <1>3

\* Loading the segments keeps the invariant.
LEMMA LoadAllOK ==
    ASSUME NEW s, NEW hold, NEW due, GoodB(s, hold, due), NEW f \in Files, hold[f] >= 1,
           NEW q \in Seq(SegEntry), NEW bias \in Nat, NEW t, t = LoadAll(s, f, q, bias)
    PROVE  GoodB(t, hold, due)
<1> DEFINE c == [live |-> TRUE, f |-> f, bias |-> bias, hold |-> hold, due |-> due]
<1>1. PICK n \in Nat : DOMAIN q = 1 .. n
  <2>1. Len(q) \in Nat /\ DOMAIN q = 1 .. Len(q) OBVIOUS
  <2> QED BY <2>1
<1>2. \A i \in 1 .. n : q[i] \in SegEntry BY <1>1
<1>3. c.live = TRUE /\ c.f = f /\ c.bias = bias /\ c.hold = hold /\ c.due = due OBVIOUS
<1> HIDE DEF c
<1>4. t = SegLoop!Iter(c, s, q)[DOMAIN q]
  <2>1. LoadAll(s, c.f, q, c.bias) = SegLoop!Iter(c, s, q)[DOMAIN q] BY SegIs
  <2> QED BY <2>1, <1>3
<1>5. SegP(c, 0, s) BY <1>3 DEF SegP
<1>6. ASSUME NEW i \in 1 .. n, NEW u, SegP(c, i - 1, u) PROVE SegP(c, i, SegOne(c, u, q[i]))
  <2> DEFINE z == SegOne(c, u, q[i])
             seg == q[i]
  <2>1. z = LoadSegment(u, f, seg, bias) BY <1>3 DEF SegOne
  <2>2. seg \in SegEntry BY <1>2
  <2> HIDE DEF z, seg
  <2>3. GoodB(u, hold, due) BY <1>6, <1>3 DEF SegP
  <2>4. GoodB(z, hold, due) BY <2>1, <2>2, <2>3, SegOneOK
  <2>5. SegP(c, i, z) BY <2>4, <1>3 DEF SegP
  <2> QED BY <2>5 DEF z
<1>7. SegP(c, n, t) BY <1>1, <1>4, <1>5, <1>6, SegLoop!FoldInv
<1> QED BY <1>7, <1>3 DEF SegP

\* A panic before the first segment is the end.
LEMMA LoadAllStay ==
    ASSUME NEW s, s.panic, NEW f, NEW q \in Seq(SegEntry), NEW bias
    PROVE  LoadAll(s, f, q, bias) = s
<1> DEFINE c == [live |-> FALSE, f |-> f, bias |-> bias, s |-> s]
           t == LoadAll(s, f, q, bias)
<1>1. PICK n \in Nat : DOMAIN q = 1 .. n
  <2>1. Len(q) \in Nat /\ DOMAIN q = 1 .. Len(q) OBVIOUS
  <2> QED BY <2>1
<1>3. c.live = FALSE /\ c.f = f /\ c.bias = bias /\ c.s = s OBVIOUS
<1> HIDE DEF c
<1>4. t = SegLoop!Iter(c, s, q)[DOMAIN q]
  <2>1. LoadAll(s, c.f, q, c.bias) = SegLoop!Iter(c, s, q)[DOMAIN q] BY SegIs
  <2> QED BY <2>1, <1>3
<1> HIDE DEF t
<1>5. SegP(c, 0, s) BY <1>3 DEF SegP
<1>6. ASSUME NEW i \in 1 .. n, NEW u, SegP(c, i - 1, u) PROVE SegP(c, i, SegOne(c, u, q[i]))
  <2>1. u = s BY <1>6, <1>3 DEF SegP
  <2>2. SegOne(c, u, q[i]) = u BY <2>1 DEF SegOne, LoadSegment
  <2> QED BY <2>1, <2>2, <1>3 DEF SegP
<1>7. SegP(c, n, t) BY <1>1, <1>4, <1>5, <1>6, SegLoop!FoldInv
<1> QED BY <1>7, <1>3 DEF SegP, t

\* The loader is given segments of machine words.
LEMMA SegsAre ==
    ASSUME NEW elf \in Elfs
    PROVE  Reverse(elf.segs) \in Seq(SegEntry)
<1>1. elf.segs \in Seq(SegEntry) BY CallAssumption DEF SegEntry
<1> DEFINE q == elf.segs
<1>2. Reverse(q) = [i \in 1 .. Len(q) |-> q[Len(q) - i + 1]] BY DEF Reverse
<1>3. q \in Seq(SegEntry) BY <1>1
<1> HIDE DEF q
<1>4. ASSUME NEW i \in 1 .. Len(q) PROVE q[Len(q) - i + 1] \in SegEntry
  <2>1. Len(q) \in Nat BY <1>3
  <2>2. Len(q) - i + 1 \in 1 .. Len(q) BY <2>1
  <2> QED BY <2>2, <1>3
<1>5. Len(q) \in Nat BY <1>3
<1>6. Reverse(q) \in [1 .. Len(q) -> SegEntry] BY <1>2, <1>4
<1>7. Reverse(q) \in Seq(SegEntry) BY <1>5, <1>6
<1> QED BY <1>7 DEF q

----------------------------------------------------------------------------
\* The last reference of the loader is dropped: the regions keep the file open.
LEMMA CloseProgram ==
    ASSUME NEW s, NEW hold, NEW due, NEW f \in Files, hold \in [Files -> Nat],
           GoodB(s, More(hold, f), due), NEW t, t = IF s.panic THEN s ELSE file_decref(s, f)
    PROVE  GoodB(t, hold, due)
<1>0. Shape(s) BY DEF GoodB
<1>1. CASE s.panic
  <2>1. t = s /\ ~Live(s) BY <1>1 DEF Live
  <2> QED BY <2>1, <1>0 DEF GoodB
<1>2. CASE ~s.panic
  <2> DEFINE hold1 == More(hold, f)
  <2>1. t = file_decref(s, f) /\ Live(s) BY <1>0, <1>2 DEF Shape, Live
  <2>2. PICK b \in Nat : b <= Max0 /\ J(s, hold1, b, due) BY <2>1 DEF GoodB
  <2>3. J0(s, hold1, b, due) /\ TlbOK(s.pte, s.tlb) BY <2>2 DEF J
  <2>4. hold[f] \in Nat /\ hold1[f] = hold[f] + 1 /\ Less(hold1, f) = hold BY MoreLess
  <2>5. hold1[f] >= 1 BY <2>4
  <2> HIDE DEF hold1
  <2>6. J0(t, Less(hold1, f), b, due) /\ Differ(s, t, {"files", "host"}) BY <2>1, <2>3, <2>5, DecrefOK
  <2>7. t.pte = s.pte /\ t.tlb = s.tlb BY <2>6, DifferTlb
  <2>8. J(t, hold, b, due) BY <2>3, <2>4, <2>6, <2>7 DEF J
  <2>9. Shape(t) BY <2>6 DEF J0
  <2> QED BY <2>2, <2>8, <2>9 DEF GoodB
<1> QED BY <1>1, <1>2

\* load_elf ends with no reference of its own to the program.
LEMMA LoadElfOK ==
    ASSUME NEW s, NEW due, GoodB(s, Zeros, due), NEW elf \in Elfs, NEW t, t = load_elf(s, elf)
    PROVE  GoodB(t, Zeros, due)
<1> DEFINE o == file_openat(s, elf.name)
           bias == IF elf.dyn THEN PGSIZE ELSE 0
           q == Reverse(elf.segs)
           u == LoadAll(o.k, o.r, q, bias)
           w == IF u.panic THEN u ELSE file_decref(u, o.r)
<1>1. t = IF o.r = None THEN Panic(o.k) ELSE w BY DEF load_elf, file_open, LoadAll
<1>2. q \in Seq(SegEntry) BY SegsAre
<1>3. bias \in Nat BY MmapAssumption
<1>0. Shape(s) /\ Zeros \in [Files -> Nat] BY DEF GoodB, Zeros
<1>o. o = file_openat(s, elf.name) OBVIOUS
<1>u. u = LoadAll(o.k, o.r, q, bias) /\ w = IF u.panic THEN u ELSE file_decref(u, o.r) OBVIOUS
<1> HIDE DEF o, bias, q, u, w
<1>4. Shape(o.k) /\ o.k.panic = s.panic BY <1>0, <1>o, OpenStay
<1>5. CASE o.r = None
  <2>1. t = Panic(o.k) BY <1>1, <1>5
  <2>2. Shape(t) /\ t.panic = TRUE BY <2>1, <1>4, PanicIs
  <2> QED BY <2>2 DEF GoodB, Live
<1>6. CASE o.r /= None /\ ~Live(s)
  <2> DEFINE ok == o.k
  <2>1. ok.panic = TRUE /\ Shape(ok) /\ u = LoadAll(ok, o.r, q, bias) BY <1>0, <1>4, <1>6, <1>u DEF Shape, Live
  <2> HIDE DEF ok
  <2>2. u = ok BY <2>1, <1>2, LoadAllStay
  <2>3. t = u BY <1>1, <1>6, <1>u, <2>1, <2>2
  <2> QED BY <2>1, <2>2, <2>3 DEF GoodB, Live
<1>7. CASE o.r /= None /\ Live(s)
  <2> DEFINE f == o.r
             hold1 == More(Zeros, f)
  <2>1. PICK b \in Nat : b <= Max0 /\ J(s, Zeros, b, due) BY <1>7 DEF GoodB
  <2>2. J0(s, Zeros, b, due) /\ TlbOK(s.pte, s.tlb) BY <2>1 DEF J
  <2>3. /\ o.r \in Files \cup {None} /\ Differ(s, o.k, {"files", "host"})
        /\ o.r = None => J0(o.k, Zeros, b, due)
        /\ o.r \in Files => J0(o.k, More(Zeros, o.r), b, due)
    BY <2>2, <1>o, OpenOK
  <2>4. f \in Files /\ J0(o.k, hold1, b, due) BY <2>3, <1>7
  <2>5. o.k.pte = s.pte /\ o.k.tlb = s.tlb BY <2>3, DifferTlb
  <2>6. J(o.k, hold1, b, due) BY <2>2, <2>4, <2>5 DEF J
  <2>7. GoodB(o.k, hold1, due) BY <2>1, <2>6, <1>4 DEF GoodB
  <2>8. hold1[f] >= 1 BY <2>2, <2>4, MoreHold
  <2>9. u = LoadAll(o.k, f, q, bias) /\ w = IF u.panic THEN u ELSE file_decref(u, f) BY <1>u
  <2>10. t = w BY <1>1, <1>7
  <2> HIDE DEF f
  <2>11. GoodB(u, hold1, due)
    <3> HIDE DEF hold1
    <3> DEFINE ok == o.k
    <3>1. GoodB(ok, hold1, due) /\ u = LoadAll(ok, f, q, bias) BY <2>7, <2>9
    <3> HIDE DEF ok
    <3> QED BY <3>1, <2>4, <2>8, <1>2, <1>3, LoadAllOK
  <2>12. GoodB(w, Zeros, due) BY <2>4, <2>9, <2>11, <1>0, CloseProgram
  <2> QED BY <2>10, <2>12
<1> QED BY <1>5, <1>6, <1>7

----------------------------------------------------------------------------
\* Booting leaves the user with a good kernel, or with none.
LEMMA OptionOK ==
    ASSUME NEW s, NEW hold, NEW due, Good(s, hold, 0, due), NEW opts, NEW t, t = handle_option(s, opts)
    PROVE  GoodB(t, hold, due)
<1>1. Shape(s) BY DEF Good
<1>2. Shape(t) /\ t.panic = s.panic /\ \A x \in Fields \ {"demand"} : t[x] = s[x]
  BY <1>1 DEF handle_option, Shape, Fields
<1>3. ASSUME Live(t) PROVE J(t, hold, 0, due)
  <2>1. J(s, hold, 0, due) /\ t.panic = FALSE BY <1>2, <1>3 DEF Good, Live
  <2>2. J0(s, hold, 0, due) /\ TlbOK(s.pte, s.tlb) BY <2>1 DEF J
  <2>3. \A x \in Told : t[x] = s[x] BY <1>2 DEF Told, Fields
  <2>4. J0(t, hold, 0, due) BY <1>2, <2>1, <2>2, <2>3, J0Frame
  <2>5. t.pte = s.pte /\ t.tlb = s.tlb BY <1>2 DEF Fields
  <2> QED BY <2>2, <2>4, <2>5 DEF J
<1>4. 0 \in Nat /\ 0 <= Max0 BY MaxFacts
<1> QED BY <1>2, <1>3, <1>4 DEF GoodB

\* The arguments go below the end of the user's memory.
LEMMA StackTopOK ==
    ASSUME NEW s, NEW hold, NEW due, GoodB(s, hold, due), NEW t, t = run_loaded_program(s)
    PROVE  GoodB(t, hold, due)
<1>1. CASE s.panic
  <2>1. t = s BY <1>1 DEF run_loaded_program
  <2> QED BY <2>1
<1>2. CASE ~s.panic
  <2>1. Live(s) BY <1>2 DEF GoodB, Shape, Live
  <2>2. PICK b \in Nat : b <= Max0 /\ J(s, hold, b, due) BY <2>1 DEF GoodB
  <2> DEFINE a == s.mmap_max - 1
  <2>3. s.mmap_max = Max0 BY <2>2 DEF J, J0, KernelOK
  <2>4. BufferFits(a, 1) BY <2>3, MaxFacts DEF BufferFits
  <2>5. t = Store(s, a, 1, Stored) BY <1>2 DEF run_loaded_program
  <2> HIDE DEF a
  <2>6. Good(t, hold, b, due) BY <2>2, <2>4, <2>5, StoreOK
  <2> QED BY <2>2, <2>6 DEF Good, GoodB
<1> QED BY <1>1, <1>2

\* The whole boot.
LEMMA BootOK ==
    ASSUME NEW elf \in Elfs, NEW opts, NEW t, t = boot_loader(elf, opts)
    PROVE  GoodB(t, Zeros, NoDue)
<1> DEFINE s1 == pk_vm_init(file_init(Off))
           s2 == handle_option(s1, opts)
           s3 == load_elf(s2, elf)
<1>1. t = run_loaded_program(s3) BY DEF boot_loader, rest_of_boot_loader
<1>2. Good(s1, Zeros, 0, NoDue) BY VmInitOK
<1>s. s2 = handle_option(s1, opts) /\ s3 = load_elf(s2, elf) OBVIOUS
<1> HIDE DEF s1, s2, s3
<1>3. GoodB(s2, Zeros, NoDue) BY <1>2, <1>s, OptionOK
<1>4. GoodB(s3, Zeros, NoDue) BY <1>3, <1>s, LoadElfOK
<1> QED BY <1>1, <1>4, StackTopOK

----------------------------------------------------------------------------
\* What the user's accesses make of the kernel's state.
LEMMA UserFaultOK ==
    ASSUME NEW s, NEW hold, NEW b, NEW due, J(s, hold, b, due), NEW p \in VPages, NEW t \in RWX,
           NEW u, u = handle_fault(s, p * PGSIZE, t)
    PROVE  Good(u, hold, b, due)
<1> DEFINE a == p * PGSIZE
<1>0. Shape(s) /\ J0(s, hold, b, due) /\ {t} \in SUBSET RWX BY DEF J, J0
<1>1. PageOf(a) \in VPages
  <2>1. p \in Int BY Finite
  <2>2. PageOf(a) = p BY <2>1, TimesEven
  <2> QED BY <2>2
<1>2. u = Expect(__handle_page_fault(s, a, {t}), {0}) BY DEF handle_fault, handle_page_fault
<1> HIDE DEF a
<1>3. Shape(u) BY <1>0, <1>2, FaultStay
<1>4. ASSUME Live(u) PROVE J(u, hold, b, due) BY <1>0, <1>1, <1>2, <1>4, FaultOK
<1> QED BY <1>3, <1>4 DEF Good

\* The user's store changes what the page holds and what it may show alike.
LEMMA UserStoreOK ==
    ASSUME NEW s, NEW hold, NEW b, NEW due, J(s, hold, b, due), NEW p \in VPages, Valid(s, p),
           NEW u, u = [s EXCEPT !.mem[p][0] = Stored, !.want[p].units[0] = {Stored}]
    PROVE  J(u, hold, b, due)
<1>1. /\ Shape(s) /\ s.panic = FALSE /\ J0(s, hold, b, due) /\ TlbOK(s.pte, s.tlb)
      /\ ContentOK(s.pte, s.vmrs, s.files, s.host, s.disk, s.mem, s.want) /\ MapOK(s.pte, s.vmrs, due)
  BY DEF J, J0
<1>2. /\ Shape(u) /\ u.panic = FALSE /\ \A y \in Fields \ {"mem", "want"} : u[y] = s[y]
      /\ u.mem = [s.mem EXCEPT ![p][0] = Stored]
      /\ u.want = [s.want EXCEPT ![p].units[0] = {Stored}]
  BY <1>1 DEF Shape, Fields
<1>3. /\ u.fds = s.fds /\ u.files = s.files /\ u.host = s.host /\ u.pte = s.pte /\ u.vmrs = s.vmrs
      /\ u.brk = s.brk /\ u.brk_min = s.brk_min /\ u.brk_max = s.brk_max /\ u.mmap_max = s.mmap_max
      /\ u.stale = s.stale /\ u.tlb = s.tlb /\ u.disk = s.disk
  BY <1>2 DEF Fields
<1>4. DOMAIN s.mem = VPages /\ DOMAIN s.want = VPages /\ Formed(s.mem[p], s.want[p]) BY <1>1 DEF ContentOK
<1>5. /\ DOMAIN u.mem = VPages /\ DOMAIN u.want = VPages
      /\ u.mem[p] = [s.mem[p] EXCEPT ![0] = Stored]
      /\ u.want[p] = [s.want[p] EXCEPT !.units[0] = {Stored}]
      /\ \A q \in VPages : q /= p => u.mem[q] = s.mem[q] /\ u.want[q] = s.want[q]
  BY <1>2, <1>4
<1>6. Shows(s.mem[p], s.want[p]) BY <1>1 DEF ContentOK, Valid
<1>7. s.pte[p].vmr = 0 BY <1>1 DEF MapOK, PteFit, Valid
<1>f. Formed(u.mem[p], u.want[p]) /\ Shows(u.mem[p], u.want[p])
  <2>1. DOMAIN s.want[p] = {"from", "units"} /\ DOMAIN s.want[p].units = Units /\ DOMAIN s.mem[p] = Units
    BY <1>4 DEF Formed, Awaited
  <2>2. /\ DOMAIN u.want[p] = {"from", "units"}
        /\ u.want[p].units = [s.want[p].units EXCEPT ![0] = {Stored}]
    BY <2>1, <1>5
  <2>3. DOMAIN u.want[p].units = Units /\ DOMAIN u.mem[p] = Units BY <2>1, <2>2, <1>5
  <2>4. ASSUME NEW j \in Units PROVE u.mem[p][j] \in u.want[p].units[j]
    <3>1. s.mem[p][j] \in s.want[p].units[j] BY <1>6 DEF Shows
    <3>2. CASE j = 0 BY <3>2, <2>1, <2>2, <1>5
    <3>3. CASE j /= 0 BY <3>1, <3>3, <2>1, <2>2, <1>5
    <3> QED BY <3>2, <3>3
  <2> QED BY <2>2, <2>3, <2>4 DEF Formed, Awaited, Shows
<1>8. ContentOK(u.pte, u.vmrs, u.files, u.host, u.disk, u.mem, u.want)
  <2>1. ASSUME NEW q \in VPages
        PROVE  /\ Formed(u.mem[q], u.want[q])
               /\ "V" \in s.pte[q].bits => Shows(u.mem[q], u.want[q])
               /\ s.pte[q].vmr /= 0 => Awaits(s.disk, u.want[q], Promise(q, s.vmrs[s.pte[q].vmr], s.files, s.host))
    <3>1. CASE q = p BY <3>1, <1>f, <1>7
    <3>2. CASE q /= p BY <3>2, <1>1, <1>5 DEF ContentOK
    <3> QED BY <3>1, <3>2
  <2> QED BY <2>1, <1>3, <1>5 DEF ContentOK
<1>9. J0(u, hold, b, due) BY <1>1, <1>2, <1>3, <1>8 DEF J0
<1> QED BY <1>1, <1>3, <1>9 DEF J

\* What an access that is allowed does to the memory.
Accessed(c, p, t) ==
    IF t = "W" THEN [c EXCEPT !.mem[p][0] = Stored, !.want[p].units[0] = {Stored}] ELSE c

\* An access that is allowed.
LEMMA AccessOK ==
    ASSUME NEW s, NEW hold, NEW b, NEW due, J(s, hold, b, due), NEW p \in VPages, NEW t \in RWX,
           Allowed(s, p, t, TRUE), NEW c, c = Cache(s, p),
           NEW u, u = Accessed(c, p, t)
    PROVE  J(u, hold, b, due)
<1>1. J(c, hold, b, due) BY CacheOK
<1>2. Valid(s, p) BY AllowedValid
<1>3. Valid(c, p)
  <2>1. Shape(s) BY DEF J, J0
  <2>2. Differ(s, Cache(s, p), {"tlb"}) BY <2>1, CacheStay
  <2>3. c.pte = s.pte BY <2>2 DEF Differ, Fields
  <2> QED BY <2>3, <1>2 DEF Valid
<1>4. CASE t = "W"
  <2>1. u = [c EXCEPT !.mem[p][0] = Stored, !.want[p].units[0] = {Stored}] BY <1>4 DEF Accessed
  <2> QED BY <2>1, <1>1, <1>3, UserStoreOK
<1>5. CASE t /= "W"
  <2>1. u = c BY <1>5 DEF Accessed
  <2> QED BY <2>1, <1>1
<1> QED BY <1>4, <1>5

----------------------------------------------------------------------------
(* The invariant of the whole kernel.                                      *)

\* The state of the kernel while the user runs: nothing is held, and nothing is due.
Running(s) == \E b \in Nat : b <= Max0 /\ J(s, Zeros, b, NoDue)
Settled(s) == Shape(s) /\ (Live(s) => Running(s))

KernelInv ==
    /\ phase \in {"boot", "user", "exit", "panic", "lost"}
    /\ phase = "boot" => k = Off
    /\ phase \in {"panic", "lost"} => k = Panic(Off)
    /\ phase \in {"user", "exit"} => Running(k)

\* A good kernel is settled.
LEMMA GoodSettled ==
    ASSUME NEW t, NEW b \in Nat, b <= Max0, Good(t, Zeros, b, NoDue)
    PROVE  Settled(t)
BY DEF Good, Settled, Running

\* However a handler ends, the invariant holds of what it leaves.
LEMMA BecomesOK ==
    ASSUME NEW t, Settled(t), Becomes(t)
    PROVE  KernelInv'
<1>1. Shape(t) /\ (Live(t) => Running(t)) BY DEF Settled
<1>2. CASE t.panic \/ t.lost
  <2>1. k' = Panic(Off) /\ phase' \in {"panic", "lost"} BY <1>2 DEF Becomes
  <2> QED BY <2>1 DEF KernelInv
<1>3. CASE ~(t.panic \/ t.lost)
  <2>1. k' = t /\ phase' = "user" BY <1>3 DEF Becomes
  <2>2. Live(t) BY <1>1, <1>3 DEF Shape, Live
  <2>3. Running(t) BY <1>1, <2>2
  <2>4. Running(k') BY <2>1, <2>3
  <2> QED BY <2>1, <2>4 DEF KernelInv
<1> QED BY <1>2, <1>3

\* Boot keeps the invariant.
LEMMA BootStep ==
    ASSUME Boot
    PROVE  KernelInv'
<1>1. PICK elf \in Elfs, opts \in Options : Becomes(boot_loader(elf, opts)) BY DEF Boot
<1> DEFINE t == boot_loader(elf, opts)
<1>2. GoodB(t, Zeros, NoDue) BY BootOK
<1>3. Becomes(t) BY <1>1
<1> HIDE DEF t
<1>4. Settled(t) BY <1>2 DEF GoodB, Settled, Running
<1> QED BY <1>3, <1>4, BecomesOK

\* Access keeps the invariant.
LEMMA AccessStep ==
    ASSUME KernelInv, Access
    PROVE  KernelInv'
<1>1. phase = "user" /\ phase' = "user" /\ Running(k) BY DEF KernelInv, Access
<1>2. PICK p \in Touched, t \in RWX :
              /\ Allowed(k, p, t, TRUE)
              /\ k' = LET c == Cache(k, p)
                      IN  IF t = "W" THEN [c EXCEPT !.mem[p][0] = Stored, !.want[p].units[0] = {Stored}]
                          ELSE c
  BY DEF Access
<1>4. PICK b \in Nat : b <= Max0 /\ J(k, Zeros, b, NoDue) BY <1>1 DEF Running
<1> DEFINE c == Cache(k, p)
           u == Accessed(c, p, t)
<1>5. k' = u BY <1>2 DEF Accessed
<1>6. p \in VPages /\ t \in RWX /\ Allowed(k, p, t, TRUE) BY <1>2, CallAssumption
<1>a. J(k, Zeros, b, NoDue) BY <1>4
<1>7. c = Cache(k, p) /\ u = Accessed(c, p, t) OBVIOUS
<1> HIDE DEF c, u
<1>8. J(u, Zeros, b, NoDue) BY <1>a, <1>6, <1>7, AccessOK
<1>9. Running(k') BY <1>4, <1>5, <1>8 DEF Running
<1> QED BY <1>1, <1>9 DEF KernelInv

\* Fault keeps the invariant.
LEMMA FaultStep ==
    ASSUME KernelInv, Fault
    PROVE  KernelInv'
<1>1. Running(k) BY DEF KernelInv, Fault
<1>2. PICK p \in Touched, t \in RWX : Becomes(handle_fault(k, p * PGSIZE, t)) BY DEF Fault
<1>4. PICK b \in Nat : b <= Max0 /\ J(k, Zeros, b, NoDue) BY <1>1 DEF Running
<1> DEFINE u == handle_fault(k, p * PGSIZE, t)
<1>5. p \in VPages /\ u = handle_fault(k, p * PGSIZE, t) /\ Becomes(u) BY <1>2, CallAssumption
<1> HIDE DEF u
<1>6. Good(u, Zeros, b, NoDue) BY <1>4, <1>5, UserFaultOK
<1>7. Settled(u) BY <1>4, <1>6, GoodSettled
<1> QED BY <1>5, <1>7, BecomesOK

\* Fatal keeps the invariant.
LEMMA FatalStep ==
    ASSUME KernelInv, Fatal
    PROVE  KernelInv'
<1>1. Running(k) BY DEF KernelInv, Fatal
<1>2. Shape(k) BY <1>1 DEF Running, J, J0
<1>3. Shape(Panic(k)) /\ Panic(k).panic = TRUE BY <1>2, PanicIs
<1>4. Settled(Panic(k)) BY <1>3 DEF Settled, Live
<1>5. Becomes(Panic(k)) BY DEF Fatal
<1> QED BY <1>4, <1>5, BecomesOK

\* The calls, each from a state in which the user runs.
LEMMA CallStep ==
    ASSUME KernelInv, MayCall
    PROVE  Running(k)
BY DEF KernelInv, MayCall

\* A call that leaves a good kernel keeps the invariant.
LEMMA GoodCall ==
    ASSUME NEW t, Call(t), NEW b \in Nat, b <= Max0, Good(t, Zeros, b, NoDue)
    PROVE  KernelInv'
<1>1. Settled(t) BY GoodSettled
<1> QED BY <1>1, BecomesOK DEF Call

\* Mmap keeps the invariant.
LEMMA MmapStep ==
    ASSUME KernelInv, Mmap
    PROVE  KernelInv'
<1>1. Running(k) BY CallStep DEF Mmap
<1>2. PICK m \in Maps, fd \in {None} \cup Fds :
              Call(do_mmap(k, m.addr, m.len, m.prot, m.flags, fd, m.off).k)
  BY DEF Mmap
<1>4. PICK b \in Nat : b <= Max0 /\ J(k, Zeros, b, NoDue) BY <1>1 DEF Running
<1>5. /\ m.addr \in 0 .. Word - 1 /\ m.len \in 0 .. Word - 1 /\ m.prot \in SUBSET RWX /\ m.off \in Nat
  BY CallAssumption
<1> DEFINE addr == m.addr
           length == m.len
           prot == m.prot
           flags == m.flags
           offset == m.off
           n == do_mmap(k, addr, length, prot, flags, fd, offset)
<1>6. addr \in Nat /\ length \in Nat /\ prot \in SUBSET RWX /\ offset \in Nat
  BY <1>5, MaxFacts
<1>7. Call(n.k) /\ n = do_mmap(k, addr, length, prot, flags, fd, offset) BY <1>2
<1> HIDE DEF addr, length, prot, flags, offset, n
<1>8. Good(n.k, Zeros, b, NoDue) BY <1>4, <1>6, <1>7, DoMmapOK DEF Good
<1> QED BY <1>4, <1>7, <1>8, GoodCall

\* Munmap and Mprotect keep the invariant.
LEMMA AreaStep ==
    ASSUME KernelInv, Munmap \/ Mprotect
    PROVE  KernelInv'
<1>1. Running(k) BY CallStep DEF Munmap, Mprotect
<1>4. PICK b \in Nat : b <= Max0 /\ J(k, Zeros, b, NoDue) BY <1>1 DEF Running
<1>5. ASSUME NEW m \in Areas PROVE m.addr \in Nat /\ m.addr < Word /\ m.len \in Nat
  <2>1. m.addr \in 0 .. Word - 1 /\ m.len \in 0 .. Word - 1 BY CallAssumption
  <2> QED BY <2>1, MaxFacts
<1>6. CASE Munmap
  <2>1. PICK m \in Areas : Call(do_munmap(k, m.addr, m.len)) BY <1>6 DEF Munmap
  <2> DEFINE addr == m.addr
             length == m.len
             t == do_munmap(k, addr, length)
  <2>2. addr \in Nat /\ length \in Nat /\ t = do_munmap(k, addr, length) /\ Call(t) BY <2>1, <1>5
  <2> HIDE DEF addr, length, t
  <2>3. J(t, Zeros, b, NoDue) BY <2>2, <1>4, MunmapOK
  <2>4. Good(t, Zeros, b, NoDue) BY <2>3, GoodJ
  <2> QED BY <2>2, <2>4, <1>4, GoodCall
<1>7. CASE Mprotect
  <2>1. PICK m \in Areas, prot \in Prots : Call(do_mprotect(k, m.addr, m.len, prot).k) BY <1>7 DEF Mprotect
  <2> DEFINE addr == m.addr
             length == m.len
             n == do_mprotect(k, addr, length, prot)
  <2>2. /\ addr \in Nat /\ addr < Word /\ length \in Nat /\ n = do_mprotect(k, addr, length, prot)
        /\ prot \in SUBSET RWX /\ Call(n.k)
    BY <2>1, <1>5, CallAssumption
  <2> HIDE DEF addr, length, n
  <2>3. J(n.k, Zeros, b, NoDue) BY <2>2, <1>4, MprotectOK
  <2>4. Good(n.k, Zeros, b, NoDue) BY <2>3, GoodJ
  <2> QED BY <2>2, <2>4, <1>4, GoodCall
<1> QED BY <1>6, <1>7

\* Brk keeps the invariant.
LEMMA BrkStep ==
    ASSUME KernelInv, Brk
    PROVE  KernelInv'
<1>1. Running(k) BY CallStep DEF Brk
<1>2. PICK a \in Breaks : Call(do_brk(k, a)) BY DEF Brk
<1>4. PICK b \in Nat : b <= Max0 /\ J(k, Zeros, b, NoDue) BY <1>1 DEF Running
<1> DEFINE t == do_brk(k, a)
<1>5. a \in Nat /\ t = do_brk(k, a) /\ Call(t)
  <2>1. a \in 0 .. Word - 1 BY CallAssumption
  <2> QED BY <2>1, <1>2, MaxFacts
<1> HIDE DEF t
<1>6. Shape(t) /\ (Live(t) => J(t, Zeros, b, NoDue)) BY <1>4, <1>5, BrkDone
<1>7. Good(t, Zeros, b, NoDue) BY <1>6 DEF Good
<1> QED BY <1>5, <1>7, <1>4, GoodCall

\* The user's buffers end inside the address space.
LEMMA BufsFit ==
    ASSUME NEW buf \in Bufs
    PROVE  BufferFits(buf.addr, buf.len)
<1>1. buf.addr \in 0 .. Word - 1 /\ buf.len \in 0 .. Word - 1 /\ buf.addr + buf.len < Word BY CallAssumption
<1> QED BY <1>1, MaxFacts DEF BufferFits

\* Open keeps the invariant.
LEMMA OpenStep ==
    ASSUME KernelInv, Open
    PROVE  KernelInv'
<1>1. Running(k) BY CallStep DEF Open
<1>2. PICK buf \in Bufs, dirfd \in DirFds, name \in Names \cup {"none"}, trunc \in BOOLEAN :
              Call(sys_openat(k, dirfd, buf, name, trunc))
  BY DEF Open
<1>4. PICK b \in Nat : b <= Max0 /\ J(k, Zeros, b, NoDue) BY <1>1 DEF Running
<1> DEFINE t == sys_openat(k, dirfd, buf, name, trunc)
<1>5. BufferFits(buf.addr, buf.len) BY BufsFit
<1>6. Good(t, Zeros, b, NoDue) BY <1>4, <1>5, OpenatOK
<1>7. Call(t) BY <1>2
<1> HIDE DEF t
<1> QED BY <1>4, <1>6, <1>7, GoodCall

\* Close keeps the invariant.
LEMMA CloseStep ==
    ASSUME KernelInv, Close
    PROVE  KernelInv'
<1>1. Running(k) BY CallStep DEF Close
<1>2. PICK fd \in Fds : Call(sys_close(k, fd)) BY DEF Close
<1>4. PICK b \in Nat : b <= Max0 /\ J(k, Zeros, b, NoDue) BY <1>1 DEF Running
<1> DEFINE t == sys_close(k, fd)
<1>5. J(t, Zeros, b, NoDue) BY <1>4, CloseOK DEF sys_close
<1>6. Call(t) BY <1>2
<1> HIDE DEF t
<1>7. Good(t, Zeros, b, NoDue) BY <1>5, GoodJ
<1> QED BY <1>4, <1>6, <1>7, GoodCall

\* Any call whose result is good settles.
LEMMA AnyCall ==
    ASSUME KernelInv, MayCall, NEW t, Call(t),
           \A b : J(k, Zeros, b, NoDue) => Good(t, Zeros, b, NoDue)
    PROVE  KernelInv'
<1>1. Running(k) BY CallStep
<1>4. PICK b \in Nat : b <= Max0 /\ J(k, Zeros, b, NoDue) BY <1>1 DEF Running
<1>5. Good(t, Zeros, b, NoDue) BY <1>4
<1> QED BY <1>4, <1>5, GoodCall

\* All calls of a set of results settle.
GoodResult(t) == \A b : J(k, Zeros, b, NoDue) => Good(t, Zeros, b, NoDue)

\* DescriptorCall keeps the invariant.
LEMMA DescriptorStep ==
    ASSUME KernelInv, DescriptorCall
    PROVE  KernelInv'
<1>1. MayCall BY DEF DescriptorCall
<1>2. PICK fd \in Fds :
              \/ Call(sys_dup(k, fd)) \/ Call(sys_lseek(k, fd))
              \/ Call(sys_fcntl(k, fd)) \/ \E len \in Offsets : Call(sys_ftruncate(k, fd, len))
  BY DEF DescriptorCall
<1>o. Offsets \subseteq Nat BY CallAssumption
<1>3. GoodResult(sys_dup(k, fd)) /\ GoodResult(sys_lseek(k, fd)) /\ GoodResult(sys_fcntl(k, fd))
  <2>1. 0 \in Nat OBVIOUS
  <2> QED BY <2>1, HostOnlyOK DEF GoodResult
<1>t. \A len \in Offsets : GoodResult(sys_ftruncate(k, fd, len)) BY <1>o, HostOnlyOK DEF GoodResult
<1>4. PICK t : Call(t) /\ GoodResult(t) BY <1>2, <1>3, <1>t
<1> QED BY <1>1, <1>4, AnyCall DEF GoodResult

\* BufferCall keeps the invariant.
LEMMA BufferStep ==
    ASSUME KernelInv, BufferCall
    PROVE  KernelInv'
<1>1. MayCall BY DEF BufferCall
<1>2. PICK fd \in {0, 3}, buf \in Bufs :
              \/ Call(sys_read(k, fd, buf)) \/ Call(sys_pread(k, fd, buf))
              \/ \E pos \in Offsets : Call(sys_write(k, fd, buf, pos)) \/ Call(sys_writev(k, fd, buf, pos))
              \/ Call(sys_fstat(k, fd, buf))
  BY DEF BufferCall
<1>o. Offsets \subseteq Nat BY CallAssumption
<1>b. BufferFits(buf.addr, buf.len) BY BufsFit
<1>3. /\ GoodResult(sys_read(k, fd, buf)) /\ GoodResult(sys_pread(k, fd, buf))
      /\ GoodResult(sys_fstat(k, fd, buf))
  BY <1>b, ReadOK DEF GoodResult
<1>4. \A pos \in Offsets : GoodResult(sys_write(k, fd, buf, pos)) BY <1>b, <1>o, FileWriteOK DEF GoodResult
<1>5. \A pos \in Offsets : GoodResult(sys_writev(k, fd, buf, pos)) BY <1>b, <1>o, WritevOK DEF GoodResult
<1>6. PICK t : Call(t) /\ GoodResult(t) BY <1>2, <1>3, <1>4, <1>5
<1> QED BY <1>1, <1>6, AnyCall DEF GoodResult

\* PathCall keeps the invariant.
LEMMA PathStep ==
    ASSUME KernelInv, PathCall
    PROVE  KernelInv'
<1>1. MayCall BY DEF PathCall
<1>2. PICK buf \in Bufs :
              \/ \E d \in DirFds :
                    \/ Call(sys_unlinkat(k, d, buf)) \/ Call(sys_mkdirat(k, d, buf)) \/ Call(sys_faccessat(k, d, buf))
                    \/ Call(sys_fstatat(k, d, buf))
                    \/ \E d2 \in DirFds : Call(sys_linkat(k, d, d2, buf)) \/ Call(sys_renameat(k, d, d2, buf))
              \/ Call(sys_lstat(k, buf))
              \/ Call(sys_chdir(k, buf))
  BY DEF PathCall
<1>b. BufferFits(buf.addr, buf.len) BY BufsFit
<1>3. \A dir : GoodResult(sys_pathat(k, dir, buf)) /\ GoodResult(sys_fstatat(k, dir, buf))
  BY <1>b, PathatOK DEF GoodResult
<1>4. \A d1, d2 : GoodResult(sys_linkat(k, d1, d2, buf)) BY <1>b, LinkatOK DEF GoodResult
<1>5. GoodResult(sys_chdir(k, buf)) BY <1>b, ChdirOK DEF GoodResult
<1>6. PICK t : Call(t) /\ GoodResult(t)
  <2>1. ASSUME NEW d \in DirFds,
               Call(sys_unlinkat(k, d, buf)) \/ Call(sys_mkdirat(k, d, buf)) \/ Call(sys_faccessat(k, d, buf))
        PROVE  \E t : Call(t) /\ GoodResult(t)
    BY <2>1, <1>3 DEF sys_unlinkat, sys_mkdirat, sys_faccessat
  <2>2. ASSUME NEW d \in DirFds, Call(sys_fstatat(k, d, buf)) PROVE \E t : Call(t) /\ GoodResult(t)
    BY <2>2, <1>3
  <2>3. ASSUME NEW d \in DirFds, NEW d2 \in DirFds,
               Call(sys_linkat(k, d, d2, buf)) \/ Call(sys_renameat(k, d, d2, buf))
        PROVE  \E t : Call(t) /\ GoodResult(t)
    BY <2>3, <1>4 DEF sys_renameat
  <2>4. CASE Call(sys_lstat(k, buf)) BY <2>4, <1>3 DEF sys_lstat
  <2>5. CASE Call(sys_chdir(k, buf)) BY <2>5, <1>5
  <2> QED BY <1>2, <2>1, <2>2, <2>3, <2>4, <2>5
<1> QED BY <1>1, <1>6, AnyCall DEF GoodResult

\* StoreCall keeps the invariant.
LEMMA StoreStep ==
    ASSUME KernelInv, StoreCall
    PROVE  KernelInv'
<1>1. MayCall BY DEF StoreCall
<1>2. PICK buf \in Bufs :
              \/ Call(sys_getcwd(k, buf)) \/ Call(sys_uname(k, buf))
              \/ Call(sys_rt_sigaction(k, buf)) \/ Call(sys_times(k, buf))
  BY DEF StoreCall
<1>b. BufferFits(buf.addr, buf.len) BY BufsFit
<1>3. \A x : GoodResult(Store(k, buf.addr, buf.len, x)) BY <1>b, StoreOK DEF GoodResult
<1>4. \E x : sys_getcwd(k, buf) = Store(k, buf.addr, buf.len, x) BY FileReadIs DEF sys_getcwd
<1>5. PICK t : Call(t) /\ GoodResult(t)
  BY <1>2, <1>3, <1>4 DEF sys_uname, sys_rt_sigaction, sys_times
<1> QED BY <1>1, <1>5, AnyCall DEF GoodResult

----------------------------------------------------------------------------
\* Every step of the user and of the kernel.
LEMMA KernelStep ==
    ASSUME KernelInv, [Next]_vars
    PROVE  KernelInv'
<1>1. CASE Boot BY <1>1, BootStep
<1>2. CASE Access BY <1>2, AccessStep
<1>3. CASE Fault BY <1>3, FaultStep
<1>4. CASE Fatal BY <1>4, FatalStep
<1>5. CASE Mmap BY <1>5, MmapStep
<1>6. CASE Munmap \/ Mprotect BY <1>6, AreaStep
<1>7. CASE Brk BY <1>7, BrkStep
<1>8. CASE Open BY <1>8, OpenStep
<1>9. CASE Close BY <1>9, CloseStep
<1>10. CASE DescriptorCall BY <1>10, DescriptorStep
<1>11. CASE BufferCall BY <1>11, BufferStep
<1>12. CASE PathCall BY <1>12, PathStep
<1>13. CASE StoreCall BY <1>13, StoreStep
<1>14. CASE sys_exit BY <1>14 DEF sys_exit, MayCall, KernelInv
<1>15. CASE Stopped BY <1>15 DEF Stopped, vars, KernelInv
<1>16. CASE UNCHANGED vars BY <1>16 DEF vars, KernelInv
<1> QED BY <1>1, <1>2, <1>3, <1>4, <1>5, <1>6, <1>7, <1>8, <1>9, <1>10, <1>11, <1>12, <1>13, <1>14, <1>15,
           <1>16 DEF Next

\* The invariant holds in every state.
LEMMA KernelAlways == Spec => []KernelInv
<1>1. Init => KernelInv BY DEF Init, KernelInv
<1>2. KernelInv /\ [Next]_vars => KernelInv' BY KernelStep
<1> QED BY <1>1, <1>2, PTL DEF Spec

----------------------------------------------------------------------------
(* The invariant of the kernel gives the properties.                       *)

\* Before the boot, and after a panic, nothing is open and nothing is mapped.
LEMMA OffIs ==
    ASSUME NEW s, s = Off \/ s = Panic(Off)
    PROVE  /\ \A d \in Fds : s.fds[d] = None
           /\ \A v \in Vmrs : s.vmrs[v].refcnt = 0
           /\ \A p \in VPages : s.pte[p].vmr = 0
           /\ s.stale = {}
<1> DEFINE z == Panic(Off)
<1>1. z.fds = Off.fds /\ z.vmrs = Off.vmrs /\ z.pte = Off.pte /\ z.stale = Off.stale
  BY DEF Panic, Off
<1>2. /\ Off.fds = [d \in Fds |-> None]
      /\ Off.vmrs = [v \in Vmrs |-> [addr |-> 0, length |-> 0, file |-> None,
                                     offset |-> 0, refcnt |-> 0, prot |-> {}]]
      /\ Off.pte = [p \in VPages |-> ZeroPte]
      /\ Off.stale = {}
  BY DEF Off
<1> HIDE DEF z
<1>3. s.fds = Off.fds /\ s.vmrs = Off.vmrs /\ s.pte = Off.pte /\ s.stale = Off.stale BY <1>1 DEF z
<1> QED BY <1>2, <1>3 DEF ZeroPte

\* The kernel is off, or has panicked, or its invariant holds.
LEMMA PhaseIs ==
    ASSUME KernelInv
    PROVE  \/ k = Off \/ k = Panic(Off)
           \/ \E b \in Nat : b <= Max0 /\ J(k, Zeros, b, NoDue)
BY DEF KernelInv, Running

\* The invariant gives RefcntExact: nothing is due between two steps.
LEMMA RefcntExactIs ==
    ASSUME KernelInv
    PROVE  RefcntExact
<1> SUFFICES ASSUME NEW v \in Vmrs PROVE k.vmrs[v].refcnt = Waiting(k.pte, v) BY DEF RefcntExact, Waiting
<1>1. CASE k = Off \/ k = Panic(Off)
  <2> DEFINE A == {p \in VPages : k.pte[p].vmr = v}
  <2>1. (\A p \in VPages : k.pte[p].vmr = 0) /\ k.vmrs[v].refcnt = 0 BY <1>1, OffIs
  <2>2. v /= 0 BY Finite
  <2>3. A = {} BY <2>1, <2>2
  <2> HIDE DEF A
  <2>4. Cardinality(A) = 0 BY <2>3, FS_EmptySet
  <2> QED BY <2>1, <2>4 DEF A, Waiting
<1>2. CASE \E b \in Nat : b <= Max0 /\ J(k, Zeros, b, NoDue)
  <2>3. MapOK(k.pte, k.vmrs, NoDue) BY <1>2 DEF J, J0
  <2>4. k.vmrs[v].refcnt = Waiting(k.pte, v) + 0 BY <2>3 DEF MapOK, NoDue
  <2>5. Waiting(k.pte, v) \in Nat BY WaitingNat
  <2> QED BY <2>4, <2>5
<1> QED BY <1>1, <1>2, PhaseIs

\* The invariant gives FilesOpen: nothing is held between two steps.
LEMMA FilesOpenIs ==
    ASSUME KernelInv
    PROVE  FilesOpen
<1>1. CASE k = Off \/ k = Panic(Off)
  <2>1. (\A d \in Fds : k.fds[d] = None) /\ (\A v \in Vmrs : k.vmrs[v].refcnt = 0) BY <1>1, OffIs
  <2>2. ASSUME NEW f \in Files PROVE ~InUse(f)
    <3>1. f /= None BY Finite
    <3> QED BY <2>1, <3>1 DEF InUse
  <2> QED BY <2>2 DEF FilesOpen
<1>2. CASE \E b \in Nat : b <= Max0 /\ J(k, Zeros, b, NoDue)
  <2>1. FileOK(k.fds, k.files, k.host, k.vmrs, Zeros) BY <1>2 DEF J, J0
  <2>2. ASSUME NEW f \in Files, InUse(f)
        PROVE  /\ k.files[f].refcnt > FdUses(k.fds, f) + VmrUses(k.vmrs, f)
               /\ k.host[k.files[f].kfd] /= "free" /\ k.files[f].kfd = f
    <3>1. FdUses(k.fds, f) >= 1 \/ VmrUses(k.vmrs, f) >= 1
      <4>1. CASE \E d \in Fds : k.fds[d] = f BY <4>1, FdUsesIn
      <4>2. CASE \E v \in Vmrs : k.vmrs[v].refcnt > 0 /\ k.vmrs[v].file = f BY <4>2, VmrUsesIn DEF MapsFile
      <4> QED BY <4>1, <4>2, <2>2 DEF InUse
    <3>2. Need(k.fds, k.vmrs, Zeros, f) > 0 /\ k.files[f].refcnt > 0 BY <2>1, <3>1, NeedIn
    <3>3. k.files[f].refcnt > Need(k.fds, k.vmrs, Zeros, f) /\ k.files[f].kfd = f /\ k.host[f] /= "free"
      BY <2>1, <3>2 DEF FileOK
    <3>4. FdUses(k.fds, f) \in Nat /\ VmrUses(k.vmrs, f) \in Nat BY UsesNat
    <3>5. Need(k.fds, k.vmrs, Zeros, f) = FdUses(k.fds, f) + VmrUses(k.vmrs, f) BY <3>4 DEF Need, Zeros
    <3> QED BY <3>3, <3>5
  <2>3. ASSUME NEW f \in Files, InUse(f)
        PROVE  k.files[f].refcnt > Cardinality({d \in Fds : k.fds[d] = f})
                   + Cardinality({v \in Vmrs : k.vmrs[v].refcnt > 0 /\ k.vmrs[v].file = f})
    BY <2>2, <2>3 DEF FdUses, VmrUses, MapsFile
  <2> QED BY <2>2, <2>3 DEF FilesOpen
<1> QED BY <1>1, <1>2, PhaseIs

\* While the user runs, the kernel's invariant holds.
LEMMA UserIs ==
    ASSUME KernelInv, phase = "user"
    PROVE  \E b \in Nat : J(k, Zeros, b, NoDue)
BY DEF KernelInv, Running

\* The invariant gives KernelIntact.
LEMMA KernelIntactIs ==
    ASSUME KernelInv
    PROVE  KernelIntact
<1> SUFFICES ASSUME phase = "user" PROVE KernelIntact BY DEF KernelIntact
<1>1. KernelOK(k.pte, k.mmap_max) BY UserIs DEF J, J0
<1> QED BY <1>1 DEF KernelIntact, KernelOK, KernelRange, KernelPte

\* The invariant gives TlbFresh.
LEMMA TlbFreshIs ==
    ASSUME KernelInv
    PROVE  TlbFresh
<1> SUFFICES ASSUME phase = "user" PROVE TlbFresh BY DEF TlbFresh
<1>1. TlbOK(k.pte, k.tlb) BY UserIs DEF J
<1> QED BY <1>1 DEF TlbFresh, TlbOK

\* The invariant gives ContentRight.
LEMMA ContentRightIs ==
    ASSUME KernelInv
    PROVE  ContentRight
<1> SUFFICES ASSUME phase = "user" PROVE ContentRight BY DEF ContentRight
<1>2. PICK b \in Nat : J(k, Zeros, b, NoDue) BY UserIs
<1>3. ContentOK(k.pte, k.vmrs, k.files, k.host, k.disk, k.mem, k.want) /\ MapOK(k.pte, k.vmrs, NoDue) BY <1>2 DEF J, J0
<1>4. ASSUME NEW p \in VPages
      PROVE  /\ "U" \in k.pte[p].bits => \A j \in Units : k.mem[p][j] \in k.want[p].units[j]
             /\ k.pte[p].vmr /= 0 =>
                  LET v == k.vmrs[k.pte[p].vmr]
                      now == Content(k.disk, Source(k, p * PGSIZE, v.addr, v.length, v.file, v.offset))
                  IN  \A j \in Units : now[j] \in k.want[p].units[j]
  <2>1. "U" \in k.pte[p].bits => "V" \in k.pte[p].bits BY <1>3 DEF MapOK, PteFit
  <2>5. "U" \in k.pte[p].bits => \A j \in Units : k.mem[p][j] \in k.want[p].units[j]
    BY <2>1, <1>3 DEF ContentOK, Shows
  <2> DEFINE e == k.vmrs[k.pte[p].vmr]
             from == Source(k, p * PGSIZE, e.addr, e.length, e.file, e.offset)
  <2>2. from = Promise(p, e, k.files, k.host) BY SourceIs DEF Promise
  <2>3. k.pte[p].vmr /= 0 => Awaits(k.disk, k.want[p], Promise(p, e, k.files, k.host)) BY <1>3 DEF ContentOK
  <2>4. k.pte[p].vmr /= 0 => \A j \in Units : Content(k.disk, from)[j] \in k.want[p].units[j]
    <3> HIDE DEF from, e
    <3> QED BY <2>2, <2>3 DEF Awaits
  <2> QED BY <2>4, <2>5
<1> QED BY <1>4 DEF ContentRight

\* The invariant gives HostSeesUser.
LEMMA HostSeesUserIs ==
    ASSUME KernelInv
    PROVE  HostSeesUser
<1>1. "seen" \notin k.stale BY PhaseIs, OffIs DEF J, J0
<1> QED BY <1>1 DEF HostSeesUser

----------------------------------------------------------------------------
(* The theorems.                                                           *)

\* The count of a region is the number of pages that wait for it (mmap.c 80-87,
\* 203, 232, 257).
THEOREM RegionCounts == Spec => []RefcntExact
<1>1. KernelInv => RefcntExact BY RefcntExactIs
<1> QED BY <1>1, KernelAlways, PTL

\* A file that a descriptor or a region uses stays open under it, and its host
\* descriptor is its own (file.c 23-33 and 107-118, mmap.c 80-87).
THEOREM FilesStayOpen == Spec => []FilesOpen
<1>1. KernelInv => FilesOpen BY FilesOpenIs
<1> QED BY <1>1, KernelAlways, PTL

\* No mapping call gives the user a translation of the kernel's memory or takes one
\* from the kernel (mmap.c 170-175, 395-405), until a call that stores is given a
\* buffer in the kernel's memory, which no handler refuses.
THEOREM KernelStaysIntact == Spec => []KernelIntact
<1>1. KernelInv => KernelIntact BY KernelIntactIs
<1> QED BY <1>1, KernelAlways, PTL

\* Demand paging is only observed through a host file that is changed between the
\* mapping and the first access (mmap.c 177-213, 239-283): a page shows what the
\* file held at some time between the two.
THEOREM PagesRight == Spec => []ContentRight
<1>1. KernelInv => ContentRight BY ContentRightIs
<1> QED BY <1>1, KernelAlways, PTL

\* The hart never uses a translation that the page table no longer holds
\* (flush_tlb in mmap.c 192, 211, 236, 391).
THEOREM TlbStaysFresh == Spec => []TlbFresh
<1>1. KernelInv => TlbFresh BY TlbFreshIs
<1> QED BY <1>1, KernelAlways, PTL

\* The host is never handed a page that lacks the user's data (mmap.c 407-417), but by
\* chdir for a page of the path that nobody has touched (syscall.c 405-408).
THEOREM HostSeesRight == Spec => []HostSeesUser
<1>1. KernelInv => HostSeesUser BY HostSeesUserIs
<1> QED BY <1>1, KernelAlways, PTL
=============================================================================
