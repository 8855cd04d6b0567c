------------------------------- MODULE PkFile -------------------------------
(***************************************************************************)
(* The proxy kernel's file table, riscv-pk/pk/file.c.                      *)
(*                                                                         *)
(* boot_other_hart (pk.c 175-180) stalls every hart but hart 0, so the     *)
(* proxy kernel is sequential.  Its whole state is one record s and each C *)
(* function is an operator from s to s, or to [k |-> s, r |-> result] when *)
(* its result matters.  Fields used here:                                  *)
(*   fds    descriptor -> file, None when free                             *)
(*   files  file -> [kfd, refcnt]; refcnt 0 is a free entry, an entry in   *)
(*          use counts one more than its references                        *)
(*   host   what each host descriptor is open on, "free" when closed       *)
(*   panic  the kernel has panicked; nothing runs after that               *)
(***************************************************************************)
EXTENDS Integers, Sequences, FiniteSets, SequencesExt

CONSTANTS MAX_FILES, MAX_FDS,
          FileSize      \* host files: name -> size

ASSUME FileAssumption ==
    /\ MAX_FILES \in Nat /\ MAX_FILES >= 3
    /\ MAX_FDS \in Nat /\ MAX_FDS >= 3
    /\ FileSize \in [DOMAIN FileSize -> Nat]
    /\ {"free", "std"} \cap DOMAIN FileSize = {}

None == -1
Files == 0 .. MAX_FILES - 1
Fds == 0 .. MAX_FDS - 1
Names == DOMAIN FileSize
FirstOf(S) == CHOOSE x \in S : \A y \in S : x <= y

Panic(s) == [s EXCEPT !.panic = TRUE]
kassert(c, s) == IF c THEN s ELSE Panic(s)
Expect(m, S) == kassert(m.r \in S, m.k)       \* the call m returned one of S

\* The host: it opens its lowest free descriptor, and closing a descriptor
\* that is not open does nothing.
HostOpen(s) == FirstOf({d \in Files : s.host[d] = "free"})
HostClose(s, d) ==
    IF d \in Files THEN [s EXCEPT !.host[d] = "free"] ELSE s

file_incref(s, f) ==
    kassert(s.files[f].refcnt > 0, [s EXCEPT !.files[f].refcnt = @ + 1])

\* Mutant: the last reference is counted as 3, one too early.
file_decref_Early(s, f) ==
    IF s.files[f].refcnt = 3
    THEN HostClose([s EXCEPT !.files[f].refcnt = 0], s.files[f].kfd)
    ELSE [s EXCEPT !.files[f].refcnt = @ - 1]

\* The kfd is read before the entry becomes free for others.
file_decref(s, f) ==
    IF s.files[f].refcnt = 2
    THEN HostClose([s EXCEPT !.files[f].refcnt = 0], s.files[f].kfd)
    ELSE [s EXCEPT !.files[f].refcnt = @ - 1]

file_get_free(s) ==
    LET free == {f \in Files : s.files[f].refcnt = 0} IN
    IF free = {} THEN [k |-> s, r |-> None]
    ELSE [k |-> [s EXCEPT !.files[FirstOf(free)].refcnt = 2], r |-> FirstOf(free)]

file_dup(s, f) ==
    LET free == {d \in Fds : s.fds[d] = None} IN
    IF free = {} THEN [k |-> s, r |-> -1]
    ELSE [k |-> file_incref([s EXCEPT !.fds[FirstOf(free)] = f], f), r |-> FirstOf(free)]

\* stdin, stdout and stderr are the host's descriptors 0 to 2.
file_init(s) ==
    LET std(t, i) == LET g == file_get_free(t)
                     IN  file_dup([g.k EXCEPT !.files[g.r].kfd = i, !.host[i] = "std"], g.r).k
    IN  FoldLeft(std, s, <<0, 1, 2>>)

\* r is the file, with a reference taken, None for a bad descriptor.
file_get(s, fd) ==
    IF \/ fd \notin Fds
       \/ s.fds[fd] = None
       \/ s.files[s.fds[fd]].refcnt = 0
    THEN [k |-> s, r |-> None]
    ELSE [k |-> [s EXCEPT !.files[s.fds[fd]].refcnt = @ + 1], r |-> s.fds[fd]]

\* The host refuses a name it does not know; the entry still holds the kfd its
\* last user left, and file_decref closes that.
file_openat(s, name) ==
    LET opened(g, d) == [g EXCEPT !.k.files[g.r].kfd = d, !.k.host[d] = name]
        open(g) == IF g.r = None THEN g
                   ELSE IF name \notin Names THEN [k |-> file_decref(g.k, g.r), r |-> None]
                   ELSE opened(g, HostOpen(g.k))
    IN  open(file_get_free(s))

file_open(s, name) == file_openat(s, name)

fd_close(s, fd) ==
    LET close(g) ==
            IF g.r = None THEN [k |-> s, r |-> -1]
            ELSE [k |-> file_decref(file_decref([g.k EXCEPT !.fds[fd] = None], g.r), g.r), r |-> 0]
    IN  close(file_get(s, fd))
=============================================================================
