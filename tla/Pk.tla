--------------------------------- MODULE Pk ---------------------------------
(***************************************************************************)
(* The proxy kernel of riscv-pk/pk and the user process it runs: the boot  *)
(* (pk.c), the ELF loader (elf.c), the trap handlers (handlers.c) and the  *)
(* system calls (syscall.c), over the file table of PkFile and the virtual *)
(* memory of PkMmap.                                                       *)
(*                                                                         *)
(* A boot step stands for boot_loader up to start_user; after it, each     *)
(* memory access and each trap of the user is one action.  Host calls      *)
(* (frontend_syscall) are synchronous and are modelled by their effect.    *)
(***************************************************************************)
EXTENDS PkMmap

CONSTANTS
    Elfs,         \* programs: set of [name, dyn, segs]
    Options,      \* sets of option letters pk may be started with
    Maps,         \* arguments of mmap: set of [addr, len, prot, flags, off]
    Areas,        \* arguments of munmap and mprotect: set of [addr, len]
    Prots,        \* protections mprotect is called with
    Breaks,       \* arguments of brk
    Bufs,         \* user buffers: set of [addr, len]
    Touched,      \* pages the user loads, stores and fetches from
    Offsets,      \* where in its file the host writes, and lengths of ftruncate
    MaxCalls      \* bound: system calls the user makes

\* What the program passes are machine words, and so are the segments of its file;
\* a buffer ends inside the address space.
ASSUME CallAssumption ==
    LET Reg == 0 .. Word - 1 IN
    /\ Maps \subseteq [addr : Reg, len : Reg, prot : SUBSET RWX,
                       flags : SUBSET {"FIXED", "POPULATE", "PRIVATE", "ANONYMOUS"}, off : Nat]
    /\ Areas \subseteq [addr : Reg, len : Reg]
    /\ Bufs \subseteq [addr : Reg, len : Reg] /\ \A b \in Bufs : b.addr + b.len < Word
    /\ Breaks \subseteq Reg /\ Offsets \subseteq Nat
    /\ Prots \subseteq SUBSET RWX
    /\ Touched \subseteq VPages
    /\ \A elf \in Elfs : elf.segs \in Seq([vaddr : Reg, memsz : Reg, filesz : Reg,
                                            offset : Nat, prot : SUBSET RWX])

VARIABLES
    k,       \* the kernel state, see PkFile and PkMmap
    phase,   \* "boot", "user", "exit", "panic" or "lost"
    calls    \* system calls made so far

vars == <<k, phase, calls>>

Off ==
    [fds |-> [d \in Fds |-> None],
     files |-> [f \in Files |-> [kfd |-> -1, refcnt |-> 0]],
     host |-> [d \in Files |-> "free"],
     pte |-> [p \in VPages |-> ZeroPte],
     tabs |-> {},
     vmrs |-> [v \in Vmrs |-> [addr |-> 0, length |-> 0, file |-> None,
                               offset |-> 0, refcnt |-> 0, prot |-> {}]],
     vmrs0 |-> FALSE,
     next |-> 0,
     used |-> [i \in 0 .. FreePages - 1 |-> 0],
     brk |-> 0, brk_min |-> 0, brk_max |-> 0, mmap_max |-> 0,
     demand |-> TRUE,
     mem |-> [p \in VPages |-> [j \in Units |-> Unwritten]],
     tlb |-> [p \in VPages |-> {}],
     disk |-> [n \in Names |-> [size |-> FileSize[n],
                                unit |-> [o \in 0 .. FileSize[n] - 1 |-> FileUnit(n, o)]]],
     want |-> [p \in VPages |-> [from |-> [name |-> "free", off |-> 0, len |-> 0],
                                 units |-> [j \in Units |-> {Unwritten}]]],
     stale |-> {},
     lost |-> FALSE,
     panic |-> FALSE]

----------------------------------------------------------------------------
(* Accesses.  The hart uses the cached translation if there is one.  A     *)
(* load needs R and A, a store W and D, a fetch X and A; the user also     *)
(* needs U, which the kernel (SSTATUS_SUM is set) does not.                *)

Needs(t) == CASE t = "R" -> {"R", "A"} [] t = "W" -> {"W", "D"} [] t = "X" -> {"X", "A"}
Bits(s, p) == IF s.tlb[p] /= {} THEN s.tlb[p]
              ELSE IF Valid(s, p) THEN s.pte[p].bits ELSE {}
Allowed(s, p, t, user) ==
    Needs(t) \cup (IF user THEN {"U"} ELSE {}) \subseteq Bits(s, p)
Cache(s, p) == [s EXCEPT !.tlb[p] = Bits(s, p)]

\* handle_fault_fetch, _load and _store: a refused fault is a segfault, a panic.
handle_fault(s, a, t) == Expect(handle_page_fault(s, a, {t}), {0})

\* A kernel access to the page of a: the trap is taken in the kernel itself.
Touch(s, a, t) ==
    LET use(h) == IF h.panic THEN h ELSE Cache(h, PageOf(a))
    IN  use(IF Allowed(s, PageOf(a), t, FALSE) THEN s ELSE handle_fault(s, a, t))

\* Mutant: the walk starts at the buffer, not at its page.
populate_mapping_NoRound(s, start, size, t) ==
    FoldLeft(LAMBDA u, a : IF u.panic THEN u ELSE Touch(u, a, t), s, Steps(start, size))

populate_mapping(s, start, size, t) ==
    LET a0 == PageOf(start) * PGSIZE
    IN  FoldLeft(LAMBDA u, a : IF u.panic THEN u ELSE Touch(u, a, t), s,
                 Steps(a0, size + start - a0))

\* The kernel stores x at [a, a + n).  No handler tests that a buffer is the user's,
\* and the kernel's memory is mapped at its own addresses: a store there may hit
\* anything, the page table included, and after it nothing is known (see Becomes).
InRange(p, j, a, n) == p * PGSIZE + j \in a .. a + n - 1
Write(s, a, n, x) ==
    LET put(page, p, y) == [j \in Units |-> IF InRange(p, j, a, n) THEN y ELSE page[j]]
    IN  IF s.panic THEN s
        ELSE [s EXCEPT !.mem = [p \in VPages |-> put(s.mem[p], p, x)],
                       !.want = [p \in VPages |-> [s.want[p] EXCEPT !.units = put(s.want[p].units, p, {x})]],
                       !.lost = @ \/ \E u \in a .. a + n - 1 : PageOf(u) >= DRAM_BASE]
Store(s, a, n, x) == Write(populate_mapping(s, a, n, "W"), a, n, x)

\* The host stores to, or reads, the physical memory behind [a, a + n); walked when
\* the call has touched the buffer before.
HostStore(s, a, n) == Write(s, a, n, Stored)
Differs(s, u) == s.mem[PageOf(u)][u % PGSIZE] \notin s.want[PageOf(u)].units[u % PGSIZE]
HostLoad(s, a, n, walked) ==
    IF s.panic THEN s
    ELSE [s EXCEPT !.stale = @ \cup {IF walked \/ Valid(s, PageOf(u)) THEN "seen" ELSE "unseen" :
                                        u \in {w \in a .. a + n - 1 : Differs(s, w)}}]

\* A host file becomes [size, unit].  Pages that it was mapped to and that are not
\* there yet may show the new content too.
HostChanges(s, name, file) ==
    LET disk == [s.disk EXCEPT ![name] = file]
        late(p) == s.want[p].from.name = name /\ ~Valid(s, p)
        more(p) == [j \in Units |-> s.want[p].units[j] \cup {Content(disk, s.want[p].from)[j]}]
    IN  [s EXCEPT !.disk = disk,
                  !.want = [p \in VPages |-> IF late(p) THEN [s.want[p] EXCEPT !.units = more(p)]
                                             ELSE s.want[p]]]

\* What f is open on becomes file(its content); the console is no file.
HostUpdate(s, f, file(_)) ==
    LET kfd == s.files[f].kfd
    IN  IF s.panic \/ kfd \notin Files \/ s.host[kfd] \notin Names THEN s
        ELSE HostChanges(s, s.host[kfd], file(s.disk[s.host[kfd]]))

\* A file of len units, and one with [a, a + n) of memory written at pos.
Resized(d, len) ==
    [size |-> len, unit |-> [o \in 0 .. len - 1 |-> IF o < d.size THEN d.unit[o] ELSE Zero]]
Overwritten(s, d, pos, a, n) ==
    LET e == Resized(d, IF n = 0 \/ d.size > pos + n THEN d.size ELSE pos + n)
        byte(o) == s.mem[PageOf(a + o - pos)][(a + o - pos) % PGSIZE]
    IN  [e EXCEPT !.unit = [o \in DOMAIN @ |-> IF o \in pos .. pos + n - 1 THEN byte(o) ELSE @[o]]]

----------------------------------------------------------------------------
(* Loading the program.                                                    *)

\* One PT_LOAD segment with p_memsz > 0.
LoadSegment(s, f, seg, bias) ==
    LET prepad == seg.vaddr % PGSIZE
        vaddr == seg.vaddr + bias
        start == vaddr - prepad
        fixed == {"FIXED", "PRIVATE"}
        flags2 == IF prepad /= 0 THEN fixed \cup {"POPULATE"} ELSE fixed
        mapped == ROUNDUP(seg.filesz + prepad) - prepad
        grow(t) == IF vaddr + seg.memsz > t.brk_min
                   THEN [t EXCEPT !.brk_min = vaddr + seg.memsz] ELSE t
        text(t) == __do_mmap(t, start, seg.filesz + prepad, seg.prot \cup {"W"}, flags2,
                             f, seg.offset - prepad)
        pad(t) == IF prepad = 0 THEN t ELSE Store(t, start, prepad, Zero)
        protect(t) == IF "W" \in seg.prot THEN t
                      ELSE Expect(do_mprotect(t, start, seg.filesz + prepad, seg.prot), {0})
        bss(t) == IF seg.memsz <= mapped THEN t
                  ELSE Expect(__do_mmap(t, vaddr + mapped, seg.memsz - mapped, seg.prot,
                                        fixed \cup {"ANONYMOUS"}, None, 0), {vaddr + mapped})
        rest(m) == IF m.r = None \/ m.k.panic THEN Panic(m.k) ELSE bss(protect(pad(m.k)))
    IN  IF s.panic THEN s ELSE rest(text(grow(s)))

\* Segments are loaded from the last to the first; failing to open panics.
load_elf(s, elf) ==
    LET bias == IF elf.dyn THEN PGSIZE ELSE 0
        close(t, f) == IF t.panic THEN t ELSE file_decref(t, f)
        load(o) == IF o.r = None THEN Panic(o.k)
                   ELSE close(FoldLeft(LAMBDA t, seg : LoadSegment(t, o.r, seg, bias), o.k,
                                       Reverse(elf.segs)), o.r)
    IN  load(file_open(s, elf.name))

\* The arguments, environment and auxiliary vector go on top of the stack.
run_loaded_program(s) == IF s.panic THEN s ELSE Store(s, s.mmap_max - 1, 1, Stored)

handle_option(s, opts) == [s EXCEPT !.demand = "p" \notin opts]

rest_of_boot_loader(s, elf, opts) == run_loaded_program(load_elf(handle_option(s, opts), elf))

boot_loader(elf, opts) == rest_of_boot_loader(pk_vm_init(file_init(Off)), elf, opts)

----------------------------------------------------------------------------
(* System calls.  b is a user buffer [addr, len]; a path is one too.       *)

\* The length of a path is strlen(path) + 1, which touches it to its end.
Path(s, b) == HostLoad(populate_mapping(s, b.addr, b.len, "R"), b.addr, b.len, TRUE)

\* The pattern of the calls on a descriptor: take a reference, call, drop it.
WithFile(s, fd, op(_, _)) ==
    LET drop(t, f) == IF t.panic THEN t ELSE file_decref(t, f)
        use(g) == IF g.r = None THEN s ELSE drop(op(g.k, g.r), g.r)
    IN  use(file_get(s, fd))
HostOnly(s, f) == s

file_read(s, f, b) == HostStore(populate_mapping(s, b.addr, b.len, "W"), b.addr, b.len)
\* Where a write goes is the host's file offset: any pos, see BufferCall.
file_write(s, f, b, pos) ==
    LET write(t) == HostUpdate(t, f, LAMBDA d : Overwritten(t, d, pos, b.addr, b.len))
    IN  write(Path(s, b))
file_truncate(s, f, len) == HostUpdate(s, f, LAMBDA d : Resized(d, len))
sys_read(s, fd, b) == WithFile(s, fd, LAMBDA t, f : file_read(t, f, b))
sys_pread(s, fd, b) == sys_read(s, fd, b)
sys_write(s, fd, b, pos) == WithFile(s, fd, LAMBDA t, f : file_write(t, f, b, pos))
sys_fstat(s, fd, b) == WithFile(s, fd, LAMBDA t, f : Store(t, b.addr, b.len, Stored))
sys_fcntl(s, fd) == WithFile(s, fd, HostOnly)
sys_ftruncate(s, fd, len) == WithFile(s, fd, LAMBDA t, f : file_truncate(t, f, len))
sys_lseek(s, fd) == WithFile(s, fd, HostOnly)
sys_dup(s, fd) == WithFile(s, fd, LAMBDA t, f : file_dup(t, f).k)
\* The vector itself is read too; a bad descriptor ends the loop.
sys_writev(s, fd, b, pos) == LET write(t) == IF t.panic THEN t ELSE sys_write(t, fd, b, pos)
                             IN  write(populate_mapping(s, b.addr, b.len, "R"))

\* A directory's reference is taken and never dropped; dirfd None is AT_FDCWD.
at_kfd(s, dirfd) == IF dirfd = None THEN [k |-> s, r |-> 0] ELSE file_get(s, dirfd)

\* A reference of the opener stays with the file when the call succeeds.  The host
\* empties the file when the flags ask for it.
sys_openat(s, dirfd, b, name, trunc) ==
    LET install(u, f) == IF u.r < 0 THEN file_decref(u.k, f) ELSE u.k
        cut(t, f) == IF trunc THEN file_truncate(t, f, 0) ELSE t
        opened(o) == IF o.r = None THEN o.k ELSE install(file_dup(cut(o.k, o.r), o.r), o.r)
        open(t) == IF t.panic THEN t ELSE opened(file_openat(t, name))
        from(d) == IF d.r = None THEN s ELSE open(Path(d.k, b))
    IN  from(at_kfd(s, dirfd))

sys_close(s, fd) == fd_close(s, fd).k

\* unlinkat, mkdirat and faccessat pass a path to the host; fstatat gets a
\* stat back; linkat and renameat take two directories and two paths.
sys_pathat(s, dirfd, b) ==
    LET use(d) == IF d.r = None THEN s ELSE Path(d.k, b) IN use(at_kfd(s, dirfd))
sys_unlinkat(s, dirfd, b) == sys_pathat(s, dirfd, b)
sys_mkdirat(s, dirfd, b) == sys_pathat(s, dirfd, b)
sys_faccessat(s, dirfd, b) == sys_pathat(s, dirfd, b)
sys_fstatat(s, dirfd, b) ==
    LET stat(t) == IF t.panic THEN t ELSE Store(t, b.addr, b.len, Stored)
        use(d) == IF d.r = None THEN s ELSE stat(Path(d.k, b))
    IN  use(at_kfd(s, dirfd))
sys_linkat(s, dirfd1, dirfd2, b) ==
    LET to(d1, d2) == IF d1.r = None \/ d2.r = None THEN d2.k ELSE Path(d2.k, b)
        from(d1) == to(d1, at_kfd(d1.k, dirfd2))
    IN  from(at_kfd(s, dirfd1))
sys_renameat(s, dirfd1, dirfd2, b) == sys_linkat(s, dirfd1, dirfd2, b)
sys_lstat(s, b) == sys_fstatat(s, None, b)

\* chdir alone does not touch the path before the host reads it (syscall.c 405-408).
sys_chdir(s, b) == HostLoad(s, b.addr, b.len, FALSE)
sys_getcwd(s, b) == file_read(s, None, b)
\* uname, sigaction, time, times, gettimeofday and clock_gettime store a result.
sys_uname(s, b) == Store(s, b.addr, b.len, Stored)
sys_rt_sigaction(s, b) == Store(s, b.addr, b.len, Zero)
sys_times(s, b) == Store(s, b.addr, b.len, Stored)

----------------------------------------------------------------------------
Init == k = Off /\ phase = "boot" /\ calls = 0

\* The kernel returns to the user, has panicked, or has stored over itself.
Becomes(s) ==
    /\ k' = IF s.panic \/ s.lost THEN Panic(Off) ELSE s
    /\ phase' = IF s.lost THEN "lost" ELSE IF s.panic THEN "panic" ELSE "user"

MayCall == phase = "user" /\ calls < MaxCalls
Call(s) == Becomes(s) /\ calls' = calls + 1

Boot ==
    /\ phase = "boot"
    /\ \E elf \in Elfs, opts \in Options : Becomes(boot_loader(elf, opts))
    /\ UNCHANGED calls

\* A load, store or fetch that the translation allows.
Access ==
    /\ phase = "user"
    /\ \E p \in Touched, t \in RWX :
          /\ Allowed(k, p, t, TRUE)
          /\ k' = LET c == Cache(k, p)
                  IN  IF t = "W" THEN [c EXCEPT !.mem[p][0] = Stored, !.want[p].units[0] = {Stored}]
                      ELSE c
    /\ UNCHANGED <<phase, calls>>

\* One that it does not: handle_trap.
Fault ==
    /\ phase = "user"
    /\ \E p \in Touched, t \in RWX :
          ~Allowed(k, p, t, TRUE) /\ Becomes(handle_fault(k, p * PGSIZE, t))
    /\ UNCHANGED calls

\* A trap no handler survives: a misaligned or inaccessible access, an illegal
\* instruction, a system call that is not in the table.
Fatal == phase = "user" /\ Becomes(Panic(k)) /\ UNCHANGED calls

DirFds == {None, 3}

\* Bound: for a mapping longer than the user's memory whose address the kernel
\* chooses there is a hole above the kernel.  Without one the search of mmap.c 145
\* runs past the address space that the page table translates.
Choosable(m) == \/ "FIXED" \in m.flags
                \/ m.len <= k.mmap_max
                \/ __vm_alloc(k, NPage(m.len)) /= 0
Mmap == MayCall /\ \E m \in Maps, fd \in {None} \cup Fds :
           /\ (fd = None) <=> "ANONYMOUS" \in m.flags
           /\ Choosable(m)
           /\ Call(do_mmap(k, m.addr, m.len, m.prot, m.flags, fd, m.off).k)
Munmap == MayCall /\ \E m \in Areas : Call(do_munmap(k, m.addr, m.len))
Mprotect == MayCall /\ \E m \in Areas, prot \in Prots : Call(do_mprotect(k, m.addr, m.len, prot).k)
Brk == MayCall /\ \E a \in Breaks : Call(do_brk(k, a))
Open == MayCall /\ \E b \in Bufs, dirfd \in DirFds, name \in Names \cup {"none"}, trunc \in BOOLEAN :
           Call(sys_openat(k, dirfd, b, name, trunc))
Close == MayCall /\ \E fd \in Fds : Call(sys_close(k, fd))
DescriptorCall ==
    MayCall /\ \E fd \in Fds :
       \/ Call(sys_dup(k, fd))
       \/ Call(sys_lseek(k, fd))
       \/ Call(sys_fcntl(k, fd))
       \/ \E len \in Offsets : Call(sys_ftruncate(k, fd, len))
BufferCall ==
    MayCall /\ \E fd \in {0, 3}, b \in Bufs :
       \/ Call(sys_read(k, fd, b))
       \/ Call(sys_pread(k, fd, b))
       \/ \E pos \in Offsets : Call(sys_write(k, fd, b, pos)) \/ Call(sys_writev(k, fd, b, pos))
       \/ Call(sys_fstat(k, fd, b))
PathCall ==
    MayCall /\ \E b \in Bufs :
       \/ \E d \in DirFds :
             \/ Call(sys_unlinkat(k, d, b))
             \/ Call(sys_mkdirat(k, d, b))
             \/ Call(sys_faccessat(k, d, b))
             \/ Call(sys_fstatat(k, d, b))
             \/ \E d2 \in DirFds : Call(sys_linkat(k, d, d2, b)) \/ Call(sys_renameat(k, d, d2, b))
       \/ Call(sys_lstat(k, b))
       \/ Call(sys_chdir(k, b))
StoreCall ==
    MayCall /\ \E b \in Bufs :
       \/ Call(sys_getcwd(k, b))
       \/ Call(sys_uname(k, b))
       \/ Call(sys_rt_sigaction(k, b))
       \/ Call(sys_times(k, b))
sys_exit == MayCall /\ phase' = "exit" /\ UNCHANGED <<k, calls>>
Stopped == phase \in {"exit", "panic", "lost"} /\ UNCHANGED vars

Next ==
    \/ Boot \/ Access \/ Fault \/ Fatal
    \/ Mmap \/ Munmap \/ Mprotect \/ Brk
    \/ Open \/ Close \/ DescriptorCall \/ BufferCall \/ PathCall \/ StoreCall
    \/ sys_exit \/ Stopped

Spec == Init /\ [][Next]_vars

----------------------------------------------------------------------------
(* Properties.                                                             *)

\* A region counts exactly the pages that still wait for their first access
\* (mmap.c 80-87, 203, 232, 257), so its entry is never reused under them.
RefcntExact ==
    \A v \in Vmrs : k.vmrs[v].refcnt = Cardinality({p \in VPages : k.pte[p].vmr = v})

\* A file that a descriptor or a region still uses is open: its count is above
\* its uses, its host descriptor is open and is nobody else's (file.c 23-33 and
\* 107-118, mmap.c 80-87); a failed open closes a stale kfd and must not hit it.
InUse(f) == \/ \E d \in Fds : k.fds[d] = f
            \/ \E v \in Vmrs : k.vmrs[v].refcnt > 0 /\ k.vmrs[v].file = f
FilesOpen ==
    \A f \in Files : InUse(f) =>
        /\ k.files[f].refcnt > Cardinality({d \in Fds : k.fds[d] = f})
                             + Cardinality({v \in Vmrs : k.vmrs[v].refcnt > 0 /\ k.vmrs[v].file = f})
        /\ k.host[k.files[f].kfd] /= "free"
        /\ \A g \in Files : InUse(g) /\ k.files[g].kfd = k.files[f].kfd => g = f

\* The user never gets a translation at or above mmap_max, whatever addresses it
\* passes to the mapping calls, and the kernel's identity map stays (mmap.c 170-175,
\* 395-405).  This holds until a call that stores is given a buffer in the kernel's
\* memory: no handler tests that, the kernel then stores over itself, and the model
\* ends in the phase "lost".
KernelIntact ==
    phase = "user" => \A p \in VPages :
        /\ "U" \in k.pte[p].bits => p * PGSIZE < k.mmap_max
        /\ p \in DRAM_BASE .. DRAM_BASE + KernelPages + FreePages - 1 =>
              k.pte[p] = pte_create(prot_to_type(RWX, FALSE))

\* A page that is there shows what storing to it made of it or, where nothing was
\* stored, what the file it was mapped to held at some time between the mapping and
\* the first access; a page that is not there yet will, as its region and the host's
\* file now are (mmap.c 177-213, 239-283).  So demand paging is only observed through
\* a host file that is changed under a page that waits; a page whose part of the
\* file is cut off is never there: its first access panics (mmap.c 196-197).
ContentRight ==
    phase = "user" => \A p \in VPages :
        /\ "U" \in k.pte[p].bits => \A j \in Units : k.mem[p][j] \in k.want[p].units[j]
        /\ k.pte[p].vmr /= 0 =>
             LET v == k.vmrs[k.pte[p].vmr]
                 now == Content(k.disk, Source(k, p * PGSIZE, v.addr, v.length, v.file, v.offset))
             IN  \A j \in Units : now[j] \in k.want[p].units[j]

\* The hart never uses a translation that the page table no longer holds
\* (flush_tlb in mmap.c 192, 211, 236, 391).
TlbFresh ==
    phase = "user" => \A p \in VPages : k.tlb[p] /= {} => k.tlb[p] = k.pte[p].bits

\* The host, which works on physical memory, is never handed a buffer or a path with
\* a page that does not hold the user's data (populate_mapping, mmap.c 407-417), but
\* by chdir for a page of the path that nobody has touched (syscall.c 405-408).
HostSeesUser == "seen" \notin k.stale

\* The kernel's page pool gives each page to one owner (mmap.c 32-48).
PageOwnedOnce == \A i \in DOMAIN k.used : k.used[i] <= 1
=============================================================================
