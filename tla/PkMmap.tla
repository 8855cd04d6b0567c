------------------------------- MODULE PkMmap -------------------------------
(***************************************************************************)
(* The proxy kernel's virtual memory, riscv-pk/pk/mmap.c: demand paging of *)
(* the one user process.  Fields of the kernel state s used here:          *)
(*   pte    virtual page -> zero, a vmr (PTE_V clear) or a translation     *)
(*   tabs   page tables that exist; one level stands for the walk's three  *)
(*   vmrs   the vmr table, vmrs0 whether its pages have been allocated     *)
(*   next   next_free_page, used: how often a page of the pool was handed  *)
(*          out                                                            *)
(*   brk, brk_min, brk_max, mmap_max, demand   as in the source            *)
(*   mem    content of the physical page of each user page (the physical   *)
(*          page is a function of the virtual one, mmap.c 188)             *)
(*   tlb    translations the hart has cached                               *)
(*   disk   the host's files: name -> [size, unit], which the host's calls *)
(*          change                                                         *)
(* and, as history that no code reads,                                     *)
(*   want   page -> the part of a host file last mapped there, and for     *)
(*          each unit the values it may show                               *)
(*   stale  the host was given memory that does not show what the user     *)
(*          sees there: "seen" after the call or the user touched the      *)
(*          page, "unseen" before                                          *)
(*   lost   the kernel's own memory has been stored to                     *)
(* Addresses count units, PGSIZE to a page, modulo the address space.      *)
(***************************************************************************)
EXTENDS PkFile

CONSTANTS PGSIZE,       \* units in a page
          VaPages,      \* pages of the address space
          TableSpan,    \* pages that one page table maps
          DRAM_BASE,    \* first page of the kernel's identity map
          KernelPages,  \* pages of the kernel's image, up to _end
          FreePages,    \* free_pages
          MemPages,     \* mem_size in pages
          StackPages,   \* pages of the user's stack
          VmrPages,     \* pages __page_alloc1 takes (100 in the source)
          MAX_VMR

ASSUME MmapAssumption ==
    /\ {PGSIZE, TableSpan, VmrPages, MAX_VMR, FreePages, DRAM_BASE} \subseteq Nat \ {0}
    /\ {VaPages, KernelPages, MemPages, StackPages} \subseteq Nat
    /\ DRAM_BASE + KernelPages + FreePages <= VaPages
    /\ StackPages <= DRAM_BASE
    /\ StackPages < MemPages - (KernelPages + FreePages)

Word == VaPages * PGSIZE
VPages == 0 .. VaPages - 1
Units == 0 .. PGSIZE - 1
Vmrs == 1 .. MAX_VMR
Plus(a, b) == (a + b) % Word
Minus(a, b) == (a - b) % Word
ROUNDUP(a) == (Minus(a, 1) \div PGSIZE + 1) * PGSIZE % Word
PageOf(a) == a \div PGSIZE
Smaller(a, b) == IF a < b THEN a ELSE b
RWX == {"R", "W", "X"}

\* The addresses  for (a = addr; a < addr + len; a += PGSIZE)  visits.
Steps(addr, len) ==
    [j \in 1 .. (Plus(addr, len) - addr + PGSIZE - 1) \div PGSIZE |-> addr + (j - 1) * PGSIZE]

\* A unit of memory: a unit of a host file, zero, or what a program stored.
FileUnit(n, o) == [f |-> n, o |-> o]
Zero == [f |-> "zero", o |-> 0]
Stored == [f |-> "stored", o |-> 0]
Unwritten == [f |-> "unwritten", o |-> 0]

ZeroPte == [vmr |-> 0, bits |-> {}]
VmrPte(i) == [vmr |-> i, bits |-> {}]
pte_create(bits) == [vmr |-> 0, bits |-> bits \cup {"V"}]
Valid(s, p) == "V" \in s.pte[p].bits
flush_tlb(s) == [s EXCEPT !.tlb = [p \in VPages |-> {}]]

----------------------------------------------------------------------------
(* The pool of kernel pages.                                               *)

Handed(s, from, n) ==
    [s EXCEPT !.used = [i \in DOMAIN @ |-> @[i] + IF i \in from .. from + n - 1 THEN 1 ELSE 0]]

__page_alloc(s) ==
    kassert(s.next /= FreePages, Handed([s EXCEPT !.next = @ + 1], s.next, 1))

\* The offset of the vmrs in the pool is VmrPages times next_free_page.
__page_alloc1(s) ==
    kassert(s.next /= FreePages,
            Handed([s EXCEPT !.next = @ + VmrPages], VmrPages * s.next, VmrPages))

(* Virtual memory regions.  r is the region, 0 when the table is full.     *)
__vmr_alloc(s, addr, length, file, offset, refcnt, prot) ==
    LET entry == [addr |-> addr, length |-> length, file |-> file,
                  offset |-> offset, refcnt |-> refcnt, prot |-> prot]
        take(u, v) == [k |-> [(IF file = None THEN u ELSE file_incref(u, file))
                              EXCEPT !.vmrs[v] = entry], r |-> v]
        alloc(t, free) == IF free = {} THEN [k |-> t, r |-> 0] ELSE take(t, FirstOf(free))
        from(t) == alloc(t, {i \in Vmrs : t.vmrs[i].refcnt = 0})
    IN  from(IF s.vmrs0 THEN s ELSE [__page_alloc1(s) EXCEPT !.vmrs0 = TRUE])

__vmr_decref(s, v) ==
    LET drop(t, e) == IF e.refcnt = 0 /\ e.file /= None THEN file_decref(t, e.file) ELSE t
        dropped(t) == drop(t, t.vmrs[v])
    IN  dropped([s EXCEPT !.vmrs[v].refcnt = @ - 1])

\* A page whose table does not exist reads as a zero pte, so __walk is pte[p].
__walk_create(s, a) ==
    LET t == PageOf(a) \div TableSpan
    IN  IF t \in s.tabs THEN s ELSE [__page_alloc(s) EXCEPT !.tabs = @ \cup {t}]

__va_avail(s, a) == s.pte[PageOf(a)] = ZeroPte

NPage(length) == (length + PGSIZE - 1) \div PGSIZE

\* The lowest hole of npage pages at or above the break; 0 when there is none, or
\* when it is at 0.  It ends below mmap_max, but for more pages than fit there end
\* wraps around (mmap.c 144) and the search goes on above the kernel, here up to
\* the last page of the address space (see Choosable in Pk).
__vm_alloc(s, npage) ==
    LET top == IF npage * PGSIZE <= s.mmap_max THEN s.mmap_max ELSE Word - 1
        end == top - npage * PGSIZE
        fit == {a \in s.brk .. end :
                   /\ (a - s.brk) % PGSIZE = 0
                   /\ \A j \in 0 .. npage - 1 : __va_avail(s, a + j * PGSIZE)}
    IN  IF fit = {} THEN 0 ELSE FirstOf(fit)

\* PROT_NONE becomes PTE_R without PTE_A, which every access faults on.
prot_to_type(prot, user) ==
    LET acc == prot \cup (IF prot \cap {"R", "X"} /= {} THEN {"A"} ELSE {})
                    \cup (IF "W" \in prot THEN {"D"} ELSE {})
    IN  (IF acc = {} THEN {"R"} ELSE acc) \cup (IF user THEN {"U"} ELSE {})

\* Mutant: only the wrap-around is tested.
__valid_user_range_NoMax(s, a, len) == a + len < Word

__valid_user_range(s, a, len) == a + len < Word /\ a + len <= s.mmap_max

----------------------------------------------------------------------------
(* Page faults.                                                            *)

\* What pread of n units at off gives in a page: ret units, -1 on an error.
HostPread(s, f, n, off) ==
    LET name == s.host[s.files[f].kfd]
    IN  IF s.files[f].kfd \notin Files \/ name \notin Names THEN -1
        ELSE Smaller(n, IF off < s.disk[name].size THEN s.disk[name].size - off ELSE 0)

\* 193-202: the page is filled through a kernel mapping of itself; tail is what
\* a page that the file ends in holds after the file's end.
Fill(s, p, v, tail) ==
    LET at == p * PGSIZE - v.addr
        read(ret, off, name) ==
            kassert(ret > 0,
               [s EXCEPT !.mem[p] =
                  [j \in Units |-> IF j < ret THEN s.disk[name].unit[off + j] ELSE tail[j]]])
    IN  IF v.file = None THEN [s EXCEPT !.mem[p] = [j \in Units |-> Zero]]
        ELSE read(HostPread(s, v.file, Smaller(PGSIZE, v.length - at), at + v.offset),
                  at + v.offset, s.host[s.files[v.file].kfd])

\* Mutant: the tail of the page keeps its old content.
__fault_in_NoZero(s, p, v) == Fill(s, p, v, s.mem[p])

__fault_in(s, p, v) == Fill(s, p, v, [j \in Units |-> Zero])

\* r is 0 when the access may be retried.  The fill caches the kernel's
\* translation of the page; the last flush drops it.
__handle_page_fault(s, vaddr, prot) ==
    LET p == PageOf(vaddr)
        i == s.pte[p].vmr
        own == pte_create(prot_to_type({"R", "W"}, FALSE))
        filled(v) == [__vmr_decref(__fault_in(flush_tlb([s EXCEPT !.pte[p] = own]), p, v), i)
                      EXCEPT !.pte[p] = pte_create(prot_to_type(v.prot, TRUE)), !.tlb[p] = own.bits]
        check(t) == IF pte_create(prot_to_type(prot, TRUE)).bits \subseteq t.pte[p].bits
                    THEN [k |-> flush_tlb(t), r |-> 0] ELSE [k |-> t, r |-> -1]
    IN  IF s.pte[p] = ZeroPte \/ ~__valid_user_range(s, p * PGSIZE, 1) THEN [k |-> s, r |-> -1]
        ELSE check(IF i = 0 THEN s ELSE filled(s.vmrs[i]))

handle_page_fault(s, vaddr, prot) == __handle_page_fault(s, vaddr, prot)

----------------------------------------------------------------------------
(* Mapping and unmapping.                                                  *)

\* Mutant: pages that wait for their first access are forgotten, not counted.
Unmap_NoDecref(s, addr, len) ==
    FoldLeft(LAMBDA t, a : [t EXCEPT !.pte[PageOf(a)] = ZeroPte], s, Steps(addr, len))

Unmap(s, addr, len) ==
    LET drop(t, v) == IF v /= 0 THEN __vmr_decref(t, v) ELSE t
        one(t, a) == [drop(t, t.pte[PageOf(a)].vmr) EXCEPT !.pte[PageOf(a)] = ZeroPte]
    IN  FoldLeft(one, s, Steps(addr, len))

\* Mutant: the translations of the unmapped pages stay cached.
__do_munmap_NoFlush(s, addr, len) == Unmap(s, addr, len)

__do_munmap(s, addr, len) == flush_tlb(Unmap(s, addr, len))

\* The page at a of a mapping: the host's file, where in it the page starts, and
\* how much of the mapping is left there (history, as are the next two).
Source(s, a, addr, length, f, offset) ==
    [name |-> IF f = None THEN "free" ELSE s.host[s.files[f].kfd],
     off |-> offset + (a - addr), len |-> length - (a - addr)]

\* What that part of the file is now; zero after the end of either.
Content(disk, from) ==
    [j \in Units |->
        IF from.name \in Names /\ j < from.len /\ from.off + j < disk[from.name].size
        THEN disk[from.name].unit[from.off + j] ELSE Zero]

\* What mapping the page makes of it.
Wanted(s, a, addr, length, f, offset) ==
    LET from == Source(s, a, addr, length, f, offset)
    IN  [from |-> from, units |-> [j \in Units |-> {Content(s.disk, from)[j]}]]

\* flags is a set of "FIXED", "POPULATE"; r is the address, None on failure.
\* npage is (length - 1) / PGSIZE + 1 truncated to the 32 bits of refcnt: a
\* length of 0 makes it 2^52, which is 0.
__do_mmap(s, addr, length, prot, flags, f, offset) ==
    LET npage == NPage(length)
        enter(w, a, at, v) ==
            [(IF __va_avail(w, a) THEN w ELSE __do_munmap(w, a, PGSIZE)) EXCEPT
                !.pte[PageOf(a)] = VmrPte(v), !.want[PageOf(a)] = Wanted(s, a, at, length, f, offset)]
        load(t, a) == IF t.panic THEN t ELSE Expect(__handle_page_fault(t, a, prot), {0})
        fill(t, at) == IF t.demand /\ "POPULATE" \notin flags THEN t
                       ELSE FoldLeft(load, t, Steps(at, length))
        mapped(v, at) == FoldLeft(LAMBDA t, a : enter(__walk_create(t, a), a, at, v.r), v.k,
                                  Steps(at, length))
        use(v, at) == IF v.r = 0 THEN [k |-> v.k, r |-> None]
                      ELSE [k |-> fill(mapped(v, at), at), r |-> at]
        map(at) == use(__vmr_alloc(s, at, length, f, offset, npage, prot), at)
        fit(at) == IF at = 0 THEN [k |-> s, r |-> None] ELSE map(at)
    IN  IF "FIXED" \notin flags THEN fit(__vm_alloc(s, npage))
        ELSE IF addr % PGSIZE /= 0 \/ ~__valid_user_range(s, addr, length)
             THEN [k |-> s, r |-> None] ELSE map(addr)

do_munmap(s, addr, length) ==
    IF addr % PGSIZE /= 0 \/ ~__valid_user_range(s, addr, length) THEN s
    ELSE __do_munmap(s, addr, length)

\* flags may also hold "PRIVATE" and "ANONYMOUS"; r is None on every error.
do_mmap(s, addr, length, prot, flags, fd, offset) ==
    LET lower(m) == IF m.r /= None /\ m.r < m.k.brk_max THEN [m EXCEPT !.k.brk_max = m.r] ELSE m
        release(m, f) == IF f = None THEN m ELSE [m EXCEPT !.k = file_decref(@, f)]
        map(g) == release(lower(__do_mmap(g.k, addr, length, prot, flags, g.r, offset)), g.r)
        file(g) == IF g.r = None THEN [k |-> s, r |-> None] ELSE map(g)
    IN  IF "PRIVATE" \notin flags \/ length = 0 \/ offset % PGSIZE /= 0 THEN [k |-> s, r |-> None]
        ELSE IF "ANONYMOUS" \in flags THEN map([k |-> s, r |-> None])
        ELSE file(file_get(s, fd))

\* The heap is mapped with prot -1: everything.
__do_brk(s, addr) ==
    LET newbrk == IF addr < s.brk_min THEN s.brk_min
                  ELSE IF addr > s.brk_max THEN s.brk_max ELSE addr
        old == IF s.brk = 0 THEN ROUNDUP(s.brk_min) ELSE s.brk
        new == ROUNDUP(newbrk)
    IN  [(IF old > new THEN __do_munmap(s, new, old - new)
          ELSE IF old < new
               THEN Expect(__do_mmap(s, old, new - old, RWX, {"FIXED", "PRIVATE", "ANONYMOUS"}, None, 0), {old})
               ELSE s) EXCEPT !.brk = new]

do_brk(s, addr) == __do_brk(s, addr)

\* A page that is not there yet changes the protection of its whole region.
\* The loop stops at the first page it refuses; r tells whether it did.
do_mprotect(s, addr, length, prot) ==
    LET page(u, p, pte) ==
            IF pte.vmr /= 0 /\ prot \subseteq u.k.vmrs[pte.vmr].prot
            THEN [u EXCEPT !.k.vmrs[pte.vmr].prot = prot]
            ELSE IF pte.vmr = 0 /\ "U" \in pte.bits /\ prot \subseteq pte.bits
            THEN [u EXCEPT !.k.pte[p] = pte_create(prot_to_type(prot, TRUE))]
            ELSE [u EXCEPT !.r = -1]
        one(u, a) == IF u.r /= 0 THEN u ELSE page(u, PageOf(a), u.k.pte[PageOf(a)])
    IN  IF addr % PGSIZE /= 0 THEN [k |-> s, r |-> -1]
        ELSE [FoldLeft(one, [k |-> s, r |-> 0], Steps(addr, length)) EXCEPT !.k = flush_tlb(@)]

__map_kernel_range(s, vaddr, len, prot) ==
    LET map(t, i) == [__walk_create(t, (vaddr + i - 1) * PGSIZE) EXCEPT
                        !.pte[vaddr + i - 1] = pte_create(prot_to_type(prot, FALSE))]
    IN  FoldLeft(map, s, [i \in 1 .. len |-> i])

\* The kernel's image and pool, then the user's stack, then the kernel's stack.
pk_vm_init(s) ==
    LET max == Smaller(DRAM_BASE, MemPages - (KernelPages + FreePages)) * PGSIZE
        stack == max - StackPages * PGSIZE
        kern == __map_kernel_range(__page_alloc(s), DRAM_BASE, KernelPages + FreePages, RWX)
    IN  __page_alloc(flush_tlb(Expect(
            __do_mmap([kern EXCEPT !.mmap_max = max, !.brk_max = max], stack, StackPages * PGSIZE,
                      RWX, {"FIXED", "PRIVATE", "ANONYMOUS"}, None, 0), {stack})))
=============================================================================
