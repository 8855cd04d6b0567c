-------------------------------- MODULE Fdt ---------------------------------
(***************************************************************************)
(* The device tree scanner of the boot loader (riscv-pk machine/fdt.c) and *)
(* the callbacks of every query and filter, those of uart.c, uart16550.c,  *)
(* htif.c and finisher.c among them.  A step reads one token.  A node's    *)
(* pointer is the depth of the stack frame that holds it, as in the code   *)
(* where a frame serves all the children of a node one after another.      *)
(***************************************************************************)
EXTENDS DeviceTree

CONSTANTS Boards,      \* the device trees a machine may be delivered with, numbered
          MAX_HARTS,
          Self,        \* where the boot loader itself lies, &mem_done
          MEGAPAGE_SIZE,
          MaxDepth     \* bound: the depth of the trees

VARIABLES tree,     \* the number of this machine's tree
          source,   \* its tokens, which the loader is handed
          dest,     \* the tokens of the payload's copy
          scan,     \* the scan under way: query, position, frames, extra
          board     \* what the scans found out and the filters masked

fdtVars == <<tree, source, dest, scan, board>>

NoHart == -1
IRQ_S_EXT == 9
IRQ_M_EXT == 11
Gone == -1          \* a redacted cause

NoHls == [ipi |-> <<>>, timecmp |-> <<>>, m |-> <<>>, s |-> <<>>]
Blank == [compat |-> FALSE, reg |-> 0, at |-> 0, hart |-> NoHart, cpu |-> 0, controller |-> 0,
          cells |-> 0, phandle |-> 0, memory |-> FALSE, ndev |-> 0, done |-> FALSE,
          depth |-> 0, kill |-> 999, chosen |-> 0, start |-> 0, stop |-> 0,
          status |-> 0, mmu |-> 0, offset |-> 0, shift |-> 0]
NoBoard == [uart |-> 0, uart16550 |-> <<>>, htif |-> FALSE, finisher |-> 0, mem_size |-> 0,
            phandles |-> [h \in 0 .. MAX_HARTS - 1 |-> 0], hart_mask |-> {},
            hls |-> [h \in 0 .. MAX_HARTS - 1 |-> NoHls], mtime |-> <<>>,
            plic |-> 0, ndevs |-> 0, kernel |-> <<0, 0>>, disabled |-> {}]

Filters == {"filter_harts", "filter_plic", "filter_clint", "filter_debug"}
Image == IF scan.q \in Filters THEN dest ELSE source

hls_init(b, h) == [b EXCEPT !.hls[h] = NoHls]

fdt_get_address(d, v) == Number(SubSeq(v, 1, scan.cells[d].a))
fdt_get_size(d, v, from) == Number(SubSeq(v, from + 1, from + scan.cells[d].s))
fdt_string_list_index(v, s) == \E i \in DOMAIN v : v[i] = s

(* A hart by the handle of its interrupt controller; MAX_HARTS for none.   *)
HartOf(b, phandle) ==
    LET found == {h \in 0 .. MAX_HARTS - 1 : b.phandles[h] = phandle} IN
    IF found = {} THEN MAX_HARTS ELSE CHOOSE h \in found : \A g \in found : h <= g

-----------------------------------------------------------------------------
(* The callbacks.  w is what they read and write: their extra x, the board,*)
(* the payload's copy, and whether every assertion has held.  d is the     *)
(* node, i the property's place and p its token.                           *)
Checked(w, ok) == [w EXCEPT !.ok = @ /\ ok]

scan_open(w, d, name) == [w EXCEPT !.x = Blank]

uart_prop(w, d, i, p) ==
    CASE p.name = "compatible" /\ p.v[1] = "sifive,uart0" -> [w EXCEPT !.x.compat = TRUE]
      [] p.name = "reg" -> [w EXCEPT !.x.reg = fdt_get_address(d - 1, p.v)]
      [] OTHER -> w
uart_done(w, d) ==
    IF ~w.x.compat \/ w.x.reg = 0 \/ w.board.uart # 0 THEN w
    ELSE [w EXCEPT !.board.uart = w.x.reg]

uart16550_prop(w, d, i, p) ==
    CASE p.name = "compatible" /\ fdt_string_list_index(p.v, "ns16550a") -> [w EXCEPT !.x.compat = TRUE]
      [] p.name = "reg" -> [w EXCEPT !.x.reg = fdt_get_address(d - 1, p.v)]
      [] p.name = "reg-shift" -> [w EXCEPT !.x.shift = p.v[1]]
      [] p.name = "reg-offset" -> [w EXCEPT !.x.offset = p.v[1]]
      [] OTHER -> w
uart16550_done(w, d) ==
    IF ~w.x.compat \/ w.x.reg = 0 \/ w.board.uart16550 # <<>> THEN w
    ELSE [w EXCEPT !.board.uart16550 = <<w.x.reg + w.x.offset, w.x.shift>>]

htif_prop(w, d, i, p) ==
    [w EXCEPT !.x.compat = @ \/ (p.name = "compatible" /\ p.v[1] = "ucb,htif0")]
htif_done(w, d) == [w EXCEPT !.board.htif = @ \/ w.x.compat]

finisher_prop(w, d, i, p) ==
    CASE p.name = "compatible" /\ p.v[1] = "sifive,test0" -> [w EXCEPT !.x.compat = TRUE]
      [] p.name = "reg" -> [w EXCEPT !.x.reg = fdt_get_address(d - 1, p.v)]
      [] OTHER -> w
finisher_done(w, d) ==
    IF ~w.x.compat \/ w.x.reg = 0 \/ w.board.finisher # 0 THEN w
    ELSE [w EXCEPT !.board.finisher = w.x.reg]

mem_prop(w, d, i, p) ==
    CASE p.name = "device_type" /\ p.v[1] = "memory" -> [w EXCEPT !.x.memory = TRUE]
      [] p.name = "reg" -> [w EXCEPT !.x.at = i]
      [] OTHER -> w
mem_done(w, d) ==
    LET v == Image[w.x.at].v
        width == scan.cells[d - 1].a + scan.cells[d - 1].s
        Base(n) == fdt_get_address(d - 1, SubSeq(v, n * width + 1, Len(v)))
        Size(n) == fdt_get_size(d - 1, v, n * width + scan.cells[d - 1].a)
        holding == {n \in 0 .. Len(v) \div width - 1 : Base(n) <= Self /\ Self <= Base(n) + Size(n)}
    IN  IF ~w.x.memory THEN w
        ELSE IF holding = {} THEN Checked(w, Len(v) % width = 0)
        ELSE [Checked(w, Len(v) % width = 0)
                EXCEPT !.board.mem_size = Size(CHOOSE n \in holding : \A k \in holding : k <= n)]

-----------------------------------------------------------------------------
hart_open(w, d, name) ==
    [w EXCEPT !.x.hart = IF w.x.cpu = 0 THEN NoHart ELSE @,
              !.x.cells = IF w.x.controller = 0 THEN 0 ELSE @,
              !.x.phandle = IF w.x.controller = 0 THEN 0 ELSE @]
hart_prop(w, d, i, p) ==
    CASE p.name = "device_type" /\ p.v[1] = "cpu" -> [Checked(w, w.x.cpu = 0) EXCEPT !.x.cpu = d]
      [] p.name = "interrupt-controller" -> [Checked(w, w.x.controller = 0) EXCEPT !.x.controller = d]
      [] p.name = "#interrupt-cells" -> [w EXCEPT !.x.cells = p.v[1]]
      [] p.name = "phandle" -> [w EXCEPT !.x.phandle = p.v[1]]
      [] p.name = "reg" -> [w EXCEPT !.x.hart = fdt_get_address(d - 1, p.v)]
      [] OTHER -> w
hart_done(w, d) ==
    LET x == w.x
        seen == Checked(w, x.cpu = d => x.hart >= 0)
    IN  IF ~(x.controller = d /\ x.cpu # 0) THEN seen
        ELSE IF x.hart >= MAX_HARTS THEN Checked(seen, x.phandle > 0 /\ x.cells = 1)
        ELSE [Checked(seen, x.phandle > 0 /\ x.cells = 1)
                EXCEPT !.board = hls_init([@ EXCEPT !.phandles[x.hart] = x.phandle,
                                                    !.hart_mask = @ \cup {x.hart}], x.hart)]
hart_close(w, d) ==
    [w EXCEPT !.x.cpu = IF @ = d THEN 0 ELSE @,
              !.x.controller = IF @ = d THEN 0 ELSE @]

(* The CLINT and PLIC scans keep done and ndev from one node to the next.  *)
clint_open(w, d, name) == [w EXCEPT !.x.compat = FALSE, !.x.reg = 0, !.x.at = 0]
clint_prop(w, d, i, p) ==
    CASE p.name = "compatible" /\ fdt_string_list_index(p.v, "riscv,clint0") -> [w EXCEPT !.x.compat = TRUE]
      [] p.name = "reg" -> [w EXCEPT !.x.reg = fdt_get_address(d - 1, p.v)]
      [] p.name = "interrupts-extended" -> [w EXCEPT !.x.at = i]
      [] OTHER -> w
clint_done(w, d) ==
    LET x == w.x
        v == Image[x.at].v
        Wires(h) == {n \in 0 .. Len(v) \div 4 - 1 : HartOf(w.board, v[4 * n + 1]) = h}
        Latest(h) == CHOOSE n \in Wires(h) : \A k \in Wires(h) : k <= n
    IN  IF ~x.compat THEN w
        ELSE [Checked(w, x.reg # 0 /\ x.at # 0 /\ ~x.done) EXCEPT
                !.x.done = TRUE,
                !.board.mtime = <<x.reg, "mtime">>,
                !.board.hls = [h \in DOMAIN @ |->
                    IF Wires(h) = {} THEN @[h]
                    ELSE [@[h] EXCEPT !.ipi = <<x.reg, Latest(h)>>, !.timecmp = <<x.reg, Latest(h)>>]]]

plic_prop(w, d, i, p) ==
    CASE p.name = "compatible" /\ fdt_string_list_index(p.v, "riscv,plic0") -> [w EXCEPT !.x.compat = TRUE]
      [] p.name = "reg" -> [w EXCEPT !.x.reg = fdt_get_address(d - 1, p.v)]
      [] p.name = "interrupts-extended" -> [w EXCEPT !.x.at = i]
      [] p.name = "riscv,ndev" -> [w EXCEPT !.x.ndev = p.v[1]]
      [] OTHER -> w
plic_done(w, d) ==
    LET x == w.x
        v == Image[x.at].v
        Wires(h, cause) == {n \in 0 .. Len(v) \div 2 - 1 :
                               HartOf(w.board, v[2 * n + 1]) = h /\ v[2 * n + 2] = cause}
        Context(h, cause, old) ==
            IF Wires(h, cause) = {} THEN old
            ELSE <<x.reg, CHOOSE n \in Wires(h, cause) : \A k \in Wires(h, cause) : k <= n>>
    IN  IF ~x.compat THEN w
        ELSE [Checked(w, x.reg # 0 /\ x.at # 0 /\ ~x.done) EXCEPT
                !.x.done = TRUE,
                !.board.plic = x.reg, !.board.ndevs = x.ndev,
                !.board.hls = [h \in DOMAIN @ |->
                    [@[h] EXCEPT !.m = Context(h, IRQ_M_EXT, @), !.s = Context(h, IRQ_S_EXT, @)]]]
plic_redact(w, d) ==
    IF ~w.x.compat THEN w
    ELSE [w EXCEPT !.x.done = TRUE,
                   !.dest[w.x.at].v = [n \in DOMAIN @ |->
                       IF n % 2 = 0 /\ @[n] = IRQ_M_EXT THEN Gone ELSE @[n]]]

-----------------------------------------------------------------------------
compat_open(w, d, name) == [w EXCEPT !.x.depth = @ + 1]
compat_prop(w, compat, p) ==
    IF p.name = "compatible" /\ fdt_string_list_index(p.v, compat) /\ w.x.depth < w.x.kill
    THEN [w EXCEPT !.x.kill = w.x.depth] ELSE w
compat_close(w, d) ==
    [w EXCEPT !.x.depth = @ - 1, !.x.kill = IF @ = w.x.depth THEN 999 ELSE @]
compat_drops(w) == w.x.kill = w.x.depth

chosen_open(w, d, name) == IF name = "chosen" THEN [w EXCEPT !.x.chosen = d] ELSE w
chosen_close(w, d) == [w EXCEPT !.x.chosen = IF @ = d THEN 0 ELSE @]
chosen_prop(w, d, i, p) ==
    CASE w.x.chosen = 0 -> w
      [] w.x.chosen # 0 /\ p.name = "riscv,kernel-start" -> [w EXCEPT !.x.start = fdt_get_address(d - 1, p.v)]
      [] w.x.chosen # 0 /\ p.name = "riscv,kernel-end" -> [w EXCEPT !.x.stop = fdt_get_address(d - 1, p.v)]
      [] OTHER -> w

(* Mutant: a node keeps the mmu-type of the one before it.                 *)
hart_filter_open_KeepsMmu(w, d, name) ==
    [w EXCEPT !.x.status = 0, !.x.compat = FALSE, !.x.hart = NoHart]
hart_filter_open(w, d, name) ==
    [w EXCEPT !.x.status = 0, !.x.mmu = 0, !.x.compat = FALSE, !.x.hart = NoHart]
hart_filter_prop(w, d, i, p) ==
    CASE p.name = "device_type" /\ p.v[1] = "cpu" -> [w EXCEPT !.x.compat = TRUE]
      [] p.name = "reg" -> [w EXCEPT !.x.hart = fdt_get_address(d - 1, p.v)]
      [] p.name = "status" -> [w EXCEPT !.x.status = i]
      [] p.name = "mmu-type" -> [w EXCEPT !.x.mmu = i]
      [] OTHER -> w
hart_filter_mask(x) ==
    \/ x.mmu = 0
    \/ Image[x.status].v[1] # "okay"
    \/ Image[x.mmu].v[1] \notin {"riscv,sv39", "riscv,sv48"}
hart_filter_done(w, d) ==
    IF ~w.x.compat THEN w
    ELSE IF ~hart_filter_mask(w.x) THEN Checked(w, w.x.status # 0 /\ w.x.hart >= 0)
    ELSE [Checked(w, w.x.status # 0 /\ w.x.hart >= 0) EXCEPT
            !.dest[w.x.status].v = <<"masked">>,
            !.board.disabled = @ \cup {w.x.hart}]

-----------------------------------------------------------------------------
(* The callbacks of a query or filter.                                     *)
Open(w, d, name) ==
    CASE scan.q = "harts" -> hart_open(w, d, name)
      [] scan.q \in {"clint", "plic", "filter_plic"} -> clint_open(w, d, name)
      [] scan.q \in {"filter_clint", "filter_debug"} -> compat_open(w, d, name)
      [] scan.q = "chosen" -> chosen_open(w, d, name)
      [] scan.q = "filter_harts" -> hart_filter_open(w, d, name)
      [] OTHER -> scan_open(w, d, name)
Prop(w, d, i, p) ==
    CASE scan.q = "uart" -> uart_prop(w, d, i, p)
      [] scan.q = "uart16550" -> uart16550_prop(w, d, i, p)
      [] scan.q = "htif" -> htif_prop(w, d, i, p)
      [] scan.q = "finisher" -> finisher_prop(w, d, i, p)
      [] scan.q = "mem" -> mem_prop(w, d, i, p)
      [] scan.q = "harts" -> hart_prop(w, d, i, p)
      [] scan.q = "clint" -> clint_prop(w, d, i, p)
      [] scan.q \in {"plic", "filter_plic"} -> plic_prop(w, d, i, p)
      [] scan.q = "chosen" -> chosen_prop(w, d, i, p)
      [] scan.q = "filter_harts" -> hart_filter_prop(w, d, i, p)
      [] scan.q = "filter_clint" -> compat_prop(w, "riscv,clint0", p)
      [] scan.q = "filter_debug" -> compat_prop(w, "riscv,debug-013", p)
Done(w, d) ==
    CASE scan.q = "uart" -> uart_done(w, d)
      [] scan.q = "uart16550" -> uart16550_done(w, d)
      [] scan.q = "htif" -> htif_done(w, d)
      [] scan.q = "finisher" -> finisher_done(w, d)
      [] scan.q = "mem" -> mem_done(w, d)
      [] scan.q = "harts" -> hart_done(w, d)
      [] scan.q = "clint" -> clint_done(w, d)
      [] scan.q = "plic" -> plic_done(w, d)
      [] scan.q = "filter_plic" -> plic_redact(w, d)
      [] scan.q = "filter_harts" -> hart_filter_done(w, d)
      [] OTHER -> w
Close(w, d) ==
    CASE scan.q = "harts" -> hart_close(w, d)
      [] scan.q = "chosen" -> chosen_close(w, d)
      [] scan.q \in {"filter_clint", "filter_debug"} -> compat_close(w, d)
      [] OTHER -> w
Drops(w) == scan.q \in {"filter_clint", "filter_debug"} /\ compat_drops(w)

World == [x |-> scan.x, board |-> board, dest |-> dest, ok |-> scan.ok]
DoneOnce(w) == IF scan.last[scan.d] \/ scan.d = 0 THEN w ELSE Done(w, scan.d)

-----------------------------------------------------------------------------
DefaultCells == [a |-> 2, s |-> 1]
Enter(s, d) == [s EXCEPT !.d = d, !.last[d] = FALSE, !.cells[d + 1] = DefaultCells]
Adopt(s, w) == [s EXCEPT !.x = w.x, !.ok = w.ok]

NoScan == [q |-> "", pos |-> 0, d |-> 0, x |-> Blank, ok |-> TRUE,
           last |-> [d \in 0 .. MaxDepth |-> FALSE],
           from |-> [d \in 0 .. MaxDepth |-> 0],
           cells |-> [d \in 0 .. MaxDepth + 1 |-> DefaultCells]]

(* fdt_scan: a query begins at the first token.                            *)
fdt_scan(q) == scan' = [NoScan EXCEPT !.q = q, !.pos = 1, !.ok = scan.ok]

Token == Image[scan.pos]
Reading(kind) == scan.q # "" /\ scan.pos <= Len(Image) /\ Token.k = kind

ScanNop ==
    /\ Reading("nop")
    /\ scan' = [scan EXCEPT !.pos = @ + 1]
    /\ UNCHANGED <<tree, source, dest, board>>

(* A node's cell counts are written before the callback sees the property. *)
ScanProp ==
    /\ Reading("prop")
    /\ LET w == Prop(World, scan.d, scan.pos, Token)
           s == [Adopt(scan, w) EXCEPT !.pos = @ + 1, !.ok = @ /\ ~scan.last[scan.d]]
       IN  /\ scan' = CASE Token.name = "#address-cells" -> [s EXCEPT !.cells[scan.d].a = Token.v[1]]
                        [] Token.name = "#size-cells" -> [s EXCEPT !.cells[scan.d].s = Token.v[1]]
                        [] OTHER -> s
           /\ board' = w.board /\ dest' = w.dest
    /\ UNCHANGED <<tree, source>>

ScanBegin ==
    /\ Reading("begin")
    /\ LET child == scan.d + 1
           w == Open(DoneOnce(World), child, Token.name)
       IN  /\ scan' = Enter([Adopt(scan, w) EXCEPT !.last[scan.d] = TRUE, !.pos = @ + 1,
                                                   !.from[child] = scan.pos], child)
           /\ board' = w.board /\ dest' = w.dest
    /\ UNCHANGED <<tree, source>>

(* The end of a node: its last property was seen, its parent closes it, and*)
(* a filter may have it overwritten, all its tokens, by NOPs.              *)
ScanEnd ==
    /\ Reading("end")
    /\ LET w == DoneOnce(World)
           c == Close(w, scan.d)
           drop == Drops(w)
       IN  /\ scan' = [Adopt(scan, c) EXCEPT !.pos = @ + 1, !.d = @ - 1]
           /\ board' = c.board
           /\ dest' = [i \in DOMAIN c.dest |->
                         IF drop /\ i \in scan.from[scan.d] .. scan.pos THEN NOP ELSE c.dest[i]]
    /\ UNCHANGED <<tree, source>>

ScanToken == ScanNop \/ ScanProp \/ ScanBegin \/ ScanEnd
Scanned == scan.q # "" /\ scan.pos > Len(Image)

-----------------------------------------------------------------------------
(* What the scans must have found, read off the tree itself, query by      *)
(* query.                                                                  *)
UartsFound(t, b) ==
    LET serial == FirstCompatible(t, "ns16550a")
    IN  /\ b.uart = Address(FirstNamed(t, "sifive,uart0"))
        /\ b.finisher = Address(FirstNamed(t, "sifive,test0"))
        /\ b.htif <=> FirstNamed(t, "ucb,htif0") # <<>>
        /\ b.uart16550 = IF serial = <<>> THEN <<>>
                         ELSE <<Reg(serial[1]) + Setting(serial[1].node, "reg-offset"),
                                Setting(serial[1].node, "reg-shift")>>

ClintFound(t, b) ==
    LET clint == CHOOSE n \in Compatible(t, "riscv,clint0") : TRUE
    IN  /\ b.mtime = <<Reg(clint), "mtime">>
        /\ \A h \in b.hart_mask :
              \E wire \in WiresOf(t, clint, 4, h) :
                 b.hls[h].ipi = <<Reg(clint), wire.at>> /\ b.hls[h].timecmp = b.hls[h].ipi

PlicFound(t, b) ==
    LET plic == FirstCompatible(t, "riscv,plic0")
        Context(h, cause) ==
            {<<Reg(plic[1]), wire.at>> :
                wire \in {w \in WiresOf(t, plic[1], 2, h) : w.cause = cause}}
        Is(found, h, cause) ==
            IF plic = <<>> \/ Context(h, cause) = {} THEN found = <<>> ELSE found \in Context(h, cause)
    IN  /\ b.plic = Address(plic)
        /\ b.ndevs = IF plic = <<>> THEN 0 ELSE Setting(plic[1].node, "riscv,ndev")
        /\ \A h \in b.hart_mask : Is(b.hls[h].m, h, IRQ_M_EXT) /\ Is(b.hls[h].s, h, IRQ_S_EXT)

Found(t, b) ==
    /\ UartsFound(t, b)
    /\ b.mem_size = (MemoryAt(t, Self) \div MEGAPAGE_SIZE) * MEGAPAGE_SIZE
    /\ b.hart_mask = {h \in HartsOf(t) : h < MAX_HARTS}
    /\ \A h \in b.hart_mask : b.phandles[h] = HandleOf(t, h)
    /\ ClintFound(t, b)
    /\ PlicFound(t, b)
    /\ b.kernel = <<Chosen(t, "riscv,kernel-start"), Chosen(t, "riscv,kernel-end")>>

Seen(image) == SelectSeq(image, LAMBDA t : t.k # "nop")
PayloadSees(t, image) == Seen(image) = Flatten(PayloadTree(t, IRQ_M_EXT, Gone))
=============================================================================
