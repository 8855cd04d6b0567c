----------------------------- MODULE DeviceTree -----------------------------
(***************************************************************************)
(* Device trees as the boards describe them, the flattened form the boot   *)
(* loader is handed (machine/fdt.h) and what a tree says, read off the     *)
(* nested form without any scan.  A node is [name, props, kids]; a         *)
(* property is <<name, value>>, its value a sequence of cells or of        *)
(* strings.                                                                *)
(***************************************************************************)
EXTENDS Integers, Sequences, SequencesExt, FiniteSets

CONSTANT CellBase  \* a cell holds 0 .. CellBase - 1 (2^32 in the code)

(* The tokens of a flattened tree; "end" is both FDT_END_NODE and, at the  *)
(* end of the sequence, FDT_END.                                           *)
BEGIN_NODE(name) == [k |-> "begin", name |-> name, v |-> <<>>]
PROP(name, v)    == [k |-> "prop", name |-> name, v |-> v]
END_NODE         == [k |-> "end", name |-> "", v |-> <<>>]
NOP              == [k |-> "nop", name |-> "", v |-> <<>>]

PropTokens(props) == [i \in DOMAIN props |-> PROP(props[i][1], props[i][2])]

RECURSIVE Flatten(_)
Flatten(node) ==
    <<BEGIN_NODE(node.name)>> \o PropTokens(node.props)
        \o FlattenSeq([i \in DOMAIN node.kids |-> Flatten(node.kids[i])])
        \o <<END_NODE>>

-----------------------------------------------------------------------------
(* A number of several cells, the most significant first.                  *)
Number(cells) == FoldLeft(LAMBDA n, c : n * CellBase + c, 0, cells)

Has(node, name) == \E i \in DOMAIN node.props : node.props[i][1] = name
Value(node, name) ==
    node.props[CHOOSE i \in DOMAIN node.props : node.props[i][1] = name][2]
Says(node, name, s) == Has(node, name) /\ \E i \in DOMAIN Value(node, name) : Value(node, name)[i] = s

(* The cells an address and a size of a node's children take.              *)
CellsOf(node) ==
    [a |-> IF Has(node, "#address-cells") THEN Value(node, "#address-cells")[1] ELSE 2,
     s |-> IF Has(node, "#size-cells") THEN Value(node, "#size-cells")[1] ELSE 1]

(* Every node under one whose parent counts cells so, with that count, in  *)
(* the order they are written down.                                        *)
RECURSIVE Nodes(_, _)
Nodes(node, up) ==
    <<[node |-> node, up |-> up]>>
        \o FlattenSeq([i \in DOMAIN node.kids |-> Nodes(node.kids[i], CellsOf(node))])

InOrder(tree) == Nodes(tree, [a |-> 0, s |-> 0])
All(tree) == ToSet(InOrder(tree))
Kids(node) == {node.kids[i] : i \in DOMAIN node.kids}
Reg(n) == Number(SubSeq(Value(n.node, "reg"), 1, n.up.a))
Compatible(tree, s) == {n \in All(tree) : Says(n.node, "compatible", s)}

(* The first device compatible with s, none or one.  Named asks for s as   *)
(* the first of the names a device gives.                                  *)
First(tree, Is(_)) ==
    LET found == SelectSeq(InOrder(tree), Is) IN IF found = <<>> THEN <<>> ELSE <<Head(found)>>
FirstCompatible(tree, s) == First(tree, LAMBDA n : Says(n.node, "compatible", s))
FirstNamed(tree, s) ==
    First(tree, LAMBDA n : Has(n.node, "compatible") /\ Value(n.node, "compatible")[1] = s)
Address(device) == IF device = <<>> THEN 0 ELSE Reg(device[1])
Setting(node, name) == IF Has(node, name) THEN Value(node, name)[1] ELSE 0

(* An address the chosen node gives, 0 if it gives none.                   *)
Chosen(tree, name) ==
    LET found == First(tree, LAMBDA n : n.node.name = "chosen" /\ Has(n.node, name))
    IN  IF found = <<>> THEN 0 ELSE Number(SubSeq(Value(found[1].node, name), 1, found[1].up.a))

(* The harts of a tree: the registers of its cpus that hold an interrupt   *)
(* controller, and the controller's handle.                                *)
Cpus(tree) == {n \in All(tree) : Says(n.node, "device_type", "cpu")}
Controllers(n) == {c \in Kids(n.node) : Has(c, "interrupt-controller")}
HartsOf(tree) == {Reg(n) : n \in {c \in Cpus(tree) : Controllers(c) # {}}}
HandleOf(tree, h) ==
    LET n == CHOOSE c \in Cpus(tree) : Controllers(c) # {} /\ Reg(c) = h
    IN  Value(CHOOSE c \in Controllers(n) : TRUE, "phandle")[1]

(* Which outputs of a device with so many cells for each interrupt go to a *)
(* hart; a wire is the output's number and its cause.                      *)
WiresOf(tree, n, width, h) ==
    LET v == Value(n.node, "interrupts-extended") IN
    {[at |-> i, cause |-> v[width * i + 2]] :
        i \in {j \in 0 .. Len(v) \div width - 1 : v[width * j + 1] = HandleOf(tree, h)}}

(* The size of the memory a place lies in.                                 *)
MemoryAt(tree, place) ==
    LET Area(n, i) == LET v == Value(n.node, "reg")
                           o == i * (n.up.a + n.up.s)
                       IN  [base |-> Number(SubSeq(v, o + 1, o + n.up.a)),
                            size |-> Number(SubSeq(v, o + n.up.a + 1, o + n.up.a + n.up.s))]
        Ranges == UNION {{Area(n, i) :
                     i \in 0 .. Len(Value(n.node, "reg")) \div (n.up.a + n.up.s) - 1} :
                     n \in {m \in All(tree) : Says(m.node, "device_type", "memory")}}
    IN  (CHOOSE r \in Ranges : r.base <= place /\ place < r.base + r.size).size

(* The cpus a supervisor cannot use.                                       *)
Unfit(cpu) ==
    \/ ~Says(cpu, "status", "okay")
    \/ ~(Says(cpu, "mmu-type", "riscv,sv39") \/ Says(cpu, "mmu-type", "riscv,sv48"))

(* The tree the payload is to see: no CLINT, no debug unit, unfit cpus     *)
(* masked and the machine's interrupts of the PLIC out of reach.           *)
Hidden(node) == Says(node, "compatible", "riscv,clint0") \/ Says(node, "compatible", "riscv,debug-013")
Redacted(v, cause, gone) ==
    [i \in DOMAIN v |-> IF i % 2 = 0 /\ v[i] = cause THEN gone ELSE v[i]]
RECURSIVE PayloadTree(_, _, _)
PayloadTree(node, cause, gone) ==
    LET Seen(p) ==
          CASE p[1] = "status" /\ Says(node, "device_type", "cpu") /\ Unfit(node)
                 -> <<"status", <<"masked">>>>
            [] p[1] = "interrupts-extended" /\ Says(node, "compatible", "riscv,plic0")
                 -> <<p[1], Redacted(p[2], cause, gone)>>
            [] OTHER -> p
        kept == SelectSeq(node.kids, LAMBDA kid : ~Hidden(kid))
    IN  [name |-> node.name,
         props |-> [i \in DOMAIN node.props |-> Seen(node.props[i])],
         kids |-> [i \in DOMAIN kept |-> PayloadTree(kept[i], cause, gone)]]
=============================================================================
