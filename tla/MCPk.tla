-------------------------------- MODULE MCPk --------------------------------
(* Instances of Pk for TLC: two program images, one position independent.  *)
EXTENDS Pk

MCFileSize == ("prog" :> 5) @@ ("data" :> 3)

Seg(vaddr, memsz, filesz, offset, prot) ==
    [vaddr |-> vaddr, memsz |-> memsz, filesz |-> filesz, offset |-> offset, prot |-> prot]

\* Text that starts inside a page, data with a bss that needs a page of its own.
MCElfs == {[name |-> "prog", dyn |-> FALSE,
            segs |-> <<Seg(3, 1, 1, 1, {"R", "X"}), Seg(4, 4, 2, 2, {"R", "W"})>>],
           [name |-> "prog", dyn |-> TRUE,
            segs |-> <<Seg(0, 3, 3, 0, {"R", "X"}), Seg(4, 1, 0, 4, {"R", "W"})>>]}
MCOptions == {{}, {"p"}}
M(addr, len, prot, flags, off) ==
    [addr |-> addr, len |-> len, prot |-> prot, flags |-> flags \cup {"PRIVATE"}, off |-> off]
MCMaps == {M(0, 3, {"R", "W"}, {"ANONYMOUS"}, 0),
           M(0, 17, {"R"}, {"ANONYMOUS"}, 0),
           M(0, 22, {"R"}, {"ANONYMOUS"}, 0),
           M(20, 2, {"R"}, {"ANONYMOUS", "FIXED", "POPULATE"}, 0),
           M(4, 2, {"R"}, {"ANONYMOUS", "FIXED"}, 0),
           M(0, 3, {"R"}, {}, 0),
           M(10, 4, {"R", "W"}, {"FIXED"}, 2),
           M(12, 1, {"R", "W"}, {"FIXED", "POPULATE"}, 0)}
A(addr, len) == [addr |-> addr, len |-> len]
MCAreas == {A(2, 4), A(12, 3), A(11, 2), A(18, 2)}
MCProts == {{}, {"R"}, {"R", "W"}}
MCBreaks == {0, 9, 13}
\* A buffer in a mapping, and one that starts on the stack and ends in the kernel.
MCBufs == {A(11, 2), A(19, 2)}
=============================================================================
