-------------------------- MODULE MCPtraceSampler --------------------------
(* A program that starts up (brk), computes, writes and exits. *)
EXTENDS PtraceSampler

Li(n)  == [k |-> "li", nr |-> n]
Op(k)  == [k |-> k]

MCCode == <<Op("alu"), Li(BrkNr), Op("ecall"), Op("alu"), Li(64), Op("alu"), Op("ecall"),
            Op("alu"), Li(BrkNr), Op("ecall"), Op("alu"), Li(ExitNr), Op("ecall")>>
=============================================================================
