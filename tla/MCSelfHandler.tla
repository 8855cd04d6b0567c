--------------------------- MODULE MCSelfHandler ---------------------------
(* A program for SelfHandler: it computes, makes two system calls and exits. *)
EXTENDS SelfHandler

alu   == [k |-> "alu"]
ecall == [k |-> "ecall"]
li(n) == [k |-> "li", nr |-> n]

MCCode == <<alu, li(1), alu, ecall, alu, alu, li(2), alu, ecall, alu, alu, alu, li(3), ecall>>
=============================================================================
