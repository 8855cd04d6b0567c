------------------------------ MODULE Program ------------------------------
(***************************************************************************)
(* What a sampled program must not be able to tell: a user program that    *)
(* runs untraced and unsampled.  It computes, loads a system call number   *)
(* into a7, and calls the kernel; the kernel records the call and returns  *)
(* a value in a0.                                                          *)
(***************************************************************************)
EXTENDS Naturals, Sequences

CONSTANTS Code,      \* sequence of [k |-> "alu"], [k |-> "li", nr |-> n], [k |-> "ecall"]
          ExitNr,    \* number of the exit system call
          Ret        \* what a system call returns

VARIABLES pc, a0, a7, \* the program's registers
          calls       \* the system calls the kernel executed for it

progvars == <<pc, a0, a7, calls>>

Init == pc = 1 /\ a0 = 0 /\ a7 = 0 /\ calls = <<>>

At(k) == pc <= Len(Code) /\ Code[pc].k = k

Alu   == At("alu") /\ pc' = pc + 1 /\ a0' = pc /\ UNCHANGED <<a7, calls>>
Li    == At("li") /\ pc' = pc + 1 /\ a7' = Code[pc].nr /\ UNCHANGED <<a0, calls>>
Ecall == /\ At("ecall")
         /\ calls' = Append(calls, a7)
         /\ pc' = pc + 1 /\ a0' = Ret /\ UNCHANGED a7

Next == Alu \/ Li \/ Ecall
Spec == Init /\ [][Next]_progvars
=============================================================================
