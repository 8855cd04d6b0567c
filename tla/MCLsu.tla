-------------------------------- MODULE MCLsu --------------------------------
(***************************************************************************)
(* Small instance of Lsu: a line with two locations that one access may    *)
(* cover both, a location of a device, queues of two usable entries that   *)
(* begin one before their wrap, and programs of three operations, each     *)
(* aimed at one way in which two accesses meet.                            *)
(***************************************************************************)
EXTENDS Lsu

LocsDef == {"a1", "a2", "b"}
LineDef == [l \in LocsDef |-> IF l = "b" THEN "B" ELSE "A"]
IODef == {"b"}

LoadOf(s)  == [k |-> "ld", loc |-> s, to |-> 0]
StoreOf(s) == [k |-> "st", loc |-> s, to |-> 0]
Branch(t)  == [k |-> "br", loc |-> {}, to |-> t]
Fence      == [k |-> "fence", loc |-> {}, to |-> 0]

\* forwarding past a nearer store; loads that pass each other; device accesses around a
\* store; a store on a wrong path; a fence; a device load on a wrong path; full queues
ProgramsDef ==
    {<<StoreOf({"a1", "a2"}), StoreOf({"a1"}), LoadOf({"a1", "a2"})>>,
     <<LoadOf({"a1"}), LoadOf({"a1"}), StoreOf({"a1"})>>,
     <<LoadOf({"b"}), StoreOf({"b"}), LoadOf({"b"})>>,
     <<Branch(3), StoreOf({"a1"}), LoadOf({"a1"})>>,
     <<StoreOf({"a1"}), Fence, LoadOf({"a1"})>>,
     <<Branch(3), LoadOf({"b"}), LoadOf({"a1"})>>,
     <<StoreOf({"a1"}), StoreOf({"a2"}), StoreOf({"a1"})>>,
     <<LoadOf({"a1"}), LoadOf({"a2"}), LoadOf({"a1"})>>}
StartsDef == {<<2, 1>>}
=============================================================================
