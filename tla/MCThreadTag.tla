---------------------------- MODULE MCThreadTag ----------------------------
(* Two harts, five tasks (two of them idle tasks), three tags. *)
EXTENDS ThreadTag, TLC

CONSTANTS h1, h2, i1, i2, t1, t2, t3

MCIdle == (h1 :> i1) @@ (h2 :> i2)

(* The harts may be renamed together with their idle tasks; the three ordinary
   tasks are interchangeable on their own. *)
Symmetry == Permutations({t1, t2, t3})
=============================================================================
