------------------------------- MODULE MCRob -------------------------------
(***************************************************************************)
(* Small instances of Rob.  All kinds at once are too many states; the     *)
(* mixes keep together the kinds that act on the same pointers.            *)
(***************************************************************************)
EXTENDS Rob

RowMixes == {{"br", "xcpt"}, {"load", "xcpt"}, {"store", "uniq"}}
=============================================================================
