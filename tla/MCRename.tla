----------------------------- MODULE MCRename -----------------------------
(***************************************************************************)
(* Small instances of Rename.  The view hides what no later step reads:    *)
(* snapshots and allocation lists of tags that no dispatched branch holds, *)
(* and the busy bits of registers that hold no value.                      *)
(***************************************************************************)
EXTENDS Rename

HeldTags == {rob[j].br_tag : j \in {i \in 1..Len(rob) : IsBr(rob[i]) /\ rob[i].st # "done"}}
              \cup (IF b2.mispredict THEN {b2.tag} ELSE {})

View == <<map_table, [t \in HeldTags |-> <<br_snapshots[t], br_alloc_lists[t]>>], free_list,
          alloc_pregs, busy_table \cap Live, branch_mask, ren2, rob, b1, b2, rstate, arch_map>>
=============================================================================
