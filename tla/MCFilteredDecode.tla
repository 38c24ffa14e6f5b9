-------------------------- MODULE MCFilteredDecode --------------------------
(* Small instance of FilteredDecode for TLC. *)
EXTENDS FilteredDecode, TLC

(* The history variables of the containers and their two occupancy         *)
(* counters constrain no step and appear in no property.                   *)
DecodeView == <<full, fullSkipped, fullChanges, Len(fullUpdated),
                mine, mineSkipped, mineChanges, Len(mineUpdated),
                remaining, entity_index, class_filter, reading>>

Symmetric == Permutations(ClassIds)
=============================================================================
