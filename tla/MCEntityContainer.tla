------------------------- MODULE MCEntityContainer -------------------------
(* Small instance of EntityContainer for TLC. *)
EXTENDS EntityContainer

CONSTANTS a, b      \* class ids

MCFilters == {{a}}
=============================================================================
