--------------------------- MODULE MCStringTables ---------------------------
(* Small instances of StringTables and KeyHistory for TLC. *)
EXTENDS StringTables, KeyHistory, TLC

(* Two spellings of one class id, as "5" and "+5" are. *)
SameClass == [k \in Keys |-> 5]
(* A key that is no number. *)
NoClass == [k \in Keys |-> NoId]

(* How the keys of one message are spelled shares no state with the        *)
(* tables: each is explored with the other at rest.                        *)
MCTexts == {<<"a">>, <<"b", "a">>}
MCInit == Init /\ HistoryInit
MCNext == \/ read = <<>> /\ Next /\ UNCHANGED historyVars
          \/ tables = <<>> /\ message = "none" /\ HistoryNext /\ UNCHANGED vars
MCSpec == MCInit /\ [][MCNext]_<<vars, historyVars>>

Symmetric == Permutations(Keys) \cup Permutations(Values) \cup Permutations(Revisions)
=============================================================================
