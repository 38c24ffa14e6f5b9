----------------------------- MODULE KeyHistory -----------------------------
(***************************************************************************)
(* The keys of a string table message (StringTable::parse_update in        *)
(* src/src/entity/string_tables.rs): a key may begin with a part of one of *)
(* the keys before it, which are kept in a ring of slots that a later key  *)
(* overwrites.                                                             *)
(***************************************************************************)
EXTENDS Integers, Sequences

CONSTANTS
  HistorySize,  \* HISTORY_SIZE, a power of two
  KeySize,      \* MAX_STRING_SIZE, the letters a slot keeps of a key
  Letters,      \* the bytes of a key
  Nul,          \* the one an unused byte of a slot holds
  Texts,        \* what a stream gives as the rest of a key
  MaxRead       \* bound on the keys of one message (model only)

ASSUME HistorySizeAssumption == HistorySize \in Nat \ {0}
ASSUME KeySizeAssumption     == KeySize \in Nat \ {0} /\ MaxRead \in Nat
ASSUME LettersAssumption     == Nul \in Letters /\ Texts \subseteq Seq(Letters)

VARIABLES
  history,              \* the ring
  history_delta_index,  \* the keys read so far
  read                  \* history: those keys

historyVars == <<history, history_delta_index, read>>

Ring == 0 .. HistorySize - 1
Blank == [k \in 1 .. KeySize |-> Nul]

HistoryInit ==
  /\ history = [slot \in Ring |-> Blank]
  /\ history_delta_index = 0
  /\ read = <<>>

(* A reference counts from here: the oldest slot, once the ring is full.   *)
MutantDeltaZero(count) == count % HistorySize
DeltaZero(count) == IF count > HistorySize THEN count % HistorySize ELSE 0

Referred(index, bytes) ==
  SubSeq(history[(DeltaZero(history_delta_index) + index) % HistorySize], 1, bytes)

(* A slot keeps the first letters of a key. *)
Kept(key) == [k \in 1 .. KeySize |-> IF k <= Len(key) THEN key[k] ELSE Nul]

ReadKey(key) ==
  /\ history_delta_index < MaxRead
  /\ history' = [history EXCEPT ![history_delta_index % HistorySize] = Kept(key)]
  /\ history_delta_index' = history_delta_index + 1
  /\ read' = Append(read, key)

(* A part of a key as many letters long as its bits can say, then the rest *)
(* up to the terminator.                                                   *)
ReadReferring ==
  \E index \in Ring, bytes \in 0 .. KeySize - 1, text \in Texts :
    ReadKey(Referred(index, bytes) \o text)

ReadPlain == \E text \in Texts : ReadKey(text)

(* Every message starts with a blank ring. *)
BeginKeys ==
  /\ history' = [slot \in Ring |-> Blank]
  /\ history_delta_index' = 0
  /\ read' = <<>>

HistoryNext == BeginKeys \/ ReadPlain \/ ReadReferring

HistorySpec == HistoryInit /\ [][HistoryNext]_historyVars

----------------------------------------------------------------------------
(* Properties.                                                             *)

(* The recorder's side: the n-th oldest of the last keys that the ring has *)
(* room for, and blanks where there is none.                               *)
Window(index) ==
  LET first == IF Len(read) > HistorySize THEN Len(read) - HistorySize ELSE 0
      key == IF first + index + 1 <= Len(read) THEN read[first + index + 1] ELSE <<>>
  IN  Kept(key)

(* However often the ring has wrapped, a reference selects the key that a  *)
(* sliding window over the keys of this message has at that place, and no  *)
(* letter of a key that was overwritten or that was longer shows through.  *)
ReferencesAreWindow ==
  \A index \in Ring, bytes \in 0 .. KeySize - 1 :
    Referred(index, bytes) = SubSeq(Window(index), 1, bytes)
=============================================================================
