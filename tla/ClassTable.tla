----------------------------- MODULE ClassTable -----------------------------
(***************************************************************************)
(* The table of network classes (src/src/entity/class_info.rs): which      *)
(* lists of classes are accepted, the table built from one, and how it     *)
(* replaces the one before.                                                *)
(***************************************************************************)
EXTENDS Integers, Sequences, FiniteSets

CONSTANTS
  MaxClasses, MaxClassId,  \* DecodeLimits
  ClassLists               \* lists of network classes

ASSUME MaxClassIdAssumption == MaxClassId \in Nat
ASSUME ClassListsAssumption ==
  \A entries \in ClassLists : entries \in Seq({entries[k] : k \in DOMAIN entries})

VARIABLE class_info        \* the class table installed

NoEntry == 0

(* Every id is a number within the limit, no id and no name comes twice.   *)
ClassesAccepted(entries) ==
  /\ Len(entries) <= MaxClasses
  /\ \A k \in DOMAIN entries : entries[k].class_id \in 0 .. MaxClassId
  /\ \A j, k \in DOMAIN entries : j # k =>
       /\ entries[j].class_id # entries[k].class_id
       /\ entries[j].network_name # entries[k].network_name

MaxId(entries) ==
  IF entries = <<>> THEN 0
  ELSE LET ids == {entries[k].class_id : k \in DOMAIN entries}
       IN  CHOOSE id \in ids : \A other \in ids : other <= id

(* The bits an id is read with: those of the greatest, and never none.     *)
PowerOf2[n \in 0 .. MaxClassId + 1] == IF n = 0 THEN 1 ELSE 2 * PowerOf2[n - 1]
MutantBits(entries) ==
  CHOOSE n \in 1 .. MaxClassId + 1 :
    MaxId(entries) <= PowerOf2[n] /\ \A fewer \in 1 .. n - 1 : MaxId(entries) > PowerOf2[fewer]
Bits(entries) ==
  CHOOSE n \in 1 .. MaxClassId + 1 :
    MaxId(entries) < PowerOf2[n] /\ \A fewer \in 1 .. n - 1 : MaxId(entries) >= PowerOf2[fewer]

ClassTableOf(entries) ==
  [classes |-> entries,
   bits    |-> IF entries = <<>> THEN 1 ELSE Bits(entries),
   lookup  |-> [id \in IF entries = <<>> THEN {} ELSE 0 .. MaxId(entries) |->
                  IF \E k \in DOMAIN entries : entries[k].class_id = id
                    THEN CHOOSE k \in DOMAIN entries : entries[k].class_id = id ELSE NoEntry],
   name_lookup |-> [name \in {entries[k].network_name : k \in DOMAIN entries} |->
                      entries[CHOOSE k \in DOMAIN entries :
                                entries[k].network_name = name].class_id]]

(* ClassInfo::empty *)
NoClasses == ClassTableOf(<<>>)

(* by_id, of any number *)
ById(table, id) == IF id \in DOMAIN table.lookup THEN table.lookup[id] ELSE NoEntry
(* id_of *)
IdOf(table, name) == IF name \in DOMAIN table.name_lookup THEN table.name_lookup[name] ELSE -1

----------------------------------------------------------------------------
(* The table of a playback.  An error leaves the one that was installed.   *)

ClassesInit == class_info = NoClasses

InstallClasses(entries) ==
  class_info' = IF ClassesAccepted(entries) THEN ClassTableOf(entries) ELSE class_info

ClassesSpec == ClassesInit /\ [][\E entries \in ClassLists : InstallClasses(entries)]_class_info

(* Every class of the table has an id that its bits can hold, and is found *)
(* by its id and by its name; no other number and no other name finds one. *)
ClassesReadable ==
  LET ids == {class_info.classes[k].class_id : k \in DOMAIN class_info.classes}
  IN  /\ \A k \in DOMAIN class_info.classes :
           LET entry == class_info.classes[k]
           IN  /\ entry.class_id < PowerOf2[class_info.bits]
               /\ ById(class_info, entry.class_id) = k
               /\ IdOf(class_info, entry.network_name) = entry.class_id
      /\ \A id \in -1 .. PowerOf2[class_info.bits] : ById(class_info, id) # NoEntry => id \in ids
=============================================================================
