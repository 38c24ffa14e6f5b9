--------------------------- MODULE FilteredDecode ---------------------------
(***************************************************************************)
(* One bit stream read by two decoders in lock step: `full`, a container   *)
(* that decodes everything (handle_packet_entities), and `mine`, the       *)
(* container of a filtered playback: everything during sign-on             *)
(* (Playback::initialize passes no class filter), then only the classes    *)
(* with a selected name (handle_packet_entities_filtered).                 *)
(*                                                                         *)
(* The stream is one that the full decoder accepts.  The two containers    *)
(* are two instances of EntityContainer that share the message header, so  *)
(* every step is a step of both.                                           *)
(*                                                                         *)
(* An entity carries the id and the name of the class it was created with, *)
(* and its deltas are read with the serializer of that name.  Of an entity *)
(* it does not store the filtered decoder remembers the id alone, and      *)
(* reads past its deltas with the serializer of the name that the id has   *)
(* now: class tables may be replaced between two messages.  If nothing is  *)
(* remembered, or the name is another, the rest of the message is misread. *)
(* (The skip set of the container keeps whole classes; of those only the   *)
(* id is read here.)                                                       *)
(***************************************************************************)
EXTENDS Integers, Sequences, FiniteSets

CONSTANTS
  MaxIndex, Serials, Payloads, NoFilter, NoEntity, NoClass,
  MaxDeltas, MaxLog,
  ClassIds, Names,
  SelectedNames   \* the classes the caller asked for

(* class_id and class_name of an entity and of a record. *)
Classes  == [id : ClassIds, name : Names]
Selected == {c \in Classes : c.name \in SelectedNames}

ASSUME BoundsAssumption   == MaxIndex \in Nat /\ MaxDeltas \in Nat /\ MaxLog \in Nat
ASSUME NoFilterAssumption == NoFilter # Selected
ASSUME NoClassAssumption  == NoClass \notin Classes

VARIABLES
  full, fullSlots, fullCount, fullSkipped, fullUpdated, fullChanges,
  fullBase, fullSilent,
  fullFilter,     \* the filter of the message `full` is decoding: none
  mine, mineSlots, mineCount, mineSkipped, mineUpdated, mineChanges,
  mineBase, mineSilent,
  remaining, entity_index,
  class_filter,   \* the filter of the message `mine` is decoding
  filtering,      \* sign-on is over, messages carry the filter
  class_info,     \* the class table: the name of every id
  renamed,        \* history: a table gave the id of an entity another name
  astray          \* the filtered decoder has misread a delta

Full == INSTANCE EntityContainer WITH
  Filters <- {Selected}, class_filter <- fullFilter,
  entities <- full, slot_count <- fullSlots, occupied_count <- fullCount,
  skipped <- fullSkipped, updated <- fullUpdated, changes <- fullChanges,
  base <- fullBase, silent <- fullSilent

Mine == INSTANCE EntityContainer WITH
  Filters <- {Selected},
  entities <- mine, slot_count <- mineSlots, occupied_count <- mineCount,
  skipped <- mineSkipped, updated <- mineUpdated, changes <- mineChanges,
  base <- mineBase, silent <- mineSilent

ASSUME NoEntityAssumption == NoEntity \notin Full!Entity

schema == <<class_info, renamed>>
reading == <<filtering, schema, astray>>
containers ==
  <<full, fullSlots, fullCount, fullSkipped, fullUpdated, fullChanges, fullBase, fullSilent,
    mine, mineSlots, mineCount, mineSkipped, mineUpdated, mineChanges, mineBase, mineSilent,
    remaining, entity_index, fullFilter, class_filter>>
vars == <<containers, reading>>

Slots == Full!Slots

Init ==
  /\ Full!Init
  /\ Mine!Init
  /\ filtering = FALSE
  /\ class_info \in [ClassIds -> Names]
  /\ renamed = FALSE
  /\ astray = FALSE

----------------------------------------------------------------------------

BeginPacket(n) ==
  /\ Full!BeginPacket(n, NoFilter)
  /\ Mine!BeginPacket(n, IF filtering THEN Selected ELSE NoFilter)
  /\ UNCHANGED reading

Create(i, e) ==
  /\ e.class.name = class_info[e.class.id]
  /\ Full!CreateTracked(i, e)
  /\ Mine!CreateTracked(i, e) \/ Mine!CreateSkipped(i, e.class)
  /\ UNCHANGED reading

(* What handle_update_filtered finds for a slot it does not store: the     *)
(* serializer the entity is sent with, or another one, or nothing at all,  *)
(* whereupon it leaves the reader where it was.                            *)
ReadsPast(i) ==
  /\ mineSkipped[i] # NoClass
  /\ class_info[mineSkipped[i].id] = full[i].class.name

UpdateStored(i, f) ==
  /\ Full!UpdateTracked(i, f)
  /\ Mine!UpdateTracked(i, f)
  /\ UNCHANGED reading

UpdateSkipped(i, f) ==
  /\ Full!UpdateTracked(i, f)
  /\ Mine!UpdateIgnored(i, FALSE)
  /\ astray' = ~ReadsPast(i)
  /\ UNCHANGED <<filtering, schema>>

(* A PVS bit cancels the update before either decoder looks at the slot. *)
UpdateCancelled(i) ==
  /\ Full!UpdateIgnored(i, TRUE)
  /\ Mine!UpdateIgnored(i, TRUE)
  /\ UNCHANGED reading

Leave(i) == Full!Leave(i) /\ Mine!Leave(i) /\ UNCHANGED reading

LeaveDelete(i) == Full!LeaveDelete(i) /\ Mine!LeaveDelete(i) /\ UNCHANGED reading

(* After a tick callback. *)
ClearTick == Full!ClearTickChanges /\ Mine!ClearTickChanges /\ UNCHANGED reading

(* The end of Playback::initialize: the sign-on records are dropped, and   *)
(* every later message carries the caller's filter.                        *)
EndSignon ==
  /\ ~filtering
  /\ filtering' = TRUE
  /\ Full!ClearEntityChanges
  /\ Mine!ClearEntityChanges
  /\ UNCHANGED <<schema, astray>>

(* CommandContext::install_class_info looks at no entity. *)
InstallClassInfo(table) ==
  /\ remaining = 0
  /\ class_info' = table
  /\ renamed' = (renamed \/ \E i \in Slots :
                              full[i] # NoEntity /\ table[full[i].class.id] # full[i].class.name)
  /\ UNCHANGED <<containers, filtering, astray>>

(* What a decoder that has lost its place does is not modelled. *)
Next ==
  /\ ~astray
  /\ \/ \E n \in 1 .. MaxDeltas : BeginPacket(n)
     \/ \E i \in Slots, e \in Full!Entity : Create(i, e)
     \/ \E i \in Slots, f \in Payloads : UpdateStored(i, f)
     \/ \E i \in Slots, f \in Payloads : UpdateSkipped(i, f)
     \/ \E i \in Slots : UpdateCancelled(i)
     \/ \E i \in Slots : Leave(i)
     \/ \E i \in Slots : LeaveDelete(i)
     \/ ClearTick
     \/ EndSignon
     \/ \E table \in [ClassIds -> Names] : InstallClassInfo(table)

Spec == Init /\ [][Next]_vars

----------------------------------------------------------------------------
(* Properties.                                                             *)

(* What the filtered decoder materializes is the entity of the full        *)
(* decode, in identity, activity and fields, and it materializes every     *)
(* entity of a selected class: skipping the others never disturbs it.      *)
FilteredAgrees ==
  \A i \in Slots :
    /\ mine[i] # NoEntity => mine[i] = full[i]
    /\ (full[i] # NoEntity /\ full[i].class \in Selected) => mine[i] = full[i]

(* The filtered decoder always knows with which serializer to read past an *)
(* update it does not store, and forgets the class as soon as the slot is  *)
(* emptied or taken by an entity it stores.  So it loses its place in no   *)
(* stream that the full decoder accepts (the "index is in neither map"     *)
(* exit of handle_update_filtered, which leaves the reader where it was,   *)
(* is never reached), whatever class tables are installed on the way, as   *)
(* long as none renames the id of an entity that is alive.                 *)
SkipSetExact ==
  /\ \A i \in Slots :
       mineSkipped[i] = IF full[i] # NoEntity /\ mine[i] = NoEntity
                          THEN full[i].class
                          ELSE NoClass
  /\ astray => renamed

(* The filtered lifecycle journal is the full one without the records of   *)
(* the other classes: as many records of the selected classes, and those   *)
(* at the same place among them are the same.                              *)
OfSelected(log) == {k \in DOMAIN log : log[k].class \in Selected}
Place(log, k) == Cardinality({j \in OfSelected(log) : j <= k})
Projects(part, whole) ==
  /\ Cardinality(OfSelected(part)) = Cardinality(OfSelected(whole))
  /\ \A m \in OfSelected(part), f \in OfSelected(whole) :
       Place(part, m) = Place(whole, f) => part[m] = whole[f]
JournalProjects == Projects(mineChanges, fullChanges)

(* guide/playback.md on filtered playback: it "skips storage and value     *)
(* materialization for unselected classes".                                *)
OnlySelectedRecorded ==
  filtering => Mine!Touches(mineChanges) \subseteq OfSelected(mineChanges)
=============================================================================
