-------------------------- MODULE EntityContainer --------------------------
(***************************************************************************)
(* The entity store of src/src/entity/entities.rs: dense slots of tracked  *)
(* entities, the class remembered for every entity a class filter skipped, *)
(* the occupancy counter, and the two per-tick journals (`updated` and     *)
(* `changes`) that a tick callback reads.                                  *)
(*                                                                         *)
(* One packet-entities message is a BeginPacket step followed by one step  *)
(* per delta, in strictly increasing slot order, as the decode loop does   *)
(* it; an error drops the rest of the message and keeps the deltas already *)
(* applied.  The caller's operations (Insert, ReserveSlots, the Clear      *)
(* family) run between messages.                                           *)
(*                                                                         *)
(* The field map of an entity is one opaque value of Payloads: what a      *)
(* delta decodes to is the choice of the stream.                           *)
(*                                                                         *)
(* A definition named Mutant... is a faulty version of the definition that *)
(* follows it and is used by no other: the properties must tell them apart.*)
(***************************************************************************)
EXTENDS Integers, Sequences, FiniteSets

CONSTANTS
  MaxIndex,   \* MAX_ENTITY_INDEX (16383 in the code)
  Serials,    \* serial numbers that tell the occupants of one slot apart
  Classes,    \* class ids that resolve to a class and to its serializer
  Payloads,   \* abstract values of an entity's field map
  Filters,    \* the class filters a caller passes
  NoFilter,   \* handle_packet_entities: no class filter
  NoEntity,   \* an empty slot
  NoClass,    \* the -1 of skipped_entity_classes
  MaxDeltas,  \* max_packet_entity_updates, the limit on one message
  MaxLog      \* bound on the journals between two clears (model only)

ASSUME MaxIndexAssumption  == MaxIndex \in Nat
ASSUME MaxDeltasAssumption == MaxDeltas \in Nat
ASSUME MaxLogAssumption    == MaxLog \in Nat
ASSUME FiltersAssumption   == Filters \subseteq SUBSET Classes

Slots == 0 .. MaxIndex
Kinds == {"Created", "Updated", "Reactivated", "LeftPvs", "Deleted"}

Entity == [serial : Serials, class : Classes, active : BOOLEAN,
           fields : Payloads]
Change == [kind : Kinds, index : Slots, serial : Serials, class : Classes]

ASSUME NoEntityAssumption == NoEntity \notin Entity
ASSUME NoClassAssumption  == NoClass \notin Classes

VARIABLES
  entities,        \* the slots
  slot_count,      \* entities.len()
  occupied_count,  \* the constant-time len()
  skipped,         \* skipped_entity_classes
  updated,         \* legacy journal: slots created or updated
  changes,         \* lifecycle journal
  remaining,       \* deltas left in the message being decoded, 0 when idle
  entity_index,    \* slot of the last delta of that message, -1 at its start
  class_filter,    \* filter of that message
  base,            \* history: the slots when `changes` was last cleared
  silent           \* history: slots changed since then with no record

store == <<entities, slot_count, occupied_count, skipped>>
journals == <<updated, changes>>
message == <<remaining, entity_index, class_filter>>
history == <<base, silent>>
vars == <<store, journals, message, history>>

Tracked(i) == entities[i] # NoEntity
MutantActive(i) == Tracked(i)
Active(i) == Tracked(i) /\ entities[i].active
Occupied   == {i \in Slots : Tracked(i)}

Init ==
  /\ entities = [i \in Slots |-> NoEntity]
  /\ slot_count = 0
  /\ occupied_count = 0
  /\ skipped = [i \in Slots |-> NoClass]
  /\ updated = <<>>
  /\ changes = <<>>
  /\ remaining = 0
  /\ entity_index = -1
  /\ class_filter = NoFilter
  /\ base = entities
  /\ silent = {}

----------------------------------------------------------------------------
(* The primitives that every path below goes through.                      *)

(* EntityChange::from_entity *)
ChangeOf(kind, i, e) ==
  [kind |-> kind, index |-> i, serial |-> e.serial, class |-> e.class]

(* Vec::resize_with(index + 1) when the slot lies past the end. *)
MutantGrownTo(i) == IF i >= slot_count THEN i + 2 ELSE slot_count
GrownTo(i) == IF i >= slot_count THEN i + 1 ELSE slot_count

(* usize::from(previous.is_none()) *)
MutantCountWith(i) == occupied_count + 1
CountWith(i) == IF Tracked(i) THEN occupied_count ELSE occupied_count + 1

MutantTouch(i) == IF \E k \in DOMAIN updated : updated[k] = i
                    THEN updated ELSE Append(updated, i)
Touch(i) == Append(updated, i)

(* The journal with the deletion of the occupant of slot i, if any. *)
DeletionLogged(i) ==
  IF Tracked(i) THEN Append(changes, ChangeOf("Deleted", i, entities[i]))
                ELSE changes

(* put_entity and insert: occupy the slot, growing the array, and record   *)
(* the deletion of a previous occupant before the creation of the new one. *)
PutEntity(i, e) ==
  /\ entities' = [entities EXCEPT ![i] = e]
  /\ slot_count' = GrownTo(i)
  /\ occupied_count' = CountWith(i)
  /\ changes' = Append(DeletionLogged(i), ChangeOf("Created", i, e))
  /\ updated' = Touch(i)

(* take_entity: nothing happens on an empty slot. *)
TakeEntity(i) ==
  /\ entities' = [entities EXCEPT ![i] = NoEntity]
  /\ occupied_count' = IF Tracked(i) THEN occupied_count - 1 ELSE occupied_count
  /\ UNCHANGED <<slot_count, updated>>

(* delete_entity *)
MutantDeleteEntity(i) == TakeEntity(i) /\ UNCHANGED changes
DeleteEntity(i) == TakeEntity(i) /\ changes' = DeletionLogged(i)

----------------------------------------------------------------------------
(* The decode loop of one message.                                         *)

Room == Len(changes) + 2 <= MaxLog /\ Len(updated) < MaxLog

BeginPacket(count, filter) ==
  /\ remaining = 0
  /\ remaining' = count
  /\ entity_index' = -1
  /\ class_filter' = filter
  /\ UNCHANGED <<store, journals, history>>

(* The next delta of the message addresses slot i. *)
TakeDelta(i) ==
  /\ remaining > 0
  /\ i > entity_index
  /\ Room
  /\ remaining' = remaining - 1
  /\ entity_index' = IF remaining = 1 THEN -1 ELSE i
  /\ class_filter' = IF remaining = 1 THEN NoFilter ELSE class_filter

(* An error leaves the loop. *)
AbandonMessage ==
  /\ remaining > 0
  /\ remaining' = 0
  /\ entity_index' = -1
  /\ class_filter' = NoFilter

InFilter(c) == c \in IF class_filter = NoFilter THEN Classes ELSE class_filter

MutantCreateTracked(i, e) ==
  TakeDelta(i) /\ InFilter(e.class) /\ PutEntity(i, e) /\ UNCHANGED <<skipped, history>>
CreateTracked(i, e) ==
  /\ TakeDelta(i)
  /\ InFilter(e.class)
  /\ e.active
  /\ skipped' = [skipped EXCEPT ![i] = NoClass]
  /\ PutEntity(i, e)
  /\ UNCHANGED history

MutantCreateSkipped(i, c) ==
  /\ TakeDelta(i)
  /\ ~InFilter(c)
  /\ skipped' = [skipped EXCEPT ![i] = c]
  /\ UNCHANGED <<entities, slot_count, occupied_count, journals, history>>
CreateSkipped(i, c) ==
  /\ TakeDelta(i)
  /\ ~InFilter(c)
  /\ DeleteEntity(i)
  /\ skipped' = [skipped EXCEPT ![i] = c]
  /\ UNCHANGED history

UpdateTracked(i, f) ==
  /\ TakeDelta(i)
  /\ Tracked(i)
  /\ LET kind == IF Active(i) THEN "Updated" ELSE "Reactivated"
     IN  changes' = Append(changes, ChangeOf(kind, i, entities[i]))
  /\ entities' = [entities EXCEPT ![i].active = TRUE, ![i].fields = f]
  /\ updated' = Touch(i)
  /\ UNCHANGED <<slot_count, occupied_count, skipped, history>>

(* A PVS bit cancels the update, or a filtered message updates a slot it   *)
(* does not track: the store does not move.                                *)
UpdateIgnored(i, pvs) ==
  /\ TakeDelta(i)
  /\ pvs \/ (class_filter # NoFilter /\ ~Tracked(i))
  /\ UNCHANGED <<store, journals, history>>

(* A plain leave: only an active tracked entity changes. *)
Leave(i) ==
  /\ TakeDelta(i)
  /\ IF Active(i)
       THEN /\ entities' = [entities EXCEPT ![i].active = FALSE]
            /\ changes' = Append(changes, ChangeOf("LeftPvs", i, entities[i]))
       ELSE UNCHANGED <<entities, changes>>
  /\ UNCHANGED <<slot_count, occupied_count, skipped, updated, history>>

(* Leave and delete: drops the tracked entity, else the skipped class. *)
LeaveDelete(i) ==
  /\ TakeDelta(i)
  /\ DeleteEntity(i)
  /\ skipped' = IF Tracked(i) THEN skipped ELSE [skipped EXCEPT ![i] = NoClass]
  /\ UNCHANGED history

(* A header out of range or truncated, a create or a skip that fails, an   *)
(* update of an empty slot without a filter: nothing is stored.            *)
RejectDelta ==
  /\ AbandonMessage
  /\ UNCHANGED <<store, journals, history>>

(* An update that fails in its serializer lookup or in its field loop: the *)
(* entity is already active again, some fields may be stored, and neither  *)
(* journal hears of it.                                                    *)
FailUpdate(i, f) ==
  /\ AbandonMessage
  /\ i > entity_index
  /\ Tracked(i)
  /\ entities' = [entities EXCEPT ![i].active = TRUE, ![i].fields = f]
  /\ silent' = silent \cup {i}
  /\ UNCHANGED <<slot_count, occupied_count, skipped, journals, base>>

----------------------------------------------------------------------------
(* The caller's operations.                                                *)

(* A dormant entity is announced like an active one, so its activity is    *)
(* not in the journal.                                                     *)
Insert(i, e) ==
  /\ remaining = 0
  /\ Room
  /\ PutEntity(i, e)
  /\ silent' = IF e.active THEN silent ELSE silent \cup {i}
  /\ UNCHANGED <<skipped, message, base>>

(* Shrinking drops the entities past the new end without a record. *)
ReserveSlots(n) ==
  LET dropped == {i \in Occupied : i >= n}
  IN  /\ remaining = 0
      /\ entities' = [i \in Slots |-> IF i < n THEN entities[i] ELSE NoEntity]
      /\ slot_count' = n
      /\ occupied_count' = occupied_count - Cardinality(dropped)
      /\ silent' = silent \cup dropped
      /\ UNCHANGED <<skipped, journals, message, base>>

ClearUpdated ==
  /\ remaining = 0
  /\ updated' = <<>>
  /\ UNCHANGED <<store, changes, message, history>>

ForgetChanges ==
  /\ remaining = 0
  /\ changes' = <<>>
  /\ base' = entities
  /\ silent' = {}
  /\ UNCHANGED <<store, message>>

ClearEntityChanges == ForgetChanges /\ UNCHANGED updated
ClearTickChanges   == ForgetChanges /\ updated' = <<>>

DecodeStep ==
  \/ \E n \in 1 .. MaxDeltas, f \in Filters \cup {NoFilter} : BeginPacket(n, f)
  \/ \E i \in Slots, e \in Entity : CreateTracked(i, e)
  \/ \E i \in Slots, c \in Classes : CreateSkipped(i, c)
  \/ \E i \in Slots, f \in Payloads : UpdateTracked(i, f)
  \/ \E i \in Slots, pvs \in BOOLEAN : UpdateIgnored(i, pvs)
  \/ \E i \in Slots : Leave(i)
  \/ \E i \in Slots : LeaveDelete(i)
  \/ RejectDelta
  \/ \E i \in Slots, f \in Payloads : FailUpdate(i, f)

CallerStep ==
  \/ \E i \in Slots, e \in Entity : Insert(i, e)
  \/ \E n \in 0 .. MaxIndex + 1 : ReserveSlots(n)
  \/ ClearUpdated
  \/ ClearEntityChanges
  \/ ClearTickChanges

Next == DecodeStep \/ CallerStep

Spec == Init /\ [][Next]_vars

----------------------------------------------------------------------------
(* Properties.                                                             *)

TypeOK ==
  /\ entities \in [Slots -> Entity \cup {NoEntity}]
  /\ slot_count \in 0 .. MaxIndex + 1
  /\ occupied_count \in Int
  /\ skipped \in [Slots -> Classes \cup {NoClass}]
  /\ updated \in Seq(Slots)
  /\ changes \in Seq(Change)
  /\ remaining \in 0 .. MaxDeltas
  /\ entity_index \in -1 .. MaxIndex
  /\ class_filter \in Filters \cup {NoFilter}
  /\ base \in [Slots -> Entity \cup {NoEntity}]
  /\ silent \in SUBSET Slots

(* len() is constant-time: the counter kept by put_entity, take_entity,    *)
(* insert and reserve_slots always equals the number of occupied slots,    *)
(* and every occupied slot lies inside the slot array.                     *)
CountCoherent ==
  /\ occupied_count = Cardinality(Occupied)
  /\ \A i \in Occupied : i < slot_count

(* k is the newest record of slot i among the first n of a journal. *)
IsLast(log, k, n, i) ==
  /\ k \in 1 .. n
  /\ log[k].index = i
  /\ \A m \in k + 1 .. n : log[m].index # i

(* The first n records of a journal are all about other slots than i. *)
Unmentioned(log, n, i) == \A m \in 1 .. n : log[m].index # i

(* The state of a slot that a record leaves behind. *)
Explains(c, e) ==
  IF c.kind = "Deleted"
    THEN e = NoEntity
    ELSE /\ e # NoEntity
         /\ e.serial = c.serial
         /\ e.class = c.class
         /\ e.active = (c.kind # "LeftPvs")

(* Reading the journal from the slots `from` on tells the slots `to`. *)
LogLeadsTo(log, from, to, slots) ==
  \A i \in slots :
    /\ Unmentioned(log, Len(log), i) => to[i] = from[i]
    /\ \A k \in 1 .. Len(log) :
         IsLast(log, k, Len(log), i) => Explains(log[k], to[i])

(* A consumer that holds the slots as they were when the journal was last  *)
(* cleared and reads entity_changes() knows who occupies each slot now and *)
(* whether it is in the PVS, and a slot without a record has not changed   *)
(* at all.  The exceptions are the slots in `silent`.                      *)
LogExplainsState == LogLeadsTo(changes, base, entities, Slots \ silent)

(* The record c may come next for a slot that e describes: a creation only *)
(* in an empty slot, any other record names the occupant, and Updated and  *)
(* LeftPvs need an active one, Reactivated a dormant one.                  *)
Follows(c, e) ==
  IF c.kind = "Created"
    THEN e = NoEntity
    ELSE /\ e # NoEntity
         /\ e.serial = c.serial
         /\ e.class = c.class
         /\ c.kind \in {"Updated", "LeftPvs"} => e.active = TRUE
         /\ c.kind = "Reactivated" => e.active = FALSE

(* The same for a slot known only by its previous record p. *)
FollowsRecord(c, p) ==
  IF p.kind = "Deleted"
    THEN c.kind = "Created"
    ELSE /\ c.kind # "Created"
         /\ c.serial = p.serial
         /\ c.class = p.class
         /\ c.kind \in {"Updated", "LeftPvs"} => p.kind # "LeftPvs"
         /\ c.kind = "Reactivated" => p.kind = "LeftPvs"

LegalLives(log, from, slots) ==
  \A k \in 1 .. Len(log) :
    log[k].index \in slots =>
      /\ Unmentioned(log, k - 1, log[k].index) => Follows(log[k], from[log[k].index])
      /\ \A p \in 1 .. k - 1 :
           IsLast(log, p, k - 1, log[k].index) => FollowsRecord(log[k], log[p])

(* The lifecycle journal of one slot is a legal life: it starts from the   *)
(* slot's state at the last clear, a slot is reused only after the record  *)
(* of the deletion, an entity changes identity only through deletion, and  *)
(* PVS transitions alternate.                                              *)
LogWellFormed == LegalLives(changes, base, Slots \ silent)

(* The two journals are cleared separately, yet never disagree: counted    *)
(* back from the newest, the slots of the Created, Updated and Reactivated *)
(* records and updated_indices() are the same up to the part one of them   *)
(* has already dropped.                                                    *)
Touches(log) == {k \in DOMAIN log : log[k].kind \in {"Created", "Updated", "Reactivated"}}
Since(log, k) == {j \in Touches(log) : j >= k}
SameTouches(log, touched) ==
  \A k \in Touches(log) :
    LET back == Cardinality(Since(log, k))
    IN  back <= Len(touched) => touched[Len(touched) - back + 1] = log[k].index
JournalsAgree == SameTouches(changes, updated)
=============================================================================
