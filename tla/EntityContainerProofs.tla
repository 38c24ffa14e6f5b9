----------------------- MODULE EntityContainerProofs -----------------------
(***************************************************************************)
(* Proofs about EntityContainer, for any number of slots, classes, serials *)
(* and filters and any bound on messages and journals: types, the count,   *)
(* the lifecycle journal as an account of the slots, and its agreement     *)
(* with the list of updated slots; and about the caches it derives         *)
(* (SchemaCaches): no pointer comparison ever accepts something stale.     *)
(*                                                                         *)
(* The argument for the caches: an address determines the content it was   *)
(* allocated for.  Two sessions that hold the same revision hold the same  *)
(* bytes, and what a cache recorded under an address agrees with every     *)
(* session that holds that address, because a new address is one that      *)
(* nobody holds.                                                           *)
(***************************************************************************)
EXTENDS EntityContainer, SchemaCaches, FiniteSetTheorems, TLAPS

LEMMA ChangeOfType ==
  ASSUME NEW k \in Kinds, NEW i \in Slots, NEW e \in Entity
  PROVE  ChangeOf(k, i, e) \in Change
  BY DEF ChangeOf, Change, Entity

(* The two ways a step changes the slot array keep it and the journal of   *)
(* the right type.                                                         *)
LEMMA PutEntityType ==
  ASSUME TypeOK, NEW i \in Slots, NEW e \in Entity, PutEntity(i, e)
  PROVE  /\ entities' \in [Slots -> Entity \cup {NoEntity}]
         /\ slot_count' \in 0 .. MaxIndex + 1
         /\ occupied_count' \in Int
         /\ updated' \in Seq(Slots)
         /\ changes' \in Seq(Change)
<1>1. Tracked(i) => entities[i] \in Entity
  BY DEF Tracked, TypeOK
<1>2. changes' \in Seq(Change)
  BY <1>1, ChangeOfType DEF PutEntity, GrownTo, CountWith, Touch, DeletionLogged, TypeOK, Kinds
<1>3. QED
  BY <1>2, MaxIndexAssumption DEF PutEntity, GrownTo, CountWith, Touch, DeletionLogged, TypeOK, Slots

LEMMA DeleteEntityType ==
  ASSUME TypeOK, NEW i \in Slots, DeleteEntity(i)
  PROVE  /\ entities' \in [Slots -> Entity \cup {NoEntity}]
         /\ slot_count' \in 0 .. MaxIndex + 1
         /\ occupied_count' \in Int
         /\ updated' \in Seq(Slots)
         /\ changes' \in Seq(Change)
<1>1. Tracked(i) => ChangeOf("Deleted", i, entities[i]) \in Change
  BY ChangeOfType DEF Tracked, TypeOK, Kinds
<1>2. changes' \in Seq(Change)
  BY <1>1 DEF DeleteEntity, TakeEntity, DeletionLogged, TypeOK
<1>3. QED
  BY <1>2 DEF DeleteEntity, TakeEntity, DeletionLogged, TypeOK

LEMMA TakeDeltaType ==
  ASSUME TypeOK, NEW i \in Slots, TakeDelta(i)
  PROVE  /\ remaining' \in 0 .. MaxDeltas
         /\ entity_index' \in -1 .. MaxIndex
         /\ class_filter' \in Filters \cup {NoFilter}
  BY MaxIndexAssumption, MaxDeltasAssumption DEF TypeOK, TakeDelta, Slots

LEMMA AbandonMessageType ==
  ASSUME TypeOK, AbandonMessage
  PROVE  /\ remaining' \in 0 .. MaxDeltas
         /\ entity_index' \in -1 .. MaxIndex
         /\ class_filter' \in Filters \cup {NoFilter}
  BY MaxIndexAssumption, MaxDeltasAssumption DEF TypeOK, AbandonMessage

LEMMA InitTypeOK == Init => TypeOK
  BY MaxIndexAssumption, MaxDeltasAssumption DEF Init, TypeOK, Slots

LEMMA NextTypeOK == TypeOK /\ [Next]_vars => TypeOK'
<1> SUFFICES ASSUME TypeOK, [Next]_vars PROVE TypeOK'
  OBVIOUS
<1> USE DEF store, journals, message, history
<1>1. ASSUME NEW n \in 1 .. MaxDeltas, NEW f \in Filters \cup {NoFilter},
             BeginPacket(n, f)
      PROVE  TypeOK'
  BY <1>1, MaxDeltasAssumption, MaxIndexAssumption DEF TypeOK, BeginPacket
<1>2. ASSUME NEW i \in Slots, NEW e \in Entity, CreateTracked(i, e)
      PROVE  TypeOK'
  BY <1>2, PutEntityType, TakeDeltaType DEF TypeOK, CreateTracked
<1>3. ASSUME NEW i \in Slots, NEW c \in Classes, CreateSkipped(i, c)
      PROVE  TypeOK'
  BY <1>3, DeleteEntityType, TakeDeltaType DEF TypeOK, CreateSkipped
<1>4. ASSUME NEW i \in Slots, NEW f \in Payloads, UpdateTracked(i, f)
      PROVE  TypeOK'
  <2>1. entities[i] \in Entity
    BY <1>4 DEF UpdateTracked, Tracked, TypeOK
  <2>2. entities' \in [Slots -> Entity \cup {NoEntity}]
    <3>1. entities' = [entities EXCEPT ![i].active = TRUE, ![i].fields = f]
      BY <1>4 DEF UpdateTracked
    <3>2. [entities[i] EXCEPT !.active = TRUE, !.fields = f] \in Entity
      BY <2>1 DEF Entity
    <3>3. QED
      BY <3>1, <3>2 DEF TypeOK
  <2>3. changes' \in Seq(Change)
    BY <1>4, <2>1, ChangeOfType DEF UpdateTracked, TypeOK, Kinds
  <2>4. /\ TakeDelta(i)
        /\ updated' = Append(updated, i)
        /\ UNCHANGED <<slot_count, occupied_count, skipped, base, silent>>
    BY <1>4 DEF UpdateTracked, Touch
  <2>5. QED
    BY <2>2, <2>3, <2>4, TakeDeltaType DEF TypeOK
<1>5. ASSUME NEW i \in Slots, NEW pvs \in BOOLEAN, UpdateIgnored(i, pvs)
      PROVE  TypeOK'
  BY <1>5, TakeDeltaType DEF TypeOK, UpdateIgnored
<1>6. ASSUME NEW i \in Slots, Leave(i)
      PROVE  TypeOK'
  <2>1. /\ TakeDelta(i)
        /\ UNCHANGED <<slot_count, occupied_count, skipped, updated, base,
                       silent>>
    BY <1>6 DEF Leave
  <2>2. /\ entities' \in [Slots -> Entity \cup {NoEntity}]
        /\ changes' \in Seq(Change)
    <3>1. CASE Active(i)
      <4>1. entities[i] \in Entity
        BY <3>1 DEF Active, Tracked, TypeOK
      <4>2. entities' \in [Slots -> Entity \cup {NoEntity}]
        <5>1. entities' = [entities EXCEPT ![i].active = FALSE]
          BY <1>6, <3>1 DEF Leave
        <5>2. [entities[i] EXCEPT !.active = FALSE] \in Entity
          BY <4>1 DEF Entity
        <5>3. QED
          BY <5>1, <5>2 DEF TypeOK
      <4>3. changes' = Append(changes, ChangeOf("LeftPvs", i, entities[i]))
        BY <1>6, <3>1 DEF Leave
      <4>4. QED
        BY <4>1, <4>2, <4>3, ChangeOfType DEF TypeOK, Kinds
    <3>2. CASE ~Active(i)
      BY <1>6, <3>2 DEF Leave, TypeOK
    <3>3. QED
      BY <3>1, <3>2
  <2>3. QED
    BY <2>1, <2>2, TakeDeltaType DEF TypeOK
<1>7. ASSUME NEW i \in Slots, LeaveDelete(i)
      PROVE  TypeOK'
  BY <1>7, DeleteEntityType, TakeDeltaType DEF TypeOK, LeaveDelete
<1>8. CASE RejectDelta
  BY <1>8, AbandonMessageType DEF TypeOK, RejectDelta
<1>9. ASSUME NEW i \in Slots, NEW f \in Payloads, FailUpdate(i, f)
      PROVE  TypeOK'
  <2>1. entities' \in [Slots -> Entity \cup {NoEntity}]
    <3>1. entities[i] \in Entity
      BY <1>9 DEF FailUpdate, Tracked, TypeOK
    <3>2. entities' = [entities EXCEPT ![i].active = TRUE, ![i].fields = f]
      BY <1>9 DEF FailUpdate
    <3>3. [entities[i] EXCEPT !.active = TRUE, !.fields = f] \in Entity
      BY <3>1 DEF Entity
    <3>4. QED
      BY <3>2, <3>3 DEF TypeOK
  <2>2. QED
    BY <1>9, <2>1, AbandonMessageType DEF FailUpdate, TypeOK
<1>10. ASSUME NEW i \in Slots, NEW e \in Entity, Insert(i, e)
       PROVE  TypeOK'
  BY <1>10, PutEntityType DEF TypeOK, Insert
<1>11. ASSUME NEW n \in 0 .. MaxIndex + 1, ReserveSlots(n)
       PROVE  TypeOK'
  <2>1. Cardinality({i \in Occupied : i >= n}) \in Int
    <3>1. {i \in Occupied : i >= n} \in SUBSET Slots
      BY DEF Occupied
    <3>2. IsFiniteSet(Slots)
      BY FS_Interval, MaxIndexAssumption DEF Slots
    <3>3. QED
      BY <3>1, <3>2, FS_Subset, FS_CardinalityType
  <2>2. QED
    BY <1>11, <2>1 DEF TypeOK, ReserveSlots, Occupied
<1>12. CASE ClearUpdated
  BY <1>12 DEF TypeOK, ClearUpdated
<1>13. CASE ClearEntityChanges
  BY <1>13 DEF TypeOK, ClearEntityChanges, ForgetChanges
<1>14. CASE ClearTickChanges
  BY <1>14 DEF TypeOK, ClearTickChanges, ForgetChanges
<1>15. CASE UNCHANGED vars
  BY <1>15 DEF TypeOK, vars
<1>16. QED
  BY <1>1, <1>2, <1>3, <1>4, <1>5, <1>6, <1>7, <1>8, <1>9, <1>10, <1>11,
     <1>12, <1>13, <1>14, <1>15 DEF Next, DecodeStep, CallerStep

(* Every variable keeps its type: slots hold entities, both journals hold  *)
(* records of legal slots, and a message never has more deltas left than   *)
(* the limit lets through.                                                 *)
THEOREM TypeCorrect == Spec => []TypeOK
  BY InitTypeOK, NextTypeOK, PTL DEF Spec

----------------------------------------------------------------------------
(* The occupancy counter.                                                  *)

LEMMA OccupiedFinite == IsFiniteSet(Occupied)
<1>1. IsFiniteSet(Slots)
  BY FS_Interval, MaxIndexAssumption DEF Slots
<1>2. QED
  BY <1>1, FS_Subset DEF Occupied

LEMMA PutEntityCount ==
  ASSUME TypeOK, CountCoherent, NEW i \in Slots, NEW e \in Entity,
         PutEntity(i, e)
  PROVE  CountCoherent'
<1>1. Occupied' = Occupied \cup {i}
  BY NoEntityAssumption DEF PutEntity, GrownTo, CountWith, Touch, DeletionLogged, Occupied, Tracked, TypeOK
<1>2. occupied_count' = Cardinality(Occupied')
  <2>1. i \in Occupied <=> Tracked(i)
    BY DEF Occupied
  <2>2. Cardinality(Occupied \cup {i}) =
          IF i \in Occupied THEN Cardinality(Occupied) ELSE Cardinality(Occupied) + 1
    BY OccupiedFinite, FS_AddElement
  <2>3. QED
    BY <1>1, <2>1, <2>2 DEF PutEntity, GrownTo, CountWith, Touch, DeletionLogged, CountCoherent
<1>3. \A j \in Occupied' : j < slot_count'
  <2>1. /\ slot_count \in Nat /\ i \in Nat
        /\ slot_count' = IF i >= slot_count THEN i + 1 ELSE slot_count
    BY MaxIndexAssumption DEF PutEntity, GrownTo, CountWith, Touch, DeletionLogged, TypeOK, Slots
  <2>2. \A j \in Occupied : j \in Nat /\ j < slot_count
    BY MaxIndexAssumption DEF CountCoherent, Occupied, Slots
  <2>3. QED
    BY <1>1, <2>1, <2>2
<1>4. QED
  BY <1>2, <1>3 DEF CountCoherent

LEMMA DeleteEntityCount ==
  ASSUME TypeOK, CountCoherent, NEW i \in Slots, DeleteEntity(i)
  PROVE  CountCoherent'
<1>1. Occupied' = Occupied \ {i}
  BY DEF DeleteEntity, TakeEntity, DeletionLogged, Occupied, Tracked, TypeOK
<1>2. occupied_count' = Cardinality(Occupied')
  <2>1. i \in Occupied <=> Tracked(i)
    BY DEF Occupied
  <2>2. Cardinality(Occupied \ {i}) =
          IF i \in Occupied THEN Cardinality(Occupied) - 1 ELSE Cardinality(Occupied)
    BY OccupiedFinite, FS_RemoveElement
  <2>3. QED
    BY <1>1, <2>1, <2>2 DEF DeleteEntity, TakeEntity, DeletionLogged, CountCoherent
<1>3. QED
  BY <1>1, <1>2 DEF DeleteEntity, TakeEntity, DeletionLogged, CountCoherent

(* A step that rewrites the entity of an occupied slot moves neither side. *)
LEMMA RewriteCount ==
  ASSUME TypeOK, CountCoherent, Occupied' = Occupied,
         UNCHANGED <<slot_count, occupied_count>>
  PROVE  CountCoherent'
  BY DEF CountCoherent

LEMMA InitCount == Init => CountCoherent
<1> SUFFICES ASSUME Init PROVE CountCoherent
  OBVIOUS
<1>1. Occupied = {}
  BY DEF Init, Occupied, Tracked
<1>2. QED
  BY <1>1, FS_EmptySet DEF Init, CountCoherent

LEMMA NextCount == TypeOK /\ CountCoherent /\ [Next]_vars => CountCoherent'
<1> SUFFICES ASSUME TypeOK, CountCoherent, [Next]_vars PROVE CountCoherent'
  OBVIOUS
<1> USE DEF store, journals, message, history
<1>1. ASSUME UNCHANGED store PROVE CountCoherent'
  BY <1>1 DEF CountCoherent, Occupied, Tracked
<1>2. ASSUME NEW i \in Slots, NEW e \in Entity, CreateTracked(i, e)
      PROVE  CountCoherent'
  BY <1>2, PutEntityCount DEF CreateTracked
<1>3. ASSUME NEW i \in Slots, NEW c \in Classes, CreateSkipped(i, c)
      PROVE  CountCoherent'
  BY <1>3, DeleteEntityCount DEF CreateSkipped
<1>4. ASSUME NEW i \in Slots, NEW f \in Payloads,
             UpdateTracked(i, f) \/ FailUpdate(i, f)
      PROVE  CountCoherent'
  <2>1. /\ entities[i] \in Entity
        /\ entities' = [entities EXCEPT ![i].active = TRUE, ![i].fields = f]
        /\ UNCHANGED <<slot_count, occupied_count>>
    BY <1>4 DEF UpdateTracked, FailUpdate, Tracked, TypeOK
  <2>2. Occupied' = Occupied
    <3>1. entities'[i] \in Entity
      BY <2>1 DEF Entity, TypeOK
    <3>2. QED
      BY <2>1, <3>1, NoEntityAssumption DEF Occupied, Tracked, TypeOK
  <2>3. QED
    BY <2>1, <2>2, RewriteCount
<1>5. ASSUME NEW i \in Slots, Leave(i)
      PROVE  CountCoherent'
  <2>1. UNCHANGED <<slot_count, occupied_count>>
    BY <1>5 DEF Leave
  <2>2. Occupied' = Occupied
    <3>1. CASE Active(i)
      <4>1. /\ entities[i] \in Entity
            /\ entities' = [entities EXCEPT ![i].active = FALSE]
        BY <1>5, <3>1 DEF Leave, Active, Tracked, TypeOK
      <4>2. entities'[i] \in Entity
        BY <4>1 DEF Entity, TypeOK
      <4>3. QED
        BY <4>1, <4>2, NoEntityAssumption DEF Occupied, Tracked, TypeOK
    <3>2. CASE ~Active(i)
      BY <1>5, <3>2 DEF Leave, Occupied, Tracked
    <3>3. QED
      BY <3>1, <3>2
  <2>3. QED
    BY <2>1, <2>2, RewriteCount
<1>6. ASSUME NEW i \in Slots, LeaveDelete(i)
      PROVE  CountCoherent'
  BY <1>6, DeleteEntityCount DEF LeaveDelete
<1>7. ASSUME NEW i \in Slots, NEW e \in Entity, Insert(i, e)
      PROVE  CountCoherent'
  BY <1>7, PutEntityCount DEF Insert
<1>8. ASSUME NEW n \in 0 .. MaxIndex + 1, ReserveSlots(n)
      PROVE  CountCoherent'
  <2> DEFINE dropped == {i \in Occupied : i >= n}
  <2>1. Occupied' = Occupied \ dropped
    <3>1. \A j \in Slots :
            entities'[j] = IF j < n THEN entities[j] ELSE NoEntity
      BY <1>8 DEF ReserveSlots
    <3>2. \A j \in Slots : j < n <=> ~(j >= n)
      BY MaxIndexAssumption DEF Slots
    <3>3. QED
      BY <3>1, <3>2 DEF Occupied, Tracked
  <2>2. /\ IsFiniteSet(dropped)
        /\ Occupied \cap dropped = dropped
    <3>1. dropped \in SUBSET Occupied
      OBVIOUS
    <3>2. QED
      BY <3>1, OccupiedFinite, FS_Subset
  <2>3. Cardinality(Occupied') = Cardinality(Occupied) - Cardinality(dropped)
    <3> HIDE DEF dropped
    <3>1. Cardinality(Occupied \ dropped) = Cardinality(Occupied) - Cardinality(Occupied \cap dropped)
      BY <2>2, OccupiedFinite, FS_Difference
    <3>2. QED
      BY <2>1, <2>2, <3>1
  <2>4. occupied_count' = Cardinality(Occupied')
    BY <1>8, <2>3 DEF ReserveSlots, CountCoherent
  <2>5. \A j \in Occupied' : j < slot_count'
    BY <1>8, <2>1 DEF ReserveSlots, Occupied, Slots
  <2>6. QED
    BY <2>4, <2>5 DEF CountCoherent
<1>9. ASSUME NEW n \in 1 .. MaxDeltas, NEW f \in Filters \cup {NoFilter},
             BeginPacket(n, f)
      PROVE  CountCoherent'
  BY <1>1, <1>9 DEF BeginPacket
<1>10. ASSUME NEW i \in Slots, NEW pvs \in BOOLEAN, UpdateIgnored(i, pvs)
       PROVE  CountCoherent'
  BY <1>1, <1>10 DEF UpdateIgnored
<1>11. ASSUME \/ RejectDelta \/ ClearUpdated
              \/ ClearEntityChanges \/ ClearTickChanges
       PROVE  CountCoherent'
  BY <1>1, <1>11
  DEF RejectDelta, ClearUpdated, ClearEntityChanges, ClearTickChanges, ForgetChanges
<1>12. CASE UNCHANGED vars
  BY <1>1, <1>12 DEF vars
<1>13. QED
  BY <1>2, <1>3, <1>4, <1>5, <1>6, <1>7, <1>8, <1>9, <1>10, <1>11, <1>12
  DEF Next, DecodeStep, CallerStep

(* The constant-time len() and is_empty() of the container never drift     *)
(* from the slots: put_entity, take_entity, insert and the shrinking       *)
(* reserve_slots each adjust the counter by what they change.              *)
THEOREM CountCorrect == Spec => []CountCoherent
  BY TypeCorrect, InitCount, NextCount, PTL DEF Spec

----------------------------------------------------------------------------
(* The lifecycle journal tells the truth: what a consumer rebuilds from    *)
(* entity_changes() is the store, and the records of one slot form a legal *)
(* life.  Neither fact is inductive alone; the proof carries both, and     *)
(* treats every step as a series of records each of which may follow the   *)
(* state the previous one left.                                            *)

State == [Slots -> Entity \cup {NoEntity}]

JournalInv(log, from, to, slots) ==
  /\ LogLeadsTo(log, from, to, slots)
  /\ LegalLives(log, from, slots)

(* A record that may follow the current state of its slot, and leaves the  *)
(* state it announces, keeps the journal truthful.                         *)
LEMMA AppendRecord ==
  ASSUME NEW log \in Seq(Change), NEW from \in State, NEW to \in State,
         NEW after \in State, NEW slots \in SUBSET Slots,
         JournalInv(log, from, to, slots),
         NEW c \in Change,
         \A j \in Slots : j # c.index => after[j] = to[j],
         c.index \in slots => Follows(c, to[c.index]),
         c.index \in slots => Explains(c, after[c.index])
  PROVE  JournalInv(Append(log, c), from, after, slots)
<1> DEFINE new == Append(log, c)
           n   == Len(log)
<1>1. /\ n \in Nat /\ new \in Seq(Change) /\ Len(new) = n + 1
      /\ \A k \in 1 .. n : new[k] = log[k] /\ log[k] \in Change
      /\ new[n + 1] = c
  OBVIOUS
<1>2. \A i, m : m \in 0 .. n => (Unmentioned(new, m, i) <=> Unmentioned(log, m, i))
  BY <1>1 DEF Unmentioned
<1>3. \A i, k, m : m \in 0 .. n => (IsLast(new, k, m, i) <=> IsLast(log, k, m, i))
  BY <1>1 DEF IsLast
<1>4. LogLeadsTo(new, from, after, slots)
  <2> SUFFICES ASSUME NEW i \in slots
               PROVE  /\ Unmentioned(new, n + 1, i) => after[i] = from[i]
                      /\ \A k \in 1 .. n + 1 :
                           IsLast(new, k, n + 1, i) => Explains(new[k], after[i])
    BY <1>1 DEF LogLeadsTo
  <2>1. CASE i = c.index
    <3>1. ~Unmentioned(new, n + 1, i)
      BY <1>1, <2>1 DEF Unmentioned
    <3>2. \A k \in 1 .. n + 1 : IsLast(new, k, n + 1, i) => k = n + 1
      BY <1>1, <2>1 DEF IsLast
    <3>3. QED
      BY <1>1, <2>1, <3>1, <3>2
  <2>2. CASE i # c.index
    <3>1. Unmentioned(new, n + 1, i) => Unmentioned(log, n, i)
      BY <1>1 DEF Unmentioned
    <3>2. ASSUME NEW k \in 1 .. n + 1, IsLast(new, k, n + 1, i)
          PROVE  k \in 1 .. n /\ IsLast(log, k, n, i)
      BY <1>1, <2>2, <3>2 DEF IsLast
    <3>3. after[i] = to[i]
      BY <2>2
    <3>4. QED
      BY <1>1, <3>1, <3>2, <3>3 DEF JournalInv, LogLeadsTo
  <2>3. QED
    BY <2>1, <2>2
<1>5. LegalLives(new, from, slots)
  <2> SUFFICES ASSUME NEW k \in 1 .. n + 1, new[k].index \in slots
               PROVE  /\ Unmentioned(new, k - 1, new[k].index)
                           => Follows(new[k], from[new[k].index])
                      /\ \A p \in 1 .. k - 1 :
                           IsLast(new, p, k - 1, new[k].index)
                             => FollowsRecord(new[k], new[p])
    BY <1>1 DEF LegalLives
  <2>1. CASE k \in 1 .. n
    <3>1. k - 1 \in 0 .. n
      BY <2>1, <1>1
    <3>2. \A p \in 1 .. k - 1 : new[p] = log[p]
      BY <2>1, <1>1
    <3>3. QED
      BY <1>1, <1>2, <1>3, <2>1, <3>1, <3>2 DEF JournalInv, LegalLives
  <2>2. CASE k = n + 1
    <3> DEFINE i == c.index
    <3>1. i \in slots /\ Follows(c, to[i])
      BY <1>1, <2>2
    <3>2. Unmentioned(log, n, i) => to[i] = from[i]
      BY <3>1 DEF JournalInv, LogLeadsTo
    <3>3. ASSUME NEW p \in 1 .. n, IsLast(log, p, n, i)
          PROVE  FollowsRecord(c, log[p])
      <4>1. Explains(log[p], to[i])
        BY <3>1, <3>3 DEF JournalInv, LogLeadsTo
      <4>2. log[p].kind \in Kinds /\ c.kind \in Kinds
        BY <1>1 DEF Change
      <4>3. QED
        BY <3>1, <4>1, <4>2 DEF Explains, Follows, FollowsRecord, Kinds
    <3>4. QED
      BY <1>1, <1>2, <1>3, <2>2, <3>1, <3>2, <3>3
  <2>3. QED
    BY <1>1, <2>1, <2>2
<1>6. QED
  BY <1>1, <1>4, <1>5 DEF JournalInv

(* A step without a record keeps it truthful about the slots it leaves     *)
(* alone.                                                                  *)
LEMMA QuietStep ==
  ASSUME NEW log \in Seq(Change), NEW from \in State, NEW to \in State,
         NEW after \in State, NEW slots \in SUBSET Slots,
         NEW fewer \in SUBSET slots,
         JournalInv(log, from, to, slots),
         \A j \in fewer : after[j] = to[j]
  PROVE  JournalInv(log, from, after, fewer)
  BY DEF JournalInv, LogLeadsTo, LegalLives

(* An empty journal is truthful about a fresh snapshot.                    *)
LEMMA FreshJournal ==
  ASSUME NEW from \in State, NEW slots \in SUBSET Slots
  PROVE  JournalInv(<<>>, from, from, slots)
  BY DEF JournalInv, LogLeadsTo, LegalLives

----------------------------------------------------------------------------
(* The steps of the store as series of records.                            *)

Truthful == JournalInv(changes, base, entities, Slots \ silent)

LEMMA PutEntityTruthful ==
  ASSUME TypeOK, TypeOK', Truthful, NEW i \in Slots, NEW e \in Entity,
         PutEntity(i, e), UNCHANGED base,
         silent \subseteq silent', i \notin silent' => e.active = TRUE
  PROVE  Truthful'
<1> DEFINE slots   == Slots \ silent'
           emptied == [entities EXCEPT ![i] = NoEntity]
           deleted == ChangeOf("Deleted", i, entities[i])
           created == ChangeOf("Created", i, e)
           before  == IF Tracked(i) THEN Append(changes, deleted) ELSE changes
<1>1. /\ base \in State /\ entities \in State /\ entities' \in State
      /\ emptied \in State /\ changes \in Seq(Change)
      /\ created \in Change /\ created.index = i
  BY ChangeOfType DEF TypeOK, State, ChangeOf, Kinds
<1>2. JournalInv(changes, base, entities, slots)
  BY <1>1, QuietStep DEF Truthful
<1>3. before \in Seq(Change) /\ JournalInv(before, base, emptied, slots)
  <2>1. CASE Tracked(i)
    <3>1. entities[i] \in Entity /\ entities[i] # NoEntity
      BY <2>1 DEF Tracked, TypeOK
    <3>2. deleted \in Change /\ deleted.index = i
      BY <3>1, ChangeOfType DEF ChangeOf, Kinds
    <3>3. Follows(deleted, entities[i]) /\ Explains(deleted, emptied[i])
      BY <1>1, <3>1 DEF Follows, Explains, ChangeOf, State
    <3>4. \A j \in Slots : j # i => emptied[j] = entities[j]
      BY <1>1 DEF State
    <3>5. JournalInv(Append(changes, deleted), base, emptied, slots)
      <4> HIDE DEF deleted, emptied, slots
      <4>1. slots \in SUBSET Slots
        BY DEF slots
      <4>2. QED
        BY <1>1, <1>2, <3>2, <3>3, <3>4, <4>1, AppendRecord
    <3>6. QED
      BY <1>1, <2>1, <3>2, <3>5
  <2>2. CASE ~Tracked(i)
    <3>1. emptied = entities
      BY <2>2 DEF Tracked, TypeOK
    <3>2. QED
      BY <1>1, <1>2, <2>2, <3>1
  <2>3. QED
    BY <2>1, <2>2
<1>4. /\ Follows(created, emptied[i])
      /\ i \in slots => Explains(created, entities'[i])
      /\ \A j \in Slots : j # i => entities'[j] = emptied[j]
  <2>1. entities'[i] = e /\ e # NoEntity
    BY <1>1, NoEntityAssumption DEF PutEntity, GrownTo, CountWith, Touch, DeletionLogged, State
  <2>2. QED
    BY <1>1, <2>1 DEF Follows, Explains, ChangeOf, State, PutEntity
<1>5. JournalInv(Append(before, created), base, entities', slots)
  <2> HIDE DEF created, emptied, slots, before
  <2>1. slots \in SUBSET Slots
    BY DEF slots
  <2>2. QED
    BY <1>1, <1>3, <1>4, <2>1, AppendRecord
<1>6. changes' = Append(before, created)
  BY DEF PutEntity, DeletionLogged
<1>7. QED
  BY <1>5, <1>6 DEF Truthful

(* The same for the steps that record one change at most.                  *)
LEMMA OneRecordTruthful ==
  ASSUME TypeOK, TypeOK', Truthful, NEW i \in Slots, NEW k \in Kinds,
         UNCHANGED <<base, silent>>, entities[i] \in Entity,
         changes' = Append(changes, ChangeOf(k, i, entities[i])),
         \A j \in Slots : j # i => entities'[j] = entities[j],
         Follows(ChangeOf(k, i, entities[i]), entities[i]),
         Explains(ChangeOf(k, i, entities[i]), entities'[i])
  PROVE  Truthful'
<1> DEFINE c == ChangeOf(k, i, entities[i])
<1>1. c \in Change /\ c.index = i
  BY ChangeOfType DEF ChangeOf
<1>2. /\ base \in State /\ entities \in State /\ entities' \in State
      /\ changes \in Seq(Change)
  BY DEF TypeOK, State
<1>3. JournalInv(changes, base, entities, Slots \ silent)
  BY DEF Truthful
<1>4. JournalInv(Append(changes, c), base, entities', Slots \ silent)
  <2> HIDE DEF c
  <2>1. Follows(c, entities[i]) /\ Explains(c, entities'[i])
    BY DEF c
  <2>2. QED
    BY <1>1, <1>2, <1>3, <2>1, AppendRecord
<1>5. QED
  BY <1>4 DEF Truthful

LEMMA DeleteEntityTruthful ==
  ASSUME TypeOK, TypeOK', Truthful, NEW i \in Slots, DeleteEntity(i),
         UNCHANGED <<base, silent>>
  PROVE  Truthful'
<1>1. CASE Tracked(i)
  <2>1. /\ entities[i] \in Entity /\ entities[i] # NoEntity
        /\ entities'[i] = NoEntity
        /\ \A j \in Slots : j # i => entities'[j] = entities[j]
        /\ changes' = Append(changes, ChangeOf("Deleted", i, entities[i]))
    BY <1>1 DEF DeleteEntity, TakeEntity, DeletionLogged, Tracked, TypeOK
  <2>2. /\ Follows(ChangeOf("Deleted", i, entities[i]), entities[i])
        /\ Explains(ChangeOf("Deleted", i, entities[i]), entities'[i])
    BY <2>1 DEF Follows, Explains, ChangeOf
  <2>3. QED
    BY <2>1, <2>2, OneRecordTruthful DEF Kinds
<1>2. CASE ~Tracked(i)
  <2>1. entities' = entities /\ changes' = changes
    BY <1>2 DEF DeleteEntity, TakeEntity, DeletionLogged, Tracked, TypeOK
  <2>2. QED
    BY <2>1 DEF Truthful
<1>3. QED
  BY <1>1, <1>2

LEMMA InitTruthful == Init => Truthful
<1> SUFFICES ASSUME Init PROVE Truthful
  OBVIOUS
<1>1. entities \in State /\ base = entities /\ changes = <<>>
  BY InitTypeOK DEF Init, TypeOK, State
<1>2. QED
  BY <1>1, FreshJournal DEF Truthful

LEMMA NextTruthful == TypeOK /\ Truthful /\ [Next]_vars => Truthful'
<1> SUFFICES ASSUME TypeOK, Truthful, [Next]_vars PROVE Truthful'
  OBVIOUS
<1>0. TypeOK'
  BY NextTypeOK
<1> USE DEF store, journals, message, history
<1>1. ASSUME UNCHANGED <<entities, changes, base, silent>> PROVE Truthful'
  BY <1>1 DEF Truthful
<1>2. ASSUME NEW i \in Slots, NEW e \in Entity, CreateTracked(i, e)
      PROVE  Truthful'
  <2>1. PutEntity(i, e) /\ UNCHANGED <<base, silent>>
    BY <1>2 DEF CreateTracked
  <2>2. e.active = TRUE
    BY <1>2 DEF CreateTracked, Entity
  <2>3. QED
    BY <1>0, <2>1, <2>2, PutEntityTruthful
<1>3. ASSUME NEW i \in Slots, NEW c \in Classes, CreateSkipped(i, c)
      PROVE  Truthful'
  BY <1>0, <1>3, DeleteEntityTruthful DEF CreateSkipped
<1>4. ASSUME NEW i \in Slots, NEW f \in Payloads, UpdateTracked(i, f)
      PROVE  Truthful'
  <2> DEFINE kind == IF Active(i) THEN "Updated" ELSE "Reactivated"
  <2>1. /\ entities[i] \in Entity /\ entities[i] # NoEntity
        /\ Active(i) <=> entities[i].active = TRUE
    BY <1>4 DEF UpdateTracked, Tracked, TypeOK, Active, Entity
  <2>2. /\ changes' = Append(changes, ChangeOf(kind, i, entities[i]))
        /\ entities' = [entities EXCEPT ![i].active = TRUE, ![i].fields = f]
        /\ UNCHANGED <<base, silent>>
    BY <1>4 DEF UpdateTracked
  <2>3. /\ entities'[i] \in Entity
        /\ entities'[i].serial = entities[i].serial
        /\ entities'[i].class = entities[i].class
        /\ entities'[i].active = TRUE
        /\ \A j \in Slots : j # i => entities'[j] = entities[j]
    BY <2>1, <2>2 DEF TypeOK, Entity
  <2>4. kind \in Kinds
    BY DEF Kinds
  <2>5. Follows(ChangeOf(kind, i, entities[i]), entities[i])
    BY <2>1 DEF Follows, ChangeOf, Entity
  <2>6. Explains(ChangeOf(kind, i, entities[i]), entities'[i])
    BY <2>3, NoEntityAssumption DEF Explains, ChangeOf
  <2>7. QED
    BY <1>0, <2>1, <2>2, <2>3, <2>4, <2>5, <2>6, OneRecordTruthful
<1>5. ASSUME NEW i \in Slots, Leave(i)
      PROVE  Truthful'
  <2>1. UNCHANGED <<base, silent>>
    BY <1>5 DEF Leave
  <2>2. CASE Active(i)
    <3>1. /\ entities[i] \in Entity /\ entities[i] # NoEntity
          /\ entities[i].active = TRUE
      BY <2>2 DEF Active, Tracked, TypeOK, Entity
    <3>2. /\ changes' = Append(changes, ChangeOf("LeftPvs", i, entities[i]))
          /\ entities' = [entities EXCEPT ![i].active = FALSE]
      BY <1>5, <2>2 DEF Leave
    <3>3. /\ entities'[i] \in Entity
          /\ entities'[i].serial = entities[i].serial
          /\ entities'[i].class = entities[i].class
          /\ entities'[i].active = FALSE
          /\ \A j \in Slots : j # i => entities'[j] = entities[j]
      BY <3>1, <3>2 DEF TypeOK, Entity
    <3>4. Follows(ChangeOf("LeftPvs", i, entities[i]), entities[i])
      BY <3>1 DEF Follows, ChangeOf
    <3>5. Explains(ChangeOf("LeftPvs", i, entities[i]), entities'[i])
      BY <3>3, NoEntityAssumption DEF Explains, ChangeOf
    <3>6. QED
      BY <1>0, <2>1, <3>1, <3>2, <3>3, <3>4, <3>5, OneRecordTruthful DEF Kinds
  <2>3. CASE ~Active(i)
    BY <1>1, <1>5, <2>1, <2>3 DEF Leave
  <2>4. QED
    BY <2>2, <2>3
<1>6. ASSUME NEW i \in Slots, LeaveDelete(i)
      PROVE  Truthful'
  BY <1>0, <1>6, DeleteEntityTruthful DEF LeaveDelete
<1>7. ASSUME NEW i \in Slots, NEW f \in Payloads, FailUpdate(i, f)
      PROVE  Truthful'
  <2>1. /\ \A j \in Slots \ silent' : entities'[j] = entities[j]
        /\ silent' = silent \cup {i} /\ UNCHANGED <<changes, base>>
    BY <1>7 DEF FailUpdate, TypeOK
  <2>2. QED
    BY <1>0, <2>1, QuietStep DEF Truthful, TypeOK, State
<1>8. ASSUME NEW i \in Slots, NEW e \in Entity, Insert(i, e)
      PROVE  Truthful'
  <2>1. PutEntity(i, e) /\ UNCHANGED base /\ silent \subseteq silent'
    BY <1>8 DEF Insert
  <2>2. i \notin silent' => e.active = TRUE
    BY <1>8 DEF Insert, Entity
  <2>3. QED
    BY <1>0, <2>1, <2>2, PutEntityTruthful
<1>9. ASSUME NEW n \in 0 .. MaxIndex + 1, ReserveSlots(n)
      PROVE  Truthful'
  <2>1. \A j \in Slots : j < n <=> ~(j >= n)
    BY MaxIndexAssumption DEF Slots
  <2>2. /\ \A j \in Slots \ silent' : entities'[j] = entities[j]
        /\ silent \subseteq silent' /\ UNCHANGED <<changes, base>>
    BY <1>9, <2>1 DEF ReserveSlots, Occupied, Tracked
  <2>3. QED
    BY <1>0, <2>2, QuietStep DEF Truthful, TypeOK, State
<1>10. ASSUME ForgetChanges PROVE Truthful'
  <2>1. /\ entities \in State /\ entities' = entities /\ base' = entities
        /\ changes' = <<>> /\ silent' = {}
    BY <1>10 DEF ForgetChanges, TypeOK, State
  <2>2. QED
    BY <2>1, FreshJournal DEF Truthful
<1>11. ASSUME NEW n \in 1 .. MaxDeltas, NEW f \in Filters \cup {NoFilter},
              BeginPacket(n, f)
       PROVE  Truthful'
  BY <1>1, <1>11 DEF BeginPacket
<1>12. ASSUME NEW i \in Slots, NEW pvs \in BOOLEAN, UpdateIgnored(i, pvs)
       PROVE  Truthful'
  BY <1>1, <1>12 DEF UpdateIgnored
<1>13. ASSUME RejectDelta \/ ClearUpdated PROVE Truthful'
  BY <1>1, <1>13 DEF RejectDelta, ClearUpdated
<1>14. CASE UNCHANGED vars
  BY <1>1, <1>14 DEF vars
<1>15. QED
  BY <1>2, <1>3, <1>4, <1>5, <1>6, <1>7, <1>8, <1>9, <1>10, <1>11, <1>12,
     <1>13, <1>14
  DEF Next, DecodeStep, CallerStep, ClearEntityChanges, ClearTickChanges

LEMMA TruthfulAlways == Spec => []Truthful
  BY TypeCorrect, InitTruthful, NextTruthful, PTL DEF Spec

(* A consumer of entity_changes() reconstructs, from its own copy of the   *)
(* slots at the last clear, who occupies every slot and whether it is in   *)
(* the PVS; a slot that is not mentioned has not changed in any way.       *)
THEOREM JournalExplainsStore == Spec => []LogExplainsState
  BY TruthfulAlways, PTL DEF Truthful, JournalInv, LogExplainsState

(* The records of one slot are a legal life: creation only in an empty     *)
(* slot, a deletion before every reuse, no change of identity in between,  *)
(* LeftPvs and Reactivated alternating.                                    *)
THEOREM JournalWellFormed == Spec => []LogWellFormed
  BY TruthfulAlways, PTL DEF Truthful, JournalInv, LogWellFormed

----------------------------------------------------------------------------
(* The two journals name the same slots, counted back from the newest.     *)

(* A record that touches no entity leaves the agreement alone.             *)
LEMMA AppendUntouching ==
  ASSUME NEW log \in Seq(Change), NEW touched \in Seq(Slots), SameTouches(log, touched),
         NEW c \in Change, c.kind \notin {"Created", "Updated", "Reactivated"}
  PROVE  SameTouches(Append(log, c), touched)
<1> DEFINE new == Append(log, c)
<1>1. Touches(new) = Touches(log)
  BY DEF Touches
<1>2. \A k \in Touches(log) : new[k] = log[k] /\ Since(new, k) = Since(log, k)
  BY <1>1 DEF Since, Touches
<1> QED BY <1>1, <1>2 DEF SameTouches

(* A record that touches an entity comes with an index in the other list.  *)
LEMMA AppendTouching ==
  ASSUME NEW log \in Seq(Change), NEW touched \in Seq(Slots), SameTouches(log, touched),
         NEW c \in Change, c.kind \in {"Created", "Updated", "Reactivated"}
  PROVE  SameTouches(Append(log, c), Append(touched, c.index))
<1> DEFINE new   == Append(log, c)
           newer == Append(touched, c.index)
           last  == Len(log) + 1
<1>1. /\ Len(log) \in Nat /\ Len(touched) \in Nat /\ Len(newer) = Len(touched) + 1
      /\ DOMAIN log = 1 .. Len(log) /\ DOMAIN new = 1 .. last /\ last \in Int
      /\ \A k \in 1 .. Len(log) : new[k] = log[k]
      /\ new[last] = c /\ newer[Len(touched) + 1] = c.index
      /\ \A i \in 1 .. Len(touched) : newer[i] = touched[i]
  OBVIOUS
<1> HIDE DEF new, newer, last
<1>2. Touches(new) = Touches(log) \cup {last} /\ Touches(log) \subseteq 1 .. Len(log)
  <2>1. \A k \in 1 .. last : k \in 1 .. Len(log) \/ k = last
    BY <1>1 DEF last
  <2>2. last \in 1 .. last /\ 1 .. Len(log) \subseteq 1 .. last
    BY <1>1 DEF last
  <2> QED BY <1>1, <2>1, <2>2 DEF Touches
<1>3. Since(new, last) = {last} /\ Cardinality({last}) = 1
  <2>1. \A j \in Touches(log) : j < last /\ ~(j >= last)
    BY <1>1, <1>2 DEF last
  <2>2. last >= last
    BY <1>1
  <2>3. Since(new, last) = {last}
    BY <1>2, <2>1, <2>2 DEF Since
  <2> QED BY <2>3, FS_Singleton
<1>4. ASSUME NEW k \in Touches(log), Cardinality(Since(new, k)) <= Len(newer)
      PROVE  newer[Len(newer) - Cardinality(Since(new, k)) + 1] = new[k].index
  <2>1. Since(new, k) = Since(log, k) \cup {last} /\ last \notin Since(log, k)
    BY <1>1, <1>2 DEF Since, last
  <2>2. IsFiniteSet(Since(log, k)) /\ k \in Since(log, k)
    <3>1. Since(log, k) \subseteq 1 .. Len(log) /\ IsFiniteSet(1 .. Len(log))
      BY <1>1, <1>2, FS_Interval DEF Since
    <3>2. k \in Int /\ k <= k
      BY <1>2
    <3> QED BY <3>1, <3>2, FS_Subset DEF Since
  <2> DEFINE back == Cardinality(Since(log, k))
  <2>3. back \in Nat /\ back # 0 /\ Cardinality(Since(new, k)) = back + 1
    BY <2>1, <2>2, FS_CardinalityType, FS_AddElement, FS_EmptySet
  <2>4. back <= Len(touched) => touched[Len(touched) - back + 1] = log[k].index
    BY DEF SameTouches
  <2> HIDE DEF back
  <2>5. /\ back <= Len(touched) /\ Len(touched) - back + 1 \in 1 .. Len(touched)
        /\ Len(newer) - (back + 1) + 1 = Len(touched) - back + 1
    BY <1>1, <1>4, <2>3
  <2> QED BY <1>1, <1>2, <2>3, <2>4, <2>5
<1>5. SameTouches(new, newer)
  <2> SUFFICES ASSUME NEW k \in Touches(new), Cardinality(Since(new, k)) <= Len(newer)
               PROVE  newer[Len(newer) - Cardinality(Since(new, k)) + 1] = new[k].index
    BY DEF SameTouches
  <2>1. CASE k = last
    <3>1. Len(newer) - 1 + 1 = Len(touched) + 1
      BY <1>1
    <3> QED BY <1>1, <1>3, <2>1, <3>1
  <2> QED BY <1>2, <1>4, <2>1
<1> QED BY <1>5 DEF new, newer

LEMMA PutEntityAgrees ==
  ASSUME TypeOK, JournalsAgree, NEW i \in Slots, NEW e \in Entity, PutEntity(i, e)
  PROVE  JournalsAgree'
<1>1. /\ changes \in Seq(Change) /\ updated \in Seq(Slots)
      /\ ChangeOf("Created", i, e) \in Change
      /\ ChangeOf("Created", i, e).kind = "Created" /\ ChangeOf("Created", i, e).index = i
  BY ChangeOfType DEF TypeOK, Kinds, ChangeOf
<1>2. DeletionLogged(i) \in Seq(Change) /\ SameTouches(DeletionLogged(i), updated)
  <2>1. CASE Tracked(i)
    <3>1. /\ ChangeOf("Deleted", i, entities[i]) \in Change
          /\ ChangeOf("Deleted", i, entities[i]).kind = "Deleted"
      BY <2>1, ChangeOfType DEF TypeOK, Tracked, Kinds, ChangeOf
    <3> QED BY <1>1, <2>1, <3>1, AppendUntouching DEF DeletionLogged, JournalsAgree
  <2> QED BY <1>1, <2>1 DEF DeletionLogged, JournalsAgree
<1>3. SameTouches(Append(DeletionLogged(i), ChangeOf("Created", i, e)), Append(updated, i))
  BY <1>1, <1>2, AppendTouching
<1> QED BY <1>3 DEF PutEntity, Touch, JournalsAgree

LEMMA DeleteEntityAgrees ==
  ASSUME TypeOK, JournalsAgree, NEW i \in Slots, DeleteEntity(i)
  PROVE  JournalsAgree'
<1>1. changes \in Seq(Change) /\ updated \in Seq(Slots) /\ updated' = updated
  BY DEF TypeOK, DeleteEntity, TakeEntity
<1>2. CASE Tracked(i)
  <2>1. /\ ChangeOf("Deleted", i, entities[i]) \in Change
        /\ ChangeOf("Deleted", i, entities[i]).kind = "Deleted"
    BY <1>2, ChangeOfType DEF TypeOK, Tracked, Kinds, ChangeOf
  <2> QED BY <1>1, <1>2, <2>1, AppendUntouching DEF DeleteEntity, DeletionLogged, JournalsAgree
<1> QED BY <1>1, <1>2 DEF DeleteEntity, DeletionLogged, JournalsAgree

LEMMA NextAgrees == TypeOK /\ JournalsAgree /\ [Next]_vars => JournalsAgree'
<1> SUFFICES ASSUME TypeOK, JournalsAgree, [Next]_vars PROVE JournalsAgree'
  OBVIOUS
<1> USE DEF store, journals, message, history
<1>1. ASSUME UNCHANGED <<changes, updated>> PROVE JournalsAgree'
  BY <1>1 DEF JournalsAgree
<1>2. ASSUME changes' = <<>> \/ updated' = <<>>, UNCHANGED changes \/ changes' = <<>>
      PROVE  JournalsAgree'
  <2>1. CASE changes' = <<>>
    BY <2>1 DEF JournalsAgree, SameTouches, Touches
  <2>2. CASE updated' = <<>> /\ changes' = changes
    <3> SUFFICES ASSUME NEW k \in Touches(changes) PROVE ~(Cardinality(Since(changes, k)) <= 0)
      BY <2>2 DEF JournalsAgree, SameTouches
    <3>1. changes \in Seq(Change) /\ k \in 1 .. Len(changes) /\ Len(changes) \in Nat
      BY DEF TypeOK, Touches
    <3>2. Since(changes, k) \subseteq 1 .. Len(changes) /\ k \in Since(changes, k)
      BY <3>1 DEF Since, Touches
    <3>3. IsFiniteSet(Since(changes, k))
      <4>1. IsFiniteSet(1 .. Len(changes))
        BY <3>1, FS_Interval
      <4> QED BY <3>2, <4>1, FS_Subset
    <3>4. Cardinality(Since(changes, k)) \in Nat /\ Cardinality(Since(changes, k)) # 0
      BY <3>2, <3>3, FS_CardinalityType, FS_EmptySet
    <3> QED BY <3>4
  <2> QED BY <1>2, <2>1, <2>2
<1>3. ASSUME NEW i \in Slots, NEW e \in Entity, CreateTracked(i, e) \/ Insert(i, e)
      PROVE  JournalsAgree'
  BY <1>3, PutEntityAgrees DEF CreateTracked, Insert
<1>4. ASSUME NEW i \in Slots, LeaveDelete(i) \/ \E c \in Classes : CreateSkipped(i, c)
      PROVE  JournalsAgree'
  BY <1>4, DeleteEntityAgrees DEF LeaveDelete, CreateSkipped
<1>5. ASSUME NEW i \in Slots, NEW f \in Payloads, UpdateTracked(i, f)
      PROVE  JournalsAgree'
  <2> DEFINE kind == IF Active(i) THEN "Updated" ELSE "Reactivated"
  <2>1. /\ entities[i] \in Entity /\ changes \in Seq(Change) /\ updated \in Seq(Slots)
        /\ kind \in Kinds /\ kind \in {"Created", "Updated", "Reactivated"}
    BY <1>5 DEF UpdateTracked, Tracked, TypeOK, Kinds
  <2>2. changes' = Append(changes, ChangeOf(kind, i, entities[i])) /\ updated' = Append(updated, i)
    BY <1>5 DEF UpdateTracked, Touch
  <2> HIDE DEF kind
  <2>3. /\ ChangeOf(kind, i, entities[i]) \in Change
        /\ ChangeOf(kind, i, entities[i]).kind = kind /\ ChangeOf(kind, i, entities[i]).index = i
    BY <2>1, ChangeOfType DEF ChangeOf
  <2>4. SameTouches(Append(changes, ChangeOf(kind, i, entities[i])), Append(updated, i))
    BY <2>1, <2>3, AppendTouching DEF JournalsAgree
  <2> QED BY <2>2, <2>4 DEF JournalsAgree
<1>6. ASSUME NEW i \in Slots, Leave(i) PROVE JournalsAgree'
  <2>1. CASE Active(i)
    <3>1. /\ entities[i] \in Entity /\ changes \in Seq(Change) /\ updated \in Seq(Slots)
          /\ changes' = Append(changes, ChangeOf("LeftPvs", i, entities[i])) /\ updated' = updated
      BY <1>6, <2>1 DEF Leave, Active, Tracked, TypeOK
    <3>2. /\ ChangeOf("LeftPvs", i, entities[i]) \in Change
          /\ ChangeOf("LeftPvs", i, entities[i]).kind = "LeftPvs"
      BY <3>1, ChangeOfType DEF ChangeOf, Kinds
    <3>3. SameTouches(changes', updated)
      BY <3>1, <3>2, AppendUntouching DEF JournalsAgree
    <3> QED BY <3>1, <3>3 DEF JournalsAgree
  <2>2. CASE ~Active(i)
    BY <1>1, <1>6, <2>2 DEF Leave
  <2> QED BY <2>1, <2>2
<1>7. ASSUME \/ \E n \in 1 .. MaxDeltas, f \in Filters \cup {NoFilter} : BeginPacket(n, f)
             \/ \E i \in Slots, pvs \in BOOLEAN : UpdateIgnored(i, pvs)
             \/ RejectDelta
             \/ \E i \in Slots, f \in Payloads : FailUpdate(i, f)
             \/ \E n \in 0 .. MaxIndex + 1 : ReserveSlots(n)
             \/ UNCHANGED vars
      PROVE  JournalsAgree'
  <2>1. UNCHANGED <<changes, updated>>
    BY <1>7 DEF BeginPacket, UpdateIgnored, RejectDelta, FailUpdate, ReserveSlots, vars
  <2> QED BY <1>1, <2>1
<1>8. ASSUME ClearUpdated \/ ClearEntityChanges \/ ClearTickChanges PROVE JournalsAgree'
  BY <1>2, <1>8 DEF ClearUpdated, ClearEntityChanges, ClearTickChanges, ForgetChanges
<1> QED BY <1>3, <1>4, <1>5, <1>6, <1>7, <1>8 DEF Next, DecodeStep, CallerStep

(* entity_changes() and updated_indices(), which a callback may read and   *)
(* clear apart, always name the same touched slots in the same order as    *)
(* far back as both still reach.                                           *)
THEOREM JournalsAlwaysAgree == Spec => []JournalsAgree
<1>1. Init => JournalsAgree
  BY DEF Init, JournalsAgree, SameTouches, Touches
<1> QED BY <1>1, NextAgrees, TypeCorrect, PTL DEF Spec

----------------------------------------------------------------------------
(* The caches of the container.                                            *)


(* Equal revisions hold equal baselines.                                   *)
RevisionsAgree ==
  \A s, t \in Sessions : tables[s].revision = tables[t].revision
                           => tables[s].bytes = tables[t].bytes

(* Equal serializer tables hold equal layouts.                             *)
SchemasAgree ==
  \A s, t \in Sessions : serializers[s].id = serializers[t].id
                           => serializers[s].layout = serializers[t].layout

(* What entry e of class c was decoded from, where its addresses are held. *)
DecodedFrom(e, c, selection, held, schemas) ==
  /\ e.fields.name = e.key.name
  /\ e.fields.context = e.key.context
  /\ e.fields.selection = selection
  /\ \A t \in Sessions :
       /\ held[t].revision = e.key.revision => e.fields.bytes = held[t].bytes[c]
       /\ schemas[t].id = e.key.schema => e.fields.layout = schemas[t].layout[e.key.name]

CacheAgrees ==
  \A s \in Sessions, c \in ClassIds : cache[s][c] # NoEntry =>
    DecodedFrom(cache[s][c], c, properties[s], tables, serializers)

(* What a binding was built from, where its serializer table is held.      *)
BindingsAgree ==
  \A s, t \in Sessions, c \in ClassIds :
    bindings[s].serializers = serializers[t].id /\ bindings[s].entries[c] # NoBinding
      => bindings[s].entries[c].layout = serializers[t].layout[bindings[s].entries[c].name]

AddressesAgree == RevisionsAgree /\ SchemasAgree /\ CacheAgrees /\ BindingsAgree

----------------------------------------------------------------------------

(* A binding is built only for a serializer that exists.                   *)
LEMMA BindingOfType ==
  ASSUME CachesTyped, NEW s \in Sessions, NEW c \in ClassIds
  PROVE  /\ BindingOf(s, c) \in Binding \cup {NoBinding}
         /\ BindingOf(s, c) # NoBinding =>
              BindingOf(s, c).layout = serializers[s].layout[BindingOf(s, c).name]
BY NoBindingAssumption
   DEF CachesTyped, BindingOf, Binding, ClassMaps, Schemas, Names0, Layouts0

(* A refresh leaves bindings of the right type, built for the current      *)
(* tables.                                                                 *)
LEMMA RefreshedType ==
  ASSUME CachesTyped, NEW s \in Sessions
  PROVE  Refreshed(s) \in [classes : ClassTokens \cup {NoToken},
                           serializers : SerializerTokens \cup {NoToken},
                           entries : [ClassIds -> Binding \cup {NoBinding}]]
<1>1. CASE BindingsMatch(s)
  BY <1>1 DEF Refreshed, CachesTyped
<1>2. CASE ~BindingsMatch(s)
  <2>1. [c \in ClassIds |-> BindingOf(s, c)] \in [ClassIds -> Binding \cup {NoBinding}]
    BY BindingOfType
  <2>2. class_info[s].id \in ClassTokens /\ serializers[s].id \in SerializerTokens
    BY DEF CachesTyped
  <2> QED BY <1>2, <2>1, <2>2 DEF Refreshed
<1> QED BY <1>1, <1>2

(* What the refreshed bindings answer for a class name is its serializer.  *)
LEMMA LookupIsTransparent ==
  ASSUME CachesTyped, BindingsAgree, NEW s \in Sessions,
         NEW c \in ClassIds, NEW name \in Names
  PROVE  SerializerFor(s, Refreshed(s).entries, c, name) = serializers[s].layout[name]
<1>1. CASE BindingsMatch(s)
  BY <1>1 DEF Refreshed, BindingsMatch, BindingsAgree, SerializerFor
<1>2. CASE ~BindingsMatch(s)
  <2>1. Refreshed(s).entries[c] = BindingOf(s, c)
    BY <1>2 DEF Refreshed
  <2> QED BY <2>1, BindingOfType DEF SerializerFor
<1> QED BY <1>1, <1>2

----------------------------------------------------------------------------

(* The first state has the declared types.                                 *)
LEMMA CachesInitType == CachesInit => CachesTyped
<1> SUFFICES ASSUME CachesInit PROVE CachesTyped
  OBVIOUS
<1>1. [c \in ClassIds |-> NoName] \in ClassMaps
  BY DEF ClassMaps, Names0
<1>2. [n \in Names |-> NoLayout] \in Schemas
  BY DEF Schemas, Layouts0
<1>3. [c \in ClassIds |-> NoBytes] \in Contents
  BY DEF Contents, Bytes0
<1>4. EmptyCache \in [ClassIds -> Cached \cup {NoEntry}]
  BY DEF EmptyCache
<1>5. [c \in ClassIds |-> NoBinding] \in [ClassIds -> Binding \cup {NoBinding}]
  OBVIOUS
<1> QED BY <1>1, <1>2, <1>3, <1>4, <1>5 DEF CachesInit, CachesTyped

(* A refresh of the baselines keeps the types.                             *)
LEMMA BaselinesType ==
  ASSUME CachesTyped, NEW s \in Sessions, NEW bytes \in Contents, UpdateBaselines(s, bytes)
  PROVE  tables' \in [Sessions -> [revision : RevisionTokens, bytes : Contents]]
<1>1. CASE UNCHANGED tables
  BY <1>1 DEF CachesTyped
<1>2. ASSUME NEW id \in RevisionTokens,
             tables' = [tables EXCEPT ![s] = [revision |-> id, bytes |-> bytes]]
      PROVE  tables' \in [Sessions -> [revision : RevisionTokens, bytes : Contents]]
  BY <1>2 DEF CachesTyped
<1> QED BY <1>1, <1>2 DEF UpdateBaselines

(* Every step keeps them.                                                  *)
LEMMA CachesNextType == CachesTyped /\ [CachesNext]_caches => CachesTyped'
<1> SUFFICES ASSUME CachesTyped, [CachesNext]_caches PROVE CachesTyped'
  OBVIOUS
<1>1. CASE UNCHANGED caches
  BY <1>1 DEF caches, CachesTyped
<1>2. CASE CachesNext
  <2> SUFFICES ASSUME NEW s \in Sessions,
                      \/ \E names \in ClassMaps, bytes \in Contents : InstallClassInfo(s, names, bytes)
                      \/ \E layout \in Schemas : InstallSerializers(s, layout)
                      \/ \E bytes \in Contents : ApplyStringTables(s, bytes)
                      \/ \E x \in Contexts : SetTickInterval(s, x)
                      \/ DecodePacket(s)
                      \/ \E c \in ClassIds : DecodeBaseline(s, c)
                      \/ \E t \in Sessions \ {s} : Clone(s, t)
                      \/ \E t \in Sessions \ {s}, p \in Selections : CloneProjected(s, t, p)
               PROVE  CachesTyped'
    BY <1>2 DEF CachesNext
  <2>1. ASSUME NEW names \in ClassMaps, NEW bytes \in Contents, InstallClassInfo(s, names, bytes)
        PROVE  CachesTyped'
    BY <2>1, BaselinesType DEF InstallClassInfo, CachesTyped
  <2>2. ASSUME NEW layout \in Schemas, InstallSerializers(s, layout) PROVE CachesTyped'
    BY <2>2 DEF InstallSerializers, CachesTyped
  <2>3. ASSUME NEW bytes \in Contents, ApplyStringTables(s, bytes) PROVE CachesTyped'
    BY <2>3, BaselinesType DEF ApplyStringTables, CachesTyped
  <2>4. ASSUME NEW x \in Contexts, SetTickInterval(s, x) PROVE CachesTyped'
    BY <2>4 DEF SetTickInterval, CachesTyped
  <2>5. ASSUME DecodePacket(s) PROVE CachesTyped'
    BY <2>5, RefreshedType DEF DecodePacket, CachesTyped
  <2>6. ASSUME NEW c \in ClassIds, DecodeBaseline(s, c) PROVE CachesTyped'
    <3> DEFINE name   == class_info[s].names[c]
               layout == SerializerFor(s, Refreshed(s).entries, c, name)
    <3>1. name \in Names
      BY <2>6 DEF DecodeBaseline, CachesTyped, ClassMaps, Names0
    <3>2. layout \in Layouts
      <4>1. layout \in Layouts0
        <5>1. Refreshed(s).entries[c] \in Binding \cup {NoBinding}
          BY RefreshedType
        <5>2. serializers[s].layout[name] \in Layouts0
          BY <3>1 DEF CachesTyped, Schemas
        <5> QED BY <5>1, <5>2 DEF SerializerFor, Binding, Layouts0
      <4> QED BY <4>1, <2>6 DEF DecodeBaseline, Layouts0
    <3>3. KeyOf(s, c) \in Key
      BY <3>1 DEF KeyOf, Key, CachesTyped
    <3>4. FieldsOf(s, c, layout) \in Fields
      <4>1. tables[s].bytes[c] \in Bytes
        BY <2>6 DEF DecodeBaseline, CachesTyped, Contents, Bytes0
      <4> HIDE DEF layout
      <4> QED BY <4>1, <3>1, <3>2 DEF FieldsOf, Fields, CachesTyped
    <3>5. [key |-> KeyOf(s, c), fields |-> FieldsOf(s, c, layout)] \in Cached
      <4> HIDE DEF layout
      <4> QED BY <3>3, <3>4 DEF Cached
    <3>6. cache' = [cache EXCEPT ![s][c] = [key |-> KeyOf(s, c), fields |-> FieldsOf(s, c, layout)]]
      BY <2>6 DEF DecodeBaseline
    <3>7. cache' \in [Sessions -> [ClassIds -> Cached \cup {NoEntry}]]
      <4> HIDE DEF layout
      <4> QED BY <3>5, <3>6 DEF CachesTyped
    <3> QED BY <2>6, <3>7, RefreshedType DEF DecodeBaseline, CachesTyped
  <2>7. ASSUME NEW t \in Sessions \ {s}, CloneState(s, t),
               properties' \in [Sessions -> Selections \cup {AllProperties}]
        PROVE  CachesTyped'
    <3>1. EmptyCache \in [ClassIds -> Cached \cup {NoEntry}]
      BY DEF EmptyCache
    <3> QED BY <2>7, <3>1 DEF CloneState, Cloned, CachesTyped
  <2>8. ASSUME NEW t \in Sessions \ {s}, Clone(s, t) PROVE CachesTyped'
    BY <2>7, <2>8 DEF Clone, Cloned, CachesTyped
  <2>9. ASSUME NEW t \in Sessions \ {s}, NEW p \in Selections, CloneProjected(s, t, p)
        PROVE  CachesTyped'
    BY <2>7, <2>9 DEF CloneProjected, CachesTyped
  <2> QED BY <2>1, <2>2, <2>3, <2>4, <2>5, <2>6, <2>8, <2>9
<1> QED BY <1>1, <1>2

(* The variables of a session keep their types under every operation.      *)
THEOREM CachesTypeCorrect == CachesSpec => []CachesTyped
BY CachesInitType, CachesNextType, PTL DEF CachesSpec

----------------------------------------------------------------------------

(* Nothing is cached or bound in the first state, and all share one clone. *)
LEMMA CachesInitAgree == CachesInit => AddressesAgree
BY DEF CachesInit, AddressesAgree, RevisionsAgree, SchemasAgree, CacheAgrees, BindingsAgree, EmptyCache

(* The key of a decoded baseline keeps its addresses alive.                *)
LEMMA FilledKey ==
  ASSUME NEW s \in Sessions, NEW c \in ClassIds, cache[s][c] # NoEntry
  PROVE  cache[s][c].key \in CachedKeys
<1>1. cache[s][c] \in {cache[s][d] : d \in ClassIds}
  OBVIOUS
<1>2. cache[s][c] \in UNION {{cache[t][d] : d \in ClassIds} : t \in Sessions}
  BY <1>1
<1>3. cache[s][c] \in Filled
  BY <1>2 DEF Filled
<1> QED BY <1>3 DEF CachedKeys

(* A new serializer table has an address that nothing recorded.            *)
LEMMA SerializersAgree ==
  ASSUME CachesTyped, AddressesAgree, NEW s \in Sessions, NEW layout \in Schemas,
         InstallSerializers(s, layout)
  PROVE  AddressesAgree'
<1>1. PICK id \in SerializerTokens \ HeldSerializerTokens :
        serializers' = [serializers EXCEPT ![s] = [id |-> id, layout |-> layout]]
  BY DEF InstallSerializers
<1>2. UNCHANGED <<tables, properties, bindings, cache>>
  BY DEF InstallSerializers
<1>3. \A t \in Sessions : serializers'[t] =
        IF t = s THEN [id |-> id, layout |-> layout] ELSE serializers[t]
  BY <1>1 DEF CachesTyped
<1>4. \A t \in Sessions : serializers[t].id # id /\ bindings[t].serializers # id
  BY <1>1 DEF HeldSerializerTokens
<1>5. ASSUME NEW t \in Sessions, NEW c \in ClassIds, cache[t][c] # NoEntry
      PROVE  cache[t][c].key.schema # id
  <2>1. cache[t][c].key \in CachedKeys
    BY <1>5, FilledKey
  <2> QED BY <1>1, <2>1 DEF HeldSerializerTokens
<1>6. RevisionsAgree'
  BY <1>2 DEF AddressesAgree, RevisionsAgree
<1>7. SchemasAgree'
  BY <1>3, <1>4 DEF AddressesAgree, SchemasAgree
<1>8. BindingsAgree'
  BY <1>2, <1>3, <1>4 DEF AddressesAgree, BindingsAgree
<1>9. CacheAgrees'
  BY <1>2, <1>3, <1>5 DEF AddressesAgree, CacheAgrees, DecodedFrom
<1> QED BY <1>6, <1>7, <1>8, <1>9 DEF AddressesAgree

(* New baseline bytes have a revision that nothing recorded.               *)
LEMMA BaselineAgrees ==
  ASSUME CachesTyped, AddressesAgree, NEW s \in Sessions, NEW bytes \in Contents, UpdateBaselines(s, bytes),
         UNCHANGED <<serializers, properties, bindings, cache>>
  PROVE  AddressesAgree'
<1>1. CASE UNCHANGED tables
  BY <1>1 DEF AddressesAgree, RevisionsAgree, SchemasAgree, CacheAgrees, BindingsAgree
<1>2. ASSUME NEW id \in RevisionTokens \ HeldRevisionTokens,
             tables' = [tables EXCEPT ![s] = [revision |-> id, bytes |-> bytes]]
      PROVE  AddressesAgree'
  <2>1. \A t \in Sessions : tables'[t] =
          IF t = s THEN [revision |-> id, bytes |-> bytes] ELSE tables[t]
    BY <1>2 DEF CachesTyped
  <2>2. \A t \in Sessions : tables[t].revision # id
    BY DEF HeldRevisionTokens
  <2>3. ASSUME NEW t \in Sessions, NEW c \in ClassIds, cache[t][c] # NoEntry
        PROVE  cache[t][c].key.revision # id
    <3>1. cache[t][c].key \in CachedKeys
      BY <2>3, FilledKey
    <3> QED BY <3>1 DEF HeldRevisionTokens
  <2>4. RevisionsAgree'
    BY <2>1, <2>2 DEF AddressesAgree, RevisionsAgree
  <2>5. SchemasAgree' /\ BindingsAgree'
    BY DEF AddressesAgree, SchemasAgree, BindingsAgree
  <2>6. CacheAgrees'
    BY <2>1, <2>3 DEF AddressesAgree, CacheAgrees, DecodedFrom
  <2> QED BY <2>4, <2>5, <2>6 DEF AddressesAgree
<1> QED BY <1>1, <1>2 DEF UpdateBaselines

(* A refresh builds the bindings from the serializer table it records.     *)
LEMMA RefreshAgrees ==
  ASSUME CachesTyped, AddressesAgree, NEW s \in Sessions,
         bindings' = [bindings EXCEPT ![s] = Refreshed(s)], UNCHANGED serializers
  PROVE  BindingsAgree'
<1> SUFFICES ASSUME NEW r \in Sessions, NEW t \in Sessions, NEW c \in ClassIds,
                    bindings'[r].serializers = serializers[t].id,
                    bindings'[r].entries[c] # NoBinding
             PROVE  bindings'[r].entries[c].layout
                      = serializers[t].layout[bindings'[r].entries[c].name]
  BY DEF BindingsAgree
<1>1. CASE r # s \/ BindingsMatch(s)
  <2>1. bindings'[r] = bindings[r]
    BY <1>1 DEF CachesTyped, Refreshed
  <2> QED BY <2>1 DEF AddressesAgree, BindingsAgree
<1>2. CASE r = s /\ ~BindingsMatch(s)
  <2>1. bindings'[r].serializers = serializers[s].id /\ bindings'[r].entries[c] = BindingOf(s, c)
    BY <1>2 DEF CachesTyped, Refreshed
  <2>2. serializers[t].layout = serializers[s].layout
    BY <2>1 DEF AddressesAgree, SchemasAgree
  <2> QED BY <2>1, <2>2, BindingOfType
<1> QED BY <1>1, <1>2

(* A baseline is cached under the addresses of what it was decoded from.   *)
LEMMA DecodeAgrees ==
  ASSUME CachesTyped, AddressesAgree, NEW s \in Sessions, NEW d \in ClassIds, DecodeBaseline(s, d)
  PROVE  AddressesAgree'
<1> DEFINE name   == class_info[s].names[d]
           layout == SerializerFor(s, Refreshed(s).entries, d, name)
           entry  == [key |-> KeyOf(s, d), fields |-> FieldsOf(s, d, layout)]
<1>1. name \in Names
  BY DEF DecodeBaseline, CachesTyped, ClassMaps, Names0
<1>2. layout = serializers[s].layout[name]
  BY <1>1, LookupIsTransparent DEF AddressesAgree
<1>3. cache' = [cache EXCEPT ![s][d] = entry] /\ UNCHANGED <<serializers, tables, properties>>
  BY DEF DecodeBaseline
<1>4. RevisionsAgree' /\ SchemasAgree'
  BY <1>3 DEF AddressesAgree, RevisionsAgree, SchemasAgree
<1>5. BindingsAgree'
  BY <1>3, RefreshAgrees DEF DecodeBaseline
<1>6. DecodedFrom(entry, d, properties[s], tables, serializers)
  <2>1. /\ entry.key.schema = serializers[s].id /\ entry.key.revision = tables[s].revision
        /\ entry.key.name = name /\ entry.key.context = context[s]
    BY DEF KeyOf
  <2>2. /\ entry.fields.bytes = tables[s].bytes[d] /\ entry.fields.layout = layout
        /\ entry.fields.name = name /\ entry.fields.context = context[s]
        /\ entry.fields.selection = properties[s]
    BY DEF FieldsOf
  <2> HIDE DEF entry, layout, name
  <2>3. ASSUME NEW t \in Sessions
        PROVE  /\ tables[t].revision = tables[s].revision => tables[s].bytes = tables[t].bytes
               /\ serializers[t].id = serializers[s].id => serializers[s].layout = serializers[t].layout
    BY DEF AddressesAgree, RevisionsAgree, SchemasAgree
  <2> QED BY <2>1, <2>2, <2>3, <1>2 DEF DecodedFrom
<1>7. CacheAgrees'
  <2> HIDE DEF entry, layout, name
  <2> SUFFICES ASSUME NEW r \in Sessions, NEW c \in ClassIds, cache'[r][c] # NoEntry
               PROVE  DecodedFrom(cache'[r][c], c, properties[r], tables, serializers)
    BY <1>3 DEF CacheAgrees
  <2>1. CASE r = s /\ c = d
    <3>1. cache'[r][c] = entry
      BY <1>3, <2>1 DEF CachesTyped
    <3> QED BY <2>1, <3>1, <1>6
  <2>2. CASE ~(r = s /\ c = d)
    <3>1. cache'[r][c] = cache[r][c]
      BY <1>3, <2>2 DEF CachesTyped
    <3> QED BY <3>1 DEF AddressesAgree, CacheAgrees
  <2> QED BY <2>1, <2>2
<1> QED BY <1>4, <1>5, <1>7 DEF AddressesAgree

(* A clone shares every address together with its content, and caches      *)
(* nothing.                                                                *)
LEMMA CloneAgrees ==
  ASSUME CachesTyped, AddressesAgree, NEW s \in Sessions, NEW t \in Sessions \ {s}, CloneState(s, t),
         \A r \in Sessions : r # t => properties'[r] = properties[r]
  PROVE  AddressesAgree'
<1> DEFINE from(r) == IF r = t THEN s ELSE r
<1>1. \A r \in Sessions : /\ from(r) \in Sessions
                          /\ serializers'[r] = serializers[from(r)]
                          /\ tables'[r] = tables[from(r)]
                          /\ bindings'[r] = bindings[from(r)]
  BY DEF CloneState, Cloned, CachesTyped
<1>2. \A r \in Sessions, c \in ClassIds :
        cache'[r][c] = IF r = t THEN NoEntry ELSE cache[r][c]
  BY DEF CloneState, EmptyCache, CachesTyped
<1> HIDE DEF from
<1>3. RevisionsAgree'
  BY <1>1 DEF AddressesAgree, RevisionsAgree
<1>4. SchemasAgree'
  BY <1>1 DEF AddressesAgree, SchemasAgree
<1>5. BindingsAgree'
  BY <1>1 DEF AddressesAgree, BindingsAgree
<1>6. ASSUME NEW r \in Sessions, NEW c \in ClassIds, cache'[r][c] # NoEntry
      PROVE  DecodedFrom(cache'[r][c], c, properties'[r], tables', serializers')
  <2>1. r # t /\ cache'[r][c] = cache[r][c] /\ properties'[r] = properties[r]
    BY <1>2, <1>6
  <2> DEFINE e == cache[r][c]
  <2>2. DecodedFrom(e, c, properties[r], tables, serializers)
    BY <1>6, <2>1 DEF AddressesAgree, CacheAgrees
  <2> HIDE DEF e
  <2>3. DecodedFrom(e, c, properties[r], tables', serializers')
    <3> SUFFICES ASSUME NEW u \in Sessions
                 PROVE  /\ tables'[u].revision = e.key.revision => e.fields.bytes = tables'[u].bytes[c]
                        /\ serializers'[u].id = e.key.schema
                             => e.fields.layout = serializers'[u].layout[e.key.name]
      BY <2>2 DEF DecodedFrom
    <3>1. /\ from(u) \in Sessions /\ tables'[u] = tables[from(u)]
          /\ serializers'[u] = serializers[from(u)]
      BY <1>1
    <3> QED BY <2>2, <3>1 DEF DecodedFrom
  <2> QED BY <2>1, <2>3 DEF e
<1>7. CacheAgrees'
  BY <1>6 DEF CacheAgrees
<1> QED BY <1>3, <1>4, <1>5, <1>7 DEF AddressesAgree

(* Every step keeps the agreement of addresses with contents.              *)
LEMMA CachesNextAgree == CachesTyped /\ AddressesAgree /\ [CachesNext]_caches => AddressesAgree'
<1> SUFFICES ASSUME CachesTyped, AddressesAgree, [CachesNext]_caches PROVE AddressesAgree'
  OBVIOUS
<1>1. CASE UNCHANGED caches
  BY <1>1 DEF caches, AddressesAgree, RevisionsAgree, SchemasAgree, CacheAgrees, BindingsAgree
<1>2. ASSUME NEW s \in Sessions, NEW x \in Contexts, SetTickInterval(s, x) PROVE AddressesAgree'
  BY <1>2 DEF SetTickInterval, AddressesAgree, RevisionsAgree, SchemasAgree, CacheAgrees, BindingsAgree
<1>3. ASSUME NEW s \in Sessions, DecodePacket(s) PROVE AddressesAgree'
  <2>1. BindingsAgree'
    BY <1>3, RefreshAgrees DEF DecodePacket
  <2> QED BY <1>3, <2>1 DEF DecodePacket, AddressesAgree, RevisionsAgree, SchemasAgree, CacheAgrees
<1>4. ASSUME NEW s \in Sessions, NEW t \in Sessions \ {s}, Clone(s, t) PROVE AddressesAgree'
  <2>1. \A r \in Sessions : r # t => properties'[r] = properties[r]
    BY <1>4 DEF Clone, Cloned, CachesTyped
  <2> QED BY <1>4, <2>1, CloneAgrees DEF Clone
<1>5. ASSUME NEW s \in Sessions, NEW t \in Sessions \ {s}, NEW p \in Selections,
             CloneProjected(s, t, p)
      PROVE  AddressesAgree'
  <2>1. \A r \in Sessions : r # t => properties'[r] = properties[r]
    BY <1>5 DEF CloneProjected, CachesTyped
  <2> QED BY <1>5, <2>1, CloneAgrees DEF CloneProjected
<1>6. ASSUME NEW s \in Sessions, NEW names \in ClassMaps, NEW bytes \in Contents,
             InstallClassInfo(s, names, bytes)
      PROVE  AddressesAgree'
  BY <1>6, BaselineAgrees DEF InstallClassInfo
<1>7. ASSUME NEW s \in Sessions, NEW layout \in Schemas, InstallSerializers(s, layout) PROVE AddressesAgree'
  BY <1>7, SerializersAgree
<1>8. ASSUME NEW s \in Sessions, NEW bytes \in Contents, ApplyStringTables(s, bytes)
      PROVE  AddressesAgree'
  BY <1>8, BaselineAgrees DEF ApplyStringTables
<1>9. ASSUME NEW s \in Sessions, NEW c \in ClassIds, DecodeBaseline(s, c) PROVE AddressesAgree'
  BY <1>9, DecodeAgrees
<1> QED BY <1>1, <1>2, <1>3, <1>4, <1>5, <1>6, <1>7, <1>8, <1>9 DEF CachesNext

(* Under the invariant a hit is fresh.                                     *)
LEMMA HitFollows == CachesTyped /\ AddressesAgree => HitIsFresh
<1> SUFFICES ASSUME CachesTyped, AddressesAgree, NEW s \in Sessions, NEW c \in ClassIds, Hit(s, c)
             PROVE  cache[s][c].fields =
                      FieldsOf(s, c, serializers[s].layout[class_info[s].names[c]])
  BY DEF HitIsFresh
<1>1. cache[s][c] # NoEntry /\ cache[s][c].key = KeyOf(s, c)
  BY DEF Hit
<1>2. cache[s][c].fields \in Fields
  BY <1>1 DEF CachesTyped, Cached
<1>3. /\ cache[s][c].fields.name = class_info[s].names[c]
      /\ cache[s][c].fields.context = context[s]
      /\ cache[s][c].fields.selection = properties[s]
      /\ cache[s][c].fields.bytes = tables[s].bytes[c]
      /\ cache[s][c].fields.layout = serializers[s].layout[class_info[s].names[c]]
  <2> DEFINE e == cache[s][c]
  <2>1. DecodedFrom(e, c, properties[s], tables, serializers)
    BY <1>1 DEF AddressesAgree, CacheAgrees
  <2>2. /\ e.key.schema = serializers[s].id /\ e.key.revision = tables[s].revision
        /\ e.key.name = class_info[s].names[c] /\ e.key.context = context[s]
    BY <1>1 DEF KeyOf
  <2> HIDE DEF e
  <2>3. /\ e.fields.name = class_info[s].names[c] /\ e.fields.context = context[s]
        /\ e.fields.selection = properties[s]
        /\ e.fields.bytes = tables[s].bytes[c]
        /\ e.fields.layout = serializers[s].layout[class_info[s].names[c]]
    BY <2>1, <2>2 DEF DecodedFrom
  <2> QED BY <2>3 DEF e
<1> QED BY <1>2, <1>3 DEF FieldsOf, Fields

(* No hit of the baseline cache is ever stale, for any number of sessions, *)
(* classes and addresses, however the allocator reuses the addresses.      *)
THEOREM BaselineHitsAreFresh == CachesSpec => []HitIsFresh
BY CachesInitType, CachesNextType, CachesInitAgree, CachesNextAgree, HitFollows, PTL DEF CachesSpec

(* Under the invariant, matching bindings answer like the serializers.     *)
LEMMA BindingsFollow == CachesTyped /\ AddressesAgree => BindingsAreTransparent
BY LookupIsTransparent DEF BindingsAreTransparent, Refreshed, AddressesAgree

(* Refreshed bindings are indistinguishable from the serializer table.     *)
THEOREM BindingsNeverStale == CachesSpec => []BindingsAreTransparent
BY CachesInitType, CachesNextType, CachesInitAgree, CachesNextAgree, BindingsFollow, PTL DEF CachesSpec
=============================================================================
