------------------------ MODULE FilteredDecodeProofs ------------------------
(***************************************************************************)
(* Proofs about FilteredDecode, for any number of slots and classes and    *)
(* any selection: the filtered decoder agrees with the full one, always    *)
(* knows the class of what it reads past, and records what the full one    *)
(* records of the selected classes.                                        *)
(***************************************************************************)
EXTENDS FilteredDecode, FiniteSetTheorems, TLAPS

Contents == [Slots -> Full!Entity \cup {NoEntity}]

DecoderTypes ==
  /\ full \in Contents
  /\ mine \in Contents
  /\ mineSkipped \in [Slots -> Classes \cup {NoClass}]
  /\ class_filter \in {Selected, NoFilter}

(* The two decoders agree on slot i, or the filtered one skipped its       *)
(* occupant and knows the class.                                           *)
SlotAgrees(i) ==
  \/ mine[i] = full[i] /\ mineSkipped[i] = NoClass
  \/ /\ mine[i] = NoEntity
     /\ full[i] # NoEntity
     /\ full[i].class \notin Selected
     /\ mineSkipped[i] = full[i].class

Inv == DecoderTypes /\ \A i \in Slots : SlotAgrees(i)

LEMMA SameEntityType == Mine!Entity = Full!Entity
  BY DEF Mine!Entity, Full!Entity

LEMMA InitInv == Init => Inv
  BY DEF Init, Inv, DecoderTypes, Contents, SlotAgrees, Slots,
         Full!Init, Mine!Init, Full!Slots, Mine!Slots

(* A step that touches no slot. *)
LEMMA StillInv ==
  ASSUME Inv, UNCHANGED <<full, mine, mineSkipped>>,
         class_filter' \in {Selected, NoFilter}
  PROVE  Inv'
  BY DEF Inv, DecoderTypes, SlotAgrees

(* A step that touches slot i only. *)
LEMMA SlotStepInv ==
  ASSUME Inv, NEW i \in Slots, DecoderTypes', SlotAgrees(i)',
         \A j \in Slots : j # i => /\ full'[j] = full[j]
                                  /\ mine'[j] = mine[j]
                                  /\ mineSkipped'[j] = mineSkipped[j]
  PROVE  Inv'
  BY DEF Inv, SlotAgrees

(* Reading the next delta header. *)
LEMMA HeaderFilter ==
  ASSUME Inv, NEW i \in Slots, Mine!TakeDelta(i)
  PROVE  class_filter' \in {Selected, NoFilter}
  BY DEF Inv, DecoderTypes, Mine!TakeDelta

LEMMA CreateInv ==
  ASSUME Inv, NEW i \in Slots, NEW e \in Full!Entity, Create(i, e)
  PROVE  Inv'
<1>1. full' = [full EXCEPT ![i] = e]
  BY DEF Create, Full!CreateTracked, Full!PutEntity
<1>2. class_filter' \in {Selected, NoFilter}
  BY HeaderFilter DEF Create, Mine!CreateTracked, Mine!CreateSkipped
<1>3. e # NoEntity /\ e.class \in Classes
  BY NoEntityAssumption DEF Full!Entity
<1>4. CASE Mine!CreateTracked(i, e)
  <2>1. /\ mine' = [mine EXCEPT ![i] = e]
        /\ mineSkipped' = [mineSkipped EXCEPT ![i] = NoClass]
    BY <1>4 DEF Mine!CreateTracked, Mine!PutEntity
  <2>2. DecoderTypes'
    BY <1>1, <1>2, <2>1 DEF Inv, DecoderTypes, Contents
  <2>3. SlotAgrees(i)'
    BY <1>1, <2>1 DEF Inv, DecoderTypes, Contents, SlotAgrees
  <2>4. QED
    BY <1>1, <2>1, <2>2, <2>3, SlotStepInv DEF Inv, DecoderTypes, Contents
<1>5. CASE Mine!CreateSkipped(i, e.class)
  <2>1. /\ mine' = [mine EXCEPT ![i] = NoEntity]
        /\ mineSkipped' = [mineSkipped EXCEPT ![i] = e.class]
        /\ ~Mine!InFilter(e.class)
    BY <1>5 DEF Mine!CreateSkipped, Mine!DeleteEntity, Mine!TakeEntity
  <2>2. e.class \notin Selected
    BY <1>3, <2>1 DEF Mine!InFilter, Inv, DecoderTypes
  <2>3. DecoderTypes'
    BY <1>1, <1>2, <1>3, <2>1 DEF Inv, DecoderTypes, Contents
  <2>4. SlotAgrees(i)'
    BY <1>1, <1>3, <2>1, <2>2 DEF Inv, DecoderTypes, Contents, SlotAgrees
  <2>5. QED
    BY <1>1, <2>1, <2>3, <2>4, SlotStepInv DEF Inv, DecoderTypes, Contents
<1>6. QED
  BY <1>4, <1>5 DEF Create

LEMMA UpdateInv ==
  ASSUME Inv, NEW i \in Slots, NEW f \in Payloads, UpdateStored(i, f) \/ UpdateSkipped(i, f)
  PROVE  Inv'
<1>1. /\ full[i] \in Full!Entity /\ full[i] # NoEntity
      /\ full' = [full EXCEPT ![i].active = TRUE, ![i].fields = f]
  BY DEF UpdateStored, UpdateSkipped, Full!UpdateTracked, Full!Tracked, Inv, DecoderTypes, Contents
<1>2. class_filter' \in {Selected, NoFilter}
  BY HeaderFilter DEF UpdateStored, UpdateSkipped, Mine!UpdateTracked, Mine!UpdateIgnored
<1>3. /\ full' \in Contents
      /\ full'[i] # NoEntity /\ full'[i].class = full[i].class
      /\ \A j \in Slots : j # i => full'[j] = full[j]
  <2>1. full'[i] \in Full!Entity /\ full'[i].class = full[i].class
    BY <1>1 DEF Full!Entity, Inv, DecoderTypes, Contents
  <2>2. QED
    BY <1>1, <2>1, NoEntityAssumption DEF Inv, DecoderTypes, Contents
<1>4. mineSkipped' = mineSkipped
  BY DEF UpdateStored, UpdateSkipped, Mine!UpdateTracked, Mine!UpdateIgnored, Mine!store
<1>5. CASE Mine!UpdateTracked(i, f)
  <2>1. /\ mine[i] # NoEntity
        /\ mine' = [mine EXCEPT ![i].active = TRUE, ![i].fields = f]
    BY <1>5 DEF Mine!UpdateTracked, Mine!Tracked
  <2>2. mine[i] = full[i] /\ mineSkipped[i] = NoClass
    BY <2>1 DEF Inv, SlotAgrees
  <2>3. mine'[i] = full'[i] /\ \A j \in Slots : j # i => mine'[j] = mine[j]
    BY <1>1, <2>1, <2>2 DEF Inv, DecoderTypes, Contents
  <2>4. mine' \in Contents
    BY <1>3, <2>1, <2>3 DEF Inv, DecoderTypes, Contents
  <2>5. QED
    BY <1>2, <1>3, <1>4, <2>2, <2>3, <2>4, SlotStepInv
    DEF Inv, DecoderTypes, SlotAgrees
<1>6. CASE Mine!UpdateIgnored(i, FALSE)
  <2>1. mine' = mine /\ mine[i] = NoEntity
    BY <1>6 DEF Mine!UpdateIgnored, Mine!store, Mine!Tracked
  <2>2. QED
    BY <1>1, <1>2, <1>3, <1>4, <2>1, SlotStepInv DEF Inv, DecoderTypes, SlotAgrees
<1>7. QED
  BY <1>5, <1>6 DEF UpdateStored, UpdateSkipped

LEMMA LeaveInv ==
  ASSUME Inv, NEW i \in Slots, Leave(i)
  PROVE  Inv'
<1>1. class_filter' \in {Selected, NoFilter} /\ mineSkipped' = mineSkipped
  BY HeaderFilter DEF Leave, Mine!Leave
<1>2. CASE Full!Active(i)
  <2>1. /\ full[i] \in Full!Entity /\ full[i] # NoEntity
        /\ full' = [full EXCEPT ![i].active = FALSE]
    BY <1>2 DEF Leave, Full!Leave, Full!Active, Full!Tracked, Inv, DecoderTypes,
                Contents
  <2>2. /\ full' \in Contents
        /\ full'[i] # NoEntity /\ full'[i].class = full[i].class
        /\ \A j \in Slots : j # i => full'[j] = full[j]
    <3>1. full'[i] \in Full!Entity /\ full'[i].class = full[i].class
      BY <2>1 DEF Full!Entity, Inv, DecoderTypes, Contents
    <3>2. QED
      BY <2>1, <3>1, NoEntityAssumption DEF Inv, DecoderTypes, Contents
  <2>3. CASE mine[i] = full[i] /\ mineSkipped[i] = NoClass
    <3>1. Mine!Active(i)
      BY <1>2, <2>3 DEF Full!Active, Mine!Active, Full!Tracked, Mine!Tracked
    <3>2. mine' = [mine EXCEPT ![i].active = FALSE]
      BY <3>1 DEF Leave, Mine!Leave
    <3>3. mine'[i] = full'[i] /\ \A j \in Slots : j # i => mine'[j] = mine[j]
      BY <2>1, <2>3, <3>2 DEF Inv, DecoderTypes, Contents
    <3>4. mine' \in Contents
      BY <2>2, <3>2, <3>3 DEF Inv, DecoderTypes, Contents
    <3>5. QED
      BY <1>1, <2>2, <2>3, <3>3, <3>4, SlotStepInv
      DEF Inv, DecoderTypes, SlotAgrees
  <2>4. CASE mine[i] = NoEntity
    <3>1. ~Mine!Active(i)
      BY <2>4 DEF Mine!Active, Mine!Tracked
    <3>2. mine' = mine
      BY <3>1 DEF Leave, Mine!Leave
    <3>3. QED
      BY <1>1, <2>1, <2>2, <2>4, <3>2, SlotStepInv DEF Inv, DecoderTypes, SlotAgrees
  <2>5. QED
    BY <2>3, <2>4 DEF Inv, SlotAgrees
<1>3. CASE ~Full!Active(i)
  <2>1. full' = full
    BY <1>3 DEF Leave, Full!Leave
  <2>2. ~Mine!Active(i)
    BY <1>3 DEF Inv, SlotAgrees, Full!Active, Mine!Active, Full!Tracked, Mine!Tracked
  <2>3. mine' = mine
    BY <2>2 DEF Leave, Mine!Leave
  <2>4. QED
    BY <1>1, <2>1, <2>3, StillInv
<1>4. QED
  BY <1>2, <1>3

LEMMA LeaveDeleteInv ==
  ASSUME Inv, NEW i \in Slots, LeaveDelete(i)
  PROVE  Inv'
<1>1. class_filter' \in {Selected, NoFilter}
  BY HeaderFilter DEF LeaveDelete, Mine!LeaveDelete
<1>2. /\ full' = [full EXCEPT ![i] = NoEntity]
      /\ mine' = [mine EXCEPT ![i] = NoEntity]
  BY DEF LeaveDelete, Full!LeaveDelete, Mine!LeaveDelete,
         Full!DeleteEntity, Mine!DeleteEntity, Full!TakeEntity, Mine!TakeEntity
<1>3. /\ mineSkipped'[i] = NoClass
      /\ \A j \in Slots : j # i => mineSkipped'[j] = mineSkipped[j]
      /\ mineSkipped' \in [Slots -> Classes \cup {NoClass}]
  BY DEF LeaveDelete, Mine!LeaveDelete, Mine!Tracked, Inv, DecoderTypes, SlotAgrees
<1>4. DecoderTypes'
  BY <1>1, <1>2, <1>3 DEF Inv, DecoderTypes, Contents
<1>5. SlotAgrees(i)'
  BY <1>2, <1>3 DEF Inv, DecoderTypes, Contents, SlotAgrees
<1>6. QED
  BY <1>2, <1>3, <1>4, <1>5, SlotStepInv DEF Inv, DecoderTypes, Contents

LEMMA NextInv == Inv /\ [Next]_vars => Inv'
<1> SUFFICES ASSUME Inv, [Next]_vars PROVE Inv'
  OBVIOUS
<1>1. ASSUME NEW n \in 1 .. MaxDeltas, BeginPacket(n) PROVE Inv'
  BY <1>1, StillInv DEF BeginPacket, Full!BeginPacket, Mine!BeginPacket,
                        Full!store, Mine!store
<1>2. ASSUME NEW i \in Slots, UpdateCancelled(i) PROVE Inv'
  BY <1>2, StillInv, HeaderFilter
  DEF UpdateCancelled, Full!UpdateIgnored, Mine!UpdateIgnored, Full!store, Mine!store
<1>3. ASSUME ClearTick \/ EndSignon PROVE Inv'
  BY <1>3, StillInv
  DEF ClearTick, EndSignon, Full!ClearTickChanges, Mine!ClearTickChanges,
      Full!ClearEntityChanges, Mine!ClearEntityChanges,
      Full!ForgetChanges, Mine!ForgetChanges, Full!store, Mine!store,
      Mine!message, Inv, DecoderTypes
<1>4. CASE UNCHANGED vars
  BY <1>4, StillInv DEF vars, containers, Inv, DecoderTypes
<1>5. ASSUME NEW table \in [ClassIds -> Names], InstallClassInfo(table) PROVE Inv'
  BY <1>5, StillInv DEF InstallClassInfo, containers, Inv, DecoderTypes
<1>6. QED
  BY <1>1, <1>2, <1>3, <1>4, <1>5, CreateInv, UpdateInv, LeaveInv, LeaveDeleteInv DEF Next

LEMMA InvAlways == Spec => []Inv
  BY InitInv, NextInv, PTL DEF Spec

----------------------------------------------------------------------------
(* The serializer that a delta is read past with.                          *)

(* The class table has the names that the entities were created with. *)
Named(e) == e # NoEntity => class_info[e.class.id] = e.class.name
InStep ==
  /\ renamed \in BOOLEAN
  /\ ~renamed => \A i \in Slots : Named(full[i])
  /\ astray => renamed

(* A step that installs no table and keeps the class of every entity, or   *)
(* creates one with the name the table has.                                *)
LEMMA KeepsInStep ==
  ASSUME InStep, UNCHANGED schema, astray' => renamed,
         \A i \in Slots : \/ full'[i] = NoEntity
                          \/ full[i] # NoEntity /\ full'[i].class = full[i].class
                          \/ class_info[full'[i].class.id] = full'[i].class.name
  PROVE  InStep'
BY DEF InStep, Named, schema

(* An entity whose class is remembered is read past as it was sent. *)
LEMMA SkippedIsReadPast ==
  ASSUME Inv, InStep, ~renamed, NEW i \in Slots, full[i] # NoEntity, mine[i] = NoEntity
  PROVE  ReadsPast(i)
<1>1. mineSkipped[i] = full[i].class
  BY DEF Inv, SlotAgrees
<1>2. full[i].class \in Classes
  BY DEF Inv, DecoderTypes, Contents, Full!Entity
<1> QED BY <1>1, <1>2, NoClassAssumption DEF ReadsPast, InStep, Named

LEMMA InitInStep == Init => InStep
  BY DEF Init, InStep, Named, Slots, Full!Init, Full!Slots

LEMMA NextInStep == Inv /\ InStep /\ [Next]_vars => InStep'
<1> SUFFICES ASSUME Inv, InStep, [Next]_vars PROVE InStep'
  OBVIOUS
<1>0. CASE UNCHANGED vars
  BY <1>0, KeepsInStep DEF vars, containers, reading, InStep
<1> USE DEF reading
<1>1. ASSUME NEW n \in 1 .. MaxDeltas, BeginPacket(n) PROVE InStep'
  BY <1>1, KeepsInStep DEF BeginPacket, Full!BeginPacket, Full!store, InStep
<1>2. ASSUME NEW i \in Slots, NEW e \in Full!Entity, Create(i, e) PROVE InStep'
  <2>1. full' = [full EXCEPT ![i] = e] /\ UNCHANGED <<schema, astray>>
    BY <1>2 DEF Create, Full!CreateTracked, Full!PutEntity
  <2>2. class_info[e.class.id] = e.class.name
    BY <1>2 DEF Create
  <2> QED BY <2>1, <2>2, KeepsInStep DEF Inv, DecoderTypes, Contents, InStep
<1>3. ASSUME NEW i \in Slots, NEW f \in Payloads, UpdateStored(i, f) \/ UpdateSkipped(i, f)
      PROVE  InStep'
  <2>1. full[i] \in Full!Entity /\ full[i] # NoEntity
        /\ full' = [full EXCEPT ![i].active = TRUE, ![i].fields = f]
    BY <1>3 DEF UpdateStored, UpdateSkipped, Full!UpdateTracked, Full!Tracked, Inv, DecoderTypes,
                Contents
  <2>2. full'[i].class = full[i].class /\ \A j \in Slots : j # i => full'[j] = full[j]
    BY <2>1 DEF Full!Entity, Inv, DecoderTypes, Contents
  <2>3. astray' => renamed
    <3>1. CASE UpdateStored(i, f)
      BY <3>1 DEF UpdateStored, InStep
    <3>2. CASE UpdateSkipped(i, f)
      <4>1. mine[i] = NoEntity /\ astray' = ~ReadsPast(i)
        BY <3>2 DEF UpdateSkipped, Mine!UpdateIgnored, Mine!Tracked
      <4> QED BY <2>1, <4>1, SkippedIsReadPast
    <3> QED BY <1>3, <3>1, <3>2
  <2>4. UNCHANGED schema
    BY <1>3 DEF UpdateStored, UpdateSkipped
  <2> QED BY <2>1, <2>2, <2>3, <2>4, KeepsInStep
<1>4. ASSUME NEW i \in Slots, UpdateCancelled(i) PROVE InStep'
  BY <1>4, KeepsInStep DEF UpdateCancelled, Full!UpdateIgnored, Full!store, InStep
<1>5. ASSUME NEW i \in Slots, Leave(i) PROVE InStep'
  <2>1. full' = full \/ (full[i] # NoEntity /\ full' = [full EXCEPT ![i].active = FALSE])
    BY <1>5 DEF Leave, Full!Leave, Full!Active, Full!Tracked
  <2>2. full[i] # NoEntity => full[i] \in Full!Entity
    BY DEF Inv, DecoderTypes, Contents
  <2>3. \A j \in Slots : full[j] = NoEntity => full'[j] = NoEntity
    BY <2>1 DEF Inv, DecoderTypes, Contents
  <2>4. \A j \in Slots : full[j] # NoEntity => full'[j].class = full[j].class
    BY <2>1, <2>2 DEF Full!Entity, Inv, DecoderTypes, Contents
  <2>5. UNCHANGED <<schema, astray>>
    BY <1>5 DEF Leave
  <2> QED BY <2>3, <2>4, <2>5, KeepsInStep DEF InStep
<1>6. ASSUME NEW i \in Slots, LeaveDelete(i) PROVE InStep'
  <2>1. full' = [full EXCEPT ![i] = NoEntity] /\ UNCHANGED <<schema, astray>>
    BY <1>6 DEF LeaveDelete, Full!LeaveDelete, Full!DeleteEntity, Full!TakeEntity
  <2> QED BY <2>1, KeepsInStep DEF Inv, DecoderTypes, Contents, InStep
<1>7. ASSUME ClearTick \/ EndSignon PROVE InStep'
  BY <1>7, KeepsInStep
  DEF ClearTick, EndSignon, Full!ClearTickChanges, Full!ClearEntityChanges, Full!ForgetChanges,
      Full!store, InStep
<1>8. ASSUME NEW table \in [ClassIds -> Names], InstallClassInfo(table) PROVE InStep'
  BY <1>8 DEF InstallClassInfo, containers, InStep, Named
<1> QED
  BY <1>0, <1>1, <1>2, <1>3, <1>4, <1>5, <1>6, <1>7, <1>8 DEF Next

LEMMA InStepAlways == Spec => []InStep
  BY InitInStep, NextInStep, InvAlways, PTL DEF Spec

(* Skipping the entities of other classes never disturbs those of the      *)
(* selected ones: the filtered playback stores the entity the full decode  *)
(* stores, whatever messages the stream holds.                             *)
THEOREM FilteredDecodeAgrees == Spec => []FilteredAgrees
<1>1. Inv => FilteredAgrees
  BY DEF Inv, FilteredAgrees, SlotAgrees
<1>2. QED
  BY <1>1, InvAlways, PTL

(* The skip set holds exactly the classes of the entities that were read   *)
(* past, so a later update of one of them is read with its own serializer  *)
(* and the reader never loses its place, unless a class table renames the  *)
(* id of an entity that is alive.                                          *)
THEOREM SkippedClassesKnown == Spec => []SkipSetExact
<1>1. Inv /\ InStep => SkipSetExact
  BY DEF Inv, InStep, SkipSetExact, SlotAgrees
<1>2. QED
  BY <1>1, InvAlways, InStepAlways, PTL

----------------------------------------------------------------------------
(* The lifecycle journals.                                                 *)

Journal == Seq(Full!Change)

(* The records of the selected classes in a longer journal. *)
LEMMA AppendSelected ==
  ASSUME NEW log \in Journal, NEW c \in Full!Change
  PROVE  LET new  == Append(log, c)
             last == Len(log) + 1
             many == Cardinality(OfSelected(log))
         IN  /\ new \in Journal /\ new[last] = c /\ many \in Nat
             /\ OfSelected(new) = IF c.class \in Selected THEN OfSelected(log) \cup {last}
                                                          ELSE OfSelected(log)
             /\ \A k \in OfSelected(log) :
                  new[k] = log[k] /\ Place(new, k) = Place(log, k) /\ Place(log, k) <= many
             /\ \A k \in OfSelected(log) : Place(log, k) \in Nat
             /\ c.class \in Selected =>
                  Cardinality(OfSelected(new)) = many + 1 /\ Place(new, last) = many + 1
<1> DEFINE new  == Append(log, c)
           last == Len(log) + 1
           many == Cardinality(OfSelected(log))
<1>1. /\ Len(log) \in Nat /\ DOMAIN log = 1 .. Len(log) /\ DOMAIN new = 1 .. last /\ last \in Int
      /\ \A k \in 1 .. Len(log) : new[k] = log[k] /\ k < last
      /\ new[last] = c /\ new \in Journal
  BY DEF Journal
<1> HIDE DEF new, last
<1>2. OfSelected(log) \subseteq 1 .. Len(log) /\ IsFiniteSet(OfSelected(log)) /\ many \in Nat
  <2>1. OfSelected(log) \subseteq 1 .. Len(log)
    BY <1>1 DEF OfSelected
  <2>2. IsFiniteSet(1 .. Len(log))
    BY <1>1, FS_Interval
  <2> QED BY <2>1, <2>2, FS_Subset, FS_CardinalityType
<1>3. \A k \in 1 .. last : k \in 1 .. Len(log) \/ k = last
  BY <1>1 DEF last
<1>4. last \in 1 .. last /\ 1 .. Len(log) \subseteq 1 .. last
  BY <1>1 DEF last
<1>5. OfSelected(new) = IF c.class \in Selected THEN OfSelected(log) \cup {last}
                                                ELSE OfSelected(log)
  BY <1>1, <1>3, <1>4 DEF OfSelected
<1>6. ASSUME NEW k \in OfSelected(log)
      PROVE  /\ new[k] = log[k] /\ Place(new, k) = Place(log, k)
             /\ Place(log, k) <= many /\ Place(log, k) \in Nat
  <2> DEFINE low == {j \in OfSelected(log) : j <= k}
  <2>1. k \in 1 .. Len(log) /\ k < last /\ ~(last <= k)
    BY <1>1, <1>2
  <2>2. {j \in OfSelected(new) : j <= k} = low
    BY <1>5, <2>1
  <2>3. low \subseteq OfSelected(log)
    OBVIOUS
  <2> HIDE DEF low
  <2>4. IsFiniteSet(low) /\ Cardinality(low) <= many /\ Cardinality(low) \in Nat
    BY <1>2, <2>3, FS_Subset, FS_CardinalityType
  <2> QED BY <1>1, <2>1, <2>2, <2>4 DEF Place, low
<1>7. ASSUME c.class \in Selected
      PROVE  Cardinality(OfSelected(new)) = many + 1 /\ Place(new, last) = many + 1
  <2>1. last \notin OfSelected(log) /\ OfSelected(new) = OfSelected(log) \cup {last}
    BY <1>1, <1>2, <1>5, <1>7
  <2>2. Cardinality(OfSelected(new)) = many + 1
    BY <1>2, <2>1, FS_AddElement
  <2>3. {j \in OfSelected(new) : j <= last} = OfSelected(new)
    BY <1>1, <1>2, <2>1
  <2> QED BY <2>2, <2>3 DEF Place
<1> QED BY <1>1, <1>2, <1>5, <1>6, <1>7 DEF new, last

(* A record of another class may come to either journal alone. *)
LEMMA OtherClass ==
  ASSUME NEW part \in Journal, NEW whole \in Journal, Projects(part, whole),
         NEW c \in Full!Change, c.class \notin Selected
  PROVE  Projects(Append(part, c), whole) /\ Projects(part, Append(whole, c))
<1>1. /\ OfSelected(Append(part, c)) = OfSelected(part)
      /\ \A k \in OfSelected(part) :
           Append(part, c)[k] = part[k] /\ Place(Append(part, c), k) = Place(part, k)
  BY AppendSelected
<1>2. /\ OfSelected(Append(whole, c)) = OfSelected(whole)
      /\ \A k \in OfSelected(whole) :
           Append(whole, c)[k] = whole[k] /\ Place(Append(whole, c), k) = Place(whole, k)
  BY AppendSelected
<1> QED BY <1>1, <1>2 DEF Projects

(* Any record may come to both. *)
LEMMA SameRecord ==
  ASSUME NEW part \in Journal, NEW whole \in Journal, Projects(part, whole),
         NEW c \in Full!Change
  PROVE  Projects(Append(part, c), Append(whole, c))
<1> DEFINE mine_  == Append(part, c)
           whole_ == Append(whole, c)
<1>1. CASE c.class \notin Selected
  <2>1. Projects(part, whole_)
    BY <1>1, OtherClass
  <2>2. whole_ \in Journal
    BY AppendSelected
  <2> HIDE DEF whole_
  <2>3. Projects(mine_, whole_)
    BY <1>1, <2>1, <2>2, OtherClass
  <2> QED BY <2>3 DEF whole_
<1>2. CASE c.class \in Selected
  <2> DEFINE m0   == Len(part) + 1
             f0   == Len(whole) + 1
             many == Cardinality(OfSelected(part))
  <2>1. /\ OfSelected(mine_) = OfSelected(part) \cup {m0} /\ mine_[m0] = c
        /\ many \in Nat /\ Cardinality(OfSelected(mine_)) = many + 1
        /\ Place(mine_, m0) = many + 1
        /\ \A k \in OfSelected(part) :
             mine_[k] = part[k] /\ Place(mine_, k) = Place(part, k) /\ Place(part, k) <= many
        /\ \A k \in OfSelected(part) : Place(part, k) \in Nat
    BY <1>2, AppendSelected
  <2>2. many = Cardinality(OfSelected(whole))
    BY DEF Projects
  <2>3. /\ OfSelected(whole_) = OfSelected(whole) \cup {f0} /\ whole_[f0] = c
        /\ Cardinality(OfSelected(whole_)) = many + 1
        /\ Place(whole_, f0) = many + 1
        /\ \A k \in OfSelected(whole) :
             whole_[k] = whole[k] /\ Place(whole_, k) = Place(whole, k) /\ Place(whole, k) <= many
        /\ \A k \in OfSelected(whole) : Place(whole, k) \in Nat
    <3> DEFINE all == Cardinality(OfSelected(whole))
    <3>1. /\ OfSelected(whole_) = OfSelected(whole) \cup {f0} /\ whole_[f0] = c
          /\ Cardinality(OfSelected(whole_)) = all + 1
          /\ Place(whole_, f0) = all + 1
          /\ \A k \in OfSelected(whole) :
               whole_[k] = whole[k] /\ Place(whole_, k) = Place(whole, k) /\ Place(whole, k) <= all
          /\ \A k \in OfSelected(whole) : Place(whole, k) \in Nat
      BY <1>2, AppendSelected
    <3>2. all = many
      BY <2>2
    <3> HIDE DEF all, many, whole_, f0
    <3> QED BY <3>1, <3>2
  <2> HIDE DEF mine_, whole_, m0, f0, many
  <2>4. ASSUME NEW m \in OfSelected(mine_), NEW f \in OfSelected(whole_),
               Place(mine_, m) = Place(whole_, f)
        PROVE  mine_[m] = whole_[f]
    <3>1. CASE m = m0 /\ f = f0
      BY <2>1, <2>3, <3>1
    <3>2. CASE m \in OfSelected(part) /\ f \in OfSelected(whole)
      BY <2>1, <2>3, <2>4, <3>2 DEF Projects
    <3>3. CASE m = m0 /\ f \in OfSelected(whole)
      BY <2>1, <2>3, <2>4, <3>3
    <3>4. CASE m \in OfSelected(part) /\ f = f0
      BY <2>1, <2>3, <2>4, <3>4
    <3> QED BY <2>1, <2>3, <3>1, <3>2, <3>3, <3>4
  <2> QED BY <2>1, <2>3, <2>4 DEF Projects, mine_, whole_
<1> QED BY <1>1, <1>2

JournalsMatch ==
  /\ mineChanges \in Journal
  /\ fullChanges \in Journal
  /\ JournalProjects

LEMMA RecordType ==
  ASSUME NEW k \in Full!Kinds, NEW i \in Slots, NEW e \in Full!Entity
  PROVE  /\ Full!ChangeOf(k, i, e) \in Full!Change /\ Full!ChangeOf(k, i, e).class = e.class
         /\ Mine!ChangeOf(k, i, e) = Full!ChangeOf(k, i, e)
BY DEF Full!ChangeOf, Mine!ChangeOf, Full!Change, Full!Entity, Slots

(* A record about an entity the full decoder stores, that the filtered one *)
(* makes if it stores the entity too.                                      *)
LEMMA RecordedAlike ==
  ASSUME Inv, NEW part \in Journal, NEW whole \in Journal, Projects(part, whole),
         NEW k \in Full!Kinds, NEW i \in Slots, full[i] # NoEntity
  PROVE  LET c == Full!ChangeOf(k, i, full[i])
         IN  /\ Append(whole, c) \in Journal
             /\ mine[i] # NoEntity =>
                  /\ Mine!ChangeOf(k, i, mine[i]) = c /\ Append(part, c) \in Journal
                  /\ Projects(Append(part, c), Append(whole, c))
             /\ mine[i] = NoEntity => Projects(part, Append(whole, c))
<1> DEFINE c == Full!ChangeOf(k, i, full[i])
<1>1. full[i] \in Full!Entity
  BY DEF Inv, DecoderTypes, Contents
<1>2. c \in Full!Change /\ c.class = full[i].class /\ Mine!ChangeOf(k, i, full[i]) = c
  BY <1>1, RecordType
<1> HIDE DEF c
<1>3. Append(whole, c) \in Journal /\ Append(part, c) \in Journal
  BY <1>2, AppendSelected
<1>4. ASSUME mine[i] # NoEntity
      PROVE  mine[i] = full[i] /\ Projects(Append(part, c), Append(whole, c))
  BY <1>2, <1>4, SameRecord DEF Inv, SlotAgrees
<1>5. ASSUME mine[i] = NoEntity
      PROVE  Projects(part, Append(whole, c))
  <2>1. full[i].class \notin Selected
    BY <1>5 DEF Inv, SlotAgrees
  <2> QED BY <1>2, <2>1, OtherClass
<1> QED BY <1>2, <1>3, <1>4, <1>5 DEF c

(* The deletion of whoever holds a slot. *)
LEMMA DeletionAlike ==
  ASSUME Inv, JournalsMatch, NEW i \in Slots
  PROVE  /\ Full!DeletionLogged(i) \in Journal /\ Mine!DeletionLogged(i) \in Journal
         /\ Projects(Mine!DeletionLogged(i), Full!DeletionLogged(i))
<1>1. "Deleted" \in Full!Kinds
  BY DEF Full!Kinds
<1>2. CASE full[i] # NoEntity
  BY <1>1, <1>2, RecordedAlike DEF JournalsMatch, JournalProjects, Full!DeletionLogged,
     Mine!DeletionLogged, Full!Tracked, Mine!Tracked
<1>3. CASE full[i] = NoEntity
  <2>1. mine[i] = NoEntity
    BY <1>3 DEF Inv, SlotAgrees
  <2> QED BY <1>3, <2>1 DEF JournalsMatch, JournalProjects, Full!DeletionLogged,
             Mine!DeletionLogged, Full!Tracked, Mine!Tracked
<1> QED BY <1>2, <1>3

LEMMA CreateMatches ==
  ASSUME Inv, JournalsMatch, NEW i \in Slots, NEW e \in Full!Entity, Create(i, e)
  PROVE  JournalsMatch'
<1> DEFINE c == Full!ChangeOf("Created", i, e)
<1>1. "Created" \in Full!Kinds
  BY DEF Full!Kinds
<1>2. c \in Full!Change /\ c.class = e.class /\ Mine!ChangeOf("Created", i, e) = c
  BY <1>1, RecordType
<1>3. fullChanges' = Append(Full!DeletionLogged(i), c)
  BY DEF Create, Full!CreateTracked, Full!PutEntity
<1> HIDE DEF c
<1>4. CASE Mine!CreateTracked(i, e)
  <2>1. mineChanges' = Append(Mine!DeletionLogged(i), c)
    BY <1>2, <1>4 DEF Mine!CreateTracked, Mine!PutEntity
  <2> QED BY <1>2, <1>3, <2>1, DeletionAlike, SameRecord, AppendSelected
          DEF JournalsMatch, JournalProjects
<1>5. CASE Mine!CreateSkipped(i, e.class)
  <2>1. mineChanges' = Mine!DeletionLogged(i) /\ ~Mine!InFilter(e.class)
    BY <1>5 DEF Mine!CreateSkipped, Mine!DeleteEntity
  <2>2. e.class \notin Selected
    <3>1. e.class \in Classes
      BY DEF Full!Entity
    <3> QED BY <2>1, <3>1 DEF Mine!InFilter, Inv, DecoderTypes
  <2> QED BY <1>2, <1>3, <2>1, <2>2, DeletionAlike, OtherClass, AppendSelected
          DEF JournalsMatch, JournalProjects
<1> QED BY <1>4, <1>5 DEF Create

LEMMA UpdateMatches ==
  ASSUME Inv, JournalsMatch, NEW i \in Slots, NEW f \in Payloads,
         UpdateStored(i, f) \/ UpdateSkipped(i, f)
  PROVE  JournalsMatch'
<1> DEFINE kind == IF Full!Active(i) THEN "Updated" ELSE "Reactivated"
<1>1. /\ full[i] # NoEntity /\ kind \in Full!Kinds
      /\ fullChanges' = Append(fullChanges, Full!ChangeOf(kind, i, full[i]))
  BY DEF UpdateStored, UpdateSkipped, Full!UpdateTracked, Full!Tracked, Full!Kinds
<1>2. CASE Mine!UpdateTracked(i, f)
  <2>1. /\ mine[i] # NoEntity
        /\ mineChanges' = Append(mineChanges, Mine!ChangeOf(
             IF Mine!Active(i) THEN "Updated" ELSE "Reactivated", i, mine[i]))
    BY <1>2 DEF Mine!UpdateTracked, Mine!Tracked
  <2>2. mine[i] = full[i]
    BY <2>1 DEF Inv, SlotAgrees
  <2>3. Mine!Active(i) <=> Full!Active(i)
    BY <2>2 DEF Mine!Active, Full!Active, Mine!Tracked, Full!Tracked
  <2>4. mineChanges' = Append(mineChanges, Mine!ChangeOf(kind, i, mine[i]))
    BY <2>1, <2>3
  <2> HIDE DEF kind
  <2> QED BY <1>1, <2>1, <2>4, RecordedAlike DEF JournalsMatch, JournalProjects
<1>3. CASE Mine!UpdateIgnored(i, FALSE)
  <2>1. mineChanges' = mineChanges /\ mine[i] = NoEntity
    BY <1>3 DEF Mine!UpdateIgnored, Mine!journals, Mine!Tracked
  <2> HIDE DEF kind
  <2> QED BY <1>1, <2>1, RecordedAlike DEF JournalsMatch, JournalProjects
<1> QED BY <1>2, <1>3 DEF UpdateStored, UpdateSkipped

LEMMA LeaveMatches ==
  ASSUME Inv, JournalsMatch, NEW i \in Slots, Leave(i)
  PROVE  JournalsMatch'
<1>1. CASE Full!Active(i)
  <2>1. /\ full[i] # NoEntity /\ full[i].active /\ "LeftPvs" \in Full!Kinds
        /\ fullChanges' = Append(fullChanges, Full!ChangeOf("LeftPvs", i, full[i]))
    BY <1>1 DEF Leave, Full!Leave, Full!Active, Full!Tracked, Full!Kinds
  <2>2. mine[i] # NoEntity => mine[i] = full[i]
    BY DEF Inv, SlotAgrees
  <2>3. mineChanges' = IF mine[i] # NoEntity
                         THEN Append(mineChanges, Mine!ChangeOf("LeftPvs", i, mine[i]))
                         ELSE mineChanges
    BY <2>1, <2>2 DEF Leave, Mine!Leave, Mine!Active, Mine!Tracked
  <2> QED BY <2>1, <2>3, RecordedAlike DEF JournalsMatch, JournalProjects
<1>2. CASE ~Full!Active(i)
  <2>1. ~Mine!Active(i)
    BY <1>2 DEF Inv, SlotAgrees, Full!Active, Mine!Active, Full!Tracked, Mine!Tracked
  <2>2. UNCHANGED <<mineChanges, fullChanges>>
    BY <1>2, <2>1 DEF Leave, Full!Leave, Mine!Leave
  <2> QED BY <2>2 DEF JournalsMatch, JournalProjects
<1> QED BY <1>1, <1>2

LEMMA NextMatches == Inv /\ JournalsMatch /\ [Next]_vars => JournalsMatch'
<1> SUFFICES ASSUME Inv, JournalsMatch, [Next]_vars PROVE JournalsMatch'
  OBVIOUS
<1>1. ASSUME UNCHANGED <<mineChanges, fullChanges>> PROVE JournalsMatch'
  BY <1>1 DEF JournalsMatch, JournalProjects
<1>2. ASSUME mineChanges' = <<>>, fullChanges' = <<>> PROVE JournalsMatch'
  <2>1. <<>> \in Journal /\ OfSelected(<<>>) = {}
    BY DEF Journal, OfSelected
  <2> QED BY <1>2, <2>1 DEF JournalsMatch, JournalProjects, Projects
<1>3. ASSUME NEW n \in 1 .. MaxDeltas, BeginPacket(n) PROVE JournalsMatch'
  BY <1>1, <1>3 DEF BeginPacket, Full!BeginPacket, Mine!BeginPacket, Full!journals, Mine!journals
<1>4. ASSUME NEW i \in Slots, UpdateCancelled(i) PROVE JournalsMatch'
  BY <1>1, <1>4 DEF UpdateCancelled, Full!UpdateIgnored, Mine!UpdateIgnored, Full!journals,
                    Mine!journals
<1>5. ASSUME NEW i \in Slots, LeaveDelete(i) PROVE JournalsMatch'
  <2>1. mineChanges' = Mine!DeletionLogged(i) /\ fullChanges' = Full!DeletionLogged(i)
    BY <1>5 DEF LeaveDelete, Full!LeaveDelete, Mine!LeaveDelete, Full!DeleteEntity,
                Mine!DeleteEntity
  <2> QED BY <2>1, DeletionAlike DEF JournalsMatch, JournalProjects
<1>6. ASSUME ClearTick \/ EndSignon PROVE JournalsMatch'
  BY <1>2, <1>6 DEF ClearTick, EndSignon, Full!ClearTickChanges, Mine!ClearTickChanges,
     Full!ClearEntityChanges, Mine!ClearEntityChanges, Full!ForgetChanges, Mine!ForgetChanges
<1>7. ASSUME NEW table \in [ClassIds -> Names], InstallClassInfo(table) PROVE JournalsMatch'
  BY <1>1, <1>7 DEF InstallClassInfo, containers
<1>8. CASE UNCHANGED vars
  BY <1>1, <1>8 DEF vars, containers
<1> QED BY <1>3, <1>4, <1>5, <1>6, <1>7, <1>8, CreateMatches, UpdateMatches, LeaveMatches DEF Next

(* The lifecycle journal of a filtered playback is the journal of a full   *)
(* one reduced to the selected classes, whatever mixture of stored and     *)
(* skipped occupants the slots have had since sign-on.                     *)
THEOREM FilteredJournalProjects == Spec => []JournalProjects
<1>1. Init => JournalsMatch
  <2>1. <<>> \in Journal /\ OfSelected(<<>>) = {}
    BY DEF Journal, OfSelected
  <2> QED BY <2>1 DEF Init, Full!Init, Mine!Init, JournalsMatch, JournalProjects, Projects
<1>2. JournalsMatch => JournalProjects
  BY DEF JournalsMatch
<1> QED BY <1>1, <1>2, NextMatches, InvAlways, PTL DEF Spec
=============================================================================
