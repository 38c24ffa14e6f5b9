---------------------------- MODULE FieldUpdates ----------------------------
(***************************************************************************)
(* The field map of an entity under deltas: Entity::apply_update in        *)
(* src/src/entity/entities.rs, and the property filter that keeps a part   *)
(* of the map (src/src/entity/properties.rs).                              *)
(*                                                                         *)
(* Two entities decode the same deltas in lock step: `full` without a      *)
(* property filter and `projected` with one, from its creation on or from  *)
(* the moment a session projects the entities of the sign-on.  The bits of *)
(* a field are consumed by both, so one value is chosen for the two.       *)
(*                                                                         *)
(* A map is indexed by the path itself where the code packs it into a key: *)
(* the paths of a reader have different keys, and the arithmetic on keys   *)
(* nests as the paths do (KeysAreAddresses of FieldPathReader).            *)
(***************************************************************************)
EXTENDS FieldPaths

CONSTANTS
  Fields,        \* the serializer of the class: the fields at its root
  NoSerializer,  \* a field without a nested serializer
  OutOfRange,    \* resolve_field_path's error
  Requested,     \* the paths a caller's names resolve to
  Counts,        \* lengths of dynamic arrays
  Scalars,       \* values of the other fields
  Present, Missing,   \* the boolean of a pointer
  NoValue        \* a key that is not in the map

ASSUME CountsAssumption == Counts \subseteq Nat
ASSUME ScalarsAssumption ==
  Counts \cap (Scalars \cup {Present, Missing}) = {} /\ Scalars \cap {Present, Missing} = {}
ASSUME NoValueAssumption ==
  NoValue \notin Counts \cup Scalars \cup {Present, Missing} /\ Present # Missing

VARIABLES
  full,       \* the fields of an unfiltered entity
  projected,  \* the fields of the same entity under the property filter
  selecting,  \* the filter is in force for it
  orderly     \* history: every write so far was to a place that exists

entity == <<full, projected, selecting, orderly>>

----------------------------------------------------------------------------
(* The schema.                                                             *)

(* One level of resolve_field_path: every element of a dynamic array has   *)
(* the first field of its pseudo-serializer, and a path that goes on below *)
(* a field without a serializer stays at that field.                       *)
Child(field, index) ==
  IF field = OutOfRange THEN OutOfRange
  ELSE IF field.fields = NoSerializer THEN field
  ELSE LET at == IF field.kind = "array" THEN 1 ELSE index + 1
       IN  IF at \in DOMAIN field.fields THEN field.fields[at] ELSE OutOfRange

Resolve(p) ==
  LET at[d \in 0 .. p.last] ==
        IF d > 0 THEN Child(at[d - 1], p.data[d])
        ELSE IF p.data[0] + 1 \in DOMAIN Fields THEN Fields[p.data[0] + 1] ELSE OutOfRange
  IN  at[p.last]

PointerField(field) == field.kind = "pointer"
ArrayField(field) == field.kind = "array"

(* PropertyFilter::compile: a requested path with fields below it stands   *)
(* for its subtree.                                                        *)
Subtrees == {p \in Requested : \/ Resolve(p).fields # NoSerializer
                               \/ ArrayField(Resolve(p))}

(* ClassProperties::retains *)
MutantRetains(p, field) ==
  \/ p \in Requested
  \/ PointerField(field)
  \/ \E root \in Subtrees : p = root \/ Below(p, root)
Retains(p, field) ==
  \/ p \in Requested
  \/ PointerField(field)
  \/ ArrayField(field)
  \/ \E root \in Subtrees : p = root \/ Below(p, root)

----------------------------------------------------------------------------
(* A delta is decoded field by field.                                      *)

(* The paths that the reader of a delta can give (FieldPathReader).        *)
Paths == {p \in [data : {f \in [Depths -> UNION {Component(d) : d \in Depths}] :
                           \A d \in Depths : f[d] \in Component(d)},
                 last : Depths] : Canonical(p)}
Addresses == {p \in Paths : Resolve(p) # OutOfRange}
FieldAt == [p \in Addresses |-> Resolve(p)]

ASSUME RequestedAssumption == Requested \subseteq Addresses

ValuesOf(field) ==
  IF PointerField(field) THEN {Present, Missing}
  ELSE IF ArrayField(field) THEN Counts ELSE Scalars

UpdatesInit ==
  /\ full = [k \in Addresses |-> NoValue]
  /\ projected = full
  /\ selecting \in BOOLEAN
  /\ orderly = TRUE

(* The cut that a shape update makes in a map, which may hold an older     *)
(* value of the field: a pointer that is missing and an array that got     *)
(* shorter, or whose length was unknown, lose what lies past it.           *)
MutantCuts(fields, p, field, value) ==
  \/ PointerField(field) /\ value = Missing
  \/ ArrayField(field) /\ fields[p] = NoValue
Cuts(fields, p, field, value) ==
  IF PointerField(field) THEN value = Missing
  ELSE IF ~ArrayField(field) THEN FALSE
  ELSE IF fields[p] = NoValue THEN TRUE ELSE value < fields[p]

Cutoff(field, value) == IF PointerField(field) THEN 0 ELSE value

(* What a cutoff at p drops: FieldPath::retain_after_shrink, by paths. *)
Past(child, p, cutoff) == Below(child, p) /\ child.data[p.last + 1] >= cutoff

(* remove_descendants, then the insertion. *)
Stored(fields, p, field, value) ==
  LET dropped == IF Cuts(fields, p, field, value)
                   THEN {q \in Addresses : Past(q, p, Cutoff(field, value))} ELSE {}
  IN  [q \in Addresses |-> IF q = p THEN value
                           ELSE IF q \in dropped THEN NoValue ELSE fields[q]]

(* Where a path leads through a pointer that is missing or past the end of *)
(* an array there is nothing: a stream that is in step never writes there. *)
Nowhere(fields, p, child) ==
  \/ fields[p] = Missing /\ Below(child, p)
  \/ fields[p] \in Counts /\ Past(child, p, fields[p])

(* One iteration of the loop over the paths of a delta.  A path that does  *)
(* not resolve, or a value that does not decode, ends the delta and leaves *)
(* what the iterations before it stored.                                   *)
ApplyField(p, value) ==
  LET field == FieldAt[p]
  IN  /\ full' = Stored(full, p, field, value)
      /\ projected' = IF selecting /\ ~Retains(p, field)
                        THEN projected ELSE Stored(projected, p, field, value)
      /\ orderly' = (orderly /\ \A q \in Addresses : ~Nowhere(full, q, p))
      /\ UNCHANGED selecting

(* PropertyFilter::retain_entity *)
RetainEntity(fields) ==
  [q \in Addresses |-> IF Retains(q, FieldAt[q]) THEN fields[q] ELSE NoValue]

(* EntityContainer::project_properties, once in the life of a session.     *)
ProjectProperties ==
  /\ ~selecting
  /\ selecting' = TRUE
  /\ projected' = RetainEntity(projected)
  /\ UNCHANGED <<full, orderly>>

UpdatesNext ==
  \/ \E p \in Addresses : \E value \in ValuesOf(FieldAt[p]) : ApplyField(p, value)
  \/ ProjectProperties

UpdatesSpec == UpdatesInit /\ [][UpdatesNext]_entity

----------------------------------------------------------------------------
(* Properties.                                                             *)

Map == {f \in [Addresses -> Counts \cup Scalars \cup {Present, Missing, NoValue}] :
          \A p \in Addresses : f[p] \in ValuesOf(FieldAt[p]) \cup {NoValue}}
MapsTyped == full \in Map /\ projected \in Map /\ selecting \in BOOLEAN /\ orderly \in BOOLEAN

(* The promise of a property filter: whatever the deltas, wherever they    *)
(* fail and whenever it came into force, a projected entity holds exactly  *)
(* the retained keys of the full one, with the same values.  It holds      *)
(* although shape updates remove fields from two maps with different       *)
(* contents.                                                               *)
ProjectionAgrees ==
  \A p \in Addresses :
    projected[p] = IF selecting /\ ~Retains(p, FieldAt[p]) THEN NoValue ELSE full[p]

(* While the stream writes to places that exist, no field of a missing     *)
(* pointer and no element past the end of an array stays in the map: the   *)
(* scan that is skipped for a growing array never leaves one behind.       *)
NoOrphans ==
  orderly => \A p, q \in Addresses : Nowhere(full, p, q) => full[q] = NoValue
=============================================================================
