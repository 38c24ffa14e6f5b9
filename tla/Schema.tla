------------------------------- MODULE Schema -------------------------------
(***************************************************************************)
(* The schema of a playback: the serializers and the network classes it    *)
(* installs (CommandContext in src/src/playback.rs), and the property      *)
(* filters compiled against it (src/src/entity/properties.rs,              *)
(* PreparedPlayback::session_with_properties).                             *)
(*                                                                         *)
(* A filter holds the identity of the serializers it was compiled against, *)
(* so no other table gets that identity while the filter lives.  An error  *)
(* leaves what was installed: an adapter may go on after it.               *)
(***************************************************************************)
EXTENDS PropertyFilters, SerializerTable, ClassTable

CONSTANTS
  Queries,       \* dotted names a caller may look up
  RequestLists   \* what a caller may ask a filter for

ASSUME QueriesAssumption == \A name \in Queries : Listing(name)

(* A request names a class and the dotted names of some of its fields.     *)
ASSUME RequestsAssumption ==
  \A requests \in RequestLists :
    \A r \in DOMAIN requests : \A name \in requests[r].names : Listing(name)

NoFilter == <<>>

VARIABLES
  filter,        \* a filter a caller holds, with its requests
  properties,    \* the filter of the entity container
  decoding       \* entities are being decoded

schema == <<serializers, built_from, build, class_info, filter, properties, decoding>>

SchemaInit ==
  /\ TableInit
  /\ ClassesInit
  /\ filter = NoFilter
  /\ properties = NoFilter
  /\ decoding = FALSE

----------------------------------------------------------------------------
(* Installing serializers.                                                 *)

Idle == build = NoBuild /\ ~decoding

(* A message is parsed with nothing else going on. *)
ParseSerializers ==
  /\ ~decoding
  /\ ReceiveSerializers \/ BuildField \/ FinishDefinition
  /\ UNCHANGED <<class_info, filter, properties, decoding>>

(* PropertyFilter::validate *)
MutantValid(f, schema_id) == TRUE
Valid(f, schema_id) == f # NoFilter => f[1].compiled.schema = schema_id

Held == {serializers.schema_id} \cup
        {f[1].compiled.schema : f \in {filter, properties} \ {NoFilter}}

(* The container's filter is checked before the old table is replaced.     *)
InstallSerializers ==
  /\ \E id \in Identities \ Held : InstallTable(id, Valid(properties, id))
  /\ UNCHANGED <<class_info, filter, properties, decoding>>

----------------------------------------------------------------------------
(* Classes, filters and decoding.                                          *)

InstallClassInfo ==
  /\ Idle
  /\ \E entries \in ClassLists : InstallClasses(entries)
  /\ UNCHANGED <<serializers, built_from, build, filter, properties, decoding>>

CompileFilter ==
  /\ Idle
  /\ \E requests \in RequestLists :
       filter' = <<[requests |-> requests, compiled |-> Compiled(serializers, requests)]>>
  /\ UNCHANGED <<serializers, built_from, build, class_info, properties, decoding>>

(* EntityContainer::project_properties, for the entities of a session.     *)
ProjectProperties ==
  /\ Idle
  /\ filter # NoFilter
  /\ properties' = IF Valid(filter, serializers.schema_id) /\ properties = NoFilter
                     THEN filter ELSE properties
  /\ UNCHANGED <<serializers, built_from, build, class_info, filter, decoding>>

(* EntityContainer::with_properties checks nothing: a container of its own *)
(* may be given the packets of any schema.                                 *)
WithProperties ==
  /\ Idle
  /\ filter # NoFilter
  /\ properties' = filter
  /\ UNCHANGED <<serializers, built_from, build, class_info, filter, decoding>>

(* handle_packet_entities checks the filter before it reads a bit.         *)
HandlePacketEntities ==
  /\ Idle
  /\ decoding' = Valid(properties, serializers.schema_id)
  /\ UNCHANGED <<serializers, built_from, build, class_info, filter, properties>>

EndPacketEntities ==
  /\ decoding
  /\ decoding' = FALSE
  /\ UNCHANGED <<serializers, built_from, build, class_info, filter, properties>>

SchemaNext ==
  \/ ParseSerializers
  \/ InstallSerializers
  \/ InstallClassInfo
  \/ CompileFilter
  \/ ProjectProperties
  \/ WithProperties
  \/ HandlePacketEntities
  \/ EndPacketEntities

SchemaSpec == SchemaInit /\ [][SchemaNext]_schema

----------------------------------------------------------------------------
(* Properties.                                                             *)

(* The paths with a key, and those of them that lead to a field: whatever  *)
(* they pass has fields below it.                                          *)
Addresses ==
  {p \in [data : [Depths -> UNION {Component(d) : d \in Depths}], last : Depths] : Canonical(p)}
LeadsTo(fields, path) ==
  \A k \in 1 .. Len(path) :
    LET at == ResolveFieldPath(fields, SubSeq(path, 1, k))
    IN  at # NoField /\ (k < Len(path) => at[1].below # <<>>)

(* The name falls into as many pieces as the path has steps: numerals for  *)
(* the elements of dynamic arrays, and what spells the field elsewhere.    *)
Spells(name, fields, path) ==
  \E cut \in [0 .. Len(path) -> 0 .. Len(name)] :
    /\ cut[0] = 0 /\ cut[Len(path)] = Len(name)
    /\ \A k \in 1 .. Len(path) :
         LET at(j) == ResolveFieldPath(fields, SubSeq(path, 1, j))[1]
             piece == SubSeq(name, cut[k - 1] + 1, cut[k])
         IN  /\ cut[k - 1] <= cut[k]
             /\ IF k > 1 /\ IsDynamicArray(at(k - 1).metadata)
                  THEN Len(piece) = 1 /\ piece[1] \in DOMAIN NumberOf /\ NumberOf[piece[1]] = path[k]
                  ELSE piece = Parts(at(k))

(* What a search by name finds is a field, and the name spells every step  *)
(* that leads to it: no name finds another field, however deep it is and   *)
(* whatever the widths of the components its indices are packed into.      *)
NamesFindNoOther ==
  \A class \in DOMAIN serializers.table, name \in Queries :
    LET fields == serializers.table[class]
        key == ResolveFieldKey(fields, name)
    IN  key # NoKey =>
          LeadsTo(fields, Components(key)) /\ Spells(name, fields, Components(key))

(* Entities are decoded under a filter only with the serializers it was    *)
(* compiled against: of every field a delta can name, a listed class keeps *)
(* the ones asked for with all that is below them, its pointers and its    *)
(* arrays, and nothing else.                                               *)
SelectionsAreSubtrees ==
  (decoding /\ properties # NoFilter) =>
    \A class \in DOMAIN serializers.table :
      LET fields == serializers.table[class]
          requests == properties[1].requests
          asked == {ResolveFieldKey(fields, name) : name \in NamesOf(requests, class)} \ {NoKey}
          listed == \E r \in DOMAIN requests : requests[r].class = class
      IN  \A p \in Addresses :
            LET path == Components(Pack(p))
                field == ResolveFieldPath(fields, path)[1]
            IN  LeadsTo(fields, path) =>
                  (Keeps(properties[1].compiled, class, Pack(p), field) <=>
                     \/ ~listed
                     \/ IsPointer(field.metadata)
                     \/ IsDynamicArray(field.metadata)
                     \/ \E key \in asked : IsPrefixOf(Components(key), path))
=============================================================================
