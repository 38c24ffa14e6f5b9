--------------------------- MODULE SerializerTable ---------------------------
(***************************************************************************)
(* The table of serializers of a playback                                  *)
(* (SerializerContainer::parse_with_limits in                              *)
(* src/src/entity/serializers.rs): a flattened message is parsed field by  *)
(* field, and its serializers replace those before.  An error leaves what  *)
(* was installed.                                                          *)
(***************************************************************************)
EXTENDS Serializers

CONSTANTS
  Messages,      \* flattened serializer messages
  Identities     \* of serializer tables

(* A message is a sequence of definitions, each a sequence of fields. *)
Listing(s) == s \in Seq({s[k] : k \in DOMAIN s})
WellFormed(message) ==
  /\ Listing(message.serializers)
  /\ \A d \in DOMAIN message.serializers : Listing(message.serializers[d].fields_index)

ASSUME MessagesAssumption == \A message \in Messages : WellFormed(message)

VARIABLES
  serializers,   \* the serializers installed
  built_from,    \* history: the message they were built from, none at first
  build          \* the message being parsed, with what is built of it

NoBuild == <<>>

TableInit ==
  /\ serializers \in {[schema_id |-> id, table |-> <<>>] : id \in Identities}
  /\ built_from = <<>>
  /\ build = NoBuild

StartBuild(message, profile) ==
  [message |-> message, profile |-> profile,
   field_cache |-> <<>>, serializer_map |-> <<>>, fields |-> <<>>, definition |-> 1]

ReceiveSerializers ==
  /\ build = NoBuild
  /\ \E message \in Messages, profile \in Profiles :
       build' = IF MessageAccepted(message) THEN <<StartBuild(message, profile)>> ELSE NoBuild
  /\ UNCHANGED <<serializers, built_from>>

(* HashMap::insert *)
Put(map, key, value) ==
  [k \in DOMAIN map \cup {key} |-> IF k = key THEN value ELSE map[k]]

Current(b)   == b.message.serializers[b.definition]
NextIndex(b) == Current(b).fields_index[Len(b.fields) + 1]

(* A field that an earlier definition listed is shared as it was built.    *)
MutantWithField(b) ==
  LET index == Len(b.fields)
      field == IF index \in DOMAIN b.field_cache THEN b.field_cache[index]
               ELSE BuiltField(b.profile, b.message.fields[NextIndex(b) + 1], b.serializer_map)
  IN  [b EXCEPT !.fields = Append(@, field), !.field_cache = Put(@, index, field)]
WithField(b) ==
  LET index == NextIndex(b)
      field == IF index \in DOMAIN b.field_cache THEN b.field_cache[index]
               ELSE BuiltField(b.profile, b.message.fields[index + 1], b.serializer_map)
  IN  [b EXCEPT !.fields = Append(@, field), !.field_cache = Put(@, index, field)]

BuildField ==
  /\ build # NoBuild
  /\ build[1].definition \in DOMAIN build[1].message.serializers
  /\ Len(build[1].fields) < Len(Current(build[1]).fields_index)
  /\ build' = IF FieldAccepted(build[1].profile, build[1].message, NextIndex(build[1]))
                THEN <<WithField(build[1])>> ELSE NoBuild
  /\ UNCHANGED <<serializers, built_from>>

(* A definition replaces one of the same name. *)
FinishDefinition ==
  /\ build # NoBuild
  /\ build[1].definition \in DOMAIN build[1].message.serializers
  /\ Len(build[1].fields) = Len(Current(build[1]).fields_index)
  /\ build' = <<[build[1] EXCEPT !.serializer_map = Put(@, Current(build[1]).name, build[1].fields),
                                 !.fields = <<>>, !.definition = @ + 1]>>
  /\ UNCHANGED <<serializers, built_from>>

(* What is built takes the place of the table before, unless it is refused.*)
InstallTable(id, valid) ==
  /\ build # NoBuild
  /\ build[1].definition \notin DOMAIN build[1].message.serializers
  /\ IF valid
       THEN /\ serializers' = [schema_id |-> id, table |-> build[1].serializer_map]
            /\ built_from' = <<[message |-> build[1].message, profile |-> build[1].profile]>>
       ELSE UNCHANGED <<serializers, built_from>>
  /\ build' = NoBuild

TableNext ==
  \/ ReceiveSerializers
  \/ BuildField
  \/ FinishDefinition
  \/ \E id \in Identities, valid \in BOOLEAN : InstallTable(id, valid)

TableSpec == TableInit /\ [][TableNext]_<<serializers, built_from, build>>

----------------------------------------------------------------------------
(* The serializer a field leads to, none or one. *)
LinkOf(field) ==
  IF IsDynamicArray(field.metadata) THEN field.below[1][1].below
  ELSE IF IsFixedArray(field.metadata) THEN field.below[1][1].below
  ELSE field.below

(* An array of values has no serializer, and one of no elements leads nowhere. *)
Leads(field) ==
  /\ field.metadata.special # "dynamic"
  /\ IsFixedArray(field.metadata) => 1 \in DOMAIN field.below[1]

Linked(field, table) ==
  Leads(field) /\ field.serializer_name \in DOMAIN table =>
    LinkOf(field) = <<table[field.serializer_name]>>

Defines(message, d, name) == message.serializers[d].name = name

(* A message that defines each name once, and before its use. *)
InOrder(message) ==
  /\ \A d, e \in DOMAIN message.serializers :
       Defines(message, d, message.serializers[e].name) => d = e
  /\ \A d, e \in DOMAIN message.serializers :
       (\E k \in DOMAIN message.serializers[d].fields_index :
          Defines(message, e,
                  message.fields[message.serializers[d].fields_index[k] + 1].serializer_name))
       => e < d

(* The fields of a serializer are the ones the last definition of its name *)
(* lists, and lead to the serializer the table has under the name they     *)
(* give, when the message defines each name once and before its use.       *)
IsBuiltFrom(table, message) ==
  \A d \in DOMAIN message.serializers :
    LET definition == message.serializers[d]
        fields == table[definition.name]
        last == \A e \in DOMAIN message.serializers :
                  Defines(message, e, definition.name) => e <= d
    IN  last =>
          /\ Len(fields) = Len(definition.fields_index)
          /\ \A k \in DOMAIN fields :
               LET proto == message.fields[definition.fields_index[k] + 1]
               IN  /\ fields[k].field_type = ParseType(proto.var_type)
                   /\ Parts(fields[k]) = Parts(proto)
                   /\ InOrder(message) => Linked(fields[k], table)

(* The installed table is the one its message describes, however many      *)
(* messages were received, built in part, refused or replaced before.      *)
SchemaLinked == built_from # <<>> => IsBuiltFrom(serializers.table, built_from[1].message)
=============================================================================
