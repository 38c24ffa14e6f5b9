----------------------------- MODULE Serializers -----------------------------
(***************************************************************************)
(* Serializers (src/src/entity/serializers.rs): the fields of a class, as  *)
(* they are built from a flattened message.                                *)
(*                                                                         *)
(* A serializer is the sequence of its fields.  A dotted name is the       *)
(* sequence of its parts: the name of a field is one part and the node it  *)
(* is sent under a sequence of them.  An absent string is "":              *)
(* no serializer and no field of a message has an empty name.              *)
(***************************************************************************)
EXTENDS FieldTypes

CONSTANTS
  Profiles,        \* the profiles of the games
  MaxSerializers, MaxSerializerFields, MaxSymbols, MaxFixedArray,  \* DecodeLimits
  BadSymbol        \* a symbol index without a symbol

----------------------------------------------------------------------------
(* Building a field.                                                       *)

(* A field as read: what the flattened field says, its metadata, and the   *)
(* serializer below it, none or one.                                       *)
Field(proto, metadata, below) ==
  [var_name |-> proto.var_name, send_node |-> proto.send_node,
   serializer_name |-> proto.serializer_name, field_type |-> ParseType(proto.var_type),
   metadata |-> metadata, below |-> below]

(* The element of a dynamic array has no name and no type of its own. *)
Element(metadata, below) ==
  [var_name |-> "", send_node |-> <<>>, serializer_name |-> "",
   field_type |-> ParseType(<<>>), metadata |-> metadata, below |-> below]

(* Every field that may hold several concrete types reads a selector. *)
MetadataOf(profile, proto) ==
  LET metadata == FieldMetadata(profile, proto.var_type, proto)
  IN  IF proto.polymorphic THEN [metadata EXCEPT !.decoder = <<"Poly">>] ELSE metadata

(* Looked up among the definitions that are complete so far. *)
Nested(proto, map) ==
  IF proto.serializer_name \in DOMAIN map THEN <<map[proto.serializer_name]>> ELSE <<>>

(* An array stands for a serializer of its own: copies of the field for a  *)
(* fixed one, its one element for a dynamic one.                           *)
BuiltField(profile, proto, map) ==
  LET metadata == MetadataOf(profile, proto)
      nested == Nested(proto, map)
  IN  IF IsFixedArray(metadata)
        THEN Field(proto, metadata,
                   <<[k \in 1 .. metadata.length |-> Field(proto, metadata, nested)]>>)
      ELSE IF IsDynamicArray(metadata)
        THEN Field(proto, metadata,
                   <<<<Element(InnerMetadata(metadata),
                               IF metadata.special = "serializers" THEN nested ELSE <<>>)>>>>)
      ELSE Field(proto, metadata, nested)

----------------------------------------------------------------------------
(* What a message must satisfy before any of it is built.                  *)

Symbols(message) ==
  {message.serializers[d].name : d \in DOMAIN message.serializers} \cup
  UNION {LET proto == message.fields[f]
         IN  {proto.var_name, proto.serializer_name, proto.var_encoder} \cup
             {proto.var_type[t] : t \in DOMAIN proto.var_type} \cup
             {proto.send_node[t] : t \in DOMAIN proto.send_node} : f \in DOMAIN message.fields}

MessageAccepted(message) ==
  /\ Len(message.serializers) <= MaxSerializers
  /\ Len(message.fields) <= MaxSerializerFields
  /\ message.symbols <= MaxSymbols
  /\ \A d \in DOMAIN message.serializers :
       Len(message.serializers[d].fields_index) <= MaxSerializerFields
  /\ BadSymbol \notin Symbols(message)

(* A field index that names a field, whose array is not too long. *)
FieldAccepted(profile, message, index) ==
  IF index + 1 \in DOMAIN message.fields
    THEN LET metadata == MetadataOf(profile, message.fields[index + 1])
         IN  IsFixedArray(metadata) => metadata.length <= MaxFixedArray
    ELSE FALSE

(* What a name spells a field with: a field without a name is its node.    *)
Parts(field) == field.send_node \o (IF field.var_name = "" THEN <<>> ELSE <<field.var_name>>)
=============================================================================
