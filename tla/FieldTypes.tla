----------------------------- MODULE FieldTypes -----------------------------
(***************************************************************************)
(* How a field's type is read, twice: parse_type of                        *)
(* src/src/entity/serializers.rs keeps its parts, and get_field_metadata   *)
(* of src/src/entity/field_decoder.rs chooses the decoder and the shape    *)
(* (pointer, fixed or dynamic array) under the profile of a game.          *)
(*                                                                         *)
(* A type is the sequence of its names, numerals and brackets: the blanks  *)
(* around them are trimmed by both.  The brackets are taken to match.      *)
(***************************************************************************)
EXTENDS Integers, Sequences, TLC

CONSTANT NumberOf      \* what parses as a usize, with its value

ASSUME NumberOfAssumption == \A t \in DOMAIN NumberOf : NumberOf[t] \in Nat

NoNumber == -1
NumberIn(text) ==
  IF Len(text) = 1 /\ text[1] \in DOMAIN NumberOf THEN NumberOf[text[1]] ELSE NoNumber

----------------------------------------------------------------------------
(* The form of a type: the last `*` comes before brackets, and brackets at *)
(* the end before a template.                                              *)

EndsWith(text, token) == text # <<>> /\ text[Len(text)] = token
Find(text, token) ==
  IF \A k \in DOMAIN text : text[k] # token THEN 0
  ELSE CHOOSE k \in DOMAIN text : text[k] = token /\ \A j \in 1 .. k - 1 : text[j] # token
RFind(text, token) ==
  IF \A k \in DOMAIN text : text[k] # token THEN 0
  ELSE CHOOSE k \in DOMAIN text : text[k] = token /\ \A j \in k + 1 .. Len(text) : text[j] # token

Form(text) ==
  IF EndsWith(text, "*") THEN "pointer"
  ELSE IF Find(text, "[") # 0 /\ EndsWith(text, "]") THEN "array"
  ELSE IF Find(text, "<") # 0 /\ RFind(text, ">") # 0 THEN "template"
  ELSE "simple"

BaseOf(text) ==
  LET form == Form(text)
  IN  IF form = "pointer" THEN SubSeq(text, 1, Len(text) - 1)
      ELSE IF form = "array" THEN SubSeq(text, 1, Find(text, "[") - 1)
      ELSE IF form = "template" THEN SubSeq(text, 1, Find(text, "<") - 1) ELSE text

(* What stands between the first opening and the last closing bracket. *)
Inside(text) ==
  IF Form(text) = "array" THEN SubSeq(text, Find(text, "[") + 1, Len(text) - 1)
                          ELSE SubSeq(text, Find(text, "<") + 1, RFind(text, ">") - 1)

(* parse_type: a length that is no number is a symbol. *)
ParseTypeOf[text \in Seq(STRING)] ==
  LET form == Form(text)
      length == IF form = "array" THEN NumberIn(Inside(text)) ELSE NoNumber
  IN  [base_type    |-> BaseOf(text),
       pointer      |-> form = "pointer",
       generic_type |-> IF form = "template" THEN <<ParseTypeOf[Inside(text)]>> ELSE <<>>,
       array_length |-> length,
       count        |-> IF form = "array" /\ length = NoNumber THEN Inside(text) ELSE <<>>]
ParseType(text) == ParseTypeOf[text]

----------------------------------------------------------------------------
(* Decoders.                                                               *)

Metadata(decoder, special, length, inner) ==
  [decoder |-> decoder, special |-> special, length |-> length, inner |-> inner]
Plain(decoder) == Metadata(decoder, "none", 0, <<>>)
PointerBit     == Metadata(<<"Bool">>, "pointer", 0, <<>>)

IsPointer(m)      == m.special = "pointer"
IsFixedArray(m)   == m.special = "fixed"
IsDynamicArray(m) == m.special \in {"dynamic", "serializers"}

(* dynamic_array_inner_metadata *)
InnerMetadata(m) == IF m.special = "dynamic" THEN Plain(m.inner) ELSE Plain(<<"Default">>)

(* build_f32_decoder: QuantizedFloat::new refuses widths beyond 1 .. 31. *)
F32Decoder(field) ==
  IF field.var_name \in {"m_flSimulationTime", "m_flAnimTime"} THEN <<"F32SimulationTime">>
  ELSE IF field.var_encoder = "coord" THEN <<"F32Coord">>
  ELSE IF field.var_encoder = "normal" THEN <<"F32Normal">>
  ELSE IF field.bit_count \in 1 .. 31 THEN <<"F32Quantized", field.bit_count>>
  ELSE <<"F32NoScale">>

QAngleDecoder(profile, field) ==
  IF field.var_encoder = "qangle_pitch_yaw" /\ profile.pitch_yaw_qangles
    THEN <<"QAnglePitchYaw", field.bit_count>>
  ELSE IF field.var_encoder = "qangle_precise"
    THEN IF profile.precise_qangle = "Centered" THEN <<"QAnglePrecise">> ELSE <<"QAnglePreciseRaw">>
  ELSE IF field.bit_count # 0 THEN <<"QAngleBitCount", field.bit_count>> ELSE <<"QAngleCoord">>

SignedTypes == {"int8", "int16", "int32", "int64"}
ComponentTypes ==
  {"CBodyComponentBaseAnimating", "CBodyComponentBaseAnimatingOverlay",
   "CBodyComponentBaseModelEntity", "CBodyComponent", "CBodyComponentSkeletonInstance",
   "CBodyComponentPoint", "CLightComponent", "CRenderComponent",
   "C_BodyComponentBaseAnimating", "C_BodyComponentBaseAnimatingOverlay", "CPhysicsComponent"}

(* The types with a decoder of their own. *)
NamedDecoders(profile, field) ==
  [t \in SignedTypes |-> <<"I64">>] @@
  [t \in {"bool"} |-> <<"Bool">>] @@
  [t \in {"float32", "CNetworkedQuantizedFloat", "GameTime_t"} |-> F32Decoder(field)] @@
  [t \in {"CUtlSymbolLarge", "CUtlString", "CGlobalSymbol"} |-> <<"String">>] @@
  [t \in {"char"} |-> IF profile.bare_char = "NullTerminatedString" THEN <<"String">>
                                                                    ELSE <<"U64">>] @@
  [t \in {"CUtlBinaryBlock"} |-> <<"BinaryBlock">>] @@
  [t \in {"Quaternion"} |-> <<"FloatVecN", 4, F32Decoder(field)>>] @@
  [t \in {"CTransform"} |-> <<"FloatVecN", 6, F32Decoder(field)>>] @@
  [t \in {"QAngle"} |-> QAngleDecoder(profile, field)] @@
  [t \in {"Vector", "VectorWS"} |->
     IF field.var_encoder = "normal" THEN <<"Vector3Normal">>
                                     ELSE <<"Vector3", F32Decoder(field)>>] @@
  [t \in {"Vector2D"} |-> <<"Vector2", F32Decoder(field)>>] @@
  [t \in {"Vector4D"} |-> <<"Vector4", F32Decoder(field)>>]

(* A type without brackets: the game's pointers first, then the encoder,   *)
(* then the type.                                                          *)
SimpleMetadata(profile, type, field) ==
  LET named == NamedDecoders(profile, field)
  IN  IF type \in profile.pointer_types THEN PointerBit
      ELSE IF field.var_encoder = "fixed8"
        THEN Plain(IF type \in SignedTypes THEN <<"I64Fixed8">> ELSE <<"U64Fixed8">>)
      ELSE IF type \in ComponentTypes THEN PointerBit
      ELSE IF type \in DOMAIN named THEN Plain(named[type])
      ELSE IF type \in profile.dynamic_serializer_types
        THEN Metadata(<<"U64">>, "serializers", 0, <<>>)
      ELSE Plain(IF field.var_encoder = "fixed64" THEN <<"U64Fixed64">> ELSE <<"U64">>)

ArrayLength(profile, text) ==
  IF NumberIn(text) # NoNumber THEN NumberIn(text)
  ELSE IF text \in DOMAIN profile.symbolic_array_lengths
    THEN profile.symbolic_array_lengths[text] ELSE 64

VectorBases == {<<"CNetworkUtlVectorBase">>, <<"CUtlVectorEmbeddedNetworkVar">>, <<"CUtlVector">>}

(* get_field_metadata: an array keeps the decoder of its elements and      *)
(* drops their shape.                                                      *)
FieldMetadata(profile, type, field) ==
  LET metadata[text \in Seq(STRING)] ==
        LET form == Form(text)
            base == BaseOf(text)
        IN  IF field.var_name = profile.ammo_field THEN Plain(<<"Ammo">>)
            ELSE IF form = "pointer" THEN PointerBit
            ELSE IF form = "array"
              THEN IF base = <<"char">> THEN Plain(<<"String">>)
                   ELSE Metadata(metadata[base].decoder, "fixed",
                                 ArrayLength(profile, Inside(text)), <<>>)
            ELSE IF form = "template"
              THEN IF base \notin VectorBases THEN metadata[base]
                   ELSE IF field.serializer_name # ""
                     THEN Metadata(<<"U64">>, "serializers", 0, <<>>)
                   ELSE Metadata(<<"U64">>, "dynamic", 0, metadata[Inside(text)].decoder)
            ELSE SimpleMetadata(profile, IF text = <<>> THEN "" ELSE text[1], field)
  IN  metadata[type]
=============================================================================
