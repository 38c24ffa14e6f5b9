----------------------------- MODULE FieldNames ------------------------------
(***************************************************************************)
(* The names of the fields of a serializer (src/src/entity/serializers.rs) *)
(* and the keys the names resolve to.                                      *)
(***************************************************************************)
EXTENDS FieldPaths, Serializers

CONSTANT NumeralFor(_)     \* how an index is printed

NoKey == -1

----------------------------------------------------------------------------
(* Names and keys.                                                         *)

PathOf(components) ==
  [data |-> [d \in Depths |-> IF d < Len(components) THEN components[d + 1] ELSE 0],
   last |-> Len(components) - 1]

(* try_pack of a path put together from components: too many do not fit.   *)
MutantTryKey(components) ==
  IF Len(components) > Top + 1 THEN NoKey ELSE Pack(PathOf(components))
TryKey(components) ==
  IF Len(components) > Top + 1 THEN NoKey
  ELSE IF TryPack(PathOf(components)) THEN Pack(PathOf(components)) ELSE NoKey
Components(key) == [k \in 1 .. KeyDepth(key) + 1 |-> Unpack(key).data[k - 1]]
Joined(prefix, key) == IF key = NoKey THEN NoKey ELSE TryKey(prefix \o Components(key))

IsPrefixOf(s, t) == Len(s) \in 0 .. Len(t) /\ SubSeq(t, 1, Len(s)) = s
Without(s, n) == SubSeq(s, n + 1, Len(s))

(* resolve_parts at one depth, from what it answers one step and two steps *)
(* below: the first field that spells the parts, or that spells some of    *)
(* them and has a field below it for the rest.  That field's key is the    *)
(* answer even if it does not fit.                                         *)
ResolveParts(below, elements, fields, parts) ==
  LET rest(f) == Without(parts, Len(Parts(fields[f])))
      under(f) ==
        IF fields[f].below = <<>> THEN <<FALSE, NoKey>>
        ELSE IF ~IsDynamicArray(fields[f].metadata)
          THEN LET key == below[fields[f].below[1]][rest(f)]
               IN  <<key # NoKey, Joined(<<f - 1>>, key)>>
        ELSE IF rest(f)[1] \notin DOMAIN NumberOf THEN <<FALSE, NoKey>>
        ELSE IF 1 \notin DOMAIN fields[f].below[1] THEN <<TRUE, NoKey>>
        ELSE LET here == <<f - 1, NumberOf[rest(f)[1]]>>
                 inner == fields[f].below[1][1].below
             IN  IF Len(rest(f)) = 1 THEN <<TRUE, TryKey(here)>>
                 ELSE IF inner = <<>> THEN <<FALSE, NoKey>>
                 ELSE LET key == elements[inner[1]][Without(rest(f), 1)]
                      IN  <<key # NoKey, Joined(here, key)>>
      answer == [f \in {g \in DOMAIN fields : IsPrefixOf(Parts(fields[g]), parts)} |->
                   IF rest(f) = <<>> THEN <<TRUE, TryKey(<<f - 1>>)>> ELSE under(f)]
      found == {f \in DOMAIN answer : answer[f][1]}
  IN  IF parts = <<>> \/ found = {} THEN NoKey
      ELSE answer[CHOOSE f \in found : \A g \in found : f <= g][2]

(* The serializers so many steps below one, and what a search may be for.  *)
SerializersUnder(fields) ==
  {fields[f].below[1] : f \in {g \in DOMAIN fields : fields[g].below # <<>>}}
SerializersFrom(root) ==
  LET level[d \in 0 .. Top + 2] ==
        IF d = 0 THEN {root} ELSE UNION {SerializersUnder(fields) : fields \in level[d - 1]}
  IN  level
Tails(parts) == {Without(parts, n) : n \in 0 .. Len(parts)}

ResolveFieldKey(root, name) ==
  LET level == SerializersFrom(root)
      answers[d \in 0 .. Top + 2] ==
        [fields \in level[d] |-> [parts \in Tails(name) |->
           IF d > Top THEN NoKey ELSE ResolveParts(answers[d + 1], answers[d + 2], fields, parts)]]
  IN  answers[0][root][name]

(* resolve_field_path, as the decoder follows a path: every element of a   *)
(* dynamic array is the one below it, and a path that goes on below a      *)
(* field with nothing there stays.                                         *)
NoField == <<>>
Nth(fields, index) == IF index + 1 \in DOMAIN fields THEN <<fields[index + 1]>> ELSE NoField
Step(at, index) ==
  IF at = NoField THEN NoField
  ELSE LET field == at[1]
       IN  IF field.below = <<>> THEN at
           ELSE Nth(field.below[1], IF IsDynamicArray(field.metadata) THEN 0 ELSE index)

ResolveFieldPath(fields, components) ==
  LET at[k \in 1 .. Len(components)] ==
        IF k = 1 THEN Nth(fields, components[1]) ELSE Step(at[k - 1], components[k])
  IN  at[Len(components)]

(* field_name_for_key: the same walk, writing as it goes.  The name of a   *)
(* field is written even if it is empty; an element only has its index.    *)
Written(field) == field.send_node \o <<field.var_name>>
FieldNameForKey(fields, key) ==
  LET components == Components(key)
      at(k) == ResolveFieldPath(fields, SubSeq(components, 1, k))
      piece(k) ==
        IF k = 1 THEN Written(at(1)[1])
        ELSE IF at(k - 1)[1].below = <<>> THEN <<>>
        ELSE IF IsDynamicArray(at(k - 1)[1].metadata) THEN <<NumeralFor(components[k])>>
        ELSE Written(at(k)[1])
      written[k \in 0 .. Len(components)] == IF k = 0 THEN <<>> ELSE written[k - 1] \o piece(k)
  IN  IF at(Len(components)) = NoField THEN <<>> ELSE written[Len(components)]
=============================================================================
