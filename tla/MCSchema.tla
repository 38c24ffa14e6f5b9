------------------------------ MODULE MCSchema ------------------------------
(* Small instances of FieldCatalogue and FieldPathReader for TLC.  The two *)
(* share the limits of a key and no state: each is explored with the other *)
(* at rest.                                                                *)
EXTENDS FieldCatalogue, FieldPathReader

MCLimit == [d \in 0 .. 2 |-> IF d = 1 THEN 3 ELSE 2]
MCSigned == {-1, 0, 1}

MCNumberOf == "0" :> 0 @@ "1" :> 1 @@ "+1" :> 1 @@ "2" :> 2 @@ "3" :> 3
MCNumeralFor(n) == IF n = 0 THEN "0" ELSE IF n = 1 THEN "1" ELSE IF n = 2 THEN "2" ELSE "3"

Game == [ammo_field |-> "ammo", pointer_types |-> {"GamePointer"},
         dynamic_serializer_types |-> {"GameVector"}, pitch_yaw_qangles |-> TRUE,
         precise_qangle |-> "Centered", bare_char |-> "NullTerminatedString",
         symbolic_array_lengths |-> <<"COUNT">> :> 1]
MCProfiles == {Game}

Proto(type, node, name, serializer) ==
  [var_type |-> type, send_node |-> node, var_name |-> name, serializer_name |-> serializer,
   var_encoder |-> "", bit_count |-> 0, polymorphic |-> FALSE]

MCFields ==
  <<Proto(<<"int32">>, <<>>, "value", ""),                          \* 0
    Proto(<<"Leaf", "*">>, <<"node">>, "leaf", "Leaf"),              \* 1
    Proto(<<"CUtlVector", "<", "Leaf", ">">>, <<>>, "items", "Leaf"),\* 2
    Proto(<<"Leaf", "[", "2", "]">>, <<>>, "slots", "Leaf"),         \* 3
    Proto(<<"CUtlVector", "<", "float32", ">">>, <<>>, "sizes", ""), \* 4
    Proto(<<"uint32">>, <<"node", "leaf">>, "value", ""),            \* 5
    Proto(<<"Leaf">>, <<"node">>, "", "Leaf"),                       \* 6
    Proto(<<"GameVector">>, <<>>, "items", "Middle"),                \* 7
    Proto(<<"uint8", "[", "COUNT", "]">>, <<>>, "bytes", ""),        \* 8
    Proto(<<"int32", "[", "3", "]">>, <<>>, "many", "")>>            \* 9

Definition(name, indices) == [name |-> name, fields_index |-> indices]
Message(definitions) ==
  [serializers |-> definitions, fields |-> MCFields, symbols |-> 3]

Leaves  == {Definition("Leaf", <<0>>), Definition("Leaf", <<4, 8, 0>>)}
Middles == {Definition("Middle", <<1, 5>>), Definition("Middle", <<2>>),
            Definition("Middle", <<6, 3>>)}
Roots   == {Definition("Root", <<7, 0>>), Definition("Root", <<5, 1>>),
            Definition("Root", <<0, 1, 2>>)}
MCMessages ==
  {Message(<<l, m, r>>) : l \in Leaves, m \in Middles, r \in Roots} \cup
  {Message(<<m, l, m, r>>) : l \in Leaves, m \in Middles, r \in {Definition("Root", <<1, 7>>)}} \cup
  {Message(<<Definition("Leaf", i)>>) : i \in {<<9>>, <<-1>>, <<10>>, <<0, 0, 0, 0>>}} \cup
  {Message(<<Definition("Leaf", <<0, 4>>), Definition("Root", <<1, 2, 0>>)>>)} \cup
  {[Message(<<Definition("?", <<>>)>>) EXCEPT !.symbols = s] : s \in {1, 4}}

Class(id, name) == [class_id |-> id, network_name |-> name]
MCClassLists ==
  {<<Class(0, "Leaf")>>, <<Class(4, "Root"), Class(1, "Leaf")>>, <<Class(3, "Root")>>,
   <<Class(1, "Leaf"), Class(1, "Root")>>, <<Class(1, "Leaf"), Class(2, "Leaf")>>,
   <<Class(-1, "Leaf")>>, <<Class(5, "Leaf")>>}

Request(class, names) == [class |-> class, names |-> names]
MCRequestLists ==
  {<<Request("Root", {<<"items", "+1">>, <<"value">>}), Request("Other", {<<"value">>})>>,
   <<Request("Root", {<<"node", "leaf">>}), Request("Middle", {<<"slots", "slots">>}),
     Request("Root", {<<"items", "0", "items">>})>>,
   <<Request("Middle", {<<"node">>, <<"items", "1", "value">>})>>}
MCQueries ==
  {<<>>, <<"value">>, <<"node">>, <<"node", "leaf">>, <<"node", "leaf", "value">>,
   <<"items", "+1">>, <<"items", "3">>, <<"items", "value">>, <<"items", "1", "items", "1">>,
   <<"items", "1", "">>, <<"value", "value">>, <<"slots", "1">>}

(* A table that takes the place of another. *)
Replacement == Message(<<Definition("Leaf", <<0, 4>>), Definition("Root", <<1, 2, 0>>)>>)

ReaderAtRest == buf = <<>> /\ status = "reading"
TableAtRest  == built_from = <<>> /\ build = NoBuild /\ filter = NoFilter /\ ~decoding
ClassesAtRest == class_info = NoClasses

MCInit == SchemaInit /\ Init
MCNext == \/ ReaderAtRest /\ SchemaNext /\ UNCHANGED vars
          \/ TableAtRest /\ ClassesAtRest /\ Next /\ UNCHANGED schema
MCSpec == MCInit /\ [][MCNext]_<<vars, schema>>

(* What is explored of the products that add nothing: a class table with   *)
(* no serializers, and every message as the first but one as the next.     *)
Explored ==
  /\ TableAtRest \/ ClassesAtRest
  /\ (built_from # <<>> /\ build # NoBuild) => build[1].message = Replacement
Symmetric == Permutations(Identities)
=============================================================================
