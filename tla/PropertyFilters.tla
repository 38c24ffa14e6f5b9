--------------------------- MODULE PropertyFilters ---------------------------
(***************************************************************************)
(* Property filters (src/src/entity/properties.rs): the names a caller     *)
(* asks for, compiled to keys and prefixes of keys.                        *)
(***************************************************************************)
EXTENDS FieldNames

(* A key whose field has others below it also stands for their keys, told  *)
(* by the bits above the mask and a depth.                                 *)
Subtree(key) ==
  [mask |-> ChildWeight(key), key |-> Prefix(key, key), depth |-> KeyDepth(key)]

HasSubtree(fields, key) ==
  LET at == ResolveFieldPath(fields, Components(key))
  IN  IF at = NoField THEN FALSE
      ELSE at[1].below # <<>> \/ IsDynamicArray(at[1].metadata)

(* The names a class is asked for, over all the entries it has. *)
NamesOf(requests, class) ==
  UNION {requests[r].names : r \in {q \in DOMAIN requests : requests[q].class = class}}

ClassProperties(table, class, names) ==
  IF class \notin DOMAIN table THEN [serializer |-> <<>>, keys |-> {}, subtrees |-> {}]
  ELSE LET fields == table[class]
           keys == {ResolveFieldKey(fields, name) : name \in names} \ {NoKey}
       IN  [serializer |-> <<fields>>, keys |-> keys,
            subtrees |-> {Subtree(key) : key \in {k \in keys : HasSubtree(fields, k)}}]

(* PropertyFilter::compile: names without a field select nothing. *)
Compiled(serializers, requests) ==
  [schema  |-> serializers.schema_id,
   classes |-> [class \in {requests[r].class : r \in DOMAIN requests} |->
                  ClassProperties(serializers.table, class, NamesOf(requests, class))]]

(* ClassProperties::retains *)
Retains(selected, key, field) ==
  \/ key \in selected.keys
  \/ IsPointer(field.metadata)
  \/ IsDynamicArray(field.metadata)
  \/ \E subtree \in selected.subtrees :
       key % subtree.mask = subtree.key /\ KeyDepth(key) >= subtree.depth

(* What a decoder keeps of a class: all of one the filter does not list.   *)
Keeps(filter, class, key, field) ==
  class \in DOMAIN filter.classes => Retains(filter.classes[class], key, field)
=============================================================================
