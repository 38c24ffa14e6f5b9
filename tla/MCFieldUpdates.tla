--------------------------- MODULE MCFieldUpdates ---------------------------
(* Small instance of FieldUpdates for TLC. *)
EXTENDS FieldUpdates

CONSTANTS x      \* a scalar

(* Three levels: two fields, then two elements or members, then two.       *)
MCLimit == [d \in 0 .. 2 |-> 2]

Leaf == [kind |-> "plain", fields |-> NoSerializer]
Element == [kind |-> "plain", fields |-> <<Leaf>>]
(* An array of composites, and a pointer to a scalar and to an array.      *)
MCFields ==
  <<[kind |-> "array", fields |-> <<Element>>],
    [kind |-> "pointer", fields |-> <<Leaf, [kind |-> "array", fields |-> <<Leaf>>]>>]>>

PathOf(components) ==
  [data |-> [d \in 0 .. 2 |-> IF d < Len(components) THEN components[d + 1] ELSE 0],
   last |-> Len(components) - 1]
(* The second element of the array, and a scalar behind the pointer.       *)
MCRequested == {PathOf(<<0, 1>>), PathOf(<<1, 0>>)}
=============================================================================
