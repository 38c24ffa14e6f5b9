---------------------------- MODULE FieldOpCode ----------------------------
(***************************************************************************)
(* The Huffman code of the path operations (src/src/entity/field_path.rs): *)
(* the tree built from their weights, and the two ways an operation is     *)
(* read with it.                                                           *)
(***************************************************************************)
EXTENDS BitReader

CONSTANTS
  Weights,     \* FIELDOP_DESCRIPTORS: the weight of each operation
  PrefixBits   \* bits the prefix table resolves at once, 8

ASSUME WeightsAssumption == Weights \in Seq(Nat) /\ Len(Weights) > 1
ASSUME PrefixAssumption  == PrefixBits \in 0 .. WordBits

Ops == 0 .. Len(Weights) - 1

(* The order of the heap: lighter nodes first, and of two that weigh the   *)
(* same the one with the larger number.                                    *)
Before(a, b) == a.weight < b.weight \/ (a.weight = b.weight /\ a.num > b.num)
First(heap) == CHOOSE a \in heap : \A b \in heap \ {a} : Before(a, b)

(* build_fieldop_hierarchy *)
Leaf(op) == [num |-> op, weight |-> Weights[op + 1], children |-> <<>>]
Branch(num, left, right) ==
  [num |-> num, weight |-> left.weight + right.weight, children |-> <<left, right>>]
HeapAfter[merges \in Ops] ==
  IF merges = 0 THEN {Leaf(op) : op \in Ops}
  ELSE LET heap  == HeapAfter[merges - 1]
           left  == First(heap)
           right == First(heap \ {left})
       IN  (heap \ {left, right}) \cup {Branch(Len(Weights) + merges - 1, left, right)}
Hierarchy == First(HeapAfter[Len(Weights) - 1])

IsLeaf(node) == node.children = <<>>

(* The nodes passed on the way down, bit by bit. *)
PathDown(bits) ==
  LET node[d \in 0 .. Len(bits)] ==
        IF d = 0 THEN Hierarchy
        ELSE IF IsLeaf(node[d - 1]) THEN node[d - 1] ELSE node[d - 1].children[bits[d] + 1]
  IN  node

(* The operation that the first of the bits spell, if they spell one.      *)
NoOp == [bits |-> 0, op |-> 0]
Spelled(bits) ==
  LET down == PathDown(bits)
  IN  IF ~IsLeaf(down[Len(bits)]) THEN NoOp
      ELSE [bits |-> Min({d \in DOMAIN down : IsLeaf(down[d])}), op |-> down[Len(bits)].num]

(* FIELDOP_PREFIX *)
MutantFieldOpPrefix == [prefix \in 0 .. PowerOf2[PrefixBits] - 1 |->
                          Spelled([i \in 1 .. PrefixBits |-> Cut(prefix, PrefixBits - i, 1)])]
FieldOpPrefix == [prefix \in 0 .. PowerOf2[PrefixBits] - 1 |->
                    Spelled([i \in 1 .. PrefixBits |-> Cut(prefix, i - 1, 1)])]

(* read_field_op_tree: no code is longer than there are branches.          *)
FieldOpByTree(at) ==
  Spelled([i \in 1 .. Min({TotalBits - at, Len(Weights) - 1}) |-> Bit(at + i - 1)])

(* The read of an operation in read_field_paths_with_limits. *)
FieldOp(at) ==
  IF TotalBits - at >= PrefixBits
    THEN LET entry == FieldOpPrefix[Peek(at, PrefixBits)]
         IN  IF entry.bits # 0 THEN entry ELSE FieldOpByTree(at)
    ELSE FieldOpByTree(at)
=============================================================================
