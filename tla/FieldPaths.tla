----------------------------- MODULE FieldPaths -----------------------------
(***************************************************************************)
(* Field paths (src/src/entity/field_path.rs): the addresses a delta names *)
(* its fields with, their packed keys and the steps a path is changed by.  *)
(*                                                                         *)
(* The masks and shifts of the 64-bit key become a limit and a weight per  *)
(* depth: shifting is division by a weight, masking is the remainder by a  *)
(* limit or a weight.                                                      *)
(***************************************************************************)
EXTENDS Integers, Sequences, FiniteSets

CONSTANTS
  Top,       \* the deepest index, 6 in the code
  Limit,     \* COMPONENT_MASKS[d] + 1, the number of components of depth d
  Gap        \* unused values between the components and the depth of a key

Depths == 0 .. Top

ASSUME TopAssumption   == Top \in Nat
ASSUME LimitAssumption == Limit \in [Depths -> Nat \ {0}]
ASSUME GapAssumption   == Gap \in Nat \ {0}

Component(d) == 0 .. Limit[d] - 1
Path == [data : [Depths -> Int], last : Depths]

----------------------------------------------------------------------------
(* Packed keys.                                                            *)

(* COMPONENT_SHIFTS, as the weight of each component. *)
Weight[d \in 0 .. Top + 1] == IF d = 0 THEN 1 ELSE Weight[d - 1] * Limit[d - 1]
DepthWeight == Weight[Top + 1] * Gap

TryPack(p) == \A d \in Depths : p.data[d] \in Component(d)

(* pack_components: the fields of a key do not overlap, so or-ing adds.    *)
Pack(p) ==
  LET sum[d \in 0 .. Top + 1] ==
        IF d = 0 THEN p.last * DepthWeight ELSE sum[d - 1] + p.data[d - 1] * Weight[d - 1]
  IN  sum[Top + 1]

KeyDepth(key) == key \div DepthWeight

Unpack(key) ==
  [data |-> [d \in Depths |-> (key \div Weight[d]) % Limit[d]], last |-> KeyDepth(key)]

(* The weight of the first component below a key: 1 << shift. *)
ChildWeight(key) == IF KeyDepth(key) < Top THEN Weight[KeyDepth(key) + 1] ELSE DepthWeight

(* prefix_mask *)
Prefix(key, of) == key % ChildWeight(of)

MutantRetainAfterShrink(parent, cutoff, child) ==
  \/ Prefix(child, parent) # Prefix(parent, parent)
  \/ IF KeyDepth(parent) < Top
       THEN (child \div ChildWeight(parent)) % Limit[KeyDepth(parent) + 1] < cutoff
       ELSE 0 < cutoff
RetainAfterShrink(parent, cutoff, child) ==
  \/ Prefix(child, parent) # Prefix(parent, parent)
  \/ KeyDepth(child) <= KeyDepth(parent)
  \/ IF KeyDepth(parent) < Top
       THEN (child \div ChildWeight(parent)) % Limit[KeyDepth(parent) + 1] < cutoff
       ELSE 0 < cutoff

----------------------------------------------------------------------------
(* The steps a path is changed by, and when they are in bounds.            *)

(* FieldPath::default *)
Root == [data |-> [d \in Depths |-> IF d = 0 THEN -1 ELSE 0], last |-> 0]

CanPop(p, n) == n <= p.last
Pop(p, n) ==
  [data |-> [d \in Depths |-> IF p.last - n < d /\ d <= p.last THEN 0 ELSE p.data[d]],
   last |-> p.last - n]

(* inc_at for every depth that has a delta. *)
CanInc(p, delta) == \A d \in DOMAIN delta : p.data[d] + delta[d] \in Component(d)
Inc(p, delta) ==
  [p EXCEPT !.data = [d \in Depths |-> IF d \in DOMAIN delta THEN p.data[d] + delta[d]
                                                             ELSE p.data[d]]]

MutantCanPush(p, values) ==
  /\ p.last + Len(values) <= Top
  /\ \A k \in 1 .. Len(values) : values[k] \in Component(p.last)
CanPush(p, values) ==
  /\ p.last + Len(values) <= Top
  /\ \A k \in 1 .. Len(values) : values[k] \in Component(p.last + k)
Push(p, values) ==
  [data |-> [d \in Depths |-> IF d - p.last \in 1 .. Len(values) THEN values[d - p.last]
                                                                ELSE p.data[d]],
   last |-> p.last + Len(values)]

----------------------------------------------------------------------------
(* What a path names.                                                      *)

(* The components of a path down to its last one. *)
Named(p) == [d \in 0 .. p.last |-> p.data[d]]

(* c names something strictly below what p names. *)
Below(c, p) == p.last < c.last /\ \A d \in 0 .. p.last : c.data[d] = p.data[d]

(* A path that fits its key and has nothing beyond its last component.     *)
Canonical(p) == TryPack(p) /\ \A d \in Depths : d > p.last => p.data[d] = 0
=============================================================================
