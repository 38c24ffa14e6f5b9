-------------------------- MODULE FieldPathReader --------------------------
(***************************************************************************)
(* The reader of src/src/entity/field_path.rs that turns the operations of *)
(* a delta into the list of the paths it updates.                          *)
(*                                                                         *)
(* An operation is taken by what its operands are: how its code and its    *)
(* operands are spelled in bits is left out, and operations that differ in *)
(* the width of an operand only are one.                                   *)
(***************************************************************************)
EXTENDS FieldPaths

CONSTANTS
  Operands,  \* the values a stream gives to an unsigned operand
  Signed,    \* and to a signed one
  MaxPaths   \* max_field_paths

ASSUME OperandsAssumption == Operands \subseteq Nat
ASSUME SignedAssumption   == Signed \subseteq Int
ASSUME MaxPathsAssumption == MaxPaths \in Nat

VARIABLES
  fp,      \* the running path
  buf,     \* the paths read so far
  status   \* "reading", "ready" or "failed"

vars == <<fp, buf, status>>

Init ==
  /\ fp = Root
  /\ buf = <<>>
  /\ status = "reading"

(* The next delta clears the buffer and starts from the root again.        *)
BeginPaths ==
  /\ status # "reading"
  /\ fp' = Root
  /\ buf' = <<>>
  /\ status' = "reading"

(* limits.ensure(buf.len() + 1) *)
Room == Len(buf) + 1 <= MaxPaths

(* Every operation pops n levels, then increments, then pushes.  A step    *)
(* out of bounds, a path that still has no root and a full buffer fail.    *)
Operation(n, delta, values) ==
  LET popped == Pop(fp, n)
      moved  == Inc(popped, delta)
      next   == Push(moved, values)
      legal  == IF CanPop(fp, n) /\ CanInc(popped, delta)
                  THEN CanPush(moved, values) /\ next.data[0] >= 0 /\ Room
                  ELSE FALSE
  IN  /\ status = "reading"
      /\ IF legal THEN fp' = next /\ buf' = Append(buf, next) /\ UNCHANGED status
                  ELSE status' = "failed" /\ UNCHANGED <<fp, buf>>

None == [d \in {} |-> 0]
At(d, delta) == [e \in {d} |-> delta]
Last(delta) == At(fp.last, delta)
Pushes(n) == [1 .. n -> Operands]

(* Increments at any of the first depths, for the non-topological ones.    *)
Scattered(last, deltas) == UNION {[ds -> deltas] : ds \in SUBSET (0 .. last)}

Plus == \E k \in 1 .. 4 \cup {v + 5 : v \in Operands} : Operation(0, Last(k), <<>>)

PushOne ==
  \/ \E v \in Operands \cup {0} :
       Operation(0, None, <<v>>) \/ Operation(0, Last(1), <<v>>)
  \/ \E n \in Operands : Operation(0, Last(n), <<0>>)
  \/ \E n, v \in Operands : Operation(0, Last(n + 2), <<v + 1>>)

PushTwoOrThree ==
  \E values \in Pushes(2) \cup Pushes(3) :
    \/ Operation(0, None, values)
    \/ Operation(0, Last(1), values)
    \/ \E n \in Operands : Operation(0, Last(n + 2), values)

(* More pushes than there are levels fail at the first that does not fit,  *)
(* as one too many does.                                                   *)
PushCounts == 0 .. Top + 1 - fp.last
PushN ==
  \E count \in PushCounts, n \in Operands : \E values \in Pushes(count) :
    Operation(0, Last(n), values)
PushNAndNonTopological ==
  \E delta \in Scattered(fp.last, {v + 1 : v \in Signed}), count \in PushCounts :
    \E values \in Pushes(count) : Operation(0, delta, values)

PopTo(n, delta) == Operation(n, At(fp.last - n, delta), <<>>)
PopOne       == \E k \in {v + 1 : v \in Operands} : PopTo(1, k) \/ PopTo(1, 1)
PopAllButOne == \E k \in {v + 1 : v \in Operands} : PopTo(fp.last, k) \/ PopTo(fp.last, 1)
PopN         == \E n \in Operands, k \in Signed \cup {1} : PopTo(n, k)
PopNAndNonTopological ==
  \E n \in Operands : \E delta \in Scattered(fp.last - n, Signed) : Operation(n, delta, <<>>)

NonTopological == \E delta \in Scattered(fp.last, Signed) : Operation(0, delta, <<>>)
(* On a path of one level there is no parent: a depth that is not there.   *)
NonTopologicalPenultimate ==
  IF fp.last = 0 THEN status = "reading" /\ status' = "failed" /\ UNCHANGED <<fp, buf>>
                 ELSE Operation(0, At(fp.last - 1, 1), <<>>)

(* field_path_encode_finish, which stores no path. *)
Finish == status = "reading" /\ status' = "ready" /\ UNCHANGED <<fp, buf>>
(* The bits run out in an operation. *)
Truncated == status = "reading" /\ status' = "failed" /\ UNCHANGED <<fp, buf>>

ReadOperation ==
  \/ Plus
  \/ PushOne
  \/ PushTwoOrThree
  \/ PushN
  \/ PushNAndNonTopological
  \/ PopOne
  \/ PopAllButOne
  \/ PopN
  \/ PopNAndNonTopological
  \/ NonTopological
  \/ NonTopologicalPenultimate
  \/ Finish
  \/ Truncated

Next == BeginPaths \/ ReadOperation

Spec == Init /\ [][Next]_vars

----------------------------------------------------------------------------
(* Properties.                                                             *)

TypeOK ==
  /\ fp \in Path
  /\ buf \in Seq(Path)
  /\ Len(buf) <= MaxPaths
  /\ status \in {"reading", "ready", "failed"}

(* A path the reader stores fits its key, so the unchecked pack_decoded is *)
(* safe, and nothing is left beyond its last component from the deeper     *)
(* paths it was made from.                                                 *)
PathsCanonical == \A k \in DOMAIN buf : Canonical(buf[k])

(* Keys stand for paths, however they were reached: two paths have the     *)
(* same key exactly when they name the same field, a key gives its path    *)
(* back, the prefix of a selected key finds exactly its subtree, and the   *)
(* arithmetic by which a shrinking array or a cleared pointer drops keys   *)
(* from a map finds exactly what lies below it from the cutoff on.         *)
KeysAreAddresses ==
  \A i, j \in DOMAIN buf :
    LET p == buf[i]
        c == buf[j]
        within == Prefix(Pack(c), Pack(p)) = Prefix(Pack(p), Pack(p)) /\ c.last >= p.last
    IN  /\ Unpack(Pack(p)) = p
        /\ Pack(p) = Pack(c) <=> Named(p) = Named(c)
        /\ within <=> Named(c) = Named(p) \/ Below(c, p)
        /\ \A cutoff \in 0 .. Limit[p.last] + 1 :
             RetainAfterShrink(Pack(p), cutoff, Pack(c)) <=>
               ~(Below(c, p) /\ c.data[p.last + 1] >= cutoff)
=============================================================================
