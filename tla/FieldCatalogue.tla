--------------------------- MODULE FieldCatalogue ---------------------------
(***************************************************************************)
(* The search by name and the names of keys                                *)
(* (src/src/entity/serializers.rs) against a list of all the fields of a   *)
(* serializer.                                                             *)
(***************************************************************************)
EXTENDS Schema

(* Every field of a serializer with the components that lead to it and the *)
(* parts that spell it, down to a level past the deepest a key has.        *)
(* `keyed`: the path has a key, and so has every path that begins at a     *)
(* serializer on its way, as the search by name packs one at each of them. *)
RECURSIVE Catalogue(_, _)
Catalogue(fields, levels) ==
  LET entry(path, name) == [path |-> path, name |-> name, keyed |-> TRUE]
      under(top, entries) == {[path |-> top.path \o e.path, name |-> top.name \o e.name,
                               keyed |-> e.keyed] : e \in entries}
      elements == {entry(<<NumberOf[t]>>, <<NumeralFor(NumberOf[t])>>) : t \in DOMAIN NumberOf}
      members(f) ==
        IF f.below = <<>> THEN {}
        ELSE IF ~IsDynamicArray(f.metadata) THEN Catalogue(f.below[1], levels - 1)
        ELSE LET inner == f.below[1][1].below
                 deeper == IF inner = <<>> THEN {} ELSE Catalogue(inner[1], levels - 2)
             IN  elements \cup UNION {under(e, deeper) : e \in elements}
      own(k) == entry(<<k - 1>>, Parts(fields[k]))
      all == UNION {{own(k)} \cup under(own(k), members(fields[k])) : k \in DOMAIN fields}
  IN  IF levels <= 0 THEN {}
      ELSE {[e EXCEPT !.keyed = @ /\ TryKey(e.path) # NoKey] : e \in all}

Fields(name) == Catalogue(serializers.table[name], Top + 2)

(* The order in which a search by name meets the fields. *)
Before(s, t) ==
  \/ \E k \in DOMAIN s \cap DOMAIN t :
       s[k] < t[k] /\ \A j \in 1 .. k - 1 : s[j] = t[j]
  \/ Len(s) < Len(t) /\ IsPrefixOf(s, t)

FirstOfItsName(e, all) == \A o \in all : o.name = e.name => ~Before(o.path, e.path)

(* The names that are printed have an empty part for a field without one.  *)
WithoutEmpty(name) == SelectSeq(name, LAMBDA part : part # "")

(* A name finds the first field it spells, and nothing else; the key of a  *)
(* field gives its name back.  Keys whose index only fits a deeper         *)
(* component than the first are out of a name's reach.                     *)
NamesFindFields ==
  /\ NamesFindNoOther
  /\ \A class \in DOMAIN serializers.table :
       LET fields == serializers.table[class]
           all == Fields(class)
       IN  /\ \A e \in all : e.keyed /\ FirstOfItsName(e, all) =>
                 ResolveFieldKey(fields, e.name) = TryKey(e.path)
           /\ \A e \in all : TryKey(e.path) # NoKey =>
                 WithoutEmpty(FieldNameForKey(fields, TryKey(e.path))) = e.name
=============================================================================
