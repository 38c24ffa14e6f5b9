--------------------------- MODULE SchemaCaches ----------------------------
(***************************************************************************)
(* The two caches an entity container derives from the rest of the parser  *)
(* state: the class-to-serializer bindings                                 *)
(* (src/src/entity/serializer_bindings.rs) and the decoded instance        *)
(* baselines (BaselineCache in src/src/entity/entities.rs).                *)
(*                                                                         *)
(* Both are validated by pointer: class tables, serializer tables and      *)
(* baseline revisions carry an Arc<()> that is replaced when the content   *)
(* changes and shared when the state is cloned, and a cache compares the   *)
(* Arc it holds with the current one.  An address that nothing holds any   *)
(* more may come back from the allocator, so a token here is an address    *)
(* and a new one is any that no live Arc holds.                            *)
(*                                                                         *)
(* A session is one ParserState; Clone drops the state in one place and    *)
(* puts a clone of another there, as prepared sessions and checkpoints do. *)
(***************************************************************************)
CONSTANTS
  Sessions,
  ClassTokens, SerializerTokens, RevisionTokens,  \* addresses of each Arc<()>
  NoToken,
  ClassIds,
  Names, NoName,       \* network names of classes
  Layouts, NoLayout,   \* serializers, each standing for its field layout
  Bytes, NoBytes,      \* encoded baselines
  Contexts,            \* tick interval and decode limits
  Selections, AllProperties,   \* property filters, and none
  NoBinding, NoEntry

Names0   == Names \cup {NoName}
Layouts0 == Layouts \cup {NoLayout}
Bytes0   == Bytes \cup {NoBytes}

ClassMaps == {f \in [ClassIds -> Names0] :
                \A c, d \in ClassIds : f[c] = f[d] /\ f[c] # NoName => c = d}
Schemas   == [Names -> Layouts0]
Contents  == [ClassIds -> Bytes0]

Binding  == [name : Names, layout : Layouts]
Key      == [schema : SerializerTokens, revision : RevisionTokens,
             name : Names, context : Contexts]
Fields   == [bytes : Bytes, layout : Layouts, name : Names, context : Contexts,
             selection : Selections \cup {AllProperties}]
Cached   == [key : Key, fields : Fields]

ASSUME NoBindingAssumption == NoBinding \notin Binding
ASSUME NoEntryAssumption   == NoEntry \notin Cached
ASSUME NoTokenAssumption   == NoToken \notin ClassTokens \cup SerializerTokens
ASSUME NoValueAssumption   == NoName \notin Names /\ NoLayout \notin Layouts
                                                  /\ NoBytes \notin Bytes
ASSUME SelectionAssumption == AllProperties \notin Selections

VARIABLES
  class_info,    \* per session: its Arc and the name of each class id
  serializers,   \* its Arc and the layout of each name
  tables,        \* the revision Arc and the baseline bytes of each class id
  context,
  properties,    \* the container's property filter
  bindings,      \* the Arcs they were built for, and the binding of each id
  cache          \* the decoded baseline of each class id

caches == <<class_info, serializers, tables, context, properties, bindings, cache>>

EmptyCache == [c \in ClassIds |-> NoEntry]

(* Every session is a clone of a state that has decoded nothing yet.       *)
CachesInit ==
  \E ct \in ClassTokens, st \in SerializerTokens, rt \in RevisionTokens, x \in Contexts :
    /\ class_info = [s \in Sessions |-> [id |-> ct, names |-> [c \in ClassIds |-> NoName]]]
    /\ serializers = [s \in Sessions |-> [id |-> st, layout |-> [n \in Names |-> NoLayout]]]
    /\ tables = [s \in Sessions |-> [revision |-> rt, bytes |-> [c \in ClassIds |-> NoBytes]]]
    /\ context = [s \in Sessions |-> x]
    /\ properties = [s \in Sessions |-> AllProperties]
    /\ bindings = [s \in Sessions |-> [classes |-> NoToken, serializers |-> NoToken,
                                       entries |-> [c \in ClassIds |-> NoBinding]]]
    /\ cache = [s \in Sessions |-> EmptyCache]

(* Addresses that some Arc holds, in a session or in a cache.              *)
HeldClassTokens ==
  {class_info[s].id : s \in Sessions} \cup {bindings[s].classes : s \in Sessions}
Filled == {e \in UNION {{cache[s][c] : c \in ClassIds} : s \in Sessions} : e # NoEntry}
CachedKeys == {e.key : e \in Filled}
HeldSerializerTokens ==
  {serializers[s].id : s \in Sessions} \cup {bindings[s].serializers : s \in Sessions}
    \cup {k.schema : k \in CachedKeys}
MutantHeldRevisionTokens == {tables[s].revision : s \in Sessions}
HeldRevisionTokens ==
  {tables[s].revision : s \in Sessions} \cup {k.revision : k \in CachedKeys}

----------------------------------------------------------------------------
(* The schema and the baselines change.                                    *)

(* update_instance_baselines: writes the baselines that the string tables  *)
(* give, never removes one, and takes a new revision if a write changed    *)
(* some bytes (two keys of one class may change them back).                *)
UpdateBaselines(s, bytes) ==
  /\ \A c \in ClassIds : bytes[c] = NoBytes => tables[s].bytes[c] = NoBytes
  /\ \/ bytes = tables[s].bytes /\ UNCHANGED tables
     \/ \E id \in RevisionTokens \ HeldRevisionTokens :
          tables' = [tables EXCEPT ![s] = [revision |-> id, bytes |-> bytes]]

(* install_class_info refreshes the baselines as well. *)
InstallClassInfo(s, names, bytes) ==
  /\ \E id \in ClassTokens \ HeldClassTokens :
       class_info' = [class_info EXCEPT ![s] = [id |-> id, names |-> names]]
  /\ UpdateBaselines(s, bytes)
  /\ UNCHANGED <<serializers, context, properties, bindings, cache>>

(* A property filter belongs to one serializer table, by address: a        *)
(* session that has one rejects every other table.                         *)
InstallSerializers(s, layout) ==
  /\ properties[s] = AllProperties
  /\ \E id \in SerializerTokens \ HeldSerializerTokens :
       serializers' = [serializers EXCEPT ![s] = [id |-> id, layout |-> layout]]
  /\ UNCHANGED <<class_info, tables, context, properties, bindings, cache>>

(* A string-table message that ends with update_instance_baselines. *)
ApplyStringTables(s, bytes) ==
  /\ UpdateBaselines(s, bytes)
  /\ UNCHANGED <<class_info, serializers, context, properties, bindings, cache>>

SetTickInterval(s, x) ==
  /\ context' = [context EXCEPT ![s] = x]
  /\ UNCHANGED <<class_info, serializers, tables, properties, bindings, cache>>

----------------------------------------------------------------------------
(* A packet is decoded.                                                    *)

BindingsMatch(s) ==
  /\ bindings[s].classes = class_info[s].id
  /\ bindings[s].serializers = serializers[s].id

BindingOf(s, c) ==
  LET name == class_info[s].names[c]
  IN  IF name = NoName THEN NoBinding
      ELSE IF serializers[s].layout[name] = NoLayout THEN NoBinding
      ELSE [name |-> name, layout |-> serializers[s].layout[name]]

(* SerializerBindings::refresh *)
Refreshed(s) ==
  IF BindingsMatch(s) THEN bindings[s]
  ELSE [classes |-> class_info[s].id, serializers |-> serializers[s].id,
        entries |-> [c \in ClassIds |-> BindingOf(s, c)]]

(* SerializerBindings::get: a binding answers only for its own name.       *)
MutantSerializerFor(s, entries, c, name) ==
  IF entries[c] # NoBinding THEN entries[c].layout ELSE serializers[s].layout[name]
SerializerFor(s, entries, c, name) ==
  IF entries[c] = NoBinding THEN serializers[s].layout[name]
  ELSE IF entries[c].name = name THEN entries[c].layout
  ELSE serializers[s].layout[name]

KeyOf(s, c) == [schema |-> serializers[s].id, revision |-> tables[s].revision,
                name |-> class_info[s].names[c], context |-> context[s]]

Hit(s, c) == IF cache[s][c] = NoEntry THEN FALSE ELSE cache[s][c].key = KeyOf(s, c)

FieldsOf(s, c, layout) ==
  [bytes |-> tables[s].bytes[c], layout |-> layout, name |-> class_info[s].names[c],
   context |-> context[s], selection |-> properties[s]]

(* A message whose creations, if any, leave the cache alone: their class   *)
(* is unknown, filtered out, without a baseline or already cached, or the  *)
(* baseline does not decode.                                               *)
DecodePacket(s) ==
  /\ bindings' = [bindings EXCEPT ![s] = Refreshed(s)]
  /\ UNCHANGED <<class_info, serializers, tables, context, properties, cache>>

(* BaselineCache::apply on a miss, in a message that creates an entity.    *)
DecodeBaseline(s, c) ==
  LET layout == SerializerFor(s, Refreshed(s).entries, c, class_info[s].names[c])
  IN  /\ class_info[s].names[c] # NoName
      /\ layout # NoLayout
      /\ tables[s].bytes[c] # NoBytes
      /\ ~Hit(s, c)
      /\ cache' = [cache EXCEPT ![s][c] = [key |-> KeyOf(s, c), fields |-> FieldsOf(s, c, layout)]]
      /\ bindings' = [bindings EXCEPT ![s] = Refreshed(s)]
      /\ UNCHANGED <<class_info, serializers, tables, context, properties>>

----------------------------------------------------------------------------
(* Sessions.                                                               *)

Cloned(f, s, t) == f' = [f EXCEPT ![t] = f[s]]

(* Everything is shared or copied but the decoded baselines.               *)
CloneState(s, t) ==
  /\ Cloned(class_info, s, t)
  /\ Cloned(serializers, s, t)
  /\ Cloned(tables, s, t)
  /\ Cloned(context, s, t)
  /\ Cloned(bindings, s, t)
  /\ cache' = [cache EXCEPT ![t] = EmptyCache]

Clone(s, t) == CloneState(s, t) /\ Cloned(properties, s, t)

(* session_with_properties: a filter is fixed once.                        *)
CloneProjected(s, t, p) ==
  /\ properties[s] = AllProperties
  /\ CloneState(s, t)
  /\ properties' = [properties EXCEPT ![t] = p]

CachesNext ==
  \E s \in Sessions :
    \/ \E names \in ClassMaps, bytes \in Contents : InstallClassInfo(s, names, bytes)
    \/ \E layout \in Schemas : InstallSerializers(s, layout)
    \/ \E bytes \in Contents : ApplyStringTables(s, bytes)
    \/ \E x \in Contexts : SetTickInterval(s, x)
    \/ DecodePacket(s)
    \/ \E c \in ClassIds : DecodeBaseline(s, c)
    \/ \E t \in Sessions \ {s} : Clone(s, t)
    \/ \E t \in Sessions \ {s}, p \in Selections : CloneProjected(s, t, p)

CachesSpec == CachesInit /\ [][CachesNext]_caches

----------------------------------------------------------------------------
(* Properties.                                                             *)

CachesTyped ==
  /\ class_info \in [Sessions -> [id : ClassTokens, names : ClassMaps]]
  /\ serializers \in [Sessions -> [id : SerializerTokens, layout : Schemas]]
  /\ tables \in [Sessions -> [revision : RevisionTokens, bytes : Contents]]
  /\ context \in [Sessions -> Contexts]
  /\ properties \in [Sessions -> Selections \cup {AllProperties}]
  /\ bindings \in [Sessions -> [classes : ClassTokens \cup {NoToken},
                                serializers : SerializerTokens \cup {NoToken},
                                entries : [ClassIds -> Binding \cup {NoBinding}]]]
  /\ cache \in [Sessions -> [ClassIds -> Cached \cup {NoEntry}]]

(* A hit in the baseline cache gives an entity the fields that decoding    *)
(* the current baseline with the current serializer, context and property  *)
(* selection would: after any mix of clones, schema replacements and       *)
(* baseline updates, a pointer comparison never accepts a stale decode.    *)
HitIsFresh ==
  \A s \in Sessions, c \in ClassIds :
    Hit(s, c) => cache[s][c].fields =
                   FieldsOf(s, c, serializers[s].layout[class_info[s].names[c]])

(* Once refreshed, the bindings answer every lookup as the serializer      *)
(* table itself would, also for an entity whose class name comes from an   *)
(* older class table.                                                      *)
BindingsAreTransparent ==
  \A s \in Sessions : BindingsMatch(s) =>
    \A c \in ClassIds, name \in Names :
      SerializerFor(s, bindings[s].entries, c, name) = serializers[s].layout[name]
=============================================================================
