---------------------------- MODULE StringTables ----------------------------
(***************************************************************************)
(* The string tables of src/src/entity/string_tables.rs: creation,         *)
(* incremental updates and full-packet snapshots, the dirty and change     *)
(* lists that a tick callback reads, and the instance baselines derived    *)
(* from the first table named `instancebaseline`.                          *)
(*                                                                         *)
(* One message is a Begin step, one step per entry and an End step.  A     *)
(* creation parses into a table of its own and installs it at the end; an  *)
(* update and a snapshot write in place, so an error in the middle keeps   *)
(* the entries already written.  A handler returns its error to the        *)
(* adapter, which may go on to the next message.                           *)
(*                                                                         *)
(* The encoding of an entry (key history, user-data widths, Snappy) is     *)
(* abstracted to the key and the data it decodes to, or to a failure.      *)
(***************************************************************************)
EXTENDS Integers, Sequences, FiniteSetsExt

CONSTANTS
  BaselineTable,   \* INSTANCE_BASELINE_TABLE_NAME
  OtherTables,     \* other table names
  Keys, NoKey,     \* entry keys, and Option::None
  Values, NoValue, \* user data, and Option::None
  ClassIds, NoId,
  ClassOf,         \* s.parse::<i32>() of a key, NoId when it is no number
  Revisions,       \* addresses of baseline_revision
  MaxEntries,      \* max_string_table_entries
  MaxTables,       \* bound on the tables (model only)
  MaxLog           \* bound on the change lists between two clears (model only)

ASSUME ClassOfAssumption   == ClassOf \in [Keys -> ClassIds \cup {NoId}]
ASSUME NoIdAssumption      == NoId \notin ClassIds
ASSUME AbsentAssumption    == NoKey \notin Keys /\ NoValue \notin Values
ASSUME RevisionsAssumption == \A r \in Revisions : Revisions \ {r} # {}
ASSUME SizesAssumption     == MaxEntries \in Nat /\ MaxTables \in Nat /\ MaxLog \in Nat

Names == OtherTables \cup {BaselineTable}
Entry == [string : Keys \cup {NoKey}, user_data : Values \cup {NoValue}]
Slots == 0 .. MaxEntries - 1
Change == [index : Slots, kind : {"Delta", "Snapshot"}, entry : Entry]
Table == [name : Names, track_changes : BOOLEAN, entries : Seq(Entry),
          dirty : Seq(Slots), changes : Seq(Change)]

Absent == [string |-> NoKey, user_data |-> NoValue]

VARIABLES
  tables,
  baselines,     \* instance_baselines
  revision,      \* baseline_revision
  message,       \* "none", "create", "update" or "snapshot"
  draft,         \* the table that a creation parses into
  target,        \* position in `tables` of the table being written, or 0
  remaining,     \* entries left for that table
  entry_index,   \* slot of the last entry, -1 before the first
  base,          \* history: the entries of each table at the last clear_dirty
  failed         \* history: an update or a snapshot failed since the last refresh

cursor == <<message, draft, target, remaining, entry_index>>
vars == <<tables, baselines, revision, cursor, base, failed>>

NewTable(name, track) ==
  [name |-> name, track_changes |-> track, entries |-> <<>>, dirty |-> <<>>, changes |-> <<>>]

NoDraft == NewTable(BaselineTable, FALSE)

Init ==
  /\ tables = <<>>
  /\ baselines = [c \in ClassIds |-> NoValue]
  /\ revision \in Revisions
  /\ message = "none"
  /\ draft = NoDraft
  /\ target = 0
  /\ remaining = 0
  /\ entry_index = -1
  /\ base = <<>>
  /\ failed = FALSE

----------------------------------------------------------------------------
(* update_instance_baselines                                               *)

(* The position of the first table with that name, or 0. *)
FirstNamed(ts, name) ==
  LET at == {t \in DOMAIN ts : ts[t].name = name}
  IN  IF at = {} THEN 0 ELSE Min(at)

(* The entries that give class c its baseline, in table order. *)
Defines(e, c) ==
  IF e.string = NoKey \/ e.user_data = NoValue THEN FALSE ELSE ClassOf[e.string] = c
BaselineEntries(ts, c) ==
  LET t == FirstNamed(ts, BaselineTable)
  IN  IF t = 0 THEN {} ELSE {k \in DOMAIN ts[t].entries : Defines(ts[t].entries[k], c)}

(* The last one wins. *)
BaselineFrom(ts, c) ==
  ts[FirstNamed(ts, BaselineTable)].entries[Max(BaselineEntries(ts, c))].user_data

Baselines(ts) ==
  [c \in ClassIds |-> IF BaselineEntries(ts, c) = {} THEN baselines[c] ELSE BaselineFrom(ts, c)]

(* `changed`: the pass writes some bytes that differ from what it finds. *)
MutantChanged(ts) ==
  \E c \in ClassIds : BaselineEntries(ts, c) # {} /\ baselines[c] = NoValue
Changed(ts) ==
  \E c \in ClassIds : \E k \in BaselineEntries(ts, c) :
    ts[FirstNamed(ts, BaselineTable)].entries[k].user_data # baselines[c]

UpdateInstanceBaselines(ts) ==
  /\ baselines' = Baselines(ts)
  /\ IF Changed(ts) THEN revision' \in Revisions \ {revision} ELSE UNCHANGED revision
  /\ failed' = FALSE

RefreshIf(needed, ts) ==
  IF needed THEN UpdateInstanceBaselines(ts) ELSE UNCHANGED <<baselines, revision, failed>>

----------------------------------------------------------------------------
(* Writing one entry.                                                      *)

Or(value, default, none) == IF value = none THEN default ELSE value

Merged(old, e) ==
  [string    |-> Or(e.string, old.string, NoKey),
   user_data |-> Or(e.user_data, old.user_data, NoValue)]

(* Slot i exists, or the vector grows up to it. *)
Stored(entries, i, e) ==
  IF i < Len(entries)
    THEN [entries EXCEPT ![i + 1] = e]
    ELSE [k \in 1 .. i + 1 |-> IF k <= Len(entries) THEN entries[k]
                               ELSE IF k = i + 1 THEN e ELSE Absent]

MutantRecorded(table, i, kind, e) ==
  IF table.track_changes = TRUE /\ \A k \in DOMAIN table.changes : table.changes[k].index # i
    THEN Append(table.changes, [index |-> i, kind |-> kind, entry |-> e])
    ELSE table.changes
Recorded(table, i, kind, e) ==
  IF table.track_changes = TRUE
    THEN Append(table.changes, [index |-> i, kind |-> kind, entry |-> e])
    ELSE table.changes

(* parse_update: the fields that the delta carries replace the old ones.   *)
WithDelta(table, i, e) ==
  LET old == IF i < Len(table.entries) THEN table.entries[i + 1] ELSE Absent
  IN  [table EXCEPT !.entries = Stored(@, i, Merged(old, e)),
                    !.dirty   = Append(@, i),
                    !.changes = Recorded(table, i, "Delta", e)]

(* do_full_update: an existing entry keeps its key, and keeps its data too *)
(* if the snapshot has none; the change is recorded in every case.         *)
MutantWithSnapshot(table, i, e) ==
  LET known   == i < Len(table.entries)
      written == ~known \/ e.user_data # NoValue
      entry   == IF known THEN [table.entries[i + 1] EXCEPT !.user_data = e.user_data] ELSE e
  IN  [table EXCEPT !.entries = IF written THEN Stored(@, i, entry) ELSE @,
                    !.dirty   = IF known /\ written THEN Append(@, i) ELSE @,
                    !.changes = Recorded(table, i, "Snapshot", e)]
WithSnapshot(table, i, e) ==
  LET known   == i < Len(table.entries)
      written == ~known \/ e.user_data # NoValue
      entry   == IF known THEN [table.entries[i + 1] EXCEPT !.user_data = e.user_data] ELSE e
  IN  [table EXCEPT !.entries = IF written THEN Stored(@, i, entry) ELSE @,
                    !.dirty   = IF written THEN Append(@, i) ELSE @,
                    !.changes = Recorded(table, i, "Snapshot", e)]

Room(table) == Len(table.dirty) < MaxLog /\ Len(table.changes) < MaxLog

----------------------------------------------------------------------------
(* handle_create and handle_update                                         *)

Idle == message = "none"

Opens(kind, t, count) ==
  /\ message' = kind
  /\ target' = t
  /\ remaining' = count
  /\ entry_index' = -1

Closes == Opens("none", 0, 0) /\ draft' = NoDraft

CreateTable(name, track, count) ==
  /\ Idle
  /\ Len(tables) < MaxTables
  /\ Opens("create", 0, count)
  /\ draft' = NewTable(name, track)
  /\ UNCHANGED <<tables, baselines, revision, base, failed>>

UpdateTable(t, count) ==
  /\ Idle
  /\ t \in DOMAIN tables
  /\ Opens("update", t, count)
  /\ UNCHANGED <<tables, baselines, revision, draft, base, failed>>

(* The entry of the loop that decodes to slot i. *)
Delta(i, e) ==
  /\ message \in {"create", "update"}
  /\ remaining > 0
  /\ i > entry_index
  /\ remaining' = remaining - 1
  /\ entry_index' = i
  /\ IF message = "create"
       THEN /\ Room(draft)
            /\ draft' = WithDelta(draft, i, e)
            /\ UNCHANGED tables
       ELSE /\ Room(tables[target])
            /\ tables' = [tables EXCEPT ![target] = WithDelta(@, i, e)]
            /\ UNCHANGED draft
  /\ UNCHANGED <<baselines, revision, message, target, base, failed>>

EndCreate ==
  /\ message = "create" /\ remaining = 0
  /\ tables' = Append(tables, draft)
  /\ base' = Append(base, <<>>)
  /\ RefreshIf(draft.name = BaselineTable, tables')
  /\ Closes

MutantEndUpdate ==
  /\ message = "update" /\ remaining = 0
  /\ Closes
  /\ UNCHANGED <<tables, baselines, revision, base, failed>>
EndUpdate ==
  /\ message = "update" /\ remaining = 0
  /\ RefreshIf(tables[target].name = BaselineTable, tables)
  /\ Closes
  /\ UNCHANGED <<tables, base>>

(* A limit, a truncated entry or invalid compression. *)
FailMessage ==
  /\ message \in {"create", "update"}
  /\ failed' = IF message = "update" THEN TRUE ELSE failed
  /\ Closes
  /\ UNCHANGED <<tables, baselines, revision, base>>

----------------------------------------------------------------------------
(* do_full_update, then update_instance_baselines                          *)

BeginSnapshot ==
  /\ Idle
  /\ Opens("snapshot", 0, 0)
  /\ UNCHANGED <<tables, baselines, revision, draft, base, failed>>

(* The next table of the snapshot; an unknown name is skipped. *)
SnapshotTable(name, count) ==
  /\ message = "snapshot" /\ remaining = 0
  /\ FirstNamed(tables, name) # 0
  /\ Opens("snapshot", FirstNamed(tables, name), count)
  /\ UNCHANGED <<tables, baselines, revision, draft, base, failed>>

SnapshotEntry(e) ==
  /\ message = "snapshot" /\ remaining > 0
  /\ Room(tables[target])
  /\ remaining' = remaining - 1
  /\ entry_index' = entry_index + 1
  /\ tables' = [tables EXCEPT ![target] = WithSnapshot(@, entry_index + 1, e)]
  /\ UNCHANGED <<baselines, revision, message, target, draft, base, failed>>

EndSnapshot ==
  /\ message = "snapshot" /\ remaining = 0
  /\ UpdateInstanceBaselines(tables)
  /\ Closes
  /\ UNCHANGED <<tables, base>>

(* A table over the entry limit: the tables before it stay written. *)
FailSnapshot ==
  /\ message = "snapshot" /\ remaining = 0
  /\ failed' = TRUE
  /\ Closes
  /\ UNCHANGED <<tables, baselines, revision, base>>

----------------------------------------------------------------------------

(* install_class_info and the end of initialize refresh as well. *)
RefreshBaselines ==
  /\ Idle
  /\ UpdateInstanceBaselines(tables)
  /\ UNCHANGED <<tables, cursor, base>>

ClearDirty ==
  /\ Idle
  /\ tables' = [t \in DOMAIN tables |-> [tables[t] EXCEPT !.dirty = <<>>, !.changes = <<>>]]
  /\ base' = [t \in DOMAIN tables |-> tables[t].entries]
  /\ UNCHANGED <<baselines, revision, cursor, failed>>

Next ==
  \/ \E name \in Names, track \in BOOLEAN, n \in 0 .. MaxEntries : CreateTable(name, track, n)
  \/ \E t \in 1 .. MaxTables, n \in 0 .. MaxEntries : UpdateTable(t, n)
  \/ \E i \in Slots, e \in Entry : Delta(i, e)
  \/ EndCreate
  \/ EndUpdate
  \/ FailMessage
  \/ BeginSnapshot
  \/ \E name \in Names, n \in 0 .. MaxEntries : SnapshotTable(name, n)
  \/ \E e \in Entry : SnapshotEntry(e)
  \/ EndSnapshot
  \/ FailSnapshot
  \/ RefreshBaselines
  \/ ClearDirty

Spec == Init /\ [][Next]_vars

----------------------------------------------------------------------------
(* Properties.                                                             *)

TypeOK ==
  /\ tables \in Seq(Table)
  /\ baselines \in [ClassIds -> Values \cup {NoValue}]
  /\ revision \in Revisions
  /\ message \in {"none", "create", "update", "snapshot"}
  /\ draft \in Table
  /\ target \in 0 .. Len(tables)
  /\ message = "update" \/ (message = "snapshot" /\ remaining > 0) => target # 0
  /\ remaining \in 0 .. MaxEntries
  /\ entry_index \in -1 .. MaxEntries - 1
  /\ message = "snapshot" => entry_index + remaining < MaxEntries
  /\ base \in Seq(Seq(Entry))
  /\ Len(base) = Len(tables)
  /\ failed \in BOOLEAN

(* Between messages the baseline of a class is the data of the last entry  *)
(* with its id in the first instancebaseline table, whichever message      *)
(* wrote it, unless a message that failed half-way has not been followed   *)
(* by a refresh yet.                                                       *)
BaselinesFollowTable ==
  message = "none" /\ failed = FALSE =>
    \A c \in ClassIds : BaselineEntries(tables, c) # {} => baselines[c] = BaselineFrom(tables, c)

(* The decoded-baseline cache compares revisions by address: no step       *)
(* changes the bytes of a baseline under an unchanged revision.            *)
RevisionTracksBaselines == [][baselines' # baselines => revision' # revision]_vars

EntryAt(entries, i) == IF i < Len(entries) THEN entries[i + 1] ELSE Absent

(* A consumer that copies the entries named by dirty_indices() after every *)
(* callback holds the whole table: an entry outside the list has not       *)
(* changed since the last clear, also when a message failed half-way.      *)
DirtyCoversWrites ==
  \A t \in DOMAIN tables : \A i \in Slots :
    (\A k \in DOMAIN tables[t].dirty : tables[t].dirty[k] # i)
      => EntryAt(tables[t].entries, i) = EntryAt(base[t], i)

(* What a consumer makes of a record of changes(): a Delta as parse_update *)
(* stores it, a Snapshot as do_full_update does.                           *)
Replay(entries, c) ==
  LET old == EntryAt(entries, c.index)
  IN  IF c.kind = "Delta" \/ c.index >= Len(entries)
        THEN Stored(entries, c.index, Merged(old, c.entry))
        ELSE Stored(entries, c.index,
               [old EXCEPT !.user_data = Or(c.entry.user_data, @, NoValue)])

Replayed(entries, changes) ==
  LET after[k \in 0 .. Len(changes)] ==
        IF k = 0 THEN entries ELSE Replay(after[k - 1], changes[k])
  IN  after[Len(changes)]

(* Replaying changes() over the entries of the last clear gives the        *)
(* current entries: no write is missing and none is out of order.          *)
ChangesTellEntries ==
  \A t \in DOMAIN tables :
    tables[t].track_changes => Replayed(base[t], tables[t].changes) = tables[t].entries

(* string_tables.rs:156 calls a record of changes() "One ordered write"    *)
(* and its index the "Slot written by this change": the slot is also among *)
(* dirty_indices(), the "Entry indices written" since the last callback.   *)
ChangesAreWrites ==
  \A t \in DOMAIN tables : \A k \in DOMAIN tables[t].changes :
    \E j \in DOMAIN tables[t].dirty : tables[t].dirty[j] = tables[t].changes[k].index
=============================================================================
