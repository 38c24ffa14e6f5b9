------------------------- MODULE StringTablesProofs -------------------------
(***************************************************************************)
(* Proofs about StringTables, for any number of tables, entries, keys,     *)
(* values and classes and any interleaving of failing messages.            *)
(*                                                                         *)
(* The dirty lists are sound because the invariant Covered speaks of the   *)
(* table under construction too, which starts empty like its copy.  The    *)
(* baselines are sound because the only steps that write entries run       *)
(* inside a message, and a message ends in a refresh, in a failure, or in  *)
(* a table that no baseline comes from.  The last part is about the key    *)
(* history, for any size of the ring.                                      *)
(***************************************************************************)
EXTENDS StringTables, KeyHistory, TLAPS
LOCAL INSTANCE WellFoundedInduction

LEMMA AbsentType == Absent \in Entry
BY DEF Absent, Entry

LEMMA StoredType ==
  ASSUME NEW entries \in Seq(Entry), NEW i \in Nat, NEW e \in Entry
  PROVE  /\ Stored(entries, i, e) \in Seq(Entry)
         /\ Len(Stored(entries, i, e)) = IF i < Len(entries) THEN Len(entries) ELSE i + 1
         /\ \A k \in Nat : EntryAt(Stored(entries, i, e), k) =
                             IF k = i THEN e ELSE EntryAt(entries, k)
<1>1. CASE i < Len(entries)
  <2> DEFINE new == [entries EXCEPT ![i + 1] = e]
  <2>1. Stored(entries, i, e) = new
    BY <1>1 DEF Stored
  <2>2. new \in Seq(Entry) /\ Len(new) = Len(entries)
    BY <1>1
  <2>3. \A k \in 1 .. Len(entries) : new[k] = IF k = i + 1 THEN e ELSE entries[k]
    BY <1>1
  <2> HIDE DEF new
  <2> QED BY <1>1, <2>1, <2>2, <2>3 DEF EntryAt
<1>2. CASE ~(i < Len(entries))
  <2> DEFINE new == [k \in 1 .. i + 1 |-> IF k <= Len(entries) THEN entries[k]
                                          ELSE IF k = i + 1 THEN e ELSE Absent]
  <2>1. Stored(entries, i, e) = new
    BY <1>2 DEF Stored
  <2>2. \A k \in 1 .. i + 1 : new[k] \in Entry
    BY AbsentType
  <2>3. new \in Seq(Entry)
    BY <2>2
  <2>4. Len(new) = i + 1
    BY <2>3
  <2>5. \A k \in 1 .. i + 1 : new[k] = IF k <= Len(entries) THEN entries[k]
                                       ELSE IF k = i + 1 THEN e ELSE Absent
    OBVIOUS
  <2> HIDE DEF new
  <2> QED BY <1>2, <2>1, <2>3, <2>4, <2>5 DEF EntryAt
<1> QED BY <1>1, <1>2

(* A non-empty set of naturals has a least element.                        *)
LEMMA LeastNatural ==
  ASSUME NEW S \in SUBSET Nat, S # {}
  PROVE  \E m \in S : \A n \in S : m <= n
<1> DEFINE R == {p \in Nat \X Nat : p[1] < p[2]}
<1>1. IsWellFoundedOn(R, Nat)
  BY NatLessThanWellFounded DEF OpToRel
<1>2. PICK m \in S : \A n \in S : ~(<<n, m>> \in R)
  <2> HIDE DEF R
  <2> QED BY <1>1, WFMin
<1>3. \A n \in S : ~(n < m)
  BY <1>2
<1> QED BY <1>3

(* And a greatest one, if it is bounded.                                   *)
LEMMA GreatestNatural ==
  ASSUME NEW b \in Nat, NEW S \in SUBSET (0 .. b), S # {}
  PROVE  \E m \in S : \A n \in S : n <= m
<1> DEFINE T == {n \in Nat : \E m \in S : n = b - m}
<1>1. \A n \in S : b - n \in T
  OBVIOUS
<1>2. T \in SUBSET Nat /\ T # {}
  BY <1>1
<1>3. PICK t \in T : \A n \in T : t <= n
  <2> HIDE DEF T
  <2> QED BY <1>2, LeastNatural
<1>4. PICK m \in S : t = b - m
  BY <1>3
<1>5. \A n \in S : b - m <= b - n
  <2> HIDE DEF T
  <2> QED BY <1>1, <1>3, <1>4
<1> QED BY <1>4, <1>5

LEMMA FirstNamedType ==
  ASSUME NEW ts \in Seq(Table), NEW name
  PROVE  /\ FirstNamed(ts, name) \in 0 .. Len(ts)
         /\ FirstNamed(ts, name) # 0 => ts[FirstNamed(ts, name)].name = name
<1> DEFINE at == {t \in DOMAIN ts : ts[t].name = name}
<1>1. CASE at = {}
  BY <1>1 DEF FirstNamed
<1>2. CASE at # {}
  <2>1. at \in SUBSET Nat
    OBVIOUS
  <2>2. \E t \in at : \A u \in at : t <= u
    <3> HIDE DEF at
    <3> QED BY <1>2, <2>1, LeastNatural
  <2>3. Min(at) \in at
    <3> HIDE DEF at
    <3> QED BY <2>2 DEF Min
  <2>4. FirstNamed(ts, name) = Min(at)
    BY <1>2 DEF FirstNamed
  <2> QED BY <2>3, <2>4
<1> QED BY <1>1, <1>2

LEMMA MergedType ==
  ASSUME NEW old \in Entry, NEW e \in Entry
  PROVE  Merged(old, e) \in Entry
BY DEF Merged, Or, Entry

LEMMA RecordedType ==
  ASSUME NEW table \in Table, NEW i \in Slots, NEW kind \in {"Delta", "Snapshot"}, NEW e \in Entry
  PROVE  Recorded(table, i, kind, e) \in Seq(Change)
<1>1. [index |-> i, kind |-> kind, entry |-> e] \in Change
  BY DEF Change
<1>2. table.changes \in Seq(Change)
  BY DEF Table
<1> QED BY <1>1, <1>2 DEF Recorded

(* f holds the entries before and after each of the changes. *)
Replays(f, copy, changes) ==
  f = [k \in 0 .. Len(changes) |-> IF k = 0 THEN copy ELSE Replay(f[k - 1], changes[k])]

(* The changes lead from a copy to the entries. *)
Tells(changes, copy, entries) ==
  \E f : Replays(f, copy, changes) /\ f[Len(changes)] = entries

(* A consumer that copies the dirty entries has the whole table. *)
DirtyCovers(table, copy) ==
  \A i \in Slots : (\A k \in DOMAIN table.dirty : table.dirty[k] # i)
                     => EntryAt(table.entries, i) = EntryAt(copy, i)

(* And so has one that replays the changes. *)
ChangesCover(table, copy) == table.track_changes => Tells(table.changes, copy, table.entries)

Covers(table, copy) == DirtyCovers(table, copy) /\ ChangesCover(table, copy)

LEMMA SlotsAreNaturals == Slots \subseteq Nat
BY SizesAssumption DEF Slots

LEMMA AppendedSlot ==
  ASSUME NEW dirty \in Seq(Slots), NEW i \in Slots
  PROVE  /\ Append(dirty, i) \in Seq(Slots)
         /\ \E k \in DOMAIN Append(dirty, i) : Append(dirty, i)[k] = i
         /\ \A k \in DOMAIN dirty : /\ k \in DOMAIN Append(dirty, i)
                                    /\ Append(dirty, i)[k] = dirty[k]
<1>1. Append(dirty, i)[Len(dirty) + 1] = i /\ Len(dirty) + 1 \in DOMAIN Append(dirty, i)
  OBVIOUS
<1> QED BY <1>1

(* Replaying is a matter of the copy and the changes alone. *)
LEMMA TellsIsReplayed ==
  ASSUME NEW copy, NEW changes \in Seq(Change), NEW entries, Tells(changes, copy, entries)
  PROVE  Replayed(copy, changes) = entries
<1> DEFINE n == Len(changes)
           R(f) == f = [k \in 0 .. n |-> IF k = 0 THEN copy ELSE Replay(f[k - 1], changes[k])]
           g == CHOOSE f : R(f)
<1>1. n \in Nat
  OBVIOUS
<1>2. PICK f : R(f) /\ f[n] = entries
  BY DEF Tells, Replays
<1>3. Replayed(copy, changes) = g[n]
  BY DEF Replayed
<1>4. R(g)
  <2> HIDE DEF R
  <2> QED BY <1>2
<1> HIDE DEF g
<1>5. g[n] = f[n]
  <2> DEFINE S == {k \in 0 .. n : g[k] # f[k]}
  <2>1. S \in SUBSET Nat
    OBVIOUS
  <2>2. SUFFICES ASSUME S # {} PROVE FALSE
    BY <1>1
  <2>3. PICK m \in S : \A k \in S : m <= k
    <3> HIDE DEF S
    <3> QED BY <2>1, <2>2, LeastNatural
  <2>4. m \in 0 .. n /\ g[m] # f[m]
    BY <2>3
  <2>5. m # 0
    BY <1>1, <1>2, <1>4, <2>4
  <2>6. m - 1 \in 0 .. n /\ ~(m <= m - 1)
    BY <2>4, <2>5
  <2>7. g[m - 1] = f[m - 1]
    BY <2>3, <2>6
  <2>8. g[m] = Replay(g[m - 1], changes[m]) /\ f[m] = Replay(f[m - 1], changes[m])
    BY <1>2, <1>4, <2>4, <2>5
  <2> QED BY <2>4, <2>7, <2>8
<1> QED BY <1>2, <1>3, <1>5

LEMMA NothingTells ==
  ASSUME NEW copy
  PROVE  Tells(<<>>, copy, copy)
<1> DEFINE f == [k \in 0 .. 0 |-> copy]
<1>1. Replays(f, copy, <<>>)
  BY DEF Replays
<1>2. f[Len(<<>>)] = copy
  OBVIOUS
<1> QED BY <1>1, <1>2 DEF Tells

LEMMA OneMoreTells ==
  ASSUME NEW copy, NEW changes \in Seq(Change), NEW entries, NEW c \in Change,
         Tells(changes, copy, entries)
  PROVE  Tells(Append(changes, c), copy, Replay(entries, c))
<1> DEFINE n == Len(changes)
           more == Append(changes, c)
<1>1. PICK f : Replays(f, copy, changes) /\ f[n] = entries
  BY DEF Tells
<1> DEFINE g == [k \in 0 .. n + 1 |-> IF k <= n THEN f[k] ELSE Replay(f[n], c)]
<1>2. n \in Nat /\ Len(more) = n + 1 /\ more[n + 1] = c /\ \A k \in 1 .. n : more[k] = changes[k]
  OBVIOUS
<1>3. \A k \in 0 .. n : g[k] = f[k]
  BY <1>2
<1>4. g[n + 1] = Replay(entries, c)
  BY <1>1, <1>2
<1>5. ASSUME NEW k \in 0 .. n + 1
      PROVE  g[k] = IF k = 0 THEN copy ELSE Replay(g[k - 1], more[k])
  <2>1. CASE k = n + 1
    <3>1. k # 0 /\ k - 1 = n /\ n \in 0 .. n
      BY <1>2, <2>1
    <3> HIDE DEF g, more
    <3> QED BY <1>1, <1>2, <1>3, <1>4, <2>1, <3>1
  <2>2. CASE k # n + 1
    <3>1. k \in 0 .. n /\ (k # 0 => k \in 1 .. n /\ k - 1 \in 0 .. n)
      BY <1>2, <2>2
    <3>2. f[k] = IF k = 0 THEN copy ELSE Replay(f[k - 1], changes[k])
      BY <1>1, <3>1 DEF Replays
    <3> HIDE DEF g, more
    <3> QED BY <1>2, <1>3, <3>1, <3>2
  <2> QED BY <2>1, <2>2
<1>6. g = [k \in 0 .. n + 1 |-> g[k]]
  OBVIOUS
<1>7. Replays(g, copy, more)
  <2> HIDE DEF g, more
  <2> QED BY <1>2, <1>5, <1>6 DEF Replays
<1> HIDE DEF g, more
<1> QED BY <1>2, <1>4, <1>7 DEF Tells, more

(* A record tells of the write it was made for. *)
LEMMA DeltaReplays ==
  ASSUME NEW entries \in Seq(Entry), NEW i \in Slots, NEW e \in Entry
  PROVE  Replay(entries, [index |-> i, kind |-> "Delta", entry |-> e])
           = Stored(entries, i, Merged(EntryAt(entries, i), e))
BY DEF Replay

LEMMA SnapshotReplays ==
  ASSUME NEW entries \in Seq(Entry), NEW i \in Slots, NEW e \in Entry
  PROVE  Replay(entries, [index |-> i, kind |-> "Snapshot", entry |-> e])
           = IF i < Len(entries)
               THEN IF e.user_data # NoValue
                      THEN Stored(entries, i, [entries[i + 1] EXCEPT !.user_data = e.user_data])
                      ELSE entries
               ELSE Stored(entries, i, e)
<1> DEFINE c   == [index |-> i, kind |-> "Snapshot", entry |-> e]
           old == EntryAt(entries, i)
<1>1. i \in Nat /\ Len(entries) \in Nat /\ c.index = i /\ c.kind # "Delta" /\ c.entry = e
  BY SlotsAreNaturals
<1>2. CASE i < Len(entries)
  <2>1. old = entries[i + 1] /\ old \in Entry /\ ~(i >= Len(entries))
    BY <1>1, <1>2 DEF EntryAt
  <2>2. Replay(entries, c)
          = Stored(entries, i, [old EXCEPT !.user_data = Or(e.user_data, @, NoValue)])
    <3> HIDE DEF old, c
    <3> QED BY <1>1, <2>1 DEF Replay, old
  <2>3. CASE e.user_data # NoValue
    BY <1>2, <2>1, <2>2, <2>3 DEF Or
  <2>4. CASE e.user_data = NoValue
    <3>1. [old EXCEPT !.user_data = Or(e.user_data, @, NoValue)] = old
      <4> HIDE DEF old
      <4> QED BY <2>1, <2>4 DEF Or, Entry
    <3>2. Stored(entries, i, entries[i + 1]) = entries
      BY <1>1, <1>2 DEF Stored
    <3> QED BY <1>2, <2>1, <2>2, <2>4, <3>1, <3>2
  <2> QED BY <2>3, <2>4
<1>3. CASE ~(i < Len(entries))
  <2>1. old = Absent /\ i >= Len(entries)
    BY <1>1, <1>3 DEF EntryAt
  <2>2. Merged(Absent, e) = e
    BY DEF Merged, Or, Absent, Entry
  <2> QED BY <1>1, <1>3, <2>1, <2>2 DEF Replay
<1> QED BY <1>2, <1>3

LEMMA RecordTells ==
  ASSUME NEW table \in Table, NEW i \in Slots, NEW kind \in {"Delta", "Snapshot"},
         NEW e \in Entry, NEW new,
         new.track_changes = table.track_changes,
         new.changes = Recorded(table, i, kind, e),
         new.entries = Replay(table.entries, [index |-> i, kind |-> kind, entry |-> e])
  PROVE  \A copy : ChangesCover(table, copy) => ChangesCover(new, copy)
<1> DEFINE c == [index |-> i, kind |-> kind, entry |-> e]
<1>1. c \in Change /\ table.changes \in Seq(Change) /\ table.track_changes \in BOOLEAN
  BY DEF Change, Table
<1>2. table.track_changes => new.changes = Append(table.changes, c)
  BY <1>1 DEF Recorded
<1> HIDE DEF c
<1> QED BY <1>1, <1>2, OneMoreTells DEF c, ChangesCover

(* Writing slot i of a covered table and naming it keeps the cover.        *)
LEMMA WrittenKeeps ==
  ASSUME NEW table \in Table, NEW i \in Slots, NEW e \in Entry, NEW new \in Table,
         new.entries = Stored(table.entries, i, e),
         new.dirty = Append(table.dirty, i)
  PROVE  \A copy \in Seq(Entry) : DirtyCovers(table, copy) => DirtyCovers(new, copy)
<1>1. table.entries \in Seq(Entry) /\ table.dirty \in Seq(Slots) /\ i \in Nat
  BY SlotsAreNaturals DEF Table
<1>2. \A k \in Nat : k # i => EntryAt(new.entries, k) = EntryAt(table.entries, k)
  BY <1>1, StoredType
<1>3. /\ \E k \in DOMAIN new.dirty : new.dirty[k] = i
      /\ \A k \in DOMAIN table.dirty : k \in DOMAIN new.dirty /\ new.dirty[k] = table.dirty[k]
  BY <1>1, AppendedSlot
<1> QED BY <1>2, <1>3, SlotsAreNaturals DEF DirtyCovers

(* The two writes keep the type, the name and the cover.                   *)
LEMMA DeltaKeeps ==
  ASSUME NEW table \in Table, NEW i \in Slots, NEW e \in Entry
  PROVE  /\ WithDelta(table, i, e) \in Table
         /\ WithDelta(table, i, e).name = table.name
         /\ \A copy \in Seq(Entry) : Covers(table, copy) => Covers(WithDelta(table, i, e), copy)
<1> DEFINE old     == IF i < Len(table.entries) THEN table.entries[i + 1] ELSE Absent
           entry   == Merged(old, e)
           entries == Stored(table.entries, i, entry)
           dirty   == Append(table.dirty, i)
           changes == Recorded(table, i, "Delta", e)
           new     == WithDelta(table, i, e)
<1>1. table.entries \in Seq(Entry) /\ table.dirty \in Seq(Slots) /\ i \in Nat
  BY SlotsAreNaturals DEF Table
<1>2. entry \in Entry
  <2>1. old \in Entry
    BY <1>1, AbsentType
  <2> HIDE DEF old
  <2> QED BY <2>1, MergedType
<1>3. entries \in Seq(Entry)
  <2> HIDE DEF entry
  <2> QED BY <1>1, <1>2, StoredType
<1>4. dirty \in Seq(Slots) /\ changes \in Seq(Change)
  BY <1>1, AppendedSlot, RecordedType
<1>5. new = [table EXCEPT !.entries = entries, !.dirty = dirty, !.changes = changes]
  BY DEF WithDelta
<1> HIDE DEF entry, entries, dirty, changes, new
<1>6. /\ new \in Table
      /\ new.name = table.name /\ new.entries = entries /\ new.dirty = dirty
      /\ new.track_changes = table.track_changes /\ new.changes = changes
  BY <1>3, <1>4, <1>5 DEF Table
<1>7. entries = Replay(table.entries, [index |-> i, kind |-> "Delta", entry |-> e])
  BY <1>1, DeltaReplays DEF entries, entry, EntryAt
<1>8. \A copy \in Seq(Entry) : Covers(table, copy) => Covers(new, copy)
  <2>1. \A copy \in Seq(Entry) : DirtyCovers(table, copy) => DirtyCovers(new, copy)
    BY <1>2, <1>6, WrittenKeeps DEF entries, dirty
  <2>2. \A copy : ChangesCover(table, copy) => ChangesCover(new, copy)
    BY <1>6, <1>7, RecordTells DEF changes
  <2> QED BY <2>1, <2>2 DEF Covers
<1> QED BY <1>6, <1>8 DEF new

LEMMA SnapshotKeeps ==
  ASSUME NEW table \in Table, NEW i \in Slots, NEW e \in Entry
  PROVE  /\ WithSnapshot(table, i, e) \in Table
         /\ WithSnapshot(table, i, e).name = table.name
         /\ \A copy \in Seq(Entry) : Covers(table, copy) => Covers(WithSnapshot(table, i, e), copy)
<1> DEFINE known   == i < Len(table.entries)
           written == ~known \/ e.user_data # NoValue
           entry   == IF known THEN [table.entries[i + 1] EXCEPT !.user_data = e.user_data] ELSE e
           entries == IF written THEN Stored(table.entries, i, entry) ELSE table.entries
           dirty   == IF written THEN Append(table.dirty, i) ELSE table.dirty
           changes == Recorded(table, i, "Snapshot", e)
           new     == WithSnapshot(table, i, e)
<1>1. table.entries \in Seq(Entry) /\ table.dirty \in Seq(Slots) /\ i \in Nat
  BY SlotsAreNaturals DEF Table
<1>2. entry \in Entry
  <2>1. CASE known
    <3>1. table.entries[i + 1] \in Entry
      BY <1>1, <2>1
    <3> QED BY <2>1, <3>1 DEF Entry
  <2>2. CASE ~known
    BY <2>2
  <2> QED BY <2>1, <2>2
<1>3. entries \in Seq(Entry)
  <2> HIDE DEF entry, written
  <2> QED BY <1>1, <1>2, StoredType
<1>4. dirty \in Seq(Slots) /\ changes \in Seq(Change)
  <2> HIDE DEF written
  <2> QED BY <1>1, AppendedSlot, RecordedType
<1>5. new = [table EXCEPT !.entries = entries, !.dirty = dirty, !.changes = changes]
  BY DEF WithSnapshot
<1> HIDE DEF entry, entries, dirty, changes, new, written
<1>6. /\ new \in Table
      /\ new.name = table.name /\ new.entries = entries /\ new.dirty = dirty
      /\ new.track_changes = table.track_changes /\ new.changes = changes
  BY <1>3, <1>4, <1>5 DEF Table
<1>7. entries = Replay(table.entries, [index |-> i, kind |-> "Snapshot", entry |-> e])
  BY <1>1, SnapshotReplays DEF entries, entry, written
<1>8. \A copy \in Seq(Entry) : Covers(table, copy) => Covers(new, copy)
  <2>1. \A copy \in Seq(Entry) : DirtyCovers(table, copy) => DirtyCovers(new, copy)
    <3>1. CASE written
      BY <1>2, <1>6, <3>1, WrittenKeeps DEF entries, dirty
    <3>2. CASE ~written
      BY <1>6, <3>2 DEF entries, dirty, DirtyCovers
    <3> QED BY <3>1, <3>2
  <2>2. \A copy : ChangesCover(table, copy) => ChangesCover(new, copy)
    BY <1>6, <1>7, RecordTells DEF changes
  <2> QED BY <2>1, <2>2 DEF Covers
<1> QED BY <1>6, <1>8 DEF new

----------------------------------------------------------------------------
(* Type correctness.                                                       *)

LEMMA NewTableType ==
  ASSUME NEW name \in Names, NEW track \in BOOLEAN
  PROVE  NewTable(name, track) \in Table /\ Covers(NewTable(name, track), <<>>)
<1>1. NewTable(name, track) \in Table
  BY DEF NewTable, Table
<1> QED BY <1>1, NothingTells DEF Covers, DirtyCovers, ChangesCover, NewTable

LEMMA NoDraftType == NoDraft \in Table /\ Covers(NoDraft, <<>>)
BY NewTableType DEF NoDraft, Names

(* The decoder's cursor between messages.                                  *)
LEMMA ClosesType ==
  ASSUME Closes
  PROVE  /\ message' = "none" /\ draft' = NoDraft /\ draft' \in Table
         /\ target' = 0 /\ remaining' = 0 /\ entry_index' = -1
BY NoDraftType DEF Closes, Opens

(* A refresh keeps the types of what it computes.                          *)
LEMMA BaselineFromType ==
  ASSUME NEW ts \in Seq(Table), NEW c \in ClassIds, BaselineEntries(ts, c) # {}
  PROVE  \E k \in BaselineEntries(ts, c) :
           /\ BaselineFrom(ts, c) = ts[FirstNamed(ts, BaselineTable)].entries[k].user_data
           /\ BaselineFrom(ts, c) \in Values
<1> DEFINE t       == FirstNamed(ts, BaselineTable)
           entries == ts[t].entries
           ks      == BaselineEntries(ts, c)
           last    == Max(ks)
<1>1. t \in DOMAIN ts
  BY FirstNamedType DEF BaselineEntries
<1>2. entries \in Seq(Entry)
  <2> HIDE DEF t
  <2>1. ts[t] \in Table
    BY <1>1
  <2> QED BY <2>1 DEF Table
<1>3. ks = {k \in DOMAIN entries : Defines(entries[k], c)}
  BY <1>1 DEF BaselineEntries
<1> HIDE DEF t, entries
<1>4. ks \in SUBSET (0 .. Len(entries)) /\ Len(entries) \in Nat
  BY <1>2, <1>3
<1>5. \E k \in ks : \A j \in ks : j <= k
  <2> HIDE DEF ks
  <2> QED BY <1>4, GreatestNatural DEF ks
<1>6. last \in ks
  <2> HIDE DEF ks
  <2> QED BY <1>5 DEF Max
<1>7. BaselineFrom(ts, c) = entries[last].user_data
  BY DEF BaselineFrom, entries, t
<1>8. last \in DOMAIN entries /\ Defines(entries[last], c)
  BY <1>3, <1>6
<1>9. entries[last] \in Entry /\ entries[last].user_data # NoValue
  BY <1>2, <1>8 DEF Defines
<1>10. entries[last].user_data \in Values
  BY <1>9 DEF Entry
<1> HIDE DEF last, ks
<1> QED BY <1>6, <1>7, <1>10 DEF entries, t, ks

LEMMA RefreshType ==
  ASSUME TypeOK, NEW ts \in Seq(Table), UpdateInstanceBaselines(ts)
  PROVE  /\ baselines' \in [ClassIds -> Values \cup {NoValue}]
         /\ revision' \in Revisions
         /\ failed' = FALSE
<1>1. \A c \in ClassIds : Baselines(ts)[c] \in Values \cup {NoValue}
  <2> SUFFICES ASSUME NEW c \in ClassIds PROVE Baselines(ts)[c] \in Values \cup {NoValue}
    OBVIOUS
  <2>1. CASE BaselineEntries(ts, c) = {}
    BY <2>1 DEF Baselines, TypeOK
  <2>2. CASE BaselineEntries(ts, c) # {}
    BY <2>2, BaselineFromType DEF Baselines
  <2> QED BY <2>1, <2>2
<1>2. Baselines(ts) \in [ClassIds -> Values \cup {NoValue}]
  BY <1>1 DEF Baselines
<1> QED BY <1>2 DEF UpdateInstanceBaselines, TypeOK

LEMMA RefreshIfType ==
  ASSUME TypeOK, NEW needed \in BOOLEAN, NEW ts \in Seq(Table), RefreshIf(needed, ts)
  PROVE  /\ baselines' \in [ClassIds -> Values \cup {NoValue}]
         /\ revision' \in Revisions
         /\ failed' \in BOOLEAN
BY RefreshType DEF RefreshIf, TypeOK

LEMMA InitType == Init => TypeOK
<1> SUFFICES ASSUME Init PROVE TypeOK
  OBVIOUS
<1>1. tables \in Seq(Table) /\ Len(tables) = 0
  BY DEF Init
<1>2. base \in Seq(Seq(Entry)) /\ Len(base) = 0
  BY DEF Init
<1>3. baselines \in [ClassIds -> Values \cup {NoValue}]
  BY DEF Init
<1>4. /\ message = "none" /\ draft = NoDraft /\ target = 0 /\ remaining = 0
      /\ entry_index = -1 /\ revision \in Revisions /\ failed = FALSE
  BY DEF Init
<1>5. draft \in Table
  BY <1>4, NoDraftType
<1>6. /\ target \in 0 .. Len(tables) /\ remaining \in 0 .. MaxEntries
      /\ entry_index \in -1 .. MaxEntries - 1
  BY <1>1, <1>4, SizesAssumption
<1>7. Len(base) = Len(tables) /\ failed \in BOOLEAN
  BY <1>1, <1>2, <1>4
<1> QED BY <1>1, <1>2, <1>3, <1>4, <1>5, <1>6, <1>7 DEF TypeOK

LEMMA NextType == TypeOK /\ [Next]_vars => TypeOK'
<1> SUFFICES ASSUME TypeOK, [Next]_vars PROVE TypeOK'
  OBVIOUS
<1> USE SizesAssumption
<1>1. CASE UNCHANGED vars
  BY <1>1 DEF vars, cursor, TypeOK
<1>2. ASSUME NEW name \in Names, NEW track \in BOOLEAN, NEW n \in 0 .. MaxEntries,
             CreateTable(name, track, n)
      PROVE  TypeOK'
  BY <1>2, NewTableType DEF CreateTable, Opens, TypeOK
<1>3. ASSUME NEW t \in 1 .. MaxTables, NEW n \in 0 .. MaxEntries, UpdateTable(t, n)
      PROVE  TypeOK'
  BY <1>3 DEF UpdateTable, Idle, Opens, TypeOK
<1>4. ASSUME NEW i \in Slots, NEW e \in Entry, Delta(i, e) PROVE TypeOK'
  <2>1. /\ remaining' = remaining - 1 /\ remaining > 0
        /\ entry_index' = i
        /\ message \in {"create", "update"}
        /\ UNCHANGED <<baselines, revision, message, target, base, failed>>
    BY <1>4 DEF Delta
  <2>2. i \in -1 .. MaxEntries - 1
    BY DEF Slots
  <2>3. CASE message = "create"
    <3>1. draft' = WithDelta(draft, i, e) /\ UNCHANGED tables
      BY <1>4, <2>3 DEF Delta
    <3>2. draft' \in Table
      BY <3>1, DeltaKeeps DEF TypeOK
    <3> QED BY <2>1, <2>2, <2>3, <3>1, <3>2 DEF TypeOK
  <2>4. CASE message # "create"
    <3>1. tables' = [tables EXCEPT ![target] = WithDelta(@, i, e)] /\ UNCHANGED draft
      BY <1>4, <2>4 DEF Delta
    <3>2. target \in DOMAIN tables
      BY <2>1, <2>4 DEF TypeOK
    <3>3. WithDelta(tables[target], i, e) \in Table
      BY <3>2, DeltaKeeps DEF TypeOK
    <3>4. tables' \in Seq(Table) /\ Len(tables') = Len(tables)
      BY <3>1, <3>2, <3>3 DEF TypeOK
    <3> QED BY <2>1, <2>2, <2>4, <3>1, <3>4 DEF TypeOK
  <2> QED BY <2>3, <2>4
<1>5. CASE EndCreate
  <2>1. tables' = Append(tables, draft) /\ base' = Append(base, <<>>) /\ Closes
        /\ RefreshIf(draft.name = BaselineTable, tables')
    BY <1>5 DEF EndCreate
  <2>2. tables' \in Seq(Table) /\ Len(tables') = Len(tables) + 1
    BY <2>1 DEF TypeOK
  <2>3. base' \in Seq(Seq(Entry)) /\ Len(base') = Len(base) + 1
    BY <2>1 DEF TypeOK
  <2>4. /\ baselines' \in [ClassIds -> Values \cup {NoValue}]
        /\ revision' \in Revisions
        /\ failed' \in BOOLEAN
    BY <2>1, <2>2, RefreshIfType
  <2> QED BY <2>1, <2>2, <2>3, <2>4, ClosesType DEF TypeOK
<1>6. CASE EndUpdate
  <2>1. UNCHANGED <<tables, base>> /\ Closes
        /\ RefreshIf(tables[target].name = BaselineTable, tables)
    BY <1>6 DEF EndUpdate
  <2>2. /\ baselines' \in [ClassIds -> Values \cup {NoValue}]
        /\ revision' \in Revisions
        /\ failed' \in BOOLEAN
    BY <2>1, RefreshIfType DEF TypeOK
  <2> QED BY <2>1, <2>2, ClosesType DEF TypeOK
<1>7. CASE FailMessage
  <2>1. UNCHANGED <<tables, baselines, revision, base>> /\ Closes
    BY <1>7 DEF FailMessage
  <2>2. failed' \in BOOLEAN
    BY <1>7 DEF FailMessage, TypeOK
  <2> QED BY <2>1, <2>2, ClosesType DEF TypeOK
<1>8. CASE BeginSnapshot
  BY <1>8 DEF BeginSnapshot, Opens, TypeOK
<1>9. ASSUME NEW name \in Names, NEW n \in 0 .. MaxEntries, SnapshotTable(name, n) PROVE TypeOK'
  <2>1. FirstNamed(tables, name) \in 0 .. Len(tables)
    BY FirstNamedType DEF TypeOK
  <2> QED BY <1>9, <2>1 DEF SnapshotTable, Opens, TypeOK
<1>10. ASSUME NEW e \in Entry, SnapshotEntry(e) PROVE TypeOK'
  <2>1. /\ message = "snapshot" /\ remaining > 0
        /\ remaining' = remaining - 1 /\ entry_index' = entry_index + 1
        /\ tables' = [tables EXCEPT ![target] = WithSnapshot(@, entry_index + 1, e)]
        /\ UNCHANGED <<baselines, revision, message, target, draft, base, failed>>
    BY <1>10 DEF SnapshotEntry
  <2>2. entry_index + 1 \in Slots /\ target \in DOMAIN tables
    BY <2>1 DEF TypeOK, Slots
  <2>3. WithSnapshot(tables[target], entry_index + 1, e) \in Table
    BY <2>2, SnapshotKeeps DEF TypeOK
  <2>4. tables' \in Seq(Table) /\ Len(tables') = Len(tables)
    BY <2>1, <2>2, <2>3 DEF TypeOK
  <2>5. /\ remaining' \in 0 .. MaxEntries
        /\ entry_index' \in -1 .. MaxEntries - 1
        /\ entry_index' + remaining' < MaxEntries
    BY <2>1 DEF TypeOK
  <2> QED BY <2>1, <2>2, <2>4, <2>5 DEF TypeOK
<1>11. CASE EndSnapshot
  <2>1. UNCHANGED <<tables, base>> /\ Closes /\ UpdateInstanceBaselines(tables)
    BY <1>11 DEF EndSnapshot
  <2>2. /\ baselines' \in [ClassIds -> Values \cup {NoValue}]
        /\ revision' \in Revisions
        /\ failed' \in BOOLEAN
    BY <2>1, RefreshType DEF TypeOK
  <2> QED BY <2>1, <2>2, ClosesType DEF TypeOK
<1>12. CASE FailSnapshot
  BY <1>12, ClosesType DEF FailSnapshot, TypeOK
<1>13. CASE RefreshBaselines
  <2>1. UNCHANGED <<tables, cursor, base>> /\ UpdateInstanceBaselines(tables)
    BY <1>13 DEF RefreshBaselines
  <2>2. /\ baselines' \in [ClassIds -> Values \cup {NoValue}]
        /\ revision' \in Revisions
        /\ failed' \in BOOLEAN
    BY <2>1, RefreshType DEF TypeOK
  <2> QED BY <2>1, <2>2 DEF cursor, TypeOK
<1>14. CASE ClearDirty
  <2> DEFINE clean(t) == [tables[t] EXCEPT !.dirty = <<>>, !.changes = <<>>]
  <2>1. ASSUME NEW t \in DOMAIN tables
        PROVE  clean(t) \in Table /\ tables[t].entries \in Seq(Entry)
    <3>1. tables[t] \in Table
      BY DEF TypeOK
    <3>2. <<>> \in Seq(Slots) /\ <<>> \in Seq(Change)
      OBVIOUS
    <3> QED BY <3>1, <3>2 DEF Table
  <2>2. /\ tables' = [t \in DOMAIN tables |-> clean(t)]
        /\ base' = [t \in DOMAIN tables |-> tables[t].entries]
        /\ UNCHANGED <<baselines, revision, cursor, failed>>
    BY <1>14 DEF ClearDirty
  <2> HIDE DEF clean
  <2>3. tables' \in Seq(Table) /\ Len(tables') = Len(tables)
    BY <2>1, <2>2 DEF TypeOK
  <2>4. base' \in Seq(Seq(Entry)) /\ Len(base') = Len(tables)
    BY <2>1, <2>2 DEF TypeOK
  <2> QED BY <2>2, <2>3, <2>4 DEF cursor, TypeOK
<1> QED BY <1>1, <1>2, <1>3, <1>4, <1>5, <1>6, <1>7, <1>8, <1>9, <1>10, <1>11, <1>12,
           <1>13, <1>14 DEF Next

(* The variables keep their types: in particular a message never writes    *)
(* outside the entry limit or to a table that does not exist.              *)
THEOREM StringTablesTypeCorrect == Spec => []TypeOK
BY InitType, NextType, PTL DEF Spec

----------------------------------------------------------------------------
(* The dirty lists.                                                        *)

Covered ==
  /\ \A t \in DOMAIN tables : Covers(tables[t], base[t])
  /\ Covers(draft, <<>>)

LEMMA NextCovered == TypeOK /\ Covered /\ [Next]_vars => Covered'
<1> SUFFICES ASSUME TypeOK, Covered, [Next]_vars PROVE Covered'
  OBVIOUS
<1>1. CASE UNCHANGED <<tables, base, draft>>
  BY <1>1 DEF Covered
<1>2. CASE UNCHANGED <<tables, base>> /\ draft' = NoDraft
  BY <1>2, NoDraftType DEF Covered
<1>3. ASSUME NEW name \in Names, NEW track \in BOOLEAN, NEW n \in 0 .. MaxEntries,
             CreateTable(name, track, n)
      PROVE  Covered'
  BY <1>3, NewTableType DEF CreateTable, Covered
<1>4. ASSUME NEW i \in Slots, NEW e \in Entry, Delta(i, e) PROVE Covered'
  <2>1. CASE message = "create"
    <3>1. draft' = WithDelta(draft, i, e) /\ UNCHANGED <<tables, base>>
      BY <1>4, <2>1 DEF Delta
    <3>2. draft \in Table /\ Covers(draft, <<>>) /\ <<>> \in Seq(Entry)
      BY DEF TypeOK, Covered
    <3>3. Covers(WithDelta(draft, i, e), <<>>)
      BY <3>2, DeltaKeeps
    <3> QED BY <3>1, <3>3 DEF Covered
  <2>2. CASE message # "create"
    <3>1. /\ tables' = [tables EXCEPT ![target] = WithDelta(@, i, e)]
          /\ UNCHANGED <<draft, base>> /\ message = "update"
      BY <1>4, <2>2 DEF Delta
    <3>2. target \in DOMAIN tables /\ target \in DOMAIN base /\ base[target] \in Seq(Entry)
      BY <3>1 DEF TypeOK
    <3>3. tables[target] \in Table /\ Covers(tables[target], base[target])
      BY <3>2 DEF TypeOK, Covered
    <3>4. Covers(WithDelta(tables[target], i, e), base[target])
      BY <3>2, <3>3, DeltaKeeps
    <3> QED BY <3>1, <3>2, <3>4 DEF Covered
  <2> QED BY <2>1, <2>2
<1>5. CASE EndCreate
  <2>1. tables' = Append(tables, draft) /\ base' = Append(base, <<>>) /\ draft' = NoDraft
    BY <1>5, ClosesType DEF EndCreate
  <2>2. ASSUME NEW t \in DOMAIN tables' PROVE Covers(tables'[t], base'[t])
    <3>1. CASE t = Len(tables) + 1
      <4>1. tables'[t] = draft
        BY <2>1, <3>1 DEF TypeOK
      <4>2. base'[t] = <<>>
        BY <2>1, <3>1 DEF TypeOK
      <4> QED BY <4>1, <4>2 DEF Covered
    <3>2. CASE t # Len(tables) + 1
      <4>1. t \in DOMAIN tables /\ tables'[t] = tables[t] /\ base'[t] = base[t]
        BY <2>1, <3>2 DEF TypeOK
      <4> QED BY <4>1 DEF Covered
    <3> QED BY <3>1, <3>2
  <2> QED BY <2>1, <2>2, NoDraftType DEF Covered
<1>6. ASSUME NEW e \in Entry, SnapshotEntry(e) PROVE Covered'
  <2>1. /\ tables' = [tables EXCEPT ![target] = WithSnapshot(@, entry_index + 1, e)]
        /\ UNCHANGED <<draft, base>> /\ message = "snapshot" /\ remaining > 0
    BY <1>6 DEF SnapshotEntry
  <2>2. target \in DOMAIN tables /\ target \in DOMAIN base /\ base[target] \in Seq(Entry)
    BY <2>1 DEF TypeOK
  <2>3. entry_index + 1 \in Slots
    BY <2>1, SizesAssumption DEF TypeOK, Slots
  <2>4. Covers(WithSnapshot(tables[target], entry_index + 1, e), base[target])
    BY <2>2, <2>3, SnapshotKeeps DEF TypeOK, Covered
  <2> QED BY <2>1, <2>2, <2>4 DEF Covered
<1>7. CASE ClearDirty
  <2>1. \A t \in DOMAIN tables : /\ tables'[t].entries = tables[t].entries
                                 /\ tables'[t].changes = <<>>
                                 /\ base'[t] = tables[t].entries
    <3>1. \A t \in DOMAIN tables :
            tables'[t] = [tables[t] EXCEPT !.dirty = <<>>, !.changes = <<>>]
            /\ base'[t] = tables[t].entries
      BY <1>7 DEF ClearDirty
    <3>2. \A t \in DOMAIN tables : tables[t] \in Table
      BY DEF TypeOK
    <3> QED BY <3>1, <3>2 DEF Table
  <2>2. DOMAIN tables' = DOMAIN tables /\ UNCHANGED draft
    BY <1>7 DEF ClearDirty, cursor
  <2> QED BY <2>1, <2>2, NothingTells DEF Covered, Covers, DirtyCovers, ChangesCover
<1>8. CASE EndUpdate \/ FailMessage \/ EndSnapshot \/ FailSnapshot
  BY <1>2, <1>8, ClosesType DEF EndUpdate, FailMessage, EndSnapshot, FailSnapshot
<1>9. CASE BeginSnapshot \/ RefreshBaselines \/ UNCHANGED vars
  BY <1>1, <1>9 DEF BeginSnapshot, RefreshBaselines, vars, cursor
<1>10. ASSUME NEW t \in 1 .. MaxTables, NEW n \in 0 .. MaxEntries, UpdateTable(t, n)
       PROVE  Covered'
  BY <1>1, <1>10 DEF UpdateTable
<1>11. ASSUME NEW name \in Names, NEW n \in 0 .. MaxEntries, SnapshotTable(name, n)
       PROVE  Covered'
  BY <1>1, <1>11 DEF SnapshotTable
<1> QED BY <1>3, <1>4, <1>5, <1>6, <1>7, <1>8, <1>9, <1>10, <1>11 DEF Next

LEMMA InitCovered == Init => Covered
BY NoDraftType DEF Init, Covered

LEMMA CoveredFollows == TypeOK /\ Covered => DirtyCoversWrites
BY DEF Covered, Covers, DirtyCovers, DirtyCoversWrites

(* An entry outside the dirty list of its table has not changed since the  *)
(* last callback, whatever messages were applied or failed in between.     *)
THEOREM DirtyListsAreComplete == Spec => []DirtyCoversWrites
BY InitType, NextType, InitCovered, NextCovered, CoveredFollows, PTL DEF Spec

LEMMA CoveredTells == TypeOK /\ Covered => ChangesTellEntries
<1> SUFFICES ASSUME TypeOK, Covered, NEW t \in DOMAIN tables, tables[t].track_changes
             PROVE  Replayed(base[t], tables[t].changes) = tables[t].entries
  BY DEF ChangesTellEntries
<1>1. tables[t].changes \in Seq(Change)
  <2>1. tables[t] \in Table
    BY DEF TypeOK
  <2> QED BY <2>1 DEF Table
<1>2. Tells(tables[t].changes, base[t], tables[t].entries)
  BY DEF Covered, Covers, ChangesCover
<1> QED BY <1>1, <1>2, TellsIsReplayed

(* The changes of a tracked table, replayed over its entries at the last   *)
(* callback, give its entries now, whatever messages were applied or       *)
(* failed in between.                                                      *)
THEOREM ChangesTellTheTable == Spec => []ChangesTellEntries
BY InitType, NextType, InitCovered, NextCovered, CoveredTells, PTL DEF Spec

----------------------------------------------------------------------------
(* The baselines.                                                          *)

Follows(ts) ==
  \A c \in ClassIds : BaselineEntries(ts, c) # {} => baselines[c] = BaselineFrom(ts, c)

(* Only a message that may write to a baseline table can lag behind it.    *)
Settled ==
  /\ failed = FALSE
  /\ \/ message \in {"none", "create"}
     \/ message = "update" /\ tables[target].name # BaselineTable
Followed == Settled => Follows(tables)

LEMMA RefreshFollows ==
  ASSUME TypeOK, NEW ts \in Seq(Table), UpdateInstanceBaselines(ts), tables' = ts
  PROVE  Followed'
BY DEF UpdateInstanceBaselines, Baselines, Followed, Follows

(* Writing to a table of another name, or adding one, leaves the first     *)
(* baseline table alone.                                                   *)
LEMMA SameFirst ==
  ASSUME NEW ts \in Seq(Table), NEW us \in Seq(Table),
         \A t \in DOMAIN ts : ts[t].name = BaselineTable => t \in DOMAIN us /\ us[t] = ts[t],
         \A t \in DOMAIN us : us[t].name = BaselineTable => t \in DOMAIN ts /\ us[t] = ts[t],
         Follows(ts)
  PROVE  Follows(us)
<1>1. {t \in DOMAIN us : us[t].name = BaselineTable} = {t \in DOMAIN ts : ts[t].name = BaselineTable}
  OBVIOUS
<1>2. FirstNamed(us, BaselineTable) = FirstNamed(ts, BaselineTable)
  BY <1>1 DEF FirstNamed
<1> DEFINE t == FirstNamed(ts, BaselineTable)
<1>3. CASE t = 0
  BY <1>2, <1>3 DEF Follows, BaselineEntries
<1>4. CASE t # 0
  <2>1. t \in DOMAIN ts /\ ts[t].name = BaselineTable
    BY <1>4, FirstNamedType
  <2>2. us[t] = ts[t]
    BY <2>1
  <2>3. ASSUME NEW c \in ClassIds PROVE BaselineEntries(us, c) = BaselineEntries(ts, c)
    <3> HIDE DEF t
    <3>1. BaselineEntries(us, c) = {k \in DOMAIN us[t].entries : Defines(us[t].entries[k], c)}
      BY <1>2, <1>4 DEF BaselineEntries, t
    <3>2. BaselineEntries(ts, c) = {k \in DOMAIN ts[t].entries : Defines(ts[t].entries[k], c)}
      BY <1>4 DEF BaselineEntries, t
    <3> QED BY <2>2, <3>1, <3>2
  <2>4. ASSUME NEW c \in ClassIds PROVE BaselineFrom(us, c) = BaselineFrom(ts, c)
    BY <1>2, <2>2, <2>3 DEF BaselineFrom
  <2> QED BY <2>3, <2>4 DEF Follows
<1> QED BY <1>3, <1>4

LEMMA NextFollowed == TypeOK /\ Followed /\ [Next]_vars => Followed'
<1> SUFFICES ASSUME TypeOK, Followed, [Next]_vars PROVE Followed'
  OBVIOUS
<1>1. CASE UNCHANGED vars
  BY <1>1 DEF vars, cursor, Followed, Settled, Follows
<1>2. ASSUME NEW name \in Names, NEW track \in BOOLEAN, NEW n \in 0 .. MaxEntries,
             CreateTable(name, track, n)
      PROVE  Followed'
  BY <1>2 DEF CreateTable, Idle, Followed, Settled, Follows
<1>3. ASSUME NEW t \in 1 .. MaxTables, NEW n \in 0 .. MaxEntries, UpdateTable(t, n)
      PROVE  Followed'
  BY <1>3 DEF UpdateTable, Idle, Followed, Settled, Follows
<1>4. ASSUME NEW i \in Slots, NEW e \in Entry, Delta(i, e) PROVE Followed'
  <2>1. CASE message = "create"
    BY <1>4, <2>1 DEF Delta, Followed, Settled, Follows
  <2>2. CASE message # "create"
    <3>1. /\ tables' = [tables EXCEPT ![target] = WithDelta(@, i, e)]
          /\ UNCHANGED <<baselines, message, target, failed>> /\ message = "update"
      BY <1>4, <2>2 DEF Delta
    <3>2. target \in DOMAIN tables
      BY <3>1 DEF TypeOK
    <3>3. tables'[target].name = tables[target].name /\ tables' \in Seq(Table)
      BY <3>1, <3>2, DeltaKeeps, NextType DEF TypeOK
    <3>4. SUFFICES ASSUME Settled' PROVE Follows(tables')
      BY <3>1 DEF Followed, Follows
    <3>5. Settled /\ tables[target].name # BaselineTable
      BY <3>1, <3>3, <3>4 DEF Settled
    <3>6. Follows(tables)
      BY <3>5 DEF Followed
    <3>7. \A t \in DOMAIN tables : t # target => tables'[t] = tables[t]
      BY <3>1
    <3>8. DOMAIN tables' = DOMAIN tables
      BY <3>1
    <3>9. Follows(tables')
      BY <3>3, <3>5, <3>6, <3>7, <3>8, SameFirst DEF TypeOK
    <3> QED BY <3>9
  <2> QED BY <2>1, <2>2
<1>5. CASE EndCreate
  <2>1. tables' = Append(tables, draft) /\ RefreshIf(draft.name = BaselineTable, tables')
        /\ message = "create" /\ tables' \in Seq(Table)
    BY <1>5 DEF EndCreate, TypeOK
  <2>2. CASE draft.name = BaselineTable
    BY <2>1, <2>2, RefreshFollows DEF RefreshIf
  <2>3. CASE draft.name # BaselineTable
    <3>1. UNCHANGED <<baselines, failed>>
      BY <2>1, <2>3 DEF RefreshIf
    <3>2. SUFFICES ASSUME failed = FALSE PROVE Follows(tables')
      BY <3>1 DEF Followed, Settled, Follows
    <3>3. Follows(tables)
      BY <2>1, <3>2 DEF Followed, Settled
    <3>4. \A t \in DOMAIN tables : t \in DOMAIN tables' /\ tables'[t] = tables[t]
      BY <2>1 DEF TypeOK
    <3>5. \A t \in DOMAIN tables' : t \in DOMAIN tables \/ tables'[t] = draft
      BY <2>1 DEF TypeOK
    <3> QED BY <2>1, <2>3, <3>3, <3>4, <3>5, SameFirst DEF TypeOK
  <2> QED BY <2>2, <2>3
<1>6. CASE EndUpdate
  <2>1. tables' = tables /\ RefreshIf(tables[target].name = BaselineTable, tables)
        /\ message = "update"
    BY <1>6 DEF EndUpdate
  <2>2. CASE tables[target].name = BaselineTable
    BY <2>1, <2>2, RefreshFollows DEF RefreshIf, TypeOK
  <2>3. CASE tables[target].name # BaselineTable
    BY <2>1, <2>3 DEF RefreshIf, Followed, Settled, Follows
  <2> QED BY <2>2, <2>3
<1>7. CASE FailMessage
  <2>1. CASE message = "update"
    BY <1>7, <2>1 DEF FailMessage, Followed, Settled
  <2>2. CASE message # "update"
    BY <1>7, <2>2 DEF FailMessage, Followed, Settled, Follows
  <2> QED BY <2>1, <2>2
<1>8. CASE BeginSnapshot
  BY <1>8 DEF BeginSnapshot, Opens, Followed, Settled
<1>9. ASSUME NEW name \in Names, NEW n \in 0 .. MaxEntries, SnapshotTable(name, n) PROVE Followed'
  BY <1>9 DEF SnapshotTable, Opens, Followed, Settled
<1>10. ASSUME NEW e \in Entry, SnapshotEntry(e) PROVE Followed'
  BY <1>10 DEF SnapshotEntry, Followed, Settled
<1>11. CASE EndSnapshot
  BY <1>11, RefreshFollows DEF EndSnapshot, TypeOK
<1>12. CASE FailSnapshot
  BY <1>12 DEF FailSnapshot, Followed, Settled
<1>13. CASE RefreshBaselines
  BY <1>13, RefreshFollows DEF RefreshBaselines, TypeOK
<1>14. CASE ClearDirty
  <2>1. /\ \A t \in DOMAIN tables : /\ tables'[t].name = tables[t].name
                                    /\ tables'[t].entries = tables[t].entries
        /\ DOMAIN tables' = DOMAIN tables
        /\ UNCHANGED <<baselines, message, failed>> /\ message = "none"
    <3>1. \A t \in DOMAIN tables :
            tables'[t] = [tables[t] EXCEPT !.dirty = <<>>, !.changes = <<>>]
      BY <1>14 DEF ClearDirty
    <3>2. \A t \in DOMAIN tables : tables[t] \in Table
      BY DEF TypeOK
    <3>3. \A t \in DOMAIN tables : /\ tables'[t].name = tables[t].name
                                   /\ tables'[t].entries = tables[t].entries
      BY <3>1, <3>2 DEF Table
    <3> QED BY <1>14, <3>3 DEF ClearDirty, Idle, cursor
  <2>2. SUFFICES ASSUME failed = FALSE PROVE Follows(tables')
    BY <2>1 DEF Followed, Settled, Follows
  <2>3. Follows(tables)
    BY <2>1, <2>2 DEF Followed, Settled
  <2>4. {t \in DOMAIN tables' : tables'[t].name = BaselineTable}
          = {t \in DOMAIN tables : tables[t].name = BaselineTable}
    BY <2>1
  <2>5. FirstNamed(tables', BaselineTable) = FirstNamed(tables, BaselineTable)
    BY <2>4 DEF FirstNamed
  <2>6. FirstNamed(tables, BaselineTable) # 0 =>
          FirstNamed(tables, BaselineTable) \in DOMAIN tables
    BY FirstNamedType DEF TypeOK
  <2> HIDE DEF FirstNamed
  <2>7. \A c \in ClassIds : BaselineEntries(tables', c) = BaselineEntries(tables, c)
    BY <2>1, <2>5, <2>6 DEF BaselineEntries
  <2>8. \A c \in ClassIds : BaselineEntries(tables, c) # {} =>
          BaselineFrom(tables', c) = BaselineFrom(tables, c)
    <3>1. \A c \in ClassIds : BaselineEntries(tables, c) # {} =>
            FirstNamed(tables, BaselineTable) \in DOMAIN tables
      BY <2>6 DEF BaselineEntries
    <3> QED BY <2>1, <2>5, <2>7, <3>1 DEF BaselineFrom
  <2> QED BY <2>3, <2>7, <2>8 DEF Follows
<1> QED BY <1>1, <1>2, <1>3, <1>4, <1>5, <1>6, <1>7, <1>8, <1>9, <1>10, <1>11, <1>12,
           <1>13, <1>14 DEF Next

LEMMA InitFollowed == Init => Followed
BY DEF Init, Followed, Follows, BaselineEntries, FirstNamed

LEMMA FollowedImplies == Followed => BaselinesFollowTable
BY DEF Followed, Settled, Follows, BaselinesFollowTable

(* Between messages the instance baselines are those of the table, unless  *)
(* a failed message has not been followed by a refresh.                    *)
THEOREM BaselinesAreCurrent == Spec => []BaselinesFollowTable
BY InitType, NextType, InitFollowed, NextFollowed, FollowedImplies, PTL DEF Spec

----------------------------------------------------------------------------

LEMMA RefreshTracks ==
  ASSUME TypeOK, NEW ts \in Seq(Table), UpdateInstanceBaselines(ts), baselines' # baselines
  PROVE  revision' # revision
<1>1. PICK c \in ClassIds : Baselines(ts)[c] # baselines[c]
  BY DEF UpdateInstanceBaselines, Baselines, TypeOK
<1>2. BaselineEntries(ts, c) # {} /\ BaselineFrom(ts, c) # baselines[c]
  BY <1>1 DEF Baselines
<1>3. PICK k \in BaselineEntries(ts, c) :
        BaselineFrom(ts, c) = ts[FirstNamed(ts, BaselineTable)].entries[k].user_data
  BY <1>2, BaselineFromType
<1>4. Changed(ts)
  BY <1>2, <1>3 DEF Changed
<1> QED BY <1>4 DEF UpdateInstanceBaselines

(* The decoded-baseline cache may rely on the revision alone: no step      *)
(* changes a baseline and keeps the revision.                              *)
THEOREM RevisionsAreHonest == Spec => RevisionTracksBaselines
<1>1. TypeOK /\ [Next]_vars => [baselines' # baselines => revision' # revision]_vars
  <2> SUFFICES ASSUME TypeOK, Next, baselines' # baselines PROVE revision' # revision
    BY DEF vars
  <2>1. CASE EndCreate
    <3>1. tables' \in Seq(Table) /\ RefreshIf(draft.name = BaselineTable, tables')
      BY <2>1 DEF EndCreate, TypeOK
    <3> QED BY <3>1, RefreshTracks DEF RefreshIf
  <2>2. CASE EndUpdate \/ EndSnapshot \/ RefreshBaselines
    BY <2>2, RefreshTracks DEF EndUpdate, EndSnapshot, RefreshBaselines, RefreshIf, TypeOK
  <2> QED BY <2>1, <2>2 DEF Next, CreateTable, UpdateTable, Delta, FailMessage, BeginSnapshot,
                           SnapshotTable, SnapshotEntry, FailSnapshot, ClearDirty
<1> QED BY <1>1, InitType, NextType, PTL DEF Spec, RevisionTracksBaselines
----------------------------------------------------------------------------
(* The key history.  Remainders decide which slot a key is in.             *)

LEMMA Division ==
  ASSUME NEW H \in Nat \ {0}, NEW x \in Int
  PROVE  /\ x % H \in 0 .. H - 1
         /\ \E q \in Int : x = H * q + (x % H)
<1>1. x = H * (x \div H) + (x % H) /\ x \div H \in Int /\ x % H \in 0 .. H - 1
  BY SMTT(20)
<1> QED BY <1>1

(* Multiples of H that differ by less than H are the same. *)
LEMMA NearMultiples ==
  ASSUME NEW H \in Nat \ {0}, NEW a \in Int, NEW b \in Int,
         H * a - H * b < H, H * b - H * a < H
  PROVE  a = b
<1>1. H * (a - b) < H /\ H * (b - a) < H
  BY SMTT(20)
<1>2. ASSUME NEW c \in Int, H * c < H PROVE c < 1
  <2>1. SUFFICES ASSUME c >= 1 PROVE FALSE
    BY SMT
  <2>2. H * c >= H * 1
    BY <2>1, SMTT(20)
  <2> QED BY <1>2, <2>2
<1>3. a - b < 1 /\ b - a < 1
  BY <1>1, <1>2
<1> QED BY <1>3

(* What is left of a number beyond a multiple of H is its remainder. *)
LEMMA RemainderIs ==
  ASSUME NEW H \in Nat \ {0}, NEW q \in Int, NEW r \in 0 .. H - 1
  PROVE  (H * q + r) % H = r
<1> DEFINE x == H * q + r
           s == x % H
<1>1. x \in Int
  BY SMTT(20)
<1>2. s \in 0 .. H - 1
  BY <1>1, Division
<1>3. PICK p \in Int : x = H * p + s
  BY <1>1, Division
<1> HIDE DEF s
<1>4. H * q \in Int /\ H * p \in Int
  BY SMTT(20)
<1>5. H * q - H * p < H /\ H * p - H * q < H
  BY <1>2, <1>3, <1>4
<1>6. p = q
  BY <1>5, NearMultiples
<1> QED BY <1>2, <1>3, <1>4, <1>6 DEF s

LEMMA RemainderOfSmall ==
  ASSUME NEW H \in Nat \ {0}, NEW i \in 0 .. H - 1
  PROVE  i % H = i
<1>1. H * 0 + i = i
  BY SMT
<1>2. (H * 0 + i) % H = i
  BY RemainderIs
<1> QED BY <1>1, <1>2

(* Keys whose numbers differ by less than the size of the ring are in      *)
(* different slots.                                                        *)
LEMMA RemaindersApart ==
  ASSUME NEW H \in Nat \ {0}, NEW x \in Int, NEW y \in Int,
         x % H = y % H, x - y < H, y - x < H
  PROVE  x = y
<1> DEFINE r == x % H
<1>1. r \in Int
  BY Division
<1>2. PICK q \in Int : x = H * q + r
  BY Division
<1>3. PICK p \in Int : y = H * p + r
  BY Division
<1> HIDE DEF r
<1>4. H * q \in Int /\ H * p \in Int
  BY SMTT(20)
<1>5. q = p
  BY <1>1, <1>2, <1>3, <1>4, NearMultiples
<1> QED BY <1>2, <1>3, <1>5

LEMMA RemainderOfSum ==
  ASSUME NEW H \in Nat \ {0}, NEW x \in Int, NEW i \in Int
  PROVE  ((x % H) + i) % H = (x + i) % H
<1> DEFINE r == x % H
           s == (r + i) % H
<1>1. r \in Int
  BY Division
<1>2. PICK q \in Int : x = H * q + r
  BY Division
<1>3. r + i \in Int
  BY <1>1
<1>4. s \in 0 .. H - 1
  BY <1>3, Division
<1>5. PICK p \in Int : r + i = H * p + s
  BY <1>3, Division
<1> HIDE DEF r, s
<1>6. H * q \in Int /\ H * p \in Int /\ q + p \in Int
  BY SMTT(20)
<1>7. H * (q + p) = H * q + H * p
  BY SMTT(20)
<1>8. x + i = H * (q + p) + s
  BY <1>1, <1>2, <1>4, <1>5, <1>6, <1>7
<1>9. (H * (q + p) + s) % H = s
  BY <1>4, <1>6, RemainderIs
<1> QED BY <1>8, <1>9 DEF s, r

LEMMA RemainderOneRoundBack ==
  ASSUME NEW H \in Nat \ {0}, NEW x \in Int
  PROVE  (x - H) % H = x % H
<1> DEFINE r == x % H
<1>1. r \in 0 .. H - 1
  BY Division
<1>2. PICK q \in Int : x = H * q + r
  BY Division
<1> HIDE DEF r
<1>3. H * q \in Int /\ q - 1 \in Int
  BY SMTT(20)
<1>4. H * (q - 1) = H * q - H
  BY SMTT(20)
<1>5. x - H = H * (q - 1) + r
  BY <1>1, <1>2, <1>3, <1>4
<1>6. (H * (q - 1) + r) % H = r
  BY <1>1, <1>3, RemainderIs
<1> QED BY <1>5, <1>6 DEF r

LEMMA InRing ==
  ASSUME NEW x \in Int
  PROVE  x % HistorySize \in Ring
<1>1. x % HistorySize \in 0 .. HistorySize - 1
  BY Division, HistorySizeAssumption, Zenon
<1> QED BY <1>1 DEF Ring

Slot == [1 .. KeySize -> Letters]
SlotOf(k) == (k - 1) % HistorySize

(* A slot holds the last key that was put there, and is blank before.      *)
HistoryInv ==
  /\ read \in Seq(Seq(Letters))
  /\ history_delta_index = Len(read)
  /\ history \in [Ring -> Slot]
  /\ \A k \in 1 .. Len(read) : k > Len(read) - HistorySize => history[SlotOf(k)] = Kept(read[k])
  /\ \A slot \in Ring : slot >= Len(read) => history[slot] = Blank

LEMMA KeptIsSlot ==
  ASSUME NEW key \in Seq(Letters)
  PROVE  Kept(key) \in Slot
<1>1. ASSUME NEW k \in 1 .. KeySize PROVE (IF k <= Len(key) THEN key[k] ELSE Nul) \in Letters
  <2>1. Len(key) \in Nat /\ \A j \in 1 .. Len(key) : key[j] \in Letters
    OBVIOUS
  <2>2. CASE k <= Len(key)
    <3>1. k \in 1 .. Len(key)
      BY <2>1, <2>2, KeySizeAssumption
    <3> QED BY <2>1, <2>2, <3>1
  <2>3. CASE ~(k <= Len(key))
    BY <2>3, LettersAssumption
  <2> QED BY <2>2, <2>3
<1> QED BY <1>1 DEF Kept, Slot

LEMMA BlankIsSlot == Blank \in Slot
BY LettersAssumption DEF Blank, Slot

(* A reference to any slot is a sequence of letters. *)
LEMMA ReferredIsText ==
  ASSUME HistoryInv, NEW index \in Ring, NEW bytes \in 0 .. KeySize - 1
  PROVE  Referred(index, bytes) \in Seq(Letters)
<1> DEFINE slot == (DeltaZero(history_delta_index) + index) % HistorySize
<1>1. DeltaZero(history_delta_index) \in Int
  <2>1. history_delta_index \in Int
    BY DEF HistoryInv
  <2>2. history_delta_index % HistorySize \in Int
    BY <2>1, Division, HistorySizeAssumption
  <2> QED BY <2>2 DEF DeltaZero
<1>0. index \in Int
  BY DEF Ring
<1>2. slot \in Ring
  <2>1. DeltaZero(history_delta_index) + index \in Int
    BY <1>0, <1>1
  <2> QED BY <2>1, InRing
<1>3. history[slot] \in Slot
  BY <1>2 DEF HistoryInv
<1> HIDE DEF slot
<1>4. history[slot] \in Seq(Letters) /\ Len(history[slot]) = KeySize
  BY <1>3, KeySizeAssumption DEF Slot
<1>5. SubSeq(history[slot], 1, bytes) \in Seq(Letters)
  BY <1>4, KeySizeAssumption
<1> QED BY <1>5 DEF Referred, slot

LEMMA ReadKeyKeeps ==
  ASSUME HistoryInv, NEW key \in Seq(Letters), ReadKey(key)
  PROVE  HistoryInv'
<1> DEFINE n == Len(read)
           here == n % HistorySize
<1>1. n \in Nat /\ history_delta_index = n
  BY DEF HistoryInv
<1>2. here \in Ring
  BY <1>1, InRing
<1>3. read' \in Seq(Seq(Letters)) /\ Len(read') = n + 1 /\ read'[n + 1] = key
      /\ \A k \in 1 .. n : read'[k] = read[k]
  BY DEF ReadKey, HistoryInv
<1>4. history_delta_index' = Len(read')
  BY <1>1, <1>3 DEF ReadKey
<1>5. history' = [history EXCEPT ![here] = Kept(key)]
  BY <1>1 DEF ReadKey
<1>6. history' \in [Ring -> Slot]
  BY <1>5, KeptIsSlot DEF HistoryInv
<1>7. ASSUME NEW k \in 1 .. Len(read'), k > Len(read') - HistorySize
      PROVE  history'[SlotOf(k)] = Kept(read'[k])
  <2>1. CASE k = n + 1
    <3>1. SlotOf(k) = here
      BY <1>1, <2>1 DEF SlotOf
    <3> QED BY <1>2, <1>3, <1>5, <2>1, <3>1 DEF HistoryInv
  <2>2. CASE k # n + 1
    <3>1. k \in 1 .. n /\ k > (n + 1) - HistorySize /\ k > n - HistorySize /\ k - 1 \in Int
      BY <1>1, <1>3, <1>7, <2>2, HistorySizeAssumption
    <3>2. SlotOf(k) # here
      <4> HIDE DEF n
      <4>1. n \in Int /\ n - (k - 1) < HistorySize /\ (k - 1) - n < HistorySize /\ k - 1 # n
        BY <1>1, <3>1, HistorySizeAssumption
      <4> QED BY <3>1, <4>1, RemaindersApart, HistorySizeAssumption, Zenon DEF SlotOf
    <3>3. SlotOf(k) \in Ring
      BY <3>1, Division, HistorySizeAssumption DEF SlotOf, Ring
    <3>4. history'[SlotOf(k)] = history[SlotOf(k)]
      BY <1>5, <3>2, <3>3 DEF HistoryInv
    <3> QED BY <1>3, <3>1, <3>4 DEF HistoryInv
  <2> QED BY <2>1, <2>2
<1>8. ASSUME NEW slot \in Ring, slot >= Len(read')
      PROVE  history'[slot] = Blank
  <2>1. n \in 0 .. HistorySize - 1 /\ slot > n /\ slot >= n
    BY <1>1, <1>3, <1>8, HistorySizeAssumption DEF Ring
  <2>2. here = n
    BY <2>1, RemainderOfSmall, HistorySizeAssumption
  <2>3. history'[slot] = history[slot]
    BY <1>1, <1>5, <2>1, <2>2 DEF HistoryInv
  <2> QED BY <1>1, <2>1, <2>3 DEF HistoryInv
<1> QED BY <1>3, <1>4, <1>6, <1>7, <1>8 DEF HistoryInv, SlotOf, Kept, Blank

LEMMA HistoryInitially ==
  ASSUME HistoryInit
  PROVE  HistoryInv
BY BlankIsSlot DEF HistoryInit, HistoryInv

LEMMA HistoryStep ==
  ASSUME HistoryInv, [HistoryNext]_historyVars
  PROVE  HistoryInv'
<1>1. CASE BeginKeys
  BY <1>1, BlankIsSlot DEF BeginKeys, HistoryInv, SlotOf, Kept, Blank
<1>2. CASE ReadPlain
  BY <1>2, ReadKeyKeeps, LettersAssumption DEF ReadPlain
<1>3. CASE ReadReferring
  <2>1. PICK index \in Ring, bytes \in 0 .. KeySize - 1, text \in Texts :
          ReadKey(Referred(index, bytes) \o text)
    BY <1>3 DEF ReadReferring
  <2>2. Referred(index, bytes) \in Seq(Letters)
    BY ReferredIsText
  <2>3. text \in Seq(Letters)
    BY LettersAssumption
  <2>4. Referred(index, bytes) \o text \in Seq(Letters)
    BY <2>2, <2>3
  <2> QED BY <2>1, <2>4, ReadKeyKeeps
<1>4. CASE UNCHANGED historyVars
  BY <1>4 DEF historyVars, HistoryInv, SlotOf, Kept, Blank
<1> QED BY <1>1, <1>2, <1>3, <1>4 DEF HistoryNext

(* What a reference counts from is where the window begins. *)
LEMMA WindowIsRing ==
  ASSUME HistoryInv, NEW index \in Ring
  PROVE  history[(DeltaZero(history_delta_index) + index) % HistorySize] = Window(index)
<1> DEFINE n == Len(read)
<1>1. n \in Nat /\ history_delta_index = n /\ index \in 0 .. HistorySize - 1
  BY DEF HistoryInv, Ring
<1>2. CASE n > HistorySize
  <2> DEFINE k == ((n + index) - HistorySize) + 1
  <2>1. k \in 1 .. n /\ k > n - HistorySize
    BY <1>1, <1>2, HistorySizeAssumption
  <2> HIDE DEF n
  <2>0. n \in Int /\ index \in Int /\ n + index \in Int
    BY <1>1
  <2>2. ((n % HistorySize) + index) % HistorySize = (n + index) % HistorySize
    BY <2>0, RemainderOfSum, HistorySizeAssumption, Zenon
  <2>3. ((n + index) - HistorySize) % HistorySize = (n + index) % HistorySize
    BY <2>0, RemainderOneRoundBack, HistorySizeAssumption, Zenon
  <2>4. k - 1 = (n + index) - HistorySize
    BY <1>1, HistorySizeAssumption
  <2> USE DEF n
  <2>5. SlotOf(k) = (DeltaZero(history_delta_index) + index) % HistorySize
    BY <1>1, <1>2, <2>2, <2>3, <2>4 DEF SlotOf, DeltaZero
  <2>6. Window(index) = Kept(read[k])
    <3>1. (n - HistorySize) + index + 1 = k /\ k <= n
      BY <1>1, <2>1, HistorySizeAssumption
    <3>2. Window(index) = Kept(read[(n - HistorySize) + index + 1])
      BY <1>2, <3>1 DEF Window
    <3> QED BY <3>1, <3>2
  <2> QED BY <2>1, <2>5, <2>6 DEF HistoryInv
<1>3. CASE ~(n > HistorySize)
  <2>1. (DeltaZero(history_delta_index) + index) % HistorySize = index
    BY <1>1, <1>3, RemainderOfSmall, HistorySizeAssumption DEF DeltaZero
  <2>2. CASE index + 1 <= n
    <3>1. index + 1 \in 1 .. n /\ index + 1 > n - HistorySize /\ (index + 1) - 1 = index
      BY <1>1, <1>3, <2>2, HistorySizeAssumption
    <3>2. SlotOf(index + 1) = index
      BY <1>1, <3>1, RemainderOfSmall, HistorySizeAssumption DEF SlotOf
    <3>3. Window(index) = Kept(read[index + 1])
      BY <1>1, <1>3, <2>2 DEF Window
    <3> QED BY <2>1, <3>1, <3>2, <3>3 DEF HistoryInv
  <2>3. CASE ~(index + 1 <= n)
    <3>1. Window(index) = Kept(<<>>)
      BY <1>1, <1>3, <2>3 DEF Window
    <3>2. Kept(<<>>) = Blank
      BY KeySizeAssumption DEF Kept, Blank
    <3>3. history[index] = Blank
      BY <1>1, <2>3 DEF HistoryInv, Ring
    <3> QED BY <2>1, <3>1, <3>2, <3>3
  <2> QED BY <2>2, <2>3
<1> QED BY <1>2, <1>3

(* A reference finds the key the recorder meant, for every size of the     *)
(* ring and however often it has wrapped (StringTable::parse_update).      *)
THEOREM ReferencesCorrect == HistorySpec => []ReferencesAreWindow
<1>1. HistoryInit => HistoryInv
  BY HistoryInitially
<1>2. HistoryInv /\ [HistoryNext]_historyVars => HistoryInv'
  BY HistoryStep
<1>3. HistoryInv => ReferencesAreWindow
  BY WindowIsRing DEF ReferencesAreWindow, Referred
<1> QED BY <1>1, <1>2, <1>3, PTL DEF HistorySpec
=============================================================================
