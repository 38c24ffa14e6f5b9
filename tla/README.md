# A TLA+ model of pbdems2

pbdems2 reads Source 2 demo files: it frames commands, keeps the parser state
(string tables, class and serializer tables, entities) that a game adapter feeds
it, and calls the consumer back once per tick. This directory models the parts
of it whose correctness depends on a *history* of calls, checks them with TLC on
small instances and proves the most important results with TLAPS for instances
of every size. Paths below are relative to the repository (`src/` is the main
crate).

## 1. Inventory

| Component | State it keeps | Operations | What makes it correct |
|---|---|---|---|
| Playback driver (`src/playback.rs`) | parser state, cursor, last tick | sign-on, replay to the end or to a tick, tick callbacks, seek, segment | a tick is reported once, complete, with its own changes and no others |
| Prepared playback (`src/playback/prepared.rs`) | sign-on seed, index, checkpoints | session, checkpoint, resume, segment plan | a resumed chain is one straight run; sessions do not leak into each other |
| Command stream and index (`src/demo/stream.rs`, `src/demo.rs`) | byte cursor, index | open, frame, read or skip a body, decompress it, iterate from any offset, index | commands and bodies are those that were recorded; an error comes where the file is damaged and ends the iteration; the index predicts what replay does |
| Packet message iterator (`src/packet.rs`) | bit cursor, failed flag | next message | messages and payloads are those that were recorded; a packet cut short is noticed |
| Entity container (`src/entity/entities.rs`) | dense slots, count, skipped classes, two journals | decode a message, filtered decode, insert, reserve, clear | the count is exact; the journals explain the slots; a filtered container is the restriction of a full one |
| Baseline cache and serializer bindings (`entities.rs`, `serializer_bindings.rs`) | decoded baselines, class-to-serializer bindings | look up, refresh, clone | a hit is never stale |
| String tables (`src/entity/string_tables.rs`) | tables, dirty and change lists, baselines, revision | create, update, snapshot, refresh, clear | the lists cover every write; baselines follow the table; bytes never change under one revision |
| Field paths (`src/entity/field_path.rs`) | running path | some forty Huffman-coded operations, pack, unpack | components stay in bounds; one field has one key |
| Entity fields (`entities.rs`, `properties.rs`) | map from packed path to value | apply or skip an update, project | a projected session holds the restriction of a full one; no field outlives its container |
| Class and serializer tables (`class_info.rs`, `serializers.rs`) | classes by id, field trees | parse a message field by field, install, resolve a name or a path, print a path | a field leads to the serializer it names; names and keys find each other; every id has its class |
| Property filters (`properties.rs`) | keys to keep, identity of the table they were compiled against | compile, attach, validate, retain | a filter never decides for a table it was not compiled against; what it keeps are the subtrees that were asked for |
| Field decoders, quantized floats, bit reader, byte reader, limits | cursor | decode, skip | skip and decode consume the same bits |
| Adapter (external) | game state | turns protobuf messages into calls on the parser state | - |
| Command-line tool (`crates/pbdems2-cli`) | report | inspect a file in two passes | its report accounts for the whole file, and its passes agree |
| Benchmarks (`crates/pbdems2-bench`) | - | write synthetic recordings, measure | the recordings are what the readers are held against |
| mmap, coordinates, errors | - | I/O, arithmetic, printing | - |

How they interact: the driver hands every command to the adapter, the adapter
calls back into `CommandContext` (`install_*`, `create/update_string_table`,
`apply_full_string_tables`, `apply_packet_entities`), and those calls mutate the
parser state. Entity decoding reads the class, serializer and string tables and
keeps two caches derived from them. The consumer reads the state only inside a
tick callback and relies on the change lists, which the driver clears after it.
Sessions and checkpoints are clones that share tables through `Arc`.

The program is sequential; sessions on different threads share nothing mutable.
Its hard behaviours are therefore not races but **order and history**: records
appearing in the callback of their tick, lists cleared at the right moment,
errors that leave a message half applied, slots reused, caches compared by
address, seeks and resumed replays. `PROJECT.json` lists these hazards with the
line where each bites.

## 2. Modules

| Module | Models | Composed from |
|---|---|---|
| `EntityContainer` | the entity store and its journals | |
| `FilteredDecode` | one stream read by a full and by a filtered container | two instances of `EntityContainer` |
| `DemoIndex` | the header index and the segment plan | |
| `TickFeed` | what a consumer of a replay is promised (abstract) | |
| `Playback` | sign-on, replay, seek, segments, checkpoints | extends `DemoIndex`, implements `TickFeed` |
| `SchemaCaches` | baseline cache and bindings over cloned sessions | |
| `StringTables` | string tables, their lists, instance baselines | |
| `KeyHistory` | the ring of earlier keys that the keys of a string table message refer to | |
| `FieldPaths` | paths, packed keys, the steps of a path | |
| `FieldPathReader` | the reader that turns operations into paths | extends `FieldPaths` |
| `FieldUpdates` | the field map of an entity, with and without a property filter | extends `FieldPaths` |
| `BitReader` | the bit cursor and the encodings of variable length | |
| `FieldOpCode` | the Huffman code of the path operations and its prefix table | extends `BitReader` |
| `FieldDecoders` | a reader that decodes fields beside one that skips them | extends `FieldOpCode` |
| `ByteReader` | the byte cursor of the file | extends `BitReader` for the numbers |
| `CommandFrames` | file header, command headers and bodies, `CommandIter`, `DemoIndex` | extends `ByteReader` |
| `PacketFrames` | `PacketMessageIter` | extends `BitReader` |
| `Recording` | the writer of demo files | extends `CommandFrames` |
| `DemoReading` | a client that opens, indexes, inspects or iterates a file | extends `Recording`, `PacketFrames`; instances `DemoIndex` |
| `FieldTypes` | type declarations, and the metadata and decoder they lead to | |
| `Serializers` | fields as they are built from a message | extends `FieldTypes` |
| `SerializerTable` | a message parsed field by field, and the table that is installed | extends `Serializers` |
| `FieldNames` | fields resolved by name and by path, and named by key | extends `Serializers`, `FieldPaths` |
| `FieldCatalogue` | the search by name against a list of all the fields of a tree | extends `Schema` |
| `ClassTable` | network classes by id and by name, and the table that is installed | |
| `PropertyFilters` | compilation of a filter and what it keeps | extends `FieldNames` |
| `Schema` | what a playback installs, and the filters compiled against it | extends `PropertyFilters`, `SerializerTable`, `ClassTable` |
| `MC...` | TLC instances: constants, views, symmetry | the module after the prefix |
| `...Proofs` | theorems | the module before the suffix |

A definition named `Mutant...` is a plausible bug in the definition below it. No
other definition uses it; substituting it must break the property it is paired
with in `PROJECT.json`, which shows that the property depends on the code.

### EntityContainer
One `handle_packet_entities` message is `BeginPacket` and one step per delta in
increasing slot order. Every path of the loop is an action: `CreateTracked` and
`CreateSkipped` (`handle_create`), `UpdateTracked`, `UpdateIgnored`,
`FailUpdate` (`handle_update`, `handle_update_filtered`, and its failure after
`active` was set), `Leave`, `LeaveDelete`, `RejectDelta` (every error that
stores nothing). `Insert`, `ReserveSlots` and the three clears are the caller's.
Field maps are opaque values. History variables: `base`, the slots when the
lifecycle journal was last cleared, and `silent`, the slots the code changes
without a record (a failed update, a shrink, an inserted dormant entity).
`LogExplainsState` would be false without `silent`: it names exactly the places
where the journal does not tell the whole story.

### FilteredDecode
`Full` and `Mine` are two containers that share the message header, so each
delta is a step of both. Until `EndSignon` both decode everything, as
`initialize` does; then `Mine` gets the caller's filter. An entity carries the id
and the name of its class. Deltas of a stored entity are read by the name, deltas
of a skipped one by the remembered id through the class table of the moment, which
`InstallClassInfo` may replace between two messages; `ReadsPast` says when the two
agree. `renamed` remembers that a table gave the id of a living entity another
name (a table that drops the id ends the same way, with an error for a misread
delta). Nothing in the code prevents or notices it; `astray` is set when a delta is
then misread, and the run stops there, since what a decoder does in the middle of
the wrong bits is not modelled. `SkipSetExact` says that there is no other way to
get there.

### DemoIndex and Playback
A demo is a sequence of command headers; the offset of command *k* is *k*. The
parser state is a function of the commands applied to it, so a session *is* the
sequence `applied`; `changed` and `updated` hold the commands whose records are
still in the change lists. `Callback` captures what a consumer sees.
`SegmentReplayEndTick` saturates as the code does. A STOP, a negative tick, an
exhausted file, and a failure at any point are all explored.

`TickFeed` is the promise without the loop: a feed of completed ticks that is
told in order, of which a checkpoint keeps a part. `TellsTheFeed` is the
refinement, with `feed` mapped to the ticks the headers of the demo describe and
`told` to the callbacks of non-negative ticks. `CallbacksAreTicks` and
`ResumeIsStraightThrough` say in addition that nothing is missing when a replay
returns.

### SchemaCaches
A token is the address of an `Arc<()>`. A new `Arc` gets any address that no
live `Arc` holds, so recycling is explored: with a cache that compared addresses
without holding them (`MutantHeldRevisionTokens`) TLC finds the stale hit. Each
session is a parser state; `Clone` and `CloneProjected` overwrite one with a
copy of another, dropping the decoded baselines as `BaselineCache::clone` does.

### StringTables
Messages are Begin, one step per entry, End, with a failure possible between any
two. `failed` remembers that an update or a snapshot stopped half-way and no
refresh has followed; `base` is a consumer's copy at the last `clear_dirty`.

### KeyHistory
`ReadReferring` copies a part of an earlier key out of the ring and appends the
letters that follow; `ReadKey` overwrites the oldest slot. `read` remembers the
keys themselves, so that `ReferencesAreWindow` can say what the recorder meant: a
window that slides over the last keys, of which each slot keeps the first letters
and nothing of a key that was there before.

### FieldPaths, FieldPathReader, FieldUpdates
The masks and shifts of a 64-bit key become a limit and a weight per depth, so
the key arithmetic can be checked at three levels with two or three components
each. `Operation` is the shape all operations share (pop, increment, push, then
the checks of the read loop); each family of operations is an action over its
operands. `FieldUpdates` steps two field maps through one stream, one iteration
of the loop of `apply_update` at a time; since a delta may fail at any field and
keep what it stored, every prefix of a delta is covered. It indexes the maps by
path: that a key stands for one path and that masks select what lies below it is
what `KeysAreAddresses` establishes. The projected map is filtered from the start, as that of
an entity created in a projected session, or from `ProjectProperties` on, as that
of an entity of the sign-on. `orderly` remembers
whether the stream ever wrote below a missing pointer or past the end of an
array; for such a stream orphans are its own doing.

### BitReader, FieldOpCode, FieldDecoders
A read is where it leaves the cursor, or `Failed`; numbers are computed only
where a length, an index or `ReadsAreBits` needs them. The widths of the code (8
bits to a byte, 8 bytes to a word, 20 bits to an angle, ...) are constants, so
that buffers of a few bits reach every branch: a read that straddles the word, a
table look-up too close to the end, a string as long as its limit. Loops over
bytes become the first byte that ends them: `LastBytes`, `Terminators`. The tree
of `FieldOpCode` is built from the weights as the code builds it. `ReadField` has
one cursor decode a field and the other skip it; the serializer, the paths and
the values are left out, so every sequence of decoders is covered. The width of an
angle is whatever the demo announces: `oversize` remembers that one was wider than
a read may be. Such a field fails to decode and is skipped all the same, the one
place where the two readers part; `SkipAgrees` says it is the only one. (A width
below zero, which the code would take for a huge one, is not modelled.)

### ByteReader, CommandFrames, PacketFrames, Recording, DemoReading
A file is a sequence of bytes. `Recording` writes it as the benchmarks'
`push_command` and `packet_messages` do, the file is cut after any byte, and the
reading modules know nothing of what was recorded. `NextCommand` and
`NextMessage` are the two iterators with their `failed` flags; each returns the
item and the iterator as it is afterwards. `DecodedBody` decodes into a buffer
that keeps what the last body left; Snappy is replaced by a stored length that
may lie and the bytes as they are. `DemoReading` is the loop around them: the
index pass, the inspection of the command-line tool (a pass over the index
followed by a pass of its own), and a consumer that starts at any offset the
library handed out and that may or may not go on after an error.
`IndexMatchesHeaders` ties the byte-level index to the operators of `DemoIndex`,
so the index the playback runs assume is the one these bytes give.

Two facts of the code are written into the properties because they are not
mistakes but limits. A packet whose rest is a byte or less ends without an error,
whatever that rest is (`PacketMessageIter::next` stops at eight bits). An error
of a header leaves the iterator finished, so a tolerant loop ends there.

### FieldTypes, Serializers, SerializerTable, FieldNames, ClassTable, PropertyFilters, Schema, FieldCatalogue
A type declaration is the sequence of its tokens, a name the sequence of its
parts; `ParseType` is the recursive descent of `FieldType::parse`, with its errors
for unbalanced brackets. `MetadataFor` and the operators below it are the
cascades that choose a field's model (pointer, fixed or dynamic array, table) and
its decoder from the type, the encoder and the game's profile. A serializer is
the sequence of its fields, and a field carries what it leads to as the code's
`Arc` does: what was in the map when the field was built, not what is there
later. `SerializerTable` builds a message one field at a time with the cache of fields
shared between definitions; `Schema` installs it under an identity that no live table
or filter has; a filter keeps the identity it was compiled against and is checked
where the code checks it (`validate` in `handle_packet_entities`,
`install_serializers` and `project_properties`), and not in `with_properties`,
which does not. `SerializerTable` and `ClassTable` say by themselves how
the two tables change (`TableSpec`, `ClassesSpec`): the actions of `Schema` that touch
a table are theirs.

The code searches a tree by name recursively, and gives up below the deepest
component of a key. `ResolveFieldKey` is therefore a function over the depths: at
each it answers every search that can come about there, of a serializer that many
steps below (`SerializersFrom`) for a tail of the name (`Tails`), from what it
answers one step down (a field of a serializer below) and two (an element of an
array). `SelectionsAreSubtrees` compares what a filter keeps with the paths that begin
with one asked for, over every path that leads to a field of the class (`LeadsTo`,
by the walk of the decoder), so it needs no list of the fields. Nor does the first
part of `NamesFindFields`, `NamesFindNoOther`: whatever a search by name finds is a
path that leads to a field, and the name falls into pieces that spell its steps
(`Spells`). The other parts, that a field is found by its name and named by its key,
are about all fields: `FieldCatalogue` lists them with their names, recursively and
for TLC only.

That a name finds its field holds of the fields whose path has a key at every
serializer on the way. A search by name packs the rest of a path first, starting at depth 0, and
shifts it one level per step. Depth 0 holds up to 2047 and depth 1 up to 4095, so an
element 2048..4095 of an array at the first level has a key and a name, but its
name does not find it. The documentation of the search (`serializers.rs:230`)
speaks only of names that do not fit in seven levels. An array that long is out
of the reach of the small instance, whose middle level has one component more
than the first and shows the same.

## 3. What the runs show

| Run | Question | Result |
|---|---|---|
| `entity_container` | are the count and the slot bounds exact, do the two journals, cleared apart, tell the same, and does the lifecycle journal explain, as legal lives, how the slots came to be? | holds |
| `filtered_decode` | is a filtered container the restriction of the full one, does it know the class of all it skips, and does it lose its place only if a class table renames the id of a living entity? | holds |
| `filtered_signon` | does a filtered playback hold selected classes only? | violated: sign-on entities stay (see findings) |
| `playback` | which ticks are reported by runs, seeks and segments, does the index predict them, and does a chain of checkpoints deliver what a straight run does? does every step implement `TickFeed`? | holds |
| `playback_gaps` | does a segment plan decode every command? | violated: same-tick commands before a boundary keyframe |
| `schema_caches` | can an address comparison accept a stale decode? | no |
| `string_tables` | do baselines follow the table and revisions the bytes, do the dirty and change lists tell every write, and does a reference to an earlier key find it however often the ring has wrapped? | holds |
| `string_snapshot` | is every recorded change a write? | violated: snapshot entries without data |
| `schema` | do stored paths fit their keys, do keys name and nest as paths do, do names, keys and fields find each other, is every field linked to the serializer it names, does a filter keep the subtrees asked for and never judge another table, does every class have its id? | holds |
| `field_updates` | is a projected field map the restriction of the full one, and is nothing left past an end? | holds |
| `field_decoders` | does skipping end where decoding does, do assembled reads give the bits at the cursor, and does the prefix table agree with the tree? | holds |
| `demo_reading` | are commands, bodies and messages read as they were recorded, from any offset and whatever the cut, is damage noticed where it is, does the index say what the headers do, do the passes of the inspection agree, does every loop end? | holds |

The three violated runs are disagreements between the code and its
documentation, quoted under `findings` in `PROJECT.json`; none breaks decoding.

**Bounds, and why they suffice.** Entities: two slots (growth past a gap, a
shrink over an entity, two orders to compare), one serial and two classes (reuse
of a slot, change of identity), three records in a journal; since the invariants
relate a slot only to its newest record and a record only to the one before it,
three reach every pair that occurs. The filter: two slots, two class ids, two
names of which one is selected, and every table from the ids to the names. Playback: every
stream of up to four commands over three or four ticks after three sign-on
commands, plus demos cut short, without SYNC, with two, or with STOP first; two
keyframes and three segments fit. Checkpoint chains: three. Caches: two sessions,
and enough addresses that one is always free to be recycled; one decode context,
since the proof covers the rest. String tables: one table in the TLC run, since
symmetric tables multiply the states and the proofs cover any number; two
entries, two spellings of one class id. Key
history: a ring of two slots of two letters, and five keys, so that it wraps
twice, and a key longer than its slot. Field paths: three levels, two or three components
each, operands 0 and 1, three paths: an inner level, the deepest one and a parent
two levels up all occur. Field updates: an array of composites, and a pointer to
a scalar and to an array; one element of the array and the scalar are selected.
Field decoders: bytes of two bits and words of three bytes, so that a word can be
straddled inside a buffer of five bytes; all such buffers, every cursor in them,
every decoder; and angles of seven bits, one more than a word, with a few buffers
that hold two of them. Framing: bytes of two bits, so that a message begins at either bit
of a byte, and header numbers of four bits, so that varints of one to four bytes
and negative ticks occur; every recording of three bare commands over three
ticks, and every packet of up to two messages with payloads of up to three bytes,
cut by 0 to 3 bytes, compressed or not, before and behind another command; each
file cut after every byte. Schema: 31 messages of one to four definitions over
ten fields that between them use every model, redefinitions, a use before its
definition, bad symbols and every limit; three filters, four identities, seven
class lists; twelve queries that name fields, elements, spellings of a number and
nothing. Keys of three levels, of which the middle one is the widest, as depth 1
is in the code. `MaxLog`, `MaxChain`, `MaxTables` and `MaxRead` bound only the model; the
other bounds are limits of the code.

Two runs check two components that share no state: `MCSchema` explores the path
reader with the schema at rest and the schema with the reader at rest, and
`MCStringTables` does the same with the tables and the key history. The states
in which both have moved are combinations that no property of either reads. The
constraint `Explored` of `MCSchema` drops, likewise, class tables beside
serializers, and a second message other than `Replacement` behind the first.

The `VIEW` of `filtered_decode` and `filtered_signon` drops
variables that their properties do not read and no guard depends on beyond a
bound; symmetry is used only for addresses, class
ids and other values that are compared for equality alone. `demo_reading`, the one run that
checks liveness, uses neither; the others check safety, for which both are sound.
Deadlock is not checked where the system really stops: a playback that is done
or failed, a file that is read or rejected, and lists that have reached their
model bound.

**Fairness.** `DemoReading` assumes `WF_vars(Step)`: a `for` loop over an
iterator, once entered, runs on, since the code between two calls of `next` does
not block. Whether a client begins another pass (`Inspect`, `Read`) is its own
choice and has no fairness. Under it `LoopsEnd` says that every loop ends, which
needs the iterators to fuse after an error: a tolerant client would otherwise ask
for the same damaged command for ever. Elsewhere no fairness is assumed and no
liveness claimed: whether the next command or delta is ever read is the
caller's choice, and every loop is bounded by the length of its input.

## 4. What is proved

All theorems hold for every value of the constants allowed by the `ASSUME`s of
the modules, which say only that bounds and widths are numbers that fit each other as
the code's do (a byte is no wider than a word), that messages and lists are sequences, that `Option::None` values are not ordinary ones, that another
address is available when one is needed, and that a single read is not wider than
the reader allows.

* `EntityContainerProofs` - `TypeCorrect`, `CountCorrect`, `JournalExplainsStore`,
  `JournalWellFormed`, `JournalsAlwaysAgree`. The invariant for the count adds
  finiteness of the slots and that no tracked slot lies past `slot_count`;
  counting uses the library's facts on adding to and removing from a finite set.
  `LogWellFormed` needs `LogExplainsState`: whether a new record may follow the last
  one of its slot depends on what that record says about the slot now.
  `JournalsAgree` compares the touches of the two lists by number, so that it is
  enough that a step adds the same touch to both or none to either.
  The same module proves `CachesTypeCorrect`, `BaselineHitsAreFresh` and
  `BindingsNeverStale` of `SchemaCaches`. The strengthening says that an address
  determines its content among all sessions and all cache entries that hold it; a new
  address keeps this because it is one that nobody holds.
* `FilteredDecodeProofs` - `FilteredDecodeAgrees`, `SkippedClassesKnown`,
  `FilteredJournalProjects`, by one inductive invariant relating the slots of both
  containers and the skip set: a slot holds the same in both, or the full container
  has an entity there whose class is outside the filter and is remembered as skipped. A second
  invariant says that the class table and the stored names agree until `renamed` is
  set; with the first, a skipped delta is read with the right serializer until then.
  The journals follow: by the agreement of the slots, a step records a selected
  class in both containers or in neither.
* `PlaybackProofs` - `CallbacksAreTicksHolds`, `ResumeIsStraightThroughHolds`,
  `SignonLeaksOnceHolds`, `SignonAgreesWithIndexHolds`, `SeekIsStraightSuffixHolds`,
  `IndexPredictsTicksHolds`, `SegmentsVisitTicksOnceHolds`, and `TellsTheFeedHolds`,
  the refinement of `TickFeed`.
  What a demo tells is defined on its headers alone; the invariant `IInv` says how
  far the loop has told it. With a tick in progress, what was told is the feed up to
  that tick, and the change lists hold exactly the commands read of it; at rest, and
  in every checkpoint, what was told is the feed up to a position that splits no
  tick (`Uncut`), and what was applied is the sign-on and the commands up to there.
  That a checkpoint never splits a tick is what a chain needs: the session that
  resumes it begins with empty change lists and no previous tick, and would
  otherwise close the tick twice. The refinement needs in addition that what is told
  is always a beginning of the feed. `SeekInv` bounds what a seek has read by its
  target, `RunInv` says that a run only stops at a STOP or at the end. Ticks and
  commands are listed by rank: `InOrder(S)[i]` is the element of `S` with `i - 1`
  elements below it, so that reading one more command adds one element behind the
  others, which follows from the cardinality of finite sets and needs no induction
  over sequences. The theorems about the index, the seek and the segments are about
  demos whose ticks do not descend (`TicksAscend`), as their properties say. For the
  segments, `SegmentInv` says that the segments decoded so far have told the ticks
  that a single run tells before the keyframe the next segment begins with; a lemma on
  quotients says that the keyframes a plan is cut at strictly ascend, whatever the
  budget. Two extremes of `i32` matter: a segment that ends at the greatest tick ends
  with the demo, so no inner boundary may lie there (`EndsBelowMax`), and one
  that ends at the least tick tells nothing, as the run before its keyframe does.
* `StringTablesProofs` - `StringTablesTypeCorrect`, `DirtyListsAreComplete`,
  `ChangesTellTheTable`, `BaselinesAreCurrent`, `RevisionsAreHonest`. For the two lists
  the invariant covers the table under construction as well. `Replayed` is recursive:
  the invariant carries the intermediate tables of a replay (`Replays`), so that a
  write adds one to them, and only that they are unique takes an induction. For the
  baselines the invariant says that only a message that may write a baseline table can
  be ahead of them. That a refresh with `Changed` false changes nothing is what makes the revision honest.
  The same module proves `ReferencesCorrect` of `KeyHistory`: the invariant says
  which slot holds which of the last keys, and a few lemmas on remainders say that
  keys less than a ring apart are in different slots and that counting from the
  oldest slot is counting from the start of the window.
* `SchemaProofs` - `PathTypesCorrect`, `StoredPathsCanonical`,
  `KeysAreAddressesHolds`, `ClassesReadableHolds`, `SchemaLinkedHolds`,
  `SelectionsAreSubtreesHolds`, `NamesFindNoOtherHolds`.
  Every step of an operation keeps the running path in bounds at every depth and
  zero beyond its last, except for the root of -1 before the first increment; the last
  check of an operation excludes that, so what is stored is canonical. Of such a path, what
  the components above a depth add to its key (`Low`) stays below the weight of that
  depth, and the rest of the key is a multiple of the weight: division and remainder
  take the key apart where `Pack` put it together. The induction over the depths is on
  the set of depths at which a fact holds (`Stepwise`), and the same principle shows
  that the recursive functions `Weight` and `Pack` define what they say (`Recursion`).
  `ClassesReadableHolds` is about `ClassTable`: the powers of two outgrow the
  numbers, again by `Stepwise`, so some width holds the greatest id of a list, and
  the least such width holds every id; that no id and no name comes twice in a list that
  is accepted makes each `CHOOSE` find the entry itself. `SchemaLinkedHolds` is about
  `SerializerTable`: while a message is built, every field in the cache, in the
  definition at hand and in the map leads where the map says, and a serializer that
  the map lacks is one the message never defines (`Settled`). In a message that
  defines each name once and before its use a field is therefore built when what it
  leads to is complete and will not be replaced, whoever lists it first. That a
  field says what the message says of it (`Faithful`) holds of every message.
  `SelectionsAreSubtreesHolds` is about `Schema` as a whole. Its invariant `FiltersInv`
  says that a filter with the identity of the installed serializers was compiled against
  them, and that entities are only decoded under such a filter: a new table gets an
  identity that no filter has, and nothing is installed between the check and the end of
  the packet. The rest is about one filter and one table. A search by name answers with
  the key of a path that it spells or not at all (`SearchAnswers`, from the deepest level
  up), whatever the tree; a masked key equals a selected one when the components agree down to its
  depth (`PrefixesAgree`), that is when the path begins with the selected one
  (`PrefixOfIs`); and a path that goes on below a selected field shows that the field has
  something below it, so the filter holds its mask (`SelectedIs`). The one assumption is
  that the names asked for are sequences.
  `NamesFindNoOtherHolds` needs to know where a search can be: the invariant `TreesInv`
  says that the fields of the table, of the table being built and of its cache are tidy:
  what is below one is again a list of such fields, and an element of a dynamic array is
  no dynamic array itself (`BuiltIsTidy`, `WithFieldGrows`). A path
  found from a field on is the field's place before the path found below it
  (`FieldBelowFound`, `ElementFound`, `ElementBelowFound`), and `FindsBelow` says that
  what leads on and is spelled below leads on and is spelled from above, step by step.
  Joining two keys repacks the components at other depths, and `JoinedIs` that it keeps
  them all or gives up: that is why no other field can be found.
* `BitReaderProofs` - the lemmas on bits, bytes and digits that the next two modules
  rest on. A buffer is taken as a sequence of bits without end, for there are zeros
  behind it. What *n* bits say (`Value`) splits anywhere (`ValueSplits`), so that
  dividing by a power of two drops the first bits and a remainder keeps them
  (`ValueDivides`, `ValueCut`). A byte is the value of its bits, a row of bytes that of
  theirs (`BytesAreBits`, `ValuesGroup`), and `Window`, `Peek`, `PeekU8`, `PeekBytes`
  and `Number` each cut a value out of such a row; `OperandsAgree` compares the operand
  looked up in one word with the one read bit by bit. `DigitsRoundTrip` says that the
  digits of a number, cut to any number of them, make the number again. The inductions
  are again on the set of depths at which a fact holds.
* `FieldDecodersProofs` - `TypeCorrect`, `SkipIsDecode`, `ReadersGiveTheBits`,
  `CodesReadAlike`, `MapsTypeCorrect`, `ProjectionCorrect`, `OrphansRemoved`. Every part of a field is
  skipped to where it is read to and stays in the buffer, one lemma per part;
  the rest is that skipping *m* and then *n* bits is skipping *m + n*, also when
  they do not fit. An angle that is too wide is a case of its own: it ends the
  reader that decodes. That a byte loop ends at a byte of the buffer needs the least
  element of a set of numbers, which follows from the well-founded inclusion of
  finite sets: of the intervals that end in the set, take a smallest.
  `ReadersGiveTheBits` follows from `BitReaderProofs`, since a cursor never leaves the
  buffer. It assumes what the code's numbers satisfy: a byte has a bit and no more bits
  than a word, and the longest operand of a path fits one look at a word.
  `CodesReadAlike` is about the tree built from the weights: a heap loses one node
  with every merge and its nodes keep different numbers (`HeapOk`), so there is always a first
  one (`FirstIn`) and the last heap holds the root. A merge makes the tree one bit deeper
  at most (`HeapsWithin`), so as many bits as there are merges reach a leaf
  (`LeafReached`). Bits that go on behind a leaf spell the same operation
  (`SpelledAlike`), and the bits a table entry was made from are the bits of the buffer
  (`BitOfWord`): what the table has is what the walk finds, whichever of the two sees
  more bits. Two weights or more and a table no wider than a word are all it assumes.
  The same module proves `MapsTypeCorrect`, `ProjectionCorrect` and `OrphansRemoved` of
  `FieldUpdates`. The projection needs that a field that changes the shape of the map is always
  retained, so the two maps are cut alike; that nothing is left past an end needs
  the array's old length to be typed as a length, which is why types come first.
* `DemoReadingProofs` - `ReadAsWritten`, `IndexedAsWritten`, `InspectedAsWritten`,
  `MessagesReadAsWritten`: whatever can be recorded and wherever the file is cut. The digits of a number compose
  to the number again (`DigitsRoundTrip`), so a varint reads back whole or, where it is cut, as an error;
  hence a header does, and a call of `next` at the start of a command gives that
  command, fails at it, or meets the end of the file (`CallReads`). The invariant
  `ReadsInOrder` says that the file is laid out as written (`LaidOut`), that every offset
  a client can hold is the start of a command, and that the iterator stands where its
  count says. On top of it the two passes are followed command by command: the index
  built so far is the index of a prefix (`IndexBuilt`), the report that of a prefix
  (`Inspected`), and the pass stops exactly where the headers say. The offsets, ticks and
  full packets of an index are listed in the order of the commands, again by rank.
  For the messages the buffer is taken as bits: bits of a number at the cursor are read
  as that number (`NumberRead`), so the type, the size and the payload of a message are
  read as sent, or fail where the packet is cut (`MessageRead`), and a payload is the
  same borrowed or copied (`PayloadIs`). A body that is not refused is the one recorded
  (`BodyRead`), and in it the messages lie one behind the other, with less than a byte of
  filling behind the last (`BodyIs`); the invariant `MessagesInOrder` says that the
  iterator stands behind as many of them as it has counted. The
  assumptions say that the widths fit each other (a varint holds a u32, an offset of the
  header a word, a u32 the longest `ubitvar`), that commands have different numbers, and that a recording is one a
  writer can make: lengths of 32 bits, offsets the header can hold, a cut no longer than
  the packet it cuts. `MCDemoReading` checks them on its recordings.

Only model-checked: that each field is found by its name and named by its key, the
parts of `NamesFindFields` beside `NamesFindNoOther`, which are about the list of
all fields of a tree, a recursion over the tree and a RECURSIVE operator of
`FieldCatalogue` that the prover cannot use; and `LoopsEnd`, liveness under fairness,
out of the prover's reach as well.

## 5. Not modelled, and the plan

Left out for good: memory mapping, argument parsing and printing, measurement,
error wording, coordinates and the other floating-point values of fields, Snappy
(replaced by stored bytes and a length that may lie), protobuf.

Next, in this order:

1. A keyframe that does not restate a class (`playback.rs:492`), and what it
   costs a seek; the documentation names the limit and leaves it to the game.
2. Iteration over the fields of a serializer, the parameters of quantized floats.
3. A proof that the search by name finds the first field it spells, and not only that what
   it finds is spelled: it needs the list of the fields of a tree as a function over the
   depths, as the search is.
