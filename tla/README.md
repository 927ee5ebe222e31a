# Verification of SHAD

SHAD is a C++ library of distributed data structures and STL-like algorithms.
A program runs on several *localities* (nodes); each locality runs many *tasks*;
a data structure has one instance on every locality. The code is in
`src/include/shad/`; paths below are relative to it.

This directory holds TLA+ models of the library's concurrent core, TLC
configurations that check them on small instances, and proofs that TLAPS checks
for all instances. Sections: 1 the system, 2 the modules, 3 the runs, 4 the
proofs, 5 where code and documentation disagree, 6 what is not modelled, 7 the plan.

## 1. The system

| Component | State | Operations | Interaction | What makes it correct |
|---|---|---|---|---|
| `LocalHashmap` (`data_structures/local_hashmap.h`) | an array of bucket lists; a bucket has `BucketSize` entries (allocated lazily by `getEntry`), each with key, value and a state word EMPTY / USED / PENDING_INSERT / PENDING_UPDATE; `next`, `isNextAllocated`; `size_` | Insert (Overwriter, Updater), Lookup (pointer, copy), Erase, Apply, TryBlockingApply, ForEachEntry/Key, Clear, iterators, the Async forms | tasks of one locality share it; the distributed Hashmap keeps one per locality | one entry per key, no lost or moved entry, `size_` exact, operations atomic and terminating |
| `LocalMultimap` (`local_multimap.h`) | the same lists, a value vector per entry, `numberKeys_`, and per list the counters `inserter_array_`, `deleter_array_` | Insert, Lookup, LookupFromRemote, Erase, BlockingApply, TryBlockingApply, Apply, ForEach*, Clear | as LocalHashmap; every operation first passes the list's gate | the gate keeps Erase apart from all other operations and every operation gets through; the list as above |
| `LocalSet` (`local_set.h`) | the same lists without values | Insert, Find, Erase, ForEachElement, Reset | as LocalHashmap | as LocalHashmap |
| `Buffer`, `BuffersVector` (`buffer.h`) | per target locality: `data_`, `size_`, `lock_` | Insert, AsyncInsert, FlushBuffer, AsyncFlushBuffer, FlushAll | the distributed containers insert through it; `WaitForBufferedInsert` flushes it on all localities; `buffered_insert_iterator` (`core/iterator.h`) drives both | every entry arrives once |
| Catalog (`abstract_data_structure.h`), identifiers (`object_identifier.h`) | per locality and type: `register_`, `oidCache_`, a counter | Create, Destroy, GetPtr | `executeOnAll` runs the insertion or erasure on each locality; every remote operation resolves its object through GetPtr | an identifier has one use; GetPtr finds a living object anywhere |
| `Hashmap`, `Multimap`, `Set` (`hashmap.h`, ...) | a local container and a BuffersVector per locality | as local, BufferedInsert, Size | operations run at locality `hash % numLocalities` | an operation reaches the owner of its key; insertions arrive; sizes, lookups and traversals answer truly |
| `Replicated_Hashmap` | a LocalHashmap on each locality | Insert on all, Lookup locally | `executeOnAll` | replicas converge |
| `Array`, `Vector` | a chunk (`pivot_`) or round-robin blocks per locality; Vector's main locality keeps size and capacity | InsertAt, At, Apply, ForEach; PushBack, Resize | owner computed from the index; pieces of a range sent to their owners | each index has one place; no element is missed or written twice; nobody reaches an unallocated block |
| `Atomic`, `OnePerLocality` | a value at one locality, or one on each | Load, Store, FetchAdd, CompareExchange, ForceStore | read-modify-write loops at the owner | atomicity |
| Runtime (`runtime/`) | handles; task groups in TBB, GMT or threads | executeAt, executeOnAll, forEachAt, asyncX, waitForCompletion | everything above uses it | a wait returns after everything issued on the handle ran |
| Iterators and algorithms (`core/`, `distributed_iterator_traits.h`) | `array<T, N>`: a chunk per locality; otherwise none of their own | STL-like algorithms on distributed ranges | partition a range by locality, then a fold from locality to locality or a map on all at once | partitions cover the range once |
| Graph library (`extensions/graph_library`) | an index of edges from Hashmap/Set; `sssp`'s frontier sets and visited array | insert, erase, degree, breadth-first search | built on the containers | a vertex gets its least distance |
| Collectives, data types, mains, utilities, examples, tests | in MPI, or none | reduce, text conversion, timing | | |

The hard behaviours are: tasks that race on state words and counters with no lock
around the whole operation (local containers); an operation that moves another
key's entry (Erase); a flush that takes no lock (Buffer); the same operation
running at different times on different localities (Catalog); growth of a chain
while others scan it; questions that are answered locality by locality while the
container changes; a vector whose blocks are allocated while others use it; and every
loop that spins. `PROJECT.json` lists each hazard
with its line.

## 2. The modules

Each definition carries its source lines in `PROJECT.json` (`map`). There are four
groups, at three grains: single accesses to shared words (A), whole operations of a
local container and single messages between localities (B, C), and functions (D).

### A. Inside one locality, access by access

**EntryList** is what the containers share: one chain of buckets (a key hashes to
one list, and lists share nothing but `size_`), the loop over it (`NextEntry`,
`EnterNextBucket`) and its growth (`GrowList`: win the compare and swap of
`isNextAllocated`, allocate, link, or wait for the winner). A list starts in any
state that sequential insertions leave, up to `MaxPrefill` entries.

**LocalHashmap** has an action for every access to shared state of Insert, both
Lookups, Apply and TryBlockingApply: `pc` is the place in the code, `pos` the
entry reached, `hit` the address a Lookup keeps. The asynchronous forms run the
same bodies in another task. A value is the set of the operations' tokens that went
into it, so a lost update is visible and stored values are otherwise opaque.
Insert's loop is `Claim`/`ClaimFails` (compare and swap of EMPTY) → `AwaitInsert`
→ `Compare` → next entry or `LockEntry` (spin on USED) → `UpdateEntry` →
`Release`; a new entry goes `InitEntry` → `CountEntry` → `Publish`. Lookup's is
`Scan` → `Probe` → `Found` (waits for a pending update, keeps the address and, as
the code does, scans on to the end of the bucket) → `Hop` → `Deref`.

**LocalHashmapErase** adds Erase, step by step: claim the entry, lower `size_`,
search the end of the list, hold the first EMPTY entry, lock and move the last
entry, and undo and start again when another task is in the way. `frames` is the
stack of calls that resume after a recursive call that is not followed by
`return`. In a chain that ends with a full bucket `lastEntry` is always
`prevEntry`, so the branches of :937-958 are dead and left out. Without Erase a
scan's two reads of the state word cannot disagree in a way that matters; here the
second one is an action of its own (`ReadPending`, `ReadAgain`). Two history
variables say what the properties are about: `resumed` (a suspended call has gone on)
and `filled` (the keys at the start).

**MultimapGate** is `allow_inserter`, `release_inserter`, `allow_deleter` and
`release_deleter`, one action per atomic access. **LocalMultimap** puts the list
operations behind it, by INSTANCE, with the gate's variables as its own. Erase is
one action there: it is alone in the list (`EraseAlone` is checked), so nobody
sees its steps. The scans read the state twice in the code; the gate keeps Erase
out, so one read is enough. An entry in a Lookup is PENDING_INSERT, as in the code.

**ConcurrentMap** and **ReadWriteLock** are the abstract specifications: a map on
which an operation takes effect at one instant between its call and its return,
and a lock that is shared or owned. ConcurrentMap states what the code promises
less than that for: a plain Apply reads and writes at two instants (and only it
can change a value under a TryBlockingApply), a search may settle early on the
absence of its key, and an operation in `MayMiss` may miss a key while another one
runs.

### B. Between localities: buffers, identifiers, the runtime

**Buffer** is one buffer between two localities with its insertions, the flush
inside an insertion (under the lock), and FlushAll (without). A flush is five
steps: test `size_`, copy `data_`, copy `size_`, send, reset. Chunks model
`Insert(entries, n)`. A message of an AsyncInsert is executed at any time before
the wait on its handle returns; that the flushes wait is `Wait`.

**Catalog** is Create, Destroy and GetPtr with one step per locality of each
`executeOnAll`, in any order.

**Runtime** has, for each of the three mappings (`cpp_simple`, TBB, GMT) and each
function of `runtime.h` that runs something, what it starts: pieces with a place and
a range of indices, cut as the mapping cuts them (GMT by its workload, one chunk per
task; TBB index by index; `cpp_simple` in place). A handle is created where the code
creates it. **Completion** is what all three promise: a synchronous call returns when
everything it asked for is done, a wait when everything asked for with the handle is,
including what the functions themselves started with it, each item exactly once.
`Runtime!Promise` maps the jobs to it.

### C. Data structures over the localities

**Calls** is the frame of a program that uses a data structure: tasks that make calls,
activities that run at localities (`Activity` for `asyncExecuteAt`, `OnAll` for
`executeOnAll`), each of them owed to the call or to the handle. That the wait covers
its activities is what Runtime shows. A program is a record of the structures it is
about, first contents, the operations it may call and a bound of the calls.

**Objects** is what **Hashmap**, **Multimap**, **Set** and **ReplicatedHashmap**
share: keys at their locality (`TargetLocality`), the buffers of all localities and
both waits for buffered insertions, activities that change a key, Clear. **Questions**
has lookups, sizes, ForEach (one activity per bucket) and the iterators, which go
through a locality's entries and then ask the next ones in turn. The container
modules list the operations of each class in its own form: in one step where the code
runs one function at the key's locality and waits; by an activity where it does not;
with a second activity at the target where the code's Async form issues one.
Objects and Questions also keep the history that the properties are about: insertions
a program may rely on (`promised`), those it may not yet (`pending`), keys that were
to be removed (`dropped`), and what was there during a question (`seen`).
**Containers** composes the four classes and states the properties.

**Elements** is the same for structures of numbered elements: a call cuts its
positions into pieces, each a run of elements in the memory of one locality, and
performs them one after another or as activities. **Array** has the operations of
`shad::Array` on its layout (from Distribution), with `exclusiveScan` in its two
phases. **Vector** has its own layout of blocks, size and capacity at the main
locality under `sizeCapacityLock_`, and the allocation of blocks at all localities
while the lock is held. **Atomic** has the loops of loads and compare-exchanges, with
spurious failure where the exchange is weak. **ElementPrograms** composes the three.
An element's value names the call that wrote it and counts the functions applied.

### D. Layouts and algorithms, as functions

**Distribution** has the layouts of `shad::array<T, N>` and `shad::Array<T>`, their
iterators' operators, local ranges, `distribution()`, and the pieces of ranged
operations. **ArrayIterators** is a program that walks with an iterator.

**Patterns** has the execution patterns of `impl_patterns.h`: a fold from locality to
locality and a map over the localities that have elements, with partitions among the
tasks of each. **ReadingOps** and **WritingOps** define every algorithm in its
sequential and its parallel form from them, and **Policies** the overloads that
choose. Kernels that only read do not interfere, so a function says all there is;
for `transform` what matters is which places of the output are written by whom, and
`block_contiguous_*` gives the list of writes. **Algorithms** enumerates ranges
(`PushBack`, `NextLocality`) and compares with the standard algorithms.

## 3. The runs

| Run | What it shows | Instance |
|---|---|---|
| `hashmap` | unique keys, exact size, one owner of an entry; entries stay; implements ConcurrentMap with `MayMiss = {}`; every operation returns | 2 tasks, 1 operation each of all five kinds, 3 keys, 2 buckets of 2, up to 2 entries at the start |
| `hashmap_erase` | erasures leave no entry held; up to the first call that resumes, and when quiet: list packed, keys unique, size exact, keys that nobody erases still there | 2 tasks that erase different keys, 2 operations each, 4 keys, 2 buckets of 2, up to 4 entries at the start |
| `hashmap_erase_lost` | a deviation, see 5 | 2 tasks that erase different keys, 3 operations each, one bucket of 4 |
| `gate` | gate implements ReadWriteLock, some waiting deleter enters | 3 tasks, any number of passes |
| `multimap` | Erase alone, packed bucket, exact key count, unique keys, implements ConcurrentMap, operations return | 2 tasks, 1 operation each, 2 buckets of 2. One program has Insert, Lookup and Erase of two keys, the other every operation but Erase in a chain that starts with up to 2 entries and grows |
| `buffer` | all delivered, once, nothing invented, eventually | 2 tasks insert 6 and 4 entries by twos, buffer of 4, one asynchronous, flush after both |
| `catalog` | one use of an identifier, the owner finds the object | 3 tasks on 2 localities, 2 operations each |
| `runtime` | everything runs once; every mapping implements Completion, with its liveness | 2 calls of every kind, loops of 0, 2 and 5 indices, 2 localities |
| `containers` | insertions arrive; sizes, traversals and lookups are right about what stayed | 9 programs of 1 to 3 calls by 2 tasks; 3 localities, one of them without keys; 3 keys, 2 buckets, buffers of 2 |
| `elements` | positions hold what their last operation was to leave; answers are true; no call reaches a block that is not there | 4 programs of 2 or 3 calls by 2 tasks; arrays of 2, 4, 5 elements on 3 localities; vectors of 0, 2, 3, 5 in blocks of 2; one atomic |
| `array` | an iterator is where the same steps on an index lead; one place per element, for pieces too; ranges are covered | all arrays of 1 to 7 elements on 1 to 4 localities, both classes |
| `algorithms` | the algorithms agree with the standard ones, reductions and scans on words, so that the order counts; the cases listed under Algorithms in section 5 are left out | all ranges of up to 5 zeros and ones on up to 3 localities with up to 3 each, 1 to 3 tasks, both policies |

**Bounds.** A list, a gate, a buffer and an identifier are independent of their
siblings, so one of each is modelled. Two tasks are enough for every race between
two steps; the gate, where three parties matter (an inserter inside, one coming, a
deleter waiting), has three. The lists have room to be entered empty, partly full
and full; where Erase runs in a multimap, keys fit into the first bucket, since beyond
it section 5 applies; the deviations of the hashmap's Erase need no second bucket.
`MaxBuckets` buckets hold all keys: `GrowList` never meets the bound. `MaxOps` and `calls` bound histories; within one operation each loop
is unbounded. `MaxDepth` bounds the recursion of Erase and `SizeRange` stands for
2^64: it exceeds the number of entries, so that a wrapped `size_` is not a possible
size. Three localities are a first, an inner and a last one; one of them may be empty.
Array sizes run through fewer elements than localities, as many, a multiple, and any
remainder; vectors start empty, within a block and at its end, and every program can
make them grow. What a proof covers (section 4) holds without these bounds.

**What programs do.** Some structures promise something only to programs that keep
rules, and the models' programs keep them. Of the containers: buffered insertions do
not overlap with flushes (5), Clear has the container for itself, a multimap's
iterator does not stand on a key that is changed. Of the elements: a position
is not used while another call on it is under way (plain memory), Vector's elements
are used below its size and ranges are inserted where section 5 does not apply. Of
the buffer: flushes start after all insertions have returned. Of the hashmap: tasks
that erase do not erase the same key and nothing is inserted meanwhile. Of the iterators: the
operators are used where section 5 does not apply.

**Fairness.** `FairSpec` has weak fairness on the steps of each task that is inside
an operation, and none on calls. Every loop that waits calls `rt::impl::yield`, the
schedulers of TBB and GMT run every ready task, and no step of a task needs more
than its own turn. Weak fairness is enough for `SomeDeleterEnters` because
inserters give way once `deleter_array_` is raised; no such claim is made for
inserters or for a given deleter, and it would be false. Nor is it for the hashmap's
Erase: see 5. In `gate` the fairness of
`Releasing` says that an operation inside the gate ends, which `multimap` checks as
`OperationsReturn`. In `buffer` the target executes each message in the end. In
`runtime` every job that was started is run and a call whose jobs are done returns.
In the other runs nothing is assumed.

**Deadlock** is checked in `hashmap`, `hashmap_erase`, `gate`, `multimap`, `buffer`,
`catalog` and `runtime`; the state in which all tasks are done has a stuttering step
(`Terminating`) where there is one. In `containers`, `elements`, `array` and
`algorithms` the enumeration of programs, walks and ranges ends at its bound.

Each property has a mutant: an operator next to the definition, marked `mutant`, that
differs from it as a plausible bug would, with which TLC finds the property violated.

## 4. The proofs

They hold for every value of the constants under the ASSUMEs of the modules, which TLC
evaluates in the runs: any set of tasks and keys, any bucket size, length of chain and
number of operations. Tasks must be finitely many where they are counted (gate,
multimap, catalog, the programs of group C), and fewer than `has_deleter` at a gate; `Absent` is no value,
`Garbage` no entry, `SizeRange` more than the entries. Where a theorem has a hypothesis
(`NoInserts`, `DifferentKeys`, `RoomyPrograms`, `OneFlusher`, `Fits`), the code breaks
the property without it (section 5), the model's programs keep it, and the run listed
is an instance of it.

Each proof goes the same way: an inductive invariant, one lemma for each action, and
the properties from it. Most of an invariant is what each task knows at each point of
the code. Finite cardinalities use `FiniteSetTheorems`.

**LocalHashmap_proofs** (without Erase): `HashmapInvariant`, and from it
`HashmapTypes`, `KeysAreUnique`, `EntriesArePacked`, `EntriesNeverMove`. `UniqueKeys`
is not inductive: it holds because of what each inserting task knows. `HashmapInv` adds
that. `WentPast`: every entry in front of an insertion is present and has another key.
`Packed`: behind the first entry that is not present all are EMPTY, so a task that
claims an entry has seen all present ones. `Reached` and `OneInserter`: the entry it
works on is in the state its place in the code requires and is nobody else's. Two
insertions of one key would have to claim different entries; the later one is behind
the earlier, has gone past it, and compared its key.

In the same module are `EntriesHaveOneOwner`, `SizeIsExact` and the refinement
`HashmapIsLinearizable`. `MapInv` adds the kind and key of each operation and what a
search has passed (`NotSeen`). That is what makes an unsuccessful search right: at the
instant it reads an EMPTY entry the key has no entry at all, and there the abstract
operation takes effect. Every step is a step of ConcurrentMap or a stutter.

**LocalHashmap_proofs**, with Erase. `NothingStaysHeld` needs no hypothesis: a pending entry
is held by some task (`PendingIsHeld`), also after a call has resumed with an entry it
never claimed. `ListStaysPacked` and `SizeStaysExact` hold in programs without
insertions until a call resumes (`~resumed`, from where `:848` goes wrong), also when
tasks erase the same key; `OtherKeysAreKept` asks for different keys as well.
`ListInv` speaks of the list as it will be: an entry is `Free` if it is EMPTY or held
as the end of the list, `Left` if its key is on its way to another; free entries are
behind all others, and the entries that are neither have distinct keys. `KnowsOrder`
says that the entry to delete, the one before the end and the end come in this order
with nothing between the last two, though they are locked one after another; that is
why the entry that moves is the last one. `SizeInv` counts the entries that are still
in `size_` less the erasures that have let go of theirs (`:880`)
and not raised `size_` again (`:881`), modulo `SizeRange`.

**MultimapGate_proofs**: `GateInvariant`, `DeleterIsAlone` and `GateImplementsLock`
(the refinement of ReadWriteLock). The invariant says what the counters count:
`inserter_array_` is the number of inserters inside or `has_deleter` exactly when one
deleter is; `deleter_array_` the number of those that have not left `allow_deleter`.
The compare and exchange is safe because its expected value is never `has_deleter`.

**LocalMultimap_proofs**: `EraseWorksAlone`, `BucketsStayPacked`, `NumberKeysIsExact`
for all programs. A TryBlockingApply that fails never leaves the gate, so
`inserter_array_` only bounds the number inside from above, and `GateInv` does not
hold; the bound is enough for `EraseAlone`. `KeysAreUnique` and
`MultimapIsLinearizable` are about programs that do not erase, or whose keys fit into
the first bucket (`RoomyPrograms`): there entries fill from the front, a linked bucket
is full, and a search knows that no entry it passed has its key.

**Catalog_proofs**: `IdentifiersHaveOneUse`, `OwnersFindObjects`. The uses of an
identifier (an object, a creation, a destruction, the cache) add up to one as soon as
it has been given out, and `CounterBound` keeps the counter within the identifiers.

**Buffer_proofs**, for one task that flushes behind the barrier (`OneFlusher`):
`NothingIsInvented`, `DeliveredAtMostOnce` and, if the chunks fill the buffer exactly
(`Fits`), `NothingIsLeft`. An entry that was inserted is in one place: below `size_`
in `data_` (`Stored`), in one message, or at the target.

**Runtime_proofs**: `EverythingRunsOnce` and `RuntimeKeepsPromise`, the initial state
and every step of Completion for all mappings. The pieces of a loop are its indices,
each in one piece (`ChunksOfLoop` for GMT's chunks); jobs stay apart and so does what
has run.

**Objects_proofs** and **Containers_proofs**: `LookupsAreTrue`, `SizesAreBetween`,
`TraversalsAreExact`, `InsertionsAreDelivered`, for all four classes (a replicated map
has no traversal) and any localities, hash function, buffer size and programs, of
which is asked only that they bound their calls; keys of one locality have buckets of
their own (section 6). The first module is about the steps an object can take,
whichever class it is, the second about the classes: each of their operations is one
of those steps (`Classified`).

*Questions.* `ObjectInv` has the types and that each key, in memory or a buffer or
under way, is at the locality of its hash (in a replicated map an update may run
anywhere). `QuestionInv` says of each task's question: only the task and its own
activities work on it (`Open`); what was there always and at some time during the
question encloses what is there now (`Watched`); and the part of the answer that is
known is right for the part of the container already asked. For a lookup under way that
is `LookupRight`. The sum of a Size so far lies between the two numbers restricted to
the localities already counted (`SumRight`). What a walk has visited lies behind it,
once each, and what stays is visited or `Ahead` (`WalkRight`); that an iterator meets
no entry twice although entries appear and vanish on both sides rests on the order of
localities and entries, for ForEach on one activity for each bucket. A step leaves the
questions alone (`Aside`) or is a step of one question (`QuestionStep`). One delivery
applies a whole buffer; a key changes by the number of its occurrences (`Grown`).

*Insertions.* `Delivered` compares the memory with a history, so `PromiseInv` must say
where every insertion is that is not yet there. `FlushInv`: the wait that flushes is
one task's at a time; while it runs no delivery is under way, and a buffer it has
passed is empty. `SafeInv`, for a hashmap, a set and a replicated map: a key that is
not to be removed is at its place, or no insertion of it may be relied on and, for each
task that has begun one, what brings it (an activity, a buffer, a message) is still
ahead of that task's wait. `CountInv`, for a multimap, is an account: the values in
memory, in buffers, in deliveries and in insertions under way are together the
insertions promised and those still pending (`Balanced`). That alone is not enough
when a task's wait ends, because a flush may deliver other tasks' entries under its own
handle (section 5). `Counts` therefore has, whichever set of tasks is left out, that
what the others have under way is no more than what is pending of them. The account
needs that no two insertions are the same activity and no delivery meets the flush of
its own buffer (`FreshInv`). Its sums are numbers of units (`Total`), and `OwedInAll`
shows that the fold in `Unpromised` is such a number, by a least counterexample among
the sets of tasks.

Only model-checked are: liveness (`OperationsReturn`, `SomeDeleterEnters`,
`EventuallyDelivered`, the fairness in `ImplementsCompletion`), which is out of the
prover's reach with ENABLED; and elements, array and algorithms. The layouts (`GoPast`,
`Pieces`) and the folds of the algorithms are recursive, and what they compute needs
induction over data, for which the prover has no rule; an argument by a least
counterexample, as for the fold in `Unpromised`, has not been tried on them.

## 5. Where code and documentation disagree

Shown by a run:

- `hashmap_erase_lost`: at `local_hashmap.h:848` Erase calls itself when it cannot
  claim its entry and, unlike at its other recursive calls, does not return: it goes
  on with an entry that is not its own. Two tasks that erase different keys leave the
  list without a key that neither erases, and `size_` wrong.

Met with the same models, without a run of their own. The models contain the code as
it is; where a property could not hold, the programs avoid the case or the property
says what does hold.

Local containers:

- an Erase moves the last entry towards the front (`local_hashmap.h:889`), past the
  scan of another operation on its key: an Erase, and the Lookup by which it makes sure
  (`:969`), miss it, so that of two tasks that erase all keys of a bucket of four one
  returns with its key in the map (the tests expect none, `local_hashmap_test.cc:349`);
  an Insert adds the key again, or spins for ever on an entry that is emptied (`:1026`);
- Erase compares the key (`:841`) before it claims the entry (`:843`): between the two
  another Erase of the same key can move another key into the entry, which is lost;
- two erasures that meet at the end of the list both undo what they did (`:878`,
  `:902`) and begin again, in lockstep for ever;
- `Lookup(key, res)` copies the value after the scan has let go of the entry
  (`:210`), while an update may be writing it;
- Erase in a chain does not reset `j` with the bucket (`local_multimap.h:961`) and
  leaves a hole; Insert then adds a key a second time, `LookupFromRemote` stops (`:877`);
- TryBlockingApply returns NOT_FOUND for a key whose entry a Lookup holds (`:1350`),
  and FAILED without `release_inserter` (`:1360`), after which an Erase of the list
  waits for ever;
- the multimap's Apply at home works on a copy (`local_multimap.h:216-220`);
- `lmap_iterator`'s `++` leaves a bucket list at an entry that is not USED
  (`local_hashmap.h:1451`): entries behind a pending one are skipped.

Buffers, catalog, containers:

- FlushBuffer (`buffer.h:108`) resets `size_` without the lock; an insertion under
  way, as in `shad::transform` (`modifyng_sequence_ops.h:337`), is lost; two
  localities that flush at once may deliver entries twice;
- insertions of several entries step over the test for a full buffer when their
  numbers do not add up to `kBufferSize` (`buffer.h:139`);
- an identifier is cached (`abstract_data_structure.h:172`) before its destruction has
  run everywhere; on other localities the late erasure hits the new object
  (`LiveIsFound` of Catalog fails);
- a BufferedAsyncInsert that fills a buffer puts other tasks' entries under its own
  handle, so their `WaitForBufferedInsert` returns before they arrive (the "finalized
  only after" of `hashmap.h:174`); `Delivered` asks for the handles as well;
- Clear does not empty the buffers; Size (`hashmap.h:493`) is no snapshot;
- replicas of a `Replicated_Hashmap` stay different after concurrent insertions of one
  key with different values (`replicated_hashmap.h:176`).

Arrays, vectors:

- `array`'s `-=` is wrong beyond the previous locality (`core/array.h:790`); of
  `Array`, `--` jumps to a chunk's end (`array.h:1812`), `-=` is wrong across
  localities, `+=` with fewer elements than localities, `begin()` elsewhere than on
  locality 0 leaves `size_` 0; `ArrayRef::operator=` names a member that does not
  exist (`:1619`); AsyncGetElements of a small array runs its loop to the wrong bound
  (`:1410`);
- Vector, against its comments (123-127, 143-145, 245-248): Resize does not shrink
  (`vector.h:903`), At does not check its bound (919), a single InsertAt past the end
  does not grow the vector. A ranged InsertAt within the vector overwrites the last
  elements and sends the first block to the wrong locality (1140-1199), PushBack
  raises the size before the element is written (1013), blocks are added to a
  `std::vector` that others read (614).

Algorithms:

- `max_element` without policy and comparison uses `std::greater`
  (`core/algorithm.h:133`) and finds the least; `minmax_element` without a policy does
  not compile;
- parallel `equal` and `lexicographical_compare` never return false: what their
  localities find is right and is checked (`ReductionsAgree`), but the value of
  `std::all_of` over it is dropped and `true` is returned (`comparison_ops.h:116-117`,
  `:218-219`); the sequential `lexicographical_compare` goes on after an element that
  decides;
- the sequential and parallel inclusive scans swap the operands where localities meet;
  the parallel `transform_inclusive_scan` ignores its initial value; parallel exclusive
  scans need an output with the localities of the input; sequential scans return
  `d_first`;
- parallel `adjacent_difference` is right on one locality only, although its test
  (`shad_numeric_test.cc:96-101`) expects what the standard algorithm gives; the
  sequential one calls its operation only where localities meet and subtracts
  elsewhere (`numeric_ops.h:182`), which does not show with `std::minus`;
- parallel `transform_reduce` of two ranges reads the first element of empty parts;
  parallel `transform` of an empty range returns `back()` of an empty vector
  (`modifyng_sequence_ops.h:384`).

The run `algorithms` leaves these cases out: none of its properties holds because of
one of them, and none requires one.

Runtime:

- GMT's forEach with a null argument buffer leaves the size unwritten that the wrapper
  reads (`gmt_utility.h:279`); the workload is cut to 32 bits; `executeAtWithRet`
  shares one global size;
- `cpp_simple` loops with an `int` index; `Locality`'s `+` and `-` ignore their operand;
- TryBlockingApply with a result writes an uninitialised one from elsewhere
  (`hashmap.h:964-974`);
- `sssp` uses `numeric_limits<size_t>::infinity()`, which is 0
  (`extensions/graph_library/algorithms/sssp.h:117`).

## 6. What is not modelled

- In A: the lazy allocation of a bucket's entries and the non-atomic `shared_ptr`
  swap (a store is atomic in the model); spurious failures of the containers' weak
  compare and exchange (they retry from the same place); the order of values in a
  multimap's vector. The memory model is sequential consistency, which the `__sync`
  builtins give for the state words; plain stores to them are taken as ordered.
  Clear, ForEach and the iterators exist only at the grain of group C, LocalSet too.
- TryBlockingApply is left out of the programs with Erase: after its failure the gate
  is never released, and no progress holds.
- In C: an operation on a local container is one step, and so is a remote call that
  the caller waits for and that makes one access. Two keys of one locality
  never share a bucket, so an Erase that moves an entry under a traversal does not
  occur. The buffered insertions of Array and Vector and Vector's iterator are left out.
- In D: wide integers; insert iterators; the adapters `unordered_map`, `unordered_set`.
- Identifiers' and counters' width, other than `size_` in the model of Erase;
  arguments and result buffers of runtime calls, locks, exceptions; the schedulers.
- The graph library, which nests sets in a map and needs the grain of group A for both
  at once, beyond what TLC explores; collectives and data types (state in MPI, text
  conversions); mains, utilities, examples, tests.

## 7. What is left

1. Proofs: of a vector `InBounds`; of the array's layout
   `OnePlace` and `RangeCovered`, as far as they need no induction along the localities.
2. LocalSet step by step on EntryList, and the edge index over it.
