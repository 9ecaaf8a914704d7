# psychicstd in TLA+

psychicstd is a C++ standard library written for short compile times: headers
under `src/include`, the non-template parts under `src/src`. Around it are Python
programs that decide whether it is correct and fast: the compliance tool, which runs
libc++'s tests, and the benchmarks, which build real projects with it. This directory
holds TLA+ modules of both, TLC configurations that check them on small instances,
and TLAPS proofs. Definitions carry the names of the source; `PROJECT.json` gives the
source lines of each one.

## Inventory

### The library

The library has no processes of its own: the "actors" are the program's threads
and the callbacks, destructors and copy operations of the program that the library
calls. The components with state that outlives a call, and what makes them hard:

| component | state | operations | hard because | correct when |
|---|---|---|---|---|
| stop_source, stop_token, stop_callback | `stop_state`: flag, linked list of callbacks, two counts, mutex; each callback: `registered_`, `running_`, condition variable; a thread-local list of frames | construct, destroy, request_stop, handle copies | callbacks run without the lock and construct, destroy and request in turn; a destructor on another thread must wait, on the same thread must not | a callback is called at most once, only after a request, and its object outlives the call; every destructor returns; the state is freed once |
| shared_ptr, weak_ptr, enable_shared_from_this | control block: `count`, `weak_count`; one spin lock for the atomic functions | construct, copy, assign, drop, lock, shared_from_this, convert, atomic_load/store | each count changes in one atomic step and everything else in between; destructors run inside calls | counts are exact, nothing freed is touched, no object comes back |
| future, promise, packaged_task, async | `__state_base`: count, mutex, condition variable, `ready`, error, exception; `storage_` | set, abandon, get, wait, wait_for, task call | `get` works without the lock; notify and release come after the unlock; functions, copies and moves throw | one outcome, one destruction of the value, every wait ends |
| mutex family, call_once, shared_mutex | pthread objects, `done_`, the owners' flags | lock, try_lock, unlock, `lock(a, b)` | exceptions between two locks, retry after a throw | no lock lost or released twice |
| condition_variable(_any) | pthread condition, an internal mutex with a count | wait, wait_until, notify | two clocks, wake-ups that race with deadlines and with destruction | no notification missed, no use after destruction |
| thread, jthread | handle, `joinable_`, the started function's state | start, join, detach, move, cancel | the state is deleted by the new thread, also when it is cancelled | joined or detached once, state deleted once |
| atomic | the value; the kernel's wait queue | wait, notify, compare-exchange loops | compare and sleep are two steps | no wake-up lost |
| map, set (`__psychicstd_node_map`) | doubly linked nodes and a sorted index of pointers to them | insert, emplace, erase, merge, assignments | an allocation may fail between the two structures; merge moves keys and values out of nodes that are still linked | list and index hold the same nodes in order, no node or value is lost |
| unordered_map, unordered_set | buckets of singly linked nodes | insert, erase, erase_if, rehash, assignments | a rehash in the middle of an insertion, allocations that fail, iterators that erase | every key found, no node lost, every element visited once |
| vector, deque, list, string | slots, the objects in them, capacity | growth, insertion, erasure | exceptions in the middle of a move; arguments inside the container | lifetimes balanced, contents as the reference says |
| optional, variant, any, function | tag and storage | assignment, emplace | exceptions leave valueless states | tag and storage agree |
| algorithms, regex, chrono, charconv, random, filesystem, streams | none or little | pure functions, buffers | boundaries and overflow | equal to a reference definition |

The components interact in few places: `jthread` owns a `stop_source` and a
`thread`; `future` uses `mutex`, `condition_variable` and `__launch_detached`;
`stop_callback` waits on a `condition_variable`; `condition_variable_any` wraps both.
Everything else is called by the program and calls the program back (comparators,
hashes, copies, destructors, callbacks).

### The tools

The Python programs are run again and again, fail, are interrupted, and meet the files
that earlier runs left. Files are all the state they share.

| component | state | operations | hard because | correct when |
|---|---|---|---|---|
| compliance tool (`tools/compliance.py`) | the cache of results per header, the baseline of known failures | run over some headers, with sampling or `--recheck`; update the baseline; gate | headers share tests, the suite and the library change between runs, a run can die in the middle of a file | nothing measured is lost, a recheck leaves nothing stale, a green gate means no new failure |
| compliance diff and its workflows | the main branch's cache, kept as an artifact | publish, seed, recheck, compare | base and head see different suites | what the comment says is what the pull request did |
| recipes of real projects (`realworld_projects.py`) | archives on disk, work directories | fetch, unpack, patch, configure, compile, test | 50 recipes share archives and paths; pools of commands fail in the middle | every build works on pinned sources in a tree of its own |
| measurements (`benchmark_realworld.py`, `compare_realworld_to_ref.py`) | samples in memory, a registered git worktree | check, report, compare with a ref | exceptions pass through many clean-ups, some of which can fail | samples of the variants are balanced and complete |
| repetition plan (`_budget_plan`) | repetitions per project, time left | greedy allocation | projects drop out at different times | equal shares of the time, within the budget |
| reports and README (`run_benchmarks.sh`, `update_readme_from_benchmarks.py`) | one report per project, three more, `README.md` | plan, measure, report, synchronise | old reports stay when new ones fail; `README.md` is both input and output | a finished run quotes its own numbers, one that fails before its last write changes nothing |
| compile-time, header-cost and start-up measurements | their reports | measure, write | a workload that fails is "n/a" | as above |
| statistics, comparison of compile times, single conformance tests | none | medians, intervals, tables | numerical | |

They interact through files: `run_benchmarks.sh` calls the plan and the measurements,
which call the recipes, and then the synchronisation; the workflows call the compliance
tool and the diff.

## Modules

| module | models |
|---|---|
| `StopToken` | `include/stop_token`, `src/stop_token.cpp` |
| `StopPromise` | the abstract specification that `StopToken` implements: phases of a callback, no locks, lists or counts |
| `StopToken_proofs` | the inductive invariants of `StopToken`, its theorems, and that it implements `StopPromise` |
| `SharedPtr` | the control block and pointers of `include/memory` |
| `SharedPtr_proofs` | its inductive invariant and its theorems |
| `Future` | `include/future`, `src/future.cpp` |
| `Future_proofs` | its inductive invariant and its theorems |
| `CondVar` | `condition_variable_any` on `condition_variable`: `include/condition_variable`, `include/__psychicstd_condition_variable_core`, `src/condition_variable.cpp` |
| `Locks` | `include/mutex`, `include/shared_mutex` |
| `Locks_proofs` | the inductive invariants of `Locks` and its theorems |
| `AtomicWait` | wait and notify of `include/atomic`, `src/atomic.cpp` |
| `Thread` | `include/thread`, `src/thread.cpp`, with `AtomicWait` for what a started thread waits on |
| `Waiting_proofs` | the inductive invariants of `CondVar` and `Thread` and their theorems |
| `OrderedNodes` | `map`, `multimap`, `set`, `multiset`: `include/map`, `include/set`, `include/__psychicstd_node_map`, `include/__psychicstd_ptr_index` |
| `OrderedNodes_proofs` | the inductive invariant of `OrderedNodes`, what its search and its walks compute, and its theorems: the lists match the indexes, and it implements `SortedElements` |
| `SortedElements` | the abstract specification that `OrderedNodes` implements: sorted sequences of elements |
| `HashTable` | the four unordered containers: `include/unordered_map`, `include/unordered_set` |
| `Dictionary` | the abstract specification that `HashTable` implements: bags of keys |
| `Chains` | walking linked nodes, shared by the two |
| `Vector` | `include/vector` |
| `Lifetimes` | the steps that containers take in memory, and what they mean |
| `Contents` | the abstract specification that `Vector` implements: sequences, and what each call does to them |
| `Compliance` | `tools/compliance.py`, `tools/compliance_diff.py` and the two compliance workflows |
| `Compliance_proofs` | the inductive invariants of `Compliance` and its theorems |
| `Recipes` | `use_on_realworld_projects/realworld_projects.py` as data: 50 records |
| `RealworldBuilds` | `_build_matrix`, `_fetch`, `_temporary_directory`, `_timed_many`: `scripts/benchmark_realworld.py` and `scripts/compare_realworld_to_ref.py` run any recipe |
| `BudgetPlan` | `_budget_plan` of `scripts/generate_realworld_benchmark_reports.py` |
| `Readme` | `README.md` as the scripts see it, and what it must say |
| `BenchmarkReports` | `run_benchmarks.sh` from the plan to `README.md`, with `BudgetPlan` inside and the scripts it calls |
| `Benchmarks_proofs` | the invariants of `RealworldBuilds` and `BenchmarkReports`, their theorems and those of the plan |
| `MC...` | instances for TLC: symmetry, and a view where freed memory would tell states apart; `MCContainers` composes the three families of containers, `MCBenchmarks` the two levels of the benchmarks, one of them per behaviour |

### StopToken

A callback is its address. `obj` is its life cycle, `state_`, `registered_` and
`running_` are its members, `epoch` counts the objects that lived at one address (a
ghost). Every critical section of the state's mutex is one action, because the mutex
is never held while something blocks; the steps between which the code can be
interrupted are actions of their own: the reference taken before the lock
(`BeginConstruct`, then `Register` or `CallInline`), unlinking a callback and calling
it (`RequestStop`/`TakeNext`, the callback's own calls, `InvokeReturn`), the wait of a
destructor (`BeginDestroy`, `WaitDone`, `EndDestroy`). `frame` and `depth` are each
thread's list `current_callback`, with the constructor's inline calls in it, which the
code does not put on that list. While a callback runs, its thread may construct,
destroy and request like any other code; the frame's `destroyed` flag is set by
`mark_destroyed`, as in the code, by comparing addresses.

`StopPromise` says what remains when all that is forgotten: a callback is armed,
called, done or gone; a request makes armed callbacks callable; a call ends by
returning or by destroying its own callback. `PromiseKept` is that specification under
the refinement mapping at the end of `StopToken`; `PromiseServed` is its liveness.

### SharedPtr

`sp` and `wp` are the pointer variables of each thread, `member` the one pointer that
every object owns (so that a destructor destroys further objects), `esft` the weak
reference of its `enable_shared_from_this` base, `slot` the pointer reached through
`atomic_load` and `atomic_store`, `spin` their lock. A call that takes several atomic
steps is in `call`; the destructors that a thread runs, innermost first, are in
`stack`, with the stage each has reached. `lock`, `shared_from_this` and the converting
`weak_ptr` constructor read the count (`BeginAdd`) and then try to raise it
(`CasSucceeds`, `CasFails`, `AddFails`). Raw object pointers, deleters and aliasing do
not change a count and are left out.

`dec` is a call in progress, because `shared_ptr::dec` (`src/include/memory:421`) sets
the variable to null only when the release, and every destructor that it runs, has
returned: `Drop`, `Assign` and `MoveAssign` begin it (`BeginDec`); `DropDone`,
`AssignRead` and `MoveRead` end it when the stack of destructors is empty. Until then the
variable still shows the pointer that it does not own any more (`Released`). A destructor
is a program too: in its body (`InBody`) it may copy variables, members that can be
reached from them and its own member, lock a `weak_ptr` and call `shared_from_this`.
Two constants tell the programs that the code serves from those it does not:

- `SelfOwned`: may the right side of an assignment be reached through the left side alone?
  `head = head->next` and `head = head->next->next` are such; without it the right side is
  another variable, or a member of an object reached from another variable. Moving out of
  a member also needs it.
- `ReadsReleased`: may a destructor copy the variable whose release has started it?

Both are legal programs, each has a run in which the code fails them (findings 1 and 2),
and everything else that is said of `SharedPtr`, in runs and theorems, is about programs
that are neither. Destructors that reset or assign variables are not modelled, nor are
calls from destructors that a conversion of a `weak_ptr` runs.

### Future

A handle is known by the state it points to (`prom`, `fut`), because a move only
renames it. `proc` says where each thread is, `next` where it goes after the
notification: back to the program, or to the release of its reference. The
notification is a step after the critical section, the unlocked part of
`future<T>::get` is four (`Take`, `DestroyValue`, `ResetReady`, `Release`). A state also
names the detached thread that `async` starts for it. `inside` is the stack of
`packaged_task` functions of a thread, so that a task can call itself.

### CondVar

The program around the object is the usual one: a flag under a lock, a loop around the
wait, notifications with or without the lock, and destruction once every waiting thread
has been notified, which the standard allows. A wait passes the points of the code in
order (`pc`): `enter` (reference taken), `held` (internal mutex locked), `before` (the
program's lock given up), `asleep`, `relock` (out of the queue, without the mutex),
`after`, `lockuser`, `leave`. Falling asleep and releasing the internal mutex are one
step, as `pthread_cond_wait` promises; everything else can be interrupted. The two
clocks are two events: the deadline passes (`Deadline`), and the sleep ends
(`TimeOut`), in any order, so `Relock` goes back to sleep when the second came first.
`refs` is the count of the internal mutex, `pending` a history variable: the threads
that gave up the lock and were not notified since. `DestroyInTimedWait` says whether the
program may destroy the object while a notified thread is still in a *timed* wait; with
it the library fails (see the end of the findings).

### Locks

`held` counts how often each thread has each mutex locked, `guard` are two lock objects
of a thread (`mutex` and `owns`, its `m_` and `owns_`), `raw` the mutexes that a thread
has locked without one: by `mutex::lock` or `try_lock`, `lock_guard`, `scoped_lock`, or
after `release`. A call that blocks is a step that is not enabled; a call that throws
(`check_lockable`, `unlock` of nothing) or a `try_lock` that fails changes nothing and
has no step. `unique_lock(m)` and `unique_lock(m, try_to_lock)` are `TryToLock`: the new
object is made and then assigned, so its lock is taken before the old one is given up.
`lock(first, second)` is `LockBoth` and then one step for each call it makes (`LockOne`,
`TryOther`, `BackOff`), and `call_once` one for the critical section's start and one for
each way out of the function. The program keeps two rules: it does not lock again what it
holds, but for a recursive mutex, and it holds nothing when it calls something that
blocks more than once. Readers use `shared_lock`s, which have no `swap` and `release`.

### Thread and AtomicWait

One thread of the program has thread objects (`object`: `handle` is `handle_` if
`joinable_`, `source` the stop state of a `jthread`), and starts others. `os` is what the
system knows of a thread, `state` the life of the `__state` that it runs on. A call that
joins or runs a stop callback is in `call`, with what follows it in the same function
(`next`): `~jthread` and its assignment are request, callback, join and move. The
function of a started thread waits on an atomic, in the steps of `AtomicWait`: the load,
the comparison in the kernel, the sleep. Its `stop_callback`, which is registered before
the wait, stores and notifies; `Register` after the request runs it at once. For plain
threads other threads of the program do so (`StoreLast`, `NotifyLater`), and before that
anybody may store and notify something else. `End` and `Unwind` are the two ways out of
`__start`: `run` returns, or the thread is cancelled inside it. `Terminate` ends the
program, where the code calls `terminate` or traps. How a `jthread` uses `stop_source` is
taken from the promise of `StopPromise`: a callback that is registered or comes to be is
called once after a request.

### OrderedNodes

The four classes are one module, `kind` says which of them is in use: they share the
index, its binary searches (written as such, `BinarySearch`) and most of the pointer
surgery, and differ in where a new node is linked (`Link`: a map in front of the node at
the position, a set between the neighbours in the index), in how a node's entry is found
again (`IndexToErase`: a set trusts the search, the others go on from there to the node),
in `merge`, and in assignments. A node's members are functions of its address; addresses
are used again as soon as they are free. An operation on one container is one action;
copying and merging are loops (`loop`), one element a step, because an allocation that
fails ends them between two elements. `InsertFails` and `MergeFails` are the failure
inside an element: the node is there, the index cannot grow. `KeysMove` says whether
moving from a key changes it (a string's does, a number's does not); with it `set::merge`
fails (finding 3). `GrowthFailsInMerge` lets the index fail to grow when maps merge: then
`map::merge` loses the value it has already moved into the new node, so the passing run
has it for sets only, whose keys it leaves alone.

`SortedElements` forgets nodes and index; `PromiseKept` is that specification for the
sequences of (key, value) that the index names. Which of two equal keys comes first is
part of it, for insertion and for `erase(position)`. That it is kept is proved.

### HashTable

Again one module for four classes. `buckets` and `next` are the chains, `key` stands for
the key and its hash value. `Rehash` is `rehash(count)` and also the first half of an
insertion into a full table: an insertion needs room (`HasRoom`), so it comes after one,
and if its node cannot be allocated the larger table is what remains. A rehash reverses
the elements of every chain, which `Rebuilt` keeps; `EquivalentTogether` says that equal
keys of an `unordered_multimap` stay adjacent in spite of it. (In an
`unordered_multiset` they do not, and nothing there relies on it.) `erase_if` is a loop
with the iterator in `loop.at` and the elements it has still to visit in `unseen`, a
history variable. `Dictionary` and `PromiseKept` are the refinement, which says that each
of these steps changes the bag of keys as the operation should and that copies, rehashes
and iterations change it no more than that.

### Vector

An operation is a *program*: the sequence of allocations, constructions, moves,
assignments and destructions that the code makes, built from the header (`data_`,
`size_`, `cap_`) it starts from. `Lifetimes` says what a step means and when it is
undefined: constructing where there is an object, reading, assigning or destroying where
there is none. `Try` runs a program in one action, either to its end or to a step that
throws, with what the code does then (`UndoShift` after an insertion) and the destructor
of its local variable. An argument is an object of the caller or an element of the vector
itself, so a program that reads its argument after it has freed the block shows up as
misuse. `element` says whether elements move without throwing or are copied instead.

`Contents` is deterministic in `call`, a history variable that records the last call with
its arguments: what returns has changed the sequence as that call should, what throws has
left it alone. Only assignments may do otherwise when they throw: `assign(n, value)` and
copy assignment may leave the vector empty, and `assign(first, last)`, which clears it and
appends one element after the other (`AssignRange`), leaves the first elements of the
range, maybe none. `assign` of an initializer list is copy assignment from a list.

Two constants keep the run away from what the code does not do right. `CopiesFail`: a
copy that throws while elements are being moved to a new block, or in the middle of an
insertion of several elements, leaves destroyed objects counted as alive (`reserve`,
`_undo_shift`); then `StorageExact` fails. `ElementArguments`: `emplace_back(v[0])` of a
full vector constructs from an element that was just moved away, and `insert(pos, n,
v[i])`, `resize(n, v[i])` and `assign(n, v[i])` read the freed block; then `PromiseKept`
or `StorageExact` fails. Allocations fail everywhere, and so do the copies that are made
before the vector is touched.

### Compliance

`library` and `suite` are the world: what each test does with psychicstd now, and what a
test file says of itself (its form, the standards it excludes, what it requires), from
which `ClassifyTest` decides as the code does. `Edit` changes one of them between runs.
`cache_file`, `baseline_file` and `base_file` are the files, `cache`, `todo`, `tests`,
`pending` the variables of `main` and `check_header`, and `pc` where `main` is. A run
picks its arguments (`Requests`), loads the cache, and for each header keeps what is still
eligible, submits tests to the pool (`BeginHeader`), takes their results in any order
(`FinishTest`) and stores the entry (`EndHeader`). The cache is written by two steps,
because `write_text` truncates first, and a run may die between any two; a death while the
baseline is written leaves the old names or any part of the new ones. A result is a pair
of outcomes of commands, for the system library and for psychicstd; a cache of an older
version may lack the second. A test's key is its path, which names the checkout; `TestId`
is what the diff compares. The workflows are three actions and the order of them, `stage`:
the main branch's run without a cache becomes `base_file`, a pull request's cache is
seeded from it, rechecked and compared. `loaded` and `base_truth` are history variables.

### Recipes and RealworldBuilds

`Recipes` has a record for each entry of `PROJECTS`, with the archives of its `build()` in
order, the work directory, and the steps in order: files are edited, or a command is run,
timed under a phase, or many commands are in a pool. What a command is called with is left
out. `RealworldBuilds` executes such records and knows no project: it takes any function
`Recipe`, and `MCBenchmarks` gives it the real ones.

A behaviour is a sequence of commands. `dl`, `dirs` and `worktree` are what stays on disk;
what was built by the present build in a directory is `Mine` and anything older is `Left`.
`pc` follows the code from the worktree and the runtime libraries through
`_fetch` (what exists is not downloaded again, what is there is hashed), the directory
(`Enter`: a stable path is removed as far as that goes and made anew), the steps and pools,
and back out through the `with` blocks, with the exception in flight in `error`. Every
command can fail, `Leave` can fail to remove the directory, `RemoveWorktree` can fail
silently, and `Kill` ends the process anywhere without any clean-up. `_timed_many` is
`PoolStart`, `PoolTake`, `PoolFinish`, `PoolRaise` and `PoolShutdown`: results are read in
order, what waits is cancelled, what runs is waited for. `Collect` is the rest of
`_build_matrix`: one sample per phase, then the next variant, then the next repetition.

Two properties hold only because the recipes are as they are, and say so: `RecipesAgree`
(recipes that fetch under one name pin the same content) and `RecipesReport` (every phase
that a `Project` reports is timed by a step). TLC checks both for the 50 recipes, as an
assumption of `MCBenchmarks`.

### BudgetPlan, Readme and BenchmarkReports

`BudgetPlan` is the loop of `_budget_plan`: `AddUp`, `Minimum` (refused if one repetition
of each does not fit), then `Allocate` one repetition at a time to the candidate with the
least estimated time. `BenchmarkReports` has this plan inside its `Plan` step. A number is
known by the run that measured it, so a report is the number of a run, `Torn` or `NA`.
`doing` is where the script is, `todo` the projects it has still to measure. A command
that fails stops the script (`set -e`, `Fail`), whether it had written its report, had
cut it off or not; `Kill` can cut off a report while it is being written. The
synchronisation computes its text in memory (`Sync`), writes it at once (`Write`), and
the script formats it (`Format`). A write that fails, with an exit status of 1, and one
that is killed leave the same (`HalfWritten`): the old text, the new one, or a prefix of
the new one. A prefix that ends before the last marker is "cut off": it may link fewer
projects than there are, which is what the next run reads its list from, but
`update_readme_from_benchmarks.py` refuses it (`Readable`). A prefix that ends after the
last marker has lost its tail only: the scripts accept it, and later runs end well without
that tail, which `FinishedQuotesThisRun` allows. `Restore` is what a person does then. A
run whose write or last formatting fails says so in `outcome` ("failed late"); `README.md`
may have changed by then. `mdformat` is not part of the repository: it succeeds or fails,
and leaves what the model knows of a file as it was.

## Runs

| run | instance | shows |
|---|---|---|
| `waits` | stop states: 3 threads, 1 state, 2 callbacks, each address used twice, nesting 2; condition variables: 3 threads | `PromiseServed`, the liveness that `StopPromise` promises; `DestroyEnds`; `MutexAlive`, `ConditionAlive`, `NoMissedNotify`, `WaitReturns`; no deadlock |
| `stop_two_states` | 2 threads, 2 states, 3 callbacks, nesting 2, symmetric | `PromiseKept`, the promise of `StopPromise`; `RunSafe`, `WaitIsForACall`, `StatesExact` (nothing is registered behind a request's back, the count is exact) when calls of different states nest |
| `shared_ptr_counts` | 2 threads, 2 objects, 2 strong and 1 weak variable each, symmetric | `CountsExact`, `NoUseAfterFree`, `NoResurrection` |
| `shared_ptr_self_owned` | 1 thread, `head = head->next` | `AssignReadsLive` fails (finding 1) |
| `shared_ptr_reset_visible` | 1 thread, a destructor that copies the variable being reset | `OwnedIsAlive` fails (finding 2) |
| `future_states` | 3 threads and the one of `async`, 1 state, nesting 2 | `StatesExact` (references, storage, no lost wake-up), `OutcomeStable`, `WaitEnds` |
| `containers` | 2 containers; ordered: 3 nodes, 2 keys, 2 values; unordered: 3 nodes, keys 0 and 4, 1 to 4 buckets; vectors: 2 values, 3 blocks, capacity up to 3 | `OrderedExact`; `StructuresExact`, chains, storage and objects of the other two families; the three refinements, `PromiseKept` (ordered) and `OtherPromisesKept` |
| `set_merge_moves_keys` | ordered containers with 4 nodes and `KeysMove` | `ListIsIndex` fails (finding 3) |
| `locks` | 3 threads, one of them a reader, a recursive and a shared mutex | `HeldExact`, `WaitsHoldNothing`, `OnceExact` |
| `threads` | 2 started threads, one with a wide atomic, 2 jthread and 2 thread objects | `ThreadsExact` (states and objects), `JoinReturns` |
| `compliance` | 2 headers that share one of 3 tests, 3 runs, 1 edit, samples of 1 or 2 | `CacheAddsUp`, `RecheckIsCurrent`, `GreenMeansKnown`, `DiffHonest`, `NothingForgotten` |
| `benchmarks` | the 50 recipes, 2 commands, 2 repetitions, pools of 3 commands on 2 workers; or 3 projects, 3 runs, 11 plans | `RefusedOnlyWhenBad`, `BuildsWhatIsPinned`, `OwnTreeOnly`, `PoolInsideTree`, `SamplesBalanced`, `CommandEnds`; `FinishedQuotesThisRun`, `FailureLeavesReadme`, `EqualShares`, `PlanFits` |

A property that is about several parts of one component is a conjunction of named parts,
its type invariant among them: `CountsExact`, `StatesExact`, `ThreadsExact`, `MutexAlive`.

Why the bounds are enough. Two threads are what a race in `StopToken` takes: one that
runs a callback and one that destroys it; the nesting of 2 lets a callback act from
inside another one, and two uses of an address let a later object be confused with an
earlier one. Two stop states matter because a thread's frames can belong to both; more
of them only repeat the pair. In `SharedPtr` two objects form a chain, so one
destruction causes another, and with two threads each destruction can race with a lock
or an atomic load; three objects were checked once (4.7 million states) and show the
same. `Future` has no step that concerns two states, so one is enough; three threads and
the one of `async` give a setter, a waiter and a third party that destroys or notifies.
Two states with two threads were checked once with the same invariants. In `CondVar`
three threads are two waiters, one timed and one not, and a third that notifies and
destroys; nothing in it is counted except references, which the threads bound.

Three nodes let a merge or a copy move one element and fail at the next, and give a range
of two in a list; with four, the ordered containers and the hash tables were each checked
once. Indexes and tables start at 1 instead of 4 and 16, so that they grow within those
nodes. The keys 0 and 4 share a bucket of 1, 2 and 4 and are separated by 3, so chains hold
equal and different keys and `rehash` splits them. The view leaves out what freed nodes
hold, and the two containers are interchangeable. A vector of three elements has every case
of a shift (constructed behind the end, assigned before it, destroyed in the gap); its
capacity starts at 1 instead of 4. The three families share no state, so a behaviour of
`containers` is one of one family. Nor do `StopToken` and `CondVar` in `waits`.

In `compliance` two headers with a common test are what it takes for two copies of one
result to differ in age. Three runs are a baseline, a seeded recheck and one more, or an
old run, a death and a gate; one edit between any two of them makes one result stale.
Samples of 1 leave tests unmeasured. One checkout: with two, the diff compares nothing
(see below).

In `benchmarks`, commands meet only through files, each of which was left by one command,
so two commands are enough for any of them to matter; the second is one whose archives or
directory the first can have left (`Related`, an action constraint; the others behave as
the first). Two repetitions show the turns, a pool of 3 on 2 workers has one command that
waits when another fails. For the reports, three projects are a first, a middle and a last
one; three runs are one that dies, one that reads what it left, and one after it. The plans
have budgets that are too small, that end between two projects, and that leave everyone at
the cap; all costs differ in some and two are equal in others.

`Locks` has one reader and two others on two mutexes, which is what it takes for `lock(a,
b)` and `lock(b, a)` with a third that is in the way of either; a recursion of 2 lets an
object's unlock leave a mutex locked. In `Thread` two started threads are enough for a
move to leave the wrong thread behind; a third only waits for itself.

`stop_two_states` does not check for deadlock: callbacks of two states that destroy each
other from two threads wait for each other for ever, which is the program's error. Nor do
`threads`, `compliance` and `benchmarks`: when all threads, runs and commands are over,
nothing is left to do.

## Fairness

`StopToken`: weak fairness of the steps a thread takes inside the library and of a
callback's return (`Proceed`): threads are scheduled, and a callback that never returns
is the program's. `Future`: the same for library steps and for the function of `async`;
strong fairness for the return of a task's function, whose thread may do other things
meanwhile, and for "a promise is set or destroyed", without which a wait need not end.
Both are obligations of the program, not of the library. `CondVar`: strong fairness of
the steps inside a wait, since a thread that waits for a mutex which is released again
and again does get it; weak fairness of the unlock of the program's lock, of time, and
of the end of a sleep whose deadline has passed. `Thread`: weak fairness
of the steps of a stop callback, a join, a registration and a wait, and of notifications,
which the program owes; strong fairness of the end of a function, which may wait again
and again but not for ever. There is none of `WakeEarly`, so a sleep that nobody wakes
lasts. `Locks` has safety properties only: two threads in `lock(a, b)` and `lock(b, a)`
that take turns in lockstep never get both mutexes. Elsewhere mutexes and condition variables
need no fairness of their own, since a critical section is one step. `SharedPtr` has
safety properties only: its compare-exchange loop is lock-free, not wait-free.
`RealworldBuilds`: weak fairness of `Run`, all steps of the process but its death: Python
goes on while it is not killed, and every command it waits for ends (each one fails or
succeeds in a step, and a command that hangs for ever is the project's). `CommandEnds` is
then about the process itself: no clean-up, no pool whose commands fail, and no sequence
of variants and repetitions goes round for ever. `Compliance` and `BenchmarkReports` have
safety properties only: each run is a fixed sequence of steps.

## Findings

1. `shared_ptr_self_owned`: both assignments release the left side before they read the
   right side (`src/include/memory:517`), so `head = head->next` reads freed memory.
2. `shared_ptr_reset_visible`: `reset`, assignment of `nullptr` and both assignments set
   the variable to null after the destructors have run (`src/include/memory:421`). With
   `struct T { ~T() { saved = current; } }`, `current.reset()` raises the count from 0 to
   1 in the destructor; `saved` then owns a destroyed object, and destroys it again.
   `reset()` is defined as `shared_ptr().swap(*this)`, which leaves `current` empty before
   the destructor runs.
3. `set_merge_moves_keys`: `set::merge` moves the key out of a node and then erases that
   node by searching the index for its key (`src/include/set:278`). A moved-from string is
   elsewhere in the order, so another node's entry is removed and the deleted node's
   stays; the next search reads freed memory.

Also seen in the models, without a run of its own:

- With `EagerReuse` in `StopToken`, `RunSafe` fails: the frame of a callback that
  destroyed itself stays on the thread's list with a dangling address. When a new callback
  is built at that address on another state and runs on another thread, the first
  thread's destructor of it finds the stale frame, does not wait, and frees a running
  callback (`src/src/stop_token.cpp:68`).
- With `DestroyInTimedWait` in `CondVar`, `ConditionAlive` fails:
  `condition_variable::wait_until` sleeps on the realtime clock and sleeps again when its
  own clock is not there yet (`src/include/__psychicstd_condition_variable_core:44`). When
  the object was notified and destroyed in between, it sleeps on a destroyed condition;
  the internal mutex is kept for that case, the condition is not.
- `lock(first, second)` leaves `first` locked when `second.try_lock` throws
  (`src/include/mutex:190`).
- `future::get` clears `ready` (`src/include/future:171`), after which a second
  `set_value` succeeds and a `packaged_task` runs again.
- The two cases of `Vector` and `map::merge` above; an empty range inserted into a vector
  assigns every later element to itself (`src/include/vector:744`).

Seen while the tools were modelled; the models follow the code:

- A base cache from another checkout than the head's has other paths, which
  `check_header` (`src/tools/compliance.py:540`) drops as no longer eligible, so the diff
  compares nothing and says "No changes detected."; `MCCompliance` has one checkout. The
  same words appear when a header's gains and losses cancel out
  (`src/tools/compliance_diff.py:84`).
- A word counter that does not compile is published as "n/a" by a run that ends well:
  `FinishedQuotesThisRun` allows `NA` for it.
- `compare_realworld_to_ref` adds its worktree before the `try` that removes it
  (`src/scripts/compare_realworld_to_ref.py:372`), so one that fails half-way stays
  registered.
- The estimates of `generate_realworld_benchmark_reports.py` are not scaled by `--jobs`
  (it warns, line 220), those of `compare_realworld_to_ref.py` are (line 163).
- `src/README.md:451` says six hours for `FULL`, `src/run_benchmarks.sh:17` seven; the
  usage of `src/tools/compliance.py:17` says "re-check only map" of a command that keeps
  what is cached.

## Proofs

Every theorem is about the modules that the runs check, for every value of their constants
that the named assumption allows. What the code does not bound is finite but otherwise free:
threads, callbacks and objects that are counted are finite sets, because a program has
finitely many of them at any time.

`StopToken_proofs` proves, for any finite sets of threads and callbacks, any states and any
bounds, from `StopTokenAssumption` and `~EagerReuse` (without it `RunSafe` fails, see the
findings):

- `TypeCorrect`: `Spec => []TypeOK` (no run lists `TypeOK`: the theorem says more)
- `RunIsSafe`: `Spec => []RunSafe`
- `WaitIsForSomeone`: `Spec => []WaitIsForACall`
- `StatesAreExact`: `Spec => []StatesExact`
- `KeepsThePromise`: `Spec => PromiseKept`, the refinement of `StopPromise`

`RunSafe` is not inductive: that a callback on a stack is alive depends on destructors
waiting, which depends on `running_`, on the list, and on where each thread is. The
invariant `IInv` is the conjunction of

- `TypeOK`;
- `FrameInv`: every frame names a callback that is off the list, in its epoch, and alive
  unless the frame is marked destroyed; no callback has two frames;
- `ListInv`: the callbacks on a list are alive, registered on that state, and appear once;
- `PcInv`: the callback a thread is constructing or destroying is in that phase, belongs
  to no other thread's call, and is on no stack that the phase excludes;
- `RunInv`: `running_` holds only while a call of the callback is on a stack, until the
  object is gone.

The argument: a callback leaves the list in the same critical section that sets
`running_` and pushes the frame (`TakeNext`), so from then until `StopRunning` clears it a
destructor on another thread waits (`PcInv`, `RunInv`), and one on the same thread finds
the frame, marks it and makes it not live (`FrameInv`). There is one lemma per action
(`...Keeps`), lemmas on the operators that several actions share (`RemoveCallback`,
`MarkDestroyed`, `ListElements`), then `Initially`, `Inductive` and `Invariant`.

`StatesAreExact` adds `NoneLeftBehind` itself, which is inductive with `IInv`; `FreeInv`, an
object that is gone refers to no state; and `RefsInv`, `RefsExact` with the references place
by place. An inlined call is counted at its thread and depth: `Refs(f, D, s)` is the number
of places of `D` at which `f` is `s`, and each action changes `f` at one place.

`KeepsThePromise` needs two facts more: `DestroyerInv`, a destructor that has begun is in the
hands of a thread, and `RequestedInv`, `request_stop` is in its loop only after it has set
the flag. The mapping gives a callback the phase `called` while a thread has a frame of it
that is not destroyed, and takes the thread from that frame. `CallersAre` says that there is
one at most, so that `At(c, p, s, w)`, what the promise sees of a callback, can be computed
from the frames (`AtCalled`, `AtRest`). Each action is then a step of the promise for its own
callback and changes nothing that the promise sees of the others.

`Waiting_proofs` proves, of `CondVar` and for any finite set of threads:

- `NotificationIsSeen`: `Spec => []NoMissedNotify`
- `QueueExists`: `Spec => []ConditionAlive`, if the program does not destroy the object
  during timed waits
- `MutexOutlives`: `Spec => []MutexAlive`

The first two come from five invariants: `Types`; `Guarded`, the internal mutex is held
by the thread whose `pc` says so and by no other; `Queued`, the threads in the queue are
the sleeping ones; `Pending`, who waits untimed and was not notified is pending;
`Exists`, the object exists while somebody is on the way into the queue. The argument
for the first: a thread holds the internal mutex from before it gives up the program's
lock until it is in the queue, and a notification needs that mutex.

`MutexOutlives` needs the count alone: `LInv` says that the references are the threads inside
a wait and the object, so nobody but the last of them deletes the state.

Of `Thread` it proves, for any sets of threads and of objects, from `ThreadAssumption`:

- `EveryThreadHasItsObject`: `ThreadSpec => []ThreadsExact`

`ThreadsExact` counts the objects of a thread, which is not inductive: a count does not say
which object it is, and nothing in it says what an assignment in the middle of a join will
find. `Inv` says it without counting. `Handles`: a joinable object has a thread that is not
over, no other object has that thread, and every thread that is not joined or detached has
one. `Detachments`: a detached thread runs or is gone. `Sources`: a jthread's source is its
thread's. `Calls`: what a join, a stop callback or an assignment that has begun finds when
it goes on. `Counts` turns `Handles` into the count.

`SharedPtr_proofs` proves, for any finite sets of threads and objects and any numbers of
variables, from `SharedPtrAssumption`, `SelfOwned = FALSE` and `ReadsReleased = FALSE`:

- `CountsAreExact`: `Spec => []CountsExact`
- `NothingUsedAfterFree`: `Spec => []NoUseAfterFree`
- `NobodyResurrected`: `Spec => NoResurrection`
- `AssignmentReadsLive`: `Spec => []AssignReadsLive`

The hypotheses are what the runs of findings 1 and 2 give up, one each: without the first
`AssignReadsLive` fails, without the second an object that is being destroyed gets an
owner. `AssignmentReadsLive` has the first one in its statement about assignments too: it
says that right sides which are kept alive by another variable, over however many members,
are read from live objects, and nothing of the others. No passing run lists
`AssignReadsLive`. The proofs speak of `own`, what a variable shows unless it has released
it, in the place of `sp`. `Inv` is the conjunction of the types; `LifeInv`, an object
lives while its count is above zero and its block while the weak count is; `CountInv`, the
counts are the pointers there are, and all the owners together, and after them the
destructor, hold one weak reference (`Implied`); `StackOK`, an object is on the stack of
one destructor at most, at the stage its life says; `DecOK`, a thread that has begun a
`dec` makes no call but a lock from a destructor, into another variable, and the released
variable is not null while destructors run; and `CallOK`, what a call has read is still
owned by somebody: a `lock` by the weak pointer it reads, `atomic_load` by the shared slot
that its spin lock keeps in place. The pointers are counted place by place: variables,
members, what a call has in its hands and the slot. A step that moves a pointer changes
two of these numbers by one; releasing the last owner makes the count zero and pushes a
destructor, in one step.

`Future_proofs` proves, for any finite set of threads, any states and any nesting, from
`FutureAssumption` and nothing else:

- `FuturesAreExact`: `Spec => []StatesExact`
- `OutcomesAreStable`: `Spec => OutcomeStable`

`FInv` is `TypeOK`, `PlacesInv` (at which places of which call a thread, or the thread of
`async`, can be) and, for each state, `At1(s)`: `PromiseInv`, who works for the promise has
it, and a state that is not ready has no outcome; `FutureInv`, one thread at a time has the
future, and the steps of `get` find what they take; `Counted`, `Stored` and `Notified`, the
three parts of `StatesExact`. Because `At1` is about one state, `Elsewhere` proves once that
a state without a part in a step stays as it is, and each action has a lemma about the one
state it works on. `OutcomesAreStable` follows because an outcome is written only by whom
`PromiseInv` finds before the state was ready.

`Locks_proofs` proves, for any sets of threads, mutexes, recursive mutexes and readers and
any depth of recursion:

- `NobodyWaitsHolding`: `Spec => []WaitsHoldNothing`
- `CalledOnce`: `Spec => []OnceExact`
- `LocksAreExact`: `Spec => []HeldExact`

`Inv` is enough for the first two: `Types`, `OnceExact`, and `Pair`, which says for each
place in `lock(first, second)` which of the two mutexes the thread has. The third needs
`CountInv`, which adds `Counted`, `InCall` (the objects that a `lock(first, second)` works
on have mutexes, and different ones) and `Own1` (an object that owns has a mutex), and
then `Exclusive`. Each action changes the counts, objects and calls of one thread only
(`OnlyItsOwn`), so it is enough to balance that thread's column; `Exclusive` follows from
`Rises`, that a step raises the column of its thread only for mutexes with nobody in its
way.

`OrderedNodes_proofs` proves, for any sets of containers, keys and values, any finite set of
nodes and any first capacity, from `OrderedNodesAssumption`:

- `ListsAreIndexes`: `Spec /\ Mergeable => []OrderedExact`
- `KeepsThePromise`: `Spec /\ Mergeable => PromiseKept`, the refinement of `SortedElements`

`Mergeable` leaves out the behaviours in which `OrderedExact` does fail: a `set` whose keys
change when they are moved from (finding 3, whose run gives this hypothesis up), and a `map`
whose index cannot grow after `merge` has moved a value (a hazard; the code promises nothing
for it). Only `set` and `map` merge. Every other allocation may fail, the growth of a set's
index in a merge too. `Inv` is the conjunction of

- `Lists`: head, tail, successors and predecessors of each container follow its index, entry
  by entry, and no node is twice in it (`Linked`), where `ListIsIndex` walks the chain;
- `Apart` and `Sizes`: the live nodes are those of the indexes, no two share one, and a map's
  size is the length of its index;
- `Sorted`: the keys ascend along the index, strictly in a set or a map;
- `LoopOK`: what a copy or a merge in progress is at; in a copy to a set or a map, all keys
  copied so far are below the next one;
- `OthersOK`, the remaining types, and `NoValueLost`.

Two facts carry it. Insertion and removal at a position of the index do to a linked list what
they do to a sequence (`LinkedInsert`, `LinkedCut`), for a range as well as for one node. And
the positions are right because the search is: `BinarySearchIs` says that it finds the border
between the entries to the left and those to the right when there is one, and `Sorted` says
that there is one (`SearchSplits`). So `Sorted` is needed for the list to match the index at
all, not only for the order: `erase` looks up by key what to remove from the index. `Walk`
and `BinarySearch` are recursive functions over numbers of steps. That they exist and what
they compute is proved by induction over sets of numbers (`NatMin`, `NatInd`), as for the
plan below; `LinkedWalks`, `LinkedWalksBack` and `LinkedWalksPart` then say that walking a
linked list gives its index, from the end in reverse, and from an entry to a later one the
run between them.

`KeepsThePromise` needs `Inv`, before and after a step, and `KeysReal`: no live node has the
key of a moved-from node, so what a copy inserts is an element. The refinement mapping takes
the elements from the index and never looks at links, so it is what the operations do to the
index that has to be related to sequences of elements: `ElementsInserted` and
`ElementsWithout` say that `InsertAt` and `Without` are `Insertion` and `Erase` there,
`ValueChanged` covers an assignment and the shell that a merge leaves behind, and
`PositionBelongs` that the position the search returns is the one where `SortedElements`
wants the element, behind all that are not greater. Then each operation has a lemma that
names the step it takes (`InsertPromised`, `ErasePromised`, `SwapPromised`,
`MergeInsertPromised`, ...); a failed allocation, a skipped element of a merge and the
beginning and end of a merge leave all elements as they are, which is a stutter.
`PromiseStep` puts these together.

`Compliance_proofs` proves, for any headers, finite set of tests, suites, libraries, samples
and number of runs, from `ComplianceAssumption`:

- `RecheckLeavesNothingStale`: `Spec => []RecheckIsCurrent`
- `GreenIsDeserved`: `Spec => []GreenMeansKnown`
- `NoResultIsForgotten`: `Spec => NothingForgotten`
- `ReportAddsUp`: `Spec => []CacheAddsUp`
- `DiffIsHonest`: `Spec => []DiffHonest`, if `Roots = {r}`

The properties speak of a run that has ended or is saving; the invariants say what holds on
the way there. `CurrentInv`: in a run that measures everything, the headers that are done
are current in `cache`, and so are the results of the present one; where nothing was loaded,
the cache has only headers that are done, so the present one starts empty. `GreenInv`: after
green, the failures in the file are in the baseline. `KeptInv`: a header that is not done
has in `cache` what was loaded; one that is done has each of the loaded results that still
count, and the present one has them in `tests` or among the `pending`. All of it rests on
`RunInv`, and on the fact that neither the suite nor the library changes while a run is
going on, which is so in the model because `Edit` happens between runs.

`ReportAddsUp` needs that every entry of every cache adds up (`EntryAddsUp`): its tests are
below the header's directories and no more than the eligible ones, and eligible and ignored
ones are together no more than there are. `FourParts` then gives the four columns of the
table. `DiffIsHonest` is about two caches made at different times. `CacheInv` says that they
are caches; `SeededInv` follows the job of the pull request: the file that it begins with is
the base's, and the recheck leaves the tests of the base that still count; `HonestInv` is
what the verdict of the diff says of each header. Its hypothesis is that the suite is at the
same path in the base's job and in the pull request's, as both workflows have it: the names
of tests are paths, so results found under two roots would be compared as different tests.

`Benchmarks_proofs` proves, of `RealworldBuilds` and for any recipes, repetitions, pool, number of workers and
of commands, from `BuildsAssumption`:

- `TreesAreOwn`: `Spec => []OwnTreeOnly`
- `PoolsStayInside`: `Spec => []PoolInsideTree`
- `BuildsArePinned`: `Spec => []BuildsWhatIsPinned`
- `RefusalsAreDeserved`: `Spec => []RefusedOnlyWhenBad`, if `RecipesAgree`
- `SamplesAreBalanced`: `Spec => []SamplesBalanced`, if `RecipesReport`

`CmdInv` says that a command is a command. `TreeInv` and `PoolInv` are what the first two
need at each place of the process. `FetchInv`: the archives before `at` are on disk and
pinned; `DownloadInv`: what is on disk under a recipe's name is its own, or bad. The
last theorem needs `TimesInv`, that the steps before `at` have timed their phases (`Done`),
and `SamplesInv`, that the samples are exactly what `rep` and `turn` say: the variants
before the present one are one ahead.

Of `BenchmarkReports` it proves, for any number of projects and runs and any inputs of the
plan:

- `FailuresLeaveReadme`: `Spec => []FailureLeavesReadme`
- `SuccessIsFresh`: `Spec => []FinishedQuotesThisRun`, from `ReportsAssumption`

and, for any number of projects, costs, budget and cap, of the loop of the plan by itself
(the run has it inside `BenchmarkReports`):

- `PlanTypeCorrect`: `PlanSpec => []PlanTypeOK`
- `SharesAreEqual`: `PlanSpec => []EqualShares`
- `PlanKeepsToBudget`: `PlanSpec => []PlanFits`

`FailuresLeaveReadme` is about failures before the write first of all; of later ones it
says what `HalfWritten` and the new text have in common. `BeforeInv` says that `README.md`
is as before until it is written, and that its rows then have their summary; `FreshInv` what
each place of the script knows: which reports are this run's, and that `README.md` has
all its markers when it is written, so that it listed every project when the run began.

With the types, `EqualShares` is inductive because it speaks of
`remaining + cost[p]`, the time there was before p's last repetition: that only falls from
one step to the next, so a project that could have had a repetition then was a candidate
with no less time, or has been given more since. `PlanKeepsToBudget` adds `BudgetInv`: while
the costs are added up, the minimum is the sum of those that were; later, what was given out
and what remains are the budget. The total is a recursive function on the numbers of the
projects, and the facts about it (`NatMin`, `NatInd`) are proved by induction over sets of
numbers in place of predicates.

Model-checked only:

- liveness and deadlock freedom, which are out of TLAPS's reach: `PromiseServed`,
  `DestroyEnds`, `WaitEnds`, `WaitReturns`, `JoinReturns`, `CommandEnds`;
- `HashTable` and `Vector`: that their chains and storage are exact, `StructuresExact`, and
  their refinements, `OtherPromisesKept`. An operation of a vector is a program of steps in
  memory that `Run` folds over storage; the proofs would be inductions over those programs.
  Chains of a hash table are walked like the lists of `OrderedNodes` and are in reach of the lemmas
  about `Walk`; that is not done.

## Not modelled

`PROJECT.json` lists every component with its status and the reason.

The library. The memory model is sequentially consistent: the orders given to the atomic
operations are taken to be strong enough. Allocation fails in `OrderedNodes`, `HashTable`
and `Vector`, and nowhere else; comparators, hash functions and equalities do not throw
there (a throwing hash leaves a table that is half rehashed, a throwing comparator leaks
the node of `emplace`). Mapped values of the unordered containers and the copy-and-swap
assignment of `multimap` are left out. Moved-from handles and `swap` rename handles and are
left out. Programs keep the rules the standard sets: a variable is not changed by two
threads at once, a promise is not destroyed while a call of it runs. `deque`, `list` and
`string` have the hazards of the containers that are modelled. Algorithms, regex, charconv,
chrono and the rest are pure functions over text and numbers: no state that a step could
find in the wrong order.

The tools. What a compiler is called with, how a table is laid out and what a line of a
report says; the statistics of `_benchmark_diff.py` (medians and bootstrap intervals over
random resamples) and the comparison of compile times, which keep no state; detection of
parallelism; arguments of the command line that only choose among these. Two processes at
once in one directory are not modelled, because nothing in the code provides for them: they
share `.compliance_cache.json`, the archives and the work directories without a lock. After
`Kill`, compilers that the process had started may still run; their files are in a tree
that the next build removes. `--build-type both` and a list of projects are commands one
after another. Loops over a project's own tests are taken twice.
