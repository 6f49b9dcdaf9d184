# Verification of cpp-archive

TLA+ specifications of the stateful parts of this archive of C++ components,
the TLC runs that check them on small instances, and theorems about them with
proofs checked by TLAPS. Paths of C++ files are relative to `src/`.

    tlc -config MCSharedMutexV1.cfg SharedMutexV1.tla     # any run of PROJECT.json
    tlapm SharedMutexV1Proofs.tla                         # any proof module

`SingleThreadedProofs` takes tlapm a quarter of an hour, the others a few minutes.

`PROJECT.json` lists the components, the runs, the mutants (for each property a
plausible slip in the code that breaks it), the source lines of every
definition, the findings, the hazards and the theorems.

Contents: 1. Inventory. 2. Plan. 3. The modules and the code. 4. The runs, their
properties and bounds. 5. Fairness. 6. Findings. 7. Proofs. 8. What is not
modelled.


## 1. Inventory

The repository is a set of independent header-only components and small
programs; `tests.cpp` and a few test programs are their only clients. So the
components interact in few places: lock handles call a mutex; the intrusive
order books and their tests share the definition of what a book does; `weak_ptr`
and `shared_ptr` share a control block. `vector_with_allocator` and `list` take
an allocator as a parameter, but nobody gives them another than `std::allocator`.

| component | state | operations | what is hard | what makes it correct |
|---|---|---|---|---|
| `concurrency/locks/shared_mutex_v1.hpp` | three binary semaphores, a plain counter | lock, try_lock, unlock, lock_shared, try_lock_shared, unlock_shared | all interleavings; semaphores released by another thread than acquired them; three orders of acquisition; try_acquire failing spuriously | exclusion, no race on the counter, no over-release, no deadlock, a writer is not starved by readers |
| `concurrency/locks/shared_mutex_v2.hpp` | a mutex, two condition variables, `writer_`, `readers_` | the same six | spurious wake-ups, notify_one against notify_all, writer waiting at a second gate | exclusion, no lost wake-up, a writer is not starved by readers |
| `concurrency/locks/unique_lock.hpp`, `shared_lock.hpp`, `common.hpp` | a mutex pointer and an ownership flag | five constructors, move, swap, release, lock, try_lock, unlock, destruction | long legal sequences over several handles; holds that no handle owns between release and adopt | every hold has exactly one keeper |
| `concurrency/spsc_queue.hpp` | N+1 slots, atomic head and tail | try_push, try_pop | memory orders, stale loads, wrap-around, throwing element operations | no race on a slot; a FIFO of N; delivery |
| `concurrency/spsc_queue_v2.hpp` | N+1 slots of raw storage | try_push, try_emplace, pop, destruction | the same and object lifetimes | the same; each object constructed and destroyed once |
| `misc/orderbook/v01` | levels of ids in maps, hash table of orders | add, cancel, getBestBid, getBestAsk | order of matching, partial fills, levels vanishing, 32-bit totals and ids that wrap | price-time priority, uncrossed book, totals agree with orders, same answers as the reference book |
| `misc/orderbook/v02` | intrusive doubly linked levels, hash table | the same | pointers into nodes that the table frees | the same; lists well formed |
| `misc/orderbook/v03` | vector of orders indexed by id, intrusive levels | the same | the vector moving its orders; dead orders told by qty = 0 | the same |
| `smart_pointers/shared_ptr.hpp`, `weak_ptr.hpp` | control block with two atomic counts; pointers | constructors, copies, moves, assignments, lock, use_count, destruction | last release against lock; two last releases; destructors that release further pointers; memory orders; self-reference in assignment; failing allocation | live objects while held, counts exact, no leak, no double deletion, no resurrection |
| `smart_pointers/unique_ptr.hpp` | a pointer and a deleter | reset, release, moves, destruction | destructors that use unique pointers again, `p = std::move(p->next)` | every object has one owner, at every call a destructor makes |
| `concurrency/thread_pool.hpp` | task queue, `stop_`, workers, mutex and condition variable | submit, shut_down, worker_loop, destruction | notifications that nobody sends, an uninitialised flag | every task runs, destruction ends |
| `concurrency/event_manager.hpp` | a table of callback lists | on, emit | callbacks that call on or emit; callbacks that throw | emit runs the callbacks there were when it began |
| `concurrency/ping_pong.cpp` | two binary semaphores, or an atomic turn with wait and notify | two threads alternate | a store between the load and the wait | strict alternation, termination |
| `stl/vector/vector.hpp`, `vector_with_allocator.hpp` | buffer, size, capacity | constructors, push_back, emplace_back, pop_back, reserve, resize, clear, copy, move | element operations and allocations that throw | elements constructed and destroyed once, old state kept on failure |
| `stl/list/list.hpp` | circular nodes with a lazily made sentinel | insert, erase, push and pop at either end, clear, copy, move | the empty list without a sentinel, a copy that throws midway | links well formed, nodes freed once |
| `stl/string/basic_string.hpp` | small buffer or heap, sharing storage | constructors, append, push_back, reserve, clear, copy, move | each change of representation | content kept, buffer freed once |
| `misc/allocator/pool_allocator.hpp`, `arena_allocator.hpp` | free list of blocks; bump pointer | allocate, deallocate, moves; allocate, reset | blocks handed out twice; alignment at the end of the arena | live blocks disjoint |
| `misc/type_erasure/*` | erased object, inline or on the heap, and its table | clone, move, destroy, call | moves between representations, copies that throw | each object destroyed once, by the table of its type |
| `ipc/shared_mem`, `ipc/unix_domain_socket`, `ipc/pipe` | shared memory and two semaphores; sockets; a pipe | two processes exchange messages | death of a process, order of start-up, partial reads, what a killed run leaves behind | alternation, whole messages, an end |
| `stl/span`, `stl/tuple`, `utility` | none | views, compile-time recursion, type traits | none at run time | |

The hazards, each at the line where it bites and with the properties that
cover it, are in `PROJECT.json`.


## 2. Plan

The order puts first what is concurrent and was hardest to test.

1. Reader-writer mutexes against one abstract mutex; proofs. *Done.*
2. Lock handles over that abstract mutex. *Done.*
3. The two rings, with the part of the C++ memory model they rely on, against
   one abstract bounded FIFO. *Done.*
4. The three order books against the reference book of their own test. *Done.*
5. `shared_ptr` and `weak_ptr` with counts, lifetimes and memory orders. *Done.*
6. The programs that hand something over between threads or processes, each as
   a module, and `Concurrent` over them: both ping-pongs, the shared-memory
   ping-pong and the socket programs with processes that are killed, the thread
   pool. *Done.*
7. The classes that one thread uses at a time, each as a module, and
   `SingleThreaded` over them: the two vectors, list, string, the two type-erased
   `Shape`s, `unique_ptr`, pool, arena, event manager, with allocations and
   element operations that throw. *Done.*
8. Proofs for every value of the constants, as listed below. *Done for the
   mutexes, the lock handles, the rings, `shared_ptr`, `Concurrent` and
   `SingleThreaded`.*
9. `misc/type_erasure/function.hpp`, if it comes to delete what it allocates.

Abstract specifications: `SharedMutex`, `BoundedFifo`, `ReferenceBook`,
`ElementSequences`, `Turns`; all written.

Components without shared state are checked in one run, which chooses the
component in its initial state (`version` in `OrderBooks`, `subject` in
`SingleThreaded` and `Concurrent`) and never mixes two. So the states add up
and do not multiply, and the number of runs is that of the questions asked.

Theorems, in order: type correctness, exclusion, race freedom, wake-ups and
refinement of the two mutexes; race freedom, lifetimes and FIFO refinement of the
rings for every N; the keepers of the lock handles; exact counts, lifetimes,
`NoResurrection` and race freedom of `SharedPtr`; that the ping-pongs and the shared-memory program
take turns, and that the server and the thread pool serve in order; that the
classes of `SingleThreaded` own what they allocate, `BlocksAccounted` and
`EmitsRegistered`. All *done*. Left: the list operations of `IntrusiveLevels`
that do not recurse; that the containers implement `ElementSequences`.


## 3. The modules and the code

`SharedMutex` is what a shared mutex promises: a set of readers or one writer.

`SharedMutexV1`. A thread's `pc` names the next statement of the call it is in
(`ls_reader`: `lock_shared` about to acquire `reader_`). Each semaphore
operation and each access to `num_readers_` is a step, so
`num_readers_++ == 0` and the acquisition that follows it are two.
`try_acquire` may fail at any time, as the standard allows. `Release` adds one
and does not saturate. `Call` is the client; `Step(t)` the code. A reader counts
as a holder (`SharedHolders`) from the step at which its group owns `resource_`,
or it sees that the group does, to the step that gives it up.

`SharedMutexV2`. `m_` protects all fields, so a critical section is one step; a
thread blocked in `wait` is in `x_asleepN`, one about to evaluate the predicate
of gate N in `x_gateN`. `SpuriousWakeup` may move it at any time. The notifying
call and the waking of the threads is one step: between the two nobody who
holds `m_` can tell.

`LockHandles`. A handle is the pair `m_`, `owns_`, or out of scope. One set of
actions describes both classes, whose text is the same but for the mutex
functions called. Mutexes are taken and given back in one step, which is what
`SharedMutex` grants. `raw` holds the holds kept by client code: taken before an
adopting constructor, or handed out by `release()`. A call that throws
`system_error` changes nothing and is not a step. Client code keeps the mutex's
own contract: a thread does not acquire what it holds.

`ReleaseAcquire` is a `std::atomic` with one writer and one reader: all the
values stored, the newest one seen, and how many of the writer's buffer accesses
are known to have happened. A load returns any store not older than the last one
seen; an acquire load of a release store makes the writer's accesses known.

`SpscQueue`, `SpscQueueV2`. A call is a load of the other side's index, an
access to a slot, and a store of the own index; the middle step may throw. Slots
remember the number of their last write and take, for `NoDataRace`. In
`SpscQueueV2` a slot is raw or holds an object, and the destructor, which runs
when both threads are done, ends the queue's life. `BoundedFifo` is what both
promise; the queue's contents are the items sent and not yet delivered.

`OrderTypes` holds what the books share: quantities modulo `QtyMod`, identifiers
modulo `IdMod` (2^32 in the code), the sorting of the two maps. `ReferenceBook`
is the class of that name in `orderbook_test.cpp`, kept filtered by side and
price. In `OrderBookV1`, `OrderBookV2` and `OrderBookV3` a call is one step (a
book has one thread), and the loops of `match` are recursive operators. `result`
is what the call returned, so the refinement compares every answer, not only
the resting orders. The getters change nothing and are operators;
`BestLevelsAgree` compares them with the orders. `IntrusiveLevels` is the code
v02 and v03 have in common: orders are records at addresses with `next` and
`prev`. `KeepFilled` tells the two apart: v02 erases a filled order, v03 leaves
it in its vector. In v03 an address is `<<buffer, id>>`, and `EmplaceBack`
moves all orders to a new buffer when the vector is full.

`OrderBooks` is the test's own harness. `version` is the header the test is
compiled with: either a v01 and a v02 book get every call together and are
compared with the reference and so with each other, or a v03 book gets it alone,
since it forgets nothing and its calls need a bound.

`SingleThreaded`. A class that one thread uses has a call per step. The harness
keeps every subject in the same variables: `obj` maps the client's variables to
the objects' fields, or to `Absent` out of scope; `mem` is what they allocated;
`aux` what else there is. `did`, which the classes' modules name `call`, and
`threw` record the last call; no guard reads them. A step includes what the `catch` blocks and destructors undo when
something in the call throws.

- `Heap` is what all their memories have in common: cells that come and go.
- `RawStorage` is the memory of the two vectors: buffers whose slots are raw or
  hold an object. `mem.sound` remembers whether an object was ever constructed
  over another, destroyed twice, or lost with its buffer.
- `Vector` (`vector.hpp`). `transfer` is what `std::move_if_noexcept` makes of
  the element type; `Stops(n)` are the places at which a transfer may throw.
- `Vector2` (`vector_with_allocator.hpp`) has hardly a `try`. An exception leaves
  what the call had done. Where that is nothing it may always occur, elsewhere
  only if `Unguarded` (section 6).
- `List`: nodes at addresses, the sentinel made with the first element; a call
  that needs a node may throw, and one that copies may throw after any of them.
  An iterator taken before there was a sentinel leads to nowhere, and `insert`
  takes it for the end.
- `BasicString`: `capacity_` and `buffer_` are one union, so that writing one
  makes the other `Lost`. A text stands for its characters and the '\0'.
- `Shape` (`type_erasure.hpp`), `CustomVtable` (`custom_vtable.hpp`): every value
  stands for a type of its own, so an object destroyed by another type's table
  is seen. In the first, `Fitting` values lie in `buf`.
- `UniquePtr`: `dying` is the stack of the objects being deleted, each either in
  the body of its destructor, which may use any `unique_ptr` that still lives, or
  in the destruction of its member. Move assignment releases the other, sets
  `ptr_`, and then deletes the old object; the deleter it assigns afterwards has
  no state. A client that hangs an object below itself is excluded.
- `PoolAllocator`: a block is `Data` while the client has it and else the `next_`
  of the free list. `Arena`: the addresses of the buffer and the alignments vary,
  so the padding does.
- `EventManager`: `emits` is the stack of the calls of `emit`, each with its
  snapshot; a callback may call `on` and `emit`, return, or throw.

`ElementSequences` is what the containers' calls promise: each does what it
should, or throws and leaves the elements as they were, unless elements can only
be moved and moving throws (`fragile`). A `Shape` is a sequence of at most one.

`Concurrent`. The harness keeps every subject in `sync`, `data`, `pc`, `nth` and
`log`.

- `PingPong1`, `PingPong2`: each operation on a semaphore or on `turn` is a step;
  a player asleep in `turn.wait` is woken by `notify_one` or for no reason.
- `SharedMem`: a message is written in two halves, which the child would read
  apart if it came too early. `Kill` ends a process at any step; `Run` starts the
  program again when both are gone, in the shared memory that a killed parent
  did not unlink, with its half message and semaphores.
- `UnixSocket`: the client and the server are started by hand in either order.
  A read takes any part of what is there. A call that fails ends the program, as
  a kill does. A killed server leaves its path.
- `ThreadPool`: whatever is shared is used with `m_` held, so a critical section
  is a step: `Enter(w)` is a pass of `worker_loop` from `lock` or from the return
  of `wait` to the next wait, exit or task. `stop_` is anything at first. Nobody
  notifies, so a waiting worker goes on only if it wakes for no reason. A thread
  that cannot be started makes the constructor shut down and join (`SpawnFails`).
- `Turns` is what two parties promise that take turns.

`SharedPtr`. Pointers of one thread to one block are indistinguishable and so
are counted (`shared`, `weak`). Every atomic operation is a step. A call leaves
its remaining work on the thread's `agenda`, a stack: `DecStrong`, then
`Dispose`, then what the object's destructor releases, then `DecWeak`, then
`Destroy`. An object may hold one `shared_ptr` (`member`) to an older block.
`Cas` is one round of the loop in `lock`. With `TrackOrder`, an access to an
object or a block is remembered with the thread, and sets of accesses follow the
happens-before relation through the counts' release sequences.

In each module the section "Slips a maintainer could make" holds the mutants;
nothing else refers to them.


## 4. The runs

| run | what is asked | bounds | distinct states |
|---|---|---|---|
| `mutex_v1` | `MutualExclusion`, `NoRaceOnNumReaders`, `NoOverRelease`, `NoStuck`, refinement of `SharedMutex`, `WriterAdmitted` | 4 threads | 81,988 |
| `mutex_v2` | `MutualExclusion`, `NoLostWakeup`, refinement, `WriterAdmitted` | 4 threads | 5,392 |
| `lock_handles` | `OneKeeperPerHold` | 2 threads, 2 mutexes, 2 unique and 3 shared handles | 66,432 |
| `spsc` | `NoDataRace`, refinement of `BoundedFifo`, `FailsOnlyWhenFull`, `EventuallyDelivered` | N = 2, 2 items, 4 pushes | 5,858 |
| `spsc_v2` | `NoDataRace`, `LifetimesRespected`, `NoLeak`, refinement | N = 2, 2 items, 5 constructions | 6,133 |
| `books` | `NotCrossed`, `RecordInserts`, `ListsWellFormed`, `BestLevelsAgree`, `PriceTimePriority`, refinement of `ReferenceBook` | 2 prices, quantities 0-3; v01 and v02: 4 ids; v03: 4 adds | 206,197 |
| `book_v3_growth` | violation, section 6 | room for one order | |
| `shared_ptr` | `HeldObjectsAlive`, `NoUseAfterFree`, `NoLeak`, `CountsExact`, `NoResurrection` | 2 threads, 2 blocks, 3 shared and 2 weak pointers | 100,520 |
| `shared_ptr_order` | `NoDataRace` | 2 threads, 1 block, 2 and 2 pointers | 415,847 |
| `shared_ptr_alias` | violation, section 6 | 1 thread, 2 blocks | |
| `single_threaded` | `StorageOwned`, `BlocksAccounted`, `EmitsRegistered`, refinement of `ElementSequences` | 2 variables, 2 values, capacity and length up to 4; the others below | 108,722 |
| `threads` | `ServedInOrder`, `TakesTurns`, `Terminates` | 5 rounds, messages or bytes; 3 workers, 5 tasks | 18,835 |

The runs of the mutexes check the type invariant of their module. Elsewhere an
ill-typed state violates a property that says more: in the books it is part of
`ListsWellFormed`, in the handles of `OneKeeperPerHold`, in the single-threaded
classes of `StorageOwned` and `BlocksAccounted`. The type invariants of the
rings are part of the invariants proved in section 7. What each property says is in the comment above it.

Why the bounds are enough:

- *Threads of the mutexes.* Two writers and two readers meet every order of
  arrival; the first-reader and last-reader roles need two readers, a third
  thread to disturb them, and a writer that waits. The safety properties are
  proved for every finite set of threads (section 7), so four matter only for
  `NoStuck` and `WriterAdmitted`.
- *Handles.* A shared lock needs two handles of one thread and one of another to
  confuse; two mutexes are needed for assignments between handles that own
  different ones.
- *N, `MaxPush`.* Three slots and four or five writes wrap both indices round
  the ring, with every load as stale as the memory model allows. `MaxPush`
  bounds the length of the history only. Two items tell order and duplication
  apart.
- *`QtyMod`, `IdMod`.* Quantities of 2 bits make totals wrap with two orders and
  include zero. Four identifiers are given out again many times in `books`,
  where runs of any length are explored. `ReuseIds` = FALSE excludes
  an add whose identifier still rests, see section 6. Two prices give a best
  and a next level on each side.
- *`MaxAdds`.* In v03 orders are never forgotten, so the number of adds bounds
  the state; four adds and any cancels reach lists of four, removal from the
  middle, and dead orders beside live ones. `MaxAdds` < `IdMod` leaves out the
  wrap of identifiers, which in the code needs a vector of 2^32 orders.
- *`MaxCapacity`.* Capacities 0, 1, 2 and 4, and 3 by `reserve`: growth from
  nothing, growth with an element to move, and growth that more than doubles
  (`resize`), each with every element operation failing. Two variables give
  assignment to empty, smaller and larger ones. A list has room for five nodes
  (`MaxNodes`): a sentinel and four elements, or two lists with their own. The
  string's buffer holds two characters and the '\0' (`InlineSize` = 3; 16 in the
  code), so that four characters are too many for it and for the capacity it
  grows to first. `Unguarded` = FALSE excludes some failures, see section 6.
- *Symmetry and view of `single_threaded`.* The variables are interchangeable;
  nothing but the calls' own record tells them apart. `View` leaves out `did`
  and `threw`, which no guard reads: two states that differ there alone have the
  same successors. TLC still compares every transition with `ElementSequences`,
  whose steps read the new values of `did` and `threw` and not the old ones.
- *`unique_ptr`, pool, arena, events.* Three objects hang from one another and
  from two variables. Three blocks are returned in every order. The arena has 7
  bytes at an address that is or is not a multiple of 8, and alignments of 1, 2
  and 8, so that padding occurs in front, between, and where it no longer fits.
  Four callbacks on two events, and three emits within one another.
- *`Times`, tasks, workers.* Five rounds is what `ping_pong.cpp` and
  `shared_mem.cpp` have. Five bytes read two at a time at most end in a full or a
  part read. Three workers can be waiting, running a task and between the two
  while the client submits or shuts down. Two runs (`MaxStarts`) suffice for one
  to find what another left, two clients for one to come while the server has or
  has had another. `BufferSize` is what one `read` of the socket takes at most.
- *`MaxShared`, `MaxWeak`, `Block`.* Two threads can each be in the middle of a
  release or a `lock` while a third pointer lives; two blocks give an object
  that holds a pointer to another and a cascade of destructors. A block is never
  reused, so the bound on blocks bounds the run. Order tracking multiplies the
  states, so it has a run of its own with one block; three threads with order
  tracking are out of reach.


## 5. Fairness

- *Mutexes:* weak fairness of `Step(t)` for each thread: the scheduler runs a
  thread that can run, and a client ends its critical section. Nothing makes a
  client start a call, no semaphore prefers a waiter (a thread that keeps losing
  the race for a semaphore may lose for ever), and no spurious wake-up is
  counted on. `WriterAdmitted` therefore speaks of a writer that has passed the
  turnstile, or has set `writer_`; that it gets so far is not promised by
  either class and not claimed.
- *`SpscQueue`:* the consumer polls (weak fairness of its steps), as the test's
  consumer does; a load does not return an old value for ever (strong fairness
  of the load of the newest store: the standard asks that stores become visible
  in a finite time); an element move that throws does not throw every time;
  the producer finishes a call it has begun, but need not begin one.
- `Concurrent`: weak fairness of each player, of the parent, of the child, of
  the server, of the client and of each worker: the scheduler runs what can run,
  and tasks end. Nothing wakes for no reason, is killed, started again, submitted
  or shut down because it must. So `Terminates` says of the pool only that tasks
  do not stay in the queue while a worker is awake, which is all that holds
  (section 6).
- No other run uses fairness.

`CHECK_DEADLOCK FALSE` stands where the system may stop: a queue that has been
destroyed, threads that have used up the blocks there are, and the programs of
`Concurrent`, which end.


## 6. Findings

- `book_v3_growth`: the constructor of the v03 book reserves room for 5,000,000
  orders and nothing stops an add after that. The vector then moves its orders,
  and the pointers in levels and orders keep naming the old buffer, which has
  been freed. Reading it is undefined; the run takes the mildest outcome, in
  which the freed memory keeps its contents, and even then `getBestBid` or
  `getBestAsk` soon disagrees with the orders, which `orderbook_test.cpp:355`
  compares. The run has `Reserve` = 1 for 5,000,000.
- `shared_ptr_alias`: `operator=` releases the old object before it reads its
  argument. In `p = p->next`, where `p` is the only owner, the argument is a
  member of that object. The run is that of one thread with a list of two
  objects. `Aliased` = FALSE in the other runs excludes such programs: there
  an assignment from a member needs another pointer to keep the object.

Some disagreements have no run of their own; each is one constant away:

- `current_order_id` wraps after 2^32 adds, an order may rest for ever, and the
  assertion `assert(result.second)` of `v01/orderbook.hpp:105` then fails. With
  `ReuseIds` = TRUE in `MCOrderBooks.cfg`, TLC shows `RecordInserts` violated.
  v02 has the same counter and no assertion.
- `emplace_back` of `vector.hpp:219` counts `size_` up before it constructs the
  element in place. If the constructor throws, the vector has an element that
  does not exist, which its destructor destroys. `tests.cpp:69` counts live
  instances "so tests can catch leaks and double destruction", but none of its
  tests throws there. With `Unguarded` = TRUE in `SingleThreaded.cfg`, TLC shows
  `StorageOwned` violated: construct, reserve, a `push_back` that throws.
- `vector_with_allocator.hpp` gives nothing up on the way out of a call that
  throws. The new buffer of a `push_back` that has to grow leaks, with the
  elements already in it (line 104), and copy assignment has destroyed its elements
  and freed the buffer, to which `data_` still leads, when it allocates (45).
  With `Unguarded` = TRUE, `StorageOwned` is violated there after two calls.

What the models show of the code without a document that says otherwise:

- `thread_pool`: nobody notifies the condition variable. Once all workers wait, a
  task submitted stays in the queue and the destructor joins for ever, unless a
  worker wakes for no reason. A `stop_` that happens to be true at first makes
  workers leave before a task is there; `ServedInOrder` allows that, for tasks
  submitted while `stop_` is true. The captures of the lambda in `submit`
  name types and not values, so a call of it does not compile; it is modelled as
  what it means.
- `custom_vtable.hpp`: copying a shape that was moved from dereferences a null
  pointer, where `type_erasure.hpp` tests for it. The model excludes the call.
- `shared_mem.cpp`: if one process is killed the other waits at its semaphore for
  ever. `Terminates` promises an end only without kills.
- `function.hpp` never deletes the callable it allocates; `model_concept.hpp` and
  the `arena_allocator` adapter do not compile.


## 7. Proofs

TLAPS checks all of this. The theorems about the mutexes hold for every finite
set of threads (`ThreadAssumption`), those about the rings for every capacity
N >= 1, every set of items and every bound `MaxPush` (`QueueAssumption`, which
also says that `Moved`, or `Raw`, is no item). Those
about `Concurrent` hold for any rounds, tasks, messages, buffers, starts and
workers (`ConcurrentAssumption`), except that `Served` asks for at least one
worker: without any the pool keeps its tasks. Those about the lock handles hold
for any finite sets of threads and handles and any mutexes
(`HandleAssumption`). Those about `SharedPtr` hold for any finite sets of
threads and blocks and both values of `TrackOrder`, and assume `~Aliased`:
with it they are false (section 6). Those about `SingleThreaded` hold for any
client variables and values, any bounds, a string buffer of two characters or
more, a pool of at least one block, and an arena of any size, address and
alignments (`SingleThreadedAssumption`, which also says that the names of what
is not there, `Null`, `Absent` and the like, are none of the things that are).
What `StorageOwned` says of the vectors assumes `~Unguarded`, and is false
without it (section 6); of the other classes it is proved whatever throws
(`OwnedWhateverThrows`).

| module | theorem | statement |
|---|---|---|
| `SharedMutexV1Proofs` | `TypeCorrect` | `Spec => []TypeOK` |
| | `Exclusion` | `Spec => []MutualExclusion` |
| | `RaceFreedom` | `Spec => []NoRaceOnNumReaders` |
| | `SemaphoresBinary` | `Spec => []NoOverRelease` |
| | `Implementation` | `Spec => ImplementsSharedMutex` |
| `SharedMutexV2Proofs` | `TypeCorrect` | `Spec => []TypeOK` |
| | `Exclusion` | `Spec => []MutualExclusion` |
| | `WakeupsKept` | `Spec => []NoLostWakeup` |
| | `Implementation` | `Spec => ImplementsSharedMutex` |
| `SpscQueueProofs` | `RaceFreedom` | `Spec => []NoDataRace` |
| | `RefusesOnlyWhenFull` | `Spec => FailsOnlyWhenFull` |
| | `Implementation` | `Spec => ImplementsBoundedFifo` |
| `SpscQueueV2Proofs` | `RaceFreedom` | `Spec => []NoDataRace` |
| | `LifetimesKept` | `Spec => []LifetimesRespected` |
| | `NothingLeaks` | `Spec => []NoLeak` |
| | `Implementation` | `Spec => ImplementsBoundedFifo` |
| `LockHandlesProofs` | `Invariance` | `Spec => []IInv` |
| | `KeepersCounted` | `Spec => []OneKeeperPerHold` |
| | `ImplementsSharedMutex` | `Spec =>` the specification of each mutex |
| `SharedPtrProofs` | `Invariance` | `Spec => []IInv` |
| | `Exact` | `Spec => []CountsExact` |
| | `HeldAlive` | `Spec => []HeldObjectsAlive` |
| | `NoneUsedAfterFree` | `Spec => []NoUseAfterFree` |
| | `NothingLeaks` | `Spec => []NoLeak` |
| | `NoneResurrected` | `Spec => NoResurrection` |
| | `RaceFreedom` | `Spec => []NoDataRace` |
| `ConcurrentProofs` | `Invariance` | `Spec => []IInv` |
| | `Served` | `Spec => []ServedInOrder` |
| | `TurnsTaken` | `Spec => TakesTurns` |
| `SingleThreadedProofs` | `Invariance` | `Spec => []IInv` |
| | `OwnedOnce` | `Spec => []StorageOwned`, if `~Unguarded` |
| | `OwnedWhateverThrows` | `Spec => [](subject` not a vector `=> StorageOwned)` |
| | `NoBlockLost` | `Spec => []BlocksAccounted` |
| | `SnapshotEmitted` | `Spec => []EmitsRegistered` |

*V1.* Exclusion is not inductive: it does not say why `resource_` is taken when
a writer meets a reader. The invariant `IInv` says who holds each semaphore:

- `turnstile_` and `reader_` are 0 exactly while one thread, and only one, is
  at the labels between acquiring and releasing them (`TurnstileGuarded`,
  `ReaderGuarded`);
- `num_readers_` is the number of threads whose call has counted itself
  (`ReadersCounted`);
- `resource_` is 0 exactly while a writer is in or the group of readers owns it,
  and never both (`ResourceOwned`);
- the reader about to acquire it is the only one counted, and when one is about
  to release it none is (`FirstAndLast`).

`GuardAcquire`, `GuardRelease` and `GotoMoves` reduce a step to the sets of
labels the thread leaves and enters; the two counting lemmas come from the
theorems on finite sets. Each action that touches `num_readers_` or `resource_`
has a lemma of its own; the rest share `GateStep`, `WriterStep` and `InnerStep`.
`RaceFreedom` follows from `ReaderGuarded`: all accesses to the counter are at
labels that hold `reader_`. In `Implementation` a step either leaves both sets
of holders alone (`InvisibleStep`) or is one of the four abstract steps
(`VisibleStep`), whose guard `ResourceOwned` provides.

*V2.* `readers_` is the number of threads in "reader"; `writer_` is set exactly
while one thread has claimed it; a thread in "writer" sees no readers; and
`NoLostWakeup` itself is needed, since it tells `unlock` and `unlock_shared`
whom they have to wake.

*The rings.* What the code compares are positions, and a position does not tell
how often its index went round. The invariant therefore counts, from the
histories of the two atomics: `Pushed` and `Popped` are the stores there were,
`SeenPushes` and `SeenPops` those the other thread has seen.

- the kth store of an index is k modulo N + 1 (`CellsOK`);
- Popped <= SeenPushes and Pushed <= SeenPops + N, strictly while a thread is
  past its check (`IndicesOrdered`): however stale its load, a thread that goes
  on is right;
- the store of a push that is not yet popped publishes the write of its slot, and
  that of the pop before a slot is used again the take from it (`WritesPublished`,
  `TakesPublished`). This is what the release and acquire orders are for, and with
  `IndicesOrdered` it is `NoDataRace`;
- the slot of the kth push holds the kth item until it is popped
  (`ItemsInPlace`; in v2 `ObjectsInPlace`, which says of every slot what object
  is in it, `Held`, so that lifetimes and leaks follow).

The last step from positions to counts is arithmetic: two numbers less than
N + 1 apart have different remainders, and N + 1 apart the same. `SpscQueueProofs`
proves what is needed of `%` from its division lemma (`DivMod`), and what a load
and a store do to the history of an atomic; `SpscQueueV2Proofs` takes these lemmas
from it by an INSTANCE, `Ring`. In `Implementation` the abstract queue
is the part of `sent` that is not delivered; the store of one index is its push,
that of the other its pop, and every other step leaves it alone.

*The lock handles.* A keeper is a handle that owns, or what `release` took out of
one, and has a hold: a thread, a mutex and a mode. `OneKeeperPerHold` counts; the
invariant says the same without numbers: every hold has a keeper and every keeper
a hold (`HoldsKept`), no two have the same one (`KeepersApart`), and no mutex has
two writers (`OneWriter`), since `unlock` empties the set of writers whoever is
in it. So whoever unlocks has locked, which is the guard that `SharedMutex` puts
on its unlocks.

*shared_ptr.* The counts are exact, but that alone is not inductive. `IInv` adds

- when a disposal or a deletion is due: exactly one `Dispose` of a block is on the
  agendas while its object lives and `strong_count` is zero, and else none; in the
  same way one `Destroy` while the block lives and `weak_count` is zero (`BlockOK`);
- why every other job may run: a thread about to increment a count, to read a
  member or to try a `Cas` has, all the while, a pointer that keeps what it
  reaches for (`JobsJustified`).

The counts are cardinalities of sets of tagged pointers and jobs (`Held`,
`Inside`, `Pending`), and each action adds or removes one element of at most two
of them. `NoneResurrected` follows: of a count of zero there is no
pointer to copy, and a `Cas` goes on only if the count is what it loaded, and
that is not zero.

`RaceFreedom` needs to know by which way each access to an object or a block gets
to the thread that frees it. `OrderInv` says that it always has a *guard*: a
pointer, or a release or a disposal under way, whose thread knows of the access, or
a count that is not yet zero and carries it. A pointer may be moved into a member
of another object, which another thread may then free, so the guard of an access to
b need not be at b: in every set of objects that contains b and is closed under
"is pointed to by a member of", one object has a guard (`AccessesGuarded`). For a
block, the weak_ptrs and `weak_count` count as guards as well. The thread
that takes a count to zero then knows what it carried (`Acquired`), as its
`fetch_sub` acquires; and nothing comes between the disposal of an object and the
decrement of `weak_count` that follows it (`DisposesNext`).

*The ping-pongs.* Alternation needs to know where the turn is. In `PingPong1` it
is a semaphore at 1 or a player between acquire and release, and the rounds of
both players and the lines written are functions of who has it. In `PingPong2`
the turn is the atomic; a player that has stored it may be about to notify while
the other writes already, so its round counts from the store on.

*Shared memory.* At most one of the two semaphores and of the two processes has the
turn (`ShmOneTurn`); a process that is killed takes it along, until the next run
sets the semaphores anew. A message that the child has not read is whole, and its
number says how long the log is (`ShmCounted`).

*The socket.* What the server has from its first client, followed by what is on the
way, is nothing or the message (`Delivered`); a server that stops has
read to the end (`ReadToEnd`).

*The thread pool.* The property says nothing until the workers are joined. The
invariant adds the reason: tasks are numbered as they were submitted, those taken
first, those queued after, and what is queued once a worker has left came too late.

*The containers and Shapes.* What `StorageOwned` says it says with cardinalities,
folds over the heap and walks from node to node. The invariant says the same with
quantifiers, and is the same for the string, both `Shape`s and both vectors
(`Storage`): a variable's record leads to a cell of its own or to none; record and
cell belong together, in a way that each class defines (`StringPairs`,
`VecPairs`, ...); and every cell is some variable's. A call that keeps a cell, gets
one, gives one up or changes hands is an instance of `StorageKept`, `StorageNew`,
`StorageGone`, `StorageMoved` and the like; what is left to show of each class is
what its record and its cell hold. For the vectors that is which slots hold
objects, at each place where an element operation may throw, and that what the
`catch` blocks and destructors then undo leaves none behind.

*The list.* The nodes of a variable are a function from 0 .. size to addresses, the
sentinel at 0, each node's `next` the following one and its `prev` the one before,
round the circle (`Ring`); no node is on two circles and each is on one
(`Circles`). Insertion and erasure shift the numbers behind the place; a copy numbers
fresh nodes. `Walk`, a recursive function, is shown to go round the circle with
`Induction`, a lemma about sets of naturals, proved from well-foundedness: the
library's induction theorem takes an operator, which no prover here instantiates.

*unique_ptr.* Whatever is not being deleted has one owner, and what is has none;
the members of an object no longer count from where its destructor has begun to
destroy them (`Owners`). This is what lets a destructor's body use any pointer
that is left, its own member included.

*The pool.* The free list of an allocator is a sequence of distinct blocks, each with
the next one in it, in which every block is that the client does not have
(`Chain`). *The arena.* Blocks lie below the offset, apart from one another. *The
event manager.* What an emit has run is the part of its snapshot before the place
it has reached (`Ran`).

The invariants of all modules but one were found true by TLC, on the instances of
the runs, before they were proved. That of `SingleThreaded` says of records and
memories that they are in infinite sets, so TLC checks what follows from it.

Only model-checked: `NoStuck` (it uses ENABLED); `WriterAdmitted`,
`EventuallyDelivered`, `Terminates` (liveness), which this prover does not reach;
the order books, whose loops are recursive operators; and the refinement
`ImplementsElementSequences`, which compares the order of the elements, and for
which the invariants above would have to say what each cell holds.


## 8. What is not modelled

Whole components: the pipe program (one message, one order of steps), `span`,
`tuple` and `utility` (nothing changes at run time), the tests and benchmarks
(clients, read for what they claim), and of the type erasures `function.hpp` and
`model_concept.hpp` (section 6). Within the modelled ones:

- Weak memory beyond what is named: the mutexes are built of operations that
  synchronise, and are modelled as sequentially consistent; the counts of
  `SharedPtr` are atomic counters whose modification order is the order of steps
  (an increment with relaxed order still sees the newest count, and a relaxed
  load, `use_count`, decides nothing).
- `compare_exchange_strong` in `shared_ptr(const weak_ptr&)` does not fail
  spuriously, as the strong form promises.
- `LockHandles` leaves out a handle that outlives its thread, and moving one to
  another thread: an owning handle there would unlock for the wrong thread.
- Custom deleters, arrays and converting constructors of `shared_ptr`: they
  choose a type at compile time, and the counts are handled alike.
- `shared_ptr` cycles: they leak by design; the bound that a member points to an
  older block excludes them.
- The order books' iteration order of the hash table, and allocation failure.
- The containers' iterators and element access, which change nothing; assignments
  to elements through a reference; assignment of an object to itself, which
  returns at once; comparison and searching of strings.
- `unique_ptr` to arrays, with deleters that have a state, and its converting
  moves, which do what the moves do.
- The future that `submit` returns, and exceptions of tasks, which
  `std::packaged_task` keeps for it.
- Callbacks with a state of their own. The event manager is not copied.
- A program of `shared_mem.cpp` started again while the child of a killed parent
  still lives; two servers at one path.
- The memory order of the ping-pong's atomics, which are sequentially consistent
  by default, and of `message`, which the semaphores order.
