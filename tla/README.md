# A TLA+ development for XS

XS is a scripting language in C with two backends, a tree-walking interpreter (`runtime/interp.c`)
and a bytecode VM (`vm/vm.c`), and a runtime library of its own: OS-thread tasks under a global
interpreter lock, channels, nurseries, promises, an event loop, triggers, an embedded database.
This directory holds models of the parts in which order matters, the TLC runs that check them on
small instances and the TLAPS proofs that hold for every instance. Paths below are relative to
`src/src/` unless they say otherwise.

## Inventory

| Component | State | Operations | What is hard |
|---|---|---|---|
| GIL (`runtime/concurrent.c`) | one mutex | acquire, release around blocking calls | every wait must drop it, nothing may wait for it with another lock in hand |
| channels (`runtime/concurrent.c`, `runtime/builtins_async.c`) | per channel: mutex, condition, `_buf`, `cap`, `closed` | send, recv, recv_pair, try_recv, len, is_closed, close | lost wake-ups, bound after a broadcast, close and cancel against waiters |
| VM tasks and nurseries (`vm/vm_thread.c`, `vm/vm.c`) | task list, per task done/result/error/cancelled/nursery id; per VM nursery stack; thread-locals | spawn, await, nursery begin and end, sleep, throw, drain | who sees an error, who is joined, who is cancelled, exit with live threads |
| interpreter tasks (`runtime/concurrent.c`, `runtime/interp.c`) | the same records, and one shared `Interp`: scope, signal, nursery queue | the same | shared interpreter state across every release of the GIL |
| lazy generators (`runtime/concurrent.c`, `runtime/interp.c`) | per generator: worker thread, resume and yield channel, `_done`; the shared scope and signal | create, next, yield, return, throw | hand-over between threads that share the interpreter; a full channel table; who sees an exception |
| promises, microtasks, scheduler (`runtime/async.c`, `runtime/scheduler.c`) | state and callback lists per promise, microtask queue | resolve, reject, then, run | nothing that a program can observe in this version; see "Not modelled" |
| event loop and HTTP server (`runtime/event_loop.c`, `net/http_server.c`) | sources, timer heap, signal flags; connection table, per connection buffer and clocks | run a round, accept, read, answer, sweep, shut down, stop, free | removal from tables that are being walked, slow clients, shutdown at any point of a round |
| triggers (`runtime/triggers.c`, end of `interp_run`) | growable table of entries with deadlines, signal flags, inotify queue, `aborted` | register, lifecycle handlers, pump signals, watches, timers, event loop, exit | table moved under a running callback, events that come during a scan, failures and exits inside handlers |
| thread module (`runtime/builtins_thread.c`) | thread and mutex tables | spawn, join, lock | runs XS code outside the GIL |
| database (`db/xsdb.c`) | tables with their B-trees, table array, snapshot, file | insert, update, delete, create, drop, begin, commit, rollback, open, close, save, load; B-tree insert, delete, search, scan | crash or failed write inside a save, constraints across a multi-row insert, boundaries of nodes and arrays |
| garbage collector (`core/gc.c`, `core/gc_concurrent.c`) | reference counts, generations, collector thread | collect, mark, sweep | marking while the program runs |
| limits (`core/limits.c`) | counters and deadlines | check, charge | boundaries |
| front ends, compiler, JIT, transpilers, tools, TLS, packages | - | - | sequential transformations or input and output; see "Not modelled" |

How they interact. A spawned body runs on an OS thread of its own and executes XS code only with
the GIL. Blocking calls (`recv`, a bounded `send`, `await`, `time.sleep`, the join at the end of a
nursery) release the GIL, wait on a mutex and condition of the channel or of the task, and take the
GIL again. Cancellation is a flag on the task's record, set by a failing sibling and polled by
`time.sleep` and, on one of the backends, by `recv`. At exit the main thread drains: it waits for
every task before the globals are freed. Generators are built on channels. Triggers run on the main
thread, between the statements of the program (`http.serve`) or after its end; the HTTP server is
the one client of the event loop. The database is a library of its own: `db/xsdb.c` keeps a B-tree
per table and one file per handle.

## Modules

| Module | Models |
|---|---|
| `ChanSpec` | what a channel promises: an atomic FIFO queue with a bound, a close and cancellable receives |
| `Channel` | `xs_chan_*` step by step over the GIL, the channel mutex and the condition variable |
| `ChannelProofs` | the theorems about `Channel` |
| `VMTasks` | spawn, await, nursery, cancellation and drain of the bytecode VM |
| `VMTasksProofs` | the theorems about `VMTasks` |
| `InterpTasks` | the same for the interpreter, with the shared `Interp` |
| `InterpTasksProofs` | the theorems about `InterpTasks` |
| `Generator` | generator workers and `.next()` over two channels per generator |
| `GeneratorProofs` | the theorems about `Generator` |
| `Triggers` | the trigger table and the life of a program around it |
| `TriggersProofs` | the theorems about `Triggers` |
| `HttpServer` | the connection table and a round of the event loop |
| `HttpServerProofs` | the theorems about `HttpServer` |
| `XSDB` | statements, transactions, saves and crashes of one database |
| `XSDBProofs` | the theorems about `XSDB` |
| `BTree` | the B-tree that holds the rows of a table |
| `BTreeProofs` | the theorems about `BTree` |
| `MC...` | instances for TLC, one per module above |

`Generator` uses channels through the interface that `Channel` is shown to implement, and `XSDB` uses
tables of rows through the one that `BTree` is shown to have (`ScanIsContent`, `SearchFinds`).

**Channel.** A thread's `pc` says where it is between two lock operations; each critical section of
`cs->mu` is one action, because nothing outside reads `_buf` or `closed` without the mutex. A
condition wait is two steps (release and sleep; wake and lock again), a broadcast moves every
sleeper to the second step, a receive's wait ends by itself (the 25 ms poll) and a send's may end
spuriously. `SendCall` branches as the code does: a bounded send drops the GIL before it locks, an
unbounded one keeps it. `recv_pair` is the receive followed, when it returned null, by two more
critical sections under the GIL. Messages are model values and include null; reference counts are
left out. `res`, `val` and `ok` are what the caller gets.

**ChanSpec** has per thread one call record (waiting to send, to receive, to poll, or ended with an
outcome) and actions that take effect in one step. `Channel!SpecCall` maps the program counters to
these records; a send takes effect when it pushes, a receive when it pops or gives up.

**VMTasks.** Thread 0 is main, thread t runs task t. `Spawn` is `vm_spawn_real` with the
registration in `OP_SPAWN`, `Await`/`TakeResult`/`Resume` the three parts of `vm_await_task` with
what its two callers do with the error, `NurseryBegin`, `NurseryEnd`, `JoinNext`, `NurseryLeave` the
two opcodes, `Publish` and `Retire` the end of `vm_thread_entry`, `Drain`, `DrainWake` and
`DrainReport` `vm_drain_tasks`. A task's mutex is never held across a wait, so its critical sections
are single steps. `block`, `outcome` and `surfaced` are history: the nursery blocks the *program*
has open (the VM's own `stack` does not always agree), how a body ended, how often its error was
delivered. `Escape` and `Catch` leave blocks without `OP_NURSERY_END`, as the compiled code does.

**InterpTasks.** The shared fields are one variable each: `env`, `cf`, `queue`. `Enter` and `Leave`
are the save and restore in `thread_entry` and `call_value`; `open` holds what each activation of
`NODE_NURSERY` keeps in C locals. `suspended` is history: some task has given up the GIL before its
end. Nothing saves the shared fields then, and what the code guarantees is guaranteed up to that
point. `queue` may afterwards point at a released array; a spawn through it is undefined behaviour,
and the model stops there instead of guessing.

In both task modules a program awaits any task there is, itself included: awaits in a circle stop it,
which is the program's own doing (`Circle`). That nothing else does is `OnlyCirclesStop` for the
interpreter and, with fairness, `MainExits` for the VM. Values, scopes and effects are reduced to whose they are.

**Generator.** `pc` says where an actor (main or a worker) is; `env` and `signal` are the shared
`i->env` and `i->cf.signal`, as the actor they belong to. A call of a generator function is `Create`,
with one slot of the channel table each for the two channels if there is one. `Start`, `TakePermit`
and `Begin` are `gen_worker_entry` up to its body, `CallNext`, `TakeValue` and `NextReturns` the
method `next` on either side of its wait, `Yield` and `YieldReturns` the two halves of `NODE_YIELD`,
`Finish` the end of the worker. A body is any sequence of these with exceptions thrown and caught.
`Calls` says whose code calls whose `.next()`; two generators that consume each other wait for each
other and are left out. `asked`, `yielded` and `got` are history.

**Triggers.** `phase` follows `interp_run`: script, `@on_start`, main, the loop, `@on_panic`,
`@on_exit`. A pass over the table is one variable `k` (the loop counter of `fire_named`,
`fire_signal`, `check_watches` or `fire_due`); `Call`, `Return` and `Fail` are the three parts of every
firing, with XS code in between that takes time, registers (`Register`, which may move the table) or
exits (`Exit`). `moved` says that the pointer `t` of the firing function points into released memory:
what is written through it may be lost, and both outcomes are alternatives of `Return`. Signals set
flags and files queue events at any time. `log` is history, per entry. What goes wrong reaches the
table in two ways. `pending` is what stays in `i->cf.signal`: a throw, or something else (an error, a
panic), from the script, from main or from the handler itself; the next handler then ends before its
first statement, and only a throw becomes the exception that `@on_panic` gets. `counted` is an error that
`xs_runtime_error` has counted and no handler has answered for yet (`CountError`); the handler that
returns next is taken for the one that failed. `panic()`, `exit()` and `todo` leave the process at once
without any handler (`runtime/builtins.c`) and are not modelled.

**HttpServer.** `phase` is the step of `evloop_run_once`: poll, signals, timers. Each callback is one
action, but for the sweep, whose downward walk is one step per entry (`BeginSweep`, `SweepEntry`,
`EndSweep`, with `at` for its loop counter): `conns` is the array with its swap-removal, so that the
order of entries, and what the walk sees, is in the model. What a connection has received is abstracted to
what `on_client_readable` makes of it. Time advances by sweep intervals and only after the sweep of an
interval: a round of the loop is assumed shorter than a second. `unanswered` and `stopping` are history.

**XSDB.** `tables` maps names to tables, and `snapshot` holds one such map or nothing; a table is its
column's constraints and default, its rows by rowid, `next_rowid` and `row_count`. An INSERT of several
rows is several steps; the default fills in for a NULL only when the statement names its columns
(`Stored`), before the constraints are checked. `BulkInsert` is `xsdb_bulk_insert`, which knows neither.
A save is called (`BeginSave`), opens the file or cannot (`EmptyFile`, `FopenFails`, which leaves the old
file as it was), and ends or breaks off (`SaveEnds`, `SaveFails`). What reaches the file is
`Recorded(tables)`: a save writes no defaults. When it breaks off, `TornFiles` is what `xsdb_load` could
make of any prefix: some of the tables, and one cut short in its columns, its counters, or its last row
(`CutTable`). `Crash` loses the handle at any step. `Open` contains the save that closing the second
handle causes. The log is left out: it is appended to and truncated, and nothing reads it. `saved`,
`relaxed`, `emptied`, `salvaged` and `faults` are history.

**BTree.** Nodes are entries and children as sequences; `SplitChild`, `InsertNonfull`, `MergeKids`,
`BorrowLeft`, `BorrowRight`, `Fill`, `DeleteFrom`, `Shrink` are the functions of the code, `content` is
the reference: the set of rowids that should be there. A function of the code that calls itself on a
child is a function of a depth and a node, defined at depth `d` by its value at `d - 1`: `Tree[d]` are
the nodes with at most `d` levels below them. The root is one of `Tree[MaxDepth]`, a bound that stops
insertions. The slots an array shift leaves behind are not part of a node. `xsdb_btree_delete` is
offered in the header to any caller, so it is also called for rowids that are not there.

## Runs

| Run | Bounds | What it checks |
|---|---|---|
| `chan_bounded` | 3 threads (one a cancellable interpreter task), capacity 1, messages a and null | `TypeOK`, `LockDiscipline`, `NoLostWakeup`, `PairOkIsRight`, `ClosedForGood`, `ImplementsFifo` |
| `chan_unbounded` | the same with capacity 0, at most 2 messages buffered | `ImplementsFifo` on the path that keeps the GIL |
| `chan_live` | 2 threads, fairness | `CloseReleasesAll`, `CancelReleasesRecv` |
| `vm_all` | 3 tasks, 1 nursery, every operation | `ErrorTakenOnce`, `DrainLeavesNobody`, `CancelledBySibling` |
| `vm_live` | 2 tasks, 2 (nested) nurseries, fairness | `MainExits`, `NurseryJoinsChildren` |
| `vm_throw_lost` | 1 task | violation: `ThrowIsCaptured` |
| `it_tasks` | 3 tasks, or 2 tasks and 2 nurseries | `InterpIsMine`, `DrainLeavesNobody`, `OnlyCirclesStop`, `NurseryJoinsOwn` |
| `generator` | 2 generators and main, 3 values each, a table of 4 channels with 0 to 4 in use, fairness | `ScopeIsMine`, `InOrder`, `ThrowReachesCaller`, `NextAlwaysReturns` |
| `triggers` | 7 decorators, 2 entries, 2 signals, 3 ticks, 2 events, fairness | `OnceIsOnce`, `NeverAhead`, `NothingLost`, `ExitHandlersRan`, `FailureStops`, `SignalsServed` |
| `http_server` | 3 clients, 2 slots, timeouts of 2 intervals | `TableMatchesSockets`, `SweepIsThorough`, `SlotsComeBack`, `ShutdownInTime` |
| `xsdb` | 1 table, 2 rows, 2 values and null, 1 fault | `TypeOK`, `Integrity`, `ConstraintsHold`, `ReopenFindsSaved` |
| `btree` | order 4, rowids 1 to 11, depth up to 3, no 2 misses in a row | `ScanIsContent`, `SearchFinds`, `Balanced` |

`TypeOK` is part of `ErrorTakenOnce`, `InterpIsMine`, `InOrder`, `OnceIsOnce`, `TableMatchesSockets` and
`Balanced` where it is not listed by itself.

What they show, by subject:

* **Channels** are FIFO queues under every interleaving of lock, wait, broadcast, close and cancel; no
  wake-up is lost, and every blocked caller comes back after a close. The flag of a `recv_pair` is right
  both ways: true comes with a message or to a cancelled task, false from a channel that is closed and
  empty for good.
* **Tasks.** A captured error is delivered exactly once, cancellation stays inside the nursery of the
  failing task, nobody survives the drain; the nursery's own tasks have finished when its block is
  left. Nothing but a circle of awaits stops a program. On the interpreter, scope, signal and queue belong to whoever runs, until some task has slept
  or awaited.
* **Generators** give each value once, in order and only when asked, to whichever consumer asked; an
  exception in a body surfaces in the code that called `.next()`; every `.next()` returns. All this
  if both channels of each generator found a slot.
* **Triggers.** Once means once unless a handler failed or the table moved under it; timers neither
  run ahead nor burst; an event that arrives during a scan is not lost; after a failure no timer and
  no file handler is called; the `@on_exit` handlers have run when the process ends.
* **HTTP server.** Table, event sources and open sockets agree after every removal; a sweep leaves
  nothing overdue; a client that sends a byte now and then does not keep its slot; a shutdown is over
  two intervals later.
* **Database.** Counters, rowids, NOT NULL and UNIQUE hold through refused rows, rollback, save and reload.
  An open finds the tables of the last save that ended, without the defaults of their columns; when a
  later save has emptied the file and not ended, or an open has overwritten it, it finds no table at
  all. The table array is not overrun but on handles that a rollback left without tables.
* **B-tree.** Scan and search agree with the set of rows; the tree stays balanced through every order of
  insertions and deletions.

Why the bounds are enough. Three threads on a channel give two waiters of one kind and a third that
wakes both, the case in which a bound must be looked at again and in which a signal instead of a
broadcast would strand somebody; two buffered messages are enough to see order. Three tasks give a
failing sibling, a sibling to be cancelled and an outsider or a grandchild; two nurseries give nesting
and, for the interpreter, one nursery inside another thread's (`MaxBoth` leaves out 3 tasks together
with a nursery). A generator consumed by main and by another generator has two consumers and a
chain of two; four slots with none to four in use give every way in which the table can fill, between
two generators and between the two channels of one. Two entries and a first table of one slot make
every registration of a second entry, also the one inside a handler, move the table; three ticks
cover a timer coming late by more than its period. The instance leaves out `@on_start`, `@on_panic` and a
`@once` timer, so that safety and liveness fit one run; the safety properties are proved for any
decorators. Three clients for two slots give a refusal, a removal from
either end of the table and a new arrival. Two rows are the least that can collide, or that a torn
file can split; of the two values one is also the default. With one fault a save cannot open its
file, or breaks off anywhere, or the process dies at any step; the properties are proved for any
tables, values and number of faults. Eleven rowids at order 4 make a tree of three levels in which every way to
split, borrow and merge happens, at inner nodes too (`MaxDepth` would allow a fourth level). `XSDB_ORDER` is larger in the code, but of the
same parity, which is what the halves of a split depend on (`BTreeAssumption`).

Symmetry is used for plain threads (`chan_bounded`, `chan_unbounded`) and for clients (`http_server`),
in runs that check no liveness. `CHECK_DEADLOCK FALSE` is set where the system may really stop: a
`triggers` run ends with its process; a program with a generator that has no channels may wait for
ever; and in the runs of tasks a program that awaits in a circle does, which `OnlyCirclesStop` and
`MainExits` say is the only way.

Fairness. `chan_live`: every thread inside a critical section goes on, a mutex or GIL that keeps
becoming free reaches each thread that waits for it, the 25 ms timeout fires, and a running program
keeps making calls that release the GIL (XS does not preempt: without this a loop starves everyone).
`vm_live`: the GIL likewise, and bodies and blocks come to their ends. `generator`: a worker that can go
on does (a body gets to its next yield or its end), and so does a consumer whose value has come;
nothing is assumed of the consumers' own code. `triggers`: the one thread goes on (`WF_vars(Step)`); time,
signals and registrations are not fair. `HttpServer` states its two time bounds as invariants instead
of leads-to properties, which is stronger.

## Where the code surprises

One disagreement has a run of its own. The premises of the properties name the others. Each was met
while modelling; those about the language also show on the built program.

* `vm_throw_lost`: a throw that escapes a spawn body on the VM is left in the worker's thread-local
  `g_xs_pending_throw` (`vm/vm.c:2073`); `await` returns null, although `vm_thread.c:13` says that
  errors that escape a spawn body "are captured on the task struct". Effects without a handler do reach the record, and for those `ErrorTakenOnce`
  holds.

* Channels: the last message of a closed channel, when it is null, comes back from `recv_pair` with
  `ok=false`, which `LANGUAGE.md:2207` says tells "closed" from "received null". A cancelled VM task
  stays in `recv`, which polls a flag only interpreter tasks have (`LANGUAGE.md:2309`), and its nursery
  with it: a program whose one task receives while the other fails hangs.
* Nurseries: tasks spawned by a nursery's tasks carry its id, so that they are cancelled with it, but
  the end of the block does not wait for them (`LANGUAGE.md:2279`). `return` or `throw` out of a VM
  nursery block skips its join (`Escape`, `Catch`).
* Interpreter tasks: `i->env`, `i->cf` and `i->nursery_queue`, "shared with main; protected by GIL"
  (`concurrent.c:121`), are switched when a body or a block starts and ends, and not when a thread gives
  up the GIL in between. So `~suspended` is a premise of `InterpIsMine` and `NurseryJoinsOwn`; without it
  TLC finds a short trace against each part. Two tasks that sleep come back in each other's scope, and
  print one's local twice. A nursery whose body throws joins with the throw in `i->cf`; a task that
  starts meanwhile puts it back when it ends ("must not poison", `concurrent.c:153`), and main, back from
  a sleep, dies of it. While a task sleeps inside a nursery of its own, a spawn of main goes to that
  task's queue, and main's block is left before that spawn is done (`LANGUAGE.md:2279`). `NODE_AWAIT` and
  the drain never look at a task's error, so a failed task that no nursery joins ends silently.
* Generators: with `MAX_CHANS` channels in use a generator gets none, and its `.next()` gives
  `{value: null, done: false}` for ever; with one slot left it gets a yield channel and no resume channel,
  and its body runs ahead without being asked, where `LANGUAGE.md:1325` says that it pauses at each
  `yield` (`AllWhole`). A worker whose generator is abandoned waits for ever; the comment at
  `interp.c:6422` says that it "eventually finishes on its own".
* Triggers: an entry registered inside a timer's callback is reached by the scan under way before its
  interval was computed and then fires in every pass (`late` in `NeverAhead`; an `@every("200ms")` fired
  more than 100000 times in 400 ms). A `@cron` handler that takes time is booked from the moment the
  pass began and fires early (`slow`). A handler that registers may move the table, and the note that
  it has fired goes to released memory (`lost`). After a failure, handlers of other pending signals
  still run, where `triggers.c:124` says "stop firing further callbacks". An `@on_exit` handler that calls
  `os.exit` calls itself (`MaxDepth`). A throw nobody caught in main, or an error that ended the script,
  stays in `cf.signal` and makes the next handler fail before it starts (`pending`); when that is the
  first `@on_exit` handler, it has not run and the others are not called, where `CHANGELOG.md:873` says
  "on_exit and on_panic fire on the way out". An error that was counted anywhere before, and dropped
  there, fails the first handler that returns after it (`counted`).
* HTTP server: `processing` is up only during a callback, so the sweep of a draining server never
  waits for `shutdown_deadline_ms`, although `http_server.h:232` says it does (`Stops`). One
  callback answers one request; a pipelined second one waits for more bytes, and with an empty buffer
  the connection is closed, keep-alive or not (`Answered`).
* Database: a save writes a column's name, type and constraints and not its DEFAULT (`xsdb.c:2505`), and
  a load leaves the default zero: after a reopen the same INSERT stores NULL, or is refused by NOT NULL
  (`Recorded`). `xsdb_open` closes its second handle after having taken its tables, and this close saves an
  empty database over the file (`xsdb.c:1729`): until the next save the file is empty, and a crash
  loses everything. A commit truncates the log and then rewrites the file in place with an ignored
  result, that of an `fopen` that failed included, while it reports success. The log is never replayed
  and records no rows: `xsdb.h:4` promises "WAL journaling", and what was done since the last save is
  gone when the process dies. A torn file is not refused: an open finds no tables, and writes back as a
  whole file whatever prefix could be read, with constraints read as zero and rows cut short, for the
  next open to find (`salvaged`). A rollback to no tables leaves an array without slots, which
  doubling does not grow, and the next CREATE TABLE writes past it (`emptied` in `ArrayInBounds`, which
  says that on these handles the array has no slot). `UPDATE` and `xsdb_bulk_insert` check no constraint
  (`relaxed`).
* B-tree: deletions of absent rowids merge nodes on their way and can leave a root without keys, whose
  only child then loses a key to each further miss. Once the child is at the minimum, the next deletion
  reads `children[-1]` (`xsdb.c:558`). As long as fewer than half of `XSDB_ORDER` deletions miss in a
  row this cannot happen; that is what `BTreeAssumption` asks of `MaxMisses`, and from a tree whose
  nodes are all at the minimum that many are enough (two at order four). The
  engine itself deletes only what a scan has returned and misses none.

## Proofs

`ChannelProofs` proves for any set of threads, any messages and any capacity (from
`ChannelAssumption`: numbers are naturals, tasks are threads, the free lock is nobody):

| Theorem | Statement |
|---|---|
| `ChannelTypeCorrect` | `Spec => []TypeOK` |
| `ChannelLocks` | `Spec => []LockDiscipline` |
| `ChannelCapacity` | `Spec => []CapacityBound` |
| `ChannelNoLostWakeup` | `Spec => []NoLostWakeup` |
| `ChannelPairOk` | `Spec => []PairOkIsRight` |
| `ChannelClosedForGood` | `Spec => ClosedForGood` |
| `ChannelImplementsFifo` | `Spec => ImplementsFifo` |

The invariant has layers, each proved on top of the ones before. `TypeInv` adds to `TypeOK` that a
thread on a send path carries a message (`SendersCarryMsgs`), without which the buffer would not
stay in `Seq(Msgs)`. `LockDiscipline` is inductive by itself. `BufInv` puts `CapacityBound` and
`NoLostWakeup` together with `UnboundedPath` (the two send paths are taken for the two kinds of
channel): a sleeper's condition can only change in a push, a pop or a close, and each of these is
followed by the broadcast in the same step, after which nobody sleeps (`BroadcastWakesAll`). The
refinement needs `ReceiversHoldNull` (a receive that has not taken anything holds no value), so that
a receive that gives up maps to one that returns null; then `FifoStep` shows, action by action, that
a step is a step of `ChanSpec` or leaves its variables alone (`QuietStep`, `OthersKeepCall`).
`CapacityBound` has no run of its own: `ImplementsFifo` implies it.

`PairInv` is about a receive between its look at the buffer and the pair it returns: other threads run in
between, and the pair must still be right. A pair that found nothing was cancelled or met a channel that
was closed and empty, and neither is taken back: a closed channel accepts no message (`ClosedStep`), a
cancelled task stays cancelled (`CancelStays`). `DrainedInv` is the other direction: whoever holds
`ok=false` saw the channel closed and, a critical section later, empty (`PairLooks`), and such a
channel stays as it is (`DrainedStep`), so that the answer is right at the look and ever after.

`XSDBProofs` proves for any tables, values, rowids, capacities and number of faults (from
`XSDBAssumption`: NULL is not a value, a fresh array has a slot, there are finitely many names):

| Theorem | Statement |
|---|---|
| `ReopenFindsSavedTheorem` | `Spec => ReopenFindsSaved` |
| `IntegrityTheorem` | `Spec => []Integrity` |
| `ConstraintsHoldTheorem` | `Spec => []ConstraintsHold` |
| `ArrayInBoundsTheorem` | `Spec => []ArrayInBounds` |
| `XSDBTypeCorrect` | `Spec => []TypeOK` |

The first rests on `SavedOnDisk`: while `saved` is there, the file is whole and holds it but for the
defaults; when it is not, a whole file has no tables, unless it was made of a torn one. Nothing but a save
touches the file of an open handle, a save gives `saved` up when it empties the file, and what an open
may write back is in `FileOpened`.

`Integrity` and `ConstraintsHold` speak of the live tables, which a rollback replaces by the snapshot and an
open by the file; neither is inductive alone. `GoodDB` says the same of all three places at once, until
a torn file has been read: finitely many rows, all below `next_rowid`, as many as `row_count`, and
the constraints of the tables that neither an UPDATE nor a bulk insert has written. That rowids are below `next_rowid`
is what makes the new row of an INSERT new (`RowAdded`), and finiteness is what makes counting the
deleted rows right (`RowsDeleted`); `RowsUpdated` and `TableCreated` are the other statements.
`RecordedIsGood` is what a save does to a table: without its default it has the same rows, and none of
what holds of them refers to it. `TornIsNotWhole` keeps torn files out.

`ArrayInv` relates the number of tables to `cap`: the array has room for its tables, and at least one
slot unless the handle was emptied by a rollback; doubling then makes room for one more.

`TypeInv` says more than `TypeOK`: tables have finitely many rows, without which a DELETE could not count
what it deletes, and the statement under way has its table. Its hard case is the torn file: every way a
broken save can be read leaves tables (`CutIsTable`, `TornIsDatabase`).

`VMTasksProofs` proves for any number of tasks and nurseries and any set of operations (from
`VMTasksAssumption`: the bounds are naturals, nobody is neither a thread nor an error):

| Theorem | Statement |
|---|---|
| `VMTypeCorrect` | `Spec => []TypeOK` |
| `VMErrorTakenOnce` | `Spec => []ErrorTakenOnce` |
| `VMDrainLeavesNobody` | `Spec => []DrainLeavesNobody` |
| `VMCancelledBySibling` | `Spec => []CancelledBySibling` |
| `VMNurseryJoinsChildren` | `Spec => NurseryJoinsChildren` |

`TypeInv` adds to the types that the VM's stack has at least the blocks of the program, without which
`OP_NURSERY_END` would take a frame that is not there. `GilInv` (who holds the GIL is told by the
program counters) and `LifeInv` (`done`, the outcome and the error of a task are told by where its
thread is) carry the rest. `ErrorInv` is an account: what was delivered plus what is still on the
record is one for a task that ended with an effect, and nothing otherwise; every taker empties the
record in the step in which it delivers. `ExitInv` needs that the scan of the drain, when it finds no
task, has missed none (`ScanIsThorough`, from `LargestElement`: a non-empty set of ids has a largest
one). For the nursery `AgreeInv` says that the children of a frame are the tasks spawned in the block
at the same depth, and that a join has each child of its frame either done or on its list.

`InterpTasksProofs` proves for any number of tasks and nested blocks (from `InterpTasksAssumption`):

| Theorem | Statement |
|---|---|
| `InterpreterIsMine` | `Spec => []InterpIsMine` |
| `InterpNurseryJoins` | `Spec => NurseryJoinsOwn` |
| `InterpCancelledBySibling` | `Spec => []CancelledBySibling` |
| `InterpDrainLeavesNobody` | `Spec => []DrainLeavesNobody` |

The last two go as for the VM. The first two hold up to the first suspension, and their invariants
say what one `Interp` for all threads amounts to until then. `SharedInv`: tasks run one at a time from
beginning to end, so what the running task saved is main's and what is current is the task's. With
that, only main and the holder of the GIL can have blocks open (`OthersClosed`). `OrderInv`: a block's
queue is newer than the one it found. `QueueInv`: neither the current queue nor any that will be put
back is retired, that is, released or about to be joined; it needs that a task's blocks are all newer
than main's. `ChainInv`: the queues found by the blocks of a thread chain to its own blocks and then to
main's, so the current queue is that of the innermost block that still collects, and a block's
spawns are in its own array. `JoinInv`: the loop has awaited what is before its counter, and arrays
only grow.

`GeneratorProofs` proves for any generators, any relation of who consumes whom without a generator
that consumes itself, and any table of channels (from `GeneratorAssumption`):

| Theorem | Statement |
|---|---|
| `GeneratorScopeIsMine` | `Spec => []ScopeIsMine` |
| `GeneratorThrowReachesCaller` | `Spec => []ThrowReachesCaller` |
| `GeneratorInOrder` | `Spec => []InOrder` |

What makes it work is `OneToken`: the right to go on is in one place at a time, the GIL, a thread about
to take it, a permit, or a value nobody has taken. A value is then in flight for one consumer only
(`CountInv`), a body that is at work has been asked (`AskInv`), and a signal travels with the token to
the consumer of the body that threw (`SignalInv`). All of it is under `AllWhole`, the premise of the
properties; the scope (`ScopeInv`) is not, and needs it not.

`HttpServerProofs` proves for any clients, table size and timeouts (from `HttpServerAssumption`: the
table size and the timeouts are positive):

| Theorem | Statement |
|---|---|
| `HttpTableMatchesSockets` | `Spec => []TableMatchesSockets` |
| `HttpSweepIsThorough` | `Spec => []SweepIsThorough` |
| `HttpSlotsComeBack` | `Spec => []SlotsComeBack` |
| `HttpShutdownInTime` | `Spec => []ShutdownInTime` |

`TableInv` (no connection twice, table and sources the same set) is kept by the swap-removal because the
entry that fills the gap is the last one (`SwapRemoveProperties`). `SweepInv` is the loop invariant of
the walk: the entries above the counter are not overdue. The entry moved into a gap comes from there,
which is why a downward walk skips nobody and an upward one would. `AgeInv` bounds the time without an
answer by the request clock while a request is arriving and by the idle clock before, each of which
the sweep cuts off; time passes only after a sweep. `StopInv` follows a shutdown from the signal flag
through the round that sees it to the sweep that ends it.

`TriggersProofs` proves for any decorators, signals, table sizes, times and numbers of events (from
`TriggersAssumption`: the bounds are naturals, counts go beyond one, `@once` stands beside a repeating
trigger, periods are positive, a handler's signal is one the pump looks at):

| Theorem | Statement |
|---|---|
| `TriggersOnce` | `Spec => []OnceIsOnce`, the type invariant included |
| `TriggersFailureStops` | `Spec => FailureStops` |
| `TriggersNothingLost` | `Spec => []NothingLost` |
| `TriggersExitHandlers` | `Spec => []ExitHandlersRan` |
| `TriggersNeverAhead` | `Spec => []NeverAhead` |

`PlaceInv` says where the program is: a handler runs only in a scan, not behind its place in the table,
and is one the scan calls. The others stand on it. `OnceInv` accounts for each call of a `@once` or
`@delayed` handler: it is under way, in the table, or known to be lost; only an `os.exit` leaves one
under way for good, and the program with it. `AbortInv`: after a failure the scan the loop would go on
with is at its end. `OwedInv` names the place that remembers each event, sharper than `NothingLost`: a
mark in the table counts only while the handler does not run, because its return takes the mark away;
that is safe since a file that changes meanwhile is in the queue. `ExitInv` is the loop invariant of the
last scan: the handlers behind it have run, the ones ahead not yet, also those registered meanwhile.

`NeverAhead` needs the most. `TimerInv` says of each timer that the calls so far fit between the moment
its deadline was set and now, and that there is room for one more before the next deadline, unless that
call is under way. The room is what a call uses up and what the return makes again, because an `@every`
moves by a whole period at least and a `@cron` to a moment strictly after now; `DueInv` adds that a timer's
handler runs at or after its deadline. The premises of `NeverAhead` are the cases in which the code does
not keep this up. The lemmas on division (`DivBounds`, `DivMonotone`, `DivAtLeast`, `DivNext`) are the
arithmetic of periods.

`BTreeProofs` proves for any even order from four, any rowids and any depth (from `BTreeAssumption`:
fewer misses in a row than half the order, None is neither a rowid nor a node):

| Theorem | Statement |
|---|---|
| `BTreeBalanced` | `Spec => []Balanced`, the type invariant included |
| `BTreeSearchFinds` | `Spec => []SearchFinds` |
| `BTreeScanIsContent` | `Spec => []ScanIsContent` |

There are two inductions. A recursive definition of TLA+ denotes a function with the given equation only
if there is one: `AllExists` builds it from its restrictions to `0..n`, for all the functions at once as
the fields of a record, and `SearchUnfold` to `SoundUnfold` are the equations. The other induction is
on the depth. It needs a description of a tree that refers to its children only through theirs:
`Sound[d]` (keys in order, each child between its two neighbours, no node over full, no child depleted)
and `KeysOf[d]`. Both inductions are over sets of naturals (`Induct`, from the well-foundedness of
`<`), since the library's induction theorems take an operator as a parameter.

What the code does to one node is proved in terms of four moves: cutting a node at an entry (`CutSound`,
`CutKeys`), gluing two around one (`GlueSound`), replacing a child (`WithKidSound`) and replacing two
neighbours with their entry (`BetweenSound`). A split, a merge and the two ways to borrow are made of
these (`SplitSound`, `MergeSound`, `BorrowLeftSound`, `BorrowRightSound`), and each keeps `Sound` and the
keys. `Puts` and `Drops` then say what a whole insertion and deletion below a node give
(`InsertNonfullSound`, `DeleteFromSound`), `Finds`, `Ends` and `Lists` what a search, a predecessor
and a scan do.

The invariant `IInv` is that the root is sound and has the keys of `content`. It is not inductive
without a clause about a root that has no key: its child then has at least `MaxKeys - misses`. That
is what makes a deletion safe that starts there (`Deletable`), because `btree_fill` borrows or merges
only below a node with a key; `Drops` carries it through a deletion (`Reserve`).

Only model-checked: liveness (`CloseReleasesAll`, `CancelReleasesRecv`, `MainExits`, `NextAlwaysReturns`,
`SignalsServed`) and the absence of deadlock, which are out of the prover's reach. Every other property
of a passing run is a theorem. Two theorems have no run: `InterpCancelledBySibling`, as the marking loop is
the one that `vm_all` checks, and `ArrayInBoundsTheorem`, which takes a second table.

## Not modelled

Most of the repository's lines are not protocols. The transpilers to JavaScript, C and WebAssembly, the
vendored TLS library with its certificate bundle, the parser, the two evaluators' expression semantics
and the JIT make up the bulk; what makes them right is the meaning of whole programs, which is neither
small nor finite. The models cover the parts whose correctness depends on the order of events.

* Promises and microtasks: on the VM handlers registered with `then` are never called, and no statement
  of the language runs the loop that drains the microtasks, so neither order nor the cap can be
  observed.
* Cooperative scheduler: nothing calls it. Garbage collector: nothing calls `gc_track`, so its list is
  always empty, and the concurrent collector works on the same list.
* Thread module: it runs XS code without the GIL; after the first step everything is a data race on
  the shared `Interp`, whose outcomes are not a choice among a few.
* Reference counts: `xs_chan_send` and `vm_await_task` change one without the GIL. The models have no
  memory; the hazard is listed.
* Inside the modelled parts: a failed thread creation (the body then runs synchronously), `select`
  beyond one poll, traceback and call depth, return and break signals that cross a join; several timers
  at once in the event loop, write events, TLS, WebSocket and server-sent events; SQL parsing, SELECT,
  ALTER TABLE, secondary indexes; parsing of durations and schedules, the VM's path into the triggers.

`PROJECT.json` lists every component with its reason.

## Plan

Done: channels, tasks on both backends, generators, triggers, the HTTP server, the database and its
B-tree, each with its proofs. Left, in this order:

1. The timer heap of the event loop with cancel and re-arm inside callbacks.
2. Reference counts of channel messages outside the GIL.
3. `XSDB` on top of `BTree`: the table of rows replaced by the tree, as a refinement.
4. Promises, once the language runs their handlers.
