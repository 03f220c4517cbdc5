# Formal models of foo

TLA+ models of `foo`: its concurrent core, the layers around it and the libraries
below it, model-checked with TLC on small
instances, and theorems about them checked by TLAPS. Paths below are relative to
the root of the repository (`src/` in `PROJECT.json`).

## The system and its parts

`foo` is one process (two, with arguments: `main` forks a watchdog). `main` loads
the settings and calls `Command::doExecute`, which starts the helpers (logger and
viewer) as daemons, parses and runs the command line or the console, and stops the
helpers again.

| Part | State | Operations | Talks to |
|---|---|---|---|
| `utility/common` `ReadWriteLock`, `LockGuard` | a shared mutex, two counters, a condition | `readLock`, `readUnlock`, `writeLock`, `writeUnlock` | the logger's file lock, the settings |
| `utility/thread` `Thread` | task queue, workers, two conditions, `releaseReady` | `enqueue`, `workLoop`, destructor | runs the two command handlers and the helpers' `service` |
| `utility/fsm` `FSM` | a state, its mutex, a compile-time transition table | `processEvent`, `currentState` | base of logger and viewer |
| `application/core/log` `Log` | state machine, `isOngoing`, `inResetting`, row queue, pending cache, log file | `service`, `flush`, `onPreviewing`; `startup`, `reload`, `shutdown` | every thread logs; the console refreshes; the viewer previews |
| `application/core/view` `View` | state machine, two servers, output condition, timers, shared memory ids | `service`, `onConnecting`, `onForwarding`, `parseTLVMessage`; `startup`, `reload`, `shutdown` | console clients over TCP and UDP, the logger |
| `application/core/command`, `schedule` | parser, selection of tasks, flags | `doExecute`, `frontEndHandler`, `backEndHandler`, `launchLifecycle` | thread pool, helpers, examples |
| `application/core/console` | registered options, history | `readLine`, `optionExecutor`, `fileExecutor` | command, viewer |
| `application/core/main` | signals, child process | `run`, `watchdog` | the operating system |
| `application/core/setting`, `data` | configuration; shared memory ids | load and check; encode, decode, compress, encrypt | all of the above |
| `utility/time`, `socket`, `memory`, `io`, `argument`, `json` | timers, sockets, pool blocks, files, arguments, values | see the headers | the parts above |
| `algorithm`, `data_structure`, `numeric`, `design_pattern` | libraries without shared state | functions and containers | `application/example` runs them |

Hard in this code are the condition variables (notifications sent after the unlock,
waits without a predicate, flags stored without the mutex), the helpers' state
machines under failures and resets, the destructor of the pool under nested
`enqueue`, and the viewer's answers racing the timers. `PROJECT.json` lists them as
hazards, at their lines, with the properties that would notice them going wrong.

## Modules

One module per component; labels and definitions keep the names of the code.

*The concurrent core*

* `RWLockSpec` is what a readers-writer lock promises: two sets, readers and
  writers, and four operations. `ReadWriteLock` is the code: `pc` is the position of
  each thread in `LockGuard`, `rwShared`/`rwExcl` the holders of `rwLock`,
  `reader`/`writer` the counters, `waiting` the threads in `cond.wait`. One critical
  section of `mtx` is one action; `notify_all`, which follows the unlock, is another.
* `ThreadPool` has the queue, the workers' positions in `workLoop`, the owner's in
  `enqueue` and the destructor, and histories of what was accepted, started,
  finished and refused. A task may enqueue tasks.
* `Timer` has the worker of `Timer::start` and one user that calls `start` and `stop`;
  the stop request, its notification and the join are three steps.
* `FSM` defines the dispatch of an event over a table of rows: the first row of the
  state and event whose guard holds, or none.
* `LogService` composes the logger's daemon, its controller, the threads that log and
  the previewers; it uses `FSM` for the transition table of `log.hpp` and
  `RWLockSpec` for `fileLock`. Labels of `dpc` follow `service()` from top to bottom,
  with the bodies of the table's actions in between. While the daemon is inside
  `processEvent` (`FsmHeld`) nobody can read the state.
* `ViewService` is the viewer in the same way: `service()` with its table over `FSM`,
  the two servers, which may fail to bind, the rollback, the reminder timer that the
  table's actions stop under the machine's mutex, its controller, and the console's calls
  through `onForwarding`.
* `ViewSession` is one console client: the console thread in `onForwarding` and
  `waitTaskDone`, the server's answers in packets or in shared memory segments, the
  client's receiver, the expiry timer, reconnecting and leaving, over TCP or over a UDP
  that loses messages.
* `Sockets` is below both: TCP and UDP sockets and servers with their receivers and the
  acceptor, `join`, `close` and the destructors. Descriptors are numbers that the system
  gives out again, to another object or to a file: a close that comes late may hit one
  that belongs to somebody else.

*The outer layers*

* `CommandExec` has the two handlers of `doExecute` on their pool of two, `parserMtx`,
  the selection in `scheduleDispatcher` and the flags. `cond.wait` is split into test
  and block, because one notification is sent without the mutex.
* `ArgumentParser` is `parseArgs` over a line of tokens, with sub-commands, joined
  letters, values and assignments; the loop over the tokens is a fold. A second line meets
  what the first has left in the parsers.
* `Console` is a session of the console: typed lines, batch files that run batch files,
  return codes, a viewer that comes and goes, reconnecting and leaving.
* `Program` is `main`: fork, the child's `prctl` and `getppid`, the watchdog with its
  signal flags, `pause` and alarm, and in the child the coroutine of `launchLifecycle`
  with the helpers' phases.
* `Setting` has several programs that load one settings file: reading, checking,
  creating and repairing it, with `flock`, the prompt and its timeout, edits by a user
  and kills between any two steps.

*Texts and resources*

* `Json` is `load`, `dump`, `dumpMinified`, the escapes and the conversions, character by
  character, because a conversion is what they are. `Messages` extends it with what
  clients and viewer say to each other: requests in base64 behind their prefix, answers
  in TLV packets, both ways, and the pages of a long answer. A byte of an integer knows its
  integer and its rank, so that a read at the wrong place is noticed.
* `FDStream` is `FDStreamBuffer`: a writer whose system calls may write less or fail, and
  a reader that seeks. `MemoryPool` has blocks, the current slot and the free list. Both
  are checked in `MCUtility`, with the lock, the thread pool and the timer.

*The libraries*

* `CacheSpec` is a cache of a given policy as an ordered sequence of entries.
  `Caches` is the code of the three policies, one of which `kind` names for a behaviour:
  slots, list orders, the iterator that separates used from free slots, the maps from
  keys to slots, the multimap of LFU, and the operations of `std::list` they use.
* `SortedBags` is what trees and heaps promise: bags of keys in order. `BSTree` has
  nodes with parent pointers. `Trees` (AVL and splay) and the leftist and skew heaps of
  `Heaps`, whose functions take a subtree and return what it has become, have trees as
  values; the binary heap of `Heaps` is an array. `ListSpec` is a sequence,
  `DoublyLinkedList` the ring of nodes behind list, stack and queue, with `walk` as a
  recursive function along `next`. A new node takes the first free address, which is
  sound because no code compares addresses. Refused arguments (null pointers) and failed
  allocations leave a container alone and are left out.
* `GraphSpec` is a graph as vertices and edges; `AMLGraph` (adjacency multilists) and
  `OLGraph` (orthogonal lists) are the code, with slots, list heads and links; the
  traversals of both are in `Loops`. `Filters` has the quotient filter with its runs,
  clusters and three flags per slot, and the Bloom filter.
* `Algorithms` (sorting, searching, matching, notation) and `Numeric` (arithmetic on bits
  with a width, divisors, sieves) are functions of their inputs, next to reference
  definitions. `Loops` turns the counted loops of the code into recursive functions.

The modules `MCUtility`, `MCCommand`, `MCContainers`, `MCViewer` and `MCAlgorithms` put
independent parts side by side: a variable `part` or `kind` says which one a behaviour is
of, and the variables of the others keep their initial values, so that parts share a run
without multiplying their states. Only `LogService` is checked as it is.
Every `.cfg` is one run. An operator `Mut...` in a module is a plausible bug of the
definition that follows it; it is used by no specification, only to see that a property
notices the bug (`PROJECT.json`, `mutants`).

## What is checked

| Run | Instance | Shows |
|---|---|---|
| `utility` | the lock with 3 threads; the thread pool with 2 workers and 3 tasks; the timer with 4 starts; a memory pool of 2 blocks of 7 with a header of 2 and slots of 2; a stream with a buffer of 2, a file of 5, 5 characters put and 2 opens | the counters equal their holders, a sleeper has a waker, refinement of `RWLockSpec` and so exclusion; tasks start in order and run once, the destructor drains, no lost wake-up, both waits end (`WorkGetsDone`); at most one callback begins after the request to stop; resources of the pool lie apart, and the last one of a block, and only that, reaches beyond its end; a stream passes every character once, in order; a thread past the first stage of the lock is served and `stop` returns (`WaitsEnd`) |
| `log_serving` | 1 client with 2 messages, 1 preview, 1 refresh, no failures | rows are written in order and in the end, a preview sees a file that does not change under it, startup and shutdown do what they say |
| `log_faults` | 1 message, 1 preview, 2 refreshes; opening and locking may fail at any time | every event has a row in the table, serving means holding the file lock, startup and refresh report the truth, the daemon sleeps only with nothing to do |
| `log_shutdown` | failures | **violated**: shutdown may leave `service` asleep |
| `command` | 2 calls of `doExecute` on every line of items, tasks may fail; lines of 3 tokens, then another; 2 programs, 3 starts, 1 edit and 1 kill on one settings file; a program with both helpers; 2 typed lines with batch files of up to 2 lines | a line runs as asked or not at all; it is understood by itself, whatever the last one was; settings that were accepted have the types their accessors read, and lack a field exactly if an edit has shortened the required list; only spoilt files are asked about; the verdict of the parent is its child's; the console runs the lines it is given, in order, up to the first that ends the session; accepted lines return, loading ends, parent and child end (`CallsEnd`) |
| `command_lost_wakeup` | 1 call | **violated**: a refused line may hang `doExecute` |
| `containers` | caches: 3 slots, 4 keys, 2 values, 3 uses; trees: 3 to 7 keys, 4 to 7 nodes; heaps: 3 keys, 5 or 6 elements; list: 4 nodes | each cache implements `CacheSpec` of its policy, each tree and heap `SortedBags`, the list `ListSpec`; searching, neighbours and ends agree with the order; AVL trees are balanced, leftist and skew heaps have their shape |
| `viewer` | a session of 3 requests and 1 reconnect, TCP and UDP, viewer established or not; a service with 2 restarts and 2 calls; one socket of each kind, a server with a connection, 3 descriptors, 2 objects | an answer belongs to its request, no segment and no timer is left behind, established means two servers, sessions go on, calls return and restarts and shutdown come to their end (`ViewerRestartsAndStops`), receivers and acceptors come to rest unless their descriptor was stolen |
| `view_lost_done` | 1 request | **violated**: the console may wait for ever |
| `algorithms` | arrays of up to 4 elements, texts of 6 and patterns of 4 characters, 3 operators, numbers of 4 bits, divisors up to 12, a sieve of 10 bits, JSON texts of 5 characters, requests of 4 bytes, graphs of 3 vertices and 3 edges, filters of 4 slots and 5 bits, 3 rows of a terminal | the results equal their reference definitions, texts survive every conversion and its inverse, graphs are graphs, filters deny no key they hold |
| `kmp` | texts of 5, patterns of 4 | **violated**: `kmp` misses an occurrence |
| `search_first` | ordered arrays of up to 3 elements | **violated**: of several equal elements a search does not return the first |

The bounds are the smallest ones at which the interesting cases occur. Three threads
give a writer that waits for a reader while a third thread waits behind it. Two
workers and three tasks give a queue that is longer than the pool, and a task that
enqueues another while the destructor waits. Behind a header of two, a block of seven has
room for two slots and a half, so that the third one overruns it. Two refreshes give a reset that meets the
failure of an earlier one. Four keys over three slots give eviction, reuse of the slot
and return of the evicted key; three uses separate the frequencies. Seven keys are the
fewest of which an AVL tree of height four can be made, where a removal deep in the
tree rotates above it; four nodes of a plain tree and five of a splay tree
give every case of their removal. Three requests give
an answer that arrives during a later request. Two calls of `doExecute`, and two lines
through the parser, show what the first one leaves behind. Two programs and three starts
give a file that is read while another program repairs it, and one that a killed program
has left empty. Two descriptors in use and one that is free give a number that comes
back to another owner. A quotient filter of four slots is filled to the brim, so that
clusters close around its end. Four letters of base64 carry three bytes: requests of up
to four bytes behind a prefix of two have every length modulo three.

### Disagreements with a run of their own

* `command.cpp:421`: the front end stores `isParsed` and notifies without `parserMtx`;
  between the back end's test and its wait both are lost (`command_lost_wakeup`).
* `log.cpp:555`: `awaitNotification2Retry` waits without a predicate; a notification that
  comes first is lost and the daemon sleeps on after `shutdown` (`log_shutdown`).
* `view.cpp:800`: the request is sent before `waitTaskDone` clears `outputCompleted`; a
  quick answer is forgotten (`view_lost_done`).
* `match.cpp:87`: the failure function of `kmp` continues from the entry it is about to
  compute (`kmp`).
* `search.hpp:38`, `44` and `50` promise the first occurrence of the key; `binary`,
  `interpolation` and `fibonacci` return whichever of several equal elements they probe first
  (`search_first`).

### Exemptions

Some properties hold of the code but for cases that the models show and the properties
name. A reader who changes this code should know them. Some of them the property describes
exactly: it says when the case occurs and what the code does then, so that a change of
either is noticed. These are, besides the limits of the algorithms:

* Memory pool: the last slot of a block overruns it, exactly if the size of the block
  without its header is no multiple of the slot's (`memory.hpp:207`, `OnlyTheLastOverruns`).
* Setting: a file is checked against the required fields it lists itself. After an accepted
  edit that shortens the list, accessors of the fields that are not there throw
  (`AccessorsAreSafe`).
* Binary heap: `remove` only filters down (`heap.cpp:184`). The order is lost exactly if the
  element that takes the removed one's place is smaller than the parent there
  (`KeepsTheOrder`).
* `radix` may leave an array with negative elements unsorted (`sort.hpp:436`), only if the
  difference of its ends has more digits than its maximum; it is a permutation even then.
* `interpolation` for an absent key may probe outside of the array or not come back
  (`search.hpp:120`), but finds nothing; `kmp` may miss a place, but what it returns is one;
  `stein` does not return for two zeros (`divisor.cpp:40`).

In the others the property says only in which case it is silent:

* View: `expiryTimer` is destroyed, and its worker joined, while `outputMtx` is held,
  which the callback needs (`view.cpp:804`). The reminder is stopped under the mutex of
  the state machine, which its callback needs too (`ReminderJam`), it may be started after
  the answer that should stop it, and a reset may be missed or the idle state read between
  two steps (`MissedReset`, `TornIdle`).
* Sockets: `close` never forgets the descriptor (`socket.cpp:71`), and a UDP receiver that
  fails leaves without the stop that `join` waits for (`socket.cpp:472`).
* Command and console: after a failed reconnect the next line is sent into a socket that
  is not connected (`command.cpp:781`); a batch file that runs itself never ends; a
  coroutine of `launchLifecycle` that is suspended when the program leaves is destroyed.
* Main: a signal between the test of the flags and `pause` is seen only at the next signal
  (`main.cpp:81`, `Overslept`); a child that ends as the alarm rings may be judged either
  way.
* Setting: a file is truncated before it is locked; the prompt spins on a closed input.
* I/O: a write that fails partway is repeated by `close`, a stream stays bad after it is
  opened again, and a failed seek from the end still moves the descriptor
  (`io.cpp:201`-`306`). A last row without an end may make a page one row too long.
* Texts: loading does not end for a text that stops at an opening bracket, and `[[]` is
  accepted (`json.cpp:71`); a configuration longer than its field is cut; a number and
  the same number as a string may differ as booleans.
* Containers: `deleteVertex` spins on a vertex with an edge to itself that takes the removed
  one's place (`graph.cpp:206`).
* Numbers: `i * i` of the sieve beyond its width (`prime.cpp:30`), division with the least
  number.

### Fairness

Weak fairness of a thread's steps says that the operating system schedules a runnable
thread, that tasks, callbacks, previews and system calls return, and that a timed wait
ends. It is given to the steps that follow once an operation has begun, never to the
choice to begin one: nothing makes a client log, the owner enqueue, the user type or an
administrator kill a program. A receiver and an acceptor are scheduled only while their
descriptor is theirs: what they wait for on somebody else's may never come.
Strong fairness occurs twice: for the front end's acquisition of `parserMtx` and for the
end of the timer's interval, because the other side may wake up spuriously any number
of times and so disable the step again and again. Spurious wake-ups themselves have no
fairness: nothing relies on them.

`EntrantsAreServed`, a part of `WaitsEnd`, speaks of threads that have passed `rwLock`, the first stage of the
lock. For those before it, `std::shared_mutex` promises nothing, and neither does the model.
`CHECK_DEADLOCK FALSE` stands in `MCViewer.cfg`, where two of the exemptions are deadlocks,
and in `MCAlgorithms.cfg`, `MCKmp.cfg` and `MCSearch.cfg`, where an algorithm that has returned stops.

## What is proved

Seven modules hold theorems about the models, and `SequenceLemmas` the facts about sequences
that two of them share. Each proves an inductive invariant of a specification, and
from it the safety properties that the runs check on their instances. The proofs hold
for all values of the constants that the named assumptions admit; the assumptions are
evaluated by TLC in every run of their modules. A property that `PROJECT.json` pairs with a
theorem is also checked by TLC on the instance of its run.

**The lock** (`UtilityProofs`, from `ThreadsAssumption`: the set of threads is finite).
`IInv` joins the types, exact counters, exclusion and the discipline of the first stage:
exclusion alone is not inductive, because the code tests a counter, and the test says
something about the holders only when the counter is their number (`ZeroMeansNone`).
From `IInv` follow `MutualExclusion` and `CountersAreExact`; `NoLostWakeup` needs one
more induction over it, and `Refinement` maps the initial state and every step to
`RWLockSpec`. Refinement is proved of `Spec`, which is safety only. `MutualExclusion` is
checked by TLC as a part of `ImplementsRWLock`.

**The timer** (`UtilityProofs`). `OneLateCallback` (`AtMostOneLateCallback`): a worker that
has called back after the request does not wait again (`TimerInv`), so there is no second
late callback. That `stop` returns is liveness.

**The memory pool** (`UtilityProofs`, from `SizesAssumption`: a block has room for two
slots, and its header is no larger than a slot). That two resources do not overlap is not
inductive, because a slot that is free now is handed out later. `PoolInv` therefore speaks
of held and free slots together: they begin in their blocks behind the header, in the last
block before the current slot (`Within`), any two of a block are the size of a slot apart
(`Spaced`), and none is held and free at once or free twice (`Once`). Which slot overruns its block is
not inductive either: it needs that every slot lies whole steps behind the header (`OnSteps`)
and that a block is given out without gaps, up to the current slot or to its end (`Filled`).
Then two slots that both reached the end of a block would be one (`EndsMeet`), and the last
one of a block that is used up ends at its end or behind it, according to whether the slots
fill the block (`Whole`, `FilledOverruns`). `SlotsStayApart` (`ResourcesAreApart`) follows.

**The file stream** (`UtilityProofs`). An open handle writes or reads. `WriterOK` says that
the file followed by the buffer is what the stream has taken, until a system call fails,
and that no character is in them twice unless a write has failed partway; `ReaderOK` says
that the buffer is the piece of the file before the descriptor's position, unless a failed
seek has moved it. `StreamInv` is one or the other, and `CharactersDoPass`
(`CharactersPassOnce`) follows for every buffer, file and sequence of partial writes.

**The thread pool** (`ThreadPoolProofs`, from `PoolAssumption`). `ThreadIInv` joins the types,
the control positions of the destructor and the workers (`Control`) and the safety
properties of the run. `TasksStartInOrder` says that what was accepted is what was
started followed by what is queued; `DestructorDrains` follows because the queue is empty
after the release and no worker holds a task when all have exited. `NoLostWakeup` holds
for the workers and for the destructor.

**The logger** (`LogServiceProofs`, from `LogAssumption`: names of threads are apart,
bounds are numbers). What `processEvent` finds in the table is one lemma (`Dispatch`).
`IInv` has four layers above the types. `Daemon` ties the label of the daemon to the state
machine and to the log file. `Handshake` ties both to the flags and to the call the
controller is in; without it `StartupMeansServing` is not inductive, because what ends a
session is a flag that only certain calls set. `Order` looks at the rows put out and
queued as one stream, since a row passes from the queue into the file at a step of
another thread than the one that logged it. `Clean` follows the rows from before a reset
until the file is cleared. From `IInv` follow `ServiceIsSound` (`LogInvariant`),
`NoLostWakeup` (`SleepIsJustified`), `RefreshClears` (`RefreshClearsTheFile`), the action
property `PreviewsAreStable` (`PreviewsSeeAStableFile`) and `RowsStayInOrder`, which is
the safety half of `RowsComeOut`.

**Command execution** (`CommandProofs`, from `LinesAssumption`: lines are sequences of
items; a malformed line has no other item, and a line has one sub-command at most, as
the parser takes the rest of the line for it). `Line` says that what is left to visit is
the end of the line, `Control` ties labels, flags and failures together, and
`Selection` says that what is selected is what the items passed so far ask for
(`Chosen`), up to the moment at which the back end takes it. `CallsRunWhatWasAsked`
(`RunsWhatWasAsked`) follows at the return of a call, for any number of calls in a row:
each leaves no selection behind for the next one.

**The program** (`CommandProofs`). `Stages` ties the child's label to the phases of both
helpers, so that a child which exits with success has had both services return, and
`Verdict` ties the parent's verdict to the exit of the child or to the alarm.
`VerdictIsRight` (`VerdictIsTheChilds`) follows, wherever a kill comes.

**The settings** (`CommandProofs`). The accessors are safe only for what `loadSettings` has
checked, while other programs rewrite the file. `Contention` says who may hold the lock
and that two programs which load at once count as spoiling the file; `Unspoilt` says what
an unspoilt file holds at each label. What a program has loaded was verified (`Verified`):
every field that is there has its type and range. Whether a field is lacking is counted: a
file has as many properties as its required list is long, all of known names, so that it has
all of them exactly if that list is as long as the accessors' (`LackingIsCounted`), and
without an edit the file is the default one (`Unedited`). `SettingsStaySound` (`SettingsAreSound`) follows, for any number of programs,
edits and kills.

**The caches** (`CacheProofs`, from `CacheAssumption`: a cache has a slot). `CachesImplement`
is the refinement `CachesFollowTheirPolicy`: FIFO, LRU and LFU implement `CacheSpec` of
their policy. The list is a permutation of all slots and the map owns the slots in use
(`Store`); for FIFO these are the last of the list, for LRU and LFU the first, with the
iterator behind them (`EndKept`). The order in which `CacheSpec` keeps its keys is read
off the list for FIFO and LRU. For LFU it is a history, and `Counted` says that the multimap
has one entry per slot in use, ascending, and keeps entries of equal counts in that order:
that is why its first entry is the least recently used of the least used.

**The doubly linked list** (`ListProofs`, from `NodesAssumption`). `ListImplements` is the
refinement `ListIsASequence` of `ListSpec`. `ListInv` says that there is a sequence of
addresses without repetitions such that the nodes are these and the head, linked in this
order both ways (`RingOf`). What `walk` and `getNode` return needs induction along the
ring; it is done with the least place at which the claim would fail (`Induction`,
`WalkIs`, `GetNodeIs`, which covers the count from the front and from the back). `link`
changes three nodes and `unlink` two, and the sequence by one element (`Linked`, `Unlinked`).

**A session of a console** (`ViewerProofs`, from `SessionAssumption`). The properties speak
of one answer and one segment, and are inductive only with what is under way: requests
and answers carry distinct ids and the request to stop comes last (`Pipe`); nothing
follows the answer that ends the receiver (`Ending`); a segment in use has a server that
fills it or an answer that names it (`FillInUse`, `SegmentsFollowAnswers`); and while the
viewer is established only the answer to the last request is under way (`Asked`). From
`SessionIInv` follow `AnswersComeFirst` (`AnswerBeforeReturn`) and `SessionsLeaveNothing`
(`NothingIsLeftBehind`), over both transports, with messages lost.

**The viewer service** (`ViewerProofs`, no assumption). `Servers` ties the label of the
daemon to the state machine and to both servers, through the table (`ViewDispatch`).
`Calls` says what each call of the console waits for. `GoingOn` says that a session which
the console has asked for ends by failing only, and `Resetting` that between the request
of a reset and the next session `isOngoing` means that the old session is still to be
ended; without the two a startup could take the "established" of the session before the
reset for its own. `StartupsTellTheTruth` (`EstablishedMeansServing`) follows, for
any number of restarts and whatever sockets fail to be made or bound.

Only model-checked are:

* all liveness properties, which are beyond the prover (`WorkGetsDone`, `ControllerIsObeyed`,
  `WaitsEnd`, `CallsEnd`, `SessionsGoOn`, `ViewerRestartsAndStops`, `SocketsComeToRest`, and the
  liveness half of `RowsComeOut` and `LinesAreRun`);
* what a line comes to: `LineIsUnderstood` and `LinesAreRun` compare the fold over the tokens,
  or over the lines of nested batch files, with a definition of the whole line;
* the trees and heaps, the graphs and filters, the algorithms, `Json` and `Messages`: they
  follow the recursion of the code with `RECURSIVE` operators, which the prover does not
  accept (`ShapesHold`, `BagsAreSorted`, `SortsAreSorted`, `SearchesFind`,
  `NotationsKeepTheTree`, `NumbersAreRight`, `TextsArrive`, `GraphsAreGraphs`,
  `FiltersNeverForget`).

## What is not modelled

* Build information; reflection, currying, macros and the benchmark: constants of the
  build and compile-time machinery without state.
* The design patterns, which print which function was called, and the application
  examples, which print what the libraries return; the dispatch of their choices is in
  `CommandExec`, that of the methods in the algorithms' modules.
* The optimisers and the integrations: floating point, most of it randomised.
* Formatting, highlighting and wording of rows and messages, the help text, readline's
  editing, history and completion, `popen`; hashing and checksums beyond the fingerprint
  that a filter keeps.
* Compression and encryption, which are external and undo each other; names, addresses and
  options of sockets.
* The document server, which is not a part of the C++ program.
* A capacity of zero of a cache, which is undefined in the code; moving a memory pool, which
  hands all of it over.

The memory order of single atomics is sequentially consistent in the models, as it is in
the code wherever it gives no order. `PROJECT.json` has the status of each part.

## Plan

What is left, in the order of its worth:

1. the ownership of descriptors in `Sockets`: a number that an object has opened and not
   yet closed is its own, unless a late close has given it away;
2. `BSTree` and the binary heap with recursive functions in place of `RECURSIVE` operators,
   and then their order and shape along the lines of `ListProofs`, whose induction over
   places carries over to paths;
3. the parser: that its fold keeps what a line of tokens means, token by token.
