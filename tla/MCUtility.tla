------------------------------- MODULE MCUtility -------------------------------
(***************************************************************************)
(* The readers-writer lock, the thread pool, the timer, the memory pool    *)
(* and the stream buffer of utility; a behaviour is one of them, as part   *)
(* says, and the others rest in their initial states.                      *)
(***************************************************************************)
EXTENDS ReadWriteLock, ThreadPool, Integers

CONSTANTS MaxStarts,
          BlockSize, SlotSize, Header, MaxBlocks,
          bufferSize, FileSize, MaxPut, MaxOpens

\* The sizes are those of objects.  A block has room for two slots, as memory.hpp asserts,
\* and the header for its link, which is also a member of a slot, aligned as a slot is.
ASSUME SizesAssumption ==
  /\ SlotSize \in Nat /\ Header \in 1 .. SlotSize
  /\ BlockSize \in Nat /\ BlockSize >= 2 * SlotSize
  /\ bufferSize \in Nat \ {0} /\ FileSize \in Nat

VARIABLES part, upc, worker, periodic, token, starts, late,
          pool, call, held,
          handle

T == INSTANCE Timer
M == INSTANCE MemoryPool
D == INSTANCE FDStream

timerVars == <<upc, worker, periodic, token, starts, late>>
poolVars == <<pool, call, held>>
allVars == <<part, vars, threadVars, timerVars, poolVars, handle>>

PartInit ==
  /\ part \in {"lock", "threads", "timer", "pool", "stream"}
  /\ Init /\ ThreadInit /\ T!Init /\ M!Init /\ D!Init
  /\ part # "stream" => handle = D!Writer

PartNext ==
  /\ \/ part = "lock" /\ Next /\ UNCHANGED <<threadVars, timerVars, poolVars, handle>>
     \/ part = "threads" /\ ThreadNext /\ UNCHANGED <<vars, timerVars, poolVars, handle>>
     \/ part = "timer" /\ T!Next /\ UNCHANGED <<vars, threadVars, poolVars, handle>>
     \/ part = "pool" /\ M!Next /\ UNCHANGED <<vars, threadVars, timerVars, handle>>
     \/ part = "stream" /\ D!Next /\ UNCHANGED <<vars, threadVars, timerVars, poolVars>>
  /\ UNCHANGED part

\* The fairness of the lock, of the thread pool and of the timer, each for its part.
PartSpec ==
  /\ PartInit
  /\ [][PartNext]_allVars
  /\ \A t \in Threads : WF_vars(part = "lock" /\ Step(t))
  /\ \A w \in Workers : WF_threadVars(part = "threads" /\ WorkerStep(w))
  /\ WF_threadVars(part = "threads" /\ DtorStep)
  /\ WF_timerVars(part = "timer" /\ T!WorkerStep)
  /\ SF_timerVars(part = "timer" /\ T!WorkerTimeout)
  /\ WF_timerVars(part = "timer" /\ (T!StopNotify \/ T!StopJoin))

\* After Timer::stop has made its request the worker calls back once at most, however the
\* request falls between the worker's tests and waits.
AtMostOneLateCallback == T!AtMostOneLateCallback

\* Who has to wait is served: a thread that has passed rwLock gets the lock, and
\* Timer::stop returns, although its notification may come before the wait.
WaitsEnd == EntrantsAreServed /\ T!StopReturns

\* Resources of the memory pool begin inside their blocks and lie apart from each other
\* and from the free slots, none is given out twice, and one reaches beyond its block
\* exactly when it is the last of a block that the slots do not fill.
ResourcesAreApart ==
  /\ M!Apart /\ M!OnlyTheLastOverruns
  /\ [][M!AcquiresAreFresh /\ M!Apart' /\ M!OnlyTheLastOverruns']_poolVars

\* Characters pass the buffers between a stream and its file once and in order, and are
\* read from where the last seek has promised; the exemptions are with FDStream.
CharactersPassOnce == D!WritesArriveOnce /\ D!ReadsFollowTheFile
================================================================================
