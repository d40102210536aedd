----------------------------- MODULE ThreadPool -----------------------------
(***************************************************************************)
(* The thread pool of src/core/3rd/threadpool/src/threadpool.c: a ring of  *)
(* task slots under one mutex, workers that sleep on one condition         *)
(* variable, clients that add tasks, and an owner that destroys the pool.  *)
(*                                                                         *)
(* A thread that holds the mutex runs alone among those that use it, so    *)
(* what it does between taking and releasing it is a step of its own, with *)
(* the release, unless something else may be seen to happen in between.    *)
(***************************************************************************)
EXTENDS Naturals, Integers, Sequences, FiniteSets

CONSTANTS
  Worker,     \* the threads threadpool_create starts
  Client,     \* the threads that call threadpool_add
  Owner,      \* the client that calls threadpool_destroy
  Task,       \* the tasks; a client adds each of them once
  QueueSize,  \* slots of the ring
  NoThread, NoTask

ASSUME PoolAssumption ==
  /\ QueueSize \in Nat \ {0}
  /\ IsFiniteSet(Worker) /\ Worker # {}
  /\ Owner \in Client
  /\ Worker \cap Client = {}
  /\ NoThread \notin Worker \cup Client
  /\ NoTask \notin Task

Thread == Worker \cup Client

VARIABLES
  lock,      \* the thread that holds the mutex
  head, tail, count, slots,
  shutdown, started,
  pc,        \* where each thread is
  task,      \* the task a worker has copied out of the ring (taskcpy)
  arg,       \* the task a thread is adding
  waiting,   \* workers asleep on the condition variable
  freed,     \* the memory of the pool has been given back
  accepted,  \* the tasks added with success, in order (a history)
  handed     \* the tasks copied out by workers, in order (a history)

ring  == <<head, tail, count, slots>>
hist  == <<accepted, handed>>
vars  == <<lock, ring, shutdown, started, pc, task, arg, waiting, freed, hist>>

Init ==
  /\ lock = NoThread
  /\ head = 0 /\ tail = 0 /\ count = 0
  /\ slots = [i \in 0..QueueSize - 1 |-> NoTask]
  /\ shutdown = FALSE /\ started = Cardinality(Worker)
  /\ pc = [t \in Thread |-> IF t \in Worker THEN "lock" ELSE "idle"]
  /\ task = [w \in Worker |-> NoTask]
  /\ arg = [t \in Thread |-> NoTask]
  /\ waiting = {} /\ freed = FALSE
  /\ accepted = <<>> /\ handed = <<>>

Go(t, from, to) == pc[t] = from /\ pc' = [pc EXCEPT ![t] = to]
Acquire(t) == lock = NoThread /\ lock' = t
Release    == lock' = NoThread

\* Deviation: the index wraps one slot too late.
AfterLate(i) == IF i = QueueSize THEN 0 ELSE i + 1

\* Index after i in the ring.
After(i) == IF i + 1 = QueueSize THEN 0 ELSE i + 1

-----------------------------------------------------------------------------
(* threadpool_run: a worker takes the mutex,                                *)
WorkerLock(w) ==
  /\ Go(w, "lock", "test") /\ Acquire(w)
  /\ UNCHANGED <<ring, shutdown, started, task, arg, waiting, freed, hist>>

\* finds nothing to do and sleeps, which gives the mutex back,
WorkerWait(w) ==
  /\ count = 0 /\ ~shutdown
  /\ Go(w, "test", "wait") /\ Release
  /\ waiting' = waiting \cup {w}
  /\ UNCHANGED <<ring, shutdown, started, task, arg, freed, hist>>

\* wakes up although nobody signalled and takes the mutex again,
SpuriousWakeup(w) ==
  /\ w \in waiting
  /\ waiting' = waiting \ {w}
  /\ Go(w, "wait", "lock")
  /\ UNCHANGED <<lock, ring, shutdown, started, task, arg, freed, hist>>

\* Deviation: the head stays where it is.
WorkerTakeAgain(w) ==
  /\ count # 0 /\ ~shutdown
  /\ Go(w, "test", "run") /\ Release
  /\ task' = [task EXCEPT ![w] = slots[head]]
  /\ handed' = Append(handed, slots[head])
  /\ count' = count - 1
  /\ UNCHANGED <<head, tail, slots, shutdown, started, arg, waiting, freed, accepted>>

\* copies the task at the head of the ring,
WorkerTake(w) ==
  /\ count # 0 /\ ~shutdown
  /\ Go(w, "test", "run") /\ Release
  /\ task' = [task EXCEPT ![w] = slots[head]]
  /\ handed' = Append(handed, slots[head])
  /\ head' = After(head)
  /\ count' = count - 1
  /\ UNCHANGED <<tail, slots, shutdown, started, arg, waiting, freed, accepted>>

\* runs it without the mutex,
WorkerRun(w) ==
  /\ Go(w, "run", "lock")
  /\ task' = [task EXCEPT ![w] = NoTask]
  /\ UNCHANGED <<lock, ring, shutdown, started, arg, waiting, freed, hist>>

\* leaves the loop because the pool shuts down, tasks or no tasks,
WorkerStop(w) ==
  /\ shutdown
  /\ Go(w, "test", "exit")
  /\ UNCHANGED <<lock, ring, shutdown, started, task, arg, waiting, freed, hist>>

\* Deviation: the worker is not counted out.
WorkerExitUncounted(w) ==
  /\ Go(w, "exit", "ended") /\ Release
  /\ UNCHANGED <<ring, shutdown, started, task, arg, waiting, freed, hist>>

\* Deviation: the worker keeps the mutex.
WorkerExitLocked(w) ==
  /\ Go(w, "exit", "ended")
  /\ started' = started - 1
  /\ UNCHANGED <<lock, ring, shutdown, task, arg, waiting, freed, hist>>

\* and ends.
WorkerExit(w) ==
  /\ Go(w, "exit", "ended") /\ Release
  /\ started' = started - 1
  /\ UNCHANGED <<ring, shutdown, task, arg, waiting, freed, hist>>

-----------------------------------------------------------------------------
\* The owner has called threadpool_destroy.
Destroying == pc[Owner] \in {"d_lock", "d_stop", "d_join", "d_unlock", "d_free", "gone"}

\* threadpool_add of task k, by a client or from inside a running task: what
\* clients still do once the owner destroys the pool is not the pool's matter.
AddCall(t, k) ==
  /\ \A i \in 1..Len(accepted) : accepted[i] # k
  /\ \A u \in Thread : arg[u] # k
  /\ \/ t \in Client /\ ~Destroying /\ Go(t, "idle", "a_lock")
     \/ t \in Worker /\ Go(t, "run", "a_lock")
  /\ arg' = [arg EXCEPT ![t] = k]
  /\ UNCHANGED <<lock, ring, shutdown, started, task, waiting, freed, hist>>

AddLock(t) ==
  /\ Go(t, "a_lock", "a_body") /\ Acquire(t)
  /\ UNCHANGED <<ring, shutdown, started, task, arg, waiting, freed, hist>>

\* Deviation: nobody is woken.
SignalNobody(next) == waiting' = waiting /\ pc' = next

\* pthread_cond_signal wakes one sleeping worker, if there is one.
Signal(next) ==
  \/ /\ waiting = {} /\ waiting' = {} /\ pc' = next
  \/ \E w \in waiting :
       /\ waiting' = waiting \ {w}
       /\ pc' = [next EXCEPT ![w] = "lock"]

\* Deviation: the pool is not asked whether it is shutting down.
AddPutAnyway(t) ==
  /\ pc[t] = "a_body" /\ count # QueueSize
  /\ slots' = [slots EXCEPT ![tail] = arg[t]]
  /\ tail' = After(tail)
  /\ count' = count + 1
  /\ accepted' = Append(accepted, arg[t])
  /\ Signal([pc EXCEPT ![t] = "a_unlock"])
  /\ UNCHANGED <<lock, head, shutdown, started, task, arg, freed, handed>>

\* There is room: the task goes into the slot at the tail.
AddPut(t) ==
  /\ pc[t] = "a_body" /\ ~shutdown /\ count # QueueSize
  /\ slots' = [slots EXCEPT ![tail] = arg[t]]
  /\ tail' = After(tail)
  /\ count' = count + 1
  /\ accepted' = Append(accepted, arg[t])
  /\ Signal([pc EXCEPT ![t] = "a_unlock"])
  /\ UNCHANGED <<lock, head, shutdown, started, task, arg, freed, handed>>

\* threadpool_shutdown or threadpool_queue_full.
AddRefused(t) ==
  /\ shutdown \/ count = QueueSize
  /\ Go(t, "a_body", "a_unlock")
  /\ UNCHANGED <<lock, ring, shutdown, started, task, arg, waiting, freed, hist>>

AddUnlock(t) ==
  /\ Go(t, "a_unlock", IF t \in Worker THEN "run" ELSE "idle") /\ Release
  /\ arg' = [arg EXCEPT ![t] = NoTask]
  /\ UNCHANGED <<ring, shutdown, started, task, waiting, freed, hist>>

-----------------------------------------------------------------------------
(* threadpool_destroy, once, by the owner, when no client is in a call:     *)
DestroyCall ==
  /\ \A c \in Client : pc[c] = "idle"
  /\ Go(Owner, "idle", "d_lock")
  /\ UNCHANGED <<lock, ring, shutdown, started, task, arg, waiting, freed, hist>>

DestroyLock ==
  /\ Go(Owner, "d_lock", "d_stop") /\ Acquire(Owner)
  /\ UNCHANGED <<ring, shutdown, started, task, arg, waiting, freed, hist>>

\* Deviation: the sleeping workers are not woken.
DestroyStopQuietly ==
  /\ pc[Owner] = "d_stop"
  /\ shutdown' = TRUE
  /\ pc' = [pc EXCEPT ![Owner] = "d_join"] /\ Release
  /\ UNCHANGED <<ring, started, task, arg, waiting, freed, hist>>

\* shut down, wake every worker, give the mutex back,
DestroyStop ==
  /\ pc[Owner] = "d_stop"
  /\ shutdown' = TRUE
  /\ pc' = [t \in Thread |-> IF t = Owner THEN "d_join"
                             ELSE IF t \in waiting THEN "lock" ELSE pc[t]]
  /\ waiting' = {} /\ Release
  /\ UNCHANGED <<ring, started, task, arg, freed, hist>>

\* Deviation: the workers are not waited for.
DestroyJoinNobody ==
  /\ Go(Owner, "d_join", "d_unlock")
  /\ UNCHANGED <<lock, ring, shutdown, started, task, arg, waiting, freed, hist>>

\* wait until every worker has ended,
DestroyJoin ==
  /\ \A w \in Worker : pc[w] = "ended"
  /\ Go(Owner, "d_join", "d_unlock")
  /\ UNCHANGED <<lock, ring, shutdown, started, task, arg, waiting, freed, hist>>

\* unlock a second time, whoever holds the mutex,
DestroyUnlock ==
  /\ Go(Owner, "d_unlock", "d_free") /\ Release
  /\ UNCHANGED <<ring, shutdown, started, task, arg, waiting, freed, hist>>

\* and free the pool unless threadpool_free still counts a worker.
DestroyFree ==
  /\ Go(Owner, "d_free", "gone")
  /\ \/ started > 0 /\ UNCHANGED freed
     \/ started <= 0 /\ lock = NoThread /\ freed' = TRUE
  /\ UNCHANGED <<lock, ring, shutdown, started, task, arg, waiting, hist>>

-----------------------------------------------------------------------------
WorkerStep(w) ==
  \/ WorkerLock(w) \/ WorkerWait(w) \/ WorkerTake(w) \/ WorkerRun(w)
  \/ WorkerStop(w) \/ WorkerExit(w)

AddStep(t) == AddLock(t) \/ AddPut(t) \/ AddRefused(t) \/ AddUnlock(t)

DestroyStep ==
  DestroyLock \/ DestroyStop \/ DestroyJoin \/ DestroyUnlock \/ DestroyFree

Next ==
  \/ \E w \in Worker : WorkerStep(w) \/ SpuriousWakeup(w)
  \/ \E t \in Thread : AddStep(t) \/ \E k \in Task : AddCall(t, k)
  \/ DestroyCall \/ DestroyStep

\* Threads keep running, a thread that wants the mutex gets it in the end
\* (it is released again and again), and a running task ends, however many
\* tasks it adds.  Nobody has to add a task, to destroy the pool or to wake up
\* without a signal.
Fairness ==
  /\ \A w \in Worker : WF_vars(WorkerStep(w)) /\ SF_vars(WorkerLock(w))
                                              /\ SF_vars(WorkerRun(w))
  /\ \A t \in Thread : WF_vars(AddStep(t)) /\ SF_vars(AddLock(t))
  /\ WF_vars(DestroyStep) /\ SF_vars(DestroyLock)

Spec == Init /\ [][Next]_vars /\ Fairness

-----------------------------------------------------------------------------
\* In threadpool_run, threadpool_add and threadpool_destroy, in this order.
Place == {"lock", "test", "wait", "run", "exit", "ended",
          "idle", "a_lock", "a_body", "a_unlock",
          "d_lock", "d_stop", "d_join", "d_unlock", "d_free", "gone"}

(* Type invariant: the indices stay inside the ring, the slots hold tasks.   *)
TypeOK ==
  /\ lock \in Thread \cup {NoThread}
  /\ head \in 0..QueueSize - 1 /\ tail \in 0..QueueSize - 1
  /\ count \in 0..QueueSize
  /\ slots \in [0..QueueSize - 1 -> Task \cup {NoTask}]
  /\ shutdown \in BOOLEAN /\ started \in Int
  /\ pc \in [Thread -> Place]
  /\ task \in [Worker -> Task \cup {NoTask}]
  /\ arg \in [Thread -> Task \cup {NoTask}]
  /\ waiting \subseteq Worker /\ freed \in BOOLEAN
  /\ accepted \in Seq(Task) /\ handed \in Seq(Task)

\* Places at which a thread holds the mutex.
Critical == {"test", "exit", "a_body", "a_unlock", "d_stop"}

(* The mutex protects what it should: the thread in a critical section is    *)
(* the one that holds it, although threadpool_destroy unlocks once too often.*)
MutexHeld == \A t \in Thread : pc[t] \in Critical <=> lock = t

(* The second unlock of threadpool_destroy (line 403) never takes the mutex  *)
(* away from a thread that holds it.                                         *)
UnlocksNobody == pc[Owner] = "d_unlock" => lock = NoThread

\* What is in the ring, oldest first.
Wrap(i) == IF i >= QueueSize THEN i - QueueSize ELSE i
Queued  == [i \in 1..count |-> slots[Wrap(head + i - 1)]]

(* Every task accepted is handed to one worker, in the order of acceptance,  *)
(* or is still in the ring: none is lost, overwritten, doubled or overtaken. *)
FifoOnce == accepted = handed \o Queued

(* No signal is lost: while a worker sleeps, every task in the ring has a    *)
(* worker of its own on the way to it.                                       *)
Awake == {w \in Worker : pc[w] \in {"lock", "test"}}
NoLostWakeup == waiting # {} /\ ~shutdown => count <= Cardinality(Awake)

(* The pool is freed only when no thread can touch it any more, and it is    *)
(* freed: threadpool_free counts no worker that has ended (line 416).        *)
FreedLast ==
  /\ freed => lock = NoThread /\ \A w \in Worker : pc[w] = "ended"
  /\ pc[Owner] = "gone" => freed

(* The pool behaves as the queue that TaskQueue describes.                   *)
Promise == INSTANCE TaskQueue WITH queue <- Queued, handed <- handed, open <- ~shutdown
Implements == Promise!Spec

(* A task that was accepted is run, unless the pool is shut down before.     *)
AcceptedIsRun ==
  \A k \in Task : (\E i \in 1..Len(accepted) : accepted[i] = k)
                    ~> (shutdown \/ \E i \in 1..Len(handed) : handed[i] = k)

(* threadpool_destroy comes back: no worker sleeps through the broadcast and *)
(* none waits for a mutex nobody gives back.                                 *)
DestroyReturns == (pc[Owner] = "d_lock") ~> (pc[Owner] = "gone")
=============================================================================
