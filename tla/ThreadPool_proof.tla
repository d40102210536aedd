-------------------------- MODULE ThreadPool_proof --------------------------
(***************************************************************************)
(* What holds of ThreadPool for any number of workers, clients and tasks   *)
(* and any size of the ring.  The invariant is built in layers: the types  *)
(* and the ring, the places of the threads with the mutex, the count of    *)
(* workers, the order of the tasks, the signals.                           *)
(***************************************************************************)
EXTENDS ThreadPool, FiniteSetTheorems, SequenceTheorems, TLAPS

-----------------------------------------------------------------------------
(* Arithmetic of the ring: indices from one lap are in range, distinct, and  *)
(* After goes from each to the next.                                         *)
LEMMA WrapInRange ==
  ASSUME NEW h \in 0..QueueSize - 1, NEW i \in 0..QueueSize
  PROVE  Wrap(h + i) \in 0..QueueSize - 1
BY PoolAssumption DEF Wrap

LEMMA WrapDistinct ==
  ASSUME NEW h \in 0..QueueSize - 1,
         NEW i \in 0..QueueSize - 1, NEW j \in 0..QueueSize - 1, i # j
  PROVE  Wrap(h + i) # Wrap(h + j)
BY PoolAssumption DEF Wrap

LEMMA AfterIsNext ==
  ASSUME NEW h \in 0..QueueSize - 1, NEW i \in 0..QueueSize - 1
  PROVE  /\ After(h) \in 0..QueueSize - 1
         /\ Wrap(After(h) + i) = Wrap(h + (i + 1))
         /\ After(Wrap(h + i)) = Wrap(h + (i + 1))
BY PoolAssumption DEF Wrap, After

(* A step either leaves the tasks and the shutdown flag alone or is one of   *)
(* the three that do not.                                                    *)
LEMMA TaskSteps ==
  [Next]_vars =>
    \/ UNCHANGED <<ring, hist, shutdown>>
    \/ \E w \in Worker : WorkerTake(w)
    \/ \E t \in Thread : AddPut(t)
    \/ DestroyStop
BY DEF Next, vars, hist, WorkerStep, AddStep, DestroyStep, WorkerLock, WorkerWait,
       SpuriousWakeup, WorkerRun, WorkerStop, WorkerExit, AddCall, AddLock,
       AddRefused, AddUnlock, DestroyCall, DestroyLock, DestroyJoin,
       DestroyUnlock, DestroyFree

-----------------------------------------------------------------------------
Adding == {"a_lock", "a_body", "a_unlock"}

(* The types, and what they rest on: a thread that is adding has a task in   *)
(* hand, and the slots from the head up to the tail hold tasks.              *)
TypeInv ==
  /\ TypeOK
  /\ \A t \in Thread : pc[t] \in Adding => arg[t] \in Task
  /\ tail = Wrap(head + count)
  /\ \A i \in 0..QueueSize - 1 : i < count => slots[Wrap(head + i)] \in Task

LEMMA TypeInvInit == Init => TypeInv
<1> SUFFICES ASSUME Init PROVE TypeInv
  OBVIOUS
<1>1. Cardinality(Worker) \in Int
  BY PoolAssumption, FS_CardinalityType
<1>2. lock \in Thread \cup {NoThread} /\ 0 \in 0..QueueSize - 1 /\ 0 \in 0..QueueSize
  BY PoolAssumption DEF Init
<1>3. slots \in [0..QueueSize - 1 -> Task \cup {NoTask}]
  BY DEF Init
<1>4. pc \in [Thread -> Place] /\ \A t \in Thread : pc[t] \in {"lock", "idle"}
  BY DEF Init, Place
<1>5. TypeOK
  <2>1. /\ task \in [Worker -> Task \cup {NoTask}]
        /\ arg \in [Thread -> Task \cup {NoTask}]
    BY DEF Init
  <2>2. /\ shutdown \in BOOLEAN /\ freed \in BOOLEAN /\ waiting \subseteq Worker
        /\ accepted \in Seq(Task) /\ handed \in Seq(Task)
        /\ started \in Int
    BY <1>1, EmptySeq DEF Init
  <2>3. /\ head \in 0..QueueSize - 1 /\ tail \in 0..QueueSize - 1
        /\ count \in 0..QueueSize
    BY <1>2 DEF Init
  <2> QED
    BY <1>2, <1>3, <1>4, <2>1, <2>2, <2>3 DEF TypeOK
<1>6. tail = Wrap(head + count)
  BY PoolAssumption DEF Init, Wrap
<1>7. \A t \in Thread : pc[t] \notin Adding
  BY <1>4 DEF Adding
<1> QED
  BY <1>5, <1>6, <1>7 DEF Init, TypeInv

LEMMA TypeInvNext == TypeInv /\ [Next]_vars => TypeInv'
<1> SUFFICES ASSUME TypeInv, [Next]_vars PROVE TypeInv'
  OBVIOUS
<1> USE DEF TypeInv, TypeOK, Place, Adding, Go, Acquire, Release, ring, hist
<1>1. CASE \E w \in Worker : WorkerLock(w)
  BY <1>1 DEF WorkerLock, Thread, Wrap
<1>2. CASE \E w \in Worker : WorkerWait(w)
  BY <1>2 DEF WorkerWait, Thread, Wrap
<1>3. CASE \E w \in Worker : SpuriousWakeup(w)
  BY <1>3 DEF SpuriousWakeup, Thread, Wrap
<1>4. CASE \E w \in Worker : WorkerTake(w)
  <2> PICK w \in Worker : WorkerTake(w)
    BY <1>4
  <2> USE DEF WorkerTake
  <2>1. count \in 1..QueueSize /\ count' = count - 1
    BY PoolAssumption
  <2>2. Wrap(head + 0) = head
    BY PoolAssumption DEF Wrap
  <2>3. slots[head] \in Task
    <3>1. 0 \in 0..QueueSize - 1 /\ 0 < count
      BY <2>1, PoolAssumption
    <3>2. slots[Wrap(head + 0)] \in Task
      BY <3>1
    <3> QED
      BY <2>2, <3>2
  <2>4. head' \in 0..QueueSize - 1
    BY AfterIsNext, PoolAssumption
  <2>5. tail' = Wrap(head' + count')
    <3>1. Wrap(After(head) + (count - 1)) = Wrap(head + ((count - 1) + 1))
      BY <2>1, AfterIsNext, PoolAssumption
    <3> QED
      BY <2>1, <3>1
  <2>6. ASSUME NEW i \in 0..QueueSize - 1, i < count'
        PROVE  slots'[Wrap(head' + i)] \in Task
    <3>1. i + 1 \in 0..QueueSize - 1 /\ i + 1 < count
      BY <2>1, <2>6, PoolAssumption
    <3>2. Wrap(head' + i) = Wrap(head + (i + 1))
      BY AfterIsNext, PoolAssumption
    <3> QED
      BY <3>1, <3>2
  <2>7. handed' \in Seq(Task)
    BY <2>3
  <2>8. count' \in 0..QueueSize
    BY <2>1, PoolAssumption
  <2>9. TypeOK'
    <3>1. task' \in [Worker -> Task \cup {NoTask}]
      BY <2>3
    <3>2. lock' \in Thread \cup {NoThread} /\ waiting' \subseteq Worker
      OBVIOUS
    <3> QED
      BY <2>4, <2>7, <2>8, <3>1, <3>2
  <2>10. \A t \in Thread : pc'[t] \in Adding => arg'[t] \in Task
    BY DEF Thread
  <2> QED
    BY <2>5, <2>6, <2>9, <2>10 DEF Wrap
<1>5. CASE \E w \in Worker : WorkerRun(w)
  BY <1>5 DEF WorkerRun, Thread, Wrap
<1>6. CASE \E w \in Worker : WorkerStop(w)
  BY <1>6 DEF WorkerStop, Thread, Wrap
<1>7. CASE \E w \in Worker : WorkerExit(w)
  BY <1>7 DEF WorkerExit, Thread, Wrap
<1>8. CASE \E t \in Thread, k \in Task : AddCall(t, k)
  BY <1>8 DEF AddCall, Wrap
<1>9. CASE \E t \in Thread : AddLock(t)
  BY <1>9 DEF AddLock, Wrap
<1>10. CASE \E t \in Thread : AddPut(t)
  <2> PICK t \in Thread : AddPut(t)
    BY <1>10
  <2> USE DEF AddPut
  <2>1. count \in 0..QueueSize - 1 /\ count' = count + 1 /\ count' \in 0..QueueSize
    BY PoolAssumption
  <2>2. arg[t] \in Task
    OBVIOUS
  <2>3. tail' \in 0..QueueSize - 1
    BY AfterIsNext, PoolAssumption
  <2>4. tail' = Wrap(head + (count + 1))
    BY <2>1, AfterIsNext, PoolAssumption
  <2>5. ASSUME NEW i \in 0..QueueSize - 1, i < count'
        PROVE  slots'[Wrap(head + i)] \in Task
    <3>1. Wrap(head + i) \in 0..QueueSize - 1
      BY WrapInRange, PoolAssumption
    <3>2. CASE i = count
      BY <2>2, <3>1, <3>2
    <3>3. CASE i < count
      BY <2>1, <3>1, <3>3, WrapDistinct, PoolAssumption
    <3> QED
      BY <2>1, <2>5, <3>2, <3>3
  <2>6. accepted' \in Seq(Task)
    BY <2>2
  <2>7. /\ waiting' \subseteq Worker
        /\ pc' \in [Thread -> Place]
        /\ \A u \in Thread : pc'[u] \in Adding => arg'[u] \in Task
    BY <2>2 DEF Signal
  <2>8. slots' \in [0..QueueSize - 1 -> Task \cup {NoTask}]
    BY <2>2
  <2>9. TypeOK'
    BY <2>1, <2>3, <2>6, <2>7, <2>8
  <2> QED
    BY <2>1, <2>4, <2>5, <2>7, <2>9 DEF Wrap
<1>11. CASE \E t \in Thread : AddRefused(t)
  BY <1>11 DEF AddRefused, Wrap
<1>12. CASE \E t \in Thread : AddUnlock(t)
  BY <1>12 DEF AddUnlock, Wrap
<1>13. CASE DestroyCall \/ DestroyLock
  BY <1>13, PoolAssumption DEF DestroyCall, DestroyLock, Thread, Wrap
<1>14. CASE DestroyStop
  BY <1>14, PoolAssumption DEF DestroyStop, Thread, Wrap
<1>15. CASE DestroyJoin \/ DestroyUnlock
  BY <1>15 DEF DestroyJoin, DestroyUnlock, Wrap
<1>16. CASE DestroyFree
  BY <1>16 DEF DestroyFree, Wrap
<1>17. CASE UNCHANGED vars
  BY <1>17 DEF vars, Wrap
<1> QED
  BY <1>1, <1>2, <1>3, <1>4, <1>5, <1>6, <1>7, <1>8, <1>9, <1>10, <1>11, <1>12,
     <1>13, <1>14, <1>15, <1>16, <1>17
     DEF Next, WorkerStep, AddStep, DestroyStep

LEMMA TypeInvHolds == Spec => []TypeInv
<1> QED
  BY TypeInvInit, TypeInvNext, PTL DEF Spec

(* The types of the pool's variables; the indices stay inside the ring.      *)
THEOREM TypesCorrect == Spec => []TypeOK
<1>1. TypeInv => TypeOK
  BY DEF TypeInv
<1> QED
  BY <1>1, TypeInvHolds, PTL

-----------------------------------------------------------------------------
WorkerPlaces == {"lock", "test", "wait", "run", "exit", "ended"} \cup Adding
ClientPlaces == {"idle"} \cup Adding
OwnerPlaces  == {"d_lock", "d_stop", "d_join", "d_unlock", "d_free", "gone"}

(* Where the threads may be, and that the mutex is held by the one thread in *)
(* a critical section.  The second unlock of threadpool_destroy is harmless  *)
(* because by then every worker has ended and no client is in a call.        *)
LockInv ==
  /\ \A w \in Worker : pc[w] \in WorkerPlaces
  /\ \A c \in Client : pc[c] \in ClientPlaces \/ (c = Owner /\ pc[c] \in OwnerPlaces)
  /\ pc[Owner] \in OwnerPlaces => \A c \in Client : c # Owner => pc[c] = "idle"
  /\ pc[Owner] \in {"d_unlock", "d_free", "gone"} => \A w \in Worker : pc[w] = "ended"
  /\ waiting = {w \in Worker : pc[w] = "wait"}
  /\ MutexHeld

LEMMA LockInvInit == Init => LockInv
<1> SUFFICES ASSUME Init PROVE LockInv
  OBVIOUS
<1>1. Owner \in Thread /\ Owner \notin Worker /\ NoThread \notin Thread
  BY PoolAssumption DEF Thread
<1>2. /\ \A w \in Worker : pc[w] = "lock"
      /\ \A c \in Client : pc[c] = "idle"
      /\ \A t \in Thread : pc[t] \in {"lock", "idle"}
  BY PoolAssumption DEF Init, Thread
<1>3. MutexHeld
  BY <1>1, <1>2 DEF Init, MutexHeld, Critical
<1> QED
  BY <1>1, <1>2, <1>3, PoolAssumption DEF Init, LockInv, WorkerPlaces, ClientPlaces, OwnerPlaces

LEMMA LockInvNext == TypeInv /\ LockInv /\ [Next]_vars => LockInv'
<1> SUFFICES ASSUME TypeInv, LockInv, [Next]_vars PROVE LockInv'
  OBVIOUS
<1>a. /\ pc \in [Thread -> Place]
      /\ waiting \subseteq Worker
  BY DEF TypeInv, TypeOK
<1>b. /\ Owner \in Thread /\ Owner \in Client /\ Owner \notin Worker
      /\ NoThread \notin Thread
      /\ \A w \in Worker : w \in Thread /\ w \notin Client
      /\ \A c \in Client : c \in Thread /\ c \notin Worker
      /\ \A t \in Thread : t \in Worker \/ t \in Client
  BY PoolAssumption DEF Thread
<1> USE <1>a, <1>b DEF LockInv, MutexHeld, Critical, WorkerPlaces, ClientPlaces,
        OwnerPlaces, Adding, Go, Acquire, Release
<1>1. CASE \E w \in Worker : WorkerLock(w)
  BY <1>1 DEF WorkerLock
<1>2. CASE \E w \in Worker : WorkerWait(w)
  BY <1>2 DEF WorkerWait
<1>3. CASE \E w \in Worker : SpuriousWakeup(w)
  BY <1>3 DEF SpuriousWakeup
<1>4. CASE \E w \in Worker : WorkerTake(w)
  BY <1>4 DEF WorkerTake
<1>5. CASE \E w \in Worker : WorkerRun(w)
  BY <1>5 DEF WorkerRun
<1>6. CASE \E w \in Worker : WorkerStop(w)
  BY <1>6 DEF WorkerStop
<1>7. CASE \E w \in Worker : WorkerExit(w)
  BY <1>7 DEF WorkerExit
<1>8. CASE \E t \in Thread, j \in Task : AddCall(t, j)
  BY <1>8 DEF AddCall, Destroying
<1>9. CASE \E t \in Thread : AddLock(t)
  BY <1>9 DEF AddLock
<1>10. CASE \E t \in Thread : AddPut(t)
  BY <1>10 DEF AddPut, Signal
<1>11. CASE \E t \in Thread : AddRefused(t)
  BY <1>11 DEF AddRefused
<1>12. CASE \E t \in Thread : AddUnlock(t)
  BY <1>12 DEF AddUnlock
<1>13. CASE DestroyCall
  BY <1>13 DEF DestroyCall
<1>14. CASE DestroyLock
  BY <1>14 DEF DestroyLock
<1>15. CASE DestroyStop
  BY <1>15 DEF DestroyStop
<1>16. CASE DestroyJoin
  BY <1>16 DEF DestroyJoin
<1>17. CASE DestroyUnlock
  BY <1>17 DEF DestroyUnlock
<1>18. CASE DestroyFree
  BY <1>18 DEF DestroyFree
<1>19. CASE UNCHANGED vars
  BY <1>19 DEF vars
<1> QED
  BY <1>1, <1>2, <1>3, <1>4, <1>5, <1>6, <1>7, <1>8, <1>9, <1>10, <1>11, <1>12,
     <1>13, <1>14, <1>15, <1>16, <1>17, <1>18, <1>19
     DEF Next, WorkerStep, AddStep, DestroyStep

LEMMA LockInvHolds == Spec => []LockInv
<1> QED
  BY TypeInvHolds, LockInvInit, LockInvNext, PTL DEF Spec

(* The thread in a critical section holds the mutex, and no other.           *)
THEOREM MutualExclusion == Spec => []MutexHeld
<1>1. LockInv => MutexHeld
  BY DEF LockInv
<1> QED
  BY <1>1, LockInvHolds, PTL

(* The second unlock of threadpool_destroy takes the mutex from nobody.      *)
THEOREM SecondUnlockHarmless == Spec => []UnlocksNobody
<1>1. TypeInv /\ LockInv => UnlocksNobody
  <2> SUFFICES ASSUME TypeInv, LockInv, pc[Owner] = "d_unlock" PROVE lock = NoThread
    BY DEF UnlocksNobody
  <2>1. \A t \in Thread : pc[t] \notin Critical
    BY PoolAssumption DEF LockInv, Critical, Thread, OwnerPlaces
  <2> QED
    BY <2>1 DEF LockInv, MutexHeld, TypeInv, TypeOK
<1> QED
  BY <1>1, TypeInvHolds, LockInvHolds, PTL

-----------------------------------------------------------------------------
Live == {w \in Worker : pc[w] # "ended"}

(* What threadpool_free looks at: `started' is the number of workers that    *)
(* have not ended, and the pool is gone when it has been freed.              *)
CountInv ==
  /\ started = Cardinality(Live)
  /\ freed <=> pc[Owner] = "gone"

LEMMA CountInvInit == Init => CountInv
<1> SUFFICES ASSUME Init PROVE CountInv
  OBVIOUS
<1>1. Live = Worker
  BY DEF Init, Live, Thread
<1>2. pc[Owner] = "idle"
  BY PoolAssumption DEF Init, Thread
<1> QED
  BY <1>1, <1>2 DEF Init, CountInv

LEMMA CountInvNext == TypeInv /\ LockInv /\ CountInv /\ [Next]_vars => CountInv'
<1> SUFFICES ASSUME TypeInv, LockInv, CountInv, [Next]_vars PROVE CountInv'
  OBVIOUS
<1>a. pc \in [Thread -> Place]
  BY DEF TypeInv, TypeOK
<1>b. /\ Owner \in Thread /\ Owner \notin Worker /\ Worker \subseteq Thread
  BY PoolAssumption DEF Thread
<1>c. \A w \in waiting : w \in Worker /\ pc[w] = "wait"
  BY DEF LockInv
<1>1. CASE \E w \in Worker : WorkerExit(w)
  <2> PICK w \in Worker : WorkerExit(w)
    BY <1>1
  <2>1. Live' = Live \ {w} /\ w \in Live
    BY <1>a, <1>b DEF WorkerExit, Go, Live
  <2>2. IsFiniteSet(Live)
    BY PoolAssumption, FS_Subset DEF Live
  <2>3. Cardinality(Live') = Cardinality(Live) - 1
    BY <2>1, <2>2, FS_RemoveElement
  <2>4. freed' = freed /\ pc'[Owner] = pc[Owner] /\ started' = started - 1
    BY <1>a, <1>b DEF WorkerExit, Go
  <2> QED
    BY <2>3, <2>4 DEF CountInv
<1>2. CASE DestroyFree
  <2>1. Live = {} /\ Live' = {}
    BY <1>2, <1>a, <1>b DEF DestroyFree, Go, LockInv, Live
  <2>2. started = 0 /\ started' = 0 /\ freed' = TRUE /\ pc'[Owner] = "gone"
    BY <1>2, <1>a, <1>b, <2>1, FS_EmptySet DEF CountInv, DestroyFree, Go
  <2> QED
    BY <2>1, <2>2, FS_EmptySet DEF CountInv
<1>3. CASE ~(\E w \in Worker : WorkerExit(w)) /\ ~DestroyFree
  <2>1. started' = started /\ freed' = freed
    BY <1>3 DEF Next, vars, WorkerStep, AddStep, DestroyStep, WorkerLock, WorkerWait,
       SpuriousWakeup, WorkerTake, WorkerRun, WorkerStop, AddCall, AddLock, AddPut,
       AddRefused, AddUnlock, DestroyCall, DestroyLock, DestroyStop, DestroyJoin,
       DestroyUnlock
  <2>2. \A w \in Worker : pc'[w] = "ended" <=> pc[w] = "ended"
    BY <1>3, <1>a, <1>b, <1>c
       DEF Next, vars, WorkerStep, AddStep, DestroyStep, WorkerLock, WorkerWait,
       SpuriousWakeup, WorkerTake, WorkerRun, WorkerStop, AddCall, AddLock, AddPut,
       AddRefused, AddUnlock, DestroyCall, DestroyLock, DestroyStop, DestroyJoin,
       DestroyUnlock, Signal, Go, Thread
  <2>3. pc'[Owner] = "gone" <=> pc[Owner] = "gone"
    BY <1>3, <1>a, <1>b, <1>c
       DEF Next, vars, WorkerStep, AddStep, DestroyStep, WorkerLock, WorkerWait,
       SpuriousWakeup, WorkerTake, WorkerRun, WorkerStop, AddCall, AddLock, AddPut,
       AddRefused, AddUnlock, DestroyCall, DestroyLock, DestroyStop, DestroyJoin,
       DestroyUnlock, Signal, Go, Thread
  <2>4. Live' = Live
    BY <2>2 DEF Live
  <2> QED
    BY <2>1, <2>3, <2>4 DEF CountInv
<1> QED
  BY <1>1, <1>2, <1>3

LEMMA CountInvHolds == Spec => []CountInv
<1> QED
  BY TypeInvHolds, LockInvHolds, CountInvInit, CountInvNext, PTL DEF Spec

(* threadpool_destroy frees the pool in the end, and only when no worker is  *)
(* left and nobody holds the mutex.                                          *)
THEOREM PoolFreedLast == Spec => []FreedLast
<1>1. TypeInv /\ LockInv /\ CountInv => FreedLast
  <2> SUFFICES ASSUME TypeInv, LockInv, CountInv PROVE FreedLast
    OBVIOUS
  <2>1. ASSUME freed PROVE lock = NoThread /\ \A w \in Worker : pc[w] = "ended"
    <3>1. pc[Owner] = "gone"
      BY <2>1 DEF CountInv
    <3>2. \A t \in Thread : pc[t] \notin Critical
      BY <3>1, PoolAssumption DEF LockInv, Critical, Thread, OwnerPlaces
    <3> QED
      BY <3>1, <3>2 DEF LockInv, MutexHeld, TypeInv, TypeOK
  <2> QED
    BY <2>1 DEF FreedLast, CountInv
<1> QED
  BY <1>1, TypeInvHolds, LockInvHolds, CountInvHolds, PTL

-----------------------------------------------------------------------------
(* The occupied slots, from the head on, form a sequence of tasks.           *)
LEMMA RingIsSeq ==
  ASSUME NEW h \in 0..QueueSize - 1, NEW n \in 0..QueueSize, NEW s,
         \A i \in 0..QueueSize - 1 : i < n => s[Wrap(h + i)] \in Task
  PROVE  LET q == [i \in 1..n |-> s[Wrap(h + i - 1)]]
         IN  q \in Seq(Task) /\ Len(q) = n
<1>1. n \in Nat
  BY PoolAssumption
<1>2. \A i \in 1..n : s[Wrap(h + i - 1)] \in Task
  <2> TAKE i \in 1..n
  <2>1. i - 1 \in 0..QueueSize - 1 /\ i - 1 < n /\ h + i - 1 = h + (i - 1)
    BY PoolAssumption
  <2> QED
    BY <2>1
<1> QED
  BY <1>1, <1>2

LEMMA QueuedIsSeq ==
  ASSUME TypeInv
  PROVE  Queued \in Seq(Task) /\ Len(Queued) = count
BY RingIsSeq DEF TypeInv, TypeOK, Queued

LEMMA QueuedStaysSeq ==
  ASSUME TypeInv'
  PROVE  Queued' \in Seq(Task) /\ Len(Queued') = count'
<1>1. /\ head' \in 0..QueueSize - 1 /\ count' \in 0..QueueSize
      /\ \A i \in 0..QueueSize - 1 : i < count' => slots'[Wrap(head' + i)] \in Task
  BY DEF TypeInv, TypeOK, Wrap
<1>2. Queued' = [i \in 1..count' |-> slots'[Wrap(head' + i - 1)]]
  BY DEF Queued, Wrap
<1> QED
  BY <1>1, <1>2, RingIsSeq

(* A worker takes the oldest task out of the ring.                           *)
LEMMA TakeIsTail ==
  ASSUME TypeInv, TypeInv', NEW w \in Worker, WorkerTake(w)
  PROVE  /\ Queued # <<>>
         /\ handed' = Append(handed, Head(Queued))
         /\ Queued' = Tail(Queued)
<1>1. /\ count \in 1..QueueSize /\ count' = count - 1 /\ slots' = slots
      /\ head \in 0..QueueSize - 1 /\ head' = After(head)
  BY PoolAssumption DEF TypeInv, TypeOK, WorkerTake, ring
<1>2. /\ Queued \in Seq(Task) /\ Len(Queued) = count
      /\ Queued' \in Seq(Task) /\ Len(Queued') = count'
  BY QueuedIsSeq, QueuedStaysSeq
<1>3. Queued # <<>> /\ Head(Queued) = slots[head]
  <2>1. Queued[1] = slots[Wrap(head + 1 - 1)]
    BY <1>1 DEF Queued
  <2>2. Wrap(head + 1 - 1) = head
    BY <1>1, PoolAssumption DEF Wrap
  <2> QED
    BY <1>1, <1>2, <2>1, <2>2
<1>4. ASSUME NEW i \in 1..count'
      PROVE  Queued'[i] = Tail(Queued)[i]
  <2>1. i + 1 \in 1..count /\ i - 1 \in 0..QueueSize - 1
    BY <1>1, PoolAssumption
  <2>2. Queued'[i] = slots[Wrap(After(head) + i - 1)]
    BY <1>1 DEF Queued, Wrap
  <2>3. Wrap(After(head) + (i - 1)) = Wrap(head + ((i - 1) + 1))
    BY <1>1, <2>1, AfterIsNext
  <2>4. /\ After(head) + i - 1 = After(head) + (i - 1)
        /\ head + (i + 1) - 1 = head + ((i - 1) + 1)
    BY <1>1, <2>1, PoolAssumption DEF After
  <2>5. Queued[i + 1] = slots[Wrap(head + (i + 1) - 1)]
    BY <2>1 DEF Queued
  <2>6. Tail(Queued)[i] = Queued[i + 1]
    BY <1>1, <1>2, <1>3, HeadTailProperties
  <2> QED
    BY <2>2, <2>3, <2>4, <2>5, <2>6
<1>5. Queued' = Tail(Queued)
  <2>1. Tail(Queued) \in Seq(Task) /\ Len(Tail(Queued)) = count'
    BY <1>1, <1>2, <1>3, HeadTailProperties
  <2> QED
    BY <1>2, <1>4, <2>1, SeqEqual
<1> QED
  BY <1>3, <1>5 DEF WorkerTake

(* A thread puts its task behind all others.                                 *)
LEMMA PutIsAppend ==
  ASSUME TypeInv, TypeInv', NEW t \in Thread, AddPut(t)
  PROVE  /\ arg[t] \in Task
         /\ count < QueueSize
         /\ Queued' = Append(Queued, arg[t])
<1>1. /\ count \in 0..QueueSize - 1 /\ count' = count + 1 /\ head' = head
      /\ head \in 0..QueueSize - 1 /\ tail = Wrap(head + count)
      /\ slots \in [0..QueueSize - 1 -> Task \cup {NoTask}]
      /\ slots' = [slots EXCEPT ![tail] = arg[t]]
  BY PoolAssumption DEF TypeInv, TypeOK, AddPut
<1>2. arg[t] \in Task
  BY DEF TypeInv, AddPut, Adding
<1>3. /\ Queued \in Seq(Task) /\ Len(Queued) = count
      /\ Queued' \in Seq(Task) /\ Len(Queued') = count'
  BY QueuedIsSeq, QueuedStaysSeq
<1>4. ASSUME NEW i \in 1..count'
      PROVE  Queued'[i] = Append(Queued, arg[t])[i]
  <2>1. Queued'[i] = slots'[Wrap(head + i - 1)]
    BY <1>1 DEF Queued, Wrap
  <2>2. i - 1 \in 0..QueueSize - 1 /\ head + i - 1 = head + (i - 1)
    BY <1>1, PoolAssumption
  <2>3. Wrap(head + (i - 1)) \in 0..QueueSize - 1
    BY <1>1, <2>2, PoolAssumption DEF Wrap
  <2>4. CASE i = count'
    <3>1. slots'[Wrap(head + (i - 1))] = arg[t]
      BY <1>1, <2>3, <2>4
    <3>2. Append(Queued, arg[t])[i] = arg[t]
      BY <1>1, <1>2, <1>3, <2>4, AppendProperties
    <3> QED
      BY <2>1, <2>2, <3>1, <3>2
  <2>5. CASE i \in 1..count
    <3>1. Wrap(head + (i - 1)) # Wrap(head + count)
      BY <1>1, <2>2, <2>5, WrapDistinct
    <3>2. slots'[Wrap(head + (i - 1))] = slots[Wrap(head + (i - 1))]
      BY <1>1, <2>3, <3>1
    <3>3. Append(Queued, arg[t])[i] = Queued[i]
      BY <1>2, <1>3, <2>5, AppendProperties
    <3>4. Queued[i] = slots[Wrap(head + i - 1)]
      BY <2>5 DEF Queued
    <3> QED
      BY <2>1, <2>2, <3>2, <3>3, <3>4
  <2>6. i = count' \/ i \in 1..count
    <3>1. count \in Nat /\ count' = count + 1
      BY <1>1, PoolAssumption
    <3> QED
      BY <3>1
  <2> QED
    BY <2>4, <2>5, <2>6
<1>5. Append(Queued, arg[t]) \in Seq(Task) /\ Len(Append(Queued, arg[t])) = count'
  BY <1>1, <1>2, <1>3, AppendProperties
<1>6. Queued' = Append(Queued, arg[t])
  BY <1>3, <1>4, <1>5, SeqEqual
<1> QED
  BY <1>1, <1>2, <1>6, PoolAssumption

LEMMA FifoOnceInit == Init => FifoOnce
<1> SUFFICES ASSUME Init PROVE FifoOnce
  OBVIOUS
<1>1. Queued \in Seq(Task) /\ Len(Queued) = 0
  BY TypeInvInit, QueuedIsSeq DEF Init
<1> QED
  BY <1>1 DEF Init, FifoOnce

LEMMA FifoOnceNext ==
  TypeInv /\ TypeInv' /\ FifoOnce /\ [Next]_vars => FifoOnce'
<1> SUFFICES ASSUME TypeInv, TypeInv', FifoOnce, [Next]_vars PROVE FifoOnce'
  OBVIOUS
<1>1. handed \in Seq(Task) /\ accepted \in Seq(Task) /\ Queued \in Seq(Task)
  BY QueuedIsSeq DEF TypeInv, TypeOK
<1>2. CASE UNCHANGED <<ring, hist, shutdown>>
  BY <1>2 DEF FifoOnce, Queued, Wrap, ring, hist
<1>3. CASE \E w \in Worker : WorkerTake(w)
  <2> PICK w \in Worker : WorkerTake(w)
    BY <1>3
  <2>1. /\ Queued # <<>> /\ Queued' = Tail(Queued) /\ accepted' = accepted
        /\ handed' = Append(handed, Head(Queued))
    BY TakeIsTail DEF WorkerTake
  <2>2. handed \o Queued = Append(handed, Head(Queued)) \o Tail(Queued)
    BY <1>1, <2>1
  <2> QED
    BY <2>1, <2>2 DEF FifoOnce
<1>4. CASE \E t \in Thread : AddPut(t)
  <2> PICK t \in Thread : AddPut(t)
    BY <1>4
  <2>1. /\ arg[t] \in Task /\ Queued' = Append(Queued, arg[t])
        /\ accepted' = Append(accepted, arg[t]) /\ handed' = handed
    BY PutIsAppend DEF AddPut
  <2>2. Append(handed \o Queued, arg[t]) = handed \o Append(Queued, arg[t])
    <3>1. Append(handed \o Queued, arg[t]) = (handed \o Queued) \o <<arg[t]>>
      BY <1>1, <2>1, ConcatProperties, AppendIsConcat
    <3>2. Append(Queued, arg[t]) = Queued \o <<arg[t]>>
      BY <1>1, <2>1, AppendIsConcat
    <3>3. <<arg[t]>> \in Seq(Task)
      BY <2>1
    <3> QED
      BY <1>1, <3>1, <3>2, <3>3, ConcatAssociative
  <2> QED
    BY <2>1, <2>2 DEF FifoOnce
<1>5. CASE DestroyStop
  BY <1>5 DEF DestroyStop, FifoOnce, Queued, Wrap, ring, hist
<1> QED
  BY <1>2, <1>3, <1>4, <1>5, TaskSteps

(* Every accepted task is handed to one worker in the order of acceptance or *)
(* is still in the ring, for every size of the ring.                         *)
THEOREM TasksInOrderOnce == Spec => []FifoOnce
<1> QED
  BY TypeInvHolds, FifoOnceInit, FifoOnceNext, PTL DEF Spec

-----------------------------------------------------------------------------
(* The pool implements the bounded queue of TaskQueue: it starts as one, and *)
(* every step is a step of the queue or leaves it as it is.                  *)
LEMMA StartsAsQueue == Init => Promise!Init
<1> SUFFICES ASSUME Init PROVE Promise!Init
  OBVIOUS
<1>1. Queued \in Seq(Task) /\ Len(Queued) = 0
  BY TypeInvInit, QueuedIsSeq DEF Init
<1> QED
  BY <1>1 DEF Init, Promise!Init

LEMMA StepsAsQueue ==
  TypeInv /\ TypeInv' /\ [Next]_vars => [Promise!Next]_(Promise!vars)
<1> SUFFICES ASSUME TypeInv, TypeInv', [Next]_vars
             PROVE  Promise!Next \/ UNCHANGED Promise!vars
  OBVIOUS
<1>1. CASE UNCHANGED <<ring, hist, shutdown>>
  BY <1>1 DEF Promise!vars, Queued, Wrap, ring, hist
<1>2. CASE \E w \in Worker : WorkerTake(w)
  <2> PICK w \in Worker : WorkerTake(w)
    BY <1>2
  <2>1. ~shutdown /\ shutdown' = shutdown
    BY DEF WorkerTake
  <2>2. Promise!Take
    BY <2>1, TakeIsTail DEF Promise!Take
  <2> QED
    BY <2>2 DEF Promise!Next
<1>3. CASE \E t \in Thread : AddPut(t)
  <2> PICK t \in Thread : AddPut(t)
    BY <1>3
  <2>1. Len(Queued) = count
    BY QueuedIsSeq
  <2>2. Promise!Put(arg[t])
    BY <2>1, PutIsAppend DEF Promise!Put, AddPut
  <2> QED
    BY <2>2, PutIsAppend DEF Promise!Next
<1>4. CASE DestroyStop
  <2>1. Queued' = Queued /\ handed' = handed /\ shutdown' = TRUE /\ shutdown \in BOOLEAN
    BY <1>4 DEF DestroyStop, Queued, Wrap, ring, hist, TypeInv, TypeOK
  <2> QED
    BY <2>1 DEF Promise!Next, Promise!Shut, Promise!vars
<1> QED
  BY <1>1, <1>2, <1>3, <1>4, TaskSteps

THEOREM PoolIsTaskQueue == Spec => Implements
<1> QED
  BY TypeInvHolds, StartsAsQueue, StepsAsQueue, PTL DEF Spec, Implements, Promise!Spec

-----------------------------------------------------------------------------
(* A worker that joins those awake makes room for one more task, one that    *)
(* leaves them takes one along.                                              *)
LEMMA AwakeFinite == IsFiniteSet(Awake) /\ Cardinality(Awake) \in Nat
<1>1. IsFiniteSet(Awake)
  BY PoolAssumption, FS_Subset DEF Awake
<1> QED
  BY <1>1, FS_CardinalityType

LEMMA NoLostWakeupNext ==
  TypeInv /\ LockInv /\ LockInv' /\ NoLostWakeup /\ [Next]_vars => NoLostWakeup'
<1> SUFFICES ASSUME TypeInv, LockInv, LockInv', NoLostWakeup, [Next]_vars,
                    waiting' # {}, ~shutdown'
             PROVE  count' <= Cardinality(Awake')
  BY DEF NoLostWakeup, Awake
<1>a. pc \in [Thread -> Place] /\ count \in 0..QueueSize /\ count \in Nat
  BY PoolAssumption DEF TypeInv, TypeOK
<1>b. Owner \in Thread /\ Owner \notin Worker /\ Worker \subseteq Thread
  BY PoolAssumption DEF Thread
<1>c. \A w \in waiting : w \in Worker /\ pc[w] = "wait"
  BY DEF LockInv
<1>d. IsFiniteSet(Awake) /\ Cardinality(Awake) \in Nat
  BY AwakeFinite
<1>e. Cardinality(Awake') \in Nat
  <2>1. IsFiniteSet(Awake')
    BY PoolAssumption, FS_Subset DEF Awake
  <2> QED
    BY <2>1, FS_CardinalityType
<1>1. CASE \E w \in Worker : WorkerWait(w)
  <2>1. count' = 0
    BY <1>1 DEF WorkerWait, ring
  <2> QED
    BY <1>e, <2>1
<1>2. CASE \E w \in Worker : SpuriousWakeup(w) \/ WorkerRun(w)
  <2> PICK w \in Worker : SpuriousWakeup(w) \/ WorkerRun(w)
    BY <1>2
  <2>1. Awake' = Awake \cup {w} /\ w \notin Awake
    BY <1>a, <1>b DEF SpuriousWakeup, WorkerRun, Go, Awake
  <2>2. waiting # {} /\ ~shutdown /\ count' = count
    BY DEF SpuriousWakeup, WorkerRun, ring
  <2>3. Cardinality(Awake') = Cardinality(Awake) + 1
    BY <1>d, <2>1, FS_AddElement
  <2> QED
    BY <1>a, <1>d, <2>2, <2>3 DEF NoLostWakeup
<1>3. CASE \E w \in Worker : WorkerTake(w)
  <2> PICK w \in Worker : WorkerTake(w)
    BY <1>3
  <2>1. Awake' = Awake \ {w} /\ w \in Awake
    BY <1>a, <1>b DEF WorkerTake, Go, Awake
  <2>2. waiting # {} /\ ~shutdown /\ count' = count - 1
    BY DEF WorkerTake
  <2>3. Cardinality(Awake') = Cardinality(Awake) - 1
    BY <1>d, <2>1, FS_RemoveElement
  <2> QED
    BY <1>a, <1>d, <2>2, <2>3 DEF NoLostWakeup
<1>4. CASE \E t \in Thread : AddPut(t)
  <2> PICK t \in Thread : AddPut(t)
    BY <1>4
  <2>1. PICK w \in waiting : pc' = [[pc EXCEPT ![t] = "a_unlock"] EXCEPT ![w] = "lock"]
    BY DEF AddPut, Signal
  <2>2. Awake' = Awake \cup {w} /\ w \notin Awake
    BY <1>a, <1>b, <1>c, <2>1 DEF AddPut, Awake
  <2>3. waiting # {} /\ ~shutdown /\ count' = count + 1
    BY <2>1 DEF AddPut
  <2>4. Cardinality(Awake') = Cardinality(Awake) + 1
    BY <1>d, <2>2, FS_AddElement
  <2> QED
    BY <1>a, <1>d, <2>3, <2>4 DEF NoLostWakeup
<1>5. CASE \E w \in Worker : WorkerLock(w) \/ WorkerStop(w) \/ WorkerExit(w)
  <2> PICK w \in Worker : WorkerLock(w) \/ WorkerStop(w) \/ WorkerExit(w)
    BY <1>5
  <2>1. waiting # {} /\ ~shutdown /\ count' = count
    BY DEF WorkerLock, WorkerStop, WorkerExit, ring
  <2>2. CASE WorkerLock(w)
    BY <1>a, <1>b, <2>1, <2>2 DEF WorkerLock, Go, Awake, NoLostWakeup
  <2>3. CASE WorkerExit(w)
    <3>1. Awake' = Awake
      BY <1>a, <1>b, <2>3 DEF WorkerExit, Go, Awake
    <3> QED
      BY <2>1, <3>1 DEF NoLostWakeup
  <2> QED
    BY <2>1, <2>2, <2>3 DEF WorkerStop
<1>6. CASE \E t \in Thread : AddLock(t) \/ AddRefused(t) \/ AddUnlock(t)
                                      \/ \E j \in Task : AddCall(t, j)
  <2>1. waiting # {} /\ ~shutdown /\ count' = count
    BY <1>6 DEF AddLock, AddRefused, AddUnlock, AddCall, ring
  <2>2. Awake' = Awake
    BY <1>6, <1>a, <1>b DEF AddLock, AddRefused, AddUnlock, AddCall, Go, Awake
  <2> QED
    BY <2>1, <2>2 DEF NoLostWakeup
<1>7. CASE DestroyCall \/ DestroyLock \/ DestroyJoin \/ DestroyUnlock \/ DestroyFree
  <2>1. waiting # {} /\ ~shutdown /\ count' = count
    BY <1>7 DEF DestroyCall, DestroyLock, DestroyJoin, DestroyUnlock, DestroyFree, ring
  <2>2. Awake' = Awake
    BY <1>7, <1>a, <1>b
       DEF DestroyCall, DestroyLock, DestroyJoin, DestroyUnlock, DestroyFree, Go, Awake
  <2> QED
    BY <2>1, <2>2 DEF NoLostWakeup
<1>8. CASE DestroyStop
  BY <1>8 DEF DestroyStop
<1>9. CASE UNCHANGED vars
  BY <1>9 DEF vars, ring, NoLostWakeup, Awake
<1> QED
  BY <1>1, <1>2, <1>3, <1>4, <1>5, <1>6, <1>7, <1>8, <1>9
     DEF Next, WorkerStep, AddStep, DestroyStep

(* While a worker sleeps, every task in the ring has a worker on the way to  *)
(* it, for any number of workers, clients and tasks.                         *)
THEOREM SignalsSuffice == Spec => []NoLostWakeup
<1>1. Init => NoLostWakeup
  BY DEF Init, NoLostWakeup
<1> QED
  BY <1>1, TypeInvHolds, LockInvHolds, NoLostWakeupNext, PTL DEF Spec
=============================================================================
