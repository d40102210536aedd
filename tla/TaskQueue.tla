----------------------------- MODULE TaskQueue -----------------------------
(***************************************************************************)
(* What the thread pool promises its clients: a bounded first-in first-out *)
(* queue of tasks that hands each task out once, until it is closed.  A    *)
(* closed queue takes nothing in and hands nothing out: what it still      *)
(* holds is lost.                                                          *)
(***************************************************************************)
EXTENDS Naturals, Sequences

CONSTANTS Task, QueueSize

VARIABLES
  queue,   \* tasks waiting, oldest first
  handed,  \* tasks handed out, oldest first
  open

vars == <<queue, handed, open>>

Init == queue = <<>> /\ handed = <<>> /\ open = TRUE

Put(t) ==
  /\ open /\ Len(queue) < QueueSize
  /\ queue' = Append(queue, t)
  /\ UNCHANGED <<handed, open>>

Take ==
  /\ open /\ queue # <<>>
  /\ handed' = Append(handed, Head(queue))
  /\ queue' = Tail(queue)
  /\ UNCHANGED open

Shut == open /\ open' = FALSE /\ UNCHANGED <<queue, handed>>

Next == (\E t \in Task : Put(t)) \/ Take \/ Shut

Spec == Init /\ [][Next]_vars
=============================================================================
