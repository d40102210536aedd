------------------------------- MODULE RunOnce -------------------------------
(***************************************************************************)
(* The single instance lock of core/3rd/os/pid.c: programs that call       *)
(* runOnce on the same PID file, the exit handler it installs, and the     *)
(* signal with which a newcomer ends its elder.                            *)
(*                                                                         *)
(* A process is named by its process id, so a process that starts under    *)
(* the id of a dead one is the id being reused.  Opening the file for      *)
(* reading and scanning it are one step: what may happen to the file in    *)
(* between is a later step of that kind, or shows an empty file, which     *)
(* reads as any id anyway.                                                 *)
(***************************************************************************)
EXTENDS TLC

CONSTANTS Proc,      \* process ids
          NoFile,    \* there is no PID file
          Nobody     \* the file is empty, or an id no process has

ASSUME RunOnceAssumption == NoFile \notin Proc /\ Nobody \notin Proc \cup {NoFile}

VARIABLES
  pc,       \* where each process is
  killWho,  \* the policy it called runOnce with
  file,     \* the id in the PID file
  linked,   \* processes writing to the file that the path still names
  pid,      \* the id each process has read
  marked,   \* processes with __pid_file set and the exit handler installed
  term,     \* processes with a SIGTERM pending
  past      \* history: which disturbances have happened

vars == <<pc, killWho, file, linked, pid, marked, term, past>>

InRunOnce == {"look", "create", "check", "kill", "take", "write"}
InQuit    == {"quit", "remove"}
Busy      == {p \in Proc : pc[p] \in InRunOnce \cup InQuit}
Instances == {p \in Proc : pc[p] = "run"}

TypeOK ==
  /\ pc \in [Proc -> InRunOnce \cup InQuit
                     \cup {"off", "run", "refused", "stranger"}]
  /\ killWho \in [Proc -> {"KILL_ME", "KILL_ELDERSHIP"}]
  /\ file \in Proc \cup {NoFile, Nobody}
  /\ linked \subseteq {p \in Proc : pc[p] = "write"}
  /\ pid \in [Proc -> Proc \cup {Nobody}]
  /\ marked \subseteq Proc
  /\ term \subseteq {p \in Proc : pc[p] # "off"}
  /\ past \subseteq {"overlap", "crash", "stolen", "again"}

Init ==
  /\ pc = [p \in Proc |-> "off"]
  /\ killWho = [p \in Proc |-> "KILL_ME"]
  /\ file = NoFile
  /\ pid = [p \in Proc |-> Nobody]
  /\ linked = {} /\ marked = {} /\ term = {} /\ past = {}

-----------------------------------------------------------------------------
IsProgressRuning(p) == p \in Proc /\ pc[p] # "off"

Goto(p, to) == pc' = [pc EXCEPT ![p] = to]

\* p enters the lock code: an overlap if another process is in it.
Enter(p, to) ==
  /\ Goto(p, to)
  /\ past' = past \cup (IF Busy = {} THEN {} ELSE {"overlap"})

\* The locals of the call are gone.
Forget(p) ==
  /\ pid' = [pid EXCEPT ![p] = Nobody]
  /\ killWho' = [killWho EXCEPT ![p] = "KILL_ME"]

\* A program starts and calls runOnce, perhaps under an id used before.
Start(p, policy) ==
  /\ pc[p] = "off"
  /\ Enter(p, "look")
  /\ killWho' = [killWho EXCEPT ![p] = policy]
  /\ UNCHANGED <<file, linked, pid, marked, term>>

\* The program that holds the lock calls runOnce once more.
CallAgain(p, policy) ==
  /\ pc[p] = "run"
  /\ Goto(p, "look")
  /\ past' = past \cup {"again"}
               \cup (IF Busy = {} THEN {} ELSE {"overlap"})
  /\ killWho' = [killWho EXCEPT ![p] = policy]
  /\ UNCHANGED <<file, linked, pid, marked, term>>

\* The id goes to a program that knows nothing of the PID file.
Stranger(p) ==
  /\ pc[p] = "off"
  /\ Goto(p, "stranger")
  /\ UNCHANGED <<killWho, file, linked, pid, marked, term, past>>

NoPidFile(p) ==
  /\ pc[p] = "look" /\ file = NoFile
  /\ Goto(p, "create")
  /\ UNCHANGED <<killWho, file, linked, pid, marked, term, past>>

\* fscanf in an empty file leaves the local as it was: any id at all.
Read(p) ==
  /\ file # NoFile
  /\ \E id \in IF file = Nobody THEN Proc \cup {Nobody} ELSE {file} :
       pid' = [pid EXCEPT ![p] = id]

ReadElder(p) ==
  /\ pc[p] = "look"
  /\ Read(p)
  /\ Goto(p, IF killWho[p] = "KILL_ME" THEN "check" ELSE "kill")
  /\ UNCHANGED <<killWho, file, linked, marked, term, past>>

\* Mutant: /proc is not asked.
CheckOwnOnly(p) ==
  /\ pc[p] = "check"
  /\ Goto(p, IF pid[p] # p THEN "take" ELSE "refused")
  /\ UNCHANGED <<killWho, file, linked, pid, marked, term, past>>
\* RUNONCE_KILL_ME: the file is taken over unless another process runs.
Check(p) ==
  /\ pc[p] = "check"
  /\ Goto(p, IF ~IsProgressRuning(pid[p]) \/ pid[p] = p
               THEN "take" ELSE "refused")
  /\ UNCHANGED <<killWho, file, linked, pid, marked, term, past>>

\* RUNONCE_KILL_ELDERSHIP: the process read is sent SIGTERM, whoever it is.
Kill(p) ==
  /\ pc[p] = "kill"
  /\ term' = term \cup {q \in Proc : q = pid[p] /\ pc[q] # "off"}
  /\ Goto(p, "take")
  /\ UNCHANGED <<killWho, file, linked, pid, marked, past>>

\* fopen(.., "w") makes the file or empties it.
OpenWrite(p) ==
  /\ pc[p] \in {"create", "take"}
  /\ file' = Nobody
  /\ linked' = linked \cup {p}
  /\ Goto(p, "write")
  /\ UNCHANGED <<killWho, pid, marked, term, past>>

\* Mutant: the stream is not closed, the id stays in its buffer.
RegisterUnclosed(p) ==
  /\ pc[p] = "write"
  /\ marked' = marked \cup {p}
  /\ Goto(p, "run")
  /\ Forget(p)
  /\ UNCHANGED <<file, linked, term, past>>
\* The id reaches the file with fclose, unless the file lost its name since.
\* runOnce returns 0.
Register(p) ==
  /\ pc[p] = "write"
  /\ file' = IF p \in linked THEN p ELSE file
  /\ linked' = linked \ {p}
  /\ marked' = marked \cup {p}
  /\ Goto(p, "run")
  /\ Forget(p)
  /\ UNCHANGED <<term, past>>

-----------------------------------------------------------------------------
\* The process is no more.
Gone(p) ==
  /\ Goto(p, "off")
  /\ Forget(p)
  /\ marked' = marked \ {p}
  /\ term' = term \ {p}

\* A program ends; its exit handler runs if it was installed.
Exit(p) ==
  /\ pc[p] \in {"run", "refused"} /\ p \in marked
  /\ Enter(p, "quit")
  /\ UNCHANGED <<killWho, file, linked, pid, marked, term>>

ExitUnmarked(p) ==
  /\ \/ pc[p] = "refused" /\ p \notin marked
     \/ pc[p] = "stranger"
  /\ Gone(p)
  /\ UNCHANGED <<file, linked, past>>

\* quitFromRunOnce finds no file.
QuitNoFile(p) ==
  /\ pc[p] = "quit" /\ file = NoFile
  /\ Gone(p)
  /\ UNCHANGED <<file, linked, past>>

\* It reads the id and goes on to remove the file whatever the id is: the
\* loop falls through to the label when the file ends.
QuitRead(p) ==
  /\ pc[p] = "quit"
  /\ Read(p)
  /\ Goto(p, "remove")
  /\ UNCHANGED <<killWho, file, linked, marked, term, past>>

\* Mutant: the file is left behind.
QuitRemoveForgotten(p) ==
  /\ pc[p] = "remove"
  /\ Gone(p)
  /\ UNCHANGED <<file, linked, past>>
\* The path is removed.  The history notes when it named another process.
QuitRemove(p) ==
  /\ pc[p] = "remove"
  /\ file' = NoFile
  /\ linked' = {}
  /\ past' = past \cup (IF file \in {p, NoFile} THEN {} ELSE {"stolen"})
  /\ Gone(p)

\* A SIGTERM arrives: nothing in the code handles it, no exit handler runs.
Terminate(p) ==
  /\ p \in term
  /\ linked' = linked \ {p}
  /\ Gone(p)
  /\ UNCHANGED <<file, past>>

\* A process dies of anything else, at any moment.
Crash(p) ==
  /\ pc[p] \notin {"off", "stranger"}
  /\ linked' = linked \ {p}
  /\ past' = past \cup {"crash"}
  /\ Gone(p)
  /\ UNCHANGED file

Next == \E p \in Proc :
  \/ \E policy \in {"KILL_ME", "KILL_ELDERSHIP"} :
       Start(p, policy) \/ CallAgain(p, policy)
  \/ Stranger(p)
  \/ NoPidFile(p) \/ ReadElder(p) \/ Check(p) \/ Kill(p)
  \/ OpenWrite(p) \/ Register(p)
  \/ Exit(p) \/ ExitUnmarked(p) \/ QuitNoFile(p) \/ QuitRead(p) \/ QuitRemove(p)
  \/ Terminate(p) \/ Crash(p)

Spec == Init /\ [][Next]_vars

\* Processes are interchangeable.
Symmetric == Permutations(Proc)

-----------------------------------------------------------------------------
\* runOnce promises that only one program runs (pid.c:106).  It keeps the
\* promise as long as no two processes are in the lock code at once and no
\* exit handler removes a file that names another process: crashes, reused
\* ids, both policies and repeated calls alone never let a second one in.  A
\* process with a SIGTERM on its way no longer counts.
OneInstance ==
  past \cap {"overlap", "stolen"} = {} =>
    \A p, q \in Instances \ term : p = q

\* While it runs, the instance is named by the PID file (pid.c:141, 189), so
\* that the next one finds it; again unless starts overlapped or the file was
\* removed by another process's exit handler.
FileNamesInstance ==
  past \cap {"overlap", "stolen"} = {} =>
    \A p \in Instances \ term : file = p

\* RUNONCE_KILL_ELDERSHIP signals the former instance and nobody else
\* (pid.c:110, 181): never a stranger that got a dead instance's id, never
\* the caller.  That needs more: no crash has left a stale file, and nobody
\* calls runOnce twice.
KillsOnlyElder ==
  [][past' = {} => \A q \in term' \ term :
       pc[q] = "run" /\ \E p \in Proc \ {q} : pc[p] = "kill"]_vars

\* A program is turned away (pid.c:172) only for an instance: as long as
\* nothing has gone wrong, the id it read is that of another program that
\* holds the lock, never a stranger's.
RefusedForInstance ==
  [][past' = {} => \A p \in Proc :
       pc[p] = "check" /\ pc'[p] = "refused" => pid[p] \in Instances \ {p}]_vars
=============================================================================
