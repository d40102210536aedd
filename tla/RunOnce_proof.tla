---------------------------- MODULE RunOnce_proof ----------------------------
(***************************************************************************)
(* Proofs about RunOnce, for any set of processes.                         *)
(*                                                                         *)
(* OneInstance alone is not inductive: that nobody else runs is known      *)
(* inside runOnce only through what the caller has read.  Serial says      *)
(* where that knowledge sits at each place of the call.                    *)
(***************************************************************************)
EXTENDS RunOnce, TLAPS

USE DEF InRunOnce, InQuit

Calm == past \cap {"overlap", "stolen"} = {}
Current == Instances \ term

Serial ==
  /\ \A p, q \in Busy : p = q
  /\ \A p \in Current : file = p
  /\ \A q \in Proc : pc[q] = "write" => q \in linked
  /\ \A q \in Proc : pc[q] \in {"create", "take", "write"} => Current = {}
  /\ \A q \in Proc : pc[q] \in {"check", "kill"} =>
       \A p \in Current : pid[q] = p

IInv == TypeOK /\ (Calm => Serial)

-----------------------------------------------------------------------------
\* The variables keep their types.
LEMMA TypeInductive == TypeOK /\ [Next]_vars => TypeOK'
<1> SUFFICES ASSUME TypeOK, [Next]_vars PROVE TypeOK'
  OBVIOUS
<1> USE DEF TypeOK, Goto, Forget, Gone, Enter
<1>1. CASE UNCHANGED vars
  BY <1>1 DEF vars
<1>2. ASSUME NEW p \in Proc, NEW policy \in {"KILL_ME", "KILL_ELDERSHIP"},
             Start(p, policy) \/ CallAgain(p, policy)
      PROVE TypeOK'
  BY <1>2 DEF Start, CallAgain
<1>3. ASSUME NEW p \in Proc,
             Stranger(p) \/ NoPidFile(p) \/ Check(p) \/ Kill(p)
      PROVE TypeOK'
  BY <1>3 DEF Stranger, NoPidFile, Check, Kill
<1>4. ASSUME NEW p \in Proc, ReadElder(p) \/ QuitRead(p)
      PROVE TypeOK'
  <2>1. PICK id \in Proc \cup {Nobody} : pid' = [pid EXCEPT ![p] = id]
    BY <1>4 DEF ReadElder, QuitRead, Read
  <2>2. CASE ReadElder(p)
    BY <2>1, <2>2 DEF ReadElder
  <2>3. CASE QuitRead(p)
    BY <2>1, <2>3 DEF QuitRead
  <2>4. QED
    BY <1>4, <2>2, <2>3
<1>5. ASSUME NEW p \in Proc, OpenWrite(p) \/ Register(p)
      PROVE TypeOK'
  <2>1. CASE OpenWrite(p)
    BY <2>1 DEF OpenWrite
  <2>2. CASE Register(p)
    BY <2>2 DEF Register
  <2>3. QED
    BY <1>5, <2>1, <2>2
<1>6. ASSUME NEW p \in Proc, Exit(p) \/ ExitUnmarked(p) \/ QuitNoFile(p)
      PROVE TypeOK'
  BY <1>6 DEF Exit, ExitUnmarked, QuitNoFile
<1>7. ASSUME NEW p \in Proc, QuitRemove(p) \/ Terminate(p) \/ Crash(p)
      PROVE TypeOK'
  BY <1>7 DEF QuitRemove, Terminate, Crash
<1>8. QED
  BY <1>1, <1>2, <1>3, <1>4, <1>5, <1>6, <1>7 DEF Next

\* The types and the discipline of the calls are preserved together.
LEMMA SerialInductive == IInv /\ [Next]_vars => IInv'
<1> SUFFICES ASSUME IInv, [Next]_vars, Calm' PROVE Serial'
  BY TypeInductive DEF IInv
<1> USE DEF IInv, Serial, Busy, Current, Instances, TypeOK, Goto, Forget, Gone
<1>a. Calm
  BY DEF Next, vars, Calm, Start, CallAgain, Enter, Stranger, NoPidFile,
     ReadElder, Check, Kill, OpenWrite, Register, Exit, ExitUnmarked,
     QuitNoFile, QuitRead, QuitRemove, Terminate, Crash
<1>b. Serial
  BY <1>a DEF IInv
<1>1. CASE UNCHANGED vars
  BY <1>1, <1>b DEF vars
<1>2. ASSUME NEW p \in Proc, NEW policy \in {"KILL_ME", "KILL_ELDERSHIP"},
             Start(p, policy)
      PROVE Serial'
  <2>1. Busy = {}
    BY <1>2, <1>a DEF Start, Enter, Calm
  <2> QED BY <1>2, <1>b, <2>1 DEF Start, Enter
<1>3. ASSUME NEW p \in Proc, NEW policy \in {"KILL_ME", "KILL_ELDERSHIP"},
             CallAgain(p, policy)
      PROVE Serial'
  <2>1. Busy = {}
    BY <1>3, <1>a DEF CallAgain, Calm
  <2> QED BY <1>3, <1>b, <2>1 DEF CallAgain
<1>4. ASSUME NEW p \in Proc, Stranger(p) PROVE Serial'
  BY <1>4, <1>b DEF Stranger
<1>5. ASSUME NEW p \in Proc, NoPidFile(p) PROVE Serial'
  BY <1>5, <1>b, RunOnceAssumption DEF NoPidFile
<1>6. ASSUME NEW p \in Proc, ReadElder(p) PROVE Serial'
  BY <1>6, <1>b, RunOnceAssumption DEF ReadElder, Read
<1>7. ASSUME NEW p \in Proc, Check(p) PROVE Serial'
  BY <1>7, <1>b DEF Check, IsProgressRuning
<1>8. ASSUME NEW p \in Proc, Kill(p) PROVE Serial'
  BY <1>8, <1>b DEF Kill
<1>9. ASSUME NEW p \in Proc, OpenWrite(p) PROVE Serial'
  BY <1>9, <1>b DEF OpenWrite
<1>10. ASSUME NEW p \in Proc, Register(p) PROVE Serial'
  BY <1>10, <1>b DEF Register
<1>11. ASSUME NEW p \in Proc, Exit(p) PROVE Serial'
  <2>1. Busy = {}
    BY <1>11, <1>a DEF Exit, Enter, Calm
  <2> QED BY <1>11, <1>b, <2>1 DEF Exit, Enter
<1>12. ASSUME NEW p \in Proc, ExitUnmarked(p) PROVE Serial'
  BY <1>12, <1>b DEF ExitUnmarked
<1>13. ASSUME NEW p \in Proc, QuitNoFile(p) PROVE Serial'
  BY <1>13, <1>b DEF QuitNoFile
<1>14. ASSUME NEW p \in Proc, QuitRead(p) PROVE Serial'
  BY <1>14, <1>b DEF QuitRead, Read
<1>15. ASSUME NEW p \in Proc, QuitRemove(p) PROVE Serial'
  <2>1. file \in {p, NoFile}
    BY <1>15 DEF QuitRemove, Calm
  <2>2. Current = {}
    BY <1>15, <1>b, <2>1, RunOnceAssumption DEF QuitRemove
  <2> QED BY <1>15, <1>b, <2>2 DEF QuitRemove
<1>16. ASSUME NEW p \in Proc, Terminate(p) PROVE Serial'
  BY <1>16, <1>b DEF Terminate
<1>17. ASSUME NEW p \in Proc, Crash(p) PROVE Serial'
  BY <1>17, <1>b DEF Crash
<1>18. QED
  BY <1>1, <1>2, <1>3, <1>4, <1>5, <1>6, <1>7, <1>8, <1>9, <1>10, <1>11,
     <1>12, <1>13, <1>14, <1>15, <1>16, <1>17 DEF Next

LEMMA Inductive == Spec => []IInv
<1>1. Init => IInv
  BY RunOnceAssumption
     DEF Init, IInv, TypeOK, Serial, Busy, Current, Instances, Calm
<1>2. QED
  BY <1>1, SerialInductive, PTL DEF Spec

-----------------------------------------------------------------------------
\* For every number of processes: runOnce lets one instance run, unless two
\* calls overlap or an exit handler removes another process's file.
THEOREM OnlyOneRuns == Spec => []OneInstance
<1>1. IInv => OneInstance
  BY RunOnceAssumption
     DEF IInv, Serial, Calm, Current, OneInstance, Instances
<1>2. QED
  BY <1>1, Inductive, PTL

\* The variables keep their types: every process is at one of its places, and
\* the file holds an id, nothing, or is not there.
THEOREM TypesCorrect == Spec => []TypeOK
<1>1. IInv => TypeOK
  BY DEF IInv
<1>2. QED
  BY <1>1, Inductive, PTL

\* And under the same condition the PID file names the one that runs.
THEOREM FileIsTrue == Spec => []FileNamesInstance
<1>1. IInv => FileNamesInstance
  BY DEF IInv, Serial, Calm, Current, FileNamesInstance
<1>2. QED
  BY <1>1, Inductive, PTL

-----------------------------------------------------------------------------
\* What else is known while nothing at all has gone wrong: whom the file
\* names, who may have a signal pending, and whom a caller has read.
Honest ==
  /\ file \in Proc => \/ pc[file] \in {"run", "quit", "remove"}
                      \/ \E q \in Proc : pc[q] = "take"
  /\ file = Nobody => \E q \in Proc : pc[q] = "write"
  /\ \A p \in term : /\ pc[p] \in {"run", "quit", "remove"}
                     /\ file = p => \E q \in Proc : pc[q] = "take"
  /\ \A q \in Proc : pc[q] \in {"check", "kill"} =>
       pid[q] = file /\ pid[q] \in Instances \ {q}

HInv == IInv /\ (past = {} => Honest)

\* No step breaks it.
LEMMA HonestInductive == HInv /\ [Next]_vars => HInv'
<1> SUFFICES ASSUME HInv, [Next]_vars, past' = {} PROVE Honest'
  BY SerialInductive DEF HInv
<1>a. past = {}
  BY DEF Next, vars, Start, CallAgain, Enter, Stranger, NoPidFile, ReadElder,
     Check, Kill, OpenWrite, Register, Exit, ExitUnmarked, QuitNoFile,
     QuitRead, QuitRemove, Terminate, Crash
<1>b. TypeOK /\ Serial /\ Honest
  BY <1>a DEF HInv, IInv, Calm
<1> USE RunOnceAssumption
    DEF Serial, Honest, Busy, Current, Instances, TypeOK, Goto, Forget, Gone
<1>1. CASE UNCHANGED vars
  BY <1>1, <1>b DEF vars
<1>2. ASSUME NEW p \in Proc, NEW policy \in {"KILL_ME", "KILL_ELDERSHIP"},
             Start(p, policy)
      PROVE Honest'
  BY <1>2, <1>b DEF Start, Enter
<1>3. ASSUME NEW p \in Proc, NEW policy \in {"KILL_ME", "KILL_ELDERSHIP"},
             CallAgain(p, policy)
      PROVE Honest'
  BY <1>3 DEF CallAgain
<1>4. ASSUME NEW p \in Proc, Stranger(p) PROVE Honest'
  BY <1>4, <1>b DEF Stranger
<1>5. ASSUME NEW p \in Proc, NoPidFile(p) PROVE Honest'
  BY <1>5, <1>b DEF NoPidFile
<1>6. ASSUME NEW p \in Proc, ReadElder(p) PROVE Honest'
  <2>1. file \in Proc /\ pc[file] = "run" /\ file # p
    BY <1>6, <1>b DEF ReadElder, Read
  <2>2. pid' = [pid EXCEPT ![p] = file]
    BY <1>6, <2>1 DEF ReadElder, Read
  <2>3. QED
    BY <1>6, <1>b, <2>1, <2>2 DEF ReadElder
<1>7. ASSUME NEW p \in Proc, Check(p) PROVE Honest'
  BY <1>7, <1>b DEF Check, IsProgressRuning
<1>8. ASSUME NEW p \in Proc, Kill(p) PROVE Honest'
  BY <1>8, <1>b DEF Kill
<1>9. ASSUME NEW p \in Proc, OpenWrite(p) PROVE Honest'
  BY <1>9, <1>b DEF OpenWrite
<1>10. ASSUME NEW p \in Proc, Register(p) PROVE Honest'
  BY <1>10, <1>b DEF Register
<1>11. ASSUME NEW p \in Proc, Exit(p) PROVE Honest'
  BY <1>11, <1>b DEF Exit, Enter
<1>12. ASSUME NEW p \in Proc, ExitUnmarked(p) PROVE Honest'
  BY <1>12, <1>b DEF ExitUnmarked
<1>13. ASSUME NEW p \in Proc, QuitNoFile(p) PROVE Honest'
  BY <1>13, <1>b DEF QuitNoFile
<1>14. ASSUME NEW p \in Proc, QuitRead(p) PROVE Honest'
  BY <1>14, <1>b DEF QuitRead, Read
<1>15. ASSUME NEW p \in Proc, QuitRemove(p) PROVE Honest'
  BY <1>15, <1>b DEF QuitRemove
<1>16. ASSUME NEW p \in Proc, Terminate(p) PROVE Honest'
  BY <1>16, <1>b DEF Terminate
<1>17. ASSUME NEW p \in Proc, Crash(p) PROVE Honest'
  BY <1>17 DEF Crash
<1>18. QED
  BY <1>1, <1>2, <1>3, <1>4, <1>5, <1>6, <1>7, <1>8, <1>9, <1>10, <1>11,
     <1>12, <1>13, <1>14, <1>15, <1>16, <1>17 DEF Next

LEMMA HonestAlways == Spec => []HInv
<1>1. Init => HInv
  BY RunOnceAssumption
     DEF Init, HInv, IInv, TypeOK, Serial, Honest, Busy, Current, Instances,
         Calm
<1>2. QED
  BY <1>1, HonestInductive, PTL DEF Spec

\* While nothing has gone wrong, KILL_ELDERSHIP signals another instance and
\* nobody else.
THEOREM OnlyElderIsKilled == Spec => KillsOnlyElder
<1> DEFINE Only == past' = {} => \A q \in term' \ term :
                     pc[q] = "run" /\ \E p \in Proc \ {q} : pc[p] = "kill"
<1>1. HInv /\ [Next]_vars => [Only]_vars
  <2> SUFFICES ASSUME HInv, Next, past' = {}, NEW q \in term' \ term
               PROVE pc[q] = "run" /\ \E p \in Proc \ {q} : pc[p] = "kill"
    OBVIOUS
  <2>1. PICK p \in Proc : Kill(p)
    BY DEF Next, Start, CallAgain, Enter, Stranger, NoPidFile, ReadElder,
       Check, OpenWrite, Register, Exit, ExitUnmarked, QuitNoFile, QuitRead,
       QuitRemove, Terminate, Crash, Gone, Goto
  <2>2. past = {}
    BY <2>1 DEF Kill
  <2>3. q = pid[p] /\ pc[p] = "kill"
    BY <2>1 DEF Kill
  <2>4. QED
    BY <2>2, <2>3 DEF HInv, Honest, Instances
<1>2. QED
  BY <1>1, HonestAlways, PTL DEF Spec, KillsOnlyElder

\* And KILL_ME turns a program away only for another instance.
THEOREM RefusalsAreRight == Spec => RefusedForInstance
<1> DEFINE Right == past' = {} => \A p \in Proc :
                      pc[p] = "check" /\ pc'[p] = "refused" =>
                        pid[p] \in Instances \ {p}
<1>1. HInv /\ [Next]_vars => [Right]_vars
  <2> SUFFICES ASSUME HInv, Next, past' = {}, NEW p \in Proc, pc[p] = "check"
               PROVE pid[p] \in Instances \ {p}
    OBVIOUS
  <2>1. past = {}
    BY DEF Next, Start, CallAgain, Enter, Stranger, NoPidFile, ReadElder,
       Check, Kill, OpenWrite, Register, Exit, ExitUnmarked, QuitNoFile,
       QuitRead, QuitRemove, Terminate, Crash
  <2>2. QED
    BY <2>1 DEF HInv, Honest
<1>2. QED
  BY <1>1, HonestAlways, PTL DEF Spec, RefusedForInstance
=============================================================================
