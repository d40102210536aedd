----------------------------- MODULE ImuDriver -----------------------------
(***************************************************************************)
(* The driver of src/imu_300_vg.c on one port: probing the device at each  *)
(* speed in turn, moving it to the wanted speed, and the calls a client    *)
(* makes afterwards.  One thread runs it, so every blocking call is a      *)
(* place (pc) where the device and the line may take steps.                *)
(***************************************************************************)
EXTENDS ImuDevice

CONSTANTS
  Speeds,  \* the speeds imx300_vg_uart_probe tries, in its order
  Coded,   \* the speeds brate_to_cmd_value has a code for
  Target,  \* the speed the caller asks for
  Calls    \* the calls a client may make: [cmd, val]

ASSUME DriverAssumption ==
  /\ Speeds \in Seq(Bauds) /\ Speeds # <<>>
  /\ Coded \subseteq Bauds
  /\ Target \in Bauds
  /\ Calls \subseteq [cmd : Cmd, val : Nat]
  /\ \A c \in Calls : c.cmd = "SET_DEV_ADDR" => c.val \in Byte

VARIABLES
  pc,     \* where the driver is
  k,      \* index of the speed being probed; 0 outside the probe loop
  call,   \* the request in progress: [cmd, val]
  fd,     \* uart_fd of the driver and of its caller
  newFd,  \* new_uart_fd of imx300_vg_change_brate
  addr,   \* g_dev_addr
  buf,    \* what requests have left on the stack where recv_buff[128] lies
  done    \* the last request completed (a history)

driverVars == <<pc, k, call, fd, newFd, addr, buf, done>>
vars == <<lineVars, dev, driverVars>>

GetAddr  == [cmd |-> "GET_DEV_ADDR", val |-> 0]
SetBaud(b) == [cmd |-> "SET_BTRATE", val |-> b]

\* Where the recv_buff of a request lies on the stack: calls whose functions
\* have frames of one size put it at one place, the probe calls from deeper.
Place == {"probe", "brate", "addr", "conf"}
PlaceOf(c) ==
  CASE k > 0                                                -> "probe"
    [] k = 0 /\ c.cmd = "SET_BTRATE"                        -> "brate"
    [] k = 0 /\ c.cmd \in {"GET_DEV_ADDR", "SET_DEV_ADDR", "GET_G"} -> "addr"
    [] OTHER                                                -> "conf"

Nothing  == [cmd |-> "NONE", val |-> 0, ok |-> FALSE, got |-> Junk]

Init ==
  /\ DevInit
  /\ fds = {} /\ ttyBaud \in Settable /\ rx = <<>> /\ toDev = <<>> /\ toHost = <<>>
  /\ pc = "open" /\ k = 1 /\ call = GetAddr
  /\ fd = -1 /\ newFd = -1 /\ addr = 0 /\ buf = [p \in Place |-> Junk] /\ done = Nothing

-----------------------------------------------------------------------------
\* imx300_vg_uart_probe opens the port at the next speed.
ProbeOpen ==
  /\ pc = "open"
  /\ \/ \E n \in {LowestFree(fds)} :
          /\ SerialInit(Speeds[k], n)
          /\ fd' = n /\ pc' = "send"
     \/ "open" \in Faults /\ SerialInitFails /\ fd' = -1 /\ pc' = "failed"
  /\ call' = GetAddr
  /\ UNCHANGED <<dev, k, newFd, addr, buf, done>>

\* A client makes a call on the descriptor the probe returned.
Call(c) ==
  /\ pc = "idle"
  /\ c.cmd = "SET_BTRATE" => c.val \in Coded
  /\ call' = c
  /\ pc' = "send"
  /\ UNCHANGED <<lineVars, dev, k, fd, newFd, addr, buf, done>>

\* Deviation: every request goes to address 0.
SendToZero ==
  /\ pc = "send" /\ Len(toDev) < RxMax
  /\ SerialSend(fd, [cmd |-> call.cmd, val |-> call.val, baud |-> ttyBaud,
                     new |-> TRUE, to |-> 0])
  /\ buf' = [p \in Place |-> [buf[p] EXCEPT !.new = FALSE]]
  /\ pc' = "recv"
  /\ UNCHANGED <<dev, k, call, fd, newFd, addr, done>>

\* The request goes out: to address 0 if it asks for the address, else to the
\* address the driver believes in.  (RxMax bounds the requests not yet served.)
Send ==
  /\ pc = "send" /\ Len(toDev) < RxMax
  /\ SerialSend(fd, [cmd |-> call.cmd, val |-> call.val, baud |-> ttyBaud,
                     new |-> TRUE,
                     to |-> IF call.cmd = "GET_DEV_ADDR" THEN 0 ELSE addr])
  /\ buf' = [p \in Place |-> [buf[p] EXCEPT !.new = FALSE]]
  /\ pc' = "recv"
  /\ UNCHANGED <<dev, k, call, fd, newFd, addr, done>>

\* Deviation: the measurement request has a buffer as small as the caller's
\* payload arrays.
BufLenShort(cmd) == IF cmd = "READ_ALL_DATA" THEN 32 ELSE 128

\* Room for the frame: imx300_vg_read_all_datas has a zeroed buffer of 64
\* bytes, imx300_vg_cmd_send_and_recv one of 128 bytes it never clears.
BufLen(cmd) == IF cmd = "READ_ALL_DATA" THEN 64 ELSE 128

\* Deviation: a read without a time limit.
SerialRecvForever(n, max) ==
  IF n \in fds
  THEN rx # <<>> /\ \E m \in ReadSizes(rx, max) : rx' = Unread(rx, m)
  ELSE UNCHANGED rx

\* serial_recv: one read once there is input, or -1 when the wait ends or the
\* descriptor is not open.
SerialRecv(n, max) ==
  IF n \in fds /\ rx # <<>>
  THEN \E m \in ReadSizes(rx, max) : rx' = Unread(rx, m)
  ELSE (n \notin fds \/ MayTimeOut) /\ UNCHANGED rx

\* Deviation: no buffer is cleared before its use.
InBufferUncleared ==
  IF fd \in fds /\ rx # <<>> THEN {HeadFrame(rx)} ELSE {Junk, buf[PlaceOf(call)]}

\* What the request's buffer may hold then.  The -1 is stored in an unsigned
\* char, so the caller reads the buffer even when nothing was written to it:
\* it then holds what an earlier request has left there, or anything else.
InBuffer ==
  IF fd \in fds /\ rx # <<>>         THEN {HeadFrame(rx)}
  ELSE IF call.cmd = "READ_ALL_DATA" THEN {Junk}
  ELSE {Junk, buf[PlaceOf(call)]}

\* Deviation: the head and the checksum are not looked at.
ValidAlways(g) == TRUE

\* _check_imx300_vg_cmd: the head and the checksum count, a foreign address or
\* command word is only reported.
Valid(g) == g.cmd \in Cmd

\* Does the call return success with g in its buffer?
Succeeds(c, g) ==
  /\ Valid(g)
  /\ c.cmd \in {"SET_DEV_ADDR", "SAVE_CONFIG"} => g.val # Err
  /\ c.cmd = "GYROSCOPE_CALIB" => g.val = 1

\* Deviation: a new address is not remembered.
LearnOnlyAsked(c, g) ==
  addr' = IF Succeeds(c, g) /\ c.cmd = "GET_DEV_ADDR" THEN g.val ELSE addr

\* set_dev_addr, for the calls that reach it.
Learn(c, g) ==
  addr' = CASE ~Succeeds(c, g)          -> addr
            [] c.cmd = "GET_DEV_ADDR"   -> g.val
            [] c.cmd = "SET_DEV_ADDR"   -> c.val
            [] OTHER                    -> addr

\* What imx300_vg_uart_probe does with the answer: close and go on, return
\* the descriptor, or move the device to the wanted speed.
AfterProbe(ok) ==
  CASE ~ok -> pc' = "next" /\ UNCHANGED <<k, call, fd>>
    [] ok /\ Speeds[k] = Target ->
         pc' = "idle" /\ k' = 0 /\ UNCHANGED <<call, fd>>
    [] ok /\ Speeds[k] # Target /\ Target \in Coded ->
         pc' = "send" /\ k' = 0 /\ call' = SetBaud(Target) /\ UNCHANGED fd
    [] OTHER -> pc' = "failed" /\ k' = 0 /\ fd' = -1 /\ UNCHANGED call

\* The wait for the answer ends; what the buffer holds decides.
Receive ==
  /\ pc = "recv"
  /\ SerialRecv(fd, BufLen(call.cmd))
  /\ \E g \in InBuffer :
       /\ buf' = IF call.cmd = "READ_ALL_DATA" THEN buf
                 ELSE [buf EXCEPT ![PlaceOf(call)] = g]
       /\ Learn(call, g)
       /\ done' = [cmd |-> call.cmd, val |-> call.val,
                   ok |-> Succeeds(call, g), got |-> g]
       /\ IF k > 0 THEN AfterProbe(Succeeds(call, g))
          ELSE /\ pc' = IF call.cmd = "SET_BTRATE" THEN "drain" ELSE "idle"
               /\ UNCHANGED <<k, call, fd>>
  /\ UNCHANGED <<fds, ttyBaud, toDev, toHost, dev, newFd>>

\* Deviation: one speed too many.
ProbeCloseTooFar ==
  /\ pc = "next"
  /\ Close(fd)
  /\ IF k <= Len(Speeds) THEN pc' = "open" /\ k' = k + 1
                         ELSE pc' = "idle" /\ k' = 0
  /\ UNCHANGED <<dev, call, fd, newFd, addr, buf, done>>

\* Deviation: the port is left open.
ProbeCloseForgotten ==
  /\ pc = "next"
  /\ IF k < Len(Speeds) THEN pc' = "open" /\ k' = k + 1
                        ELSE pc' = "idle" /\ k' = 0
  /\ UNCHANGED <<lineVars, dev, call, fd, newFd, addr, buf, done>>

\* No answer at this speed: the probe closes the port and tries the next one.
\* After the last it returns the number it has just closed.
ProbeClose ==
  /\ pc = "next"
  /\ Close(fd)
  /\ IF k < Len(Speeds) THEN pc' = "open" /\ k' = k + 1
                        ELSE pc' = "idle" /\ k' = 0
  /\ UNCHANGED <<dev, call, fd, newFd, addr, buf, done>>

-----------------------------------------------------------------------------
\* imx300_vg_change_brate, after its request, whatever came of that: swallow
\* late input,
Drain ==
  /\ pc \in {"drain", "drain_new"}
  /\ SerialRecv(IF pc = "drain" THEN fd ELSE newFd, 128)
  /\ pc' = IF pc = "drain" THEN "close" ELSE "flush"
  /\ UNCHANGED <<fds, ttyBaud, toDev, toHost, dev, k, call, fd, newFd, addr, buf, done>>

\* Deviation: the old descriptor is not closed.
CloseOldForgotten ==
  /\ pc = "close"
  /\ pc' = "reopen"
  /\ UNCHANGED <<lineVars, dev, k, call, fd, newFd, addr, buf, done>>

\* flush and close the old descriptor,
CloseOld ==
  /\ pc = "close"
  /\ Close(fd)
  /\ pc' = "reopen"
  /\ UNCHANGED <<dev, k, call, fd, newFd, addr, buf, done>>

\* open the port at the new speed,
Reopen ==
  /\ pc = "reopen"
  /\ \/ \E n \in {LowestFree(fds)} :
          /\ SerialInit(call.val, n)
          /\ newFd' = n /\ pc' = "drain_new" /\ UNCHANGED fd
     \/ "open" \in Faults /\ SerialInitFails /\ fd' = -1 /\ pc' = "failed" /\ UNCHANGED newFd
  /\ UNCHANGED <<dev, k, call, addr, buf, done>>

\* and flush the number that was closed before returning the new one.
FlushOld ==
  /\ pc = "flush"
  /\ rx' = IF fd \in fds THEN <<>> ELSE rx
  /\ fd' = newFd
  /\ pc' = "idle"
  /\ UNCHANGED <<fds, ttyBaud, toDev, toHost, dev, k, call, newFd, addr, buf, done>>

-----------------------------------------------------------------------------
\* The steps of the one thread that runs the driver.
DriverStep ==
  \/ ProbeOpen \/ Send \/ Receive \/ ProbeClose
  \/ Drain \/ CloseOld \/ Reopen \/ FlushOld

Next ==
  \/ DriverStep
  \/ \E c \in Calls : Call(c)
  \/ LineStep /\ UNCHANGED driverVars

\* The program keeps running, the device answers and the line delivers; no
\* call has to be made and nothing has to be lost.
Fairness == WF_vars(DriverStep) /\ WF_vars(DevServe /\ UNCHANGED driverVars)
                                /\ WF_vars(Deliver /\ UNCHANGED driverVars)

Spec == Init /\ [][Next]_vars /\ Fairness

-----------------------------------------------------------------------------
(* Type invariant: the frames in the queues are well formed and the driver   *)
(* is at one of its places.                                                  *)
TypeOK ==
  /\ fds \subseteq Nat /\ ttyBaud \in Bauds
  /\ rx \in Seq([cmd : Cmd \cup {"JUNK"}, val : Byte, new : BOOLEAN, left : Nat])
  /\ toDev \in Seq([cmd : Cmd, val : Nat, baud : Bauds, new : BOOLEAN, to : Byte])
  /\ toHost \in Seq([cmd : Cmd, val : Byte, baud : Bauds, new : BOOLEAN])
  /\ dev \in [addr : Byte, baud : Bauds, mode : Nat]
  /\ pc \in {"open", "send", "recv", "next", "idle", "drain", "close",
             "reopen", "drain_new", "flush", "failed"}
  /\ k \in 0..Len(Speeds) /\ call \in [cmd : Cmd, val : Nat]
  /\ fd \in Int /\ newFd \in Int /\ addr \in Byte /\ buf \in [Place -> Frame]
  /\ done \in [cmd : Cmd \cup {"NONE"}, val : Nat, ok : BOOLEAN, got : Frame]

(* The driver never has the port open twice, whichever of the speeds fail    *)
(* and whatever is lost: probe and change_brate close what they leave        *)
(* (imu_300_vg.c:318, 728).  Only a failed serial_init leaves one behind     *)
(* (line 33), and the driver has given up by then.                           *)
OneOpenFd == Cardinality(fds) <= 1

(* Line 328 flushes the number closed at line 318.  It reaches the port just *)
(* opened, because open has handed the same number out again.                *)
StaleFdIsNewFd == pc = "flush" => fd = newFd /\ fd \in fds

(* A request that succeeds has been answered: the frame its result was taken *)
(* from is the device's answer to that very request.                         *)
AnswerIsToTheCall == done.ok => done.got.new /\ done.got.cmd = done.cmd

(* The same for measurements only, whose buffer starts out as zeroes.        *)
SampleIsFresh ==
  done.ok /\ done.cmd = "READ_ALL_DATA" =>
    done.got.new /\ done.got.cmd = "READ_ALL_DATA"

(* When a request goes out, nothing an earlier one caused is left on the     *)
(* line: no late answer, no rest of a frame a read has cut.                  *)
NothingLeftBehind == pc = "send" => rx = <<>> /\ toDev = <<>> /\ toHost = <<>>

(* Between calls the driver talks to the address the device listens to.      *)
AddressAgrees == pc = "idle" => addr = dev.addr

(* Between calls the client holds a descriptor that is open on a port whose  *)
(* speed is the device's: what imx300_vg_uart_probe promises on success.     *)
PortUsable == pc = "idle" => fd \in fds /\ ttyBaud = dev.baud

(* The descriptor a client is given is open.                                 *)
GivenFdIsOpen == pc = "idle" => fd \in fds

(* Every call comes back, answered or not.                                   *)
CallsReturn == pc \in {"open", "send"} ~> pc \in {"idle", "failed"}
=============================================================================
