----------------------------- MODULE ImuDevice -----------------------------
(***************************************************************************)
(* The IMU at the other end of the line, as the driver's requests, the     *)
(* frames it accepts and its comments describe it: it serves the requests  *)
(* that reach it at its own speed and address, one after the other, and    *)
(* in an automatic mode also sends data nobody asked for.                  *)
(*                                                                         *)
(* Faults names what may go wrong:                                         *)
(*   "lose"    a request or a reply is lost                                *)
(*   "delay"   a reply may come after the driver stopped waiting for it    *)
(*   "refuse"  the device answers a command with RECV_DATA_VALUE_ERR       *)
(*   "auto"    the device may be in an automatic output mode at power up   *)
(*   "open"    opening or configuring the port may fail                    *)
(***************************************************************************)
EXTENDS SerialLine

CONSTANTS
  Faults,    \* subset of {"lose", "delay", "refuse", "auto", "open"}
  Addrs,     \* device addresses in use
  DevBauds,  \* speeds the device may be set to at power up
  RxMax      \* bound on the frames in each queue of the line

ASSUME DeviceAssumption ==
  /\ Faults \subseteq {"lose", "delay", "refuse", "auto", "open"}
  /\ Addrs \subseteq Byte \ {Err}
  /\ DevBauds \subseteq Bauds
  /\ RxMax \in Nat \ {0, 1}

VARIABLE dev   \* [addr, baud, mode]

\* First data byte of a measurement: sign and hundreds digit of the yaw.
SampleByte == 16

DevInit ==
  dev \in [addr : Addrs, baud : DevBauds,
           mode : IF "auto" \in Faults THEN {0, 1} ELSE {0}]

\* Does the device take request q as its own?  A query of the address
\* reaches any device.
Hears(q) == q.baud = dev.baud /\ (q.cmd = "GET_DEV_ADDR" \/ q.to = dev.addr)

\* First data byte of the device's answer.
AnswerTo(q) ==
  CASE q.cmd = "GET_DEV_ADDR"                         -> dev.addr
    [] q.cmd = "SET_DEV_ADDR"                         -> q.val
    [] q.cmd = "GYROSCOPE_CALIB"                      -> 1
    [] q.cmd \in {"GET_G", "GET_W", "READ_ALL_DATA"}  -> SampleByte
    [] OTHER                                          -> 0

Obey(q) ==
  dev' = CASE q.cmd = "SET_DEV_ADDR"    -> [dev EXCEPT !.addr = q.val]
           [] q.cmd = "SET_BTRATE"      -> [dev EXCEPT !.baud = q.val]
           [] q.cmd = "SET_OUTPUT_MODE" -> [dev EXCEPT !.mode = q.val]
           [] OTHER                     -> dev

\* The answer goes out at the old speed, then the new one takes effect.
Reply(q, v) ==
  toHost' = Append(toHost, [cmd |-> q.cmd, val |-> v, baud |-> dev.baud,
                            new |-> q.new])

\* The device takes the next request off the wire.
DevServe ==
  /\ toDev # <<>> /\ Len(toHost) < RxMax
  /\ LET q == Head(toDev) IN
       /\ toDev' = Tail(toDev)
       /\ \/ ~Hears(q) /\ UNCHANGED <<toHost, dev>>
          \/ Hears(q) /\ Reply(q, AnswerTo(q)) /\ Obey(q)
          \/ /\ "refuse" \in Faults /\ Hears(q)
             /\ q.cmd \notin {"GET_DEV_ADDR", "GET_G", "GET_W", "READ_ALL_DATA"}
             /\ Reply(q, Err) /\ UNCHANGED dev
  /\ UNCHANGED <<fds, ttyBaud, rx>>

\* In an automatic mode the device sends a measurement by itself.
DevAutoOutput ==
  /\ dev.mode # 0 /\ toHost = <<>>
  /\ toHost' = Append(toHost, [cmd |-> "READ_ALL_DATA", val |-> SampleByte,
                               baud |-> dev.baud, new |-> FALSE])
  /\ UNCHANGED <<fds, ttyBaud, rx, toDev, dev>>

\* A reply reaches the tty: it is dropped when nobody has the port open and
\* is noise when the speeds differ.
Deliver ==
  /\ toHost # <<>> /\ Len(rx) < RxMax
  /\ toHost' = Tail(toHost)
  /\ LET r == Head(toHost)
         f == IF r.baud = ttyBaud
              THEN [cmd |-> r.cmd, val |-> r.val, new |-> r.new]
              ELSE Junk
     IN  rx' = IF fds = {} THEN rx
               ELSE Append(rx, [cmd |-> f.cmd, val |-> f.val, new |-> f.new,
                                left |-> FrameLen(r.cmd)])
  /\ UNCHANGED <<fds, ttyBaud, toDev, dev>>

LoseRequest ==
  /\ "lose" \in Faults /\ toDev # <<>>
  /\ toDev' = Tail(toDev)
  /\ UNCHANGED <<fds, ttyBaud, rx, toHost, dev>>

LoseReply ==
  /\ "lose" \in Faults /\ toHost # <<>>
  /\ toHost' = Tail(toHost)
  /\ UNCHANGED <<fds, ttyBaud, rx, toDev, dev>>

LineStep == DevServe \/ DevAutoOutput \/ Deliver \/ LoseRequest \/ LoseReply

\* May a wait for input end without any?  A device that is on time still has
\* the request, or its reply on the wire, for as long as the wait lasts.
MayTimeOut ==
  /\ rx = <<>>
  /\ "delay" \in Faults \/ (toDev = <<>> /\ toHost = <<>>)
=============================================================================
