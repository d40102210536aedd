------------------------------ MODULE ImuMain ------------------------------
(***************************************************************************)
(* The program of src/main.cpp: exec_imx300_vg probes the device, puts it  *)
(* in answer mode, chooses the output type and then reads measurements for *)
(* ever, ignoring what fails on the way.  It makes its calls on ImuDriver. *)
(***************************************************************************)
EXTENDS ImuDriver

VARIABLE stage   \* how far exec_imx300_vg has come

mainVars == <<vars, stage>>

SetMode  == [cmd |-> "SET_OUTPUT_MODE", val |-> 0]        \* OUTPUT_MODE_0HZ_CS
SetType  == [cmd |-> "SET_AUTO_OUTPUT_TYPE", val |-> 5]   \* AUTO_OUTPUT_TYPE_05
ReadAll  == [cmd |-> "READ_ALL_DATA", val |-> 0]

MainInit == Init /\ stage = "probe"

\* The next call, whatever the one before returned.
MainCall ==
  \/ stage = "probe" /\ fd >= 0 /\ Call(SetMode) /\ stage' = "mode"
  \/ stage = "mode" /\ Call(SetType) /\ stage' = "type"
  \/ stage \in {"type", "loop"} /\ Call(ReadAll) /\ stage' = "loop"

\* The probe failed: "Dev Not Found".
MainExit ==
  /\ stage = "probe" /\ pc = "failed"
  /\ stage' = "exit"
  /\ UNCHANGED vars

MainNext ==
  \/ MainCall \/ MainExit
  \/ (DriverStep \/ (LineStep /\ UNCHANGED driverVars)) /\ UNCHANGED stage

MainFairness ==
  /\ WF_mainVars(MainCall \/ MainExit \/ (DriverStep /\ UNCHANGED stage))
  /\ WF_mainVars(DevServe /\ UNCHANGED <<driverVars, stage>>)
  /\ WF_mainVars(Deliver /\ UNCHANGED <<driverVars, stage>>)

MainSpec == MainInit /\ [][MainNext]_mainVars /\ MainFairness

-----------------------------------------------------------------------------
(* A measurement has just been read from the answer to its own request.      *)
FreshSample ==
  stage = "loop" /\ pc = "idle" /\ done.ok /\ done.got.new
                 /\ done.got.cmd = "READ_ALL_DATA"

\* The port reaches the device.  A frame is lost; a request the device does
\* not take as its own is none.
Connected == PortUsable /\ AddressAgrees
Loss == (LoseRequest /\ Hears(Head(toDev))) \/ LoseReply

(* Once the loop runs on a port that reaches the device, fresh measurements  *)
(* keep coming unless the line keeps losing frames: a lost request or reply  *)
(* costs one measurement and leaves no trace (main.cpp:52-61).               *)
SamplesFlow ==
  <>[](stage = "loop" /\ Connected) =>
    []<>FreshSample \/ []<><<Loss>>_mainVars

(* The read loop is never stuck in a call: it asks again and again, unless   *)
(* the program has said that it found no device.                             *)
LoopKeepsAsking == []<>(stage = "loop" /\ pc = "send") \/ <>[](stage = "exit")
=============================================================================
