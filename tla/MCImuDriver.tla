---------------------------- MODULE MCImuDriver ----------------------------
(* Small instances of ImuDriver: speeds 9600, 19200 and 460800 stand for the *)
(* eight of the driver, the last for the one missing from serial_set.        *)
EXTENDS ImuDriver

MCBauds    == {9600, 19200, 460800}
MCSettable == {9600, 19200}
MCSpeeds   == <<9600, 19200, 460800>>
MCAddrs    == {0, 1}
MCOneAddr == {0}

\* One call of each kind of handling, commands with their values.
MCCalls ==
  {[cmd |-> "GET_DEV_ADDR", val |-> 0], [cmd |-> "SET_DEV_ADDR", val |-> 0],
   [cmd |-> "SET_DEV_ADDR", val |-> 1], [cmd |-> "SET_BTRATE", val |-> 9600],
   [cmd |-> "SET_BTRATE", val |-> 19200], [cmd |-> "SET_OUTPUT_MODE", val |-> 0],
   [cmd |-> "GYROSCOPE_CALIB", val |-> 0], [cmd |-> "SAVE_CONFIG", val |-> 0],
   [cmd |-> "READ_ALL_DATA", val |-> 0], [cmd |-> "GET_W", val |-> 0]}

\* Fewer calls, for the lines with faults.
MCFewCalls ==
  {[cmd |-> "SET_DEV_ADDR", val |-> 1], [cmd |-> "SET_BTRATE", val |-> 9600],
   [cmd |-> "SET_OUTPUT_MODE", val |-> 0], [cmd |-> "READ_ALL_DATA", val |-> 0]}

\* The first two calls of main.cpp.
MCConfCalls ==
  {[cmd |-> "SET_OUTPUT_MODE", val |-> 0], [cmd |-> "SET_AUTO_OUTPUT_TYPE", val |-> 5]}

\* Two speeds and two calls, for the line on which everything may go wrong.
MCTwoSpeeds == <<9600, 19200>>
MCTwoCalls  == {[cmd |-> "SET_BTRATE", val |-> 9600], [cmd |-> "READ_ALL_DATA", val |-> 0]}

MCQuiet   == {}
MCLossy   == {"lose", "open"}
MCAll     == {"lose", "delay", "refuse", "auto", "open"}
MCLose    == {"lose"}
=============================================================================
