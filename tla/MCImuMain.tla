----------------------------- MODULE MCImuMain -----------------------------
(* Small instances of ImuMain; the speeds stand for those of MCImuDriver.    *)
EXTENDS ImuMain

MCBauds    == {9600, 19200, 460800}
MCSettable == {9600, 19200}
MCSpeeds   == <<9600, 19200, 460800>>
MCAddrs    == {0, 1}
MCCalls    == {SetMode, SetType, ReadAll}
MCLossy    == {"lose", "open", "refuse"}
=============================================================================
