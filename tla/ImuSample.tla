----------------------------- MODULE ImuSample -----------------------------
(***************************************************************************)
(* Decoding a measurement: imx300_vg_cal_recv_data of src/imu_300_vg.c      *)
(* writes the 48 bytes of the frame as hexadecimal digits and reads each    *)
(* quantity as a sign digit followed by decimal digits.  A quantity is here *)
(* an integer in units of its last digit: 0.01 degrees (per second),        *)
(* 0.0001 g, 0.000001 for a quaternion.                                     *)
(*                                                                         *)
(* A device lays the quantities out one after the other in the data field  *)
(* of a frame (ImuFrame) and sends it; it does not know the places at which *)
(* the driver looks for them.                                              *)
(***************************************************************************)
EXTENDS ImuFrame, SequencesExt

CONSTANTS
  Values3,   \* values of a quantity of three bytes
  Values4,   \* values of a quaternion component, of four bytes
  Others     \* values the other twelve quantities have meanwhile

ReadAllData == 89   \* CMD_SEND_READ_ALL_DATA

\* Three bytes are a sign and five digits, four bytes a sign and seven.
Within(m) == -m..m

ASSUME SampleAssumption ==
  /\ Values3 \cup Others \subseteq Within(99999)
  /\ Values4 \subseteq Within(9999999)

Short == {"yaw", "pitch", "roll", "x_acc", "y_acc", "z_acc", "x_av", "y_av", "z_av"}
Long  == {"q1", "q2", "q3", "q4"}
Field == Short \cup Long

\* Deviation: one quantity is looked for where its neighbour is.
StartCopied(f) ==
  CASE f = "yaw"   ->  8 [] f = "pitch" -> 14 [] f = "roll"  -> 20
    [] f = "x_acc" -> 26 [] f = "y_acc" -> 32 [] f = "z_acc" -> 38
    [] f = "x_av"  -> 44 [] f = "y_av"  -> 44 [] f = "z_av"  -> 56
    [] f = "q1" -> 62 [] f = "q2" -> 70 [] f = "q3" -> 78 [] f = "q4" -> 86

\* p_hexstr: where a quantity starts among the 96 digits.
Start(f) ==
  CASE f = "yaw"   ->  8 [] f = "pitch" -> 14 [] f = "roll"  -> 20
    [] f = "x_acc" -> 26 [] f = "y_acc" -> 32 [] f = "z_acc" -> 38
    [] f = "x_av"  -> 44 [] f = "y_av"  -> 50 [] f = "z_av"  -> 56
    [] f = "q1" -> 62 [] f = "q2" -> 70 [] f = "q3" -> 78 [] f = "q4" -> 86

\* The digits after its sign.
Digits(f) == IF f \in Short THEN 5 ELSE 7

\* to_hex_str: the high half of a byte first.
ToHexStr(buff) == [i \in 0..95 |->
                     IF i % 2 = 0 THEN buff[i \div 2] \div 16 ELSE buff[i \div 2] % 16]

\* p[i] - '0' for the character of hexadecimal digit h: 'A' is 17 after '0'.
CharValue(h) == IF h < 10 THEN h ELSE h + 7

\* The quantity f of a frame; only the sign digit 1 makes it negative.
Decode(buff, f) ==
  LET hex == ToHexStr(buff)
      n   == Digits(f)
      worth == [i \in 1..n |-> CharValue(hex[Start(f) + i]) * 10^(n - i)]
      mag == MapThenSumSet(LAMBDA i : worth[i], 1..n)
  IN  IF hex[Start(f)] = 1 THEN -mag ELSE mag

-----------------------------------------------------------------------------
\* The device: its quantities in the order of the frame,
Order == <<"yaw", "pitch", "roll", "x_acc", "y_acc", "z_acc", "x_av", "y_av", "z_av",
           "q1", "q2", "q3", "q4">>

\* each as n digits, a sign and then decimals (comments at imu_300_vg.c:408, 439),
Encoded(v, n) ==
  LET a == IF v < 0 THEN -v ELSE v IN
  <<IF v < 0 THEN 1 ELSE 0>> \o [i \in 1..n - 1 |-> (a \div 10^(n - 1 - i)) % 10]

\* two digits to a byte.
DataField(smp) ==
  LET digit == FlattenSeq([j \in 1..13 |-> Encoded(smp[Order[j]], IF j <= 9 THEN 6 ELSE 8)])
  IN  [b \in 1..43 |-> 16 * digit[2 * b - 1] + digit[2 * b]]

-----------------------------------------------------------------------------
VARIABLES
  sample,   \* what the device measures, or <<>>
  vg_data   \* what the driver reports, or <<>>

vars == <<frameVars, sample, vg_data>>

\* The worked example of the comments at imu_300_vg.h:59 and imu_300_vg.c:440:
\* a data field that begins 10 93 76 12 98 87 00 14 03 is -93.76, -298.87 and
\* +14.03, here in the places of the first three quantities.
QuotedData == <<16, 147, 118, 18, 152, 135, 0, 20, 3>>
QuotedValues == <<-9376, -29887, 1403>>
Example == Len(data) >= 9 /\ SubSeq(data, 1, 9) = QuotedData

\* A device about to be asked, any other frame, or an example on its way.
Init ==
  /\ \/ \E f \in Field, o \in Others :
          \E v \in (IF f \in Short THEN Values3 ELSE Values4) :
            /\ sample = [g \in Field |-> IF g = f THEN v ELSE o]
            /\ ToSend(ReadAllData, 0, DataField(sample))
     \/ FrameInit /\ sample = <<>>
  /\ vg_data = <<>>

CalRecvData ==
  /\ got # Zeroes /\ Check(got) /\ vg_data = <<>>
  /\ sample # <<>> \/ Example
  /\ vg_data' = [f \in Field |-> Decode(got, f)]
  /\ UNCHANGED <<frameVars, sample>>

Next == (FrameNext /\ UNCHANGED <<sample, vg_data>>) \/ CalRecvData
Spec == Init /\ [][Next]_vars

-----------------------------------------------------------------------------
(* What the driver reports is what the device measured, on a wire that may   *)
(* change one byte: the thirteen hand-counted places of                      *)
(* imx300_vg_cal_recv_data are those at which the device puts the quantities,*)
(* each keeps its sign and its digits, a frame damaged in them is dropped,   *)
(* and the example in the comments comes out as they say.                    *)
Faithful ==
  /\ (vg_data # <<>> /\ sample # <<>>) => vg_data = sample
  /\ (vg_data # <<>> /\ Example) => \A j \in 1..3 : vg_data[Order[j]] = QuotedValues[j]
=============================================================================
