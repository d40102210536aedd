---------------------------- MODULE MCImuSample ----------------------------
(* Frames with no, short and measurement-sized data fields; measurements    *)
(* with each digit in use, both signs, and the extremes.                    *)
EXTENDS ImuSample

MCCodes  == {11, 31, 89, 255}
MCAddrs  == {0, 1, 119, 254}
MCData   == {<<>>, <<0>>, <<255>>, <<119>>, <<255, 255>>, <<0, 0, 18>>,
             [i \in 1..9 |-> (40 * i) % 256], [i \in 1..43 |-> (7 * i) % 256]}
MCFlips  == {1, 128, 255}
MCValues3 == {-99999, -12345, -90, -1, 1, 7, 60, 500, 8000, 54321, 99999}
MCValues4 == {-9999999, -1000000, -7, 3, 345678, 9876543, 9999999}
MCOthers  == {0, 11, -22222}
=============================================================================
