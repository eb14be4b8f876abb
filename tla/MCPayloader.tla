---------------------------- MODULE MCPayloader ----------------------------
(* Instances of RtpUncompressedPayloader for TLC. *)
EXTENDS RtpUncompressedPayloader
Video(n) == [encoding |-> "mapped", height |-> n, port |-> TRUE]
(* Settings that change the height under a thread that sends, refuse the     *)
(* next Transmit and end the process when a waiting thread starts to send.   *)
Other == [encoding |-> "unmapped", height |-> 1, port |-> FALSE]
ChangingSettings == {Video(2), Other}
=============================================================================
