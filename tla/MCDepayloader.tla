--------------------------- MODULE MCDepayloader ---------------------------
(* Instances of RtpUncompressedDepayloader for TLC. *)
EXTENDS RtpUncompressedDepayloader
CONSTANTS Red, Green   \* two contents of a row
Colours == {Red, Green}
Line(n, c) == [line |-> n, pixels |-> c]
Rtp(lines, marker) == [lines |-> lines, marker |-> marker, valid |-> TRUE]
(* One line and a header numbered 0, as RtpUncompressedPayloader sends it.   *)
OwnPackets == {Rtp(<<Line(n, Red), Line(0, Red)>>, n = Height) : n \in Rows}
(* A datagram that is no RTP. *)
Stray == [lines |-> <<>>, marker |-> TRUE, valid |-> FALSE]
(* Other senders: a whole frame in a packet, a row twice, a line behind the  *)
(* last row; a header numbered 0 first.                                      *)
OtherPackets == {Rtp(<<Line(1, Red), Line(Height, Green)>>, TRUE),
                 Rtp(<<Line(1, Red), Line(1, Green)>>, FALSE),
                 Rtp(<<Line(Height + 1, Red)>>, FALSE),
                 Rtp(<<Line(0, Green), Line(1, Green)>>, FALSE), Stray}
AllPackets == OwnPackets \cup OtherPackets
=============================================================================
