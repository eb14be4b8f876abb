---------------------------- MODULE FrameChannel ----------------------------
(***************************************************************************)
(* What a raw video stream promises to a receiver that is called back,     *)
(* over a network that loses, duplicates and reorders packets.  Always: a  *)
(* picture ends with the last line of a frame that was transmitted, and    *)
(* every row is blank or shows a row of such a frame, that of its own      *)
(* number (counted from 1 here and from 0 in the frame, so the picture is  *)
(* one row too high and the last row is the memory behind the frame).      *)
(* Only while the network has delivered in order: the frames are shown in  *)
(* the order of transmission, none twice, and no row goes back in time.    *)
(***************************************************************************)
EXTENDS Integers

CONSTANT Height   \* rows per picture

VARIABLES
  sent,     \* the number of frames transmitted; they are numbered from 1
  ordered,  \* packets were only delivered in the order of transmission
  shown,    \* the number of the frame shown last, 0 before the first
  picture   \* for each row the frame and the row of it that it shows

Nothing == [frame |-> 0, row |-> 0]

ChannelInit ==
  /\ sent = 0
  /\ ordered = TRUE
  /\ shown = 0
  /\ picture = [r \in 1 .. Height |-> Nothing]

Send == sent' = sent + 1 /\ UNCHANGED <<ordered, shown, picture>>

Disorder == ordered' = FALSE /\ UNCHANGED <<sent, shown, picture>>

Show ==
  /\ UNCHANGED <<sent, ordered>>
  /\ shown' \in 1 .. sent
  /\ DOMAIN picture' = 1 .. Height
  /\ \A r \in 1 .. Height : \/ picture'[r] = Nothing
                            \/ /\ picture'[r].frame \in 1 .. sent
                               /\ picture'[r].row = r
  /\ picture'[Height].frame = shown'
  /\ ordered => /\ shown' > shown
                /\ \A r \in 1 .. Height :
                     picture'[r].frame \in picture[r].frame .. shown'

ChannelNext == Send \/ Disorder \/ Show

ChannelSpec == ChannelInit /\ [][ChannelNext]_<<sent, ordered, shown, picture>>
=============================================================================
