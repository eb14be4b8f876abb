------------------------- MODULE UncompressedStream -------------------------
(***************************************************************************)
(* One raw video stream end to end: a client of RtpUncompressedPayloader   *)
(* that transmits frames 1, 2, ... with blocking calls, UDP between, and a *)
(* receiver with a registered callback on RtpUncompressedDepayloader.  The *)
(* network delivers every packet of a sendto any number of times or never, *)
(* in any order.  Both ends may be opened, and the receiver closed and     *)
(* restarted, at any time; neither process ends.  The receiver's variables *)
(* keep their names here, the transmitter's are renamed where the two      *)
(* clash.                                                                  *)
(***************************************************************************)
EXTENDS RtpUncompressedDepayloader

CONSTANTS
  MaxFrames,        \* bound on the frames transmitted
  SequenceModulus   \* 2^32 in the code

VARIABLES
  \* the transmitter
  egress, tx_open, rgb_frame, alive, mutex, caller, tx_pc, owner, line, last,
  protocol, sequence_number, tx_aborted, turn, passed, sends,
  \* the network: what sendto put on it
  wire,
  \* what the receiver's callback was given last
  shown, picture,
  \* history of the network: the last packet of wire ever delivered; packets
  \* were delivered in the order of sending; so far none was left out, either
  newest, ordered, intact

tx == <<egress, tx_open, rgb_frame, alive, mutex, caller, tx_pc, owner, line,
        last, protocol, sequence_number, tx_aborted, turn, passed, sends>>
seen == <<shown, picture>>
network == <<wire, newest, ordered, intact>>
everything == <<tx, vars, seen, network>>

FrameNumbers == 1 .. MaxFrames
Stream == "stream"
Video == [encoding |-> "mapped", height |-> Height, port |-> TRUE]

(* A row of a frame, numbered from 0; row Height lies behind the frame.      *)
RowPixels == [frame : FrameNumbers, row : 0 .. Height]
NoPixels == [frame |-> 0, row |-> 0]

(* A packet with scan line l, and a second header numbered 0 of length 0.    *)
UdpPacket(l, pixels, marker) ==
  [lines |-> <<[line |-> l, pixels |-> pixels],
               [line |-> 0, pixels |-> pixels]>>,
   marker |-> marker, valid |-> TRUE]
LinePackets == {UdpPacket(l, [frame |-> f, row |-> l], l = Height) :
                  l \in Rows, f \in FrameNumbers}

ASSUME StreamAssumption ==
  /\ MaxFrames \in Nat
  /\ SequenceModulus \in Nat \ {0}
  /\ LinePackets \subseteq Packets
  /\ RowPixels \subseteq Pixels
  /\ Blank = NoPixels

(* Thread f transmits frame f. *)
Tx == INSTANCE RtpUncompressedPayloader WITH
        Streams <- {Stream}, Threads <- FrameNumbers, Frames <- FrameNumbers,
        MaxHeight <- Height, Settings <- {Video},
        Blocking <- {TRUE}, NoFrame <- 0, NoThread <- 0,
        socket_open <- tx_open, pc <- tx_pc, aborted <- tx_aborted

StreamInit ==
  /\ Tx!Init
  /\ Init
  /\ wire = <<>>
  /\ shown = 0
  /\ picture = [r \in Rows |-> NoPixels]
  /\ newest = 0
  /\ ordered = TRUE
  /\ intact = TRUE

(* What the client of the transmitter does, and its threads up to sendto.   *)
SenderThread(t) ==
  \/ Tx!EnterSendFrame(t) \/ Tx!LoopTest(t) \/ Tx!TestLast(t)
  \/ Tx!UpdateHeader(t) \/ Tx!IncrementSequence(t)

Transmitter ==
  /\ \/ Tx!SetStreamInfo(Stream, Video)
     \/ Tx!Open(Stream)
     \/ Tx!Close(Stream)
     \/ Len(passed[Stream]) < MaxFrames /\
          LET f == Len(passed[Stream]) + 1 IN Tx!Transmit(Stream, f, TRUE, f)
     \/ Tx!TransmitReturns(Stream)
     \/ \E t \in FrameNumbers : SenderThread(t)
  /\ ~tx_aborted'
  /\ UNCHANGED <<vars, seen, network>>

(* The packet of Tx!LinePacket: line c of the packet carries row c.          *)
OnTheWireMutant(t) ==
  UdpPacket(line[t], [frame |-> rgb_frame[Stream], row |-> line[t]],
            line[t] = 1)
OnTheWire(t) ==
  LET packet == Tx!LinePacket(t)
  IN  UdpPacket(packet.line,
                [frame |-> packet.frame, row |-> packet.row], packet.marker)

(* sendto succeeds, fails for want of a socket, or gives 0.  (When it fails  *)
(* with a socket the packet is one that the network never brings.)           *)
SendLine(t) ==
  /\ \/ /\ Tx!SendLine(t)
        /\ \/ /\ tx_open[Stream]
              /\ wire' = Append(wire, OnTheWire(t))
              /\ UNCHANGED intact
           \/ ~tx_open[Stream] /\ UNCHANGED wire /\ intact' = FALSE
     \/ Tx!SendNothing(t) /\ UNCHANGED wire /\ intact' = FALSE
  /\ UNCHANGED <<vars, seen, newest, ordered>>

(* The network brings packet i, for the first time or again.                 *)
Deliver(i) ==
  /\ Arrive(wire[i])
  /\ newest' = IF i > newest THEN i ELSE newest
  /\ ordered' = (ordered /\ i > newest)
  /\ intact' = (intact /\ i = newest + 1)
  /\ UNCHANGED <<tx, wire, seen>>

(* The receiver never polls.  Entering the callback shows the buffer; Open   *)
(* and Close discard what the old socket holds.                              *)
Receiver ==
  /\ \/ SetStreamInfo
     \/ Open
     \/ Close
     \/ pc = "none" /\ Start
     \/ Stop
     \/ RegisterCallback(TRUE)
     \/ StopReturns
     \/ ThreadStarts \/ LoopTop \/ CheckRunning \/ RecvFails
     \/ RecvPacket \/ Publish \/ TestCallback \/ CallbackEnds
  /\ ~aborted'
  /\ \/ /\ pc' = "callback" /\ pc # "callback"
        /\ shown' = buffer[Height].frame
        /\ picture' = buffer
     \/ /\ pc' # "callback" \/ pc = "callback"
        /\ UNCHANGED seen
  /\ intact' = (intact /\ (Len(socket') < Len(socket) => pc' # pc))
  /\ UNCHANGED <<tx, wire, newest, ordered>>

StreamNext ==
  \/ Transmitter
  \/ \E t \in FrameNumbers : SendLine(t)
  \/ \E i \in 1 .. Len(wire) : Deliver(i)
  \/ Receiver

(* The receiver's thread runs. *)
StreamFairness == WF_vars(ReceiveThread)

StreamSpec == StreamInit /\ [][StreamNext]_everything
FairStreamSpec == StreamSpec /\ StreamFairness
-----------------------------------------------------------------------------
Channel == INSTANCE FrameChannel WITH sent <- Len(passed[Stream])

(* The stream keeps the channel's promise across lost, repeated and          *)
(* reordered packets and restarts of the receiver: what it shows was sent,   *)
(* and while packets arrive in order frames are shown in order, none twice,  *)
(* and no row goes back in time.                                             *)
ImplementsChannel == Channel!ChannelSpec

(* As long as every packet arrives, once and in order, a picture shows one   *)
(* whole frame, each row of it one place too high and the last row with what *)
(* lies behind the frame.                                                    *)
WholeFrameWithoutLoss ==
  intact /\ shown > 0 =>
    \A r \in Rows : picture[r] = [frame |-> shown, row |-> r]

Listening == /\ state = "kStarted" /\ callback_registered /\ socket_open
             /\ rx_thread_running

(* A frame whose last line reached the socket of a receiver that goes on     *)
(* listening is shown to its callback.                                       *)
QueuedFrameIsShown ==
  \A f \in FrameNumbers :
    (/\ Listening
     /\ \E i \in 1 .. Len(socket) :
          socket[i].lines[1].pixels.frame = f /\ socket[i].marker)
      ~> (shown = f \/ ~Listening)
=============================================================================
