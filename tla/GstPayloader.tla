---------------------------- MODULE GstPayloader ----------------------------
(***************************************************************************)
(* The GStreamer senders (src/src/{h264,h265,av1,jpeg}/gst).  Open()       *)
(* builds a pipeline from an appsrc to a udpsink, Transmit() pushes a      *)
(* frame into the appsrc's queue and returns, and GStreamer's own threads  *)
(* encode and send what is queued.  One client uses one sender, of the     *)
(* class `sender`, on a machine that lacks the elements in `missing`.      *)
(*                                                                         *)
(* The classes are written out by hand; what tells them apart is a record  *)
(* each:                                                                   *)
(*   elements, tested   what Open() makes and links, and what it tests for *)
(*                      nullptr; a missing element ends the links;         *)
(*   linkable           the caps between them agree;                       *)
(*   started            the class has the flag started_, which Transmit()  *)
(*                      tests;                                             *)
(*   copies             Transmit() copies the caller's frame rather than   *)
(*                      wrapping the caller's memory;                      *)
(*   drains             Close() waits for a message of the stopped         *)
(*                      pipeline, whose bus was flushed by the stop.       *)
(***************************************************************************)
EXTENDS Integers, Sequences

CONSTANTS
  Classes,     \* the senders looked at, a subset of DOMAIN Senders
  Missing,     \* sets of elements that may not be installed
  Pixels,      \* picture sizes SetStreamInfo() may be given
  MaxFrames,   \* bound on the pictures the client draws
  MaxRuns      \* bound on the times a pipeline starts to play

ASSUME GstPayloaderAssumption ==
  /\ MaxFrames \in Nat \ {0}
  /\ MaxRuns \in Nat \ {0}
  /\ Pixels \subseteq Nat \ {0}

Raw == <<"appsrc", "capsfilter", "videoconvert">>
Sender(elements, tested) ==
  [elements |-> elements, tested |-> tested, linkable |-> TRUE,
   started |-> TRUE, copies |-> TRUE, drains |-> FALSE]
H264Sender(encoder) ==
  Sender(Raw \o <<encoder, "rtph264pay", "udpsink">>,
         {"videoconvert", encoder, "rtph264pay", "udpsink"})

OpenH264 == H264Sender("openh264enc")
VaapiH264 == H264Sender("vaapih264enc")
X264H264 == H264Sender("x264enc")
OmxH264 == H264Sender("avenc_h264_omx")
Av1 == Sender(Raw \o <<"av1enc", "av1parse", "rtpav1pay", "udpsink">>,
              {"av1enc", "av1parse", "rtpav1pay"})
Jpeg == Sender(Raw \o <<"capsfilter2", "jpegenc", "rtpjpegpay", "udpsink">>, {})
VaapiJpeg == Sender(Raw \o <<"vaapijpegenc", "rtpjpegpay", "udpsink">>, {})
H265 == Sender(Raw \o <<"x265enc", "rtph265pay", "udpsink">>, {})
VaapiH265Mutant ==
  Sender(Raw \o <<"vaapih265enc", "rtph265pay", "udpsink">>,
         {"appsrc", "capsfilter", "videoconvert", "rtph265pay", "udpsink"})
VaapiH265 == Sender(Raw \o <<"vaapih265enc", "rtph265pay", "udpsink">>,
                    {"appsrc", "capsfilter", "videoconvert", "vaapih265enc",
                     "rtph265pay", "udpsink"})
(* The capsfilter in front of the encoder asks for H.264, its output.        *)
NvidiaH264 ==
  [Sender(<<"appsrc", "capsfilter", "nvh264enc", "rtph264pay", "udpsink">>, {})
     EXCEPT !.linkable = FALSE, !.started = FALSE, !.copies = FALSE,
            !.drains = TRUE]

Senders == [openh264 |-> OpenH264, vaapih264 |-> VaapiH264,
            x264h264 |-> X264H264, omxh264 |-> OmxH264, av1 |-> Av1,
            jpeg |-> Jpeg, vaapijpeg |-> VaapiJpeg, h265 |-> H265,
            vaapih265 |-> VaapiH265, nvidiah264 |-> NvidiaH264]

ASSUME ClassesAssumption == Classes \subseteq DOMAIN Senders

VARIABLES
  sender,     \* which class
  missing,    \* what is not installed
  port,       \* the picture size in GetEgressPort(), 0 before SetStreamInfo
  caps,       \* the picture size the open pipeline was told
  started,    \* started_
  pipeline,   \* what pipeline_ points to
  linked,     \* its elements are all there and linked
  opened,     \* Open() came to its end: the elements are in the pipeline
  abandoned,  \* history: pipeline_ was overwritten while it played
  misused,    \* GStreamer was handed a pointer that is no live pipeline
  queue,      \* frames pushed and not yet sent
  memory,     \* the picture in the client's frame memory
  sent,       \* the frame sent last: the picture it shows, and the one that
              \* was to be transmitted
  run,        \* history: the times a pipeline began to play
  api,        \* the client: idle or in Close()
  result      \* history: what the last Transmit returned, "none" otherwise

environment == <<sender, missing>>
lifecycle == <<caps, pipeline, linked, opened, abandoned>>
vars == <<environment, port, lifecycle, started, misused, queue, memory, sent,
          run, api, result>>

Class == Senders[sender]
Pictures == 0 .. MaxFrames
Frame == [picture : Pictures, copied : BOOLEAN, fits : BOOLEAN,
          run : 0 .. MaxRuns]
Elements == {Class.elements[i] : i \in DOMAIN Class.elements}

TypeOK ==
  /\ sender \in Classes
  /\ missing \in Missing
  /\ {port, caps} \subseteq Pixels \cup {0}
  /\ {started, linked, opened, abandoned, misused} \subseteq BOOLEAN
  /\ pipeline \in {"unset", "null", "playing", "freed"}
  /\ queue \in Seq(Frame)
  /\ memory \in Pictures
  /\ sent \in [shows : Pictures, meant : Pictures]
  /\ run \in 0 .. MaxRuns
  /\ api \in {"idle", "closing"}
  /\ result \in {"none", "accepted", "refused"}

Init ==
  /\ sender \in Classes
  /\ missing \in Missing
  /\ port = 0
  /\ caps = 0
  /\ started = FALSE
  /\ pipeline = "unset"
  /\ linked = FALSE
  /\ opened = FALSE
  /\ abandoned = FALSE
  /\ misused = FALSE
  /\ queue = <<>>
  /\ memory = 0
  /\ sent = [shows |-> 0, meant |-> 0]
  /\ run = 0
  /\ api = "idle"
  /\ result = "none"
-----------------------------------------------------------------------------
SetStreamInfo(pixels) ==
  /\ api = "idle"
  /\ port' = pixels
  /\ result' = "none"
  /\ UNCHANGED <<environment, lifecycle, started, misused, queue, memory, sent,
                 run, api>>

(* A missing element that is tested for makes Open() return false, with the  *)
(* pipeline made.  Neither started_ nor the old pipeline is looked at.       *)
Open ==
  /\ api = "idle"
  /\ pipeline' = "null"
  /\ opened' = (missing \cap Class.tested = {})
  /\ linked' = (Class.linkable /\ missing \cap Elements = {})
  /\ caps' = port
  /\ abandoned' = (abandoned \/ pipeline = "playing")
  /\ result' = "none"
  /\ UNCHANGED <<environment, port, started, misused, queue, memory, sent, run,
                 api>>

Start ==
  /\ api = "idle"
  /\ pipeline # "playing" => run < MaxRuns
  /\ run' = IF pipeline = "playing" THEN run ELSE run + 1
  /\ started' = Class.started
  /\ misused' = (pipeline \in {"unset", "freed"})
  /\ pipeline' = "playing"
  /\ result' = "none"
  /\ UNCHANGED <<environment, port, caps, linked, opened, abandoned, queue,
                 memory, sent, api>>

Stopped == FALSE

FlushedMutant == queue
Flushed == IF abandoned THEN queue ELSE <<>>

(* Going to NULL waits for GStreamer's threads and empties the appsrc.       *)
Stop ==
  /\ api = "idle"
  /\ started' = Stopped
  /\ misused' = (pipeline \in {"unset", "freed"})
  /\ pipeline' = "null"
  /\ queue' = Flushed
  /\ result' = "none"
  /\ UNCHANGED <<environment, port, caps, linked, opened, abandoned, memory,
                 sent, run, api>>

Drains == Class.drains

(* Close() is Stop() and the release of the pipeline; with Drains it stays   *)
(* in the wait between the two.                                              *)
Close ==
  /\ api = "idle"
  /\ started' = Stopped
  /\ misused' = (pipeline \in {"unset", "freed"})
  /\ queue' = Flushed
  /\ api' = "closing"
  /\ pipeline' = "null"
  /\ result' = "none"
  /\ UNCHANGED <<environment, port, caps, linked, opened, abandoned, memory,
                 sent, run>>

CloseReturns ==
  /\ api = "closing"
  /\ ~Drains
  /\ pipeline' = "freed"
  /\ api' = "idle"
  /\ UNCHANGED <<environment, port, caps, started, linked, opened, abandoned,
                 misused, queue, memory, sent, run, result>>

(* The client draws the next picture into its frame memory.                  *)
Draw ==
  /\ api = "idle"
  /\ memory < MaxFrames
  /\ memory' = memory + 1
  /\ result' = "none"
  /\ UNCHANGED <<environment, port, lifecycle, started, misused, queue, sent,
                 run, api>>

Copies == Class.copies

(* The push finds no appsrc in a pipeline whose Open() failed, and one that  *)
(* does not play drops the buffer.                                           *)
Takes ==
  /\ pipeline = "playing"
  /\ opened
  /\ "appsrc" \notin missing

(* Transmit() answers 0 whether or not the push succeeded (nvidiah264 hands  *)
(* on the result of the push).  The client transmits a picture once more     *)
(* when it was sent.                                                         *)
Transmit ==
  /\ api = "idle"
  /\ memory > 0
  /\ \A i \in DOMAIN queue : queue[i].picture # memory
  /\ misused' = (~Class.started /\ pipeline \in {"unset", "freed"})
  /\ result' = IF IF Class.started THEN started ELSE Takes
               THEN "accepted" ELSE "refused"
  /\ queue' = IF result' = "accepted" /\ Takes
              THEN Append(queue, [picture |-> memory, copied |-> Copies,
                                  fits |-> port = caps, run |-> run])
              ELSE queue
  /\ UNCHANGED <<environment, port, lifecycle, started, memory, sent, run, api>>

(* GStreamer's threads take the frame at the head of the queue.  One whose   *)
(* size is not that of the caps is not encoded.                              *)
Encode ==
  /\ queue # <<>>
  /\ abandoned \/ (pipeline = "playing" /\ linked)
  /\ queue' = Tail(queue)
  /\ sent' = IF ~Head(queue).fits THEN sent
             ELSE [meant |-> Head(queue).picture,
                   shows |-> IF Head(queue).copied THEN Head(queue).picture
                             ELSE memory]
  /\ UNCHANGED <<environment, port, lifecycle, started, misused, memory, run,
                 api, result>>

Client ==
  \/ \E pixels \in Pixels : SetStreamInfo(pixels)
  \/ Open \/ Start \/ Stop \/ Close \/ Draw \/ Transmit

Next == ~misused /\ (Client \/ CloseReturns \/ Encode)

(* GStreamer's threads run, and a call of the client's that can go on does.  *)
Fairness ==
  /\ WF_vars(~misused /\ CloseReturns)
  /\ WF_vars(~misused /\ Encode)

Spec == Init /\ [][Next]_vars
FairSpec == Spec /\ Fairness
-----------------------------------------------------------------------------
(* Transmit() answers 0 only when a playing pipeline was there to take the   *)
(* frame: started_ and the pipeline agree over every order of calls, short   *)
(* of a second Open() of a stream that plays.                                *)
AcceptedWhilePlaying ==
  result = "accepted" /\ ~abandoned => pipeline = "playing"

(* A frame on the air shows the picture that was in the caller's memory when *)
(* it was transmitted, though the caller has drawn over it since.            *)
SentAsTransmitted == Class.copies => sent.shows = sent.meant

(* No frame accepted before a Stop() is sent after the next Start().         *)
RunsDoNotMix ==
  ~abandoned => \A i \in DOMAIN queue : queue[i].run = run

(* What is accepted is accepted for the pipeline that plays, and goes out as *)
(* it was, in the run it was meant for.                                      *)
TransmitSound == AcceptedWhilePlaying /\ SentAsTransmitted /\ RunsDoNotMix

(* A frame accepted by a pipeline that Open() called whole is taken by the   *)
(* encoder, unless the stream is stopped; "whole" can be believed of the one *)
(* sender that tests each element it makes.                                  *)
Waiting(picture) ==
  /\ sender = "vaapih265" /\ opened /\ ~abandoned /\ ~misused
  /\ \E i \in DOMAIN queue : queue[i].picture = picture
AcceptedIsEncoded == \A picture \in Pictures : Waiting(picture) ~> ~Waiting(picture)

(* Close() returns, except where it waits for a message that the stop before *)
(* it has thrown away.                                                       *)
CloseEnds == api = "closing" /\ ~Class.drains ~> api = "idle" \/ misused

(* Frames are encoded and Close() comes back.                                *)
CallsTakeEffect == AcceptedIsEncoded /\ CloseEnds
=============================================================================
