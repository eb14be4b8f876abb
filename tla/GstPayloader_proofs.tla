------------------------- MODULE GstPayloader_proofs -------------------------
(***************************************************************************)
(* Theorems about the GStreamer senders, for every set of classes, missing *)
(* elements and picture sizes, and every number of pictures and runs.      *)
(***************************************************************************)
EXTENDS GstPayloader, TLAPS

(* The flags of each class are Boolean.                                      *)
LEMMA SenderFlags ==
  \A name \in Classes : /\ Senders[name].copies \in BOOLEAN
                        /\ Senders[name].started \in BOOLEAN
                        /\ Senders[name].linkable \in BOOLEAN
<1> DEFINE Flags(s) == /\ s.copies \in BOOLEAN /\ s.started \in BOOLEAN
                       /\ s.linkable \in BOOLEAN
<1>1. ASSUME NEW elements, NEW tested PROVE Flags(Sender(elements, tested))
  BY DEF Sender
<1>2. ASSUME NEW encoder PROVE Flags(H264Sender(encoder))
  BY <1>1 DEF H264Sender
<1>3. Flags(OpenH264) /\ Flags(VaapiH264) /\ Flags(X264H264) /\ Flags(OmxH264)
  BY <1>2 DEF OpenH264, VaapiH264, X264H264, OmxH264
<1>4. Flags(Av1) /\ Flags(Jpeg) /\ Flags(VaapiJpeg) /\ Flags(H265)
  BY <1>1 DEF Av1, Jpeg, VaapiJpeg, H265
<1>5. Flags(VaapiH265)
  BY <1>1 DEF VaapiH265
<1>6. Flags(NvidiaH264)
  BY DEF NvidiaH264, Sender
<1> HIDE DEF Flags
<1>7. \A name \in Classes : Flags(Senders[name])
  BY <1>3, <1>4, <1>5, <1>6, ClassesAssumption DEF ClassesAssumption, Senders
<1>. QED BY <1>7 DEF Flags
-----------------------------------------------------------------------------
LEMMA EmptyQueue == <<>> \in Seq(Frame)
OBVIOUS

(* What the calls leave of the queue: all of it, or nothing.                 *)
LEMMA FlushedQueue ==
  ASSUME TypeOK PROVE Flushed \in {queue, <<>>} /\ Flushed \in Seq(Frame)
BY EmptyQueue DEF Flushed, TypeOK

(* The variables of a sender keep their types under every call and frame.    *)
THEOREM TypeCorrect == Spec => []TypeOK
<1> USE GstPayloaderAssumption DEF GstPayloaderAssumption
<1>1. Init => TypeOK
  <2> SUFFICES ASSUME Init PROVE TypeOK
    OBVIOUS
  <2>1. queue \in Seq(Frame) /\ sent \in [shows : Pictures, meant : Pictures]
    BY EmptyQueue DEF Init, Pictures
  <2>2. {port, caps} \subseteq Pixels \cup {0} /\ memory \in Pictures
    BY DEF Init, Pictures
  <2>3. run \in 0 .. MaxRuns
    BY DEF Init
  <2>. QED BY <2>1, <2>2, <2>3, Zenon DEF Init, TypeOK
<1>2. TypeOK /\ [Next]_vars => TypeOK'
  <2> SUFFICES ASSUME TypeOK, [Next]_vars PROVE TypeOK'
    OBVIOUS
  <2> USE DEF TypeOK, environment, lifecycle
  <2>1. CASE \E pixels \in Pixels : SetStreamInfo(pixels)
    BY <2>1 DEF SetStreamInfo
  <2>2. CASE Open
    <3>1. opened' \in BOOLEAN /\ abandoned' \in BOOLEAN
      BY <2>2, Zenon DEF Open
    <3>2. linked' \in BOOLEAN
      BY <2>2, SenderFlags, Zenon DEF Open, Class
    <3>. QED BY <2>2, <3>1, <3>2 DEF Open
  <2>3. CASE Start
    <3>1. started' \in BOOLEAN
      BY <2>3, SenderFlags, Zenon DEF Start, Class
    <3>3. misused' \in BOOLEAN
      <4>1. CASE pipeline \in {"unset", "freed"}
        BY <2>3, <4>1 DEF Start
      <4>2. CASE pipeline \notin {"unset", "freed"}
        BY <2>3, <4>2 DEF Start
      <4>. QED BY <4>1, <4>2
    <3>2. run' \in 0 .. MaxRuns
      BY <2>3 DEF Start
    <3>. QED BY <2>3, <3>1, <3>2, <3>3 DEF Start
  <2>4. CASE Stop \/ Close
    <3>1. queue' \in Seq(Frame)
      BY <2>4, FlushedQueue DEF Stop, Close
    <3>2. started' = FALSE
      BY <2>4, Zenon DEF Stop, Close, Stopped
    <3>3. misused' \in BOOLEAN
      <4>1. misused' = (pipeline \in {"unset", "freed"})
        BY <2>4, Zenon DEF Stop, Close
      <4> HIDE DEF TypeOK
      <4>2. CASE pipeline \in {"unset", "freed"}
        BY <4>1, <4>2
      <4>3. CASE pipeline \notin {"unset", "freed"}
        BY <4>1, <4>3
      <4>. QED BY <4>2, <4>3
    <3>. QED BY <2>4, <3>1, <3>2, <3>3 DEF Stop, Close
  <2>5. CASE CloseReturns
    BY <2>5 DEF CloseReturns
  <2>6. CASE Draw
    BY <2>6 DEF Draw, Pictures
  <2>7. CASE Transmit
    <3>1. result' \in {"none", "accepted", "refused"}
      BY <2>7 DEF Transmit
    <3>2. misused' \in BOOLEAN
      BY <2>7, Zenon DEF Transmit
    <3>3. queue' \in Seq(Frame)
      <4> DEFINE frame == [picture |-> memory, copied |-> Copies,
                           fits |-> port = caps, run |-> run]
      <4>1. Copies \in BOOLEAN /\ (port = caps) \in BOOLEAN
        BY SenderFlags, Zenon DEF Copies, Class
      <4>2. frame \in Frame
        BY <4>1 DEF Frame
      <4>3. queue' = Append(queue, frame) \/ queue' = queue
        BY <2>7 DEF Transmit
      <4> HIDE DEF frame
      <4>. QED BY <4>2, <4>3
    <3>. QED BY <2>7, <3>1, <3>2, <3>3 DEF Transmit
  <2>8. CASE Encode
    <3>1. Head(queue) \in Frame /\ Tail(queue) \in Seq(Frame)
      BY <2>8 DEF Encode
    <3>2. sent' \in [shows : Pictures, meant : Pictures]
      BY <2>8, <3>1 DEF Encode, Frame
    <3>. QED BY <2>8, <3>1, <3>2 DEF Encode
  <2>9. CASE UNCHANGED vars
    BY <2>9 DEF vars
  <2>. QED BY <2>1, <2>2, <2>3, <2>4, <2>5, <2>6, <2>7, <2>8, <2>9
           DEF Next, Client
<1>. QED BY <1>1, <1>2, PTL DEF Spec
-----------------------------------------------------------------------------
(* The flag started_ is up only over a playing pipeline, and Close() has     *)
(* taken it down before it waits.                                            *)
StartedInv ==
  /\ started /\ ~abandoned => pipeline = "playing"
  /\ api = "closing" => ~started /\ pipeline = "null" /\ result = "none"

(* A pipeline that does not play has nothing queued, and a class that copies *)
(* the caller's frame has done so for every frame queued.                    *)
QueueInv ==
  /\ ~abandoned /\ pipeline # "playing" => queue = <<>>
  /\ Class.copies => \A i \in DOMAIN queue : queue[i].copied

SenderInv == StartedInv /\ QueueInv /\ TransmitSound

(* What Transmit() accepts is accepted by a playing pipeline and sent as it  *)
(* was, in the run it was meant for, over all orders of calls.               *)
THEOREM AcceptedFramesSound == Spec => []TransmitSound
<1> USE DEF SenderInv, StartedInv, QueueInv, TransmitSound,
            AcceptedWhilePlaying, SentAsTransmitted, RunsDoNotMix
<1>1. Init => SenderInv
  BY DEF Init
<1>2. TypeOK /\ SenderInv /\ [Next]_vars => SenderInv'
  <2> SUFFICES ASSUME TypeOK, SenderInv, [Next]_vars PROVE SenderInv'
    OBVIOUS
  <2> USE DEF environment, lifecycle
  <2>1. CASE (\E pixels \in Pixels : SetStreamInfo(pixels)) \/ Draw
    BY <2>1 DEF SetStreamInfo, Draw, Class
  <2>2. CASE Open
    BY <2>2 DEF Open, Class
  <2>3. CASE Start
    BY <2>3 DEF Start, Class
  <2>4. CASE Stop \/ Close
    BY <2>4 DEF Stop, Close, Stopped, Flushed, Class
  <2>5. CASE CloseReturns
    BY <2>5 DEF CloseReturns, Class
  <2>6. CASE Transmit
    <3> DEFINE frame == [picture |-> memory, copied |-> Copies,
                         fits |-> port = caps, run |-> run]
    <3>1. UNCHANGED <<environment, lifecycle, started, sent, run, api>>
      BY <2>6 DEF Transmit
    <3>2. result' = "accepted" /\ ~abandoned => pipeline = "playing"
      BY <2>6 DEF Transmit, Takes
    <3>3. api = "idle"
      BY <2>6 DEF Transmit
    <3>4. \/ queue' = queue
          \/ queue' = Append(queue, frame) /\ pipeline = "playing"
      BY <2>6 DEF Transmit, Takes
    <3>5. CASE queue' = queue
      BY <3>1, <3>2, <3>3, <3>5 DEF Class
    <3>6. CASE queue' = Append(queue, frame) /\ pipeline = "playing"
      <4>1. frame.copied = Class.copies /\ frame.run = run
        BY DEF Copies
      <4> HIDE DEF frame
      <4>2. \A i \in DOMAIN queue' : queue'[i] = frame
                                     \/ (i \in DOMAIN queue /\ queue'[i] = queue[i])
        BY <3>6 DEF TypeOK
      <4>. QED BY <3>1, <3>2, <3>3, <3>6, <4>1, <4>2 DEF Class
    <3>. QED BY <3>4, <3>5, <3>6
  <2>7. CASE Encode
    <3>1. queue # <<>> /\ queue' = Tail(queue)
      BY <2>7 DEF Encode
    <3>2. UNCHANGED <<environment, lifecycle, started, run, api, result>>
      BY <2>7 DEF Encode
    <3>3. \A i \in DOMAIN queue' :
            i + 1 \in DOMAIN queue /\ queue'[i] = queue[i + 1]
      BY <3>1 DEF TypeOK
    <3>4. Class.copies => Head(queue).copied
      BY <3>1 DEF TypeOK
    <3>5. SentAsTransmitted'
      BY <2>7, <3>2, <3>4 DEF Encode, Class
    <3>6. abandoned \/ pipeline = "playing"
      BY <2>7 DEF Encode
    <3>. QED BY <3>2, <3>3, <3>5, <3>6 DEF Class
  <2>8. CASE UNCHANGED vars
    BY <2>8 DEF vars, Class
  <2>. QED BY <2>1, <2>2, <2>3, <2>4, <2>5, <2>6, <2>7, <2>8 DEF Next, Client
<1>. QED BY <1>1, <1>2, TypeCorrect, PTL DEF Spec
=============================================================================
