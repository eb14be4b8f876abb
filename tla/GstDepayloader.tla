--------------------------- MODULE GstDepayloader ---------------------------
(***************************************************************************)
(* The GStreamer receivers (src/src/{h264,h265,av1,jpeg}/gst).  Open()     *)
(* builds a pipeline whose last element, an appsink, calls                 *)
(* NewFrameCallback() for each decoded picture, on a streaming thread of   *)
(* GStreamer's: it resizes the frame buffer, sets encoding, height and     *)
(* width, copies the picture, sets new_rx_frame_ and calls the client      *)
(* back.  The client's thread meanwhile sits in Receive(), or stops the    *)
(* stream.  Nothing is locked or atomic, so each read or write of what the *)
(* other thread uses is a step.                                            *)
(*                                                                         *)
(* One client uses one receiver, of the class `receiver`, on a machine     *)
(* that lacks the elements in `missing`.  Setting a pipeline to NULL waits *)
(* for the streaming thread to leave the callback.                         *)
(***************************************************************************)
EXTENDS GstReceivers

CONSTANTS
  Classes,   \* the receivers looked at, a subset of DOMAIN Receivers
  Missing,   \* sets of elements that may not be installed
  Sizes      \* the picture sizes the sender may use

NoSize == [height |-> 0, width |-> 0]

ASSUME GstDepayloaderAssumption ==
  /\ Classes \subseteq DOMAIN Receivers
  /\ Sizes \subseteq [height : Nat \ {0}, width : Nat \ {0}]

VARIABLES
  receiver,       \* which class
  missing,        \* the elements it uses that are not installed
  announced,      \* the size of the last SetStreamInfo, NoSize before it
  stream,         \* ingress_: encoding, height and width, as the getters
                  \* return them
  state,          \* the base class's state_
  pipeline,       \* what pipeline_ points to
  linked,         \* its elements are all there and linked
  abandoned,      \* history: pipeline_ was overwritten while it played
  misused,        \* GStreamer was handed a pointer that is no live pipeline
  new_rx_frame,   \* new_rx_frame_
  callback,       \* a callback is registered
  buffer,         \* buffer_in_: storage (by its capacity, 0 is nullptr) and
                  \* size in bytes, the picture copied last, and how a
                  \* timeout blanked it since
  pc,             \* the streaming thread in NewFrameCallback
  sample,         \* the picture it holds: height, width and format
  api,            \* the client's thread: idle or where it is in a call
  timed,          \* the timeout of its Receive is positive
  data,           \* the caller's RtpFrameData, until Receive returns
  arrived,        \* history: a frame was flagged since the last Start
  overtaken       \* history: since Receive saw the flag the streaming thread
                  \* has described another picture

environment == <<receiver, missing>>
lifecycle == <<state, pipeline, linked, abandoned, misused>>
streaming == <<buffer, pc, sample>>
vars == <<environment, announced, stream, lifecycle, new_rx_frame, callback,
          streaming, api, timed, data, arrived, overtaken>>

Class == Receivers[receiver]
Calls == Class.calls
Elements == {Class.pipeline.elements[i] : i \in DOMAIN Class.pipeline.elements}
Lacking == {elements \cap Elements : elements \in Missing}
StreamState == {"kClosed", "kOpen", "kStarted", "kStopped"}
NoData == [encoding |-> "Undefined", height |-> 0, width |-> 0, storage |-> 0]
(* The streaming thread writes a description; Receive() reads one.           *)
Describing == {"coloured", "tall", "described"}
Reading == {"height", "width", "encoding"}

TypeOK ==
  /\ receiver \in Classes
  /\ missing \subseteq UNION Missing
  /\ announced \in Sizes \cup {NoSize}
  /\ stream \in [encoding : Encodings, height : Nat, width : Nat]
  /\ state \in StreamState
  /\ pipeline \in {"unset", "null", "playing", "freed"}
  /\ \A flag \in {linked, abandoned, misused, new_rx_frame, callback,
                  timed, arrived, overtaken} : flag \in BOOLEAN
  /\ buffer \in [storage : Nat, size : Nat, height : Nat, width : Nat,
                 encoding : Encodings, blank : {"no", "quietly", "racing"}]
  /\ pc \in {"idle", "resized", "copied", "flagged", "calling"}
            \cup Describing
  /\ sample \in [height : Nat, width : Nat, format : Formats] \cup {<<>>}
  /\ api \in {"idle", "pointer", "waiting", "looking", "taking", "stopping",
              "closing", "gone"} \cup Reading
  /\ data \in [encoding : Encodings, height : Nat, width : Nat, storage : Nat]

Init ==
  /\ receiver \in Classes
  /\ missing \in Lacking
  /\ announced = NoSize
  /\ stream = [encoding |-> Class.stream.encoding, height |-> 0, width |-> 0]
  /\ state = "kClosed"
  /\ pipeline = "unset"
  /\ linked = FALSE
  /\ abandoned = FALSE
  /\ misused = FALSE
  /\ new_rx_frame = FALSE
  /\ callback = FALSE
  /\ buffer = [storage |-> 0, size |-> 0, height |-> 0, width |-> 0,
               encoding |-> "Undefined", blank |-> "no"]
  /\ pc = "idle"
  /\ sample = <<>>
  /\ api = "idle"
  /\ timed = FALSE
  /\ data = NoData
  /\ arrived = FALSE
  /\ overtaken = FALSE
-----------------------------------------------------------------------------
(* The client.                                                              *)

(* std::vector::resize() moves the bytes when they outgrow the storage.      *)
Resized(bytes) == [buffer EXCEPT !.size = bytes,
                     !.storage = IF bytes > @ THEN bytes ELSE @]

ReservedBytes(size) ==
  (size.height * size.width * Class.stream.reserves) \div 8

Reserved(size) ==
  IF Class.stream.reserves = 0 THEN buffer ELSE Resized(ReservedBytes(size))

(* Clients describe a stream, and register a callback, before they play it.  *)
SetStreamInfo(size, encoding) ==
  /\ api = "idle"
  /\ pipeline # "playing" /\ ~abandoned
  /\ announced' = size
  /\ stream' = [encoding |-> encoding, height |-> size.height,
                width |-> size.width]
  /\ buffer' = Reserved(size)
  /\ UNCHANGED <<environment, lifecycle, new_rx_frame, callback, pc, sample,
                 api, timed, data, arrived, overtaken>>

RegisterCallback ==
  /\ api = "idle" /\ pipeline = "unset"
  /\ callback' = TRUE
  /\ UNCHANGED <<environment, announced, stream, lifecycle, new_rx_frame,
                 streaming, api, timed, data, arrived, overtaken>>

Enter(s) == state' = IF Calls.keepsState THEN s ELSE state

(* A missing element that is tested for makes Open() return false, with the  *)
(* pipeline made and the state already open.  What pipeline_ pointed to is   *)
(* forgotten.                                                                *)
Open ==
  /\ api = "idle"
  /\ Class.stream.insists => announced # NoSize
  /\ Enter("kOpen")
  /\ pipeline' = "null"
  /\ linked' = (missing = {})
  /\ abandoned' = (abandoned \/ pipeline = "playing")
  /\ UNCHANGED <<environment, announced, stream, misused, new_rx_frame,
                 callback, streaming, api, timed, data, arrived, overtaken>>

StartRefused == state \in {"kClosed", "kStarted"}

Start ==
  /\ api = "idle"
  /\ Calls.guarded => ~StartRefused
  /\ Enter("kStarted")
  /\ misused' = (pipeline \in {"unset", "freed"})
  /\ pipeline' = IF misused' THEN pipeline ELSE "playing"
  /\ arrived' = FALSE
  /\ UNCHANGED <<environment, announced, stream, linked, abandoned,
                 new_rx_frame, callback, streaming, api, timed, data,
                 overtaken>>

(* Stop(), and the Stop() within Close() of a started stream: the state      *)
(* first, then the pipeline.                                                 *)
BeginStop(call) ==
  /\ api = "idle"
  /\ IF Calls.guarded THEN state = "kStarted" ELSE call = "stopping"
  /\ Enter("kStopped")
  /\ misused' = (pipeline \in {"unset", "freed"})
  /\ api' = IF misused' THEN "idle" ELSE call
  /\ UNCHANGED <<environment, announced, stream, pipeline, linked,
                 abandoned, new_rx_frame, callback, streaming, timed, data,
                 arrived, overtaken>>

StopWaits == pc # "idle"

FlagAfterStopMutant == new_rx_frame
FlagAfterStop == new_rx_frame /\ ~Calls.clears

(* The pipeline has reached NULL; only then is the flag reset.               *)
StopReturns ==
  /\ api \in {"stopping", "closing"}
  /\ ~StopWaits
  /\ pipeline' = IF api = "closing" THEN "freed" ELSE "null"
  /\ new_rx_frame' = FlagAfterStop
  /\ state' = IF api = "closing" THEN "kClosed" ELSE state
  /\ api' = "idle"
  /\ UNCHANGED <<environment, announced, stream, linked, abandoned,
                 misused, callback, streaming, timed, data, arrived,
                 overtaken>>

(* Close() of a stream that does not run.  Releasing a pipeline that is not  *)
(* in state NULL is a misuse.                                                *)
Close ==
  /\ api = "idle"
  /\ Calls.guarded => state = "kStopped" \/ (Calls.frees /\ state = "kOpen")
  /\ Enter("kClosed")
  /\ misused' = (pipeline # "null")
  /\ pipeline' = "freed"
  /\ UNCHANGED <<environment, announced, stream, linked, abandoned,
                 new_rx_frame, callback, streaming, api, timed, data, arrived,
                 overtaken>>

(* The destructors are empty.                                                *)
Destroy ==
  /\ api = "idle"
  /\ api' = "gone"
  /\ abandoned' = (abandoned \/ pipeline = "playing")
  /\ UNCHANGED <<environment, announced, stream, state, pipeline, linked,
                 misused, new_rx_frame, callback, streaming, timed,
                 data, arrived, overtaken>>

(* Receive() reads height, width, encoding and the buffer's address one by   *)
(* one before its loop, or only the address when it reads the others late.   *)
Receive(positive) ==
  /\ api = "idle"
  /\ timed' = positive
  /\ api' = IF Calls.late THEN "pointer" ELSE "height"
  /\ UNCHANGED <<environment, announced, stream, lifecycle, new_rx_frame,
                 callback, streaming, data, arrived, overtaken>>

DescribedMutant == data
Described == [data EXCEPT ![api] = stream[api]]

ReadDescription ==
  /\ api \in Reading
  /\ data' = Described
  /\ api' = CASE api = "height" -> "width"
              [] api = "width"  -> "encoding"
              [] OTHER          -> IF Calls.late THEN "taking" ELSE "pointer"
  /\ UNCHANGED <<environment, announced, stream, lifecycle, new_rx_frame,
                 callback, streaming, timed, arrived, overtaken>>

ReadPointer ==
  /\ api = "pointer"
  /\ data' = [data EXCEPT !.storage = buffer.storage]
  /\ api' = "waiting"
  /\ UNCHANGED <<environment, announced, stream, lifecycle, new_rx_frame,
                 callback, streaming, timed, arrived, overtaken>>

WaitLooks ==
  /\ api = "waiting" /\ ~new_rx_frame
  /\ api' = "looking"
  /\ UNCHANGED <<environment, announced, stream, lifecycle, new_rx_frame,
                 callback, streaming, timed, data, arrived, overtaken>>

WaitSleeps ==
  /\ api = "looking"
  /\ api' = "waiting"
  /\ UNCHANGED <<environment, announced, stream, lifecycle, new_rx_frame,
                 callback, streaming, timed, data, arrived, overtaken>>

ReceiveReturns ==
  api' = "idle" /\ data' = NoData /\ timed' = FALSE /\ overtaken' = FALSE

TimeLimitedMutant == Calls.polls
TimeLimited == timed \/ Calls.polls

(* The timeout blanks a frame that was flagged, or is about to be, since the *)
(* flag was looked at.                                                       *)
TimesOut ==
  /\ api = "looking"
  /\ TimeLimited
  /\ buffer' = IF ~Calls.blanks THEN buffer
               ELSE [buffer EXCEPT !.blank =
                       IF new_rx_frame \/ pc = "copied" THEN "racing"
                       ELSE "quietly"]
  /\ ReceiveReturns
  /\ UNCHANGED <<environment, announced, stream, lifecycle, new_rx_frame,
                 callback, pc, sample, arrived>>

WaitEnds ==
  /\ api = "waiting" /\ new_rx_frame
  /\ api' = IF Calls.late THEN "height" ELSE "taking"
  /\ overtaken' = (pc \in Describing)
  /\ UNCHANGED <<environment, announced, stream, lifecycle, new_rx_frame,
                 callback, streaming, timed, data, arrived>>

ReturnTrue ==
  /\ api = "taking"
  /\ new_rx_frame' = FALSE
  /\ ReceiveReturns
  /\ UNCHANGED <<environment, announced, stream, lifecycle, callback,
                 streaming, arrived>>
-----------------------------------------------------------------------------
(* The streaming thread.                                                    *)

PictureFormats ==
  IF Class.pipeline.format = "decoded" THEN DecoderFormats(receiver)
  ELSE {Class.pipeline.format}

(* A picture reaches the sink of a playing pipeline that is complete.        *)
Pull(size, format) ==
  /\ pc = "idle"
  /\ abandoned \/ (pipeline = "playing" /\ linked)
  /\ api \notin {"stopping", "closing"}
  /\ sample' = [height |-> size.height, width |-> size.width,
                format |-> format]
  /\ buffer' = Resized(PictureBytes(format, size.height, size.width))
  /\ pc' = "resized"
  /\ UNCHANGED <<environment, announced, stream, lifecycle, new_rx_frame,
                 callback, api, timed, data, arrived, overtaken>>

(* Receive() has seen the flag and goes on to read what belongs to it.       *)
Seen == Calls.late /\ api \in Reading \cup {"taking"}

(* SetColourSpace(), SetHeight() and SetWidth(), in this order.              *)
Describe(from, field, value, to) ==
  /\ pc = from
  /\ stream' = [stream EXCEPT ![field] = value]
  /\ overtaken' = (overtaken \/ Seen)
  /\ pc' = to
  /\ UNCHANGED <<environment, announced, lifecycle, new_rx_frame, callback,
                 buffer, sample, api, timed, data, arrived>>

SampleEncoding == Reported(Class.formats, sample.format)
SetColourSpace == Describe("resized", "encoding", SampleEncoding, "coloured")
SetHeight == Describe("coloured", "height", sample.height, "tall")
SetWidth == Describe("tall", "width", sample.width, "described")

Copy ==
  /\ pc = "described"
  /\ buffer' = [buffer EXCEPT !.height = sample.height, !.width = sample.width,
                              !.encoding = SampleEncoding, !.blank = "no"]
  /\ sample' = <<>>
  /\ pc' = "copied"
  /\ UNCHANGED <<environment, announced, stream, lifecycle, new_rx_frame,
                 callback, api, timed, data, arrived, overtaken>>

SetFlag ==
  /\ pc = "copied"
  /\ new_rx_frame' = TRUE
  /\ arrived' = TRUE
  /\ pc' = "flagged"
  /\ UNCHANGED <<environment, announced, stream, lifecycle, callback, buffer,
                 sample, api, timed, data, overtaken>>

CallbackDue ==
  /\ callback
  /\ Calls.calls = "always" \/ (Calls.calls = "started" /\ state = "kStarted")

NewFrame ==
  /\ pc = "flagged"
  /\ pc' = IF CallbackDue THEN "calling" ELSE "idle"
  /\ UNCHANGED <<environment, announced, stream, lifecycle, new_rx_frame,
                 callback, buffer, sample, api, timed, data, arrived,
                 overtaken>>

CallbackEnds ==
  /\ pc = "calling"
  /\ pc' = "idle"
  /\ UNCHANGED <<environment, announced, stream, lifecycle, new_rx_frame,
                 callback, buffer, sample, api, timed, data, arrived,
                 overtaken>>
-----------------------------------------------------------------------------
Call ==
  \/ \E size \in Sizes, encoding \in Class.stream.prepares :
       SetStreamInfo(size, encoding)
  \/ \E positive \in BOOLEAN : Receive(positive)
  \/ \E call \in {"stopping", "closing"} : BeginStop(call)
  \/ RegisterCallback \/ Open \/ Start \/ Close \/ Destroy

ClientThread ==
  \/ StopReturns \/ ReadDescription \/ ReadPointer
  \/ WaitLooks \/ WaitSleeps \/ TimesOut \/ WaitEnds \/ ReturnTrue

CallbackThread ==
  \/ SetColourSpace \/ SetHeight \/ SetWidth
  \/ Copy \/ SetFlag \/ NewFrame \/ CallbackEnds

Defined == ~misused /\ api # "gone"

Next ==
  /\ Defined
  /\ \/ Call \/ ClientThread \/ CallbackThread
     \/ \E size \in Sizes, format \in PictureFormats : Pull(size, format)

(* Both threads run, a callback returns, and time passes, so that a timed    *)
(* wait reaches its deadline.  Nothing makes clients call or pictures come.  *)
Fairness ==
  /\ WF_vars(Defined /\ ClientThread)
  /\ WF_vars(Defined /\ CallbackThread)
  /\ SF_vars(Defined /\ TimesOut)

Spec == Init /\ [][Next]_vars
FairSpec == Spec /\ Fairness
-----------------------------------------------------------------------------
(* The receivers that test their state never hand GStreamer a pipeline that  *)
(* was not made or is already released, in any order of calls, a failed      *)
(* Open() included.                                                          *)
PipelineIsLive == Calls.guarded => ~misused

(* Once Stop() or Close() has returned no callback of the stream is running  *)
(* or can start, unless a playing pipeline was overwritten by a second Open. *)
QuietAfterStop ==
  ~misused /\ ~abandoned /\ api = "idle" /\ pipeline # "playing" => pc = "idle"

(* After a restart the flag stands for a frame of the new run: the H.264     *)
(* receivers reset it when the old pipeline can no longer set it.            *)
FlagIsFresh ==
  Calls.clears /\ ~abandoned /\ state = "kStarted" /\ new_rx_frame => arrived

(* A stopped receiver is quiet and a restarted one starts afresh.           *)
StoppedIsQuiet == PipelineIsLive /\ QuietAfterStop /\ FlagIsFresh

(* What the frame handed to a callback says of itself, height * width *      *)
(* bytes per pixel, lies within the buffer, and is all of it unless          *)
(* GStreamer has padded the rows, for the receivers with a converter.  The   *)
(* Qt wrapper copies that many bytes.                                        *)
CallbackDescribesBuffer ==
  pc = "calling" /\ Class.pipeline.format # "decoded" =>
    LET row == BytesPerPixel[stream.encoding] * stream.width
    IN  /\ stream.height * row <= buffer.size
        /\ row % 4 = 0 => stream.height * row = buffer.size

(* The pointer a true Receive() returns is the buffer's, though it was read  *)
(* before the wait, as long as no picture outgrew what SetStreamInfo()       *)
(* reserved.                                                                 *)
PointerSurvivesWait ==
  [][api = "taking" /\ api' = "idle" =>
       \/ data.storage = buffer.storage
       \/ buffer.storage > ReservedBytes(announced)]_vars

(* A true Receive() of the receivers that read height, width and encoding    *)
(* behind the wait returns those of the picture in the buffer, unless the    *)
(* streaming thread was setting them for another picture when the flag was   *)
(* seen, or has begun to since.                                              *)
FrameIsDescribed ==
  [][/\ api = "taking" /\ api' = "idle"
     /\ Calls.late /\ ~abandoned /\ ~overtaken
     => \A field \in Reading : data[field] = buffer[field]]_vars

(* A frame whose bytes a timeout blanked is handed out as a frame only if    *)
(* that timeout raced the frame: its last look at the flag came before the   *)
(* flag was set, its blanking behind the copy.                               *)
BlankOnlyByRace ==
  [][api = "taking" /\ api' = "idle" => buffer.blank # "quietly"]_vars

(* What a true Receive() hands out can be read, says what it is, and is the  *)
(* picture: the three properties above together.                             *)
ReceivedFrameIsSound ==
  PointerSurvivesWait /\ FrameIsDescribed /\ BlankOnlyByRace

(* Stop() and Close() return, and so does Receive() with a positive timeout. *)
CallsReturn ==
  api # "idle" /\ (timed \/ api \in {"stopping", "closing"})
    ~> api \in {"idle", "gone"} \/ misused
=============================================================================
