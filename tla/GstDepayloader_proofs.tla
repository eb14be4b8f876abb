------------------------ MODULE GstDepayloader_proofs ------------------------
(***************************************************************************)
(* Theorems about the GStreamer receivers, for every set of classes,       *)
(* missing elements and picture sizes.                                     *)
(***************************************************************************)
EXTENDS GstDepayloader, TLAPS

(* The receivers that look at state_ keep it, and those whose Stop() resets  *)
(* the flag look at it.                                                      *)
LEMMA CallTables ==
  \A name \in Classes :
    /\ Receivers[name].calls.clears => Receivers[name].calls.guarded
    /\ Receivers[name].calls.guarded => Receivers[name].calls.keepsState
<1> DEFINE Consistent(c) == /\ c.clears => c.guarded
                            /\ c.guarded => c.keepsState
<1>1. /\ Consistent(OpenH264Calls) /\ Consistent(VaapiH264Calls)
      /\ Consistent(OmxH264Calls)
  BY DEF OpenH264Calls, VaapiH264Calls, OmxH264Calls, CarefulCalls
<1>2. Consistent(NvidiaH264Calls) /\ Consistent(VaapiJpegCalls)
  BY DEF NvidiaH264Calls, VaapiJpegCalls
<1>3. /\ Consistent(VaapiH265Calls) /\ Consistent(Av1Calls)
      /\ Consistent(JpegCalls)
  BY DEF VaapiH265Calls, Av1Calls, JpegCalls
<1> HIDE DEF Consistent
<1>4. \A name \in Classes : Consistent(Receivers[name].calls)
  BY <1>1, <1>2, <1>3, GstDepayloaderAssumption
  DEF GstDepayloaderAssumption, Receivers
<1>. QED BY <1>4 DEF Consistent

(* What state_ says of the pipeline in a receiver that tests it, between the *)
(* calls and within Stop() and Close().                                      *)
StateInv ==
  Calls.guarded =>
    /\ ~misused
    /\ state \in StreamState
    /\ state = "kOpen" => pipeline = "null"
    /\ state = "kStarted" => pipeline = "playing"
    /\ state = "kStopped" /\ api \notin {"stopping", "closing"}
         => pipeline = "null"
    /\ api \in {"stopping", "closing"}
         => state = "kStopped" /\ pipeline = "playing"

(* A pipeline that does not play has no callback running and, where Stop()   *)
(* resets it, the flag down.                                                 *)
QuietInv ==
  ~misused /\ ~abandoned /\ pipeline # "playing"
    => pc = "idle" /\ (Calls.clears => ~new_rx_frame)

ReceiverInv ==
  receiver \in Classes /\ StateInv /\ QuietInv /\ FlagIsFresh

LEMMA ReceiverInvariant == Spec => []ReceiverInv
<1> USE DEF ReceiverInv, StateInv, QuietInv, FlagIsFresh, StreamState, Class,
            Calls, environment, lifecycle, streaming
<1>1. Init => ReceiverInv
  BY DEF Init
<1>2. ReceiverInv /\ Next => ReceiverInv'
  <2> SUFFICES ASSUME ReceiverInv, Next PROVE ReceiverInv'
    OBVIOUS
  <2>defined. ~misused
    BY DEF Next, Defined
  <2>tables. /\ Calls.clears => Calls.guarded
             /\ Calls.guarded => Calls.keepsState
    BY CallTables
  <2>1. CASE (\E size \in Sizes, encoding \in Class.stream.prepares :
                SetStreamInfo(size, encoding)) \/ RegisterCallback
    BY <2>1 DEF SetStreamInfo, RegisterCallback
  <2>2. CASE Open
    BY <2>tables, <2>2 DEF Open, Enter
  <2>3. CASE Start
    BY <2>tables, <2>3 DEF Start, StartRefused, Enter
  <2>4. ASSUME NEW call \in {"stopping", "closing"}, BeginStop(call)
        PROVE ReceiverInv'
    <3>1. /\ api = "idle" /\ misused' = (pipeline \in {"unset", "freed"})
          /\ Calls.guarded => state = "kStarted"
          /\ Calls.keepsState => state' = "kStopped"
          /\ api' = IF misused' THEN "idle" ELSE call
          /\ UNCHANGED <<environment, pipeline, abandoned, new_rx_frame, pc,
                         arrived>>
      BY <2>4, Zenon DEF BeginStop, Enter
    <3>2. CASE Calls.guarded
      <4>1. pipeline = "playing" /\ state' = "kStopped"
        BY <2>tables, <3>1, <3>2
      <4>2. ~misused'
        BY <3>1, <4>1
      <4>. QED BY <3>1, <3>2, <4>1, <4>2
    <3>3. CASE ~Calls.guarded
      BY <2>tables, <2>defined, <3>1, <3>3
    <3>. QED BY <3>2, <3>3
  <2>5. CASE StopReturns
    BY <2>tables, <2>5 DEF StopReturns, StopWaits, FlagAfterStop
  <2>6. CASE Close
    <3>1. /\ api = "idle" /\ misused' = (pipeline # "null")
          /\ Calls.guarded => state \in {"kStopped", "kOpen"}
          /\ Calls.keepsState => state' = "kClosed"
          /\ pipeline' = "freed"
          /\ UNCHANGED <<environment, abandoned, new_rx_frame, pc, arrived,
                         api>>
      BY <2>6, Zenon DEF Close, Enter
    <3>2. CASE Calls.guarded
      <4>1. pipeline = "null" /\ state' = "kClosed"
        BY <2>tables, <3>1, <3>2
      <4>2. ~misused'
        BY <3>1, <4>1
      <4>. QED BY <2>defined, <3>1, <3>2, <4>1, <4>2
    <3>3. CASE ~Calls.guarded
      <4>1. ~misused' => pipeline = "null"
        BY <3>1
      <4>. QED BY <2>tables, <2>defined, <3>1, <3>3, <4>1
    <3>. QED BY <3>2, <3>3
  <2>7. CASE Destroy
    BY <2>tables, <2>7 DEF Destroy
  <2>8. CASE \E positive \in BOOLEAN : Receive(positive)
    BY <2>8 DEF Receive
  <2>9. CASE WaitLooks \/ WaitSleeps \/ TimesOut \/ WaitEnds \/ ReturnTrue
    BY <2>9 DEF WaitLooks, WaitSleeps, TimesOut, WaitEnds, ReturnTrue,
                ReceiveReturns
  <2>12. CASE ReadDescription \/ ReadPointer
    BY <2>12 DEF ReadDescription, ReadPointer, Reading
  <2>10. CASE CallbackThread
    <3>1. ASSUME NEW from \in {"resized", "coloured", "tall"}, NEW field,
                 NEW value, NEW to \in Describing,
                 Describe(from, field, value, to)
          PROVE  ReceiverInv'
      BY <2>tables, <3>1 DEF Describe, Describing
    <3>2. CASE SetColourSpace \/ SetHeight \/ SetWidth
      BY <3>1, <3>2 DEF SetColourSpace, SetHeight, SetWidth, Describing
    <3>3. CASE Copy \/ SetFlag \/ NewFrame \/ CallbackEnds
      BY <2>tables, <3>3 DEF Copy, SetFlag, NewFrame, CallbackEnds
    <3>. QED BY <2>10, <3>2, <3>3 DEF CallbackThread
  <2>11. ASSUME NEW size \in Sizes, NEW format \in PictureFormats,
                Pull(size, format)
         PROVE ReceiverInv'
    BY <2>tables, <2>11 DEF Pull
  <2>. QED
    BY <2>1, <2>2, <2>3, <2>4, <2>5, <2>6, <2>7, <2>8, <2>9, <2>10, <2>11,
       <2>12
    DEF Next, Call, ClientThread
<1>3. ReceiverInv /\ UNCHANGED vars => ReceiverInv'
  BY DEF vars
<1>. QED BY <1>1, <1>2, <1>3, PTL DEF Spec

(* Over all orders of calls, failed ones included: a receiver that tests its *)
(* state never uses a dead pipeline, no callback outlives Stop() or Close(), *)
(* and the H.264 receivers take no old frame for one of the new run.         *)
THEOREM StoppedReceiverIsQuiet == Spec => []StoppedIsQuiet
<1>1. ReceiverInv => StoppedIsQuiet
  BY DEF StoppedIsQuiet, PipelineIsLive, QuietAfterStop, ReceiverInv,
         StateInv, QuietInv, FlagIsFresh
<1>. QED BY <1>1, ReceiverInvariant, PTL
-----------------------------------------------------------------------------
(* What the eight tables have in common.                                     *)
LEMMA ReceiverTables ==
  \A name \in Classes :
    /\ Receivers[name].stream.encoding \in Encodings
    /\ Receivers[name].stream.prepares \subseteq Encodings
    /\ Receivers[name].stream.reserves \in {0, 12, 24, 32}
    /\ Receivers[name].pipeline.format \in Formats \cup {"decoded"}
    /\ Receivers[name].calls.late => Receivers[name].calls.clears
<1> DEFINE StreamOf(s) == /\ s.encoding \in Encodings
                         /\ s.prepares \subseteq Encodings
                         /\ s.reserves \in {0, 12, 24, 32}
           FormatOf(q) == q.format \in Formats \cup {"decoded"}
           CallsOf(c) == c.late => c.clears
<1>1. Encodings = {"Yuv422", "Rgba", "Rgb24", "Nv12", "Undefined"}
  BY DEF Encodings, BytesPerPixel
<1>2. Formats = {"RGBA", "RGB", "NV12", "I420"}
  BY DEF Formats
<1>3. /\ StreamOf(OpenH264Stream) /\ StreamOf(VaapiH264Stream)
      /\ StreamOf(OmxH264Stream) /\ StreamOf(NvidiaH264Stream)
  BY <1>1 DEF OpenH264Stream, VaapiH264Stream, OmxH264Stream, NvidiaH264Stream
<1>4. /\ StreamOf(VaapiH265Stream) /\ StreamOf(Av1Stream)
      /\ StreamOf(JpegStream) /\ StreamOf(VaapiJpegStream)
  BY <1>1 DEF VaapiH265Stream, Av1Stream, JpegStream, VaapiJpegStream
<1>5. /\ FormatOf(OpenH264Pipeline) /\ FormatOf(VaapiH264Pipeline)
      /\ FormatOf(OmxH264Pipeline) /\ FormatOf(NvidiaH264Pipeline)
  BY <1>2 DEF OpenH264Pipeline, VaapiH264Pipeline, OmxH264Pipeline,
              NvidiaH264Pipeline
<1>6. /\ FormatOf(VaapiH265Pipeline) /\ FormatOf(Av1Pipeline)
      /\ FormatOf(JpegPipeline) /\ FormatOf(VaapiJpegPipeline)
  BY <1>2 DEF VaapiH265Pipeline, Av1Pipeline, JpegPipeline, VaapiJpegPipeline
<1>7. /\ CallsOf(OpenH264Calls) /\ CallsOf(VaapiH264Calls)
      /\ CallsOf(OmxH264Calls) /\ CallsOf(NvidiaH264Calls)
  BY DEF OpenH264Calls, VaapiH264Calls, OmxH264Calls, CarefulCalls,
         NvidiaH264Calls
<1>8. /\ CallsOf(VaapiH265Calls) /\ CallsOf(Av1Calls) /\ CallsOf(JpegCalls)
      /\ CallsOf(VaapiJpegCalls)
  BY DEF NvidiaH264Calls, VaapiJpegCalls, VaapiH265Calls, Av1Calls, JpegCalls
<1> HIDE DEF StreamOf, FormatOf, CallsOf
<1>9. \A name \in Classes : /\ StreamOf(Receivers[name].stream)
                            /\ FormatOf(Receivers[name].pipeline)
                            /\ CallsOf(Receivers[name].calls)
  BY <1>3, <1>4, <1>5, <1>6, <1>7, <1>8, GstDepayloaderAssumption
     DEF GstDepayloaderAssumption, Receivers
<1>. QED BY <1>9 DEF StreamOf, FormatOf, CallsOf

LEMMA FormatTables ==
  \A name \in Classes :
    \/ Receivers[name].formats = <<"UYVY", "RGBA", "RGB", "NV12">>
    \/ Receivers[name].formats = <<"UYVY", "RGB", "NV12", "RGBA">>
BY GstDepayloaderAssumption
   DEF GstDepayloaderAssumption, Receivers, OpenH264Formats, VaapiH264Formats,
       OmxH264Formats, NvidiaH264Formats, VaapiH265Formats, Av1Formats,
       JpegFormats, VaapiJpegFormats

(* The comparisons end with the first that matches.                          *)
LEMMA FirstHit ==
  ASSUME NEW hits \in SUBSET (1 .. 4), hits # {}
  PROVE  /\ (CHOOSE i \in hits : \A j \in hits : i <= j) \in hits
         /\ \A j \in hits : (CHOOSE i \in hits : \A k \in hits : i <= k) <= j
<1>1. \E i \in hits : \A j \in hits : i <= j
  <2>1. CASE 1 \in hits
    BY <2>1
  <2>2. CASE 1 \notin hits /\ 2 \in hits
    BY <2>2
  <2>3. CASE 1 \notin hits /\ 2 \notin hits /\ 3 \in hits
    BY <2>3
  <2>4. CASE 1 \notin hits /\ 2 \notin hits /\ 3 \notin hits
    <3>1. \A j \in hits : j = 4
      BY <2>4
    <3>2. PICK i \in hits : TRUE
      OBVIOUS
    <3>3. i = 4 /\ \A j \in hits : i <= j
      BY <3>1, <3>2
    <3>. QED BY <3>3
  <2>. QED BY <2>1, <2>2, <2>3, <2>4
<1>. QED BY <1>1

LEMMA ReportedTyped ==
  \A name \in Classes, format \in Formats :
    Reported(Receivers[name].formats, format) \in Encodings
<1> SUFFICES ASSUME NEW name \in Classes, NEW format \in Formats
             PROVE  Reported(Receivers[name].formats, format) \in Encodings
  OBVIOUS
<1> DEFINE formats == Receivers[name].formats
           hits == {i \in DOMAIN formats : HasPrefix(format, formats[i])}
           first == CHOOSE i \in hits : \A j \in hits : i <= j
<1>1. /\ DOMAIN formats = 1 .. 4
      /\ \A i \in 1 .. 4 : formats[i] \in {"UYVY", "RGBA", "RGB", "NV12"}
  BY FormatTables
<1>2. "Undefined" \in Encodings
  BY DEF Encodings, BytesPerPixel
<1>3. \A f \in {"UYVY", "RGBA", "RGB", "NV12"} : Colourspace[f] \in Encodings
  BY DEF Encodings, BytesPerPixel, Colourspace
<1>4. Reported(formats, format) =
        IF hits = {} THEN "Undefined" ELSE Colourspace[formats[first]]
  BY DEF Reported
<1>5. hits \in SUBSET (1 .. 4)
  BY <1>1
<1> HIDE DEF formats, hits
<1>6. hits # {} => first \in hits
  BY <1>5, FirstHit
<1>. QED BY <1>1, <1>2, <1>3, <1>4, <1>5, <1>6 DEF formats

(* A format that the sink is asked for is reported as the encoding of as     *)
(* many bytes.                                                               *)
LEMMA ReportedBytes ==
  \A name \in Classes :
    LET R == Receivers[name]
        bytes == BytesPerPixel[Reported(R.formats, R.pipeline.format)]
    IN  R.pipeline.format # "decoded" =>
          \/ R.pipeline.format = "RGBA" /\ bytes = 4
          \/ R.pipeline.format = "RGB" /\ bytes = 3
<1>1. Reported(<<"UYVY", "RGBA", "RGB", "NV12">>, "RGBA") = "Rgba"
  <2> DEFINE f == <<"UYVY", "RGBA", "RGB", "NV12">>
             hits == {i \in DOMAIN f : HasPrefix("RGBA", f[i])}
             first == CHOOSE i \in hits : \A j \in hits : i <= j
  <2>1. hits = {2, 3}
    <3>1. DOMAIN f = {1, 2, 3, 4}
      OBVIOUS
    <3>2. f[1] = "UYVY" /\ f[2] = "RGBA" /\ f[3] = "RGB" /\ f[4] = "NV12"
      OBVIOUS
    <3> HIDE DEF f
    <3>. QED BY <3>1, <3>2 DEF HasPrefix
  <2>2. Reported(f, "RGBA") =
          IF hits = {} THEN "Undefined" ELSE Colourspace[f[first]]
    BY DEF Reported
  <2>3. f[2] = "RGBA" /\ Colourspace["RGBA"] = "Rgba"
    BY DEF Colourspace
  <2> HIDE DEF f, hits
  <2>4. first = 2
    BY <2>1, FirstHit
  <2>. QED BY <2>1, <2>2, <2>3, <2>4 DEF f
<1>2. Reported(<<"UYVY", "RGB", "NV12", "RGBA">>, "RGB") = "Rgb24"
  <2> DEFINE f == <<"UYVY", "RGB", "NV12", "RGBA">>
             hits == {i \in DOMAIN f : HasPrefix("RGB", f[i])}
             first == CHOOSE i \in hits : \A j \in hits : i <= j
  <2>1. hits = {2}
    <3>1. DOMAIN f = {1, 2, 3, 4}
      OBVIOUS
    <3>2. f[1] = "UYVY" /\ f[2] = "RGB" /\ f[3] = "NV12" /\ f[4] = "RGBA"
      OBVIOUS
    <3> HIDE DEF f
    <3>. QED BY <3>1, <3>2 DEF HasPrefix
  <2>2. Reported(f, "RGB") =
          IF hits = {} THEN "Undefined" ELSE Colourspace[f[first]]
    BY DEF Reported
  <2>3. f[2] = "RGB" /\ Colourspace["RGB"] = "Rgb24"
    BY DEF Colourspace
  <2> HIDE DEF f, hits
  <2>4. first = 2
    BY <2>1, FirstHit
  <2>. QED BY <2>1, <2>2, <2>3, <2>4 DEF f
<1>3. BytesPerPixel["Rgba"] = 4 /\ BytesPerPixel["Rgb24"] = 3
  BY DEF BytesPerPixel
<1>4. \A name \in Classes :
        \/ Receivers[name].pipeline.format = "decoded"
        \/ /\ Receivers[name].formats = <<"UYVY", "RGBA", "RGB", "NV12">>
           /\ Receivers[name].pipeline.format = "RGBA"
        \/ /\ Receivers[name].formats = <<"UYVY", "RGB", "NV12", "RGBA">>
           /\ Receivers[name].pipeline.format = "RGB"
  <2> DEFINE Pair(formats, q) ==
        \/ q.format = "decoded"
        \/ /\ formats = <<"UYVY", "RGBA", "RGB", "NV12">>
           /\ q.format = "RGBA"
        \/ /\ formats = <<"UYVY", "RGB", "NV12", "RGBA">>
           /\ q.format = "RGB"
  <2>1. /\ Pair(OpenH264Formats, OpenH264Pipeline)
        /\ Pair(VaapiH264Formats, VaapiH264Pipeline)
    BY DEF OpenH264Formats, OpenH264Pipeline, VaapiH264Formats,
           VaapiH264Pipeline
  <2>2. Pair(Av1Formats, Av1Pipeline) /\ Pair(JpegFormats, JpegPipeline)
    BY DEF Av1Formats, Av1Pipeline, JpegFormats, JpegPipeline
  <2>3. /\ Pair(OmxH264Formats, OmxH264Pipeline)
        /\ Pair(NvidiaH264Formats, NvidiaH264Pipeline)
    BY DEF OmxH264Pipeline, NvidiaH264Pipeline
  <2>4. /\ Pair(VaapiH265Formats, VaapiH265Pipeline)
        /\ Pair(VaapiJpegFormats, VaapiJpegPipeline)
    BY DEF VaapiH265Pipeline, VaapiJpegPipeline
  <2> HIDE DEF Pair
  <2>5. \A name \in Classes :
          Pair(Receivers[name].formats, Receivers[name].pipeline)
    BY <2>1, <2>2, <2>3, <2>4, GstDepayloaderAssumption
       DEF GstDepayloaderAssumption, Receivers
  <2>. QED BY <2>5 DEF Pair
<1>. QED BY <1>1, <1>2, <1>3, <1>4
-----------------------------------------------------------------------------
LEMMA SizesAreNats ==
  \A size \in Sizes : size.height \in Nat /\ size.width \in Nat
BY GstDepayloaderAssumption DEF GstDepayloaderAssumption

(* Padding keeps a row as long as it was, at least, and exactly when it ends *)
(* with a group of four bytes.                                               *)
LEMMA AlignedBounds ==
  \A n \in Nat : /\ Aligned(n) \in Nat
                 /\ Aligned(n) >= n
                 /\ n % 4 = 0 => Aligned(n) = n
BY DEF Aligned

LEMMA ProductOrder ==
  \A h, a, b \in Nat : h * a \in Nat /\ (a >= b => h * b <= h * a)
OBVIOUS

LEMMA PictureBytesNat ==
  \A format \in Formats, h, w \in Nat : PictureBytes(format, h, w) \in Nat
<1> SUFFICES ASSUME NEW format \in Formats, NEW h \in Nat, NEW w \in Nat
             PROVE  PictureBytes(format, h, w) \in Nat
  OBVIOUS
<1>1. Halves(h) \in Nat /\ Halves(w) \in Nat
  BY DEF Halves
<1>2. /\ Aligned(3 * w) \in Nat /\ Aligned(w) \in Nat
      /\ Aligned(Halves(w)) \in Nat
  <2>1. 3 * w \in Nat
    OBVIOUS
  <2>. QED BY <1>1, <2>1, AlignedBounds
<1>3. /\ 4 * w \in Nat /\ 3 * Aligned(w) \in Nat
      /\ 2 * Aligned(w) + 2 * Aligned(Halves(w)) \in Nat
  BY <1>2
<1>4. /\ h * (4 * w) \in Nat /\ h * Aligned(3 * w) \in Nat
      /\ Halves(h) * (3 * Aligned(w)) \in Nat
      /\ Halves(h) * (2 * Aligned(w) + 2 * Aligned(Halves(w))) \in Nat
  BY <1>1, <1>2, <1>3, ProductOrder
<1>. QED BY <1>4, Zenon DEF PictureBytes, Formats

(* What SetStreamInfo() reserves is a number of bytes.                       *)
LEMMA ReservedNat ==
  ASSUME receiver \in Classes, NEW size \in Sizes \cup {NoSize}
  PROVE  ReservedBytes(size) \in Nat
<1>1. size.height \in Nat /\ size.width \in Nat
  BY SizesAreNats DEF NoSize
<1>2. Class.stream.reserves \in Nat
  BY ReceiverTables DEF Class
<1>3. size.height * size.width \in Nat
  BY <1>1, ProductOrder
<1>4. size.height * size.width * Class.stream.reserves \in Nat
  BY <1>2, <1>3, ProductOrder
<1>. QED BY <1>4 DEF ReservedBytes

Buffers == [storage : Nat, size : Nat, height : Nat, width : Nat,
            encoding : Encodings, blank : {"no", "quietly", "racing"}]

LEMMA ResizedTyped ==
  ASSUME TypeOK, NEW bytes \in Nat
  PROVE  /\ Resized(bytes) \in Buffers
         /\ Resized(bytes).size = bytes
         /\ Resized(bytes).storage >= bytes
         /\ Resized(bytes).storage = buffer.storage
            \/ Resized(bytes).storage > buffer.storage
         /\ Resized(bytes).height = buffer.height
         /\ Resized(bytes).width = buffer.width
         /\ Resized(bytes).encoding = buffer.encoding
         /\ Resized(bytes).blank = buffer.blank
<1> DEFINE most == IF bytes > buffer.storage THEN bytes ELSE buffer.storage
<1>1. buffer \in Buffers
  BY DEF TypeOK, Buffers
<1>2. Resized(bytes) = [storage |-> most, size |-> bytes,
                        height |-> buffer.height, width |-> buffer.width,
                        encoding |-> buffer.encoding, blank |-> buffer.blank]
  <2>1. Resized(bytes) =
          [[buffer EXCEPT !.size = bytes] EXCEPT !.storage = most]
    BY <1>1 DEF Resized, Buffers
  <2>2. buffer = [storage |-> buffer.storage, size |-> buffer.size,
                  height |-> buffer.height, width |-> buffer.width,
                  encoding |-> buffer.encoding, blank |-> buffer.blank]
    BY <1>1 DEF Buffers
  <2> HIDE DEF most
  <2>. QED BY <2>1, <2>2
<1>3. /\ most \in Nat /\ most >= bytes
      /\ most = buffer.storage \/ most > buffer.storage
  BY <1>1 DEF Buffers
<1> HIDE DEF most
<1>. QED BY <1>1, <1>2, <1>3 DEF Buffers

LEMMA PicturesTyped ==
  ASSUME receiver \in Classes PROVE PictureFormats \subseteq Formats
<1>1. Class.pipeline.format \in Formats \cup {"decoded"}
  BY ReceiverTables DEF Class
<1>2. DecoderFormats(receiver) \subseteq {"I420", "NV12"}
  BY DEF DecoderFormats
<1>. QED BY <1>1, <1>2 DEF PictureFormats, Formats

Pictures == [height : Nat, width : Nat, format : Formats]
Holding == {"resized"} \cup Describing

(* The picture the streaming thread holds is one until it is copied.         *)
TypeInv ==
  /\ TypeOK
  /\ pc \in Holding => sample \in Pictures

LEMMA SampleEncoded ==
  ASSUME TypeInv, pc \in Holding
  PROVE  /\ sample \in Pictures
         /\ SampleEncoding \in Encodings
BY ReportedTyped DEF TypeInv, TypeOK, Pictures, SampleEncoding, Class

LEMMA TypeInvariant == Spec => []TypeInv
<1> DEFINE Flags == /\ linked \in BOOLEAN /\ abandoned \in BOOLEAN
                    /\ misused \in BOOLEAN /\ new_rx_frame \in BOOLEAN
                    /\ callback \in BOOLEAN /\ timed \in BOOLEAN
                    /\ arrived \in BOOLEAN /\ overtaken \in BOOLEAN
           Frames == [encoding : Encodings, height : Nat, width : Nat,
                      storage : Nat]
           Streams == [encoding : Encodings, height : Nat, width : Nat]
           Locations == {"idle", "resized", "coloured", "tall", "described",
                         "copied", "flagged", "calling"}
           Calling == {"idle", "height", "width", "encoding", "pointer",
                       "waiting", "looking", "taking", "stopping", "closing",
                       "gone"}
           Scalars == /\ receiver \in Classes /\ missing \subseteq UNION Missing
                      /\ state \in StreamState
                      /\ pipeline \in {"unset", "null", "playing", "freed"}
                      /\ pc \in Locations
                      /\ api \in Calling
           Data == /\ announced \in Sizes \cup {NoSize}
                   /\ stream \in Streams /\ buffer \in Buffers
                   /\ sample \in Pictures \cup {<<>>}
                   /\ pc \in Holding => sample \in Pictures
                   /\ data \in Frames
<1>parts. TypeInv <=> Flags /\ Scalars /\ Data
  BY DEF TypeInv, TypeOK, Pictures, Buffers, Describing, Reading
<1>parts2. TypeInv' <=> Flags' /\ Scalars' /\ Data'
  BY DEF TypeInv, TypeOK, Pictures, Buffers, Describing, Reading
<1>zero. 0 \in Nat /\ "Undefined" \in Encodings /\ NoData \in Frames
  BY DEF Encodings, BytesPerPixel, NoData
<1>hold. /\ Holding = {"resized", "coloured", "tall", "described"}
         /\ Describing \subseteq Holding
         /\ Reading = {"height", "width", "encoding"}
  BY DEF Holding, Describing, Reading
<1> USE DEF environment, lifecycle, streaming, StreamState
<1>1. Init => TypeInv
  <2> SUFFICES ASSUME Init PROVE Flags /\ Scalars /\ Data
    BY <1>parts
  <2>1. Class.stream.encoding \in Encodings
    BY ReceiverTables DEF Class, Init
  <2>2. missing \subseteq UNION Missing
    BY DEF Init, Lacking
  <2>. QED BY <1>zero, <1>hold, <2>1, <2>2 DEF Init, Buffers, NoSize
<1>2. ASSUME TypeInv, Next PROVE Flags' /\ Scalars' /\ Data'
  <2> USE <1>2
  <2>1. Flags /\ Scalars /\ Data /\ TypeOK
    BY <1>parts DEF TypeInv
  <2>2. ASSUME NEW size \in Sizes,
               NEW encoding \in Class.stream.prepares,
               SetStreamInfo(size, encoding)
        PROVE  Flags' /\ Scalars' /\ Data'
    <3>1. encoding \in Encodings
      BY <2>1, ReceiverTables DEF Class
    <3>2. buffer' \in Buffers
      BY <2>1, <2>2, ReservedNat, ResizedTyped DEF SetStreamInfo, Reserved
    <3>3. stream' \in Streams
      BY <2>2, <3>1, SizesAreNats DEF SetStreamInfo
    <3> HIDE DEF Streams, Frames, Locations, Calling
    <3>4. Flags' /\ Scalars'
      <4>1. /\ UNCHANGED <<environment, lifecycle, new_rx_frame, callback, pc,
                           api, timed, arrived, overtaken>>
        BY <2>2 DEF SetStreamInfo
      <4>. QED BY <2>1, <4>1
    <3>. QED BY <2>1, <2>2, <3>2, <3>3, <3>4 DEF SetStreamInfo
  <2>3. ASSUME NEW size \in Sizes, NEW format \in PictureFormats,
               Pull(size, format)
        PROVE  Flags' /\ Scalars' /\ Data'
    <3>1. format \in Formats
      BY <2>1, PicturesTyped
    <3>2. PictureBytes(format, size.height, size.width) \in Nat
      BY <3>1, SizesAreNats, PictureBytesNat
    <3>3. buffer' \in Buffers
      BY <2>1, <2>3, <3>2, ResizedTyped DEF Pull
    <3>4. sample' \in Pictures /\ pc' = "resized"
      BY <2>3, <3>1, SizesAreNats DEF Pull, Pictures
    <3>5. pc' \in Locations
      BY <3>4
    <3> HIDE DEF Streams, Frames, Locations, Calling
    <3>. QED BY <2>1, <2>3, <3>3, <3>4, <3>5 DEF Pull
  <2>4. CASE SetColourSpace \/ SetHeight \/ SetWidth
    <3>1. pc \in Holding
      BY <1>hold, <2>4 DEF SetColourSpace, SetHeight, SetWidth, Describe
    <3>2. sample \in Pictures /\ SampleEncoding \in Encodings
      BY <3>1, SampleEncoded
    <3>3. stream' \in Streams
      <4>1. CASE SetColourSpace
        BY <2>1, <3>2, <4>1 DEF SetColourSpace, Describe
      <4>2. CASE SetHeight
        BY <2>1, <3>2, <4>2 DEF SetHeight, Describe, Pictures
      <4>3. CASE SetWidth
        BY <2>1, <3>2, <4>3 DEF SetWidth, Describe, Pictures
      <4>. QED BY <2>4, <4>1, <4>2, <4>3
    <3>4. /\ pc' \in Holding
          /\ overtaken' = (overtaken \/ Seen)
          /\ UNCHANGED <<environment, announced, lifecycle, new_rx_frame,
                         callback, buffer, sample, api, timed, data, arrived>>
      BY <1>hold, <2>4 DEF SetColourSpace, SetHeight, SetWidth, Describe
    <3>5. overtaken' \in BOOLEAN
      BY <2>1, <3>4
    <3>6. pc' \in Locations
      BY <1>hold, <3>4
    <3> HIDE DEF Streams, Frames, Locations, Calling
    <3>. QED BY <2>1, <3>2, <3>3, <3>4, <3>5, <3>6
  <2>5. CASE Copy
    <3>1. sample \in Pictures /\ SampleEncoding \in Encodings
      BY <1>hold, <2>5, SampleEncoded DEF Copy
    <3>2. buffer' \in Buffers
      BY <2>1, <2>5, <3>1 DEF Copy, Pictures, Buffers
    <3>3. pc' = "copied" /\ pc' \in Locations /\ pc' \notin Holding
      BY <1>hold, <2>5 DEF Copy
    <3> HIDE DEF Streams, Frames, Locations, Calling
    <3>. QED BY <2>1, <2>5, <3>2, <3>3 DEF Copy
  <2>6. CASE TimesOut
    <3>1. buffer' \in Buffers
      BY <2>1, <2>6 DEF TimesOut, Buffers
    <3>2. /\ data' \in Frames /\ timed' = FALSE /\ api' = "idle"
          /\ overtaken' = FALSE
      BY <1>zero, <2>6 DEF TimesOut, ReceiveReturns
    <3>3. api' \in Calling
      BY <3>2
    <3> HIDE DEF Streams, Frames, Locations, Calling
    <3>4. Flags'
      BY <2>1, <2>6, <3>2 DEF TimesOut
    <3>5. Scalars'
      BY <2>1, <2>6, <3>3 DEF TimesOut
    <3>6. Data'
      BY <2>1, <2>6, <3>1, <3>2 DEF TimesOut
    <3>. QED BY <3>4, <3>5, <3>6
  <2>7. CASE ReturnTrue
    <3>1. /\ data' \in Frames /\ timed' = FALSE /\ api' = "idle"
          /\ overtaken' = FALSE
      BY <1>zero, <2>7 DEF ReturnTrue, ReceiveReturns
    <3>2. api' \in Calling
      BY <3>1
    <3> HIDE DEF Streams, Frames, Locations, Calling
    <3>3. Flags'
      BY <2>1, <2>7, <3>1 DEF ReturnTrue
    <3>4. Scalars'
      BY <2>1, <2>7, <3>2 DEF ReturnTrue
    <3>5. Data'
      BY <2>1, <2>7, <3>1 DEF ReturnTrue
    <3>. QED BY <3>3, <3>4, <3>5
  <2>8. ASSUME NEW positive \in BOOLEAN, Receive(positive)
        PROVE  Flags' /\ Scalars' /\ Data'
    <3>1. api' \in Calling
      BY <2>8 DEF Receive
    <3> HIDE DEF Streams, Frames, Locations, Calling
    <3>. QED BY <2>1, <2>8, <3>1 DEF Receive
  <2>9. CASE WaitEnds
    <3>1. api' \in Calling /\ overtaken' \in BOOLEAN
      BY <2>9 DEF WaitEnds
    <3> HIDE DEF Streams, Frames, Locations, Calling
    <3>. QED BY <2>1, <2>9, <3>1 DEF WaitEnds
  <2>17. CASE ReadDescription \/ ReadPointer
    <3>1. data' \in Frames
      <4>1. CASE ReadPointer
        <5>1. buffer.storage \in Nat
          BY <2>1 DEF Buffers
        <5>. QED BY <2>1, <4>1, <5>1 DEF ReadPointer
      <4>2. CASE ReadDescription
        <5>1. CASE api = "height"
          BY <2>1, <4>2, <5>1 DEF ReadDescription, Described
        <5>2. CASE api = "width"
          BY <2>1, <4>2, <5>2 DEF ReadDescription, Described
        <5>3. CASE api = "encoding"
          BY <2>1, <4>2, <5>3 DEF ReadDescription, Described
        <5>. QED BY <1>hold, <4>2, <5>1, <5>2, <5>3 DEF ReadDescription
      <4>. QED BY <2>17, <4>1, <4>2
    <3>2. api' \in Calling
      <4>1. CASE ReadPointer
        BY <4>1 DEF ReadPointer
      <4>2. CASE ReadDescription
        BY <1>hold, <4>2, Zenon DEF ReadDescription
      <4>. QED BY <2>17, <4>1, <4>2
    <3>3. UNCHANGED <<environment, announced, stream, lifecycle, new_rx_frame,
                      callback, streaming, timed, arrived, overtaken>>
      BY <2>17 DEF ReadDescription, ReadPointer
    <3> HIDE DEF Streams, Frames, Locations, Calling
    <3>. QED BY <2>1, <3>1, <3>2, <3>3
  <2>idle. /\ {"waiting", "looking", "idle", "stopping", "closing", "gone"}
                \subseteq Calling
           /\ {"idle", "flagged", "calling"} \subseteq Locations
           /\ {"idle", "flagged", "calling"} \cap Holding = {}
    BY <1>hold
  <2> HIDE DEF Streams, Frames, Locations, Calling
  <2>10. CASE \/ WaitLooks \/ WaitSleeps \/ RegisterCallback \/ SetFlag
              \/ CallbackEnds \/ NewFrame
    <3>1. CASE WaitLooks \/ WaitSleeps
      BY <2>1, <2>idle, <3>1 DEF WaitLooks, WaitSleeps
    <3>2. CASE RegisterCallback
      BY <2>1, <2>idle, <3>2 DEF RegisterCallback
    <3>3. CASE SetFlag
      BY <2>1, <2>idle, <3>3 DEF SetFlag
    <3>4. CASE CallbackEnds \/ NewFrame
      BY <2>1, <2>idle, <3>4 DEF CallbackEnds, NewFrame
    <3>. QED BY <2>10, <3>1, <3>2, <3>3, <3>4
  <2>11. ASSUME NEW call \in {"stopping", "closing"}, BeginStop(call)
         PROVE  Flags' /\ Scalars' /\ Data'
    BY <2>1, <2>idle, <2>11 DEF BeginStop, Enter
  <2>12. CASE Open
    <3>1. Flags'
      BY <2>1, <2>idle, <2>12 DEF Open
    <3>2. Scalars'
      BY <2>1, <2>idle, <2>12 DEF Open, Enter
    <3>3. Data'
      BY <2>1, <2>idle, <2>12 DEF Open
    <3>. QED BY <3>1, <3>2, <3>3
  <2>13. CASE Start
    <3>1. Flags'
      <4>1. misused' \in BOOLEAN
        <5>1. misused' = (pipeline \in {"unset", "freed"})
          BY <2>13, Zenon DEF Start
        <5>. QED BY <5>1
      <4>2. arrived' = FALSE /\ UNCHANGED <<linked, abandoned, new_rx_frame,
                                          callback, timed, overtaken>>
        BY <2>13, Zenon DEF Start
      <4>. QED BY <2>1, <2>idle, <4>1, <4>2
    <3>2. Scalars'
      BY <2>1, <2>idle, <2>13 DEF Start, Enter
    <3>3. Data'
      BY <2>1, <2>idle, <2>13 DEF Start
    <3>. QED BY <3>1, <3>2, <3>3
  <2>14. CASE Close
    BY <2>1, <2>idle, <2>14 DEF Close, Enter
  <2>15. CASE Destroy
    BY <2>1, <2>idle, <2>15 DEF Destroy
  <2>16. CASE StopReturns
    BY <2>1, <2>idle, <2>16 DEF StopReturns, FlagAfterStop
  <2>. QED
    <3>1. CASE Call
      BY <2>2, <2>8, <2>10, <2>11, <2>12, <2>13, <2>14, <2>15, <3>1 DEF Call
    <3>2. CASE ClientThread
      BY <2>6, <2>7, <2>9, <2>10, <2>16, <2>17, <3>2 DEF ClientThread
    <3>3. CASE CallbackThread
      BY <2>4, <2>5, <2>10, <3>3 DEF CallbackThread
    <3>. QED BY <2>3, <3>1, <3>2, <3>3 DEF Next
<1>3. TypeInv /\ UNCHANGED vars => TypeInv'
  BY DEF TypeInv, TypeOK, vars
<1> HIDE DEF Flags, Scalars, Data
<1>4. TypeInv /\ Next => TypeInv'
  BY <1>2, <1>parts2
<1>. QED BY <1>1, <1>3, <1>4, PTL DEF Spec

(* A receiver's variables keep their types, for every class, set of missing  *)
(* elements and picture size.                                                *)
THEOREM TypeCorrect == Spec => []TypeOK
<1>1. TypeInv => TypeOK
  BY DEF TypeInv
<1>. QED BY <1>1, TypeInvariant, PTL
-----------------------------------------------------------------------------
(* Height * width * bytes per pixel, as the receiver's stream has them, is   *)
(* what the buffer holds, less the padding of its rows.                      *)
DescribesBuffer ==
  Class.pipeline.format # "decoded" =>
    LET row == BytesPerPixel[stream.encoding] * stream.width
    IN  /\ stream.height * row <= buffer.size
        /\ row % 4 = 0 => stream.height * row = buffer.size

(* What a picture leaves behind: while it is handled, the buffer is as large *)
(* as it and each setter that has run has described it; behind the copy the  *)
(* description fits the buffer, until the next picture.                      *)
PictureInv ==
  /\ pc \in Holding =>
       /\ sample \in Pictures
       /\ sample.format \in PictureFormats
       /\ buffer.size = PictureBytes(sample.format, sample.height,
                                     sample.width)
  /\ pc \in Describing => stream.encoding = SampleEncoding
  /\ pc \in {"tall", "described"} => stream.height = sample.height
  /\ pc = "described" => stream.width = sample.width
  /\ pc \in {"copied", "flagged", "calling"} => DescribesBuffer

(* Receive() has read the buffer's address and has not returned it; it has   *)
(* seen the flag as well.                                                    *)
Taken == api = "taking" \/ (Calls.late /\ api \in Reading)
Waiting == api \in {"waiting", "looking"} \/ Taken

(* The bytes that SetStreamInfo() reserved.                                  *)
Least == ReservedBytes(announced)

(* The allocation is at least what SetStreamInfo() reserved, and while       *)
(* Receive() waits it is the one whose pointer was read, or a larger one.    *)
PointerInv ==
  /\ buffer.storage >= Least
  /\ Waiting => data.storage = buffer.storage \/ buffer.storage > Least

(* A frame that may be flagged, in a receiver whose Stop() resets the flag,  *)
(* is the picture in the buffer and the stream's description is its, unless  *)
(* the setters are at work.                                                  *)
Fits == /\ stream.height = buffer.height
        /\ stream.width = buffer.width
        /\ stream.encoding = buffer.encoding

DescriptionInv ==
  Calls.late /\ ~abandoned /\ ~misused /\ pc \notin Describing =>
    (new_rx_frame \/ pc \in {"copied", "flagged", "calling"} => Fits)

(* While Receive() takes a frame the flag is up, and the fields it has read  *)
(* are those of the picture in the buffer if no setter was at work.          *)
TakingInv ==
  Taken =>
    /\ new_rx_frame
    /\ Calls.late /\ ~abandoned /\ ~misused /\ ~overtaken =>
         /\ pc \notin Describing
         /\ api # "height" => data.height = buffer.height
         /\ api \in {"encoding", "taking"} => data.width = buffer.width
         /\ api = "taking" => data.encoding = buffer.encoding

(* Only a copy comes before the flag.                                        *)
BlankInv ==
  new_rx_frame \/ pc = "copied" => buffer.blank # "quietly"

(* The steps that leave pictures and their description alone.                *)
Elsewhere ==
  \/ RegisterCallback \/ Open \/ Start \/ Close \/ Destroy
  \/ \E call \in {"stopping", "closing"} : BeginStop(call)
  \/ StopReturns \/ WaitLooks \/ WaitSleeps \/ WaitEnds \/ ReturnTrue
  \/ ReadDescription \/ ReadPointer
  \/ \E positive \in BOOLEAN : Receive(positive)
  \/ UNCHANGED vars

LEMMA ElsewhereStep ==
  ASSUME Elsewhere
  PROVE  /\ UNCHANGED <<receiver, announced, stream, buffer, pc, sample>>
         /\ abandoned => abandoned'
         /\ new_rx_frame' => new_rx_frame
<1> USE DEF environment, lifecycle, streaming
<1>1. CASE RegisterCallback \/ WaitLooks \/ WaitSleeps \/ WaitEnds
  BY <1>1 DEF RegisterCallback, WaitLooks, WaitSleeps, WaitEnds
<1>2. ASSUME NEW positive, Receive(positive)
      PROVE  /\ UNCHANGED <<receiver, announced, stream, buffer, pc, sample>>
             /\ UNCHANGED <<abandoned, new_rx_frame>>
  BY <1>2 DEF Receive
<1>3. CASE ReturnTrue \/ ReadDescription \/ ReadPointer
  BY <1>3 DEF ReturnTrue, ReadDescription, ReadPointer
<1>4. CASE Open
  BY <1>4, Zenon DEF Open
<1>5. CASE Start
  BY <1>5, Zenon DEF Start
<1>6. CASE Close
  BY <1>6, Zenon DEF Close
<1>7. CASE Destroy
  BY <1>7, Zenon DEF Destroy
<1>8. CASE StopReturns
  BY <1>8, Zenon DEF StopReturns, FlagAfterStop
<1>9. ASSUME NEW call, BeginStop(call)
      PROVE  /\ UNCHANGED <<receiver, announced, stream, buffer, pc, sample>>
             /\ UNCHANGED <<abandoned, new_rx_frame>>
  BY <1>9, Zenon DEF BeginStop
<1>10. CASE UNCHANGED vars
  BY <1>10 DEF vars
<1>. QED BY <1>1, <1>2, <1>3, <1>4, <1>5, <1>6, <1>7, <1>8, <1>9, <1>10
         DEF Elsewhere

Setting == SetColourSpace \/ SetHeight \/ SetWidth

Pictured ==
  \/ \E size \in Sizes, encoding \in Class.stream.prepares :
       SetStreamInfo(size, encoding)
  \/ \E size \in Sizes, format \in PictureFormats : Pull(size, format)
  \/ Setting \/ Copy \/ SetFlag \/ NewFrame \/ CallbackEnds \/ TimesOut

LEMMA StepsSplit == [Next]_vars => Elsewhere \/ Pictured
BY DEF Next, Call, ClientThread, CallbackThread, Elsewhere, Pictured, Setting

(* What the three setters have in common.                                    *)
LEMMA SettingStep ==
  ASSUME Setting
  PROVE  /\ pc \in {"resized", "coloured", "tall"}
         /\ pc' \in Describing
         /\ overtaken' = (overtaken \/ Seen)
         /\ UNCHANGED <<receiver, announced, abandoned, misused, new_rx_frame,
                        buffer, sample, api, data>>
BY DEF Setting, SetColourSpace, SetHeight, SetWidth, Describe, Describing,
       environment, lifecycle

(* A picture's steps keep the receiver and its tables.                       *)
LEMMA SameTables ==
  ASSUME receiver' = receiver
  PROVE  Class' = Class /\ Calls' = Calls /\ PictureFormats' = PictureFormats
BY DEF Class, Calls, PictureFormats

LEMMA SameReceiver ==
  ASSUME Pictured PROVE receiver' = receiver
BY SettingStep
   DEF Pictured, SetStreamInfo, Pull, Copy, SetFlag, NewFrame, CallbackEnds,
       TimesOut, environment

(* A picture fits its description once it is copied.                         *)
LEMMA CopyDescribed ==
  ASSUME TypeOK, PictureInv, pc = "described" PROVE DescribesBuffer
<1> DEFINE h == stream.height
           w == stream.width
           bytes == BytesPerPixel[stream.encoding]
<1> SUFFICES ASSUME Class.pipeline.format # "decoded"
             PROVE  /\ h * (bytes * w) <= buffer.size
                    /\ (bytes * w) % 4 = 0 => h * (bytes * w) = buffer.size
  BY DEF DescribesBuffer
<1>1. /\ sample \in Pictures
      /\ sample.format = Class.pipeline.format
      /\ buffer.size = PictureBytes(sample.format, h, w)
      /\ h = sample.height /\ w = sample.width
      /\ stream.encoding = SampleEncoding
  BY DEF PictureInv, PictureFormats, Holding, Describing
<1>2. h \in Nat /\ w \in Nat
  BY <1>1 DEF Pictures
<1>3. \/ sample.format = "RGBA" /\ bytes = 4
      \/ sample.format = "RGB" /\ bytes = 3
  <2>1. receiver \in Classes
    BY DEF TypeOK
  <2>. QED BY <1>1, <2>1, ReportedBytes DEF Class, SampleEncoding
<1> HIDE DEF h, w, bytes
<1>4. CASE sample.format = "RGBA" /\ bytes = 4
  <2>1. buffer.size = h * (4 * w)
    BY <1>1, <1>4 DEF PictureBytes
  <2>2. h * (4 * w) \in Nat
    BY <1>2, ProductOrder
  <2>. QED BY <1>4, <2>1, <2>2
<1>5. CASE sample.format = "RGB" /\ bytes = 3
  <2>1. buffer.size = h * Aligned(3 * w)
    BY <1>1, <1>5 DEF PictureBytes
  <2>2. 3 * w \in Nat
    BY <1>2
  <2>3. /\ Aligned(3 * w) \in Nat /\ Aligned(3 * w) >= 3 * w
        /\ (3 * w) % 4 = 0 => Aligned(3 * w) = 3 * w
    BY <2>2, AlignedBounds
  <2>4. h * (3 * w) <= h * Aligned(3 * w)
    BY <1>2, <2>2, <2>3, ProductOrder
  <2>. QED BY <1>5, <2>1, <2>3, <2>4
<1>. QED BY <1>3, <1>4, <1>5

LEMMA PictureStep ==
  ASSUME TypeOK, ~misused, QuietInv, PictureInv, Pictured PROVE PictureInv'
<1> USE DEF environment, lifecycle, streaming
<1>same. /\ Class' = Class /\ PictureFormats' = PictureFormats
         /\ receiver \in Classes
  BY SameTables, SameReceiver DEF TypeOK
<1>pcs. /\ Holding = {"resized", "coloured", "tall", "described"}
        /\ Describing = {"coloured", "tall", "described"}
  BY DEF Holding, Describing
<1>1. ASSUME NEW size, NEW encoding, SetStreamInfo(size, encoding)
      PROVE  PictureInv'
  <2>1. pc' = "idle"
    BY <1>1 DEF SetStreamInfo, QuietInv
  <2>. QED BY <1>pcs, <2>1 DEF PictureInv
<1>2. ASSUME NEW size \in Sizes, NEW format \in PictureFormats,
             Pull(size, format)
      PROVE  PictureInv'
  <2> DEFINE bytes == PictureBytes(format, size.height, size.width)
  <2>1. /\ pc' = "resized" /\ buffer' = Resized(bytes)
        /\ sample' = [height |-> size.height, width |-> size.width,
                      format |-> format]
    BY <1>2 DEF Pull
  <2>2. format \in Formats /\ size.height \in Nat /\ size.width \in Nat
    BY <1>same, PicturesTyped, SizesAreNats
  <2>3. buffer'.size = bytes
    BY <2>1, <2>2, PictureBytesNat, ResizedTyped
  <2>4. /\ sample' \in Pictures
        /\ sample'.format = format /\ sample'.height = size.height
        /\ sample'.width = size.width
    BY <2>1, <2>2 DEF Pictures
  <2>. QED BY <1>same, <1>pcs, <2>1, <2>3, <2>4 DEF PictureInv
<1>3. CASE Setting
  <2>1. /\ UNCHANGED <<buffer, sample>> /\ pc \in Holding
        /\ SampleEncoding' = SampleEncoding
    BY <1>3, <1>pcs, <1>same, SettingStep DEF SampleEncoding
  <2>2. stream \in [encoding : Encodings, height : Nat, width : Nat]
    BY DEF TypeOK
  <2>3. CASE SetColourSpace
    <3>1. /\ pc' = "coloured" /\ stream'.encoding = SampleEncoding
      BY <2>2, <2>3 DEF SetColourSpace, Describe
    <3>. QED BY <1>same, <1>pcs, <2>1, <3>1 DEF PictureInv
  <2>4. CASE SetHeight
    <3>1. /\ pc = "coloured" /\ pc' = "tall"
          /\ stream'.height = sample.height
          /\ stream'.encoding = stream.encoding
      BY <2>2, <2>4 DEF SetHeight, Describe
    <3>. QED BY <1>same, <1>pcs, <2>1, <3>1 DEF PictureInv
  <2>5. CASE SetWidth
    <3>1. /\ pc = "tall" /\ pc' = "described"
          /\ stream'.width = sample.width
          /\ stream'.height = stream.height
          /\ stream'.encoding = stream.encoding
      BY <2>2, <2>5 DEF SetWidth, Describe
    <3>. QED BY <1>same, <1>pcs, <2>1, <3>1 DEF PictureInv
  <2>. QED BY <1>3, <2>3, <2>4, <2>5 DEF Setting
<1>4. CASE Copy
  <2>1. pc = "described" /\ pc' = "copied" /\ stream' = stream
    BY <1>4 DEF Copy
  <2>2. buffer'.size = buffer.size
    BY <1>4 DEF Copy, TypeOK
  <2>3. DescribesBuffer
    BY <2>1, CopyDescribed
  <2>. QED BY <1>same, <1>pcs, <2>1, <2>2, <2>3 DEF PictureInv, DescribesBuffer
<1>5. CASE SetFlag \/ NewFrame \/ CallbackEnds
  <2>1. /\ UNCHANGED <<buffer, stream, sample>>
        /\ pc \in {"copied", "flagged", "calling"}
        /\ pc' \in {"flagged", "calling", "idle"}
    BY <1>5 DEF SetFlag, NewFrame, CallbackEnds
  <2>. QED BY <1>same, <1>pcs, <2>1 DEF PictureInv, DescribesBuffer
<1>6. CASE TimesOut
  <2>1. UNCHANGED <<pc, stream, sample>>
    BY <1>6 DEF TimesOut
  <2>2. buffer'.size = buffer.size
    BY <1>6 DEF TimesOut, TypeOK
  <2>. QED BY <1>same, <2>1, <2>2
           DEF PictureInv, DescribesBuffer, SampleEncoding
<1>. QED BY <1>1, <1>2, <1>3, <1>4, <1>5, <1>6 DEF Pictured

LEMMA PictureInvariant == Spec => []PictureInv
<1>1. Init => PictureInv
  BY DEF Init, PictureInv, Holding, Describing
<1>2. ASSUME TypeOK, ReceiverInv, PictureInv, [Next]_vars PROVE PictureInv'
  <2>1. CASE Elsewhere
    <3>1. UNCHANGED <<receiver, stream, buffer, pc, sample>>
      BY <2>1, ElsewhereStep
    <3>2. Class' = Class /\ PictureFormats' = PictureFormats
      BY <3>1, SameTables
    <3>. QED BY <1>2, <3>1, <3>2
             DEF PictureInv, DescribesBuffer, SampleEncoding
  <2>2. CASE Pictured
    <3>1. CASE UNCHANGED vars
      <4>1. Elsewhere
        BY <3>1 DEF Elsewhere
      <4>. QED BY <2>1, <4>1
    <3>2. CASE Next
      <4>1. ~misused
        BY <3>2 DEF Next, Defined
      <4>. QED BY <1>2, <2>2, <4>1, PictureStep DEF ReceiverInv
    <3>. QED BY <1>2, <3>1, <3>2
  <2>. QED BY <1>2, <2>1, <2>2, StepsSplit
<1>. QED BY <1>1, <1>2, TypeCorrect, ReceiverInvariant, PTL DEF Spec

(* What the client's callback is told of its frame, height * width * bytes   *)
(* per pixel, never exceeds what the frame buffer holds and is all of it     *)
(* when rows are not padded, however NewFrameCallback()'s comparisons are    *)
(* ordered and whatever the client does in the meantime.                     *)
THEOREM CallbackFits == Spec => []CallbackDescribesBuffer
<1>1. PictureInv => CallbackDescribesBuffer
  BY DEF PictureInv, DescribesBuffer, CallbackDescribesBuffer
<1>. QED BY <1>1, PictureInvariant, PTL
-----------------------------------------------------------------------------
(* How a step moves the client's thread past the buffer's address.           *)
Moves ==
  \/ ~Waiting'
  \/ WaitEnds \/ ReadPointer \/ (Calls.late /\ ReadDescription)
  \/ /\ UNCHANGED data
     /\ api' = api \/ {api, api'} \subseteq {"waiting", "looking"}

LEMMA ClientMoves == ASSUME [Next]_vars PROVE Moves
<1> USE DEF Moves
<1>1. CASE Elsewhere
  <2>same. Calls' = Calls
    BY <1>1, ElsewhereStep, SameTables
  <2>1. CASE Open \/ Start \/ Close
    <3>1. api' = "idle"
      BY <2>1, Zenon DEF Open, Start, Close
    <3>. QED BY <3>1 DEF Waiting, Taken, Reading
  <2>2. CASE Destroy \/ StopReturns \/ ReturnTrue
    <3>1. api' \in {"idle", "gone"}
      BY <2>2 DEF Destroy, StopReturns, ReturnTrue, ReceiveReturns
    <3>. QED BY <3>1 DEF Waiting, Taken, Reading
  <2>3. CASE RegisterCallback \/ WaitLooks \/ WaitSleeps \/ UNCHANGED vars
    BY <2>3 DEF RegisterCallback, WaitLooks, WaitSleeps, vars
  <2>4. ASSUME NEW positive, Receive(positive) PROVE ~Waiting'
    <3>1. api' = IF Calls.late THEN "pointer" ELSE "height"
      BY <2>4 DEF Receive
    <3>. QED BY <2>same, <3>1 DEF Waiting, Taken, Reading
  <2>5. ASSUME NEW call \in {"stopping", "closing"}, BeginStop(call)
        PROVE  ~Waiting'
    <3>1. api' = "idle" \/ api' = call
      BY <2>5, Zenon DEF BeginStop
    <3>. QED BY <3>1 DEF Waiting, Taken, Reading
  <2>6. CASE ReadDescription /\ ~Calls.late
    <3>1. api' \in {"width", "encoding", "pointer"}
      <4>1. api' = CASE api = "height" -> "width"
                     [] api = "width"  -> "encoding"
                     [] OTHER          -> "pointer"
        BY <2>6 DEF ReadDescription
      <4>. QED BY <4>1, Zenon
    <3>. QED BY <2>same, <2>6, <3>1 DEF Waiting, Taken, Reading
  <2>. QED BY <1>1, <2>1, <2>2, <2>3, <2>4, <2>5, <2>6 DEF Elsewhere
<1>2. CASE Pictured
  <2>1. ASSUME NEW size, NEW encoding, SetStreamInfo(size, encoding)
        PROVE  ~Waiting'
    BY <2>1 DEF SetStreamInfo, Waiting, Taken, Reading
  <2>2. CASE TimesOut
    BY <2>2 DEF TimesOut, ReceiveReturns, Waiting, Taken, Reading
  <2>3. CASE Copy \/ SetFlag \/ NewFrame \/ CallbackEnds
    BY <2>3 DEF Copy, SetFlag, NewFrame, CallbackEnds
  <2>4. CASE Setting
    BY <2>4, SettingStep
  <2>5. ASSUME NEW size, NEW format, Pull(size, format)
        PROVE  UNCHANGED <<api, data>>
    BY <2>5 DEF Pull
  <2>. QED BY <1>2, <2>1, <2>2, <2>3, <2>4, <2>5 DEF Pictured
<1>. QED BY <1>1, <1>2, StepsSplit

(* The allocation grows, and is given up by SetStreamInfo() alone.           *)
LEMMA StorageGrows ==
  ASSUME TypeOK, buffer.storage >= Least, [Next]_vars
  PROVE  /\ buffer'.storage \in Nat /\ Least' \in Nat
         /\ buffer'.storage >= Least'
         /\ \/ ~Waiting'
            \/ /\ Least' = Least
               /\ \/ buffer'.storage = buffer.storage
                  \/ buffer'.storage > buffer.storage
<1>1. /\ receiver \in Classes /\ announced \in Sizes \cup {NoSize}
      /\ buffer.storage \in Nat
  BY DEF TypeOK
<1>2. Least \in Nat
  BY <1>1, ReservedNat DEF Least
<1>3. ASSUME UNCHANGED <<receiver, announced>>,
             \/ buffer'.storage = buffer.storage
             \/ buffer'.storage \in Nat /\ buffer'.storage > buffer.storage
      PROVE  /\ buffer'.storage \in Nat /\ Least' = Least
             /\ buffer'.storage >= Least
  <2>1. Least' = Least
    BY <1>3, SameTables DEF Least, ReservedBytes
  <2>. QED BY <1>1, <1>2, <1>3, <2>1
<1>4. CASE Elsewhere
  <2>1. UNCHANGED <<receiver, announced, buffer>>
    BY <1>4, ElsewhereStep
  <2>. QED BY <1>2, <1>3, <2>1
<1>5. ASSUME NEW size \in Sizes, NEW encoding, SetStreamInfo(size, encoding)
      PROVE  /\ buffer'.storage \in Nat /\ Least' \in Nat
             /\ buffer'.storage >= Least' /\ ~Waiting'
  <2>1. /\ receiver' = receiver /\ announced' = size
        /\ buffer' = Reserved(size) /\ api' = "idle"
    BY <1>5 DEF SetStreamInfo, environment
  <2>2. ~Waiting'
    BY <2>1 DEF Waiting, Taken, Reading
  <2>3. Least' = ReservedBytes(size) /\ Least' \in Nat
    BY <1>1, <2>1, SameTables, ReservedNat DEF Least, ReservedBytes
  <2>4. CASE Class.stream.reserves = 0
    <3>1. size.height * size.width \in Nat
      BY SizesAreNats, ProductOrder
    <3>2. ReservedBytes(size) = 0
      BY <2>4, <3>1 DEF ReservedBytes
    <3>. QED BY <1>1, <2>1, <2>2, <2>3, <2>4, <3>2 DEF Reserved
  <2>5. CASE Class.stream.reserves # 0
    <3>1. buffer' = Resized(ReservedBytes(size))
      BY <2>1, <2>5 DEF Reserved
    <3>. QED BY <2>2, <2>3, <3>1, ResizedTyped DEF Buffers
  <2>. QED BY <2>4, <2>5
<1>6. ASSUME NEW size \in Sizes, NEW format \in PictureFormats,
             Pull(size, format)
      PROVE  \/ buffer'.storage = buffer.storage
             \/ buffer'.storage \in Nat /\ buffer'.storage > buffer.storage
  <2> DEFINE bytes == PictureBytes(format, size.height, size.width)
  <2>1. bytes \in Nat
    BY <1>1, PicturesTyped, SizesAreNats, PictureBytesNat
  <2>2. buffer' = Resized(bytes)
    BY <1>6 DEF Pull
  <2> HIDE DEF bytes
  <2>. QED BY <2>1, <2>2, ResizedTyped DEF Buffers
<1>7. CASE Copy \/ TimesOut
  <2>1. buffer'.storage = buffer.storage
    BY <1>7 DEF Copy, TimesOut, TypeOK
  <2>2. UNCHANGED <<receiver, announced>>
    BY <1>7 DEF Copy, TimesOut, environment
  <2>. QED BY <1>2, <1>3, <2>1, <2>2
<1>8. CASE Setting \/ SetFlag \/ NewFrame \/ CallbackEnds
  <2>1. UNCHANGED <<receiver, announced, buffer>>
    BY <1>8, SettingStep DEF SetFlag, NewFrame, CallbackEnds, environment
  <2>. QED BY <1>2, <1>3, <2>1
<1>9. ASSUME NEW size \in Sizes, NEW format \in PictureFormats,
             Pull(size, format)
      PROVE  UNCHANGED <<receiver, announced>>
  BY <1>9 DEF Pull, environment
<1>10. CASE Pictured
  BY <1>2, <1>3, <1>5, <1>6, <1>7, <1>8, <1>9, <1>10 DEF Pictured
<1>. QED BY <1>4, <1>10, StepsSplit

LEMMA PointerInvariant == Spec => []PointerInv
<1>1. Init => PointerInv
  <2> SUFFICES ASSUME Init PROVE PointerInv
    OBVIOUS
  <2>1. Class.stream.reserves \in Nat
    BY ReceiverTables DEF Init, Class
  <2>2. Least = 0
    <3>1. announced.height * announced.width = 0
      BY DEF Init, NoSize
    <3>. QED BY <2>1, <3>1 DEF Least, ReservedBytes
  <2>3. buffer.storage = 0 /\ ~Waiting
    BY DEF Init, Waiting, Taken, Reading
  <2>. QED BY <2>2, <2>3 DEF PointerInv
<1>2. ASSUME TypeOK, PointerInv, [Next]_vars PROVE PointerInv'
  <2> USE <1>2
  <2>1. buffer.storage \in Nat /\ Least \in Nat /\ buffer.storage >= Least
    BY ReservedNat DEF TypeOK, PointerInv, Least
  <2>2. /\ buffer'.storage \in Nat /\ buffer'.storage >= Least'
        /\ \/ ~Waiting'
           \/ /\ Least' = Least
              /\ \/ buffer'.storage = buffer.storage
                 \/ buffer'.storage > buffer.storage
    BY <2>1, StorageGrows
  <2>3. ASSUME Waiting'
        PROVE  \/ data'.storage = buffer'.storage
               \/ buffer'.storage > Least'
    <3>1. CASE ReadPointer
      <4>1. buffer' = buffer /\ data'.storage = buffer.storage
        BY <3>1 DEF ReadPointer, streaming, TypeOK
      <4>. QED BY <4>1
    <3>2. CASE ~ReadPointer
      <4>1. data'.storage = data.storage /\ Waiting
        <5>1. CASE WaitEnds
          BY <5>1 DEF WaitEnds, Waiting
        <5>2. CASE Calls.late /\ ReadDescription
          <6>1. data'.storage = data.storage
            BY <5>2 DEF ReadDescription, Described, Reading, TypeOK
          <6>. QED BY <5>2, <6>1 DEF ReadDescription, Waiting, Taken
        <5>3. CASE /\ UNCHANGED data
                   /\ {api, api'} \subseteq {"waiting", "looking"}
          BY <5>3 DEF Waiting
        <5>4. CASE UNCHANGED <<data, api>>
          <6>1. Calls' = Calls
            <7>1. receiver' = receiver
              BY ElsewhereStep, SameReceiver, StepsSplit
            <7>. QED BY <7>1, SameTables
          <6>. QED BY <2>3, <5>4, <6>1 DEF Waiting, Taken
        <5>. QED BY <2>3, <3>2, <5>1, <5>2, <5>3, <5>4, ClientMoves DEF Moves
      <4>2. data.storage = buffer.storage \/ buffer.storage > Least
        BY <4>1 DEF PointerInv
      <4>. QED BY <2>1, <2>2, <2>3, <4>1, <4>2
    <3>. QED BY <3>1, <3>2
  <2>. QED BY <2>2, <2>3 DEF PointerInv
<1>. QED BY <1>1, <1>2, TypeCorrect, PTL DEF Spec

LEMMA ReservedBlank ==
  ASSUME TypeOK, NEW size \in Sizes
  PROVE  Reserved(size).blank = buffer.blank
<1>1. ReservedBytes(size) \in Nat
  BY ReservedNat DEF TypeOK
<1>. QED BY <1>1, ResizedTyped DEF Reserved

LEMMA BlankInvariant == Spec => []BlankInv
<1> USE DEF BlankInv
<1>1. Init => BlankInv
  BY DEF Init
<1>2. ASSUME TypeOK, BlankInv, [Next]_vars PROVE BlankInv'
  <2> USE <1>2
  <2>1. ASSUME UNCHANGED buffer,
               new_rx_frame' => new_rx_frame \/ pc = "copied",
               pc' # "copied" \/ pc = "copied"
        PROVE  BlankInv'
    BY <2>1
  <2>2. CASE Pictured
    <3>1. ASSUME NEW size \in Sizes, NEW encoding,
                 SetStreamInfo(size, encoding)
          PROVE  BlankInv'
      <4>1. buffer'.blank = buffer.blank
        BY <3>1, ReservedBlank DEF SetStreamInfo
      <4>. QED BY <3>1, <4>1 DEF SetStreamInfo
    <3>2. ASSUME NEW size \in Sizes, NEW format \in PictureFormats,
                 Pull(size, format)
          PROVE  BlankInv'
      <4>1. PictureBytes(format, size.height, size.width) \in Nat
        BY PicturesTyped, SizesAreNats, PictureBytesNat DEF TypeOK
      <4>2. buffer'.blank = buffer.blank
        BY <3>2, <4>1, ResizedTyped DEF Pull
      <4>. QED BY <3>2, <4>2 DEF Pull
    <3>3. CASE Copy
      <4>1. buffer'.blank = "no"
        BY <3>3 DEF Copy, TypeOK
      <4>. QED BY <4>1
    <3>4. CASE TimesOut
      <4>1. /\ UNCHANGED <<new_rx_frame, pc>>
            /\ buffer' = buffer \/ buffer' = [buffer EXCEPT !.blank =
                 IF new_rx_frame \/ pc = "copied" THEN "racing" ELSE "quietly"]
        BY <3>4 DEF TimesOut
      <4>2. CASE new_rx_frame \/ pc = "copied"
        <5>1. buffer'.blank = buffer.blank \/ buffer'.blank = "racing"
          BY <4>1, <4>2 DEF TypeOK
        <5>. QED BY <4>1, <4>2, <5>1
      <4>3. CASE ~(new_rx_frame \/ pc = "copied")
        BY <4>1, <4>3
      <4>. QED BY <4>2, <4>3
    <3>5. CASE Setting \/ SetFlag \/ NewFrame \/ CallbackEnds
      <4>1. /\ UNCHANGED buffer /\ pc' # "copied"
            /\ new_rx_frame' => new_rx_frame \/ pc = "copied"
        <5>1. CASE Setting
          BY <5>1, SettingStep DEF Describing
        <5>2. CASE SetFlag \/ NewFrame \/ CallbackEnds
          BY <5>2 DEF SetFlag, NewFrame, CallbackEnds
        <5>. QED BY <3>5, <5>1, <5>2
      <4>. QED BY <2>1, <4>1
    <3>. QED BY <2>2, <3>1, <3>2, <3>3, <3>4, <3>5 DEF Pictured
  <2>3. CASE Elsewhere
    <3>1. UNCHANGED <<buffer, pc>> /\ (new_rx_frame' => new_rx_frame)
      BY <2>3, ElsewhereStep
    <3>. QED BY <2>1, <3>1
  <2>. QED BY <2>2, <2>3, StepsSplit
<1>. QED BY <1>1, <1>2, TypeCorrect, PTL DEF Spec

LEMMA DescriptionInvariant == Spec => []DescriptionInv
<1> DEFINE Flagged == new_rx_frame \/ pc \in {"copied", "flagged", "calling"}
<1>pcs. /\ Holding = {"resized", "coloured", "tall", "described"}
        /\ Describing = {"coloured", "tall", "described"}
  BY DEF Holding, Describing
<1>1. Init => DescriptionInv
  BY DEF Init, DescriptionInv
<1>2. ASSUME TypeOK, ReceiverInv, PictureInv, DescriptionInv, [Next]_vars
      PROVE  DescriptionInv'
  <2> USE <1>2
  <2>1. ASSUME UNCHANGED <<receiver, stream>>, abandoned => abandoned',
               ~misused, pc \notin Describing,
               buffer'.height = buffer.height, buffer'.width = buffer.width,
               buffer'.encoding = buffer.encoding, Flagged' => Flagged
        PROVE  DescriptionInv'
    <3>1. Calls' = Calls
      BY <2>1, SameTables
    <3>2. Fits' <=> Fits
      BY <2>1 DEF Fits
    <3>. QED BY <2>1, <3>1, <3>2 DEF DescriptionInv
  <2>2. CASE Pictured /\ Next
    <3>1. ~misused /\ receiver' = receiver /\ Calls' = Calls
      BY <2>2, SameReceiver, SameTables DEF Next, Defined
    <3>2. ASSUME NEW size, NEW encoding, SetStreamInfo(size, encoding)
          PROVE  DescriptionInv'
      <4>1. /\ pipeline # "playing" /\ ~abandoned
            /\ UNCHANGED <<new_rx_frame, pc>>
        BY <3>2 DEF SetStreamInfo, streaming
      <4>2. pc = "idle" /\ (Calls.clears => ~new_rx_frame)
        BY <3>1, <4>1 DEF ReceiverInv, QuietInv
      <4>3. Calls.late => Calls.clears
        BY ReceiverTables DEF Calls, Class, TypeOK
      <4>. QED BY <3>1, <4>1, <4>2, <4>3 DEF DescriptionInv
    <3>3. ASSUME NEW size \in Sizes, NEW format \in PictureFormats,
                 Pull(size, format)
          PROVE  DescriptionInv'
      <4>1. PictureBytes(format, size.height, size.width) \in Nat
        BY PicturesTyped, SizesAreNats, PictureBytesNat DEF TypeOK
      <4>2. /\ buffer'.height = buffer.height /\ buffer'.width = buffer.width
            /\ buffer'.encoding = buffer.encoding
        BY <3>3, <4>1, ResizedTyped DEF Pull
      <4>3. /\ pc = "idle" /\ pc' = "resized"
            /\ UNCHANGED <<stream, abandoned, new_rx_frame>>
        BY <3>3 DEF Pull, lifecycle
      <4>. QED BY <1>pcs, <2>1, <3>1, <4>2, <4>3
    <3>4. CASE Setting
      BY <3>4, SettingStep DEF DescriptionInv
    <3>5. CASE Copy
      <4>1. /\ buffer'.height = sample.height /\ buffer'.width = sample.width
            /\ buffer'.encoding = SampleEncoding
        BY <3>5 DEF Copy, TypeOK
      <4>2. pc = "described" /\ stream' = stream
        BY <3>5 DEF Copy
      <4>3. /\ stream.height = sample.height /\ stream.width = sample.width
            /\ stream.encoding = SampleEncoding
        BY <1>pcs, <4>2 DEF PictureInv
      <4>. QED BY <4>1, <4>2, <4>3 DEF DescriptionInv, Fits
    <3>6. CASE TimesOut
      <4>1. /\ buffer'.height = buffer.height /\ buffer'.width = buffer.width
            /\ buffer'.encoding = buffer.encoding
        BY <3>6 DEF TimesOut, TypeOK
      <4>2. UNCHANGED <<stream, abandoned, new_rx_frame, pc>>
        BY <3>6 DEF TimesOut, lifecycle
      <4>3. CASE pc \in Describing
        <5>1. Describing' = Describing
          BY DEF Describing
        <5>. QED BY <4>2, <4>3, <5>1 DEF DescriptionInv
      <4>. QED BY <2>1, <3>1, <4>1, <4>2, <4>3
    <3>7. CASE SetFlag \/ NewFrame \/ CallbackEnds
      <4>1. /\ pc \in {"copied", "flagged", "calling"}
            /\ UNCHANGED <<stream, buffer, abandoned>>
        BY <3>7 DEF SetFlag, NewFrame, CallbackEnds, lifecycle
      <4>. QED BY <1>pcs, <2>1, <3>1, <4>1
    <3>. QED BY <2>2, <3>2, <3>3, <3>4, <3>5, <3>6, <3>7 DEF Pictured
  <2>3. CASE Elsewhere /\ Next
    <3>1. /\ UNCHANGED <<receiver, stream, buffer, pc>>
          /\ abandoned => abandoned'
          /\ new_rx_frame' => new_rx_frame
      BY <2>3, ElsewhereStep
    <3>2. ~misused
      BY <2>3 DEF Next, Defined
    <3>3. CASE pc \in Describing
      <4>1. Describing' = Describing
        BY DEF Describing
      <4>. QED BY <3>1, <3>3, <4>1 DEF DescriptionInv
    <3>4. CASE pc \notin Describing
      <4>1. Flagged' => Flagged
        <5>1. pc' = pc
          BY <3>1
        <5>2. new_rx_frame' => new_rx_frame
          BY <3>1, Zenon
        <5>. QED BY <5>1, <5>2, Zenon
      <4>2. /\ buffer'.height = buffer.height /\ buffer'.width = buffer.width
            /\ buffer'.encoding = buffer.encoding
        BY <3>1
      <4> HIDE DEF Flagged
      <4>3. UNCHANGED <<receiver, stream>>
        BY <3>1
      <4>4. abandoned => abandoned'
        BY <3>1, Zenon
      <4>. QED BY <2>1, <3>2, <3>4, <4>1, <4>2, <4>3, <4>4
    <3>. QED BY <3>3, <3>4
  <2>4. CASE UNCHANGED vars
    <3>1. Calls' = Calls
      BY <2>4, SameTables DEF vars, environment
    <3>2. UNCHANGED <<stream, buffer, pc, new_rx_frame, abandoned, misused>>
      BY <2>4 DEF vars, lifecycle, streaming
    <3>. QED BY <3>1, <3>2 DEF DescriptionInv, Fits, Describing
  <2>. QED BY <2>2, <2>3, <2>4, StepsSplit
<1>. QED BY <1>1, <1>2, TypeCorrect, ReceiverInvariant, PictureInvariant, PTL
         DEF Spec

LEMMA TakingInvariant == Spec => []TakingInv
<1> USE DEF environment, lifecycle, streaming
<1>api. Reading = {"height", "width", "encoding"}
  BY DEF Reading
<1>1. Init => TakingInv
  BY <1>api DEF Init, TakingInv, Taken
<1>2. ASSUME TypeOK, DescriptionInv, TakingInv, [Next]_vars PROVE TakingInv'
  <2> USE <1>2
  <2>same. Calls' = Calls
    <3>1. receiver' = receiver
      BY ElsewhereStep, SameReceiver, StepsSplit
    <3>. QED BY <3>1, SameTables
  <2>pcs. Describing' = Describing /\ Reading' = Reading
    BY DEF Describing, Reading
  <2>1. CASE UNCHANGED vars
    <3>1. UNCHANGED <<api, new_rx_frame, abandoned, misused, overtaken, pc,
                      data, buffer>>
      BY <2>1 DEF vars
    <3>. QED BY <2>same, <2>pcs, <3>1 DEF TakingInv, Taken
  <2>2. CASE WaitEnds
    <3>1. /\ new_rx_frame' /\ pc' = pc /\ overtaken' = (pc \in Describing)
          /\ api' = IF Calls.late THEN "height" ELSE "taking"
      BY <2>2 DEF WaitEnds
    <3>. QED BY <2>same, <2>pcs, <3>1 DEF TakingInv, Taken
  <2>3. CASE ReadPointer
    <3>1. api' = "waiting"
      BY <2>3 DEF ReadPointer
    <3>. QED BY <1>api, <2>pcs, <3>1 DEF TakingInv, Taken
  <2>4. CASE Calls.late /\ ReadDescription /\ Next
    <3>1. /\ Taken /\ Calls.late /\ api \in Reading /\ ~misused
          /\ data' = Described
          /\ api' = CASE api = "height" -> "width"
                      [] api = "width"  -> "encoding"
                      [] OTHER          -> "taking"
          /\ UNCHANGED <<stream, abandoned, misused, new_rx_frame, buffer, pc,
                         overtaken>>
      BY <2>4 DEF ReadDescription, Taken, Next, Defined
    <3>2. new_rx_frame'
      BY <3>1 DEF TakingInv
    <3>3. ASSUME ~abandoned, ~overtaken
          PROVE  /\ pc \notin Describing /\ Fits
                 /\ api # "height" => data.height = buffer.height
                 /\ api \in {"encoding", "taking"} => data.width = buffer.width
      BY <3>1, <3>3 DEF TakingInv, DescriptionInv
    <3>4. CASE api = "height"
      <4>1. api' = "width" /\ data'.height = stream.height
        BY <3>1, <3>4 DEF Described, TypeOK
      <4>. QED BY <2>same, <2>pcs, <3>1, <3>2, <3>3, <4>1 DEF TakingInv, Fits
    <3>5. CASE api = "width"
      <4>1. /\ api' = "encoding" /\ data'.width = stream.width
            /\ data'.height = data.height
        BY <3>1, <3>5 DEF Described, TypeOK
      <4>. QED BY <2>same, <2>pcs, <3>1, <3>2, <3>3, <3>5, <4>1
               DEF TakingInv, Fits
    <3>6. CASE api = "encoding"
      <4>1. /\ api' = "taking" /\ data'.encoding = stream.encoding
            /\ data'.height = data.height /\ data'.width = data.width
        BY <3>1, <3>6 DEF Described, TypeOK
      <4>. QED BY <2>same, <2>pcs, <3>1, <3>2, <3>3, <3>6, <4>1
               DEF TakingInv, Fits
    <3>. QED BY <1>api, <3>1, <3>4, <3>5, <3>6
  <2>5. CASE /\ UNCHANGED <<data, api>> /\ Taken /\ Next
    <3>1. ASSUME UNCHANGED <<abandoned, misused>>,
                 buffer'.height = buffer.height, buffer'.width = buffer.width,
                 buffer'.encoding = buffer.encoding,
                 new_rx_frame => new_rx_frame',
                 overtaken => overtaken',
                 pc' \in Describing => pc \in Describing \/ overtaken'
          PROVE  TakingInv'
      <4>1. Taken' <=> Taken
        BY <2>same, <2>pcs, <2>5 DEF Taken
      <4>. QED BY <2>same, <2>pcs, <2>5, <3>1, <4>1 DEF TakingInv
    <3>2. CASE Setting
      <4>1. /\ UNCHANGED <<abandoned, misused, buffer, new_rx_frame>>
            /\ overtaken' = (overtaken \/ Seen)
        BY <3>2, SettingStep
      <4>2. CASE Calls.late
        <5>1. overtaken'
          BY <2>5, <4>1, <4>2 DEF Taken, Seen
        <5>. QED BY <3>1, <4>1, <5>1
      <4>3. CASE ~Calls.late
        <5>1. new_rx_frame'
          BY <2>5, <4>1 DEF TakingInv
        <5>. QED BY <2>same, <4>3, <5>1 DEF TakingInv
      <4>. QED BY <4>2, <4>3
    <3>3. CASE Copy
      <4>1. /\ pc = "described" /\ pc' = "copied"
            /\ UNCHANGED <<abandoned, misused, new_rx_frame, overtaken>>
        BY <3>3 DEF Copy
      <4>2. pc \in Describing
        BY <4>1 DEF Describing
      <4>3. Taken' <=> Taken
        BY <2>same, <2>pcs, <2>5 DEF Taken
      <4>. QED BY <2>same, <2>5, <4>1, <4>2, <4>3 DEF TakingInv
    <3>4. ASSUME NEW size \in Sizes, NEW format \in PictureFormats,
                 Pull(size, format)
          PROVE  TakingInv'
      <4>1. PictureBytes(format, size.height, size.width) \in Nat
        BY PicturesTyped, SizesAreNats, PictureBytesNat DEF TypeOK
      <4>2. /\ buffer'.height = buffer.height /\ buffer'.width = buffer.width
            /\ buffer'.encoding = buffer.encoding
        BY <3>4, <4>1, ResizedTyped DEF Pull
      <4>3. /\ pc' = "resized"
            /\ UNCHANGED <<abandoned, misused, new_rx_frame, overtaken>>
        BY <3>4 DEF Pull
      <4>. QED BY <3>1, <4>2, <4>3 DEF Describing
    <3>5. CASE SetFlag \/ NewFrame \/ CallbackEnds
      <4>1. /\ pc' \in {"idle", "flagged", "calling"}
            /\ new_rx_frame => new_rx_frame'
            /\ UNCHANGED <<abandoned, misused, buffer, overtaken>>
        BY <3>5 DEF SetFlag, NewFrame, CallbackEnds
      <4>. QED BY <3>1, <4>1 DEF Describing
    <3>6. CASE TimesOut
      BY <2>5, <3>6 DEF TimesOut, ReceiveReturns
    <3>7. ASSUME NEW size, NEW encoding, SetStreamInfo(size, encoding)
          PROVE  FALSE
      BY <1>api, <2>5, <3>7 DEF SetStreamInfo, Taken
    <3>8. CASE Call \/ ClientThread
      <4>1. CASE Call
        BY <1>api, <2>5, <4>1
           DEF Call, SetStreamInfo, Receive, BeginStop, RegisterCallback,
               Open, Start, Close, Destroy, Taken
      <4>2. CASE WaitLooks \/ WaitSleeps \/ TimesOut \/ WaitEnds
        BY <1>api, <2>5, <4>2 DEF WaitLooks, WaitSleeps, TimesOut, WaitEnds,
                                  Taken
      <4>3. CASE StopReturns \/ ReturnTrue \/ ReadPointer
        BY <1>api, <2>5, <4>3 DEF StopReturns, ReturnTrue, ReadPointer,
                                  ReceiveReturns, Taken
      <4>4. CASE ReadDescription
        <5>1. api' # api
          BY <1>api, <4>4, Zenon DEF ReadDescription
        <5>. QED BY <2>5, <5>1
      <4>. QED BY <3>8, <4>1, <4>2, <4>3, <4>4 DEF ClientThread
    <3>. QED BY <2>5, <3>2, <3>3, <3>4, <3>5, <3>8
             DEF Next, CallbackThread, Setting
  <2>6. CASE ~Taken'
    BY <2>6 DEF TakingInv
  <2>7. CASE Taken' /\ ~UNCHANGED vars
    <3>1. Next
      BY <2>7
    <3>2. Waiting'
      BY <2>7 DEF Waiting
    <3>3. CASE UNCHANGED <<data, api>>
      <4>1. Taken
        BY <2>same, <2>pcs, <2>7, <3>3 DEF Taken
      <4>. QED BY <2>5, <3>1, <3>3, <4>1
    <3>4. CASE api' \in {"waiting", "looking"}
      BY <1>api, <2>7, <2>pcs, <3>4 DEF Taken
    <3>. QED BY <2>2, <2>3, <2>4, <3>1, <3>2, <3>3, <3>4, ClientMoves
             DEF Moves
  <2>. QED BY <2>1, <2>6, <2>7
<1>. QED BY <1>1, <1>2, TypeCorrect, DescriptionInvariant, PTL DEF Spec

(* What a true Receive() hands out, over every interleaving of the client,   *)
(* the streaming thread and the clock: the pointer read before the wait is   *)
(* still the buffer's unless a picture outgrew it; height, width and         *)
(* encoding, read one by one behind the wait, are the picture's unless the   *)
(* setters were at work on another picture in the meantime; and a timeout    *)
(* blanked the bytes only when it raced the frame.                           *)
THEOREM ReceivedFrames == Spec => ReceivedFrameIsSound
<1>1. ASSUME PointerInv, [Next]_vars
      PROVE  api = "taking" /\ api' = "idle" =>
               \/ data.storage = buffer.storage
               \/ buffer.storage > ReservedBytes(announced)
  BY <1>1 DEF PointerInv, Waiting, Taken, Least
<1>2. ASSUME TakingInv, [Next]_vars
      PROVE  /\ api = "taking" /\ api' = "idle"
             /\ Calls.late /\ ~abandoned /\ ~overtaken
             => \A field \in Reading : data[field] = buffer[field]
  <2> SUFFICES ASSUME api = "taking", api' = "idle", Calls.late, ~abandoned,
                      ~overtaken
               PROVE  /\ data.height = buffer.height
                      /\ data.width = buffer.width
                      /\ data.encoding = buffer.encoding
    BY DEF Reading
  <2>1. ~misused
    BY <1>2 DEF vars, Next, Defined
  <2>. QED BY <1>2, <2>1 DEF TakingInv, Taken
<1>3. ASSUME BlankInv, TakingInv, [Next]_vars
      PROVE  api = "taking" /\ api' = "idle" => buffer.blank # "quietly"
  BY <1>3 DEF BlankInv, TakingInv, Taken
<1>. QED BY <1>1, <1>2, <1>3, PointerInvariant, TakingInvariant,
            BlankInvariant, PTL
         DEF Spec, ReceivedFrameIsSound, PointerSurvivesWait,
             FrameIsDescribed, BlankOnlyByRace
=============================================================================
