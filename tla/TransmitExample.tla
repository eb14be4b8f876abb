--------------------------- MODULE TransmitExample ---------------------------
(***************************************************************************)
(* The program rtp-transmit (src/example/rtp_transmit/transmit-example.cc):*)
(* announce a stream, prepare the image of the source asked for, and send  *)
(* it at the frame rate until a signal or the number of frames asked for   *)
(* ends the loop.  Sizes are in bytes.                                     *)
(***************************************************************************)
EXTENDS Encodings, V4l2Source

CONSTANTS
  Height, Width,  \* of the stream
  PngPixels,   \* pixels a PNG file may have (0: it cannot be read)
  Lengths,     \* lengths a camera's buffer may have
  NumFrames    \* values of -num_frames (0: no limit)

ASSUME ExampleAssumption ==
  /\ Height \in Nat \ {0} /\ Width \in Nat \ {0}
  /\ PngPixels \subseteq Nat /\ Lengths \subseteq Nat /\ NumFrames \subseteq Nat

VARIABLES
  source, mode, num_frames,  \* the flags
  pc,                        \* where main() is
  back,                      \* where CaptureFrame() returns to
  application_running,
  video, transmit,           \* sizes of video_buffer and transmit_buffer
  count,                     \* count, while frames are counted
  announcer, payloader,      \* "off", "on"; "closed", "open", "started"
  overrun                    \* history: the accesses that left their buffers

flags == <<source, mode, num_frames>>
buffers == <<video, transmit>>
streams == <<announcer, payloader>>
everything == <<flags, pc, back, application_running, buffers, count, streams,
                overrun, camera>>

Pixels == Height * Width
Sources == 0 .. 13     \* 13 stands for every number without a source
ExampleInit ==
  /\ source \in Sources /\ mode \in 0 .. 6 /\ num_frames \in NumFrames
  /\ pc = "open" /\ back = "start" /\ application_running = TRUE
  /\ video = 0 /\ transmit = Pixels * BytesPerPixel(GetMode(mode))
  /\ count = 1 /\ announcer = "off" /\ payloader = "closed" /\ overrun = {}
  /\ V4L2Capture

video_mode == GetMode(mode)
Image == Pixels * BytesPerPixel(video_mode)
-----------------------------------------------------------------------------
From(p) == pc = p /\ UNCHANGED flags
GoTo(p) == pc' = p
Ended == pc \in {"done", "returned"}

(* signalHandler().                                                          *)
Signal ==
  /\ application_running /\ ~Ended /\ application_running' = FALSE
  /\ UNCHANGED <<flags, pc, back, buffers, count, streams, overrun, camera>>

(* The stream is announced before it is opened, and stays announced when     *)
(* main() returns because it could not be.                                   *)
Open ==
  /\ From("open")
  /\ announcer' = "on"
  /\ \/ payloader' = "open" /\ GoTo("source")
     \/ payloader' = "closed" /\ GoTo("returned")
  /\ UNCHANGED <<back, application_running, buffers, count, overrun, camera>>

(* An access that reaches so many bytes, of a buffer that has so many.       *)
Within(access, reached, size) ==
  overrun' = overrun \cup (IF reached > size THEN {access} ELSE {})

VideoBytesMutant == Pixels
VideoBytes == Pixels * 3       \* kBuffSizeRGB

(* Test cards are drawn in the encoding of the stream.                       *)
CardSource ==
  /\ From("source") /\ source \in 2 .. 12
  /\ video' = VideoBytes
  /\ Within("card", Image, video') /\ GoTo("start")
  /\ UNCHANGED <<back, application_running, transmit, count, streams, camera>>

(* ReadPngRgb24() returns four bytes for each pixel of the file, or nothing. *)
ReadPngRgb24(pixels) == 4 * pixels

(* RgbaToRgb() takes the image to be of the size of the stream.              *)
PngSource ==
  /\ From("source") /\ source = 0
  /\ \E pixels \in PngPixels : video' = ReadPngRgb24(pixels)
  /\ IF video' = 0 THEN GoTo("returned") /\ UNCHANGED overrun
                   ELSE GoTo("start") /\ Within("png", 4 * Pixels, video')
  /\ UNCHANGED <<back, application_running, transmit, count, streams, camera>>

CameraSource ==
  /\ From("source") /\ source = 1
  /\ video' = VideoBytes
  /\ \E failing \in 0 .. 8, length \in Lengths :
       /\ Initalise(failing, length)
       /\ GoTo(IF failing = 0 THEN "dequeue" ELSE "returned")
  /\ UNCHANGED <<back, application_running, transmit, count, streams, overrun>>

(* Logged, and otherwise ignored.                                            *)
NoSource ==
  /\ From("source") /\ source = 13 /\ GoTo("start")
  /\ UNCHANGED <<back, application_running, buffers, count, streams, overrun,
                 camera>>

Start ==
  /\ From("start") /\ GoTo("loop")
  /\ payloader' = "started" /\ UNCHANGED announcer
  /\ UNCHANGED <<back, application_running, buffers, count, overrun, camera>>
-----------------------------------------------------------------------------
LoopOnMutant == application_running \/ num_frames = 0
LoopOn == application_running

LoopEnds ==
  /\ From("loop") /\ ~LoopOn /\ GoTo("stop")
  /\ UNCHANGED <<back, application_running, buffers, count, streams, overrun,
                 camera>>

(* A new picture of white noise, or a copy of the image.                     *)
CopyImage ==
  /\ From("loop") /\ LoopOn /\ source # 1 /\ GoTo("transmit")
  /\ IF source = 11 THEN Within("noise", Image, transmit)
                    ELSE Within("image", Image, video)
  /\ UNCHANGED <<back, application_running, buffers, count, streams, camera>>

(* The camera's image goes to video_buffer, what is sent is transmit_buffer. *)
CaptureImage ==
  /\ From("loop") /\ LoopOn /\ source = 1 /\ GoTo("dequeue")
  /\ back' = "transmit"
  /\ UNCHANGED <<application_running, buffers, count, streams, overrun, camera>>

(* CaptureFrame(); what it returns is not looked at.                         *)
Return == GoTo(back)

CaptureDequeue ==
  /\ From("dequeue")
  /\ \/ Dequeue /\ GoTo("copy")
     \/ Return /\ UNCHANGED camera
  /\ UNCHANGED <<back, application_running, buffers, count, streams, overrun>>

(* Two bytes for each pixel are copied out of the mapping.                   *)
CaptureBytes == Pixels * 2

CaptureCopy ==
  /\ From("copy") /\ GoTo("requeue")
  /\ overrun' = overrun \cup (IF CaptureBytes > mapped THEN {"mapping"} ELSE {})
                       \cup (IF CaptureBytes > video THEN {"camera"} ELSE {})
  /\ UNCHANGED <<back, application_running, buffers, count, streams, camera>>

CaptureRequeue ==
  /\ From("requeue") /\ Return
  /\ Requeue \/ UNCHANGED camera
  /\ UNCHANGED <<back, application_running, buffers, count, streams, overrun>>

(* The encodings for which main() makes an RtpUncompressedPayloader.         *)
Uncompressed == {"Rgb24", "Yuv422", "Mono8", "Mono16"}

(* What rtp->Transmit() reads of transmit_buffer: the uncompressed payloader *)
(* the rows 1 to Height, counted from 0 (fewer, if it cannot send), a VAAPI  *)
(* one three bytes for each pixel.                                           *)
TransmitReads ==
  \/ Within("row", IF video_mode \in Uncompressed
                   THEN (Height + 1) * (Width * BytesPerPixel(video_mode))
                   ELSE VideoBytes, transmit)
  \/ video_mode \in Uncompressed /\ UNCHANGED overrun

(* The frame is sent when its time has come; the count is looked at behind   *)
(* it, before it is increased.                                               *)
Transmit ==
  /\ From("transmit")
  /\ TransmitReads
  /\ IF num_frames > 0 /\ count > num_frames
     THEN GoTo("stop") /\ UNCHANGED count
     ELSE GoTo("loop") /\ count' = IF num_frames > 0 THEN count + 1 ELSE count
  /\ UNCHANGED <<back, application_running, buffers, streams, camera>>

(* The streams are stopped and main() returns, which destroys the camera.    *)
Stop ==
  /\ From("stop") /\ GoTo("done")
  /\ announcer' = "off" /\ payloader' = "closed"
  /\ DestroyV4L2Capture
  /\ IF fd_ = "open" /\ buffer_ # "none" THEN Within("unmap", VideoBytes, mapped)
                                         ELSE UNCHANGED overrun
  /\ UNCHANGED <<back, application_running, buffers, count>>

main ==
  \/ Open \/ CardSource \/ PngSource \/ CameraSource \/ NoSource \/ Start
  \/ LoopEnds \/ CopyImage \/ CaptureImage \/ CaptureCopy \/ CaptureRequeue
  \/ Transmit \/ Stop

Driver ==
  /\ Fill /\ ~Ended
  /\ UNCHANGED <<flags, pc, back, application_running, buffers, count, streams,
                 overrun>>

ExampleNext == main \/ CaptureDequeue \/ Signal \/ Driver

(* The program runs on; it goes on from a frame the driver has filled.       *)
(* Nothing is assumed of the driver or of signals.                           *)
Example ==
  /\ ExampleInit /\ [][ExampleNext]_everything
  /\ WF_everything(main) /\ WF_everything(CaptureDequeue /\ owner = "filled")
-----------------------------------------------------------------------------
(* Test cards, noise and the camera's images are written within the buffers  *)
(* they are for, whatever the source, the mode and the failures.  Four cases *)
(* are left, of which the program looks at none: a PNG file smaller than the *)
(* stream, a source that does not exist, of which it copies an image it      *)
(* never made, a camera whose buffer is smaller than what is copied from it  *)
(* or unmapped, and the row behind its frame that the uncompressed payloader *)
(* sends.                                                                    *)
CopiesWithinBuffers ==
  \A access \in overrun :
    \/ access = "png" /\ video < 4 * Pixels
    \/ access = "image" /\ (source = 13 \/ (source = 0 /\ video < 4 * Pixels))
    \/ access = "mapping" /\ \E length \in Lengths : length < CaptureBytes
    \/ access = "unmap" /\ \E length \in Lengths : length < VideoBytes
    \/ access = "row" /\ video_mode \in Uncompressed

(* A signal ends the program, with its stream no longer announced unless it  *)
(* never came to run; only a camera that gives no image can prevent it.      *)
SignalEnds ==
  ~application_running
    ~> (pc = "done" /\ announcer = "off") \/ pc = "returned"
       \/ (pc = "dequeue" /\ owner # "filled")
=============================================================================
