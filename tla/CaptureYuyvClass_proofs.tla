----------------------- MODULE CaptureYuyvClass_proofs -----------------------
(***************************************************************************)
(* Theorems about the capture programs, for every number of buffers asked  *)
(* for and granted and every number of images.                             *)
(***************************************************************************)
EXTENDS CaptureYuyvClass, TLAPS

SettingUp == {"open", "init", "request"}
Looping == {"select", "read", "image", "requeue"}
Ending == {"uninit", "close", "done"}

(* What is set up at each step of main(), up to the streaming device.        *)
SetupInv ==
  /\ streaming => io = "mmap" /\ allocated
  /\ pc \in SettingUp => /\ step = 0 \/ (pc = "init" /\ step \in 0 .. 5)
                         /\ ~streaming /\ count = Frames /\ saved = {}
  /\ pc \in SettingUp => \A b \in Buffers : owner[b] = "program"
  /\ pc = "queue" => /\ step <= n_buffers /\ allocated /\ ~streaming
                     /\ count = Frames /\ saved = {}
  /\ pc \in Looping \cup {"stop"} => allocated /\ streaming = (io # "read")
  /\ pc \in Ending => ~streaming

(* Which buffers the device has: of mapped buffers, all those queued so far; *)
(* the second user buffer is refused, so that a device that streams has      *)
(* mapped ones.  In the loop only the one whose image is converted is out.   *)
BufferInv ==
  /\ pc = "queue" /\ io = "mmap"
       => \A b \in Buffers : (b < step <=> owner[b] # "program")
  /\ pc = "queue" /\ io = "read" => n_buffers = 0
  /\ pc = "queue" /\ io = "userptr"
       => /\ n_buffers = Requested
          /\ step > 0 => step = 1 /\ owner[0] # "program"
  /\ pc \in {"select", "read"} /\ streaming
       => \A b \in Buffers : b < n_buffers => owner[b] # "program"
  /\ pc \in {"image", "requeue"} /\ io # "read"
       => /\ owner[current] = "program"
          /\ \A b \in Buffers : b < n_buffers /\ b # current
                                  => owner[b] # "program"

(* How many images are saved at each step of the loop.                       *)
ImageInv ==
  /\ pc \in {"read", "image", "requeue"} => count > 0
  /\ pc \in {"select", "read", "image"} => saved = 1 .. Frames - count
  /\ pc = "requeue" => saved = 1 .. Frames - count + 1
  /\ pc = "stop" => count = 0
  /\ pc \in Ending \cup {"stop"} => saved = 1 .. Frames

CaptureInv == TypeOK /\ SetupInv /\ BufferInv /\ ImageInv
-----------------------------------------------------------------------------
(* Each step keeps the invariant.                                            *)
THEOREM CaptureInvariant == Spec => []CaptureInv
<1> USE CaptureAssumption DEF CaptureAssumption
<1>1. Init \/ InitClass => CaptureInv
  <2> SUFFICES ASSUME NEW name \in {"v4l2", "v4l2c++", "caller"},
                      NEW method \in Methods,
                      asked \in Methods, InitWith(name, method)
               PROVE CaptureInv
    BY DEF Init, InitClass, V4l2_Capture_YUYV, MethodOf, Methods
  <2> USE DEF InitWith, SettingUp, Looping, Ending, Buffers
  <2>1. TypeOK
    <3>1. /\ asked \in Methods /\ io \in Methods
          /\ program \in {"v4l2", "v4l2c++", "caller"}
      OBVIOUS
    <3>2. /\ owner \in [Buffers -> {"program", "queued", "filled"}]
          /\ current \in Buffers
      OBVIOUS
    <3>3. count \in 0 .. Frames /\ saved \subseteq 1 .. Frames
      OBVIOUS
    <3>4. /\ pc = "open" /\ step \in Nat /\ n_buffers \in 0 .. Requested
          /\ allocated = FALSE /\ streaming = FALSE /\ fault = FALSE
      OBVIOUS
    <3>. QED BY <3>1, <3>2, <3>3, <3>4, Zenon DEF TypeOK
  <2>2. SetupInv /\ BufferInv /\ ImageInv
    BY DEF SetupInv, BufferInv, ImageInv
  <2>. QED BY <2>1, <2>2 DEF CaptureInv
<1>2. CaptureInv /\ [Next]_vars => CaptureInv'
  <2> SUFFICES ASSUME CaptureInv, [Next]_vars PROVE CaptureInv'
    OBVIOUS
  <2> USE DEF CaptureInv, SettingUp, Looping, Ending, Buffers, From, GoTo,
              session, setup, device, images
  <2>1. CASE open_device
    <3>1. TypeOK'
      BY <2>1 DEF TypeOK, Methods, open_device
    <3>2. SetupInv'
      BY <2>1 DEF TypeOK, SetupInv, BufferInv, open_device
    <3>3. BufferInv'
      BY <2>1 DEF TypeOK, SetupInv, BufferInv, open_device
    <3>4. ImageInv'
      BY <2>1 DEF TypeOK, SetupInv, ImageInv, open_device
    <3>. QED BY <3>1, <3>2, <3>3, <3>4
  <2>2. CASE init_device
    <3>1. TypeOK'
      BY <2>2 DEF TypeOK, Methods, init_device, InitCalls
    <3>2. SetupInv'
      BY <2>2 DEF TypeOK, SetupInv, BufferInv, init_device, InitCalls
    <3>3. BufferInv'
      BY <2>2 DEF TypeOK, SetupInv, BufferInv, init_device, InitCalls
    <3>4. ImageInv'
      BY <2>2 DEF TypeOK, SetupInv, ImageInv, init_device, InitCalls
    <3>. QED BY <3>1, <3>2, <3>3, <3>4
  <2>3. CASE init_read \/ init_mmap \/ init_userp
    <3>1. PICK number \in 0 .. Requested :
            /\ Allocate(number)
            /\ io = "userptr" => number = Requested
            /\ io = "read" => number = 0
      <4>1. CASE init_read
        BY <4>1 DEF init_read
      <4>2. CASE init_mmap
        BY <4>2 DEF init_mmap
      <4>3. CASE init_userp
        BY <4>3 DEF init_userp
      <4>. QED BY <2>3, <4>1, <4>2, <4>3
    <3>2. TypeOK'
      BY <3>1 DEF TypeOK, Methods, Allocate
    <3>3. SetupInv'
      BY <3>1 DEF TypeOK, SetupInv, Allocate
    <3>4. BufferInv'
      <4>1. /\ pc' = "queue" /\ step' = 0 /\ io' = io /\ n_buffers' = number
            /\ \A b \in Buffers : owner'[b] = "program"
        BY <3>1 DEF SetupInv, Allocate
      <4>. QED BY <3>1, <4>1 DEF BufferInv
    <3>5. ImageInv'
      BY <3>1 DEF ImageInv, Allocate
    <3>. QED BY <3>2, <3>3, <3>4, <3>5
  <2>4. CASE start_capturing
    <3> USE DEF start_capturing, TypeOK, Methods
    <3>1. CASE step = n_buffers
      <4>1. ~(io = "userptr")
        BY <2>4, <3>1 DEF BufferInv
      <4>2. pc' = "select" /\ step' = 0 /\ streaming' = (io # "read")
        BY <2>4, <3>1
      <4>3. UNCHANGED <<session, fault, owner, n_buffers, allocated, images>>
        BY <2>4, <3>1
      <4>4. TypeOK'
        BY <4>2, <4>3
      <4>5. SetupInv'
        BY <2>4, <4>1, <4>2, <4>3 DEF SetupInv
      <4>6. BufferInv' /\ ImageInv'
        BY <2>4, <3>1, <4>1, <4>2, <4>3 DEF BufferInv, SetupInv, ImageInv
      <4>. QED BY <4>4, <4>5, <4>6
    <3>2. CASE step # n_buffers /\ owner[QueuedIndex] = "program"
      <4>1. /\ pc = "queue" /\ pc' = "queue" /\ step < n_buffers
            /\ step' = step + 1 /\ QueuedIndex \in Buffers
            /\ owner' = [owner EXCEPT ![QueuedIndex] = "queued"]
        BY <2>4, <3>2 DEF QueuedIndex
      <4>2. UNCHANGED <<session, fault, streaming, n_buffers, allocated,
                       images>>
        BY <2>4, <3>2
      <4>3. TypeOK'
        BY <4>1, <4>2
      <4>4. SetupInv' /\ ImageInv'
        BY <4>1, <4>2 DEF SetupInv, ImageInv
      <4>5. BufferInv'
        BY <3>2, <4>1, <4>2 DEF BufferInv, QueuedIndex
      <4>. QED BY <4>3, <4>4, <4>5
    <3>3. CASE step # n_buffers /\ owner[QueuedIndex] # "program"
      <4>1. /\ pc' = "failed"
            /\ UNCHANGED <<session, fault, setup, device, images>>
        BY <2>4, <3>3
      <4>. QED BY <4>1 DEF SetupInv, BufferInv, ImageInv
    <3>. QED BY <3>1, <3>2, <3>3
  <2>5. CASE mainloop
    <3>1. TypeOK'
      BY <2>5 DEF TypeOK, Methods, mainloop, SelectReady, SelectTimesOut,
                  OnTimeout, MainloopEnds, More, Filled
    <3>2. SetupInv'
      BY <2>5 DEF TypeOK, SetupInv, BufferInv, mainloop, SelectReady,
                  SelectTimesOut, OnTimeout, MainloopEnds, More, Filled
    <3>3. BufferInv'
      BY <2>5 DEF TypeOK, SetupInv, BufferInv, mainloop, SelectReady,
                  SelectTimesOut, OnTimeout, MainloopEnds, More, Filled
    <3>4. ImageInv'
      BY <2>5 DEF TypeOK, SetupInv, ImageInv, mainloop, SelectReady,
                  SelectTimesOut, OnTimeout, MainloopEnds, More, Filled
    <3>. QED BY <3>1, <3>2, <3>3, <3>4
  <2>6. CASE TryAgain
    <3>1. TypeOK'
      BY <2>6 DEF TypeOK, Methods, TryAgain, Again
    <3>2. SetupInv'
      BY <2>6 DEF TypeOK, SetupInv, BufferInv, TryAgain, Again
    <3>3. BufferInv'
      BY <2>6 DEF TypeOK, SetupInv, BufferInv, TryAgain, Again
    <3>4. ImageInv'
      BY <2>6 DEF TypeOK, SetupInv, ImageInv, TryAgain, Again
    <3>. QED BY <3>1, <3>2, <3>3, <3>4
  <2>7. CASE read_frame
    <3>1. TypeOK'
      BY <2>7 DEF TypeOK, Methods, read_frame, Filled, Dequeue
    <3>2. SetupInv'
      BY <2>7 DEF TypeOK, SetupInv, BufferInv, read_frame, Filled, Dequeue
    <3>3. BufferInv'
      BY <2>7 DEF TypeOK, SetupInv, BufferInv, read_frame, Filled, Dequeue
    <3>4. ImageInv'
      BY <2>7 DEF TypeOK, SetupInv, ImageInv, read_frame, Filled, Dequeue
    <3>. QED BY <3>1, <3>2, <3>3, <3>4
  <2>8. CASE process_image
    <3>1. TypeOK'
      BY <2>8 DEF TypeOK, Methods, process_image, ImageInv
    <3>2. SetupInv'
      BY <2>8 DEF TypeOK, SetupInv, BufferInv, process_image, ImageInv
    <3>3. BufferInv'
      BY <2>8 DEF TypeOK, SetupInv, BufferInv, process_image, ImageInv
    <3>4. ImageInv'
      BY <2>8 DEF TypeOK, SetupInv, ImageInv, process_image, ImageInv
    <3>. QED BY <3>1, <3>2, <3>3, <3>4
  <2>9. CASE requeue
    <3>1. TypeOK'
      BY <2>9 DEF TypeOK, Methods, requeue, AfterImage, ImageInv
    <3>2. SetupInv'
      BY <2>9 DEF TypeOK, SetupInv, BufferInv, requeue, AfterImage, ImageInv
    <3>3. BufferInv'
      BY <2>9 DEF TypeOK, SetupInv, BufferInv, requeue, AfterImage, ImageInv
    <3>4. ImageInv'
      BY <2>9 DEF TypeOK, SetupInv, ImageInv, requeue, AfterImage, ImageInv
    <3>. QED BY <3>1, <3>2, <3>3, <3>4
  <2>10. CASE stop_capturing \/ uninit_device \/ close_device
    <3>1. TypeOK'
      BY <2>10 DEF TypeOK, Methods, stop_capturing, StreamOff, uninit_device,
                   close_device
    <3>2. SetupInv'
      BY <2>10 DEF TypeOK, SetupInv, BufferInv, stop_capturing, StreamOff,
                   uninit_device, close_device
    <3>3. BufferInv'
      BY <2>10 DEF TypeOK, SetupInv, BufferInv, stop_capturing, StreamOff,
                   uninit_device, close_device
    <3>4. ImageInv'
      BY <2>10 DEF TypeOK, SetupInv, ImageInv, stop_capturing, StreamOff,
                   uninit_device, close_device
    <3>. QED BY <3>1, <3>2, <3>3, <3>4
  <2>11. CASE Environment
    <3>1. TypeOK'
      BY <2>11 DEF TypeOK, Methods, Environment, xioctl, errno_exit, Fill,
                   Ended, Calling
    <3>2. SetupInv'
      BY <2>11 DEF TypeOK, SetupInv, BufferInv, Environment, xioctl,
                   errno_exit, Fill, Ended, Calling
    <3>3. BufferInv'
      BY <2>11 DEF TypeOK, SetupInv, BufferInv, Environment, xioctl,
                   errno_exit, Fill, Ended, Calling
    <3>4. ImageInv'
      BY <2>11 DEF TypeOK, SetupInv, ImageInv, Environment, xioctl,
                   errno_exit, Fill, Ended, Calling
    <3>. QED BY <3>1, <3>2, <3>3, <3>4
  <2>12. CASE UNCHANGED vars
    BY <2>12 DEF vars, TypeOK, SetupInv, BufferInv, ImageInv
  <2>. QED
    BY <2>1, <2>2, <2>3, <2>4, <2>5, <2>6, <2>7, <2>8, <2>9, <2>10, <2>11, <2>12
    DEF Next, main, ClassMain, OpenDevice, InitaliseDevice, InitaliseRead,
        InitaliseMmap, InitaliseUserp, StartDevice, Run, ReadFrame, StopDevice,
        UninitaliseDevice, CloseDevice
<1>. QED BY <1>1, <1>2, PTL DEF Spec

(* The variables of the programs keep their types; the unsigned number of    *)
(* images still to take never falls below zero.                              *)
THEOREM TypeCorrect == Spec => []TypeOK
<1>1. CaptureInv => TypeOK
  BY DEF CaptureInv
<1>. QED BY <1>1, CaptureInvariant, PTL

(* No buffer is written while its image is converted, none is lost to the    *)
(* device, images are saved in order and all of them, and memory is released *)
(* behind the device, whatever fails and whoever interrupts.                 *)
THEOREM BuffersAndImages == Spec => []CaptureSafe
<1>1. CaptureInv => CaptureSafe
  <2> SUFFICES ASSUME CaptureInv PROVE CaptureSafe
    OBVIOUS
  <2> USE DEF CaptureInv, Looping, Ending
  <2>1. ImageStable
    BY DEF ImageStable, BufferInv
  <2>2. NoBufferLost
    BY DEF NoBufferLost, Granted, BufferInv
  <2>3. SavedInOrder
    BY CaptureAssumption DEF CaptureAssumption, SavedInOrder, ImageInv, TypeOK
  <2>4. ReleasedBehindStreaming
    BY DEF ReleasedBehindStreaming, SetupInv
  <2>. QED BY <2>1, <2>2, <2>3, <2>4 DEF CaptureSafe
<1>. QED BY <1>1, CaptureInvariant, PTL

(* A program whose camera streams is not ended by a signal: the calls that   *)
(* are not made again come before or behind, or belong to read(), which does *)
(* not stream; and a mapped buffer is never refused.                         *)
THEOREM Signals == Spec => SignalsLoseNoImage
<1> DEFINE Survived == streaming /\ pc' = "failed" => fault'
<1>1. CaptureInv /\ [Next]_vars => [Survived]_vars
  <2> SUFFICES ASSUME CaptureInv, Next, streaming, pc' = "failed", ~fault'
               PROVE FALSE
    BY DEF vars
  <2> USE DEF From, GoTo
  <2>1. /\ pc \notin {"open", "init", "request", "queue", "close"}
        /\ io # "read"
    BY DEF CaptureInv, SetupInv, SettingUp, Ending
  <2>2. CASE start_capturing \/ xioctl \/ errno_exit \/ SelectTimesOut
    BY <2>1, <2>2
    DEF start_capturing, xioctl, Calling, Ended, Retried, errno_exit,
        SelectTimesOut, OnTimeout
  <2>3. CASE \E b \in Buffers : Fill(b)
    BY <2>3 DEF Fill, Ended
  <2>4. CASE \/ open_device \/ init_device \/ init_read \/ init_mmap
             \/ init_userp \/ SelectReady \/ MainloopEnds \/ TryAgain
             \/ read_frame \/ process_image \/ requeue \/ stop_capturing
             \/ uninit_device \/ close_device
    BY <2>1, <2>4
    DEF open_device, init_device, init_read, init_mmap, init_userp,
        Allocate, SelectReady, MainloopEnds, TryAgain, Again, read_frame,
        process_image, requeue, stop_capturing, uninit_device, close_device
  <2>. QED
    BY <2>2, <2>3, <2>4
    DEF Next, main, mainloop, Environment, ClassMain, OpenDevice,
        InitaliseDevice, InitaliseRead, InitaliseMmap, InitaliseUserp,
        StartDevice, Run, ReadFrame, StopDevice, UninitaliseDevice, CloseDevice
<1>2. []CaptureInv /\ [][Next]_vars => [][Survived]_vars
  BY <1>1, PTL
<1>. QED BY <1>2, CaptureInvariant, PTL DEF Spec, SignalsLoseNoImage
=============================================================================
