-------------------------- MODULE CaptureYuyvClass --------------------------
(***************************************************************************)
(* The class V4l2_Capture_YUYV (src/example/v4l2/capture_yuyv.cc) beside   *)
(* the C program it was made from: its methods do what the functions of    *)
(* module CaptureYuyv do, on file-scope variables that all objects share.  *)
(* "v4l2c++" is its program (main.cc), which makes the object before it    *)
(* looks at the options and never hands it the method; "caller" is code    *)
(* that makes the object with the method it wants.                         *)
(***************************************************************************)
EXTENDS CaptureYuyv

(* The second argument of the constructor in main(): its default.           *)
MethodOf(option) == "mmap"

V4l2_Capture_YUYV(name, method) == InitWith(name, method)

InitClass ==
  /\ asked \in Methods
  /\ \/ V4l2_Capture_YUYV("v4l2c++", MethodOf(asked))
     \/ V4l2_Capture_YUYV("caller", asked)

OpenDevice == open_device
InitaliseDevice == init_device
InitaliseRead == init_read
InitaliseMmap == init_mmap
InitaliseUserp == init_userp
StartDevice == start_capturing
Run == mainloop
ReadFrame == TryAgain \/ read_frame \/ process_image \/ requeue
StopDevice == stop_capturing
UninitaliseDevice == uninit_device
CloseDevice == close_device

ClassMain ==
  \/ OpenDevice \/ InitaliseDevice \/ InitaliseRead \/ InitaliseMmap
  \/ InitaliseUserp \/ StartDevice \/ Run \/ ReadFrame \/ StopDevice
  \/ UninitaliseDevice \/ CloseDevice

Next ==
  \/ program = "v4l2" /\ main
  \/ program # "v4l2" /\ ClassMain
  \/ Environment

(* The programs run on; a device that reports data again and again has some. *)
(* Nothing is assumed of the device's filling buffers: it may stall.         *)
Spec ==
  /\ (Init \/ InitClass) /\ [][Next]_vars
  /\ WF_vars(main) /\ SF_vars(read_frame)
=============================================================================
