----------------------------- MODULE V4l2Source -----------------------------
(***************************************************************************)
(* V4L2Capture (src/src/v4l2/v4l2_source.cc): a camera with one mapped     *)
(* buffer, which the driver and the program have in turns.  The descriptor *)
(* is a blocking one: VIDIOC_DQBUF waits for the driver to fill the buffer.*)
(***************************************************************************)
EXTENDS Integers

VARIABLES
  fd_,        \* "open" or "closed" (-1)
  buffer_,    \* "none" (nullptr), "mapped" or "failed" (MAP_FAILED)
  mapped,     \* bytes mapped: the length the driver gives its buffer
  owner,      \* who has the buffer: "program", "queued" or "filled"
  streaming   \* the driver streams

camera == <<fd_, buffer_, mapped, owner, streaming>>

V4L2Capture ==
  /\ fd_ = "closed" /\ buffer_ = "none" /\ mapped = 0
  /\ owner = "program" /\ streaming = FALSE

(* The calls of Initalise(), of which the failing one is the last made (no   *)
(* call fails for 0).  Each failure closes the device, but for the last one. *)
(* The driver may have made the image smaller than S_FMT asked: "length" is  *)
(* what its buffer has, and nothing compares the two.                        *)
Calls == <<"open", "QUERYCAP", "S_FMT", "REQBUFS", "QUERYBUF", "mmap",
           "STREAMON", "QBUF">>

Initalise(failing, length) ==
  LET made(i) == failing = 0 \/ failing > i
      kept == failing = 0 \/ Calls[failing] = "QBUF"
  IN /\ fd_' = IF kept THEN "open" ELSE "closed"
     /\ buffer_' = IF made(6) THEN "mapped"
                   ELSE IF made(5) THEN "failed" ELSE "none"
     /\ mapped' = IF made(6) THEN length ELSE 0
     /\ streaming' = kept
     /\ owner' = IF failing = 0 THEN "queued" ELSE "program"

(* CaptureFrame(): take the buffer out, copy it, queue it again.  A buffer   *)
(* that could not be queued stays with the program; nobody queues it later.  *)
Dequeue ==
  /\ owner = "filled" /\ owner' = "program"
  /\ UNCHANGED <<fd_, buffer_, mapped, streaming>>

Requeue ==
  /\ owner' = "queued"
  /\ UNCHANGED <<fd_, buffer_, mapped, streaming>>

(* The driver.                                                               *)
Fill ==
  /\ streaming /\ owner = "queued" /\ owner' = "filled"
  /\ UNCHANGED <<fd_, buffer_, mapped, streaming>>

(* ~V4L2Capture(): only an open device has anything to undo.  Three bytes    *)
(* for each pixel asked for are unmapped, whatever was mapped.               *)
DestroyV4L2Capture ==
  IF fd_ = "open"
  THEN /\ fd_' = "closed" /\ buffer_' = "none" /\ mapped' = 0
       /\ streaming' = FALSE /\ owner' = "program"
  ELSE UNCHANGED camera
=============================================================================
