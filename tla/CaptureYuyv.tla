----------------------------- MODULE CaptureYuyv -----------------------------
(***************************************************************************)
(* The camera program v4l2 (src/example/v4l2/capture_yuyv.c): open the     *)
(* device, set it up, hand it buffers, save GRAB_NUM_FRAMES images, and    *)
(* undo it all.  The device fills the buffers queued with it while the     *)
(* program converts the one it took out.  Any system call may fail, which  *)
(* makes the program exit at once, or be interrupted by a signal.          *)
(*                                                                         *)
(* A buffer is named by the index the driver knows it by.  A driver        *)
(* refuses (EINVAL) to queue an index that is queued already.              *)
(***************************************************************************)
EXTENDS Integers, FiniteSets

CONSTANTS
  Requested,   \* req.count: buffers asked of the driver (4 in the code)
  Frames       \* GRAB_NUM_FRAMES: images to save (100 in the code)

ASSUME CaptureAssumption ==
  /\ Requested \in Nat \ {0, 1}
  /\ Frames \in Nat \ {0}

VARIABLES
  program,    \* "v4l2"; "v4l2c++" or "caller" (module CaptureYuyvClass)
  asked,      \* the method asked for
  io,         \* the method in use
  pc,         \* the step of main() the program is at
  step,       \* the call within init_device(), the index within a loop
  n_buffers,  \* n_buffers
  allocated,  \* buffers are mapped or allocated
  streaming,  \* the driver streams
  owner,      \* who has each of the driver's buffers
  current,    \* the buffer process_image() reads
  count,      \* images still to take, as in mainloop()
  saved,      \* history: numbers of the images passed to process_image()
  fault       \* history: a call failed or timed out

session == <<program, asked, io>>
setup   == <<step, n_buffers, allocated>>
device  == <<streaming, owner>>
images  == <<current, count, saved>>
vars    == <<session, pc, setup, device, images, fault>>

Methods == {"read", "mmap", "userptr"}
Buffers == 0 .. Requested - 1
Granted == {b \in Buffers : b < n_buffers}

InitWith(name, method) ==
  /\ program = name /\ io = method
  /\ pc = "open" /\ step = 0 /\ n_buffers = 0 /\ allocated = FALSE
  /\ streaming = FALSE /\ owner = [b \in Buffers |-> "program"]
  /\ current = 0 /\ count = Frames /\ saved = {} /\ fault = FALSE

(* main() takes the method from the options.                                *)
Init == asked \in Methods /\ InitWith("v4l2", asked)
-----------------------------------------------------------------------------
From(s) == pc = s /\ UNCHANGED <<session, fault>>
GoTo(s) == pc' = s

open_device ==
  /\ From("open") /\ GoTo("init")
  /\ UNCHANGED <<setup, device, images>>

(* The calls of init_device().  Those about cropping may fail unnoticed.     *)
InitCalls == <<"QUERYCAP", "CROPCAP", "S_CROP", "S_STD", "S_INPUT", "S_FMT">>
Ignored == {"CROPCAP", "S_CROP"}

init_device ==
  /\ From("init")
  /\ IF InitCalls[step + 1] = "S_FMT"
     THEN GoTo("request") /\ step' = 0
     ELSE UNCHANGED pc /\ step' = step + 1
  /\ UNCHANGED <<n_buffers, allocated, device, images>>

Allocate(number) ==
  /\ From("request") /\ GoTo("queue")
  /\ n_buffers' = number /\ allocated' = TRUE
  /\ UNCHANGED <<step, device, images>>

init_read == io = "read" /\ Allocate(0)

(* The driver may grant fewer buffers than requested; one is not enough.     *)
init_mmap == io = "mmap" /\ \E granted \in 2 .. Requested : Allocate(granted)

(* What the driver granted is not looked at.                                 *)
init_userp == io = "userptr" /\ Allocate(Requested)

(* buf.index of the VIDIOC_QBUF in start_capturing(): set for mapped buffers *)
(* only.                                                                     *)
QueuedIndex == IF io = "mmap" THEN step ELSE 0

(* One VIDIOC_QBUF for each buffer, then VIDIOC_STREAMON; nothing for read().*)
start_capturing ==
  /\ pc = "queue"
  /\ \/ /\ From("queue") /\ step = n_buffers /\ GoTo("select")
        /\ step' = 0 /\ streaming' = (io # "read") /\ UNCHANGED owner
     \/ /\ From("queue") /\ step < n_buffers
        /\ IF owner[QueuedIndex] = "program"
           THEN /\ owner' = [owner EXCEPT ![QueuedIndex] = "queued"]
                /\ step' = step + 1 /\ UNCHANGED pc
           ELSE GoTo("failed") /\ UNCHANGED <<owner, step>>
        /\ UNCHANGED streaming
  /\ UNCHANGED <<n_buffers, allocated, images>>

More == count > 0
Filled == {b \in Buffers : owner[b] = "filled"}

(* mainloop(): select() reports the device, or its two seconds pass.         *)
SelectReady ==
  /\ From("select") /\ More /\ (io = "read" \/ Filled # {}) /\ GoTo("read")
  /\ UNCHANGED <<setup, device, images>>

OnTimeoutMutant == UNCHANGED <<pc, fault>>
OnTimeout == GoTo("failed") /\ fault' = TRUE

SelectTimesOut ==
  /\ pc = "select" /\ More /\ Filled = {} /\ OnTimeout
  /\ UNCHANGED <<session, setup, device, images>>

MainloopEnds ==
  /\ From("select") /\ ~More /\ GoTo("stop")
  /\ UNCHANGED <<setup, device, images>>

(* EAGAIN takes read_frame() back to select() with the count as it was.      *)
Again == GoTo("select") /\ UNCHANGED count

TryAgain ==
  /\ From("read") /\ Again
  /\ UNCHANGED <<setup, device, current, saved>>

Dequeue(b) == owner' = [owner EXCEPT ![b] = "program"]

(* read(), or VIDIOC_DQBUF.                                                  *)
read_frame ==
  /\ From("read") /\ GoTo("image")
  /\ \/ io = "read" /\ UNCHANGED <<owner, current>>
     \/ \E b \in Filled : Dequeue(b) /\ current' = b
  /\ UNCHANGED <<setup, streaming, count, saved>>

(* What read_frame() does behind process_image(): a buffer is queued again.  *)
AfterImageMutant == UNCHANGED owner
AfterImage ==
  IF io = "read" THEN UNCHANGED owner
                 ELSE owner' = [owner EXCEPT ![current] = "queued"]

(* SaveImageUncompressed() may fail to open its file; nobody looks.          *)
process_image ==
  /\ From("image") /\ GoTo("requeue")
  /\ saved' = saved \cup {Frames - (count - 1)}
  /\ UNCHANGED <<setup, device, current, count>>

requeue ==
  /\ From("requeue") /\ GoTo("select")
  /\ AfterImage /\ count' = count - 1
  /\ UNCHANGED <<setup, streaming, current, saved>>

(* STREAMOFF also takes every buffer back from the driver.                   *)
StreamOff == streaming' = FALSE /\ owner' = [b \in Buffers |-> "program"]

stop_capturing ==
  /\ From("stop") /\ GoTo("uninit")
  /\ IF io = "read" THEN UNCHANGED device ELSE StreamOff
  /\ UNCHANGED <<setup, images>>

uninit_device ==
  /\ From("uninit") /\ GoTo("close")
  /\ allocated' = FALSE
  /\ UNCHANGED <<step, n_buffers, device, images>>

close_device ==
  /\ From("close") /\ GoTo("done")
  /\ UNCHANGED <<setup, device, images>>

Ended == pc \in {"done", "failed"}
Calling == ~Ended /\ pc # "image"

(* xioctl() makes an interrupted call again, and so does the loop around     *)
(* select(); open(), the selection of the input, read() and close() are not  *)
(* made again.                                                               *)
RetriedMutant ==
  /\ pc \notin {"open", "select", "close"}
  /\ ~(pc = "init" /\ InitCalls[step + 1] = "S_INPUT")
  /\ ~(pc = "read" /\ io = "read")
Retried ==
  /\ pc \notin {"open", "close"}
  /\ ~(pc = "init" /\ InitCalls[step + 1] = "S_INPUT")
  /\ ~(pc = "read" /\ io = "read")

xioctl ==
  /\ Calling /\ ~Retried
  /\ GoTo("failed")
  /\ UNCHANGED <<session, setup, device, images, fault>>

(* A call fails: errno_exit() undoes nothing.                                *)
errno_exit ==
  /\ Calling /\ ~(pc = "init" /\ InitCalls[step + 1] \in Ignored)
  /\ GoTo("failed") /\ fault' = TRUE
  /\ UNCHANGED <<session, setup, device, images>>

mainloop == SelectReady \/ SelectTimesOut \/ MainloopEnds

main ==
  \/ open_device \/ init_device \/ init_read \/ init_mmap \/ init_userp
  \/ start_capturing \/ mainloop \/ TryAgain \/ read_frame \/ process_image
  \/ requeue \/ stop_capturing \/ uninit_device \/ close_device

(* The device stores an image in a buffer it has.                            *)
Fill(b) ==
  /\ streaming /\ ~Ended /\ owner[b] = "queued"
  /\ owner' = [owner EXCEPT ![b] = "filled"]
  /\ UNCHANGED <<session, pc, setup, streaming, images, fault>>

Environment == xioctl \/ errno_exit \/ \E b \in Buffers : Fill(b)
-----------------------------------------------------------------------------
(* Type invariant; "count" never wraps below zero (it is unsigned).          *)
TypeOK ==
  /\ program \in {"v4l2", "v4l2c++", "caller"} /\ {asked, io} \subseteq Methods
  /\ pc \in {"open", "init", "request", "queue", "select", "read", "image",
             "requeue", "stop", "uninit", "close", "done", "failed"}
  /\ step \in Nat /\ n_buffers \in 0 .. Requested
  /\ {allocated, streaming, fault} \subseteq BOOLEAN
  /\ owner \in [Buffers -> {"program", "queued", "filled"}]
  /\ current \in Buffers /\ count \in 0 .. Frames /\ saved \subseteq 1 .. Frames

(* The device does not write a buffer while process_image() converts it: it  *)
(* is queued again only behind the conversion.                               *)
ImageStable ==
  pc = "image" /\ io # "read" => owner[current] = "program"

(* While the program waits, the device has every buffer it granted: none is  *)
(* lost on the way through read_frame().                                     *)
NoBufferLost ==
  pc \in {"select", "read"} /\ streaming
    => \A b \in Granted : owner[b] # "program"

(* Between two images the images saved are numbered from 1 without a gap,    *)
(* however often read_frame() had to try again; at the end all are there.    *)
SavedInOrder ==
  /\ pc \in {"select", "read", "stop"} => saved = 1 .. Frames - count
  /\ pc = "done" => saved = 1 .. Frames

(* The memory the device writes to is released only when it has stopped.     *)
ReleasedBehindStreaming == streaming => allocated

(* The camera's buffers and the images taken from them, together.            *)
CaptureSafe ==
  ImageStable /\ NoBufferLost /\ SavedInOrder /\ ReleasedBehindStreaming

(* While the camera streams into the program's buffers only a call that      *)
(* failed ends it: no signal costs it an image, whichever call it interrupts.*)
(* (Signals may end it before and behind that, in open(), the selection of   *)
(* the input and close(), and while it takes its images with read().)        *)
SignalsLoseNoImage ==
  [][streaming /\ pc' = "failed" => fault']_vars

(* The program ends, whatever the camera does: a camera that stalls is given *)
(* up after two seconds.                                                     *)
CaptureEnds == <>Ended
=============================================================================
