---------------------- MODULE RtpUncompressedPayloader ----------------------
(***************************************************************************)
(* The raw-video transmitter (src/src/uncompressed/                        *)
(* rtp_uncompressed_payloader.cc).  Every Transmit() stores the caller's   *)
(* frame pointer in arg_tx.rgb_frame and spawns a std::thread; the thread  *)
(* takes the stream's mutex and sends the frame one line per packet.  A    *)
(* blocking Transmit joins the thread, any other one detaches it.  The     *)
(* sequence number is a class static, shared by every stream and guarded   *)
(* by no lock.                                                             *)
(*                                                                         *)
(* One client thread drives each stream.  It may change the settings while *)
(* threads that its calls detached still send: SendFrame reads the height  *)
(* anew for every line.  (The width, which it also reads, is left out.)    *)
(* A line of video is the pair of the frame and the row that was read,     *)
(* rows being counted from 0; a frame of n rows has rows 0 .. n - 1.  Each *)
(* thread identifier is used once, which bounds the number of Transmit     *)
(* calls by Cardinality(Threads).                                          *)
(***************************************************************************)
EXTENDS Integers, Sequences

CONSTANTS
  Streams,          \* the RtpUncompressedPayloader objects
  Threads,          \* identifiers of the transmit threads, each used once
  Frames,           \* the frames clients transmit
  MaxHeight,        \* bound on the lines per frame
  Settings,         \* what clients give to SetStreamInfo
  SequenceModulus,  \* 2^32 in the code
  Blocking,         \* the values of Transmit's second argument in use
  NoFrame, NoThread \* a null rgb_frame; "no thread"

(* "unmapped" stands for the colourspaces kColourspaceBytes has no entry for; *)
(* port: a port number other than 0.                                         *)
Encoding == {"mapped", "unmapped"}
Egress == [encoding : Encoding, height : 0 .. MaxHeight, port : BOOLEAN]

ASSUME PayloaderAssumption ==
  /\ MaxHeight \in Nat
  /\ Settings \subseteq Egress
  /\ SequenceModulus \in Nat \ {0}
  /\ Blocking \subseteq BOOLEAN
  /\ NoThread \notin Threads
  /\ Streams # {}

VARIABLES
  egress,           \* per stream: the settings in GetEgressPort()
  socket_open,      \* per stream: sockfd is an open socket
  rgb_frame,        \* per stream: arg_tx.rgb_frame
  alive,            \* per stream: not destroyed yet
  mutex,            \* per stream: the thread that holds mutex_
  caller,           \* per stream: the thread its client is joining
  pc, owner, line,  \* per thread: where it is, its stream, the line it sends
  last,             \* per thread: its local of the same name
  protocol,         \* per thread: the sequence number in its packet header
  sequence_number,  \* the static sequence_number_
  aborted,          \* the process left through exit() or an uncaught exception
  turn,             \* history, per thread: the Transmit of its stream it serves
  passed,           \* history, per stream: the arguments given to Transmit
  sends             \* history, per stream: the sendto calls made

clientVars == <<egress, socket_open, rgb_frame, alive, caller, passed>>
threadVars == <<pc, owner, line, last, protocol, turn>>
vars == <<clientVars, threadVars, mutex, sequence_number, aborted, sends>>

(* The stream of a thread that has not been spawned: any one will do. *)
AnyStream == CHOOSE s \in Streams : TRUE

(* A thread ends behind the last line ("done") or where sendto gives 0.     *)
InSendFrame == {"test", "last", "header", "increment", "send"}
Ended == {"done", "cut"}
Locations == {"none", "lock"} \cup InSendFrame \cup Ended
SequenceNumber == 0 .. (SequenceModulus - 1)
Argument == [frame : Frames, blocking : Blocking, height : 0 .. MaxHeight]
Packet == [frame : Frames \cup {NoFrame}, row : Nat, line : 1 .. MaxHeight,
           marker : BOOLEAN, seq : SequenceNumber, of : Nat]

TypeOK ==
  /\ egress \in [Streams -> Egress]
  /\ socket_open \in [Streams -> BOOLEAN]
  /\ rgb_frame \in [Streams -> Frames \cup {NoFrame}]
  /\ alive \in [Streams -> BOOLEAN]
  /\ mutex \in [Streams -> Threads \cup {NoThread}]
  /\ caller \in [Streams -> Threads \cup {NoThread}]
  /\ pc \in [Threads -> Locations]
  /\ owner \in [Threads -> Streams]
  /\ line \in [Threads -> 1 .. (MaxHeight + 1)]
  /\ last \in [Threads -> BOOLEAN]
  /\ protocol \in [Threads -> SequenceNumber]
  /\ sequence_number \in SequenceNumber
  /\ aborted \in BOOLEAN
  /\ turn \in [Threads -> Nat]
  /\ passed \in [Streams -> Seq(Argument)]
  /\ sends \in [Streams -> Seq(Packet)]

Init ==
  /\ egress = [s \in Streams |->
                [encoding |-> "mapped", height |-> 0, port |-> FALSE]]
  /\ socket_open = [s \in Streams |-> FALSE]
  /\ rgb_frame = [s \in Streams |-> NoFrame]
  /\ alive = [s \in Streams |-> TRUE]
  /\ mutex = [s \in Streams |-> NoThread]
  /\ caller = [s \in Streams |-> NoThread]
  /\ pc = [t \in Threads |-> "none"]
  /\ owner = [t \in Threads |-> AnyStream]
  /\ line = [t \in Threads |-> 1]
  /\ last = [t \in Threads |-> FALSE]
  /\ protocol = [t \in Threads |-> 0]
  /\ sequence_number = 0
  /\ aborted = FALSE
  /\ turn = [t \in Threads |-> 0]
  /\ passed = [s \in Streams |-> <<>>]
  /\ sends = [s \in Streams |-> <<>>]
-----------------------------------------------------------------------------
(* What the client of stream s calls.  A client inside a blocking Transmit  *)
(* calls nothing else.                                                      *)

Free(s) == alive[s] /\ caller[s] = NoThread

SetStreamInfo(s, settings) ==
  /\ Free(s)
  /\ egress' = [egress EXCEPT ![s] = settings]
  /\ UNCHANGED <<socket_open, rgb_frame, alive, caller, passed, threadVars,
                 mutex, sequence_number, aborted, sends>>

(* Open() leaves the process through exit(-1) when there is no port, no      *)
(* socket or no such host.                                                   *)
Open(s) ==
  /\ Free(s)
  /\ \/ /\ aborted' = TRUE
        /\ UNCHANGED socket_open
     \/ /\ egress[s].port
        /\ socket_open' = [socket_open EXCEPT ![s] = TRUE]
        /\ UNCHANGED aborted
  /\ UNCHANGED <<egress, rgb_frame, alive, caller, passed, threadVars,
                 mutex, sequence_number, sends>>

(* Close() never finds a joinable thread: Transmit has joined or detached it. *)
Close(s) ==
  /\ Free(s)
  /\ egress[s].port
  /\ socket_open' = [socket_open EXCEPT ![s] = FALSE]
  /\ UNCHANGED <<egress, rgb_frame, alive, caller, passed, threadVars,
                 mutex, sequence_number, aborted, sends>>

(* The thread the client goes on to join; none when the thread is detached. *)
JoinedByMutant(t, blocking) == NoThread
JoinedBy(t, blocking) == IF blocking THEN t ELSE NoThread

(* Without a port the frame pointer is stored and -1 returned. *)
TransmitRefused(s, f) ==
  /\ Free(s)
  /\ ~egress[s].port
  /\ rgb_frame' = [rgb_frame EXCEPT ![s] = f]
  /\ UNCHANGED <<egress, socket_open, alive, caller, passed, threadVars,
                 mutex, sequence_number, aborted, sends>>

Transmit(s, f, blocking, t) ==
  /\ Free(s)
  /\ egress[s].port
  /\ pc[t] = "none"
  /\ owner' = [owner EXCEPT ![t] = s]
  /\ rgb_frame' = [rgb_frame EXCEPT ![s] = f]
  /\ passed' = [passed EXCEPT
                  ![s] = Append(@, [frame |-> f, blocking |-> blocking,
                                    height |-> egress[s].height])]
  /\ turn' = [turn EXCEPT ![t] = Len(passed[s]) + 1]
  /\ pc' = [pc EXCEPT ![t] = "lock"]
  /\ caller' = [caller EXCEPT ![s] = JoinedBy(t, blocking)]
  /\ UNCHANGED <<egress, socket_open, alive, line, last, protocol, mutex,
                 sequence_number, aborted, sends>>

(* The client's join() returns once the thread has ended. *)
TransmitReturns(s) ==
  /\ caller[s] # NoThread
  /\ pc[caller[s]] \in Ended
  /\ caller' = [caller EXCEPT ![s] = NoThread]
  /\ UNCHANGED <<egress, socket_open, rgb_frame, alive, passed, threadVars,
                 mutex, sequence_number, aborted, sends>>

(* The destructor: no joinable thread is left to wait for. *)
Destroy(s) ==
  /\ Free(s)
  /\ alive' = [alive EXCEPT ![s] = FALSE]
  /\ socket_open' = [socket_open EXCEPT ![s] = FALSE]
  /\ UNCHANGED <<egress, rgb_frame, caller, passed, threadVars,
                 mutex, sequence_number, aborted, sends>>
-----------------------------------------------------------------------------
(* The transmit thread.                                                     *)

UnlockedMutant(t) == TRUE
Unlocked(t) == mutex[owner[t]] = NoThread

(* The scoped_lock, then kColourspaceBytes.at(), which throws on a           *)
(* colourspace it does not list: uncaught in a thread, that ends the process. *)
EnterSendFrame(t) ==
  /\ pc[t] = "lock"
  /\ Unlocked(t)
  /\ mutex' = [mutex EXCEPT ![owner[t]] = t]
  /\ pc' = [pc EXCEPT ![t] = "test"]
  /\ line' = [line EXCEPT ![t] = 1]
  /\ aborted' = (egress[owner[t]].encoding # "mapped")
  /\ UNCHANGED <<clientVars, owner, last, protocol, turn, sequence_number,
                 sends>>

(* The mutex when thread t leaves SendFrame. *)
ReleasedMutant(t) == mutex
Released(t) == [mutex EXCEPT ![owner[t]] = NoThread]

LoopOnMutant(t) == line[t] <= egress[owner[t]].height + 1
LoopOn(t) == line[t] <= egress[owner[t]].height

(* The loop's test of the height of the moment. *)
LoopTest(t) ==
  /\ pc[t] = "test"
  /\ \/ LoopOn(t) /\ pc' = [pc EXCEPT ![t] = "last"] /\ UNCHANGED mutex
     \/ ~LoopOn(t) /\ pc' = [pc EXCEPT ![t] = "done"] /\ mutex' = Released(t)
  /\ UNCHANGED <<clientVars, owner, line, last, protocol, turn,
                 sequence_number, aborted, sends>>

(* c == height, read again. *)
TestLast(t) ==
  /\ pc[t] = "last"
  /\ last' = [last EXCEPT ![t] = (line[t] = egress[owner[t]].height)]
  /\ pc' = [pc EXCEPT ![t] = "header"]
  /\ UNCHANGED <<clientVars, owner, line, protocol, turn, mutex,
                 sequence_number, aborted, sends>>

UpdateHeader(t) ==
  /\ pc[t] = "header"
  /\ protocol' = [protocol EXCEPT ![t] = sequence_number]
  /\ pc' = [pc EXCEPT ![t] = "increment"]
  /\ UNCHANGED <<clientVars, owner, line, last, turn, mutex, sequence_number,
                 aborted, sends>>

(* sequence_number_++ is a load and a store with no lock between streams.   *)
(* The load may be the one that filled the header or a later one.           *)
IncrementedMutant(t) == IF last[t] THEN {protocol[t]}
                        ELSE {(protocol[t] + 1) % SequenceModulus}
Incremented(t) == {(base + 1) % SequenceModulus :
                     base \in {protocol[t], sequence_number}}

IncrementSequence(t) ==
  /\ pc[t] = "increment"
  /\ sequence_number' \in Incremented(t)
  /\ pc' = [pc EXCEPT ![t] = "send"]
  /\ UNCHANGED <<clientVars, owner, line, last, protocol, turn, mutex,
                 aborted, sends>>

(* The packet for line c carries the pixels at rgb_frame[c * stride]: row c  *)
(* counted from zero, which for the last line lies behind the frame.         *)
LinePacket(t) ==
  [frame |-> rgb_frame[owner[t]], row |-> line[t], line |-> line[t],
   marker |-> last[t], seq |-> protocol[t], of |-> turn[t]]

(* A failing sendto is logged and ignored, one that gives 0 ends the frame.  *)
SendLine(t) ==
  /\ pc[t] = "send"
  /\ sends' = [sends EXCEPT ![owner[t]] = Append(@, LinePacket(t))]
  /\ line' = [line EXCEPT ![t] = @ + 1]
  /\ pc' = [pc EXCEPT ![t] = "test"]
  /\ UNCHANGED <<clientVars, owner, last, protocol, turn, mutex,
                 sequence_number, aborted>>

SendNothing(t) ==
  /\ pc[t] = "send"
  /\ pc' = [pc EXCEPT ![t] = "cut"]
  /\ mutex' = Released(t)
  /\ UNCHANGED <<clientVars, owner, line, last, protocol, turn,
                 sequence_number, aborted, sends>>

(* A detached thread goes on after the destruction of its stream; using the  *)
(* freed object it may crash.                                                *)
UseAfterFree(t) ==
  /\ pc[t] \notin {"none"} \cup Ended
  /\ ~alive[owner[t]]
  /\ aborted' = TRUE
  /\ UNCHANGED <<clientVars, threadVars, mutex, sequence_number, sends>>

Client(s) ==
  \/ \E settings \in Settings : SetStreamInfo(s, settings)
  \/ Open(s)
  \/ Close(s)
  \/ \E f \in Frames : TransmitRefused(s, f)
  \/ \E f \in Frames, blocking \in Blocking, t \in Threads :
       Transmit(s, f, blocking, t)
  \/ TransmitReturns(s)
  \/ Destroy(s)

TransmitThread(t) ==
  \/ EnterSendFrame(t)
  \/ LoopTest(t)
  \/ TestLast(t)
  \/ UpdateHeader(t)
  \/ IncrementSequence(t)
  \/ SendLine(t)
  \/ SendNothing(t)
  \/ UseAfterFree(t)

Next ==
  /\ ~aborted
  /\ \/ \E s \in Streams : Client(s)
     \/ \E t \in Threads : TransmitThread(t)

(* The operating system runs every thread, and a join ends with its thread. *)
Fairness ==
  /\ \A t \in Threads : WF_vars(~aborted /\ TransmitThread(t))
  /\ \A s \in Streams : WF_vars(~aborted /\ TransmitReturns(s))

Spec == Init /\ [][Next]_vars
FairSpec == Spec /\ Fairness
-----------------------------------------------------------------------------
(* SendFrame is serialised by the stream's mutex, however many detached      *)
(* threads are pending and however the height is changed meanwhile: the      *)
(* packets of one Transmit are lines 1, 2, 3, ... with no other packet of    *)
(* the stream between them, and no Transmit is sent twice (TransmitThread,   *)
(* "send a frame, once last thread has completed").                          *)
LinesInOrder ==
  \A s \in Streams : \A i \in 1 .. Len(sends[s]) :
    LET packet == sends[s][i]
    IN  IF packet.line = 1
        THEN \A j \in 1 .. (i - 1) : sends[s][j].of # packet.of
        ELSE /\ i > 1
             /\ sends[s][i - 1].line = packet.line - 1
             /\ sends[s][i - 1].of = packet.of

(* What a blocking Transmit puts on the wire, also when threads that earlier *)
(* calls detached still wait for the mutex or send: line n carries row n of  *)
(* the frame given to that call, rows being counted from 0, so row 0 is      *)
(* never sent and the last line is the memory behind the frame; only the     *)
(* last line has the marker, and it is on the wire when the thread has ended *)
(* (unless a sendto gave 0).                                                 *)
BlockingSendsItsFrame ==
  /\ \A s \in Streams : \A i \in 1 .. Len(sends[s]) :
       LET packet == sends[s][i]
           call == passed[s][packet.of]
       IN  call.blocking => /\ packet.frame = call.frame
                            /\ packet.row = packet.line
                            /\ packet.line <= call.height
                            /\ packet.marker = (packet.line = call.height)
  /\ \A t \in Threads : pc[t] = "done" =>
       LET call == passed[owner[t]][turn[t]]
       IN  call.blocking /\ call.height > 0 =>
             \E i \in 1 .. Len(sends[owner[t]]) :
               /\ sends[owner[t]][i].of = turn[t]
               /\ sends[owner[t]][i].line = call.height

(* The packets of a stream carry consecutive sequence numbers, also across   *)
(* the wrap of the counter, while no other stream has used the counter; only *)
(* the packet for which sendto gave 0 leaves a gap, behind its frame.        *)
SequenceConsecutive ==
  \A s \in Streams :
    (\A r \in Streams \ {s} : sends[r] = <<>> /\ passed[r] = <<>>) =>
      \A i \in 2 .. Len(sends[s]) :
        \/ sends[s][i].seq = (sends[s][i - 1].seq + 1) % SequenceModulus
        \/ /\ sends[s][i].line = 1
           /\ \E t \in Threads : owner[t] = s /\ pc[t] = "cut"

(* No thread of a blocking Transmit is left that would use a destroyed       *)
(* stream object.                                                            *)
NoThreadOutlivesStream ==
  \A t \in Threads :
    /\ pc[t] \notin {"none"} \cup Ended
    /\ passed[owner[t]][turn[t]].blocking
    => alive[owner[t]]

(* A blocking Transmit returns: no thread keeps the mutex for ever.          *)
TransmitEnds ==
  \A s \in Streams : caller[s] # NoThread ~> (caller[s] = NoThread \/ aborted)
=============================================================================
