--------------------- MODULE RtpUncompressedDepayloader ---------------------
(***************************************************************************)
(* The raw-video receiver (src/src/uncompressed/                           *)
(* rtp_uncompressed_depayloader.cc on the base class rtp_depayloader.h).   *)
(* Start() spawns a receive thread that copies each packet's line into the *)
(* one frame buffer and publishes "a frame is ready" in new_rx_frame_; the *)
(* client either polls with Receive() or is called back by that thread.    *)
(* Nothing but new_rx_frame_ is atomic and no lock is taken, so each read  *)
(* or write of the shared state that the other thread can see is a step.   *)
(*                                                                         *)
(* One client thread uses the object.  A packet brings the scan lines its  *)
(* headers list, each with the pixels of one row; a scan line numbered 0   *)
(* ends the list.  Offsets and lengths within a row are left out.  Which   *)
(* packets arrive, and in what order, is up to the network.  The kernel's  *)
(* receive buffer holds SocketCapacity packets, the rest is lost.          *)
(***************************************************************************)
EXTENDS Integers, Sequences

CONSTANTS
  Height,          \* lines per frame; row n - 1 of the code is row n here
  Packets,         \* what the network can bring: records of Packet below
  Pixels,          \* the contents of scan lines
  SocketCapacity,  \* bound on the packets queued in the socket
  Blank            \* a row of zeros

ScanLine == [line : Nat, pixels : Pixels]
Packet == [lines : Seq(ScanLine), marker : BOOLEAN, valid : BOOLEAN]

ASSUME DepayloaderAssumption ==
  /\ Height \in Nat \ {0}
  /\ Packets \subseteq Packet
  /\ SocketCapacity \in Nat \ {0}

VARIABLES
  settings_valid,     \* SetStreamInfo was called: there is a port to open
  socket_open,        \* sockfd is a bound socket
  rcvtimeo,           \* that socket has its receive timeout set
  socket,             \* the packets queued in it
  state,              \* the base class's state_
  rx_thread_running,  \* the flag the receive thread polls
  new_rx_frame,       \* the atomic new_rx_frame_
  callback_registered,
  buffer,             \* buffer_in_: the pixels of each row
  pc,                 \* the receive thread; "none": rx_thread_ not joinable
  bounded,            \* its recvfrom call returns without a packet, too
  last_scan_line,     \* its local of the same name
  api,                \* the client's thread: idle or where it is in a call
  aborted,            \* exit() or std::terminate() was called
  since,              \* history: packets stored after the last end of frame
                      \* (capped at 2), 2 before the first
  ended,              \* history: the packet that ended that frame
  blanked,            \* history: a Receive blanked the buffer since a packet
                      \* was stored
  foreign,            \* history: last_scan_line is the bit of a packet that
                      \* is no RTP
  strayed             \* history: so is new_rx_frame

threadLocals == <<pc, bounded, last_scan_line>>
socketVars == <<socket_open, rcvtimeo, socket>>
history == <<since, ended, blanked, foreign, strayed>>
vars == <<settings_valid, socketVars, state, rx_thread_running, new_rx_frame,
          callback_registered, buffer, threadLocals, api, aborted, history>>

Rows == 1 .. Height
NoPacket == [lines |-> <<>>, marker |-> TRUE, valid |-> TRUE]
StreamState == {"kClosed", "kOpen", "kStarted", "kStopped"}
ThreadStates == {"none", "starting", "top", "check", "recvfrom", "publish",
                 "test", "callback", "ended"}
CallStates == {"idle", "joining", "taking", "waiting", "asleep", "forever",
               "gone"}

TypeOK ==
  /\ settings_valid \in BOOLEAN
  /\ socket_open \in BOOLEAN
  /\ rcvtimeo \in BOOLEAN
  /\ socket \in Seq(Packets)
  /\ state \in StreamState
  /\ rx_thread_running \in BOOLEAN
  /\ new_rx_frame \in BOOLEAN
  /\ callback_registered \in BOOLEAN
  /\ buffer \in [Rows -> Pixels \cup {Blank}]
  /\ pc \in ThreadStates
  /\ bounded \in BOOLEAN
  /\ last_scan_line \in BOOLEAN
  /\ api \in CallStates
  /\ aborted \in BOOLEAN
  /\ since \in 0 .. 2
  /\ ended \in Packets \cup {NoPacket}
  /\ blanked \in BOOLEAN
  /\ foreign \in BOOLEAN
  /\ strayed \in BOOLEAN

Init ==
  /\ settings_valid = FALSE
  /\ socket_open = FALSE
  /\ rcvtimeo = FALSE
  /\ socket = <<>>
  /\ state = "kClosed"
  /\ rx_thread_running = TRUE
  /\ new_rx_frame = FALSE
  /\ callback_registered = FALSE
  /\ buffer = [r \in Rows |-> Blank]
  /\ pc = "none"
  /\ bounded = FALSE
  /\ last_scan_line = FALSE
  /\ api = "idle"
  /\ aborted = FALSE
  /\ since = 2
  /\ ended = NoPacket
  /\ blanked = FALSE
  /\ foreign = FALSE
  /\ strayed = FALSE
-----------------------------------------------------------------------------
(* The client.                                                              *)

SetStreamInfo ==
  /\ api = "idle"
  /\ settings_valid' = TRUE
  /\ UNCHANGED <<socketVars, state, rx_thread_running, new_rx_frame,
                 callback_registered, buffer, threadLocals, api, aborted,
                 history>>

RegisterCallback(on) ==
  /\ api = "idle"
  /\ callback_registered' = on
  /\ UNCHANGED <<settings_valid, socketVars, state, rx_thread_running,
                 new_rx_frame, buffer, threadLocals, api, aborted, history>>

(* Open()'s effect: a new bound socket, whose receives block without limit.  *)
(* A socket that was open before is leaked.  Without a port, or when the     *)
(* system refuses the socket, the process exits.                             *)
OpenSocket ==
  /\ state' = "kOpen"
  /\ \/ /\ settings_valid
        /\ socket_open' = TRUE
        /\ rcvtimeo' = FALSE
        /\ socket' = <<>>
        /\ UNCHANGED aborted
     \/ aborted' = TRUE /\ UNCHANGED socketVars

Open ==
  /\ api = "idle"
  /\ OpenSocket
  /\ UNCHANGED <<settings_valid, rx_thread_running, new_rx_frame,
                 callback_registered, buffer, threadLocals, api, history>>

(* Close() leaves the receive thread alone. *)
Close ==
  /\ api = "idle"
  /\ state' = "kClosed"
  /\ \/ /\ settings_valid
        /\ socket_open' = FALSE
        /\ rcvtimeo' = FALSE
        /\ socket' = <<>>
     \/ ~settings_valid /\ UNCHANGED socketVars
  /\ UNCHANGED <<settings_valid, rx_thread_running, new_rx_frame,
                 callback_registered, buffer, threadLocals, api, aborted,
                 history>>

(* Assigning a new std::thread over one that was not joined terminates. *)
Start ==
  /\ api = "idle"
  /\ state' = "kStarted"
  /\ rx_thread_running' = TRUE
  /\ pc' = IF pc = "none" THEN "starting" ELSE pc
  /\ aborted' = (pc # "none")
  /\ UNCHANGED <<settings_valid, socketVars, new_rx_frame, callback_registered,
                 buffer, bounded, last_scan_line, api, history>>

JoiningMutant == "idle"
Joining == IF pc = "none" THEN "idle" ELSE "joining"

Stop ==
  /\ api = "idle"
  /\ state' = "kStopped"
  /\ rx_thread_running' = FALSE
  /\ api' = Joining
  /\ UNCHANGED <<settings_valid, socketVars, new_rx_frame, callback_registered,
                 buffer, threadLocals, aborted, history>>

StopReturns ==
  /\ api = "joining"
  /\ pc = "ended"
  /\ pc' = "none"
  /\ api' = "idle"
  /\ UNCHANGED <<settings_valid, socketVars, state, rx_thread_running,
                 new_rx_frame, callback_registered, buffer, bounded,
                 last_scan_line, aborted, history>>

(* Receive(): opens the socket when it is not open, then looks at the flag.  *)
(* A timeout of zero or less waits for ever.                                 *)
Receive(timed) ==
  /\ api = "idle"
  /\ settings_valid
  /\ IF socket_open THEN UNCHANGED <<state, socketVars, aborted>>
     ELSE OpenSocket
  /\ api' = IF new_rx_frame THEN "taking"
            ELSE IF timed THEN "waiting" ELSE "forever"
  /\ UNCHANGED <<settings_valid, rx_thread_running, new_rx_frame,
                 callback_registered, buffer, threadLocals, history>>

(* The destructor leaves the socket open and the thread alone: destroying a  *)
(* std::thread that was not joined ends the process.                         *)
Destroy ==
  /\ api = "idle"
  /\ api' = "gone"
  /\ aborted' = (pc # "none")
  /\ UNCHANGED <<settings_valid, socketVars, state, rx_thread_running,
                 new_rx_frame, callback_registered, buffer, threadLocals,
                 history>>

TakeFrame ==
  /\ api = "taking"
  /\ new_rx_frame' = FALSE
  /\ api' = "idle"
  /\ UNCHANGED <<settings_valid, socketVars, state, rx_thread_running,
                 callback_registered, buffer, threadLocals, aborted, history>>

(* WaitForFrame() returns on the flag and does not reset it. *)
WaitEnds ==
  /\ api \in {"waiting", "forever"}
  /\ new_rx_frame
  /\ api' = "idle"
  /\ UNCHANGED <<settings_valid, socketVars, state, rx_thread_running,
                 new_rx_frame, callback_registered, buffer, threadLocals,
                 aborted, history>>

WaitSleeps ==
  /\ api = "waiting"
  /\ ~new_rx_frame
  /\ api' = "asleep"
  /\ UNCHANGED <<settings_valid, socketVars, state, rx_thread_running,
                 new_rx_frame, callback_registered, buffer, threadLocals,
                 aborted, history>>

WaitContinues ==
  /\ api = "asleep"
  /\ api' = "waiting"
  /\ UNCHANGED <<settings_valid, socketVars, state, rx_thread_running,
                 new_rx_frame, callback_registered, buffer, threadLocals,
                 aborted, history>>

(* The deadline is tested after the sleep; the flag is not looked at again.  *)
TimesOut ==
  /\ api = "asleep"
  /\ buffer' = [r \in Rows |-> Blank]
  /\ blanked' = TRUE
  /\ api' = "idle"
  /\ UNCHANGED <<settings_valid, socketVars, state, rx_thread_running,
                 new_rx_frame, callback_registered, threadLocals, aborted,
                 since, ended, foreign, strayed>>
-----------------------------------------------------------------------------
(* The receive thread.                                                      *)

(* setsockopt(SO_RCVTIMEO), once, on the socket of the moment. *)
ThreadStarts ==
  /\ pc = "starting"
  /\ rcvtimeo' = socket_open
  /\ pc' = "top"
  /\ UNCHANGED <<settings_valid, socket_open, socket, state, rx_thread_running,
                 new_rx_frame, callback_registered, buffer, bounded,
                 last_scan_line, api, aborted, history>>

LoopTop ==
  /\ pc = "top"
  /\ \/ /\ rx_thread_running
        /\ pc' = "check"
        /\ last_scan_line' = FALSE
        /\ foreign' = FALSE
     \/ ~rx_thread_running /\ pc' = "ended" /\ UNCHANGED <<last_scan_line, foreign>>
  /\ UNCHANGED <<settings_valid, socketVars, state, rx_thread_running,
                 new_rx_frame, callback_registered, buffer, bounded, api,
                 aborted, since, ended, blanked, strayed>>

(* ReceiveLines(): while (!valid && rx_thread_running_).  recvfrom on a       *)
(* closed descriptor fails at once.                                          *)
ReceivingMutant == TRUE
Receiving == rx_thread_running

CheckRunning ==
  /\ pc = "check"
  /\ \/ /\ Receiving
        /\ pc' = "recvfrom"
        /\ bounded' = (rcvtimeo \/ ~socket_open)
     \/ ~Receiving /\ pc' = "publish" /\ UNCHANGED bounded
  /\ UNCHANGED <<settings_valid, socketVars, state, rx_thread_running,
                 new_rx_frame, callback_registered, buffer, last_scan_line,
                 api, aborted, history>>

RecvFails ==
  /\ pc = "recvfrom"
  /\ bounded
  /\ socket = <<>>
  /\ pc' = "check"
  /\ UNCHANGED <<settings_valid, socketVars, state, rx_thread_running,
                 new_rx_frame, callback_registered, buffer, bounded,
                 last_scan_line, api, aborted, history>>

(* The scan lines of packet p that are copied to row r: the list of headers  *)
(* is left at a line numbered 0.                                             *)
Copies(p, r) ==
  {i \in 1 .. Len(p.lines) :
     p.lines[i].line = r /\ \A j \in 1 .. i : p.lines[j].line # 0}

(* Buffer b shows packet p in row r: the last of its scan lines for the row. *)
Shows(b, p, r) ==
  \E i \in Copies(p, r) : /\ \A j \in Copies(p, r) : j <= i
                         /\ b[r] = p.lines[i].pixels

(* The buffer after the scan lines of packet p were copied, row by row.      *)
StoredMutant(p) ==
  {[r \in Rows \cup {p.lines[i].line : i \in DOMAIN p.lines} |->
      IF r \in Rows /\ Copies(p, r) = {} THEN buffer[r]
      ELSE p.lines[1].pixels]}
Stored(p) ==
  {b \in [Rows -> Pixels \cup {Blank}] :
     \A r \in Rows : IF Copies(p, r) = {} THEN b[r] = buffer[r]
                     ELSE Shows(b, p, r)}

(* A scan line behind the last row is copied like any other, over whatever   *)
(* lies behind the buffer: the process may crash, at once or not at all.     *)
Overruns(p) == \E n \in {p.lines[i].line : i \in DOMAIN p.lines} :
                 n > Height /\ Copies(p, n) # {}

(* A packet that is not RTP version 2 with payload type 96 still sets        *)
(* last_scan_line; only the next valid packet sets it again.                 *)
RecvForeign ==
  /\ pc = "recvfrom"
  /\ socket # <<>>
  /\ ~Head(socket).valid
  /\ socket' = Tail(socket)
  /\ last_scan_line' = Head(socket).marker
  /\ foreign' = TRUE
  /\ pc' = "check"
  /\ UNCHANGED <<settings_valid, socket_open, rcvtimeo, state,
                 rx_thread_running, new_rx_frame, callback_registered, buffer,
                 bounded, api, aborted, since, ended, blanked, strayed>>

RecvPacket ==
  /\ pc = "recvfrom"
  /\ socket # <<>>
  /\ socket' = Tail(socket)
  /\ pc' = "publish"
  /\ foreign' = FALSE
  /\ blanked' = FALSE
  /\ LET p == Head(socket) IN
     /\ p.valid
     /\ last_scan_line' = p.marker
     /\ buffer' \in Stored(p)
     /\ aborted' \in (IF Overruns(p) THEN BOOLEAN ELSE {FALSE})
     /\ \/ p.marker /\ since' = 0 /\ ended' = p
        \/ /\ ~p.marker
           /\ since' = IF since = 2 THEN 2 ELSE since + 1
           /\ UNCHANGED ended
  /\ UNCHANGED <<settings_valid, socket_open, rcvtimeo, state,
                 rx_thread_running, new_rx_frame, callback_registered, bounded,
                 api, strayed>>

(* new_rx_frame_ = last_scan_line, behind every packet. *)
PublishedMutant == new_rx_frame \/ last_scan_line
Published == last_scan_line

Publish ==
  /\ pc = "publish"
  /\ new_rx_frame' = Published
  /\ strayed' = foreign
  /\ pc' = "test"
  /\ UNCHANGED <<settings_valid, socketVars, state, rx_thread_running,
                 callback_registered, buffer, bounded, last_scan_line, api,
                 aborted, since, ended, blanked, foreign>>

CallbackDueMutant ==
  callback_registered /\ new_rx_frame /\ state # "kStarted"
CallbackDue == callback_registered /\ new_rx_frame /\ state = "kStarted"

(* CallbackRegistered() && new_rx_frame_, then Callback()'s test of state_. *)
TestCallback ==
  /\ pc = "test"
  /\ pc' = IF CallbackDue THEN "callback" ELSE "top"
  /\ UNCHANGED <<settings_valid, socketVars, state, rx_thread_running,
                 new_rx_frame, callback_registered, buffer, bounded,
                 last_scan_line, api, aborted, history>>

CallbackEnds ==
  /\ pc = "callback"
  /\ pc' = "top"
  /\ UNCHANGED <<settings_valid, socketVars, state, rx_thread_running,
                 new_rx_frame, callback_registered, buffer, bounded,
                 last_scan_line, api, aborted, history>>
-----------------------------------------------------------------------------
(* The network hands packet p to the socket, if there is one with room.      *)
(* A recvfrom that blocks on a closed socket keeps that socket alive.        *)
Arrive(p) ==
  /\ api # "gone"
  /\ socket_open \/ (pc = "recvfrom" /\ ~bounded)
  /\ Len(socket) < SocketCapacity
  /\ socket' = Append(socket, p)
  /\ UNCHANGED <<settings_valid, socket_open, rcvtimeo, state,
                 rx_thread_running, new_rx_frame, callback_registered, buffer,
                 threadLocals, api, aborted, history>>

Call ==
  \/ SetStreamInfo \/ Open \/ Close \/ Start \/ Stop \/ Destroy
  \/ \E on \in BOOLEAN : RegisterCallback(on)
  \/ \E timed \in BOOLEAN : Receive(timed)

ClientThread ==
  \/ StopReturns \/ TakeFrame \/ WaitEnds
  \/ WaitSleeps \/ WaitContinues \/ TimesOut

ReceiveThread ==
  \/ ThreadStarts \/ LoopTop \/ CheckRunning \/ RecvFails
  \/ RecvForeign \/ RecvPacket \/ Publish \/ TestCallback \/ CallbackEnds

Next ==
  /\ ~aborted
  /\ \/ Call \/ ClientThread \/ ReceiveThread
     \/ \E p \in Packets : Arrive(p)

(* Both threads run; time passes, so a timed wait reaches its deadline; a    *)
(* callback returns.  Nothing makes clients call or packets arrive.          *)
Fairness ==
  /\ WF_vars(~aborted /\ ReceiveThread)
  /\ WF_vars(~aborted /\ ClientThread)
  /\ SF_vars(~aborted /\ TimesOut)

Spec == Init /\ [][Next]_vars
FairSpec == Spec /\ Fairness
-----------------------------------------------------------------------------
(* Once Stop() has returned there is no receive thread: nothing writes the   *)
(* frame buffer, calls back or touches the object until the next Start().    *)
QuietAfterStop == ~rx_thread_running /\ api # "joining" => pc = "none"

(* "Have a complete frame now": the flag is up behind the packet that ended  *)
(* a frame, and the buffer still shows what that packet brought, unless a    *)
(* Receive that timed out has blanked it since; or the thread has stored one *)
(* packet more and not published that yet; or the receiver is stopping after *)
(* a datagram that is no RTP and happens to have the marker's bit.           *)
FlagMeansFrameEnd ==
  new_rx_frame =>
    \/ since = 0 /\ (\/ blanked
                     \/ \A r \in Rows : \/ Copies(ended, r) = {}
                                         \/ Shows(buffer, ended, r))
    \/ since = 1 /\ pc = "publish"
    \/ strayed

(* Stop() returns, unless recvfrom blocks on a socket that never got its     *)
(* receive timeout, because it was opened after the thread had started.      *)
StopEnds ==
  api = "joining" ~> \/ api = "idle" \/ aborted
                     \/ pc = "recvfrom" /\ ~bounded
=============================================================================
