---------------------- MODULE UncompressedStream_proofs ----------------------
(***************************************************************************)
(* Theorems about RtpUncompressedDepayloader, for every height, set of     *)
(* packets and socket capacity; and behind them about the whole stream,    *)
(* whose receiver it is: it implements FrameChannel whatever the network   *)
(* loses, repeats or reorders and whenever the receiver is restarted, and  *)
(* it shows whole frames while every packet arrives in its turn.           *)
(***************************************************************************)
EXTENDS UncompressedStream, TLAPS

LEMMA NoPackets == <<>> \in Seq(Packets)
OBVIOUS

(* The variables keep their types under all client calls, all steps of the   *)
(* receive thread and every packet the network brings.                       *)
THEOREM TypeCorrect == Spec => []TypeOK
<1> USE DepayloaderAssumption DEF DepayloaderAssumption
<1>1. Init => TypeOK
  <2> SUFFICES ASSUME Init PROVE TypeOK
    OBVIOUS
  <2>1. socket \in Seq(Packets) /\ buffer \in [Rows -> Pixels \cup {Blank}]
    BY DEF Init
  <2>2. /\ state \in StreamState /\ pc \in ThreadStates /\ api \in CallStates
    BY DEF Init, StreamState, ThreadStates, CallStates
  <2>3. since \in 0 .. 2 /\ ended \in Packets \cup {NoPacket}
    BY DEF Init
  <2>. QED BY <2>1, <2>2, <2>3, Zenon DEF Init, TypeOK
<1>2. TypeOK /\ [Next]_vars => TypeOK'
  <2> SUFFICES ASSUME TypeOK, [Next]_vars PROVE TypeOK'
    OBVIOUS
  <2> USE DEF TypeOK
  <2>1. CASE Call
    <3> USE DEF threadLocals, socketVars, history
    <3>1. CASE SetStreamInfo \/ \E on \in BOOLEAN : RegisterCallback(on)
      <4>1. settings_valid' \in BOOLEAN /\ callback_registered' \in BOOLEAN
        BY <3>1, Zenon DEF SetStreamInfo, RegisterCallback
      <4>2. UNCHANGED <<socketVars, state, rx_thread_running, new_rx_frame,
                        buffer, threadLocals, api, aborted, history>>
        BY <3>1, Zenon DEF SetStreamInfo, RegisterCallback
      <4>. QED BY <4>1, <4>2
    <3>2. CASE Open \/ Close
      <4>1. \/ OpenSocket
            \/ /\ state' = "kClosed"
               /\ \/ UNCHANGED socketVars
                  \/ /\ socket_open' = FALSE /\ rcvtimeo' = FALSE
                     /\ socket' = <<>>
        BY <3>2, Zenon DEF Open, Close
      <4>2. socket' \in Seq(Packets) /\ state' \in StreamState
        <5>1. socket' = <<>> \/ socket' = socket
          BY <4>1, Zenon DEF OpenSocket
        <5>2. state' \in {state, "kOpen", "kClosed"}
          BY <4>1, Zenon DEF OpenSocket
        <5>3. socket' \in Seq(Packets)
          BY <5>1, NoPackets, Zenon
        <5>. QED BY <5>2, <5>3 DEF StreamState
      <4>3. socket_open' \in BOOLEAN /\ rcvtimeo' \in BOOLEAN
        BY <4>1, Zenon DEF OpenSocket
      <4>4. aborted' \in BOOLEAN
        BY <3>2, Zenon DEF Open, OpenSocket, Close
      <4>. QED BY <3>2, <4>2, <4>3, <4>4, Zenon DEF Open, Close
    <3>3. CASE Start \/ Stop
      <4>1. /\ state' \in StreamState /\ pc' \in ThreadStates
            /\ api' \in CallStates
        BY <3>3 DEF Start, Stop, Joining, StreamState, ThreadStates, CallStates
      <4>2. rx_thread_running' \in BOOLEAN /\ aborted' \in BOOLEAN
        BY <3>3, Zenon DEF Start, Stop
      <4>. QED BY <3>3, <4>1, <4>2, Zenon DEF Start, Stop
    <3>4. CASE \E timed \in BOOLEAN : Receive(timed)
      <4>0. OpenSocket \/ UNCHANGED <<state, socketVars, aborted>>
        BY <3>4, Zenon DEF Receive
      <4>1. socket' \in Seq(Packets) /\ state' \in StreamState
        <5>1. socket' = <<>> \/ socket' = socket
          BY <4>0, Zenon DEF OpenSocket
        <5>2. state' \in {state, "kOpen", "kClosed"}
          BY <4>0, Zenon DEF OpenSocket
        <5>3. socket' \in Seq(Packets)
          BY <5>1, NoPackets, Zenon
        <5>. QED BY <5>2, <5>3 DEF StreamState
      <4>2. /\ socket_open' \in BOOLEAN /\ rcvtimeo' \in BOOLEAN
            /\ aborted' \in BOOLEAN
        BY <4>0, Zenon DEF OpenSocket
      <4>3. api' \in CallStates
        BY <3>4 DEF Receive, CallStates
      <4>. QED BY <3>4, <4>1, <4>2, <4>3, Zenon DEF Receive
    <3>5. CASE Destroy
      <4>1. api' \in CallStates
        BY <3>5 DEF Destroy, CallStates
      <4>. QED BY <3>5, <4>1, Zenon DEF Destroy
    <3>. QED BY <2>1, <3>1, <3>2, <3>3, <3>4, <3>5 DEF Call
  <2>2. CASE ClientThread
    <3> USE DEF threadLocals, socketVars, history, CallStates
    <3>1. CASE StopReturns \/ WaitSleeps \/ WaitContinues
      <4>1. api' \in CallStates /\ pc' \in ThreadStates
        <5>1. /\ api' \in {"idle", "asleep", "waiting"}
              /\ pc' = pc \/ pc' = "none"
          BY <3>1, Zenon DEF StopReturns, WaitSleeps, WaitContinues
        <5>. QED BY <5>1 DEF ThreadStates
      <4>2. UNCHANGED <<settings_valid, socketVars, state, rx_thread_running,
                        new_rx_frame, callback_registered, buffer, bounded,
                        last_scan_line, aborted, history>>
        BY <3>1, Zenon DEF StopReturns, WaitSleeps, WaitContinues
      <4>. QED BY <4>1, <4>2
    <3>2. CASE TakeFrame \/ WaitEnds
      <4>1. new_rx_frame' \in BOOLEAN /\ api' = "idle"
        BY <3>2, Zenon DEF TakeFrame, WaitEnds
      <4>2. UNCHANGED <<settings_valid, socketVars, state, rx_thread_running,
                        callback_registered, buffer, threadLocals, aborted,
                        history>>
        BY <3>2, Zenon DEF TakeFrame, WaitEnds
      <4>. QED BY <4>1, <4>2
    <3>3. CASE TimesOut
      BY <3>3 DEF TimesOut
    <3>. QED BY <2>2, <3>1, <3>2, <3>3 DEF ClientThread
  <2>3. CASE ReceiveThread
    <3> USE DEF threadLocals, socketVars, history, ThreadStates
    <3>1. CASE ThreadStarts \/ LoopTop \/ CheckRunning \/ RecvFails
      <4>1. pc' \in ThreadStates
        BY <3>1 DEF ThreadStarts, LoopTop, CheckRunning, RecvFails
      <4>2. /\ rcvtimeo' \in BOOLEAN /\ bounded' \in BOOLEAN
            /\ last_scan_line' \in BOOLEAN /\ foreign' \in BOOLEAN
        BY <3>1, Zenon DEF ThreadStarts, LoopTop, CheckRunning, RecvFails
      <4>. QED BY <3>1, <4>1, <4>2, Zenon
           DEF ThreadStarts, LoopTop, CheckRunning, RecvFails
    <3>2. CASE RecvForeign
      <4>1. Head(socket) \in Packet /\ Tail(socket) \in Seq(Packets)
        BY <3>2 DEF RecvForeign
      <4>2. last_scan_line' \in BOOLEAN
        BY <3>2, <4>1 DEF RecvForeign, Packet
      <4>. QED BY <3>2, <4>1, <4>2 DEF RecvForeign
    <3>3. CASE RecvPacket
      <4>1. /\ Head(socket) \in Packet /\ Head(socket) \in Packets
            /\ Tail(socket) \in Seq(Packets)
        BY <3>3 DEF RecvPacket
      <4>2. /\ pc' \in ThreadStates
            /\ socket' \in Seq(Packets)
        BY <3>3, <4>1 DEF RecvPacket
      <4>3. buffer' \in [Rows -> Pixels \cup {Blank}]
        <5>1. buffer' \in Stored(Head(socket))
          BY <3>3 DEF RecvPacket
        <5>. QED BY <5>1, Zenon DEF Stored
      <4>4. since' \in 0 .. 2 /\ ended' \in Packets \cup {NoPacket}
        BY <3>3, <4>1 DEF RecvPacket
      <4>5. last_scan_line' \in BOOLEAN
        BY <3>3, <4>1 DEF RecvPacket, Packet
      <4>6. aborted' \in BOOLEAN /\ foreign' \in BOOLEAN /\ blanked' \in BOOLEAN
        <5>1. aborted' \in BOOLEAN
          BY <3>3, Zenon DEF RecvPacket
        <5>. QED BY <3>3, <5>1, Zenon DEF RecvPacket
      <4>. QED BY <3>3, <4>2, <4>3, <4>4, <4>5, <4>6, Zenon DEF RecvPacket
    <3>4. CASE Publish \/ TestCallback \/ CallbackEnds
      BY <3>4 DEF Publish, Published, TestCallback, CallbackDue, CallbackEnds
    <3>. QED BY <2>3, <3>1, <3>2, <3>3, <3>4 DEF ReceiveThread
  <2>4. ASSUME NEW p \in Packets, Arrive(p) PROVE TypeOK'
    BY <2>4 DEF Arrive, threadLocals, history
  <2>5. CASE UNCHANGED vars
    BY <2>5 DEF vars, threadLocals, socketVars, history
  <2>. QED BY <2>1, <2>2, <2>3, <2>4, <2>5 DEF Next
<1>. QED BY <1>1, <1>2, PTL DEF Spec
-----------------------------------------------------------------------------
(* No receive thread is left when Stop() has returned.                       *)
THEOREM Quiet == Spec => []QuietAfterStop
<1>1. Init => QuietAfterStop
  BY DEF Init, QuietAfterStop
<1>2. QuietAfterStop /\ [Next]_vars => QuietAfterStop'
  <2> SUFFICES ASSUME QuietAfterStop, [Next]_vars PROVE QuietAfterStop'
    OBVIOUS
  <2> USE DEF QuietAfterStop, threadLocals, socketVars
  <2>1. CASE Call
    BY <2>1 DEF Call, SetStreamInfo, RegisterCallback, Open, OpenSocket, Close,
                Start, Stop, Joining, Receive, Destroy
  <2>2. CASE ClientThread
    BY <2>2 DEF ClientThread, StopReturns, TakeFrame, WaitEnds,
                WaitSleeps, WaitContinues, TimesOut
  <2>3. CASE ReceiveThread
    BY <2>3 DEF ReceiveThread, ThreadStarts, LoopTop, CheckRunning, RecvFails,
                RecvForeign, RecvPacket, Publish, TestCallback, CallbackEnds
  <2>4. CASE \E p \in Packets : Arrive(p)
    BY <2>4 DEF Arrive
  <2>5. CASE UNCHANGED vars
    BY <2>5 DEF vars
  <2>. QED BY <2>1, <2>2, <2>3, <2>4, <2>5 DEF Next
<1>. QED BY <1>1, <1>2, PTL DEF Spec
-----------------------------------------------------------------------------
(* The buffer still shows the packet that ended the last frame, or was       *)
(* blanked.                                                                  *)
EndShown ==
  since = 0 /\ (\/ blanked
                \/ \A r \in Rows : \/ Copies(ended, r) = {}
                                    \/ Shows(buffer, ended, r))

(* The thread's last_scan_line is clear until a packet of this pass sets it; *)
(* a packet that is no RTP may, any other one only when it ended a frame.    *)
FlagInv ==
  /\ pc \in {"check", "recvfrom"} /\ last_scan_line => foreign
  /\ pc = "publish" /\ last_scan_line => foreign \/ EndShown
  /\ new_rx_frame => EndShown \/ (since = 1 /\ pc = "publish") \/ strayed

(* What a packet leaves in the rows it writes.                               *)
LEMMA StoredShows ==
  ASSUME NEW p, NEW b \in Stored(p), NEW r \in Rows
  PROVE  Copies(p, r) = {} \/ Shows(b, p, r)
BY Zenon DEF Stored

(* The flag is up only at the end of a frame that the buffer still shows, or *)
(* one packet behind it, for every order, loss and repetition of packets; or *)
(* it comes from a datagram that is no RTP.                                  *)
THEOREM FrameFlag == Spec => []FlagMeansFrameEnd
<1> USE DepayloaderAssumption DEF DepayloaderAssumption
<1>1. Init => FlagInv
  BY DEF Init, FlagInv
<1>2. TypeOK /\ FlagInv /\ [Next]_vars => FlagInv'
  <2> SUFFICES ASSUME TypeOK, FlagInv, [Next]_vars PROVE FlagInv'
    OBVIOUS
  <2>0. ASSUME UNCHANGED <<since, blanked, ended, buffer>>
        PROVE  EndShown' = EndShown
    BY <2>0 DEF EndShown, Copies, Shows
  <2> USE DEF threadLocals, socketVars, history
  <2>1. CASE Call
    <3>1. /\ UNCHANGED <<since, blanked, ended, buffer>>
          /\ UNCHANGED <<foreign, strayed, new_rx_frame, last_scan_line>>
          /\ pc' = pc \/ (pc' = "starting" /\ pc = "none")
      <4>1. CASE Start
        BY <4>1 DEF Start
      <4>. QED BY <2>1, <4>1, Zenon
           DEF Call, SetStreamInfo, RegisterCallback, Open, Close, Stop,
               Receive, Destroy
    <3>. QED BY <2>0, <3>1 DEF FlagInv
  <2>2. CASE ClientThread
    <3>1. CASE TimesOut
      <4>1. /\ UNCHANGED <<since, pc, foreign, strayed, new_rx_frame,
                           last_scan_line>>
            /\ blanked'
        BY <3>1 DEF TimesOut
      <4>2. EndShown => EndShown'
        BY <4>1, Zenon DEF EndShown
      <4>. QED BY <4>1, <4>2 DEF FlagInv
    <3>2. CASE ~TimesOut
      <4>1. /\ UNCHANGED <<since, blanked, ended, buffer>>
            /\ UNCHANGED <<foreign, strayed, last_scan_line>>
            /\ new_rx_frame' = new_rx_frame \/ ~new_rx_frame'
            /\ pc' = pc \/ (pc' = "none" /\ pc = "ended")
        BY <2>2, <3>2, Zenon DEF ClientThread, StopReturns, TakeFrame,
                                 WaitEnds, WaitSleeps, WaitContinues
      <4>. QED BY <2>0, <4>1 DEF FlagInv
    <3>. QED BY <3>1, <3>2
  <2>3. CASE ReceiveThread
    <3>1. CASE ThreadStarts \/ LoopTop \/ CheckRunning \/ RecvFails
      <4>1. UNCHANGED <<since, blanked, ended, buffer>>
        BY <3>1 DEF ThreadStarts, LoopTop, CheckRunning, RecvFails
      <4>. QED BY <2>0, <3>1, <4>1
           DEF FlagInv, ThreadStarts, LoopTop, CheckRunning, RecvFails
    <3>2. CASE RecvForeign
      <4>1. UNCHANGED <<since, blanked, ended, buffer>>
        BY <3>2 DEF RecvForeign
      <4>. QED BY <2>0, <3>2, <4>1 DEF FlagInv, RecvForeign
    <3>3. CASE RecvPacket
      <4> DEFINE p == Head(socket)
      <4>1. /\ pc = "recvfrom" /\ pc' = "publish"
            /\ last_scan_line' = p.marker
            /\ buffer' \in Stored(p)
            /\ \/ p.marker /\ since' = 0 /\ ended' = p
               \/ ~p.marker /\ since' = IF since = 2 THEN 2 ELSE since + 1
            /\ UNCHANGED <<new_rx_frame, strayed>>
        BY <3>3 DEF RecvPacket
      <4>2. ASSUME p.marker PROVE EndShown'
        <5>1. \A r \in Rows : Copies(p, r) = {} \/ Shows(buffer', p, r)
          BY <4>1, StoredShows
        <5>2. since' = 0 /\ ended' = p
          BY <4>1, <4>2
        <5>. QED BY <5>1, <5>2 DEF EndShown, Copies, Shows
      <4>3. CASE p.marker
        BY <4>1, <4>2, <4>3 DEF FlagInv
      <4>4. CASE ~p.marker
        BY <4>1, <4>4 DEF FlagInv, EndShown
      <4>. QED BY <4>3, <4>4
    <3>4. CASE Publish
      <4>1. UNCHANGED <<since, blanked, ended, buffer>>
        BY <3>4 DEF Publish
      <4>. QED BY <2>0, <3>4, <4>1 DEF FlagInv, Publish, Published
    <3>5. CASE TestCallback \/ CallbackEnds
      <4>1. UNCHANGED <<since, blanked, ended, buffer>>
        BY <3>5 DEF TestCallback, CallbackEnds
      <4>. QED BY <2>0, <3>5, <4>1 DEF FlagInv, TestCallback, CallbackEnds
    <3>. QED BY <2>3, <3>1, <3>2, <3>3, <3>4, <3>5 DEF ReceiveThread
  <2>4. CASE \E p \in Packets : Arrive(p)
    <3>1. /\ UNCHANGED <<since, blanked, ended, buffer>>
          /\ UNCHANGED <<foreign, strayed, new_rx_frame, last_scan_line, pc>>
      BY <2>4 DEF Arrive
    <3>. QED BY <2>0, <3>1 DEF FlagInv
  <2>5. CASE UNCHANGED vars
    <3>1. /\ UNCHANGED <<since, blanked, ended, buffer>>
          /\ UNCHANGED <<foreign, strayed, new_rx_frame, last_scan_line, pc>>
      BY <2>5 DEF vars
    <3>. QED BY <2>0, <3>1 DEF FlagInv
  <2>. QED BY <2>1, <2>2, <2>3, <2>4, <2>5 DEF Next
<1>3. FlagInv => FlagMeansFrameEnd
  BY DEF FlagInv, EndShown, FlagMeansFrameEnd
<1>. QED BY <1>1, <1>2, <1>3, TypeCorrect, PTL DEF Spec
-----------------------------------------------------------------------------
LEMMA StreamBounds ==
  /\ Height \in Nat \ {0}
  /\ MaxFrames \in Nat
  /\ SocketCapacity \in Nat \ {0}
  /\ SequenceModulus \in Nat \ {0}
BY DepayloaderAssumption, StreamAssumption
DEF DepayloaderAssumption, StreamAssumption

(* The line of a packet and the frame whose row it carries.                  *)
Line(p) == p.lines[1].line
Frame(p) == p.lines[1].pixels.frame

RowShown == [frame : Nat, row : Nat]

(* The number of frames transmitted, which is the thread that runs last.     *)
Sent == Len(passed[Stream])

StreamType ==
  /\ egress \in [{Stream} -> Tx!Egress]
  /\ rgb_frame \in [{Stream} -> Nat]
  /\ caller \in [{Stream} -> Nat]
  /\ tx_pc \in [FrameNumbers -> Tx!Locations]
  /\ owner \in [FrameNumbers -> {Stream}]
  /\ line \in [FrameNumbers -> 1 .. (Height + 1)]
  /\ last \in [FrameNumbers -> BOOLEAN]
  /\ passed \in [{Stream} -> Seq(Tx!Argument)]
  /\ wire \in Seq(LinePackets)
  /\ socket \in Seq(LinePackets)
  /\ buffer \in [Rows -> RowShown]
  /\ pc \in ThreadStates
  /\ shown \in Nat
  /\ picture \in [Rows -> RowShown]

(* Blocking calls run one thread after the other: those of earlier frames    *)
(* have ended, those of later ones are not there, and the one of frame Sent  *)
(* reads the frame and the settings it was spawned for.                      *)
TransmitterInv ==
  /\ \A t \in FrameNumbers : /\ t < Sent => tx_pc[t] \in Tx!Ended
                             /\ t > Sent => tx_pc[t] = "none"
  /\ Sent > 0 =>
       /\ Sent \in FrameNumbers
       /\ tx_pc[Sent] # "none"
       /\ rgb_frame[Stream] = Sent
       /\ egress[Stream] = Video
       /\ caller[Stream] = 0 => tx_pc[Sent] \in Tx!Ended
       /\ tx_pc[Sent] \in {"last", "header", "increment", "send"} =>
            line[Sent] <= Height
       /\ tx_pc[Sent] \in {"header", "increment", "send"} =>
            last[Sent] = (line[Sent] = Height)
  /\ caller[Stream] \in {0, Sent}
  /\ egress[Stream].port => egress[Stream] = Video

(* The sender is past line l of frame f. *)
Past(f, l) ==
  \/ f \in 1 .. (Sent - 1)
  \/ /\ f = Sent /\ Sent > 0
     /\ \/ tx_pc[Sent] \in Tx!Ended
        \/ tx_pc[Sent] \in Tx!InSendFrame /\ l < line[Sent]

(* Packet p was sent before q; row r of the buffer is older than packet p.   *)
Before(p, q) == \/ Frame(p) < Frame(q)
                \/ Frame(p) = Frame(q) /\ Line(p) < Line(q)
Older(r, p) == /\ buffer[r].frame <= Frame(p)
               /\ r >= Line(p) => buffer[r].frame < Frame(p)

(* Packets follow each other on the wire; what is queued or in the buffer    *)
(* was on it.                                                                *)
WireInv ==
  /\ newest \in 0 .. Len(wire)
  /\ \A i \in 1 .. Len(wire) : Past(Frame(wire[i]), Line(wire[i]))
  /\ \A i, j \in 1 .. Len(wire) : i < j => Before(wire[i], wire[j])
  /\ \A k \in 1 .. Len(socket) : Past(Frame(socket[k]), Line(socket[k]))
  /\ \A r \in Rows : \/ buffer[r] = NoPixels
                     \/ buffer[r].row = r /\ Past(buffer[r].frame, r)

(* Until the network reorders: the queued packets are in order, the ones not *)
(* delivered yet come behind them, and the buffer is older than both.        *)
OrderInv ==
  /\ \A k, m \in 1 .. Len(socket) : k < m => Before(socket[k], socket[m])
  /\ \A k \in 1 .. Len(socket), j \in (newest + 1) .. Len(wire) :
       Before(socket[k], wire[j])
  /\ \A r \in Rows : /\ \A k \in 1 .. Len(socket) : Older(r, socket[k])
                     /\ \A j \in (newest + 1) .. Len(wire) : Older(r, wire[j])

(* A frame is about to be announced or its callback about to be called. *)
Announced == \/ pc = "publish" /\ last_scan_line
             \/ pc = "test" /\ new_rx_frame

(* Until the network reorders: the buffer is never behind the picture, and   *)
(* while a frame is announced it ends with that frame, which is newer than   *)
(* the one shown last.                                                       *)
NewerInv ==
  /\ shown <= buffer[Height].frame
  /\ \A r \in Rows : picture[r].frame <= buffer[r].frame
  /\ Announced =>
       /\ shown < buffer[Height].frame
       /\ \A r \in Rows : buffer[r].frame <= buffer[Height].frame

ShowInv ==
  /\ pc \in {"check", "recvfrom"} => ~last_scan_line
  /\ Announced => buffer[Height] # NoPixels

StreamInv ==
  /\ StreamType /\ TransmitterInv /\ WireInv /\ ShowInv
  /\ ordered => OrderInv /\ NewerInv
-----------------------------------------------------------------------------
LEMMA SentIsNat ==
  ASSUME StreamType
  PROVE  Sent \in Nat
BY DEF StreamType, Sent

(* A packet that was on the wire has one scan line, and storing it writes    *)
(* that row.                                                                 *)
LEMMA PacketShape ==
  ASSUME NEW p \in LinePackets
  PROVE  /\ Line(p) \in Rows /\ Frame(p) \in FrameNumbers
         /\ Frame(p) \in Nat /\ Frame(p) > 0
         /\ p.lines[1].pixels = [frame |-> Frame(p), row |-> Line(p)]
         /\ p.marker = (Line(p) = Height)
         /\ p.valid
         /\ \A r \in Rows : Copies(p, r) = IF r = Line(p) THEN {1} ELSE {}
<1>1. PICK l \in Rows, f \in FrameNumbers :
        p = UdpPacket(l, [frame |-> f, row |-> l], l = Height)
  BY DEF LinePackets
<1>2. /\ Len(p.lines) = 2
      /\ p.lines[1].line = l /\ p.lines[2].line = 0
      /\ p.lines[1].pixels = [frame |-> f, row |-> l]
      /\ p.marker = (l = Height) /\ p.valid
  BY <1>1 DEF UdpPacket
<1>3. Line(p) = l /\ Frame(p) = f
  BY <1>2 DEF Line, Frame
<1>4. f \in Nat /\ f > 0
  BY StreamBounds DEF FrameNumbers
<1>5. ASSUME NEW r \in Rows
      PROVE  Copies(p, r) = IF r = l THEN {1} ELSE {}
  <2>1. r \in Nat /\ r # 0 /\ l \in Nat /\ l # 0
    BY StreamBounds DEF Rows
  <2>2. ASSUME NEW i \in 1 .. 2
        PROVE  (/\ p.lines[i].line = r
                /\ \A j \in 1 .. i : p.lines[j].line # 0)
               <=> i = 1 /\ r = l
    BY <1>2, <2>1, <2>2
  <2>. QED BY <1>2, <2>2 DEF Copies
<1>. QED BY <1>2, <1>3, <1>4, <1>5

LEMMA StoredRow ==
  ASSUME NEW p \in LinePackets, NEW b \in Stored(p)
  PROVE  /\ b[Line(p)] = [frame |-> Frame(p), row |-> Line(p)]
         /\ \A r \in Rows : r # Line(p) => b[r] = buffer[r]
         /\ DOMAIN b = Rows
<1>1. /\ b \in [Rows -> Pixels \cup {Blank}]
      /\ \A r \in Rows : IF Copies(p, r) = {} THEN b[r] = buffer[r]
                         ELSE Shows(b, p, r)
  BY DEF Stored
<1>2. \A r \in Rows : r # Line(p) => b[r] = buffer[r]
  BY <1>1, PacketShape, Zenon
<1>3. Line(p) \in Rows /\ Copies(p, Line(p)) = {1}
  BY PacketShape
<1>4. Shows(b, p, Line(p))
  BY <1>1, <1>3
<1>5. b[Line(p)] = p.lines[1].pixels
  BY <1>3, <1>4 DEF Shows
<1>. QED BY <1>1, <1>2, <1>5, PacketShape

LEMMA WireTyped ==
  ASSUME StreamType
  PROVE  /\ Len(wire) \in Nat
         /\ \A i \in 1 .. Len(wire) :
              /\ wire[i] \in LinePackets
              /\ Frame(wire[i]) \in Nat /\ Line(wire[i]) \in Rows
<1>1. /\ Len(wire) \in Nat
      /\ \A i \in 1 .. Len(wire) : wire[i] \in LinePackets
  BY DEF StreamType
<1>. QED BY <1>1, PacketShape

LEMMA SocketTyped ==
  ASSUME StreamType
  PROVE  /\ Len(socket) \in Nat
         /\ \A i \in 1 .. Len(socket) :
              /\ socket[i] \in LinePackets
              /\ Frame(socket[i]) \in Nat /\ Line(socket[i]) \in Rows
<1>1. /\ Len(socket) \in Nat
      /\ \A i \in 1 .. Len(socket) : socket[i] \in LinePackets
  BY DEF StreamType
<1>. QED BY <1>1, PacketShape
-----------------------------------------------------------------------------
(* The variables that the order of what was sent depends on.                 *)
sender == <<passed, tx_pc, line>>

(* What StreamType says of the receiver and the network.                     *)
received == <<wire, socket, buffer, pc, shown, picture>>

(* A client's call other than Transmit leaves what was sent alone.           *)
LEMMA ClientStep ==
  ASSUME StreamType, TransmitterInv,
         \/ Tx!SetStreamInfo(Stream, Video) \/ Tx!Open(Stream)
         \/ Tx!Close(Stream) \/ Tx!TransmitReturns(Stream),
         UNCHANGED received
  PROVE  StreamType' /\ TransmitterInv' /\ UNCHANGED sender
<1> USE StreamBounds
<1>1. /\ UNCHANGED <<rgb_frame, tx_pc, owner, line, last, passed>>
      /\ UNCHANGED <<wire, socket, buffer, pc, shown, picture>>
  BY DEF Tx!SetStreamInfo, Tx!Open, Tx!Close, Tx!TransmitReturns,
         Tx!threadVars, received
<1>2. \/ caller' = caller
      \/ /\ caller' = [caller EXCEPT ![Stream] = 0]
         /\ caller[Stream] # 0 /\ tx_pc[caller[Stream]] \in Tx!Ended
  BY DEF Tx!SetStreamInfo, Tx!Open, Tx!Close, Tx!TransmitReturns
<1>3. egress' = egress \/ egress' = [egress EXCEPT ![Stream] = Video]
  BY DEF Tx!SetStreamInfo, Tx!Open, Tx!Close, Tx!TransmitReturns
<1>4. Video \in Tx!Egress
  BY DEF Video, Tx!Egress, Tx!Encoding
<1>5. StreamType'
  BY <1>1, <1>2, <1>3, <1>4 DEF StreamType
<1>6. TransmitterInv'
  <2>1. Sent' = Sent
    BY <1>1 DEF Sent
  <2>2. /\ Sent > 0 => egress'[Stream] = Video
        /\ egress'[Stream].port => egress'[Stream] = Video
    BY <1>3 DEF StreamType, TransmitterInv
  <2>3. /\ caller'[Stream] \in {0, Sent}
        /\ Sent > 0 /\ caller'[Stream] = 0 => tx_pc[Sent] \in Tx!Ended
    BY <1>2 DEF StreamType, TransmitterInv
  <2>. QED BY <1>1, <2>1, <2>2, <2>3 DEF TransmitterInv
<1>. QED BY <1>1, <1>5, <1>6 DEF sender

(* The next frame is transmitted when the thread of the last one has ended.  *)
LEMMA TransmitStep ==
  ASSUME StreamType, TransmitterInv, Sent < MaxFrames,
         Tx!Transmit(Stream, Sent + 1, TRUE, Sent + 1),
         UNCHANGED received
  PROVE  /\ StreamType' /\ TransmitterInv'
         /\ Sent' = Sent + 1
         /\ Sent > 0 => tx_pc[Sent] \in Tx!Ended
         /\ tx_pc'[Sent + 1] = "lock"
         /\ \A t \in FrameNumbers : t # Sent + 1 => tx_pc'[t] = tx_pc[t]
<1> USE StreamBounds
<1> DEFINE f == Sent + 1
           call == [frame |-> f, blocking |-> TRUE,
                    height |-> egress[Stream].height]
<1>1. Sent \in Nat /\ f \in FrameNumbers
  BY SentIsNat DEF FrameNumbers
<1>2. /\ caller[Stream] = 0
      /\ egress[Stream].port
      /\ tx_pc' = [tx_pc EXCEPT ![f] = "lock"]
      /\ owner' = [owner EXCEPT ![f] = Stream]
      /\ rgb_frame' = [rgb_frame EXCEPT ![Stream] = f]
      /\ caller' = [caller EXCEPT ![Stream] = f]
      /\ passed' = [passed EXCEPT ![Stream] = Append(passed[Stream], call)]
      /\ UNCHANGED <<line, last, egress>>
      /\ UNCHANGED <<wire, socket, buffer, pc, shown, picture>>
  BY DEF Tx!Transmit, Tx!Free, Tx!JoinedBy, received
<1>3. passed[Stream] \in Seq(Tx!Argument) /\ call \in Tx!Argument
  <2>1. egress[Stream].height \in 0 .. Height
    BY DEF StreamType, Tx!Egress
  <2>. QED BY <1>1, <2>1 DEF StreamType, Tx!Argument
<1>4. /\ Append(passed[Stream], call) \in Seq(Tx!Argument)
      /\ Len(Append(passed[Stream], call)) = f
  <2> HIDE DEF call
  <2>. QED BY <1>3 DEF Sent
<1>5. passed'[Stream] = Append(passed[Stream], call)
  BY <1>2 DEF StreamType
<1>6. Sent' = f
  BY <1>4, <1>5 DEF Sent
<1>7. /\ tx_pc'[f] = "lock"
      /\ \A t \in FrameNumbers : t # f => tx_pc'[t] = tx_pc[t]
      /\ rgb_frame'[Stream] = f /\ caller'[Stream] = f
  BY <1>1, <1>2 DEF StreamType
<1>8. Sent > 0 => tx_pc[Sent] \in Tx!Ended
  BY <1>2 DEF TransmitterInv
<1>9. egress[Stream] = Video
  BY <1>2 DEF TransmitterInv
<1>10. TransmitterInv'
  <2>1. ASSUME NEW t \in FrameNumbers
        PROVE  /\ t < f => tx_pc'[t] \in Tx!Ended
               /\ t > f => tx_pc'[t] = "none"
    BY <1>1, <1>7, <1>8 DEF TransmitterInv, FrameNumbers
  <2>. QED BY <1>1, <1>2, <1>6, <1>7, <1>9, <2>1
       DEF TransmitterInv, Tx!Ended
<1>11. StreamType'
  <2>1. /\ rgb_frame' \in [{Stream} -> Nat]
        /\ caller' \in [{Stream} -> Nat]
        /\ tx_pc' \in [FrameNumbers -> Tx!Locations]
        /\ owner' \in [FrameNumbers -> {Stream}]
    BY <1>1, <1>2 DEF StreamType, Tx!Locations
  <2>2. passed' \in [{Stream} -> Seq(Tx!Argument)]
    BY <1>2, <1>4 DEF StreamType
  <2>. QED BY <1>2, <2>1, <2>2 DEF StreamType
<1>. QED BY <1>6, <1>7, <1>8, <1>10, <1>11

(* The thread that runs is that of the last frame; its steps up to sendto    *)
(* send nothing.                                                             *)
LEMMA ThreadStep ==
  ASSUME StreamType, TransmitterInv,
         NEW t \in FrameNumbers, SenderThread(t), UNCHANGED received
  PROVE  /\ StreamType' /\ TransmitterInv'
         /\ t = Sent /\ Sent' = Sent /\ Sent > 0
         /\ \/ tx_pc[t] = "lock" /\ line'[t] = 1 /\ tx_pc'[t] = "test"
            \/ /\ tx_pc[t] \in Tx!InSendFrame /\ line'[t] = line[t]
               /\ \/ tx_pc'[t] \in Tx!InSendFrame
                  \/ tx_pc'[t] = "done" /\ line[t] = Height + 1
<1> USE StreamBounds DEF FrameNumbers
<1>0. owner[t] = Stream
  BY DEF StreamType
<1>1. /\ UNCHANGED <<egress, rgb_frame, caller, owner, passed>>
      /\ UNCHANGED <<wire, socket, buffer, pc, shown, picture>>
  BY DEF SenderThread, Tx!EnterSendFrame, Tx!LoopTest, Tx!TestLast,
         Tx!UpdateHeader, Tx!IncrementSequence, Tx!clientVars, received
<1>2. tx_pc[t] \in {"lock", "test", "last", "header", "increment"}
  BY DEF SenderThread, Tx!EnterSendFrame, Tx!LoopTest, Tx!TestLast,
         Tx!UpdateHeader, Tx!IncrementSequence
<1>3. Sent \in Nat /\ Sent' = Sent
  BY <1>1, SentIsNat DEF Sent
<1>4. t = Sent /\ Sent > 0
  BY <1>2, <1>3 DEF TransmitterInv, Tx!Ended
<1>5. /\ egress[Stream].height = Height /\ line[t] \in 1 .. (Height + 1)
      /\ tx_pc[t] \in {"last", "header", "increment", "send"} =>
           line[t] <= Height
      /\ tx_pc[t] \in {"header", "increment", "send"} =>
           last[t] = (line[t] = Height)
  BY <1>4 DEF TransmitterInv, Video, StreamType
<1>6. \E w \in {"test", "last", "header", "increment", "send", "done"} :
        /\ tx_pc' = [tx_pc EXCEPT ![t] = w]
        /\ \/ /\ tx_pc[t] = "lock" /\ w = "test"
              /\ line' = [line EXCEPT ![t] = 1] /\ last' = last
           \/ /\ tx_pc[t] = "test" /\ w = "last" /\ line[t] <= Height
              /\ line' = line /\ last' = last
           \/ /\ tx_pc[t] = "test" /\ w = "done" /\ ~(line[t] <= Height)
              /\ line' = line /\ last' = last
           \/ /\ tx_pc[t] = "last" /\ w = "header"
              /\ line' = line
              /\ last' = [last EXCEPT ![t] = (line[t] = Height)]
           \/ /\ tx_pc[t] = "header" /\ w = "increment"
              /\ line' = line /\ last' = last
           \/ /\ tx_pc[t] = "increment" /\ w = "send"
              /\ line' = line /\ last' = last
  <2>1. CASE Tx!EnterSendFrame(t)
    BY <2>1 DEF Tx!EnterSendFrame
  <2>2. CASE Tx!LoopTest(t)
    BY <1>0, <1>5, <2>2 DEF Tx!LoopTest, Tx!LoopOn
  <2>3. CASE Tx!TestLast(t)
    BY <1>0, <1>5, <2>3 DEF Tx!TestLast
  <2>4. CASE Tx!UpdateHeader(t) \/ Tx!IncrementSequence(t)
    BY <2>4 DEF Tx!UpdateHeader, Tx!IncrementSequence
  <2>. QED BY <2>1, <2>2, <2>3, <2>4 DEF SenderThread
<1>7. /\ tx_pc \in [FrameNumbers -> Tx!Locations]
      /\ line \in [FrameNumbers -> 1 .. (Height + 1)]
      /\ last \in [FrameNumbers -> BOOLEAN]
  BY DEF StreamType
<1>8. /\ tx_pc' \in [FrameNumbers -> Tx!Locations]
      /\ \A u \in FrameNumbers : u # t => tx_pc'[u] = tx_pc[u]
  BY <1>6, <1>7 DEF Tx!Locations, Tx!InSendFrame, Tx!Ended
<1>9. line' \in [FrameNumbers -> 1 .. (Height + 1)]
  BY <1>6, <1>7
<1>10. last' \in [FrameNumbers -> BOOLEAN]
  BY <1>6, <1>7
<1>11. \/ tx_pc[t] = "lock" /\ line'[t] = 1 /\ tx_pc'[t] = "test"
       \/ /\ tx_pc[t] \in Tx!InSendFrame /\ line'[t] = line[t]
          /\ \/ tx_pc'[t] \in Tx!InSendFrame
             \/ tx_pc'[t] = "done" /\ line[t] = Height + 1
  BY <1>5, <1>6, <1>7 DEF Tx!InSendFrame
<1>12. /\ tx_pc'[t] \in {"last", "header", "increment", "send"} =>
            line'[t] <= Height
       /\ tx_pc'[t] \in {"header", "increment", "send"} =>
            last'[t] = (line'[t] = Height)
  BY <1>5, <1>6, <1>7
<1>13. StreamType'
  BY <1>1, <1>8, <1>9, <1>10 DEF StreamType
<1>14. TransmitterInv'
  <2>1. caller[Stream] # 0
    BY <1>2, <1>4 DEF TransmitterInv, Tx!Ended
  <2>2. tx_pc'[t] # "none"
    BY <1>6, <1>7
  <2>. QED BY <1>1, <1>3, <1>4, <1>8, <1>12, <2>1, <2>2 DEF TransmitterInv
<1>. QED BY <1>3, <1>4, <1>11, <1>13, <1>14

(* The packet of a sendto is the next line of the last frame.                *)
LEMMA SendStep ==
  ASSUME StreamType, TransmitterInv,
         NEW t \in FrameNumbers, Tx!SendLine(t)
  PROVE  /\ TransmitterInv'
         /\ t = Sent /\ Sent' = Sent /\ Sent > 0 /\ tx_pc[t] = "send"
         /\ line[t] \in Rows
         /\ UNCHANGED <<egress, rgb_frame, caller, owner, last, passed>>
         /\ tx_pc' \in [FrameNumbers -> Tx!Locations]
         /\ line' \in [FrameNumbers -> 1 .. (Height + 1)]
         /\ tx_pc'[t] = "test" /\ line'[t] = line[t] + 1
         /\ OnTheWire(t) \in LinePackets
         /\ Frame(OnTheWire(t)) = Sent /\ Line(OnTheWire(t)) = line[t]
<1> USE StreamBounds DEF FrameNumbers
<1>1. /\ UNCHANGED <<egress, rgb_frame, caller, owner, last, passed>>
      /\ tx_pc[t] = "send"
      /\ line' = [line EXCEPT ![t] = line[t] + 1]
      /\ tx_pc' = [tx_pc EXCEPT ![t] = "test"]
  BY DEF Tx!SendLine, Tx!clientVars, StreamType
<1>2. Sent \in Nat /\ Sent' = Sent
  BY <1>1, SentIsNat DEF Sent
<1>3. t = Sent /\ Sent > 0
  BY <1>1, <1>2 DEF TransmitterInv, Tx!Ended
<1>4. line[t] \in Rows /\ last[t] = (line[t] = Height)
  BY <1>1, <1>3 DEF TransmitterInv, StreamType, Rows
<1>5. /\ line' \in [FrameNumbers -> 1 .. (Height + 1)]
      /\ line'[t] = line[t] + 1
  BY <1>1, <1>4 DEF StreamType, Rows
<1>6. /\ tx_pc' \in [FrameNumbers -> Tx!Locations]
      /\ tx_pc'[t] = "test"
      /\ \A u \in FrameNumbers : u # t => tx_pc'[u] = tx_pc[u]
  BY <1>1 DEF StreamType, Tx!Locations, Tx!InSendFrame
<1>7. TransmitterInv'
  <2>1. caller[Stream] # 0
    BY <1>1, <1>2, <1>3 DEF TransmitterInv, Tx!Ended
  <2>. QED BY <1>1, <1>2, <1>3, <1>6, <2>1 DEF TransmitterInv
<1>8. rgb_frame[Stream] = Sent /\ owner[t] = Stream
  BY <1>2, <1>3 DEF TransmitterInv, StreamType
<1>9. OnTheWire(t) = UdpPacket(line[t], [frame |-> Sent, row |-> line[t]],
                               line[t] = Height)
  BY <1>4, <1>8 DEF OnTheWire, Tx!LinePacket
<1>10. OnTheWire(t) \in LinePackets
  BY <1>3, <1>4, <1>9 DEF LinePackets
<1>11. Frame(OnTheWire(t)) = Sent /\ Line(OnTheWire(t)) = line[t]
  BY <1>9 DEF UdpPacket, Frame, Line
<1>. QED BY <1>1, <1>2, <1>3, <1>4, <1>5, <1>6, <1>7, <1>10, <1>11

(* A sendto that gives 0 ends the frame. *)
LEMMA NothingStep ==
  ASSUME StreamType, TransmitterInv,
         NEW t \in FrameNumbers, Tx!SendNothing(t), UNCHANGED received
  PROVE  /\ StreamType' /\ TransmitterInv'
         /\ t = Sent /\ Sent' = Sent /\ Sent > 0 /\ tx_pc[t] = "send"
         /\ tx_pc'[t] = "cut" /\ UNCHANGED line
<1> USE StreamBounds DEF FrameNumbers
<1>1. /\ UNCHANGED <<egress, rgb_frame, caller, owner, line, last, passed>>
      /\ UNCHANGED <<wire, socket, buffer, pc, shown, picture>>
      /\ tx_pc[t] = "send"
      /\ tx_pc' = [tx_pc EXCEPT ![t] = "cut"]
  BY DEF Tx!SendNothing, Tx!clientVars, received
<1>2. Sent \in Nat /\ Sent' = Sent
  BY <1>1, SentIsNat DEF Sent
<1>3. t = Sent /\ Sent > 0
  BY <1>1, <1>2 DEF TransmitterInv, Tx!Ended
<1>4. /\ tx_pc' \in [FrameNumbers -> Tx!Locations]
      /\ tx_pc'[t] = "cut"
      /\ \A u \in FrameNumbers : u # t => tx_pc'[u] = tx_pc[u]
  BY <1>1 DEF StreamType, Tx!Locations, Tx!Ended
<1>5. StreamType'
  BY <1>1, <1>4 DEF StreamType
<1>6. TransmitterInv'
  BY <1>1, <1>2, <1>3, <1>4 DEF TransmitterInv, Tx!Ended
<1>. QED BY <1>1, <1>2, <1>3, <1>4, <1>5, <1>6
-----------------------------------------------------------------------------
(* What the sender is past it stays past. *)
PastStays == \A f \in Nat, l \in Rows : Past(f, l) => Past(f, l)'

(* A step that takes nothing from what was sent, writes no row and leaves or *)
(* empties the socket keeps the order on the wire.                           *)
LEMMA WireStutter ==
  ASSUME StreamType, WireInv, PastStays,
         UNCHANGED <<wire, newest, buffer>>,
         socket' = socket \/ socket' = <<>>
  PROVE  WireInv' /\ (OrderInv => OrderInv')
<1>0. \A r \in Rows : buffer[r].frame \in Nat
  BY DEF StreamType, RowShown
<1>1. \A r \in Rows : \/ buffer'[r] = NoPixels
                      \/ buffer'[r].row = r /\ Past(buffer[r].frame, r)'
  BY <1>0 DEF WireInv, PastStays
<1>2. \A i \in 1 .. Len(wire') : Past(Frame(wire[i]), Line(wire[i]))'
  BY WireTyped DEF WireInv, PastStays, Frame, Line
<1>3. CASE socket' = socket
  <2>1. \A k \in 1 .. Len(socket') : Past(Frame(socket[k]), Line(socket[k]))'
    BY <1>3, SocketTyped DEF WireInv, PastStays, Frame, Line
  <2>2. WireInv'
    BY <1>1, <1>2, <2>1 DEF WireInv, Before, Frame, Line
  <2>3. OrderInv => OrderInv'
    BY <1>3 DEF OrderInv, Before, Older, Frame, Line
  <2>. QED BY <2>2, <2>3
<1>4. CASE socket' = <<>>
  <2>1. WireInv'
    BY <1>1, <1>2, <1>4 DEF WireInv, Before, Frame, Line
  <2>2. OrderInv => OrderInv'
    BY <1>4 DEF OrderInv, Before, Older, Frame, Line
  <2>. QED BY <2>1, <2>2
<1>. QED BY <1>3, <1>4

LEMMA TransmitterStep ==
  ASSUME StreamInv, Transmitter
  PROVE  StreamInv' /\ UNCHANGED <<shown, picture, ordered>>
                    /\ (Sent' = Sent \/ Sent' = Sent + 1)
<1> USE StreamBounds
<1>1. /\ UNCHANGED <<vars, seen, network, received>>
      /\ StreamType /\ TransmitterInv /\ WireInv
  BY DEF Transmitter, StreamInv, vars, socketVars, threadLocals, seen, network,
         received
<1>2. Sent \in Nat
  BY <1>1, SentIsNat
<1>3. ASSUME StreamType', TransmitterInv', PastStays
      PROVE  StreamInv'
  <2>1. WireInv' /\ (OrderInv => OrderInv')
    BY <1>1, <1>3, WireStutter DEF network, received
  <2>2. ShowInv' /\ (NewerInv => NewerInv') /\ ordered' = ordered
    BY <1>1 DEF StreamInv, ShowInv, NewerInv, Announced, vars, socketVars,
                threadLocals, seen, network
  <2>. QED BY <1>3, <2>1, <2>2 DEF StreamInv
<1>4. CASE \/ Tx!SetStreamInfo(Stream, Video) \/ Tx!Open(Stream)
           \/ Tx!Close(Stream) \/ Tx!TransmitReturns(Stream)
  <2>1. StreamType' /\ TransmitterInv' /\ UNCHANGED sender
    BY <1>1, <1>4, ClientStep
  <2>2. PastStays /\ Sent' = Sent
    BY <2>1 DEF PastStays, Past, Sent, sender
  <2>. QED BY <1>1, <1>3, <2>1, <2>2 DEF seen, network
<1>5. CASE /\ Sent < MaxFrames
           /\ Tx!Transmit(Stream, Sent + 1, TRUE, Sent + 1)
  <2>1. /\ StreamType' /\ TransmitterInv' /\ Sent' = Sent + 1
        /\ Sent > 0 => tx_pc[Sent] \in Tx!Ended
        /\ \A t \in FrameNumbers : t # Sent + 1 => tx_pc'[t] = tx_pc[t]
    BY <1>1, <1>5, TransmitStep
  <2>2. PastStays
    BY <1>2, <2>1 DEF PastStays, Past
  <2>. QED BY <1>1, <1>3, <2>1, <2>2 DEF seen, network
<1>6. ASSUME NEW t \in FrameNumbers, SenderThread(t)
      PROVE  StreamInv' /\ Sent' = Sent
  <2>1. /\ StreamType' /\ TransmitterInv'
        /\ t = Sent /\ Sent' = Sent /\ Sent > 0
        /\ \/ tx_pc[t] = "lock" /\ line'[t] = 1 /\ tx_pc'[t] = "test"
           \/ /\ tx_pc[t] \in Tx!InSendFrame /\ line'[t] = line[t]
              /\ \/ tx_pc'[t] \in Tx!InSendFrame
                 \/ tx_pc'[t] = "done" /\ line[t] = Height + 1
    BY <1>1, <1>6, ThreadStep
  <2>2. PastStays
    BY <1>2, <2>1 DEF PastStays, Past, Tx!InSendFrame, Tx!Ended
  <2>. QED BY <1>3, <2>1, <2>2
<1>. QED BY <1>1, <1>4, <1>5, <1>6 DEF Transmitter, Sent, seen, network

(* What was on the wire before is older than the packet about to be sent.    *)
LEMMA SendIsNewest ==
  ASSUME NEW l \in Rows, NEW f \in Nat, Sent \in Nat, Sent > 0,
         tx_pc[Sent] = "send", Past(f, l)
  PROVE  f < Sent \/ (f = Sent /\ l < line[Sent])
BY DEF Past, Tx!Ended

LEMMA SendLineStep ==
  ASSUME StreamInv, NEW t \in FrameNumbers, SendLine(t)
  PROVE  StreamInv' /\ UNCHANGED <<shown, picture, ordered>> /\ Sent' = Sent
<1> USE StreamBounds
<1>1. /\ StreamType /\ TransmitterInv /\ WireInv /\ Sent \in Nat
      /\ UNCHANGED <<vars, seen, newest, ordered>>
      /\ UNCHANGED <<socket, buffer, pc, shown, picture>>
  BY SentIsNat DEF StreamInv, SendLine, vars, socketVars, threadLocals, seen
<1>2. ShowInv' /\ (NewerInv => NewerInv')
  BY <1>1 DEF StreamInv, ShowInv, NewerInv, Announced, vars, threadLocals
<1>3. CASE Tx!SendNothing(t) /\ UNCHANGED wire
  <2>1. /\ StreamType' /\ TransmitterInv'
        /\ t = Sent /\ Sent' = Sent /\ Sent > 0 /\ tx_pc[t] = "send"
        /\ tx_pc'[t] = "cut" /\ UNCHANGED line
    BY <1>1, <1>3, NothingStep DEF received
  <2>2. PastStays
    BY <1>1, <2>1 DEF PastStays, Past, Tx!Ended
  <2>3. WireInv' /\ (OrderInv => OrderInv')
    BY <1>1, <1>3, <2>2, WireStutter
  <2>. QED BY <1>1, <1>2, <2>1, <2>3 DEF StreamInv
<1>4. ASSUME Tx!SendLine(t),
             wire' = wire \/ wire' = Append(wire, OnTheWire(t))
      PROVE  StreamInv' /\ Sent' = Sent
  <2>0. /\ TransmitterInv'
        /\ t = Sent /\ Sent' = Sent /\ Sent > 0 /\ tx_pc[t] = "send"
        /\ line[t] \in Rows
        /\ UNCHANGED <<egress, rgb_frame, caller, owner, last, passed>>
        /\ tx_pc' \in [FrameNumbers -> Tx!Locations]
        /\ line' \in [FrameNumbers -> 1 .. (Height + 1)]
        /\ tx_pc'[t] = "test" /\ line'[t] = line[t] + 1
        /\ OnTheWire(t) \in LinePackets
        /\ Frame(OnTheWire(t)) = Sent /\ Line(OnTheWire(t)) = line[t]
    BY <1>1, <1>4, SendStep
  <2> DEFINE p == OnTheWire(t)
  <2>1. /\ TransmitterInv'
        /\ t = Sent /\ Sent' = Sent /\ Sent > 0 /\ tx_pc[t] = "send"
        /\ line[t] \in Rows
        /\ UNCHANGED <<egress, rgb_frame, caller, owner, last, passed>>
        /\ tx_pc' \in [FrameNumbers -> Tx!Locations]
        /\ line' \in [FrameNumbers -> 1 .. (Height + 1)]
        /\ tx_pc'[t] = "test" /\ line'[t] = line[t] + 1
        /\ p \in LinePackets /\ Frame(p) = Sent /\ Line(p) = line[t]
    BY <2>0
  <2> HIDE DEF p
  <2>2. wire' = wire \/ wire' = Append(wire, p)
    BY <1>4 DEF p
  <2>3. StreamType'
    <3>1. wire' \in Seq(LinePackets)
      <4>1. wire \in Seq(LinePackets)
        BY <1>1 DEF StreamType
      <4>. QED BY <2>1, <2>2, <4>1
    <3>. QED BY <1>1, <2>1, <3>1 DEF StreamType
  <2>4. /\ PastStays
        /\ \A f, l : f = Sent /\ l = line[t] => Past(f, l)'
    BY <1>1, <2>1 DEF PastStays, Past, Tx!Ended, Tx!InSendFrame, Rows
  <2>5. CASE wire' = wire
    <3>1. WireInv' /\ (OrderInv => OrderInv')
      BY <1>1, <2>4, <2>5, WireStutter
    <3>. QED BY <1>1, <1>2, <2>1, <2>3, <3>1 DEF StreamInv
  <2>6. CASE wire' = Append(wire, p)
    <3>1. /\ Len(wire) \in Nat /\ Len(wire') = Len(wire) + 1
          /\ \A i \in 1 .. Len(wire) : wire'[i] = wire[i]
          /\ wire'[Len(wire) + 1] = p
          /\ newest \in 0 .. Len(wire)
      <4>1. wire \in Seq(LinePackets)
        BY <1>1 DEF StreamType
      <4>2. newest \in 0 .. Len(wire)
        BY <1>1 DEF WireInv
      <4>. QED BY <2>1, <2>6, <4>1, <4>2
    <3>2. \A i \in 1 .. Len(wire') : i \in 1 .. Len(wire) \/ i = Len(wire) + 1
      BY <3>1
    <3>3. ASSUME NEW q \in LinePackets, Past(Frame(q), Line(q))
          PROVE  Before(q, p)
      <4>1. Frame(q) \in Nat /\ Line(q) \in Rows
        BY PacketShape
      <4>. QED BY <1>1, <2>1, <3>3, <4>1, SendIsNewest DEF Before
    <3>4. \A i \in 1 .. Len(wire) : Before(wire[i], p)
      BY <1>1, <3>3, WireTyped DEF WireInv
    <3>5. \A k \in 1 .. Len(socket) : Before(socket[k], p)
      BY <1>1, <3>3, SocketTyped DEF WireInv
    <3>6. \A r \in Rows : Older(r, p)
      <4> SUFFICES ASSUME NEW r \in Rows PROVE Older(r, p)
        OBVIOUS
      <4>1. buffer[r].frame \in Nat
        BY <1>1 DEF StreamType, RowShown
      <4>2. \/ buffer[r].frame = 0
            \/ buffer[r].frame < Sent
            \/ buffer[r].frame = Sent /\ r < line[t]
        <5>1. buffer[r] = NoPixels \/ Past(buffer[r].frame, r)
          BY <1>1 DEF WireInv
        <5>2. NoPixels.frame = 0
          BY DEF NoPixels
        <5>. QED BY <1>1, <2>1, <4>1, <5>1, <5>2, SendIsNewest
      <4>3. line[t] \in Nat /\ r \in Nat
        BY <2>1 DEF Rows
      <4>. QED BY <1>1, <2>1, <4>1, <4>2, <4>3 DEF Older
    <3>7. WireInv'
      <4>1. \A i \in 1 .. Len(wire') : Past(Frame(wire[i]), Line(wire[i]))'
        <5>1. \A i \in 1 .. Len(wire) : Past(Frame(wire[i]), Line(wire[i]))'
          BY <1>1, <2>4, <3>1, WireTyped DEF WireInv, PastStays, Frame, Line
        <5>2. /\ Frame(wire'[Len(wire) + 1]) = Sent
              /\ Line(wire'[Len(wire) + 1]) = line[t]
          BY <2>1, <3>1
        <5>3. \A i : i = Len(wire) + 1 => Past(Frame(wire[i]), Line(wire[i]))'
          BY <2>4, <5>2 DEF Frame, Line
        <5>. QED BY <3>2, <5>1, <5>3
      <4>2. \A i, j \in 1 .. Len(wire') : i < j => Before(wire'[i], wire'[j])
        BY <1>1, <3>1, <3>2, <3>4 DEF WireInv
      <4>3. \A k \in 1 .. Len(socket') :
              Past(Frame(socket[k]), Line(socket[k]))'
        BY <1>1, <2>4, SocketTyped DEF WireInv, PastStays, Frame, Line
      <4>4. \A r \in Rows : \/ buffer'[r] = NoPixels
                            \/ buffer'[r].row = r /\ Past(buffer[r].frame, r)'
        <5>1. \A r \in Rows : buffer[r].frame \in Nat
          BY <1>1 DEF StreamType, RowShown
        <5>. QED BY <1>1, <2>4, <5>1 DEF WireInv, PastStays
      <4>5. newest' \in 0 .. Len(wire')
        BY <1>1, <3>1
      <4>. QED BY <4>1, <4>2, <4>3, <4>4, <4>5 DEF WireInv, Before, Frame, Line
    <3>8. ASSUME OrderInv PROVE OrderInv'
      <4>1. \A j \in (newest' + 1) .. Len(wire') :
              \/ j \in (newest + 1) .. Len(wire) /\ wire'[j] = wire[j]
              \/ wire'[j] = p
        BY <1>1, <3>1
      <4>2. \A k \in 1 .. Len(socket), j \in (newest' + 1) .. Len(wire') :
              Before(socket[k], wire'[j])
        BY <3>5, <3>8, <4>1 DEF OrderInv
      <4>3. \A r \in Rows, j \in (newest' + 1) .. Len(wire') :
              Older(r, wire'[j])
        BY <3>6, <3>8, <4>1 DEF OrderInv
      <4>. QED BY <1>1, <3>8, <4>2, <4>3
           DEF OrderInv, Before, Older, Frame, Line
    <3>. QED BY <1>1, <1>2, <2>1, <2>3, <3>7, <3>8 DEF StreamInv
  <2>. QED BY <2>2, <2>5, <2>6
<1>. QED BY <1>1, <1>3, <1>4 DEF SendLine
-----------------------------------------------------------------------------
(* A packet that arrives is queued behind the others.                        *)
LEMMA ArriveStep ==
  ASSUME StreamType, NEW p \in LinePackets, Arrive(p)
  PROVE  /\ socket' \in Seq(LinePackets)
         /\ Len(socket) \in Nat /\ Len(socket') = Len(socket) + 1
         /\ \A k \in 1 .. Len(socket) : socket'[k] = socket[k]
         /\ socket'[Len(socket) + 1] = p
         /\ UNCHANGED <<buffer, pc, last_scan_line, new_rx_frame>>
<1>1. socket \in Seq(LinePackets) /\ socket' = Append(socket, p)
  BY DEF StreamType, Arrive
<1>2. UNCHANGED <<buffer, pc, last_scan_line, new_rx_frame>>
  BY DEF Arrive, threadLocals
<1>. QED BY <1>1, <1>2

LEMMA DeliverStep ==
  ASSUME StreamInv, NEW i \in 1 .. Len(wire), Deliver(i)
  PROVE  /\ StreamInv' /\ UNCHANGED <<shown, picture>> /\ Sent' = Sent
         /\ ordered' = ordered \/ ~ordered'
<1> USE StreamBounds
<1> DEFINE p == wire[i]
<1>1. /\ StreamType /\ TransmitterInv /\ WireInv
      /\ Len(wire) \in Nat /\ p \in LinePackets
      /\ newest \in 0 .. Len(wire)
  BY WireTyped DEF StreamInv, WireInv
<1>2. /\ UNCHANGED <<tx, wire, seen>>
      /\ Arrive(p)
      /\ newest' = IF i > newest THEN i ELSE newest
      /\ ordered' = (ordered /\ i > newest)
  BY DEF Deliver
<1>3. /\ socket' \in Seq(LinePackets)
      /\ Len(socket) \in Nat /\ Len(socket') = Len(socket) + 1
      /\ \A k \in 1 .. Len(socket) : socket'[k] = socket[k]
      /\ socket'[Len(socket) + 1] = p
      /\ UNCHANGED <<buffer, pc, last_scan_line, new_rx_frame>>
  BY <1>1, <1>2, ArriveStep
<1>4. \A k \in 1 .. Len(socket') :
        k \in 1 .. Len(socket) \/ k = Len(socket) + 1
  BY <1>3
<1>5. /\ UNCHANGED <<egress, rgb_frame, caller, tx_pc, owner, line, last,
                     passed>>
      /\ UNCHANGED <<shown, picture>>
  BY <1>2 DEF tx, seen
<1>6. StreamType' /\ TransmitterInv' /\ Sent' = Sent
  BY <1>1, <1>2, <1>3, <1>5 DEF StreamType, TransmitterInv, Sent
<1>7. ShowInv' /\ (NewerInv => NewerInv')
  BY <1>3, <1>5 DEF StreamInv, ShowInv, NewerInv, Announced
<1>8. \A f, l : Past(f, l)' = Past(f, l)
  BY <1>5, <1>6 DEF Past
<1>9. WireInv'
  <2>1. newest' \in 0 .. Len(wire')
    BY <1>1, <1>2
  <2>2. \A k \in 1 .. Len(socket') : Past(Frame(socket'[k]), Line(socket'[k]))
    BY <1>1, <1>3, <1>4 DEF WireInv
  <2>3. \A k \in 1 .. Len(socket') : Past(Frame(socket[k]), Line(socket[k]))'
    BY <1>8, <2>2 DEF Frame, Line
  <2>4. \A k \in 1 .. Len(wire') : Past(Frame(wire[k]), Line(wire[k]))'
    BY <1>1, <1>2, <1>8 DEF WireInv, Frame, Line
  <2>5. \A r \in Rows : \/ buffer'[r] = NoPixels
                        \/ buffer'[r].row = r /\ Past(buffer[r].frame, r)'
    BY <1>1, <1>3, <1>8 DEF WireInv
  <2>6. \A k, m \in 1 .. Len(wire') : k < m => Before(wire'[k], wire'[m])
    BY <1>1, <1>2 DEF WireInv
  <2>. QED BY <2>1, <2>3, <2>4, <2>5, <2>6 DEF WireInv, Before, Frame, Line
<1>10. ASSUME ordered' PROVE OrderInv'
  <2>1. OrderInv /\ i > newest /\ newest' = i
    BY <1>2, <1>10 DEF StreamInv
  <2>2. i \in (newest + 1) .. Len(wire)
    BY <1>1, <2>1
  <2>3. \A j \in (newest' + 1) .. Len(wire') :
          /\ j \in (newest + 1) .. Len(wire) /\ j \in 1 .. Len(wire)
          /\ i < j /\ wire'[j] = wire[j]
    BY <1>1, <1>2, <2>1, <2>2
  <2>4. \A k, m \in 1 .. Len(socket') : k < m => Before(socket'[k], socket'[m])
    <3> SUFFICES ASSUME NEW k \in 1 .. Len(socket'),
                        NEW m \in 1 .. Len(socket'), k < m
                 PROVE  Before(socket'[k], socket'[m])
      OBVIOUS
    <3>1. k \in 1 .. Len(socket) /\ socket'[k] = socket[k]
      BY <1>3
    <3>2. CASE m \in 1 .. Len(socket)
      BY <1>3, <2>1, <3>1, <3>2 DEF OrderInv
    <3>3. CASE m = Len(socket) + 1
      BY <1>3, <2>1, <2>2, <3>1, <3>3 DEF OrderInv
    <3>. QED BY <1>4, <3>2, <3>3
  <2>5. \A k \in 1 .. Len(socket'), j \in (newest' + 1) .. Len(wire') :
          Before(socket'[k], wire'[j])
    <3> SUFFICES ASSUME NEW k \in 1 .. Len(socket'),
                        NEW j \in (newest' + 1) .. Len(wire')
                 PROVE  Before(socket'[k], wire'[j])
      OBVIOUS
    <3>1. CASE k \in 1 .. Len(socket)
      BY <1>3, <2>1, <2>3, <3>1 DEF OrderInv
    <3>2. CASE k = Len(socket) + 1
      BY <1>1, <1>3, <2>3, <3>2 DEF WireInv
    <3>. QED BY <1>4, <3>1, <3>2
  <2>6. \A r \in Rows : /\ \A k \in 1 .. Len(socket') : Older(r, socket'[k])
                        /\ \A j \in (newest' + 1) .. Len(wire') :
                             Older(r, wire'[j])
    <3> SUFFICES ASSUME NEW r \in Rows
                 PROVE  /\ \A k \in 1 .. Len(socket') : Older(r, socket'[k])
                        /\ \A j \in (newest' + 1) .. Len(wire') :
                             Older(r, wire'[j])
      OBVIOUS
    <3>1. Older(r, p)
      BY <2>1, <2>2 DEF OrderInv
    <3>2. \A k \in 1 .. Len(socket) : Older(r, socket[k])
      BY <2>1 DEF OrderInv
    <3>3. \A j \in (newest' + 1) .. Len(wire') : Older(r, wire'[j])
      BY <2>1, <2>3 DEF OrderInv
    <3> HIDE DEF p
    <3>. QED BY <1>3, <1>4, <3>1, <3>2, <3>3
  <2>. QED BY <1>3, <2>4, <2>5, <2>6 DEF OrderInv, Before, Older, Frame, Line
<1>11. ordered' => NewerInv'
  BY <1>2, <1>7 DEF StreamInv
<1>12. ordered' = ordered \/ ~ordered'
  BY <1>2
<1>. QED BY <1>5, <1>6, <1>7, <1>9, <1>10, <1>11, <1>12 DEF StreamInv

(* What Open and Close do to the socket: nothing, or they empty it.          *)
LEMMA CallStep ==
  ASSUME \/ SetStreamInfo \/ Open \/ Close
         \/ pc = "none" /\ Start
         \/ Stop \/ RegisterCallback(TRUE) \/ StopReturns
  PROVE  /\ UNCHANGED <<new_rx_frame, buffer, last_scan_line>>
         /\ socket' = socket \/ socket' = <<>>
         /\ pc' = pc \/ pc' \in {"starting", "none"}
         /\ pc' # pc => socket' = socket
BY DEF SetStreamInfo, Open, OpenSocket, Close, Start, Stop,
       RegisterCallback, StopReturns, socketVars, threadLocals

(* The steps of the receive thread that touch neither socket nor buffer, in  *)
(* the order of its loop.                                                    *)
LEMMA LoopStep ==
  ASSUME ThreadStarts \/ LoopTop \/ CheckRunning \/ RecvFails
         \/ Publish \/ TestCallback \/ CallbackEnds
  PROVE  /\ UNCHANGED <<buffer, socket>>
         /\ \/ /\ UNCHANGED new_rx_frame
               /\ \/ pc = "top" /\ pc' = "check" /\ ~last_scan_line'
                  \/ /\ pc \in {"check", "recvfrom"}
                     /\ pc' \in {"check", "recvfrom", "publish"}
                     /\ UNCHANGED last_scan_line
                  \/ pc' \in {"top", "ended"} /\ UNCHANGED last_scan_line
                  \/ /\ pc = "test" /\ new_rx_frame /\ pc' = "callback"
                     /\ UNCHANGED last_scan_line
            \/ /\ pc = "publish" /\ pc' = "test"
               /\ new_rx_frame' = last_scan_line /\ UNCHANGED last_scan_line
BY DEF ThreadStarts, LoopTop, CheckRunning, Receiving,
       RecvFails, Publish, Published, TestCallback,
       CallbackDue, CallbackEnds, socketVars, threadLocals

(* Receiving the first packet of the socket stores its line.                 *)
LEMMA PacketStep ==
  ASSUME StreamType, RecvPacket, NEW p, p = socket[1]
  PROVE  /\ pc = "recvfrom" /\ pc' = "publish"
         /\ UNCHANGED new_rx_frame
         /\ last_scan_line' = (Line(p) = Height)
         /\ p \in LinePackets
         /\ buffer'[Line(p)] = [frame |-> Frame(p), row |-> Line(p)]
         /\ \A r \in Rows : r # Line(p) => buffer'[r] = buffer[r]
         /\ buffer' \in [Rows -> RowShown]
         /\ socket' \in Seq(LinePackets)
         /\ Len(socket) \in Nat \ {0} /\ Len(socket') = Len(socket) - 1
         /\ \A i \in 1 .. Len(socket') : socket'[i] = socket[i + 1]
<1>1. /\ socket \in Seq(LinePackets) /\ socket # <<>>
      /\ socket' = Tail(socket)
  BY DEF RecvPacket, StreamType
<1>2. /\ Len(socket) \in Nat \ {0} /\ Head(socket) = p /\ p \in LinePackets
  BY <1>1
<1>3. /\ socket' \in Seq(LinePackets)
      /\ Len(socket') = Len(socket) - 1
      /\ \A i \in 1 .. Len(socket') : socket'[i] = socket[i + 1]
  BY <1>1
<1>4. /\ pc = "recvfrom" /\ pc' = "publish"
      /\ UNCHANGED new_rx_frame
      /\ last_scan_line' = p.marker
      /\ buffer' \in Stored(p)
  BY <1>2 DEF RecvPacket
<1>5. p.marker = (Line(p) = Height)
  BY <1>2, PacketShape
<1>6. /\ buffer'[Line(p)] = [frame |-> Frame(p), row |-> Line(p)]
      /\ \A r \in Rows : r # Line(p) => buffer'[r] = buffer[r]
      /\ DOMAIN buffer' = Rows
  BY <1>2, <1>4, StoredRow
<1>7. buffer' \in [Rows -> RowShown]
  <2>1. Line(p) \in Rows /\ Frame(p) \in Nat /\ Line(p) \in Nat
    <3>1. Line(p) \in Rows /\ Frame(p) \in Nat
      BY <1>2, PacketShape
    <3>. QED BY <3>1, StreamBounds DEF Rows
  <2>2. [frame |-> Frame(p), row |-> Line(p)] \in RowShown
    BY <2>1 DEF RowShown
  <2>3. \A r \in Rows : buffer'[r] \in RowShown
    BY <1>6, <2>2 DEF StreamType
  <2>4. buffer' = [r \in DOMAIN buffer' |-> buffer'[r]]
    BY <1>4 DEF Stored
  <2>. QED BY <1>6, <2>3, <2>4
<1>. QED BY <1>2, <1>3, <1>4, <1>5, <1>6, <1>7

(* The receiver showed the buffer: it ends with a line of a frame that was   *)
(* sent and every row is blank or was sent; in order, it is newer than what  *)
(* it showed before.                                                         *)
ShowsSent ==
  /\ shown' = picture'[Height].frame
  /\ picture'[Height] # NoPixels
  /\ \A r \in Rows : \/ picture'[r] = NoPixels
                     \/ picture'[r].row = r /\ Past(picture'[r].frame, r)
  /\ ordered => /\ shown' > shown
                /\ \A r \in Rows : /\ picture[r].frame <= picture'[r].frame
                                   /\ picture'[r].frame <= shown'

LEMMA ReceiverStep ==
  ASSUME StreamInv, Receiver
  PROVE  /\ StreamInv' /\ Sent' = Sent /\ ordered' = ordered
         /\ UNCHANGED seen \/ ShowsSent
<1> USE StreamBounds
<1>1. /\ UNCHANGED <<tx, wire, newest, ordered>>
      /\ \/ /\ pc' = "callback" /\ pc # "callback"
            /\ shown' = buffer[Height].frame
            /\ picture' = buffer
         \/ /\ pc' # "callback" \/ pc = "callback"
            /\ UNCHANGED seen
  BY DEF Receiver
<1>2. /\ StreamType /\ TransmitterInv /\ WireInv /\ ShowInv
      /\ ordered => OrderInv /\ NewerInv
      /\ Height \in Rows
  BY DEF StreamInv, Rows
<1>3. /\ UNCHANGED <<egress, rgb_frame, caller, tx_pc, owner, line, last,
                     passed>>
      /\ Sent' = Sent
  BY <1>1 DEF tx, Sent
<1>4. /\ \A f, l : Past(f, l)' = Past(f, l)
      /\ PastStays /\ TransmitterInv'
  BY <1>2, <1>3 DEF Past, PastStays, TransmitterInv
<1>5. CASE \/ SetStreamInfo \/ Open \/ Close
           \/ pc = "none" /\ Start
           \/ Stop \/ RegisterCallback(TRUE) \/ StopReturns
  <2>1. /\ UNCHANGED <<new_rx_frame, buffer, last_scan_line>>
        /\ socket' = socket \/ socket' = <<>>
        /\ pc' = pc \/ pc' \in {"starting", "none"}
    BY <1>5, CallStep
  <2>2. UNCHANGED seen
    BY <1>1, <2>1
  <2>3. WireInv' /\ (OrderInv => OrderInv')
    BY <1>1, <1>2, <1>4, <2>1, WireStutter
  <2>4. StreamType'
    <3>1. <<>> \in Seq(LinePackets)
      OBVIOUS
    <3>2. socket' \in Seq(LinePackets)
      BY <1>2, <2>1, <3>1 DEF StreamType
    <3>3. pc' \in ThreadStates
      BY <1>2, <2>1 DEF StreamType, ThreadStates
    <3>. QED BY <1>1, <1>2, <1>3, <2>1, <2>2, <3>2, <3>3 DEF StreamType, seen
  <2>5. ShowInv' /\ (NewerInv => NewerInv')
    BY <1>2, <2>1, <2>2 DEF ShowInv, NewerInv, Announced, seen
  <2>. QED BY <1>1, <1>2, <1>3, <1>4, <2>2, <2>3, <2>4, <2>5 DEF StreamInv
<1>6. CASE \/ ThreadStarts \/ LoopTop \/ CheckRunning \/ RecvFails
           \/ Publish \/ TestCallback \/ CallbackEnds
  <2>1. /\ UNCHANGED <<buffer, socket>>
        /\ \/ /\ UNCHANGED new_rx_frame
              /\ \/ pc = "top" /\ pc' = "check" /\ ~last_scan_line'
                 \/ /\ pc \in {"check", "recvfrom"}
                    /\ pc' \in {"check", "recvfrom", "publish"}
                    /\ UNCHANGED last_scan_line
                 \/ pc' \in {"top", "ended"} /\ UNCHANGED last_scan_line
                 \/ /\ pc = "test" /\ new_rx_frame /\ pc' = "callback"
                    /\ UNCHANGED last_scan_line
           \/ /\ pc = "publish" /\ pc' = "test"
              /\ new_rx_frame' = last_scan_line /\ UNCHANGED last_scan_line
    BY <1>6, LoopStep
  <2>2. Announced' => Announced
    BY <1>2, <2>1 DEF ShowInv, Announced
  <2>3. \/ UNCHANGED seen
        \/ Announced /\ shown' = buffer[Height].frame /\ picture' = buffer
           /\ ~Announced'
    BY <1>1, <2>1 DEF Announced
  <2>4. WireInv' /\ (OrderInv => OrderInv')
    BY <1>1, <1>2, <1>4, <2>1, WireStutter
  <2>5. StreamType'
    <3>1. pc' \in ThreadStates
      BY <2>1 DEF ThreadStates
    <3>2. shown' \in Nat /\ picture' \in [Rows -> RowShown]
      BY <1>2, <2>3 DEF StreamType, RowShown, seen
    <3>. QED BY <1>1, <1>2, <1>3, <2>1, <3>1, <3>2 DEF StreamType
  <2>6. ShowInv'
    <3>1. pc' \in {"check", "recvfrom"} => ~last_scan_line'
      BY <1>2, <2>1 DEF ShowInv
    <3>. QED BY <1>2, <2>1, <2>2, <3>1 DEF ShowInv
  <2>7. ASSUME NewerInv PROVE NewerInv'
    <3>1. CASE UNCHANGED seen
      BY <2>1, <2>2, <2>7, <3>1 DEF NewerInv, seen
    <3>2. CASE Announced /\ shown' = buffer[Height].frame /\ picture' = buffer
               /\ ~Announced'
      <4>1. \A r \in Rows : buffer[r].frame \in Nat
        BY <1>2 DEF StreamType, RowShown
      <4>. QED BY <1>2, <2>1, <3>2, <4>1 DEF NewerInv
    <3>. QED BY <2>3, <3>1, <3>2
  <2>8. UNCHANGED seen \/ ShowsSent
    <3>1. CASE Announced /\ shown' = buffer[Height].frame /\ picture' = buffer
      <4>1. buffer[Height] # NoPixels
        BY <1>2, <3>1 DEF ShowInv
      <4>2. \A r \in Rows : \/ buffer[r] = NoPixels
                            \/ buffer[r].row = r /\ Past(buffer[r].frame, r)
        BY <1>2 DEF WireInv
      <4>3. ordered => NewerInv
        BY <1>2
      <4>4. shown \in Nat /\ \A r \in Rows : buffer[r].frame \in Nat
        BY <1>2 DEF StreamType, RowShown
      <4>. QED BY <1>2, <3>1, <4>1, <4>2, <4>3, <4>4 DEF ShowsSent, NewerInv
    <3>. QED BY <2>3, <3>1
  <2>. QED BY <1>1, <1>2, <1>3, <1>4, <2>4, <2>5, <2>6, <2>7, <2>8
           DEF StreamInv
<1>7. CASE RecvPacket
  <2> DEFINE p == socket[1]
  <2>1. /\ pc = "recvfrom" /\ pc' = "publish"
        /\ UNCHANGED new_rx_frame
        /\ last_scan_line' = (Line(p) = Height)
        /\ p \in LinePackets
        /\ buffer'[Line(p)] = [frame |-> Frame(p), row |-> Line(p)]
        /\ \A r \in Rows : r # Line(p) => buffer'[r] = buffer[r]
        /\ buffer' \in [Rows -> RowShown]
        /\ socket' \in Seq(LinePackets)
        /\ Len(socket) \in Nat \ {0} /\ Len(socket') = Len(socket) - 1
        /\ \A i \in 1 .. Len(socket') : socket'[i] = socket[i + 1]
    BY <1>2, <1>7, PacketStep
  <2>2. 1 \in 1 .. Len(socket) /\ p = socket[1]
    BY <2>1
  <2> HIDE DEF p
  <2>3. /\ Line(p) \in Rows /\ Frame(p) \in Nat /\ Frame(p) > 0
        /\ Line(p) \in Nat
    <3>1. /\ Line(p) \in Rows /\ Frame(p) \in Nat /\ Frame(p) > 0
      BY <2>1, PacketShape
    <3>. QED BY <3>1 DEF Rows
  <2>4. \A r \in Rows : /\ buffer[r].frame \in Nat /\ buffer'[r].frame \in Nat
                        /\ buffer'[r].frame = IF r = Line(p) THEN Frame(p)
                                              ELSE buffer[r].frame
    BY <1>2, <2>1 DEF StreamType, RowShown
  <2>5. UNCHANGED seen
    BY <1>1, <2>1
  <2>6. StreamType'
    BY <1>1, <1>2, <1>3, <2>1, <2>5 DEF StreamType, ThreadStates, seen
  <2>7. Past(Frame(p), Line(p))
    BY <1>2, <2>2 DEF WireInv
  <2>8. ShowInv'
    <3>1. Announced' => Line(p) = Height
      BY <2>1 DEF Announced
    <3>2. Announced' => buffer'[Height] # NoPixels
      BY <2>1, <2>3, <3>1 DEF NoPixels
    <3>. QED BY <2>1, <3>2 DEF ShowInv
  <2>9. \A i \in 1 .. Len(socket') :
          /\ i + 1 \in 1 .. Len(socket) /\ 1 < i + 1
          /\ socket'[i] = socket[i + 1]
    <3>1. Len(socket) \in Nat \ {0} /\ Len(socket') = Len(socket) - 1
      BY <2>1
    <3>2. \A i \in 1 .. Len(socket') : i + 1 \in 1 .. Len(socket) /\ 1 < i + 1
      BY <3>1
    <3>. QED BY <2>1, <3>2
  <2>10. WireInv'
    <3>1. \A k \in 1 .. Len(socket') :
            Past(Frame(socket'[k]), Line(socket'[k]))
      BY <1>2, <2>9 DEF WireInv
    <3>2. \A r \in Rows : \/ buffer'[r] = NoPixels
                          \/ /\ buffer'[r].row = r
                             /\ Past(buffer'[r].frame, r)
      <4> SUFFICES ASSUME NEW r \in Rows
                   PROVE  \/ buffer'[r] = NoPixels
                          \/ buffer'[r].row = r /\ Past(buffer'[r].frame, r)
        OBVIOUS
      <4>1. CASE r = Line(p)
        BY <2>1, <2>7, <4>1
      <4>2. CASE r # Line(p)
        <5>1. buffer'[r] = buffer[r]
          BY <2>1, <4>2
        <5>. QED BY <1>2, <5>1 DEF WireInv
      <4>. QED BY <4>1, <4>2
    <3>3. \A k \in 1 .. Len(socket') : Past(Frame(socket[k]), Line(socket[k]))'
      BY <1>4, <3>1 DEF Frame, Line
    <3>4. \A r \in Rows : \/ buffer'[r] = NoPixels
                          \/ buffer'[r].row = r /\ Past(buffer[r].frame, r)'
      BY <1>4, <3>2
    <3>5. \A k \in 1 .. Len(wire') : Past(Frame(wire[k]), Line(wire[k]))'
      BY <1>1, <1>2, <1>4 DEF WireInv, Frame, Line
    <3>6. \A k, m \in 1 .. Len(wire') : k < m => Before(wire'[k], wire'[m])
      BY <1>1, <1>2 DEF WireInv
    <3>7. newest' \in 0 .. Len(wire')
      BY <1>1, <1>2 DEF WireInv
    <3>. QED BY <3>3, <3>4, <3>5, <3>6, <3>7 DEF WireInv, Before, Frame, Line
  <2>11. ASSUME NewerInv, OrderInv PROVE NewerInv'
    <3>1. \A r \in Rows : buffer[r].frame <= Frame(p)
      BY <2>2, <2>11 DEF OrderInv, Older
    <3>2. \A r \in Rows : buffer[r].frame <= buffer'[r].frame
      BY <2>3, <2>4, <3>1
    <3>3. buffer[Line(p)].frame < Frame(p)
      <4>1. Older(Line(p), p) /\ Line(p) >= Line(p)
        BY <2>2, <2>3, <2>11 DEF OrderInv
      <4>. QED BY <4>1 DEF Older
    <3>4. \A r \in Rows : picture[r].frame \in Nat
      BY <1>2 DEF StreamType, RowShown
    <3>5. shown' \in Nat /\ shown' <= buffer'[Height].frame
      BY <1>2, <2>4, <2>5, <2>11, <3>2 DEF NewerInv, StreamType, seen
    <3>6. \A r \in Rows : picture'[r].frame <= buffer'[r].frame
      BY <2>4, <2>5, <2>11, <3>2, <3>4 DEF NewerInv, seen
    <3>7. ASSUME Announced'
          PROVE  /\ shown' < buffer'[Height].frame
                 /\ \A r \in Rows : buffer'[r].frame <= buffer'[Height].frame
      <4>1. Line(p) = Height
        BY <2>1, <3>7 DEF Announced
      <4>2. shown <= buffer[Height].frame /\ shown \in Nat
        BY <1>2, <2>11 DEF NewerInv, StreamType
      <4>. QED BY <1>2, <2>3, <2>4, <2>5, <3>1, <3>3, <4>1, <4>2 DEF seen
    <3>. QED BY <3>5, <3>6, <3>7 DEF NewerInv
  <2>12. ASSUME OrderInv PROVE OrderInv'
    <3>1. ASSUME NEW q \in LinePackets, Before(p, q),
                 NEW r \in Rows, Older(r, q)
          PROVE  /\ buffer'[r].frame <= Frame(q)
                 /\ r >= Line(q) => buffer'[r].frame < Frame(q)
      <4>1. Frame(q) \in Nat /\ Line(q) \in Nat
        <5>1. Frame(q) \in Nat /\ Line(q) \in Rows
          BY PacketShape
        <5>. QED BY <5>1 DEF Rows
      <4>. QED BY <2>3, <2>4, <3>1, <4>1 DEF Before, Older
    <3>2. \A k \in 1 .. Len(socket') : /\ socket'[k] \in LinePackets
                                       /\ Before(p, socket'[k])
      BY <1>2, <2>2, <2>9, <2>12, SocketTyped DEF OrderInv
    <3>3. \A j \in (newest + 1) .. Len(wire) : /\ wire[j] \in LinePackets
                                               /\ Before(p, wire[j])
      <4>1. newest \in 0 .. Len(wire) /\ Len(wire) \in Nat
        BY <1>2, WireTyped DEF WireInv
      <4>. QED BY <1>2, <2>2, <2>12, <4>1, WireTyped DEF OrderInv
    <3>4. \A r \in Rows, k \in 1 .. Len(socket') : Older(r, socket'[k])
      BY <2>9, <2>12 DEF OrderInv
    <3>5. \A r \in Rows, k \in 1 .. Len(socket') : Older(r, socket[k])'
      <4>1. \A r \in Rows, k \in 1 .. Len(socket') :
              /\ buffer'[r].frame <= Frame(socket'[k])
              /\ r >= Line(socket'[k]) => buffer'[r].frame < Frame(socket'[k])
        BY <3>1, <3>2, <3>4
      <4>. QED BY <4>1 DEF Older, Frame, Line
    <3>6. \A r \in Rows, j \in (newest' + 1) .. Len(wire') : Older(r, wire[j])'
      <4>1. \A r \in Rows, j \in (newest + 1) .. Len(wire) :
              /\ buffer'[r].frame <= Frame(wire[j])
              /\ r >= Line(wire[j]) => buffer'[r].frame < Frame(wire[j])
        BY <2>12, <3>1, <3>3 DEF OrderInv
      <4>. QED BY <1>1, <4>1 DEF Older, Frame, Line
    <3>7. \A k, m \in 1 .. Len(socket') : k < m => Before(socket'[k], socket'[m])
      <4> SUFFICES ASSUME NEW k \in 1 .. Len(socket'),
                          NEW m \in 1 .. Len(socket'), k < m
                   PROVE  Before(socket'[k], socket'[m])
        OBVIOUS
      <4>1. k + 1 < m + 1
        OBVIOUS
      <4>. QED BY <2>9, <2>12, <4>1 DEF OrderInv
    <3>8. \A k \in 1 .. Len(socket'), j \in (newest' + 1) .. Len(wire') :
            Before(socket'[k], wire'[j])
      BY <1>1, <2>9, <2>12 DEF OrderInv
    <3>. QED BY <3>5, <3>6, <3>7, <3>8 DEF OrderInv, Before, Frame, Line
  <2>. QED BY <1>1, <1>2, <1>3, <1>4, <2>5, <2>6, <2>8, <2>10, <2>11, <2>12
           DEF StreamInv
<1>. QED BY <1>5, <1>6, <1>7 DEF Receiver
-----------------------------------------------------------------------------
(* One step of the stream keeps the invariant and is a step of the channel   *)
(* or leaves its variables alone.                                            *)
LEMMA StreamStep ==
  ASSUME StreamInv, [StreamNext]_everything
  PROVE  /\ StreamInv'
         /\ [Channel!ChannelNext]_<<Sent, ordered, shown, picture>>
<1>1. CASE Transmitter
  <2>1. StreamInv' /\ UNCHANGED <<shown, picture, ordered>>
        /\ (Sent' = Sent \/ Sent' = Sent + 1)
    BY <1>1, TransmitterStep
  <2>. QED BY <2>1 DEF Channel!ChannelNext, Channel!Send, Sent
<1>2. ASSUME NEW t \in FrameNumbers, SendLine(t)
      PROVE  StreamInv' /\ UNCHANGED <<Sent, ordered, shown, picture>>
  BY <1>2, SendLineStep
<1>3. ASSUME NEW i \in 1 .. Len(wire), Deliver(i)
      PROVE  /\ StreamInv'
             /\ [Channel!ChannelNext]_<<Sent, ordered, shown, picture>>
  <2>1. /\ StreamInv' /\ UNCHANGED <<shown, picture>> /\ Sent' = Sent
        /\ ordered' = ordered \/ ordered' = FALSE
    BY <1>3, DeliverStep DEF Deliver
  <2>. QED BY <2>1 DEF Channel!ChannelNext, Channel!Disorder, Sent
<1>4. CASE Receiver
  <2>1. /\ StreamInv' /\ Sent' = Sent /\ ordered' = ordered
        /\ UNCHANGED seen \/ ShowsSent
    BY <1>4, ReceiverStep
  <2>2. CASE UNCHANGED seen
    BY <2>1, <2>2 DEF seen
  <2>3. CASE ShowsSent
    <3>1. /\ shown \in Nat /\ shown' \in Nat /\ Sent \in Nat
          /\ \A r \in Rows : /\ picture[r].frame \in Nat
                             /\ picture'[r].frame \in Nat
          /\ DOMAIN picture' = Rows /\ Height \in Rows
      <4>1. StreamType /\ StreamType'
        BY <2>1 DEF StreamInv
      <4>2. \A r \in Rows : /\ picture[r].frame \in Nat
                            /\ picture'[r].frame \in Nat
        BY <4>1 DEF StreamType, RowShown
      <4>3. shown \in Nat /\ shown' \in Nat /\ DOMAIN picture' = Rows
        BY <4>1 DEF StreamType
      <4>4. Sent \in Nat /\ Height \in Rows
        BY <4>1, SentIsNat, StreamBounds DEF Rows
      <4>. QED BY <4>2, <4>3, <4>4
    <3>2. \A f \in Nat, r \in Rows : Past(f, r) => f \in 1 .. Sent
      BY <3>1 DEF Past
    <3>3. \A r \in Rows : \/ picture'[r] = NoPixels
                          \/ /\ picture'[r].frame \in 1 .. Sent
                             /\ picture'[r].row = r
      BY <2>3, <3>1, <3>2 DEF ShowsSent
    <3>4. shown' \in 1 .. Sent /\ picture'[Height].frame = shown'
      BY <2>3, <3>1, <3>3 DEF ShowsSent
    <3>5. ordered => /\ shown' > shown
                     /\ \A r \in Rows :
                          picture'[r].frame \in picture[r].frame .. shown'
      BY <2>3, <3>1 DEF ShowsSent
    <3>6. Channel!Show
      BY <2>1, <3>1, <3>3, <3>4, <3>5
      DEF Channel!Show, Channel!Nothing, NoPixels, Rows, Sent
    <3>. QED BY <2>1, <3>6 DEF Channel!ChannelNext
  <2>. QED BY <2>1, <2>2, <2>3
<1>5. CASE UNCHANGED everything
  <2>1. /\ UNCHANGED <<egress, rgb_frame, caller, tx_pc, owner, line, last,
                       passed>>
        /\ UNCHANGED <<socket, buffer, pc, last_scan_line, new_rx_frame>>
        /\ UNCHANGED <<shown, picture, wire, newest, ordered>>
    BY <1>5 DEF everything, tx, vars, socketVars, threadLocals, seen, network
  <2>2. Sent' = Sent
    BY <2>1 DEF Sent
  <2>3. StreamType' /\ TransmitterInv'
    BY <2>1, <2>2 DEF StreamInv, StreamType, TransmitterInv
  <2>4. \A f, l : Past(f, l)' = Past(f, l)
    BY <2>1, <2>2 DEF Past
  <2>5. PastStays /\ StreamType /\ WireInv
    BY <2>4 DEF PastStays, StreamInv
  <2>6. WireInv' /\ (OrderInv => OrderInv')
    BY <2>1, <2>5, WireStutter
  <2>7. ShowInv' /\ (NewerInv => NewerInv')
    BY <2>1 DEF StreamInv, ShowInv, NewerInv, Announced
  <2>. QED BY <2>1, <2>2, <2>3, <2>6, <2>7 DEF StreamInv
<1>. QED BY <1>1, <1>2, <1>3, <1>4, <1>5 DEF StreamNext

LEMMA StreamStarts ==
  ASSUME StreamInit
  PROVE  StreamInv /\ Channel!ChannelInit
<1> USE StreamBounds
<1>1. /\ egress = [s \in {Stream} |-> [encoding |-> "mapped", height |-> 0,
                                       port |-> FALSE]]
      /\ rgb_frame = [s \in {Stream} |-> 0]
      /\ caller = [s \in {Stream} |-> 0]
      /\ tx_pc = [t \in FrameNumbers |-> "none"]
      /\ owner = [t \in FrameNumbers |-> Tx!AnyStream]
      /\ line = [t \in FrameNumbers |-> 1]
      /\ last = [t \in FrameNumbers |-> FALSE]
      /\ passed = [s \in {Stream} |-> <<>>]
      /\ wire = <<>> /\ newest = 0 /\ ordered = TRUE
      /\ socket = <<>>
      /\ buffer = [r \in Rows |-> NoPixels]
      /\ pc = "none" /\ ~new_rx_frame /\ ~last_scan_line
      /\ shown = 0 /\ picture = [r \in Rows |-> NoPixels]
  BY StreamAssumption DEF StreamAssumption, StreamInit, Tx!Init, Init
<1>2. Sent = 0 /\ Len(socket) = 0 /\ Len(wire) = 0
  BY <1>1 DEF Sent
<1>3. StreamType
  <2>1. owner \in [FrameNumbers -> {Stream}]
    BY <1>1 DEF Tx!AnyStream
  <2>2. line \in [FrameNumbers -> 1 .. (Height + 1)]
    BY <1>1
  <2>3. socket \in Seq(LinePackets) /\ wire \in Seq(LinePackets)
    BY <1>1
  <2>4. passed \in [{Stream} -> Seq(Tx!Argument)]
    BY <1>1
  <2>5. egress \in [{Stream} -> Tx!Egress]
    BY <1>1 DEF Tx!Egress, Tx!Encoding
  <2>6. tx_pc \in [FrameNumbers -> Tx!Locations]
    BY <1>1 DEF Tx!Locations
  <2>7. NoPixels \in RowShown
    BY DEF NoPixels, RowShown
  <2>8. pc \in ThreadStates
    BY <1>1 DEF ThreadStates
  <2>. QED BY <1>1, <2>1, <2>2, <2>3, <2>4, <2>5, <2>6, <2>7, <2>8
           DEF StreamType
<1>4. TransmitterInv
  BY <1>1, <1>2 DEF TransmitterInv, FrameNumbers
<1>5. WireInv /\ OrderInv
  BY <1>1, <1>2 DEF WireInv, OrderInv
<1>6. ShowInv /\ NewerInv
  BY <1>1 DEF ShowInv, NewerInv, Announced, NoPixels, Rows
<1>7. Channel!ChannelInit
  BY <1>1, <1>2
  DEF Channel!ChannelInit, Channel!Nothing, NoPixels, Sent, Rows
<1>. QED BY <1>3, <1>4, <1>5, <1>6, <1>7 DEF StreamInv

(* Whatever the network loses, repeats or reorders, everything queued, in    *)
(* the buffer or in the last picture is the row of its own number of a frame *)
(* that the sender is past; and until it reorders, lines follow each other   *)
(* from the sender to the picture (SendFrame's loop, ReceiveLines and the    *)
(* callback).                                                                *)
THEOREM StreamInvariant == StreamSpec => []StreamInv
<1>1. StreamInit => StreamInv
  BY StreamStarts
<1>2. StreamInv /\ [StreamNext]_everything => StreamInv'
  BY StreamStep
<1>. QED BY <1>1, <1>2, PTL DEF StreamSpec

(* What the receiver of the stream does is what RtpUncompressedDepayloader   *)
(* allows, of packets that were sent: its theorems hold of it.               *)
THEOREM StreamReceives == StreamSpec => Spec
<1>1. StreamInit => Init /\ ~aborted
  BY DEF StreamInit, Init
<1>2. ASSUME StreamInv, ~aborted, [StreamNext]_everything
      PROVE  [Next]_vars /\ ~aborted'
  <2>1. ASSUME NEW i \in 1 .. Len(wire), Deliver(i)
        PROVE  [Next]_vars /\ ~aborted'
    <3>1. Arrive(wire[i])
      BY <2>1 DEF Deliver
    <3>2. wire[i] \in Packets
      BY <1>2, WireTyped, StreamAssumption DEF StreamInv, StreamAssumption
    <3>. QED BY <1>2, <3>1, <3>2 DEF Next, Arrive
  <2>2. CASE Receiver
    <3>1. Call \/ ClientThread \/ ReceiveThread
      BY <2>2 DEF Receiver, Call, ClientThread, ReceiveThread
    <3>. QED BY <1>2, <2>2, <3>1 DEF Receiver, Next
  <2>3. CASE UNCHANGED vars
    BY <1>2, <2>3 DEF vars
  <2>. QED
    BY <1>2, <2>1, <2>2, <2>3
    DEF StreamNext, Transmitter, SendLine, everything
<1>. QED BY <1>1, <1>2, StreamInvariant, PTL DEF StreamSpec, Spec

(* The stream implements the channel: every row shown is the row of its own  *)
(* number of a frame that was transmitted, whatever the network does; and    *)
(* until it reorders, every frame shown is later than the one shown before   *)
(* and no row goes back in time, for any loss and restarts of the receiver.  *)
THEOREM StreamRefinesChannel == StreamSpec => ImplementsChannel
<1>1. StreamInit => Channel!ChannelInit
  BY StreamStarts
<1>2. StreamInv /\ [StreamNext]_everything =>
        [Channel!ChannelNext]_<<Len(passed[Stream]), ordered, shown, picture>>
  BY StreamStep DEF Sent
<1>. QED BY <1>1, <1>2, StreamInvariant, PTL
         DEF StreamSpec, ImplementsChannel, Channel!ChannelSpec
-----------------------------------------------------------------------------
(* The i-th packet on the wire, the next one to be sent being the last.      *)
NextFrame ==
  IF \/ Sent = 0
     \/ tx_pc[Sent] \in Tx!Ended
     \/ tx_pc[Sent] \in Tx!InSendFrame /\ line[Sent] = Height + 1
  THEN Sent + 1 ELSE Sent
NextLine ==
  IF Sent > 0 /\ tx_pc[Sent] \in Tx!InSendFrame /\ line[Sent] <= Height
  THEN line[Sent] ELSE 1

FrameAt(i) == IF i <= Len(wire) THEN Frame(wire[i]) ELSE NextFrame
LineAt(i) == IF i <= Len(wire) THEN Line(wire[i]) ELSE NextLine

(* The packets of the wire that went into the buffer, while none is lost.    *)
Taken == newest - Len(socket)

(* While nothing is lost or out of turn: the packets follow each other       *)
(* without a gap, the socket holds those behind the ones that were taken,    *)
(* and the buffer has every line of these.                                   *)
Gapless ==
  /\ Taken \in 0 .. Len(wire)
  /\ \A k \in 1 .. Len(socket) : socket[k] = wire[Taken + k]
  /\ \A i \in 1 .. Len(wire) :
       IF LineAt(i) = Height
       THEN FrameAt(i + 1) = FrameAt(i) + 1 /\ LineAt(i + 1) = 1
       ELSE FrameAt(i + 1) = FrameAt(i) /\ LineAt(i + 1) = LineAt(i) + 1
  /\ \A r \in Rows :
       buffer[r].frame = IF r < LineAt(Taken + 1) THEN FrameAt(Taken + 1)
                         ELSE FrameAt(Taken + 1) - 1

WholeBuffer ==
  \A r \in Rows : buffer[r] = [frame |-> buffer[Height].frame, row |-> r]

WholeInv ==
  /\ intact \in BOOLEAN
  /\ intact => Gapless /\ (Announced => WholeBuffer)
  /\ WholeFrameWithoutLoss
-----------------------------------------------------------------------------
(* A step that moves neither the packets nor the next line to be sent.       *)
LEMMA WholeStutter ==
  ASSUME WholeInv,
         UNCHANGED <<NextFrame, NextLine, wire, newest, socket, buffer>>,
         intact' \in BOOLEAN, intact' => intact, Announced' => Announced,
         \/ UNCHANGED <<shown, picture>>
         \/ Announced /\ shown' = buffer[Height].frame /\ picture' = buffer
  PROVE  WholeInv'
<1>1. /\ \A i : FrameAt(i)' = FrameAt(i) /\ LineAt(i)' = LineAt(i)
      /\ Taken' = Taken
  BY DEF FrameAt, LineAt, Frame, Line, Taken
<1>2. Gapless => Gapless'
  BY <1>1 DEF Gapless
<1>3. WholeBuffer' = WholeBuffer
  BY DEF WholeBuffer
<1>4. intact' => Gapless' /\ (Announced' => WholeBuffer')
  BY <1>2, <1>3 DEF WholeInv
<1>5. WholeFrameWithoutLoss'
  <2>1. CASE UNCHANGED <<shown, picture>>
    BY <2>1 DEF WholeInv, WholeFrameWithoutLoss
  <2>2. CASE Announced /\ shown' = buffer[Height].frame /\ picture' = buffer
    BY <2>2 DEF WholeInv, WholeBuffer, WholeFrameWithoutLoss
  <2>. QED BY <2>1, <2>2
<1>. QED BY <1>4, <1>5 DEF WholeInv

LEMMA WholeTransmitter ==
  ASSUME StreamInv, WholeInv, Transmitter
  PROVE  WholeInv'
<1> USE StreamBounds
<1>1. /\ UNCHANGED <<vars, seen, network, received>>
      /\ StreamType /\ TransmitterInv /\ Sent \in Nat
  BY SentIsNat DEF Transmitter, StreamInv, vars, socketVars, threadLocals,
                   seen, network, received
<1>2. UNCHANGED <<NextFrame, NextLine>>
  <2>1. CASE \/ Tx!SetStreamInfo(Stream, Video) \/ Tx!Open(Stream)
             \/ Tx!Close(Stream) \/ Tx!TransmitReturns(Stream)
    <3>1. UNCHANGED sender
      BY <1>1, <2>1, ClientStep
    <3>. QED BY <3>1 DEF sender, NextFrame, NextLine, Sent
  <2>2. CASE /\ Sent < MaxFrames
             /\ Tx!Transmit(Stream, Sent + 1, TRUE, Sent + 1)
    <3>1. /\ Sent' = Sent + 1 /\ tx_pc'[Sent + 1] = "lock"
          /\ Sent > 0 => tx_pc[Sent] \in Tx!Ended
      BY <1>1, <2>2, TransmitStep
    <3>. QED BY <1>1, <3>1 DEF NextFrame, NextLine, Tx!InSendFrame, Tx!Ended
  <2>3. ASSUME NEW t \in FrameNumbers, SenderThread(t)
        PROVE  UNCHANGED <<NextFrame, NextLine>>
    <3>1. /\ t = Sent /\ Sent' = Sent /\ Sent > 0
          /\ \/ tx_pc[t] = "lock" /\ line'[t] = 1 /\ tx_pc'[t] = "test"
             \/ /\ tx_pc[t] \in Tx!InSendFrame /\ line'[t] = line[t]
                /\ \/ tx_pc'[t] \in Tx!InSendFrame
                   \/ tx_pc'[t] = "done" /\ line[t] = Height + 1
      BY <1>1, <2>3, ThreadStep
    <3>. QED BY <1>1, <3>1 DEF NextFrame, NextLine, Tx!InSendFrame, Tx!Ended
  <2>. QED BY <2>1, <2>2, <2>3 DEF Transmitter, Sent
<1>3. /\ UNCHANGED <<wire, newest, socket, buffer, shown, picture, intact>>
      /\ Announced' = Announced
  BY <1>1 DEF vars, socketVars, threadLocals, seen, network, Announced
<1>4. intact' \in BOOLEAN /\ (intact' => intact)
  BY <1>3 DEF WholeInv
<1>. QED BY <1>2, <1>3, <1>4, WholeStutter

LEMMA WholeSend ==
  ASSUME StreamInv, WholeInv, NEW t \in FrameNumbers, SendLine(t)
  PROVE  WholeInv'
<1> USE StreamBounds
<1>1. /\ StreamType /\ TransmitterInv /\ Sent \in Nat
      /\ UNCHANGED <<vars, seen, newest>>
      /\ UNCHANGED <<socket, buffer, shown, picture>>
      /\ Announced' = Announced
      /\ Len(wire) \in Nat
  BY SentIsNat, WireTyped
  DEF StreamInv, SendLine, vars, socketVars, threadLocals, seen, Announced
<1>2. CASE intact' = FALSE
  BY <1>2 DEF WholeInv, WholeFrameWithoutLoss
<1>3. ASSUME Tx!SendLine(t), wire' = Append(wire, OnTheWire(t)),
             intact' = intact
      PROVE  WholeInv'
  <2> DEFINE p == OnTheWire(t)
  <2>0. /\ t = Sent /\ Sent' = Sent /\ Sent > 0 /\ tx_pc[t] = "send"
        /\ line[t] \in Rows
        /\ tx_pc'[t] = "test" /\ line'[t] = line[t] + 1
        /\ OnTheWire(t) \in LinePackets
        /\ Frame(OnTheWire(t)) = Sent /\ Line(OnTheWire(t)) = line[t]
    BY <1>1, <1>3, SendStep
  <2>1. /\ t = Sent /\ Sent' = Sent /\ Sent > 0 /\ tx_pc[t] = "send"
        /\ line[t] \in Rows
        /\ tx_pc'[t] = "test" /\ line'[t] = line[t] + 1
        /\ p \in LinePackets /\ Frame(p) = Sent /\ Line(p) = line[t]
        /\ wire' = Append(wire, p)
    BY <1>3, <2>0
  <2> HIDE DEF p
  <2>2. /\ NextFrame = Sent /\ NextLine = line[t]
        /\ NextFrame' = IF line[t] = Height THEN Sent + 1 ELSE Sent
        /\ NextLine' = IF line[t] = Height THEN 1 ELSE line[t] + 1
    BY <1>1, <2>1 DEF NextFrame, NextLine, Tx!InSendFrame, Tx!Ended, Rows
  <2>3. /\ Len(wire') = Len(wire) + 1
        /\ \A i \in 1 .. Len(wire) : wire'[i] = wire[i]
        /\ wire'[Len(wire) + 1] = p
    <3>1. wire \in Seq(LinePackets)
      BY <1>1 DEF StreamType
    <3>. QED BY <2>1, <3>1
  <2>4. \A i \in 1 .. Len(wire) + 1 :
          FrameAt(i)' = FrameAt(i) /\ LineAt(i)' = LineAt(i)
    <3> SUFFICES ASSUME NEW i \in 1 .. Len(wire) + 1
                 PROVE  FrameAt(i)' = FrameAt(i) /\ LineAt(i)' = LineAt(i)
      OBVIOUS
    <3>1. FrameAt(i)' = Frame(wire'[i]) /\ LineAt(i)' = Line(wire'[i])
      BY <1>1, <2>3 DEF FrameAt, LineAt, Frame, Line
    <3>2. CASE i \in 1 .. Len(wire)
      BY <1>1, <2>3, <3>1, <3>2 DEF FrameAt, LineAt
    <3>3. CASE i = Len(wire) + 1
      BY <1>1, <2>1, <2>2, <2>3, <3>1, <3>3 DEF FrameAt, LineAt
    <3>. QED BY <1>1, <3>2, <3>3
  <2>5. \A i : i = Len(wire) + 1 =>
          /\ FrameAt(i) = Sent /\ LineAt(i) = line[t]
          /\ FrameAt(i + 1)' = NextFrame' /\ LineAt(i + 1)' = NextLine'
    BY <1>1, <2>2, <2>3 DEF FrameAt, LineAt
  <2>6. ASSUME Gapless PROVE Gapless'
    <3>1. Taken' = Taken /\ Taken \in 0 .. Len(wire)
      BY <1>1, <2>6 DEF Taken, Gapless
    <3>2. Taken' \in 0 .. Len(wire')
      BY <1>1, <2>3, <3>1
    <3>3. \A k \in 1 .. Len(socket) : /\ socket[k] = wire[Taken + k]
                                      /\ Taken + k \in 1 .. Len(wire)
      <4>1. newest \in 0 .. Len(wire)
        BY DEF StreamInv, WireInv
      <4>2. Len(socket) \in Nat
        BY <1>1, SocketTyped
      <4>. QED BY <1>1, <2>6, <3>1, <4>1, <4>2 DEF Gapless, Taken
    <3>4. \A k \in 1 .. Len(socket') : socket'[k] = wire'[Taken' + k]
      BY <1>1, <2>3, <3>1, <3>3
    <3>5. ASSUME NEW i \in 1 .. Len(wire')
          PROVE  IF LineAt(i)' = Height
                 THEN FrameAt(i + 1)' = FrameAt(i)' + 1 /\ LineAt(i + 1)' = 1
                 ELSE /\ FrameAt(i + 1)' = FrameAt(i)'
                      /\ LineAt(i + 1)' = LineAt(i)' + 1
      <4>1. CASE i \in 1 .. Len(wire)
        <5>1. /\ i \in 1 .. Len(wire) + 1 /\ i + 1 \in 1 .. Len(wire) + 1
          BY <1>1, <4>1
        <5>. QED BY <2>4, <2>6, <4>1, <5>1 DEF Gapless
      <4>2. CASE i = Len(wire) + 1
        <5>1. i \in 1 .. Len(wire) + 1
          BY <1>1, <4>2
        <5>. QED BY <2>2, <2>4, <2>5, <4>2, <5>1
      <4>. QED BY <1>1, <2>3, <4>1, <4>2
    <3>6. \A r \in Rows :
            buffer'[r].frame = IF r < LineAt(Taken + 1)' THEN FrameAt(Taken + 1)'
                               ELSE FrameAt(Taken + 1)' - 1
      <4>1. Taken + 1 \in 1 .. Len(wire) + 1
        BY <1>1, <3>1
      <4>2. \A j : j = Taken + 1 => /\ FrameAt(j)' = FrameAt(j)
                                    /\ LineAt(j)' = LineAt(j)
        BY <2>4, <4>1
      <4>3. FrameAt(Taken + 1)' = FrameAt(Taken + 1)
            /\ LineAt(Taken + 1)' = LineAt(Taken + 1)
        BY <3>1, <4>2 DEF FrameAt, LineAt
      <4>. QED BY <1>1, <2>6, <4>3 DEF Gapless
    <3>. QED BY <3>2, <3>4, <3>5, <3>6 DEF Gapless
  <2>7. WholeBuffer' = WholeBuffer
    BY <1>1 DEF WholeBuffer
  <2>8. WholeFrameWithoutLoss'
    BY <1>1, <1>3 DEF WholeInv, WholeFrameWithoutLoss
  <2>. QED BY <1>1, <1>3, <2>6, <2>7, <2>8 DEF WholeInv
<1>. QED BY <1>2, <1>3 DEF SendLine

LEMMA WholeDeliver ==
  ASSUME StreamInv, WholeInv, NEW i \in 1 .. Len(wire), Deliver(i)
  PROVE  WholeInv'
<1>1. /\ StreamType /\ Len(wire) \in Nat /\ wire[i] \in LinePackets
      /\ newest \in 0 .. Len(wire)
  BY WireTyped DEF StreamInv, WireInv
<1>2. /\ UNCHANGED <<tx, wire, seen>> /\ Arrive(wire[i])
      /\ newest' = IF i > newest THEN i ELSE newest
      /\ intact' = (intact /\ i = newest + 1)
  BY DEF Deliver
<1>3. /\ Len(socket) \in Nat /\ Len(socket') = Len(socket) + 1
      /\ \A k \in 1 .. Len(socket) : socket'[k] = socket[k]
      /\ socket'[Len(socket) + 1] = wire[i]
      /\ UNCHANGED <<buffer, pc, last_scan_line, new_rx_frame>>
  BY <1>1, <1>2, ArriveStep
<1>4. /\ UNCHANGED <<passed, tx_pc, line, shown, picture>>
      /\ Announced' = Announced
  BY <1>2, <1>3 DEF tx, seen, Announced
<1>5. UNCHANGED <<NextFrame, NextLine, WholeBuffer>>
  BY <1>3, <1>4 DEF NextFrame, NextLine, Sent, WholeBuffer
<1>6. \A j : FrameAt(j)' = FrameAt(j) /\ LineAt(j)' = LineAt(j)
  BY <1>2, <1>5 DEF FrameAt, LineAt, Frame, Line
<1>7. ASSUME intact' PROVE intact /\ Gapless'
  <2>1. intact /\ i = newest + 1 /\ newest' = newest + 1 /\ Gapless
    <3>1. intact /\ i = newest + 1
      BY <1>2, <1>7, Zenon
    <3>2. newest' = newest + 1
      BY <1>1, <1>2, <3>1
    <3>3. Gapless
      BY <3>1 DEF WholeInv
    <3>. QED BY <3>1, <3>2, <3>3
  <2>2. Taken' = Taken /\ Taken \in 0 .. Len(wire)
    BY <1>1, <1>3, <2>1 DEF Taken, Gapless
  <2>3. i = Taken + Len(socket) + 1
    BY <1>1, <1>3, <2>1 DEF Taken
  <2>4. \A k \in 1 .. Len(socket') : socket'[k] = wire[Taken + k]
    <3> SUFFICES ASSUME NEW k \in 1 .. Len(socket')
                 PROVE  socket'[k] = wire[Taken + k]
      OBVIOUS
    <3>1. CASE k \in 1 .. Len(socket)
      BY <1>3, <2>1, <3>1 DEF Gapless
    <3>2. CASE k = Len(socket) + 1
      <4>1. Taken + k = i
        BY <1>3, <2>2, <2>3, <3>2
      <4>. QED BY <1>3, <3>2, <4>1
    <3>. QED BY <1>3, <3>1, <3>2
  <2>5. Gapless'
    BY <1>2, <1>3, <1>6, <2>1, <2>2, <2>4 DEF Gapless
  <2>. QED BY <2>1, <2>5
<1>8. WholeFrameWithoutLoss' /\ intact' \in BOOLEAN
  BY <1>2, <1>4 DEF WholeInv, WholeFrameWithoutLoss
<1>. QED BY <1>4, <1>5, <1>7, <1>8 DEF WholeInv

LEMMA WholeReceiver ==
  ASSUME StreamInv, WholeInv, Receiver
  PROVE  WholeInv'
<1> USE StreamBounds
<1>1. /\ UNCHANGED <<tx, wire, newest, ordered>>
      /\ intact' = (intact /\ (Len(socket') < Len(socket) => pc' # pc))
      /\ \/ /\ pc' = "callback" /\ pc # "callback"
            /\ shown' = buffer[Height].frame
            /\ picture' = buffer
         \/ /\ pc' # "callback" \/ pc = "callback"
            /\ UNCHANGED seen
      /\ StreamType
  BY DEF Receiver, StreamInv
<1>2. intact' \in BOOLEAN /\ (intact' => intact)
  BY <1>1
<1>3. UNCHANGED <<NextFrame, NextLine>>
  BY <1>1 DEF tx, NextFrame, NextLine, Sent
<1>4. CASE \/ SetStreamInfo \/ Open \/ Close
           \/ pc = "none" /\ Start
           \/ Stop \/ RegisterCallback(TRUE) \/ StopReturns
  <2>1. /\ UNCHANGED <<new_rx_frame, buffer, last_scan_line>>
        /\ socket' = socket \/ socket' = <<>>
        /\ pc' = pc \/ pc' \in {"starting", "none"}
        /\ pc' # pc => socket' = socket
    BY <1>4, CallStep
  <2>2. UNCHANGED <<shown, picture>> /\ (Announced' => Announced)
    BY <1>1, <2>1 DEF seen, Announced
  <2>3. CASE intact'
    <3>1. Len(socket) \in Nat /\ (Len(socket) = 0 => socket = <<>>)
      BY <1>1 DEF StreamType
    <3>2. socket' = <<>> => Len(socket') = 0
      OBVIOUS
    <3>3. Len(socket') < Len(socket) => pc' # pc
      BY <1>1, <2>3, Zenon
    <3>4. socket' = socket
      BY <2>1, <3>1, <3>2, <3>3
    <3>. QED BY <1>1, <1>2, <1>3, <2>1, <2>2, <3>4, WholeStutter
  <2>4. CASE ~intact'
    BY <1>2, <2>2, <2>4 DEF WholeInv, WholeFrameWithoutLoss
  <2>. QED BY <2>3, <2>4
<1>5. CASE \/ ThreadStarts \/ LoopTop \/ CheckRunning \/ RecvFails
           \/ Publish \/ TestCallback \/ CallbackEnds
  <2>1. /\ UNCHANGED <<buffer, socket>>
        /\ \/ /\ UNCHANGED new_rx_frame
              /\ \/ pc = "top" /\ pc' = "check" /\ ~last_scan_line'
                 \/ /\ pc \in {"check", "recvfrom"}
                    /\ pc' \in {"check", "recvfrom", "publish"}
                    /\ UNCHANGED last_scan_line
                 \/ pc' \in {"top", "ended"} /\ UNCHANGED last_scan_line
                 \/ /\ pc = "test" /\ new_rx_frame /\ pc' = "callback"
                    /\ UNCHANGED last_scan_line
           \/ /\ pc = "publish" /\ pc' = "test"
              /\ new_rx_frame' = last_scan_line /\ UNCHANGED last_scan_line
    BY <1>5, LoopStep
  <2>2. Announced' => Announced
    BY <2>1 DEF StreamInv, ShowInv, Announced
  <2>3. \/ UNCHANGED <<shown, picture>>
        \/ Announced /\ shown' = buffer[Height].frame /\ picture' = buffer
    BY <1>1, <2>1 DEF seen, Announced
  <2>. QED BY <1>1, <1>2, <1>3, <2>1, <2>2, <2>3, WholeStutter
<1>6. CASE RecvPacket
  <2> DEFINE p == socket[1]
  <2>1. /\ pc = "recvfrom" /\ pc' = "publish"
        /\ UNCHANGED new_rx_frame
        /\ last_scan_line' = (Line(p) = Height)
        /\ p \in LinePackets
        /\ buffer'[Line(p)] = [frame |-> Frame(p), row |-> Line(p)]
        /\ \A r \in Rows : r # Line(p) => buffer'[r] = buffer[r]
        /\ buffer' \in [Rows -> RowShown]
        /\ Len(socket) \in Nat \ {0} /\ Len(socket') = Len(socket) - 1
        /\ \A i \in 1 .. Len(socket') : socket'[i] = socket[i + 1]
    BY <1>1, <1>6, PacketStep
  <2>2. 1 \in 1 .. Len(socket) /\ p = socket[1]
    BY <2>1
  <2> HIDE DEF p
  <2>3. /\ Line(p) \in Rows /\ Frame(p) \in Nat /\ Frame(p) > 0
        /\ Line(p) \in Nat
    <3>1. /\ Line(p) \in Rows /\ Frame(p) \in Nat /\ Frame(p) > 0
      BY <2>1, PacketShape
    <3>. QED BY <3>1 DEF Rows
  <2>4. UNCHANGED <<shown, picture>>
    BY <1>1, <2>1 DEF seen
  <2>5. \A j : FrameAt(j)' = FrameAt(j) /\ LineAt(j)' = LineAt(j)
    BY <1>1, <1>3 DEF FrameAt, LineAt, Frame, Line
  <2>6. ASSUME intact
        PROVE  Gapless' /\ (Announced' => WholeBuffer')
    <3>1. Gapless /\ Taken \in 0 .. Len(wire) /\ Len(wire) \in Nat
          /\ newest \in 0 .. Len(wire)
      BY <1>1, <2>6, WireTyped DEF WholeInv, Gapless, StreamInv, WireInv
    <3>2. Taken' = Taken + 1 /\ Taken + 1 \in 1 .. Len(wire)
      BY <1>1, <2>1, <3>1 DEF Taken
    <3>3. p = wire[Taken + 1]
      BY <2>2, <3>1 DEF Gapless
    <3>4. FrameAt(Taken + 1) = Frame(p) /\ LineAt(Taken + 1) = Line(p)
      BY <3>1, <3>2, <3>3 DEF FrameAt, LineAt
    <3>5. IF Line(p) = Height
          THEN FrameAt(Taken + 2) = Frame(p) + 1 /\ LineAt(Taken + 2) = 1
          ELSE /\ FrameAt(Taken + 2) = Frame(p)
               /\ LineAt(Taken + 2) = Line(p) + 1
      <4>1. Taken + 1 + 1 = Taken + 2
        BY <3>1
      <4>. QED BY <3>1, <3>2, <3>4, <4>1 DEF Gapless
    <3>6. \A r \in Rows :
            buffer'[r].frame = IF r < Line(p) + 1 THEN Frame(p)
                               ELSE Frame(p) - 1
      <4> SUFFICES ASSUME NEW r \in Rows
                   PROVE  buffer'[r].frame = IF r < Line(p) + 1 THEN Frame(p)
                                             ELSE Frame(p) - 1
        OBVIOUS
      <4>1. r \in Nat
        BY DEF Rows
      <4>2. CASE r = Line(p)
        BY <2>1, <2>3, <4>2
      <4>3. CASE r # Line(p)
        <5>1. /\ buffer'[r] = buffer[r]
              /\ buffer[r].frame = IF r < Line(p) THEN Frame(p)
                                   ELSE Frame(p) - 1
          BY <2>1, <3>1, <3>4, <4>3 DEF Gapless
        <5>. QED BY <2>3, <4>1, <4>3, <5>1
      <4>. QED BY <4>2, <4>3
    <3>7. \A r \in Rows :
            buffer'[r].frame = IF r < LineAt(Taken + 2) THEN FrameAt(Taken + 2)
                               ELSE FrameAt(Taken + 2) - 1
      <4>1. \A r \in Rows : r \in Nat /\ r > 0 /\ r < Height + 1
        BY DEF Rows
      <4>2. CASE Line(p) = Height
        BY <2>3, <3>5, <3>6, <4>1, <4>2
      <4>3. CASE Line(p) # Height
        BY <3>5, <3>6, <4>3
      <4>. QED BY <4>2, <4>3
    <3>8. \A k \in 1 .. Len(socket') : socket'[k] = wire[Taken + 1 + k]
      <4> SUFFICES ASSUME NEW k \in 1 .. Len(socket')
                   PROVE  socket'[k] = wire[Taken + 1 + k]
        OBVIOUS
      <4>1. k + 1 \in 1 .. Len(socket) /\ socket'[k] = socket[k + 1]
        BY <2>1
      <4>2. Taken + (k + 1) = Taken + 1 + k
        BY <3>1
      <4>. QED BY <3>1, <4>1, <4>2 DEF Gapless
    <3>9. Gapless'
      <4>1. Taken' \in 0 .. Len(wire')
        BY <1>1, <3>1, <3>2
      <4>2. \A k \in 1 .. Len(socket') : socket'[k] = wire'[Taken' + k]
        BY <1>1, <3>2, <3>8
      <4>3. \A r \in Rows :
              buffer'[r].frame = IF r < LineAt(Taken + 1)'
                                 THEN FrameAt(Taken + 1)'
                                 ELSE FrameAt(Taken + 1)' - 1
        <5>1. Taken' + 1 = Taken + 2
          BY <3>1, <3>2
        <5>2. /\ LineAt(Taken + 1)' = LineAt(Taken + 2)
              /\ FrameAt(Taken + 1)' = FrameAt(Taken + 2)
          BY <1>1, <1>3, <5>1 DEF LineAt, FrameAt, Line, Frame
        <5>. QED BY <3>7, <5>2
      <4>. QED BY <1>1, <2>5, <3>1, <4>1, <4>2, <4>3 DEF Gapless
    <3>10. ASSUME Announced' PROVE WholeBuffer'
      <4>1. Line(p) = Height
        BY <2>1, <3>10 DEF Announced
      <4>2. \A r \in Rows : /\ buffer'[r].frame = Frame(p)
                            /\ buffer'[r] \in RowShown
        <5>1. \A r \in Rows : r \in Nat /\ r < Height + 1
          BY DEF Rows
        <5>. QED BY <2>1, <3>6, <4>1, <5>1
      <4>3. \A r \in Rows : buffer'[r] = NoPixels \/ buffer'[r].row = r
        <5>1. StreamInv'
          BY ReceiverStep
        <5>. QED BY <5>1 DEF StreamInv, WireInv
      <4>4. NoPixels.frame = 0
        BY DEF NoPixels
      <4>5. \A r \in Rows : buffer'[r] = [frame |-> Frame(p), row |-> r]
        BY <2>3, <4>2, <4>3, <4>4 DEF RowShown
      <4>6. Height \in Rows
        BY DEF Rows
      <4>7. buffer'[Height].frame = Frame(p)
        BY <4>2, <4>6
      <4>. QED BY <4>5, <4>7 DEF WholeBuffer
    <3>. QED BY <3>9, <3>10
  <2>. QED BY <1>2, <2>4, <2>6 DEF WholeInv, WholeFrameWithoutLoss
<1>. QED BY <1>4, <1>5, <1>6 DEF Receiver

(* While every packet arrives once and in its turn, a picture shows one      *)
(* whole frame, each row of it one place too high and in the last row what   *)
(* lies behind the frame (SendFrame's loop, ReceiveLines and the callback).  *)
THEOREM WholeFrames == StreamSpec => []WholeFrameWithoutLoss
<1>1. ASSUME StreamInit PROVE WholeInv
  <2>1. /\ passed = [s \in {Stream} |-> <<>>]
        /\ wire = <<>> /\ newest = 0 /\ socket = <<>> /\ intact = TRUE
        /\ buffer = [r \in Rows |-> NoPixels]
        /\ pc = "none" /\ shown = 0
    BY <1>1, StreamAssumption DEF StreamAssumption, StreamInit, Tx!Init, Init
  <2>2. Sent = 0 /\ Len(socket) = 0 /\ Len(wire) = 0 /\ Taken = 0
    <3>1. Len(passed[Stream]) = 0
      BY <2>1
    <3>2. Len(socket) = 0 /\ Len(wire) = 0
      BY <2>1
    <3>3. newest = 0
      BY <2>1
    <3>. QED BY <3>1, <3>2, <3>3 DEF Sent, Taken
  <2>3. FrameAt(1) = 1 /\ LineAt(1) = 1
    BY <2>2 DEF FrameAt, LineAt, NextFrame, NextLine
  <2>4. \A r \in Rows : buffer[r].frame = 0 /\ r > 0
    BY <2>1 DEF NoPixels, Rows
  <2>5. Gapless
    BY <2>2, <2>3, <2>4 DEF Gapless, Rows
  <2>. QED BY <2>1, <2>5 DEF WholeInv, WholeFrameWithoutLoss, Announced
<1>2. ASSUME StreamInv, WholeInv, [StreamNext]_everything PROVE WholeInv'
  <2>1. CASE UNCHANGED everything
    <3>1. /\ UNCHANGED <<wire, newest, socket, buffer, shown, picture>>
          /\ UNCHANGED <<intact, passed, tx_pc, line, pc, last_scan_line,
                         new_rx_frame>>
      BY <2>1 DEF everything, tx, vars, socketVars, threadLocals, seen, network
    <3>2. UNCHANGED <<NextFrame, NextLine>> /\ Announced' = Announced
      BY <3>1 DEF NextFrame, NextLine, Sent, Announced
    <3>3. intact' \in BOOLEAN /\ (intact' => intact)
      BY <1>2, <3>1 DEF WholeInv
    <3>. QED BY <1>2, <3>1, <3>2, <3>3, WholeStutter
  <2>. QED BY <1>2, <2>1, WholeTransmitter, WholeSend, WholeDeliver,
              WholeReceiver DEF StreamNext
<1>3. WholeInv => WholeFrameWithoutLoss
  BY DEF WholeInv
<1>. QED BY <1>1, <1>2, <1>3, StreamInvariant, PTL DEF StreamSpec
=============================================================================
