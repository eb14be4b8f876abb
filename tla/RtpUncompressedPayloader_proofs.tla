------------------- MODULE RtpUncompressedPayloader_proofs -------------------
(***************************************************************************)
(* Type correctness of the transmitter, the serialisation of SendFrame for *)
(* any number of threads, and what a blocking call gains.                  *)
(***************************************************************************)
EXTENDS RtpUncompressedPayloader, TLAPS

(* Inside the loop's body the line passed the loop's test, of whatever height. *)
InBody == InSendFrame \ {"test"}
LineBound == \A t \in Threads : pc[t] \in InBody => line[t] <= MaxHeight

(* Every reachable state is well typed, for any set of streams, threads and   *)
(* frames and any heights: Transmit, Open, Close and the thread's own steps.  *)
THEOREM TypeCorrect == Spec => []TypeOK
<1> USE PayloaderAssumption DEF PayloaderAssumption
<1> DEFINE TypeInv == TypeOK /\ LineBound
<1>1. Init => TypeInv
  <2> SUFFICES ASSUME Init PROVE TypeInv
    OBVIOUS
  <2>1. owner \in [Threads -> Streams]
    BY DEF Init, AnyStream
  <2>2. line \in [Threads -> 1 .. (MaxHeight + 1)] /\ last \in [Threads -> BOOLEAN]
    BY DEF Init
  <2>3. sequence_number \in SequenceNumber /\ protocol \in [Threads -> SequenceNumber]
    BY DEF Init, SequenceNumber
  <2>4. /\ passed \in [Streams -> Seq(Argument)]
        /\ sends \in [Streams -> Seq(Packet)]
    BY DEF Init
  <2>5. egress \in [Streams -> Egress]
    BY DEF Init, Egress, Encoding
  <2>. QED BY <2>1, <2>2, <2>3, <2>4, <2>5
           DEF Init, TypeOK, Locations, LineBound, InBody, InSendFrame
<1>2. TypeInv /\ [Next]_vars => TypeInv'
  <2> SUFFICES ASSUME TypeOK, LineBound, [Next]_vars PROVE TypeInv'
    OBVIOUS
  <2> USE DEF TypeOK, threadVars, clientVars
  <2>1. ASSUME NEW s \in Streams, Client(s) PROVE TypeInv'
    <3>1. ASSUME NEW settings \in Settings, SetStreamInfo(s, settings)
          PROVE  TypeInv'
      BY <3>1 DEF SetStreamInfo, LineBound
    <3>2. CASE Open(s)
      BY <3>2 DEF Open, LineBound
    <3>3. CASE Close(s)
      BY <3>3 DEF Close, LineBound
    <3>4. ASSUME NEW f \in Frames, TransmitRefused(s, f) PROVE TypeInv'
      BY <3>4 DEF TransmitRefused, LineBound
    <3>5. ASSUME NEW f \in Frames, NEW b \in Blocking, NEW t \in Threads,
                 Transmit(s, f, b, t)
          PROVE  TypeInv'
      <4>1. [frame |-> f, blocking |-> b, height |-> egress[s].height]
              \in Argument
        BY DEF Argument, Egress
      <4>2. passed' \in [Streams -> Seq(Argument)]
        BY <3>5, <4>1 DEF Transmit
      <4>3. LineBound'
        BY <3>5 DEF Transmit, LineBound, InBody, InSendFrame
      <4>. QED BY <3>5, <4>2, <4>3 DEF Transmit, JoinedBy, Locations
    <3>6. CASE TransmitReturns(s)
      BY <3>6 DEF TransmitReturns, LineBound
    <3>7. CASE Destroy(s)
      BY <3>7 DEF Destroy, LineBound
    <3>. QED BY <2>1, <3>1, <3>2, <3>3, <3>4, <3>5, <3>6, <3>7 DEF Client
  <2>2. ASSUME NEW t \in Threads, TransmitThread(t) PROVE TypeInv'
    <3>. USE DEF InBody, InSendFrame, LineBound
    <3>1. CASE EnterSendFrame(t)
      BY <3>1 DEF EnterSendFrame, Locations
    <3>2. CASE LoopTest(t)
      <4>1. egress[owner[t]].height \in 0 .. MaxHeight
        BY DEF Egress
      <4>2. mutex' \in [Streams -> Threads \cup {NoThread}]
        BY <3>2 DEF LoopTest, Released
      <4>3. \E l \in {"last", "done"} :
              /\ pc' = [pc EXCEPT ![t] = l]
              /\ l = "last" => line[t] <= egress[owner[t]].height
        BY <3>2 DEF LoopTest, LoopOn
      <4>4. line[t] \in Nat /\ MaxHeight \in Nat
        OBVIOUS
      <4>5. /\ pc' \in [Threads -> Locations]
            /\ \A u \in Threads \ {t} : pc'[u] = pc[u]
            /\ pc'[t] = "last" => line[t] <= MaxHeight
            /\ pc'[t] \in {"last", "done"}
        BY <4>1, <4>3, <4>4 DEF Locations, Ended
      <4>6. UNCHANGED line
        BY <3>2 DEF LoopTest
      <4>7. LineBound'
        BY <4>5, <4>6
      <4>. QED BY <3>2, <4>2, <4>5, <4>7 DEF LoopTest
    <3>3. CASE TestLast(t)
      BY <3>3 DEF TestLast, Locations
    <3>4. CASE UpdateHeader(t)
      BY <3>4 DEF UpdateHeader, Locations
    <3>5. CASE IncrementSequence(t)
      <4>1. Incremented(t) \subseteq SequenceNumber
        BY DEF Incremented, SequenceNumber
      <4>. QED BY <3>5, <4>1 DEF IncrementSequence, Locations
    <3>6. CASE SendLine(t)
      <4>0. line[t] \in 1 .. MaxHeight
        BY <3>6 DEF SendLine
      <4>1. LinePacket(t) \in Packet
        BY <4>0 DEF LinePacket, Packet
      <4>2. sends' \in [Streams -> Seq(Packet)]
        BY <3>6, <4>1 DEF SendLine
      <4>3. line' \in [Threads -> 1 .. (MaxHeight + 1)]
        BY <3>6, <4>0 DEF SendLine
      <4>4. pc' \in [Threads -> Locations]
        BY <3>6 DEF SendLine, Locations
      <4>. QED BY <3>6, <4>2, <4>3, <4>4 DEF SendLine
    <3>7. CASE SendNothing(t)
      BY <3>7 DEF SendNothing, Locations, Released, Ended
    <3>8. CASE UseAfterFree(t)
      BY <3>8 DEF UseAfterFree
    <3>. QED BY <2>2, <3>1, <3>2, <3>3, <3>4, <3>5, <3>6, <3>7, <3>8
             DEF TransmitThread
  <2>3. CASE UNCHANGED vars
    BY <2>3 DEF vars, LineBound
  <2>. QED BY <2>1, <2>2, <2>3 DEF Next
<1>. QED BY <1>1, <1>2, PTL DEF Spec
-----------------------------------------------------------------------------
(* The mutex of a stream is held by the thread that is inside SendFrame. *)
LockInv == \A t \in Threads : pc[t] \in InSendFrame => mutex[owner[t]] = t

LastSent(s) == sends[s][Len(sends[s])]
SentFor(s, call) == \E i \in 1 .. Len(sends[s]) : sends[s][i].of = call

(* Every thread serves a call of its own. *)
Turns ==
  /\ \A t \in Threads : pc[t] # "none" =>
       turn[t] \in 1 .. Len(passed[owner[t]])
  /\ \A t, u \in Threads :
       t # u /\ pc[t] # "none" /\ pc[u] # "none" /\ owner[t] = owner[u]
         => turn[t] # turn[u]

(* What is on the wire was sent by a thread that has entered SendFrame.      *)
Entered == InSendFrame \cup Ended
Senders ==
  \A s \in Streams : \A i \in 1 .. Len(sends[s]) :
    \E t \in Threads : /\ pc[t] \in Entered /\ owner[t] = s
                       /\ turn[t] = sends[s][i].of

(* Where the thread inside SendFrame stands relative to what is on the wire. *)
StandsAt(t) ==
  IF line[t] = 1 THEN ~SentFor(owner[t], turn[t])
  ELSE /\ sends[owner[t]] # <<>>
       /\ LastSent(owner[t]).line = line[t] - 1
       /\ LastSent(owner[t]).of = turn[t]
Position == \A t \in Threads : pc[t] \in InSendFrame => StandsAt(t)

OrderInv == LockInv /\ Turns /\ Senders /\ Position /\ LinesInOrder

(* What steps that neither send nor lock leave alone. *)
wireVars == <<pc, owner, line, turn, passed, mutex, sends>>
LEMMA OrderStutter == OrderInv /\ UNCHANGED wireVars => OrderInv'
  BY DEF OrderInv, LockInv, Turns, Senders, Position, StandsAt, SentFor,
         LinesInOrder, LastSent, wireVars

(* A thread that moves on, in SendFrame or out of it, without sending.       *)
LEMMA OrderMove ==
  ASSUME TypeOK, OrderInv, NEW t \in Threads, pc[t] \in InSendFrame,
         UNCHANGED <<owner, line, turn, passed, sends>>,
         NEW l \in Entered, pc' = [pc EXCEPT ![t] = l],
         \/ UNCHANGED mutex
         \/ l \in Ended /\ mutex' = [mutex EXCEPT ![owner[t]] = NoThread]
  PROVE  OrderInv'
<1> USE DEF OrderInv
<1>1. \A u \in Threads : pc'[u] = IF u = t THEN l ELSE pc[u]
  BY DEF TypeOK
<1>2. LockInv'
  <2>1. ASSUME NEW u \in Threads, u # t, pc[u] \in InSendFrame
        PROVE  owner[u] # owner[t]
    BY <2>1 DEF LockInv
  <2>. QED BY <1>1, <2>1 DEF LockInv, TypeOK, InSendFrame, Ended
<1>3. Turns'
  <2>1. pc[t] # "none" /\ l # "none"
    BY DEF Entered, InSendFrame, Ended
  <2>2. \A u \in Threads : pc'[u] # "none" <=> pc[u] # "none"
    BY <1>1, <2>1
  <2>. QED BY <2>2 DEF Turns
<1>4. Senders'
  BY <1>1 DEF Senders, Entered, InSendFrame, Ended
<1>5. Position'
  BY <1>1 DEF Position, StandsAt, SentFor, LastSent
<1>6. LinesInOrder'
  BY DEF LinesInOrder
<1>. QED BY <1>2, <1>3, <1>4, <1>5, <1>6

(* The mutex serialises SendFrame, line by line.                             *)
LEMMA OrderInvariant == Spec => []OrderInv
<1> USE PayloaderAssumption DEF PayloaderAssumption
<1>1. Init => OrderInv
  BY DEF Init, OrderInv, LockInv, Turns, Senders, Position, LinesInOrder,
         InSendFrame
<1>2. TypeOK /\ OrderInv /\ [Next]_vars => OrderInv'
  <2> SUFFICES ASSUME TypeOK, OrderInv, [Next]_vars PROVE OrderInv'
    OBVIOUS
  <2>1. ASSUME NEW s \in Streams, Client(s) PROVE OrderInv'
    <3>1. CASE UNCHANGED <<threadVars, passed, mutex, sends>>
      BY <3>1, OrderStutter DEF threadVars, wireVars
    <3>2. ASSUME NEW f \in Frames, NEW b \in Blocking, NEW t \in Threads,
                 Transmit(s, f, b, t)
          PROVE  OrderInv'
      <4>1. /\ UNCHANGED <<line, mutex, sends>>
            /\ pc[t] = "none"
            /\ pc' = [pc EXCEPT ![t] = "lock"]
            /\ owner' = [owner EXCEPT ![t] = s]
            /\ turn' = [turn EXCEPT ![t] = Len(passed[s]) + 1]
        BY <3>2 DEF Transmit
      <4>2. /\ pc'[t] = "lock" /\ owner'[t] = s /\ turn'[t] = Len(passed[s]) + 1
            /\ \A u \in Threads \ {t} : /\ pc'[u] = pc[u]
                                        /\ owner'[u] = owner[u]
                                        /\ turn'[u] = turn[u]
        BY <4>1 DEF TypeOK
      <4>3. /\ Len(passed[s]) \in Nat
            /\ Len(passed'[s]) = Len(passed[s]) + 1
            /\ \A r \in Streams \ {s} : passed'[r] = passed[r]
        <5>1. passed[s] \in Seq(Argument)
          BY DEF TypeOK
        <5>2. passed'[s] = Append(passed[s], [frame |-> f, blocking |-> b,
                                              height |-> egress[s].height])
          BY <3>2 DEF Transmit, TypeOK
        <5>3. \A r \in Streams \ {s} : passed'[r] = passed[r]
          BY <3>2 DEF Transmit, TypeOK
        <5>. QED BY <5>1, <5>2, <5>3
      <4>4. \A u \in Threads \ {t} : owner[u] \in Streams /\ turn[u] \in Nat
        BY DEF TypeOK
      <4>5. Turns'
        BY <4>2, <4>3, <4>4 DEF OrderInv, Turns
      <4>6. LockInv'
        BY <4>1, <4>2 DEF OrderInv, LockInv, InSendFrame
      <4>7. Senders'
        BY <4>1, <4>2 DEF OrderInv, Senders, Entered, InSendFrame, Ended
      <4>8. Position'
        BY <4>1, <4>2
           DEF OrderInv, Position, StandsAt, SentFor, LastSent, InSendFrame
      <4>9. LinesInOrder'
        BY <4>1 DEF OrderInv, LinesInOrder
      <4>. QED BY <4>5, <4>6, <4>7, <4>8, <4>9 DEF OrderInv
    <3>. QED BY <2>1, <3>1, <3>2
             DEF Client, SetStreamInfo, Open, Close, TransmitRefused,
                 TransmitReturns, Destroy
  <2>2. ASSUME NEW t \in Threads, TransmitThread(t) PROVE OrderInv'
    <3>1. CASE EnterSendFrame(t)
      <4>1. /\ UNCHANGED <<owner, turn, passed, sends>>
            /\ pc[t] = "lock" /\ mutex[owner[t]] = NoThread
            /\ mutex' = [mutex EXCEPT ![owner[t]] = t]
            /\ \A u \in Threads : /\ pc'[u] = IF u = t THEN "test" ELSE pc[u]
                                  /\ line'[u] = IF u = t THEN 1 ELSE line[u]
        BY <3>1 DEF EnterSendFrame, Unlocked, clientVars, TypeOK
      <4>2. LockInv'
        BY <4>1 DEF OrderInv, LockInv, TypeOK, InSendFrame
      <4>3. Turns'
        BY <4>1 DEF OrderInv, Turns
      <4>4. Senders'
        BY <4>1 DEF OrderInv, Senders, Entered, InSendFrame, Ended
      <4>5. ~SentFor(owner[t], turn[t])
        <5> SUFFICES ASSUME NEW i \in 1 .. Len(sends[owner[t]]),
                            sends[owner[t]][i].of = turn[t]
                     PROVE  FALSE
          BY DEF SentFor
        <5>1. PICK u \in Threads : /\ pc[u] \in Entered
                                   /\ owner[u] = owner[t]
                                   /\ turn[u] = turn[t]
          BY DEF OrderInv, Senders, TypeOK
        <5>2. u # t /\ pc[u] # "none"
          BY <4>1, <5>1 DEF Entered, InSendFrame, Ended
        <5>. QED BY <4>1, <5>1, <5>2 DEF OrderInv, Turns
      <4>6. Position'
        BY <4>1, <4>5 DEF OrderInv, Position, StandsAt, SentFor, LastSent
      <4>7. LinesInOrder'
        BY <4>1 DEF OrderInv, LinesInOrder
      <4>. QED BY <4>2, <4>3, <4>4, <4>6, <4>7 DEF OrderInv
    <3>2. CASE LoopTest(t)
      <4>1. /\ UNCHANGED <<owner, line, turn, passed, sends>>
            /\ pc[t] \in InSendFrame
        BY <3>2 DEF LoopTest, clientVars, InSendFrame
      <4>2. \E l \in Entered :
              /\ pc' = [pc EXCEPT ![t] = l]
              /\ \/ UNCHANGED mutex
                 \/ l \in Ended /\ mutex' = [mutex EXCEPT ![owner[t]] = NoThread]
        BY <3>2 DEF LoopTest, Released, Entered, InSendFrame, Ended
      <4>. QED BY <4>1, <4>2, OrderMove
    <3>3. CASE TestLast(t) \/ UpdateHeader(t) \/ IncrementSequence(t)
      <4>1. /\ UNCHANGED <<owner, line, turn, passed, sends>>
            /\ pc[t] \in InSendFrame
            /\ UNCHANGED mutex
        BY <3>3 DEF TestLast, UpdateHeader, IncrementSequence, clientVars,
                    InSendFrame
      <4>2. \E l \in Entered : pc' = [pc EXCEPT ![t] = l]
        BY <3>3 DEF TestLast, UpdateHeader, IncrementSequence, Entered,
                    InSendFrame
      <4>. QED BY <4>1, <4>2, OrderMove
    <3>4. CASE SendLine(t)
      <4> DEFINE s == owner[t]
      <4>1. /\ s \in Streams
            /\ mutex[s] = t
            /\ line[t] \in 1 .. (MaxHeight + 1)
            /\ pc[t] = "send"
            /\ StandsAt(t)
            /\ UNCHANGED <<owner, turn, passed, mutex>>
            /\ \A u \in Threads :
                 /\ pc'[u] = IF u = t THEN "test" ELSE pc[u]
                 /\ line'[u] = IF u = t THEN line[t] + 1 ELSE line[u]
        BY <3>4 DEF SendLine, clientVars, OrderInv, LockInv, Position, TypeOK,
                    InSendFrame
      <4>2. \A u \in Threads : u # t /\ pc[u] \in InSendFrame => owner[u] # s
        BY <4>1 DEF OrderInv, LockInv
      <4>3. /\ sends[s] \in Seq(Packet)
            /\ sends'[s] = Append(sends[s], LinePacket(t))
            /\ \A r \in Streams \ {s} : sends'[r] = sends[r]
        BY <3>4, <4>1 DEF SendLine, TypeOK
      <4>4. /\ Len(sends'[s]) = Len(sends[s]) + 1 /\ Len(sends[s]) \in Nat
            /\ sends'[s] # <<>>
            /\ sends'[s][Len(sends[s]) + 1] = LinePacket(t)
            /\ \A i \in 1 .. Len(sends[s]) : sends'[s][i] = sends[s][i]
        BY <4>3
      <4>5. LinePacket(t).line = line[t] /\ LinePacket(t).of = turn[t]
        BY DEF LinePacket
      <4>6. LinesInOrder'
        <5> DEFINE Right(w, i) ==
              IF w[i].line = 1
              THEN \A j \in 1 .. (i - 1) : w[j].of # w[i].of
              ELSE /\ i > 1
                   /\ w[i - 1].line = w[i].line - 1
                   /\ w[i - 1].of = w[i].of
        <5>1. \A r \in Streams : \A i \in 1 .. Len(sends[r]) : Right(sends[r], i)
          BY DEF OrderInv, LinesInOrder
        <5>2. ASSUME NEW i \in 1 .. Len(sends[s]) PROVE Right(sends'[s], i)
          <6>1. \A j \in 1 .. i : sends'[s][j] = sends[s][j]
            BY <4>4
          <6>2. /\ i \in 1 .. i
                /\ \A j \in 1 .. (i - 1) : j \in 1 .. i
                /\ i > 1 => i - 1 \in 1 .. i
            OBVIOUS
          <6>3. Right(sends[s], i)
            BY <4>1, <5>1
          <6>4. sends'[s][i] = sends[s][i]
            BY <6>1, <6>2
          <6>5. CASE sends[s][i].line = 1
            BY <6>1, <6>2, <6>3, <6>4, <6>5
          <6>6. CASE sends[s][i].line # 1
            BY <6>1, <6>2, <6>3, <6>4, <6>6
          <6>. QED BY <6>5, <6>6
        <5>3. Right(sends'[s], Len(sends[s]) + 1)
          <6>1. CASE line[t] = 1
            <7>1. \A j \in 1 .. Len(sends[s]) : sends[s][j].of # turn[t]
              BY <4>1, <6>1 DEF StandsAt, SentFor
            <7>. QED BY <4>4, <4>5, <6>1, <7>1
          <6>2. CASE line[t] # 1
            <7>1. /\ sends[s] # <<>>
                  /\ sends[s][Len(sends[s])].line = line[t] - 1
                  /\ sends[s][Len(sends[s])].of = turn[t]
              BY <4>1, <6>2 DEF StandsAt, LastSent
            <7>2. Len(sends[s]) > 0
              BY <4>3, <4>4, <7>1
            <7>. QED BY <4>4, <4>5, <6>2, <7>1, <7>2
          <6>. QED BY <6>1, <6>2
        <5>4. \A i \in 1 .. Len(sends'[s]) :
                i \in 1 .. Len(sends[s]) \/ i = Len(sends[s]) + 1
          BY <4>4
        <5>5. \A r \in Streams : \A i \in 1 .. Len(sends'[r]) :
                Right(sends'[r], i)
          <6> HIDE DEF Right
          <6>. QED BY <4>3, <5>1, <5>2, <5>3, <5>4
        <5>. QED BY <5>5 DEF LinesInOrder
      <4>7. LockInv'
        BY <4>1 DEF OrderInv, LockInv, InSendFrame
      <4>8. Turns'
        BY <4>1 DEF OrderInv, Turns
      <4>9. Senders'
        <5>1. ASSUME NEW r \in Streams, NEW i \in 1 .. Len(sends[r])
              PROVE  \E u \in Threads : /\ pc'[u] \in Entered /\ owner[u] = r
                                        /\ turn[u] = sends[r][i].of
          BY <4>1 DEF OrderInv, Senders, Entered, InSendFrame, Ended
        <5>2. /\ pc'[t] \in Entered /\ owner[t] = s
              /\ turn[t] = sends'[s][Len(sends[s]) + 1].of
          BY <4>1, <4>4, <4>5 DEF Entered, InSendFrame
        <5>3. \A i \in 1 .. Len(sends'[s]) :
                i \in 1 .. Len(sends[s]) \/ i = Len(sends[s]) + 1
          BY <4>4
        <5>4. ASSUME NEW r \in Streams, NEW i \in 1 .. Len(sends'[r])
              PROVE  \E u \in Threads : /\ pc'[u] \in Entered /\ owner[u] = r
                                        /\ turn[u] = sends'[r][i].of
          <6>1. CASE r = s /\ i \in 1 .. Len(sends[s])
            BY <4>4, <5>1, <6>1
          <6>3. CASE r = s /\ i = Len(sends[s]) + 1
            BY <5>2, <6>3
          <6>2. CASE r # s
            BY <4>3, <5>1, <6>2
          <6>. QED BY <5>3, <6>1, <6>2, <6>3
        <5>. QED BY <4>1, <5>4 DEF Senders
      <4>10. Position'
        <5> SUFFICES ASSUME NEW u \in Threads, pc'[u] \in InSendFrame
                     PROVE  StandsAt(u)'
          BY DEF Position
        <5>1. CASE u = t
          <6>1. /\ line'[t] = line[t] + 1 /\ owner'[t] = s /\ turn'[t] = turn[t]
                /\ line[t] + 1 # 1 /\ (line[t] + 1) - 1 = line[t]
            BY <4>1
          <6>2. sends'[s][Len(sends'[s])] = LinePacket(t)
            BY <4>4
          <6>. QED BY <4>4, <4>5, <5>1, <6>1, <6>2 DEF StandsAt, LastSent
        <5>2. CASE u # t
          <6>1. pc[u] \in InSendFrame /\ owner[u] \in Streams \ {s}
            BY <4>1, <4>2, <5>2 DEF TypeOK
          <6>2. StandsAt(u) /\ sends'[owner[u]] = sends[owner[u]]
            BY <4>3, <6>1 DEF OrderInv, Position
          <6>. QED BY <4>1, <5>2, <6>2 DEF StandsAt, SentFor, LastSent
        <5>. QED BY <5>1, <5>2
      <4>. QED BY <4>6, <4>7, <4>8, <4>9, <4>10 DEF OrderInv
    <3>5. CASE SendNothing(t)
      <4>1. /\ UNCHANGED <<owner, line, turn, passed, sends>>
            /\ pc[t] \in InSendFrame /\ "cut" \in Entered /\ "cut" \in Ended
            /\ pc' = [pc EXCEPT ![t] = "cut"]
            /\ mutex' = [mutex EXCEPT ![owner[t]] = NoThread]
        BY <3>5 DEF SendNothing, Released, clientVars, InSendFrame, Ended,
                    Entered
      <4>. QED BY <4>1, OrderMove
    <3>6. CASE UseAfterFree(t)
      BY <3>6, OrderStutter DEF UseAfterFree, threadVars, clientVars, wireVars
    <3>. QED BY <2>2, <3>1, <3>2, <3>3, <3>4, <3>5, <3>6 DEF TransmitThread
  <2>3. CASE UNCHANGED vars
    BY <2>3, OrderStutter DEF vars, threadVars, clientVars, wireVars
  <2>. QED BY <2>1, <2>2, <2>3 DEF Next
<1>. QED BY <1>1, <1>2, TypeCorrect, PTL DEF Spec

(* The packets of a call form one run of lines 1, 2, 3, ... of its stream,   *)
(* whatever the number of detached threads waiting on its mutex and however  *)
(* SetStreamInfo changes the height under them.                              *)
THEOREM FramesSerialised == Spec => []LinesInOrder
<1>1. OrderInv => LinesInOrder
  BY DEF OrderInv
<1>. QED BY <1>1, OrderInvariant, PTL
-----------------------------------------------------------------------------
(* A thread serves one of its stream's calls; when that call is blocking the *)
(* client is waiting for this thread, so nobody has changed the frame or the *)
(* settings.                                                                 *)
Running(t) == pc[t] \notin {"none"} \cup Ended
Served(t) == passed[owner[t]][turn[t]]
Waited(t) == Served(t).blocking

WaitedFor(t) ==
  /\ caller[owner[t]] = t
  /\ alive[owner[t]]
  /\ rgb_frame[owner[t]] = Served(t).frame
  /\ egress[owner[t]].height = Served(t).height
  /\ pc[t] \in InBody => line[t] <= Served(t).height
  /\ pc[t] \in {"header", "increment", "send"} =>
       last[t] = (line[t] = Served(t).height)
Serving == \A t \in Threads : Running(t) /\ Waited(t) => WaitedFor(t)

(* The packet is one that a blocking call means to send. *)
Meant(packet, call) ==
  call.blocking => /\ packet.frame = call.frame
                   /\ packet.row = packet.line
                   /\ packet.line <= call.height
                   /\ packet.marker = (packet.line = call.height)
SentInv ==
  \A s \in Streams : \A i \in 1 .. Len(sends[s]) :
    /\ sends[s][i].of \in 1 .. Len(passed[s])
    /\ Meant(sends[s][i], passed[s][sends[s][i].of])

(* A blocking call whose thread ran to its end has its last line on the wire. *)
Completed(t) ==
  \E i \in 1 .. Len(sends[owner[t]]) :
    /\ sends[owner[t]][i].of = turn[t]
    /\ sends[owner[t]][i].line = Served(t).height
DoneInv == \A t \in Threads :
  pc[t] = "done" /\ Waited(t) /\ Served(t).height > 0 => Completed(t)

BlockingInv == Serving /\ SentInv /\ DoneInv

(* A client that waits for no thread has no blocking call pending.           *)
LEMMA NobodyWaited ==
  ASSUME PayloaderAssumption, BlockingInv, NEW s \in Streams,
         caller[s] = NoThread \/ pc[caller[s]] \in Ended
  PROVE  \A t \in Threads : Running(t) /\ owner[t] = s => ~Waited(t)
BY DEF BlockingInv, Serving, WaitedFor, Running, PayloaderAssumption

LEMMA BlockingInvariant == Spec => []BlockingInv
<1> USE PayloaderAssumption
<1>1. Init => BlockingInv
  BY DEF Init, BlockingInv, Serving, SentInv, DoneInv, Running
<1>2. TypeOK /\ OrderInv /\ BlockingInv /\ [Next]_vars => BlockingInv'
  <2> SUFFICES ASSUME TypeOK, OrderInv, BlockingInv, [Next]_vars
               PROVE  BlockingInv'
    OBVIOUS
  <2>1. ASSUME NEW s \in Streams, Client(s) PROVE BlockingInv'
    <3>1. CASE Open(s) \/ Close(s)
      BY <3>1 DEF Open, Close, BlockingInv, Serving, SentInv, DoneInv, Running,
                  Waited, Served, WaitedFor, Completed, threadVars
    <3>2. CASE \/ \E settings \in Settings : SetStreamInfo(s, settings)
               \/ \E f \in Frames : TransmitRefused(s, f)
               \/ TransmitReturns(s) \/ Destroy(s)
      <4>1. \A t \in Threads : Running(t) /\ owner[t] = s => ~Waited(t)
        BY <3>2, NobodyWaited
           DEF SetStreamInfo, TransmitRefused, TransmitReturns, Destroy, Free
      <4>2. /\ UNCHANGED <<threadVars, passed, sends>>
            /\ \A r \in Streams \ {s} : /\ caller'[r] = caller[r]
                                        /\ alive'[r] = alive[r]
                                        /\ rgb_frame'[r] = rgb_frame[r]
                                        /\ egress'[r] = egress[r]
        BY <3>2 DEF SetStreamInfo, TransmitRefused, TransmitReturns, Destroy,
                    TypeOK
      <4>3. owner \in [Threads -> Streams]
        BY DEF TypeOK
      <4>4. Serving'
        BY <4>1, <4>2, <4>3 DEF BlockingInv, Serving, Running, Waited, Served,
                                WaitedFor, threadVars
      <4>5. SentInv' /\ DoneInv'
        BY <4>2 DEF BlockingInv, SentInv, DoneInv, Waited, Served, Completed,
                    threadVars
      <4>. QED BY <4>4, <4>5 DEF BlockingInv
    <3>3. ASSUME NEW f \in Frames, NEW b \in Blocking, NEW t \in Threads,
                 Transmit(s, f, b, t)
          PROVE  BlockingInv'
      <4> DEFINE call == [frame |-> f, blocking |-> b,
                          height |-> egress[s].height]
      <4>1. \A u \in Threads : Running(u) /\ owner[u] = s => ~Waited(u)
        BY <3>3, NobodyWaited DEF Transmit, Free
      <4>2. /\ passed'[s] = Append(passed[s], call)
            /\ rgb_frame'[s] = f
            /\ caller'[s] = JoinedBy(t, b)
            /\ alive[s]
            /\ UNCHANGED <<egress, alive, line, last, sends>>
        BY <3>3 DEF Transmit, Free, TypeOK
      <4>3. \A r \in Streams \ {s} : /\ passed'[r] = passed[r]
                                     /\ rgb_frame'[r] = rgb_frame[r]
                                     /\ caller'[r] = caller[r]
        BY <3>3 DEF Transmit, TypeOK
      <4>4. /\ owner'[t] = s /\ turn'[t] = Len(passed[s]) + 1 /\ pc'[t] = "lock"
            /\ \A u \in Threads \ {t} : /\ pc'[u] = pc[u]
                                        /\ owner'[u] = owner[u]
                                        /\ turn'[u] = turn[u]
        BY <3>3 DEF Transmit, TypeOK
      <4>5. /\ passed[s] \in Seq(Argument) /\ call \in Argument
        BY DEF TypeOK, Argument, Egress
      <4>6. /\ Len(passed'[s]) = Len(passed[s]) + 1 /\ Len(passed[s]) \in Nat
            /\ passed'[s][Len(passed[s]) + 1] = call
            /\ \A i \in 1 .. Len(passed[s]) : passed'[s][i] = passed[s][i]
        BY <4>2, <4>5
      <4>7. \A u \in Threads \ {t} : pc[u] # "none" =>
              /\ owner[u] \in Streams
              /\ turn[u] \in 1 .. Len(passed[owner[u]])
              /\ passed'[owner[u]][turn[u]] = passed[owner[u]][turn[u]]
        BY <4>3, <4>6 DEF OrderInv, Turns, TypeOK
      <4>8. Serving'
        <5> SUFFICES ASSUME NEW u \in Threads, (Running(u) /\ Waited(u))'
                     PROVE  WaitedFor(u)'
          BY DEF Serving
        <5>1. CASE u = t
          <6>1. Served(t)' = call
            BY <4>4, <4>6 DEF Served
          <6>2. b /\ caller'[s] = t
            BY <4>2, <5>1, <6>1 DEF Waited, JoinedBy
          <6>3. pc'[t] \notin InBody /\ pc'[t] \notin {"header", "increment", "send"}
            BY <4>4 DEF InBody, InSendFrame
          <6>. QED BY <4>2, <4>4, <5>1, <6>1, <6>2, <6>3 DEF WaitedFor
        <5>2. CASE u # t
          <6>1. Running(u) /\ Served(u)' = Served(u)
            BY <4>4, <4>7, <5>2 DEF Running, Served
          <6>2. Waited(u) /\ WaitedFor(u)
            BY <6>1 DEF Waited, BlockingInv, Serving
          <6>3. owner[u] \in Streams \ {s}
            BY <4>1, <6>1, <6>2 DEF TypeOK
          <6>. QED BY <4>2, <4>3, <4>4, <5>2, <6>1, <6>2, <6>3 DEF WaitedFor
        <5>. QED BY <5>1, <5>2
      <4>9. SentInv'
        <5> SUFFICES ASSUME NEW r \in Streams, NEW i \in 1 .. Len(sends[r])
                     PROVE  /\ sends[r][i].of \in 1 .. Len(passed'[r])
                            /\ Meant(sends[r][i], passed'[r][sends[r][i].of])
          BY <4>2 DEF SentInv
        <5>1. /\ sends[r][i].of \in 1 .. Len(passed[r])
              /\ Meant(sends[r][i], passed[r][sends[r][i].of])
          BY DEF BlockingInv, SentInv
        <5>2. CASE r = s
          BY <4>6, <5>1, <5>2
        <5>3. CASE r # s
          BY <4>3, <5>1, <5>3
        <5>. QED BY <5>2, <5>3
      <4>10. DoneInv'
        <5> SUFFICES ASSUME NEW u \in Threads, pc'[u] = "done", Waited(u)',
                            Served(u)'.height > 0
                     PROVE  Completed(u)'
          BY DEF DoneInv
        <5>1. u # t /\ pc[u] = "done"
          BY <4>4
        <5>2. Served(u)' = Served(u)
          BY <4>4, <4>7, <5>1 DEF Served
        <5>3. Completed(u)
          BY <5>1, <5>2 DEF BlockingInv, DoneInv, Waited
        <5>. QED BY <4>2, <4>4, <5>1, <5>2, <5>3 DEF Completed
      <4>. QED BY <4>8, <4>9, <4>10 DEF BlockingInv
    <3>. QED BY <2>1, <3>1, <3>2, <3>3 DEF Client
  <2>2. ASSUME NEW t \in Threads, TransmitThread(t) PROVE BlockingInv'
    <3>1. UNCHANGED <<clientVars, owner, turn>>
      BY <2>2 DEF TransmitThread, EnterSendFrame, LoopTest, TestLast,
                  UpdateHeader, IncrementSequence, SendLine, SendNothing,
                  UseAfterFree, threadVars
    <3>2. \A u \in Threads : /\ Served(u)' = Served(u)
                             /\ Waited(u)' = Waited(u)
      BY <3>1 DEF Served, Waited, clientVars
    <3>3. CASE \/ EnterSendFrame(t) \/ LoopTest(t) \/ TestLast(t)
               \/ UpdateHeader(t) \/ IncrementSequence(t) \/ SendNothing(t)
      <4>1. UNCHANGED sends /\ pc[t] \notin {"none"} \cup Ended
        BY <3>3 DEF EnterSendFrame, LoopTest, TestLast, UpdateHeader,
                    IncrementSequence, SendNothing, Ended
      <4>2. \A u \in Threads \ {t} : /\ pc'[u] = pc[u] /\ line'[u] = line[u]
                                     /\ last'[u] = last[u]
        BY <3>3 DEF EnterSendFrame, LoopTest, TestLast, UpdateHeader,
                    IncrementSequence, SendNothing, TypeOK
      <4>3. SentInv'
        BY <3>1, <4>1 DEF BlockingInv, SentInv, clientVars
      <4>4. ASSUME Running(t)', Waited(t) PROVE WaitedFor(t)'
        <5>1. WaitedFor(t)
          BY <4>1, <4>4 DEF BlockingInv, Serving, Running
        <5>2. CASE EnterSendFrame(t)
          BY <3>1, <3>2, <5>1, <5>2
             DEF EnterSendFrame, WaitedFor, InBody, InSendFrame, clientVars, TypeOK
        <5>3. CASE LoopTest(t)
          <6>1. /\ UNCHANGED <<line, last>>
                /\ pc'[t] \in {"last", "done"}
                /\ pc'[t] = "last" => line[t] <= egress[owner[t]].height
            BY <5>3 DEF LoopTest, LoopOn, TypeOK
          <6>. QED BY <3>1, <3>2, <5>1, <6>1
                   DEF WaitedFor, InBody, InSendFrame, clientVars
        <5>4. CASE TestLast(t)
          <6>1. /\ UNCHANGED line
                /\ pc[t] = "last" /\ pc'[t] = "header"
                /\ last'[t] = (line[t] = egress[owner[t]].height)
            BY <5>4 DEF TestLast, TypeOK
          <6>. QED BY <3>1, <3>2, <5>1, <6>1
                   DEF WaitedFor, InBody, InSendFrame, clientVars
        <5>5. CASE UpdateHeader(t) \/ IncrementSequence(t)
          <6>1. /\ UNCHANGED <<line, last>>
                /\ pc[t] \in {"header", "increment"}
                /\ pc'[t] \in {"increment", "send"}
            BY <5>5 DEF UpdateHeader, IncrementSequence, TypeOK
          <6>. QED BY <3>1, <3>2, <5>1, <6>1
                   DEF WaitedFor, InBody, InSendFrame, clientVars
        <5>6. CASE SendNothing(t)
          BY <4>4, <5>6 DEF SendNothing, Running, Ended, TypeOK
        <5>. QED BY <3>3, <5>2, <5>3, <5>4, <5>5, <5>6
      <4>5. Serving'
        <5> SUFFICES ASSUME NEW u \in Threads, Running(u)', Waited(u)'
                     PROVE  WaitedFor(u)'
          BY DEF Serving
        <5>1. CASE u = t
          BY <3>2, <4>4, <5>1
        <5>2. CASE u # t
          <6>1. WaitedFor(u)
            BY <3>2, <4>2, <5>2 DEF BlockingInv, Serving, Running
          <6>. QED BY <3>1, <3>2, <4>2, <5>2, <6>1 DEF WaitedFor, clientVars
        <5>. QED BY <5>1, <5>2
      <4>6. DoneInv'
        <5> SUFFICES ASSUME NEW u \in Threads, pc'[u] = "done", Waited(u),
                            Served(u).height > 0
                     PROVE  Completed(u)
          BY <3>1, <3>2, <4>1 DEF DoneInv, Completed
        <5>1. CASE u # t
          BY <4>2, <5>1 DEF BlockingInv, DoneInv
        <5>2. CASE u = t
          <6>1. /\ pc[t] = "test"
                /\ ~(line[t] <= egress[owner[t]].height)
            BY <3>3, <5>2 DEF EnterSendFrame, LoopTest, TestLast, UpdateHeader,
                              IncrementSequence, SendNothing, LoopOn, TypeOK
          <6>2. egress[owner[t]].height = Served(t).height
            BY <4>1, <5>2 DEF BlockingInv, Serving, WaitedFor, Running
          <6>3. /\ owner[t] \in Streams
                /\ line[t] \in Nat
                /\ egress[owner[t]].height \in Nat
                /\ sends[owner[t]] \in Seq(Packet)
            BY DEF TypeOK, Egress, PayloaderAssumption
          <6>4. line[t] # 1
            BY <5>2, <6>1, <6>2, <6>3
          <6>5. /\ sends[owner[t]] # <<>>
                /\ LastSent(owner[t]).line = line[t] - 1
                /\ LastSent(owner[t]).of = turn[t]
            BY <6>1, <6>4 DEF OrderInv, Position, StandsAt, InSendFrame
          <6>6. Len(sends[owner[t]]) \in 1 .. Len(sends[owner[t]])
            BY <6>3, <6>5
          <6>7. LastSent(owner[t]).line <= Served(t).height
            BY <5>2, <6>3, <6>5, <6>6
               DEF BlockingInv, SentInv, Meant, LastSent, Served, Waited
          <6>8. line[t] - 1 = Served(t).height
            BY <6>1, <6>2, <6>3, <6>5, <6>7
          <6>. QED BY <5>2, <6>5, <6>6, <6>8 DEF Completed, LastSent
        <5>. QED BY <5>1, <5>2
      <4>. QED BY <4>3, <4>5, <4>6 DEF BlockingInv
    <3>4. CASE SendLine(t)
      <4> DEFINE s == owner[t]
      <4>1. /\ s \in Streams
            /\ pc[t] = "send" /\ Running(t)
            /\ turn[t] \in 1 .. Len(passed[s])
            /\ UNCHANGED last
            /\ \A u \in Threads :
                 /\ pc'[u] = IF u = t THEN "test" ELSE pc[u]
                 /\ line'[u] = IF u = t THEN line[t] + 1 ELSE line[u]
        BY <3>4 DEF SendLine, OrderInv, Turns, TypeOK, Running, Ended
      <4>2. Serving'
        <5>1. \A u \in Threads : Running(u)' => Running(u)
          BY <4>1 DEF Running
        <5>. QED BY <3>1, <3>2, <4>1, <5>1
                 DEF BlockingInv, Serving, WaitedFor, clientVars, InBody,
                     InSendFrame
      <4>3. /\ sends[s] \in Seq(Packet)
            /\ sends'[s] = Append(sends[s], LinePacket(t))
            /\ \A r \in Streams \ {s} : sends'[r] = sends[r]
        BY <3>4, <4>1 DEF SendLine, TypeOK
      <4>4. /\ Len(sends'[s]) = Len(sends[s]) + 1 /\ Len(sends[s]) \in Nat
            /\ sends'[s][Len(sends[s]) + 1] = LinePacket(t)
            /\ \A i \in 1 .. Len(sends[s]) : sends'[s][i] = sends[s][i]
        BY <4>3
      <4>5. Meant(LinePacket(t), Served(t)) /\ LinePacket(t).of = turn[t]
        <5>1. Waited(t) => WaitedFor(t)
          BY <4>1 DEF BlockingInv, Serving
        <5>. QED BY <4>1, <5>1
                 DEF Meant, LinePacket, WaitedFor, Waited, InBody, InSendFrame
      <4>6. SentInv'
        <5> SUFFICES ASSUME NEW r \in Streams, NEW i \in 1 .. Len(sends'[r])
                     PROVE  /\ sends'[r][i].of \in 1 .. Len(passed[r])
                            /\ Meant(sends'[r][i], passed[r][sends'[r][i].of])
          BY <3>1 DEF SentInv, clientVars
        <5>1. ASSUME NEW j \in 1 .. Len(sends[r])
              PROVE  /\ sends[r][j].of \in 1 .. Len(passed[r])
                     /\ Meant(sends[r][j], passed[r][sends[r][j].of])
          BY DEF BlockingInv, SentInv
        <5>2. CASE r = s /\ i \in 1 .. Len(sends[s])
          BY <4>4, <5>1, <5>2
        <5>3. CASE r = s /\ i = Len(sends[s]) + 1
          BY <4>1, <4>4, <4>5, <5>3 DEF Served
        <5>4. CASE r # s
          BY <4>3, <5>1, <5>4
        <5>5. r = s => i \in 1 .. Len(sends[s]) \/ i = Len(sends[s]) + 1
          BY <4>4
        <5>. QED BY <5>2, <5>3, <5>4, <5>5
      <4>7. DoneInv'
        <5> SUFFICES ASSUME NEW u \in Threads, pc[u] = "done", Waited(u),
                            Served(u).height > 0
                     PROVE  Completed(u)'
          BY <3>2, <4>1 DEF DoneInv
        <5>1. PICK i \in 1 .. Len(sends[owner[u]]) :
                /\ sends[owner[u]][i].of = turn[u]
                /\ sends[owner[u]][i].line = Served(u).height
          BY DEF BlockingInv, DoneInv, Completed
        <5>2. owner[u] \in Streams
          BY DEF TypeOK
        <5>3. i \in 1 .. Len(sends'[owner[u]]) /\ sends'[owner[u]][i] = sends[owner[u]][i]
          BY <4>3, <4>4, <5>2
        <5>. QED BY <3>1, <3>2, <5>1, <5>3 DEF Completed
      <4>. QED BY <4>2, <4>6, <4>7 DEF BlockingInv
    <3>5. CASE UseAfterFree(t)
      BY <3>5 DEF UseAfterFree, clientVars, threadVars, BlockingInv, Serving,
                  SentInv, DoneInv, Running, Waited, Served, WaitedFor,
                  Completed
    <3>. QED BY <2>2, <3>3, <3>4, <3>5 DEF TransmitThread
  <2>3. CASE UNCHANGED vars
    BY <2>3 DEF vars, clientVars, threadVars, BlockingInv, Serving, SentInv,
                DoneInv, Running, Waited, Served, WaitedFor, Completed
  <2>. QED BY <2>1, <2>2, <2>3 DEF Next
<1>. QED BY <1>1, <1>2, TypeCorrect, OrderInvariant, PTL DEF Spec

(* A blocking Transmit sends its own frame, row n of it as line n and so the *)
(* memory behind it as the last line, and returns behind that line.          *)
THEOREM BlockingFrames == Spec => []BlockingSendsItsFrame
<1>1. BlockingInv => BlockingSendsItsFrame
  BY DEF BlockingInv, SentInv, Meant, DoneInv, Waited, Served, Completed,
         BlockingSendsItsFrame
<1>. QED BY <1>1, BlockingInvariant, PTL

(* The thread of a blocking Transmit never runs on a destroyed stream.       *)
THEOREM BlockingThreads == Spec => []NoThreadOutlivesStream
<1>1. BlockingInv => NoThreadOutlivesStream
  BY DEF BlockingInv, Serving, Running, WaitedFor, Waited, Served,
         NoThreadOutlivesStream
<1>. QED BY <1>1, BlockingInvariant, PTL
-----------------------------------------------------------------------------
(* No other stream has been given a frame. *)
Alone(s) == \A r \in Streams \ {s} : passed[r] = <<>>

(* A sendto of stream s gave 0. *)
HasCut(s) == \E t \in Threads : owner[t] = s /\ pc[t] = "cut"

(* Number n comes next on the wire of stream s. *)
Follows(s, n) ==
  sends[s] = <<>> \/ n = (LastSent(s).seq + 1) % SequenceModulus

ConsecutiveOn(s) ==
  \A i \in 2 .. Len(sends[s]) :
    \/ sends[s][i].seq = (sends[s][i - 1].seq + 1) % SequenceModulus
    \/ sends[s][i].line = 1 /\ HasCut(s)

(* Number n may come next: at the start of a frame a gap may lie before it.  *)
MayFollow(s, n) ==
  \/ Follows(s, n)
  \/ HasCut(s) /\ \A t \in Threads : pc[t] \in InSendFrame => line[t] = 1

(* The counter of a stream that is alone with it is one ahead of the wire,   *)
(* or of the header of the packet that is about to be sent.                  *)
CounterFollows(s) ==
  /\ ConsecutiveOn(s)
  /\ \A t \in Threads :
       /\ pc[t] = "increment" => protocol[t] = sequence_number
       /\ pc[t] = "send" =>
            /\ MayFollow(s, protocol[t])
            /\ sequence_number = (protocol[t] + 1) % SequenceModulus
  /\ (\A t \in Threads : pc[t] # "send") => MayFollow(s, sequence_number)

SequenceInv == \A s \in Streams : Alone(s) => CounterFollows(s)

(* The threads inside SendFrame then all belong to s, so there is but one.   *)
LEMMA OneInSendFrame ==
  ASSUME TypeOK, OrderInv, NEW s \in Streams, Alone(s),
         NEW t \in Threads, Running(t)
  PROVE  /\ owner[t] = s
         /\ pc[t] \in InSendFrame =>
              \A u \in Threads \ {t} : pc[u] \notin InSendFrame
<1>1. ASSUME NEW u \in Threads, Running(u) PROVE owner[u] = s
  <2>1. owner[u] \in Streams /\ turn[u] \in 1 .. Len(passed[owner[u]])
    BY <1>1 DEF TypeOK, OrderInv, Turns, Running
  <2>2. passed[owner[u]] # <<>>
    BY <2>1
  <2>. QED BY <2>1, <2>2 DEF Alone
<1>2. \A u \in Threads : pc[u] \in InSendFrame => owner[u] = s /\ mutex[s] = u
  BY <1>1 DEF OrderInv, LockInv, InSendFrame, Running, Ended
<1>. QED BY <1>1, <1>2

LEMMA SequenceInvariant == Spec => []SequenceInv
<1> USE PayloaderAssumption DEF PayloaderAssumption
<1>1. Init => SequenceInv
  BY DEF Init, SequenceInv, CounterFollows, ConsecutiveOn, MayFollow, Follows
<1>2. TypeOK /\ OrderInv /\ SequenceInv /\ [Next]_vars => SequenceInv'
  <2> SUFFICES ASSUME TypeOK, OrderInv, SequenceInv, [Next]_vars,
                      NEW s \in Streams, Alone(s)'
               PROVE  CounterFollows(s)'
    BY DEF SequenceInv
  <2>1. ASSUME NEW r \in Streams, Client(r) PROVE CounterFollows(s)'
    <3>1. CASE UNCHANGED <<passed, threadVars, sends, sequence_number>>
      BY <3>1 DEF SequenceInv, Alone, CounterFollows, ConsecutiveOn, MayFollow,
                  Follows, HasCut, LastSent, threadVars
    <3>2. ASSUME NEW f \in Frames, NEW b \in Blocking, NEW t \in Threads,
                 Transmit(r, f, b, t)
          PROVE  CounterFollows(s)'
      <4> DEFINE call == [frame |-> f, blocking |-> b,
                          height |-> egress[r].height]
      <4>1. /\ UNCHANGED <<sends, sequence_number, protocol, line>>
            /\ pc[t] = "none" /\ pc' = [pc EXCEPT ![t] = "lock"]
            /\ \A u \in Threads \ {t} : owner'[u] = owner[u]
            /\ \A q \in Streams \ {r} : passed'[q] = passed[q]
            /\ passed'[r] = Append(passed[r], call)
            /\ passed[r] \in Seq(Argument)
            /\ call \in Argument
        BY <3>2 DEF Transmit, TypeOK, Argument, Egress
      <4>2. passed'[r] # <<>>
        BY <4>1
      <4>3. Alone(s)
        BY <4>1, <4>2 DEF Alone
      <4>4. \A u \in Threads : /\ pc'[u] = "increment" <=> pc[u] = "increment"
                               /\ pc'[u] = "send" <=> pc[u] = "send"
                               /\ pc'[u] = "cut" <=> pc[u] = "cut"
                               /\ pc'[u] \in InSendFrame <=> pc[u] \in InSendFrame
        BY <4>1 DEF TypeOK, InSendFrame
      <4>5. HasCut(s)' <=> HasCut(s)
        BY <4>1, <4>4 DEF HasCut
      <4>. QED BY <4>1, <4>3, <4>4, <4>5
               DEF SequenceInv, CounterFollows, ConsecutiveOn, MayFollow,
                   Follows, LastSent
    <3>. QED BY <2>1, <3>1, <3>2
             DEF Client, SetStreamInfo, Open, Close, TransmitRefused,
                 TransmitReturns, Destroy
  <2>2. ASSUME NEW t \in Threads, TransmitThread(t) PROVE CounterFollows(s)'
    <3>1. UNCHANGED <<passed, owner>>
      BY <2>2 DEF TransmitThread, EnterSendFrame, LoopTest, TestLast,
                  UpdateHeader, IncrementSequence, SendLine, SendNothing,
                  UseAfterFree, clientVars, threadVars
    <3>2. Alone(s) /\ CounterFollows(s)
      BY <3>1 DEF Alone, SequenceInv
    <3>3. CASE EnterSendFrame(t)
      <4>1. /\ UNCHANGED <<sends, sequence_number, protocol>>
            /\ pc[t] = "lock"
            /\ \A u \in Threads : /\ pc'[u] = IF u = t THEN "test" ELSE pc[u]
                                  /\ line'[u] = IF u = t THEN 1 ELSE line[u]
        BY <3>3 DEF EnterSendFrame, TypeOK
      <4>2. HasCut(s)' <=> HasCut(s)
        BY <3>1, <4>1 DEF HasCut
      <4>3. \A n : MayFollow(s, n) => MayFollow(s, n)'
        BY <4>1, <4>2 DEF MayFollow, Follows, LastSent
      <4>. QED BY <3>2, <4>1, <4>2, <4>3 DEF CounterFollows, ConsecutiveOn
    <3>4. CASE LoopTest(t) \/ TestLast(t)
      <4>1. /\ UNCHANGED <<sends, sequence_number, protocol, line>>
            /\ pc[t] \in {"test", "last"}
            /\ \A u \in Threads : IF u = t THEN pc'[u] \in {"last", "done", "header"}
                                  ELSE pc'[u] = pc[u]
        BY <3>4 DEF LoopTest, TestLast, TypeOK
      <4>2. HasCut(s)' <=> HasCut(s)
        BY <3>1, <4>1 DEF HasCut
      <4>3. \A n : MayFollow(s, n) => MayFollow(s, n)'
        BY <4>1, <4>2 DEF MayFollow, Follows, LastSent, InSendFrame
      <4>. QED BY <3>2, <4>1, <4>2, <4>3 DEF CounterFollows, ConsecutiveOn
    <3>5. CASE UpdateHeader(t)
      <4>1. /\ UNCHANGED <<sends, sequence_number, line>>
            /\ pc[t] = "header"
            /\ \A u \in Threads :
                 /\ pc'[u] = IF u = t THEN "increment" ELSE pc[u]
                 /\ protocol'[u] = IF u = t THEN sequence_number
                                   ELSE protocol[u]
        BY <3>5 DEF UpdateHeader, TypeOK
      <4>2. HasCut(s)' <=> HasCut(s)
        BY <3>1, <4>1 DEF HasCut
      <4>3. \A n : MayFollow(s, n) => MayFollow(s, n)'
        BY <4>1, <4>2 DEF MayFollow, Follows, LastSent, InSendFrame
      <4>. QED BY <3>2, <4>1, <4>2, <4>3 DEF CounterFollows, ConsecutiveOn
    <3>6. CASE IncrementSequence(t)
      <4>1. /\ UNCHANGED <<sends, protocol, line>>
            /\ pc[t] = "increment" /\ pc[t] \in InSendFrame /\ Running(t)
            /\ \A u \in Threads : pc'[u] = IF u = t THEN "send" ELSE pc[u]
            /\ sequence_number' \in Incremented(t)
        BY <3>6 DEF IncrementSequence, TypeOK, Running, InSendFrame, Ended
      <4>2. \A u \in Threads \ {t} : pc[u] \notin InSendFrame
        BY <3>2, <4>1, OneInSendFrame
      <4>3. protocol[t] = sequence_number /\ MayFollow(s, protocol[t])
        BY <3>2, <4>1, <4>2 DEF CounterFollows, InSendFrame
      <4>4. sequence_number' = (protocol[t] + 1) % SequenceModulus
        BY <4>1, <4>3 DEF Incremented
      <4>5. HasCut(s)' <=> HasCut(s)
        BY <3>1, <4>1 DEF HasCut
      <4>6. \A n : MayFollow(s, n) => MayFollow(s, n)'
        BY <4>1, <4>5 DEF MayFollow, Follows, LastSent, InSendFrame
      <4>. QED BY <3>2, <4>1, <4>2, <4>3, <4>4, <4>5, <4>6
               DEF CounterFollows, ConsecutiveOn, InSendFrame
    <3>7. CASE SendLine(t)
      <4>1. /\ UNCHANGED <<sequence_number, protocol>>
            /\ pc[t] = "send" /\ pc[t] \in InSendFrame /\ Running(t)
            /\ \A u \in Threads : pc'[u] = IF u = t THEN "test" ELSE pc[u]
            /\ sends' = [sends EXCEPT ![owner[t]] =
                           Append(sends[owner[t]], LinePacket(t))]
        BY <3>7 DEF SendLine, TypeOK, Running, InSendFrame, Ended
      <4>2. /\ owner[t] = s
            /\ \A u \in Threads \ {t} : pc[u] \notin InSendFrame
        BY <3>2, <4>1, OneInSendFrame
      <4>3. LinePacket(t).seq = protocol[t] /\ LinePacket(t).line = line[t]
        BY DEF LinePacket
      <4>4. /\ sends[s] \in Seq(Packet)
            /\ sends'[s] = Append(sends[s], LinePacket(t))
        BY <4>1, <4>2 DEF TypeOK
      <4>5. /\ Len(sends'[s]) = Len(sends[s]) + 1 /\ Len(sends[s]) \in Nat
            /\ sends'[s] # <<>>
            /\ sends'[s][Len(sends[s]) + 1] = LinePacket(t)
            /\ \A i \in 1 .. Len(sends[s]) : sends'[s][i] = sends[s][i]
        BY <4>3, <4>4
      <4>6. /\ Follows(s, protocol[t]) \/ (line[t] = 1 /\ HasCut(s))
            /\ ConsecutiveOn(s)
            /\ sequence_number = (protocol[t] + 1) % SequenceModulus
        BY <3>2, <4>1 DEF CounterFollows, MayFollow
      <4>7. HasCut(s)' <=> HasCut(s)
        BY <3>1, <4>1 DEF HasCut
      <4>8. ConsecutiveOn(s)'
        <5> SUFFICES ASSUME NEW i \in 2 .. Len(sends'[s])
                     PROVE  \/ sends'[s][i].seq =
                                 (sends'[s][i - 1].seq + 1) % SequenceModulus
                            \/ sends'[s][i].line = 1 /\ HasCut(s)
          BY <4>7 DEF ConsecutiveOn
        <5>1. CASE i \in 2 .. Len(sends[s])
          <6>1. i \in 1 .. Len(sends[s]) /\ i - 1 \in 1 .. Len(sends[s])
            BY <4>5, <5>1
          <6>. QED BY <4>5, <4>6, <5>1, <6>1 DEF ConsecutiveOn
        <5>2. CASE i = Len(sends[s]) + 1
          <6>1. /\ i - 1 = Len(sends[s]) /\ i - 1 \in 1 .. Len(sends[s])
                /\ sends[s] # <<>>
            BY <4>4, <4>5, <5>2
          <6>. QED BY <4>3, <4>5, <4>6, <5>2, <6>1 DEF Follows, LastSent
        <5>. QED BY <4>5, <5>1, <5>2
      <4>9. Follows(s, sequence_number)'
        BY <4>1, <4>3, <4>5, <4>6 DEF Follows, LastSent
      <4>10. \A u \in Threads : pc'[u] \notin {"increment", "send"}
        BY <4>1, <4>2 DEF InSendFrame
      <4>. QED BY <4>8, <4>9, <4>10 DEF CounterFollows, MayFollow
    <3>8. CASE SendNothing(t)
      <4>1. /\ UNCHANGED <<sequence_number, protocol, sends, line>>
            /\ pc[t] \in InSendFrame /\ Running(t)
            /\ \A u \in Threads : pc'[u] = IF u = t THEN "cut" ELSE pc[u]
        BY <3>8 DEF SendNothing, TypeOK, Running, InSendFrame, Ended
      <4>2. /\ owner[t] = s
            /\ \A u \in Threads \ {t} : pc[u] \notin InSendFrame
        BY <3>2, <4>1, OneInSendFrame
      <4>3. HasCut(s)' /\ \A u \in Threads : pc'[u] \notin InSendFrame
        BY <3>1, <4>1, <4>2 DEF HasCut, InSendFrame
      <4>4. ConsecutiveOn(s)'
        BY <3>2, <4>1, <4>3 DEF CounterFollows, ConsecutiveOn
      <4>5. MayFollow(s, sequence_number)'
        BY <4>3 DEF MayFollow
      <4>. QED BY <4>3, <4>4, <4>5 DEF CounterFollows, InSendFrame
    <3>9. CASE UseAfterFree(t)
      BY <3>2, <3>9 DEF UseAfterFree, threadVars, CounterFollows,
                        ConsecutiveOn, MayFollow, Follows, HasCut, LastSent
    <3>. QED BY <2>2, <3>3, <3>4, <3>5, <3>6, <3>7, <3>8, <3>9
             DEF TransmitThread
  <2>3. CASE UNCHANGED vars
    BY <2>3 DEF vars, clientVars, threadVars, SequenceInv, Alone,
                CounterFollows, ConsecutiveOn, MayFollow, Follows, HasCut,
                LastSent
  <2>. QED BY <2>1, <2>2, <2>3 DEF Next
<1>. QED BY <1>1, <1>2, TypeCorrect, OrderInvariant, PTL DEF Spec

(* While no other stream uses the shared counter the packets of a stream are *)
(* numbered without a repetition, and without a gap but behind a frame that  *)
(* a sendto of 0 cut off, across the counter's wrap and with any number of   *)
(* blocking and detached threads.                                            *)
THEOREM NumbersConsecutive == Spec => []SequenceConsecutive
<1>1. SequenceInv => SequenceConsecutive
  BY DEF SequenceInv, Alone, CounterFollows, ConsecutiveOn, HasCut,
         SequenceConsecutive
<1>. QED BY <1>1, SequenceInvariant, PTL
=============================================================================
