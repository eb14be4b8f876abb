------------------------- MODULE SapDiscovery_proofs -------------------------
(***************************************************************************)
(* Proofs about SapListener for every number of sessions, every set of     *)
(* users and messages and every length of the socket's queue; and behind   *)
(* them about SapDiscovery, whose listener it is, for every set of         *)
(* streams.                                                                *)
(***************************************************************************)
EXTENDS SapDiscovery, TLAPS

Storing == {"address", "media", "deleted", "calling", "called"}

(* A thread that stores has a message; a client that copies has a session.   *)
TypeInv ==
  /\ TypeOK
  /\ pc \in Storing => sdp \in Messages
  /\ api = "copying" => argument.name \in Names
  /\ pc = "called" => position \in Names

(* What the thread assigns to an entry keeps it an entry. *)
LEMMA EntryStored ==
  ASSUME TypeInv, pc \in Storing, NEW to \in {"media", "deleted", "calling"},
         NEW from, NEW entry \in Entry, Store(from, to, entry),
         position' \in {position, AnySession}
  PROVE  TypeInv'
<1> USE ListenerAssumption
    DEF ListenerAssumption, Names, Sessions, AnySession, TypeInv, Storing
<1>1. sdp.session \in Names
  <2>1. sdp \in Message
    OBVIOUS
  <2>. QED BY <2>1 DEF Message
<1>2. announcements' \in [Names -> Entry]
  BY <1>1 DEF Store, TypeOK
<1>. QED BY <1>2 DEF Store, clientVars, TypeOK

LEMMA TypeInvariant == Spec => []TypeInv
<1> USE ListenerAssumption
    DEF ListenerAssumption, Names, Sessions, AnySession, Storing
<1>1. Init => TypeInv
  <2>1. Unknown \in Entry
    BY DEF Unknown, Entry
  <2>2. <<>> \in Seq(Messages \cup {Short, Malformed})
    OBVIOUS
  <2>3. /\ [n \in Names |-> Unknown] \in [Names -> Entry]
        /\ [n \in Names |-> 0] \in [Names -> 0 .. 2]
        /\ [n \in Names |-> Null] \in [Names -> Users \cup {Null}]
        /\ AnySession \in Names
    BY <2>1
  <2>. HIDE DEF Names
  <2>. QED BY <2>2, <2>3 DEF Init, TypeInv, TypeOK
<1>2. ASSUME TypeInv, [Next]_vars PROVE TypeInv'
  <2> USE <1>2 DEF TypeInv
  <2>1. ASSUME Call PROVE TypeInv'
    <3>1. CASE Start
      BY <3>1 DEF TypeOK, Start, clientVars
    <3>2. CASE Stop
      BY <3>2 DEF TypeOK, Stop, Joining, threadVars
    <3>3. ASSUME NEW n \in Names, NEW u \in Users, RegisterSapListener(n, u)
          PROVE  TypeInv'
      BY <3>3 DEF TypeOK, RegisterSapListener, threadVars
    <3>4. ASSUME NEW s \in Names, GetStreamInformation(s)
          PROVE  TypeInv'
      <4>1. announcements[s].addr \in Addresses \cup {Empty}
        BY DEF TypeOK, Entry
      <4>2. aborted' \in BOOLEAN
        BY <3>4 DEF TypeOK, GetStreamInformation, ReadsMap
      <4>. QED BY <3>4, <4>1, <4>2 DEF TypeOK, GetStreamInformation, threadVars
    <3>. QED BY <2>1, <3>1, <3>2, <3>3, <3>4 DEF Call
  <2>2. ASSUME Finish PROVE TypeInv'
    <3>1. CASE Registered
      BY <3>1 DEF TypeOK, Registered, threadVars
    <3>2. CASE StopReturns
      BY <3>2 DEF TypeOK, StopReturns
    <3>3. CASE GotStreamInformation
      <4>1. announcements[argument.name].media \in Medias \cup {Empty}
        BY <3>3 DEF TypeOK, GotStreamInformation, Entry
      <4>2. answer' \in [addr : Addresses \cup {Empty},
                         media : Medias \cup {Empty}]
        BY <3>3, <4>1 DEF TypeOK, GotStreamInformation
      <4>3. aborted' \in BOOLEAN
        BY <3>3 DEF TypeOK, GotStreamInformation, ReadsMap
      <4>. QED BY <3>3, <4>2, <4>3 DEF TypeOK, GotStreamInformation, threadVars
    <3>. QED BY <2>2, <3>1, <3>2, <3>3 DEF Finish
  <2>3. ASSUME ListenerThread PROVE TypeInv'
    <3>10. ASSUME socket # <<>>
           PROVE  Tail(socket) \in Seq(Messages \cup {Short, Malformed})
      <4>1. socket \in Seq(Messages \cup {Short, Malformed})
        BY DEF TypeOK
      <4>. HIDE ListenerAssumption, <1>2
      <4>. QED BY <3>10, <4>1
    <3>1. CASE LoopTop
      BY <3>1, <3>10 DEF TypeOK, LoopTop, clientVars
    <3>8. CASE ParseFails
      BY <3>8, <3>10 DEF TypeOK, ParseFails, threadVars, clientVars
    <3>9. CASE ParseMessage
      BY <3>9, <3>10 DEF TypeOK, ParseMessage, clientVars
    <3>2. pc \in Storing =>
            Stored \in Entry /\ sdp.addr \in Addresses
              /\ sdp.media \in Medias /\ sdp.deleted \in BOOLEAN
      BY DEF TypeOK, Stored, Message
    <3>3. CASE StoreAddress
      <4>1. pc \in Storing
        BY <3>3 DEF StoreAddress, Store
      <4>2. [Stored EXCEPT !.known = TRUE, !.addr = sdp.addr] \in Entry
        BY <3>2, <4>1 DEF Entry
      <4>. QED BY <3>3, <4>1, <4>2, EntryStored DEF StoreAddress
    <3>4. CASE StoreMedia
      <4>1. pc \in Storing
        BY <3>4 DEF StoreMedia, Store
      <4>2. [Stored EXCEPT !.media = sdp.media] \in Entry
        BY <3>2, <4>1 DEF Entry
      <4>. QED BY <3>4, <4>1, <4>2, EntryStored DEF StoreMedia
    <3>5. CASE StoreDeleted
      <4>1. pc \in Storing
        BY <3>5 DEF StoreDeleted, Store
      <4>2. [Stored EXCEPT !.deleted = DeletedFlag] \in Entry
        BY <3>2, <4>1 DEF Entry, DeletedFlag
      <4>. QED BY <3>5, <4>1, <4>2, EntryStored DEF StoreDeleted
    <3>6. CASE CallSession
      BY <3>6 DEF TypeOK, CallSession, CallBack, Visited, clientVars
    <3>11. CASE CallForAll
      BY <3>11 DEF TypeOK, CallForAll, CallBack, Visited, clientVars
    <3>7. CASE StoreEnds
      BY <3>7 DEF TypeOK, StoreEnds, clientVars
    <3>. QED BY <2>3, <3>1, <3>3, <3>4, <3>5, <3>6, <3>7, <3>8, <3>9, <3>11
              DEF ListenerThread
  <2>4. ASSUME NEW m \in Messages \cup {Short, Malformed}, Arrive(m)
        PROVE  TypeInv'
    BY <2>4 DEF TypeOK, Arrive, threadVars, clientVars
  <2>5. CASE UNCHANGED vars
    BY <2>5 DEF TypeOK, vars, threadVars, clientVars
  <2>. QED BY <2>1, <2>2, <2>3, <2>4, <2>5 DEF Next
<1>. QED BY <1>1, <1>2, PTL DEF Spec

(* The listener's variables are of their types. *)
THEOREM TypeCorrect == Spec => []TypeOK
<1>1. TypeInv => TypeOK
  BY DEF TypeInv
<1>. QED BY <1>1, TypeInvariant, PTL
-----------------------------------------------------------------------------
(* After Stop() has returned there is no listener thread (SapListener::Stop  *)
(* joins it): no callback runs and nothing is stored.                        *)
THEOREM Quiet == Spec => []QuietAfterStop
<1>1. Init => QuietAfterStop
  BY DEF Init, QuietAfterStop
<1>2. ASSUME QuietAfterStop, [Next]_vars PROVE QuietAfterStop'
  <2> USE <1>2 DEF QuietAfterStop
  <2>1. CASE Call
    BY <2>1 DEF Call, Start, Stop, Joining, RegisterSapListener,
                GetStreamInformation, threadVars
  <2>2. CASE Finish
    BY <2>2 DEF Finish, Registered, StopReturns, GotStreamInformation,
                threadVars
  <2>3. CASE ListenerThread
    BY <2>3 DEF ListenerThread, LoopTop, ParseMessage, ParseFails, StoreAddress,
                StoreMedia, StoreDeleted, Store, CallSession, CallForAll,
                StoreEnds, threadVars, clientVars
  <2>4. CASE \E m \in Messages \cup {Short, Malformed} : Arrive(m)
    BY <2>4 DEF Arrive, threadVars, clientVars
  <2>5. CASE UNCHANGED vars
    BY <2>5 DEF vars, threadVars, clientVars
  <2>. QED BY <2>1, <2>2, <2>3, <2>4, <2>5 DEF Next
<1>. QED BY <1>1, <1>2, PTL DEF Spec

-----------------------------------------------------------------------------
(* What StoreAddress, StoreMedia and StoreDeleted have assigned so far.      *)
StoredInv ==
  /\ pc \in {"media", "deleted", "calling", "called"} =>
       Stored.known = TRUE /\ Stored.addr = sdp.addr
  /\ pc \in {"deleted", "calling", "called"} => Stored.media = sdp.media
  /\ pc \in {"calling", "called"} => Stored.deleted = sdp.deleted

LEMMA StoredInvariant == Spec => []StoredInv
<1>1. Init => StoredInv
  BY DEF Init, StoredInv
<1>2. ASSUME TypeInv, StoredInv, [Next]_vars PROVE StoredInv'
  <2>1. ASSUME UNCHANGED <<announcements, sdp, pc>> PROVE StoredInv'
    BY <1>2, <2>1 DEF StoredInv, Stored
  <2>2. CASE Start
    BY <2>2 DEF Start, StoredInv
  <2>3. CASE StopReturns
    BY <2>3 DEF StopReturns, StoredInv
  <2>4. CASE LoopTop
    BY <2>4 DEF LoopTop, StoredInv
  <2>10. CASE ParseMessage
    BY <2>10 DEF ParseMessage, StoredInv
  <2>11. CASE CallSession
    BY <1>2, <2>11 DEF CallSession, StoredInv, Stored
  <2>12. CASE CallForAll
    BY <1>2, <2>12 DEF CallForAll, StoredInv, Stored
  <2>5. pc \in Storing => /\ sdp.session \in DOMAIN announcements
                          /\ Stored \in Entry
    <3>1. pc \in Storing => sdp \in Message
      BY <1>2, ListenerAssumption DEF TypeInv, ListenerAssumption
    <3>. QED BY <1>2, <3>1 DEF TypeInv, TypeOK, Message, Stored
  <2>6. CASE StoreAddress
    <3>1. /\ Stored' = [Stored EXCEPT !.known = TRUE, !.addr = sdp.addr]
          /\ pc' = "media" /\ sdp' = sdp
      BY <2>5, <2>6 DEF StoreAddress, Store, Stored, Storing
    <3>2. Stored \in Entry
      BY <2>5, <2>6 DEF StoreAddress, Store, Storing
    <3>3. Stored'.known = TRUE /\ Stored'.addr = sdp.addr
      BY <3>1, <3>2 DEF Entry
    <3>. QED BY <3>1, <3>3 DEF StoredInv
  <2>7. CASE StoreMedia
    <3>1. /\ Stored' = [Stored EXCEPT !.media = sdp.media]
          /\ pc = "media" /\ pc' = "deleted" /\ sdp' = sdp
      BY <2>5, <2>7 DEF StoreMedia, Store, Stored, Storing
    <3>2. Stored \in Entry
      BY <2>5, <3>1 DEF Storing
    <3>3. /\ Stored'.known = Stored.known /\ Stored'.addr = Stored.addr
          /\ Stored'.media = sdp.media
      BY <3>1, <3>2 DEF Entry
    <3>. QED BY <1>2, <3>1, <3>3 DEF StoredInv
  <2>8. CASE StoreDeleted
    <3>1. /\ Stored' = [Stored EXCEPT !.deleted = sdp.deleted]
          /\ pc = "deleted" /\ pc' = "calling" /\ sdp' = sdp
      BY <2>5, <2>8 DEF StoreDeleted, Store, Stored, Storing, DeletedFlag
    <3>2. Stored \in Entry
      BY <2>5, <3>1 DEF Storing
    <3>3. /\ Stored'.known = Stored.known /\ Stored'.addr = Stored.addr
          /\ Stored'.media = Stored.media /\ Stored'.deleted = sdp.deleted
      BY <3>1, <3>2 DEF Entry
    <3>. QED BY <1>2, <3>1, <3>3 DEF StoredInv
  <2>9. CASE StoreEnds
    BY <2>9 DEF StoreEnds, StoredInv
  <2>. QED
    BY <1>2, <2>1, <2>2, <2>3, <2>4, <2>6, <2>7, <2>8, <2>9,
       <2>10, <2>11, <2>12
    DEF Next, Call, Finish, ListenerThread, Stop, RegisterSapListener,
        GetStreamInformation, Registered, GotStreamInformation, ParseFails,
        Arrive, vars, threadVars
<1>. QED BY <1>1, <1>2, TypeInvariant, PTL DEF Spec

(* While callbacks run, the map holds the message they are given, whole      *)
(* (SapStore stores before it walks callbacks_).                             *)
THEOREM StoredFirst == Spec => []StoredBeforeCalled
<1>1. TypeInv /\ StoredInv => StoredBeforeCalled
  <2> SUFFICES ASSUME TypeInv, StoredInv, pc \in {"calling", "called"}
               PROVE  Stored = [known |-> TRUE, addr |-> sdp.addr,
                                media |-> sdp.media, deleted |-> sdp.deleted]
    BY DEF StoredBeforeCalled, Stored
  <2>1. sdp \in Message
    BY ListenerAssumption DEF TypeInv, ListenerAssumption, Storing
  <2>2. Stored \in Entry
    BY <2>1 DEF TypeInv, TypeOK, Message, Stored
  <2>3. /\ Stored.known = TRUE /\ Stored.addr = sdp.addr
        /\ Stored.media = sdp.media /\ Stored.deleted = sdp.deleted
    BY DEF StoredInv
  <2>. QED BY <2>2, <2>3 DEF Entry
<1>. QED BY <1>1, TypeInvariant, StoredInvariant, PTL
-----------------------------------------------------------------------------
(* The callbacks behind position have been made, those before it not yet; at *)
(* position itself the session's own, once the thread is past it.            *)
CallInv ==
  /\ api = "registering" => argument.user \in Users
  /\ \A n \in owed : callbacks[n] # Null /\ Matches(n, sdp)
  /\ pc \in {"address", "media", "deleted"} => \A n \in Names : told[n] = 0
  /\ pc \in {"calling", "called"} =>
       \A n \in Names : /\ n < position /\ n \in owed => told[n] = Due(n, sdp)
                        /\ n > position => told[n] = 0
                        /\ told[n] # 0 => Matches(n, sdp)
                        /\ told[n] <= Due(n, sdp)
  /\ pc = "calling" /\ position \in Names => told[position] = 0
  /\ pc = "called" =>
       told[position] = IF position = sdp.session THEN 1 ELSE 0

LEMMA CallInvariant == Spec => []CallInv
<1> USE ListenerAssumption DEF ListenerAssumption, Names, AnySession, Sessions
<1>1. Init => CallInv
  BY DEF Init, CallInv
<1>2. ASSUME TypeInv, CallInv, [Next]_vars PROVE CallInv'
  <2> USE <1>2 DEF CallInv, TypeInv, TypeOK
  <2>1. CASE \E n \in Names, u \in Users : RegisterSapListener(n, u)
    BY <2>1 DEF RegisterSapListener, threadVars, Matches, Due
  <2>2. CASE Registered
    BY <2>2 DEF Registered, threadVars, Matches, Due
  <2>3. CASE Start \/ Stop \/ StopReturns \/ StoreEnds
    BY <2>3 DEF Start, Stop, StopReturns, StoreEnds, Joining, threadVars,
                clientVars, Matches, Due
  <2>4. CASE \/ \E s \in Names : GetStreamInformation(s)
             \/ GotStreamInformation
             \/ \E m \in Messages \cup {Short, Malformed} : Arrive(m)
             \/ UNCHANGED vars
    BY <2>4 DEF GetStreamInformation, GotStreamInformation, Arrive, vars,
                threadVars, clientVars, Matches, Due
  <2>5. CASE LoopTop \/ ParseMessage \/ ParseFails
    BY <2>5 DEF LoopTop, ParseMessage, ParseFails, threadVars, clientVars,
                Matches, Due
  <2>6. CASE StoreAddress
    BY <2>6 DEF StoreAddress, Store, clientVars, Matches, Due
  <2>10. CASE StoreMedia
    BY <2>10 DEF StoreMedia, Store, clientVars, Matches, Due
  <2>7. CASE StoreDeleted
    <3>1. /\ pc = "deleted" /\ pc' = "calling" /\ position' = AnySession
          /\ UNCHANGED <<callbacks, sdp, owed, told, api, argument>>
      BY <2>7 DEF StoreDeleted, Store, clientVars
    <3>2. \A n \in Names : told[n] = 0
      BY <3>1
    <3>3. \A n \in Names : ~(n < AnySession) /\ Due(n, sdp) \in {1, 2}
      BY DEF Due
    <3>4. \A n \in owed : callbacks'[n] # Null /\ Matches(n, sdp')
      BY <3>1
    <3>. QED BY <3>1, <3>2, <3>3, <3>4 DEF Due
  <2>8. CASE CallSession
    BY <2>8 DEF CallSession, CallBack, Visited, clientVars, Matches, Due
  <2>9. CASE CallForAll
    BY <2>9 DEF CallForAll, CallBack, Visited, clientVars, Matches, Due
  <2>. QED BY <2>1, <2>2, <2>3, <2>4, <2>5, <2>6, <2>7, <2>8,
              <2>9, <2>10
           DEF Next, Call, Finish, ListenerThread
<1>. QED BY <1>1, <1>2, TypeInvariant, PTL DEF Spec

(* SapStore's loop makes each due callback exactly once and no other one,    *)
(* for any number of sessions, also while clients register; only the one for *)
(* all sessions is made twice for a message that names none.                 *)
THEOREM CalledOnce == Spec => []CalledOncePerMessage
<1>1. TypeInv /\ CallInv => CalledOncePerMessage
  <2> USE ListenerAssumption DEF ListenerAssumption, Names, AnySession
  <2> SUFFICES ASSUME TypeInv, CallInv, pc = "calling", position \notin Names,
                      NEW n \in Names
               PROVE  /\ n \in owed => told[n] = Due(n, sdp)
                      /\ told[n] # 0 => Matches(n, sdp)
                      /\ told[n] <= Due(n, sdp)
    BY DEF CalledOncePerMessage
  <2>1. position = LastSession + 1
    BY DEF TypeInv, TypeOK
  <2>2. n < position
    BY <2>1
  <2>. QED BY <2>2 DEF CallInv
<1>. QED BY <1>1, TypeInvariant, CallInvariant, PTL
-----------------------------------------------------------------------------
(* What the listener of SapDiscovery does is what SapListener allows: its    *)
(* theorems hold of it.                                                      *)
THEOREM DiscoveryListens == Discovery => Spec
<1>1. DiscoveryInit => Init /\ ~aborted
  BY DEF DiscoveryInit, Init
<1>2. ASSUME ~aborted, [DiscoveryNext]_everything
      PROVE  [Next]_vars /\ ~aborted'
  <2>1. ASSUME NEW k \in Keys, NEW deletion \in BOOLEAN,
               Delivered(k, deletion)
        PROVE  [Next]_vars /\ ~aborted'
    <3>1. Arrive(Packet(k, deletion)) /\ Packet(k, deletion) \in Messages
      BY <2>1, DiscoveryAssumption
      DEF Delivered, DiscoveryAssumption, Packets
    <3>. QED BY <1>2, <3>1 DEF Next, Arrive
  <2>2. CASE ListenerStep
    BY <1>2, <2>2 DEF ListenerStep, Next, Call
  <2>3. CASE UNCHANGED vars
    BY <1>2, <2>3 DEF vars
  <2>. QED
    BY <1>2, <2>1, <2>2, <2>3
    DEF DiscoveryNext, AnnouncerSilent, Lost, everything
<1>. QED BY <1>1, <1>2, PTL DEF Discovery, Spec

Queued(s) == \E i \in DOMAIN socket : socket[i].session = s

(* The youngest packet of the queue about s is the last on the air.          *)
NewestLast(s) ==
  \A i \in DOMAIN socket :
    \/ socket[i].session # s
    \/ socket[i] = aired[s]
    \/ \E j \in DOMAIN socket : i < j /\ socket[j].session = s

(* The thread holds a message about s that the map does not show whole.      *)
InHand(s) == pc \in {"address", "media", "deleted"} /\ sdp.session = s

(* The last word about a session is in the queue; or else in the thread's    *)
(* hands; or else in the map.                                                *)
Tracked(s) ==
  /\ NewestLast(s)
  /\ Queued(s) \/ (InHand(s) /\ sdp = aired[s])
               \/ (~InHand(s) /\ Shows(aired[s]))

TrackInv ==
  /\ aired \in [Sessions -> Packets \cup {NoMessage}]
  /\ socket \in Seq(Messages)
  /\ ~lost => \A s \in Sessions : aired[s].session = s => Tracked(s)

(* A step keeps Tracked(s) when it leaves the queue, the air and the hands   *)
(* of the thread alone, and changes the map's entry of s only while the      *)
(* thread has a message about s in hand.                                     *)
LEMMA TrackedElsewhere ==
  ASSUME NEW s \in Sessions, Tracked(s), UNCHANGED <<socket, sdp>>,
         aired'[s] = aired[s], InHand(s)' <=> InHand(s),
         aired[s].session = s,
         InHand(s) \/ announcements'[s] = announcements[s]
  PROVE  Tracked(s)'
<1>1. NewestLast(s)' /\ (Queued(s)' <=> Queued(s))
  BY DEF Tracked, NewestLast, Queued
<1>2. CASE InHand(s)
  BY <1>1, <1>2 DEF Tracked
<1>3. CASE ~InHand(s)
  <2>1. Shows(aired[s])' <=> Shows(aired[s])
    BY <1>3 DEF Shows
  <2>. QED BY <1>1, <1>3, <2>1 DEF Tracked
<1>. QED BY <1>2, <1>3

(* A datagram that arrives is the youngest of its session.                   *)
LEMMA TrackedArrival ==
  ASSUME NEW s \in Sessions, NEW m \in Messages, socket \in Seq(Messages),
         Arrive(m), aired[s].session = s => Tracked(s),
         IF m.session = s THEN aired'[s] = m ELSE aired'[s] = aired[s],
         aired'[s].session = s
  PROVE  Tracked(s)'
<1> DEFINE n == Len(socket)
<1>1. /\ n \in Nat
      /\ DOMAIN socket = 1 .. n
      /\ DOMAIN socket' = 1 .. (n + 1)
      /\ socket'[n + 1] = m
      /\ \A i \in 1 .. n : socket'[i] = socket[i]
  BY DEF Arrive
<1>. HIDE DEF n
<1>2. CASE m.session = s
  <2>1. n + 1 \in DOMAIN socket' /\ socket'[n + 1].session = s
    BY <1>1, <1>2
  <2>2. NewestLast(s)'
    <3> SUFFICES ASSUME NEW i \in DOMAIN socket'
                 PROVE  \/ socket'[i].session # s
                        \/ socket'[i] = aired'[s]
                        \/ \E j \in DOMAIN socket' :
                             i < j /\ socket'[j].session = s
      BY DEF NewestLast
    <3>1. CASE i = n + 1
      BY <1>1, <1>2, <3>1
    <3>2. CASE i # n + 1
      <4>1. i < n + 1
        BY <1>1, <3>2
      <4>. QED BY <2>1, <4>1
    <3>. QED BY <3>1, <3>2
  <2>3. Queued(s)'
    BY <2>1 DEF Queued
  <2>. QED BY <2>2, <2>3 DEF Tracked
<1>3. CASE m.session # s
  <2>1. Tracked(s) /\ aired'[s] = aired[s]
    BY <1>3
  <2>2. NewestLast(s)'
    <3> SUFFICES ASSUME NEW i \in DOMAIN socket'
                 PROVE  \/ socket'[i].session # s
                        \/ socket'[i] = aired'[s]
                        \/ \E j \in DOMAIN socket' :
                             i < j /\ socket'[j].session = s
      BY DEF NewestLast
    <3>1. CASE i = n + 1
      BY <1>1, <1>3, <3>1
    <3>2. CASE i # n + 1
      <4>1. i \in DOMAIN socket /\ socket'[i] = socket[i]
        BY <1>1, <3>2
      <4>2. \/ socket[i].session # s
            \/ socket[i] = aired[s]
            \/ \E j \in DOMAIN socket : i < j /\ socket[j].session = s
        BY <2>1, <4>1 DEF Tracked, NewestLast
      <4>3. ASSUME NEW j \in DOMAIN socket, i < j, socket[j].session = s
            PROVE  \E l \in DOMAIN socket' :
                     i < l /\ socket'[l].session = s
        <5>1. j \in DOMAIN socket' /\ socket'[j] = socket[j]
          BY <1>1, <4>3
        <5>. QED BY <4>3, <5>1
      <4>. QED BY <2>1, <4>1, <4>2, <4>3
    <3>. QED BY <3>1, <3>2
  <2>3. ASSUME Queued(s) PROVE Queued(s)'
    <3>1. PICK i \in DOMAIN socket : socket[i].session = s
      BY <2>3 DEF Queued
    <3>2. i \in DOMAIN socket' /\ socket'[i].session = s
      BY <1>1, <3>1
    <3>. QED BY <3>2 DEF Queued
  <2>4. (InHand(s)' <=> InHand(s)) /\ sdp' = sdp
          /\ (Shows(aired[s])' <=> Shows(aired[s]))
    BY <2>1 DEF Arrive, threadVars, InHand, Shows
  <2>. QED BY <2>1, <2>2, <2>3, <2>4 DEF Tracked
<1>. QED BY <1>2, <1>3

(* A message the thread takes is the last word about its session, or that is *)
(* still in the queue.                                                       *)
LEMMA TrackedTaken ==
  ASSUME NEW s \in Sessions, socket \in Seq(Messages), socket # <<>>,
         ParseMessage, Tracked(s), aired' = aired
  PROVE  Tracked(s)'
<1> DEFINE n == Len(socket)
<1>1. /\ n \in Nat \ {0}
      /\ DOMAIN socket = 1 .. n
  BY SMT
<1>2. sdp' = Head(socket) /\ socket' = Tail(socket)
  BY DEF ParseMessage
<1>3. /\ sdp' = socket[1]
      /\ DOMAIN socket' = 1 .. (n - 1)
      /\ \A i \in 1 .. (n - 1) : socket'[i] = socket[i + 1]
  BY <1>1, <1>2
<1>. HIDE DEF n
<1>4. pc = "top" /\ pc' = "address" /\ announcements' = announcements
  BY DEF ParseMessage
<1>5. ~InHand(s) /\ (Shows(aired[s])' <=> Shows(aired[s]))
        /\ (InHand(s)' <=> socket[1].session = s)
  BY <1>3, <1>4 DEF InHand, Shows
<1>6. NewestLast(s)'
  <2> SUFFICES ASSUME NEW i \in DOMAIN socket'
               PROVE  \/ socket'[i].session # s
                      \/ socket'[i] = aired'[s]
                      \/ \E j \in DOMAIN socket' :
                           i < j /\ socket'[j].session = s
    BY DEF NewestLast
  <2>1. i \in Int /\ i + 1 \in DOMAIN socket /\ socket'[i] = socket[i + 1]
    BY <1>1, <1>3
  <2>2. \/ socket[i + 1].session # s
        \/ socket[i + 1] = aired[s]
        \/ \E j \in DOMAIN socket : i + 1 < j /\ socket[j].session = s
    BY <2>1 DEF Tracked, NewestLast
  <2>3. ASSUME NEW j \in DOMAIN socket, i + 1 < j, socket[j].session = s
        PROVE  \E l \in DOMAIN socket' : i < l /\ socket'[l].session = s
    <3>1. /\ j - 1 \in DOMAIN socket' /\ i < j - 1
          /\ socket'[j - 1] = socket[(j - 1) + 1] /\ (j - 1) + 1 = j
      BY <1>1, <1>3, <2>1, <2>3
    <3>. QED BY <2>3, <3>1
  <2>. QED BY <2>1, <2>2, <2>3
<1>7. ASSUME NEW i \in DOMAIN socket, i # 1, socket[i].session = s
      PROVE  Queued(s)'
  <2>1. /\ i - 1 \in DOMAIN socket'
        /\ socket'[i - 1] = socket[(i - 1) + 1] /\ (i - 1) + 1 = i
    BY <1>1, <1>3, <1>7
  <2>2. socket'[i - 1].session = s
    BY <1>7, <2>1
  <2>. QED BY <2>1, <2>2 DEF Queued
<1>8. CASE socket[1].session = s
  <2>1. \/ socket[1] = aired[s]
        \/ \E j \in DOMAIN socket : 1 < j /\ socket[j].session = s
    BY <1>1, <1>8 DEF Tracked, NewestLast
  <2>2. CASE socket[1] = aired[s]
    BY <1>3, <1>5, <1>6, <1>8, <2>2 DEF Tracked
  <2>3. CASE \E j \in DOMAIN socket : 1 < j /\ socket[j].session = s
    <3>1. Queued(s)'
      BY <1>1, <1>7, <2>3
    <3>. QED BY <1>6, <3>1 DEF Tracked
  <2>. QED BY <2>1, <2>2, <2>3
<1>9. CASE socket[1].session # s
  <2>1. CASE Queued(s)
    <3>1. Queued(s)'
      BY <1>7, <1>9, <2>1 DEF Queued
    <3>. QED BY <1>6, <3>1 DEF Tracked
  <2>2. CASE ~Queued(s)
    BY <1>5, <1>6, <1>9, <2>2 DEF Tracked
  <2>. QED BY <2>1, <2>2
<1>. QED BY <1>8, <1>9

(* What the thread has stored whole it shows.                                *)
LEMMA TrackedStored ==
  ASSUME NEW s \in Sessions, TypeInv, StoreDeleted, StoredBeforeCalled',
         Tracked(s), aired[s].session = s, aired' = aired
  PROVE  Tracked(s)'
<1>1. /\ pc = "deleted" /\ pc' = "calling"
      /\ UNCHANGED <<sdp, socket>>
      /\ announcements' = [announcements EXCEPT
           ![sdp.session] = [Stored EXCEPT !.deleted = DeletedFlag]]
  BY DEF StoreDeleted, Store
<1>2. NewestLast(s)' /\ (Queued(s)' <=> Queued(s)) /\ ~InHand(s)'
  BY <1>1 DEF Tracked, NewestLast, Queued, InHand
<1>3. CASE sdp.session = s
  <2>1. InHand(s)
    BY <1>1, <1>3 DEF InHand
  <2>2. CASE Queued(s)
    BY <1>2, <2>2 DEF Tracked
  <2>3. CASE ~Queued(s)
    <3>1. sdp = aired[s]
      BY <2>1, <2>3 DEF Tracked
    <3>2. Shows(aired[s])'
      BY <1>1, <3>1 DEF Shows, StoredBeforeCalled
    <3>. QED BY <1>2, <3>2 DEF Tracked
  <2>. QED BY <2>2, <2>3
<1>4. CASE sdp.session # s
  <2>1. announcements'[s] = announcements[s]
    BY <1>1, <1>4 DEF TypeInv, TypeOK
  <2>2. ~InHand(s) /\ (Shows(aired[s])' <=> Shows(aired[s]))
    BY <1>4, <2>1 DEF InHand, Shows
  <2>. QED BY <1>2, <2>2 DEF Tracked
<1>. QED BY <1>3, <1>4

(* Every step of the listener and of the air keeps what is tracked.          *)
LEMMA TrackStep ==
  ASSUME TypeInv, QuietAfterStop, StoredBeforeCalled', TrackInv,
         DiscoveryNext, ~lost', NEW s \in Sessions, aired'[s].session = s
  PROVE  Tracked(s)'
<1>1. ASSUME NEW k \in Keys, NEW deletion \in BOOLEAN,
             Delivered(k, deletion)
      PROVE  Tracked(s)'
  <2> DEFINE m == Packet(k, deletion)
  <2>1. /\ m \in Messages /\ m.session = k.name
        /\ k.name \in Sessions
    BY DiscoveryAssumption DEF DiscoveryAssumption, Packets, Packet
  <2>2. /\ Arrive(m) /\ ~lost
        /\ aired' = [aired EXCEPT ![k.name] = m]
    BY <1>1 DEF Delivered
  <2>3. IF m.session = s THEN aired'[s] = m ELSE aired'[s] = aired[s]
    <3>. HIDE DEF m
    <3>. QED BY <2>1, <2>2 DEF TrackInv
  <2>4. aired[s].session = s => Tracked(s)
    BY <2>2 DEF TrackInv
  <2>5. socket \in Seq(Messages)
    BY DEF TrackInv
  <2>. HIDE DEF m
  <2>. QED BY <2>1, <2>2, <2>3, <2>4, <2>5, TrackedArrival
<1>2. ASSUME UNCHANGED <<aired, lost>> PROVE Tracked(s) /\ aired[s].session = s
  BY <1>2 DEF TrackInv
<1>3. CASE AnnouncerSilent
  <2>1. UNCHANGED <<socket, sdp, pc, announcements, aired, lost>>
    BY <1>3 DEF AnnouncerSilent, vars, threadVars
  <2>2. InHand(s)' <=> InHand(s)
    BY <2>1 DEF InHand
  <2>. QED BY <1>2, <2>1, <2>2, TrackedElsewhere
<1>4. CASE ListenerStep
  <2>1. Tracked(s) /\ aired[s].session = s /\ aired' = aired
    BY <1>2, <1>4 DEF ListenerStep
  <2>2. ASSUME UNCHANGED <<socket, sdp, announcements>>,
               InHand(s)' <=> InHand(s)
        PROVE  Tracked(s)'
    BY <2>1, <2>2, TrackedElsewhere
  <2>3. CASE Start
    <3>1. pc = "none" /\ pc' = "top"
      BY <2>3 DEF Start, QuietAfterStop
    <3>2. UNCHANGED <<socket, sdp, announcements>>
      BY <2>3 DEF Start
    <3>. QED BY <2>2, <3>1, <3>2 DEF InHand
  <2>4. CASE Stop
    BY <2>2, <2>4 DEF Stop, threadVars, InHand
  <2>5. CASE Registered
    BY <2>2, <2>5 DEF Registered, threadVars, InHand
  <2>6. CASE StopReturns
    BY <2>2, <2>6 DEF StopReturns, InHand
  <2>7. CASE GotStreamInformation
    BY <2>2, <2>7 DEF GotStreamInformation, threadVars, InHand
  <2>8. CASE LoopTop
    <3>1. socket # <<>> => Head(socket) \in Messages
      BY DEF TrackInv
    <3>2. socket # <<>> => Head(socket) # Short
      BY <3>1, ListenerAssumption DEF ListenerAssumption
    <3>. QED BY <2>2, <2>8, <3>2 DEF LoopTop, InHand
  <2>15. CASE ParseMessage
    <3>1. socket \in Seq(Messages) /\ socket # <<>>
      BY <2>15 DEF TrackInv, ParseMessage
    <3>. QED BY <2>1, <2>15, <3>1, TrackedTaken
  <2>16. ~ParseFails
    BY <1>4 DEF ListenerStep, ParseFails
  <2>9. ASSUME NEW from \in {"address", "media"},
               NEW to \in {"media", "deleted"},
               NEW entry, Store(from, to, entry)
        PROVE  Tracked(s)'
    <3>1. /\ UNCHANGED <<socket, sdp>> /\ pc = from /\ pc' = to
          /\ announcements' = [announcements EXCEPT ![sdp.session] = entry]
      BY <2>9 DEF Store
    <3>2. InHand(s)' <=> InHand(s)
      BY <3>1 DEF InHand
    <3>3. InHand(s) \/ announcements'[s] = announcements[s]
      BY <3>1 DEF InHand, TypeInv, TypeOK
    <3>. QED BY <2>1, <3>1, <3>2, <3>3, TrackedElsewhere
  <2>10. CASE StoreAddress
    BY <2>9, <2>10 DEF StoreAddress
  <2>11. CASE StoreMedia
    BY <2>9, <2>11 DEF StoreMedia
  <2>12. CASE StoreDeleted
    BY <2>1, <2>12, TrackedStored
  <2>13. CASE CallSession \/ CallForAll
    BY <2>2, <2>13 DEF CallSession, CallForAll, InHand
  <2>14. CASE StoreEnds
    BY <2>2, <2>14 DEF StoreEnds, InHand
  <2>. QED
    BY <1>4, <2>3, <2>4, <2>5, <2>6, <2>7, <2>8, <2>10, <2>11, <2>12, <2>13,
       <2>14, <2>15, <2>16
    DEF ListenerStep, Finish, ListenerThread
<1>5. ~\E k \in Keys, deletion \in BOOLEAN : Lost(k, deletion)
  BY DEF Lost
<1>. QED BY <1>1, <1>3, <1>4, <1>5 DEF DiscoveryNext

LEMMA TrackInvariant == Discovery => []TrackInv
<1>1. DiscoveryInit => TrackInv
  <2>1. <<>> \in Seq(Messages)
    OBVIOUS
  <2>. QED
    BY <2>1 DEF DiscoveryInit, Init, TrackInv, NoMessage, AnySession, Sessions
<1>2. ASSUME TypeInv, QuietAfterStop, StoredBeforeCalled', TrackInv,
             [DiscoveryNext]_everything
      PROVE  TrackInv'
  <2>1. CASE DiscoveryNext
    <3>1. aired' \in [Sessions -> Packets \cup {NoMessage}]
      <4>1. ASSUME NEW k \in Keys, NEW deletion \in BOOLEAN,
                   Delivered(k, deletion) \/ Lost(k, deletion)
            PROVE  aired' \in [Sessions -> Packets \cup {NoMessage}]
        <5>1. Packet(k, deletion) \in Packets
          BY DEF Packets
        <5>. QED BY <1>2, <4>1, <5>1 DEF Delivered, Lost, TrackInv
      <4>. QED
        BY <1>2, <2>1, <4>1
        DEF DiscoveryNext, AnnouncerSilent, ListenerStep, TrackInv
    <3>2. socket' \in Seq(Messages)
      <4>1. socket \in Seq(Messages)
        BY <1>2 DEF TrackInv
      <4>2. CASE \E k \in Keys, deletion \in BOOLEAN : Delivered(k, deletion)
        <5>1. PICK k \in Keys, deletion \in BOOLEAN : Delivered(k, deletion)
          BY <4>2
        <5> DEFINE m == Packet(k, deletion)
        <5>2. socket' = Append(socket, m)
          BY <5>1 DEF Delivered, Arrive
        <5>3. m \in Messages
          BY DiscoveryAssumption DEF DiscoveryAssumption, Packets
        <5>. HIDE DEF m
        <5>. QED BY <4>1, <5>2, <5>3
      <4>3. CASE socket' = socket
        BY <4>1, <4>3
      <4>4. CASE socket # <<>> /\ socket' = Tail(socket)
        BY <4>1, <4>4
      <4>. QED
        BY <2>1, <4>2, <4>3, <4>4
        DEF DiscoveryNext, AnnouncerSilent, Lost, ListenerStep, Start, Stop,
            Finish, Registered, StopReturns, GotStreamInformation,
            ListenerThread, LoopTop, ParseMessage, ParseFails, StoreAddress,
            StoreMedia, StoreDeleted, Store, CallSession, CallForAll,
            StoreEnds, vars
    <3>. QED BY <1>2, <2>1, <3>1, <3>2, TrackStep DEF TrackInv
  <2>2. CASE UNCHANGED everything
    <3>1. UNCHANGED <<socket, sdp, pc, announcements, aired, lost>>
      BY <2>2 DEF everything, vars, threadVars
    <3>. QED
      BY <1>2, <3>1
      DEF TrackInv, Tracked, NewestLast, Queued, InHand, Shows
  <2>. QED BY <1>2, <2>1, <2>2
<1>. QED
  BY <1>1, <1>2, DiscoveryListens, TypeInvariant, Quiet, StoredFirst, PTL
  DEF Discovery

(* For every set of streams and over every interleaving of the announcer's   *)
(* and the listener's steps, starts and stops: while no packet is lost, a    *)
(* listener that has emptied its socket shows the last thing said about      *)
(* every session (SapListener::SapStore, SapAnnouncer::SendSapAnnouncement). *)
THEOREM DirectoryTracks == Discovery => []DirectoryTracksAir
<1>1. TrackInv => DirectoryTracksAir
  BY DEF TrackInv, DirectoryTracksAir, Settled, Tracked, Queued, InHand
<1>. QED BY <1>1, TrackInvariant, PTL
=============================================================================
