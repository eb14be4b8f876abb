----------------------------- MODULE SapListener -----------------------------
(***************************************************************************)
(* The SAP/SDP listener, a process-wide singleton                          *)
(* (src/src/sap/sap_listener.cc).  Its thread takes announcements from the *)
(* multicast socket, keeps the latest of every session in announcements_   *)
(* and calls the callbacks registered for the session or for all sessions. *)
(* Clients register, start, stop and read the map; no lock guards the      *)
(* maps, so the thread's writes and a client's reads interleave member by  *)
(* member.                                                                 *)
(*                                                                         *)
(* Sessions are numbered in the order of their names, the order in which   *)
(* std::map visits them; AnySession is the empty name, the first of all:   *)
(* callbacks for all sessions are registered under it, and a message whose *)
(* description names no session has it too.  A message is what the parser  *)
(* makes of a packet: an address, and the media description (port, size,   *)
(* rate, sampling) as one value.  Short and Malformed are the packets it   *)
(* makes nothing of.                                                       *)
(***************************************************************************)
EXTENDS Integers, Sequences

CONSTANTS
  LastSession,     \* the sessions are 1 .. LastSession
  Addresses,       \* the multicast addresses messages name
  Medias,          \* the media descriptions they carry
  Messages,        \* what the network can bring: records of Message below
  Users,           \* who registers callbacks, and the data they pass along
  Null,            \* a null pointer; nothing registered
  Empty,           \* an empty string; a number never set
  Short,           \* a packet of less than eight bytes
  Malformed,       \* one without "v=", or with a field that is no number
  SocketCapacity   \* bound on the packets queued in the socket

AnySession == 0
Sessions == 1 .. LastSession
Names == AnySession .. LastSession
Message == [session : Names, addr : Addresses, media : Medias,
            deleted : BOOLEAN]

ASSUME ListenerAssumption ==
  /\ LastSession \in Nat
  /\ Messages \subseteq Message
  /\ Null \notin Users
  /\ {Short, Malformed} \cap Messages = {}
  /\ SocketCapacity \in Nat \ {0}

VARIABLES
  announcements,  \* announcements_[name]: known or not, and its members
  callbacks,      \* callbacks_[name]: whose callback, Null for none
  data,           \* data_, the one data pointer
  running,        \* running_
  socket,         \* the packets queued in sockfd_
  pc, sdp,        \* the listener thread, and the message it is storing
  position,       \* the name its loop over callbacks_ has come to
  api,            \* the client: idle, or where it is in a call
  argument,       \* that call's arguments
  answer,         \* what its GetStreamInformation has copied
  aborted,        \* std::terminate() or a crash
  owed,           \* history: callbacks due for sdp when its storing began
  told            \* history: the calls made for sdp: who, with what data

threadVars == <<pc, sdp, position, owed, told>>
clientVars == <<api, argument, answer>>
vars == <<announcements, callbacks, data, running, socket, threadVars,
          clientVars, aborted>>

Entry == [known : BOOLEAN, addr : Addresses \cup {Empty},
          media : Medias \cup {Empty}, deleted : BOOLEAN]
Unknown == [known |-> FALSE, addr |-> Empty, media |-> Empty, deleted |-> FALSE]
NoMessage == [session |-> AnySession, addr |-> Empty, media |-> Empty,
              deleted |-> FALSE]

TypeOK ==
  /\ announcements \in [Names -> Entry]
  /\ callbacks \in [Names -> Users \cup {Null}]
  /\ data \in Users \cup {Null}
  /\ running \in BOOLEAN
  /\ socket \in Seq(Messages \cup {Short, Malformed})
  /\ pc \in {"none", "top", "address", "media", "deleted", "calling", "called",
             "ended"}
  /\ sdp \in Messages \cup {NoMessage}
  /\ position \in 0 .. (LastSession + 1)
  /\ api \in {"idle", "registering", "joining", "copying"}
  /\ argument \in [name : Names, user : Users \cup {Null}]
  /\ answer \in [addr : Addresses \cup {Empty}, media : Medias \cup {Empty}]
  /\ aborted \in BOOLEAN
  /\ owed \subseteq Names
  /\ told \in [Names -> 0 .. 2]

Init ==
  /\ announcements = [n \in Names |-> Unknown]
  /\ callbacks = [n \in Names |-> Null]
  /\ data = Null
  /\ running = FALSE
  /\ socket = <<>>
  /\ pc = "none" /\ sdp = NoMessage /\ position = 0
  /\ api = "idle"
  /\ argument = [name |-> AnySession, user |-> Null]
  /\ answer = [addr |-> Empty, media |-> Empty]
  /\ aborted = FALSE
  /\ owed = {} /\ told = [n \in Names |-> 0]
-----------------------------------------------------------------------------
(* The client.                                                              *)

(* RegisterSapListener(): first the one data_ for everybody ...              *)
RegisterSapListener(name, user) ==
  /\ api = "idle"
  /\ data' = user
  /\ argument' = [name |-> name, user |-> user]
  /\ api' = "registering"
  /\ UNCHANGED <<announcements, callbacks, running, socket, threadVars, answer,
                 aborted>>

(* ... then the map.  A loop over the map in the other thread may not        *)
(* survive the change.                                                       *)
Registered ==
  /\ api = "registering"
  /\ callbacks' = [callbacks EXCEPT ![argument.name] = argument.user]
  /\ aborted' \in IF pc \in {"calling", "called"} THEN BOOLEAN ELSE {FALSE}
  /\ api' = "idle"
  /\ UNCHANGED <<announcements, data, running, socket, threadVars, argument,
                 answer>>

Start ==
  /\ api = "idle"
  /\ ~running
  /\ running' = TRUE
  /\ pc' = "top"
  /\ UNCHANGED <<announcements, callbacks, data, socket, sdp, position, owed,
                 told, clientVars, aborted>>

JoiningMutant == "idle"
Joining == IF pc = "none" THEN "idle" ELSE "joining"

Stop ==
  /\ api = "idle"
  /\ running' = FALSE
  /\ api' = Joining
  /\ UNCHANGED <<announcements, callbacks, data, socket, threadVars, argument,
                 answer, aborted>>

StopReturns ==
  /\ api = "joining"
  /\ pc = "ended"
  /\ pc' = "none"
  /\ api' = "idle"
  /\ UNCHANGED <<announcements, callbacks, data, running, socket, sdp, position,
                 owed, told, argument, answer, aborted>>

(* Reading a map or a string that the other thread is writing may crash.     *)
ReadsMap == aborted' \in IF pc \in {"address", "media"} THEN BOOLEAN ELSE {FALSE}

(* GetStreamInformation(): the address is copied, then the rest.  It does    *)
(* not look at the deleted flag.                                             *)
GetStreamInformation(s) ==
  /\ api = "idle"
  /\ announcements[s].known
  /\ argument' = [name |-> s, user |-> Null]
  /\ answer' = [addr |-> announcements[s].addr, media |-> Empty]
  /\ api' = "copying"
  /\ ReadsMap
  /\ UNCHANGED <<announcements, callbacks, data, running, socket, threadVars>>

GotStreamInformation ==
  /\ api = "copying"
  /\ answer' = [answer EXCEPT !.media = announcements[argument.name].media]
  /\ api' = "idle"
  /\ ReadsMap
  /\ UNCHANGED <<announcements, callbacks, data, running, socket, threadVars,
                 argument>>
-----------------------------------------------------------------------------
(* The listener thread.                                                     *)

Matches(n, m) == n \in {AnySession, m.session}

LeavesMutant == FALSE
Leaves == ~running

LoopTop ==
  /\ pc = "top"
  /\ \/ Leaves /\ pc' = "ended" /\ UNCHANGED socket
     \/ /\ ~Leaves                  \* too small: SapStore() returns false
        /\ socket # <<>>
        /\ Head(socket) = Short
        /\ socket' = Tail(socket)
        /\ UNCHANGED pc
  /\ UNCHANGED <<announcements, callbacks, data, running, sdp, position, owed,
                 told, clientVars, aborted>>

ParseMessage ==
  /\ pc = "top"
  /\ ~Leaves
  /\ socket # <<>>
  /\ Head(socket) \in Messages
  /\ sdp' = Head(socket)
  /\ socket' = Tail(socket)
  /\ owed' = {n \in Names : callbacks[n] # Null /\ Matches(n, Head(socket))}
  /\ told' = [n \in Names |-> 0]
  /\ pc' = "address"
  /\ UNCHANGED <<announcements, callbacks, data, running, position, clientVars,
                 aborted>>

(* substr() or stoi() throws, and nothing in the thread catches it. *)
ParseFails ==
  /\ pc = "top"
  /\ ~Leaves
  /\ socket # <<>>
  /\ Head(socket) = Malformed
  /\ socket' = Tail(socket)
  /\ aborted' = TRUE
  /\ UNCHANGED <<announcements, callbacks, data, running, threadVars,
                 clientVars>>

(* announcements_[session_name] = sdp assigns one member after the other.    *)
Store(from, to, entry) ==
  /\ pc = from
  /\ announcements' = [announcements EXCEPT ![sdp.session] = entry]
  /\ pc' = to
  /\ UNCHANGED <<callbacks, data, running, socket, sdp, owed, told, clientVars,
                 aborted>>

Stored == announcements[sdp.session]

StoreAddress ==
  /\ Store("address", "media",
           [Stored EXCEPT !.known = TRUE, !.addr = sdp.addr])
  /\ UNCHANGED position

StoreMedia ==
  /\ Store("media", "deleted", [Stored EXCEPT !.media = sdp.media])
  /\ UNCHANGED position

DeletedFlagMutant == sdp.deleted \/ Stored.deleted
DeletedFlag == sdp.deleted

StoreDeleted ==
  /\ Store("deleted", "calling", [Stored EXCEPT !.deleted = DeletedFlag])
  /\ position' = AnySession

VisitedPastMutant(n) == n + 2
VisitedMutant(n) == IF n = AnySession /\ callbacks[n] # Null
                    THEN LastSession + 1 ELSE n + 1
Visited(n) == n + 1

(* A callback that calls Stop() joins its own thread, which throws. *)
CallBack(n) ==
  /\ told' = [told EXCEPT ![n] = IF @ = 2 THEN 2 ELSE @ + 1]
  /\ aborted' \in BOOLEAN

(* One round of the loop over callbacks_: first the session's own callback,  *)
(* which is given a null pointer ...                                         *)
CallSession ==
  /\ pc = "calling"
  /\ position \in Names
  /\ IF callbacks[position] # Null
     THEN pc' = "called" /\ UNCHANGED position
     ELSE position' = Visited(position) /\ UNCHANGED pc
  /\ IF callbacks[position] # Null /\ position = sdp.session
     THEN CallBack(position)
     ELSE UNCHANGED <<told, aborted>>
  /\ UNCHANGED <<announcements, callbacks, data, running, socket, sdp, owed,
                 clientVars>>

(* ... then, a condition of its own, the one for all sessions, which is      *)
(* given the data registered last.                                           *)
CallForAll ==
  /\ pc = "called"
  /\ position' = Visited(position)
  /\ pc' = "calling"
  /\ IF position = AnySession
     THEN CallBack(position)
     ELSE UNCHANGED <<told, aborted>>
  /\ UNCHANGED <<announcements, callbacks, data, running, socket, sdp, owed,
                 clientVars>>

StoreEnds ==
  /\ pc = "calling"
  /\ position \notin Names
  /\ pc' = "top"
  /\ UNCHANGED <<announcements, callbacks, data, running, socket, sdp, position,
                 owed, told, clientVars, aborted>>
-----------------------------------------------------------------------------
(* A datagram reaches the socket; it does so whether or not Start() was      *)
(* called, and is lost when the socket is full.                              *)
Arrive(m) ==
  /\ Len(socket) < SocketCapacity
  /\ socket' = Append(socket, m)
  /\ UNCHANGED <<announcements, callbacks, data, running, threadVars,
                 clientVars, aborted>>

Call ==
  \/ Start \/ Stop
  \/ \E n \in Names, u \in Users : RegisterSapListener(n, u)
  \/ \E n \in Names : GetStreamInformation(n)

Finish == Registered \/ StopReturns \/ GotStreamInformation

ListenerThread ==
  \/ LoopTop \/ ParseMessage \/ ParseFails
  \/ StoreAddress \/ StoreMedia \/ StoreDeleted
  \/ CallSession \/ CallForAll \/ StoreEnds

Next ==
  /\ ~aborted
  /\ \/ Call \/ Finish \/ ListenerThread
     \/ \E m \in Messages \cup {Short, Malformed} : Arrive(m)

(* The operating system runs both threads. *)
Fairness ==
  /\ WF_vars(~aborted /\ ListenerThread)
  /\ WF_vars(~aborted /\ Finish)

Spec == Init /\ [][Next]_vars
FairSpec == Spec /\ Fairness
-----------------------------------------------------------------------------
(* After Stop() has returned no callback runs and nothing is stored: what    *)
(* the destructor of a receiver relies on when it frees itself.              *)
QuietAfterStop == ~running /\ api # "joining" => pc = "none"

(* How often the loop comes to call a callback for message m: the one for    *)
(* all sessions meets both of its conditions when m names no session.        *)
Due(n, m) == IF n = AnySession /\ m.session = AnySession THEN 2 ELSE 1

(* Every callback that was registered for the session, or for all, before a  *)
(* message was stored is called once for that message (the one for all       *)
(* sessions twice, if the message names none), and no other is, also while   *)
(* other clients register.                                                   *)
CalledOncePerMessage ==
  pc = "calling" /\ position \notin Names =>
    \A n \in Names : /\ n \in owed => told[n] = Due(n, sdp)
                     /\ told[n] # 0 => Matches(n, sdp)
                     /\ told[n] <= Due(n, sdp)

(* A callback sees its message in the map, whole: the members were all       *)
(* assigned before the first call.                                           *)
StoredBeforeCalled ==
  pc \in {"calling", "called"} =>
    announcements[sdp.session] = [known |-> TRUE, addr |-> sdp.addr,
                                  media |-> sdp.media, deleted |-> sdp.deleted]

(* Stop() returns. *)
StopEnds == api = "joining" ~> (api = "idle" \/ aborted)

(* A callback that is due is made.                                           *)
DueCallbackIsMade ==
  \A n \in Names : (n \in owed /\ told[n] = 0) ~> (told[n] > 0 \/ aborted)

(* "data The data to pass to the callback": every callback is given the data *)
(* it was registered with.                                                   *)
CallbackGetsItsData ==
  /\ pc = "calling" /\ position \in Names /\ position = sdp.session =>
       Null = callbacks[position]
  /\ pc = "called" /\ position = AnySession => data = callbacks[position]
=============================================================================
