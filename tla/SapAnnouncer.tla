---------------------------- MODULE SapAnnouncer ----------------------------
(***************************************************************************)
(* The SAP/SDP announcer, a process-wide singleton                         *)
(* (src/src/sap/sap_announcer.cc).  A client thread keeps a vector of      *)
(* streams; the announcement thread walks it once a second and multicasts  *)
(* every stream that is not deleted.  No lock guards the vector, so each   *)
(* access to an element by one thread can fall between two of the other's. *)
(*                                                                         *)
(* An element is its key (session name and multicast address) and its      *)
(* deleted flag.  The vector is its allocation: elements 1 .. size live,   *)
(* the ones behind are destroyed but still in memory.  What a thread reads *)
(* from a destroyed element (its intact strings, or garbage), or from an   *)
(* allocation that push_back gave back, is undefined: each outcome is      *)
(* possible, the death of the process included.                            *)
(***************************************************************************)
EXTENDS Integers, Sequences

CONSTANTS
  Keys,   \* [name, addr] records: what identifies a stream
  NoKey   \* what garbage memory holds instead of one

ASSUME AnnouncerAssumption == NoKey \notin Keys

VARIABLES
  storage,   \* the elements of streams_ and the destroyed ones behind them
  size,      \* streams_.size()
  capacity,  \* streams_.capacity()
  running,   \* running_
  sockfd,    \* "unopened": 0, which is no socket; "failed": -1
  api,       \* the client: idle, or where it is in a call
  cursor,    \* its loop variable, or the element it deletes
  limit,     \* the end of its loop
  after,     \* what follows the DeleteAllStreams it is in
  pc,        \* the announcement thread; "none": thread_ not joinable
  index,     \* its loop variable
  end,       \* the end of its loop, taken when the loop began
  dangling,  \* its loop runs over memory push_back has freed
  aborted,   \* exit(EXIT_FAILURE), or a crash
  onair,     \* history: the last packet sent about each key
  late       \* history: announcements of a key since no live stream has it
             \* (capped at 2)

vectorVars == <<storage, size, capacity>>
clientVars == <<api, cursor, limit, after>>
threadVars == <<pc, index, end, dangling>>
wire == <<onair, late>>
vars == <<vectorVars, running, sockfd, clientVars, threadVars, aborted, wire>>

Stream == [key : Keys, deleted : BOOLEAN]

TypeOK ==
  /\ storage \in Seq(Stream)
  /\ size \in 0 .. Len(storage)
  /\ capacity \in Nat /\ Len(storage) <= capacity
  /\ running \in BOOLEAN
  /\ sockfd \in {"unopened", "open", "failed"}
  /\ api \in {"idle", "starting", "joining", "sweeping", "stopping", "deleting",
              "marking", "clearing", "cleared", "gone"}
  /\ cursor \in Nat \ {0} /\ limit \in Nat
  /\ after \in {"idle", "stopping", "gone"}
  /\ pc \in {"none", "spawned", "top", "scan", "send", "sleep", "ended"}
  /\ index \in Nat \ {0} /\ end \in Nat
  /\ dangling \in BOOLEAN
  /\ aborted \in BOOLEAN
  /\ onair \in [Keys -> {"never", "announced", "deleted"}]
  /\ late \in [Keys -> 0 .. 2]

Init ==
  /\ storage = <<>> /\ size = 0 /\ capacity = 0
  /\ running = FALSE
  /\ sockfd = "unopened"
  /\ api = "idle" /\ cursor = 1 /\ limit = 0 /\ after = "idle"
  /\ pc = "none" /\ index = 1 /\ end = 0 /\ dangling = FALSE
  /\ aborted = FALSE
  /\ onair = [k \in Keys |-> "never"]
  /\ late = [k \in Keys |-> 0]
-----------------------------------------------------------------------------
Live(k) == \E i \in 1 .. size : storage[i].key = k /\ ~storage[i].deleted

(* A key that has a live stream again is no longer late. *)
Revived == late' = [k \in Keys |-> IF Live(k)' THEN 0 ELSE late[k]]

(* SendSapPacket() of a stream with key k.  Without a socket it reports so;  *)
(* a failing sendto, certain on descriptor 0, exits the process.             *)
SendSapPacket(k, deletion) ==
  \/ sockfd = "failed" /\ UNCHANGED <<aborted, wire>>
  \/ sockfd # "failed" /\ aborted' = TRUE /\ UNCHANGED wire
  \/ /\ sockfd = "open"
     /\ UNCHANGED aborted
     /\ onair' = [j \in Keys |-> IF j # k THEN onair[j]
                                 ELSE IF deletion THEN "deleted"
                                 ELSE "announced"]
     /\ late' = [j \in Keys |-> IF j # k \/ deletion THEN late[j]
                                ELSE IF Live(j) \/ late[j] = 2 THEN late[j]
                                ELSE late[j] + 1]

(* What reading element i of the allocation yields: the flag outlives the    *)
(* destruction of an element, the strings may.                               *)
Element(i) ==
  {storage[i]} \cup
  (IF i <= size THEN {} ELSE {[storage[i] EXCEPT !.key = NoKey]})
-----------------------------------------------------------------------------
(* The client.                                                              *)

(* The thread is spawned; Start() then spins until it has set running_. *)
Start ==
  /\ api = "idle"
  /\ ~running
  /\ pc' = "spawned"
  /\ api' = "starting"
  /\ UNCHANGED <<vectorVars, running, sockfd, cursor, limit, after,
                 index, end, dangling, aborted, wire>>

StartReturns ==
  /\ api = "starting"
  /\ running
  /\ api' = "idle"
  /\ UNCHANGED <<vectorVars, running, sockfd, cursor, limit, after,
                 threadVars, aborted, wire>>

JoiningMutant == api' = "sweeping" /\ cursor' = 1 /\ limit' = size
Joining == api' = "joining" /\ UNCHANGED <<cursor, limit>>

Stop ==
  /\ api \in {"idle", "stopping"}
  /\ running' = FALSE
  /\ Joining
  /\ after' = IF api = "idle" THEN "idle" ELSE "gone"
  /\ UNCHANGED <<vectorVars, sockfd, threadVars, aborted, wire>>

(* The join, then DeleteAllStreams(). *)
Joined ==
  /\ api = "joining"
  /\ pc \in {"none", "ended"}
  /\ pc' = "none"
  /\ api' = "sweeping" /\ cursor' = 1 /\ limit' = size
  /\ UNCHANGED <<vectorVars, running, sockfd, after, index, end,
                 dangling, aborted, wire>>

(* The destructor, when the program ends: DeleteAllStreams(), then Stop().   *)
Destroy ==
  /\ api = "idle"
  /\ api' = "sweeping" /\ cursor' = 1 /\ limit' = size
  /\ after' = "stopping"
  /\ UNCHANGED <<vectorVars, running, sockfd, threadVars, aborted,
                 wire>>

(* DeleteAllStreams() sends deletions and leaves the streams as they are. *)
DeleteAllStreams ==
  /\ api = "sweeping"
  /\ cursor <= limit
  /\ cursor' = cursor + 1
  /\ IF storage[cursor].deleted THEN UNCHANGED <<aborted, wire>>
     ELSE SendSapPacket(storage[cursor].key, TRUE)
  /\ UNCHANGED <<vectorVars, running, sockfd, api, limit, after,
                 threadVars>>

SweepEnds ==
  /\ api = "sweeping"
  /\ cursor > limit
  /\ api' = after
  /\ sockfd' = IF after = "gone" THEN "failed" ELSE sockfd
  /\ UNCHANGED <<vectorVars, running, cursor, limit, after, threadVars,
                 aborted, wire>>

MatchesMutant(i, k) == storage[i].key = k /\ ~storage[i].deleted
Matches(i, k) == storage[i].key = k

Grown == IF size < capacity THEN capacity
         ELSE IF capacity = 0 THEN 1 ELSE 2 * capacity

(* push_back: on a full allocation it moves the elements to another one. *)
PushBack(e) ==
  /\ storage' = IF size < Len(storage) THEN [storage EXCEPT ![size + 1] = e]
                ELSE Append(storage, e)
  /\ size' = size + 1
  /\ capacity' = Grown
  /\ dangling' = (dangling \/ (size = capacity /\ pc \in {"scan", "send"}))

(* A stream with the same name and address is overwritten and undeleted.     *)
(* Callers add streams whose own deleted flag is not set.                    *)
AddSapAnnouncement(k) ==
  /\ api = "idle"
  /\ \/ \E i \in 1 .. size :
          /\ Matches(i, k)
          /\ \A j \in 1 .. (i - 1) : ~Matches(j, k)
          /\ storage' = [storage EXCEPT ![i] = [key |-> k, deleted |-> FALSE]]
          /\ UNCHANGED <<size, capacity, dangling>>
     \/ /\ \A i \in 1 .. size : ~Matches(i, k)
        /\ PushBack([key |-> k, deleted |-> FALSE])
  /\ Revived
  /\ UNCHANGED <<running, sockfd, clientVars, pc, index, end, aborted, onair>>

(* The first element DeleteSapAnnouncement(name, addresses) finds: one       *)
(* address, or all of them when the caller gives none.                       *)
FirstMatch(i, name, addresses) ==
  /\ storage[i].key.name = name /\ storage[i].key.addr \in addresses
  /\ \A j \in 1 .. (i - 1) : \/ storage[j].key.name # name
                             \/ storage[j].key.addr \notin addresses

(* A deletion is sent, then the flag is set, and the call returns. *)
DeleteSapAnnouncement(name, addresses) ==
  /\ api = "idle"
  /\ \E i \in 1 .. size :
       /\ FirstMatch(i, name, addresses)
       /\ cursor' = i
       /\ SendSapPacket(storage[i].key, TRUE)
  /\ api' = "marking"
  /\ UNCHANGED <<vectorVars, running, sockfd, limit, after, threadVars>>

MarkDeleted ==
  /\ api = "marking"
  /\ storage' = [storage EXCEPT ![cursor].deleted = TRUE]
  /\ api' = "idle"
  /\ UNCHANGED <<size, capacity, running, sockfd, cursor, limit, after,
                 threadVars, aborted, wire>>

Undelete(names) ==
  /\ storage' = [i \in DOMAIN storage |->
                   IF i <= size /\ storage[i].key.name \in names
                   THEN [storage[i] EXCEPT !.deleted = FALSE] ELSE storage[i]]
  /\ size' = size
  /\ Revived
  /\ UNCHANGED <<capacity, running, sockfd, clientVars, threadVars,
                 aborted, onair>>

UndeleteSapAnnouncement(name) == api = "idle" /\ Undelete({name})

(* Restart() undeletes the name of every deleted stream. *)
Restart ==
  /\ api = "idle"
  /\ LET deleted == {i \in 1 .. size : storage[i].deleted}
     IN  Undelete({storage[i].key.name : i \in deleted})

(* DeleteAllSapAnnouncements() clears the vector inside a loop over it: from *)
(* the second round on it uses destroyed elements.                           *)
DeleteAllSapAnnouncements ==
  /\ api = "idle"
  /\ size > 0
  /\ api' = "clearing" /\ cursor' = 1 /\ limit' = size
  /\ UNCHANGED <<vectorVars, running, sockfd, after, threadVars,
                 aborted, wire>>

SendsDeletion ==
  /\ api = "clearing"
  /\ cursor <= limit
  /\ IF running THEN \E e \in Element(cursor) : SendSapPacket(e.key, TRUE)
     ELSE UNCHANGED <<aborted, wire>>
  /\ api' = "cleared"
  /\ UNCHANGED <<vectorVars, running, sockfd, cursor, limit, after,
                 threadVars>>

Clears ==
  /\ api = "cleared"
  /\ storage' = [storage EXCEPT ![cursor].deleted = TRUE]
  /\ size' = 0
  /\ cursor' = cursor + 1
  /\ aborted' \in IF size = 0 THEN BOOLEAN ELSE {FALSE}
  /\ api' = IF cursor = limit THEN "idle" ELSE "clearing"
  /\ UNCHANGED <<capacity, running, sockfd, limit, after, threadVars,
                 wire>>
-----------------------------------------------------------------------------
(* The announcement thread.                                                 *)

StartedMutant == UNCHANGED running
Started == running' = TRUE

(* Every start opens a socket; the one of an earlier start is leaked. *)
ThreadStarts ==
  /\ pc = "spawned"
  /\ sockfd' \in {"open", "failed"}
  /\ Started
  /\ pc' = "top"
  /\ UNCHANGED <<vectorVars, clientVars, index, end, dangling, aborted, wire>>

FirstIndexBelowMutant == 0
FirstIndexMutant == index
FirstIndex == 1

LoopTop ==
  /\ pc = "top"
  /\ \/ /\ running
        /\ pc' = "scan" /\ index' = FirstIndex /\ end' = size
        /\ dangling' = FALSE
     \/ ~running /\ pc' = "ended" /\ UNCHANGED <<index, end, dangling>>
  /\ UNCHANGED <<vectorVars, running, sockfd, clientVars, aborted, wire>>

SkippedMutant(e) == FALSE
Skipped(e) == e.deleted

Scanned == IF dangling THEN [key : {NoKey}, deleted : BOOLEAN]
           ELSE Element(index)

(* Is the next stream deleted? *)
Scan ==
  /\ pc = "scan"
  /\ index <= end
  /\ \E e \in Scanned :
       \/ Skipped(e) /\ index' = index + 1 /\ UNCHANGED pc
       \/ ~Skipped(e) /\ pc' = "send" /\ UNCHANGED index
  /\ UNCHANGED <<vectorVars, running, sockfd, clientVars, end, dangling,
                 aborted, wire>>

Crash ==
  /\ aborted' = TRUE
  /\ UNCHANGED wire

SendSapAnnouncement ==
  /\ pc = "send"
  /\ \/ \E e \in Scanned : SendSapPacket(e.key, FALSE)
     \/ (dangling \/ index > size) /\ Crash
  /\ pc' = "scan" /\ index' = index + 1
  /\ UNCHANGED <<vectorVars, running, sockfd, clientVars, end, dangling>>

PassEnds ==
  /\ pc = "scan"
  /\ index > end
  /\ pc' = "sleep"
  /\ UNCHANGED <<vectorVars, running, sockfd, clientVars, index, end, dangling,
                 aborted, wire>>

(* A second has gone by. *)
Wake ==
  /\ pc = "sleep"
  /\ pc' = "top"
  /\ UNCHANGED <<vectorVars, running, sockfd, clientVars, index, end, dangling,
                 aborted, wire>>
-----------------------------------------------------------------------------
Names == {k.name : k \in Keys}
KeyAddresses == {k.addr : k \in Keys}

(* A name with one address, or with none given. *)
Call ==
  \/ Start \/ Stop \/ Destroy \/ Restart \/ DeleteAllSapAnnouncements
  \/ \E k \in Keys : AddSapAnnouncement(k)
  \/ \E n \in Names : \/ UndeleteSapAnnouncement(n)
                      \/ DeleteSapAnnouncement(n, KeyAddresses)
                      \/ \E a \in KeyAddresses : DeleteSapAnnouncement(n, {a})

(* The steps that finish a call. *)
Finish ==
  \/ StartReturns \/ Joined \/ DeleteAllStreams \/ SweepEnds \/ MarkDeleted
  \/ SendsDeletion \/ Clears \/ (api = "stopping" /\ Stop)

AnnouncementThread ==
  \/ ThreadStarts \/ LoopTop \/ Scan \/ SendSapAnnouncement \/ PassEnds \/ Wake

Next == ~aborted /\ (Call \/ Finish \/ AnnouncementThread)

(* The operating system runs both threads. *)
Fairness ==
  /\ WF_vars(~aborted /\ AnnouncementThread)
  /\ WF_vars(~aborted /\ Finish)

Spec == Init /\ [][Next]_vars
FairSpec == Spec /\ Fairness
-----------------------------------------------------------------------------
(* AddSapAnnouncement "ensures session_name is unique (session_name and      *)
(* multicast address are unique identifiers for a stream)", over every       *)
(* deletion, undeletion, clear and re-addition.                              *)
UniqueStreams ==
  \A i, j \in 1 .. size : storage[i].key = storage[j].key => i = j

(* Once Stop() has joined there is no announcement thread until the next     *)
(* Start(): nothing is announced and nothing else touches the vector.        *)
QuietAfterStop ==
  ~running /\ api \notin {"joining", "starting"} => pc = "none"

(* Stop() deletes "the streams from the SAP/SDP announcement": behind its    *)
(* sweep the last packet about a stream that is not deleted is its deletion, *)
(* whatever the announcement thread was in the middle of.                    *)
StopSilencesStreams ==
  api = "sweeping" /\ after # "stopping" /\ sockfd = "open" /\ ~aborted =>
    \A i \in 1 .. (cursor - 1) :
      ~storage[i].deleted => onair[storage[i].key] = "deleted"

(* A deleted stream is announced once more at most: the thread may be past   *)
(* its test of the flag when the flag is set, and is not in the next pass.   *)
DeletedFallsSilent == \A k \in Keys : late[k] <= 1

(* Every live stream gets on the air, again after each deletion, stop and    *)
(* restart ("still in the vector ready to be restarted"; "Transmit streams   *)
(* emit a SAP/SDP announcement every second").                               *)
LiveStreamsAnnounced ==
  \A k \in Keys :
    (running /\ Live(k)) ~> \/ onair[k] = "announced"
                            \/ ~running \/ ~Live(k)
                            \/ sockfd # "open" \/ aborted

(* Start(), Stop() and the others return. *)
CallsReturn == api # "idle" ~> (api \in {"idle", "gone"} \/ aborted)
=============================================================================
