---------------------------- MODULE SapDiscovery ----------------------------
(***************************************************************************)
(* Discovery end to end: the SapAnnouncer of one process, UDP multicast,   *)
(* and the SapListener of another.  A packet the announcer sends reaches   *)
(* the listener's socket or is lost.  Both ends may start and stop at any  *)
(* time; neither process dies here, and the announcer's client leaves out  *)
(* DeleteAllSapAnnouncements(), whose behaviour is undefined (SapAnnouncer *)
(* has it).  The streams have names.  The listener's variables keep their  *)
(* names here, the announcer's are renamed where the two clash.            *)
(***************************************************************************)
EXTENDS SapListener

CONSTANTS
  Keys   \* the streams: [name, addr] records, name a session

VARIABLES
  \* the announcer
  storage, size, capacity, a_running, sockfd, a_api, cursor, limit,
  after, a_pc, index, end, dangling, a_aborted, onair, late,
  \* the last packet about each session, and whether one was ever lost
  aired, lost

announcer == <<storage, size, capacity, a_running, sockfd, a_api, cursor, limit,
               after, a_pc, index, end, dangling, a_aborted, onair,
               late>>
everything == <<announcer, vars, aired, lost>>

NoKey == [name |-> AnySession, addr |-> Empty]

(* The announcement or deletion of stream k; an address has one media        *)
(* description here.                                                         *)
Packet(k, deletion) == [session |-> k.name, addr |-> k.addr, media |-> k.addr,
                        deleted |-> deletion]
Packets == {Packet(k, deletion) : k \in Keys, deletion \in BOOLEAN}

ASSUME DiscoveryAssumption ==
  /\ \A k \in Keys : k.name \in Sessions
  /\ Packets \subseteq Messages

A == INSTANCE SapAnnouncer WITH
       running <- a_running, api <- a_api, pc <- a_pc, aborted <- a_aborted

DiscoveryInit ==
  /\ A!Init
  /\ Init
  /\ aired = [s \in Sessions |-> NoMessage]
  /\ lost = FALSE

(* The announcer's steps that send nothing. *)
AnnouncerSilent ==
  /\ \/ A!Start \/ A!Stop \/ A!Destroy \/ A!Restart
     \/ \E k \in Keys : A!AddSapAnnouncement(k) \/ A!UndeleteSapAnnouncement(k.name)
     \/ A!StartReturns \/ A!Joined \/ A!SweepEnds \/ A!MarkDeleted
     \/ A!ThreadStarts \/ A!LoopTop \/ A!Scan \/ A!PassEnds \/ A!Wake
     \/ A!DeleteAllStreams /\ storage[cursor].deleted
     \/ (dangling \/ sockfd # "open") /\ A!SendSapAnnouncement
  /\ ~a_aborted'
  /\ UNCHANGED <<vars, aired, lost>>

Sends(k, deletion) ==
  /\ sockfd = "open"
  /\ IF deletion
     THEN \/ /\ A!DeleteAllStreams
             /\ storage[cursor] = [key |-> k, deleted |-> FALSE]
          \/ A!DeleteSapAnnouncement(k.name, {k.addr})
     ELSE A!SendSapAnnouncement /\ ~dangling /\ storage[index].key = k
  /\ ~a_aborted'

Delivered(k, deletion) ==
  /\ Sends(k, deletion)
  /\ aired' = [aired EXCEPT ![k.name] = Packet(k, deletion)]
  /\ Arrive(Packet(k, deletion))
  /\ UNCHANGED lost

Lost(k, deletion) ==
  /\ Sends(k, deletion)
  /\ aired' = [aired EXCEPT ![k.name] = Packet(k, deletion)]
  /\ lost' = TRUE
  /\ UNCHANGED vars

ListenerStep ==
  /\ \/ Start \/ Stop
     \/ Finish
     \/ ListenerThread
  /\ ~aborted'
  /\ UNCHANGED <<announcer, aired, lost>>

DiscoveryNext ==
  \/ AnnouncerSilent
  \/ \E k \in Keys, deletion \in BOOLEAN :
       Delivered(k, deletion) \/ Lost(k, deletion)
  \/ ListenerStep

(* Both programs' threads and unfinished calls run, and the network does not *)
(* lose every announcement of a stream that is announced for ever.           *)
DiscoveryFairness ==
  /\ WF_everything(A!AnnouncementThread /\ DiscoveryNext)
  /\ WF_everything(A!Finish /\ DiscoveryNext)
  /\ WF_everything(ListenerStep /\ (ListenerThread \/ Finish))
  /\ \A k \in Keys : SF_everything(Delivered(k, FALSE))

Discovery == DiscoveryInit /\ [][DiscoveryNext]_everything
FairDiscovery == Discovery /\ DiscoveryFairness
-----------------------------------------------------------------------------
Settled == pc = "top" /\ socket = <<>>

Shows(m) ==
  announcements[m.session] = [known |-> TRUE, addr |-> m.addr,
                              media |-> m.media, deleted |-> m.deleted]

(* While no packet is lost, a listener that has emptied its socket shows for *)
(* every session the last thing the announcer said about it, over stops,     *)
(* restarts and the announcer's races.                                       *)
DirectoryTracksAir ==
  Settled /\ ~lost =>
    \A s \in Sessions : aired[s].session = s => Shows(aired[s])

(* A running listener finds a stream that stays live on a running announcer, *)
(* however many packets are lost before.                                     *)
LiveStreamFound ==
  \A k \in Keys :
    (a_running /\ A!Live(k) /\ running) ~>
      \/ pc = "calling" /\ Shows(Packet(k, FALSE))
      \/ ~a_running \/ ~A!Live(k) \/ ~running \/ sockfd # "open"
=============================================================================
