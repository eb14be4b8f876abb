------------------------- MODULE SapAnnouncer_proofs -------------------------
(***************************************************************************)
(* Proofs about SapAnnouncer for every set of streams.                     *)
(***************************************************************************)
EXTENDS SapAnnouncer, TLAPS

(* Where the client is in a call, its loop stays inside the allocation.      *)
TypeInv ==
  /\ TypeOK
  /\ api = "marking" => cursor \in 1 .. size
  /\ api \in {"clearing", "cleared"} => limit \in 0 .. Len(storage)
  /\ api = "cleared" => cursor <= limit
  /\ api = "sweeping" => limit = size

(* A packet, sent or not, leaves the histories and aborted typed.            *)
LEMMA PacketTyped ==
  ASSUME TypeOK, NEW k, NEW deletion \in BOOLEAN, SendSapPacket(k, deletion)
  PROVE  /\ aborted' \in BOOLEAN
         /\ onair' \in [Keys -> {"never", "announced", "deleted"}]
         /\ late' \in [Keys -> 0 .. 2]
<1>1. CASE UNCHANGED wire
  BY <1>1 DEF TypeOK, SendSapPacket, wire
<1>2. CASE ~UNCHANGED wire
  <2>1. /\ aborted' = aborted
        /\ onair' = [j \in Keys |-> IF j # k THEN onair[j]
                                    ELSE IF deletion THEN "deleted"
                                    ELSE "announced"]
        /\ late' = [j \in Keys |-> IF j # k \/ deletion THEN late[j]
                                   ELSE IF Live(j) \/ late[j] = 2 THEN late[j]
                                   ELSE late[j] + 1]
    BY <1>2 DEF SendSapPacket
  <2>2. onair' \in [Keys -> {"never", "announced", "deleted"}]
    BY <2>1 DEF TypeOK
  <2>3. late' \in [Keys -> 0 .. 2]
    <3>1. \A j \in Keys : late[j] \in 0 .. 2
      BY DEF TypeOK
    <3>. QED BY <2>1, <3>1
  <2>. QED BY <2>1, <2>2, <2>3 DEF TypeOK
<1>. QED BY <1>1, <1>2

LEMMA RevivedTyped ==
  ASSUME TypeOK, Revived PROVE late' \in [Keys -> 0 .. 2]
<1>1. \A j \in Keys : late[j] \in 0 .. 2
  BY DEF TypeOK
<1>. QED BY <1>1 DEF Revived

(* Setting flags leaves the keys alone and the elements elements.            *)
LEMMA Flagged ==
  ASSUME NEW e \in Stream, NEW d \in BOOLEAN
  PROVE  /\ [e EXCEPT !.deleted = d] \in Stream
         /\ [e EXCEPT !.deleted = d].key = e.key
BY DEF Stream

LEMMA MarkTyped ==
  ASSUME NEW s \in Seq(Stream), NEW i \in 1 .. Len(s), NEW d \in BOOLEAN,
         NEW t, t = [s EXCEPT ![i].deleted = d]
  PROVE  /\ t \in Seq(Stream) /\ Len(t) = Len(s)
         /\ \A j \in 1 .. Len(s) : t[j].key = s[j].key
<1> DEFINE e == [s[i] EXCEPT !.deleted = d]
<1>1. s[i] \in Stream
  OBVIOUS
<1>2. e \in Stream /\ e.key = s[i].key
  BY <1>1, Flagged
<1>3. t = [s EXCEPT ![i] = e]
  OBVIOUS
<1> HIDE DEF e
<1>. QED BY <1>2, <1>3

LEMMA UndeleteTyped ==
  ASSUME TypeOK, NEW names, Undelete(names)
  PROVE  /\ storage' \in Seq(Stream) /\ Len(storage') = Len(storage)
         /\ \A j \in 1 .. Len(storage) : storage'[j].key = storage[j].key
<1> DEFINE e(i) == IF i <= size /\ storage[i].key.name \in names
                   THEN [storage[i] EXCEPT !.deleted = FALSE] ELSE storage[i]
<1>1. storage' = [i \in DOMAIN storage |-> e(i)]
  BY DEF Undelete
<1>2. /\ storage \in Seq(Stream) /\ DOMAIN storage = 1 .. Len(storage)
      /\ Len(storage) \in Nat
  BY DEF TypeOK
<1>3. \A i \in DOMAIN storage : e(i) \in Stream /\ e(i).key = storage[i].key
  <2> SUFFICES ASSUME NEW i \in DOMAIN storage
               PROVE  e(i) \in Stream /\ e(i).key = storage[i].key
    OBVIOUS
  <2>1. storage[i] \in Stream
    BY <1>2
  <2>2. /\ [storage[i] EXCEPT !.deleted = FALSE] \in Stream
        /\ [storage[i] EXCEPT !.deleted = FALSE].key = storage[i].key
    BY <2>1, Flagged
  <2>. QED BY <2>1, <2>2
<1> HIDE DEF e
<1>. QED BY <1>1, <1>2, <1>3

LEMMA TypeInvariant == Spec => []TypeInv
<1> USE DEF vectorVars, clientVars, threadVars
<1>1. Init => TypeInv
  <2> SUFFICES ASSUME Init PROVE TypeInv
    OBVIOUS
  <2>1. storage \in Seq(Stream) /\ Len(storage) = 0
    BY DEF Init
  <2>2. /\ onair \in [Keys -> {"never", "announced", "deleted"}]
        /\ late \in [Keys -> 0 .. 2]
    BY DEF Init
  <2>3. /\ size \in 0 .. Len(storage)
        /\ capacity \in Nat /\ Len(storage) <= capacity
    BY <2>1 DEF Init
  <2>4. cursor \in Nat \ {0} /\ limit \in Nat /\ index \in Nat \ {0} /\ end \in Nat
    BY DEF Init
  <2>5. TypeOK
    BY <2>1, <2>2, <2>3, <2>4 DEF Init, TypeOK
  <2>. QED BY <2>5 DEF Init, TypeInv
<1>2. ASSUME TypeInv, [Next]_vars PROVE TypeInv'
  <2> USE <1>2
  <2>1. TypeOK
    BY DEF TypeInv
  <2>2. /\ storage \in Seq(Stream) /\ Len(storage) \in Nat
        /\ size \in 0 .. Len(storage) /\ capacity \in Nat
        /\ Len(storage) <= capacity
    BY <2>1 DEF TypeOK
  <2>3. CASE Call \/ Finish
    <3>1. CASE Start \/ StartReturns \/ Stop \/ Joined \/ Destroy
      <4>1. CASE Start
        BY <4>1 DEF Start, TypeInv, TypeOK, wire
      <4>2. CASE StartReturns
        BY <4>2 DEF StartReturns, TypeInv, TypeOK, wire
      <4>3. CASE Stop
        BY <4>3 DEF Stop, Joining, TypeInv, TypeOK, wire
      <4>4. CASE Joined
        BY <2>2, <4>4 DEF Joined, TypeInv, TypeOK, wire
      <4>5. CASE Destroy
        BY <2>2, <4>5 DEF Destroy, TypeInv, TypeOK, wire
      <4>. QED BY <3>1, <4>1, <4>2, <4>3, <4>4, <4>5
    <3>2. CASE SweepEnds
      BY <3>2 DEF SweepEnds, TypeInv, TypeOK, wire
    <3>3. CASE DeleteAllStreams
      <4>1. /\ aborted' \in BOOLEAN
            /\ onair' \in [Keys -> {"never", "announced", "deleted"}]
            /\ late' \in [Keys -> 0 .. 2]
        BY <2>1, <3>3, PacketTyped DEF DeleteAllStreams, TypeOK, wire
      <4>. QED BY <3>3, <4>1 DEF DeleteAllStreams, TypeInv, TypeOK
    <3>4. ASSUME NEW k \in Keys, AddSapAnnouncement(k) PROVE TypeInv'
      <4>1. late' \in [Keys -> 0 .. 2]
        BY <2>1, <3>4, RevivedTyped DEF AddSapAnnouncement
      <4>2. [key |-> k, deleted |-> FALSE] \in Stream
        BY DEF Stream
      <4>3. CASE \A i \in 1 .. size : ~Matches(i, k)
        <5>1. PushBack([key |-> k, deleted |-> FALSE])
          BY <3>4, <4>3 DEF AddSapAnnouncement
        <5>2. /\ storage' \in Seq(Stream) /\ size' \in 0 .. Len(storage')
              /\ capacity' \in Nat /\ Len(storage') <= capacity'
          <6>1. CASE size < Len(storage)
            BY <2>2, <4>2, <5>1, <6>1 DEF PushBack, Grown
          <6>2. CASE size = Len(storage)
            <7>1. storage' = Append(storage, [key |-> k, deleted |-> FALSE])
              BY <5>1, <6>2 DEF PushBack
            <7>2. storage' \in Seq(Stream) /\ Len(storage') = Len(storage) + 1
              BY <2>2, <4>2, <7>1
            <7>. QED BY <2>2, <5>1, <6>2, <7>2 DEF PushBack, Grown
          <6>. QED BY <2>2, <6>1, <6>2
        <5>3. dangling' \in BOOLEAN
          BY <2>1, <5>1 DEF PushBack, TypeOK
        <5>. QED BY <2>1, <3>4, <4>1, <5>2, <5>3
                 DEF AddSapAnnouncement, TypeInv, TypeOK
      <4>4. CASE ~ \A i \in 1 .. size : ~Matches(i, k)
        <5>1. PICK i \in 1 .. size :
                /\ storage' = [storage EXCEPT ![i] = [key |-> k, deleted |-> FALSE]]
                /\ UNCHANGED <<size, capacity, dangling>>
          BY <3>4, <4>4 DEF AddSapAnnouncement
        <5>2. storage' \in Seq(Stream) /\ Len(storage') = Len(storage)
          BY <2>2, <4>2, <5>1
        <5>. QED BY <2>1, <3>4, <4>1, <5>1, <5>2
                 DEF AddSapAnnouncement, TypeInv, TypeOK
      <4>. QED BY <4>3, <4>4
    <3>5. ASSUME NEW n, NEW addresses, DeleteSapAnnouncement(n, addresses)
          PROVE  TypeInv'
      <4>1. PICK i \in 1 .. size : cursor' = i /\ SendSapPacket(storage[i].key, TRUE)
        BY <3>5 DEF DeleteSapAnnouncement
      <4>2. /\ aborted' \in BOOLEAN
            /\ onair' \in [Keys -> {"never", "announced", "deleted"}]
            /\ late' \in [Keys -> 0 .. 2]
        BY <2>1, <4>1, PacketTyped
      <4>3. cursor' \in 1 .. size
        BY <4>1
      <4>. QED BY <3>5, <4>2, <4>3 DEF DeleteSapAnnouncement, TypeInv, TypeOK
    <3>6. CASE MarkDeleted
      <4>1. cursor \in 1 .. Len(storage)
        BY <2>2, <3>6 DEF MarkDeleted, TypeInv
      <4>2. storage' \in Seq(Stream) /\ Len(storage') = Len(storage)
        BY <2>2, <3>6, <4>1, MarkTyped DEF MarkDeleted
      <4>. QED BY <3>6, <4>2 DEF MarkDeleted, TypeInv, TypeOK, wire
    <3>7. ASSUME NEW names, api = "idle", Undelete(names) PROVE TypeInv'
      <4>1. storage' \in Seq(Stream) /\ Len(storage') = Len(storage)
        BY <2>1, <3>7, UndeleteTyped
      <4>2. late' \in [Keys -> 0 .. 2]
        BY <2>1, <3>7, RevivedTyped DEF Undelete
      <4>. QED BY <3>7, <4>1, <4>2 DEF Undelete, TypeInv, TypeOK
    <3>8. CASE DeleteAllSapAnnouncements
      BY <3>8 DEF DeleteAllSapAnnouncements, TypeInv, TypeOK, wire
    <3>9. CASE SendsDeletion
      <4>1. /\ aborted' \in BOOLEAN
            /\ onair' \in [Keys -> {"never", "announced", "deleted"}]
            /\ late' \in [Keys -> 0 .. 2]
        BY <2>1, <3>9, PacketTyped DEF SendsDeletion, TypeOK, wire
      <4>. QED BY <3>9, <4>1 DEF SendsDeletion, TypeInv, TypeOK
    <3>10. CASE Clears
      <4>1. cursor \in 1 .. Len(storage)
        BY <2>1, <2>2, <3>10 DEF Clears, TypeInv, TypeOK
      <4>2. storage' \in Seq(Stream) /\ Len(storage') = Len(storage)
        BY <2>2, <3>10, <4>1, MarkTyped DEF Clears
      <4>3. aborted' \in BOOLEAN
        BY <3>10 DEF Clears
      <4>. QED BY <2>2, <3>10, <4>2, <4>3 DEF Clears, TypeInv, TypeOK, wire
    <3>11. CASE Restart
      BY <3>7, <3>11 DEF Restart
    <3>12. ASSUME NEW n, UndeleteSapAnnouncement(n) PROVE TypeInv'
      BY <3>7, <3>12 DEF UndeleteSapAnnouncement
    <3>. QED BY <2>3, <3>1, <3>2, <3>3, <3>4, <3>5, <3>6, <3>8, <3>9, <3>10,
                <3>11, <3>12 DEF Call, Finish
  <2>4. CASE AnnouncementThread
    <3>1. CASE ThreadStarts \/ LoopTop \/ PassEnds \/ Wake
      <4>1. CASE ThreadStarts
        BY <4>1 DEF ThreadStarts, Started, TypeInv, TypeOK, wire
      <4>2. CASE LoopTop
        <5>1. /\ index' \in Nat \ {0} /\ end' \in Nat /\ dangling' \in BOOLEAN
              /\ pc' \in {"scan", "ended"}
          <6>1. CASE running
            <7>1. /\ pc' = "scan" /\ index' = 1 /\ end' = size
                  /\ dangling' = FALSE
              BY <4>2, <6>1, Zenon DEF LoopTop, FirstIndex
            <7>2. size \in Nat
              BY <2>2
            <7>3. end' \in Nat
              BY <7>1, <7>2
            <7>4. index' \in Nat \ {0}
              BY <7>1
            <7>5. dangling' \in BOOLEAN /\ pc' \in {"scan", "ended"}
              BY <7>1
            <7>. QED BY <7>3, <7>4, <7>5
          <6>2. CASE ~running
            BY <2>1, <4>2, <6>2 DEF LoopTop, TypeOK
          <6>. QED BY <6>1, <6>2
        <5>. QED BY <4>2, <5>1 DEF LoopTop, TypeInv, TypeOK, wire
      <4>3. CASE PassEnds \/ Wake
        BY <4>3 DEF PassEnds, Wake, TypeInv, TypeOK, wire
      <4>. QED BY <3>1, <4>1, <4>2, <4>3
    <3>2. CASE Scan
      BY <3>2 DEF Scan, TypeInv, TypeOK, wire
    <3>3. CASE SendSapAnnouncement
      <4>1. /\ aborted' \in BOOLEAN
            /\ onair' \in [Keys -> {"never", "announced", "deleted"}]
            /\ late' \in [Keys -> 0 .. 2]
        BY <2>1, <3>3, PacketTyped DEF SendSapAnnouncement, Crash, TypeOK, wire
      <4>. QED BY <3>3, <4>1 DEF SendSapAnnouncement, TypeInv, TypeOK
    <3>. QED BY <2>4, <3>1, <3>2, <3>3 DEF AnnouncementThread
  <2>5. CASE UNCHANGED vars
    BY <2>5 DEF vars, wire, TypeInv, TypeOK
  <2>. QED BY <2>3, <2>4, <2>5 DEF Next
<1>. QED BY <1>1, <1>2, PTL DEF Spec

(* The announcer's variables are of their types.                             *)
THEOREM TypeCorrect == Spec => []TypeOK
<1>1. TypeInv => TypeOK
  BY DEF TypeInv
<1>. QED BY <1>1, TypeInvariant, PTL
-----------------------------------------------------------------------------
(* Streams stay unique: only AddSapAnnouncement() gives an element another   *)
(* key, and it appends one only when no element has it.                      *)
LEMMA SameKeysUnique ==
  ASSUME UniqueStreams, size' = size,
         \A j \in 1 .. size : storage'[j].key = storage[j].key
  PROVE  UniqueStreams'
BY DEF UniqueStreams

THEOREM StreamsUnique == Spec => []UniqueStreams
<1> USE DEF vectorVars, clientVars, threadVars
<1>1. Init => UniqueStreams
  <2> SUFFICES ASSUME Init PROVE UniqueStreams
    OBVIOUS
  <2>1. size = 0
    BY DEF Init
  <2>. QED BY <2>1 DEF UniqueStreams
<1>2. ASSUME TypeOK, TypeInv, UniqueStreams, [Next]_vars PROVE UniqueStreams'
  <2> USE <1>2
  <2>1. /\ storage \in Seq(Stream) /\ Len(storage) \in Nat
        /\ size \in 0 .. Len(storage)
    BY DEF TypeOK
  <2>2. CASE UNCHANGED <<storage, size>>
    BY <2>2 DEF UniqueStreams
  <2>3. ASSUME NEW k \in Keys, AddSapAnnouncement(k) PROVE UniqueStreams'
    <3> DEFINE e == [key |-> k, deleted |-> FALSE]
    <3>1. e \in Stream /\ e.key = k
      BY DEF Stream
    <3>2. CASE \A i \in 1 .. size : ~Matches(i, k)
      <4>1. PushBack(e)
        BY <2>3, <3>2 DEF AddSapAnnouncement
      <4>2. storage'[size + 1] = e /\ \A j \in 1 .. size : storage'[j] = storage[j]
        <5> HIDE DEF e
        <5>1. CASE size < Len(storage)
          BY <2>1, <4>1, <5>1 DEF PushBack
        <5>2. CASE size = Len(storage)
          <6>1. storage' = Append(storage, e)
            BY <4>1, <5>2 DEF PushBack
          <6>. QED BY <2>1, <3>1, <5>2, <6>1
        <5>. QED BY <2>1, <5>1, <5>2
      <4>3. size' = size + 1
        BY <4>1 DEF PushBack
      <4>4. \A j \in 1 .. size : storage[j].key # k
        BY <3>2 DEF Matches
      <4> HIDE DEF e
      <4>. QED BY <2>1, <3>1, <4>2, <4>3, <4>4 DEF UniqueStreams
    <3>3. CASE ~ \A i \in 1 .. size : ~Matches(i, k)
      <4>1. PICK i \in 1 .. size :
              /\ Matches(i, k)
              /\ storage' = [storage EXCEPT ![i] = e]
              /\ size' = size
        BY <2>3, <3>3 DEF AddSapAnnouncement
      <4>2. storage[i].key = k
        BY <4>1 DEF Matches
      <4> HIDE DEF e
      <4>3. \A j \in 1 .. size : storage'[j].key = storage[j].key
        BY <2>1, <3>1, <4>1, <4>2
      <4>. QED BY <4>1, <4>3, SameKeysUnique
    <3>. QED BY <3>2, <3>3
  <2>4. CASE MarkDeleted
    <3>1. cursor \in 1 .. Len(storage)
      BY <2>1, <2>4 DEF MarkDeleted, TypeInv
    <3>2. storage' = [storage EXCEPT ![cursor].deleted = TRUE] /\ size' = size
      BY <2>4 DEF MarkDeleted
    <3>3. \A j \in 1 .. Len(storage) : storage'[j].key = storage[j].key
      BY <2>1, <3>1, <3>2, MarkTyped
    <3>. QED BY <2>1, <3>2, <3>3, SameKeysUnique
  <2>5. ASSUME NEW names, Undelete(names) PROVE UniqueStreams'
    <3>1. \A j \in 1 .. Len(storage) : storage'[j].key = storage[j].key
      BY <2>5, UndeleteTyped
    <3>2. size' = size
      BY <2>5 DEF Undelete
    <3>. QED BY <2>1, <3>1, <3>2, SameKeysUnique
  <2>6. CASE Clears
    <3>1. size' = 0
      BY <2>6 DEF Clears
    <3>. QED BY <3>1 DEF UniqueStreams
  <2>7. CASE \/ Start \/ Stop \/ Destroy \/ DeleteAllSapAnnouncements
             \/ StartReturns \/ Joined \/ DeleteAllStreams \/ SweepEnds
             \/ SendsDeletion \/ AnnouncementThread
    BY <2>2, <2>7
       DEF Start, Stop, Destroy, DeleteAllSapAnnouncements, StartReturns,
           Joined, DeleteAllStreams, SweepEnds, SendsDeletion,
           AnnouncementThread, ThreadStarts, LoopTop, Scan,
           SendSapAnnouncement, PassEnds, Wake
  <2>8. ASSUME NEW n, NEW a, DeleteSapAnnouncement(n, a) PROVE UniqueStreams'
    BY <2>2, <2>8 DEF DeleteSapAnnouncement
  <2>. QED
    <3>1. CASE UNCHANGED vars
      BY <2>2, <3>1 DEF vars
    <3>2. CASE Call
      BY <2>3, <2>5, <2>7, <2>8, <3>2
         DEF Call, Restart, UndeleteSapAnnouncement
    <3>3. CASE Finish \/ AnnouncementThread
      BY <2>4, <2>6, <2>7, <3>3 DEF Finish
    <3>. QED BY <3>1, <3>2, <3>3 DEF Next
<1>. QED BY <1>1, <1>2, TypeInvariant, TypeCorrect, PTL DEF Spec
-----------------------------------------------------------------------------
(* A thread that has not begun is one Start() waits for; a join, and the     *)
(* sweep behind it, run after the flag is cleared.                           *)
Lifecycle ==
  /\ QuietAfterStop
  /\ pc = "spawned" => api = "starting" /\ ~running
  /\ api = "joining" => ~running
  /\ api = "sweeping" /\ after # "stopping" => ~running

LEMMA LifecycleInvariant == Spec => []Lifecycle
<1> USE DEF vectorVars, clientVars, threadVars, Lifecycle, QuietAfterStop
<1>1. Init => Lifecycle
  BY DEF Init
<1>2. ASSUME TypeOK, Lifecycle, [Next]_vars PROVE Lifecycle'
  <2> USE <1>2
  <2>1. after \in {"idle", "stopping", "gone"}
    BY DEF TypeOK
  <2>2. CASE Start \/ StartReturns \/ Stop \/ Joined \/ Destroy
    <3>1. CASE Start
      BY <3>1 DEF Start
    <3>2. CASE StartReturns
      BY <3>2 DEF StartReturns
    <3>3. CASE Stop
      BY <3>3 DEF Stop, Joining
    <3>4. CASE Joined
      BY <3>4 DEF Joined
    <3>5. CASE Destroy
      BY <3>5 DEF Destroy
    <3>. QED BY <2>2, <3>1, <3>2, <3>3, <3>4, <3>5
  <2>3. CASE SweepEnds
    BY <2>1, <2>3 DEF SweepEnds
  <2>4. CASE DeleteAllStreams
    BY <2>4 DEF DeleteAllStreams
  <2>5. ASSUME api = "idle", api' \notin {"joining", "sweeping"},
               UNCHANGED <<running, pc>>
        PROVE  Lifecycle'
    BY <2>5
  <2>6. ASSUME NEW k, AddSapAnnouncement(k) PROVE Lifecycle'
    BY <2>5, <2>6 DEF AddSapAnnouncement
  <2>7. ASSUME NEW n, NEW a, DeleteSapAnnouncement(n, a) PROVE Lifecycle'
    BY <2>5, <2>7 DEF DeleteSapAnnouncement
  <2>8. ASSUME NEW names, api = "idle", Undelete(names) PROVE Lifecycle'
    BY <2>5, <2>8 DEF Undelete
  <2>9. CASE DeleteAllSapAnnouncements
    BY <2>5, <2>9 DEF DeleteAllSapAnnouncements
  <2>10. CASE MarkDeleted \/ SendsDeletion \/ Clears
    BY <2>10 DEF MarkDeleted, SendsDeletion, Clears
  <2>11. CASE AnnouncementThread
    <3>1. CASE ThreadStarts
      BY <3>1 DEF ThreadStarts, Started
    <3>2. CASE LoopTop
      BY <3>2 DEF LoopTop
    <3>3. CASE Scan \/ SendSapAnnouncement \/ PassEnds \/ Wake
      <4>1. /\ pc # "none" /\ pc # "spawned" /\ pc' # "spawned"
            /\ UNCHANGED <<api, running, after>>
        BY <3>3 DEF Scan, SendSapAnnouncement, PassEnds, Wake
      <4>. QED BY <4>1
    <3>. QED BY <2>11, <3>1, <3>2, <3>3 DEF AnnouncementThread
  <2>. QED
    <3>1. CASE UNCHANGED vars
      BY <3>1 DEF vars
    <3>2. CASE Call
      BY <2>2, <2>6, <2>7, <2>8, <2>9, <3>2
         DEF Call, Restart, UndeleteSapAnnouncement
    <3>3. CASE Finish
      BY <2>2, <2>3, <2>4, <2>10, <3>3 DEF Finish
    <3>. QED BY <2>11, <3>1, <3>2, <3>3 DEF Next
<1>. QED BY <1>1, <1>2, TypeCorrect, PTL DEF Spec

(* After Stop() has joined there is no announcement thread.                  *)
THEOREM Quiet == Spec => []QuietAfterStop
<1>1. Lifecycle => QuietAfterStop
  BY DEF Lifecycle
<1>. QED BY <1>1, LifecycleInvariant, PTL

(* Behind Stop()'s sweep every stream that is not deleted has its deletion   *)
(* as its last packet: the thread that might announce it again is joined.    *)
THEOREM StopSilences == Spec => []StopSilencesStreams
<1> USE DEF vectorVars, clientVars, threadVars
<1>1. Init => StopSilencesStreams
  BY DEF Init, StopSilencesStreams
<1>2. ASSUME TypeInv, Lifecycle, StopSilencesStreams, [Next]_vars
      PROVE  StopSilencesStreams'
  <2> USE <1>2
  <2>1. /\ storage \in Seq(Stream) /\ size \in 0 .. Len(storage)
        /\ Len(storage) \in Nat /\ cursor \in Nat \ {0}
        /\ after \in {"idle", "stopping", "gone"}
    BY DEF TypeInv, TypeOK
  <2>2. CASE api' # "sweeping" \/ aborted'
    BY <2>2 DEF StopSilencesStreams
  <2>3. CASE UNCHANGED <<storage, api, cursor, after, sockfd, aborted, onair>>
    BY <2>3 DEF StopSilencesStreams
  <2>4. CASE Joined \/ Destroy
    <3>1. cursor' = 1
      BY <2>4 DEF Joined, Destroy
    <3>. QED BY <3>1 DEF StopSilencesStreams
  <2>5. CASE DeleteAllStreams
    <3> SUFFICES ASSUME after # "stopping", sockfd = "open", ~aborted',
                        ~aborted, NEW i \in 1 .. cursor, ~storage[i].deleted
                 PROVE  onair'[storage[i].key] = "deleted"
      <4>1. /\ api = "sweeping" /\ cursor' = cursor + 1
            /\ UNCHANGED <<storage, api, after, sockfd>>
        BY <2>5 DEF DeleteAllStreams
      <4>2. CASE aborted
        BY <2>5, <4>2 DEF Next, vars, DeleteAllStreams, SendSapPacket
      <4>. QED BY <2>1, <4>1, <4>2 DEF StopSilencesStreams
    <3>1. cursor <= size
      BY <2>5 DEF DeleteAllStreams, TypeInv
    <3>2. storage[i] \in Stream
      BY <2>1, <3>1
    <3>3. storage[i].key \in Keys
      BY <3>2 DEF Stream
    <3>4. i < cursor => onair[storage[i].key] = "deleted"
      BY <2>1, <2>5 DEF DeleteAllStreams, StopSilencesStreams
    <3>5. CASE storage[cursor].deleted
      BY <2>1, <2>5, <3>4, <3>5 DEF DeleteAllStreams, wire
    <3>6. CASE ~storage[cursor].deleted
      <4>1. onair' = [j \in Keys |-> IF j # storage[cursor].key THEN onair[j]
                                     ELSE "deleted"]
        BY <2>5, <3>6 DEF DeleteAllStreams, SendSapPacket
      <4>. QED BY <2>1, <3>3, <3>4, <4>1
    <3>. QED BY <3>5, <3>6
  <2>6. CASE \/ Start \/ StartReturns \/ Stop \/ SweepEnds \/ MarkDeleted
             \/ DeleteAllSapAnnouncements \/ SendsDeletion \/ Clears
    BY <2>1, <2>2, <2>6
       DEF Start, StartReturns, Stop, Joining, SweepEnds, MarkDeleted,
           DeleteAllSapAnnouncements, SendsDeletion, Clears
  <2>7. ASSUME NEW k, AddSapAnnouncement(k) PROVE StopSilencesStreams'
    BY <2>2, <2>7 DEF AddSapAnnouncement
  <2>8. ASSUME NEW n, NEW a, DeleteSapAnnouncement(n, a)
        PROVE  StopSilencesStreams'
    BY <2>2, <2>8 DEF DeleteSapAnnouncement
  <2>9. ASSUME NEW names, api = "idle", Undelete(names)
        PROVE  StopSilencesStreams'
    BY <2>2, <2>9 DEF Undelete
  <2>10. CASE AnnouncementThread
    <3>1. CASE api = "sweeping" /\ after # "stopping"
      <4>1. pc = "none"
        BY <3>1 DEF Lifecycle, QuietAfterStop
      <4>. QED BY <2>10, <4>1 DEF AnnouncementThread, ThreadStarts, LoopTop,
                  Scan, SendSapAnnouncement, PassEnds, Wake
    <3>2. CASE ~(api = "sweeping" /\ after # "stopping")
      <4>1. UNCHANGED <<api, after>>
        BY <2>10 DEF AnnouncementThread, ThreadStarts, LoopTop, Scan,
                  SendSapAnnouncement, PassEnds, Wake
      <4>. QED BY <3>2, <4>1 DEF StopSilencesStreams
    <3>. QED BY <3>1, <3>2
  <2>. QED
    <3>1. CASE UNCHANGED vars
      BY <2>3, <3>1 DEF vars, wire
    <3>2. CASE Call
      BY <2>4, <2>6, <2>7, <2>8, <2>9, <3>2
         DEF Call, Restart, UndeleteSapAnnouncement
    <3>3. CASE Finish
      BY <2>4, <2>5, <2>6, <3>3 DEF Finish
    <3>. QED BY <2>10, <3>1, <3>2, <3>3 DEF Next
<1>. QED BY <1>1, <1>2, TypeInvariant, LifecycleInvariant, PTL DEF Spec
-----------------------------------------------------------------------------
(* Why a deleted stream is announced at most once more: late counts from the *)
(* last time the key was live, and what the thread has still in front of it  *)
(* in its pass was live when it passed the test, or has not been announced.  *)

InPass == pc \in {"scan", "send"}
InClear == api \in {"clearing", "cleared"}
Behind == (size + 1) .. Len(storage)

PassInBounds ==
  /\ InPass => end <= Len(storage)
  /\ pc = "send" => index <= end

LiveInTime == \A k \in Keys : Live(k) => late[k] = 0

SendInTime == pc = "send" /\ ~dangling => late[storage[index].key] = 0

(* The elements that are not in the vector any more are deleted, but for     *)
(* those DeleteAllSapAnnouncements() still walks.                            *)
TailDeleted ==
  \A i \in Behind : ~storage[i].deleted =>
    /\ InClear /\ cursor <= i /\ i <= limit
    /\ InPass /\ index <= i /\ i <= end => late[storage[i].key] = 0

ClearingUnique ==
  InClear => /\ size = 0 \/ (size = limit /\ cursor = 1)
             /\ \A i, j \in 1 .. limit :
                  storage[i].key = storage[j].key => i = j

SilentInv ==
  /\ DeletedFallsSilent
  /\ PassInBounds
  /\ LiveInTime
  /\ SendInTime
  /\ TailDeleted
  /\ ClearingUnique

(* A deletion packet does not count as an announcement.                      *)
LEMMA DeletionOnTime ==
  ASSUME TypeOK, NEW k, SendSapPacket(k, TRUE) PROVE late' = late
<1>1. CASE UNCHANGED wire
  BY <1>1 DEF wire
<1>2. CASE ~UNCHANGED wire
  <2>1. late' = [j \in Keys |-> late[j]]
    BY <1>2 DEF SendSapPacket
  <2>2. late \in [Keys -> 0 .. 2]
    BY DEF TypeOK
  <2>. QED BY <2>1, <2>2
<1>. QED BY <1>1, <1>2

(* Undeleting and adding streams only takes lateness away.                   *)
LEMMA RevivedOnTime ==
  ASSUME TypeOK, Revived
  PROVE  \A k \in Keys : /\ Live(k)' => late'[k] = 0
                         /\ late'[k] <= late[k]
                         /\ late[k] = 0 => late'[k] = 0
<1>1. \A k \in Keys : late[k] \in 0 .. 2
  BY DEF TypeOK
<1>2. \A k \in Keys : late'[k] = IF Live(k)' THEN 0 ELSE late[k]
  BY Zenon DEF Revived
<1>. QED BY <1>1, <1>2

LEMMA Elements ==
  ASSUME TypeOK
  PROVE  /\ \A i \in 1 .. Len(storage) : storage[i].key \in Keys
         /\ Len(storage) \in Nat /\ size \in 0 .. Len(storage)
         /\ cursor \in Nat \ {0} /\ limit \in Nat
         /\ index \in Nat \ {0} /\ end \in Nat
         /\ \A k \in Keys : late[k] \in 0 .. 2
<1>1. storage \in Seq(Stream) /\ Len(storage) \in Nat
  BY DEF TypeOK
<1>2. \A i \in 1 .. Len(storage) : storage[i] \in Stream
  BY <1>1
<1>3. \A i \in 1 .. Len(storage) : storage[i].key \in Keys
  BY <1>2 DEF Stream
<1>. QED BY <1>1, <1>3 DEF TypeOK

(* Outside a clear everything behind the vector is deleted.                  *)
LEMMA IdleTail ==
  ASSUME TailDeleted, ~InClear
  PROVE  \A i \in Behind : storage[i].deleted
BY DEF TailDeleted

(* Steps that touch neither the elements nor the counts, and leave the       *)
(* thread where it is or out of its pass.                                    *)
LEMMA SilentStutter ==
  ASSUME TypeOK, SilentInv,
         UNCHANGED <<storage, size, late>>,
         InPass' => UNCHANGED <<pc, index, end, dangling>>,
         InClear' <=> InClear,
         InClear => UNCHANGED <<cursor, limit>>
  PROVE  SilentInv'
<1>1. DeletedFallsSilent' /\ LiveInTime'
  BY DEF SilentInv, DeletedFallsSilent, LiveInTime, Live
<1>2. PassInBounds' /\ SendInTime'
  <2>1. CASE InPass'
    BY <2>1 DEF SilentInv, PassInBounds, SendInTime, InPass
  <2>2. CASE ~InPass'
    BY <2>2 DEF PassInBounds, SendInTime, InPass
  <2>. QED BY <2>1, <2>2
<1>3. TailDeleted'
  <2> SUFFICES ASSUME NEW i \in Behind, ~storage[i].deleted
               PROVE  /\ InClear' /\ cursor' <= i /\ i <= limit'
                      /\ InPass' /\ index' <= i /\ i <= end'
                           => late[storage[i].key] = 0
    BY DEF TailDeleted, Behind
  <2>1. /\ InClear /\ cursor <= i /\ i <= limit
        /\ InPass /\ index <= i /\ i <= end => late[storage[i].key] = 0
    BY DEF SilentInv, TailDeleted
  <2>2. InClear' /\ cursor' <= i /\ i <= limit'
    BY <2>1
  <2>3. CASE InPass'
    BY <2>1, <2>2, <2>3 DEF InPass
  <2>4. CASE ~InPass'
    BY <2>2, <2>4
  <2>. QED BY <2>3, <2>4
<1>4. ClearingUnique'
  BY DEF SilentInv, ClearingUnique
<1>. QED BY <1>1, <1>2, <1>3, <1>4 DEF SilentInv

LEMMA SilentAdd ==
  ASSUME TypeOK, SilentInv, NEW k \in Keys, AddSapAnnouncement(k)
  PROVE  SilentInv'
<1> DEFINE e == [key |-> k, deleted |-> FALSE]
<1>1. /\ storage \in Seq(Stream) /\ Len(storage) \in Nat
      /\ size \in 0 .. Len(storage)
      /\ index \in Nat \ {0} /\ end \in Nat
  BY DEF TypeOK
<1>2. ~InClear /\ ~InClear' /\ UNCHANGED <<pc, index, end>>
  BY DEF AddSapAnnouncement, InClear, clientVars
<1>3. \A j \in Keys : /\ Live(j)' => late'[j] = 0
                      /\ late'[j] <= late[j]
                      /\ late[j] = 0 => late'[j] = 0
  BY RevivedOnTime DEF AddSapAnnouncement
<1>4. \A j \in Keys : late[j] \in 0 .. 2 /\ late'[j] \in 0 .. 2
  BY RevivedTyped DEF TypeOK, AddSapAnnouncement
<1>5. e \in Stream /\ e.key = k /\ ~e.deleted
  BY DEF Stream
<1> HIDE DEF e
<1>6. \E i \in 1 .. (size + 1) :
        /\ i \in 1 .. Len(storage')
        /\ storage'[i] = e
        /\ \A j \in 1 .. Len(storage) : j # i => storage'[j] = storage[j]
        /\ i <= size'
        /\ size <= size' /\ size' \in Nat
        /\ Len(storage') \in Nat /\ Len(storage') >= Len(storage)
        /\ Len(storage') <= Len(storage) \/ size' = Len(storage')
        /\ ~dangling' => ~dangling
  <2>1. CASE \A i \in 1 .. size : ~Matches(i, k)
    <3>1. PushBack(e)
      BY <2>1 DEF AddSapAnnouncement, e
    <3>2. size' = size + 1 /\ (~dangling' => ~dangling)
      BY <3>1 DEF PushBack
    <3>3. CASE size < Len(storage)
      <4>1. storage' = [storage EXCEPT ![size + 1] = e]
        BY <3>1, <3>3 DEF PushBack
      <4>2. /\ Len(storage') = Len(storage) /\ storage'[size + 1] = e
            /\ \A j \in 1 .. Len(storage) :
                 j # size + 1 => storage'[j] = storage[j]
        BY <1>1, <1>5, <3>3, <4>1
      <4>. QED BY <1>1, <3>2, <3>3, <4>2
    <3>4. CASE size = Len(storage)
      <4>1. storage' = Append(storage, e)
        BY <3>1, <3>4 DEF PushBack
      <4>2. /\ Len(storage') = Len(storage) + 1 /\ storage'[size + 1] = e
            /\ \A j \in 1 .. Len(storage) : storage'[j] = storage[j]
        BY <1>1, <1>5, <3>4, <4>1
      <4>. QED BY <1>1, <3>2, <3>4, <4>2
    <3>. QED BY <1>1, <3>3, <3>4
  <2>2. CASE ~ \A i \in 1 .. size : ~Matches(i, k)
    <3>1. PICK i \in 1 .. size :
            storage' = [storage EXCEPT ![i] = e]
            /\ UNCHANGED <<size, capacity, dangling>>
      BY <2>2 DEF AddSapAnnouncement, e
    <3>2. /\ Len(storage') = Len(storage) /\ storage'[i] = e
          /\ \A j \in 1 .. Len(storage) : j # i => storage'[j] = storage[j]
      BY <1>1, <1>5, <3>1
    <3>. QED BY <1>1, <3>1, <3>2
  <2>. QED BY <2>1, <2>2
<1>7. PICK i \in 1 .. (size + 1) :
        /\ i \in 1 .. Len(storage')
        /\ storage'[i] = e
        /\ \A j \in 1 .. Len(storage) : j # i => storage'[j] = storage[j]
        /\ i <= size'
        /\ size <= size' /\ size' \in Nat
        /\ Len(storage') \in Nat /\ Len(storage') >= Len(storage)
        /\ Len(storage') <= Len(storage) \/ size' = Len(storage')
        /\ ~dangling' => ~dangling
  BY <1>6
<1>8. DeletedFallsSilent'
  BY <1>3, <1>4 DEF SilentInv, DeletedFallsSilent
<1>9. LiveInTime'
  BY <1>3 DEF LiveInTime
<1>10. PassInBounds'
  BY <1>1, <1>2, <1>7 DEF SilentInv, PassInBounds, InPass
<1>11. SendInTime'
  <2> SUFFICES ASSUME pc = "send", ~dangling' PROVE late'[storage'[index].key] = 0
    BY <1>2 DEF SendInTime
  <2>1. late[storage[index].key] = 0 /\ index \in 1 .. Len(storage)
    BY <1>1, <1>7 DEF SilentInv, SendInTime, PassInBounds, InPass
  <2>2. CASE index = i
    <3>1. Live(k)'
      BY <1>5, <1>7 DEF Live
    <3>. QED BY <1>3, <1>5, <1>7, <2>2, <3>1
  <2>3. CASE index # i
    <3>1. storage'[index] = storage[index] /\ storage[index].key \in Keys
      BY <1>7, <2>1, <2>3, Elements
    <3>. QED BY <1>3, <2>1, <3>1
  <2>. QED BY <2>2, <2>3
<1>12. TailDeleted'
  <2> SUFFICES ASSUME NEW j \in Behind' PROVE storage'[j].deleted
    BY DEF TailDeleted
  <2>1. j \in (size' + 1) .. Len(storage')
    BY DEF Behind
  <2>2. j # i /\ j \in (size + 1) .. Len(storage)
    <3>1. /\ size' \in Nat /\ Len(storage') \in Nat
          /\ size <= size' /\ i <= size'
          /\ Len(storage') <= Len(storage) \/ size' = Len(storage')
      BY <1>7
    <3>2. /\ j \in Nat /\ size' < j /\ j <= Len(storage')
      <4>1. \A a, b \in Nat : \A n \in (a + 1) .. b :
              n \in Nat /\ a < n /\ n <= b
        OBVIOUS
      <4>2. size' \in Nat /\ Len(storage') \in Nat
        BY <3>1
      <4>. QED BY <2>1, <4>1, <4>2, Zenon
    <3>3. Len(storage') <= Len(storage)
      BY <3>1, <3>2
    <3>4. j # i
      BY <1>1, <3>1, <3>2
    <3>5. size < j /\ j <= Len(storage)
      BY <1>1, <3>1, <3>2, <3>3
    <3>. QED BY <1>1, <3>2, <3>4, <3>5
  <2>3. storage[j].deleted
    BY <1>2, <2>2, IdleTail DEF SilentInv, Behind
  <2>. QED BY <1>1, <1>7, <2>2, <2>3
<1>13. ClearingUnique'
  BY <1>2 DEF ClearingUnique
<1>. QED BY <1>8, <1>9, <1>10, <1>11, <1>12, <1>13 DEF SilentInv

LEMMA SilentUndelete ==
  ASSUME TypeOK, SilentInv, NEW names, api = "idle", Undelete(names)
  PROVE  SilentInv'
<1>1. /\ storage \in Seq(Stream) /\ Len(storage) \in Nat
      /\ size \in 0 .. Len(storage)
      /\ index \in Nat \ {0} /\ end \in Nat
  BY DEF TypeOK
<1>2. ~InClear /\ ~InClear' /\ UNCHANGED <<size, pc, index, end, dangling>>
  BY DEF Undelete, InClear, clientVars, threadVars
<1>3. \A j \in Keys : /\ Live(j)' => late'[j] = 0
                      /\ late'[j] <= late[j]
                      /\ late[j] = 0 => late'[j] = 0
  BY RevivedOnTime DEF Undelete
<1>4. \A j \in Keys : late[j] \in 0 .. 2 /\ late'[j] \in 0 .. 2
  BY RevivedTyped DEF TypeOK, Undelete
<1>5. /\ Len(storage') = Len(storage)
      /\ \A j \in 1 .. Len(storage) : storage'[j].key = storage[j].key
  BY UndeleteTyped
<1>6. \A j \in Behind : storage'[j] = storage[j]
  BY <1>1 DEF Undelete, Behind
<1>7. DeletedFallsSilent' /\ LiveInTime'
  BY <1>3, <1>4 DEF SilentInv, DeletedFallsSilent, LiveInTime
<1>8. PassInBounds'
  BY <1>2, <1>5 DEF SilentInv, PassInBounds, InPass
<1>9. SendInTime'
  <2> SUFFICES ASSUME pc = "send", ~dangling PROVE late'[storage'[index].key] = 0
    BY <1>2 DEF SendInTime
  <2>1. late[storage[index].key] = 0 /\ index \in 1 .. Len(storage)
    BY <1>1 DEF SilentInv, SendInTime, PassInBounds, InPass
  <2>. QED BY <1>3, <1>5, <2>1, Elements
<1>10. TailDeleted'
  <2>1. Behind' = Behind
    BY <1>2, <1>5 DEF Behind
  <2>. QED BY <1>2, <1>6, <2>1, IdleTail DEF SilentInv, TailDeleted
<1>11. ClearingUnique'
  BY <1>2 DEF ClearingUnique
<1>. QED BY <1>7, <1>8, <1>9, <1>10, <1>11 DEF SilentInv

(* Setting the flag of an element, and no other.                             *)
LEMMA MarkedAt ==
  ASSUME NEW s \in Seq(Stream), NEW c \in 1 .. Len(s), NEW e, e.deleted,
         NEW t, t = [s EXCEPT ![c] = e]
  PROVE  \A j \in 1 .. Len(s) : ~t[j].deleted => j # c /\ ~s[j].deleted
<1>1. \A j \in 1 .. Len(s) : j # c => t[j] = s[j]
  OBVIOUS
<1>2. t[c] = e
  OBVIOUS
<1>. QED BY <1>1, <1>2

LEMMA Marked ==
  ASSUME TypeOK, NEW c \in 1 .. Len(storage),
         storage' = [storage EXCEPT ![c].deleted = TRUE]
  PROVE  /\ Len(storage') = Len(storage)
         /\ \A j \in 1 .. Len(storage) : storage'[j].key = storage[j].key
         /\ \A j \in 1 .. Len(storage) :
              ~storage'[j].deleted => j # c /\ ~storage[j].deleted
<1>1. storage \in Seq(Stream)
  BY DEF TypeOK
<1>2. Len(storage') = Len(storage)
      /\ \A j \in 1 .. Len(storage) : storage'[j].key = storage[j].key
  BY <1>1, MarkTyped
<1>3. storage[c] \in Stream
  BY <1>1
<1> DEFINE e == [storage[c] EXCEPT !.deleted = TRUE]
<1>4. e.deleted
  BY <1>3 DEF Stream
<1>5. storage' = [storage EXCEPT ![c] = e]
  OBVIOUS
<1> HIDE DEF e
<1>6. \A j \in 1 .. Len(storage) :
        ~storage'[j].deleted => j # c /\ ~storage[j].deleted
  BY <1>1, <1>4, <1>5, MarkedAt
<1>. QED BY <1>2, <1>6

LEMMA SilentMark ==
  ASSUME TypeInv, SilentInv, MarkDeleted PROVE SilentInv'
<1>1. TypeOK
  BY DEF TypeInv
<1>2. /\ Len(storage) \in Nat /\ size \in 0 .. Len(storage)
      /\ index \in Nat \ {0} /\ end \in Nat /\ cursor \in 1 .. Len(storage)
  BY <1>1, Elements DEF MarkDeleted, TypeInv
<1>3. /\ Len(storage') = Len(storage)
      /\ \A j \in 1 .. Len(storage) : storage'[j].key = storage[j].key
      /\ \A j \in 1 .. Len(storage) :
           ~storage'[j].deleted => j # cursor /\ ~storage[j].deleted
  BY <1>1, <1>2, Marked DEF MarkDeleted
<1>4. /\ ~InClear /\ ~InClear'
      /\ UNCHANGED <<size, pc, index, end, dangling, late>>
  BY DEF MarkDeleted, InClear, threadVars, wire
<1>5. \A k \in Keys : Live(k)' => Live(k)
  BY <1>2, <1>3, <1>4 DEF Live
<1>6. DeletedFallsSilent' /\ LiveInTime' /\ PassInBounds'
  BY <1>3, <1>4, <1>5
     DEF SilentInv, DeletedFallsSilent, LiveInTime, PassInBounds, InPass
<1>7. SendInTime'
  <2> SUFFICES ASSUME pc = "send", ~dangling PROVE late[storage'[index].key] = 0
    BY <1>4 DEF SendInTime
  <2>1. late[storage[index].key] = 0 /\ index \in 1 .. Len(storage)
    BY <1>2 DEF SilentInv, SendInTime, PassInBounds, InPass
  <2>. QED BY <1>3, <2>1
<1>8. TailDeleted'
  <2> SUFFICES ASSUME NEW j \in Behind' PROVE storage'[j].deleted
    BY DEF TailDeleted
  <2>1. j \in Behind /\ j \in 1 .. Len(storage)
    BY <1>2, <1>3, <1>4 DEF Behind
  <2>2. storage[j].deleted
    BY <1>4, <2>1, IdleTail DEF SilentInv
  <2>. QED BY <1>3, <2>1, <2>2
<1>9. ClearingUnique'
  BY <1>4 DEF ClearingUnique
<1>. QED BY <1>6, <1>7, <1>8, <1>9 DEF SilentInv

LEMMA SilentClears ==
  ASSUME TypeInv, SilentInv, Clears PROVE SilentInv'
<1>1. TypeOK
  BY DEF TypeInv
<1>2. /\ Len(storage) \in Nat /\ size \in 0 .. Len(storage)
      /\ index \in Nat \ {0} /\ end \in Nat /\ cursor \in 1 .. Len(storage)
      /\ limit \in 0 .. Len(storage) /\ cursor <= limit
  BY <1>1, Elements DEF Clears, TypeInv
<1>3. /\ Len(storage') = Len(storage)
      /\ \A j \in 1 .. Len(storage) : storage'[j].key = storage[j].key
      /\ \A j \in 1 .. Len(storage) :
           ~storage'[j].deleted => j # cursor /\ ~storage[j].deleted
  BY <1>1, <1>2, Marked DEF Clears
<1>4. /\ InClear /\ (InClear' <=> cursor # limit)
      /\ size' = 0 /\ cursor' = cursor + 1
      /\ UNCHANGED <<limit, pc, index, end, dangling, late>>
  BY DEF Clears, InClear, threadVars, wire
<1>5. /\ size = 0 \/ (size = limit /\ cursor = 1)
      /\ \A i, j \in 1 .. limit : storage[i].key = storage[j].key => i = j
  BY <1>4 DEF SilentInv, ClearingUnique
<1>6. \A k \in Keys : ~Live(k)'
  BY <1>4 DEF Live
<1>7. DeletedFallsSilent' /\ LiveInTime' /\ PassInBounds'
  BY <1>3, <1>4, <1>6
     DEF SilentInv, DeletedFallsSilent, LiveInTime, PassInBounds, InPass
<1>8. SendInTime'
  <2> SUFFICES ASSUME pc = "send", ~dangling PROVE late[storage'[index].key] = 0
    BY <1>4 DEF SendInTime
  <2>1. late[storage[index].key] = 0 /\ index \in 1 .. Len(storage)
    BY <1>2 DEF SilentInv, SendInTime, PassInBounds, InPass
  <2>. QED BY <1>3, <2>1
<1>9. TailDeleted'
  <2> SUFFICES ASSUME NEW j \in Behind', ~storage'[j].deleted
               PROVE  /\ InClear' /\ cursor + 1 <= j /\ j <= limit
                      /\ InPass /\ index <= j /\ j <= end
                           => late[storage'[j].key] = 0
    BY <1>4 DEF TailDeleted, InPass
  <2>1. /\ j \in 1 .. Len(storage) /\ j # cursor /\ ~storage[j].deleted
        /\ storage'[j].key = storage[j].key
    BY <1>3, <1>4 DEF Behind
  <2>2. CASE j > size
    <3>1. j \in Behind
      BY <1>2, <2>1, <2>2 DEF Behind
    <3>2. /\ cursor <= j /\ j <= limit
          /\ InPass /\ index <= j /\ j <= end => late[storage[j].key] = 0
      BY <2>1, <3>1 DEF SilentInv, TailDeleted
    <3>. QED BY <1>2, <1>4, <2>1, <3>2
  <2>3. CASE j <= size
    <3>1. size = limit /\ cursor = 1 /\ j \in 1 .. size
      BY <1>2, <1>5, <2>1, <2>3
    <3>2. storage[j].key \in Keys
      BY <1>1, <2>1, Elements
    <3>3. Live(storage[j].key)
      BY <2>1, <3>1 DEF Live
    <3>4. late[storage[j].key] = 0
      BY <3>2, <3>3 DEF SilentInv, LiveInTime
    <3>. QED BY <1>2, <1>4, <2>1, <3>1, <3>4
  <2>. QED BY <1>2, <2>1, <2>2, <2>3
<1>10. ClearingUnique'
  BY <1>2, <1>3, <1>4, <1>5 DEF ClearingUnique
<1>. QED BY <1>7, <1>8, <1>9, <1>10 DEF SilentInv

LEMMA SilentClearing ==
  ASSUME TypeOK, UniqueStreams, SilentInv, DeleteAllSapAnnouncements
  PROVE  SilentInv'
<1>1. /\ ~InClear /\ InClear' /\ cursor' = 1 /\ limit' = size
      /\ UNCHANGED <<storage, size, late, pc, index, end, dangling>>
  BY DEF DeleteAllSapAnnouncements, InClear, vectorVars, threadVars, wire
<1>2. DeletedFallsSilent' /\ LiveInTime'
  BY <1>1 DEF SilentInv, DeletedFallsSilent, LiveInTime, Live
<1>3. PassInBounds' /\ SendInTime'
  BY <1>1 DEF SilentInv, PassInBounds, SendInTime, InPass
<1>4. TailDeleted'
  <2>1. \A i \in Behind : storage[i].deleted
    BY <1>1, IdleTail DEF SilentInv
  <2>. QED BY <1>1, <2>1 DEF TailDeleted, Behind
<1>5. ClearingUnique'
  BY <1>1 DEF UniqueStreams, ClearingUnique
<1>. QED BY <1>2, <1>3, <1>4, <1>5 DEF SilentInv

(* The steps of the thread within a pass.                                    *)
LEMMA SilentTop ==
  ASSUME TypeOK, SilentInv, LoopTop PROVE SilentInv'
<1>1. /\ Len(storage) \in Nat /\ size \in 0 .. Len(storage)
      /\ index \in Nat \ {0} /\ end \in Nat
  BY Elements
<1>2. CASE ~running
  <2>1. ~InPass' /\ UNCHANGED <<storage, size, late, api, cursor, limit>>
    BY <1>2 DEF LoopTop, InPass, vectorVars, clientVars, wire
  <2>. QED BY <2>1, SilentStutter DEF InClear
<1>3. CASE running
  <2>1. /\ pc' = "scan" /\ index' = 1 /\ end' = size
        /\ UNCHANGED <<storage, size, late, api, cursor, limit>>
    BY <1>3 DEF LoopTop, FirstIndex, vectorVars, clientVars, wire
  <2>2. DeletedFallsSilent' /\ LiveInTime' /\ ClearingUnique'
    BY <2>1 DEF SilentInv, DeletedFallsSilent, LiveInTime, Live,
                ClearingUnique, InClear
  <2>3. PassInBounds' /\ SendInTime'
    BY <1>1, <2>1 DEF PassInBounds, SendInTime
  <2>4. TailDeleted'
    <3> SUFFICES ASSUME NEW i \in Behind, ~storage[i].deleted
                 PROVE  InClear /\ cursor <= i /\ i <= limit /\ ~(i <= size)
      BY <2>1 DEF TailDeleted, Behind, InClear
    <3>1. InClear /\ cursor <= i /\ i <= limit
      BY DEF SilentInv, TailDeleted
    <3>2. ~(i <= size)
      BY <1>1 DEF Behind
    <3>. QED BY <3>1, <3>2
  <2>. QED BY <2>2, <2>3, <2>4 DEF SilentInv
<1>. QED BY <1>2, <1>3

LEMMA SilentScan ==
  ASSUME TypeOK, SilentInv, Scan PROVE SilentInv'
<1>1. /\ Len(storage) \in Nat /\ size \in 0 .. Len(storage)
      /\ index \in Nat \ {0} /\ end \in Nat
  BY Elements
<1>2. /\ pc = "scan" /\ index <= end
      /\ UNCHANGED <<storage, size, late, api, cursor, limit, end, dangling>>
  BY DEF Scan, vectorVars, clientVars, wire
<1>3. \/ index' = index + 1 /\ pc' = "scan"
      \/ /\ index' = index /\ pc' = "send"
         /\ dangling \/ ~storage[index].deleted
  <2>1. PICK e \in Scanned :
          \/ e.deleted /\ index' = index + 1 /\ UNCHANGED pc
          \/ ~e.deleted /\ pc' = "send" /\ UNCHANGED index
    BY DEF Scan, Skipped
  <2>2. dangling \/ (e.deleted <=> storage[index].deleted)
    <3>1. CASE ~dangling
      <4>1. storage \in Seq(Stream) /\ index \in 1 .. Len(storage)
        BY <1>1, <1>2 DEF TypeOK, SilentInv, PassInBounds, InPass
      <4>2. storage[index] \in Stream
        BY <4>1
      <4>3. [storage[index] EXCEPT !.key = NoKey].deleted
              = storage[index].deleted
        BY <4>2 DEF Stream
      <4>4. e \in Element(index)
        BY <2>1, <3>1 DEF Scanned
      <4>. QED BY <4>3, <4>4 DEF Element
    <3>. QED BY <3>1
  <2>. QED BY <1>2, <2>1, <2>2
<1>4. DeletedFallsSilent' /\ LiveInTime' /\ ClearingUnique'
  BY <1>2 DEF SilentInv, DeletedFallsSilent, LiveInTime, Live,
              ClearingUnique, InClear
<1>5. PassInBounds'
  BY <1>2, <1>3 DEF SilentInv, PassInBounds, InPass
<1>6. SendInTime'
  <2> SUFFICES ASSUME index' = index, ~dangling, ~storage[index].deleted
               PROVE  late[storage[index].key] = 0
    BY <1>2, <1>3 DEF SendInTime
  <2>1. index \in 1 .. Len(storage)
    BY <1>1, <1>2 DEF SilentInv, PassInBounds, InPass
  <2>2. storage[index].key \in Keys
    BY <2>1, Elements
  <2>3. CASE index <= size
    <3>1. Live(storage[index].key)
      BY <1>1, <2>3 DEF Live
    <3>. QED BY <2>2, <3>1 DEF SilentInv, LiveInTime
  <2>4. CASE index > size
    <3>1. index \in Behind
      BY <1>1, <2>1, <2>4 DEF Behind
    <3>. QED BY <1>1, <1>2, <3>1 DEF SilentInv, TailDeleted, InPass
  <2>. QED BY <1>1, <2>3, <2>4
<1>7. TailDeleted'
  <2> SUFFICES ASSUME NEW i \in Behind, ~storage[i].deleted
               PROVE  /\ InClear /\ cursor <= i /\ i <= limit
                      /\ index' <= i /\ i <= end => late[storage[i].key] = 0
    BY <1>2 DEF TailDeleted, Behind, InClear
  <2>1. /\ InClear /\ cursor <= i /\ i <= limit
        /\ index <= i /\ i <= end => late[storage[i].key] = 0
    BY <1>2 DEF SilentInv, TailDeleted, InPass
  <2>2. i \in Nat
    BY <1>1 DEF Behind
  <2>3. index' <= i => index <= i
    BY <1>1, <1>3, <2>2
  <2>. QED BY <2>1, <2>3
<1>. QED BY <1>4, <1>5, <1>6, <1>7 DEF SilentInv

LEMMA SilentSend ==
  ASSUME TypeOK, SilentInv, SendSapAnnouncement PROVE SilentInv'
<1>1. /\ Len(storage) \in Nat /\ size \in 0 .. Len(storage)
      /\ index \in Nat \ {0} /\ end \in Nat
      /\ cursor \in Nat \ {0} /\ limit \in Nat
      /\ \A k \in Keys : late[k] \in 0 .. 2
  BY Elements
<1>2. /\ pc = "send" /\ pc' = "scan" /\ index' = index + 1
      /\ UNCHANGED <<storage, size, api, cursor, limit, end, dangling>>
  BY DEF SendSapAnnouncement, vectorVars, clientVars
<1>3. index \in 1 .. Len(storage) /\ index <= end /\ end <= Len(storage)
  BY <1>1, <1>2 DEF SilentInv, PassInBounds, InPass
<1>4. \A k \in Keys :
        \/ late'[k] = late[k]
        \/ /\ ~dangling /\ k = storage[index].key /\ ~Live(k)
           /\ late'[k] = late[k] + 1
  <2>1. CASE UNCHANGED wire
    BY <2>1 DEF wire
  <2>2. CASE ~UNCHANGED wire
    <3>1. PICK e \in Scanned : SendSapPacket(e.key, FALSE)
      BY <2>2 DEF SendSapAnnouncement, Crash
    <3>2. late' = [j \in Keys |->
                     IF j # e.key THEN late[j]
                     ELSE IF Live(j) \/ late[j] = 2 THEN late[j]
                     ELSE late[j] + 1]
      BY <2>2, <3>1 DEF SendSapPacket
    <3>3. e.key = NoKey \/ (~dangling /\ e.key = storage[index].key)
      <4>1. CASE dangling
        BY <3>1, <4>1 DEF Scanned
      <4>2. CASE ~dangling
        <5>1. storage \in Seq(Stream)
          BY DEF TypeOK
        <5>2. storage[index] \in Stream
          BY <1>3, <5>1
        <5>3. [storage[index] EXCEPT !.key = NoKey].key = NoKey
          BY <5>2 DEF Stream
        <5>4. e \in Element(index)
          BY <3>1, <4>2 DEF Scanned
        <5>. QED BY <4>2, <5>3, <5>4 DEF Element
      <4>. QED BY <4>1, <4>2
    <3>. QED BY <3>2, <3>3, AnnouncerAssumption DEF AnnouncerAssumption
  <2>. QED BY <2>1, <2>2
<1>5. ~dangling => late[storage[index].key] = 0
  BY <1>2 DEF SilentInv, SendInTime
<1>6. DeletedFallsSilent'
  BY <1>1, <1>4, <1>5 DEF SilentInv, DeletedFallsSilent
<1>7. LiveInTime'
  <2>1. \A k : Live(k)' = Live(k)
    BY <1>2 DEF Live
  <2>. QED BY <1>4, <2>1 DEF SilentInv, LiveInTime
<1>8. PassInBounds' /\ SendInTime'
  BY <1>2, <1>3 DEF PassInBounds, SendInTime
<1>9. ClearingUnique'
  BY <1>2 DEF SilentInv, ClearingUnique, InClear
<1>10. TailDeleted'
  <2> SUFFICES ASSUME NEW i \in Behind, ~storage[i].deleted
               PROVE  /\ InClear /\ cursor <= i /\ i <= limit
                      /\ index + 1 <= i /\ i <= end
                           => late'[storage[i].key] = 0
    BY <1>2 DEF TailDeleted, Behind, InClear
  <2>1. /\ InClear /\ cursor <= i /\ i <= limit
        /\ index <= i /\ i <= end => late[storage[i].key] = 0
    BY <1>2 DEF SilentInv, TailDeleted, InPass
  <2>2. i \in Nat /\ i \in 1 .. Len(storage)
    BY <1>1 DEF Behind
  <2>3. ASSUME index + 1 <= i, i <= end PROVE late'[storage[i].key] = 0
    <3>1. index \in 1 .. limit /\ i \in 1 .. limit /\ index # i
      BY <1>1, <2>1, <2>2, <2>3
    <3>2. storage[i].key # storage[index].key
      BY <2>1, <3>1 DEF SilentInv, ClearingUnique
    <3>3. late[storage[i].key] = 0
      BY <1>1, <2>1, <2>2, <2>3
    <3>4. storage[i].key \in Keys
      BY <2>2, Elements
    <3>. QED BY <1>4, <3>2, <3>3, <3>4
  <2>. QED BY <2>1, <2>3
<1>. QED BY <1>6, <1>7, <1>8, <1>9, <1>10 DEF SilentInv

(* The calls and steps that leave elements and lateness alone.               *)
LEMMA SilentElsewhere ==
  ASSUME TypeOK, SilentInv,
         \/ Start \/ StartReturns \/ Stop \/ Joined \/ Destroy
         \/ DeleteAllStreams \/ SweepEnds \/ SendsDeletion
         \/ (\E n, a : DeleteSapAnnouncement(n, a))
         \/ ThreadStarts \/ PassEnds \/ Wake \/ UNCHANGED vars
  PROVE  SilentInv'
<1> USE DEF vectorVars, clientVars, threadVars, InPass, InClear
<1> USE SilentStutter
<1>1. CASE Start \/ StartReturns \/ Stop \/ Joined \/ Destroy
  BY <1>1 DEF Start, StartReturns, Stop, Joining, Joined, Destroy, wire
<1>2. CASE SweepEnds
  <2>1. after \in {"idle", "stopping", "gone"}
    BY DEF TypeOK
  <2>. QED BY <1>2, <2>1 DEF SweepEnds, wire
<1>3. CASE DeleteAllStreams
  <2>1. late' = late
    BY <1>3, DeletionOnTime DEF DeleteAllStreams, wire
  <2>. QED BY <1>3, <2>1 DEF DeleteAllStreams
<1>4. CASE SendsDeletion
  <2>1. late' = late
    BY <1>4, DeletionOnTime DEF SendsDeletion, wire
  <2>. QED BY <1>4, <2>1 DEF SendsDeletion
<1>5. ASSUME NEW n, NEW a, DeleteSapAnnouncement(n, a) PROVE SilentInv'
  <2>1. late' = late
    BY <1>5, DeletionOnTime DEF DeleteSapAnnouncement
  <2>. QED BY <1>5, <2>1 DEF DeleteSapAnnouncement
<1>6. CASE ThreadStarts \/ PassEnds \/ Wake
  BY <1>6 DEF ThreadStarts, PassEnds, Wake, wire
<1>7. CASE UNCHANGED vars
  BY <1>7 DEF vars, wire
<1>. QED BY <1>1, <1>2, <1>3, <1>4, <1>5, <1>6, <1>7

(* A stream that is deleted, cleared or swept out of the vector is announced *)
(* at most once more, wherever the announcement thread is in its pass.       *)
THEOREM DeletedSilent == Spec => []DeletedFallsSilent
<1>1. Init => SilentInv
  <2> SUFFICES ASSUME Init PROVE SilentInv
    OBVIOUS
  <2>1. /\ storage = <<>> /\ size = 0 /\ pc = "none" /\ api = "idle"
        /\ \A k \in Keys : late[k] = 0
    BY DEF Init
  <2>2. Len(storage) = 0
    BY <2>1
  <2>3. DeletedFallsSilent /\ LiveInTime
    BY <2>1 DEF DeletedFallsSilent, LiveInTime
  <2>. QED BY <2>1, <2>2, <2>3
           DEF SilentInv, PassInBounds, SendInTime, TailDeleted,
               ClearingUnique, Behind, InPass, InClear
<1>2. ASSUME TypeOK, TypeInv, UniqueStreams, SilentInv, [Next]_vars
      PROVE  SilentInv'
  <2> USE <1>2
  <2>1. CASE UNCHANGED vars
    BY <2>1, SilentElsewhere
  <2>2. CASE Call
    <3>1. ASSUME NEW k \in Keys, AddSapAnnouncement(k) PROVE SilentInv'
      BY <3>1, SilentAdd
    <3>2. ASSUME NEW names, api = "idle", Undelete(names) PROVE SilentInv'
      BY <3>2, SilentUndelete
    <3>3. CASE DeleteAllSapAnnouncements
      BY <3>3, SilentClearing
    <3>4. CASE Start \/ Stop \/ Destroy
      BY <3>4, SilentElsewhere
    <3>5. ASSUME NEW n, NEW a, DeleteSapAnnouncement(n, a) PROVE SilentInv'
      BY <3>5, SilentElsewhere
    <3>. QED BY <2>2, <3>1, <3>2, <3>3, <3>4, <3>5
             DEF Call, Restart, UndeleteSapAnnouncement
  <2>3. CASE Finish
    BY <2>3, SilentElsewhere, SilentMark, SilentClears DEF Finish
  <2>4. CASE AnnouncementThread
    BY <2>4, SilentElsewhere, SilentTop, SilentScan, SilentSend
       DEF AnnouncementThread
  <2>. QED BY <2>1, <2>2, <2>3, <2>4 DEF Next
<1>3. SilentInv => DeletedFallsSilent
  BY DEF SilentInv
<1>. QED BY <1>1, <1>2, <1>3, TypeCorrect, TypeInvariant, StreamsUnique, PTL
         DEF Spec
=============================================================================
