---------------------------- MODULE RtpSapWrapper ----------------------------
(***************************************************************************)
(* The helper classes RtpSapTransmit and RtpSapRecieve                     *)
(* (src/src/wrappers/rtp_sap_wrapper.h) as an application thread makes,    *)
(* uses and destroys them, with the one announcer, the one listener and    *)
(* the test cards that all of them share.  The listener's thread calls     *)
(* RtpSapRecieve::Callback() with nullptr for a receiver registered by its *)
(* session name, and with the data registered last for one without a name  *)
(* (SapListener::SapStore).                                                *)
(***************************************************************************)
EXTENDS TestCards

CONSTANTS
  Transmitters, Receivers,  \* objects the application may make, each once
  Sizes,                    \* <<height, width>> a transmitter may be made with
  Modes,                    \* encodings a transmitter may be made with
  Nobody                    \* nullptr

ASSUME WrapperAssumption ==
  /\ Nobody \notin Receivers
  /\ Modes \subseteq DOMAIN Bits
  /\ Sizes \subseteq (Nat \ {0}) \X (Nat \ {0})

VARIABLES
  tx,          \* per transmitter: whether it lives and its stream
  rx,          \* per receiver: whether it lives, its stream, its depayloader
  announced,   \* transmitters whose streams the announcer has
  announcing,  \* the announcer runs
  callbacks,   \* names (session or "") with a callback at the listener
  data,        \* the listener's data_
  running,     \* the listener runs
  callback,    \* what the listener's thread is doing
  destroying,  \* the receiver being destroyed, or Nobody
  initialised, \* GStreamer is (IsRtpInitialised())
  crashed      \* nullptr or a destroyed receiver was used

shared == <<announced, announcing, callbacks, data, running>>
vars == <<tx, rx, shared, callback, destroying, initialised, crashed, cards>>

Names == {"", "session"}
Idle == [step |-> "idle", of |-> Nobody]
Unborn == [life |-> "unborn", deleted |-> TRUE, depayloader |-> "closed",
           opened |-> 0]

Init ==
  /\ tx = [t \in Transmitters |-> [life |-> "unborn"]]
  /\ rx = [r \in Receivers |-> Unborn]
  /\ announced = {} /\ announcing = FALSE
  /\ callbacks = {} /\ data = Nobody /\ running = FALSE
  /\ callback = Idle /\ destroying = Nobody /\ crashed = FALSE
  /\ initialised = FALSE
  /\ CardsInit
-----------------------------------------------------------------------------
(* The application's thread: one call at a time.                             *)
Ready == destroying = Nobody /\ ~crashed

RtpSapTransmit(t, size, mode) ==
  /\ Ready /\ tx[t].life = "unborn"
  /\ tx' = [tx EXCEPT ![t] = [life |-> "alive", height |-> size[1],
                              width |-> size[2], encoding |-> mode]]
  /\ announced' = announced \cup {t} /\ announcing' = TRUE
  /\ initialised' = TRUE
  /\ UNCHANGED <<rx, callbacks, data, running, callback, destroying, crashed,
                 cards>>

(* The stream stays with the announcer, which is stopped for everybody, and  *)
(* RtpCleanup() ends GStreamer for every object of the process.              *)
DestroyTransmit(t) ==
  /\ Ready /\ tx[t].life = "alive"
  /\ tx' = [tx EXCEPT ![t].life = "gone"]
  /\ announcing' = FALSE /\ initialised' = FALSE
  /\ UNCHANGED <<rx, announced, callbacks, data, running, callback, destroying,
                 crashed, cards>>

(* GetBuffer() makes room for the image; the stream's width is passed for    *)
(* the height and its height for the width.                                  *)
BufferSize(width, height, mode) == (width * height * BitsPerPixel(mode)) \div 8

GetBufferTestPattern(t, pattern) ==
  /\ Ready /\ tx[t].life = "alive"
  /\ LET height == tx[t].width
         width == tx[t].height
         mode == tx[t].encoding
     IN Pattern(pattern, mode, width, height, BufferSize(width, height, mode))
  /\ UNCHANGED <<tx, rx, shared, callback, destroying, initialised, crashed>>

RtpSapRecieve(r, name) ==
  /\ Ready /\ rx[r].life = "unborn"
  /\ rx' = [rx EXCEPT ![r].life = "alive"]
  /\ callbacks' = callbacks \cup {name} /\ data' = r /\ running' = TRUE
  /\ initialised' = TRUE
  /\ UNCHANGED <<tx, announced, announcing, callback, destroying, crashed,
                 cards>>

(* ~RtpSapRecieve(): stop the listener, which joins its thread, then stop    *)
(* and close the depayloader, and RtpCleanup().  The registration stays.     *)
DestroyRecieve(r) ==
  /\ Ready /\ rx[r].life = "alive"
  /\ running' = FALSE /\ destroying' = r
  /\ UNCHANGED <<tx, rx, announced, announcing, callbacks, data, callback,
                 initialised, crashed, cards>>

JoinedMutant == TRUE
Joined == callback = Idle

RecieveDestroyed(r) ==
  /\ destroying = r /\ ~crashed /\ Joined
  /\ rx' = [rx EXCEPT ![r].life = "gone", ![r].depayloader = "closed"]
  /\ destroying' = Nobody /\ initialised' = FALSE
  /\ UNCHANGED <<tx, shared, callback, crashed, cards>>
-----------------------------------------------------------------------------
(* The listener's thread.  callbacks_ is in the order of the names, so that  *)
(* the callback without a name comes first.                                  *)
Then(r, step) == callback' = [step |-> step, of |-> r]

SapStore ==
  /\ running /\ callback = Idle /\ ~crashed
  /\ IF "" \in callbacks
     THEN Then(data, "enter") /\ UNCHANGED crashed
     ELSE crashed' = ("session" \in callbacks) /\ UNCHANGED callback
  /\ UNCHANGED <<tx, rx, shared, destroying, initialised, cards>>

(* After the callback without a name, the one registered by the name.        *)
Returned ==
  /\ callback' = Idle
  /\ crashed' = ("session" \in callbacks)

AnnouncedFirstMutant(r) == TRUE
AnnouncedFirst(r) == rx[r].deleted

(* Callback(): the first announcement only; "deleted" is cleared before the  *)
(* depayloader has the stream, is open and started.                          *)
Callback ==
  /\ callback.step = "enter" /\ ~crashed
  /\ LET r == callback.of IN
     IF rx[r].life = "gone"
     THEN crashed' = TRUE /\ UNCHANGED <<rx, callback>>
     ELSE IF AnnouncedFirst(r)
     THEN /\ rx' = [rx EXCEPT ![r].deleted = FALSE]
          /\ Then(r, "open")
          /\ UNCHANGED crashed
     ELSE Returned /\ UNCHANGED rx
  /\ UNCHANGED <<tx, shared, destroying, initialised, cards>>

CallbackOpens ==
  /\ callback.step = "open" /\ ~crashed
  /\ rx' = [rx EXCEPT ![callback.of].depayloader = "open",
                      ![callback.of].opened = @ + 1]
  /\ Then(callback.of, "start")
  /\ UNCHANGED <<tx, shared, destroying, initialised, crashed,
                 cards>>

CallbackStarts ==
  /\ callback.step = "start" /\ ~crashed
  /\ rx' = [rx EXCEPT ![callback.of].depayloader = "started"]
  /\ Returned
  /\ UNCHANGED <<tx, shared, destroying, initialised, cards>>

Next ==
  \/ \E t \in Transmitters :
       \/ \E s \in Sizes, mode \in Modes : RtpSapTransmit(t, s, mode)
       \/ DestroyTransmit(t)
       \/ \E pattern \in 0 .. 11 : GetBufferTestPattern(t, pattern)
  \/ \E r \in Receivers :
       \/ \E name \in Names : RtpSapRecieve(r, name)
       \/ DestroyRecieve(r) \/ RecieveDestroyed(r)
  \/ SapStore \/ Callback \/ CallbackOpens \/ CallbackStarts

Spec == Init /\ [][Next]_vars
-----------------------------------------------------------------------------
(* A receiver is opened once, with the first announcement of its session;    *)
(* later announcements do not open it again beneath a running stream.        *)
OpenedOnce == \A r \in Receivers : rx[r].opened <= 1

(* Nothing is left open when a receiver has been destroyed: the listener's   *)
(* thread is not between the steps of a callback into it.                    *)
DestroyedIsClosed ==
  \A r \in Receivers :
    rx[r].life = "gone" =>
      /\ rx[r].depayloader = "closed"
      /\ ~(callback.of = r /\ callback.step \in {"open", "start"})

(* The life of a receiver, as the listener's thread and the application's    *)
(* thread make it between them.                                              *)
ReceiverLifetime == OpenedOnce /\ DestroyedIsClosed
=============================================================================
