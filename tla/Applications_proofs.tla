------------------------- MODULE Applications_proofs -------------------------
(***************************************************************************)
(* Theorems about what applications use: the receivers and test cards of   *)
(* RtpSapWrapper, for every set of objects, sizes and encodings, and the   *)
(* program of TransmitExample, for every image, PNG file and frame limit.  *)
(***************************************************************************)
EXTENDS RtpSapWrapper, TransmitExample, TLAPS

-----------------------------------------------------------------------------
(* The life of a receiver.                                                   *)

ReceiverState ==
  [life : {"unborn", "alive", "gone"}, deleted : BOOLEAN,
   depayloader : {"closed", "open", "started"}, opened : Nat]

(* The listener's thread is between the steps of a callback into r.          *)
Inside(r) == callback.of = r /\ callback.step \in {"open", "start"}

(* A receiver that still waits for its first announcement was never opened,  *)
(* nor was one whose callback is about to open it.  Whom the listener calls  *)
(* was registered, and a destructor that waits is the receiver's own.        *)
LifetimeInv ==
  /\ rx \in [Receivers -> ReceiverState]
  /\ callback \in [step : {"idle", "enter", "open", "start"},
                   of : Receivers \cup {Nobody}]
  /\ callback.step # "idle" => callback.of \in Receivers
  /\ callbacks # {} => data \in Receivers
  /\ \A r \in Receivers :
       /\ rx[r].deleted => rx[r].opened = 0 /\ ~Inside(r)
       /\ callback.of = r /\ callback.step = "open" => rx[r].opened = 0
  /\ ReceiverLifetime

(* What the steps of the callback may do to the receiver they are for.       *)
LEMMA LifetimeStep ==
  ASSUME LifetimeInv, [Next]_vars
  PROVE  LifetimeInv'
<1> USE DEF LifetimeInv, ReceiverLifetime, OpenedOnce, DestroyedIsClosed,
            Inside
<1>1. ASSUME UNCHANGED <<rx, callback, callbacks, data>> PROVE LifetimeInv'
  BY <1>1
<1>2. ASSUME NEW r \in Receivers, NEW name \in Names, RtpSapRecieve(r, name)
      PROVE  LifetimeInv'
  <2>1. /\ rx[r].life = "unborn"
        /\ rx' = [rx EXCEPT ![r].life = "alive"]
        /\ data' = r /\ UNCHANGED callback
    BY <1>2 DEF RtpSapRecieve
  <2>2. rx[r] \in ReceiverState
    OBVIOUS
  <2>3. /\ rx'[r] \in ReceiverState /\ rx'[r].life = "alive"
        /\ rx'[r].deleted = rx[r].deleted /\ rx'[r].opened = rx[r].opened
        /\ \A q \in Receivers \ {r} : rx'[q] = rx[q]
    BY <2>1, <2>2 DEF ReceiverState
  <2>4. rx' \in [Receivers -> ReceiverState]
    BY <2>1, <2>3
  <2>. QED BY <2>1, <2>3, <2>4
<1>3. ASSUME NEW r \in Receivers, RecieveDestroyed(r) PROVE LifetimeInv'
  <2>1. /\ callback = Idle
        /\ rx' = [rx EXCEPT ![r].life = "gone", ![r].depayloader = "closed"]
        /\ UNCHANGED <<callback, callbacks, data>>
    BY <1>3 DEF RecieveDestroyed, Joined, shared
  <2>2. rx[r] \in ReceiverState
    OBVIOUS
  <2>3. /\ rx'[r] = [life |-> "gone", deleted |-> rx[r].deleted,
                     depayloader |-> "closed", opened |-> rx[r].opened]
        /\ \A q \in Receivers \ {r} : rx'[q] = rx[q]
    BY <2>1, <2>2 DEF ReceiverState
  <2>4. rx'[r] \in ReceiverState
    BY <2>2, <2>3 DEF ReceiverState
  <2>5. rx' \in [Receivers -> ReceiverState]
    BY <2>1, <2>4
  <2>6. callback.step = "idle"
    BY <2>1 DEF Idle
  <2>. QED BY <2>1, <2>3, <2>5, <2>6
<1>4. CASE SapStore
  <2>1. /\ UNCHANGED <<rx, callbacks, data>> /\ callback.step = "idle"
        /\ \/ UNCHANGED callback
           \/ callbacks # {} /\ callback' = [step |-> "enter", of |-> data]
    BY <1>4 DEF SapStore, Then, shared, Idle
  <2>. QED BY <2>1
<1>5. CASE Callback
  <2> DEFINE r == callback.of
  <2>1. /\ r \in Receivers /\ callback.step = "enter"
        /\ UNCHANGED <<callbacks, data>>
    BY <1>5 DEF Callback, shared
  <2>2. CASE UNCHANGED <<rx, callback>>
    BY <2>1, <2>2
  <2>3. CASE callback' = Idle /\ UNCHANGED rx
    BY <2>1, <2>3 DEF Idle
  <2>4. CASE /\ rx[r].life # "gone" /\ rx[r].deleted
             /\ rx' = [rx EXCEPT ![r].deleted = FALSE]
             /\ callback' = [step |-> "open", of |-> r]
    <3>1. rx[r] \in ReceiverState
      BY <2>1
    <3>2. /\ rx'[r] = [life |-> rx[r].life, deleted |-> FALSE,
                       depayloader |-> rx[r].depayloader,
                       opened |-> rx[r].opened]
          /\ \A q \in Receivers \ {r} : rx'[q] = rx[q]
      BY <2>1, <2>4, <3>1 DEF ReceiverState
    <3>3. rx'[r] \in ReceiverState
      BY <3>1, <3>2 DEF ReceiverState
    <3>4. rx' \in [Receivers -> ReceiverState]
      BY <2>1, <2>4, <3>3
    <3>5. rx[r].opened = 0
      BY <2>1, <2>4
    <3>. HIDE DEF r
    <3>. QED BY <2>1, <2>4, <3>2, <3>4, <3>5
  <2>. QED
    BY <1>5, <2>2, <2>3, <2>4 DEF Callback, AnnouncedFirst, Then, Returned
<1>6. CASE CallbackOpens
  <2> DEFINE r == callback.of
  <2>1. /\ r \in Receivers /\ callback.step = "open"
        /\ rx' = [rx EXCEPT ![r].depayloader = "open", ![r].opened = @ + 1]
        /\ callback' = [step |-> "start", of |-> r]
        /\ UNCHANGED <<callbacks, data>>
    BY <1>6 DEF CallbackOpens, shared, Then
  <2>2. /\ rx[r] \in ReceiverState /\ rx[r].opened = 0 /\ ~rx[r].deleted
        /\ rx[r].life # "gone"
    BY <2>1
  <2> DEFINE open == [rx EXCEPT ![r].depayloader = "open"]
  <2>3. /\ rx'[r] = [life |-> rx[r].life, deleted |-> rx[r].deleted,
                     depayloader |-> "open", opened |-> 1]
        /\ \A q \in Receivers \ {r} : rx'[q] = rx[q]
    <3>1. /\ open \in [Receivers -> ReceiverState]
          /\ open[r] = [life |-> rx[r].life, deleted |-> rx[r].deleted,
                        depayloader |-> "open", opened |-> 0]
          /\ \A q \in Receivers \ {r} : open[q] = rx[q]
      BY <2>1, <2>2 DEF ReceiverState
    <3>2. rx' = [open EXCEPT ![r].opened = open[r].opened + 1]
      BY <2>1
    <3>. HIDE DEF open
    <3>. QED BY <2>1, <3>1, <3>2 DEF ReceiverState
  <2>4. rx'[r] \in ReceiverState
    BY <2>2, <2>3 DEF ReceiverState
  <2>5. rx' \in [Receivers -> ReceiverState]
    BY <2>1, <2>4
  <2>. HIDE DEF r
  <2>. QED BY <2>1, <2>2, <2>3, <2>5
<1>7. CASE CallbackStarts
  <2> DEFINE r == callback.of
  <2>1. /\ r \in Receivers /\ callback.step = "start"
        /\ rx' = [rx EXCEPT ![r].depayloader = "started"]
        /\ callback' = Idle
        /\ UNCHANGED <<callbacks, data>>
    BY <1>7 DEF CallbackStarts, shared, Returned
  <2>2. /\ rx[r] \in ReceiverState /\ ~rx[r].deleted /\ rx[r].life # "gone"
    BY <2>1
  <2>3. /\ rx'[r] = [life |-> rx[r].life, deleted |-> rx[r].deleted,
                     depayloader |-> "started", opened |-> rx[r].opened]
        /\ \A q \in Receivers \ {r} : rx'[q] = rx[q]
    BY <2>1, <2>2 DEF ReceiverState
  <2>4. rx'[r] \in ReceiverState
    BY <2>2, <2>3 DEF ReceiverState
  <2>5. rx' \in [Receivers -> ReceiverState]
    BY <2>1, <2>4
  <2>. HIDE DEF r
  <2>. QED BY <2>1, <2>2, <2>3, <2>5 DEF Idle
<1>8. ASSUME NEW t \in Transmitters,
             \/ \E s \in Sizes, enc \in Modes : RtpSapTransmit(t, s, enc)
             \/ DestroyTransmit(t)
             \/ \E pattern \in 0 .. 11 : GetBufferTestPattern(t, pattern)
      PROVE  LifetimeInv'
  BY <1>1, <1>8
  DEF RtpSapTransmit, DestroyTransmit, GetBufferTestPattern, shared
<1>9. ASSUME NEW r \in Receivers, DestroyRecieve(r) PROVE LifetimeInv'
  BY <1>1, <1>9 DEF DestroyRecieve
<1>10. CASE UNCHANGED vars
  BY <1>1, <1>10 DEF vars, shared
<1>. QED
  BY <1>2, <1>3, <1>4, <1>5, <1>6, <1>7, <1>8, <1>9, <1>10 DEF Next

(* However constructors, destructors and the listener's callbacks of any     *)
(* number of receivers interleave: each is opened once, with the first       *)
(* announcement, and none is opened or left open behind its destructor,      *)
(* which joins the listener's thread (~RtpSapRecieve(), Callback()).         *)
THEOREM Lifetime == Spec => []ReceiverLifetime
<1>1. Init => LifetimeInv
  BY WrapperAssumption
  DEF WrapperAssumption, Init, LifetimeInv, ReceiverState, Unborn, Idle,
      Inside, ReceiverLifetime, OpenedOnce, DestroyedIsClosed
<1>2. LifetimeInv => ReceiverLifetime
  BY DEF LifetimeInv
<1>. QED BY <1>1, <1>2, LifetimeStep, PTL DEF Spec
-----------------------------------------------------------------------------
(* The test cards.                                                           *)

(* An encoding with whole bytes takes 1 to 4 of them, and PackRgb() writes   *)
(* no more than a pixel has.                                                 *)
LEMMA WholePixels ==
  ASSUME NEW enc \in WholeBytes
  PROVE  /\ BytesPerPixel(enc) \in 1 .. 4
         /\ BitsPerPixel(enc) = 8 * BytesPerPixel(enc)
         /\ PackedBytes(enc) \in 1 .. BytesPerPixel(enc)
<1>1. enc \in {"Rgba", "Rgb24", "Yuv422", "Mono16", "Mono8", "H264Part4",
               "H264Part10", "H265", "Jpeg2000", "Av1"}
  BY DEF WholeBytes, Bits
<1>2. enc \in DOMAIN Bits /\ BitsPerPixel(enc) = Bits[enc]
  BY <1>1 DEF Bits, BitsPerPixel
<1>3. CASE enc = "Rgba"
  BY <1>2, <1>3 DEF Bits, BytesPerPixel, PackedBytes
<1>4. CASE enc \in {"Yuv422", "Mono16"}
  BY <1>2, <1>4 DEF Bits, BytesPerPixel, PackedBytes
<1>5. CASE enc = "Mono8"
  BY <1>2, <1>5 DEF Bits, BytesPerPixel, PackedBytes
<1>6. CASE enc \in {"Rgb24", "H264Part4", "H264Part10", "H265", "Jpeg2000",
                    "Av1"}
  BY <1>2, <1>6 DEF Bits, BytesPerPixel, PackedBytes
<1>. QED BY <1>1, <1>3, <1>4, <1>5, <1>6

(* An image's buffer has its bytes.                                          *)
LEMMA ImageBytes ==
  ASSUME NEW enc \in WholeBytes, NEW width \in Nat, NEW height \in Nat
  PROVE  BufferSize(width, height, enc) = width * height * BytesPerPixel(enc)
<1> DEFINE n == width * height
           b == BytesPerPixel(enc)
<1>1. n \in Nat /\ b \in 1 .. 4 /\ BitsPerPixel(enc) = 8 * b
  BY WholePixels
<1>2. BufferSize(width, height, enc) = (n * (8 * b)) \div 8
  BY <1>1 DEF BufferSize
<1>. HIDE DEF n, b
<1>3. b = 1 \/ b = 2 \/ b = 3 \/ b = 4
  BY <1>1
<1>4. (n * (8 * b)) \div 8 = n * b
  BY <1>1, <1>3
<1>. QED BY <1>2, <1>4 DEF n, b

(* The pixels "low" to "high" of an image lie in its buffer.                 *)
LEMMA WithinImage ==
  ASSUME NEW enc \in WholeBytes, NEW width \in Nat, NEW height \in Nat,
         NEW low \in Nat, NEW high \in Int, high < width * height,
         NEW calls, NEW isBall,
         PackRgb(enc, BytesPerPixel(enc), low, high, calls,
                 BufferSize(width, height, enc), isBall)
  PROVE  DrawnWithinBuffer'
<1> DEFINE n == width * height
           b == BytesPerPixel(enc)
           p == PackedBytes(enc)
<1>1. n \in Nat /\ b \in 1 .. 4 /\ p \in 1 .. b /\ high < n
  BY WholePixels
<1>2. enc # "Yuv420p"
  BY DEF WholeBytes, Bits
<1>3. /\ drawn'.low = low * b /\ drawn'.high = high * b + p
      /\ drawn'.size = n * b
  BY <1>2, ImageBytes DEF PackRgb, Reached
<1>. HIDE DEF n, b, p
<1>4. b = 1 \/ b = 2 \/ b = 3 \/ b = 4
  BY <1>1
<1>5. low * b >= 0 /\ high * b + p <= n * b
  BY <1>1, <1>4
<1>. QED BY <1>3, <1>5 DEF DrawnWithinBuffer

(* In half pixels, the ball stays below the 24 rows above its centre: it     *)
(* comes closer to the top in one step only, from row 30 or below, since it  *)
(* turns in every step it ends above row 51, and a smaller image, as long as *)
(* it has the room, puts it no higher than row 30.                           *)
OnTheWay(b) ==
  /\ b.x \in Nat /\ b.y \in Nat /\ b.vx \in {-10, 10} /\ b.vy \in {-10, 10}
  /\ b.y >= 50
  /\ b.vy = -10 => b.y >= 60

CardsInv ==
  /\ ball = NoBall \/ narrow \/ OnTheWay(ball)
  /\ odd \in BOOLEAN
  /\ odd \/ swapped
  /\ CardsSound

LEMMA BallMoves ==
  ASSUME NEW b, OnTheWay(b), NEW width \in Nat, NEW height \in Nat,
         width >= 80, height >= 80
  PROVE  LET m == Moved(b, width, height)
         IN  /\ OnTheWay(m)
             /\ m.x <= 2 * (width - 50) /\ m.y <= 2 * (height - 50)
<1> DEFINE x == b.x + b.vx
           y == b.y + b.vy
           m == Moved(b, width, height)
<1>1. /\ x \in Int /\ y \in Int
      /\ m.x = Clamped(x, width) /\ m.y = Clamped(y, height)
      /\ m.vx = Turned(b.vx, x, width) /\ m.vy = Turned(b.vy, y, height)
  BY DEF Moved, OnTheWay
<1>2. m.x \in Nat /\ m.x <= 2 * (width - 50)
  BY <1>1 DEF Clamped, BallSize
<1>3. m.y \in Nat /\ m.y <= 2 * (height - 50) /\ m.y >= 50
  BY <1>1 DEF Clamped, BallSize, OnTheWay
<1>4. m.vx \in {-10, 10} /\ m.vy \in {-10, 10}
  BY <1>1 DEF Turned, OnTheWay
<1>5. m.vy = -10 => m.y >= 60
  BY <1>1 DEF Turned, Clamped, BallSize, OnTheWay
<1>. QED BY <1>2, <1>3, <1>4, <1>5 DEF OnTheWay

(* What PackRgb() does to its static flag, whatever it draws.                *)
LEMMA ChromaKept ==
  ASSUME CardsInv, NEW enc, NEW stride, NEW low, NEW high, NEW calls,
         NEW size, NEW isBall,
         PackRgb(enc, stride, low, high, calls, size, isBall)
  PROVE  /\ odd' \in BOOLEAN
         /\ odd' \/ swapped'
         /\ ChromaInOrder'
         /\ drawn'.mode = enc /\ drawn'.ball = isBall
<1> DEFINE swaps == enc = "Yuv422" /\ calls % 2 = 1
<1>1. /\ odd' = IF swaps THEN ~odd ELSE odd
      /\ swapped' = (swapped \/ swaps)
      /\ drawn'.odd = odd /\ drawn'.mode = enc /\ drawn'.ball = isBall
  BY DEF PackRgb
<1>. HIDE DEF swaps
<1>2. odd \in BOOLEAN /\ (odd \/ swapped)
  BY DEF CardsInv
<1>. QED BY <1>1, <1>2, Zenon DEF ChromaInOrder

(* The bouncing ball in an image of any size, and any encoding.              *)
LEMMA BallDrawn ==
  ASSUME CardsInv, NEW enc, NEW width \in Nat, NEW height \in Nat,
         CreateBouncingBallTestCard(enc, width, height,
                                    BufferSize(width, height, enc))
  PROVE  CardsInv'
<1> DEFINE start == [x |-> width, y |-> height, vx |-> 10, vy |-> 10]
           before == IF ball = NoBall THEN start ELSE ball
           b == Moved(before, width, height)
           stride == IF enc = "Yuv420p" THEN 1 ELSE BytesPerPixel(enc)
           row == b.y \div 2
           column == b.x \div 2
           index == row * width + column
           first == index - 24 * width - 6
           last == index + 24 * width + 6
           corner == width * height - 1
           calls == width * height + Cardinality(Circle)
           size == BufferSize(width, height, enc)
<1>1. /\ ball' = b
      /\ PackRgb(enc, stride, IF first < 0 THEN first ELSE 0,
                 IF last > corner THEN last ELSE corner, calls, size, TRUE)
      /\ narrow' = (narrow \/ ~Roomy(width, height))
  BY Zenon DEF CreateBouncingBallTestCard
<1>2. /\ odd' \in BOOLEAN
      /\ odd' \/ swapped'
      /\ ChromaInOrder'
      /\ drawn'.mode = enc /\ drawn'.ball = TRUE
  <2>. HIDE DEF stride, first, last, corner, calls, size
  <2>. QED BY <1>1, ChromaKept
<1>3. CASE narrow'
  BY <1>2, <1>3 DEF CardsInv, CardsSound, DrawnWithinBuffer
<1>4. CASE ~narrow'
  <2>1. width >= 80 /\ height >= 80 /\ ~narrow
    BY <1>1, <1>4 DEF Roomy
  <2>2. OnTheWay(before)
    BY <2>1 DEF OnTheWay, CardsInv
  <2>3. OnTheWay(b) /\ b.x <= 2 * (width - 50) /\ b.y <= 2 * (height - 50)
    BY <2>1, <2>2, BallMoves
  <2>4. b.x \in Nat /\ b.y \in Nat /\ b.y >= 50
    BY <2>3 DEF OnTheWay
  <2>5. CASE enc \notin WholeBytes
    BY <1>1, <1>2, <2>3, <2>5 DEF CardsInv, CardsSound, DrawnWithinBuffer
  <2>6. CASE enc \in WholeBytes
    <3>1. /\ row \in Nat /\ row >= 25 /\ row <= height - 50
          /\ column \in Nat /\ column <= width - 50
      <4>. HIDE DEF b
      <4>. QED BY <2>1, <2>3, <2>4
    <3>2. stride = BytesPerPixel(enc)
      BY <2>6 DEF WholeBytes, Bits
    <3>. HIDE DEF row, column, b, stride
    <3>3. first \in Int /\ first >= 0
      <4>1. (row - 24) * width >= width
        <5> DEFINE k == row - 25
        <5>1. k \in Nat /\ row - 24 = k + 1
          BY <3>1
        <5>. HIDE DEF k
        <5>2. (k + 1) * width = k * width + width /\ k * width \in Nat
          BY <5>1
        <5>3. (row - 24) * width = (k + 1) * width
          BY <5>1
        <5>. QED BY <5>2, <5>3
      <4>2. row * width - 24 * width = (row - 24) * width
        BY <3>1
      <4>3. row * width \in Nat
        BY <3>1
      <4>. QED BY <2>1, <3>1, <4>1, <4>2, <4>3
    <3>4. last \in Int /\ last <= corner /\ corner \in Nat
      <4> DEFINE k == height - 50 - row
      <4>1. k \in Nat /\ height = row + 50 + k
        BY <2>1, <3>1
      <4>. HIDE DEF k
      <4>2. width * height = row * width + 50 * width + k * width
        BY <3>1, <4>1
      <4> DEFINE above == row * width
                 below == k * width
      <4>3. above \in Nat /\ below \in Nat
        BY <3>1, <4>1
      <4>4. /\ last = above + column + 24 * width + 6
            /\ corner = above + 50 * width + below - 1
        <5>1. index = above + column /\ corner = width * height - 1
          OBVIOUS
        <5>2. width * height = above + 50 * width + below
          BY <4>2
        <5>. HIDE DEF above, below, index, corner
        <5>. QED BY <3>1, <4>3, <5>1, <5>2
      <4>. HIDE DEF above, below, last, corner
      <4>. QED BY <2>1, <3>1, <4>3, <4>4
    <3>5. PackRgb(enc, BytesPerPixel(enc), 0, corner, calls, size, TRUE)
      <4>1. /\ (IF first < 0 THEN first ELSE 0) = 0
            /\ (IF last > corner THEN last ELSE corner) = corner
        BY <3>3, <3>4
      <4>. HIDE DEF first, last, corner, calls, size
      <4>. QED BY <1>1, <3>2, <4>1
    <3>6. DrawnWithinBuffer'
      <4>1. corner < width * height
        BY <3>4
      <4>2. PackRgb(enc, BytesPerPixel(enc), 0, corner, calls,
                    BufferSize(width, height, enc), TRUE)
        BY <3>5
      <4>3. corner \in Int
        BY <3>4
      <4>. HIDE DEF corner, calls, size
      <4>. QED BY <2>6, <4>1, <4>2, <4>3, WithinImage
    <3>. QED BY <1>1, <1>2, <2>3, <3>6 DEF CardsInv, CardsSound
  <2>. QED BY <2>5, <2>6
<1>. QED BY <1>3, <1>4

(* Cards that are drawn from the first pixel on.                             *)
LEMMA StillDrawn ==
  ASSUME CardsInv, NEW enc, NEW width \in Nat, NEW height \in Nat,
         NEW high \in Int, high < width * height, NEW calls,
         PackRgb(enc, BytesPerPixel(enc), 0, high, calls,
                 BufferSize(width, height, enc), FALSE),
         UNCHANGED <<ball, narrow>>
  PROVE  CardsInv'
<1>1. /\ odd' \in BOOLEAN
      /\ odd' \/ swapped'
      /\ ChromaInOrder'
      /\ drawn'.mode = enc
  BY ChromaKept
<1>2. DrawnWithinBuffer'
  <2>1. CASE enc \in WholeBytes
    BY <2>1, WithinImage
  <2>2. CASE enc \notin WholeBytes
    BY <1>1, <2>2 DEF DrawnWithinBuffer
  <2>. QED BY <2>1, <2>2
<1>. QED BY <1>1, <1>2 DEF CardsInv, CardsSound

LEMMA PatternDrawn ==
  ASSUME CardsInv, NEW enc, NEW width \in Nat \ {0}, NEW height \in Nat \ {0},
         NEW pattern \in 0 .. 11,
         Pattern(pattern, enc, width, height, BufferSize(width, height, enc))
  PROVE  CardsInv'
<1> DEFINE size == BufferSize(width, height, enc)
           columns == 8 * (width \div 8)
<1>1. CASE EveryPixel(enc, width, height, size)
  <2>1. /\ PackRgb(enc, BytesPerPixel(enc), 0, width * height - 1,
                   width * height, size, FALSE)
        /\ UNCHANGED <<ball, narrow>>
    BY <1>1 DEF EveryPixel
  <2>2. width * height \in Nat
    OBVIOUS
  <2>. HIDE DEF size
  <2>3. /\ width * height - 1 \in Int
        /\ width * height - 1 < width * height
    BY <2>2
  <2>. QED BY <2>1, <2>3, StillDrawn DEF size
<1>2. CASE CreateGreyScaleBarTestCard(enc, width, height, size)
  <2> DEFINE high == (height - 1) * width + columns - 1
  <2>1. CASE UNCHANGED cards
    BY <2>1 DEF cards, CardsInv, CardsSound, DrawnWithinBuffer, ChromaInOrder
  <2>2. CASE /\ PackRgb(enc, BytesPerPixel(enc), 0, high, columns * height,
                        size, FALSE)
             /\ UNCHANGED <<ball, narrow>>
    <3>1. columns \in Nat /\ columns <= width
      OBVIOUS
    <3>2. (height - 1) * width = width * height - width
      OBVIOUS
    <3>3. width * height \in Nat
      OBVIOUS
    <3>4. high \in Int /\ high < width * height
      BY <3>1, <3>2, <3>3
    <3>. HIDE DEF high, columns
    <3>. QED BY <2>2, <3>4, StillDrawn
  <2>. QED BY <1>2, <2>1, <2>2 DEF CreateGreyScaleBarTestCard
<1>3. CASE CreateBouncingBallTestCard(enc, width, height, size)
  BY <1>3, BallDrawn
<1>4. \/ EveryPixel(enc, width, height, size)
      \/ CreateGreyScaleBarTestCard(enc, width, height, size)
      \/ CreateBouncingBallTestCard(enc, width, height, size)
  <2>. HIDE DEF size
  <2>1. Pattern(pattern, enc, width, height, size)
    BY DEF size
  <2>. QED BY <2>1
           DEF Pattern, CreateColourBarEbuTestCard, CreateColourBarTestCard,
               CreateCheckeredTestCard, CreateWhiteNoiseTestCard,
               CreateSolidTestCard
<1>. QED BY <1>1, <1>2, <1>3, <1>4

(* A transmitter that lives has the stream it was made with.                 *)
TransmitterState ==
  {[life |-> "unborn"]} \cup
    [life : {"alive", "gone"}, height : Nat \ {0}, width : Nat \ {0},
     encoding : Modes]

TransmitterInv == tx \in [Transmitters -> TransmitterState]

(* Over any order of cards, sizes and encodings: a card in an encoding with  *)
(* whole bytes stays in the buffer GetBuffer() made for it, the ball as long *)
(* as every image it was drawn in has at least 80 pixels each way, and a     *)
(* YUV422 card begins with U until an odd number of pixels was drawn         *)
(* (RtpSapTransmit::GetBufferTestPattern(), PackRgb()'s "odd").              *)
THEOREM Cards == Spec => []CardsSound
<1>1. Init => TransmitterInv /\ CardsInv
  <2> SUFFICES ASSUME Init PROVE TransmitterInv /\ CardsInv
    OBVIOUS
  <2>1. TransmitterInv
    BY DEF Init, TransmitterInv, TransmitterState
  <2>2. CardsInv
    BY DEF Init, CardsInit, CardsInv, CardsSound, DrawnWithinBuffer,
           ChromaInOrder
  <2>. QED BY <2>1, <2>2
<1>2. ASSUME TransmitterInv, CardsInv, [Next]_vars
      PROVE  TransmitterInv' /\ CardsInv'
  <2>1. ASSUME UNCHANGED cards PROVE CardsInv'
    BY <1>2, <2>1 DEF cards, CardsInv, CardsSound, DrawnWithinBuffer,
                      ChromaInOrder
  <2>2. ASSUME NEW t \in Transmitters, NEW s \in Sizes, NEW enc \in Modes,
               RtpSapTransmit(t, s, enc)
        PROVE  TransmitterInv' /\ CardsInv'
    <3>1. /\ tx' = [tx EXCEPT ![t] = [life |-> "alive", height |-> s[1],
                                      width |-> s[2], encoding |-> enc]]
          /\ UNCHANGED cards
      BY <2>2 DEF RtpSapTransmit
    <3>2. [life |-> "alive", height |-> s[1], width |-> s[2],
           encoding |-> enc] \in TransmitterState
      BY WrapperAssumption DEF WrapperAssumption, TransmitterState
    <3>. QED BY <1>2, <2>1, <3>1, <3>2 DEF TransmitterInv
  <2>3. ASSUME NEW t \in Transmitters, DestroyTransmit(t)
        PROVE  TransmitterInv' /\ CardsInv'
    <3>1. /\ tx[t].life = "alive" /\ UNCHANGED cards
          /\ tx' = [tx EXCEPT ![t].life = "gone"]
      BY <2>3 DEF DestroyTransmit
    <3>2. [tx[t] EXCEPT !.life = "gone"] \in TransmitterState
      BY <1>2, <3>1 DEF TransmitterInv, TransmitterState
    <3>. QED BY <1>2, <2>1, <3>1, <3>2 DEF TransmitterInv
  <2>4. ASSUME NEW t \in Transmitters, NEW pattern \in 0 .. 11,
               GetBufferTestPattern(t, pattern)
        PROVE  TransmitterInv' /\ CardsInv'
    <3> DEFINE height == tx[t].width
               width == tx[t].height
               enc == tx[t].encoding
    <3>1. /\ tx[t].life = "alive" /\ UNCHANGED tx
          /\ Pattern(pattern, enc, width, height,
                     BufferSize(width, height, enc))
      BY <2>4 DEF GetBufferTestPattern
    <3>2. height \in Nat \ {0} /\ width \in Nat \ {0}
      BY <1>2, <3>1 DEF TransmitterInv, TransmitterState
    <3>. HIDE DEF height, width, enc
    <3>3. CardsInv'
      BY <1>2, <3>1, <3>2, PatternDrawn
    <3>. QED BY <1>2, <3>1, <3>3 DEF TransmitterInv
  <2>5. ASSUME UNCHANGED <<tx, cards>> PROVE TransmitterInv' /\ CardsInv'
    BY <1>2, <2>1, <2>5 DEF TransmitterInv
  <2>6. ASSUME NEW r \in Receivers,
               \/ \E name \in Names : RtpSapRecieve(r, name)
               \/ DestroyRecieve(r) \/ RecieveDestroyed(r)
        PROVE  TransmitterInv' /\ CardsInv'
    BY <2>5, <2>6 DEF RtpSapRecieve, DestroyRecieve, RecieveDestroyed
  <2>7. CASE SapStore \/ Callback \/ CallbackOpens \/ CallbackStarts
    BY <2>5, <2>7 DEF SapStore, Callback, CallbackOpens, CallbackStarts
  <2>8. CASE UNCHANGED vars
    BY <2>5, <2>8 DEF vars
  <2>. QED BY <1>2, <2>2, <2>3, <2>4, <2>6, <2>7, <2>8 DEF Next
<1>3. CardsInv => CardsSound
  BY DEF CardsInv
<1>. QED BY <1>1, <1>2, <1>3, PTL DEF Spec
-----------------------------------------------------------------------------
(* The transmit program.                                                     *)

LEMMA PixelsAreNat == Pixels \in Nat
BY ExampleAssumption DEF ExampleAssumption, Pixels

LEMMA ImageFits == Image \in Nat /\ Image <= 3 * Pixels
<1>1. video_mode \in {"Rgb24", "Mono16", "Mono8", "H264Part4", "H265",
                      "Yuv422"}
  BY DEF video_mode, GetMode
<1>2. BytesPerPixel(video_mode) \in 1 .. 3
  BY <1>1 DEF BytesPerPixel, BitsPerPixel, Bits
<1>3. CASE BytesPerPixel(video_mode) = 1
  BY <1>3, PixelsAreNat DEF Image
<1>4. CASE BytesPerPixel(video_mode) = 2
  BY <1>4, PixelsAreNat DEF Image
<1>5. CASE BytesPerPixel(video_mode) = 3
  BY <1>5, PixelsAreNat DEF Image
<1>. QED BY <1>2, <1>3, <1>4, <1>5

(* What rtp->Transmit() reads of an encoded stream is in transmit_buffer.    *)
LEMMA EncodedFits == video_mode \notin Uncompressed => Image = VideoBytes
<1>1. video_mode \in {"Rgb24", "Mono16", "Mono8", "H264Part4", "H265",
                      "Yuv422"}
  BY DEF video_mode, GetMode
<1>2. video_mode \in {"H264Part4", "H265"} => BytesPerPixel(video_mode) = 3
  BY DEF BytesPerPixel, BitsPerPixel, Bits
<1>. QED BY <1>1, <1>2 DEF Uncompressed, Image, VideoBytes

(* Behind the preparation of the image, video_buffer has three bytes a pixel *)
(* for a card and the camera; transmit_buffer always has the image's; only a *)
(* camera's image is captured, and a mapping has a length the camera gave it.*)
ExampleInv ==
  /\ source \in Sources
  /\ video \in Nat
  /\ transmit = Image
  /\ back \in {"start", "transmit"}
  /\ pc \in {"open", "source"} => overrun = {}
  /\ pc \in {"dequeue", "copy", "requeue"} => source = 1
  /\ pc \notin {"open", "source", "returned"} /\ source \in 1 .. 12
       => video = 3 * Pixels
  /\ pc \notin {"open", "source", "returned", "done"} /\ source = 1
       => mapped \in Lengths
  /\ pc \notin {"open", "source"} /\ source # 1 => buffer_ = "none"
  /\ pc \in {"open", "source"} => buffer_ = "none"
  /\ CopiesWithinBuffers

LEMMA ExampleStep ==
  ASSUME ExampleInv, [ExampleNext]_everything
  PROVE  ExampleInv'
<1> USE PixelsAreNat
<1>0. Lengths \subseteq Nat /\ PngPixels \subseteq Nat
  BY ExampleAssumption DEF ExampleAssumption
<1>1. UNCHANGED flags =>
        /\ transmit = Image /\ Image' = Image /\ video_mode' = video_mode
        /\ VideoBytes' = VideoBytes /\ Pixels' = Pixels
  BY DEF flags, Image, video_mode, ExampleInv, VideoBytes, Pixels
<1>2. ASSUME UNCHANGED <<flags, back, buffers, overrun, mapped, buffer_>>,
             \/ pc' = pc
             \/ /\ pc \notin {"open", "source", "returned", "done"}
                /\ \/ pc' \in {"start", "loop", "transmit", "stop", "done"}
                   \/ /\ pc' \in {"dequeue", "copy", "requeue"}
                      /\ source = 1
             \/ pc = "open" /\ pc' \in {"source", "returned"}
             \/ pc = "source" /\ pc' = "start" /\ source = 13
      PROVE  ExampleInv'
  <2>1. UNCHANGED <<source, num_frames, back, video, transmit, overrun, mapped,
                    buffer_>>
    BY <1>2 DEF flags, buffers
  <2>2. CopiesWithinBuffers'
    BY <1>1, <1>2, <2>1 DEF ExampleInv, CopiesWithinBuffers, CaptureBytes
  <2>3. source' \in Sources /\ video' \in Nat /\ transmit' = Image'
        /\ back' \in {"start", "transmit"}
    BY <1>1, <1>2, <2>1 DEF ExampleInv
  <2>. QED BY <1>2, <2>1, <2>2, <2>3 DEF ExampleInv
<1>3. CASE CardSource
  <2>1. /\ pc = "source" /\ pc' = "start" /\ source \in 2 .. 12
        /\ video' = 3 * Pixels
        /\ UNCHANGED <<flags, back, transmit, camera>>
    BY <1>3 DEF CardSource, From, GoTo, VideoBytes
  <2>2. /\ overrun' = overrun \cup (IF Image > video' THEN {"card"} ELSE {})
        /\ overrun = {} /\ buffer_ = "none"
    BY <1>3, <2>1 DEF CardSource, Within, ExampleInv
  <2>3. overrun' = {}
    BY <2>1, <2>2, ImageFits
  <2>. QED BY <1>1, <2>1, <2>2, <2>3
           DEF flags, camera, ExampleInv, CopiesWithinBuffers
<1>4. CASE PngSource
  <2>1. /\ pc = "source" /\ source = 0 /\ pc' \in {"start", "returned"}
        /\ UNCHANGED <<flags, back, transmit, camera>>
        /\ \E pixels \in PngPixels : video' = 4 * pixels
    BY <1>4 DEF PngSource, From, GoTo, ReadPngRgb24
  <2>2. /\ overrun' \in {overrun, overrun \cup (IF 4 * Pixels > video'
                                               THEN {"png"} ELSE {})}
        /\ overrun = {} /\ buffer_ = "none"
    BY <1>4, <2>1 DEF PngSource, Within, ExampleInv
  <2>3. video' \in Nat
    BY <1>0, <2>1
  <2>4. \A access \in overrun' : access = "png" /\ video' < 4 * Pixels
    BY <2>2, <2>3
  <2>5. CopiesWithinBuffers'
    BY <1>1, <2>1, <2>4 DEF CopiesWithinBuffers
  <2>. QED BY <1>1, <2>1, <2>2, <2>3, <2>5 DEF flags, camera, ExampleInv
<1>5. CASE CameraSource
  <2>1. /\ pc = "source" /\ source = 1 /\ pc' \in {"dequeue", "returned"}
        /\ video' = 3 * Pixels
        /\ UNCHANGED <<flags, back, transmit, overrun>>
    BY <1>5 DEF CameraSource, From, GoTo, VideoBytes
  <2>2. pc' = "dequeue" => mapped' \in Lengths
    BY <1>5 DEF CameraSource, Initalise, GoTo
  <2>3. overrun' = {}
    BY <2>1 DEF ExampleInv
  <2>. QED BY <1>1, <2>1, <2>2, <2>3
           DEF flags, ExampleInv, CopiesWithinBuffers
<1>6. CASE CopyImage
  <2> DEFINE size == IF source = 11 THEN transmit ELSE video
             access == IF source = 11 THEN "noise" ELSE "image"
  <2>1. /\ pc = "loop" /\ source # 1 /\ pc' = "transmit"
        /\ UNCHANGED <<flags, back, buffers, camera>>
        /\ overrun' = overrun \cup (IF Image > size THEN {access} ELSE {})
    BY <1>6 DEF CopyImage, From, GoTo, Within
  <2>2. source \in 2 .. 12 => ~(Image > size)
    BY <2>1, ImageFits DEF ExampleInv
  <2>3. source = 0 /\ Image > video => video < 4 * Pixels
    BY ImageFits DEF ExampleInv
  <2>4. source \in {0, 13} \/ source \in 2 .. 12
    BY <2>1 DEF ExampleInv, Sources
  <2>5. Image > size =>
          access = "image" /\ (source = 13 \/ (source = 0 /\ video < 4 * Pixels))
    BY <2>2, <2>3, <2>4
  <2>6. CopiesWithinBuffers'
    <3>. HIDE DEF size, access
    <3>. QED BY <1>1, <2>1, <2>5
             DEF flags, buffers, ExampleInv, CopiesWithinBuffers, CaptureBytes
  <2>. QED BY <1>1, <2>1, <2>6 DEF flags, buffers, camera, ExampleInv
<1>7. CASE CaptureImage
  <2>1. /\ pc = "loop" /\ source = 1 /\ pc' = "dequeue"
        /\ back' = "transmit"
        /\ UNCHANGED <<flags, buffers, overrun, camera>>
    BY <1>7 DEF CaptureImage, From, GoTo
  <2>2. CopiesWithinBuffers'
    BY <1>1, <2>1 DEF flags, buffers, ExampleInv, CopiesWithinBuffers,
                      CaptureBytes
  <2>. QED BY <1>1, <2>1, <2>2 DEF flags, buffers, camera, ExampleInv
<1>8. CASE CaptureCopy
  <2>1. /\ pc = "copy" /\ pc' = "requeue"
        /\ UNCHANGED <<flags, back, buffers, camera>>
        /\ overrun' = overrun
                        \cup (IF CaptureBytes > mapped THEN {"mapping"} ELSE {})
                        \cup (IF CaptureBytes > video THEN {"camera"} ELSE {})
    BY <1>8 DEF CaptureCopy, From, GoTo
  <2>2. source = 1 /\ video = 3 * Pixels /\ mapped \in Lengths
    BY <2>1 DEF ExampleInv
  <2>3. ~(CaptureBytes > video) /\ CaptureBytes \in Nat
    BY <2>2 DEF CaptureBytes
  <2>4. \A access \in overrun' :
          access \in overrun \/ (access = "mapping" /\ mapped < CaptureBytes)
    BY <1>0, <2>1, <2>2, <2>3
  <2>5. CopiesWithinBuffers'
    BY <1>1, <2>1, <2>2, <2>4
    DEF flags, buffers, ExampleInv, CopiesWithinBuffers, CaptureBytes
  <2>. QED BY <1>1, <2>1, <2>2, <2>5 DEF flags, buffers, camera, ExampleInv
<1>9. CASE CaptureDequeue \/ CaptureRequeue
  <2>1. /\ pc \in {"dequeue", "requeue"} /\ pc' \in {"copy", back}
        /\ UNCHANGED <<flags, back, buffers, overrun, mapped, buffer_>>
    BY <1>9 DEF CaptureDequeue, CaptureRequeue, From, GoTo, Return, Dequeue,
                Requeue, camera
  <2>2. source = 1 /\ back \in {"start", "transmit"}
    BY <2>1 DEF ExampleInv
  <2>. QED BY <1>2, <2>1, <2>2
<1>10. CASE Open
  BY <1>2, <1>10 DEF Open, From, GoTo, camera
<1>11. CASE NoSource
  BY <1>2, <1>11 DEF NoSource, From, GoTo, camera
<1>12. CASE Start
  BY <1>2, <1>12 DEF Start, From, GoTo, camera
<1>13. CASE LoopEnds
  BY <1>2, <1>13 DEF LoopEnds, From, GoTo, camera
<1>14. CASE Transmit
  <2>1. /\ pc = "transmit" /\ pc' \in {"stop", "loop"}
        /\ UNCHANGED <<flags, back, buffers, camera>>
    BY <1>14 DEF Transmit, From, GoTo
  <2>2. CASE UNCHANGED overrun
    BY <1>2, <2>1, <2>2 DEF camera
  <2>3. CASE video_mode \in Uncompressed /\ TransmitReads
    <3>1. overrun' \subseteq overrun \cup {"row"}
      BY <2>3 DEF TransmitReads, Within
    <3>2. CopiesWithinBuffers'
      BY <1>1, <2>1, <2>3, <3>1
      DEF flags, buffers, ExampleInv, CopiesWithinBuffers, CaptureBytes
    <3>. QED BY <1>1, <2>1, <3>2 DEF flags, buffers, camera, ExampleInv
  <2>4. CASE video_mode \notin Uncompressed /\ TransmitReads
    <3>1. /\ ~(VideoBytes > transmit)
          /\ overrun' = overrun \cup (IF VideoBytes > transmit
                                      THEN {"row"} ELSE {})
      BY <2>4, EncodedFits DEF TransmitReads, Within, ExampleInv, VideoBytes
    <3>. QED BY <2>2, <3>1
  <2>. QED BY <1>14, <2>2, <2>3, <2>4 DEF Transmit
<1>15. CASE Stop
  <2>1. /\ pc = "stop" /\ pc' = "done"
        /\ UNCHANGED <<flags, back, buffers>>
        /\ overrun' = overrun \cup
             (IF fd_ = "open" /\ buffer_ # "none" /\ VideoBytes > mapped
              THEN {"unmap"} ELSE {})
    BY <1>15 DEF Stop, From, GoTo, Within
  <2>2. buffer_ # "none" => source = 1 /\ mapped \in Lengths
    BY <2>1 DEF ExampleInv
  <2>3. buffer_' \in {"none", buffer_}
    BY <1>15 DEF Stop, DestroyV4L2Capture, camera
  <2>4. VideoBytes \in Nat
    BY DEF VideoBytes
  <2>5. \A access \in overrun' :
          \/ access \in overrun
          \/ access = "unmap" /\ \E length \in Lengths : length < VideoBytes
    <3>1. CASE buffer_ # "none" /\ VideoBytes > mapped
      <4>1. mapped \in Lengths /\ mapped < VideoBytes
        BY <1>0, <2>2, <2>4, <3>1
      <4>2. \E length \in Lengths : length < VideoBytes
        BY <4>1
      <4>3. overrun' \subseteq overrun \cup {"unmap"}
        BY <2>1
      <4>. QED BY <4>2, <4>3
    <3>2. CASE ~(buffer_ # "none" /\ VideoBytes > mapped)
      <4>1. overrun' = overrun
        <5>. HIDE DEF VideoBytes
        <5>. QED BY <2>1, <3>2
      <4>. QED BY <4>1
    <3>. QED BY <3>1, <3>2
  <2>6. CopiesWithinBuffers'
    BY <1>1, <2>1, <2>5 DEF flags, buffers, ExampleInv, CopiesWithinBuffers,
                            CaptureBytes
  <2>. QED BY <1>1, <2>1, <2>2, <2>3, <2>6 DEF flags, buffers, ExampleInv
<1>16. CASE Signal \/ Driver \/ UNCHANGED everything
  BY <1>2, <1>16 DEF Signal, Driver, Fill, camera, everything
<1>. QED
  BY <1>3, <1>4, <1>5, <1>6, <1>7, <1>8, <1>9, <1>10, <1>11, <1>12, <1>13,
     <1>14, <1>15, <1>16
  DEF ExampleNext, main

(* Whatever the size of the stream, the PNG file, the camera's buffer, the   *)
(* source, the mode and the failures: cards, noise and the camera's images   *)
(* are written within their buffers, an encoder reads within its frame, and  *)
(* what is left is a PNG file smaller than the stream, a source that does    *)
(* not exist, a camera with a short buffer, and the row behind the frame of  *)
(* an uncompressed stream (transmit-example.cc's memcpy calls,               *)
(* V4L2Capture::CaptureFrame(), RtpUncompressedPayloader::SendFrame()).      *)
THEOREM Copies == Example => []CopiesWithinBuffers
<1>1. ExampleInit => ExampleInv
  BY DEF ExampleInit, ExampleInv, Image, video_mode, CopiesWithinBuffers,
         V4L2Capture
<1>2. ExampleInv => CopiesWithinBuffers
  BY DEF ExampleInv
<1>. QED BY <1>1, <1>2, ExampleStep, PTL DEF Example
=============================================================================
