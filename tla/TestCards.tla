------------------------------ MODULE TestCards ------------------------------
(***************************************************************************)
(* The test cards of src/src/rtp/rtp_utils.cc.  A card is drawn pixel by   *)
(* pixel with PackRgb(); two things outlive the call, for every user in    *)
(* the process: PackRgb()'s static flag "odd", which says whether the next *)
(* YUV422 pixel carries U or V, and the static position of the bouncing    *)
(* ball.  Which bytes a card reaches is modelled, its colours are not.     *)
(***************************************************************************)
EXTENDS Encodings, FiniteSets

VARIABLES
  odd,      \* PackRgb()'s static "odd"
  ball,     \* the static "ball", in half pixels, or NoBall before its first frame
  swapped,  \* history: an odd number of pixels has been drawn in YUV422
  narrow,   \* history: a ball has been drawn in an image it may not fit
  drawn     \* the last card: its encoding, whether it is a ball, the bytes it
            \* reached, those of its buffer, and "odd" before it

cards == <<odd, ball, swapped, narrow, drawn>>

NoBall == [x |-> 0, y |-> 0, vx |-> 0, vy |-> 0]

CardsInit ==
  /\ odd = TRUE /\ ball = NoBall /\ swapped = FALSE /\ narrow = FALSE
  /\ drawn = [mode |-> "Rgb24", ball |-> FALSE, low |-> 0, high |-> 0,
              size |-> 0, odd |-> TRUE]

(* The bytes PackRgb() reaches, up to the index it is given.  The U and V    *)
(* of Yuv420p are put where an image of 640x480 has them, a quarter of the   *)
(* index further on or more.                                                 *)
Planes == 640 * 480 + (640 * 480) \div 4
Reached(mode, index) ==
  IF mode = "Yuv420p" /\ index < Planes + index \div 4
  THEN Planes + index \div 4 + 1 ELSE index + PackedBytes(mode)

(* Pixels "low" to "high", "stride" bytes apart, reached by "calls" calls.   *)
PackRgb(mode, stride, low, high, calls, size, isBall) ==
  LET swaps == mode = "Yuv422" /\ calls % 2 = 1 IN
  /\ odd' = IF swaps THEN ~odd ELSE odd
  /\ swapped' = (swapped \/ swaps)
  /\ drawn' = [mode |-> mode, ball |-> isBall, low |-> low * stride,
               high |-> Reached(mode, high * stride), size |-> size,
               odd |-> odd]
-----------------------------------------------------------------------------
(* Rows and columns from 0: colour bars, checkered.                          *)
EveryPixel(mode, width, height, size) ==
  /\ PackRgb(mode, BytesPerPixel(mode), 0, width * height - 1,
             width * height, size, FALSE)
  /\ UNCHANGED <<ball, narrow>>

CreateColourBarEbuTestCard(mode, width, height, size) ==
  EveryPixel(mode, width, height, size)
CreateColourBarTestCard(mode, width, height, size) ==
  EveryPixel(mode, width, height, size)
CreateCheckeredTestCard(mode, width, height, size) ==
  EveryPixel(mode, width, height, size)

(* One running index, up to width * height * stride in steps of the stride.  *)
CreateQuadTestCard(mode, width, height, size) ==
  EveryPixel(mode, width, height, size)
CreateSolidTestCard(mode, width, height, size) ==
  EveryPixel(mode, width, height, size)
CreateWhiteNoiseTestCard(mode, width, height, size) ==
  EveryPixel(mode, width, height, size)

(* Eight bars of width / 8 columns: the columns left over stay as they were. *)
CreateGreyScaleBarTestCard(mode, width, height, size) ==
  LET columns == 8 * (width \div 8) IN
  IF columns = 0 THEN UNCHANGED cards
  ELSE /\ PackRgb(mode, BytesPerPixel(mode), 0,
                  (height - 1) * width + columns - 1, columns * height, size,
                  FALSE)
       /\ UNCHANGED <<ball, narrow>>
-----------------------------------------------------------------------------
BallSize == 50
Half == BallSize \div 2

(* The pixels of the ball, relative to its position.                         *)
Circle == {p \in (-Half .. Half - 1) \X (-Half .. Half - 1) :
             p[1] * p[1] + p[2] * p[2] < Half * Half}

(* Too far left (or up) or too far right (or down) turns the direction.      *)
Turned(v, at, length) ==
  IF at < 2 * (BallSize + 1) \/ at > 2 * (length - BallSize) THEN -v ELSE v

(* The unsigned length - BallSize of an image too small for the ball wraps   *)
(* and bounds nothing.                                                       *)
ClampedMutant(at, length) == at
Clamped(at, length) ==
  LET most == 2 * (length - BallSize) IN
  IF at < 0 THEN 0 ELSE IF most >= 0 /\ at > most THEN most ELSE at

Moved(b, width, height) ==
  LET x == b.x + b.vx
      y == b.y + b.vy
  IN [x |-> Clamped(x, width), y |-> Clamped(y, height),
      vx |-> Turned(b.vx, x, width), vy |-> Turned(b.vy, y, height)]

(* An image with room for the ball, 50 pixels wide, and its turns.           *)
Roomy(width, height) == width >= 80 /\ height >= 80

(* The static ball starts in the middle of the first image it is drawn in.   *)
(* The lowest and the highest pixel of the ball lie in its first and last    *)
(* row when a row is wider than the ball.  The stride of Yuv420p is the one  *)
(* of its luminance.                                                         *)
CreateBouncingBallTestCard(mode, width, height, size) ==
  LET start == [x |-> width, y |-> height, vx |-> 10, vy |-> 10]
      b == Moved(IF ball = NoBall THEN start ELSE ball, width, height)
      stride == IF mode = "Yuv420p" THEN 1 ELSE BytesPerPixel(mode)
      index == (b.y \div 2) * width + b.x \div 2
      first == index - 24 * width - 6
      last == index + 24 * width + 6
      corner == width * height - 1
  IN /\ ball' = b
     /\ PackRgb(mode, stride, IF first < 0 THEN first ELSE 0,
                IF last > corner THEN last ELSE corner,
                width * height + Cardinality(Circle), size, TRUE)
     /\ narrow' = (narrow \/ ~Roomy(width, height))

(* The cards of RtpSapTransmit::GetBufferTestPattern(), by their number.     *)
Pattern(pattern, mode, width, height, size) ==
  CASE pattern = 0 -> CreateColourBarEbuTestCard(mode, width, height, size)
    [] pattern = 1 -> CreateColourBarTestCard(mode, width, height, size)
    [] pattern = 2 -> CreateGreyScaleBarTestCard(mode, width, height, size)
    [] pattern = 3 -> CreateCheckeredTestCard(mode, width, height, size)
    [] pattern = 9 -> CreateWhiteNoiseTestCard(mode, width, height, size)
    [] pattern = 10 -> CreateBouncingBallTestCard(mode, width, height, size)
    [] OTHER -> CreateSolidTestCard(mode, width, height, size)

(* No card in an encoding with whole bytes writes outside the buffer it is   *)
(* given, wherever the ball has got to and however the size of the images    *)
(* changed on its way; the ball itself may, once it was drawn in an image    *)
(* without the room for it.                                                  *)
DrawnWithinBuffer ==
  drawn.mode \in WholeBytes /\ ~(drawn.ball /\ narrow) =>
    drawn.low >= 0 /\ drawn.high <= drawn.size

(* A YUV422 card begins with U until an odd number of pixels has been drawn, *)
(* which swaps U and V of what follows: each frame of the ball does, and     *)
(* every card of a size with an odd number of pixels.                        *)
ChromaInOrder == drawn.odd \/ swapped

(* Both of a card, whatever was drawn before it by any transmitter of the    *)
(* process.                                                                  *)
CardsSound == DrawnWithinBuffer /\ ChromaInOrder
=============================================================================
