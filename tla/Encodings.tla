------------------------------ MODULE Encodings ------------------------------
(***************************************************************************)
(* The sizes of a pixel in the encodings of mediax::rtp::ColourspaceType   *)
(* (src/src/rtp/rtp_utils.cc), and the modes of the example programs.      *)
(***************************************************************************)
EXTENDS Integers

Bits == [Rgba |-> 32, Rgb24 |-> 24, Yuv422 |-> 16, Yuv420p |-> 12,
         Mono16 |-> 16, Mono8 |-> 8, Nv12 |-> 12, H264Part4 |-> 24,
         H264Part10 |-> 24, H265 |-> 24, Jpeg2000 |-> 24, Av1 |-> 24]

BitsPerPixel(mode) == IF mode \in DOMAIN Bits THEN Bits[mode] ELSE 0
BytesPerPixel(mode) == (BitsPerPixel(mode) + 7) \div 8

(* The encodings with a whole number of bytes to the pixel; the stride of    *)
(* the others is rounded up.                                                 *)
WholeBytes == {mode \in DOMAIN Bits : Bits[mode] % 8 = 0}

(* The bytes PackRgb() writes from the index it is given.                    *)
PackedBytes(mode) ==
  CASE mode = "Rgba" -> 4
    [] mode \in {"Yuv422", "Mono16"} -> 2
    [] mode \in {"Mono8", "Yuv420p"} -> 1
    [] OTHER -> 3

(* GetMode() of the example programs: an unknown mode is YUV.               *)
GetMode(mode) ==
  CASE mode = 0 -> "Rgb24"
    [] mode = 2 -> "Mono16"
    [] mode = 3 -> "Mono8"
    [] mode = 4 -> "H264Part4"
    [] mode = 5 -> "H265"
    [] OTHER -> "Yuv422"
=============================================================================
