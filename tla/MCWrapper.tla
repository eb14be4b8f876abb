----------------------------- MODULE MCWrapper -----------------------------
(* Model checking of RtpSapWrapper: an image as low as the ball allows and   *)
(* one higher, one of an odd number of pixels, and one too small for the     *)
(* ball.                                                                     *)
EXTENDS RtpSapWrapper

MCSizes == {<<80, 112>>, <<81, 81>>, <<60, 40>>}
=============================================================================
