----------------------------- MODULE MCListener -----------------------------
(* Two sessions; the second is announced and later withdrawn with another    *)
(* address and picture size, nothing is heard of the first.  One message     *)
(* names no session.                                                         *)
EXTENDS SapListener

MCMessages ==
  {[session |-> 2, addr |-> "239.1", media |-> "HD", deleted |-> FALSE],
   [session |-> 2, addr |-> "239.2", media |-> "SD", deleted |-> TRUE],
   [session |-> 0, addr |-> "239.1", media |-> "SD", deleted |-> FALSE]}
=============================================================================
