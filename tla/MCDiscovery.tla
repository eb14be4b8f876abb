----------------------------- MODULE MCDiscovery -----------------------------
(* One stream, and no message but its announcement and deletion. *)
EXTENDS SapDiscovery

MCOne == {[name |-> 1, addr |-> "239.1"]}
MCMessages ==
  [session : {1}, addr : {"239.1"}, media : {"239.1"}, deleted : BOOLEAN]
=============================================================================
