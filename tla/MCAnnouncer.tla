---------------------------- MODULE MCAnnouncer ----------------------------
(* Two streams of one session, on two multicast addresses. *)
EXTENDS SapAnnouncer

MCTwo == {[name |-> "HD", addr |-> "239.1"], [name |-> "HD", addr |-> "239.2"]}
MCNoKey == [name |-> "garbage", addr |-> "garbage"]
=============================================================================
