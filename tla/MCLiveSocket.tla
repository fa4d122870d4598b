----------------------------- MODULE MCLiveSocket -----------------------------
(* `user` is the topic of a table, clients create and destroy `chat`. *)
EXTENDS LiveSocket

CONSTANTS c1, c2, user, chat
=============================================================================
