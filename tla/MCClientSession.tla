--------------------------- MODULE MCClientSession ---------------------------
EXTENDS ClientSession

(* The others keep to the first room: enough to fill it.                   *)
OthersIn == <<2, 0>>

(* Bound: nothing is followed beyond a deadlock, nor a fault of UDP next   *)
(* to a session that may end.  What the properties say of identity, screen *)
(* and answers excepts all that would come after a fault; after a deadlock *)
(* nobody is answered any more.                                            *)
Followed == ~Jammed /\ ("udp" \in blur => \A r \in Ending : live[r] = "none")
=============================================================================
