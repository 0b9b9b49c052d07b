-------------------------- MODULE MCConnectorAccess --------------------------
(***************************************************************************)
(* ConnectorAccess for TLC: Composio may hold nothing when the gateway     *)
(* comes up, or accounts of earlier sessions.  Tokens are everybody's, so  *)
(* that one user's requests about them are enough; the other user is there *)
(* to be logged out beside the first, or by mistake.                       *)
(***************************************************************************)
EXTENDS ConnectorAccess, TLC

CONSTANTS OneUser, OtherUser

Account(u, status) == [user |-> u, status |-> status]
OneAccountEach == {<< >>, <<Account(OneUser, "active"), Account(OtherUser, "active")>>}

Made == {r \in Requests :
    /\ r.user = OneUser \/ (r.name = Slot /\ r.op = "logout")
    /\ r.name \in Registered \union {Slot} \/ r.op = "status"}

HandlerSymmetry == Permutations(Handlers)
=============================================================================
