-------------------------- MODULE MCComposioServer --------------------------
(***************************************************************************)
(* ComposioServer for TLC: a project that already holds another program's  *)
(* server; two machines share one server name, one of them is sometimes    *)
(* started for a toolkit of its own, the other under the name the project  *)
(* already knows.                                                          *)
(***************************************************************************)
EXTENDS ComposioServer

CONSTANTS Gateway, Staging, Other

OtherServer == <<Other>>

First == CHOOSE m \in Machines : TRUE
Sharing == [m \in Machines |-> {Gateway, IF m = First THEN Staging ELSE Other}]
=============================================================================
