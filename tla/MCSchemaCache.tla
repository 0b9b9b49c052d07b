---------------------------- MODULE MCSchemaCache ----------------------------
(***************************************************************************)
(* SchemaCache for TLC: a connector with two tools, of which one may not   *)
(* be listed at first, and a connector of its own for a third.             *)
(***************************************************************************)
EXTENDS SchemaCache, TLC

CONSTANTS Create, Search, Page, GitHub, Notion, Title

Topology == [t \in Tools |-> IF t = Page THEN Notion ELSE GitHub]
CreateOnly == [t \in Tools |-> IF t = Create THEN {Title} ELSE None]
HandlerSymmetry == Permutations(Handlers)
=============================================================================
