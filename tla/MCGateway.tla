------------------------------ MODULE MCGateway ------------------------------
(***************************************************************************)
(* Gateway for TLC.  Names are spelled out of a letter and the underscore: *)
(* a connector with a tool of each stance, whose names hold the separator  *)
(* or part of it, Composio's with a longer name, and names made up.        *)
(***************************************************************************)
EXTENDS Gateway, TLC

Tool(c, t) == [connector |-> c, tool_name |-> t]

Mock == <<"a">>
Mocks == {Mock}
Composio == <<"a", "a">>
ToolA == <<"a">>
ToolB == <<"_">>
ToolC == <<"_", "_", "a">>
MockTools == {Tool(Mock, ToolA), Tool(Mock, ToolB), Tool(Mock, ToolC)}
ComposioTools == {Tool(Composio, ToolA)}

AskedTools == {Tool(Mock, ToolB), Tool(Composio, ToolA)}
BlockedTools == {Tool(Mock, ToolC)}

\* A tool that is not there, a blocked one, no connector, and no separator.
OddNames == {Namespaced(Mock, <<"a", "a">>), Namespaced(Mock, ToolC),
             Namespaced(<< >>, ToolA), <<"a", "_">>}

Letters == {"a", "_"}
HandlerSymmetry == Permutations(Handlers)
=============================================================================
