------------------------------ MODULE ToolNames ------------------------------
(***************************************************************************)
(* Namespaced tool names.  The gateway lists every tool under              *)
(* `<connector>__<tool>` and takes a name apart at its first "__"; the     *)
(* agent puts the same name together for a task and strips a connector's   *)
(* prefix off the names it is listed.  Names are sequences of characters,  *)
(* Underscore among them.                                                  *)
(***************************************************************************)
EXTENDS Integers, Sequences

CONSTANTS Char, Underscore

ASSUME CharAssumption == Underscore \in Char

Name == Seq(Char)
Separator == <<Underscore, Underscore>>
NoRoute == [routed |-> FALSE]
Pair(c, t) == [routed |-> TRUE, connector |-> c, tool_name |-> t]

Namespaced(c, t) == c \o Separator \o t

SeparatorAt(n, i) == i \in 1..(Len(n) - 1) /\ n[i] = Underscore /\ n[i + 1] = Underscore
FirstSeparator(n) ==
    CHOOSE i \in 1..(Len(n) - 1) :
        SeparatorAt(n, i) /\ \A j \in 1..(i - 1) : ~SeparatorAt(n, j)
LastSeparator(n) ==
    CHOOSE i \in 1..(Len(n) - 1) :
        SeparatorAt(n, i) /\ \A j \in (i + 1)..(Len(n) - 1) : ~SeparatorAt(n, j)
Cut(n, i) == Pair(SubSeq(n, 1, i - 1), SubSeq(n, i + 2, Len(n)))

\* A slip: rsplit_once.
RouteFromTheEnd(n) ==
    IF \E i \in 1..(Len(n) - 1) : SeparatorAt(n, i) THEN Cut(n, LastSeparator(n)) ELSE NoRoute

\* protocol::route_tool, which is split_once("__").
Route(n) ==
    IF \E i \in 1..(Len(n) - 1) : SeparatorAt(n, i) THEN Cut(n, FirstSeparator(n)) ELSE NoRoute

\* strip_prefix, as ensure_schema_cached uses it: is n one of connector c's
\* names, and what is left of it.
HasPrefix(n, p) == Len(p) <= Len(n) /\ \A i \in 1..Len(p) : n[i] = p[i]
IsUnder(n, c) == HasPrefix(n, c \o Separator)
Bare(n, c) == SubSeq(n, Len(c) + 3, Len(n))

\* What a connector's name must avoid for all of this to be unambiguous: a
\* separator inside, and an underscore that would start one too early.
WellNamed(c) ==
    /\ \A i \in 1..(Len(c) - 1) : ~SeparatorAt(c, i)
    /\ Len(c) > 0 => c[Len(c)] # Underscore
=============================================================================
