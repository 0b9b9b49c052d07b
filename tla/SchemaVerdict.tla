---------------------------- MODULE SchemaVerdict ----------------------------
(***************************************************************************)
(* What the pre-flight's SchemaCheck promises, in one step per check.  A   *)
(* tool the process has judged before, or whose list it has written, is    *)
(* never passed unjudged again; what it is judged by is a schema it had    *)
(* while the process lived.  A tool nothing is held of is looked up, which *)
(* brings in tools of its connector, and is passed if it is not among      *)
(* them.                                                                   *)
(***************************************************************************)
EXTENDS FiniteSets

CONSTANTS Tools, Connectors, ConnectorOf, Fields, Handlers,
          FirstShown,   \* [Tools -> SUBSET SUBSET Fields], schemas to begin with
          Unjudged, Failed

VARIABLES
    shown,    \* schemas each tool has had while the process lived
    held,     \* tools whose schema the process holds
    call,     \* the tool and the argument names each handler is checking
    verdict   \* Unjudged, Failed, or the fields found missing

vars == <<shown, held, call, verdict>>

\* What the diff may find, by a schema of the tool or by none.
Findings(h) ==
    IF call[h].tool \in held' THEN {schema \ call[h].args : schema \in shown[call[h].tool]}
                             ELSE {{}}
Siblings(t) == {u \in Tools : ConnectorOf[u] = ConnectorOf[t] /\ shown[u] # {}}

Init ==
    /\ shown = FirstShown
    /\ held = {}
    /\ call \in [Handlers -> [tool : Tools, args : SUBSET Fields]]
    /\ verdict = [h \in Handlers |-> Failed]

Ask(h) ==
    /\ verdict[h] # Unjudged
    /\ \E t \in Tools, args \in SUBSET Fields :
            call' = [call EXCEPT ![h] = [tool |-> t, args |-> args]]
    /\ verdict' = [verdict EXCEPT ![h] = Unjudged]
    /\ UNCHANGED <<shown, held>>

Judge(h) ==
    /\ verdict[h] = Unjudged
    /\ \E found \in SUBSET Siblings(call[h].tool) : held' = held \union found
    /\ \E missing \in Findings(h) : verdict' = [verdict EXCEPT ![h] = missing]
    /\ UNCHANGED <<shown, call>>

Fail(h) ==
    /\ verdict[h] = Unjudged
    /\ verdict' = [verdict EXCEPT ![h] = Failed]
    /\ UNCHANGED <<shown, held, call>>

\* A connector publishes a schema, or withdraws one, which shows nothing new.
Publish(t) ==
    /\ \E schema \in SUBSET Fields : shown' = [shown EXCEPT ![t] = @ \union {schema}]
    /\ UNCHANGED <<held, call, verdict>>

\* A process that starts holds nothing, and is shown what is published then.
Restart ==
    /\ held' = {}
    /\ shown' \in [Tools -> SUBSET SUBSET Fields]
    /\ \A t \in Tools : shown'[t] \subseteq shown[t]
    /\ verdict' = [h \in Handlers |-> IF verdict[h] = Unjudged THEN Failed ELSE verdict[h]]
    /\ UNCHANGED call

Next ==
    \/ \E h \in Handlers : Ask(h) \/ Judge(h) \/ Fail(h)
    \/ \E t \in Tools : Publish(t)
    \/ Restart

Spec == Init /\ [][Next]_vars
=============================================================================
