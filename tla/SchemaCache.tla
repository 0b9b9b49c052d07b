----------------------------- MODULE SchemaCache -----------------------------
(***************************************************************************)
(* The agent's schema cache at work: ensure_schema_cached and the diff, in *)
(* the steps between which other handlers and the connectors can move.  A  *)
(* handler sees whether its tool is cached, fetches the gateway's list     *)
(* without holding any lock, writes the connector's tools in one go, and   *)
(* reads the cache again to compare.  Connectors change their schemas as   *)
(* they please.  A schema is the set of fields it requires.                *)
(* src/src/schema_validator.rs, src/src/agent/preflight.rs.                *)
(***************************************************************************)
EXTENDS Naturals, FiniteSets

CONSTANTS
    Tools, Connectors,
    ConnectorOf,     \* [Tools -> Connectors]
    Fields,          \* argument names
    FirstPublished,  \* what the connectors publish to begin with
    Handlers,        \* pre-flights in flight at once
    Faults,          \* which of FaultKinds can happen
    MaxChanges,      \* bound on how often a connector changes a schema
    None,            \* no schema
    Unjudged, Failed \* no verdict yet, and none to come

\* gateway_error  the list request fails
\* list_omits     the gateway's own list of the connector failed, and the
\*                answer leaves its tools out
\* client_gone    the caller disconnects, which drops the handler's future
\* restart        the process stops and starts
FaultKinds == {"gateway_error", "list_omits", "client_gone", "restart"}
Schemas == SUBSET Fields
Lists == [Tools -> {None} \union Schemas]

ASSUME SchemaAssumption ==
    /\ Tools # {} /\ ConnectorOf \in [Tools -> Connectors]
    /\ FirstPublished \in Lists
    /\ Faults \subseteq FaultKinds
    /\ MaxChanges \in Nat
    /\ \A s \in Schemas : s \notin {None, Unjudged, Failed}
    /\ Unjudged # Failed

VARIABLES
    published,  \* inputSchema.required by tool, None for a tool not listed
    changes,    \* how many schemas were changed so far
    cache,      \* SchemaValidator's map
    pc, call,   \* each handler's position, and its tool and argument names
    fetched,    \* the list it has fetched
    verdict,    \* missing_required_fields' answer
    held,       \* history: tools some handler has judged by a cached schema
    past,       \* history: schemas of a tool a list could have shown this process
    known       \* history: did the handler find its tool in the cache or a list

handlerVars == <<pc, call, fetched, verdict>>
history == <<held, past, known>>
vars == <<published, changes, cache, handlerVars, history>>

TypeOK ==
    /\ published \in Lists /\ cache \in Lists
    /\ changes \in 0..MaxChanges
    /\ pc \in [Handlers -> {"idle", "check", "list", "ingest", "diff"}]
    /\ call \in [Handlers -> [tool : Tools, args : SUBSET Fields]]
    /\ fetched \in [Handlers -> Lists]
    /\ \A h \in Handlers : \A t \in Tools :
            fetched[h][t] # None => ConnectorOf[t] = ConnectorOf[call[h].tool]
    /\ verdict \in [Handlers -> {Unjudged, Failed} \union Schemas]
    /\ held \subseteq Tools
    /\ past \in [Tools -> SUBSET Schemas]
    /\ known \in [Handlers -> BOOLEAN]
-----------------------------------------------------------------------------
Tool(h) == call[h].tool
Nothing == [t \in Tools |-> None]
Present(list) == {t \in Tools : list[t] # None}
Goto(h, label) == pc' = [pc EXCEPT ![h] = label]

Answer(h, v) ==
    /\ Goto(h, "idle")
    /\ verdict' = [verdict EXCEPT ![h] = v]
    /\ fetched' = [fetched EXCEPT ![h] = Nothing]

\* Schemas a process that is up can come to see.
Visible(list) == [t \in Tools |-> {list[t]} \ {None}]

Init ==
    /\ published = FirstPublished
    /\ changes = 0
    /\ cache = Nothing
    /\ pc = [h \in Handlers |-> "idle"]
    /\ call \in {[h \in Handlers |-> [tool |-> CHOOSE t \in Tools : TRUE, args |-> {}]]}
    /\ fetched = [h \in Handlers |-> Nothing]
    /\ verdict = [h \in Handlers |-> Failed]
    /\ held = {}
    /\ past = Visible(FirstPublished)
    /\ known = [h \in Handlers |-> FALSE]

\* The loop reaches SchemaCheck, for a new task or a resumed one.
Arrive(h) ==
    /\ pc[h] = "idle"
    /\ \E t \in Tools, args \in SUBSET Fields :
            call' = [call EXCEPT ![h] = [tool |-> t, args |-> args]]
    /\ Goto(h, "check")
    /\ verdict' = [verdict EXCEPT ![h] = Unjudged]
    /\ known' = [known EXCEPT ![h] = FALSE]
    /\ UNCHANGED <<published, changes, cache, fetched, held, past>>

\* has_schema
Check(h) ==
    /\ pc[h] = "check"
    /\ Goto(h, IF cache[Tool(h)] # None THEN "diff" ELSE "list")
    /\ known' = [known EXCEPT ![h] = cache[Tool(h)] # None]
    /\ UNCHANGED <<published, changes, cache, call, fetched, verdict, held, past>>

\* A slip: the prefix is not looked at, and every listed tool is taken.
FetchAll(h) ==
    /\ pc[h] = "list"
    /\ fetched' = [fetched EXCEPT ![h] = published]
    /\ known' = [known EXCEPT ![h] = published[Tool(h)] # None]
    /\ Goto(h, "ingest")
    /\ UNCHANGED <<published, changes, cache, call, verdict, held, past>>

\* A slip: a failed list makes the handler distrust what is cached.
FetchOrForget(h) ==
    LET own == {t \in Tools : ConnectorOf[t] = ConnectorOf[Tool(h)]} IN
    /\ pc[h] = "list"
    /\ \/ /\ fetched' = [fetched EXCEPT ![h] =
                [t \in Tools |-> IF t \in own THEN published[t] ELSE None]]
          /\ known' = [known EXCEPT ![h] = published[Tool(h)] # None]
          /\ Goto(h, "ingest")
          /\ UNCHANGED <<cache, verdict>>
       \/ /\ "gateway_error" \in Faults
          /\ cache' = [t \in Tools |-> IF t \in own THEN None ELSE cache[t]]
          /\ Answer(h, Failed)
          /\ UNCHANGED known
    /\ UNCHANGED <<published, changes, call, held, past>>

\* tools/list of the gateway, cut down to the connector's own tools.
Fetch(h) ==
    LET own == [t \in Tools |-> IF ConnectorOf[t] = ConnectorOf[Tool(h)]
                                  THEN published[t] ELSE None] IN
    /\ pc[h] = "list"
    /\ \/ \E list \in {own} \union (IF "list_omits" \in Faults THEN {Nothing} ELSE {}) :
            /\ fetched' = [fetched EXCEPT ![h] = list]
            /\ known' = [known EXCEPT ![h] = list[Tool(h)] # None]
            /\ Goto(h, "ingest")
            /\ UNCHANGED verdict
       \/ /\ "gateway_error" \in Faults
          /\ Answer(h, Failed)
          /\ UNCHANGED known
    /\ UNCHANGED <<published, changes, cache, call, held, past>>

\* A slip: the connector's entries are replaced by what was listed.
IngestReplacing(h) ==
    /\ pc[h] = "ingest"
    /\ cache' = [t \in Tools |->
            IF ConnectorOf[t] = ConnectorOf[Tool(h)] THEN fetched[h][t] ELSE cache[t]]
    /\ Goto(h, "diff")
    /\ UNCHANGED <<published, changes, call, fetched, verdict, history>>

\* ingest_tools_list, under the write lock: what was listed overwrites, what was
\* not stays.
Ingest(h) ==
    /\ pc[h] = "ingest"
    /\ cache' = [t \in Tools |-> IF fetched[h][t] # None THEN fetched[h][t] ELSE cache[t]]
    /\ Goto(h, "diff")
    /\ UNCHANGED <<published, changes, call, fetched, verdict, history>>

\* missing_required_fields: without a schema nothing is missing.
Diff(h) ==
    LET schema == cache[Tool(h)] IN
    /\ pc[h] = "diff"
    /\ Answer(h, IF schema = None THEN {} ELSE schema \ call[h].args)
    /\ held' = IF schema = None THEN held
               ELSE held \union {t \in Present(cache) : ConnectorOf[t] = ConnectorOf[Tool(h)]}
    /\ UNCHANGED <<published, changes, cache, call, past, known>>

Step(h) == Check(h) \/ Fetch(h) \/ Ingest(h) \/ Diff(h)

Dropped(h) ==
    /\ "client_gone" \in Faults
    /\ pc[h] # "idle"
    /\ Answer(h, Failed)
    /\ UNCHANGED <<published, changes, cache, call, history>>

\* A connector publishes another schema for a tool, a new tool, or drops one.
Publish(t) ==
    /\ changes < MaxChanges
    /\ changes' = changes + 1
    /\ \E s \in ({None} \union Schemas) \ {published[t]} :
            published' = [published EXCEPT ![t] = s]
    /\ past' = [past EXCEPT ![t] = @ \union Visible(published')[t]]
    /\ UNCHANGED <<cache, handlerVars, held, known>>

\* The cache is the process's own.
Restart ==
    /\ "restart" \in Faults
    /\ cache' = Nothing
    /\ pc' = [h \in Handlers |-> "idle"]
    /\ fetched' = [h \in Handlers |-> Nothing]
    /\ verdict' = [h \in Handlers |-> IF verdict[h] = Unjudged THEN Failed ELSE verdict[h]]
    /\ held' = {}
    /\ past' = Visible(published)
    /\ UNCHANGED <<published, changes, call, known>>

Next ==
    \/ \E h \in Handlers : Arrive(h) \/ Step(h) \/ Dropped(h)
    \/ \E t \in Tools : Publish(t)
    \/ Restart

Spec == Init /\ [][Next]_vars
-----------------------------------------------------------------------------
(* A call is judged by a schema its connector has really published while    *)
(* this process lived, and never passed unjudged once the handler has seen  *)
(* the schema, in the cache or in its own list: whatever other handlers     *)
(* fetched and wrote in between, between the two reads of the cache.        *)
VerdictIsReal ==
    \A h \in Handlers :
        pc[h] = "diff" /\ known[h] =>
            /\ cache[Tool(h)] # None
            /\ cache[Tool(h)] \in past[Tool(h)]

(* "Learned once ... then cached" (schema_validator.rs): what the process   *)
(* knows it keeps for as long as it lives; a list that fails or leaves      *)
(* tools out takes nothing away.                                            *)
NothingForgotten ==
    [][~Restart => Present(cache) \subseteq Present(cache')]_vars

(* With its awaits, and with lists that overtake each other, check, fetch,  *)
(* write and diff are as good as SchemaVerdict's single step.               *)
Verdict == INSTANCE SchemaVerdict WITH FirstShown <- Visible(FirstPublished), shown <- past
VerdictSpec == Verdict!Spec
=============================================================================
