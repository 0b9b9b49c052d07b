------------------------------ MODULE HitlAgent ------------------------------
(***************************************************************************)
(* The agent's HTTP handlers at work on one SQLite database: task intake   *)
(* (POST /agent/act), the pre-flight loop (Decide, CredentialCheck,        *)
(* SchemaCheck, Dispatch), the checkpoints it pauses on, and the human     *)
(* responses that resume them (POST /hitl/:id/respond).  The gateway and   *)
(* the connectors are the answers those handlers get; credentials and the  *)
(* policy file change underneath them.                                     *)
(*                                                                         *)
(* One action is one stretch of a handler between two awaits whose order   *)
(* matters; handlers (Workers) interleave freely.  A call's arguments are  *)
(* the set of fields they carry.  src/src/agent/{preflight,checkpoint,     *)
(* routes,hitl/routes}.rs, src/src/gateway/{protocol,routes}.rs.           *)
(***************************************************************************)
EXTENDS PauseModel, Naturals, FiniteSets

CONSTANTS
    Calls,            \* call ids (fresh UUIDs, minted one per task)
    Workers,          \* request handlers that can be in flight at once
    Tools,            \* (connector, tool_name) pairs a task can name
    Connectors,       \* connector names a task can name
    ConnectorOf,      \* [Tools -> Connectors]
    Known,            \* connectors the gateway has registered
    Published,        \* tools their connector lists and can run
    TokenConnectors,  \* connectors whose credential is a submitted token
    Fields,           \* argument names
    Required,         \* [Tools -> SUBSET Fields], inputSchema.required
    Policies,         \* policy files the process may be started with
    Faults,           \* which of FaultKinds can happen
    NoTool, NoJob

Stances == {"allow", "ask", "block"}

\* gateway_error     a request from the agent to the gateway fails, before or
\*                   after the gateway acted on it
\* connector_error   the same between the gateway and a connector
\* errorless_answer  a connector answers that something went wrong (an HTTP
\*                   error status, a body of its own) in JSON without `error`
\* list_omits        tools/list leaves a connector out (its own list failed)
\* db_error          a statement on the agent's database fails
\* malformed_fields  an "input" response whose fields are not an object
\* client_gone       a client disconnects, which drops its handler's future
\* restart           the process stops and starts, perhaps on another policy
FaultKinds == {"gateway_error", "connector_error", "errorless_answer", "list_omits",
               "db_error", "malformed_fields", "client_gone", "restart"}

ASSUME TopologyAssumption ==
    /\ ConnectorOf \in [Tools -> Connectors]
    /\ Known \subseteq Connectors
    /\ TokenConnectors \subseteq Connectors
    /\ Published \subseteq {t \in Tools : ConnectorOf[t] \in Known}
    /\ Required \in [Tools -> SUBSET Fields]
    /\ NoTool \notin Tools
ASSUME PolicyAssumption == Policies \subseteq [Tools -> Stances] /\ Policies # {}
ASSUME FaultAssumption == Faults \subseteq FaultKinds

VARIABLES
    policy,     \* PermissionPolicy, read once at start-up
    connected,  \* connectors with a live credential or connected account
    schema,     \* SchemaValidator's cache: tools whose schema it holds
    tool,       \* the tool each call is about, NoTool until the task arrives
    ckpt,       \* the call's row of the checkpoints table
    executed,   \* how often the connector ran the call's tool
    audit,      \* the actions of the audit_log rows its own handlers wrote, and
                \* the gateway for them (others may write under the same id)
    pc, job,    \* each handler's position and local variables
    evidence    \* history variable: what was decided and verified for a call

worldVars == <<policy, connected, schema>>
callVars == <<tool, ckpt, executed, audit, evidence>>
handlerVars == <<pc, job>>
vars == <<worldVars, callVars, handlerVars>>

\* audit_log actions: logged before resuming, and logged last.
HumanRows == {"approved", "authenticated", "input_provided"}
FinalRows == {"paused", "blocked", "success", "failed", "denied",
              "re_paused", "resumed_success", "resumed_failed"}
Rows == HumanRows \union FinalRows \union {"call_received"}

\* A handler is idle, at a step of the loop, holding the Paused outcome of the
\* loop (Reasons), about to claim, apply or finalize, or about to log a row.
PCs == {"idle", "claim", "apply", "finalize_resolved", "finalize_failed"}
         \union Steps \union Reasons \union HumanRows \union FinalRows

\* What a handler carries: an intake ("act") its own arguments, a response the
\* snapshot `cp` it took of the row before claiming it.
Jobs == [call : Calls, action : HumanActions \union {"act"},
         resume_from : Steps, args : SUBSET Fields]
Checkpoints == [status : Statuses, reason : Reasons,
                resume_from : Steps, args : SUBSET Fields]
Facts == {"allowed", "asked", "approved", "denied", "credential", "schema"}

TypeOK ==
    /\ policy \in Policies
    /\ connected \subseteq Connectors
    /\ schema \subseteq Tools
    /\ tool \in [Calls -> Tools \union {NoTool}]
    /\ ckpt \in [Calls -> Checkpoints]
    /\ executed \in [Calls -> Nat]
    /\ audit \in [Calls -> SUBSET Rows]
    /\ evidence \in [Calls -> SUBSET Facts]
    /\ pc \in [Workers -> PCs]
    /\ job \in [Workers -> Jobs \union {NoJob}]
    /\ \A w \in Workers : pc[w] # "idle" => job[w] \in Jobs
-----------------------------------------------------------------------------
Call(w) == job[w].call
Tool(w) == tool[Call(w)]
Row(w) == ckpt[Call(w)]

Goto(w, label) == pc' = [pc EXCEPT ![w] = label] /\ UNCHANGED job
Return(w) == pc' = [pc EXCEPT ![w] = "idle"] /\ job' = [job EXCEPT ![w] = NoJob]

\* A handler that gives up with an error response changes nothing else.
Fail(w, fault) ==
    /\ fault \in Faults
    /\ Return(w)
    /\ UNCHANGED <<worldVars, callVars>>

\* AuditLog::record, whose error every caller drops: a row can be missing.
Record(c, rows) ==
    \E kept \in {rows} \union (IF "db_error" \in Faults THEN SUBSET rows ELSE {}) :
        audit' = [audit EXCEPT ![c] = @ \union kept]

Learn(w, facts) ==
    evidence' = [evidence EXCEPT ![Call(w)] = @ \union facts]

SetStatus(w, status) == ckpt' = [ckpt EXCEPT ![Call(w)].status = status]

\* The effect of claim_pending's UPDATE on a row that is still pending.  From
\* here a denial is on record (human_response) whatever happens next.
TakeRow(w) ==
    /\ SetStatus(w, "processing")
    /\ IF job[w].action = "deny" THEN Learn(w, {"denied"}) ELSE UNCHANGED evidence
    /\ UNCHANGED <<worldVars, tool, executed, audit>>
-----------------------------------------------------------------------------
(* Slips a change to the handlers could make.  No action uses them: each    *)
(* stands for the action it resembles, to show that a property notices.     *)

\* claim_pending without `AND status = 'pending'`.
ClaimAnyRow(w) ==
    /\ pc[w] = "claim"
    /\ TakeRow(w)
    /\ Goto(w, "apply")

\* Deny, with finalize's error dropped like the audit log's.
DenyUnchecked(w) ==
    /\ pc[w] = "apply" /\ job[w].action = "deny"
    /\ \/ "db_error" \in Faults /\ UNCHANGED ckpt
       \/ SetStatus(w, "denied")
    /\ Goto(w, "denied")
    /\ UNCHANGED <<worldVars, tool, executed, audit, evidence>>

\* re_pause with its columns bound in the wrong order.
RePauseSwapped(w) ==
    /\ pc[w] \in Reasons /\ job[w].action # "act"
    /\ ckpt' = [ckpt EXCEPT ![Call(w)] =
            [@ EXCEPT !.status = "pending", !.reason = ResumeFrom(pc[w]),
                      !.resume_from = pc[w]]]
    /\ Goto(w, "re_paused")
    /\ UNCHANGED <<worldVars, tool, executed, audit, evidence>>

\* re_pause that leaves the row processing.
RePauseUnreset(w) ==
    /\ pc[w] \in Reasons /\ job[w].action # "act"
    /\ ckpt' = [ckpt EXCEPT ![Call(w)] =
            [@ EXCEPT !.reason = pc[w], !.resume_from = ResumeFrom(pc[w])]]
    /\ Goto(w, "re_paused")
    /\ UNCHANGED <<worldVars, tool, executed, audit, evidence>>

\* An input response that merges for its own resume only.
InputUnsaved(w) ==
    /\ pc[w] = "apply" /\ job[w].action = "input"
    /\ \E fields \in SUBSET Fields :
            job' = [job EXCEPT ![w].args = @ \union fields]
    /\ pc' = [pc EXCEPT ![w] = "input_provided"]
    /\ UNCHANGED <<worldVars, callVars>>

\* A verdict that is answered and not logged.
ReturnUnlogged(w) ==
    /\ pc[w] \in FinalRows
    /\ Return(w)
    /\ UNCHANGED <<worldVars, callVars>>
-----------------------------------------------------------------------------
\* No checkpoint row yet; everything but the status is a placeholder.
NoRow == [status |-> "absent", reason |-> "approval_required",
          resume_from |-> "decide", args |-> {}]

Init ==
    /\ policy \in Policies
    /\ connected \in SUBSET Connectors
    /\ schema = {}
    /\ tool = [c \in Calls |-> NoTool]
    /\ ckpt = [c \in Calls |-> NoRow]
    /\ executed = [c \in Calls |-> 0]
    /\ audit = [c \in Calls |-> {}]
    /\ evidence = [c \in Calls |-> {}]
    /\ pc = [w \in Workers |-> "idle"]
    /\ job = [w \in Workers |-> NoJob]

\* POST /agent/act up to the loop: mint a call id, log call_received, act().
ActReceive(w) ==
    /\ pc[w] = "idle"
    /\ \E c \in Calls, t \in Tools, args \in SUBSET Fields :
        /\ tool[c] = NoTool
        /\ tool' = [tool EXCEPT ![c] = t]
        /\ job' = [job EXCEPT ![w] = [call |-> c, action |-> "act",
                                      resume_from |-> "decide", args |-> args]]
        /\ Record(c, {"call_received"})
    /\ pc' = [pc EXCEPT ![w] = "decide"]
    /\ UNCHANGED <<worldVars, ckpt, executed, evidence>>

\* Step::Decide, GET /policy: Rejected, Paused or on to the next step.
Decide(w) ==
    /\ pc[w] = "decide"
    /\ \/ Fail(w, "gateway_error")
       \/ /\ policy[Tool(w)] = "block"
          /\ Goto(w, "blocked")
          /\ UNCHANGED <<worldVars, callVars>>
       \/ /\ policy[Tool(w)] = "ask"
          /\ Learn(w, {"asked"})
          /\ Goto(w, "approval_required")
          /\ UNCHANGED <<worldVars, tool, ckpt, executed, audit>>
       \/ /\ policy[Tool(w)] = "allow"
          /\ Learn(w, {"allowed"})
          /\ Goto(w, "credential_check")
          /\ UNCHANGED <<worldVars, tool, ckpt, executed, audit>>

\* GET /connectors/:connector/status, the gateway's get_connector_status: a
\* name nobody registered is a 404, however the credential store would answer.
ConnectorStatus(x) ==
    IF x \notin Known THEN "not_found"
    ELSE IF x \in connected THEN "connected" ELSE "not_connected"

\* Step::CredentialCheck: the `?` in execute turns the 404 into an error
\* response, like any failure of the check itself.
CredentialCheck(w) ==
    LET status == ConnectorStatus(ConnectorOf[Tool(w)]) IN
    /\ pc[w] = "credential_check"
    /\ \/ Fail(w, "gateway_error")
       \/ /\ status = "not_found"
          /\ Return(w)
          /\ UNCHANGED <<worldVars, callVars>>
       \/ /\ status = "not_connected"
          /\ Goto(w, "auth_required")
          /\ UNCHANGED <<worldVars, callVars>>
       \/ /\ status = "connected"
          /\ Learn(w, {"credential"})
          /\ Goto(w, "schema_check")
          /\ UNCHANGED <<worldVars, tool, ckpt, executed, audit>>

\* The tools of t's connector in the gateway's aggregated tools/list.
Listed(t) == {u \in Published : ConnectorOf[u] = ConnectorOf[t]}

\* SchemaValidator::missing_required_fields: nothing cached, nothing missing.
Missing(t, cached, args) == IF t \in cached THEN Required[t] \ args ELSE {}

\* Step::SchemaCheck: ensure_schema_cached, then the diff.  The cache only
\* grows while the process lives, so the two reads of it are one step.
SchemaCheck(w) ==
    LET t == Tool(w) IN
    /\ pc[w] = "schema_check"
    /\ \/ t \notin schema /\ Fail(w, "gateway_error")
       \/ /\ \/ t \in schema /\ UNCHANGED schema
             \/ t \notin schema /\ schema' = schema \union Listed(t)
             \/ /\ t \notin schema
                /\ "list_omits" \in Faults
                /\ UNCHANGED schema
          /\ IF Missing(t, schema', job[w].args) = {}
               THEN Goto(w, "dispatch") /\ Learn(w, {"schema"})
               ELSE Goto(w, "input_required") /\ UNCHANGED evidence
          /\ UNCHANGED <<policy, connected, tool, ckpt, executed, audit>>

\* Where execute()'s Done outcome leads the handler that ran the loop.
Conclude(w, act, resume) ==
    Goto(w, IF job[w].action = "act" THEN act ELSE resume)
Succeeds(w) == Conclude(w, "success", "finalize_resolved")
Fails(w) == Conclude(w, "failed", "finalize_failed")

\* The connector runs the tool, with the arguments the handler carries.
Runs(w) == executed' = [executed EXCEPT ![Call(w)] = @ + 1]

\* The gateway's handle_tools_call, for a call that carries the pre-flight
\* header, and the agent's view of the answer.  `block` is enforced again here;
\* an `ask` is not.
ToolsCall(w) ==
    LET c == Call(w) IN
    \/ /\ policy[tool[c]] = "block"
       /\ Fails(w)
       /\ Record(c, {"call_received", "blocked"})
       /\ UNCHANGED executed
    \/ /\ policy[tool[c]] # "block"              \* refused or unreachable
       /\ tool[c] \notin Published \/ "connector_error" \in Faults
       /\ Fails(w)
       /\ Record(c, {"call_received", "failed"})
       /\ UNCHANGED executed
    \/ /\ policy[tool[c]] # "block"              \* ran, its reply was lost
       /\ tool[c] \in Published /\ "connector_error" \in Faults
       /\ Runs(w)
       /\ Fails(w)
       /\ Record(c, {"call_received", "failed"})
    \/ /\ policy[tool[c]] # "block"              \* ran
       /\ tool[c] \in Published
       /\ Runs(w)
       /\ \/ Succeeds(w)
          \/ "gateway_error" \in Faults /\ Fails(w)
       /\ Record(c, {"call_received", "success"})
    \/ /\ policy[tool[c]] # "block"              \* did not run, and no `error`:
       /\ ConnectorOf[tool[c]] \in Known          \* taken for a success
       /\ "errorless_answer" \in Faults
       /\ \/ Succeeds(w)
          \/ "gateway_error" \in Faults /\ Fails(w)
       /\ Record(c, {"call_received", "success"})
       /\ UNCHANGED executed

\* Step::Dispatch, POST /mcp tools/call: whatever goes wrong is a Failed call.
Dispatch(w) ==
    /\ pc[w] = "dispatch"
    /\ \/ ToolsCall(w)
       \/ /\ "gateway_error" \in Faults           \* the gateway never got it
          /\ Fails(w)
          /\ UNCHANGED <<executed, audit>>
    /\ UNCHANGED <<worldVars, tool, ckpt, evidence>>

\* render_outcome, Paused: CheckpointStore::create.
CreateCheckpoint(w) ==
    /\ pc[w] \in Reasons /\ job[w].action = "act"
    /\ \/ Fail(w, "db_error")
       \/ /\ ckpt' = [ckpt EXCEPT ![Call(w)] =
                [status |-> "pending", reason |-> pc[w],
                 resume_from |-> ResumeFrom(pc[w]), args |-> job[w].args]]
          /\ Goto(w, "paused")
          /\ UNCHANGED <<worldVars, tool, executed, audit, evidence>>

\* finish_resume, Paused: CheckpointStore::re_pause.
RePause(w) ==
    /\ pc[w] \in Reasons /\ job[w].action # "act"
    /\ \/ Fail(w, "db_error")
       \/ /\ ckpt' = [ckpt EXCEPT ![Call(w)] =
                [@ EXCEPT !.status = "pending", !.reason = pc[w],
                          !.resume_from = ResumeFrom(pc[w])]]
          /\ Goto(w, "re_paused")
          /\ UNCHANGED <<worldVars, tool, executed, audit, evidence>>

\* respond(), up to the claim: read the row, refuse unless it is pending and
\* the action answers its reason.  What was read stays with the handler.
RespondGet(w) ==
    /\ pc[w] = "idle"
    /\ \E c \in Calls, action \in HumanActions :
        /\ ckpt[c].status = "pending"
        /\ ActionMatchesReason(action, ckpt[c].reason)
        /\ job' = [job EXCEPT ![w] = [call |-> c, action |-> action,
                                      resume_from |-> ckpt[c].resume_from,
                                      args |-> ckpt[c].args]]
    /\ pc' = [pc EXCEPT ![w] = "claim"]
    /\ UNCHANGED <<worldVars, callVars>>

\* CheckpointStore::claim_pending and respond's use of its answer.
Claim(w) ==
    /\ pc[w] = "claim"
    /\ \/ Fail(w, "db_error")                    \* the UPDATE failed
       \/ /\ Row(w).status # "pending"           \* 409, already responded to
          /\ Return(w)
          /\ UNCHANGED <<worldVars, callVars>>
       \/ /\ Row(w).status = "pending"           \* 200 to come
          /\ TakeRow(w)
          /\ Goto(w, "apply")
       \/ /\ Row(w).status = "pending"           \* the SELECT after it failed
          /\ "db_error" \in Faults
          /\ TakeRow(w)
          /\ Return(w)

Deny(w) ==
    /\ pc[w] = "apply" /\ job[w].action = "deny"
    /\ \/ Fail(w, "db_error")
       \/ /\ SetStatus(w, "denied")
          /\ Goto(w, "denied")
          /\ UNCHANGED <<worldVars, tool, executed, audit, evidence>>

Approve(w) ==
    /\ pc[w] = "apply" /\ job[w].action = "approve"
    /\ Learn(w, {"approved"})
    /\ Goto(w, "approved")
    /\ UNCHANGED <<worldVars, tool, ckpt, executed, audit>>

\* POST /connectors/:connector/credentials: a connector that authenticates by
\* OAuth refuses a token.
StoreCredential(x) == x \in TokenConnectors /\ connected' = connected \union {x}

\* A supplied token is forwarded on a best-effort basis; without one, or when
\* it is refused, nothing changes.
Authenticate(w) ==
    /\ pc[w] = "apply" /\ job[w].action = "authenticate"
    /\ UNCHANGED connected \/ StoreCredential(ConnectorOf[Tool(w)])
    /\ Goto(w, "authenticated")
    /\ UNCHANGED <<policy, schema, callVars>>

\* The supplied fields are merged into the arguments read before the claim,
\* and the result replaces the row's (CheckpointStore::update_arguments).
ProvideInput(w) ==
    /\ pc[w] = "apply" /\ job[w].action = "input"
    /\ \/ Fail(w, "malformed_fields")
       \/ Fail(w, "db_error")
       \/ \E fields \in SUBSET Fields :
            LET merged == job[w].args \union fields IN
            /\ ckpt' = [ckpt EXCEPT ![Call(w)].args = merged]
            /\ job' = [job EXCEPT ![w].args = merged]
            /\ pc' = [pc EXCEPT ![w] = "input_provided"]
            /\ UNCHANGED <<worldVars, tool, executed, audit, evidence>>

\* Log the human's action, then finish_resume: back into the loop.
LogAndResume(w) ==
    /\ pc[w] \in HumanRows
    /\ Record(Call(w), {pc[w]})
    /\ Goto(w, job[w].resume_from)
    /\ UNCHANGED <<worldVars, tool, ckpt, executed, evidence>>

\* finish_resume, Done: CheckpointStore::finalize.
Finalize(w) ==
    /\ pc[w] \in {"finalize_resolved", "finalize_failed"}
    /\ \/ Fail(w, "db_error")
       \/ /\ IF pc[w] = "finalize_resolved"
               THEN SetStatus(w, "resolved") /\ Goto(w, "resumed_success")
               ELSE SetStatus(w, "failed") /\ Goto(w, "resumed_failed")
          /\ UNCHANGED <<worldVars, tool, executed, audit, evidence>>

\* The last audit row of a handler, and its response.
LogAndReturn(w) ==
    /\ pc[w] \in FinalRows
    /\ Record(Call(w), {pc[w]})
    /\ Return(w)
    /\ UNCHANGED <<worldVars, tool, ckpt, executed, evidence>>

\* One step of the handler w, once it has a request.
HandlerStep(w) ==
    \/ Decide(w) \/ CredentialCheck(w) \/ SchemaCheck(w) \/ Dispatch(w)
    \/ CreateCheckpoint(w) \/ RePause(w)
    \/ Claim(w) \/ Deny(w) \/ Approve(w) \/ Authenticate(w) \/ ProvideInput(w)
    \/ LogAndResume(w) \/ Finalize(w) \/ LogAndReturn(w)

\* axum drops a handler's future at an await when its client disconnects.
ClientGone(w) == pc[w] # "idle" /\ Fail(w, "client_gone")

\* A credential arrives outside a response (POST .../credentials, OAuth), or
\* goes (DELETE .../credentials, expiry, a revoked account).
Connect(x) ==
    /\ x \notin connected
    /\ connected' = connected \union {x}
    /\ UNCHANGED <<policy, schema, callVars, handlerVars>>
Disconnect(x) ==
    /\ x \in connected
    /\ connected' = connected \ {x}
    /\ UNCHANGED <<policy, schema, callVars, handlerVars>>

\* The database survives; handlers and caches do not; policy.toml is re-read.
Restart ==
    /\ "restart" \in Faults
    /\ policy' \in Policies
    /\ schema' = {}
    /\ pc' = [w \in Workers |-> "idle"]
    /\ job' = [w \in Workers |-> NoJob]
    /\ UNCHANGED <<connected, callVars>>

Next ==
    \/ \E w \in Workers :
        ActReceive(w) \/ RespondGet(w) \/ HandlerStep(w) \/ ClientGone(w)
    \/ \E x \in Connectors : Connect(x) \/ Disconnect(x)
    \/ Restart

\* Every await of a handler returns: the runtime keeps polling its future.
Fairness == \A w \in Workers : WF_vars(HandlerStep(w))

Spec == Init /\ [][Next]_vars
FairSpec == Spec /\ Fairness
-----------------------------------------------------------------------------
\* A handler that is acting on its call: past the claim, before its last row.
Working(w) == pc[w] \notin {"idle", "claim"} \union FinalRows
Intake(w) == Working(w) /\ job[w].action = "act"
Responding(w) == Working(w) /\ job[w].action # "act"

\* The policy allowed the call, or it asked and a human approved.
Cleared(c) == "allowed" \in evidence[c] \/ {"asked", "approved"} \subseteq evidence[c]

\* A second resume of the same checkpoint never starts while one is under way,
\* whatever the two responders read before they claimed (claim_pending).
OneOwner ==
    \A v, w \in Workers :
        Working(v) /\ Working(w) /\ Call(v) = Call(w) => v = w

\* One task runs its tool at most once, over duplicate responses, re-pauses,
\* failed statements, disconnects and restarts.
AtMostOnce == \A c \in Calls : executed[c] <= 1

\* From the moment a denial wins the claim, the tool must not execute, even if
\* the row never reaches `denied` (HumanAction::Deny).
DenialIsBinding ==
    \A c \in Calls : "denied" \in evidence[c] => executed[c] = 0

\* No path into the connector, direct or through any chain of pauses, goes
\* round the decision, the credential check or the schema check.
NoCheckSkipped ==
    \A c \in Calls : executed[c] > 0 =>
        Cleared(c) /\ {"credential", "schema"} \subseteq evidence[c]

\* What a pending row asks of its human is still open: an approval nobody
\* gave, or an argument the stored call still lacks.  Responders working from
\* an old snapshot of the row must not leave it asking for what it has.
QuestionIsOpen ==
    \A c \in Calls : ckpt[c].status = "pending" =>
        /\ ckpt[c].reason = "approval_required" => "approved" \notin evidence[c]
        /\ ckpt[c].reason = "input_required" =>
                ~ (Required[tool[c]] \subseteq ckpt[c].args)

\* A resumed call is dispatched with the arguments its checkpoint row shows,
\* although the handler works on the copy it read before the claim.
DispatchesStoredArguments ==
    \A w \in Workers : pc[w] = "dispatch" /\ Responding(w) =>
        job[w].args = Row(w).args

\* The audit trail never claims what the row or the human's decision
\* contradicts: a verdict it shows (actions only the agent writes) is final.
AuditAgrees ==
    \A c \in Calls :
        /\ "denied" \in audit[c] => ckpt[c].status = "denied"
        /\ "resumed_failed" \in audit[c] => ckpt[c].status = "failed"
        /\ "resumed_success" \in audit[c] => ckpt[c].status = "resolved"
        /\ "approved" \in audit[c] => "approved" \in evidence[c]

\* A finished checkpoint is never touched again: a late responder's merge,
\* re-pause or finalize does not reach it.
OutcomesAreFinal ==
    [][\A c \in Calls : ckpt[c].status \in Terminal => ckpt'[c] = ckpt[c]]_vars

\* A published tool is dispatched only with every argument its schema asks
\* for: the diff is repeated on the merged arguments after each resume.
DispatchesComplete ==
    \A w \in Workers : pc[w] = "dispatch" /\ Tool(w) \in Published =>
        Required[Tool(w)] \subseteq job[w].args

\* A claimed checkpoint is finalized or re-paused.
ProcessingEnds ==
    \A c \in Calls :
        ckpt[c].status = "processing" ~> ckpt[c].status # "processing"

\* A task that arrived ends in a checkpoint or a verdict the audit trail shows.
TasksAreAnswered ==
    \A c \in Calls :
        tool[c] # NoTool ~> \/ ckpt[c].status # "absent"
                            \/ audit[c] \intersect {"blocked", "success", "failed"} # {}
-----------------------------------------------------------------------------
(* The inductive invariant behind the safety properties: TLC checks it on   *)
(* instances, HitlAgent_proofs proves it for every value of the constants.  *)

\* Facts every handler at one of these positions has established.
ClearedPCs == HumanRows \union {"credential_check", "auth_required"}
VerifiedPCs == {"schema_check", "input_required", "dispatch"}
IntakeOnly == {"decide", "approval_required"}
ResponseOnly == {"claim", "apply", "finalize_resolved", "finalize_failed"} \union HumanRows

\* A call that no task has reached yet has left no trace.
FreshCalls ==
    \A c \in Calls : tool[c] = NoTool =>
        /\ ckpt[c].status = "absent" /\ executed[c] = 0
        /\ evidence[c] = {} /\ audit[c] = {}

\* An intake works on a call without a row, a response on a row it claimed;
\* before a response the row was created.
RowsMatchHandlers ==
    \A w \in Workers : pc[w] # "idle" =>
        /\ tool[Call(w)] # NoTool
        /\ Intake(w) => Row(w).status = "absent"
        /\ Responding(w) => Row(w).status = "processing"
        /\ pc[w] = "claim" => Row(w).status # "absent"

\* Where a handler can be depends on its request; a denial is never resumed.
PositionsMatchRequests ==
    \A w \in Workers :
        /\ pc[w] \in IntakeOnly => job[w].action = "act"
        /\ pc[w] \in ResponseOnly => job[w].action # "act"
        /\ Working(w) /\ job[w].action = "deny" => pc[w] = "apply"

\* The tool has run only for a finished row, or under a handler about to say so.
RunsAreOver ==
    /\ \A c \in Calls : executed[c] > 0 =>
            ckpt[c].status \in {"absent", "processing", "resolved", "failed"}
    /\ \A w \in Workers :
            Working(w) /\ pc[w] \notin {"finalize_resolved", "finalize_failed"}
                => executed[Call(w)] = 0

\* After a denial only its own handler may still touch the call.
DenialsHold ==
    \A c \in Calls : "denied" \in evidence[c] =>
        /\ executed[c] = 0
        /\ ckpt[c].status \in {"processing", "denied"}
        /\ \A w \in Workers : Working(w) /\ Call(w) = c => job[w].action = "deny"

\* What a reason to pause says was established before it; the rows and the
\* snapshots that responders took of them, however old, obey it.
Established(c, reason) ==
    /\ reason = "approval_required" => "asked" \in evidence[c]
    /\ reason = "auth_required" => Cleared(c)
    /\ reason = "input_required" => Cleared(c) /\ "credential" \in evidence[c]

RowsAreEarned ==
    \A c \in Calls : ckpt[c].status # "absent" =>
        /\ Established(c, ckpt[c].reason)
        /\ ckpt[c].resume_from = ResumeFrom(ckpt[c].reason)

SnapshotsAreEarned ==
    \A w \in Workers : pc[w] \in {"claim", "apply"} \union HumanRows =>
        \A reason \in Reasons : job[w].action = ExpectedAction[reason] =>
            /\ Established(Call(w), reason)
            /\ job[w].resume_from = ResumeFrom(reason)

PositionsAreEarned ==
    \A w \in Workers :
        /\ pc[w] = "decide" => evidence[Call(w)] = {}
        /\ pc[w] \in ClearedPCs \union VerifiedPCs => Cleared(Call(w))
        /\ pc[w] \in VerifiedPCs => "credential" \in evidence[Call(w)]
        /\ pc[w] = "dispatch" => "schema" \in evidence[Call(w)]
        /\ pc[w] = "approval_required" => "asked" \in evidence[Call(w)]
        /\ pc[w] = "approved" => "approved" \in evidence[Call(w)]

IInv ==
    /\ TypeOK /\ FreshCalls
    /\ RowsMatchHandlers /\ PositionsMatchRequests /\ OneOwner
    /\ AtMostOnce /\ RunsAreOver /\ DenialsHold
    /\ RowsAreEarned /\ SnapshotsAreEarned /\ PositionsAreEarned
    /\ NoCheckSkipped
-----------------------------------------------------------------------------
\* The abstract gate of a call, as the history of its decisions shows it.
GateOf(c) ==
    IF "denied" \in evidence[c] THEN "refused"
    ELSE IF Cleared(c) THEN "open"
    ELSE IF "asked" \in evidence[c] THEN "asking" ELSE "closed"

Gate == INSTANCE ApprovalGate WITH
            gate <- [c \in Calls |-> GateOf(c)],
            ran <- {c \in Calls : executed[c] > 0}

\* Whatever the handlers, the failures and the restarts do, the calls go
\* through the gate of ApprovalGate.
GateSpec == Gate!Spec
-----------------------------------------------------------------------------
(* What the sources' documentation claims and the handlers do not keep.     *)

\* "Callers must follow up with either finalize or re_pause - Processing is
\* never a resting state" (checkpoint.rs): some handler is at work on the row.
ProcessingIsTransient ==
    \A c \in Calls : ckpt[c].status = "processing" =>
        \E w \in Workers : Responding(w) /\ Call(w) = c

\* "... so the merged arguments survive even if the resumed attempt pauses
\* again" (checkpoint.rs): a field a human supplied stays in the row.
InputsSurvive ==
    [][\A c \in Calls : ckpt[c].args \subseteq ckpt'[c].args]_vars

\* "The other three are each valid only against the matching PauseReason"
\* (checkpoint.rs): a claim that wins answers the row's reason.
ClaimsMatchTheReason ==
    [][\A w \in Workers : pc[w] = "claim" /\ pc'[w] = "apply" =>
            ActionMatchesReason(job[w].action, Row(w).reason)]_vars

\* "... an incomplete resume re-pauses on the fields still missing instead of
\* dispatching with a call the tool's own schema says is invalid"
\* (checkpoint.rs).
IncompleteInputRepauses ==
    \A w \in Workers : pc[w] = "dispatch" /\ job[w].action = "input" =>
        Required[Tool(w)] \subseteq job[w].args

\* "Checkpoint finalizes `failed` with the real error - an approval is never
\* mistaken for a successful execution" (README.md, on a tool that fails
\* downstream after a resume): a row that says `resolved` stands for a run.
NoFalseSuccess ==
    \A c \in Calls : ckpt[c].status = "resolved" => executed[c] = 1
=============================================================================
