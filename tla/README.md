# A TLA+ model of the MCP Gateway with an agent-side human in the loop

The program (`src/src`) is one Rust process with two HTTP servers. The
**agent** takes tasks ("call this tool of that connector with these
arguments"), checks them, pauses them when a human is needed, and resumes them
on the human's answer. The **gateway** is the agent's only way to the
connectors: it answers the facts the checks ask for (policy, connection
status, tool schemas) and forwards the calls. All that outlives a request is
one SQLite database and one policy file.

Files are named by their path below `src/src/` (`agent/preflight.rs`), or by their
last part where that is clear.

## Inventory

| Component | State it keeps | Operations | Talks to |
|---|---|---|---|
| Pause model (`agent/checkpoint.rs`) | none (types) | `resume_from`, `expected_action`, `pause_reason_for_outcome` | used by all of the agent |
| Task intake (`agent/routes.rs`) | the request's own `TaskContext` | `POST /agent/act`, `GET /agent/result/:call_id` | pre-flight loop, checkpoint store, audit log |
| Pre-flight loop (`agent/preflight.rs`) | the current `Step` | `act`, `resume`: Decide, CredentialCheck, SchemaCheck, Dispatch | gateway client, schema cache |
| Checkpoint store (`agent/checkpoint.rs`, `checkpoints` table) | a row per paused call: arguments, reason, resume_from, status, human_response, result | `create`, `claim_pending`, `update_arguments`, `finalize`, `re_pause`, reads | SQLite |
| HITL responses (`agent/hitl/routes.rs`) | the snapshot `cp` it read | `POST /hitl/:id/respond` (approve, deny, authenticate, input), `GET` routes | store, loop, gateway client, audit log |
| Schema cache (`schema_validator.rs`) | schemas by (connector, tool), in memory | `ingest_tools_list`, `has_schema`, `missing_required_fields` | filled from `tools/list` |
| Gateway client (`agent/gateway_client.rs`) | none | policy, status, store_credential, list_tools, call_tool | HTTP to the gateway |
| Gateway MCP endpoint (`gateway/protocol.rs`) | none | `initialize`, `tools/list`, `tools/call` | policy, audit log, connectors |
| Gateway REST API (`gateway/routes.rs`) | none | policy, connector status, store and delete a credential | policy, credential store, Composio |
| Credential store (`credentials.rs`, `credentials` table) | token and expiry by connector | `is_valid`, `store`, `delete` | SQLite |
| Permission policy (`policy.rs`) | rules, read at start-up | `decide` (block > ask > allow, wildcards) | policy.toml |
| Audit log (`audit.rs`, `audit_log` table) | rows by call | `record`, `list_for_call` | SQLite |
| Composio (`gateway/composio.rs`) | MCP server id | bootstrap, is_connected, auth_url, disconnect, list, call | Composio's API |
| Connector client and registry (`provider.rs`) | connector URLs | `list_tools`, `call_tool` | connectors |
| Mock connectors (`mock_connectors/`) | none | canned tools | - |
| Wiring (`main.rs`, `config.rs`, `db.rs`, `state.rs`) | - | start-up | all |

What is hard about it:

* **Interleaving.** Any number of handlers run at once, two humans may answer
  the same question, and `respond` reads the row, awaits, and only then claims
  it. The claimed row is discarded; everything after works on the snapshot.
* **Ordering.** A response acts after its claim, over several awaits: log,
  policy, credential, schema, tool, finalize, log. A row may be re-paused for a
  different reason and claimed again while an older responder still holds its
  snapshot.
* **Failure.** Each await may fail; a `?` leaves the handler where it is. A
  client that disconnects drops its handler's future; the process may stop
  between any two steps; a connector may run a tool and lose the reply.
* **Stale facts.** Credentials come and go, the schema cache is lost at a
  restart and never refreshed before one, connectors change their schemas, and
  the policy file may differ after a restart.
* **Somebody else's state.** Composio keeps accounts and MCP servers; the
  gateway looks, then acts, in separate requests, while people follow links,
  other requests run, and earlier processes' requests are still under way.
* **Names.** A tool is routed by a name that is put together in two places and
  taken apart at its first `__`; connector names come from the environment.
* **Indices.** The policy's glob matcher backtracks with two indices and one
  remembered star; a rule it misses is a block that does not block.
* **Progress.** A claimed row is `processing`, and nothing but the handler that
  claimed it can move it on.

What makes it correct, by component: a row is resumed by one handler at a
time; a task's tool runs once at most, only after every check and a clearance
(policy or human), never after a denial; a finished row
stays as it is; what a pending row asks is still open; the audit trail and the
row agree; a task ends somewhere a client can see; the policy answers with the
strictest rule that applies; a name leads to the tool it was made for; nothing
runs in the gateway off the record or past the policy in force, whoever calls; a status
answer was true at some time of the request; a logout that says so has logged
its user out, and nobody else; a machine adds one MCP server of a name at most;
a call is judged by a schema its connector has published.

## Plan

The modules, in the order they were written.

| Module | Content |
|---|---|
| `PauseModel` | vocabulary of the checkpoint module: steps, reasons, responses, statuses |
| `ApprovalGate` | abstract specification: what the agent promises about a call |
| `HitlAgent` | the agent's handlers on one database; composes intake, loop, store, responses, schema cache, and the gateway's answers; implements `ApprovalGate` |
| `MCHitlAgent` and `HitlAgent_*.cfg` | instances for TLC |
| `HitlAgent_proofs`, `HitlAgentRefinement_proofs`, `HitlAgentArguments_proofs` | theorems about `HitlAgent` |
| `PermissionPolicy` | `decide`'s pass over the rules and `wildcard_match`'s loop, against a definition of globbing |
| `MCPermissionPolicy` and `PermissionPolicy_*.cfg`, `PermissionPolicy_proofs` | instances and theorems |
| `ConnectorAccess`, `MCConnectorAccess` and `ConnectorAccess_*.cfg`, `ConnectorAccess_proofs` | who is logged in to what: the credential table, Composio's accounts, and the status, store and logout requests |
| `ComposioServer`, `MCComposioServer` and `ComposioServer_*.cfg`, `ComposioServer_proofs` | how a starting gateway comes by its MCP server |
| `ToolNames` | namespacing, routing and prefix stripping as operators on sequences |
| `Gateway`, `MCGateway` and `Gateway_*.cfg`, `Gateway_proofs` | `POST /mcp` for every caller, on `ToolNames`; instances, and theorems about both |
| `SchemaVerdict` | abstract specification: the one-step schema check that `HitlAgent` takes |
| `SchemaCache`, `MCSchemaCache` and `SchemaCache_*.cfg`, `SchemaCache_proofs` | the check as the code does it, with connectors that change their schemas; implements `SchemaVerdict` |

Every safety property, action property and refinement that a passing run checks
is also proved. What is left is the other half of the findings: that nothing but
a merge from a snapshot older than the row takes an argument away
(`lost_input`), and that nothing but a claim from one resumes a row for another
reason than it waits for (`stale_claim`).

## `HitlAgent` and the code

One action is one stretch of a handler between two awaits whose order matters.

| State | In the code |
|---|---|
| `policy` | `PermissionPolicy` as loaded at start-up, seen through `decide`: a stance per tool |
| `connected` | connectors for which `is_valid` (or Composio's account check) answers yes |
| `schema` | the keys of `SchemaValidator`'s cache |
| `tool[c]` | which tool the task with call id `c` is about |
| `ckpt[c]` | the call's row: status, reason, resume_from, names of its arguments |
| `executed[c]` | how often the connector ran the tool (the effect outside) |
| `audit[c]` | the actions of the `audit_log` rows that the call's own handlers wrote, and the gateway for them; a call id is the caller's to choose (`protocol.rs:195`), and what others do under it is `Gateway`'s subject |
| `pc[w]`, `job[w]` | where handler `w` stands; its call, its action, and its snapshot of the row |
| `evidence[c]` | history variable: allowed, asked, approved, denied, credential seen, schema seen |

`evidence` guards no action; it lets a property speak of what was decided and
verified earlier. A call has one row at most: `create` runs once per intake
and every intake mints its own id, so rows are indexed by call.

| Actions | In the code |
|---|---|
| `ActReceive` | `agent/routes.rs` `act` up to the loop |
| `Decide`, `CredentialCheck`, `SchemaCheck`, `Dispatch` | the arms of `preflight::execute`; `ToolsCall` is the gateway's `handle_tools_call` inside the last |
| `CreateCheckpoint` | `render_outcome`, Paused |
| `RespondGet`, `Claim` | `respond` up to and after its read; `claim_pending` |
| `Deny`, `Approve`, `Authenticate`, `ProvideInput` | the arms of `respond` |
| `LogAndResume`, `RePause`, `Finalize` | `finish_resume` |
| `LogAndReturn` | the last audit row of each path |
| `ClientGone`, `Restart`, `Connect`, `Disconnect` | the surroundings: dropped futures, process restarts, credentials that come and go |

Some choices worth knowing:

* An operation's failure is a disjunct of its action, enabled by a member of
  `Faults`. A failed request may or may not have reached the other side; both
  are there for `tools/call` and for `claim_pending`, whose UPDATE may have
  been applied when the SELECT after it fails.
* The supplied fields of an `input` and the token of an `authenticate` are
  chosen where the handler first uses them, not where the request arrives.
* `SchemaCheck` is one step although `ensure_schema_cached` awaits. That this
  loses nothing is what run `schema_changes` checks: `SchemaCache` implements
  `SchemaVerdict`, whose `Judge` is that step (here with schemas that stay the
  same, a tool's schema being a constant of `HitlAgent`).
* The rows that a `tools/call` logs in the gateway are written with its
  outcome, as a set of which any part may be missing when the database fails.
  The properties ask nothing of a row that is absent (but `TasksAreAnswered`,
  which is checked without faults).
* What the connector answers and what it did are independent: it may run the
  tool and have its reply lost, and it may answer without having run anything
  in JSON that has no `error`, which `call_tool` takes for a success
  (`errorless_answer`, in `Gateway` too, for either client).
* A handler whose client is gone stops at an await. A request it had already
  sent may still take effect; that is the same as the handler taking that step
  first and stopping then.
* A retried HTTP request would be a new one; the code retries nothing.

Section *Slips* of the module, and three operators elsewhere, are wrong
variants of an action (a claim without its status test, columns bound in the
wrong order, a merge that is not saved). No action uses them. Putting one in
place of what it resembles makes TLC report the property it is for, as
`PROJECT.json` lists under `mutants`.

## `PermissionPolicy` and the code

One question to `decide`, from call to return. `rules`, `connector` and
`tool_name` are its inputs, `next` the rule the filter is at, `cursor` the four
locals of `wildcard_match`, `matching` the stances collected (a set: only
membership is tested). Characters are atoms, `*` and `?` among them;
`to_ascii_lowercase` is the constant `Lower`, assumed idempotent and to leave
the two wildcards alone.

| Actions | In the code |
|---|---|
| `OtherConnector` | the filter's first conjunct fails |
| `Literal`, `Star`, `Backtrack`, `Mismatch` | the branches of the loop, in its order |
| `EndOfText` | what follows the loop: trailing stars, and the verdict |
| `Answer` | the search by priority |

What a glob means is defined without reference to the loop: `GlobMatches` says
that the text can be cut into pieces, one per character of the glob, a star's
of any length and any other's of one fitting character.

## `ConnectorAccess` and the code

| State | In the code |
|---|---|
| `tokens` | the `connector` column of the `credentials` table |
| `accounts` | Composio's connected accounts under the auth config, in the order it lists them, each with its user and status |
| `pc`, `req`, `ids` | a request in the gateway: where it stands, what it is, the ids `disconnect` has still to delete |
| `reply` | what its caller read: `GatewayClient` takes a non-2xx, or no answer, for an error |
| `seen`, `steady` | history: whether the user was logged in at any time of the request; the logins that were there throughout |

| Actions | In the code |
|---|---|
| `CheckUnknown`, `CheckToken`, `CheckAccounts`, `AuthUrl` | `get_connector_status`, with `is_valid`, `is_connected`, `initiate_link` |
| `Store` | `post_connector_credentials` |
| `DeleteToken`, `ListAccounts`, `DeleteAccount`, `Disconnected` | `delete_connector_credentials`, with `delete`, `active_connected_account_ids` and the loop of `disconnect` |
| `FollowLink`, `GrantLapses` | people and Composio |

Each request to Composio is a step. It may fail before or after it took
effect, its answer may miss the `items` or the `redirect_url` the code asks for
(an error likewise), and deleting an account that is already deleted may be an
error or not: the code handles both. Items of a list are whole, and the list is
too; *Limits* says what the code does otherwise. The upstream revocation that
`revoke_on_delete` asks for is Composio's own background job and left out. `credentials.expires_at` is
never set: the only caller of `store` passes `None` (`gateway/routes.rs:208`),
so a row that is there is valid. The token column is not looked at by anybody.
`Asked` says which requests callers make, so that an instance can leave out
those that only repeat others.

## `ComposioServer` and the code

`servers` is what the Composio project holds, by their names, since the lookup
reads nothing else; `late` counts the POSTs of processes that are gone; `pc`,
`server_name` and `server` are the start of one gateway per machine: `Start`
reads the environment, `ListServers` and `CreateServer` are
`get_or_create_mcp_server`, `Listen` the rest of `main`. An error is fatal, as
in `main`, and the operator starts again. `main` binds the mock connectors'
ports before it turns to Composio (`main.rs:24`), so a machine runs one such
start at a time; several machines are several operators on one project.
The list's order is Composio's: `find` may meet any server of the name first.
`strays` is a history variable: for each server name, how many lists left its
servers out (without `items`, or on another page) and how many POSTs were left
under way. Those are the two ways in which a start can create a server although
there is one.

## `Gateway`, `ToolNames` and the code

A name is a sequence of characters, the underscore one of them. `ToolNames`
defines what `format!("{connector}__{name}")`, `split_once("__")` and
`strip_prefix` do with it. `WellNamed` is what a connector's name must avoid: a
`__` inside, an `_` at the end. `github`, `notion` and `composio_github` avoid
it; nothing checks it for `COMPOSIO_CONNECTOR_NAME`.

| State | In the code |
|---|---|
| `listed` | names that `tools/list` answered with, and the tool each stands for |
| `pc`, `req`, `target` | a `tools/call` in `handle_tools_call`: where it stands, its name, call id and pre-flight header, and `route_tool`'s answer |
| `rows` | how many `audit_log` rows of each action a call id has |
| `runs` | how often a tool ran under a call id (the effect outside) |
| `ran`, `missed` | history: what ran, for whom and what was meant; what was meant by calls that came to nothing for want of a tool |
| `unwritten`, `dropped` | history: rows whose INSERT failed; calls whose handler went between its two rows |

| Actions | In the code |
|---|---|
| `ListTools` | `handle_tools_list`; a connector whose own list fails is left out |
| `ToolsCall` | a request, and `handle_tools_call` to its first await |
| `Receive`, `Decide`, `Dispatch`, `LogVerdict` | the received row; the policy; `dispatch_tool` with either client; the verdict's row and the answer |

Callers are the agent (the pre-flight header is set, the name is made from a
task's connector and tool), somebody who took a name from a list, and somebody
who made one up. Which of them means which tool is a history value, and no
action looks at it. A call id is minted or sent by the caller; that two calls
share one is the interesting case, so `CallIds` has a single one. The two
requests that a Composio call takes (the user's MCP URL, then the call) are one
step: the first changes nothing here and fails like the second.

## `SchemaCache`, `SchemaVerdict` and the code

`published` is what connectors publish, `cache` the `SchemaValidator`'s map,
`fetched` the list a handler has got and not yet written. `Check`, `Fetch`,
`Ingest` are the three parts of `ensure_schema_cached` (`has_schema`, the
gateway's list, `ingest_tools_list` under the write lock), `Diff` is
`missing_required_fields`. `Publish` changes a schema, adds a tool or drops one.
A schema is the set of fields it requires: the code reads nothing else of it but
for the question it shows. History variables: `past` (what `SchemaVerdict` calls
`shown`: schemas this process could have seen), `known` (did the handler find its tool in the cache or its list),
and `held`, which is the abstract cache: an entry counts as held from the first
diff that used it or a sibling of it. That is the moment from which it could be noticed.

## What the runs check

Times are for two TLC workers on a small machine; states are distinct states.

| Run | Instance | Properties | States |
|---|---|---|---|
| `faults` | 1 call, 2 handlers, 2 fields, any policy, all faults | `TypeOK`, `IInv`, `AtMostOnce`, `DenialIsBinding`, `NoCheckSkipped`, `AuditAgrees`, `OneOwner`, `QuestionIsOpen`, `DispatchesStoredArguments`, `OutcomesAreFinal`, `GateSpec` | 2.9 M, 3 min |
| `progress` | 1 call, 2 handlers, 2 tools of 2 connectors, one publishing nothing, any policy, lost and refused replies, fairness | `DispatchesComplete`, `ProcessingEnds`, `TasksAreAnswered` | 94 k |
| `policy_rules` | 1 rule with any glob of up to 4 characters, or 2 easy ones of any stances on 2 connectors; names of up to 3 | `TypeOK`, `CursorInv`, `AnswerIsStrictest`, `Terminates` | 298 k, 1 min |
| `access_requests` | 2 users, a token connector, Composio's and a mistyped name, 2 requests at a time, 3 accounts, all faults | `TypeOK`, `StatusIsTrue`, `LogoutClears`, `OthersStayIn` | 1.6 M, 2 min |
| `server_starts` | 2 machines that share a server name and have one each of their own, one of which the project already holds; all faults, 5 servers | `TypeOK`, `OneServerPerStarter` | 495 k |
| `gateway_calls` | 2 handlers, one call id used twice, 4 tools of all stances, 4 odd names, all faults | `TypeOK`, `RunsWhatWasMeant`, `PolicyGovernsRuns`, `NothingRunsOffTheRecord`, `EveryCallIsConcluded` | 77 k |
| `schema_changes` | 3 tools of 2 connectors, 2 handlers, 2 changes, all faults | `TypeOK`, `VerdictIsReal`, `NothingForgotten`, `VerdictSpec` | 622 k |
| `stuck`, `lost_input`, `stale_claim`, `incomplete`, `false_success` | as small as the case allows | one each, violated; see Findings | |

* `GateSpec`: whatever the handlers do, a call moves as `ApprovalGate` allows.
  `IInv` is the invariant of the proofs, checked before it was proved.
* `AtMostOnce`: over racing responses, chains of pauses, failed statements,
  lost replies, disconnects and restarts, a task's tool runs once at most.
* `DenialIsBinding`: from the moment a denial wins the claim the tool does not
  run, even if the `denied` status is never written.
* `NoCheckSkipped`: a tool that ran was cleared by the policy or a human, and
  its credential and schema checks had passed, whichever way the call went.
* `AuditAgrees`: a verdict that the trail shows is the row's final status, and
  an approval it shows was given. It says nothing of the tool: a success may
  stand in the trail with nothing behind it, as run `false_success` shows.
* `OutcomesAreFinal`: no step of any handler changes a finished row.
* `OneOwner`, `QuestionIsOpen`, `DispatchesStoredArguments`: what stale
  snapshots can and cannot do. Although a handler works on the arguments it read
  before its claim, what it dispatches is what the row shows; and a row never
  asks for an approval it has or for arguments it holds.
* `DispatchesComplete`: no published tool is dispatched without the arguments
  its schema requires - as long as a tool list never leaves the tool out; run
  `incomplete` shows the rest.
* `ProcessingEnds`, `TasksAreAnswered`: unless a step of the handler itself
  fails, a claimed row is finalized or re-paused, and a task ends in a checkpoint
  or a logged verdict, whatever the connector answers.
* `AnswerIsStrictest`: what `decide` returns is the strictest stance among the
  rules whose glob fits, and `allow` if none does. That going back to the last
  star only is enough is what makes it true, and not obvious.
* `Terminates`: the loop ends although retries move both indices back.
* `StatusIsTrue`: "connected" and "please authenticate" were each the truth
  about the user at some time of the request; a failed check is an error and
  never an `AuthRequired` pause.
* `LogoutClears`: a logout that answers "disconnected" has ended every login
  its user had throughout, another logout of the same user beside it or not; an
  error half-way leaves some, but says so. `OthersStayIn`: and never another
  user's.
* `OneServerPerStarter`: what a lookup by name and a creation in two requests can
  and cannot promise. A name has the servers it had, or one for each machine
  that starts with it, plus one for each stray.
* `RunsWhatWasMeant`: a listed name, or the one the agent makes for a task,
  leads to its own tool, whatever underscores tool names hold.
* `PolicyGovernsRuns`: for every caller, nothing blocked runs, and nothing that
  asks runs for a caller who does not say it asked. It is also what keeps an
  approval given under an older policy file from getting a tool past a block.
* `NothingRunsOffTheRecord`, `EveryCallIsConcluded`: calls that share a call id
  interleave their rows, and the rows still account for what ran. What fails on
  the way is counted where it happens: an INSERT that failed is a row that is
  due, a call whose handler is dropped between its two rows is one without a
  verdict. Nothing else is allowed for.
* `VerdictIsReal`: between finding a schema and reading it again other handlers
  may write older or shorter lists; a call is still never judged by something
  its connector had not published, nor passed for want of a schema that was
  found. `NothingForgotten`: no write takes an entry away.
* `VerdictSpec`: the four steps are one step to everybody else, lists that
  overtake each other and schemas that change in between included.

**Bounds.** One call is enough for what concerns one row: handlers share
nothing else but the schema cache, which `schema_changes` has three tools and
two handlers for, and the theorems hold for any number of calls. Two handlers
suffice for a race of two responses and for one that overtakes a stale snapshot:
a handler that has answered is free for the next response, so one can hold its
snapshot over any number of the other's. Two fields allow a partial answer and a
second question about the rest, and merges of different fields. `executed`
counts without a bound in the module; it stays at 1, as `AtMostOnce` says.
Nothing else grows. The instances are symmetric in handlers, and symmetry is
not used for liveness. Deadlock is checked in all runs of
`HitlAgent`: the credentials can always change, so there is none, and nothing
is read into that. In those of `PermissionPolicy` it is not: `decide` returns
and stops. Four characters hold two stars with something after each, so that
the matcher gives up one star for the other and goes back within the second;
three characters of text let it go back twice. Two rules let stances compete.

In `ConnectorAccess` `MaxAccounts` bounds what Composio ever holds: three let one
user have two while another has one, and a list be half deleted; a status
request that may need a link is only made while there is room for it
(`RoomToLink`), so no request is stuck for the bound's sake. One of the users
makes every request, the other logs out of Composio: tokens are everybody's, so
a second user's requests about them repeat the first's. In `ComposioServer` the
servers to be expected are four, and `MaxServers` leaves room for one more; a
machine that wants to create another waits at `CreateServer` or fails.
`MaxStrays` bounds by name what goes astray. `MaxCalls` lets a call id be used
twice, by two handlers, and the names hold underscores on either side of the
separator; the theorems about `ToolNames` and `Gateway` cover longer ones and
more calls. `MaxChanges` lets a schema be withdrawn and brought back, or changed
while another connector's changes too. Of these modules too none checks less
than deadlock, and none has one: somebody can always call, or stop.

**Fairness.** `decide` is a plain function: it goes on until it returns, hence
weak fairness of `Next` in `PermissionPolicy`. In `HitlAgent`, `Fairness`
asks that each handler that can take a step of its request eventually does. The Tokio runtime polls every future that is ready, so
what this assumes of the code is that every await returns. SQLite and the
in-process gateway justify it; a connector that never answers does not,
because the HTTP clients are built without a timeout (`gateway_client.rs:27`).
`ProcessingEnds` therefore speaks of connectors that answer or fail. It also
needs that no step of the handler fails, that the client stays and that the
connector is registered: see `stuck`. No fairness is assumed of clients, humans
or credentials. A handler that goes round through re-pauses needs a new response
each time, so even `ProcessingEnds` does not rely on the humans to stop.

## What is proved

All of it with TLAPS. About `HitlAgent`, for any sets of calls, handlers,
tools, connectors, fields, policies and faults that satisfy the three
assumptions of the module (`TopologyAssumption`, `PolicyAssumption`,
`FaultAssumption`: the constants are of the right type, published tools belong
to known connectors, `NoTool` is no tool; TLC evaluates them in every run):

| Theorem | Says |
|---|---|
| `Typed` | `Spec => []TypeOK` |
| `Inductive` | `Spec => []IInv` |
| `Ownership`, `RunsOnce`, `DenialsBind`, `ChecksPrecedeRuns` | `[]OneOwner`, `[]AtMostOnce`, `[]DenialIsBinding`, `[]NoCheckSkipped` |
| `Refinement` | `Spec => GateSpec`: the handlers implement `ApprovalGate` |
| `Finality` | `OutcomesAreFinal` |
| `AuditIsTrue` | `[]AuditAgrees` |
| `QuestionsAreOpen`, `StoredIsDispatched` | `[]QuestionIsOpen`, `[]DispatchesStoredArguments` |
| `CompleteIsDispatched` | `[]DispatchesComplete`, if `list_omits` is not among the faults; run `incomplete` shows what happens if it is |

About `PermissionPolicy`, for any characters, rules, globs and names of any
length that satisfy `CharAssumption` and `RuleAssumption`:

| Theorem | Says |
|---|---|
| `InRange` | `Spec => []TypeOK`: no index leaves its sequence |
| `Matched` | `Spec => []CursorInv` |
| `Decided` | `Spec => []AnswerIsStrictest`, if no tool name holds a star |

About `ToolNames`, for any characters and names of any length
(`CharAssumption`), and about `Gateway`, for any registry, tools, policy, call
ids, handlers and faults that satisfy its `TopologyAssumption` (names are
names, tools belong to their connectors):

| Theorem | Says |
|---|---|
| `RouteInverts`, `NamesAreUnique`, `PrefixIsOwn` | names of well-named connectors are taken apart as they were made, are never shared, and are stripped by their own connector only |
| `RouteType` | whatever `route_tool` takes apart puts together to the same name |
| `TypeCorrect` | `Spec => []TypeOK` |
| `PolicyGoverns` | `[]PolicyGovernsRuns` |
| `NamesLead` | `[]RunsWhatWasMeant`, if connectors are well named and Composio's name is not registered (`Unambiguous`) |
| `NothingOffTheRecord` | `[]NothingRunsOffTheRecord` |
| `BooksBalance` | `[]EveryCallIsConcluded` |

The last two theorems need that handlers are finitely many (`HandlersAssumption`), and
hold under every fault. `Unambiguous` is not for the prover's convenience: see
*Limits*.

About `ConnectorAccess`, for any users, connectors, earlier accounts, requests
and faults, finitely many handlers and any bound on the accounts
(`NameAssumption`, `HandlerAssumption`, `FaultAssumption`,
`EarlierAssumption`):

| Theorem | Says |
|---|---|
| `TypeCorrect` | `Spec => []TypeOK` |
| `StatusAnswers` | `[]StatusIsTrue` |
| `LogoutsClear`, `OthersAreLeft` | `[]LogoutClears`, `OthersStayIn` |

About `ComposioServer`, for any machines, environments, servers the project
already holds, bounds and faults (`ConfigAssumption`, `MachineAssumption`: the
machines are finitely many):

| Theorem | Says |
|---|---|
| `TypeCorrect` | `Spec => []TypeOK` |
| `NoServerTooMany` | `[]OneServerPerStarter` |

About `SchemaCache`, for any tools, connectors, fields, handlers, numbers of
changes and faults (`SchemaAssumption`):

| Theorem | Says |
|---|---|
| `TypeCorrect` | `Spec => []TypeOK` |
| `VerdictsAreReal`, `NothingIsForgotten` | `[]VerdictIsReal`, `NothingForgotten` |
| `ImplementsVerdict` | `Spec => VerdictSpec`: the four steps of a check implement `SchemaVerdict`'s one |

Along which arguments:

**`HitlAgent`.** `HitlAgent_proofs` has the types, for each handler step its
*frame* (what it leaves alone) and its *setting* (the facts each action's proof
starts from), one lemma per action, and the invariant.
`HitlAgentRefinement_proofs` maps each step to a move of the gate or a stutter,
and has the audit trail. `HitlAgentArguments_proofs` is about arguments and the
copies of them.

None of the safety properties is inductive. That a tool runs once, for instance,
rests on the row being `processing` while a handler works on it
(`RowsMatchHandlers`), which only one handler does (`OneOwner`), because the
claim moves the row from `pending`; on nobody having a step but the finalize
left, and no row being pending or denied, for a call that has run
(`RunsAreOver`); and on an intake's call being new (`FreshCalls`). That a denial binds needs that no other handler is past its
claim when a denial is recorded and that none can claim later (`DenialsHold`),
and that a denial itself is never resumed (`PositionsMatchRequests`). The least
obvious part is about stale snapshots: a responder may hold a reason and a
`resume_from` that the row has long left, so what the reason says must have been
established *for good* when the row was written (`Established`, `RowsAreEarned`,
`SnapshotsAreEarned`). Evidence is never withdrawn, so a snapshot of any age
resumes no further than its call has earned, and `PositionsAreEarned` carries
that to the dispatch.

`Refinement` maps a call's gate to its evidence: refused if denied, open if
cleared, asking if asked. `ApprovalGate` lets a human approve only what asks,
deny until the tool has run, and a tool run once behind an open gate.

`AuditIsTrue` needs that a handler about to log a verdict has made it true
(`VerdictsAreReal`), and that it stays true: finished rows do not change
(`FinishedStays`), and evidence is never withdrawn.

`StoredIsDispatched` is the one that nearly is not so. Any number of responders
may hold copies that the row has left behind; they claim it whenever it is
pending for what they answer, and nothing compares the arguments again. What
saves it is that a row's arguments only change where an argument is missing: a
copy that differs from the row, or may come to differ because another responder
is about to merge into it, lacks a field that its tool's cached schema requires,
so the schema check stops it before the dispatch (`OldCopiesLack`). If it then
re-pauses the row, it must not make a claim possible that dispatches either
copy, so the row lacks a field as well wherever an older responder may resume it
(`OldCopiesLack`, `MisfitsLack`). `ReplacedIsStored` follows a merge to that
check, `AskedIsMissing` says that a row which asks for arguments lacks some, and
`NotYetApproved` that an approval in hand means the row no longer asks for one:
the last two are also what `QuestionIsOpen` says of a row. `ArgsInv` is their
conjunction. Most steps are `Quiet`: they change no arguments and only let go of
copies, and `QuietKeeps` treats them all at once. `CompleteIsDispatched` rests
on the schema check being the only way to a dispatch (`DispatchIsChecked`):
without `list_omits`, a check that does not fail leaves a published tool's
schema in the cache and judges by it.

**`PermissionPolicy`.** `Decided` needs the loop to be sound and complete.
Soundness is `PrefixesMatch`: what is behind the cursor matches, and up to the
remembered star it matches the text before `star_ti`; each branch extends a cut
of the text. Completeness is `NothingMissed`: of the ways to fit the whole glob,
one that ends the star's piece at `star_ti` must pass through the cursor, and
one that ends it earlier does not exist. So a mismatch rules out only the star's
present share, and stepping over a new star loses nothing, because any fit may
give earlier stars as little as the loop did. `Literal` needs that the pattern's
character is no star, which is where the assumption on names comes in (see
*Limits*).

**`ToolNames` and `Gateway`.** `RouteInverts` rests on the separator that was
put there being the first one (`OwnSeparatorIsFirst`): none lies inside a
well-named connector, and none starts on its last character. `PolicyGoverns`
strengthens the property by what `Decide` leaves behind: a call about to be
dispatched has a stance that lets it through. It needs that what is judged is
what runs (`HomeFacts`). `NamesLead` needs that a call by somebody who means a
tool is on its way to it. The two counting theorems weigh the rows against the
runs *and* the handlers in between: a call that was logged and has not run yet
is a row in hand, and a row that could not be written counts as due
(`RecordFacts`). `EveryCallIsConcluded`
is inductive as it stands: each move of a handler takes from one term of the sum
what it adds to another. `SizeOfMove` says what one handler's move does to a
number of handlers, `OthersStay` that one step moves one handler only.

**`ConnectorAccess`.** What a request says at its end, it must have been able to
say all along (`BorneOut`): whatever it has still to delete is its own user's, a
login that outlasts the logout so far is still on its list (so that an empty
list means that none does), a link is only asked for after the user was seen to
be logged out, and an answer was seen to be true. Other requests and people
change accounts meanwhile, so this rests on accounts keeping their numbers and
users (`AccountsKept`). That the accounts stay within their bound needs room for
every link still to be asked for (`RoomForLinks`). `Bystander` says what each
step leaves of what another request holds.

**`ComposioServer`.** That there are never too many servers is inductive only
together with those to come: of each name, the servers, the POSTs still under
way and the machines about to send one are together at most those expected and
the strays (`Accounted`), and each POST under way was counted as a stray
(`LateCounted`). Finding no server is the step that needs care, since it makes
one more machine a creator: if the list was complete, there is none of the name
yet, the project never had one, and as many as the machines that use the name
may still come (`NoneListed`).

**`SchemaCache`.** Everything in the cache, in a list under way or in force was
published in this process's time (`AllShown`), a handler that knows its tool
still finds it (`AtWork`), and what was judged by is still cached. For
`ImplementsVerdict`, looking, fetching and writing are stutters, since the
abstract cache counts an entry from its first use; `DiffJudges` shows that a
diff is `Judge`, with the siblings that are in the cache by then as its choice.

Model-checked only: `Terminates`, `ProcessingEnds` and `TasksAreAnswered`, since
liveness under fairness is outside the prover's reach; and what the runs that
expect a violation show.

## Findings

Where the handlers do something else than a comment says. The runs show how.

* `stuck` - `checkpoint.rs:345`: "Callers must follow up with either `finalize`
  or `re_pause` — `Processing` is never a resting state." A human approves a
  call whose connector is not registered; the status check answers 404; the `?`
  in `finish_resume` (`hitl/routes.rs:304`) returns a 500 and leaves the row
  `processing`. Every later response gets a 409. A failing request to the
  gateway, or an `input` whose `fields` are not an object, does the same.
* `lost_input` - `checkpoint.rs:371`: "so the merged arguments survive even if
  the resumed attempt pauses again". `respond` merges into the arguments it
  read before the claim (`hitl/routes.rs:240`). A responder that read the row
  first and claims it after another one's partial answer re-paused it writes
  arguments without that answer's field.
* `stale_claim` - `checkpoint.rs:167`: "The other three are each valid only
  against the matching `PauseReason`". The match is tested on the snapshot
  (`hitl/routes.rs:158`) and the claim tests only the status, so a second
  approval of a call that meanwhile waits for an argument or a credential
  claims it. Every check has still been passed once before the tool runs
  (`NoCheckSkipped`), but not always since the row last asked for it: after a
  stale approval has re-paused a call for its credential, an equally stale
  input resumes at the schema check.
* `incomplete` - `checkpoint.rs:121`: "an incomplete resume re-pauses on the
  fields still missing instead of dispatching with a call the tool's own schema
  says is invalid". After a restart the cache is empty; if the connector's own
  list fails just then, `tools/list` answers without it (`protocol.rs:100`),
  nothing counts as missing, and the incomplete call is dispatched.
* `false_success` - `README.md:518`: "an approval is never mistaken for a
  successful execution", and `provider.rs:75`: "Returns `Ok(result)` on a
  JSON-RPC success, `Err(message)` on a JSON-RPC error or transport failure".
  `call_tool` looks at neither the HTTP status nor the presence of a result
  (`provider.rs:98`). An approved call meets a connector, or a proxy before it,
  that answers an error in JSON without an `error` member; the gateway logs
  `success`, and the checkpoint is finalized as `resolved` with nothing run.
  Composio's client tests the status, but then takes any JSON without `error`
  (or the first `data:` line of a stream, whatever it is) for the result
  (`composio.rs:284`, `composio.rs:305`).

## Limits

What else the models say about comments of the code that promise more than it
keeps, and what they leave out. None of these has a run of its own: each takes one
call or one setting to see, or is held by the models as a constant, a fault or a
history variable that the properties allow for.

* `composio.rs:175`: "Returns the id/url of an MCP server already scoped to
  `auth_config_id`/`allowed_tools`". The lookup compares the name only
  (`composio.rs:188`). After `COMPOSIO_ALLOWED_TOOLS` is edited, the gateway
  keeps running on the server with the old tools. `ComposioServer` holds names
  only and says nothing about the scope of the server a gateway runs on.
* `policy.toml:4`: "Matching: glob (`*`, `?`)", and `policy.rs:90`: "glob match
  supporting `*` and `?`". The loop compares the two characters before it looks
  for a star (`policy.rs:100`), so where a tool name holds a `*` the pattern's
  star is used up as a letter: the rule `*` does not apply to a tool called
  `*a`. The names of `policy_rules` hold none, and `Decided` assumes it
  (`StarlessNames`). The same comment has globs range over
  "`<connector>/<tool_name>`"; `decide` compares connectors for equality and
  matches the glob with the tool name only.
* `README.md:202`: "Resuming an `InputRequired` checkpoint [...] continues
  straight to `Dispatch`". It resumes at the schema check, as the table at
  `README.md:262` and the code (`checkpoint.rs`, `resume_from`) have it, and so
  does `ResumeFrom`.
* `README.md:303`: "One shared MCP server per toolkit, created once at boot". A
  start that is stopped with its POST under way can be followed by one that lists
  the servers before the POST is served, a list without `items` reads as no
  servers, and of a project with many servers only one page is read
  (`composio.rs:184`): all of them are `strays`. Two machines that start at once create one each. A
  POST that failed after it took effect does no harm: the next start finds the
  server.
* `protocol.rs:88`: "a single flat tool list an agent can route back to the right
  connector at call time". `COMPOSIO_CONNECTOR_NAME` may be a registered name;
  then both connectors' tools are listed under it, and `dispatch_tool`
  (`protocol.rs:151`) sends every call to Composio. `NamesLead` assumes that it
  is not (`Unambiguous`); with `Slot` in `Registry`, `RunsWhatWasMeant` fails.
* `composio.rs:105`: "Ids of every currently-ACTIVE connected account". An item
  without a `status` counts as inactive (`composio.rs:102`, `:129`), one without
  an `id` is left out (`composio.rs:130`), and one page is read: a logout that
  meets such a list answers "disconnected" with a login left. The accounts of
  `ConnectorAccess` have both members, and its lists are whole.
* `checkpoint.rs:119`: "the schema cache can have picked up more required fields
  than were known when the checkpoint first paused". Once a tool's schema is
  cached nothing fetches it again (`schema_validator.rs:53`), so a field that the
  connector has come to require is not asked for: `VerdictIsReal` says that a
  call is judged by some schema of the process's time, not by the latest. (A
  tool that the cache did not have at the pause can be picked up, by a restart.)
  Nor does an entry only grow: the list fetched for a sibling tool overwrites the
  whole connector (`schema_validator.rs:49`), perhaps with a laxer schema. In
  `HitlAgent` a tool's schema is a constant, so what `DispatchesStoredArguments`
  and `StoredIsDispatched` say holds as long as schemas stay what they are: under
  a laxer one a copy of the arguments that lacked a field could be dispatched
  where the row has the field by now.
* `schema_validator.rs:38`: "called once per connector, lazily". Two handlers
  that both find the cache empty both fetch and write. It does no harm
  (`VerdictIsReal`, `VerdictSpec`).

## What is not modelled

* Users and agents as identities in `HitlAgent`: the checks of one call use one
  user, and a login is per connector there. `ConnectorAccess` has the users.
* Values of arguments, results, error texts, the question shown, timestamps, and
  the text of OAuth URLs: no property here tells them apart.
* HTTP and JSON-RPC encoding, routing, tracing, configuration, migrations. In
  particular the escaping of names in `GET /policy/:connector/:tool`: a tool
  name is opaque, and which characters a connector uses is its own affair.
* Timeouts: no client sets one, so there is none to model.
* Expiry instants of credentials: `is_valid` compares them with the clock, and
  only its unit tests ever store one.
* `GET` routes, which only read; `normalize_arguments`' refusal of arguments
  that are not an object, which changes nothing; the mock connectors; and the
  arm of `finish_resume` for a rejected resume, which the code itself calls
  unreachable and which the model cannot reach.
