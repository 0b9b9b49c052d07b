------------------------------- MODULE Gateway -------------------------------
(***************************************************************************)
(* The gateway's MCP endpoint, POST /mcp: tools/list over every connector  *)
(* and tools/call, for the agent (which sends x-agent-preflight and its    *)
(* own x-call-id) and for anyone who calls it directly.  A call is routed  *)
(* by its name, logged, judged by the policy, dispatched and logged again, *)
(* with an await between any two of those.                                 *)
(* src/src/gateway/{protocol,routes,composio}.rs, src/src/provider.rs.     *)
(***************************************************************************)
EXTENDS ToolNames, FiniteSets

CONSTANTS
    Registry,     \* connector names main registers
    HasSlot,      \* is Composio configured
    Slot,         \* the Composio connector's name, if it is
    RegistryTools, SlotTools,  \* tools each publishes: [connector, tool_name] records
    RawNames,     \* names a direct caller may also send
    Asked, Blocked,  \* (connector, tool_name) pairs the policy is not `allow` on
    CallIds,      \* call ids, sent by the caller or minted
    Handlers,     \* requests in flight at once
    Faults,       \* which of FaultKinds can happen
    MaxCalls      \* bound on the calls of one call id

\* connector_error  a connector's request fails, before or after the tool ran
\* errorless_answer  a server answers JSON with no `error` in it without running
\*                  the tool (a registered one over an HTTP error status too)
\* db_error         the audit row is not written
\* client_gone      the caller disconnects, which drops the handler's future
\* restart          the gateway stops and starts
FaultKinds == {"connector_error", "errorless_answer", "db_error", "client_gone", "restart"}

Targets == [connector : Name, tool_name : Name]
Verdicts == {"blocked", "rejected_requires_agent", "success", "failed"}
Actions == Verdicts \union {"call_received"}

ASSUME TopologyAssumption ==
    /\ Slot \in Name /\ \A c \in Registry : c \in Name
    /\ \A t \in RegistryTools \union SlotTools \union Asked \union Blocked : t \in Targets
    /\ \A t \in RegistryTools : t.connector \in Registry
    /\ \A t \in SlotTools : HasSlot /\ t.connector = Slot
    /\ HasSlot \in BOOLEAN
    /\ \A n \in RawNames : n \in Name
    /\ Faults \subseteq FaultKinds /\ MaxCalls \in Nat
ASSUME HandlersAssumption == IsFiniteSet(Handlers)

\* Where a tool is found: a slot's and a registered connector's tools can carry
\* the same name.
Homes == [home : {"slot"}, tool : SlotTools] \union [home : {"registry"}, tool : RegistryTools]
Nowhere == [home |-> "none"]

VARIABLES
    listed,   \* the tools of some tools/list answer, under the names it gave
    pc, req,  \* each handler's position and call
    target,   \* route_tool's answer
    rows,     \* how many audit_log rows of each action a call id has
    runs,     \* how often a tool ran under a call id
    ran,      \* history: what ran, what was meant, was it pre-flighted
    missed,   \* history: what was meant by calls that no tool was found for
    unwritten,  \* history: rows of each action that could not be written
    dropped   \* history: calls whose handler went between its two rows

traces == <<ran, missed>>
mishaps == <<unwritten, dropped>>
history == <<traces, mishaps>>
vars == <<listed, pc, req, target, rows, runs, history>>

\* A call by somebody who knows which tool they mean: a task of the agent, or
\* a listed name; or by somebody who made the name up.
Calls == [name : Name, meant : Homes \union {Nowhere}, call_id : CallIds,
          preflight : BOOLEAN]
NoCall == [call_id |-> "none"]
UnderWay == {"decide", "dispatch"} \union Verdicts
PCs == {"idle", "receive"} \union UnderWay

TypeOK ==
    /\ \A e \in listed : e.name \in Name /\ e.meant \in Homes
    /\ pc \in [Handlers -> PCs]
    /\ req \in [Handlers -> Calls \union {NoCall}]
    /\ target \in [Handlers -> Targets \union {NoRoute}]
    /\ \A h \in Handlers : pc[h] # "idle" =>
            /\ req[h] \in Calls
            /\ target[h] \in Targets
            /\ target[h].connector \in Registry \union {Slot}
    /\ rows \in [CallIds -> [Actions -> Nat]]
    /\ runs \in [CallIds -> Nat]
    /\ \A r \in ran : r.meant \in Homes \union {Nowhere} /\ r.actual \in Homes
    /\ missed \subseteq Homes \union {Nowhere}
    /\ unwritten \in [CallIds -> [Actions -> Nat]]
    /\ dropped \in [CallIds -> Nat]
-----------------------------------------------------------------------------
Known(c) == c \in Registry \/ (HasSlot /\ c = Slot)
Stance(t) == IF t \in Blocked THEN "block" ELSE IF t \in Asked THEN "ask" ELSE "allow"

Goto(h, label) == pc' = [pc EXCEPT ![h] = label]
Return(h) ==
    /\ Goto(h, "idle")
    /\ req' = [req EXCEPT ![h] = NoCall]
    /\ target' = [target EXCEPT ![h] = NoRoute]

\* AuditLog::record, whose error every caller here drops.
Record(h, action) ==
    \/ /\ rows' = [rows EXCEPT ![req[h].call_id][action] = @ + 1]
       /\ UNCHANGED unwritten
    \/ /\ "db_error" \in Faults
       /\ unwritten' = [unwritten EXCEPT ![req[h].call_id][action] = @ + 1]
       /\ UNCHANGED rows

NamespacedTool(t) == Namespaced(t.connector, t.tool_name)
Entry(home) == [name |-> NamespacedTool(home.tool), meant |-> home]

\* Where dispatch_tool sends a call: to Composio if its connector has the name.
Home(t) ==
    IF HasSlot /\ t.connector = Slot
      THEN IF t \in SlotTools THEN [home |-> "slot", tool |-> t] ELSE Nowhere
      ELSE IF t \in RegistryTools THEN [home |-> "registry", tool |-> t] ELSE Nowhere

Init ==
    /\ listed = {}
    /\ pc = [h \in Handlers |-> "idle"]
    /\ req = [h \in Handlers |-> NoCall]
    /\ target = [h \in Handlers |-> NoRoute]
    /\ rows = [c \in CallIds |-> [a \in Actions |-> 0]]
    /\ runs = [c \in CallIds |-> 0]
    /\ ran = {}
    /\ missed = {}
    /\ unwritten = [c \in CallIds |-> [a \in Actions |-> 0]]
    /\ dropped = [c \in CallIds |-> 0]

\* handle_tools_list.  A connector whose own list fails is left out of it.
ListTools ==
    /\ \E out \in IF "connector_error" \in Faults
                    THEN SUBSET (Registry \X {"registry"} \union {<<Slot, "slot">>}) ELSE {{}} :
            listed' = {Entry(h) : h \in {x \in Homes : <<x.tool.connector, x.home>> \notin out}}
    /\ UNCHANGED <<pc, req, target, rows, runs, history>>
-----------------------------------------------------------------------------
(* Slips a change to the handler could make.  No action uses them: each     *)
(* stands for the definition it resembles, to show that a property notices. *)

\* The connector is looked up and the call judged after the header is read:
\* a call that says it is pre-flighted is not judged at all.
DecideUnlessPreflighted(h) ==
    /\ pc[h] = "decide"
    /\ Goto(h, IF req[h].preflight THEN "dispatch"
               ELSE IF Stance(target[h]) = "block" THEN "blocked"
               ELSE IF Stance(target[h]) = "ask" THEN "rejected_requires_agent"
               ELSE "dispatch")
    /\ UNCHANGED <<listed, req, target, rows, runs, history>>

\* call_received is logged with the verdict, once there is one.
ReceiveUnlogged(h) ==
    /\ pc[h] = "receive"
    /\ Goto(h, "decide")
    /\ UNCHANGED <<listed, req, target, rows, runs, history>>

\* A failed call returns its error without a row.
LogVerdictUnlessFailed(h) ==
    /\ pc[h] \in Verdicts
    /\ IF pc[h] = "failed" THEN UNCHANGED <<rows, unwritten>> ELSE Record(h, pc[h])
    /\ Return(h)
    /\ UNCHANGED <<listed, runs, traces, dropped>>

\* Any namespaced name is accepted.
AcceptUnknown(h, call) ==
    LET to == Route(call.name) IN
    /\ to.routed
    /\ req' = [req EXCEPT ![h] = call]
    /\ target' = [target EXCEPT ![h] = [connector |-> to.connector, tool_name |-> to.tool_name]]
    /\ Goto(h, "receive")
    /\ UNCHANGED missed
-----------------------------------------------------------------------------
\* handle_tools_call up to its first await: a name that is not namespaced, or
\* whose connector nobody knows, is refused without a row.
Accept(h, call) ==
    LET to == Route(call.name) IN
    IF to.routed /\ Known(to.connector)
      THEN /\ req' = [req EXCEPT ![h] = call]
           /\ target' = [target EXCEPT ![h] =
                [connector |-> to.connector, tool_name |-> to.tool_name]]
           /\ Goto(h, "receive")
           /\ UNCHANGED missed
      ELSE /\ missed' = missed \union {call.meant}
           /\ UNCHANGED <<pc, req, target>>

\* The handlers at one of some positions with a call of a call id.
At(positions, c) == {h \in Handlers : pc[h] \in positions /\ req[h].call_id = c}

\* Rows that were written or should have been.
Due(c, action) == rows[c][action] + unwritten[c][action]

ToolsCall(h) ==
    /\ pc[h] = "idle"
    /\ \E c \in CallIds, preflight \in BOOLEAN :
        /\ Due(c, "call_received") + Cardinality(At({"receive"}, c)) < MaxCalls  \* bound
        /\ \/ \E home \in Homes :                \* the agent's task names the tool
                Accept(h, [name |-> NamespacedTool(home.tool), meant |-> home,
                           call_id |-> c, preflight |-> TRUE])
           \/ \E e \in listed :
                \* a name as it was listed
                Accept(h, [name |-> e.name, meant |-> e.meant,
                           call_id |-> c, preflight |-> preflight])
           \/ \E n \in RawNames :
                Accept(h, [name |-> n, meant |-> Nowhere,
                           call_id |-> c, preflight |-> preflight])
    /\ UNCHANGED <<listed, rows, runs, ran, mishaps>>

Receive(h) ==
    /\ pc[h] = "receive"
    /\ Record(h, "call_received")
    /\ Goto(h, "decide")
    /\ UNCHANGED <<listed, req, target, runs, traces, dropped>>

\* Block always, ask unless the caller says it asked.
Decide(h) ==
    /\ pc[h] = "decide"
    /\ Goto(h, IF Stance(target[h]) = "block" THEN "blocked"
               ELSE IF Stance(target[h]) = "ask" /\ ~req[h].preflight
                 THEN "rejected_requires_agent" ELSE "dispatch")
    /\ UNCHANGED <<listed, req, target, rows, runs, history>>

Runs(h) ==
    /\ Home(target[h]) # Nowhere
    /\ runs' = [runs EXCEPT ![req[h].call_id] = @ + 1]
    /\ ran' = ran \union {[meant |-> req[h].meant, actual |-> Home(target[h]),
                           preflight |-> req[h].preflight]}
    /\ UNCHANGED <<missed, mishaps>>

\* dispatch_tool, McpClient::call_tool and ComposioConnector::call_tool: JSON
\* without an `error` is a success, for the former whatever the HTTP status, for
\* the latter (and the first SSE line that parses) whenever the status is.
Dispatch(h) ==
    /\ pc[h] = "dispatch"
    /\ \/ Runs(h) /\ Goto(h, "success")
       \/ Runs(h) /\ "connector_error" \in Faults /\ Goto(h, "failed")
       \/ /\ "connector_error" \in Faults
          /\ Goto(h, "failed")
          /\ UNCHANGED <<runs, history>>
       \/ /\ Home(target[h]) = Nowhere            \* the connector has no such tool
          /\ Goto(h, "failed")
          /\ missed' = missed \union {req[h].meant}
          /\ UNCHANGED <<runs, ran, mishaps>>
       \/ /\ "errorless_answer" \in Faults
          /\ Goto(h, "success")
          /\ UNCHANGED <<runs, history>>
    /\ UNCHANGED <<listed, req, target, rows>>

\* The verdict's row, then the response.
LogVerdict(h) ==
    /\ pc[h] \in Verdicts
    /\ Record(h, pc[h])
    /\ Return(h)
    /\ UNCHANGED <<listed, runs, traces, dropped>>

Step(h) == Receive(h) \/ Decide(h) \/ Dispatch(h) \/ LogVerdict(h)

Dropped(h) ==
    /\ "client_gone" \in Faults
    /\ pc[h] # "idle"
    /\ Return(h)
    /\ dropped' = IF pc[h] = "receive" THEN dropped
                  ELSE [dropped EXCEPT ![req[h].call_id] = @ + 1]
    /\ UNCHANGED <<listed, rows, runs, traces, unwritten>>

\* The tables outlive the process, its handlers do not.
Restart ==
    /\ "restart" \in Faults
    /\ pc' = [h \in Handlers |-> "idle"]
    /\ req' = [h \in Handlers |-> NoCall]
    /\ target' = [h \in Handlers |-> NoRoute]
    /\ dropped' = [c \in CallIds |-> dropped[c] + Cardinality(At(UnderWay, c))]
    /\ UNCHANGED <<listed, rows, runs, traces, unwritten>>

Next ==
    \/ ListTools
    \/ \E h \in Handlers : ToolsCall(h) \/ Step(h) \/ Dropped(h)
    \/ Restart

Spec == Init /\ [][Next]_vars
-----------------------------------------------------------------------------
(* "A single flat tool list an agent can route back to the right connector  *)
(* at call time" (protocol.rs, handle_tools_list), and a task's own name    *)
(* likewise: no such call is refused or runs into the void, and what runs   *)
(* is the tool that was meant, of the connector that was meant.             *)
RunsWhatWasMeant ==
    /\ \A r \in ran : r.meant \in {r.actual, Nowhere}
    /\ missed \subseteq {Nowhere}

(* However a name is put together, no tool the policy blocks runs, and none *)
(* it asks about runs for a caller that does not say it asked.              *)
PolicyGovernsRuns ==
    \A r \in ran : /\ Stance(r.actual.tool) # "block"
                   /\ Stance(r.actual.tool) = "ask" => r.preflight

(* No tool runs off the record.  Every run has a call_received row of its   *)
(* own under its call id, or an INSERT of one that failed, however many     *)
(* calls share the id and wherever their handlers are cut short.            *)
NothingRunsOffTheRecord ==
    \A c \in CallIds : runs[c] <= Due(c, "call_received")

(* The books balance.  Every call that was received has one verdict, or is  *)
(* with its handler, or was cut short with it: no call id gains or loses a  *)
(* row to another call under way with the same id.                          *)
EveryCallIsConcluded ==
    \A c \in CallIds :
        Due(c, "call_received") =
            Due(c, "blocked") + Due(c, "rejected_requires_agent")
            + Due(c, "success") + Due(c, "failed")
            + Cardinality(At(UnderWay, c)) + dropped[c]
=============================================================================
