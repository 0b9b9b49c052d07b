--------------------------- MODULE HitlAgent_proofs ---------------------------
(***************************************************************************)
(* Proofs about HitlAgent for every value of its constants: its type       *)
(* invariant, the inductive invariant IInv and the properties it implies.  *)
(***************************************************************************)
EXTENDS HitlAgent, TLAPS

\* The vocabulary's operators stay inside their types.
LEMMA ResumeFromType ==
    ASSUME NEW reason \in Reasons
    PROVE  ResumeFrom(reason) \in Steps
BY DEF ResumeFrom, Steps

\* The labels handlers jump to are positions, and those that are logged are rows.
LEMMA PCsAreTyped ==
    /\ Steps \subseteq PCs /\ Reasons \subseteq PCs
    /\ HumanRows \subseteq PCs /\ FinalRows \subseteq PCs
    /\ HumanRows \subseteq Rows /\ FinalRows \subseteq Rows
    /\ "idle" \in PCs /\ "claim" \in PCs /\ "apply" \in PCs
    /\ "finalize_resolved" \in PCs /\ "finalize_failed" \in PCs
BY DEF PCs, Rows

\* Logging keeps the audit log's type, whichever rows are lost.
LEMMA RecordType ==
    ASSUME TypeOK, NEW c \in Calls, NEW rows \in SUBSET Rows, Record(c, rows)
    PROVE  audit' \in [Calls -> SUBSET Rows]
BY DEF TypeOK, Record

-----------------------------------------------------------------------------
(* The type invariant.                                                      *)

\* The initial states are well typed.
LEMMA TypeInit == Init => TypeOK
BY DEF Init, TypeOK, NoRow, Checkpoints, Statuses, Reasons, Steps, PCs

\* A handler that gives up keeps the types.
LEMMA FailType ==
    ASSUME TypeOK, NEW w \in Workers, NEW fault, Fail(w, fault)
    PROVE  TypeOK'
BY DEF TypeOK, Fail, Return, PCs, worldVars, callVars

\* A handler with a request carries a well-typed job about a call.
LEMMA BusyJob ==
    ASSUME TypeOK, NEW w \in Workers, pc[w] # "idle"
    PROVE  /\ job[w] \in Jobs /\ Call(w) \in Calls
           /\ job[w].resume_from \in Steps /\ job[w].args \in SUBSET Fields
           /\ job[w].action \in HumanActions \union {"act"}
           /\ Row(w) \in Checkpoints
BY DEF TypeOK, Jobs, Call, Row

\* Only a handler with a request takes a handler step.
LEMMA HandlersAreBusy ==
    ASSUME NEW w \in Workers, HandlerStep(w)
    PROVE  pc[w] # "idle"
BY DEF HandlerStep, Decide, CredentialCheck, SchemaCheck, Dispatch,
       CreateCheckpoint, RePause, Claim, Deny, Approve, Authenticate,
       ProvideInput, LogAndResume, Finalize, LogAndReturn,
       Reasons, HumanRows, FinalRows

\* Moving a handler on, or sending it home, keeps the handlers' types.
LEMMA GotoType ==
    ASSUME TypeOK, NEW w \in Workers, NEW label \in PCs, pc[w] # "idle",
           Goto(w, label)
    PROVE  /\ pc' \in [Workers -> PCs]
           /\ job' \in [Workers -> Jobs \union {NoJob}]
           /\ \A v \in Workers : pc'[v] # "idle" => job'[v] \in Jobs
BY DEF TypeOK, Goto

\* A handler that returns keeps the types of its position and job.
LEMMA ReturnType ==
    ASSUME TypeOK, NEW w \in Workers, Return(w)
    PROVE  /\ pc' \in [Workers -> PCs]
           /\ job' \in [Workers -> Jobs \union {NoJob}]
           /\ \A v \in Workers : pc'[v] # "idle" => job'[v] \in Jobs
BY PCsAreTyped DEF TypeOK, Return

\* Setting a status keeps the rows well typed.
LEMMA StatusType ==
    ASSUME TypeOK, NEW w \in Workers, pc[w] # "idle", NEW status \in Statuses,
           SetStatus(w, status)
    PROVE  ckpt' \in [Calls -> Checkpoints]
BY BusyJob DEF TypeOK, SetStatus, Checkpoints

\* Recording a fact keeps the evidence well typed.
LEMMA LearnType ==
    ASSUME TypeOK, NEW w \in Workers, pc[w] # "idle", NEW facts \in SUBSET Facts,
           Learn(w, facts)
    PROVE  evidence' \in [Calls -> SUBSET Facts]
BY BusyJob DEF TypeOK, Learn

\* One handler's step keeps the types.
LEMMA HandlerStepType ==
    ASSUME TypeOK, NEW w \in Workers, HandlerStep(w)
    PROVE  TypeOK'
<1>. DEFINE HandlersTyped ==
        /\ pc' \in [Workers -> PCs]
        /\ job' \in [Workers -> Jobs \union {NoJob}]
        /\ \A v \in Workers : pc'[v] # "idle" => job'[v] \in Jobs
<1>a. pc[w] # "idle"
    BY HandlersAreBusy
<1>b. /\ job[w] \in Jobs /\ Call(w) \in Calls
      /\ job[w].resume_from \in Steps /\ job[w].args \in SUBSET Fields
    BY <1>a, BusyJob
<1>c. \A fault : Fail(w, fault) => TypeOK'
    BY FailType
<1>d. \A label \in PCs : Goto(w, label) => HandlersTyped
    BY <1>a, GotoType
<1>1. CASE Decide(w)
    <2>1. ASSUME Goto(w, "blocked") \/ Goto(w, "approval_required") \/ Goto(w, "credential_check")
          PROVE  HandlersTyped
        BY <1>d, <2>1 DEF PCs, Steps, Reasons, FinalRows
    <2>2. ASSUME Learn(w, {"asked"}) \/ Learn(w, {"allowed"})
          PROVE  evidence' \in [Calls -> SUBSET Facts]
        BY <1>a, <2>2, LearnType DEF Facts
    <2> QED
        BY <1>1, <1>c, <2>1, <2>2 DEF TypeOK, Decide, worldVars, callVars
<1>2. CASE CredentialCheck(w)
    <2>1. ASSUME Goto(w, "auth_required") \/ Goto(w, "schema_check")
          PROVE  HandlersTyped
        BY <1>d, <2>1 DEF PCs, Steps, Reasons
    <2>2. ASSUME Learn(w, {"credential"})
          PROVE  evidence' \in [Calls -> SUBSET Facts]
        BY <1>a, <2>2, LearnType DEF Facts
    <2> QED
        BY <1>2, <1>c, <2>1, <2>2, ReturnType
           DEF TypeOK, CredentialCheck, worldVars, callVars
<1>3. CASE SchemaCheck(w)
    <2>1. ASSUME Goto(w, "dispatch") \/ Goto(w, "input_required")
          PROVE  HandlersTyped
        BY <1>d, <2>1 DEF PCs, Steps, Reasons
    <2>2. ASSUME Learn(w, {"schema"})
          PROVE  evidence' \in [Calls -> SUBSET Facts]
        BY <1>a, <2>2, LearnType DEF Facts
    <2>3. Listed(Tool(w)) \subseteq Tools
        BY TopologyAssumption DEF Listed
    <2> QED
        BY <1>3, <1>c, <2>1, <2>2, <2>3 DEF TypeOK, SchemaCheck
<1>4. CASE Dispatch(w)
    <2>1. HandlersTyped
        BY <1>4, <1>d DEF Dispatch, ToolsCall, Succeeds, Fails, Conclude, PCs, FinalRows
    <2>2. executed' \in [Calls -> Nat]
        BY <1>4, <1>b DEF Dispatch, ToolsCall, Runs, TypeOK
    <2>3. audit' \in [Calls -> SUBSET Rows]
        BY <1>4, <1>b, RecordType DEF Dispatch, ToolsCall, TypeOK, Rows, FinalRows
    <2> QED
        BY <1>4, <2>1, <2>2, <2>3 DEF TypeOK, Dispatch, worldVars
<1>5. CASE CreateCheckpoint(w)
    <2>1. ASSUME ckpt' = [ckpt EXCEPT ![Call(w)] =
                    [status |-> "pending", reason |-> pc[w],
                     resume_from |-> ResumeFrom(pc[w]), args |-> job[w].args]]
          PROVE  ckpt' \in [Calls -> Checkpoints]
        BY <1>5, <1>b, <2>1, ResumeFromType DEF TypeOK, CreateCheckpoint, Checkpoints, Statuses
    <2>2. ASSUME Goto(w, "paused") PROVE HandlersTyped
        BY <1>d, <2>2 DEF PCs, FinalRows
    <2> QED
        BY <1>5, <1>c, <2>1, <2>2 DEF TypeOK, CreateCheckpoint, worldVars
<1>6. CASE RePause(w)
    <2>1. [Row(w) EXCEPT !.status = "pending", !.reason = pc[w],
                         !.resume_from = ResumeFrom(pc[w])] \in Checkpoints
        BY <1>6, <1>a, BusyJob, ResumeFromType DEF RePause, Checkpoints, Statuses
    <2>2. ASSUME Goto(w, "re_paused") PROVE HandlersTyped
        BY <1>d, <2>2 DEF PCs, FinalRows
    <2> QED
        BY <1>6, <1>c, <2>1, <2>2 DEF TypeOK, RePause, Row, worldVars
<1>7. CASE Claim(w)
    <2>1. ASSUME TakeRow(w)
          PROVE  /\ ckpt' \in [Calls -> Checkpoints]
                 /\ evidence' \in [Calls -> SUBSET Facts]
                 /\ UNCHANGED <<worldVars, tool, executed, audit>>
        BY <1>a, <2>1, StatusType, LearnType DEF TakeRow, TypeOK, Statuses, Facts
    <2>2. ASSUME Goto(w, "apply") PROVE HandlersTyped
        BY <1>d, <2>2, PCsAreTyped
    <2> QED
        BY <1>7, <1>c, <2>1, <2>2, ReturnType DEF TypeOK, Claim, worldVars, callVars
<1>8. CASE Deny(w)
    <2>1. ASSUME Goto(w, "denied") PROVE HandlersTyped
        BY <1>d, <2>1 DEF PCs, FinalRows
    <2> QED
        BY <1>8, <1>a, <1>c, <2>1, StatusType DEF TypeOK, Deny, Statuses, worldVars
<1>9. CASE Approve(w)
    <2>1. HandlersTyped
        BY <1>9, <1>d DEF Approve, PCs, HumanRows
    <2> QED
        BY <1>9, <1>a, <2>1, LearnType DEF TypeOK, Approve, Facts, worldVars
<1>10. CASE Authenticate(w)
    <2>1. HandlersTyped
        BY <1>10, <1>d DEF Authenticate, PCs, HumanRows
    <2>2. connected' \subseteq Connectors
        BY <1>10, TopologyAssumption DEF TypeOK, Authenticate, StoreCredential
    <2> QED
        BY <1>10, <2>1, <2>2 DEF TypeOK, Authenticate, StoreCredential, callVars
<1>11. CASE ProvideInput(w)
    <2>1. ASSUME NEW merged \in SUBSET Fields,
                 ckpt' = [ckpt EXCEPT ![Call(w)].args = merged],
                 job' = [job EXCEPT ![w].args = merged],
                 pc' = [pc EXCEPT ![w] = "input_provided"]
          PROVE  ckpt' \in [Calls -> Checkpoints] /\ HandlersTyped
        <3>1. ckpt' \in [Calls -> Checkpoints]
            BY <1>b, <2>1 DEF TypeOK, Checkpoints
        <3>2. [job[w] EXCEPT !.args = merged] \in Jobs
            BY <1>b, <2>1 DEF Jobs
        <3>3. HandlersTyped
            BY <1>b, <2>1, <3>2 DEF TypeOK, PCs, HumanRows
        <3> QED BY <3>1, <3>3
    <2>2. ASSUME NEW fields \in SUBSET Fields,
                 ckpt' = [ckpt EXCEPT ![Call(w)].args = job[w].args \union fields],
                 job' = [job EXCEPT ![w].args = job[w].args \union fields],
                 pc' = [pc EXCEPT ![w] = "input_provided"],
                 UNCHANGED <<worldVars, tool, executed, audit, evidence>>
          PROVE  TypeOK'
        <3>1. job[w].args \union fields \in SUBSET Fields
            BY <1>b
        <3> QED BY <2>1, <2>2, <3>1 DEF TypeOK, worldVars
    <2> QED
        BY <1>11, <1>c, <2>2 DEF ProvideInput
<1>12. CASE LogAndResume(w)
    <2>1. HandlersTyped
        BY <1>12, <1>b, <1>d, PCsAreTyped DEF LogAndResume
    <2>2. audit' \in [Calls -> SUBSET Rows]
        BY <1>12, <1>b, RecordType, PCsAreTyped DEF LogAndResume
    <2> QED
        BY <1>12, <2>1, <2>2 DEF TypeOK, LogAndResume, worldVars
<1>13. CASE Finalize(w)
    <2>1. ASSUME Goto(w, "resumed_success") \/ Goto(w, "resumed_failed")
          PROVE  HandlersTyped
        BY <1>d, <2>1 DEF PCs, FinalRows
    <2> QED
        BY <1>13, <1>a, <1>c, <2>1, StatusType DEF TypeOK, Finalize, Statuses, worldVars
<1>14. CASE LogAndReturn(w)
    <2>1. audit' \in [Calls -> SUBSET Rows]
        BY <1>14, <1>b, RecordType, PCsAreTyped DEF LogAndReturn
    <2> QED
        BY <1>14, <2>1, ReturnType DEF TypeOK, LogAndReturn, worldVars
<1> QED
    BY <1>1, <1>2, <1>3, <1>4, <1>5, <1>6, <1>7, <1>8, <1>9, <1>10, <1>11,
       <1>12, <1>13, <1>14 DEF HandlerStep

\* Every step keeps the types.
LEMMA TypeNext ==
    ASSUME TypeOK, [Next]_vars
    PROVE  TypeOK'
<1> USE DEF worldVars, callVars, handlerVars
<1>1. ASSUME NEW w \in Workers, ActReceive(w) PROVE TypeOK'
    BY <1>1, RecordType DEF TypeOK, ActReceive, Jobs, PCs, Steps, Rows
<1>2. ASSUME NEW w \in Workers, RespondGet(w) PROVE TypeOK'
    BY <1>2 DEF TypeOK, RespondGet, Checkpoints, Jobs, PCs
<1>3. ASSUME NEW w \in Workers, ClientGone(w) PROVE TypeOK'
    BY <1>3, FailType DEF ClientGone
<1>4. ASSUME NEW x \in Connectors, Connect(x) \/ Disconnect(x) PROVE TypeOK'
    BY <1>4 DEF TypeOK, Connect, Disconnect
<1>5. CASE Restart
    BY <1>5 DEF TypeOK, Restart, PCs
<1>6. CASE UNCHANGED vars
    BY <1>6 DEF TypeOK, vars
<1> QED
    BY <1>1, <1>2, <1>3, <1>4, <1>5, <1>6, HandlerStepType DEF Next

\* Every reachable state is typed.
THEOREM Typed == Spec => []TypeOK
BY TypeInit, TypeNext, PTL DEF Spec
-----------------------------------------------------------------------------
(* What a handler's step leaves alone.                                      *)

\* The primitive moves, pointwise.
LEMMA GotoEffect ==
    ASSUME TypeOK, NEW w \in Workers, NEW label, Goto(w, label)
    PROVE  pc'[w] = label /\ job' = job /\ \A v \in Workers : v # w => pc'[v] = pc[v]
BY DEF TypeOK, Goto

\* What a return does: one handler becomes idle, the others are unchanged.
LEMMA ReturnEffect ==
    ASSUME TypeOK, NEW w \in Workers, Return(w)
    PROVE  /\ pc'[w] = "idle"
           /\ \A v \in Workers : v # w => pc'[v] = pc[v] /\ job'[v] = job[v]
BY DEF TypeOK, Return

\* What Learn does: one call's evidence grows, the others' is unchanged.
LEMMA LearnEffect ==
    ASSUME TypeOK, NEW w \in Workers, pc[w] # "idle", NEW facts, Learn(w, facts)
    PROVE  /\ evidence'[Call(w)] = evidence[Call(w)] \union facts
           /\ \A c \in Calls : c # Call(w) => evidence'[c] = evidence[c]
BY BusyJob DEF TypeOK, Learn

\* What SetStatus does: one status of one row, nothing else.
LEMMA StatusEffect ==
    ASSUME TypeOK, NEW w \in Workers, pc[w] # "idle", NEW status, SetStatus(w, status)
    PROVE  /\ ckpt'[Call(w)].status = status
           /\ ckpt'[Call(w)].reason = ckpt[Call(w)].reason
           /\ ckpt'[Call(w)].resume_from = ckpt[Call(w)].resume_from
           /\ \A c \in Calls : c # Call(w) => ckpt'[c] = ckpt[c]
BY BusyJob DEF TypeOK, SetStatus, Checkpoints, Row

\* What Record does: no other call's audit rows change.
LEMMA RecordEffect ==
    ASSUME TypeOK, NEW c \in Calls, NEW rows, Record(c, rows)
    PROVE  \A d \in Calls : d # c => audit'[d] = audit[d]
BY DEF TypeOK, Record

\* A step of w leaves other handlers and other calls alone, and forgets nothing.
Frame(w) ==
    /\ \A v \in Workers : v # w => pc'[v] = pc[v] /\ job'[v] = job[v]
    /\ tool' = tool
    /\ \A c \in Calls : c # Call(w) =>
            /\ ckpt'[c] = ckpt[c] /\ executed'[c] = executed[c]
            /\ evidence'[c] = evidence[c] /\ audit'[c] = audit[c]
    /\ \A c \in Calls : evidence[c] \subseteq evidence'[c]

\* Every handler step is framed so.
LEMMA StepFrame ==
    ASSUME TypeOK, NEW w \in Workers, HandlerStep(w)
    PROVE  Frame(w)
<1>a. pc[w] # "idle"
    BY HandlersAreBusy
<1>b. Call(w) \in Calls
    BY <1>a, BusyJob
<1>c. \A fault : Fail(w, fault) => Frame(w)
    BY ReturnEffect DEF Fail, Frame, worldVars, callVars
<1>1. CASE Decide(w)
    BY <1>1, <1>a, <1>b, <1>c, GotoEffect, LearnEffect
       DEF Decide, Frame, worldVars, callVars
<1>2. CASE CredentialCheck(w)
    BY <1>2, <1>a, <1>b, <1>c, GotoEffect, LearnEffect, ReturnEffect
       DEF CredentialCheck, Frame, worldVars, callVars
<1>3. CASE SchemaCheck(w)
    BY <1>3, <1>a, <1>b, <1>c, GotoEffect, LearnEffect
       DEF SchemaCheck, Frame, worldVars
<1>4. CASE Dispatch(w)
    BY <1>4, <1>a, <1>b, GotoEffect, RecordEffect
       DEF Dispatch, ToolsCall, Runs, Succeeds, Fails, Conclude, Frame, worldVars, TypeOK
<1>5. CASE CreateCheckpoint(w)
    BY <1>5, <1>a, <1>b, <1>c, GotoEffect
       DEF CreateCheckpoint, Frame, worldVars, TypeOK
<1>6. CASE RePause(w)
    BY <1>6, <1>a, <1>b, <1>c, GotoEffect
       DEF RePause, Frame, worldVars, TypeOK
<1>7. CASE Claim(w)
    BY <1>7, <1>a, <1>b, <1>c, StatusEffect, LearnEffect, GotoEffect, ReturnEffect
       DEF Claim, TakeRow, Frame, worldVars, callVars
<1>8. CASE Deny(w)
    BY <1>8, <1>a, <1>b, <1>c, StatusEffect, GotoEffect
       DEF Deny, Frame, worldVars
<1>9. CASE Approve(w)
    BY <1>9, <1>a, <1>b, LearnEffect, GotoEffect
       DEF Approve, Frame, worldVars
<1>10. CASE Authenticate(w)
    BY <1>10, <1>a, <1>b, GotoEffect
       DEF Authenticate, Frame, worldVars, callVars
<1>11. CASE ProvideInput(w)
    BY <1>11, <1>a, <1>b, <1>c
       DEF ProvideInput, Frame, worldVars, TypeOK
<1>12. CASE LogAndResume(w)
    BY <1>12, <1>a, <1>b, GotoEffect, RecordEffect
       DEF LogAndResume, Frame, worldVars
<1>13. CASE Finalize(w)
    BY <1>13, <1>a, <1>b, <1>c, StatusEffect, GotoEffect
       DEF Finalize, Frame, worldVars
<1>14. CASE LogAndReturn(w)
    BY <1>14, <1>a, <1>b, ReturnEffect, RecordEffect
       DEF LogAndReturn, Frame, worldVars
<1> QED
    BY <1>1, <1>2, <1>3, <1>4, <1>5, <1>6, <1>7, <1>8, <1>9, <1>10, <1>11,
       <1>12, <1>13, <1>14 DEF HandlerStep

\* What every step of a handler w finds and keeps: the types, the frame, that
\* no other handler is at work on its call, and that facts stay established.
Setting(w) ==
    /\ TypeOK /\ TypeOK'
    /\ pc[w] # "idle" /\ Call(w) \in Calls
    /\ job[w] \in Jobs /\ Row(w) \in Checkpoints
    /\ \A v \in Workers : pc[v] # "idle" => Call(v) \in Calls
    /\ \A v \in Workers : v # w => Call(v)' = Call(v)
    /\ \A v \in Workers : v # w /\ Working(v) /\ Working(w) => Call(v) # Call(w)
    /\ Frame(w)
    /\ \A c \in Calls : Cleared(c) => Cleared(c)'
    /\ \A c \in Calls, reason \in Reasons : Established(c, reason) => Established(c, reason)'

\* The facts the proof of every action starts from.
LEMMA StepSetting ==
    ASSUME IInv, NEW w \in Workers, HandlerStep(w)
    PROVE  Setting(w)
<1>1. TypeOK /\ TypeOK'
    BY HandlerStepType DEF IInv
<1>2. /\ pc[w] # "idle" /\ Call(w) \in Calls
      /\ job[w] \in Jobs /\ Row(w) \in Checkpoints
    BY <1>1, HandlersAreBusy, BusyJob
<1>3. \A v \in Workers : pc[v] # "idle" => Call(v) \in Calls
    BY <1>1, BusyJob
<1>4. Frame(w)
    BY <1>1, StepFrame
<1>5. \A v \in Workers : v # w => Call(v)' = Call(v)
    BY <1>4 DEF Frame, Call
<1>6. \A v \in Workers : v # w /\ Working(v) /\ Working(w) => Call(v) # Call(w)
    BY DEF IInv, OneOwner
<1>7. \A c \in Calls : Cleared(c) => Cleared(c)'
    BY <1>4 DEF Frame, Cleared
<1>8. \A c \in Calls, reason \in Reasons : Established(c, reason) => Established(c, reason)'
    BY <1>4, <1>7 DEF Frame, Established
<1> QED
    BY <1>1, <1>2, <1>3, <1>4, <1>5, <1>6, <1>7, <1>8 DEF Setting
-----------------------------------------------------------------------------
(* The inductive invariant: one lemma per handler step, one for everything *)
(* else.                                                                   *)

\* A row taken by a claim, pointwise.
LEMMA TakeRowEffect ==
    ASSUME TypeOK, NEW w \in Workers, pc[w] # "idle", TakeRow(w)
    PROVE  /\ ckpt'[Call(w)].status = "processing"
           /\ ckpt'[Call(w)].reason = ckpt[Call(w)].reason
           /\ ckpt'[Call(w)].resume_from = ckpt[Call(w)].resume_from
           /\ IF job[w].action = "deny"
                THEN evidence'[Call(w)] = evidence[Call(w)] \union {"denied"}
                ELSE UNCHANGED evidence
           /\ UNCHANGED <<tool, executed, audit>>
BY StatusEffect, LearnEffect DEF TakeRow

\* The policy's verdict moves an intake on and records allowed or asked.
LEMMA DecideInv ==
    ASSUME IInv, NEW w \in Workers, Decide(w),
           \A fault : ~ Fail(w, fault)
    PROVE  IInv'
<1>1. Setting(w)
    BY StepSetting DEF HandlerStep
<1>2. /\ pc[w] = "decide" /\ job' = job
      /\ UNCHANGED <<tool, ckpt, executed, audit>>
      /\ \/ pc'[w] = "blocked" /\ UNCHANGED evidence
         \/ /\ pc'[w] = "approval_required"
            /\ evidence'[Call(w)] = evidence[Call(w)] \union {"asked"}
         \/ /\ pc'[w] = "credential_check"
            /\ evidence'[Call(w)] = evidence[Call(w)] \union {"allowed"}
    BY <1>1, GotoEffect, LearnEffect DEF Decide, callVars, Setting
<1>3. \A v \in Workers : v # w /\ Working(v) => Call(v) # Call(w)
    BY <1>1, <1>2 DEF Setting, Working, HumanRows, FinalRows, Reasons, Steps
<1> USE DEF IInv, Setting, Frame, Call, TypeOK, Working, HumanRows, FinalRows, Reasons,
           Steps
<1>4. FreshCalls'
    BY <1>1, <1>2, <1>3 DEF FreshCalls, RowsMatchHandlers, Intake, Responding, Row
<1>5. RowsMatchHandlers'
    BY <1>1, <1>2, <1>3 DEF RowsMatchHandlers, Intake, Responding, Row
<1>6. PositionsMatchRequests'
    BY <1>1, <1>2, <1>3 DEF PositionsMatchRequests, IntakeOnly, ResponseOnly
<1>7. OneOwner'
    BY <1>1, <1>2, <1>3 DEF OneOwner, RowsMatchHandlers, Intake, Responding, Row
<1>8. AtMostOnce'
    BY <1>1, <1>2, <1>3 DEF AtMostOnce, RunsAreOver, Row
<1>9. RunsAreOver'
    BY <1>1, <1>2, <1>3
       DEF RunsAreOver, AtMostOnce, Row, RowsMatchHandlers, Intake, Responding
<1>10. DenialsHold'
    BY <1>1, <1>2, <1>3
       DEF DenialsHold, PositionsMatchRequests, RunsAreOver, AtMostOnce, Row,
           RowsMatchHandlers, Intake, Responding
<1>11. RowsAreEarned'
    BY <1>1, <1>2, <1>3
       DEF RowsAreEarned, Established, ResumeFrom, PositionsMatchRequests, IntakeOnly,
           ResponseOnly, PositionsAreEarned, ClearedPCs, VerifiedPCs, Cleared,
           ExpectedAction, RowsMatchHandlers, Intake, Responding, Row, FreshCalls
<1>12. SnapshotsAreEarned'
    BY <1>1, <1>2, <1>3
       DEF SnapshotsAreEarned, PositionsMatchRequests, ExpectedAction, RowsAreEarned,
           Established, ResumeFrom, IntakeOnly, ResponseOnly
<1>13. PositionsAreEarned'
    BY <1>1, <1>2, <1>3
       DEF PositionsAreEarned, PositionsMatchRequests, ClearedPCs, VerifiedPCs,
           Established, Cleared, ResumeFrom, ExpectedAction, SnapshotsAreEarned
<1>14. NoCheckSkipped'
    BY <1>1, <1>2, <1>3
       DEF NoCheckSkipped, PositionsAreEarned, PositionsMatchRequests, ClearedPCs,
           VerifiedPCs, Established, Cleared, ResumeFrom, ExpectedAction
<1> QED
    BY <1>1, <1>4, <1>5, <1>6, <1>7, <1>8, <1>9, <1>10, <1>11, <1>12, <1>13, <1>14

\* The credential check is reached cleared, and only a live credential passes it.
LEMMA CredentialCheckInv ==
    ASSUME IInv, NEW w \in Workers, CredentialCheck(w),
           \A fault : ~ Fail(w, fault)
    PROVE  IInv'
<1>1. Setting(w)
    BY StepSetting DEF HandlerStep
<1>2. /\ pc[w] = "credential_check"
      /\ UNCHANGED <<tool, ckpt, executed, audit>>
      /\ \/ pc'[w] = "idle" /\ UNCHANGED evidence
         \/ pc'[w] = "auth_required" /\ job' = job /\ UNCHANGED evidence
         \/ /\ pc'[w] = "schema_check" /\ job' = job
            /\ evidence'[Call(w)] = evidence[Call(w)] \union {"credential"}
    BY <1>1, GotoEffect, LearnEffect, ReturnEffect
       DEF CredentialCheck, callVars, Setting
<1>3. \A v \in Workers : v # w /\ Working(v) => Call(v) # Call(w)
    BY <1>1, <1>2 DEF Setting, Working, HumanRows, FinalRows, Reasons, Steps
<1> USE DEF IInv, Setting, Frame, Call, TypeOK, Working, HumanRows, FinalRows, Reasons,
           Steps
<1>4. FreshCalls'
    BY <1>1, <1>2, <1>3 DEF FreshCalls, RowsMatchHandlers, Intake, Responding, Row
<1>5. RowsMatchHandlers'
    BY <1>1, <1>2, <1>3 DEF RowsMatchHandlers, Intake, Responding, Row
<1>6. PositionsMatchRequests'
    BY <1>1, <1>2, <1>3 DEF PositionsMatchRequests, IntakeOnly, ResponseOnly
<1>7. OneOwner'
    BY <1>1, <1>2, <1>3 DEF OneOwner, RowsMatchHandlers, Intake, Responding, Row
<1>8. AtMostOnce'
    BY <1>1, <1>2, <1>3 DEF AtMostOnce, RunsAreOver, Row
<1>9. RunsAreOver'
    BY <1>1, <1>2, <1>3
       DEF RunsAreOver, AtMostOnce, Row, RowsMatchHandlers, Intake, Responding
<1>10. DenialsHold'
    BY <1>1, <1>2, <1>3
       DEF DenialsHold, PositionsMatchRequests, RunsAreOver, AtMostOnce, Row,
           RowsMatchHandlers, Intake, Responding
<1>11. RowsAreEarned'
    BY <1>1, <1>2, <1>3
       DEF RowsAreEarned, Established, ResumeFrom, PositionsMatchRequests, IntakeOnly,
           ResponseOnly, PositionsAreEarned, ClearedPCs, VerifiedPCs, Cleared,
           ExpectedAction, RowsMatchHandlers, Intake, Responding, Row, FreshCalls
<1>12. SnapshotsAreEarned'
    BY <1>1, <1>2, <1>3
       DEF SnapshotsAreEarned, PositionsMatchRequests, ExpectedAction, RowsAreEarned,
           Established, ResumeFrom, IntakeOnly, ResponseOnly
<1>13. PositionsAreEarned'
    BY <1>1, <1>2, <1>3
       DEF PositionsAreEarned, PositionsMatchRequests, ClearedPCs, VerifiedPCs,
           Established, Cleared, ResumeFrom, ExpectedAction, SnapshotsAreEarned
<1>14. NoCheckSkipped'
    BY <1>1, <1>2, <1>3
       DEF NoCheckSkipped, PositionsAreEarned, PositionsMatchRequests, ClearedPCs,
           VerifiedPCs, Established, Cleared, ResumeFrom, ExpectedAction
<1> QED
    BY <1>1, <1>4, <1>5, <1>6, <1>7, <1>8, <1>9, <1>10, <1>11, <1>12, <1>13, <1>14

\* The schema check passes complete arguments on, and pauses the rest.
LEMMA SchemaCheckInv ==
    ASSUME IInv, NEW w \in Workers, SchemaCheck(w),
           \A fault : ~ Fail(w, fault)
    PROVE  IInv'
<1>1. Setting(w)
    BY StepSetting DEF HandlerStep
<1>2. /\ pc[w] = "schema_check" /\ job' = job
      /\ UNCHANGED <<tool, ckpt, executed, audit>>
      /\ \/ pc'[w] = "input_required" /\ UNCHANGED evidence
         \/ /\ pc'[w] = "dispatch"
            /\ evidence'[Call(w)] = evidence[Call(w)] \union {"schema"}
    BY <1>1, GotoEffect, LearnEffect DEF SchemaCheck, Setting
<1>3. \A v \in Workers : v # w /\ Working(v) => Call(v) # Call(w)
    BY <1>1, <1>2 DEF Setting, Working, HumanRows, FinalRows, Reasons, Steps
<1> USE DEF IInv, Setting, Frame, Call, TypeOK, Working, HumanRows, FinalRows, Reasons,
           Steps
<1>4. FreshCalls'
    BY <1>1, <1>2, <1>3 DEF FreshCalls, RowsMatchHandlers, Intake, Responding, Row
<1>5. RowsMatchHandlers'
    BY <1>1, <1>2, <1>3 DEF RowsMatchHandlers, Intake, Responding, Row
<1>6. PositionsMatchRequests'
    BY <1>1, <1>2, <1>3 DEF PositionsMatchRequests, IntakeOnly, ResponseOnly
<1>7. OneOwner'
    BY <1>1, <1>2, <1>3 DEF OneOwner, RowsMatchHandlers, Intake, Responding, Row
<1>8. AtMostOnce'
    BY <1>1, <1>2, <1>3 DEF AtMostOnce, RunsAreOver, Row
<1>9. RunsAreOver'
    BY <1>1, <1>2, <1>3
       DEF RunsAreOver, AtMostOnce, Row, RowsMatchHandlers, Intake, Responding
<1>10. DenialsHold'
    BY <1>1, <1>2, <1>3
       DEF DenialsHold, PositionsMatchRequests, RunsAreOver, AtMostOnce, Row,
           RowsMatchHandlers, Intake, Responding
<1>11. RowsAreEarned'
    BY <1>1, <1>2, <1>3
       DEF RowsAreEarned, Established, ResumeFrom, PositionsMatchRequests, IntakeOnly,
           ResponseOnly, PositionsAreEarned, ClearedPCs, VerifiedPCs, Cleared,
           ExpectedAction, RowsMatchHandlers, Intake, Responding, Row, FreshCalls
<1>12. SnapshotsAreEarned'
    BY <1>1, <1>2, <1>3
       DEF SnapshotsAreEarned, PositionsMatchRequests, ExpectedAction, RowsAreEarned,
           Established, ResumeFrom, IntakeOnly, ResponseOnly
<1>13. PositionsAreEarned'
    BY <1>1, <1>2, <1>3
       DEF PositionsAreEarned, PositionsMatchRequests, ClearedPCs, VerifiedPCs,
           Established, Cleared, ResumeFrom, ExpectedAction, SnapshotsAreEarned
<1>14. NoCheckSkipped'
    BY <1>1, <1>2, <1>3
       DEF NoCheckSkipped, PositionsAreEarned, PositionsMatchRequests, ClearedPCs,
           VerifiedPCs, Established, Cleared, ResumeFrom, ExpectedAction
<1> QED
    BY <1>1, <1>4, <1>5, <1>6, <1>7, <1>8, <1>9, <1>10, <1>11, <1>12, <1>13, <1>14

\* The tool runs here only, under the one handler at work on its call.
LEMMA DispatchInv ==
    ASSUME IInv, NEW w \in Workers, Dispatch(w)
    PROVE  IInv'
<1>1. Setting(w)
    BY StepSetting DEF HandlerStep
<1>2. /\ pc[w] = "dispatch" /\ job' = job
      /\ UNCHANGED <<tool, ckpt, evidence>>
      /\ IF job[w].action = "act"
           THEN pc'[w] \in {"success", "failed"}
           ELSE pc'[w] \in {"finalize_resolved", "finalize_failed"}
      /\ executed'[Call(w)] \in {executed[Call(w)], executed[Call(w)] + 1}
    BY <1>1, GotoEffect
       DEF Dispatch, ToolsCall, Runs, Succeeds, Fails, Conclude, TypeOK, Setting
<1>3. \A v \in Workers : v # w /\ Working(v) => Call(v) # Call(w)
    BY <1>1, <1>2 DEF Setting, Working, HumanRows, FinalRows, Reasons, Steps
<1> USE DEF IInv, Setting, Frame, Call, TypeOK, Working, HumanRows, FinalRows, Reasons,
           Steps
<1>4. FreshCalls'
    BY <1>1, <1>2, <1>3 DEF FreshCalls, RowsMatchHandlers, Intake, Responding, Row
<1>5. RowsMatchHandlers'
    BY <1>1, <1>2, <1>3 DEF RowsMatchHandlers, Intake, Responding, Row
<1>6. PositionsMatchRequests'
    BY <1>1, <1>2, <1>3 DEF PositionsMatchRequests, IntakeOnly, ResponseOnly
<1>7. OneOwner'
    BY <1>1, <1>2, <1>3 DEF OneOwner, RowsMatchHandlers, Intake, Responding, Row
<1>8. AtMostOnce'
    BY <1>1, <1>2, <1>3 DEF AtMostOnce, RunsAreOver, Row
<1>9. RunsAreOver'
    BY <1>1, <1>2, <1>3
       DEF RunsAreOver, AtMostOnce, Row, RowsMatchHandlers, Intake, Responding
<1>10. DenialsHold'
    BY <1>1, <1>2, <1>3
       DEF DenialsHold, PositionsMatchRequests, RunsAreOver, AtMostOnce, Row,
           RowsMatchHandlers, Intake, Responding
<1>11. RowsAreEarned'
    BY <1>1, <1>2, <1>3
       DEF RowsAreEarned, Established, ResumeFrom, PositionsMatchRequests, IntakeOnly,
           ResponseOnly, PositionsAreEarned, ClearedPCs, VerifiedPCs, Cleared,
           ExpectedAction, RowsMatchHandlers, Intake, Responding, Row, FreshCalls
<1>12. SnapshotsAreEarned'
    BY <1>1, <1>2, <1>3
       DEF SnapshotsAreEarned, PositionsMatchRequests, ExpectedAction, RowsAreEarned,
           Established, ResumeFrom, IntakeOnly, ResponseOnly
<1>13. PositionsAreEarned'
    BY <1>1, <1>2, <1>3
       DEF PositionsAreEarned, PositionsMatchRequests, ClearedPCs, VerifiedPCs,
           Established, Cleared, ResumeFrom, ExpectedAction, SnapshotsAreEarned
<1>14. NoCheckSkipped'
    BY <1>1, <1>2, <1>3
       DEF NoCheckSkipped, PositionsAreEarned, PositionsMatchRequests, ClearedPCs,
           VerifiedPCs, Established, Cleared, ResumeFrom, ExpectedAction
<1> QED
    BY <1>1, <1>4, <1>5, <1>6, <1>7, <1>8, <1>9, <1>10, <1>11, <1>12, <1>13, <1>14

\* A first pause gives the call its row, with the facts its reason stands for.
LEMMA CreateCheckpointInv ==
    ASSUME IInv, NEW w \in Workers, CreateCheckpoint(w),
           \A fault : ~ Fail(w, fault)
    PROVE  IInv'
<1>1. Setting(w)
    BY StepSetting DEF HandlerStep
<1>2. /\ pc[w] \in Reasons /\ job[w].action = "act"
      /\ pc'[w] = "paused" /\ job' = job
      /\ UNCHANGED <<tool, executed, audit, evidence>>
      /\ /\ ckpt'[Call(w)].status = "pending" /\ ckpt'[Call(w)].reason = pc[w]
         /\ ckpt'[Call(w)].resume_from = ResumeFrom(pc[w])
    BY <1>1, GotoEffect DEF CreateCheckpoint, TypeOK, Setting
<1>3. \A v \in Workers : v # w /\ Working(v) => Call(v) # Call(w)
    BY <1>1, <1>2 DEF Setting, Working, HumanRows, FinalRows, Reasons, Steps
<1> USE DEF IInv, Setting, Frame, Call, TypeOK, Working, HumanRows, FinalRows, Reasons,
           Steps
<1>4. FreshCalls'
    BY <1>1, <1>2, <1>3 DEF FreshCalls, RowsMatchHandlers, Intake, Responding, Row
<1>5. RowsMatchHandlers'
    BY <1>1, <1>2, <1>3 DEF RowsMatchHandlers, Intake, Responding, Row
<1>6. PositionsMatchRequests'
    BY <1>1, <1>2, <1>3 DEF PositionsMatchRequests, IntakeOnly, ResponseOnly
<1>7. OneOwner'
    BY <1>1, <1>2, <1>3 DEF OneOwner, RowsMatchHandlers, Intake, Responding, Row
<1>8. AtMostOnce'
    BY <1>1, <1>2, <1>3 DEF AtMostOnce, RunsAreOver, Row
<1>9. RunsAreOver'
    BY <1>1, <1>2, <1>3
       DEF RunsAreOver, AtMostOnce, Row, RowsMatchHandlers, Intake, Responding
<1>10. DenialsHold'
    BY <1>1, <1>2, <1>3
       DEF DenialsHold, PositionsMatchRequests, RunsAreOver, AtMostOnce, Row,
           RowsMatchHandlers, Intake, Responding
<1>11. RowsAreEarned'
    BY <1>1, <1>2, <1>3
       DEF RowsAreEarned, Established, ResumeFrom, PositionsMatchRequests, IntakeOnly,
           ResponseOnly, PositionsAreEarned, ClearedPCs, VerifiedPCs, Cleared,
           ExpectedAction, RowsMatchHandlers, Intake, Responding, Row, FreshCalls
<1>12. SnapshotsAreEarned'
    BY <1>1, <1>2, <1>3
       DEF SnapshotsAreEarned, PositionsMatchRequests, ExpectedAction, RowsAreEarned,
           Established, ResumeFrom, IntakeOnly, ResponseOnly
<1>13. PositionsAreEarned'
    BY <1>1, <1>2, <1>3
       DEF PositionsAreEarned, PositionsMatchRequests, ClearedPCs, VerifiedPCs,
           Established, Cleared, ResumeFrom, ExpectedAction, SnapshotsAreEarned
<1>14. NoCheckSkipped'
    BY <1>1, <1>2, <1>3
       DEF NoCheckSkipped, PositionsAreEarned, PositionsMatchRequests, ClearedPCs,
           VerifiedPCs, Established, Cleared, ResumeFrom, ExpectedAction
<1> QED
    BY <1>1, <1>4, <1>5, <1>6, <1>7, <1>8, <1>9, <1>10, <1>11, <1>12, <1>13, <1>14

\* A resumed call that pauses again returns its row, with the new reason earned.
LEMMA RePauseInv ==
    ASSUME IInv, NEW w \in Workers, RePause(w),
           \A fault : ~ Fail(w, fault)
    PROVE  IInv'
<1>1. Setting(w)
    BY StepSetting DEF HandlerStep
<1>2. LET row == [Row(w) EXCEPT !.status = "pending", !.reason = pc[w],
                                !.resume_from = ResumeFrom(pc[w])]
      IN  /\ row.status = "pending" /\ row.reason = pc[w]
          /\ row.resume_from = ResumeFrom(pc[w])
    BY <1>1 DEF Setting, Checkpoints
<1>3. /\ pc[w] \in Reasons /\ job[w].action # "act"
      /\ pc'[w] = "re_paused" /\ job' = job
      /\ UNCHANGED <<tool, executed, audit, evidence>>
    BY <1>1, GotoEffect DEF RePause, Setting
<1>4. /\ ckpt'[Call(w)].status = "pending" /\ ckpt'[Call(w)].reason = pc[w]
      /\ ckpt'[Call(w)].resume_from = ResumeFrom(pc[w])
    BY <1>1, <1>2 DEF RePause, TypeOK, Row, Setting
<1>5. \A v \in Workers : v # w /\ Working(v) => Call(v) # Call(w)
    BY <1>1, <1>3 DEF Setting, Working, HumanRows, FinalRows, Reasons, Steps
<1> USE DEF IInv, Setting, Frame, Call, TypeOK, Working, HumanRows, FinalRows, Reasons,
           Steps
<1>6. FreshCalls'
    BY <1>1, <1>3, <1>4, <1>5
       DEF FreshCalls, RowsMatchHandlers, Intake, Responding, Row
<1>7. RowsMatchHandlers'
    BY <1>1, <1>3, <1>4, <1>5 DEF RowsMatchHandlers, Intake, Responding, Row
<1>8. PositionsMatchRequests'
    BY <1>1, <1>3, <1>4, <1>5 DEF PositionsMatchRequests, IntakeOnly, ResponseOnly
<1>9. OneOwner'
    BY <1>1, <1>3, <1>4, <1>5
       DEF OneOwner, RowsMatchHandlers, Intake, Responding, Row
<1>10. AtMostOnce'
    BY <1>1, <1>3, <1>4, <1>5 DEF AtMostOnce, RunsAreOver, Row
<1>11. RunsAreOver'
    BY <1>1, <1>3, <1>4, <1>5
       DEF RunsAreOver, AtMostOnce, Row, RowsMatchHandlers, Intake, Responding
<1>12. DenialsHold'
    BY <1>1, <1>3, <1>4, <1>5
       DEF DenialsHold, PositionsMatchRequests, RunsAreOver, AtMostOnce, Row,
           RowsMatchHandlers, Intake, Responding
<1>13. RowsAreEarned'
    BY <1>1, <1>3, <1>4, <1>5
       DEF RowsAreEarned, Established, ResumeFrom, PositionsMatchRequests, IntakeOnly,
           ResponseOnly, PositionsAreEarned, ClearedPCs, VerifiedPCs, Cleared,
           ExpectedAction, RowsMatchHandlers, Intake, Responding, Row, FreshCalls
<1>14. SnapshotsAreEarned'
    BY <1>1, <1>3, <1>4, <1>5
       DEF SnapshotsAreEarned, PositionsMatchRequests, ExpectedAction, RowsAreEarned,
           Established, ResumeFrom, IntakeOnly, ResponseOnly
<1>15. PositionsAreEarned'
    BY <1>1, <1>3, <1>4, <1>5
       DEF PositionsAreEarned, PositionsMatchRequests, ClearedPCs, VerifiedPCs,
           Established, Cleared, ResumeFrom, ExpectedAction, SnapshotsAreEarned
<1>16. NoCheckSkipped'
    BY <1>1, <1>3, <1>4, <1>5
       DEF NoCheckSkipped, PositionsAreEarned, PositionsMatchRequests, ClearedPCs,
           VerifiedPCs, Established, Cleared, ResumeFrom, ExpectedAction
<1> QED
    BY <1>1, <1>6, <1>7, <1>8, <1>9, <1>10, <1>11, <1>12, <1>13, <1>14, <1>15, <1>16

\* Only a claim on a pending row takes it, and then nobody else is at work on it.
LEMMA ClaimInv ==
    ASSUME IInv, NEW w \in Workers, Claim(w),
           \A fault : ~ Fail(w, fault)
    PROVE  IInv'
<1>1. Setting(w)
    BY StepSetting DEF HandlerStep
<1>2. pc[w] = "claim" /\ UNCHANGED <<tool, executed, audit>>
    BY DEF Claim, TakeRow, callVars
<1>3. TakeRow(w) =>
        /\ ckpt'[Call(w)].status = "processing"
        /\ ckpt'[Call(w)].reason = Row(w).reason
        /\ ckpt'[Call(w)].resume_from = Row(w).resume_from
        /\ IF job[w].action = "deny"
             THEN evidence'[Call(w)] = evidence[Call(w)] \union {"denied"}
             ELSE UNCHANGED evidence
    BY <1>1, TakeRowEffect DEF Setting, Row
<1>4. /\ Goto(w, "apply") => pc'[w] = "apply" /\ job' = job
      /\ Return(w) => pc'[w] = "idle"
    BY <1>1, GotoEffect, ReturnEffect DEF Setting
<1>5. \/ Return(w) /\ UNCHANGED <<ckpt, evidence>>
      \/ /\ TakeRow(w) /\ Row(w).status = "pending"
         /\ Goto(w, "apply") \/ Return(w)
    BY DEF Claim, callVars
<1>6. pc'[w] = "idle" \/ (pc'[w] = "apply" /\ job' = job)
    BY <1>4, <1>5
<1>7. \/ pc'[w] = "idle" /\ UNCHANGED <<ckpt, evidence>>
      \/ /\ Row(w).status = "pending" /\ ckpt'[Call(w)].status = "processing"
         /\ ckpt'[Call(w)].reason = Row(w).reason
         /\ ckpt'[Call(w)].resume_from = Row(w).resume_from
         /\ IF job[w].action = "deny"
              THEN evidence'[Call(w)] = evidence[Call(w)] \union {"denied"}
              ELSE UNCHANGED evidence
    BY <1>3, <1>4, <1>5
<1>8. Row(w).status = "pending" =>
        \A v \in Workers : v # w /\ Working(v) => Call(v) # Call(w)
    BY <1>1, <1>2 DEF IInv, Setting, RowsMatchHandlers, Intake, Responding, Working, Row
<1>9. \A v \in Workers \ {w} : pc[v] # "idle" =>
        /\ tool[Call(v)] # NoTool
        /\ Intake(v) => ckpt'[Call(v)].status = "absent"
        /\ Responding(v) => ckpt'[Call(v)].status = "processing"
        /\ pc[v] = "claim" => ckpt'[Call(v)].status # "absent"
    BY <1>1, <1>2, <1>7, <1>8
       DEF IInv, Setting, Frame, RowsMatchHandlers, Intake, Responding, Row
<1> USE DEF IInv, Setting, Frame, Call, TypeOK, Working, HumanRows, FinalRows, Reasons,
           Steps
<1>10. FreshCalls'
    BY <1>1, <1>2, <1>6, <1>7, <1>8
       DEF FreshCalls, RowsMatchHandlers, Intake, Responding, Row
<1>11. RowsMatchHandlers'
    BY <1>1, <1>2, <1>6, <1>7, <1>8, <1>9
       DEF RowsMatchHandlers, Intake, Responding, Row, PositionsMatchRequests,
           ResponseOnly
<1>12. PositionsMatchRequests'
    BY <1>1, <1>2, <1>6, <1>7, <1>8
       DEF PositionsMatchRequests, IntakeOnly, ResponseOnly
<1>13. OneOwner'
    BY <1>1, <1>2, <1>6, <1>7, <1>8
       DEF OneOwner, RowsMatchHandlers, Intake, Responding, Row
<1>14. AtMostOnce'
    BY <1>1, <1>2, <1>6, <1>7, <1>8 DEF AtMostOnce, RunsAreOver, Row
<1>15. RunsAreOver'
    BY <1>1, <1>2, <1>6, <1>7, <1>8
       DEF RunsAreOver, AtMostOnce, Row, RowsMatchHandlers, Intake, Responding
<1>16. DenialsHold'
    BY <1>1, <1>2, <1>6, <1>7, <1>8
       DEF DenialsHold, PositionsMatchRequests, RunsAreOver, AtMostOnce, Row,
           RowsMatchHandlers, Intake, Responding
<1>17. RowsAreEarned'
    BY <1>1, <1>2, <1>6, <1>7, <1>8
       DEF RowsAreEarned, Established, ResumeFrom, PositionsMatchRequests, IntakeOnly,
           ResponseOnly, PositionsAreEarned, ClearedPCs, VerifiedPCs, Cleared,
           ExpectedAction, RowsMatchHandlers, Intake, Responding, Row, FreshCalls
<1>18. SnapshotsAreEarned'
    BY <1>1, <1>2, <1>6, <1>7, <1>8
       DEF SnapshotsAreEarned, PositionsMatchRequests, ExpectedAction, RowsAreEarned,
           Established, ResumeFrom, IntakeOnly, ResponseOnly
<1>19. PositionsAreEarned'
    BY <1>1, <1>2, <1>6, <1>7, <1>8
       DEF PositionsAreEarned, PositionsMatchRequests, ClearedPCs, VerifiedPCs,
           Established, Cleared, ResumeFrom, ExpectedAction, SnapshotsAreEarned
<1>20. NoCheckSkipped'
    BY <1>1, <1>2, <1>6, <1>7, <1>8
       DEF NoCheckSkipped, PositionsAreEarned, PositionsMatchRequests, ClearedPCs,
           VerifiedPCs, Established, Cleared, ResumeFrom, ExpectedAction
<1> QED
    BY <1>1, <1>10, <1>11, <1>12, <1>13, <1>14, <1>15, <1>16, <1>17, <1>18, <1>19,
       <1>20

\* A denial ends the row and nothing else.
LEMMA DenyInv ==
    ASSUME IInv, NEW w \in Workers, Deny(w),
           \A fault : ~ Fail(w, fault)
    PROVE  IInv'
<1>1. Setting(w)
    BY StepSetting DEF HandlerStep
<1>2. /\ pc[w] = "apply" /\ job[w].action = "deny"
      /\ pc'[w] = "denied" /\ job' = job
      /\ UNCHANGED <<tool, executed, audit, evidence>>
      /\ /\ ckpt'[Call(w)].status = "denied"
         /\ ckpt'[Call(w)].reason = ckpt[Call(w)].reason
         /\ ckpt'[Call(w)].resume_from = ckpt[Call(w)].resume_from
    BY <1>1, GotoEffect, StatusEffect DEF Deny, Setting
<1>3. \A v \in Workers : v # w /\ Working(v) => Call(v) # Call(w)
    BY <1>1, <1>2 DEF Setting, Working, HumanRows, FinalRows, Reasons, Steps
<1> USE DEF IInv, Setting, Frame, Call, TypeOK, Working, HumanRows, FinalRows, Reasons,
           Steps
<1>4. FreshCalls'
    BY <1>1, <1>2, <1>3 DEF FreshCalls, RowsMatchHandlers, Intake, Responding, Row
<1>5. RowsMatchHandlers'
    BY <1>1, <1>2, <1>3 DEF RowsMatchHandlers, Intake, Responding, Row
<1>6. PositionsMatchRequests'
    BY <1>1, <1>2, <1>3 DEF PositionsMatchRequests, IntakeOnly, ResponseOnly
<1>7. OneOwner'
    BY <1>1, <1>2, <1>3 DEF OneOwner, RowsMatchHandlers, Intake, Responding, Row
<1>8. AtMostOnce'
    BY <1>1, <1>2, <1>3 DEF AtMostOnce, RunsAreOver, Row
<1>9. RunsAreOver'
    BY <1>1, <1>2, <1>3
       DEF RunsAreOver, AtMostOnce, Row, RowsMatchHandlers, Intake, Responding
<1>10. DenialsHold'
    BY <1>1, <1>2, <1>3
       DEF DenialsHold, PositionsMatchRequests, RunsAreOver, AtMostOnce, Row,
           RowsMatchHandlers, Intake, Responding
<1>11. RowsAreEarned'
    BY <1>1, <1>2, <1>3
       DEF RowsAreEarned, Established, ResumeFrom, PositionsMatchRequests, IntakeOnly,
           ResponseOnly, PositionsAreEarned, ClearedPCs, VerifiedPCs, Cleared,
           ExpectedAction, RowsMatchHandlers, Intake, Responding, Row, FreshCalls
<1>12. SnapshotsAreEarned'
    BY <1>1, <1>2, <1>3
       DEF SnapshotsAreEarned, PositionsMatchRequests, ExpectedAction, RowsAreEarned,
           Established, ResumeFrom, IntakeOnly, ResponseOnly
<1>13. PositionsAreEarned'
    BY <1>1, <1>2, <1>3
       DEF PositionsAreEarned, PositionsMatchRequests, ClearedPCs, VerifiedPCs,
           Established, Cleared, ResumeFrom, ExpectedAction, SnapshotsAreEarned
<1>14. NoCheckSkipped'
    BY <1>1, <1>2, <1>3
       DEF NoCheckSkipped, PositionsAreEarned, PositionsMatchRequests, ClearedPCs,
           VerifiedPCs, Established, Cleared, ResumeFrom, ExpectedAction
<1> QED
    BY <1>1, <1>4, <1>5, <1>6, <1>7, <1>8, <1>9, <1>10, <1>11, <1>12, <1>13, <1>14

\* An approval answers a row that asked, so the call is cleared from here on.
LEMMA ApproveInv ==
    ASSUME IInv, NEW w \in Workers, Approve(w)
    PROVE  IInv'
<1>1. Setting(w)
    BY StepSetting DEF HandlerStep
<1>2. /\ pc[w] = "apply" /\ job[w].action = "approve"
      /\ pc'[w] = "approved" /\ job' = job
      /\ UNCHANGED <<tool, ckpt, executed, audit>>
      /\ evidence'[Call(w)] = evidence[Call(w)] \union {"approved"}
    BY <1>1, GotoEffect, LearnEffect DEF Approve, Setting
<1>3. \A v \in Workers : v # w /\ Working(v) => Call(v) # Call(w)
    BY <1>1, <1>2 DEF Setting, Working, HumanRows, FinalRows, Reasons, Steps
<1> USE DEF IInv, Setting, Frame, Call, TypeOK, Working, HumanRows, FinalRows, Reasons,
           Steps
<1>4. FreshCalls'
    BY <1>1, <1>2, <1>3 DEF FreshCalls, RowsMatchHandlers, Intake, Responding, Row
<1>5. RowsMatchHandlers'
    BY <1>1, <1>2, <1>3 DEF RowsMatchHandlers, Intake, Responding, Row
<1>6. PositionsMatchRequests'
    BY <1>1, <1>2, <1>3 DEF PositionsMatchRequests, IntakeOnly, ResponseOnly
<1>7. OneOwner'
    BY <1>1, <1>2, <1>3 DEF OneOwner, RowsMatchHandlers, Intake, Responding, Row
<1>8. AtMostOnce'
    BY <1>1, <1>2, <1>3 DEF AtMostOnce, RunsAreOver, Row
<1>9. RunsAreOver'
    BY <1>1, <1>2, <1>3
       DEF RunsAreOver, AtMostOnce, Row, RowsMatchHandlers, Intake, Responding
<1>10. DenialsHold'
    BY <1>1, <1>2, <1>3
       DEF DenialsHold, PositionsMatchRequests, RunsAreOver, AtMostOnce, Row,
           RowsMatchHandlers, Intake, Responding
<1>11. RowsAreEarned'
    BY <1>1, <1>2, <1>3
       DEF RowsAreEarned, Established, ResumeFrom, PositionsMatchRequests, IntakeOnly,
           ResponseOnly, PositionsAreEarned, ClearedPCs, VerifiedPCs, Cleared,
           ExpectedAction, RowsMatchHandlers, Intake, Responding, Row, FreshCalls
<1>12. SnapshotsAreEarned'
    BY <1>1, <1>2, <1>3
       DEF SnapshotsAreEarned, PositionsMatchRequests, ExpectedAction, RowsAreEarned,
           Established, ResumeFrom, IntakeOnly, ResponseOnly
<1>13. PositionsAreEarned'
    BY <1>1, <1>2, <1>3
       DEF PositionsAreEarned, PositionsMatchRequests, ClearedPCs, VerifiedPCs,
           Established, Cleared, ResumeFrom, ExpectedAction, SnapshotsAreEarned
<1>14. NoCheckSkipped'
    BY <1>1, <1>2, <1>3
       DEF NoCheckSkipped, PositionsAreEarned, PositionsMatchRequests, ClearedPCs,
           VerifiedPCs, Established, Cleared, ResumeFrom, ExpectedAction
<1> QED
    BY <1>1, <1>4, <1>5, <1>6, <1>7, <1>8, <1>9, <1>10, <1>11, <1>12, <1>13, <1>14

\* An authenticate response touches the credential store only.
LEMMA AuthenticateInv ==
    ASSUME IInv, NEW w \in Workers, Authenticate(w)
    PROVE  IInv'
<1>1. Setting(w)
    BY StepSetting DEF HandlerStep
<1>2. /\ pc[w] = "apply" /\ job[w].action = "authenticate"
      /\ pc'[w] = "authenticated" /\ job' = job
      /\ UNCHANGED <<tool, ckpt, executed, audit, evidence>>
    BY <1>1, GotoEffect DEF Authenticate, callVars, Setting
<1>3. \A v \in Workers : v # w /\ Working(v) => Call(v) # Call(w)
    BY <1>1, <1>2 DEF Setting, Working, HumanRows, FinalRows, Reasons, Steps
<1> USE DEF IInv, Setting, Frame, Call, TypeOK, Working, HumanRows, FinalRows, Reasons,
           Steps
<1>4. FreshCalls'
    BY <1>1, <1>2, <1>3 DEF FreshCalls, RowsMatchHandlers, Intake, Responding, Row
<1>5. RowsMatchHandlers'
    BY <1>1, <1>2, <1>3 DEF RowsMatchHandlers, Intake, Responding, Row
<1>6. PositionsMatchRequests'
    BY <1>1, <1>2, <1>3 DEF PositionsMatchRequests, IntakeOnly, ResponseOnly
<1>7. OneOwner'
    BY <1>1, <1>2, <1>3 DEF OneOwner, RowsMatchHandlers, Intake, Responding, Row
<1>8. AtMostOnce'
    BY <1>1, <1>2, <1>3 DEF AtMostOnce, RunsAreOver, Row
<1>9. RunsAreOver'
    BY <1>1, <1>2, <1>3
       DEF RunsAreOver, AtMostOnce, Row, RowsMatchHandlers, Intake, Responding
<1>10. DenialsHold'
    BY <1>1, <1>2, <1>3
       DEF DenialsHold, PositionsMatchRequests, RunsAreOver, AtMostOnce, Row,
           RowsMatchHandlers, Intake, Responding
<1>11. RowsAreEarned'
    BY <1>1, <1>2, <1>3
       DEF RowsAreEarned, Established, ResumeFrom, PositionsMatchRequests, IntakeOnly,
           ResponseOnly, PositionsAreEarned, ClearedPCs, VerifiedPCs, Cleared,
           ExpectedAction, RowsMatchHandlers, Intake, Responding, Row, FreshCalls
<1>12. SnapshotsAreEarned'
    BY <1>1, <1>2, <1>3
       DEF SnapshotsAreEarned, PositionsMatchRequests, ExpectedAction, RowsAreEarned,
           Established, ResumeFrom, IntakeOnly, ResponseOnly
<1>13. PositionsAreEarned'
    BY <1>1, <1>2, <1>3
       DEF PositionsAreEarned, PositionsMatchRequests, ClearedPCs, VerifiedPCs,
           Established, Cleared, ResumeFrom, ExpectedAction, SnapshotsAreEarned
<1>14. NoCheckSkipped'
    BY <1>1, <1>2, <1>3
       DEF NoCheckSkipped, PositionsAreEarned, PositionsMatchRequests, ClearedPCs,
           VerifiedPCs, Established, Cleared, ResumeFrom, ExpectedAction
<1> QED
    BY <1>1, <1>4, <1>5, <1>6, <1>7, <1>8, <1>9, <1>10, <1>11, <1>12, <1>13, <1>14

\* An input response replaces the row's arguments and its own copy of them.
LEMMA ProvideInputInv ==
    ASSUME IInv, NEW w \in Workers, ProvideInput(w),
           \A fault : ~ Fail(w, fault)
    PROVE  IInv'
<1>1. Setting(w)
    BY StepSetting DEF HandlerStep
<1>2. /\ pc[w] = "apply" /\ job[w].action = "input"
      /\ /\ pc'[w] = "input_provided"
         /\ job'[w].call = job[w].call /\ job'[w].action = job[w].action
         /\ job'[w].resume_from = job[w].resume_from
      /\ UNCHANGED <<tool, executed, audit, evidence>>
      /\ /\ ckpt'[Call(w)].status = ckpt[Call(w)].status
         /\ ckpt'[Call(w)].reason = ckpt[Call(w)].reason
         /\ ckpt'[Call(w)].resume_from = ckpt[Call(w)].resume_from
    BY <1>1 DEF ProvideInput, TypeOK, Row, Checkpoints, Jobs, Setting
<1>3. \A v \in Workers : v # w /\ Working(v) => Call(v) # Call(w)
    BY <1>1, <1>2 DEF Setting, Working, HumanRows, FinalRows, Reasons, Steps
<1> USE DEF IInv, Setting, Frame, Call, TypeOK, Working, HumanRows, FinalRows, Reasons,
           Steps
<1>4. FreshCalls'
    BY <1>1, <1>2, <1>3 DEF FreshCalls, RowsMatchHandlers, Intake, Responding, Row
<1>5. RowsMatchHandlers'
    BY <1>1, <1>2, <1>3 DEF RowsMatchHandlers, Intake, Responding, Row
<1>6. PositionsMatchRequests'
    BY <1>1, <1>2, <1>3 DEF PositionsMatchRequests, IntakeOnly, ResponseOnly
<1>7. OneOwner'
    BY <1>1, <1>2, <1>3 DEF OneOwner, RowsMatchHandlers, Intake, Responding, Row
<1>8. AtMostOnce'
    BY <1>1, <1>2, <1>3 DEF AtMostOnce, RunsAreOver, Row
<1>9. RunsAreOver'
    BY <1>1, <1>2, <1>3
       DEF RunsAreOver, AtMostOnce, Row, RowsMatchHandlers, Intake, Responding
<1>10. DenialsHold'
    BY <1>1, <1>2, <1>3
       DEF DenialsHold, PositionsMatchRequests, RunsAreOver, AtMostOnce, Row,
           RowsMatchHandlers, Intake, Responding
<1>11. RowsAreEarned'
    BY <1>1, <1>2, <1>3
       DEF RowsAreEarned, Established, ResumeFrom, PositionsMatchRequests, IntakeOnly,
           ResponseOnly, PositionsAreEarned, ClearedPCs, VerifiedPCs, Cleared,
           ExpectedAction, RowsMatchHandlers, Intake, Responding, Row, FreshCalls
<1>12. SnapshotsAreEarned'
    BY <1>1, <1>2, <1>3
       DEF SnapshotsAreEarned, PositionsMatchRequests, ExpectedAction, RowsAreEarned,
           Established, ResumeFrom, IntakeOnly, ResponseOnly
<1>13. PositionsAreEarned'
    BY <1>1, <1>2, <1>3
       DEF PositionsAreEarned, PositionsMatchRequests, ClearedPCs, VerifiedPCs,
           Established, Cleared, ResumeFrom, ExpectedAction, SnapshotsAreEarned
<1>14. NoCheckSkipped'
    BY <1>1, <1>2, <1>3
       DEF NoCheckSkipped, PositionsAreEarned, PositionsMatchRequests, ClearedPCs,
           VerifiedPCs, Established, Cleared, ResumeFrom, ExpectedAction
<1> QED
    BY <1>1, <1>4, <1>5, <1>6, <1>7, <1>8, <1>9, <1>10, <1>11, <1>12, <1>13, <1>14

\* A resume continues where its snapshot says, with what that step presupposes.
LEMMA LogAndResumeInv ==
    ASSUME IInv, NEW w \in Workers, LogAndResume(w)
    PROVE  IInv'
<1>1. Setting(w)
    BY StepSetting DEF HandlerStep
<1>2. /\ pc[w] \in HumanRows /\ pc'[w] = job[w].resume_from /\ job' = job
      /\ UNCHANGED <<tool, ckpt, executed, evidence>>
    BY <1>1, GotoEffect DEF LogAndResume, Setting
<1>3. \A v \in Workers : v # w /\ Working(v) => Call(v) # Call(w)
    BY <1>1, <1>2 DEF Setting, Working, HumanRows, FinalRows, Reasons, Steps
<1>4. \/ job[w].resume_from = "credential_check" /\ Cleared(Call(w))
      \/ /\ job[w].resume_from = "schema_check"
         /\ Cleared(Call(w)) /\ "credential" \in evidence[Call(w)]
    BY <1>1, <1>2, <1>3
       DEF IInv, Setting, SnapshotsAreEarned, PositionsMatchRequests, PositionsAreEarned,
           ResponseOnly, ClearedPCs, ExpectedAction, Established, ResumeFrom, Working,
           Jobs, HumanActions, HumanRows, FinalRows, Reasons
<1> USE DEF IInv, Setting, Frame, Call, TypeOK, Working, HumanRows, FinalRows, Reasons,
           Steps
<1>5. FreshCalls'
    BY <1>1, <1>2, <1>3, <1>4
       DEF FreshCalls, RowsMatchHandlers, Intake, Responding, Row
<1>6. RowsMatchHandlers'
    BY <1>1, <1>2, <1>3, <1>4 DEF RowsMatchHandlers, Intake, Responding, Row
<1>7. PositionsMatchRequests'
    BY <1>1, <1>2, <1>3, <1>4 DEF PositionsMatchRequests, IntakeOnly, ResponseOnly
<1>8. OneOwner'
    BY <1>1, <1>2, <1>3, <1>4
       DEF OneOwner, RowsMatchHandlers, Intake, Responding, Row
<1>9. AtMostOnce'
    BY <1>1, <1>2, <1>3, <1>4 DEF AtMostOnce, RunsAreOver, Row
<1>10. RunsAreOver'
    BY <1>1, <1>2, <1>3, <1>4
       DEF RunsAreOver, AtMostOnce, Row, RowsMatchHandlers, Intake, Responding
<1>11. DenialsHold'
    BY <1>1, <1>2, <1>3, <1>4
       DEF DenialsHold, PositionsMatchRequests, RunsAreOver, AtMostOnce, Row,
           RowsMatchHandlers, Intake, Responding
<1>12. RowsAreEarned'
    BY <1>1, <1>2, <1>3, <1>4
       DEF RowsAreEarned, Established, ResumeFrom, PositionsMatchRequests, IntakeOnly,
           ResponseOnly, PositionsAreEarned, ClearedPCs, VerifiedPCs, Cleared,
           ExpectedAction, RowsMatchHandlers, Intake, Responding, Row, FreshCalls
<1>13. SnapshotsAreEarned'
    BY <1>1, <1>2, <1>3, <1>4
       DEF SnapshotsAreEarned, PositionsMatchRequests, ExpectedAction, RowsAreEarned,
           Established, ResumeFrom, IntakeOnly, ResponseOnly
<1>14. PositionsAreEarned'
    BY <1>1, <1>2, <1>3, <1>4
       DEF PositionsAreEarned, PositionsMatchRequests, ClearedPCs, VerifiedPCs,
           Established, Cleared, ResumeFrom, ExpectedAction, SnapshotsAreEarned
<1>15. NoCheckSkipped'
    BY <1>1, <1>2, <1>3, <1>4
       DEF NoCheckSkipped, PositionsAreEarned, PositionsMatchRequests, ClearedPCs,
           VerifiedPCs, Established, Cleared, ResumeFrom, ExpectedAction
<1> QED
    BY <1>1, <1>5, <1>6, <1>7, <1>8, <1>9, <1>10, <1>11, <1>12, <1>13, <1>14, <1>15

\* A finished resume settles its row, also after the tool has run.
LEMMA FinalizeInv ==
    ASSUME IInv, NEW w \in Workers, Finalize(w),
           \A fault : ~ Fail(w, fault)
    PROVE  IInv'
<1>1. Setting(w)
    BY StepSetting DEF HandlerStep
<1>2. /\ pc[w] \in {"finalize_resolved", "finalize_failed"}
      /\ pc'[w] \in {"resumed_success", "resumed_failed"} /\ job' = job
      /\ UNCHANGED <<tool, executed, audit, evidence>>
      /\ /\ ckpt'[Call(w)].status \in {"resolved", "failed"}
         /\ ckpt'[Call(w)].reason = ckpt[Call(w)].reason
         /\ ckpt'[Call(w)].resume_from = ckpt[Call(w)].resume_from
    BY <1>1, GotoEffect, StatusEffect DEF Finalize, Setting
<1>3. \A v \in Workers : v # w /\ Working(v) => Call(v) # Call(w)
    BY <1>1, <1>2 DEF Setting, Working, HumanRows, FinalRows, Reasons, Steps
<1> USE DEF IInv, Setting, Frame, Call, TypeOK, Working, HumanRows, FinalRows, Reasons,
           Steps
<1>4. FreshCalls'
    BY <1>1, <1>2, <1>3 DEF FreshCalls, RowsMatchHandlers, Intake, Responding, Row
<1>5. RowsMatchHandlers'
    BY <1>1, <1>2, <1>3 DEF RowsMatchHandlers, Intake, Responding, Row
<1>6. PositionsMatchRequests'
    BY <1>1, <1>2, <1>3 DEF PositionsMatchRequests, IntakeOnly, ResponseOnly
<1>7. OneOwner'
    BY <1>1, <1>2, <1>3 DEF OneOwner, RowsMatchHandlers, Intake, Responding, Row
<1>8. AtMostOnce'
    BY <1>1, <1>2, <1>3 DEF AtMostOnce, RunsAreOver, Row
<1>9. RunsAreOver'
    BY <1>1, <1>2, <1>3
       DEF RunsAreOver, AtMostOnce, Row, RowsMatchHandlers, Intake, Responding
<1>10. DenialsHold'
    BY <1>1, <1>2, <1>3
       DEF DenialsHold, PositionsMatchRequests, RunsAreOver, AtMostOnce, Row,
           RowsMatchHandlers, Intake, Responding
<1>11. RowsAreEarned'
    BY <1>1, <1>2, <1>3
       DEF RowsAreEarned, Established, ResumeFrom, PositionsMatchRequests, IntakeOnly,
           ResponseOnly, PositionsAreEarned, ClearedPCs, VerifiedPCs, Cleared,
           ExpectedAction, RowsMatchHandlers, Intake, Responding, Row, FreshCalls
<1>12. SnapshotsAreEarned'
    BY <1>1, <1>2, <1>3
       DEF SnapshotsAreEarned, PositionsMatchRequests, ExpectedAction, RowsAreEarned,
           Established, ResumeFrom, IntakeOnly, ResponseOnly
<1>13. PositionsAreEarned'
    BY <1>1, <1>2, <1>3
       DEF PositionsAreEarned, PositionsMatchRequests, ClearedPCs, VerifiedPCs,
           Established, Cleared, ResumeFrom, ExpectedAction, SnapshotsAreEarned
<1>14. NoCheckSkipped'
    BY <1>1, <1>2, <1>3
       DEF NoCheckSkipped, PositionsAreEarned, PositionsMatchRequests, ClearedPCs,
           VerifiedPCs, Established, Cleared, ResumeFrom, ExpectedAction
<1> QED
    BY <1>1, <1>4, <1>5, <1>6, <1>7, <1>8, <1>9, <1>10, <1>11, <1>12, <1>13, <1>14

\* The last audit row ends the handler and nothing else.
LEMMA LogAndReturnInv ==
    ASSUME IInv, NEW w \in Workers, LogAndReturn(w)
    PROVE  IInv'
<1>1. Setting(w)
    BY StepSetting DEF HandlerStep
<1>2. /\ pc[w] \in FinalRows /\ pc'[w] = "idle"
      /\ UNCHANGED <<tool, ckpt, executed, evidence>>
    BY <1>1, ReturnEffect DEF LogAndReturn, Setting
<1> USE DEF IInv, Setting, Frame, Call, TypeOK, Working, HumanRows, FinalRows, Reasons,
           Steps
<1>3. FreshCalls'
    BY <1>1, <1>2 DEF FreshCalls, RowsMatchHandlers, Intake, Responding, Row
<1>4. RowsMatchHandlers'
    BY <1>1, <1>2 DEF RowsMatchHandlers, Intake, Responding, Row
<1>5. PositionsMatchRequests'
    BY <1>1, <1>2 DEF PositionsMatchRequests, IntakeOnly, ResponseOnly
<1>6. OneOwner'
    BY <1>1, <1>2 DEF OneOwner, RowsMatchHandlers, Intake, Responding, Row
<1>7. AtMostOnce'
    BY <1>1, <1>2 DEF AtMostOnce, RunsAreOver, Row
<1>8. RunsAreOver'
    BY <1>1, <1>2
       DEF RunsAreOver, AtMostOnce, Row, RowsMatchHandlers, Intake, Responding
<1>9. DenialsHold'
    BY <1>1, <1>2
       DEF DenialsHold, PositionsMatchRequests, RunsAreOver, AtMostOnce, Row,
           RowsMatchHandlers, Intake, Responding
<1>10. RowsAreEarned'
    BY <1>1, <1>2
       DEF RowsAreEarned, Established, ResumeFrom, PositionsMatchRequests, IntakeOnly,
           ResponseOnly, PositionsAreEarned, ClearedPCs, VerifiedPCs, Cleared,
           ExpectedAction, RowsMatchHandlers, Intake, Responding, Row, FreshCalls
<1>11. SnapshotsAreEarned'
    BY <1>1, <1>2
       DEF SnapshotsAreEarned, PositionsMatchRequests, ExpectedAction, RowsAreEarned,
           Established, ResumeFrom, IntakeOnly, ResponseOnly
<1>12. PositionsAreEarned'
    BY <1>1, <1>2
       DEF PositionsAreEarned, PositionsMatchRequests, ClearedPCs, VerifiedPCs,
           Established, Cleared, ResumeFrom, ExpectedAction, SnapshotsAreEarned
<1>13. NoCheckSkipped'
    BY <1>1, <1>2
       DEF NoCheckSkipped, PositionsAreEarned, PositionsMatchRequests, ClearedPCs,
           VerifiedPCs, Established, Cleared, ResumeFrom, ExpectedAction
<1> QED
    BY <1>1, <1>3, <1>4, <1>5, <1>6, <1>7, <1>8, <1>9, <1>10, <1>11, <1>12, <1>13
-----------------------------------------------------------------------------
(* The steps that are not a handler's progress.                             *)

\* Handlers that go idle, whatever for, while the calls stay as they are:
\* errors, disconnects, restarts, and the world's own steps.
LEMMA IdleInv ==
    ASSUME IInv, TypeOK', UNCHANGED callVars,
           \A v \in Workers : pc'[v] = "idle" \/ (pc'[v] = pc[v] /\ job'[v] = job[v])
    PROVE  IInv'
<1>1. UNCHANGED <<tool, ckpt, executed, audit, evidence>>
    BY DEF callVars
<1>2. \A v \in Workers : pc'[v] # "idle" => /\ pc'[v] = pc[v] /\ job'[v] = job[v]
                                            /\ Call(v)' = Call(v)
    BY DEF Call
<1>3. \A v \in Workers : /\ Working(v)' => Working(v) /\ Call(v)' = Call(v)
                         /\ Intake(v)' => Intake(v)
                         /\ Responding(v)' => Responding(v)
    BY <1>2 DEF Working, Intake, Responding, FinalRows
<1>4. \A c \in Calls : /\ Cleared(c)' <=> Cleared(c)
                       /\ \A reason : Established(c, reason)' <=> Established(c, reason)
    BY <1>1 DEF Cleared, Established
<1> USE DEF IInv
<1>5. FreshCalls' /\ AtMostOnce' /\ NoCheckSkipped' /\ RowsAreEarned'
    BY <1>1, <1>4 DEF FreshCalls, AtMostOnce, NoCheckSkipped, RowsAreEarned
<1>6. RowsMatchHandlers'
    BY <1>1, <1>2, <1>3 DEF RowsMatchHandlers, Row
<1>7. PositionsMatchRequests'
    BY <1>2 DEF PositionsMatchRequests, IntakeOnly, ResponseOnly, Working, HumanRows, FinalRows
<1>8. OneOwner'
    BY <1>3 DEF OneOwner
<1>9. RunsAreOver'
    BY <1>1, <1>2 DEF RunsAreOver, Working, FinalRows
<1>10. DenialsHold'
    BY <1>1, <1>2, <1>3 DEF DenialsHold, Working
<1>11. SnapshotsAreEarned'
    BY <1>1, <1>2 DEF SnapshotsAreEarned, HumanRows, Established, Cleared
<1>12. PositionsAreEarned'
    BY <1>1, <1>2 DEF PositionsAreEarned, ClearedPCs, VerifiedPCs, HumanRows, Cleared
<1> QED
    BY <1>5, <1>6, <1>7, <1>8, <1>9, <1>10, <1>11, <1>12

\* A new task starts on a call nothing has happened to.
LEMMA ActReceiveInv ==
    ASSUME IInv, TypeOK', NEW w \in Workers, ActReceive(w)
    PROVE  IInv'
<1>1. PICK c \in Calls, t \in Tools, args \in SUBSET Fields :
        /\ tool[c] = NoTool /\ tool' = [tool EXCEPT ![c] = t]
        /\ job' = [job EXCEPT ![w] = [call |-> c, action |-> "act",
                                      resume_from |-> "decide", args |-> args]]
        /\ Record(c, {"call_received"})
    BY DEF ActReceive
<1>2. /\ pc[w] = "idle" /\ pc'[w] = "decide" /\ UNCHANGED <<ckpt, executed, evidence>>
      /\ Call(w)' = c /\ job'[w].action = "act" /\ tool'[c] # NoTool
      /\ \A d \in Calls : d # c => tool'[d] = tool[d] /\ audit'[d] = audit[d]
      /\ \A v \in Workers : v # w => pc'[v] = pc[v] /\ job'[v] = job[v]
    BY <1>1, RecordEffect, TopologyAssumption DEF IInv, TypeOK, ActReceive, Call
<1>3. /\ ckpt[c].status = "absent" /\ executed[c] = 0 /\ evidence[c] = {}
      /\ \A v \in Workers : pc[v] # "idle" => Call(v) \in Calls /\ Call(v) # c
    BY <1>1, BusyJob DEF IInv, FreshCalls, RowsMatchHandlers
<1>4. \A v \in Workers : v # w => Call(v)' = Call(v)
    BY <1>2 DEF Call
<1> USE DEF IInv, Working, FinalRows
<1>5. FreshCalls' /\ AtMostOnce' /\ NoCheckSkipped' /\ RowsAreEarned'
    BY <1>1, <1>2, <1>3
       DEF FreshCalls, AtMostOnce, NoCheckSkipped, RowsAreEarned, Cleared, Established
<1>6. RowsMatchHandlers'
    BY <1>2, <1>3, <1>4 DEF RowsMatchHandlers, Intake, Responding, Row
<1>7. PositionsMatchRequests'
    BY <1>2 DEF PositionsMatchRequests, IntakeOnly, ResponseOnly, HumanRows
<1>8. OneOwner'
    BY <1>2, <1>3, <1>4 DEF OneOwner
<1>9. RunsAreOver'
    BY <1>2, <1>3, <1>4 DEF RunsAreOver
<1>10. DenialsHold'
    BY <1>2, <1>3, <1>4 DEF DenialsHold
<1>11. SnapshotsAreEarned'
    BY <1>2, <1>4 DEF SnapshotsAreEarned, HumanRows, Established, Cleared
<1>12. PositionsAreEarned'
    BY <1>2, <1>3, <1>4
       DEF PositionsAreEarned, ClearedPCs, VerifiedPCs, HumanRows, Cleared
<1> QED
    BY <1>5, <1>6, <1>7, <1>8, <1>9, <1>10, <1>11, <1>12

\* A response starts from a snapshot of a pending row, which is earned.
LEMMA RespondGetInv ==
    ASSUME IInv, TypeOK', NEW w \in Workers, RespondGet(w)
    PROVE  IInv'
<1>1. PICK c \in Calls, action \in HumanActions :
        /\ ckpt[c].status = "pending"
        /\ ActionMatchesReason(action, ckpt[c].reason)
        /\ job' = [job EXCEPT ![w] = [call |-> c, action |-> action,
                                      resume_from |-> ckpt[c].resume_from,
                                      args |-> ckpt[c].args]]
    BY DEF RespondGet
<1>2. /\ pc[w] = "idle" /\ pc'[w] = "claim"
      /\ UNCHANGED <<tool, ckpt, executed, audit, evidence>>
      /\ Call(w)' = c /\ job'[w].action = action
      /\ job'[w].resume_from = ckpt[c].resume_from
      /\ \A v \in Workers : v # w => pc'[v] = pc[v] /\ job'[v] = job[v]
    BY <1>1 DEF IInv, TypeOK, RespondGet, Call, callVars
<1>3. tool[c] # NoTool /\ ckpt[c] \in Checkpoints
    BY <1>1 DEF IInv, FreshCalls, TypeOK
<1>4. \A v \in Workers : v # w => Call(v)' = Call(v)
    BY <1>2 DEF Call
<1>5. \A d \in Calls : /\ Cleared(d)' <=> Cleared(d)
                       /\ \A reason : Established(d, reason)' <=> Established(d, reason)
    BY <1>2 DEF Cleared, Established
<1>6. \A reason \in Reasons : action = ExpectedAction[reason] => reason = ckpt[c].reason
    BY <1>1, <1>3 DEF ActionMatchesReason, ExpectedAction, Reasons, Checkpoints
<1> USE DEF IInv, Working
<1>7. FreshCalls' /\ AtMostOnce' /\ NoCheckSkipped' /\ RowsAreEarned'
    BY <1>2, <1>5 DEF FreshCalls, AtMostOnce, NoCheckSkipped, RowsAreEarned
<1>8. RowsMatchHandlers'
    BY <1>1, <1>2, <1>3, <1>4 DEF RowsMatchHandlers, Intake, Responding, Row
<1>9. PositionsMatchRequests'
    BY <1>1, <1>2
       DEF PositionsMatchRequests, IntakeOnly, ResponseOnly, HumanRows, HumanActions
<1>10. OneOwner'
    BY <1>2, <1>4 DEF OneOwner
<1>11. RunsAreOver'
    BY <1>2, <1>4 DEF RunsAreOver
<1>12. DenialsHold'
    BY <1>2, <1>4 DEF DenialsHold
<1>13. SnapshotsAreEarned'
    BY <1>1, <1>2, <1>4, <1>6
       DEF SnapshotsAreEarned, RowsAreEarned, HumanRows, Established, Cleared
<1>14. PositionsAreEarned'
    BY <1>2, <1>4
       DEF PositionsAreEarned, ClearedPCs, VerifiedPCs, HumanRows, Cleared
<1> QED
    BY <1>7, <1>8, <1>9, <1>10, <1>11, <1>12, <1>13, <1>14
-----------------------------------------------------------------------------
(* The invariant, and the properties it stands for.                         *)

\* The invariant holds initially.
LEMMA InitInv == Init => IInv
BY TypeInit DEF Init, NoRow, IInv, FreshCalls, RowsMatchHandlers, PositionsMatchRequests,
    OneOwner, AtMostOnce, RunsAreOver, DenialsHold, RowsAreEarned, SnapshotsAreEarned,
    PositionsAreEarned, NoCheckSkipped, Working, IntakeOnly, ResponseOnly, ClearedPCs,
    VerifiedPCs, HumanRows

\* Every handler step keeps the invariant.
LEMMA HandlerStepInv ==
    ASSUME IInv, NEW w \in Workers, HandlerStep(w)
    PROVE  IInv'
<1>1. TypeOK'
    BY HandlerStepType DEF IInv
<1>2. ASSUME NEW fault, Fail(w, fault) PROVE IInv'
    BY <1>1, <1>2, IdleInv, ReturnEffect DEF Fail, IInv
<1>3. CASE \A fault : ~ Fail(w, fault)
    BY <1>3, DecideInv, CredentialCheckInv, SchemaCheckInv, DispatchInv,
       CreateCheckpointInv, RePauseInv, ClaimInv, DenyInv, ApproveInv, AuthenticateInv,
       ProvideInputInv, LogAndResumeInv, FinalizeInv, LogAndReturnInv DEF HandlerStep
<1> QED
    BY <1>2, <1>3

\* Every step keeps the invariant: it is inductive.
LEMMA NextInv ==
    ASSUME IInv, [Next]_vars
    PROVE  IInv'
<1>1. TypeOK /\ TypeOK'
    BY TypeNext DEF IInv
<1>2. ASSUME NEW w \in Workers, ClientGone(w) PROVE IInv'
    BY <1>1, <1>2, IdleInv, ReturnEffect DEF ClientGone, Fail
<1>3. ASSUME NEW x \in Connectors, Connect(x) \/ Disconnect(x) PROVE IInv'
    BY <1>1, <1>3, IdleInv DEF Connect, Disconnect, handlerVars
<1>4. CASE Restart
    BY <1>1, <1>4, IdleInv DEF Restart
<1>5. CASE UNCHANGED vars
    BY <1>1, <1>5, IdleInv DEF vars, handlerVars
<1> QED
    BY <1>1, <1>2, <1>3, <1>4, <1>5, ActReceiveInv, RespondGetInv, HandlerStepInv DEF Next

\* Every reachable state satisfies the inductive invariant: the rows, the
\* handlers, the snapshots they carry and the history agree.
THEOREM Inductive == Spec => []IInv
BY InitInv, NextInv, PTL DEF Spec

\* Two handlers are never both at work on one call (claim_pending).
THEOREM Ownership == Spec => []OneOwner
<1>1. IInv => OneOwner
    BY DEF IInv
<1> QED BY <1>1, Inductive, PTL

\* One task runs its tool at most once, whatever fails or repeats.
THEOREM RunsOnce == Spec => []AtMostOnce
<1>1. IInv => AtMostOnce
    BY DEF IInv
<1> QED BY <1>1, Inductive, PTL

\* A denial that won the claim keeps the tool from running, for good.
THEOREM DenialsBind == Spec => []DenialIsBinding
<1>1. IInv => DenialIsBinding
    BY DEF IInv, DenialsHold, DenialIsBinding
<1> QED BY <1>1, Inductive, PTL

\* A tool that ran was cleared, its credential live and its schema checked.
THEOREM ChecksPrecedeRuns == Spec => []NoCheckSkipped
<1>1. IInv => NoCheckSkipped
    BY DEF IInv
<1> QED BY <1>1, Inductive, PTL
=============================================================================
