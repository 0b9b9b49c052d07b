---------------------- MODULE HitlAgentRefinement_proofs ----------------------
(***************************************************************************)
(* HitlAgent implements ApprovalGate, never touches a finished checkpoint, *)
(* and logs no verdict of the agent's that is not so, for every value of   *)
(* its constants.                                                          *)
(***************************************************************************)
EXTENDS HitlAgent_proofs

Ran == {c \in Calls : executed[c] > 0}
GateNow == [c \in Calls |-> GateOf(c)]

\* A step that changes no call's gate and runs nothing is a stutter.
LEMMA GateStutter ==
    ASSUME \A c \in Calls : /\ GateOf(c)' = GateOf(c)
                            /\ executed'[c] = executed[c]
    PROVE  UNCHANGED Gate!vars
BY DEF Gate!vars

\* A step that moves the gate of one call, and runs nothing.
LEMMA GateMove ==
    ASSUME NEW c \in Calls, NEW from, GateOf(c) \in from,
           \A d \in Calls : d # c => GateOf(d)' = GateOf(d),
           \A d \in Calls : executed'[d] = executed[d]
    PROVE  Gate!Move(c, from, GateOf(c)')
BY DEF Gate!Move

\* A call's gate depends on what is on record about it only.
LEMMA GateOfOthers ==
    ASSUME NEW c \in Calls, evidence'[c] = evidence[c]
    PROVE  GateOf(c)' = GateOf(c)
BY DEF GateOf, Cleared

\* One handler step maps to a step of the gate or a stutter.
LEMMA HandlerStepRefines ==
    ASSUME IInv, NEW w \in Workers, HandlerStep(w)
    PROVE  [Gate!Next]_(Gate!vars)
<1>1. Setting(w) /\ TypeOK /\ Call(w) \in Calls
    BY StepSetting DEF Setting
<1>2. PICK c \in Calls : c = Call(w)
    BY <1>1
<1>3. \A d \in Calls : d # c => GateOf(d)' = GateOf(d) /\ executed'[d] = executed[d]
    BY <1>1, <1>2, GateOfOthers DEF Setting, Frame
<1>4. ASSUME UNCHANGED <<evidence, executed>> PROVE UNCHANGED Gate!vars
    BY <1>4, GateStutter, GateOfOthers
<1>5. ASSUME NEW from, GateOf(c) \in from, executed' = executed
      PROVE  Gate!Move(c, from, GateOf(c)')
    BY <1>1, <1>2, <1>3, <1>5, GateMove
<1>6. ASSUME GateOf(c)' = GateOf(c), executed' = executed PROVE UNCHANGED Gate!vars
    BY <1>1, <1>2, <1>3, <1>6, GateStutter
<1>7. ASSUME NEW facts, Learn(w, facts) PROVE evidence'[c] = evidence[c] \union facts
    BY <1>1, <1>2, <1>7, LearnEffect DEF Setting
<1>8. CASE Decide(w)
    <2>1. evidence[c] = {} /\ executed' = executed
        BY <1>2, <1>8 DEF IInv, PositionsAreEarned, Decide, Fail, callVars
    <2>2. CASE Learn(w, {"asked"})
        <3>1. GateOf(c) = "closed" /\ GateOf(c)' = "asking"
            BY <1>7, <2>1, <2>2 DEF GateOf, Cleared
        <3> QED
            BY <1>1, <1>2, <1>5, <2>1, <3>1 DEF Gate!Next, Gate!Ask
    <2>3. CASE Learn(w, {"allowed"})
        <3>1. GateOf(c) = "closed" /\ GateOf(c)' = "open"
            BY <1>7, <2>1, <2>3 DEF GateOf, Cleared
        <3> QED
            BY <1>1, <1>2, <1>5, <2>1, <3>1 DEF Gate!Next, Gate!Allow
    <2>4. CASE UNCHANGED evidence
        BY <1>4, <2>1, <2>4
    <2> QED
        BY <1>8, <2>2, <2>3, <2>4 DEF Decide, Fail, callVars
<1>9. CASE CredentialCheck(w) \/ SchemaCheck(w)
    <2>1. /\ executed' = executed
          /\ \/ UNCHANGED evidence
             \/ Learn(w, {"credential"})
             \/ Learn(w, {"schema"})
        BY <1>9 DEF CredentialCheck, SchemaCheck, Fail, callVars
    <2>2. ASSUME Learn(w, {"credential"}) \/ Learn(w, {"schema"})
          PROVE  GateOf(c)' = GateOf(c)
        BY <1>7, <2>2 DEF GateOf, Cleared
    <2> QED
        BY <1>4, <1>6, <2>1, <2>2
<1>10. CASE Dispatch(w)
    <2>1. UNCHANGED evidence
        BY <1>10 DEF Dispatch
    <2>2. GateOf(c) = "open" /\ executed[c] = 0
        <3>1. Cleared(c) /\ executed[c] = 0 /\ job[w].action # "deny"
            BY <1>2, <1>10
               DEF IInv, PositionsAreEarned, PositionsMatchRequests, RunsAreOver,
                   VerifiedPCs, Dispatch, Working, FinalRows
        <3>2. "denied" \notin evidence[c]
            BY <1>2, <1>10, <3>1 DEF IInv, DenialsHold, Dispatch, Working, FinalRows
        <3> QED
            BY <3>1, <3>2 DEF GateOf, Cleared
    <2>3. CASE UNCHANGED executed
        BY <1>4, <2>1, <2>3
    <2>4. CASE Runs(w)
        <3>1. executed'[c] = 1
            BY <1>1, <1>2, <1>3, <2>2, <2>4 DEF Runs, TypeOK
        <3>2. /\ c \notin Ran /\ Ran' = Ran \union {c}
            BY <1>1, <1>2, <1>3, <2>2, <3>1 DEF Ran
        <3>3. GateNow' = GateNow
            BY <2>1, GateOfOthers DEF GateNow
        <3> QED
            BY <1>1, <1>2, <1>3, <2>2, <3>2, <3>3 DEF Gate!Next, Gate!Run, Ran, GateNow
    <2> QED
        BY <1>10, <2>3, <2>4 DEF Dispatch, ToolsCall
<1>11. CASE Claim(w)
    <2>1. executed' = executed
        BY <1>11 DEF Claim, TakeRow, Fail, callVars
    <2>2. CASE UNCHANGED evidence
        BY <1>4, <2>1, <2>2
    <2>3. CASE Row(w).status = "pending" /\ Learn(w, {"denied"})
        <3>1. GateOf(c) \in {"asking", "open"} /\ executed[c] = 0
            <4>1. ckpt[c].status = "pending" /\ ckpt[c].reason \in Reasons
                BY <1>1, <1>2, <2>3 DEF TypeOK, Row, Checkpoints
            <4>2. Cleared(c) \/ "asked" \in evidence[c]
                BY <4>1 DEF IInv, RowsAreEarned, Established, Reasons
            <4>3. executed[c] = 0 /\ "denied" \notin evidence[c]
                BY <1>1, <4>1 DEF TypeOK, IInv, DenialsHold, RunsAreOver
            <4> QED
                BY <4>2, <4>3 DEF GateOf, Cleared
        <3>2. GateOf(c)' = "refused"
            BY <1>7, <2>3 DEF GateOf, Cleared
        <3>3. c \notin Ran
            BY <3>1 DEF Ran
        <3> QED
            BY <1>1, <1>2, <1>5, <2>1, <3>1, <3>2, <3>3 DEF Gate!Next, Gate!Deny, Ran
    <2> QED
        BY <1>11, <2>2, <2>3 DEF Claim, TakeRow, Fail, callVars
<1>12. CASE Approve(w)
    <2>1. executed' = executed /\ Learn(w, {"approved"})
        BY <1>12 DEF Approve
    <2>2. "asked" \in evidence[c] /\ "denied" \notin evidence[c]
        BY <1>1, <1>2, <1>12
           DEF IInv, SnapshotsAreEarned, DenialsHold, Approve, Established,
               ExpectedAction, Reasons, Working, FinalRows
    <2>3. GateOf(c)' = "open" /\ GateOf(c) \in {"asking", "open"}
        BY <1>7, <2>1, <2>2 DEF GateOf, Cleared
    <2>4. CASE GateOf(c) = "asking"
        BY <1>1, <1>2, <1>5, <2>1, <2>3, <2>4 DEF Gate!Next, Gate!Approve
    <2>5. CASE GateOf(c) = "open"
        BY <1>6, <2>1, <2>3, <2>5
    <2> QED
        BY <2>3, <2>4, <2>5
<1>13. CASE \/ CreateCheckpoint(w) \/ RePause(w) \/ Deny(w) \/ Authenticate(w)
            \/ ProvideInput(w) \/ LogAndResume(w) \/ Finalize(w) \/ LogAndReturn(w)
    BY <1>4, <1>13
       DEF CreateCheckpoint, RePause, Deny, Authenticate, ProvideInput, LogAndResume,
           Finalize, LogAndReturn, Fail, callVars
<1> QED
    BY <1>8, <1>9, <1>10, <1>11, <1>12, <1>13 DEF HandlerStep

\* Every step maps to a step of the gate or a stutter.
LEMMA StepRefines ==
    ASSUME IInv, [Next]_vars
    PROVE  [Gate!Next]_(Gate!vars)
<1>1. ASSUME UNCHANGED <<evidence, executed>> PROVE UNCHANGED Gate!vars
    BY <1>1, GateStutter, GateOfOthers
<1>2. \/ UNCHANGED <<evidence, executed>>
      \/ \E w \in Workers : HandlerStep(w)
    BY DEF Next, ActReceive, RespondGet, ClientGone, Fail, Connect, Disconnect, Restart,
           vars, callVars
<1> QED
    BY <1>1, <1>2, HandlerStepRefines

\* The handlers, however they interleave and fail, keep the promise of
\* ApprovalGate: no tool behind a closed, asking or refused gate, none twice.
THEOREM Refinement == Spec => GateSpec
<1>1. Init => Gate!Init
    BY DEF Init, Gate!Init, GateOf, Cleared
<1>2. IInv /\ [Next]_vars => [Gate!Next]_(Gate!vars)
    BY StepRefines
<1> QED
    BY <1>1, <1>2, Inductive, PTL DEF Spec, GateSpec, Gate!Spec

\* A handler at work on a call never finds its checkpoint finished; one that
\* comes late finds that out when it claims.
LEMMA FinishedStays ==
    ASSUME IInv, NEW w \in Workers, HandlerStep(w), NEW c \in Calls,
           ckpt[c].status \in Terminal
    PROVE  ckpt'[c] = ckpt[c]
<1>1. Setting(w)
    BY StepSetting
<1>2. CASE c # Call(w)
    BY <1>1, <1>2 DEF Setting, Frame
<1>3. CASE c = Call(w)
    <2>1. Row(w).status \notin {"absent", "pending", "processing"}
        BY <1>3 DEF Row, Terminal
    <2>2. pc[w] \in {"claim"} \union FinalRows
        BY <1>1, <2>1 DEF Setting, IInv, RowsMatchHandlers, Intake, Responding, Working
    <2>3. \/ Claim(w) \/ LogAndReturn(w)
        BY <2>2
           DEF HandlerStep, Decide, CredentialCheck, SchemaCheck, Dispatch,
               CreateCheckpoint, RePause, Deny, Approve, Authenticate, ProvideInput,
               LogAndResume, Finalize, Reasons, HumanRows, FinalRows
    <2>4. UNCHANGED ckpt
        BY <2>1, <2>3 DEF Claim, LogAndReturn, Fail, callVars
    <2> QED BY <2>4
<1> QED BY <1>2, <1>3

\* No step of any handler touches a finished checkpoint, however late its
\* merge, re-pause or finalize comes.
THEOREM Finality == Spec => OutcomesAreFinal
<1>1. IInv /\ [Next]_vars =>
        [\A c \in Calls : ckpt[c].status \in Terminal => ckpt'[c] = ckpt[c]]_vars
    BY FinishedStays DEF Next, ActReceive, RespondGet, ClientGone, Fail, Connect,
                Disconnect, Restart, vars, callVars
<1> QED
    BY <1>1, Inductive, PTL DEF Spec, OutcomesAreFinal
-----------------------------------------------------------------------------
(* The audit trail.                                                         *)

\* A handler about to log a verdict has seen to it that it is true.
VerdictsAreReal ==
    \A w \in Workers :
        /\ pc[w] = "denied" => Row(w).status = "denied"
        /\ pc[w] = "resumed_failed" => Row(w).status = "failed"
        /\ pc[w] = "resumed_success" => Row(w).status = "resolved"

\* What a step adds to a call's log: a request that came in, a verdict of the
\* gateway's, or the row the handler had in mind.
Logs(w) ==
    \/ audit'[Call(w)] \subseteq
            audit[Call(w)] \union {"call_received", "blocked", "failed", "success"}
    \/ /\ pc[w] \in HumanRows \union FinalRows
       /\ audit'[Call(w)] \subseteq audit[Call(w)] \union {pc[w]}
       /\ UNCHANGED <<ckpt, evidence>>

\* Logging adds rows of the set it is given, to one call's log.
LEMMA RecordAdds ==
    ASSUME TypeOK, NEW c \in Calls, NEW rows, Record(c, rows)
    PROVE  audit'[c] \subseteq audit[c] \union rows
BY DEF TypeOK, Record

\* Every handler step logs in one of these ways.
LEMMA StepLogs ==
    ASSUME TypeOK, NEW w \in Workers, HandlerStep(w), Call(w) \in Calls
    PROVE  Logs(w)
<1>1. ASSUME UNCHANGED audit PROVE Logs(w)
    BY <1>1 DEF Logs
<1>2. CASE Dispatch(w)
    <2>1. ASSUME NEW rows, Record(Call(w), rows)
          PROVE  audit'[Call(w)] \subseteq audit[Call(w)] \union rows
        BY <2>1, RecordAdds
    <2>2. CASE \/ Record(Call(w), {"call_received", "blocked"})
               \/ Record(Call(w), {"call_received", "failed"})
               \/ Record(Call(w), {"call_received", "success"})
        <3>1. \/ audit'[Call(w)] \subseteq audit[Call(w)] \union {"call_received", "blocked"}
              \/ audit'[Call(w)] \subseteq audit[Call(w)] \union {"call_received", "failed"}
              \/ audit'[Call(w)] \subseteq audit[Call(w)] \union {"call_received", "success"}
            BY <2>1, <2>2
        <3> QED BY <3>1 DEF Logs
    <2> QED BY <1>1, <1>2, <2>2 DEF Dispatch, ToolsCall
<1>3. CASE LogAndResume(w) \/ LogAndReturn(w)
    <2>1. /\ pc[w] \in HumanRows \union FinalRows /\ Record(Call(w), {pc[w]})
          /\ UNCHANGED <<ckpt, evidence>>
        BY <1>3 DEF LogAndResume, LogAndReturn
    <2> QED BY <2>1, RecordAdds DEF Logs
<1>4. CASE \/ Decide(w) \/ CredentialCheck(w) \/ SchemaCheck(w) \/ CreateCheckpoint(w)
           \/ RePause(w) \/ Claim(w) \/ Deny(w) \/ Approve(w) \/ Authenticate(w)
           \/ ProvideInput(w) \/ Finalize(w)
    BY <1>1, <1>4
       DEF Decide, CredentialCheck, SchemaCheck, CreateCheckpoint, RePause, Claim, TakeRow,
           Deny, Approve, Authenticate, ProvideInput, Finalize, Fail, callVars
<1> QED BY <1>2, <1>3, <1>4 DEF HandlerStep

\* A verdict is reached in the step that makes it true.
LEMMA StepConcludes ==
    ASSUME IInv, NEW w \in Workers, HandlerStep(w)
    PROVE  /\ pc'[w] = "denied" => ckpt'[Call(w)].status = "denied"
           /\ pc'[w] = "resumed_failed" => ckpt'[Call(w)].status = "failed"
           /\ pc'[w] = "resumed_success" => ckpt'[Call(w)].status = "resolved"
           /\ pc'[w] # "idle" => Call(w)' = Call(w)
<1>1. Setting(w) /\ TypeOK /\ pc[w] # "idle" /\ Call(w) \in Calls
    BY StepSetting DEF Setting
<1>2. ASSUME NEW fault, Fail(w, fault) PROVE pc'[w] = "idle"
    BY <1>1, <1>2, ReturnEffect DEF Fail
<1>3. ASSUME NEW label, Goto(w, label) PROVE pc'[w] = label /\ Call(w)' = Call(w)
    BY <1>1, <1>3, GotoEffect DEF Call
<1>4. CASE Dispatch(w)
    <2>1. CASE \/ Goto(w, "failed") \/ Goto(w, "finalize_failed")
               \/ Goto(w, "success") \/ Goto(w, "finalize_resolved")
        BY <1>3, <2>1
    <2> QED BY <1>4, <2>1 DEF Dispatch, ToolsCall, Succeeds, Fails, Conclude
<1>5. CASE Finalize(w)
    <2>1. CASE SetStatus(w, "resolved") /\ Goto(w, "resumed_success")
        BY <1>1, <1>3, <2>1, StatusEffect
    <2>2. CASE SetStatus(w, "failed") /\ Goto(w, "resumed_failed")
        BY <1>1, <1>3, <2>2, StatusEffect
    <2> QED BY <1>2, <1>5, <2>1, <2>2 DEF Finalize
<1>6. CASE Deny(w)
    <2>1. CASE SetStatus(w, "denied") /\ Goto(w, "denied")
        BY <1>1, <1>3, <2>1, StatusEffect
    <2> QED BY <1>2, <1>6, <2>1 DEF Deny
<1>7. CASE LogAndResume(w)
    <2>1. job[w].resume_from \in Steps
        BY <1>1, BusyJob
    <2> QED BY <1>3, <1>7, <2>1 DEF LogAndResume, Steps
<1>8. CASE ProvideInput(w)
    <2>1. CASE \A fault : ~ Fail(w, fault)
        <3>1. PICK fields \in SUBSET Fields :
                /\ job' = [job EXCEPT ![w].args = job[w].args \union fields]
                /\ pc' = [pc EXCEPT ![w] = "input_provided"]
            BY <1>8, <2>1 DEF ProvideInput
        <3>2. pc'[w] = "input_provided"
            BY <1>1, <3>1 DEF TypeOK
        <3>3. job'[w].call = job[w].call
            BY <1>1, <3>1 DEF Setting, TypeOK, Jobs
        <3> QED BY <3>2, <3>3 DEF Call
    <2> QED BY <1>2, <2>1
<1>9. CASE Decide(w) \/ CredentialCheck(w) \/ SchemaCheck(w)
    BY <1>1, <1>2, <1>3, <1>9, ReturnEffect DEF Decide, CredentialCheck, SchemaCheck
<1>10. CASE CreateCheckpoint(w) \/ RePause(w) \/ Approve(w) \/ Authenticate(w)
    BY <1>2, <1>3, <1>10 DEF CreateCheckpoint, RePause, Approve, Authenticate
<1>11. CASE Claim(w) \/ LogAndReturn(w)
    BY <1>1, <1>2, <1>3, <1>11, ReturnEffect DEF Claim, LogAndReturn
<1> QED
    BY <1>4, <1>5, <1>6, <1>7, <1>8, <1>9, <1>10, <1>11 DEF HandlerStep

\* What is logged stays true, and what is about to be logged is.
LEMMA AuditStep ==
    ASSUME IInv, VerdictsAreReal, AuditAgrees, NEW w \in Workers, HandlerStep(w)
    PROVE  VerdictsAreReal' /\ AuditAgrees'
<1>1. Setting(w) /\ TypeOK /\ pc[w] # "idle" /\ Call(w) \in Calls
    BY StepSetting DEF Setting
<1>2. \A c \in Calls : ckpt[c].status \in Terminal => ckpt'[c] = ckpt[c]
    BY FinishedStays
<1>3. /\ \A v \in Workers : v # w => pc'[v] = pc[v] /\ Call(v)' = Call(v)
      /\ \A v \in Workers : pc[v] # "idle" => Call(v) \in Calls
      /\ \A c \in Calls : c # Call(w) => audit'[c] = audit[c]
      /\ \A c \in Calls : evidence[c] \subseteq evidence'[c]
    BY <1>1 DEF Setting, Frame
<1>4. VerdictsAreReal'
    <2>1. ASSUME NEW v \in Workers, v # w
          PROVE  /\ pc[v] = "denied" => ckpt'[Call(v)].status = "denied"
                 /\ pc[v] = "resumed_failed" => ckpt'[Call(v)].status = "failed"
                 /\ pc[v] = "resumed_success" => ckpt'[Call(v)].status = "resolved"
        <3>1. pc[v] = "idle" \/ Call(v) \in Calls
            BY <1>3
        <3> QED BY <1>2, <3>1 DEF VerdictsAreReal, Row, Terminal
    <2> QED BY <1>3, <2>1, StepConcludes DEF VerdictsAreReal, Row
<1>5. ASSUME NEW c \in Calls
      PROVE  /\ "denied" \in audit'[c] => ckpt'[c].status = "denied"
             /\ "resumed_failed" \in audit'[c] => ckpt'[c].status = "failed"
             /\ "resumed_success" \in audit'[c] => ckpt'[c].status = "resolved"
             /\ "approved" \in audit'[c] => "approved" \in evidence'[c]
    <2>1. /\ "denied" \in audit[c] => ckpt'[c].status = "denied"
          /\ "resumed_failed" \in audit[c] => ckpt'[c].status = "failed"
          /\ "resumed_success" \in audit[c] => ckpt'[c].status = "resolved"
          /\ "approved" \in audit[c] => "approved" \in evidence'[c]
        BY <1>2, <1>3 DEF AuditAgrees, Terminal
    <2>2. CASE c # Call(w)
        BY <1>3, <2>1, <2>2
    <2>3. CASE /\ c = Call(w)
               /\ audit'[c] \subseteq
                    audit[c] \union {"call_received", "blocked", "failed", "success"}
        BY <2>1, <2>3
    <2>4. CASE /\ c = Call(w) /\ pc[w] \in HumanRows \union FinalRows
               /\ audit'[c] \subseteq audit[c] \union {pc[w]}
               /\ UNCHANGED <<ckpt, evidence>>
        <3>1. /\ pc[w] = "denied" => ckpt[c].status = "denied"
              /\ pc[w] = "resumed_failed" => ckpt[c].status = "failed"
              /\ pc[w] = "resumed_success" => ckpt[c].status = "resolved"
              /\ pc[w] = "approved" => "approved" \in evidence[c]
            BY <2>4 DEF VerdictsAreReal, Row, IInv, PositionsAreEarned
        <3> QED BY <2>1, <2>4, <3>1
    <2> QED BY <1>1, <2>2, <2>3, <2>4, StepLogs DEF Logs
<1> QED BY <1>4, <1>5 DEF AuditAgrees

\* AuditAgrees: a denial, a verdict or an approval that the audit trail shows is
\* the row's for good, or what was decided.
THEOREM AuditIsTrue == Spec => []AuditAgrees
<1>1. Init => VerdictsAreReal /\ AuditAgrees
    BY DEF Init, VerdictsAreReal, AuditAgrees
<1>2. ASSUME IInv, VerdictsAreReal, AuditAgrees, [Next]_vars
      PROVE  VerdictsAreReal' /\ AuditAgrees'
    <2>1. ASSUME UNCHANGED <<ckpt, audit, evidence>>,
                 \A v \in Workers : \/ pc'[v] = "idle" \/ pc'[v] = "claim"
                                    \/ pc'[v] = pc[v] /\ job'[v] = job[v]
          PROVE  VerdictsAreReal' /\ AuditAgrees'
        <3>1. VerdictsAreReal'
            BY <1>2, <2>1 DEF VerdictsAreReal, Row, Call
        <3>2. AuditAgrees'
            BY <1>2, <2>1 DEF AuditAgrees
        <3> QED BY <3>1, <3>2
    <2>2. ASSUME NEW w \in Workers, ActReceive(w)
          PROVE  VerdictsAreReal' /\ AuditAgrees'
        <3>1. /\ pc'[w] = "decide"
              /\ \A v \in Workers : v # w => pc'[v] = pc[v] /\ job'[v] = job[v]
              /\ UNCHANGED <<ckpt, evidence>>
            BY <1>2, <2>2 DEF IInv, TypeOK, ActReceive
        <3>2. VerdictsAreReal'
            BY <1>2, <3>1 DEF VerdictsAreReal, Row, Call
        <3>3. \A c \in Calls : audit'[c] \subseteq audit[c] \union {"call_received"}
            BY <1>2, <2>2, RecordAdds, RecordEffect DEF IInv, ActReceive
        <3>4. AuditAgrees'
            BY <1>2, <3>1, <3>3 DEF AuditAgrees
        <3> QED BY <3>2, <3>4
    <2>3. ASSUME NEW w \in Workers, RespondGet(w)
          PROVE  VerdictsAreReal' /\ AuditAgrees'
        BY <1>2, <2>1, <2>3 DEF IInv, TypeOK, RespondGet, callVars
    <2>4. ASSUME NEW w \in Workers, ClientGone(w)
          PROVE  VerdictsAreReal' /\ AuditAgrees'
        BY <1>2, <2>1, <2>4, ReturnEffect DEF IInv, ClientGone, Fail, callVars
    <2>5. CASE \E x \in Connectors : Connect(x) \/ Disconnect(x)
        BY <2>1, <2>5 DEF Connect, Disconnect, callVars, handlerVars
    <2>6. CASE Restart
        BY <2>1, <2>6 DEF Restart, callVars
    <2>7. CASE UNCHANGED vars
        BY <2>1, <2>7 DEF vars, callVars, handlerVars
    <2> QED
        BY <1>2, <2>2, <2>3, <2>4, <2>5, <2>6, <2>7, AuditStep DEF Next
<1> QED BY <1>1, <1>2, Inductive, PTL DEF Spec
=============================================================================
