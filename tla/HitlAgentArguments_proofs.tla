---------------------- MODULE HitlAgentArguments_proofs ----------------------
(***************************************************************************)
(* The arguments of a call that waits: responders read them before they    *)
(* claim the row, other responders replace them meanwhile, and still none  *)
(* is dispatched that the row does not show, and no row asks for what it   *)
(* has, for every value of HitlAgent's constants.                          *)
(***************************************************************************)
EXTENDS HitlAgent_proofs

\* What the schema check holds against a call with these arguments.
Lacks(c, args) == tool[c] \in schema /\ ~ (Required[tool[c]] \subseteq args)

\* A responder that resumes with the arguments it read; one that is about to
\* replace them in the row; one that has.
Keeps(w) ==
    /\ pc[w] \in {"claim", "apply", "credential_check", "auth_required",
                  "schema_check", "input_required"} \union HumanRows
    /\ job[w].action \in {"approve", "authenticate"}
Replaces(w) == pc[w] \in {"claim", "apply"} /\ job[w].action = "input"
Replaced(w) == Responding(w) /\ pc[w] # "apply" /\ job[w].action = "input"

\* The row and the copy differ, or another responder can make them differ.
AtOdds(w) ==
    /\ Keeps(w)
    /\ \/ job[w].args # Row(w).args
       \/ \E v \in Workers : Replaces(v) /\ Call(v) = Call(w)

\* The row waits for a human, or its handler may make it wait again unasked.
Resumable(c) ==
    \/ ckpt[c].status = "pending"
    \/ \E w \in Workers : Keeps(w) /\ Responding(w) /\ Call(w) = c

\* Nobody has approved what nobody has claimed.
NotYetApproved ==
    \A c \in Calls :
        "approved" \in evidence[c] =>
            /\ ckpt[c].status # "absent"
            /\ ckpt[c].status = "pending" => ckpt[c].reason # "approval_required"

\* Who asks for arguments, and what a row asks for, is missing.
AskedIsMissing ==
    /\ \A w \in Workers : pc[w] = "input_required" => Lacks(Call(w), job[w].args)
    /\ \A c \in Calls : ckpt[c].status = "pending" /\ ckpt[c].reason = "input_required" =>
            ~ (Required[tool[c]] \subseteq ckpt[c].args)

\* New arguments are in the row and in hand; they never go back beyond the
\* schema check, and older copies will not pass it.
ReplacedIsStored ==
    \A w \in Workers : Replaced(w) =>
        /\ job[w].args = Row(w).args
        /\ pc[w] \notin {"decide", "credential_check", "auth_required"}
        /\ \A v \in Workers : Keeps(v) /\ Call(v) = Call(w) => Lacks(Call(v), job[v].args)

\* A copy at odds with the row will not pass the schema check; nor will the row,
\* should it be resumed by another such copy.
OldCopiesLack ==
    \A w \in Workers : AtOdds(w) =>
        /\ Lacks(Call(w), job[w].args)
        /\ Resumable(Call(w)) => Lacks(Call(w), Row(w).args)

\* So it is where a row's reason and a responder's do not fit each other.
MisfitsLack ==
    \A w \in Workers :
        /\ Replaces(w) /\ Row(w).status = "pending" /\ Row(w).reason # "input_required"
            => Lacks(Call(w), Row(w).args)
        /\ Keeps(w) /\ Row(w).status = "pending" /\ Row(w).reason = "input_required"
            => Lacks(Call(w), Row(w).args) /\ Lacks(Call(w), job[w].args)

ArgsInv ==
    /\ NotYetApproved /\ AskedIsMissing /\ ReplacedIsStored
    /\ OldCopiesLack /\ MisfitsLack /\ DispatchesStoredArguments
-----------------------------------------------------------------------------
\* What a step may do to rows and copies without upsetting any of this: it
\* changes no arguments, makes no row pending, and lets go of copies only.
Held(v) == Keeps(v) \/ Replaces(v) \/ Replaced(v)
Quiet ==
    /\ schema \subseteq schema'
    /\ \A c \in Calls :
        /\ ckpt'[c].args = ckpt[c].args
        /\ ckpt'[c].status = "pending" => ckpt'[c] = ckpt[c] /\ tool'[c] = tool[c]
    /\ \A v \in Workers :
        /\ Held(v)' => job'[v] = job[v] /\ tool'[Call(v)] = tool[Call(v)] /\ Call(v) \in Calls
        /\ Keeps(v)' => Keeps(v)
        /\ Keeps(v)' /\ Responding(v)' => Responding(v) \/ Row(v).status = "pending"
        /\ Replaces(v)' => Replaces(v)
        /\ Replaced(v)' => Replaced(v)
                           /\ pc'[v] \notin {"decide", "credential_check", "auth_required"}

\* What a cached schema holds against a call, it goes on holding against it.
LEMMA LacksStays ==
    ASSUME NEW c \in Calls, NEW args, schema \subseteq schema', tool'[c] = tool[c],
           Lacks(c, args)
    PROVE  Lacks(c, args)'
BY DEF Lacks

\* Quiet steps keep what rows and copies have to do with each other.
LEMMA QuietKeeps ==
    ASSUME ArgsInv, Quiet
    PROVE  /\ ReplacedIsStored' /\ OldCopiesLack' /\ MisfitsLack'
           /\ \A c \in Calls : ckpt'[c].status = "pending" /\ ckpt'[c].reason = "input_required" =>
                    ~ (Required[tool'[c]] \subseteq ckpt'[c].args)
<1>1. ASSUME NEW v \in Workers, Held(v)'
      PROVE  /\ job'[v] = job[v] /\ Call(v)' = Call(v) /\ Call(v) \in Calls
             /\ Row(v)'.args = Row(v).args
             /\ Row(v)'.status = "pending" => Row(v)' = Row(v)
             /\ \A args : Lacks(Call(v), args) => Lacks(Call(v), args)'
    BY <1>1 DEF Quiet, Call, Row, Lacks
<1>2. ASSUME NEW v \in Workers
      PROVE  /\ Keeps(v)' => Keeps(v) /\ Held(v)'
             /\ Replaces(v)' => Replaces(v) /\ Held(v)'
             /\ Replaced(v)' => Replaced(v) /\ Held(v)'
    BY DEF Quiet, Held
<1>3. ASSUME NEW v \in Workers, AtOdds(v)' PROVE AtOdds(v)
    BY <1>1, <1>2, <1>3 DEF AtOdds
<1>4. ASSUME NEW c \in Calls, Resumable(c)' PROVE Resumable(c)
    <2>1. CASE ckpt'[c].status = "pending"
        BY <2>1 DEF Quiet, Resumable
    <2>2. CASE \E v \in Workers : Keeps(v)' /\ Responding(v)' /\ Call(v)' = c
        <3>1. PICK v \in Workers : Keeps(v)' /\ Responding(v)' /\ Call(v)' = c
            BY <2>2
        <3>2. Keeps(v) /\ Call(v) = c /\ (Responding(v) \/ Row(v).status = "pending")
            BY <1>1, <1>2, <3>1 DEF Quiet
        <3> QED BY <3>2 DEF Resumable, Row
    <2> QED BY <1>4, <2>1, <2>2 DEF Resumable
<1>5. ReplacedIsStored'
    <2> SUFFICES ASSUME NEW w \in Workers, Replaced(w)'
                 PROVE  /\ job'[w].args = Row(w)'.args
                        /\ pc'[w] \notin {"decide", "credential_check", "auth_required"}
                        /\ \A v \in Workers : Keeps(v)' /\ Call(v)' = Call(w)'
                                => Lacks(Call(v), job[v].args)'
        BY DEF ReplacedIsStored
    <2>1. job'[w].args = Row(w)'.args
        BY <1>1, <1>2 DEF ArgsInv, ReplacedIsStored
    <2>2. pc'[w] \notin {"decide", "credential_check", "auth_required"}
        BY DEF Quiet
    <2>3. ASSUME NEW v \in Workers, Keeps(v)', Call(v)' = Call(w)'
          PROVE  Lacks(Call(v), job[v].args)'
        <3>1. Lacks(Call(v), job[v].args)
            BY <1>1, <1>2, <2>3 DEF ArgsInv, ReplacedIsStored
        <3> QED BY <1>1, <1>2, <2>3, <3>1 DEF Lacks
    <2> QED BY <2>1, <2>2, <2>3
<1>6. OldCopiesLack'
    <2> SUFFICES ASSUME NEW w \in Workers, AtOdds(w)'
                 PROVE  /\ Lacks(Call(w), job[w].args)'
                        /\ Resumable(Call(w))' => Lacks(Call(w), Row(w).args)'
        BY DEF OldCopiesLack
    <2>1. AtOdds(w) /\ Held(w)'
        BY <1>2, <1>3 DEF AtOdds
    <2>2. Lacks(Call(w), job[w].args)'
        BY <1>1, <2>1 DEF ArgsInv, OldCopiesLack, Lacks
    <2>3. ASSUME Resumable(Call(w))' PROVE Lacks(Call(w), Row(w).args)'
        <3>1. Resumable(Call(w))
            BY <1>1, <1>4, <2>1, <2>3
        <3> QED BY <1>1, <2>1, <3>1 DEF ArgsInv, OldCopiesLack, Lacks
    <2> QED BY <2>2, <2>3
<1>7. MisfitsLack'
    BY <1>1, <1>2 DEF ArgsInv, MisfitsLack, Lacks
<1>8. \A c \in Calls : ckpt'[c].status = "pending" /\ ckpt'[c].reason = "input_required" =>
                    ~ (Required[tool'[c]] \subseteq ckpt'[c].args)
    BY DEF ArgsInv, AskedIsMissing, Quiet
<1> QED BY <1>5, <1>6, <1>7, <1>8
-----------------------------------------------------------------------------
\* Only a claimed call is approved, and no row goes back to asking for that.
LEMMA ApprovalStep ==
    ASSUME IInv, NotYetApproved, NEW w \in Workers, HandlerStep(w)
    PROVE  NotYetApproved'
<1>1. /\ Setting(w) /\ TypeOK /\ pc[w] # "idle" /\ Call(w) \in Calls
      /\ \A c \in Calls : c # Call(w) => ckpt'[c] = ckpt[c] /\ evidence'[c] = evidence[c]
      /\ \A fault : Fail(w, fault) => UNCHANGED <<ckpt, evidence>>
    BY StepSetting DEF Setting, Frame, Fail, callVars
<1> SUFFICES ASSUME "approved" \in evidence'[Call(w)]
             PROVE  /\ ckpt'[Call(w)].status # "absent"
                    /\ ckpt'[Call(w)].status = "pending" =>
                            ckpt'[Call(w)].reason # "approval_required"
    BY <1>1 DEF NotYetApproved
<1>2. ASSUME UNCHANGED <<ckpt, evidence>> PROVE NotYetApproved'
    BY <1>2 DEF NotYetApproved
<1>3. ASSUME NEW facts, Learn(w, facts), "approved" \notin facts
      PROVE  "approved" \in evidence[Call(w)]
    BY <1>1, <1>3, LearnEffect
<1>4. CASE Decide(w) \/ CredentialCheck(w) \/ SchemaCheck(w)
    <2>1. UNCHANGED ckpt
        BY <1>4 DEF Decide, CredentialCheck, SchemaCheck, Fail, callVars
    <2>2. "approved" \in evidence[Call(w)]
        BY <1>1, <1>3, <1>4 DEF Decide, CredentialCheck, SchemaCheck, callVars
    <2> QED BY <1>1, <2>1, <2>2 DEF NotYetApproved
<1>5. CASE CreateCheckpoint(w)
    <2>1. Row(w).status = "absent" /\ UNCHANGED evidence
        BY <1>1, <1>5
           DEF CreateCheckpoint, IInv, RowsMatchHandlers, Intake, Working, Reasons, FinalRows
    <2> QED BY <1>1, <2>1 DEF NotYetApproved, Row
<1>6. CASE RePause(w)
    <2>1. CASE UNCHANGED <<ckpt, evidence>>
        BY <1>1, <1>2, <2>1 DEF NotYetApproved
    <2>2. CASE ckpt'[Call(w)] = [Row(w) EXCEPT !.status = "pending", !.reason = pc[w],
                                               !.resume_from = ResumeFrom(pc[w])]
        <3>1. ckpt'[Call(w)].status = "pending" /\ ckpt'[Call(w)].reason = pc[w]
            BY <1>1, <2>2 DEF Setting, Checkpoints
        <3>2. pc[w] # "approval_required"
            BY <1>6 DEF RePause, IInv, PositionsMatchRequests, IntakeOnly
        <3> QED BY <3>1, <3>2
    <2> QED BY <1>1, <1>6, <2>1, <2>2 DEF RePause, TypeOK, Row
<1>7. CASE Claim(w)
    <2>1. CASE TakeRow(w)
        <3>1. ckpt'[Call(w)].status = "processing"
            BY <1>1, <2>1, StatusEffect DEF TakeRow
        <3> QED BY <3>1
    <2> QED BY <1>1, <1>2, <1>7, <2>1 DEF Claim, NotYetApproved, callVars
<1>8. CASE Deny(w) \/ Finalize(w)
    <2>1. \/ UNCHANGED <<ckpt, evidence>>
          \/ SetStatus(w, "denied") \/ SetStatus(w, "resolved") \/ SetStatus(w, "failed")
        BY <1>1, <1>8 DEF Deny, Finalize
    <2>2. \/ UNCHANGED <<ckpt, evidence>>
          \/ ckpt'[Call(w)].status \in {"denied", "resolved", "failed"}
        BY <1>1, <2>1, StatusEffect
    <2> QED BY <1>1, <1>2, <2>2 DEF NotYetApproved
<1>9. CASE Approve(w)
    <2>1. Row(w).status = "processing" /\ UNCHANGED ckpt
        BY <1>1, <1>9 DEF Approve, IInv, RowsMatchHandlers, Responding, Working, FinalRows
    <2> QED BY <2>1 DEF Row
<1>10. CASE ProvideInput(w)
    <2>1. CASE UNCHANGED <<ckpt, evidence>>
        BY <1>1, <1>2, <2>1 DEF NotYetApproved
    <2>2. CASE UNCHANGED evidence
               /\ \E args : ckpt' = [ckpt EXCEPT ![Call(w)].args = args]
        <3>1. ckpt'[Call(w)].status = Row(w).status /\ ckpt'[Call(w)].reason = Row(w).reason
            BY <1>1, <2>2 DEF Setting, TypeOK, Row, Checkpoints
        <3> QED BY <1>1, <2>2, <3>1 DEF NotYetApproved, Row
    <2> QED BY <1>1, <1>10, <2>1, <2>2 DEF ProvideInput
<1>11. CASE Dispatch(w) \/ Authenticate(w) \/ LogAndResume(w) \/ LogAndReturn(w)
    BY <1>1, <1>2, <1>11
       DEF Dispatch, Authenticate, LogAndResume, LogAndReturn, callVars, NotYetApproved
<1> QED
    BY <1>4, <1>5, <1>6, <1>7, <1>8, <1>9, <1>10, <1>11 DEF HandlerStep

\* A step of w is quiet if it is so for w and its row.
LEMMA QuietOwner ==
    ASSUME IInv, NEW w \in Workers, HandlerStep(w), schema \subseteq schema',
           ckpt'[Call(w)].args = ckpt[Call(w)].args,
           ckpt'[Call(w)].status = "pending" => ckpt'[Call(w)] = ckpt[Call(w)],
           Held(w)' => job'[w] = job[w],
           Keeps(w)' => Keeps(w),
           Keeps(w)' /\ Responding(w)' => Responding(w) \/ Row(w).status = "pending",
           Replaces(w)' => Replaces(w),
           Replaced(w)' => Replaced(w)
                           /\ pc'[w] \notin {"decide", "credential_check", "auth_required"},
           ReplacedIsStored
    PROVE  Quiet
<1>1. Setting(w) /\ Frame(w)
    BY StepSetting DEF Setting
<1>2. ASSUME NEW v \in Workers, v # w
      PROVE  /\ pc'[v] = pc[v] /\ job'[v] = job[v]
             /\ Keeps(v)' <=> Keeps(v)
             /\ Responding(v)' <=> Responding(v)
             /\ Replaces(v)' <=> Replaces(v)
             /\ Replaced(v)' <=> Replaced(v)
    BY <1>1, <1>2 DEF Frame, Keeps, Responding, Working, Replaces, Replaced
<1>3. ASSUME NEW v \in Workers, Held(v) PROVE Call(v) \in Calls
    <2>1. pc[v] # "idle"
        BY <1>3 DEF Held, Keeps, Replaces, Replaced, Responding, Working, HumanRows
    <2> QED BY <1>1, <2>1 DEF Setting
<1>4. ASSUME NEW v \in Workers, Held(v)'
      PROVE  job'[v] = job[v] /\ tool'[Call(v)] = tool[Call(v)] /\ Call(v) \in Calls
    <2>1. Held(v)
        BY <1>2, <1>4 DEF Held
    <2> QED BY <1>1, <1>2, <1>3, <1>4, <2>1 DEF Frame
<1>5. ASSUME NEW v \in Workers, Replaced(v)'
      PROVE  pc'[v] \notin {"decide", "credential_check", "auth_required"}
    BY <1>2, <1>5 DEF ReplacedIsStored
<1>6. \A c \in Calls : /\ ckpt'[c].args = ckpt[c].args /\ tool'[c] = tool[c]
                       /\ ckpt'[c].status = "pending" => ckpt'[c] = ckpt[c]
    BY <1>1 DEF Frame
<1> QED BY <1>2, <1>4, <1>5, <1>6 DEF Quiet

\* Giving up lets go of whatever the handler held.
LEMMA FailIsQuiet ==
    ASSUME IInv, ReplacedIsStored, NEW w \in Workers, HandlerStep(w), NEW fault, Fail(w, fault)
    PROVE  Quiet /\ pc'[w] = "idle"
<1>1. pc'[w] = "idle" /\ UNCHANGED <<ckpt, schema>>
    BY ReturnEffect DEF IInv, Fail, worldVars, callVars
<1>2. ~ Held(w)' /\ ~ Keeps(w)' /\ ~ Replaces(w)' /\ ~ Replaced(w)'
    BY <1>1 DEF Held, Keeps, Replaces, Replaced, Responding, Working, HumanRows
<1> QED BY <1>1, <1>2, QuietOwner

\* The policy is asked for a task, never for a response.
LEMMA DecideIsQuiet ==
    ASSUME IInv, ReplacedIsStored, NEW w \in Workers, Decide(w)
    PROVE  Quiet /\ pc'[w] \notin {"input_required", "dispatch"}
<1>1. HandlerStep(w)
    BY DEF HandlerStep
<1>2. CASE \A fault : ~ Fail(w, fault)
    <2>1. /\ pc'[w] \in {"blocked", "approval_required", "credential_check"} /\ job' = job
          /\ UNCHANGED <<ckpt, schema>> /\ job[w].action = "act"
        BY <1>2, GotoEffect
           DEF Decide, IInv, PositionsMatchRequests, IntakeOnly, worldVars, callVars
    <2>2. ~ Held(w)' /\ ~ Keeps(w)' /\ ~ Replaces(w)' /\ ~ Replaced(w)'
        BY <2>1 DEF Held, Keeps, Replaces, Replaced, Responding
    <2> QED BY <1>1, <2>1, <2>2, QuietOwner
<1> QED BY <1>1, <1>2, FailIsQuiet

\* The credential check keeps a copy, and meets none that was replaced.
LEMMA CredentialCheckIsQuiet ==
    ASSUME IInv, ReplacedIsStored, NEW w \in Workers, CredentialCheck(w)
    PROVE  Quiet /\ pc'[w] \notin {"input_required", "dispatch"}
<1>1. HandlerStep(w)
    BY DEF HandlerStep
<1>2. CASE Return(w) /\ UNCHANGED <<worldVars, callVars>>
    <2>1. pc'[w] = "idle" /\ UNCHANGED <<ckpt, schema>>
        BY <1>2, ReturnEffect DEF IInv, worldVars, callVars
    <2>2. ~ Held(w)' /\ ~ Keeps(w)' /\ ~ Replaces(w)' /\ ~ Replaced(w)'
        BY <2>1 DEF Held, Keeps, Replaces, Replaced, Responding, Working, HumanRows
    <2> QED BY <1>1, <2>1, <2>2, QuietOwner
<1>3. CASE (Goto(w, "auth_required") \/ Goto(w, "schema_check")) /\ UNCHANGED <<ckpt, schema>>
    <2>1. /\ pc'[w] \in {"auth_required", "schema_check"} /\ job' = job
          /\ UNCHANGED <<ckpt, schema>> /\ pc[w] = "credential_check"
        BY <1>3, GotoEffect DEF CredentialCheck, IInv
    <2>2. Keeps(w)' => Keeps(w) /\ Responding(w)
        BY <2>1 DEF Keeps, Responding, Working, HumanRows, FinalRows
    <2>3. ~ Replaces(w)' /\ ~ Replaced(w)
        BY <2>1 DEF Replaces, ReplacedIsStored
    <2>4. Replaced(w)' => Replaced(w)
        BY <2>1 DEF Replaced, Responding, Working, FinalRows
    <2> QED BY <1>1, <2>1, <2>2, <2>3, <2>4, QuietOwner
<1> QED
    BY <1>1, <1>2, <1>3, FailIsQuiet DEF CredentialCheck, worldVars, callVars

\* The schema check lets a copy pass against which the schema holds nothing,
\* and asks for what is missing in the others.
LEMMA SchemaCheckIsQuiet ==
    ASSUME IInv, ArgsInv, NEW w \in Workers, SchemaCheck(w)
    PROVE  /\ Quiet
           /\ pc'[w] = "input_required" => Lacks(Call(w), job[w].args)'
           /\ pc'[w] = "dispatch" /\ Responding(w)' => job'[w].args = Row(w)'.args
<1>1. HandlerStep(w) /\ ReplacedIsStored /\ TypeOK /\ Setting(w)
    BY StepSetting DEF HandlerStep, ArgsInv, IInv
<1>2. CASE \A fault : ~ Fail(w, fault)
    <2>1. /\ pc[w] = "schema_check" /\ job' = job /\ UNCHANGED <<ckpt, tool>>
          /\ schema \subseteq schema' /\ Call(w)' = Call(w)
          /\ \/ pc'[w] = "input_required" /\ Missing(Tool(w), schema', job[w].args) # {}
             \/ pc'[w] = "dispatch" /\ Missing(Tool(w), schema', job[w].args) = {}
        BY <1>1, <1>2, GotoEffect DEF SchemaCheck, Call
    <2>2. Keeps(w)' => Keeps(w) /\ Responding(w)
        BY <2>1 DEF Keeps, Responding, Working, HumanRows, FinalRows
    <2>3. ~ Replaces(w)'
        BY <2>1 DEF Replaces
    <2>4. Replaced(w)' => Replaced(w)
        BY <2>1 DEF Replaced, Responding, Working, FinalRows
    <2>5. Quiet
        BY <1>1, <2>1, <2>2, <2>3, <2>4, QuietOwner
    <2>6. pc'[w] = "input_required" => Lacks(Call(w), job[w].args)'
        BY <2>1 DEF Missing, Lacks, Tool
    <2>7. ASSUME pc'[w] = "dispatch", Responding(w)' PROVE job'[w].args = Row(w)'.args
        <3>1. ~ Lacks(Call(w), job[w].args)
            BY <2>1, <2>7 DEF Missing, Lacks, Tool
        <3>2. CASE job[w].action = "input"
            <4>1. Replaced(w)
                BY <2>1, <2>7, <3>2 DEF Replaced, Responding, Working, FinalRows
            <4> QED BY <1>1, <2>1, <4>1 DEF ReplacedIsStored, Row
        <3>3. CASE job[w].action \in {"approve", "authenticate"}
            <4>1. Keeps(w) /\ ~ AtOdds(w)
                BY <2>1, <3>1, <3>3 DEF Keeps, ArgsInv, OldCopiesLack
            <4> QED BY <2>1, <4>1 DEF AtOdds, Row
        <3>4. job[w].action \in {"input", "approve", "authenticate"}
            <4>1. job[w].action # "deny"
                BY <2>1 DEF IInv, PositionsMatchRequests, Working, FinalRows
            <4>2. job[w].action \in HumanActions \union {"act"} /\ job[w].action # "act"
                BY <1>1, <2>1, <2>7, BusyJob DEF Setting, Responding
            <4> QED BY <4>1, <4>2 DEF HumanActions
        <3> QED BY <3>2, <3>3, <3>4
    <2> QED BY <2>5, <2>6, <2>7
<1> QED BY <1>1, <1>2, FailIsQuiet

\* A dispatch is done with the copy.
LEMMA DispatchIsQuiet ==
    ASSUME IInv, ReplacedIsStored, NEW w \in Workers, Dispatch(w)
    PROVE  Quiet /\ pc'[w] \notin {"input_required", "dispatch"}
<1>1. HandlerStep(w)
    BY DEF HandlerStep
<1>2. /\ pc[w] = "dispatch" /\ job' = job /\ UNCHANGED <<ckpt, schema>>
      /\ pc'[w] \in {"success", "failed", "finalize_resolved", "finalize_failed"}
    BY GotoEffect DEF IInv, Dispatch, ToolsCall, Succeeds, Fails, Conclude, worldVars
<1>3. ~ Keeps(w)' /\ ~ Replaces(w)'
    BY <1>2 DEF Keeps, Replaces, HumanRows
<1>4. Replaced(w)' => Replaced(w)
    BY <1>2 DEF Replaced, Responding, Working, FinalRows
<1> QED BY <1>1, <1>2, <1>3, <1>4, QuietOwner

\* Claiming keeps the copy that was read before.
LEMMA ClaimIsQuiet ==
    ASSUME IInv, ReplacedIsStored, NEW w \in Workers, Claim(w)
    PROVE  Quiet /\ pc'[w] \notin {"input_required", "dispatch"}
<1>1. HandlerStep(w) /\ pc[w] = "claim"
    BY DEF HandlerStep, Claim
<1>2. Setting(w) /\ TypeOK /\ pc[w] # "idle" /\ Call(w) \in Calls
    BY <1>1, StepSetting DEF Setting
<1>3. \/ UNCHANGED <<ckpt, schema>> /\ Return(w)
      \/ TakeRow(w) /\ Return(w)
      \/ TakeRow(w) /\ Goto(w, "apply") /\ Row(w).status = "pending"
    BY DEF Claim, Fail, worldVars, callVars
<1>4. ASSUME TakeRow(w)
      PROVE  /\ ckpt'[Call(w)].status = "processing" /\ schema' = schema
             /\ ckpt'[Call(w)].args = ckpt[Call(w)].args
    <2>1. ckpt' = [ckpt EXCEPT ![Call(w)].status = "processing"] /\ schema' = schema
        BY <1>4 DEF TakeRow, SetStatus, worldVars
    <2> QED BY <1>2, <2>1 DEF Setting, TypeOK, Row, Checkpoints
<1>5. CASE Return(w)
    <2>1. pc'[w] = "idle"
        BY <1>2, <1>5, ReturnEffect
    <2>2. ~ Held(w)' /\ ~ Keeps(w)' /\ ~ Replaces(w)' /\ ~ Replaced(w)'
        BY <2>1 DEF Held, Keeps, Replaces, Replaced, Responding, Working, HumanRows
    <2>3. \/ UNCHANGED <<ckpt, schema>>
          \/ /\ ckpt'[Call(w)].status = "processing" /\ schema' = schema
             /\ ckpt'[Call(w)].args = ckpt[Call(w)].args
        BY <1>3, <1>4
    <2> QED BY <1>1, <2>1, <2>2, <2>3, QuietOwner
<1>6. CASE TakeRow(w) /\ Goto(w, "apply") /\ Row(w).status = "pending"
    <2>1. pc'[w] = "apply" /\ job' = job
        BY <1>2, <1>6, GotoEffect
    <2>2. (Keeps(w)' => Keeps(w)) /\ (Replaces(w)' => Replaces(w)) /\ ~ Replaced(w)'
        BY <1>1, <2>1 DEF Keeps, Replaces, Replaced
    <2> QED BY <1>1, <1>4, <1>6, <2>1, <2>2, QuietOwner
<1> QED BY <1>3, <1>5, <1>6

\* A row that gets its verdict waits for nobody.
LEMMA VerdictIsQuiet ==
    ASSUME IInv, ReplacedIsStored, NEW w \in Workers, Deny(w) \/ Finalize(w)
    PROVE  Quiet /\ pc'[w] \notin {"input_required", "dispatch"}
<1>1. HandlerStep(w)
    BY DEF HandlerStep
<1>2. Setting(w) /\ TypeOK /\ pc[w] # "idle" /\ Call(w) \in Calls
    BY <1>1, StepSetting DEF Setting
<1>3. CASE \A fault : ~ Fail(w, fault)
    <2>1. PICK status \in {"denied", "resolved", "failed"} : SetStatus(w, status)
        BY <1>3 DEF Deny, Finalize
    <2>2. /\ schema' = schema
          /\ \/ Goto(w, "denied") \/ Goto(w, "resumed_success") \/ Goto(w, "resumed_failed")
        BY <1>3 DEF Deny, Finalize, worldVars
    <2>3. ckpt'[Call(w)].status = status /\ ckpt'[Call(w)].args = ckpt[Call(w)].args
        BY <1>2, <2>1 DEF SetStatus, Setting, TypeOK, Row, Checkpoints
    <2>4. pc'[w] \in {"denied", "resumed_success", "resumed_failed"}
        BY <1>2, <2>2, GotoEffect
    <2>5. ~ Held(w)' /\ ~ Keeps(w)' /\ ~ Replaces(w)' /\ ~ Replaced(w)'
        BY <2>4 DEF Held, Keeps, Replaces, Replaced, Responding, Working, HumanRows, FinalRows
    <2> QED BY <1>1, <2>2, <2>3, <2>4, <2>5, QuietOwner
<1> QED BY <1>1, <1>3, FailIsQuiet

\* An approval and a sign-in keep the copy.
LEMMA AnswerIsQuiet ==
    ASSUME IInv, ReplacedIsStored, NEW w \in Workers, Approve(w) \/ Authenticate(w)
    PROVE  Quiet /\ pc'[w] \notin {"input_required", "dispatch"}
<1>1. HandlerStep(w)
    BY DEF HandlerStep
<1>2. /\ pc[w] = "apply" /\ job[w].action \in {"approve", "authenticate"} /\ job' = job
      /\ UNCHANGED <<ckpt, schema>> /\ pc'[w] \in {"approved", "authenticated"}
    BY GotoEffect DEF IInv, Approve, Authenticate, worldVars, callVars
<1>3. Keeps(w) /\ Responding(w) /\ ~ Replaces(w)' /\ ~ Replaced(w)'
    BY <1>2 DEF Keeps, Replaces, Replaced, Responding, Working, FinalRows
<1> QED BY <1>1, <1>2, <1>3, QuietOwner

\* A response resumes where its snapshot says: after new arguments, at the
\* schema check.
LEMMA ResumeIsQuiet ==
    ASSUME IInv, ReplacedIsStored, NEW w \in Workers, LogAndResume(w)
    PROVE  Quiet /\ pc'[w] \notin {"input_required", "dispatch"}
<1>1. HandlerStep(w)
    BY DEF HandlerStep
<1>2. /\ pc[w] \in HumanRows /\ job' = job /\ UNCHANGED <<ckpt, schema>>
      /\ pc'[w] = job[w].resume_from
    BY GotoEffect DEF IInv, LogAndResume, worldVars
<1>3. job[w].action \in {"approve", "authenticate", "input"}
    <2>1. job[w].action \in HumanActions \union {"act"}
        BY <1>2, BusyJob DEF IInv, HumanRows
    <2>2. job[w].action # "act" /\ job[w].action # "deny"
        BY <1>2 DEF IInv, PositionsMatchRequests, ResponseOnly, Working, HumanRows, FinalRows
    <2> QED BY <2>1, <2>2 DEF HumanActions
<1>4. /\ job[w].action = "input" => pc'[w] = "schema_check"
      /\ pc'[w] \in {"schema_check", "credential_check"}
    <2>1. PICK reason \in Reasons : job[w].action = ExpectedAction[reason]
        BY <1>3 DEF ExpectedAction, Reasons
    <2>2. job[w].resume_from = ResumeFrom(reason)
        BY <1>2, <2>1 DEF IInv, SnapshotsAreEarned
    <2> QED BY <1>2, <2>1, <2>2 DEF ResumeFrom, ExpectedAction, Reasons
<1>5. /\ Keeps(w)' => Keeps(w) /\ Responding(w)
      /\ ~ Replaces(w)'
      /\ Replaced(w)' => Replaced(w) /\ pc'[w] = "schema_check"
    BY <1>2, <1>4 DEF Keeps, Replaces, Replaced, Responding, Working, HumanRows, FinalRows
<1> QED BY <1>1, <1>2, <1>4, <1>5, QuietOwner

\* The last row is logged with nothing in hand.
LEMMA ReturnIsQuiet ==
    ASSUME IInv, ReplacedIsStored, NEW w \in Workers, LogAndReturn(w)
    PROVE  Quiet /\ pc'[w] \notin {"input_required", "dispatch"}
<1>1. HandlerStep(w)
    BY DEF HandlerStep
<1>2. pc'[w] = "idle" /\ UNCHANGED <<ckpt, schema>>
    BY ReturnEffect DEF IInv, LogAndReturn, worldVars
<1>3. ~ Held(w)' /\ ~ Keeps(w)' /\ ~ Replaces(w)' /\ ~ Replaced(w)'
    BY <1>2 DEF Held, Keeps, Replaces, Replaced, Responding, Working, HumanRows
<1> QED BY <1>1, <1>2, <1>3, QuietOwner

\* Whoever asks goes on lacking, and whoever dispatches goes on agreeing with
\* its row, when a step of another handler leaves that row's arguments alone.
LEMMA PositionsKeep ==
    ASSUME IInv, ArgsInv, NEW w \in Workers, HandlerStep(w), schema \subseteq schema',
           \A v \in Workers : v # w /\ Responding(v) => Row(v)'.args = Row(v).args,
           pc'[w] = "input_required" => Lacks(Call(w), job[w].args)',
           pc'[w] = "dispatch" /\ Responding(w)' => job'[w].args = Row(w)'.args
    PROVE  /\ DispatchesStoredArguments'
           /\ \A v \in Workers : pc'[v] = "input_required" => Lacks(Call(v), job[v].args)'
<1>1. Setting(w) /\ Frame(w)
    BY StepSetting DEF Setting
<1>2. ASSUME NEW v \in Workers, v # w
      PROVE  /\ pc'[v] = pc[v] /\ job'[v] = job[v] /\ Call(v)' = Call(v)
             /\ Responding(v)' <=> Responding(v)
    BY <1>1, <1>2 DEF Frame, Call, Responding, Working
<1>3. ASSUME NEW v \in Workers, pc'[v] = "input_required"
      PROVE  Lacks(Call(v), job[v].args)'
    <2>1. CASE v # w
        BY <1>1, <1>2, <1>3, <2>1 DEF Frame, ArgsInv, AskedIsMissing, Lacks
    <2> QED BY <1>3, <2>1
<1>4. ASSUME NEW v \in Workers, pc'[v] = "dispatch", Responding(v)'
      PROVE  job'[v].args = Row(v)'.args
    <2>1. CASE v # w
        BY <1>2, <1>4, <2>1 DEF ArgsInv, DispatchesStoredArguments
    <2> QED BY <1>4, <2>1
<1> QED BY <1>3, <1>4 DEF DispatchesStoredArguments

\* Quiet handler steps keep the whole of it.
LEMMA QuietStepKeeps ==
    ASSUME IInv, ArgsInv, NEW w \in Workers, HandlerStep(w), Quiet,
           pc'[w] = "input_required" => Lacks(Call(w), job[w].args)',
           pc'[w] = "dispatch" /\ Responding(w)' => job'[w].args = Row(w)'.args
    PROVE  ArgsInv'
<1>1. NotYetApproved'
    BY ApprovalStep DEF ArgsInv
<1>2. ReplacedIsStored' /\ OldCopiesLack' /\ MisfitsLack'
    BY QuietKeeps
<1>3. \A v \in Workers : v # w /\ Responding(v) => Row(v)'.args = Row(v).args
    <2>1. Setting(w) /\ Frame(w)
        BY StepSetting DEF Setting
    <2>2. \A v \in Workers : Responding(v) => Call(v) \in Calls
        BY <2>1 DEF Setting, Responding, Working
    <2> QED BY <2>1, <2>2 DEF Frame, Quiet, Row, Call
<1>4. /\ DispatchesStoredArguments'
      /\ \A v \in Workers : pc'[v] = "input_required" => Lacks(Call(v), job[v].args)'
    BY <1>3, PositionsKeep DEF Quiet
<1>5. AskedIsMissing'
    BY <1>4, QuietKeeps DEF AskedIsMissing
<1> QED BY <1>1, <1>2, <1>4, <1>5 DEF ArgsInv
-----------------------------------------------------------------------------
\* What the invariant says of one responder.
Sound(w) ==
    /\ Replaced(w) =>
        /\ job[w].args = Row(w).args
        /\ pc[w] \notin {"decide", "credential_check", "auth_required"}
        /\ \A v \in Workers : Keeps(v) /\ Call(v) = Call(w) => Lacks(Call(v), job[v].args)
    /\ AtOdds(w) =>
        /\ Lacks(Call(w), job[w].args)
        /\ Resumable(Call(w)) => Lacks(Call(w), Row(w).args)
    /\ Replaces(w) /\ Row(w).status = "pending" /\ Row(w).reason # "input_required"
            => Lacks(Call(w), Row(w).args)
    /\ Keeps(w) /\ Row(w).status = "pending" /\ Row(w).reason = "input_required"
            => Lacks(Call(w), Row(w).args) /\ Lacks(Call(w), job[w].args)

\* It says so of every responder.
LEMMA AllSound ==
    ReplacedIsStored /\ OldCopiesLack /\ MisfitsLack <=> \A w \in Workers : Sound(w)
BY DEF ReplacedIsStored, OldCopiesLack, MisfitsLack, Sound

\* Who holds a copy is busy, and the row is there; who is past the claim is
\* alone with its call.
LEMMA HeldFacts ==
    ASSUME IInv, NEW v \in Workers, Held(v)
    PROVE  /\ pc[v] # "idle" /\ Call(v) \in Calls /\ Row(v).status # "absent"
           /\ Responding(v) => Row(v).status = "processing"
           /\ pc[v] = "claim" \/ Responding(v)
<1>1. pc[v] # "idle" /\ (pc[v] = "claim" \/ Responding(v))
    BY DEF Held, Keeps, Replaces, Replaced, Responding, Working, HumanRows, FinalRows
<1>2. Call(v) \in Calls
    BY <1>1, BusyJob DEF IInv
<1> QED BY <1>1, <1>2 DEF IInv, RowsMatchHandlers

\* A handler that works on a call and gives no copy away leaves the responders
\* of other calls as they are.
LEMMA OtherCallsSound ==
    ASSUME IInv, ArgsInv, NEW w \in Workers, HandlerStep(w), UNCHANGED schema,
           Call(w)' = Call(w),
           NEW v \in Workers, v # w, Call(v) # Call(w)
    PROVE  Sound(v)'
<1>1. Setting(w) /\ Frame(w)
    BY StepSetting DEF Setting
<1>2. ASSUME NEW u \in Workers, u # w
      PROVE  /\ pc'[u] = pc[u] /\ job'[u] = job[u] /\ Call(u)' = Call(u)
             /\ Keeps(u)' <=> Keeps(u)
             /\ Responding(u)' <=> Responding(u)
             /\ Replaces(u)' <=> Replaces(u)
             /\ Replaced(u)' <=> Replaced(u)
    BY <1>1, <1>2 DEF Frame, Call, Keeps, Responding, Working, Replaces, Replaced
<1>3. Sound(v)
    BY AllSound DEF ArgsInv
<1>4. CASE ~ Held(v)
    BY <1>2, <1>4 DEF Sound, AtOdds, Held
<1>5. CASE Held(v)
    <2>1. /\ Call(v) \in Calls /\ Call(v)' = Call(v) /\ job'[v] = job[v] /\ pc'[v] = pc[v]
          /\ Row(v)' = Row(v) /\ tool'[Call(v)] = tool[Call(v)]
        BY <1>1, <1>2, <1>5, HeldFacts DEF Frame, Row
    <2>2. \A args : Lacks(Call(v), args)' <=> Lacks(Call(v), args)
        BY <2>1 DEF Lacks
    <2>3. AtOdds(v)' => AtOdds(v)
        BY <1>2, <2>1 DEF AtOdds
    <2>4. Resumable(Call(v))' => Resumable(Call(v))
        BY <1>2, <2>1 DEF Resumable, Row
    <2>5. ASSUME NEW u \in Workers, Keeps(u)', Call(u)' = Call(v)', Replaced(v)
          PROVE  Lacks(Call(u), job[u].args)'
        <3>1. u # w /\ Keeps(u) /\ Call(u) = Call(v) /\ job'[u] = job[u]
            BY <1>2, <2>1, <2>5
        <3>2. Lacks(Call(u), job[u].args)
            BY <1>3, <2>5, <3>1 DEF Sound
        <3> QED BY <1>2, <2>1, <3>1, <3>2 DEF Lacks
    <2> QED BY <1>2, <1>3, <2>1, <2>2, <2>3, <2>4, <2>5 DEF Sound
<1> QED BY <1>4, <1>5

\* Another handler with the same call is waiting to claim it, if anything.
LEMMA RivalsClaim ==
    ASSUME IInv, NEW w \in Workers, Working(w), NEW v \in Workers, v # w,
           Call(v) = Call(w), Held(v)
    PROVE  pc[v] = "claim" /\ ~ Responding(v) /\ ~ Replaced(v)
BY HeldFacts DEF IInv, OneOwner, Responding, Replaced

\* A new row has no responders yet; if it asks for arguments, they are missing.
LEMMA CreateKeeps ==
    ASSUME IInv, ArgsInv, NEW w \in Workers, CreateCheckpoint(w)
    PROVE  ArgsInv'
<1>1. HandlerStep(w) /\ ReplacedIsStored
    BY DEF HandlerStep, ArgsInv
<1>2. Setting(w) /\ Frame(w) /\ TypeOK /\ Call(w) \in Calls
    BY <1>1, StepSetting DEF Setting
<1>3. CASE \A fault : ~ Fail(w, fault)
    <2>1. /\ pc[w] \in Reasons /\ job[w].action = "act" /\ Row(w).status = "absent"
          /\ pc'[w] = "paused" /\ job' = job /\ UNCHANGED <<schema, tool>> /\ Call(w)' = Call(w)
          /\ ckpt'[Call(w)] = [status |-> "pending", reason |-> pc[w],
                               resume_from |-> ResumeFrom(pc[w]), args |-> job[w].args]
        BY <1>2, <1>3, GotoEffect
           DEF CreateCheckpoint, TypeOK, worldVars, Call, IInv, RowsMatchHandlers, Intake,
               Working, Reasons, FinalRows
    <2>2. Sound(w)'
        <3>1. ~ Keeps(w)' /\ ~ Replaces(w)' /\ ~ Replaced(w)'
            BY <2>1 DEF Keeps, Replaces, Replaced, Responding, Working, HumanRows, FinalRows
        <3> QED BY <3>1 DEF Sound, AtOdds
    <2>3. ASSUME NEW v \in Workers, v # w PROVE Sound(v)'
        <3>1. CASE Call(v) # Call(w)
            BY <1>1, <2>1, <2>3, <3>1, OtherCallsSound
        <3>2. CASE Call(v) = Call(w)
            <4>1. ~ Held(v)
                BY <2>1, <3>2, HeldFacts DEF Row
            <4>2. ~ Held(v)'
                BY <1>2, <2>3, <4>1
                   DEF Frame, Held, Keeps, Replaces, Replaced, Responding, Working
            <4> QED BY <4>2 DEF Sound, AtOdds, Held
        <3> QED BY <3>1, <3>2
    <2>4. ReplacedIsStored' /\ OldCopiesLack' /\ MisfitsLack'
        <3>1. \A v \in Workers : Sound(v)'
            BY <2>2, <2>3
        <3> QED BY <3>1 DEF ReplacedIsStored, OldCopiesLack, MisfitsLack, Sound
    <2>5. \A v \in Workers : v # w /\ Responding(v) => Row(v)'.args = Row(v).args
        BY <1>2, <2>1 DEF Setting, Frame, Row, Responding, Working, Call, Reasons, FinalRows
    <2>6. /\ DispatchesStoredArguments'
          /\ \A v \in Workers : pc'[v] = "input_required" => Lacks(Call(v), job[v].args)'
        BY <1>1, <2>1, <2>5, PositionsKeep
    <2>7. ASSUME NEW c \in Calls, ckpt'[c].status = "pending", ckpt'[c].reason = "input_required"
          PROVE  ~ (Required[tool'[c]] \subseteq ckpt'[c].args)
        <3>1. CASE c = Call(w)
            <4>1. pc[w] = "input_required" /\ ckpt'[c].args = job[w].args
                BY <2>1, <2>7, <3>1
            <4>2. Lacks(Call(w), job[w].args)
                BY <4>1 DEF ArgsInv, AskedIsMissing
            <4> QED BY <2>1, <3>1, <4>1, <4>2 DEF Lacks
        <3>2. CASE c # Call(w)
            BY <1>2, <2>7, <3>2 DEF Frame, ArgsInv, AskedIsMissing
        <3> QED BY <3>1, <3>2
    <2>8. AskedIsMissing'
        BY <2>6, <2>7 DEF AskedIsMissing
    <2>9. NotYetApproved'
        BY <1>1, ApprovalStep DEF ArgsInv
    <2> QED BY <2>4, <2>6, <2>8, <2>9 DEF ArgsInv
<1> QED BY <1>1, <1>3, FailIsQuiet, QuietStepKeeps

\* A row that pauses again waits with the arguments it has, and asks for those
\* that are missing; whoever wants to claim it with older ones lacks some.
LEMMA RePauseKeeps ==
    ASSUME IInv, ArgsInv, NEW w \in Workers, RePause(w)
    PROVE  ArgsInv'
<1>1. HandlerStep(w) /\ ReplacedIsStored
    BY DEF HandlerStep, ArgsInv
<1>2. Setting(w) /\ Frame(w) /\ TypeOK /\ Call(w) \in Calls
    BY <1>1, StepSetting DEF Setting
<1>3. CASE \A fault : ~ Fail(w, fault)
    <2>1. /\ pc[w] \in Reasons /\ job[w].action # "act" /\ Working(w) /\ Responding(w)
          /\ pc'[w] = "re_paused" /\ job' = job /\ UNCHANGED <<schema, tool>> /\ Call(w)' = Call(w)
        BY <1>2, <1>3, GotoEffect
           DEF RePause, worldVars, Call, Responding, Working, Reasons, FinalRows
    <2>2. /\ Row(w)'.status = "pending" /\ Row(w)'.reason = pc[w]
          /\ Row(w)'.args = Row(w).args
        <3>1. Row(w)' = [Row(w) EXCEPT !.status = "pending", !.reason = pc[w],
                                       !.resume_from = ResumeFrom(pc[w])]
            BY <1>2, <1>3, <2>1 DEF RePause, TypeOK, Row
        <3> QED BY <1>2, <3>1 DEF Setting, Checkpoints
    <2>3. pc[w] # "approval_required" /\ job[w].action # "deny"
        BY <2>1 DEF IInv, PositionsMatchRequests, IntakeOnly, Reasons
    <2>4. Keeps(w) \/ (Replaced(w) /\ pc[w] = "input_required")
        <3>1. job[w].action \in HumanActions \union {"act"}
            BY <1>2, BusyJob DEF Setting
        <3>2. Keeps(w) \/ Replaced(w)
            BY <2>1, <2>3, <3>1 DEF HumanActions, Keeps, Replaced, Reasons
        <3>3. Replaced(w) => pc[w] = "input_required"
            BY <1>1, <2>1, <2>3 DEF ReplacedIsStored, Reasons
        <3> QED BY <3>2, <3>3
    <2>5. Keeps(w) => Resumable(Call(w))
        BY <2>1 DEF Resumable
    <2>6. pc[w] = "input_required" => Lacks(Call(w), job[w].args)
        BY DEF ArgsInv, AskedIsMissing
    <2>7. pc[w] = "input_required" => Lacks(Call(w), Row(w).args)
        BY <2>4, <2>5, <2>6 DEF ArgsInv, OldCopiesLack, AtOdds, ReplacedIsStored
    <2>8. \A c, args : Lacks(c, args)' <=> Lacks(c, args)
        BY <2>1 DEF Lacks
    <2>9. Sound(w)'
        <3>1. ~ Keeps(w)' /\ ~ Replaces(w)' /\ ~ Replaced(w)'
            BY <2>1 DEF Keeps, Replaces, Replaced, Responding, Working, HumanRows, FinalRows
        <3> QED BY <3>1 DEF Sound, AtOdds
    <2>10. ASSUME NEW v \in Workers, v # w, Call(v) = Call(w), Held(v) PROVE Sound(v)'
        <3>1. /\ pc'[v] = "claim" /\ job'[v] = job[v] /\ Call(v)' = Call(w)
              /\ (Keeps(v)' <=> Keeps(v)) /\ (Replaces(v)' <=> Replaces(v)) /\ ~ Replaced(v)'
              /\ Row(v)' = Row(w)' /\ Row(v) = Row(w)
            <4>1. pc[v] = "claim"
                BY <2>1, <2>10, RivalsClaim
            <4>2. pc'[v] = pc[v] /\ job'[v] = job[v]
                BY <1>2, <2>10 DEF Frame
            <4>3. Call(v)' = Call(w)
                BY <2>10, <4>2 DEF Call
            <4> QED
                BY <2>1, <2>10, <4>1, <4>2, <4>3
                   DEF Row, Keeps, Replaces, Replaced, Responding, Working
        <3>2. \A u \in Workers : u # w => (Replaces(u)' <=> Replaces(u)) /\ Call(u)' = Call(u)
            BY <1>2 DEF Frame, Replaces, Call
        <3>3. ASSUME AtOdds(v)'
              PROVE  Lacks(Call(w), job[v].args) /\ Lacks(Call(w), Row(w).args)
            <4>1. ~ Replaces(w)'
                BY <2>1 DEF Replaces
            <4>2. AtOdds(v)
                BY <2>2, <2>10, <3>1, <3>2, <3>3, <4>1 DEF AtOdds
            <4>3. Lacks(Call(w), job[v].args)
                BY <2>10, <4>2 DEF ArgsInv, OldCopiesLack
            <4>4. CASE Keeps(w)
                BY <2>5, <2>10, <3>1, <4>2, <4>3, <4>4 DEF ArgsInv, OldCopiesLack
            <4> QED BY <2>4, <2>7, <4>3, <4>4
        <3>4. ASSUME Replaces(v), pc[w] # "input_required"
              PROVE  Lacks(Call(w), Row(w).args)
            <4>1. AtOdds(w)
                BY <2>4, <2>10, <3>4 DEF AtOdds
            <4> QED BY <2>4, <2>5, <3>4, <4>1 DEF ArgsInv, OldCopiesLack
        <3>5. ASSUME Keeps(v), pc[w] = "input_required"
              PROVE  Lacks(Call(w), Row(w).args) /\ Lacks(Call(w), job[v].args)
            <4>1. CASE Replaced(w)
                BY <2>7, <2>10, <3>5, <4>1 DEF ArgsInv, ReplacedIsStored
            <4>2. CASE AtOdds(v)
                BY <2>7, <2>10, <3>5, <4>2 DEF ArgsInv, OldCopiesLack
            <4>3. CASE ~ AtOdds(v)
                BY <2>7, <3>1, <3>5, <4>3 DEF AtOdds
            <4> QED BY <4>2, <4>3
        <3> QED BY <2>2, <2>8, <3>1, <3>3, <3>4, <3>5 DEF Sound
    <2>11. ASSUME NEW v \in Workers, v # w PROVE Sound(v)'
        <3>1. CASE Call(v) # Call(w)
            BY <1>1, <2>1, <2>11, <3>1, OtherCallsSound
        <3>2. CASE ~ Held(v)
            <4>1. ~ Held(v)'
                BY <1>2, <2>11, <3>2
                   DEF Frame, Held, Keeps, Replaces, Replaced, Responding, Working
            <4> QED BY <4>1 DEF Sound, AtOdds, Held
        <3> QED BY <2>10, <2>11, <3>1, <3>2
    <2>12. ReplacedIsStored' /\ OldCopiesLack' /\ MisfitsLack'
        <3>1. \A v \in Workers : Sound(v)'
            BY <2>9, <2>11
        <3> QED BY <3>1 DEF ReplacedIsStored, OldCopiesLack, MisfitsLack, Sound
    <2>13. \A v \in Workers : v # w /\ Responding(v) => Row(v)'.args = Row(v).args
        BY <1>2, <2>1 DEF Setting, Frame, Row, Responding, Working, Call
    <2>14. /\ DispatchesStoredArguments'
           /\ \A v \in Workers : pc'[v] = "input_required" => Lacks(Call(v), job[v].args)'
        BY <1>1, <2>1, <2>13, PositionsKeep
    <2>15. ASSUME NEW c \in Calls, ckpt'[c].status = "pending", ckpt'[c].reason = "input_required"
           PROVE  ~ (Required[tool'[c]] \subseteq ckpt'[c].args)
        <3>1. CASE c = Call(w)
            BY <2>1, <2>2, <2>7, <2>15, <3>1 DEF Row, Lacks
        <3>2. CASE c # Call(w)
            BY <1>2, <2>15, <3>2 DEF Frame, ArgsInv, AskedIsMissing
        <3> QED BY <3>1, <3>2
    <2>16. AskedIsMissing'
        BY <2>14, <2>15 DEF AskedIsMissing
    <2>17. NotYetApproved'
        BY <1>1, ApprovalStep DEF ArgsInv
    <2> QED BY <2>12, <2>14, <2>16, <2>17 DEF ArgsInv
<1> QED BY <1>1, <1>3, FailIsQuiet, QuietStepKeeps

\* New arguments go into the row and into the handler's hands at once; whoever
\* still holds older ones of the same call lacks some.
LEMMA ProvideInputKeeps ==
    ASSUME IInv, ArgsInv, NEW w \in Workers, ProvideInput(w)
    PROVE  ArgsInv'
<1>1. HandlerStep(w) /\ ReplacedIsStored
    BY DEF HandlerStep, ArgsInv
<1>2. Setting(w) /\ Frame(w) /\ TypeOK /\ Call(w) \in Calls /\ job[w] \in Jobs
    BY <1>1, StepSetting DEF Setting
<1>3. CASE \A fault : ~ Fail(w, fault)
    <2>1. PICK merged :
            /\ ckpt' = [ckpt EXCEPT ![Call(w)].args = merged]
            /\ job' = [job EXCEPT ![w].args = merged]
            /\ pc' = [pc EXCEPT ![w] = "input_provided"]
            /\ UNCHANGED <<schema, tool>>
        BY <1>3 DEF ProvideInput, worldVars
    <2>2. /\ pc[w] = "apply" /\ job[w].action = "input" /\ pc'[w] = "input_provided"
          /\ job'[w].action = "input" /\ job'[w].args = merged /\ Call(w)' = Call(w)
        BY <1>2, <1>3, <2>1 DEF ProvideInput, TypeOK, Jobs, Call
    <2>3. Row(w)'.args = merged /\ Row(w)'.status = Row(w).status
        BY <1>2, <2>1, <2>2 DEF Setting, TypeOK, Row, Checkpoints
    <2>4. Replaces(w) /\ Working(w) /\ Row(w).status = "processing"
        BY <2>2
           DEF Replaces, Working, FinalRows, Responding, IInv, RowsMatchHandlers
    <2>5. \A c, args : Lacks(c, args)' <=> Lacks(c, args)
        BY <2>1 DEF Lacks
    <2>6. ASSUME NEW v \in Workers, v # w
          PROVE  /\ pc'[v] = pc[v] /\ job'[v] = job[v] /\ Call(v)' = Call(v)
                 /\ Keeps(v)' <=> Keeps(v)
                 /\ Responding(v)' <=> Responding(v)
                 /\ Replaces(v)' <=> Replaces(v)
                 /\ Replaced(v)' <=> Replaced(v)
        BY <1>2, <2>6 DEF Frame, Call, Keeps, Responding, Working, Replaces, Replaced
    <2>7. ~ Keeps(w)' /\ ~ Replaces(w)'
        BY <2>2 DEF Keeps, Replaces
    <2>8. ASSUME NEW v \in Workers, Keeps(v), v # w, Call(v) = Call(w)
          PROVE  Lacks(Call(v), job[v].args)
        <3>1. AtOdds(v)
            BY <2>4, <2>8 DEF AtOdds
        <3> QED BY <3>1 DEF ArgsInv, OldCopiesLack
    <2>9. Sound(w)'
        <3>1. \A v \in Workers : Keeps(v)' /\ Call(v)' = Call(w)' => Lacks(Call(v), job[v].args)'
            BY <2>2, <2>5, <2>6, <2>7, <2>8
        <3> QED BY <2>2, <2>3, <2>7, <3>1 DEF Sound, AtOdds
    <2>10. ASSUME NEW v \in Workers, v # w, Call(v) = Call(w), Held(v) PROVE Sound(v)'
        <3>1. ~ Responding(v) /\ ~ Replaced(v)' /\ Row(v)' = Row(w)'
            BY <2>2, <2>4, <2>6, <2>10, RivalsClaim DEF Row
        <3>2. ~ Resumable(Call(v))'
            <4>1. ASSUME NEW u \in Workers, Keeps(u)', Responding(u)', Call(u)' = Call(w)
                  PROVE  FALSE
                <5>1. u # w /\ Working(u) /\ Call(u) = Call(w)
                    BY <2>6, <2>7, <4>1 DEF Responding
                <5> QED BY <2>4, <5>1 DEF IInv, OneOwner
            <4>2. ckpt'[Call(w)].status # "pending"
                BY <2>2, <2>3, <2>4 DEF Row
            <4> QED BY <2>6, <2>10, <4>1, <4>2 DEF Resumable
        <3>3. AtOdds(v)' => Lacks(Call(v), job[v].args)'
            BY <2>5, <2>6, <2>8, <2>10 DEF AtOdds
        <3> QED BY <2>3, <2>4, <3>1, <3>2, <3>3 DEF Sound
    <2>11. ASSUME NEW v \in Workers, v # w PROVE Sound(v)'
        <3>1. CASE Call(v) # Call(w)
            BY <1>1, <2>1, <2>2, <2>11, <3>1, OtherCallsSound
        <3>2. CASE ~ Held(v)
            BY <2>6, <2>11, <3>2 DEF Sound, AtOdds, Held
        <3> QED BY <2>10, <2>11, <3>1, <3>2
    <2>12. ReplacedIsStored' /\ OldCopiesLack' /\ MisfitsLack'
        <3>1. \A v \in Workers : Sound(v)'
            BY <2>9, <2>11
        <3> QED BY <3>1 DEF ReplacedIsStored, OldCopiesLack, MisfitsLack, Sound
    <2>13. \A v \in Workers : v # w /\ Responding(v) => Row(v)'.args = Row(v).args
        BY <1>2, <2>4 DEF Setting, Frame, Row, Responding, Working, Call
    <2>14. /\ DispatchesStoredArguments'
           /\ \A v \in Workers : pc'[v] = "input_required" => Lacks(Call(v), job[v].args)'
        BY <1>1, <2>1, <2>2, <2>13, PositionsKeep
    <2>15. \A c \in Calls : ckpt'[c].status = "pending" => c # Call(w)
        BY <2>2, <2>3, <2>4 DEF Row
    <2>16. AskedIsMissing'
        BY <1>2, <2>14, <2>15 DEF Frame, ArgsInv, AskedIsMissing
    <2>17. NotYetApproved'
        BY <1>1, ApprovalStep DEF ArgsInv
    <2> QED BY <2>12, <2>14, <2>16, <2>17 DEF ArgsInv
<1> QED BY <1>1, <1>3, FailIsQuiet, QuietStepKeeps

\* A responder that reads a pending row has what the row shows; one that came
\* for another reason has, or will leave the row with, too little.
LEMMA RespondGetKeeps ==
    ASSUME IInv, ArgsInv, NEW w \in Workers, RespondGet(w)
    PROVE  ArgsInv'
<1>1. TypeOK /\ (\A v \in Workers : Sound(v))
    BY AllSound DEF IInv, ArgsInv
<1>2. PICK c \in Calls, action \in HumanActions :
        /\ ckpt[c].status = "pending"
        /\ ActionMatchesReason(action, ckpt[c].reason)
        /\ job' = [job EXCEPT ![w] = [call |-> c, action |-> action,
                                      resume_from |-> ckpt[c].resume_from,
                                      args |-> ckpt[c].args]]
    BY DEF RespondGet
<1>3. /\ pc[w] = "idle" /\ pc'[w] = "claim"
      /\ UNCHANGED <<schema, tool, ckpt, evidence>>
      /\ Call(w)' = c /\ job'[w].action = action /\ job'[w].args = ckpt[c].args
      /\ \A v \in Workers : v # w => pc'[v] = pc[v] /\ job'[v] = job[v]
    BY <1>1, <1>2 DEF TypeOK, RespondGet, Call, worldVars, callVars
<1>4. ASSUME NEW v \in Workers, v # w
      PROVE  /\ pc'[v] = pc[v] /\ job'[v] = job[v]
             /\ Call(v)' = Call(v) /\ Row(v)' = Row(v)
             /\ Keeps(v)' <=> Keeps(v)
             /\ Responding(v)' <=> Responding(v)
             /\ Replaces(v)' <=> Replaces(v)
             /\ Replaced(v)' <=> Replaced(v)
    BY <1>3, <1>4 DEF Call, Row, Keeps, Responding, Working, Replaces, Replaced
<1>5. \A d, args : Lacks(d, args)' <=> Lacks(d, args)
    BY <1>3 DEF Lacks
<1>6. /\ Row(w)' = ckpt[c] /\ ckpt[c].reason \in Reasons /\ ~ Responding(w)' /\ ~ Replaced(w)'
      /\ Keeps(w)' => ckpt[c].reason # "input_required"
      /\ Replaces(w)' => ckpt[c].reason = "input_required"
    <2>1. ckpt[c].reason \in Reasons
        BY <1>1 DEF TypeOK, Checkpoints
    <2>2. ~ Responding(w)' /\ ~ Replaced(w)'
        BY <1>3 DEF Responding, Working, Replaced
    <2>3. /\ Keeps(w)' => action \in {"approve", "authenticate"}
          /\ Replaces(w)' => action = "input"
        BY <1>3 DEF Keeps, Replaces
    <2>4. action = "deny" \/ action = ExpectedAction[ckpt[c].reason]
        BY <1>2 DEF ActionMatchesReason
    <2>5. /\ action \in {"approve", "authenticate"} => ckpt[c].reason # "input_required"
          /\ action = "input" => ckpt[c].reason = "input_required"
        BY <2>1, <2>4 DEF ExpectedAction, Reasons
    <2>6. Row(w)' = ckpt[c]
        BY <1>3 DEF Row
    <2> QED BY <2>1, <2>2, <2>3, <2>5, <2>6
<1>7. ASSUME NEW v \in Workers, v # w, Held(v) PROVE Sound(v)'
    <2>1. /\ Call(v) \in Calls /\ (Responding(v) => Row(v).status = "processing")
          /\ Sound(v)
        BY <1>1, <1>7, HeldFacts
    <2>2. ASSUME NEW u \in Workers, Keeps(u)', Call(u)' = Call(v)', Replaced(v)
          PROVE  Lacks(Call(u), job[u].args)'
        <3>1. u # w
            BY <1>2, <1>3, <1>4, <1>7, <2>1, <2>2 DEF Replaced, Row
        <3>2. Lacks(Call(u), job[u].args)
            BY <1>4, <1>7, <2>1, <2>2, <3>1 DEF Sound
        <3> QED BY <1>4, <1>5, <3>1, <3>2
    <2>3. Resumable(Call(v))' => Resumable(Call(v))
        BY <1>3, <1>4, <1>6, <1>7 DEF Resumable
    <2>4. ASSUME AtOdds(v)'
          PROVE  /\ Lacks(Call(v), job[v].args)
                 /\ Resumable(Call(v)) => Lacks(Call(v), Row(v).args)
        <3>1. CASE AtOdds(v)
            BY <2>1, <3>1 DEF Sound
        <3>2. CASE Replaces(w)' /\ Call(w)' = Call(v)'
            <4>1. /\ Keeps(v) /\ Row(v).status = "pending"
                  /\ Row(v).reason = "input_required"
                BY <1>2, <1>3, <1>4, <1>6, <1>7, <2>4, <3>2 DEF AtOdds, Row
            <4> QED BY <2>1, <4>1 DEF Sound
        <3> QED BY <1>4, <1>7, <2>4, <3>1, <3>2 DEF AtOdds
    <2> QED BY <1>4, <1>5, <1>7, <2>1, <2>2, <2>3, <2>4 DEF Sound
<1>8. Sound(w)'
    <2>1. ASSUME AtOdds(w)' PROVE Lacks(c, ckpt[c].args)
        <3>1. PICK u \in Workers : Replaces(u)' /\ Call(u)' = c
            BY <1>3, <1>6, <2>1 DEF AtOdds
        <3>2. u # w
            BY <1>6, <2>1, <3>1 DEF AtOdds
        <3>3. Replaces(u) /\ Row(u) = ckpt[c] /\ Call(u) = c
            BY <1>4, <3>1, <3>2 DEF Row
        <3>4. ckpt[c].reason # "input_required"
            BY <1>6, <2>1 DEF AtOdds
        <3> QED BY <1>1, <1>2, <3>3, <3>4 DEF Sound
    <2> QED BY <1>3, <1>5, <1>6, <2>1 DEF Sound
<1>9. ReplacedIsStored' /\ OldCopiesLack' /\ MisfitsLack'
    <2>1. ASSUME NEW v \in Workers PROVE Sound(v)'
        <3>1. CASE v # w /\ ~ Held(v)
            BY <1>4, <3>1 DEF Sound, AtOdds, Held
        <3> QED BY <1>7, <1>8, <3>1
    <2> QED BY <2>1 DEF ReplacedIsStored, OldCopiesLack, MisfitsLack, Sound
<1>10. DispatchesStoredArguments'
    BY <1>3, <1>4 DEF ArgsInv, DispatchesStoredArguments
<1>11. AskedIsMissing' /\ NotYetApproved'
    BY <1>3, <1>4, <1>5 DEF ArgsInv, AskedIsMissing, NotYetApproved
<1> QED BY <1>9, <1>10, <1>11 DEF ArgsInv

\* Steps that are not a handler's leave rows, verdicts and copies where they are.
LEMMA ElsewhereKeeps ==
    ASSUME IInv, ArgsInv, Quiet, UNCHANGED <<ckpt, evidence>>,
           \A v \in Workers : pc'[v] \in {"input_required", "dispatch"} =>
                pc'[v] = pc[v] /\ job'[v] = job[v] /\ tool'[Call(v)] = tool[Call(v)]
    PROVE  ArgsInv'
<1>1. ReplacedIsStored' /\ OldCopiesLack' /\ MisfitsLack'
    BY QuietKeeps
<1>2. DispatchesStoredArguments'
    BY DEF ArgsInv, DispatchesStoredArguments, Responding, Working, Row, Call
<1>3. \A v \in Workers : pc'[v] = "input_required" => Lacks(Call(v), job[v].args)'
    BY DEF ArgsInv, AskedIsMissing, Quiet, Lacks, Call
<1>4. AskedIsMissing'
    BY <1>3, QuietKeeps DEF AskedIsMissing
<1>5. NotYetApproved'
    BY DEF ArgsInv, NotYetApproved
<1> QED BY <1>1, <1>2, <1>4, <1>5 DEF ArgsInv

\* A step after which each handler is where it was, or holds nothing, is quiet.
LEMMA StillIsQuiet ==
    ASSUME IInv, ArgsInv, schema \subseteq schema', UNCHANGED ckpt,
           \A c \in Calls : ckpt[c].status = "pending" => tool'[c] = tool[c],
           \A v \in Workers :
                \/ /\ pc'[v] = pc[v] /\ job'[v] = job[v]
                   /\ pc[v] # "idle" => tool'[Call(v)] = tool[Call(v)]
                \/ ~ Held(v)'
    PROVE  Quiet
<1>1. ASSUME NEW v \in Workers, Held(v)'
      PROVE  /\ pc'[v] = pc[v] /\ job'[v] = job[v] /\ tool'[Call(v)] = tool[Call(v)]
             /\ Call(v) \in Calls
             /\ Keeps(v)' => Keeps(v)
             /\ Responding(v)' => Responding(v)
             /\ Replaces(v)' => Replaces(v)
             /\ Replaced(v)' => Replaced(v)
    <2>1. /\ pc'[v] = pc[v] /\ job'[v] = job[v]
          /\ pc[v] # "idle" => tool'[Call(v)] = tool[Call(v)]
        BY <1>1
    <2>2. /\ Keeps(v)' => Keeps(v)
          /\ Responding(v)' => Responding(v)
          /\ Replaces(v)' => Replaces(v)
          /\ Replaced(v)' => Replaced(v)
          /\ Held(v)
        BY <1>1, <2>1 DEF Held, Keeps, Responding, Working, Replaces, Replaced
    <2> QED BY <2>1, <2>2, HeldFacts
<1>2. ASSUME NEW v \in Workers, Replaced(v)'
      PROVE  pc'[v] \notin {"decide", "credential_check", "auth_required"}
    BY <1>1, <1>2 DEF Held, ArgsInv, ReplacedIsStored
<1> QED BY <1>1, <1>2 DEF Quiet, Held

\* A handler that is not anywhere on the way holds nothing.
LEMMA EmptyHanded ==
    ASSUME NEW v \in Workers, pc'[v] = "idle" \/ job'[v].action = "act"
    PROVE  ~ Held(v)'
BY DEF Held, Keeps, Replaces, Replaced, Responding, Working, HumanRows

\* Tasks that arrive, clients that go, credentials that come and go: nothing
\* held is touched.
LEMMA ElsewhereStepKeeps ==
    ASSUME IInv, ArgsInv,
           \/ \E w \in Workers : ActReceive(w) \/ ClientGone(w)
           \/ \E x \in Connectors : Connect(x) \/ Disconnect(x)
           \/ UNCHANGED vars
    PROVE  ArgsInv'
<1>1. TypeOK
    BY DEF IInv
<1>2. ASSUME NEW w \in Workers, ActReceive(w) PROVE ArgsInv'
    <2>1. PICK c \in Calls : tool[c] = NoTool /\ \E t \in Tools : tool' = [tool EXCEPT ![c] = t]
        BY <1>2 DEF ActReceive
    <2>2. /\ pc'[w] = "decide" /\ job'[w].action = "act"
          /\ \A v \in Workers : v # w => pc'[v] = pc[v] /\ job'[v] = job[v]
          /\ UNCHANGED <<schema, ckpt, evidence>>
        BY <1>1, <1>2 DEF TypeOK, ActReceive, worldVars
    <2>3. \A d \in Calls : d # c => tool'[d] = tool[d]
        BY <1>1, <2>1 DEF TypeOK
    <2>4. ckpt[c].status = "absent"
        BY <2>1 DEF IInv, FreshCalls
    <2>5. \A v \in Workers : pc[v] # "idle" => tool'[Call(v)] = tool[Call(v)]
        <3>1. \A v \in Workers : pc[v] # "idle" => Call(v) \in Calls /\ Call(v) # c
            BY <1>1, <2>1, BusyJob DEF IInv, RowsMatchHandlers
        <3> QED BY <2>3, <3>1
    <2>6. Quiet
        BY <2>2, <2>3, <2>4, <2>5, StillIsQuiet, EmptyHanded
    <2> QED BY <2>2, <2>5, <2>6, ElsewhereKeeps
<1>3. ASSUME NEW w \in Workers, ClientGone(w) PROVE ArgsInv'
    <2>1. /\ pc'[w] = "idle" /\ UNCHANGED <<schema, ckpt, evidence, tool>>
          /\ \A v \in Workers : v # w => pc'[v] = pc[v] /\ job'[v] = job[v]
        BY <1>1, <1>3, ReturnEffect DEF ClientGone, Fail, worldVars, callVars
    <2>2. Quiet
        BY <2>1, StillIsQuiet, EmptyHanded
    <2> QED BY <2>1, <2>2, ElsewhereKeeps
<1>4. CASE (\E x \in Connectors : Connect(x) \/ Disconnect(x)) \/ UNCHANGED vars
    <2>1. UNCHANGED <<schema, ckpt, evidence, tool, pc, job>>
        BY <1>4 DEF Connect, Disconnect, vars, worldVars, callVars, handlerVars
    <2>2. Quiet
        BY <2>1, StillIsQuiet
    <2> QED BY <2>1, <2>2, ElsewhereKeeps
<1> QED BY <1>2, <1>3, <1>4

\* A restart leaves the rows, and no copies of them.
LEMMA RestartKeeps ==
    ASSUME ArgsInv, Restart
    PROVE  ArgsInv'
<1>1. \A v \in Workers : pc'[v] = "idle"
    BY DEF Restart
<1>2. UNCHANGED <<ckpt, tool, evidence>>
    BY DEF Restart, callVars
<1>3. \A v \in Workers : ~ Keeps(v)' /\ ~ Replaces(v)' /\ ~ Replaced(v)'
    BY <1>1 DEF Keeps, Replaces, Replaced, Responding, Working, HumanRows
<1>4. ReplacedIsStored' /\ OldCopiesLack' /\ MisfitsLack'
    BY <1>3 DEF ReplacedIsStored, OldCopiesLack, MisfitsLack, AtOdds
<1>5. NotYetApproved' /\ AskedIsMissing' /\ DispatchesStoredArguments'
    BY <1>1, <1>2 DEF ArgsInv, NotYetApproved, AskedIsMissing, DispatchesStoredArguments
<1> QED BY <1>4, <1>5 DEF ArgsInv

\* Every handler step keeps rows and copies in order.
LEMMA HandlerStepKeeps ==
    ASSUME IInv, ArgsInv, NEW w \in Workers, HandlerStep(w)
    PROVE  ArgsInv'
<1>1. ReplacedIsStored
    BY DEF ArgsInv
<1>2. CASE SchemaCheck(w)
    BY <1>2, SchemaCheckIsQuiet, QuietStepKeeps
<1>3. CASE CreateCheckpoint(w) \/ RePause(w) \/ ProvideInput(w)
    BY <1>3, CreateKeeps, RePauseKeeps, ProvideInputKeeps
<1>4. CASE \/ Decide(w) \/ CredentialCheck(w) \/ Dispatch(w) \/ Claim(w) \/ Deny(w)
           \/ Approve(w) \/ Authenticate(w) \/ LogAndResume(w) \/ Finalize(w)
           \/ LogAndReturn(w)
    <2>1. Quiet /\ pc'[w] \notin {"input_required", "dispatch"}
        BY <1>1, <1>4, DecideIsQuiet, CredentialCheckIsQuiet, DispatchIsQuiet, ClaimIsQuiet,
           VerdictIsQuiet, AnswerIsQuiet, ResumeIsQuiet, ReturnIsQuiet
    <2> QED BY <2>1, QuietStepKeeps
<1> QED BY <1>2, <1>3, <1>4 DEF HandlerStep

\* And so does every step there is.
LEMMA NextKeeps ==
    ASSUME IInv, ArgsInv, [Next]_vars
    PROVE  ArgsInv'
BY HandlerStepKeeps, RespondGetKeeps, ElsewhereStepKeeps, RestartKeeps DEF Next

\* To begin with there are no rows and no copies.
LEMMA InitKeeps == Init => ArgsInv
BY DEF Init, NoRow, ArgsInv, NotYetApproved, AskedIsMissing, ReplacedIsStored, OldCopiesLack,
       MisfitsLack, AtOdds, Keeps, Replaces, Replaced, Responding, Working, HumanRows,
       DispatchesStoredArguments

\* Rows and copies are in order throughout.
LEMMA AlwaysInOrder == Spec => []ArgsInv
<1>1. IInv /\ ArgsInv /\ [Next]_vars => ArgsInv'
    BY NextKeeps
<1> QED BY <1>1, InitKeeps, Inductive, PTL DEF Spec
-----------------------------------------------------------------------------
\* QuestionIsOpen: no pending row asks for an approval it was given, or for
\* arguments when none is missing, however old the copy was that a responder
\* brought it back from.
THEOREM QuestionsAreOpen == Spec => []QuestionIsOpen
<1>1. ArgsInv => QuestionIsOpen
    BY DEF ArgsInv, NotYetApproved, AskedIsMissing, QuestionIsOpen
<1> QED BY <1>1, AlwaysInOrder, PTL

\* DispatchesStoredArguments: a responder that reads the row, and claims it after
\* others have claimed, changed and released it, dispatches what the row shows.
THEOREM StoredIsDispatched == Spec => []DispatchesStoredArguments
<1>1. ArgsInv => DispatchesStoredArguments
    BY DEF ArgsInv
<1> QED BY <1>1, AlwaysInOrder, PTL

\* The schema check is the only way to a dispatch.
LEMMA DispatchIsChecked ==
    ASSUME IInv, ArgsInv, NEW w \in Workers, HandlerStep(w), pc'[w] = "dispatch"
    PROVE  SchemaCheck(w) /\ Missing(Tool(w), schema', job[w].args) = {} /\ job' = job
<1>1. ReplacedIsStored /\ TypeOK /\ Setting(w)
    BY StepSetting DEF ArgsInv, IInv
<1>2. \A fault : ~ Fail(w, fault)
    BY FailIsQuiet, <1>1
<1>3. ASSUME NEW label, Goto(w, label) PROVE label = "dispatch"
    BY <1>1, <1>3, GotoEffect
<1>4. CASE SchemaCheck(w)
    <2>1. Missing(Tool(w), schema', job[w].args) = {}
        BY <1>2, <1>3, <1>4 DEF SchemaCheck
    <2>2. job' = job
        BY <1>2, <1>4 DEF SchemaCheck, Goto
    <2> QED BY <1>4, <2>1, <2>2
<1>5. CASE CreateCheckpoint(w) \/ RePause(w)
    BY <1>2, <1>3, <1>5 DEF CreateCheckpoint, RePause
<1>6. CASE ProvideInput(w)
    <2>1. pc' = [pc EXCEPT ![w] = "input_provided"]
        BY <1>2, <1>6 DEF ProvideInput
    <2> QED BY <1>1, <2>1 DEF TypeOK
<1>7. CASE \/ Decide(w) \/ CredentialCheck(w) \/ Dispatch(w) \/ Claim(w) \/ Deny(w)
           \/ Approve(w) \/ Authenticate(w) \/ LogAndResume(w) \/ Finalize(w)
           \/ LogAndReturn(w)
    BY <1>1, <1>7, DecideIsQuiet, CredentialCheckIsQuiet, DispatchIsQuiet, ClaimIsQuiet,
       VerdictIsQuiet, AnswerIsQuiet, ResumeIsQuiet, ReturnIsQuiet
<1> QED BY <1>4, <1>5, <1>6, <1>7 DEF HandlerStep

\* DispatchesComplete: if tools/list never leaves a connector out, no published
\* tool is dispatched without the arguments its schema requires.
THEOREM CompleteIsDispatched ==
    ASSUME "list_omits" \notin Faults
    PROVE  Spec => []DispatchesComplete
<1>1. Init => DispatchesComplete
    BY DEF Init, DispatchesComplete
<1>2. ASSUME IInv, ArgsInv, DispatchesComplete, [Next]_vars
      PROVE  DispatchesComplete'
    <2>1. TypeOK
        BY <1>2 DEF IInv
    <2>2. ASSUME NEW v \in Workers, pc[v] = "dispatch", pc'[v] = "dispatch", job'[v] = job[v],
                 tool'[Call(v)] = tool[Call(v)], (Tool(v) \in Published)'
          PROVE  (Required[Tool(v)] \subseteq job[v].args)'
        BY <1>2, <2>2 DEF DispatchesComplete, Tool, Call
    <2>3. ASSUME NEW w \in Workers, HandlerStep(w) PROVE DispatchesComplete'
        <3>1. Frame(w)
            BY <1>2, <2>3, StepSetting DEF Setting
        <3>2. ASSUME pc'[w] = "dispatch", (Tool(w) \in Published)'
              PROVE  (Required[Tool(w)] \subseteq job[w].args)'
            <4>1. /\ SchemaCheck(w) /\ job' = job /\ tool' = tool
                  /\ Missing(Tool(w), schema', job[w].args) = {}
                BY <1>2, <2>3, <3>1, <3>2, DispatchIsChecked DEF Frame
            <4>2. Tool(w)' = Tool(w) /\ Tool(w) \in Published
                BY <3>2, <4>1 DEF Tool, Call
            <4>3. Tool(w) \in schema'
                <5>1. Tool(w) \in Listed(Tool(w))
                    BY <4>2 DEF Listed
                <5>2. \A fault : ~ Fail(w, fault)
                    BY <1>2, <2>3, <3>2, FailIsQuiet DEF ArgsInv
                <5> QED BY <4>1, <5>1, <5>2 DEF SchemaCheck
            <4> QED BY <4>1, <4>2, <4>3 DEF Missing
        <3> QED BY <2>2, <3>1, <3>2 DEF DispatchesComplete, Frame
    <2>4. ASSUME NEW w \in Workers, ActReceive(w) PROVE DispatchesComplete'
        <3>1. PICK c \in Calls : tool[c] = NoTool /\ \E t \in Tools : tool' = [tool EXCEPT ![c] = t]
            BY <2>4 DEF ActReceive
        <3>2. /\ pc'[w] = "decide"
              /\ \A v \in Workers : v # w => pc'[v] = pc[v] /\ job'[v] = job[v]
            BY <2>1, <2>4 DEF TypeOK, ActReceive
        <3>3. \A v \in Workers : pc[v] = "dispatch" => Call(v) \in Calls /\ Call(v) # c
            BY <1>2, <2>1, <3>1, BusyJob DEF IInv, RowsMatchHandlers
        <3>4. \A v \in Workers : pc[v] = "dispatch" => tool'[Call(v)] = tool[Call(v)]
            BY <2>1, <3>1, <3>3 DEF TypeOK
        <3> QED BY <2>2, <3>2, <3>4 DEF DispatchesComplete
    <2>5. ASSUME NEW w \in Workers, RespondGet(w) \/ ClientGone(w)
          PROVE  DispatchesComplete'
        <3>1. /\ pc'[w] \in {"idle", "claim"} /\ tool' = tool
              /\ \A v \in Workers : v # w => pc'[v] = pc[v] /\ job'[v] = job[v]
            BY <2>1, <2>5, ReturnEffect DEF TypeOK, RespondGet, ClientGone, Fail, callVars
        <3> QED BY <2>2, <3>1 DEF DispatchesComplete
    <2>6. CASE (\E x \in Connectors : Connect(x) \/ Disconnect(x)) \/ UNCHANGED vars
        BY <2>2, <2>6
           DEF Connect, Disconnect, vars, callVars, handlerVars, DispatchesComplete
    <2>7. CASE Restart
        BY <2>7 DEF Restart, DispatchesComplete
    <2> QED BY <1>2, <2>3, <2>4, <2>5, <2>6, <2>7 DEF Next
<1> QED BY <1>1, <1>2, Inductive, AlwaysInOrder, PTL DEF Spec
=============================================================================
