----------------------------- MODULE PauseModel -----------------------------
(***************************************************************************)
(* The pause/resume vocabulary of src/src/agent/checkpoint.rs: why a call  *)
(* is dormant, where it resumes, which human response may wake it, and the *)
(* states of a checkpoint row.  No variables: the state machines that use  *)
(* this vocabulary are HitlAgent and its abstract view ApprovalGate.       *)
(***************************************************************************)

\* The pre-flight loop's steps, in the order execute() runs them.
Steps == {"decide", "credential_check", "schema_check", "dispatch"}

\* PauseReason, by its serde tag; the payload (summary, auth_url, missing)
\* only feeds the question shown to the human and is left out.
Reasons == {"approval_required", "auth_required", "input_required"}

\* Slips in resume_from that the properties of HitlAgent tell from the code:
\* on to the step after the one that paused, and back to the start.
ResumeAfter(reason) ==
    CASE reason = "approval_required" -> "credential_check"
      [] reason = "auth_required" -> "schema_check"
      [] reason = "input_required" -> "dispatch"
ResumeAtDecide(reason) ==
    IF reason = "approval_required" THEN "decide" ELSE "schema_check"

\* PauseReason::resume_from: the step a positive response continues at.
ResumeFrom(reason) ==
    IF reason = "input_required" THEN "schema_check" ELSE "credential_check"

\* HumanAction, by its serde tag.  The payload of "authenticate" (an optional
\* token) and of "input" (fields) is chosen where the handler first uses it.
HumanActions == {"approve", "deny", "authenticate", "input"}

\* PauseReason::expected_action: the one positive response to a reason.
ExpectedAction ==
    [approval_required |-> "approve",
     auth_required     |-> "authenticate",
     input_required    |-> "input"]

\* A slip: the 422 for an action that does not fit the reason is gone.
AnyAction(action, reason) ==
    action \in HumanActions /\ reason \in Reasons

\* hitl::routes::action_matches_reason.
ActionMatchesReason(action, reason) ==
    action = "deny" \/ action = ExpectedAction[reason]

\* CheckpointStatus, plus "absent" for a call that has no row.
Statuses == {"absent", "pending", "processing", "denied", "resolved", "failed"}
Terminal == {"denied", "resolved", "failed"}
=============================================================================
