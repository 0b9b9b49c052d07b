---------------------------- MODULE ApprovalGate ----------------------------
(***************************************************************************)
(* What the agent promises about one tool call, without the handlers, the  *)
(* checkpoint rows or the failures behind it: a gate that the policy opens *)
(* or puts to a human, that a human opens or refuses for good, and a tool  *)
(* that runs behind the open gate, once at most.  HitlAgent implements it  *)
(* (its definition Gate).                                                  *)
(***************************************************************************)
CONSTANT Calls

VARIABLES
    gate,  \* "closed", "asking" (a human is needed), "open" or "refused"
    ran    \* the calls whose tool has run

vars == <<gate, ran>>

Gates == {"closed", "asking", "open", "refused"}
TypeOK == gate \in [Calls -> Gates] /\ ran \subseteq Calls

Init == gate = [c \in Calls |-> "closed"] /\ ran = {}

Move(c, from, to) ==
    /\ gate[c] \in from
    /\ gate' = [gate EXCEPT ![c] = to]
    /\ UNCHANGED ran

\* The policy's verdict on a new call; a blocked call stays behind the gate.
Allow(c) == Move(c, {"closed"}, "open")
Ask(c) == Move(c, {"closed"}, "asking")

\* A human's verdict.  An open call that waits on a credential or an argument
\* can still be denied, until it has run.
Approve(c) == Move(c, {"asking"}, "open")
Deny(c) == c \notin ran /\ Move(c, {"asking", "open"}, "refused")

Run(c) ==
    /\ gate[c] = "open" /\ c \notin ran
    /\ ran' = ran \union {c}
    /\ UNCHANGED gate

Next == \E c \in Calls : Allow(c) \/ Ask(c) \/ Approve(c) \/ Deny(c) \/ Run(c)

Spec == Init /\ [][Next]_vars
=============================================================================
