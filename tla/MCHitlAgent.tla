---------------------------- MODULE MCHitlAgent ----------------------------
(***************************************************************************)
(* Instances of HitlAgent for TLC: which tools there are, what they need,  *)
(* and what may fail.  The .cfg files pick from these.                     *)
(***************************************************************************)
EXTENDS HitlAgent, TLC

CONSTANTS
    c1, w1, w2,          \* a call and two handlers
    write, gone,         \* tools; no connector lists `gone`
    local, oauth,        \* a token connector, and one with OAuth accounts
    name, body           \* argument names

WorkerSymmetry == Permutations(Workers)

\* One tool on a token connector, which requires every argument.
WriteOnly == {write}
LocalOnly == {local}
WriteOnLocal == [t \in {write} |-> local]
WriteNeedsAll == [t \in {write} |-> Fields]

\* Two tools on two connectors; the gateway may not know the second one.
TwoTools == {write, gone}
TwoConnectors == {local, oauth}
TwoOn == [t \in TwoTools |-> IF t = write THEN local ELSE oauth]
TwoNeeds == [t \in TwoTools |-> IF t = write THEN Fields ELSE {}]

AnyPolicy == [Tools -> Stances]
AskFirst == [Tools -> {"ask"}]

NoFaults == {}
SchemaFaults == {"list_omits", "restart"}
ReplyFaults == {"connector_error"}
ErrorlessAnswers == {"errorless_answer"}
AllFaults == FaultKinds
=============================================================================
