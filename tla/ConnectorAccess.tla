--------------------------- MODULE ConnectorAccess ---------------------------
(***************************************************************************)
(* Who is logged in to which connector: the gateway's credential table     *)
(* for connectors that take a token, Composio's connected accounts for the *)
(* one that logs in with OAuth, and the three requests about them, GET     *)
(* /connectors/:c/status, POST and DELETE /connectors/:c/credentials.      *)
(*                                                                         *)
(* Composio is a service of its own: a request to it is a step, between    *)
(* two of them people follow links, grants lapse and other requests run.   *)
(* No caller ever stores a token with an expiry, so a row is valid as long *)
(* as it is there.  src/src/{credentials,gateway/routes,gateway/composio,  *)
(* agent/gateway_client}.rs.                                               *)
(***************************************************************************)
EXTENDS Naturals, Sequences, FiniteSets

CONSTANTS
    Users,        \* x-user-id values
    Names,        \* connector names a caller may write
    Asked,        \* the requests callers make
    Registered,   \* those main registers: the mock connectors
    Slot,         \* the one served by Composio, whatever the registry says
    Handlers,     \* requests in flight at once
    Faults,       \* which of FaultKinds can happen
    Earlier,      \* what Composio may hold when the gateway comes up
    MaxAccounts   \* bound on the accounts Composio ever has

\* composio_error  a request to Composio fails, before or after it took effect
\* db_error        a statement on the credentials table fails
\* reply_lost      the gateway's answer does not reach the caller
\* client_gone     the caller disconnects, which drops the handler's future
FaultKinds == {"composio_error", "db_error", "reply_lost", "client_gone"}
AccountStates == {"initiated", "active", "expired", "deleted"}
Accounts == [user : Users, status : AccountStates]

Requests == [op : {"status", "store", "logout"}, user : Users, name : Names]

ASSUME NameAssumption ==
    Registered \subseteq Names /\ Asked \subseteq Requests /\ Asked # {}
ASSUME HandlerAssumption == IsFiniteSet(Handlers)
ASSUME FaultAssumption == Faults \subseteq FaultKinds
ASSUME EarlierAssumption ==
    MaxAccounts \in Nat /\ \A s \in Earlier : s \in Seq(Accounts) /\ Len(s) <= MaxAccounts

VARIABLES
    tokens,     \* rows of the credentials table
    accounts,   \* Composio's connected accounts, in the order they were made
    pc, req,    \* each handler's position and its request
    ids,        \* disconnect: the accounts it has still to delete, by number
    reply,      \* what its caller made of the answer, "none" until there is one
    seen,       \* history: was the user logged in, at any time in the request
    steady      \* history: logins that have been there ever since it began

requestVars == <<pc, req, ids, reply>>
vars == <<tokens, accounts, requestVars, seen, steady>>

Replies == {"none", "connected", "auth_required", "stored", "disconnected",
            "not_found", "refused", "error"}
Ids == 1..MaxAccounts
Token == 0

TypeOK ==
    /\ tokens \subseteq Names
    /\ accounts \in Seq(Accounts) /\ Len(accounts) <= MaxAccounts
    /\ pc \in [Handlers -> {"idle", "status", "link", "store", "logout", "delete"}]
    /\ req \in [Handlers -> Requests]
    /\ ids \in [Handlers -> SUBSET Ids]
    /\ reply \in [Handlers -> Replies]
    /\ \A h \in Handlers : ids[h] \subseteq DOMAIN accounts
    /\ seen \in [Handlers -> SUBSET BOOLEAN]
    /\ steady \in [Handlers -> SUBSET ({Token} \union Ids)]
-----------------------------------------------------------------------------
ActiveOf(u) == {a \in DOMAIN accounts :
                    accounts[a].user = u /\ accounts[a].status = "active"}

\* What lets user u use connector x: a token is everybody's, an account is not.
Logins(u, x) ==
    IF x = Slot THEN ActiveOf(u) ELSE IF x \in tokens THEN {Token} ELSE {}
LoginsOf(h) == Logins(req[h].user, req[h].name)

\* protocol::connector_known
Known(x) == x \in Registered \/ x = Slot

Busy(h) == pc[h] # "idle"
Goto(h, label) == pc' = [pc EXCEPT ![h] = label]

\* The response as the caller reads it: GatewayClient takes everything that is
\* not a 2xx, and an answer that never came, for an error.
Answer(h, r) ==
    /\ Goto(h, "idle")
    /\ \E read \in {r} \union (IF "reply_lost" \in Faults THEN {"error"} ELSE {}) :
            reply' = [reply EXCEPT ![h] = read]
    /\ ids' = [ids EXCEPT ![h] = {}]

SetStatus(a, status) == accounts' = [accounts EXCEPT ![a].status = status]

Init ==
    /\ tokens \in SUBSET (Names \ {Slot})   \* nobody reads a row of Slot's
    /\ accounts \in Earlier
    /\ pc = [h \in Handlers |-> "idle"]
    /\ req \in [Handlers -> {CHOOSE r \in Requests : TRUE}]
    /\ ids = [h \in Handlers |-> {}]
    /\ reply = [h \in Handlers |-> "none"]
    /\ seen = [h \in Handlers |-> {}]
    /\ steady = [h \in Handlers |-> {}]

\* Bound: a status request that may need a link is only made while Composio has
\* room for one more account.
Linking == {h \in Handlers : Busy(h) /\ req[h].op = "status" /\ req[h].name = Slot}
RoomToLink == Len(accounts) + Cardinality(Linking) < MaxAccounts

Begin(h) ==
    /\ ~Busy(h)
    /\ \E r \in Asked :
        /\ r.op = "status" /\ r.name = Slot => RoomToLink
        /\ req' = [req EXCEPT ![h] = r]
        /\ Goto(h, r.op)
    /\ reply' = [reply EXCEPT ![h] = "none"]
    /\ UNCHANGED <<tokens, accounts, ids>>
-----------------------------------------------------------------------------
(* Slips a change to the handlers could make.  No action uses them: each    *)
(* stands for the action it resembles, to show that a property notices.     *)

\* A failed check is reported as "not connected".
CheckAccountsLeniently(h) ==
    /\ pc[h] = "status" /\ req[h].name = Slot
    /\ IF ActiveOf(req[h].user) # {}
         THEN Answer(h, "connected") \/ ("composio_error" \in Faults /\ Goto(h, "link")
                                         /\ UNCHANGED <<ids, reply>>)
         ELSE Goto(h, "link") /\ UNCHANGED <<ids, reply>>
    /\ UNCHANGED <<tokens, accounts, req>>

\* The accounts are listed without the user_ids filter.
ListForAll(h) ==
    /\ pc[h] = "logout" /\ req[h].name = Slot
    /\ ids' = [ids EXCEPT ![h] = {a \in DOMAIN accounts : accounts[a].status = "active"}]
    /\ Goto(h, "delete")
    /\ UNCHANGED <<tokens, accounts, req, reply>>

\* The accounts are numbered from zero.
ListFromZero(h) ==
    /\ pc[h] = "logout" /\ req[h].name = Slot
    /\ ids' = [ids EXCEPT ![h] = {a - 1 : a \in ActiveOf(req[h].user)}]
    /\ Goto(h, "delete")
    /\ UNCHANGED <<tokens, accounts, req, reply>>

\* An account whose deletion failed is skipped.
DeleteOrSkip(h) ==
    /\ pc[h] = "delete"
    /\ \E a \in ids[h] :
        /\ ids' = [ids EXCEPT ![h] = @ \ {a}]
        /\ \/ SetStatus(a, "deleted")
           \/ "composio_error" \in Faults /\ UNCHANGED accounts
    /\ UNCHANGED <<tokens, pc, req, reply>>
-----------------------------------------------------------------------------
(* GET /connectors/:connector/status                                        *)

\* A name registered nowhere is not looked up, whatever the table holds.
CheckUnknown(h) ==
    /\ pc[h] = "status" /\ ~Known(req[h].name)
    /\ Answer(h, "not_found")
    /\ UNCHANGED <<tokens, accounts, req>>

CheckToken(h) ==
    /\ pc[h] = "status" /\ Known(req[h].name) /\ req[h].name # Slot
    /\ \/ Answer(h, IF req[h].name \in tokens THEN "connected" ELSE "auth_required")
       \/ "db_error" \in Faults /\ Answer(h, "error")
    /\ UNCHANGED <<tokens, accounts, req>>

\* ComposioRestClient::is_connected
CheckAccounts(h) ==
    /\ pc[h] = "status" /\ req[h].name = Slot
    /\ \/ ActiveOf(req[h].user) # {} /\ Answer(h, "connected")
       \/ ActiveOf(req[h].user) = {} /\ Goto(h, "link") /\ UNCHANGED <<ids, reply>>
       \/ "composio_error" \in Faults /\ Answer(h, "error")
    /\ UNCHANGED <<tokens, accounts, req>>

\* ComposioRestClient::initiate_link: one more account that waits for its user.
\* A failure may come after the account was made.
AuthUrl(h) ==
    LET made == Append(accounts, [user |-> req[h].user, status |-> "initiated"]) IN
    /\ pc[h] = "link"
    /\ \/ /\ accounts' = made
          /\ Answer(h, "auth_required")
       \/ /\ "composio_error" \in Faults
          /\ accounts' \in {accounts, made}
          /\ Answer(h, "error")
    /\ UNCHANGED <<tokens, req>>
-----------------------------------------------------------------------------
(* POST and DELETE /connectors/:connector/credentials                       *)

\* CredentialStore::store, for any name but Composio's, registered or not.
Store(h) ==
    /\ pc[h] = "store"
    /\ \/ req[h].name = Slot /\ Answer(h, "refused") /\ UNCHANGED tokens
       \/ /\ req[h].name # Slot
          /\ \/ tokens' = tokens \union {req[h].name} /\ Answer(h, "stored")
             \/ "db_error" \in Faults /\ Answer(h, "error") /\ UNCHANGED tokens
    /\ UNCHANGED <<accounts, req>>

\* CredentialStore::delete
DeleteToken(h) ==
    /\ pc[h] = "logout" /\ req[h].name # Slot
    /\ \/ tokens' = tokens \ {req[h].name} /\ Answer(h, "disconnected")
       \/ "db_error" \in Faults /\ Answer(h, "error") /\ UNCHANGED tokens
    /\ UNCHANGED <<accounts, req>>

\* ComposioRestClient::active_connected_account_ids
ListAccounts(h) ==
    /\ pc[h] = "logout" /\ req[h].name = Slot
    /\ \/ /\ ids' = [ids EXCEPT ![h] = ActiveOf(req[h].user)]
          /\ Goto(h, "delete")
          /\ UNCHANGED reply
       \/ "composio_error" \in Faults /\ Answer(h, "error")
    /\ UNCHANGED <<tokens, accounts, req>>

\* One turn of disconnect's loop, in whatever order Composio listed them.  A
\* DELETE for an account that is gone already may be an error or not; any error
\* leaves the rest of the list alone.
DeleteAccount(h) ==
    /\ pc[h] = "delete"
    /\ \E a \in ids[h] :
        \/ /\ SetStatus(a, "deleted")
           /\ ids' = [ids EXCEPT ![h] = @ \ {a}]
           /\ UNCHANGED <<pc, reply>>
        \/ /\ accounts[a].status = "deleted"
           /\ Answer(h, "error")
           /\ UNCHANGED accounts
        \/ /\ "composio_error" \in Faults
           /\ UNCHANGED accounts \/ SetStatus(a, "deleted")
           /\ Answer(h, "error")
    /\ UNCHANGED <<tokens, req>>

Disconnected(h) ==
    /\ pc[h] = "delete" /\ ids[h] = {}
    /\ Answer(h, "disconnected")
    /\ UNCHANGED <<tokens, accounts, req>>
-----------------------------------------------------------------------------
Step(h) ==
    \/ CheckUnknown(h) \/ CheckToken(h) \/ CheckAccounts(h) \/ AuthUrl(h)
    \/ Store(h) \/ DeleteToken(h)
    \/ ListAccounts(h) \/ DeleteAccount(h) \/ Disconnected(h)

\* The caller hangs up: the handler's future is dropped where it is.
Dropped(h) ==
    /\ "client_gone" \in Faults
    /\ Busy(h)
    /\ Goto(h, "idle")
    /\ ids' = [ids EXCEPT ![h] = {}]
    /\ UNCHANGED <<tokens, accounts, req, reply>>

\* A person completes the OAuth page behind a link.
FollowLink(a) ==
    /\ accounts[a].status = "initiated"
    /\ SetStatus(a, "active")
    /\ UNCHANGED <<tokens, requestVars>>

\* Composio loses a grant: it lapsed, or was withdrawn at the other end.
GrantLapses(a) ==
    /\ accounts[a].status = "active"
    /\ SetStatus(a, "expired")
    /\ UNCHANGED <<tokens, requestVars>>

\* The history variables follow every request from its first state to its last.
Observe ==
    /\ seen' = [h \in Handlers |->
            (IF Busy(h) THEN seen[h] ELSE IF Busy(h)' THEN {} ELSE seen[h])
            \union (IF Busy(h) \/ Busy(h)' THEN {LoginsOf(h)' # {}} ELSE {})]
    /\ steady' = [h \in Handlers |->
            IF ~Busy(h) /\ Busy(h)' THEN LoginsOf(h)' ELSE steady[h] \intersect LoginsOf(h)']

Next ==
    /\ \/ \E h \in Handlers : Begin(h) \/ Step(h) \/ Dropped(h)
       \/ \E a \in DOMAIN accounts : FollowLink(a) \/ GrantLapses(a)
    /\ Observe

Spec == Init /\ [][Next]_vars
-----------------------------------------------------------------------------
(* A status answer is never made up.  "Connected" and "please authenticate" *)
(* were each the truth about that user at some moment of the request, and   *)
(* are only said of a connector that exists; whatever goes wrong on the way *)
(* is an error, which the agent does not pause on (routes.rs's comment on   *)
(* get_connector_status, gateway_client.rs's on connector_status).          *)
StatusIsTrue ==
    \A h \in Handlers :
        reply[h] \in {"connected", "auth_required"} =>
            /\ Known(req[h].name)
            /\ (reply[h] = "connected") \in seen[h]

(* A logout that answers "disconnected" has ended every login its user had  *)
(* throughout the request, links retried before they were completed         *)
(* included: none survives an error half-way through the list.              *)
LogoutClears ==
    \A h \in Handlers : reply[h] = "disconnected" => steady[h] = {}

(* An account in use is only deleted by a logout of its own user, with      *)
(* other users' requests under way.                                         *)
OthersStayIn ==
    [][\A a \in DOMAIN accounts :
            accounts[a].status = "active" /\ accounts'[a].status = "deleted" =>
                \E h \in Handlers : /\ pc[h] = "delete"
                                    /\ req[h].user = accounts[a].user]_vars
=============================================================================
