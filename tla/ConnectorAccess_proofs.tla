------------------------ MODULE ConnectorAccess_proofs ------------------------
(***************************************************************************)
(* What holds of logins for every set of users, connectors, handlers and   *)
(* faults: the variables keep their types, a status answer was the truth,  *)
(* and a logout that says so is complete and touches nobody else's         *)
(* accounts.                                                               *)
(***************************************************************************)
EXTENDS ConnectorAccess, FiniteSetTheorems, SequenceTheorems, TLAPS

-----------------------------------------------------------------------------
\* Where a handler can be, for the request it serves.
AtWork ==
    \A h \in Handlers :
        /\ pc[h] = "status" => req[h].op = "status"
        /\ pc[h] = "link" => req[h].op = "status" /\ req[h].name = Slot
        /\ pc[h] = "delete" => req[h].name = Slot
        /\ Busy(h) => reply[h] = "none"

\* Every link that may yet be asked for has its place.
RoomForLinks == Len(accounts) + Cardinality(Linking) <= MaxAccounts

\* What a handler has been given to delete is its user's own.
OwnAccounts(h) ==
    /\ ids[h] # {} => pc[h] = "delete"
    /\ \A a \in ids[h] : accounts[a].user = req[h].user

\* A link is only asked for after the user was seen to be logged out.
SeenOut(h) == pc[h] = "link" => FALSE \in seen[h]

\* A login that outlasts the logout so far is still on its list.
StillListed(h) == pc[h] = "delete" => steady[h] \subseteq ids[h]

\* What the two answers say, of one handler.
ToldTruth(h) ==
    reply[h] \in {"connected", "auth_required"} =>
        Known(req[h].name) /\ (reply[h] = "connected") \in seen[h]
Cleared(h) == reply[h] = "disconnected" => steady[h] = {}

\* The accounts there are keep their numbers and their users.
AccountsKept ==
    /\ accounts' \in Seq(Accounts)
    /\ DOMAIN accounts \subseteq DOMAIN accounts'
    /\ \A a \in DOMAIN accounts : accounts'[a].user = accounts[a].user

\* Types, positions and the room for links, which hold without the history.
TInv == TypeOK /\ AtWork /\ RoomForLinks

\* The inductive invariant: what each handler holds and has said is borne out.
BorneOut(h) ==
    OwnAccounts(h) /\ SeenOut(h) /\ StillListed(h) /\ ToldTruth(h) /\ Cleared(h)
IInv == TInv /\ \A h \in Handlers : BorneOut(h)
-----------------------------------------------------------------------------
(* The accounts are numbered from one.                                      *)
LEMMA AccountNumbers ==
    ASSUME TypeOK
    PROVE  /\ Len(accounts) \in Nat /\ DOMAIN accounts = 1..Len(accounts)
           /\ DOMAIN accounts \subseteq Ids
           /\ \A a \in DOMAIN accounts : accounts[a] \in Accounts
BY EarlierAssumption DEF TypeOK, Ids

(* A change of status keeps all else of the accounts.                       *)
LEMMA StatusSet ==
    ASSUME TypeOK, NEW a \in DOMAIN accounts, NEW status \in AccountStates,
           SetStatus(a, status)
    PROVE  /\ AccountsKept
           /\ DOMAIN accounts' = DOMAIN accounts /\ Len(accounts') = Len(accounts)
           /\ \A b \in DOMAIN accounts :
                accounts'[b].status = IF b = a THEN status ELSE accounts[b].status
<1> DEFINE changed == [accounts[a] EXCEPT !.status = status]
<1>1. changed \in Accounts /\ changed.user = accounts[a].user /\ changed.status = status
  BY AccountNumbers DEF Accounts
<1>2. accounts' = [accounts EXCEPT ![a] = changed]
  BY DEF SetStatus
<1>3. accounts \in Seq(Accounts) /\ a \in 1..Len(accounts)
  BY AccountNumbers DEF TypeOK
<1> HIDE DEF changed
<1>4. /\ accounts' \in Seq(Accounts) /\ Len(accounts') = Len(accounts)
      /\ \A b \in 1..Len(accounts) : accounts'[b] = IF b = a THEN changed ELSE accounts[b]
  BY <1>1, <1>2, <1>3, ExceptSeq
<1>5. DOMAIN accounts' = 1..Len(accounts)
  BY <1>4, LenProperties
<1> QED BY <1>1, <1>4, <1>5, AccountNumbers DEF AccountsKept

(* A link adds one account, which waits for its user.                       *)
LEMMA LinkMade ==
    ASSUME TypeOK, NEW u \in Users,
           accounts' = Append(accounts, [user |-> u, status |-> "initiated"])
    PROVE  /\ AccountsKept
           /\ Len(accounts') = Len(accounts) + 1
           /\ DOMAIN accounts' = DOMAIN accounts \union {Len(accounts) + 1}
           /\ accounts'[Len(accounts) + 1] = [user |-> u, status |-> "initiated"]
           /\ \A a \in DOMAIN accounts : accounts'[a] = accounts[a]
<1> DEFINE new == [user |-> u, status |-> "initiated"]
<1>1. new \in Accounts
  BY DEF Accounts, AccountStates
<1>2. accounts \in Seq(Accounts) /\ accounts' = Append(accounts, new)
  BY DEF TypeOK
<1> HIDE DEF new
<1>3. /\ accounts' \in Seq(Accounts) /\ Len(accounts') = Len(accounts) + 1
      /\ accounts'[Len(accounts) + 1] = new
      /\ \A a \in 1..Len(accounts) : accounts'[a] = accounts[a]
  BY <1>1, <1>2, AppendProperties
<1>4. DOMAIN accounts' = 1..(Len(accounts) + 1)
  BY <1>3, LenProperties
<1>5. DOMAIN accounts' = DOMAIN accounts \union {Len(accounts) + 1}
  BY <1>4, AccountNumbers
<1>6. AccountsKept
  BY <1>3, <1>5, AccountNumbers DEF AccountsKept
<1> QED BY <1>3, <1>5, <1>6, AccountNumbers DEF new

(* The handler is done, and its caller makes of the answer what was sent or *)
(* an error.                                                                *)
LEMMA AnswerFacts ==
    ASSUME TypeOK, NEW h \in Handlers, NEW r \in Replies, Answer(h, r)
    PROVE  /\ pc' = [pc EXCEPT ![h] = "idle"]
           /\ ids' = [ids EXCEPT ![h] = {}]
           /\ \E read \in {r, "error"} : reply' = [reply EXCEPT ![h] = read]
           /\ reply' \in [Handlers -> Replies]
<1>1. PICK read \in {r, "error"} : reply' = [reply EXCEPT ![h] = read]
  BY DEF Answer
<1>2. read \in Replies
  BY DEF Replies
<1> QED BY <1>1, <1>2 DEF Answer, Goto, TypeOK
-----------------------------------------------------------------------------
(* The requests that may ask for a link are among finitely many handlers.   *)
LEMMA LinkingFinite == IsFiniteSet(Linking) /\ Cardinality(Linking) \in Nat
BY HandlerAssumption, FS_Subset, FS_CardinalityType DEF Linking

(* Room stays when no request may ask for a link that might not before.     *)
LEMMA RoomKept ==
    ASSUME TypeOK, RoomForLinks, Linking' \subseteq Linking, Len(accounts') = Len(accounts)
    PROVE  RoomForLinks' /\ Len(accounts') <= MaxAccounts
<1>1. Cardinality(Linking') <= Cardinality(Linking) /\ Cardinality(Linking') \in Nat
  BY LinkingFinite, FS_Subset, FS_CardinalityType
<1>2. Len(accounts) \in Nat /\ MaxAccounts \in Nat /\ Cardinality(Linking) \in Nat
  BY LinkingFinite, AccountNumbers, EarlierAssumption
<1> QED BY <1>1, <1>2 DEF RoomForLinks

(* A request that asked for its link gives its place to the account, if     *)
(* there is one.                                                            *)
LEMMA RoomTaken ==
    ASSUME TypeOK, RoomForLinks, NEW h \in Linking, Linking' \subseteq Linking \ {h},
           Len(accounts') \in {Len(accounts), Len(accounts) + 1}
    PROVE  RoomForLinks' /\ Len(accounts') <= MaxAccounts
<1>1. /\ IsFiniteSet(Linking \ {h})
      /\ Cardinality(Linking \ {h}) = Cardinality(Linking) - 1
  BY LinkingFinite, FS_RemoveElement
<1>2. Cardinality(Linking') <= Cardinality(Linking) - 1 /\ Cardinality(Linking') \in Nat
  BY <1>1, FS_Subset, FS_CardinalityType
<1>3. Len(accounts) \in Nat /\ MaxAccounts \in Nat /\ Cardinality(Linking) \in Nat
  BY LinkingFinite, AccountNumbers, EarlierAssumption
<1> QED BY <1>2, <1>3 DEF RoomForLinks

(* A new request that may ask for a link finds room, or takes none.         *)
LEMMA RoomAsked ==
    ASSUME TypeOK, RoomForLinks, NEW h \in Handlers, h \notin Linking,
           \/ Linking' = Linking
           \/ RoomToLink /\ Linking' = Linking \union {h},
           accounts' = accounts
    PROVE  RoomForLinks'
<1>1. CASE Linking' = Linking
  BY <1>1 DEF RoomForLinks
<1>2. CASE RoomToLink /\ Linking' = Linking \union {h}
  <2>1. Cardinality(Linking') = Cardinality(Linking) + 1
    BY <1>2, LinkingFinite, FS_AddElement
  <2>2. Len(accounts) \in Nat /\ MaxAccounts \in Nat /\ Cardinality(Linking) \in Nat
    BY LinkingFinite, AccountNumbers, EarlierAssumption
  <2> QED BY <1>2, <2>1, <2>2 DEF RoomForLinks, RoomToLink
<1> QED BY <1>1, <1>2
-----------------------------------------------------------------------------
(* The histories keep their types, and everybody else's is only added to.   *)
LEMMA Observed ==
    ASSUME TypeOK, Observe, accounts' \in Seq(Accounts), Len(accounts') <= MaxAccounts
    PROVE  /\ seen' \in [Handlers -> SUBSET BOOLEAN]
           /\ steady' \in [Handlers -> SUBSET ({Token} \union Ids)]
           /\ \A h \in Handlers :
                /\ Busy(h) \/ ~Busy(h)' => seen[h] \subseteq seen'[h]
                /\ Busy(h) => (LoginsOf(h)' # {}) \in seen'[h]
                /\ Busy(h) \/ ~Busy(h)' => steady'[h] \subseteq steady[h]
                /\ steady'[h] \subseteq LoginsOf(h)'
<1>1. \A h \in Handlers : LoginsOf(h)' \subseteq {Token} \union Ids
  <2>1. DOMAIN accounts' \subseteq Ids
    BY LenProperties, EarlierAssumption DEF Ids
  <2> QED BY <2>1 DEF LoginsOf, Logins, ActiveOf
<1>2. ASSUME NEW h \in Handlers
      PROVE  /\ seen'[h] \in SUBSET BOOLEAN
             /\ Busy(h) \/ ~Busy(h)' => seen[h] \subseteq seen'[h]
             /\ Busy(h) => (LoginsOf(h)' # {}) \in seen'[h]
  <2> DEFINE is == LoginsOf(h)' # {}
  <2>1. is \in BOOLEAN
    OBVIOUS
  <2>2. seen'[h] = (IF Busy(h) THEN seen[h] ELSE IF Busy(h)' THEN {} ELSE seen[h])
                     \union (IF Busy(h) \/ Busy(h)' THEN {is} ELSE {})
    BY DEF Observe
  <2>3. seen[h] \in SUBSET BOOLEAN
    BY DEF TypeOK
  <2> HIDE DEF is
  <2>4. /\ seen'[h] \in SUBSET BOOLEAN
        /\ Busy(h) \/ ~Busy(h)' => seen[h] \subseteq seen'[h]
        /\ Busy(h) => is \in seen'[h]
    BY <2>1, <2>2, <2>3, Zenon
  <2> QED BY <2>4 DEF is
<1>3. seen' \in [Handlers -> SUBSET BOOLEAN]
  BY <1>2 DEF Observe
<1>4. ASSUME NEW h \in Handlers
      PROVE  /\ steady'[h] \in SUBSET ({Token} \union Ids)
             /\ Busy(h) \/ ~Busy(h)' => steady'[h] \subseteq steady[h]
             /\ steady'[h] \subseteq LoginsOf(h)'
  BY <1>1 DEF Observe, TypeOK
<1>5. steady' \in [Handlers -> SUBSET ({Token} \union Ids)]
  BY <1>4 DEF Observe
<1> QED BY <1>2, <1>3, <1>4, <1>5
-----------------------------------------------------------------------------
(* A request begins in the position of its operation.                       *)
LEMMA BeginTyped ==
    ASSUME TInv, Observe, NEW h \in Handlers, Begin(h)
    PROVE  TInv' /\ accounts' = accounts
<1>1. PICK r \in Asked : /\ r.op = "status" /\ r.name = Slot => RoomToLink
                        /\ req' = [req EXCEPT ![h] = r]
                        /\ pc' = [pc EXCEPT ![h] = r.op]
  BY DEF Begin, Goto
<1>2. r \in Requests /\ r.op \in {"status", "store", "logout"}
  BY NameAssumption DEF Requests
<1>3. h \notin Linking /\ pc[h] = "idle"
  BY DEF Linking, Begin, Busy
<1>4. Linking' = IF r.op = "status" /\ r.name = Slot THEN Linking \union {h} ELSE Linking
  BY <1>1, <1>2, <1>3 DEF TInv, TypeOK, Linking, Busy
<1>5. RoomForLinks'
  BY <1>1, <1>3, <1>4, RoomAsked DEF TInv, Begin
<1>6. AtWork'
  BY <1>1, <1>2 DEF TInv, TypeOK, AtWork, Busy, Begin
<1>7. accounts' \in Seq(Accounts) /\ Len(accounts') <= MaxAccounts
  BY DEF TInv, TypeOK, Begin
<1>8. TypeOK'
  BY <1>1, <1>2, <1>7, Observed DEF TInv, TypeOK, Begin, Replies
<1> QED BY <1>5, <1>6, <1>8 DEF TInv, Begin

(* What a turn of a handler at work may do and keep the types: go where its *)
(* request allows, keep numbers of accounts there are, and add one account  *)
(* as it leaves the position that asks for a link.                          *)
LEMMA TurnTyped ==
    ASSUME TInv, Observe, NEW h \in Handlers, Busy(h),
           req' = req, tokens' \subseteq Names, AccountsKept,
           NEW p \in {"idle", "link", "delete"}, pc' = [pc EXCEPT ![h] = p],
           p = "link" => req[h].op = "status" /\ req[h].name = Slot,
           p = "delete" => req[h].name = Slot,
           \/ Len(accounts') = Len(accounts)
           \/ Len(accounts') = Len(accounts) + 1 /\ pc[h] = "link" /\ p = "idle",
           reply' \in [Handlers -> Replies],
           \A g \in Handlers : (g = h /\ p = "idle") \/ reply'[g] = reply[g],
           ids' \in [Handlers -> SUBSET (DOMAIN accounts')]
    PROVE  TInv'
<1>1. AtWork'
  BY DEF TInv, TypeOK, AtWork, Busy
<1>2. Linking' \subseteq Linking
  BY DEF TInv, TypeOK, Linking, Busy
<1>3. RoomForLinks' /\ Len(accounts') <= MaxAccounts
  <2>1. CASE Len(accounts') = Len(accounts)
    BY <2>1, <1>2, RoomKept DEF TInv
  <2>2. CASE Len(accounts') = Len(accounts) + 1 /\ pc[h] = "link" /\ p = "idle"
    <3>1. h \in Linking
      BY <2>2 DEF TInv, AtWork, Linking
    <3>2. Linking' \subseteq Linking \ {h}
      BY <1>2, <2>2 DEF TInv, TypeOK, Linking, Busy
    <3> QED BY <2>2, <3>1, <3>2, RoomTaken DEF TInv
  <2> QED BY <2>1, <2>2
<1>4. accounts' \in Seq(Accounts)
  BY DEF AccountsKept
<1>5. DOMAIN accounts' \subseteq Ids
  BY <1>3, <1>4, LenProperties, EarlierAssumption DEF Ids
<1>6. ids' \in [Handlers -> SUBSET Ids]
  BY <1>5
<1>7. \A g \in Handlers : ids'[g] \subseteq DOMAIN accounts'
  OBVIOUS
<1>8. pc' \in [Handlers -> {"idle", "status", "link", "store", "logout", "delete"}]
  BY DEF TInv, TypeOK
<1>9. TypeOK'
  BY <1>3, <1>4, <1>6, <1>7, <1>8, Observed DEF TInv, TypeOK
<1> QED BY <1>1, <1>3, <1>9 DEF TInv

(* The accounts are as they were.                                           *)
LEMMA NothingMoved ==
    ASSUME TypeOK, accounts' = accounts
    PROVE  AccountsKept /\ Len(accounts') = Len(accounts)
BY DEF TypeOK, AccountsKept

(* A turn that ends in an answer, with the accounts kept, keeps the types.  *)
LEMMA AnswerTyped ==
    ASSUME TInv, Observe, NEW h \in Handlers, Busy(h), NEW r \in Replies, Answer(h, r),
           req' = req, tokens' \subseteq Names, AccountsKept,
           Len(accounts') = Len(accounts)
    PROVE  TInv'
<1>1. DOMAIN accounts \subseteq DOMAIN accounts'
  BY DEF AccountsKept
<1>2. /\ pc' = [pc EXCEPT ![h] = "idle"]
      /\ ids' = [ids EXCEPT ![h] = {}]
      /\ reply' \in [Handlers -> Replies]
      /\ \A g \in Handlers : g = h \/ reply'[g] = reply[g]
  BY AnswerFacts DEF TInv, TypeOK
<1>3. ids' \in [Handlers -> SUBSET (DOMAIN accounts')]
  BY <1>1, <1>2 DEF TInv, TypeOK
<1> QED BY <1>2, <1>3, TurnTyped

(* Every step of a handler keeps the types and the accounts.                *)
LEMMA StepTyped ==
    ASSUME TInv, Observe, NEW h \in Handlers, Step(h)
    PROVE  TInv' /\ AccountsKept /\ req' = req
<1>0. TypeOK /\ tokens \subseteq Names /\ Busy(h)
  BY DEF TInv, TypeOK, Step, CheckUnknown, CheckToken, CheckAccounts, AuthUrl, Store,
         DeleteToken, ListAccounts, DeleteAccount, Disconnected, Busy
<1>1. CASE CheckUnknown(h)
  BY <1>0, <1>1, NothingMoved, AnswerTyped DEF CheckUnknown, Replies
<1>2. CASE CheckToken(h)
  BY <1>0, <1>2, NothingMoved, AnswerTyped DEF CheckToken, Replies
<1>3. CASE CheckAccounts(h)
  <2>1. CASE Answer(h, "connected") \/ Answer(h, "error")
    BY <1>0, <1>3, <2>1, NothingMoved, AnswerTyped DEF CheckAccounts, Replies
  <2>2. CASE Goto(h, "link") /\ UNCHANGED <<ids, reply>>
    <3>1. req[h].op = "status" /\ req[h].name = Slot
      BY <1>3 DEF CheckAccounts, TInv, AtWork
    <3>2. ids' \in [Handlers -> SUBSET (DOMAIN accounts')]
      BY <1>0, <1>3, <2>2 DEF CheckAccounts, TypeOK
    <3> QED BY <1>0, <1>3, <2>2, <3>1, <3>2, NothingMoved, TurnTyped
            DEF CheckAccounts, Goto, TypeOK
  <2> QED BY <1>3, <2>1, <2>2 DEF CheckAccounts
<1>4. CASE AuthUrl(h)
  <2> DEFINE made == Append(accounts, [user |-> req[h].user, status |-> "initiated"])
  <2>1. CASE accounts' = made /\ Answer(h, "auth_required")
    <3>1. req[h].user \in Users
      BY <1>0 DEF TypeOK, Requests
    <3>2. /\ AccountsKept
          /\ Len(made) = Len(accounts) + 1
          /\ DOMAIN accounts' = DOMAIN accounts \union {Len(made)}
      BY <1>0, <2>1, <3>1, LinkMade
    <3>3. /\ pc' = [pc EXCEPT ![h] = "idle"]
          /\ ids' = [ids EXCEPT ![h] = {}]
          /\ reply' \in [Handlers -> Replies]
          /\ \A g \in Handlers : g = h \/ reply'[g] = reply[g]
      BY <1>0, <2>1, AnswerFacts DEF TypeOK, Replies
    <3>4. ids' \in [Handlers -> SUBSET (DOMAIN accounts')]
      BY <1>0, <3>2, <3>3 DEF TypeOK
    <3>5. pc[h] = "link" /\ req' = req /\ tokens' = tokens /\ Len(accounts') = Len(accounts) + 1
      BY <1>4, <2>1, <3>2 DEF AuthUrl
    <3> QED BY <1>0, <3>2, <3>3, <3>4, <3>5, TurnTyped
  <2>2. CASE accounts' = accounts /\ Answer(h, "error")
    BY <1>0, <1>4, <2>2, NothingMoved, AnswerTyped DEF AuthUrl, Replies
  <2>3. CASE accounts' = made /\ Answer(h, "error")
    <3>1. req[h].user \in Users
      BY <1>0 DEF TypeOK, Requests
    <3>2. /\ AccountsKept
          /\ Len(accounts') = Len(accounts) + 1
          /\ DOMAIN accounts \subseteq DOMAIN accounts'
      BY <1>0, <2>3, <3>1, LinkMade
    <3>3. /\ pc' = [pc EXCEPT ![h] = "idle"]
          /\ ids' = [ids EXCEPT ![h] = {}]
          /\ reply' \in [Handlers -> Replies]
          /\ \A g \in Handlers : g = h \/ reply'[g] = reply[g]
      BY <1>0, <2>3, AnswerFacts DEF TypeOK, Replies
    <3>4. ids' \in [Handlers -> SUBSET (DOMAIN accounts')]
      BY <1>0, <3>2, <3>3 DEF TypeOK
    <3>5. pc[h] = "link" /\ req' = req /\ tokens' = tokens
      BY <1>4 DEF AuthUrl
    <3> QED BY <1>0, <3>2, <3>3, <3>4, <3>5, TurnTyped
  <2> QED BY <1>4, <2>1, <2>2, <2>3 DEF AuthUrl
<1>5. CASE Store(h)
  <2>1. tokens' \subseteq Names
    BY <1>0, <1>5 DEF Store, TypeOK, Requests
  <2> QED BY <1>0, <1>5, <2>1, NothingMoved, AnswerTyped DEF Store, Replies
<1>6. CASE DeleteToken(h)
  BY <1>0, <1>6, NothingMoved, AnswerTyped DEF DeleteToken, Replies
<1>7. CASE ListAccounts(h)
  <2>1. CASE Answer(h, "error")
    BY <1>0, <1>7, <2>1, NothingMoved, AnswerTyped DEF ListAccounts, Replies
  <2>2. CASE /\ ids' = [ids EXCEPT ![h] = ActiveOf(req[h].user)]
             /\ Goto(h, "delete")
             /\ UNCHANGED reply
    <3>1. ids' \in [Handlers -> SUBSET (DOMAIN accounts')]
      BY <1>0, <1>7, <2>2 DEF ListAccounts, TypeOK, ActiveOf
    <3> QED BY <1>0, <1>7, <2>2, <3>1, NothingMoved, TurnTyped
            DEF ListAccounts, Goto, TypeOK
  <2> QED BY <1>7, <2>1, <2>2 DEF ListAccounts
<1>8. CASE DeleteAccount(h)
  <2>1. PICK a \in ids[h] :
          \/ /\ SetStatus(a, "deleted")
             /\ ids' = [ids EXCEPT ![h] = @ \ {a}]
             /\ UNCHANGED <<pc, reply>>
          \/ /\ accounts' = accounts \/ SetStatus(a, "deleted")
             /\ Answer(h, "error")
    BY <1>8 DEF DeleteAccount
  <2>2. a \in DOMAIN accounts /\ "deleted" \in AccountStates
    BY <1>0 DEF TypeOK, AccountStates
  <2>3. /\ AccountsKept /\ Len(accounts') = Len(accounts)
        /\ DOMAIN accounts \subseteq DOMAIN accounts'
    BY <1>0, <2>1, <2>2, StatusSet, NothingMoved DEF AccountsKept
  <2>4. pc[h] = "delete" /\ req' = req /\ tokens' = tokens
    BY <1>8 DEF DeleteAccount
  <2>5. CASE Answer(h, "error")
    BY <1>0, <2>3, <2>4, <2>5, AnswerTyped DEF Replies
  <2>6. CASE /\ ids' = [ids EXCEPT ![h] = @ \ {a}]
             /\ UNCHANGED <<pc, reply>>
    <3>1. ids' \in [Handlers -> SUBSET (DOMAIN accounts')]
      BY <1>0, <2>3, <2>6 DEF TypeOK
    <3>2. pc' = [pc EXCEPT ![h] = "delete"] /\ req[h].name = Slot
      BY <1>0, <2>4, <2>6 DEF TInv, AtWork, TypeOK
    <3> QED BY <1>0, <2>3, <2>4, <2>6, <3>1, <3>2, TurnTyped DEF TypeOK
  <2> QED BY <2>1, <2>5, <2>6, <2>3, <2>4
<1>9. CASE Disconnected(h)
  BY <1>0, <1>9, NothingMoved, AnswerTyped DEF Disconnected, Replies
<1> QED BY <1>1, <1>2, <1>3, <1>4, <1>5, <1>6, <1>7, <1>8, <1>9 DEF Step

(* So does a caller that hangs up, and whatever happens at Composio.        *)
LEMMA OutsideTyped ==
    ASSUME TInv, Observe,
           \/ \E h \in Handlers : Dropped(h)
           \/ \E a \in DOMAIN accounts : FollowLink(a) \/ GrantLapses(a)
    PROVE  TInv' /\ AccountsKept /\ req' = req
<1>1. ASSUME NEW h \in Handlers, Dropped(h)
      PROVE  TInv' /\ AccountsKept /\ req' = req
  <2>1. /\ AccountsKept /\ Len(accounts') = Len(accounts)
        /\ DOMAIN accounts' = DOMAIN accounts
    BY <1>1, NothingMoved DEF Dropped, TInv
  <2>2. ids' \in [Handlers -> SUBSET (DOMAIN accounts')]
    BY <1>1, <2>1 DEF Dropped, TInv, TypeOK
  <2> QED BY <1>1, <2>1, <2>2, TurnTyped DEF Dropped, Goto, TInv, TypeOK
<1>2. ASSUME NEW a \in DOMAIN accounts, FollowLink(a) \/ GrantLapses(a)
      PROVE  TInv' /\ AccountsKept /\ req' = req
  <2>1. PICK status \in AccountStates : SetStatus(a, status)
    BY <1>2 DEF FollowLink, GrantLapses, AccountStates
  <2>2. /\ AccountsKept /\ Len(accounts') = Len(accounts)
        /\ DOMAIN accounts' = DOMAIN accounts
    BY <2>1, StatusSet DEF TInv
  <2>3. UNCHANGED <<tokens, requestVars>>
    BY <1>2 DEF FollowLink, GrantLapses
  <2>4. AtWork'
    BY <2>3 DEF TInv, AtWork, Busy, requestVars
  <2>5. Linking' = Linking
    BY <2>3 DEF Linking, Busy, requestVars
  <2>6. RoomForLinks' /\ Len(accounts') <= MaxAccounts
    BY <2>2, <2>5, RoomKept DEF TInv
  <2>7. TypeOK'
    BY <2>2, <2>3, <2>6, Observed DEF TInv, TypeOK, AccountsKept, requestVars
  <2> QED BY <2>2, <2>3, <2>4, <2>6, <2>7 DEF TInv, requestVars
<1> QED BY <1>1, <1>2

(* The first state is typed and has room for the links nobody asks for.     *)
LEMMA InitTyped == Init => TInv
<1> SUFFICES ASSUME Init PROVE TInv
  OBVIOUS
<1>1. accounts \in Seq(Accounts) /\ Len(accounts) <= MaxAccounts
  BY EarlierAssumption DEF Init
<1>2. Requests # {} /\ (CHOOSE r \in Requests : TRUE) \in Requests
  BY NameAssumption
<1>3. TypeOK
  BY <1>1, <1>2 DEF Init, TypeOK, Replies
<1>4. Linking = {}
  BY DEF Init, Linking, Busy
<1>5. RoomForLinks
  BY <1>1, <1>4, <1>3, AccountNumbers, EarlierAssumption, FS_EmptySet DEF RoomForLinks
<1>6. AtWork
  BY DEF Init, AtWork, Busy
<1> QED BY <1>3, <1>5, <1>6 DEF TInv

(* What every step does to the types and the accounts.                      *)
LEMMA NextTyped ==
    ASSUME TInv, Next
    PROVE  TInv' /\ AccountsKept
<1>1. ASSUME NEW h \in Handlers, Begin(h)
      PROVE  TInv' /\ AccountsKept
  BY <1>1, BeginTyped, NothingMoved DEF Next, TInv
<1> QED BY <1>1, StepTyped, OutsideTyped DEF Next

(* TypeOK: every variable keeps its type; every number a handler holds is   *)
(* an account's, and there is room for each link that may be asked for.     *)
THEOREM TypeCorrect == Spec => []TypeOK
<1>1. TInv /\ [Next]_vars => TInv'
  <2>1. ASSUME TInv, UNCHANGED vars PROVE TInv'
    BY <2>1 DEF vars, requestVars, TInv, TypeOK, AtWork, RoomForLinks, Linking, Busy
  <2> QED BY <2>1, NextTyped
<1>2. TInv => TypeOK
  BY DEF TInv
<1> QED BY <1>1, <1>2, InitTyped, PTL DEF Spec
-----------------------------------------------------------------------------
(* A handler that does not move keeps what it has said borne out: accounts  *)
(* keep their users, what was seen stays seen, no login becomes older.      *)
LEMMA Bystander ==
    ASSUME TInv, TInv', Observe, AccountsKept, NEW g \in Handlers, BorneOut(g),
           pc'[g] = pc[g], req'[g] = req[g], ids'[g] = ids[g],
           reply'[g] = reply[g]
    PROVE  BorneOut(g)'
<1>1. ids[g] \subseteq DOMAIN accounts
  BY DEF TInv, TypeOK
<1>2. OwnAccounts(g)'
  BY <1>1 DEF BorneOut, OwnAccounts, AccountsKept
<1>3. seen[g] \subseteq seen'[g] /\ steady'[g] \subseteq steady[g]
  BY Observed DEF Busy, TInv, TypeOK
<1>4. SeenOut(g)' /\ StillListed(g)'
  BY <1>3 DEF BorneOut, SeenOut, StillListed
<1>5. Cleared(g)'
  BY <1>3 DEF BorneOut, Cleared
<1>6. ToldTruth(g)'
  <2> DEFINE yes == (reply[g] = "connected")
  <2>1. yes = (reply'[g] = "connected")
    OBVIOUS
  <2>2. reply'[g] \in {"connected", "auth_required"} => Known(req'[g].name) /\ yes \in seen[g]
    BY DEF BorneOut, ToldTruth
  <2> HIDE DEF yes
  <2>3. reply'[g] \in {"connected", "auth_required"} => Known(req'[g].name) /\ yes \in seen'[g]
    BY <2>2, <1>3
  <2> QED BY <2>1, <2>3 DEF ToldTruth, Known
<1> QED BY <1>2, <1>4, <1>5, <1>6 DEF BorneOut

(* A request that begins has said nothing and holds nothing.                *)
LEMMA BeginBorneOut ==
    ASSUME TInv, TInv', Observe, NEW h \in Handlers, BorneOut(h), Begin(h)
    PROVE  BorneOut(h)'
<1>1. ids[h] = {} /\ pc'[h] \in {"status", "store", "logout"}
  BY NameAssumption DEF Begin, Busy, BorneOut, OwnAccounts, Requests, Goto, TInv, TypeOK
<1>2. ids'[h] = {} /\ reply'[h] = "none"
  BY <1>1 DEF Begin, TInv, TypeOK
<1> QED BY <1>1, <1>2 DEF BorneOut, OwnAccounts, SeenOut, StillListed, ToldTruth, Cleared

(* An answer is borne out if what it says is.                               *)
LEMMA AnswerBorneOut ==
    ASSUME TInv, NEW h \in Handlers, NEW r \in Replies, Answer(h, r), req' = req,
           r \in {"connected", "auth_required"} =>
               Known(req[h].name) /\ (r = "connected") \in seen'[h],
           r = "disconnected" => steady'[h] = {}
    PROVE  BorneOut(h)'
<1>1. pc'[h] = "idle" /\ ids'[h] = {} /\ reply'[h] \in {r, "error"}
  BY AnswerFacts DEF TInv, TypeOK
<1>2. OwnAccounts(h)' /\ SeenOut(h)' /\ StillListed(h)' /\ Cleared(h)'
  BY <1>1 DEF OwnAccounts, SeenOut, StillListed, Cleared
<1>3. ToldTruth(h)'
  <2>1. CASE reply'[h] = r
    BY <2>1 DEF ToldTruth, Known
  <2>2. CASE reply'[h] = "error"
    BY <2>2 DEF ToldTruth
  <2> QED BY <1>1, <2>1, <2>2
<1> QED BY <1>2, <1>3 DEF BorneOut

(* Every step of a handler leaves it with answers that are borne out.       *)
LEMMA StepBorneOut ==
    ASSUME TInv, TInv', Observe, AccountsKept, NEW h \in Handlers, BorneOut(h),
           Step(h), req' = req
    PROVE  BorneOut(h)'
<1>0. /\ Busy(h) /\ TypeOK
      /\ accounts' \in Seq(Accounts) /\ Len(accounts') <= MaxAccounts
  BY DEF TInv, TypeOK, Step, CheckUnknown, CheckToken, CheckAccounts, AuthUrl, Store,
         DeleteToken, ListAccounts, DeleteAccount, Disconnected, Busy
<1> DEFINE in == LoginsOf(h)' # {}
<1>a. /\ seen[h] \subseteq seen'[h] /\ in \in seen'[h]
      /\ steady'[h] \subseteq steady[h] /\ steady'[h] \subseteq LoginsOf(h)'
  BY <1>0, Observed
<1>b. in \in BOOLEAN
  OBVIOUS
<1>c. /\ in => TRUE \in seen'[h]
      /\ ~in => FALSE \in seen'[h]
  <2> HIDE DEF in
  <2> QED BY <1>a, <1>b, Zenon
<1>1. CASE CheckUnknown(h)
  BY <1>1, AnswerBorneOut DEF CheckUnknown, Replies
<1>2. CASE CheckToken(h)
  <2>1. CASE Answer(h, "error")
    BY <1>2, <2>1, AnswerBorneOut DEF CheckToken, Replies
  <2>2. CASE Answer(h, "connected") /\ req[h].name \in tokens
    <3>1. in /\ Known(req[h].name)
      BY <1>2, <2>2 DEF CheckToken, LoginsOf, Logins
    <3>2. ("connected" = "connected") \in seen'[h]
      BY <3>1, <1>c
    <3> QED BY <1>2, <2>2, <3>1, <3>2, AnswerBorneOut DEF CheckToken, Replies
  <2>3. CASE Answer(h, "auth_required") /\ req[h].name \notin tokens
    <3>1. ~in /\ Known(req[h].name)
      BY <1>2, <2>3 DEF CheckToken, LoginsOf, Logins
    <3>2. ("auth_required" = "connected") \in seen'[h]
      BY <3>1, <1>c
    <3> QED BY <1>2, <2>3, <3>1, <3>2, AnswerBorneOut DEF CheckToken, Replies
  <2> QED BY <1>2, <2>1, <2>2, <2>3 DEF CheckToken
<1>3. CASE CheckAccounts(h)
  <2>0. Known(req[h].name)
    BY <1>3 DEF CheckAccounts, Known
  <2>1. CASE Answer(h, "error")
    BY <1>3, <2>1, AnswerBorneOut DEF CheckAccounts, Replies
  <2>2. CASE Answer(h, "connected") /\ ActiveOf(req[h].user) # {}
    <3>1. in
      BY <1>3, <2>2 DEF CheckAccounts, LoginsOf, Logins, ActiveOf
    <3>2. ("connected" = "connected") \in seen'[h]
      BY <3>1, <1>c
    <3> QED BY <1>3, <2>0, <2>2, <3>2, AnswerBorneOut DEF CheckAccounts, Replies
  <2>3. CASE ActiveOf(req[h].user) = {} /\ Goto(h, "link") /\ UNCHANGED <<ids, reply>>
    <3>1. ~in
      BY <1>3, <2>3 DEF CheckAccounts, LoginsOf, Logins, ActiveOf
    <3>2. FALSE \in seen'[h]
      BY <3>1, <1>c
    <3>3. pc'[h] = "link" /\ ids'[h] = {} /\ reply'[h] = "none"
      BY <1>3, <2>3 DEF CheckAccounts, Goto, TInv, TypeOK, AtWork, Busy, BorneOut, OwnAccounts
    <3> QED BY <3>2, <3>3
            DEF BorneOut, OwnAccounts, SeenOut, StillListed, ToldTruth, Cleared
  <2> QED BY <1>3, <2>1, <2>2, <2>3 DEF CheckAccounts
<1>4. CASE AuthUrl(h)
  <2> DEFINE made == Append(accounts, [user |-> req[h].user, status |-> "initiated"])
  <2>1. CASE Answer(h, "auth_required")
    <3>1. FALSE \in seen'[h] /\ Known(req[h].name)
      BY <1>4, <1>a DEF AuthUrl, BorneOut, SeenOut, TInv, AtWork, Known
    <3>2. ("auth_required" = "connected") \in seen'[h]
      BY <3>1
    <3> QED BY <2>1, <3>1, <3>2, AnswerBorneOut DEF Replies
  <2>2. CASE Answer(h, "error")
    BY <2>2, AnswerBorneOut DEF Replies
  <2> QED BY <1>4, <2>1, <2>2 DEF AuthUrl
<1>5. CASE Store(h)
  BY <1>5, AnswerBorneOut DEF Store, Replies
<1>6. CASE DeleteToken(h)
  <2>1. CASE Answer(h, "error")
    BY <1>6, <2>1, AnswerBorneOut DEF DeleteToken, Replies
  <2>2. CASE tokens' = tokens \ {req[h].name} /\ Answer(h, "disconnected")
    <3>1. LoginsOf(h)' = {}
      BY <1>6, <2>2 DEF DeleteToken, LoginsOf, Logins
    <3>2. steady'[h] = {}
      BY <3>1, <1>a
    <3> QED BY <1>6, <2>2, <3>2, AnswerBorneOut DEF DeleteToken, Replies
  <2> QED BY <1>6, <2>1, <2>2 DEF DeleteToken
<1>7. CASE ListAccounts(h)
  <2>1. CASE Answer(h, "error")
    BY <1>7, <2>1, AnswerBorneOut DEF ListAccounts, Replies
  <2>2. CASE /\ ids' = [ids EXCEPT ![h] = ActiveOf(req[h].user)]
             /\ Goto(h, "delete")
             /\ UNCHANGED reply
    <3>1. pc'[h] = "delete" /\ ids'[h] = ActiveOf(req[h].user) /\ reply'[h] = "none"
      BY <1>0, <2>2 DEF Goto, TInv, TypeOK, AtWork
    <3>2. accounts' = accounts /\ req[h].name = Slot
      BY <1>7 DEF ListAccounts
    <3>3. LoginsOf(h)' = ids'[h]
      BY <3>1, <3>2 DEF LoginsOf, Logins, ActiveOf
    <3>4. \A a \in ids'[h] : accounts'[a].user = req'[h].user
      BY <3>1, <3>2 DEF ActiveOf
    <3>5. steady'[h] \subseteq ids'[h]
      BY <3>3, <1>a
    <3> QED BY <3>1, <3>4, <3>5
            DEF BorneOut, OwnAccounts, SeenOut, StillListed, ToldTruth, Cleared
  <2> QED BY <1>7, <2>1, <2>2 DEF ListAccounts
<1>8. CASE DeleteAccount(h)
  <2>0. pc[h] = "delete"
    BY <1>8 DEF DeleteAccount
  <2>1. CASE Answer(h, "error")
    BY <2>0, <2>1, AnswerBorneOut DEF Replies
  <2>2. CASE \E a \in ids[h] : /\ SetStatus(a, "deleted")
                              /\ ids' = [ids EXCEPT ![h] = @ \ {a}]
                              /\ UNCHANGED <<pc, reply>>
    <3>1. PICK a \in ids[h] : /\ SetStatus(a, "deleted")
                             /\ ids' = [ids EXCEPT ![h] = @ \ {a}]
                             /\ UNCHANGED <<pc, reply>>
      BY <2>2
    <3>2. a \in DOMAIN accounts /\ ids[h] \subseteq DOMAIN accounts
      BY <1>0 DEF TypeOK
    <3>3. accounts'[a].status = "deleted"
      BY <1>0, <3>1, <3>2, StatusSet DEF AccountStates
    <3>4. pc'[h] = "delete" /\ ids'[h] = ids[h] \ {a} /\ reply'[h] = "none"
      BY <1>0, <2>0, <3>1 DEF TInv, TypeOK, AtWork
    <3>5. \A b \in ids'[h] : accounts'[b].user = req'[h].user
      BY <3>2, <3>4 DEF AccountsKept, BorneOut, OwnAccounts
    <3>6. a \notin LoginsOf(h)'
      <4>1. req'[h].name = Slot
        BY <2>0 DEF TInv, AtWork
      <4> QED BY <3>3, <4>1 DEF LoginsOf, Logins, ActiveOf
    <3>7. steady'[h] \subseteq ids'[h]
      BY <1>a, <2>0, <3>4, <3>6 DEF BorneOut, StillListed
    <3> QED BY <3>4, <3>5, <3>7
            DEF BorneOut, OwnAccounts, SeenOut, StillListed, ToldTruth, Cleared
  <2> QED BY <1>8, <2>1, <2>2 DEF DeleteAccount
<1>9. CASE Disconnected(h)
  <2>1. steady'[h] = {}
    BY <1>9, <1>a DEF Disconnected, BorneOut, StillListed
  <2> QED BY <1>9, <2>1, AnswerBorneOut DEF Disconnected, Replies
<1> QED BY <1>1, <1>2, <1>3, <1>4, <1>5, <1>6, <1>7, <1>8, <1>9 DEF Step

(* A step of one handler leaves the others where they are.                  *)
LEMMA MovesAlone ==
    ASSUME TypeOK, NEW h \in Handlers, Begin(h) \/ Step(h) \/ Dropped(h),
           NEW g \in Handlers, g # h
    PROVE  /\ pc'[g] = pc[g] /\ req'[g] = req[g] /\ ids'[g] = ids[g]
           /\ reply'[g] = reply[g]
<1>1. CASE Begin(h) \/ Dropped(h)
  BY <1>1 DEF Begin, Dropped, Goto, TypeOK
<1>2. CASE Step(h)
  <2>1. ASSUME NEW r, Answer(h, r)
        PROVE  pc'[g] = pc[g] /\ ids'[g] = ids[g] /\ reply'[g] = reply[g]
    BY <2>1 DEF Answer, Goto, TypeOK
  <2>2. CASE CheckUnknown(h) \/ CheckToken(h) \/ CheckAccounts(h)
    BY <2>1, <2>2 DEF CheckUnknown, CheckToken, CheckAccounts, Goto, TypeOK
  <2>3. CASE AuthUrl(h)
    BY <2>1, <2>3 DEF AuthUrl, TypeOK
  <2>4. CASE Store(h) \/ DeleteToken(h)
    BY <2>1, <2>4 DEF Store, DeleteToken
  <2>5. CASE ListAccounts(h) \/ Disconnected(h)
    BY <2>1, <2>5 DEF ListAccounts, Disconnected, Goto, TypeOK
  <2>6. CASE DeleteAccount(h)
    BY <2>1, <2>6 DEF DeleteAccount, TypeOK
  <2> QED BY <1>2, <2>2, <2>3, <2>4, <2>5, <2>6 DEF Step
<1> QED BY <1>1, <1>2

(* Every step keeps the inductive invariant.                                *)
LEMMA Inductive == IInv /\ [Next]_vars => IInv'
<1>1. ASSUME IInv, UNCHANGED vars PROVE IInv'
  <2>1. TInv'
    BY <1>1 DEF IInv, vars, requestVars, TInv, TypeOK, AtWork, RoomForLinks, Linking, Busy
  <2>2. ASSUME NEW g \in Handlers PROVE BorneOut(g)'
    BY <1>1, <2>2 DEF IInv, vars, requestVars, BorneOut, OwnAccounts, SeenOut, StillListed,
                      ToldTruth, Cleared, Known
  <2> QED BY <2>1, <2>2 DEF IInv
<1>2. ASSUME IInv, Next PROVE IInv'
  <2>1. TInv' /\ AccountsKept /\ Observe /\ TInv /\ TypeOK
    BY <1>2, NextTyped DEF IInv, Next, TInv
  <2>2. ASSUME NEW h \in Handlers, Begin(h) \/ Step(h) \/ Dropped(h)
        PROVE  \A g \in Handlers : BorneOut(g)'
    <3>1. ASSUME NEW g \in Handlers, g # h PROVE BorneOut(g)'
      BY <1>2, <2>1, <2>2, <3>1, MovesAlone, Bystander DEF IInv
    <3>2. BorneOut(h)'
      <4>1. CASE Begin(h)
        BY <1>2, <2>1, <4>1, BeginBorneOut DEF IInv
      <4>2. CASE Step(h)
        <5>1. req' = req
          BY <2>1, <4>2, StepTyped
        <5> QED BY <1>2, <2>1, <4>2, <5>1, StepBorneOut DEF IInv
      <4>3. CASE Dropped(h)
        <5>1. pc'[h] = "idle" /\ ids'[h] = {} /\ reply'[h] = "none" /\ req' = req
          BY <2>1, <4>3 DEF Dropped, Goto, TInv, TypeOK, AtWork
        <5> QED BY <5>1
                DEF BorneOut, OwnAccounts, SeenOut, StillListed, ToldTruth, Cleared
      <4> QED BY <2>2, <4>1, <4>2, <4>3
    <3> QED BY <3>1, <3>2
  <2>3. ASSUME NEW a \in DOMAIN accounts, FollowLink(a) \/ GrantLapses(a)
        PROVE  \A g \in Handlers : BorneOut(g)'
    BY <1>2, <2>1, <2>3, Bystander DEF IInv, FollowLink, GrantLapses, requestVars
  <2> QED BY <1>2, <2>1, <2>2, <2>3 DEF Next, IInv
<1> QED BY <1>1, <1>2

(* To begin with, nothing has been said.                                    *)
LEMMA InitBorneOut == Init => IInv
<1> SUFFICES ASSUME Init PROVE IInv
  OBVIOUS
<1>1. ASSUME NEW h \in Handlers PROVE BorneOut(h)
  BY <1>1 DEF Init, BorneOut, OwnAccounts, SeenOut, StillListed, ToldTruth, Cleared
<1> QED BY <1>1, InitTyped DEF IInv

(* The inductive invariant holds throughout.                                *)
LEMMA AlwaysBorneOut == Spec => []IInv
BY Inductive, InitBorneOut, PTL DEF Spec
-----------------------------------------------------------------------------
(* StatusIsTrue: "connected" and "please authenticate" were each the truth  *)
(* at some moment of their request, and only of a connector that exists,    *)
(* for any number of users, connectors and requests in flight, whatever     *)
(* fails at Composio, in the table or on the way.                           *)
THEOREM StatusAnswers == Spec => []StatusIsTrue
<1>1. IInv => StatusIsTrue
  BY DEF IInv, BorneOut, ToldTruth, StatusIsTrue
<1> QED BY <1>1, AlwaysBorneOut, PTL

(* LogoutClears: no login that its user had throughout a logout survives    *)
(* the answer "disconnected", however many accounts there were to delete    *)
(* and whoever else deleted some of them.                                   *)
THEOREM LogoutsClear == Spec => []LogoutClears
<1>1. IInv => LogoutClears
  BY DEF IInv, BorneOut, Cleared, LogoutClears
<1> QED BY <1>1, AlwaysBorneOut, PTL

(* OthersStayIn: an account in use is deleted by a logout of its own user,  *)
(* whoever else is logged in or out meanwhile.                              *)
THEOREM OthersAreLeft == Spec => OthersStayIn
<1> DEFINE Own == \A a \in DOMAIN accounts :
        accounts[a].status = "active" /\ accounts'[a].status = "deleted" =>
            \E h \in Handlers : /\ pc[h] = "delete"
                                /\ req[h].user = accounts[a].user
<1>1. ASSUME IInv, Next PROVE Own
  <2>0. TypeOK /\ \A h \in Handlers : BorneOut(h)
    BY <1>1 DEF IInv, TInv
  <2>1. ASSUME NEW h \in Handlers, DeleteAccount(h) PROVE Own
    <3>1. PICK b \in ids[h] : accounts' = accounts \/ SetStatus(b, "deleted")
      BY <2>1 DEF DeleteAccount
    <3>2. b \in DOMAIN accounts /\ accounts[b].user = req[h].user /\ pc[h] = "delete"
      BY <2>0, <2>1, <3>1 DEF TypeOK, BorneOut, OwnAccounts, DeleteAccount
    <3>3. \A a \in DOMAIN accounts : a # b => accounts'[a].status = accounts[a].status
      BY <2>0, <3>1, <3>2, StatusSet DEF AccountStates
    <3> QED BY <3>2, <3>3
  <2>2. ASSUME NEW h \in Handlers, AuthUrl(h) PROVE Own
    <3>1. req[h].user \in Users
      BY <2>0 DEF TypeOK, Requests
    <3>2. \/ accounts' = accounts
          \/ accounts' = Append(accounts, [user |-> req[h].user, status |-> "initiated"])
      BY <2>2 DEF AuthUrl
    <3>3. \A a \in DOMAIN accounts : accounts'[a] = accounts[a]
      BY <2>0, <3>1, <3>2, LinkMade
    <3> QED BY <3>3
  <2>3. ASSUME NEW a \in DOMAIN accounts, FollowLink(a) \/ GrantLapses(a) PROVE Own
    <3>1. PICK status \in {"active", "expired"} : SetStatus(a, status)
      BY <2>3 DEF FollowLink, GrantLapses
    <3>2. \A b \in DOMAIN accounts :
            accounts'[b].status = IF b = a THEN status ELSE accounts[b].status
      BY <2>0, <3>1, StatusSet DEF AccountStates
    <3> QED BY <3>1, <3>2
  <2>4. CASE accounts' = accounts
    BY <2>4
  <2> HIDE DEF Own
  <2> QED BY <1>1, <2>1, <2>2, <2>3, <2>4
          DEF Next, Begin, Step, CheckUnknown, CheckToken, CheckAccounts, Store,
              DeleteToken, ListAccounts, Disconnected, Dropped
<1>2. ASSUME IInv, UNCHANGED vars PROVE Own
  BY <1>2 DEF vars
<1>3. IInv /\ [Next]_vars => [Own]_vars
  BY <1>1, <1>2
<1> QED BY <1>3, AlwaysBorneOut, PTL DEF Spec, OthersStayIn
=============================================================================
