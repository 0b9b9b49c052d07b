-------------------------- MODULE SchemaCache_proofs --------------------------
(***************************************************************************)
(* What the schema cache gives the pre-flight's diff, for every number of  *)
(* tools, handlers and changes and every choice of faults: schemas that    *)
(* were published, none forgotten, and no more interleaving to be seen     *)
(* than SchemaVerdict's single step.                                       *)
(***************************************************************************)
EXTENDS SchemaCache, TLAPS

\* Every schema in the cache, in a list and in force is one that was shown.
Shown(list) == \A t \in Tools : list[t] # None => list[t] \in past[t]
AllShown == Shown(cache) /\ Shown(published) /\ \A h \in Handlers : Shown(fetched[h])

\* What a handler knows, and where it has it from.
AtWork ==
    \A h \in Handlers :
        /\ pc[h] = "idle" <=> verdict[h] # Unjudged
        /\ pc[h] \in {"idle", "check", "list"} => fetched[h] = Nothing
        /\ pc[h] \in {"check", "list"} => ~known[h]
        /\ pc[h] = "ingest" /\ known[h] => fetched[h][Tool(h)] # None
        /\ pc[h] = "diff" /\ known[h] => cache[Tool(h)] # None

\* The inductive invariant: what was judged by is still there, too.
IInv == TypeOK /\ AllShown /\ AtWork /\ held \subseteq Present(cache)
-----------------------------------------------------------------------------
(* Lists hold schemas, or nothing.                                          *)
LEMMA ListFacts ==
    /\ Nothing \in Lists
    /\ \A list \in Lists, t \in Tools : list[t] # None => list[t] \in Schemas
    /\ \A list \in Lists, t \in Tools : Visible(list)[t] \in SUBSET Schemas
    /\ \A t \in Tools : Nothing[t] = None
    /\ \A s \in Schemas : s # None /\ s # Unjudged /\ s # Failed
BY SchemaAssumption DEF Lists, Nothing, Visible

(* An answer leaves the handler with its verdict and no list.               *)
LEMMA AnswerFacts ==
    ASSUME TypeOK, NEW h \in Handlers, NEW v \in {Failed} \union Schemas, Answer(h, v)
    PROVE  /\ pc' \in [Handlers -> {"idle", "check", "list", "ingest", "diff"}]
           /\ verdict' \in [Handlers -> {Unjudged, Failed} \union Schemas]
           /\ fetched' \in [Handlers -> Lists]
           /\ pc'[h] = "idle" /\ verdict'[h] = v /\ v # Unjudged /\ fetched'[h] = Nothing
           /\ \A g \in Handlers : g # h =>
                pc'[g] = pc[g] /\ verdict'[g] = verdict[g] /\ fetched'[g] = fetched[g]
<1>1. v # Unjudged
  BY ListFacts, SchemaAssumption
<1>2. /\ pc' = [pc EXCEPT ![h] = "idle"] /\ verdict' = [verdict EXCEPT ![h] = v]
      /\ fetched' = [fetched EXCEPT ![h] = Nothing]
  BY DEF Answer, Goto
<1> QED BY <1>1, <1>2, ListFacts DEF TypeOK

(* A handler that answers keeps the invariant, with the cache as it is.     *)
LEMMA AnswerKeeps ==
    ASSUME IInv, NEW h \in Handlers, NEW v \in {Failed} \union Schemas, Answer(h, v),
           UNCHANGED <<published, changes, cache, call, past, known>>,
           held' \subseteq Present(cache)
    PROVE  IInv'
<1>1. TypeOK /\ AllShown /\ AtWork
  BY DEF IInv
<1>2. /\ pc' \in [Handlers -> {"idle", "check", "list", "ingest", "diff"}]
      /\ verdict' \in [Handlers -> {Unjudged, Failed} \union Schemas]
      /\ fetched' \in [Handlers -> Lists]
      /\ pc'[h] = "idle" /\ verdict'[h] = v /\ v # Unjudged /\ fetched'[h] = Nothing
      /\ \A g \in Handlers : g # h =>
           pc'[g] = pc[g] /\ verdict'[g] = verdict[g] /\ fetched'[g] = fetched[g]
  BY <1>1, AnswerFacts
<1>3. \A g \in Handlers : fetched'[g] = fetched[g] \/ fetched'[g] = Nothing
  BY <1>2
<1>4. TypeOK'
  BY <1>1, <1>2, <1>3, ListFacts DEF TypeOK, Tool, Present
<1>5. AllShown'
  BY <1>1, <1>3, ListFacts DEF AllShown, Shown
<1>6. AtWork'
  BY <1>1, <1>2 DEF AtWork, Tool
<1>7. held' \subseteq Present(cache)'
  BY DEF Present
<1> QED BY <1>4, <1>5, <1>6, <1>7 DEF IInv

(* A check that arrives knows nothing yet.                                  *)
LEMMA ArriveKeeps ==
    ASSUME IInv, NEW h \in Handlers, Arrive(h)
    PROVE  IInv'
<1>1. TypeOK /\ AllShown /\ AtWork /\ fetched[h] = Nothing
  BY DEF IInv, Arrive, AtWork
<1>2. TypeOK'
  BY <1>1, ListFacts DEF Arrive, Goto, TypeOK, Tool
<1>3. AllShown'
  BY <1>1 DEF Arrive, AllShown, Shown
<1>4. AtWork'
  BY <1>1 DEF Arrive, Goto, AtWork, TypeOK, Tool
<1> QED BY <1>2, <1>3, <1>4 DEF IInv, Arrive, Present

(* Looking into the cache tells a handler what it says.                     *)
LEMMA CheckKeeps ==
    ASSUME IInv, NEW h \in Handlers, Check(h)
    PROVE  IInv'
<1>1. TypeOK /\ AllShown /\ AtWork
  BY DEF IInv
<1>2. TypeOK'
  <2> DEFINE has == cache[Tool(h)] # None
  <2>1. has \in BOOLEAN
    OBVIOUS
  <2> QED BY <1>1, <2>1 DEF Check, Goto, TypeOK, Tool
<1>3. AllShown'
  BY <1>1 DEF Check, AllShown, Shown
<1>4. AtWork'
  BY <1>1 DEF Check, Goto, AtWork, TypeOK, Tool
<1> QED BY <1>2, <1>3, <1>4 DEF IInv, Check, Present

(* A list shows what is published of the connector, or nothing.             *)
LEMMA FetchFacts ==
    ASSUME TypeOK, AllShown, NEW h \in Handlers, Fetch(h)
    PROVE  /\ pc[h] = "list" /\ UNCHANGED <<published, changes, cache, call, held, past>>
           /\ \/ \E list \in Lists :
                   /\ fetched' = [fetched EXCEPT ![h] = list]
                   /\ known' = [known EXCEPT ![h] = list[Tool(h)] # None]
                   /\ Shown(list)
                   /\ \A t \in Tools : list[t] # None => ConnectorOf[t] = ConnectorOf[Tool(h)]
                   /\ pc' = [pc EXCEPT ![h] = "ingest"] /\ verdict' = verdict
              \/ Answer(h, Failed) /\ known' = known
<1> DEFINE own == [t \in Tools |-> IF ConnectorOf[t] = ConnectorOf[Tool(h)]
                                     THEN published[t] ELSE None]
<1>1. own \in Lists /\ Nothing \in Lists
  BY ListFacts DEF TypeOK, Lists
<1>2. /\ Shown(own) /\ Shown(Nothing)
      /\ \A t \in Tools : own[t] # None => ConnectorOf[t] = ConnectorOf[Tool(h)]
      /\ \A t \in Tools : Nothing[t] # None => ConnectorOf[t] = ConnectorOf[Tool(h)]
  BY ListFacts DEF AllShown, Shown
<1>3. CASE Answer(h, Failed) /\ known' = known
  BY <1>3 DEF Fetch
<1>4. CASE \E list \in {own, Nothing} :
             /\ fetched' = [fetched EXCEPT ![h] = list]
             /\ known' = [known EXCEPT ![h] = list[Tool(h)] # None]
             /\ Goto(h, "ingest")
             /\ UNCHANGED verdict
  <2>1. PICK list \in {own, Nothing} :
             /\ fetched' = [fetched EXCEPT ![h] = list]
             /\ known' = [known EXCEPT ![h] = list[Tool(h)] # None]
             /\ Goto(h, "ingest")
             /\ UNCHANGED verdict
    BY <1>4
  <2>2. /\ list \in Lists /\ Shown(list)
        /\ \A t \in Tools : list[t] # None => ConnectorOf[t] = ConnectorOf[Tool(h)]
    BY <1>1, <1>2, <2>1
  <2> HIDE DEF own
  <2> QED BY <2>1, <2>2 DEF Goto, Fetch
<1> QED BY <1>3, <1>4 DEF Fetch

(* Fetching a list keeps the invariant: it is shown, and of one connector.  *)
LEMMA FetchKeeps ==
    ASSUME IInv, NEW h \in Handlers, Fetch(h)
    PROVE  IInv'
<1>1. /\ TypeOK /\ AllShown /\ AtWork /\ held \subseteq Present(cache)
      /\ pc[h] = "list" /\ UNCHANGED <<published, changes, cache, call, held, past>>
  BY FetchFacts DEF IInv
<1>2. CASE Answer(h, Failed) /\ known' = known
  BY <1>1, <1>2, AnswerKeeps
<1>3. CASE \E list \in Lists :
             /\ fetched' = [fetched EXCEPT ![h] = list]
             /\ known' = [known EXCEPT ![h] = list[Tool(h)] # None]
             /\ Shown(list)
             /\ \A t \in Tools : list[t] # None => ConnectorOf[t] = ConnectorOf[Tool(h)]
             /\ pc' = [pc EXCEPT ![h] = "ingest"] /\ verdict' = verdict
  <2>1. PICK list \in Lists :
             /\ fetched' = [fetched EXCEPT ![h] = list]
             /\ known' = [known EXCEPT ![h] = list[Tool(h)] # None]
             /\ Shown(list)
             /\ \A t \in Tools : list[t] # None => ConnectorOf[t] = ConnectorOf[Tool(h)]
             /\ pc' = [pc EXCEPT ![h] = "ingest"] /\ verdict' = verdict
    BY <1>3
  <2> DEFINE has == list[Tool(h)] # None
  <2>2. has \in BOOLEAN
    OBVIOUS
  <2>3. known' \in [Handlers -> BOOLEAN]
    <3>1. known' = [known EXCEPT ![h] = has]
      BY <2>1
    <3> HIDE DEF has
    <3> QED BY <1>1, <2>2, <3>1 DEF TypeOK
  <2>4. TypeOK'
    BY <1>1, <2>1, <2>3 DEF TypeOK, Tool
  <2>5. AllShown'
    BY <1>1, <2>1 DEF AllShown, Shown, TypeOK
  <2>6. AtWork'
    BY <1>1, <2>1 DEF AtWork, Tool, TypeOK
  <2> QED BY <1>1, <2>4, <2>5, <2>6 DEF IInv, Present
<1> QED BY <1>2, <1>3, FetchFacts DEF IInv

(* Writing a list overwrites schemas by schemas and takes none away, so     *)
(* that what other handlers know stays known.                               *)
LEMMA IngestKeeps ==
    ASSUME IInv, NEW h \in Handlers, Ingest(h)
    PROVE  IInv'
<1>1. TypeOK /\ AllShown /\ AtWork /\ held \subseteq Present(cache)
  BY DEF IInv
<1>2. /\ cache' \in Lists
      /\ \A t \in Tools : cache'[t] = IF fetched[h][t] # None THEN fetched[h][t] ELSE cache[t]
  BY <1>1 DEF Ingest, TypeOK, Lists
<1>3. TypeOK'
  BY <1>1, <1>2 DEF Ingest, history, Goto, TypeOK, Tool
<1>4. AllShown'
  BY <1>1, <1>2 DEF Ingest, history, AllShown, Shown
<1>5. AtWork'
  BY <1>1, <1>2 DEF Ingest, history, Goto, AtWork, Tool, TypeOK
<1>6. held' \subseteq Present(cache)'
  BY <1>1, <1>2 DEF Ingest, history, Present
<1> QED BY <1>3, <1>4, <1>5, <1>6 DEF IInv

(* The diff answers with fields of the schema, and counts as held what was  *)
(* there to judge by.                                                       *)
LEMMA DiffFacts ==
    ASSUME TypeOK, NEW h \in Handlers, Diff(h)
    PROVE  LET schema == cache[Tool(h)]
               v == IF schema = None THEN {} ELSE schema \ call[h].args IN
           /\ v \in Schemas /\ Answer(h, v)
           /\ Tool(h) \in Tools
BY DEF Diff, TypeOK, Lists, Schemas, Tool

(* So does judging.                                                         *)
LEMMA DiffKeeps ==
    ASSUME IInv, NEW h \in Handlers, Diff(h)
    PROVE  IInv'
<1>1. TypeOK /\ held \subseteq Present(cache)
  BY DEF IInv
<1>2. held' \subseteq Present(cache)
  BY <1>1 DEF Diff, Present
<1>3. PICK v \in {Failed} \union Schemas : Answer(h, v)
  BY <1>1, DiffFacts
<1> QED BY <1>2, <1>3, AnswerKeeps DEF Diff

(* And a connector that publishes something else: what was shown, was.      *)
LEMMA PublishKeeps ==
    ASSUME IInv, NEW t \in Tools, Publish(t)
    PROVE  IInv'
<1>1. TypeOK /\ AllShown /\ AtWork
  BY DEF IInv
<1>2. PICK s \in {None} \union Schemas : published' = [published EXCEPT ![t] = s]
  BY DEF Publish
<1>3. published' \in Lists /\ \A u \in Tools : published'[u] = IF u = t THEN s ELSE published[u]
  BY <1>1, <1>2 DEF TypeOK, Lists
<1>4. /\ past' \in [Tools -> SUBSET Schemas]
      /\ \A u \in Tools : past[u] \subseteq past'[u]
      /\ s # None => s \in past'[t]
  <2>1. Visible(published')[t] = {s} \ {None}
    BY <1>3 DEF Visible
  <2>2. past' = [past EXCEPT ![t] = @ \union ({s} \ {None})]
    BY <2>1 DEF Publish
  <2> QED BY <1>1, <2>2, ListFacts DEF TypeOK
<1>5. changes' \in 0..MaxChanges
  BY <1>1, SchemaAssumption DEF Publish, TypeOK
<1>6. UNCHANGED <<cache, pc, call, fetched, verdict, held, known>>
  BY DEF Publish, handlerVars
<1>7. TypeOK'
  BY <1>1, <1>3, <1>4, <1>5, <1>6 DEF TypeOK, Tool
<1>8. AllShown'
  BY <1>1, <1>3, <1>4, <1>6 DEF AllShown, Shown
<1>9. AtWork'
  BY <1>1, <1>6 DEF AtWork, Tool
<1> QED BY <1>6, <1>7, <1>8, <1>9 DEF IInv, Present

(* A process that starts holds nothing, and is shown what is published.     *)
LEMMA RestartKeeps ==
    ASSUME IInv, Restart
    PROVE  IInv'
<1>1. TypeOK /\ AllShown /\ AtWork
  BY DEF IInv
<1>2. past' \in [Tools -> SUBSET Schemas]
  BY <1>1, ListFacts DEF Restart, Visible, TypeOK
<1>3. /\ verdict' \in [Handlers -> {Unjudged, Failed} \union Schemas]
      /\ \A h \in Handlers : verdict'[h] # Unjudged
  BY <1>1, SchemaAssumption DEF Restart, TypeOK
<1>4. TypeOK'
  BY <1>1, <1>2, <1>3, ListFacts DEF Restart, TypeOK, Tool
<1>5. AllShown'
  BY <1>1, ListFacts DEF Restart, AllShown, Shown, Visible
<1>6. AtWork'
  BY <1>3 DEF Restart, AtWork
<1> QED BY <1>4, <1>5, <1>6 DEF IInv, Restart, Present

(* A handler whose caller has gone leaves no trace.                         *)
LEMMA DroppedKeeps ==
    ASSUME IInv, NEW h \in Handlers, Dropped(h)
    PROVE  IInv'
<1>1. Answer(h, Failed) /\ held' \subseteq Present(cache)
  BY DEF Dropped, IInv, history
<1> QED BY <1>1, AnswerKeeps DEF Dropped, history

(* To begin with nothing is cached, and nobody has judged anything.         *)
LEMMA InitKeeps == Init => IInv
<1> SUFFICES ASSUME Init PROVE IInv
  OBVIOUS
<1> DEFINE first == [tool |-> CHOOSE t \in Tools : TRUE, args |-> {}]
<1>1. first \in [tool : Tools, args : SUBSET Fields]
  BY SchemaAssumption
<1>2. past \in [Tools -> SUBSET Schemas]
  BY SchemaAssumption, ListFacts DEF Init, Visible
<1>3. TypeOK
  <2>1. call \in [Handlers -> [tool : Tools, args : SUBSET Fields]]
    <3>1. call = [h \in Handlers |-> first]
      BY DEF Init
    <3> HIDE DEF first
    <3> QED BY <1>1, <3>1
  <2> QED BY <1>2, <2>1, SchemaAssumption, ListFacts DEF Init, TypeOK
<1>4. AllShown
  BY ListFacts DEF Init, AllShown, Shown, Visible
<1>5. AtWork
  BY SchemaAssumption DEF Init, AtWork
<1> QED BY <1>3, <1>4, <1>5 DEF IInv, Init

(* Every step keeps the invariant.                                          *)
LEMMA Inductive == IInv /\ [Next]_vars => IInv'
<1> SUFFICES ASSUME IInv, [Next]_vars PROVE IInv'
  OBVIOUS
<1>1. CASE UNCHANGED vars
  <2>1. TypeOK'
    BY <1>1 DEF IInv, vars, handlerVars, history, TypeOK, Tool
  <2>2. AllShown' /\ AtWork'
    BY <1>1 DEF IInv, vars, handlerVars, history, AllShown, Shown, AtWork, Tool
  <2> QED BY <1>1, <2>1, <2>2 DEF IInv, vars, history, Present
<1>2. ASSUME NEW h \in Handlers, Step(h) PROVE IInv'
  BY <1>2, CheckKeeps, FetchKeeps, IngestKeeps, DiffKeeps DEF Step
<1> QED BY <1>1, <1>2, ArriveKeeps, DroppedKeeps, PublishKeeps, RestartKeeps DEF Next

(* The inductive invariant holds throughout.                                *)
LEMMA AlwaysShown == Spec => []IInv
BY InitKeeps, Inductive, PTL DEF Spec
-----------------------------------------------------------------------------
(* TypeOK: a handler's list holds tools of the connector it asks about and  *)
(* of no other.                                                             *)
THEOREM TypeCorrect == Spec => []TypeOK
<1>1. IInv => TypeOK
  BY DEF IInv
<1> QED BY <1>1, AlwaysShown, PTL

(* VerdictIsReal: what a handler saw of its tool, in the cache or in a      *)
(* list, it finds again when ensure_schema_cached reads the cache a second  *)
(* time, and what it finds was published while the process lived.           *)
THEOREM VerdictsAreReal == Spec => []VerdictIsReal
<1>1. ASSUME IInv, NEW h \in Handlers, pc[h] = "diff", known[h]
      PROVE  cache[Tool(h)] # None /\ cache[Tool(h)] \in past[Tool(h)]
  BY <1>1 DEF IInv, TypeOK, AtWork, AllShown, Shown, Tool
<1>2. IInv => VerdictIsReal
  BY <1>1 DEF VerdictIsReal
<1> QED BY <1>2, AlwaysShown, PTL

(* NothingForgotten: only a restart takes a schema out of the cache.        *)
THEOREM NothingIsForgotten == Spec => NothingForgotten
<1> DEFINE Kept == Present(cache) \subseteq Present(cache')
<1>1. ASSUME IInv, [Next]_vars
      PROVE  [~Restart => Kept]_vars
  <2>1. ASSUME cache' = cache PROVE Kept
    BY <2>1
  <2>2. ASSUME NEW h \in Handlers, Ingest(h) PROVE Kept
    BY <2>2 DEF Ingest, Present
  <2>3. ASSUME NEW h \in Handlers, Arrive(h) \/ Step(h) \/ Dropped(h) PROVE Kept
    <3>1. CASE Ingest(h)
      BY <2>2, <3>1
    <3>2. CASE ~Ingest(h)
      BY <2>1, <2>3, <3>2 DEF Arrive, Step, Check, Fetch, Diff, Dropped
    <3> QED BY <3>1, <3>2
  <2>4. ASSUME NEW t \in Tools, Publish(t) PROVE Kept
    BY <2>1, <2>4 DEF Publish
  <2> QED BY <1>1, <2>3, <2>4 DEF Next
<1> QED BY <1>1, AlwaysShown, PTL DEF Spec, NothingForgotten
-----------------------------------------------------------------------------
(* A diff judges by a schema of its tool, or by none if none is held.       *)
LEMMA DiffJudges ==
    ASSUME IInv, NEW h \in Handlers, Diff(h)
    PROVE  Verdict!Judge(h)
<1> DEFINE schema == cache[Tool(h)]
           v == IF schema = None THEN {} ELSE schema \ call[h].args
           found == {t \in Present(cache) : ConnectorOf[t] = ConnectorOf[Tool(h)]}
<1>1. /\ TypeOK /\ Shown(cache) /\ held \subseteq Present(cache)
      /\ verdict[h] = Unjudged /\ verdict' = [verdict EXCEPT ![h] = v]
      /\ held' = IF schema = None THEN held ELSE held \union found
      /\ UNCHANGED <<call, past>> /\ Tool(h) \in Tools
  BY DiffFacts DEF IInv, AllShown, AtWork, Diff, Answer
<1>2. found \subseteq Verdict!Siblings(call[h].tool)
  BY <1>1 DEF Shown, Present, Tool, Verdict!Siblings
<1>3. \E f \in SUBSET Verdict!Siblings(call[h].tool) : held' = held \union f
  <2>1. CASE schema = None
    <3>1. {} \in SUBSET Verdict!Siblings(call[h].tool) /\ held' = held \union {}
      BY <1>1, <2>1
    <3> QED BY <3>1
  <2>2. CASE schema # None
    <3>1. held' = held \union found
      BY <1>1, <2>2
    <3> HIDE DEF found
    <3> QED BY <1>2, <3>1
  <2> QED BY <2>1, <2>2
<1>4. v \in Verdict!Findings(h)
  <2>1. CASE schema = None
    <3>1. Tool(h) \notin held'
      BY <1>1, <2>1 DEF Present
    <3>2. v = {}
      BY <2>1
    <3> QED BY <3>1, <3>2 DEF Verdict!Findings, Tool
  <2>2. CASE schema # None
    <3>1. Tool(h) \in found /\ schema \in past[Tool(h)]
      BY <1>1, <2>2 DEF Present, Shown
    <3>2. Tool(h) \in held'
      BY <1>1, <2>2, <3>1
    <3>3. v = schema \ call[h].args
      BY <2>2
    <3> QED BY <3>1, <3>2, <3>3 DEF Verdict!Findings, Tool
  <2> QED BY <2>1, <2>2
<1> HIDE DEF v
<1> QED BY <1>1, <1>3, <1>4 DEF Verdict!Judge

(* A fetch that gets its list has changed nothing a caller could see, and   *)
(* one that gets none has failed.                                           *)
LEMMA FetchStutters ==
    ASSUME IInv, NEW h \in Handlers, Fetch(h)
    PROVE  Verdict!Fail(h) \/ UNCHANGED Verdict!vars
<1>1. /\ pc[h] = "list" /\ verdict[h] = Unjudged
      /\ UNCHANGED <<call, held, past>>
      /\ verdict' = verdict \/ verdict' = [verdict EXCEPT ![h] = Failed]
  BY DEF IInv, AtWork, Fetch, Answer
<1> QED BY <1>1 DEF Verdict!Fail, Verdict!vars

(* What a connector publishes is shown; a tool it withdraws shows nothing.  *)
LEMMA PublishShows ==
    ASSUME IInv, NEW t \in Tools, Publish(t)
    PROVE  Verdict!Publish(t) \/ UNCHANGED Verdict!vars
<1>1. PICK s \in {None} \union Schemas : published' = [published EXCEPT ![t] = s]
  BY DEF Publish
<1>2. Visible(published')[t] = {s} \ {None}
  BY <1>1 DEF IInv, TypeOK, Lists, Visible
<1>3. past' = [past EXCEPT ![t] = @ \union ({s} \ {None})]
  BY <1>2 DEF Publish
<1>4. past \in [Tools -> SUBSET Schemas] /\ UNCHANGED <<held, call, verdict>>
  BY DEF IInv, TypeOK, Publish, handlerVars
<1>5. CASE s = None
  <2>1. past' = past
    BY <1>3, <1>4, <1>5
  <2> QED BY <1>4, <2>1 DEF Verdict!vars
<1>6. CASE s # None
  <2>1. s \in SUBSET Fields /\ past' = [past EXCEPT ![t] = @ \union {s}]
    BY <1>3, <1>6 DEF Schemas
  <2> QED BY <1>4, <2>1 DEF Verdict!Publish
<1> QED BY <1>5, <1>6

(* A restart shows no more than was shown.                                  *)
LEMMA RestartShows ==
    ASSUME IInv, Restart
    PROVE  Verdict!Restart
<1>1. TypeOK /\ Shown(published)
  BY DEF IInv, AllShown
<1>2. past' \in [Tools -> SUBSET SUBSET Fields]
  BY <1>1, ListFacts DEF Restart, Visible, TypeOK, Schemas
<1>3. \A t \in Tools : past'[t] \subseteq past[t]
  BY <1>1 DEF Restart, Visible, Shown
<1> QED BY <1>2, <1>3 DEF Restart, Verdict!Restart

(* VerdictSpec: check, fetch, write and diff, with their awaits between,    *)
(* and lists that overtake each other, implement SchemaVerdict's one step.  *)
THEOREM ImplementsVerdict == Spec => VerdictSpec
<1>1. Init => Verdict!Init
  <2> SUFFICES ASSUME Init PROVE Verdict!Init
    OBVIOUS
  <2>1. call \in [Handlers -> [tool : Tools, args : SUBSET Fields]]
    BY InitKeeps DEF IInv, TypeOK
  <2> QED BY <2>1 DEF Init, Verdict!Init
<1>2. IInv /\ [Next]_vars => [Verdict!Next]_(Verdict!vars)
  <2> SUFFICES ASSUME IInv, [Next]_vars PROVE [Verdict!Next]_(Verdict!vars)
    OBVIOUS
  <2>1. CASE UNCHANGED vars
    BY <2>1 DEF vars, handlerVars, history, Verdict!vars
  <2>2. ASSUME NEW h \in Handlers, Arrive(h) PROVE Verdict!Ask(h)
    BY <2>2 DEF IInv, AtWork, Arrive, Verdict!Ask
  <2>3. ASSUME NEW h \in Handlers, Dropped(h) PROVE Verdict!Fail(h)
    BY <2>3 DEF IInv, AtWork, Dropped, Answer, history, Verdict!Fail
  <2>4. ASSUME NEW h \in Handlers, Check(h) \/ Ingest(h) PROVE UNCHANGED Verdict!vars
    BY <2>4 DEF Check, Ingest, history, Verdict!vars
  <2>5. ASSUME NEW h \in Handlers, Step(h)
        PROVE  Verdict!Judge(h) \/ Verdict!Fail(h) \/ UNCHANGED Verdict!vars
    BY <2>4, <2>5, DiffJudges, FetchStutters DEF Step
  <2> QED BY <2>1, <2>2, <2>3, <2>5, PublishShows, RestartShows DEF Next, Verdict!Next
<1> QED BY <1>1, <1>2, AlwaysShown, PTL DEF Spec, VerdictSpec, Verdict!Spec
=============================================================================
