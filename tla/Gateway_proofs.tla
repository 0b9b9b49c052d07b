--------------------------- MODULE Gateway_proofs ---------------------------
(***************************************************************************)
(* What the gateway's endpoint does for every registry, policy, set of     *)
(* callers and choice of faults: its variables keep their types, the       *)
(* policy governs whatever runs, names lead to the tools they were made    *)
(* for, and nothing runs off the record.                                   *)
(***************************************************************************)
EXTENDS Gateway, FiniteSetTheorems, WellFoundedInduction, TLAPS

(* What putting a name together does to its characters.                     *)
LEMMA NamespacedShape ==
    ASSUME NEW c \in Name, NEW t \in Name
    PROVE  LET n == Namespaced(c, t) IN
           /\ n \in Name
           /\ Len(n) = Len(c) + 2 + Len(t)
           /\ \A i \in 1..Len(c) : n[i] = c[i]
           /\ n[Len(c) + 1] = Underscore /\ n[Len(c) + 2] = Underscore
           /\ \A i \in 1..Len(t) : n[Len(c) + 2 + i] = t[i]
BY CharAssumption DEF Namespaced, Name, Separator

(* The first separator of a well-named connector's tool is the one that was *)
(* put there: none is inside the name, none starts on its last character.   *)
LEMMA OwnSeparatorIsFirst ==
    ASSUME NEW c \in Name, NEW t \in Name, WellNamed(c)
    PROVE  LET n == Namespaced(c, t) IN
           /\ Len(c) + 1 \in 1..(Len(n) - 1)
           /\ SeparatorAt(n, Len(c) + 1)
           /\ \A j \in 1..Len(c) : ~SeparatorAt(n, j)
<1> DEFINE n == Namespaced(c, t)
<1>1. /\ n \in Name
      /\ Len(n) = Len(c) + 2 + Len(t)
      /\ \A i \in 1..Len(c) : n[i] = c[i]
      /\ n[Len(c) + 1] = Underscore /\ n[Len(c) + 2] = Underscore
  BY NamespacedShape
<1>2. Len(c) \in Nat /\ Len(t) \in Nat
  BY DEF Name
<1> HIDE DEF n
<1>3. Len(c) + 1 \in 1..(Len(n) - 1)
  BY <1>1, <1>2
<1>4. SeparatorAt(n, Len(c) + 1)
  BY <1>1, <1>2, <1>3 DEF SeparatorAt
<1>5. ASSUME NEW j \in 1..Len(c)
      PROVE  ~SeparatorAt(n, j)
  <2>1. CASE j = Len(c)
    <3>1. n[j] = c[j] /\ c[j] # Underscore
      BY <1>1, <1>2, <2>1 DEF WellNamed
    <3> QED BY <3>1 DEF SeparatorAt
  <2>2. CASE j < Len(c)
    <3>1. j \in 1..(Len(c) - 1) /\ j + 1 \in 1..Len(c)
      BY <1>2, <2>2
    <3>2. n[j] = c[j] /\ n[j + 1] = c[j + 1]
      BY <1>1, <3>1
    <3>3. ~SeparatorAt(c, j)
      BY <3>1 DEF WellNamed
    <3> QED BY <3>1, <3>2, <3>3 DEF SeparatorAt
  <2> QED BY <1>2, <2>1, <2>2
<1> QED BY <1>3, <1>4, <1>5 DEF n

(* A name that holds a separator has a first one.                           *)
LEMMA FirstSeparatorType ==
    ASSUME NEW n \in Name, NEW s \in 1..(Len(n) - 1), SeparatorAt(n, s)
    PROVE  /\ FirstSeparator(n) \in 1..(Len(n) - 1)
           /\ SeparatorAt(n, FirstSeparator(n))
<1> DEFINE S == 1..(Len(n) - 1)
           T == {1..i : i \in {j \in S : SeparatorAt(n, j)}}
           R == StrictSubsetOrdering(S)
<1>1. Len(n) \in Nat
  BY DEF Name
<1>2. IsFiniteSet(S)
  BY <1>1, FS_Interval
<1>3. IsWellFoundedOn(R, SUBSET S)
  BY <1>2, FS_StrictSubsetOrderingWellFounded, FS_FiniteSubsetsOfFinite, Zenon
<1>4. T \subseteq SUBSET S /\ T # {}
  BY <1>1
<1>5. PICK x \in T : \A y \in T : ~(<<y, x>> \in R)
  <2> HIDE DEF R, S, T
  <2> QED BY <1>3, <1>4, WFMin, Zenon
<1>6. PICK i \in S : SeparatorAt(n, i) /\ x = 1..i
  BY <1>5
<1>7. \A j \in 1..(i - 1) : ~SeparatorAt(n, j)
  <2> SUFFICES ASSUME NEW j \in 1..(i - 1), SeparatorAt(n, j)
               PROVE  FALSE
    OBVIOUS
  <2>1. j \in S /\ 1..j \in T
    BY <1>1, <1>6
  <2>2. 1..j \subseteq 1..i /\ 1..j # 1..i /\ 1..i \in SUBSET S /\ 1..j \in SUBSET S
    <3>1. i \in 1..i /\ i \notin 1..j
      BY <1>1
    <3> QED BY <1>1, <3>1
  <2>3. <<1..j, 1..i>> \in R
    BY <2>2 DEF StrictSubsetOrdering
  <2> QED BY <1>5, <1>6, <2>1, <2>3
<1> QED BY <1>6, <1>7 DEF FirstSeparator

(* route_tool takes a name apart into names, with nothing lost but the      *)
(* separator.                                                               *)
THEOREM RouteType ==
    ASSUME NEW n \in Name, Route(n).routed
    PROVE  /\ Route(n).connector \in Name /\ Route(n).tool_name \in Name
           /\ n = Namespaced(Route(n).connector, Route(n).tool_name)
<1>1. PICK s \in 1..(Len(n) - 1) : SeparatorAt(n, s)
  BY DEF Route, NoRoute
<1> DEFINE k == FirstSeparator(n)
           c == SubSeq(n, 1, k - 1)
           t == SubSeq(n, k + 2, Len(n))
<1>2. k \in 1..(Len(n) - 1) /\ SeparatorAt(n, k)
  BY <1>1, FirstSeparatorType
<1>3. Route(n) = Pair(c, t)
  BY <1>1 DEF Route, Cut
<1>4. Len(n) \in Nat /\ n \in Seq(Char)
  BY DEF Name
<1> HIDE DEF k
<1>5. c \in Name /\ Len(c) = k - 1 /\ \A i \in 1..(k - 1) : c[i] = n[i]
  BY <1>2, <1>4 DEF Name
<1>6. t \in Name /\ Len(t) = Len(n) - k - 1 /\ \A i \in 1..Len(t) : t[i] = n[k + 1 + i]
  BY <1>2, <1>4 DEF Name
<1>7. n[k] = Underscore /\ n[k + 1] = Underscore
  BY <1>2 DEF SeparatorAt
<1>8. n = Namespaced(c, t)
  <2> DEFINE m == Namespaced(c, t)
  <2>1. /\ m \in Name
        /\ Len(m) = Len(n)
        /\ \A i \in 1..(k - 1) : m[i] = n[i]
        /\ m[k] = n[k] /\ m[k + 1] = n[k + 1]
        /\ \A i \in 1..Len(t) : m[k + 1 + i] = n[k + 1 + i]
    <3>1. /\ m \in Name
          /\ Len(m) = Len(c) + 2 + Len(t)
          /\ \A i \in 1..Len(c) : m[i] = c[i]
          /\ m[Len(c) + 1] = Underscore /\ m[Len(c) + 2] = Underscore
          /\ \A i \in 1..Len(t) : m[Len(c) + 2 + i] = t[i]
      <4> HIDE DEF c, t
      <4> QED BY <1>5, <1>6, NamespacedShape
    <3> HIDE DEF c, t, m
    <3>2. Len(c) + 1 = k /\ Len(c) + 2 = k + 1 /\ Len(c) + 2 + Len(t) = Len(n)
      BY <1>2, <1>4, <1>5, <1>6
    <3> QED BY <1>5, <1>6, <1>7, <3>1, <3>2
  <2> HIDE DEF m
  <2>2. \A i \in 1..Len(n) : m[i] = n[i]
    <3> TAKE i \in 1..Len(n)
    <3>1. CASE i <= k + 1
      BY <1>2, <1>4, <2>1, <3>1
    <3>2. CASE i > k + 1
      <4>1. i - k - 1 \in 1..Len(t) /\ k + 1 + (i - k - 1) = i
        BY <1>2, <1>4, <1>6, <3>2
      <4> QED BY <2>1, <4>1
    <3> QED BY <1>2, <1>4, <3>1, <3>2
  <2> QED BY <1>4, <2>1, <2>2 DEF Name, m
<1> HIDE DEF c, t
<1> QED BY <1>3, <1>5, <1>6, <1>8 DEF Pair

(* "A single flat tool list an agent can route back to the right connector  *)
(* at call time" (protocol.rs): route_tool undoes the namespacing.          *)
THEOREM RouteInverts ==
    ASSUME NEW c \in Name, NEW t \in Name, WellNamed(c)
    PROVE  Route(Namespaced(c, t)) = Pair(c, t)
<1> DEFINE n == Namespaced(c, t)
           k == Len(c) + 1
<1>1. /\ n \in Name
      /\ Len(n) = Len(c) + 2 + Len(t)
      /\ \A i \in 1..Len(c) : n[i] = c[i]
      /\ \A i \in 1..Len(t) : n[Len(c) + 2 + i] = t[i]
  BY NamespacedShape
<1>2. k \in 1..(Len(n) - 1) /\ SeparatorAt(n, k) /\ \A j \in 1..Len(c) : ~SeparatorAt(n, j)
  BY OwnSeparatorIsFirst
<1>3. Len(c) \in Nat /\ Len(t) \in Nat
  BY DEF Name
<1> HIDE DEF n
<1>4. FirstSeparator(n) = k
  <2>1. \A i \in 1..(Len(n) - 1) :
            SeparatorAt(n, i) /\ (\A j \in 1..(i - 1) : ~SeparatorAt(n, j)) => i = k
    <3> SUFFICES ASSUME NEW i \in 1..(Len(n) - 1), SeparatorAt(n, i),
                        \A j \in 1..(i - 1) : ~SeparatorAt(n, j)
                 PROVE  i = k
      OBVIOUS
    <3>1. i \notin 1..Len(c)
      BY <1>2
    <3>2. k \notin 1..(i - 1)
      BY <1>2
    <3> QED BY <1>2, <1>3, <3>1, <3>2
  <2>2. \A j \in 1..(k - 1) : ~SeparatorAt(n, j)
    BY <1>2, <1>3
  <2> HIDE DEF k
  <2> QED BY <1>2, <2>1, <2>2 DEF FirstSeparator
<1>5. SubSeq(n, 1, k - 1) = c
  BY <1>1, <1>3 DEF Name
<1>6. SubSeq(n, k + 2, Len(n)) = t
  BY <1>1, <1>3 DEF Name
<1>7. Route(n) = Cut(n, k)
  BY <1>2, <1>4 DEF Route
<1> QED BY <1>5, <1>6, <1>7 DEF Cut, n

(* Two tools never share a name, whichever connectors they belong to.       *)
THEOREM NamesAreUnique ==
    ASSUME NEW c \in Name, NEW d \in Name, NEW t \in Name, NEW u \in Name,
           WellNamed(c), WellNamed(d), Namespaced(c, t) = Namespaced(d, u)
    PROVE  c = d /\ t = u
<1>1. Pair(c, t) = Pair(d, u)
  BY RouteInverts
<1> QED BY <1>1 DEF Pair

(* ensure_schema_cached's strip_prefix: under a well-named connector's      *)
(* prefix the agent finds that connector's tools and nobody else's, each    *)
(* under the name the connector gave it.                                    *)
THEOREM PrefixIsOwn ==
    ASSUME NEW c \in Name, NEW d \in Name, NEW t \in Name,
           WellNamed(c), WellNamed(d)
    PROVE  /\ IsUnder(Namespaced(d, t), c) <=> c = d
           /\ Bare(Namespaced(c, t), c) = t
<1> DEFINE n == Namespaced(d, t)
<1>1. /\ n \in Name
      /\ Len(n) = Len(d) + 2 + Len(t)
      /\ \A i \in 1..Len(d) : n[i] = d[i]
      /\ n[Len(d) + 1] = Underscore /\ n[Len(d) + 2] = Underscore
  BY NamespacedShape
<1>2. SeparatorAt(n, Len(d) + 1) /\ \A j \in 1..Len(d) : ~SeparatorAt(n, j)
  BY OwnSeparatorIsFirst
<1>3. Len(c) \in Nat /\ Len(d) \in Nat /\ Len(t) \in Nat
  BY DEF Name
<1> DEFINE p == c \o Separator
<1>4. /\ Len(p) = Len(c) + 2
      /\ \A i \in 1..Len(c) : p[i] = c[i]
      /\ p[Len(c) + 1] = Underscore /\ p[Len(c) + 2] = Underscore
  BY CharAssumption DEF Name, Separator
<1> HIDE DEF n, p
<1>5. ASSUME IsUnder(n, c) PROVE c = d
  <2>1. Len(p) <= Len(n) /\ \A i \in 1..Len(p) : n[i] = p[i]
    BY <1>5 DEF IsUnder, HasPrefix, p
  <2>2. SeparatorAt(n, Len(c) + 1)
    BY <1>1, <1>3, <1>4, <2>1 DEF SeparatorAt
  <2>3. Len(c) >= Len(d)
    BY <1>2, <1>3, <2>2
  <2>4. Len(d) >= Len(c)
    <3> SUFFICES ASSUME Len(d) < Len(c) PROVE FALSE
      BY <1>3
    <3>1. CASE Len(d) + 1 = Len(c)
      <4>1. c[Len(c)] = Underscore
        BY <1>1, <1>3, <1>4, <2>1, <3>1
      <4> QED BY <1>3, <3>1, <4>1 DEF WellNamed
    <3>2. CASE Len(d) + 2 <= Len(c)
      <4>1. c[Len(d) + 1] = Underscore /\ c[Len(d) + 2] = Underscore
        BY <1>1, <1>3, <1>4, <2>1, <3>2
      <4>2. SeparatorAt(c, Len(d) + 1)
        BY <1>3, <3>2, <4>1 DEF SeparatorAt
      <4> QED BY <1>3, <3>2, <4>2 DEF WellNamed
    <3> QED BY <1>3, <3>1, <3>2
  <2>5. Len(c) = Len(d) /\ \A i \in 1..Len(c) : c[i] = d[i]
    BY <1>1, <1>3, <1>4, <2>1, <2>3, <2>4
  <2> QED BY <2>5 DEF Name
<1>6. ASSUME c = d PROVE IsUnder(n, c)
  BY <1>1, <1>3, <1>4, <1>6 DEF IsUnder, HasPrefix, p
<1>7. Bare(Namespaced(c, t), c) = t
  <2> DEFINE m == Namespaced(c, t)
  <2>1. /\ m \in Name
        /\ Len(m) = Len(c) + 2 + Len(t)
        /\ \A i \in 1..Len(t) : m[Len(c) + 2 + i] = t[i]
    BY NamespacedShape
  <2> HIDE DEF m
  <2> DEFINE k == Len(c) + 1
  <2>2. SubSeq(m, k + 2, Len(m)) = t
    <3> DEFINE s == SubSeq(m, k + 2, Len(m))
    <3>1. s \in Seq(Char) /\ Len(s) = Len(t)
      BY <1>3, <2>1 DEF Name
    <3>2. \A i \in 1..Len(t) : s[i] = t[i]
      BY <1>3, <2>1 DEF Name
    <3> HIDE DEF s
    <3>3. s = t
      BY <3>1, <3>2 DEF Name
    <3> QED BY <3>3 DEF s
  <2>3. k + 2 = Len(c) + 3
    BY <1>3
  <2> HIDE DEF k
  <2> QED BY <2>2, <2>3 DEF Bare, m
<1> QED BY <1>5, <1>6, <1>7 DEF n
-----------------------------------------------------------------------------
(* Every tool there is has a connector somebody knows, and is not Nowhere.  *)
LEMMA HomesFacts ==
    ASSUME NEW home \in Homes
    PROVE  /\ home.tool \in Targets /\ Known(home.tool.connector)
           /\ home # Nowhere
BY TopologyAssumption DEF Homes, Nowhere, Known

(* Where a call ends up, if it ends up anywhere, is the tool it was sent    *)
(* to.                                                                      *)
LEMMA HomeFacts ==
    ASSUME NEW t \in Targets
    PROVE  /\ Home(t) \in Homes \union {Nowhere}
           /\ Home(t) # Nowhere => Home(t) \in Homes /\ Home(t).tool = t
BY DEF Home, Homes, Nowhere

(* What Accept does with a call: it is let in with the target its name      *)
(* spells, or it is counted as missed.                                      *)
LEMMA AcceptFacts ==
    ASSUME TypeOK, NEW h \in Handlers, NEW call \in Calls, Accept(h, call)
    PROVE  LET t == [connector |-> Route(call.name).connector,
                     tool_name |-> Route(call.name).tool_name] IN
           \/ /\ Route(call.name).routed /\ Known(t.connector) /\ t \in Targets
              /\ req' = [req EXCEPT ![h] = call]
              /\ target' = [target EXCEPT ![h] = t]
              /\ pc' = [pc EXCEPT ![h] = "receive"]
              /\ UNCHANGED missed
           \/ /\ ~(Route(call.name).routed /\ Known(Route(call.name).connector))
              /\ missed' = missed \union {call.meant}
              /\ UNCHANGED <<pc, req, target>>
<1> DEFINE to == Route(call.name)
<1>1. CASE to.routed /\ Known(to.connector)
  <2>1. to.connector \in Name /\ to.tool_name \in Name
    BY <1>1, RouteType DEF Calls
  <2> QED BY <1>1, <2>1 DEF Accept, Goto, Targets
<1>2. CASE ~(to.routed /\ Known(to.connector))
  BY <1>2 DEF Accept
<1> QED BY <1>1, <1>2

(* Whoever calls, the call that ToolsCall lets in is a call.                *)
LEMMA ToolsCallFacts ==
    ASSUME TypeOK, NEW h \in Handlers, ToolsCall(h)
    PROVE  /\ pc[h] = "idle"
           /\ UNCHANGED <<listed, rows, runs, ran, mishaps>>
           /\ \E call \in Calls :
                /\ Accept(h, call)
                /\ \/ call.meant \in Homes /\ call.name = NamespacedTool(call.meant.tool)
                   \/ \E e \in listed : call.meant = e.meant /\ call.name = e.name
                   \/ call.meant = Nowhere
<1>1. PICK c \in CallIds, preflight \in BOOLEAN :
        \/ \E home \in Homes :
             Accept(h, [name |-> NamespacedTool(home.tool), meant |-> home,
                        call_id |-> c, preflight |-> TRUE])
        \/ \E e \in listed :
             Accept(h, [name |-> e.name, meant |-> e.meant,
                        call_id |-> c, preflight |-> preflight])
        \/ \E n \in RawNames :
             Accept(h, [name |-> n, meant |-> Nowhere,
                        call_id |-> c, preflight |-> preflight])
  BY DEF ToolsCall
<1>2. CASE \E home \in Homes :
             Accept(h, [name |-> NamespacedTool(home.tool), meant |-> home,
                        call_id |-> c, preflight |-> TRUE])
  <2>1. PICK home \in Homes :
             Accept(h, [name |-> NamespacedTool(home.tool), meant |-> home,
                        call_id |-> c, preflight |-> TRUE])
    BY <1>2
  <2> DEFINE call == [name |-> NamespacedTool(home.tool), meant |-> home,
                      call_id |-> c, preflight |-> TRUE]
  <2>2. NamespacedTool(home.tool) \in Name
    BY HomesFacts, NamespacedShape DEF NamespacedTool, Targets
  <2>3. call \in Calls
    BY <2>2 DEF Calls
  <2>4. Accept(h, call) /\ call.meant \in Homes /\ call.name = NamespacedTool(call.meant.tool)
    BY <2>1
  <2> HIDE DEF call
  <2> QED BY <2>3, <2>4 DEF ToolsCall
<1>3. CASE \E e \in listed :
             Accept(h, [name |-> e.name, meant |-> e.meant,
                        call_id |-> c, preflight |-> preflight])
  <2>1. PICK e \in listed :
             Accept(h, [name |-> e.name, meant |-> e.meant,
                        call_id |-> c, preflight |-> preflight])
    BY <1>3
  <2> DEFINE call == [name |-> e.name, meant |-> e.meant,
                      call_id |-> c, preflight |-> preflight]
  <2>2. call \in Calls
    BY DEF Calls, TypeOK
  <2>3. Accept(h, call) /\ call.meant = e.meant /\ call.name = e.name
    BY <2>1
  <2> HIDE DEF call
  <2> QED BY <2>2, <2>3 DEF ToolsCall
<1>4. CASE \E n \in RawNames :
             Accept(h, [name |-> n, meant |-> Nowhere,
                        call_id |-> c, preflight |-> preflight])
  <2>1. PICK n \in RawNames :
             Accept(h, [name |-> n, meant |-> Nowhere,
                        call_id |-> c, preflight |-> preflight])
    BY <1>4
  <2> DEFINE call == [name |-> n, meant |-> Nowhere,
                      call_id |-> c, preflight |-> preflight]
  <2>2. call \in Calls
    BY TopologyAssumption DEF Calls
  <2>3. Accept(h, call) /\ call.meant = Nowhere
    BY <2>1
  <2> HIDE DEF call
  <2> QED BY <2>2, <2>3 DEF ToolsCall
<1> QED BY <1>1, <1>2, <1>3, <1>4
-----------------------------------------------------------------------------
(* Whether its row is written or not, a record adds one to what is due      *)
(* under its own call id and action, and nothing anywhere else.             *)
LEMMA RecordFacts ==
    ASSUME TypeOK, NEW h \in Handlers, pc[h] # "idle", NEW action \in Actions,
           Record(h, action)
    PROVE  /\ req[h].call_id \in CallIds
           /\ rows' \in [CallIds -> [Actions -> Nat]]
           /\ unwritten' \in [CallIds -> [Actions -> Nat]]
           /\ \A c \in CallIds, a \in Actions :
                Due(c, a)' = IF c = req[h].call_id /\ a = action
                               THEN Due(c, a) + 1 ELSE Due(c, a)
<1>1. req[h].call_id \in CallIds
  BY DEF TypeOK, Calls
<1>2. /\ rows \in [CallIds -> [Actions -> Nat]]
      /\ unwritten \in [CallIds -> [Actions -> Nat]]
      /\ \A c \in CallIds, a \in Actions : rows[c][a] \in Nat /\ unwritten[c][a] \in Nat
  BY DEF TypeOK
<1>3. CASE /\ rows' = [rows EXCEPT ![req[h].call_id][action] = @ + 1]
           /\ UNCHANGED unwritten
  <2>1. /\ rows' \in [CallIds -> [Actions -> Nat]]
        /\ \A c \in CallIds, a \in Actions :
             rows'[c][a] = IF c = req[h].call_id /\ a = action
                             THEN rows[c][a] + 1 ELSE rows[c][a]
    BY <1>1, <1>2, <1>3
  <2> QED BY <1>1, <1>2, <1>3, <2>1 DEF Due
<1>4. CASE /\ unwritten' = [unwritten EXCEPT ![req[h].call_id][action] = @ + 1]
           /\ UNCHANGED rows
  <2>1. /\ unwritten' \in [CallIds -> [Actions -> Nat]]
        /\ \A c \in CallIds, a \in Actions :
             unwritten'[c][a] = IF c = req[h].call_id /\ a = action
                                  THEN unwritten[c][a] + 1 ELSE unwritten[c][a]
    BY <1>1, <1>2, <1>4
  <2>2. ASSUME NEW c \in CallIds, NEW a \in Actions
        PROVE  Due(c, a)' = IF c = req[h].call_id /\ a = action
                              THEN Due(c, a) + 1 ELSE Due(c, a)
    <3>1. rows'[c][a] = rows[c][a] /\ rows[c][a] \in Nat /\ unwritten[c][a] \in Nat
      BY <1>2, <1>4
    <3>2. Due(c, a)' = rows[c][a] + unwritten'[c][a]
      BY <3>1 DEF Due
    <3> QED BY <2>1, <3>1, <3>2 DEF Due
  <2> QED BY <1>1, <1>2, <1>4, <2>1, <2>2
<1> QED BY <1>3, <1>4 DEF Record

LEMMA TypeInit == Init => TypeOK
BY DEF Init, TypeOK, PCs, UnderWay, Actions, Verdicts

LEMMA TypeStep == TypeOK /\ [Next]_vars => TypeOK'
<1> SUFFICES ASSUME TypeOK, [Next]_vars
             PROVE  TypeOK'
  OBVIOUS
<1> USE DEF TypeOK
<1>1. CASE ListTools
  <2>1. PICK out : listed' = {Entry(h) : h \in {x \in Homes : <<x.tool.connector, x.home>> \notin out}}
    BY <1>1 DEF ListTools
  <2>2. \A x \in Homes : Entry(x).name \in Name /\ Entry(x).meant \in Homes
    BY HomesFacts, NamespacedShape DEF Entry, NamespacedTool, Targets
  <2>3. \A e \in listed' : e.name \in Name /\ e.meant \in Homes
    BY <2>1, <2>2
  <2> QED BY <1>1, <2>3 DEF ListTools, history, traces, mishaps
<1>2. ASSUME NEW h \in Handlers, ToolsCall(h) PROVE TypeOK'
  <2>1. PICK call \in Calls : Accept(h, call)
    BY <1>2, ToolsCallFacts
  <2>2. UNCHANGED <<listed, rows, runs, ran, unwritten, dropped>>
    BY <1>2, ToolsCallFacts DEF mishaps
  <2> DEFINE t == [connector |-> Route(call.name).connector,
                   tool_name |-> Route(call.name).tool_name]
  <2>3. CASE /\ Known(t.connector) /\ t \in Targets
             /\ req' = [req EXCEPT ![h] = call]
             /\ target' = [target EXCEPT ![h] = t]
             /\ pc' = [pc EXCEPT ![h] = "receive"]
             /\ UNCHANGED missed
    <3> HIDE DEF t
    <3>1. t.connector \in Registry \union {Slot}
      BY <2>3 DEF Known
    <3> QED BY <2>2, <2>3, <3>1 DEF PCs, UnderWay
  <2>4. CASE missed' = missed \union {call.meant} /\ UNCHANGED <<pc, req, target>>
    <3>1. call.meant \in Homes \union {Nowhere}
      BY DEF Calls
    <3> QED BY <2>2, <2>4, <3>1
  <2> QED BY <2>1, <2>3, <2>4, AcceptFacts
<1>3. ASSUME NEW h \in Handlers, Step(h) PROVE TypeOK'
  <2>1. ASSUME NEW action \in Actions, pc[h] # "idle", Record(h, action)
        PROVE  /\ rows' \in [CallIds -> [Actions -> Nat]]
               /\ unwritten' \in [CallIds -> [Actions -> Nat]]
    BY <2>1, RecordFacts
  <2>2. CASE Receive(h)
    BY <2>1, <2>2 DEF Receive, Goto, PCs, UnderWay, history, traces, mishaps, Actions
  <2>3. CASE Decide(h)
    BY <2>3 DEF Decide, Goto, PCs, UnderWay, Verdicts, history, traces, mishaps
  <2>4. CASE Dispatch(h)
    <3>1. Home(target[h]) \in Homes \union {Nowhere} /\ req[h] \in Calls
      BY <2>4, HomeFacts DEF Dispatch
    <3>2. req[h].meant \in Homes \union {Nowhere} /\ req[h].call_id \in CallIds
      BY <3>1 DEF Calls
    <3>3. pc' \in [Handlers -> PCs] /\ \A i \in Handlers : pc'[i] # "idle" => pc[i] # "idle"
      BY <2>4 DEF Dispatch, Goto, PCs, UnderWay, Verdicts
    <3>4. /\ runs' \in [CallIds -> Nat]
          /\ \A r \in ran' : r.meant \in Homes \union {Nowhere} /\ r.actual \in Homes
          /\ missed' \subseteq Homes \union {Nowhere}
      BY <2>4, <3>1, <3>2 DEF Dispatch, Runs, history, traces, mishaps
    <3>5. UNCHANGED <<unwritten, dropped>>
      BY <2>4, <3>2 DEF Dispatch, Runs, history, mishaps
    <3> QED BY <2>4, <3>3, <3>4, <3>5 DEF Dispatch
  <2>5. CASE LogVerdict(h)
    BY <2>1, <2>5 DEF LogVerdict, Return, Goto, PCs, UnderWay, Verdicts, history, traces, mishaps, Actions
  <2> QED BY <1>3, <2>2, <2>3, <2>4, <2>5 DEF Step
<1>4. ASSUME NEW h \in Handlers, Dropped(h) PROVE TypeOK'
  <2>1. req[h].call_id \in CallIds
    BY <1>4 DEF Dropped, Calls
  <2>2. dropped' \in [CallIds -> Nat]
    BY <1>4, <2>1 DEF Dropped
  <2> QED BY <1>4, <2>2 DEF Dropped, Return, Goto, PCs, traces
<1>5. CASE Restart
  <2>1. \A c \in CallIds : Cardinality(At(UnderWay, c)) \in Nat
    BY FS_Subset, FS_CardinalityType, HandlersAssumption DEF At
  <2>2. dropped' \in [CallIds -> Nat]
    BY <1>5, <2>1 DEF Restart
  <2> QED BY <1>5, <2>2 DEF Restart, PCs, traces
<1>6. CASE UNCHANGED vars
  BY <1>6 DEF vars, history, traces, mishaps
<1> QED BY <1>1, <1>2, <1>3, <1>4, <1>5, <1>6 DEF Next

(* The variables of the endpoint keep their types, whatever fails.          *)
THEOREM TypeCorrect == Spec => []TypeOK
BY TypeInit, TypeStep, PTL DEF Spec
-----------------------------------------------------------------------------
\* A call that got past Decide is one the policy lets through.
PolicyInv ==
    /\ PolicyGovernsRuns
    /\ \A h \in Handlers : pc[h] = "dispatch" =>
            /\ Stance(target[h]) # "block"
            /\ Stance(target[h]) = "ask" => req[h].preflight

LEMMA PolicyStep == TypeOK /\ PolicyInv /\ [Next]_vars => PolicyInv'
<1> SUFFICES ASSUME TypeOK, PolicyInv, [Next]_vars
             PROVE  PolicyInv'
  OBVIOUS
<1> USE DEF PolicyInv, PolicyGovernsRuns, Stance
<1>1. CASE ListTools
  BY <1>1 DEF ListTools, history, traces, mishaps
<1>2. ASSUME NEW h \in Handlers, ToolsCall(h) PROVE PolicyInv'
  <2>1. PICK call \in Calls : Accept(h, call)
    BY <1>2, ToolsCallFacts
  <2>2. UNCHANGED ran
    BY <1>2, ToolsCallFacts
  <2>3. CASE UNCHANGED <<pc, req, target>>
    BY <2>2, <2>3
  <2>4. CASE pc' = [pc EXCEPT ![h] = "receive"] /\ \E t : target' = [target EXCEPT ![h] = t]
    <3>1. req' = [req EXCEPT ![h] = call]
      BY <2>1, <2>4, <1>2, ToolsCallFacts DEF TypeOK, Accept, Goto
    <3> QED BY <2>2, <2>4, <3>1 DEF TypeOK
  <2> QED BY <2>1, <2>3, <2>4, AcceptFacts
<1>3. ASSUME NEW h \in Handlers, Step(h) PROVE PolicyInv'
  <2>1. CASE Receive(h)
    BY <2>1 DEF Receive, Goto, TypeOK, history, traces, mishaps
  <2>2. CASE Decide(h)
    BY <2>2 DEF Decide, Goto, TypeOK, history, traces, mishaps
  <2>3. CASE Dispatch(h)
    <3>1. target[h] \in Targets
      BY <2>3 DEF Dispatch, TypeOK
    <3>2. \A i \in Handlers : pc'[i] = "dispatch" => pc[i] = "dispatch"
      BY <2>3 DEF Dispatch, Goto, TypeOK
    <3>3. ran' # ran => /\ Home(target[h]) # Nowhere
                        /\ ran' = ran \union {[meant |-> req[h].meant, actual |-> Home(target[h]),
                                               preflight |-> req[h].preflight]}
      BY <2>3 DEF Dispatch, Runs, history, traces, mishaps
    <3>4. Home(target[h]) # Nowhere => Home(target[h]).tool = target[h]
      BY <3>1, HomeFacts
    <3>5. pc[h] = "dispatch" /\ UNCHANGED <<req, target>>
      BY <2>3 DEF Dispatch
    <3> QED BY <3>2, <3>3, <3>4, <3>5
  <2>4. CASE LogVerdict(h)
    BY <2>4 DEF LogVerdict, Return, Goto, TypeOK, history, traces, mishaps
  <2> QED BY <1>3, <2>1, <2>2, <2>3, <2>4 DEF Step
<1>4. ASSUME NEW h \in Handlers, Dropped(h) PROVE PolicyInv'
  BY <1>4 DEF Dropped, Return, Goto, TypeOK, history, traces, mishaps
<1>5. CASE Restart
  BY <1>5 DEF Restart, history, traces, mishaps
<1>6. CASE UNCHANGED vars
  BY <1>6 DEF vars, history, traces, mishaps
<1> QED BY <1>1, <1>2, <1>3, <1>4, <1>5, <1>6 DEF Next

(* handle_tools_call enforces the policy on whatever runs, whoever calls    *)
(* and however the name was put together: what is judged is what runs.      *)
THEOREM PolicyGoverns == Spec => []PolicyGovernsRuns
<1>1. Init => PolicyInv
  BY DEF Init, PolicyInv, PolicyGovernsRuns
<1> QED BY <1>1, TypeInit, TypeStep, PolicyStep, PTL DEF Spec, PolicyInv
-----------------------------------------------------------------------------
\* No name is ambiguous: every connector is well named, and Composio has a name
\* of its own.
Unambiguous ==
    /\ \A c \in Registry \union {Slot} : WellNamed(c)
    /\ Slot \notin Registry

\* Listed names are made for the tools they stand for, and a call by somebody
\* who means a tool is on its way to it.
NamesInv ==
    /\ RunsWhatWasMeant
    /\ \A e \in listed : e.name = NamespacedTool(e.meant.tool)
    /\ \A h \in Handlers : pc[h] # "idle" =>
            \/ req[h].meant = Nowhere
            \/ req[h].meant \in Homes /\ target[h] = req[h].meant.tool

(* A tool's name is routed to it.                                           *)
LEMMA NameLeadsHome ==
    ASSUME Unambiguous, NEW home \in Homes
    PROVE  LET to == Route(NamespacedTool(home.tool)) IN
           /\ to.routed /\ Known(to.connector)
           /\ [connector |-> to.connector, tool_name |-> to.tool_name] = home.tool
           /\ Home(home.tool) = home
<1> DEFINE c == home.tool.connector
           t == home.tool.tool_name
<1>1. /\ home.tool \in Targets /\ Known(c) /\ c \in Registry \union {Slot}
      /\ home.tool = [connector |-> c, tool_name |-> t]
  BY HomesFacts DEF Targets, Known
<1>2. Route(NamespacedTool(home.tool)) = Pair(c, t)
  BY <1>1, RouteInverts DEF Unambiguous, NamespacedTool, Targets
<1>3. Home(home.tool) = home
  BY TopologyAssumption DEF Home, Homes, Unambiguous
<1> QED BY <1>1, <1>2, <1>3 DEF Pair

LEMMA NamesStep ==
    ASSUME Unambiguous
    PROVE  TypeOK /\ NamesInv /\ [Next]_vars => NamesInv'
<1> SUFFICES ASSUME TypeOK, NamesInv, [Next]_vars
             PROVE  NamesInv'
  OBVIOUS
<1> USE DEF NamesInv, RunsWhatWasMeant
<1>1. CASE ListTools
  <2>1. PICK out : listed' = {Entry(h) : h \in {x \in Homes : <<x.tool.connector, x.home>> \notin out}}
    BY <1>1 DEF ListTools
  <2>2. \A x \in Homes : Entry(x).name = NamespacedTool(Entry(x).meant.tool)
    BY DEF Entry
  <2>3. \A e \in listed' : e.name = NamespacedTool(e.meant.tool)
    BY <2>1, <2>2
  <2> QED BY <1>1, <2>3 DEF ListTools, history, traces, mishaps
<1>2. ASSUME NEW h \in Handlers, ToolsCall(h) PROVE NamesInv'
  <2>1. PICK call \in Calls :
          /\ Accept(h, call)
          /\ \/ call.meant \in Homes /\ call.name = NamespacedTool(call.meant.tool)
             \/ \E e \in listed : call.meant = e.meant /\ call.name = e.name
             \/ call.meant = Nowhere
    BY <1>2, ToolsCallFacts
  <2>2. UNCHANGED <<listed, ran>>
    BY <1>2, ToolsCallFacts
  <2>3. call.meant = Nowhere \/ (call.meant \in Homes /\ call.name = NamespacedTool(call.meant.tool))
    BY <2>1 DEF TypeOK
  <2> DEFINE t == [connector |-> Route(call.name).connector,
                   tool_name |-> Route(call.name).tool_name]
  <2>4. CASE /\ req' = [req EXCEPT ![h] = call]
             /\ target' = [target EXCEPT ![h] = t]
             /\ pc' = [pc EXCEPT ![h] = "receive"]
             /\ UNCHANGED missed
    <3>1. call.meant = Nowhere \/ (call.meant \in Homes /\ t = call.meant.tool)
      BY <2>3, NameLeadsHome
    <3> HIDE DEF t
    <3> QED BY <2>2, <2>4, <3>1 DEF TypeOK
  <2>5. CASE /\ ~(Route(call.name).routed /\ Known(Route(call.name).connector))
             /\ missed' = missed \union {call.meant}
             /\ UNCHANGED <<pc, req, target>>
    <3>1. call.meant = Nowhere
      BY <2>3, <2>5, NameLeadsHome
    <3> QED BY <2>2, <2>5, <3>1
  <2> QED BY <2>1, <2>4, <2>5, AcceptFacts
<1>3. ASSUME NEW h \in Handlers, Step(h) PROVE NamesInv'
  <2>1. CASE Receive(h)
    BY <2>1 DEF Receive, Goto, TypeOK, history, traces, mishaps
  <2>2. CASE Decide(h)
    BY <2>2 DEF Decide, Goto, TypeOK, history, traces, mishaps
  <2>3. CASE Dispatch(h)
    <3>1. pc[h] = "dispatch" /\ UNCHANGED <<listed, req, target>>
      BY <2>3 DEF Dispatch
    <3>2. req[h].meant = Nowhere \/ Home(target[h]) = req[h].meant
      BY <3>1, NameLeadsHome
    <3>3. \A i \in Handlers : pc'[i] # "idle" => pc[i] # "idle"
      BY <2>3 DEF Dispatch, Goto, TypeOK
    <3>4. ran' \subseteq ran \union {[meant |-> req[h].meant, actual |-> Home(target[h]),
                                      preflight |-> req[h].preflight]}
      BY <2>3 DEF Dispatch, Runs, history, traces, mishaps
    <3>5. \A r \in ran' : r.meant \in {r.actual, Nowhere}
      BY <3>2, <3>4
    <3>6. missed' = missed \/ (Home(target[h]) = Nowhere /\ missed' = missed \union {req[h].meant})
      BY <2>3 DEF Dispatch, Runs, history, traces, mishaps
    <3>7. missed' \subseteq {Nowhere}
      BY <3>2, <3>6
    <3> QED BY <3>1, <3>3, <3>5, <3>7
  <2>4. CASE LogVerdict(h)
    BY <2>4 DEF LogVerdict, Return, Goto, TypeOK, history, traces, mishaps
  <2> QED BY <1>3, <2>1, <2>2, <2>3, <2>4 DEF Step
<1>4. ASSUME NEW h \in Handlers, Dropped(h) PROVE NamesInv'
  BY <1>4 DEF Dropped, Return, Goto, TypeOK, history, traces, mishaps
<1>5. CASE Restart
  BY <1>5 DEF Restart, history, traces, mishaps
<1>6. CASE UNCHANGED vars
  BY <1>6 DEF vars, history, traces, mishaps
<1> QED BY <1>1, <1>2, <1>3, <1>4, <1>5, <1>6 DEF Next

(* As long as connectors are well named and Composio's name is its own, a   *)
(* listed name, and the name the agent puts together for a task, runs the   *)
(* tool it was made for or fails at that tool's connector; route_tool and   *)
(* dispatch_tool send it nowhere else.                                      *)
THEOREM NamesLead ==
    ASSUME Unambiguous
    PROVE  Spec => []RunsWhatWasMeant
<1>1. Init => NamesInv
  BY DEF Init, NamesInv, RunsWhatWasMeant
<1>2. TypeOK /\ NamesInv /\ [Next]_vars => NamesInv'
  BY NamesStep
<1> QED BY <1>1, <1>2, TypeInit, TypeStep, PTL DEF Spec, NamesInv
-----------------------------------------------------------------------------
(* What a handler's move does to a set of handlers' size.                   *)
LEMMA SizeOfMove ==
    ASSUME NEW S, IsFiniteSet(S), NEW T, NEW h
    PROVE  /\ Cardinality(S) \in Nat
           /\ T \subseteq S => Cardinality(T) \in Nat /\ Cardinality(T) <= Cardinality(S)
           /\ T \subseteq S \union {h} =>
                Cardinality(T) \in Nat /\ Cardinality(T) <= Cardinality(S) + 1
           /\ h \in S /\ T \subseteq S \ {h} =>
                Cardinality(T) \in Nat /\ Cardinality(T) <= Cardinality(S) - 1
<1>1. Cardinality(S) \in Nat
  BY FS_CardinalityType
<1>2. ASSUME T \subseteq S
      PROVE  Cardinality(T) \in Nat /\ Cardinality(T) <= Cardinality(S)
  BY <1>2, FS_Subset, FS_CardinalityType
<1>3. ASSUME T \subseteq S \union {h}
      PROVE  Cardinality(T) \in Nat /\ Cardinality(T) <= Cardinality(S) + 1
  <2>1. /\ IsFiniteSet(S \union {h})
        /\ Cardinality(S \union {h}) \in Nat /\ Cardinality(S \union {h}) <= Cardinality(S) + 1
    BY <1>1, FS_AddElement, FS_CardinalityType
  <2>2. Cardinality(T) \in Nat /\ Cardinality(T) <= Cardinality(S \union {h})
    BY <1>3, <2>1, FS_Subset, FS_CardinalityType
  <2> QED BY <1>1, <2>1, <2>2
<1>4. ASSUME h \in S, T \subseteq S \ {h}
      PROVE  Cardinality(T) \in Nat /\ Cardinality(T) <= Cardinality(S) - 1
  <2>1. /\ IsFiniteSet(S \ {h})
        /\ Cardinality(S \ {h}) = Cardinality(S) - 1
        /\ Cardinality(S \ {h}) \in Nat
    BY <1>4, FS_RemoveElement, FS_CardinalityType
  <2>2. Cardinality(T) \in Nat /\ Cardinality(T) <= Cardinality(S \ {h})
    BY <1>4, <2>1, FS_Subset, FS_CardinalityType
  <2> QED BY <2>1, <2>2
<1> QED BY <1>1, <1>2, <1>3, <1>4

(* Only a handler's own step moves it, and starting or dropping calls adds  *)
(* none to a set of positions that excludes the first and the last.         *)
LEMMA OthersStay ==
    ASSUME TypeOK, [Next]_vars, NEW c \in CallIds, NEW positions,
           "idle" \notin positions, "receive" \notin positions
    PROVE  \/ /\ At(positions, c)' \subseteq At(positions, c)
              /\ UNCHANGED <<rows, runs, unwritten>>
           \/ \E h \in Handlers :
                /\ Step(h)
                /\ req[h] \in Calls
                /\ At(positions, c)' \subseteq At(positions, c) \union {h}
                /\ h \in At(positions, c)' => pc'[h] \in positions /\ req[h].call_id = c
<1> USE DEF TypeOK, At
<1>1. CASE ListTools
  BY <1>1 DEF ListTools, history, mishaps
<1>2. ASSUME NEW h \in Handlers, ToolsCall(h)
      PROVE  At(positions, c)' \subseteq At(positions, c) /\ UNCHANGED <<rows, runs, unwritten>>
  <2>1. PICK call \in Calls : Accept(h, call)
    BY <1>2, ToolsCallFacts
  <2>2. UNCHANGED <<rows, runs, unwritten>>
    BY <1>2, ToolsCallFacts DEF mishaps
  <2>3. CASE req' = [req EXCEPT ![h] = call] /\ pc' = [pc EXCEPT ![h] = "receive"]
    BY <2>2, <2>3
  <2>4. CASE UNCHANGED <<pc, req>>
    BY <2>2, <2>4
  <2> QED BY <2>1, <2>3, <2>4 DEF Accept, Goto
<1>3. ASSUME NEW h \in Handlers, Step(h)
      PROVE  /\ req[h] \in Calls
             /\ At(positions, c)' \subseteq At(positions, c) \union {h}
             /\ h \in At(positions, c)' => pc'[h] \in positions /\ req[h].call_id = c
  <2>1. req[h] \in Calls
    BY <1>3 DEF Step, Receive, Decide, Dispatch, LogVerdict, Verdicts
  <2>2. CASE UNCHANGED req /\ \E l : pc' = [pc EXCEPT ![h] = l]
    BY <2>1, <2>2
  <2>3. CASE Return(h)
    BY <2>1, <2>3 DEF Return, Goto
  <2> QED BY <1>3, <2>2, <2>3 DEF Step, Receive, Decide, Dispatch, LogVerdict, Goto
<1>4. ASSUME NEW h \in Handlers, Dropped(h)
      PROVE  At(positions, c)' \subseteq At(positions, c) /\ UNCHANGED <<rows, runs, unwritten>>
  BY <1>4 DEF Dropped, Return, Goto
<1>5. CASE Restart
  BY <1>5 DEF Restart
<1>6. CASE UNCHANGED vars
  BY <1>6 DEF vars, history, mishaps
<1> QED BY <1>1, <1>2, <1>3, <1>4, <1>5, <1>6 DEF Next

\* A row per run, and one in hand for every call that may still run.
RecordInv ==
    \A c \in CallIds :
        runs[c] + Cardinality(At({"decide", "dispatch"}, c)) <= Due(c, "call_received")

LEMMA RecordStep == TypeOK /\ RecordInv /\ [Next]_vars => RecordInv'
<1> SUFFICES ASSUME TypeOK, RecordInv, [Next]_vars, NEW c \in CallIds
             PROVE  runs'[c] + Cardinality(At({"decide", "dispatch"}, c)')
                        <= Due(c, "call_received")'
  BY DEF RecordInv
<1> DEFINE P == {"decide", "dispatch"}
           S == At(P, c)
           T == S'
<1>1. IsFiniteSet(S)
  BY FS_Subset, HandlersAssumption DEF At
<1>2. /\ runs[c] \in Nat /\ Due(c, "call_received") \in Nat
      /\ Cardinality(S) \in Nat
      /\ runs[c] + Cardinality(S) <= Due(c, "call_received")
  BY <1>1, FS_CardinalityType DEF TypeOK, RecordInv, Actions, Due
<1>3. CASE T \subseteq S /\ UNCHANGED <<rows, runs, unwritten>>
  <2>1. Cardinality(T) \in Nat /\ Cardinality(T) <= Cardinality(S)
    BY <1>1, <1>3, SizeOfMove
  <2> HIDE DEF S, T
  <2>2. runs'[c] + Cardinality(T) <= Due(c, "call_received")'
    BY <1>2, <1>3, <2>1 DEF Due
  <2> QED BY <2>2 DEF S, T
<1>4. ASSUME NEW h \in Handlers, Step(h), req[h] \in Calls, T \subseteq S \union {h},
             h \in T => pc'[h] \in P /\ req[h].call_id = c
      PROVE  runs'[c] + Cardinality(T) <= Due(c, "call_received")'
  <2>1. req[h].call_id \in CallIds
    BY <1>4 DEF Calls
  <2>2. CASE Receive(h)
    <3>1. /\ runs' = runs
          /\ Due(c, "call_received")' = IF req[h].call_id = c
                                          THEN Due(c, "call_received") + 1
                                          ELSE Due(c, "call_received")
      BY <2>2, RecordFacts DEF Receive, Actions
    <3>2. CASE req[h].call_id = c
      <4>1. Cardinality(T) \in Nat /\ Cardinality(T) <= Cardinality(S) + 1
        BY <1>1, <1>4, SizeOfMove
      <4>2. Due(c, "call_received")' = Due(c, "call_received") + 1
        BY <3>1, <3>2, <2>1 DEF TypeOK, Actions, Due
      <4> HIDE DEF S, T
      <4> QED BY <1>2, <3>1, <4>1, <4>2
    <3>3. CASE req[h].call_id # c
      <4>1. T \subseteq S
        BY <1>4, <3>3
      <4>2. Cardinality(T) \in Nat /\ Cardinality(T) <= Cardinality(S)
        BY <1>1, <4>1, SizeOfMove
      <4>3. Due(c, "call_received")' = Due(c, "call_received")
        BY <3>1, <3>3, <2>1 DEF TypeOK, Actions, Due
      <4> HIDE DEF S, T
      <4> QED BY <1>2, <3>1, <4>2, <4>3
    <3> QED BY <3>2, <3>3
  <2>3. CASE Decide(h)
    <3>1. UNCHANGED <<rows, runs, unwritten>>
      BY <2>3 DEF Decide, history, mishaps
    <3>2. T \subseteq S
      BY <1>4, <2>3 DEF Decide, At
    <3> QED BY <1>3, <3>1, <3>2
  <2>4. CASE Dispatch(h)
    <3>1. /\ Due(c, "call_received")' = Due(c, "call_received") /\ h \notin T
          /\ runs' = runs \/ runs' = [runs EXCEPT ![req[h].call_id] = @ + 1]
      BY <1>4, <2>4 DEF Dispatch, Runs, Goto, TypeOK, Due, history, mishaps
    <3>2. CASE runs'[c] = runs[c]
      <4>1. T \subseteq S
        BY <1>4, <3>1
      <4>2. Cardinality(T) \in Nat /\ Cardinality(T) <= Cardinality(S)
        BY <1>1, <4>1, SizeOfMove
      <4> HIDE DEF S, T
      <4> QED BY <1>2, <3>1, <3>2, <4>2
    <3>3. CASE runs'[c] # runs[c]
      <4>1. req[h].call_id = c /\ runs'[c] = runs[c] + 1
        BY <2>1, <3>1, <3>3 DEF TypeOK
      <4>2. h \in S /\ T \subseteq S \ {h}
        BY <1>4, <2>4, <3>1, <4>1 DEF Dispatch, At
      <4>3. Cardinality(T) \in Nat /\ Cardinality(T) <= Cardinality(S) - 1
        BY <1>1, <4>2, SizeOfMove
      <4> HIDE DEF S, T
      <4> QED BY <1>2, <3>1, <4>1, <4>3
    <3> QED BY <3>2, <3>3
  <2>5. CASE LogVerdict(h)
    <3>1. runs' = runs /\ Due(c, "call_received")' = Due(c, "call_received")
      BY <2>5, RecordFacts DEF LogVerdict, Verdicts, Actions
    <3>2. T \subseteq S
      BY <1>4, <2>5 DEF LogVerdict, Return, Goto, TypeOK
    <3>3. Cardinality(T) \in Nat /\ Cardinality(T) <= Cardinality(S)
      BY <1>1, <3>2, SizeOfMove
    <3> HIDE DEF S, T
    <3> QED BY <1>2, <3>1, <3>3
  <2> QED BY <1>4, <2>2, <2>3, <2>4, <2>5 DEF Step
<1> QED BY <1>3, <1>4, OthersStay

(* handle_tools_call logs call_received before anything runs: whatever is   *)
(* dropped or restarted, and however calls share an id, each run has a row  *)
(* of its own or an INSERT that failed.                                     *)
THEOREM NothingOffTheRecord == Spec => []NothingRunsOffTheRecord
<1>1. Init => RecordInv
  <2> SUFFICES ASSUME Init, NEW c \in CallIds
               PROVE  runs[c] + Cardinality(At({"decide", "dispatch"}, c))
                        <= Due(c, "call_received")
    BY DEF RecordInv
  <2>1. At({"decide", "dispatch"}, c) = {}
    BY DEF Init, At
  <2>2. runs[c] = 0 /\ Due(c, "call_received") = 0
    BY DEF Init, Actions, Due
  <2> QED BY <2>1, <2>2, FS_EmptySet
<1>2. TypeOK /\ RecordInv /\ [Next]_vars => RecordInv'
  BY RecordStep
<1>3. TypeOK /\ RecordInv => NothingRunsOffTheRecord
  <2> SUFFICES ASSUME TypeOK, RecordInv, NEW c \in CallIds
               PROVE  runs[c] <= Due(c, "call_received")
    BY DEF NothingRunsOffTheRecord
  <2> DEFINE S == At({"decide", "dispatch"}, c)
  <2>1. Cardinality(S) \in Nat
    BY FS_Subset, FS_CardinalityType, HandlersAssumption DEF At
  <2>2. /\ runs[c] \in Nat /\ Due(c, "call_received") \in Nat
        /\ runs[c] + Cardinality(S) <= Due(c, "call_received")
    BY DEF TypeOK, RecordInv, Actions, Due
  <2> HIDE DEF S
  <2> QED BY <2>1, <2>2
<1> QED BY <1>1, <1>2, <1>3, TypeInit, TypeStep, PTL DEF Spec

\* What a call id's verdicts come to.
VerdictsDue(c) ==
    Due(c, "blocked") + Due(c, "rejected_requires_agent") + Due(c, "success") + Due(c, "failed")

LEMMA BalanceStep == TypeOK /\ EveryCallIsConcluded /\ [Next]_vars => EveryCallIsConcluded'
<1> SUFFICES ASSUME TypeOK, EveryCallIsConcluded, [Next]_vars, NEW c \in CallIds
             PROVE  Due(c, "call_received")' =
                        VerdictsDue(c)' + Cardinality(At(UnderWay, c)') + dropped'[c]
  BY DEF EveryCallIsConcluded, VerdictsDue
<1> DEFINE S == At(UnderWay, c)
           T == S'
           Goal == Due(c, "call_received")' = VerdictsDue(c)' + Cardinality(T) + dropped'[c]
<1>1. IsFiniteSet(S)
  BY FS_Subset, HandlersAssumption DEF At
<1>2. /\ Due(c, "call_received") \in Nat /\ VerdictsDue(c) \in Nat /\ dropped[c] \in Nat
      /\ Cardinality(S) \in Nat
      /\ Due(c, "call_received") = VerdictsDue(c) + Cardinality(S) + dropped[c]
  <2>1. \A a \in Actions : Due(c, a) \in Nat
    BY DEF TypeOK, Due
  <2>2. Due(c, "call_received") \in Nat /\ VerdictsDue(c) \in Nat
    BY <2>1 DEF VerdictsDue, Actions, Verdicts
  <2>3. Due(c, "call_received") = VerdictsDue(c) + Cardinality(S) + dropped[c]
    BY DEF EveryCallIsConcluded, VerdictsDue
  <2> QED BY <1>1, <2>2, <2>3, FS_CardinalityType DEF TypeOK
<1>3. ASSUME UNCHANGED <<rows, unwritten, dropped>>, T = S
      PROVE  Goal
  BY <1>2, <1>3 DEF Due, VerdictsDue
<1>4. ASSUME ListTools \/ UNCHANGED vars
      PROVE  Goal
  BY <1>3, <1>4 DEF ListTools, At, vars, history, mishaps
<1>5. ASSUME NEW h \in Handlers, ToolsCall(h)
      PROVE  Goal
  <2>1. PICK call \in Calls : Accept(h, call)
    BY <1>5, ToolsCallFacts
  <2>2. UNCHANGED <<rows, unwritten, dropped>> /\ pc[h] = "idle"
    BY <1>5, ToolsCallFacts DEF mishaps, ToolsCall
  <2>3. T = S
    <3>1. CASE req' = [req EXCEPT ![h] = call] /\ pc' = [pc EXCEPT ![h] = "receive"]
      BY <2>2, <3>1 DEF At, TypeOK, UnderWay, Verdicts
    <3>2. CASE UNCHANGED <<pc, req>>
      BY <3>2 DEF At
    <3> QED BY <2>1, <3>1, <3>2 DEF Accept, Goto
  <2> QED BY <1>3, <2>2, <2>3
<1>6. ASSUME NEW h \in Handlers, Receive(h)
      PROVE  Goal
  <2>1. /\ req[h] \in Calls /\ req' = req /\ pc[h] = "receive"
        /\ pc' = [pc EXCEPT ![h] = "decide"] /\ dropped' = dropped
    BY <1>6 DEF Receive, TypeOK, Goto
  <2>2. \A a \in Actions :
            Due(c, a)' = IF c = req[h].call_id /\ a = "call_received"
                           THEN Due(c, a) + 1 ELSE Due(c, a)
    BY <1>6, <2>1, RecordFacts DEF Receive, Actions
  <2>3. VerdictsDue(c)' = VerdictsDue(c)
    BY <2>2 DEF VerdictsDue, Actions, Verdicts
  <2>4. CASE req[h].call_id = c
    <3>1. T = S \union {h} /\ h \notin S
      BY <2>1, <2>4 DEF At, TypeOK, UnderWay, Verdicts
    <3>2. Cardinality(T) = Cardinality(S) + 1
      BY <1>1, <3>1, FS_AddElement
    <3>3. Due(c, "call_received")' = Due(c, "call_received") + 1
      BY <2>2, <2>4 DEF Actions
    <3> HIDE DEF S, T
    <3> QED BY <1>2, <2>1, <2>3, <3>2, <3>3
  <2>5. CASE req[h].call_id # c
    <3>1. T = S
      BY <2>1, <2>5 DEF At, TypeOK
    <3>2. Due(c, "call_received")' = Due(c, "call_received")
      BY <2>2, <2>5 DEF Actions
    <3> QED BY <1>2, <2>1, <2>3, <3>1, <3>2
  <2> QED BY <2>4, <2>5
<1>7. ASSUME NEW h \in Handlers, Decide(h) \/ Dispatch(h)
      PROVE  Goal
  <2>1. UNCHANGED <<rows, unwritten, dropped>>
    BY <1>7 DEF Decide, Dispatch, Runs, history, mishaps
  <2>2. PICK l \in UnderWay : pc' = [pc EXCEPT ![h] = l]
    BY <1>7 DEF Decide, Dispatch, Goto, UnderWay, Verdicts
  <2>3. pc[h] \in UnderWay /\ req' = req
    BY <1>7 DEF Decide, Dispatch, UnderWay
  <2>4. T = S
    BY <2>2, <2>3 DEF At, TypeOK
  <2> QED BY <1>3, <2>1, <2>4
<1>8. ASSUME NEW h \in Handlers, LogVerdict(h)
      PROVE  Goal
  <2>1. /\ pc[h] \in Verdicts /\ pc[h] # "idle" /\ req[h] \in Calls
        /\ Return(h) /\ dropped' = dropped
    BY <1>8 DEF LogVerdict, TypeOK, Verdicts
  <2>2. \A a \in Actions :
            Due(c, a)' = IF c = req[h].call_id /\ a = pc[h] THEN Due(c, a) + 1 ELSE Due(c, a)
    BY <1>8, <2>1, RecordFacts DEF LogVerdict, Actions
  <2>3. Due(c, "call_received")' = Due(c, "call_received")
    BY <2>1, <2>2 DEF Actions, Verdicts
  <2>4. \A a \in Actions : Due(c, a) \in Nat
    BY DEF Due, TypeOK
  <2>5. T = S \ {h}
    BY <2>1 DEF Return, Goto, At, TypeOK, UnderWay, Verdicts
  <2>6. CASE req[h].call_id = c
    <3>1. VerdictsDue(c)' = VerdictsDue(c) + 1
      BY <2>1, <2>2, <2>4, <2>6 DEF VerdictsDue, Actions, Verdicts
    <3>2. h \in S
      BY <2>1, <2>6 DEF At, UnderWay
    <3>3. Cardinality(T) = Cardinality(S) - 1
      BY <1>1, <2>5, <3>2, FS_RemoveElement
    <3> HIDE DEF S, T
    <3> QED BY <1>2, <2>1, <2>3, <3>1, <3>3
  <2>7. CASE req[h].call_id # c
    <3>1. T = S
      BY <2>5, <2>7 DEF At
    <3>2. VerdictsDue(c)' = VerdictsDue(c)
      BY <2>2, <2>7 DEF VerdictsDue, Actions, Verdicts
    <3> QED BY <1>2, <2>1, <2>3, <3>1, <3>2
  <2> QED BY <2>6, <2>7
<1>9. ASSUME NEW h \in Handlers, Dropped(h)
      PROVE  Goal
  <2>1. /\ pc[h] # "idle" /\ req[h] \in Calls /\ Return(h)
        /\ UNCHANGED <<rows, unwritten>>
    BY <1>9 DEF Dropped, TypeOK
  <2>2. T = S \ {h}
    BY <2>1 DEF Return, Goto, At, TypeOK, UnderWay, Verdicts
  <2>3. Due(c, "call_received")' = Due(c, "call_received") /\ VerdictsDue(c)' = VerdictsDue(c)
    BY <2>1 DEF Due, VerdictsDue
  <2>4. CASE h \in S
    <3>1. pc[h] # "receive" /\ req[h].call_id = c
      BY <2>4 DEF At, UnderWay, Verdicts
    <3>2. dropped'[c] = dropped[c] + 1
      BY <1>9, <3>1 DEF Dropped, TypeOK
    <3>3. Cardinality(T) = Cardinality(S) - 1
      BY <1>1, <2>2, <2>4, FS_RemoveElement
    <3> HIDE DEF S, T
    <3> QED BY <1>2, <2>3, <3>2, <3>3
  <2>5. CASE h \notin S
    <3>1. pc[h] = "receive" \/ req[h].call_id # c
      BY <2>1, <2>5 DEF At, TypeOK, PCs
    <3>2. dropped'[c] = dropped[c]
      BY <1>9, <2>1, <3>1 DEF Dropped, TypeOK, Calls
    <3>3. T = S
      BY <2>2, <2>5
    <3> QED BY <1>2, <2>3, <3>2, <3>3
  <2> QED BY <2>4, <2>5
<1>10. ASSUME Restart
       PROVE  Goal
  <2>1. T = {}
    BY <1>10 DEF Restart, At, UnderWay, Verdicts
  <2>2. Cardinality(T) = 0
    BY <2>1, FS_EmptySet
  <2>3. Due(c, "call_received")' = Due(c, "call_received") /\ VerdictsDue(c)' = VerdictsDue(c)
    BY <1>10 DEF Restart, Due, VerdictsDue
  <2>4. dropped'[c] = dropped[c] + Cardinality(S)
    BY <1>10 DEF Restart
  <2> HIDE DEF S, T
  <2> QED BY <1>2, <2>2, <2>3, <2>4
<1>11. Goal
  <2> HIDE DEF Goal
  <2> QED BY <1>4, <1>5, <1>6, <1>7, <1>8, <1>9, <1>10 DEF Next, Step
<1> QED BY <1>11

(* handle_tools_call writes a verdict for every call it has logged as       *)
(* received, exactly one, unless its handler goes first: calls that share a *)
(* call id never take each other's rows, whatever fails.                    *)
THEOREM BooksBalance == Spec => []EveryCallIsConcluded
<1>1. Init => EveryCallIsConcluded
  <2> SUFFICES ASSUME Init, NEW c \in CallIds
               PROVE  Due(c, "call_received") =
                        VerdictsDue(c) + Cardinality(At(UnderWay, c)) + dropped[c]
    BY DEF EveryCallIsConcluded, VerdictsDue
  <2>1. At(UnderWay, c) = {}
    BY DEF Init, At, UnderWay, Verdicts
  <2>2. dropped[c] = 0 /\ Due(c, "call_received") = 0 /\ VerdictsDue(c) = 0
    BY DEF Init, Actions, Verdicts, Due, VerdictsDue
  <2> QED BY <2>1, <2>2, FS_EmptySet
<1>2. TypeOK /\ EveryCallIsConcluded /\ [Next]_vars => EveryCallIsConcluded'
  BY BalanceStep
<1> QED BY <1>1, <1>2, TypeInit, TypeStep, PTL DEF Spec
=============================================================================
