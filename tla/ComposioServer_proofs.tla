------------------------ MODULE ComposioServer_proofs ------------------------
(***************************************************************************)
(* How many servers of a name starts of any number of machines can leave   *)
(* behind, in any order and with any faults.                               *)
(***************************************************************************)
EXTENDS ComposioServer, FiniteSetTheorems, SequenceTheorems, TLAPS

\* Machines about to create a server of this name.
Creators(n) == {m \in Machines : pc[m] = "create" /\ server_name[m] = n}

\* The servers there were are where they were.
ForeignStay ==
    /\ Len(Foreign) <= Len(servers)
    /\ \A i \in DOMAIN Foreign : servers[i] = Foreign[i]

\* Every POST that was left is a stray of its name.
LateCounted(n) == late[n] <= strays[n]

\* Servers, POSTs under way and machines about to send one are accounted for.
Accounted(n) ==
    Cardinality(Named(n)) + late[n] + Cardinality(Creators(n)) <= Expected(n) + strays[n]

Counted(n) == LateCounted(n) /\ Accounted(n)

\* The inductive invariants: what the servers are, and how many.
TInv == TypeOK /\ ForeignStay
IInv == TInv /\ \A n \in ServerNames : Counted(n)
-----------------------------------------------------------------------------
(* The servers are numbered from one, and a started gateway's name is one   *)
(* of its machine's.                                                        *)
LEMMA ServerNumbers ==
    ASSUME TypeOK
    PROVE  /\ Len(servers) \in Nat /\ DOMAIN servers = 1..Len(servers)
           /\ \A i \in DOMAIN servers : servers[i] \in ServerNames
           /\ \A m \in Machines : pc[m] # "down" =>
                server_name[m] \in Environments[m] /\ server_name[m] \in ServerNames
BY ConfigAssumption DEF TypeOK

(* One server more, at the end; the others keep their numbers.              *)
LEMMA ServerAdded ==
    ASSUME TypeOK, NEW s \in ServerNames, servers' = Append(servers, s)
    PROVE  /\ servers' \in Seq(ServerNames) /\ Len(servers') = Len(servers) + 1
           /\ DOMAIN servers' = DOMAIN servers \union {Len(servers) + 1}
           /\ servers'[Len(servers) + 1] = s
           /\ \A i \in DOMAIN servers : servers'[i] = servers[i]
<1>1. /\ servers' \in Seq(ServerNames) /\ Len(servers') = Len(servers) + 1
      /\ servers'[Len(servers) + 1] = s
      /\ \A i \in 1..Len(servers) : servers'[i] = servers[i]
  BY AppendProperties DEF TypeOK
<1>2. DOMAIN servers' = 1..(Len(servers) + 1)
  BY <1>1, LenProperties
<1> QED BY <1>1, <1>2, ServerNumbers
-----------------------------------------------------------------------------
(* A process that ends leaves its machine down, without server or name.     *)
LEMMA ExitTyped ==
    ASSUME TInv, NEW m \in Machines, Exit(m)
    PROVE  /\ pc' \in [Machines -> {"down", "list", "create", "bind", "up"}]
           /\ server_name' \in [Machines -> ServerNames \union {NoName}]
           /\ server' \in [Machines -> 0..MaxServers]
           /\ pc'[m] = "down"
           /\ \A k \in Machines : k # m =>
                /\ pc'[k] = pc[k] /\ server_name'[k] = server_name[k]
                /\ server'[k] = server[k]
BY ConfigAssumption DEF TInv, TypeOK, Exit, Goto

(* What the project's servers may do and keep their types and numbers:      *)
(* nothing, or grow by one.                                                 *)
LEMMA ServersTyped ==
    ASSUME TInv,
           servers' = servers \/ \E s \in ServerNames : Created(s)
    PROVE  /\ servers' \in Seq(ServerNames) /\ Len(servers') <= MaxServers
           /\ ForeignStay'
           /\ DOMAIN servers \subseteq DOMAIN servers'
           /\ \A i \in DOMAIN servers : servers'[i] = servers[i]
<1>0. /\ Len(servers) \in Nat /\ Len(Foreign) \in Nat /\ MaxServers \in Nat
      /\ DOMAIN servers = 1..Len(servers) /\ DOMAIN Foreign = 1..Len(Foreign)
  BY ServerNumbers, LenProperties, ConfigAssumption DEF TInv
<1>1. CASE servers' = servers
  BY <1>0, <1>1 DEF TInv, TypeOK, ForeignStay
<1>2. CASE \E s \in ServerNames : Created(s)
  <2>1. PICK s \in ServerNames : servers' = Append(servers, s)
    BY <1>2 DEF Created
  <2>2. /\ servers' \in Seq(ServerNames) /\ Len(servers') = Len(servers) + 1
        /\ DOMAIN servers' = DOMAIN servers \union {Len(servers) + 1}
        /\ \A i \in DOMAIN servers : servers'[i] = servers[i]
    BY <2>1, ServerAdded DEF TInv
  <2>3. Len(servers') <= MaxServers
    <3>1. Len(servers) < MaxServers
      BY <1>2 DEF Created, Room
    <3> QED BY <1>0, <2>2, <3>1
  <2>4. ForeignStay'
    BY <1>0, <2>2 DEF TInv, ForeignStay
  <2> QED BY <2>2, <2>3, <2>4
<1> QED BY <1>1, <1>2

(* A machine's turn keeps the types if it ends down, with a name of its own *)
(* on the way, or bound to a server that carries its name.                  *)
LEMMA TurnTyped ==
    ASSUME TInv, NEW m \in Machines,
           servers' = servers \/ \E s \in ServerNames : Created(s),
           late' \in [ServerNames -> Nat],
           strays' \in [ServerNames -> 0..MaxStrays],
           \/ Exit(m)
           \/ /\ \E p \in {"list", "create"} : pc' = [pc EXCEPT ![m] = p]
              /\ \E n \in Environments[m] : server_name' = [server_name EXCEPT ![m] = n]
              /\ server' = server
           \/ /\ \E p \in {"bind", "up"} : pc' = [pc EXCEPT ![m] = p]
              /\ \E i \in DOMAIN servers' :
                    /\ server' = [server EXCEPT ![m] = i]
                    /\ servers'[i] = server_name[m]
              /\ server_name' = server_name /\ server_name[m] \in Environments[m]
    PROVE  TInv'
<1>1. /\ servers' \in Seq(ServerNames) /\ Len(servers') <= MaxServers
      /\ ForeignStay'
      /\ DOMAIN servers \subseteq DOMAIN servers'
      /\ \A i \in DOMAIN servers : servers'[i] = servers[i]
  BY ServersTyped
<1>2. DOMAIN servers' \subseteq 0..MaxServers
  BY <1>1, LenProperties, ConfigAssumption
<1>3. /\ pc' \in [Machines -> {"down", "list", "create", "bind", "up"}]
      /\ server_name' \in [Machines -> ServerNames \union {NoName}]
      /\ server' \in [Machines -> 0..MaxServers]
      /\ \A k \in Machines : k # m =>
            /\ pc'[k] = pc[k] /\ server_name'[k] = server_name[k]
            /\ server'[k] = server[k]
      /\ pc'[m] # "down" => server_name'[m] \in Environments[m]
      /\ pc'[m] \in {"bind", "up"} =>
            server'[m] \in DOMAIN servers' /\ servers'[server'[m]] = server_name'[m]
  <2>1. CASE Exit(m)
    BY <2>1, ExitTyped
  <2>2. CASE /\ \E p \in {"list", "create"} : pc' = [pc EXCEPT ![m] = p]
             /\ \E n \in Environments[m] : server_name' = [server_name EXCEPT ![m] = n]
             /\ server' = server
    BY <2>2, ConfigAssumption DEF TInv, TypeOK
  <2>3. CASE /\ \E p \in {"bind", "up"} : pc' = [pc EXCEPT ![m] = p]
             /\ \E i \in DOMAIN servers' :
                   /\ server' = [server EXCEPT ![m] = i]
                   /\ servers'[i] = server_name[m]
             /\ server_name' = server_name /\ server_name[m] \in Environments[m]
    BY <1>2, <2>3 DEF TInv, TypeOK
  <2> QED BY <2>1, <2>2, <2>3
<1>4. \A k \in Machines :
        /\ pc'[k] # "down" => server_name'[k] \in Environments[k]
        /\ pc'[k] \in {"bind", "up"} =>
            server'[k] \in DOMAIN servers' /\ servers'[server'[k]] = server_name'[k]
  <2> SUFFICES ASSUME NEW k \in Machines
               PROVE  /\ pc'[k] # "down" => server_name'[k] \in Environments[k]
                      /\ pc'[k] \in {"bind", "up"} =>
                          /\ server'[k] \in DOMAIN servers'
                          /\ servers'[server'[k]] = server_name'[k]
    OBVIOUS
  <2>1. CASE k = m
    BY <1>3, <2>1
  <2>2. CASE k # m
    <3>1. /\ pc[k] # "down" => server_name[k] \in Environments[k]
          /\ pc[k] \in {"bind", "up"} =>
              server[k] \in DOMAIN servers /\ servers[server[k]] = server_name[k]
      BY DEF TInv, TypeOK
    <3>2. /\ pc'[k] = pc[k] /\ server_name'[k] = server_name[k]
          /\ server'[k] = server[k]
      BY <1>3, <2>2
    <3> QED BY <1>1, <3>1, <3>2
  <2> QED BY <2>1, <2>2
<1> QED BY <1>1, <1>3, <1>4 DEF TInv, TypeOK
-----------------------------------------------------------------------------
(* What is counted is finite.                                               *)
LEMMA Countable ==
    ASSUME TInv, NEW n \in ServerNames
    PROVE  /\ IsFiniteSet(Named(n)) /\ Cardinality(Named(n)) \in Nat
           /\ IsFiniteSet(Creators(n)) /\ Cardinality(Creators(n)) \in Nat
           /\ IsFiniteSet(Starters(n)) /\ IsFiniteSet(Existing(n))
           /\ Expected(n) \in Nat /\ late[n] \in Nat /\ strays[n] \in Nat
<1>1. IsFiniteSet(Named(n))
  <2>1. IsFiniteSet(1..Len(servers)) /\ Named(n) \subseteq 1..Len(servers)
    BY ServerNumbers, FS_Interval DEF TInv, Named
  <2> QED BY <2>1, FS_Subset
<1>2. IsFiniteSet(Creators(n)) /\ IsFiniteSet(Starters(n))
  BY MachineAssumption, FS_Subset DEF Creators, Starters
<1>3. IsFiniteSet(Existing(n))
  <2>1. Len(Foreign) \in Nat /\ DOMAIN Foreign = 1..Len(Foreign)
    BY ConfigAssumption, LenProperties
  <2>2. IsFiniteSet(1..Len(Foreign)) /\ Existing(n) \subseteq 1..Len(Foreign)
    BY <2>1, FS_Interval DEF Existing
  <2> QED BY <2>2, FS_Subset
<1>4. Expected(n) \in Nat
  BY <1>2, <1>3, FS_CardinalityType DEF Expected
<1>5. late[n] \in Nat /\ strays[n] \in Nat
  BY DEF TInv, TypeOK
<1> QED BY <1>1, <1>2, <1>3, <1>4, <1>5, FS_CardinalityType

(* A server more counts for its own name.                                   *)
LEMMA NamedGrows ==
    ASSUME TInv, NEW s \in ServerNames, Created(s), NEW n \in ServerNames
    PROVE  Cardinality(Named(n)') = Cardinality(Named(n)) + (IF s = n THEN 1 ELSE 0)
<1> DEFINE last == Len(servers) + 1
<1>1. /\ DOMAIN servers' = DOMAIN servers \union {last}
      /\ servers'[last] = s
      /\ \A i \in DOMAIN servers : servers'[i] = servers[i]
  BY ServerAdded DEF TInv, Created
<1>2. last \notin Named(n) /\ Cardinality(Named(n)) \in Nat
  <2>1. last \notin DOMAIN servers
    BY ServerNumbers DEF TInv
  <2> QED BY <2>1, Countable DEF Named
<1> HIDE DEF last
<1>3. CASE s = n
  <2>1. Named(n)' = Named(n) \union {last}
    BY <1>1, <1>3 DEF Named
  <2> QED BY <1>2, <1>3, <2>1, Countable, FS_AddElement
<1>4. CASE s # n
  <2>1. Named(n)' = Named(n)
    BY <1>1, <1>4 DEF Named
  <2> QED BY <1>2, <1>4, <2>1
<1> QED BY <1>3, <1>4

(* A machine that leaves the creation of a server counts no more for its    *)
(* name.                                                                    *)
LEMMA CreatorLeaves ==
    ASSUME TInv, NEW m \in Machines, pc[m] = "create", pc'[m] # "create",
           \A k \in Machines : k # m => pc'[k] = pc[k] /\ server_name'[k] = server_name[k],
           NEW n \in ServerNames
    PROVE  Cardinality(Creators(n)')
             = Cardinality(Creators(n)) - (IF server_name[m] = n THEN 1 ELSE 0)
<1>1. Creators(n)' = Creators(n) \ {m}
  BY DEF Creators
<1>2. m \in Creators(n) <=> server_name[m] = n
  BY DEF Creators
<1>3. /\ Cardinality(Creators(n)) \in Nat
      /\ Cardinality(Creators(n) \ {m})
           = IF m \in Creators(n) THEN Cardinality(Creators(n)) - 1 ELSE Cardinality(Creators(n))
  BY Countable, FS_RemoveElement
<1> QED BY <1>1, <1>2, <1>3

(* One that comes to it counts from now on.                                 *)
LEMMA CreatorComes ==
    ASSUME TInv, NEW m \in Machines, pc[m] # "create", pc' = [pc EXCEPT ![m] = "create"],
           server_name' = server_name, NEW n \in ServerNames
    PROVE  Cardinality(Creators(n)')
             = Cardinality(Creators(n)) + (IF server_name[m] = n THEN 1 ELSE 0)
<1>1. Creators(n)' = IF server_name[m] = n THEN Creators(n) \union {m} ELSE Creators(n)
  BY DEF Creators, TInv, TypeOK
<1>2. m \notin Creators(n)
  BY DEF Creators
<1>3. /\ Cardinality(Creators(n)) \in Nat
      /\ Cardinality(Creators(n) \union {m}) = Cardinality(Creators(n)) + 1
  BY <1>2, Countable, FS_AddElement
<1> QED BY <1>1, <1>3

(* Nothing else a machine does counts.                                      *)
LEMMA CreatorsStay ==
    ASSUME NEW m \in Machines, pc[m] # "create", pc'[m] # "create",
           \A k \in Machines : k # m => pc'[k] = pc[k] /\ server_name'[k] = server_name[k],
           NEW n
    PROVE  Creators(n)' = Creators(n)
BY DEF Creators

(* The count holds when what is added to servers, POSTs and creators        *)
(* together is no more than what is added to the strays.                    *)
LEMMA Balance ==
    ASSUME TInv, NEW n \in ServerNames, Counted(n),
           NEW dN \in Int, NEW dL \in Int, NEW dC \in Int, NEW dS \in Int,
           Cardinality(Named(n)') = Cardinality(Named(n)) + dN,
           late'[n] = late[n] + dL,
           Cardinality(Creators(n)') = Cardinality(Creators(n)) + dC,
           strays'[n] = strays[n] + dS,
           dL <= dS, dN + dL + dC <= dS
    PROVE  Counted(n)'
<1>1. /\ Cardinality(Named(n)) \in Nat /\ late[n] \in Nat
      /\ Cardinality(Creators(n)) \in Nat /\ Expected(n) \in Nat /\ strays[n] \in Nat
  BY Countable
<1>2. /\ late[n] <= strays[n]
      /\ Cardinality(Named(n)) + late[n] + Cardinality(Creators(n))
            <= Expected(n) + strays[n]
  BY DEF Counted, LateCounted, Accounted
<1>3. Expected(n)' = Expected(n)
  BY DEF Expected, Existing, Starters
<1> DEFINE N == Cardinality(Named(n))     N2 == Cardinality(Named(n)')
           C == Cardinality(Creators(n))  C2 == Cardinality(Creators(n)')
<1>4. late'[n] <= strays'[n] /\ N2 + late'[n] + C2 <= Expected(n) + strays'[n]
  <2>1. /\ N \in Nat /\ C \in Nat /\ N2 = N + dN /\ C2 = C + dC
        /\ late[n] <= strays[n] /\ N + late[n] + C <= Expected(n) + strays[n]
    BY <1>1, <1>2
  <2> HIDE DEF N, N2, C, C2
  <2> QED BY <1>1, <2>1
<1> QED BY <1>3, <1>4 DEF Counted, LateCounted, Accounted

(* The same servers, POSTs and strays leave the count as it is, whether the *)
(* machine that moved was to create a server or not.                        *)
LEMMA Quiet ==
    ASSUME TInv, NEW n \in ServerNames, Counted(n), NEW m \in Machines,
           servers' = servers, late' = late, strays' = strays, pc'[m] # "create",
           \A k \in Machines : k # m => pc'[k] = pc[k] /\ server_name'[k] = server_name[k]
    PROVE  Counted(n)'
<1>1. Named(n)' = Named(n)
  BY DEF Named
<1>2. /\ Cardinality(Named(n)) \in Nat /\ Cardinality(Creators(n)) \in Nat
      /\ late[n] \in Nat /\ strays[n] \in Nat
  BY Countable
<1>3. PICK d \in {0, -1} : Cardinality(Creators(n)') = Cardinality(Creators(n)) + d
  <2>1. CASE pc[m] = "create"
    <3>1. Cardinality(Creators(n)')
            = Cardinality(Creators(n)) - (IF server_name[m] = n THEN 1 ELSE 0)
      BY <2>1, CreatorLeaves
    <3> QED BY <1>2, <3>1
  <2>2. CASE pc[m] # "create"
    BY <1>2, <2>2, CreatorsStay
  <2> QED BY <2>1, <2>2
<1>4. /\ Cardinality(Named(n)') = Cardinality(Named(n)) + 0
      /\ late'[n] = late[n] + 0 /\ strays'[n] = strays[n] + 0
      /\ d \in Int /\ 0 <= 0 /\ 0 + 0 + d <= 0 /\ 0 \in Int
  BY <1>1, <1>2
<1> QED BY <1>3, <1>4, Balance
-----------------------------------------------------------------------------
(* A lookup that finds no server of the name leaves room for every machine  *)
(* that may be started with it: the project never had one.                  *)
LEMMA NoneListed ==
    ASSUME TInv, NEW n \in ServerNames, Counted(n), NEW m \in Machines,
           pc[m] = "list", Named(server_name[m]) = {},
           pc' = [pc EXCEPT ![m] = "create"],
           servers' = servers, late' = late, strays' = strays, server_name' = server_name
    PROVE  Counted(n)'
<1>0. /\ Named(n)' = Named(n) /\ Expected(n)' = Expected(n)
      /\ late[n] \in Nat /\ strays[n] \in Nat /\ late[n] <= strays[n]
  BY Countable DEF Named, Expected, Existing, Starters, Counted, LateCounted
<1>1. CASE server_name[m] = n
  <2>1. Existing(n) = {}
    <3> SUFFICES ASSUME NEW i \in Existing(n) PROVE FALSE
      OBVIOUS
    <3>1. i \in 1..Len(Foreign) /\ Len(Foreign) \in Nat /\ Foreign[i] = n
      BY ConfigAssumption, LenProperties DEF Existing
    <3>2. i \in DOMAIN servers /\ servers[i] = n
      BY <3>1, ServerNumbers DEF TInv, ForeignStay, Existing
    <3> QED BY <1>1, <3>2 DEF Named
  <2>2. Expected(n) = Cardinality(Starters(n))
    BY <2>1 DEF Expected
  <2>3. Creators(n)' \subseteq Starters(n)
    BY DEF Creators, Starters, TInv, TypeOK
  <2>4. /\ Cardinality(Creators(n)') \in Nat /\ Cardinality(Starters(n)) \in Nat
        /\ Cardinality(Creators(n)') <= Cardinality(Starters(n))
    BY <2>3, Countable, FS_Subset, FS_CardinalityType
  <2>5. Cardinality(Named(n)) = 0
    BY <1>1, FS_EmptySet
  <2>6. Cardinality(Named(n)') + late'[n] + Cardinality(Creators(n)')
          <= Expected(n)' + strays'[n]
    BY <1>0, <2>2, <2>4, <2>5
  <2> QED BY <1>0, <2>6 DEF Counted, LateCounted, Accounted
<1>2. CASE server_name[m] # n
  <2>1. Cardinality(Creators(n)') = Cardinality(Creators(n)) + 0
    BY <1>2, CreatorComes
  <2>2. /\ Cardinality(Named(n)') = Cardinality(Named(n)) + 0
        /\ late'[n] = late[n] + 0 /\ strays'[n] = strays[n] + 0
        /\ 0 \in Int /\ 0 <= 0 /\ 0 + 0 + 0 <= 0
    BY <1>0, Countable
  <2> QED BY <2>1, <2>2, Balance
<1> QED BY <1>1, <1>2

(* A server overlooked is a stray, and the machine goes to create.          *)
LEMMA Overlooked ==
    ASSUME TInv, NEW n \in ServerNames, Counted(n), NEW m \in Machines,
           pc[m] = "list", Stray(server_name[m]),
           pc' = [pc EXCEPT ![m] = "create"],
           servers' = servers, late' = late, server_name' = server_name
    PROVE  Counted(n)'
<1> DEFINE d == IF server_name[m] = n THEN 1 ELSE 0
<1>1. Cardinality(Creators(n)') = Cardinality(Creators(n)) + d
  BY CreatorComes
<1>2. strays'[n] = strays[n] + d /\ late'[n] = late[n] + 0
  BY Countable DEF TInv, TypeOK, Stray
<1>3. Cardinality(Named(n)') = Cardinality(Named(n)) + 0
  <2>1. Named(n)' = Named(n)
    BY DEF Named
  <2> QED BY <2>1, Countable
<1>4. d \in Int /\ 0 \in Int /\ 0 <= d /\ 0 + 0 + d <= d
  OBVIOUS
<1> HIDE DEF d
<1> QED BY <1>1, <1>2, <1>3, <1>4, Balance

(* A machine that creates a server of its name gives up its own place.      *)
LEMMA CreatedOne ==
    ASSUME TInv, NEW n \in ServerNames, Counted(n), NEW m \in Machines,
           pc[m] = "create", pc'[m] # "create",
           \A k \in Machines : k # m => pc'[k] = pc[k] /\ server_name'[k] = server_name[k],
           Created(server_name[m]), late' = late, strays' = strays
    PROVE  Counted(n)'
<1> DEFINE d == IF server_name[m] = n THEN 1 ELSE 0
<1>1. Cardinality(Named(n)') = Cardinality(Named(n)) + d
  BY ServerNumbers, NamedGrows DEF TInv
<1>2. Cardinality(Creators(n)') = Cardinality(Creators(n)) - d
  BY CreatorLeaves
<1>3. late'[n] = late[n] + 0 /\ strays'[n] = strays[n] + 0 /\ Cardinality(Creators(n)) \in Nat
  BY Countable
<1>4. d \in {0, 1}
  OBVIOUS
<1> HIDE DEF d
<1>5. /\ d \in Int /\ 0 - d \in Int /\ 0 \in Int /\ 0 <= 0 /\ d + 0 + (0 - d) <= 0
      /\ Cardinality(Creators(n)') = Cardinality(Creators(n)) + (0 - d)
  BY <1>2, <1>3, <1>4
<1> QED BY <1>1, <1>3, <1>5, Balance

(* So does one whose POST is left under way, which is a stray besides.      *)
LEMMA LeftBehind ==
    ASSUME TInv, NEW n \in ServerNames, Counted(n), NEW m \in Machines,
           pc[m] = "create", pc'[m] # "create",
           \A k \in Machines : k # m => pc'[k] = pc[k] /\ server_name'[k] = server_name[k],
           servers' = servers, late' = [late EXCEPT ![server_name[m]] = @ + 1],
           Stray(server_name[m])
    PROVE  Counted(n)'
<1> DEFINE d == IF server_name[m] = n THEN 1 ELSE 0
<1>1. late'[n] = late[n] + d /\ strays'[n] = strays[n] + d
  BY Countable DEF TInv, TypeOK, Stray
<1>2. Cardinality(Creators(n)') = Cardinality(Creators(n)) - d
  BY CreatorLeaves
<1>3. /\ Cardinality(Named(n)') = Cardinality(Named(n)) + 0
      /\ Cardinality(Creators(n)) \in Nat
  <2>1. Named(n)' = Named(n)
    BY DEF Named
  <2> QED BY <2>1, Countable
<1>4. d \in {0, 1}
  OBVIOUS
<1> HIDE DEF d
<1>5. /\ d \in Int /\ 0 - d \in Int /\ 0 \in Int /\ d <= d /\ 0 + d + (0 - d) <= d
      /\ Cardinality(Creators(n)') = Cardinality(Creators(n)) + (0 - d)
  BY <1>2, <1>3, <1>4
<1> QED BY <1>1, <1>3, <1>5, Balance

(* A POST that is served late was counted when it was left.                 *)
LEMMA LatePostCounts ==
    ASSUME TInv, NEW n \in ServerNames, Counted(n), NEW s \in ServerNames,
           Created(s), late' = [late EXCEPT ![s] = @ - 1],
           pc' = pc, server_name' = server_name, strays' = strays
    PROVE  Counted(n)'
<1> DEFINE d == IF s = n THEN 1 ELSE 0
<1>1. Cardinality(Named(n)') = Cardinality(Named(n)) + d
  BY NamedGrows
<1>2. late'[n] = late[n] + (0 - d) /\ strays'[n] = strays[n] + 0
  BY Countable DEF TInv, TypeOK
<1>3. Cardinality(Creators(n)') = Cardinality(Creators(n)) + 0
  <2>1. Creators(n)' = Creators(n)
    BY DEF Creators
  <2> QED BY <2>1, Countable
<1>4. d \in {0, 1}
  OBVIOUS
<1> HIDE DEF d
<1>5. d \in Int /\ 0 - d \in Int /\ 0 \in Int /\ 0 - d <= 0 /\ d + (0 - d) + 0 <= 0
  BY <1>4
<1> QED BY <1>1, <1>2, <1>3, <1>5, Balance
-----------------------------------------------------------------------------
(* A machine on its way has a name of its own, and what is counted its      *)
(* type.                                                                    *)
LEMMA OwnName ==
    ASSUME TInv, NEW m \in Machines, pc[m] # "down"
    PROVE  /\ server_name[m] \in ServerNames /\ server_name[m] \in Environments[m]
           /\ server_name \in [Machines -> ServerNames \union {NoName}]
           /\ late \in [ServerNames -> Nat] /\ strays \in [ServerNames -> 0..MaxStrays]
BY ServerNumbers DEF TInv, TypeOK

(* A stray is counted within its bound.                                     *)
LEMMA StrayTyped ==
    ASSUME TInv, NEW name \in ServerNames, Stray(name)
    PROVE  strays' \in [ServerNames -> 0..MaxStrays]
BY ConfigAssumption DEF TInv, TypeOK, Stray

(* What an exit and a server in use mean to the other machines.             *)
LEMMA OthersAlone ==
    ASSUME TInv, NEW m \in Machines,
           \/ Exit(m)
           \/ \E p : pc' = [pc EXCEPT ![m] = p] /\ UNCHANGED server_name
    PROVE  \A k \in Machines : k # m => pc'[k] = pc[k] /\ server_name'[k] = server_name[k]
BY ExitTyped DEF TInv, TypeOK

(* A process that starts keeps the invariant.                               *)
LEMMA StartKeeps ==
    ASSUME IInv, NEW m \in Machines, Start(m)
    PROVE  IInv'
<1>1. PICK own \in Environments[m] : server_name' = [server_name EXCEPT ![m] = own]
  BY DEF Start
<1>2. TInv /\ late \in [ServerNames -> Nat] /\ strays \in [ServerNames -> 0..MaxStrays]
  BY DEF IInv, TInv, TypeOK
<1>3. TInv'
  BY <1>1, <1>2, TurnTyped DEF Start, Goto
<1>4. /\ pc'[m] # "create"
      /\ \A k \in Machines : k # m => pc'[k] = pc[k] /\ server_name'[k] = server_name[k]
  BY <1>1, <1>2 DEF Start, Goto, TInv, TypeOK
<1>5. ASSUME NEW n \in ServerNames PROVE Counted(n)'
  BY <1>2, <1>4, Quiet DEF Start, IInv
<1> QED BY <1>3, <1>5 DEF IInv

(* Ending without a word, at any time.                                      *)
LEMMA ExitKeeps ==
    ASSUME IInv, NEW m \in Machines, Exit(m), pc[m] # "down",
           UNCHANGED <<servers, late, strays>>
    PROVE  IInv'
<1>1. TInv /\ TInv'
  BY OwnName, TurnTyped DEF IInv
<1>2. /\ pc'[m] # "create"
      /\ \A k \in Machines : k # m => pc'[k] = pc[k] /\ server_name'[k] = server_name[k]
  BY <1>1, ExitTyped
<1>3. ASSUME NEW n \in ServerNames PROVE Counted(n)'
  BY <1>1, <1>2, Quiet DEF IInv
<1> QED BY <1>1, <1>3 DEF IInv

(* Looking the server up keeps the invariant, whatever the list is like.    *)
LEMMA ListKeeps ==
    ASSUME IInv, NEW m \in Machines, ListServers(m)
    PROVE  IInv'
<1> DEFINE name == server_name[m]
<1>0. /\ pc[m] = "list" /\ pc[m] # "down" /\ servers' = servers /\ late' = late
      /\ TInv /\ TypeOK
  BY DEF ListServers, IInv, TInv
<1>1. CASE Exit(m) /\ strays' = strays
  BY <1>0, <1>1, ExitKeeps
<1>2. ASSUME NEW i \in Named(name), strays' = strays,
             server' = [server EXCEPT ![m] = i], Goto(m, "bind"), UNCHANGED server_name
      PROVE  IInv'
  <2>1. i \in DOMAIN servers' /\ servers'[i] = server_name[m]
    BY <1>0, <1>2 DEF Named
  <2>2. TInv'
    BY <1>0, <1>2, <2>1, OwnName, TurnTyped DEF Goto
  <2>3. pc'[m] # "create"
    BY <1>0, <1>2 DEF Goto, TypeOK
  <2>4. ASSUME NEW n \in ServerNames PROVE Counted(n)'
    <3>1. \A k \in Machines : k # m => pc'[k] = pc[k] /\ server_name'[k] = server_name[k]
      BY <1>0, <1>2, OthersAlone DEF Goto
    <3> QED BY <1>0, <1>2, <2>3, <3>1, Quiet DEF IInv
  <2> QED BY <2>2, <2>4 DEF IInv
<1>3. CASE /\ Goto(m, "create") /\ UNCHANGED <<server_name, server>>
           /\ (Named(name) = {} /\ strays' = strays) \/ Stray(name)
  <2>1. strays' \in [ServerNames -> 0..MaxStrays]
    BY <1>0, <1>3, OwnName, StrayTyped
  <2>2. \E n \in Environments[m] : server_name' = [server_name EXCEPT ![m] = n]
    <3>1. server_name' = [server_name EXCEPT ![m] = server_name[m]]
      BY <1>0, <1>3 DEF TypeOK
    <3> QED BY <1>0, <3>1, OwnName
  <2>3. TInv'
    BY <1>0, <1>3, <2>1, <2>2, OwnName, TurnTyped DEF Goto
  <2>4. ASSUME NEW n \in ServerNames PROVE Counted(n)'
    <3>1. CASE Named(name) = {} /\ strays' = strays
      BY <1>0, <1>3, <3>1, NoneListed DEF Goto, IInv
    <3>2. CASE Stray(name)
      BY <1>0, <1>3, <3>2, Overlooked DEF Goto, IInv
    <3> QED BY <1>3, <3>1, <3>2
  <2> QED BY <2>3, <2>4 DEF IInv
<1> QED BY <1>1, <1>2, <1>3 DEF ListServers, Use

(* So does creating it, whether it succeeds, fails, or is left under way.   *)
LEMMA CreateKeeps ==
    ASSUME IInv, NEW m \in Machines, CreateServer(m)
    PROVE  IInv'
<1> DEFINE name == server_name[m]
<1>0. pc[m] = "create" /\ pc[m] # "down" /\ TInv /\ TypeOK
  BY DEF CreateServer, IInv, TInv
<1>1. /\ name \in ServerNames /\ name \in Environments[m]
      /\ late \in [ServerNames -> Nat] /\ strays \in [ServerNames -> 0..MaxStrays]
  BY <1>0, OwnName
<1>2. CASE /\ Created(name) /\ UNCHANGED <<late, strays>>
           /\ server' = [server EXCEPT ![m] = Len(servers')]
           /\ Goto(m, "bind") /\ UNCHANGED server_name
  <2>1. Len(servers') \in DOMAIN servers' /\ servers'[Len(servers')] = server_name[m]
    BY <1>0, <1>1, <1>2, ServerAdded DEF Created
  <2>2. TInv'
    BY <1>0, <1>1, <1>2, <2>1, TurnTyped DEF Goto
  <2>3. /\ pc'[m] # "create"
        /\ \A k \in Machines : k # m => pc'[k] = pc[k] /\ server_name'[k] = server_name[k]
    BY <1>0, <1>2, OthersAlone DEF Goto, TypeOK
  <2>4. ASSUME NEW n \in ServerNames PROVE Counted(n)'
    BY <1>0, <1>2, <2>3, CreatedOne DEF IInv
  <2> QED BY <2>2, <2>4 DEF IInv
<1>3. CASE Created(name) /\ UNCHANGED <<late, strays>> /\ Exit(m)
  <2>1. TInv'
    BY <1>0, <1>1, <1>3, TurnTyped
  <2>2. /\ pc'[m] # "create"
        /\ \A k \in Machines : k # m => pc'[k] = pc[k] /\ server_name'[k] = server_name[k]
    BY <1>0, <1>3, ExitTyped
  <2>3. ASSUME NEW n \in ServerNames PROVE Counted(n)'
    BY <1>0, <1>3, <2>2, CreatedOne DEF IInv
  <2> QED BY <2>1, <2>3 DEF IInv
<1>4. CASE UNCHANGED <<servers, late, strays>> /\ Exit(m)
  BY <1>0, <1>4, ExitKeeps
<1>5. CASE /\ servers' = servers /\ late' = [late EXCEPT ![name] = @ + 1]
           /\ Stray(name) /\ Exit(m)
  <2>1. late' \in [ServerNames -> Nat]
    BY <1>1, <1>5
  <2>2. strays' \in [ServerNames -> 0..MaxStrays]
    BY <1>0, <1>1, <1>5, StrayTyped
  <2>3. TInv'
    BY <1>0, <1>5, <2>1, <2>2, TurnTyped
  <2>4. /\ pc'[m] # "create"
        /\ \A k \in Machines : k # m => pc'[k] = pc[k] /\ server_name'[k] = server_name[k]
    BY <1>0, <1>5, ExitTyped
  <2>5. ASSUME NEW n \in ServerNames PROVE Counted(n)'
    BY <1>0, <1>5, <2>4, LeftBehind DEF IInv
  <2> QED BY <2>3, <2>5 DEF IInv
<1> QED BY <1>2, <1>3, <1>4, <1>5 DEF CreateServer, Use

(* Listening changes nothing that is counted.                               *)
LEMMA ListenKeeps ==
    ASSUME IInv, NEW m \in Machines, Listen(m)
    PROVE  IInv'
<1>1. pc[m] = "bind" /\ pc[m] # "down" /\ TInv /\ TypeOK
  BY DEF Listen, IInv, TInv
<1>2. /\ server[m] \in DOMAIN servers' /\ servers'[server[m]] = server_name[m]
      /\ server' = [server EXCEPT ![m] = server[m]]
  BY <1>1 DEF Listen, TypeOK
<1>3. TInv'
  BY <1>1, <1>2, OwnName, TurnTyped DEF Listen, Goto
<1>4. /\ pc'[m] # "create"
      /\ \A k \in Machines : k # m => pc'[k] = pc[k] /\ server_name'[k] = server_name[k]
  BY <1>1 DEF Listen, Goto, TypeOK
<1>5. ASSUME NEW n \in ServerNames PROVE Counted(n)'
  BY <1>1, <1>4, Quiet DEF Listen, IInv
<1> QED BY <1>3, <1>5 DEF IInv

(* A late POST adds a server that was counted.                              *)
LEMMA LatePostKeeps ==
    ASSUME IInv, LatePost
    PROVE  IInv'
<1>1. PICK s \in ServerNames : late[s] > 0 /\ Created(s) /\ late' = [late EXCEPT ![s] = @ - 1]
  BY DEF LatePost
<1>2. TInv /\ UNCHANGED <<pc, server_name, server, strays>>
  BY DEF IInv, LatePost
<1>3. /\ servers' \in Seq(ServerNames) /\ Len(servers') <= MaxServers
      /\ ForeignStay'
      /\ DOMAIN servers \subseteq DOMAIN servers'
      /\ \A i \in DOMAIN servers : servers'[i] = servers[i]
  BY <1>1, <1>2, ServersTyped
<1>4. late' \in [ServerNames -> Nat]
  BY <1>1, <1>2 DEF TInv, TypeOK
<1>5. TInv'
  BY <1>2, <1>3, <1>4 DEF TInv, TypeOK
<1>6. ASSUME NEW n \in ServerNames PROVE Counted(n)'
  BY <1>1, <1>2, LatePostCounts DEF IInv
<1> QED BY <1>5, <1>6 DEF IInv

(* A project nobody has started a gateway on holds what it held.            *)
LEMMA InitCounted == Init => IInv
<1> SUFFICES ASSUME Init PROVE IInv
  OBVIOUS
<1>1. TypeOK
  BY ConfigAssumption DEF Init, TypeOK
<1>2. ForeignStay
  BY ConfigAssumption, LenProperties DEF Init, ForeignStay
<1>3. TInv
  BY <1>1, <1>2 DEF TInv
<1>4. ASSUME NEW n \in ServerNames PROVE Counted(n)
  <2>1. late[n] = 0 /\ Creators(n) = {} /\ Named(n) = Existing(n) /\ strays[n] = 0
    BY DEF Init, Creators, Named, Existing
  <2>2. /\ Cardinality(Creators(n)) = 0
        /\ Cardinality(Named(n)) \in Nat /\ Expected(n) \in Nat
    BY <1>3, <2>1, Countable, FS_EmptySet
  <2>3. Cardinality(Named(n)) <= Expected(n)
    <3>1. CASE Existing(n) # {}
      BY <2>1, <2>2, <3>1 DEF Expected
    <3>2. CASE Existing(n) = {}
      <4>1. Cardinality(Named(n)) = 0
        BY <2>1, <3>2, FS_EmptySet
      <4> QED BY <2>2, <4>1
    <3> QED BY <3>1, <3>2
  <2> QED BY <2>1, <2>2, <2>3 DEF Counted, LateCounted, Accounted
<1> QED BY <1>3, <1>4 DEF IInv

(* Every step keeps the inductive invariant.                                *)
LEMMA Inductive == IInv /\ [Next]_vars => IInv'
<1>1. ASSUME IInv, UNCHANGED vars PROVE IInv'
  <2>1. TInv'
    BY <1>1 DEF IInv, vars, TInv, TypeOK, ForeignStay
  <2>2. ASSUME NEW n \in ServerNames PROVE Counted(n)'
    BY <1>1 DEF IInv, vars, Counted, LateCounted, Accounted, Creators, Named,
                Expected, Existing, Starters
  <2> QED BY <2>1, <2>2 DEF IInv
<1>2. ASSUME IInv, NEW m \in Machines, Stop(m) PROVE IInv'
  BY <1>2, ExitKeeps DEF Stop
<1> QED BY <1>1, <1>2, StartKeeps, ListKeeps, CreateKeeps, ListenKeeps, LatePostKeeps DEF Next

(* The inductive invariant holds throughout.                                *)
LEMMA AlwaysCounted == Spec => []IInv
BY Inductive, InitCounted, PTL DEF Spec
-----------------------------------------------------------------------------
(* TypeOK: a gateway that is bound or up has a server there is, which       *)
(* carries the name of one of its machine's own configurations.             *)
THEOREM TypeCorrect == Spec => []TypeOK
<1>1. IInv => TypeOK
  BY DEF IInv, TInv
<1> QED BY <1>1, AlwaysCounted, PTL

(* OneServerPerStarter: bootstrap's lookup and its creation, with no lock   *)
(* between them, leave one server of a name for each machine started with   *)
(* it at most, and none if the project had one; every other one is a server *)
(* overlooked or a late POST.  For any number of machines, names, starts    *)
(* and faults.                                                              *)
THEOREM NoServerTooMany == Spec => []OneServerPerStarter
<1>1. ASSUME IInv, NEW n \in ServerNames
      PROVE  Cardinality(Named(n)) <= Expected(n) + strays[n]
  <2>1. /\ Cardinality(Named(n)) \in Nat /\ late[n] \in Nat /\ strays[n] \in Nat
        /\ Cardinality(Creators(n)) \in Nat /\ Expected(n) \in Nat
    BY <1>1, Countable DEF IInv
  <2>2. Cardinality(Named(n)) + late[n] + Cardinality(Creators(n))
          <= Expected(n) + strays[n]
    BY <1>1 DEF IInv, Counted, Accounted
  <2> QED BY <2>1, <2>2
<1>2. IInv => OneServerPerStarter
  BY <1>1 DEF OneServerPerStarter
<1> QED BY <1>2, AlwaysCounted, PTL
=============================================================================
