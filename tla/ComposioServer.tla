--------------------------- MODULE ComposioServer ---------------------------
(***************************************************************************)
(* How a starting gateway comes by its Composio MCP server: it lists the   *)
(* project's servers, takes the first that carries its server name and     *)
(* otherwise creates one.  Two requests, no lock between them and nothing  *)
(* remembered from one start to the next.                                  *)
(*                                                                         *)
(* main binds the mock connectors' ports before it talks to Composio, so a *)
(* machine runs one such start at a time; whatever fails is fatal and the  *)
(* operator starts again, perhaps on another environment.  A server is its *)
(* name here: the lookup reads nothing else of it.                         *)
(* src/src/main.rs, src/src/config.rs, src/src/gateway/composio.rs.        *)
(***************************************************************************)
EXTENDS Naturals, Sequences, FiniteSets

CONSTANTS
    Machines,    \* where a gateway is run, all on one Composio project
    Environments, \* [Machines -> the server names it is started with there]
    ServerNames,
    Foreign,     \* the servers the project holds before the first start
    Faults,      \* which of FaultKinds can happen
    MaxServers,  \* bound on the servers the project ever has
    MaxStrays    \* bound on the strays of a name

\* composio_error  a request fails, before or after Composio acted on it
\* odd_reply       a list without "items", or a page without the servers of the
\*                 name, or a server without id or mcp_url
\* late_post       a POST of a process that is gone is served later
\* exit            the process ends: killed, or a later part of main fails
FaultKinds == {"composio_error", "odd_reply", "late_post", "exit"}
NoName == "none"

ASSUME ConfigAssumption ==
    /\ Environments \in [Machines -> SUBSET ServerNames]
    /\ MaxServers \in Nat /\ MaxStrays \in Nat
    /\ Foreign \in Seq(ServerNames) /\ Len(Foreign) <= MaxServers
    /\ Faults \subseteq FaultKinds
ASSUME MachineAssumption == IsFiniteSet(Machines)

VARIABLES
    servers,     \* the names of the project's MCP servers, in order of creation
    late,        \* by name, the POSTs under way from processes that are gone
    pc,          \* where each machine's gateway is in its start
    server_name, \* the name its ComposioConfig gives
    server,      \* the index of the server it got, 0 before
    strays       \* history: by name, servers overlooked and POSTs that were left

vars == <<servers, late, pc, server_name, server, strays>>

TypeOK ==
    /\ servers \in Seq(ServerNames) /\ Len(servers) <= MaxServers
    /\ late \in [ServerNames -> Nat]
    /\ pc \in [Machines -> {"down", "list", "create", "bind", "up"}]
    /\ server_name \in [Machines -> ServerNames \union {NoName}]
    /\ server \in [Machines -> 0..MaxServers]
    /\ strays \in [ServerNames -> 0..MaxStrays]
    /\ \A m \in Machines :
        /\ pc[m] # "down" => server_name[m] \in Environments[m]
        /\ pc[m] \in {"bind", "up"} =>
            server[m] \in DOMAIN servers /\ servers[server[m]] = server_name[m]
-----------------------------------------------------------------------------
Goto(m, label) == pc' = [pc EXCEPT ![m] = label]
Named(name) == {i \in DOMAIN servers : servers[i] = name}

Exit(m) ==
    /\ Goto(m, "down")
    /\ server' = [server EXCEPT ![m] = 0]
    /\ server_name' = [server_name EXCEPT ![m] = NoName]

\* parse_server: the process keeps the id, or exits over a server without one.
Use(m, i) ==
    \/ /\ server' = [server EXCEPT ![m] = i]
       /\ Goto(m, "bind")
       /\ UNCHANGED server_name
    \/ "odd_reply" \in Faults /\ Exit(m)

Stray(name) ==
    /\ strays[name] < MaxStrays
    /\ strays' = [strays EXCEPT ![name] = @ + 1]

Init ==
    /\ servers = Foreign
    /\ late = [n \in ServerNames |-> 0]
    /\ pc = [m \in Machines |-> "down"]
    /\ server_name = [m \in Machines |-> NoName]
    /\ server = [m \in Machines |-> 0]
    /\ strays = [n \in ServerNames |-> 0]

\* ComposioConfig::from_env, and the mocks' ports are this process's.
Start(m) ==
    /\ pc[m] = "down"
    /\ \E n \in Environments[m] : server_name' = [server_name EXCEPT ![m] = n]
    /\ Goto(m, "list")
    /\ UNCHANGED <<servers, late, server, strays>>

\* A slip: the lookup is dropped.
AlwaysCreate(m) ==
    /\ pc[m] = "list"
    /\ Goto(m, "create")
    /\ UNCHANGED <<servers, late, server_name, server, strays>>
\* A slip: a zero-based position is kept for the server.
TakePosition(m) ==
    /\ pc[m] = "list"
    /\ IF Named(server_name[m]) # {}
          THEN \E i \in Named(server_name[m]) : Use(m, i - 1)
          ELSE Goto(m, "create") /\ UNCHANGED <<server_name, server>>
    /\ UNCHANGED <<servers, late, strays>>

\* GET /mcp/servers, in an order that is Composio's: `find` compares names and
\* nothing else.  Only one page is read, so that a server may be overlooked.
ListServers(m) ==
    LET ours == Named(server_name[m]) IN
    /\ pc[m] = "list"
    /\ \/ \E i \in ours : Use(m, i) /\ UNCHANGED strays
       \/ ours = {} /\ Goto(m, "create") /\ UNCHANGED <<server_name, server, strays>>
       \/ /\ "odd_reply" \in Faults /\ ours # {}
          /\ Stray(server_name[m])
          /\ Goto(m, "create")
          /\ UNCHANGED <<server_name, server>>
       \/ "composio_error" \in Faults /\ Exit(m) /\ UNCHANGED strays
    /\ UNCHANGED <<servers, late>>

Room == Len(servers) < MaxServers
Created(name) == Room /\ servers' = Append(servers, name)

\* POST /mcp/servers.  Composio may have created the server when the request
\* fails here, or do so after the process is gone.
CreateServer(m) ==
    /\ pc[m] = "create"
    /\ \/ /\ Created(server_name[m])
          /\ Use(m, Len(servers'))
          /\ UNCHANGED <<late, strays>>
       \/ /\ "composio_error" \in Faults
          /\ Exit(m)
          /\ UNCHANGED servers \/ Created(server_name[m])
          /\ UNCHANGED <<late, strays>>
       \/ /\ "late_post" \in Faults
          /\ Exit(m)
          /\ late' = [late EXCEPT ![server_name[m]] = @ + 1]
          /\ Stray(server_name[m])
          /\ UNCHANGED servers

\* The database, the policy file and the two listeners come after bootstrap.
Listen(m) ==
    /\ pc[m] = "bind"
    /\ Goto(m, "up")
    /\ UNCHANGED <<servers, late, server_name, server, strays>>

Stop(m) ==
    /\ "exit" \in Faults /\ pc[m] # "down"
    /\ Exit(m)
    /\ UNCHANGED <<servers, late, strays>>

LatePost ==
    /\ \E n \in ServerNames :
        /\ late[n] > 0
        /\ Created(n)
        /\ late' = [late EXCEPT ![n] = @ - 1]
    /\ UNCHANGED <<pc, server_name, server, strays>>

Next ==
    \/ \E m \in Machines :
        Start(m) \/ ListServers(m) \/ CreateServer(m) \/ Listen(m) \/ Stop(m)
    \/ LatePost

Spec == Init /\ [][Next]_vars
-----------------------------------------------------------------------------
\* The servers a name may come to have: the ones there were, or else one for
\* every machine that is started with it.
Existing(name) == {i \in DOMAIN Foreign : Foreign[i] = name}
Starters(name) == {m \in Machines : name \in Environments[m]}
Expected(name) == Cardinality(IF Existing(name) # {} THEN Existing(name) ELSE Starters(name))

(* "One shared MCP server per toolkit, created once at boot" (README.md):   *)
(* however often a machine is started and wherever a start broke off, it    *)
(* adds one server of a name at most, and none if the project had one; what *)
(* there is beyond that, a server overlooked in the list or a late POST     *)
(* accounts for.                                                            *)
OneServerPerStarter ==
    \A n \in ServerNames : Cardinality(Named(n)) <= Expected(n) + strays[n]
=============================================================================
