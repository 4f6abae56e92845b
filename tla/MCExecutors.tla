---------------------------- MODULE MCExecutors ----------------------------
(***************************************************************************)
(* What a call goes through, each component by itself with the others as   *)
(* they are when they begin: the gateway that selects it, the registry,    *)
(* the door to the executors with its cache, the sessions of an MCP server,*)
(* a Postgres pool, processes, and the credentials of the clouds.          *)
(***************************************************************************)
EXTENDS MCRegistry, Dispatch, Mcp, Pool, Commands, Credentials, Gateway, TLC

CONSTANTS c1, c2, c3, d1, d2, d3, k1, phone, head, tail, search, wipe

\* The calls of Dispatch and of Pool are interchangeable, and those of Commands, of Credentials
\* and of one entry of Mcp.
CallSymmetry == Permutations({c1, c2, c3}) \cup Permutations({d1, d2})

\* An entry that is declared under four names, one of which says that it mutates, and one that
\* is declared under such a name only.
MCDeclared == (search :> <<"q", "query", "range", "q_delete">>) @@ (wipe :> <<"delete">>)
MCEntryOf == (d1 :> search) @@ (d2 :> search) @@ (d3 :> wipe)
MCToolSets == {{"q", "query"}, {"range", "query_delete"}, {"q_delete"}}
MCUnset == -1
MCTorn == -1
MCBeginnings == {{phone, head}}

-----------------------------------------------------------------------------
VARIABLE part   \* the component that moves

Waiting ==
  /\ now = 0 /\ cache = [k \in Keys |-> NoEntry]
  /\ call = [c \in Calls |-> [pc |-> "done", key |-> CHOOSE k \in Keys : TRUE, needle |-> NoNeedle,
                              granted |-> FALSE, since |-> 0, reply |-> Failure({})]]

\* One call at least has no filter, those that have one have the same, and what is not granted
\* needs none: it is refused whatever it asks for.  Nobody filters for the last line of the
\* secret: the first stands for both.
Begun ==
  /\ Init /\ \A c \in Calls : call[c].needle # tail
  /\ \E c \in Calls : call[c].needle = NoNeedle
  /\ \E n \in {phone, head} : \A c \in Calls : call[c].needle \in {n, NoNeedle}
  /\ \A c \in Calls : call[c].granted \/ call[c].needle = NoNeedle

Unstarted == server = "down" /\ directory = <<>> /\ registry = <<>> /\ ran = {}

ExecutorsInit ==
  /\ part \in {"registry", "dispatch", "mcp", "pool", "commands", "credentials", "gateway"}
  /\ IF part = "dispatch" THEN Begun ELSE Waiting
  /\ IF part = "registry" THEN RegistryInit ELSE Unstarted
  /\ McpInit /\ (part # "mcp" => mcp.sessional /\ mcp.tools = {"q", "query"})
  /\ PoolInit /\ (part # "pool" => db = [is |-> "up", changes |-> 0])
  /\ CommandsInit /\ GatewayInit
  /\ CredentialsInit /\ (part # "credentials" => static = {})

\* What every component but p leaves alone.
Others(p) ==
  /\ UNCHANGED part
  /\ (p # "registry" => UNCHANGED rvars) /\ (p # "dispatch" => UNCHANGED vars)
  /\ (p # "mcp" => UNCHANGED mvars) /\ (p # "pool" => UNCHANGED pvars)
  /\ (p # "commands" => UNCHANGED cmdVars) /\ (p # "credentials" => UNCHANGED credVars)
  /\ (p # "gateway" => UNCHANGED gridVars)

ExecutorsNext ==
  \/ part = "registry" /\ RegistryNext /\ Others("registry")
  \/ part = "dispatch" /\ Next /\ Others("dispatch")
  \/ part = "mcp" /\ McpNext /\ Others("mcp")
  \/ part = "pool" /\ PoolNext /\ Others("pool")
  \/ part = "commands" /\ CommandsNext /\ Others("commands")
  \/ part = "credentials" /\ CredentialsNext /\ Others("credentials")
  \/ part = "gateway" /\ GatewayNext /\ Others("gateway")

executorsVars == <<part, rvars, vars, mvars, pvars, cmdVars, credVars, gridVars>>

ExecutorsSpec == ExecutorsInit /\ [][ExecutorsNext]_executorsVars
=============================================================================
