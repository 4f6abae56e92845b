------------------------------ MODULE Registry ------------------------------
(***************************************************************************)
(* The catalogue of what can be run (app/registry/): a directory of YAML   *)
(* that is loaded and checked as a whole, once, when the process first     *)
(* asks for it; what of it a caller is offered; and what becomes of a      *)
(* call: its parameters, its grant, its connection, and the executor's own *)
(* look at it.                                                             *)
(*                                                                         *)
(* An item of the directory is a record                                    *)
(*   [name, kind, surface, fields, sql, op, argv, slots, stem, holes,      *)
(*    params, bounded]                                                     *)
(* fields being the payload fields that are set, sql, op and argv their    *)
(* contents, slots the $ slots of the payload, stem and holes the target   *)
(* template, and bounded whether timeout_s and row_limit are in range.     *)
(* A connection's name is its stem followed by the values in its holes.    *)
(***************************************************************************)
EXTENDS Acceptors

CONSTANTS
  Directories,    \* bound: what the directory may hold, a sequence of items
  Connections,    \* the names of the connections that config declares, by kind
  Namespaces,     \* config.NAMESPACES
  Callers,        \* bound: sets of surfaces
  Supplies,       \* bound: the parameters that a model sends
  Shapes,         \* for each value, the types whose shape it has
  Forbidden,      \* values with a character that no parameter may hold
  Plain,          \* values that are names and nothing else
  Statements,     \* what a value that is a statement says
  Commands,       \* what a value that is a command says
  MutatingTools   \* names of MCP tools that look mutating

\* Python's None, of a value and of a surface.
None == "none"

ASSUME RegistryAssumption ==
  /\ Plain \cap Forbidden = {}
  /\ \A dir \in Directories : dir # <<>>
  /\ \A surfaces \in Callers : None \notin surfaces

VARIABLES
  server,       \* "down" or "up"
  directory,    \* what the YAML says now
  registry,     \* _REGISTRY: the entries of the process, <<>> until loaded
  ran           \* history: the last call that reached a backend, as a set

rvars == <<server, directory, registry, ran>>

-----------------------------------------------------------------------------
(* Parameters (schema.ParamSpec).  A specification is                      *)
(* [type, required, values, fromConfig, glob, default].                    *)

Accepts(spec, value) ==
  CASE value = None -> ~spec.required
    [] spec.type = "int" -> "int" \in Shapes[value]
    [] spec.type = "statement" -> TRUE
    [] spec.type = "enum" -> value \notin Forbidden /\ value \in spec.values
    [] OTHER -> value \notin Forbidden /\ spec.type \in Shapes[value]

Given(supplied, p) == IF p \in DOMAIN supplied THEN supplied[p] ELSE None

ParamsAccepted(e, supplied) ==
  /\ DOMAIN supplied \subseteq DOMAIN e.params
  /\ \A p \in DOMAIN e.params : Accepts(e.params[p], Given(supplied, p))

\* What was not sent takes the default, as it is written.
Validated(e, supplied) ==
  [p \in DOMAIN e.params |->
     IF Given(supplied, p) = None THEN e.params[p].default ELSE supplied[p]]

-----------------------------------------------------------------------------
(* The checks of a load (loader.py).                                       *)

PayloadField(kind) ==
  CASE kind \in {"sql", "clickhouse"} -> {"sql"}
    [] kind = "redis" -> {"redis_op"}
    [] kind = "kubectl" -> {"argv"}
    [] kind = "promql" -> {"promql"}
    [] kind = "mcp" -> {"mcp_tool"}
    [] kind \in {"gcpmetric", "gcpcompute", "awsmetric", "vmmeta", "gcpinsights", "code"} ->
         {"metric"}
    [] OTHER -> {}

SurfacesOf(kind) ==
  CASE kind = "sql" -> {"db:read", "db:entity"}
    [] kind = "sqlfree" -> {"db:read"}
    [] kind = "redis" -> {"redis:read"}
    [] kind = "kubectl" -> {"k8s:gcp", "k8s:aws"}
    [] kind \in {"promql", "vmmeta"} -> {"metrics"}
    [] kind \in {"clickhouse", "clickhousefree"} -> {"analytics"}
    [] kind \in {"awsmetric", "awselasticache"} -> {"cloud:aws"}
    [] kind = "mcp" -> {"logs", "metrics"}
    [] kind = "shell" -> {"shell:read"}
    [] kind = "code" -> {"code"}
    [] OTHER -> {"cloud:gcp"}

IsChoice(e, p) ==
  p \in DOMAIN e.params /\ e.params[p].type = "enum" /\ e.params[p].values # {}

\* _inject_namespaces: the placeholder becomes what the deployment configured.
Injected(e) ==
  IF "namespace" \in DOMAIN e.params /\ e.params["namespace"].fromConfig
  THEN [e EXCEPT !.params["namespace"].values = ToSet(Namespaces),
                 !.params["namespace"].default =
                    IF Namespaces = <<>> THEN None ELSE Namespaces[1]]
  ELSE e

Target(e, values) == <<e.stem>> \o [i \in DOMAIN e.holes |-> values[e.holes[i]]]

\* _expand_target: every combination of the choices.
Expansions(e) ==
  {Target(e, f) : f \in
    {f \in [ToSet(e.holes) -> UNION {e.params[p].values : p \in ToSet(e.holes)}] :
       \A p \in ToSet(e.holes) : f[p] \in e.params[p].values}}

TargetsAreKnown(e) ==
  /\ \A p \in ToSet(e.holes) : IsChoice(e, p)
  /\ Expansions(e) \subseteq Connections[e.kind]

SlotsAreDeclared(e) ==
  /\ e.slots \subseteq DOMAIN e.params
  /\ e.kind \in {"sql", "clickhouse"} => e.sql.binds \subseteq DOMAIN e.params /\ e.sql.slots = {}
  /\ e.kind = "kubectl" => \A i \in DOMAIN e.argv : e.argv[i].slots \subseteq DOMAIN e.params

ParamsAreSound(e) ==
  \A p \in DOMAIN e.params :
    LET spec == e.params[p] IN
    /\ spec.type = "enum" => spec.values # {}
    /\ ~(spec.type = "key" /\ spec.glob)
    /\ spec.default # None => Accepts(spec, spec.default)

\* _check_entry and _check_surface.
EntryIsSound(e) ==
  /\ e.fields = PayloadField(e.kind)
  /\ Gate(e, MutatingTools)
  /\ e.surface \in SurfacesOf(e.kind)
  /\ e.kind \in {"kubectl", "mcp"} => IsChoice(e, "cloud")
  /\ TargetsAreKnown(e)
  /\ SlotsAreDeclared(e)
  /\ e.bounded
  /\ ParamsAreSound(e)

\* load_registry, and the constructor, which refuses a name that comes twice.
LoadedFrom(dir) == [i \in DOMAIN dir |-> Injected(dir[i])]

Loads(dir) ==
  LET entries == LoadedFrom(dir) IN
  /\ \A i \in DOMAIN entries : EntryIsSound(entries[i])
  /\ \A i, j \in DOMAIN entries : entries[i].name = entries[j].name => i = j

-----------------------------------------------------------------------------
RegistryInit ==
  /\ server = "down"
  /\ directory \in Directories
  /\ registry = <<>>
  /\ ran = {}

\* lifespan: the storage is opened, and the routes are served.
Start ==
  /\ server = "down"
  /\ server' = "up"
  /\ registry' = <<>>
  /\ UNCHANGED <<directory, ran>>

\* The process ends, and with it what it had loaded.
Stop ==
  /\ server = "up"
  /\ server' = "down"
  /\ registry' = <<>>
  /\ UNCHANGED <<directory, ran>>

\* An operator puts another directory in place, of a running pod too.
Edit ==
  /\ directory' \in Directories \ {directory}
  /\ UNCHANGED <<server, registry, ran>>

\* get_registry, which a question calls, and nothing before: what was loaded stays until the
\* process ends, and a load that fails is not remembered.
GetRegistry ==
  IF registry = <<>> /\ Loads(directory) THEN LoadedFrom(directory) ELSE registry

\* _answer: the registry, and what of it the model is shown.
Ask ==
  /\ server = "up"
  /\ registry' = GetRegistry
  /\ UNCHANGED <<server, directory, ran>>

\* A mutant of Offered: by the surface that the entry is written with.
OfferedAsWritten(surfaces) == {e \in ToSet(registry) : e.surface \in surfaces}

\* entries_for_surfaces: a kubectl entry is offered for either of its grants.
Offered(surfaces) ==
  {e \in ToSet(registry) :
     IF e.kind = "kubectl" THEN surfaces \cap {"k8s:gcp", "k8s:aws"} # {}
     ELSE e.surface \in surfaces}

\* required_surface: of a kubectl call, the one of its cloud; None if it names neither.
RequiredSurface(e, values) ==
  IF e.kind # "kubectl" THEN e.surface
  ELSE CASE values["cloud"] = "aws" -> "k8s:aws"
         [] values["cloud"] = "gcp" -> "k8s:gcp"
         [] OTHER -> None

\* resolve_target fails if a hole of the template has no value.
Resolves(e, values) ==
  /\ \A p \in ToSet(e.holes) : values[p] # None
  /\ Target(e, values) \in Connections[e.kind]

\* What the executor of its kind makes of a call before it sends anything.
ExecutorAccepts(e, values) ==
  LET given == {p \in DOMAIN values : values[p] # None}
      plain == {p \in given : values[p] \in Plain}
  IN CASE e.kind = "sql" -> PgAccepts(e.sql, FALSE)
       [] e.kind = "sqlfree" ->
            "sql" \in given /\ PgAccepts(Statements[values["sql"]], TRUE)
       [] e.kind = "clickhouse" -> ClickHouseAccepts(e.sql, given)
       [] e.kind = "clickhousefree" ->
            "sql" \in given /\ ClickHouseAccepts(Statements[values["sql"]], given)
       [] e.kind = "redis" -> RedisAccepts(e.op, given, plain)
       [] e.kind = "kubectl" ->
            /\ KubectlAccepts(e.argv, given, plain)
            /\ "namespace" \in given => values["namespace"] \in ToSet(Namespaces)
       [] e.kind = "shell" ->
            "command" \in given /\ ShellAccepts(Commands[values["command"]])
       [] OTHER -> TRUE

\* dispatch, for a call that a model makes: each of the checks, and then the run.
Call ==
  \E surfaces \in Callers, supplied \in Supplies, e \in ToSet(registry) :
    LET values == Validated(e, supplied) IN
    /\ server = "up"
    /\ ParamsAccepted(e, supplied)
    /\ RequiredSurface(e, values) \in surfaces
    /\ Resolves(e, values)
    /\ ExecutorAccepts(e, values)
    /\ ran' = {[entry |-> e, values |-> values, target |-> Target(e, values),
                surfaces |-> surfaces]}
    /\ UNCHANGED <<server, directory, registry>>

RegistryNext == Start \/ Stop \/ Edit \/ Ask \/ Call

RegistrySpec == RegistryInit /\ [][RegistryNext]_rvars

-----------------------------------------------------------------------------
(* What a call that ran went through.                                      *)

\* A backend sees only what was declared: the connection is one that config names, each
\* value is one its parameter accepts, the default of a parameter that was not sent
\* included, and each flag of an argv that takes a value is followed by it, whatever
\* optional parameters were left out (loader.py:12-20, k8s.py:220-233).
RunsAreDeclared ==
  \A c \in ran :
    /\ c.target \in Connections[c.entry.kind]
    /\ \A p \in DOMAIN c.values :
         c.values[p] # None => Accepts(c.entry.params[p], c.values[p])
    /\ c.entry.kind = "kubectl" =>
         LET argv == Rendered(c.entry.argv, {p \in DOMAIN c.values : c.values[p] # None})
         IN \A i \in DOMAIN argv : argv[i].takes => i < Len(argv) /\ ~argv[i + 1].flag

\* The two places that ask for a grant agree: what dispatch lets a caller run is what
\* entries_for_surfaces shows that caller, for the entries whose grant depends on their
\* parameters too (loader.py:349-367, dispatch.py:194-197).
RunsWereOffered ==
  \A c \in ran : c.entry \in ToSet(registry) => c.entry \in Offered(c.surfaces)

\* What an entry of a directory lets a caller run is no more than it declares and shows.
RunsAreCovered == RunsAreDeclared /\ RunsWereOffered
=============================================================================
