----------------------------- MODULE MCRegistry -----------------------------
(***************************************************************************)
(* A deployment with two clouds and one namespace, and directories of two  *)
(* to four entries: sound ones of each kind that has a check of its own,   *)
(* and ones that the load must refuse.                                     *)
(***************************************************************************)
EXTENDS Registry

Enum(values, required, default) ==
  [type |-> "enum", required |-> required, values |-> values, fromConfig |-> FALSE,
   glob |-> FALSE, default |-> default]

Free(type, required) ==
  [type |-> type, required |-> required, values |-> {}, fromConfig |-> FALSE,
   glob |-> FALSE, default |-> None]

Nothing == [p \in {} |-> None]
Select == [lead |-> "select", chained |-> FALSE, calls |-> {}, reads |-> {"pg_"},
           ctes |-> {}, binds |-> {}, slots |-> {}, marks |-> {}]
Word(w, slots, takes) ==
  [word |-> w, slots |-> slots, flag |-> takes, takes |-> takes, cap |-> FALSE]
Token(w, is) == [word |-> w, is |-> is]

Item(name, kind, surface, stem, params) ==
  [name |-> name, kind |-> kind, surface |-> surface, fields |-> PayloadField(kind),
   sql |-> Select, op |-> "", argv |-> <<>>, slots |-> {}, stem |-> stem,
   holes |-> <<>>, params |-> params, bounded |-> TRUE]

Cloud == Enum({"aws", "gcp"}, FALSE, "gcp")

Logs ==
  [Item("logs", "kubectl", "k8s:gcp", "k8s_",
     [cloud |-> Cloud,
      namespace |-> [Enum({}, FALSE, None) EXCEPT !.fromConfig = TRUE],
      container |-> Free("string", FALSE)]) EXCEPT
   !.holes = <<"cloud">>,
   !.argv = <<Word("logs", {}, FALSE), Word("-c", {}, TRUE), Word("$", {"container"}, FALSE),
              Word("-n", {}, TRUE), Word("$", {"namespace"}, FALSE)>>]

Key(op) ==
  [Item("key", "redis", "redis:read", "redis_",
     [cloud |-> Cloud, key |-> Free("key", TRUE)]) EXCEPT !.holes = <<"cloud">>, !.op = op]

Sizes == [Item("sizes", "sql", "db:read", "reader",
            [table |-> Free("identifier", TRUE)]) EXCEPT !.sql.binds = {"table"}]
Query == Item("query", "sqlfree", "db:read", "reader", [sql |-> Free("statement", TRUE)])
Rides == [Item("rides", "clickhouse", "analytics", "rides", Nothing) EXCEPT !.sql.reads = {"rides"}]
RidesQuery ==
  Item("rides_query", "clickhousefree", "analytics", "rides", [sql |-> Free("statement", TRUE)])
Shell == Item("shell", "shell", "shell:read", "local", [command |-> Free("statement", TRUE)])
Pods == [Item("search", "mcp", "logs", "logs_", [cloud |-> Cloud]) EXCEPT
          !.holes = <<"cloud">>, !.op = "search"]
Rate == [Item("rate", "promql", "metrics", "metrics", [window |-> Free("duration", TRUE)]) EXCEPT
          !.slots = {"window"}]
Disks == Item("disks", "gcpcompute", "cloud:gcp", "gcp", Nothing)

\* What the load must refuse.
BadDefault == [Key("get") EXCEPT !.params["cloud"].default = "moon", !.holes = <<>>, !.stem = "redis"]
BadTarget == [Key("get") EXCEPT !.params["cloud"].values = {"aws", "moon"}]
BadTool == [Pods EXCEPT !.op = "delete_index"]
NoDefault == [Logs EXCEPT !.params["cloud"].default = None]
Explain == [Logs EXCEPT !.name = "explain", !.argv[1].word = "explain"]

MCDirectories ==
  {<<Logs, Key("get"), Query, Shell>>, <<Sizes, Rides, RidesQuery, Rate>>,
   <<Pods, Disks>>, <<NoDefault, Sizes>>, <<Explain, Key("hget")>>,
   <<BadDefault, Rate>>, <<Logs, BadTarget>>, <<BadTool>>, <<Rate, Rate>>}

MCConnections(k8s) ==
  [k \in {"sql", "sqlfree", "redis", "kubectl", "promql", "mcp", "shell", "clickhouse",
          "clickhousefree", "gcpcompute"} |->
     CASE k \in {"sql", "sqlfree"} -> {<<"reader">>}
       [] k = "redis" -> {<<"redis_", "aws">>, <<"redis_", "gcp">>, <<"redis">>}
       [] k = "kubectl" -> k8s
       [] k = "promql" -> {<<"metrics">>}
       [] k = "mcp" -> {<<"logs_", "aws">>, <<"logs_", "gcp">>}
       [] k = "shell" -> {<<"local">>}
       [] k = "gcpcompute" -> {<<"gcp">>}
       [] OTHER -> {<<"rides">>}]
BothClouds == MCConnections({<<"k8s_", "aws">>, <<"k8s_", "gcp">>})

MCNamespaces == <<"apps">>

MCCallers ==
  {{"k8s:aws"}, {"k8s:gcp", "redis:read"}, {"db:read", "metrics"}, {"analytics", "logs"},
   {"shell:read", "cloud:gcp"}}

MCSupplies ==
  {Nothing, [cloud |-> "aws"], [cloud |-> "moon"], [key |-> "k"], [key |-> "k", cloud |-> "aws"],
   [container |-> "apps", cloud |-> "gcp"], [namespace |-> "apps"], [table |-> "k"],
   [window |-> "1h"], [window |-> "k"], [table |-> "a;b"]}
    \cup {[sql |-> q] : q \in {"select", "rows", "two"}}
    \cup {[command |-> c] : c \in {"get pods", "get secret", "delete", "info", "head", "post"}}

MCShapes ==
  [v \in {"aws", "gcp", "moon", "apps", "k", "a;b"} |-> {"string", "key", "identifier"}]
    @@ [v \in {"1h"} |-> {"string", "duration"}]
    @@ [v \in {"select", "rows", "two", "get pods", "get secret", "delete", "info", "head", "post"} |->
          {"string"}]

MCForbidden == {"a;b"}
MCPlain == {"aws", "gcp", "apps", "k"}

MCStatements ==
  [q \in {"select", "rows", "two"} |->
     CASE q = "rows" -> [Select EXCEPT !.reads = {"drivers"}]
       [] q = "two" -> [Select EXCEPT !.chained = TRUE]
       [] OTHER -> Select]

MCCommand(binary, args) ==
  [binary |-> binary, args |-> args, sql |-> Select, meta |-> FALSE]
MCCommands ==
  [c \in {"get pods", "get secret", "delete", "info", "head", "post"} |->
     CASE c = "get pods" -> MCCommand("kubectl", <<Token("get", "word"), Token("pods", "word")>>)
       [] c = "get secret" ->
            MCCommand("kubectl", <<Token("get", "word"), Token("secret", "word")>>)
       [] c = "delete" -> MCCommand("gcloud", <<Token("list", "word"), Token("delete", "word")>>)
       [] c = "info" -> MCCommand("redis-cli", <<Token("-h", "flag"), Token("info", "word")>>)
       [] c = "head" -> MCCommand("curl", <<Token("-X", "flag"), Token("HEAD", "word"),
                                            Token("http", "url")>>)
       [] OTHER -> MCCommand("curl", <<Token("-d", "body flag"), Token("http", "url")>>)]

MCMutatingTools == {"delete_index"}
=============================================================================
