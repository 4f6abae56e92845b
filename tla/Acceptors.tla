----------------------------- MODULE Acceptors -----------------------------
(***************************************************************************)
(* What is let through: by the gate that runs when the registry is loaded  *)
(* (app/registry/readonly.py), and by the executors, each of which looks   *)
(* again at what it is about to send.                                      *)
(*                                                                         *)
(* A statement is what the guards tell apart in it:                        *)
(*   [lead, chained, calls, reads, ctes, binds, slots, marks]              *)
(* its first word, whether another statement follows, the functions it     *)
(* calls, the relations it names and those it defines, its bind            *)
(* parameters, its $ slots, and which of "readonly" (= ...) and "format"   *)
(* it carries.  The scans for a denied first verb are left out: an allowed *)
(* first word is never a denied one, and a second statement is refused     *)
(* whatever it begins with.                                                *)
(*                                                                         *)
(* An argv is a sequence of tokens.  A registry's token is [word, slots,   *)
(* flag, takes, cap]: flag if it starts with - and holds no =, takes if a  *)
(* value comes after it, cap if it is over a cap or follows a stream.      *)
(* A command's token is [word, is], is being "word", "url", "file",        *)
(* "flag", "body flag" or "denied flag".                                   *)
(***************************************************************************)
EXTENDS SequencesExt

-----------------------------------------------------------------------------
(* The gate.                                                               *)

SqlLeads == {"select", "with", "explain", "show", "table", "describe"}

\* SQL_DENIED_FUNCTIONS and CLICKHOUSE_DENIED_FUNCTIONS, of which one stands for all.
SqlFunctions == {"pg_terminate_backend"}
ClickHouseFunctions == {"url", "into outfile"}

GateSql(st) == st.lead \in SqlLeads /\ ~st.chained /\ st.calls \cap SqlFunctions = {}

RedisReads ==
  {"get", "mget", "ttl", "pttl", "exists", "type", "strlen", "hget", "hgetall",
   "hkeys", "hlen", "smembers", "scard", "sismember", "llen", "lrange", "zcard",
   "zscore", "memory_usage", "dbsize", "info", "object_encoding", "slowlog", "latency"}

KubectlReads ==
  {"get", "list", "describe", "logs", "top", "events", "version", "explain",
   "api-resources"}

CredentialResources == {"secret", "configmap", "serviceaccount"}

\* INHERENTLY_READ_KINDS, and code, gcpinsights and vmmeta beside them.
ReadKinds ==
  {"promql", "gcpmetric", "gcpalloydb", "gcpmetricsearch", "gcpmetricquery",
   "gcpcompute", "awsmetric", "awselasticache", "code", "gcpinsights", "vmmeta"}

\* assert_read_only.  MutatingTools are the tool names that MCP_FORBIDDEN matches.
Gate(e, MutatingTools) ==
  \/ e.kind \in ReadKinds
  \/ e.kind = "sql" /\ GateSql(e.sql)
  \/ e.kind = "clickhouse" /\ GateSql(e.sql) /\ e.sql.calls \cap ClickHouseFunctions = {}
  \/ e.kind \in {"sqlfree", "clickhousefree"}
     /\ "sql" \in DOMAIN e.params /\ "sql" \notin e.fields
  \/ e.kind = "redis" /\ e.op \in RedisReads
  \/ e.kind = "kubectl" /\ e.argv # <<>> /\ e.argv[1].word \in KubectlReads
     /\ \A i \in DOMAIN e.argv : e.argv[i].word \notin CredentialResources
  \/ e.kind = "mcp" /\ e.op \notin MutatingTools
  \/ e.kind = "shell" /\ e.surface = "shell:read"

-----------------------------------------------------------------------------
(* The executors.                                                          *)

\* pg.assert_read_only, and assert_catalogue_only for a statement that the model wrote.
PgAccepts(st, free) ==
  /\ st.lead \in {"select", "with", "table", "explain"}
  /\ ~st.chained
  /\ free => st.reads \subseteq st.ctes \cup {"pg_", "information_schema."}

\* clickhouse.assert_read_only, and the binds and slots that run looks at.
ClickHouseAccepts(st, given) ==
  /\ st.lead \in {"select", "with", "show", "describe", "desc", "explain"}
  /\ ~st.chained
  /\ st.calls \cap ClickHouseFunctions = {}
  /\ st.marks = {}
  /\ st.binds \subseteq given /\ st.slots = {}

RedisOps ==
  {"exists", "ttl", "get", "type", "smembers", "hgetall", "scard", "llen",
   "memory_usage", "info"}

\* _check_op and _bind: every operation but info needs a key that is no pattern.
\* plain are the parameters whose values hold nothing special.
RedisAccepts(op, given, plain) ==
  op \in RedisOps /\ (IF op = "info" THEN "section" \in given ELSE "key" \in given \cap plain)

\* build_argv: an element whose slot was not given is dropped, and so is the flag
\* before it, which would be left without its value.
Put(out, x, given) ==
  IF x.slots \subseteq given THEN Append(out, x)
  ELSE IF out # <<>> /\ Last(out).flag THEN Front(out) ELSE out

Rendered(argv, given) ==
  LET upTo[i \in 0..Len(argv)] == IF i = 0 THEN <<>> ELSE Put(upTo[i - 1], argv[i], given)
  IN upTo[Len(argv)]

KubectlVerbs == {"get", "list", "describe", "logs", "top", "events", "version"}

\* build_argv and _enforce_caps.  plain are the values that look like object names.
KubectlAccepts(argv, given, plain) ==
  /\ argv[1].word \in KubectlVerbs
  /\ \A i \in DOMAIN Rendered(argv, given) :
       LET x == Rendered(argv, given)[i] IN x.slots \subseteq plain /\ ~x.cap

-----------------------------------------------------------------------------
(* The guard of composed commands (app/shell/guard.py).                    *)

ShellKubectl ==
  {"get", "describe", "logs", "top", "events", "version", "explain", "api-resources"}
ShellRedis ==
  (RedisReads \ {"zscore", "memory_usage", "object_encoding"})
    \cup {"zrange", "memory", "object", "client", "config"}

IsWord(t) == t.is \in {"word", "url", "file"}
Words(args) == SelectSeq(args, IsWord)

\* One word stands for the words a prefix matches: describe- for describe-instances.
AwsReads == {"describe-", "list-", "get-", "lookup-", "search-", "scan-", "ls", "help"}
GcloudReads == {"describe", "list", "info", "version", "help", "read", "get-"}
GcloudWrites == {"create", "delete", "update"}
GsutilReads == {"ls", "du", "stat", "hash", "version", "help"}
BqReads == {"ls", "show", "head", "version", "help"}

FirstIs(ws, S) == ws # <<>> /\ ws[1].word \in S

\* The resource is the argument that comes after the verb.
ShellKubectlAccepts(args) ==
  LET verb == SelectInSeq(args, IsWord) IN
  /\ verb > 0 /\ args[verb].word \in ShellKubectl
  /\ \A i \in DOMAIN args : args[i].is # "denied flag"
  /\ verb < Len(args) => args[verb + 1].word \notin CredentialResources

ShellRedisAccepts(args) ==
  LET ws == Words(args)
      cmd == SelectInSeq(ws, LAMBDA t : t.word \in ShellRedis)
  IN /\ cmd > 0
     /\ cmd < Len(ws) =>
          <<ws[cmd].word, ws[cmd + 1].word>>
            \notin {<<"config", "set">>, <<"client", "kill">>, <<"config", "rewrite">>}

ShellGcloudAccepts(args) ==
  LET ws == {Words(args)[i].word : i \in DOMAIN Words(args)}
  IN ws \cap GcloudReads # {} /\ ws \cap GcloudWrites = {}

ShellCurlAccepts(args) ==
  /\ \A i \in DOMAIN args :
       /\ args[i].is \notin {"body flag", "file"}
       /\ args[i].word = "-X" => i < Len(args) /\ args[i + 1].word \in {"GET", "HEAD"}
  /\ \E i \in DOMAIN args : args[i].is = "url"

\* psql takes its statement after -c; the statement alone may hold a shell character.
ShellPsqlAccepts(args, st) ==
  /\ \E i \in 1..(Len(args) - 1) : args[i].word = "-c"
  /\ st.lead \in SqlLeads \ {"describe"} /\ ~st.chained

\* check.  A command is [binary, args, sql, meta].
ShellAccepts(cmd) ==
  /\ ~cmd.meta
  /\ \/ cmd.binary = "kubectl" /\ ShellKubectlAccepts(cmd.args)
     \/ cmd.binary = "redis-cli" /\ ShellRedisAccepts(cmd.args)
     \/ cmd.binary = "psql" /\ ShellPsqlAccepts(cmd.args, cmd.sql)
     \/ cmd.binary = "aws" /\ Len(Words(cmd.args)) > 1 /\ Words(cmd.args)[2].word \in AwsReads
     \/ cmd.binary = "gcloud" /\ ShellGcloudAccepts(cmd.args)
     \/ cmd.binary = "gsutil" /\ FirstIs(Words(cmd.args), GsutilReads)
     \/ cmd.binary = "bq" /\ FirstIs(Words(cmd.args), BqReads)
     \/ cmd.binary = "curl" /\ ShellCurlAccepts(cmd.args)
=============================================================================
