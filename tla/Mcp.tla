-------------------------------- MODULE Mcp --------------------------------
(***************************************************************************)
(* Tool calls to an MCP server (app/executors/mcpapi.py).  The process     *)
(* keeps, for its life, the session of each connection and the name under  *)
(* which a server has an entry's tool, once a call has failed for its name.*)
(* The server restarts, forgets its sessions and renames its tools.        *)
(*                                                                         *)
(* One connection; a request and its answer are one step.  A session is 0  *)
(* where the server has none, the server's life that gave it where it has  *)
(* sessions, and Unset before the handshake.  Of the message of an error   *)
(* the model has whether _UNKNOWN_TOOL_RE matches it, which may be so of   *)
(* any error, and not be so of a tool that is missing.                     *)
(***************************************************************************)
EXTENDS Integers, SequencesExt

CONSTANTS
  McpCalls,       \* bound: the calls
  Entries,        \* registry entries of kind mcp
  Declared,       \* of each, mcp_tool followed by mcp_tool_aliases
  EntryOf,        \* the entry that a call is of
  Mutating,       \* tool names that DENY_PATTERN matches
  ToolSets,       \* bound: the tools that the server may have
  MaxUpgrades,    \* bound: restarts of the server
  MaxLives,       \* bound: lives of the process
  Unset, NoTool

\* An entry has a mcp_tool, and every call is of an entry.
ASSUME McpAssumption ==
  /\ Declared \in [Entries -> Seq(STRING \ {NoTool}) \ {<<>>}]
  /\ EntryOf \in [McpCalls -> Entries]
  /\ Unset = -1 /\ NoTool \notin UNION ToolSets

VARIABLES
  mcp,       \* the server: [up, life, sessional, tools]
  kept,      \* of the process: [life, session, tool]
  mcall,     \* the calls: [pc, doing, tool, session, began, first, error]
  executed   \* history: the tools that the server ran for each call

mvars == <<mcp, kept, mcall, executed>>

Names(e) == ToSet(Declared[e])
Forgotten(life) == [life |-> life, session |-> Unset, tool |-> [e \in Entries |-> NoTool]]

McpInit ==
  /\ mcp \in [up : {TRUE}, life : {1}, sessional : BOOLEAN, tools : ToolSets]
  /\ kept = Forgotten(1)
  /\ mcall = [c \in McpCalls |-> [pc |-> "new", doing |-> "call", tool |-> NoTool, session |-> Unset,
                                   began |-> 0, first |-> FALSE, error |-> "none"]]
  /\ executed = [c \in McpCalls |-> <<>>]

SessionHolds(c) == mcp.sessional => mcall[c].session = mcp.life

\* _rpc: the session is looked up as a request is built, after a handshake if there is none.
Asks(c, doing, tool, error) ==
  mcall' = [mcall EXCEPT
    ![c].pc = IF kept.session = Unset THEN "handshake" ELSE "send", ![c].doing = doing,
    ![c].tool = tool, ![c].session = kept.session, ![c].error = error]

Over(c, pc, error) == mcall' = [mcall EXCEPT ![c].pc = pc, ![c].error = error]

\* Mutant of Raises: the name that was found is not compared with the one that has failed.
RaisesSameName(c, error) ==
  LET alias == kept.tool[EntryOf[c]] IN
  \/ mcall[c].doing # "list" /\ Over(c, "failed", error)
  \/ /\ mcall[c].doing = "call" /\ Len(Declared[EntryOf[c]]) > 1
     /\ \/ alias = NoTool /\ Asks(c, "list", mcall[c].tool, error)
        \/ alias # NoTool /\ Asks(c, "retry", alias, error)
  \/ mcall[c].doing = "list" /\ Over(c, "failed", "unlisted")

\* An ExecutorError, from the handshake or from the request.  If it is of the first tools/call
\* and its message matches, the call is made once more under what _alias_for finds, which begins
\* with what is kept: if that is the name that has just failed, the failure stands.
Raises(c, error) ==
  LET alias == kept.tool[EntryOf[c]] IN
  \/ mcall[c].doing # "list" /\ Over(c, "failed", error)
  \/ /\ mcall[c].doing = "call" /\ Len(Declared[EntryOf[c]]) > 1
     /\ \/ alias = NoTool /\ Asks(c, "list", mcall[c].tool, error)
        \/ alias \notin {NoTool, mcall[c].tool} /\ Asks(c, "retry", alias, error)
  \/ mcall[c].doing = "list" /\ Over(c, "failed", "unlisted")

-----------------------------------------------------------------------------
\* run: a declared name that is denied is refused before anything is sent, and a name
\* that was resolved once is used from the start.
McpRefuse(c) ==
  /\ mcall[c].pc = "new"
  /\ Declared[EntryOf[c]][1] \in Mutating
  /\ Over(c, "failed", "refused")
  /\ UNCHANGED <<mcp, kept, executed>>

McpBegin(c) ==
  LET e == EntryOf[c]
      tool == IF kept.tool[e] = NoTool THEN Declared[e][1] ELSE kept.tool[e]
  IN /\ mcall[c].pc = "new"
     /\ Declared[e][1] \notin Mutating
     /\ mcall' = [mcall EXCEPT
          ![c] = [pc |-> IF kept.session = Unset THEN "handshake" ELSE "send", doing |-> "call",
                  tool |-> tool, session |-> kept.session, began |-> mcp.life,
                  first |-> kept.tool[e] = NoTool, error |-> "none"]]
     /\ UNCHANGED <<mcp, kept, executed>>

\* _initialize: the handshake, and after it a notification whose failure is ignored; only
\* then is the session kept, whatever another call kept meanwhile.
Handshake(c) ==
  /\ mcall[c].pc = "handshake"
  /\ \/ /\ mcp.up
        /\ mcall' = [mcall EXCEPT ![c].pc = "notify",
                                  ![c].session = IF mcp.sessional THEN mcp.life ELSE 0]
     \/ ~mcp.up /\ Raises(c, "broken")
  /\ UNCHANGED <<mcp, kept, executed>>

Notify(c) ==
  /\ mcall[c].pc = "notify"
  /\ kept' = [kept EXCEPT !.session = mcall[c].session]
  /\ mcall' = [mcall EXCEPT ![c].pc = "send"]
  /\ UNCHANGED <<mcp, executed>>

\* tools/call of a tool that the server has.  What comes back is a result, or one that says
\* isError, which ends the call; or an error of its own, a body that parse_body finds no result
\* in, or nothing.
ToolRuns(c) ==
  /\ mcall[c].pc = "send" /\ mcall[c].doing # "list"
  /\ mcp.up /\ SessionHolds(c) /\ mcall[c].tool \in mcp.tools
  /\ executed' = [executed EXCEPT ![c] = Append(@, mcall[c].tool)]
  /\ Over(c, "done", "none") \/ Over(c, "failed", "tool error") \/ Raises(c, "broken")
  /\ UNCHANGED <<mcp, kept>>

\* The server is not there, does not know the session, or has no tool of this name.
CallFails(c) ==
  /\ mcall[c].pc = "send"
  /\ \/ ~mcp.up /\ Raises(c, "broken")
     \/ mcp.up /\ ~SessionHolds(c) /\ Raises(c, "session")
     \/ /\ mcp.up /\ SessionHolds(c) /\ mcall[c].doing # "list" /\ mcall[c].tool \notin mcp.tools
        /\ Raises(c, "unknown")
  /\ UNCHANGED <<mcp, kept, executed>>

\* The first of the declared aliases that the server advertises.
Alias(e) ==
  LET i == SelectInSeq(Tail(Declared[e]), LAMBDA t : t \in mcp.tools)
  IN IF i = 0 THEN NoTool ELSE Tail(Declared[e])[i]

\* tools/list, and the check that holds whatever the registry says.  If no alias is there, the
\* error stands that was looked into.
ListTools(c) ==
  LET e == EntryOf[c] IN
  /\ mcall[c].pc = "send" /\ mcall[c].doing = "list"
  /\ mcp.up /\ SessionHolds(c)
  /\ \/ /\ Alias(e) \notin {NoTool} \cup Mutating
        /\ kept' = [kept EXCEPT !.tool[e] = Alias(e)]
        /\ IF Alias(e) = mcall[c].tool THEN Over(c, "failed", mcall[c].error)
           ELSE Asks(c, "retry", Alias(e), mcall[c].error)
     \/ Alias(e) \in Mutating /\ Over(c, "failed", "refused") /\ UNCHANGED kept
     \/ Alias(e) = NoTool /\ Over(c, "failed", mcall[c].error) /\ UNCHANGED kept
  /\ UNCHANGED <<mcp, executed>>

-----------------------------------------------------------------------------
\* The server goes, and comes back as another life of it, with other names.
ServerStops == mcp.up /\ mcp' = [mcp EXCEPT !.up = FALSE] /\ UNCHANGED <<kept, mcall, executed>>

ServerStarts ==
  /\ ~mcp.up /\ mcp.life <= MaxUpgrades
  /\ \E tools \in ToolSets :
       mcp' = [mcp EXCEPT !.up = TRUE, !.life = @ + 1, !.tools = tools]
  /\ UNCHANGED <<kept, mcall, executed>>

\* The process ends: what it kept is lost, and so are its calls.
ProcessRestarts ==
  /\ kept.life < MaxLives
  /\ kept' = Forgotten(kept.life + 1)
  /\ mcall' = [c \in McpCalls |->
                 IF mcall[c].pc \in {"new", "done", "failed"} THEN mcall[c]
                 ELSE [mcall[c] EXCEPT !.pc = "failed", !.error = "lost"]]
  /\ UNCHANGED <<mcp, executed>>

McpNext ==
  \/ \E c \in McpCalls :
       \/ McpRefuse(c) \/ McpBegin(c) \/ Handshake(c) \/ Notify(c) \/ ToolRuns(c)
       \/ CallFails(c) \/ ListTools(c)
  \/ ServerStops \/ ServerStarts \/ ProcessRestarts

McpSpec == McpInit /\ [][McpNext]_mvars

-----------------------------------------------------------------------------
\* The server runs only what the entry of the call declares and no pattern denies, under
\* whatever name it was found.  It runs one name at most once a call: a call may run a second
\* one, if the message of its first error, which says nothing sure of whether the tool ran,
\* was taken for that of a missing tool (mcpapi.py:6-18, 99-119, 467-484).
OnlyDeclaredToolsRun ==
  \A c \in McpCalls :
    /\ ToSet(executed[c]) \subseteq Names(EntryOf[c]) \ Mutating
    /\ IsInjective(executed[c])
    /\ Len(executed[c]) <= (IF mcall[c].doing = "retry" THEN 2 ELSE 1)

\* The server was what it is for the whole of the call, and has the tool by a name that
\* the entry declares and nothing denies.
Served(c) ==
  /\ mcp.up /\ mcall[c].began = mcp.life
  /\ (Names(EntryOf[c]) \ Mutating) \cap mcp.tools # {}

\* A rename takes no capability away (schema.py:205-216), the first time, and if the server's
\* message is one that is taken for a missing tool's: a call to a server that has the tool under
\* a declared name, and is there throughout, does not fail for its name, and whatever the
\* messages not for its session, for any number of calls at once, as long as the name that was
\* found before still holds and the server kept its sessions (mcpapi.py:404-435, 467-484).
FirstRenameHeals ==
  \A c \in McpCalls :
    /\ Served(c) /\ mcall[c].first /\ (mcp.sessional => mcp.life = 1) /\ mcall[c].pc = "failed"
    => /\ mcall[c].error # "session"
       /\ mcall[c].doing # "call" => mcall[c].error # "unknown"

\* A tool call runs what was declared, and finds it where it is.
ToolCallsHold == OnlyDeclaredToolsRun /\ FirstRenameHeals
=============================================================================
