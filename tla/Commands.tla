------------------------------ MODULE Commands ------------------------------
(***************************************************************************)
(* The executors that run a process: a composed command                    *)
(* (app/executors/shell_exec.py), kubectl (app/executors/k8s.py) and grep  *)
(* over the source clones (app/executors/code.py).  No shell is between.   *)
(*                                                                         *)
(* A process prints what it prints and ends by itself, or is killed.  Its  *)
(* output is "words", "silence", "denial" (a line of _DENIED_RE) or        *)
(* "flood": more than a pipe and its reader take while nobody reads on.    *)
(***************************************************************************)
EXTENDS Integers

CONSTANTS
  CommandCalls,  \* bound: the calls
  MaxDrops       \* bound: lives of the service

VARIABLES
  command,  \* the calls: [pc, kind, result, told, timed]
  child,    \* their processes: [is, exit, output]
  drops     \* how often the service has ended

cmdVars == <<command, child, drops>>

CommandKinds == {"shell", "kubectl", "search"}
Outputs == {"words", "silence", "denial", "flood"}
NoChild == [is |-> "none", exit |-> "", output |-> ""]
NewCommand == [pc |-> "new", kind |-> "", result |-> "", told |-> "", timed |-> FALSE]

CommandsInit ==
  /\ command = [c \in CommandCalls |-> NewCommand]
  /\ child = [c \in CommandCalls |-> NoChild]
  /\ drops = 0

\* The call ends: with a result that is ok or not, an ExecutorError, or a cancellation.
Ends(c, result, told) ==
  command' = [command EXCEPT ![c].pc = "over", ![c].result = result, ![c].told = told]

-----------------------------------------------------------------------------
(* Before there is a process.                                              *)

\* shell_exec: a command that cannot be split, that the guard refuses or whose binary is not
\* there is a result, so that the next round may correct it; one that is empty raises.
ShellRefused(c) ==
  \E why \in {"empty", "unparsed", "refused", "missing"} :
    command' = [command EXCEPT ![c] =
      [pc |-> "over", kind |-> "shell", result |-> IF why = "empty" THEN "raised" ELSE "failed",
       told |-> why, timed |-> FALSE]]

\* k8s: the connection, the namespace, the argv with its caps, the flags of the pod's own
\* cluster and the binary all raise.  code: so do an empty query, a path outside the clones,
\* clones that are not there yet and a missing grep.
OthersRefused(c) ==
  \E kind \in {"kubectl", "search"}, why \in {"refused", "missing"} :
    command' = [command EXCEPT ![c] =
      [pc |-> "over", kind |-> kind, result |-> "raised", told |-> why, timed |-> FALSE]]

CommandRefused(c) ==
  /\ command[c].pc = "new"
  /\ ShellRefused(c) \/ OthersRefused(c)
  /\ UNCHANGED <<child, drops>>

\* create_subprocess_exec, with an argv that was accepted.
Spawn(c) ==
  /\ command[c].pc = "new"
  /\ \E kind \in CommandKinds :
       command' = [command EXCEPT ![c].pc = "waiting", ![c].kind = kind]
  /\ \E output \in Outputs :
       child' = [child EXCEPT ![c] = [is |-> "running", exit |-> "", output |-> output]]
  /\ UNCHANGED drops

-----------------------------------------------------------------------------
(* communicate, under wait_for.                                            *)

\* Exit 0 with a denial in the output is a failure, since gcloud warns of one and exits 0; a
\* silent failure is explained from its exit code.
ShellJudged(c) ==
  CASE child[c].exit = "0" /\ child[c].output = "denial" -> Ends(c, "failed", "permissions")
    [] child[c].exit = "0" /\ child[c].output # "denial" -> Ends(c, "ok", "output")
    [] child[c].exit # "0" /\ child[c].output = "silence" -> Ends(c, "failed", "the exit explained")
    [] OTHER -> Ends(c, "failed", "its own words")

\* kubectl is judged by its exit code.
KubectlJudged(c) ==
  IF child[c].exit = "0" THEN Ends(c, "ok", "output") ELSE Ends(c, "raised", "its own words")

\* grep is not judged: what it printed, an error of its own among it, are the matches.
SearchJudged(c) ==
  Ends(c, "ok", IF child[c].output = "silence" THEN "no matches" ELSE "output")

Communicated(c) ==
  /\ command[c].pc = "waiting" /\ child[c].is = "exited"
  /\ \/ command[c].kind = "shell" /\ ShellJudged(c)
     \/ command[c].kind = "kubectl" /\ KubectlJudged(c)
     \/ command[c].kind = "search" /\ SearchJudged(c)
  /\ UNCHANGED <<child, drops>>

\* Mutant of TimedOut: nothing is killed.
TimedOutLeaving(c) ==
  /\ command[c].pc = "waiting"
  /\ command' = [command EXCEPT ![c].pc = "over", ![c].told = "timed out", ![c].timed = TRUE,
                                ![c].result = IF command[c].kind = "shell" THEN "failed" ELSE "raised"]
  /\ UNCHANGED <<child, drops>>

\* The time is over, perhaps just as the process ends.  A grep is left to itself.
TimedOut(c) ==
  /\ command[c].pc = "waiting"
  /\ command' = [command EXCEPT ![c].pc = "over", ![c].told = "timed out", ![c].timed = TRUE,
                                ![c].result = IF command[c].kind = "shell" THEN "failed" ELSE "raised"]
  /\ child' = IF command[c].kind # "search" /\ child[c].is = "running"
              THEN [child EXCEPT ![c].is = "killed"] ELSE child
  /\ UNCHANGED drops

\* The question is stopped: no executor handles a cancellation.
CommandStopped(c) ==
  /\ command[c].pc = "waiting"
  /\ Ends(c, "stopped", "")
  /\ UNCHANGED <<child, drops>>

-----------------------------------------------------------------------------
(* Processes.                                                              *)

Attended(c) == command[c].pc = "waiting"

\* The process ends by itself.  One that floods its pipe, with nobody to read on, does not.
Exits(c) ==
  /\ child[c].is = "running"
  /\ Attended(c) \/ child[c].output # "flood"
  /\ \E exit \in {"0", "1"} : child' = [child EXCEPT ![c].is = "exited", ![c].exit = exit]
  /\ UNCHANGED <<command, drops>>

\* The service ends, its pipes close, and what still runs ends for it.
ServiceEnds ==
  /\ drops < MaxDrops /\ drops' = drops + 1
  /\ command' = [c \in CommandCalls |->
       IF Attended(c) THEN [command[c] EXCEPT !.pc = "over", !.result = "stopped"] ELSE command[c]]
  /\ child' = [c \in CommandCalls |->
       IF child[c].is = "running" THEN [child[c] EXCEPT !.is = "killed"] ELSE child[c]]

CommandsNext ==
  \/ \E c \in CommandCalls :
       \/ CommandRefused(c) \/ Spawn(c) \/ Communicated(c) \/ TimedOut(c) \/ CommandStopped(c)
       \/ Exits(c)
  \/ ServiceEnds

CommandsSpec == CommandsInit /\ [][CommandsNext]_cmdVars

-----------------------------------------------------------------------------
\* A process that outlives its call is a search that ran out of time, or its question was
\* stopped: a command and a kubectl end with their calls (shell_exec.py:197-202, k8s.py:316-326).
NoneIsForgotten ==
  \A c \in CommandCalls :
    child[c].is = "running" /\ ~Attended(c) =>
      command[c].kind = "search" \/ command[c].result = "stopped"

\* "Success is not always success": a command or a kubectl is ok only if it ended by itself, in
\* time and with 0, and a command only if nothing it printed says that it was denied
\* (shell_exec.py:206-220).  What a search returns says nothing of that.
OkIsEarned ==
  \A c \in CommandCalls : command[c].result = "ok" /\ command[c].kind # "search" =>
    /\ child[c].is = "exited" /\ child[c].exit = "0" /\ ~command[c].timed
    /\ command[c].kind = "shell" => child[c].output # "denial"

\* A process ends with its call, and a call is as good as its process.
CommandsAreAccountable == NoneIsForgotten /\ OkIsEarned
=============================================================================
