------------------------------ MODULE Gateway ------------------------------
(***************************************************************************)
(* The client of the model gateway (app/grid/client.py), as a question     *)
(* uses it: a selection, then the answer, streamed to the page, with the   *)
(* plain call behind it (the end of _answer in app/api/ask.py).  What is   *)
(* done with what was selected, and compaction, which parses like the      *)
(* plain call, are in AskLoop.                                             *)
(*                                                                         *)
(* A text is a sequence of pieces, of which Blank is white space.  A tool  *)
(* call of a reply is what the client makes of it: "call", "nameless",     *)
(* "not JSON", "no object".                                                *)
(***************************************************************************)
EXTENDS Integers, SequencesExt

CONSTANTS
  Pieces, Blank,  \* the pieces of a text
  MaxLines,       \* bound: the lines of a stream
  MaxAsked,       \* bound: the tool calls in a reply
  MaxCalls        \* max_calls of select

ASSUME GatewayAssumption ==
  /\ Blank \in Pieces /\ {MaxLines, MaxAsked} \subseteq Nat /\ MaxCalls \in Nat \ {0}

VARIABLES
  grid,      \* the call of the client: [pc, parts, lines, calls, answer, error]
  page,      \* what on_token has shown since the last token_reset
  replied    \* history: the tool calls that the gateway asked for

gridVars == <<grid, page, replied>>

Asked == {"call", "nameless", "not JSON", "no object"}

GatewayInit ==
  /\ grid = [pc |-> "selecting", parts |-> <<>>, lines |-> 0, calls |-> 0, answer |-> <<>>,
             error |-> ""]
  /\ page = <<>> /\ replied = <<>>

Fails(error) == grid' = [grid EXCEPT !.pc = "over", !.error = error]
Stored(answer) == grid' = [grid EXCEPT !.pc = "over", !.answer = answer]

\* strip.
Strip(text) ==
  LET ink == {i \in DOMAIN text : text[i] # Blank}
  IN IF ink = {} THEN <<>> ELSE SubSeq(text, Min(ink), Max(ink))

-----------------------------------------------------------------------------
(* One request, one JSON body: _post, select, synthesize.                  *)

\* A GridError: no key or no model is configured, a timeout, no connection, an error status, a
\* body that is not JSON or has no choices.  The question fails, and is audited.
PostFails ==
  /\ grid.pc \in {"selecting", "writing"} /\ Fails("gateway")
  /\ UNCHANGED <<page, replied>>

\* A body of another shape ("choices": null, a usage that is no number) raises something else.
BodyIsOdd ==
  /\ grid.pc \in {"selecting", "writing"} /\ Fails("other")
  /\ UNCHANGED <<page, replied>>

\* The calls up to max_calls, if every one of those can be read; none are repaired, and those
\* after them are dropped unread.
Selected(raws) ==
  LET seen == SubSeq(raws, 1, IF Len(raws) < MaxCalls THEN Len(raws) ELSE MaxCalls)
  IN IF \E i \in DOMAIN seen : seen[i] # "call" THEN Fails("gateway")
     ELSE grid' = [grid EXCEPT !.pc = "streaming", !.calls = Len(seen)]

\* No tool call is a refusal, in the gateway's words or its own, and so is a question without
\* tools, which sends nothing.
SelectReplies ==
  /\ grid.pc = "selecting"
  /\ \E raws \in SeqOf(Asked, MaxAsked) :
       /\ replied' = raws
       /\ IF raws = <<>> THEN Stored(<<"refusal">>) ELSE Selected(raws)
  /\ UNCHANGED page

\* The plain call takes what there is, nothing included.
PlainReplies ==
  /\ grid.pc = "writing"
  /\ \E content \in SeqOf(Pieces, 2) : Stored(Strip(content))
  /\ UNCHANGED <<page, replied>>

-----------------------------------------------------------------------------
(* synthesize_stream, a line of the body at a time.                        *)

\* A keep-alive, [DONE], the usage, or a chunk that is not JSON: skipped, it must not discard an
\* answer that is otherwise arriving.
LineIsSkipped ==
  /\ grid.pc = "streaming" /\ grid.lines < MaxLines
  /\ grid' = [grid EXCEPT !.lines = @ + 1]
  /\ UNCHANGED <<page, replied>>

PieceArrives ==
  /\ grid.pc = "streaming" /\ grid.lines < MaxLines
  /\ \E piece \in Pieces :
       /\ grid' = [grid EXCEPT !.lines = @ + 1, !.parts = Append(@, piece)]
       /\ page' = Append(page, piece)
  /\ UNCHANGED replied

\* Mutant of FallsBack: what the page has stays there.
FallsBackAppending ==
  grid' = [grid EXCEPT !.pc = "writing", !.parts = <<>>] /\ UNCHANGED page

\* Any failure of the stream: token_reset, and the plain call.
FallsBack == grid' = [grid EXCEPT !.pc = "writing", !.parts = <<>>] /\ page' = <<>>

\* The body ends, with [DONE] or without; an answer without a word is a failure.
StreamEnds ==
  /\ grid.pc = "streaming"
  /\ IF Strip(grid.parts) = <<>> THEN FallsBack ELSE Stored(Strip(grid.parts)) /\ UNCHANGED page
  /\ UNCHANGED replied

\* A timeout, a cut connection, an error status, or a chunk of another shape.
StreamBreaks ==
  /\ grid.pc = "streaming" /\ FallsBack
  /\ UNCHANGED replied

GatewayNext ==
  \/ PostFails \/ BodyIsOdd \/ SelectReplies \/ PlainReplies
  \/ LineIsSkipped \/ PieceArrives \/ StreamEnds \/ StreamBreaks

GatewaySpec == GatewayInit /\ [][GatewayNext]_gridVars

-----------------------------------------------------------------------------
\* "The streamed turn and the same turn on reload are the same text": an answer that is stored
\* is what the page was shown, but for white space at its ends, or the page was reset for it,
\* wherever the stream broke and whatever was skipped in it (client.py:300-303).
ShownIsStored ==
  grid.pc = "over" /\ grid.error = "" /\ grid.calls > 0 => page = <<>> \/ Strip(page) = grid.answer

\* What runs is what the model asked for, in full up to the cap, or nothing does; and it is told
\* that nothing covers the question only if the model asked for nothing (client.py:176-206).
SelectionIsWhole ==
  /\ grid.calls > 0 =>
       /\ grid.calls = (IF Len(replied) < MaxCalls THEN Len(replied) ELSE MaxCalls)
       /\ \A i \in 1..grid.calls : replied[i] = "call"
  /\ grid.pc = "over" /\ grid.error = "" /\ grid.calls = 0 => replied = <<>>

\* The gateway is taken at its word, and at the whole of it.
RepliesAreTakenWhole == ShownIsStored /\ SelectionIsWhole
=============================================================================
