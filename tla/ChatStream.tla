----------------------------- MODULE ChatStream -----------------------------
(***************************************************************************)
(* One conversation: EventsGateway receives messages and stop requests and *)
(* reports to the client, ChatAiService streams the answer of the model in *)
(* a loop of turns and tool calls.                                         *)
(*                                                                         *)
(* The registry of streams is keyed by conversation, so the module is one  *)
(* conversation.  A step is one awaited call with the code that follows    *)
(* it.  What the tools do to files is not told apart here.                 *)
(***************************************************************************)
EXTENDS Naturals, Sequences

CONSTANTS
    Sends,         \* the messages of the client, over the socket or by REST
    None,
    HistoryLimit,  \* messages given to the model
    MaxTurns,      \* maxIterations
    MaxTruncations,\* MAX_TRUNCATION_CONTINUATIONS
    MaxCalls       \* bound: tool calls in one turn

ASSUME ChatConstants ==
    /\ None \notin Sends
    /\ HistoryLimit \in Nat
    /\ MaxTurns \in Nat \ {0}
    /\ MaxTruncations \in Nat
    /\ MaxCalls \in Nat \ {0}

VARIABLES
    exists,       \* the conversation is in the database
    log,          \* its messages, oldest first: <<role, send>>
    active,       \* activeStreams: the send whose controller is registered
    aborted,      \* the sends whose controller was aborted
    pc,           \* where the handling of a send stands
    prompt,       \* the messages a send's stream was given
    turns,        \* iteration
    truncations,  \* consecutiveTruncations
    calls,        \* tool calls of the turn not yet executed
    text,         \* fullResponse is not empty
    ui            \* what the client was told last of a send

vars == <<exists, log, active, aborted, pc, prompt, turns, truncations, calls, text, ui>>

dbVars == <<exists, log>>
loopVars == <<prompt, turns, truncations, calls, text>>

Messages == {"user", "assistant"} \X Sends

\* The stream is inside runAgenticLoop.
InLoop(r) == pc[r] \in {"turn", "tools"}

TypeOK ==
    /\ exists \in BOOLEAN
    /\ log \in Seq(Messages)
    /\ active \in Sends \cup {None}
    /\ aborted \subseteq Sends
    /\ pc \in [Sends -> {"new", "post", "lookup", "save", "tree", "history", "turn", "tools",
                         "answer", "done"}]
    /\ prompt \in [Sends -> Seq(Messages)]
    /\ turns \in [Sends -> 0 .. MaxTurns]
    /\ truncations \in [Sends -> 0 .. MaxTruncations]
    /\ calls \in [Sends -> 0 .. MaxCalls]
    /\ text \in [Sends -> BOOLEAN]
    /\ ui \in [Sends -> {"none", "sent", "start", "error", "end"}]

Init ==
    /\ exists = TRUE
    /\ log = << >>
    /\ active = None
    /\ aborted = {}
    /\ pc = [r \in Sends |-> "new"]
    /\ prompt = [r \in Sends |-> << >>]
    /\ turns = [r \in Sends |-> 0]
    /\ truncations = [r \in Sends |-> 0]
    /\ calls = [r \in Sends |-> 0]
    /\ text = [r \in Sends |-> FALSE]
    /\ ui = [r \in Sends |-> "none"]

Goto(r, label) == pc' = [pc EXCEPT ![r] = label]
Tell(r, event) == ui' = [ui EXCEPT ![r] = event]
Speak(r) == text' = [text EXCEPT ![r] = TRUE]

-----------------------------------------------------------------------------
(* EventsGateway                                                            *)

\* send_message is acknowledged at once and handled in the background.
SendMessage(r) ==
    /\ pc[r] = "new"
    /\ Goto(r, "lookup")
    /\ Tell(r, "sent")
    /\ UNCHANGED <<dbVars, active, aborted, loopVars>>

\* The conversation is looked up outside the try block: when it is gone, or
\* the query fails, the client is told of an error and nothing else.
Lookup(r) ==
    /\ pc[r] = "lookup"
    /\ \E found \in {exists, FALSE} :
        IF found
        THEN Goto(r, "save") /\ UNCHANGED ui
        ELSE Goto(r, "done") /\ Tell(r, "error")
    /\ UNCHANGED <<dbVars, active, aborted, loopVars>>

\* Mutant: the error is reported, the end is not.
CatchNoEnd(r) ==
    /\ Goto(r, "done")
    /\ Tell(r, "error")

\* The catch block: an error, then an end.
Catch(r) ==
    /\ Goto(r, "done")
    /\ Tell(r, "end")

\* The message is stored and the start of a response announced.
SaveUser(r) ==
    /\ pc[r] = "save"
    /\ \/ /\ exists
          /\ log' = Append(log, <<"user", r>>)
          /\ Goto(r, "tree")
          /\ Tell(r, "start")
       \/ /\ Catch(r)
          /\ UNCHANGED log
    /\ UNCHANGED <<exists, active, aborted, loopVars>>

\* A response with text is stored, then its end is announced.
SaveAnswer(r) ==
    /\ pc[r] = "answer"
    /\ \/ /\ exists
          /\ log' = Append(log, <<"assistant", r>>)
          /\ Goto(r, "done")
          /\ Tell(r, "end")
       \/ /\ Catch(r)
          /\ UNCHANGED log
    /\ UNCHANGED <<exists, active, aborted, loopVars>>

\* stop_chat: abortChat aborts and removes the registered controller, if any.
StopChat ==
    /\ active # None
    /\ aborted' = aborted \cup {active}
    /\ active' = None
    /\ UNCHANGED <<dbVars, pc, loopVars, ui>>

-----------------------------------------------------------------------------
(* ChatAiService.streamChatResponse                                         *)

LoadTree(r) ==
    /\ pc[r] = "tree"
    /\ \/ Goto(r, "history") /\ UNCHANGED ui
       \/ Catch(r)
    /\ UNCHANGED <<dbVars, active, aborted, loopVars>>

\* orderBy createdAt asc, take HistoryLimit.
Oldest == SubSeq(log, 1, IF Len(log) < HistoryLimit THEN Len(log) ELSE HistoryLimit)

\* The oldest messages are read; a stream still registered is aborted, the
\* new controller takes its place and the first turn is asked for.
LoadHistory(r) ==
    /\ pc[r] = "history"
    /\ \/ /\ prompt' = [prompt EXCEPT ![r] = Oldest]
          /\ aborted' = IF active = None THEN aborted ELSE aborted \cup {active}
          /\ active' = r
          /\ turns' = [turns EXCEPT ![r] = 1]
          /\ Goto(r, "turn")
          /\ UNCHANGED ui
       \/ /\ Catch(r)
          /\ UNCHANGED <<prompt, aborted, active, turns>>
    /\ UNCHANGED <<dbVars, truncations, calls, text>>

\* Mutant: finally drops whatever is registered.
ReturnClearsAny(r) ==
    /\ active' = None
    /\ IF text'[r]
       THEN Goto(r, "answer") /\ UNCHANGED ui
       ELSE Goto(r, "done") /\ Tell(r, "end")

\* The loop returns, finally drops the controller if it is still this one, and
\* the gateway stores the text or, when there is none, announces the end.
Return(r) ==
    /\ active' = IF active = r THEN None ELSE active
    /\ IF text'[r]
       THEN Goto(r, "answer") /\ UNCHANGED ui
       ELSE Goto(r, "done") /\ Tell(r, "end")

\* Mutant: the signal is not looked at.
LoopTopDeaf(r) ==
    \/ /\ turns[r] = MaxTurns
       /\ Speak(r)
       /\ Return(r)
       /\ UNCHANGED turns
    \/ /\ turns[r] < MaxTurns
       /\ turns' = [turns EXCEPT ![r] = @ + 1]
       /\ Goto(r, "turn")
       /\ UNCHANGED <<active, text, ui>>

\* Mutant: the condition of the loop is off by one.
LoopTopOneMore(r) ==
    \/ /\ turns[r] > MaxTurns
       /\ Speak(r)
       /\ Return(r)
       /\ UNCHANGED turns
    \/ /\ turns[r] <= MaxTurns
       /\ r \in aborted
       /\ UNCHANGED <<turns, text>>
       /\ Return(r)
    \/ /\ turns[r] <= MaxTurns
       /\ r \notin aborted
       /\ turns' = [turns EXCEPT ![r] = @ + 1]
       /\ Goto(r, "turn")
       /\ UNCHANGED <<active, text, ui>>

\* while (iteration < maxIterations): out of turns, with a warning; or
\* aborted; or the next turn.
LoopTop(r) ==
    \/ /\ turns[r] = MaxTurns
       /\ Speak(r)
       /\ Return(r)
       /\ UNCHANGED turns
    \/ /\ turns[r] < MaxTurns
       /\ r \in aborted
       /\ UNCHANGED <<turns, text>>
       /\ Return(r)
    \/ /\ turns[r] < MaxTurns
       /\ r \notin aborted
       /\ turns' = [turns EXCEPT ![r] = @ + 1]
       /\ Goto(r, "turn")
       /\ UNCHANGED <<active, text, ui>>

\* A piece of text arrives and is passed on.
TurnText(r) ==
    /\ pc[r] = "turn" /\ r \notin aborted
    /\ ~text[r]
    /\ Speak(r)
    /\ UNCHANGED <<dbVars, active, aborted, pc, prompt, turns, truncations, calls, ui>>

\* The signal ends the stream of the model.
TurnAborted(r) ==
    /\ pc[r] = "turn" /\ r \in aborted
    /\ UNCHANGED <<dbVars, aborted, loopVars>>
    /\ Return(r)

\* The request or its stream fails; the failure is told as text.
TurnFails(r) ==
    /\ pc[r] = "turn" /\ r \notin aborted
    /\ Speak(r)
    /\ Return(r)
    /\ UNCHANGED <<dbVars, aborted, prompt, turns, truncations, calls>>

\* Cut off by the token limit without a tool call: go on, but only so often.
TurnTruncated(r) ==
    /\ pc[r] = "turn" /\ r \notin aborted
    /\ \/ /\ truncations[r] = MaxTruncations
          /\ Speak(r)
          /\ Return(r)
          /\ UNCHANGED <<turns, truncations>>
       \/ /\ truncations[r] < MaxTruncations
          /\ truncations' = [truncations EXCEPT ![r] = @ + 1]
          /\ LoopTop(r)
    /\ UNCHANGED <<dbVars, aborted, prompt, calls>>

\* No tool call: the reply is finished.  The warning of the last turn is also
\* given when that turn finished the reply.
TurnFinished(r) ==
    /\ pc[r] = "turn" /\ r \notin aborted
    /\ IF turns[r] = MaxTurns THEN Speak(r) ELSE UNCHANGED text
    /\ Return(r)
    /\ UNCHANGED <<dbVars, aborted, prompt, turns, truncations, calls>>

TurnTools(r) ==
    /\ pc[r] = "turn" /\ r \notin aborted
    /\ \E n \in 1 .. MaxCalls : calls' = [calls EXCEPT ![r] = n]
    /\ truncations' = [truncations EXCEPT ![r] = 0]
    /\ Goto(r, "tools")
    /\ UNCHANGED <<dbVars, active, aborted, prompt, turns, text, ui>>

\* One call is executed, whatever the signal says; a failure is its result.
\* After the last one the loop goes round.
ToolCall(r) ==
    /\ pc[r] = "tools"
    /\ calls' = [calls EXCEPT ![r] = @ - 1]
    /\ IF calls[r] > 1
       THEN UNCHANGED <<active, pc, turns, text, ui>>
       ELSE LoopTop(r)
    /\ UNCHANGED <<dbVars, aborted, prompt, truncations>>

-----------------------------------------------------------------------------
(* ConversationsService                                                     *)

\* POST .../messages stores a message that is not answered: looked up ...
Post(r) ==
    /\ pc[r] = "new"
    /\ Goto(r, IF exists THEN "post" ELSE "done")
    /\ UNCHANGED <<dbVars, active, aborted, loopVars, ui>>

\* ... and stored, or not when the conversation went in between.
AddMessage(r) ==
    /\ pc[r] = "post"
    /\ log' = IF exists THEN Append(log, <<"user", r>>) ELSE log
    /\ Goto(r, "done")
    /\ UNCHANGED <<exists, active, aborted, loopVars, ui>>

\* DELETE: the conversation goes, its messages with it, its stream runs on.
Remove ==
    /\ exists
    /\ exists' = FALSE
    /\ log' = << >>
    /\ UNCHANGED <<active, aborted, pc, loopVars, ui>>

-----------------------------------------------------------------------------
LoopStep(r) ==
    \/ TurnAborted(r) \/ TurnFails(r) \/ TurnTruncated(r) \/ TurnFinished(r) \/ TurnTools(r)
    \/ ToolCall(r)

HandlerStep(r) ==
    \/ Lookup(r) \/ SaveUser(r) \/ LoadTree(r) \/ LoadHistory(r) \/ LoopStep(r)
    \/ SaveAnswer(r)

Next ==
    \/ \E r \in Sends : SendMessage(r) \/ HandlerStep(r) \/ TurnText(r)
    \/ \E r \in Sends : Post(r) \/ AddMessage(r)
    \/ StopChat \/ Remove

\* Queries and tool calls return or throw, and a turn of the model ends.
Fairness == \A r \in Sends : WF_vars(HandlerStep(r))

Spec == Init /\ [][Next]_vars
FairSpec == Spec /\ Fairness

-----------------------------------------------------------------------------
(* Properties                                                               *)

\* "One active stream per conversation at a time": the registered controller
\* is that of the one stream that runs and was not aborted.  No stream runs
\* that a stop cannot reach, and none that has ended stays registered, however
\* a stop, a newer message and the end of the older stream interleave.
ActiveStreamsExact == \A r \in Sends : active = r <=> InLoop(r) /\ r \notin aborted

\* The conversation keeps its promise: only the stream that is registered asks
\* the model for another turn, never one that was stopped or superseded, and
\* never more often than the limit.
Promise == INSTANCE TurnTaking WITH Exchanges <- Sends, Nobody <- None, floor <- active
KeepsTurns == Promise!Spec

\* "Always signal stream end": a response that was announced is ended, whether
\* it is finished, stopped, superseded or fails, or its conversation goes.
ResponsesEnd == \A r \in Sends : ui[r] = "start" ~> ui[r] = "end"

\* "Load conversation history": the model is given the message it is to answer.
PromptHasQuestion ==
    \A r \in Sends : exists /\ InLoop(r) =>
        \E i \in DOMAIN prompt[r] : prompt[r][i] = <<"user", r>>
=============================================================================
