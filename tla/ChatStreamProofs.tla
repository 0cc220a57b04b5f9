-------------------------- MODULE ChatStreamProofs --------------------------
(***************************************************************************)
(* Proofs about ChatStream, for any number of messages and any limits: the *)
(* registry of streams is exact, and the conversation implements           *)
(* TurnTaking.                                                             *)
(*                                                                         *)
(* ActiveStreamsExact is not inductive alone.  That a stream is not yet    *)
(* aborted when it registers has to be known (Early).                      *)
(***************************************************************************)
EXTENDS ChatStream, SequenceTheorems, TLAPS

\* Before it registers, a stream has asked for no turn and cannot be aborted.
Early ==
    \A r \in Sends : pc[r] \in {"new", "post", "lookup", "save", "tree", "history"} =>
        turns[r] = 0 /\ r \notin aborted

\* There is a tool call to execute.
CallsLeft == \A r \in Sends : pc[r] = "tools" => calls[r] > 0

\* The inductive invariant.
IInv == TypeOK /\ ActiveStreamsExact /\ Early /\ CallsLeft

USE ChatConstants
USE DEF dbVars, loopVars

\* The history that is read is a list of messages.
LEMMA OldestType ==
    ASSUME log \in Seq(Messages)
    PROVE  Oldest \in Seq(Messages)
<1> DEFINE n == IF Len(log) < HistoryLimit THEN Len(log) ELSE HistoryLimit
<1>1. n \in Int /\ n <= Len(log)
  BY LenProperties
<1>2. \A i \in 1 .. n : log[i] \in Messages
  BY <1>1, ElementOfSeq
<1>3. SubSeq(log, 1, n) \in Seq(Messages)
  BY <1>1, <1>2, SubSeqProperties
<1>4. QED
  BY <1>3 DEF Oldest

\* A message more, and none at all, leave a list of messages.
LEMMA LogType ==
    /\ << >> \in Seq(Messages)
    /\ log \in Seq(Messages) =>
         \A role \in {"user", "assistant"}, r \in Sends :
            Append(log, <<role, r>>) \in Seq(Messages)
<1>1. << >> \in Seq(Messages)
  BY EmptySeq
<1>2. ASSUME log \in Seq(Messages), NEW role \in {"user", "assistant"}, NEW r \in Sends
      PROVE  Append(log, <<role, r>>) \in Seq(Messages)
  <2>1. <<role, r>> \in Messages
    BY DEF Messages
  <2>2. QED
    BY <1>2, <2>1, AppendProperties
<1>3. QED
  BY <1>1, <1>2

\* No message has arrived at first.
LEMMA InitIInv == Init => IInv
BY DEF Init, IInv, TypeOK, ActiveStreamsExact, Early, CallsLeft, InLoop

-----------------------------------------------------------------------------
(* One lemma per part of the next-state relation, one step per action.      *)

\* From a message's arrival to its loop, and the storing of what comes out.
LEMMA HandlerIInv ==
    ASSUME IInv, NEW r \in Sends,
           SendMessage(r) \/ Lookup(r) \/ SaveUser(r) \/ LoadTree(r) \/ LoadHistory(r)
             \/ SaveAnswer(r) \/ TurnText(r) \/ Post(r) \/ AddMessage(r)
    PROVE  IInv'
<1>1. CASE SendMessage(r)
  BY <1>1 DEF IInv, TypeOK, ActiveStreamsExact, Early, CallsLeft, InLoop,
     SendMessage, Goto, Tell
<1>2. CASE Lookup(r)
  BY <1>2, ZenonT(40) DEF IInv, TypeOK, ActiveStreamsExact, Early, CallsLeft, InLoop,
     Lookup, Goto, Tell
<1>3. CASE SaveUser(r)
  <2>1. log' = log \/ log' = Append(log, <<"user", r>>)
    BY <1>3 DEF SaveUser
  <2>2. log' \in Seq(Messages)
    <3>1. log \in Seq(Messages)
      BY DEF IInv, TypeOK
    <3>2. Append(log, <<"user", r>>) \in Seq(Messages)
      BY <3>1, LogType, Zenon
    <3>3. QED
      BY <2>1, <3>1, <3>2
  <2>3. TypeOK'
    BY <1>3, <2>2 DEF IInv, TypeOK, SaveUser, Goto, Tell, Catch
  <2>4. (ActiveStreamsExact /\ Early /\ CallsLeft)'
    BY <1>3 DEF IInv, TypeOK, ActiveStreamsExact, Early, CallsLeft, InLoop, SaveUser, Goto, Tell, Catch
  <2>5. QED
    BY <2>3, <2>4 DEF IInv
<1>4. CASE LoadTree(r)
  BY <1>4 DEF IInv, TypeOK, ActiveStreamsExact, Early, CallsLeft, InLoop,
     LoadTree, Goto, Tell, Catch
<1>5. CASE LoadHistory(r)
  <2>1. prompt' \in [Sends -> Seq(Messages)]
    BY <1>5, OldestType DEF IInv, TypeOK, LoadHistory
  <2>2. active' \in Sends \cup {None} /\ aborted' \subseteq Sends
    BY <1>5 DEF IInv, TypeOK, LoadHistory
  <2>3. pc' = [pc EXCEPT ![r] = "turn"] \/ pc' = [pc EXCEPT ![r] = "done"]
    BY <1>5 DEF LoadHistory, Goto, Catch
  <2>4. turns' = turns \/ turns' = [turns EXCEPT ![r] = 1]
    BY <1>5 DEF LoadHistory
  <2>5. ui' = ui \/ ui' = [ui EXCEPT ![r] = "end"]
    BY <1>5 DEF LoadHistory, Catch, Tell
  <2>6. TypeOK'
    <3>1. turns' \in [Sends -> 0 .. MaxTurns]
      <4>1. 1 \in 0 .. MaxTurns
        OBVIOUS
      <4>2. turns \in [Sends -> 0 .. MaxTurns]
        BY DEF IInv, TypeOK
      <4>3. QED
        BY <2>4, <4>1, <4>2
    <3>2. QED
      BY <1>5, <2>1, <2>2, <2>3, <2>5, <3>1 DEF IInv, TypeOK, LoadHistory
  <2>7. ActiveStreamsExact'
    BY <1>5, SMTT(30) DEF IInv, TypeOK, ActiveStreamsExact, Early, InLoop, LoadHistory, Goto, Catch
  <2>8. Early' /\ CallsLeft'
    BY <1>5, ZenonT(40) DEF IInv, TypeOK, Early, CallsLeft, InLoop, ActiveStreamsExact, LoadHistory, Goto, Catch
  <2>9. QED
    BY <2>6, <2>7, <2>8 DEF IInv
<1>6. CASE SaveAnswer(r)
  <2>1. log' = log \/ log' = Append(log, <<"assistant", r>>)
    BY <1>6 DEF SaveAnswer
  <2>2. log' \in Seq(Messages)
    <3>1. log \in Seq(Messages)
      BY DEF IInv, TypeOK
    <3>2. Append(log, <<"assistant", r>>) \in Seq(Messages)
      BY <3>1, LogType, Zenon
    <3>3. QED
      BY <2>1, <3>1, <3>2
  <2>3. TypeOK'
    BY <1>6, <2>2 DEF IInv, TypeOK, SaveAnswer, Goto, Tell, Catch
  <2>4. (ActiveStreamsExact /\ Early /\ CallsLeft)'
    BY <1>6 DEF IInv, TypeOK, ActiveStreamsExact, Early, CallsLeft, InLoop, SaveAnswer, Goto, Tell, Catch
  <2>5. QED
    BY <2>3, <2>4 DEF IInv
<1>7. CASE TurnText(r)
  BY <1>7 DEF IInv, TypeOK, ActiveStreamsExact, Early, CallsLeft, InLoop,
     TurnText, Speak
<1>8. CASE Post(r)
  BY <1>8 DEF IInv, TypeOK, ActiveStreamsExact, Early, CallsLeft, InLoop,
     Post, Goto
<1>9. CASE AddMessage(r)
  <2>1. log' \in Seq(Messages)
    BY <1>9, LogType DEF IInv, TypeOK, AddMessage, Goto
  <2>2. TypeOK'
    BY <1>9, <2>1 DEF IInv, TypeOK, AddMessage, Goto
  <2>3. (ActiveStreamsExact /\ Early /\ CallsLeft)'
    BY <1>9 DEF IInv, TypeOK, ActiveStreamsExact, Early, CallsLeft, InLoop, AddMessage, Goto
  <2>4. QED
    BY <2>2, <2>3 DEF IInv
<1>10. QED
  BY <1>1, <1>2, <1>3, <1>4, <1>5, <1>6, <1>7, <1>8, <1>9

\* What the head of the loop does to the types.
LEMMA LoopTopType ==
    ASSUME IInv, NEW r \in Sends, LoopTop(r)
    PROVE  /\ active' \in Sends \cup {None}
           /\ pc' = [pc EXCEPT ![r] = "turn"] \/ pc' = [pc EXCEPT ![r] = "answer"]
                \/ pc' = [pc EXCEPT ![r] = "done"]
           /\ turns' \in [Sends -> 0 .. MaxTurns]
           /\ text' \in [Sends -> BOOLEAN]
           /\ ui' = ui \/ ui' = [ui EXCEPT ![r] = "end"]
<1>1. active' \in Sends \cup {None}
  BY DEF IInv, TypeOK, LoopTop, Return
<1>2. pc' = [pc EXCEPT ![r] = "turn"] \/ pc' = [pc EXCEPT ![r] = "answer"]
        \/ pc' = [pc EXCEPT ![r] = "done"]
  BY DEF LoopTop, Return, Goto
<1>3. turns' \in [Sends -> 0 .. MaxTurns]
  <2>1. turns' = turns \/ (turns[r] < MaxTurns /\ turns' = [turns EXCEPT ![r] = @ + 1])
    BY DEF LoopTop
  <2>2. turns[r] < MaxTurns => turns[r] + 1 \in 0 .. MaxTurns
    BY SMTT(30) DEF IInv, TypeOK
  <2>3. QED
    BY <2>1, <2>2 DEF IInv, TypeOK
<1>4. text' \in [Sends -> BOOLEAN]
  BY DEF IInv, TypeOK, LoopTop, Speak
<1>5. ui' = ui \/ ui' = [ui EXCEPT ![r] = "end"]
  BY DEF LoopTop, Return, Tell
<1>6. QED
  BY <1>1, <1>2, <1>3, <1>4, <1>5

\* The loop of turns and tool calls.
LEMMA LoopIInv ==
    ASSUME IInv, NEW r \in Sends, LoopStep(r)
    PROVE  IInv'
<1>1. CASE TurnAborted(r)
  BY <1>1, ZenonT(40) DEF IInv, TypeOK, ActiveStreamsExact, Early, CallsLeft, InLoop,
     TurnAborted, Return, Goto, Tell
<1>2. CASE TurnFails(r)
  BY <1>2, ZenonT(40) DEF IInv, TypeOK, ActiveStreamsExact, Early, CallsLeft, InLoop,
     TurnFails, Return, Speak, Goto, Tell
<1>3. CASE TurnTruncated(r)
  <2>1. truncations' \in [Sends -> 0 .. MaxTruncations]
    <3>1. truncations' = truncations
            \/ (truncations[r] < MaxTruncations
                   /\ truncations' = [truncations EXCEPT ![r] = @ + 1])
      BY <1>3 DEF TurnTruncated
    <3>2. truncations[r] < MaxTruncations => truncations[r] + 1 \in 0 .. MaxTruncations
      BY DEF IInv, TypeOK
    <3>3. QED
      BY <3>1, <3>2 DEF IInv, TypeOK
  <2>2. CASE LoopTop(r)
    <3>1. TypeOK'
      BY <1>3, <2>1, <2>2, LoopTopType, ZenonT(40) DEF IInv, TypeOK, TurnTruncated
    <3>2. ActiveStreamsExact'
      BY <1>3, <2>2, ZenonT(40) DEF IInv, TypeOK, ActiveStreamsExact, InLoop, TurnTruncated, LoopTop, Return,
                  Goto
    <3>3. pc' = [pc EXCEPT ![r] = pc'[r]] /\ pc'[r] \in {"turn", "answer", "done"}
      BY <2>2, LoopTopType DEF IInv, TypeOK
    <3>4. \A s \in Sends : s # r => turns'[s] = turns[s]
      BY <2>2 DEF IInv, TypeOK, LoopTop
    <3>5. Early' /\ CallsLeft'
      BY <1>3, <3>3, <3>4 DEF IInv, TypeOK, Early, CallsLeft, TurnTruncated
    <3>6. QED
      BY <3>1, <3>2, <3>5 DEF IInv
  <2>3. CASE Speak(r) /\ Return(r) /\ UNCHANGED turns
    <3>1. TypeOK'
      BY <1>3, <2>1, <2>3 DEF IInv, TypeOK, TurnTruncated, Return, Speak, Goto, Tell
    <3>2. (ActiveStreamsExact /\ Early /\ CallsLeft)'
      BY <1>3, <2>3, SMTT(30) DEF IInv, TypeOK, ActiveStreamsExact, Early, CallsLeft, InLoop, TurnTruncated,
                  Return, Speak, Goto
    <3>3. QED
      BY <3>1, <3>2 DEF IInv
  <2>4. QED
    BY <1>3, <2>2, <2>3 DEF TurnTruncated
<1>4. CASE TurnFinished(r)
  BY <1>4, ZenonT(40) DEF IInv, TypeOK, ActiveStreamsExact, Early, CallsLeft, InLoop,
     TurnFinished, Return, Speak, Goto, Tell
<1>5. CASE TurnTools(r)
  BY <1>5 DEF IInv, TypeOK, ActiveStreamsExact, Early, CallsLeft, InLoop,
     TurnTools, Goto
<1>6. CASE ToolCall(r)
  <2>1. calls' \in [Sends -> 0 .. MaxCalls]
    BY <1>6 DEF IInv, TypeOK, CallsLeft, ToolCall
  <2>2. CASE calls[r] > 1
    BY <1>6, <2>1, <2>2, SMTT(30) DEF IInv, TypeOK, ActiveStreamsExact, Early, CallsLeft, InLoop, ToolCall
  <2>3. CASE ~(calls[r] > 1)
    <3>1. LoopTop(r)
      BY <1>6, <2>3 DEF ToolCall
    <3>2. TypeOK'
      BY <1>6, <2>1, <3>1, LoopTopType DEF IInv, TypeOK, ToolCall
    <3>3. ActiveStreamsExact'
      BY <1>6, <3>1 DEF IInv, TypeOK, ActiveStreamsExact, InLoop, ToolCall, LoopTop, Return, Goto
    <3>4. Early' /\ CallsLeft'
      <4>1. pc' = [pc EXCEPT ![r] = pc'[r]] /\ pc'[r] \in {"turn", "answer", "done"}
        BY <3>1, LoopTopType DEF IInv, TypeOK
      <4>2. \A s \in Sends : s # r => turns'[s] = turns[s]
        BY <3>1 DEF IInv, TypeOK, LoopTop
      <4>3. QED
        BY <1>6, <4>1, <4>2 DEF IInv, TypeOK, Early, CallsLeft, ToolCall
    <3>5. QED
      BY <3>2, <3>3, <3>4 DEF IInv
  <2>4. QED
    BY <2>2, <2>3
<1>7. QED
  BY <1>1, <1>2, <1>3, <1>4, <1>5, <1>6 DEF LoopStep

\* A stop, and the removal of the conversation.
LEMMA OutsideIInv ==
    ASSUME IInv, StopChat \/ Remove
    PROVE  IInv'
<1>1. CASE StopChat
  BY <1>1 DEF IInv, TypeOK, ActiveStreamsExact, Early, CallsLeft, InLoop,
     StopChat
<1>2. CASE Remove
  <2>1. log' \in Seq(Messages)
    BY <1>2, LogType DEF IInv, TypeOK, Remove
  <2>2. TypeOK'
    BY <1>2, <2>1 DEF IInv, TypeOK, Remove
  <2>3. (ActiveStreamsExact /\ Early /\ CallsLeft)'
    BY <1>2 DEF IInv, TypeOK, ActiveStreamsExact, Early, CallsLeft, InLoop, Remove
  <2>4. QED
    BY <2>2, <2>3 DEF IInv
<1>3. QED
  BY <1>1, <1>2

\* The invariant is inductive.
LEMMA NextIInv == IInv /\ [Next]_vars => IInv'
<1> SUFFICES ASSUME IInv, [Next]_vars
             PROVE  IInv'
  OBVIOUS
<1>1. CASE Next
  BY <1>1, HandlerIInv, LoopIInv, OutsideIInv DEF Next, HandlerStep
<1>2. CASE UNCHANGED vars
  BY <1>2 DEF vars, IInv, TypeOK, ActiveStreamsExact, Early, CallsLeft, InLoop
<1>3. QED
  BY <1>1, <1>2

\* The inductive invariant holds in every reachable state.
THEOREM Invariance == Spec => []IInv
BY InitIInv, NextIInv, PTL DEF Spec

-----------------------------------------------------------------------------
\* Every variable keeps its type.
THEOREM TypeCorrectness == Spec => []TypeOK
<1>1. IInv => TypeOK
  BY DEF IInv
<1>2. QED
  BY <1>1, Invariance, PTL

\* The registered controller is always that of the one stream that runs and was
\* not aborted.
THEOREM RegistryExact == Spec => []ActiveStreamsExact
<1>1. IInv => ActiveStreamsExact
  BY DEF IInv
<1>2. QED
  BY <1>1, Invariance, PTL

-----------------------------------------------------------------------------
(* ChatStream implements TurnTaking: every step is a step of it or a        *)
(* stutter.                                                                 *)

Turned == [Promise!Next]_<<active, turns>>

\* A step of the loop asks for a turn, gives the floor back, or is a stutter.
LEMMA LoopStepTurns ==
    ASSUME IInv, NEW r \in Sends, LoopStep(r)
    PROVE  Turned
<1> USE DEF Turned, Promise!Next, Promise!Close, Promise!Turn
<1>1. CASE TurnAborted(r)
  BY <1>1 DEF IInv, TypeOK, ActiveStreamsExact, InLoop, TurnAborted, Return, Goto, Tell
<1>2. CASE TurnFails(r)
  BY <1>2 DEF IInv, TypeOK, ActiveStreamsExact, InLoop, TurnFails, Return, Speak, Goto, Tell
<1>3. CASE TurnTruncated(r)
  BY <1>3 DEF IInv, TypeOK, ActiveStreamsExact, InLoop, TurnTruncated, LoopTop, Return, Speak, Goto, Tell
<1>4. CASE TurnFinished(r)
  BY <1>4 DEF IInv, TypeOK, ActiveStreamsExact, InLoop, TurnFinished, Return, Speak, Goto, Tell
<1>5. CASE TurnTools(r)
  BY <1>5 DEF IInv, TypeOK, ActiveStreamsExact, InLoop, TurnTools, Goto
<1>6. CASE ToolCall(r)
  BY <1>6 DEF IInv, TypeOK, ActiveStreamsExact, InLoop, ToolCall, LoopTop, Return, Speak, Goto, Tell
<1>7. QED
  BY <1>1, <1>2, <1>3, <1>4, <1>5, <1>6 DEF LoopStep

\* Every step is one of TurnTaking or a stutter.
LEMMA StepTurns == IInv /\ [Next]_vars => Turned
<1> SUFFICES ASSUME IInv, [Next]_vars
             PROVE  Turned
  OBVIOUS
<1>1. ASSUME NEW r \in Sends, LoadHistory(r)
      PROVE  Turned
  BY <1>1 DEF Turned, Promise!Next, Promise!Open, IInv, TypeOK, Early, LoadHistory, Goto
<1>2. ASSUME NEW r \in Sends,
             SendMessage(r) \/ Lookup(r) \/ SaveUser(r) \/ LoadTree(r) \/ SaveAnswer(r)
               \/ TurnText(r) \/ Post(r) \/ AddMessage(r)
      PROVE  UNCHANGED <<active, turns>>
  BY <1>2 DEF SendMessage, Lookup, SaveUser, LoadTree, SaveAnswer, TurnText, Post, AddMessage
<1>3. CASE StopChat
  BY <1>3 DEF Turned, Promise!Next, Promise!Close, StopChat
<1>4. CASE Remove
  BY <1>4 DEF Turned, Remove
<1>5. CASE UNCHANGED vars
  BY <1>5 DEF Turned, vars
<1>6. QED
  BY <1>1, <1>2, <1>3, <1>4, <1>5, LoopStepTurns DEF Turned, Next, HandlerStep

\* Only the registered stream asks the model for another turn; a stopped or
\* superseded one never does, for any number of messages and any limits.
THEOREM Implementation == Spec => KeepsTurns
<1>1. Init => Promise!Init
  BY DEF Init, Promise!Init
<1>2. IInv /\ [Next]_vars => [Promise!Next]_<<active, turns>>
  BY StepTurns DEF Turned
<1>3. QED
  BY <1>1, <1>2, Invariance, PTL DEF Spec, KeepsTurns, Promise!Spec
-----------------------------------------------------------------------------
(* The transcript.                                                          *)

InLog(m) == \E i \in 1 .. Len(log) : log[i] = m

\* SaveUser and SaveAnswer each store one message of a send and AddMessage that
\* of another, nothing is stored in a conversation that was removed: whatever
\* is sent, stopped, superseded or posted meanwhile, a message is in the
\* conversation once, and an answer comes after the message it answers.
Transcript ==
    /\ \A i, j \in 1 .. Len(log) : log[i] = log[j] => i = j
    /\ \A j \in 1 .. Len(log), r \in Sends : log[j] = <<"assistant", r>> =>
          \E i \in 1 .. j - 1 : log[i] = <<"user", r>>
    /\ ~exists => log = << >>

\* "Load conversation history" does what it says as long as there are fewer
\* messages than HistoryLimit: the stream has the message it is to answer.
ShortHistoryKept ==
    \A r \in Sends : exists /\ InLoop(r) /\ Len(prompt[r]) < HistoryLimit =>
        \E i \in 1 .. Len(prompt[r]) : prompt[r][i] = <<"user", r>>

\* Where the handling stands tells what is stored of a send.
Stored ==
    \A r \in Sends :
        /\ pc[r] \in {"new", "post", "lookup", "save"} => ~InLog(<<"user", r>>)
        /\ pc[r] # "done" => ~InLog(<<"assistant", r>>)
        /\ exists /\ pc[r] \in {"tree", "history", "turn", "tools", "answer"} =>
              InLog(<<"user", r>>)

\* A message more is in the log, the others stay where they were.
LEMMA Logged ==
    ASSUME IInv, NEW m \in Messages, log' = Append(log, m)
    PROVE  /\ Len(log) \in Nat /\ Len(log') = Len(log) + 1
           /\ \A i \in 1 .. Len(log) : log'[i] = log[i]
           /\ log'[Len(log) + 1] = m
           /\ \A x : InLog(x)' <=> InLog(x) \/ x = m
<1>1. log \in Seq(Messages)
  BY DEF IInv, TypeOK
<1>2. Len(log) \in Nat
  BY <1>1, LenProperties
<1>3. /\ Len(log') = Len(log) + 1
      /\ \A i \in 1 .. Len(log) : log'[i] = log[i]
      /\ log'[Len(log) + 1] = m
  BY <1>1, AppendProperties
<1>4. 1 .. Len(log') = (1 .. Len(log)) \cup {Len(log) + 1}
  BY <1>2, <1>3
<1>5. \A x : InLog(x)' <=> InLog(x) \/ x = m
  BY <1>3, <1>4 DEF InLog
<1>6. QED
  BY <1>2, <1>3, <1>5

\* The messages are two for each send.
LEMMA TwoMessages ==
    ASSUME NEW r \in Sends
    PROVE  /\ <<"user", r>> \in Messages /\ <<"assistant", r>> \in Messages
           /\ \A s : /\ <<"user", s>> # <<"assistant", r>>
                     /\ <<"user", s>> = <<"user", r>> <=> s = r
                     /\ <<"assistant", s>> = <<"assistant", r>> <=> s = r
BY DEF Messages

\* A message that is new, and that answers one which is there, keeps the order.
LEMMA TranscriptGrows ==
    ASSUME IInv, Transcript, exists', NEW m \in Messages, ~InLog(m), log' = Append(log, m),
           \A r \in Sends : m = <<"assistant", r>> => InLog(<<"user", r>>)
    PROVE  Transcript'
<1> DEFINE n == Len(log)
<1>1. /\ n \in Nat /\ Len(log') = n + 1
      /\ \A i \in 1 .. n : log'[i] = log[i]
      /\ log'[n + 1] = m
  BY Logged
<1>2. \A i \in 1 .. n : log[i] # m
  BY DEF InLog
<1>3. ASSUME NEW i \in 1 .. n + 1, NEW j \in 1 .. n + 1, log'[i] = log'[j]
      PROVE  i = j
  <2>1. CASE i \in 1 .. n /\ j \in 1 .. n
    BY <1>1, <1>3, <2>1 DEF Transcript
  <2>2. CASE i = n + 1 \/ j = n + 1
    BY <1>1, <1>2, <1>3, <2>2
  <2>3. QED
    BY <1>1, <2>1, <2>2
<1>4. ASSUME NEW j \in 1 .. n + 1, NEW r \in Sends, log'[j] = <<"assistant", r>>
      PROVE  \E i \in 1 .. j - 1 : log'[i] = <<"user", r>>
  <2>1. CASE j \in 1 .. n
    <3>1. PICK i \in 1 .. j - 1 : log[i] = <<"user", r>>
      BY <1>1, <1>4, <2>1, ZenonT(40) DEF Transcript
    <3>2. i \in 1 .. n
      BY <1>1, <2>1
    <3>3. QED
      BY <1>1, <3>1, <3>2
  <2>2. CASE j = n + 1
    <3>1. PICK i \in 1 .. n : log[i] = <<"user", r>>
      BY <1>1, <1>4, <2>2 DEF InLog
    <3>2. i \in 1 .. j - 1
      BY <1>1, <2>2
    <3>3. QED
      BY <1>1, <3>1, <3>2
  <2>3. QED
    BY <1>1, <2>1, <2>2
<1>5. QED
  BY <1>1, <1>3, <1>4 DEF Transcript

\* A step that stores nothing and goes on keeps the order.
LEMMA StoredKept ==
    ASSUME IInv, Stored, Transcript, UNCHANGED dbVars,
           \A r \in Sends :
              /\ pc'[r] \in {"new", "post", "lookup", "save"} =>
                    pc[r] \in {"new", "post", "lookup", "save"}
              /\ pc'[r] # "done" => pc[r] # "done"
              /\ pc'[r] \in {"tree", "history", "turn", "tools", "answer"} =>
                    pc[r] \in {"tree", "history", "turn", "tools", "answer"}
    PROVE  Stored' /\ Transcript'
<1>1. \A x : InLog(x)' <=> InLog(x)
  BY DEF InLog
<1>2. Stored'
  BY <1>1 DEF Stored
<1>3. log' = log /\ exists' = exists
  OBVIOUS
<1>p. /\ \A i, j \in 1 .. Len(log') : log'[i] = log'[j] => i = j
      /\ \A j \in 1 .. Len(log'), r \in Sends : log'[j] = <<"assistant", r>> =>
            \E i \in 1 .. j - 1 : log'[i] = <<"user", r>>
  BY <1>3, ZenonT(40) DEF Transcript
<1>q. ~exists' => log' = << >>
  BY <1>3 DEF Transcript
<1>4. Transcript'
  BY <1>p, <1>q, Zenon DEF Transcript
<1>5. QED
  BY <1>2, <1>4

\* Wherever a turn or a tool call leads, the stream was in its loop.
LEMMA LoopGoes ==
    ASSUME NEW r \in Sends, LoopStep(r)
    PROVE  /\ pc[r] \in {"turn", "tools"}
           /\ pc' = pc \/ \E l \in {"turn", "tools", "answer", "done"} : Goto(r, l)
           /\ UNCHANGED dbVars /\ UNCHANGED prompt
<1>1. pc[r] \in {"turn", "tools"} /\ UNCHANGED dbVars /\ UNCHANGED prompt
  BY DEF LoopStep, TurnAborted, TurnFails, TurnTruncated, TurnFinished, TurnTools, ToolCall
<1>2. LoopTop(r) \/ Return(r) => \E l \in {"turn", "answer", "done"} : Goto(r, l)
  BY Zenon DEF LoopTop, Return
<1>3. LoopTop(r) \/ Return(r) \/ UNCHANGED pc \/ Goto(r, "tools")
  BY Zenon DEF LoopStep, TurnAborted, TurnFails, TurnTruncated, TurnFinished, TurnTools, ToolCall
<1>4. QED
  BY <1>1, <1>2, <1>3

\* Every step keeps the transcript and what is known of it.
LEMMA StoredStep == IInv /\ Stored /\ Transcript /\ [Next]_vars => Stored' /\ Transcript'
<1> SUFFICES ASSUME IInv, Stored, Transcript, [Next]_vars
             PROVE  Stored' /\ Transcript'
  OBVIOUS
<1> USE DEF Goto
<1>0. pc \in [Sends -> {"new", "post", "lookup", "save", "tree", "history", "turn", "tools",
                        "answer", "done"}]
  BY DEF IInv, TypeOK
<1>1. ASSUME NEW r \in Sends, SendMessage(r) \/ Lookup(r) \/ LoadTree(r) \/ LoadHistory(r)
                                \/ TurnText(r) \/ Post(r)
      PROVE  Stored' /\ Transcript'
  <2>1. /\ UNCHANGED dbVars
        /\ \/ pc[r] = "new" /\ \E l \in {"lookup", "post", "done"} : Goto(r, l)
           \/ pc[r] = "lookup" /\ \E l \in {"save", "done"} : Goto(r, l)
           \/ pc[r] = "tree" /\ \E l \in {"history", "done"} : Goto(r, l)
           \/ pc[r] = "history" /\ \E l \in {"turn", "done"} : Goto(r, l)
           \/ UNCHANGED pc
    BY <1>1, Zenon DEF SendMessage, Lookup, LoadTree, LoadHistory, TurnText, Post, Catch
  <2>2. QED
    BY <1>0, <2>1, StoredKept
<1>2. ASSUME NEW r \in Sends, LoopStep(r) PROVE Stored' /\ Transcript'
  BY <1>0, <1>2, LoopGoes, StoredKept
<1>3. ASSUME NEW r \in Sends, SaveUser(r) \/ AddMessage(r) PROVE Stored' /\ Transcript'
  <2>1. /\ pc[r] \in {"save", "post"} /\ exists' = exists
        /\ \/ exists /\ log' = Append(log, <<"user", r>>) /\ \E l \in {"tree", "done"} : Goto(r, l)
           \/ log' = log /\ Goto(r, "done")
    BY <1>3, Zenon DEF SaveUser, AddMessage, Catch
  <2>2. CASE log' = log /\ Goto(r, "done")
    BY <1>0, <2>1, <2>2, StoredKept
  <2>3. CASE /\ exists /\ log' = Append(log, <<"user", r>>)
             /\ \E l \in {"tree", "done"} : Goto(r, l)
    <3>1. ~InLog(<<"user", r>>)
      BY <2>1 DEF Stored
    <3>2. Transcript'
      BY <2>1, <2>3, <3>1, TwoMessages, TranscriptGrows
    <3>3. \A x : InLog(x)' <=> InLog(x) \/ x = <<"user", r>>
      BY <2>3, TwoMessages, Logged
    <3>4. \A s \in Sends \ {r} : pc'[s] = pc[s]
      BY <2>3
    <3>5. pc'[r] \in {"tree", "done"}
      BY <1>0, <2>3
    <3>6. \A s \in Sends : /\ InLog(<<"user", s>>)' <=> InLog(<<"user", s>>) \/ s = r
                           /\ InLog(<<"assistant", s>>)' <=> InLog(<<"assistant", s>>)
      BY <3>3, TwoMessages
    <3>7. Stored'
      BY <2>1, <3>4, <3>5, <3>6 DEF Stored
    <3>8. QED
      BY <3>2, <3>7
  <2>4. QED
    BY <2>1, <2>2, <2>3
<1>4. ASSUME NEW r \in Sends, SaveAnswer(r) PROVE Stored' /\ Transcript'
  <2>1. /\ pc[r] = "answer" /\ exists' = exists /\ Goto(r, "done")
        /\ (exists /\ log' = Append(log, <<"assistant", r>>)) \/ log' = log
    BY <1>4 DEF SaveAnswer, Catch
  <2>2. CASE log' = log
    BY <1>0, <2>1, <2>2, StoredKept
  <2>3. CASE exists /\ log' = Append(log, <<"assistant", r>>)
    <3>1. ~InLog(<<"assistant", r>>) /\ InLog(<<"user", r>>)
      BY <2>1, <2>3 DEF Stored
    <3>2. Transcript'
      BY <2>1, <2>3, <3>1, TwoMessages, TranscriptGrows
    <3>3. \A x : InLog(x)' <=> InLog(x) \/ x = <<"assistant", r>>
      BY <2>3, TwoMessages, Logged
    <3>4. \A s \in Sends : /\ InLog(<<"assistant", s>>)' <=> InLog(<<"assistant", s>>) \/ s = r
                           /\ InLog(<<"user", s>>)' <=> InLog(<<"user", s>>)
      BY <3>3, TwoMessages
    <3>5. Stored'
      BY <1>0, <2>1, <3>4 DEF Stored
    <3>6. QED
      BY <3>2, <3>5
  <2>4. QED
    BY <2>1, <2>2, <2>3
<1>5. CASE StopChat \/ UNCHANGED vars
  <2>1. UNCHANGED dbVars /\ UNCHANGED pc
    BY <1>5 DEF StopChat, vars
  <2>2. QED
    BY <2>1, StoredKept
<1>6. CASE Remove
  <2>1. exists' = FALSE /\ log' = << >> /\ UNCHANGED pc
    BY <1>6 DEF Remove
  <2>2. Len(log') = 0 /\ \A x : ~InLog(x)'
    BY <2>1, EmptySeq DEF InLog
  <2>3. QED
    BY <2>1, <2>2 DEF Stored, Transcript
<1>7. QED
  BY <1>1, <1>2, <1>3, <1>4, <1>5, <1>6 DEF Next, HandlerStep

\* A short history is the whole of the log.
LEMMA OldestWhole ==
    ASSUME log \in Seq(Messages), Len(Oldest) < HistoryLimit
    PROVE  \A m : InLog(m) => \E i \in 1 .. Len(Oldest) : Oldest[i] = m
<1> DEFINE n == IF Len(log) < HistoryLimit THEN Len(log) ELSE HistoryLimit
<1>1. Len(log) \in Nat
  BY LenProperties
<1>2. n \in Int /\ 0 <= n /\ n <= Len(log)
  BY <1>1
<1>3. \A i \in 1 .. n : log[i] \in Messages
  BY <1>2, ElementOfSeq
<1>4. /\ Len(Oldest) = IF 1 <= n THEN n - 1 + 1 ELSE 0
      /\ \A i \in 1 .. n - 1 + 1 : Oldest[i] = log[1 + i - 1]
  BY <1>2, <1>3, SubSeqProperties DEF Oldest
<1>5. Len(Oldest) = n
  BY <1>2, <1>4
<1>6. n = Len(log)
  BY <1>1, <1>5
<1>7. \A i \in 1 .. Len(log) : Oldest[i] = log[i]
  <2> TAKE i \in 1 .. Len(log)
  <2>1. i \in 1 .. n - 1 + 1 /\ 1 + i - 1 = i
    BY <1>1, <1>6
  <2>2. QED
    BY <1>4, <2>1
<1>8. QED
  BY <1>5, <1>6, <1>7 DEF InLog

\* What a stream was given stays what it was given.
LEMMA ShortKept ==
    ASSUME ShortHistoryKept, UNCHANGED prompt, exists' => exists,
           \A r \in Sends : InLoop(r)' => InLoop(r)
    PROVE  ShortHistoryKept'
BY DEF ShortHistoryKept

\* The history is read once, when the message is stored already.
LEMMA ShortStep == IInv /\ Stored /\ ShortHistoryKept /\ [Next]_vars => ShortHistoryKept'
<1> SUFFICES ASSUME IInv, Stored, ShortHistoryKept, [Next]_vars
             PROVE  ShortHistoryKept'
  OBVIOUS
<1> USE DEF Goto
<1>0. /\ pc \in [Sends -> {"new", "post", "lookup", "save", "tree", "history", "turn", "tools",
                           "answer", "done"}]
      /\ prompt \in [Sends -> Seq(Messages)] /\ log \in Seq(Messages)
  BY DEF IInv, TypeOK
<1>1. ASSUME NEW r \in Sends, SendMessage(r) \/ Lookup(r) \/ LoadTree(r) \/ SaveUser(r)
                                \/ SaveAnswer(r) \/ TurnText(r) \/ Post(r) \/ AddMessage(r)
      PROVE  ShortHistoryKept'
  <2>1. /\ UNCHANGED prompt /\ UNCHANGED exists
        /\ UNCHANGED pc \/ \E l \in {"lookup", "post", "save", "tree", "history", "done"} : Goto(r, l)
    BY <1>1, Zenon DEF SendMessage, Lookup, LoadTree, SaveUser, SaveAnswer, TurnText, Post,
       AddMessage, Catch
  <2>2. \A s \in Sends : InLoop(s)' => InLoop(s)
    BY <1>0, <2>1 DEF InLoop
  <2>3. prompt' = prompt /\ (exists' => exists)
    BY <2>1
  <2>4. QED
    BY <2>2, <2>3, ShortKept
<1>2. ASSUME NEW r \in Sends, LoopStep(r) PROVE ShortHistoryKept'
  BY <1>0, <1>2, LoopGoes, ShortKept DEF InLoop
<1>3. ASSUME NEW r \in Sends, LoadHistory(r) PROVE ShortHistoryKept'
  <2>1. CASE Catch(r) /\ UNCHANGED prompt
    BY <1>0, <1>3, <2>1, ShortKept DEF LoadHistory, Catch, InLoop
  <2>2. CASE prompt' = [prompt EXCEPT ![r] = Oldest] /\ Goto(r, "turn")
    <3>1. pc[r] = "history" /\ UNCHANGED exists
      BY <1>3 DEF LoadHistory
    <3>2. exists /\ Len(Oldest) < HistoryLimit =>
            \E i \in 1 .. Len(Oldest) : Oldest[i] = <<"user", r>>
      BY <1>0, <3>1, OldestWhole DEF Stored
    <3>3. prompt'[r] = Oldest /\ \A s \in Sends \ {r} : prompt'[s] = prompt[s] /\ pc'[s] = pc[s]
      BY <1>0, <2>2
    <3>4. QED
      BY <3>1, <3>2, <3>3 DEF ShortHistoryKept, InLoop
  <2>3. QED
    BY <1>3, <2>1, <2>2 DEF LoadHistory
<1>4. CASE StopChat \/ Remove \/ UNCHANGED vars
  <2>1. UNCHANGED <<prompt, pc>> /\ (exists' => exists)
    BY <1>4 DEF StopChat, Remove, vars
  <2>2. QED
    BY <2>1, ShortKept DEF InLoop
<1>5. QED
  BY <1>1, <1>2, <1>3, <1>4 DEF Next, HandlerStep

\* What is stored, and in which order, holds in every reachable state.
LEMMA StoredInvariance == Spec => [](Stored /\ Transcript)
<1>1. Init => Stored /\ Transcript
  BY EmptySeq DEF Init, Stored, Transcript, InLog
<1>2. QED
  BY <1>1, StoredStep, Invariance, PTL DEF Spec

\* For any number of messages and limits: a message is stored once, and an
\* answer after the message it answers.
THEOREM TranscriptSafety == Spec => []Transcript
BY StoredInvariance, PTL

\* The model is given the message it is to answer as long as the history is
\* shorter than its limit: what is lost at the limit is lost nowhere else.
THEOREM HistorySafety == Spec => []ShortHistoryKept
<1>1. Init => ShortHistoryKept
  BY DEF Init, ShortHistoryKept, InLoop
<1>2. QED
  BY <1>1, ShortStep, StoredInvariance, Invariance, PTL DEF Spec
-----------------------------------------------------------------------------
(* The way to the end of a response: what ResponsesEnd needs beside the     *)
(* fairness of its steps.                                                   *)

Answering == {"tree", "history", "turn", "tools", "answer"}

\* A turn of the model and the calls it may ask for.
Round == MaxCalls + 1

\* How many awaited calls are ahead of a send at most.
Ahead(label, turn, call) ==
    CASE label = "new" -> MaxTurns * Round + 6
      [] label = "lookup" -> MaxTurns * Round + 5
      [] label = "save" -> MaxTurns * Round + 4
      [] label = "tree" -> MaxTurns * Round + 3
      [] label = "history" -> MaxTurns * Round + 2
      [] label = "turn" -> (MaxTurns - turn) * Round + Round + 1
      [] label = "tools" -> (MaxTurns - turn) * Round + call + 1
      [] label \in {"answer", "post"} -> 1
      [] label = "done" -> 0

Left(r) == Ahead(pc[r], turns[r], calls[r])

\* A response that was announced and not ended is being worked on, and the work
\* ahead of it is a number.
Announced ==
    \A r \in Sends :
        /\ ui[r] = "start" <=> pc[r] \in Answering
        /\ Left(r) \in Nat

\* Every awaited call of the handling of a send brings it nearer to its end, and
\* nothing that anybody else does, no stop, newer message or removal, puts it
\* back: no turn is asked for again, no tool call executed twice.
Nearer ==
    [][\A r \in Sends : /\ Left(r)' <= Left(r)
                        /\ HandlerStep(r) => Left(r)' < Left(r)]_vars

\* The work that is ahead, label by label.
LEMMA AheadValues ==
    ASSUME NEW t \in 0 .. MaxTurns, NEW c \in 0 .. MaxCalls
    PROVE  /\ Round \in Nat /\ MaxTurns * Round \in Nat /\ (MaxTurns - t) * Round \in Nat
           /\ Ahead("new", t, c) = MaxTurns * Round + 6
           /\ Ahead("lookup", t, c) = MaxTurns * Round + 5
           /\ Ahead("save", t, c) = MaxTurns * Round + 4
           /\ Ahead("tree", t, c) = MaxTurns * Round + 3
           /\ Ahead("history", t, c) = MaxTurns * Round + 2
           /\ Ahead("turn", t, c) = (MaxTurns - t) * Round + Round + 1
           /\ Ahead("tools", t, c) = (MaxTurns - t) * Round + c + 1
           /\ Ahead("answer", t, c) = 1 /\ Ahead("post", t, c) = 1 /\ Ahead("done", t, c) = 0
<1>1. Round \in Nat /\ MaxTurns - t \in Nat /\ MaxTurns \in Nat
  BY DEF Round
<1>2. \A m, n \in Nat : m * n \in Nat
  OBVIOUS
<1>3. MaxTurns * Round \in Nat /\ (MaxTurns - t) * Round \in Nat
  BY <1>1, <1>2
<1>4. QED
  BY <1>1, <1>3 DEF Ahead

\* The work that is ahead is a number.
LEMMA AheadNat ==
    ASSUME NEW t \in 0 .. MaxTurns, NEW c \in 0 .. MaxCalls,
           NEW l \in {"new", "post", "lookup", "save", "tree", "history", "turn", "tools",
                     "answer", "done"}
    PROVE  Ahead(l, t, c) \in Nat
<1>1. \A m, n \in Nat : m + n + 1 \in Nat /\ m + 6 \in Nat
  OBVIOUS
<1>2. c \in Nat
  OBVIOUS
<1>3. /\ (MaxTurns - t) * Round + Round + 1 \in Nat /\ (MaxTurns - t) * Round + c + 1 \in Nat
  BY <1>1, <1>2, AheadValues
<1>4. /\ MaxTurns * Round \in Nat
      /\ Ahead("new", t, c) = MaxTurns * Round + 6
      /\ Ahead("lookup", t, c) = MaxTurns * Round + 5
      /\ Ahead("save", t, c) = MaxTurns * Round + 4
      /\ Ahead("tree", t, c) = MaxTurns * Round + 3
      /\ Ahead("history", t, c) = MaxTurns * Round + 2
      /\ Ahead("turn", t, c) \in Nat /\ Ahead("tools", t, c) \in Nat
      /\ Ahead("answer", t, c) = 1 /\ Ahead("post", t, c) = 1 /\ Ahead("done", t, c) = 0
  BY <1>3, AheadValues
<1>5. \A m \in Nat : \A k \in 0 .. 6 : m + k \in Nat
  OBVIOUS
<1>6. QED
  BY <1>4, <1>5

\* A round less is ahead after a turn.
LEMMA RoundLess ==
    ASSUME NEW t \in 0 .. MaxTurns, t < MaxTurns
    PROVE  (MaxTurns - t) * Round = (MaxTurns - (t + 1)) * Round + Round
<1>1. Round \in Nat /\ MaxTurns \in Nat
  BY DEF Round
<1>2. \A m, n \in Nat : \A k \in 0 .. m : (m - k) * n = (m - (k + 1)) * n + n
  OBVIOUS
<1>3. QED
  BY <1>1, <1>2
\* Only the send that is handled moves.
Alone(r) ==
    \A s \in Sends \ {r} :
        pc'[s] = pc[s] /\ turns'[s] = turns[s] /\ calls'[s] = calls[s] /\ ui'[s] = ui[s]

\* The types that the measure is made of, before and after a step.
LEMMA LeftTypes ==
    ASSUME IInv, IInv', NEW r \in Sends
    PROVE  /\ turns[r] \in 0 .. MaxTurns /\ calls[r] \in 0 .. MaxCalls
           /\ turns'[r] \in 0 .. MaxTurns /\ calls'[r] \in 0 .. MaxCalls
           /\ Left(r) \in Nat
           /\ Left(r)' = Ahead(pc'[r], turns'[r], calls'[r]) /\ Left(r)' \in Nat
<1>1. /\ turns[r] \in 0 .. MaxTurns /\ calls[r] \in 0 .. MaxCalls
      /\ pc[r] \in {"new", "post", "lookup", "save", "tree", "history", "turn", "tools",
                    "answer", "done"}
  BY DEF IInv, TypeOK
<1>2. /\ turns'[r] \in 0 .. MaxTurns /\ calls'[r] \in 0 .. MaxCalls
      /\ pc'[r] \in {"new", "post", "lookup", "save", "tree", "history", "turn", "tools",
                     "answer", "done"}
  BY DEF IInv, TypeOK
<1>3. Left(r) \in Nat
  BY <1>1, AheadNat DEF Left
<1>4. Left(r)' = Ahead(pc'[r], turns'[r], calls'[r])
  BY DEF Left, Ahead, Round
<1>5. Ahead(pc'[r], turns'[r], calls'[r]) \in Nat
  BY <1>2, AheadNat
<1>6. QED
  BY <1>1, <1>2, <1>3, <1>4, <1>5

\* The loop returns: at most the answer is still to be stored.
LEMMA ReturnNearer ==
    ASSUME IInv, IInv', NEW r \in Sends, Return(r), ui[r] = "start"
    PROVE  /\ Left(r)' <= 1
           /\ ui'[r] = "start" <=> pc'[r] \in Answering
           /\ \A s \in Sends \ {r} : pc'[s] = pc[s] /\ ui'[s] = ui[s]
<1>1. \/ pc' = [pc EXCEPT ![r] = "answer"] /\ ui' = ui
      \/ pc' = [pc EXCEPT ![r] = "done"] /\ ui' = [ui EXCEPT ![r] = "end"]
  BY Zenon DEF Return, Goto, Tell
<1>2. \/ pc'[r] = "answer" /\ ui'[r] = "start"
      \/ pc'[r] = "done" /\ ui'[r] = "end"
  BY <1>1 DEF IInv, TypeOK
<1>3. Left(r)' <= 1
  <2>1. Left(r)' = Ahead(pc'[r], turns'[r], calls'[r])
    BY LeftTypes
  <2>2. Ahead("answer", turns'[r], calls'[r]) = 1 /\ Ahead("done", turns'[r], calls'[r]) = 0
    BY LeftTypes, AheadValues
  <2>3. QED
    BY <1>2, <2>1, <2>2
<1>4. \A s \in Sends \ {r} : pc'[s] = pc[s] /\ ui'[s] = ui[s]
  BY <1>1, SMTT(30) DEF IInv, TypeOK
<1>5. QED
  BY <1>2, <1>3, <1>4 DEF Answering

\* The loop goes round: the rounds that are left, and the first of them.
LEMMA LoopTopNearer ==
    ASSUME IInv, IInv', NEW r \in Sends, LoopTop(r), ui[r] = "start"
    PROVE  /\ Left(r)' <= (MaxTurns - turns[r]) * Round + 1
           /\ ui'[r] = "start" <=> pc'[r] \in Answering
           /\ \A s \in Sends \ {r} : pc'[s] = pc[s] /\ ui'[s] = ui[s] /\ turns'[s] = turns[s]
<1>1. (MaxTurns - turns[r]) * Round \in Nat
  BY LeftTypes, AheadValues
<1>2. CASE Return(r) /\ UNCHANGED turns
  BY <1>1, <1>2, ReturnNearer, LeftTypes
<1>3. CASE /\ turns[r] < MaxTurns /\ turns' = [turns EXCEPT ![r] = @ + 1]
           /\ Goto(r, "turn") /\ UNCHANGED ui
  <2>1. /\ turns'[r] = turns[r] + 1 /\ pc'[r] = "turn" /\ ui'[r] = "start"
        /\ \A s \in Sends \ {r} : pc'[s] = pc[s] /\ ui'[s] = ui[s] /\ turns'[s] = turns[s]
    BY <1>3 DEF IInv, TypeOK, Goto
  <2>2. Left(r)' = (MaxTurns - (turns[r] + 1)) * Round + Round + 1
    <3>1. turns[r] + 1 \in 0 .. MaxTurns /\ calls'[r] \in 0 .. MaxCalls
      BY <2>1, LeftTypes
    <3>2. Left(r)' = Ahead("turn", turns[r] + 1, calls'[r])
      BY <2>1, LeftTypes
    <3>3. Ahead("turn", turns[r] + 1, calls'[r]) =
             (MaxTurns - (turns[r] + 1)) * Round + Round + 1
      BY <3>1, AheadValues
    <3>4. QED
      BY <3>2, <3>3, Zenon
  <2>3. (MaxTurns - turns[r]) * Round = (MaxTurns - (turns[r] + 1)) * Round + Round
    BY <1>3, LeftTypes, RoundLess
  <2>4. Left(r)' <= (MaxTurns - turns[r]) * Round + 1
    BY <1>1, <2>2, <2>3
  <2>5. QED
    BY <2>1, <2>4 DEF Answering
<1>4. QED
  BY <1>2, <1>3, Zenon DEF LoopTop

\* Every turn and every tool call comes nearer to the end.
LEMMA LoopNearer ==
    ASSUME IInv, IInv', Announced, NEW r \in Sends, LoopStep(r)
    PROVE  /\ Left(r)' < Left(r)
           /\ ui'[r] = "start" <=> pc'[r] \in Answering
           /\ Alone(r)
<1>0. pc[r] \in {"turn", "tools"} /\ ui[r] = "start"
  BY LoopGoes DEF Announced, Answering
<1>1. /\ pc[r] = "turn" => Left(r) = (MaxTurns - turns[r]) * Round + Round + 1
      /\ pc[r] = "tools" => Left(r) = (MaxTurns - turns[r]) * Round + calls[r] + 1
      /\ (MaxTurns - turns[r]) * Round \in Nat /\ Left(r)' \in Nat
      /\ calls[r] \in Nat /\ Round \in Nat /\ Round > 1
  <2>1. Round \in Nat /\ Round > 1
    BY DEF Round
  <2>2. QED
    BY <2>1, LeftTypes, AheadValues DEF Left
<1>2. CASE /\ pc[r] = "turn" /\ Return(r) /\ UNCHANGED <<turns, calls>>
  BY <1>0, <1>1, <1>2, ReturnNearer DEF Alone
<1>3. CASE /\ pc[r] = "turn" /\ LoopTop(r) /\ UNCHANGED calls
  BY <1>0, <1>1, <1>3, LoopTopNearer DEF Alone
<1>4. CASE TurnTools(r)
  <2>1. /\ pc[r] = "turn" /\ pc'[r] = "tools" /\ UNCHANGED <<turns, ui>>
        /\ calls'[r] \in 1 .. MaxCalls
        /\ \A s \in Sends \ {r} : pc'[s] = pc[s] /\ calls'[s] = calls[s]
    BY <1>4 DEF TurnTools, Goto, IInv, TypeOK
  <2>2. Left(r)' = (MaxTurns - turns[r]) * Round + calls'[r] + 1
    BY <2>1, LeftTypes, AheadValues
  <2>3. Round = MaxCalls + 1
    BY DEF Round
  <2>4. Left(r)' < Left(r)
    BY <1>1, <2>1, <2>2, <2>3
  <2>5. QED
    BY <1>0, <2>1, <2>4 DEF Alone, Answering
<1>5. CASE ToolCall(r)
  <2>1. /\ pc[r] = "tools" /\ calls[r] \in 1 .. MaxCalls /\ calls'[r] = calls[r] - 1
        /\ \A s \in Sends \ {r} : calls'[s] = calls[s]
    BY <1>5 DEF ToolCall, IInv, TypeOK, CallsLeft
  <2>2. CASE calls[r] > 1
    <3>1. UNCHANGED <<pc, turns, ui>>
      BY <1>5, <2>2 DEF ToolCall
    <3>a. Left(r)' = Ahead("tools", turns[r], calls'[r])
      BY <2>1, <3>1, LeftTypes
    <3>2. Left(r)' = (MaxTurns - turns[r]) * Round + calls'[r] + 1
      BY <3>a, LeftTypes, AheadValues
    <3>3. Left(r)' < Left(r)
      BY <1>1, <2>1, <3>2
    <3>4. QED
      BY <1>0, <2>1, <3>1, <3>3 DEF Alone, Answering
  <2>3. CASE ~(calls[r] > 1)
    <3>1. LoopTop(r)
      BY <1>5, <2>3 DEF ToolCall
    <3>2. Left(r)' <= (MaxTurns - turns[r]) * Round + 1
      BY <1>0, <3>1, LoopTopNearer
    <3>3. Left(r)' < Left(r)
      BY <1>1, <2>1, <3>2
    <3>4. QED
      BY <1>0, <2>1, <3>1, <3>3, LoopTopNearer DEF Alone
  <2>4. QED
    BY <2>2, <2>3
<1>6. TurnAborted(r) \/ TurnFails(r) \/ TurnTruncated(r) \/ TurnFinished(r) =>
        /\ pc[r] = "turn" /\ UNCHANGED calls
        /\ (Return(r) /\ UNCHANGED turns) \/ LoopTop(r)
  BY Zenon DEF TurnAborted, TurnFails, TurnTruncated, TurnFinished
<1>7. QED
  BY <1>2, <1>3, <1>4, <1>5, <1>6 DEF LoopStep

\* The same before and after the loop.
LEMMA HandlerNearer ==
    ASSUME IInv, IInv', Announced, NEW r \in Sends, HandlerStep(r)
    PROVE  /\ Left(r)' < Left(r)
           /\ ui'[r] = "start" <=> pc'[r] \in Answering
           /\ Alone(r)
<1> USE DEF Goto, Tell
<1>0. /\ pc \in [Sends -> {"new", "post", "lookup", "save", "tree", "history", "turn", "tools",
                           "answer", "done"}]
      /\ ui \in [Sends -> {"none", "sent", "start", "error", "end"}]
      /\ ui[r] = "start" <=> pc[r] \in Answering
  BY DEF IInv, TypeOK, Announced
<1>1. /\ turns[r] \in 0 .. MaxTurns /\ calls[r] \in 0 .. MaxCalls /\ MaxTurns * Round \in Nat
      /\ turns'[r] \in 0 .. MaxTurns /\ calls'[r] \in 0 .. MaxCalls
      /\ Left(r) = Ahead(pc[r], turns[r], calls[r])
      /\ Left(r)' = Ahead(pc'[r], turns'[r], calls'[r])
  BY LeftTypes, AheadValues DEF Left
<1>2. ASSUME \/ pc[r] = "lookup" /\ pc'[r] \in {"save", "done"}
             \/ pc[r] = "save" /\ pc'[r] \in {"tree", "done"}
             \/ pc[r] = "tree" /\ pc'[r] \in {"history", "done"}
             \/ pc[r] = "history" /\ pc'[r] = "done"
             \/ pc[r] = "answer" /\ pc'[r] = "done"
      PROVE  Left(r)' < Left(r)
  BY <1>1, <1>2, AheadValues
<1>3. CASE Lookup(r)
  <2>1. /\ pc[r] = "lookup" /\ UNCHANGED <<turns, calls>>
        /\ \/ pc' = [pc EXCEPT ![r] = "save"] /\ UNCHANGED ui
           \/ pc' = [pc EXCEPT ![r] = "done"] /\ ui' = [ui EXCEPT ![r] = "error"]
    BY <1>3, Zenon DEF Lookup
  <2>2. QED
    BY <1>0, <1>2, <2>1 DEF Alone, Answering
<1>4. CASE SaveUser(r)
  <2>1. /\ pc[r] = "save" /\ UNCHANGED <<turns, calls>>
        /\ \/ pc' = [pc EXCEPT ![r] = "tree"] /\ ui' = [ui EXCEPT ![r] = "start"]
           \/ pc' = [pc EXCEPT ![r] = "done"] /\ ui' = [ui EXCEPT ![r] = "end"]
    BY <1>4, Zenon DEF SaveUser, Catch
  <2>2. QED
    BY <1>0, <1>2, <2>1 DEF Alone, Answering
<1>5. CASE LoadTree(r)
  <2>1. /\ pc[r] = "tree" /\ UNCHANGED <<turns, calls>>
        /\ \/ pc' = [pc EXCEPT ![r] = "history"] /\ UNCHANGED ui
           \/ pc' = [pc EXCEPT ![r] = "done"] /\ ui' = [ui EXCEPT ![r] = "end"]
    BY <1>5, Zenon DEF LoadTree, Catch
  <2>2. QED
    BY <1>0, <1>2, <2>1 DEF Alone, Answering
<1>6. CASE LoadHistory(r)
  <2>1. /\ pc[r] = "history" /\ UNCHANGED calls
        /\ \/ /\ pc' = [pc EXCEPT ![r] = "turn"] /\ turns' = [turns EXCEPT ![r] = 1]
              /\ UNCHANGED ui
           \/ /\ pc' = [pc EXCEPT ![r] = "done"] /\ ui' = [ui EXCEPT ![r] = "end"]
              /\ UNCHANGED turns
    BY <1>6, Zenon DEF LoadHistory, Catch
  <2>2. turns \in [Sends -> 0 .. MaxTurns]
    BY DEF IInv, TypeOK
  <2>3. pc'[r] = "turn" => Left(r)' < Left(r)
    <3>1. SUFFICES ASSUME pc'[r] = "turn"
                   PROVE  Left(r)' < Left(r)
      OBVIOUS
    <3>2. turns'[r] = 1
      BY <1>0, <2>1, <2>2, <3>1
    <3>3. Left(r)' = (MaxTurns - 1) * Round + Round + 1
      BY <1>1, <3>1, <3>2, AheadValues
    <3>4. (MaxTurns - 0) * Round = (MaxTurns - (0 + 1)) * Round + Round
      BY RoundLess
    <3>5. Left(r) = MaxTurns * Round + 2
      BY <1>1, <2>1, AheadValues
    <3>6. MaxTurns - 0 = MaxTurns /\ MaxTurns - (0 + 1) = MaxTurns - 1
      OBVIOUS
    <3>7. (MaxTurns - 1) * Round + Round = MaxTurns * Round
      BY <3>4, <3>6
    <3>8. QED
      BY <1>1, <3>3, <3>5, <3>7
  <2>4. Left(r)' < Left(r)
    BY <1>0, <1>2, <2>1, <2>3
  <2>5. QED
    BY <1>0, <2>1, <2>2, <2>4 DEF Alone, Answering
<1>7. CASE SaveAnswer(r)
  <2>1. /\ pc[r] = "answer" /\ UNCHANGED <<turns, calls>>
        /\ pc' = [pc EXCEPT ![r] = "done"] /\ ui' = [ui EXCEPT ![r] = "end"]
    BY <1>7, Zenon DEF SaveAnswer, Catch
  <2>2. QED
    BY <1>0, <1>2, <2>1 DEF Alone, Answering
<1>8. QED
  BY <1>3, <1>4, <1>5, <1>6, <1>7, LoopNearer DEF HandlerStep

\* Nobody else puts a send back.
LEMMA StepNearer ==
    ASSUME IInv, IInv', Announced, [Next]_vars
    PROVE  Announced' /\ \A r \in Sends : Left(r)' <= Left(r)
<1>0. /\ pc \in [Sends -> {"new", "post", "lookup", "save", "tree", "history", "turn", "tools",
                           "answer", "done"}]
      /\ ui \in [Sends -> {"none", "sent", "start", "error", "end"}]
  BY DEF IInv, TypeOK
<1>1. ASSUME NEW r \in Sends, Alone(r), Left(r)' <= Left(r),
             ui'[r] = "start" <=> pc'[r] \in Answering
      PROVE  Announced' /\ \A s \in Sends : Left(s)' <= Left(s)
  <2>1. \A s \in Sends \ {r} : Left(s)' = Left(s)
    BY <1>1, LeftTypes DEF Alone, Left
  <2>2. \A s \in Sends : Left(s) \in Nat /\ Left(s)' \in Nat
    BY LeftTypes
  <2>3. \A s \in Sends : ui'[s] = "start" <=> pc'[s] \in Answering
    BY <1>1 DEF Alone, Announced
  <2>4. QED
    BY <1>1, <2>1, <2>2, <2>3 DEF Announced, Answering
<1>2. ASSUME NEW r \in Sends, HandlerStep(r)
      PROVE  Announced' /\ \A s \in Sends : Left(s)' <= Left(s)
  BY <1>1, <1>2, HandlerNearer, LeftTypes
<1>3. ASSUME NEW r \in Sends, SendMessage(r) \/ Post(r) \/ AddMessage(r)
      PROVE  Announced' /\ \A s \in Sends : Left(s)' <= Left(s)
  <2>1. /\ UNCHANGED <<turns, calls>>
        /\ \/ pc[r] = "new" /\ \E l \in {"lookup", "post", "done"} : pc' = [pc EXCEPT ![r] = l]
           \/ pc[r] = "post" /\ pc' = [pc EXCEPT ![r] = "done"]
        /\ UNCHANGED ui \/ ui' = [ui EXCEPT ![r] = "sent"]
    BY <1>3, Zenon DEF SendMessage, Post, AddMessage, Goto, Tell
  <2>2. /\ pc[r] \in {"new", "post"} /\ pc'[r] \in {"lookup", "post", "done"}
        /\ pc[r] = "post" => pc'[r] = "done"
        /\ ui'[r] \in {ui[r], "sent"}
        /\ Alone(r)
    BY <1>0, <2>1 DEF Alone
  <2>a. /\ turns[r] \in 0 .. MaxTurns /\ calls[r] \in 0 .. MaxCalls
        /\ Left(r) = Ahead(pc[r], turns[r], calls[r])
        /\ Left(r)' = Ahead(pc'[r], turns[r], calls[r])
    BY <2>1, LeftTypes DEF Left
  <2>3. Left(r)' <= Left(r)
    <3>1. /\ MaxTurns * Round \in Nat
          /\ Ahead("new", turns[r], calls[r]) = MaxTurns * Round + 6
          /\ Ahead("lookup", turns[r], calls[r]) = MaxTurns * Round + 5
          /\ Ahead("post", turns[r], calls[r]) = 1 /\ Ahead("done", turns[r], calls[r]) = 0
      BY <2>a, AheadValues
    <3>2. \A m \in Nat : m + 5 <= m + 6 /\ 1 <= m + 6 /\ 0 <= m + 6
      OBVIOUS
    <3>3. QED
      BY <2>2, <2>a, <3>1, <3>2
  <2>4. ui'[r] = "start" <=> pc'[r] \in Answering
    BY <2>2 DEF Announced, Answering
  <2>5. QED
    BY <1>1, <2>2, <2>3, <2>4
<1>4. ASSUME UNCHANGED <<pc, turns, calls, ui>>
      PROVE  Announced' /\ \A s \in Sends : Left(s)' <= Left(s)
  <2>1. \A s \in Sends : Left(s)' = Left(s) /\ Left(s) \in Nat
    BY <1>4, LeftTypes DEF Left
  <2>2. QED
    BY <1>4, <2>1 DEF Announced, Answering
<1>5. ASSUME (\E r \in Sends : TurnText(r)) \/ StopChat \/ Remove \/ UNCHANGED vars
      PROVE  UNCHANGED <<pc, turns, calls, ui>>
  BY <1>5 DEF TurnText, StopChat, Remove, vars
<1>6. QED
  BY <1>2, <1>3, <1>4, <1>5 DEF Next

\* A response that was announced is worked on, in every reachable state.
LEMMA AnnouncedInvariance == Spec => []Announced
<1>1. Init => Announced
  <2>1. Ahead("new", 0, 0) \in Nat
    BY AheadNat
  <2>2. ASSUME Init, NEW r \in Sends PROVE Left(r) \in Nat /\ ui[r] = "none" /\ pc[r] = "new"
    BY <2>1, <2>2 DEF Init, Left
  <2>3. QED
    BY <2>2 DEF Announced, Answering
<1>2. IInv /\ IInv' /\ Announced /\ [Next]_vars => Announced'
  BY StepNearer
<1>3. QED
  BY <1>1, <1>2, Invariance, PTL DEF Spec

\* For any number of messages and any limits: an announced response always has
\* a number of awaited calls ahead of it that each of them makes smaller and
\* nothing makes larger.  With the fairness of those calls it ends.
THEOREM ResponseProgress == Spec => []Announced /\ Nearer
<1>1. IInv /\ IInv' /\ Announced /\ [Next]_vars =>
         [\A r \in Sends : /\ Left(r)' <= Left(r)
                           /\ HandlerStep(r) => Left(r)' < Left(r)]_vars
  BY StepNearer, HandlerNearer
<1>2. QED
  BY <1>1, Invariance, AnnouncedInvariance, PTL DEF Spec, Nearer
=============================================================================
