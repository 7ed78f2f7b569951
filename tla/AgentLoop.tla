------------------------------ MODULE AgentLoop ------------------------------
(***************************************************************************)
(* The agentic loop of internal/agents/agent.go, one run after another on  *)
(* the memory file of a thread: load, ask the provider, run the tools it   *)
(* calls, ask again, save.  The provider's retries (internal/provider) are *)
(* part of it, the answers of the model are not: they are any of Replies.  *)
(*                                                                         *)
(* Tools are swapped by another goroutine (SetTools) and the deadline of   *)
(* the run may pass at any time.                                           *)
(***************************************************************************)
EXTENDS History

CONSTANTS
    Tools,        \* "send", "snooze", "status" (set_task_status with waiting or
                  \* complete), "abort" (with error), and any others
    ToolSets,     \* tool sets SetTools may be given
    Replies,      \* answers the model may give
    Mails,        \* messages that may start a run
    Providers,    \* "anthropic", "openrouter"
    Files,        \* histories a memory file may hold at the start
    MaxTurns,     \* config.MaxTurns
    MaxRetries,   \* attempts of CreateMessage
    MaxRuns       \* bound on the number of runs

(* The input of a call as the model streamed it: complete, complete and    *)
(* without arguments, cut off by the output limit part of the way, or cut  *)
(* off before it began.                                                    *)
Inputs == {"full", "empty", "cut", "unbegun"}

(* A reply: what it calls, in order, and why the model stopped.            *)
Call  == [tool : Tools \cup {"unknown"}, input : Inputs]
Stops == {"end_turn", "tool_use", "max_tokens"}
Reply == [calls : Seq(Call), stop : Stops, text : BOOLEAN,
          server : {"none", "ok"}, think : {"none", "ok"}]

ASSUME RunAssumption == /\ MaxTurns \in Nat \ {0} /\ MaxRuns \in Nat
                        /\ MaxRetries \in Nat \ {0}
ASSUME ReplyAssumption == Replies \subseteq Reply
ASSUME MailAssumption == Mails \subseteq {UserMessage(from, blob) :
                            from \in {"human", "agent"}, blob \in BOOLEAN}
ASSUME ToolAssumption == ToolSets \subseteq SUBSET Tools
ASSUME FilesAssumption == \A h \in Files : Stored(h)
ASSUME ProviderAssumption == Providers \subseteq {"anthropic", "openrouter"}

VARIABLES
    provider,   \* LLM_PROVIDER
    file,       \* the history in the memory file
    live,       \* a.tools, swapped by SetTools
    history,    \* a.history
    pc,         \* idle, turn, api, calls, done
    kind,       \* mail, schedule; none between runs
    snapshot,   \* the tool set of the run
    turn, attempt,
    outgoing,   \* the messages sent to the provider
    err,        \* err of CreateMessage: none, retry, fatal
    blocks,     \* tool calls of the reply not yet processed
    stop,       \* StopReason of the reply
    toolResults,\* toolResults, as a user message
    failedCalls,
    expired,    \* the deadline of the run has passed
    delivered,  \* the send tracker counted a delivery
    status, scheduled,   \* what the run set
    outcome,
    nextId, runs,        \* of this specification: ids, and a bound
    executed,            \* the calls that were executed
    lastAnswer           \* what the provider answered to the last attempt

world  == <<provider, live, expired>>
record == <<delivered, status, scheduled, executed, failedCalls>>
reply  == <<blocks, stop, toolResults, nextId>>
api    == <<outgoing, attempt, err, lastAnswer>>
vars   == <<world, file, history, pc, kind, snapshot, turn, api, reply, record,
            outcome, runs>>

TypeOK ==
    /\ provider \in Providers /\ live \in ToolSets /\ snapshot \subseteq Tools
    /\ \A h \in {file, history, outgoing} : \A i \in DOMAIN h : h[i] \in Message
    /\ pc \in {"idle", "turn", "api", "calls", "done"}
    /\ kind \in {"none", "mail", "schedule"}
    /\ turn \in 0..MaxTurns /\ attempt \in 0..(MaxRetries - 1)
    /\ err \in {"none", "retry", "fatal"} /\ lastAnswer \in {"none", "ok", "error"}
    /\ stop \in Stops \cup {"none"} /\ toolResults \in Message
    /\ expired \in BOOLEAN /\ delivered \in BOOLEAN /\ scheduled \in BOOLEAN
    /\ status \in {"none", "waiting", "error"}
    /\ outcome \in {"none", "answered", "maxturns", "failed"}
    /\ (pc = "idle") = (kind = "none") /\ (pc = "done") = (outcome # "none")

Init ==
    /\ provider \in Providers /\ file \in Files /\ live \in ToolSets
    /\ history = << >> /\ pc = "idle" /\ kind = "none" /\ snapshot = {}
    /\ turn = 0 /\ attempt = 0 /\ outgoing = << >>
    /\ err = "none" /\ lastAnswer = "none"
    /\ blocks = << >> /\ stop = "none" /\ toolResults = Blank
    /\ failedCalls = {} /\ executed = {} /\ expired = FALSE
    /\ delivered = FALSE /\ status = "none" /\ scheduled = FALSE
    /\ outcome = "none" /\ nextId = 1 /\ runs = 0

-----------------------------------------------------------------------------
(* The run starts.                                                         *)

(* Mutant of ToolSetOf: a scheduled run keeps its snooze tools.            *)
AllTools(k) == live

(* A scheduled run has no snooze tools; the set is read once.              *)
ToolSetOf(k) == IF k = "schedule" THEN live \ {"snooze"} ELSE live

(* Mutant of Dispatched: the set is read again for each call.              *)
DispatchedLive(tool) == tool \in live

(* The tool a call is dispatched to, if any.                               *)
Dispatched(tool) == tool \in snapshot

(* New mail saves what it loaded first; a replay does not.  The message    *)
(* that starts the run is the newest turn.                                 *)
Start(k, mail) ==
    /\ pc = "idle" /\ runs < MaxRuns
    /\ kind' = k /\ runs' = runs + 1
    /\ snapshot' = ToolSetOf(k)
    /\ file' = IF k = "mail" THEN WriteHistory(ReadHistory(file)) ELSE file
    /\ history' = Append(ReadHistory(file), mail)
    /\ pc' = "turn" /\ turn' = 0 /\ expired' = FALSE
    /\ UNCHANGED <<provider, live, api, reply, record, outcome>>

Finish(o) == pc' = "done" /\ outcome' = o

(* Mutant of Ask: the agent's own history is trimmed.                      *)
AskTrimmed ==
    /\ pc = "turn" /\ turn < MaxTurns /\ ~expired
    /\ outgoing' = TrimHistory(history) /\ history' = TrimHistory(history)
    /\ attempt' = 0 /\ err' = "none" /\ lastAnswer' = "none"
    /\ pc' = "api"
    /\ UNCHANGED <<world, file, kind, snapshot, turn, reply, record, outcome, runs>>

(* The head of the loop.                                                   *)
Ask ==
    /\ pc = "turn" /\ turn < MaxTurns /\ ~expired
    /\ outgoing' = TrimHistory(history)
    /\ attempt' = 0 /\ err' = "none" /\ lastAnswer' = "none"
    /\ pc' = "api"
    /\ UNCHANGED <<world, file, history, kind, snapshot, turn, reply, record,
                   outcome, runs>>

GiveUpTurns ==
    /\ pc = "turn"
    /\ IF turn = MaxTurns THEN Finish("maxturns") ELSE expired /\ Finish("failed")
    /\ UNCHANGED <<world, file, history, kind, snapshot, turn, api, reply, record, runs>>

-----------------------------------------------------------------------------
(* CreateMessage.                                                          *)

Request == IF provider = "openrouter" THEN ConvertMessages(outgoing) ELSE outgoing

(* Mutant of AttemptError: the error of the attempt before.                *)
StaleAttemptError == err

(* The error an attempt starts with.                                       *)
AttemptError == "none"

(* Mutant of StreamedInput: what the SDK accumulated is taken.             *)
AccumulatedInput(input) == IF input \in {"cut", "unbegun"} THEN "empty" ELSE input

(* The input of a call as it reaches the agent.  The part of an input that *)
(* was streamed is put back where the SDK has made an empty object of it;  *)
(* where nothing was streamed there is nothing to put back, and the call   *)
(* is one without arguments.                                               *)
StreamedInput(input) == IF input = "unbegun" THEN "empty" ELSE input

(* What an answer becomes in the history, its calls with their ids:        *)
(* Anthropic's block by block, OpenRouter's text and calls, with a text    *)
(* when there is neither.                                                  *)
AnthropicParam(r, ids) ==
    [Blank EXCEPT !.role = "assistant", !.calls = ids, !.text = r.text,
                  !.server = r.server, !.think = r.think]

OpenRouterParam(r, ids) ==
    [Blank EXCEPT !.role = "assistant", !.calls = ids, !.text = r.text \/ ids = {}]

ToHistoryParam(r, ids) ==
    IF provider = "openrouter" THEN OpenRouterParam(r, ids) ELSE AnthropicParam(r, ids)

(* Mutant of Retry: one attempt too many.                                  *)
RetryAgain(e) ==
    IF e = "retry" /\ attempt < MaxRetries /\ ~expired
      THEN /\ attempt' = attempt + 1 /\ err' = e
           /\ UNCHANGED <<pc, outcome>>
      ELSE Finish("failed") /\ err' = e /\ UNCHANGED attempt

(* Mutant of Retry: as long as the provider is overloaded.                 *)
RetryForever(e) ==
    IF e = "retry" /\ ~expired
      THEN /\ attempt' = (attempt + 1) % MaxRetries /\ err' = e
           /\ UNCHANGED <<pc, outcome>>
      ELSE Finish("failed") /\ err' = e /\ UNCHANGED attempt

(* The attempt fails: again after a pause, or the call fails.              *)
Retry(e) ==
    IF e = "retry" /\ attempt < MaxRetries - 1 /\ ~expired
      THEN /\ attempt' = attempt + 1 /\ err' = e
           /\ UNCHANGED <<pc, outcome>>
      ELSE Finish("failed") /\ err' = e /\ UNCHANGED attempt

Answered(r) ==
    /\ pc = "api" /\ ~expired /\ Acceptable(Request)
    /\ lastAnswer' = "ok"
    /\ IF AttemptError # "none"
         THEN Retry(AttemptError) /\ UNCHANGED <<history, reply>>
         ELSE LET ids == nextId..(nextId + Len(r.calls) - 1) IN
              /\ history' = Append(history, ToHistoryParam(r, ids))
              /\ blocks' = [i \in DOMAIN r.calls |->
                              [id |-> nextId + i - 1, tool |-> r.calls[i].tool,
                               input |-> StreamedInput(r.calls[i].input),
                               streamed |-> r.calls[i].input]]
              /\ stop' = r.stop /\ toolResults' = Blank
              /\ nextId' = nextId + Len(r.calls)
              /\ pc' = "calls"
              /\ UNCHANGED <<attempt, err, outcome>>
    /\ UNCHANGED <<world, file, kind, snapshot, turn, outgoing, record, runs>>

(* Overloaded, or refused, or out of time.                                 *)
Refused(e) ==
    /\ pc = "api"
    /\ lastAnswer' = "error"
    /\ Retry(e)
    /\ UNCHANGED <<world, file, history, kind, snapshot, turn, outgoing, reply,
                   record, runs>>

-----------------------------------------------------------------------------
(* The tools.                                                              *)

Key(b) == <<b.tool, b.input>>

AddResult(id, large) ==
    toolResults' = [toolResults EXCEPT !.results = @ \cup {id},
                                       !.big = IF large THEN @ \cup {id} ELSE @]

NotRun(b) == b.input = "cut" \/ ~Dispatched(b.tool) \/ Key(b) \in failedCalls

NextBlock == pc = "calls" /\ blocks # << >>

(* Mutant of BlockTool: it goes on to the next block with no result.       *)
SkipBlock ==
    /\ NextBlock
    /\ NotRun(Head(blocks))
    /\ blocks' = Tail(blocks)
    /\ UNCHANGED <<world, file, history, pc, kind, snapshot, turn, api, stop,
                   toolResults, nextId, record, outcome, runs>>

(* Cut off, unknown, or known to fail: the model is told, nothing is run.  *)
BlockTool ==
    /\ NextBlock
    /\ NotRun(Head(blocks))
    /\ AddResult(Head(blocks).id, FALSE)
    /\ blocks' = Tail(blocks)
    /\ UNCHANGED <<world, file, history, pc, kind, snapshot, turn, api, stop,
                   nextId, record, outcome, runs>>

(* A tool succeeds, with a small or a large result, or fails; a status     *)
(* other than "error" fails before a delivery.                             *)
ExecuteTool ==
    /\ NextBlock
    /\ LET b == Head(blocks) IN
       /\ ~NotRun(b)
       /\ executed' = executed \cup {[tool |-> b.tool, streamed |-> b.streamed]}
       /\ \/ /\ failedCalls' = failedCalls \cup {Key(b)}
             /\ b.tool = "status" => ~delivered
             /\ b.tool # "abort"
             /\ AddResult(b.id, FALSE)
             /\ UNCHANGED <<delivered, status, scheduled>>
          \/ /\ b.tool = "status" => delivered
             /\ UNCHANGED failedCalls
             /\ delivered' = (delivered \/ b.tool = "send")
             /\ status' = CASE b.tool = "status" -> "waiting"
                            [] b.tool = "abort" -> "error"
                            [] OTHER -> status
             /\ scheduled' = (scheduled \/ b.tool = "snooze")
             /\ \E large \in BOOLEAN :
                   /\ large => b.tool \notin {"send", "status", "abort", "snooze"}
                   /\ AddResult(b.id, large)
       /\ blocks' = Tail(blocks)
    /\ UNCHANGED <<world, file, history, pc, kind, snapshot, turn, api, stop,
                   nextId, outcome, runs>>

(* The reply is dealt with: the run is over, or the results are fed back.  *)
EndReply ==
    /\ pc = "calls" /\ blocks = << >>
    /\ IF stop = "end_turn"
         THEN Finish("answered") /\ UNCHANGED <<history, turn>>
         ELSE /\ history' = IF toolResults = Blank THEN history
                            ELSE Append(history, toolResults)
              /\ turn' = turn + 1 /\ pc' = "turn"
              /\ UNCHANGED outcome
    /\ UNCHANGED <<world, file, kind, snapshot, api, reply, record, runs>>

(* The history is saved, whatever the outcome; a failed save is logged.    *)
Save ==
    /\ pc = "done"
    /\ file' \in {WriteHistory(history), file}
    /\ pc' = "idle" /\ kind' = "none" /\ outcome' = "none" /\ history' = << >>
    /\ snapshot' = {} /\ outgoing' = << >> /\ turn' = 0 /\ attempt' = 0
    /\ err' = "none" /\ lastAnswer' = "none"
    /\ blocks' = << >> /\ stop' = "none" /\ toolResults' = Blank
    /\ failedCalls' = {} /\ executed' = {} /\ expired' = FALSE
    /\ delivered' = FALSE /\ status' = "none" /\ scheduled' = FALSE
    /\ UNCHANGED <<provider, live, nextId, runs>>

-----------------------------------------------------------------------------
(* The rest of the process, and time.                                      *)

SetTools(ts) ==
    /\ live # ts /\ pc # "idle"
    /\ live' = ts
    /\ UNCHANGED <<provider, expired, file, history, pc, kind, snapshot, turn, api,
                   reply, record, outcome, runs>>

Expire ==
    /\ pc \in {"turn", "api", "calls"} /\ ~expired
    /\ expired' = TRUE
    /\ UNCHANGED <<provider, live, file, history, pc, kind, snapshot, turn, api,
                   reply, record, outcome, runs>>

Step == \/ Ask \/ GiveUpTurns
        \/ \E r \in Replies : Answered(r)
        \/ \E e \in {"retry", "fatal"} : Refused(e)
        \/ BlockTool \/ ExecuteTool \/ EndReply \/ Save

Next == \/ \E k \in {"mail", "schedule"}, mail \in Mails : Start(k, mail)
        \/ Step
        \/ \E ts \in ToolSets : SetTools(ts)
        \/ Expire

Spec == Init /\ [][Next]_vars

(* A call to the provider or to a tool returns, at the latest when the     *)
(* deadline of the run has passed.                                         *)
FairSpec == Spec /\ WF_vars(Step)

-----------------------------------------------------------------------------
(* What must hold.                                                         *)

(* Whatever was loaded, cut, compressed, refused or cut off before, what   *)
(* is sent is something the provider takes: it opens with a message of the *)
(* user and every tool call has its result, every result its call.         *)
RequestAcceptable == pc = "api" => Acceptable(Request)

(* Trimming never loses what the run is about: however large the results   *)
(* of its own tools grow, the message that started it is sent every time.  *)
StartSent ==
    pc = "api" =>
        LET Mail(h) == {i \in DOMAIN h : ~Orphaned(h[i])}
        IN /\ Mail(outgoing) # {}
           /\ outgoing[Max(Mail(outgoing))] = history[Max(Mail(history))]

(* What a run leaves behind does not wedge the thread: with the next mail  *)
(* it is a request the provider takes.                                     *)
SavedIsUsable ==
    pc = "done" =>
        Acceptable(Append(ReadHistory(WriteHistory(history)), UserMessage("human", FALSE)))

(* What is cut for one call stays in the conversation: the memory file and *)
(* the agent's history keep every result in full.                          *)
MemoryKeepsResults ==
    \A h \in {file, history} : \A i \in DOMAIN h : h[i].stubs = {}

(* A run uses the tools it told the model of, also while they are swapped, *)
(* and a scheduled run never changes the schedule.                         *)
RunUsesItsTools ==
    \A x \in executed :
        x.tool \in snapshot /\ (kind = "schedule" => x.tool # "snooze")

(* No tool is run on an input of which the model streamed a part and not   *)
(* the rest, whatever the SDK makes of it, and in whichever turn and place *)
(* of a reply it comes.  A call that was cut off before the first byte of  *)
(* its input is not among them: it reaches the loop as a call without      *)
(* arguments (CutCallsNotRun).                                             *)
TruncatedIsNotRun == \A x \in executed : x.streamed # "cut"

(* A run fails at the provider only if the provider's last word was no.    *)
RetriesCount ==
    pc = "done" /\ outcome = "failed" => expired \/ lastAnswer = "error"

(* Every run comes to an end and is saved.                                 *)
RunsEnd == (pc # "idle") ~> (pc = "idle")

(* The loop is the run the poll loop takes for granted: of the loop's      *)
(* state it sees what started the run, what the run did, and how it ended. *)
Run == INSTANCE AgentRun WITH kind <- kind, delivered <- delivered,
                              status <- status, scheduled <- scheduled,
                              outcome <- outcome
ImplementsRun == Run!Spec

-----------------------------------------------------------------------------
(* What a comment says of the program, and the code does not do.           *)

(* Trimming never loses the active request: the newest message of a human  *)
(* is sent.                                                                *)
ActiveRequestSent ==
    pc = "api" /\ FindAnchor(history) # 0 =>
        \E i \in DOMAIN outgoing : outgoing[i] = history[FindAnchor(history)]

(* A call that was cut off is not executed with empty arguments: the model *)
(* is told that its input was truncated.                                   *)
CutCallsNotRun == \A x \in executed : x.streamed \notin {"cut", "unbegun"}

(* A status that was refused because nothing had been sent is set when it  *)
(* is asked for again after the delivery.                                  *)
StatusAfterDelivery ==
    NextBlock /\ Head(blocks).tool = "status" /\ delivered /\ Dispatched("status")
        => Key(Head(blocks)) \notin failedCalls

=============================================================================
