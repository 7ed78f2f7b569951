--------------------------- MODULE AgentLoopProofs ---------------------------
(***************************************************************************)
(* Theorems about AgentLoop, for any tools, replies, histories, providers  *)
(* and limits.  What a run is to the poll loop (AgentRun) and what it may  *)
(* execute follow from one invariant, RunInv, that does not look at        *)
(* histories.  That a provider takes every request and every saved history *)
(* can be gone on with follow from another, Conversation, and from what    *)
(* the operators of History do to a conversation.                          *)
(***************************************************************************)
EXTENDS AgentLoop, Extremes

Block == [id : Nat, tool : Tools \cup {"unknown"},
          input : Inputs, streamed : Inputs]

(* Where a run is, as the poll loop sees it.                               *)
Stage ==
    /\ pc \in {"idle", "turn", "api", "calls", "done"}
    /\ kind \in {"none", "mail", "schedule"}
    /\ outcome \in {"none", "answered", "maxturns", "failed"}
    /\ (pc = "idle") = (kind = "none")
    /\ (pc = "done") = (outcome # "none")
    /\ delivered \in BOOLEAN /\ scheduled \in BOOLEAN
    /\ nextId \in Nat

(* Nothing is done before a run begins.                                    *)
NothingDone ==
    pc = "idle" => /\ executed = {} /\ blocks = << >>
                   /\ ~delivered /\ ~scheduled /\ status = "none"

(* The tools of a run, the calls it has made and those it has before it.   *)
ToolsOfRun == kind = "schedule" => "snooze" \notin snapshot
AsStreamed(b) == b.input = StreamedInput(b.streamed)
Pending == blocks \in Seq(Block) /\ \A i \in DOMAIN blocks : AsStreamed(blocks[i])
Made == \A x \in executed : x.tool \in snapshot /\ x.streamed # "cut"

(* A run that failed was out of time or refused.                           *)
Failed == pc = "done" /\ outcome = "failed" => expired \/ lastAnswer = "error"

RunInv == Stage /\ NothingDone /\ ToolsOfRun /\ Pending /\ Made /\ Failed

-----------------------------------------------------------------------------
(* What is left of a list of pending calls is pending.                     *)
LEMMA PendingTail ==
    ASSUME Pending, blocks # << >>
    PROVE /\ Head(blocks) \in Block
          /\ AsStreamed(Head(blocks))
          /\ Tail(blocks) \in Seq(Block)
          /\ \A i \in DOMAIN Tail(blocks) : AsStreamed(Tail(blocks)[i])
PROOF
<1>1. blocks \in Seq(Block) /\ Len(blocks) \in Nat /\ Len(blocks) > 0
  BY DEF Pending
<1>2. Head(blocks) = blocks[1] /\ 1 \in DOMAIN blocks
  BY <1>1
<1>3. blocks[1] \in Block
  BY <1>1, <1>2
<1>4. Tail(blocks) \in Seq(Block) /\ Len(Tail(blocks)) = Len(blocks) - 1
  BY <1>1
<1>5. ASSUME NEW i \in DOMAIN Tail(blocks)
      PROVE AsStreamed(Tail(blocks)[i])
  <2>1. i \in 1..Len(Tail(blocks)) /\ i + 1 \in DOMAIN blocks
    BY <1>1, <1>4, <1>5
  <2>2. Tail(blocks)[i] = blocks[i + 1]
    BY <1>1, <1>4, <2>1
  <2> QED BY <2>1, <2>2 DEF Pending
<1> QED BY <1>2, <1>3, <1>4, <1>5 DEF Pending

(* The calls of a new reply are pending: their inputs are those streamed.  *)
LEMMA PendingReply ==
    ASSUME nextId \in Nat, NEW r \in Replies,
           blocks' = [i \in DOMAIN r.calls |->
                        [id |-> nextId + i - 1, tool |-> r.calls[i].tool,
                         input |-> StreamedInput(r.calls[i].input),
                         streamed |-> r.calls[i].input]]
    PROVE Pending' /\ nextId + Len(r.calls) \in Nat
<1>1. r.calls \in Seq(Call)
  BY ReplyAssumption DEF Reply
<1>2. PICK n \in Nat : Len(r.calls) = n /\ DOMAIN r.calls = 1..n
  BY <1>1
<1>3. \A i \in 1..n : r.calls[i] \in Call
  BY <1>1, <1>2
<1>4. ASSUME NEW i \in 1..n
      PROVE blocks'[i] \in Block /\ AsStreamed(blocks'[i])
  <2>1. r.calls[i] \in Call
    BY <1>3
  <2>2. blocks'[i] = [id |-> nextId + i - 1, tool |-> r.calls[i].tool,
                      input |-> StreamedInput(r.calls[i].input),
                      streamed |-> r.calls[i].input]
    BY <1>2
  <2>3. nextId + i - 1 \in Nat
    OBVIOUS
  <2> QED BY <2>1, <2>2, <2>3 DEF Block, Call, AsStreamed, StreamedInput, Inputs
<1>5. blocks' \in [1..n -> Block]
  BY <1>2, <1>4
<1> QED BY <1>2, <1>4, <1>5 DEF Pending

(* An empty list of calls is one.                                          *)
LEMMA NothingPending == << >> \in Seq(Block) /\ \A i \in DOMAIN << >> : FALSE
OBVIOUS

(* Before the first message.                                               *)
LEMMA InitRun == Init => RunInv
<1> SUFFICES ASSUME Init PROVE RunInv
  OBVIOUS
<1>1. Stage
  BY DEF Init, Stage
<1>2. NothingDone /\ ToolsOfRun /\ Made /\ Failed
  BY DEF Init, NothingDone, ToolsOfRun, Made, Failed
<1>3. Pending
  BY NothingPending DEF Init, Pending
<1> QED BY <1>1, <1>2, <1>3 DEF RunInv

(* The steps that leave the calls and the tools of the run alone.          *)
LEMMA TurnKeepsRunInv ==
    ASSUME RunInv, Ask \/ GiveUpTurns \/ EndReply \/ Save \/ Expire
                   \/ \E ts \in ToolSets : SetTools(ts)
    PROVE RunInv'
<1> USE DEF RunInv, Stage, NothingDone, ToolsOfRun, Pending, Made, Failed,
            world, record, reply, api, Finish
<1>1. CASE Ask
  BY <1>1 DEF Ask
<1>2. CASE GiveUpTurns
  BY <1>2 DEF GiveUpTurns
<1>3. CASE EndReply
  BY <1>3 DEF EndReply
<1>4. CASE Save
  BY <1>4, NothingPending DEF Save
<1>5. CASE Expire
  BY <1>5 DEF Expire
<1>6. ASSUME NEW ts \in ToolSets, SetTools(ts) PROVE RunInv'
  BY <1>6 DEF SetTools
<1> QED BY <1>1, <1>2, <1>3, <1>4, <1>5, <1>6

(* A run starts with the tools it is told of and nothing done.             *)
LEMMA StartKeepsRunInv ==
    ASSUME RunInv, NEW k \in {"mail", "schedule"}, NEW mail, Start(k, mail)
    PROVE RunInv'
BY DEF RunInv, Stage, NothingDone, ToolsOfRun, Pending, Made, Failed, Start, ToolSetOf,
       record, reply, api

(* An answer has no error left from an attempt before it.                  *)
LEMMA AnswerKeepsRunInv ==
    ASSUME RunInv, NEW r \in Replies, Answered(r)
    PROVE RunInv'
<1>1. Pending' /\ nextId' \in Nat
  BY PendingReply DEF RunInv, Stage, Answered, AttemptError
<1> QED BY <1>1 DEF RunInv, Stage, NothingDone, ToolsOfRun, Made, Failed, Answered,
                    AttemptError, world, record

(* A provider that refuses leaves its word as the last answer.             *)
LEMMA RefusalKeepsRunInv ==
    ASSUME RunInv, NEW e \in {"retry", "fatal"}, Refused(e)
    PROVE RunInv'
BY DEF RunInv, Stage, NothingDone, ToolsOfRun, Pending, Made, Failed, Refused, Retry,
       Finish, world, record, reply

(* A call that is not executed leaves no trace but its result.             *)
LEMMA BlockedKeepsRunInv ==
    ASSUME RunInv, BlockTool
    PROVE RunInv'
<1>1. Pending'
  BY PendingTail DEF RunInv, BlockTool, NextBlock, Pending
<1> QED BY <1>1 DEF RunInv, Stage, NothingDone, ToolsOfRun, Made, Failed, BlockTool,
                    NextBlock, world, record, api

(* A call is executed on the input that was streamed, with a tool of the   *)
(* run's snapshot.                                                         *)
LEMMA ExecutionKeepsRunInv ==
    ASSUME RunInv, ExecuteTool
    PROVE RunInv'
<1> DEFINE b == Head(blocks)
<1>1. blocks # << >> /\ blocks' = Tail(blocks) /\ Pending
  BY DEF ExecuteTool, NextBlock, RunInv
<1>2. Pending'
  BY <1>1, PendingTail DEF Pending
<1>3. b.tool \in snapshot /\ b.streamed # "cut"
  BY <1>1, PendingTail DEF ExecuteTool, NotRun, Dispatched, AsStreamed, StreamedInput
<1>4. Made'
  BY <1>3 DEF ExecuteTool, RunInv, Made
<1>5. delivered' \in BOOLEAN /\ scheduled' \in BOOLEAN
  BY DEF ExecuteTool, RunInv, Stage
<1>6. UNCHANGED <<pc, kind, outcome, nextId, snapshot, expired, lastAnswer>> /\ pc = "calls"
  BY DEF ExecuteTool, NextBlock, world, api
<1> QED BY <1>2, <1>4, <1>5, <1>6 DEF RunInv, Stage, NothingDone, ToolsOfRun, Failed

(* Every step of handleMessageWith, CreateMessage and executeTool keeps    *)
(* what holds before the first one.                                        *)
LEMMA RunStep ==
    ASSUME RunInv, [Next]_vars
    PROVE RunInv'
<1>1. CASE UNCHANGED vars
  BY <1>1 DEF vars, world, record, reply, api, RunInv, Stage, NothingDone, ToolsOfRun,
              Pending, Made, Failed
<1>2. ASSUME NEW k \in {"mail", "schedule"}, NEW mail \in Mails, Start(k, mail)
      PROVE RunInv'
  BY <1>2, StartKeepsRunInv
<1>3. CASE Step
  BY <1>3, TurnKeepsRunInv, AnswerKeepsRunInv, RefusalKeepsRunInv,
     BlockedKeepsRunInv, ExecutionKeepsRunInv DEF Step
<1>4. CASE Expire \/ \E ts \in ToolSets : SetTools(ts)
  BY <1>4, TurnKeepsRunInv
<1> QED BY <1>1, <1>2, <1>3, <1>4 DEF Next

(* So it holds of every state of every run.                                *)
THEOREM RunInvariant == Spec => []RunInv
BY InitRun, RunStep, PTL DEF Spec

-----------------------------------------------------------------------------
(* RunUsesItsTools: a run executes only tools of the set it told the model *)
(* of, also while SetTools swaps it, and a scheduled run never schedules.  *)
THEOREM RunsUseTheirTools == Spec => []RunUsesItsTools
<1>1. RunInv => RunUsesItsTools
  BY DEF RunInv, ToolsOfRun, Made, RunUsesItsTools
<1> QED BY RunInvariant, <1>1, PTL

(* TruncatedIsNotRun: a call of which a part was streamed and the rest cut *)
(* off is never executed.                                                  *)
THEOREM TruncatedNeverRuns == Spec => []TruncatedIsNotRun
<1>1. RunInv => TruncatedIsNotRun
  BY DEF RunInv, Made, TruncatedIsNotRun
<1> QED BY RunInvariant, <1>1, PTL

(* RetriesCount: CreateMessage fails only out of time or when the provider *)
(* refused its last attempt; an answer is never thrown away.               *)
THEOREM FailuresAreTheProviders == Spec => []RetriesCount
<1>1. RunInv => RetriesCount
  BY DEF RunInv, Failed, RetriesCount
<1> QED BY RunInvariant, <1>1, PTL

-----------------------------------------------------------------------------
(* The refinement.                                                         *)

Seen == <<kind, delivered, status, scheduled, outcome>>

(* An execution is a delivery, a status, a schedule, or nothing the poll   *)
(* loop can see.                                                           *)
LEMMA ExecutionRefines ==
    ASSUME RunInv, ExecuteTool
    PROVE Run!Deliver \/ Run!SetTaskStatus \/ Run!SnoozeTool \/ UNCHANGED Seen
<1> DEFINE b == Head(blocks)
<1>1. /\ b.tool \in snapshot
      /\ UNCHANGED <<kind, outcome>> /\ kind # "none" /\ outcome = "none"
      /\ b.tool = "snooze" => kind = "mail"
  BY DEF ExecuteTool, NextBlock, NotRun, Dispatched, RunInv, Stage, ToolsOfRun
<1>2. delivered \in BOOLEAN /\ scheduled \in BOOLEAN
  BY DEF RunInv, Stage
<1>3. CASE UNCHANGED <<delivered, status, scheduled>>
  BY <1>1, <1>3 DEF Seen
<1>4. ASSUME b.tool = "status" => delivered,
             delivered' = (delivered \/ b.tool = "send"),
             status' = CASE b.tool = "status" -> "waiting"
                         [] b.tool = "abort" -> "error"
                         [] OTHER -> status,
             scheduled' = (scheduled \/ b.tool = "snooze")
      PROVE Run!Deliver \/ Run!SetTaskStatus \/ Run!SnoozeTool \/ UNCHANGED Seen
  <2>1. CASE b.tool = "send"
    BY <1>1, <1>2, <1>4, <2>1 DEF Run!Deliver, Run!Going
  <2>2. CASE b.tool = "status"
    BY <1>1, <1>2, <1>4, <2>2 DEF Run!SetTaskStatus, Run!Going
  <2>3. CASE b.tool = "abort"
    BY <1>1, <1>2, <1>4, <2>3 DEF Run!SetTaskStatus, Run!Going
  <2>4. CASE b.tool = "snooze"
    BY <1>1, <1>2, <1>4, <2>4 DEF Run!SnoozeTool, Run!Going
  <2>5. CASE b.tool \notin {"send", "status", "abort", "snooze"}
    BY <1>1, <1>2, <1>4, <2>5 DEF Seen
  <2> QED BY <2>1, <2>2, <2>3, <2>4, <2>5
<1> QED BY <1>3, <1>4 DEF ExecuteTool

(* Every step of the loop is a step of the run as the poll loop sees it,   *)
(* or none of its business.                                                *)
LEMMA StepRefines ==
    ASSUME RunInv, [Next]_vars
    PROVE [Run!Next]_(Run!vars)
<1> USE DEF Run!vars, Seen, RunInv, Stage
<1>1. CASE UNCHANGED vars
  BY <1>1 DEF vars, record
<1>2. ASSUME NEW k \in {"mail", "schedule"}, NEW mail \in Mails, Start(k, mail)
      PROVE Run!Start
  BY <1>2 DEF Start, record, Run!Start
<1>3. CASE Ask
  BY <1>3 DEF Ask, record
<1>4. CASE GiveUpTurns
  BY <1>4 DEF GiveUpTurns, Finish, record, Run!Next, Run!End, Run!Going, Run!Outcomes
<1>5. ASSUME NEW r \in Replies, Answered(r) PROVE UNCHANGED Seen
  BY <1>5 DEF Answered, AttemptError, record
<1>6. ASSUME NEW e \in {"retry", "fatal"}, Refused(e)
      PROVE Run!End \/ UNCHANGED Seen
  BY <1>6 DEF Refused, Retry, Finish, record, Run!End, Run!Going, Run!Outcomes
<1>7. CASE BlockTool
  BY <1>7 DEF BlockTool, record
<1>8. CASE ExecuteTool
  BY <1>8, ExecutionRefines DEF Run!Next
<1>9. CASE EndReply
  BY <1>9 DEF EndReply, Finish, record, Run!Next, Run!End, Run!Going, Run!Outcomes
<1>10. CASE Save
  BY <1>10 DEF Save, Run!Next, Run!Collect
<1>11. ASSUME NEW ts \in ToolSets, SetTools(ts) PROVE UNCHANGED Seen
  BY <1>11 DEF SetTools, record
<1>12. CASE Expire
  BY <1>12 DEF Expire, record
<1> QED BY <1>1, <1>2, <1>3, <1>4, <1>5, <1>6, <1>7, <1>8, <1>9, <1>10, <1>11, <1>12
        DEF Next, Step, Run!Next

(* ImplementsRun: the loop of handleMessageWith, with all its turns,       *)
(* retries and tool calls, is the run PollLoop takes for granted.          *)
THEOREM LoopImplementsRun == Spec => ImplementsRun
<1>1. Init => Run!Init
  BY DEF Init, Run!Init
<1> QED BY <1>1, StepRefines, RunInvariant, PTL DEF Spec, ImplementsRun, Run!Spec

-----------------------------------------------------------------------------
(* What a conversation is.                                                 *)

(* A message of calls or of results, nothing of it cut.                    *)
Sound(m) == /\ m.calls = {} \/ m.results = {}
            /\ m.stubs = {} /\ m.big \subseteq m.results

(* Nothing in it a provider refuses.                                       *)
Clean(m) == m.server \in {"none", "ok"} /\ m.think # "bad"

Kept == {m \in Message : m.stubs = {}}

(* The message of a user that may start a run.                             *)
Opening(m) == /\ m \in Kept /\ Sound(m) /\ Clean(m) /\ ~NoContent(m)
              /\ ~Orphaned(m) /\ m.calls = {} /\ m.results = {}

(* Results follow their calls; those of the last message are still open.   *)
Paired(h) == \A i \in 2..Len(h) : h[i].results = h[i - 1].calls
Open(h) == IF h = << >> THEN {} ELSE h[Len(h)].calls

Talk(h) ==
    /\ h \in Seq(Message) /\ Paired(h)
    /\ \A i \in DOMAIN h : Sound(h[i]) /\ Clean(h[i])

(* No message is empty; a message of nothing but calls is not.             *)
Filled(h) == \A i \in DOMAIN h : ~NoContent(h[i])

(* A conversation that may be sent as it is.                               *)
Sendable(h) == /\ Talk(h) /\ Filled(h) /\ Open(h) = {}
               /\ h # << >> /\ ~Orphaned(h[1])

(* Messages that say the same to a provider.                               *)
Alike(x, y) ==
    /\ x \in Message /\ y \in Message
    /\ x.calls = y.calls /\ x.results = y.results
    /\ x.server \in {"none", "ok"} /\ x.think # "bad"
    /\ Orphaned(x) <=> Orphaned(y)
    /\ NoContent(x) => NoContent(y)

(* The messages of t are those of h from k on, up to what is compressed,   *)
(* and only results are.                                                   *)
Cut(t, h, k) ==
    /\ k \in Cutpoints(h)
    /\ t \in Seq(Message) /\ Len(t) = Len(h) - k + 1
    /\ \A i \in 1..(Len(h) - k + 1) :
         /\ Alike(t[i], h[k + i - 1])
         /\ h[k + i - 1].results = {} => t[i] = h[k + i - 1]

(* Where the conversation of h may open.                                   *)
Openings(h) == {i \in DOMAIN h : ~Orphaned(h[i])}

(* The calls of a reply that are still to come.                            *)
Ids(bs) == {bs[i].id : i \in DOMAIN bs}

-----------------------------------------------------------------------------
(* Loading, saving and sending, message by message.                        *)

(* What the fields of a message are.                                       *)
LEMMA Fields ==
    ASSUME NEW m \in Message
    PROVE /\ m.role \in {"user", "assistant"} /\ m.calls \subseteq Nat /\ m.results \subseteq Nat
          /\ m.big \subseteq Nat /\ m.stubs \subseteq Nat
          /\ m.server \in {"none", "ok", "extra", "corrupt"} /\ m.think \in {"none", "ok", "bad"}
          /\ m.text \in BOOLEAN /\ m.blob \in BOOLEAN /\ m.raw \in BOOLEAN
BY DEF Message

(* Only one field changes: that of server tools, ...                       *)
LEMMA SetServer ==
    ASSUME NEW m \in Message, NEW v \in {"none", "ok", "extra", "corrupt"},
           NEW x, x = [m EXCEPT !.server = v]
    PROVE /\ x \in Message /\ x.server = v /\ x.calls = m.calls
          /\ x.results = m.results /\ x.big = m.big /\ x.stubs = m.stubs
          /\ x.think = m.think /\ x.text = m.text /\ x.blob = m.blob /\ x.role = m.role
          /\ x.from = m.from
BY DEF Message

(* ... or that of thinking.                                                *)
LEMMA SetThink ==
    ASSUME NEW m \in Message, NEW v \in {"none", "ok", "bad"},
           NEW x, x = [m EXCEPT !.think = v]
    PROVE /\ x \in Message /\ x.server = m.server /\ x.calls = m.calls
          /\ x.results = m.results /\ x.big = m.big /\ x.stubs = m.stubs
          /\ x.think = v /\ x.text = m.text /\ x.blob = m.blob /\ x.role = m.role
          /\ x.from = m.from
BY DEF Message

(* stripCorruptServerToolResults keeps the calls, the results and the      *)
(* rest.                                                                   *)
LEMMA StrippedMessage ==
    ASSUME NEW m \in Message, NEW x, x = StripCorruptServerResults(m)
    PROVE /\ x \in Message /\ x.calls = m.calls /\ x.results = m.results
          /\ x.big = m.big /\ x.stubs = m.stubs /\ x.role = m.role
          /\ x.think = m.think /\ x.server \in {"none", "ok", "extra"}
<1>1. "none" \in {"none", "ok", "extra", "corrupt"}
  OBVIOUS
<1>2. CASE m.server = "corrupt"
  BY <1>1, <1>2, SetServer DEF StripCorruptServerResults
<1>3. CASE m.server # "corrupt"
  BY <1>3, Fields DEF StripCorruptServerResults
<1> QED BY <1>2, <1>3

(* stripUnacceptedCitations leaves no field the API refuses, and no empty  *)
(* message.                                                                *)
LEMMA CitedMessage ==
    ASSUME NEW m \in Message, m.server \in {"none", "ok", "extra"},
           NEW x, x = StripCitations(m)
    PROVE /\ x \in Message /\ x.calls = m.calls /\ x.results = m.results
          /\ x.big = m.big /\ x.stubs = m.stubs /\ x.role = m.role
          /\ x.think = m.think
          /\ x.server \in {"none", "ok"} /\ (NoContent(x) => NoContent(m))
<1>1. "ok" \in {"none", "ok", "extra", "corrupt"}
  OBVIOUS
<1>2. CASE m.server = "extra"
  BY <1>1, <1>2, SetServer DEF StripCitations, NoContent
<1>3. CASE m.server # "extra"
  BY <1>3 DEF StripCitations
<1> QED BY <1>2, <1>3

(* stripUnusableThinkingBlocks empties no message.                         *)
LEMMA ThoughtMessage ==
    ASSUME NEW m \in Message, m.server \in {"none", "ok"},
           NEW x, x = StripUnusableThinking(m)
    PROVE /\ x \in Message /\ x.calls = m.calls /\ x.results = m.results
          /\ x.big = m.big /\ x.stubs = m.stubs /\ x.role = m.role
          /\ x.server \in {"none", "ok"} /\ (NoContent(x) => NoContent(m))
<1> DEFINE rest == [m EXCEPT !.think = "none"]
<1>1. "none" \in {"none", "ok", "bad"}
  OBVIOUS
<1>2. CASE m.think = "bad" /\ ~NoContent(rest)
  <2>1. x = rest
    BY <1>2 DEF StripUnusableThinking
  <2> QED BY <1>1, <1>2, <2>1, SetThink
<1>3. CASE ~(m.think = "bad" /\ ~NoContent(rest))
  <2>1. x = m
    BY <1>3 DEF StripUnusableThinking
  <2> QED BY <2>1
<1> QED BY <1>2, <1>3

(* What is kept of a message when it is read.                              *)
LEMMA SanitizedMessage ==
    ASSUME NEW m \in Message, Sound(m), Sanitized(m).think # "bad",
           ~NoContent(StripCorruptServerResults(m))
    PROVE LET x == Sanitized(m)
          IN /\ x \in Message /\ Sound(x) /\ Clean(x) /\ ~NoContent(x)
             /\ x.calls = m.calls /\ x.results = m.results
<1>1. PICK a : a = StripCorruptServerResults(m)
  OBVIOUS
<1>2. PICK b : b = StripCitations(a)
  OBVIOUS
<1>3. PICK c : c = StripUnusableThinking(b)
  OBVIOUS
<1>4. /\ a \in Message /\ a.calls = m.calls /\ a.results = m.results
      /\ a.big = m.big /\ a.stubs = m.stubs /\ a.server \in {"none", "ok", "extra"}
  BY <1>1, StrippedMessage
<1>5. /\ b \in Message /\ b.calls = m.calls /\ b.results = m.results
      /\ b.big = m.big /\ b.stubs = m.stubs /\ b.server \in {"none", "ok"} /\ ~NoContent(b)
  BY <1>1, <1>2, <1>4, CitedMessage
<1>6. /\ c \in Message /\ c.calls = m.calls /\ c.results = m.results
      /\ c.big = m.big /\ c.stubs = m.stubs /\ c.server \in {"none", "ok"} /\ ~NoContent(c)
  BY <1>3, <1>5, ThoughtMessage
<1>7. c = Sanitized(m)
  BY <1>1, <1>2, <1>3 DEF Sanitized
<1> QED BY <1>6, <1>7 DEF Sound, Clean

-----------------------------------------------------------------------------
(* The sanitised beginning of a history, one message longer.               *)
Longer(h, f, n) ==
    IF n = 0 THEN << >>
    ELSE IF NoContent(StripCorruptServerResults(h[n])) THEN f[n - 1]
    ELSE Append(f[n - 1], Sanitized(h[n]))

Beginnings(h, k, f) == f = [n \in 0..k |-> Longer(h, f, n)]

(* There are such beginnings for any length: the recursion of              *)
(* readMemoryFile is over the numbers.                                     *)
LEMMA BeginningsExist ==
    ASSUME NEW h, NEW N \in Nat
    PROVE \E f : Beginnings(h, N, f)
<1> DEFINE Bad == {k \in 0..N : ~\E f : Beginnings(h, k, f)}
<1> SUFFICES ASSUME Bad # {} PROVE FALSE
  OBVIOUS
<1>1. Min(Bad) \in Bad /\ \A k \in Bad : Min(Bad) <= k
  BY Least
<1>2. PICK k \in 0..N : k = Min(Bad) /\ (~\E f : Beginnings(h, k, f))
      /\ \A j \in Bad : k <= j
  BY <1>1
<1> HIDE DEF Bad
<1>3. k # 0
  <2>1. [n \in 0..0 |-> << >>] = [n \in 0..0 |-> Longer(h, [m \in 0..0 |-> << >>], n)]
    BY DEF Longer
  <2> QED BY <1>2, <2>1 DEF Beginnings
<1>4. PICK f : Beginnings(h, k - 1, f)
  <2>1. k - 1 \in 0..N /\ ~(k <= k - 1)
    BY <1>2, <1>3
  <2>2. k - 1 \notin Bad
    BY <1>2, <2>1
  <2> QED BY <2>1, <2>2 DEF Bad
<1> DEFINE g == [n \in 0..k |-> IF n = k THEN Longer(h, f, n) ELSE f[n]]
<1>5. ASSUME NEW n \in 0..k PROVE g[n] = Longer(h, g, n)
  <2>1. Longer(h, g, n) = Longer(h, f, n)
    <3>1. n # 0 => g[n - 1] = f[n - 1]
      BY <1>2
    <3> QED BY <3>1 DEF Longer
  <2>2. n # k => f[n] = Longer(h, f, n)
    BY <1>2, <1>4 DEF Beginnings
  <2>3. g[n] = IF n = k THEN Longer(h, f, n) ELSE f[n]
    OBVIOUS
  <2> QED BY <2>1, <2>2, <2>3
<1>6. g = [n \in 0..k |-> Longer(h, g, n)]
  <2>1. \A n \in 0..k : g[n] = Longer(h, g, n)
    BY <1>5
  <2>2. DOMAIN g = 0..k /\ g = [n \in 0..k |-> g[n]]
    OBVIOUS
  <2> HIDE DEF g
  <2> QED BY <2>1, <2>2
<1> QED BY <1>2, <1>6 DEF Beginnings

(* ... and what readMemoryFile returns is the longest of them.             *)
LEMMA SanitizedByMessage ==
    ASSUME NEW h, Len(h) \in Nat
    PROVE \E f : Beginnings(h, Len(h), f) /\ SanitizeHistory(h) = f[Len(h)]
<1>1. PICK N : N = Len(h)
  OBVIOUS
<1> DEFINE f == CHOOSE g : Beginnings(h, Len(h), g)
<1>2. \E g : Beginnings(h, Len(h), g)
  BY BeginningsExist
<1>3. Beginnings(h, Len(h), f)
  BY <1>2
<1>4. SanitizeHistory(h) = f[Len(h)]
  BY Zenon DEF SanitizeHistory, Beginnings, Longer
<1> QED BY <1>3, <1>4

(* A conversation goes on with a message that has the results of its last. *)
LEMMA OneMoreMessage ==
    ASSUME NEW s, Talk(s), NEW m \in Message, Sound(m), Clean(m),
           s # << >> => m.results = Open(s)
    PROVE /\ Talk(Append(s, m)) /\ Open(Append(s, m)) = m.calls
          /\ Filled(s) /\ ~NoContent(m) => Filled(Append(s, m))
<1>1. s \in Seq(Message) /\ Len(s) \in Nat
  BY DEF Talk
<1> DEFINE t == Append(s, m)
<1>2. /\ t \in Seq(Message) /\ Len(t) = Len(s) + 1 /\ DOMAIN t = 1..(Len(s) + 1)
      /\ t[Len(s) + 1] = m /\ \A i \in 1..Len(s) : t[i] = s[i]
  BY <1>1
<1>3. DOMAIN s = 1..Len(s)
  BY <1>1
<1>4. s # << >> <=> Len(s) # 0
  BY <1>1
<1> HIDE DEF t
<1>5. Paired(t)
  <2> SUFFICES ASSUME NEW i \in 2..Len(t) PROVE t[i].results = t[i - 1].calls
    BY DEF Paired
  <2>1. CASE i = Len(s) + 1
    <3>1. Len(s) \in 1..Len(s) /\ i - 1 = Len(s) /\ s # << >>
      BY <1>1, <1>2, <1>4, <2>1
    <3> QED BY <1>2, <2>1, <3>1 DEF Open
  <2>2. CASE i # Len(s) + 1
    <3>1. i \in 2..Len(s) /\ i \in 1..Len(s) /\ i - 1 \in 1..Len(s)
      BY <1>1, <1>2, <2>2
    <3> QED BY <1>2, <3>1 DEF Talk, Paired
  <2> QED BY <2>1, <2>2
<1>6. \A i \in DOMAIN t : Sound(t[i]) /\ Clean(t[i])
  BY <1>1, <1>2, <1>3 DEF Talk
<1>7. Filled(s) /\ ~NoContent(m) => Filled(t)
  BY <1>1, <1>2, <1>3 DEF Filled
<1>8. Open(t) = m.calls
  BY <1>1, <1>2 DEF Open
<1> QED BY <1>2, <1>5, <1>6, <1>8, <1>7 DEF Talk, t

(* The empty conversation.                                                 *)
LEMMA NothingSaid == Talk(<< >>) /\ Filled(<< >>) /\ Open(<< >>) = {}
BY DEF Talk, Filled, Paired, Open

(* Sanitising drops a message only if it has no calls and no results, so   *)
(* the pairs stay.                                                         *)
LEMMA SanitizedHistory ==
    ASSUME NEW h, Stored(h)
    PROVE /\ Talk(SanitizeHistory(h)) /\ Filled(SanitizeHistory(h))
          /\ Open(SanitizeHistory(h)) = {}
<1>1. h \in Seq(Message) /\ Len(h) \in Nat /\ DOMAIN h = 1..Len(h)
  BY DEF Stored
<1>2. PICK f : Beginnings(h, Len(h), f) /\ SanitizeHistory(h) = f[Len(h)]
  BY <1>1, SanitizedByMessage
<1> DEFINE Good(n) == /\ Talk(f[n]) /\ Filled(f[n])
                      /\ Open(f[n]) = (IF n = 0 THEN {} ELSE h[n].calls)
           Bad == {n \in 0..Len(h) : ~Good(n)}
<1>3. \A n \in 0..Len(h) : f[n] = Longer(h, f, n)
  BY <1>2 DEF Beginnings
<1>4. ASSUME Bad # {} PROVE FALSE
  <2>1. Min(Bad) \in Bad /\ \A k \in Bad : Min(Bad) <= k
    <3>1. Bad \subseteq Nat
      BY <1>1
    <3> HIDE DEF Bad
    <3> QED BY <1>4, <3>1, Least
  <2>2. PICK n \in 0..Len(h) : ~Good(n) /\ \A k \in Bad : n <= k
    BY <2>1
  <2>3. n # 0
    <3>1. f[0] = << >>
      BY <1>1, <1>3 DEF Longer
    <3> QED BY <2>2, <3>1, NothingSaid
  <2>4. Good(n - 1) /\ n \in 1..Len(h)
    BY <1>1, <2>2, <2>3
  <2>5. PICK s, m : s = f[n - 1] /\ m = h[n] /\ m \in Message
    BY <1>1, <2>4
  <2>6. Sound(m) /\ Sanitized(m).think # "bad"
    BY <1>1, <2>4, <2>5 DEF Stored, Sound
  <2>7. s # << >> => m.results = Open(s)
    <3>1. CASE n = 1
      BY <1>1, <1>3, <2>5, <3>1 DEF Longer
    <3>2. CASE n # 1
      <4>1. n \in 2..Len(h) /\ n - 1 # 0
        BY <1>1, <2>4, <3>2
      <4> QED BY <2>4, <2>5, <4>1 DEF Stored
    <3> QED BY <3>1, <3>2
  <2>8. f[n] = IF NoContent(StripCorruptServerResults(m)) THEN s ELSE Append(s, Sanitized(m))
    BY <1>1, <1>3, <2>3, <2>4, <2>5 DEF Longer
  <2>9. Talk(s) /\ Filled(s)
    BY <2>4, <2>5
  <2>10. CASE NoContent(StripCorruptServerResults(m))
    <3>1. m.calls = {} /\ m.results = {}
      BY <2>5, <2>10, StrippedMessage DEF NoContent
    <3>2. Open(s) = {}
      BY <2>7, <3>1 DEF Open
    <3>3. f[n] = s
      BY <2>8, <2>10
    <3> QED BY <2>2, <2>3, <2>5, <2>9, <3>1, <3>2, <3>3
  <2>11. CASE ~NoContent(StripCorruptServerResults(m))
    <3>1. PICK x : x = Sanitized(m)
      OBVIOUS
    <3>2. /\ x \in Message /\ Sound(x) /\ Clean(x) /\ ~NoContent(x)
          /\ x.calls = m.calls /\ x.results = m.results
      BY <2>5, <2>6, <2>11, <3>1, SanitizedMessage
    <3>3. Talk(Append(s, x)) /\ Filled(Append(s, x)) /\ Open(Append(s, x)) = x.calls
      BY <2>7, <2>9, <3>2, OneMoreMessage
    <3>4. f[n] = Append(s, x)
      BY <2>8, <2>11, <3>1
    <3> QED BY <2>2, <2>3, <2>5, <3>2, <3>3, <3>4
  <2> QED BY <2>10, <2>11
<1>5. Good(Len(h))
  BY <1>1, <1>4
<1>6. Open(f[Len(h)]) = {}
  <2>1. CASE Len(h) = 0
    BY <1>5, <2>1
  <2>2. CASE Len(h) # 0
    BY <1>1, <1>5, <2>2 DEF Stored
  <2> QED BY <2>1, <2>2
<1> QED BY <1>2, <1>5, <1>6

-----------------------------------------------------------------------------
(* The rest of a sequence.                                                 *)
LEMMA RestOfSeq ==
    ASSUME NEW S, NEW h \in Seq(S), NEW k \in DOMAIN h
    PROVE /\ Rest(h, k) \in Seq(S) /\ Len(Rest(h, k)) = Len(h) - k + 1
          /\ Len(h) \in Nat /\ k \in 1..Len(h)
          /\ DOMAIN Rest(h, k) = 1..(Len(h) - k + 1)
          /\ \A i \in 1..(Len(h) - k + 1) : Rest(h, k)[i] = h[k + i - 1]
<1>1. Len(h) \in Nat /\ k \in 1..Len(h)
  OBVIOUS
<1> QED BY <1>1 DEF Rest

(* The rest of a conversation from an opening on may be sent.              *)
LEMMA RestSendable ==
    ASSUME NEW h, Talk(h), Filled(h), Open(h) = {}, NEW k \in DOMAIN h, ~Orphaned(h[k])
    PROVE Sendable(Rest(h, k))
<1> DEFINE r == Rest(h, k)
           n == Len(h) - k + 1
<1>1. h \in Seq(Message)
  BY DEF Talk
<1>2. /\ r \in Seq(Message) /\ Len(r) = n /\ DOMAIN r = 1..n
      /\ Len(h) \in Nat /\ k \in 1..Len(h) /\ \A i \in 1..n : r[i] = h[k + i - 1]
  BY <1>1, RestOfSeq
<1> HIDE DEF r
<1>3. DOMAIN h = 1..Len(h) /\ \A i \in 1..n : k + i - 1 \in 1..Len(h)
  BY <1>1, <1>2
<1>4. Paired(r)
  <2> SUFFICES ASSUME NEW i \in 2..Len(r) PROVE r[i].results = r[i - 1].calls
    BY DEF Paired
  <2>1. /\ i \in 1..n /\ i - 1 \in 1..n /\ k + i - 1 \in 2..Len(h)
        /\ k + (i - 1) - 1 = (k + i - 1) - 1
    BY <1>2
  <2> QED BY <1>2, <2>1 DEF Talk, Paired
<1>5. \A i \in DOMAIN r : Sound(r[i]) /\ Clean(r[i])
  BY <1>2, <1>3 DEF Talk
<1>6. Filled(r)
  BY <1>2, <1>3 DEF Filled
<1>7. h # << >> /\ r # << >> /\ r[1] = h[k]
  <2>1. 1 \in 1..n /\ k + 1 - 1 = k /\ n # 0
    BY <1>2
  <2> QED BY <1>2, <2>1
<1>8. Open(r) = {}
  <2>1. n \in 1..n /\ k + n - 1 = Len(h)
    BY <1>2
  <2>2. r[n] = h[Len(h)]
    BY <1>2, <2>1
  <2> QED BY <1>2, <1>7, <2>2 DEF Open
<1> QED BY <1>2, <1>4, <1>5, <1>6, <1>7, <1>8 DEF Sendable, Talk, r

(* Messages are wrapped: what is said stays.                               *)
LEMMA WrappedMessage ==
    ASSUME NEW m \in Message, Sound(m), Clean(m), NEW x, x = [m EXCEPT !.raw = TRUE]
    PROVE /\ x \in Message /\ Sound(x) /\ Clean(x) /\ x.calls = m.calls
          /\ x.results = m.results /\ (Orphaned(x) <=> Orphaned(m))
          /\ (NoContent(x) <=> NoContent(m))
BY DEF Message, Sound, Clean, Orphaned, NoContent

(* ... so a history of wrapped messages may be sent as before.             *)
LEMMA WrappedSendable ==
    ASSUME NEW h, Sendable(h)
    PROVE Sendable([i \in DOMAIN h |-> [h[i] EXCEPT !.raw = TRUE]])
<1> DEFINE w == [i \in DOMAIN h |-> [h[i] EXCEPT !.raw = TRUE]]
<1>1. h \in Seq(Message) /\ Len(h) \in Nat /\ DOMAIN h = 1..Len(h) /\ Len(h) # 0
  BY DEF Sendable, Talk
<1>2. ASSUME NEW i \in 1..Len(h)
      PROVE /\ w[i] \in Message /\ Sound(w[i]) /\ Clean(w[i]) /\ w[i].calls = h[i].calls
            /\ w[i].results = h[i].results /\ (Orphaned(w[i]) <=> Orphaned(h[i]))
            /\ ~NoContent(w[i])
  <2>1. PICK m, x : m = h[i] /\ x = [m EXCEPT !.raw = TRUE]
    OBVIOUS
  <2>2. m \in Message /\ Sound(m) /\ Clean(m) /\ ~NoContent(m)
    BY <1>1, <2>1 DEF Sendable, Talk, Filled
  <2>3. w[i] = x
    BY <1>1, <2>1
  <2> HIDE DEF w
  <2> QED BY <2>1, <2>2, <2>3, WrappedMessage
<1>3. w \in [1..Len(h) -> Message]
  BY <1>1, <1>2
<1>4. w \in Seq(Message) /\ Len(w) = Len(h) /\ DOMAIN w = 1..Len(h) /\ w # << >>
  BY <1>1, <1>3
<1> HIDE DEF w
<1>5. Paired(w)
  <2> SUFFICES ASSUME NEW i \in 2..Len(w) PROVE w[i].results = w[i - 1].calls
    BY DEF Paired
  <2>1. i \in 2..Len(h) /\ i \in 1..Len(h) /\ i - 1 \in 1..Len(h)
    BY <1>1, <1>4
  <2> QED BY <1>2, <2>1 DEF Sendable, Talk, Paired
<1>6. Open(w) = {} /\ ~Orphaned(w[1])
  <2>1. Len(h) \in 1..Len(h) /\ 1 \in 1..Len(h) /\ h # << >>
    BY <1>1
  <2> QED BY <1>2, <1>4, <2>1 DEF Sendable, Open
<1> QED BY <1>2, <1>4, <1>5, <1>6 DEF Sendable, Talk, Filled, w

(* What is read from a file of ours is nothing, or may be sent.            *)
LEMMA ReadBack ==
    ASSUME NEW h, Stored(h)
    PROVE ReadHistory(h) = << >> \/ Sendable(ReadHistory(h))
<1>1. PICK s : s = SanitizeHistory(h)
  OBVIOUS
<1>2. Talk(s) /\ Filled(s) /\ Open(s) = {}
  BY <1>1, SanitizedHistory
<1>3. PICK t : t = TrimOrphanedLeadingMessages(s)
  OBVIOUS
<1> DEFINE Keep == {i \in DOMAIN s : ~Orphaned(s[i])}
<1>4. t = << >> \/ Sendable(t)
  <2>1. CASE Keep = {}
    BY <1>3, <2>1 DEF TrimOrphanedLeadingMessages
  <2>2. CASE Keep # {}
    <3>1. Keep \subseteq Nat
      BY <1>2 DEF Talk
    <3>2. Min(Keep) \in Keep
      BY <2>2, <3>1, Least
    <3>3. t = Rest(s, Min(Keep))
      BY <1>3, <2>2 DEF TrimOrphanedLeadingMessages
    <3> QED BY <1>2, <3>2, <3>3, RestSendable
  <2> QED BY <2>1, <2>2
<1>5. ReadHistory(h) = [i \in DOMAIN t |-> [t[i] EXCEPT !.raw = TRUE]]
  BY <1>1, <1>3 DEF ReadHistory
<1>6. CASE t = << >>
  <2>1. DOMAIN t = {}
    BY <1>6
  <2> QED BY <1>5, <2>1
<1>7. CASE Sendable(t)
  BY <1>5, <1>7, WrappedSendable
<1> QED BY <1>4, <1>6, <1>7

(* What writing does to a message: its calls, results and thinking stay.  *)
LEMMA WrittenMessage ==
    ASSUME NEW m \in Message, Sound(m), Clean(m),
           NEW v \in BOOLEAN, NEW a, a = m \/ a = [m EXCEPT !.text = v, !.blob = FALSE],
           NEW x, x = [a EXCEPT !.raw = FALSE]
    PROVE /\ x \in Message /\ Sound(x) /\ x.calls = m.calls /\ x.results = m.results
          /\ x.think = m.think
<1>1. /\ a \in Message /\ a.calls = m.calls /\ a.results = m.results /\ a.think = m.think
      /\ a.stubs = m.stubs /\ a.big = m.big
  <2>1. CASE a = m
    BY <2>1
  <2>2. CASE a = [m EXCEPT !.text = v, !.blob = FALSE]
    BY ONLY <2>2, m \in Message, v \in BOOLEAN DEF Message
  <2> QED BY <2>1, <2>2
<1>2. /\ x \in Message /\ x.calls = a.calls /\ x.results = a.results /\ x.think = a.think
      /\ x.stubs = a.stubs /\ x.big = a.big
  BY ONLY <1>1, x = [a EXCEPT !.raw = FALSE] DEF Message
<1> QED BY <1>1, <1>2 DEF Sound

(* Loading mends every message whose thinking was usable when it was       *)
(* saved.                                                                  *)
LEMMA ThinkingStays ==
    ASSUME NEW m \in Message, m.think # "bad"
    PROVE Sanitized(m).think # "bad"
<1>1. PICK a : a = StripCorruptServerResults(m)
  OBVIOUS
<1>2. PICK b : b = StripCitations(a)
  OBVIOUS
<1>3. a \in Message /\ a.server \in {"none", "ok", "extra"} /\ a.think = m.think
  BY <1>1, StrippedMessage
<1>4. b.think = m.think
  BY <1>2, <1>3, CitedMessage
<1>5. StripUnusableThinking(b) = b
  BY <1>4 DEF StripUnusableThinking
<1> QED BY <1>1, <1>2, <1>4, <1>5 DEF Sanitized

(* What is written from a closed conversation is a file of ours.           *)
LEMMA WriteStored ==
    ASSUME NEW h, Talk(h), Open(h) = {}
    PROVE Stored(WriteHistory(h))
<1> DEFINE w == WriteHistory(h)
<1>1. h \in Seq(Message) /\ Len(h) \in Nat /\ DOMAIN h = 1..Len(h)
  BY DEF Talk
<1>2. ASSUME NEW i \in 1..Len(h)
      PROVE /\ w[i] \in Message /\ Sound(w[i]) /\ w[i].calls = h[i].calls
            /\ w[i].results = h[i].results /\ w[i].think = h[i].think
  <2>1. PICK m : m = h[i]
    OBVIOUS
  <2>2. PICK a : a = IF m.raw THEN m ELSE [m EXCEPT !.text = @ \/ m.blob, !.blob = FALSE]
    OBVIOUS
  <2>3. PICK x : x = [a EXCEPT !.raw = FALSE]
    OBVIOUS
  <2>4. m \in Message /\ Sound(m) /\ Clean(m)
    BY <1>1, <2>1 DEF Talk
  <2>5. StripAttachmentBlobs(h)[i] = a
    BY <1>1, <2>1, <2>2 DEF StripAttachmentBlobs
  <2>6. w[i] = x
    BY <1>1, <2>3, <2>5 DEF WriteHistory
  <2>7. /\ x \in Message /\ Sound(x) /\ x.calls = m.calls /\ x.results = m.results
        /\ x.think = m.think
    <3>1. (m.text \/ m.blob) \in BOOLEAN
      BY Zenon
    <3>2. PICK v \in BOOLEAN : v = (m.text \/ m.blob)
      BY <3>1
    <3>3. a = m \/ a = [m EXCEPT !.text = v, !.blob = FALSE]
      BY <2>2, <3>2
    <3> QED BY ONLY <2>3, <2>4, <3>3, WrittenMessage
  <2> HIDE DEF w
  <2> QED BY <2>1, <2>6, <2>7
<1>3. DOMAIN w = 1..Len(h) /\ w = [i \in 1..Len(h) |-> w[i]]
  BY <1>1 DEF WriteHistory
<1> HIDE DEF w
<1>4. w \in [1..Len(h) -> Message]
  BY <1>2, <1>3
<1>5. w \in Seq(Message) /\ Len(w) = Len(h)
  BY <1>1, <1>4
<1>6. \A i \in 2..Len(w) : w[i].results = w[i - 1].calls
  <2> SUFFICES ASSUME NEW i \in 2..Len(w) PROVE w[i].results = w[i - 1].calls
    OBVIOUS
  <2>1. i \in 2..Len(h) /\ i \in 1..Len(h) /\ i - 1 \in 1..Len(h)
    BY <1>1, <1>5
  <2> QED BY <1>2, <2>1 DEF Talk, Paired
<1>7. w # << >> => w[Len(w)].calls = {}
  <2> SUFFICES ASSUME w # << >> PROVE w[Len(w)].calls = {}
    OBVIOUS
  <2>1. Len(h) \in 1..Len(h) /\ h # << >>
    BY <1>1, <1>5
  <2> QED BY <1>2, <1>5, <2>1 DEF Open
<1>8. \A i \in DOMAIN w : Sound(w[i]) /\ Sanitized(w[i]).think # "bad"
  <2> SUFFICES ASSUME NEW i \in DOMAIN w PROVE Sound(w[i]) /\ Sanitized(w[i]).think # "bad"
    OBVIOUS
  <2>1. w[i] \in Message /\ Sound(w[i]) /\ w[i].think # "bad"
    BY <1>1, <1>2, <1>3 DEF Talk, Clean
  <2> QED BY <2>1, ThinkingStays
<1> QED BY <1>5, <1>6, <1>7, <1>8 DEF Stored, Sound, w

-----------------------------------------------------------------------------
(* A provider accepts whatever says the same as a sendable conversation.   *)
LEMMA SendableAccepted ==
    ASSUME NEW h, Sendable(h), NEW g, DOMAIN g = DOMAIN h, Len(g) = Len(h),
           \A i \in DOMAIN h : Alike(g[i], h[i])
    PROVE Acceptable(g)
<1>1. Len(h) \in Nat /\ DOMAIN h = 1..Len(h) /\ h # << >> /\ Len(h) # 0
  BY DEF Sendable, Talk
<1>2. g # << >>
  BY <1>1
<1>3. 1 \in 1..Len(h) /\ Len(h) \in 1..Len(h)
  BY <1>1
<1>4. ~Orphaned(g[1]) /\ g[Len(g)].calls = {}
  BY <1>1, <1>3 DEF Alike, Sendable, Open
<1>5. \A i \in 2..Len(g) : g[i].results = g[i - 1].calls
  <2> SUFFICES ASSUME NEW i \in 2..Len(g) PROVE g[i].results = g[i - 1].calls
    OBVIOUS
  <2>1. i \in 2..Len(h) /\ i \in 1..Len(h) /\ i - 1 \in 1..Len(h)
    BY <1>1
  <2> QED BY <1>1, <2>1 DEF Alike, Sendable, Talk, Paired
<1>6. \A i \in DOMAIN g : g[i].server \in {"none", "ok"} /\ g[i].think # "bad" /\ ~NoContent(g[i])
  BY DEF Alike, Sendable, Filled
<1> QED BY <1>2, <1>4, <1>5, <1>6 DEF Acceptable

(* OpenRouter's form of a message, also of a compressed one.               *)
LEMMA ConvertedAlike ==
    ASSUME NEW x, NEW y, Alike(x, y), x.calls = {} \/ x.results = {},
           NEW c, c = ConvertMessage(x)
    PROVE Alike(c, y)
<1>1. x \in Message
  BY DEF Alike
<1>2. CASE x.results # {}
  <2>1. c = [Blank EXCEPT !.results = x.results]
    BY <1>2 DEF ConvertMessage, ConvertRawBlocks, ConvertOwn, ConvertResults
  <2>2. PICK r : r = x.results /\ r \subseteq Nat
    BY <1>1 DEF Message
  <2>3. /\ c \in Message /\ c.results = r /\ c.calls = {} /\ c.server = "none"
        /\ c.think = "none"
    BY ONLY <2>1, <2>2 DEF Blank, Message
  <2>4. x.calls = {}
    BY <1>2
  <2> QED BY <1>2, <2>2, <2>3, <2>4 DEF Alike, Orphaned, NoContent
<1>3. CASE x.results = {}
  <2>1. PICK r \in {"user", "assistant"}, f \in {"human", "agent", "none"}, k \in SUBSET Nat,
             b \in BOOLEAN : r = x.role /\ f = x.from /\ k = x.calls /\ b = x.blob
    BY <1>1 DEF Message
  <2>2. \/ c = [Blank EXCEPT !.role = r, !.from = f, !.calls = k, !.text = TRUE, !.blob = b]
        \/ c = [Blank EXCEPT !.role = r, !.from = f, !.calls = k, !.text = TRUE]
    BY <1>3, <2>1 DEF ConvertMessage, ConvertRawBlocks, ConvertOwn
  <2>3. /\ c \in Message /\ c.results = {} /\ c.calls = k /\ c.server = "none"
        /\ c.think = "none" /\ c.role = r /\ c.text
    <3>1. CASE c = [Blank EXCEPT !.role = r, !.from = f, !.calls = k, !.text = TRUE, !.blob = b]
      BY ONLY <3>1, r \in {"user", "assistant"}, f \in {"human", "agent", "none"},
              k \in SUBSET Nat, b \in BOOLEAN DEF Blank, Message
    <3>2. CASE c = [Blank EXCEPT !.role = r, !.from = f, !.calls = k, !.text = TRUE]
      BY ONLY <3>2, r \in {"user", "assistant"}, f \in {"human", "agent", "none"},
              k \in SUBSET Nat DEF Blank, Message
    <3> QED BY <2>2, <3>1, <3>2
  <2>4. c.role = x.role /\ c.calls = x.calls
    BY <2>1, <2>3
  <2> QED BY <1>3, <2>3, <2>4 DEF Alike, Orphaned, NoContent
<1> QED BY <1>2, <1>3

(* What compressing does to a message.                                     *)
LEMMA CompressedAlike ==
    ASSUME NEW m \in Message, Sound(m), Clean(m), NEW G,
           NEW c, c = (IF m.raw THEN m ELSE [m EXCEPT !.big = @ \ G,
                                             !.stubs = @ \cup (m.big \cap G)])
    PROVE Alike(c, m) /\ (m.results = {} => c = m)
<1>1. PICK b, t : b = m.big \ G /\ t = m.stubs \cup (m.big \cap G)
  OBVIOUS
<1>2. b \subseteq Nat /\ t \subseteq Nat
  BY <1>1, Fields
<1>3. c = m \/ c = [m EXCEPT !.big = b, !.stubs = t]
  BY <1>1
<1>4. CASE c = m
  BY <1>4 DEF Alike, Clean
<1>5. CASE c = [m EXCEPT !.big = b, !.stubs = t]
  <2>1. Alike(c, m)
    BY ONLY <1>2, <1>5, m \in Message, Clean(m) DEF Message, Alike, Clean, Orphaned, NoContent
  <2>2. ASSUME m.results = {} PROVE c = m
    <3>1. b = m.big /\ t = m.stubs
      BY <1>1, <2>2 DEF Sound
    <3> QED BY ONLY <1>5, <3>1, m \in Message DEF Message
  <2> QED BY <2>1, <2>2
<1> QED BY <1>3, <1>4, <1>5

(* A message says the same as itself.                                      *)
LEMMA AlikeItself ==
    ASSUME NEW m \in Message, Clean(m)
    PROVE Alike(m, m)
BY DEF Alike, Clean

(* A cut without compression, ...                                          *)
LEMMA RestCut ==
    ASSUME NEW h, Sendable(h), NEW k \in Cutpoints(h)
    PROVE Cut(Rest(h, k), h, k)
<1>1. h \in Seq(Message) /\ k \in DOMAIN h
  BY DEF Sendable, Talk, Cutpoints
<1>2. /\ Rest(h, k) \in Seq(Message) /\ Len(Rest(h, k)) = Len(h) - k + 1
      /\ Len(h) \in Nat /\ k \in 1..Len(h)
      /\ \A i \in 1..(Len(h) - k + 1) : Rest(h, k)[i] = h[k + i - 1]
  BY <1>1, RestOfSeq
<1>3. ASSUME NEW i \in 1..(Len(h) - k + 1) PROVE Alike(h[k + i - 1], h[k + i - 1])
  <2>1. k + i - 1 \in 1..Len(h) /\ k + i - 1 \in DOMAIN h
    BY <1>1, <1>2
  <2> QED BY <1>1, <2>1, AlikeItself DEF Sendable, Talk
<1> QED BY <1>2, <1>3 DEF Cut

(* ... and one whose results are compressed.                               *)
LEMMA CompressedCut ==
    ASSUME NEW h, Sendable(h), NEW k \in Cutpoints(h)
    PROVE Cut(CompressToolResults(Rest(h, k)), h, k)
<1>1. h \in Seq(Message) /\ k \in DOMAIN h
  BY DEF Sendable, Talk, Cutpoints
<1>2. PICK r : r = Rest(h, k)
  OBVIOUS
<1> DEFINE n == Len(h) - k + 1
<1>3. /\ r \in Seq(Message) /\ Len(r) = n /\ Len(h) \in Nat /\ k \in 1..Len(h)
      /\ DOMAIN r = 1..n /\ \A i \in 1..n : r[i] = h[k + i - 1]
  BY <1>1, <1>2, RestOfSeq
<1>4. PICK G : CompressToolResults(r) =
                 [i \in DOMAIN r |-> IF r[i].raw THEN r[i]
                           ELSE [r[i] EXCEPT !.big = @ \ G,
                                             !.stubs = @ \cup (r[i].big \cap G)]]
  BY DEF CompressToolResults
<1>5. PICK t : t = CompressToolResults(r)
  OBVIOUS
<1>6. ASSUME NEW i \in 1..n
      PROVE Alike(t[i], h[k + i - 1]) /\ (h[k + i - 1].results = {} => t[i] = h[k + i - 1])
  <2>1. k + i - 1 \in 1..Len(h) /\ k + i - 1 \in DOMAIN h
    BY <1>1, <1>3
  <2>2. PICK m, c : m = h[k + i - 1] /\ c = t[i]
    OBVIOUS
  <2>3. m \in Message /\ Sound(m) /\ Clean(m)
    BY <1>1, <2>1, <2>2 DEF Sendable, Talk
  <2>4. r[i] = m
    BY <1>3, <2>2
  <2>5. c = IF m.raw THEN m ELSE [m EXCEPT !.big = @ \ G, !.stubs = @ \cup (m.big \cap G)]
    BY <1>3, <1>4, <1>5, <2>2, <2>4
  <2> QED BY ONLY <2>2, <2>3, <2>5, CompressedAlike
<1>7. DOMAIN t = 1..n /\ t = [i \in 1..n |-> t[i]]
  BY <1>3, <1>4, <1>5
<1>8. \A i \in 1..n : t[i] \in Message
  BY <1>6 DEF Alike
<1>9. t \in [1..n -> Message] /\ n \in Nat
  BY <1>3, <1>7, <1>8
<1>10. t \in Seq(Message) /\ Len(t) = n
  BY <1>9
<1> QED BY <1>2, <1>5, <1>6, <1>10 DEF Cut

(* Trimming cuts at a cut point, whatever the sizes are.                   *)
LEMMA TrimmedCut ==
    ASSUME NEW h, Sendable(h)
    PROVE \E k \in Cutpoints(h) : Cut(TrimHistory(h), h, k)
<1>1. h \in Seq(Message) /\ Len(h) \in Nat /\ DOMAIN h = 1..Len(h) /\ Len(h) # 0
  BY DEF Sendable, Talk
<1>2. 1 \in Cutpoints(h)
  BY <1>1 DEF Sendable, Cutpoints
<1> DEFINE Pinned == {i \in Cutpoints(h) : i >= FindAnchor(h)}
           Candidates == IF Pinned = {} THEN Cutpoints(h) ELSE Pinned
           Fitting == {i \in Candidates : EffectiveSize(Rest(h, i)) <= MaxHistoryChars}
           From == IF Fitting = {} THEN Candidates ELSE Fitting
<1>3. From # {} /\ From \subseteq Cutpoints(h)
  BY <1>2
<1>4. Min(From) \in Cutpoints(h)
  <2>1. From \subseteq Nat
    BY <1>1, <1>3 DEF Cutpoints
  <2> HIDE DEF From
  <2> QED BY <1>3, <2>1, Least
<1>5. \/ TrimHistory(h) = h \/ TrimHistory(h) = Rest(h, Min(From))
      \/ TrimHistory(h) = CompressToolResults(Rest(h, Min(From)))
  BY Zenon DEF TrimHistory
<1>6. CASE TrimHistory(h) = h
  <2>1. Rest(h, 1) = h
    BY <1>1 DEF Rest
  <2> QED BY <1>2, <1>6, <2>1, RestCut
<1> HIDE DEF From
<1>7. CASE TrimHistory(h) = Rest(h, Min(From))
  BY <1>4, <1>7, RestCut
<1>8. CASE TrimHistory(h) = CompressToolResults(Rest(h, Min(From)))
  BY <1>4, <1>8, CompressedCut
<1> QED BY <1>5, <1>6, <1>7, <1>8

(* Both providers accept every cut of a conversation.                      *)
LEMMA CutAccepted ==
    ASSUME NEW h, Sendable(h), NEW k, NEW t, Cut(t, h, k)
    PROVE Acceptable(t) /\ Acceptable(ConvertMessages(t))
<1>1. h \in Seq(Message) /\ k \in DOMAIN h /\ ~Orphaned(h[k])
  BY DEF Sendable, Talk, Cut, Cutpoints
<1>2. PICK r : r = Rest(h, k)
  OBVIOUS
<1> DEFINE n == Len(h) - k + 1
<1>3. /\ r \in Seq(Message) /\ Len(r) = n /\ Len(h) \in Nat /\ k \in 1..Len(h)
      /\ DOMAIN r = 1..n /\ \A i \in 1..n : r[i] = h[k + i - 1]
  BY <1>1, <1>2, RestOfSeq
<1>4. Sendable(r)
  BY <1>1, <1>2, RestSendable DEF Sendable
<1>5. t \in Seq(Message) /\ Len(t) = n /\ DOMAIN t = 1..n /\ n \in Nat
  BY <1>3 DEF Cut
<1>6. \A i \in DOMAIN r : Alike(t[i], r[i])
  BY <1>3 DEF Cut
<1>7. Acceptable(t)
  BY <1>3, <1>4, <1>5, <1>6, SendableAccepted
<1>8. PICK g : g = ConvertMessages(t)
  OBVIOUS
<1>9. DOMAIN g = 1..n /\ g = [i \in 1..n |-> ConvertMessage(t[i])]
  BY <1>5, <1>8 DEF ConvertMessages
<1>10. Len(g) = n
  BY <1>5, <1>9
<1>11. \A i \in DOMAIN r : Alike(g[i], r[i])
  <2> SUFFICES ASSUME NEW i \in 1..n PROVE Alike(g[i], r[i])
    BY <1>3
  <2>1. Alike(t[i], r[i]) /\ Sound(r[i])
    BY <1>3, <1>4, <1>6 DEF Sendable, Talk
  <2>2. t[i].calls = {} \/ t[i].results = {}
    BY <2>1 DEF Alike, Sound
  <2>3. g[i] = ConvertMessage(t[i])
    BY <1>9
  <2> QED BY <2>1, <2>2, <2>3, ConvertedAlike
<1>12. Acceptable(g)
  BY <1>3, <1>4, <1>9, <1>10, <1>11, SendableAccepted
<1> QED BY <1>7, <1>8, <1>12

(* The newest request is in whatever part of the conversation is sent.     *)
LEMMA CutHasNewest ==
    ASSUME NEW h, Sendable(h), NEW k, NEW t, Cut(t, h, k)
    PROVE Openings(t) # {} /\ t[Max(Openings(t))] = h[Max(Openings(h))]
<1>1. /\ h \in Seq(Message) /\ Len(h) \in Nat /\ DOMAIN h = 1..Len(h)
      /\ k \in 1..Len(h) /\ k \in Openings(h)
  BY DEF Sendable, Talk, Cut, Cutpoints, Openings
<1> DEFINE n == Len(h) - k + 1
<1>2. t \in Seq(Message) /\ Len(t) = n /\ DOMAIN t = 1..n /\ n \in Nat
  BY <1>1 DEF Cut
<1>3. Max(Openings(h)) \in Openings(h) /\ \A i \in Openings(h) : i <= Max(Openings(h))
  <2>1. Openings(h) \subseteq Nat /\ Openings(h) # {} /\ \A i \in Openings(h) : i <= Len(h)
    BY <1>1 DEF Openings
  <2> QED BY <1>1, <2>1, Greatest
<1>4. PICK M \in Openings(h) : M = Max(Openings(h)) /\ \A i \in Openings(h) : i <= M
  BY <1>3
<1>5. M \in 1..Len(h) /\ k <= M
  BY <1>1, <1>4 DEF Openings
<1>6. \A i \in 1..n : i \in Openings(t) <=> k + i - 1 \in Openings(h)
  <2> SUFFICES ASSUME NEW i \in 1..n PROVE i \in Openings(t) <=> k + i - 1 \in Openings(h)
    OBVIOUS
  <2>1. k + i - 1 \in 1..Len(h)
    BY <1>1
  <2> QED BY <1>1, <1>2, <2>1 DEF Openings, Cut, Alike
<1>7. PICK j \in 1..n : j = M - k + 1
  BY <1>1, <1>5
<1>8. k + j - 1 = M
  BY <1>1, <1>5, <1>7
<1>9. j \in Openings(t)
  BY <1>4, <1>6, <1>8
<1>10. Max(Openings(t)) \in Openings(t) /\ \A i \in Openings(t) : i <= Max(Openings(t))
  <2>1. Openings(t) \subseteq Nat /\ \A i \in Openings(t) : i <= n
    BY <1>2 DEF Openings
  <2> QED BY <1>2, <1>9, <2>1, Greatest
<1>11. Max(Openings(t)) = j
  <2>1. PICK x \in Openings(t) : x = Max(Openings(t)) /\ j <= x
    BY <1>9, <1>10
  <2>2. x \in 1..n
    BY <1>2 DEF Openings
  <2>3. k + x - 1 <= M
    BY <1>4, <1>6, <2>2
  <2>4. x = j
    BY <1>1, <1>5, <1>7, <2>1, <2>2, <2>3
  <2> QED BY <2>1, <2>4
<1>12. h[M].results = {}
  BY <1>4 DEF Openings, Orphaned
<1>13. t[j] = h[M]
  BY <1>7, <1>8, <1>12 DEF Cut
<1> QED BY <1>4, <1>9, <1>11, <1>13
(* Messages with nothing cut are messages.                                 *)
LEMMA KeptMessages ==
    /\ \A m \in Kept : m \in Message
    /\ \A h \in Seq(Kept) : h \in Seq(Message)
<1>1. \A m \in Kept : m \in Message
  BY DEF Kept
<1>2. ASSUME NEW h \in Seq(Kept) PROVE h \in Seq(Message)
  <2>1. Len(h) \in Nat /\ h \in [1..Len(h) -> Kept]
    OBVIOUS
  <2>2. \A i \in 1..Len(h) : h[i] \in Message
    BY <1>1, <2>1
  <2> QED BY <2>1, <2>2
<1> QED BY <1>1, <1>2

(* Sanitising cuts nothing of a message, ...                               *)
LEMMA SanitizedType ==
    ASSUME NEW m \in Kept
    PROVE Sanitized(m) \in Kept
<1>1. PICK a : a = StripCorruptServerResults(m)
  OBVIOUS
<1>2. PICK b : b = StripCitations(a)
  OBVIOUS
<1>3. a \in Message /\ a.stubs = {} /\ a.server \in {"none", "ok", "extra"}
  BY <1>1, StrippedMessage DEF Kept
<1>4. b \in Message /\ b.stubs = {} /\ b.server \in {"none", "ok"}
  BY <1>2, <1>3, CitedMessage
<1>5. PICK c : c = StripUnusableThinking(b)
  OBVIOUS
<1>6. c \in Message /\ c.stubs = {}
  BY <1>4, <1>5, ThoughtMessage
<1> QED BY <1>1, <1>2, <1>5, <1>6 DEF Sanitized, Kept

(* ... of a history, ...                                                   *)
LEMMA SanitizeType ==
    ASSUME NEW h \in Seq(Kept)
    PROVE SanitizeHistory(h) \in Seq(Kept)
<1>1. Len(h) \in Nat /\ DOMAIN h = 1..Len(h)
  OBVIOUS
<1>2. PICK f : Beginnings(h, Len(h), f) /\ SanitizeHistory(h) = f[Len(h)]
  BY <1>1, SanitizedByMessage
<1> DEFINE Bad == {n \in 0..Len(h) : f[n] \notin Seq(Kept)}
<1>3. \A n \in 0..Len(h) : f[n] = Longer(h, f, n)
  BY <1>2 DEF Beginnings
<1>4. ASSUME Bad # {} PROVE FALSE
  <2>1. Min(Bad) \in Bad /\ \A k \in Bad : Min(Bad) <= k
    <3>1. Bad \subseteq Nat
      BY <1>1
    <3> HIDE DEF Bad
    <3> QED BY <1>4, <3>1, Least
  <2>2. PICK n \in 0..Len(h) : f[n] \notin Seq(Kept) /\ \A k \in Bad : n <= k
    BY <2>1
  <2>3. n # 0
    <3>1. f[0] = << >>
      BY <1>1, <1>3 DEF Longer
    <3>2. << >> \in Seq(Kept)
      OBVIOUS
    <3>3. f[0] \in Seq(Kept)
      BY <3>1, <3>2
    <3> QED BY <2>2, <3>3
  <2>4. f[n - 1] \in Seq(Kept) /\ n \in 1..Len(h)
    BY <1>1, <2>2, <2>3
  <2>5. h[n] \in Kept /\ Sanitized(h[n]) \in Kept
    BY <1>1, <2>4, SanitizedType
  <2>6. f[n] = f[n - 1] \/ f[n] = Append(f[n - 1], Sanitized(h[n]))
    BY <1>3, <2>3 DEF Longer
  <2>7. PICK s, x : s = f[n - 1] /\ x = Sanitized(h[n]) /\ s \in Seq(Kept) /\ x \in Kept
    BY <2>4, <2>5
  <2>8. Append(s, x) \in Seq(Kept)
    BY <2>7
  <2> QED BY ONLY <2>2, <2>6, <2>7, <2>8
<1> QED BY <1>1, <1>2, <1>4

(* ... nor does reading, ...                                               *)
LEMMA ReadType ==
    ASSUME NEW h \in Seq(Kept)
    PROVE ReadHistory(h) \in Seq(Kept)
<1>1. PICK s : s = SanitizeHistory(h)
  OBVIOUS
<1>2. s \in Seq(Kept)
  BY <1>1, SanitizeType
<1>3. PICK t : t = TrimOrphanedLeadingMessages(s)
  OBVIOUS
<1> DEFINE Keep == {i \in DOMAIN s : ~Orphaned(s[i])}
<1>4. t \in Seq(Kept)
  <2>1. CASE Keep = {}
    BY <1>3, <2>1 DEF TrimOrphanedLeadingMessages
  <2>2. CASE Keep # {}
    <3>1. Keep \subseteq Nat
      BY <1>2
    <3>2. Min(Keep) \in Keep
      BY <2>2, <3>1, Least
    <3>3. t = Rest(s, Min(Keep))
      BY <1>3, <2>2 DEF TrimOrphanedLeadingMessages
    <3> QED BY <1>2, <3>2, <3>3, RestOfSeq
  <2> QED BY <2>1, <2>2
<1>5. ReadHistory(h) = [i \in DOMAIN t |-> [t[i] EXCEPT !.raw = TRUE]]
  BY <1>1, <1>3 DEF ReadHistory
<1>6. \A i \in DOMAIN t : [t[i] EXCEPT !.raw = TRUE] \in Kept
  <2> SUFFICES ASSUME NEW i \in DOMAIN t PROVE [t[i] EXCEPT !.raw = TRUE] \in Kept
    OBVIOUS
  <2>1. PICK m : m = t[i] /\ m \in Kept
    BY <1>4
  <2>2. [m EXCEPT !.raw = TRUE] \in Kept
    BY <2>1 DEF Message, Kept
  <2> QED BY <2>1, <2>2
<1>7. Len(t) \in Nat /\ DOMAIN t = 1..Len(t)
  BY <1>4
<1> QED BY <1>5, <1>6, <1>7

(* ... nor does writing.                                                   *)
LEMMA WriteType ==
    ASSUME NEW h \in Seq(Kept)
    PROVE WriteHistory(h) \in Seq(Kept)
<1>1. Len(h) \in Nat /\ DOMAIN h = 1..Len(h)
  OBVIOUS
<1>2. ASSUME NEW i \in 1..Len(h) PROVE WriteHistory(h)[i] \in Kept
  <2>1. PICK m : m = h[i] /\ m \in Kept
    BY <1>1
  <2>2. PICK a : a = IF m.raw THEN m ELSE [m EXCEPT !.text = @ \/ m.blob, !.blob = FALSE]
    OBVIOUS
  <2>3. PICK x : x = [a EXCEPT !.raw = FALSE]
    OBVIOUS
  <2>4. StripAttachmentBlobs(h)[i] = a
    BY <1>1, <2>1, <2>2 DEF StripAttachmentBlobs
  <2>5. WriteHistory(h)[i] = x
    BY <1>1, <2>3, <2>4 DEF WriteHistory
  <2>6. (m.text \/ m.blob) \in BOOLEAN
    BY Zenon
  <2>7. PICK v \in BOOLEAN : v = (m.text \/ m.blob)
    BY <2>6
  <2>8. a = m \/ a = [m EXCEPT !.text = v, !.blob = FALSE]
    BY <2>2, <2>7
  <2>9. a \in Kept
    BY ONLY <2>1, <2>8, v \in BOOLEAN DEF Message, Kept
  <2>10. x \in Kept
    BY ONLY <2>3, <2>9 DEF Message, Kept
  <2> QED BY <2>5, <2>10
<1>3. WriteHistory(h) = [i \in 1..Len(h) |-> WriteHistory(h)[i]]
  BY <1>1 DEF WriteHistory
<1>4. WriteHistory(h) \in [1..Len(h) -> Kept]
  <2> DEFINE w == WriteHistory(h)
  <2> HIDE DEF w
  <2>1. w = [i \in 1..Len(h) |-> w[i]] /\ \A i \in 1..Len(h) : w[i] \in Kept
    BY <1>2, <1>3 DEF w
  <2>2. w \in [1..Len(h) -> Kept]
    BY <2>1
  <2> QED BY <2>2 DEF w
<1> QED BY <1>1, <1>4

(* Compressing returns messages, ...                                       *)
LEMMA CompressType ==
    ASSUME NEW r \in Seq(Message)
    PROVE CompressToolResults(r) \in Seq(Message)
<1>1. Len(r) \in Nat /\ DOMAIN r = 1..Len(r)
  OBVIOUS
<1>2. PICK G : CompressToolResults(r) =
                 [i \in DOMAIN r |-> IF r[i].raw THEN r[i]
                           ELSE [r[i] EXCEPT !.big = @ \ G,
                                             !.stubs = @ \cup (r[i].big \cap G)]]
  BY DEF CompressToolResults
<1>3. PICK t : t = CompressToolResults(r)
  OBVIOUS
<1>4. ASSUME NEW i \in 1..Len(r) PROVE t[i] \in Message
  <2>1. PICK m, c : m = r[i] /\ c = t[i] /\ m \in Message
    BY <1>1
  <2>2. PICK b, s : b = m.big \ G /\ s = m.stubs \cup (m.big \cap G)
    OBVIOUS
  <2>3. b \subseteq Nat /\ s \subseteq Nat
    BY <2>1, <2>2, Fields
  <2>4. c = m \/ c = [m EXCEPT !.big = b, !.stubs = s]
    BY <1>1, <1>2, <1>3, <2>1, <2>2
  <2>5. c \in Message
    <3>1. CASE c = m
      BY <2>1, <3>1
    <3>2. CASE c = [m EXCEPT !.big = b, !.stubs = s]
      BY ONLY <2>1, <2>3, <3>2 DEF Message
    <3> QED BY <2>4, <3>1, <3>2
  <2> QED BY <2>1, <2>5
<1>5. t = [i \in 1..Len(r) |-> t[i]]
  BY <1>1, <1>2, <1>3
<1>6. t \in [1..Len(r) -> Message]
  BY <1>4, <1>5
<1> QED BY <1>1, <1>3, <1>6

(* ... and so does trimming.                                               *)
LEMMA TrimType ==
    ASSUME NEW h \in Seq(Message)
    PROVE TrimHistory(h) \in Seq(Message)
<1> DEFINE Pinned == {i \in Cutpoints(h) : i >= FindAnchor(h)}
           Candidates == IF Pinned = {} THEN Cutpoints(h) ELSE Pinned
           Fitting == {i \in Candidates : EffectiveSize(Rest(h, i)) <= MaxHistoryChars}
           From == IF Fitting = {} THEN Candidates ELSE Fitting
<1>1. CASE Cutpoints(h) = {}
  BY Zenon, <1>1 DEF TrimHistory
<1>2. CASE Cutpoints(h) # {}
  <2>1. From # {} /\ From \subseteq Cutpoints(h)
    BY <1>2
  <2>2. Min(From) \in DOMAIN h
    <3>1. From \subseteq Nat /\ From \subseteq DOMAIN h
      BY <2>1 DEF Cutpoints
    <3> HIDE DEF From
    <3> QED BY <2>1, <3>1, Least
  <2>3. \/ TrimHistory(h) = h \/ TrimHistory(h) = Rest(h, Min(From))
        \/ TrimHistory(h) = CompressToolResults(Rest(h, Min(From)))
    BY Zenon DEF TrimHistory
  <2> HIDE DEF From
  <2>4. Rest(h, Min(From)) \in Seq(Message)
    BY <2>2, RestOfSeq
  <2>5. CompressToolResults(Rest(h, Min(From))) \in Seq(Message)
    BY <2>4, CompressType
  <2> QED BY <2>3, <2>4, <2>5
<1> QED BY <1>1, <1>2

(* The message the results are collected in.                               *)
LEMMA BlankType == Blank \in Kept /\ Sound(Blank) /\ Clean(Blank)
BY DEF Blank, Message, Sound, Clean, Kept

(* An e-mail opens a conversation.                                         *)
LEMMA MailType ==
    ASSUME NEW from \in {"human", "agent"}, NEW blob \in BOOLEAN
    PROVE Opening(UserMessage(from, blob))
BY DEF UserMessage, Blank, Message, Kept, Sound, Clean, NoContent, Orphaned, Opening

(* A reply's message has its calls, and is empty only if the reply is.     *)
LEMMA ReplyMessage ==
    ASSUME NEW r \in Replies, NEW ids \in SUBSET Nat, NEW x, x = ToHistoryParam(r, ids)
    PROVE /\ x \in Message /\ Sound(x) /\ Clean(x) /\ x.calls = ids /\ x.results = {}
          /\ (r.text \/ ids # {} \/ r.server # "none" \/ r.think # "none") => ~NoContent(x)
<1>1. /\ r.text \in BOOLEAN /\ r.server \in {"none", "ok"} /\ r.think \in {"none", "ok"}
  BY ReplyAssumption DEF Reply
<1>2. CASE provider = "openrouter"
  <2>1. (r.text \/ ids = {}) \in BOOLEAN
    BY Zenon
  <2>2. PICK v \in BOOLEAN : v = (r.text \/ ids = {})
    BY <2>1
  <2>3. x = [Blank EXCEPT !.role = "assistant", !.calls = ids, !.text = v]
    BY <1>2, <2>2 DEF ToHistoryParam, OpenRouterParam
  <2>4. /\ x \in Message /\ Sound(x) /\ Clean(x) /\ x.calls = ids /\ x.results = {} /\ x.text = v
    BY ONLY <2>3, v \in BOOLEAN, ids \in SUBSET Nat DEF Blank, Message, Sound, Clean
  <2>5. x.calls # {} \/ x.text
    BY <2>2, <2>4
  <2> QED BY <2>4, <2>5 DEF NoContent
<1>3. CASE provider # "openrouter"
  <2>1. PICK t \in BOOLEAN, s \in {"none", "ok"}, k \in {"none", "ok"} :
          t = r.text /\ s = r.server /\ k = r.think
    BY <1>1
  <2>2. x = [Blank EXCEPT !.role = "assistant", !.calls = ids, !.text = t,
                  !.server = s, !.think = k]
    BY <1>3, <2>1 DEF ToHistoryParam, AnthropicParam
  <2>3. /\ x \in Message /\ Sound(x) /\ Clean(x) /\ x.calls = ids /\ x.results = {} /\ x.text = t
        /\ x.server = s /\ x.think = k
    BY ONLY <2>2, t \in BOOLEAN, s \in {"none", "ok"}, k \in {"none", "ok"}, ids \in SUBSET Nat
       DEF Blank, Message, Sound, Clean
  <2> QED BY <2>1, <2>3 DEF NoContent
<1> QED BY <1>2, <1>3
-----------------------------------------------------------------------------
(* The ids of the calls still to come, one call fewer.                     *)
LEMMA NextCall ==
    ASSUME blocks \in Seq(Block), blocks # << >>
    PROVE /\ Head(blocks).id \in Nat
          /\ Ids(blocks) = {Head(blocks).id} \cup Ids(Tail(blocks))
<1>1. PICK n \in Nat : Len(blocks) = n /\ n # 0
  OBVIOUS
<1>2. /\ Head(blocks) = blocks[1] /\ DOMAIN blocks = 1..n /\ blocks[1] \in Block
      /\ DOMAIN Tail(blocks) = 1..(n - 1)
      /\ \A i \in 1..(n - 1) : Tail(blocks)[i] = blocks[i + 1]
  BY <1>1
<1>3. \A i \in 1..n : i = 1 \/ i - 1 \in 1..(n - 1)
  BY <1>1
<1>4. \A i \in 1..(n - 1) : i + 1 \in 1..n
  BY <1>1
<1>5. 1 \in 1..n
  BY <1>1
<1>6. ASSUME NEW x \in Ids(blocks) PROVE x \in {Head(blocks).id} \cup Ids(Tail(blocks))
  <2>1. PICK i \in 1..n : x = blocks[i].id
    BY <1>2 DEF Ids
  <2>2. CASE i = 1
    BY <1>2, <2>1, <2>2
  <2>3. CASE i # 1
    <3>1. i - 1 \in 1..(n - 1) /\ (i - 1) + 1 = i
      BY <1>3, <2>3
    <3> QED BY <1>2, <2>1, <3>1 DEF Ids
  <2> QED BY <2>2, <2>3
<1>7. Head(blocks).id \in Ids(blocks) /\ Ids(Tail(blocks)) \subseteq Ids(blocks)
  BY <1>2, <1>4, <1>5 DEF Ids
<1> QED BY <1>2, <1>6, <1>7 DEF Block

(* The calls of a reply and its message have the same ids.                 *)
LEMMA ReplyIds ==
    ASSUME nextId \in Nat, NEW r \in Replies,
           NEW bs, bs = [i \in DOMAIN r.calls |->
                        [id |-> nextId + i - 1, tool |-> r.calls[i].tool,
                         input |-> StreamedInput(r.calls[i].input),
                         streamed |-> r.calls[i].input]]
    PROVE /\ Ids(bs) = nextId..(nextId + Len(r.calls) - 1)
          /\ Ids(bs) \in SUBSET Nat
          /\ r.calls # << >> <=> Ids(bs) # {}
<1>1. r.calls \in Seq(Call)
  BY ReplyAssumption DEF Reply
<1>2. PICK n \in Nat : Len(r.calls) = n /\ DOMAIN r.calls = 1..n /\ (r.calls # << >> <=> n # 0)
  BY <1>1
<1>3. Ids(bs) = {nextId + i - 1 : i \in 1..n}
  BY <1>2 DEF Ids
<1>4. ASSUME NEW x \in nextId..(nextId + n - 1) PROVE x \in {nextId + i - 1 : i \in 1..n}
  <2>1. x - nextId + 1 \in 1..n /\ x = nextId + (x - nextId + 1) - 1
    OBVIOUS
  <2> QED BY <2>1
<1>5. \A i \in 1..n : nextId + i - 1 \in nextId..(nextId + n - 1)
  OBVIOUS
<1>6. Ids(bs) = nextId..(nextId + n - 1)
  BY <1>3, <1>4, <1>5
<1>7. n # 0 <=> nextId..(nextId + n - 1) # {}
  <2>1. n # 0 => nextId \in nextId..(nextId + n - 1)
    OBVIOUS
  <2> QED BY <2>1
<1>8. nextId..(nextId + n - 1) \subseteq Nat
  OBVIOUS
<1> HIDE DEF Ids
<1> QED BY <1>2, <1>6, <1>7, <1>8

(* A message that starts a run is one.                                     *)
LEMMA MailMessage ==
    ASSUME NEW mail \in Mails
    PROVE Opening(mail)
<1>1. PICK from \in {"human", "agent"}, blob \in BOOLEAN : mail = UserMessage(from, blob)
  BY MailAssumption
<1> QED BY <1>1, MailType

(* ... and opens or goes on a conversation.                                *)
LEMMA OpeningSendable ==
    ASSUME NEW mail, Opening(mail), NEW h, h = << >> \/ Sendable(h)
    PROVE Sendable(Append(h, mail))
<1>1. Talk(h) /\ Filled(h) /\ Open(h) = {} /\ h \in Seq(Message)
  BY NothingSaid DEF Sendable, Talk
<1>2. mail \in Message
  BY KeptMessages DEF Opening
<1>3. /\ Talk(Append(h, mail)) /\ Filled(Append(h, mail))
      /\ Open(Append(h, mail)) = {}
  BY <1>1, <1>2, OneMoreMessage DEF Opening
<1>4. /\ Append(h, mail) # << >>
      /\ Append(h, mail)[1] = (IF h = << >> THEN mail ELSE h[1])
  <2>1. CASE h = << >>
    BY <1>2, <2>1
  <2>2. CASE h # << >>
    BY <1>1, <1>2, <2>2
  <2> QED BY <2>1, <2>2
<1>5. ~Orphaned(Append(h, mail)[1])
  BY <1>4 DEF Sendable, Opening
<1> QED BY <1>3, <1>4, <1>5 DEF Sendable

-----------------------------------------------------------------------------
(* Types.                                                                  *)

(* Types: what TypeOK says, of sequences, and the turns there are left.    *)
TypeInv ==
    /\ TypeOK
    /\ file \in Seq(Kept) /\ history \in Seq(Kept) /\ outgoing \in Seq(Message)
    /\ toolResults \in Kept
    /\ pc \in {"api", "calls"} => turn < MaxTurns

(* In the beginning.                                                       *)
LEMMA InitTypes == Init => TypeInv
<1> SUFFICES ASSUME Init PROVE TypeInv
  OBVIOUS
<1>1. file \in Seq(Kept)
  <2>1. file \in Seq(Message) /\ \A i \in DOMAIN file : file[i].stubs = {}
    BY FilesAssumption DEF Init, Stored
  <2>2. Len(file) \in Nat /\ file \in [1..Len(file) -> Message] /\ DOMAIN file = 1..Len(file)
    BY <2>1
  <2>3. \A i \in 1..Len(file) : file[i] \in Kept
    BY <2>1, <2>2 DEF Kept
  <2> QED BY <2>2, <2>3
<1>2. << >> \in Seq(Message) /\ << >> \in Seq(Kept)
  OBVIOUS
<1>3. \A i \in DOMAIN file : file[i] \in Message
  BY <1>1, KeptMessages
<1>4. \A i \in DOMAIN << >> : FALSE
  OBVIOUS
<1>5. 0 \in 0..MaxTurns /\ 0 \in 0..(MaxRetries - 1)
  BY RunAssumption
<1>6. Blank \in Kept /\ Blank \in Message
  BY BlankType, KeptMessages
<1> QED BY <1>1, <1>2, <1>3, <1>4, <1>5, <1>6 DEF Init, TypeInv, TypeOK, Stops

(* The three histories are sequences of messages: the form of TypeOK       *)
(* follows.                                                                *)
Histories == file \in Seq(Kept) /\ history \in Seq(Kept) /\ outgoing \in Seq(Message)

(* Their messages.                                                         *)
LEMMA HistoriesTyped ==
    Histories => \A h \in {file, history, outgoing} : \A i \in DOMAIN h : h[i] \in Message
<1> SUFFICES ASSUME Histories, NEW h \in {file, history, outgoing}, NEW i \in DOMAIN h
             PROVE h[i] \in Message
  OBVIOUS
<1>1. h \in Seq(Message)
  BY KeptMessages DEF Histories
<1> QED BY <1>1

Limits ==
    /\ turn \in 0..MaxTurns /\ attempt \in 0..(MaxRetries - 1)
    /\ pc \in {"api", "calls"} => turn < MaxTurns

Values ==
    /\ provider \in Providers /\ live \in ToolSets /\ snapshot \subseteq Tools
    /\ err \in {"none", "retry", "fatal"} /\ lastAnswer \in {"none", "ok", "error"}
    /\ stop \in Stops \cup {"none"} /\ toolResults \in Kept
    /\ expired \in BOOLEAN
    /\ status \in {"none", "waiting", "error"}

(* TypeInv in parts.                                                       *)
LEMMA TypesInParts == RunInv => (TypeInv <=> Histories /\ Limits /\ Values)
BY HistoriesTyped, KeptMessages DEF TypeInv, TypeOK, Histories, Limits, Values, RunInv, Stage

(* What each step does to the histories.                                   *)
LEMMA HistoriesStep ==
    ASSUME RunInv, Histories, toolResults \in Kept, [Next]_vars
    PROVE Histories'
<1> USE DEF Histories
<1>1. CASE UNCHANGED vars
  BY <1>1 DEF vars, api
<1>2. ASSUME NEW k \in {"mail", "schedule"}, NEW mail \in Mails, Start(k, mail)
      PROVE Histories'
  <2>1. ReadHistory(file) \in Seq(Kept) /\ mail \in Kept
    BY ReadType, MailMessage DEF Opening
  <2>2. /\ WriteHistory(ReadHistory(file)) \in Seq(Kept)
        /\ Append(ReadHistory(file), mail) \in Seq(Kept)
    BY <2>1, WriteType
  <2> QED BY <1>2, <2>2 DEF Start, api
<1>3. CASE Ask
  BY <1>3, TrimType, KeptMessages DEF Ask
<1>4. CASE GiveUpTurns \/ Expire \/ BlockTool
  BY <1>4 DEF GiveUpTurns, Expire, BlockTool, api
<1>5. ASSUME NEW r \in Replies, Answered(r) PROVE Histories'
  <2>1. PICK ids : ids = nextId..(nextId + Len(r.calls) - 1)
    OBVIOUS
  <2>2. ids \in SUBSET Nat
    BY <2>1, ReplyIds DEF RunInv, Stage
  <2>3. ToHistoryParam(r, ids) \in Kept
    BY <2>2, ReplyMessage DEF Kept, Sound
  <2>4. Append(history, ToHistoryParam(r, ids)) \in Seq(Kept)
    BY <2>3
  <2> QED BY <1>5, <2>1, <2>4 DEF Answered, AttemptError
<1>6. ASSUME NEW e \in {"retry", "fatal"}, Refused(e) PROVE Histories'
  BY <1>6 DEF Refused
<1>7. CASE ExecuteTool
  BY <1>7 DEF ExecuteTool, api
<1>8. CASE EndReply
  BY <1>8 DEF EndReply, api
<1>9. CASE Save
  <2>1. /\ WriteHistory(history) \in Seq(Kept)
        /\ << >> \in Seq(Kept) /\ << >> \in Seq(Message)
    BY WriteType
  <2> QED BY <1>9, <2>1 DEF Save
<1>10. ASSUME NEW ts \in ToolSets, SetTools(ts) PROVE Histories'
  BY <1>10 DEF SetTools, api
<1> QED BY <1>1, <1>2, <1>3, <1>4, <1>5, <1>6, <1>7, <1>8, <1>9, <1>10 DEF Next, Step

(* What each step does to the counters: an attempt starts with a turn      *)
(* left.                                                                   *)
LEMMA LimitsStep ==
    ASSUME RunInv, Limits, [Next]_vars
    PROVE Limits'
<1> USE RunAssumption DEF Limits, RunInv, Stage
<1>1. CASE UNCHANGED vars
  BY <1>1 DEF vars, api
<1>2. ASSUME NEW k \in {"mail", "schedule"}, NEW mail \in Mails, Start(k, mail)
      PROVE Limits'
  BY <1>2 DEF Start, api
<1>3. CASE Ask
  BY <1>3 DEF Ask
<1>4. CASE GiveUpTurns
  BY <1>4 DEF GiveUpTurns, Finish, api
<1>5. ASSUME NEW r \in Replies, Answered(r) PROVE Limits'
  BY <1>5 DEF Answered, AttemptError
<1>6. ASSUME NEW e \in {"retry", "fatal"}, Refused(e) PROVE Limits'
  <2>1. CASE attempt' = attempt + 1 /\ attempt < MaxRetries - 1 /\ UNCHANGED pc
    BY <1>6, <2>1 DEF Refused
  <2>2. CASE UNCHANGED attempt /\ pc' = "done"
    BY <1>6, <2>2 DEF Refused
  <2> QED BY <1>6, <2>1, <2>2 DEF Refused, Retry, Finish
<1>7. CASE BlockTool \/ ExecuteTool
  BY <1>7 DEF BlockTool, ExecuteTool, api
<1>8. CASE EndReply
  BY <1>8 DEF EndReply, Finish, api
<1>9. CASE Save
  BY <1>9 DEF Save
<1>10. ASSUME NEW ts \in ToolSets, SetTools(ts) PROVE Limits'
  BY <1>10 DEF SetTools, api
<1>11. CASE Expire
  BY <1>11 DEF Expire, api
<1> QED BY <1>1, <1>2, <1>3, <1>4, <1>5, <1>6, <1>7, <1>8, <1>9, <1>10, <1>11
        DEF Next, Step

(* A result is one more id of the message that is fed back.                *)
LEMMA ResultsStay ==
    ASSUME RunInv, toolResults \in Kept, BlockTool \/ ExecuteTool
    PROVE toolResults' \in Kept
<1>1. PICK id \in Nat : \E large : AddResult(id, large)
  <2>1. blocks # << >> /\ Head(blocks).id \in Nat
    BY NextCall DEF BlockTool, ExecuteTool, NextBlock, RunInv, Pending
  <2>2. CASE BlockTool
    BY <2>1, <2>2 DEF BlockTool
  <2>3. CASE ExecuteTool
    BY <2>1, <2>3 DEF ExecuteTool
  <2> QED BY <2>2, <2>3
<1>2. PICK large : AddResult(id, large)
  BY <1>1
<1>3. PICK m, x : m = toolResults /\ x = toolResults'
  OBVIOUS
<1>4. PICK b, r : b = (IF large THEN m.big \cup {id} ELSE m.big) /\ r = m.results \cup {id}
  OBVIOUS
<1>5. m \in Message /\ b \subseteq Nat /\ r \subseteq Nat
  BY <1>3, <1>4, Fields, KeptMessages
<1>6. x = [m EXCEPT !.results = r, !.big = b]
  BY <1>2, <1>3, <1>4 DEF AddResult
<1>7. x \in Kept
  BY ONLY <1>3, <1>5, <1>6, toolResults \in Kept DEF Message, Kept
<1> QED BY <1>3, <1>7

(* What each step does to the other variables.                             *)
LEMMA ValuesStep ==
    ASSUME RunInv, Values, [Next]_vars
    PROVE Values'
<1> USE DEF Values, Stops
<1>1. CASE UNCHANGED vars
  BY <1>1 DEF vars, world, record, reply, api
<1>2. ASSUME NEW k \in {"mail", "schedule"}, NEW mail \in Mails, Start(k, mail)
      PROVE Values'
  <2>1. ToolSetOf(k) \subseteq Tools
    BY ToolAssumption DEF ToolSetOf
  <2> QED BY <1>2, <2>1 DEF Start, record, reply, api
<1>3. CASE Ask
  BY <1>3 DEF Ask, world, record, reply
<1>4. CASE GiveUpTurns
  BY <1>4 DEF GiveUpTurns, world, record, reply, api
<1>5. ASSUME NEW r \in Replies, Answered(r) PROVE Values'
  <2>1. r.stop \in Stops
    BY ReplyAssumption DEF Reply
  <2> QED BY <1>5, <2>1, BlankType DEF Answered, AttemptError, world, record
<1>6. ASSUME NEW e \in {"retry", "fatal"}, Refused(e) PROVE Values'
  BY <1>6 DEF Refused, Retry, world, record, reply
<1>7. CASE BlockTool
  BY <1>7, ResultsStay DEF BlockTool, world, record, api
<1>8. CASE ExecuteTool
  BY <1>8, ResultsStay DEF ExecuteTool, world, api
<1>9. CASE EndReply
  BY <1>9 DEF EndReply, world, record, reply, api
<1>10. CASE Save
  BY <1>10, BlankType DEF Save
<1>11. ASSUME NEW ts \in ToolSets, SetTools(ts) PROVE Values'
  BY <1>11 DEF SetTools, record, reply, api
<1>12. CASE Expire
  BY <1>12 DEF Expire, record, reply, api
<1> QED BY <1>1, <1>2, <1>3, <1>4, <1>5, <1>6, <1>7, <1>8, <1>9, <1>10, <1>11, <1>12
        DEF Next, Step

(* The types, for any replies and any memory file of this program.         *)
THEOREM LoopTypes == Spec => [](RunInv /\ TypeInv)
<1>1. ASSUME RunInv, TypeInv, [Next]_vars PROVE TypeInv'
  <2>1. Histories /\ Limits /\ Values
    BY <1>1, TypesInParts
  <2>2. RunInv'
    BY <1>1, RunStep
  <2>3. Histories' /\ Limits' /\ Values'
    BY <1>1, <2>1, HistoriesStep, LimitsStep, ValuesStep DEF Values
  <2>4. Histories' => \A h \in {file', history', outgoing'} : \A i \in DOMAIN h : h[i] \in Message
    <3> SUFFICES ASSUME Histories', NEW h \in {file', history', outgoing'}, NEW i \in DOMAIN h
                 PROVE h[i] \in Message
      OBVIOUS
    <3>1. h \in Seq(Message)
      BY KeptMessages DEF Histories
    <3> QED BY <3>1
  <2>5. toolResults' \in Message
    BY <2>3, KeptMessages DEF Values
  <2> QED BY <2>2, <2>3, <2>4, <2>5 DEF TypeInv, TypeOK, Histories, Limits, Values, RunInv, Stage
<1> QED BY InitTypes, <1>1, RunInvariant, PTL DEF Spec

-----------------------------------------------------------------------------
(* The conversation.                                                       *)

(* What the model is taken to answer: a reply that calls tools does not    *)
(* end the turn, and one that does not end the turn says something.        *)
SoundReplies ==
    \A r \in Replies :
        /\ r.calls # << >> => r.stop # "end_turn"
        /\ r.stop # "end_turn" => \/ r.text \/ r.calls # << >>
                                  \/ r.server # "none" \/ r.think # "none"

(* While the calls of a reply are dealt with: each has its result or is    *)
(* still to come.                                                          *)
Asked ==
    /\ Talk(history) /\ history # << >> /\ ~Orphaned(history[1])
    /\ Sound(toolResults) /\ Clean(toolResults) /\ toolResults.calls = {}
    /\ toolResults.results = {} => toolResults = Blank
    /\ Open(history) = toolResults.results \cup Ids(blocks)
    /\ IF stop = "end_turn" THEN Open(history) = {} ELSE Filled(history)

(* The file is one this program left, the history a conversation: open     *)
(* only while its calls are dealt with, and what is sent a part of it.     *)
Conversation ==
    /\ Stored(file) /\ Talk(history)
    /\ pc \in {"turn", "api"} => Sendable(history)
    /\ pc = "api" => \E k \in Cutpoints(history) : Cut(outgoing, history, k)
    /\ pc = "calls" => Asked
    /\ pc = "done" => Open(history) = {}

(* A conversation that may be sent is one, and closed.                     *)
LEMMA SendableTalk ==
    ASSUME NEW h, Sendable(h)
    PROVE Talk(h) /\ Open(h) = {}
BY DEF Sendable

(* In the beginning.                                                       *)
LEMMA InitConversation == Init => Conversation
BY FilesAssumption, NothingSaid DEF Init, Conversation

(* A memory file is written from a conversation in which nothing is open.  *)
LEMMA StartTalks ==
    ASSUME Conversation, NEW k \in {"mail", "schedule"}, NEW mail \in Mails, Start(k, mail)
    PROVE Conversation'
<1>1. PICK h : h = ReadHistory(file)
  OBVIOUS
<1>2. h = << >> \/ Sendable(h)
  BY <1>1, ReadBack DEF Conversation
<1>3. Sendable(Append(h, mail))
  BY <1>2, MailMessage, OpeningSendable
<1>4. Talk(h) /\ Open(h) = {}
  BY <1>2, NothingSaid, SendableTalk
<1>5. Stored(WriteHistory(h))
  BY <1>4, WriteStored
<1>6. Sendable(history') /\ pc' = "turn" /\ Stored(file')
  BY <1>1, <1>3, <1>5 DEF Start, Conversation
<1> QED BY <1>6, SendableTalk DEF Conversation

(* What is sent is a part of a conversation that can be sent.              *)
LEMMA AskTalks ==
    ASSUME Conversation, Ask
    PROVE Conversation'
<1>1. Sendable(history)
  BY DEF Ask, Conversation
<1>2. \E k \in Cutpoints(history) : Cut(TrimHistory(history), history, k)
  BY <1>1, TrimmedCut
<1> QED BY <1>1, <1>2 DEF Ask, Conversation

(* The answer opens calls, all of them to be dealt with.                   *)
LEMMA AnswerTalks ==
    ASSUME Conversation, RunInv, SoundReplies, NEW r \in Replies, Answered(r)
    PROVE Conversation'
<1>1. PICK ids : ids = nextId..(nextId + Len(r.calls) - 1)
  OBVIOUS
<1>2. PICK x : x = ToHistoryParam(r, ids)
  OBVIOUS
<1>3. PICK bs : bs = [i \in DOMAIN r.calls |->
                        [id |-> nextId + i - 1, tool |-> r.calls[i].tool,
                         input |-> StreamedInput(r.calls[i].input),
                         streamed |-> r.calls[i].input]]
  OBVIOUS
<1>4. /\ pc = "api" /\ pc' = "calls" /\ file' = file /\ history' = Append(history, x)
      /\ blocks' = bs /\ stop' = r.stop /\ toolResults' = Blank
  BY <1>1, <1>2, <1>3 DEF Answered, AttemptError
<1>5. nextId \in Nat
  BY DEF RunInv, Stage
<1>6. Ids(bs) = ids /\ ids \in SUBSET Nat /\ (r.calls # << >> <=> ids # {})
  BY <1>1, <1>3, <1>5, ReplyIds
<1>7. /\ x \in Message /\ Sound(x) /\ Clean(x) /\ x.calls = ids /\ x.results = {}
      /\ (r.text \/ ids # {} \/ r.server # "none" \/ r.think # "none") => ~NoContent(x)
  BY <1>2, <1>6, ReplyMessage
<1>8. Sendable(history)
  BY <1>4 DEF Conversation
<1>9. Talk(history) /\ Open(history) = {} /\ Filled(history) /\ history # << >>
      /\ history \in Seq(Message) /\ ~Orphaned(history[1])
  BY <1>8 DEF Sendable, Talk
<1>10. PICK h : h = Append(history, x)
  OBVIOUS
<1>11. Talk(h) /\ Open(h) = ids /\ (~NoContent(x) => Filled(h))
  BY <1>7, <1>9, <1>10, OneMoreMessage
<1>12. h # << >> /\ h[1] = history[1]
  BY <1>7, <1>9, <1>10
<1>13. IF r.stop = "end_turn" THEN ids = {} ELSE Filled(h)
  BY <1>6, <1>7, <1>11 DEF SoundReplies
<1>14. Blank.results = {} /\ Blank.calls = {}
  BY DEF Blank
<1>15. Asked'
  BY <1>4, <1>6, <1>9, <1>10, <1>11, <1>12, <1>13, <1>14, BlankType DEF Asked
<1> QED BY <1>4, <1>10, <1>11, <1>15 DEF Conversation

(* A refusal leaves the conversation as it was.                            *)
LEMMA RefusalTalks ==
    ASSUME Conversation, NEW e \in {"retry", "fatal"}, Refused(e)
    PROVE Conversation'
<1>1. /\ Sendable(history) /\ UNCHANGED <<file, history, outgoing>>
      /\ pc = "api" /\ pc' \in {"api", "done"}
  BY DEF Refused, Retry, Finish, Conversation
<1> QED BY <1>1, SendableTalk DEF Conversation

(* Every call gets a result, whether it is run, fails or is refused.       *)
LEMMA ToolTalks ==
    ASSUME Conversation, RunInv, toolResults \in Kept, BlockTool \/ ExecuteTool
    PROVE Conversation'
<1>1. /\ pc = "calls" /\ blocks # << >> /\ blocks' = Tail(blocks)
      /\ UNCHANGED <<pc, file, history, stop>>
      /\ \E large : AddResult(Head(blocks).id, large)
  BY DEF BlockTool, ExecuteTool, NextBlock
<1>2. Asked
  BY <1>1 DEF Conversation
<1>3. Head(blocks).id \in Nat /\ Ids(blocks) = {Head(blocks).id} \cup Ids(Tail(blocks))
  BY <1>1, NextCall DEF RunInv, Pending
<1>4. PICK large : AddResult(Head(blocks).id, large)
  BY <1>1
<1>5. PICK m, x, id : m = toolResults /\ x = toolResults' /\ id = Head(blocks).id
  OBVIOUS
<1>6. x = [m EXCEPT !.results = @ \cup {id}, !.big = IF large THEN @ \cup {id} ELSE @]
  BY <1>4, <1>5 DEF AddResult
<1>7. /\ x \in Message /\ x.results = m.results \cup {id} /\ x.calls = m.calls
      /\ Clean(x) /\ Sound(x)
  <2>1. m \in Message /\ Sound(m) /\ Clean(m) /\ m.calls = {} /\ id \in Nat
    BY <1>2, <1>3, <1>5, KeptMessages DEF Asked
  <2>2. PICK b, r : b = (IF large THEN m.big \cup {id} ELSE m.big) /\ r = m.results \cup {id}
    OBVIOUS
  <2>3. x = [m EXCEPT !.results = r, !.big = b] /\ (b = m.big \/ b = m.big \cup {id})
    BY <1>6, <2>2
  <2>4. r = m.results \cup {id} /\ b \subseteq Nat /\ r \subseteq Nat /\ b \subseteq r
    BY <2>1, <2>2, Fields DEF Sound
  <2>5. x \in Message /\ x.results = r /\ x.calls = m.calls /\ Clean(x) /\ Sound(x)
    BY ONLY <2>1, <2>3, <2>4 DEF Message, Sound, Clean
  <2> QED BY ONLY <2>4, <2>5
<1>8. Asked'
  BY <1>1, <1>2, <1>3, <1>5, <1>7 DEF Asked
<1> QED BY <1>1, <1>2, <1>8 DEF Conversation, Asked

(* With the last result nothing is open, and the results are fed back.     *)
LEMMA EndTalks ==
    ASSUME Conversation, toolResults \in Kept, EndReply
    PROVE Conversation'
<1>1. Asked /\ Ids(blocks) = {}
  BY DEF EndReply, Conversation, Ids
<1>2. PICK m : m = toolResults
  OBVIOUS
<1>3. Open(history) = m.results
  BY <1>1, <1>2 DEF Asked
<1>4. CASE stop = "end_turn"
  BY <1>1, <1>4 DEF EndReply, Finish, Asked, Conversation
<1>5. CASE stop # "end_turn" /\ toolResults = Blank
  <2>1. Open(history) = {}
    BY <1>2, <1>3, <1>5 DEF Blank
  <2>2. Sendable(history)
    BY <1>1, <1>5, <2>1 DEF Asked, Sendable
  <2> QED BY <1>5, <2>2 DEF EndReply, Conversation
<1>6. CASE stop # "end_turn" /\ toolResults # Blank
  <2>1. /\ m.results # {} /\ m \in Message /\ Sound(m) /\ Clean(m) /\ m.calls = {}
        /\ Talk(history) /\ Filled(history) /\ history # << >> /\ ~Orphaned(history[1])
    BY <1>1, <1>2, <1>6, KeptMessages DEF Asked
  <2>2. PICK h : h = Append(history, m)
    OBVIOUS
  <2>3. Talk(h) /\ Open(h) = {} /\ Filled(h)
    BY <1>3, <2>1, <2>2, OneMoreMessage DEF NoContent
  <2>4. h # << >> /\ h[1] = history[1]
    BY <2>1, <2>2 DEF Talk
  <2>5. Sendable(h)
    BY <2>1, <2>3, <2>4 DEF Sendable
  <2> QED BY <1>2, <1>6, <2>2, <2>5, SendableTalk DEF EndReply, Conversation
<1> QED BY <1>4, <1>5, <1>6

(* What is saved is a conversation, whatever the outcome.                  *)
LEMMA SaveTalks ==
    ASSUME Conversation, Save
    PROVE Conversation'
<1>1. Stored(WriteHistory(history))
  BY WriteStored DEF Save, Conversation
<1> QED BY <1>1, NothingSaid DEF Save, Conversation

(* Every step of handleMessageWith, CreateMessage, executeTool and the     *)
(* memory file.                                                            *)
LEMMA ConversationStep ==
    ASSUME Conversation, RunInv, TypeInv, SoundReplies, [Next]_vars
    PROVE Conversation'
<1>1. CASE UNCHANGED vars
  BY <1>1 DEF vars, api, reply, Conversation, Asked
<1>2. CASE GiveUpTurns
  <2>1. Sendable(history)
    BY <1>2 DEF GiveUpTurns, Conversation
  <2> QED BY <1>2, <2>1, SendableTalk DEF GiveUpTurns, Finish, Conversation
<1>3. CASE Expire
  BY <1>3 DEF Expire, api, reply, Conversation, Asked
<1>4. ASSUME NEW ts \in ToolSets, SetTools(ts) PROVE Conversation'
  BY <1>4 DEF SetTools, api, reply, Conversation, Asked
<1> QED BY <1>1, <1>2, <1>3, <1>4, StartTalks, AskTalks, AnswerTalks, RefusalTalks, ToolTalks,
           EndTalks, SaveTalks DEF Next, Step, TypeInv, TypeOK

(* With replies that are sound, from any memory file of this program: the  *)
(* history is a conversation at every step of every run.                   *)
THEOREM ConversationInvariant ==
    ASSUME SoundReplies
    PROVE  Spec => [](TypeInv /\ Conversation)
<1>1. Init => RunInv /\ TypeInv /\ Conversation
  BY InitRun, InitTypes, InitConversation
<1> QED BY <1>1, ConversationStep, LoopTypes, PTL DEF Spec

(* TypeOK: whatever the model answers, the loop stays within its types,    *)
(* its turns and its attempts.                                             *)
THEOREM LoopTypeCorrect == Spec => []TypeOK
<1>1. TypeInv => TypeOK
  BY DEF TypeInv
<1> QED BY <1>1, LoopTypes, PTL

(* MemoryKeepsResults: compressToolResults works on what is sent only.     *)
THEOREM MemoryInFull == Spec => []MemoryKeepsResults
<1>1. TypeInv => MemoryKeepsResults
  <2> SUFFICES ASSUME TypeInv, NEW h \in {file, history}, NEW i \in DOMAIN h
               PROVE h[i].stubs = {}
    BY DEF MemoryKeepsResults
  <2>1. h \in Seq(Kept)
    BY DEF TypeInv
  <2>2. h[i] \in Kept
    BY <2>1
  <2> QED BY <2>2 DEF Kept
<1> QED BY <1>1, LoopTypes, PTL

(* RequestAcceptable: every request is one the provider takes.             *)
THEOREM RequestsAccepted ==
    ASSUME SoundReplies
    PROVE  Spec => []RequestAcceptable
<1>1. Conversation => RequestAcceptable
  BY CutAccepted DEF Conversation, RequestAcceptable, Request
<1> QED BY <1>1, ConversationInvariant, PTL

(* StartSent: the newest request is part of it.                            *)
THEOREM NewestRequestSent ==
    ASSUME SoundReplies
    PROVE  Spec => []StartSent
<1>1. Conversation => StartSent
  BY CutHasNewest DEF Conversation, StartSent, Openings
<1> QED BY <1>1, ConversationInvariant, PTL

(* SavedIsUsable: what a run saves can be gone on with.                    *)
THEOREM SavedUsable ==
    ASSUME SoundReplies
    PROVE  Spec => []SavedIsUsable
<1>1. ASSUME Conversation, pc = "done"
      PROVE Acceptable(Append(ReadHistory(WriteHistory(history)), UserMessage("human", FALSE)))
  <2>1. Stored(WriteHistory(history))
    BY <1>1, WriteStored DEF Conversation
  <2>2. PICK h : h = Append(ReadHistory(WriteHistory(history)), UserMessage("human", FALSE))
    OBVIOUS
  <2>3. Sendable(h)
    BY <2>1, <2>2, ReadBack, MailType, OpeningSendable
  <2>4. \A i \in DOMAIN h : Alike(h[i], h[i])
    BY <2>3, AlikeItself DEF Sendable, Talk
  <2>5. Acceptable(h)
    BY <2>3, <2>4, SendableAccepted
  <2> QED BY <2>2, <2>5
<1>2. Conversation => SavedIsUsable
  BY <1>1 DEF SavedIsUsable
<1> QED BY <1>2, ConversationInvariant, PTL

=============================================================================
