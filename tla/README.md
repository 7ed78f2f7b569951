# Kikubot in TLA+

Kikubot runs agents that work by e-mail. Each agent is one process: it polls its mail box, gives each
message to a language model with tools, and answers, delegates or schedules by mail. There is no shared
database: what has to survive is in the mail box (`\Seen` flags), in one JSON file per conversation
(memory), in one JSON file of deadlines (snooze) and in the files a small web application, the
configurator, edits. This directory models that, checks it with TLC and proves the main results with TLAPS.

Contents: [the system](#the-system) · [the modules](#the-modules) · [model and code](#how-the-models-correspond-to-the-code)
· [runs](#the-runs) · [bounds](#bounds) · [fairness](#fairness) · [proofs](#proofs) ·
[disagreements](#where-the-code-and-its-comments-disagree) · [not modelled](#not-modelled) · [plan](#plan)

## The system

| Component | State | Operations | Correct when |
|---|---|---|---|
| Poll loop, `cmd/kikubot/main.go` | retry counters (in process), batch of unseen mail, list of messages to mark | `process` every 30 s: reload, poll, handle each message, mark seen, drain snoozes | every message comes to an end, none silently; nothing is retried for ever |
| Auto-reply handling, `handleAutoReply` | none of its own | find the upstream message, notify its sender, abort the thread's snoozes, note in memory | a rejection unwinds one hop and never reaches the model |
| Snooze file, `internal/services/snooze.go` | `snooze.json`: schedules and watchdogs | save, delete, abort, find, next due, advance | at most one entry per thread and kind; a recurring schedule ends only by its cancellation, or when the process dies while it is advanced |
| Watchdog, `runWatchdog`, `ArmWaitingWatchdog` | an entry of the snooze file with a count of nudges | arm, re-arm, nudge, stand down, give up | a waiting task has one, but where the process dies between two writes; bounded nudges; waiting ends |
| Memory, `internal/services/memory.go` | a file per thread root: history, status, time of the status | read, replace history, replace status, rebuild from references | conversations do not mix; what was answered is remembered |
| Status and snooze tools, `internal/tools/status.go`, `snooze.go`; `internal/services/send_tracker.go` | deliveries of the run | `set_task_status`, `snooze_tool`, `unsnooze_tool`, `MarkDelivered` | no waiting or complete before a delivery; waiting arms the watchdog |
| Agent loop, `internal/agents/agent.go` | history, tool set, system prompt, failed calls of the run | turns of the model, tool dispatch, trimming | history always acceptable to the provider; ends within its turns |
| Mail access, `internal/services/emailing.go` | message cache | IMAP search, fetch, store; SMTP send; bounce | headers carry the thread and the chain of senders over every hop |
| Mail tools, `internal/tools/send_helper.go`, `message.go`, `report.go`, `report_strict.go` | none | send, reply, forward; heal or lock the recipient | a report stays in its conversation, a strict one goes to who asked |
| Access control, `internal/agents/acl.go` | none | who may write to the agent, over the identities of a thread | |
| Thread index, `internal/services/thread_index.go` | `thread_index.json` | remember, resolve, prune | a reply with broken references finds its thread |
| Tools and MCP catalogue, `internal/tools/registry.go`, `mcp_servers.go`; reload in `main.go` | registry, cached definitions, modification times | reload on poll and on SIGHUP | the tool set follows the files, but for a local server that did not start; the last good one is kept |
| Knowledge reload, `main.go` | base prompt, modification time | reload on poll and on SIGHUP | every edit is loaded at last |
| OAuth tokens, `internal/services/xero_oauth.go`, `internal/tools/oauth_store.go` | token files, cached token | refresh under a lock, retry after a 401 | a rotated refresh token is never lost |
| Providers, `internal/provider` | none | conversion, streaming, retry | a retry starts clean |
| Configuration, `internal/config` | roster and catalogue as read | read, apply | a file that does not parse changes nothing in a running agent |
| Configurator, `scripts/configurator` | `agents.yaml`, `mcp_servers.yaml`, `secrets.env`, compose file, mail accounts, knowledge | save of each form; signal to agents | files agree with each other; agents follow |
| Doctor, bootstrap (`scripts/`), mail server (`services/`) | none | one-shot | |

They interact by calls, by files and by mail. The loop, the tools of a run and the watchdog all rewrite the
same memory files and the same snooze file by read-modify-write, from one thread of control; what makes
that hard is not parallelism inside the process but that a *run* of the model lies between the reads and the
writes of a handler, and in it the tools change the same files; that every call to the mail server and
every write may fail, with the handler going on; that the process may be restarted anywhere; and that mail
and deadlines arrive in any order. Between agents there is only mail: who asked for something, on which
thread, and to whom an answer or a refusal belongs has to be found again from headers. Beside them the
configurator writes files one after the other while agents read them. `PROJECT.json` lists those hazards
line by line.

## The modules

| Module | What it is |
|---|---|
| `SnoozeFile` | the snooze file as operators on a set of entries: delete, save, abort, find, due |
| `PollLoop` | one agent: mail box, memory files, snooze file, poll loop, runs with their tool calls, watchdog, time and restarts |
| `History` | the conversation with the model: what loading strips, what sending trims and compresses, what becomes of it on the wire, and what a provider accepts |
| `AgentRun` | what the poll loop takes for granted of a run: deliveries, a status, a schedule, an end (abstract) |
| `AgentLoop` | the run itself: turns, requests with their retries, tool calls, deadline, tool swaps, save; implements `AgentRun` |
| `MailNetwork` | several agents, people and a mail server: access control, threading, delegation, reports, refusals and how they unwind |
| `ConfigFiles` | the configuration files, and how they are read |
| `ToolReload` | a running agent that follows its files: start, poll, SIGHUP, cache, servers that are down |
| `Configurator` | the web application saving forms as sequences of writes, next to such an agent |
| `TokenStore` | the Xero token store: requests, rotation of the single-use refresh token, restarts, bootstrap |
| `MCPollLoop`, `MCAgentLoop`, `MCMailNetwork`, `MCConfigurator`, `MCTokenStore` | small worlds for TLC |
| `PollLoopProofs`, `MessageProofs` (on top of it: what becomes of a message) | theorems about `SnoozeFile` and `PollLoop` |
| `AgentLoopProofs` | theorems about `AgentLoop` and the operators of `History`; the refinement of `AgentRun` |
| `MailNetworkProofs` (who is worked for), `ThreadProofs` (on top of it: threads, reports, memory, automatic answers) | theorems about `MailNetwork` |
| `ConfiguratorProofs`, `TokenStoreProofs` | theorems about `Configurator` with `ConfigFiles` and `ToolReload`, and about `TokenStore` |
| `Extremes` | the lemmas on `Max` and `Min` two of them rest on |

`PollLoop` uses `SnoozeFile`; `AgentLoop` uses `History` and is shown to implement `AgentRun`, the run as
`PollLoop` sees it; `Configurator` composes `ConfigFiles` and `ToolReload`. `MailNetwork` has a poll loop of
its own, reduced to what concerns the mail: there, files and calls do not fail.

## How the models correspond to the code

### PollLoop and SnoozeFile

State: `arrived`/`seen` are the INBOX and its flags; `memory[t]` the file of thread `t` (absent, readable,
or truncated), with status and history; `snoozes` the snooze file; `retries` is `emailRetryCounts`;
`batch`, `processed`, `run` and `pc` are the local variables and the program counter of `process`;
`history` is the agent's conversation; `dead` says that the process has died within a handler and is not yet
started again. `failures`, `answered`, `notified`, `failedRuns`, `nudges` and `cut` are
bookkeeping for bounds and properties and no guard of a handler reads them (`failures` bounds the number
of steps with a failing call; `cut` holds the threads that wait and lost their watchdog in such a death).

Actions: one per handler, with everything the handler does.

| Action | Code |
|---|---|
| `Poll`, `FinishBatch`, `EndPoll` | `process`, and the mark at the end of `processNewEmails` |
| `HandleAutoReply`, `Reject`, `Demo` | the three ways a message is handled without a run |
| `StartMail`, `SkipMail` | memory read or rebuilt and saved up to `HandleMessage`; the early `continue`s |
| `Deliver`, `SetTaskStatus`, `SnoozeTool`, `UnsnoozeTool` | tool calls of a run |
| `MailAnswered`, `MailMaxTurns`, `MailFailed` | what follows a run for mail, by outcome |
| `RunSnooze`, `SnoozeUnreadable`, `ScheduledAnswered`, `ScheduledMaxTurns`, `ScheduledFailed` | `runSnooze` and the branch of the drain that follows it |
| `WatchdogUnreadable`, `StandDown`, `GiveUp`, `Nudge`, `NudgeDone` | the branches of `runWatchdog`, before and after its run |
| `Arrive`, `Tick` | mail, time |
| `Crash`, `Restart` | the process dies between two handlers or in a run and is started again; it is started again after it died within a handler |

A run is the one place where a handler is split: the model's turns, in which any tool may be called, lie
between the action that starts the run and the one that ends it.

Failures. Each action names the calls its handler makes, in the order of the code (`SaveCalls`, `SnoozeCalls`,
`BounceCalls`, or a list of its own), and picks a set of them that is not done. Either calls return an error, of the
kinds in `FailureKinds` (`Erring`): sending, marking seen, fetching, reading a memory file, writing it (unchanged, or
left truncated: the file is written in place), the first write of the snooze file and the second. The handler then takes
the path the code takes: most errors are logged and the next call is made. Or the process dies at one of the calls
(`Dying`): that one and *all after it* are not made, whatever may fail otherwise, and nothing happens before `Restart`.
`SaveSnooze` is two writes, without the old entry and with the new one (snooze.go:202, 216), and `set_task_status` sets
the status and then arms the watchdog (status.go:84, 105), so with `crash` in `FailureKinds` the process also dies
between these. What a handler keeps in memory is lost at the restart, so it does not matter what it would have held.
A handler that makes one write, or none, needs no death within: `Crash` before or after it is the same (a memory file
left truncated by such a death is a failing step of its own, followed by `Crash`).

Abstractions, each a choice about data:

- A message stands for its turn of the conversation and a history is the set of turns it holds. Order,
  content and tool results of turns belong to the agent loop.
- `Root` maps a message to its thread (`GetThreadRoot`), which is what the code does for mail without an
  Outlook Thread-Index.
- Wall-clock time is reduced to entries being due or not. `Tick` makes an entry due; the oldest-first
  order of `NextSnoozed` is left open, and so is the order of a batch, which follows the `Date` headers
  the senders wrote. Deadlines pass while the process sleeps and, with `TicksDuringRuns`, during runs.
- `WAITING_WATCHDOG_MINUTES` is positive. That is not its default, which is zero and switches the watchdog off
  (env_vars.go:205-206, status.go:101-102): what is said of waiting is said of an installation that sets it. The admin-review branch is
  left out: the status that leads there is never set in this build.
- `GetNewEmails` failing ends the cycle with no change, which is a stutter; the same holds for
  `NextSnoozed` failing. A failing tool call that changes nothing is a stutter too. `SkipMail` covers the
  fetch, read and write errors before a run.
- The walk of `handleAutoReply` through the Sent folder may lead to any message of INBOX. What is
  modelled exactly is the newest reference found in INBOX.
- The history of a run that failed is saved like any other; whether it failed before its own message
  entered the history is not told apart.

### AgentLoop, History, AgentRun

State: `file` is the history in the memory file, `history` is `a.history`, `live` is `a.tools`, `snapshot` the
tools of the run, `outgoing` what is sent, `blocks`, `stop`, `toolResults`, `failedCalls` the local variables of
`handleMessageWith`, `attempt` and `err` those of `CreateMessage`. `executed`, `lastAnswer`, `nextId`, `runs` are
bookkeeping; only the bound on `runs` guards an action.

A call has one of four inputs: complete, complete and empty, cut off part of the way, and cut off before its first
byte. `message()` puts back what was streamed only if something was (anthropic.go:333), and the loop takes an
empty input for `{}` (agent.go:951-953), so `StreamedInput` makes a call of the last kind one without arguments, which
is executed. `TruncatedIsNotRun` is about the third kind; `cut_unseen.cfg` exhibits the fourth.

| Action | Code |
|---|---|
| `Start` | memory loaded and saved (`processNewEmails`), or a replay (`HandleSnooze`); the head of `handleMessageWith` |
| `Ask`, `GiveUpTurns` | the head of the turn: deadline, budget, `trimHistory` |
| `Answered`, `Refused` | one attempt of `CreateMessage` and what the answer becomes |
| `BlockTool`, `ExecuteTool`, `EndReply` | the blocks of a reply: cut off, unknown or known to fail; executed; all done |
| `Save` | `SaveMemoryHistory` after the run |
| `SetTools`, `Expire` | the reload on another goroutine; time |

A message of `History` is a record of what the functions look at: its author, the ids of its calls and
results, which results are large or stubs, and whether it has text, a blob, citations, blocks of server
tools and thinking, sound or not. Sizes count one for a message and `BigResult` for a large result. The
content of texts, and so which result is compressed first by size, is left out. `Acceptable` is what the
code takes a provider to require: a first message of the user, every message with exactly the results of
the calls of the one before it, nothing empty and nothing refused. OpenRouter takes the results of a message
one by one; `ConvertMessages` keeps them together, one message for one. `Stored` says what a memory file may hold: every defect the
sanitisers handle, but calls with their results, and no message of nothing but unusable thinking, which
loading leaves as it is (memory.go:417-420).

### MailNetwork

State: `mails` is every message sent, with the headers the code reads and writes (From, To, References,
In-Reply-To, X-Senders, Thread-Index, Auto-Submitted); `arrived` and `seen` the mail boxes; `memory` the memory
files by thread root; `index` is `thread_index.json`; `cur` the run going on. Six fields of a mail (`src`,
`path`, `origin`, `hops`, `before`, `onThread`) and `handled` are for the properties only: `hops` is the place of a mail in
a series of automatic answers, `before` the number of mails there were when the series began.

`Settles` bounds such a series by the mails before it: `hops <= before + 2`. A bound by the number of agents
would be wrong. Agents may delegate in circles (A asks B, who asks A on the same thread), and a refusal then
goes through each of them as often as they wrote; but each notice goes to the author of an *older* message, so
there are at most as many as there were messages, and an out-of-office answer may follow the last.

| Action | Code |
|---|---|
| `HandleAutoReply`, `Refuse`, `StartRun` | the branches of `processNewEmails` before a run |
| `MessageTool`, `ReportTool`, `ReportStrictTool` | the mail tools, through `sendEmail` with its threading and healing |
| `Finish`, `GiveUp` | after a run |
| `PersonWrites`, `PersonReplies`, `OutOfOffice`, `DeliveryFails`, `Deliver` | everyone else |

The model (the language model) chooses recipient, use and the message it names, the latter among those its
agent has dealt with. Outlook may drop References and keeps Thread-Index. Matching of addresses is
equality; a white- or blacklist is a set. One message is handled at a time and marked at once, not at the end
of a batch (`PollLoop` has the batch). A person answers only the sender; a person out of office answers every mail.

### ConfigFiles, ToolReload, Configurator

State: `roster`, `catalog` (contents with a state `whole`, `torn` or `broken`), `secrets`, `services`, `accounts`,
`enabled`, `knowledge` are the files; `form`, `todo`, `draft`, `result` one handler of the configurator with the
writes it has left; `pc`, `assigned`, `registry`, `cache`, `retry`, `reload`, `prompt`, `hup`, `queued` the agent.
Modification times are flags: `rosterNew` is "written after the time recorded".

A handler is split at every write, as a crash or a failing write may come between any two, and the YAML
files are truncated and then written (`openRoster`, `roster`). `Submit` loads what will be written; `Retry`
sends a failed form again; `EditByHand` breaks, mends or changes a YAML file. The compose file and the mail
accounts are written from the roster only when it can be read (compose.go:126-129, dms_accounts.go:58-61). A form is valid and is filled
from the files just before it is sent: field validation and stale pages are left out. On the agent's side
`Load`, `InitTools`, `InitKnowledge`, `Started` are the steps of the start and `StartReload`, `ReloadRoster`,
`ReloadCatalog`, `ApplyKnowledge`, `RecordKnowledge` those of a reload by poll or signal.

Of the keys an agent may be given, `Keys` are declared in the catalogue, `BuiltIn` in the literal of registry.go, and
`Spawned`, among the latter, are the local MCP servers (`xero_mcp`, `salesforce_mcp`), which give nothing when their
process does not start. `buildAgentTools` leaves the nothing of a catalogue key uncached and tries again; that of a
local server has no signature, is cached, and stays (main.go:1054-1063) until the agent is started again or the key is
taken off it and given back. `Unstarted` are the local servers in that state; `UpToDate` compares the tools without
them, and `server_unstarted.cfg` exhibits what is then missing.

Two races are left out by the constant `EditsWhileLoading`: an edit between the reading of the YAML files at the start
and the recording of their times (main.go:959-961), and one between the reading of the knowledge and the recording of its
time (main.go:1282-1288). `edit_missed` has the first; `KnowledgeCatchesUp` says nothing about the second.

### TokenStore

State: `file` is `tokens.json`, `cached` is `xeroCached`, `current` the pair whose refresh token Xero accepts, `expired`
and `revoked` what the agent's clock and Xero say of access tokens, `pc` and `token` the local state of each `XeroRequest`.

| Action | Code |
|---|---|
| `Request`, `SendAgain` | `XeroAccessToken`, with the refresh it may make, and the request it is for |
| `Unauthorized`, `ForceXeroRefresh`, `Answered` | the 401 branch of `XeroRequest`; its ends |
| `Refused`, `Unsent`, `Unread`, `Rotated` (of a refresh) | the returns of `refreshXeroLocked`, by what Xero has done |
| `Bootstrap`, `Restart`, `Expire`, `Revoke` | `xero-bootstrap` with the restart it asks for; the world |

The lock is held over a refresh, so a refresh is one step; requests are sent outside of it and interleave. The present
loop calls one tool at a time; the store is written for more, and is modelled so. `SaveXeroTokens` renames a
complete file into place, so a save happens or does not. As xero_oauth.go:27-29 has it, a refresh token that was
exchanged is refused; its end of life after 60 days is an error like `Unsent`, after which only a bootstrap helps.

## The runs

| Run | World | Checks | Shows | Distinct states |
|---|---|---|---|---|
| `watchdog` | `ask`, `bounce`; one-shot and recurring schedules; failing SMTP and marks, torn files, a restart anywhere, also within a handler; deadlines pass during runs | `TypeOK`, `NudgesBounded`, `WaitingIsWatched`, `OneEntryPerThreadAndKind`, `RecurringSurvives` | a schedule and a watchdog of one thread and one Message-Id never take each other away; a waiting thread has a watchdog unless the process died on it between two writes; a silent coworker is nudged at most twice; a recurring schedule is lost only where the process dies while advancing it | 568 k |
| `mail` | `ask`, `reply`, `other`; the model may name messages of the other thread; no failures, no schedules | `HistoryIsolated`, `SeenIsAccountedFor`, `AnsweredIsRemembered`, `AnsweredIsNotRerun` | one agent serving two threads never mixes them; no message is dropped, forgotten or answered twice | 2267 k |
| `demo` | all five messages, no API key; failing marks, restarts | `SeenIsAccountedFor` | demo mode sends its notice for whatever it marks | 26 k |
| `ends` | `ask`, `bounce`, `spam`; a failing SMTP or mark, or a restart, also within a handler; fairness | `EveryMessageIsHandled`, `WaitingEnds` | every message is finally seen; no thread waits for ever but one that lost its watchdog when the process died between two writes | 54 k |
| `drains` | `ask`, `spam`; schedules; two steps with any failure but marks and restarts; fairness | `FailedRunsBounded`, `MailIsPolledAgain` | a drain ends and mail is polled again; no message fails more often than its budget | 108 k |
| `agent` | both providers; memory files with every defect the sanitisers handle; replies with early, repeated, unknown, cut-off (also before the first byte) and large calls; tools swapped, deadline, failing attempts and saves; fairness | `TypeOK`, `RequestAcceptable`, `StartSent`, `SavedIsUsable`, `MemoryKeepsResults`, `RunUsesItsTools`, `TruncatedIsNotRun`, `RetriesCount`, `RunsEnd`, `ImplementsRun` | what is sent is acceptable and holds the run's message, what is saved can be used again, a run ends, and the loop is the run the poll loop assumes | 274 k |
| `network` | a coordinator, a coworker with a blacklist, one whose mail box is gone; a person with Outlook, a blacklisted one out of office; fairness | `TypeOK`, `Admitted`, `ReportsStayInThread`, `StrictToRequester`, `ThreadRemembered`, `ConversationFound`, `Settles`, `DeclinesReachPeople`, `InboxWorkedOff` | access control holds over every hop, reports stay in their conversation, rewritten replies find it, refusals reach the person who asked, and automatic answers end | 65 k |
| `config` | two addresses, two servers, every form; two mishaps out of failing writes, a crash, an edit by hand, remote servers down, a local one that does not start, a restart; fairness | `TypeOK`, `QuietIsCurrent`, `AssignmentsResolve`, `Deployed`, `ToolsCatchUp`, `KnowledgeCatchesUp` | files saved without a mishap agree, and the agent catches up with its files, local servers that did not start excepted | 1128 k |
| `tokens` | two requests at a time, four grants; two mishaps out of lost answers, failed saves, restarts | `LiveTokenIsHeld` | the pair the next refresh uses is the live one, unless an answer was lost or a restart followed a failed save | 139 k |

Three more runs each exhibit a [disagreement](#where-the-code-and-its-comments-disagree) and end in a
counterexample. Every property of the passing runs is also checked against a mutation of the code that
breaks it; the mutated operators stand next to the originals in the modules.

Which failures a property of `PollLoop` survives is part of what it says:

| Property | Fails with | Because |
|---|---|---|
| `WaitingIsWatched` | `fetch`, `read`, `memory`, `snooze`, `append` | giving up deletes the watchdog even if the status could not be changed; an unreadable file counts as resolved after a nudge; a failed arm is logged only |
| `WaitingIsWatched` without its exception `cut` | `crash` | the process dies between status and watchdog (status.go:84, 105), between the two writes of a save (snooze.go:202, 216), or between aborting a thread's entries and its note in memory (`handleAutoReply`) |
| `WaitingIsWatched` | `AnyThread` | the status is filed under the message the model names, the watchdog under the message being processed |
| `NudgesBounded` | `snooze`, `append` | the count is not kept and the nudge runs |
| `RecurringSurvives` | `append` | the delete of a save succeeded and its append did not |
| `RecurringSurvives` without its exception `LostInAdvance` | `crash` | the process dies between the two, while the entry is advanced |
| `FailedRunsBounded` | `mark` | bounced, not seen, counter reset |
| `AnsweredIsNotRerun` | `mark`, `crash` | the mark comes at the end of the batch |
| `SeenIsAccountedFor` | `smtp` (ordinary mail) | on purpose: a notice that cannot be sent must not block the loop |
| `AnsweredIsRemembered` | `memory`, `torn`, `read`, `fetch` | an unsaved history is logged and the message still marked |
| `WaitingEnds` | a schedule that keeps failing | a failing task ends the drain (main.go:259-262) and, as the oldest due entry, does so in every cycle: the watchdog behind it is never reached. README.md:494 says every cycle drains all that is due. `ends` has no schedules |
| `WaitingEnds` | `fetch`, `read`, `memory`, `snooze`, `append`, or `crash` without the exception `cut` | a thread that loses its watchdog (`WaitingIsWatched`) has nothing left that would end its waiting. `ends` has none of the first five |
| `EveryMessageIsHandled` | `torn`, or failures without end | a message whose memory cannot be read is skipped at every poll, without a cap |
| `MailIsPolledAgain` | `TicksDuringRuns` | a deadline that passes during a run extends the drain: schedules with a period shorter than the runs they start keep mail from being polled |

## Bounds

`PollLoop`. Messages: two to five, two threads. The interference the properties are about needs two kinds of entries
on one thread (`ask` with a schedule and a watchdog), a second message on the thread (`bounce` or
`reply`) and a second thread (`other`, `spam`); a third of any adds permutations.
`waitingWatchdogMaxFires` is 2 as in the code (1 where nudges are not the subject). `MaxEmailRetries` is 2,
the smallest value with both a retry and an exhausted budget. `MaxFailures` bounds the *steps* with failing calls (any subset of the step's calls may
fail at once) at 1, and at 2 in `demo` and `drains`; two counterexamples need 2 and 3. `failedRuns` and
`nudges` saturate one above the bound they are compared with.

`AgentLoop`. `MaxTurns` and `MaxRetries` are 2: a result is fed back once, and an attempt follows a failed one.
`MaxRuns` is 1; what a run finds is one of `MCFiles`, which have the defects older versions left, and what it
leaves is checked to be usable by another (`SavedIsUsable`). `MaxHistoryChars` is 8 and `BigResult` 6, so that one
large result fits and two do not.

`MailNetwork`. `MCBudgets` bounds the messages of each kind by five profiles (relay, reply, report, two people, strict
report), one give-up each; together they reach chains of three agents, forks of a thread and answers
to answers. Automatic answers of the program are not bounded, which is what `Settles` is about.

`Configurator`. Two forms (`MaxRequests`), so that each may meet what another left, and two mishaps of any kind.
`TokenStore`. Four grants: a bootstrap, a rotation, one that goes wrong, and one after it.

Each run takes less than two and a half minutes on two cores; most take seconds. The proofs below have none of these bounds.

## Fairness

`PollLoop!FairSpec` assumes of the code what its scheduling gives: `process` is called at every tick of a 30 s
timer and each handler returns (weak fairness of the mail steps and of the drain); a run ends, because it
has at most `MaxTurns` turns and the deadline `AgentTimeout` (weak fairness of the *disjunction* of run
ends, nothing about which one). A deadline that was set passes; since the model lets time pass only
between cycles or during runs, this is strong fairness of `Tick`. A process that died is started again
(weak fairness of `Restart`: the containers run with `restart: unless-stopped`). Nothing is assumed about tool calls, mail,
the outcome of runs, or failures, except that `MaxFailures` makes failing steps finitely many.

`AgentLoop!FairSpec`: a call to the provider or to a tool returns (weak fairness of the disjunction of steps;
nothing about answers or the deadline). `MailNetwork!FairSpec`: mail is delivered to every agent whose mail box exists, every agent keeps
polling, runs end. `Configurator!FairSpec`: a handler runs to its end, and each poll of the agent looks at
tools and at knowledge.

## Proofs

The proofs hold for all constants that satisfy the named assumptions: any sets of messages, threads, agents,
forms and replies, any budgets and limits, any number of steps and of failures, unless stated. TLC evaluates the
assumptions in every run. Those that restrict more than a type: `RefsAssumption` (references of a message are of its
thread, which is how `GetThreadRoot` defines one); `DeploymentAssumption` (in the deployment the configurator
starts from, every tool key is declared); `FilesAssumption` of `AgentLoop` (memory files are `Stored`); `MailAssumption` of
`AgentLoop` (a run starts with an e-mail).

| Theorem | States | Extra assumption |
|---|---|---|
| `TypeCorrect` | `PollLoop!TypeOK` | |
| `SnoozeFileWellFormed` | `OneEntryPerThreadAndKind` | |
| `HistoriesDoNotMix` | `HistoryIsolated` | |
| `NudgesAreBounded` | `NudgesBounded` | no write of the snooze file returns an error; the process may die between two |
| `WaitingIsAlwaysWatched` | `WaitingIsWatched` (with its exception `cut`) | `AnyThread = FALSE`; errors only of SMTP, marks, torn writes; the process may die anywhere |
| `RecurringSchedulesSurvive` | `RecurringSurvives`, an action property (with its exception `LostInAdvance`) | no write of the snooze file returns an error; the process may die anywhere |
| `RetriesAreBounded` | `FailedRunsBounded` | messages can be marked seen |
| `AnsweredOnce` | `AnsweredIsNotRerun` | messages can be marked seen; no restart |
| `NothingDroppedInSilence` | `SeenIsAccountedFor` | mail can be sent |
| `AnswersAreRemembered` | `AnsweredIsRemembered` | memory files can be read and written, references fetched |
| `LoopTypeCorrect` | `AgentLoop!TypeOK` | |
| `MemoryInFull` | `MemoryKeepsResults` | |
| `RequestsAccepted` | `RequestAcceptable` | `SoundReplies` |
| `NewestRequestSent` | `StartSent` | `SoundReplies` |
| `SavedUsable` | `SavedIsUsable` | `SoundReplies` |
| `RunsUseTheirTools` | `RunUsesItsTools` | |
| `TruncatedNeverRuns` | `TruncatedIsNotRun` (calls of which a part was streamed) | |
| `FailuresAreTheProviders` | `RetriesCount` | |
| `LoopImplementsRun` | `Run!Spec` (`AgentLoop` implements `AgentRun`) | |
| `OnlyAdmittedRuns` | `Admitted` | |
| `NetworkTypes` | `MailNetwork!TypeOK` | |
| `ReportsReachTheThread` | `ReportsStayInThread` | |
| `StrictReachesRequester` | `StrictToRequester` | |
| `HistoryRemembered` | `ThreadRemembered` | |
| `ConversationIsFound` | `ConversationFound` | |
| `AnswersDieOut` | `Settles` | every person can be reached |
| `ConfiguratorTypes` | `Configurator!TypeOK` | |
| `AssignmentsAlwaysResolve` | `AssignmentsResolve` | |
| `RosterIsDeployed` | `Deployed` | |
| `QuietAgentsAreCurrent` | `QuietIsCurrent` (local servers that did not start excepted) | no file changes while an agent loads it |
| `RefreshTokenSurvives` | `LiveTokenIsHeld` | |

The extra assumptions are needed. The table of failures above gives those of `PollLoop`; for the others:

- `SoundReplies`: a reply that calls tools does not stop with `end_turn`, and one that goes on says something. The
  code counts on both. It ends a run at `end_turn` without answering the calls of the same reply
  (`MCStopWithCalls`: with those replies TLC finds `SavedIsUsable` violated), and an empty message of the assistant is refused.
- `Unreachable \subseteq Agents` in `AnswersDieOut`: `bounce_loop.cfg` has a person who cannot be reached, and no end.
- `~EditsWhileLoading` in `QuietAgentsAreCurrent`: `edit_missed` is the run without it.
- `FailureKinds \cap {"snooze", "append"} = {}` in `RecurringSchedulesSurvive`: a save deletes first and may fail to append.
  That the process dies in between is *not* assumed away: the property names that one step.

The argument in outline:

- *Types.* One lemma per kind of write (`SaveType`, `WriteType`, ...), one step per action.
- *Snooze file.* `OneEntryPerThreadAndKind` is inductive once it is read as `WellFormed(snoozes, Root)`.
  `SaveKeepsWellFormed` is the core: on a well-formed file the two ways `DeleteSnooze` looks for an entry,
  by Message-Id and then by thread, both remove exactly the entry of that thread and kind. Without it, a save for another message of the thread could leave the old
  entry in place. Tools name a message and let `SaveSnooze` find its thread, so `thread = Root[msg]` is
  part of the invariant.
- *Histories.* Inductive with `TypeOK`, by `RefsAssumption`.
- *Failing and dying.* `FailingKinds` and `DyingSkipsLast` say what a handler may leave undone: calls of the kinds that
  may fail, or, with the process, everything from one call on, the last included. So a handler that writes the snooze
  file last either completed it or died (`LastSnoozeCall`), and a dead process changes nothing before its `Restart`
  (`DeadStays`). The proofs split each handler along these.
- *Nudges.* The bound alone is not inductive: the guard of `Nudge` reads the count stored in the entry,
  the property counts nudges. `NudgesCounted` ties them: a watchdog's `fires` *is* the number of nudges of
  its thread, and a thread being nudged has a watchdog, else a re-arm during the nudge would start a new
  count. The second part is where the lemma `QuietSteps` comes in: nothing a nudge may do, and nothing
  that happens to schedules, removes a watchdog.
- *Watchdogs.* A watchdog disappears in `StandDown`, `GiveUp`, `NudgeDone` and `HandleAutoReply`, and each
  of them leaves the thread not waiting; a thread starts to wait in `SetTaskStatus` only, which arms. A handler
  that dies before it has done both puts the thread into `cut` (`CutShort`); all the rest of a death leaves the
  watchdogs as they are. The strengthening is
  `NoStatusWithoutFile`: a missing or unreadable file has no status, so a rebuilt one never starts
  waiting.
- *Recurring schedules.* Every writer but the tools of a run leaves them (`RecurringSame`). The drain of a one-shot entry
  deletes by Message-Id or thread, which could hit a recurring one; `OneShotAlone` says that there is none on that
  thread while a one-shot entry is run, because there is one schedule for a thread and the tools are not the run's own.
  The entry a run advances is put back unless the process dies (`LastSnoozeCall`).
- *Messages.* All four rest on `BatchInv`: at any moment a message is in one place of the batch only, waiting in
  `batch`, in hand, or finished in `processed`, and none of those that can still be run is seen. Over it, each
  property needs one link between what the code keeps and what the property counts. `RetryInv`: while a message
  is not finished its failed runs *are* its retry counter, which `processNewEmails` forgets only when it
  finishes the message. `AnsweredDone`: an answered message is seen or finished. `DoneIsAccounted`: a message is
  finished only by a step that answers it, tells its sender, or finds it automatic, or by a process that is dead and
  will not mark it. `RememberInv`: an answered
  turn is in the file of its thread, and while a run is going on, which will overwrite that file, also in the
  history the run will save.
- *Runs.* What the refinement and the two properties of tool calls need is in one invariant of `AgentLoop`,
  `RunInv`: which of `pc`, `kind` and `outcome` go together, what a run that has not begun may not have
  done, that the snapshot of a scheduled run has no snooze tool, and that every block carries the
  input that was streamed. Nothing about histories is needed. The mapping of the refinement is the identity on `kind`, `delivered`, `status`,
  `scheduled` and `outcome`; `StepRefines` takes each action of the loop to a step of `AgentRun` or a stutter.
- *Conversations.* `RequestAcceptable` speaks of `pc = "api"` only; `Conversation` says what holds of the
  history at every other point. Between runs the file is `Stored`. Before a request the history is `Sendable`. While the
  calls of a reply are dealt with, the last message has open calls, and these are the results collected so far and
  the blocks still to come (`Asked`): that is why a blocked, failed or cut-off call must have a result too.
  When the run is over nothing is open. Around it are lemmas on the operators of `History`, for any history: what is read from a `Stored` file is
  nothing or `Sendable` (`ReadBack`, from `SanitizedHistory`: a message is dropped only if it has no calls and no results, so
  no pair is broken); what is written from a closed conversation is `Stored` (`WriteStored`); trimming returns
  a `Cut` from some cut point on, whatever the sizes are (`TrimmedCut`), in which only results differ; a `Cut` is accepted by both providers
  (`CutAccepted`) and has the newest opening message (`CutHasNewest`). `TypeInv` needs none of this, and has the one thing to say about contents
  that needs no assumption on replies: nothing in the file or the history is a stub.
- *Access.* `Admitted` speaks of all authors from the person it began with; the code sees only the chain of
  senders in the message. `PathInSenders` ties them: for every message that is not an automatic answer,
  each author on its path is the sender or in the chain. It is inductive because every mail a run
  sends takes its chain from the message of the run, which is not automatic.
- *Threads.* Every function of the network that looks something up (`ThreadRoot`, the first report's recipient, the author one hop up) starts from
  References. `ThreadInv` says what they are: earlier messages, in order, all of one thread and known to the agents they
  were sent to, whose first was written by a person, or the one message a delivery failure is about. With it,
  `ReportInv` is about the step that sends a report and about the fact that mails do not change.
- *Memory.* `ThreadRemembered` looks at a run, and a run that ends overwrites the file: `MemoryInv` says that each
  handled message is in the file of its thread and in the history of the run that will replace it, and that an
  index entry leads to a file with a handled message of its conversation.
- *Automatic answers.* `SeriesInv` keeps for each notice the number of the message it answers: with each hop it is
  one message older (`hops + irt <= before + 2`), and the answer of an absent person to a notice is the last.
- *Saves.* The properties of the configurator speak of files between saves; a save is a list of writes. `PlanInv` says in what
  order they come, `AssignmentsInv` and `DeployedInv` speak of the files as they *will be* when the list is
  done (`NextRoster`, `NextCatalog`), and `TornInv` that as long as no save failed the only file in pieces is the one being
  written.
- *The running agent.* `QuietIsCurrent` compares what was assembled, from a cache, at some earlier time, with the files now.
  `CacheInv`: what is cached for a key was fetched for the row it is signed with, or is the nothing of a local server. `ReloadInv`: what is recorded as
  unchanged is what was read, at each step of the start and of a reload.
- *Tokens.* `LiveTokenIsHeld` says nothing of the file while a pair is cached, and a restart falls back to the
  file: `FileIsLive` adds that the file is current unless its last save failed.

Every invariant the runs check is a theorem. Only model-checked are the liveness properties, which are outside
what the prover handles (`EveryMessageIsHandled`, `WaitingEnds`, `MailIsPolledAgain`, `RunsEnd`, `DeclinesReachPeople`,
`InboxWorkedOff`, `ToolsCatchUp`, `KnowledgeCatchesUp`), and the disagreements below. `SanitizeHistory` is a recursion over
a history; what is proved of it is by a least counterexample among the lengths (`BeginningsExist`, `SanitizedHistory`), since the library's
induction theorem cannot be used. `EffectiveSize` is a fold, of which nothing is proved and nothing needed:
the theorems hold whatever fits.

## Where the code and its comments disagree

| Run | What happens |
|---|---|
| `rebuilt_memory_lost` | memory rebuilt from references is saved, not given to the model, and overwritten by the run's history |
| `chain_hangs` | an agent that gives up on a coworker's answer tells the coworker, whose guard against answering back (main.go:892-896) keeps the notice from going further: the person who asked is never told |
| `edit_missed` | files are read first and their times recorded later at the start (main.go:959-961), so an edit in between is never picked up, SIGHUP included where the cache already has the new row's signature |

Twelve more, each a configuration of its own (`tlc -config <name>.cfg <module>` ends in a counterexample); they are not among
the runs of `PROJECT.json`:

| Configuration | Module | What happens |
|---|---|---|
| `reply_still_waiting` | `MCPollLoop` | `ClearStatus` (main.go:565) changes a copy that is not saved: a thread keeps the status `waiting` while, and after, its awaited reply is run; main.go:380-381 has the watchdog stand down when "the awaited reply arrived" |
| `mark_unbounded` | `MCPollLoop` | the retry budget starts again when the bounce goes out and marking fails; main.go:88 says "Bounded by MAX_EMAIL_RETRIES" |
| `nudges_unbounded` | `MCPollLoop` | with a snooze file that cannot be written the same drain nudges again and again; snooze.go:36-38 says the count is capped |
| `request_trimmed` | `MCAgentLoop` | when only a later tail fits, `trimHistory` cuts above the anchor it looked for; agent.go:614-615 says it never does |
| `cut_unseen` | `MCAgentLoop` | a call cut off before the first byte of its input is executed with empty arguments; anthropic.go:294-304 says the truncated input is put back so that the model is told instead. mcp_helper.go:16-22 reckons with such calls |
| `status_blocked` | `MCAgentLoop` | a status refused before the delivery is a known failure, so the same call after the delivery is blocked (agent.go:313-323); status.go:65-67 says "the next turn re-issues the status update successfully" |
| `bounce_loop` | `MCMailNetwork` | a notice to a person who cannot be reached comes back from the mail server, which is answered by a notice, without end; main.go:490-492 is about preventing this |
| `conversation_forgotten` | `MCMailNetwork` | a conversation found through its Thread-Index is saved under the mail's own root, and a later reply finds only part of it; thread_index.go:14-19 |
| `server_unstarted` | `MCConfigurator` | a local MCP server that did not start is cached as empty and not tried again, while the agent sees nothing to reload; scripts/configurator/reload.go:41-42 calls the poll the correctness guarantee |
| `rename_retry` | `MCConfigurator` | a rename whose catalogue was saved cannot be sent again: it is refused as a duplicate; handlers.go:279 says "so the operator can fix and retry" |
| `overrides_lost` | `MCConfigurator` | the retry of a rename whose roster was saved starts from a blank entry; agents.go:190-192 says overrides are preserved |
| `own_server` | `MCConfigurator` | for mail servers the common value wins over the agent's; env_vars.go:117 says "common provides default, agent overrides" |

Also met while modelling, without a configuration: a failing task ends the drain although README.md:494
speaks of all due entries; `SaveSnooze` (snooze.go:199-205) keeps one schedule per thread where README.md:493
has one per snoozed message; a status set on a message of another thread leaves that thread waiting and
unwatched (internal/tools/status.go:83-105), which is why `AnyThread` is FALSE where waiting is the subject;
a reply that stops with `end_turn` and still has tool calls (OpenRouter's "stop") leaves calls
without results in the file (`MCStopWithCalls`); `applyKnowledge` reads before it records the time, like
`initAgent`; a coordinator whose whitelist does not list itself refuses its coworkers' answers; mail
accounts of renamed agents stay; two writes within one tick of the file system's clock count as one.

## Not modelled

- IMAP, SMTP, MIME and HTML (calls that succeed or fail here), attachments, Cc, the message cache.
- Wire formats of the providers beyond what `ConvertMessages` and `ToHistoryParam` keep; prompts and token counts.
- Crontab and time-zone arithmetic: it decides when, never whether, an entry is due.
- Matching of addresses, domains and subjects; pruning of the Thread-Index.
- The configurator's field validation, certificates, DKIM and Postfix settings; two operators at once: the handlers
  have no lock, and of two forms sent at the same time the second overwrites the first.
- Tokens of MCP servers (`oauth_store.go`): a library refreshes them and calls the store. Service tools, document conversion, diagnostic
  scripts and the mail server's configuration keep no state of an agent.

## Plan

1. `MailNetwork`: sends and saves that fail, and mail marked at the end of a batch, as in `PollLoop`.
2. An abstract `SnoozeStore` (a function from thread and kind to an entry) implemented by `SnoozeFile`; `PollLoop` with
   `AgentRun` in place of its own run actions.
3. Proofs: what `SnoozeStore` is implemented by; the lemma behind `RunsEnd`, that every step of a run comes nearer to
   its end, as an action property; the same for a drain.
