------------------------------ MODULE PollLoop ------------------------------
(***************************************************************************)
(* One kikubot agent: the poll loop of cmd/kikubot/main.go with the mail   *)
(* box it polls, the memory files and the snooze file it keeps, the runs   *)
(* of the language model it starts, and restarts.                          *)
(*                                                                         *)
(* A cycle of process() polls the unseen mail (pc = "mail"), handles it    *)
(* message by message, marks the finished ones seen and drains the due     *)
(* snooze entries (pc = "snooze"); while a run of the model is going on,   *)
(* pc = "run".  Mail arrives, and deadlines pass, at any time.             *)
(*                                                                         *)
(* One action is one handler.  What a handler calls outside the process    *)
(* may fail, and the process may die between two of its calls: an action   *)
(* picks the set of its calls that fail or are not made any more (failure  *)
(* kinds, below).  When it has died nothing happens before the Restart.    *)
(*                                                                         *)
(* A message stands for its turn in a conversation: a history is the set   *)
(* of messages whose turns it holds.  The thread root is a function of the *)
(* message (mail without an Outlook Thread-Index).                         *)
(***************************************************************************)
EXTENDS SnoozeFile, Sequences

CONSTANTS
    Root,             \* Root[m]: GetThreadRoot of message m
    Refs,             \* Refs[m]: the References of m, oldest first
    Sender,           \* Sender[m]: the From address of m
    AutoReplies,      \* messages with an Auto-Submitted header
    Rejected,         \* messages access control refuses
    LLMKeyMissing,    \* demo mode
    MaxEmailRetries,  \* MAX_EMAIL_RETRIES
    AnyThread,        \* may the model name a message of another thread?
    OnceChoices,      \* values of Once the model may schedule with
    TicksDuringRuns,  \* may a deadline pass during a run of the model?
    FailureKinds,     \* calls that may fail, see Kinds
    MaxFailures       \* bound on the number of steps with a failed call

Kinds == {"smtp",     \* SendEmail
          "mark",     \* MarkSeen
          "fetch",    \* GetEmails
          "read",     \* reading a memory file
          "memory",   \* writing a memory file, which stays as it was
          "torn",     \* writing a memory file, which is left truncated
          "snooze",   \* writing the snooze file, which stays as it was
          "append",   \* the second write of SaveSnooze, after the old entry
                      \* has been taken out
          "crash"}    \* the process dies and is restarted

ASSUME RootAssumption == Root \in [Msgs -> Threads]
ASSUME RefsAssumption ==
    /\ Refs \in [Msgs -> Seq(Msgs)]
    /\ \A m \in Msgs : \A i \in DOMAIN Refs[m] : Root[Refs[m][i]] = Root[m]
ASSUME RetriesAssumption == MaxEmailRetries \in Nat \ {0}
ASSUME FailuresAssumption == FailureKinds \subseteq Kinds /\ MaxFailures \in Nat
ASSUME ChoicesAssumption == OnceChoices \subseteq BOOLEAN
ASSUME MailAssumption == AutoReplies \subseteq Msgs /\ Rejected \subseteq Msgs

VARIABLES
    (* the mail box *)
    arrived,      \* messages delivered to INBOX
    seen,         \* messages with the \Seen flag
    (* files *)
    memory,       \* memory[t]: the memory file of thread t
    snoozes,      \* the snooze file
    (* the process *)
    pc,           \* where process() is
    batch,        \* unseen messages this cycle has yet to take
    processed,    \* messages to mark seen when the batch is done
    retries,      \* emailRetryCounts
    history,      \* the agent's in-process conversation
    run,          \* the run of the model in progress, or NoRun
    dead,         \* the process died within a handler, and is not yet restarted
    (* bookkeeping of this specification, not of the code *)
    failures,     \* steps that had a failed call, up to MaxFailures
    answered,     \* messages whose run ended well, or is known to be in flight
    notified,     \* messages whose sender was sent a failure notice
    failedRuns,   \* failed runs of a message since the process started
    nudges,       \* nudges of a thread since a run other than a nudge armed it
    cut           \* waiting threads that lost their watchdog when the process died
                  \* within a handler, until the next is armed

mailbox == <<arrived, seen>>
files   == <<memory, snoozes>>
process == <<pc, batch, processed, retries, history, run>>
ghosts  == <<dead, failures, answered, notified, failedRuns, nudges, cut>>
vars    == <<mailbox, files, process, ghosts>>

Statuses == {"none", "waiting", "complete", "error"}

Memory == [file : {"absent", "ok", "torn"}, status : Statuses, turns : SUBSET Msgs]

Absent == [file |-> "absent", status |-> "none", turns |-> {}]
Torn   == [file |-> "torn",   status |-> "none", turns |-> {}]

Run == [kind      : {"mail", "schedule", "nudge"},
        msg       : Msgs,
        once      : BOOLEAN,   \* of the entry a scheduled run was started by
        delivered : BOOLEAN,   \* the send tracker counted a delivery
        statusSet : BOOLEAN]   \* this run set the status of its own thread

NoRun == [kind |-> "none"]

TypeOK ==
    /\ arrived \subseteq Msgs
    /\ seen \subseteq Msgs
    /\ memory \in [Threads -> Memory]
    /\ snoozes \subseteq Snooze
    /\ pc \in {"idle", "mail", "run", "snooze"}
    /\ batch \subseteq Msgs
    /\ processed \subseteq Msgs
    /\ retries \in [Msgs -> 0..(MaxEmailRetries - 1)]
    /\ history \subseteq Msgs
    /\ run \in Run \cup {NoRun}
    /\ (pc = "run") = (run # NoRun)
    /\ failures \in 0..MaxFailures
    /\ answered \subseteq Msgs
    /\ notified \subseteq Msgs
    /\ failedRuns \in [Msgs -> 0..(MaxEmailRetries + 1)]
    /\ nudges \in [Threads -> 0..(waitingWatchdogMaxFires + 1)]
    /\ dead \in BOOLEAN /\ cut \subseteq Threads

Init ==
    /\ arrived = {} /\ seen = {}
    /\ memory = [t \in Threads |-> Absent]
    /\ snoozes = {}
    /\ pc = "idle"
    /\ batch = {} /\ processed = {}
    /\ retries = [m \in Msgs |-> 0]
    /\ history = {}
    /\ run = NoRun
    /\ failures = 0
    /\ answered = {} /\ notified = {}
    /\ failedRuns = [m \in Msgs |-> 0]
    /\ nudges = [t \in Threads |-> 0]
    /\ dead = FALSE /\ cut = {}

-----------------------------------------------------------------------------
(* Failing calls, and the writes every handler shares.                     *)

(* The calls of a handler, in the order of the code, that may return an    *)
(* error in one step.                                                      *)
Erring(calls) == SUBSET (FailureKinds \cap {calls[i] : i \in DOMAIN calls})

(* The process dies at one of the calls: it and those after it are not     *)
(* made, but for a memory file it may leave truncated.  Those before it    *)
(* may have failed.                                                        *)
Dying(calls) ==
    {{"crash"} \cup fs \cup {calls[j] : j \in i..Len(calls)} :
        fs \in Erring(calls),
        i \in {i \in DOMAIN calls : /\ "crash" \in FailureKinds
                                    /\ calls[i] = "torn" => "torn" \in FailureKinds}}

Failing(calls) == Erring(calls) \cup Dying(calls)

(* A step whose calls fs fail, or were not made because the process died.  *)
Fails(fs) ==
    /\ \/ fs = {} /\ UNCHANGED failures
       \/ fs # {} /\ failures < MaxFailures /\ failures' = failures + 1
    /\ dead' = ("crash" \in fs)

Spend(fs) == Fails(fs) /\ UNCHANGED cut

Bump(n, max) == IF n < max THEN n + 1 ELSE n

(* A write of a memory file: the new contents, the old ones or a           *)
(* truncated file.                                                         *)
WriteMemory(t, new, fs) ==
    memory' = [memory EXCEPT ![t] = IF "torn" \in fs THEN Torn
                                    ELSE IF "memory" \in fs THEN @ ELSE new]

Unreadable(t, fs) == memory[t].file = "torn" \/ "read" \in fs

(* SaveMemoryHistory: the file is read again, and only its history is      *)
(* replaced.  Its errors are returned, and here change nothing.            *)
SaveCalls == <<"fetch", "read", "torn", "memory">>
SaveMemoryHistory(t, turns, fs) ==
    IF Unreadable(t, fs) \/ "fetch" \in fs
      THEN UNCHANGED memory
      ELSE WriteMemory(t, [file   |-> "ok",
                           status |-> memory[t].status,
                           turns  |-> turns], fs)

(* SetMemoryStatus, likewise with the status.                              *)
SetMemoryStatus(t, status, fs) ==
    IF Unreadable(t, fs) \/ "fetch" \in fs
      THEN UNCHANGED memory
      ELSE WriteMemory(t, [file   |-> "ok",
                           status |-> status,
                           turns  |-> memory[t].turns], fs)

SnoozeCalls == <<"snooze", "append">>
Save(e, fs) ==
    snoozes' = CASE "snooze" \in fs -> snoozes
                 [] "snooze" \notin fs /\ "append" \in fs -> WithoutEntry(snoozes, e)
                 [] OTHER -> SaveSnooze(snoozes, e)

Delete(kind, m, t, fs) ==
    snoozes' = IF "snooze" \in fs THEN snoozes ELSE DeleteSnooze(snoozes, kind, m, t)

(* SendBounce: send, then mark seen; that the mark failed is not reported. *)
BounceCalls == <<"smtp", "mark">>

(* Mutant of Bounced: the test of its error is inverted.                   *)
BouncedInverted(fs) == "smtp" \in fs

Bounced(fs) == "smtp" \notin fs
SendBounce(m, fs) ==
    /\ notified' = IF Bounced(fs) THEN notified \cup {m} ELSE notified
    /\ seen' = IF Bounced(fs) /\ "mark" \notin fs THEN seen \cup {m} ELSE seen

Waiting(t) == memory[t].status = "waiting"

(* A handler that writes the status of a thread and its watchdog, one      *)
(* after the other, or the watchdog in two writes: the process may die in  *)
(* between.                                                                *)
Unwatched(t, fs) ==
    "crash" \in fs /\ Waiting(t)' /\ FindWatchdogByThread(snoozes', t) = {}

CutShort(t, fs) == cut' = IF Unwatched(t, fs) THEN cut \cup {t} ELSE cut

-----------------------------------------------------------------------------
(* Mail, the poll, and messages that never reach the model.                *)

Arrive(m) ==
    /\ m \notin arrived
    /\ arrived' = arrived \cup {m}
    /\ UNCHANGED <<seen, files, process, ghosts>>

(* GetNewEmails.  When it fails the cycle ends and nothing changes.        *)
Poll ==
    /\ pc = "idle"
    /\ pc' = "mail"
    /\ batch' = arrived \ seen
    /\ processed' = {}
    /\ UNCHANGED <<mailbox, files, retries, history, run, ghosts>>

(* Take m off the batch; the Date header, which its sender sets, decides   *)
(* the order.                                                              *)
Take(m) ==
    /\ pc = "mail"
    /\ m \in batch
    /\ batch' = batch \ {m}

(* The message whose sender handleAutoReply notifies: the newest of the    *)
(* references that is in INBOX, else whatever the walk through the Sent    *)
(* folder leads to.  A look-up that fails is passed over.                  *)
InInbox(m) == {i \in DOMAIN Refs[m] : Refs[m][i] \in arrived}
Upstream(m) == {Refs[m][i] : i \in {j \in InInbox(m) : InInbox(m) \subseteq 1..j}}

Notify(m, u, fs) ==
    notified' = IF Sender[u] # Sender[m] /\ "smtp" \notin fs
                  THEN notified \cup {u} ELSE notified

NotifyUpstream(m, fs) ==
    IF InInbox(m) # {} /\ "fetch" \notin fs
      THEN \E u \in Upstream(m) : Notify(m, u, fs)
      ELSE (\E u \in arrived : Notify(m, u, fs)) \/ UNCHANGED notified

(* handleAutoReply and the mark that follows it.                           *)
HandleAutoReply(m) ==
    /\ Take(m)
    /\ m \in AutoReplies
    /\ \E fs \in Failing(<<"fetch", "smtp", "snooze", "read", "torn", "memory", "mark">>) :
        /\ Fails(fs)
        /\ NotifyUpstream(m, fs)
        /\ snoozes' = IF "snooze" \in fs THEN snoozes
                      ELSE AbortThreadSnoozes(snoozes, Root[m])
        /\ IF Unreadable(Root[m], fs)
             THEN UNCHANGED memory
             ELSE WriteMemory(Root[m], [file   |-> "ok",
                                        status |-> "none",
                                        turns  |-> memory[Root[m]].turns \cup {m}], fs)
        /\ CutShort(Root[m], fs)
        /\ seen' = IF "mark" \in fs THEN seen ELSE seen \cup {m}
    /\ UNCHANGED <<arrived, pc, processed, retries, history, run,
                   answered, failedRuns, nudges>>

(* Access control refuses m.  A bounce that cannot be sent leaves m unseen.*)
Reject(m) ==
    /\ Take(m)
    /\ m \in Rejected \ AutoReplies
    /\ \E fs \in Failing(BounceCalls) : Spend(fs) /\ SendBounce(m, fs)
    /\ UNCHANGED <<arrived, files, pc, processed, retries, history, run,
                   answered, failedRuns, nudges>>

Accepted(m) == m \notin AutoReplies \cup Rejected

(* Demo mode: a notice instead of a run.                                   *)
Demo(m) ==
    /\ Take(m)
    /\ Accepted(m) /\ LLMKeyMissing
    /\ \E fs \in Failing(BounceCalls) :
        /\ Spend(fs)
        /\ notified' = IF Bounced(fs) THEN notified \cup {m} ELSE notified
        /\ seen' = IF "mark" \in fs THEN seen ELSE seen \cup {m}
    /\ UNCHANGED <<arrived, files, pc, processed, retries, history, run,
                   answered, failedRuns, nudges>>

-----------------------------------------------------------------------------
(* Ordinary mail: memory, the run, and what follows the run.               *)

ForModel(m) == Take(m) /\ Accepted(m) /\ ~LLMKeyMissing

Fetched(m) == {Refs[m][i] : i \in InInbox(m)}

(* MemoryFromReferences, when the thread has no memory file.               *)
Rebuilt(m) == [file |-> "ok", status |-> "none", turns |-> Fetched(m)]

(* Two mutants of Loaded: ClearHistory forgotten, SetHistory forgotten.     *)
LoadedStale(t)   == history
LoadedNothing(t) == {}

(* What SetHistory is given: the turns of the thread's file, if there is   *)
(* one.                                                                    *)
Loaded(t) == IF memory[t].file = "ok" THEN memory[t].turns ELSE {}

StartRun(kind, t, m, once) ==
    /\ pc' = "run"
    /\ history' = Loaded(t) \cup {m}
    /\ run' = [kind |-> kind, msg |-> m, once |-> once,
               delivered |-> FALSE, statusSet |-> FALSE]

(* The thread's memory is loaded, or rebuilt from the references, and      *)
(* saved; then HandleMessage starts.  ClearStatus only changes the copy in *)
(* memory: the save keeps the status of the file.                          *)
StartMail(m) ==
    /\ ForModel(m)
    /\ memory[Root[m]].file # "torn"
    /\ memory' = IF memory[Root[m]].file = "ok" THEN memory
                 ELSE [memory EXCEPT ![Root[m]] = Rebuilt(m)]
    /\ StartRun("mail", Root[m], m, FALSE)
    /\ UNCHANGED <<mailbox, snoozes, processed, retries, ghosts>>

(* The memory file cannot be read, built or saved: the message is left     *)
(* unseen, and this attempt does not count.                                *)
SkipMail(m) ==
    /\ ForModel(m)
    /\ \/ memory[Root[m]].file = "torn" /\ UNCHANGED memory /\ Spend({})
       \/ \E fs \in Erring(SaveCalls) \ {{}} :
            /\ Spend(fs)
            /\ \E new \in {memory[Root[m]]}
                    \cup (IF "torn" \in fs THEN {Torn} ELSE {})
                    \cup (IF memory[Root[m]].file = "absent" /\ Fetched(m) # {}
                            THEN {Rebuilt(m)} ELSE {}) :
                 memory' = [memory EXCEPT ![Root[m]] = new]
    /\ UNCHANGED <<mailbox, snoozes, pc, processed, retries, history, run,
                   answered, notified, failedRuns, nudges>>

Running(kind) == pc = "run" /\ run.kind = kind

(* The rest of the handler once the run is over.                           *)
EndRun(next) == pc' = next /\ run' = NoRun

MailAnswered ==
    /\ Running("mail")
    /\ \E fs \in Erring(SaveCalls) :
        Spend(fs) /\ SaveMemoryHistory(Root[run.msg], history, fs)
    /\ retries' = [retries EXCEPT ![run.msg] = 0]
    /\ processed' = processed \cup {run.msg}
    /\ answered' = answered \cup {run.msg}
    /\ EndRun("mail")
    /\ UNCHANGED <<mailbox, snoozes, batch, history, notified, failedRuns, nudges>>

(* Mutant of NoticeUnneeded: any status counts, also one of an earlier run. *)
NoticeUnneededStale(t, fs) ==
    /\ memory'[t].file = "ok" /\ "read" \notin fs
    /\ \/ memory'[t].status = "complete"
       \/ memory'[t].status = "waiting" /\ FindWatchdogByThread(snoozes, t) # {}

(* maxTurnsNoticeUnneeded, after the history was saved.                    *)
NoticeUnneeded(t, fs) ==
    /\ run.statusSet
    /\ memory'[t].file = "ok" /\ "read" \notin fs
    /\ \/ memory'[t].status = "complete"
       \/ memory'[t].status = "waiting" /\ FindWatchdogByThread(snoozes, t) # {}

MailMaxTurns ==
    /\ Running("mail")
    /\ \E fs \in Failing(SaveCalls \o BounceCalls) :
        /\ Spend(fs)
        /\ SaveMemoryHistory(Root[run.msg], history, fs)
        /\ \/ /\ NoticeUnneeded(Root[run.msg], fs)
              /\ processed' = processed \cup {run.msg}
              /\ answered' = IF run.statusSet /\ "crash" \notin fs
                               THEN answered \cup {run.msg} ELSE answered
              /\ UNCHANGED <<seen, notified>>
           \/ /\ ~NoticeUnneeded(Root[run.msg], fs)
              /\ SendBounce(run.msg, fs)
              /\ processed' = IF Bounced(fs) THEN processed ELSE processed \cup {run.msg}
              /\ UNCHANGED answered
    /\ retries' = [retries EXCEPT ![run.msg] = 0]
    /\ EndRun("mail")
    /\ UNCHANGED <<arrived, snoozes, batch, history, failedRuns, nudges>>

(* Mutant of BudgetSpent: one attempt too many.                            *)
BudgetSpentLate(m) == retries[m] + 1 > MaxEmailRetries

(* Any other error: leave unseen for a retry, up to MaxEmailRetries.       *)
BudgetSpent(m) == retries[m] + 1 >= MaxEmailRetries

MailFailed ==
    /\ Running("mail")
    /\ \E fs \in Failing(SaveCalls \o BounceCalls) :
        /\ Spend(fs)
        /\ SaveMemoryHistory(Root[run.msg], history, fs)
        /\ \/ /\ BudgetSpent(run.msg)
              /\ retries' = [retries EXCEPT ![run.msg] = 0]
              /\ SendBounce(run.msg, fs)
              /\ processed' = IF Bounced(fs) THEN processed ELSE processed \cup {run.msg}
           \/ /\ ~BudgetSpent(run.msg)
              /\ retries' = [retries EXCEPT ![run.msg] = @ + 1]
              /\ UNCHANGED <<seen, notified, processed>>
    /\ failedRuns' = [failedRuns EXCEPT ![run.msg] = Bump(@, MaxEmailRetries + 1)]
    /\ EndRun("mail")
    /\ UNCHANGED <<arrived, snoozes, batch, history, answered, nudges>>

(* Mutant of Finished: nothing is marked at the end of the batch.          *)
FinishedNone == {}

(* What the batch passes to MarkSeen.                                      *)
Finished == processed

(* The batch is done: mark the finished messages, each on its own, then     *)
(* turn to the snoozes.                                                     *)
FinishBatch ==
    /\ pc = "mail" /\ batch = {}
    /\ \E fs \in Failing(<<"mark">>) :
        /\ Spend(fs)
        /\ \E missed \in IF "mark" \in fs THEN SUBSET Finished ELSE {{}} :
               seen' = seen \cup (Finished \ missed)
    /\ processed' = {}
    /\ pc' = "snooze"
    /\ UNCHANGED <<arrived, files, batch, retries, history, run,
                   answered, notified, failedRuns, nudges>>

-----------------------------------------------------------------------------
(* Tool calls of a run.  A call that fails changes nothing and is told to  *)
(* the model, so only those that change a state are actions.               *)

(* Messages the model may name in a tool call.                             *)
Named == {m \in arrived : AnyThread \/ Root[m] = Root[run.msg]}

(* A send tool whose SendEmail succeeds: MarkDelivered.                    *)
Deliver ==
    /\ pc = "run"
    /\ ~run.delivered
    /\ run' = [run EXCEPT !.delivered = TRUE]
    /\ UNCHANGED <<mailbox, files, pc, batch, processed, retries, history, ghosts>>

(* Mutant of ArmedFires: re-arming always starts from zero.                *)
ArmedFromZero == {}

(* ArmWaitingWatchdog, on the message and the thread of the run.  During a *)
(* nudge the fires of the watchdog in place are kept.                      *)
ArmedFires == IF run.kind = "nudge"
                THEN {e.fires : e \in FindWatchdogByThread(snoozes, Root[run.msg])}
                ELSE {}
ArmWaitingWatchdog(fs) ==
    \E n \in IF ArmedFires = {} THEN {0} ELSE ArmedFires :
        Save([thread |-> Root[run.msg], msg |-> run.msg, watchdog |-> TRUE,
              once |-> TRUE, fires |-> n, due |-> FALSE], fs)

(* set_task_status naming message m: nothing but an error may be reported  *)
(* before a delivery, and waiting arms the watchdog of the run's thread.   *)
SetTaskStatus(m, status) ==
    /\ pc = "run"
    /\ status \in {"waiting", "complete"} => run.delivered
    /\ m \in Named
    /\ memory[Root[m]].file # "torn"
    /\ \E fs \in Failing(<<"torn", "memory">> \o SnoozeCalls) :
        /\ Fails(fs)
        /\ SetMemoryStatus(Root[m], status, fs)
        /\ IF status = "waiting" /\ fs \cap {"memory", "torn"} = {}
             THEN ArmWaitingWatchdog(fs)
             ELSE UNCHANGED snoozes
        /\ run' = [run EXCEPT !.statusSet =
                     @ \/ (Root[m] = Root[run.msg] /\ fs \cap {"memory", "torn"} = {})]
        /\ nudges' = IF status = "waiting" /\ fs = {} /\ run.kind # "nudge"
                       THEN [nudges EXCEPT ![Root[run.msg]] = 0] ELSE nudges
        /\ IF status = "waiting" /\ fs = {}
             THEN cut' = cut \ {Root[run.msg]}
             ELSE CutShort(Root[run.msg], fs)
    /\ UNCHANGED <<mailbox, pc, batch, processed, retries, history,
                   answered, notified, failedRuns>>

(* snooze_tool, which a run started by the snooze file does not have.  The *)
(* first tick is counted from the Date of m: it may have passed.           *)
SnoozeTool(m, once) ==
    /\ Running("mail")
    /\ m \in Named
    /\ \E due \in BOOLEAN, fs \in Failing(SnoozeCalls) :
        /\ Spend(fs)
        /\ Save([thread |-> Root[m], msg |-> m, watchdog |-> FALSE,
                 once |-> once, fires |-> 0, due |-> due], fs)
    /\ UNCHANGED <<mailbox, memory, process, answered, notified, failedRuns, nudges>>

(* unsnooze_tool: by Message-Id, and only scheduled tasks.                 *)
UnsnoozeTool(m) ==
    /\ Running("mail")
    /\ m \in Named
    /\ ByMessage(snoozes, FALSE, m) # {}
    /\ Delete(FALSE, m, NoThread, {})
    /\ UNCHANGED <<mailbox, memory, process, ghosts>>

-----------------------------------------------------------------------------
(* Draining the snooze file: scheduled tasks.                              *)

Drain(e) == pc = "snooze" /\ e \in Due(snoozes)

(* runSnooze up to HandleSnooze, on the memory of the entry's thread.      *)
RunSnooze(e) ==
    /\ Drain(e) /\ ~e.watchdog
    /\ memory[e.thread].file # "torn"
    /\ StartRun("schedule", e.thread, e.msg, e.once)
    /\ UNCHANGED <<mailbox, files, batch, processed, retries, ghosts>>

(* The memory cannot be read: no more snoozes this cycle.                  *)
SnoozeUnreadable(e) ==
    /\ Drain(e) /\ ~e.watchdog
    /\ \E fs \in Erring(<<"read">>) : Spend(fs) /\ Unreadable(e.thread, fs)
    /\ pc' = "idle"
    /\ UNCHANGED <<mailbox, files, batch, processed, retries, history, run,
                   answered, notified, failedRuns, nudges>>

(* Mutant of AdvanceOrDeleteSnooze: a one-shot entry is not deleted.        *)
AdvanceOrKeepSnooze(fs) ==
    IF run.once
      THEN UNCHANGED snoozes
      ELSE Save([thread |-> Root[run.msg], msg |-> run.msg, watchdog |-> FALSE,
                 once |-> FALSE, fires |-> 0, due |-> FALSE], fs)

(* AdvanceOrDeleteSnooze for the entry the run was started by.             *)
AdvanceOrDeleteSnooze(fs) ==
    IF run.once
      THEN Delete(FALSE, run.msg, Root[run.msg], fs)
      ELSE Save([thread |-> Root[run.msg], msg |-> run.msg, watchdog |-> FALSE,
                 once |-> FALSE, fires |-> 0, due |-> FALSE], fs)

ScheduledAnswered ==
    /\ Running("schedule")
    /\ \E fs \in Failing(SaveCalls \o SnoozeCalls) :
        /\ Spend(fs)
        /\ SaveMemoryHistory(Root[run.msg], history, fs)
        /\ AdvanceOrDeleteSnooze(fs)
    /\ EndRun("snooze")
    /\ UNCHANGED <<mailbox, batch, processed, retries, history,
                   answered, notified, failedRuns, nudges>>

(* notifySnoozeMaxTurns, and the entry is advanced all the same.           *)
ScheduledMaxTurns ==
    /\ Running("schedule")
    /\ \E fs \in Failing(SaveCalls \o BounceCalls \o SnoozeCalls) :
        /\ Spend(fs)
        /\ SaveMemoryHistory(Root[run.msg], history, fs)
        /\ IF NoticeUnneeded(Root[run.msg], fs) \/ "fetch" \in fs
             THEN UNCHANGED <<seen, notified>>
             ELSE SendBounce(run.msg, fs)
        /\ AdvanceOrDeleteSnooze(fs)
    /\ EndRun("snooze")
    /\ UNCHANGED <<arrived, batch, processed, retries, history,
                   answered, failedRuns, nudges>>

(* Any other error: the entry stays due, and no more snoozes this cycle.   *)
ScheduledFailed ==
    /\ Running("schedule")
    /\ \E fs \in Erring(SaveCalls) :
        Spend(fs) /\ SaveMemoryHistory(Root[run.msg], history, fs)
    /\ EndRun("idle")
    /\ UNCHANGED <<mailbox, snoozes, batch, processed, retries, history,
                   answered, notified, failedRuns, nudges>>

-----------------------------------------------------------------------------
(* Draining the snooze file: runWatchdog, which owns its entry.            *)

DrainWatchdog(e) == Drain(e) /\ e.watchdog

Rescheduled(e) == [e EXCEPT !.due = FALSE]

WatchdogUnreadable(e) ==
    /\ DrainWatchdog(e)
    /\ \E fs \in Failing(<<"read">> \o SnoozeCalls) :
        /\ Fails(fs)
        /\ Unreadable(e.thread, fs)
        /\ Save(Rescheduled(e), fs) /\ UNCHANGED memory
        /\ CutShort(e.thread, fs)
    /\ UNCHANGED <<mailbox, process, answered, notified, failedRuns, nudges>>

StandDown(e) ==
    /\ DrainWatchdog(e)
    /\ memory[e.thread].file # "torn" /\ ~Waiting(e.thread)
    /\ \E fs \in Erring(<<"snooze">>) : Spend(fs) /\ Delete(TRUE, e.msg, e.thread, fs)
    /\ UNCHANGED <<mailbox, memory, process, answered, notified, failedRuns, nudges>>

(* The nudges are spent: notify, mark the thread errored, drop the entry.  *)
GiveUp(e) ==
    /\ DrainWatchdog(e)
    /\ Waiting(e.thread)
    /\ e.fires >= waitingWatchdogMaxFires
    /\ \E fs \in Failing(<<"fetch", "smtp", "mark", "read", "torn", "memory", "snooze">>) :
        /\ Spend(fs)
        /\ IF "fetch" \in fs THEN UNCHANGED <<seen, notified>> ELSE SendBounce(e.msg, fs)
        /\ SetMemoryStatus(Root[e.msg], "error", fs)
        /\ Delete(TRUE, e.msg, e.thread, fs)
    /\ UNCHANGED <<arrived, process, answered, failedRuns, nudges>>

(* Count and reschedule first, then replay the message as a nudge.         *)
Nudge(e) ==
    /\ DrainWatchdog(e)
    /\ Waiting(e.thread)
    /\ e.fires < waitingWatchdogMaxFires
    /\ \E fs \in Failing(SnoozeCalls) :
        /\ Fails(fs)
        /\ Save([Rescheduled(e) EXCEPT !.fires = @ + 1], fs) /\ UNCHANGED memory
        /\ CutShort(e.thread, fs)
        /\ nudges' = IF "crash" \in fs THEN nudges
                     ELSE [nudges EXCEPT ![e.thread] = Bump(@, waitingWatchdogMaxFires + 1)]
    /\ StartRun("nudge", e.thread, e.msg, TRUE)
    /\ UNCHANGED <<mailbox, batch, processed, retries,
                   answered, notified, failedRuns>>

(* However the nudge ended: save, and drop the entry unless the thread is  *)
(* read back as still waiting.                                             *)
NudgeDone ==
    /\ Running("nudge")
    /\ \E fs \in Failing(SaveCalls \o <<"snooze">>) :
        /\ Spend(fs)
        /\ SaveMemoryHistory(Root[run.msg], history, fs)
        /\ IF memory'[Root[run.msg]].status = "waiting" /\ "read" \notin fs
             THEN UNCHANGED snoozes
             ELSE Delete(TRUE, run.msg, Root[run.msg], fs)
    /\ EndRun("snooze")
    /\ UNCHANGED <<mailbox, batch, processed, retries, history,
                   answered, notified, failedRuns, nudges>>

(* Nothing is due: the cycle is over.                                      *)
EndPoll ==
    /\ pc = "snooze"
    /\ Due(snoozes) = {}
    /\ pc' = "idle"
    /\ UNCHANGED <<mailbox, files, batch, processed, retries, history, run, ghosts>>

-----------------------------------------------------------------------------
(* Time, and restarts.  Time passes while the process sleeps and while the *)
(* model runs; the handlers around a run take none.  (A deadline set in a  *)
(* drain lies a minute or more ahead, so it cannot pass within the same    *)
(* handler, and of the others the drain takes any that is due.)            *)

Tick(t, kind) ==
    /\ ~dead
    /\ pc = "idle" \/ (TicksDuringRuns /\ pc = "run")
    /\ \E e \in ByThread(snoozes, kind, t) :
        /\ ~e.due
        /\ snoozes' = (snoozes \ {e}) \cup {[e EXCEPT !.due = TRUE]}
    /\ UNCHANGED <<mailbox, memory, process, ghosts>>

(* What the process held in memory is gone.                                *)
Restarted ==
    /\ pc' = "idle" /\ batch' = {} /\ processed' = {}
    /\ retries' = [m \in Msgs |-> 0]
    /\ history' = {}
    /\ run' = NoRun
    /\ dead' = FALSE
    /\ failedRuns' = [m \in Msgs |-> 0]
    /\ UNCHANGED <<mailbox, files, answered, notified, nudges, cut>>

(* The process dies between two handlers, or in a run, and is started      *)
(* again.                                                                  *)
Crash ==
    /\ "crash" \in FailureKinds /\ ~dead
    /\ failures < MaxFailures /\ failures' = failures + 1
    /\ Restarted

(* It died within a handler, and is started again.                         *)
Restart == dead /\ Restarted /\ UNCHANGED failures

-----------------------------------------------------------------------------
MailStep ==
    /\ ~dead
    /\ \/ Poll \/ FinishBatch
       \/ \E m \in Msgs : HandleAutoReply(m) \/ Reject(m) \/ Demo(m)
                          \/ StartMail(m) \/ SkipMail(m)

ToolCall ==
    /\ ~dead
    /\ \/ Deliver
       \/ \E m \in Msgs : \/ \E s \in Statuses \ {"none"} : SetTaskStatus(m, s)
                          \/ \E once \in OnceChoices : SnoozeTool(m, once)
                          \/ UnsnoozeTool(m)

RunEnds ==
    /\ ~dead
    /\ \/ MailAnswered \/ MailMaxTurns \/ MailFailed
       \/ ScheduledAnswered \/ ScheduledMaxTurns \/ ScheduledFailed
       \/ NudgeDone

SnoozeStep ==
    /\ ~dead
    /\ \/ EndPoll
       \/ \E e \in snoozes : \/ RunSnooze(e) \/ SnoozeUnreadable(e)
                             \/ WatchdogUnreadable(e) \/ StandDown(e)
                             \/ GiveUp(e) \/ Nudge(e)

Next ==
    \/ \E m \in Msgs : Arrive(m)
    \/ \E t \in Threads, kind \in BOOLEAN : Tick(t, kind)
    \/ MailStep \/ ToolCall \/ RunEnds \/ SnoozeStep
    \/ Crash \/ Restart

Spec == Init /\ [][Next]_vars
(***************************************************************************)
(* Fairness.  process() is called at every tick of the poll timer and does *)
(* not block for ever: a run has at most MaxTurns turns and a deadline     *)
(* (AgentTimeout).  A deadline passes, if not during a cycle then between   *)
(* two of them (so strong fairness).  A process that died is started again  *)
(* (docker-compose-example.yml: restart unless-stopped).  Nothing is        *)
(* assumed of tool calls, of the outcome of a run, or of mail.             *)
(***************************************************************************)
Fairness ==
    /\ WF_vars(MailStep) /\ WF_vars(SnoozeStep) /\ WF_vars(RunEnds) /\ WF_vars(Restart)
    /\ \A t \in Threads, kind \in BOOLEAN : SF_vars(Tick(t, kind))

FairSpec == Spec /\ Fairness

-----------------------------------------------------------------------------
(* What must hold.                                                         *)

(* The snooze file holds at most one entry of each kind per thread, and    *)
(* files every entry under the thread of its message.                      *)
OneEntryPerThreadAndKind ==
    \A e, f \in snoozes :
        /\ e.thread = Root[e.msg]
        /\ e.thread = f.thread /\ e.watchdog = f.watchdog => e = f

(* A task that waits for a coworker always has a watchdog: whatever mail,  *)
(* bounce, schedule, nudge or restart comes in between, no thread is left  *)
(* waiting with nothing that would ever wake it up.  Excepted are threads  *)
(* the process died on between the two writes of one of four handlers:     *)
(* status and watchdog in set_task_status (status.go:84, 105), the removal *)
(* and the return of a watchdog that is armed, counted or put off          *)
(* (snooze.go:202, 216), and its removal and the status after a bounce     *)
(* (handleAutoReply).                                                      *)
WaitingIsWatched ==
    \A t \in Threads :
        Waiting(t) /\ t \notin cut => FindWatchdogByThread(snoozes, t) # {}

(* A coworker who stays silent is asked at most waitingWatchdogMaxFires    *)
(* times: only a run that is not itself a nudge renews the budget.         *)
NudgesBounded == \A t \in Threads : nudges[t] <= waitingWatchdogMaxFires

(* No conversation leaks into another one: the history the model is run    *)
(* on, and every memory file, holds turns of its own thread only, though   *)
(* one agent process serves all threads in turn.                           *)
HistoryIsolated ==
    /\ pc = "run" => \A m \in history : Root[m] = Root[run.msg]
    /\ \A t \in Threads : \A m \in memory[t].turns : Root[m] = t

(* A message that was answered is remembered by its thread ever after.     *)
AnsweredIsRemembered == \A m \in answered : m \in memory[Root[m]].turns

(* A message never makes the model fail more than MaxEmailRetries times in *)
(* the life of a process: the retry budget closes the loop.                *)
FailedRunsBounded == \A m \in Msgs : failedRuns[m] <= MaxEmailRetries

(* No message is dropped in silence: one that is marked seen was answered, *)
(* or its sender was told, or it is itself an automatic reply.             *)
SeenIsAccountedFor == seen \subseteq answered \cup notified \cup AutoReplies

(* A message that was answered is not given to the model as new mail again.*)
AnsweredIsNotRerun ==
    [][\A m \in Msgs : StartMail(m) => m \notin answered]_vars

(* A recurring schedule ends only when the model ends it or replaces it,   *)
(* by a message of its thread, in a run for new mail: no bounce, drained   *)
(* entry or watchdog removes it, and no restart but one: the process dies  *)
(* when it has taken the entry out to advance it after a scheduled run of  *)
(* the thread, and has not yet put it back (snooze.go:202, 216).           *)
Recurring(t) == \E e \in snoozes : e.thread = t /\ ~e.watchdog /\ ~e.once

EndedByModel(t) ==
    Running("mail") /\ \E m \in Named :
        /\ Root[m] = t
        /\ UnsnoozeTool(m) \/ \E once \in OnceChoices : SnoozeTool(m, once)

LostInAdvance(t) == dead' /\ Running("schedule") /\ Root[run.msg] = t

RecurringSurvives ==
    [][\A t \in Threads :
        Recurring(t) /\ ~Recurring(t)' => EndedByModel(t) \/ LostInAdvance(t)]_vars

(* Every message that arrives is marked seen at last.                      *)
EveryMessageIsHandled == \A m \in Msgs : m \in arrived ~> m \in seen

(* A task does not wait for ever: a delegate that never answers is given   *)
(* up, unless the process died between two writes and took the watchdog    *)
(* with it (WaitingIsWatched).                                             *)
WaitingEnds == \A t \in Threads : Waiting(t) ~> (~Waiting(t) \/ t \in cut)

(* A drain of the snooze file always ends, and the mail box is polled      *)
(* again: no entry is due again in the drain that has just handled it.     *)
MailIsPolledAgain == []<>(pc = "idle")

-----------------------------------------------------------------------------
(* What a comment or a document says of the program, and the code does not *)
(* do.  Each is checked, and violated, in a run of its own.                *)

(* The reply that was awaited ends the waiting (runWatchdog stands down    *)
(* because "the reply arrived"): while new mail is run, its thread waits   *)
(* only if this very run said so.                                          *)
ReplyEndsWaiting ==
    Running("mail") /\ Waiting(Root[run.msg]) => run.statusSet

(* Memory rebuilt from the references of a message is what the model is    *)
(* run on: the history of a run covers the memory file of its thread.      *)
RunSeesItsMemory ==
    pc = "run" => memory[Root[run.msg]].turns \subseteq history

=============================================================================
