--------------------------- MODULE PollLoopProofs ---------------------------
(***************************************************************************)
(* Theorems about PollLoop, for every set of messages and threads, every   *)
(* bound and, unless a theorem says otherwise, every kind of failure.      *)
(***************************************************************************)
EXTENDS PollLoop, TLAPS

-----------------------------------------------------------------------------
(* What the operators of SnoozeFile guarantee of any snooze file.          *)

(* A file is well-formed when no two of its entries have the same thread   *)
(* and kind, and each is filed under root[msg], the thread of its message. *)
WellFormed(file, root) ==
    /\ \A e, f \in file : e.thread = f.thread /\ e.watchdog = f.watchdog => e = f
    /\ \A e \in file : e.thread = root[e.msg]

(* Deleting removes entries and nothing else.                              *)
LEMMA DeleteShrinks ==
    ASSUME NEW file, NEW kind, NEW m, NEW t
    PROVE  DeleteSnooze(file, kind, m, t) \subseteq file
BY DEF DeleteSnooze

(* A deletion leaves the entries of the other kind alone.                  *)
LEMMA DeleteKeepsOtherKind ==
    ASSUME NEW file, NEW kind, NEW m, NEW t
    PROVE  \A e \in file : e.watchdog # kind => e \in DeleteSnooze(file, kind, m, t)
BY DEF DeleteSnooze, ByMessage, ByThread

(* In a well-formed file, a deletion by a message and its own thread       *)
(* leaves nothing of that kind on the thread, and every other thread as    *)
(* it is.                                                                  *)
LEMMA DeleteClearsThread ==
    ASSUME NEW file, NEW root, WellFormed(file, root),
           NEW kind, NEW m, NEW t, t = root[m]
    PROVE  DeleteSnooze(file, kind, m, t)
             = {e \in file : e.watchdog # kind \/ e.thread # t}
<1>1. CASE ByMessage(file, kind, m) = {}
  BY <1>1 DEF DeleteSnooze, ByThread
<1>2. CASE ByMessage(file, kind, m) # {}
  <2>1. PICK f \in file : f.watchdog = kind /\ f.msg = m
    BY <1>2 DEF ByMessage
  <2>2. \A e \in file : e.watchdog = kind => (e.msg = m <=> e.thread = t)
    BY <2>1 DEF WellFormed
  <2> QED BY <1>2, <2>2 DEF DeleteSnooze, ByMessage
<1> QED BY <1>1, <1>2

LEMMA WithoutEntryExact ==
    ASSUME NEW file, NEW root, WellFormed(file, root),
           NEW e, e.thread = root[e.msg]
    PROVE  WithoutEntry(file, e)
             = {f \in file : f.watchdog # e.watchdog \/ f.thread # e.thread}
BY DeleteClearsThread DEF WithoutEntry

(* Saving an entry under the thread of its message replaces the one entry  *)
(* of its kind and thread, and keeps a file well-formed.                   *)
LEMMA SaveKeepsWellFormed ==
    ASSUME NEW file, NEW root, WellFormed(file, root),
           NEW e, e.thread = root[e.msg]
    PROVE  /\ SaveSnooze(file, e) =
                {f \in file : f.watchdog # e.watchdog \/ f.thread # e.thread} \cup {e}
           /\ WellFormed(SaveSnooze(file, e), root)
<1> DEFINE rest == {f \in file : f.watchdog # e.watchdog \/ f.thread # e.thread}
<1>1. WithoutEntry(file, e) = rest
  BY WithoutEntryExact
<1>2. SaveSnooze(file, e) = rest \cup {e}
  BY <1>1 DEF SaveSnooze
<1>3. WellFormed(rest \cup {e}, root)
  BY DEF WellFormed
<1> QED BY <1>2, <1>3

(* Removing entries keeps a file well-formed.                              *)
LEMMA ShrinkKeepsWellFormed ==
    ASSUME NEW file, NEW root, WellFormed(file, root), NEW sub \in SUBSET file
    PROVE  WellFormed(sub, root)
BY DEF WellFormed

USE DEF vars, mailbox, files, process, ghosts

-----------------------------------------------------------------------------
(* Failing calls and the death of the process.                             *)

(* The calls that fail are of the kinds that may, but for those that were   *)
(* not made because the process had died.                                  *)
LEMMA FailingKinds ==
    ASSUME NEW calls
    PROVE  /\ \A fs \in Erring(calls) : fs \subseteq FailureKinds
           /\ \A fs \in Failing(calls) :
                \/ fs \subseteq FailureKinds
                \/ "crash" \in fs /\ "crash" \in FailureKinds
BY DEF Failing, Erring, Dying

(* A process that dies within a handler does not make the last call.       *)
LEMMA DyingSkipsLast ==
    ASSUME NEW calls \in Seq(Kinds), NEW fs \in Failing(calls)
    PROVE  fs \in Erring(calls) \/ {"crash", calls[Len(calls)]} \subseteq fs
<1>1. CASE fs \in Erring(calls)
  BY <1>1
<1>2. CASE fs \in Dying(calls)
  <2>1. PICK gs \in Erring(calls), i \in DOMAIN calls :
          fs = {"crash"} \cup gs \cup {calls[j] : j \in i..Len(calls)}
    BY <1>2 DEF Dying
  <2>2. Len(calls) \in i..Len(calls)
    OBVIOUS
  <2> QED BY <2>1, <2>2
<1> QED BY <1>1, <1>2 DEF Failing

(* So a handler that writes the snooze file last either calls it, and it   *)
(* may fail, or dies without the file being completed.                     *)
LEMMA LastSnoozeCall ==
    /\ \A fs \in Failing(SnoozeCalls) \cup Failing(<<"torn", "memory">> \o SnoozeCalls) :
         \/ fs \subseteq FailureKinds \cap {"torn", "memory", "snooze", "append"}
         \/ {"crash", "append"} \subseteq fs
    /\ \A fs \in Failing(<<"read">> \o SnoozeCalls) :
         fs \subseteq FailureKinds \/ {"crash", "append"} \subseteq fs
    /\ \A fs \in Failing(SaveCalls \o <<"snooze">>)
                 \cup Failing(<<"fetch", "smtp", "mark", "read", "torn", "memory", "snooze">>) :
         fs \subseteq FailureKinds \ {"crash"} \/ {"crash", "snooze"} \subseteq fs
<1> DEFINE In(fs, calls) == fs \subseteq FailureKinds \cap {calls[i] : i \in DOMAIN calls}
           Last(fs, calls) == {"crash", calls[Len(calls)]} \subseteq fs
           c1 == SnoozeCalls
           c2 == <<"read">> \o SnoozeCalls
           c3 == <<"torn", "memory">> \o SnoozeCalls
           c4 == SaveCalls \o <<"snooze">>
           c5 == <<"fetch", "smtp", "mark", "read", "torn", "memory", "snooze">>
           writes == {"torn", "memory", "snooze", "append"}
           all == {"fetch", "smtp", "mark", "read", "torn", "memory", "snooze"}
<1>1. \A calls \in Seq(Kinds) : \A fs \in Failing(calls) : In(fs, calls) \/ Last(fs, calls)
  BY DyingSkipsLast DEF Erring
<1>2. /\ c1 \in Seq(Kinds) /\ c1[Len(c1)] = "append"
      /\ {c1[i] : i \in DOMAIN c1} \subseteq writes
  BY DEF SnoozeCalls, Kinds
<1>3. c2 \in Seq(Kinds) /\ c2[Len(c2)] = "append"
  BY DEF SnoozeCalls, Kinds
<1>4. /\ c3 \in Seq(Kinds) /\ c3[Len(c3)] = "append"
      /\ {c3[i] : i \in DOMAIN c3} \subseteq writes
  BY DEF SnoozeCalls, Kinds
<1>5. /\ c4 \in Seq(Kinds) /\ c4[Len(c4)] = "snooze"
      /\ {c4[i] : i \in DOMAIN c4} \subseteq all
  BY DEF SaveCalls, Kinds
<1>6. /\ c5 \in Seq(Kinds) /\ c5[Len(c5)] = "snooze"
      /\ {c5[i] : i \in DOMAIN c5} \subseteq all
  BY DEF Kinds
<1> HIDE DEF c1, c2, c3, c4, c5
<1>7. /\ \A fs \in Failing(c1) \cup Failing(c3) :
           fs \subseteq FailureKinds \cap writes \/ {"crash", "append"} \subseteq fs
      /\ \A fs \in Failing(c2) : fs \subseteq FailureKinds \/ {"crash", "append"} \subseteq fs
  BY <1>1, <1>2, <1>3, <1>4
<1>8. \A fs \in Failing(c4) \cup Failing(c5) :
        fs \subseteq FailureKinds \cap all \/ {"crash", "snooze"} \subseteq fs
  BY <1>1, <1>5, <1>6
<1> QED BY <1>7, <1>8 DEF c1, c2, c3, c4, c5

(* Nothing happens after it has died, but mail and the restart.            *)
LEMMA DeadStays ==
    ASSUME [Next]_vars, dead
    PROVE  UNCHANGED <<seen, files, process, ghosts>> \/ Restart
BY DEF Next, Arrive, Tick, MailStep, ToolCall, RunEnds, SnoozeStep, Crash

-----------------------------------------------------------------------------
(* Types.                                                                  *)

(* Writing an entry keeps the type of the snooze file, fail as it may.     *)
LEMMA SaveType ==
    ASSUME snoozes \in SUBSET Snooze,
           NEW e \in Snooze, NEW fs, Save(e, fs)
    PROVE  snoozes' \in SUBSET Snooze
<1>1. DeleteSnooze(snoozes, e.watchdog, e.msg, e.thread) \subseteq snoozes
  BY DeleteShrinks
<1> QED BY <1>1 DEF Save, SaveSnooze, WithoutEntry

(* So does deleting one.                                                   *)
LEMMA DeleteType ==
    ASSUME snoozes \in SUBSET Snooze,
           NEW kind, NEW m, NEW t, NEW fs, Delete(kind, m, t, fs)
    PROVE  snoozes' \in SUBSET Snooze
<1>1. DeleteSnooze(snoozes, kind, m, t) \subseteq snoozes
  BY DeleteShrinks
<1> QED BY <1>1 DEF Delete

(* A write of a memory file keeps the type of the memory.                  *)
LEMMA WriteType ==
    ASSUME memory \in [Threads -> Memory],
           NEW t \in Threads, NEW new \in Memory, NEW fs,
           WriteMemory(t, new, fs)
    PROVE  memory' \in [Threads -> Memory]
<1>1. Torn \in Memory
  BY DEF Torn, Memory, Statuses
<1> QED BY <1>1 DEF WriteMemory

LEMMA SaveMemoryHistoryType ==
    ASSUME memory \in [Threads -> Memory],
           NEW t \in Threads, NEW turns \in SUBSET Msgs, NEW fs,
           SaveMemoryHistory(t, turns, fs)
    PROVE  memory' \in [Threads -> Memory]
<1> DEFINE new == [file |-> "ok", status |-> memory[t].status, turns |-> turns]
<1>1. new \in Memory
  BY DEF Memory
<1>2. CASE memory' = memory
  BY <1>2
<1>3. CASE WriteMemory(t, new, fs)
  <2> HIDE DEF new
  <2> QED BY <1>1, <1>3, WriteType
<1> QED BY <1>2, <1>3 DEF SaveMemoryHistory

LEMMA SetMemoryStatusType ==
    ASSUME memory \in [Threads -> Memory],
           NEW t \in Threads, NEW status \in Statuses, NEW fs,
           SetMemoryStatus(t, status, fs)
    PROVE  memory' \in [Threads -> Memory]
<1> DEFINE new == [file |-> "ok", status |-> status, turns |-> memory[t].turns]
<1>1. new \in Memory
  BY DEF Memory
<1>2. CASE memory' = memory
  BY <1>2
<1>3. CASE WriteMemory(t, new, fs)
  <2> HIDE DEF new
  <2> QED BY <1>1, <1>3, WriteType
<1> QED BY <1>2, <1>3 DEF SetMemoryStatus

(* A run starts on a message of the system.                                *)
LEMMA StartRunType ==
    ASSUME memory \in [Threads -> Memory],
           NEW kind \in {"mail", "schedule", "nudge"}, NEW t \in Threads,
           NEW m \in Msgs, NEW once \in BOOLEAN, StartRun(kind, t, m, once)
    PROVE  /\ history' \in SUBSET Msgs
           /\ run' \in Run
           /\ pc' = "run" /\ run' # NoRun
<1>1. run' = [kind |-> kind, msg |-> m, once |-> once,
              delivered |-> FALSE, statusSet |-> FALSE]
  BY DEF StartRun
<1>2. run' \in Run
  BY <1>1 DEF Run
<1>3. run'.kind # NoRun.kind
  BY <1>1 DEF NoRun
<1>4. Loaded(t) \subseteq Msgs
  BY DEF Loaded, Memory
<1> QED BY <1>2, <1>3, <1>4 DEF StartRun

(* While a run is in progress its record has the fields of one.            *)
LEMMA RunType ==
    ASSUME TypeOK, pc = "run"
    PROVE  /\ run \in Run
           /\ run.msg \in Msgs /\ run.once \in BOOLEAN
           /\ Root[run.msg] \in Threads
<1>1. run \in Run
  BY DEF TypeOK
<1> QED BY <1>1, RootAssumption DEF Run

LEMMA TypeInit == Init => TypeOK
<1> SUFFICES ASSUME Init PROVE TypeOK
  OBVIOUS
<1>1. memory \in [Threads -> Memory]
  BY DEF Init, Memory, Absent, Statuses
<1>2. /\ retries \in [Msgs -> 0..(MaxEmailRetries - 1)]
      /\ failedRuns \in [Msgs -> 0..(MaxEmailRetries + 1)]
      /\ nudges \in [Threads -> 0..(waitingWatchdogMaxFires + 1)]
      /\ failures \in 0..MaxFailures
  BY RetriesAssumption, MaxFiresAssumption, FailuresAssumption DEF Init
<1> QED BY <1>1, <1>2 DEF Init, TypeOK

LEMMA FailsType ==
    ASSUME failures \in 0..MaxFailures, NEW fs, Fails(fs)
    PROVE  failures' \in 0..MaxFailures /\ dead' \in BOOLEAN
BY FailuresAssumption DEF Fails

LEMMA SpendType ==
    ASSUME failures \in 0..MaxFailures, NEW fs, Spend(fs)
    PROVE  failures' \in 0..MaxFailures /\ dead' \in BOOLEAN /\ cut' = cut
BY FailsType DEF Spend

LEMMA CutShortType ==
    ASSUME cut \subseteq Threads, NEW t \in Threads, NEW fs, CutShort(t, fs)
    PROVE  cut' \subseteq Threads
BY DEF CutShort

(* The entries the handlers write have the type of an entry.               *)
LEMMA ArmType ==
    ASSUME TypeOK, pc = "run", NEW fs, ArmWaitingWatchdog(fs)
    PROVE  snoozes' \in SUBSET Snooze
<1>1. PICK n \in 0..waitingWatchdogMaxFires :
        Save([thread |-> Root[run.msg], msg |-> run.msg, watchdog |-> TRUE,
              once |-> TRUE, fires |-> n, due |-> FALSE], fs)
  <2>1. ArmedFires \subseteq 0..waitingWatchdogMaxFires
    BY DEF ArmedFires, FindWatchdogByThread, ByThread, TypeOK, Snooze
  <2>2. 0 \in 0..waitingWatchdogMaxFires
    BY MaxFiresAssumption
  <2> QED BY <2>1, <2>2 DEF ArmWaitingWatchdog
<1> DEFINE e == [thread |-> Root[run.msg], msg |-> run.msg, watchdog |-> TRUE,
                 once |-> TRUE, fires |-> n, due |-> FALSE]
<1>2. e \in Snooze
  BY RunType DEF Snooze
<1>3. Save(e, fs)
  BY <1>1
<1> HIDE DEF e
<1> QED BY <1>2, <1>3, SaveType DEF TypeOK

LEMMA ScheduleType ==
    ASSUME NEW m \in Msgs, NEW once \in BOOLEAN, NEW due \in BOOLEAN
    PROVE  [thread |-> Root[m], msg |-> m, watchdog |-> FALSE,
            once |-> once, fires |-> 0, due |-> due] \in Snooze
BY RootAssumption, MaxFiresAssumption DEF Snooze

LEMMA AdvanceType ==
    ASSUME TypeOK, pc = "run", NEW fs, AdvanceOrDeleteSnooze(fs)
    PROVE  snoozes' \in SUBSET Snooze
<1> DEFINE e == [thread |-> Root[run.msg], msg |-> run.msg, watchdog |-> FALSE,
                 once |-> FALSE, fires |-> 0, due |-> FALSE]
<1>1. e \in Snooze
  BY RunType, ScheduleType
<1>2. Delete(FALSE, run.msg, Root[run.msg], fs) \/ Save(e, fs)
  BY DEF AdvanceOrDeleteSnooze
<1> HIDE DEF e
<1> QED BY <1>1, <1>2, SaveType, DeleteType DEF TypeOK

(* Every step keeps the types.                                             *)
LEMMA TypeStep == TypeOK /\ [Next]_vars => TypeOK'
<1> SUFFICES ASSUME TypeOK, [Next]_vars
             PROVE  TypeOK'
  OBVIOUS
<1> USE RootAssumption, RetriesAssumption, MaxFiresAssumption, FailuresAssumption
<1>1. ASSUME NEW m \in Msgs, Arrive(m) PROVE TypeOK'
  BY <1>1 DEF TypeOK, Arrive
<1>2. CASE Poll
  BY <1>2 DEF TypeOK, Poll
<1>3. ASSUME NEW m \in Msgs, HandleAutoReply(m) PROVE TypeOK'
  <2>1. PICK fs :
          /\ Fails(fs) /\ CutShort(Root[m], fs)
          /\ NotifyUpstream(m, fs)
          /\ snoozes' \subseteq snoozes
          /\ \/ UNCHANGED memory
             \/ WriteMemory(Root[m], [file   |-> "ok",
                                      status |-> "none",
                                      turns  |-> memory[Root[m]].turns \cup {m}], fs)
          /\ seen' \subseteq seen \cup {m}
    BY <1>3 DEF HandleAutoReply, AbortThreadSnoozes
  <2>2. memory' \in [Threads -> Memory]
    <3> DEFINE new == [file   |-> "ok", status |-> "none",
                       turns  |-> memory[Root[m]].turns \cup {m}]
    <3>1. new \in Memory
      BY DEF TypeOK, Memory, Statuses
    <3>2. UNCHANGED memory \/ WriteMemory(Root[m], new, fs)
      BY <2>1
    <3> HIDE DEF new
    <3> QED BY <3>1, <3>2, WriteType DEF TypeOK
  <2>3. notified' \subseteq Msgs
    <3>1. Upstream(m) \subseteq Msgs
      BY RefsAssumption DEF Upstream, InInbox, TypeOK
    <3> QED BY <2>1, <3>1 DEF NotifyUpstream, Notify, TypeOK
  <2>4. failures' \in 0..MaxFailures /\ dead' \in BOOLEAN /\ cut' \subseteq Threads
    BY <2>1, FailsType, CutShortType DEF TypeOK
  <2> QED BY <1>3, <2>1, <2>2, <2>3, <2>4 DEF HandleAutoReply, Take, TypeOK
<1>4. ASSUME NEW m \in Msgs, Reject(m) PROVE TypeOK'
  BY <1>4, SpendType DEF Reject, Take, SendBounce, TypeOK
<1>5. ASSUME NEW m \in Msgs, Demo(m) PROVE TypeOK'
  BY <1>5, SpendType DEF Demo, Take, TypeOK
<1>6. ASSUME NEW m \in Msgs, StartMail(m) PROVE TypeOK'
  <2>1. Fetched(m) \subseteq Msgs
    BY RefsAssumption DEF Fetched, InInbox
  <2>2. memory' \in [Threads -> Memory]
    BY <1>6, <2>1 DEF StartMail, Rebuilt, Memory, Statuses, TypeOK
  <2>3. /\ history' \in SUBSET Msgs
        /\ run' \in Run
        /\ pc' = "run" /\ run' # NoRun
    BY <1>6, StartRunType DEF StartMail, TypeOK
  <2> QED BY <1>6, <2>2, <2>3 DEF StartMail, ForModel, Take, TypeOK
<1>7. ASSUME NEW m \in Msgs, SkipMail(m) PROVE TypeOK'
  <2>1. Rebuilt(m) \in Memory /\ Torn \in Memory
    BY RefsAssumption DEF Rebuilt, Fetched, InInbox, Torn, Memory, Statuses
  <2>2. memory' \in [Threads -> Memory]
    BY <1>7, <2>1 DEF SkipMail, TypeOK
  <2>3. failures' \in 0..MaxFailures /\ dead' \in BOOLEAN /\ cut' = cut
    BY <1>7, SpendType DEF SkipMail, TypeOK
  <2> QED BY <1>7, <2>2, <2>3 DEF SkipMail, ForModel, Take, TypeOK
<1>8. CASE FinishBatch
  BY <1>8, SpendType DEF FinishBatch, Finished, TypeOK
<1>9. CASE MailAnswered
  <2>1. PICK fs :
          Spend(fs) /\ SaveMemoryHistory(Root[run.msg], history, fs)
    BY <1>9 DEF MailAnswered
  <2>2. run.msg \in Msgs /\ Root[run.msg] \in Threads
    BY <1>9, RunType DEF MailAnswered, Running
  <2>3. memory' \in [Threads -> Memory]
    BY <2>1, <2>2, SaveMemoryHistoryType DEF TypeOK
  <2> QED BY <1>9, <2>1, <2>2, <2>3, SpendType DEF MailAnswered, EndRun, TypeOK
<1>10. CASE MailMaxTurns
  <2>1. PICK fs :
          /\ Spend(fs)
          /\ SaveMemoryHistory(Root[run.msg], history, fs)
          /\ processed' \subseteq processed \cup {run.msg}
          /\ answered' \subseteq answered \cup {run.msg}
          /\ seen' \subseteq seen \cup {run.msg}
          /\ notified' \subseteq notified \cup {run.msg}
    BY <1>10 DEF MailMaxTurns, SendBounce
  <2>2. run.msg \in Msgs /\ Root[run.msg] \in Threads
    BY <1>10, RunType DEF MailMaxTurns, Running
  <2>3. memory' \in [Threads -> Memory]
    BY <2>1, <2>2, SaveMemoryHistoryType DEF TypeOK
  <2> QED BY <1>10, <2>1, <2>2, <2>3, SpendType DEF MailMaxTurns, EndRun, TypeOK
<1>11. CASE MailFailed
  <2>1. PICK fs :
          /\ Spend(fs)
          /\ SaveMemoryHistory(Root[run.msg], history, fs)
          /\ processed' \subseteq processed \cup {run.msg}
          /\ seen' \subseteq seen \cup {run.msg}
          /\ notified' \subseteq notified \cup {run.msg}
          /\ \/ retries' = [retries EXCEPT ![run.msg] = 0]
             \/ /\ ~BudgetSpent(run.msg)
                /\ retries' = [retries EXCEPT ![run.msg] = @ + 1]
    BY <1>11 DEF MailFailed, SendBounce
  <2>2. run.msg \in Msgs /\ Root[run.msg] \in Threads
    BY <1>11, RunType DEF MailFailed, Running
  <2>3. memory' \in [Threads -> Memory]
    BY <2>1, <2>2, SaveMemoryHistoryType DEF TypeOK
  <2>4. retries' \in [Msgs -> 0..(MaxEmailRetries - 1)]
    BY <2>1, <2>2 DEF BudgetSpent, TypeOK
  <2>5. failedRuns' \in [Msgs -> 0..(MaxEmailRetries + 1)]
    BY <1>11, <2>2 DEF MailFailed, Bump, TypeOK
  <2> QED BY <1>11, <2>1, <2>2, <2>3, <2>4, <2>5, SpendType
          DEF MailFailed, EndRun, TypeOK
<1>12. CASE Deliver
  <2>1. run' \in Run /\ run' # NoRun
    BY <1>12, RunType DEF Deliver, Run, NoRun
  <2> QED BY <1>12, <2>1 DEF Deliver, TypeOK
<1>13. ASSUME NEW m \in Msgs, NEW s \in Statuses \ {"none"}, SetTaskStatus(m, s)
       PROVE  TypeOK'
  <2>1. PICK fs :
          /\ Fails(fs)
          /\ cut' = cut \ {Root[run.msg]} \/ CutShort(Root[run.msg], fs)
          /\ SetMemoryStatus(Root[m], s, fs)
          /\ ArmWaitingWatchdog(fs) \/ UNCHANGED snoozes
    BY <1>13 DEF SetTaskStatus
  <2>2. PICK b \in BOOLEAN : run' = [run EXCEPT !.statusSet = b]
    BY <1>13, RunType DEF SetTaskStatus, Run
  <2>3. run' \in Run /\ run' # NoRun
    BY <1>13, <2>2, RunType DEF SetTaskStatus, Run, NoRun
  <2>4. memory' \in [Threads -> Memory]
    BY <2>1, SetMemoryStatusType DEF TypeOK
  <2>5. snoozes' \in SUBSET Snooze
    BY <1>13, <2>1, ArmType DEF SetTaskStatus, TypeOK
  <2>6. nudges' \in [Threads -> 0..(waitingWatchdogMaxFires + 1)]
    BY <1>13, RunType DEF SetTaskStatus, TypeOK
  <2>7. failures' \in 0..MaxFailures /\ dead' \in BOOLEAN /\ cut' \subseteq Threads
    BY <1>13, <2>1, RunType, FailsType, CutShortType DEF SetTaskStatus, TypeOK
  <2> QED BY <1>13, <2>1, <2>3, <2>4, <2>5, <2>6, <2>7 DEF SetTaskStatus, TypeOK
<1>14. ASSUME NEW m \in Msgs, NEW once \in OnceChoices, SnoozeTool(m, once)
       PROVE  TypeOK'
  <2>1. PICK due \in BOOLEAN, fs \in Failing(SnoozeCalls) :
          /\ Spend(fs)
          /\ Save([thread |-> Root[m], msg |-> m, watchdog |-> FALSE,
                   once |-> once, fires |-> 0, due |-> due], fs)
    BY <1>14 DEF SnoozeTool
  <2> DEFINE e == [thread |-> Root[m], msg |-> m, watchdog |-> FALSE,
                   once |-> once, fires |-> 0, due |-> due]
  <2>2. e \in Snooze
    BY ScheduleType, ChoicesAssumption
  <2>3. Save(e, fs)
    BY <2>1
  <2>4. snoozes' \in SUBSET Snooze
    <3> HIDE DEF e
    <3> QED BY <2>2, <2>3, SaveType DEF TypeOK
  <2> QED BY <1>14, <2>1, <2>4, SpendType DEF SnoozeTool, TypeOK
<1>15. ASSUME NEW m \in Msgs, UnsnoozeTool(m) PROVE TypeOK'
  BY <1>15, DeleteType DEF UnsnoozeTool, TypeOK
<1>16. ASSUME NEW e \in snoozes, RunSnooze(e) PROVE TypeOK'
  <2>1. e \in Snooze
    BY DEF TypeOK
  <2>2. e.thread \in Threads /\ e.msg \in Msgs /\ e.once \in BOOLEAN
    BY <2>1 DEF Snooze
  <2>3. /\ history' \in SUBSET Msgs
        /\ run' \in Run
        /\ pc' = "run" /\ run' # NoRun
    BY <1>16, <2>2, StartRunType DEF RunSnooze, TypeOK
  <2> QED BY <1>16, <2>3 DEF RunSnooze, TypeOK
<1>17. ASSUME NEW e \in snoozes, SnoozeUnreadable(e) PROVE TypeOK'
  BY <1>17, SpendType DEF SnoozeUnreadable, Drain, TypeOK
<1>18. CASE ScheduledAnswered
  <2>1. PICK fs :
          /\ Spend(fs)
          /\ SaveMemoryHistory(Root[run.msg], history, fs)
          /\ AdvanceOrDeleteSnooze(fs)
    BY <1>18 DEF ScheduledAnswered
  <2>2. Root[run.msg] \in Threads
    BY <1>18, RunType DEF ScheduledAnswered, Running
  <2>3. memory' \in [Threads -> Memory]
    BY <2>1, <2>2, SaveMemoryHistoryType DEF TypeOK
  <2>4. snoozes' \in SUBSET Snooze
    BY <1>18, <2>1, AdvanceType DEF ScheduledAnswered, Running
  <2> QED BY <1>18, <2>1, <2>3, <2>4, SpendType
          DEF ScheduledAnswered, EndRun, TypeOK
<1>19. CASE ScheduledMaxTurns
  <2>1. PICK fs :
          /\ Spend(fs)
          /\ SaveMemoryHistory(Root[run.msg], history, fs)
          /\ seen' \subseteq seen \cup {run.msg}
          /\ notified' \subseteq notified \cup {run.msg}
          /\ AdvanceOrDeleteSnooze(fs)
    BY <1>19 DEF ScheduledMaxTurns, SendBounce
  <2>2. run.msg \in Msgs /\ Root[run.msg] \in Threads
    BY <1>19, RunType DEF ScheduledMaxTurns, Running
  <2>3. memory' \in [Threads -> Memory]
    BY <2>1, <2>2, SaveMemoryHistoryType DEF TypeOK
  <2>4. snoozes' \in SUBSET Snooze
    BY <1>19, <2>1, AdvanceType DEF ScheduledMaxTurns, Running
  <2> QED BY <1>19, <2>1, <2>2, <2>3, <2>4, SpendType
          DEF ScheduledMaxTurns, EndRun, TypeOK
<1>20. CASE ScheduledFailed
  <2>1. PICK fs :
          Spend(fs) /\ SaveMemoryHistory(Root[run.msg], history, fs)
    BY <1>20 DEF ScheduledFailed
  <2>2. Root[run.msg] \in Threads
    BY <1>20, RunType DEF ScheduledFailed, Running
  <2>3. memory' \in [Threads -> Memory]
    BY <2>1, <2>2, SaveMemoryHistoryType DEF TypeOK
  <2> QED BY <1>20, <2>1, <2>3, SpendType DEF ScheduledFailed, EndRun, TypeOK
<1>21. ASSUME NEW e \in snoozes, WatchdogUnreadable(e) PROVE TypeOK'
  <2>1. PICK fs : Fails(fs) /\ Save(Rescheduled(e), fs) /\ CutShort(e.thread, fs)
    BY <1>21 DEF WatchdogUnreadable
  <2>2. Rescheduled(e) \in Snooze /\ e.thread \in Threads
    BY DEF Rescheduled, Snooze, TypeOK
  <2>3. snoozes' \in SUBSET Snooze
    BY <2>1, <2>2, SaveType DEF TypeOK
  <2>4. failures' \in 0..MaxFailures /\ dead' \in BOOLEAN /\ cut' \subseteq Threads
    BY <2>1, <2>2, FailsType, CutShortType DEF TypeOK
  <2> QED BY <1>21, <2>1, <2>3, <2>4 DEF WatchdogUnreadable, TypeOK
<1>22. ASSUME NEW e \in snoozes, StandDown(e) PROVE TypeOK'
  BY <1>22, SpendType, DeleteType DEF StandDown, TypeOK
<1>23. ASSUME NEW e \in snoozes, GiveUp(e) PROVE TypeOK'
  <2>1. PICK fs :
          /\ Spend(fs)
          /\ seen' \subseteq seen \cup {e.msg}
          /\ notified' \subseteq notified \cup {e.msg}
          /\ SetMemoryStatus(Root[e.msg], "error", fs)
          /\ Delete(TRUE, e.msg, e.thread, fs)
    BY <1>23 DEF GiveUp, SendBounce
  <2>2. e.msg \in Msgs /\ Root[e.msg] \in Threads
    BY DEF TypeOK, Snooze
  <2>3. memory' \in [Threads -> Memory]
    BY <2>1, <2>2, SetMemoryStatusType DEF TypeOK, Statuses
  <2>4. snoozes' \in SUBSET Snooze
    BY <2>1, DeleteType DEF TypeOK
  <2> QED BY <1>23, <2>1, <2>2, <2>3, <2>4, SpendType DEF GiveUp, TypeOK
<1>24. ASSUME NEW e \in snoozes, Nudge(e) PROVE TypeOK'
  <2>1. PICK fs : /\ Fails(fs) /\ CutShort(e.thread, fs)
                  /\ Save([Rescheduled(e) EXCEPT !.fires = @ + 1], fs)
    BY <1>24 DEF Nudge
  <2>2. e \in Snooze /\ e.thread \in Threads /\ e.msg \in Msgs
    BY DEF TypeOK, Snooze
  <2>3. [Rescheduled(e) EXCEPT !.fires = @ + 1] \in Snooze
    <3>1. e.fires \in 0..waitingWatchdogMaxFires /\ e.fires < waitingWatchdogMaxFires
      BY <1>24, <2>2 DEF Nudge, Snooze
    <3>2. e.fires + 1 \in 0..waitingWatchdogMaxFires
      BY <3>1
    <3>3. Rescheduled(e) \in Snooze /\ Rescheduled(e).fires = e.fires
      BY <2>2 DEF Rescheduled, Snooze
    <3> QED BY <3>2, <3>3 DEF Snooze
  <2>4. snoozes' \in SUBSET Snooze
    BY <2>1, <2>3, SaveType DEF TypeOK
  <2>5. /\ history' \in SUBSET Msgs
        /\ run' \in Run
        /\ pc' = "run" /\ run' # NoRun
    BY <1>24, <2>2, StartRunType DEF Nudge, TypeOK
  <2>6. nudges' \in [Threads -> 0..(waitingWatchdogMaxFires + 1)]
    <3>1. \A n \in 0..(waitingWatchdogMaxFires + 1) :
            Bump(n, waitingWatchdogMaxFires + 1) \in 0..(waitingWatchdogMaxFires + 1)
      BY DEF Bump
    <3> QED BY <1>24, <2>2, <3>1 DEF Nudge, TypeOK
  <2>7. failures' \in 0..MaxFailures /\ dead' \in BOOLEAN /\ cut' \subseteq Threads
    BY <2>1, <2>2, FailsType, CutShortType DEF TypeOK
  <2> QED BY <1>24, <2>1, <2>4, <2>5, <2>6, <2>7 DEF Nudge, TypeOK
<1>25. CASE NudgeDone
  <2>1. PICK fs :
          /\ Spend(fs)
          /\ SaveMemoryHistory(Root[run.msg], history, fs)
          /\ UNCHANGED snoozes \/ Delete(TRUE, run.msg, Root[run.msg], fs)
    BY <1>25 DEF NudgeDone
  <2>2. Root[run.msg] \in Threads
    BY <1>25, RunType DEF NudgeDone, Running
  <2>3. memory' \in [Threads -> Memory]
    BY <2>1, <2>2, SaveMemoryHistoryType DEF TypeOK
  <2>4. snoozes' \in SUBSET Snooze
    BY <2>1, DeleteType DEF TypeOK
  <2> QED BY <1>25, <2>1, <2>3, <2>4, SpendType DEF NudgeDone, EndRun, TypeOK
<1>26. CASE EndPoll
  BY <1>26 DEF EndPoll, TypeOK
<1>27. ASSUME NEW t \in Threads, NEW kind \in BOOLEAN, Tick(t, kind)
       PROVE  TypeOK'
  BY <1>27 DEF Tick, ByThread, Snooze, TypeOK
<1>28. CASE Crash \/ Restart
  <2>1. Restarted /\ failures' \in 0..MaxFailures
    BY <1>28 DEF Crash, Restart, TypeOK
  <2>2. /\ retries' \in [Msgs -> 0..(MaxEmailRetries - 1)]
        /\ failedRuns' \in [Msgs -> 0..(MaxEmailRetries + 1)]
    BY <2>1 DEF Restarted
  <2> QED BY <2>1, <2>2 DEF Restarted, TypeOK
<1>29. CASE UNCHANGED vars
  BY <1>29 DEF TypeOK
<1> QED
  BY <1>1, <1>2, <1>3, <1>4, <1>5, <1>6, <1>7, <1>8, <1>9, <1>10, <1>11, <1>12,
     <1>13, <1>14, <1>15, <1>16, <1>17, <1>18, <1>19, <1>20, <1>21, <1>22, <1>23,
     <1>24, <1>25, <1>26, <1>27, <1>28, <1>29
     DEF Next, MailStep, ToolCall, RunEnds, SnoozeStep

(* The types hold in every reachable state.                                *)
THEOREM TypeCorrect == Spec => []TypeOK
BY TypeInit, TypeStep, PTL DEF Spec

-----------------------------------------------------------------------------
(* The snooze file is well-formed, whatever calls fail.                    *)

LEMMA OneEntryIsWellFormed ==
    OneEntryPerThreadAndKind <=> WellFormed(snoozes, Root)
BY DEF OneEntryPerThreadAndKind, WellFormed

(* An entry saved under the thread of its message keeps the file           *)
(* well-formed even when the save fails.                                   *)
LEMMA SaveWellFormed ==
    ASSUME WellFormed(snoozes, Root), NEW e, e.thread = Root[e.msg],
           NEW fs, Save(e, fs)
    PROVE  WellFormed(snoozes', Root)
<1>1. WellFormed(SaveSnooze(snoozes, e), Root)
  BY SaveKeepsWellFormed
<1>2. DeleteSnooze(snoozes, e.watchdog, e.msg, e.thread) \in SUBSET snoozes
  BY DeleteShrinks
<1>3. WellFormed(DeleteSnooze(snoozes, e.watchdog, e.msg, e.thread), Root)
  BY <1>2, ShrinkKeepsWellFormed
<1> QED BY <1>1, <1>3 DEF Save, WithoutEntry

LEMMA DeleteWellFormed ==
    ASSUME WellFormed(snoozes, Root), NEW kind, NEW m, NEW t, NEW fs,
           Delete(kind, m, t, fs)
    PROVE  WellFormed(snoozes', Root)
<1>1. snoozes' \in SUBSET snoozes
  BY DeleteShrinks DEF Delete
<1> QED BY <1>1, ShrinkKeepsWellFormed

LEMMA ArmWellFormed ==
    ASSUME WellFormed(snoozes, Root), NEW fs, ArmWaitingWatchdog(fs)
    PROVE  WellFormed(snoozes', Root)
<1>1. PICK n :
        Save([thread |-> Root[run.msg], msg |-> run.msg, watchdog |-> TRUE,
              once |-> TRUE, fires |-> n, due |-> FALSE], fs)
  BY DEF ArmWaitingWatchdog
<1> DEFINE e == [thread |-> Root[run.msg], msg |-> run.msg, watchdog |-> TRUE,
                 once |-> TRUE, fires |-> n, due |-> FALSE]
<1>2. e.thread = Root[e.msg] /\ Save(e, fs)
  BY <1>1
<1> HIDE DEF e
<1> QED BY <1>2, SaveWellFormed

LEMMA AdvanceWellFormed ==
    ASSUME WellFormed(snoozes, Root), NEW fs, AdvanceOrDeleteSnooze(fs)
    PROVE  WellFormed(snoozes', Root)
<1> DEFINE e == [thread |-> Root[run.msg], msg |-> run.msg, watchdog |-> FALSE,
                 once |-> FALSE, fires |-> 0, due |-> FALSE]
<1>1. Delete(FALSE, run.msg, Root[run.msg], fs) \/ Save(e, fs)
  BY DEF AdvanceOrDeleteSnooze
<1>2. e.thread = Root[e.msg]
  OBVIOUS
<1> HIDE DEF e
<1> QED BY <1>1, <1>2, SaveWellFormed, DeleteWellFormed

(* Every step keeps the file well-formed.                                  *)
LEMMA OneEntryStep ==
    TypeOK /\ OneEntryPerThreadAndKind /\ [Next]_vars => OneEntryPerThreadAndKind'
<1> SUFFICES ASSUME TypeOK, WellFormed(snoozes, Root), [Next]_vars
             PROVE  WellFormed(snoozes', Root)
  BY OneEntryIsWellFormed DEF OneEntryPerThreadAndKind, WellFormed
<1>1. ASSUME UNCHANGED snoozes PROVE WellFormed(snoozes', Root)
  BY <1>1
<1>2. ASSUME NEW m \in Msgs, HandleAutoReply(m) PROVE WellFormed(snoozes', Root)
  <2>1. snoozes' \in SUBSET snoozes
    BY <1>2 DEF HandleAutoReply, AbortThreadSnoozes
  <2> QED BY <2>1, ShrinkKeepsWellFormed
<1>3. ASSUME NEW m \in Msgs, NEW s, SetTaskStatus(m, s)
      PROVE  WellFormed(snoozes', Root)
  <2>1. \/ UNCHANGED snoozes
        \/ \E fs : ArmWaitingWatchdog(fs)
    BY <1>3 DEF SetTaskStatus
  <2> QED BY <1>1, <2>1, ArmWellFormed
<1>4. ASSUME NEW m \in Msgs, NEW once, SnoozeTool(m, once)
      PROVE  WellFormed(snoozes', Root)
  <2>1. PICK due, fs :
          Save([thread |-> Root[m], msg |-> m, watchdog |-> FALSE,
                once |-> once, fires |-> 0, due |-> due], fs)
    BY <1>4 DEF SnoozeTool
  <2> DEFINE e == [thread |-> Root[m], msg |-> m, watchdog |-> FALSE,
                   once |-> once, fires |-> 0, due |-> due]
  <2>2. e.thread = Root[e.msg] /\ Save(e, fs)
    BY <2>1
  <2> HIDE DEF e
  <2> QED BY <2>2, SaveWellFormed
<1>5. ASSUME NEW m \in Msgs, UnsnoozeTool(m) PROVE WellFormed(snoozes', Root)
  BY <1>5, DeleteWellFormed DEF UnsnoozeTool
<1>6. CASE ScheduledAnswered
  BY <1>6, AdvanceWellFormed DEF ScheduledAnswered
<1>7. CASE ScheduledMaxTurns
  BY <1>7, AdvanceWellFormed DEF ScheduledMaxTurns
<1>8. ASSUME NEW e \in snoozes
      PROVE  /\ Rescheduled(e).thread = Root[Rescheduled(e).msg]
             /\ [Rescheduled(e) EXCEPT !.fires = @ + 1].thread
                  = Root[[Rescheduled(e) EXCEPT !.fires = @ + 1].msg]
  <2>1. e \in Snooze /\ e.thread = Root[e.msg]
    BY DEF TypeOK, WellFormed
  <2> QED BY <2>1 DEF Rescheduled, Snooze
<1>9. ASSUME NEW e \in snoozes, WatchdogUnreadable(e)
      PROVE  WellFormed(snoozes', Root)
  <2>1. PICK fs : Save(Rescheduled(e), fs)
    BY <1>9 DEF WatchdogUnreadable
  <2> QED BY <1>8, <2>1, SaveWellFormed
<1>10. ASSUME NEW e \in snoozes, StandDown(e) PROVE WellFormed(snoozes', Root)
  BY <1>10, DeleteWellFormed DEF StandDown
<1>11. ASSUME NEW e \in snoozes, GiveUp(e) PROVE WellFormed(snoozes', Root)
  BY <1>11, DeleteWellFormed DEF GiveUp
<1>12. ASSUME NEW e \in snoozes, Nudge(e) PROVE WellFormed(snoozes', Root)
  <2>1. PICK fs : Save([Rescheduled(e) EXCEPT !.fires = @ + 1], fs)
    BY <1>12 DEF Nudge
  <2> QED BY <1>8, <2>1, SaveWellFormed
<1>13. CASE NudgeDone
  BY <1>1, <1>13, DeleteWellFormed DEF NudgeDone
<1>14. ASSUME NEW t \in Threads, NEW kind \in BOOLEAN, Tick(t, kind)
       PROVE  WellFormed(snoozes', Root)
  <2>1. PICK e \in snoozes :
          snoozes' = (snoozes \ {e}) \cup {[e EXCEPT !.due = TRUE]}
    BY <1>14 DEF Tick, ByThread
  <2> DEFINE d == [e EXCEPT !.due = TRUE]
  <2>2. d.thread = e.thread /\ d.msg = e.msg /\ d.watchdog = e.watchdog
    BY DEF TypeOK, Snooze
  <2>3. snoozes' = (snoozes \ {e}) \cup {d}
    BY <2>1
  <2> HIDE DEF d
  <2>4. \A f \in snoozes' : f.thread = Root[f.msg]
    BY <2>2, <2>3 DEF WellFormed
  <2>5. \A f, g \in snoozes' :
          f.thread = g.thread /\ f.watchdog = g.watchdog => f = g
    <3> SUFFICES ASSUME NEW f \in snoozes', NEW g \in snoozes',
                        f.thread = g.thread, f.watchdog = g.watchdog
                 PROVE  f = g
      OBVIOUS
    <3>1. CASE f \in snoozes \ {e} /\ g \in snoozes \ {e}
      BY <3>1 DEF WellFormed
    <3>2. CASE f = d /\ g = d
      BY <3>2
    <3>3. ASSUME NEW h \in snoozes \ {e},
                 h.thread = d.thread, h.watchdog = d.watchdog
          PROVE  FALSE
      BY <2>2, <3>3 DEF WellFormed
    <3> QED BY <2>3, <3>1, <3>2, <3>3
  <2> QED BY <2>4, <2>5 DEF WellFormed
<1>15. ASSUME \/ \E m \in Msgs : \/ Arrive(m) \/ Reject(m) \/ Demo(m)
                                 \/ StartMail(m) \/ SkipMail(m)
              \/ Poll \/ FinishBatch \/ MailAnswered \/ MailMaxTurns \/ MailFailed
              \/ Deliver \/ ScheduledFailed \/ EndPoll \/ Crash \/ Restart
              \/ \E e \in snoozes : RunSnooze(e) \/ SnoozeUnreadable(e)
              \/ UNCHANGED vars
       PROVE  UNCHANGED snoozes
  BY <1>15 DEF Arrive, Reject, Demo, StartMail, SkipMail, Poll, FinishBatch,
               MailAnswered, MailMaxTurns, MailFailed, Deliver, ScheduledFailed,
               EndPoll, Crash, Restart, Restarted, RunSnooze, SnoozeUnreadable
<1> QED
  BY <1>1, <1>2, <1>3, <1>4, <1>5, <1>6, <1>7, <1>9, <1>10, <1>11, <1>12,
     <1>13, <1>14, <1>15
     DEF Next, MailStep, ToolCall, RunEnds, SnoozeStep

(* At most one entry of each kind per thread, filed under the thread of    *)
(* its message: SaveSnooze and DeleteSnooze keep this through every        *)
(* handler, failed write and restart.                                      *)
THEOREM SnoozeFileWellFormed == Spec => []OneEntryPerThreadAndKind
<1>1. Init => OneEntryPerThreadAndKind
  BY DEF Init, OneEntryPerThreadAndKind
<1> QED BY <1>1, TypeCorrect, OneEntryStep, PTL DEF Spec

-----------------------------------------------------------------------------
(* Histories do not mix.                                                   *)

(* Every memory file holds turns of its own thread only.                   *)
FilesIsolated == \A t \in Threads : \A m \in memory[t].turns : Root[m] = t

LEMMA WriteIsolated ==
    ASSUME TypeOK, FilesIsolated, NEW t \in Threads, NEW new, NEW fs,
           \A m \in new.turns : Root[m] = t, WriteMemory(t, new, fs)
    PROVE  FilesIsolated'
<1>1. \A m \in Torn.turns : Root[m] = t
  BY DEF Torn
<1> QED BY <1>1 DEF WriteMemory, FilesIsolated, TypeOK

LEMMA SaveMemoryHistoryIsolated ==
    ASSUME TypeOK, FilesIsolated, NEW t \in Threads, NEW turns, NEW fs,
           \A m \in turns : Root[m] = t, SaveMemoryHistory(t, turns, fs)
    PROVE  FilesIsolated'
<1> DEFINE new == [file |-> "ok", status |-> memory[t].status, turns |-> turns]
<1>1. UNCHANGED memory \/ WriteMemory(t, new, fs)
  BY DEF SaveMemoryHistory
<1>2. \A m \in new.turns : Root[m] = t
  OBVIOUS
<1> HIDE DEF new
<1> QED BY <1>1, <1>2, WriteIsolated DEF FilesIsolated

LEMMA SetMemoryStatusIsolated ==
    ASSUME TypeOK, FilesIsolated, NEW t \in Threads, NEW status, NEW fs,
           SetMemoryStatus(t, status, fs)
    PROVE  FilesIsolated'
<1> DEFINE new == [file |-> "ok", status |-> status, turns |-> memory[t].turns]
<1>1. UNCHANGED memory \/ WriteMemory(t, new, fs)
  BY DEF SetMemoryStatus
<1>2. \A m \in new.turns : Root[m] = t
  BY DEF FilesIsolated
<1> HIDE DEF new
<1> QED BY <1>1, <1>2, WriteIsolated DEF FilesIsolated

(* A run is started on the turns of its own thread.                        *)
LEMMA StartRunIsolated ==
    ASSUME FilesIsolated, NEW t \in Threads, NEW m, Root[m] = t,
           NEW kind, NEW once, StartRun(kind, t, m, once)
    PROVE  \A n \in history' : Root[n] = Root[run'.msg]
<1>1. run'.msg = m /\ history' = Loaded(t) \cup {m}
  BY DEF StartRun
<1>2. \A n \in Loaded(t) : Root[n] = t
  BY DEF Loaded, FilesIsolated
<1> QED BY <1>1, <1>2

(* What a run saves at its end are turns of its own thread.                *)
LEMMA EndRunIsolated ==
    ASSUME TypeOK, HistoryIsolated, pc = "run", NEW fs,
           SaveMemoryHistory(Root[run.msg], history, fs)
    PROVE  FilesIsolated'
<1>1. FilesIsolated /\ \A m \in history : Root[m] = Root[run.msg]
  BY DEF HistoryIsolated, FilesIsolated
<1> QED BY <1>1, RunType, SaveMemoryHistoryIsolated

LEMMA HistoryStep ==
    TypeOK /\ OneEntryPerThreadAndKind /\ HistoryIsolated /\ [Next]_vars
      => HistoryIsolated'
<1> SUFFICES ASSUME TypeOK, OneEntryPerThreadAndKind, HistoryIsolated, [Next]_vars
             PROVE  HistoryIsolated'
  OBVIOUS
<1> USE RootAssumption, RefsAssumption
<1>1. FilesIsolated /\ (pc = "run" => \A m \in history : Root[m] = Root[run.msg])
  BY DEF HistoryIsolated, FilesIsolated
<1>2. ASSUME FilesIsolated', pc' # "run" PROVE HistoryIsolated'
  BY <1>2 DEF FilesIsolated, HistoryIsolated
<1>3. ASSUME NEW m \in Msgs, HandleAutoReply(m) PROVE HistoryIsolated'
  <2> DEFINE new == [file   |-> "ok", status |-> "none",
                     turns  |-> memory[Root[m]].turns \cup {m}]
  <2>1. PICK fs : UNCHANGED memory \/ WriteMemory(Root[m], new, fs)
    BY <1>3 DEF HandleAutoReply
  <2>2. \A n \in new.turns : Root[n] = Root[m]
    BY <1>1 DEF FilesIsolated
  <2>3. FilesIsolated'
    <3> HIDE DEF new
    <3> QED BY <1>1, <2>1, <2>2, WriteIsolated DEF FilesIsolated
  <2> QED BY <1>2, <1>3, <2>3 DEF HandleAutoReply, Take
<1>4. ASSUME NEW m \in Msgs, StartMail(m) PROVE HistoryIsolated'
  <2>1. \A n \in Rebuilt(m).turns : Root[n] = Root[m]
    BY DEF Rebuilt, Fetched, InInbox
  <2>2. FilesIsolated'
    BY <1>1, <1>4, <2>1 DEF StartMail, FilesIsolated, TypeOK
  <2>3. \A n \in history' : Root[n] = Root[run'.msg]
    BY <1>1, <1>4, StartRunIsolated DEF StartMail
  <2> QED BY <2>2, <2>3 DEF HistoryIsolated, FilesIsolated
<1>5. ASSUME NEW m \in Msgs, SkipMail(m) PROVE HistoryIsolated'
  <2>1. \A n \in Rebuilt(m).turns \cup Torn.turns : Root[n] = Root[m]
    BY DEF Rebuilt, Fetched, InInbox, Torn
  <2>2. PICK new \in {memory[Root[m]], Torn, Rebuilt(m)} :
          memory' \in {memory, [memory EXCEPT ![Root[m]] = new]}
    BY <1>5, Zenon DEF SkipMail
  <2>3. \A n \in new.turns : Root[n] = Root[m]
    BY <1>1, <2>1, <2>2 DEF FilesIsolated
  <2>4. FilesIsolated'
    BY <1>1, <2>2, <2>3 DEF FilesIsolated, TypeOK
  <2> QED BY <1>2, <1>5, <2>4 DEF SkipMail, ForModel, Take
<1>6. ASSUME \/ MailAnswered \/ MailMaxTurns \/ MailFailed
             \/ ScheduledAnswered \/ ScheduledMaxTurns \/ ScheduledFailed
             \/ NudgeDone
      PROVE  HistoryIsolated'
  <2>1. /\ pc = "run" /\ pc' # "run"
        /\ \E fs : SaveMemoryHistory(Root[run.msg], history, fs)
    BY <1>6 DEF MailAnswered, MailMaxTurns, MailFailed, ScheduledAnswered,
                ScheduledMaxTurns, ScheduledFailed, NudgeDone, Running, EndRun
  <2> QED BY <1>2, <2>1, EndRunIsolated
<1>7. ASSUME NEW m \in Msgs, NEW s, SetTaskStatus(m, s) PROVE HistoryIsolated'
  <2>1. FilesIsolated'
    BY <1>1, <1>7, SetMemoryStatusIsolated DEF SetTaskStatus
  <2>2. UNCHANGED <<history, pc>> /\ run'.msg = run.msg /\ pc = "run"
    BY <1>7, RunType DEF SetTaskStatus, Run
  <2> QED BY <1>1, <2>1, <2>2 DEF HistoryIsolated, FilesIsolated
<1>8. CASE Deliver
  <2>1. UNCHANGED <<history, pc, memory>> /\ run'.msg = run.msg /\ pc = "run"
    BY <1>8, RunType DEF Deliver, Run
  <2> QED BY <1>1, <2>1 DEF HistoryIsolated, FilesIsolated
<1>9. ASSUME NEW e \in snoozes, RunSnooze(e) \/ Nudge(e) PROVE HistoryIsolated'
  <2>1. e.thread \in Threads /\ Root[e.msg] = e.thread
    BY DEF TypeOK, Snooze, OneEntryPerThreadAndKind
  <2>2. UNCHANGED memory /\ \E kind, once : StartRun(kind, e.thread, e.msg, once)
    BY <1>9 DEF RunSnooze, Nudge
  <2>3. \A n \in history' : Root[n] = Root[run'.msg]
    BY <1>1, <2>1, <2>2, StartRunIsolated
  <2> QED BY <1>1, <2>2, <2>3 DEF HistoryIsolated, FilesIsolated
<1>10. ASSUME NEW e \in snoozes, GiveUp(e) PROVE HistoryIsolated'
  <2>1. Root[e.msg] \in Threads
    BY DEF TypeOK, Snooze
  <2>2. FilesIsolated'
    BY <1>1, <1>10, <2>1, SetMemoryStatusIsolated DEF GiveUp
  <2> QED BY <1>2, <1>10, <2>2 DEF GiveUp, DrainWatchdog, Drain
<1>11. ASSUME \/ \E m \in Msgs : \/ Arrive(m) \/ Reject(m) \/ Demo(m)
                                 \/ UnsnoozeTool(m)
                                 \/ \E once \in OnceChoices : SnoozeTool(m, once)
              \/ Poll \/ FinishBatch \/ EndPoll \/ Crash \/ Restart
              \/ \E e \in snoozes : \/ SnoozeUnreadable(e) \/ WatchdogUnreadable(e)
                                    \/ StandDown(e)
              \/ \E t \in Threads, kind \in BOOLEAN : Tick(t, kind)
              \/ UNCHANGED vars
       PROVE  HistoryIsolated'
  <2>1. UNCHANGED memory /\ (pc' # "run" \/ UNCHANGED <<pc, history, run>>)
    BY <1>11 DEF Arrive, Reject, Demo, UnsnoozeTool, SnoozeTool, Poll, FinishBatch,
                 EndPoll, Crash, Restart, Restarted, SnoozeUnreadable, WatchdogUnreadable, StandDown,
                 Tick, Take
  <2> QED BY <1>1, <2>1 DEF HistoryIsolated, FilesIsolated
<1> QED
  BY <1>3, <1>4, <1>5, <1>6, <1>7, <1>8, <1>9, <1>10, <1>11
     DEF Next, MailStep, ToolCall, RunEnds, SnoozeStep

(* No conversation leaks into another thread's, although one process keeps *)
(* a single history for all of them.  A run starts on the file of the      *)
(* entry's thread, so the snooze file being well-formed is needed.         *)
THEOREM HistoriesDoNotMix == Spec => []HistoryIsolated
<1>1. Init => HistoryIsolated
  BY DEF Init, HistoryIsolated, Absent
<1> QED BY <1>1, TypeCorrect, SnoozeFileWellFormed, HistoryStep, PTL DEF Spec

-----------------------------------------------------------------------------
(* The nudges a thread gets are bounded, while the snooze file can be      *)
(* written.                                                                *)

Watchdogs == {e \in snoozes : e.watchdog}

(* What saving and deleting do when they succeed.                          *)
LEMMA SaveExact ==
    ASSUME WellFormed(snoozes, Root), NEW e, e.thread = Root[e.msg],
           NEW fs, fs \cap {"snooze", "append"} = {}, Save(e, fs)
    PROVE  snoozes' = {f \in snoozes : f.watchdog # e.watchdog \/ f.thread # e.thread}
                        \cup {e}
BY SaveKeepsWellFormed DEF Save

(* What a save takes out, however far it gets: the entry of the same kind   *)
(* and thread.                                                             *)
LEMMA SaveTouchesOwn ==
    ASSUME WellFormed(snoozes, Root), NEW e, e.thread = Root[e.msg],
           NEW fs, Save(e, fs)
    PROVE  \A f \in snoozes :
             f \in snoozes' \/ (f.watchdog = e.watchdog /\ f.thread = e.thread)
<1>1. WithoutEntry(snoozes, e)
        = {f \in snoozes : f.watchdog # e.watchdog \/ f.thread # e.thread}
  BY WithoutEntryExact
<1> QED BY <1>1 DEF Save, SaveSnooze

(* And when its second write is not made, nothing comes in.                *)
LEMMA SaveCutShort ==
    ASSUME NEW e, NEW fs, "append" \in fs, Save(e, fs)
    PROVE  snoozes' \subseteq snoozes
BY DeleteShrinks DEF Save, WithoutEntry

LEMMA DeleteExact ==
    ASSUME WellFormed(snoozes, Root), NEW kind, NEW m, NEW t, t = Root[m],
           NEW fs, "snooze" \notin fs, Delete(kind, m, t, fs)
    PROVE  snoozes' = {f \in snoozes : f.watchdog # kind \/ f.thread # t}
<1>1. DeleteSnooze(snoozes, kind, m, t)
        = {f \in snoozes : f.watchdog # kind \/ f.thread # t}
  BY DeleteClearsThread, RootAssumption
<1> QED BY <1>1 DEF Delete

(* What happens to scheduled tasks does not touch the watchdogs.           *)
LEMMA SaveScheduleKeepsWatchdogs ==
    ASSUME TypeOK, NEW e, e.watchdog = FALSE, NEW fs, Save(e, fs)
    PROVE  Watchdogs' = Watchdogs
<1> DEFINE rest == DeleteSnooze(snoozes, e.watchdog, e.msg, e.thread)
<1>1. rest \subseteq snoozes
  BY DeleteShrinks
<1>2. \A f \in snoozes : f.watchdog # FALSE => f \in rest
  BY DeleteKeepsOtherKind
<1>3. snoozes' \in {snoozes, rest, rest \cup {e}}
  BY DEF Save, SaveSnooze, WithoutEntry
<1> HIDE DEF rest
<1> QED BY <1>1, <1>2, <1>3 DEF Watchdogs

LEMMA DeleteScheduleKeepsWatchdogs ==
    ASSUME NEW m, NEW t, NEW fs, Delete(FALSE, m, t, fs)
    PROVE  Watchdogs' = Watchdogs
<1> DEFINE rest == DeleteSnooze(snoozes, FALSE, m, t)
<1>1. rest \subseteq snoozes
  BY DeleteShrinks
<1>2. \A f \in snoozes : f.watchdog # FALSE => f \in rest
  BY DeleteKeepsOtherKind
<1>3. snoozes' \in {snoozes, rest}
  BY DEF Delete
<1> HIDE DEF rest
<1> QED BY <1>1, <1>2, <1>3 DEF Watchdogs

LEMMA AdvanceKeepsWatchdogs ==
    ASSUME TypeOK, NEW fs, AdvanceOrDeleteSnooze(fs)
    PROVE  Watchdogs' = Watchdogs
<1> DEFINE e == [thread |-> Root[run.msg], msg |-> run.msg, watchdog |-> FALSE,
                 once |-> FALSE, fires |-> 0, due |-> FALSE]
<1>1. Delete(FALSE, run.msg, Root[run.msg], fs) \/ Save(e, fs)
  BY DEF AdvanceOrDeleteSnooze
<1>2. e.watchdog = FALSE
  OBVIOUS
<1>3. ASSUME Save(e, fs) PROVE Watchdogs' = Watchdogs
  <2> HIDE DEF e
  <2> QED BY <1>2, <1>3, SaveScheduleKeepsWatchdogs
<1>4. ASSUME Delete(FALSE, run.msg, Root[run.msg], fs) PROVE Watchdogs' = Watchdogs
  BY <1>4, DeleteScheduleKeepsWatchdogs
<1> QED BY <1>1, <1>3, <1>4

LEMMA SnoozeToolKeepsWatchdogs ==
    ASSUME TypeOK, NEW m, NEW once, SnoozeTool(m, once)
    PROVE  Watchdogs' = Watchdogs
<1>1. PICK due, fs :
        Save([thread |-> Root[m], msg |-> m, watchdog |-> FALSE,
              once |-> once, fires |-> 0, due |-> due], fs)
  BY DEF SnoozeTool
<1> DEFINE e == [thread |-> Root[m], msg |-> m, watchdog |-> FALSE,
                 once |-> once, fires |-> 0, due |-> due]
<1>2. e.watchdog = FALSE /\ Save(e, fs)
  BY <1>1
<1> HIDE DEF e
<1> QED BY <1>2, SaveScheduleKeepsWatchdogs

(* The steps that leave the watchdogs as they are, and start no nudge.     *)
LEMMA QuietSteps ==
    ASSUME TypeOK,
           \/ \E m \in Msgs : \/ Arrive(m) \/ Reject(m) \/ Demo(m)
                              \/ StartMail(m) \/ SkipMail(m) \/ UnsnoozeTool(m)
                              \/ \E once \in OnceChoices : SnoozeTool(m, once)
           \/ Poll \/ FinishBatch \/ MailAnswered \/ MailMaxTurns \/ MailFailed
           \/ Deliver \/ ScheduledAnswered \/ ScheduledMaxTurns \/ ScheduledFailed
           \/ EndPoll \/ Crash \/ Restart
           \/ \E e \in snoozes : RunSnooze(e) \/ SnoozeUnreadable(e)
           \/ UNCHANGED vars
    PROVE  /\ Watchdogs' = Watchdogs
           /\ UNCHANGED <<nudges, cut>>
           /\ Running("nudge")' => Running("nudge") /\ run'.msg = run.msg
<1>1. Watchdogs' = Watchdogs
  <2>1. ASSUME NEW m \in Msgs, UnsnoozeTool(m) PROVE Watchdogs' = Watchdogs
    BY <2>1, DeleteScheduleKeepsWatchdogs DEF UnsnoozeTool
  <2>2. CASE ScheduledAnswered \/ ScheduledMaxTurns
    BY <2>2, AdvanceKeepsWatchdogs DEF ScheduledAnswered, ScheduledMaxTurns
  <2>3. CASE UNCHANGED snoozes
    BY <2>3 DEF Watchdogs
  <2> QED
    BY <2>1, <2>2, <2>3, SnoozeToolKeepsWatchdogs
       DEF Arrive, Reject, Demo, StartMail, SkipMail, Poll, FinishBatch,
           MailAnswered, MailMaxTurns, MailFailed, Deliver, ScheduledFailed,
           EndPoll, Crash, Restart, Restarted, RunSnooze, SnoozeUnreadable
<1>2. UNCHANGED <<nudges, cut>>
  BY DEF Spend, Arrive, Reject, Demo, StartMail, SkipMail, UnsnoozeTool, SnoozeTool, Poll,
         FinishBatch, MailAnswered, MailMaxTurns, MailFailed, Deliver,
         ScheduledAnswered, ScheduledMaxTurns, ScheduledFailed, EndPoll, Crash, Restart, Restarted,
         RunSnooze, SnoozeUnreadable
<1>3. Running("nudge")' => Running("nudge") /\ run'.msg = run.msg
  <2>1. CASE Deliver
    BY <2>1, RunType DEF Deliver, Running, Run
  <2>2. CASE UNCHANGED <<pc, run>>
    BY <2>2 DEF Running
  <2>3. CASE pc' # "run"
    BY <2>3 DEF Running
  <2>4. ASSUME \/ \E m \in Msgs : StartMail(m)
               \/ \E e \in snoozes : RunSnooze(e)
        PROVE  ~Running("nudge")'
    BY <2>4 DEF StartMail, RunSnooze, StartRun, Running
  <2> QED
    BY <2>1, <2>2, <2>3, <2>4
       DEF Arrive, Reject, Demo, SkipMail, UnsnoozeTool, SnoozeTool, Poll,
           FinishBatch, MailAnswered, MailMaxTurns, MailFailed,
           ScheduledAnswered, ScheduledMaxTurns, ScheduledFailed, EndPoll, Crash, Restart, Restarted,
           SnoozeUnreadable, EndRun, Drain, Take
<1> QED BY <1>1, <1>2, <1>3

(* The inductive invariant behind the bound: a watchdog's fires are the    *)
(* nudges its thread has had, and while a nudge runs its thread has a      *)
(* watchdog.  Without the second part a nudge that waits again could arm   *)
(* a fresh watchdog with no fires.  (Once the process has died no nudge runs.)     *)
NudgesCounted ==
    /\ \A e \in snoozes : e.watchdog => nudges[e.thread] = e.fires
    /\ Running("nudge") /\ ~dead => FindWatchdogByThread(snoozes, Root[run.msg]) # {}

LEMMA NudgesStep ==
    ASSUME FailureKinds \cap {"snooze", "append"} = {}
    PROVE  TypeOK /\ OneEntryPerThreadAndKind /\ NudgesBounded /\ NudgesCounted
             /\ [Next]_vars => NudgesBounded' /\ NudgesCounted'
<1> DEFINE Goal == NudgesBounded' /\ NudgesCounted'
<1> SUFFICES ASSUME TypeOK, OneEntryPerThreadAndKind, NudgesBounded, NudgesCounted,
                    [Next]_vars
             PROVE  Goal
  OBVIOUS
<1> USE RootAssumption, MaxFiresAssumption
<1>1. WellFormed(snoozes, Root)
  BY OneEntryIsWellFormed
<1>2. dead => dead' \/ pc' # "run"
  BY DeadStays DEF Restart, Restarted
<1>3. ASSUME Watchdogs' \subseteq Watchdogs, UNCHANGED nudges, pc' # "run" \/ dead'
      PROVE  Goal
  BY <1>3 DEF Watchdogs, NudgesBounded, NudgesCounted, Running
<1>4. ASSUME \/ \E m \in Msgs : \/ Arrive(m) \/ Reject(m) \/ Demo(m)
                                \/ StartMail(m) \/ SkipMail(m) \/ UnsnoozeTool(m)
                                \/ \E once \in OnceChoices : SnoozeTool(m, once)
             \/ Poll \/ FinishBatch \/ MailAnswered \/ MailMaxTurns \/ MailFailed
             \/ Deliver \/ ScheduledAnswered \/ ScheduledMaxTurns \/ ScheduledFailed
             \/ EndPoll \/ Crash \/ Restart
             \/ \E e \in snoozes : RunSnooze(e) \/ SnoozeUnreadable(e)
             \/ UNCHANGED vars
      PROVE  Goal
  <2>1. /\ Watchdogs' = Watchdogs
        /\ UNCHANGED nudges
        /\ Running("nudge")' => Running("nudge") /\ run'.msg = run.msg
    BY <1>4, QuietSteps
  <2>2. NudgesBounded'
    BY <2>1 DEF NudgesBounded
  <2>3. \A e \in snoozes' : e.watchdog => nudges'[e.thread] = e.fires
    BY <2>1 DEF Watchdogs, NudgesCounted
  <2>4. ASSUME Running("nudge")', ~dead'
        PROVE  FindWatchdogByThread(snoozes', Root[run'.msg]) # {}
    <3> ~dead
      BY <1>2, <2>4 DEF Running
    <3>1. PICK e \in snoozes : e.watchdog = TRUE /\ e.thread = Root[run.msg]
      BY <2>1, <2>4 DEF NudgesCounted, FindWatchdogByThread, ByThread
    <3>2. e \in snoozes'
      BY <2>1, <3>1 DEF Watchdogs
    <3> QED BY <2>1, <2>4, <3>1, <3>2 DEF FindWatchdogByThread, ByThread
  <2> QED BY <2>2, <2>3, <2>4 DEF NudgesCounted
<1>5. ASSUME NEW m \in Msgs, HandleAutoReply(m) PROVE Goal
  BY <1>3, <1>5 DEF HandleAutoReply, AbortThreadSnoozes, Watchdogs, Take
<1>6. ASSUME NEW e \in snoozes, StandDown(e) \/ GiveUp(e) PROVE Goal
  <2>1. snoozes' \subseteq snoozes /\ UNCHANGED nudges /\ pc' # "run"
    BY <1>6, DeleteShrinks DEF StandDown, GiveUp, Delete, DrainWatchdog, Drain
  <2> QED BY <1>3, <2>1 DEF Watchdogs
<1>7. CASE NudgeDone
  <2>1. PICK fs : \/ UNCHANGED snoozes
                  \/ Delete(TRUE, run.msg, Root[run.msg], fs)
    BY <1>7 DEF NudgeDone
  <2>2. snoozes' \subseteq snoozes
    <3>1. DeleteSnooze(snoozes, TRUE, run.msg, Root[run.msg]) \subseteq snoozes
      BY DeleteShrinks
    <3> QED BY <2>1, <3>1 DEF Delete
  <2>3. UNCHANGED nudges /\ pc' # "run"
    BY <1>7 DEF NudgeDone, EndRun
  <2> QED BY <1>3, <2>2, <2>3 DEF Watchdogs
<1>8. ASSUME NEW e \in snoozes, WatchdogUnreadable(e) PROVE Goal
  <2>1. /\ e \in Snooze /\ e.watchdog = TRUE
        /\ e.thread = Root[e.msg]
    BY <1>1, <1>8 DEF WellFormed, WatchdogUnreadable, DrainWatchdog, TypeOK, Snooze
  <2> DEFINE d == Rescheduled(e)
  <2>2. PICK fs \in Failing(<<"read">> \o SnoozeCalls) : Save(d, fs)
    BY <1>8 DEF WatchdogUnreadable
  <2>3. /\ d.watchdog = TRUE /\ d.thread = e.thread /\ d.msg = e.msg
        /\ d.fires = e.fires
    BY <2>1 DEF Rescheduled, Snooze
  <2>4. UNCHANGED nudges /\ pc' # "run"
    BY <1>8 DEF WatchdogUnreadable, DrainWatchdog, Drain
  <2>5. nudges[e.thread] = e.fires
    BY <2>1 DEF NudgesCounted
  <2> HIDE DEF d
  <2>6. CASE "append" \in fs
    BY <1>3, <2>2, <2>4, <2>6, SaveCutShort DEF Watchdogs
  <2>7. CASE fs \cap {"snooze", "append"} = {}
    <3>1. snoozes' = {f \in snoozes : f.watchdog # d.watchdog \/ f.thread # d.thread}
                       \cup {d}
      BY <1>1, <2>1, <2>2, <2>3, <2>7, SaveExact
    <3> QED BY <2>3, <2>4, <2>5, <3>1 DEF NudgesBounded, NudgesCounted, Running
  <2> QED BY <2>2, <2>6, <2>7, LastSnoozeCall
<1>9. ASSUME NEW e \in snoozes, Nudge(e) PROVE Goal
  <2>1. /\ e \in Snooze /\ e.watchdog = TRUE
        /\ e.thread = Root[e.msg] /\ e.thread \in Threads
        /\ e.fires \in 0..waitingWatchdogMaxFires
        /\ e.fires < waitingWatchdogMaxFires
    BY <1>1, <1>9 DEF WellFormed, Nudge, DrainWatchdog, TypeOK, Snooze
  <2> DEFINE d == [Rescheduled(e) EXCEPT !.fires = @ + 1]
  <2>2. PICK fs \in Failing(SnoozeCalls) :
          /\ Save(d, fs)
          /\ dead' = ("crash" \in fs)
          /\ nudges' = IF "crash" \in fs THEN nudges
                       ELSE [nudges EXCEPT ![e.thread] = Bump(@, waitingWatchdogMaxFires + 1)]
    BY <1>9 DEF Nudge, Fails
  <2>3. /\ d.watchdog = TRUE /\ d.thread = e.thread /\ d.msg = e.msg
        /\ d.fires = e.fires + 1
    BY <2>1 DEF Rescheduled, Snooze
  <2> HIDE DEF d
  <2>4. CASE {"crash", "append"} \subseteq fs
    BY <1>3, <2>2, <2>4, SaveCutShort DEF Watchdogs
  <2>5. CASE "crash" \notin fs /\ fs \cap {"snooze", "append"} = {}
    <3>1. snoozes' = {f \in snoozes : f.watchdog # d.watchdog \/ f.thread # d.thread}
                       \cup {d}
      BY <1>1, <2>1, <2>2, <2>3, <2>5, SaveExact
    <3>2. nudges[e.thread] = e.fires
      BY <2>1 DEF NudgesCounted
    <3>3. nudges' = [nudges EXCEPT ![e.thread] = e.fires + 1]
      <4>1. Bump(nudges[e.thread], waitingWatchdogMaxFires + 1) = e.fires + 1
        BY <2>1, <3>2 DEF Bump
      <4> QED BY <2>2, <2>5, <4>1
    <3>4. NudgesBounded'
      BY <2>1, <3>3 DEF NudgesBounded, TypeOK
    <3>5. \A f \in snoozes' : f.watchdog => nudges'[f.thread] = f.fires
      <4>1. TAKE f \in snoozes'
      <4>2. CASE f = d
        BY <2>1, <2>3, <3>3, <4>2 DEF TypeOK
      <4>3. CASE f \in snoozes /\ (f.watchdog # TRUE \/ f.thread # e.thread)
        <5>1. f.thread \in Threads /\ f.watchdog \in BOOLEAN
          BY <4>3 DEF TypeOK, Snooze
        <5> QED BY <3>3, <4>3, <5>1 DEF NudgesCounted, TypeOK
      <4> QED BY <2>3, <3>1, <4>2, <4>3
    <3>6. run'.msg = e.msg
      BY <1>9 DEF Nudge, StartRun
    <3>7. d \in FindWatchdogByThread(snoozes', Root[run'.msg])
      BY <2>1, <2>3, <3>1, <3>6 DEF FindWatchdogByThread, ByThread
    <3> QED BY <3>4, <3>5, <3>7 DEF NudgesCounted
  <2> QED BY <2>2, <2>4, <2>5, LastSnoozeCall
<1>10. ASSUME NEW t \in Threads, NEW kind \in BOOLEAN, Tick(t, kind) PROVE Goal
  <2>1. PICK e \in snoozes :
          snoozes' = (snoozes \ {e}) \cup {[e EXCEPT !.due = TRUE]}
    BY <1>10 DEF Tick, ByThread
  <2> DEFINE d == [e EXCEPT !.due = TRUE]
  <2>2. d.thread = e.thread /\ d.watchdog = e.watchdog /\ d.fires = e.fires
    BY DEF TypeOK, Snooze
  <2>3. snoozes' = (snoozes \ {e}) \cup {d}
    BY <2>1
  <2>4. UNCHANGED <<nudges, pc, run, dead>>
    BY <1>10 DEF Tick
  <2> HIDE DEF d
  <2>5. \A f \in snoozes' : f.watchdog => nudges'[f.thread] = f.fires
    BY <2>2, <2>3, <2>4 DEF NudgesCounted
  <2>6. ASSUME Running("nudge")', ~dead'
        PROVE  FindWatchdogByThread(snoozes', Root[run'.msg]) # {}
    <3>1. PICK f \in snoozes : f.watchdog = TRUE /\ f.thread = Root[run.msg]
      BY <2>4, <2>6 DEF NudgesCounted, Running, FindWatchdogByThread, ByThread
    <3>2. f \in snoozes' \/ (f = e /\ d \in snoozes')
      BY <2>3
    <3> QED BY <2>2, <2>4, <3>1, <3>2 DEF FindWatchdogByThread, ByThread
  <2> QED BY <2>4, <2>5, <2>6 DEF NudgesBounded, NudgesCounted
<1>11. ASSUME NEW m \in Msgs, NEW s, SetTaskStatus(m, s) PROVE Goal
  <2>1. /\ pc = "run" /\ pc' = "run"
        /\ run'.msg = run.msg /\ run'.kind = run.kind
        /\ run.msg \in Msgs /\ Root[run.msg] \in Threads
    BY <1>11, RunType DEF SetTaskStatus, Run
  <2>2. PICK fs \in Failing(<<"torn", "memory">> \o SnoozeCalls) :
          /\ dead' = ("crash" \in fs)
          /\ IF s = "waiting" /\ fs \cap {"memory", "torn"} = {}
               THEN ArmWaitingWatchdog(fs) ELSE UNCHANGED snoozes
          /\ nudges' = IF s = "waiting" /\ fs = {} /\ run.kind # "nudge"
                         THEN [nudges EXCEPT ![Root[run.msg]] = 0] ELSE nudges
    BY <1>11 DEF SetTaskStatus, Fails
  <2>3. NudgesBounded'
    BY <2>1, <2>2 DEF NudgesBounded, TypeOK
  <2>4. CASE UNCHANGED <<snoozes, nudges>>
    BY <1>2, <2>1, <2>3, <2>4 DEF NudgesCounted, Running
  <2>5. CASE s = "waiting" /\ fs = {}
    <3>1. fs \cap {"snooze", "append"} = {}
      BY <2>5
    <3>2. PICK n \in (IF ArmedFires = {} THEN {0} ELSE ArmedFires) :
            Save([thread |-> Root[run.msg], msg |-> run.msg, watchdog |-> TRUE,
                  once |-> TRUE, fires |-> n, due |-> FALSE], fs)
      BY <2>2, <2>5 DEF ArmWaitingWatchdog
    <3> DEFINE d == [thread |-> Root[run.msg], msg |-> run.msg, watchdog |-> TRUE,
                     once |-> TRUE, fires |-> n, due |-> FALSE]
    <3>3. /\ d.watchdog = TRUE /\ d.thread = Root[run.msg] /\ d.msg = run.msg
          /\ d.fires = n /\ Save(d, fs)
      BY <3>2
    <3> HIDE DEF d
    <3>4. snoozes' = {f \in snoozes : f.watchdog # d.watchdog \/ f.thread # d.thread}
                       \cup {d}
      BY <1>1, <3>1, <3>3, SaveExact
    <3>5. nudges'[Root[run.msg]] = n
      <4>1. CASE run.kind = "nudge"
        <5> ~dead
          BY <1>2, <2>1, <2>2, <2>5
        <5>1. FindWatchdogByThread(snoozes, Root[run.msg]) # {}
          BY <2>1, <4>1 DEF NudgesCounted, Running
        <5>2. ArmedFires = {e.fires : e \in FindWatchdogByThread(snoozes, Root[run.msg])}
          BY <4>1 DEF ArmedFires
        <5>3. PICK e \in FindWatchdogByThread(snoozes, Root[run.msg]) : n = e.fires
          BY <3>2, <5>1, <5>2
        <5>4. e \in snoozes /\ e.watchdog = TRUE /\ e.thread = Root[run.msg]
          BY <5>3 DEF FindWatchdogByThread, ByThread
        <5>5. nudges' = nudges
          BY <2>2, <4>1
        <5> QED BY <5>3, <5>4, <5>5 DEF NudgesCounted
      <4>2. CASE run.kind # "nudge"
        <5>1. n = 0
          BY <3>2, <4>2 DEF ArmedFires
        <5>2. nudges' = [nudges EXCEPT ![Root[run.msg]] = 0]
          BY <2>2, <2>5, <4>2
        <5> QED BY <2>1, <5>1, <5>2 DEF TypeOK
      <4> QED BY <4>1, <4>2
    <3>6. \A t \in Threads : t # Root[run.msg] => nudges'[t] = nudges[t]
      BY <2>1, <2>2 DEF TypeOK
    <3>7. \A f \in snoozes' : f.watchdog => nudges'[f.thread] = f.fires
      <4>1. TAKE f \in snoozes'
      <4>2. CASE f = d
        BY <3>3, <3>5, <4>2
      <4>3. CASE f \in snoozes /\ (f.watchdog # TRUE \/ f.thread # Root[run.msg])
        <5>1. f.thread \in Threads /\ f.watchdog \in BOOLEAN
          BY <4>3 DEF TypeOK, Snooze
        <5> QED BY <3>6, <4>3, <5>1 DEF NudgesCounted
      <4> QED BY <3>3, <3>4, <4>2, <4>3
    <3>8. d \in FindWatchdogByThread(snoozes', Root[run'.msg])
      BY <2>1, <3>3, <3>4 DEF FindWatchdogByThread, ByThread
    <3> QED BY <2>3, <3>7, <3>8 DEF NudgesCounted
  <2>6. CASE s = "waiting" /\ fs # {} /\ fs \cap {"memory", "torn"} = {}
    <3>1. {"crash", "append"} \subseteq fs
      <4>1. ~(fs \subseteq FailureKinds \cap {"torn", "memory", "snooze", "append"})
        BY <2>6
      <4> QED BY <2>2, <4>1, LastSnoozeCall
    <3>2. PICK d : Save(d, fs)
      BY <2>2, <2>6 DEF ArmWaitingWatchdog
    <3>3. snoozes' \subseteq snoozes
      BY <3>1, <3>2, SaveCutShort
    <3>4. UNCHANGED nudges /\ dead'
      BY <2>2, <2>6, <3>1
    <3> QED BY <1>3, <3>3, <3>4 DEF Watchdogs
  <2> QED
    BY <2>2, <2>4, <2>5, <2>6
<1> QED
  BY <1>4, <1>5, <1>6, <1>7, <1>8, <1>9, <1>10, <1>11
     DEF Next, MailStep, ToolCall, RunEnds, SnoozeStep

(* A silent coworker is asked a bounded number of times: for any messages, *)
(* threads and bound, whatever the order of mail, runs, restarts (also     *)
(* between the two writes of an entry) and failing calls, as long as no     *)
(* write of the snooze file returns an error.                              *)
THEOREM NudgesAreBounded ==
    ASSUME FailureKinds \cap {"snooze", "append"} = {}
    PROVE  Spec => []NudgesBounded
<1>1. Init => NudgesBounded /\ NudgesCounted
  BY MaxFiresAssumption DEF Init, NudgesBounded, NudgesCounted, Running
<1>2. TypeOK /\ OneEntryPerThreadAndKind /\ NudgesBounded /\ NudgesCounted
        /\ [Next]_vars => NudgesBounded' /\ NudgesCounted'
  BY NudgesStep
<1> QED
  BY <1>1, <1>2, TypeCorrect, SnoozeFileWellFormed, PTL DEF Spec

-----------------------------------------------------------------------------
(* No waiting task is left without a watchdog.                             *)

(* A memory file that is missing or unreadable has no status: a write of   *)
(* the status needs the file, and a rebuilt file starts without one.       *)
NoStatusWithoutFile ==
    \A t \in Threads : memory[t].file # "ok" => memory[t].status = "none"

(* A step of which every thread that waits afterwards waited before.       *)
NoNewWaiting == \A t \in Threads : Waiting(t)' => Waiting(t)

LEMMA WriteKeepsWaiting ==
    ASSUME TypeOK, NoStatusWithoutFile,
           NEW t \in Threads, NEW new, NEW fs, WriteMemory(t, new, fs),
           new.file = "ok", new.status = "waiting" => Waiting(t)
    PROVE  NoNewWaiting /\ NoStatusWithoutFile'
BY DEF TypeOK, NoStatusWithoutFile, WriteMemory, NoNewWaiting, Waiting, Torn

LEMMA SaveKeepsWaiting ==
    ASSUME TypeOK, NoStatusWithoutFile,
           NEW t \in Threads, NEW turns, NEW fs, SaveMemoryHistory(t, turns, fs)
    PROVE  NoNewWaiting /\ NoStatusWithoutFile'
<1> DEFINE new == [file |-> "ok", status |-> memory[t].status, turns |-> turns]
<1>1. CASE UNCHANGED memory
  BY <1>1 DEF NoNewWaiting, Waiting, NoStatusWithoutFile
<1>2. CASE WriteMemory(t, new, fs)
  <2>1. new.file = "ok" /\ new.status = memory[t].status
    OBVIOUS
  <2> HIDE DEF new
  <2> QED BY <1>2, <2>1, WriteKeepsWaiting DEF Waiting
<1> QED BY <1>1, <1>2 DEF SaveMemoryHistory

LEMMA StartAndSkipKeepWaiting ==
    ASSUME TypeOK, NoStatusWithoutFile, NEW m \in Msgs, StartMail(m) \/ SkipMail(m)
    PROVE  NoNewWaiting /\ NoStatusWithoutFile'
<1>1. Root[m] \in Threads
  BY RootAssumption
<1>2. CASE UNCHANGED memory
  BY <1>2 DEF NoNewWaiting, Waiting, NoStatusWithoutFile
<1>3. ASSUME NEW new, memory' = [memory EXCEPT ![Root[m]] = new],
             new \in {memory[Root[m]], Torn, Rebuilt(m)}
      PROVE  NoNewWaiting /\ NoStatusWithoutFile'
  BY <1>1, <1>3 DEF TypeOK, NoNewWaiting, Waiting, NoStatusWithoutFile, Torn, Rebuilt
<1> QED BY <1>2, <1>3 DEF StartMail, SkipMail

(* Every step of QuietSteps.                                               *)
LEMMA QuietStepsKeepWaiting ==
    ASSUME TypeOK, NoStatusWithoutFile,
           \/ \E m \in Msgs : \/ Arrive(m) \/ Reject(m) \/ Demo(m)
                              \/ StartMail(m) \/ SkipMail(m) \/ UnsnoozeTool(m)
                              \/ \E once \in OnceChoices : SnoozeTool(m, once)
           \/ Poll \/ FinishBatch \/ MailAnswered \/ MailMaxTurns \/ MailFailed
           \/ Deliver \/ ScheduledAnswered \/ ScheduledMaxTurns \/ ScheduledFailed
           \/ EndPoll \/ Crash \/ Restart
           \/ \E e \in snoozes : RunSnooze(e) \/ SnoozeUnreadable(e)
           \/ UNCHANGED vars
    PROVE  NoNewWaiting /\ NoStatusWithoutFile'
<1>1. CASE UNCHANGED memory
  BY <1>1 DEF NoNewWaiting, Waiting, NoStatusWithoutFile
<1>2. CASE \/ MailAnswered \/ MailMaxTurns \/ MailFailed
           \/ ScheduledAnswered \/ ScheduledMaxTurns \/ ScheduledFailed
  <2>1. Root[run.msg] \in Threads
    BY <1>2, RunType, RootAssumption
       DEF MailAnswered, MailMaxTurns, MailFailed, ScheduledAnswered,
           ScheduledMaxTurns, ScheduledFailed, Running, Run
  <2>2. \E fs : SaveMemoryHistory(Root[run.msg], history, fs)
    BY <1>2 DEF MailAnswered, MailMaxTurns, MailFailed, ScheduledAnswered,
                ScheduledMaxTurns, ScheduledFailed
  <2> QED BY <2>1, <2>2, SaveKeepsWaiting
<1>3. CASE \E m \in Msgs : StartMail(m) \/ SkipMail(m)
  BY <1>3, StartAndSkipKeepWaiting
<1> QED
  BY <1>1, <1>2, <1>3
     DEF Arrive, Reject, Demo, UnsnoozeTool, SnoozeTool, Poll, FinishBatch, Deliver,
         EndPoll, Crash, Restart, Restarted, RunSnooze, SnoozeUnreadable, vars, files

LEMMA WaitingStep ==
    ASSUME AnyThread = FALSE, FailureKinds \subseteq {"smtp", "mark", "torn", "crash"}
    PROVE  TypeOK /\ OneEntryPerThreadAndKind /\ WaitingIsWatched /\ NoStatusWithoutFile
             /\ [Next]_vars => WaitingIsWatched' /\ NoStatusWithoutFile'
<1> DEFINE Goal == WaitingIsWatched' /\ NoStatusWithoutFile'
<1> SUFFICES ASSUME TypeOK, OneEntryPerThreadAndKind, WaitingIsWatched,
                    NoStatusWithoutFile, [Next]_vars
             PROVE  Goal
  OBVIOUS
<1> USE RootAssumption
<1>1. WellFormed(snoozes, Root)
  BY OneEntryIsWellFormed
<1>2. \A fs : fs \subseteq FailureKinds
               => fs \cap {"snooze", "append", "memory", "fetch", "read"} = {}
  OBVIOUS
<1>3. ASSUME Watchdogs \subseteq Watchdogs', NoNewWaiting, cut \subseteq cut'
      PROVE  WaitingIsWatched'
  <2> SUFFICES ASSUME NEW t \in Threads, Waiting(t)', t \notin cut'
               PROVE  FindWatchdogByThread(snoozes', t) # {}
    BY DEF WaitingIsWatched
  <2>1. PICK e \in snoozes : e.watchdog = TRUE /\ e.thread = t
    BY <1>3 DEF NoNewWaiting, WaitingIsWatched, FindWatchdogByThread, ByThread
  <2>2. e \in snoozes'
    BY <1>3, <2>1 DEF Watchdogs
  <2> QED BY <2>1, <2>2 DEF FindWatchdogByThread, ByThread
(* A thread that does not wait any more may lose its watchdog.             *)
<1>4. ASSUME NEW t \in Threads, ~Waiting(t)', NoNewWaiting, UNCHANGED cut,
             snoozes' = {f \in snoozes : f.watchdog # TRUE \/ f.thread # t}
      PROVE  WaitingIsWatched'
  <2> SUFFICES ASSUME NEW u \in Threads, Waiting(u)', u \notin cut'
               PROVE  FindWatchdogByThread(snoozes', u) # {}
    BY DEF WaitingIsWatched
  <2>1. PICK e \in snoozes : e.watchdog = TRUE /\ e.thread = u
    BY <1>4 DEF NoNewWaiting, WaitingIsWatched, FindWatchdogByThread, ByThread
  <2>2. u # t
    BY <1>4
  <2> QED BY <1>4, <2>1, <2>2 DEF FindWatchdogByThread, ByThread
(* A watchdog is replaced by one of the same thread.                       *)
<1>5. ASSUME NEW t \in Threads, NEW d, d.watchdog = TRUE, d.thread = t,
             snoozes' = {f \in snoozes : f.watchdog # TRUE \/ f.thread # t} \cup {d},
             \A u \in Threads \ {t} : Waiting(u)' => Waiting(u), cut \ {t} \subseteq cut'
      PROVE  WaitingIsWatched'
  <2> SUFFICES ASSUME NEW u \in Threads, Waiting(u)', u \notin cut'
               PROVE  FindWatchdogByThread(snoozes', u) # {}
    BY DEF WaitingIsWatched
  <2>1. CASE u = t
    BY <1>5, <2>1 DEF FindWatchdogByThread, ByThread
  <2>2. CASE u # t
    <3>1. PICK e \in snoozes : e.watchdog = TRUE /\ e.thread = u
      BY <1>5, <2>2 DEF WaitingIsWatched, FindWatchdogByThread, ByThread
    <3> QED BY <1>5, <2>2, <3>1 DEF FindWatchdogByThread, ByThread
  <2> QED BY <2>1, <2>2
(* A step that loses no watchdog but one of t, and records it if the       *)
(* process died.                                                           *)
<1>15. ASSUME NEW t \in Threads, NEW fs, "crash" \in fs, CutShort(t, fs),
              \A f \in snoozes : f.watchdog = TRUE /\ f.thread # t => f \in snoozes',
              \A u \in Threads \ {t} : Waiting(u)' => Waiting(u)
       PROVE  WaitingIsWatched'
  <2> SUFFICES ASSUME NEW u \in Threads, Waiting(u)', u \notin cut'
               PROVE  FindWatchdogByThread(snoozes', u) # {}
    BY DEF WaitingIsWatched
  <2>1. CASE u = t
    BY <1>15, <2>1 DEF CutShort, Unwatched
  <2>2. CASE u # t
    <3>1. cut \subseteq cut'
      BY <1>15 DEF CutShort
    <3>2. PICK e \in snoozes : e.watchdog = TRUE /\ e.thread = u
      BY <1>15, <2>2, <3>1 DEF WaitingIsWatched, FindWatchdogByThread, ByThread
    <3> QED BY <1>15, <2>2, <3>2 DEF FindWatchdogByThread, ByThread
  <2> QED BY <2>1, <2>2
<1>6. ASSUME \/ \E m \in Msgs : \/ Arrive(m) \/ Reject(m) \/ Demo(m)
                                \/ StartMail(m) \/ SkipMail(m) \/ UnsnoozeTool(m)
                                \/ \E once \in OnceChoices : SnoozeTool(m, once)
             \/ Poll \/ FinishBatch \/ MailAnswered \/ MailMaxTurns \/ MailFailed
             \/ Deliver \/ ScheduledAnswered \/ ScheduledMaxTurns \/ ScheduledFailed
             \/ EndPoll \/ Crash \/ Restart
             \/ \E e \in snoozes : RunSnooze(e) \/ SnoozeUnreadable(e)
             \/ UNCHANGED vars
      PROVE  Goal
  <2>1. NoNewWaiting /\ NoStatusWithoutFile'
    BY <1>6, QuietStepsKeepWaiting
  <2>2. Watchdogs' = Watchdogs /\ UNCHANGED cut
    BY <1>6, QuietSteps
  <2> QED BY <1>3, <2>1, <2>2
<1>7. ASSUME NEW m \in Msgs, HandleAutoReply(m) PROVE Goal
  <2> DEFINE t == Root[m]
             new == [file |-> "ok", status |-> "none",
                     turns |-> memory[t].turns \cup {m}]
  <2>1. PICK fs \in Failing(<<"fetch", "smtp", "snooze", "read", "torn", "memory", "mark">>) :
          /\ snoozes' = IF "snooze" \in fs THEN snoozes
                        ELSE AbortThreadSnoozes(snoozes, t)
          /\ IF Unreadable(t, fs) THEN UNCHANGED memory ELSE WriteMemory(t, new, fs)
          /\ CutShort(t, fs)
    BY <1>7 DEF HandleAutoReply
  <2>2. t \in Threads /\ cut \subseteq cut'
    BY <2>1 DEF CutShort
  <2>3. NoNewWaiting /\ NoStatusWithoutFile'
    <3>1. new.file = "ok" /\ new.status = "none" /\ t \in Threads
      OBVIOUS
    <3>2. CASE UNCHANGED memory
      BY <3>2 DEF NoNewWaiting, Waiting, NoStatusWithoutFile
    <3>3. CASE WriteMemory(t, new, fs)
      <4> HIDE DEF new
      <4> QED BY <3>1, <3>3, WriteKeepsWaiting
    <3> QED BY <2>1, <3>2, <3>3
  <2>4. \A f \in snoozes : f.watchdog = TRUE /\ f.thread # t => f \in snoozes'
    BY <2>1 DEF AbortThreadSnoozes
  <2>5. CASE "crash" \in fs
    <3> HIDE DEF t, new
    <3> QED BY <1>15, <2>1, <2>2, <2>3, <2>4, <2>5 DEF NoNewWaiting
  <2>6. CASE fs \subseteq FailureKinds
    <3>1. ~Waiting(t)'
      BY <1>2, <2>1, <2>6
         DEF Unreadable, WriteMemory, Waiting, TypeOK, NoStatusWithoutFile, Torn
    <3> HIDE DEF t, new
    <3>2. WaitingIsWatched'
      <4> SUFFICES ASSUME NEW u \in Threads, Waiting(u)', u \notin cut'
                   PROVE  FindWatchdogByThread(snoozes', u) # {}
        BY DEF WaitingIsWatched
      <4>1. PICK e \in snoozes : e.watchdog = TRUE /\ e.thread = u
        BY <2>2, <2>3 DEF NoNewWaiting, WaitingIsWatched, FindWatchdogByThread, ByThread
      <4> QED BY <2>4, <3>1, <4>1 DEF FindWatchdogByThread, ByThread
    <3> QED BY <2>3, <3>2
  <2> QED BY <2>1, <2>5, <2>6, FailingKinds
<1>8. ASSUME NEW e \in snoozes, DrainWatchdog(e)
      PROVE  /\ e \in Snooze /\ e.watchdog = TRUE /\ e.msg \in Msgs
             /\ e.thread = Root[e.msg] /\ e.thread \in Threads
  BY <1>1, <1>8 DEF WellFormed, DrainWatchdog, TypeOK, Snooze
<1>9. ASSUME NEW e \in snoozes, StandDown(e) PROVE Goal
  <2>1. DrainWatchdog(e) /\ UNCHANGED memory /\ ~Waiting(e.thread)
    BY <1>9 DEF StandDown
  <2>2. PICK fs \in Erring(<<"snooze">>) : Delete(TRUE, e.msg, e.thread, fs)
    BY <1>9 DEF StandDown
  <2>3. "snooze" \notin fs /\ UNCHANGED cut
    BY <1>2, <1>9, FailingKinds DEF StandDown, Spend
  <2>4. snoozes' = {f \in snoozes : f.watchdog # TRUE \/ f.thread # e.thread}
    BY <1>1, <1>8, <2>1, <2>2, <2>3, DeleteExact
  <2>5. NoNewWaiting /\ ~Waiting(e.thread)' /\ NoStatusWithoutFile'
    BY <2>1 DEF NoNewWaiting, Waiting, NoStatusWithoutFile
  <2> QED BY <1>4, <1>8, <2>1, <2>3, <2>4, <2>5
<1>10. ASSUME NEW e \in snoozes, GiveUp(e) PROVE Goal
  <2>1. DrainWatchdog(e) /\ Waiting(e.thread)
    BY <1>10 DEF GiveUp
  <2>2. PICK fs \in Failing(<<"fetch", "smtp", "mark", "read", "torn", "memory", "snooze">>) :
          /\ SetMemoryStatus(Root[e.msg], "error", fs)
          /\ Delete(TRUE, e.msg, e.thread, fs)
          /\ UNCHANGED cut
    BY <1>10 DEF GiveUp, Spend
  <2> DEFINE t == e.thread
             new == [file |-> "ok", status |-> "error", turns |-> memory[t].turns]
  <2>3. UNCHANGED memory \/ WriteMemory(t, new, fs)
    BY <1>8, <2>1, <2>2 DEF SetMemoryStatus
  <2>4. new.file = "ok" /\ new.status = "error" /\ t \in Threads
    BY <1>8, <2>1
  <2>5. NoNewWaiting /\ NoStatusWithoutFile'
    <3>1. CASE UNCHANGED memory
      BY <3>1 DEF NoNewWaiting, Waiting, NoStatusWithoutFile
    <3> HIDE DEF t, new
    <3> QED BY <2>3, <2>4, <3>1, WriteKeepsWaiting
  <2>6. CASE "snooze" \in fs
    BY <1>3, <2>2, <2>5, <2>6 DEF Delete, Watchdogs
  <2>7. CASE fs \subseteq FailureKinds
    <3>1. fs \cap {"snooze", "memory", "read", "fetch"} = {}
      BY <1>2, <2>7
    <3>2. memory[t].file # "torn"
      BY <1>8, <2>1 DEF NoStatusWithoutFile, Waiting
    <3>3. WriteMemory(t, new, fs)
      BY <1>8, <2>1, <2>2, <3>1, <3>2 DEF SetMemoryStatus, Unreadable
    <3>4. ~Waiting(t)'
      BY <1>8, <2>1, <3>1, <3>3 DEF WriteMemory, Waiting, TypeOK, Torn
    <3>5. snoozes' = {f \in snoozes : f.watchdog # TRUE \/ f.thread # t}
      BY <1>1, <1>8, <2>1, <2>2, <3>1, DeleteExact
    <3> HIDE DEF t, new
    <3> QED BY <1>4, <2>2, <2>4, <2>5, <3>4, <3>5
  <2> QED BY <2>2, <2>6, <2>7, LastSnoozeCall
<1>11. CASE NudgeDone
  <2>1. PICK t \in Threads : run.msg \in Msgs /\ t = Root[run.msg]
    BY <1>11, RunType DEF NudgeDone, Running, Run
  <2>2. PICK fs \in Failing(SaveCalls \o <<"snooze">>) :
          /\ SaveMemoryHistory(t, history, fs)
          /\ IF memory'[t].status = "waiting" /\ "read" \notin fs
               THEN UNCHANGED snoozes
               ELSE Delete(TRUE, run.msg, t, fs)
    BY <1>11, <2>1 DEF NudgeDone
  <2>3. UNCHANGED cut
    BY <1>11 DEF NudgeDone, Spend
  <2>4. NoNewWaiting /\ NoStatusWithoutFile'
    BY <2>1, <2>2, SaveKeepsWaiting
  <2>5. CASE UNCHANGED snoozes
    BY <1>3, <2>3, <2>4, <2>5 DEF Watchdogs
  <2>6. CASE memory'[t].status # "waiting" /\ "snooze" \notin fs
    <3>1. Delete(TRUE, run.msg, t, fs)
      BY <2>2, <2>6
    <3>2. snoozes' = {f \in snoozes : f.watchdog # TRUE \/ f.thread # t}
      BY <1>1, <2>1, <2>6, <3>1, DeleteExact
    <3>3. ~Waiting(t)'
      BY <2>6 DEF Waiting
    <3> QED BY <1>4, <2>1, <2>3, <2>4, <3>2, <3>3
  <2>7. CASE "snooze" \in fs
    <3>1. UNCHANGED snoozes
      BY <2>2, <2>7 DEF Delete
    <3> QED BY <2>5, <3>1
  <2>8. "snooze" \in fs \/ fs \cap {"snooze", "read"} = {}
    BY <1>2, <2>2, LastSnoozeCall
  <2> QED BY <2>2, <2>5, <2>6, <2>7, <2>8
<1>12. ASSUME NEW e \in snoozes, WatchdogUnreadable(e) \/ Nudge(e) PROVE Goal
  <2>1. DrainWatchdog(e) /\ UNCHANGED memory
    BY <1>12 DEF WatchdogUnreadable, Nudge
  <2>2. PICK fs, d : /\ fs \subseteq FailureKinds \/ "crash" \in fs
                     /\ Save(d, fs) /\ CutShort(e.thread, fs)
                     /\ d \in {Rescheduled(e), [Rescheduled(e) EXCEPT !.fires = @ + 1]}
    BY <1>12, FailingKinds DEF WatchdogUnreadable, Nudge
  <2>3. d.watchdog = TRUE /\ d.thread = e.thread /\ d.msg = e.msg
    BY <1>8, <2>1, <2>2 DEF Rescheduled, Snooze
  <2>4. NoNewWaiting /\ NoStatusWithoutFile'
    BY <2>1 DEF NoNewWaiting, Waiting, NoStatusWithoutFile
  <2>5. CASE "crash" \in fs
    <3>1. \A f \in snoozes : f.watchdog = TRUE /\ f.thread # e.thread => f \in snoozes'
      BY <1>1, <1>8, <2>1, <2>2, <2>3, SaveTouchesOwn
    <3> QED BY <1>8, <1>15, <2>1, <2>2, <2>4, <2>5, <3>1 DEF NoNewWaiting
  <2>6. CASE fs \subseteq FailureKinds
    <3>1. fs \cap {"snooze", "append"} = {}
      BY <1>2, <2>6
    <3>2. snoozes' = {f \in snoozes : f.watchdog # d.watchdog \/ f.thread # d.thread}
                       \cup {d}
      BY <1>1, <1>8, <2>1, <2>2, <2>3, <3>1, SaveExact
    <3>3. cut \subseteq cut'
      BY <2>2 DEF CutShort
    <3> QED BY <1>5, <1>8, <2>1, <2>3, <2>4, <3>2, <3>3 DEF NoNewWaiting
  <2> QED BY <2>2, <2>5, <2>6
<1>13. ASSUME NEW t \in Threads, NEW kind \in BOOLEAN, Tick(t, kind) PROVE Goal
  <2>1. PICK e \in ByThread(snoozes, kind, t) :
          snoozes' = (snoozes \ {e}) \cup {[e EXCEPT !.due = TRUE]}
    BY <1>13 DEF Tick
  <2> DEFINE d == [e EXCEPT !.due = TRUE]
  <2>2. e \in snoozes /\ d.thread = e.thread /\ d.watchdog = e.watchdog
    BY <2>1 DEF ByThread, TypeOK, Snooze
  <2>3. snoozes' = (snoozes \ {e}) \cup {d}
    BY <2>1
  <2>4. UNCHANGED <<memory, cut>>
    BY <1>13 DEF Tick
  <2> HIDE DEF d
  <2>5. WaitingIsWatched'
    <3> SUFFICES ASSUME NEW u \in Threads, Waiting(u)', u \notin cut'
                 PROVE  FindWatchdogByThread(snoozes', u) # {}
      BY DEF WaitingIsWatched
    <3>1. PICK f \in snoozes : f.watchdog = TRUE /\ f.thread = u
      BY <2>4 DEF Waiting, WaitingIsWatched, FindWatchdogByThread, ByThread
    <3> QED BY <2>2, <2>3, <3>1 DEF FindWatchdogByThread, ByThread
  <2> QED BY <2>4, <2>5 DEF NoStatusWithoutFile
<1>14. ASSUME NEW m \in Msgs, NEW s, SetTaskStatus(m, s) PROVE Goal
  <2> DEFINE t == Root[m]
             new == [file |-> "ok", status |-> s, turns |-> memory[t].turns]
  <2>1. /\ t \in Threads /\ run.msg \in Msgs /\ Root[run.msg] = t
        /\ memory[t].file # "torn"
    BY <1>14, RunType DEF SetTaskStatus, Named, Run
  <2>2. PICK fs \in Failing(<<"torn", "memory">> \o SnoozeCalls) :
          /\ SetMemoryStatus(t, s, fs)
          /\ IF s = "waiting" /\ fs \cap {"memory", "torn"} = {}
               THEN ArmWaitingWatchdog(fs) ELSE UNCHANGED snoozes
          /\ IF s = "waiting" /\ fs = {} THEN cut' = cut \ {t} ELSE CutShort(t, fs)
    BY <1>14, <2>1 DEF SetTaskStatus
  <2>3. /\ NoStatusWithoutFile'
        /\ \A u \in Threads \ {t} : Waiting(u)' => Waiting(u)
    <3>1. UNCHANGED memory \/ WriteMemory(t, new, fs)
      BY <2>2 DEF SetMemoryStatus
    <3> QED BY <2>1, <3>1 DEF WriteMemory, Waiting, NoStatusWithoutFile, TypeOK, Torn
  <2>4. ASSUME ArmWaitingWatchdog(fs)
        PROVE  \E d : /\ d.watchdog = TRUE /\ d.thread = t /\ t = Root[d.msg]
                      /\ Save(d, fs)
    <3>1. PICK n : Save([thread |-> t, msg |-> run.msg, watchdog |-> TRUE,
                         once |-> TRUE, fires |-> n, due |-> FALSE], fs)
      BY <2>1, <2>4 DEF ArmWaitingWatchdog
    <3> DEFINE d == [thread |-> t, msg |-> run.msg, watchdog |-> TRUE,
                     once |-> TRUE, fires |-> n, due |-> FALSE]
    <3>2. d.watchdog = TRUE /\ d.thread = t /\ d.msg = run.msg /\ Save(d, fs)
      BY <3>1
    <3> HIDE DEF d, t
    <3> QED BY <2>1, <3>2
  <2>5. CASE "crash" \in fs
    <3>1. \A f \in snoozes : f.watchdog = TRUE /\ f.thread # t => f \in snoozes'
      <4>1. CASE UNCHANGED snoozes
        BY <4>1
      <4>2. ASSUME NEW d, d.watchdog = TRUE, d.thread = t, t = Root[d.msg], Save(d, fs)
            PROVE  \A f \in snoozes : f.watchdog = TRUE /\ f.thread # t => f \in snoozes'
        <5> HIDE DEF t
        <5> QED BY <1>1, <4>2, SaveTouchesOwn
      <4> QED BY <2>2, <2>4, <4>1, <4>2
    <3>2. CutShort(t, fs)
      BY <2>2, <2>5
    <3> HIDE DEF t, new
    <3> QED BY <1>15, <2>1, <2>3, <2>5, <3>1, <3>2
  <2>6. CASE fs \subseteq FailureKinds \cap {"torn", "memory", "snooze", "append"}
    <3>1. fs \subseteq {"torn"}
      BY <2>6
    <3>2. CASE s = "waiting" /\ fs = {}
      <4>1. PICK d : d.watchdog = TRUE /\ d.thread = t /\ t = Root[d.msg] /\ Save(d, fs)
        BY <2>2, <2>4, <3>2
      <4>2. snoozes' = {f \in snoozes : f.watchdog # TRUE \/ f.thread # t} \cup {d}
        <5> HIDE DEF t
        <5> QED BY <1>1, <3>2, <4>1, SaveExact
      <4>3. cut \ {t} \subseteq cut'
        BY <2>2, <3>2
      <4> HIDE DEF t, new
      <4> QED BY <1>5, <2>1, <2>3, <4>1, <4>2, <4>3
    <3>3. CASE ~(s = "waiting" /\ fs = {})
      <4>1. UNCHANGED snoozes /\ cut \subseteq cut'
        BY <2>2, <3>1, <3>3 DEF CutShort
      <4>2. ~Waiting(t)'
        <5>1. WriteMemory(t, new, fs)
          BY <2>1, <2>2, <3>1 DEF SetMemoryStatus, Unreadable
        <5> QED BY <2>1, <3>1, <3>3, <5>1 DEF WriteMemory, Waiting, TypeOK, Torn
      <4>3. NoNewWaiting
        BY <2>3, <4>2 DEF NoNewWaiting
      <4> QED BY <1>3, <2>3, <4>1, <4>3 DEF Watchdogs
    <3> QED BY <3>2, <3>3
  <2> QED BY <2>2, <2>5, <2>6, LastSnoozeCall
<1> QED
  BY <1>6, <1>7, <1>9, <1>10, <1>11, <1>12, <1>13, <1>14
     DEF Next, MailStep, ToolCall, RunEnds, SnoozeStep

(* No task is left waiting with nothing to wake it up, whatever mail,      *)
(* bounces, schedules, nudges and torn memory files come in between, and   *)
(* wherever the process dies and is restarted but at the four places the   *)
(* variable cut records: between the two writes of a handler that keep     *)
(* status and watchdog together.  It is assumed that a status is set on    *)
(* the thread of the run, and that reads and writes of the files return no *)
(* error but a truncated memory file.                                      *)
THEOREM WaitingIsAlwaysWatched ==
    ASSUME AnyThread = FALSE, FailureKinds \subseteq {"smtp", "mark", "torn", "crash"}
    PROVE  Spec => []WaitingIsWatched
<1>1. Init => WaitingIsWatched /\ NoStatusWithoutFile
  BY DEF Init, WaitingIsWatched, NoStatusWithoutFile, Waiting, Absent
<1>2. TypeOK /\ OneEntryPerThreadAndKind /\ WaitingIsWatched /\ NoStatusWithoutFile
        /\ [Next]_vars => WaitingIsWatched' /\ NoStatusWithoutFile'
  BY WaitingStep
<1> QED
  BY <1>1, <1>2, TypeCorrect, SnoozeFileWellFormed, PTL DEF Spec

-----------------------------------------------------------------------------
(* Recurring schedules survive.                                            *)

(* No recurring schedule comes or goes.                                    *)
RecurringSame == \A t \in Threads : Recurring(t)' <=> Recurring(t)

(* The invariant the drain needs: while a one-shot entry is run, its       *)
(* thread has no recurring schedule that advancing it could delete.        *)
OneShotAlone == Running("schedule") /\ run.once => ~Recurring(Root[run.msg])

(* What is saved or deleted as a watchdog touches no schedule.             *)
LEMMA WatchdogKeepsRecurring ==
    ASSUME NEW e, e.watchdog = TRUE, NEW m, NEW t, NEW fs,
           Save(e, fs) \/ Delete(TRUE, m, t, fs)
    PROVE  RecurringSame
<1> DEFINE rest == DeleteSnooze(snoozes, e.watchdog, e.msg, e.thread)
           less == DeleteSnooze(snoozes, TRUE, m, t)
<1>1. rest \subseteq snoozes /\ less \subseteq snoozes
  BY DeleteShrinks
<1>2. \A f \in snoozes : f.watchdog # TRUE => f \in rest /\ f \in less
  BY DeleteKeepsOtherKind
<1>3. snoozes' \in {snoozes, rest, rest \cup {e}, less}
  BY DEF Save, SaveSnooze, WithoutEntry, Delete
<1> HIDE DEF rest, less
<1> QED BY <1>1, <1>2, <1>3 DEF RecurringSame, Recurring

(* AdvanceOrDeleteSnooze re-saves the schedule it was started by, and      *)
(* deletes a one-shot entry, which is alone.                               *)
LEMMA AdvanceKeepsRecurring ==
    ASSUME TypeOK, WellFormed(snoozes, Root), OneShotAlone, Running("schedule"),
           NEW fs, AdvanceOrDeleteSnooze(fs), NEW t \in Threads, Recurring(t),
           fs \cap {"snooze", "append"} = {} \/ t # Root[run.msg]
    PROVE  Recurring(t)'
<1> DEFINE e == [thread |-> Root[run.msg], msg |-> run.msg, watchdog |-> FALSE,
                 once |-> FALSE, fires |-> 0, due |-> FALSE]
<1>1. PICK f \in snoozes : f.thread = t /\ ~f.watchdog /\ ~f.once
  BY DEF Recurring
<1>2. CASE run.once
  <2>1. t # Root[run.msg]
    BY <1>2 DEF OneShotAlone
  <2>2. Delete(FALSE, run.msg, Root[run.msg], fs)
    BY <1>2 DEF AdvanceOrDeleteSnooze
  <2>3. f \in snoozes'
    <3>1. CASE UNCHANGED snoozes
      BY <3>1
    <3>2. CASE "snooze" \notin fs
      BY <1>1, <2>1, <2>2, <3>2, DeleteExact
    <3> QED BY <2>2, <3>1, <3>2 DEF Delete
  <2> QED BY <1>1, <2>3 DEF Recurring
<1>3. CASE ~run.once
  <2>1. Save(e, fs)
    BY <1>3 DEF AdvanceOrDeleteSnooze
  <2>2. e.thread = Root[e.msg] /\ e.watchdog = FALSE /\ ~e.once
        /\ e.thread = Root[run.msg]
    OBVIOUS
  <2> HIDE DEF e
  <2>3. f \in snoozes' \/ t = Root[run.msg]
    BY <1>1, <2>1, <2>2, SaveTouchesOwn
  <2>4. CASE fs \cap {"snooze", "append"} = {}
    <3>1. e \in snoozes'
      BY <2>1, <2>2, <2>4, SaveExact
    <3> QED BY <1>1, <2>2, <2>3, <3>1 DEF Recurring
  <2>5. CASE t # Root[run.msg]
    BY <1>1, <2>3, <2>5 DEF Recurring
  <2> QED BY <2>4, <2>5
<1> QED BY <1>2, <1>3

(* Steps outside of a run for new mail, and outside of the end of a        *)
(* scheduled run.                                                          *)
LEMMA OtherStepsKeepRecurring ==
    ASSUME TypeOK, [Next]_vars,
           ~\E m \in Msgs : HandleAutoReply(m) \/ UnsnoozeTool(m)
                            \/ \E once \in OnceChoices : SnoozeTool(m, once),
           ~(ScheduledAnswered \/ ScheduledMaxTurns)
    PROVE  RecurringSame
<1>1. ASSUME UNCHANGED snoozes PROVE RecurringSame
  BY <1>1 DEF RecurringSame, Recurring
<1>2. ASSUME NEW m \in Msgs, NEW s, SetTaskStatus(m, s)
      PROVE  RecurringSame
  <2>1. CASE UNCHANGED snoozes
    BY <1>1, <2>1
  <2>2. ASSUME NEW fs, ArmWaitingWatchdog(fs) PROVE RecurringSame
    <3>1. PICK n :
            Save([thread |-> Root[run.msg], msg |-> run.msg, watchdog |-> TRUE,
                  once |-> TRUE, fires |-> n, due |-> FALSE], fs)
      BY <2>2 DEF ArmWaitingWatchdog
    <3> DEFINE e == [thread |-> Root[run.msg], msg |-> run.msg, watchdog |-> TRUE,
                     once |-> TRUE, fires |-> n, due |-> FALSE]
    <3>2. e.watchdog = TRUE /\ Save(e, fs)
      BY <3>1
    <3> HIDE DEF e
    <3> QED BY <3>2, WatchdogKeepsRecurring
  <2> QED BY <1>2, <2>1, <2>2 DEF SetTaskStatus
<1>3. ASSUME NEW e \in snoozes, e.watchdog = TRUE,
             WatchdogUnreadable(e) \/ Nudge(e) \/ StandDown(e) \/ GiveUp(e)
      PROVE  RecurringSame
  <2>1. e \in Snooze
    BY DEF TypeOK
  <2>2. /\ Rescheduled(e).watchdog = TRUE
        /\ [Rescheduled(e) EXCEPT !.fires = @ + 1].watchdog = TRUE
    BY <1>3, <2>1 DEF Rescheduled, Snooze
  <2>3. \E fs : \/ Save(Rescheduled(e), fs)
                \/ Save([Rescheduled(e) EXCEPT !.fires = @ + 1], fs)
                \/ Delete(TRUE, e.msg, e.thread, fs)
    BY <1>3 DEF WatchdogUnreadable, Nudge, StandDown, GiveUp
  <2> QED BY <1>3, <2>2, <2>3, WatchdogKeepsRecurring
<1>4. CASE NudgeDone
  <2>1. \/ UNCHANGED snoozes
        \/ \E fs : Delete(TRUE, run.msg, Root[run.msg], fs)
    BY <1>4 DEF NudgeDone
  <2>2. [watchdog |-> TRUE].watchdog = TRUE
    OBVIOUS
  <2> QED BY <1>1, <2>1, <2>2, WatchdogKeepsRecurring
<1>5. ASSUME NEW t \in Threads, NEW kind \in BOOLEAN, Tick(t, kind)
      PROVE  RecurringSame
  <2>1. PICK e \in snoozes :
          snoozes' = (snoozes \ {e}) \cup {[e EXCEPT !.due = TRUE]}
    BY <1>5 DEF Tick, ByThread
  <2> DEFINE d == [e EXCEPT !.due = TRUE]
  <2>2. d.thread = e.thread /\ d.watchdog = e.watchdog /\ d.once = e.once
    BY DEF TypeOK, Snooze
  <2>3. snoozes' = (snoozes \ {e}) \cup {d}
    BY <2>1
  <2> HIDE DEF d
  <2> QED BY <2>2, <2>3 DEF RecurringSame, Recurring
<1>6. ASSUME \/ \E m \in Msgs : \/ Arrive(m) \/ Reject(m) \/ Demo(m)
                                \/ StartMail(m) \/ SkipMail(m)
             \/ Poll \/ FinishBatch \/ MailAnswered \/ MailMaxTurns \/ MailFailed
             \/ Deliver \/ ScheduledFailed \/ EndPoll \/ Crash \/ Restart
             \/ \E e \in snoozes : RunSnooze(e) \/ SnoozeUnreadable(e)
             \/ UNCHANGED vars
      PROVE  UNCHANGED snoozes
  BY <1>6 DEF Arrive, Reject, Demo, StartMail, SkipMail, Poll, FinishBatch,
              MailAnswered, MailMaxTurns, MailFailed, Deliver, ScheduledFailed,
              EndPoll, Crash, Restart, Restarted, RunSnooze, SnoozeUnreadable
<1>7. \A e \in snoozes : DrainWatchdog(e) => e.watchdog = TRUE
  BY DEF DrainWatchdog, TypeOK, Snooze
<1>8. \A e \in snoozes :
        WatchdogUnreadable(e) \/ Nudge(e) \/ StandDown(e) \/ GiveUp(e)
          => RecurringSame
  BY <1>3, <1>7 DEF WatchdogUnreadable, Nudge, StandDown, GiveUp
<1> QED
  BY <1>1, <1>2, <1>4, <1>5, <1>6, <1>8
     DEF Next, MailStep, ToolCall, RunEnds, SnoozeStep

(* A scheduled run that goes on is the same run; one that begins was       *)
(* started by the entry in the file.                                       *)
LEMMA ScheduledRunGoesOn ==
    ASSUME TypeOK, [Next]_vars, Running("schedule")',
           ~\E e \in snoozes : RunSnooze(e)
    PROVE  Running("schedule") /\ run'.msg = run.msg /\ run'.once = run.once
<1> USE DEF Running
<1>1. ASSUME NEW m \in Msgs, NEW s, SetTaskStatus(m, s)
      PROVE  run'.msg = run.msg /\ run'.once = run.once /\ run'.kind = run.kind
             /\ UNCHANGED pc
  BY <1>1, RunType DEF SetTaskStatus, Run
<1>2. CASE Deliver
  BY <1>2, RunType DEF Deliver, Run
<1>3. CASE UNCHANGED <<pc, run>>
  BY <1>3
<1>4. ASSUME pc' # "run" PROVE FALSE
  BY <1>4
<1>5. ASSUME \/ \E m \in Msgs : StartMail(m)
             \/ \E e \in snoozes : Nudge(e)
      PROVE  FALSE
  <2>1. ASSUME NEW m \in Msgs, StartMail(m) PROVE run'.kind = "mail"
    BY <2>1 DEF StartMail, StartRun
  <2>2. ASSUME NEW e \in snoozes, Nudge(e) PROVE run'.kind = "nudge"
    <3>1. StartRun("nudge", e.thread, e.msg, TRUE)
      BY <2>2 DEF Nudge
    <3> QED BY <3>1 DEF StartRun
  <2> QED BY <1>5, <2>1, <2>2
<1>6. ASSUME \/ \E m \in Msgs : \/ Arrive(m) \/ UnsnoozeTool(m)
                                \/ \E once : SnoozeTool(m, once)
             \/ \E t \in Threads, kind \in BOOLEAN : Tick(t, kind)
             \/ UNCHANGED vars
      PROVE  UNCHANGED <<pc, run>>
  BY <1>6 DEF Arrive, UnsnoozeTool, SnoozeTool, Tick, vars, process
<1>7. ASSUME Poll \/ FinishBatch \/ RunEnds \/ EndPoll \/ Crash \/ Restart PROVE FALSE
  BY <1>4, <1>7 DEF Poll, FinishBatch, RunEnds, MailAnswered, MailMaxTurns, MailFailed,
                    ScheduledAnswered, ScheduledMaxTurns, ScheduledFailed, NudgeDone,
                    EndRun, EndPoll, Crash, Restart, Restarted
<1>8. ASSUME NEW m \in Msgs,
             HandleAutoReply(m) \/ Reject(m) \/ Demo(m) \/ SkipMail(m)
      PROVE  FALSE
  BY <1>4, <1>8 DEF HandleAutoReply, Reject, Demo, SkipMail, ForModel, Take
<1>9. ASSUME NEW e \in snoozes,
             \/ SnoozeUnreadable(e) \/ WatchdogUnreadable(e)
             \/ StandDown(e) \/ GiveUp(e)
      PROVE  FALSE
  BY <1>4, <1>9 DEF SnoozeUnreadable, WatchdogUnreadable, StandDown, GiveUp,
                    DrainWatchdog, Drain, process
<1> QED
  BY <1>1, <1>2, <1>3, <1>4, <1>5, <1>6, <1>7, <1>8, <1>9
     DEF Next, MailStep, ToolCall, SnoozeStep

(* The snooze tools, called on a message, leave the schedules of every     *)
(* thread but that of the message alone.                                   *)
LEMMA SnoozeToolsTouchOwn ==
    ASSUME WellFormed(snoozes, Root), NEW m, NEW t, Root[m] # t,
           UnsnoozeTool(m) \/ \E once : SnoozeTool(m, once), Recurring(t)
    PROVE  Recurring(t)'
<1>1. PICK f \in snoozes : f.thread = t /\ ~f.watchdog /\ ~f.once
  BY DEF Recurring
<1>2. CASE UnsnoozeTool(m)
  <2>1. snoozes' = snoozes \ ByMessage(snoozes, FALSE, m)
    BY <1>2 DEF UnsnoozeTool, Delete, DeleteSnooze
  <2>2. f \in snoozes'
    BY <1>1, <2>1 DEF ByMessage, WellFormed
  <2> QED BY <1>1, <2>2 DEF Recurring
<1>3. ASSUME NEW once, SnoozeTool(m, once) PROVE Recurring(t)'
  <2>1. PICK due, fs :
          Save([thread |-> Root[m], msg |-> m, watchdog |-> FALSE,
                once |-> once, fires |-> 0, due |-> due], fs)
    BY <1>3 DEF SnoozeTool
  <2> DEFINE e == [thread |-> Root[m], msg |-> m, watchdog |-> FALSE,
                   once |-> once, fires |-> 0, due |-> due]
  <2>2. e.thread = Root[e.msg] /\ e.thread = Root[m] /\ Save(e, fs)
    BY <2>1
  <2> HIDE DEF e
  <2>3. f \in snoozes'
    BY <1>1, <2>2, SaveTouchesOwn
  <2> QED BY <1>1, <2>3 DEF Recurring
<1> QED BY <1>2, <1>3

(* One step: the invariant is kept, and so is every recurring schedule,    *)
(* except by a tool call of a run for new mail on a message of its thread, *)
(* and by a process that dies as it advances the schedule.                 *)
LEMMA RecurringStep ==
    ASSUME FailureKinds \cap {"snooze", "append"} = {},
           TypeOK, OneEntryPerThreadAndKind, OneShotAlone, [Next]_vars
    PROVE  /\ OneShotAlone'
           /\ \A t \in Threads : Recurring(t) /\ ~Recurring(t)'
                 => EndedByModel(t) \/ LostInAdvance(t)
<1> USE RootAssumption
<1>1. WellFormed(snoozes, Root)
  BY OneEntryIsWellFormed
<1>2. ASSUME NEW m \in Msgs, \/ UnsnoozeTool(m)
                             \/ \E once \in OnceChoices : SnoozeTool(m, once)
      PROVE  /\ OneShotAlone'
             /\ \A t \in Threads : Recurring(t) /\ ~Recurring(t)' => EndedByModel(t)
  <2>1. m \in Named /\ Running("mail") /\ UNCHANGED <<pc, run>>
    BY <1>2 DEF UnsnoozeTool, SnoozeTool
  <2>2. OneShotAlone'
    BY <2>1 DEF OneShotAlone, Running
  <2>3. ASSUME NEW t \in Threads, Recurring(t), ~Recurring(t)' PROVE EndedByModel(t)
    <3>1. Root[m] = t
      BY <1>1, <1>2, <2>3, SnoozeToolsTouchOwn
    <3> QED BY <1>2, <2>1, <3>1 DEF EndedByModel
  <2> QED BY <2>2, <2>3
<1>3. ASSUME NEW m \in Msgs, HandleAutoReply(m)
      PROVE  OneShotAlone' /\ \A t \in Threads : Recurring(t) => Recurring(t)'
  BY <1>3 DEF HandleAutoReply, Take, AbortThreadSnoozes, Recurring, OneShotAlone,
              Running
<1>4. ASSUME ScheduledAnswered \/ ScheduledMaxTurns
      PROVE  /\ OneShotAlone'
             /\ \A t \in Threads : Recurring(t) /\ ~Recurring(t)' => LostInAdvance(t)
  <2>1. Running("schedule") /\ pc' # "run"
    BY <1>4 DEF ScheduledAnswered, ScheduledMaxTurns, EndRun
  <2>2. PICK fs : /\ fs \subseteq FailureKinds \/ "crash" \in fs
                  /\ dead' = ("crash" \in fs)
                  /\ AdvanceOrDeleteSnooze(fs)
    BY <1>4, FailingKinds DEF ScheduledAnswered, ScheduledMaxTurns, Spend, Fails
  <2>3. OneShotAlone'
    BY <2>1 DEF OneShotAlone, Running
  <2>4. ASSUME NEW t \in Threads, Recurring(t), ~Recurring(t)' PROVE LostInAdvance(t)
    <3>1. fs \cap {"snooze", "append"} # {} /\ t = Root[run.msg]
      BY <1>1, <2>1, <2>2, <2>4, AdvanceKeepsRecurring
    <3> QED BY <2>1, <2>2, <3>1 DEF LostInAdvance
  <2> QED BY <2>3, <2>4
<1>5. ASSUME NEW e \in snoozes, RunSnooze(e) PROVE OneShotAlone'
  <2>1. /\ UNCHANGED snoozes /\ ~e.watchdog
        /\ run'.msg = e.msg /\ run'.once = e.once
    BY <1>5 DEF RunSnooze, StartRun, files
  <2>2. e.thread = Root[e.msg]
    BY <1>1 DEF WellFormed
  <2>3. ASSUME e.once, Recurring(Root[e.msg]) PROVE FALSE
    BY <1>1, <2>1, <2>2, <2>3 DEF Recurring, WellFormed, TypeOK, Snooze
  <2> QED BY <2>1, <2>3 DEF OneShotAlone, Recurring
<1>6. ASSUME RecurringSame PROVE OneShotAlone'
  <2>1. ASSUME Running("schedule")', ~\E e \in snoozes : RunSnooze(e), run'.once
        PROVE  \A f \in snoozes' :
                 f.thread = Root[run'.msg] => f.watchdog \/ f.once
    <3>1. Running("schedule") /\ run'.msg = run.msg /\ run.once
      BY <2>1, ScheduledRunGoesOn
    <3>2. Root[run.msg] \in Threads
      BY <3>1, RunType DEF Running, Run
    <3> QED BY <1>6, <3>1, <3>2 DEF RecurringSame, Recurring, OneShotAlone
  <2> QED BY <1>5, <2>1 DEF OneShotAlone, Recurring
<1> QED
  BY <1>2, <1>3, <1>4, <1>6, OtherStepsKeepRecurring DEF RecurringSame

(* RecurringSurvives: as long as no write of the snooze file returns an    *)
(* error, a recurring schedule ends only when the model, in a run for new  *)
(* mail, removes or replaces it by a message of its thread, or when the    *)
(* process dies while AdvanceOrDeleteSnooze puts it back after a run.      *)
THEOREM RecurringSchedulesSurvive ==
    ASSUME FailureKinds \cap {"snooze", "append"} = {}
    PROVE  Spec => RecurringSurvives
<1>1. Init => OneShotAlone
  BY DEF Init, OneShotAlone, Running
<1> QED
  BY <1>1, TypeCorrect, SnoozeFileWellFormed, RecurringStep, PTL
     DEF Spec, RecurringSurvives

=============================================================================
