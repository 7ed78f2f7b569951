---------------------------- MODULE MessageProofs ----------------------------
(***************************************************************************)
(* What becomes of a message in PollLoop, for any messages, threads and    *)
(* budget: it is retried a bounded number of times, run again never,       *)
(* forgotten never and dropped in silence never.  Each theorem names the   *)
(* calls that have to succeed for it.                                      *)
(***************************************************************************)
EXTENDS PollLoopProofs

USE DEF vars, mailbox, files, process, ghosts

-----------------------------------------------------------------------------
(* The batch.                                                              *)

Done == seen \cup processed

(* The batch and the list of finished messages are empty outside of it.    *)
BatchPhase ==
    \/ pc = "mail"
    \/ pc = "run" /\ run.kind = "mail"
    \/ batch = {} /\ processed = {}

(* A message is to be taken, being worked on, or finished.                 *)
BatchInv ==
    /\ BatchPhase
    /\ batch \cap Done = {}
    /\ Running("mail") => run.msg \notin batch \cup Done

(* The steps of the snooze file, tools and time leave the batch alone.     *)
LEMMA SnoozeKeepsBatch ==
    ASSUME TypeOK, BatchInv, SnoozeStep
    PROVE  BatchInv'
<1>1. pc = "snooze"
  BY DEF SnoozeStep, EndPoll, RunSnooze, SnoozeUnreadable, WatchdogUnreadable,
         StandDown, GiveUp, Nudge, DrainWatchdog, Drain
<1>2. batch = {} /\ processed = {}
  BY <1>1 DEF BatchInv, BatchPhase
<1>3. batch' = batch /\ processed' = processed
  BY DEF SnoozeStep, EndPoll, RunSnooze, SnoozeUnreadable, WatchdogUnreadable,
         StandDown, GiveUp, Nudge
<1>4. ~Running("mail")'
  <2>1. CASE \E e \in snoozes : RunSnooze(e) \/ Nudge(e)
    BY <2>1 DEF RunSnooze, Nudge, StartRun, Running
  <2>2. CASE ~\E e \in snoozes : RunSnooze(e) \/ Nudge(e)
    <3>1. pc' # "run"
      BY <1>1, <2>2 DEF SnoozeStep, EndPoll, SnoozeUnreadable, WatchdogUnreadable,
                        StandDown, GiveUp
    <3> QED BY <3>1 DEF Running
  <2> QED BY <2>1, <2>2
<1> QED BY <1>2, <1>3, <1>4 DEF BatchInv, BatchPhase, Done

(* A tool call changes of the run only what it delivered and set.          *)
LEMMA ToolKeepsBatch ==
    ASSUME TypeOK, BatchInv, ToolCall
    PROVE  BatchInv'
<1>1. UNCHANGED <<pc, batch, processed, seen>>
  BY DEF ToolCall, Deliver, SetTaskStatus, SnoozeTool, UnsnoozeTool
<1>2. pc = "run" /\ run \in Run
  BY RunType DEF ToolCall, Deliver, SetTaskStatus, SnoozeTool, UnsnoozeTool, Running
<1>3. run'.kind = run.kind /\ run'.msg = run.msg
  BY <1>2 DEF Run, ToolCall, Deliver, SetTaskStatus, SnoozeTool, UnsnoozeTool
<1> QED BY <1>1, <1>3 DEF BatchInv, BatchPhase, Done, Running

(* A run that ends finishes its message or leaves it unseen.               *)
LEMMA RunEndsKeepsBatch ==
    ASSUME TypeOK, BatchInv, RunEnds
    PROVE  BatchInv'
<1>1. pc' # "run" /\ batch' = batch
  BY DEF RunEnds, MailAnswered, MailMaxTurns, MailFailed, ScheduledAnswered,
         ScheduledMaxTurns, ScheduledFailed, NudgeDone, EndRun
<1>2. CASE MailAnswered \/ MailMaxTurns \/ MailFailed
  <2>1. Running("mail") /\ pc' = "mail"
    BY <1>2 DEF MailAnswered, MailMaxTurns, MailFailed, EndRun
  <2>2. Done' \subseteq Done \cup {run.msg}
    BY <1>2 DEF MailAnswered, MailMaxTurns, MailFailed, SendBounce, Done
  <2> QED BY <1>1, <2>1, <2>2 DEF BatchInv, BatchPhase, Running
<1>3. CASE ScheduledAnswered \/ ScheduledMaxTurns \/ ScheduledFailed \/ NudgeDone
  <2>1. pc = "run" /\ run.kind # "mail"
    BY <1>3 DEF ScheduledAnswered, ScheduledMaxTurns, ScheduledFailed, NudgeDone,
                Running
  <2>2. batch = {} /\ processed = {}
    BY <2>1 DEF BatchInv, BatchPhase
  <2>3. processed' = processed
    BY <1>3 DEF ScheduledAnswered, ScheduledMaxTurns, ScheduledFailed, NudgeDone
  <2> QED BY <1>1, <2>2, <2>3 DEF BatchInv, BatchPhase, Running
<1> QED BY <1>2, <1>3 DEF RunEnds

(* The poll, and the handlers that take a message of the batch.            *)
LEMMA MailKeepsBatch ==
    ASSUME TypeOK, BatchInv, MailStep
    PROVE  BatchInv'
<1>1. CASE Poll
  <2>1. processed' = {} /\ seen' = seen /\ batch' = arrived \ seen /\ pc' = "mail"
    BY <1>1 DEF Poll
  <2> QED BY <2>1 DEF BatchInv, BatchPhase, Done, Running
<1>2. CASE FinishBatch
  <2>1. batch' = {} /\ processed' = {} /\ pc' = "snooze"
    BY <1>2 DEF FinishBatch
  <2> QED BY <2>1 DEF BatchInv, BatchPhase, Done, Running
<1>3. ASSUME NEW m \in Msgs, HandleAutoReply(m) \/ Reject(m) \/ Demo(m)
      PROVE  BatchInv'
  <2>1. m \in batch /\ batch' = batch \ {m} /\ pc = "mail" /\ pc' = pc
    BY <1>3 DEF HandleAutoReply, Reject, Demo, Take
  <2>2. seen' \subseteq seen \cup {m} /\ processed' = processed
    BY <1>3 DEF HandleAutoReply, Reject, Demo, SendBounce
  <2> QED BY <2>1, <2>2 DEF BatchInv, BatchPhase, Done, Running
<1>4. ASSUME NEW m \in Msgs, StartMail(m) PROVE BatchInv'
  <2>1. m \in batch /\ batch' = batch \ {m} /\ UNCHANGED <<seen, processed>>
    BY <1>4 DEF StartMail, ForModel, Take
  <2>2. pc' = "run" /\ run'.kind = "mail" /\ run'.msg = m
    BY <1>4 DEF StartMail, StartRun
  <2> QED BY <2>1, <2>2 DEF BatchInv, BatchPhase, Done, Running
<1>5. ASSUME NEW m \in Msgs, SkipMail(m) PROVE BatchInv'
  <2>1. /\ batch' = batch \ {m} /\ UNCHANGED <<seen, processed, pc>>
        /\ pc = "mail"
    BY <1>5 DEF SkipMail, ForModel, Take
  <2> QED BY <2>1 DEF BatchInv, BatchPhase, Done, Running
<1> QED BY <1>1, <1>2, <1>3, <1>4, <1>5 DEF MailStep

(* Every step keeps the places of the batch apart.                         *)
LEMMA BatchStep == TypeOK /\ BatchInv /\ [Next]_vars => BatchInv'
<1> SUFFICES ASSUME TypeOK, BatchInv, [Next]_vars PROVE BatchInv'
  OBVIOUS
<1>1. CASE \/ \E m \in Msgs : Arrive(m)
           \/ \E t \in Threads, kind \in BOOLEAN : Tick(t, kind)
           \/ UNCHANGED vars
  <2>1. UNCHANGED <<pc, run, batch, processed, seen>>
    BY <1>1 DEF Arrive, Tick
  <2> QED BY <2>1 DEF BatchInv, BatchPhase, Done, Running
<1>2. CASE Crash \/ Restart
  <2>1. batch' = {} /\ processed' = {} /\ pc' = "idle"
    BY <1>2 DEF Crash, Restart, Restarted
  <2> QED BY <2>1 DEF BatchInv, BatchPhase, Done, Running
<1> QED
  BY <1>1, <1>2, MailKeepsBatch, ToolKeepsBatch, RunEndsKeepsBatch, SnoozeKeepsBatch
     DEF Next

(* At every moment a message is in one place of the batch only.            *)
THEOREM BatchInvariant == Spec => []BatchInv
<1>1. Init => BatchInv
  BY DEF Init, BatchInv, BatchPhase, Done, Running
<1> QED BY <1>1, BatchStep, TypeCorrect, PTL DEF Spec

-----------------------------------------------------------------------------
(* While marks succeed, what is finished stays so until the process dies.  *)
LEMMA DoneStays ==
    ASSUME "mark" \notin FailureKinds, BatchInv, [Next]_vars, ~Crash, ~Restart, ~dead'
    PROVE  Done \subseteq Done'
<1>1. CASE Poll
  <2>1. processed = {} /\ seen' = seen
    BY <1>1 DEF Poll, BatchInv, BatchPhase
  <2> QED BY <2>1 DEF Done
<1>2. CASE FinishBatch
  <2>1. PICK fs \in Failing(<<"mark">>) :
          /\ dead' = ("crash" \in fs)
          /\ \E missed \in IF "mark" \in fs THEN SUBSET Finished ELSE {{}} :
              seen' = seen \cup (Finished \ missed)
    BY <1>2 DEF FinishBatch, Spend, Fails
  <2>2. "mark" \notin fs
    BY <2>1, FailingKinds
  <2>3. seen' = seen \cup processed
    BY <2>1, <2>2 DEF Finished
  <2> QED BY <2>3 DEF Done
<1>3. CASE MailStep /\ ~Poll /\ ~FinishBatch
  <2>1. seen \subseteq seen' /\ processed' = processed
    BY <1>3 DEF MailStep, HandleAutoReply, Reject, Demo, StartMail, SkipMail, SendBounce
  <2> QED BY <2>1 DEF Done
<1>4. CASE RunEnds
  <2>1. seen \subseteq seen' /\ processed \subseteq processed'
    BY <1>4 DEF RunEnds, MailAnswered, MailMaxTurns, MailFailed, ScheduledAnswered,
                ScheduledMaxTurns, ScheduledFailed, NudgeDone, SendBounce
  <2> QED BY <2>1 DEF Done
<1>5. CASE SnoozeStep
  <2>1. seen \subseteq seen' /\ processed' = processed
    BY <1>5 DEF SnoozeStep, EndPoll, RunSnooze, SnoozeUnreadable, WatchdogUnreadable,
                StandDown, GiveUp, Nudge, SendBounce
  <2> QED BY <2>1 DEF Done
<1>6. CASE \/ \E m \in Msgs : Arrive(m)
           \/ \E t \in Threads, kind \in BOOLEAN : Tick(t, kind)
           \/ ToolCall \/ UNCHANGED vars
  <2>1. seen' = seen /\ processed' = processed
    BY <1>6 DEF Arrive, Tick, ToolCall, Deliver, SetTaskStatus, SnoozeTool, UnsnoozeTool
  <2> QED BY <2>1 DEF Done
<1> QED BY <1>1, <1>2, <1>3, <1>4, <1>5, <1>6 DEF Next

(* A run that answered or gave up has finished its message.                *)
LEMMA RunFinishes ==
    ASSUME "mark" \notin FailureKinds, ~dead',
           \/ MailAnswered \/ MailMaxTurns
           \/ MailFailed /\ BudgetSpent(run.msg)
                /\ retries' # [retries EXCEPT ![run.msg] = @ + 1]
    PROVE  run.msg \in Done'
<1>1. CASE MailAnswered
  BY <1>1 DEF MailAnswered, Done
<1>2. CASE MailMaxTurns
  <2>1. PICK fs \in Failing(SaveCalls \o BounceCalls) :
          /\ dead' = ("crash" \in fs)
          /\ \/ processed' = processed \cup {run.msg}
             \/ /\ SendBounce(run.msg, fs)
                /\ processed' = IF Bounced(fs) THEN processed ELSE processed \cup {run.msg}
    BY <1>2 DEF MailMaxTurns, Spend, Fails
  <2>2. "mark" \notin fs
    BY <2>1, FailingKinds
  <2> QED BY <2>1, <2>2 DEF SendBounce, Done
<1>3. CASE MailFailed /\ retries' # [retries EXCEPT ![run.msg] = @ + 1]
  <2>1. PICK fs \in Failing(SaveCalls \o BounceCalls) :
          /\ dead' = ("crash" \in fs)
          /\ SendBounce(run.msg, fs)
          /\ processed' = IF Bounced(fs) THEN processed ELSE processed \cup {run.msg}
    BY <1>3 DEF MailFailed, Spend, Fails
  <2>2. "mark" \notin fs
    BY <2>1, FailingKinds
  <2> QED BY <2>1, <2>2 DEF SendBounce, Done
<1> QED BY <1>1, <1>2, <1>3

-----------------------------------------------------------------------------
(* Retries.                                                                *)

(* Every failed run of a message is in its counter until the message is    *)
(* finished, or the process dies and the counter with it.                  *)
RetryInv ==
    \A m \in Msgs : /\ failedRuns[m] <= MaxEmailRetries
                    /\ dead \/ failedRuns[m] <= retries[m] \/ m \in Done

(* A run for mail that fails counts against its message, or finishes it    *)
(* and forgets the count.                                                  *)
LEMMA FailedKeepsRetries ==
    ASSUME "mark" \notin FailureKinds, TypeOK, BatchInv, RetryInv,
           ~dead, dead' \/ Done \subseteq Done', MailFailed
    PROVE  RetryInv'
<1> USE RetriesAssumption
<1>1. /\ Running("mail") /\ run.msg \in Msgs
      /\ failedRuns' = [failedRuns EXCEPT ![run.msg] = Bump(@, MaxEmailRetries + 1)]
  BY RunType DEF MailFailed, Running
<1>2. failedRuns[run.msg] <= retries[run.msg]
  BY <1>1 DEF BatchInv, RetryInv
<1>3. /\ retries[run.msg] \in 0..(MaxEmailRetries - 1)
      /\ failedRuns[run.msg] \in 0..(MaxEmailRetries + 1)
  BY <1>1 DEF TypeOK
<1>4. failedRuns'[run.msg] <= retries[run.msg] + 1
  BY <1>1, <1>2, <1>3 DEF Bump, TypeOK
<1>5. failedRuns'[run.msg] <= MaxEmailRetries
  <2>1. failedRuns'[run.msg] \in Int
    BY <1>1, <1>3 DEF Bump, TypeOK
  <2> QED BY <1>3, <1>4, <2>1
<1>6. \A m \in Msgs \ {run.msg} :
         failedRuns'[m] = failedRuns[m] /\ (retries'[m] = retries[m])
  BY <1>1 DEF MailFailed, TypeOK
<1>7. dead' \/ failedRuns'[run.msg] <= retries'[run.msg] \/ run.msg \in Done'
  <2>1. CASE retries' = [retries EXCEPT ![run.msg] = @ + 1]
    BY <1>1, <1>4, <2>1 DEF TypeOK
  <2>2. CASE retries' # [retries EXCEPT ![run.msg] = @ + 1] /\ ~dead'
    <3>1. BudgetSpent(run.msg)
      BY <2>2 DEF MailFailed
    <3> QED BY <2>2, <3>1, RunFinishes
  <2> QED BY <2>1, <2>2
<1> QED BY <1>5, <1>6, <1>7 DEF RetryInv

(* The count of failed runs follows the retry counter until the message is *)
(* finished, then stays.                                                   *)
LEMMA RetryStep ==
    ASSUME "mark" \notin FailureKinds
    PROVE  TypeOK /\ BatchInv /\ RetryInv /\ [Next]_vars => RetryInv'
<1> SUFFICES ASSUME TypeOK, BatchInv, RetryInv, [Next]_vars PROVE RetryInv'
  OBVIOUS
<1> USE RetriesAssumption
<1>1. CASE Crash \/ Restart
  BY <1>1 DEF Crash, Restart, Restarted, RetryInv
<1>2. CASE dead /\ ~Restart
  <2>1. UNCHANGED <<failedRuns, dead>>
    BY <1>2, DeadStays
  <2> QED BY <1>2, <2>1 DEF RetryInv
<1> DEFINE Alive == ~dead /\ ~Crash /\ ~Restart
<1>3. CASE Alive /\ UNCHANGED <<failedRuns, retries>>
  BY <1>3, DoneStays DEF RetryInv
<1>4. CASE Alive /\ (MailAnswered \/ MailMaxTurns)
  <2>1. /\ run.msg \in Msgs /\ failedRuns' = failedRuns
        /\ retries' = [retries EXCEPT ![run.msg] = 0]
    BY <1>4, RunType DEF MailAnswered, MailMaxTurns, Running
  <2>2. dead' \/ (run.msg \in Done' /\ Done \subseteq Done')
    BY <1>4, RunFinishes, DoneStays
  <2>3. \A m \in Msgs \ {run.msg} : retries'[m] = retries[m]
    BY <2>1 DEF TypeOK
  <2> QED BY <1>4, <2>1, <2>2, <2>3 DEF RetryInv
<1>5. CASE Alive /\ MailFailed
  BY <1>5, DoneStays, FailedKeepsRetries
<1>6. CASE Alive /\ ~MailAnswered /\ ~MailMaxTurns /\ ~MailFailed
  <2>1. UNCHANGED <<failedRuns, retries>>
    BY <1>6 DEF Next, Arrive, Tick, MailStep, Poll, FinishBatch, HandleAutoReply, Reject,
                Demo, StartMail, SkipMail, ToolCall, Deliver, SetTaskStatus, SnoozeTool,
                UnsnoozeTool, RunEnds, ScheduledAnswered, ScheduledMaxTurns,
                ScheduledFailed, NudgeDone, SnoozeStep, EndPoll, RunSnooze,
                SnoozeUnreadable, WatchdogUnreadable, StandDown, GiveUp, Nudge
  <2> QED BY <1>3, <1>6, <2>1
<1> QED BY <1>1, <1>2, <1>4, <1>5, <1>6

(* While marks succeed, a message makes the model fail at most             *)
(* MaxEmailRetries times in the life of a process: the counter in          *)
(* processNewEmails forgets a message only when it is finished.            *)
THEOREM RetriesAreBounded ==
    ASSUME "mark" \notin FailureKinds
    PROVE  Spec => []FailedRunsBounded
<1>1. Init => RetryInv
  BY RetriesAssumption DEF Init, RetryInv
<1>2. TypeOK /\ RetryInv => FailedRunsBounded
  BY RetriesAssumption DEF TypeOK, RetryInv, FailedRunsBounded
<1> QED BY <1>1, <1>2, RetryStep, TypeCorrect, BatchInvariant, PTL DEF Spec

-----------------------------------------------------------------------------
(* Answers.                                                                *)

AnsweredDone == answered \subseteq Done

(* A process that never dies is never dead.                                *)
LEMMA LivesOn ==
    ASSUME "crash" \notin FailureKinds, ~dead, [Next]_vars
    PROVE  ~dead'
<1>1. \A calls : \A fs \in Failing(calls) \cup Erring(calls) \cup {{}} : "crash" \notin fs
  BY FailingKinds
<1>2. ASSUME \E calls : \E fs \in Failing(calls) \cup Erring(calls) \cup {{}} : Fails(fs)
      PROVE  ~dead'
  BY <1>1, <1>2 DEF Fails
<1>3. CASE UNCHANGED dead
  BY <1>3
<1>4. CASE MailStep
  BY <1>2, <1>3, <1>4 DEF MailStep, Poll, FinishBatch, HandleAutoReply, Reject, Demo,
                          StartMail, SkipMail, Spend
<1>5. CASE ToolCall
  BY <1>2, <1>3, <1>5 DEF ToolCall, Deliver, SetTaskStatus, SnoozeTool, UnsnoozeTool, Spend
<1>6. CASE RunEnds
  BY <1>2, <1>3, <1>6 DEF RunEnds, MailAnswered, MailMaxTurns, MailFailed,
                          ScheduledAnswered, ScheduledMaxTurns, ScheduledFailed,
                          NudgeDone, Spend
<1>7. CASE SnoozeStep
  BY <1>2, <1>3, <1>7 DEF SnoozeStep, EndPoll, RunSnooze, SnoozeUnreadable,
                          WatchdogUnreadable, StandDown, GiveUp, Nudge, Spend
<1>8. CASE \/ \E m \in Msgs : Arrive(m)
           \/ \E t \in Threads, kind \in BOOLEAN : Tick(t, kind)
           \/ Restart \/ UNCHANGED vars
  BY <1>3, <1>8 DEF Arrive, Tick, Restart
<1> QED BY <1>4, <1>5, <1>6, <1>7, <1>8 DEF Next, Crash

(* What was answered is finished, and while marks succeed stays finished.  *)
LEMMA AnsweredStep ==
    ASSUME "mark" \notin FailureKinds, "crash" \notin FailureKinds
    PROVE  BatchInv /\ ~dead /\ AnsweredDone /\ [Next]_vars => ~dead' /\ AnsweredDone'
<1> SUFFICES ASSUME BatchInv, ~dead, AnsweredDone, [Next]_vars
             PROVE  ~dead' /\ AnsweredDone'
  OBVIOUS
<1>1. ~Crash /\ ~Restart /\ ~dead'
  BY LivesOn DEF Crash, Restart
<1>2. Done \subseteq Done'
  BY <1>1, DoneStays
<1>3. CASE MailAnswered \/ MailMaxTurns
  <2>1. answered' \subseteq answered \cup {run.msg}
    BY <1>3 DEF MailAnswered, MailMaxTurns
  <2>2. run.msg \in Done'
    BY <1>1, <1>3, RunFinishes
  <2> QED BY <1>1, <1>2, <2>1, <2>2 DEF AnsweredDone
<1>4. CASE ~MailAnswered /\ ~MailMaxTurns
  <2>1. answered' = answered
    BY <1>1, <1>4
       DEF Next, Arrive, Tick, MailStep, Poll, FinishBatch, HandleAutoReply, Reject,
           Demo, StartMail, SkipMail, ToolCall, Deliver, SetTaskStatus, SnoozeTool,
           UnsnoozeTool, RunEnds, MailFailed, ScheduledAnswered, ScheduledMaxTurns,
           ScheduledFailed, NudgeDone, SnoozeStep, EndPoll, RunSnooze,
           SnoozeUnreadable, WatchdogUnreadable, StandDown, GiveUp, Nudge
  <2> QED BY <1>1, <1>2, <2>1 DEF AnsweredDone
<1> QED BY <1>3, <1>4

(* While marks succeed and the process lives, a message that was answered  *)
(* is not given to the model again: it is marked, or waits in processed to *)
(* be marked, and only unmarked messages get into a batch.                 *)
THEOREM AnsweredOnce ==
    ASSUME "mark" \notin FailureKinds, "crash" \notin FailureKinds
    PROVE  Spec => AnsweredIsNotRerun
<1>1. Init => ~dead /\ AnsweredDone
  BY DEF Init, AnsweredDone, Done
<1>2. Spec => []AnsweredDone
  BY <1>1, AnsweredStep, BatchInvariant, PTL DEF Spec
<1>3. BatchInv /\ AnsweredDone => \A m \in Msgs : StartMail(m) => m \notin answered
  BY DEF BatchInv, AnsweredDone, StartMail, ForModel, Take
<1> QED BY <1>2, <1>3, BatchInvariant, PTL DEF AnsweredIsNotRerun

-----------------------------------------------------------------------------
(* Silence.                                                                *)

Accounted == answered \cup notified \cup AutoReplies
DoneIsAccounted == seen \subseteq Accounted /\ (dead \/ processed \subseteq Accounted)

(* A message is finished only by a step that accounts for it, or by a      *)
(* process that has died and will not mark it any more.                    *)
LEMMA AccountedStep ==
    ASSUME "smtp" \notin FailureKinds
    PROVE  DoneIsAccounted /\ [Next]_vars => DoneIsAccounted'
<1> SUFFICES ASSUME DoneIsAccounted, [Next]_vars PROVE DoneIsAccounted'
  OBVIOUS
<1>1. \A K : \A fs \in Failing(K) : Bounced(fs) \/ "crash" \in fs
  BY FailingKinds DEF Bounced
<1>2. ASSUME ~dead, Done' \subseteq Done,
             answered \subseteq answered', notified \subseteq notified'
      PROVE  DoneIsAccounted'
  BY <1>2 DEF DoneIsAccounted, Done, Accounted
<1>3. ASSUME ~dead, NEW x, Done' \subseteq Done \cup {x}, x \in Accounted',
             answered \subseteq answered', notified \subseteq notified'
      PROVE  DoneIsAccounted'
  BY <1>3 DEF DoneIsAccounted, Done, Accounted
(* Dying, the process marks nothing it has not accounted for.              *)
<1>12. ASSUME ~dead, dead', NEW x,
              \/ seen' \subseteq seen
              \/ seen' \subseteq seen \cup {x} /\ x \in Accounted',
              answered \subseteq answered', notified \subseteq notified'
       PROVE  DoneIsAccounted'
  BY <1>12 DEF DoneIsAccounted, Accounted
<1>13. CASE dead
  <2>1. CASE UNCHANGED <<seen, files, process, ghosts>>
    BY <2>1 DEF DoneIsAccounted, Accounted
  <2>2. CASE Restart
    BY <2>2 DEF Restart, Restarted, DoneIsAccounted, Accounted
  <2> QED BY <1>13, <2>1, <2>2, DeadStays
<1>4. ASSUME ~dead, NEW m \in Msgs, HandleAutoReply(m) PROVE DoneIsAccounted'
  <2>1. Done' \subseteq Done \cup {m} /\ answered' = answered /\ m \in AutoReplies
    BY <1>4 DEF HandleAutoReply, Done
  <2>2. notified \subseteq notified'
    BY <1>4 DEF HandleAutoReply, NotifyUpstream, Notify
  <2> QED BY <1>3, <1>4, <2>1, <2>2 DEF Accounted
<1>5. ASSUME ~dead, NEW m \in Msgs, Reject(m) \/ Demo(m) PROVE DoneIsAccounted'
  <2>1. PICK fs \in Failing(BounceCalls) :
          /\ notified' = IF Bounced(fs) THEN notified \cup {m} ELSE notified
          /\ seen' \subseteq seen \cup {m}
          /\ "mark" \in fs => seen' = seen
    BY <1>5 DEF Reject, Demo, SendBounce
  <2>2. processed' = processed /\ answered' = answered
    BY <1>5 DEF Reject, Demo
  <2>3. "mark" \notin fs => Bounced(fs)
    <3>1. BounceCalls \in Seq(Kinds) /\ BounceCalls[Len(BounceCalls)] = "mark"
      BY DEF BounceCalls, Kinds
    <3>2. fs \in Erring(BounceCalls) \/ "mark" \in fs
      BY <2>1, <3>1, DyingSkipsLast
    <3> QED BY <3>2, FailingKinds DEF Bounced
  <2>4. CASE "mark" \in fs
    BY <1>2, <1>5, <2>1, <2>2, <2>4 DEF Done
  <2>5. CASE Bounced(fs)
    <3>1. Done' \subseteq Done \cup {m} /\ notified' = notified \cup {m}
      BY <2>1, <2>2, <2>5 DEF Done
    <3> QED BY <1>3, <1>5, <2>2, <3>1 DEF Accounted
  <2> QED BY <2>3, <2>4, <2>5
<1>6. CASE ~dead /\ MailAnswered
  <2>1. Done' \subseteq Done \cup {run.msg} /\ notified' = notified
        /\ answered' = answered \cup {run.msg}
    BY <1>6 DEF MailAnswered, Done
  <2> QED BY <1>3, <1>6, <2>1 DEF Accounted
(* The end of a run that may bounce its message.                           *)
<1>14. ASSUME ~dead, NEW K, NEW fs \in Failing(K), dead' = ("crash" \in fs),
              SendBounce(run.msg, fs), answered' = answered,
              processed' = IF Bounced(fs) THEN processed ELSE processed \cup {run.msg}
       PROVE  DoneIsAccounted'
  <2>1. CASE Bounced(fs)
    <3>1. Done' \subseteq Done \cup {run.msg} /\ notified' = notified \cup {run.msg}
      BY <1>14, <2>1 DEF SendBounce, Done
    <3> QED BY <1>3, <1>14, <3>1 DEF Accounted
  <2>2. CASE ~Bounced(fs)
    <3>1. dead' /\ seen' = seen /\ notified' = notified
      BY <1>1, <1>14, <2>2 DEF SendBounce
    <3> QED BY <1>12, <1>14, <3>1
  <2> QED BY <2>1, <2>2
<1>7. CASE ~dead /\ MailMaxTurns
  <2>1. PICK fs \in Failing(SaveCalls \o BounceCalls) :
          /\ dead' = ("crash" \in fs)
          /\ \/ /\ NoticeUnneeded(Root[run.msg], fs)
                /\ processed' = processed \cup {run.msg}
                /\ answered' = IF run.statusSet /\ "crash" \notin fs
                                 THEN answered \cup {run.msg} ELSE answered
                /\ UNCHANGED <<seen, notified>>
             \/ /\ SendBounce(run.msg, fs)
                /\ processed' = IF Bounced(fs) THEN processed ELSE processed \cup {run.msg}
                /\ UNCHANGED answered
    BY <1>7 DEF MailMaxTurns, Spend, Fails
  <2>2. CASE NoticeUnneeded(Root[run.msg], fs) /\ UNCHANGED <<seen, notified>>
             /\ processed' = processed \cup {run.msg}
             /\ answered' = IF run.statusSet /\ "crash" \notin fs
                              THEN answered \cup {run.msg} ELSE answered
    <3>1. CASE "crash" \in fs
      BY <1>7, <1>12, <2>1, <2>2, <3>1
    <3>2. CASE "crash" \notin fs
      <4>1. run.statusSet
        BY <2>2 DEF NoticeUnneeded
      <4>2. Done' \subseteq Done \cup {run.msg} /\ answered' = answered \cup {run.msg}
        BY <2>2, <3>2, <4>1 DEF Done
      <4> QED BY <1>3, <1>7, <2>2, <4>2 DEF Accounted
    <3> QED BY <3>1, <3>2
  <2> QED BY <1>7, <1>14, <2>1, <2>2
<1>8. CASE ~dead /\ MailFailed
  <2>1. PICK fs \in Failing(SaveCalls \o BounceCalls) :
          /\ dead' = ("crash" \in fs)
          /\ \/ /\ SendBounce(run.msg, fs)
                /\ processed' = IF Bounced(fs) THEN processed ELSE processed \cup {run.msg}
             \/ UNCHANGED <<seen, notified, processed>>
    BY <1>8 DEF MailFailed, Spend, Fails
  <2>2. answered' = answered
    BY <1>8 DEF MailFailed
  <2>3. CASE UNCHANGED <<seen, notified, processed>>
    BY <1>2, <1>8, <2>2, <2>3 DEF Done
  <2> QED BY <1>8, <1>14, <2>1, <2>2, <2>3
<1>9. CASE ~dead /\ FinishBatch
  <2>1. seen' \subseteq seen \cup processed /\ processed' = {}
        /\ UNCHANGED <<answered, notified>>
    BY <1>9 DEF FinishBatch, Finished
  <2> QED BY <1>2, <1>9, <2>1 DEF Done
<1>10. CASE ~dead /\ (ScheduledMaxTurns \/ \E e \in snoozes : GiveUp(e))
  <2>1. UNCHANGED <<processed, answered>>
    BY <1>10 DEF ScheduledMaxTurns, GiveUp
  <2>2. \/ UNCHANGED <<seen, notified>>
        \/ \E m, fs : SendBounce(m, fs)
    BY <1>10 DEF ScheduledMaxTurns, GiveUp
  <2>3. CASE UNCHANGED <<seen, notified>>
    BY <1>2, <1>10, <2>1, <2>3 DEF Done
  <2>4. ASSUME NEW m, NEW fs, SendBounce(m, fs), ~UNCHANGED <<seen, notified>>
        PROVE  DoneIsAccounted'
    <3>1. Done' \subseteq Done \cup {m} /\ notified' = notified \cup {m}
      BY <2>1, <2>4 DEF SendBounce, Done
    <3> QED BY <1>3, <1>10, <2>1, <3>1 DEF Accounted
  <2> QED BY <2>2, <2>3, <2>4
<1>11. CASE /\ ~dead
            /\ \/ \E m \in Msgs : Arrive(m) \/ StartMail(m) \/ SkipMail(m)
               \/ \E t \in Threads, kind \in BOOLEAN : Tick(t, kind)
               \/ Poll \/ ToolCall \/ Crash \/ UNCHANGED vars
               \/ ScheduledAnswered \/ ScheduledFailed \/ NudgeDone \/ EndPoll
               \/ \E e \in snoozes : \/ RunSnooze(e) \/ SnoozeUnreadable(e)
                                    \/ WatchdogUnreadable(e) \/ StandDown(e) \/ Nudge(e)
  <2>1. seen' = seen /\ processed' \subseteq processed /\ UNCHANGED <<answered, notified>>
    BY <1>11 DEF Arrive, StartMail, SkipMail, Tick, Poll, ToolCall, Deliver,
                 SetTaskStatus, SnoozeTool, UnsnoozeTool, Crash, Restarted,
                 ScheduledAnswered, ScheduledFailed, NudgeDone, EndPoll, RunSnooze,
                 SnoozeUnreadable, WatchdogUnreadable, StandDown, Nudge
  <2> QED BY <1>2, <1>11, <2>1 DEF Done
<1>15. CASE ~dead /\ Restart
  BY <1>15 DEF Restart
<1> QED
  BY <1>4, <1>5, <1>6, <1>7, <1>8, <1>9, <1>10, <1>11, <1>13, <1>15
     DEF Next, MailStep, RunEnds, SnoozeStep

(* While mail can be sent, whatever is marked seen was answered, its       *)
(* sender was told, or it was itself an automatic answer; marks, files and *)
(* the process may fail as they like.                                      *)
THEOREM NothingDroppedInSilence ==
    ASSUME "smtp" \notin FailureKinds
    PROVE  Spec => []SeenIsAccountedFor
<1>1. Init => DoneIsAccounted
  BY DEF Init, DoneIsAccounted, Done
<1>2. DoneIsAccounted => SeenIsAccountedFor
  BY DEF DoneIsAccounted, Done, Accounted, SeenIsAccountedFor
<1> QED BY <1>1, <1>2, AccountedStep, PTL DEF Spec

-----------------------------------------------------------------------------
(* Memory.                                                                 *)

FilesWork == FailureKinds \cap {"fetch", "read", "memory", "torn"} = {}

AnsweredIn(t) == {m \in answered : Root[m] = t}

(* A thread's file has what was answered in it, and so has the history of  *)
(* a run, though a file rebuilt from references is not loaded: a thread    *)
(* without a file has no answers.                                          *)
FileRemembers(t) ==
    /\ memory[t].file \in {"absent", "ok"}
    /\ memory[t].file = "absent" => memory[t].turns = {}
    /\ AnsweredIn(t) \subseteq memory[t].turns

RememberInv ==
    /\ \A t \in Threads : FileRemembers(t)
    /\ pc = "run" => AnsweredIn(Root[run.msg]) \cup {run.msg} \subseteq history

(* A write of a file that loses none of its answers.                       *)
LEMMA WriteRemembers ==
    ASSUME TypeOK, RememberInv, NEW t \in Threads, NEW new,
           memory' = [memory EXCEPT ![t] = new], new.file = "ok",
           NEW S, answered' \subseteq answered \cup S,
           AnsweredIn(t) \cup S \subseteq new.turns, \A m \in S : Root[m] = t
    PROVE  \A u \in Threads : FileRemembers(u)'
<1> SUFFICES ASSUME NEW u \in Threads PROVE FileRemembers(u)'
  OBVIOUS
<1>1. CASE u = t
  <2>1. memory'[u] = new
    BY <1>1 DEF TypeOK
  <2> QED BY <1>1, <2>1 DEF FileRemembers, AnsweredIn
<1>2. CASE u # t
  <2>1. memory'[u] = memory[u]
    BY <1>2 DEF TypeOK
  <2>2. AnsweredIn(u)' \subseteq AnsweredIn(u)
    BY <1>2 DEF AnsweredIn
  <2> QED BY <2>1, <2>2 DEF FileRemembers, RememberInv
<1> QED BY <1>1, <1>2

(* The same without a new answer.                                          *)
LEMMA RewriteRemembers ==
    ASSUME TypeOK, RememberInv, NEW t \in Threads, NEW new,
           memory' = [memory EXCEPT ![t] = new], new.file = "ok",
           answered' = answered, AnsweredIn(t) \subseteq new.turns
    PROVE  \A u \in Threads : FileRemembers(u)'
<1> DEFINE S == {}
<1>1. answered' \subseteq answered \cup S /\ AnsweredIn(t) \cup S \subseteq new.turns
      /\ \A m \in S : Root[m] = t
  OBVIOUS
<1> HIDE DEF S
<1> QED BY <1>1, WriteRemembers

(* What may go wrong with a write when no call returns an error: the       *)
(* process dies before it.  A file that is torn then was not read either.  *)
Skipped(fs) ==
    /\ fs \cap {"fetch", "read", "memory", "torn"} # {} => "crash" \in fs
    /\ "torn" \in fs => "read" \in fs

(* A step that leaves files and answers alone.                             *)
LEMMA QuietRemembers ==
    ASSUME RememberInv, UNCHANGED <<memory, answered>>
    PROVE  \A t \in Threads : FileRemembers(t)'
BY DEF RememberInv, FileRemembers, AnsweredIn

(* SaveMemoryHistory at the end of a run.                                  *)
LEMMA SaveRemembers ==
    ASSUME TypeOK, RememberInv, pc = "run",
           NEW fs, Skipped(fs), SaveMemoryHistory(Root[run.msg], history, fs),
           answered' \subseteq answered \cup {run.msg},
           "crash" \in fs => answered' = answered
    PROVE  \A t \in Threads : FileRemembers(t)'
<1> DEFINE t == Root[run.msg]
           new == [file |-> "ok", status |-> memory[t].status, turns |-> history]
<1>1. t \in Threads
  BY RunType
<1>2. memory[t].file # "torn"
  BY <1>1 DEF RememberInv, FileRemembers
<1>3. CASE memory' = memory /\ "crash" \in fs
  BY <1>3, QuietRemembers
<1>7. CASE memory' = [memory EXCEPT ![t] = new]
  <2>1. new.file = "ok" /\ new.turns = history
    OBVIOUS
  <2>2. AnsweredIn(t) \cup {run.msg} \subseteq history
    BY DEF RememberInv
  <2> HIDE DEF t, new
  <2>3. AnsweredIn(t) \cup {run.msg} \subseteq new.turns /\ Root[run.msg] = t
    BY <2>1, <2>2 DEF t
  <2> QED BY <1>1, <1>7, <2>1, <2>3, WriteRemembers
<1>4. CASE fs \cap {"fetch", "read", "memory", "torn"} = {}
  BY <1>2, <1>4, <1>7 DEF SaveMemoryHistory, Unreadable, WriteMemory
<1>5. CASE fs \cap {"fetch", "read", "memory", "torn"} # {}
  <2>1. memory' = memory
    BY <1>1, <1>2, <1>5 DEF Skipped, SaveMemoryHistory, Unreadable, WriteMemory, TypeOK
  <2> QED BY <1>3, <1>5, <2>1 DEF Skipped
<1> QED BY <1>4, <1>5

(* SetMemoryStatus keeps the turns of the file.                            *)
LEMMA StatusRemembers ==
    ASSUME TypeOK, RememberInv, NEW t \in Threads, NEW status,
           NEW fs, "torn" \in fs => "read" \in fs, SetMemoryStatus(t, status, fs),
           answered' = answered
    PROVE  \A u \in Threads : FileRemembers(u)'
<1> DEFINE new == [file |-> "ok", status |-> status, turns |-> memory[t].turns]
<1>1. memory' = memory \/ memory' = [memory EXCEPT ![t] = new]
  BY DEF SetMemoryStatus, Unreadable, WriteMemory, TypeOK
<1>2. CASE memory' = memory
  BY <1>2, QuietRemembers
<1>3. CASE memory' = [memory EXCEPT ![t] = new]
  <2>1. new.file = "ok" /\ new.turns = memory[t].turns
    OBVIOUS
  <2> HIDE DEF new
  <2>2. AnsweredIn(t) \subseteq new.turns
    BY <2>1 DEF RememberInv, FileRemembers
  <2> QED BY <1>3, <2>1, <2>2, RewriteRemembers
<1> QED BY <1>1, <1>2, <1>3

(* What a run starts with.                                                 *)
LEMMA StartRemembers ==
    ASSUME TypeOK, RememberInv, answered' = answered,
           NEW kind, NEW m \in Msgs, NEW once, StartRun(kind, Root[m], m, once)
    PROVE  (pc = "run" => AnsweredIn(Root[run.msg]) \cup {run.msg} \subseteq history)'
<1>1. run'.msg = m /\ history' = Loaded(Root[m]) \cup {m}
  BY DEF StartRun
<1>2. AnsweredIn(Root[m]) \subseteq Loaded(Root[m])
  BY RootAssumption DEF RememberInv, FileRemembers, Loaded
<1> QED BY <1>1, <1>2 DEF AnsweredIn

(* The handlers read a memory file before they write it, and without       *)
(* failing writes a process that dies leaves it as it was.                 *)
LEMMA TornIsUnread ==
    ASSUME FilesWork, NEW calls \in Seq(Kinds), NEW fs \in Failing(calls),
           NEW k \in Nat, \A j \in DOMAIN calls : calls[j] = "torn" => j = k,
           k \in DOMAIN calls => k - 1 \in DOMAIN calls /\ calls[k - 1] = "read"
    PROVE  Skipped(fs)
<1>1. CASE fs \subseteq FailureKinds
  BY <1>1 DEF FilesWork, Skipped
<1>2. CASE fs \in Dying(calls)
  <2>1. PICK gs \in Erring(calls), i \in DOMAIN calls :
          /\ fs = {"crash"} \cup gs \cup {calls[j] : j \in i..Len(calls)}
          /\ calls[i] = "torn" => "torn" \in FailureKinds
    BY <1>2 DEF Dying
  <2>2. "torn" \notin gs /\ "torn" \notin FailureKinds
    BY FailingKinds DEF FilesWork
  <2>3. ASSUME "torn" \in fs PROVE "read" \in fs
    <3>1. PICK j \in i..Len(calls) : calls[j] = "torn"
      BY <2>1, <2>2, <2>3
    <3>2. j = k /\ k \in DOMAIN calls /\ i # k
      BY <2>1, <2>2, <3>1
    <3>3. k - 1 \in i..Len(calls)
      BY <3>1, <3>2
    <3> QED BY <2>1, <3>2, <3>3
  <2> QED BY <2>1, <2>3 DEF Skipped
<1> QED BY <1>1, <1>2, FailingKinds DEF Failing

LEMMA WritesAreSkipped ==
    ASSUME FilesWork
    PROVE  /\ \A fs \in Failing(SaveCalls \o BounceCalls)
                     \cup Failing(SaveCalls \o SnoozeCalls)
                     \cup Failing(SaveCalls \o BounceCalls \o SnoozeCalls)
                     \cup Failing(SaveCalls \o <<"snooze">>) : Skipped(fs)
           /\ \A fs \in Erring(SaveCalls) : Skipped(fs)
           /\ \A fs \in Failing(<<"fetch", "smtp", "snooze", "read", "torn", "memory", "mark">>)
                     \cup Failing(<<"fetch", "smtp", "mark", "read", "torn", "memory", "snooze">>) :
                Skipped(fs)
<1> DEFINE Sound(calls, k) ==
             /\ calls \in Seq(Kinds)
             /\ \A j \in DOMAIN calls : calls[j] = "torn" => j = k
             /\ k - 1 \in DOMAIN calls /\ calls[k - 1] = "read"
           c1 == SaveCalls \o BounceCalls
           c2 == SaveCalls \o SnoozeCalls
           c3 == SaveCalls \o BounceCalls \o SnoozeCalls
           c4 == SaveCalls \o <<"snooze">>
           c5 == <<"fetch", "smtp", "snooze", "read", "torn", "memory", "mark">>
           c6 == <<"fetch", "smtp", "mark", "read", "torn", "memory", "snooze">>
<1>1. \A calls : \A k \in Nat : Sound(calls, k) => \A fs \in Failing(calls) : Skipped(fs)
  BY TornIsUnread
<1>2. Sound(c1, 3)
  BY DEF SaveCalls, BounceCalls, Kinds
<1>3. Sound(c2, 3)
  BY DEF SaveCalls, SnoozeCalls, Kinds
<1>4. Sound(c3, 3)
  BY DEF SaveCalls, BounceCalls, SnoozeCalls, Kinds
<1>5. Sound(c4, 3)
  BY DEF SaveCalls, Kinds
<1>6. Sound(c5, 5)
  BY DEF Kinds
<1>7. Sound(c6, 5)
  BY DEF Kinds
<1> HIDE DEF Sound, c1, c2, c3, c4, c5, c6
<1>8. \A fs \in Failing(c1) \cup Failing(c2) \cup Failing(c3) \cup Failing(c4)
               \cup Failing(c5) \cup Failing(c6) : Skipped(fs)
  BY <1>1, <1>2, <1>3, <1>4, <1>5, <1>6, <1>7
<1>9. \A fs \in Erring(SaveCalls) : Skipped(fs)
  BY FailingKinds DEF FilesWork, Skipped
<1> QED BY <1>8, <1>9 DEF c1, c2, c3, c4, c5, c6

(* Every step leaves each answered turn in the file, or in the history     *)
(* that will be saved.                                                     *)
LEMMA RememberStep ==
    ASSUME FilesWork
    PROVE  TypeOK /\ OneEntryPerThreadAndKind /\ RememberInv /\ [Next]_vars
             => RememberInv'
<1> SUFFICES ASSUME TypeOK, OneEntryPerThreadAndKind, RememberInv, [Next]_vars
             PROVE  RememberInv'
  OBVIOUS
<1> USE RootAssumption
<1>1. ASSUME \A t \in Threads : FileRemembers(t)', pc' # "run" PROVE RememberInv'
  BY <1>1 DEF RememberInv
<1>2. CASE \/ MailAnswered \/ MailMaxTurns \/ MailFailed \/ NudgeDone
           \/ ScheduledAnswered \/ ScheduledMaxTurns \/ ScheduledFailed
  <2>1. pc = "run" /\ pc' # "run"
    BY <1>2 DEF MailAnswered, MailMaxTurns, MailFailed, NudgeDone, ScheduledAnswered,
                ScheduledMaxTurns, ScheduledFailed, EndRun, Running
  <2>2. PICK fs : /\ Skipped(fs) /\ SaveMemoryHistory(Root[run.msg], history, fs)
                  /\ "crash" \in fs => answered' = answered
    <3>1. CASE MailAnswered \/ ScheduledFailed
      <4>1. PICK fs \in Erring(SaveCalls) : SaveMemoryHistory(Root[run.msg], history, fs)
        BY <3>1 DEF MailAnswered, ScheduledFailed
      <4>2. "crash" \notin fs
        BY <4>1 DEF Erring, SaveCalls
      <4> QED BY <4>1, <4>2, WritesAreSkipped
    <3>2. CASE MailMaxTurns
      BY <3>2, WritesAreSkipped DEF MailMaxTurns
    <3>3. CASE MailFailed
      BY <3>3, WritesAreSkipped DEF MailFailed
    <3>4. CASE ScheduledAnswered
      BY <3>4, WritesAreSkipped DEF ScheduledAnswered
    <3>5. CASE ScheduledMaxTurns
      BY <3>5, WritesAreSkipped DEF ScheduledMaxTurns
    <3>6. CASE NudgeDone
      BY <3>6, WritesAreSkipped DEF NudgeDone
    <3> QED BY <1>2, <3>1, <3>2, <3>3, <3>4, <3>5, <3>6
  <2>3. answered' \subseteq answered \cup {run.msg}
    BY <1>2 DEF MailAnswered, MailMaxTurns, MailFailed, NudgeDone, ScheduledAnswered,
                ScheduledMaxTurns, ScheduledFailed
  <2> QED BY <1>1, <2>1, <2>2, <2>3, SaveRemembers
<1>3. ASSUME NEW m \in Msgs, HandleAutoReply(m) PROVE RememberInv'
  <2> DEFINE t == Root[m]
             new == [file |-> "ok", status |-> "none", turns |-> memory[t].turns \cup {m}]
  <2>1. PICK fs : /\ Skipped(fs)
                  /\ IF Unreadable(t, fs) THEN UNCHANGED memory ELSE WriteMemory(t, new, fs)
    BY <1>3, WritesAreSkipped DEF HandleAutoReply
  <2>3. memory' = memory \/ memory' = [memory EXCEPT ![t] = new]
    BY <2>1 DEF Skipped, Unreadable, WriteMemory, TypeOK
  <2>4. answered' = answered /\ pc' = "mail"
    BY <1>3 DEF HandleAutoReply, Take
  <2>5. new.file = "ok" /\ AnsweredIn(t) \subseteq new.turns /\ t \in Threads
    BY DEF RememberInv, FileRemembers
  <2> HIDE DEF t, new
  <2>6. \A u \in Threads : FileRemembers(u)'
    BY <2>3, <2>4, <2>5, RewriteRemembers, QuietRemembers
  <2> QED BY <1>1, <2>4, <2>6
<1>4. ASSUME NEW m \in Msgs, StartMail(m) PROVE RememberInv'
  <2> DEFINE t == Root[m]
  <2>1. answered' = answered /\ StartRun("mail", t, m, FALSE)
    BY <1>4 DEF StartMail
  <2>2. CASE memory' = memory
    BY <2>1, <2>2, QuietRemembers, StartRemembers DEF RememberInv
  <2>3. CASE memory[t].file # "ok" /\ memory' = [memory EXCEPT ![t] = Rebuilt(m)]
    <3>1. AnsweredIn(t) = {}
      BY <2>3 DEF RememberInv, FileRemembers
    <3>2. Rebuilt(m).file = "ok" /\ AnsweredIn(t) \subseteq Rebuilt(m).turns
      BY <3>1 DEF Rebuilt
    <3>3. \A u \in Threads : FileRemembers(u)'
      BY <2>1, <2>3, <3>2, RewriteRemembers
    <3> QED BY <2>1, <3>3, StartRemembers DEF RememberInv
  <2> QED BY <1>4, <2>2, <2>3 DEF StartMail
<1>5. ASSUME NEW m \in Msgs, SkipMail(m) PROVE RememberInv'
  <2>1. memory' = memory /\ answered' = answered /\ pc' = "mail"
    <3>1. \A fs \in Erring(SaveCalls) : fs = {}
      BY DEF Erring, SaveCalls, FilesWork
    <3> QED BY <1>5, <3>1 DEF SkipMail, ForModel, Take
  <2> QED BY <1>1, <2>1, QuietRemembers
<1>6. ASSUME NEW m \in Msgs, NEW s, SetTaskStatus(m, s) PROVE RememberInv'
  <2>1. PICK fs \in Failing(<<"torn", "memory">> \o SnoozeCalls) :
          SetMemoryStatus(Root[m], s, fs)
    BY <1>6 DEF SetTaskStatus
  <2>5. "torn" \notin fs
    <3> DEFINE calls == <<"torn", "memory">> \o SnoozeCalls
    <3>1. /\ DOMAIN calls = 1..4
          /\ calls[1] = "torn" /\ calls[2] = "memory"
          /\ calls[3] = "snooze" /\ calls[4] = "append"
      BY DEF SnoozeCalls
    <3> HIDE DEF calls
    <3>2. fs \in Failing(calls)
      BY <2>1 DEF calls
    <3>3. CASE fs \in Erring(calls)
      BY <3>3 DEF Erring, FilesWork
    <3>4. CASE fs \in Dying(calls)
      <4>1. PICK gs \in Erring(calls), i \in DOMAIN calls :
              /\ calls[i] = "torn" => "torn" \in FailureKinds
              /\ fs = {"crash"} \cup gs \cup {calls[j] : j \in i..Len(calls)}
        BY <3>4 DEF Dying
      <4>2. i \in 2..4 /\ Len(calls) = 4
        BY <3>1, <4>1 DEF FilesWork
      <4>3. \A j \in i..Len(calls) : calls[j] # "torn"
        <5> SUFFICES ASSUME NEW j \in i..Len(calls) PROVE calls[j] # "torn"
          OBVIOUS
        <5>1. j = 2 \/ j = 3 \/ j = 4
          BY <4>2
        <5> QED BY <3>1, <5>1
      <4>4. "torn" \notin gs
        BY DEF Erring, FilesWork
      <4> QED BY <4>1, <4>3, <4>4
    <3> QED BY <3>2, <3>3, <3>4 DEF Failing
  <2>2. answered' = answered /\ history' = history /\ pc = "run"
    BY <1>6 DEF SetTaskStatus
  <2>3. run'.msg = run.msg
    BY <1>6, <2>2, RunType DEF SetTaskStatus, Run
  <2>4. \A u \in Threads : FileRemembers(u)'
    BY <2>1, <2>2, <2>5, StatusRemembers
  <2> QED BY <2>2, <2>3, <2>4 DEF RememberInv, AnsweredIn
<1>7. ASSUME NEW e \in snoozes, GiveUp(e) PROVE RememberInv'
  <2>1. PICK fs : Skipped(fs) /\ SetMemoryStatus(Root[e.msg], "error", fs)
    BY <1>7, WritesAreSkipped DEF GiveUp
  <2>2. Root[e.msg] \in Threads
    BY DEF TypeOK, Snooze
  <2>3. answered' = answered /\ pc' = "snooze"
    BY <1>7 DEF GiveUp, DrainWatchdog, Drain
  <2>4. \A u \in Threads : FileRemembers(u)'
    BY <2>1, <2>2, <2>3, StatusRemembers DEF Skipped
  <2> QED BY <1>1, <2>3, <2>4
<1>8. ASSUME NEW e \in snoozes, RunSnooze(e) \/ Nudge(e) PROVE RememberInv'
  <2>1. UNCHANGED <<memory, answered>>
    BY <1>8 DEF RunSnooze, Nudge
  <2>2. e.thread = Root[e.msg] /\ e.msg \in Msgs
    BY DEF OneEntryPerThreadAndKind, TypeOK, Snooze
  <2>3. \E kind, once : StartRun(kind, Root[e.msg], e.msg, once)
    BY <1>8, <2>2 DEF RunSnooze, Nudge
  <2> QED BY <2>1, <2>2, <2>3, QuietRemembers, StartRemembers DEF RememberInv
<1>9. CASE Deliver
  <2>1. UNCHANGED <<memory, answered, history>> /\ run'.msg = run.msg /\ pc = "run"
    BY <1>9, RunType DEF Deliver, Run
  <2> QED BY <2>1, QuietRemembers DEF RememberInv, AnsweredIn
<1>10. CASE Crash \/ Restart
  BY <1>1, <1>10, QuietRemembers DEF Crash, Restart, Restarted
<1>11. CASE \/ \E m \in Msgs : \/ Arrive(m) \/ Reject(m) \/ Demo(m) \/ UnsnoozeTool(m)
                                \/ \E once \in OnceChoices : SnoozeTool(m, once)
            \/ \E t \in Threads, kind \in BOOLEAN : Tick(t, kind)
            \/ Poll \/ FinishBatch \/ EndPoll \/ UNCHANGED vars
            \/ \E e \in snoozes : \/ SnoozeUnreadable(e)
                                 \/ WatchdogUnreadable(e) \/ StandDown(e)
  <2>1. UNCHANGED <<memory, answered, history, run>> /\ (pc' = "run" => pc = "run")
    BY <1>11 DEF Arrive, Reject, Demo, UnsnoozeTool, SnoozeTool, Tick, Poll,
                 FinishBatch, EndPoll, SnoozeUnreadable, WatchdogUnreadable, StandDown
  <2> QED BY <2>1, QuietRemembers DEF RememberInv, AnsweredIn
<1> QED
  BY <1>2, <1>3, <1>4, <1>5, <1>6, <1>7, <1>8, <1>9, <1>10, <1>11
     DEF Next, MailStep, ToolCall, RunEnds, SnoozeStep

(* While memory files can be read and written and mail be fetched, a       *)
(* message that was answered stays in the memory of its thread: of all     *)
(* the writers of a file, across threads, schedules, nudges and restarts,  *)
(* none overwrites an answer.                                              *)
THEOREM AnswersAreRemembered ==
    ASSUME FilesWork
    PROVE  Spec => []AnsweredIsRemembered
<1>1. Init => RememberInv
  BY DEF Init, RememberInv, FileRemembers, AnsweredIn, Absent
<1>2. TypeOK /\ RememberInv => AnsweredIsRemembered
  BY RootAssumption
     DEF TypeOK, RememberInv, FileRemembers, AnsweredIn, AnsweredIsRemembered
<1> QED
  BY <1>1, <1>2, RememberStep, TypeCorrect, SnoozeFileWellFormed, PTL DEF Spec

=============================================================================
