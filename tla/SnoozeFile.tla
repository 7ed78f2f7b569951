----------------------------- MODULE SnoozeFile -----------------------------
(***************************************************************************)
(* The snooze file of one agent (internal/services/snooze.go).             *)
(*                                                                         *)
(* snooze.json holds two kinds of entries: scheduled tasks (watchdog =     *)
(* FALSE) and stuck-task watchdogs (watchdog = TRUE).  The file is a JSON  *)
(* array; here it is a set of entries.  What the order of the array        *)
(* decides is only which of two entries with the very same UnSnooze is     *)
(* drained first, and that choice is left open.                            *)
(*                                                                         *)
(* Wall-clock time is abstracted: an entry is due (UnSnooze is not after   *)
(* now) or it is not.  Subject, Description, Crontab and Timezone decide   *)
(* when an entry becomes due and what the model is told, nothing else.     *)
(***************************************************************************)
EXTENDS Integers, FiniteSets

CONSTANTS
    Msgs,                     \* Message-Ids of inbound mail
    Threads,                  \* thread roots
    NoThread,                 \* the empty ThreadId of a Snooze literal
    waitingWatchdogMaxFires   \* nudges a watchdog may spend

ASSUME NoThreadAssumption == NoThread \notin Threads
ASSUME MaxFiresAssumption == waitingWatchdogMaxFires \in Nat

Snooze == [thread   : Threads,
           msg      : Msgs,
           watchdog : BOOLEAN,
           once     : BOOLEAN,
           fires    : 0..waitingWatchdogMaxFires,
           due      : BOOLEAN]

ByMessage(file, kind, m) == {e \in file : e.watchdog = kind /\ e.msg = m}

ByThread(file, kind, t) == {e \in file : e.watchdog = kind /\ e.thread = t}

(* Two mutants of DeleteSnooze: one without the fallback to the thread, one *)
(* that does not tell the two kinds apart.                                  *)
DeleteByMessageOnly(file, kind, m, t) == file \ ByMessage(file, kind, m)

DeleteBothKinds(file, kind, m, t) ==
    {e \in file : e.msg # m /\ e.thread # t}

(* DeleteSnooze: entries of one kind, by Message-Id; only when none has    *)
(* that Message-Id, by thread.                                             *)
DeleteSnooze(file, kind, m, t) ==
    IF ByMessage(file, kind, m) # {}
      THEN file \ ByMessage(file, kind, m)
      ELSE file \ ByThread(file, kind, t)

(* SaveSnooze writes the file twice: without the old entry, then with the  *)
(* new one.  A file that holds no old entry is written once.               *)
WithoutEntry(file, e) == DeleteSnooze(file, e.watchdog, e.msg, e.thread)
SaveSnooze(file, e) == WithoutEntry(file, e) \cup {e}

(* Mutant of AbortThreadSnoozes: recurring schedules are not spared.        *)
AbortEverySnooze(file, t) == {e \in file : e.thread # t}

(* AbortThreadSnoozes: the thread keeps only its recurring schedule.       *)
AbortThreadSnoozes(file, t) ==
    {e \in file : e.thread # t \/ (~e.watchdog /\ ~e.once)}

FindWatchdogByThread(file, t) == ByThread(file, TRUE, t)

(* NextSnoozed: what the drain loop may take next.                         *)
Due(file) == {e \in file : e.due}

=============================================================================
