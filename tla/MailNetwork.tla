---------------------------- MODULE MailNetwork ----------------------------
(***************************************************************************)
(* Agents and people who write to one another: who is let in               *)
(* (internal/agents/acl.go), how the mail an agent sends is addressed and  *)
(* threaded (internal/tools/send_helper.go, report_strict.go,              *)
(* internal/services/emailing.go), under which thread its conversation is  *)
(* kept (internal/services/memory.go, thread_index.go), and what becomes   *)
(* of a refusal (cmd/kikubot/main.go, handleAutoReply).                    *)
(*                                                                         *)
(* A message is its position in mails, the order of the Date headers.      *)
(* Every agent handles its inbox one message at a time; the agents run     *)
(* side by side and deliveries take any time.  What happens inside a run   *)
(* is the business of AgentLoop, retries and nudges that of PollLoop:      *)
(* here the model picks recipients and reply targets as it likes.          *)
(***************************************************************************)
EXTENDS Integers, Sequences, FiniteSets, SequencesExt

CONSTANTS Agents,       \* addresses of config.AgentEmails, in one domain
          People,       \* addresses that are not agents
          Mta,          \* the sender of delivery failures
          Unreachable,  \* addresses the mail server cannot deliver to
          Away,         \* people whose mailbox answers on its own
          Desks,        \* agents people write to first
          Outlook,      \* people whose replies may lose their References
          Reporting,    \* agents with report_tool
          Strict,       \* ... with report_strict_tool
          Whitelist, Blacklist,   \* of every agent, addresses only
          Budgets       \* bound: how many messages of a kind are written,
                        \* how many runs given up, how often an Away
                        \* mailbox answers

KindsWritten == {"new", "reply", "message", "report", "strict"}
KindsAutomatic == {"refusal", "giveup", "notice", "dsn", "ooo"}  \* Auto-Submitted
Addresses == Agents \cup People \cup {Mta}

ASSUME ConstantsAssumption ==
    /\ Agents \cap People = {} /\ Mta \notin Agents \cup People
    /\ Unreachable \subseteq Agents \cup People
    /\ Away \cup Outlook \subseteq People /\ Desks \cup Reporting \cup Strict \subseteq Agents
    /\ Whitelist \in [Agents -> SUBSET Addresses]
    /\ Blacklist \in [Agents -> SUBSET Addresses]
    /\ Budgets \subseteq [KindsWritten \cup {"giveup", "ooo"} -> Nat]

VARIABLES mails,     \* every message sent so far
          arrived,   \* what is in the INBOX of an agent
          seen,      \* ... with the \Seen flag
          memory,    \* memory files: the messages a thread's history has
          index,     \* thread_index.json: conversation to thread root
          cur,       \* the run of an agent: its message and history
          handled    \* what an agent ran or took note of (history variable)

vars == <<mails, arrived, seen, memory, index, cur, handled>>

Ids == DOMAIN mails
NoRun == [mail |-> 0, hist |-> {}]
Busy(a) == cur[a].mail # 0

Written(kind) == Cardinality({i \in Ids : mails[i].kind = kind})
Left(kind) == \E b \in Budgets : /\ \A k \in DOMAIN b : Written(k) <= b[k]
                                 /\ Written(kind) < b[kind]

-----------------------------------------------------------------------------
(* A message has its headers and, for the properties only: src, the        *)
(* message its author was handling; path, the authors from the person it   *)
(* began with, whose message is origin; hops, the automatic answers in a   *)
(* row, and before, how many messages there were when the first of them    *)
(* was sent; onThread, whether every author on the way named the message   *)
(* it handled among the References.                                        *)

IsAutoReply(m) == m.kind \in KindsAutomatic

Message(m, refs, src) ==
    [kind |-> m.kind, from |-> m.from, to |-> m.to, refs |-> refs, irt |-> m.irt,
     senders |-> m.senders, conv |-> m.conv, src |-> src,
     path |-> IF src = 0 THEN <<m.from>> ELSE Append(mails[src].path, m.from),
     origin |-> IF src = 0 THEN Len(mails) + 1 ELSE mails[src].origin,
     hops |-> IF src # 0 /\ IsAutoReply(m) THEN mails[src].hops + 1 ELSE 0,
     before |-> IF src # 0 /\ IsAutoReply(m) /\ IsAutoReply(mails[src])
                THEN mails[src].before ELSE Len(mails),
     onThread |-> src # 0 => mails[src].onThread /\ src \in ToSet(refs)]

(* Mutant of SendEmail: In-Reply-To is not added to References.            *)
SendAsGiven(m, src) == Append(mails, Message(m, m.refs, src))

(* The message that is replied to is one of the References.                *)
SendEmail(m, src) ==
    LET refs == IF m.irt = 0 \/ m.irt \in ToSet(m.refs) THEN m.refs
                ELSE Append(m.refs, m.irt)
    IN Append(mails, Message(m, refs, src))

(* An answer of the program itself: no chain of senders, no Thread-Index.  *)
Automatic(kind, from, to, refs, irt) ==
    [kind |-> kind, from |-> from, to |-> to, refs |-> refs, irt |-> irt,
     senders |-> {}, conv |-> 0]

(* It is threaded on what the refused message was threaded on.             *)
SendBounce(a, i, kind) ==
    mails' = SendEmail(Automatic(kind, a, mails[i].from, mails[i].refs, i), i)

Chained(i) == Append(mails[i].refs, i)

(* Mutant of ThreadRoot: the newest reference.                             *)
NewestReference(i) == IF mails[i].refs = << >> THEN i ELSE Last(mails[i].refs)
ThreadRoot(i) == IF mails[i].refs = << >> THEN i ELSE mails[i].refs[1]

SameThread(i, j) == ThreadRoot(i) = ThreadRoot(j)

(* The conversation of a Thread-Index, 0 without one.                      *)
Conversation(i) == mails[i].conv

(* GetEmails and GetSentEmail: the INBOX and the Sent folder of an agent.  *)
(* References are in the order the messages were sent, so the last of them *)
(* that is found is the newest.                                            *)
LastIn(s, S) == Max((ToSet(s) \cap S) \cup {0})
Sent(a) == {i \in Ids : mails[i].from = a}

-----------------------------------------------------------------------------
(* Who is let in.                                                          *)

(* Mutant of AddToSenders: only the last sender is passed on.              *)
LastSender(senders, from) == {from}
AddToSenders(senders, from) == senders \cup {from}

Immediate(i) == AddToSenders(mails[i].senders, mails[i].from)

ThreadIdentities(a, i) ==
    Immediate(i) \cup UNION {Immediate(r) : r \in ToSet(mails[i].refs) \cap arrived[a]}

AccessControl(a, i) ==
    IF Whitelist[a] # {} THEN Immediate(i) \subseteq Whitelist[a]
    ELSE ThreadIdentities(a, i) \cap Blacklist[a] = {}

-----------------------------------------------------------------------------
(* Under which thread a message is looked up.                              *)

(* One entry is written: a memory file, or a conversation of the index.    *)
Put(f, k, v) == [x \in DOMAIN f \cup {k} |-> IF x = k THEN v ELSE f[x]]

LookupThreadRoot(a, conv) ==
    IF conv \in DOMAIN index[a] /\ index[a][conv] \in DOMAIN memory[a]
    THEN index[a][conv] ELSE 0

(* Mutant of ResolveThreadRoot: the Thread-Index is not consulted.         *)
OwnThreadRoot(a, i) == ThreadRoot(i)

ResolveThreadRoot(a, i) ==
    LET other == LookupThreadRoot(a, Conversation(i))
    IN IF ThreadRoot(i) \notin DOMAIN memory[a] /\ Conversation(i) # 0 /\ other # 0
       THEN other ELSE ThreadRoot(i)

RememberThreadIndex(a, conv, root) ==
    index' = IF conv = 0 THEN index
             ELSE [index EXCEPT ![a] = Put(@, conv, root)]

-----------------------------------------------------------------------------
(* To whom and on which thread an agent's mail goes.  The model names a    *)
(* message of the inbox to reply to or to forward, or none.                *)

ThreadingParent(src, use, i) ==
    IF use = "new" \/ (use = "reply" /\ SameThread(src, i)) THEN src ELSE i

(* The mail tool a run uses: everything the model cannot choose comes from *)
(* the message of the run.                                                 *)
Compose(a, kind, to, use, i) ==
    LET src == cur[a].mail
        parent == ThreadingParent(src, use, i)
    IN SendEmail([kind |-> kind, from |-> a, to |-> to,
                  refs |-> Chained(parent),
                  irt |-> IF use = "reply" THEN parent ELSE 0,
                  senders |-> Immediate(src), conv |-> mails[src].conv], src)

Human(i) == mails[i].from \notin Agents

HumansInThread(a, seed) ==
    {mails[i].from : i \in {j \in {seed} \cup (ToSet(mails[seed].refs) \cap arrived[a]) : Human(j)}}

FindHumanInThread(a, seed) ==
    mails[IF Human(seed) THEN seed
          ELSE LastIn(mails[seed].refs, {i \in arrived[a] : Human(i)})].from

RecipientAllowed(a, to, humans) == to \in humans \cup Whitelist[a]

(* Mutant of HealReportRecipient: the recipient is taken as it is.         *)
TrustRecipient(a, to, use, i) == to

(* A recipient unknown to the thread and to the whitelist is replaced by   *)
(* the person who wrote last, if there is one.                             *)
HealReportRecipient(a, to, use, i) ==
    LET src == cur[a].mail
        seed == IF SameThread(src, i) THEN src ELSE i
        humans == HumansInThread(a, seed)
    IN IF use # "reply" \/ RecipientAllowed(a, to, humans) \/ humans = {}
       THEN to ELSE FindHumanInThread(a, seed)

(* The author of the thread's first message if it is in the inbox, else of *)
(* the message of the run.                                                 *)
OriginalRequester(a) ==
    LET src == cur[a].mail
        root == ThreadRoot(src)
    IN IF root \in arrived[a] /\ Human(root) THEN mails[root].from
       ELSE mails[src].from

(* Mutant of LockReportRecipient: the recipient is taken as it is.         *)
KeepRecipient(a, to) == to
LockReportRecipient(a, to) == OriginalRequester(a)

-----------------------------------------------------------------------------
(* People and the mail system.                                             *)

Others == <<arrived, seen, memory, index, cur, handled>>

PersonWrites(u, a) ==
    /\ Left("new")
    /\ mails' = SendEmail([kind |-> "new", from |-> u, to |-> a, refs |-> << >>,
                           irt |-> 0, senders |-> {},
                           conv |-> IF u \in Outlook THEN Len(mails) + 1 ELSE 0], 0)
    /\ UNCHANGED Others

(* A reply goes to the agent that wrote.  Exchange may rewrite References; *)
(* the conversation of the Thread-Index survives.                          *)
PersonReplies(u, i) ==
    /\ mails[i].to = u /\ mails[i].from \in Agents /\ Left("reply")
    /\ \E refs \in {Chained(i)} \cup (IF u \in Outlook THEN {<< >>} ELSE {}) :
          mails' = SendEmail(
             [kind |-> "reply", from |-> u, to |-> mails[i].from, refs |-> refs,
              irt |-> IF refs = << >> THEN 0 ELSE i, senders |-> {},
              conv |-> IF u \notin Outlook THEN 0
                       ELSE IF mails[i].conv # 0 THEN mails[i].conv
                       ELSE Len(mails) + 1], 0)
    /\ UNCHANGED Others

Answered(i, kind) == \E j \in Ids : mails[j].kind = kind /\ mails[j].src = i

(* An out-of-office answer to whatever an agent sends.                     *)
OutOfOffice(i) ==
    /\ mails[i].to \in Away /\ mails[i].from \in Agents /\ ~Answered(i, "ooo")
    /\ Left("ooo")
    /\ mails' = SendEmail(Automatic("ooo", mails[i].to, mails[i].from,
                                    Chained(i), i), i)
    /\ UNCHANGED Others

(* A delivery failure names the message that failed and nothing else.      *)
DeliveryFails(i) ==
    /\ mails[i].to \in Unreachable /\ mails[i].from \in Agents /\ ~Answered(i, "dsn")
    /\ mails' = SendEmail(Automatic("dsn", Mta, mails[i].from, <<i>>, 0), i)
    /\ UNCHANGED Others

Deliver(a, i) ==
    /\ mails[i].to = a /\ a \notin Unreachable /\ i \notin arrived[a]
    /\ arrived' = [arrived EXCEPT ![a] = @ \cup {i}]
    /\ UNCHANGED <<mails, seen, memory, index, cur, handled>>

-----------------------------------------------------------------------------
(* The poll loop of an agent.                                              *)

New(a, i) == ~Busy(a) /\ i \in arrived[a] \ seen[a]

(* Mutant of MarkSeen: only what was sent by a person is marked.           *)
MarkAnswered(a, i) ==
    seen' = IF IsAutoReply(mails[i]) THEN seen ELSE [seen EXCEPT ![a] = @ \cup {i}]
MarkSeen(a, i) == seen' = [seen EXCEPT ![a] = @ \cup {i}]

(* Whom an automatic answer concerns: the author of the newest message of  *)
(* the thread in the INBOX or, for a failure report on a message of our    *)
(* own, of the newest message that one was threaded on.                    *)
ParentOf(a, i) == IF mails[i].irt \in arrived[a] THEN mails[i].irt
                  ELSE LastIn(mails[i].refs, arrived[a])

(* Mutant of Upstream: the Sent folder is not consulted.                   *)
InboxUpstream(a, i) == LastIn(mails[i].refs, arrived[a])
Upstream(a, i) ==
    LET inbox == LastIn(mails[i].refs, arrived[a])
        sent == LastIn(mails[i].refs, {j \in Sent(a) : ParentOf(a, j) # 0})
    IN IF inbox # 0 THEN inbox ELSE IF sent # 0 THEN ParentOf(a, sent) ELSE 0

(* Mutant of NotifyUpstream: whoever answered is told.                     *)
NotifyAlways(i, up) == up # 0
(* Not the party the answer came from.                                     *)
NotifyUpstream(i, up) == up # 0 /\ mails[i].from # mails[up].from

(* Bounces, failure reports and out-of-office answers never start a run.   *)
(* The refusal goes one hop up, and a note of it into the thread's memory. *)
HandleAutoReply(a, i) ==
    LET up == Upstream(a, i)
        root == ResolveThreadRoot(a, i)
        old == IF root \in DOMAIN memory[a] THEN memory[a][root] ELSE {}
    IN /\ New(a, i) /\ IsAutoReply(mails[i])
       /\ mails' = IF NotifyUpstream(i, up)
                   THEN SendEmail(Automatic("notice", a, mails[up].from, Chained(up), up), i)
                   ELSE mails
       /\ memory' = [memory EXCEPT ![a] = Put(@, root, old \cup {i})]
       /\ MarkSeen(a, i)
       /\ handled' = [handled EXCEPT ![a] = @ \cup {i}]
       /\ UNCHANGED <<arrived, index, cur>>

Refuse(a, i) ==
    /\ New(a, i) /\ ~IsAutoReply(mails[i]) /\ ~AccessControl(a, i)
    /\ SendBounce(a, i, "refusal") /\ MarkSeen(a, i)
    /\ UNCHANGED <<arrived, memory, index, cur, handled>>

(* MemoryFromReferences: the referenced messages of the INBOX, under the   *)
(* root of the oldest one.  The file is written, the run starts without it.*)
Rebuilt(a, i, root) ==
    LET known == ToSet(mails[i].refs) \cap arrived[a]
    IN IF known = {} THEN [root |-> root, hist |-> {}]
       ELSE [root |-> ThreadRoot(Min(known)), hist |-> known]

(* The thread is found, its memory loaded or rebuilt, and saved again      *)
(* under the root SaveMemoryHistory computes from the message.             *)
StartRun(a, i) ==
    LET root == ResolveThreadRoot(a, i)
        found == root \in DOMAIN memory[a]
        mem == IF found THEN [root |-> root, hist |-> memory[a][root]]
               ELSE Rebuilt(a, i, root)
        stored == IF mem.hist = {} THEN memory[a] ELSE Put(memory[a], mem.root, mem.hist)
    IN /\ New(a, i) /\ ~IsAutoReply(mails[i]) /\ AccessControl(a, i)
       /\ RememberThreadIndex(a, Conversation(i), mem.root)
       /\ memory' = [memory EXCEPT ![a] = Put(stored, ThreadRoot(i), mem.hist)]
       /\ cur' = [cur EXCEPT ![a] = [mail |-> i,
                       hist |-> (IF found THEN mem.hist ELSE {}) \cup {i}]]
       /\ UNCHANGED <<mails, arrived, seen, handled>>

-----------------------------------------------------------------------------
(* A run.                                                                  *)

Send(a, kind, to, use, i) ==
    /\ to # a
    /\ mails' = Compose(a, kind, to, use, i)
    /\ UNCHANGED Others

Uses == {"new", "reply", "forward"}
(* What the model can name: messages its agent has dealt with.             *)
Known(a) == seen[a] \cup {cur[a].mail}

MessageTool(a) ==
    /\ Busy(a) /\ Left("message")
    /\ \E to \in Agents, use \in Uses, i \in Known(a) :
          /\ use = "new" => i = cur[a].mail
          /\ Send(a, "message", to, use, i)

ReportTool(a) ==
    /\ Busy(a) /\ a \in Reporting /\ Left("report")
    /\ \E to \in Agents \cup People, use \in {"new", "reply"}, i \in Known(a) :
          /\ use = "new" => i = cur[a].mail
          /\ Send(a, "report", HealReportRecipient(a, to, use, i), use, i)

ReportStrictTool(a) ==
    /\ Busy(a) /\ a \in Strict /\ Left("strict")
    /\ OriginalRequester(a) \notin Agents
    /\ \E to \in Agents \cup People, i \in Known(a) :
          Send(a, "strict", LockReportRecipient(a, to), "reply", i)

EndRun(a, i) ==
    /\ Busy(a) /\ i = cur[a].mail
    /\ memory' = [memory EXCEPT ![a] = Put(@, ThreadRoot(i), cur[a].hist)]
    /\ cur' = [cur EXCEPT ![a] = NoRun]
    /\ MarkSeen(a, i)
    /\ handled' = [handled EXCEPT ![a] = @ \cup {i}]

Finish(a, i) == EndRun(a, i) /\ UNCHANGED <<mails, arrived, index>>

(* Out of turns or out of attempts: the sender is told.                    *)
GiveUp(a, i) ==
    /\ EndRun(a, i) /\ Left("giveup") /\ SendBounce(a, i, "giveup")
    /\ UNCHANGED <<arrived, index>>

-----------------------------------------------------------------------------
Init ==
    /\ mails = << >>
    /\ arrived = [a \in Agents |-> {}] /\ seen = arrived /\ handled = arrived
    /\ memory = [a \in Agents |-> << >>] /\ index = memory
    /\ cur = [a \in Agents |-> NoRun]

Poll(a) ==
    \E i \in Ids : HandleAutoReply(a, i) \/ Refuse(a, i) \/ StartRun(a, i)

Delivers(a) == \E i \in Ids : Deliver(a, i)
EndsRun(a) == \E i \in Ids : Finish(a, i) \/ GiveUp(a, i)

Next ==
    \/ \E u \in People, a \in Desks : PersonWrites(u, a)
    \/ \E u \in People, i \in Ids : PersonReplies(u, i)
    \/ \E i \in Ids : OutOfOffice(i) \/ DeliveryFails(i)
    \/ \E a \in Agents :
          \/ Delivers(a) \/ Poll(a) \/ EndsRun(a)
          \/ MessageTool(a) \/ ReportTool(a) \/ ReportStrictTool(a)

Spec == Init /\ [][Next]_vars

(* Mail is delivered, agents keep polling, runs end: by an answer, by the  *)
(* turn budget or by the timeout.                                          *)
Fairness ==
    \A a \in Agents \ Unreachable :
        WF_vars(Delivers(a)) /\ WF_vars(Poll(a)) /\ WF_vars(EndsRun(a))

FairSpec == Spec /\ Fairness

-----------------------------------------------------------------------------
(* The types; what is replied to is among the References, and References   *)
(* name earlier messages in the order they were sent.                      *)
TypeOK ==
    /\ \A i \in Ids : LET m == mails[i] IN
          /\ m.kind \in KindsWritten \cup KindsAutomatic
          /\ m.from \in Addresses /\ m.to \in Addresses
          /\ ToSet(m.refs) \subseteq 1..(i - 1)
          /\ \A j, k \in DOMAIN m.refs : j < k => m.refs[j] < m.refs[k]
          /\ m.irt # 0 => m.irt \in ToSet(m.refs)
          /\ m.senders \subseteq Addresses
    /\ \A a \in Agents :
          /\ handled[a] \subseteq seen[a] /\ seen[a] \subseteq arrived[a]
          /\ arrived[a] \subseteq {i \in Ids : mails[i].to = a}
          /\ DOMAIN memory[a] \subseteq Ids
          /\ cur[a].mail \in arrived[a] \cup {0}

(* A run works for nobody the agent's lists keep out: neither the person   *)
(* it began with nor any agent on the way, however many hops away.         *)
Admitted ==
    \A a \in Agents : Busy(a) =>
        LET authors == ToSet(mails[cur[a].mail].path)
        IN IF Whitelist[a] # {} THEN authors \subseteq Whitelist[a]
           ELSE authors \cap Blacklist[a] = {}

Authors(S) == {mails[i].from : i \in S}

(* A report that replies goes to someone who wrote in the thread it is     *)
(* filed in or who is on the agent's whitelist, unless no person wrote     *)
(* there that the agent knows of.                                          *)
ReportsStayInThread ==
    \A i \in Ids : mails[i].kind = "report" /\ mails[i].irt # 0 =>
        LET a == mails[i].from
            known == Authors(ToSet(mails[i].refs) \cap arrived[a]) \ Agents
        IN \/ mails[i].to \in known \cup Whitelist[a]
           \/ known = {}

(* A strict report goes to the person who began the thread of the message  *)
(* it was written for if that was a message to its agent, else to the      *)
(* person whose message it was written for; never to whom the model named. *)
StrictToRequester ==
    \A i \in Ids : mails[i].kind = "strict" =>
        LET root == ThreadRoot(mails[i].src)
        IN /\ mails[i].to \in People
           /\ mails[i].to = mails[IF mails[root].to = mails[i].from THEN root
                                 ELSE mails[i].src].from

(* A run knows every message its own message refers to that its agent      *)
(* dealt with before, the refusals that came back included.                *)
ThreadRemembered ==
    \A a \in Agents : Busy(a) =>
        ToSet(mails[cur[a].mail].refs) \cap handled[a] \subseteq cur[a].hist

SameConversation(a) ==
    {i \in handled[a] : mails[i].conv = mails[cur[a].mail].conv}

(* A run for a message without References knows something of the Outlook   *)
(* conversation the message belongs to, if its agent ever took part in it. *)
ConversationFound ==
    \A a \in Agents :
        /\ Busy(a) /\ mails[cur[a].mail].conv # 0 /\ mails[cur[a].mail].refs = << >>
        /\ SameConversation(a) # {}
        => SameConversation(a) \cap cur[a].hist # {}

(* Automatic answers die out: a refusal goes up the thread, each notice to *)
(* the author of an older message, and at most an out-of-office answer     *)
(* comes back; so however the agents delegated, a series of them is hardly *)
(* longer than the mail there was when it began.                           *)
Settles == \A i \in Ids : mails[i].hops <= mails[i].before + 2

Declined(i) == \E kind \in {"refusal", "giveup", "dsn"} : Answered(i, kind)

Downwards(i) ==
    /\ mails[i].onThread /\ mails[i].kind = "message"
    /\ LET path == Append(mails[i].path, mails[i].to)
       IN Cardinality(ToSet(path)) = Len(path)

Told(i) == \E j \in Ids : mails[j].kind = "notice" /\ mails[j].irt = mails[i].origin

(* A request that was passed from agent to agent, always to one that had   *)
(* no part in it and on its own thread, and was then refused, given up or  *)
(* could not be delivered: in the end the person who asked is told.        *)
DeclinesReachPeople ==
    []<>(\A i \in Ids : Declined(i) /\ Downwards(i) => Told(i))

(* Whatever arrives is dealt with: every inbox is worked off.              *)
InboxWorkedOff == \A a \in Agents : []<>(arrived[a] = seen[a])

-----------------------------------------------------------------------------
(* What the comments of the code promise.                                  *)

(* "without this fallback every such reply spawns a fresh memory file and  *)
(* re-runs the task": a run knows what its agent handled before in the     *)
(* same Outlook conversation.                                              *)
ConversationRemembered ==
    \A a \in Agents : Busy(a) /\ mails[cur[a].mail].conv # 0 =>
        SameConversation(a) \subseteq cur[a].hist

(* "the delegation chain can unwind via handleAutoReply instead of         *)
(* hanging": when an agent gives up on the answer of a coworker, the       *)
(* person it works for is told in the end.                                 *)
ChainUnwinds ==
    []<>(\A i \in Ids :
            mails[i].kind = "message" /\ mails[i].onThread /\ Answered(i, "giveup")
                => Told(i))

=============================================================================
