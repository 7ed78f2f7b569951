---------------------------- MODULE ThreadProofs ----------------------------
(***************************************************************************)
(* Threads, for any agents, lists and number of messages: what References  *)
(* say about a message, whom a report reaches, what a run remembers, and   *)
(* that automatic answers come to an end.                                  *)
(***************************************************************************)
EXTENDS MailNetworkProofs, Extremes

(* Agents the mail server delivers to.                                     *)
Reachable == Agents \ Unreachable

(* What a message may name: the one it answers, with what that was         *)
(* threaded on, or, for a delivery failure, the one that failed.           *)
Threaded(m) ==
    \/ m.refs = << >> /\ m.irt = 0 /\ m.from \in People
    \/ \E p \in Ids : m.refs = Chained(p) /\ m.irt \in {0, p}
    \/ \E p \in Ids : /\ m.refs = <<p>> /\ m.irt = 0
                      /\ mails[p].to \in Unreachable

(* Headers: only agents that can be reached ever write, to others.         *)
Headers(m) ==
    /\ m.kind \in KindsWritten \cup KindsAutomatic
    /\ m.from \in Addresses /\ m.to \in Addresses /\ m.senders \subseteq Addresses
    /\ m.from \in Agents => m.from \in Reachable /\ m.to # m.from
    /\ m.from \notin Agents => m.kind \in {"new", "reply", "ooo", "dsn"}
    /\ m.kind = "dsn" <=> m.from = Mta
    /\ IsAutoReply(m) => m.conv = 0

(* References are in order, of one thread, and known to those they name;   *)
(* the first is of a person.  A message that could not be delivered is the *)
(* exception: its failure report starts a thread of its own.               *)
References(i) ==
    LET refs == mails[i].refs
    IN /\ refs \in Seq(1..(i - 1))
       /\ \A j, k \in DOMAIN refs : j < k => refs[j] < refs[k]
       /\ \A r \in ToSet(refs) : mails[r].to \notin Unreachable =>
             /\ ThreadRoot(r) = ThreadRoot(i)
             /\ r = ThreadRoot(i) => mails[r].refs = << >>
             /\ mails[r].to \in Agents => r \in Known(mails[r].to)

(* Only what was sent to an agent arrives, and it is seen before it is     *)
(* done with.                                                              *)
Inbox(a) ==
    /\ handled[a] \subseteq seen[a] /\ seen[a] \subseteq arrived[a]
    /\ arrived[a] \subseteq {i \in Ids : mails[i].to = a}
    /\ cur[a].mail \in arrived[a] \cup {0}
    /\ a \in Unreachable => arrived[a] = {}

(* The state is there for every agent.                                     *)
Functions ==
    /\ DOMAIN arrived = Agents /\ DOMAIN seen = Agents /\ DOMAIN handled = Agents
    /\ DOMAIN memory = Agents /\ DOMAIN index = Agents /\ DOMAIN cur = Agents

ThreadInv ==
    /\ Functions
    /\ \A i \in Ids : Headers(mails[i]) /\ Threaded(mails[i]) /\ References(i)
    /\ \A a \in Agents : Inbox(a)

-----------------------------------------------------------------------------
(* What an agent remembers: its memory files, its index of conversations,  *)
(* its run and what it has handled.  Every handled message is in the file  *)
(* of its thread, and in the history of a run for that thread.             *)
MemoryFits(files, run, done) ==
    /\ DOMAIN files \subseteq {ThreadRoot(j) : j \in done \cup ({run.mail} \ {0})}
    /\ \A r \in done : ThreadRoot(r) \in DOMAIN files /\ r \in files[ThreadRoot(r)]
    /\ run.mail # 0 =>
          /\ run.mail \in run.hist
          /\ \A r \in done : SameThread(r, run.mail) => r \in run.hist

(* A conversation leads to a file with a handled message of it, which no   *)
(* run that ends will overwrite.                                           *)
Filed(c, convs, files, run, done) ==
    /\ convs[c] \in DOMAIN files
    /\ \E h \in done :
          /\ Conversation(h) = c /\ h \in files[convs[c]]
          /\ run.mail # 0 /\ convs[c] = ThreadRoot(run.mail) => h \in run.hist

IndexFits(convs, files, run, done) ==
    /\ \A c \in DOMAIN convs :
          \/ Filed(c, convs, files, run, done)
          \/ run.mail # 0 /\ c = Conversation(run.mail) /\ convs[c] = ThreadRoot(run.mail)
    /\ \A h \in done \cup ({run.mail} \ {0}) :
          Conversation(h) # 0 => Conversation(h) \in DOMAIN convs

(* A run for a message without References knows a message of the           *)
(* conversation, if there is one.                                          *)
RunKnows(run, done) ==
    LET same == {h \in done : Conversation(h) = Conversation(run.mail)}
    IN /\ run.mail # 0 /\ Conversation(run.mail) # 0 /\ mails[run.mail].refs = << >>
       /\ same # {}
       => same \cap run.hist # {}

Remembers(files, convs, run, done) ==
    /\ MemoryFits(files, run, done) /\ IndexFits(convs, files, run, done)
    /\ RunKnows(run, done)

MemoryInv == \A a \in Agents : Remembers(memory[a], index[a], cur[a], handled[a])

-----------------------------------------------------------------------------
(* Automatic answers in a row: the first counts the mail there was; a      *)
(* notice answers a message that is older by as much as the row is long;   *)
(* the answer of an Away mailbox to an automatic one is the last.          *)
Series(i) ==
    LET m == mails[i]
        Answers == /\ m.irt \in Ids
                   /\ mails[m.irt].from = m.to /\ mails[m.irt].to = m.from
    IN /\ m.before \in 0..(i - 1) /\ m.hops \in Nat
       /\ m.hops = 0 <=> ~IsAutoReply(m)
       /\ m.hops = 1 => m.before = i - 1
       /\ m.kind \in {"refusal", "giveup", "dsn"} => m.hops = 1
       /\ m.kind \in {"refusal", "giveup", "notice"} => Answers
       /\ m.kind = "notice" => m.hops + m.irt <= m.before + 2
       /\ m.kind = "ooo" =>
             /\ Answers /\ m.refs = Chained(m.irt) /\ m.from \in People
             /\ m.hops = 1 \/ (IsAutoReply(mails[m.irt]) /\ m.hops <= m.before + 2)

SeriesInv == \A i \in Ids : Series(i)

-----------------------------------------------------------------------------
(* Messages are numbered; those that were sent stay as they are.           *)
Kept == Ids \subseteq Ids' /\ \A i \in Ids : mails'[i] = mails[i]

(* What an agent has dealt with, it keeps.                                 *)
KnownKept == \A a \in Agents : Known(a) \ {0} \subseteq Known(a)'

(* The messages are 1, 2 and so on.                                        *)
LEMMA Numbered ==
    ASSUME AccessInv
    PROVE Len(mails) \in Nat /\ Ids = 1..Len(mails)
<1>1. PICK S : mails \in Seq(S)
  BY DEF AccessInv, IsSequence
<1> QED BY <1>1 DEF Ids

(* One more message.                                                       *)
LEMMA OneMore ==
    ASSUME AccessInv, NEW x, mails' = Append(mails, x)
    PROVE /\ Kept /\ Ids' = Ids \cup {Len(mails) + 1}
          /\ mails'[Len(mails) + 1] = x
BY Appending DEF AccessInv, Ids, Kept

(* What a message refers to was sent before it.                            *)
LEMMA ReferencesAreEarlier ==
    ASSUME AccessInv, ThreadInv, NEW i \in Ids
    PROVE /\ mails[i].refs \in Seq(1..(i - 1)) /\ i \in Nat \ {0}
          /\ ToSet(mails[i].refs) \subseteq 1..(i - 1)
          /\ ToSet(mails[i].refs) \subseteq Ids
          /\ mails[i].refs # << >> => mails[i].refs[1] \in ToSet(mails[i].refs)
          /\ ThreadRoot(i) \in Ids
          /\ ThreadRoot(i) \in ToSet(mails[i].refs) \cup {i}
          /\ ThreadRoot(i) = i <=> mails[i].refs = << >>
<1> DEFINE refs == mails[i].refs
<1>1. refs \in Seq(1..(i - 1)) /\ i \in 1..Len(mails) /\ Len(mails) \in Nat
  BY Numbered DEF ThreadInv, References
<1> HIDE DEF refs
<1>2. ToSet(refs) \subseteq 1..(i - 1)
  BY <1>1 DEF ToSet
<1>3. ToSet(refs) \subseteq Ids
  BY <1>1, <1>2, Numbered
<1>4. refs # << >> => refs[1] \in ToSet(refs)
  BY <1>1 DEF ToSet
<1>5. ThreadRoot(i) = IF refs = << >> THEN i ELSE refs[1]
  BY DEF ThreadRoot, refs
<1>6. ThreadRoot(i) \in Ids /\ ThreadRoot(i) \in ToSet(refs) \cup {i}
  BY <1>3, <1>4, <1>5
<1>7. ThreadRoot(i) = i <=> refs = << >>
  BY <1>1, <1>2, <1>4, <1>5
<1> QED BY <1>1, <1>2, <1>3, <1>4, <1>6, <1>7 DEF refs

(* A message that was sent keeps its thread.                               *)
LEMMA OpsKept ==
    ASSUME Kept, NEW i \in Ids
    PROVE /\ ThreadRoot(i)' = ThreadRoot(i) /\ Chained(i)' = Chained(i)
          /\ Conversation(i)' = Conversation(i) /\ Immediate(i)' = Immediate(i)
          /\ (Human(i) <=> Human(i)')
BY DEF Kept, ThreadRoot, Chained, Conversation, Immediate, AddToSenders, Human

(* What was right of a message stays right when more are sent.             *)
LEMMA ThreadsKept ==
    ASSUME AccessInv, ThreadInv, Kept, KnownKept, NEW i \in Ids
    PROVE Headers(mails[i])' /\ Threaded(mails[i])' /\ References(i)'
<1>1. mails'[i] = mails[i] /\ Ids \subseteq Ids' /\ \A p \in Ids : mails'[p] = mails[p]
  BY DEF Kept
<1>2. Headers(mails[i])'
  BY <1>1 DEF ThreadInv, Headers, IsAutoReply
<1>3. Threaded(mails[i])'
  BY <1>1, OpsKept DEF ThreadInv, Threaded
<1>4. References(i)'
  <2> DEFINE refs == mails[i].refs
  <2>1. /\ refs \in Seq(1..(i - 1)) /\ ToSet(refs) \subseteq Ids
        /\ \A j, k \in DOMAIN refs : j < k => refs[j] < refs[k]
    BY ReferencesAreEarlier DEF ThreadInv, References
  <2>2. ASSUME NEW r \in ToSet(refs), mails'[r].to \notin Unreachable
        PROVE /\ ThreadRoot(r)' = ThreadRoot(i)'
              /\ r = ThreadRoot(i)' => mails'[r].refs = << >>
              /\ mails'[r].to \in Agents => r \in Known(mails[r].to)'
    <3>1. r \in Ids /\ mails'[r] = mails[r] /\ r # 0
      BY <1>1, <2>1, ReferencesAreEarlier
    <3>2. /\ ThreadRoot(r) = ThreadRoot(i)
          /\ r = ThreadRoot(i) => mails[r].refs = << >>
          /\ mails[r].to \in Agents => r \in Known(mails[r].to)
      BY <2>2, <3>1 DEF ThreadInv, References
    <3>3. ThreadRoot(r)' = ThreadRoot(r) /\ ThreadRoot(i)' = ThreadRoot(i)
      BY <3>1, OpsKept
    <3>4. mails[r].to \in Agents => r \in Known(mails[r].to)'
      BY <3>1, <3>2 DEF KnownKept, Known
    <3> QED BY <3>1, <3>2, <3>3, <3>4
  <2> QED BY <1>1, <2>1, <2>2 DEF References
<1> QED BY <1>2, <1>3, <1>4

(* What a new message may name, with its author aware of what it answers.  *)
Fresh(m) ==
    \/ m.refs = << >> /\ m.irt = 0 /\ m.from \in People
    \/ \E p \in Ids : /\ m.refs = Chained(p) /\ m.irt \in {0, p}
                      /\ mails[p].to \in Reachable => p \in Known(mails[p].to)'
    \/ \E p \in Ids : /\ m.refs = <<p>> /\ m.irt = 0
                      /\ mails[p].to \in Unreachable

(* References of an answer: those of the message it answers and that one.  *)
LEMMA ChainGoesOn ==
    ASSUME AccessInv, ThreadInv, NEW p \in Ids
    PROVE /\ Chained(p) \in Seq(1..p) /\ Chained(p) # << >>
          /\ Chained(p)[1] = ThreadRoot(p)
          /\ ToSet(Chained(p)) = ToSet(mails[p].refs) \cup {p}
          /\ \A j, k \in DOMAIN Chained(p) : j < k => Chained(p)[j] < Chained(p)[k]
<1> DEFINE refs == mails[p].refs
<1>1. /\ refs \in Seq(1..(p - 1)) /\ p \in Nat \ {0} /\ ToSet(refs) \subseteq 1..(p - 1)
      /\ \A j, k \in DOMAIN refs : j < k => refs[j] < refs[k]
  BY ReferencesAreEarlier DEF ThreadInv, References
<1>2. Chained(p) = Append(refs, p) /\ ThreadRoot(p) = IF refs = << >> THEN p ELSE refs[1]
  BY DEF Chained, ThreadRoot
<1> HIDE DEF refs
<1>3. refs \in Seq(1..p) /\ p \in 1..p /\ IsSequence(refs)
  BY <1>1 DEF IsSequence
<1>4. Append(refs, p) \in Seq(1..p) /\ Append(refs, p) # << >>
      /\ Len(Append(refs, p)) = Len(refs) + 1
  BY <1>3
<1>5. /\ Len(refs) \in Nat /\ DOMAIN refs = 1..Len(refs)
      /\ DOMAIN Append(refs, p) = DOMAIN refs \cup {Len(refs) + 1}
      /\ \A i \in DOMAIN refs : Append(refs, p)[i] = refs[i]
      /\ Append(refs, p)[Len(refs) + 1] = p
      /\ ToSet(Append(refs, p)) = ToSet(refs) \cup {p}
  BY <1>3, Appending
<1>6. Append(refs, p)[1] = IF refs = << >> THEN p ELSE refs[1]
  BY <1>3, <1>5
<1>7. ASSUME NEW j \in DOMAIN Append(refs, p), NEW k \in DOMAIN Append(refs, p), j < k
      PROVE Append(refs, p)[j] < Append(refs, p)[k]
  <2>1. j \in DOMAIN refs /\ refs[j] \in 1..(p - 1)
    BY <1>1, <1>5, <1>7
  <2>2. CASE k \in DOMAIN refs
    BY <1>1, <1>5, <1>7, <2>1, <2>2
  <2>3. CASE k = Len(refs) + 1
    BY <1>1, <1>5, <2>1, <2>3
  <2> QED BY <1>5, <2>2, <2>3
<1> QED BY <1>2, <1>4, <1>5, <1>6, <1>7 DEF refs

(* A fresh message keeps all threads in order, its own included.           *)
LEMMA ThreadsGrow ==
    ASSUME AccessInv, ThreadInv, KnownKept, NEW x, mails' = Append(mails, x),
           Headers(x), Fresh(x), NEW i \in Ids'
    PROVE Headers(mails[i])' /\ Threaded(mails[i])' /\ References(i)'
<1> DEFINE n == Len(mails) + 1
<1>1. /\ Kept /\ Ids' = Ids \cup {n} /\ mails'[n] = x
      /\ Ids = 1..Len(mails) /\ Len(mails) \in Nat
      /\ \A p \in Ids : mails'[p] = mails[p]
  BY OneMore, Numbered DEF Kept
<1>2. CASE i \in Ids
  BY <1>1, <1>2, ThreadsKept
<1>3. CASE i = n
  <2>1. Headers(mails[i])'
    BY <1>1, <1>3 DEF Headers, IsAutoReply
  <2>2. CASE x.refs = << >> /\ x.irt = 0 /\ x.from \in People
    <3>1. Threaded(mails[i])'
      BY <1>1, <1>3, <2>2 DEF Threaded
    <3>2. << >> \in Seq(1..(n - 1)) /\ DOMAIN << >> = {}
      OBVIOUS
    <3>3. References(i)'
      BY <1>1, <1>3, <2>2, <3>2 DEF References, ToSet
    <3> QED BY <2>1, <3>1, <3>3
  <2>3. ASSUME NEW p \in Ids, x.refs = Chained(p), x.irt \in {0, p},
               mails[p].to \in Reachable => p \in Known(mails[p].to)'
        PROVE Threaded(mails[i])' /\ References(i)'
    <3>1. Chained(p)' = Chained(p) /\ p \in Ids'
      BY <1>1, OpsKept
    <3>2. Threaded(mails[i])'
      BY <1>1, <1>3, <2>3, <3>1 DEF Threaded
    <3>3. /\ x.refs \in Seq(1..p) /\ x.refs # << >> /\ x.refs[1] = ThreadRoot(p)
          /\ ToSet(x.refs) = ToSet(mails[p].refs) \cup {p}
          /\ \A j, k \in DOMAIN x.refs : j < k => x.refs[j] < x.refs[k]
      BY <2>3, ChainGoesOn
    <3>4. p \in 1..(n - 1)
      BY <1>1
    <3>5. x.refs \in Seq(1..(i - 1))
      BY <1>3, <3>3, <3>4
    <3>6. ThreadRoot(i)' = ThreadRoot(p)
      BY <1>1, <1>3, <3>3 DEF ThreadRoot
    <3>7. ASSUME NEW r \in ToSet(x.refs), mails'[r].to \notin Unreachable
          PROVE /\ ThreadRoot(r)' = ThreadRoot(i)'
                /\ r = ThreadRoot(i)' => mails'[r].refs = << >>
                /\ mails'[r].to \in Agents => r \in Known(mails[r].to)'
      <4>1. CASE r = p
        BY <1>1, <2>3, <3>6, <3>7, <4>1, OpsKept, ReferencesAreEarlier DEF Reachable
      <4>2. CASE r \in ToSet(mails[p].refs)
        <5>1. r \in Ids /\ mails'[r] = mails[r] /\ ThreadRoot(r)' = ThreadRoot(r)
              /\ ThreadRoot(p)' = ThreadRoot(p) /\ mails'[p] = mails[p]
          BY <1>1, <4>2, ReferencesAreEarlier, OpsKept
        <5>2. References(p)'
          BY <1>1, ThreadsKept
        <5>3. /\ ThreadRoot(r)' = ThreadRoot(p)'
              /\ r = ThreadRoot(p)' => mails'[r].refs = << >>
              /\ mails'[r].to \in Agents => r \in Known(mails[r].to)'
          BY <3>7, <4>2, <5>1, <5>2 DEF References
        <5> QED BY <3>6, <5>1, <5>3
      <4> QED BY <3>3, <4>1, <4>2
    <3>8. References(i)'
      BY <1>1, <1>3, <3>3, <3>5, <3>7 DEF References
    <3> QED BY <3>2, <3>8
  <2>4. ASSUME NEW p \in Ids, x.refs = <<p>>, x.irt = 0, mails[p].to \in Unreachable
        PROVE Threaded(mails[i])' /\ References(i)'
    <3>1. Threaded(mails[i])'
      BY <1>1, <1>3, <2>4 DEF Threaded
    <3>2. <<p>> \in Seq(1..(n - 1)) /\ DOMAIN <<p>> = {1} /\ ToSet(<<p>>) = {p}
      BY <1>1 DEF ToSet
    <3>3. mails'[p].to \in Unreachable /\ mails'[i].refs = <<p>>
      BY <1>1, <1>3, <2>4
    <3>4. \A j, k \in DOMAIN <<p>> : ~(j < k)
      BY <3>2
    <3>5. References(i)'
      BY <1>3, <3>2, <3>3, <3>4 DEF References
    <3> QED BY <3>1, <3>5
  <2> QED BY <2>1, <2>2, <2>3, <2>4 DEF Fresh
<1> QED BY <1>1, <1>2, <1>3

-----------------------------------------------------------------------------
(* What is sent is what was written, with what it answers among the        *)
(* References.                                                             *)
Headed(x, m, src) ==
    /\ x.kind = m.kind /\ x.from = m.from /\ x.to = m.to /\ x.irt = m.irt
    /\ x.senders = m.senders /\ x.conv = m.conv /\ x.src = src
    /\ x.refs = IF m.irt = 0 \/ m.irt \in ToSet(m.refs) THEN m.refs
                ELSE Append(m.refs, m.irt)

Counted(x, src) ==
    /\ x.hops = IF src # 0 /\ IsAutoReply(x) THEN mails[src].hops + 1 ELSE 0
    /\ x.before = IF src # 0 /\ IsAutoReply(x) /\ IsAutoReply(mails[src])
                  THEN mails[src].before ELSE Len(mails)

(* SendEmail (emailing.go) sends the message it was given, with the        *)
(* message that is answered among the References.                          *)
LEMMA Sending ==
    ASSUME NEW m, NEW src, mails' = SendEmail(m, src)
    PROVE \E x : mails' = Append(mails, x) /\ Headed(x, m, src) /\ Counted(x, src)
<1> DEFINE refs == IF m.irt = 0 \/ m.irt \in ToSet(m.refs) THEN m.refs
                   ELSE Append(m.refs, m.irt)
           x == Message(m, refs, src)
<1>1. mails' = Append(mails, x)
  BY DEF SendEmail
<1>2. Headed(x, m, src)
  BY DEF Headed, Message
<1>3. Counted(x, src)
  BY DEF Counted, Message, IsAutoReply
<1> HIDE DEF x
<1> QED BY <1>1, <1>2, <1>3

(* An automatic answer that is threaded on the message it answers.         *)
LEMMA AnswerIsFresh ==
    ASSUME AccessInv, ThreadInv, NEW x, NEW m, NEW src, Headed(x, m, src),
           NEW p \in Ids, m.irt = p, m.refs \in {Chained(p), mails[p].refs},
           mails[p].to \in Reachable => p \in Known(mails[p].to)'
    PROVE x.refs = Chained(p) /\ x.irt = p /\ Fresh(x)
<1>1. p \in Nat \ {0} /\ ToSet(mails[p].refs) \subseteq 1..(p - 1)
      /\ ToSet(Chained(p)) = ToSet(mails[p].refs) \cup {p}
  BY ReferencesAreEarlier, ChainGoesOn
<1>2. p \notin ToSet(mails[p].refs) /\ Chained(p) = Append(mails[p].refs, p)
  BY <1>1 DEF Chained
<1>3. x.refs = Chained(p) /\ x.irt = p
  BY <1>1, <1>2 DEF Headed
<1> QED BY <1>3 DEF Fresh

(* What the agents have in their inboxes was sent to them.                 *)
LEMMA KnownIsOwn ==
    ASSUME ThreadInv, NEW a \in Agents, NEW i \in Known(a), i # 0
    PROVE i \in arrived[a]
BY DEF ThreadInv, Inbox, Known

(* A message in an inbox was sent by someone else, to an agent that can be *)
(* reached.                                                                *)
LEMMA ArrivedIsOwn ==
    ASSUME ThreadInv, NEW a \in Agents, NEW i \in arrived[a]
    PROVE i \in Ids /\ mails[i].to = a /\ a \in Reachable
          /\ mails[i].from \in Addresses /\ mails[i].from # a
BY DEF ThreadInv, Inbox, Headers, Reachable

(* A person's first message begins a thread.                               *)
LEMMA PersonWritesFresh ==
    ASSUME NEW u \in People, NEW a \in Desks, PersonWrites(u, a)
    PROVE \E x : /\ mails' = Append(mails, x) /\ Headers(x) /\ Fresh(x)
                 /\ x.kind = "new" /\ Counted(x, 0)
<1> DEFINE m == [kind |-> "new", from |-> u, to |-> a, refs |-> << >>,
                 irt |-> 0, senders |-> {},
                 conv |-> IF u \in Outlook THEN Len(mails) + 1 ELSE 0]
<1>1. mails' = SendEmail(m, 0)
  BY DEF PersonWrites
<1>2. m.kind = "new" /\ m.from = u /\ m.to = a /\ m.refs = << >> /\ m.irt = 0 /\ m.senders = {}
  OBVIOUS
<1> HIDE DEF m
<1>3. PICK x : mails' = Append(mails, x) /\ Headed(x, m, 0) /\ Counted(x, 0)
  BY <1>1, Sending
<1>4. x.kind = "new" /\ x.from = u /\ x.to = a /\ x.refs = << >> /\ x.irt = 0 /\ x.senders = {}
  BY <1>2, <1>3 DEF Headed
<1>5. u \in Addresses /\ a \in Addresses /\ u \notin Agents /\ u # Mta
  BY ConstantsAssumption DEF Addresses
<1>6. Headers(x)
  BY <1>4, <1>5 DEF Headers, KindsWritten, KindsAutomatic, IsAutoReply
<1>7. Fresh(x)
  BY <1>4 DEF Fresh
<1> QED BY <1>3, <1>4, <1>6, <1>7

(* A person's reply goes on with the thread or, from Outlook, begins one.  *)
LEMMA PersonRepliesFresh ==
    ASSUME AccessInv, ThreadInv,
           NEW u \in People, NEW i \in Ids, PersonReplies(u, i)
    PROVE \E x : /\ mails' = Append(mails, x) /\ Headers(x) /\ Fresh(x)
                 /\ x.kind = "reply" /\ Counted(x, 0)
<1>1. PICK refs \in {Chained(i), << >>} :
        mails' = SendEmail(
             [kind |-> "reply", from |-> u, to |-> mails[i].from, refs |-> refs,
              irt |-> IF refs = << >> THEN 0 ELSE i, senders |-> {},
              conv |-> IF u \notin Outlook THEN 0
                       ELSE IF mails[i].conv # 0 THEN mails[i].conv
                       ELSE Len(mails) + 1], 0)
  BY DEF PersonReplies
<1> DEFINE m == [kind |-> "reply", from |-> u, to |-> mails[i].from, refs |-> refs,
                 irt |-> IF refs = << >> THEN 0 ELSE i, senders |-> {},
                 conv |-> IF u \notin Outlook THEN 0
                          ELSE IF mails[i].conv # 0 THEN mails[i].conv
                          ELSE Len(mails) + 1]
<1>2. /\ m.kind = "reply" /\ m.from = u /\ m.to = mails[i].from /\ m.refs = refs
      /\ m.irt = (IF refs = << >> THEN 0 ELSE i) /\ m.senders = {}
      /\ mails' = SendEmail(m, 0)
  BY <1>1
<1> HIDE DEF m
<1>3. PICK x : mails' = Append(mails, x) /\ Headed(x, m, 0) /\ Counted(x, 0)
  BY <1>2, Sending
<1>4. mails[i].from \in Agents /\ mails[i].to = u
  BY DEF PersonReplies
<1>5. /\ u \in Addresses /\ mails[i].from \in Addresses /\ u \notin Agents /\ u # Mta
      /\ u \notin Reachable
  BY <1>4, ConstantsAssumption DEF Addresses, Reachable
<1>6. x.kind = "reply" /\ x.from = u /\ x.to = mails[i].from /\ x.senders = {}
  BY <1>2, <1>3 DEF Headed
<1>7. Headers(x)
  BY <1>5, <1>6 DEF Headers, KindsWritten, KindsAutomatic, IsAutoReply
<1>8. Fresh(x)
  <2>1. CASE refs = << >>
    BY <1>2, <1>3, <2>1 DEF Headed, Fresh
  <2>2. CASE refs = Chained(i)
    <3>1. Chained(i) # << >>
      BY ChainGoesOn
    <3>2. m.irt = i /\ m.refs = Chained(i)
      BY <1>2, <2>2, <3>1
    <3> QED BY <1>3, <1>4, <1>5, <3>2, AnswerIsFresh
  <2> QED BY <2>1, <2>2
<1> QED BY <1>3, <1>6, <1>7, <1>8

(* An answer of the program or of the mail system.                         *)
LEMMA AutomaticFields ==
    ASSUME NEW k, NEW from, NEW to, NEW refs, NEW irt
    PROVE LET m == Automatic(k, from, to, refs, irt)
          IN /\ m.kind = k /\ m.from = from /\ m.to = to /\ m.refs = refs
             /\ m.irt = irt /\ m.senders = {} /\ m.conv = 0
BY DEF Automatic

(* An out-of-office answer goes on with the thread of what it answers.     *)
LEMMA OutOfOfficeFresh ==
    ASSUME AccessInv, ThreadInv, NEW i \in Ids, OutOfOffice(i)
    PROVE \E x : /\ mails' = Append(mails, x) /\ Headers(x) /\ Fresh(x)
                 /\ x.kind = "ooo" /\ x.from = mails[i].to /\ x.to = mails[i].from
                 /\ x.refs = Chained(i) /\ x.irt = i /\ Counted(x, i)
                 /\ x.from \in People /\ x.to \in Agents
<1> DEFINE m == Automatic("ooo", mails[i].to, mails[i].from, Chained(i), i)
<1>1. mails' = SendEmail(m, i) /\ mails[i].to \in Away /\ mails[i].from \in Agents
  BY DEF OutOfOffice
<1>2. /\ m.kind = "ooo" /\ m.from = mails[i].to /\ m.to = mails[i].from
      /\ m.refs = Chained(i) /\ m.irt = i /\ m.senders = {} /\ m.conv = 0
  BY AutomaticFields
<1> HIDE DEF m
<1>3. PICK x : mails' = Append(mails, x) /\ Headed(x, m, i) /\ Counted(x, i)
  BY <1>1, Sending
<1>4. /\ mails[i].to \in People /\ mails[i].to \in Addresses /\ mails[i].to # Mta
      /\ mails[i].to \notin Agents /\ mails[i].from \in Addresses
  BY <1>1, ConstantsAssumption DEF Addresses
<1>5. x.refs = Chained(i) /\ x.irt = i /\ Fresh(x)
  BY <1>2, <1>3, <1>4, AnswerIsFresh DEF Reachable
<1>6. /\ x.kind = "ooo" /\ x.from = mails[i].to /\ x.to = mails[i].from
      /\ x.senders = {} /\ x.conv = 0
  BY <1>2, <1>3 DEF Headed
<1>7. Headers(x)
  BY <1>4, <1>6 DEF Headers, KindsWritten, KindsAutomatic, IsAutoReply
<1> QED BY <1>1, <1>3, <1>4, <1>5, <1>6, <1>7

(* A failure report names the message that could not be delivered.         *)
LEMMA DeliveryFailsFresh ==
    ASSUME AccessInv, ThreadInv, NEW i \in Ids, DeliveryFails(i)
    PROVE \E x : /\ mails' = Append(mails, x) /\ Headers(x) /\ Fresh(x)
                 /\ x.kind = "dsn" /\ Counted(x, i)
<1> DEFINE m == Automatic("dsn", Mta, mails[i].from, <<i>>, 0)
<1>1. /\ mails' = SendEmail(m, i) /\ mails[i].to \in Unreachable
      /\ mails[i].from \in Agents
  BY DEF DeliveryFails
<1>2. /\ m.kind = "dsn" /\ m.from = Mta /\ m.to = mails[i].from
      /\ m.refs = <<i>> /\ m.irt = 0 /\ m.senders = {} /\ m.conv = 0
  BY AutomaticFields
<1> HIDE DEF m
<1>3. PICK x : mails' = Append(mails, x) /\ Headed(x, m, i) /\ Counted(x, i)
  BY <1>1, Sending
<1>4. Mta \in Addresses /\ Mta \notin Agents /\ mails[i].from \in Addresses
  BY <1>1, ConstantsAssumption DEF Addresses
<1>5. /\ x.kind = "dsn" /\ x.from = Mta /\ x.to = mails[i].from
      /\ x.refs = <<i>> /\ x.irt = 0 /\ x.senders = {} /\ x.conv = 0
  BY <1>2, <1>3 DEF Headed
<1>6. Headers(x)
  BY <1>4, <1>5 DEF Headers, KindsWritten, KindsAutomatic, IsAutoReply
<1>7. Fresh(x)
  BY <1>1, <1>5 DEF Fresh
<1> QED BY <1>3, <1>5, <1>6, <1>7

(* A refusal, or an agent that gives up, answers a message it has seen.    *)
LEMMA BounceFresh ==
    ASSUME AccessInv, ThreadInv,
           NEW a \in Agents, NEW i \in arrived[a], i \in seen'[a],
           ~IsAutoReply(mails[i]),
           NEW k \in {"refusal", "giveup"}, SendBounce(a, i, k)
    PROVE \E x : /\ mails' = Append(mails, x) /\ Headers(x) /\ Fresh(x)
                 /\ x.kind = k /\ x.from = a /\ x.to = mails[i].from
                 /\ x.irt = i /\ Counted(x, i)
<1> DEFINE m == Automatic(k, a, mails[i].from, mails[i].refs, i)
<1>1. mails' = SendEmail(m, i)
  BY DEF SendBounce
<1>2. /\ m.kind = k /\ m.from = a /\ m.to = mails[i].from
      /\ m.refs = mails[i].refs /\ m.irt = i /\ m.senders = {} /\ m.conv = 0
  BY AutomaticFields
<1> HIDE DEF m
<1>3. PICK x : mails' = Append(mails, x) /\ Headed(x, m, i) /\ Counted(x, i)
  BY <1>1, Sending
<1>4. /\ i \in Ids /\ mails[i].to = a /\ a \in Reachable /\ a \in Addresses /\ a # Mta
      /\ mails[i].from \in Addresses /\ mails[i].from # a
  BY ArrivedIsOwn, ConstantsAssumption DEF Addresses
<1>5. i \in Known(mails[i].to)' \/ mails[i].to # a
  <2>1. i \in seen'[a] \cup {cur'[a].mail}
    OBVIOUS
  <2>2. mails'[i].to = mails[i].to
    BY <1>3, <1>4, OneMore DEF Kept
  <2> QED BY <1>4, <2>1, <2>2 DEF Known
<1>6. x.irt = i /\ Fresh(x)
  BY <1>2, <1>3, <1>4, <1>5, AnswerIsFresh
<1>7. /\ x.kind = k /\ x.from = a /\ x.to = mails[i].from
      /\ x.senders = {} /\ x.conv = 0
  BY <1>2, <1>3 DEF Headed
<1>8. Headers(x)
  BY <1>4, <1>7 DEF Headers, KindsWritten, KindsAutomatic, IsAutoReply
<1> QED BY <1>3, <1>6, <1>7, <1>8

-----------------------------------------------------------------------------
(* The newest reference that is found, if any is.                          *)
LEMMA LastInIsNewest ==
    ASSUME AccessInv, ThreadInv, NEW i \in Ids, NEW S
    PROVE LET refs == ToSet(mails[i].refs)
              r == LastIn(mails[i].refs, S)
          IN \/ r = 0 /\ refs \cap S = {}
             \/ r \in refs \cap S /\ \A q \in refs \cap S : q <= r
<1> DEFINE F == ToSet(mails[i].refs) \cap S
           G == F \cup {0}
<1>1. F \subseteq 1..(i - 1) /\ i \in Nat \ {0}
  BY ReferencesAreEarlier
<1>2. LastIn(mails[i].refs, S) = Max(G)
  BY DEF LastIn
<1>3. G \in SUBSET Nat /\ G # {} /\ (\A q \in G : q <= i) /\ i \in Nat
  BY <1>1
<1> HIDE DEF F, G
<1>4. Max(G) \in G /\ \A q \in G : q <= Max(G)
  BY <1>3, Greatest
<1> QED BY <1>1, <1>2, <1>4 DEF F, G

(* What an agent's inbox holds of a message's references, it has dealt     *)
(* with.                                                                   *)
LEMMA ReferencesAreKnown ==
    ASSUME AccessInv, ThreadInv, NEW a \in Agents, NEW i \in Ids,
           NEW r \in ToSet(mails[i].refs), mails[r].to = a, a \in Reachable
    PROVE r \in arrived[a] /\ r \in Known(a) /\ ThreadRoot(r) = ThreadRoot(i)
          /\ (r = ThreadRoot(i) => mails[r].refs = << >>)
          /\ r < i /\ r \in Nat \ {0}
<1>1. r \in Nat \ {0} /\ r < i
  BY ReferencesAreEarlier
<1>2. /\ r \in Known(a) /\ ThreadRoot(r) = ThreadRoot(i)
      /\ r = ThreadRoot(i) => mails[r].refs = << >>
  BY DEF ThreadInv, References, Reachable
<1>3. r \in arrived[a]
  BY <1>1, <1>2, KnownIsOwn
<1> QED BY <1>1, <1>2, <1>3

(* What a message of an agent was threaded on is one of its References     *)
(* that is in the agent's inbox.                                           *)
LEMMA ParentIsKnown ==
    ASSUME AccessInv, ThreadInv, NEW a \in Agents, NEW j \in Ids,
           ParentOf(a, j) # 0
    PROVE ParentOf(a, j) \in ToSet(mails[j].refs) \cap arrived[a]
<1>1. CASE mails[j].irt \in arrived[a]
  <2>1. mails[j].irt \in Ids /\ mails[j].irt # 0
    BY <1>1, ArrivedIsOwn, Numbered
  <2>2. PICK p \in Ids : mails[j].refs = Chained(p) /\ mails[j].irt = p
    BY <2>1 DEF ThreadInv, Threaded
  <2>3. p \in ToSet(mails[j].refs)
    BY <2>2, ChainGoesOn
  <2> QED BY <1>1, <2>2, <2>3 DEF ParentOf
<1>2. CASE mails[j].irt \notin arrived[a]
  BY <1>2, LastInIsNewest DEF ParentOf
<1> QED BY <1>1, <1>2

(* The upstream message is one of the inbox, known and older.              *)
LEMMA UpstreamIsKnown ==
    ASSUME AccessInv, ThreadInv, NEW a \in Agents, NEW i \in Ids, Upstream(a, i) # 0
    PROVE LET up == Upstream(a, i)
          IN /\ up \in arrived[a] /\ up \in Known(a) /\ up < i /\ up \in Nat \ {0}
             /\ \/ up = LastIn(mails[i].refs, arrived[a])
                \/ /\ ToSet(mails[i].refs) \cap arrived[a] = {}
                   /\ \E s \in ToSet(mails[i].refs) \cap Sent(a) :
                         up \in ToSet(mails[s].refs)
<1> DEFINE up == Upstream(a, i)
           inbox == LastIn(mails[i].refs, arrived[a])
           S == {j \in Sent(a) : ParentOf(a, j) # 0}
           sent == LastIn(mails[i].refs, S)
<1>1. up = IF inbox # 0 THEN inbox ELSE IF sent # 0 THEN ParentOf(a, sent) ELSE 0
  BY DEF Upstream
<1> HIDE DEF up, inbox, sent
<1>2. CASE inbox # 0
  <2>1. inbox \in ToSet(mails[i].refs) /\ inbox \in arrived[a]
    BY <1>2, LastInIsNewest DEF inbox
  <2>2. inbox \in Known(a) /\ inbox < i /\ inbox \in Nat \ {0}
    BY <2>1, ArrivedIsOwn, ReferencesAreKnown
  <2> QED BY <1>1, <1>2, <2>1, <2>2 DEF up, inbox
<1>3. CASE inbox = 0 /\ sent # 0
  <2>1. sent \in ToSet(mails[i].refs) \cap S
    BY <1>3, LastInIsNewest DEF sent
  <2>2. sent \in Ids /\ sent \in Sent(a) /\ ParentOf(a, sent) # 0 /\ sent < i
    <3>1. sent \in ToSet(mails[i].refs) /\ sent \in Sent(a) /\ ParentOf(a, sent) # 0
      BY <2>1
    <3> HIDE DEF S
    <3>2. ToSet(mails[i].refs) \subseteq 1..(i - 1) /\ ToSet(mails[i].refs) \subseteq Ids
          /\ i \in Nat \ {0}
      BY ReferencesAreEarlier
    <3> QED BY <3>1, <3>2
  <2>3. up \in ToSet(mails[sent].refs) /\ up \in arrived[a]
    BY <1>1, <1>3, <2>2, ParentIsKnown
  <2>4. up \in Known(a) /\ up < sent /\ up \in Nat \ {0}
    BY <2>2, <2>3, ArrivedIsOwn, ReferencesAreKnown
  <2>5. ToSet(mails[i].refs) \cap arrived[a] = {}
    <3>1. 0 \notin arrived[a]
      BY ArrivedIsOwn, Numbered
    <3> QED BY <1>3, <3>1, LastInIsNewest DEF inbox
  <2>6. up < i
    BY <2>2, <2>4, Numbered
  <2> QED BY <2>1, <2>2, <2>3, <2>4, <2>5, <2>6 DEF up
<1> QED BY <1>1, <1>2, <1>3 DEF up

(* A notice goes on with the thread of the message it is about             *)
(* (handleAutoReply, main.go).                                             *)
LEMMA NoticeFresh ==
    ASSUME AccessInv, ThreadInv, NEW a \in Agents, NEW i \in Ids,
           NEW up, up = Upstream(a, i), up # 0, KnownKept,
           mails' = SendEmail(Automatic("notice", a, mails[up].from, Chained(up), up), i)
    PROVE \E x : /\ mails' = Append(mails, x) /\ Headers(x) /\ Fresh(x)
                 /\ x.kind = "notice" /\ x.from = a /\ x.to = mails[up].from
                 /\ x.irt = up /\ Counted(x, i)
<1> DEFINE m == Automatic("notice", a, mails[up].from, Chained(up), up)
<1>1. mails' = SendEmail(m, i)
  OBVIOUS
<1>2. /\ m.kind = "notice" /\ m.from = a /\ m.to = mails[up].from
      /\ m.refs = Chained(up) /\ m.irt = up /\ m.senders = {} /\ m.conv = 0
  BY AutomaticFields
<1> HIDE DEF m
<1>3. PICK x : mails' = Append(mails, x) /\ Headed(x, m, i) /\ Counted(x, i)
  BY <1>1, Sending
<1>4. up \in arrived[a] /\ up \in Known(a)
  BY UpstreamIsKnown
<1>5. /\ up \in Ids /\ mails[up].to = a /\ a \in Reachable /\ a \in Addresses /\ a # Mta
      /\ mails[up].from \in Addresses /\ mails[up].from # a
  BY <1>4, ArrivedIsOwn, ConstantsAssumption DEF Addresses
<1>6. up \in Known(mails[up].to)'
  <2>1. up \in Known(a)'
    BY <1>4 DEF KnownKept
  <2>2. mails'[up].to = a
    BY <1>3, <1>5, OneMore DEF Kept
  <2> QED BY <2>1, <2>2 DEF Known
<1>7. x.irt = up /\ Fresh(x)
  BY <1>2, <1>3, <1>5, <1>6, AnswerIsFresh
<1>8. /\ x.kind = "notice" /\ x.from = a /\ x.to = mails[up].from
      /\ x.senders = {} /\ x.conv = 0
  BY <1>2, <1>3 DEF Headed
<1>9. Headers(x)
  BY <1>5, <1>8 DEF Headers, KindsWritten, KindsAutomatic, IsAutoReply
<1> QED BY <1>3, <1>7, <1>8, <1>9

(* What a run writes carries the senders of the message it works on and is *)
(* threaded on that message or on one its agent has dealt with.            *)
Composed(x, a, k, to, use, i) ==
    LET parent == ThreadingParent(cur[a].mail, use, i)
    IN /\ x.kind = k /\ x.from = a /\ x.to = to /\ x.src = cur[a].mail
       /\ x.refs = Chained(parent)
       /\ x.irt = (IF use = "reply" THEN parent ELSE 0)
       /\ Counted(x, cur[a].mail)

(* The mail tools reply to, forward or go on from a message the agent      *)
(* knows (send_helper.go).                                                 *)
LEMMA ComposeFresh ==
    ASSUME AccessInv, ThreadInv, NEW a \in Agents, Busy(a),
           NEW k, k \in {"message", "report", "strict"}, NEW to, to \in Addresses,
           NEW use, NEW i, i \in Known(a), Send(a, k, to, use, i)
    PROVE \E x : /\ mails' = Append(mails, x) /\ Headers(x) /\ Fresh(x)
                 /\ Composed(x, a, k, to, use, i)
<1> DEFINE src == cur[a].mail
           parent == ThreadingParent(src, use, i)
           m == [kind |-> k, from |-> a, to |-> to, refs |-> Chained(parent),
                 irt |-> IF use = "reply" THEN parent ELSE 0,
                 senders |-> Immediate(src), conv |-> mails[src].conv]
<1>1. mails' = SendEmail(m, src) /\ to # a /\ UNCHANGED Others
  BY DEF Send, Compose
<1>2. /\ m.kind = k /\ m.from = a /\ m.to = to /\ m.refs = Chained(parent)
      /\ m.irt = (IF use = "reply" THEN parent ELSE 0) /\ m.senders = Immediate(src)
  OBVIOUS
<1> HIDE DEF m
<1>3. PICK x : mails' = Append(mails, x) /\ Headed(x, m, src) /\ Counted(x, src)
  BY <1>1, Sending
<1>4. src \in Known(a) /\ src # 0 /\ src \in Ids
  BY DEF Known, Busy, AccessInv, RunAdmitted
<1>5. i # 0
  BY <1>4, Numbered DEF Known, ThreadInv, Inbox
<1>6. parent \in Known(a) /\ parent # 0
  BY <1>4, <1>5 DEF ThreadingParent
<1> HIDE DEF parent
<1>7. PICK p : p = parent
  OBVIOUS
<1>8. /\ p \in Ids /\ mails[p].to = a /\ a \in Reachable /\ a \in Addresses /\ a # Mta
      /\ p \in Known(mails[p].to)'
  <2>1. p \in Ids /\ mails[p].to = a /\ a \in Reachable /\ a \in Addresses /\ a # Mta
    BY <1>6, <1>7, KnownIsOwn, ArrivedIsOwn, ConstantsAssumption DEF Addresses
  <2>2. p \in Known(a)'
    BY <1>1, <1>6, <1>7 DEF Known, Others
  <2>3. mails'[p].to = a
    BY <1>3, <2>1, OneMore DEF Kept
  <2> QED BY <2>1, <2>2, <2>3
<1>9. x.refs = Chained(p) /\ x.irt = (IF use = "reply" THEN p ELSE 0) /\ Fresh(x)
  <2>1. m.refs = Chained(p) /\ m.irt = (IF use = "reply" THEN p ELSE 0)
    BY <1>2, <1>7
  <2>2. CASE use = "reply"
    BY <1>3, <1>8, <2>1, <2>2, AnswerIsFresh
  <2>3. CASE use # "reply"
    BY <1>3, <1>8, <2>1, <2>3 DEF Headed, Fresh
  <2> QED BY <2>2, <2>3
<1>10. /\ x.kind = k /\ x.from = a /\ x.to = to /\ x.senders = Immediate(src) /\ x.src = src
  BY <1>2, <1>3 DEF Headed
<1>11. Immediate(src) \subseteq Addresses
  BY <1>4 DEF ThreadInv, Headers, Immediate, AddToSenders
<1>12. Headers(x)
  BY <1>1, <1>8, <1>10, <1>11 DEF Headers, KindsWritten, KindsAutomatic, IsAutoReply
<1> QED BY <1>3, <1>7, <1>9, <1>10, <1>12 DEF parent, Composed

-----------------------------------------------------------------------------
(* The steps that leave the inboxes alone.                                 *)
LEMMA SendingKeepsThreads ==
    ASSUME AccessInv, ThreadInv, UNCHANGED Others,
           NEW x, mails' = Append(mails, x), Headers(x), Fresh(x)
    PROVE ThreadInv'
<1>1. Kept /\ KnownKept
  BY OneMore DEF KnownKept, Known, Others
<1>2. \A i \in Ids' : Headers(mails[i])' /\ Threaded(mails[i])' /\ References(i)'
  BY <1>1, ThreadsGrow
<1>3. ASSUME NEW a \in Agents PROVE Inbox(a)'
  <2>1. Inbox(a)
    BY DEF ThreadInv
  <2>2. arrived'[a] \subseteq {j \in Ids' : mails'[j].to = a}
    BY <1>1, <2>1 DEF Inbox, Kept, Others
  <2> QED BY <2>1, <2>2 DEF Inbox, Others
<1>4. Functions'
  BY DEF ThreadInv, Functions, Others
<1> QED BY <1>2, <1>3, <1>4 DEF ThreadInv

(* The steps that send nothing.                                            *)
LEMMA SilentKeepsThreads ==
    ASSUME AccessInv, ThreadInv, mails' = mails, KnownKept, Functions',
           \A a \in Agents : Inbox(a)'
    PROVE ThreadInv'
<1>1. Kept /\ Ids' = Ids
  BY DEF Kept, Ids
<1>2. \A i \in Ids' : Headers(mails[i])' /\ Threaded(mails[i])' /\ References(i)'
  BY <1>1, ThreadsKept
<1> QED BY <1>2 DEF ThreadInv

(* A message that is taken from the inbox or whose run ends is seen.       *)
LEMMA SeenKeepsInboxes ==
    ASSUME AccessInv, ThreadInv, Kept, NEW a \in Agents, NEW i \in arrived[a],
           arrived' = arrived, MarkSeen(a, i),
           handled' = handled \/ handled' = [handled EXCEPT ![a] = @ \cup {i}],
           \/ cur' = cur
           \/ cur' = [cur EXCEPT ![a] = NoRun] /\ cur[a].mail \in {0, i}
    PROVE KnownKept /\ \A b \in Agents : Inbox(b)'
<1>1. DOMAIN seen = Agents /\ DOMAIN handled = Agents /\ DOMAIN cur = Agents
  BY DEF ThreadInv, Functions
<1>2. /\ seen'[a] = seen[a] \cup {i} /\ \A b \in Agents \ {a} : seen'[b] = seen[b]
      /\ handled'[a] \subseteq handled[a] \cup {i}
      /\ \A b \in Agents \ {a} : handled'[b] = handled[b]
  BY <1>1 DEF MarkSeen
<1>3. /\ cur'[a].mail = cur[a].mail \/ (cur'[a].mail = 0 /\ cur[a].mail \in {0, i})
      /\ \A b \in Agents \ {a} : cur'[b] = cur[b]
  BY <1>1 DEF NoRun
<1>4. KnownKept
  <2>1. ASSUME NEW b \in Agents PROVE Known(b) \ {0} \subseteq Known(b)'
    <3>1. CASE b = a
      BY <1>2, <1>3, <3>1 DEF Known
    <3>2. CASE b # a
      BY <1>2, <1>3, <3>2 DEF Known
    <3> QED BY <3>1, <3>2
  <2> QED BY <2>1 DEF KnownKept
<1>5. ASSUME NEW b \in Agents PROVE Inbox(b)'
  <2>1. Inbox(b) /\ Inbox(a)
    BY DEF ThreadInv
  <2>2. arrived'[b] \subseteq {j \in Ids' : mails'[j].to = b}
    BY <2>1 DEF Inbox, Kept
  <2>3. CASE b = a
    BY <1>2, <1>3, <2>1, <2>2, <2>3 DEF Inbox
  <2>4. CASE b # a
    BY <1>2, <1>3, <2>1, <2>2, <2>4 DEF Inbox
  <2> QED BY <2>3, <2>4
<1> QED BY <1>4, <1>5

(* The message a step sends, if it sends one, fits its thread.             *)
LEMMA GrowingKeepsThreads ==
    ASSUME AccessInv, ThreadInv, KnownKept, Functions', \A a \in Agents : Inbox(a)',
           mails' = mails
             \/ \E x : mails' = Append(mails, x) /\ Headers(x) /\ Fresh(x)
    PROVE ThreadInv'
<1>1. ASSUME NEW x, mails' = Append(mails, x), Headers(x), Fresh(x)
      PROVE ThreadInv'
  BY <1>1, ThreadsGrow DEF ThreadInv
<1> QED BY <1>1, SilentKeepsThreads

(* Steps of people and of the mail system.                                 *)
LEMMA OutsideKeepsThreads ==
    ASSUME AccessInv, ThreadInv,
           \/ \E u \in People, a \in Desks : PersonWrites(u, a)
           \/ \E u \in People, i \in Ids : PersonReplies(u, i)
           \/ \E i \in Ids : OutOfOffice(i) \/ DeliveryFails(i)
    PROVE ThreadInv'
<1>1. ASSUME NEW u \in People, NEW a \in Desks, PersonWrites(u, a) PROVE ThreadInv'
  BY <1>1, PersonWritesFresh, SendingKeepsThreads DEF PersonWrites
<1>2. ASSUME NEW u \in People, NEW i \in Ids, PersonReplies(u, i) PROVE ThreadInv'
  BY <1>2, PersonRepliesFresh, SendingKeepsThreads DEF PersonReplies
<1>3. ASSUME NEW i \in Ids, OutOfOffice(i) PROVE ThreadInv'
  BY <1>3, OutOfOfficeFresh, SendingKeepsThreads DEF OutOfOffice
<1>4. ASSUME NEW i \in Ids, DeliveryFails(i) PROVE ThreadInv'
  BY <1>4, DeliveryFailsFresh, SendingKeepsThreads DEF DeliveryFails
<1> QED BY <1>1, <1>2, <1>3, <1>4

(* A delivery, which no message it is not addressed to can undo.           *)
LEMMA DeliverKeepsThreads ==
    ASSUME AccessInv, ThreadInv, NEW a \in Agents, NEW i \in Ids, Deliver(a, i)
    PROVE ThreadInv'
<1>1. /\ mails' = mails /\ seen' = seen /\ handled' = handled /\ cur' = cur
      /\ memory' = memory /\ index' = index
      /\ mails[i].to = a /\ a \notin Unreachable
      /\ arrived' = [arrived EXCEPT ![a] = @ \cup {i}]
  BY DEF Deliver
<1>2. DOMAIN arrived = Agents
  BY DEF ThreadInv, Functions
<1>3. arrived'[a] = arrived[a] \cup {i} /\ \A b \in Agents \ {a} : arrived'[b] = arrived[b]
  BY <1>1, <1>2
<1>4. Functions'
  BY <1>1, <1>2 DEF ThreadInv, Functions
<1>5. KnownKept
  BY <1>1 DEF KnownKept, Known
<1>6. ASSUME NEW b \in Agents PROVE Inbox(b)'
  <2>1. Inbox(b) /\ Ids' = Ids
    BY <1>1 DEF ThreadInv, Ids
  <2>2. CASE b = a
    BY <1>1, <1>3, <2>1, <2>2 DEF Inbox
  <2>3. CASE b # a
    BY <1>1, <1>3, <2>1, <2>3 DEF Inbox
  <2> QED BY <2>2, <2>3
<1> QED BY <1>1, <1>4, <1>5, <1>6, SilentKeepsThreads

(* An agent takes the next message of its inbox.                           *)
LEMMA PollKeepsThreads ==
    ASSUME AccessInv, ThreadInv, NEW a \in Agents, Poll(a)
    PROVE ThreadInv'
<1>1. ASSUME NEW i \in Ids, HandleAutoReply(a, i) PROVE ThreadInv'
  <2> DEFINE up == Upstream(a, i)
             m == Automatic("notice", a, mails[up].from, Chained(up), up)
  <2>1. /\ i \in arrived[a] /\ arrived' = arrived /\ cur' = cur /\ index' = index
        /\ MarkSeen(a, i) /\ handled' = [handled EXCEPT ![a] = @ \cup {i}]
        /\ DOMAIN memory' = DOMAIN memory
        /\ mails' = mails \/ (up # 0 /\ mails' = SendEmail(m, i))
    BY <1>1 DEF HandleAutoReply, New, NotifyUpstream
  <2> HIDE DEF up, m
  <2>2. Functions'
    BY <2>1 DEF ThreadInv, Functions, MarkSeen
  <2>3. Kept
    <3>1. CASE mails' = mails
      BY <3>1 DEF Kept, Ids
    <3>2. CASE mails' = SendEmail(m, i)
      BY <3>2, Sending, OneMore
    <3> QED BY <2>1, <3>1, <3>2
  <2>4. KnownKept /\ \A b \in Agents : Inbox(b)'
    BY <2>1, <2>3, SeenKeepsInboxes
  <2>5. CASE up # 0 /\ mails' = SendEmail(m, i)
    <3>1. PICK q : q = up
      OBVIOUS
    <3>2. q = Upstream(a, i) /\ q # 0
          /\ mails' = SendEmail(Automatic("notice", a, mails[q].from, Chained(q), q), i)
      BY <2>5, <3>1 DEF up, m
    <3>3. \E x : mails' = Append(mails, x) /\ Headers(x) /\ Fresh(x)
      BY <2>4, <3>2, NoticeFresh
    <3> QED BY <2>2, <2>4, <3>3, GrowingKeepsThreads
  <2> QED BY <2>1, <2>2, <2>4, <2>5, GrowingKeepsThreads
<1>2. ASSUME NEW i \in Ids, Refuse(a, i) PROVE ThreadInv'
  <2>1. /\ i \in arrived[a] /\ arrived' = arrived /\ cur' = cur /\ index' = index
        /\ memory' = memory /\ MarkSeen(a, i) /\ handled' = handled
        /\ SendBounce(a, i, "refusal") /\ ~IsAutoReply(mails[i])
    BY <1>2 DEF Refuse, New
  <2>2. Functions' /\ i \in seen'[a]
    BY <2>1 DEF ThreadInv, Functions, MarkSeen
  <2>3. \E x : mails' = Append(mails, x) /\ Headers(x) /\ Fresh(x)
    BY <2>1, <2>2, BounceFresh
  <2>4. Kept
    BY <2>3, OneMore
  <2>5. KnownKept /\ \A b \in Agents : Inbox(b)'
    BY <2>1, <2>4, SeenKeepsInboxes
  <2> QED BY <2>2, <2>3, <2>5, GrowingKeepsThreads
<1>3. ASSUME NEW i \in Ids, StartRun(a, i) PROVE ThreadInv'
  <2>1. /\ mails' = mails /\ arrived' = arrived /\ seen' = seen /\ handled' = handled
        /\ i \in arrived[a] /\ cur[a].mail = 0 /\ DOMAIN memory' = DOMAIN memory
        /\ DOMAIN index' = DOMAIN index
    BY <1>3 DEF StartRun, New, Busy, RememberThreadIndex
  <2>2. PICK h : cur' = [cur EXCEPT ![a] = [mail |-> i, hist |-> h]]
    BY <1>3 DEF StartRun
  <2>3. DOMAIN cur = Agents /\ DOMAIN cur' = Agents /\ cur'[a].mail = i
        /\ \A b \in Agents \ {a} : cur'[b] = cur[b]
    BY <2>2 DEF ThreadInv, Functions
  <2>4. Functions'
    BY <2>1, <2>3 DEF ThreadInv, Functions
  <2>5. KnownKept
    <3>1. ASSUME NEW b \in Agents PROVE Known(b) \ {0} \subseteq Known(b)'
      <4>1. CASE b = a
        BY <2>1, <2>3, <4>1 DEF Known
      <4>2. CASE b # a
        BY <2>1, <2>3, <4>2 DEF Known
      <4> QED BY <4>1, <4>2
    <3> QED BY <3>1 DEF KnownKept
  <2>6. ASSUME NEW b \in Agents PROVE Inbox(b)'
    <3>1. Inbox(b) /\ Ids' = Ids
      BY <2>1 DEF ThreadInv, Ids
    <3>2. CASE b = a
      BY <2>1, <2>3, <3>1, <3>2 DEF Inbox
    <3>3. CASE b # a
      BY <2>1, <2>3, <3>1, <3>3 DEF Inbox
    <3> QED BY <3>2, <3>3
  <2> QED BY <2>1, <2>4, <2>5, <2>6, SilentKeepsThreads
<1> QED BY <1>1, <1>2, <1>3 DEF Poll

(* A run ends, with or without a message to its sender.                    *)
LEMMA EndsRunKeepsThreads ==
    ASSUME AccessInv, ThreadInv, NEW a \in Agents, EndsRun(a)
    PROVE ThreadInv'
<1>1. PICK i \in Ids : Finish(a, i) \/ GiveUp(a, i)
  BY DEF EndsRun
<1>2. /\ arrived' = arrived /\ index' = index /\ DOMAIN memory' = DOMAIN memory
      /\ MarkSeen(a, i) /\ handled' = [handled EXCEPT ![a] = @ \cup {i}]
      /\ cur' = [cur EXCEPT ![a] = NoRun] /\ Busy(a) /\ i = cur[a].mail
      /\ mails' = mails \/ SendBounce(a, i, "giveup")
  BY <1>1 DEF Finish, GiveUp, EndRun
<1>3. i \in arrived[a] /\ ~IsAutoReply(mails[i])
  BY <1>2 DEF ThreadInv, Inbox, Busy, AccessInv, RunAdmitted
<1>4. Functions' /\ i \in seen'[a]
  BY <1>2 DEF ThreadInv, Functions, MarkSeen
<1>5. mails' = mails \/ \E x : mails' = Append(mails, x) /\ Headers(x) /\ Fresh(x)
  BY <1>2, <1>3, <1>4, BounceFresh
<1>6. Kept
  <2>1. CASE mails' = mails
    BY <2>1 DEF Kept, Ids
  <2> QED BY <1>5, <2>1, OneMore
<1>7. KnownKept /\ \A b \in Agents : Inbox(b)'
  BY <1>2, <1>3, <1>6, SeenKeepsInboxes
<1> QED BY <1>4, <1>5, <1>7, GrowingKeepsThreads

-----------------------------------------------------------------------------
(* Whom reports reach.  The persons of a thread are authors of messages.   *)
LEMMA HumansAreAuthors ==
    ASSUME AccessInv, ThreadInv, NEW a \in Agents, NEW seed \in arrived[a]
    PROVE /\ HumansInThread(a, seed) =
                Authors(ToSet(Chained(seed)) \cap arrived[a]) \ Agents
          /\ HumansInThread(a, seed) \subseteq Addresses
          /\ HumansInThread(a, seed) # {} =>
                FindHumanInThread(a, seed) \in HumansInThread(a, seed)
<1> DEFINE refs == ToSet(mails[seed].refs)
           S == {i \in arrived[a] : Human(i)}
           r == LastIn(mails[seed].refs, S)
           H == {seed} \cup (refs \cap arrived[a])
<1>1. seed \in Ids /\ H \subseteq arrived[a] /\ arrived[a] \subseteq Ids
  BY ArrivedIsOwn
<1>2. HumansInThread(a, seed) = {mails[i].from : i \in {j \in H : Human(j)}}
  BY DEF HumansInThread
<1>3. H = ToSet(Chained(seed)) \cap arrived[a]
  BY <1>1, ChainGoesOn
<1>4. (r = 0 /\ refs \cap S = {}) \/ r \in refs \cap S
  BY <1>1, LastInIsNewest
<1>5. FindHumanInThread(a, seed) = mails[IF Human(seed) THEN seed ELSE r].from
  BY DEF FindHumanInThread
<1> HIDE DEF refs, r, H
<1>6. HumansInThread(a, seed) = Authors(H) \ Agents
  BY <1>2 DEF Authors, Human
<1>7. HumansInThread(a, seed) \subseteq Addresses
  <2>1. \A i \in arrived[a] : mails[i].from \in Addresses
    BY ArrivedIsOwn
  <2> QED BY <1>1, <1>6, <2>1 DEF Authors
<1>8. ASSUME HumansInThread(a, seed) # {}
      PROVE FindHumanInThread(a, seed) \in HumansInThread(a, seed)
  <2>1. PICK i \in H : Human(i)
    BY <1>2, <1>8
  <2>2. CASE Human(seed)
    BY <1>2, <1>5, <2>2 DEF H
  <2>3. CASE ~Human(seed)
    <3>1. i \in refs \cap S
      BY <2>1, <2>3 DEF H
    <3>2. r \in refs \cap S
      BY <1>4, <3>1
    <3>3. r \in H /\ Human(r)
      BY <3>2 DEF H
    <3> QED BY <1>2, <1>5, <2>3, <3>3
  <2> QED BY <2>2, <2>3
<1> QED BY <1>3, <1>6, <1>7, <1>8

(* The recipient a report tool settles on.                                 *)
LEMMA HealedRecipient ==
    ASSUME AccessInv, ThreadInv, NEW a \in Agents, Busy(a),
           NEW to \in Agents \cup People, NEW use, NEW i \in Known(a)
    PROVE LET humans == HumansInThread(a, ThreadingParent(cur[a].mail, "reply", i))
              healed == HealReportRecipient(a, to, use, i)
          IN /\ healed \in Addresses
             /\ use = "reply" => healed \in humans \cup Whitelist[a] \/ humans = {}
<1> DEFINE src == cur[a].mail
           seed == IF SameThread(src, i) THEN src ELSE i
           humans == HumansInThread(a, seed)
<1>1. HealReportRecipient(a, to, use, i) =
        IF use # "reply" \/ RecipientAllowed(a, to, humans) \/ humans = {}
        THEN to ELSE FindHumanInThread(a, seed)
  BY DEF HealReportRecipient
<1>2. seed = ThreadingParent(src, "reply", i)
  BY DEF ThreadingParent
<1>3. seed \in Known(a) /\ seed # 0
  BY Numbered DEF Known, ThreadInv, Inbox, Busy
<1>4. seed \in arrived[a]
  BY <1>3, KnownIsOwn
<1> HIDE DEF seed
<1>5. humans \subseteq Addresses
      /\ (humans # {} => FindHumanInThread(a, seed) \in humans)
  BY <1>4, HumansAreAuthors
<1>6. to \in Addresses
  BY DEF Addresses
<1> HIDE DEF humans
<1>7. HealReportRecipient(a, to, use, i) \in Addresses
  BY <1>1, <1>5, <1>6
<1>8. use = "reply" => \/ HealReportRecipient(a, to, use, i) \in humans \cup Whitelist[a]
                       \/ humans = {}
  BY <1>1, <1>5 DEF RecipientAllowed
<1> QED BY <1>2, <1>7, <1>8 DEF humans

(* Who a strict report goes to: the author of the first message if that    *)
(* was sent to the agent, then a person.                                   *)
LEMMA RequesterIsPerson ==
    ASSUME AccessInv, ThreadInv, NEW a \in Agents, Busy(a),
           OriginalRequester(a) \notin Agents
    PROVE LET src == cur[a].mail
              root == ThreadRoot(src)
          IN /\ OriginalRequester(a) \in People
             /\ OriginalRequester(a) = mails[IF mails[root].to = a THEN root ELSE src].from
<1> DEFINE src == cur[a].mail
           root == ThreadRoot(src)
<1>1. src \in arrived[a] /\ src \in Ids /\ ~IsAutoReply(mails[src])
  BY DEF ThreadInv, Inbox, Busy, AccessInv, RunAdmitted
<1>2. /\ mails[src].to = a /\ a \in Reachable /\ mails[src].from \in Addresses
      /\ mails[src].from # Mta
  BY <1>1, ArrivedIsOwn DEF ThreadInv, Headers, IsAutoReply, KindsAutomatic
<1>3. root \in Ids /\ root \in ToSet(mails[src].refs) \cup {src}
      /\ (root = src <=> mails[src].refs = << >>)
  BY <1>1, ReferencesAreEarlier
<1>4. OriginalRequester(a) = IF root \in arrived[a] /\ Human(root) THEN mails[root].from
                             ELSE mails[src].from
  BY DEF OriginalRequester
<1> HIDE DEF root
<1>5. CASE mails[root].to = a
  <2>1. mails[root].refs = << >> /\ root \in arrived[a]
    <3>1. CASE root = src
      BY <1>1, <1>3, <3>1
    <3>2. CASE root \in ToSet(mails[src].refs)
      BY <1>1, <1>2, <1>5, <3>2, ReferencesAreKnown DEF root
    <3> QED BY <1>3, <3>1, <3>2
  <2>2. mails[root].from \in People
    <3>1. \A p \in Ids : Chained(p) # << >>
      BY ChainGoesOn
    <3>2. Threaded(mails[root])
      BY <1>3 DEF ThreadInv
    <3> QED BY <2>1, <3>1, <3>2 DEF Threaded
  <2>3. Human(root)
    BY <2>2, ConstantsAssumption DEF Human
  <2> QED BY <1>4, <1>5, <2>1, <2>2, <2>3 DEF root
<1>6. CASE mails[root].to # a
  <2>1. root \notin arrived[a]
    BY <1>6, ArrivedIsOwn
  <2> QED BY <1>2, <1>4, <1>6, <2>1 DEF root, Addresses
<1> QED BY <1>5, <1>6

(* Reports, one by one.                                                    *)
ReportStays(i) ==
    mails[i].kind = "report" /\ mails[i].irt # 0 =>
        LET a == mails[i].from
            known == Authors(ToSet(mails[i].refs) \cap arrived[a]) \ Agents
        IN mails[i].to \in known \cup Whitelist[a] \/ known = {}

StrictReaches(i) ==
    mails[i].kind = "strict" =>
        LET root == ThreadRoot(mails[i].src)
        IN /\ mails[i].src \in Ids /\ mails[i].to \in People
           /\ mails[i].to = mails[IF mails[root].to = mails[i].from THEN root
                                 ELSE mails[i].src].from

ReportInv == \A i \in Ids : ReportStays(i) /\ StrictReaches(i)

IsReport(m) == m.kind \in {"report", "strict"}

(* A report that was sent stays right: nobody whose message it names turns *)
(* up in the inbox later.                                                  *)
LEMMA ReportsStay ==
    ASSUME AccessInv, ThreadInv, ReportInv, Kept,
           \A a \in Agents : arrived'[a] \cap Ids \subseteq {j \in Ids : mails[j].to = a},
           \A a \in Agents : arrived[a] \subseteq arrived'[a],
           \A a \in Unreachable \cap Agents : arrived'[a] = {},
           NEW i \in Ids
    PROVE ReportStays(i)' /\ StrictReaches(i)'
<1>1. ReportStays(i)'
  <2> SUFFICES ASSUME mails[i].kind = "report", mails[i].irt # 0
               PROVE ReportStays(i)'
    BY DEF ReportStays, Kept
  <2> DEFINE a == mails[i].from
             refs == ToSet(mails[i].refs)
             S == refs \cap arrived[a]
  <2>1. refs \subseteq Ids /\ a \in Agents /\ mails'[i] = mails[i]
    BY ReferencesAreEarlier DEF ThreadInv, Headers, Kept
  <2>2. refs \cap arrived'[a] = S
    <3>1. ASSUME NEW r \in refs, r \in arrived'[a] PROVE r \in arrived[a]
      <4>1. r \in Ids /\ mails[r].to = a /\ a \in Reachable
        BY <2>1, <3>1 DEF Reachable
      <4> HIDE DEF a
      <4> QED BY <2>1, <4>1, ReferencesAreKnown
    <3> QED BY <2>1, <3>1
  <2>3. \A r \in S : mails'[r] = mails[r]
    BY <2>1 DEF Kept
  <2> DEFINE known == Authors(S) \ Agents
  <2>4. {mails'[r].from : r \in S} = {mails[r].from : r \in S}
    BY <2>3
  <2>5. mails[i].to \in known \cup Whitelist[a] \/ known = {}
    BY DEF ReportInv, ReportStays
  <2>6. /\ mails'[i].kind = "report" /\ mails'[i].irt # 0 /\ mails'[i].from = a
        /\ ToSet(mails'[i].refs) \cap arrived'[mails'[i].from] = S
        /\ mails'[i].to = mails[i].to
    BY <2>1, <2>2
  <2> HIDE DEF S, a
  <2> QED BY <2>4, <2>5, <2>6 DEF ReportStays, Authors
<1>2. StrictReaches(i)'
  <2> SUFFICES ASSUME mails[i].kind = "strict" PROVE StrictReaches(i)'
    BY DEF StrictReaches, Kept
  <2> DEFINE src == mails[i].src
             root == ThreadRoot(src)
  <2>1. /\ src \in Ids /\ mails[i].to \in People
        /\ mails[i].to = mails[IF mails[root].to = mails[i].from THEN root ELSE src].from
    BY DEF ReportInv, StrictReaches
  <2>2. root \in Ids
    BY <2>1, ReferencesAreEarlier
  <2>3. /\ mails'[i] = mails[i] /\ mails'[src] = mails[src] /\ mails'[root] = mails[root]
        /\ src \in Ids'
    BY <2>1, <2>2 DEF Kept
  <2>4. ThreadRoot(mails[i].src)' = root
    BY <2>3 DEF ThreadRoot
  <2> HIDE DEF root
  <2> QED BY <2>1, <2>3, <2>4 DEF StrictReaches
<1> QED BY <1>1, <1>2

(* The mail tools: the message fits its thread and a report is right.      *)
LEMMA MessageToolPosts ==
    ASSUME AccessInv, ThreadInv, NEW a \in Agents, MessageTool(a)
    PROVE \E x : /\ mails' = Append(mails, x) /\ Headers(x) /\ Fresh(x) /\ ~IsReport(x)
                 /\ x.kind = "message" /\ Counted(x, cur[a].mail)
<1>1. PICK to \in Agents, use \in Uses, i \in Known(a) :
        Busy(a) /\ Send(a, "message", to, use, i)
  BY DEF MessageTool
<1>2. to \in Addresses
  BY DEF Addresses
<1>3. PICK x : /\ mails' = Append(mails, x) /\ Headers(x) /\ Fresh(x)
               /\ Composed(x, a, "message", to, use, i)
  BY <1>1, <1>2, ComposeFresh
<1> QED BY <1>3 DEF Composed, IsReport

(* A report that replies reaches a person of its thread, or the whitelist. *)
LEMMA ReportToolPosts ==
    ASSUME AccessInv, ThreadInv, NEW a \in Agents, ReportTool(a)
    PROVE \E x : /\ mails' = Append(mails, x) /\ Headers(x) /\ Fresh(x)
                 /\ x.kind = "report" /\ x.from = a /\ Counted(x, cur[a].mail)
                 /\ x.irt # 0 =>
                       LET known == Authors(ToSet(x.refs) \cap arrived[a]) \ Agents
                       IN x.to \in known \cup Whitelist[a] \/ known = {}
<1>1. PICK to \in Agents \cup People, use \in {"new", "reply"}, i \in Known(a) :
        Busy(a) /\ Send(a, "report", HealReportRecipient(a, to, use, i), use, i)
  BY DEF ReportTool
<1> DEFINE src == cur[a].mail
           parent == ThreadingParent(src, use, i)
           humans == HumansInThread(a, ThreadingParent(src, "reply", i))
           healed == HealReportRecipient(a, to, use, i)
<1>2. /\ healed \in Addresses
      /\ use = "reply" => healed \in humans \cup Whitelist[a] \/ humans = {}
  BY <1>1, HealedRecipient
<1>3. PICK x : /\ mails' = Append(mails, x) /\ Headers(x) /\ Fresh(x)
               /\ Composed(x, a, "report", healed, use, i)
  BY <1>1, <1>2, ComposeFresh
<1>4. /\ x.kind = "report" /\ x.from = a /\ x.to = healed /\ x.refs = Chained(parent)
      /\ x.irt = (IF use = "reply" THEN parent ELSE 0) /\ Counted(x, src)
  BY <1>3 DEF Composed
<1>5. ASSUME x.irt # 0
      PROVE LET known == Authors(ToSet(x.refs) \cap arrived[a]) \ Agents
            IN x.to \in known \cup Whitelist[a] \/ known = {}
  <2>1. use = "reply" /\ parent # 0
    BY <1>4, <1>5
  <2>2. parent \in arrived[a]
    <3>1. parent \in Known(a)
      BY <2>1 DEF ThreadingParent, Known
    <3> QED BY <2>1, <3>1, KnownIsOwn
  <2>3. humans = Authors(ToSet(Chained(parent)) \cap arrived[a]) \ Agents
    BY <2>1, <2>2, HumansAreAuthors
  <2> HIDE DEF humans, healed, parent
  <2> QED BY <1>2, <1>4, <2>1, <2>3
<1> QED BY <1>3, <1>4, <1>5

(* A strict report reaches the requester.                                  *)
LEMMA ReportStrictToolPosts ==
    ASSUME AccessInv, ThreadInv, NEW a \in Agents,
           ReportStrictTool(a)
    PROVE \E x : /\ mails' = Append(mails, x) /\ Headers(x) /\ Fresh(x)
                 /\ x.kind = "strict" /\ x.from = a /\ Counted(x, cur[a].mail)
                 /\ x.src \in Ids /\ x.to \in People
                 /\ x.to = mails[IF mails[ThreadRoot(x.src)].to = a
                                 THEN ThreadRoot(x.src) ELSE x.src].from
<1>1. PICK to \in Agents \cup People, i \in Known(a) :
        /\ Busy(a) /\ OriginalRequester(a) \notin Agents
        /\ Send(a, "strict", LockReportRecipient(a, to), "reply", i)
  BY DEF ReportStrictTool
<1> DEFINE src == cur[a].mail
           root == ThreadRoot(src)
<1>2. /\ OriginalRequester(a) \in People
      /\ OriginalRequester(a) = mails[IF mails[root].to = a THEN root ELSE src].from
  BY <1>1, RequesterIsPerson
<1>3. LockReportRecipient(a, to) = OriginalRequester(a) /\ OriginalRequester(a) \in Addresses
  BY <1>2 DEF LockReportRecipient, Addresses
<1>4. PICK x : /\ mails' = Append(mails, x) /\ Headers(x) /\ Fresh(x)
               /\ Composed(x, a, "strict", OriginalRequester(a), "reply", i)
  BY <1>1, <1>3, ComposeFresh
<1>5. /\ x.kind = "strict" /\ x.from = a /\ x.to = OriginalRequester(a)
      /\ x.src = src /\ Counted(x, src)
  BY <1>4 DEF Composed
<1>6. src \in Ids
  BY <1>1 DEF AccessInv, RunAdmitted
<1>7. ThreadRoot(x.src) = root
  BY <1>5
<1> HIDE DEF root
<1> QED BY <1>2, <1>4, <1>5, <1>6, <1>7

(* Everything else sends no report.                                        *)
LEMMA OthersPost ==
    ASSUME AccessInv, ThreadInv, [Next]_vars
    PROVE \/ mails' = mails
          \/ \E x : mails' = Append(mails, x) /\ ~IsReport(x)
          \/ \E a \in Agents : ReportTool(a) \/ ReportStrictTool(a)
<1>1. ASSUME NEW u \in People, NEW a \in Desks, PersonWrites(u, a)
      PROVE \E x : mails' = Append(mails, x) /\ ~IsReport(x)
  BY <1>1, PersonWritesFresh DEF IsReport
<1>2. ASSUME NEW u \in People, NEW i \in Ids, PersonReplies(u, i)
      PROVE \E x : mails' = Append(mails, x) /\ ~IsReport(x)
  BY <1>2, PersonRepliesFresh DEF IsReport
<1>3. ASSUME NEW i \in Ids, OutOfOffice(i) \/ DeliveryFails(i)
      PROVE \E x : mails' = Append(mails, x) /\ ~IsReport(x)
  BY <1>3, OutOfOfficeFresh, DeliveryFailsFresh DEF IsReport
<1>4. ASSUME NEW m, NEW src, mails' = SendEmail(m, src), IsAutoReply(m)
      PROVE \E x : mails' = Append(mails, x) /\ ~IsReport(x)
  <2>1. PICK x : mails' = Append(mails, x) /\ Headed(x, m, src)
    BY <1>4, Sending
  <2> QED BY <1>4, <2>1 DEF Headed, IsAutoReply, KindsAutomatic, IsReport
<1>5. ASSUME NEW k \in KindsAutomatic, NEW from, NEW to, NEW refs, NEW irt
      PROVE IsAutoReply(Automatic(k, from, to, refs, irt))
  BY DEF IsAutoReply, Automatic
<1>6. ASSUME NEW a \in Agents, Poll(a) \/ EndsRun(a) \/ Delivers(a)
      PROVE mails' = mails \/ \E x : mails' = Append(mails, x) /\ ~IsReport(x)
  <2>1. ASSUME NEW i, HandleAutoReply(a, i)
        PROVE mails' = mails \/ \E x : mails' = Append(mails, x) /\ ~IsReport(x)
    <3> DEFINE up == Upstream(a, i)
               m == Automatic("notice", a, mails[up].from, Chained(up), up)
    <3>1. mails' = mails \/ mails' = SendEmail(m, i)
      BY <2>1 DEF HandleAutoReply
    <3>2. IsAutoReply(m)
      BY <1>5 DEF KindsAutomatic
    <3> HIDE DEF m
    <3> QED BY <3>1, <3>2, <1>4
  <2>2. ASSUME NEW i, NEW k \in {"refusal", "giveup"}, SendBounce(a, i, k)
        PROVE \E x : mails' = Append(mails, x) /\ ~IsReport(x)
    <3> DEFINE m == Automatic(k, a, mails[i].from, mails[i].refs, i)
    <3>1. mails' = SendEmail(m, i)
      BY <2>2 DEF SendBounce
    <3>2. IsAutoReply(m)
      BY <1>5 DEF KindsAutomatic
    <3> HIDE DEF m
    <3> QED BY <3>1, <3>2, <1>4
  <2> QED BY <1>6, <2>1, <2>2
       DEF Poll, EndsRun, Delivers, Deliver, Refuse, StartRun, Finish, GiveUp
<1>7. ASSUME NEW a \in Agents, MessageTool(a)
      PROVE \E x : mails' = Append(mails, x) /\ ~IsReport(x)
  BY <1>7, MessageToolPosts
<1> QED BY <1>1, <1>2, <1>3, <1>6, <1>7 DEF Next, vars

-----------------------------------------------------------------------------
(* Threads: what References say holds whatever is sent, lost or returned.  *)
LEMMA ToolsKeepThreads ==
    ASSUME AccessInv, ThreadInv, NEW a \in Agents,
           MessageTool(a) \/ ReportTool(a) \/ ReportStrictTool(a)
    PROVE ThreadInv'
<1>1. UNCHANGED Others
  BY DEF MessageTool, ReportTool, ReportStrictTool, Send
<1>2. \E x : mails' = Append(mails, x) /\ Headers(x) /\ Fresh(x)
  BY MessageToolPosts, ReportToolPosts, ReportStrictToolPosts
<1> QED BY <1>1, <1>2, SendingKeepsThreads

(* References are in order, of one thread, and known to whom they name,    *)
(* whatever is sent, lost or returned (SendEmail, emailing.go; ThreadRoot, *)
(* memory.go).                                                             *)
THEOREM ThreadInvariant == Spec => []ThreadInv
<1>1. Init => ThreadInv
  <2> SUFFICES ASSUME Init PROVE ThreadInv
    OBVIOUS
  <2>1. Ids = {} /\ \A a \in Agents : cur[a].mail = 0
    BY DEF Init, Ids, NoRun
  <2>2. Functions
    BY DEF Init, Functions
  <2>3. \A a \in Agents : Inbox(a)
    BY <2>1 DEF Init, Inbox
  <2> QED BY <2>1, <2>2, <2>3 DEF ThreadInv
<1>2. AccessInv /\ ThreadInv /\ [Next]_vars => ThreadInv'
  <2> SUFFICES ASSUME AccessInv, ThreadInv, [Next]_vars PROVE ThreadInv'
    OBVIOUS
  <2>1. CASE \E a \in Agents : MessageTool(a) \/ ReportTool(a) \/ ReportStrictTool(a)
    BY <2>1, ToolsKeepThreads
  <2>2. CASE \E a \in Agents : Poll(a) \/ EndsRun(a)
    BY <2>2, PollKeepsThreads, EndsRunKeepsThreads
  <2>3. CASE \E a \in Agents : Delivers(a)
    BY <2>3, DeliverKeepsThreads DEF Delivers
  <2>4. CASE UNCHANGED vars
    <3>1. KnownKept
      BY <2>4 DEF vars, KnownKept, Known
    <3>2. Functions' /\ \A a \in Agents : Inbox(a)'
      BY <2>4 DEF vars, ThreadInv, Functions, Inbox, Ids
    <3> QED BY <2>4, <3>1, <3>2, SilentKeepsThreads DEF vars
  <2>5. CASE \/ \E u \in People, a \in Desks : PersonWrites(u, a)
             \/ \E u \in People, i \in Ids : PersonReplies(u, i)
             \/ \E i \in Ids : OutOfOffice(i) \/ DeliveryFails(i)
    BY <2>5, OutsideKeepsThreads
  <2> QED BY <2>1, <2>2, <2>3, <2>4, <2>5 DEF Next
<1> QED BY <1>1, <1>2, AccessInvariant, PTL DEF Spec

(* Reports stay right in every step: no other mail is a report, and what   *)
(* arrives later names nobody new in the threads of old ones.              *)
LEMMA ReportStep ==
    ASSUME AccessInv, ThreadInv, ThreadInv', ReportInv, [Next]_vars
    PROVE ReportInv'
<1> DEFINE Right(x) ==
             /\ x.kind = "report" /\ x.irt # 0 =>
                  LET known == Authors(ToSet(x.refs) \cap arrived[x.from]) \ Agents
                  IN x.to \in known \cup Whitelist[x.from] \/ known = {}
             /\ x.kind = "strict" =>
                  /\ x.src \in Ids /\ x.to \in People
                  /\ x.to = mails[IF mails[ThreadRoot(x.src)].to = x.from
                                  THEN ThreadRoot(x.src) ELSE x.src].from
<1>1. \A a \in Agents : arrived[a] \subseteq arrived'[a]
  <2>1. CASE \E a \in Agents : Delivers(a)
    <3>1. PICK a \in Agents, i \in Ids : Deliver(a, i)
      BY <2>1 DEF Delivers
    <3>2. DOMAIN arrived = Agents
      BY DEF ThreadInv, Functions
    <3> QED BY <3>1, <3>2 DEF Deliver
  <2>2. CASE arrived' = arrived
    BY <2>2
  <2>3. ASSUME NEW a \in Agents, Poll(a) \/ EndsRun(a) PROVE arrived' = arrived
    BY <2>3 DEF Poll, HandleAutoReply, Refuse, StartRun, EndsRun, Finish, GiveUp
  <2>4. ASSUME NEW a \in Agents, MessageTool(a) \/ ReportTool(a) \/ ReportStrictTool(a)
        PROVE arrived' = arrived
    BY <2>4 DEF MessageTool, ReportTool, ReportStrictTool, Send, Others
  <2>5. ASSUME \/ \E u \in People, a \in Desks : PersonWrites(u, a)
               \/ \E u \in People, i \in Ids : PersonReplies(u, i)
               \/ \E i \in Ids : OutOfOffice(i) \/ DeliveryFails(i)
        PROVE arrived' = arrived
    BY <2>5 DEF PersonWrites, PersonReplies, OutOfOffice, DeliveryFails, Others
  <2> QED BY <2>1, <2>2, <2>3, <2>4, <2>5 DEF Next, vars
<1>2. \A a \in Agents : /\ arrived'[a] \subseteq {j \in Ids' : mails'[j].to = a}
                        /\ a \in Unreachable => arrived'[a] = {}
  BY DEF ThreadInv, Inbox
<1>3. ASSUME Kept, NEW i \in Ids PROVE ReportStays(i)' /\ StrictReaches(i)'
  <2>1. \A a \in Agents : arrived'[a] \cap Ids \subseteq {j \in Ids : mails[j].to = a}
    BY <1>2, <1>3 DEF Kept
  <2>2. \A a \in Unreachable \cap Agents : arrived'[a] = {}
    BY <1>2
  <2> QED BY <1>1, <1>3, <2>1, <2>2, ReportsStay
<1>4. ASSUME mails' = mails PROVE ReportInv'
  <2>1. Kept /\ Ids' = Ids
    BY <1>4 DEF Kept, Ids
  <2> QED BY <1>3, <2>1 DEF ReportInv
<1>5. ASSUME NEW x, mails' = Append(mails, x), Right(x), IsReport(x) => arrived' = arrived
      PROVE ReportInv'
  <2>0. PICK n : n = Len(mails) + 1
    OBVIOUS
  <2>1. Kept /\ Ids' = Ids \cup {n} /\ mails'[n] = x
    BY <1>5, <2>0, OneMore
  <2>2. ReportStays(n)' /\ StrictReaches(n)'
    <3>1. CASE ~IsReport(x)
      BY <2>1, <3>1 DEF IsReport, ReportStays, StrictReaches
    <3>2. CASE IsReport(x)
      <4>1. arrived' = arrived
        BY <1>5, <3>2
      <4>2. ReportStays(n)'
        <5> SUFFICES ASSUME x.kind = "report", x.irt # 0 PROVE ReportStays(n)'
          BY <2>1 DEF ReportStays
        <5> DEFINE S == ToSet(x.refs) \cap arrived[x.from]
        <5>1. x.from \in Agents
          BY <1>5, <2>1 DEF ThreadInv, Headers
        <5>2. S \subseteq Ids
          BY <5>1 DEF ThreadInv, Inbox
        <5>3. {mails'[r].from : r \in S} = {mails[r].from : r \in S}
          BY <2>1, <5>2 DEF Kept
        <5>4. \/ x.to \in ({mails[r].from : r \in S} \ Agents) \cup Whitelist[x.from]
              \/ {mails[r].from : r \in S} \ Agents = {}
          BY <1>5 DEF Authors
        <5>5. ToSet(mails'[n].refs) \cap arrived'[mails'[n].from] = S
          BY <2>1, <4>1
        <5> HIDE DEF S
        <5> QED BY <2>1, <5>3, <5>4, <5>5 DEF ReportStays, Authors
      <4>3. StrictReaches(n)'
        <5> SUFFICES ASSUME x.kind = "strict" PROVE StrictReaches(n)'
          BY <2>1 DEF StrictReaches
        <5>1. /\ x.src \in Ids /\ x.to \in People
              /\ x.to = mails[IF mails[ThreadRoot(x.src)].to = x.from
                              THEN ThreadRoot(x.src) ELSE x.src].from
          BY <1>5
        <5>2. PICK s \in Ids, root \in Ids : s = x.src /\ root = ThreadRoot(s)
          BY <5>1, ReferencesAreEarlier
        <5>3. ThreadRoot(s)' = root /\ mails'[s] = mails[s] /\ mails'[root] = mails[root]
              /\ s \in Ids'
          BY <2>1, <5>2, OpsKept DEF Kept
        <5>4. ThreadRoot(mails[n].src)' = root
          BY <2>1, <5>2, <5>3 DEF ThreadRoot
        <5> QED BY <2>1, <5>1, <5>2, <5>3, <5>4 DEF StrictReaches
      <4> QED BY <4>2, <4>3
    <3> QED BY <3>1, <3>2
  <2> QED BY <1>3, <2>1, <2>2 DEF ReportInv
<1>6. ASSUME NEW a \in Agents, ReportTool(a) \/ ReportStrictTool(a) PROVE ReportInv'
  <2>1. arrived' = arrived
    BY <1>6 DEF ReportTool, ReportStrictTool, Send, Others
  <2>2. CASE ReportTool(a)
    <3>1. PICK x : /\ mails' = Append(mails, x) /\ x.kind = "report" /\ x.from = a
                   /\ x.irt # 0 =>
                       LET known == Authors(ToSet(x.refs) \cap arrived[a]) \ Agents
                       IN x.to \in known \cup Whitelist[a] \/ known = {}
      BY <2>2, ReportToolPosts
    <3> QED BY <1>5, <2>1, <3>1
  <2>3. CASE ReportStrictTool(a)
    <3>1. PICK x : /\ mails' = Append(mails, x) /\ x.kind = "strict" /\ x.from = a
                   /\ x.src \in Ids /\ x.to \in People
                   /\ x.to = mails[IF mails[ThreadRoot(x.src)].to = a
                                   THEN ThreadRoot(x.src) ELSE x.src].from
      BY <2>3, ReportStrictToolPosts
    <3> QED BY <1>5, <2>1, <3>1
  <2> QED BY <1>6, <2>2, <2>3
<1>7. ASSUME NEW x, mails' = Append(mails, x), ~IsReport(x) PROVE ReportInv'
  BY <1>5, <1>7 DEF IsReport
<1> HIDE DEF Right
<1> QED BY <1>4, <1>6, <1>7, OthersPost

(* Reports reach whom they may, each by itself and for good.               *)
THEOREM ReportInvariant == Spec => []ReportInv
<1>1. Init => ReportInv
  BY DEF Init, ReportInv, Ids
<1> QED BY <1>1, ReportStep, AccessInvariant, ThreadInvariant, PTL DEF Spec

(* A report that replies reaches only someone who wrote in its thread or   *)
(* is on the whitelist, whomever the model named (HealReportRecipient,     *)
(* send_helper.go), and stays so whatever arrives later.                   *)
THEOREM ReportsReachTheThread == Spec => []ReportsStayInThread
<1>1. ReportInv => ReportsStayInThread
  BY DEF ReportInv, ReportStays, ReportsStayInThread
<1> QED BY <1>1, ReportInvariant, PTL

(* A strict report goes to the person who asked (LockReportRecipient,      *)
(* report_strict.go).                                                      *)
THEOREM StrictReachesRequester == Spec => []StrictToRequester
<1>1. ReportInv => StrictToRequester
  BY DEF ReportInv, StrictReaches, StrictToRequester
<1> QED BY <1>1, ReportInvariant, PTL

-----------------------------------------------------------------------------
(* What is remembered, whatever is sent meanwhile.                         *)
LEMMA RemembersKept ==
    ASSUME AccessInv, ThreadInv, Kept, NEW f, NEW x, NEW r, NEW d,
           d \subseteq Ids, r.mail \in Ids \cup {0}, Remembers(f, x, r, d)
    PROVE Remembers(f, x, r, d)'
<1>1. \A j \in Ids : /\ ThreadRoot(j)' = ThreadRoot(j) /\ mails'[j] = mails[j]
                     /\ Conversation(j)' = Conversation(j)
  BY OpsKept DEF Kept
<1>2. MemoryFits(f, r, d)'
  <2>1. MemoryFits(f, r, d)
    BY DEF Remembers
  <2>2. {ThreadRoot(j)' : j \in d \cup ({r.mail} \ {0})} =
          {ThreadRoot(j) : j \in d \cup ({r.mail} \ {0})}
    BY <1>1
  <2> QED BY <1>1, <2>1, <2>2 DEF MemoryFits, SameThread
<1>3. IndexFits(x, f, r, d)'
  <2>1. IndexFits(x, f, r, d)
    BY DEF Remembers
  <2>2. \A c \in DOMAIN x : Filed(c, x, f, r, d) => Filed(c, x, f, r, d)'
    BY <1>1 DEF Filed
  <2>3. \A h \in d \cup ({r.mail} \ {0}) : Conversation(h)' = Conversation(h)
    BY <1>1
  <2> QED BY <1>1, <2>1, <2>2, <2>3 DEF IndexFits
<1>4. RunKnows(r, d)'
  <2>1. RunKnows(r, d)
    BY DEF Remembers
  <2>2. CASE r.mail = 0
    BY <2>2 DEF RunKnows
  <2>3. CASE r.mail \in Ids
    <3>1. {h \in d : Conversation(h)' = Conversation(r.mail)'} =
            {h \in d : Conversation(h) = Conversation(r.mail)}
      BY <1>1, <2>3
    <3> QED BY <1>1, <2>1, <2>3, <3>1 DEF RunKnows
  <2> QED BY <2>2, <2>3
<1> QED BY <1>2, <1>3, <1>4 DEF Remembers

(* A note of an automatic answer.                                          *)
LEMMA NoteRemembered ==
    ASSUME AccessInv, ThreadInv, NEW f, NEW x, NEW r, NEW d, Remembers(f, x, r, d),
           r.mail = 0, NEW i \in Ids, Conversation(i) = 0, NEW g, NEW old,
           g = Put(f, ThreadRoot(i), old \cup {i}),
           ThreadRoot(i) \in DOMAIN f => old = f[ThreadRoot(i)]
    PROVE Remembers(g, x, r, d \cup {i})
<1>1. /\ DOMAIN g = DOMAIN f \cup {ThreadRoot(i)} /\ g[ThreadRoot(i)] = old \cup {i}
      /\ \A q \in DOMAIN f \ {ThreadRoot(i)} : g[q] = f[q]
  BY DEF Put
<1>2. \A q \in DOMAIN f : f[q] \subseteq g[q]
  BY <1>1
<1>3. MemoryFits(g, r, d \cup {i})
  <2>1. MemoryFits(f, r, d)
    BY DEF Remembers
  <2>2. \A j \in d \cup {i} : ThreadRoot(j) \in DOMAIN g /\ j \in g[ThreadRoot(j)]
    BY <1>1, <1>2, <2>1 DEF MemoryFits
  <2>3. DOMAIN g \subseteq {ThreadRoot(j) : j \in d \cup {i}}
    BY <1>1, <2>1 DEF MemoryFits
  <2> QED BY <2>2, <2>3 DEF MemoryFits
<1>4. IndexFits(x, g, r, d \cup {i})
  <2>1. IndexFits(x, f, r, d)
    BY DEF Remembers
  <2>2. \A c \in DOMAIN x : Filed(c, x, g, r, d \cup {i})
    BY <1>1, <1>2, <2>1 DEF IndexFits, Filed
  <2> QED BY <2>1, <2>2 DEF IndexFits
<1>5. RunKnows(r, d \cup {i})
  BY DEF RunKnows
<1> QED BY <1>3, <1>4, <1>5 DEF Remembers

(* The end of a run: its history is saved under the root of its message.   *)
LEMMA EndRemembered ==
    ASSUME AccessInv, ThreadInv, NEW f, NEW x, NEW r, NEW d, Remembers(f, x, r, d),
           r.mail # 0, NEW s, s.mail = 0, NEW g,
           g = Put(f, ThreadRoot(r.mail), r.hist)
    PROVE Remembers(g, x, s, d \cup {r.mail})
<1> DEFINE i == r.mail
           root == ThreadRoot(i)
<1>1. /\ DOMAIN g = DOMAIN f \cup {root} /\ g[root] = r.hist
      /\ \A q \in DOMAIN f \ {root} : g[q] = f[q]
  BY DEF Put
<1>2. MemoryFits(f, r, d) /\ IndexFits(x, f, r, d)
  BY DEF Remembers
<1>3. MemoryFits(g, s, d \cup {i})
  <2>1. \A j \in d \cup {i} : ThreadRoot(j) \in DOMAIN g /\ j \in g[ThreadRoot(j)]
    BY <1>1, <1>2 DEF MemoryFits, SameThread
  <2>2. DOMAIN g \subseteq {ThreadRoot(j) : j \in d \cup {i}}
    BY <1>1, <1>2 DEF MemoryFits
  <2> QED BY <2>1, <2>2 DEF MemoryFits
<1>4. IndexFits(x, g, s, d \cup {i})
  <2>1. ASSUME NEW c \in DOMAIN x PROVE Filed(c, x, g, s, d \cup {i})
    <3>1. CASE Filed(c, x, f, r, d)
      BY <1>1, <3>1 DEF Filed
    <3>2. CASE c = Conversation(i) /\ x[c] = root
      BY <1>1, <1>2, <3>2 DEF Filed, MemoryFits
    <3> QED BY <1>2, <3>1, <3>2 DEF IndexFits
  <2> QED BY <1>2, <2>1 DEF IndexFits
<1>5. RunKnows(s, d \cup {i})
  BY DEF RunKnows
<1> QED BY <1>3, <1>4, <1>5 DEF Remembers

(* A run starts: what was filed is filed still, under the same roots, and  *)
(* the history holds the file of the thread or, without one, the file the  *)
(* conversation led to.                                                    *)
Began(f, x, g, y, h, i) ==
    LET root == ThreadRoot(i)
        c == Conversation(i)
    IN /\ i \in h
       /\ DOMAIN g = DOMAIN f \cup {root} /\ \A q \in DOMAIN f : g[q] = f[q]
       /\ root \in DOMAIN f => f[root] \subseteq h
       /\ root \notin DOMAIN f /\ c # 0 /\ c \in DOMAIN x /\ x[c] \in DOMAIN f =>
             f[x[c]] \subseteq h
       /\ c = 0 => y = x
       /\ c # 0 =>
             /\ DOMAIN y = DOMAIN x \cup {c} /\ \A q \in DOMAIN x \ {c} : y[q] = x[q]
             /\ y[c] = root
                  \/ /\ root \notin DOMAIN f /\ c \in DOMAIN x
                     /\ y[c] = x[c] /\ x[c] \in DOMAIN f

(* StartRun finds, loads or rebuilds the memory and saves it again, which  *)
(* loses nothing (loadAgentMemory, main.go; memory.go).                    *)
LEMMA StartBegins ==
    ASSUME AccessInv, ThreadInv, NEW a \in Agents, NEW i \in Ids, StartRun(a, i),
           DOMAIN memory[a] \subseteq Ids
    PROVE \E h : /\ cur' = [cur EXCEPT ![a] = [mail |-> i, hist |-> h]]
                 /\ Began(memory[a], index[a], memory'[a], index'[a], h, i)
<1> DEFINE f == memory[a]
           x == index[a]
           T == ThreadRoot(i)
           c == Conversation(i)
           root == ResolveThreadRoot(a, i)
           found == root \in DOMAIN f
           mem == IF found THEN [root |-> root, hist |-> f[root]] ELSE Rebuilt(a, i, root)
           stored == IF mem.hist = {} THEN f ELSE Put(f, mem.root, mem.hist)
           h == (IF found THEN mem.hist ELSE {}) \cup {i}
<1>1. /\ RememberThreadIndex(a, c, mem.root)
      /\ memory' = [memory EXCEPT ![a] = Put(stored, T, mem.hist)]
      /\ cur' = [cur EXCEPT ![a] = [mail |-> i, hist |-> h]]
  BY DEF StartRun
<1>2. memory'[a] = Put(stored, T, mem.hist)
  BY <1>1 DEF ThreadInv, Functions
<1>3. /\ c = 0 => index'[a] = x
      /\ c # 0 => index'[a] = Put(x, c, mem.root)
  BY <1>1 DEF ThreadInv, Functions, RememberThreadIndex
<1>4. root = IF T \notin DOMAIN f /\ c # 0 /\ c \in DOMAIN x /\ x[c] \in DOMAIN f
             THEN x[c] ELSE T
  <2>1. 0 \notin DOMAIN f
    BY Numbered
  <2> QED BY <2>1 DEF ResolveThreadRoot, LookupThreadRoot
<1>5. ~found => mem.root = T /\ root = T
  <2> SUFFICES ASSUME ~found PROVE mem.root = T /\ root = T
    OBVIOUS
  <2>1. root = T
    BY <1>4
  <2> DEFINE known == ToSet(mails[i].refs) \cap arrived[a]
  <2>2. CASE known = {}
    BY <2>1, <2>2 DEF Rebuilt
  <2>3. CASE known # {}
    <3>1. known \in SUBSET Nat
      BY ReferencesAreEarlier
    <3>2. Min(known) \in known
      BY <2>3, <3>1, Least
    <3>3. Rebuilt(a, i, root).root = ThreadRoot(Min(known))
      BY <2>3 DEF Rebuilt
    <3> HIDE DEF root, mem, f
    <3>4. PICK r : r = Min(known) /\ r \in ToSet(mails[i].refs) /\ r \in arrived[a]
      BY <3>2
    <3>5. ThreadRoot(r) = T
      BY <3>4, ArrivedIsOwn, ReferencesAreKnown
    <3>6. ~found => mem.root = T
      BY <3>3, <3>4, <3>5 DEF mem
    <3> QED BY <2>1, <3>6
  <2> QED BY <2>2, <2>3
<1>6. found => mem.root = root /\ mem.hist = f[root]
  OBVIOUS
<1> HIDE DEF mem, root
<1>7. /\ DOMAIN Put(stored, T, mem.hist) = DOMAIN f \cup {T}
      /\ \A q \in DOMAIN f : Put(stored, T, mem.hist)[q] = f[q]
  <2>1. CASE found
    <3>1. DOMAIN stored = DOMAIN f /\ \A q \in DOMAIN f : stored[q] = f[q]
      BY <1>6, <2>1 DEF Put
    <3>2. T \in DOMAIN f => mem.hist = f[T]
      BY <1>4, <1>6, <2>1
    <3> HIDE DEF stored
    <3> QED BY <3>1, <3>2 DEF Put
  <2>2. CASE ~found
    <3>1. DOMAIN stored \in {DOMAIN f, DOMAIN f \cup {T}} /\ T \notin DOMAIN f
          /\ \A q \in DOMAIN f : stored[q] = f[q]
      BY <1>5, <2>2 DEF Put
    <3> HIDE DEF stored
    <3> QED BY <3>1 DEF Put
  <2> QED BY <2>1, <2>2
<1> HIDE DEF stored
<1>8. /\ T \in DOMAIN f => f[T] \subseteq h
      /\ T \notin DOMAIN f /\ c # 0 /\ c \in DOMAIN x /\ x[c] \in DOMAIN f => f[x[c]] \subseteq h
  BY <1>4, <1>6
<1>9. i \in h
  OBVIOUS
<1>10. c # 0 => /\ DOMAIN index'[a] = DOMAIN x \cup {c} /\ index'[a][c] = mem.root
                /\ \A q \in DOMAIN x \ {c} : index'[a][q] = x[q]
  BY <1>3 DEF Put
<1>11. mem.root = T
         \/ (T \notin DOMAIN f /\ c \in DOMAIN x /\ mem.root = x[c] /\ x[c] \in DOMAIN f)
  BY <1>4, <1>5, <1>6
<1> HIDE DEF h
<1>12. Began(f, x, memory'[a], index'[a], h, i)
  BY <1>2, <1>3, <1>7, <1>8, <1>9, <1>10, <1>11 DEF Began
<1> QED BY <1>1, <1>12

(* So what an agent remembers fits a run that begins.                      *)
LEMMA StartRemembered ==
    ASSUME AccessInv, ThreadInv, NEW a \in Agents, NEW i \in Ids, New(a, i),
           NEW f, NEW x, NEW r, Remembers(f, x, r, handled[a]), r.mail = 0,
           NEW h, NEW s, s.mail = i, s.hist = h, NEW g, NEW y, Began(f, x, g, y, h, i)
    PROVE Remembers(g, y, s, handled[a])
<1> DEFINE T == ThreadRoot(i)
           c == Conversation(i)
           d == handled[a]
<1>1. /\ i \in arrived[a] \ seen[a] /\ cur[a].mail = 0 /\ i # 0
      /\ d \subseteq seen[a] /\ d \subseteq Ids /\ mails[i].to = a /\ a \in Reachable
  BY ArrivedIsOwn, Numbered DEF New, Busy, ThreadInv, Inbox
<1>2. MemoryFits(f, r, d) /\ IndexFits(x, f, r, d)
  BY DEF Remembers
<1>3. DOMAIN f \subseteq {ThreadRoot(j) : j \in d}
      /\ \A j \in d : ThreadRoot(j) \in DOMAIN f /\ j \in f[ThreadRoot(j)]
  BY <1>2 DEF MemoryFits
<1>4. /\ \A q \in DOMAIN x : /\ x[q] \in DOMAIN f
                             /\ \E j \in d : Conversation(j) = q /\ j \in f[x[q]]
      /\ \A j \in d : Conversation(j) # 0 => Conversation(j) \in DOMAIN x
  BY <1>2 DEF IndexFits, Filed
<1>5. /\ i \in h /\ DOMAIN g = DOMAIN f \cup {T} /\ \A q \in DOMAIN f : g[q] = f[q]
  BY DEF Began
<1>9. T \in DOMAIN f => f[T] \subseteq h
  BY DEF Began
<1>6. MemoryFits(g, s, d)
  <2>1. DOMAIN g \subseteq {ThreadRoot(j) : j \in d \cup ({s.mail} \ {0})}
    BY <1>1, <1>3, <1>5
  <2>2. \A j \in d : ThreadRoot(j) \in DOMAIN g /\ j \in g[ThreadRoot(j)]
    BY <1>3, <1>5
  <2>3. \A j \in d : SameThread(j, i) => j \in h
    BY <1>3, <1>9 DEF SameThread
  <2> QED BY <1>5, <2>1, <2>2, <2>3 DEF MemoryFits
<1>7. IndexFits(y, g, s, d)
  <2>1. ASSUME NEW q \in DOMAIN x, y[q] = x[q], q # c \/ T \notin DOMAIN f,
               q = c => f[x[q]] \subseteq h
        PROVE Filed(q, y, g, s, d)
    <3>1. PICK j \in d : Conversation(j) = q /\ j \in f[x[q]]
      BY <1>4
    <3>2. y[q] \in DOMAIN g /\ j \in g[y[q]]
      BY <1>4, <1>5, <2>1, <3>1
    <3>3. y[q] = T => j \in h
      BY <1>4, <1>9, <2>1, <3>1
    <3> QED BY <3>1, <3>2, <3>3 DEF Filed
  <2>2. CASE c = 0
    <3>1. y = x
      BY <2>2 DEF Began
    <3>2. \A q \in DOMAIN y : Filed(q, y, g, s, d)
      <4>1. ASSUME NEW q \in DOMAIN x PROVE Filed(q, x, g, s, d)
        <5>1. PICK j \in d : Conversation(j) = q /\ j \in f[x[q]]
          BY <1>4
        <5>2. x[q] \in DOMAIN g /\ j \in g[x[q]] /\ (x[q] = T => j \in h)
          BY <1>4, <1>5, <1>9, <5>1
        <5> QED BY <5>1, <5>2 DEF Filed
      <4> QED BY <3>1, <4>1
    <3>3. \A j \in d \cup ({s.mail} \ {0}) : Conversation(j) # 0 => Conversation(j) \in DOMAIN y
      BY <1>4, <2>2, <3>1
    <3> QED BY <3>2, <3>3 DEF IndexFits
  <2>3. CASE c # 0
    <3>1. /\ DOMAIN y = DOMAIN x \cup {c} /\ \A q \in DOMAIN x \ {c} : y[q] = x[q]
          /\ y[c] = T \/ (T \notin DOMAIN f /\ c \in DOMAIN x /\ y[c] = x[c] /\ x[c] \in DOMAIN f)
      BY <2>3 DEF Began
    <3>2. c \in DOMAIN x /\ T \notin DOMAIN f /\ x[c] \in DOMAIN f => f[x[c]] \subseteq h
      BY <2>3 DEF Began
    <3>3. \A q \in DOMAIN y : \/ Filed(q, y, g, s, d)
                              \/ s.mail # 0 /\ q = Conversation(s.mail) /\ y[q] = ThreadRoot(s.mail)
      <4>1. ASSUME NEW q \in DOMAIN x, q # c PROVE Filed(q, y, g, s, d)
        BY <2>1, <3>1, <4>1
      <4>2. y[c] = T \/ Filed(c, y, g, s, d)
        BY <2>1, <3>1, <3>2
      <4> QED BY <1>1, <3>1, <4>1, <4>2
    <3>4. \A j \in d \cup ({s.mail} \ {0}) : Conversation(j) # 0 => Conversation(j) \in DOMAIN y
      BY <1>4, <3>1
    <3> QED BY <3>3, <3>4 DEF IndexFits
  <2> QED BY <2>2, <2>3
<1>8. RunKnows(s, d)
  <2> SUFFICES ASSUME c # 0, mails[i].refs = << >>, NEW j \in d, Conversation(j) = c
               PROVE \E k \in d : Conversation(k) = c /\ k \in h
    BY DEF RunKnows
  <2>1. c \in DOMAIN x /\ x[c] \in DOMAIN f
    BY <1>4
  <2>2. T = i
    BY DEF ThreadRoot
  <2>3. T \notin DOMAIN f
    <3> SUFFICES ASSUME NEW k \in d, ThreadRoot(k) = i PROVE FALSE
      BY <1>3, <2>2
    <3>1. k \in Ids /\ k # i
      BY <1>1
    <3>2. i \in ToSet(mails[k].refs)
      BY <3>1, ReferencesAreEarlier
    <3>3. i \in Known(a)
      BY <1>1, <3>1, <3>2, ReferencesAreKnown
    <3> QED BY <1>1, <3>3 DEF Known
  <2>4. f[x[c]] \subseteq h
    BY <2>1, <2>3 DEF Began
  <2> QED BY <1>4, <2>1, <2>4
<1> QED BY <1>6, <1>7, <1>8 DEF Remembers

(* Mail that was sent stays as it is, in every step.                       *)
LEMMA MailKept ==
    ASSUME AccessInv, ThreadInv, [Next]_vars
    PROVE Kept
<1>1. CASE mails' = mails
  BY <1>1 DEF Kept, Ids
<1>2. CASE \E x : mails' = Append(mails, x)
  BY <1>2, OneMore
<1> QED BY <1>1, <1>2, OthersPost, ReportToolPosts,
           ReportStrictToolPosts

(* What an agent remembers after a step, told of the files, the index, the *)
(* run and the messages dealt with after it.                               *)
LEMMA RemembersNow ==
    ASSUME AccessInv, ThreadInv, Kept, NEW a, NEW f, NEW x, NEW r, NEW d,
           f = memory'[a], x = index'[a], r = cur'[a], d = handled'[a],
           d \subseteq Ids, r.mail \in Ids \cup {0}, Remembers(f, x, r, d)
    PROVE Remembers(memory[a], index[a], cur[a], handled[a])'
<1>1. Remembers(f, x, r, d)'
  BY RemembersKept
<1> QED BY <1>1 DEF Remembers, MemoryFits, IndexFits, Filed, RunKnows, SameThread,
                    ThreadRoot, Conversation

(* Every step keeps memory, index and run together.                        *)
LEMMA MemoryStep ==
    ASSUME AccessInv, ThreadInv, MemoryInv, [Next]_vars
    PROVE MemoryInv'
<1>1. Kept
  BY MailKept
<1>2. \A b \in Agents : /\ Remembers(memory[b], index[b], cur[b], handled[b])
                        /\ handled[b] \subseteq Ids /\ cur[b].mail \in Ids \cup {0}
  BY DEF MemoryInv, ThreadInv, Inbox
<1>3. Functions
  BY DEF ThreadInv
<1>4. ASSUME NEW b \in Agents, memory'[b] = memory[b], index'[b] = index[b],
             cur'[b] = cur[b], handled'[b] = handled[b]
      PROVE Remembers(memory[b], index[b], cur[b], handled[b])'
  BY <1>1, <1>2, <1>4, RemembersNow
<1>5. ASSUME memory' = memory, index' = index, cur' = cur, handled' = handled
      PROVE MemoryInv'
  BY <1>4, <1>5 DEF MemoryInv
<1>6. ASSUME NEW a \in Agents, NEW i \in Ids, StartRun(a, i) PROVE MemoryInv'
  <2>1. DOMAIN memory[a] \subseteq Ids /\ cur[a].mail = 0 /\ New(a, i)
    <3>1. cur[a].mail = 0 /\ New(a, i)
      BY <1>6 DEF StartRun, New, Busy
    <3>2. DOMAIN memory[a] \subseteq {ThreadRoot(j) : j \in handled[a]}
      BY <1>2, <3>1 DEF Remembers, MemoryFits
    <3> QED BY <1>2, <3>1, <3>2, ReferencesAreEarlier
  <2>2. PICK h : /\ cur' = [cur EXCEPT ![a] = [mail |-> i, hist |-> h]]
                 /\ Began(memory[a], index[a], memory'[a], index'[a], h, i)
    BY <1>6, <2>1, StartBegins
  <2>3. /\ cur'[a] = [mail |-> i, hist |-> h] /\ \A b \in Agents \ {a} : cur'[b] = cur[b]
    BY <1>3, <2>2 DEF Functions
  <2>4. /\ handled' = handled
        /\ \A b \in Agents \ {a} : memory'[b] = memory[b] /\ index'[b] = index[b]
    BY <1>3, <1>6 DEF Functions, StartRun, RememberThreadIndex
  <2>5. Remembers(memory'[a], index'[a], cur'[a], handled[a])
    <3>1. PICK f, x, r, s, g, y : /\ f = memory[a] /\ x = index[a] /\ r = cur[a]
                                  /\ s = cur'[a] /\ g = memory'[a] /\ y = index'[a]
      OBVIOUS
    <3>2. Remembers(f, x, r, handled[a]) /\ r.mail = 0 /\ s.mail = i /\ s.hist = h
          /\ Began(f, x, g, y, h, i)
      BY <1>2, <2>1, <2>2, <2>3, <3>1
    <3>3. Remembers(g, y, s, handled[a])
      BY <2>1, <3>2, StartRemembered
    <3> QED BY <3>1, <3>3
  <2>6. Remembers(memory[a], index[a], cur[a], handled[a])'
    BY <1>1, <1>2, <2>3, <2>4, <2>5, RemembersNow
  <2>7. ASSUME NEW b \in Agents \ {a}
        PROVE Remembers(memory[b], index[b], cur[b], handled[b])'
    BY <1>4, <2>3, <2>4
  <2> QED BY <2>6, <2>7 DEF MemoryInv
<1>7. ASSUME NEW a \in Agents, NEW i \in Ids, HandleAutoReply(a, i) PROVE MemoryInv'
  <2>1. /\ cur' = cur /\ index' = index /\ handled' = [handled EXCEPT ![a] = @ \cup {i}]
        /\ cur[a].mail = 0 /\ IsAutoReply(mails[i])
    BY <1>7 DEF HandleAutoReply, New, Busy
  <2>2. Conversation(i) = 0 /\ ResolveThreadRoot(a, i) = ThreadRoot(i)
    BY <2>1 DEF ThreadInv, Headers, Conversation, ResolveThreadRoot
  <2>3. memory' = [memory EXCEPT ![a] = Put(@, ThreadRoot(i),
                     (IF ThreadRoot(i) \in DOMAIN memory[a]
                      THEN memory[a][ThreadRoot(i)] ELSE {}) \cup {i})]
    BY <1>7, <2>2 DEF HandleAutoReply
  <2>4. PICK old : /\ memory'[a] = Put(memory[a], ThreadRoot(i), old \cup {i})
                   /\ ThreadRoot(i) \in DOMAIN memory[a] => old = memory[a][ThreadRoot(i)]
    BY <1>3, <2>3 DEF Functions
  <2>5. /\ handled'[a] = handled[a] \cup {i}
        /\ \A b \in Agents \ {a} : memory'[b] = memory[b] /\ handled'[b] = handled[b]
    BY <1>3, <2>1, <2>3 DEF Functions
  <2>6. Remembers(memory'[a], index[a], cur[a], handled[a] \cup {i})
    BY <1>2, <2>1, <2>2, <2>4, NoteRemembered
  <2>7. Remembers(memory[a], index[a], cur[a], handled[a])'
    <3>1. /\ Remembers(memory'[a], index'[a], cur'[a], handled'[a])
          /\ handled'[a] \subseteq Ids /\ cur'[a].mail \in Ids \cup {0}
      BY <1>2, <2>1, <2>5, <2>6
    <3> QED BY <1>1, <3>1, RemembersNow
  <2>8. ASSUME NEW b \in Agents \ {a}
        PROVE Remembers(memory[b], index[b], cur[b], handled[b])'
    BY <1>4, <2>1, <2>5
  <2> QED BY <2>7, <2>8 DEF MemoryInv
<1>8. ASSUME NEW a \in Agents, NEW i \in Ids, Finish(a, i) \/ GiveUp(a, i) PROVE MemoryInv'
  <2>1. /\ cur' = [cur EXCEPT ![a] = NoRun] /\ index' = index
        /\ handled' = [handled EXCEPT ![a] = @ \cup {i}]
        /\ cur[a].mail = i /\ i # 0
        /\ memory' = [memory EXCEPT ![a] = Put(@, ThreadRoot(i), cur[a].hist)]
    BY <1>8 DEF Finish, GiveUp, EndRun, Busy
  <2>2. /\ cur'[a] = NoRun /\ handled'[a] = handled[a] \cup {i}
        /\ memory'[a] = Put(memory[a], ThreadRoot(i), cur[a].hist)
        /\ \A b \in Agents \ {a} : /\ memory'[b] = memory[b] /\ cur'[b] = cur[b]
                                   /\ handled'[b] = handled[b]
    BY <1>3, <2>1 DEF Functions
  <2>3. cur'[a].mail = 0
    BY <2>2 DEF NoRun
  <2>4. Remembers(memory'[a], index[a], cur'[a], handled[a] \cup {i})
    BY <1>2, <2>1, <2>2, <2>3, EndRemembered
  <2>5. Remembers(memory[a], index[a], cur[a], handled[a])'
    <3>1. /\ Remembers(memory'[a], index'[a], cur'[a], handled'[a])
          /\ handled'[a] \subseteq Ids /\ cur'[a].mail \in Ids \cup {0}
      BY <1>2, <2>1, <2>2, <2>3, <2>4
    <3> QED BY <1>1, <3>1, RemembersNow
  <2>6. ASSUME NEW b \in Agents \ {a}
        PROVE Remembers(memory[b], index[b], cur[b], handled[b])'
    BY <1>4, <2>1, <2>2
  <2> QED BY <2>5, <2>6 DEF MemoryInv
<1>9. ASSUME NEW a \in Agents, NEW i \in Ids, Refuse(a, i) \/ Deliver(a, i) PROVE MemoryInv'
  BY <1>5, <1>9 DEF Refuse, Deliver
<1>10. CASE \E a \in Agents : Poll(a) \/ EndsRun(a) \/ Delivers(a)
  BY <1>6, <1>7, <1>8, <1>9, <1>10 DEF Poll, EndsRun, Delivers
<1>11. CASE \E a \in Agents : MessageTool(a) \/ ReportTool(a) \/ ReportStrictTool(a)
  BY <1>5, <1>11 DEF MessageTool, ReportTool, ReportStrictTool, Send, Others
<1>12. CASE \/ \E u \in People, a \in Desks : PersonWrites(u, a)
            \/ \E u \in People, i \in Ids : PersonReplies(u, i)
            \/ \E i \in Ids : OutOfOffice(i) \/ DeliveryFails(i)
            \/ UNCHANGED vars
  BY <1>5, <1>12 DEF PersonWrites, PersonReplies, OutOfOffice, DeliveryFails, Others, vars
<1> QED BY <1>10, <1>11, <1>12 DEF Next

(* Memory: files, index and run fit together whatever arrives.             *)
THEOREM MemoryInvariant == Spec => []MemoryInv
<1>1. Init => MemoryInv
  <2> SUFFICES ASSUME Init, NEW a \in Agents
               PROVE Remembers(memory[a], index[a], cur[a], handled[a])
    BY DEF MemoryInv
  <2>1. /\ memory[a] = << >> /\ index[a] = << >> /\ cur[a].mail = 0 /\ handled[a] = {}
    BY DEF Init, NoRun
  <2>2. DOMAIN << >> = {}
    OBVIOUS
  <2> QED BY <2>1, <2>2 DEF Remembers, MemoryFits, IndexFits, RunKnows
<1> QED BY <1>1, MemoryStep, AccessInvariant, ThreadInvariant, PTL DEF Spec

(* A run knows every message its own refers to that was dealt with before: *)
(* however the references were passed on, they lead to the one file the    *)
(* history was saved in (ResolveThreadRoot, SaveMemoryHistory, memory.go). *)
THEOREM HistoryRemembered == Spec => []ThreadRemembered
<1>1. AccessInv /\ ThreadInv /\ MemoryInv => ThreadRemembered
  <2> SUFFICES ASSUME AccessInv, ThreadInv, MemoryInv, NEW a \in Agents, Busy(a),
                      NEW r \in ToSet(mails[cur[a].mail].refs) \cap handled[a]
               PROVE r \in cur[a].hist
    BY DEF ThreadRemembered
  <2> DEFINE i == cur[a].mail
  <2>1. i \in Ids /\ i # 0 /\ r \in arrived[a]
    BY DEF ThreadInv, Inbox, Busy
  <2>2. mails[r].to = a /\ a \in Reachable /\ r \in ToSet(mails[i].refs)
    BY <2>1, ArrivedIsOwn
  <2>3. SameThread(r, i)
    BY <2>1, <2>2, ReferencesAreKnown DEF SameThread
  <2> QED BY <2>1, <2>3 DEF MemoryInv, Remembers, MemoryFits
<1> QED BY <1>1, AccessInvariant, ThreadInvariant, MemoryInvariant, PTL

(* Replies of Outlook that lost their References find the conversation     *)
(* again, while the conversation index may name any of its threads         *)
(* (RememberThreadIndex, LookupThreadRoot, thread_index.go).               *)
THEOREM ConversationIsFound == Spec => []ConversationFound
<1>1. MemoryInv => ConversationFound
  BY DEF MemoryInv, Remembers, RunKnows, ConversationFound, SameConversation,
         Conversation, Busy
<1> QED BY <1>1, MemoryInvariant, PTL

(* The types, and that References name earlier messages in order           *)
(* (SendEmail, emailing.go).                                               *)
THEOREM NetworkTypes == Spec => []TypeOK
<1>1. AccessInv /\ ThreadInv /\ MemoryInv => TypeOK
  <2> SUFFICES ASSUME AccessInv, ThreadInv, MemoryInv PROVE TypeOK
    OBVIOUS
  <2>1. ASSUME NEW i \in Ids
        PROVE LET m == mails[i] IN
          /\ m.kind \in KindsWritten \cup KindsAutomatic
          /\ m.from \in Addresses /\ m.to \in Addresses
          /\ ToSet(m.refs) \subseteq 1..(i - 1)
          /\ \A j, k \in DOMAIN m.refs : j < k => m.refs[j] < m.refs[k]
          /\ m.irt # 0 => m.irt \in ToSet(m.refs)
          /\ m.senders \subseteq Addresses
    <3>1. ToSet(mails[i].refs) \subseteq 1..(i - 1)
      BY ReferencesAreEarlier
    <3>2. mails[i].irt # 0 => mails[i].irt \in ToSet(mails[i].refs)
      <4>1. \A p \in Ids : p \in ToSet(Chained(p))
        BY ChainGoesOn
      <4> QED BY <4>1 DEF ThreadInv, Threaded
    <3> QED BY <3>1, <3>2 DEF ThreadInv, Headers, References
  <2>2. ASSUME NEW a \in Agents
        PROVE /\ handled[a] \subseteq seen[a] /\ seen[a] \subseteq arrived[a]
              /\ arrived[a] \subseteq {i \in Ids : mails[i].to = a}
              /\ DOMAIN memory[a] \subseteq Ids
              /\ cur[a].mail \in arrived[a] \cup {0}
    <3>1. Inbox(a)
      BY DEF ThreadInv
    <3>2. DOMAIN memory[a] \subseteq Ids
      <4>1. DOMAIN memory[a] \subseteq {ThreadRoot(j) : j \in handled[a] \cup ({cur[a].mail} \ {0})}
        BY DEF MemoryInv, Remembers, MemoryFits
      <4>2. handled[a] \cup ({cur[a].mail} \ {0}) \subseteq Ids
        BY <3>1 DEF Inbox
      <4> QED BY <4>1, <4>2, ReferencesAreEarlier
    <3> QED BY <3>1, <3>2 DEF Inbox
  <2> QED BY <2>1, <2>2 DEF TypeOK
<1> QED BY <1>1, AccessInvariant, ThreadInvariant, MemoryInvariant, PTL

-----------------------------------------------------------------------------
(* Automatic answers.  One that is answered by an Away mailbox, and where  *)
(* the answer to that would go.                                            *)
LEMMA NewestAnswered ==
    ASSUME AccessInv, ThreadInv, SeriesInv, NEW a \in Agents, NEW i \in Ids,
           mails[i].kind = "ooo", mails[i].hops # 1, mails[i].to = a
    PROVE Upstream(a, i) # 0 /\ mails[Upstream(a, i)].from = mails[i].from
<1>1. PICK q \in Ids : /\ mails[i].irt = q /\ mails[q].from = a /\ mails[q].to = mails[i].from
                       /\ IsAutoReply(mails[q]) /\ mails[i].refs = Chained(q)
  BY DEF SeriesInv, Series
<1>2. mails[q].kind \in {"refusal", "giveup", "notice"} /\ a \in Reachable
      /\ mails[i].from \notin Agents
  BY <1>1, ConstantsAssumption
     DEF ThreadInv, Headers, IsAutoReply, KindsAutomatic, SeriesInv, Series
<1>3. PICK t \in Ids : /\ mails[q].irt = t /\ mails[t].from = mails[i].from /\ mails[t].to = a
  BY <1>1, <1>2 DEF SeriesInv, Series
<1>4. mails[q].refs = Chained(t)
  BY <1>3, Numbered DEF ThreadInv, Threaded
<1>5. /\ ToSet(mails[i].refs) = ToSet(mails[q].refs) \cup {q}
      /\ ToSet(mails[q].refs) = ToSet(mails[t].refs) \cup {t}
  BY <1>1, <1>3, <1>4, ChainGoesOn
<1>6. t \in arrived[a]
  BY <1>2, <1>3, <1>5, ReferencesAreKnown
<1>7. q \notin arrived[a]
  BY <1>1, <1>2, ArrivedIsOwn
<1>8. ToSet(mails[t].refs) \subseteq 1..(t - 1) /\ t \in Nat \ {0}
  BY ReferencesAreEarlier
<1>9. LastIn(mails[i].refs, arrived[a]) = t
  <2> DEFINE r == LastIn(mails[i].refs, arrived[a])
  <2>1. r \in ToSet(mails[i].refs) \cap arrived[a] /\ t <= r
    BY <1>5, <1>6, LastInIsNewest
  <2> HIDE DEF r
  <2>2. r \in ToSet(mails[t].refs) \cup {t}
    BY <1>5, <1>7, <2>1
  <2>3. r = t
    BY <1>8, <2>1, <2>2
  <2> QED BY <2>3 DEF r
<1>10. Upstream(a, i) = t
  BY <1>8, <1>9 DEF Upstream
<1> QED BY <1>3, <1>8, <1>10

(* What a notice was about was sent to someone else, so what it leads to   *)
(* is older.                                                               *)
LEMMA UpstreamIsOlder ==
    ASSUME AccessInv, ThreadInv, SeriesInv, NEW a \in Agents, NEW i \in Ids,
           mails[i].kind = "notice", mails[i].to = a, Upstream(a, i) # 0
    PROVE Upstream(a, i) < mails[i].irt
<1>1. PICK p \in Ids : mails[i].irt = p /\ mails[p].from = a
  BY DEF SeriesInv, Series
<1>2. p \in Nat \ {0} /\ mails[i].refs = Chained(p) /\ mails[p].to # a
  BY <1>1, Numbered DEF ThreadInv, Threaded, Headers
<1>3. /\ ToSet(mails[i].refs) = ToSet(mails[p].refs) \cup {p}
      /\ ToSet(mails[p].refs) \subseteq 1..(p - 1)
  BY <1>2, ChainGoesOn, ReferencesAreEarlier
<1>4. PICK up : up = Upstream(a, i)
  OBVIOUS
<1>5. /\ up \in arrived[a] /\ up \in Nat
      /\ \/ up = LastIn(mails[i].refs, arrived[a])
         \/ \E s \in ToSet(mails[i].refs) \cap Sent(a) : up \in ToSet(mails[s].refs)
  BY <1>4, UpstreamIsKnown
<1>6. CASE up = LastIn(mails[i].refs, arrived[a])
  <2>1. up \in ToSet(mails[i].refs)
    BY <1>4, <1>6, LastInIsNewest
  <2>2. up # p
    BY <1>2, <1>5, ArrivedIsOwn
  <2>3. up \in 1..(p - 1)
    BY <1>3, <2>1, <2>2
  <2> QED BY <1>1, <1>2, <1>4, <2>3
<1>7. ASSUME NEW s \in ToSet(mails[i].refs), up \in ToSet(mails[s].refs)
      PROVE up < p
  <2>1. s \in Nat \ {0} /\ s <= p /\ s \in Ids
    BY <1>2, <1>3, ReferencesAreEarlier
  <2>2. up \in 1..(s - 1)
    BY <1>7, <2>1, ReferencesAreEarlier
  <2> QED BY <1>2, <2>1, <2>2
<1> QED BY <1>1, <1>4, <1>5, <1>6, <1>7

(* An automatic answer goes to the author of a message, who can be reached *)
(* unless a person cannot.                                                 *)
LEMMA AnswersAreDelivered ==
    ASSUME Unreachable \subseteq Agents, ThreadInv, SeriesInv, NEW i \in Ids,
           mails[i].from \in Agents, IsAutoReply(mails[i])
    PROVE mails[i].to \notin Unreachable
<1>1. mails[i].kind \in {"refusal", "giveup", "notice", "ooo"}
  BY ConstantsAssumption DEF ThreadInv, Headers, IsAutoReply, KindsAutomatic
<1>2. mails[i].irt \in Ids /\ mails[mails[i].irt].from = mails[i].to
  BY <1>1 DEF SeriesInv, Series
<1>3. mails[i].to \in Agents => mails[i].to \in Reachable
  BY <1>2 DEF ThreadInv, Headers
<1> QED BY <1>3 DEF Reachable

(* One more message of a series.                                           *)
LEMMA SeriesGrows ==
    ASSUME AccessInv, SeriesInv, NEW x, mails' = Append(mails, x),
           x.before \in 0..Len(mails), x.hops \in Nat,
           x.hops = 0 <=> ~IsAutoReply(x),
           x.hops = 1 => x.before = Len(mails),
           x.kind \in {"refusal", "giveup", "dsn"} => x.hops = 1,
           x.kind \in {"refusal", "giveup", "notice", "ooo"} =>
              x.irt \in Ids /\ mails[x.irt].from = x.to /\ mails[x.irt].to = x.from,
           x.kind = "notice" => x.hops + x.irt <= x.before + 2,
           x.kind = "ooo" =>
              /\ x.refs = Chained(x.irt) /\ x.from \in People
              /\ x.hops = 1 \/ (IsAutoReply(mails[x.irt]) /\ x.hops <= x.before + 2)
    PROVE SeriesInv'
<1>1. PICK n : n = Len(mails) + 1
  OBVIOUS
<1>2. /\ Kept /\ Ids' = Ids \cup {n} /\ mails'[n] = x /\ Len(mails) \in Nat
      /\ \A j \in Ids : mails'[j] = mails[j]
  BY <1>1, OneMore, Numbered DEF Kept
<1>3. \A j \in Ids : Chained(j)' = Chained(j)
  BY <1>2, OpsKept
<1>4. ASSUME NEW j \in Ids PROVE Series(j)'
  <2>1. Series(j)
    BY DEF SeriesInv
  <2> QED BY <1>2, <1>3, <2>1 DEF Series, IsAutoReply
<1>5. Series(n)'
  <2>1. n - 1 = Len(mails)
    BY <1>1, <1>2
  <2> QED BY <1>2, <1>3, <2>1 DEF Series, IsAutoReply
<1> QED BY <1>2, <1>4, <1>5 DEF SeriesInv

(* Every step keeps the series of automatic answers short.                 *)
LEMMA SeriesStep ==
    ASSUME Unreachable \subseteq Agents, AccessInv, ThreadInv, ThreadInv', SeriesInv,
           [Next]_vars
    PROVE SeriesInv'
<1>0. Len(mails) \in Nat /\ Ids = 1..Len(mails)
  BY Numbered
<1>1. CASE mails' = mails
  BY <1>1 DEF SeriesInv, Series, Ids, Chained, IsAutoReply
(* What people and models write starts no series.                          *)
<1>2. ASSUME NEW x, mails' = Append(mails, x), ~IsAutoReply(x), NEW src, Counted(x, src)
      PROVE SeriesInv'
  <2>1. x.hops = 0 /\ x.before = Len(mails)
    BY <1>2 DEF Counted
  <2>2. x.kind \notin KindsAutomatic
    BY <1>2 DEF IsAutoReply
  <2> QED BY <1>0, <1>2, <2>1, <2>2, SeriesGrows DEF KindsAutomatic
<1>3. ASSUME NEW i \in Ids, NEW x, mails' = Append(mails, x),
             x.kind \in {"refusal", "giveup", "dsn"},
             Counted(x, i), ~IsAutoReply(mails[i]),
             x.kind # "dsn" => x.irt = i /\ x.to = mails[i].from /\ x.from = mails[i].to
      PROVE SeriesInv'
  <2>1. IsAutoReply(x) /\ i # 0
    BY <1>0, <1>3 DEF IsAutoReply, KindsAutomatic
  <2>2. mails[i].hops = 0
    BY <1>3 DEF SeriesInv, Series
  <2>3. x.hops = 1 /\ x.before = Len(mails)
    BY <1>3, <2>1, <2>2 DEF Counted
  <2> QED BY <1>0, <1>3, <2>1, <2>3, SeriesGrows
<1>4. ASSUME NEW i \in Ids, NEW x, mails' = Append(mails, x), IsAutoReply(mails[i]),
             IsAutoReply(x), Counted(x, i)
      PROVE /\ x.hops = mails[i].hops + 1 /\ x.before = mails[i].before
            /\ x.before \in 0..(i - 1) /\ mails[i].hops \in Nat \ {0}
            /\ i \in Nat \ {0} /\ i <= Len(mails)
  BY <1>0, <1>4 DEF Counted, SeriesInv, Series
<1>5. ASSUME NEW i \in Ids, OutOfOffice(i) PROVE SeriesInv'
  <2>1. PICK x : /\ mails' = Append(mails, x)
                 /\ x.kind = "ooo" /\ x.from = mails[i].to /\ x.to = mails[i].from
                 /\ x.refs = Chained(i) /\ x.irt = i /\ Counted(x, i)
                 /\ x.from \in People /\ x.to \in Agents
    BY <1>5, OutOfOfficeFresh
  <2>2. IsAutoReply(x) /\ i # 0
    BY <1>0, <2>1 DEF IsAutoReply, KindsAutomatic
  <2>3. CASE ~IsAutoReply(mails[i])
    <3>1. mails[i].hops = 0
      BY <2>3 DEF SeriesInv, Series
    <3>2. x.hops = 1 /\ x.before = Len(mails)
      BY <2>1, <2>2, <2>3, <3>1 DEF Counted
    <3> QED BY <1>0, <2>1, <2>2, <3>2, SeriesGrows
  <2>4. CASE IsAutoReply(mails[i])
    <3>1. /\ x.hops = mails[i].hops + 1 /\ x.before = mails[i].before
          /\ x.before \in 0..(i - 1) /\ mails[i].hops \in Nat \ {0}
          /\ i \in Nat \ {0} /\ i <= Len(mails)
      BY <1>4, <2>1, <2>2, <2>4
    <3>2. mails[i].kind \in {"refusal", "giveup", "notice"}
      BY <2>1, <2>4, ConstantsAssumption
         DEF ThreadInv, Headers, IsAutoReply, KindsAutomatic, SeriesInv, Series
    <3>3. \/ mails[i].hops = 1
          \/ mails[i].irt \in Ids /\ mails[i].hops + mails[i].irt <= mails[i].before + 2
      BY <3>2 DEF SeriesInv, Series
    <3>4. x.hops <= x.before + 2 /\ x.hops \in Nat /\ x.hops # 0 /\ x.hops # 1
          /\ x.before \in 0..Len(mails)
      BY <1>0, <3>1, <3>3
    <3> QED BY <2>1, <2>2, <2>4, <3>4, SeriesGrows
  <2> QED BY <2>3, <2>4
<1>6. ASSUME NEW i \in Ids, DeliveryFails(i) PROVE SeriesInv'
  <2>1. PICK x : mails' = Append(mails, x) /\ x.kind = "dsn" /\ Counted(x, i)
    BY <1>6, DeliveryFailsFresh
  <2>2. ~IsAutoReply(mails[i])
    BY <1>6, AnswersAreDelivered DEF DeliveryFails
  <2> QED BY <1>3, <2>1, <2>2
<1>7. ASSUME NEW a \in Agents, NEW i \in Ids, HandleAutoReply(a, i), mails' # mails
      PROVE SeriesInv'
  <2>1. PICK up : up = Upstream(a, i)
    OBVIOUS
  <2>2. /\ up # 0 /\ mails[i].from # mails[up].from /\ IsAutoReply(mails[i]) /\ i \in arrived[a]
        /\ mails' = SendEmail(Automatic("notice", a, mails[up].from, Chained(up), up), i)
    BY <1>7, <2>1 DEF HandleAutoReply, NotifyUpstream, New
  <2>3. KnownKept
    <3>1. /\ arrived' = arrived /\ cur' = cur /\ MarkSeen(a, i)
      BY <1>7 DEF HandleAutoReply
    <3> QED BY <3>1 DEF KnownKept, Known, MarkSeen, ThreadInv, Functions
  <2>4. PICK x : /\ mails' = Append(mails, x) /\ Headers(x) /\ Fresh(x)
                 /\ x.kind = "notice" /\ x.from = a /\ x.to = mails[up].from
                 /\ x.irt = up /\ Counted(x, i)
    BY <2>1, <2>2, <2>3, NoticeFresh
  <2>5. IsAutoReply(x)
    BY <2>4 DEF IsAutoReply, KindsAutomatic
  <2>6. /\ x.hops = mails[i].hops + 1 /\ x.before = mails[i].before
        /\ x.before \in 0..(i - 1) /\ mails[i].hops \in Nat \ {0}
        /\ i \in Nat \ {0} /\ i <= Len(mails)
    BY <1>4, <2>2, <2>4, <2>5
  <2>7. up \in Ids /\ mails[up].to = a /\ up < i /\ up \in Nat \ {0} /\ mails[i].to = a
    BY <2>1, <2>2, UpstreamIsKnown, ArrivedIsOwn
  <2>8. x.hops + up <= x.before + 2
    <3>1. CASE mails[i].hops = 1
      <4>1. x.before = i - 1
        BY <2>6, <3>1 DEF SeriesInv, Series
      <4> QED BY <2>6, <2>7, <3>1, <4>1
    <3>2. CASE mails[i].hops # 1 /\ mails[i].kind = "notice"
      <4>1. up < mails[i].irt /\ mails[i].irt \in Ids
            /\ mails[i].hops + mails[i].irt <= mails[i].before + 2
        BY <2>1, <2>2, <2>7, <3>2, UpstreamIsOlder DEF SeriesInv, Series
      <4> QED BY <1>0, <2>6, <2>7, <4>1
    <3>3. CASE mails[i].hops # 1 /\ mails[i].kind = "ooo"
      BY <2>1, <2>2, <2>7, <3>3, NewestAnswered
    <3>4. mails[i].hops = 1 \/ mails[i].kind \in {"notice", "ooo"}
      BY <2>2 DEF IsAutoReply, KindsAutomatic, SeriesInv, Series
    <3> QED BY <3>1, <3>2, <3>3, <3>4
  <2>9. x.hops \in Nat /\ x.hops # 0 /\ x.hops # 1 /\ x.before \in 0..Len(mails)
    BY <1>0, <2>6
  <2> QED BY <2>4, <2>5, <2>7, <2>8, <2>9, SeriesGrows
<1>8. ASSUME NEW a \in Agents, NEW i \in arrived[a], NEW k \in {"refusal", "giveup"},
             SendBounce(a, i, k), ~IsAutoReply(mails[i]), i \in seen'[a]
      PROVE SeriesInv'
  <2>1. PICK x : /\ mails' = Append(mails, x) /\ Headers(x) /\ Fresh(x)
                 /\ x.kind = k /\ x.from = a /\ x.to = mails[i].from
                 /\ x.irt = i /\ Counted(x, i)
    BY <1>8, BounceFresh
  <2>2. i \in Ids /\ mails[i].to = a
    BY ArrivedIsOwn
  <2> QED BY <1>3, <1>8, <2>1, <2>2
<1>9. ASSUME NEW a \in Agents, Poll(a) \/ EndsRun(a) \/ Delivers(a) PROVE SeriesInv'
  <2>1. ASSUME NEW i \in Ids, Refuse(a, i) PROVE SeriesInv'
    <3>1. i \in arrived[a] /\ MarkSeen(a, i) /\ SendBounce(a, i, "refusal")
          /\ ~IsAutoReply(mails[i])
      BY <2>1 DEF Refuse, New
    <3>2. i \in seen'[a]
      BY <3>1 DEF MarkSeen, ThreadInv, Functions
    <3> QED BY <1>8, <3>1, <3>2
  <2>2. ASSUME NEW i \in Ids, GiveUp(a, i) PROVE SeriesInv'
    <3>1. i = cur[a].mail /\ Busy(a) /\ MarkSeen(a, i) /\ SendBounce(a, i, "giveup")
      BY <2>2 DEF GiveUp, EndRun
    <3>2. i \in arrived[a] /\ ~IsAutoReply(mails[i])
      BY <3>1 DEF ThreadInv, Inbox, Busy, AccessInv, RunAdmitted
    <3>3. i \in seen'[a]
      BY <3>1 DEF MarkSeen, ThreadInv, Functions
    <3> QED BY <1>8, <3>1, <3>2, <3>3
  <2>3. ASSUME NEW i \in Ids, StartRun(a, i) \/ Finish(a, i) \/ Deliver(a, i) PROVE SeriesInv'
    BY <1>1, <2>3 DEF StartRun, Finish, Deliver
  <2> QED BY <1>1, <1>7, <1>9, <2>1, <2>2, <2>3 DEF Poll, EndsRun, Delivers
<1>10. ASSUME NEW a \in Agents, MessageTool(a) \/ ReportTool(a) \/ ReportStrictTool(a)
       PROVE SeriesInv'
  <2>1. PICK x : /\ mails' = Append(mails, x) /\ Counted(x, cur[a].mail)
                 /\ x.kind \in {"message", "report", "strict"}
    <3>1. CASE MessageTool(a)
      BY <3>1, MessageToolPosts
    <3>2. CASE ReportTool(a)
      BY <3>2, ReportToolPosts
    <3>3. CASE ReportStrictTool(a)
      BY <3>3, ReportStrictToolPosts
    <3> QED BY <1>10, <3>1, <3>2, <3>3
  <2>2. ~IsAutoReply(x)
    BY <2>1 DEF IsAutoReply, KindsAutomatic
  <2> QED BY <1>2, <2>1, <2>2
<1>11. ASSUME \/ \E u \in People, a \in Desks : PersonWrites(u, a)
              \/ \E u \in People, i \in Ids : PersonReplies(u, i)
       PROVE SeriesInv'
  <2>1. PICK x : mails' = Append(mails, x) /\ Counted(x, 0) /\ x.kind \in {"new", "reply"}
    BY <1>11, PersonWritesFresh, PersonRepliesFresh
  <2>2. ~IsAutoReply(x)
    BY <2>1 DEF IsAutoReply, KindsAutomatic
  <2> QED BY <1>2, <2>1, <2>2
<1>12. CASE UNCHANGED vars
  BY <1>1, <1>12 DEF vars
<1> QED BY <1>5, <1>6, <1>9, <1>10, <1>11, <1>12 DEF Next

(* Automatic answers die out, whatever the model chose and however the     *)
(* agents delegate: no series of refusals, notices and out-of-office       *)
(* answers outgrows the mail there was when it began (handleAutoReply,     *)
(* main.go).  Only agents may be unreachable: the failure report of an     *)
(* unreachable person is refused by nobody, see bounce_loop.               *)
THEOREM AnswersDieOut ==
    ASSUME Unreachable \subseteq Agents
    PROVE Spec => []Settles
<1>1. Init => SeriesInv
  BY DEF Init, SeriesInv, Ids
<1>2. AccessInv /\ SeriesInv => Settles
  <2> SUFFICES ASSUME AccessInv, SeriesInv, NEW i \in Ids
               PROVE mails[i].hops <= mails[i].before + 2
    BY DEF Settles
  <2>1. mails[i].before \in Nat /\ mails[i].hops \in Nat
    BY DEF SeriesInv, Series
  <2>2. CASE mails[i].hops \in {0, 1}
    BY <2>1, <2>2
  <2>3. CASE mails[i].kind = "notice"
    <3>1. mails[i].hops + mails[i].irt <= mails[i].before + 2 /\ mails[i].irt \in Ids
      BY <2>3 DEF SeriesInv, Series
    <3> QED BY <2>1, <3>1, Numbered
  <2>4. CASE mails[i].kind = "ooo" /\ mails[i].hops # 1
    BY <2>4 DEF SeriesInv, Series
  <2> QED BY <2>2, <2>3, <2>4 DEF SeriesInv, Series, IsAutoReply, KindsAutomatic
<1>3. AccessInv /\ ThreadInv /\ ThreadInv' /\ SeriesInv /\ [Next]_vars => SeriesInv'
  BY SeriesStep
<1> QED BY <1>1, <1>2, <1>3, AccessInvariant, ThreadInvariant, PTL DEF Spec
=============================================================================
