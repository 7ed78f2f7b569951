------------------------- MODULE MailNetworkProofs -------------------------
(***************************************************************************)
(* Who agents work for, for any addresses, lists and number of messages:   *)
(* the X-Senders header carries every author from the person a chain began *)
(* with, so what AccessControl looks at at one hop is enough for all of    *)
(* them.                                                                   *)
(***************************************************************************)
EXTENDS MailNetwork, TLAPS

IsSequence(s) == \E S : s \in Seq(S)

(* Every author on the way to a message is its sender or in X-Senders.     *)
PathInSenders ==
    \A i \in Ids : ~IsAutoReply(mails[i]) =>
        IsSequence(mails[i].path) /\ ToSet(mails[i].path) \subseteq Immediate(i)

(* What AccessControl asks of the senders it is shown.                     *)
ListsAdmit(a, senders) ==
    IF Whitelist[a] # {} THEN senders \subseteq Whitelist[a]
    ELSE senders \cap Blacklist[a] = {}

(* A run is for a message that was let in.                                 *)
RunAdmitted(a) ==
    Busy(a) => /\ cur[a].mail \in Ids /\ ~IsAutoReply(mails[cur[a].mail])
               /\ ListsAdmit(a, Immediate(cur[a].mail))

AccessInv ==
    /\ IsSequence(mails) /\ DOMAIN cur = Agents
    /\ PathInSenders
    /\ \A a \in Agents : RunAdmitted(a)

-----------------------------------------------------------------------------
(* Appending to a sequence.                                                *)
LEMMA Appending ==
    ASSUME NEW s, IsSequence(s), NEW x
    PROVE /\ IsSequence(Append(s, x))
          /\ Len(s) \in Nat /\ DOMAIN s = 1..Len(s)
          /\ DOMAIN Append(s, x) = DOMAIN s \cup {Len(s) + 1}
          /\ \A i \in DOMAIN s : Append(s, x)[i] = s[i]
          /\ Append(s, x)[Len(s) + 1] = x
          /\ ToSet(Append(s, x)) = ToSet(s) \cup {x}
<1>1. PICK S : s \in Seq(S)
  BY DEF IsSequence
<1>2. s \in Seq(S \cup {x}) /\ x \in S \cup {x}
  BY <1>1
<1>3. Len(s) \in Nat /\ DOMAIN s = 1..Len(s)
  BY <1>1
<1>4. Append(s, x) \in Seq(S \cup {x}) /\ Len(Append(s, x)) = Len(s) + 1
  BY <1>2
<1>5. DOMAIN Append(s, x) = 1..(Len(s) + 1)
  BY <1>4, <1>3
<1>6. DOMAIN Append(s, x) = DOMAIN s \cup {Len(s) + 1}
  BY <1>3, <1>5
<1>7. \A i \in DOMAIN s : Append(s, x)[i] = s[i]
  BY <1>2, <1>3
<1>8. Append(s, x)[Len(s) + 1] = x
  BY <1>2, <1>3
<1>9. ToSet(Append(s, x)) = ToSet(s) \cup {x}
  BY <1>6, <1>7, <1>8 DEF ToSet
<1> QED BY <1>3, <1>4, <1>6, <1>7, <1>8, <1>9 DEF IsSequence

(* A message that is sent leaves those before it as they are; if it is not *)
(* an automatic answer its author and X-Senders hold its path.             *)
LEMMA PostedKeeps ==
    ASSUME AccessInv, NEW m, NEW src,
           mails' = SendEmail(m, src),
           IsAutoReply(m) \/ src = 0
             \/ (src \in Ids /\ ~IsAutoReply(mails[src]) /\ m.senders = Immediate(src))
    PROVE /\ IsSequence(mails') /\ PathInSenders'
          /\ Ids \subseteq Ids'
          /\ \A i \in Ids : mails'[i] = mails[i]
<1> DEFINE refs == IF m.irt = 0 \/ m.irt \in ToSet(m.refs) THEN m.refs
                   ELSE Append(m.refs, m.irt)
           path == IF src = 0 THEN <<m.from>> ELSE Append(mails[src].path, m.from)
           x == Message(m, refs, src)
<1>1. /\ mails' = Append(mails, x)
      /\ x.kind = m.kind /\ x.from = m.from /\ x.senders = m.senders
      /\ x.path = path
  <2>1. mails' = Append(mails, x)
    BY DEF SendEmail
  <2>2. x.kind = m.kind /\ x.from = m.from /\ x.senders = m.senders
    BY DEF Message
  <2>3. x.path = path
    BY DEF Message
  <2> QED BY <2>1, <2>2, <2>3
<1> HIDE DEF x, path
<1>2. IsSequence(mails') /\ Ids' = Ids \cup {Len(mails) + 1}
      /\ (\A i \in Ids : mails'[i] = mails[i]) /\ mails'[Len(mails) + 1] = x
      /\ Len(mails) \in Nat /\ Ids = 1..Len(mails)
  BY <1>1, Appending DEF AccessInv, Ids
<1>3. ASSUME ~IsAutoReply(x)
      PROVE IsSequence(path) /\ ToSet(path) \subseteq m.senders \cup {m.from}
  <2>1. ~IsAutoReply(m)
    BY <1>1, <1>3 DEF IsAutoReply
  <2>2. CASE src = 0
    <3>1. <<m.from>> \in Seq({m.from}) /\ ToSet(<<m.from>>) = {m.from}
      BY DEF ToSet
    <3> QED BY <2>2, <3>1 DEF IsSequence, path
  <2>3. CASE src # 0
    <3>1. /\ src \in Ids /\ m.senders = Immediate(src)
          /\ IsSequence(mails[src].path) /\ ToSet(mails[src].path) \subseteq Immediate(src)
      BY <2>1, <2>3 DEF AccessInv, PathInSenders
    <3>2. IsSequence(path) /\ ToSet(path) = ToSet(mails[src].path) \cup {m.from}
      BY <2>3, <3>1, Appending DEF path
    <3> QED BY <3>1, <3>2
  <2> QED BY <2>2, <2>3
<1>4. ASSUME NEW i \in Ids', ~IsAutoReply(mails'[i])
      PROVE IsSequence(mails'[i].path)
            /\ ToSet(mails'[i].path) \subseteq mails'[i].senders \cup {mails'[i].from}
  <2>1. CASE i \in Ids
    BY <1>2, <1>4, <2>1 DEF AccessInv, PathInSenders, Immediate, AddToSenders
  <2>2. CASE i = Len(mails) + 1
    BY <1>1, <1>2, <1>3, <1>4, <2>2
  <2> QED BY <1>2, <2>1, <2>2
<1>5. PathInSenders'
  BY <1>4 DEF PathInSenders, Immediate, AddToSenders, IsAutoReply
<1> QED BY <1>2, <1>5

(* What was let in stays let in: messages do not change.                   *)
LEMMA RunStaysAdmitted ==
    ASSUME NEW a \in Agents, RunAdmitted(a), cur'[a] = cur[a],
           Ids \subseteq Ids', \A i \in Ids : mails'[i] = mails[i]
    PROVE RunAdmitted(a)'
BY DEF RunAdmitted, Busy, Immediate, AddToSenders, IsAutoReply, ListsAdmit

(* A step that sends a message and leaves the runs alone.                  *)
LEMMA SendingKeepsAccess ==
    ASSUME AccessInv, NEW m, NEW src,
           mails' = SendEmail(m, src), cur' = cur,
           IsAutoReply(m) \/ src = 0
             \/ (src \in Ids /\ ~IsAutoReply(mails[src]) /\ m.senders = Immediate(src))
    PROVE AccessInv'
<1>1. /\ IsSequence(mails') /\ PathInSenders'
      /\ Ids \subseteq Ids' /\ \A i \in Ids : mails'[i] = mails[i]
  BY PostedKeeps
<1>2. \A a \in Agents : RunAdmitted(a)'
  BY <1>1, RunStaysAdmitted DEF AccessInv
<1>3. DOMAIN cur' = Agents
  BY DEF AccessInv
<1> QED BY <1>1, <1>2, <1>3 DEF AccessInv

(* A step that sends nothing and leaves the runs alone.                    *)
LEMMA SilentKeepsAccess ==
    ASSUME AccessInv, mails' = mails, cur' = cur
    PROVE AccessInv'
<1>1. PathInSenders'
  BY DEF AccessInv, PathInSenders, Immediate, AddToSenders, IsAutoReply, Ids
<1>2. \A a \in Agents : RunAdmitted(a)'
  BY RunStaysAdmitted DEF AccessInv, Ids
<1> QED BY <1>1, <1>2 DEF AccessInv

(* A run that ends leaves the others as they are.                          *)
LEMMA EndKeepsAccess ==
    ASSUME AccessInv, NEW a \in Agents, cur' = [cur EXCEPT ![a] = NoRun],
           IsSequence(mails'), PathInSenders',
           Ids \subseteq Ids', \A i \in Ids : mails'[i] = mails[i]
    PROVE AccessInv'
<1>1. DOMAIN cur' = Agents /\ cur'[a].mail = 0
      /\ \A b \in Agents \ {a} : cur'[b] = cur[b]
  BY DEF AccessInv, NoRun
<1>2. RunAdmitted(a)'
  BY <1>1 DEF RunAdmitted, Busy
<1>3. \A b \in Agents \ {a} : RunAdmitted(b)'
  BY <1>1, RunStaysAdmitted DEF AccessInv
<1> QED BY <1>1, <1>2, <1>3 DEF AccessInv

-----------------------------------------------------------------------------
(* People and the mail system.                                             *)
LEMMA OutsideKeepsAccess ==
    ASSUME AccessInv,
           \/ \E u \in People, a \in Desks : PersonWrites(u, a)
           \/ \E u \in People, i \in Ids : PersonReplies(u, i)
           \/ \E i \in Ids : OutOfOffice(i) \/ DeliveryFails(i)
           \/ \E a \in Agents : Delivers(a)
    PROVE AccessInv'
<1>1. ASSUME NEW u, NEW a, PersonWrites(u, a) PROVE AccessInv'
  BY <1>1, SendingKeepsAccess DEF PersonWrites, Others
<1>2. ASSUME NEW u, NEW i, PersonReplies(u, i) PROVE AccessInv'
  <2>1. cur' = cur /\ \E m : mails' = SendEmail(m, 0)
    BY <1>2 DEF PersonReplies, Others
  <2> QED BY <2>1, SendingKeepsAccess
<1>3. ASSUME NEW i, OutOfOffice(i) PROVE AccessInv'
  <2> DEFINE m == Automatic("ooo", mails[i].to, mails[i].from, Chained(i), i)
  <2>1. cur' = cur /\ mails' = SendEmail(m, i)
    BY <1>3 DEF OutOfOffice, Others
  <2>2. IsAutoReply(m)
    BY DEF IsAutoReply, Automatic, KindsAutomatic
  <2> QED BY <2>1, <2>2, SendingKeepsAccess
<1>4. ASSUME NEW i, DeliveryFails(i) PROVE AccessInv'
  <2> DEFINE m == Automatic("dsn", Mta, mails[i].from, <<i>>, 0)
  <2>1. cur' = cur /\ mails' = SendEmail(m, i)
    BY <1>4 DEF DeliveryFails, Others
  <2>2. IsAutoReply(m)
    BY DEF IsAutoReply, Automatic, KindsAutomatic
  <2> QED BY <2>1, <2>2, SendingKeepsAccess
<1>5. ASSUME NEW a, NEW i, Deliver(a, i) PROVE AccessInv'
  BY <1>5, SilentKeepsAccess DEF Deliver
<1> QED BY <1>1, <1>2, <1>3, <1>4, <1>5 DEF Delivers

(* Answers and refusals of the program itself.                             *)
LEMMA BounceKeepsPaths ==
    ASSUME AccessInv, NEW a, NEW i, NEW k \in {"refusal", "giveup"},
           SendBounce(a, i, k)
    PROVE /\ IsSequence(mails') /\ PathInSenders'
          /\ Ids \subseteq Ids' /\ \A j \in Ids : mails'[j] = mails[j]
<1> DEFINE m == Automatic(k, a, mails[i].from, mails[i].refs, i)
<1>1. mails' = SendEmail(m, i)
  BY DEF SendBounce
<1>2. IsAutoReply(m)
  BY DEF IsAutoReply, Automatic, KindsAutomatic
<1> QED BY <1>1, <1>2, PostedKeeps

(* A message that is taken from the inbox: a run starts only if the lists  *)
(* admit X-Senders and the sender.                                         *)
LEMMA PollKeepsAccess ==
    ASSUME AccessInv, NEW a \in Agents, Poll(a)
    PROVE AccessInv'
<1>1. ASSUME NEW i \in Ids, HandleAutoReply(a, i) PROVE AccessInv'
  <2> DEFINE up == Upstream(a, i)
             m == Automatic("notice", a, mails[up].from, Chained(up), up)
  <2>1. cur' = cur
    BY <1>1 DEF HandleAutoReply
  <2>2. mails' = SendEmail(m, i) \/ mails' = mails
    BY <1>1 DEF HandleAutoReply
  <2>3. IsAutoReply(m)
    BY DEF IsAutoReply, Automatic, KindsAutomatic
  <2> HIDE DEF m
  <2> QED BY <2>1, <2>2, <2>3, SendingKeepsAccess, SilentKeepsAccess
<1>2. ASSUME NEW i \in Ids, Refuse(a, i) PROVE AccessInv'
  <2>1. cur' = cur /\ SendBounce(a, i, "refusal")
    BY <1>2 DEF Refuse
  <2>2. /\ IsSequence(mails') /\ PathInSenders'
        /\ Ids \subseteq Ids' /\ \A j \in Ids : mails'[j] = mails[j]
    BY <2>1, BounceKeepsPaths
  <2>3. \A b \in Agents : RunAdmitted(b)'
    BY <2>1, <2>2, RunStaysAdmitted DEF AccessInv
  <2> QED BY <2>1, <2>2, <2>3 DEF AccessInv
<1>3. ASSUME NEW i \in Ids, StartRun(a, i) PROVE AccessInv'
  <2>1. mails' = mails /\ ~IsAutoReply(mails[i]) /\ AccessControl(a, i)
    BY <1>3 DEF StartRun
  <2>2. PICK h : cur' = [cur EXCEPT ![a] = [mail |-> i, hist |-> h]]
    BY <1>3 DEF StartRun
  <2>3. DOMAIN cur' = Agents /\ cur'[a].mail = i
        /\ \A b \in Agents \ {a} : cur'[b] = cur[b]
    BY <2>2 DEF AccessInv
  <2>4. ListsAdmit(a, Immediate(i))
    BY <2>1 DEF AccessControl, ListsAdmit, ThreadIdentities
  <2>5. RunAdmitted(a)'
    BY <2>1, <2>3, <2>4
       DEF RunAdmitted, Ids, IsAutoReply, ListsAdmit, Immediate, AddToSenders
  <2>6. \A b \in Agents \ {a} : RunAdmitted(b)'
    BY <2>1, <2>3, RunStaysAdmitted DEF AccessInv, Ids
  <2>7. IsSequence(mails') /\ PathInSenders'
    BY <2>1 DEF AccessInv, PathInSenders, Immediate, AddToSenders, IsAutoReply, Ids
  <2> QED BY <2>3, <2>5, <2>6, <2>7 DEF AccessInv
<1> QED BY <1>1, <1>2, <1>3 DEF Poll

(* The end of a run.                                                       *)
LEMMA EndsRunKeepsAccess ==
    ASSUME AccessInv, NEW a \in Agents, EndsRun(a)
    PROVE AccessInv'
<1>1. ASSUME NEW i, Finish(a, i) PROVE AccessInv'
  <2>1. mails' = mails /\ cur' = [cur EXCEPT ![a] = NoRun]
    BY <1>1 DEF Finish, EndRun
  <2>2. PathInSenders'
    BY <2>1 DEF AccessInv, PathInSenders, Immediate, AddToSenders, IsAutoReply, Ids
  <2>3. IsSequence(mails') /\ Ids' = Ids /\ \A j \in Ids : mails'[j] = mails[j]
    BY <2>1 DEF AccessInv, Ids
  <2> QED BY <2>1, <2>2, <2>3, EndKeepsAccess
<1>2. ASSUME NEW i, GiveUp(a, i) PROVE AccessInv'
  <2>1. SendBounce(a, i, "giveup") /\ cur' = [cur EXCEPT ![a] = NoRun]
    BY <1>2 DEF GiveUp, EndRun
  <2> QED BY <2>1, BounceKeepsPaths, EndKeepsAccess
<1> QED BY <1>1, <1>2 DEF EndsRun

(* What a run sends carries the senders of the message it works on.        *)
LEMMA SendKeepsAccess ==
    ASSUME AccessInv, NEW a \in Agents, Busy(a),
           NEW k, NEW to, NEW use, NEW i, Send(a, k, to, use, i)
    PROVE AccessInv'
<1>1. cur' = cur /\ mails' = Compose(a, k, to, use, i)
  BY DEF Send, Others
<1>2. PICK m : m.senders = Immediate(cur[a].mail) /\ mails' = SendEmail(m, cur[a].mail)
  BY <1>1 DEF Compose
<1>3. cur[a].mail \in Ids /\ ~IsAutoReply(mails[cur[a].mail])
  BY DEF AccessInv, RunAdmitted
<1> QED BY <1>1, <1>2, <1>3, SendingKeepsAccess

LEMMA ToolsKeepAccess ==
    ASSUME AccessInv, NEW a \in Agents,
           MessageTool(a) \/ ReportTool(a) \/ ReportStrictTool(a)
    PROVE AccessInv'
BY SendKeepsAccess DEF MessageTool, ReportTool, ReportStrictTool

-----------------------------------------------------------------------------
(* What AccessControl decides from X-Senders holds of every author.        *)
THEOREM AccessInvariant == Spec => []AccessInv
<1>1. Init => AccessInv
  <2> SUFFICES ASSUME Init PROVE AccessInv
    OBVIOUS
  <2>1. mails = << >> /\ cur = [a \in Agents |-> NoRun]
    BY DEF Init
  <2>2. << >> \in Seq({}) /\ DOMAIN << >> = {}
    OBVIOUS
  <2>3. IsSequence(mails) /\ PathInSenders
    BY <2>1, <2>2 DEF IsSequence, PathInSenders, Ids
  <2>4. DOMAIN cur = Agents /\ \A a \in Agents : RunAdmitted(a)
    BY <2>1 DEF RunAdmitted, Busy, NoRun
  <2> QED BY <2>3, <2>4 DEF AccessInv
<1>2. AccessInv /\ [Next]_vars => AccessInv'
  <2> SUFFICES ASSUME AccessInv, [Next]_vars PROVE AccessInv'
    OBVIOUS
  <2>1. CASE \E a \in Agents : Poll(a) \/ EndsRun(a)
    BY <2>1, PollKeepsAccess, EndsRunKeepsAccess
  <2>2. CASE \E a \in Agents : MessageTool(a) \/ ReportTool(a) \/ ReportStrictTool(a)
    BY <2>2, ToolsKeepAccess
  <2>3. CASE vars' = vars
    BY <2>3, SilentKeepsAccess DEF vars
  <2> QED BY <2>1, <2>2, <2>3, OutsideKeepsAccess DEF Next
<1> QED BY <1>1, <1>2, PTL DEF Spec

(* A run works for nobody the agent's lists keep out, however many agents  *)
(* are between it and the person who began: AccessControl sees only one    *)
(* message, X-Senders (AddToSenders, send_helper.go) carries the rest.     *)
THEOREM OnlyAdmittedRuns == Spec => []Admitted
<1>1. AccessInv => Admitted
  <2> SUFFICES ASSUME AccessInv, NEW a \in Agents, Busy(a)
               PROVE ListsAdmit(a, ToSet(mails[cur[a].mail].path))
    BY DEF Admitted, ListsAdmit
  <2>1. ToSet(mails[cur[a].mail].path) \subseteq Immediate(cur[a].mail)
        /\ ListsAdmit(a, Immediate(cur[a].mail))
    BY DEF AccessInv, RunAdmitted, PathInSenders
  <2> QED BY <2>1 DEF ListsAdmit
<1> QED BY <1>1, AccessInvariant, PTL

=============================================================================
