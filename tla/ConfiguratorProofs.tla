-------------------------- MODULE ConfiguratorProofs --------------------------
(***************************************************************************)
(* What is proved of Configurator for every roster, catalog and set of     *)
(* forms, and any number of requests and mishaps.                          *)
(***************************************************************************)
EXTENDS Configurator, FiniteSetTheorems, SequenceTheorems, TLAPS

(* The steps a handler has left are in an order in which they can be done: *)
(* a file opened is filled next, passwords and the mail server are         *)
(* followed by the mailboxes, and a step finds what it needs in the form.  *)
Follows(s, i, step) == i + 1 \in DOMAIN s /\ s[i + 1] = step

InOrder(s) ==
    \A i \in DOMAIN s :
        /\ s[i] = "openRoster" => Follows(s, i, "roster")
        /\ s[i] = "openCatalog" => Follows(s, i, "catalog")
        /\ s[i] \in {"drop", "password", "enable"}
              => \E j \in DOMAIN s : j > i /\ s[j] = "accounts"

Serves(s, f) ==
    \A i \in DOMAIN s :
        /\ s[i] = "drop" => f.op = "agent" /\ f.from # None
        /\ s[i] = "password" => f.op = "agent"
        /\ s[i] = "knowledge" => f.op = "knowledge"
        /\ s[i] = "unlink" => f.op \in {"knowledge", "dropKnowledge"} /\ f.from # None

PlanInv == InOrder(todo) /\ Serves(todo, form)

(* What the two files will be when the save is done.                       *)
Has(s, step) == \E i \in DOMAIN s : s[i] = step
NextRoster == IF Has(todo, "roster") THEN draft.roster ELSE roster.content
NextCatalog == IF Has(todo, "catalog") THEN draft.catalog ELSE catalog.content

(* As long as no save has failed, a truncated file is the one being        *)
(* written.                                                                *)
TornInv ==
    clean => /\ roster.state = "torn" => At("roster")
             /\ catalog.state = "torn" => At("catalog")

Resolve(agents, cat) ==
    \A e \in DOMAIN agents : agents[e].tools \subseteq BuiltIn \cup DOMAIN cat

(* The files as they will be resolve every key, also within a save.        *)
AssignmentsInv == clean => Resolve(NextRoster.agents, NextCatalog)

(* The agents to come are those deployed, or the steps that deploy them    *)
(* are still ahead; a roster written after them has the same agents.       *)
SameAgents == DOMAIN draft.roster.agents = DOMAIN roster.content.agents

DeployedInv ==
    clean =>
        /\ Has(todo, "compose") \/ services = DOMAIN NextRoster.agents
        /\ \/ Has(todo, "accounts") \/ ~enabled
           \/ \A e \in DOMAIN NextRoster.agents :
                Password(e) # None => accounts[e] = Password(e)
        /\ \A i, j \in DOMAIN todo :
             i < j /\ todo[i] \in {"compose", "accounts"} /\ todo[j] = "roster"
                => SameAgents

(* What was fetched for a key is of the row it was fetched for, or it is   *)
(* the nothing a local server gave.                                        *)
Kinds(k) == {"built-in"} \cup (IF k \in Spawned THEN {None} ELSE {})

CacheInv ==
    \A k \in DOMAIN cache :
        \/ /\ k \in BuiltIn
           /\ \E row \in Kinds(k) : cache[k] = [sig |-> None, row |-> row]
        \/ /\ k \notin BuiltIn /\ cache[k].sig \in Rows /\ Usable(cache[k].sig)
           /\ cache[k] = [sig |-> cache[k].sig, row |-> cache[k].sig]

Useful(cat) == {k \in DOMAIN cat : Usable(cat[k])}

(* The tools are those of keys and the catalog, but for servers that gave  *)
(* nothing, which are tried again.                                         *)
Assembled(keys, cat) ==
    /\ DOMAIN cache \subseteq keys \cap (BuiltIn \cup Useful(cat))
    /\ \A k \in DOMAIN cache : cache[k].sig = Signature(cat, k)
    /\ ~retry => DOMAIN cache = keys \cap (BuiltIn \cup Useful(cat))

Due == AssignedKeys(Roster, Self)
Current == Assembled(Due, Catalog)

(* What is recorded as unchanged is what the tools were assembled from, or *)
(* what the reload going on has read.                                      *)
ReloadInv ==
    /\ pc = "boot" => cache = << >>
    /\ pc # "up" => reload = "none"
    /\ pc \in {"registered", "built", "prompted"} =>
          /\ Parses(roster) /\ Parses(catalog) /\ assigned = Due
    /\ pc = "registered" =>
          /\ cache = << >>
          /\ registry = [k \in Useful(Catalog) |-> Catalog[k]]
    /\ pc \in {"built", "prompted"} => Current
    /\ reload = "catalog" /\ ~rosterNew /\ Parses(roster)
          => assigned = Due
    /\ (/\ pc = "up" /\ reload = "none" /\ ~rosterNew /\ ~catalogNew
        /\ Parses(roster) /\ Parses(catalog))
          => Current

-----------------------------------------------------------------------------
(* Maps, and the lists of steps.                                           *)

(* A map from some of S to R is a function with its domain in S.           *)
LEMMA MapType ==
    ASSUME NEW S, NEW R, NEW m
    PROVE  m \in Maps(S, R) <=> DOMAIN m \subseteq S /\ m \in [DOMAIN m -> R]
<1>1. ASSUME m \in Maps(S, R) PROVE DOMAIN m \subseteq S /\ m \in [DOMAIN m -> R]
  <2>1. PICK s \in SUBSET S : m \in [s -> R]
    BY <1>1 DEF Maps
  <2> QED BY <2>1
<1>2. ASSUME DOMAIN m \subseteq S, m \in [DOMAIN m -> R] PROVE m \in Maps(S, R)
  BY <1>2 DEF Maps
<1> QED BY <1>1, <1>2

(* Setting an entry keeps a map a map.                                     *)
LEMMA PutType ==
    ASSUME NEW S, NEW R, NEW m, m \in Maps(S, R), NEW k, k \in S, NEW v, v \in R
    PROVE  Put(m, k, v) \in Maps(S, R) /\ DOMAIN Put(m, k, v) = DOMAIN m \cup {k}
<1>1. DOMAIN m \subseteq S /\ m \in [DOMAIN m -> R]
  BY MapType
<1>2. DOMAIN Put(m, k, v) = DOMAIN m \cup {k}
  BY DEF Put
<1>3. Put(m, k, v) \in [DOMAIN m \cup {k} -> R]
  BY <1>1 DEF Put
<1> QED BY <1>1, <1>2, <1>3, MapType

(* So does removing one.                                                   *)
LEMMA WithoutType ==
    ASSUME NEW S, NEW R, NEW m, m \in Maps(S, R), NEW x
    PROVE  /\ Without(m, x) \in Maps(S, R)
           /\ DOMAIN Without(m, x) = DOMAIN m \ {x}
           /\ \A k \in DOMAIN m \ {x} : Without(m, x)[k] = m[k]
<1>1. DOMAIN m \subseteq S /\ m \in [DOMAIN m -> R]
  BY MapType
<1>2. /\ DOMAIN Without(m, x) = DOMAIN m \ {x}
      /\ \A k \in DOMAIN m \ {x} : Without(m, x)[k] = m[k]
  BY DEF Without, Restrict
<1>3. Without(m, x) \in [DOMAIN m \ {x} -> R]
  BY <1>1 DEF Without, Restrict
<1> QED BY <1>1, <1>2, <1>3, MapType

(* The rest of a list.                                                     *)
LEMMA TailOf ==
    ASSUME NEW s \in Seq(StepNames), s # << >>
    PROVE  /\ Tail(s) \in Seq(StepNames) /\ Len(Tail(s)) = Len(s) - 1
           /\ 1 \in DOMAIN s /\ Head(s) = s[1] /\ s[1] \in StepNames
           /\ \A i \in DOMAIN Tail(s) : i + 1 \in DOMAIN s /\ Tail(s)[i] = s[i + 1]
           /\ \A i \in DOMAIN s : i # 1 =>
                i - 1 \in DOMAIN Tail(s) /\ Tail(s)[i - 1] = s[i]
<1>1. Len(s) \in Nat /\ Len(s) > 0 /\ DOMAIN s = 1..Len(s)
  OBVIOUS
<1>2. Tail(s) \in Seq(StepNames) /\ Len(Tail(s)) = Len(s) - 1
  BY <1>1
<1>3. DOMAIN Tail(s) = 1..(Len(s) - 1)
  BY <1>1, <1>2
<1>4. \A i \in 1..(Len(s) - 1) : Tail(s)[i] = s[i + 1]
  BY <1>1
<1>5. Head(s) = s[1] /\ s[1] \in StepNames
  BY <1>1
<1> QED BY <1>1, <1>2, <1>3, <1>4, <1>5

(* A step is still ahead if it is the next or among the rest.              *)
LEMMA TailHas ==
    ASSUME NEW s \in Seq(StepNames), s # << >>, NEW step
    PROVE  Has(s, step) <=> Head(s) = step \/ Has(Tail(s), step)
<1>1. ASSUME Has(s, step) PROVE Head(s) = step \/ Has(Tail(s), step)
  <2>1. PICK i \in DOMAIN s : s[i] = step
    BY <1>1 DEF Has
  <2> QED BY <2>1, TailOf DEF Has
<1>2. ASSUME Head(s) = step \/ Has(Tail(s), step) PROVE Has(s, step)
  BY <1>2, TailOf DEF Has
<1> QED BY <1>1, <1>2

(* What is left of a plan is in order and serves the form.                 *)
LEMMA TailKeepsPlan ==
    ASSUME NEW s \in Seq(StepNames), s # << >>, NEW f, InOrder(s), Serves(s, f)
    PROVE  InOrder(Tail(s)) /\ Serves(Tail(s), f)
<1> DEFINE t == Tail(s)
<1>1. \A i \in DOMAIN t : i \in Int /\ i + 1 \in DOMAIN s /\ t[i] = s[i + 1]
  BY TailOf
<1>2. \A i \in DOMAIN s : i # 1 => i \in Int /\ i - 1 \in DOMAIN t /\ t[i - 1] = s[i]
  BY TailOf
<1> HIDE DEF t
<1>3. ASSUME NEW i \in DOMAIN t PROVE i > 0
  BY TailOf DEF t
<1>4. ASSUME NEW i \in DOMAIN t, NEW step, Follows(s, i + 1, step)
      PROVE  Follows(t, i, step)
  <2>1. (i + 1) + 1 \in DOMAIN s /\ s[(i + 1) + 1] = step /\ (i + 1) + 1 # 1
    BY <1>1, <1>3, <1>4 DEF Follows
  <2>2. ((i + 1) + 1) - 1 \in DOMAIN t /\ t[((i + 1) + 1) - 1] = step
    BY <1>2, <2>1
  <2>3. ((i + 1) + 1) - 1 = i + 1
    BY <1>1
  <2> QED BY <2>2, <2>3 DEF Follows
<1>5. ASSUME NEW i \in DOMAIN t,
             \E j \in DOMAIN s : j > i + 1 /\ s[j] = "accounts"
      PROVE  \E j \in DOMAIN t : j > i /\ t[j] = "accounts"
  <2>1. PICK j \in DOMAIN s : j > i + 1 /\ s[j] = "accounts"
    BY <1>5
  <2>2. j - 1 \in DOMAIN t /\ t[j - 1] = "accounts" /\ j - 1 > i
    BY <1>1, <1>2, <1>3, <2>1
  <2> QED BY <2>2
<1>6. InOrder(t)
  <2> SUFFICES ASSUME NEW i \in DOMAIN t
               PROVE  /\ t[i] = "openRoster" => Follows(t, i, "roster")
                      /\ t[i] = "openCatalog" => Follows(t, i, "catalog")
                      /\ t[i] \in {"drop", "password", "enable"}
                            => \E j \in DOMAIN t : j > i /\ t[j] = "accounts"
    BY DEF InOrder
  <2>1. i + 1 \in DOMAIN s /\ t[i] = s[i + 1]
    BY <1>1
  <2> QED BY <1>4, <1>5, <2>1 DEF InOrder
<1>7. Serves(t, f)
  BY <1>1 DEF Serves
<1> QED BY <1>6, <1>7 DEF t

(* What a plan promises at its start: its steps are in order, and agents   *)
(* are deployed after the roster is written.                               *)
WritesAgentsFirst(s) ==
    \A i, j \in DOMAIN s :
        i < j /\ s[i] \in {"compose", "accounts"} => s[j] # "roster"

Piece(s, f) == s \in Seq(StepNames) /\ InOrder(s) /\ Serves(s, f)
GoodPlan(s, f) == Piece(s, f) /\ s # << >>

(* The fields of a form.                                                   *)
LEMMA FormFields ==
    ASSUME NEW f \in FormSet
    PROVE  /\ f.op \in {"agent", "mcp", "dropMcp", "defaults", "partner", "dropPartner",
                        "knowledge", "dropKnowledge", "enable", "disable"}
           /\ f.op = "agent" => /\ f.from \in Emails \cup {None} /\ f.to \in Emails
                                /\ f.tools \subseteq Keys \cup BuiltIn
                                /\ f.value \in Passwords \cup {None}
           /\ f.op = "mcp" => f.from \in Keys \cup {None} /\ f.to \in Keys /\ f.value \in Rows
           /\ f.op = "dropMcp" => f.from \in Keys /\ f.to = None
           /\ f.op = "defaults" => f.value \in {None, "dms", "own"}
           /\ f.op = "partner" => f.to \in Partners
           /\ f.op = "knowledge" => /\ f.from \in Names \cup {None} /\ f.to \in Names
                                    /\ f.value \in Texts
           /\ f.op = "dropKnowledge" => f.from \in Names
BY DEF FormSet

(* An agent's form writes the roster, then deploys it.                     *)
LEMMA AgentPlan ==
    ASSUME NEW f \in FormSet, f.op = "agent", NEW s, s = Steps(f)
    PROVE  /\ GoodPlan(s, f) /\ WritesAgentsFirst(s)
           /\ Has(s, "roster") /\ Has(s, "compose") /\ Has(s, "accounts")
           /\ ~Has(s, "catalog")
<1>1. s = AgentSteps(f)
  BY Zenon DEF Steps
<1>2. CASE Renamed(f)
  <2>1. s = <<"drop">> \o <<"openRoster", "roster">>
            \o <<"password", "compose", "accounts">> \o << >>
    BY <1>1, <1>2 DEF AgentSteps, When, SaveRoster, Renamed
  <2>2. /\ DOMAIN s = 1..6 /\ s \in Seq(StepNames)
        /\ s[1] = "drop" /\ s[2] = "openRoster" /\ s[3] = "roster"
        /\ s[4] = "password" /\ s[5] = "compose" /\ s[6] = "accounts"
    BY <2>1 DEF StepNames
  <2>3. InOrder(s)
    BY <2>2 DEF InOrder, Follows
  <2>4. Serves(s, f)
    BY <1>2, <2>2 DEF Serves, Renamed
  <2>5. WritesAgentsFirst(s)
    BY <2>2 DEF WritesAgentsFirst
  <2>6. Has(s, "roster") /\ Has(s, "compose") /\ Has(s, "accounts")
    BY <2>2 DEF Has
  <2>7. ~Has(s, "catalog")
    BY <2>2 DEF Has
  <2>8. s # << >>
    BY <2>2
  <2> QED BY <2>2, <2>3, <2>4, <2>5, <2>6, <2>7, <2>8 DEF GoodPlan, Piece
<1>3. CASE ~Renamed(f) /\ f.from = f.to
  <2>1. s = << >> \o <<"openRoster", "roster">>
            \o <<"password", "compose", "accounts">> \o <<"signal">>
    BY <1>1, <1>3 DEF AgentSteps, When, SaveRoster
  <2>2. /\ DOMAIN s = 1..6 /\ s \in Seq(StepNames)
        /\ s[1] = "openRoster" /\ s[2] = "roster" /\ s[3] = "password"
        /\ s[4] = "compose" /\ s[5] = "accounts" /\ s[6] = "signal"
    BY <2>1 DEF StepNames
  <2>3. InOrder(s)
    BY <2>2 DEF InOrder, Follows
  <2>4. Serves(s, f)
    BY <2>2 DEF Serves
  <2>5. WritesAgentsFirst(s)
    BY <2>2 DEF WritesAgentsFirst
  <2>6. Has(s, "roster") /\ Has(s, "compose") /\ Has(s, "accounts")
    BY <2>2 DEF Has
  <2>7. ~Has(s, "catalog")
    BY <2>2 DEF Has
  <2>8. s # << >>
    BY <2>2
  <2> QED BY <2>2, <2>3, <2>4, <2>5, <2>6, <2>7, <2>8 DEF GoodPlan, Piece
<1>4. CASE ~Renamed(f) /\ f.from # f.to
  <2>1. s = << >> \o <<"openRoster", "roster">>
            \o <<"password", "compose", "accounts">> \o << >>
    BY <1>1, <1>4 DEF AgentSteps, When, SaveRoster
  <2>2. /\ DOMAIN s = 1..5 /\ s \in Seq(StepNames)
        /\ s[1] = "openRoster" /\ s[2] = "roster" /\ s[3] = "password"
        /\ s[4] = "compose" /\ s[5] = "accounts"
    BY <2>1 DEF StepNames
  <2>3. InOrder(s)
    BY <2>2 DEF InOrder, Follows
  <2>4. Serves(s, f)
    BY <2>2 DEF Serves
  <2>5. WritesAgentsFirst(s)
    BY <2>2 DEF WritesAgentsFirst
  <2>6. Has(s, "roster") /\ Has(s, "compose") /\ Has(s, "accounts")
    BY <2>2 DEF Has
  <2>7. ~Has(s, "catalog")
    BY <2>2 DEF Has
  <2>8. s # << >>
    BY <2>2
  <2> QED BY <2>2, <2>3, <2>4, <2>5, <2>6, <2>7, <2>8 DEF GoodPlan, Piece
<1> QED BY <1>2, <1>3, <1>4

(* Pieces of a plan put one after the other.                               *)
LEMMA Joined ==
    ASSUME NEW f, NEW s, NEW t, Piece(s, f), Piece(t, f)
    PROVE  /\ Piece(s \o t, f)
           /\ \A x : Has(s \o t, x) <=> Has(s, x) \/ Has(t, x)
<1> DEFINE u == s \o t
           n == Len(s)
<1>1. /\ s \in Seq(StepNames) /\ t \in Seq(StepNames) /\ u \in Seq(StepNames)
      /\ n \in Nat /\ DOMAIN s = 1..n /\ DOMAIN t = 1..Len(t) /\ Len(t) \in Nat
      /\ DOMAIN u = 1..(n + Len(t))
  BY DEF Piece
<1>2. \A i \in DOMAIN s : i \in DOMAIN u /\ u[i] = s[i]
  BY <1>1
<1>3. \A i \in DOMAIN t : n + i \in DOMAIN u /\ u[n + i] = t[i]
  BY <1>1
<1>4. \A i \in DOMAIN u : i \in DOMAIN s \/ (i > n /\ i - n \in DOMAIN t)
  BY <1>1
<1>5. \A i \in DOMAIN u : i > n => u[i] = t[i - n]
  BY <1>1
<1>6. \A i \in DOMAIN t : i \in Int /\ i > 0
  BY <1>1
<1>7. \A i \in DOMAIN s : i \in Int /\ i <= n
  BY <1>1
<1>8. n \in Int
  BY <1>1
<1> HIDE DEF u, n
<1>9. ASSUME NEW i \in DOMAIN u, NEW j \in DOMAIN t, i > n, i = n + j
      PROVE  /\ u[i] = t[j]
             /\ \A x : Follows(t, j, x) => Follows(u, i, x)
             /\ (\E k \in DOMAIN t : k > j /\ t[k] = "accounts")
                  => \E k \in DOMAIN u : k > i /\ u[k] = "accounts"
  <2>1. u[i] = t[j]
    BY <1>3, <1>9
  <2>2. ASSUME NEW x, Follows(t, j, x) PROVE Follows(u, i, x)
    <3>1. n + (j + 1) \in DOMAIN u /\ u[n + (j + 1)] = x
      BY <1>3, <2>2 DEF Follows
    <3>2. n + (j + 1) = i + 1
      BY <1>6, <1>8, <1>9
    <3> QED BY <3>1, <3>2 DEF Follows
  <2>3. ASSUME NEW k \in DOMAIN t, k > j, t[k] = "accounts"
        PROVE  n + k \in DOMAIN u /\ n + k > i /\ u[n + k] = "accounts"
    BY <1>3, <1>6, <1>8, <1>9, <2>3
  <2> QED BY <2>1, <2>2, <2>3
<1>10. ASSUME NEW i \in DOMAIN s
       PROVE  /\ \A x : Follows(s, i, x) => Follows(u, i, x)
              /\ (\E k \in DOMAIN s : k > i /\ s[k] = "accounts")
                   => \E k \in DOMAIN u : k > i /\ u[k] = "accounts"
  BY <1>2 DEF Follows
<1>11. InOrder(u)
  <2> SUFFICES ASSUME NEW i \in DOMAIN u
               PROVE  /\ u[i] = "openRoster" => Follows(u, i, "roster")
                      /\ u[i] = "openCatalog" => Follows(u, i, "catalog")
                      /\ u[i] \in {"drop", "password", "enable"}
                            => \E j \in DOMAIN u : j > i /\ u[j] = "accounts"
    BY DEF InOrder
  <2>1. CASE i \in DOMAIN s
    BY <1>2, <1>10, <2>1 DEF Piece, InOrder
  <2>2. CASE i > n /\ i - n \in DOMAIN t
    <3>1. PICK j \in DOMAIN t : j = i - n
      BY <2>2
    <3>2. i = n + j
      BY <1>1, <1>8, <3>1
    <3> QED BY <1>9, <2>2, <3>1, <3>2 DEF Piece, InOrder
  <2> QED BY <1>4, <2>1, <2>2
<1>12. Serves(u, f)
  BY <1>2, <1>4, <1>5 DEF Piece, Serves
<1>13. ASSUME NEW x PROVE Has(u, x) <=> Has(s, x) \/ Has(t, x)
  <2>1. Has(s, x) => Has(u, x)
    BY <1>2 DEF Has
  <2>2. Has(t, x) => Has(u, x)
    BY <1>3 DEF Has
  <2>3. Has(u, x) => Has(s, x) \/ Has(t, x)
    BY <1>2, <1>4, <1>5 DEF Has
  <2> QED BY <2>1, <2>2, <2>3
<1> QED BY <1>1, <1>11, <1>12, <1>13 DEF Piece, u

(* A plan that goes on is a plan.                                          *)
LEMMA JoinedNotEmpty ==
    ASSUME NEW f, NEW s, NEW t, GoodPlan(s, f), Piece(t, f)
    PROVE  GoodPlan(s \o t, f)
<1>1. s \in Seq(StepNames) /\ t \in Seq(StepNames) /\ s # << >>
  BY DEF GoodPlan, Piece
<1>2. s \o t # << >>
  BY <1>1
<1> QED BY <1>2, Joined DEF GoodPlan

(* The pieces the plans are made of.                                       *)
LEMMA Pieces ==
    ASSUME NEW f
    PROVE  /\ GoodPlan(SaveRoster, f) /\ GoodPlan(SaveCatalog, f)
           /\ Has(SaveRoster, "roster") /\ Has(SaveCatalog, "catalog")
           /\ Piece(<< >>, f) /\ GoodPlan(<<"keys">>, f) /\ GoodPlan(<<"signal">>, f)
           /\ GoodPlan(<<"enable", "accounts">>, f) /\ GoodPlan(<<"disable">>, f)
           /\ f.op = "knowledge" => GoodPlan(<<"knowledge">>, f)
           /\ f.op \in {"knowledge", "dropKnowledge"} /\ f.from # None
                => GoodPlan(<<"unlink">>, f)
<1>1. /\ Piece(<<"openRoster", "roster">>, f) /\ Has(<<"openRoster", "roster">>, "roster")
      /\ Piece(<<"openCatalog", "catalog">>, f)
      /\ Has(<<"openCatalog", "catalog">>, "catalog")
  BY DEF Piece, InOrder, Follows, Serves, Has, StepNames
<1>2. /\ Piece(<< >>, f) /\ Piece(<<"keys">>, f) /\ Piece(<<"signal">>, f)
      /\ Piece(<<"disable">>, f)
  BY DEF Piece, InOrder, Follows, Serves, StepNames
<1>3. Piece(<<"enable", "accounts">>, f)
  BY DEF Piece, InOrder, Follows, Serves, StepNames
<1>4. f.op = "knowledge" => Piece(<<"knowledge">>, f)
  BY DEF Piece, InOrder, Follows, Serves, StepNames
<1>5. f.op \in {"knowledge", "dropKnowledge"} /\ f.from # None => Piece(<<"unlink">>, f)
  BY DEF Piece, InOrder, Follows, Serves, StepNames
<1>6. /\ SaveRoster # << >> /\ SaveCatalog # << >> /\ <<"keys">> # << >>
      /\ <<"signal">> # << >> /\ <<"disable">> # << >> /\ <<"enable", "accounts">> # << >>
      /\ <<"knowledge">> # << >> /\ <<"unlink">> # << >>
  BY DEF SaveRoster, SaveCatalog
<1> QED BY <1>1, <1>2, <1>3, <1>4, <1>5, <1>6 DEF GoodPlan, SaveRoster, SaveCatalog

(* A piece that is only there under a condition.                           *)
LEMMA WhenPiece ==
    ASSUME NEW f, NEW cond, NEW s, cond => Piece(s, f)
    PROVE  /\ Piece(When(cond, s), f)
           /\ \A x : cond => (Has(When(cond, s), x) <=> Has(s, x))
<1>1. CASE cond
  BY <1>1 DEF When
<1>2. CASE ~cond
  BY <1>2, Pieces DEF When
<1> QED BY <1>1, <1>2

(* The plan of every form is in order and serves it; a server's writes the *)
(* catalog, and the roster too when an agent uses the key that goes.       *)
LEMMA PlansOK ==
    ASSUME NEW f \in FormSet
    PROVE  /\ GoodPlan(Steps(f), f)
           /\ f.op \in {"mcp", "dropMcp"} => Has(Steps(f), "catalog")
           /\ (\/ f.op = "mcp" /\ Renamed(f)
               \/ f.op = "dropMcp") /\ Uses(Roster, f.from) # {}
                 => Has(Steps(f), "roster")
<1> USE Pieces, FormFields
<1>1. CASE f.op = "agent"
  BY <1>1, AgentPlan
<1>2. CASE f.op = "mcp"
  <2> DEFINE move == Renamed(f) /\ Uses(Roster, f.from) # {}
             used == Uses(Roster, f.from) \cup Uses(Roster, f.to) # {}
             a == SaveCatalog \o When(move, SaveRoster)
             b == a \o <<"keys">>
             c == When(used, <<"signal">>)
  <2>1. Steps(f) = b \o c
    <3>1. Steps(f) = ServerSteps(f)
      BY <1>2, Zenon DEF Steps
    <3> QED BY <3>1 DEF ServerSteps
  <2> HIDE DEF move, used
  <2>2. /\ Piece(When(move, SaveRoster), f) /\ Piece(c, f)
        /\ move => Has(When(move, SaveRoster), "roster")
    BY WhenPiece DEF GoodPlan
  <2> HIDE DEF c
  <2>3. GoodPlan(a, f) /\ Has(a, "catalog") /\ (move => Has(a, "roster"))
    BY <2>2, Joined, JoinedNotEmpty DEF GoodPlan
  <2> HIDE DEF a
  <2>4. GoodPlan(b, f) /\ Has(b, "catalog") /\ (move => Has(b, "roster"))
    BY <2>3, Joined, JoinedNotEmpty DEF GoodPlan
  <2> HIDE DEF b
  <2>5. GoodPlan(Steps(f), f)
    BY <2>1, <2>2, <2>4, JoinedNotEmpty
  <2>6. Has(Steps(f), "catalog") /\ (move => Has(Steps(f), "roster"))
    BY <2>1, <2>2, <2>4, Joined DEF GoodPlan
  <2> QED BY <1>2, <2>5, <2>6 DEF move
<1>3. CASE f.op = "dropMcp"
  <2> DEFINE used == Uses(Roster, f.from) # {}
             b == SaveRoster \o <<"signal">>
  <2>1. Steps(f) = SaveCatalog \o When(used, b)
    <3>1. Steps(f) = ServerDropSteps(f)
      BY <1>3, Zenon DEF Steps
    <3> QED BY <3>1 DEF ServerDropSteps
  <2> HIDE DEF used
  <2>2. Piece(b, f) /\ Has(b, "roster")
    BY Joined DEF GoodPlan
  <2> HIDE DEF b
  <2>3. Piece(When(used, b), f) /\ (used => Has(When(used, b), "roster"))
    BY <2>2, WhenPiece
  <2>4. GoodPlan(Steps(f), f)
    BY <2>1, <2>3, JoinedNotEmpty
  <2>5. Has(Steps(f), "catalog") /\ (used => Has(Steps(f), "roster"))
    BY <2>1, <2>3, Joined DEF GoodPlan
  <2> QED BY <1>3, <2>4, <2>5 DEF used
<1>4. CASE f.op = "defaults"
  <2>1. Steps(f) = SaveRoster \o <<"keys">>
    BY <1>4, Zenon DEF Steps
  <2> QED BY <1>4, <2>1, JoinedNotEmpty DEF GoodPlan
<1>5. CASE f.op \in {"partner", "dropPartner"}
  <2>1. Steps(f) = SaveRoster
    <3>1. CASE f.op = "partner"
      BY <3>1, Zenon DEF Steps
    <3>2. CASE f.op = "dropPartner"
      BY <3>2, Zenon DEF Steps
    <3> QED BY <1>5, <3>1, <3>2
  <2> QED BY <1>5, <2>1
<1>6. CASE f.op = "knowledge"
  <2> DEFINE moved == Renamed(f)
             a == <<"knowledge">> \o When(moved, <<"unlink">>)
  <2>1. Steps(f) = a \o <<"signal">>
    <3>1. Steps(f) = KnowledgeSteps(f)
      BY <1>6, Zenon DEF Steps
    <3> QED BY <3>1 DEF KnowledgeSteps
  <2>2. moved => Piece(<<"unlink">>, f)
    BY <1>6 DEF Renamed, GoodPlan
  <2> HIDE DEF moved
  <2>3. Piece(When(moved, <<"unlink">>), f)
    BY <2>2, WhenPiece
  <2>4. GoodPlan(a, f)
    BY <1>6, <2>3, JoinedNotEmpty
  <2> HIDE DEF a
  <2> QED BY <1>6, <2>1, <2>4, JoinedNotEmpty DEF GoodPlan
<1>7. CASE f.op = "dropKnowledge"
  <2>1. Steps(f) = <<"unlink", "signal">>
    BY <1>7, Zenon DEF Steps
  <2>2. f.from # None
    BY <1>7, FilesAssumption
  <2>3. GoodPlan(<<"unlink", "signal">>, f)
    BY <1>7, <2>2 DEF GoodPlan, Piece, InOrder, Follows, Serves, StepNames
  <2> QED BY <1>7, <2>1, <2>3
<1>8. CASE f.op = "enable"
  <2>1. Steps(f) = <<"enable", "accounts">> \o When(Roster.common = None, SaveRoster)
    <3>1. Steps(f) = EnableSteps
      BY <1>8, Zenon DEF Steps
    <3> QED BY <3>1 DEF EnableSteps
  <2>2. Piece(When(Roster.common = None, SaveRoster), f)
    BY WhenPiece DEF GoodPlan
  <2> QED BY <1>8, <2>1, <2>2, JoinedNotEmpty
<1>9. CASE f.op = "disable"
  <2>1. Steps(f) = <<"disable">>
    BY <1>9, Zenon DEF Steps
  <2> QED BY <1>9, <2>1
<1> QED BY <1>1, <1>2, <1>3, <1>4, <1>5, <1>6, <1>7, <1>8, <1>9

-----------------------------------------------------------------------------
(* Types.                                                                  *)

(* The contents of the files, as they are read.                            *)
LEMMA ReadType ==
    ASSUME FilesTypeOK
    PROVE  /\ Roster \in Rosters /\ Catalog \in Catalogs
           /\ Roster.agents \in Maps(Emails, AgentDefs)
           /\ Catalog \in Maps(Keys, Rows)
           /\ Shown \in Rosters /\ ShownCatalog \in Catalogs
<1>1. << >> \in Maps(Emails, AgentDefs) /\ << >> \in Maps(Keys, Rows)
  <2>1. DOMAIN << >> = {} /\ << >> \in [DOMAIN << >> -> AgentDefs]
        /\ << >> \in [DOMAIN << >> -> Rows]
    OBVIOUS
  <2> QED BY <2>1, MapType
<1>2. EmptyRoster \in Rosters /\ EmptyCatalog \in Catalogs
  BY <1>1 DEF EmptyRoster, EmptyCatalog, Rosters, Catalogs
<1>3. Roster \in Rosters /\ Catalog \in Catalogs
  BY <1>2 DEF FilesTypeOK, Roster, Catalog, ReadRoster, ReadCatalog
<1> QED BY <1>2, <1>3 DEF Rosters, Catalogs, Shown, ShownCatalog

(* An agent's form replaces one entry.                                     *)
LEMMA AgentSavedType ==
    ASSUME FilesTypeOK, NEW f \in FormSet, f.op = "agent"
    PROVE  /\ AgentSaved(f) \in Rosters
           /\ \A e \in DOMAIN AgentSaved(f).agents :
                \/ AgentSaved(f).agents[e].tools = f.tools
                \/ /\ e \in DOMAIN Roster.agents
                   /\ AgentSaved(f).agents[e] = Roster.agents[e]
<1> DEFINE def == IF f.from \in DOMAIN Roster.agents THEN Roster.agents[f.from]
                  ELSE [tools |-> {}, own |-> FALSE]
           new == [def EXCEPT !.tools = f.tools]
           rest == Without(Roster.agents, f.from)
           agents == Put(rest, f.to, new)
<1>1. f.to \in Emails /\ f.tools \in SUBSET (Keys \cup BuiltIn)
  BY FormFields
<1>2. Roster \in Rosters /\ Roster.agents \in Maps(Emails, AgentDefs)
  BY ReadType
<1>3. def \in AgentDefs
  <2>1. \A e \in DOMAIN Roster.agents : Roster.agents[e] \in AgentDefs
    BY <1>2, MapType
  <2> QED BY <2>1 DEF AgentDefs
<1>4. new \in AgentDefs /\ new.tools = f.tools
  BY <1>1, <1>3 DEF AgentDefs
<1>5. AgentSaved(f) = [Roster EXCEPT !.agents = agents]
  BY Zenon DEF AgentSaved
<1> HIDE DEF new, def
<1>6. /\ rest \in Maps(Emails, AgentDefs) /\ DOMAIN rest \subseteq DOMAIN Roster.agents
      /\ \A e \in DOMAIN rest : rest[e] = Roster.agents[e]
  <2>1. rest \in Maps(Emails, AgentDefs)
    BY <1>2, WithoutType
  <2>2. /\ DOMAIN rest = DOMAIN Roster.agents \ {f.from}
        /\ \A e \in DOMAIN Roster.agents \ {f.from} : rest[e] = Roster.agents[e]
    BY DEF Without, Restrict
  <2> QED BY <2>1, <2>2
<1> HIDE DEF rest
<1>7. agents \in Maps(Emails, AgentDefs) /\ DOMAIN agents = DOMAIN rest \cup {f.to}
  <2>1. rest \in Maps(Emails, AgentDefs) /\ f.to \in Emails /\ new \in AgentDefs
    BY <1>1, <1>4, <1>6
  <2> QED BY ONLY <2>1, PutType
<1>8. \A e \in DOMAIN agents : agents[e] = new \/ (e \in DOMAIN rest /\ agents[e] = rest[e])
  BY <1>7 DEF Put
<1> HIDE DEF agents
<1>9. AgentSaved(f) \in Rosters /\ AgentSaved(f).agents = agents
  BY <1>2, <1>5, <1>7 DEF Rosters
<1> QED BY <1>4, <1>6, <1>8, <1>9

(* Renaming or removing a key.                                             *)
LEMMA RenameType ==
    ASSUME NEW agents \in Maps(Emails, AgentDefs),
           NEW from, NEW to \in Keys \cup {None}
    PROVE  LET new == renameToolKey(agents, from, to) IN
           /\ new \in Maps(Emails, AgentDefs) /\ DOMAIN new = DOMAIN agents
           /\ \A e \in DOMAIN agents : \A k \in new[e].tools :
                k # None /\ (k = to \/ (k # from /\ k \in agents[e].tools))
<1> DEFINE new == renameToolKey(agents, from, to)
           tools(e) == {IF k = from THEN to ELSE k : k \in agents[e].tools} \ {None}
<1>1. DOMAIN agents \subseteq Emails /\ agents \in [DOMAIN agents -> AgentDefs]
  BY MapType
<1>2. new = [e \in DOMAIN agents |-> [agents[e] EXCEPT !.tools = tools(e)]]
  BY Zenon DEF renameToolKey
<1>3. ASSUME NEW e \in DOMAIN agents
      PROVE  /\ tools(e) \in SUBSET (Keys \cup BuiltIn)
             /\ \A k \in tools(e) :
                  k # None /\ (k = to \/ (k # from /\ k \in agents[e].tools))
  BY <1>1 DEF AgentDefs
<1> HIDE DEF tools
<1>4. ASSUME NEW e \in DOMAIN agents
      PROVE  new[e] \in AgentDefs /\ new[e].tools = tools(e)
  BY <1>1, <1>2, <1>3 DEF AgentDefs
<1>5. DOMAIN new = DOMAIN agents
  BY <1>2
<1> HIDE DEF new
<1>6. new \in [DOMAIN agents -> AgentDefs]
  <2>1. new = [e \in DOMAIN agents |-> new[e]]
    BY <1>2
  <2> QED BY <1>4, <2>1
<1>7. new \in Maps(Emails, AgentDefs)
  BY <1>1, <1>5, <1>6, MapType
<1> QED BY <1>3, <1>4, <1>5, <1>7 DEF new

(* What a handler is going to write; only an agent's form changes which    *)
(* agents there are, and only a server's form the catalog.                 *)
LEMMA DraftType ==
    ASSUME FilesTypeOK, NEW f \in FormSet
    PROVE  /\ DraftRoster(f) \in Rosters /\ DraftCatalog(f) \in Catalogs
           /\ f.op = "agent" => DraftRoster(f) = AgentSaved(f)
           /\ f.op # "agent" => DOMAIN DraftRoster(f).agents = DOMAIN Roster.agents
           /\ f.op \notin {"agent", "mcp", "dropMcp"}
                => DraftRoster(f).agents = Roster.agents
           /\ f.op \in {"mcp", "dropMcp"}
                => DraftRoster(f).agents = renameToolKey(Roster.agents, f.from, f.to)
           /\ f.op \notin {"mcp", "dropMcp"} => DraftCatalog(f) = Catalog
           /\ f.op = "mcp" => DOMAIN DraftCatalog(f) = (DOMAIN Catalog \ {f.from}) \cup {f.to}
           /\ f.op = "dropMcp" => DOMAIN DraftCatalog(f) = DOMAIN Catalog \ {f.from}
<1> USE FormFields
<1>1. /\ Roster \in Rosters /\ Catalog \in Catalogs
      /\ Roster.agents \in Maps(Emails, AgentDefs) /\ Catalog \in Maps(Keys, Rows)
  BY ReadType
<1>2. CASE f.op = "agent"
  <2>1. DraftRoster(f) = AgentSaved(f)
    BY <1>2, Zenon DEF DraftRoster
  <2>2. DraftCatalog(f) = Catalog
    BY <1>2, Zenon DEF DraftCatalog
  <2> QED BY <1>1, <1>2, <2>1, <2>2, AgentSavedType
<1>3. ASSUME f.op \in {"mcp", "dropMcp"}
      PROVE  /\ DraftRoster(f) \in Rosters
             /\ DraftRoster(f).agents = renameToolKey(Roster.agents, f.from, f.to)
             /\ DOMAIN DraftRoster(f).agents = DOMAIN Roster.agents
  <2> DEFINE new == renameToolKey(Roster.agents, f.from, f.to)
  <2>1. DraftRoster(f) = [Roster EXCEPT !.agents = new]
    BY <1>3, Zenon DEF DraftRoster
  <2>2. f.to \in Keys \cup {None}
    BY <1>3
  <2>3. new \in Maps(Emails, AgentDefs) /\ DOMAIN new = DOMAIN Roster.agents
    BY <1>1, <2>2, RenameType
  <2> HIDE DEF new
  <2>4. DraftRoster(f) \in Rosters /\ DraftRoster(f).agents = new
    BY <1>1, <2>1, <2>3 DEF Rosters
  <2> QED BY <2>3, <2>4 DEF new
<1>4. CASE f.op = "mcp"
  <2>1. DraftCatalog(f) = Put(Without(Catalog, f.from), f.to, f.value)
    <3>1. DraftCatalog(f) = ServerSaved(f)
      BY <1>4, Zenon DEF DraftCatalog
    <3> QED BY <3>1 DEF ServerSaved
  <2>2. /\ Without(Catalog, f.from) \in Maps(Keys, Rows)
        /\ DOMAIN Without(Catalog, f.from) = DOMAIN Catalog \ {f.from}
    BY <1>1, WithoutType
  <2>3. /\ DraftCatalog(f) \in Maps(Keys, Rows)
        /\ DOMAIN DraftCatalog(f) = (DOMAIN Catalog \ {f.from}) \cup {f.to}
    <3>1. f.to \in Keys /\ f.value \in Rows
      BY <1>4
    <3> DEFINE rest == Without(Catalog, f.from)
    <3> HIDE DEF rest
    <3>2. DraftCatalog(f) \in Maps(Keys, Rows)
          /\ DOMAIN DraftCatalog(f) = DOMAIN rest \cup {f.to}
      BY <2>1, <2>2, <3>1, PutType DEF rest
    <3> QED BY <2>2, <3>2 DEF rest
  <2> QED BY <1>3, <1>4, <2>3 DEF Catalogs
<1>5. CASE f.op = "dropMcp"
  <2>1. DraftCatalog(f) = Without(Catalog, f.from)
    BY <1>5, Zenon DEF DraftCatalog
  <2>2. /\ Without(Catalog, f.from) \in Maps(Keys, Rows)
        /\ DOMAIN Without(Catalog, f.from) = DOMAIN Catalog \ {f.from}
    BY <1>1, WithoutType
  <2> QED BY <1>3, <1>5, <2>1, <2>2 DEF Catalogs
<1>6. ASSUME f.op \notin {"agent", "mcp", "dropMcp"}
      PROVE  /\ DraftRoster(f) \in Rosters /\ DraftRoster(f).agents = Roster.agents
             /\ DraftCatalog(f) = Catalog
  <2>1. DraftCatalog(f) = Catalog
    BY <1>6, Zenon DEF DraftCatalog
  <2>2. CASE f.op = "defaults"
    <3>1. DraftRoster(f) = DefaultsSaved(f)
      BY <2>2, Zenon DEF DraftRoster
    <3> QED BY <1>1, <2>1, <2>2, <3>1 DEF DefaultsSaved, Rosters
  <2>3. CASE f.op = "partner"
    <3>1. DraftRoster(f) = PartnerSaved(f)
      BY <2>3, Zenon DEF DraftRoster
    <3> QED BY <1>1, <2>1, <2>3, <3>1 DEF PartnerSaved, Rosters
  <2>4. CASE f.op = "dropPartner"
    <3>1. DraftRoster(f) = PartnerDeleted(f)
      BY <2>4, Zenon DEF DraftRoster
    <3> QED BY <1>1, <2>1, <2>4, <3>1 DEF PartnerDeleted, Rosters
  <2>5. CASE f.op = "enable"
    <3>1. DraftRoster(f) = Seeded
      BY <2>5, Zenon DEF DraftRoster
    <3> QED BY <1>1, <2>1, <2>5, <3>1 DEF Seeded, Rosters
  <2>6. CASE f.op \in {"knowledge", "dropKnowledge", "disable"}
    <3>1. DraftRoster(f) = Roster
      <4>1. CASE f.op = "knowledge"
        BY <4>1, Zenon DEF DraftRoster
      <4>2. CASE f.op = "dropKnowledge"
        BY <4>2, Zenon DEF DraftRoster
      <4>3. CASE f.op = "disable"
        BY <4>3, Zenon DEF DraftRoster
      <4> QED BY <2>6, <4>1, <4>2, <4>3
    <3> QED BY <1>1, <2>1, <3>1
  <2> QED BY <1>6, <2>2, <2>3, <2>4, <2>5, <2>6
<1>7. CASE f.op \notin {"agent", "mcp", "dropMcp"}
  BY <1>1, <1>6, <1>7
<1> QED BY <1>2, <1>4, <1>5, <1>7

RequestTypeOK ==
    /\ form \in Forms \cup {NoForm} /\ todo \in Seq(StepNames)
    /\ draft.roster \in Rosters /\ draft.catalog \in Catalogs
    /\ result \in {"none", "going", "saved", "failed", "refused"}
    /\ todo # << >> => result = "going"
    /\ requests \in 0..MaxRequests

(* TypeOK, part by part.                                                   *)
LEMMA TypeParts ==
    TypeOK <=> /\ FilesTypeOK /\ AgentTypeOK /\ RequestTypeOK /\ mishaps \in 0..MaxMishaps
BY DEF TypeOK, RequestTypeOK

(* Empty files are files.                                                  *)
LEMMA EmptyTypes ==
    /\ NoDraft.roster \in Rosters /\ NoDraft.catalog \in Catalogs
    /\ Kept.roster \in Rosters /\ Kept.catalog \in Catalogs
<1>1. << >> \in Maps(Emails, AgentDefs) /\ << >> \in Maps(Keys, Rows)
  <2>1. DOMAIN << >> = {} /\ << >> \in [DOMAIN << >> -> AgentDefs]
        /\ << >> \in [DOMAIN << >> -> Rows]
    OBVIOUS
  <2> QED BY <2>1, MapType
<1> QED BY <1>1 DEF NoDraft, Kept, EmptyRoster, EmptyCatalog, Rosters, Catalogs

(* The deployment to start from is well typed, and nothing is planned.     *)
LEMMA TypeInit == Init => TypeOK /\ PlanInv
<1> SUFFICES ASSUME Init PROVE TypeOK /\ PlanInv
  OBVIOUS
<1> USE FilesAssumption, DeploymentAssumption, MishapsAssumption, FormsAssumption
<1>1. (CHOOSE p \in Passwords : TRUE) \in Passwords
  OBVIOUS
<1>2. DOMAIN InitialRoster.agents \subseteq Emails
  BY MapType DEF Rosters
<1>3. secrets \in [{Stem[e] : e \in Emails} -> Passwords \cup {None}]
  BY <1>1 DEF Init, FilesInit
<1>4. services \subseteq Emails /\ enabled \in BOOLEAN
  BY <1>2 DEF Init, FilesInit
<1>5. accounts \in [Emails -> Passwords \cup {None}]
  BY <1>3, <1>4 DEF Init, FilesInit
<1>6. FilesTypeOK
  BY <1>3, <1>4, <1>5 DEF Init, FilesInit, FilesTypeOK, Whole
<1>7. AgentTypeOK
  <2>1. AgentInit
    BY DEF Init
  <2>2. DOMAIN registry = {} /\ DOMAIN cache = {} /\ prompt \in [Names -> Texts \cup {None}]
    BY <2>1 DEF AgentInit
  <2>3. {rosterNew, catalogNew, recording, knowledgeNew, queued} \subseteq BOOLEAN
    BY <2>1 DEF AgentInit
  <2> QED BY <2>1, <2>2, <2>3 DEF AgentInit, AgentTypeOK
<1>8. RequestTypeOK
  BY EmptyTypes DEF Init, RequestTypeOK
<1>9. mishaps \in 0..MaxMishaps
  BY DEF Init, AgentInit
<1>10. PlanInv
  BY DEF Init, PlanInv, InOrder, Serves
<1> QED BY <1>6, <1>7, <1>8, <1>9, <1>10, TypeParts

(* A form that is taken up gets a plan of its own.                         *)
LEMMA HandleType ==
    ASSUME TypeOK, PlanInv, NEW f \in Forms, NEW again, result # "going",
           requests < MaxRequests, Handle(f, again)
    PROVE  TypeOK' /\ PlanInv'
<1> USE FormsAssumption
<1>1. FilesTypeOK' /\ AgentTypeOK' /\ mishaps' \in 0..MaxMishaps
  BY DEF TypeOK, Handle, FilesTypeOK, AgentTypeOK, files, agentVars, agent, times,
         mind, sighup
<1>2. requests' \in 0..MaxRequests /\ form' = f /\ todo = << >>
  BY DEF TypeOK, Handle
<1>3. CASE Refuses(f)
  <2>1. result' = "refused" /\ UNCHANGED <<todo, draft>>
    BY <1>3 DEF Handle
  <2>2. RequestTypeOK'
    BY <1>2, <2>1 DEF TypeOK, RequestTypeOK
  <2>3. PlanInv'
    BY <1>2, <2>1 DEF PlanInv, InOrder, Serves
  <2> QED BY <1>1, <2>2, <2>3, TypeParts DEF TypeOK, RequestTypeOK
<1>4. CASE ~Refuses(f)
  <2>1. result' = "going" /\ todo' = Steps(f)
        /\ draft'.roster = DraftRoster(f) /\ draft'.catalog = DraftCatalog(f)
    BY <1>4 DEF Handle
  <2>2. GoodPlan(Steps(f), f)
    BY PlansOK
  <2>3. DraftRoster(f) \in Rosters /\ DraftCatalog(f) \in Catalogs
    BY DraftType DEF TypeOK
  <2>4. RequestTypeOK'
    BY <1>2, <2>1, <2>2, <2>3 DEF RequestTypeOK, GoodPlan, Piece
  <2>5. PlanInv'
    BY <1>2, <2>1, <2>2 DEF PlanInv, GoodPlan, Piece
  <2> QED BY <1>1, <2>4, <2>5, TypeParts DEF TypeOK, RequestTypeOK
<1> QED BY <1>3, <1>4

(* A step that is done leaves the rest of the plan.                        *)
LEMMA RestType ==
    ASSUME TypeOK, PlanInv, todo # << >>,
           Done \/ (todo' = Tail(todo) /\ UNCHANGED <<form, draft, result, requests>>)
    PROVE  RequestTypeOK' /\ PlanInv'
<1>1. todo \in Seq(StepNames) /\ result = "going"
  BY DEF TypeOK
<1>2. todo' = Tail(todo) /\ form' = form /\ requests' = requests
  BY DEF Done
<1>3. Tail(todo) \in Seq(StepNames) /\ InOrder(Tail(todo)) /\ Serves(Tail(todo), form)
  BY <1>1, TailOf, TailKeepsPlan DEF PlanInv
<1>4. draft'.roster \in Rosters /\ draft'.catalog \in Catalogs
  <2>1. draft' = Kept \/ draft' = draft
    BY DEF Done
  <2> QED BY <2>1, EmptyTypes DEF TypeOK
<1>5. result' \in {"saved", "going"} /\ (todo' # << >> => result' = "going")
  <2>1. CASE Done
    <3>1. Len(todo) = 1 => Tail(todo) = << >>
      BY <1>1, TailOf, EmptySeq
    <3> QED BY <1>2, <2>1, <3>1 DEF Done
  <2>2. CASE UNCHANGED result
    BY <1>1, <2>2
  <2> QED BY <2>1, <2>2
<1> QED BY <1>2, <1>3, <1>4, <1>5 DEF TypeOK, RequestTypeOK, PlanInv

(* Assembling the tools keeps their types.                                 *)
LEMMA BuildType ==
    ASSUME AgentTypeOK, mishaps \in 0..MaxMishaps, NEW keys, keys \subseteq Keys \cup BuiltIn,
           NEW cat, DOMAIN cat \subseteq Keys, BuildAgentTools(keys, cat)
    PROVE  /\ DOMAIN cache' \subseteq Keys \cup BuiltIn
           /\ retry' \in BOOLEAN /\ mishaps' \in 0..MaxMishaps
<1> DEFINE fetched == {k \in keys : ~Cached(cat, k) /\ k \in BuiltIn \cup DOMAIN registry'}
<1>1. PICK down \in SUBSET (fetched \cap Servers) :
        /\ mishaps + Cardinality(down) <= MaxMishaps
        /\ mishaps' = mishaps + Cardinality(down)
        /\ \E missing \in SUBSET down :
             /\ DOMAIN cache' = {k \in keys : Cached(cat, k)} \cup (fetched \ missing)
             /\ Rearm(missing)
  BY DEF BuildAgentTools
<1>2. Cardinality(down) \in Nat
  <2>1. down \subseteq Keys \cup Spawned
    BY DEF Servers
  <2>2. IsFiniteSet(down)
    BY <2>1, FilesAssumption, FS_Subset, FS_Union
  <2> QED BY <2>2, FS_CardinalityType
<1>3. mishaps' \in 0..MaxMishaps
  BY <1>1, <1>2, MishapsAssumption
<1>4. retry' \in BOOLEAN
  BY <1>1 DEF Rearm
<1>5. DOMAIN cache' \subseteq keys
  BY <1>1
<1> QED BY <1>3, <1>4, <1>5

(* An agent is told to use keys.                                           *)
LEMMA AssignedType ==
    ASSUME NEW r, r \in Rosters, NEW e
    PROVE  AssignedKeys(r, e) \subseteq Keys \cup BuiltIn
<1>1. r.agents \in Maps(Emails, AgentDefs)
  BY DEF Rosters
<1>2. r.agents \in [DOMAIN r.agents -> AgentDefs]
  BY <1>1, MapType
<1> QED BY <1>2 DEF AssignedKeys, AgentDefs

(* Steps of the agent.                                                     *)
LEMMA AgentStepType ==
    ASSUME FilesTypeOK, AgentTypeOK, mishaps \in 0..MaxMishaps, AgentStep \/ Restart
    PROVE  FilesTypeOK' /\ AgentTypeOK' /\ mishaps' \in 0..MaxMishaps
<1> USE DEF AgentTypeOK, files, agent, times, mind, sighup
<1>1. FilesTypeOK'
  BY DEF AgentStep, ToolStep, KnowledgeStep, Load, InitTools, InitKnowledge, Started,
         StartReload, ReloadRoster, ReloadCatalog, ApplyKnowledge, RecordKnowledge,
         Restart, FilesTypeOK
<1>2. /\ ReadRoster(roster) \in Rosters /\ ReadCatalog(catalog) \in Catalogs
      /\ EmptyCatalog \in Catalogs
  BY ReadType, EmptyTypes DEF Roster, Catalog, NoDraft
<1>3. \A c \in Catalogs : DOMAIN c \subseteq Keys
  BY MapType DEF Catalogs
<1>4. \A c, k : RegisterMCPServers(c) /\ c \in Catalogs => DOMAIN registry' \subseteq Keys
  BY <1>3 DEF RegisterMCPServers
<1>5. AssignedKeys(ReadRoster(roster), Self) \subseteq Keys \cup BuiltIn
  BY <1>2, AssignedType
<1>6. CASE Load
  <2>1. DOMAIN registry' \subseteq Keys
    BY <1>2, <1>4, <1>6 DEF Load
  <2>2. UNCHANGED <<cache, retry, reload, times, mind, sighup, mishaps>> /\ pc' = "registered"
        /\ assigned' \subseteq Keys \cup BuiltIn /\ pc = "boot"
    BY <1>5, <1>6 DEF Load
  <2> QED BY <1>1, <2>1, <2>2
<1>7. CASE InitTools
  <2>1. PICK cat : cat \in Catalogs /\ BuildAgentTools(assigned, cat)
    BY <1>2, <1>7 DEF InitTools
  <2>2. /\ DOMAIN cache' \subseteq Keys \cup BuiltIn
        /\ retry' \in BOOLEAN /\ mishaps' \in 0..MaxMishaps
    BY <1>3, <2>1, BuildType
  <2> QED BY <1>1, <1>7, <2>2 DEF InitTools
<1>8. CASE InitKnowledge
  BY <1>1, <1>8 DEF InitKnowledge, FilesTypeOK
<1>9. CASE Started
  BY <1>1, <1>9 DEF Started
<1>10. CASE StartReload
  BY <1>1, <1>10 DEF StartReload, RecordTimes, NextHup
<1>11. CASE ReloadRoster
  BY <1>1, <1>5, <1>11 DEF ReloadRoster
<1>12. CASE ReloadCatalog
  <2>1. CASE Parses(catalog)
    <3>1. PICK cat : cat \in Catalogs /\ BuildAgentTools(assigned, cat)
                     /\ RegisterMCPServers(cat)
      BY <1>2, <1>12, <2>1 DEF ReloadCatalog
    <3>2. /\ DOMAIN cache' \subseteq Keys \cup BuiltIn
          /\ retry' \in BOOLEAN /\ mishaps' \in 0..MaxMishaps
      BY <1>3, <3>1, BuildType
    <3>3. DOMAIN registry' \subseteq Keys
      BY <1>4, <3>1
    <3> QED BY <1>1, <1>12, <3>2, <3>3 DEF ReloadCatalog
  <2>2. CASE ~Parses(catalog)
    BY <1>1, <1>12, <2>2 DEF ReloadCatalog
  <2> QED BY <2>1, <2>2
<1>13. CASE ApplyKnowledge
  BY <1>1, <1>13 DEF ApplyKnowledge, FilesTypeOK
<1>14. CASE RecordKnowledge
  BY <1>1, <1>14 DEF RecordKnowledge
<1>15. CASE Restart
  <2>1. mishaps' \in 0..MaxMishaps
    BY <1>15, MishapsAssumption DEF Restart
  <2>2. DOMAIN registry' = {} /\ DOMAIN cache' = {}
    BY <1>15 DEF Restart, Down
  <2>3. {rosterNew', catalogNew', recording', knowledgeNew', queued'} \subseteq BOOLEAN
    BY <1>15 DEF Restart, Down
  <2>4. AgentTypeOK'
    BY <1>15, <2>2, <2>3 DEF Restart, Down
  <2> QED BY <1>1, <2>1, <2>4
<1> QED
  BY <1>6, <1>7, <1>8, <1>9, <1>10, <1>11, <1>12, <1>13, <1>14, <1>15
     DEF AgentStep, ToolStep, KnowledgeStep

(* Steps of a handler.                                                     *)
LEMMA WriteType ==
    ASSUME TypeOK, PlanInv, WriteRoster \/ WriteCatalog
    PROVE  FilesTypeOK' /\ AgentTypeOK' /\ mishaps' \in 0..MaxMishaps
<1> USE DEF agent, times, mind, sighup
<1>1. FilesTypeOK'
  <2>1. CASE WriteRoster
    BY <2>1 DEF WriteRoster, TypeOK, FilesTypeOK, Whole
  <2>2. CASE WriteCatalog
    BY <2>2 DEF WriteCatalog, TypeOK, FilesTypeOK, Whole
  <2> QED BY <2>1, <2>2
<1>2. {rosterNew', catalogNew', recording', knowledgeNew', queued'} \subseteq BOOLEAN
  BY DEF WriteRoster, WriteCatalog, TypeOK, AgentTypeOK
<1>3. UNCHANGED <<agent, mind, sighup, mishaps>>
  BY DEF WriteRoster, WriteCatalog
<1>4. AgentTypeOK'
  BY <1>2, <1>3 DEF TypeOK, AgentTypeOK
<1> QED BY <1>1, <1>3, <1>4 DEF TypeOK

(* Passwords go to an agent the form names.                                *)
LEMMA SecretsType ==
    ASSUME TypeOK, PlanInv, WriteSecrets
    PROVE  FilesTypeOK' /\ AgentTypeOK' /\ mishaps' \in 0..MaxMishaps
<1> USE FormsAssumption, FormFields
<1>1. todo # << >> => 1 \in DOMAIN todo /\ Head(todo) = todo[1]
  BY TailOf DEF TypeOK
<1>2. form \in FormSet \cup {NoForm}
  BY DEF TypeOK
<1>3. NoForm.op = "none"
  BY DEF NoForm
<1>4. At("drop") => form.op = "agent" /\ form.from # None
  BY <1>1 DEF At, PlanInv, Serves
<1>5. At("password") => form.op = "agent"
  BY <1>1 DEF At, PlanInv, Serves
<1>6. At("drop") => form.from \in Emails
  BY <1>2, <1>3, <1>4
<1>7. At("password") => form.to \in Emails /\ form.value \in Passwords \cup {None}
  BY <1>2, <1>3, <1>5
<1>8. secrets' \in [{Stem[e] : e \in Emails} -> Passwords \cup {None}]
  BY <1>6, <1>7 DEF WriteSecrets, SetPassword, TypeOK, FilesTypeOK
<1>9. UNCHANGED <<roster, catalog, services, enabled, accounts, knowledge>>
  BY DEF WriteSecrets
<1>10. FilesTypeOK'
  BY <1>8, <1>9 DEF TypeOK, FilesTypeOK
<1> QED BY <1>10 DEF WriteSecrets, TypeOK, AgentTypeOK, agentVars, agent, times, mind, sighup

(* Services and mailboxes are those of addresses.                          *)
LEMMA DeployType ==
    ASSUME TypeOK, regenerateCompose \/ regenerateDmsAccounts \/ setEmailServiceDisabled
    PROVE  FilesTypeOK' /\ AgentTypeOK' /\ mishaps' \in 0..MaxMishaps
<1> USE DEF TypeOK
<1>1. AgentTypeOK' /\ mishaps' \in 0..MaxMishaps
  BY DEF regenerateCompose, regenerateDmsAccounts, setEmailServiceDisabled, AgentTypeOK,
         agentVars, agent, times, mind, sighup
<1>2. CASE regenerateCompose
  <2>1. DOMAIN Roster.agents \subseteq Emails
    BY ReadType, MapType
  <2> QED BY <1>1, <1>2, <2>1 DEF regenerateCompose, FilesTypeOK
<1>3. CASE regenerateDmsAccounts
  <2>1. Regenerated \in [Emails -> Passwords \cup {None}]
    BY DEF Regenerated, Password, FilesTypeOK
  <2>2. accounts' \in [Emails -> Passwords \cup {None}]
    BY <1>3, <2>1 DEF regenerateDmsAccounts, FilesTypeOK
  <2> QED BY <1>1, <1>3, <2>2 DEF regenerateDmsAccounts, FilesTypeOK
<1>4. CASE setEmailServiceDisabled
  BY <1>1, <1>4 DEF setEmailServiceDisabled, FilesTypeOK
<1> QED BY <1>2, <1>3, <1>4

(* Knowledge files are written under the name the form gives.              *)
LEMMA KnowledgeType ==
    ASSUME TypeOK, PlanInv, WriteKnowledge
    PROVE  FilesTypeOK' /\ AgentTypeOK' /\ mishaps' \in 0..MaxMishaps
<1> USE FormsAssumption, FormFields
<1>1. todo # << >> => 1 \in DOMAIN todo /\ Head(todo) = todo[1]
  BY TailOf DEF TypeOK
<1>2. form \in FormSet \cup {NoForm}
  BY DEF TypeOK
<1>3. NoForm.op = "none"
  BY DEF NoForm
<1>4. At("knowledge") => form.to \in Names /\ form.value \in Texts
  BY <1>1, <1>2, <1>3 DEF At, PlanInv, Serves
<1>5. At("unlink") => form.from \in Names
  BY <1>1, <1>2, <1>3 DEF At, PlanInv, Serves
<1>6. knowledge' \in [Names -> Texts \cup {None}]
  BY <1>4, <1>5 DEF WriteKnowledge, TypeOK, FilesTypeOK
<1>7. FilesTypeOK'
  BY <1>6 DEF WriteKnowledge, TypeOK, FilesTypeOK
<1>8. AgentTypeOK' /\ mishaps' \in 0..MaxMishaps
  BY DEF WriteKnowledge, TypeOK, AgentTypeOK, agent, times, sighup
<1> QED BY <1>7, <1>8

(* A signal reaches an agent that is up, or ends one that is not.          *)
LEMMA SignalType ==
    ASSUME TypeOK, Signal
    PROVE  FilesTypeOK' /\ AgentTypeOK' /\ mishaps' \in 0..MaxMishaps
<1> USE DEF TypeOK, agent, times, mind, sighup
<1>1. FilesTypeOK' /\ mishaps' \in 0..MaxMishaps
  BY DEF Signal, FilesTypeOK, files
<1>2. CASE UNCHANGED <<agent, times, mind, sighup>>
  BY <1>1, <1>2 DEF AgentTypeOK
<1>3. CASE TakeHup /\ pc = "up"
  BY <1>1, <1>3 DEF TakeHup, AgentTypeOK, FilesTypeOK
<1>4. CASE TakeHup /\ pc # "up"
  <2>1. Down /\ UNCHANGED <<times, prompt, knowledgeNew>>
    BY <1>4 DEF TakeHup
  <2>2. DOMAIN registry' = {} /\ DOMAIN cache' = {}
    BY <2>1 DEF Down
  <2>3. {rosterNew', catalogNew', recording', knowledgeNew', queued'} \subseteq BOOLEAN
    BY <2>1 DEF Down, AgentTypeOK
  <2>4. prompt' \in [Names -> Texts \cup {None}]
    BY <2>1 DEF AgentTypeOK
  <2>5. AgentTypeOK'
    BY <2>1, <2>2, <2>3, <2>4 DEF Down, AgentTypeOK
  <2> QED BY <1>1, <2>5
<1> QED BY <1>2, <1>3, <1>4 DEF Signal

(* What is edited by hand stays a roster or a catalog, or does not parse.  *)
LEMMA EditType ==
    ASSUME TypeOK, EditByHand
    PROVE  FilesTypeOK' /\ AgentTypeOK' /\ mishaps' \in 0..MaxMishaps
<1> USE DEF TypeOK, agent, mind, sighup
<1>1. mishaps' \in 0..MaxMishaps
  BY MishapsAssumption DEF EditByHand
<1>2. /\ roster' \in [state : {"whole", "torn", "broken"}, content : Rosters]
      /\ catalog' \in [state : {"whole", "torn", "broken"}, content : Catalogs]
  <2>1. Catalog \in Maps(Keys, Rows)
    BY ReadType
  <2>2. ASSUME NEW k, k \in DOMAIN Catalog PROVE [Catalog EXCEPT ![k] = "bad"] \in Catalogs
    <3>1. [Catalog EXCEPT ![k] = "bad"] \in [DOMAIN Catalog -> Rows]
      BY <2>1, <2>2, MapType, FilesAssumption
    <3> DEFINE c == [Catalog EXCEPT ![k] = "bad"]
    <3>2. DOMAIN c = DOMAIN Catalog /\ DOMAIN Catalog \subseteq Keys
      BY <2>1, MapType
    <3> HIDE DEF c
    <3>3. c \in Maps(Keys, Rows)
      BY <3>1, <3>2, MapType DEF c
    <3> QED BY <3>3 DEF Catalogs, c
  <2>3. CASE UNCHANGED <<catalog, catalogNew>>
    BY <2>3 DEF EditByHand, FilesTypeOK
  <2>4. CASE UNCHANGED <<roster, rosterNew>>
    BY <2>2, <2>4 DEF EditByHand, FilesTypeOK, Whole
  <2> QED BY <2>3, <2>4 DEF EditByHand
<1>3. FilesTypeOK'
  BY <1>2 DEF EditByHand, FilesTypeOK
<1>4. AgentTypeOK'
  BY DEF EditByHand, AgentTypeOK
<1> QED BY <1>1, <1>3, <1>4

(* Every step keeps the types and leaves a plan in order.                  *)
LEMMA TypeStep ==
    TypeOK /\ PlanInv /\ [Next]_vars => TypeOK' /\ PlanInv'
<1> SUFFICES ASSUME TypeOK, PlanInv, [Next]_vars PROVE TypeOK' /\ PlanInv'
  OBVIOUS
<1> USE DEF TypeOK
<1>1. ASSUME NEW f \in Forms, Submit(f) PROVE TypeOK' /\ PlanInv'
  BY <1>1, HandleType DEF Submit
<1>2. CASE Retry
  <2>1. form \in Forms
    BY <1>2 DEF Retry, NoForm
  <2>2. result # "going" /\ requests < MaxRequests /\ Handle(form, TRUE)
    BY <1>2 DEF Retry
  <2> QED BY <2>1, <2>2, HandleType
<1>3. ASSUME Done, todo # << >>,
             FilesTypeOK', AgentTypeOK', mishaps' \in 0..MaxMishaps
      PROVE  TypeOK' /\ PlanInv'
  BY <1>3, RestType, TypeParts DEF RequestTypeOK
<1>4. CASE WriteRoster \/ WriteCatalog
  BY <1>3, <1>4, WriteType DEF WriteRoster, WriteCatalog, At
<1>5. CASE WriteSecrets
  BY <1>3, <1>5, SecretsType DEF WriteSecrets, At
<1>6. CASE regenerateCompose \/ regenerateDmsAccounts \/ setEmailServiceDisabled
  BY <1>3, <1>6, DeployType
     DEF regenerateCompose, regenerateDmsAccounts, setEmailServiceDisabled, At
<1>7. CASE WriteKnowledge
  BY <1>3, <1>7, KnowledgeType DEF WriteKnowledge, At
<1>8. CASE Signal
  BY <1>3, <1>8, SignalType DEF Signal, At
<1>9. ASSUME UNCHANGED <<files, agent, times, mind, sighup>>
      PROVE  FilesTypeOK' /\ AgentTypeOK'
  BY <1>9 DEF FilesTypeOK, AgentTypeOK, files, agent, times, mind, sighup
<1>10. CASE LeaveOldFile
  <2>1. mishaps' \in 0..MaxMishaps
    BY <1>10, MishapsAssumption DEF LeaveOldFile
  <2>2. RequestTypeOK' /\ PlanInv'
    BY <1>10, RestType DEF LeaveOldFile, At
  <2> QED BY <1>9, <1>10, <2>1, <2>2 DEF LeaveOldFile, RequestTypeOK
<1>11. CASE Fail \/ Unreadable \/ Crash
  <2>1. mishaps' \in 0..MaxMishaps
    BY <1>11, MishapsAssumption DEF Fail, Unreadable, Crash, agentVars
  <2>2. FilesTypeOK' /\ AgentTypeOK'
    BY <1>9, <1>11 DEF Fail, Unreadable, Crash, agentVars
  <2>3. /\ todo' = << >> /\ draft' \in {Kept, NoDraft} /\ requests' = requests
        /\ result' \in {"failed", "none"} /\ form' \in {form, NoForm}
    BY <1>11 DEF Fail, Unreadable, Crash
  <2>4. draft'.roster \in Rosters /\ draft'.catalog \in Catalogs
    BY <2>3, EmptyTypes
  <2>5. todo' \in Seq(StepNames) /\ DOMAIN todo' = {}
    BY <2>3
  <2> QED BY <2>1, <2>2, <2>3, <2>4, <2>5 DEF PlanInv, InOrder, Serves
<1>12. ASSUME UNCHANGED request, FilesTypeOK', AgentTypeOK', mishaps' \in 0..MaxMishaps
       PROVE  TypeOK' /\ PlanInv'
  BY <1>12 DEF request, PlanInv
<1>13. CASE EditByHand
  BY <1>12, <1>13, EditType DEF EditByHand
<1>14. CASE Agent
  BY <1>12, <1>14, AgentStepType DEF Agent
<1>15. CASE UNCHANGED vars
  BY <1>9, <1>12, <1>15 DEF vars, agentVars
<1> QED
  BY <1>1, <1>2, <1>4, <1>5, <1>6, <1>7, <1>8, <1>10, <1>11, <1>13, <1>14, <1>15
     DEF Next, Step

(* TypeOK: the files, the agent and the request keep their types, whatever *)
(* forms, failed writes and edits by hand come in which order; in          *)
(* particular no step of a handler looks for a field its form lacks.       *)
THEOREM ConfiguratorTypes == Spec => []TypeOK
<1> QED BY TypeInit, TypeStep, PTL DEF Spec

(* The types, with the plan of the handler.                                *)
LEMMA TypesAndPlans == Spec => [](TypeOK /\ PlanInv)
<1> QED BY TypeInit, TypeStep, PTL DEF Spec

-----------------------------------------------------------------------------
(* The files after a save that did not fail.                               *)

SaveInv ==
    /\ result = "failed" => ~clean
    /\ TornInv /\ AssignmentsInv /\ DeployedInv

(* The deployment to start from is in order.                               *)
LEMMA SaveInit == Init => SaveInv
<1> SUFFICES ASSUME Init PROVE SaveInv
  OBVIOUS
<1> USE DeploymentAssumption
<1>1. /\ roster = Whole(InitialRoster) /\ catalog = Whole(InitialCatalog)
      /\ todo = << >> /\ result = "none"
  BY DEF Init, FilesInit
<1>2. \A x : ~Has(todo, x)
  BY <1>1 DEF Has
<1>3. NextRoster = InitialRoster /\ NextCatalog = InitialCatalog
  BY <1>1, <1>2 DEF NextRoster, NextCatalog, Whole
<1>4. TornInv
  BY <1>1 DEF TornInv, Whole
<1>5. AssignmentsInv
  BY <1>3 DEF AssignmentsInv, Resolve
<1>6. services = DOMAIN NextRoster.agents
  BY <1>3 DEF Init, FilesInit
<1>7. \A e \in DOMAIN NextRoster.agents : accounts[e] = Password(e)
  <2>1. DOMAIN InitialRoster.agents \subseteq Emails
    BY MapType DEF Rosters
  <2> QED BY <1>3, <1>6, <2>1 DEF Init, FilesInit, Password
<1>8. DeployedInv
  BY <1>1, <1>6, <1>7 DEF DeployedInv
<1> QED BY <1>1, <1>4, <1>5, <1>8 DEF SaveInv

(* Between saves, as long as none failed, the files are read as they are.  *)
LEMMA Settled ==
    ASSUME TypeOK, TornInv, clean, result # "going"
    PROVE  /\ todo = << >> /\ \A x : ~Has(todo, x)
           /\ roster.state # "torn" /\ catalog.state # "torn"
           /\ Roster = roster.content /\ Catalog = catalog.content
           /\ NextRoster = roster.content /\ NextCatalog = catalog.content
<1>1. todo = << >>
  BY DEF TypeOK
<1>2. \A x : ~Has(todo, x)
  BY <1>1 DEF Has
<1>3. roster.state # "torn" /\ catalog.state # "torn"
  BY <1>1 DEF TornInv, At
<1> QED BY <1>1, <1>2, <1>3
        DEF Roster, Catalog, ReadRoster, ReadCatalog, NextRoster, NextCatalog

(* The plan of a form resolves every key again ...                         *)
LEMMA HandleResolves ==
    ASSUME TypeOK, SaveInv, clean, result # "going", NEW f \in Forms, Offered(f),
           ~Refuses(f), NEW next, next \in {DraftRoster(f), roster.content},
           next = DraftRoster(f) \/ ~Has(Steps(f), "roster"),
           NEW cat, cat \in {DraftCatalog(f), catalog.content},
           cat = DraftCatalog(f) \/ ~Has(Steps(f), "catalog")
    PROVE  Resolve(next.agents, cat)
<1> USE FormsAssumption, FormFields
<1>1. f \in FormSet /\ FilesTypeOK
  BY DEF TypeOK
<1>2. Roster = roster.content /\ Catalog = catalog.content
  BY Settled DEF SaveInv
<1>3. Resolve(Roster.agents, Catalog)
  BY <1>2, Settled DEF SaveInv, AssignmentsInv
<1>4. /\ Roster.agents \in Maps(Emails, AgentDefs)
      /\ \A e \in DOMAIN Roster.agents : Roster.agents[e].tools \subseteq Keys \cup BuiltIn
  <2>1. Roster.agents \in Maps(Emails, AgentDefs)
    BY <1>1, ReadType
  <2>2. Roster.agents \in [DOMAIN Roster.agents -> AgentDefs]
    BY <2>1, MapType
  <2> QED BY <2>1, <2>2 DEF AgentDefs
<1>5. CASE f.op = "agent"
  <2>1. f.tools \subseteq BuiltIn \cup DOMAIN Catalog
    <3>1. AgentOffered(f)
      BY <1>5, Zenon DEF Offered
    <3> QED BY <3>1 DEF AgentOffered, loadToolRegistry, ShownCatalog, EmptyCatalog
  <2>2. Has(Steps(f), "roster")
    BY <1>1, <1>5, AgentPlan
  <2>3. next = AgentSaved(f) /\ cat = Catalog
    BY <1>1, <1>2, <1>5, <2>2, DraftType
  <2> QED BY <1>1, <1>3, <1>5, <2>1, <2>3, AgentSavedType DEF Resolve
<1>6. CASE f.op \in {"mcp", "dropMcp"}
  <2> DEFINE new == renameToolKey(Roster.agents, f.from, f.to)
  <2>1. f.to \in Keys \cup {None}
    BY <1>1, <1>6
  <2>2. /\ DOMAIN new = DOMAIN Roster.agents
        /\ \A e \in DOMAIN Roster.agents : \A k \in new[e].tools :
             k # None /\ (k = f.to \/ (k # f.from /\ k \in Roster.agents[e].tools))
    BY <1>4, <2>1, RenameType
  <2>3. cat = DraftCatalog(f)
    BY <1>1, <1>6, PlansOK
  <2>4. CASE next = DraftRoster(f)
    <3>1. next.agents = new
      BY <1>1, <1>6, <2>4, DraftType
    <3> HIDE DEF new
    <3>2. ASSUME NEW e \in DOMAIN new, NEW k \in new[e].tools
          PROVE  k \in BuiltIn \cup DOMAIN cat
      <4>1. k # None /\ (k = f.to \/ (k # f.from /\ k \in Roster.agents[e].tools))
        BY <2>2, <3>2
      <4>2. k = f.to \/ (k # f.from /\ k \in BuiltIn \cup DOMAIN Catalog)
        BY <1>3, <2>2, <4>1 DEF Resolve
      <4>3. f.op = "mcp" => DOMAIN cat = (DOMAIN Catalog \ {f.from}) \cup {f.to}
        BY <1>1, <2>3, DraftType
      <4>4. f.op = "dropMcp" => DOMAIN cat = DOMAIN Catalog \ {f.from} /\ f.to = None
        BY <1>1, <2>3, DraftType
      <4> QED BY <1>6, <4>1, <4>2, <4>3, <4>4
    <3> QED BY <3>1, <3>2 DEF Resolve
  <2>5. CASE next = Roster /\ ~Has(Steps(f), "roster")
    <3>1. /\ f.op = "mcp" /\ Renamed(f) => Uses(Roster, f.from) = {}
          /\ f.op = "dropMcp" => Uses(Roster, f.from) = {}
      BY <1>1, <2>5, PlansOK
    <3>2. ASSUME NEW e \in DOMAIN Roster.agents, NEW k \in Roster.agents[e].tools
          PROVE  k \in BuiltIn \cup DOMAIN cat
      <4>1. k \in BuiltIn \cup DOMAIN Catalog /\ k # None
        BY <1>3, <1>4, <3>2, FilesAssumption DEF Resolve
      <4>2. k = f.from => Uses(Roster, f.from) # {}
        BY <3>2 DEF Uses
      <4>3. f.op = "mcp" => DOMAIN cat = (DOMAIN Catalog \ {f.from}) \cup {f.to}
        BY <1>1, <2>3, DraftType
      <4>4. f.op = "dropMcp" => DOMAIN cat = DOMAIN Catalog \ {f.from}
        BY <1>1, <2>3, DraftType
      <4> QED BY <1>6, <3>1, <4>1, <4>2, <4>3, <4>4 DEF Renamed
    <3> QED BY <2>5, <3>2 DEF Resolve
  <2> QED BY <1>2, <2>4, <2>5
<1>7. CASE f.op \notin {"agent", "mcp", "dropMcp"}
  <2>1. next.agents = Roster.agents /\ cat = Catalog
    BY <1>1, <1>2, <1>7, DraftType
  <2> QED BY <1>3, <2>1
<1> QED BY <1>5, <1>6, <1>7

(* ... and deploys its agents: one that changes them writes them first,    *)
(* then the services and the mailboxes.                                    *)
LEMMA HandleDeploys ==
    ASSUME TypeOK, SaveInv, clean, NEW f \in Forms, Submit(f), ~Refuses(f)
    PROVE  DeployedInv'
<1> USE FormsAssumption
<1>1. f \in FormSet /\ FilesTypeOK /\ result # "going"
  BY DEF TypeOK, Submit
<1>2. /\ todo' = Steps(f) /\ draft'.roster = DraftRoster(f)
      /\ UNCHANGED <<roster, services, enabled, accounts, secrets>>
  BY DEF Submit, Handle, files
<1>3. CASE f.op = "agent"
  <2>1. /\ WritesAgentsFirst(todo')
        /\ Has(todo', "compose") /\ Has(todo', "accounts")
    BY <1>1, <1>2, <1>3, AgentPlan
  <2> QED BY <2>1 DEF DeployedInv, WritesAgentsFirst
<1>4. CASE f.op # "agent"
  <2>1. DOMAIN DraftRoster(f).agents = DOMAIN roster.content.agents
    BY <1>1, <1>4, DraftType, Settled DEF SaveInv
  <2>2. DOMAIN NextRoster'.agents = DOMAIN NextRoster.agents
    BY <1>1, <1>2, <2>1, Settled DEF NextRoster, SaveInv
  <2>3. SameAgents'
    BY <1>2, <2>1 DEF SameAgents
  <2>4. /\ services = DOMAIN NextRoster.agents
        /\ ~enabled \/ \A e \in DOMAIN NextRoster.agents :
                          Password(e) # None => accounts[e] = Password(e)
    BY <1>1, Settled DEF SaveInv, DeployedInv
  <2>5. services' = DOMAIN NextRoster'.agents
    BY <1>2, <2>2, <2>4
  <2>6. ~enabled' \/ \A e \in DOMAIN NextRoster'.agents :
                        Password(e)' # None => accounts'[e] = Password(e)'
    BY <1>2, <2>2, <2>4 DEF Password
  <2> QED BY <2>3, <2>5, <2>6 DEF DeployedInv
<1> QED BY <1>3, <1>4

(* A form sent keeps what is known of the files.                           *)
LEMMA SubmitKeepsSaves ==
    ASSUME TypeOK, SaveInv, NEW f \in Forms, Submit(f)
    PROVE  SaveInv'
<1>1. result # "going" /\ Offered(f) /\ clean' = clean /\ UNCHANGED files
  BY DEF Submit, Handle
<1>2. CASE Refuses(f)
  <2>1. result' = "refused" /\ UNCHANGED <<todo, draft, files, clean>>
    BY <1>2 DEF Submit, Handle
  <2>2. NextRoster' = NextRoster /\ NextCatalog' = NextCatalog
    BY <2>1 DEF NextRoster, NextCatalog, files
  <2>3. TornInv' /\ AssignmentsInv'
    BY <2>1, <2>2 DEF SaveInv, TornInv, AssignmentsInv, At, files
  <2>4. DeployedInv'
    BY <2>1, <2>2 DEF SaveInv, DeployedInv, SameAgents, Password, files
  <2> QED BY <2>1, <2>3, <2>4 DEF SaveInv
<1>3. CASE ~Refuses(f)
  <2>1. /\ result' = "going" /\ todo' = Steps(f)
        /\ draft'.roster = DraftRoster(f) /\ draft'.catalog = DraftCatalog(f)
    BY <1>3 DEF Submit, Handle
  <2>2. CASE clean
    <3>1. TornInv'
      BY <1>1, <2>2, Settled DEF TornInv, SaveInv, files
    <3>2. /\ NextRoster' \in {DraftRoster(f), roster.content}
          /\ NextRoster' = DraftRoster(f) \/ ~Has(Steps(f), "roster")
          /\ NextCatalog' \in {DraftCatalog(f), catalog.content}
          /\ NextCatalog' = DraftCatalog(f) \/ ~Has(Steps(f), "catalog")
      BY <1>1, <2>1 DEF NextRoster, NextCatalog, files
    <3> DEFINE next == NextRoster'
               cat == NextCatalog'
    <3>3. Resolve(next.agents, cat)
      <4> HIDE DEF next, cat
      <4> QED BY <1>1, <1>3, <2>2, <3>2, HandleResolves DEF next, cat
    <3>4. AssignmentsInv'
      BY <3>3 DEF AssignmentsInv
    <3> QED BY <1>3, <2>1, <2>2, <3>1, <3>4, HandleDeploys DEF SaveInv
  <2>3. CASE ~clean
    BY <1>1, <2>3 DEF SaveInv, TornInv, AssignmentsInv, DeployedInv
  <2> QED BY <2>2, <2>3
<1> QED BY <1>2, <1>3

(* What the steps of a handler do to the files, by their names.            *)
LEMMA Effects ==
    ASSUME TypeOK, (Step /\ ~Unreadable) \/ LeaveOldFile
    PROVE  /\ todo # << >> /\ todo' = Tail(todo) /\ clean' = clean
           /\ draft' = draft \/ todo' = << >>
           /\ result' # "failed"
           /\ Head(todo) = "openRoster" => roster' = [roster EXCEPT !.state = "torn"]
           /\ Head(todo) = "roster" => roster' = Whole(draft.roster)
           /\ Head(todo) \notin {"openRoster", "roster"} => UNCHANGED roster
           /\ Head(todo) = "openCatalog" => catalog' = [catalog EXCEPT !.state = "torn"]
           /\ Head(todo) = "catalog" => catalog' = Whole(draft.catalog)
           /\ Head(todo) \notin {"openCatalog", "catalog"} => UNCHANGED catalog
           /\ services' = IF Head(todo) = "compose" THEN DOMAIN Roster.agents ELSE services
           /\ accounts' = IF Head(todo) = "accounts" /\ enabled THEN Regenerated ELSE accounts
           /\ Head(todo) \notin {"drop", "password"} => UNCHANGED secrets
           /\ Head(todo) \notin {"enable", "disable"} => UNCHANGED enabled
           /\ Head(todo) = "disable" => enabled' = FALSE
<1>1. ASSUME Done, todo # << >>
      PROVE  /\ todo' = Tail(todo) /\ clean' = clean /\ result' # "failed"
             /\ draft' = draft \/ todo' = << >>
  <2>1. todo \in Seq(StepNames)
    BY DEF TypeOK
  <2>2. Len(todo) = 1 => Tail(todo) = << >>
    BY <1>1, <2>1, TailOf, EmptySeq
  <2> QED BY <1>1, <2>2 DEF Done
<1>2. CASE WriteRoster
  BY <1>1, <1>2 DEF WriteRoster, At
<1>3. CASE WriteCatalog
  BY <1>1, <1>3 DEF WriteCatalog, At
<1>4. CASE WriteSecrets
  BY <1>1, <1>4 DEF WriteSecrets, At
<1>5. CASE regenerateCompose
  BY <1>1, <1>5 DEF regenerateCompose, At
<1>6. CASE regenerateDmsAccounts
  BY <1>1, <1>6 DEF regenerateDmsAccounts, At
<1>7. CASE setEmailServiceDisabled
  BY <1>1, <1>7 DEF setEmailServiceDisabled, At
<1>8. CASE WriteKnowledge
  BY <1>1, <1>8 DEF WriteKnowledge, At
<1>9. CASE Signal
  BY <1>1, <1>9 DEF Signal, At, files
<1>10. CASE LeaveOldFile
  BY <1>10 DEF LeaveOldFile, At, files, TypeOK
<1> QED BY <1>2, <1>3, <1>4, <1>5, <1>6, <1>7, <1>8, <1>9, <1>10 DEF Step

(* What becomes of the contents and states of the two YAML files.          *)
LEMMA FileEffects ==
    ASSUME TypeOK, (Step /\ ~Unreadable) \/ LeaveOldFile
    PROVE  /\ roster'.content = IF Head(todo) = "roster" THEN draft.roster ELSE roster.content
           /\ catalog'.content = IF Head(todo) = "catalog" THEN draft.catalog ELSE catalog.content
           /\ roster'.state = "torn" => Head(todo) = "openRoster"
                                           \/ (roster.state = "torn" /\ Head(todo) # "roster")
           /\ catalog'.state = "torn" => Head(todo) = "openCatalog"
                                           \/ (catalog.state = "torn" /\ Head(todo) # "catalog")
<1> DEFINE FileSet(S) == [state : {"whole", "torn", "broken"}, content : S]
<1>1. roster \in FileSet(Rosters) /\ catalog \in FileSet(Catalogs)
  BY DEF TypeOK, FilesTypeOK
<1>2. ASSUME NEW S, NEW file \in FileSet(S)
      PROVE  [file EXCEPT !.state = "torn"].content = file.content
  BY <1>2
<1>3. ASSUME NEW c PROVE Whole(c).content = c /\ Whole(c).state # "torn"
  BY DEF Whole
<1> HIDE DEF FileSet
<1>4. roster'.content = IF Head(todo) = "roster" THEN draft.roster ELSE roster.content
  <2>1. CASE Head(todo) = "roster"
    BY <1>3, <2>1, Effects
  <2>2. CASE Head(todo) = "openRoster"
    <3>1. roster' = [roster EXCEPT !.state = "torn"]
      BY <2>2, Effects
    <3> QED BY <1>1, <1>2, <2>2, <3>1
  <2>3. CASE Head(todo) \notin {"openRoster", "roster"}
    BY <2>3, Effects
  <2> QED BY <2>1, <2>2, <2>3
<1>5. catalog'.content = IF Head(todo) = "catalog" THEN draft.catalog ELSE catalog.content
  <2>1. CASE Head(todo) = "catalog"
    BY <1>3, <2>1, Effects
  <2>2. CASE Head(todo) = "openCatalog"
    <3>1. catalog' = [catalog EXCEPT !.state = "torn"]
      BY <2>2, Effects
    <3> QED BY <1>1, <1>2, <2>2, <3>1
  <2>3. CASE Head(todo) \notin {"openCatalog", "catalog"}
    BY <2>3, Effects
  <2> QED BY <2>1, <2>2, <2>3
<1>6. roster'.state = "torn" => Head(todo) = "openRoster"
                                 \/ (roster.state = "torn" /\ Head(todo) # "roster")
  <2>1. CASE Head(todo) = "roster"
    BY <1>3, <2>1, Effects
  <2>2. CASE Head(todo) \notin {"openRoster", "roster"}
    BY <2>2, Effects
  <2> QED BY <2>1, <2>2
<1>7. catalog'.state = "torn" => Head(todo) = "openCatalog"
                                 \/ (catalog.state = "torn" /\ Head(todo) # "catalog")
  <2>1. CASE Head(todo) = "catalog"
    BY <1>3, <2>1, Effects
  <2>2. CASE Head(todo) \notin {"openCatalog", "catalog"}
    BY <2>2, Effects
  <2> QED BY <2>1, <2>2
<1> QED BY <1>4, <1>5, <1>6, <1>7

(* A step brings the files nearer to what they will be, which it keeps.    *)
LEMMA StepKeepsNext ==
    ASSUME TypeOK, (Step /\ ~Unreadable) \/ LeaveOldFile
    PROVE  NextRoster' = NextRoster /\ NextCatalog' = NextCatalog
<1>1. /\ todo \in Seq(StepNames) /\ todo # << >> /\ todo' = Tail(todo)
      /\ draft' = draft \/ todo' = << >>
  BY Effects DEF TypeOK
<1>2. /\ roster'.content = IF Head(todo) = "roster" THEN draft.roster ELSE roster.content
      /\ catalog'.content = IF Head(todo) = "catalog" THEN draft.catalog ELSE catalog.content
  BY FileEffects
<1>3. \A x : Has(todo, x) <=> Head(todo) = x \/ Has(todo', x)
  BY <1>1, TailHas
<1>4. \A x : Has(todo', x) => draft' = draft
  BY <1>1 DEF Has
<1> QED BY <1>2, <1>3, <1>4 DEF NextRoster, NextCatalog

(* A truncated file is the one to be filled next.                          *)
LEMMA StepKeepsTorn ==
    ASSUME TypeOK, PlanInv, TornInv, (Step /\ ~Unreadable) \/ LeaveOldFile
    PROVE  TornInv'
<1> SUFFICES ASSUME clean
             PROVE  /\ roster'.state = "torn" => At("roster")'
                    /\ catalog'.state = "torn" => At("catalog")'
  BY Effects DEF TornInv
<1>1. todo \in Seq(StepNames) /\ todo # << >> /\ todo' = Tail(todo)
  BY Effects DEF TypeOK
<1>2. /\ roster.state = "torn" => Head(todo) = "roster"
      /\ catalog.state = "torn" => Head(todo) = "catalog"
  BY DEF TornInv, At
<1>3. ASSUME NEW step, Follows(todo, 1, step)
      PROVE  At(step)'
  <2>1. 2 \in DOMAIN todo /\ todo[2] = step
    BY <1>3 DEF Follows
  <2>2. 1 \in DOMAIN Tail(todo) /\ Tail(todo)[1] = step
    BY <1>1, <2>1, TailOf
  <2>3. Tail(todo) \in Seq(StepNames) /\ Tail(todo) # << >>
    BY <1>1, <2>2, TailOf
  <2>4. Head(Tail(todo)) = Tail(todo)[1]
    BY <2>3, TailOf
  <2> QED BY <1>1, <2>2, <2>3, <2>4 DEF At
<1>4. /\ Head(todo) = "openRoster" => At("roster")'
      /\ Head(todo) = "openCatalog" => At("catalog")'
  BY <1>1, <1>3, TailOf DEF PlanInv, InOrder
<1>5. roster'.state = "torn" => Head(todo) = "openRoster"
  BY <1>2, FileEffects
<1>6. catalog'.state = "torn" => Head(todo) = "openCatalog"
  BY <1>2, FileEffects
<1> QED BY <1>4, <1>5, <1>6

(* The agents to come are deployed, or will be.                            *)
LEMMA StepKeepsDeployed ==
    ASSUME TypeOK, PlanInv, TornInv, DeployedInv, (Step /\ ~Unreadable) \/ LeaveOldFile
    PROVE  DeployedInv'
<1> DEFINE agents == DOMAIN NextRoster.agents
           mailboxes == \A e \in agents : Password(e) # None => accounts[e] = Password(e)
<1> SUFFICES ASSUME clean
             PROVE  /\ Has(todo', "compose") \/ services' = DOMAIN NextRoster'.agents
                    /\ \/ Has(todo', "accounts") \/ ~enabled'
                       \/ \A e \in DOMAIN NextRoster'.agents :
                            Password(e)' # None => accounts'[e] = Password(e)'
                    /\ \A i, j \in DOMAIN todo' :
                         i < j /\ todo'[i] \in {"compose", "accounts"} /\ todo'[j] = "roster"
                            => SameAgents'
  BY Effects DEF DeployedInv
<1>1. /\ todo \in Seq(StepNames) /\ todo # << >> /\ todo' = Tail(todo)
      /\ draft' = draft \/ todo' = << >>
      /\ NextRoster' = NextRoster
  BY Effects, StepKeepsNext DEF TypeOK
<1>2. \A x : Has(todo, x) <=> Head(todo) = x \/ Has(todo', x)
  BY <1>1, TailHas
<1>3. /\ Has(todo, "compose") \/ services = agents
      /\ Has(todo, "accounts") \/ ~enabled \/ mailboxes
  BY DEF DeployedInv
<1>4. ASSUME Head(todo) \in {"compose", "accounts"}
      PROVE  DOMAIN Roster.agents = agents
  <2>1. Roster = roster.content
    BY <1>4 DEF TornInv, At, Roster, ReadRoster
  <2>2. CASE Has(todo', "roster")
    <3>1. PICK k \in DOMAIN Tail(todo) : Tail(todo)[k] = "roster"
      BY <1>1, <2>2 DEF Has
    <3>2. /\ 1 \in DOMAIN todo /\ todo[1] = Head(todo)
          /\ k + 1 \in DOMAIN todo /\ todo[k + 1] = "roster"
      BY <1>1, <3>1, TailOf
    <3>3. k \in Nat /\ k > 0
      BY <1>1, <3>1, TailOf
    <3>4. 1 < k + 1
      BY <3>3
    <3>5. SameAgents
      BY <1>4, <3>2, <3>4 DEF DeployedInv
    <3>6. NextRoster = draft.roster
      BY <1>2, <2>2 DEF NextRoster
    <3> QED BY <2>1, <3>5, <3>6 DEF SameAgents
  <2>3. CASE ~Has(todo', "roster")
    <3>1. NextRoster = roster.content
      BY <1>2, <1>4, <2>3 DEF NextRoster
    <3> QED BY <2>1, <3>1
  <2> QED BY <2>2, <2>3
<1>5. Has(todo', "compose") \/ services' = agents
  <2>1. CASE Head(todo) = "compose"
    BY <1>4, <2>1, Effects
  <2>2. CASE Head(todo) # "compose"
    BY <1>2, <1>3, <2>2, Effects
  <2> QED BY <2>1, <2>2
<1>6. \/ Has(todo', "accounts") \/ ~enabled'
      \/ \A e \in agents : secrets'[Stem[e]] # None => accounts'[e] = secrets'[Stem[e]]
  <2>1. CASE Head(todo) = "accounts"
    <3>1. UNCHANGED <<secrets, enabled>>
      BY <2>1, Effects
    <3>2. ASSUME enabled, NEW e \in agents, secrets[Stem[e]] # None
          PROVE  accounts'[e] = secrets[Stem[e]]
      <4>1. e \in DOMAIN Roster.agents
        BY <1>4, <2>1, <3>2
      <4>2. e \in Emails
        BY <4>1, ReadType, MapType DEF TypeOK
      <4>3. accounts' = Regenerated
        BY <2>1, <3>2, Effects
      <4> QED BY <3>2, <4>1, <4>2, <4>3 DEF Regenerated, Password
    <3> QED BY <3>1, <3>2
  <2>2. CASE Head(todo) \in {"drop", "password", "enable"}
    <3>1. 1 \in DOMAIN todo /\ todo[1] = Head(todo)
      BY <1>1, TailOf
    <3>2. Has(todo, "accounts")
      BY <2>2, <3>1 DEF PlanInv, InOrder, Has
    <3> QED BY <1>2, <2>2, <3>2
  <2>3. CASE Head(todo) = "disable"
    BY <2>3, Effects
  <2>4. CASE Head(todo) \notin {"accounts", "drop", "password", "enable", "disable"}
    <3>1. UNCHANGED <<secrets, enabled, accounts>>
      BY <2>4, Effects
    <3> QED BY <1>2, <1>3, <2>4, <3>1 DEF Password
  <2> QED BY <2>1, <2>2, <2>3, <2>4
<1>7. ASSUME NEW i \in DOMAIN todo', NEW j \in DOMAIN todo',
             i < j, todo'[i] \in {"compose", "accounts"}, todo'[j] = "roster"
      PROVE  SameAgents'
  <2>1. draft' = draft
    BY <1>1, <1>7
  <2>2. CASE Head(todo) = "roster"
    BY <2>1, <2>2, FileEffects DEF SameAgents
  <2>3. CASE Head(todo) # "roster"
    <3>1. /\ i + 1 \in DOMAIN todo /\ todo[i + 1] \in {"compose", "accounts"}
          /\ j + 1 \in DOMAIN todo /\ todo[j + 1] = "roster"
      BY <1>1, <1>7, TailOf
    <3>2. i \in Int /\ j \in Int
      BY <1>1, <1>7, TailOf
    <3>3. i + 1 < j + 1
      BY <1>7, <3>2
    <3>4. SameAgents
      BY <3>1, <3>3 DEF DeployedInv
    <3>5. roster'.content = roster.content
      BY <2>3, FileEffects
    <3> QED BY <2>1, <3>4, <3>5 DEF SameAgents
  <2> QED BY <2>2, <2>3
<1> QED BY <1>1, <1>5, <1>6, <1>7 DEF Password

(* SaveInv is kept by every step: a failed write or a crash ends what it   *)
(* promises, an edit by hand leaves agents and keys as they are.           *)
LEMMA SaveStep ==
    TypeOK /\ PlanInv /\ SaveInv /\ [Next]_vars => SaveInv'
<1> SUFFICES ASSUME TypeOK, PlanInv, SaveInv, [Next]_vars PROVE SaveInv'
  OBVIOUS
<1>1. ASSUME NEW f \in Forms, Submit(f) PROVE SaveInv'
  BY <1>1, SubmitKeepsSaves
<1>2. ASSUME ~clean' PROVE SaveInv'
  BY <1>2 DEF SaveInv, TornInv, AssignmentsInv, DeployedInv
<1>3. CASE Retry
  BY <1>2, <1>3 DEF Retry, Handle, SaveInv
<1>4. CASE (Step /\ ~Unreadable) \/ LeaveOldFile
  <2>1. result' # "failed" /\ clean' = clean
    BY <1>4, Effects
  <2>2. TornInv' /\ DeployedInv'
    BY <1>4, StepKeepsTorn, StepKeepsDeployed DEF SaveInv
  <2>3. AssignmentsInv'
    BY <1>4, <2>1, StepKeepsNext DEF SaveInv, AssignmentsInv
  <2> QED BY <2>1, <2>2, <2>3 DEF SaveInv
<1>5. CASE Fail \/ Unreadable \/ Crash
  BY <1>2, <1>5 DEF Fail, Unreadable, Crash
<1>6. CASE EditByHand
  <2>1. CASE ~clean
    BY <1>2, <1>6, <2>1 DEF EditByHand
  <2>2. CASE clean
    <3>1. /\ result # "going" /\ UNCHANGED <<secrets, services, enabled, accounts,
                                             todo, draft, result, clean>>
      BY <1>6 DEF EditByHand, request
    <3>2. /\ todo = << >> /\ roster.state # "torn" /\ catalog.state # "torn"
          /\ Catalog = catalog.content /\ \A x : ~Has(todo, x)
          /\ NextRoster = roster.content /\ NextCatalog = catalog.content
      BY <2>2, <3>1, Settled DEF SaveInv
    <3>3. roster'.state # "torn" /\ roster'.content = roster.content
      BY <1>6, <3>2 DEF EditByHand, TypeOK, FilesTypeOK
    <3>4. catalog'.state # "torn" /\ DOMAIN catalog'.content = DOMAIN catalog.content
      BY <1>6, <3>2 DEF EditByHand, Whole, TypeOK, FilesTypeOK
    <3>5. NextRoster' = NextRoster /\ NextCatalog' = catalog'.content
      BY <3>1, <3>2, <3>3 DEF NextRoster, NextCatalog
    <3>6. TornInv'
      BY <3>3, <3>4 DEF TornInv
    <3>7. AssignmentsInv'
      BY <3>1, <3>2, <3>4, <3>5 DEF SaveInv, AssignmentsInv, Resolve
    <3>8. DeployedInv'
      BY <3>1, <3>2, <3>5 DEF SaveInv, DeployedInv, Password
    <3> QED BY <2>2, <3>1, <3>6, <3>7, <3>8 DEF SaveInv
  <2> QED BY <2>1, <2>2
<1>7. ASSUME UNCHANGED <<files, request, clean>> PROVE SaveInv'
  <2>1. UNCHANGED <<roster, catalog, services, enabled, accounts, secrets,
                    todo, draft, result, clean>>
    BY <1>7 DEF files, request
  <2>2. NextRoster' = NextRoster /\ NextCatalog' = NextCatalog
    BY <2>1 DEF NextRoster, NextCatalog
  <2>3. TornInv' /\ AssignmentsInv'
    BY <2>1, <2>2 DEF SaveInv, TornInv, AssignmentsInv, At
  <2>4. DeployedInv'
    BY <2>1, <2>2 DEF SaveInv, DeployedInv, SameAgents, Password
  <2> QED BY <2>1, <2>3, <2>4 DEF SaveInv
<1>8. CASE Agent
  <2>1. UNCHANGED files
    BY <1>8 DEF Agent, AgentStep, ToolStep, KnowledgeStep, Load, InitTools, InitKnowledge,
                Started, StartReload, ReloadRoster, ReloadCatalog, ApplyKnowledge,
                RecordKnowledge, Restart
  <2> QED BY <1>7, <1>8, <2>1 DEF Agent
<1>9. CASE UNCHANGED vars
  BY <1>7, <1>9 DEF vars
<1> QED BY <1>1, <1>3, <1>4, <1>5, <1>6, <1>8, <1>9 DEF Next, Step

(* SaveInv holds throughout.                                               *)
LEMMA SavesKept == Spec => []SaveInv
<1> QED BY TypesAndPlans, SaveInit, SaveStep, PTL DEF Spec

(* AssignmentsResolve: as long as no save failed, no form, in whatever     *)
(* order they are sent, leaves an agent with a tool key nobody declares    *)
(* (renameToolKey, agentForm.save, handleMCPSave, handleMCPDelete).        *)
THEOREM AssignmentsAlwaysResolve == Spec => []AssignmentsResolve
<1>1. TypeOK /\ SaveInv => AssignmentsResolve
  BY Settled DEF SaveInv, AssignmentsInv, AssignmentsResolve, Resolve
<1> QED BY <1>1, TypesAndPlans, SavesKept, PTL

(* Deployed: as long as no save failed, the agents of the roster are the   *)
(* services and each can log in with the password it is started with       *)
(* (regenerateCompose, regenerateDmsAccounts).                             *)
THEOREM RosterIsDeployed == Spec => []Deployed
<1>1. TypeOK /\ SaveInv => Deployed
  BY Settled DEF SaveInv, DeployedInv, Deployed
<1> QED BY <1>1, TypesAndPlans, SavesKept, PTL

-----------------------------------------------------------------------------
(* The tools of a running agent.                                           *)

(* The tools are assembled from the catalog the registry mirrors, with     *)
(* what is cached for this very row or with a new fetch.                   *)
LEMMA BuildAssembles ==
    ASSUME CacheInv, NEW cat, cat \in Catalogs, NEW keys,
           registry' = [k \in Useful(cat) |-> cat[k]], BuildAgentTools(keys, cat)
    PROVE  CacheInv' /\ Assembled(keys, cat)'
<1> USE FilesAssumption
<1> DEFINE fetched == {k \in keys : ~Cached(cat, k) /\ k \in BuiltIn \cup DOMAIN registry'}
           kept == {k \in keys : Cached(cat, k)}
           offered == BuiltIn \cup Useful(cat)
<1>1. PICK down, missing :
        /\ down \in SUBSET (fetched \cap Servers)
        /\ missing = {k \in down : Signature(cat, k) # None}
        /\ cache' = [k \in kept \cup (fetched \ missing) |->
                       IF Cached(cat, k) THEN cache[k]
                       ELSE [sig |-> Signature(cat, k),
                             row |-> IF k \in down THEN None ELSE Row(k)]]
        /\ Rearm(missing)
  <2>1. PICK down \in SUBSET (fetched \cap Servers) :
          /\ cache' = [k \in kept \cup (fetched \ {k \in down : Signature(cat, k) # None}) |->
                         IF Cached(cat, k) THEN cache[k]
                         ELSE [sig |-> Signature(cat, k),
                               row |-> IF k \in down THEN None ELSE Row(k)]]
          /\ Rearm({k \in down : Signature(cat, k) # None})
    BY DEF BuildAgentTools
  <2> QED BY <2>1
<1>2. DOMAIN cat \subseteq Keys /\ \A k \in DOMAIN cat : cat[k] \in Rows
  BY MapType DEF Catalogs
<1>3. fetched = {k \in keys \cap offered : ~Cached(cat, k)}
  OBVIOUS
<1>4. DOMAIN cache' = kept \cup (fetched \ missing)
  BY <1>1
<1>5. ASSUME NEW k \in kept
      PROVE  /\ cache'[k] = cache[k] /\ k \in DOMAIN cache
             /\ cache[k].sig = Signature(cat, k) /\ k \in offered
  <2>1. k \in DOMAIN cache /\ cache[k].sig = Signature(cat, k) /\ cache'[k] = cache[k]
    BY <1>1, <1>5 DEF Cached
  <2>2. k \in BuiltIn \/ (cache[k].sig \in Rows /\ Usable(cache[k].sig))
    BY <2>1 DEF CacheInv
  <2> QED BY <2>1, <2>2 DEF Signature, Useful
<1>6. ASSUME NEW k \in fetched \ missing
      PROVE  /\ cache'[k] = [sig |-> Signature(cat, k),
                             row |-> IF k \in down THEN None ELSE Row(k)]
             /\ k \in offered /\ (k \in down => k \in Servers /\ Signature(cat, k) = None)
  BY <1>1, <1>3, <1>6
<1>7. ASSUME NEW k \in BuiltIn
      PROVE  Signature(cat, k) = None /\ Row(k) = "built-in"
  BY <1>2, <1>7 DEF Signature, Row
<1>8. ASSUME NEW k \in Useful(cat)
      PROVE  /\ k \notin BuiltIn /\ Signature(cat, k) = cat[k] /\ Row(k) = cat[k]
             /\ cat[k] \in Rows /\ Usable(cat[k])
  BY <1>2, <1>8 DEF Signature, Row, Useful
<1>9. CacheInv'
  <2> SUFFICES ASSUME NEW k \in DOMAIN cache'
               PROVE  \/ /\ k \in BuiltIn
                         /\ \E row \in Kinds(k) : cache'[k] = [sig |-> None, row |-> row]
                      \/ /\ k \notin BuiltIn /\ cache'[k].sig \in Rows
                         /\ Usable(cache'[k].sig)
                         /\ cache'[k] = [sig |-> cache'[k].sig, row |-> cache'[k].sig]
    BY DEF CacheInv, Usable, Kinds
  <2>1. CASE k \in kept
    BY <1>5, <2>1 DEF CacheInv
  <2>2. CASE k \in fetched \ missing
    <3> HIDE DEF offered, fetched
    <3>1. cache'[k] = [sig |-> Signature(cat, k),
                       row |-> IF k \in down THEN None ELSE Row(k)]
      BY <1>6, <2>2
    <3>2. k \in BuiltIn \/ k \in Useful(cat)
      BY <1>6, <2>2 DEF offered
    <3>3. k \in down => k \in Servers /\ Signature(cat, k) = None
      BY <1>6, <2>2
    <3>4. CASE k \in Useful(cat)
      <4>1. k \notin down
        BY <1>8, <3>3, <3>4
      <4> QED BY <1>8, <3>1, <3>4, <4>1
    <3>5. CASE k \in BuiltIn
      <4>1. k \in down => k \in Spawned
        BY <3>3, <3>5 DEF Servers
      <4> QED BY <1>7, <3>1, <3>5, <4>1 DEF Kinds
    <3> QED BY <3>2, <3>4, <3>5
  <2> QED BY <1>4, <2>1, <2>2
<1>10. DOMAIN cache' \subseteq keys \cap offered
  BY <1>3, <1>4, <1>5
<1>11. ASSUME NEW k \in DOMAIN cache' PROVE cache'[k].sig = Signature(cat, k)
  <2>1. CASE k \in kept
    BY <1>5, <2>1
  <2>2. CASE k \in fetched \ missing
    <3>1. cache'[k] = [sig |-> Signature(cat, k),
                       row |-> IF k \in down THEN None ELSE Row(k)]
      BY <1>6, <2>2
    <3> QED BY ONLY <3>1
  <2> QED BY <1>4, <1>11, <2>1, <2>2
<1>12. ASSUME ~retry' PROVE DOMAIN cache' = keys \cap offered
  <2>1. missing = {}
    BY <1>1, <1>12 DEF Rearm
  <2> QED BY <1>3, <1>4, <1>10, <2>1
<1>13. \A k : Signature(cat, k)' = Signature(cat, k)
  BY DEF Signature
<1> QED BY <1>9, <1>10, <1>11, <1>12, <1>13 DEF Assembled, Signature, Useful, Usable

(* What a step leaves alone.                                               *)
LEMMA ReloadSame ==
    ASSUME CacheInv, ReloadInv, UNCHANGED <<agent, times, roster, catalog>>
    PROVE  CacheInv' /\ ReloadInv'
<1> USE DEF agent, times
<1>1. CacheInv'
  BY DEF CacheInv, Usable
<1>2. Catalog' = Catalog /\ Due' = Due
  BY DEF Roster, Catalog, ReadRoster, ReadCatalog, Due, AssignedKeys
<1>3. Current' = Current
  BY <1>2 DEF Current, Assembled, Signature, Useful, Usable
<1>4. ReloadInv'
  BY <1>2, <1>3 DEF ReloadInv, Parses, Useful, Usable
<1> QED BY <1>1, <1>4

(* Nothing is cached yet, and nothing is being reloaded.                   *)
LEMMA ReloadInit == Init => CacheInv /\ ReloadInv
<1> SUFFICES ASSUME Init PROVE CacheInv /\ ReloadInv
  OBVIOUS
<1>1. pc = "boot" /\ cache = << >> /\ reload = "none" /\ DOMAIN cache = {}
  BY DEF Init, AgentInit
<1> QED BY <1>1 DEF CacheInv, ReloadInv

(* A start or a restart begins with nothing.                               *)
LEMMA DownAgain ==
    ASSUME Down
    PROVE  CacheInv' /\ ReloadInv'
<1>1. pc' = "boot" /\ cache' = << >> /\ reload' = "none" /\ DOMAIN cache' = {}
  BY DEF Down
<1> QED BY <1>1 DEF CacheInv, ReloadInv

(* What is cached is carried from start to start only through the files.   *)
LEMMA AgentReloads ==
    ASSUME TypeOK, CacheInv, ReloadInv, AgentStep \/ Restart
    PROVE  CacheInv' /\ ReloadInv'
<1> USE DEF agent, times, mind, sighup
<1>1. FilesTypeOK /\ AgentTypeOK
  BY DEF TypeOK
<1>2. Catalog \in Catalogs
  BY <1>1, ReadType
<1>3. ASSUME UNCHANGED files
      PROVE  Catalog' = Catalog /\ Due' = Due /\ Parses(roster)' = Parses(roster)
             /\ Parses(catalog)' = Parses(catalog)
  BY <1>3 DEF files, Roster, Catalog, ReadRoster, ReadCatalog, Due, AssignedKeys, Parses
<1>4. ASSUME UNCHANGED <<cache, retry>>, UNCHANGED files PROVE Current' = Current
  BY <1>3, <1>4 DEF Current, Assembled, Signature, Useful, Usable
<1>5. ASSUME UNCHANGED cache PROVE CacheInv'
  BY <1>5 DEF CacheInv, Usable
<1>6. ASSUME NEW keys, BuildAgentTools(keys, Catalog), UNCHANGED files, keys = Due,
             registry' = [k \in Useful(Catalog) |-> Catalog[k]]
      PROVE  CacheInv' /\ Current'
  <2>1. PICK cat : cat = Catalog
    OBVIOUS
  <2>2. PICK due : due = Due
    OBVIOUS
  <2>3. CacheInv' /\ Assembled(due, cat)'
    BY <1>2, <1>6, <2>1, <2>2, BuildAssembles
  <2>4. cat = Catalog' /\ due = Due'
    BY <1>3, <1>6, <2>1, <2>2
  <2> QED BY <2>3, <2>4 DEF Current
<1>7. CASE Load
  <2>1. /\ pc = "boot" /\ pc' = "registered" /\ Parses(roster) /\ Parses(catalog)
        /\ assigned' = Due /\ UNCHANGED files /\ UNCHANGED <<cache, reload>>
        /\ registry' = [k \in Useful(Catalog) |-> Catalog[k]]
    BY <1>7 DEF Load, Due, Roster, Catalog, RegisterMCPServers, Useful
  <2>2. [k \in Useful(Catalog) |-> Catalog[k]]' = [k \in Useful(Catalog) |-> Catalog[k]]
    BY <1>3, <2>1 DEF Useful, Usable
  <2> QED BY <1>3, <1>5, <2>1, <2>2 DEF ReloadInv
<1>8. CASE InitTools
  <2>1. /\ pc = "registered" /\ pc' = "built" /\ UNCHANGED files
        /\ UNCHANGED <<assigned, reload, registry>>
    BY <1>8 DEF InitTools
  <2>2. /\ Parses(roster) /\ Parses(catalog) /\ assigned = Due
        /\ registry = [k \in Useful(Catalog) |-> Catalog[k]]
    BY <2>1 DEF ReloadInv
  <2>3. BuildAgentTools(assigned, Catalog)
    BY <1>8, <2>2 DEF InitTools, Catalog
  <2>4. CacheInv' /\ Current'
    BY <1>6, <2>1, <2>2, <2>3
  <2> QED BY <1>3, <2>1, <2>2, <2>4 DEF ReloadInv
<1>9. CASE InitKnowledge
  <2>1. /\ pc = "built" /\ pc' = "prompted" /\ UNCHANGED files
        /\ UNCHANGED <<assigned, cache, retry, reload>>
    BY <1>9 DEF InitKnowledge
  <2> QED BY <1>3, <1>4, <1>5, <2>1 DEF ReloadInv
<1>10. CASE Started
  <2>1. /\ pc = "prompted" /\ pc' = "up" /\ UNCHANGED files
        /\ UNCHANGED <<cache, retry, reload>>
    BY <1>10 DEF Started
  <2> QED BY <1>3, <1>4, <1>5, <2>1 DEF ReloadInv
<1>11. CASE StartReload
  <2>1. pc' = "up" /\ reload' = "roster" /\ UNCHANGED cache
    BY <1>11 DEF StartReload
  <2> QED BY <1>5, <2>1 DEF ReloadInv
<1>12. CASE ReloadRoster
  <2>1. /\ pc = "up" /\ pc' = "up" /\ UNCHANGED files /\ UNCHANGED cache
        /\ \/ reload' = "catalog" /\ assigned' = Due
           \/ reload' = "none" /\ ~Parses(roster)
    BY <1>1, <1>12 DEF ReloadRoster, Due, Roster, AgentTypeOK
  <2> QED BY <1>3, <1>5, <2>1 DEF ReloadInv
<1>13. CASE ReloadCatalog
  <2>1. /\ reload = "catalog" /\ reload' = "none" /\ pc = "up" /\ pc' = "up"
        /\ UNCHANGED files /\ UNCHANGED <<rosterNew, catalogNew, assigned>>
    BY <1>1, <1>13 DEF ReloadCatalog, AgentTypeOK
  <2>2. CASE ~Parses(catalog)
    <3>1. UNCHANGED cache
      BY <1>13, <2>2 DEF ReloadCatalog
    <3> QED BY <1>3, <1>5, <2>1, <2>2, <3>1 DEF ReloadInv
  <2>3. CASE Parses(catalog)
    <3>1. /\ registry' = [k \in Useful(Catalog) |-> Catalog[k]]
          /\ BuildAgentTools(assigned, Catalog)
      BY <1>13, <2>3 DEF ReloadCatalog, RegisterMCPServers, Useful, Catalog
    <3>2. CacheInv'
      BY <1>2, <3>1, BuildAssembles
    <3>3. ASSUME ~rosterNew, Parses(roster) PROVE Current'
      <4>1. assigned = Due
        BY <2>1, <3>3 DEF ReloadInv
      <4> QED BY <1>6, <2>1, <3>1, <4>1
    <3> QED BY <1>3, <2>1, <3>2, <3>3 DEF ReloadInv
  <2> QED BY <2>2, <2>3
<1>14. CASE KnowledgeStep
  <2>1. UNCHANGED <<agent, times, roster, catalog>>
    BY <1>14 DEF KnowledgeStep, ApplyKnowledge, RecordKnowledge, files
  <2> QED BY <2>1, ReloadSame
<1>15. CASE Restart
  BY <1>15, DownAgain DEF Restart
<1> QED
  BY <1>7, <1>8, <1>9, <1>10, <1>11, <1>12, <1>13, <1>14, <1>15 DEF AgentStep, ToolStep

(* A write of the YAML files while the agent is up is seen as one, so what *)
(* is recorded as unchanged is unchanged.                                  *)
LEMMA ReloadStep ==
    ASSUME ~EditsWhileLoading
    PROVE  TypeOK /\ CacheInv /\ ReloadInv /\ [Next]_vars => CacheInv' /\ ReloadInv'
<1> SUFFICES ASSUME TypeOK, CacheInv, ReloadInv, [Next]_vars
             PROVE  CacheInv' /\ ReloadInv'
  OBVIOUS
<1> USE DEF agent, times, mind, sighup
<1>1. ASSUME UNCHANGED <<agent, times, roster, catalog>> PROVE CacheInv' /\ ReloadInv'
  BY <1>1, ReloadSame
<1>2. ASSUME pc = "up", UNCHANGED agent,
             \/ rosterNew' = TRUE
             \/ catalogNew' = TRUE /\ UNCHANGED <<roster, rosterNew>>
      PROVE  CacheInv' /\ ReloadInv'
  <2>1. CacheInv'
    BY <1>2 DEF CacheInv, Usable
  <2>2. UNCHANGED roster => Due' = Due /\ Parses(roster)' = Parses(roster)
    BY DEF Due, Roster, ReadRoster, AssignedKeys, Parses
  <2>3. pc' = "up" /\ UNCHANGED <<reload, assigned>>
    BY <1>2
  <2>4. CASE rosterNew' = TRUE
    <3>1. ReloadInv'
      BY <1>2, <2>3, <2>4, Zenon DEF ReloadInv
    <3> QED BY <2>1, <3>1
  <2>5. CASE catalogNew' = TRUE /\ UNCHANGED <<roster, rosterNew>>
    <3>1. reload = "catalog" /\ ~rosterNew /\ Parses(roster) => assigned = Due
      BY DEF ReloadInv
    <3>2. (reload = "catalog" /\ ~rosterNew /\ Parses(roster) => assigned = Due)'
      BY <2>2, <2>3, <2>5, <3>1
    <3>3. ReloadInv'
      BY <1>2, <2>3, <2>5, <3>2, Zenon DEF ReloadInv
    <3> QED BY <2>1, <3>3
  <2> QED BY <1>2, <2>1, <2>4, <2>5
<1>3. Editable => pc = "up"
  BY DEF Editable
<1>4. CASE \E f \in Forms : Submit(f)
  BY <1>1, <1>4 DEF Submit, Handle, files, agentVars
<1>5. CASE Retry
  BY <1>1, <1>5 DEF Retry, Handle, files, agentVars
<1>6. CASE WriteRoster
  BY <1>2, <1>3, <1>6 DEF WriteRoster
<1>7. CASE WriteCatalog
  BY <1>2, <1>3, <1>7 DEF WriteCatalog
<1>8. CASE EditByHand
  BY <1>2, <1>3, <1>8 DEF EditByHand
<1>9. CASE WriteSecrets \/ regenerateCompose \/ regenerateDmsAccounts
           \/ setEmailServiceDisabled
  BY <1>1, <1>9 DEF WriteSecrets, regenerateCompose, regenerateDmsAccounts,
                    setEmailServiceDisabled, agentVars
<1>10. CASE WriteKnowledge
  BY <1>1, <1>10 DEF WriteKnowledge
<1>11. CASE Signal
  BY <1>1, <1>11, DownAgain DEF Signal, TakeHup, files
<1>12. CASE Unreadable \/ LeaveOldFile \/ Fail \/ Crash
  BY <1>1, <1>12 DEF Unreadable, LeaveOldFile, Fail, Crash, files, agentVars
<1>13. CASE Agent
  BY <1>13, AgentReloads DEF Agent
<1>14. CASE UNCHANGED vars
  BY <1>1, <1>14 DEF vars, files, agentVars
<1> QED
  BY <1>4, <1>5, <1>6, <1>7, <1>8, <1>9, <1>10, <1>11, <1>12, <1>13, <1>14
     DEF Next, Step

(* QuietIsCurrent: when no file changes while an agent loads it, an agent  *)
(* that sees nothing to reload and no remote server to try again offers    *)
(* the tools the files describe, except those of the local servers that    *)
(* gave nothing when they were looked up (reloadToolsIfChanged,            *)
(* buildAgentTools).                                                       *)
THEOREM QuietAgentsAreCurrent ==
    ASSUME ~EditsWhileLoading
    PROVE  Spec => []QuietIsCurrent
<1>1. TypeOK /\ CacheInv /\ ReloadInv => QuietIsCurrent
  <2> SUFFICES ASSUME TypeOK, CacheInv, ReloadInv, pc = "up", reload = "none",
                      ~rosterNew, ~catalogNew, ~retry, Parses(roster), Parses(catalog)
               PROVE  UpToDate
    BY DEF QuietIsCurrent, Quiet
  <2>1. /\ DOMAIN cache = Due \cap (BuiltIn \cup Useful(Catalog))
        /\ \A k \in DOMAIN cache : cache[k].sig = Signature(Catalog, k)
    BY DEF ReloadInv, Current, Assembled
  <2>2. ASSUME NEW k \in DOMAIN cache, k \in BuiltIn
        PROVE  cache[k].row = IF k \in Unstarted THEN None ELSE "built-in"
    <3>1. PICK row \in Kinds(k) : cache[k] = [sig |-> None, row |-> row]
      BY <2>2 DEF CacheInv
    <3>2. cache[k].row = row /\ (row = "built-in" \/ (row = None /\ k \in Spawned))
      BY <3>1 DEF Kinds
    <3> QED BY <3>2 DEF Unstarted, None
  <2>3. ASSUME NEW k \in Useful(Catalog), k \in DOMAIN cache
        PROVE  /\ cache[k].row = Catalog[k] /\ Catalog[k] # None
               /\ k \notin BuiltIn /\ k \notin Unstarted
    <3>1. k \in Keys /\ k \notin BuiltIn
      BY ReadType, MapType, FilesAssumption DEF Useful, TypeOK
    <3>2. cache[k] = [sig |-> cache[k].sig, row |-> cache[k].sig]
      BY <2>3, <3>1 DEF CacheInv
    <3>3. cache[k].sig = Catalog[k]
      BY <2>1, <2>3 DEF Signature, Useful
    <3>4. Catalog[k] # None
      BY <2>3, ReadType, MapType, FilesAssumption DEF Useful, TypeOK, Catalogs
    <3> QED BY <3>1, <3>2, <3>3, <3>4, FilesAssumption DEF Unstarted
  <2>4. Wanted = {<<k, "built-in">> : k \in Due \cap BuiltIn} \cup
                 {<<k, Catalog[k]>> : k \in Due \cap Useful(Catalog)}
    BY DEF Wanted, Due, Useful
  <2>5. ASSUME NEW t \in Tools PROVE t \in Wanted /\ t[1] \notin Unstarted
    <3>1. PICK k \in DOMAIN cache : t = <<k, cache[k].row>> /\ cache[k].row # None
      BY <2>5 DEF Tools
    <3>2. k \notin Unstarted /\ t[1] = k
      BY <3>1 DEF Unstarted
    <3> QED BY <2>1, <2>2, <2>3, <2>4, <3>1, <3>2
  <2>6. ASSUME NEW t \in Wanted, t[1] \notin Unstarted PROVE t \in Tools
    <3>1. CASE \E k \in Due \cap BuiltIn : t = <<k, "built-in">>
      <4>1. PICK k \in Due \cap BuiltIn : t = <<k, "built-in">>
        BY <3>1
      <4>2. k \in DOMAIN cache /\ k \notin Unstarted
        BY <2>1, <2>6, <4>1
      <4> QED BY <2>2, <4>1, <4>2 DEF Tools, None
    <3>2. CASE \E k \in Due \cap Useful(Catalog) : t = <<k, Catalog[k]>>
      BY <2>1, <2>3, <3>2 DEF Tools
    <3> QED BY <2>4, <2>6, <3>1, <3>2
  <2> QED BY <2>5, <2>6 DEF UpToDate
<1> QED BY <1>1, TypesAndPlans, ReloadInit, ReloadStep, PTL DEF Spec

=============================================================================
