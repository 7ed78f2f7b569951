----------------------------- MODULE Configurator -----------------------------
(***************************************************************************)
(* The configurator (scripts/configurator) saving the operator's forms     *)
(* into the files of ConfigFiles, beside an agent that follows them        *)
(* (ToolReload).  A save writes several files one after the other; a write *)
(* may fail, which ends the save, or the configurator may die within it.   *)
(* The operator also edits the two YAML files by hand.                     *)
(*                                                                         *)
(* One operator: forms are saved one at a time and loaded just before.     *)
(***************************************************************************)
EXTENDS ToolReload

CONSTANTS
    Forms,         \* the forms that may be sent: op, from, to, tools, value
    MaxRequests    \* bound on the forms sent

(* What the fields of a form may hold; from is what it was opened on.      *)
FormSet ==
    [op : {"agent"}, from : Emails \cup {None}, to : Emails,
     tools : SUBSET (Keys \cup BuiltIn), value : Passwords \cup {None}] \cup
    [op : {"mcp"}, from : Keys \cup {None}, to : Keys, tools : {{}}, value : Rows] \cup
    [op : {"dropMcp"}, from : Keys, to : {None}, tools : {{}}, value : {None}] \cup
    [op : {"defaults"}, from : {None}, to : {None}, tools : {{}},
     value : {None, "dms", "own"}] \cup
    [op : {"partner"}, from : Partners \cup {None}, to : Partners, tools : {{}},
     value : {None}] \cup
    [op : {"dropPartner"}, from : Partners, to : {None}, tools : {{}}, value : {None}] \cup
    [op : {"knowledge"}, from : Names \cup {None}, to : Names, tools : {{}},
     value : Texts] \cup
    [op : {"dropKnowledge"}, from : Names, to : {None}, tools : {{}}, value : {None}] \cup
    [op : {"enable", "disable"}, from : {None}, to : {None}, tools : {{}},
     value : {None}]

ASSUME FormsAssumption == Forms \subseteq FormSet /\ MaxRequests \in Nat

VARIABLES
    form,          \* the form sent last
    todo,          \* the steps its handler has left
    draft,         \* the contents its handler writes, loaded at the start
    result,        \* none, going, saved, failed, refused
    retried,       \* the form was sent again after it failed
    requests,
    clean          \* of this specification: no save has failed so far

request == <<form, todo, draft, result, retried, requests>>
vars == <<files, agentVars, request, clean>>

NoForm == [op |-> "none", from |-> None, to |-> None, tools |-> {}, value |-> None]

NoDraft == [roster |-> EmptyRoster, catalog |-> EmptyCatalog, users |-> {}, own |-> FALSE]

StepNames == {"openRoster", "roster", "openCatalog", "catalog", "drop", "password",
              "keys", "compose", "accounts", "knowledge", "unlink", "enable",
              "disable", "signal"}

TypeOK ==
    /\ FilesTypeOK /\ AgentTypeOK
    /\ form \in Forms \cup {NoForm} /\ todo \in Seq(StepNames)
    /\ draft.roster \in Rosters /\ draft.catalog \in Catalogs
    /\ result \in {"none", "going", "saved", "failed", "refused"}
    /\ todo # << >> => result = "going"
    /\ requests \in 0..MaxRequests /\ mishaps \in 0..MaxMishaps

-----------------------------------------------------------------------------
(* What a handler loads, and what it makes of it.                          *)

Roster == ReadRoster(roster)
Catalog == ReadCatalog(catalog)

Without(f, x) == Restrict(f, DOMAIN f \ {x})

Present == {n \in Names : knowledge[n] # None}

Uses(r, key) == {e \in DOMAIN r.agents : key \in r.agents[e].tools}

Renamed(f) == f.from # None /\ f.from # f.to

(* Mutant of renameToolKey: the agents keep the old key.                   *)
KeepToolKey(agents, from, to) == agents

(* Mutant of renameToolKey: a removed key leaves a blank one.              *)
BlankToolKey(agents, from, to) ==
    [e \in DOMAIN agents |->
        [agents[e] EXCEPT !.tools = {IF k = from THEN to ELSE k : k \in @}]]

(* The key is replaced in every agent's tools; None removes it.            *)
renameToolKey(agents, from, to) ==
    [e \in DOMAIN agents |->
        [agents[e] EXCEPT !.tools = {IF k = from THEN to ELSE k : k \in @} \ {None}]]

SaveRoster == <<"openRoster", "roster">>
SaveCatalog == <<"openCatalog", "catalog">>
When(cond, steps) == IF cond THEN steps ELSE << >>

(* What a page lists: nothing of a file that does not parse.               *)
Shown == IF Parses(roster) THEN Roster ELSE EmptyRoster
ShownCatalog == IF Parses(catalog) THEN Catalog ELSE EmptyCatalog

(* The tools an agent can be given: the registry's and the catalog's.      *)
loadToolRegistry == BuiltIn \cup DOMAIN ShownCatalog

-----------------------------------------------------------------------------
(* The forms: which of them a page offers, when the handler turns one down *)
(* before it has written anything, the contents it saves, and its writes   *)
(* in their order.                                                         *)

AgentOffered(f) == /\ f.from \in DOMAIN Shown.agents \cup {None}
                   /\ f.tools \subseteq loadToolRegistry

(* What the form does not show stays as it is in the entry of the old      *)
(* address; an entry that has the new address is replaced.                 *)
AgentSaved(f) ==
    LET def == IF f.from \in DOMAIN Roster.agents THEN Roster.agents[f.from]
               ELSE [tools |-> {}, own |-> FALSE]
    IN [Roster EXCEPT !.agents =
            Put(Without(@, f.from), f.to, [def EXCEPT !.tools = f.tools])]

AgentSteps(f) ==
    When(Renamed(f), <<"drop">>) \o SaveRoster
    \o <<"password", "compose", "accounts">> \o When(f.from = f.to, <<"signal">>)

DefaultsSaved(f) == [Roster EXCEPT !.common = f.value]

PartnerSaved(f) == [Roster EXCEPT !.partners = (@ \ {f.from}) \cup {f.to}]

PartnerDeleted(f) == [Roster EXCEPT !.partners = @ \ {f.from}]

ServerRefused(f) == \/ ~Parses(roster) \/ ~Parses(catalog)
                    \/ f.from # f.to /\ f.to \in DOMAIN Catalog

ServerSaved(f) == Put(Without(Catalog, f.from), f.to, f.value)

ServerSteps(f) ==
    SaveCatalog \o When(Renamed(f) /\ Uses(Roster, f.from) # {}, SaveRoster)
    \o <<"keys">>
    \o When(Uses(Roster, f.from) \cup Uses(Roster, f.to) # {}, <<"signal">>)

ServerDropRefused(f) ==
    ~Parses(roster) \/ ~Parses(catalog) \/ f.from \notin DOMAIN Catalog

ServerDropSteps(f) ==
    SaveCatalog \o When(Uses(Roster, f.from) # {}, SaveRoster \o <<"signal">>)

KnowledgeRefused(f) == f.from # f.to /\ f.to \in Present

KnowledgeSteps(f) ==
    <<"knowledge">> \o When(Renamed(f), <<"unlink">>) \o <<"signal">>

(* The bundled mail server's name, unless the operator gave another one.   *)
Seeded == IF Roster.common = None THEN [Roster EXCEPT !.common = "dms"] ELSE Roster

EnableSteps == <<"enable", "accounts">> \o When(Roster.common = None, SaveRoster)

-----------------------------------------------------------------------------
(* The pages and handlers, by form.                                        *)

Offered(f) ==
    CASE f.op = "agent" -> AgentOffered(f)
      [] f.op = "mcp" -> f.from \in DOMAIN ShownCatalog \cup {None}
      [] f.op = "dropMcp" -> Parses(roster) /\ f.from \in DOMAIN ShownCatalog
      [] f.op = "defaults" -> Parses(roster)
      [] f.op = "partner" -> f.from \in Shown.partners \cup {None}
      [] f.op = "dropPartner" -> f.from \in Shown.partners
      [] f.op = "knowledge" -> Parses(roster) /\ f.from \in Present \cup {None}
      [] f.op = "dropKnowledge" -> Parses(roster) /\ f.from \in Present
      [] f.op = "enable" -> ~enabled
      [] f.op = "disable" -> enabled

Refuses(f) ==
    CASE f.op \in {"agent", "defaults", "partner", "dropPartner"} -> ~Parses(roster)
      [] f.op = "mcp" -> ServerRefused(f)
      [] f.op = "dropMcp" -> ServerDropRefused(f)
      [] f.op = "knowledge" -> KnowledgeRefused(f)
      [] OTHER -> FALSE

DraftRoster(f) ==
    CASE f.op = "agent" -> AgentSaved(f)
      [] f.op \in {"mcp", "dropMcp"} ->
            [Roster EXCEPT !.agents = renameToolKey(@, f.from, f.to)]
      [] f.op = "defaults" -> DefaultsSaved(f)
      [] f.op = "partner" -> PartnerSaved(f)
      [] f.op = "dropPartner" -> PartnerDeleted(f)
      [] f.op = "enable" -> Seeded
      [] OTHER -> Roster

DraftCatalog(f) ==
    CASE f.op = "mcp" -> ServerSaved(f)
      [] f.op = "dropMcp" -> Without(Catalog, f.from)
      [] OTHER -> Catalog

Steps(f) ==
    CASE f.op = "agent" -> AgentSteps(f)
      [] f.op = "mcp" -> ServerSteps(f)
      [] f.op = "dropMcp" -> ServerDropSteps(f)
      [] f.op = "defaults" -> SaveRoster \o <<"keys">>
      [] f.op \in {"partner", "dropPartner"} -> SaveRoster
      [] f.op = "knowledge" -> KnowledgeSteps(f)
      [] f.op = "dropKnowledge" -> <<"unlink", "signal">>
      [] f.op = "enable" -> EnableSteps
      [] f.op = "disable" -> <<"disable">>

(* The agents to signal; knowledge is taken to be the common one.          *)
Concerned(f) ==
    CASE f.op = "agent" -> {f.to}
      [] f.op \in {"mcp", "dropMcp"} -> Uses(Roster, f.from) \cup Uses(Roster, f.to)
      [] OTHER -> Emails

-----------------------------------------------------------------------------
Init ==
    /\ FilesInit /\ AgentInit
    /\ form = NoForm /\ todo = << >> /\ result = "none" /\ retried = FALSE
    /\ draft = NoDraft
    /\ requests = 0 /\ clean = TRUE

(* The handler checks the form and loads the files it will write.          *)
Handle(f, again) ==
    /\ form' = f /\ retried' = again /\ requests' = requests + 1
    /\ IF Refuses(f)
         THEN result' = "refused" /\ UNCHANGED <<todo, draft>>
         ELSE /\ result' = "going" /\ todo' = Steps(f)
              /\ draft' = [roster |-> DraftRoster(f), catalog |-> DraftCatalog(f),
                           users |-> Concerned(f),
                           own |-> IF again THEN draft.own
                                   ELSE f.from \in DOMAIN Roster.agents
                                        /\ Roster.agents[f.from].own]
    /\ UNCHANGED <<files, agentVars, clean>>

(* A page is filled from the files and sent back.                          *)
Submit(f) ==
    /\ result # "going" /\ requests < MaxRequests
    /\ Offered(f)
    /\ Handle(f, FALSE)

(* A save that failed shows the form again, which is sent once more.       *)
Retry ==
    /\ result = "failed" /\ requests < MaxRequests
    /\ form.op \in {"agent", "mcp", "partner", "knowledge", "enable"}
    /\ Handle(form, TRUE)

(* The form stays with the operator.                                       *)
Kept == [NoDraft EXCEPT !.own = draft.own]

(* The next step of the handler is done.                                   *)
Done ==
    /\ todo' = Tail(todo)
    /\ result' = IF Len(todo) = 1 THEN "saved" ELSE "going"
    /\ draft' = IF Len(todo) = 1 THEN Kept ELSE draft
    /\ UNCHANGED <<form, retried, requests, clean>>

At(step) == todo # << >> /\ Head(todo) = step

WriteRoster ==
    /\ Editable
    /\ \/ At("openRoster") /\ roster' = [roster EXCEPT !.state = "torn"]
       \/ At("roster") /\ roster' = Whole(draft.roster)
    /\ rosterNew' = TRUE
    /\ Done
    /\ UNCHANGED <<catalog, secrets, services, enabled, accounts, knowledge,
                   agent, catalogNew, mind, sighup, mishaps>>

WriteCatalog ==
    /\ Editable
    /\ \/ At("openCatalog") /\ catalog' = [catalog EXCEPT !.state = "torn"]
       \/ At("catalog") /\ catalog' = Whole(draft.catalog)
    /\ catalogNew' = TRUE
    /\ Done
    /\ UNCHANGED <<roster, secrets, services, enabled, accounts, knowledge,
                   agent, rosterNew, mind, sighup, mishaps>>

(* A password is kept under the local part of the agent's address; a blank *)
(* one is removed.                                                         *)
SetPassword(e, password) == [secrets EXCEPT ![Stem[e]] = password]
Password(e) == secrets[Stem[e]]

(* Keys and tokens are not modelled.                                       *)
WriteSecrets ==
    /\ \/ At("drop") /\ secrets' = SetPassword(form.from, None)
       \/ At("password") /\ secrets' = SetPassword(form.to, form.value)
       \/ At("keys") /\ UNCHANGED secrets
    /\ Done
    /\ UNCHANGED <<roster, catalog, services, enabled, accounts, knowledge, agentVars>>

regenerateCompose ==
    /\ At("compose") /\ Parses(roster)
    /\ services' = DOMAIN Roster.agents
    /\ Done
    /\ UNCHANGED <<roster, catalog, secrets, enabled, accounts, knowledge, agentVars>>

(* Mutant of Regenerated: a mailbox that is there keeps its password.      *)
KeepAccounts ==
    [e \in Emails |-> IF e \in DOMAIN Roster.agents /\ accounts[e] = None
                        THEN Password(e) ELSE accounts[e]]

(* The mailboxes of agents without a password, or no longer of the roster, *)
(* stay as they are.                                                       *)
Regenerated ==
    [e \in Emails |-> IF e \in DOMAIN Roster.agents /\ Password(e) # None
                        THEN Password(e) ELSE accounts[e]]

regenerateDmsAccounts ==
    /\ At("accounts") /\ (enabled => Parses(roster))
    /\ accounts' = IF enabled THEN Regenerated ELSE accounts
    /\ Done
    /\ UNCHANGED <<roster, catalog, secrets, services, enabled, knowledge, agentVars>>

setEmailServiceDisabled ==
    /\ \/ At("enable") /\ enabled' = TRUE
       \/ At("disable") /\ enabled' = FALSE
    /\ Done
    /\ UNCHANGED <<roster, catalog, secrets, services, accounts, knowledge, agentVars>>

WriteKnowledge ==
    /\ Editable
    /\ \/ At("knowledge") /\ knowledge' = [knowledge EXCEPT ![form.to] = form.value]
       \/ At("unlink") /\ knowledge' = [knowledge EXCEPT ![form.from] = None]
    /\ knowledgeNew' = TRUE
    /\ Done
    /\ UNCHANGED <<roster, catalog, secrets, services, enabled, accounts,
                   agent, times, prompt, recording, sighup, mishaps>>

(* Best effort: the agents it concerns may be stopped, docker not there.   *)
(* Nor does it matter whether a renamed knowledge file can be removed.     *)
Signal ==
    /\ At("signal")
    /\ \/ Self \in draft.users \cap DOMAIN Roster.agents /\ TakeHup
       \/ UNCHANGED <<agent, times, mind, sighup>>
    /\ Done
    /\ UNCHANGED <<files, mishaps>>

LeaveOldFile ==
    /\ At("unlink") /\ form.op = "knowledge" /\ mishaps < MaxMishaps
    /\ mishaps' = mishaps + 1
    /\ todo' = Tail(todo)
    /\ UNCHANGED <<form, draft, result, retried, requests, clean, files, agent, times, mind, sighup>>

(* A write fails: the handler reports it and leaves the rest undone.       *)
Fail ==
    /\ todo # << >> /\ Head(todo) # "signal" /\ mishaps < MaxMishaps
    /\ ~(At("unlink") /\ form.op = "knowledge")
    /\ mishaps' = mishaps + 1 /\ clean' = FALSE
    /\ todo' = << >> /\ result' = "failed" /\ draft' = Kept
    /\ UNCHANGED <<form, retried, requests, files, agent, times, mind, sighup>>

(* The roster a step loads anew does not parse.                            *)
Unreadable ==
    /\ At("compose") \/ (At("accounts") /\ enabled)
    /\ ~Parses(roster)
    /\ clean' = FALSE
    /\ todo' = << >> /\ result' = "failed" /\ draft' = Kept
    /\ UNCHANGED <<form, retried, requests, files, agentVars>>

(* The configurator dies; the form is gone.                                *)
Crash ==
    /\ result \in {"going", "failed"} /\ mishaps < MaxMishaps
    /\ mishaps' = mishaps + 1 /\ clean' = FALSE
    /\ form' = NoForm /\ todo' = << >> /\ result' = "none" /\ retried' = FALSE
    /\ draft' = NoDraft
    /\ UNCHANGED <<requests, files, agent, times, mind, sighup>>

(* The operator breaks or mends a file, or enters a row of no use.         *)
EditByHand ==
    /\ result # "going" /\ mishaps < MaxMishaps /\ Editable
    /\ mishaps' = mishaps + 1
    /\ \/ /\ roster.state \in {"whole", "broken"}
          /\ roster' = [roster EXCEPT !.state = IF @ = "whole" THEN "broken" ELSE "whole"]
          /\ rosterNew' = TRUE
          /\ UNCHANGED <<catalog, catalogNew>>
       \/ /\ \/ /\ catalog.state \in {"whole", "broken"}
                /\ catalog' = [catalog EXCEPT !.state = IF @ = "whole" THEN "broken" ELSE "whole"]
             \/ \E k \in DOMAIN Catalog :
                   catalog' = Whole([Catalog EXCEPT ![k] = "bad"])
          /\ catalogNew' = TRUE
          /\ UNCHANGED <<roster, rosterNew>>
    /\ UNCHANGED <<secrets, services, enabled, accounts, knowledge, agent, mind, sighup,
                   request, clean>>

Step == WriteRoster \/ WriteCatalog \/ WriteSecrets \/ regenerateCompose
        \/ regenerateDmsAccounts \/ setEmailServiceDisabled \/ WriteKnowledge \/ Signal
        \/ Unreadable

Agent == (AgentStep \/ Restart) /\ UNCHANGED <<request, clean>>

Next ==
    \/ \E f \in Forms : Submit(f)
    \/ Retry
    \/ Step
    \/ LeaveOldFile \/ Fail \/ Crash
    \/ EditByHand
    \/ Agent

Spec == Init /\ [][Next]_vars

(* A handler runs to its end, and the agent from poll to poll: each one    *)
(* looks at the knowledge and at the tools (cmd/kikubot process).          *)
FairSpec ==
    /\ Spec /\ WF_vars(Step)
    /\ WF_vars(ToolStep /\ UNCHANGED <<request, clean>>)
    /\ WF_vars(KnowledgeStep /\ UNCHANGED <<request, clean>>)

-----------------------------------------------------------------------------
(* Properties.                                                             *)

(* What the agent would offer if it were assembled from the files now.     *)
Wanted ==
    {<<k, "built-in">> : k \in AssignedKeys(Roster, Self) \cap BuiltIn} \cup
    {<<k, Catalog[k]>> : k \in {k \in AssignedKeys(Roster, Self) \cap DOMAIN Catalog :
                                  Usable(Catalog[k])}}

(* It offers them, but for the local servers that did not start when their *)
(* tools were built: what a key of the registry literal gave is kept, also *)
(* when it is nothing, until the agent is started again or the key is      *)
(* taken from it and given back.                                           *)
UpToDate == Tools = {t \in Wanted : t[1] \notin Unstarted}

Quiet == /\ pc = "up" /\ reload = "none" /\ ~rosterNew /\ ~catalogNew /\ ~retry
         /\ Parses(roster) /\ Parses(catalog)

(* An agent that sees nothing to reload and no remote server to try again  *)
(* offers the tools the files describe, except those of a local server     *)
(* that did not start (cmd/kikubot reloadToolsIfChanged, buildAgentTools   *)
(* and its cache).                                                         *)
QuietIsCurrent == Quiet => UpToDate

(* Unless a save failed, the forms never leave an agent with a tool key    *)
(* nobody declares: renames and deletions of an MCP server reach every     *)
(* tools list (scripts/configurator renameToolKey).                        *)
AssignmentsResolve ==
    clean /\ result # "going" =>
        \A e \in DOMAIN roster.content.agents :
            roster.content.agents[e].tools \subseteq BuiltIn \cup DOMAIN catalog.content

(* Unless a save failed, the agents of the roster are the ones that are    *)
(* deployed, and each can log in to its mailbox with the password it is    *)
(* started with (regenerateCompose, regenerateDmsAccounts).                *)
Deployed ==
    clean /\ result # "going" =>
        LET rostered == DOMAIN roster.content.agents IN
        /\ services = rostered
        /\ enabled => \A e \in rostered : Password(e) # None
                                              => accounts[e] = Password(e)

(* An agent ends up with the tools of the files, whatever saves, broken    *)
(* files, outages of remote servers and lost signals came before           *)
(* (reload.go:41: the poll is the correctness guarantee).  Excepted are a  *)
(* local server that was down when its tools were built, and edits made    *)
(* while the agent was reading the files (Editable).                       *)
ToolsCatchUp == <>[](pc = "up" /\ Parses(roster) /\ Parses(catalog) => UpToDate)

(* Its prompt ends up with the knowledge of the files, through lost        *)
(* signals, restarts and writes that failed half-way                       *)
(* (reloadKnowledgeIfChanged).  Excepted is an edit between the reading of *)
(* the files and the recording of their time (applyKnowledge; Editable).   *)
KnowledgeCatchesUp == <>[](pc = "up" => prompt = knowledge)

-----------------------------------------------------------------------------
(* What comments say that the program does not do.                         *)

(* "The poll-based reload is the correctness guarantee" (reload.go of      *)
(* scripts/configurator): also after a local server did not start.         *)
QuietIsComplete == Quiet => Tools = Wanted

(* handleMCPSave: "Re-render with the attempted values so the operator can *)
(* fix and retry": a save that failed can be sent again.                   *)
RetryAccepted == ~(retried /\ result = "refused")

(* agentForm.save: "per-agent overrides that don't surface on the form     *)
(* ... are preserved across an edit".                                      *)
OverridesKept ==
    form.op = "agent" /\ result = "saved" /\ draft.own /\ form.to \in DOMAIN Roster.agents
        => Roster.agents[form.to].own

(* env_vars.go: "common provides default, agent overrides".                *)
OwnServerWins == pc = "up" /\ settings.budget = "agent" => settings.server = "agent"

=============================================================================
