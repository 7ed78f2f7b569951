----------------------------- MODULE ConfigFiles -----------------------------
(***************************************************************************)
(* The files a deployment is described by, as the configurator writes them *)
(* (scripts/configurator) and an agent reads them (internal/config):       *)
(* agents.yaml, mcp_servers.yaml, secrets.env, docker-compose.yml,         *)
(* postfix-accounts.cf and the knowledge directories.                      *)
(*                                                                         *)
(* A file is rewritten in place: it is truncated, then filled.  A reader   *)
(* in between finds an empty file, which parses.  One edited by hand may   *)
(* not parse.                                                              *)
(***************************************************************************)
EXTENDS Integers, Sequences, FiniteSets, Functions

CONSTANTS
    Emails,        \* addresses agents may have
    Stem,          \* local part of an address
    Keys,          \* keys of remote MCP servers
    BuiltIn,       \* keys of the registry literal
    Spawned,       \* those of them whose tools are a local server's, started
                   \* when they are looked up
    Rows,          \* rows of the catalog, "bad" one the agent cannot register
    Names,         \* names of knowledge files
    Texts,         \* their contents
    Passwords,
    Partners,      \* external partners
    InitialRoster, InitialCatalog

None == "none"

AgentDefs == [tools : SUBSET (Keys \cup BuiltIn),
              own : BOOLEAN]   \* max_turns, email_server, ... of its own

(* Maps from some of S to R.                                               *)
Maps(S, R) == UNION {[s -> R] : s \in SUBSET S}

Rosters == [agents : Maps(Emails, AgentDefs),
            common : {None, "dms", "own"},   \* common.email_server
            partners : SUBSET Partners]

Catalogs == Maps(Keys, Rows)

EmptyRoster == [agents |-> << >>, common |-> None, partners |-> {}]
EmptyCatalog == << >>

ASSUME FilesAssumption ==
    /\ Stem \in [Emails -> STRING] /\ Keys \cap BuiltIn = {}
    /\ Spawned \subseteq BuiltIn /\ IsFiniteSet(Keys) /\ IsFiniteSet(Spawned)
    /\ None \notin Emails \cup Keys \cup BuiltIn \cup Rows \cup Names \cup Texts
                 \cup Passwords \cup Partners
    /\ "bad" \in Rows /\ Passwords # {}

(* The deployment to start from is in order: every tool key is declared.   *)
ASSUME DeploymentAssumption ==
    /\ InitialRoster \in Rosters /\ InitialCatalog \in Catalogs
    /\ \A e \in DOMAIN InitialRoster.agents :
          InitialRoster.agents[e].tools \subseteq BuiltIn \cup DOMAIN InitialCatalog

VARIABLES
    roster,      \* agents.yaml
    catalog,     \* mcp_servers.yaml
    secrets,     \* mailbox passwords in secrets.env, by local part
    services,    \* the agents docker-compose.yml starts
    enabled,     \* the bundled mail server is in use
    accounts,    \* postfix-accounts.cf: the password a mailbox takes
    knowledge    \* the knowledge files of the agent, common ones included

files == <<roster, catalog, secrets, services, enabled, accounts, knowledge>>

(* A map with the entry of one key set.                                    *)
Put(f, k, v) == [x \in DOMAIN f \cup {k} |-> IF x = k THEN v ELSE f[x]]

Whole(c) == [state |-> "whole", content |-> c]

Parses(file) == file.state # "broken"

(* A truncated file is empty, whatever will be in it.                      *)
ReadRoster(file) == IF file.state = "torn" THEN EmptyRoster ELSE file.content
ReadCatalog(file) == IF file.state = "torn" THEN EmptyCatalog ELSE file.content

FilesTypeOK ==
    /\ roster \in [state : {"whole", "torn", "broken"}, content : Rosters]
    /\ catalog \in [state : {"whole", "torn", "broken"}, content : Catalogs]
    /\ secrets \in [{Stem[e] : e \in Emails} -> Passwords \cup {None}]
    /\ services \subseteq Emails /\ enabled \in BOOLEAN
    /\ accounts \in [Emails -> Passwords \cup {None}]
    /\ knowledge \in [Names -> Texts \cup {None}]

FilesInit ==
    /\ roster = Whole(InitialRoster) /\ catalog = Whole(InitialCatalog)
    /\ secrets = [s \in {Stem[e] : e \in Emails} |->
                    IF \E e \in DOMAIN InitialRoster.agents : Stem[e] = s
                      THEN CHOOSE p \in Passwords : TRUE ELSE None]
    /\ services = DOMAIN InitialRoster.agents /\ enabled = TRUE
    /\ accounts = [e \in Emails |-> IF e \in services THEN secrets[Stem[e]] ELSE None]
    /\ knowledge = [n \in Names |-> None]

(* What an agent is told to use.                                           *)
AssignedKeys(r, email) == IF email \in DOMAIN r.agents THEN r.agents[email].tools ELSE {}

(* The first that is given: the common mail server before the agent's own. *)
pickStr(common, own) == IF common # None THEN common ELSE own

(* An agent's own number before the common one.                            *)
pickInt(own, def) == IF own THEN "agent" ELSE def

(* The settings an agent takes over when it starts.                        *)
Apply(r, email) ==
    LET own == email \in DOMAIN r.agents /\ r.agents[email].own
    IN [budget |-> pickInt(own, "default"),
        server |-> pickStr(r.common, IF own THEN "agent" ELSE None)]

=============================================================================
