------------------------------ MODULE ToolReload ------------------------------
(***************************************************************************)
(* How a running agent keeps up with its files (cmd/kikubot, internal/     *)
(* tools): it assembles its tools from agents.yaml and mcp_servers.yaml    *)
(* through a cache, appends its knowledge to its prompt, and does both     *)
(* again when a file has changed since it was last looked at, when a       *)
(* remote server that gave nothing is due for another try, or on SIGHUP.   *)
(* A local server that did not start is not tried again.                   *)
(*                                                                         *)
(* Whether a file was written after the time recorded for it is a flag:    *)
(* every write is taken to move the time (no two in one tick).             *)
(***************************************************************************)
EXTENDS ConfigFiles

CONSTANTS
    Self,               \* the agent
    EditsWhileLoading,  \* files may change between being read and being recorded
    MaxMishaps          \* bound on servers that give nothing, restarts, failed
                        \* writes, crashes of the configurator and edits by hand

ASSUME MishapsAssumption == EditsWhileLoading \in BOOLEAN /\ MaxMishaps \in Nat

VARIABLES
    pc,            \* boot, registered, built, prompted, up
    settings,      \* what Apply took over
    assigned,      \* keys read from agents.yaml, of the reload or start going on
    registry,      \* row each remote key was registered with
    cache,         \* toolCache: what was fetched for a key, with the row it is for
    retry,         \* mcpRetryAt is set
    reload,        \* none, roster, catalog: what the reload reads next
    rosterNew, catalogNew, \* written after the time recorded
    prompt,        \* the knowledge in the system prompt
    recording,     \* knowledge was read, its time not yet recorded
    knowledgeNew,  \* written after the time recorded
    hup, queued,   \* SIGHUP: what its handler does next; one more is waiting
    mishaps

agent == <<pc, settings, assigned, registry, cache, retry, reload>>
times == <<rosterNew, catalogNew>>
mind  == <<prompt, recording, knowledgeNew>>
sighup == <<hup, queued>>
agentVars == <<agent, times, mind, sighup, mishaps>>

AgentTypeOK ==
    /\ pc \in {"boot", "registered", "built", "prompted", "up"}
    /\ assigned \subseteq Keys \cup BuiltIn
    /\ DOMAIN registry \subseteq Keys /\ DOMAIN cache \subseteq Keys \cup BuiltIn
    /\ reload \in {"none", "roster", "catalog"} /\ retry \in BOOLEAN
    /\ {rosterNew, catalogNew, recording, knowledgeNew, queued} \subseteq BOOLEAN
    /\ prompt \in [Names -> Texts \cup {None}]
    /\ hup \in {"none", "knowledge", "tools"}
    /\ reload # "none" \/ recording => pc = "up"

Down ==
    /\ pc' = "boot" /\ settings' = [budget |-> "default", server |-> None]
    /\ assigned' = {} /\ registry' = << >> /\ cache' = << >>
    /\ retry' = FALSE /\ reload' = "none"
    /\ hup' = "none" /\ queued' = FALSE /\ recording' = FALSE

AgentInit ==
    /\ pc = "boot" /\ settings = [budget |-> "default", server |-> None]
    /\ assigned = {} /\ registry = << >> /\ cache = << >>
    /\ retry = FALSE /\ reload = "none"
    /\ hup = "none" /\ queued = FALSE /\ recording = FALSE
    /\ rosterNew = FALSE /\ catalogNew = FALSE /\ knowledgeNew = FALSE
    /\ prompt = [n \in Names |-> None]
    /\ mishaps = 0

(* The files may be written now.                                           *)
Editable == EditsWhileLoading \/ (pc = "up" /\ ~recording)

-----------------------------------------------------------------------------
(* The tools.                                                              *)

(* The local servers that did not start when their tools were built.       *)
Unstarted == {k \in DOMAIN cache \cap Spawned : cache[k].row = None}

(* The definitions the agent offers to the model.                          *)
Tools == {<<k, cache[k].row>> : k \in {k \in DOMAIN cache : cache[k].row # None}}

(* A row without what its way of authentication needs is of no use.        *)
Usable(row) == row # "bad"

(* The registry mirrors the catalog; a row it cannot use is left out.      *)
RegisterMCPServers(cat) ==
    registry' = [k \in {k \in DOMAIN cat : Usable(cat[k])} |-> cat[k]]

Signature(cat, k) == IF k \in DOMAIN cat THEN cat[k] ELSE None

(* Mutant of Cached: what was fetched once is kept.                        *)
CachedForGood(cat, k) == k \in DOMAIN cache

(* What was fetched for this very row is used again.                       *)
Cached(cat, k) == k \in DOMAIN cache /\ cache[k].sig = Signature(cat, k)

Row(k) == IF k \in BuiltIn THEN "built-in" ELSE registry'[k]

(* What may give nothing: a remote server, and a local one.                *)
Servers == Keys \cup Spawned

(* Mutant of Rearm: only a restart tries again.                            *)
NoRetry(missing) == retry' = FALSE

Rearm(missing) == retry' = (missing # {})

(* Reuse what is cached, fetch the rest.  The nothing that a key of the    *)
(* catalog gave is not cached but tried again later, that of any other key *)
(* is cached.                                                              *)
BuildAgentTools(keys, cat) ==
    LET fetched == {k \in keys : ~Cached(cat, k) /\ k \in BuiltIn \cup DOMAIN registry'} IN
    \E down \in SUBSET (fetched \cap Servers) :
        LET missing == {k \in down : Signature(cat, k) # None} IN
        /\ mishaps + Cardinality(down) <= MaxMishaps
        /\ mishaps' = mishaps + Cardinality(down)
        /\ cache' = [k \in {k \in keys : Cached(cat, k)} \cup (fetched \ missing) |->
                       IF Cached(cat, k) THEN cache[k]
                       ELSE [sig |-> Signature(cat, k),
                             row |-> IF k \in down THEN None ELSE Row(k)]]
        /\ Rearm(missing)

-----------------------------------------------------------------------------
(* Start.                                                                  *)

(* A file that does not parse is fatal: the container is started again.    *)
Load ==
    /\ pc = "boot" /\ Parses(roster) /\ Parses(catalog)
    /\ settings' = Apply(ReadRoster(roster), Self)
    /\ assigned' = AssignedKeys(ReadRoster(roster), Self)
    /\ RegisterMCPServers(ReadCatalog(catalog))
    /\ pc' = "registered"
    /\ UNCHANGED <<cache, retry, reload, times, mind, sighup, mishaps, files>>

(* The catalog is read again, and a parse error ignored.                   *)
InitTools ==
    /\ pc = "registered"
    /\ UNCHANGED registry
    /\ BuildAgentTools(assigned, IF Parses(catalog) THEN ReadCatalog(catalog)
                                 ELSE EmptyCatalog)
    /\ pc' = "built"
    /\ UNCHANGED <<settings, assigned, reload, times, mind, sighup, files>>

(* The times of the two files are recorded when the tools are built.       *)
InitKnowledge ==
    /\ pc = "built"
    /\ rosterNew' = FALSE /\ catalogNew' = FALSE
    /\ prompt' = knowledge /\ pc' = "prompted"
    /\ UNCHANGED <<settings, assigned, registry, cache, retry, reload,
                   recording, knowledgeNew, sighup, mishaps, files>>

Started ==
    /\ pc = "prompted"
    /\ knowledgeNew' = FALSE /\ pc' = "up"
    /\ UNCHANGED <<settings, assigned, registry, cache, retry, reload,
                   times, prompt, recording, sighup, mishaps, files>>

(* A crash or a redeploy.                                                  *)
Restart ==
    /\ pc = "up" /\ mishaps < MaxMishaps
    /\ mishaps' = mishaps + 1
    /\ Down
    /\ UNCHANGED <<times, prompt, knowledgeNew, files>>

-----------------------------------------------------------------------------
(* Reload: by the poll or by the handler of SIGHUP, one at a time.         *)

NextHup == IF hup # "tools" THEN hup ELSE IF queued THEN "knowledge" ELSE "none"

(* The times are recorded before the files are read.                       *)
RecordTimes == rosterNew' = FALSE /\ catalogNew' = FALSE

(* The poll finds a change or a retry due, or the handler comes to it.     *)
StartReload ==
    /\ pc = "up" /\ reload = "none"
    /\ \/ rosterNew \/ catalogNew \/ retry
       \/ hup = "tools"
    /\ hup' = NextHup /\ queued' = (queued /\ hup # "tools")
    /\ RecordTimes
    /\ reload' = "roster"
    /\ UNCHANGED <<pc, settings, assigned, registry, cache, retry,
                   mind, mishaps, files>>

(* A file that does not parse ends the reload: the tools stay.             *)
ReloadRoster ==
    /\ reload = "roster"
    /\ IF Parses(roster)
         THEN reload' = "catalog" /\ assigned' = AssignedKeys(ReadRoster(roster), Self)
         ELSE reload' = "none" /\ UNCHANGED assigned
    /\ UNCHANGED <<pc, settings, registry, cache, retry, times, mind,
                   sighup, mishaps, files>>

ReloadCatalog ==
    /\ reload = "catalog"
    /\ reload' = "none"
    /\ IF Parses(catalog)
         THEN /\ RegisterMCPServers(ReadCatalog(catalog))
              /\ BuildAgentTools(assigned, ReadCatalog(catalog))
         ELSE UNCHANGED <<registry, cache, retry, mishaps>>
    /\ UNCHANGED <<pc, settings, assigned, times, mind, sighup, files>>

(* Mutant of ApplyKnowledge: the poll does not look at the knowledge.       *)
ApplyOnHup ==
    /\ pc = "up" /\ ~recording /\ hup = "knowledge"
    /\ hup' = "tools"
    /\ prompt' = knowledge /\ recording' = TRUE
    /\ UNCHANGED <<agent, times, knowledgeNew, queued, mishaps, files>>

(* The knowledge is read, then the time of its newest file is recorded.    *)
ApplyKnowledge ==
    /\ pc = "up" /\ ~recording
    /\ knowledgeNew \/ hup = "knowledge"
    /\ hup' = IF hup = "knowledge" THEN "tools" ELSE hup
    /\ prompt' = knowledge /\ recording' = TRUE
    /\ UNCHANGED <<agent, times, knowledgeNew, queued, mishaps, files>>

RecordKnowledge ==
    /\ recording
    /\ recording' = FALSE /\ knowledgeNew' = FALSE
    /\ UNCHANGED <<agent, times, prompt, sighup, mishaps, files>>

(* SIGHUP: taken up by the handler once there is one, fatal before.        *)
TakeHup ==
    IF pc = "up"
      THEN /\ hup' = IF hup = "none" THEN "knowledge" ELSE hup
           /\ queued' = (queued \/ hup # "none")
           /\ UNCHANGED <<agent, times, mind>>
      ELSE Down /\ UNCHANGED <<times, prompt, knowledgeNew>>

ToolStep == Load \/ InitTools \/ InitKnowledge \/ Started \/ StartReload
            \/ ReloadRoster \/ ReloadCatalog
KnowledgeStep == ApplyKnowledge \/ RecordKnowledge

AgentStep == ToolStep \/ KnowledgeStep

=============================================================================
