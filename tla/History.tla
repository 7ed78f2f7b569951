------------------------------- MODULE History -------------------------------
(***************************************************************************)
(* The conversation an agent keeps with its model: what is dropped when it *)
(* is loaded from the memory file (internal/services/memory.go), what is   *)
(* cut when it is sent (internal/agents/agent.go), what it becomes on the  *)
(* wire (internal/provider/openrouter.go), and what a provider accepts.    *)
(*                                                                         *)
(* A message is reduced to what those functions look at.  Sizes count one  *)
(* for a message and BigResult for each large tool result.                 *)
(***************************************************************************)
EXTENDS Integers, Sequences, FiniteSets, SequencesExt

CONSTANTS MaxHistoryChars,   \* config.MaxHistoryChars, 0: no limit
          BigResult          \* size of a large tool result

ASSUME SizesAssumption == MaxHistoryChars \in Nat /\ BigResult \in Nat \ {0}

Message ==
    [role    : {"user", "assistant"},
     from    : {"human", "agent", "none"},    \* sender of an e-mail
     calls   : SUBSET Nat,                    \* ids of tool_use blocks
     results : SUBSET Nat,                    \* ids of tool_result blocks
     big     : SUBSET Nat,                    \* ... with a large text
     stubs   : SUBSET Nat,                    \* ... compressed to a stub
     server  : {"none", "ok", "extra", "corrupt"}, \* a server tool's call and
                                              \* result; fields the API refuses
     think   : {"none", "ok", "bad"},         \* a thinking block
     text    : BOOLEAN,
     blob    : BOOLEAN,                       \* an attachment in base64
     raw     : BOOLEAN]                       \* wrapped by param.Override

Blank == [role |-> "user", from |-> "none", calls |-> {}, results |-> {},
          big |-> {}, stubs |-> {}, server |-> "none", think |-> "none",
          text |-> FALSE, blob |-> FALSE, raw |-> FALSE]

UserMessage(from, blob) ==
    [Blank EXCEPT !.from = from, !.text = TRUE, !.blob = blob]

NoContent(m) == /\ m.calls = {} /\ m.results = {} /\ m.server = "none"
                /\ m.think = "none" /\ ~m.text /\ ~m.blob

(* A conversation from its i-th message on.                                *)
Rest(h, i) == SubSeq(h, i, Len(h))

-----------------------------------------------------------------------------
(* Loading.                                                                *)

(* Mutant of StripCorruptServerResults: the message is dropped with them.  *)
DropCorruptMessage(m) == IF m.server = "corrupt" THEN Blank ELSE m

(* The corrupt results of server tools go, with the calls they belong to.  *)
StripCorruptServerResults(m) ==
    IF m.server = "corrupt" THEN [m EXCEPT !.server = "none"] ELSE m

(* So do the fields the API does not take in the call of a server tool,    *)
(* and the citations of a text.                                            *)
StripCitations(m) == IF m.server = "extra" THEN [m EXCEPT !.server = "ok"] ELSE m

(* Unusable thinking goes, unless the message would be left empty.         *)
StripUnusableThinking(m) ==
    LET rest == [m EXCEPT !.think = "none"]
    IN IF m.think = "bad" /\ ~NoContent(rest) THEN rest ELSE m

Sanitized(m) == StripUnusableThinking(StripCitations(StripCorruptServerResults(m)))

(* Messages that cannot open a conversation.                               *)
Orphaned(m) == m.role # "user" \/ m.results # {}

TrimOrphanedLeadingMessages(h) ==
    LET Keep == {i \in DOMAIN h : ~Orphaned(h[i])}
    IN IF Keep = {} THEN << >> ELSE Rest(h, Min(Keep))

(* One message after the other; what is empty without its corrupt results  *)
(* is dropped.                                                             *)
SanitizeHistory(h) ==
    LET sanitized[n \in 0..Len(h)] ==
            IF n = 0 THEN << >>
            ELSE IF NoContent(StripCorruptServerResults(h[n])) THEN sanitized[n - 1]
            ELSE Append(sanitized[n - 1], Sanitized(h[n]))
    IN sanitized[Len(h)]

ReadHistory(h) ==
    LET trimmed == TrimOrphanedLeadingMessages(SanitizeHistory(h))
    IN [i \in DOMAIN trimmed |-> [trimmed[i] EXCEPT !.raw = TRUE]]

(* Saving: the attachments of new messages are replaced by a text; what    *)
(* was loaded is written as it was read.                                   *)
StripAttachmentBlobs(h) ==
    [i \in DOMAIN h |-> IF h[i].raw THEN h[i]
                        ELSE [h[i] EXCEPT !.text = @ \/ h[i].blob, !.blob = FALSE]]

WriteHistory(h) ==
    LET saved == StripAttachmentBlobs(h)
    IN [i \in DOMAIN h |-> [saved[i] EXCEPT !.raw = FALSE]]

-----------------------------------------------------------------------------
(* Sending.                                                                *)

EffectiveSize(h) ==
    FoldLeft(LAMBDA n, m : n + 1 + BigResult * Cardinality(m.big), 0, h)

(* Mutant of Cutpoints: any message of the user.                           *)
CutpointsAnywhere(h) == {i \in DOMAIN h : h[i].role = "user"}

(* User messages with no tool result: places a conversation may start at.  *)
Cutpoints(h) == {i \in DOMAIN h : ~Orphaned(h[i])}

(* The newest message a human wrote, or 0.                                 *)
FindAnchor(h) ==
    LET Human == {i \in DOMAIN h : ~Orphaned(h[i]) /\ h[i].from = "human"}
    IN IF Human = {} THEN 0 ELSE Max(Human)

(* Results are compressed one by one, in order, until the rest fits; those *)
(* of wrapped messages cannot be seen and stay as they are.                *)
CompressToolResults(h) ==
    LET Found == UNION {h[i].big : i \in {j \in DOMAIN h : ~h[j].raw}}
        First(n) == {r \in Found : Cardinality({s \in Found : s < r}) < n}
        Fits(n) == EffectiveSize(h) - n * BigResult <= MaxHistoryChars
        Enough == {n \in 0..Cardinality(Found) : Fits(n)}
        Gone == IF Enough = {} THEN Found
                ELSE First(Min(Enough))
    IN [i \in DOMAIN h |-> IF h[i].raw THEN h[i]
                           ELSE [h[i] EXCEPT !.big = @ \ Gone,
                                             !.stubs = @ \cup (h[i].big \cap Gone)]]

(* What is sent: the longest part from a cutpoint on that fits, never      *)
(* starting after the anchor's request; the oldest such part, compressed,  *)
(* when none fits.                                                         *)
TrimHistory(h) ==
    LET Pinned == {i \in Cutpoints(h) : i >= FindAnchor(h)}
        Candidates == IF Pinned = {} THEN Cutpoints(h) ELSE Pinned
        Fitting == {i \in Candidates : EffectiveSize(Rest(h, i)) <= MaxHistoryChars}
        chosen == Rest(h, Min(IF Fitting = {} THEN Candidates ELSE Fitting))
    IN IF MaxHistoryChars = 0 \/ EffectiveSize(h) <= MaxHistoryChars
          \/ Cutpoints(h) = {}
         THEN h
       ELSE IF Fitting # {} THEN chosen
       ELSE CompressToolResults(chosen)

(* OpenRouter takes the results of a message one by one, kept together     *)
(* here, and of the others the text, the calls and the attachments.        *)
ConvertResults(m) == [Blank EXCEPT !.results = m.results]

ConvertOwn(m) ==
    IF m.results # {} THEN ConvertResults(m)
    ELSE [Blank EXCEPT !.role = m.role, !.from = m.from, !.calls = m.calls,
                       !.text = TRUE, !.blob = m.blob]

(* A wrapped message is read from its JSON, where attachments are skipped. *)
ConvertRawBlocks(m) ==
    IF m.results # {} THEN ConvertResults(m)
    ELSE [Blank EXCEPT !.role = m.role, !.from = m.from, !.calls = m.calls,
                       !.text = TRUE]

ConvertMessage(m) == IF m.raw THEN ConvertRawBlocks(m) ELSE ConvertOwn(m)

ConvertMessages(h) == [i \in DOMAIN h |-> ConvertMessage(h[i])]

-----------------------------------------------------------------------------
(* What the providers accept: a conversation that a user opens, in which   *)
(* every message has the results of the calls of the one before it, and    *)
(* no others, and none is empty or has anything they refuse.               *)
Acceptable(h) ==
    /\ h # << >> /\ ~Orphaned(h[1]) /\ h[Len(h)].calls = {}
    /\ \A i \in 2..Len(h) : h[i].results = h[i - 1].calls
    /\ \A i \in DOMAIN h :
         h[i].server \in {"none", "ok"} /\ h[i].think # "bad" /\ ~NoContent(h[i])

(* What this program has left in a memory file: calls with all their       *)
(* results, whatever else is wrong with the messages.  A message of        *)
(* nothing but unusable thinking is one that loading cannot mend.          *)
Stored(h) ==
    /\ h \in Seq(Message)
    /\ h # << >> => h[Len(h)].calls = {}
    /\ \A i \in 2..Len(h) : h[i].results = h[i - 1].calls
    /\ \A i \in DOMAIN h :
         /\ h[i].calls = {} \/ h[i].results = {}
         /\ h[i].stubs = {} /\ h[i].big \subseteq h[i].results
         /\ Sanitized(h[i]).think # "bad"

=============================================================================
