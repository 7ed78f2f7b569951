----------------------------- MODULE TokenStore -----------------------------
(***************************************************************************)
(* The Xero token store, internal/services/xero_oauth.go.  A grant is a    *)
(* pair of an access token and a refresh token; Xero accepts a refresh     *)
(* token once and answers with the next pair.  The pair is kept in a file  *)
(* and, while the process lives, in xeroCached.  Grants are numbered in    *)
(* the order Xero makes them; None stands for no pair.                     *)
(*                                                                         *)
(* XeroRequest takes the store's lock for each of its two questions and    *)
(* sends outside of it, so callers interleave between those steps.  The    *)
(* lock is held over a whole refresh, which is one step here; a restart in *)
(* the middle of one leaves what a failed save and a restart leave.        *)
(***************************************************************************)
EXTENDS Naturals

CONSTANTS
  Callers,     \* tool calls that make requests
  MaxGrants,   \* bound: pairs Xero grants
  MaxMishaps   \* bound: lost answers, failed saves, restarts

ASSUME BoundsAssumption == MaxGrants \in Nat /\ MaxMishaps \in Nat

(* Where a caller is in XeroRequest: before it, waiting for an answer, to  *)
(* force a refresh, to ask for a token again, waiting for the last answer. *)
Places == {"idle", "sent", "force", "retry", "sent again"}

None == 0
Grants == 1..MaxGrants

VARIABLES
  file,      \* the pair in tokens.json
  cached,    \* xeroCached
  current,   \* the last pair Xero granted: its refresh token is the live one
  expired,   \* pairs past their expires_at, by the clock of the agent
  revoked,   \* pairs whose access token Xero answers with a 401
  pc,        \* the place of each caller
  token,     \* the pair each caller last sent with
  fate,      \* bookkeeping: the last grant is "saved", "unsaved" (its save
             \* failed) or "lost" (its answer was, or it was never saved)
  mishaps

vars == <<file, cached, current, expired, revoked, pc, token, fate, mishaps>>

(* The pair a step works with: LoadXeroTokens when nothing is cached.      *)
Held == IF cached # None THEN cached ELSE file

Init ==
  /\ file = None /\ cached = None /\ current = None
  /\ expired = {} /\ revoked = {}
  /\ pc = [c \in Callers |-> "idle"]
  /\ token = [c \in Callers |-> None]
  /\ fate = "saved" /\ mishaps = 0

Mishap == mishaps < MaxMishaps /\ mishaps' = mishaps + 1

-----------------------------------------------------------------------------
(* refreshXeroLocked: the outcomes of one exchange.  The two that return   *)
(* no error are Rotated; what the file holds then is up to the save, whose *)
(* failure is only logged.                                                 *)

(* The refresh token is not, or no longer, the live one.                   *)
Refused ==
  /\ Held # current
  /\ cached' = Held
  /\ UNCHANGED <<file, current, fate, mishaps>>

(* Nothing reached Xero, or it answered with an error of its own.          *)
Unsent ==
  /\ cached' = Held
  /\ UNCHANGED <<file, current, fate, mishaps>>

(* Xero granted a pair and the answer was lost or unreadable.              *)
Unread ==
  /\ Held = current /\ current < MaxGrants /\ Mishap
  /\ cached' = Held
  /\ current' = current + 1
  /\ fate' = "lost"
  /\ UNCHANGED file

(* Mutant: a failed save returns before the cached pair is replaced.       *)
RotatedIfSaved ==
  /\ Held = current /\ current < MaxGrants
  /\ current' = current + 1
  /\ \/ file' = current + 1 /\ cached' = current + 1 /\ fate' = "saved" /\ UNCHANGED mishaps
     \/ UNCHANGED file /\ cached' = Held /\ fate' = "unsaved" /\ Mishap

Rotated ==
  /\ Held = current /\ current < MaxGrants
  /\ current' = current + 1
  /\ cached' = current + 1
  /\ \/ file' = current + 1 /\ fate' = "saved" /\ UNCHANGED mishaps
     \/ UNCHANGED file /\ fate' = "unsaved" /\ Mishap

RefreshFails == Held # None /\ (Refused \/ Unsent \/ Unread)

-----------------------------------------------------------------------------
(* XeroAccessToken, called from state from, and then the request is sent.  *)
AccessToken(c, from, to) ==
  /\ pc[c] = from
  /\ \/ /\ Held = None
        /\ pc' = [pc EXCEPT ![c] = "idle"]
        /\ UNCHANGED <<file, cached, current, token, fate, mishaps>>
     \/ /\ Held # None /\ Held \notin expired
        /\ cached' = Held
        /\ token' = [token EXCEPT ![c] = Held]
        /\ pc' = [pc EXCEPT ![c] = to]
        /\ UNCHANGED <<file, current, fate, mishaps>>
     \/ /\ Held # None /\ Held \in expired
        /\ Rotated
        /\ token' = [token EXCEPT ![c] = cached']
        /\ pc' = [pc EXCEPT ![c] = to]
     \/ /\ Held \in expired
        /\ RefreshFails
        /\ pc' = [pc EXCEPT ![c] = "idle"]
        /\ UNCHANGED token
  /\ UNCHANGED <<expired, revoked>>

Request(c) == AccessToken(c, "idle", "sent")
SendAgain(c) == AccessToken(c, "retry", "sent again")

(* Any answer but a 401, or none: the request is over.  The second answer  *)
(* ends it whatever it is.                                                 *)
Answered(c) ==
  /\ \/ pc[c] = "sent"
     \/ pc[c] = "sent again"
  /\ pc' = [pc EXCEPT ![c] = "idle"]
  /\ UNCHANGED <<file, cached, current, expired, revoked, token, fate, mishaps>>

Unauthorized(c) ==
  /\ pc[c] = "sent" /\ token[c] \in revoked
  /\ pc' = [pc EXCEPT ![c] = "force"]
  /\ UNCHANGED <<file, cached, current, expired, revoked, token, fate, mishaps>>

(* The cached pair is exchanged even if another caller has just done so.   *)
(* There is one: a caller gets here only after it was given a pair.        *)
ForceXeroRefresh(c) ==
  /\ pc[c] = "force"
  /\ \/ Held # None /\ Rotated /\ pc' = [pc EXCEPT ![c] = "retry"]
     \/ RefreshFails /\ pc' = [pc EXCEPT ![c] = "idle"]
  /\ UNCHANGED <<expired, revoked, token>>

-----------------------------------------------------------------------------
(* The clock and Xero.  A token that is not yet expired may be revoked.    *)
Expire ==
  /\ \E g \in Grants : g <= current /\ g \notin expired /\ expired' = expired \cup {g}
  /\ UNCHANGED <<file, cached, current, revoked, pc, token, fate, mishaps>>

Revoke ==
  /\ \E g \in Grants : g <= current /\ g \notin revoked /\ revoked' = revoked \cup {g}
  /\ UNCHANGED <<file, cached, current, expired, pc, token, fate, mishaps>>

Stopped == [c \in Callers |-> "idle"]

Restart ==
  /\ Mishap
  /\ cached' = None
  /\ pc' = Stopped
  /\ fate' = IF fate = "saved" THEN "saved" ELSE "lost"
  /\ UNCHANGED <<file, current, expired, revoked, token>>

(* scripts/xero-bootstrap: a new pair in the file, followed by the restart *)
(* of the agent it asks the operator for.                                  *)
Bootstrap ==
  /\ current < MaxGrants
  /\ current' = current + 1
  /\ file' = current + 1
  /\ cached' = None
  /\ pc' = Stopped
  /\ fate' = "saved"
  /\ UNCHANGED <<expired, revoked, token, mishaps>>

Next ==
  \/ \E c \in Callers : \/ Request(c) \/ SendAgain(c) \/ Answered(c)
                        \/ Unauthorized(c) \/ ForceXeroRefresh(c)
  \/ Expire \/ Revoke \/ Restart \/ Bootstrap

Spec == Init /\ [][Next]_vars

-----------------------------------------------------------------------------
TypeOK ==
  /\ file \in 0..MaxGrants /\ cached \in 0..MaxGrants /\ current \in 0..MaxGrants
  /\ expired \subseteq Grants /\ revoked \subseteq Grants
  /\ pc \in [Callers -> Places]
  /\ token \in [Callers -> 0..MaxGrants]
  /\ fate \in {"saved", "unsaved", "lost"} /\ mishaps \in 0..MaxMishaps

(* The single-use refresh token survives every rotation: unless an answer  *)
(* of Xero was lost, or the process was restarted after a failed save, the *)
(* pair the next refresh will use is the live one - also after a failed    *)
(* save, when file and cache disagree (refreshXeroLocked, xero_oauth.go    *)
(* 197-206), and after forced refreshes of several callers.                *)
LiveTokenIsHeld == fate # "lost" => Held = current

=============================================================================
