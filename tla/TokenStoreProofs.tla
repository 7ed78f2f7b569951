-------------------------- MODULE TokenStoreProofs --------------------------
(***************************************************************************)
(* The refresh token is not lost, for any number of callers and grants.    *)
(*                                                                         *)
(* LiveTokenIsHeld is not inductive: a restart falls back to the file,     *)
(* which the property says nothing about while a pair is cached.           *)
(* FileIsLive adds that the file is up to date unless its last save        *)
(* failed, which is what a restart counts as a loss.                       *)
(***************************************************************************)
EXTENDS TokenStore, TLAPS

FileIsLive == fate = "saved" => file = current

TokenInv == LiveTokenIsHeld /\ FileIsLive

(* A rotation puts the new pair in the cache, whatever becomes of the save. *)
LEMMA RotatedKeepsTypes == TypeOK /\ Rotated =>
    /\ file' \in 0..MaxGrants /\ cached' \in 0..MaxGrants /\ current' \in 0..MaxGrants
    /\ fate' \in {"saved", "unsaved", "lost"} /\ mishaps' \in 0..MaxMishaps
BY BoundsAssumption DEF TypeOK, Rotated, Mishap

(* A refresh that fails leaves the pair that is held.                       *)
LEMMA FailureKeepsTypes == TypeOK /\ RefreshFails =>
    /\ file' \in 0..MaxGrants /\ cached' \in 0..MaxGrants /\ current' \in 0..MaxGrants
    /\ fate' \in {"saved", "unsaved", "lost"} /\ mishaps' \in 0..MaxMishaps
BY BoundsAssumption DEF TypeOK, RefreshFails, Refused, Unsent, Unread, Mishap, Held

(* The pair of a caller and its place in XeroRequest keep their types.      *)
LEMMA AccessKeepsType ==
  ASSUME TypeOK, NEW c \in Callers, NEW from \in {"idle", "retry"},
         NEW to \in {"sent", "sent again"}, AccessToken(c, from, to)
  PROVE  TypeOK'
<1>1. Held \in 0..MaxGrants
  BY DEF TypeOK, Held
<1>2. /\ pc' \in [Callers -> Places]
      /\ token' \in [Callers -> 0..MaxGrants]
  BY <1>1, RotatedKeepsTypes DEF TypeOK, AccessToken, Places
<1>3. /\ file' \in 0..MaxGrants /\ cached' \in 0..MaxGrants /\ current' \in 0..MaxGrants
      /\ fate' \in {"saved", "unsaved", "lost"} /\ mishaps' \in 0..MaxMishaps
  BY <1>1, RotatedKeepsTypes, FailureKeepsTypes DEF TypeOK, AccessToken
<1>4. expired' \subseteq Grants /\ revoked' \subseteq Grants
  BY DEF TypeOK, AccessToken
<1> QED BY <1>2, <1>3, <1>4 DEF TypeOK

(* Every variable keeps its type.                                           *)
LEMMA StepKeepsType == TypeOK /\ [Next]_vars => TypeOK'
<1> SUFFICES ASSUME TypeOK, [Next]_vars PROVE TypeOK'
  OBVIOUS
<1>1. ASSUME NEW c \in Callers, Request(c) \/ SendAgain(c) PROVE TypeOK'
  BY <1>1, AccessKeepsType DEF Request, SendAgain
<1>2. ASSUME NEW c \in Callers, Answered(c) \/ Unauthorized(c) PROVE TypeOK'
  BY <1>2 DEF TypeOK, Answered, Unauthorized, Places
<1>3. ASSUME NEW c \in Callers, ForceXeroRefresh(c) PROVE TypeOK'
  <2>1. pc' \in [Callers -> Places]
    BY <1>3 DEF TypeOK, ForceXeroRefresh, Places
  <2> QED BY <1>3, <2>1, RotatedKeepsTypes, FailureKeepsTypes DEF TypeOK, ForceXeroRefresh
<1>4. CASE Expire \/ Revoke
  BY <1>4 DEF TypeOK, Expire, Revoke
<1>5. CASE Restart
  <2>1. pc' \in [Callers -> Places]
    BY <1>5 DEF Restart, Stopped, Places
  <2> QED BY <1>5, <2>1, BoundsAssumption DEF TypeOK, Restart, Mishap, None
<1>6. CASE Bootstrap
  <2>1. pc' \in [Callers -> Places]
    BY <1>6 DEF Bootstrap, Stopped, Places
  <2> QED BY <1>6, <2>1, BoundsAssumption DEF TypeOK, Bootstrap, None
<1>7. CASE UNCHANGED vars
  BY <1>7 DEF vars, TypeOK
<1> QED BY <1>1, <1>2, <1>3, <1>4, <1>5, <1>6, <1>7 DEF Next

(* Every variable keeps its type, for any callers and bounds.               *)
THEOREM TypeCorrect == Spec => []TypeOK
<1>1. Init => TypeOK
  <2>1. Init => pc \in [Callers -> Places]
    BY DEF Init, Places
  <2> QED BY <2>1, BoundsAssumption DEF Init, TypeOK, None
<1> QED BY <1>1, StepKeepsType, PTL DEF Spec

-----------------------------------------------------------------------------
(* After a rotation the cache has the live pair; the file too, unless the   *)
(* save failed.                                                             *)
LEMMA RotatedKeepsToken == TypeOK /\ TokenInv /\ Rotated => TokenInv'
<1> SUFFICES ASSUME TypeOK, TokenInv, Rotated PROVE TokenInv'
  OBVIOUS
<1>1. cached' = current' /\ cached' # None
  BY BoundsAssumption DEF TypeOK, Rotated, None
<1>2. Held' = current'
  BY <1>1 DEF Held
<1>3. fate' = "saved" => file' = current'
  BY DEF Rotated
<1> QED BY <1>2, <1>3 DEF TokenInv, LiveTokenIsHeld, FileIsLive

(* A refused pair was lost before; a grant that is not read is lost now.    *)
LEMMA FailureKeepsToken == TokenInv /\ RefreshFails => TokenInv'
BY DEF TokenInv, LiveTokenIsHeld, FileIsLive, RefreshFails, Refused, Unsent, Unread,
       Held, None

(* Every step keeps the live pair, or counts as a loss.                     *)
LEMMA StepKeepsToken == TypeOK /\ TokenInv /\ [Next]_vars => TokenInv'
<1> SUFFICES ASSUME TypeOK, TokenInv, [Next]_vars PROVE TokenInv'
  OBVIOUS
<1> USE DEF TokenInv, LiveTokenIsHeld, FileIsLive, Held, None
<1>1. ASSUME NEW c \in Callers, NEW from, NEW to, AccessToken(c, from, to) PROVE TokenInv'
  <2>1. CASE Rotated
    BY <2>1, RotatedKeepsToken
  <2>2. CASE RefreshFails
    BY <2>2, FailureKeepsToken
  <2> QED BY <1>1, <2>1, <2>2 DEF AccessToken
<1>2. ASSUME NEW c \in Callers, Answered(c) \/ Unauthorized(c) PROVE TokenInv'
  BY <1>2 DEF Answered, Unauthorized
<1>3. ASSUME NEW c \in Callers, ForceXeroRefresh(c) PROVE TokenInv'
  BY <1>3, RotatedKeepsToken, FailureKeepsToken DEF ForceXeroRefresh
<1>4. CASE Expire \/ Revoke
  BY <1>4 DEF Expire, Revoke
<1>5. CASE Restart
  BY <1>5 DEF Restart
<1>6. CASE Bootstrap
  BY <1>6 DEF Bootstrap
<1>7. CASE UNCHANGED vars
  BY <1>7 DEF vars
<1> QED BY <1>1, <1>2, <1>3, <1>4, <1>5, <1>6, <1>7 DEF Next, Request, SendAgain

(* The single-use refresh token of Xero survives every rotation: unless an  *)
(* answer was lost, or a restart followed a failed save, the next refresh   *)
(* is made with the live token (refreshXeroLocked, xero_oauth.go).          *)
THEOREM RefreshTokenSurvives == Spec => []LiveTokenIsHeld
<1>1. Init => TokenInv
  BY DEF Init, TokenInv, LiveTokenIsHeld, FileIsLive, Held
<1>2. TokenInv => LiveTokenIsHeld
  BY DEF TokenInv
<1> QED BY <1>1, <1>2, TypeCorrect, StepKeepsToken, PTL DEF Spec
=============================================================================
