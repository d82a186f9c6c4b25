--------------------------- MODULE PromotionAuthority ---------------------------
(***************************************************************************)
(* PromotionAuthority (src/promotion_authority.py): grants bound to a      *)
(* repository's proof receipt, valid for a while, and verify_bound_grant,  *)
(* which checks one against the receipt file as it is now.                 *)
(*                                                                         *)
(* A receipt's content is the source it names and a version; its digest    *)
(* is the content. A MAC is the secret and the body it was computed over.  *)
(***************************************************************************)
EXTENDS Naturals, FiniteSets

CONSTANTS
  Repositories,
  Sources,     \* source_sha values
  Versions,    \* contents of a receipt that name the same source
  Ttl,         \* ttl_s
  MaxTime,     \* bound: the clock
  MaxGrants    \* bound: grants in a behaviour

VARIABLES
  now,
  proof,       \* the receipt file
  grants,      \* grants issued with the operator's secret
  result       \* the last answer, and history: what was true of its grant then

vars == <<now, proof, grants, result>>

Contents == [source : Sources, version : Versions]
Missing == [source |-> "missing", version |-> 0]
Garbage == [source |-> "garbage", version |-> 0]
Body(g) == <<g.repository, g.source, g.digest, g.until>>
Grant(repository, source, digest, until) ==
  [repository |-> repository, source |-> source, digest |-> digest, until |-> until,
   mac |-> <<"operator", <<repository, source, digest, until>>>>]

Init ==
  /\ now = 0 /\ proof = Missing /\ grants = {}
  /\ result = [answer |-> "none", issued |-> FALSE, fresh |-> FALSE, fits |-> FALSE]

-----------------------------------------------------------------------------
\* issue: for any repository, source and digest the caller names.
Issue ==
  /\ Cardinality(grants) < MaxGrants
  /\ \E repository \in Repositories, source \in Sources, digest \in Contents :
       grants' = grants \cup {Grant(repository, source, digest, now + Ttl)}
  /\ UNCHANGED <<now, proof, result>>

\* Fault: the digest of the receipt is not compared.
FitsSource(grant) == IF grant.source # proof.source THEN "SOURCE_SHA_MISMATCH" ELSE "fits"

\* What the grant says of the receipt.
Fits(grant) ==
  IF grant.digest # proof THEN "PROOF_DIGEST_MISMATCH"
  ELSE IF grant.source # proof.source THEN "SOURCE_SHA_MISMATCH" ELSE "fits"

\* verify.
Verify(grant) ==
  IF now > grant.until THEN "GRANT_EXPIRED"
  ELSE IF grant.mac # <<"operator", Body(grant)>>
  THEN "BAD_MAC" ELSE "accepted"

\* verify_bound_grant: the first check that fails answers.
Checked(grant) ==
  IF proof = Missing THEN "PROOF_RECEIPT_MISSING"
  ELSE IF proof = Garbage THEN "PROOF_RECEIPT_INVALID_JSON"
  ELSE IF Fits(grant) # "fits" THEN Fits(grant)
  ELSE IF grant.mac[1] = "absent" THEN "GRANT_MALFORMED"
  ELSE Verify(grant)

\* A grant as it was issued, with a field changed or absent, or made without the
\* secret.
Presented ==
  grants \cup {[g EXCEPT !.until = @ + 1] : g \in grants}
         \cup {[g EXCEPT !.source = s] : g \in grants, s \in Sources}
         \cup {[g EXCEPT !.repository = r] : g \in grants, r \in Repositories}
         \cup {[g EXCEPT !.mac[1] = maker] : g \in grants, maker \in {"other", "absent"}}

Check ==
  /\ \E grant \in Presented :
       result' = [answer |-> Checked(grant), issued |-> grant \in grants,
                  fresh |-> now <= grant.until /\ grant.until <= now + Ttl,
                  fits |-> proof = grant.digest /\ proof.source = grant.source]
  /\ UNCHANGED <<now, proof, grants>>

ReceiptChanges ==
  /\ proof' \in Contents \cup {Missing, Garbage}
  /\ UNCHANGED <<now, grants, result>>

TimePasses ==
  /\ now < MaxTime
  /\ now' = now + 1
  /\ UNCHANGED <<proof, grants, result>>

Next == Issue \/ Check \/ ReceiptChanges \/ TimePasses

Spec == Init /\ [][Next]_vars

-----------------------------------------------------------------------------
(* Properties.                                                             *)

(* "Fail-closed on any mismatch": a grant is accepted only if the authority *)
(* issued just that grant, at most its time to live ago, for the receipt    *)
(* that was in the file when it was checked and the source it names,        *)
(* however grants, receipts and the clock changed in between.               *)
AcceptedIsBound ==
  result.answer = "accepted" => result.issued /\ result.fresh /\ result.fits
=============================================================================
