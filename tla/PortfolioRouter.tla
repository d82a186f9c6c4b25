---------------------------- MODULE PortfolioRouter ----------------------------
(***************************************************************************)
(* The portfolio registry and its router (core/portfolio_router.py): what  *)
(* validate_registry accepts and how, and what is then routed.             *)
(*                                                                         *)
(* An id in the file is a name with spaces around it; validation strips    *)
(* them, so two entries can end up under one id: the later one in the      *)
(* order of the file's ids stays. Of an entry's fields those are kept that *)
(* are compared with each other; that one of the others (pull request,     *)
(* evidence state, classification, ...) is not as required is a choice.    *)
(***************************************************************************)
EXTENDS Naturals, FiniteSets, FiniteSetsExt

CONSTANTS
  Names,          \* names of domains
  Repositories,
  MaxNumber       \* bound: artifact ids, test counts, priorities

VARIABLES
  raw,        \* the registry file
  outcome     \* "unread", "file", "mapping" or "RegistryValidationError"

vars == <<raw, outcome>>

Numbers == 1 .. MaxNumber

\* A name twice: as the file may spell it, in the order it sorts.
Ids == [name : Names, spaces : 0 .. 1]
IdSets == {ids \in SUBSET Ids : Cardinality(ids) <= 2}

Sources == [repository : Repositories, artifact : Numbers, tests : Numbers]
Candidates == [repository : Repositories, priority : Numbers]

\* Entries of a registry, under at most two ids.
Verifieds == UNION {[ids -> Sources] : ids \in IdSets}
Blockeds == UNION {[ids -> Candidates] : ids \in IdSets}

Init ==
  /\ raw = [verified |-> <<>>, blocked |-> <<>>, sources |-> 1, receipts |-> 1,
            total |-> 1]
  /\ outcome = "unread"

-----------------------------------------------------------------------------
(* validate_registry.                                                      *)

Distinct(entries, Field(_)) ==
  \A d, e \in DOMAIN entries : d # e => Field(entries[d]) # Field(entries[e])

NamesOf(entries) == {d.name : d \in DOMAIN entries}

\* What is left under a name: of two spellings the one that sorts last, without
\* the leading space.
Normalised(entries) ==
  [n \in NamesOf(entries) |->
     entries[CHOOSE d \in DOMAIN entries :
               d.name = n /\ \A e \in DOMAIN entries : e.name = n => e.spaces >= d.spaces]]

\* Fault: sources may share an artifact.
SourcesShare(r) ==
  r.verified # <<>> /\ Distinct(r.verified, LAMBDA s : s.repository)

SourcesValid(r) ==
  /\ r.verified # <<>>
  /\ Distinct(r.verified, LAMBDA s : s.repository)
  /\ Distinct(r.verified, LAMBDA s : s.artifact)

\* Priorities are compared after the ids were stripped.
CandidatesValid(r) ==
  /\ Distinct(r.blocked, LAMBDA b : b.repository)
  /\ \A d \in DOMAIN r.blocked, e \in DOMAIN r.verified :
       r.blocked[d].repository # r.verified[e].repository
  /\ Distinct(Normalised(r.blocked), LAMBDA b : b.priority)

Tests(entries) == MapThenSumSet(LAMBDA n : entries[n].tests, DOMAIN entries)

\* The source count and the tests are those of the stripped ids, the receipts
\* those of all entries.
Reconciles(r) ==
  /\ r.sources = Cardinality(NamesOf(r.verified))
  /\ r.total = Tests(Normalised(r.verified))
  /\ r.receipts = Cardinality({r.verified[d].artifact : d \in DOMAIN r.verified})

Valid(r) == SourcesValid(r) /\ CandidatesValid(r) /\ Reconciles(r)

\* The registry validate_registry returns, as it would be read again.
Stripped(r) ==
  [r EXCEPT !.verified = [d \in [name : NamesOf(@), spaces : {0}] |-> Normalised(r.verified)[d.name]],
            !.blocked = [d \in [name : NamesOf(@), spaces : {0}] |-> Normalised(r.blocked)[d.name]]]

\* Fault: only what was read is validated.
AcceptsOnce(r, from) == Reconciles(r)

\* A router over a mapping validates it; one from a file validates what
\* load_registry has validated and stripped already.
Accepts(r, from) == Reconciles(r) /\ (from = "file" => Valid(Stripped(r)))

\* The router's constructor, or from_path. The file may be missing or no JSON, and
\* another field may not be as required.
Load ==
  /\ outcome = "unread"
  /\ \/ \E v \in Verifieds, from \in {"file", "mapping"} :
          LET named == [raw EXCEPT !.verified = v] IN
          /\ SourcesValid(named)
          /\ \E b \in Blockeds : LET both == [named EXCEPT !.blocked = b] IN
               /\ CandidatesValid(both)
               /\ \E s, n \in Numbers, t \in 1 .. 2 * MaxNumber :
                    raw' = [both EXCEPT !.sources = s, !.receipts = n, !.total = t]
                    /\ Accepts(raw', from)
          /\ outcome' = from
     \/ outcome' = "RegistryValidationError" /\ UNCHANGED raw

Next == Load

-----------------------------------------------------------------------------
(* PortfolioReceiptRouter.                                                 *)

Verified == Normalised(raw.verified)
Blocked == Normalised(raw.blocked)

\* Fault: a candidate hides a verified source of its name.
RouteBlockedFirst(name) ==
  IF name \in DOMAIN Blocked
  THEN [repository |-> Blocked[name].repository, promotionReady |-> FALSE]
  ELSE [repository |-> Verified[name].repository, promotionReady |-> TRUE]

\* route: a name can be a source and a candidate, then it is the source.
Route(name) ==
  IF name \in DOMAIN Verified
  THEN [repository |-> Verified[name].repository, promotionReady |-> TRUE]
  ELSE [repository |-> Blocked[name].repository, promotionReady |-> FALSE]

Domains == DOMAIN Verified \cup DOMAIN Blocked

Spec == Init /\ [][Next]_vars

-----------------------------------------------------------------------------
(* Properties.                                                             *)

(* A registry that is accepted routes honestly: what is ready for promotion *)
(* is a verified source and no candidate's repository, the totals are those *)
(* of the public claims, and every source of the file is the one routed     *)
(* under its name. (Over a mapping, two spellings of a name can lose one:   *)
(* then the router has fewer sources than receipts. From a file the second  *)
(* validation refuses that.)                                                *)
RoutesHonestly ==
  outcome \in {"file", "mapping"} =>
    /\ \A n \in Domains : Route(n).promotionReady =>
         \A d \in DOMAIN raw.blocked : Route(n).repository # raw.blocked[d].repository
    /\ raw.sources = Cardinality({n \in Domains : Route(n).promotionReady})
    /\ raw.total = Tests(Verified)
    /\ outcome = "file" \/ raw.receipts = raw.sources =>
         \A d \in DOMAIN raw.verified :
           Route(d.name) = [repository |-> raw.verified[d].repository, promotionReady |-> TRUE]
=============================================================================
