------------------------------- MODULE SbomChain -------------------------------
(***************************************************************************)
(* SBOMChain (security/sbom_chain.py): components are registered with a    *)
(* hash of their specs and an HMAC over their manifest, and verified later.*)
(* The chain keeps the manifest object it was given, not a copy, so its    *)
(* owner can still change it, the hash and the signature in it too.        *)
(*                                                                         *)
(* A hash is the data hashed. A signature is <<what it covers, the data>>  *)
(* when the chain's key made it, and Foreign otherwise. A manifest is its  *)
(* manufacturer and its specs: the rest of it is signed as they are, and   *)
(* not looked at.                                                          *)
(***************************************************************************)
EXTENDS Naturals, Sequences, FiniteSets

CONSTANTS
  Components,   \* component ids
  Specs,        \* values of a manifest's specs
  MaxAudit,     \* length beyond which the audit log is halved
  MaxVerified   \* bound: verifications in a behaviour

VARIABLES
  known,       \* _known_components: the manifest as it is, what was hashed and signed
  audit,       \* _audit_log
  counts,      \* the four counters
  chainValid   \* what verify_chain last answered

vars == <<known, audit, counts, chainValid>>

Foreign == <<"foreign", 0>>
Absent == 0
Unsigned == <<"none", 0>>
Manifest(maker, specs) ==
  [maker |-> maker, specs |-> specs,
   hashed |-> specs,                               \* sbom_hash
   signed |-> <<"manifest", <<maker, specs>>>>,    \* signature
   original |-> <<maker, specs>>]                  \* history: as registered
NoManifest == [Manifest("none", Absent) EXCEPT !.signed = Foreign]

Init ==
  /\ known = [c \in Components |-> NoManifest]
  /\ audit = <<>>
  /\ counts = [verified |-> 0, trusted |-> 0, untrusted |-> 0, tampered |-> 0]
  /\ chainValid = FALSE

Registered(c) == known[c].maker # "none"
Contents(m) == <<m.maker, m.specs>>
ManifestSigned(m) == <<"manifest", Contents(m)>>

-----------------------------------------------------------------------------
(* verify_component.                                                       *)

\* Fault: specs that are not there count as matching.
LooseHash(c, specs) == specs = Absent \/ specs = known[c].hashed \/ ~ Registered(c)

\* Without a record there is nothing to compare with.
HashValid(c, specs) == specs # Absent /\ (Registered(c) => specs = known[c].hashed)

\* A signature given with specs must cover the specs alone. Otherwise the
\* stored manifest is checked against its own signature.
SignatureValid(c, specs, signature) ==
  IF signature # Unsigned /\ specs # Absent THEN signature = <<"specs", specs>>
  ELSE Registered(c) /\ ManifestSigned(known[c]) = known[c].signed

\* The manufacturer is the one the data names, whatever was registered.
Verdict(c, maker, specs, signature) ==
  LET trusted == maker = "trusted"
      hashed == HashValid(c, specs)
      signed == SignatureValid(c, specs, signature)
  IN [trusted |-> trusted, passed |-> trusted /\ hashed /\ signed,
      tampered |-> specs # Absent /\ Registered(c) /\ ~ hashed,
      (* history *)
      intact |-> /\ Registered(c) => \/ specs = known[c].original[2]
                                     \/ known[c].hashed # known[c].original[2]
                 /\ \/ signature = <<"specs", specs>>
                    \/ Registered(c) /\ Contents(known[c]) = known[c].original]

\* The log keeps its newer half when it is too long.
Logged(log, entry) ==
  LET longer == Append(log, entry)
  IN  IF Len(longer) > MaxAudit
      THEN SubSeq(longer, Len(longer) - MaxAudit \div 2 + 1, Len(longer)) ELSE longer

One(condition) == IF condition THEN 1 ELSE 0

\* A manufacturer that is not trusted counts as untrusted twice.
Counted(n, entry) ==
  [verified |-> n.verified + 1,
   trusted |-> n.trusted + One(entry.passed),
   untrusted |-> n.untrusted + One(~ entry.trusted) + One(~ entry.passed),
   tampered |-> n.tampered + One(entry.tampered)]

\* The log and the counters, and what one more verification makes of them.
Log == [audit |-> audit, counts |-> counts]

Entered(log, entry) ==
  [audit |-> Logged(log.audit, entry), counts |-> Counted(log.counts, entry)]

Enter(log) ==
  /\ log.counts.verified <= MaxVerified
  /\ audit' = log.audit /\ counts' = log.counts

Signatures == {Unsigned} \cup {<<"specs", s>> : s \in Specs}

VerifyComponent(c) ==
  /\ \E maker \in {"trusted", "other"}, specs \in Specs \cup {Absent},
        signature \in Signatures :
       Enter(Entered(Log, Verdict(c, maker, specs, signature)))
  /\ UNCHANGED <<known, chainValid>>

\* verify_chain hands in the manifest's own signature, which covers the whole
\* manifest, and looks only at "trusted" of the answers.
Recheck(c) == LET m == known[c] IN Verdict(c, m.maker, m.specs, m.signed)

\* The ids in their order; those without a record are not verified.
VerifyChain(ids) ==
  LET after[i \in 0 .. Len(ids)] ==
        IF i = 0 THEN Log
        ELSE IF Registered(ids[i]) THEN Entered(after[i - 1], Recheck(ids[i])) ELSE after[i - 1]
  IN /\ Enter(after[Len(ids)])
     /\ chainValid' = \A i \in DOMAIN ids : Registered(ids[i]) /\ Recheck(ids[i]).trusted
     /\ UNCHANGED known

-----------------------------------------------------------------------------
\* register_component, also again.
RegisterComponent(c) ==
  /\ \E maker \in {"trusted", "other"}, specs \in Specs :
       known' = [known EXCEPT ![c] = Manifest(maker, specs)]
  /\ UNCHANGED <<audit, counts, chainValid>>

\* What the owner can make of a registered manifest.
Changed(m) ==
  {[m EXCEPT !.maker = maker] : maker \in {"trusted", "other"}}
  \cup {[m EXCEPT !.specs = specs] : specs \in Specs}
  \cup {[m EXCEPT !.hashed = specs] : specs \in Specs}
  \cup {[m EXCEPT !.signed = signed] : signed \in {Foreign} \cup {<<"specs", s>> : s \in Specs}}

ChangeManifest(c) ==
  /\ Registered(c)
  /\ \E m \in Changed(known[c]) : known' = [known EXCEPT ![c] = m]
  /\ UNCHANGED <<audit, counts, chainValid>>

Next == \/ \E c \in Components : VerifyComponent(c) \/ RegisterComponent(c) \/ ChangeManifest(c)
        \/ \E n \in 0 .. MaxVerified : \E ids \in [1 .. n -> Components] : VerifyChain(ids)

Spec == Init /\ [][Next]_vars

-----------------------------------------------------------------------------
(* Properties.                                                             *)

TypeOK ==
  /\ \A c \in Components : known[c].specs \in Specs \cup {Absent}
  /\ Len(audit) <= MaxAudit
  /\ counts.verified \in 0 .. MaxVerified

(* A verification passes only for specs that are the ones registered, if    *)
(* the component is registered and its owner has not replaced their hash,   *)
(* and that the key's holder signed, or whose manifest is just what was     *)
(* registered; the counters agree: each verification is counted once as     *)
(* trusted or once or twice as untrusted, and the log says so, however      *)
(* registrations, changes of the retained manifest and checks follow.       *)
PassedIsGenuine ==
  /\ \A i \in DOMAIN audit : audit[i].passed => audit[i].trusted /\ audit[i].intact
  /\ LET failed == counts.verified - counts.trusted IN
       failed <= counts.untrusted /\ counts.untrusted <= 2 * failed
  /\ counts.verified < MaxAudit =>
       counts.trusted = Cardinality({i \in DOMAIN audit : audit[i].passed})
=============================================================================
