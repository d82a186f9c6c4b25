-------------------------------- MODULE Records --------------------------------
(***************************************************************************)
(* What keeps and attests records, together: the tick archive of           *)
(* AspenBridge, the sidecars' shadow memory, the SBOM chain, promotion     *)
(* grants, the portfolio registry, the microcode tables and the pipeline's *)
(* runs. They share no state, so a behaviour is one of one of them, with   *)
(* the others at rest; the variable part says which.                       *)
(***************************************************************************)
EXTENDS AspenBridge

CONSTANTS
  Sidecars, Keys, MaxUpdates,                                     \* Sidecar
  Manifested, Specs, MaxAudit, MaxVerified,                       \* SbomChain
  Leaves, Shas, Receipts, Ttl, MaxTime, MaxGrants,                \* PromotionAuthority
  Names, Repositories, MaxNumber,                                 \* PortfolioRouter
  Devices, Versions, Combinations, Gpus, MaxPatches, MaxRecords,  \* Microcode
  MaxRuns                                                         \* DevOpsPipeline

\* Versions and specs are numbers; 0 is none. A log of one entry has no half.
ASSUME RecordsAssumption ==
  /\ MaxUpdates \in Nat /\ Keys # {}
  /\ Specs \subseteq Nat \ {0}
  /\ MaxAudit \in Nat \ {0, 1} /\ MaxVerified \in Nat
  /\ Ttl \in Nat /\ MaxNumber \in Nat
  /\ Versions \subseteq Nat \ {0}

VARIABLES
  part,
  file, at, key, memory, updates, reading, content, disturbed, newest,   \* Sidecar
  known, audit, counts, chainValid,                                      \* SbomChain
  clock, proof, grants, result,                                          \* PromotionAuthority
  raw, outcome,                                                          \* PortfolioRouter
  active, patches, matrix, alarms, records, incompatible, base, orderly, \* Microcode
  runs                                                                   \* DevOpsPipeline

sidecarVars == <<file, at, key, memory, updates, reading, content, disturbed, newest>>
sbomVars == <<known, audit, counts, chainValid>>
grantVars == <<clock, proof, grants, result>>
registryVars == <<raw, outcome>>
codeVars == <<active, patches, matrix, alarms, records, incompatible, base, orderly>>

Side == INSTANCE Sidecar WITH phase <- at, stored <- content
Sbom == INSTANCE SbomChain WITH Components <- Manifested
Promotion == INSTANCE PromotionAuthority WITH Repositories <- Leaves, Sources <- Shas,
                                                Versions <- Receipts, now <- clock
Portfolio == INSTANCE PortfolioRouter
Code == INSTANCE Microcode WITH Components <- Devices
Pipe == INSTANCE DevOpsPipeline

AllInit ==
  /\ part \in {"archive", "sidecar", "sbom", "promotion", "portfolio", "patcher",
               "firmware", "drivers", "pipeline"}
  /\ Init /\ Side!Init /\ Sbom!Init /\ Promotion!Init /\ Portfolio!Init
  /\ Code!Init /\ Pipe!Init
  /\ key = [s \in Sidecars |-> CHOOSE k \in Keys : TRUE]

\* A step of the part, which leaves the others as they are.
Archive == Next
           /\ UNCHANGED <<sidecarVars, sbomVars, grantVars, registryVars, codeVars, runs>>
Memory == Side!Next
           /\ UNCHANGED <<vars, sbomVars, grantVars, registryVars, codeVars, runs>>
Chain == Sbom!Next
           /\ UNCHANGED <<vars, sidecarVars, grantVars, registryVars, codeVars, runs>>
Grant == Promotion!Next
           /\ UNCHANGED <<vars, sidecarVars, sbomVars, registryVars, codeVars, runs>>
Registry == Portfolio!Next
           /\ UNCHANGED <<vars, sidecarVars, sbomVars, grantVars, codeVars, runs>>
Tables == /\ \/ part = "patcher" /\ Code!Patch
             \/ part = "firmware" /\ (Code!RegisterFirmware \/ Code!TickFirmware)
             \/ part = "drivers" /\ (Code!RegisterRecord \/ Code!RegisterIncompatible)
          /\ UNCHANGED <<vars, sidecarVars, sbomVars, grantVars, registryVars, runs>>
Pipeline == Pipe!Next
           /\ UNCHANGED <<vars, sidecarVars, sbomVars, grantVars, registryVars, codeVars>>

\* The clients, operators and checks behind these parts may be done.
Rest == /\ part \notin {"archive", "sidecar"}
        /\ UNCHANGED <<vars, sidecarVars, sbomVars, grantVars, registryVars, codeVars, runs>>

AllNext ==
  /\ UNCHANGED part
  /\ \/ part = "archive" /\ Archive
     \/ part = "sidecar" /\ Memory
     \/ part = "sbom" /\ Chain
     \/ part = "promotion" /\ Grant
     \/ part = "portfolio" /\ Registry
     \/ Tables
     \/ part = "pipeline" /\ Pipeline
     \/ Rest

allVars == <<vars, part, sidecarVars, sbomVars, grantVars, registryVars, codeVars, runs>>

AllSpec == AllInit /\ [][AllNext]_allVars

(* Each part's fields hold values its code can give them.                  *)
TypesOK == TypeOK /\ Side!TypeOK /\ Sbom!TypeOK /\ Code!TypeOK

(* A sidecar's update stays in the shadow memory unless processes overlap. *)
UpdatesKept == Side!UpdatesKept

(* What is attested is genuine: an SBOM entry logged as passed, and a      *)
(* promotion token that is accepted.                                       *)
AttestedIsGenuine == Sbom!PassedIsGenuine /\ Promotion!AcceptedIsBound

(* What is published is true of the runs and records behind it: a route,   *)
(* and a pipeline without a failed gate.                                   *)
PublishedIsTested == Portfolio!RoutesHonestly /\ Pipe!GreenMeansTested

(* Patches undone in the reverse order leave the versions they found.      *)
RollbackUndoes == Code!RollbackUndoes

(* A driver combination found incompatible is not found compatible later.  *)
VerdictStands == Code!VerdictStands
=============================================================================
