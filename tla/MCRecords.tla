------------------------------- MODULE MCRecords -------------------------------
(***************************************************************************)
(* Symmetry for TLC. Processes are alike, and so are the source shas of    *)
(* grants. No part has both, so the two kinds are swapped together.        *)
(***************************************************************************)
EXTENDS Records, TLC

CONSTANTS p1, p2, sha1, sha2

Alike == {f \in Permutations({p1, p2, sha1, sha2}) :
            {f[p1], f[p2]} = {p1, p2} /\ (f[p1] = p1 <=> f[sha1] = sha1)}
=============================================================================
