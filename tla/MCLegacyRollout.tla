--------------------------- MODULE MCLegacyRollout ---------------------------
(* Instances of LegacyRollout for TLC. *)
EXTENDS LegacyRollout, TLC

CONSTANTS d1, i1, i2

\* Two versions of one service.
TwoVersions == {[deployment |-> d1, image |-> i1], [deployment |-> d1, image |-> i2]}

\* What somebody can reach: GetDeployment writes an object before it is read.
Reachable == Objects \ Free
Seen == <<server, [o \in Reachable |-> object[o]], fresh \intersect Reachable, cached,
          locals, before, stray \intersect Reachable, misled, alone, bounds>>

\* The workers are alike, and so are the two versions.
Alike == Permutations(Workers) \union Permutations({i1, i2})
=============================================================================
