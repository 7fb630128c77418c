-------------------------- MODULE MCCertIssuance --------------------------
(* Instances of CertIssuance for TLC. *)
EXTENDS CertIssuance, TLC

\* Records of different names: one directory each.
OwnDirOf == [r \in Records |-> r]

\* The records "@" and "*" of one zone: certificateDir strips "*." and gives both the
\* directory of the zone.
SharedDirOf == [r \in Records |-> CHOOSE d \in Dirs : TRUE]

Symmetry == Permutations(Procs) \union Permutations(Records)
=============================================================================
