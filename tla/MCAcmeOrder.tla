---------------------------- MODULE MCAcmeOrder ----------------------------
(* Instances of AcmeOrder for TLC. *)
EXTENDS AcmeOrder, TLC

CONSTANTS www, apex,          \* two records of one zone
          base, wild, sub,    \* www's domain and its wildcard, the other record's domain
          acc                 \* one email for both

\* www asks for its domain and the wildcard below it: two challenges of one name.
OwnerOfWildcard == (base :> www) @@ (wild :> www) @@ (sub :> apex)
NameOfWildcard == (base :> "_acme-challenge.www") @@ (wild :> "_acme-challenge.www")
                    @@ (sub :> "_acme-challenge")
OneAccount == (www :> acc) @@ (apex :> acc)

\* The records "@" and "*" of one zone: two providers, one name.
OwnerOfShared == (base :> www) @@ (sub :> apex)
NameOfShared == (base :> "_acme-challenge") @@ (sub :> "_acme-challenge")
=============================================================================
