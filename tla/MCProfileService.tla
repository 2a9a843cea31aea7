-------------------------- MODULE MCProfileService --------------------------
\* Small instances of ProfileService: a token per company.
EXTENDS ProfileService, TLC

CONSTANTS p1, p2, r1, r2, agency, client, ta, tb

TokensOfTwoCompanies == (ta :> agency) @@ (tb :> client)

Permuted == Permutations({r1, r2}) \union Permutations({p1, p2})
=============================================================================
