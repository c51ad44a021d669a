-------------------------------- MODULE MCAccess --------------------------------
EXTENDS Access, TLC
CONSTANTS g1, c1, t1, k1, k2, u1, u2

\* A token has one user, another one, none, or is gone.
MCContents == [Tokens -> Users \cup {Absent, None}]
MCOwner == (k1 :> u1) @@ (k2 :> u2)
===============================================================================
