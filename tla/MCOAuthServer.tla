----------------------------- MODULE MCOAuthServer -----------------------------
EXTENDS OAuthServer, TLC
Symmetry == Permutations(Clients) \cup Permutations(Grants)
===============================================================================
