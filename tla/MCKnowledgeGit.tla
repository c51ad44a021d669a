---------------------------- MODULE MCKnowledgeGit ----------------------------
EXTENDS KnowledgeGit, TLC
Symmetry == Permutations(Scopes) \cup Permutations(Texts)
===============================================================================
