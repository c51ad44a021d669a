---------------------------- MODULE MCKnowledgeIndex ----------------------------
EXTENDS KnowledgeIndex, TLC
Symmetry == Permutations(Files) \cup Permutations(Texts)
===============================================================================
