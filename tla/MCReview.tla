-------------------------------- MODULE MCReview --------------------------------
EXTENDS Review
CONSTANTS f1, t1, i1, body

MCTargetOf == [i \in Items |-> <<f1, body>>]
\* Others put a text with an entry into a section.
MCBodies == {<<t1, i1>>}
\* A section is replaced; a text is, if it is there still.
MCChanges == {[section |-> body, old |-> None, new |-> <<t1, i1>>],
              [section |-> None, old |-> i1, new |-> <<t1, i1>>]}
===============================================================================
