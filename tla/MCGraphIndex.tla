----------------------------- MODULE MCGraphIndex -----------------------------
EXTENDS GraphIndex
CONSTANTS f1, f2, n1, m1, m2, s1

MCNameOf == [f \in Files |-> IF f = f1 THEN m1 ELSE m2]

\* f1 by path, with a tag; f1 in [[ ]] and f2 by @, with the tag, under a heading.
MCTexts == {[t \in Targets |-> IF t = f1 THEN "file" ELSE IF t = n1 THEN "tag" ELSE None],
            [t \in Targets |-> IF t = f2 THEN "reference" ELSE IF t = m1 THEN "concept"
                               ELSE IF t = n1 THEN "tag"
                               ELSE IF t = s1 THEN "section" ELSE None]}
MCViews == {Files}
===============================================================================
