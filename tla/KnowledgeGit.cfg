SPECIFICATION Spec
CONSTANTS
 Scopes = {s1, s2}
 Projects = {p}
 Meta = m
 Texts = {a, b}
 None = None
 MaxUndo = 2
 MaxCommits = 6
 MaxCalls = 5
SYMMETRY Symmetry
INVARIANT TypeOK SavedUnlessHurt UndoMirrors
PROPERTY CommitsOwnFiles
CHECK_DEADLOCK FALSE
