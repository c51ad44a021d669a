SPECIFICATION Spec
CONSTANTS
 Files = {f1, f2}
 Texts = {a, b}
 MaxClock = 3
 MaxFaults = 1
 None = None
 Torn = Torn
 Mixed = Mixed
SYMMETRY Symmetry
INVARIANT TypeOK FingerprintMeansCurrent
PROPERTY BuildEndsCurrent UndoEndsCurrent BootEndsEmbedded
