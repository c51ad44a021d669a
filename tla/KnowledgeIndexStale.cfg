SPECIFICATION Spec
CONSTANTS
 Files = {f1}
 Texts = {a, b}
 MaxClock = 4
 MaxFaults = 0
 None = None
 Torn = Torn
 Mixed = Mixed
SYMMETRY Symmetry
PROPERTY UpdateIsSearchable
