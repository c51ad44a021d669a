SPECIFICATION Spec
CONSTANTS
 t1 = t1
 k1 = k1
 k2 = k2
 u1 = u1
 u2 = u2
 g1 = g1
 c1 = c1
 Tokens = {t1}
 Users = {u1, u2}
 Owner <- MCOwner
 Absent = Absent
 MaxEvents = 4
 Contents <- MCContents
 Invalid = Invalid
 MaxTicks = 1
 MaxNested = 2
 Keys = {k1, k2}
 Integrations = {g1}
 Creds = {c1}
 MaxCalls = 1
 None = None
INVARIANT TypeOK StaleIsNoticed AdmitsAsAnswered
PROPERTY TableSpec CatchesUp
CHECK_DEADLOCK FALSE
