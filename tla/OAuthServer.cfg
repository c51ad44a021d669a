SPECIFICATION Spec
CONSTANTS
 Clients = {c1, c2}
 Grants = {g1, g2}
 MaxGen = 2
 None = None
SYMMETRY Symmetry
INVARIANT TypeOK IssuedSurvives OneRefreshPerGrant RotationIsFinal RevokedStaysRevoked
