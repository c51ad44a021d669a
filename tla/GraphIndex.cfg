SPECIFICATION Spec
CONSTANTS
 f1 = f1
 f2 = f2
 n1 = n1
 m1 = m1
 m2 = m2
 s1 = s1
 Files = {f1, f2}
 Names = {n1, m1, m2}
 NameOf <- MCNameOf
 Sections = {s1}
 Texts <- MCTexts
 Views <- MCViews
 MaxClock = 3
 None = None
INVARIANT TypeOK EndpointsExist FingerprintMeansCurrent CacheShowsGraph EdgesAreRelated
PROPERTY BuildEndsCurrent
