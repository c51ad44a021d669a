SPECIFICATION Spec
CONSTANTS
 f1 = f1
 t1 = t1
 i1 = i1
 body = body
 Files = {f1}
 Ghost = Ghost
 Sections = {body, Updated}
 Updated = Updated
 Texts = {t1}
 Bodies <- MCBodies
 Items = {i1}
 TargetOf <- MCTargetOf
 Changes <- MCChanges
 MaxQuestions = 2
 StaleDays = 1
 MaxSessions = 2
 MaxStops = 1
 Broken = Broken
 None = None
INVARIANT TypeOK SettledInOrder InboxShowsAll
PROPERTY QueueSpec
