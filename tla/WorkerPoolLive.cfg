SPECIFICATION FairSpec
CONSTANTS
 Users = {u1}
 Pids = {p1, p2}
 Reqs = {r1, r2}
 None = None
 Stale = Stale
 Reaper = Reaper
 Main = Main
PROPERTY RequestsAnswered ReloadsEnd IdleIsReaped
