SPECIFICATION Spec
CONSTANTS
 Users = {u1, u2}
 Pids = {p1, p2}
 Reqs = {r1, r2}
 None = None
 Stale = Stale
 Reaper = Reaper
 Main = Main
SYMMETRY Symmetry
PROPERTY ReadyHasBound
