------------------------------- MODULE ReviewQueue -------------------------------
(***************************************************************************)
(* What a queue of things to review promises: the items of the inbox         *)
(* (tools/inbox.py) and the questions of a maintenance session               *)
(* (tools/maintain.py).  Each thing is settled once, as accepted or as       *)
(* dismissed, or is lost unsettled; accepting it applies its change to the   *)
(* vault.  A call that is cut short after its change was applied leaves the  *)
(* thing open, or loses it: then the change may be applied again.            *)
(***************************************************************************)
EXTENDS Naturals

CONSTANT Things

VARIABLES
  fate,   \* what has become of each thing
  times,  \* how often its change has been applied
  cuts    \* how often a call was cut short after applying it

Fates == {"new", "open", "accepted", "dismissed", "gone"}

TypeOK ==
  /\ fate \in [Things -> Fates]
  /\ times \in [Things -> Nat]
  /\ cuts \in [Things -> Nat]

Init ==
  /\ fate = [t \in Things |-> "new"]
  /\ times = [t \in Things |-> 0]
  /\ cuts = [t \in Things |-> 0]

Counts(t, n, c) == times'[t] = times[t] + n /\ cuts'[t] = cuts[t] + c

Stays(t) == fate'[t] = fate[t] /\ Counts(t, 0, 0)

Open(t) == fate[t] = "new" /\ fate'[t] = "open" /\ Counts(t, 0, 0)

Accept(t) == fate[t] = "open" /\ fate'[t] = "accepted" /\ Counts(t, 1, 0)

Dismiss(t) == fate[t] = "open" /\ fate'[t] = "dismissed" /\ Counts(t, 0, 0)

CutShort(t) == fate[t] = "open" /\ fate'[t] \in {"open", "gone"} /\ Counts(t, 1, 1)

Vanish(t) == fate[t] \in {"new", "open"} /\ fate'[t] = "gone" /\ Counts(t, 0, 0)

\* A session that is replaced takes all its questions with it: things move together.
Next ==
  /\ TypeOK'
  /\ \A t \in Things :
       Stays(t) \/ Open(t) \/ Accept(t) \/ Dismiss(t) \/ CutShort(t) \/ Vanish(t)

Spec == Init /\ [][Next]_<<fate, times, cuts>>

\* The change of a thing is applied once if the thing is accepted, and once more
\* for each call that was cut short; that of a dismissed thing, never otherwise.
AppliedOnceUnlessCut ==
  \A t \in Things : times[t] = cuts[t] + (IF fate[t] = "accepted" THEN 1 ELSE 0)
===============================================================================
