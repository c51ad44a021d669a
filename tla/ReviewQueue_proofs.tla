---------------------------- MODULE ReviewQueue_proofs ----------------------------
(***************************************************************************)
(* Proofs about ReviewQueue, and so, through the refinement the run review   *)
(* checks, about the inbox and the maintenance sessions.                     *)
(***************************************************************************)
EXTENDS ReviewQueue, TLAPS

IInv == TypeOK /\ AppliedOnceUnlessCut

LEMMA InitIInv == Init => IInv
BY DEF Init, IInv, TypeOK, Fates, AppliedOnceUnlessCut

\* What may happen to one thing in a step of the queue.
Step(t) == Stays(t) \/ Open(t) \/ Accept(t) \/ Dismiss(t) \/ CutShort(t) \/ Vanish(t)

\* Each step of a thing keeps the count of its changes right.
LEMMA StepCounts ==
  ASSUME IInv, TypeOK', NEW t \in Things, Step(t)
  PROVE  times'[t] = cuts'[t] + (IF fate'[t] = "accepted" THEN 1 ELSE 0)
<1>. /\ times[t] \in Nat /\ cuts[t] \in Nat /\ fate[t] \in Fates
     /\ times'[t] \in Nat /\ cuts'[t] \in Nat
  BY DEF IInv, TypeOK
<1>1. times[t] = cuts[t] + (IF fate[t] = "accepted" THEN 1 ELSE 0)
  BY DEF IInv, AppliedOnceUnlessCut
<1>2. CASE Stays(t)
  BY <1>1, <1>2 DEF Stays, Counts
<1>3. CASE Open(t) \/ Dismiss(t) \/ Vanish(t)
  BY <1>1, <1>3 DEF Open, Dismiss, Vanish, Counts
<1>4. CASE Accept(t)
  BY <1>1, <1>4 DEF Accept, Counts
<1>5. CASE CutShort(t)
  BY <1>1, <1>5 DEF CutShort, Counts
<1>. QED  BY <1>2, <1>3, <1>4, <1>5 DEF Step

LEMMA NextIInv == IInv /\ [Next]_<<fate, times, cuts>> => IInv'
<1>1. ASSUME IInv, Next PROVE IInv'
  <2>1. TypeOK'
    BY <1>1 DEF Next
  <2>2. ASSUME NEW t \in Things PROVE Step(t)
    BY <1>1 DEF Next, Step
  <2>3. AppliedOnceUnlessCut'
    BY <1>1, <2>1, <2>2, StepCounts DEF AppliedOnceUnlessCut
  <2>. QED  BY <2>1, <2>3 DEF IInv
<1>2. ASSUME IInv, UNCHANGED <<fate, times, cuts>> PROVE IInv'
  BY <1>2 DEF IInv, TypeOK, AppliedOnceUnlessCut
<1>. QED  BY <1>1, <1>2

\* The change of a thing is applied once if the thing is accepted and once for
\* each call that was cut short, and so never for a dismissed thing that no call
\* was cut short about: inbox.py and maintain.py, whatever the number of things.
THEOREM AppliedOnce == Spec => []AppliedOnceUnlessCut
<1>1. IInv => AppliedOnceUnlessCut
  BY DEF IInv
<1>. QED  BY InitIInv, NextIInv, <1>1, PTL DEF Spec

\* What a thing is settled as, it stays.
Final ==
  [][\A t \in Things :
       fate[t] \in {"accepted", "dismissed", "gone"} =>
         fate'[t] = fate[t] /\ times'[t] = times[t]]_<<fate, times, cuts>>

\* A settled thing is never settled again, nor its change applied again.
THEOREM SettledForGood == Spec => Final
<1>1. ASSUME IInv, [Next]_<<fate, times, cuts>>, NEW t \in Things,
             fate[t] \in {"accepted", "dismissed", "gone"}
      PROVE  fate'[t] = fate[t] /\ times'[t] = times[t]
  <2>. times[t] \in Nat
    BY <1>1 DEF IInv, TypeOK
  <2>1. CASE UNCHANGED <<fate, times, cuts>>
    BY <2>1
  <2>2. CASE Next
    <3>1. Step(t)
      BY <2>2 DEF Next, Step
    <3>. QED  BY <1>1, <3>1 DEF Step, Stays, Open, Accept, Dismiss, CutShort, Vanish, Counts
  <2>. QED  BY <1>1, <2>1, <2>2
<1>2. IInv /\ [Next]_<<fate, times, cuts>> =>
        [\A t \in Things :
           fate[t] \in {"accepted", "dismissed", "gone"} =>
             fate'[t] = fate[t] /\ times'[t] = times[t]]_<<fate, times, cuts>>
  BY <1>1
<1>. QED  BY InitIInv, NextIInv, <1>2, PTL DEF Spec, Final
===============================================================================
