------------------------------ MODULE DurableTable ------------------------------
(***************************************************************************)
(* What a persistent table promises: a change that was answered as done is   *)
(* kept; one whose answer was an error may be kept or not, and no other      *)
(* value ever appears.                                                       *)
(***************************************************************************)
CONSTANTS Names, Values, Blank

VARIABLES
  kept,  \* the value of each name that a restart brings back
  may    \* the values it may have, from what was answered

TypeOK ==
  /\ DOMAIN kept = Names /\ DOMAIN may = Names
  /\ \A n \in Names : kept[n] \in Values[n] /\ may[n] \subseteq Values[n]

Init ==
  /\ kept = [n \in Names |-> Blank[n]]
  /\ may = [n \in Names |-> {Blank[n]}]

\* A change is answered as done; earlier ones that were not may become so too.
Done(n, v) ==
  /\ may' = [may EXCEPT ![n] = {v}]
  /\ DOMAIN kept' = Names /\ \A m \in Names : kept'[m] \in may'[m]

Failed(n, v) ==
  /\ may' = [may EXCEPT ![n] = @ \cup {v}]
  /\ UNCHANGED kept

Next == \E n \in Names : \E v \in Values[n] : Done(n, v) \/ Failed(n, v)

Spec == Init /\ [][Next]_<<kept, may>>

\* A restart brings back what was answered.
KeptIsAnswered == \A n \in Names : kept[n] \in may[n]
===============================================================================
