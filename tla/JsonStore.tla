-------------------------------- MODULE JsonStore --------------------------------
(***************************************************************************)
(* The stores that are kept as one JSON file each: API keys (keystore.py),   *)
(* credentials of integrations (integration_store.py) and usage counters     *)
(* (usage.py), with the admin routes (admin.py) and tools (tools/apikeys.py) *)
(* that change them.  Every change is made in memory first; then the whole   *)
(* table is written to a temporary file that replaces the old one.  If that  *)
(* raises, the caller gets an error, and memory and file differ.             *)
(***************************************************************************)
EXTENDS Integers

CONSTANTS
  Keys,          \* ids of API keys
  Integrations,
  Creds,         \* credentials of an integration
  MaxCalls,      \* bound: calls metered per key
  None           \* no key, no credentials

\* Assumed by the module that instantiates this one.
StoreAssumption == MaxCalls \in Nat /\ None \notin Creds \cup {"active", "revoked"}

\* An entry is known by its store and its name there.
KeyOf(k) == <<"keys", k>>
CallsOf(k) == <<"usage", k>>
CredsOf(g) == <<"integrations", g>>

Names == {KeyOf(k) : k \in Keys} \cup {CallsOf(k) : k \in Keys}
           \cup {CredsOf(g) : g \in Integrations}

Values ==
  [n \in Names |-> IF n[1] = "keys" THEN {None, "active", "revoked"}
                   ELSE IF n[1] = "usage" THEN 0..MaxCalls
                   ELSE Creds \cup {None}]
Empty == [n \in Names |-> IF n[1] = "usage" THEN 0 ELSE None]

VARIABLES
  mem,   \* the tables in memory
  disk,  \* the tables in the files
  told   \* history: the values each entry may have, from what was answered

vars == <<mem, disk, told>>

TypeOK ==
  /\ DOMAIN mem = Names /\ DOMAIN disk = Names /\ DOMAIN told = Names
  /\ \A n \in Names :
       mem[n] \in Values[n] /\ disk[n] \in Values[n] /\ told[n] \subseteq Values[n]

Init ==
  /\ mem = Empty /\ disk = Empty
  /\ told = [n \in Names |-> {Empty[n]}]

-------------------------------------------------------------------------------

\* Mutant: the new table is answered before it is saved.
MutantSaved(n, v) ==
  /\ told' = [told EXCEPT ![n] = {v}]
  /\ disk' \in {disk, [m \in Names |-> IF m[1] = n[1] THEN mem'[m] ELSE disk[m]]}

\* The file of the store that n belongs to is replaced.
Saved(n, v) ==
  /\ told' = [told EXCEPT ![n] = {v}]
  /\ disk' = [m \in Names |-> IF m[1] = n[1] THEN mem'[m] ELSE disk[m]]

SaveRaises(n, v) ==
  /\ told' = [told EXCEPT ![n] = @ \cup {v}]
  /\ UNCHANGED disk

Put(n, v) ==
  /\ mem' = [mem EXCEPT ![n] = v]
  /\ Saved(n, v) \/ SaveRaises(n, v)

\* KeyStore.generate: apikeys_create, POST /admin/tokens.
Generate(k) == mem[KeyOf(k)] = None /\ Put(KeyOf(k), "active")

\* KeyStore.revoke: apikeys_revoke, DELETE /admin/tokens.  A key that memory
\* takes for revoked is "not found", whatever the file says.
Revoke(k) == mem[KeyOf(k)] = "active" /\ Put(KeyOf(k), "revoked")

\* meter_call at the start of a tool: the key was active when the request came,
\* and may have been revoked since.
Metered(k) == mem[KeyOf(k)] # None

\* UsageMeter.record.
Record(k) ==
  /\ Metered(k)
  /\ mem[CallsOf(k)] < MaxCalls
  /\ Put(CallsOf(k), mem[CallsOf(k)] + 1)

\* IntegrationStore.set.
Configure(g, c) == Put(CredsOf(g), c)

\* IntegrationStore.delete.
Remove(g) == mem[CredsOf(g)] # None /\ Put(CredsOf(g), None)

Restart ==
  /\ mem' = disk
  /\ UNCHANGED <<disk, told>>

Change ==
  \/ \E k \in Keys : Generate(k) \/ Revoke(k) \/ Record(k)
  \/ \E g \in Integrations : Remove(g) \/ \E c \in Creds : Configure(g, c)

Next == Change \/ Restart

Spec == Init /\ [][Next]_vars

-------------------------------------------------------------------------------
(* Properties. *)

Table == INSTANCE DurableTable WITH kept <- disk, may <- told, Blank <- Empty

\* The files keep what was answered: failing saves, retries that find nothing to
\* do, saves that carry along what an earlier one failed to save, and restarts
\* between any two changes never bring back anything else.
TableSpec == Table!Spec

\* What memory shows may have been refused to a caller, but it was asked for.
MemoryIsAsked == \A n \in Names : mem[n] \in told[n]
===============================================================================
