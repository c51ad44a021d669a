--------------------------------- MODULE Access ---------------------------------
(***************************************************************************)
(* The server process as far as it admits requests: by a static token        *)
(* (auth.py, AuthReload) or an API key (keystore.py, JsonStore), where       *)
(* ChainedProvider.load_access_token in oauth.py admits a request and        *)
(* tools/_perms.py finds its user; and the isolating proxy beside it         *)
(* (isolation/entrypoint.py), which reads the same files.  The server's      *)
(* requests are served, and the stores changed, by the main thread when it   *)
(* loads no file; a restart is one of all its parts.  Tokens of the OAuth    *)
(* server are those of OAuthServer.                                          *)
(***************************************************************************)
EXTENDS Integers, Sequences

CONSTANTS
  Tokens,       \* static tokens, each with an entry id of its own
  Users,
  Owner,        \* the user of each API key
  Absent,       \* a token that is not in the file
  MaxEvents,    \* bound: edits, signals, changes of the stores and starts, together
  Contents, Invalid, MaxTicks, MaxNested,  \* of AuthReload
  Keys, Integrations, Creds, MaxCalls,     \* of JsonStore
  None          \* no user, that is, the root vault; and None of the parts

ASSUME ContentsAssumption == Contents \subseteq [Tokens -> Users \cup {Absent, None}]
ASSUME OwnerAssumption == Owner \in [Keys -> Users] /\ Tokens \cap Keys = {}
ASSUME EventsAssumption == MaxEvents \in Nat

VARIABLES
  file, mtime, seen, table, stamp, held, hup, watch,  \* of AuthReload
  mem, disk, told,                                    \* of JsonStore
  loaded,  \* the keys the proxy loaded when it started
  known,   \* history: what those keys could be then, from what was answered
  events   \* events so far

Auth == INSTANCE AuthReload
Store == INSTANCE JsonStore

ASSUME PartsAssumption ==
  Auth!BoundsAssumption /\ Auth!NamesAssumption /\ Store!StoreAssumption

authVars == <<file, mtime, seen, table, stamp, held, hup, watch>>
storeVars == <<mem, disk, told>>
proxyVars == <<loaded, known>>
vars == <<authVars, storeVars, proxyVars, events>>

KeyStates == {None, "active", "revoked"}

TypeOK ==
  /\ Auth!TypeOK
  /\ Store!TypeOK
  /\ loaded \in [Keys -> KeyStates] /\ known \in [Keys -> SUBSET KeyStates]
  /\ events \in 0..MaxEvents

Init ==
  /\ Auth!Init /\ Store!Init
  /\ loaded = [k \in Keys |-> None] /\ known = [k \in Keys |-> {None}]
  /\ events = 0

Counted == events < MaxEvents /\ events' = events + 1

Serving == Auth!Calm /\ watch.pc # "boot"

Serve ==
  /\ Serving /\ Counted
  /\ Store!Change
  /\ UNCHANGED <<authVars, proxyVars>>

Edit ==
  /\ Counted
  /\ \E c \in Contents \cup {Invalid} : Auth!Edit(c)
  /\ UNCHANGED <<storeVars, proxyVars>>

Signal == Counted /\ Auth!Signal /\ UNCHANGED <<storeVars, proxyVars>>

Read == Auth!Enter /\ UNCHANGED <<storeVars, proxyVars, events>>

Main == Auth!Main /\ UNCHANGED <<storeVars, proxyVars, events>>

Watcher == Auth!Watcher /\ UNCHANGED <<storeVars, proxyVars, events>>

Restart ==
  /\ Counted
  /\ Auth!Restart /\ Store!Restart
  /\ UNCHANGED proxyVars

\* The proxy loads the keys once, when it starts; none of its routes changes them.
ProxyStarts ==
  /\ Counted
  /\ loaded' = [k \in Keys |-> disk[Store!KeyOf(k)]]
  /\ known' = [k \in Keys |-> told[Store!KeyOf(k)]]
  /\ UNCHANGED <<authVars, storeVars>>

Next ==
  Serve \/ Edit \/ Signal \/ Read \/ Main \/ Watcher \/ Restart \/ ProxyStarts

\* A thread that is not blocked runs; one that waits for a lock which is free
\* again and again gets it.
Fairness == WF_vars(Main) /\ SF_vars(Watcher)

Spec == Init /\ [][Next]_vars /\ Fairness

-------------------------------------------------------------------------------
(* Admission. *)

Listed(content, t) == content # None /\ content # Invalid /\ content[t] # Absent

\* The user that the entry of t names, if there is an entry and it names one.
UserIn(content, t) == IF Listed(content, t) THEN content[t] ELSE None

\* Mutant: revoked keys are found too.
MutantAdmitted(c) ==
  IF c \in Tokens THEN Listed(table, c) ELSE mem[Store!KeyOf(c)] # None

\* load_access_token: the bearer token c is in the table, or an active key.
Admitted(c) ==
  IF c \in Tokens THEN Listed(table, c) ELSE mem[Store!KeyOf(c)] = "active"

\* get_current_user_id: the user of a request that c was admitted for, now or
\* earlier, by its entry in the table of now or its key.
UserOf(c) ==
  IF c \in Tokens THEN UserIn(table, c)
  ELSE IF mem[Store!KeyOf(c)] = "active" THEN Owner[c] ELSE None

\* _resolve_user_id: the proxy admits who has a user, and none else.  It takes its
\* lock twice, so a load may come in between: verified says whether c was in the
\* table the first time.  Its table is its own, loaded the same way; what is shown
\* of table holds of that one.
Routed(c, verified) ==
  IF verified THEN UserIn(table, c)
  ELSE IF c \in Keys /\ loaded[c] = "active" THEN Owner[c] ELSE None

-------------------------------------------------------------------------------
(* Properties. *)

StaleIsNoticed == Auth!StaleIsNoticed
TableSpec == Store!TableSpec

\* A key answered as created is admitted, for its owner, until its revocation is
\* asked for; one answered as revoked never is again, and a request it was admitted
\* for earlier has lost its user.
KeysAsAnswered ==
  \A k \in Keys : LET said == told[Store!KeyOf(k)] IN
    /\ said = {"active"} => Admitted(k) /\ UserOf(k) = Owner[k]
    /\ "active" \notin said => ~Admitted(k) /\ UserOf(k) = None

\* The proxy routes a key as the answers before it started say.
ProxyAsAnswered ==
  \A k \in Keys :
    /\ known[k] = {"active"} => Routed(k, FALSE) = Owner[k]
    /\ "active" \notin known[k] => Routed(k, FALSE) = None

\* A table with the time of the file admits the tokens that the file has held with
\* that time, for the users it gave them, whether a request is looked up at once or
\* was admitted from an earlier table.
TokensAsFiled ==
  stamp = mtime => \E content \in seen : \A t \in Tokens :
    /\ Admitted(t) <=> Listed(content, t)
    /\ UserOf(t) = UserIn(content, t) /\ Routed(t, TRUE) = UserIn(content, t)

\* Who is admitted, and for which user, agrees with what was said, however loads
\* have overlapped and whatever saves have failed.
AdmitsAsAnswered == KeysAsAnswered /\ ProxyAsAnswered /\ TokensAsFiled

\* The table becomes that of the file, unless the file cannot be loaded, and stays
\* so, in a process that keeps running with a file that has its time for itself.  A
\* main thread that has blocked itself by a signal is the exception: nothing then
\* replaces the table.
CatchesUp ==
  <>[](watch.pc # "boot" /\ ~Auth!Blocked /\ Auth!Distinct) => <>[]Auth!UpToDate
===============================================================================
