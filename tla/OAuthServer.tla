------------------------------ MODULE OAuthServer ------------------------------
(***************************************************************************)
(* The OAuth authorization server of mcp_brain/oauth.py: the persistent      *)
(* OAuthStore, the RAM-only pending consents and authorization codes, and    *)
(* the handlers of ChainedProvider; with the oauth_connections_revoke tool   *)
(* of mcp_brain/tools/oauth_connections.py.                                  *)
(*                                                                           *)
(* No handler awaits between its first look at the store and its answer, so  *)
(* handlers do not interleave.  What does come between two mutations of one  *)
(* handler is the file system: every mutation of _data is followed by a      *)
(* _save, which may raise (the disk is full, say) or be the last thing the   *)
(* process does.  A handler is the list of the memory images it saves.       *)
(***************************************************************************)
EXTENDS Integers, Sequences

CONSTANTS
  Clients,  \* client ids
  Grants,   \* runs of the consent flow, from /authorize to the tokens
  MaxGen,   \* bound: token pairs minted for one grant
  None      \* no client

ASSUME GenAssumption == MaxGen \in Nat \ {0}

VARIABLES
  mem,      \* OAuthStore._data: clients and tokens
  disk,     \* oauth-state.json
  expired,  \* access tokens whose expires_at has passed
  stage,    \* stage[g]: where the consent flow g is, in `pending' or `auth_codes'
  owner,    \* owner[g]: the client that asked for it
  gen,      \* gen[g]: token pairs minted for g so far
  known,    \* clients that have been told their client id
  given,    \* tokens that have reached a client in an answer
  struck,   \* tokens a refresh or a revocation has been asked to delete
  revoked,  \* tokens reported deleted to the user
  absent    \* tokens of a client reported to have none

vars == <<mem, disk, expired, stage, owner, gen, known, given, struck,
          revoked, absent>>

\* A token is random, so it is what it was minted for: a fresh one each time.
Token == [kind: {"access", "refresh"}, client: Clients, grant: Grants, gen: 1..MaxGen]

Store == [clients: SUBSET Clients, tokens: SUBSET Token]

TypeOK ==
  /\ mem \in Store /\ disk \in Store
  /\ expired \subseteq Token
  /\ stage \in [Grants -> {"new", "pending", "code", "gone"}]
  /\ owner \in [Grants -> Clients \cup {None}]
  /\ gen \in [Grants -> 0..MaxGen]
  /\ known \subseteq Clients
  /\ given \subseteq Token /\ struck \subseteq Token
  /\ revoked \subseteq Token /\ absent \subseteq Token

Empty == [clients |-> {}, tokens |-> {}]

Init ==
  /\ mem = Empty /\ disk = Empty
  /\ expired = {}
  /\ stage = [g \in Grants |-> "new"]
  /\ owner = [g \in Grants |-> None]
  /\ gen = [g \in Grants |-> 0]
  /\ known = {} /\ given = {} /\ struck = {} /\ revoked = {} /\ absent = {}

-------------------------------------------------------------------------------
(* The store.  A handler's mutations are a sequence of images of _data, one   *)
(* for each _save it calls.                                                   *)

\* _prune_expired, at the head of every _save.
Prune(s) == [s EXCEPT !.tokens = @ \ expired]

Put(s, ts) == [s EXCEPT !.tokens = @ \cup ts]

\* Mutant: refresh tokens, which have no expires_at, are never deleted.
MutantDelete(s, ts) == [s EXCEPT !.tokens = @ \ {t \in ts : t.kind = "access"}]

Delete(s, ts) == [s EXCEPT !.tokens = @ \ ts]

\* Mutant: the handler writes through after its first mutation only.
MutantSaved(images) == mem' = Prune(images[Len(images)]) /\ disk' = Prune(images[1])

\* Every _save succeeds: the handler answers.
Saved(images) == mem' = Prune(images[Len(images)]) /\ disk' = mem'

\* One _save raises: its mutation stays in memory, the rest of the handler does
\* not run, and the client gets an error.
SaveFails(images) ==
  \E j \in 1..Len(images) :
    /\ mem' = Prune(images[j])
    /\ disk' = IF j = 1 THEN disk ELSE Prune(images[j - 1])

\* Pending consents and codes are in memory only.
ForgetFlows == stage' = [g \in Grants |-> IF stage[g] = "new" THEN "new" ELSE "gone"]

\* The process dies after one of the saves, unanswered, and is started again.
Dies(images) ==
  /\ \E j \in 1..Len(images) : disk' = Prune(images[j])
  /\ mem' = disk'
  /\ ForgetFlows

Restart ==
  /\ mem' = disk /\ ForgetFlows
  /\ UNCHANGED <<disk, expired, owner, gen, known, given, struck, revoked, absent>>

\* The access token t reaches the end of its seven days.
Expire(t) ==
  /\ t.kind = "access"
  /\ expired' = expired \cup {t}
  /\ UNCHANGED <<mem, disk, stage, owner, gen, known, given, struck, revoked, absent>>

-------------------------------------------------------------------------------
(* The consent flow. *)

\* register_client, from the dynamic registration endpoint.
RegisterClient(c) ==
  LET images == <<[mem EXCEPT !.clients = @ \cup {c}]>> IN
  /\ c \notin mem.clients \cup disk.clients \cup known
  /\ \/ Saved(images) /\ known' = known \cup {c} /\ UNCHANGED stage
     \/ SaveFails(images) /\ UNCHANGED <<known, stage>>
     \/ Dies(images) /\ UNCHANGED known
  /\ UNCHANGED <<expired, owner, gen, given, struck, revoked, absent>>

\* authorize: a pending entry for the client.
Authorize(g, c) ==
  /\ stage[g] = "new" /\ c \in known \cap mem.clients
  /\ stage' = [stage EXCEPT ![g] = "pending"]
  /\ owner' = [owner EXCEPT ![g] = c]
  /\ UNCHANGED <<mem, disk, expired, gen, known, given, struck, revoked, absent>>

\* The consent page or the panel's callback approves: the entry becomes a code.
Approve(g) ==
  /\ stage[g] = "pending"
  /\ stage' = [stage EXCEPT ![g] = "code"]
  /\ UNCHANGED <<mem, disk, expired, owner, gen, known, given, struck, revoked, absent>>

\* The consent page or the panel's callback denies.
Deny(g) ==
  /\ stage[g] = "pending"
  /\ stage' = [stage EXCEPT ![g] = "gone"]
  /\ UNCHANGED <<mem, disk, expired, owner, gen, known, given, struck, revoked, absent>>

Consent(g) == Approve(g) \/ Deny(g)

\* Five minutes pass without consent, or a minute without an exchange.
Lapse(g) ==
  /\ stage[g] \in {"pending", "code"}
  /\ stage' = [stage EXCEPT ![g] = "gone"]
  /\ UNCHANGED <<mem, disk, expired, owner, gen, known, given, struck, revoked, absent>>

-------------------------------------------------------------------------------
(* The token endpoint. *)

\* Mutant: the record is made without its client_id.
MutantMint(kind, g, n) == [kind |-> kind, client |-> None, grant |-> g, gen |-> n]

Mint(kind, g, n) == [kind |-> kind, client |-> owner[g], grant |-> g, gen |-> n]

\* exchange_authorization_code: pop the code, put an access token, put a refresh
\* token.
ExchangeCode(g) ==
  LET n == gen[g] + 1
      access == Mint("access", g, n)
      refresh == Mint("refresh", g, n)
      images == <<Put(mem, {access}), Put(mem, {access, refresh})>>
      spent == stage' = [stage EXCEPT ![g] = "gone"]
  IN
  /\ stage[g] = "code" /\ owner[g] \in mem.clients
  /\ n <= MaxGen /\ gen' = [gen EXCEPT ![g] = n]
  /\ \/ Saved(images) /\ spent /\ given' = given \cup {access, refresh}
     \/ SaveFails(images) /\ spent /\ UNCHANGED given
     \/ Dies(images) /\ UNCHANGED given
  /\ UNCHANGED <<expired, owner, known, struck, revoked, absent>>

\* Mutant: the old refresh token is deleted only after the new pair is stored.
MutantRefreshImages(old, access, refresh) ==
  <<Put(mem, {access}), Put(mem, {access, refresh}), Put(Delete(mem, {old}), {access, refresh})>>

\* What a refresh saves: delete the old one, put the access token, put the new one.
RefreshImages(old, access, refresh) ==
  <<Delete(mem, {old}), Put(Delete(mem, {old}), {access}),
    Put(Delete(mem, {old}), {access, refresh})>>

\* load_refresh_token and exchange_refresh_token.
ExchangeRefresh(old) ==
  LET g == old.grant
      n == gen[g] + 1
      access == Mint("access", g, n)
      refresh == Mint("refresh", g, n)
      images == RefreshImages(old, access, refresh)
  IN
  /\ old \in given \cap mem.tokens /\ old.kind = "refresh"
  /\ old.client \in mem.clients
  /\ n <= MaxGen /\ gen' = [gen EXCEPT ![g] = n]
  /\ struck' = struck \cup {old}
  /\ \/ Saved(images) /\ given' = given \cup {access, refresh} /\ UNCHANGED stage
     \/ SaveFails(images) /\ UNCHANGED <<given, stage>>
     \/ Dies(images) /\ UNCHANGED given
  /\ UNCHANGED <<expired, owner, known, revoked, absent>>

-------------------------------------------------------------------------------
(* oauth_connections_revoke. *)

Of(s, c, kind) == {t \in s.tokens : t.client = c /\ t.kind = kind}

\* Mutant: the refresh tokens are deleted from the data as it was read first.
MutantRevokeImages(c) ==
  LET access == Of(mem, c, "access")
      refresh == Of(mem, c, "refresh")
  IN (IF access = {} THEN <<>> ELSE <<Delete(mem, access)>>)
       \o (IF refresh = {} THEN <<>> ELSE <<Delete(mem, refresh)>>)

\* The images delete_access_tokens_for_client and delete_refresh_tokens_for_client
\* save: neither saves when it finds nothing to delete in memory.
RevokeImages(c) ==
  LET access == Of(mem, c, "access")
      refresh == Of(mem, c, "refresh")
      noAccess == Delete(mem, access)
  IN (IF access = {} THEN <<>> ELSE <<noAccess>>)
       \o (IF refresh = {} THEN <<>> ELSE <<Delete(noAccess, refresh)>>)

\* "Revoked connection for client_id=c", an error, or no answer.
Revoke(c) ==
  LET images == RevokeImages(c)
      mine == {t \in mem.tokens \cup given : t.client = c}
  IN
  /\ images # <<>>
  /\ struck' = struck \cup mine
  /\ \/ Saved(images) /\ revoked' = revoked \cup mine /\ UNCHANGED stage
     \/ SaveFails(images) /\ UNCHANGED <<revoked, stage>>
     \/ Dies(images) /\ UNCHANGED revoked
  /\ UNCHANGED <<expired, owner, gen, known, given, absent>>

\* "No active tokens found for client_id=c".
RevokeNone(c) ==
  /\ RevokeImages(c) = <<>>
  /\ absent' = absent \cup {t \in given : t.client = c}
  /\ UNCHANGED <<mem, disk, expired, stage, owner, gen, known, given, struck, revoked>>

-------------------------------------------------------------------------------

Next ==
  \/ \E c \in Clients : RegisterClient(c) \/ Revoke(c) \/ RevokeNone(c)
  \/ \E g \in Grants, c \in Clients : Authorize(g, c)
  \/ \E g \in Grants : Consent(g) \/ Lapse(g) \/ ExchangeCode(g)
  \/ \E t \in given : ExchangeRefresh(t)
  \/ \E t \in (mem.tokens \cup disk.tokens) \ expired : Expire(t)
  \/ Restart

Spec == Init /\ [][Next]_vars

-------------------------------------------------------------------------------
(* Properties. *)

\* A token that has reached its client stays good, in memory and in the file,
\* until it expires or a refresh or a revocation of it is asked for: whatever
\* writes fail or restarts come in other requests.
IssuedSurvives == given \ (struck \cup expired) \subseteq mem.tokens \cap disk.tokens

\* Neither memory nor the file ever holds two refresh tokens of one grant, so a
\* crash in the middle of a rotation leaves no second session.
OneRefreshPerGrant ==
  \A s \in {mem, disk} : \A t, u \in s.tokens :
    t.kind = "refresh" /\ u.kind = "refresh" /\ t.grant = u.grant => t = u

\* Once a client has been handed the successor of a refresh token, the old one
\* is gone for good: no restart brings it back.
RotationIsFinal ==
  \A u \in given : \A t \in mem.tokens \cup disk.tokens :
    t.kind = "refresh" /\ u.kind = "refresh" /\ t.grant = u.grant => t.gen >= u.gen

\* No token the user was told is revoked comes back.
RevokedStaysRevoked == revoked \cap (mem.tokens \cup disk.tokens) = {}

\* A token of a client the user was told has no active tokens is not accepted
\* later: every mutation writes through, as OAuthStore says.
AbsentStaysAbsent == absent \cap mem.tokens \subseteq expired
===============================================================================
