-------------------------- MODULE OAuthServer_proofs --------------------------
(***************************************************************************)
(* The invariants of OAuthServer, for any clients, any number of grants and  *)
(* any bound on the tokens minted for one.                                   *)
(*                                                                           *)
(* A handler leaves memory and file at two of the images it saves, or the    *)
(* file as it was.  Each proof of a step first says which token sets these    *)
(* can be; every part of the invariant then follows from that alone.         *)
(***************************************************************************)
EXTENDS OAuthServer, SequenceTheorems, TLAPS

Held == mem.tokens \cup disk.tokens

\* Whatever was minted for a grant has been counted, so the next pair is new.
Minted == \A t \in Held \cup given \cup revoked : t.gen <= gen[t.grant]

\* Nothing was minted for a grant whose code is still to be exchanged.
Unspent == \A g \in Grants : stage[g] # "gone" => gen[g] = 0

\* A token is its client's for whom the grant was asked for.
Owned == \A t \in Held \cup given : t.client = owner[t.grant]

\* The inductive invariant.
IInv ==
  /\ TypeOK
  /\ Minted
  /\ Unspent
  /\ Owned
  /\ IssuedSurvives
  /\ OneRefreshPerGrant
  /\ RotationIsFinal
  /\ RevokedStaysRevoked

-------------------------------------------------------------------------------
(* The store's operations. *)

\* Pruning, adding and deleting change the tokens of a store and nothing else.
LEMMA StoreOps ==
  ASSUME NEW s \in Store, NEW ts \in SUBSET Token, expired \subseteq Token
  PROVE  /\ Prune(s) \in Store /\ Prune(s).tokens = s.tokens \ expired
         /\ Prune(s).clients = s.clients
         /\ Put(s, ts) \in Store /\ Put(s, ts).tokens = s.tokens \cup ts
         /\ Put(s, ts).clients = s.clients
         /\ Delete(s, ts) \in Store /\ Delete(s, ts).tokens = s.tokens \ ts
         /\ Delete(s, ts).clients = s.clients
BY DEF Prune, Put, Delete, Store

\* What is left of the images when there are none of one kind, or of either.
LEMMA Concatenated ==
  ASSUME NEW x \in Store, NEW y \in Store
  PROVE  /\ <<>> \o <<>> = <<>> /\ <<>> \o <<y>> = <<y>>
         /\ <<x>> \o <<>> = <<x>> /\ <<x>> \o <<y>> = <<x, y>>
<1>1. <<x>> \in Seq(Store) /\ <<y>> \in Seq(Store) /\ <<x, y>> \in Seq(Store)
  OBVIOUS
<1>2. Len(<<x>> \o <<y>>) = Len(<<x, y>>)
  BY <1>1
<1>3. \A i \in 1..Len(<<x, y>>) : (<<x>> \o <<y>>)[i] = <<x, y>>[i]
  BY <1>1
<1>4. <<x>> \o <<y>> = <<x, y>>
  BY <1>1, <1>2, <1>3, SeqEqual, ConcatProperties
<1>5. <<>> \o <<>> = <<>>
  BY ConcatEmptySeq
<1>6. <<>> \o <<y>> = <<y>> /\ <<x>> \o <<>> = <<x>>
  BY <1>1, ConcatEmptySeq
<1>7. QED
  BY <1>4, <1>5, <1>6

\* How a handler can end: with everything saved, or with memory at one image
\* and the file at the one before, or with both at one image.
Ends(images) ==
  \/ mem' = Prune(images[Len(images)]) /\ disk' = mem'
  \/ \E j \in 1..Len(images) :
       /\ mem' = Prune(images[j])
       /\ \/ disk' = mem'
          \/ j = 1 /\ disk' = disk
          \/ j # 1 /\ disk' = Prune(images[j - 1])

\* The three outcomes are the ends, whatever the images.
LEMMA Outcomes ==
  ASSUME NEW images, Saved(images) \/ SaveFails(images) \/ Dies(images)
  PROVE  Ends(images)
<1>1. CASE Saved(images)
  BY <1>1 DEF Saved, Ends
<1>2. CASE SaveFails(images)
  BY <1>2 DEF SaveFails, Ends
<1>3. CASE Dies(images)
  BY <1>3 DEF Dies, Ends
<1>4. QED
  BY <1>1, <1>2, <1>3

\* A restart forgets pending flows: they count as gone.
LEMMA Forgotten ==
  ASSUME TypeOK, ForgetFlows
  PROVE  /\ stage' \in [Grants -> {"new", "pending", "code", "gone"}]
         /\ \A g \in Grants : stage'[g] # "gone" => stage[g] # "gone"
BY DEF TypeOK, ForgetFlows

-------------------------------------------------------------------------------
(* What a step can do to the token sets. *)

\* A step that mints nothing keeps the invariant if what it takes out of memory
\* and file is accounted for.
LEMMA NothingMinted ==
  ASSUME IInv, TypeOK', gen' = gen, given' = given,
         \A g \in Grants : stage'[g] # "gone" => stage[g] # "gone",
         \A g \in Grants : stage[g] = "gone" => owner'[g] = owner[g],
         mem'.tokens \subseteq mem.tokens \/ mem'.tokens \subseteq disk.tokens,
         disk'.tokens \subseteq mem.tokens \/ disk'.tokens \subseteq disk.tokens,
         revoked' \subseteq revoked \cup given \cup mem.tokens,
         RevokedStaysRevoked', IssuedSurvives'
  PROVE  IInv'
<1>1. Minted'
  BY DEF IInv, Minted, Held
<1>2. Unspent'
  BY DEF IInv, Unspent
<1>3. OneRefreshPerGrant'
  BY DEF IInv, OneRefreshPerGrant
<1>4. RotationIsFinal'
  BY DEF IInv, RotationIsFinal
<1>5. Owned'
  <2>1. SUFFICES ASSUME NEW t \in Held \cup given
                 PROVE  t.client = owner'[t.grant]
    BY DEF Owned, Held
  <2>2. t.grant \in Grants /\ t.gen \in 1..MaxGen
    BY <2>1 DEF IInv, TypeOK, Store, Token, Held
  <2>3. stage[t.grant] = "gone"
    BY <2>1, <2>2, GenAssumption DEF IInv, Minted, Unspent
  <2>4. QED
    BY <2>1, <2>2, <2>3 DEF IInv, Owned
<1>6. QED
  BY <1>1, <1>2, <1>3, <1>4, <1>5 DEF IInv

\* A step that mints the pair a, r for the grant g, and has taken the earlier
\* refresh token of g out of memory before the first of the two is stored.
LEMMA PairMinted ==
  ASSUME IInv, TypeOK', NEW g \in Grants, NEW a \in Token, NEW r \in Token,
         NEW base, base \subseteq mem.tokens,
         a.grant = g, a.kind = "access", a.gen = gen[g] + 1,
         r.grant = g, r.kind = "refresh", r.gen = gen[g] + 1,
         owner' = owner, a.client = owner[g], r.client = owner[g],
         \A t \in base : ~(t.kind = "refresh" /\ t.grant = g),
         gen' = [gen EXCEPT ![g] = gen[g] + 1], stage'[g] = "gone",
         \A h \in Grants : stage'[h] # "gone" => stage[h] # "gone",
         mem'.tokens \subseteq base \cup {a, r},
         disk'.tokens \subseteq base \cup {a, r} \/ (given' = given /\ disk' = disk),
         given' = given \/ given' = given \cup {a, r},
         revoked' = revoked, IssuedSurvives'
  PROVE  IInv'
<1>1. /\ mem.tokens \subseteq Token /\ disk.tokens \subseteq Token
      /\ given \subseteq Token /\ revoked \subseteq Token
      /\ base \subseteq Token
      /\ \A h \in Grants : gen[h] \in Nat /\ gen'[h] \in Nat
      /\ \A h \in Grants : gen[h] <= gen'[h]
      /\ gen'[g] = gen[g] + 1
  <2>1. mem \in Store /\ disk \in Store /\ gen \in [Grants -> 0..MaxGen]
        /\ given \subseteq Token /\ revoked \subseteq Token
    BY DEF IInv, TypeOK
  <2>2. mem.tokens \subseteq Token /\ disk.tokens \subseteq Token
    BY <2>1 DEF Store
  <2>3. \A h \in Grants : gen[h] \in Nat
    BY <2>1
  <2>4. \A h \in Grants : gen'[h] = IF h = g THEN gen[g] + 1 ELSE gen[h]
    BY <2>1
  <2>5. QED
    BY <2>1, <2>2, <2>3, <2>4
<1>2. \A t \in Token : t.grant \in Grants /\ t.gen \in Nat
  BY GenAssumption DEF Token
<1>3. \A t \in Held \cup given \cup revoked : t.gen <= gen[t.grant]
  BY DEF IInv, Minted
<1>4. Minted'
  <2>1. SUFFICES ASSUME NEW t \in (Held \cup given \cup revoked)'
                 PROVE  t.gen <= gen'[t.grant]
    BY DEF Minted
  <2>2. t \in Held \cup given \cup revoked \/ t = a \/ t = r
    BY <2>1 DEF Held
  <2>3. CASE t \in Held \cup given \cup revoked
    <3>1. t \in Token
      BY <2>3, <1>1 DEF Held
    <3>2. t.gen <= gen[t.grant] /\ gen[t.grant] <= gen'[t.grant]
      BY <2>3, <3>1, <1>1, <1>2, <1>3
    <3>3. t.gen \in Nat /\ gen[t.grant] \in Nat /\ gen'[t.grant] \in Nat
      BY <3>1, <1>1, <1>2
    <3>4. QED
      BY <3>2, <3>3
  <2>4. CASE t = a \/ t = r
    BY <2>4, <1>1, <1>2
  <2>5. QED
    BY <2>2, <2>3, <2>4
<1>5. Unspent'
  BY DEF IInv, Unspent, TypeOK
<1>6. OneRefreshPerGrant'
  <2>1. \A t, u \in base \cup {a, r} :
          t.kind = "refresh" /\ u.kind = "refresh" /\ t.grant = u.grant => t = u
    BY DEF IInv, OneRefreshPerGrant
  <2>2. \A t, u \in disk.tokens :
          t.kind = "refresh" /\ u.kind = "refresh" /\ t.grant = u.grant => t = u
    BY DEF IInv, OneRefreshPerGrant
  <2>3. QED
    BY <2>1, <2>2 DEF OneRefreshPerGrant
<1>7. RotationIsFinal'
  <2>1. SUFFICES ASSUME NEW u \in given', NEW t \in (Held)',
                        t.kind = "refresh", u.kind = "refresh", t.grant = u.grant
                 PROVE  t.gen >= u.gen
    BY DEF RotationIsFinal, Held
  <2>2. t \in Held \/ t = r
    BY <2>1 DEF Held
  <2>3. CASE u \in given /\ t \in Held
    BY <2>3, <2>1 DEF IInv, RotationIsFinal, Held
  <2>4. CASE u \in given /\ t = r
    <3>1. u.gen <= gen[g] /\ u.gen \in Nat /\ gen[g] \in Nat
      BY <2>4, <2>1, <1>1, <1>2, <1>3
    <3>2. QED
      BY <3>1, <2>4
  <2>5. CASE u \notin given
    <3>1. u = r /\ t \in base \cup {a, r}
      BY <2>5, <2>1 DEF Held
    <3>2. t = r
      BY <3>1, <2>1
    <3>3. QED
      BY <3>1, <3>2, <1>1
  <2>6. QED
    BY <2>2, <2>3, <2>4, <2>5
<1>8. RevokedStaysRevoked'
  <2>1. a \notin revoked /\ r \notin revoked
    <3>1. \A t \in revoked : t.grant = g => t.gen <= gen[g] /\ t.gen \in Nat
      BY <1>1, <1>2, <1>3
    <3>2. gen[g] \in Nat
      BY <1>1
    <3>3. QED
      BY <3>1, <3>2
  <2>2. QED
    BY <2>1 DEF IInv, RevokedStaysRevoked
<1>9. Owned'
  BY DEF IInv, Owned, Held
<1>10. QED
  BY <1>4, <1>5, <1>6, <1>7, <1>8, <1>9 DEF IInv

-------------------------------------------------------------------------------
(* The steps. *)

\* Registering a client saves the tokens as they are, less the expired ones.
LEMMA RegisterClientStep ==
  ASSUME IInv, NEW c \in Clients, RegisterClient(c)
  PROVE  IInv'
<1> DEFINE one == [mem EXCEPT !.clients = @ \cup {c}]
<1>1. /\ mem \in Store /\ disk \in Store /\ expired \subseteq Token
      /\ one \in Store /\ one.tokens = mem.tokens
  BY DEF IInv, TypeOK, Store
<1>2. Ends(<<one>>)
  BY Outcomes DEF RegisterClient
<1>3. Prune(one) \in Store /\ Prune(one).tokens = mem.tokens \ expired
  BY <1>1, StoreOps
<1>4. mem' = Prune(one) /\ (disk' = Prune(one) \/ disk' = disk)
  <2> HIDE DEF one
  <2>1. QED
    BY <1>2 DEF Ends
<1>5. /\ stage' \in [Grants -> {"new", "pending", "code", "gone"}]
      /\ \A g \in Grants : stage'[g] # "gone" => stage[g] # "gone"
  <2>1. UNCHANGED stage \/ ForgetFlows
    BY DEF RegisterClient, Dies
  <2>2. QED
    BY <2>1, Forgotten DEF IInv, TypeOK
<1> HIDE DEF one
<1>6. TypeOK'
  <2>1. known' \subseteq Clients
    BY DEF IInv, TypeOK, RegisterClient
  <2>2. QED
    BY <1>1, <1>3, <1>4, <1>5, <2>1 DEF IInv, TypeOK, RegisterClient
<1>7. /\ UNCHANGED <<expired, owner, gen, given, struck, revoked>>
      /\ mem'.tokens = mem.tokens \ expired
      /\ disk'.tokens = mem.tokens \ expired \/ disk'.tokens = disk.tokens
  BY <1>3, <1>4 DEF RegisterClient
<1>8. IssuedSurvives' /\ RevokedStaysRevoked'
  BY <1>7 DEF IInv, IssuedSurvives, RevokedStaysRevoked
<1>9. QED
  BY <1>5, <1>6, <1>7, <1>8, NothingMinted

\* The steps of the consent flow touch no token.
LEMMA FlowStep ==
  ASSUME IInv, NEW g \in Grants,
         (\E c \in Clients : Authorize(g, c)) \/ Approve(g) \/ Deny(g) \/ Lapse(g)
  PROVE  IInv'
<1>1. UNCHANGED <<mem, disk, expired, gen, known, given, struck, revoked, absent>>
  BY DEF Authorize, Approve, Deny, Lapse
<1>2. /\ stage' \in [Grants -> {"new", "pending", "code", "gone"}]
      /\ owner' \in [Grants -> Clients \cup {None}]
      /\ \A h \in Grants : stage'[h] # "gone" => stage[h] # "gone"
      /\ \A h \in Grants : stage[h] = "gone" => owner'[h] = owner[h]
  BY DEF IInv, TypeOK, Authorize, Approve, Deny, Lapse
<1>3. TypeOK'
  BY <1>1, <1>2 DEF IInv, TypeOK
<1>4. IssuedSurvives' /\ RevokedStaysRevoked'
  BY <1>1 DEF IInv, IssuedSurvives, RevokedStaysRevoked
<1>5. QED
  BY <1>1, <1>2, <1>3, <1>4, NothingMinted

\* A code was exchanged for nothing before, so its pair is the first of its grant.
LEMMA ExchangeCodeStep ==
  ASSUME IInv, NEW g \in Grants, ExchangeCode(g)
  PROVE  IInv'
<1> DEFINE n == gen[g] + 1
           a == Mint("access", g, n)
           r == Mint("refresh", g, n)
           one == Put(mem, {a})
           two == Put(mem, {a, r})
<1>1. /\ mem \in Store /\ disk \in Store /\ expired \subseteq Token
      /\ mem.tokens \subseteq Token /\ owner[g] \in Clients
      /\ gen \in [Grants -> 0..MaxGen] /\ gen[g] \in Nat /\ n \in 1..MaxGen
  BY GenAssumption DEF IInv, TypeOK, Store, ExchangeCode
<1>2. /\ a \in Token /\ a.grant = g /\ a.kind = "access" /\ a.gen = n
      /\ r \in Token /\ r.grant = g /\ r.kind = "refresh" /\ r.gen = n
      /\ a.client = owner[g] /\ r.client = owner[g]
  BY <1>1 DEF Mint, Token
<1> HIDE DEF a, r
<1>3. /\ one \in Store /\ one.tokens = mem.tokens \cup {a}
      /\ two \in Store /\ two.tokens = mem.tokens \cup {a, r}
  BY <1>1, <1>2, StoreOps
<1>4. Ends(<<one, two>>) /\ gen' = [gen EXCEPT ![g] = gen[g] + 1]
  BY Outcomes DEF ExchangeCode, a, r
<1> HIDE DEF one, two
<1>5. /\ Prune(one) \in Store /\ Prune(one).tokens = (mem.tokens \cup {a}) \ expired
      /\ Prune(two) \in Store /\ Prune(two).tokens = (mem.tokens \cup {a, r}) \ expired
  BY <1>1, <1>3, StoreOps
<1>6. /\ mem' = Prune(one) \/ mem' = Prune(two)
      /\ disk' = disk \/ disk' = Prune(one) \/ disk' = Prune(two)
  BY <1>4 DEF Ends
<1>7. \/ given' = given
      \/ given' = given \cup {a, r} /\ mem' = Prune(two) /\ disk' = Prune(two)
  BY DEF ExchangeCode, Saved, a, r, two
<1>8. /\ stage' \in [Grants -> {"new", "pending", "code", "gone"}]
      /\ stage'[g] = "gone" /\ stage[g] = "code"
      /\ \A h \in Grants : stage'[h] # "gone" => stage[h] # "gone"
  <2>1. stage[g] = "code"
    BY DEF ExchangeCode
  <2>2. stage' = [stage EXCEPT ![g] = "gone"] \/ ForgetFlows
    BY DEF ExchangeCode, Dies
  <2>3. QED
    BY <2>1, <2>2, Forgotten DEF IInv, TypeOK, ForgetFlows
<1>9. TypeOK'
  <2>1. gen' \in [Grants -> 0..MaxGen]
    BY <1>1, <1>4
  <2>2. given' \subseteq Token
    BY <1>2, <1>7 DEF IInv, TypeOK
  <2>3. QED
    BY <1>1, <1>5, <1>6, <1>8, <2>1, <2>2 DEF IInv, TypeOK, ExchangeCode
<1>10. \A t \in mem.tokens \cup disk.tokens : t.grant # g
  <2>1. gen[g] = 0
    BY <1>8 DEF IInv, Unspent
  <2>2. \A t \in mem.tokens \cup disk.tokens : t.gen \in 1..MaxGen /\ t.gen <= gen[t.grant]
    BY <1>1 DEF IInv, TypeOK, Store, Token, Minted, Held
  <2>3. QED
    BY <2>1, <2>2, GenAssumption
<1>11. UNCHANGED <<expired, owner, struck, revoked>>
  BY DEF ExchangeCode
<1>12. IssuedSurvives'
  BY <1>5, <1>6, <1>7, <1>11 DEF IInv, IssuedSurvives
<1>13. mem'.tokens \subseteq mem.tokens \cup {a, r}
  BY <1>5, <1>6
<1>14. disk'.tokens \subseteq mem.tokens \cup {a, r} \/ (given' = given /\ disk' = disk)
  BY <1>5, <1>6, <1>7
<1>15. /\ \A t \in mem.tokens : ~(t.kind = "refresh" /\ t.grant = g)
       /\ mem.tokens \in SUBSET mem.tokens
  BY <1>10
<1>16. given' = given \/ given' = given \cup {a, r}
  BY <1>7
<1>17. revoked' = revoked /\ owner' = owner /\ a.gen = gen[g] + 1 /\ r.gen = gen[g] + 1
  BY <1>2, <1>11
<1> HIDE DEF n
<1>18. QED
  BY <1>2, <1>4, <1>8, <1>9, <1>12, <1>13, <1>14, <1>15, <1>16, <1>17, PairMinted

\* A refresh takes out the only refresh token of its grant before it adds the next.
LEMMA ExchangeRefreshStep ==
  ASSUME IInv, NEW old \in given, ExchangeRefresh(old)
  PROVE  IInv'
<1> DEFINE g == old.grant
           n == gen[g] + 1
           a == Mint("access", g, n)
           r == Mint("refresh", g, n)
           base == mem.tokens \ {old}
           one == Delete(mem, {old})
           two == Put(one, {a})
           three == Put(one, {a, r})
<1>1. /\ mem \in Store /\ disk \in Store /\ expired \subseteq Token
      /\ mem.tokens \subseteq Token /\ old \in mem.tokens /\ old \in Token
      /\ old.kind = "refresh"
  BY DEF IInv, TypeOK, Store, ExchangeRefresh
<1>2. g \in Grants /\ old.gen \in 1..MaxGen /\ gen \in [Grants -> 0..MaxGen]
      /\ gen[g] \in Nat /\ n \in 1..MaxGen
  <2>1. g \in Grants /\ old.gen \in 1..MaxGen
    BY <1>1 DEF Token
  <2>2. gen \in [Grants -> 0..MaxGen] /\ gen[g] \in Nat
    BY <2>1 DEF IInv, TypeOK
  <2>3. QED
    BY <2>1, <2>2, GenAssumption DEF ExchangeRefresh
<1>3. owner[g] \in Clients
  BY <1>1 DEF IInv, Owned, Held, Token
<1>4. /\ a \in Token /\ a.grant = g /\ a.kind = "access" /\ a.gen = n
      /\ r \in Token /\ r.grant = g /\ r.kind = "refresh" /\ r.gen = n
      /\ a.client = owner[g] /\ r.client = owner[g]
  BY <1>2, <1>3 DEF Mint, Token
<1> HIDE DEF a, r
<1>5. /\ one \in Store /\ one.tokens = base
      /\ two \in Store /\ two.tokens = base \cup {a}
      /\ three \in Store /\ three.tokens = base \cup {a, r}
  <2>1. one \in Store /\ one.tokens = base
    BY <1>1, StoreOps
  <2> HIDE DEF one, base
  <2>2. QED
    BY <1>1, <1>4, <2>1, StoreOps
<1>6. Ends(<<one, two, three>>) /\ gen' = [gen EXCEPT ![g] = gen[g] + 1]
  BY Outcomes DEF ExchangeRefresh, RefreshImages, a, r
<1> HIDE DEF one, two, three, base
<1>7. /\ Prune(one) \in Store /\ Prune(one).tokens = base \ expired
      /\ Prune(two) \in Store /\ Prune(two).tokens = (base \cup {a}) \ expired
      /\ Prune(three) \in Store /\ Prune(three).tokens = (base \cup {a, r}) \ expired
  BY <1>1, <1>5, StoreOps
<1>8. /\ mem' = Prune(one) \/ mem' = Prune(two) \/ mem' = Prune(three)
      /\ disk' = disk \/ disk' = Prune(one) \/ disk' = Prune(two) \/ disk' = Prune(three)
  BY <1>6 DEF Ends
<1>9. \/ given' = given
      \/ given' = given \cup {a, r} /\ mem' = Prune(three) /\ disk' = Prune(three)
  BY DEF ExchangeRefresh, RefreshImages, Saved, a, r, one, three
<1>10. /\ UNCHANGED <<expired, owner, revoked>>
       /\ struck' = struck \cup {old}
  BY DEF ExchangeRefresh
<1>11. stage[g] = "gone"
  BY <1>1, <1>2, GenAssumption DEF IInv, Minted, Unspent
<1>12. /\ stage' \in [Grants -> {"new", "pending", "code", "gone"}]
       /\ stage'[g] = "gone"
       /\ \A h \in Grants : stage'[h] # "gone" => stage[h] # "gone"
  <2>1. UNCHANGED stage \/ ForgetFlows
    BY DEF ExchangeRefresh, Dies
  <2>2. QED
    BY <1>2, <1>11, <2>1, Forgotten DEF IInv, TypeOK
<1>13. TypeOK'
  <2>1. gen' \in [Grants -> 0..MaxGen]
    BY <1>2, <1>6
  <2>2. given' \subseteq Token /\ struck' \subseteq Token
    BY <1>1, <1>4, <1>9, <1>10 DEF IInv, TypeOK
  <2>3. QED
    BY <1>1, <1>7, <1>8, <1>12, <2>1, <2>2 DEF IInv, TypeOK, ExchangeRefresh
<1>14. /\ base \subseteq mem.tokens
       /\ \A t \in base : ~(t.kind = "refresh" /\ t.grant = g)
  BY <1>1 DEF IInv, OneRefreshPerGrant, base
<1>15. IssuedSurvives'
  <2>1. \A t \in given \ (struck \cup expired) : t # old => t \in base /\ t \in disk.tokens
    BY DEF IInv, IssuedSurvives, base
  <2>2. QED
    BY <1>7, <1>8, <1>9, <1>10, <2>1 DEF IssuedSurvives
<1>16. mem'.tokens \subseteq base \cup {a, r}
  BY <1>7, <1>8
<1>17. disk'.tokens \subseteq base \cup {a, r} \/ (given' = given /\ disk' = disk)
  BY <1>7, <1>8, <1>9
<1>18. given' = given \/ given' = given \cup {a, r}
  BY <1>9
<1>19. a.gen = gen[g] + 1 /\ r.gen = gen[g] + 1
  BY <1>4
<1>20. revoked' = revoked /\ owner' = owner
  BY <1>10
<1> HIDE DEF n, g
<1>21. QED
  BY <1>2, <1>4, <1>6, <1>12, <1>13, <1>14, <1>15, <1>16, <1>17, <1>18, <1>19, <1>20,
     PairMinted

\* A revocation of every token of a client, in one save or two.
LEMMA RevokeStep ==
  ASSUME IInv, NEW c \in Clients, Revoke(c)
  PROVE  IInv'
<1> DEFINE access == Of(mem, c, "access")
           refresh == Of(mem, c, "refresh")
           mine == {t \in mem.tokens \cup given : t.client = c}
           one == Delete(mem, access)
           two == Delete(one, refresh)
<1>1. /\ mem \in Store /\ disk \in Store /\ expired \subseteq Token
      /\ mem.tokens \subseteq Token /\ given \subseteq Token
      /\ struck \subseteq Token /\ revoked \subseteq Token
  BY DEF IInv, TypeOK, Store
<1>2. access \in SUBSET Token /\ refresh \in SUBSET Token
  BY <1>1 DEF Of
<1>3. /\ one \in Store /\ one.tokens = mem.tokens \ access
      /\ two \in Store /\ two.tokens = (mem.tokens \ access) \ refresh
  <2>1. one \in Store /\ one.tokens = mem.tokens \ access
    BY <1>1, <1>2, StoreOps
  <2> HIDE DEF one, access, refresh
  <2>2. QED
    BY <1>1, <1>2, <2>1, StoreOps
<1>4. mine \subseteq Token
  BY <1>1
<1>5. access \cup refresh = {t \in mem.tokens : t.client = c}
  BY <1>1 DEF Of, Token
<1>6. /\ UNCHANGED <<expired, owner, gen, known, given, absent>>
      /\ struck' = struck \cup mine
      /\ revoked' = revoked \cup mine \/ revoked' = revoked
  BY DEF Revoke
<1>7. /\ stage' \in [Grants -> {"new", "pending", "code", "gone"}]
      /\ \A g \in Grants : stage'[g] # "gone" => stage[g] # "gone"
  <2>1. UNCHANGED stage \/ ForgetFlows
    BY DEF Revoke, Dies
  <2>2. QED
    BY <2>1, Forgotten DEF IInv, TypeOK
<1>8. \/ RevokeImages(c) = <<one>> /\ refresh = {}
      \/ RevokeImages(c) = <<two>>
      \/ RevokeImages(c) = <<one, two>>
  <2>1. RevokeImages(c) = (IF access = {} THEN <<>> ELSE <<one>>)
                            \o (IF refresh = {} THEN <<>> ELSE <<two>>)
    BY DEF RevokeImages
  <2>2. RevokeImages(c) # <<>>
    BY DEF Revoke
  <2> HIDE DEF access, refresh, one, two
  <2>3. /\ <<>> \o <<>> = <<>> /\ <<>> \o <<two>> = <<two>>
        /\ <<one>> \o <<>> = <<one>> /\ <<one>> \o <<two>> = <<one, two>>
    BY <1>3, Concatenated
  <2>4. QED
    BY <2>1, <2>2, <2>3, Zenon
<1> DEFINE images == RevokeImages(c)
<1>9. Ends(images) /\ (revoked' = revoked \/ Saved(images))
  BY Outcomes DEF Revoke
<1> HIDE DEF one, two, images
<1>10. /\ Prune(one) \in Store /\ Prune(one).tokens = (mem.tokens \ access) \ expired
       /\ Prune(two) \in Store
       /\ Prune(two).tokens = ((mem.tokens \ access) \ refresh) \ expired
  BY <1>1, <1>3, StoreOps
<1>11. /\ mem' = Prune(one) \/ mem' = Prune(two)
       /\ disk' = disk \/ disk' = Prune(one) \/ disk' = Prune(two)
       /\ revoked' = revoked \/
            (/\ disk' = mem'
             /\ mem' = Prune(two) \/ (mem' = Prune(one) /\ refresh = {}))
  <2>1. CASE images = <<one>> /\ refresh = {}
    BY <1>9, <2>1 DEF Ends, Saved
  <2>2. CASE images = <<two>>
    BY <1>9, <2>2 DEF Ends, Saved
  <2>3. CASE images = <<one, two>>
    BY <1>9, <2>3 DEF Ends, Saved
  <2>4. QED
    BY <1>8, <2>1, <2>2, <2>3 DEF images
<1> HIDE DEF access, refresh
<1>12. /\ mem'.tokens \subseteq mem.tokens
       /\ mem.tokens \ (mine \cup expired) \subseteq mem'.tokens
  BY <1>5, <1>10, <1>11
<1>13. disk' = disk \/ (/\ disk'.tokens \subseteq mem.tokens
                       /\ mem.tokens \ (mine \cup expired) \subseteq disk'.tokens)
  BY <1>5, <1>10, <1>11
<1>14. revoked' = revoked \/ (mem'.tokens \cap mine = {} /\ disk' = mem')
  BY <1>5, <1>10, <1>11
<1>15. TypeOK'
  <2>1. mem' \in Store /\ disk' \in Store
    BY <1>1, <1>10, <1>11
  <2>2. QED
    BY <1>1, <1>4, <1>6, <1>7, <2>1 DEF IInv, TypeOK
<1> HIDE DEF mine
<1>16. IssuedSurvives'
  BY <1>6, <1>12, <1>13 DEF IInv, IssuedSurvives
<1>17. RevokedStaysRevoked'
  BY <1>6, <1>12, <1>13, <1>14 DEF IInv, RevokedStaysRevoked
<1>18. revoked' \subseteq revoked \cup given \cup mem.tokens
  BY <1>6 DEF mine
<1>19. QED
  BY <1>6, <1>7, <1>12, <1>13, <1>15, <1>16, <1>17, <1>18, NothingMinted

\* What is left: an answer that nothing is there, an expiry, a restart.
LEMMA QuietStep ==
  ASSUME IInv,
         \/ \E c \in Clients : RevokeNone(c)
         \/ \E t \in mem.tokens \cup disk.tokens : Expire(t)
         \/ Restart
  PROVE  IInv'
<1>1. /\ UNCHANGED <<owner, gen, given, struck, revoked>>
      /\ disk' = disk /\ (mem' = mem \/ mem' = disk)
      /\ expired \subseteq expired'
  BY DEF RevokeNone, Expire, Restart
<1>2. /\ stage' \in [Grants -> {"new", "pending", "code", "gone"}]
      /\ \A g \in Grants : stage'[g] # "gone" => stage[g] # "gone"
  <2>1. UNCHANGED stage \/ ForgetFlows
    BY DEF RevokeNone, Expire, Restart
  <2>2. QED
    BY <2>1, Forgotten DEF IInv, TypeOK
<1>3. TypeOK'
  <2>1. expired' \subseteq Token /\ known' \subseteq Clients /\ absent' \subseteq Token
    BY DEF IInv, TypeOK, Store, RevokeNone, Expire, Restart
  <2>2. QED
    BY <1>1, <1>2, <2>1 DEF IInv, TypeOK
<1>4. IssuedSurvives' /\ RevokedStaysRevoked'
  BY <1>1 DEF IInv, IssuedSurvives, RevokedStaysRevoked
<1>5. QED
  BY <1>1, <1>2, <1>3, <1>4, NothingMinted

-------------------------------------------------------------------------------
(* The theorems. *)

\* At the start nothing has been minted.
LEMMA InitHolds == Init => IInv
BY GenAssumption DEF Init, IInv, TypeOK, Empty, Store, Minted, Unspent, Owned, Held,
                     IssuedSurvives, OneRefreshPerGrant, RotationIsFinal,
                     RevokedStaysRevoked

\* A step that changes no variable keeps the invariant.
LEMMA StutterStep ==
  ASSUME IInv, UNCHANGED vars
  PROVE  IInv'
BY DEF IInv, TypeOK, Minted, Unspent, Owned, Held, IssuedSurvives, OneRefreshPerGrant,
       RotationIsFinal, RevokedStaysRevoked, vars

\* IInv holds in every state the server can reach, whatever saves fail and
\* wherever it dies.
THEOREM Inductive == Spec => []IInv
<1>1. Init => IInv
  BY InitHolds
<1>2. IInv /\ [Next]_vars => IInv'
  <2>1. SUFFICES ASSUME IInv, [Next]_vars
                 PROVE  IInv'
    OBVIOUS
  <2>2. CASE \E c \in Clients : RegisterClient(c)
    BY <2>1, <2>2, RegisterClientStep
  <2>3. CASE \E c \in Clients : Revoke(c)
    BY <2>1, <2>3, RevokeStep
  <2>4. CASE \E g \in Grants, c \in Clients : Authorize(g, c)
    BY <2>1, <2>4, FlowStep
  <2>5. CASE \E g \in Grants : Consent(g) \/ Lapse(g)
    <3>1. PICK g \in Grants : Approve(g) \/ Deny(g) \/ Lapse(g)
      BY <2>5 DEF Consent
    <3>2. QED
      BY <2>1, <3>1, FlowStep
  <2>6. CASE \E g \in Grants : ExchangeCode(g)
    BY <2>1, <2>6, ExchangeCodeStep
  <2>7. CASE \E t \in given : ExchangeRefresh(t)
    BY <2>1, <2>7, ExchangeRefreshStep
  <2>8. CASE \/ \E c \in Clients : RevokeNone(c)
             \/ \E t \in (mem.tokens \cup disk.tokens) \ expired : Expire(t)
             \/ Restart
    BY <2>1, <2>8, QuietStep
  <2>9. CASE UNCHANGED vars
    BY <2>1, <2>9, StutterStep
  <2>10. QED
    BY <2>1, <2>2, <2>3, <2>4, <2>5, <2>6, <2>7, <2>8, <2>9 DEF Next
<1>3. QED
  BY <1>1, <1>2, PTL DEF Spec

\* The state always has its types.
THEOREM TypeCorrect == Spec => []TypeOK
<1>1. IInv => TypeOK
  BY DEF IInv
<1>2. QED
  BY <1>1, Inductive, PTL

\* A token handed to a client is never lost to another request's failed save or
\* to a restart.
THEOREM IssuedTokensSurvive == Spec => []IssuedSurvives
<1>1. IInv => IssuedSurvives
  BY DEF IInv
<1>2. QED
  BY <1>1, Inductive, PTL

\* No crash inside a rotation leaves a grant with two refresh tokens.
THEOREM NoSecondSession == Spec => []OneRefreshPerGrant
<1>1. IInv => OneRefreshPerGrant
  BY DEF IInv
<1>2. QED
  BY <1>1, Inductive, PTL

\* A refresh token whose successor has been handed out never comes back.
THEOREM NoReplay == Spec => []RotationIsFinal
<1>1. IInv => RotationIsFinal
  BY DEF IInv
<1>2. QED
  BY <1>1, Inductive, PTL

\* A token reported revoked never comes back.
THEOREM RevocationIsFinal == Spec => []RevokedStaysRevoked
<1>1. IInv => RevokedStaysRevoked
  BY DEF IInv
<1>2. QED
  BY <1>1, Inductive, PTL

-------------------------------------------------------------------------------
(* How far the code keeps what it does not keep in general.  A client reported *)
(* to have no tokens may have some in the file, and the next restart reads     *)
(* them (AbsentStaysAbsent fails).  These bound which ones, and which tokens    *)
(* can never be among them.                                                     *)

\* Every image of a handler is within T, and so is the file: so is what it leaves.
LEMMA EndsWithin ==
  ASSUME NEW T, NEW images \in Seq(Store), images # <<>>, expired \subseteq Token,
         \A j \in 1..Len(images) : images[j].tokens \subseteq T,
         disk.tokens \subseteq T, Ends(images)
  PROVE  mem'.tokens \subseteq T /\ disk'.tokens \subseteq T
<1>1. /\ Len(images) \in 1..Len(images)
      /\ \A j \in 1..Len(images) : j # 1 => j - 1 \in 1..Len(images)
  BY EmptySeq
<1>2. \A j \in 1..Len(images) : images[j] \in Store
  OBVIOUS
<1>3. \A s \in Store : Prune(s).tokens \subseteq s.tokens
  BY DEF Prune, Store
<1>4. \A j \in 1..Len(images) : Prune(images[j]).tokens \subseteq T
  BY <1>2, <1>3
<1> HIDE DEF Prune
<1>5. QED
  BY <1>1, <1>4 DEF Ends

\* What a step adds to memory or file was minted by it, so nobody has it yet.
LEMMA OnlyFresh ==
  ASSUME IInv, [Next]_vars, NEW t \in Held'
  PROVE  t \in Held \/ t.gen > gen[t.grant]
<1> DEFINE New == {u \in Token : u.gen > gen[u.grant]}
<1>1. /\ mem \in Store /\ disk \in Store /\ expired \subseteq Token
      /\ mem.tokens \subseteq Held /\ disk.tokens \subseteq Held
      /\ mem.tokens \subseteq Token /\ gen \in [Grants -> 0..MaxGen]
  BY DEF IInv, TypeOK, Store, Held
<1>2. SUFFICES mem'.tokens \subseteq Held \cup New /\ disk'.tokens \subseteq Held \cup New
  BY DEF Held
<1>3. \A c \in Clients : RegisterClient(c)
        => mem'.tokens \subseteq Held \cup New /\ disk'.tokens \subseteq Held \cup New
  <2>1. SUFFICES ASSUME NEW c \in Clients, RegisterClient(c)
                 PROVE  mem'.tokens \subseteq Held \cup New /\ disk'.tokens \subseteq Held \cup New
    OBVIOUS
  <2> DEFINE one == [mem EXCEPT !.clients = @ \cup {c}]
  <2>2. one \in Store /\ one.tokens = mem.tokens
    BY <1>1 DEF Store
  <2>3. Ends(<<one>>)
    BY <2>1, Outcomes DEF RegisterClient
  <2> HIDE DEF one, New
  <2> DEFINE images == <<one>>
             T == Held \cup New
  <2>4. /\ images \in Seq(Store) /\ images # <<>> /\ Ends(images)
        /\ \A j \in 1..Len(images) : images[j].tokens \subseteq T
        /\ expired \subseteq Token /\ disk.tokens \subseteq T
    BY <1>1, <2>2, <2>3
  <2> HIDE DEF images, T
  <2>5. QED
    BY <2>4, EndsWithin DEF T
<1>4. \A g \in Grants : ExchangeCode(g)
        => mem'.tokens \subseteq Held \cup New /\ disk'.tokens \subseteq Held \cup New
  <2>1. SUFFICES ASSUME NEW g \in Grants, ExchangeCode(g)
                 PROVE  mem'.tokens \subseteq Held \cup New /\ disk'.tokens \subseteq Held \cup New
    OBVIOUS
  <2> DEFINE a == Mint("access", g, gen[g] + 1)
             r == Mint("refresh", g, gen[g] + 1)
  <2>2. owner[g] \in Clients /\ gen[g] + 1 \in 1..MaxGen
    BY <1>1, <2>1, GenAssumption DEF ExchangeCode, Store
  <2>3. a \in New /\ r \in New
    BY <1>1, <2>2 DEF Mint, Token
  <2>4. Ends(<<Put(mem, {a}), Put(mem, {a, r})>>)
    BY <2>1, Outcomes DEF ExchangeCode
  <2> HIDE DEF a, r
  <2>5. {a} \subseteq Token /\ {a, r} \subseteq Token
    BY <2>3
  <2>6. /\ Put(mem, {a}) \in Store /\ Put(mem, {a}).tokens = mem.tokens \cup {a}
        /\ Put(mem, {a, r}) \in Store /\ Put(mem, {a, r}).tokens = mem.tokens \cup {a, r}
    BY <1>1, <2>5, StoreOps
  <2> DEFINE one == Put(mem, {a})
             two == Put(mem, {a, r})
  <2> HIDE DEF one, two, New
  <2>7. one.tokens \subseteq Held \cup New /\ two.tokens \subseteq Held \cup New
    BY <1>1, <2>3, <2>6 DEF one, two
  <2>8. one \in Store /\ two \in Store /\ Ends(<<one, two>>)
    BY <2>4, <2>6 DEF one, two
  <2> DEFINE images == <<one, two>>
             T == Held \cup New
  <2>9. /\ images \in Seq(Store) /\ images # <<>> /\ Ends(images)
        /\ \A j \in 1..Len(images) : images[j].tokens \subseteq T
        /\ expired \subseteq Token /\ disk.tokens \subseteq T
    BY <1>1, <2>7, <2>8
  <2> HIDE DEF images, T
  <2>10. QED
    BY <2>9, EndsWithin DEF T
<1>5. \A old \in given : ExchangeRefresh(old)
        => mem'.tokens \subseteq Held \cup New /\ disk'.tokens \subseteq Held \cup New
  <2>1. SUFFICES ASSUME NEW old \in given, ExchangeRefresh(old)
                 PROVE  mem'.tokens \subseteq Held \cup New /\ disk'.tokens \subseteq Held \cup New
    OBVIOUS
  <2> DEFINE g == old.grant
             a == Mint("access", g, gen[g] + 1)
             r == Mint("refresh", g, gen[g] + 1)
             one == Delete(mem, {old})
             two == Put(one, {a})
             three == Put(one, {a, r})
  <2>2. old \in mem.tokens /\ old \in Token
    BY <1>1, <2>1 DEF ExchangeRefresh
  <2>3. g \in Grants /\ owner[g] \in Clients
    BY <1>1, <2>2 DEF IInv, Owned, Token
  <2>4. gen[g] + 1 \in 1..MaxGen
    BY <1>1, <2>1, <2>3, GenAssumption DEF ExchangeRefresh
  <2>5. a \in New /\ r \in New
    BY <1>1, <2>3, <2>4 DEF Mint, Token
  <2>6. Ends(<<one, two, three>>)
    BY <2>1, Outcomes DEF ExchangeRefresh, RefreshImages
  <2> HIDE DEF a, r
  <2>7. one \in Store /\ one.tokens \subseteq Held \cup New
    BY <1>1, <2>2, StoreOps
  <2> HIDE DEF one
  <2>8. {a} \subseteq Token /\ {a, r} \subseteq Token
    BY <2>5
  <2> HIDE DEF New
  <2>9. /\ two \in Store /\ two.tokens \subseteq Held \cup New
        /\ three \in Store /\ three.tokens \subseteq Held \cup New
    BY <1>1, <2>5, <2>7, <2>8, StoreOps
  <2> HIDE DEF two, three
  <2> DEFINE images == <<one, two, three>>
             T == Held \cup New
  <2>10. /\ images \in Seq(Store) /\ images # <<>> /\ Ends(images)
         /\ \A j \in 1..Len(images) : images[j].tokens \subseteq T
         /\ expired \subseteq Token /\ disk.tokens \subseteq T
    BY <1>1, <2>6, <2>7, <2>9
  <2> HIDE DEF images, T
  <2>11. QED
    BY <2>10, EndsWithin DEF T
<1>6. \A c \in Clients : Revoke(c)
        => mem'.tokens \subseteq Held \cup New /\ disk'.tokens \subseteq Held \cup New
  <2>1. SUFFICES ASSUME NEW c \in Clients, Revoke(c)
                 PROVE  mem'.tokens \subseteq Held \cup New /\ disk'.tokens \subseteq Held \cup New
    OBVIOUS
  <2>2. Ends(RevokeImages(c)) /\ RevokeImages(c) # <<>>
    BY <2>1, Outcomes DEF Revoke
  <2> DEFINE access == Of(mem, c, "access")
             refresh == Of(mem, c, "refresh")
             one == Delete(mem, access)
             two == Delete(one, refresh)
  <2>3. access \in SUBSET Token /\ refresh \in SUBSET Token
    BY <1>1 DEF Of
  <2>4. RevokeImages(c) = (IF access = {} THEN <<>> ELSE <<one>>)
                            \o (IF refresh = {} THEN <<>> ELSE <<two>>)
    BY DEF RevokeImages
  <2> HIDE DEF access, refresh, New
  <2>5. one \in Store /\ one.tokens \subseteq Held \cup New
    BY <1>1, <2>3, StoreOps
  <2> HIDE DEF one
  <2>6. two \in Store /\ two.tokens \subseteq Held \cup New
    BY <1>1, <2>3, <2>5, StoreOps
  <2> HIDE DEF two
  <2>7. /\ <<>> \o <<>> = <<>> /\ <<>> \o <<two>> = <<two>>
        /\ <<one>> \o <<>> = <<one>> /\ <<one>> \o <<two>> = <<one, two>>
    BY <2>5, <2>6, Concatenated
  <2> DEFINE images == RevokeImages(c)
             T == Held \cup New
  <2>8. \/ images = <<one>>
        \/ images = <<two>>
        \/ images = <<one, two>>
    BY <2>2, <2>4, <2>7, Zenon
  <2> HIDE DEF images
  <2> HIDE DEF T
  <2>9. /\ images \in Seq(Store)
        /\ \A j \in 1..Len(images) : images[j].tokens \subseteq T
    <3>1. one.tokens \subseteq T /\ two.tokens \subseteq T
      BY <2>5, <2>6 DEF T
    <3>2. CASE images = <<one>>
      BY <2>5, <3>1, <3>2
    <3>3. CASE images = <<two>>
      BY <2>6, <3>1, <3>3
    <3>4. CASE images = <<one, two>>
      BY <2>5, <2>6, <3>1, <3>4
    <3>5. QED
      BY <2>8, <3>2, <3>3, <3>4
  <2>10. /\ images # <<>> /\ Ends(images)
         /\ expired \subseteq Token /\ disk.tokens \subseteq T
    BY <1>1, <2>2 DEF images, T
  <2>11. QED
    BY <2>9, <2>10, EndsWithin DEF T
<1>7. ASSUME \/ UNCHANGED vars
             \/ \E c \in Clients : RevokeNone(c)
             \/ \E g \in Grants, c \in Clients : Authorize(g, c)
             \/ \E g \in Grants : Consent(g) \/ Lapse(g)
             \/ \E u \in (mem.tokens \cup disk.tokens) \ expired : Expire(u)
             \/ Restart
      PROVE  mem'.tokens \subseteq Held \cup New /\ disk'.tokens \subseteq Held \cup New
  <2>1. disk' = disk /\ (mem' = mem \/ mem' = disk)
    BY <1>7 DEF vars, RevokeNone, Authorize, Consent, Approve, Deny, Lapse, Expire, Restart
  <2>2. QED
    BY <1>1, <2>1
<1> HIDE DEF New
<1>8. QED
  BY <1>3, <1>4, <1>5, <1>6, <1>7 DEF Next

\* A token a client was given that is gone from memory and from the file is gone
\* for good.
GoneStaysGone ==
  [][\A t \in given : t \notin mem.tokens \cup disk.tokens
       => t \notin mem'.tokens \cup disk'.tokens]_vars

\* A token reported absent was either asked to be deleted, by a refresh or a
\* revocation that answered with an error or not at all, or has expired.
AbsentWasStruck == absent \subseteq struck \cup expired

\* Once neither memory nor the file holds a token, no exchange, refresh, failed
\* save or restart makes it again: deletion by the last save is final.
THEOREM DeletionIsFinal == Spec => GoneStaysGone
<1>1. IInv /\ [Next]_vars
        => [\A t \in given : t \notin mem.tokens \cup disk.tokens
              => t \notin mem'.tokens \cup disk'.tokens]_vars
  <2>1. SUFFICES ASSUME IInv, [Next]_vars, NEW t \in given, t \notin Held, t \in Held'
                 PROVE  FALSE
    BY DEF Held
  <2>2. t.gen > gen[t.grant]
    BY <2>1, OnlyFresh
  <2>3. t.gen <= gen[t.grant]
    BY <2>1 DEF IInv, Minted
  <2>4. t.gen \in Nat /\ gen[t.grant] \in Nat
    BY <2>1, GenAssumption DEF IInv, TypeOK, Token
  <2>5. QED
    BY <2>2, <2>3, <2>4
<1>2. QED
  BY <1>1, Inductive, PTL DEF Spec, GoneStaysGone

\* The report that a client has no active tokens errs only about tokens an
\* earlier request had begun to delete, or expired ones: never about a good one.
THEOREM AbsentErrsOnStruck == Spec => []AbsentWasStruck
<1>1. Init => AbsentWasStruck
  BY DEF Init, AbsentWasStruck
<1>2. IInv /\ AbsentWasStruck /\ [Next]_vars => AbsentWasStruck'
  <2>1. SUFFICES ASSUME IInv, AbsentWasStruck, [Next]_vars
                 PROVE  AbsentWasStruck'
    OBVIOUS
  <2>2. struck \subseteq struck' /\ expired \subseteq expired'
    BY <2>1 DEF Next, vars, RegisterClient, Revoke, RevokeNone, Authorize, Consent,
                Approve, Deny, Lapse, ExchangeCode, ExchangeRefresh, Expire, Restart
  <2>3. CASE absent' = absent
    BY <2>1, <2>2, <2>3 DEF AbsentWasStruck
  <2>4. CASE \E c \in Clients : RevokeNone(c)
    <3>1. PICK c \in Clients : RevokeNone(c)
      BY <2>4
    <3> DEFINE access == Of(mem, c, "access")
               refresh == Of(mem, c, "refresh")
               one == Delete(mem, access)
               two == Delete(one, refresh)
    <3>2. /\ mem \in Store /\ mem.tokens \subseteq Token /\ given \subseteq Token
          /\ expired \subseteq Token
          /\ access \in SUBSET Token /\ refresh \in SUBSET Token
      BY <2>1 DEF IInv, TypeOK, Store, Of
    <3>3. (IF access = {} THEN <<>> ELSE <<one>>)
            \o (IF refresh = {} THEN <<>> ELSE <<two>>) = <<>>
      BY <3>1 DEF RevokeNone, RevokeImages
    <3>4. one \in Store
      <4> HIDE DEF access
      <4>1. QED
        BY <3>2, StoreOps
    <3>5. two \in Store
      <4> HIDE DEF one, refresh
      <4>1. QED
        BY <3>2, <3>4, StoreOps
    <3>6. access = {} /\ refresh = {}
      <4> HIDE DEF access, refresh, one, two
      <4>1. /\ <<>> \o <<two>> = <<two>> /\ <<one>> \o <<>> = <<one>>
            /\ <<one>> \o <<two>> = <<one, two>>
        BY <3>4, <3>5, Concatenated
      <4>2. <<one>> # <<>> /\ <<two>> # <<>> /\ <<one, two>> # <<>>
        BY <3>4, <3>5
      <4>3. QED
        BY <3>3, <4>1, <4>2
    <3>7. \A t \in mem.tokens : t.client # c
      BY <3>2, <3>6 DEF Of, Token
    <3>8. \A t \in given : t.client = c => t \in struck \cup expired
      BY <2>1, <3>7 DEF IInv, IssuedSurvives
    <3>9. UNCHANGED <<struck, expired>> /\ absent' = absent \cup {t \in given : t.client = c}
      BY <3>1 DEF RevokeNone
    <3>10. QED
      BY <2>1, <3>8, <3>9 DEF AbsentWasStruck
  <2>5. QED
    BY <2>1, <2>3, <2>4 DEF Next, vars, RegisterClient, Revoke, Authorize, Consent,
                Approve, Deny, Lapse, ExchangeCode, ExchangeRefresh, Expire, Restart
<1>3. QED
  BY <1>1, <1>2, Inductive, PTL DEF Spec
===============================================================================
