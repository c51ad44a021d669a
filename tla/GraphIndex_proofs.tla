---------------------------- MODULE GraphIndex_proofs ----------------------------
(***************************************************************************)
(* Proofs about GraphIndex, for any files, names, headings, texts, views and *)
(* any bound on the changes: the graph has no relationship in the air, a     *)
(* skipped build had nothing to do, builds leave the graph current, the      *)
(* cache shows it, and its two readers agree.                                *)
(***************************************************************************)
EXTENDS GraphIndex, FiniteSetTheorems, WellFoundedInduction, TLAPS

-------------------------------------------------------------------------------
(* What a text makes of the graph. *)

LEMMA TextTypes ==
  ASSUME NEW x \in Texts
  PROVE  /\ x \in [Targets -> Types \cup {None}] /\ x # None
         /\ \A k \in Files \cup Names : x[k] \in Types \cup {None}
         /\ \A s \in Sections : x[s] \in Types \cup {None}
BY TextsAssumption, NoneAssumption DEF Targets

LEMMA GivesType ==
  ASSUME NEW f \in Files, NEW x \in Texts, NEW k \in Keys
  PROVE  Gives(f, x, k) \in Types \cup {None}
<1>1. CASE k \in Files \cup Names
  BY <1>1, TextTypes DEF Gives, Types
<1>2. CASE k \notin Files \cup Names
  <2>1. k \in Owned /\ k[2] \in Sections
    BY <1>2 DEF Keys, Owned
  <2>. QED  BY <1>2, <2>1, TextTypes DEF Gives
<1>. QED  BY <1>1, <1>2

\* A text gives a type to its file and to all that it links to.
LEMMA GivesLinks ==
  ASSUME NEW f \in Files, NEW x \in Texts
  PROVE  /\ Gives(f, x, f) # None
         /\ \A k \in Files \cup Names : x[k] # None => Gives(f, x, k) # None
         /\ \A s \in Sections : x[s] # None => Gives(f, x, <<f, s>>) # None
<1>1. Gives(f, x, f) # None
  BY NoneAssumption DEF Gives, Types
<1>2. ASSUME NEW k \in Files \cup Names, x[k] # None PROVE Gives(f, x, k) # None
  BY <1>2 DEF Gives
<1>3. ASSUME NEW s \in Sections, x[s] # None PROVE Gives(f, x, <<f, s>>) # None
  <2>1. <<f, s>> \notin Files \cup Names
    BY KeysDistinct DEF Owned
  <2>. QED  BY <1>3, <2>1 DEF Gives
<1>. QED  BY <1>1, <1>2, <1>3

LEMMA KeyParts ==
  /\ Files \cup Names \subseteq Keys
  /\ \A f \in Files, s \in Sections :
       <<f, s>> \in Keys /\ <<f, s>> \notin Files /\ <<f, s>> \notin Names
  /\ \A f \in Files, n \in Names : f # n /\ n \notin Owned
  /\ \A f \in Files : f \notin Owned
BY KeysDistinct DEF Keys, Owned

\* Of some files, one is indexed last.
LEMMA LatestIsOne ==
  ASSUME NEW order \in Orders, NEW fs \in SUBSET Files, fs # {}
  PROVE  Latest(fs, order) \in fs
<1>. DEFINE T == {order[f] : f \in fs}
<1>1. Cardinality(Files) \in Nat
  BY FilesAssumption, FS_CardinalityType
<1>2. order \in [Files -> 1..Cardinality(Files)]
  BY DEF Orders
<1>3. T \subseteq Nat /\ T # {}
  BY <1>1, <1>2
<1>4. \E x \in T : \A y \in T : ~ (<<y, x>> \in OpToRel(<, Nat))
  <2>. HIDE DEF T
  <2>. QED  BY <1>3, NatLessThanWellFounded, WFMin
<1>5. \E x \in T : \A y \in T : x <= y
  <2>1. PICK x \in T : \A y \in T : ~ (<<y, x>> \in OpToRel(<, Nat))
    BY <1>4
  <2>2. ASSUME NEW y \in T PROVE x <= y
    <3>1. x \in Nat /\ y \in Nat
      BY <1>3
    <3>2. ~ (y < x)
      BY <2>1, <3>1 DEF OpToRel
    <3>. QED  BY <3>1, <3>2
  <2>. QED  BY <2>2
<1>6. \E f \in fs : \A g \in fs : order[f] <= order[g]
  BY <1>5
<1>. QED  BY <1>6 DEF Latest

LEMMA EntitiesOfTypes ==
  ASSUME NEW text \in [Files -> Texts \cup {None}], NEW order \in Orders
  PROVE  /\ EntitiesOf(text, order) \in [Keys -> Types \cup {None}]
         /\ \A f \in Files, k \in Keys :
              text[f] # None /\ Gives(f, text[f], k) # None => EntitiesOf(text, order)[k] # None
<1>1. ASSUME NEW k \in Keys, Givers(text, k) # {}
      PROVE  /\ EntitiesOf(text, order)[k] \in Types \cup {None}
             /\ EntitiesOf(text, order)[k] # None
  <2>. DEFINE f == Latest(Givers(text, k), order)
  <2>1. f \in Givers(text, k)
    BY <1>1, LatestIsOne DEF Givers
  <2>2. f \in Files /\ text[f] \in Texts /\ Gives(f, text[f], k) # None
    BY <2>1 DEF Givers
  <2>3. EntitiesOf(text, order)[k] = Gives(f, text[f], k)
    BY <1>1 DEF EntitiesOf
  <2>. QED  BY <2>2, <2>3, GivesType
<1>2. ASSUME NEW k \in Keys PROVE EntitiesOf(text, order)[k] \in Types \cup {None}
  BY <1>1 DEF EntitiesOf
<1>3. EntitiesOf(text, order) = [k \in Keys |-> EntitiesOf(text, order)[k]]
  BY DEF EntitiesOf
<1>4. EntitiesOf(text, order) \in [Keys -> Types \cup {None}]
  BY <1>2, <1>3
<1>5. ASSUME NEW f \in Files, NEW k \in Keys, text[f] # None, Gives(f, text[f], k) # None
      PROVE  EntitiesOf(text, order)[k] # None
  <2>1. Givers(text, k) # {}
    BY <1>5 DEF Givers
  <2>. QED  BY <1>1, <2>1
<1>. QED  BY <1>4, <1>5

\* The row of a file's name is one of a name's.
LEMMA SourceIsKey ==
  ASSUME NEW g, NEW f \in Files
  PROVE  SourceOf(g, f) \in Keys /\ NameOf[f] \in Names /\ NameOf[f] \in Keys
BY NameOfAssumption, KeyParts DEF SourceOf

LEMMA GraphParts ==
  ASSUME NEW g \in Graph
  PROVE  /\ g.ents \in [Keys -> Types \cup {None}] /\ g.rows \in [Files -> Texts \cup {None}]
         /\ g.dead \subseteq Files \X Files
BY DEF Graph

LEMMA IndexedFounded ==
  ASSUME NEW g \in Graph, Founded(g), NEW f \in Files, NEW x \in Texts
  PROVE  Indexed(g, f, x) \in Graph /\ Founded(Indexed(g, f, x))
<1>. DEFINE n == Indexed(g, f, x)
<1>1. /\ n.rows \in [Files -> Texts \cup {None}] /\ n.rows[f] = x
      /\ \A j \in Files \ {f} : n.rows[j] = g.rows[j]
  BY GraphParts DEF Indexed
<1>2. /\ n.ents \in [Keys -> Types \cup {None}]
      /\ \A k \in Keys : g.ents[k] # None => n.ents[k] # None
      /\ \A k \in Keys : Gives(f, x, k) # None => n.ents[k] # None
  BY GraphParts, GivesType DEF Indexed
<1>3. /\ n.dead \subseteq Files \X Files
      /\ \A j, k \in Files : j # f /\ <<j, k>> \in g.dead => <<j, k>> \in n.dead
  BY GraphParts DEF Indexed, Losing
<1>4. n \in Graph
  <2>1. n = [ents |-> n.ents, rows |-> n.rows, dead |-> n.dead]
    BY DEF Indexed
  <2>. HIDE DEF n
  <2>. QED  BY <1>1, <1>2, <1>3, <2>1 DEF Graph
<1>. HIDE DEF n
<1>5. ASSUME NEW j \in Files, n.rows[j] # None
      PROVE  /\ n.ents[SourceOf(n, j)] # None
             /\ \A k \in Files : Alive(n, j, k) => n.ents[k] # None
             /\ \A m \in Names : n.rows[j][m] # None => n.ents[m] # None
             /\ \A s \in Sections : n.rows[j][s] # None => n.ents[<<j, s>>] # None
  <2>1. CASE j = f
    <3>1. n.rows[j] = x /\ f \in Keys /\ NameOf[f] \in Names
      BY <1>1, <2>1, KeyParts, SourceIsKey
    <3>2. ASSUME NEW k \in Files, Alive(n, j, k) PROVE n.ents[k] # None
      BY <1>2, <2>1, <3>1, <3>2, GivesLinks, KeyParts DEF Alive, LinksTo
    <3>3. ASSUME NEW m \in Names, n.rows[j][m] # None PROVE n.ents[m] # None
      BY <1>2, <3>1, <3>3, GivesLinks, KeyParts
    <3>4. ASSUME NEW k \in Sections, n.rows[j][k] # None PROVE n.ents[<<j, k>>] # None
      <4>1. <<f, k>> \in Keys /\ Gives(f, x, <<f, k>>) # None
        BY <3>1, <3>4, GivesLinks, KeyParts
      <4>. QED  BY <1>2, <2>1, <4>1
    <3>5. n.ents[SourceOf(n, j)] # None
      BY <1>2, <2>1, <3>1, <3>3, GivesLinks DEF SourceOf
    <3>. QED  BY <3>2, <3>3, <3>4, <3>5
  <2>2. CASE j # f
    <3>1. n.rows[j] = g.rows[j] /\ g.rows[j] # None /\ SourceOf(n, j) = SourceOf(g, j)
      BY <1>1, <1>5, <2>2 DEF SourceOf
    <3>2. ASSUME NEW k \in Files, Alive(n, j, k) PROVE n.ents[k] # None
      <4>1. Alive(g, j, k)
        BY <1>3, <2>2, <3>1, <3>2 DEF Alive, LinksTo
      <4>. QED  BY <1>2, <3>1, <4>1, KeyParts DEF Founded
    <3>. QED  BY <1>2, <3>1, <3>2, KeyParts, SourceIsKey DEF Founded
  <2>. QED  BY <2>1, <2>2
<1>6. Founded(n)
  BY <1>5 DEF Founded
<1>. QED  BY <1>4, <1>6 DEF n

LEMMA ForgottenFounded ==
  ASSUME NEW g \in Graph, Founded(g), NEW f \in Files
  PROVE  Forgotten(g, f) \in Graph /\ Founded(Forgotten(g, f))
<1>. DEFINE n == Forgotten(g, f)
<1>1. /\ n.rows \in [Files -> Texts \cup {None}] /\ n.rows[f] = None
      /\ \A j \in Files \ {f} : n.rows[j] = g.rows[j]
  BY GraphParts DEF Forgotten
<1>2. /\ n.ents \in [Keys -> Types \cup {None}]
      /\ \A k \in Keys : k # f /\ k \notin {f} \X Sections => n.ents[k] = g.ents[k]
  BY GraphParts DEF Forgotten
<1>3. /\ n.dead \subseteq Files \X Files
      /\ \A j, k \in Files : j # f /\ <<j, k>> \in g.dead => <<j, k>> \in n.dead
      /\ \A j \in Files : j # f /\ LinksTo(g, j, f) => <<j, f>> \in n.dead
  BY GraphParts DEF Forgotten, Losing
<1>4. n \in Graph
  <2>1. n = [ents |-> n.ents, rows |-> n.rows, dead |-> n.dead]
    BY DEF Forgotten
  <2>. HIDE DEF n
  <2>. QED  BY <1>1, <1>2, <1>3, <2>1 DEF Graph
<1>. HIDE DEF n
<1>5. ASSUME NEW j \in Files, n.rows[j] # None
      PROVE  /\ n.ents[SourceOf(n, j)] # None
             /\ \A k \in Files : Alive(n, j, k) => n.ents[k] # None
             /\ \A m \in Names : n.rows[j][m] # None => n.ents[m] # None
             /\ \A s \in Sections : n.rows[j][s] # None => n.ents[<<j, s>>] # None
  <2>1. j # f /\ n.rows[j] = g.rows[j] /\ g.rows[j] # None /\ SourceOf(n, j) = SourceOf(g, j)
    BY <1>1, <1>5 DEF SourceOf
  <2>2. \A k \in Files : k # f => n.ents[k] = g.ents[k]
    BY <1>2, KeyParts DEF Owned
  <2>3. ASSUME NEW k \in Files, Alive(n, j, k) PROVE n.ents[k] # None
    <3>1. LinksTo(g, j, k) /\ Alive(g, j, k)
      BY <1>3, <2>1, <2>3 DEF Alive, LinksTo
    <3>2. k # f
      BY <1>3, <2>1, <2>3, <3>1 DEF Alive
    <3>. QED  BY <2>1, <2>2, <3>1, <3>2 DEF Founded
  <2>4. \A m \in Names : n.ents[m] = g.ents[m]
    <3>1. ASSUME NEW m \in Names PROVE m \in Keys /\ m # f /\ m \notin {f} \X Sections
      BY KeyParts DEF Owned
    <3>. QED  BY <1>2, <3>1
  <2>5. ASSUME NEW s \in Sections, n.rows[j][s] # None PROVE n.ents[<<j, s>>] # None
    <3>1. <<j, s>> \in Keys /\ <<j, s>> # f /\ <<j, s>> \notin {f} \X Sections
      BY <2>1, KeyParts
    <3>. QED  BY <1>2, <2>1, <2>5, <3>1 DEF Founded
  <2>6. n.ents[SourceOf(n, j)] = g.ents[SourceOf(g, j)]
    BY <2>1, <2>2, <2>4, SourceIsKey DEF SourceOf
  <2>. QED  BY <2>1, <2>3, <2>4, <2>5, <2>6 DEF Founded
<1>6. Founded(n)
  BY <1>5 DEF Founded
<1>. QED  BY <1>4, <1>6 DEF n

LEMMA BuiltFounded ==
  ASSUME NEW text \in [Files -> Texts \cup {None}], NEW n \in Builds(text)
  PROVE  n \in Graph /\ Founded(n) /\ n.rows = text /\ n.dead = {}
<1>1. PICK order \in Orders : n = Built(text, order)
  BY DEF Builds
<1>2. /\ n = [ents |-> n.ents, rows |-> text, dead |-> {}]
      /\ n.rows = text /\ n.dead = {} /\ n.ents = EntitiesOf(text, order)
  BY <1>1 DEF Built
<1>3. /\ n.ents \in [Keys -> Types \cup {None}]
      /\ \A f \in Files, k \in Keys :
           text[f] # None /\ Gives(f, text[f], k) # None => n.ents[k] # None
  BY <1>2, EntitiesOfTypes
<1>4. n \in Graph
  BY <1>2, <1>3 DEF Graph
<1>5. ASSUME NEW f \in Files, text[f] # None
      PROVE  /\ n.ents[SourceOf(n, f)] # None
             /\ \A k \in Files : text[f][k] # None => n.ents[k] # None
             /\ \A m \in Names : text[f][m] # None => n.ents[m] # None
             /\ \A s \in Sections : text[f][s] # None => n.ents[<<f, s>>] # None
  <2>1. text[f] \in Texts /\ NameOf[f] \in Names /\ n.rows[f] = text[f]
    BY <1>2, <1>5, SourceIsKey
  <2>2. /\ n.ents[f] # None
        /\ \A k \in Files : text[f][k] # None => n.ents[k] # None
        /\ \A m \in Names : text[f][m] # None => n.ents[m] # None
        /\ \A s \in Sections : text[f][s] # None => n.ents[<<f, s>>] # None
    BY <1>3, <1>5, <2>1, GivesLinks, KeyParts
  <2>3. n.ents[SourceOf(n, f)] # None
    BY <2>1, <2>2 DEF SourceOf
  <2>. QED  BY <2>2, <2>3
<1>6. Founded(n)
  BY <1>2, <1>5 DEF Founded, Alive, LinksTo
<1>. QED  BY <1>2, <1>4, <1>6

LEMMA NoGraphFounded ==
  NoText \in [Files -> Texts \cup {None}] /\ NoGraph \in Graph /\ Founded(NoGraph)
<1>1. NoText \in [Files -> Texts \cup {None}] /\ \A f \in Files : NoText[f] = None
  BY DEF NoText
<1>. QED  BY <1>1 DEF NoGraph, Graph, Founded

-------------------------------------------------------------------------------
(* The inductive invariant. *)

\* The tool call in progress knows the file as it is, and only the one of
\* knowledge_graph looks at a view.
ToolHolds ==
  /\ h \in {"index", "unindex"} => hf \in Files
  /\ h = "index" => Present(hf)
  /\ h = "unindex" => ~Present(hf)
  /\ IF h = "edges" THEN look \in [view: Views, nodes: SUBSET Files] ELSE look = None

\* No fingerprint holds a time of the future.
Clocked ==
  /\ \A f \in Files : mtime[f] <= clock /\ bgfp[f] <= clock
  /\ fp # None => \A f \in Files : fp[f] <= clock

\* What the stored fingerprint says of a file is true of its relationships, unless
\* a read of it has failed.
StoredRows ==
  fp # None => \A f \in Files \ lost :
    Present(f) /\ fp[f] = mtime[f] => own.rows[f] = work[f]

\* The same of the fingerprint and the texts in the hands of the thread.
ScannedTexts ==
  bg = "scan" => \A f \in Files \ (left \cup missed) :
    Present(f) /\ bgfp[f] = mtime[f] => bgtext[f] = work[f]

IInv ==
  /\ TypeOK /\ ToolHolds /\ Clocked /\ StoredRows /\ ScannedTexts /\ EndpointsExist

LEMMA NoneOfGraph == EndpointsExist /\ UNCHANGED <<own, root>> => EndpointsExist'
BY DEF EndpointsExist, Graphs, Founded, Alive, LinksTo, SourceOf

\* What a step leaves of the two graphs.
LEMMA FoundedNext ==
  ASSUME NEW a, NEW b, own' = a, root' = b, Founded(a), Founded(b)
  PROVE  EndpointsExist'
<1>1. Founded(own)' /\ Founded(root)'
  BY DEF Founded, Alive, LinksTo, SourceOf
<1>. QED  BY <1>1 DEF EndpointsExist, Graphs

-------------------------------------------------------------------------------
(* Initial states and steps. *)

LEMMA StartedFounded ==
  ASSUME NEW b \in BOOLEAN, NEW g \in Started(b)
  PROVE  g \in Graph /\ Founded(g)
BY NoGraphFounded, BuiltFounded DEF Started

LEMMA NothingCachedType == NothingCached \in [Views -> Payload \cup {None}]
BY DEF NothingCached

LEMMA TypeInit == Init => TypeOK /\ Founded(own) /\ Founded(root)
<1>. SUFFICES ASSUME Init PROVE TypeOK /\ Founded(own) /\ Founded(root)
  OBVIOUS
<1>1. 0 \in Times
  BY FilesAssumption DEF Times
<1>2. NoTimes \in [Files -> Times]
  BY <1>1 DEF NoTimes
<1>3. own = NoGraph /\ own \in Graph /\ root \in Graph /\ Founded(own) /\ Founded(root)
  BY NoGraphFounded, StartedFounded DEF Init
<1>. QED  BY <1>1, <1>2, <1>3, NoGraphFounded, NothingCachedType DEF Init, TypeOK

LEMMA IInvInit == Init => IInv
<1>. SUFFICES ASSUME Init PROVE IInv
  OBVIOUS
<1>1. TypeOK
  BY TypeInit
<1>2. ToolHolds /\ StoredRows /\ ScannedTexts
  BY DEF Init, ToolHolds, StoredRows, ScannedTexts
<1>3. Clocked
  BY DEF Init, Clocked, NoTimes
<1>4. EndpointsExist
  BY TypeInit DEF EndpointsExist, Graphs
<1>. QED  BY <1>1, <1>2, <1>3, <1>4 DEF IInv

LEMMA PairOfFiles ==
  ASSUME NEW d \in Files \X Files, d[1] # d[2]
  PROVE  {d[1], d[2]} \in Pairs
<1>. DEFINE Distinct == {e \in Files \X Files : e[1] # e[2]}
<1>1. d \in Distinct
  OBVIOUS
<1>2. Pairs = {{e[1], e[2]} : e \in Distinct}
  BY DEF Pairs
<1>. HIDE DEF Distinct
<1>. QED  BY <1>1, <1>2

\* A payload is made of files of the view and edges between files.
LEMMA PayloadType ==
  ASSUME NEW view \in Views, NEW nodes \in SUBSET Files
  PROVE  PayloadOf(view, nodes) \in Payload
<1>1. ASSUME NEW g \in Graphs, NEW e \in LinksIn(g, view, nodes) PROVE e \in Pairs
  <2>1. PICK d \in Files \X Files : d[1] # d[2] /\ e = {d[1], d[2]}
    BY <1>1 DEF LinksIn
  <2>. QED  BY <2>1, PairOfFiles
<1>2. ASSUME NEW e \in TagsIn(Graphs, view, nodes) PROVE e \in Pairs
  <2>1. PICK d \in Files \X Files : d[1] # d[2] /\ e = {d[1], d[2]}
    BY <1>2 DEF TagsIn
  <2>. QED  BY <2>1, PairOfFiles
<1>3. UNION {LinksIn(g, view, nodes) : g \in Graphs} \subseteq Pairs
  BY <1>1
<1>4. TagsIn(Graphs, view, nodes) \subseteq Pairs
  BY <1>2
<1>. QED  BY <1>3, <1>4 DEF PayloadOf, Payload

LEMMA NodesType == \A view \in Views : NodesOf(view) \in SUBSET Files
BY ViewsAssumption DEF NodesOf

LEMMA BoundedTypes ==
  ASSUME TypeOK, Bounded
  PROVE  clock + 1 \in Times /\ turns + 1 \in Times /\ faults + 1 \in Times
BY FilesAssumption DEF TypeOK, Bounded, Times

LEMMA UnreadableType ==
  ASSUME TypeOK, NEW fs, Unreadable(fs)
  PROVE  faults' \in Times
BY BoundedTypes DEF TypeOK, Unreadable, Fault

\* What a change of a file makes of the times and of what is known by them.
LEMMA SetFileKeeps ==
  ASSUME TypeOK, Clocked, StoredRows, ScannedTexts,
         NEW f \in Files, NEW x \in Texts \cup {None}, SetFile(f, x),
         UNCHANGED <<own, fp, bg, bgfp, bgtext, left, missed, lost>>
  PROVE  /\ work' \in [Files -> Texts \cup {None}] /\ work'[f] = x
         /\ mtime' \in [Files -> Times] /\ clock' \in Times
         /\ Clocked' /\ StoredRows' /\ ScannedTexts'
<1>1. /\ clock \in Times /\ clock' = clock + 1 /\ clock' \in Times /\ clock' \in Nat /\ clock \in Nat
      /\ 0 \in Times
  BY FilesAssumption, BoundedTypes DEF TypeOK, SetFile, Times
<1>2. /\ work \in [Files -> Texts \cup {None}] /\ mtime \in [Files -> Times]
      /\ bgfp \in [Files -> Times] /\ fp \in [Files -> Times] \cup {None}
  BY DEF TypeOK
<1>3. /\ work' \in [Files -> Texts \cup {None}] /\ work'[f] = x
      /\ \A k \in Files \ {f} : work'[k] = work[k]
  BY <1>2 DEF SetFile
<1>4. /\ mtime' \in [Files -> Times] /\ (x = None \/ mtime'[f] = clock') /\ mtime'[f] <= clock'
      /\ \A k \in Files \ {f} : mtime'[k] = mtime[k]
  BY <1>1, <1>2 DEF SetFile
<1>5. /\ \A k \in Files : mtime[k] \in Nat /\ bgfp[k] \in Nat /\ mtime'[k] \in Nat
      /\ fp # None => \A k \in Files : fp[k] \in Nat
  BY <1>2, <1>4 DEF Times
<1>6. Clocked'
  BY <1>1, <1>4, <1>5 DEF Clocked
<1>7. StoredRows'
  <2>1. ASSUME fp # None, NEW k \in Files \ lost, Present(k)', fp[k] = mtime'[k]
        PROVE  own.rows[k] = work'[k]
    <3>1. k # f
      BY <1>1, <1>3, <1>4, <1>5, <2>1 DEF Clocked, Present
    <3>. QED  BY <1>3, <1>4, <2>1, <3>1 DEF StoredRows, Present
  <2>. QED  BY <2>1 DEF StoredRows
<1>8. ScannedTexts'
  <2>1. ASSUME bg = "scan", NEW k \in Files \ (left \cup missed), Present(k)', bgfp[k] = mtime'[k]
        PROVE  bgtext[k] = work'[k]
    <3>1. k # f
      BY <1>1, <1>3, <1>4, <1>5, <2>1 DEF Clocked, Present
    <3>. QED  BY <1>3, <1>4, <2>1, <3>1 DEF ScannedTexts, Present
  <2>. QED  BY <2>1 DEF ScannedTexts
<1>. QED  BY <1>1, <1>3, <1>4, <1>6, <1>7, <1>8

\* A tool changes a file and nothing of the graph, the cache or the thread.
LEMMA FileStep ==
  ASSUME IInv, NEW f \in Files, NEW x \in Texts \cup {None}, SetFile(f, x),
         h # "edges", look' = look, hf' \in Files \cup {None}, h' \in {"idle", "index", "unindex", "rebuild"},
         h' \in {"index", "unindex"} => hf' = f,
         h' = "index" => x # None, h' = "unindex" => x = None,
         UNCHANGED <<backed, graphVars, rootVars, cacheVars, bgVars, faultVars>>
  PROVE  IInv'
<1>1. TypeOK /\ ToolHolds /\ Clocked /\ StoredRows /\ ScannedTexts /\ EndpointsExist
  BY DEF IInv
<1>2. /\ work' \in [Files -> Texts \cup {None}] /\ work'[f] = x
      /\ mtime' \in [Files -> Times] /\ clock' \in Times
      /\ Clocked' /\ StoredRows' /\ ScannedTexts'
  BY <1>1, SetFileKeeps DEF graphVars, bgVars, faultVars
<1>3. TypeOK'
  BY <1>1, <1>2 DEF TypeOK, graphVars, rootVars, cacheVars, bgVars, faultVars
<1>4. ToolHolds'
  BY <1>1, <1>2 DEF ToolHolds, Present
<1>5. EndpointsExist'
  BY <1>1, NoneOfGraph DEF graphVars, rootVars
<1>. QED  BY <1>2, <1>3, <1>4, <1>5 DEF IInv

LEMMA ToolFileSteps ==
  ASSUME IInv, NEW f \in Files, NEW x \in Texts \cup {None},
         \/ x \in Texts /\ (WriteFile(f, x) \/ WriteSilently(f, x))
         \/ Unlink(f) \/ Change(f, x)
  PROVE  IInv'
<1>. USE DEF toolVars
<1>1. hf \in Files \cup {None}
  BY DEF IInv, TypeOK
<1>2. CASE x \in Texts /\ WriteFile(f, x)
  <2>1. x # None
    BY <1>2, TextTypes
  <2>. QED  BY <1>2, <2>1, FileStep DEF WriteFile
<1>3. CASE x \in Texts /\ WriteSilently(f, x)
  BY <1>1, <1>3, FileStep DEF WriteSilently
<1>4. CASE Unlink(f)
  BY <1>4, FileStep DEF Unlink
<1>5. CASE Change(f, x)
  BY <1>1, <1>5, FileStep DEF Change
<1>. QED  BY <1>2, <1>3, <1>4, <1>5

LEMMA AnswerKeeps == Answer => ToolHolds' /\ h' = "idle" /\ hf' = None /\ look' = None
BY DEF Answer, ToolHolds

\* A step that changes the user's graph by one file.
LEMMA IndexStep == IInv /\ Index => IInv'
<1>. SUFFICES ASSUME IInv, Index PROVE IInv'
  OBVIOUS
<1>1. TypeOK /\ ToolHolds /\ Clocked /\ StoredRows /\ ScannedTexts /\ EndpointsExist
  BY DEF IInv
<1>2. /\ hf \in Files /\ work[hf] \in Texts /\ own' = Indexed(own, hf, work[hf])
      /\ lost' = lost \ {hf} /\ made' = TRUE /\ cache' = NothingCached /\ Answer
      /\ UNCHANGED <<backed, fileVars, fp, rootVars, mixed, bgVars, faults>>
  BY <1>1 DEF ToolHolds, TypeOK, Present, Index
<1>3. own \in Graph /\ root \in Graph /\ Founded(own) /\ Founded(root)
  BY <1>1 DEF TypeOK, EndpointsExist, Graphs
<1>4. Indexed(own, hf, work[hf]) \in Graph /\ Founded(Indexed(own, hf, work[hf]))
  BY <1>2, <1>3, IndexedFounded
<1>5. own' \in Graph /\ EndpointsExist'
  BY <1>2, <1>3, <1>4, FoundedNext DEF rootVars
<1>6. TypeOK'
  BY <1>1, <1>2, <1>5, AnswerKeeps, NothingCachedType DEF TypeOK, fileVars, rootVars, bgVars
<1>7. StoredRows'
  <2>1. own'.rows = [own.rows EXCEPT ![hf] = work[hf]] /\ own.rows \in [Files -> Texts \cup {None}]
    BY <1>2, <1>3, GraphParts DEF Indexed
  <2>. QED  BY <1>1, <1>2, <2>1 DEF StoredRows, Present, fileVars
<1>8. Clocked' /\ ScannedTexts'
  BY <1>1, <1>2 DEF Clocked, ScannedTexts, Present, fileVars, bgVars
<1>. QED  BY <1>2, <1>5, <1>6, <1>7, <1>8, AnswerKeeps DEF IInv

LEMMA UnindexStep == IInv /\ Unindex => IInv'
<1>. SUFFICES ASSUME IInv, Unindex PROVE IInv'
  OBVIOUS
<1>1. TypeOK /\ ToolHolds /\ Clocked /\ StoredRows /\ ScannedTexts /\ EndpointsExist
  BY DEF IInv
<1>2. /\ hf \in Files /\ ~Present(hf) /\ own' = (IF made THEN Forgotten(own, hf) ELSE own)
      /\ cache' = NothingCached /\ Answer
      /\ UNCHANGED <<backed, fileVars, made, fp, rootVars, mixed, bgVars, faultVars>>
  BY <1>1 DEF ToolHolds, Unindex
<1>3. own \in Graph /\ root \in Graph /\ Founded(own) /\ Founded(root)
  BY <1>1 DEF TypeOK, EndpointsExist, Graphs
<1>4. Forgotten(own, hf) \in Graph /\ Founded(Forgotten(own, hf))
  BY <1>2, <1>3, ForgottenFounded
<1>5. own' \in Graph /\ EndpointsExist'
  BY <1>2, <1>3, <1>4, FoundedNext DEF rootVars
<1>6. \A f \in Files \ {hf} : own'.rows[f] = own.rows[f]
  <2>1. own.rows \in [Files -> Texts \cup {None}]
    BY <1>3, GraphParts
  <2>. QED  BY <1>2, <2>1 DEF Forgotten
<1>7. TypeOK'
  BY <1>1, <1>2, <1>5, AnswerKeeps, NothingCachedType DEF TypeOK, fileVars, rootVars, bgVars, faultVars
<1>8. StoredRows'
  BY <1>1, <1>2, <1>6 DEF StoredRows, Present, fileVars, faultVars
<1>9. Clocked' /\ ScannedTexts'
  BY <1>1, <1>2 DEF Clocked, ScannedTexts, Present, fileVars, bgVars
<1>. QED  BY <1>2, <1>5, <1>7, <1>8, <1>9, AnswerKeeps DEF IInv

LEMMA ShownType == Shown \subseteq Views
BY DEF Shown

\* What a build makes of the graph.
LEMMA IndexAllKeeps ==
  ASSUME IInv, NEW text \in [Files -> Texts \cup {None}], NEW stamp \in [Files -> Times],
         NEW skipped \in SUBSET Files, IndexAll(text, stamp, skipped), root' = root
  PROVE  /\ own' \in Graph /\ made' \in BOOLEAN /\ fp' \in [Files -> Times]
         /\ mixed' \subseteq Views /\ lost' \subseteq Files /\ EndpointsExist'
         /\ own'.rows = text /\ own'.dead = {} /\ fp' = stamp /\ lost' = skipped
<1>1. PICK n \in Builds(text) : own' = n
  BY DEF IndexAll
<1>2. n \in Graph /\ Founded(n) /\ n.rows = text /\ n.dead = {}
  BY BuiltFounded
<1>3. Founded(root)
  BY DEF IInv, EndpointsExist, Graphs
<1>4. EndpointsExist'
  BY <1>1, <1>2, <1>3, FoundedNext
<1>. QED  BY <1>1, <1>2, <1>4, ShownType DEF IndexAll

\* A build by a tool reads the vault as it is, but for files it cannot read.
LEMMA ToolBuild ==
  ASSUME IInv, NEW text \in [Files -> Texts \cup {None}], NEW stamp \in [Files -> Times],
         NEW skipped \in SUBSET Files, IndexAll(text, stamp, skipped),
         \A f \in Files \ skipped : text[f] = work[f],
         \A f \in Files : stamp[f] <= clock,
         faults' \in Times,
         UNCHANGED <<backed, fileVars, rootVars, cache, bgVars>>,
         Answer \/ UNCHANGED toolVars
  PROVE  IInv'
<1>1. TypeOK /\ ToolHolds /\ Clocked /\ StoredRows /\ ScannedTexts /\ EndpointsExist
  BY DEF IInv
<1>2. /\ own' \in Graph /\ made' \in BOOLEAN /\ fp' \in [Files -> Times]
      /\ mixed' \subseteq Views /\ lost' \subseteq Files /\ EndpointsExist'
      /\ own'.rows = text /\ fp' = stamp /\ lost' = skipped
  BY IndexAllKeeps DEF rootVars
<1>3. /\ ToolHolds' /\ hf' \in Files \cup {None}
      /\ h' \in {"idle", "index", "unindex", "rebuild", "edges"}
      /\ look' \in [view: Views, nodes: SUBSET Files] \cup {None}
  BY <1>1, AnswerKeeps DEF TypeOK, toolVars, ToolHolds, Present, fileVars
<1>4. TypeOK'
  BY <1>1, <1>2, <1>3 DEF TypeOK, fileVars, rootVars, bgVars
<1>5. StoredRows'
  BY <1>2 DEF StoredRows, Present, fileVars
<1>6. Clocked'
  BY <1>1, <1>2 DEF Clocked, fileVars, bgVars
<1>7. ScannedTexts'
  BY <1>1 DEF ScannedTexts, Present, fileVars, bgVars
<1>. QED  BY <1>2, <1>3, <1>4, <1>5, <1>6, <1>7 DEF IInv

\* The texts and the times of the files that can be read.
LEMMA ReadableTypes ==
  ASSUME IInv, NEW fs \in SUBSET Files
  PROVE  /\ TextsOf(fs) \in [Files -> Texts \cup {None}] /\ TimesOf(fs) \in [Files -> Times]
         /\ work \in [Files -> Texts \cup {None}] /\ mtime \in [Files -> Times]
         /\ \A f \in fs : TextsOf(fs)[f] = work[f] /\ TimesOf(fs)[f] = mtime[f]
         /\ \A f \in Files : TimesOf(fs)[f] <= clock /\ mtime[f] <= clock
<1>1. /\ work \in [Files -> Texts \cup {None}] /\ mtime \in [Files -> Times]
      /\ clock \in Times /\ 0 \in Times /\ Times \subseteq Nat
      /\ \A f \in Files : mtime[f] <= clock
  BY FilesAssumption DEF IInv, TypeOK, Clocked, Times
<1>2. 0 <= clock
  BY <1>1
<1>. QED  BY <1>1, <1>2 DEF TextsOf, TimesOf

LEMMA RebuildStep == IInv /\ (RebuildInstalls \/ Open) => IInv'
<1>. SUFFICES ASSUME IInv, RebuildInstalls \/ Open PROVE IInv'
  OBVIOUS
<1>1. UNCHANGED <<backed, fileVars, rootVars, cache, bgVars>> /\ (Answer \/ UNCHANGED toolVars)
  BY DEF RebuildInstalls, Open
<1>2. PICK bad \in SUBSET Files :
        /\ Unreadable(bad)
        /\ \/ IndexAll(work, TimesOf(Files \ bad), {})
           \/ IndexAll(TextsOf(Files \ bad), mtime, bad)
  BY DEF RebuildInstalls, Open
<1>3. faults' \in Times
  BY <1>2, UnreadableType DEF IInv
<1>4. /\ TextsOf(Files \ bad) \in [Files -> Texts \cup {None}]
      /\ TimesOf(Files \ bad) \in [Files -> Times]
      /\ work \in [Files -> Texts \cup {None}] /\ mtime \in [Files -> Times]
      /\ \A f \in Files \ bad : TextsOf(Files \ bad)[f] = work[f]
      /\ \A f \in Files : TimesOf(Files \ bad)[f] <= clock /\ mtime[f] <= clock
  BY ReadableTypes
<1>5. CASE IndexAll(work, TimesOf(Files \ bad), {})
  <2>1. {} \in SUBSET Files
    OBVIOUS
  <2>. QED  BY <1>1, <1>3, <1>4, <1>5, <2>1, ToolBuild
<1>6. CASE IndexAll(TextsOf(Files \ bad), mtime, bad)
  BY <1>1, <1>3, <1>4, <1>6, ToolBuild
<1>. QED  BY <1>2, <1>5, <1>6

\* A tool reads, forgets or ends, and changes neither the vault nor the graphs.
LEMMA QuietStep ==
  ASSUME IInv, UNCHANGED <<backed, fileVars, graphVars, rootVars, bgVars>>,
         cache' \in [Views -> Payload \cup {None}], mixed' \subseteq Views,
         faults' \in Times, lost \subseteq lost', lost' \subseteq Files,
         \/ Answer \/ UNCHANGED toolVars
         \/ h' = "edges" /\ look' \in [view: Views, nodes: SUBSET Files] /\ hf' = hf
  PROVE  IInv'
<1>1. TypeOK /\ ToolHolds /\ Clocked /\ StoredRows /\ ScannedTexts /\ EndpointsExist
  BY DEF IInv
<1>2. /\ ToolHolds' /\ hf' \in Files \cup {None}
      /\ h' \in {"idle", "index", "unindex", "rebuild", "edges"}
      /\ look' \in [view: Views, nodes: SUBSET Files] \cup {None}
  BY <1>1, AnswerKeeps DEF TypeOK, toolVars, ToolHolds, Present, fileVars
<1>3. TypeOK'
  BY <1>1, <1>2 DEF TypeOK, fileVars, graphVars, rootVars, bgVars
<1>4. Clocked' /\ StoredRows' /\ ScannedTexts'
  BY <1>1 DEF Clocked, StoredRows, ScannedTexts, Present, fileVars, graphVars, bgVars
<1>5. EndpointsExist'
  BY <1>1, NoneOfGraph DEF graphVars, rootVars
<1>. QED  BY <1>2, <1>3, <1>4, <1>5 DEF IInv

LEMMA QuietTools ==
  ASSUME IInv,
         \/ ChangeStops \/ RebuildSkips \/ ReadEdges
         \/ \E v \in Views : ReadNodes(v) \/ Expire(v)
  PROVE  IInv'
<1>1. /\ cache \in [Views -> Payload \cup {None}] /\ mixed \subseteq Views
      /\ faults \in Times /\ lost \subseteq Files
      /\ h = "edges" => look \in [view: Views, nodes: SUBSET Files]
  BY DEF IInv, TypeOK, ToolHolds
<1>. USE DEF faultVars
<1>2. CASE ChangeStops
  BY <1>1, <1>2, QuietStep DEF ChangeStops, cacheVars
<1>3. CASE RebuildSkips
  <2>1. faults' \in Times /\ lost \subseteq lost' /\ lost' \subseteq Files
    BY <1>1, <1>3, UnreadableType DEF RebuildSkips, IInv
  <2>2. UNCHANGED <<backed, fileVars, graphVars, rootVars, cacheVars, bgVars>> /\ Answer
    BY <1>3 DEF RebuildSkips
  <2>. QED  BY <1>1, <2>1, <2>2, QuietStep DEF cacheVars
<1>4. CASE ReadEdges
  <2>1. look.view \in Views /\ look.nodes \in SUBSET Files
    BY <1>1, <1>4 DEF ReadEdges
  <2>2. PayloadOf(look.view, look.nodes) \in Payload
    BY <2>1, PayloadType
  <2>3. cache' \in [Views -> Payload \cup {None}]
    BY <1>1, <1>4, <2>1, <2>2 DEF ReadEdges
  <2>. QED  BY <1>1, <1>4, <2>3, QuietStep DEF ReadEdges
<1>5. ASSUME NEW v \in Views, ReadNodes(v) PROVE IInv'
  <2>1. NodesOf(v) \in SUBSET Files
    BY NodesType
  <2>2. look' \in [view: Views, nodes: SUBSET Files]
    BY <1>5, <2>1 DEF ReadNodes
  <2>. QED  BY <1>1, <1>5, <2>2, QuietStep DEF ReadNodes
<1>6. ASSUME NEW v \in Views, Expire(v) PROVE IInv'
  BY <1>1, <1>6, QuietStep DEF Expire
<1>. QED  BY <1>2, <1>3, <1>4, <1>5, <1>6

\* Somebody else changes the root graph.
LEMMA RootStep ==
  ASSUME IInv, NEW graphs, RootChange(graphs), \A g \in graphs : g \in Graph /\ Founded(g)
  PROVE  IInv'
<1>1. TypeOK /\ ToolHolds /\ Clocked /\ StoredRows /\ ScannedTexts /\ EndpointsExist
  BY DEF IInv
<1>2. /\ root' \in graphs /\ turns' \in Times /\ mixed' \subseteq Views
      /\ UNCHANGED <<backed, fileVars, graphVars, cache, toolVars, bgVars, faultVars>>
  BY <1>1, BoundedTypes, ShownType DEF RootChange
<1>3. PICK g \in graphs : root' = g
  BY <1>2
<1>4. Founded(own)
  BY <1>1 DEF EndpointsExist, Graphs
<1>5. EndpointsExist' /\ root' \in Graph
  BY <1>2, <1>3, <1>4, FoundedNext DEF graphVars
<1>6. TypeOK'
  BY <1>1, <1>2, <1>5 DEF TypeOK, fileVars, graphVars, toolVars, bgVars, faultVars
<1>7. ToolHolds' /\ Clocked' /\ StoredRows' /\ ScannedTexts'
  BY <1>1, <1>2
  DEF ToolHolds, Clocked, StoredRows, ScannedTexts, Present, fileVars, graphVars, toolVars, bgVars,
      faultVars
<1>. QED  BY <1>5, <1>6, <1>7 DEF IInv

LEMMA RootSteps == IInv /\ Root => IInv'
<1>. SUFFICES ASSUME IInv, Root PROVE IInv'
  OBVIOUS
<1>1. root \in Graph /\ Founded(root)
  BY DEF IInv, TypeOK, EndpointsExist, Graphs
<1>2. ASSUME NEW f \in Files, NEW x \in Texts, RootIndexes(f, x) PROVE IInv'
  BY <1>1, <1>2, IndexedFounded, RootStep DEF RootIndexes
<1>3. ASSUME NEW f \in Files, RootForgets(f) PROVE IInv'
  BY <1>1, <1>3, ForgottenFounded, RootStep DEF RootForgets
<1>4. ASSUME NEW text \in [Files -> Texts \cup {None}], RootBuilds(text) PROVE IInv'
  BY <1>4, BuiltFounded, RootStep DEF RootBuilds
<1>. QED  BY <1>2, <1>3, <1>4 DEF Root

LEMMA ThreadStep ==
  ASSUME IInv, Thread, ~BuildInstalls
  PROVE  IInv'
<1>1. TypeOK /\ ToolHolds /\ Clocked /\ StoredRows /\ ScannedTexts /\ EndpointsExist
  BY DEF IInv
<1>2. UNCHANGED <<backed, fileVars, graphVars, rootVars, cacheVars, toolVars, lost>>
  BY DEF Thread, BuildStat, BuildStatFails, BuildReads, BuildPasses, BuildSkips, BuildScans,
         BuildFails, faultVars
<1>3. faults' \in Times
  BY <1>1, BoundedTypes
  DEF TypeOK, Thread, BuildStat, BuildStatFails, BuildReads, BuildPasses, BuildSkips, BuildScans,
      BuildFails, Fault, faultVars
<1>4. NoTimes \in [Files -> Times] /\ NoText \in [Files -> Texts \cup {None}]
  BY FilesAssumption DEF NoTimes, NoText, Times
<1>5. ASSUME NEW f \in Files, BuildStat(f) \/ BuildStatFails(f)
      PROVE  /\ bg' = "stat" /\ left' \subseteq Files /\ missed' \subseteq Files
             /\ bgfp' \in [Files -> Times] /\ bgtext' \in [Files -> Texts \cup {None}]
             /\ \A k \in Files : bgfp'[k] \in {bgfp[k], mtime[k]}
  BY <1>1, <1>5 DEF TypeOK, BuildStat, BuildStatFails
<1>6. ASSUME NEW f \in Files, BuildReads(f) \/ BuildPasses(f)
      PROVE  /\ bg' = "scan" /\ left' \subseteq Files /\ missed' \subseteq Files
             /\ bgfp' = bgfp /\ bgtext' \in [Files -> Texts \cup {None}]
             /\ \A k \in Files \ (left' \cup missed') :
                  \/ k \notin left \cup missed /\ bgtext'[k] = bgtext[k]
                  \/ bgtext'[k] = work[k]
  BY <1>1, <1>6 DEF TypeOK, BuildReads, BuildPasses
<1>7. ASSUME BuildSkips \/ BuildFails
      PROVE  bg' = "done" /\ bgfp' = NoTimes /\ bgtext' = NoText /\ left' = Files /\ missed' = {}
  BY <1>7 DEF BuildSkips, BuildFails, ThreadEnds
<1>8. ASSUME BuildScans
      PROVE  bg' = "scan" /\ left' = Files /\ UNCHANGED <<bgfp, bgtext, missed>>
  BY <1>8 DEF BuildScans
<1>9. /\ bg' \in {"stat", "scan", "done"} /\ left' \subseteq Files /\ missed' \subseteq Files
      /\ bgfp' \in [Files -> Times] /\ bgtext' \in [Files -> Texts \cup {None}]
      /\ \A f \in Files : bgfp'[f] \in {bgfp[f], mtime[f], 0}
  <2>1. bgfp \in [Files -> Times] /\ bgtext \in [Files -> Texts \cup {None}] /\ missed \subseteq Files
    BY <1>1 DEF TypeOK
  <2>2. \A f \in Files : NoTimes[f] = 0
    BY DEF NoTimes
  <2>. QED  BY <1>4, <1>5, <1>6, <1>7, <1>8, <2>1, <2>2 DEF Thread
<1>10. TypeOK'
  BY <1>1, <1>2, <1>3, <1>9 DEF TypeOK, fileVars, graphVars, rootVars, cacheVars, toolVars
<1>11. Clocked'
  <2>1. 0 <= clock
    BY <1>1 DEF TypeOK, Times
  <2>. QED  BY <1>1, <1>2, <1>9, <2>1 DEF Clocked, fileVars, graphVars
<1>12. StoredRows' /\ ToolHolds'
  BY <1>1, <1>2 DEF StoredRows, ToolHolds, Present, fileVars, graphVars, toolVars
<1>13. ScannedTexts'
  <2>1. UNCHANGED <<work, mtime>>
    BY <1>2 DEF fileVars
  <2>2. ASSUME NEW f \in Files, BuildReads(f) \/ BuildPasses(f) PROVE ScannedTexts'
    <3>1. bg = "scan"
      BY <2>2 DEF BuildReads, BuildPasses
    <3>. QED  BY <1>1, <1>6, <2>1, <2>2, <3>1 DEF ScannedTexts, Present
  <2>3. ASSUME NEW f \in Files, BuildStat(f) \/ BuildStatFails(f) PROVE ScannedTexts'
    BY <1>5, <2>3 DEF ScannedTexts
  <2>4. CASE BuildSkips \/ BuildFails
    BY <1>7, <2>4 DEF ScannedTexts
  <2>5. CASE BuildScans
    BY <1>8, <2>5 DEF ScannedTexts
  <2>. QED  BY <2>2, <2>3, <2>4, <2>5 DEF Thread
<1>14. EndpointsExist'
  BY <1>1, <1>2, NoneOfGraph DEF graphVars, rootVars
<1>. QED  BY <1>10, <1>11, <1>12, <1>13, <1>14 DEF IInv

LEMMA InstallStep == IInv /\ BuildInstalls => IInv'
<1>. SUFFICES ASSUME IInv, BuildInstalls PROVE IInv'
  OBVIOUS
<1>1. TypeOK /\ ToolHolds /\ Clocked /\ StoredRows /\ ScannedTexts /\ EndpointsExist
  BY DEF IInv
<1>2. /\ bg = "scan" /\ left = {} /\ IndexAll(bgtext, bgfp, missed)
      /\ bg' = "done" /\ bgfp' = NoTimes /\ bgtext' = NoText /\ left' = Files /\ missed' = {}
      /\ UNCHANGED <<backed, fileVars, rootVars, cache, toolVars, faults>>
      /\ bgtext \in [Files -> Texts \cup {None}] /\ bgfp \in [Files -> Times]
      /\ missed \in SUBSET Files
  BY <1>1 DEF BuildInstalls, ThreadEnds, TypeOK
<1>3. /\ own' \in Graph /\ made' \in BOOLEAN /\ fp' \in [Files -> Times]
      /\ mixed' \subseteq Views /\ lost' \subseteq Files /\ EndpointsExist'
      /\ own'.rows = bgtext /\ fp' = bgfp /\ lost' = missed
  BY <1>2, IndexAllKeeps DEF rootVars
<1>4. NoTimes \in [Files -> Times] /\ NoText \in [Files -> Texts \cup {None}]
      /\ \A f \in Files : NoTimes[f] = 0
  BY FilesAssumption DEF NoTimes, NoText, Times
<1>5. TypeOK'
  BY <1>1, <1>2, <1>3, <1>4 DEF TypeOK, fileVars, rootVars, toolVars
<1>6. StoredRows'
  BY <1>1, <1>2, <1>3 DEF StoredRows, ScannedTexts, Present, fileVars
<1>7. Clocked'
  <2>1. 0 <= clock
    BY <1>1 DEF TypeOK, Times
  <2>. QED  BY <1>1, <1>2, <1>3, <1>4, <2>1 DEF Clocked, fileVars
<1>8. ToolHolds' /\ ScannedTexts'
  BY <1>1, <1>2 DEF ToolHolds, ScannedTexts, Present, fileVars, toolVars
<1>. QED  BY <1>3, <1>5, <1>6, <1>7, <1>8 DEF IInv

LEMMA RestartStep == IInv /\ Restart => IInv'
<1>. SUFFICES ASSUME IInv, Restart PROVE IInv'
  OBVIOUS
<1>1. TypeOK /\ ToolHolds /\ Clocked /\ StoredRows /\ ScannedTexts /\ EndpointsExist
  BY DEF IInv
<1>2. /\ cache' = NothingCached /\ mixed' = {} /\ Answer
      /\ UNCHANGED <<backed, fileVars, turns, faults>> /\ ToolHolds'
      /\ h' = "idle" /\ hf' = None /\ look' = None
      /\ cache' \in [Views -> Payload \cup {None}]
  BY AnswerKeeps, NothingCachedType DEF Restart
<1>3. /\ NoTimes \in [Files -> Times] /\ NoText \in [Files -> Texts \cup {None}]
      /\ \A f \in Files : NoTimes[f] = 0 /\ NoText[f] = None
  BY FilesAssumption DEF NoTimes, NoText, Times
<1>4. clock \in Nat
  BY <1>1 DEF TypeOK, Times
<1>5. PICK g \in Builds(root.rows) : root' = g
  BY DEF Restart
<1>6. g \in Graph /\ Founded(g) /\ Founded(own)
  <2>1. root.rows \in [Files -> Texts \cup {None}]
    BY <1>1, GraphParts DEF TypeOK
  <2>. QED  BY <1>1, <2>1, BuiltFounded DEF EndpointsExist, Graphs
<1>7. CASE backed
  <2>1. /\ bg' = "stat" /\ left' = Files /\ bgfp' = NoTimes /\ bgtext' = NoText /\ missed' = {}
        /\ UNCHANGED <<graphVars, lost>>
    BY <1>7 DEF Restart
  <2>2. TypeOK'
    BY <1>1, <1>2, <1>3, <1>5, <1>6, <2>1 DEF TypeOK, fileVars, graphVars
  <2>3. Clocked' /\ StoredRows' /\ ScannedTexts'
    BY <1>1, <1>2, <1>3, <1>4, <2>1
    DEF Clocked, StoredRows, ScannedTexts, Present, fileVars, graphVars
  <2>4. EndpointsExist'
    BY <1>5, <1>6, <2>1, FoundedNext DEF graphVars
  <2>. QED  BY <1>2, <2>2, <2>3, <2>4 DEF IInv
<1>8. CASE ~backed
  <2>1. made' = FALSE /\ own' = NoGraph /\ fp' = None /\ lost' = {} /\ UNCHANGED bgVars
    BY <1>8 DEF Restart
  <2>2. TypeOK'
    BY <1>1, <1>2, <1>5, <1>6, <2>1, NoGraphFounded DEF TypeOK, fileVars, bgVars
  <2>3. Clocked' /\ StoredRows' /\ ScannedTexts'
    BY <1>1, <1>2, <2>1 DEF Clocked, StoredRows, ScannedTexts, Present, fileVars, bgVars
  <2>4. EndpointsExist'
    BY <1>5, <1>6, <2>1, NoGraphFounded, FoundedNext
  <2>. QED  BY <1>2, <2>2, <2>3, <2>4 DEF IInv
<1>. QED  BY <1>7, <1>8

LEMMA IInvNext == IInv /\ [Next]_vars => IInv'
<1>. SUFFICES ASSUME IInv, [Next]_vars PROVE IInv'
  OBVIOUS
<1>1. CASE Tool
  <2>1. ASSUME NEW f \in Files, NEW x \in Texts, WriteFile(f, x) \/ WriteSilently(f, x)
        PROVE  IInv'
    BY <2>1, ToolFileSteps
  <2>2. ASSUME NEW f \in Files, Unlink(f) PROVE IInv'
    <3>1. None \in Texts \cup {None}
      OBVIOUS
    <3>. QED  BY <2>2, <3>1, ToolFileSteps
  <2>3. ASSUME NEW f \in Files, NEW x \in Texts \cup {None}, Change(f, x) PROVE IInv'
    BY <2>3, ToolFileSteps
  <2>4. CASE Index \/ Unindex
    BY <2>4, IndexStep, UnindexStep
  <2>5. CASE RebuildInstalls \/ Open
    BY <2>5, RebuildStep
  <2>6. CASE ChangeStops \/ RebuildSkips \/ ReadEdges \/ \E v \in Views : ReadNodes(v) \/ Expire(v)
    BY <2>6, QuietTools
  <2>. QED  BY <1>1, <2>1, <2>2, <2>3, <2>4, <2>5, <2>6 DEF Tool
<1>2. CASE Root
  BY <1>2, RootSteps
<1>3. CASE Thread
  BY <1>3, ThreadStep, InstallStep
<1>4. CASE Restart
  BY <1>4, RestartStep
<1>5. CASE UNCHANGED vars
  <2>1. /\ cache \in [Views -> Payload \cup {None}] /\ mixed \subseteq Views
        /\ faults \in Times /\ lost \subseteq Files
    BY DEF IInv, TypeOK
  <2>. QED  BY <1>5, <2>1, QuietStep DEF vars, cacheVars, faultVars
<1>. QED  BY <1>1, <1>2, <1>3, <1>4, <1>5 DEF Next

-------------------------------------------------------------------------------
(* Theorems. *)

\* The inductive invariant: besides the properties, what the stored fingerprint
\* says of a file that could be read holds, and so does what the thread has read.
THEOREM Inductive == Spec => []IInv
BY IInvInit, IInvNext, PTL DEF Spec

\* Every variable of the graphs, the cache and the thread keeps its type.
THEOREM TypeCorrect == Spec => []TypeOK
<1>1. IInv => TypeOK
  BY DEF IInv
<1>. QED  BY <1>1, Inductive, PTL

\* No update, removal, build or kill leaves a relationship without its entities.
THEOREM NothingDangles == Spec => []EndpointsExist
<1>1. IInv => EndpointsExist
  BY DEF IInv
<1>. QED  BY <1>1, Inductive, PTL

\* A build that is skipped had nothing to do for any file that is there and whose
\* reads have not failed since it was last indexed.
THEOREM SkippingIsSafe == Spec => []FingerprintMeansCurrent
<1>1. ASSUME IInv PROVE FingerprintMeansCurrent
  <2>1. fp = mtime => fp # None
    BY <1>1, NoneAssumption DEF IInv, TypeOK, Times
  <2>. QED  BY <1>1, <2>1 DEF IInv, StoredRows, FingerprintMeansCurrent, Current
<1>. QED  BY <1>1, Inductive, PTL

LEMMA StampIsNotNone == \A stamp \in [Files -> Times] : stamp # None
BY NoneAssumption DEF Times

LEMMA SkippedBuild ==
  ASSUME IInv, BuildSkips
  PROVE  \A f \in Unchanged : Current({f} \ lost)'
<1>1. TypeOK /\ StoredRows
  BY DEF IInv
<1>2. fp # None /\ fp = bgfp /\ UNCHANGED <<work, mtime, own, lost>>
  BY <1>1, StampIsNotNone DEF BuildSkips, TypeOK, fileVars, graphVars, faultVars
<1>. QED  BY <1>1, <1>2 DEF StoredRows, Current, Unchanged, Present

LEMMA InstalledBuild ==
  ASSUME IInv, BuildInstalls
  PROVE  /\ \A f \in Unchanged : Current({f} \ lost)'
         /\ \A f, k \in Unchanged : NoneLost({f, k})'
<1>1. /\ bgtext \in [Files -> Texts \cup {None}] /\ bgfp \in [Files -> Times]
      /\ missed \in SUBSET Files /\ ScannedTexts
  BY DEF IInv, TypeOK
<1>2. /\ bg = "scan" /\ left = {} /\ IndexAll(bgtext, bgfp, missed)
      /\ UNCHANGED <<work, mtime, root>>
  BY DEF BuildInstalls, fileVars, rootVars
<1>3. own'.rows = bgtext /\ own'.dead = {} /\ lost' = missed
  BY <1>1, <1>2, IndexAllKeeps
<1>. QED  BY <1>1, <1>2, <1>3 DEF ScannedTexts, Current, Unchanged, Present, NoneLost

LEMMA SkippedRebuild ==
  ASSUME IInv, RebuildSkips
  PROVE  Current(Files \ lost)'
<1>1. StoredRows
  BY DEF IInv
<1>2. PICK bad \in SUBSET {f \in Files : Present(f)} :
        fp = TimesOf(Files \ bad) /\ lost' = lost \cup bad
  BY DEF RebuildSkips
<1>3. UNCHANGED <<work, own>>
  BY DEF RebuildSkips, fileVars, graphVars
<1>4. Files \ bad \in SUBSET Files
  OBVIOUS
<1>5. TimesOf(Files \ bad) \in [Files -> Times]
  BY <1>4, ReadableTypes
<1>6. fp # None /\ \A f \in Files \ bad : fp[f] = mtime[f]
  BY <1>2, <1>4, <1>5, ReadableTypes, StampIsNotNone
<1>. QED  BY <1>1, <1>2, <1>3, <1>6 DEF StoredRows, Current, Present

LEMMA InstalledRebuild ==
  ASSUME IInv, RebuildInstalls
  PROVE  (Current(Files \ lost) /\ NoneLost(Files))'
<1>1. PICK bad \in SUBSET {f \in Files : Present(f)} :
        \/ IndexAll(work, TimesOf(Files \ bad), {})
        \/ IndexAll(TextsOf(Files \ bad), mtime, bad)
  BY DEF RebuildInstalls
<1>2. UNCHANGED <<work, root>>
  BY DEF RebuildInstalls, fileVars, rootVars
<1>3. /\ Files \ bad \in SUBSET Files /\ {} \in SUBSET Files /\ bad \in SUBSET Files
  OBVIOUS
<1>4. CASE IndexAll(work, TimesOf(Files \ bad), {})
  <2>1. own'.rows = work /\ own'.dead = {}
    BY <1>2, <1>3, <1>4, ReadableTypes, IndexAllKeeps
  <2>. QED  BY <1>2, <2>1 DEF Current, NoneLost, Present
<1>5. CASE IndexAll(TextsOf(Files \ bad), mtime, bad)
  <2>1. own'.rows = TextsOf(Files \ bad) /\ own'.dead = {} /\ lost' = bad
    BY <1>2, <1>3, <1>5, ReadableTypes, IndexAllKeeps
  <2>2. \A f \in Files \ bad : TextsOf(Files \ bad)[f] = work[f]
    BY <1>3, ReadableTypes
  <2>. QED  BY <1>2, <2>1, <2>2 DEF Current, NoneLost, Present
<1>. QED  BY <1>1, <1>4, <1>5

\* A build by the thread leaves current every file that has not changed since it
\* began, and a rebuild by a tool every file, but for those whose reads failed;
\* neither leaves a lost link, unless it was skipped.
THEOREM BuildLeavesCurrent == Spec => BuildEndsCurrent
<1>. DEFINE A ==
       /\ BuildSkips \/ BuildInstalls => \A f \in Unchanged : Current({f} \ lost)'
       /\ BuildInstalls => \A f, k \in Unchanged : NoneLost({f, k})'
       /\ RebuildSkips => Current(Files \ lost)'
       /\ RebuildInstalls => (Current(Files \ lost) /\ NoneLost(Files))'
<1>1. IInv /\ [Next]_vars => [A]_vars
  BY SkippedBuild, InstalledBuild, SkippedRebuild, InstalledRebuild
<1>. QED  BY <1>1, Inductive, PTL DEF Spec, BuildEndsCurrent

-------------------------------------------------------------------------------
(* The cache. *)

\* The nodes that knowledge_graph has read are those of the graphs, unless one of
\* them has been replaced since.
LookHolds ==
  h = "edges" /\ look.view \notin mixed => look.nodes = NodesOf(look.view)

CacheInv == IInv /\ CacheShowsGraph /\ LookHolds

LEMMA SameGraphSamePayload ==
  ASSUME UNCHANGED <<own, root>>
  PROVE  \A v : NodesOf(v)' = NodesOf(v) /\ PayloadOf(v, NodesOf(v))' = PayloadOf(v, NodesOf(v))
BY DEF Graphs, NodesOf, PayloadOf, LinksIn, TagsIn, Tagged, Alive, LinksTo, SourceOf

\* An empty cache promises nothing.
LEMMA CacheEmptied ==
  ASSUME cache' = NothingCached, Answer
  PROVE  CacheShowsGraph' /\ LookHolds'
<1>1. \A v \in Views : cache'[v] = None
  BY DEF NothingCached
<1>. QED  BY <1>1 DEF Answer, CacheShowsGraph, LookHolds

\* Nor does a cache of which all is of a graph that is changed now.
LEMMA CacheMixed ==
  ASSUME IInv, mixed' = Shown, cache' = cache, Answer \/ UNCHANGED toolVars
  PROVE  CacheShowsGraph' /\ LookHolds'
<1>1. \A v \in Views \ mixed' : cache'[v] = None /\ ~(look # None /\ look.view = v)
  BY DEF Shown
<1>2. CASE h' = "edges"
  <2>1. UNCHANGED toolVars
    BY <1>2 DEF Answer
  <2>2. look' = look /\ look \in [view: Views, nodes: SUBSET Files]
    BY <1>2, <2>1 DEF IInv, ToolHolds, toolVars
  <2>3. look # None /\ look.view \in Views
    BY <2>2, NoneAssumption
  <2>. QED  BY <1>1, <2>2, <2>3 DEF CacheShowsGraph, LookHolds
<1>3. CASE h' # "edges"
  BY <1>1, <1>3 DEF CacheShowsGraph, LookHolds
<1>. QED  BY <1>2, <1>3

\* A step that changes nothing of the graphs and at most forgets payloads.
LEMMA CacheSame ==
  ASSUME CacheShowsGraph, LookHolds, UNCHANGED <<own, root, mixed>>,
         \A v \in Views : cache'[v] \in {cache[v], None},
         h' # "edges" \/ UNCHANGED <<h, look>>
  PROVE  CacheShowsGraph' /\ LookHolds'
BY SameGraphSamePayload DEF CacheShowsGraph, LookHolds

LEMMA CacheNext == CacheInv /\ [Next]_vars => (CacheShowsGraph /\ LookHolds)'
<1>. SUFFICES ASSUME CacheInv, [Next]_vars PROVE CacheShowsGraph' /\ LookHolds'
  OBVIOUS
<1>. USE DEF CacheInv
<1>1. cache \in [Views -> Payload \cup {None}] /\ mixed \subseteq Views
  BY DEF IInv, TypeOK
<1>2. ASSUME NEW f, NEW x, WriteFile(f, x) \/ WriteSilently(f, x) \/ Unlink(f) \/ Change(f, x)
      PROVE  CacheShowsGraph' /\ LookHolds'
  BY <1>2, CacheSame
     DEF WriteFile, WriteSilently, Unlink, Change, cacheVars, graphVars, rootVars, toolVars
<1>3. CASE Index \/ Unindex \/ Restart
  BY <1>3, CacheEmptied DEF Index, Unindex, Restart
<1>4. CASE RebuildInstalls \/ Open \/ BuildInstalls
  <2>1. mixed' = Shown /\ cache' = cache /\ (Answer \/ UNCHANGED toolVars)
    BY <1>4 DEF RebuildInstalls, Open, BuildInstalls, IndexAll
  <2>. QED  BY <2>1, CacheMixed
<1>5. ASSUME NEW graphs, RootChange(graphs) PROVE CacheShowsGraph' /\ LookHolds'
  BY <1>5, CacheMixed DEF RootChange
<1>6. CASE ChangeStops \/ RebuildSkips
  BY <1>6, CacheSame DEF ChangeStops, RebuildSkips, Answer, cacheVars, graphVars, rootVars
<1>7. ASSUME NEW v \in Views, Expire(v) PROVE CacheShowsGraph' /\ LookHolds'
  <2>1. \A w \in Views : cache'[w] \in {cache[w], None}
    BY <1>1, <1>7 DEF Expire
  <2>. QED  BY <1>7, <2>1, CacheSame DEF Expire, toolVars, graphVars, rootVars
<1>8. ASSUME NEW v \in Views, ReadNodes(v) PROVE CacheShowsGraph' /\ LookHolds'
  <2>1. /\ cache' = cache /\ cache[v] = None /\ mixed' = mixed \ {v}
        /\ look' = [view |-> v, nodes |-> NodesOf(v)] /\ UNCHANGED <<own, root>>
    BY <1>8 DEF ReadNodes, graphVars, rootVars
  <2>2. CacheShowsGraph'
    BY <2>1, SameGraphSamePayload DEF CacheShowsGraph
  <2>3. LookHolds'
    BY <2>1, SameGraphSamePayload DEF LookHolds
  <2>. QED  BY <2>2, <2>3
<1>9. CASE ReadEdges
  <2>1. /\ cache' = [cache EXCEPT ![look.view] = PayloadOf(look.view, look.nodes)]
        /\ h = "edges" /\ h' = "idle" /\ UNCHANGED <<own, root, mixed>>
    BY <1>9 DEF ReadEdges, Answer, graphVars, rootVars
  <2>2. ASSUME NEW v \in Views \ mixed, cache'[v] # None
        PROVE  cache'[v] = PayloadOf(v, NodesOf(v))
    <3>1. CASE v = look.view
      BY <1>1, <2>1, <3>1 DEF LookHolds
    <3>2. CASE v # look.view
      BY <1>1, <2>1, <2>2, <3>2 DEF CacheShowsGraph
    <3>. QED  BY <3>1, <3>2
  <2>3. CacheShowsGraph'
    BY <2>1, <2>2, SameGraphSamePayload DEF CacheShowsGraph
  <2>. QED  BY <2>1, <2>3 DEF LookHolds
<1>10. CASE Root
  BY <1>5, <1>10 DEF Root, RootIndexes, RootForgets, RootBuilds
<1>11. CASE Thread /\ ~BuildInstalls
  <2>1. UNCHANGED <<graphVars, rootVars, cacheVars, toolVars>>
    BY <1>11 DEF Thread, BuildStat, BuildStatFails, BuildReads, BuildPasses, BuildSkips,
                 BuildScans, BuildFails
  <2>. QED  BY <2>1, CacheSame DEF graphVars, rootVars, cacheVars, toolVars
<1>12. CASE UNCHANGED vars
  BY <1>12, CacheSame DEF vars, graphVars, rootVars, cacheVars, toolVars
<1>. QED
  BY <1>2, <1>3, <1>4, <1>6, <1>7, <1>8, <1>9, <1>10, <1>11, <1>12 DEF Next, Tool

\* A payload in the cache is what the graphs show, whatever the tools and the time
\* to live do between the two reads that made it and after them, but for what
\* builds and changes of the root graph have made stale.
THEOREM CacheIsFresh == Spec => []CacheShowsGraph
<1>1. Init => CacheInv
  <2>1. Init => CacheShowsGraph /\ LookHolds
    BY DEF Init, CacheShowsGraph, LookHolds, NothingCached
  <2>. QED  BY <2>1, IInvInit DEF CacheInv
<1>2. CacheInv /\ [Next]_vars => CacheInv'
  <2>1. CacheInv /\ [Next]_vars => IInv'
    BY IInvNext DEF CacheInv
  <2>. QED  BY <2>1, CacheNext DEF CacheInv
<1>3. CacheInv => CacheShowsGraph
  BY DEF CacheInv
<1>. QED  BY <1>1, <1>2, <1>3, PTL DEF Spec

-------------------------------------------------------------------------------
(* The two readers of the graphs. *)

\* What a walk finds in one hop more.
Wider(g, near, filtered, view) ==
  near \cup UNION {Neighbours(g, k, filtered, view) : k \in near}

\* Reached goes hop by hop.
Walks(g, e, hops, filtered, view) ==
  LET near == Reached(g, e, hops, filtered, view) IN
  /\ near[0] = {e}
  /\ \A d \in 1..hops : near[d] = Wider(g, near[d - 1], filtered, view)

\* A walk of at most MaxDepth hops: the recursion has a solution, and Reached is it.
LEMMA ReachedStep ==
  ASSUME NEW g, NEW e, NEW hops \in 1..MaxDepth, NEW filtered, NEW view
  PROVE  Walks(g, e, hops, filtered, view)
<1>. DEFINE one == Wider(g, {e}, filtered, view)
            two == Wider(g, one, filtered, view)
            three == Wider(g, two, filtered, view)
            walk == [d \in 0..hops |-> IF d = 0 THEN {e} ELSE IF d = 1 THEN one
                                       ELSE IF d = 2 THEN two ELSE three]
            Solves(near) == near = [d \in 0..hops |->
                              IF d = 0 THEN {e} ELSE Wider(g, near[d - 1], filtered, view)]
<1>1. hops \in {1, 2, 3}
  BY DEF MaxDepth
<1>2. ASSUME NEW d \in 0..hops
      PROVE  walk[d] = IF d = 0 THEN {e} ELSE Wider(g, walk[d - 1], filtered, view)
  <2>1. d \in {0, 1, 2, 3}
    BY <1>1, <1>2
  <2>. HIDE DEF one, two, three
  <2>2. CASE d = 0
    BY <2>2
  <2>3. CASE d = 1
    BY <1>1, <2>3 DEF one
  <2>4. CASE d = 2
    BY <1>1, <2>4 DEF two
  <2>5. CASE d = 3
    BY <1>1, <2>5 DEF three
  <2>. QED  BY <2>1, <2>2, <2>3, <2>4, <2>5
<1>3. Solves(walk)
  BY <1>2
<1>4. Reached(g, e, hops, filtered, view) = CHOOSE near : Solves(near)
  BY DEF Reached, Wider
<1>. HIDE DEF walk, Solves
<1>5. Solves(Reached(g, e, hops, filtered, view))
  BY <1>3, <1>4
<1>. DEFINE r == Reached(g, e, hops, filtered, view)
<1>6. r = [d \in 0..hops |-> IF d = 0 THEN {e} ELSE Wider(g, r[d - 1], filtered, view)]
  BY <1>5 DEF Solves
<1>. HIDE DEF r
<1>7. r[0] = {e}
  BY <1>1, <1>6
<1>8. ASSUME NEW d \in 1..hops PROVE r[d] = Wider(g, r[d - 1], filtered, view)
  <2>1. d \in 0..hops /\ d # 0
    BY <1>1
  <2>. QED  BY <1>6, <2>1
<1>. QED  BY <1>7, <1>8 DEF r, Walks

\* What is related to a file from whose own row the walk begins.
LEMMA RelatedInHops ==
  ASSUME NEW g, NEW e \in Files, StartOf(g, e) = e, g.ents[e] # None, NEW filtered, NEW view
  PROVE  /\ RelatedIn(g, e, 1, filtered, view) = Wider(g, {e}, filtered, view) \ {e}
         /\ RelatedIn(g, e, 2, filtered, view)
              = Wider(g, Wider(g, {e}, filtered, view), filtered, view) \ {e}
<1>1. ASSUME NEW hops \in {1, 2}
      PROVE  RelatedIn(g, e, hops, filtered, view)
               = Reached(g, e, hops, filtered, view)[hops] \ {e}
  BY <1>1 DEF RelatedIn, MaxDepth
<1>2. ASSUME NEW hops \in {1, 2}
      PROVE  Walks(g, e, hops, filtered, view)
  <2>1. hops \in 1..MaxDepth
    BY DEF MaxDepth
  <2>. QED  BY <2>1, ReachedStep
<1>3. Reached(g, e, 1, filtered, view)[1] = Wider(g, {e}, filtered, view)
  <2>1. Walks(g, e, 1, filtered, view) /\ 1 \in 1..1 /\ 1 - 1 = 0
    BY <1>2
  <2>. QED  BY <2>1 DEF Walks
<1>4. Reached(g, e, 2, filtered, view)[2]
        = Wider(g, Wider(g, {e}, filtered, view), filtered, view)
  <2>1. Walks(g, e, 2, filtered, view) /\ 1 \in 1..2 /\ 2 \in 1..2 /\ 1 - 1 = 0 /\ 2 - 1 = 1
    BY <1>2
  <2>. QED  BY <2>1 DEF Walks
<1>. QED  BY <1>1, <1>3, <1>4

\* A neighbour of an entity is found in one hop, a neighbour of that one in two.
LEMMA NeighboursAreRelated ==
  ASSUME NEW g \in Graphs, NEW e \in Files, StartOf(g, e) = e, g.ents[e] # None,
         NEW filtered, NEW view, NEW k \in Neighbours(g, e, filtered, view)
  PROVE  /\ k # e => k \in Related(e, 1, filtered, view)
         /\ \A m \in Neighbours(g, k, filtered, view) :
              m # e => m \in Related(e, 2, filtered, view)
<1>1. k \in Wider(g, {e}, filtered, view)
  BY DEF Wider
<1>2. \A m \in Neighbours(g, k, filtered, view) :
        m \in Wider(g, Wider(g, {e}, filtered, view), filtered, view)
  BY <1>1 DEF Wider
<1>3. \A d : RelatedIn(g, e, d, filtered, view) \subseteq Related(e, d, filtered, view)
  BY DEF Related
<1>. QED  BY <1>1, <1>2, <1>3, RelatedInHops

\* An edge that knowledge_graph draws between two files is a relation of
\* knowledge_related from each of them to the other: one hop for a link, whichever
\* links, two over the tag for a tag edge, for any graphs the steps can make.
THEOREM EdgesRelate == Spec => []EdgesAreRelated
<1>1. ASSUME IInv, NEW v \in Views, NEW g \in Graphs, NEW f \in Files, NEW k \in Files,
             f # k, StartOf(g, f) = f
      PROVE  /\ {f, k} \in LinksIn(g, v, NodesOf(v)) => k \in Related(f, 1, TRUE, v)
             /\ {f, k} \in TagsIn({g}, v, NodesOf(v)) => k \in Related(f, 2, FALSE, v)
  <2>1. Founded(g) /\ None # "file" /\ None # "tag" /\ None # "reference" /\ f \in Keys /\ k \in Keys
    BY <1>1, NoneAssumption, KeyParts DEF IInv, Types, EndpointsExist
  <2>2. ASSUME {f, k} \in LinksIn(g, v, NodesOf(v)) PROVE k \in Related(f, 1, TRUE, v)
    <3>1. PICK d \in (NodesOf(v) \cap v) \X NodesOf(v) :
            /\ {f, k} = {d[1], d[2]} /\ d[1] # d[2] /\ Alive(g, d[1], d[2])
            /\ SourceOf(g, d[1]) = d[1]
            /\ g.ents[d[1]] = "file" /\ g.ents[d[2]] \in {"file", "reference"}
      BY <2>2 DEF LinksIn
    <3>2. \/ d[1] = f /\ d[2] = k
          \/ d[1] = k /\ d[2] = f
      BY <1>1, <3>1
    <3>3. g.ents[f] # None /\ g.ents[k] # None /\ k \in v
      BY <2>1, <3>1, <3>2 DEF NodesOf
    <3>4. \/ Row(g, f, k) /\ SourceOf(g, f) = f
          \/ Row(g, k, f) /\ SourceOf(g, k) = k
      BY <3>1, <3>2 DEF Row, Alive, LinksTo
    <3>5. k \in Neighbours(g, f, TRUE, v)
      BY <2>1, <3>3, <3>4 DEF Neighbours, InScope
    <3>. QED  BY <1>1, <3>3, <3>5, NeighboursAreRelated
  <2>3. ASSUME {f, k} \in TagsIn({g}, v, NodesOf(v)) PROVE k \in Related(f, 2, FALSE, v)
    <3>1. PICK d \in (NodesOf(v) \cap v) \X (NodesOf(v) \cap v) :
            /\ {f, k} = {d[1], d[2]} /\ d[1] # d[2]
            /\ \E n \in Names : \A i \in 1..2 : \E j \in {g} : Tagged(j, d[i], n)
      BY <2>3 DEF TagsIn
    <3>2. PICK n \in Names : \A i \in 1..2 : Tagged(g, d[i], n)
      BY <3>1
    <3>3. Tagged(g, d[1], n) /\ Tagged(g, d[2], n)
      BY <3>2
    <3>4. Tagged(g, f, n) /\ Tagged(g, k, n)
      BY <1>1, <3>1, <3>3
    <3>5. n \in Keys /\ n \notin Files
      BY KeyParts
    <3>6. /\ g.rows[f] # None /\ g.rows[f][n] = "tag" /\ g.ents[f] # None /\ SourceOf(g, f) = f
          /\ g.rows[k] # None /\ g.rows[k][n] = "tag" /\ g.ents[k] # None /\ SourceOf(g, k) = k
      BY <2>1, <3>4 DEF Tagged
    <3>7. Row(g, f, n) /\ Row(g, k, n)
      BY <2>1, <3>5, <3>6 DEF Row
    <3>8. g.ents[n] # None
      BY <2>1, <3>6 DEF Founded
    <3>9. n \in Neighbours(g, f, FALSE, v) /\ k \in Neighbours(g, n, FALSE, v)
      BY <2>1, <3>5, <3>6, <3>7, <3>8 DEF Neighbours
    <3>. QED  BY <1>1, <3>6, <3>9, NeighboursAreRelated
  <2>. QED  BY <2>2, <2>3
<1>2. ASSUME IInv PROVE EdgesAreRelated
  <2>1. ASSUME NEW v \in Views, NEW g \in Graphs,
               NEW e \in LinksIn(g, v, NodesOf(v)) \cup TagsIn({g}, v, NodesOf(v)), NEW f \in e, NEW k \in e
        PROVE  f \in Files /\ k \in Files /\ (f # k => e = {f, k})
    <3>1. PICK d \in NodesOf(v) \X NodesOf(v) : e = {d[1], d[2]}
      BY DEF LinksIn, TagsIn
    <3>2. NodesOf(v) \subseteq Files
      BY NodesType
    <3>. QED  BY <3>1, <3>2
  <2>2. ASSUME NEW v \in Views, NEW g \in Graphs, NEW e \in LinksIn(g, v, NodesOf(v)),
               NEW f \in e, NEW k \in e, f # k, StartOf(g, f) = f
        PROVE  k \in Related(f, 1, TRUE, v)
    <3>1. f \in Files /\ k \in Files /\ e = {f, k}
      BY <2>1, <2>2
    <3>. QED  BY <1>1, <1>2, <2>2, <3>1
  <2>3. ASSUME NEW v \in Views, NEW g \in Graphs, NEW e \in TagsIn({g}, v, NodesOf(v)),
               NEW f \in e, NEW k \in e, f # k, StartOf(g, f) = f
        PROVE  k \in Related(f, 2, FALSE, v)
    <3>1. f \in Files /\ k \in Files /\ e = {f, k}
      BY <2>1, <2>3
    <3>. QED  BY <1>1, <1>2, <2>3, <3>1
  <2>. QED  BY <2>2, <2>3 DEF EdgesAreRelated
<1>. QED  BY <1>2, Inductive, PTL
===============================================================================
