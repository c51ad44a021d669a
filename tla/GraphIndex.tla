------------------------------- MODULE GraphIndex -------------------------------
(***************************************************************************)
(* The relationship graph of one vault (mcp_brain/graph.py), the cache of    *)
(* knowledge_graph payloads (graph_cache.py) and the tools that read and     *)
(* change them (tools/knowledge_graph_tool.py, tools/graph.py,               *)
(* tools/knowledge.py).  Either the vault is that of an isolated worker: its *)
(* graph is in graph.db, and a thread builds it once the worker listens; or  *)
(* it is that of one user of the shared server: its graph is in memory and   *)
(* made by the first tool that needs it, and the user's tools also read the  *)
(* graph of the root vault, which other callers change.  The tools run on    *)
(* the event loop, one at a time; the process may be killed between any two  *)
(* steps.  A build passes over a file it cannot read.                        *)
(*                                                                           *)
(* A text is what it links to: the type of entity it makes of each target.   *)
(* A relationship names its object by an id that is never used again, so it  *)
(* is dead for good once the row of that entity has been deleted; only files *)
(* are deleted and come back.                                                *)
(***************************************************************************)
EXTENDS Integers, FiniteSets

CONSTANTS
  Files,     \* scope/project pairs
  Names,     \* names of concepts and tags, which have no scope
  NameOf,    \* the name that reads like a file's: a concept if [[ ]] is around it
  Sections,  \* H2 headings
  Texts,     \* contents of a file
  Views,     \* what a knowledge_graph call may show: the files of some scopes
  MaxClock,  \* bound: changes of files and of the root graph, and reads that fail
  None       \* no file, no entity, no link, no rows, no fingerprint, no payload

Types == {"file", "reference", "concept", "tag", "section"}

\* Entities: a file or a name, or the section of a file.
Owned == Files \X Sections
Keys == Files \cup Names \cup Owned
Targets == Files \cup Names \cup Sections

ASSUME TextsAssumption ==
  Texts \subseteq {x \in [Targets -> Types \cup {None}] :
                     /\ \A f \in Files : x[f] \in {"file", "reference", None}
                     /\ \A n \in Names : x[n] \in {"concept", "tag", None}
                     /\ \A s \in Sections : x[s] \in {"section", None}}
ASSUME NoneAssumption ==
  /\ None \notin Types /\ None \notin Texts /\ None \notin Files
  /\ None \notin [Files -> 0..MaxClock] /\ None \notin [view: Views, nodes: SUBSET Files]
ASSUME KeysDistinct == Owned \cap (Files \cup Names) = {} /\ Files \cap Names = {}
ASSUME NameOfAssumption == NameOf \in [Files -> Names]
ASSUME FilesAssumption == IsFiniteSet(Files) /\ MaxClock \in Nat
ASSUME ViewsAssumption == Views \subseteq SUBSET Files

VARIABLES
  backed,  \* the graph is the worker's graph.db, not one in memory
  made,    \* there is a graph: always so in the worker
  work,    \* the vault: the text of each file
  mtime,   \* its modification time, 0 for a file that is not there
  clock,   \* the last modification time given out
  own,     \* the graph of the vault
  fp,      \* the fingerprint stored with it
  root,    \* the graph of the root vault, which a worker does not see
  turns,   \* the changes of the root graph
  cache,   \* the payload cached for each view
  mixed,   \* history: views whose payload may be of a graph changed since
  h,       \* what the tool call in progress does next, ...
  hf,      \* ... the file it is about, ...
  look,    \* ... and, in knowledge_graph, the view and its nodes
  bg,      \* the build in the thread: stat, scan, done
  bgfp,    \* its fingerprint
  bgtext,  \* the texts it has read
  left,    \* the files it has still to look at
  missed,  \* the files it could not read
  faults,  \* the reads that have failed
  lost     \* history: the files the graph may lack since a read failed

fileVars == <<work, mtime, clock>>
graphVars == <<made, own, fp>>
rootVars == <<root, turns>>
cacheVars == <<cache, mixed>>
toolVars == <<h, hf, look>>
bgVars == <<bg, bgfp, bgtext, left, missed>>
faultVars == <<faults, lost>>
vars == <<backed, fileVars, graphVars, rootVars, cacheVars, toolVars, bgVars, faultVars>>

Times == 0..MaxClock
Pairs == {{d[1], d[2]} : d \in {d \in Files \X Files : d[1] # d[2]}}
Payload == [nodes: SUBSET Files, links: SUBSET Pairs, tags: SUBSET Pairs]

\* A graph: ents is table entities, the type of each there is; rows is table
\* relationships, the text whose links have this file as source; dead are the
\* pairs of a source and an object whose id is gone.
Graph == [ents: [Keys -> Types \cup {None}], rows: [Files -> Texts \cup {None}],
          dead: SUBSET (Files \X Files)]

TypeOK ==
  /\ backed \in BOOLEAN /\ made \in BOOLEAN
  /\ work \in [Files -> Texts \cup {None}]
  /\ mtime \in [Files -> Times] /\ clock \in Times
  /\ own \in Graph /\ root \in Graph /\ turns \in Times
  /\ fp \in [Files -> Times] \cup {None}
  /\ cache \in [Views -> Payload \cup {None}] /\ mixed \subseteq Views
  /\ h \in {"idle", "index", "unindex", "rebuild", "edges"}
  /\ hf \in Files \cup {None}
  /\ look \in [view: Views, nodes: SUBSET Files] \cup {None}
  /\ bg \in {"stat", "scan", "done"}
  /\ bgfp \in [Files -> Times] /\ bgtext \in [Files -> Texts \cup {None}]
  /\ left \subseteq Files /\ missed \subseteq Files
  /\ faults \in Times /\ lost \subseteq Files

NoText == [f \in Files |-> None]
NoTimes == [f \in Files |-> 0]
NoGraph == [ents |-> [k \in Keys |-> None], rows |-> NoText, dead |-> {}]
NothingCached == [v \in Views |-> None]

-------------------------------------------------------------------------------
(* What a text makes of a graph. *)

\* The type that f, indexed with text x, gives to entity k, if it names it: the
\* last one to name an entity sets its type.
Gives(f, x, k) ==
  IF k \in Files \cup Names
  THEN IF x[k] # None THEN x[k] ELSE IF k = f THEN "file" ELSE None
  ELSE IF k[1] = f THEN x[k[2]] ELSE None

\* Within a text, a name stands for one row; that of the concept, if the text has
\* the file's name in [[ ]] as well.
SourceOf(g, f) == IF g.rows[f][NameOf[f]] # None THEN NameOf[f] ELSE f

\* There is a relationship from what is indexed for f to the file k.
LinksTo(g, f, k) ==
  g.rows[f] # None /\ g.rows[f][k] # None /\ g.rows[f][NameOf[k]] = None

Alive(g, f, k) == LinksTo(g, f, k) /\ <<f, k>> \notin g.dead

\* The links to f that die with its row in entities.
Losing(g, f) == {<<k, f>> : k \in {k \in Files \ {f} : LinksTo(g, k, f)}}

\* update_file: the relationships of f are replaced; its entity is too, unless
\* another file's reference has changed the type, and then keeps its id.
Indexed(g, f, x) ==
  [ents |-> [k \in Keys |-> IF Gives(f, x, k) # None THEN Gives(f, x, k) ELSE g.ents[k]],
   rows |-> [g.rows EXCEPT ![f] = x],
   dead |-> {d \in g.dead : d[1] # f} \cup IF g.ents[f] = "file" THEN Losing(g, f) ELSE {}]

\* Mutant: the relationships of the removed file stay.
MutantForgotten(g, f) ==
  [ents |-> [k \in Keys |-> IF k = f \/ k \in {f} \X Sections THEN None ELSE g.ents[k]],
   rows |-> g.rows,
   dead |-> g.dead \cup Losing(g, f)]

\* remove_file: the relationships of f, and all entities of its scope and project.
Forgotten(g, f) ==
  [ents |-> [k \in Keys |-> IF k = f \/ k \in {f} \X Sections THEN None ELSE g.ents[k]],
   rows |-> [g.rows EXCEPT ![f] = None],
   dead |-> {d \in g.dead : d[1] # f} \cup Losing(g, f)]

\* An order in which files are indexed: the last has number 1.
Orders == {o \in [Files -> 1..Cardinality(Files)] : \A f, k \in Files : o[f] = o[k] => f = k}

Latest(fs, order) == CHOOSE f \in fs : \A k \in fs : order[f] <= order[k]

\* The files that give a type to entity k.
Givers(text, k) == {f \in Files : text[f] # None /\ Gives(f, text[f], k) # None}

EntitiesOf(text, order) ==
  [k \in Keys |-> IF Givers(text, k) = {} THEN None
                  ELSE LET f == Latest(Givers(text, k), order) IN Gives(f, text[f], k)]

\* build: both tables are emptied and all files indexed, in the order in which
\* the file system lists them.
Built(text, order) == [ents |-> EntitiesOf(text, order), rows |-> text, dead |-> {}]
Builds(text) == {Built(text, order) : order \in Orders}

\* The process starts: with graph.db, or with a graph of the root vault, which
\* may hold anything.
Started(b) ==
  IF b THEN {NoGraph} ELSE UNION {Builds(text) : text \in [Files -> Texts \cup {None}]}

Init ==
  /\ backed \in BOOLEAN /\ made = backed
  /\ work = NoText /\ mtime = NoTimes /\ clock = 0
  /\ own = NoGraph /\ fp = None
  /\ root \in Started(backed) /\ turns = 0
  /\ cache = NothingCached /\ mixed = {}
  /\ h = "idle" /\ hf = None /\ look = None
  /\ bg = (IF backed THEN "stat" ELSE "done")
  /\ bgfp = NoTimes /\ bgtext = NoText /\ left = Files /\ missed = {}
  /\ faults = 0 /\ lost = {}

-------------------------------------------------------------------------------
(* Steps of several tools. *)

\* The views whose payload, cached or in the making, a new graph makes stale.
Shown == {v \in Views : cache[v] # None \/ (look # None /\ look.view = v)}

\* The fingerprint goes into the same transaction as the graph; skipped are the
\* files that could not be read.
IndexAll(text, stamp, skipped) ==
  /\ own' \in Builds(text) /\ fp' = stamp /\ made' = TRUE
  /\ mixed' = Shown
  /\ lost' = skipped

Bounded == clock + turns + faults < MaxClock

\* A read fails.
Fault == Bounded /\ faults' = faults + 1

\* Some of the files fail to give their times, or their texts; mostly none does.
Unreadable(fs) == (fs = {} /\ UNCHANGED faults) \/ (fs # {} /\ Fault)

Present(f) == work[f] # None

TimesOf(fs) == [f \in Files |-> IF f \in fs THEN mtime[f] ELSE 0]
TextsOf(fs) == [f \in Files |-> IF f \in fs THEN work[f] ELSE None]

-------------------------------------------------------------------------------
(* The tools that change files. *)

SetFile(f, x) ==
  /\ Bounded /\ clock' = clock + 1
  /\ work' = [work EXCEPT ![f] = x]
  /\ mtime' = [mtime EXCEPT ![f] = IF x = None THEN 0 ELSE clock']

Answer == h' = "idle" /\ hf' = None /\ look' = None

\* knowledge_update and knowledge_restore_at write the file, then commit it ...
WriteFile(f, x) ==
  /\ h = "idle"
  /\ SetFile(f, x)
  /\ h' = "index" /\ hf' = f /\ UNCHANGED look
  /\ UNCHANGED <<backed, graphVars, rootVars, cacheVars, bgVars, faultVars>>

\* Mutant: the payloads in the cache are left to their time to live.
MutantIndex ==
  /\ h = "index"
  /\ own' = Indexed(own, hf, work[hf]) /\ lost' = lost \ {hf}
  /\ made' = TRUE
  /\ Answer
  /\ UNCHANGED <<backed, fileVars, fp, rootVars, cacheVars, bgVars, faults>>

\* ... and index it.  A user's graph that is not made yet is made empty.
Index ==
  /\ h = "index"
  /\ own' = Indexed(own, hf, work[hf]) /\ lost' = lost \ {hf}
  /\ made' = TRUE /\ cache' = NothingCached
  /\ Answer
  /\ UNCHANGED <<backed, fileVars, fp, rootVars, mixed, bgVars, faults>>

\* inbox_accept and maintain_confirm write files and index nothing.
WriteSilently(f, x) ==
  /\ h = "idle"
  /\ SetFile(f, x)
  /\ UNCHANGED <<backed, graphVars, rootVars, cacheVars, toolVars, bgVars, faultVars>>

\* knowledge_delete.
Unlink(f) ==
  /\ h = "idle" /\ Present(f)
  /\ SetFile(f, None)
  /\ h' = "unindex" /\ hf' = f /\ UNCHANGED look
  /\ UNCHANGED <<backed, graphVars, rootVars, cacheVars, bgVars, faultVars>>

Unindex ==
  /\ h = "unindex"
  /\ own' = IF made THEN Forgotten(own, hf) ELSE own
  /\ cache' = NothingCached
  /\ Answer
  /\ UNCHANGED <<backed, fileVars, made, fp, rootVars, mixed, bgVars, faultVars>>

\* knowledge_undo and scope_rename change files, one or more, ...
Change(f, x) ==
  /\ h \in {"idle", "rebuild"}
  /\ x # work[f]
  /\ SetFile(f, x)
  /\ h' = "rebuild" /\ UNCHANGED <<hf, look>>
  /\ UNCHANGED <<backed, graphVars, rootVars, cacheVars, bgVars, faultVars>>

\* ... and may stop half-way, ...
ChangeStops ==
  /\ h = "rebuild"
  /\ Answer
  /\ UNCHANGED <<backed, fileVars, graphVars, rootVars, cacheVars, bgVars, faultVars>>

\* Mutant: any stored fingerprint will do.
MutantRebuildSkips ==
  /\ h = "rebuild" /\ backed /\ fp # None
  /\ Answer
  /\ UNCHANGED <<backed, fileVars, graphVars, rootVars, cacheVars, bgVars, faultVars>>

\* ... or end with a build, which does nothing if the fingerprint is that of the
\* vault, ...
RebuildSkips ==
  /\ h = "rebuild" /\ backed
  /\ Answer
  /\ \E bad \in SUBSET {f \in Files : Present(f)} :
       /\ Unreadable(bad)
       /\ fp = TimesOf(Files \ bad)
       /\ lost' = lost \cup bad
  /\ UNCHANGED <<backed, fileVars, graphVars, rootVars, cacheVars, bgVars>>

\* ... and otherwise, or in memory, makes the graph anew; either some times are
\* missing or some texts.  The cache stays.
RebuildInstalls ==
  /\ h = "rebuild"
  /\ Answer
  /\ \E bad \in SUBSET {f \in Files : Present(f)} :
       /\ Unreadable(bad)
       /\ \/ IndexAll(work, TimesOf(Files \ bad), {})
          \/ IndexAll(TextsOf(Files \ bad), mtime, bad)
       /\ backed => fp # fp'
  /\ UNCHANGED <<backed, fileVars, rootVars, cache, bgVars>>

-------------------------------------------------------------------------------
(* The tools of other callers, on the root vault.  They drop the payloads of   *)
(* their own views from the cache, and leave those of this user.               *)

RootChange(graphs) ==
  /\ h = "idle" /\ ~backed
  /\ Bounded /\ turns' = turns + 1
  /\ root' \in graphs
  /\ mixed' = Shown
  /\ UNCHANGED <<backed, fileVars, graphVars, cache, toolVars, bgVars, faultVars>>

RootIndexes(f, x) == RootChange({Indexed(root, f, x)})
RootForgets(f) == RootChange({Forgotten(root, f)})
RootBuilds(text) == RootChange(Builds(text))

-------------------------------------------------------------------------------
(* The tools that read the graph. *)

\* Every tool that reads a user's graph makes it first, if it is not there and
\* the user has a directory.
Open ==
  /\ h = "idle" /\ ~made /\ clock > 0
  /\ \E bad \in SUBSET {f \in Files : Present(f)} :
       Unreadable(bad) /\ IndexAll(TextsOf(Files \ bad), mtime, bad)
  /\ UNCHANGED <<backed, fileVars, rootVars, cache, toolVars, bgVars>>

\* A reader sees the root graph and the user's; a worker has only one.
Graphs == {own, root}

NodesOf(view) == {f \in view : \E g \in Graphs : g.ents[f] = "file"}

\* Mutant: a link of a file to itself is an edge.
MutantLinksIn(g, view, nodes) ==
  {{d[1], d[2]} : d \in
     {d \in (nodes \cap view) \X nodes :
        /\ Alive(g, d[1], d[2]) /\ SourceOf(g, d[1]) = d[1]
        /\ g.ents[d[1]] = "file" /\ g.ents[d[2]] \in {"file", "reference"}}}

\* One edge for two files, whichever of them links to the other.
LinksIn(g, view, nodes) ==
  {{d[1], d[2]} : d \in
     {d \in (nodes \cap view) \X nodes :
        /\ d[1] # d[2] /\ Alive(g, d[1], d[2]) /\ SourceOf(g, d[1]) = d[1]
        /\ g.ents[d[1]] = "file" /\ g.ents[d[2]] \in {"file", "reference"}}}

Tagged(g, f, n) ==
  /\ g.rows[f] # None /\ g.rows[f][n] = "tag"
  /\ SourceOf(g, f) = f /\ g.ents[f] = "file"

\* The files that have a tag in one of the graphs; a tag joins them all.
TagsIn(graphs, view, nodes) ==
  {{d[1], d[2]} : d \in
     {d \in (nodes \cap view) \X (nodes \cap view) :
        /\ d[1] # d[2]
        /\ \E n \in Names : \A i \in 1..2 : \E g \in graphs : Tagged(g, d[i], n)}}

PayloadOf(view, nodes) ==
  [nodes |-> nodes,
   links |-> UNION {LinksIn(g, view, nodes) : g \in Graphs},
   tags |-> TagsIn(Graphs, view, nodes)]

\* knowledge_graph, on a miss, asks for the files ...
ReadNodes(v) ==
  /\ h = "idle" /\ cache[v] = None
  /\ made \/ clock = 0
  /\ h' = "edges" /\ look' = [view |-> v, nodes |-> NodesOf(v)] /\ UNCHANGED hf
  /\ mixed' = mixed \ {v}
  /\ UNCHANGED <<backed, fileVars, graphVars, rootVars, cache, bgVars, faultVars>>

\* ... and then, under the lock again, for the relationships; the thread may
\* have replaced the graph in between.
ReadEdges ==
  /\ h = "edges"
  /\ cache' = [cache EXCEPT ![look.view] = PayloadOf(look.view, look.nodes)]
  /\ Answer
  /\ UNCHANGED <<backed, fileVars, graphVars, rootVars, mixed, bgVars, faultVars>>

\* The time to live of a payload is over.
Expire(v) ==
  /\ h = "idle" /\ cache[v] # None
  /\ cache' = [cache EXCEPT ![v] = None]
  /\ UNCHANGED <<backed, fileVars, graphVars, rootVars, mixed, toolVars, bgVars, faultVars>>

-------------------------------------------------------------------------------
(* knowledge_related: a walk over the relationships of each graph, in both     *)
(* directions.                                                                 *)

\* What is indexed for file f in graph g has a relationship to entity k.
Row(g, f, k) ==
  /\ g.rows[f] # None
  /\ IF k \in Files THEN Alive(g, f, k)
     ELSE IF k \in Names THEN g.rows[f][k] # None
     ELSE k[1] = f /\ g.rows[f][k[2]] # None

\* Entities of a scope the caller may read; a name has no scope.
InScope(k, view) ==
  IF k \in Files THEN k \in view ELSE k \notin Names /\ k[1] \in view

\* Mutant: only what an entity links to, not what links to it.
MutantNeighbours(g, e, filtered, view) ==
  {k \in Keys : /\ g.ents[k] # None /\ (filtered => InScope(k, view))
                /\ \E f \in Files : Row(g, f, k) /\ SourceOf(g, f) = e}

Neighbours(g, e, filtered, view) ==
  {k \in Keys : /\ g.ents[k] # None /\ (filtered => InScope(k, view))
                /\ \E f \in Files : \/ Row(g, f, k) /\ SourceOf(g, f) = e
                                    \/ Row(g, f, e) /\ SourceOf(g, f) = k}

MaxDepth == 3

\* What is found from entity e after each of some hops.
Reached(g, e, hops, filtered, view) ==
  LET near[d \in 0..hops] ==
        IF d = 0 THEN {e}
        ELSE near[d - 1] \cup UNION {Neighbours(g, k, filtered, view) : k \in near[d - 1]}
  IN near

\* The walk from a file's name starts at the first row that has it: that of the
\* concept, if there is one.
StartOf(g, f) == IF g.ents[NameOf[f]] # None THEN NameOf[f] ELSE f

\* What is found in graph g from a file's name in at most depth hops, 1 to 3
\* whatever is asked.
RelatedIn(g, f, depth, filtered, view) ==
  LET hops == IF depth < 1 THEN 1 ELSE IF depth > MaxDepth THEN MaxDepth ELSE depth
      e == StartOf(g, f)
  IN IF g.ents[e] = None THEN {} ELSE Reached(g, e, hops, filtered, view)[hops] \ {e}

Related(f, depth, filtered, view) == UNION {RelatedIn(g, f, depth, filtered, view) : g \in Graphs}

-------------------------------------------------------------------------------
(* The build in the worker's thread. *)

ThreadEnds ==
  bg' = "done" /\ bgfp' = NoTimes /\ bgtext' = NoText /\ left' = Files /\ missed' = {}

BuildStat(f) ==
  /\ bg = "stat" /\ f \in left
  /\ bgfp' = [bgfp EXCEPT ![f] = mtime[f]]
  /\ left' = left \ {f}
  /\ UNCHANGED <<backed, fileVars, graphVars, rootVars, cacheVars, toolVars, bg, bgtext, missed,
                 faultVars>>

\* A file that does not give its time is left out of the fingerprint.
BuildStatFails(f) ==
  /\ bg = "stat" /\ f \in left /\ Present(f)
  /\ Fault
  /\ left' = left \ {f}
  /\ UNCHANGED <<backed, fileVars, graphVars, rootVars, cacheVars, toolVars, bg, bgfp, bgtext,
                 missed, lost>>

BuildSkips ==
  /\ bg = "stat" /\ left = {} /\ fp = bgfp
  /\ ThreadEnds
  /\ UNCHANGED <<backed, fileVars, graphVars, rootVars, cacheVars, toolVars, faultVars>>

BuildScans ==
  /\ bg = "stat" /\ left = {} /\ fp # bgfp
  /\ bg' = "scan" /\ left' = Files
  /\ UNCHANGED <<backed, fileVars, graphVars, rootVars, cacheVars, toolVars, bgfp, bgtext, missed,
                 faultVars>>

BuildReads(f) ==
  /\ bg = "scan" /\ f \in left
  /\ bgtext' = [bgtext EXCEPT ![f] = work[f]]
  /\ left' = left \ {f}
  /\ UNCHANGED <<backed, fileVars, graphVars, rootVars, cacheVars, toolVars, bg, bgfp, missed,
                 faultVars>>

\* A file that cannot be read is left out of the graph, and is in the fingerprint.
BuildPasses(f) ==
  /\ bg = "scan" /\ f \in left /\ Present(f)
  /\ Fault
  /\ left' = left \ {f} /\ missed' = missed \cup {f}
  /\ UNCHANGED <<backed, fileVars, graphVars, rootVars, cacheVars, toolVars, bg, bgfp, bgtext,
                 lost>>

\* Mutant: the fingerprint is computed when the graph is stored.
MutantBuildInstalls ==
  /\ bg = "scan" /\ left = {}
  /\ IndexAll(bgtext, mtime, missed)
  /\ ThreadEnds
  /\ UNCHANGED <<backed, fileVars, rootVars, cache, toolVars, faults>>

BuildInstalls ==
  /\ bg = "scan" /\ left = {}
  /\ IndexAll(bgtext, bgfp, missed)
  /\ ThreadEnds
  /\ UNCHANGED <<backed, fileVars, rootVars, cache, toolVars, faults>>

BuildFails ==
  /\ bg \in {"stat", "scan"}
  /\ ThreadEnds
  /\ UNCHANGED <<backed, fileVars, graphVars, rootVars, cacheVars, toolVars, faultVars>>

\* The process is killed and started again: graph.db survives, memory does not.
Restart ==
  /\ cache' = NothingCached /\ mixed' = {}
  /\ Answer
  /\ IF backed
     THEN bg' = "stat" /\ left' = Files /\ bgfp' = NoTimes /\ bgtext' = NoText /\ missed' = {}
          /\ UNCHANGED <<graphVars, lost>>
     ELSE made' = FALSE /\ own' = NoGraph /\ fp' = None /\ lost' = {} /\ UNCHANGED bgVars
  /\ root' \in Builds(root.rows)
  /\ UNCHANGED <<backed, fileVars, turns, faults>>

-------------------------------------------------------------------------------

Tool ==
  \/ \E f \in Files, x \in Texts : WriteFile(f, x) \/ WriteSilently(f, x)
  \/ \E f \in Files : Unlink(f)
  \/ Index \/ Unindex
  \/ \E f \in Files, x \in Texts \cup {None} : Change(f, x)
  \/ ChangeStops \/ RebuildSkips \/ RebuildInstalls
  \/ Open \/ ReadEdges
  \/ \E v \in Views : ReadNodes(v) \/ Expire(v)

Root ==
  \/ \E f \in Files, x \in Texts : RootIndexes(f, x)
  \/ \E f \in Files : RootForgets(f)
  \/ \E text \in [Files -> Texts \cup {None}] : RootBuilds(text)

Thread ==
  \/ \E f \in Files : \/ BuildStat(f) \/ BuildStatFails(f)
                     \/ BuildReads(f) \/ BuildPasses(f)
  \/ BuildSkips \/ BuildScans \/ BuildInstalls \/ BuildFails

Next == Tool \/ Root \/ Thread \/ Restart

Spec == Init /\ [][Next]_vars

-------------------------------------------------------------------------------
(* Properties. *)

\* What each relationship was read from is an entity, and so is its object, unless
\* that is dead.
Founded(g) ==
  \A f \in Files : g.rows[f] # None =>
    /\ g.ents[SourceOf(g, f)] # None
    /\ \A k \in Files : Alive(g, f, k) => g.ents[k] # None
    /\ \A n \in Names : g.rows[f][n] # None => g.ents[n] # None
    /\ \A s \in Sections : g.rows[f][s] # None => g.ents[<<f, s>>] # None

\* No relationship hangs in the air, unless its object's row has been deleted after
\* it was stored.
EndpointsExist == \A g \in Graphs : Founded(g)

\* The graph holds what those of the files fs link to that are there.
Current(fs) == \A f \in fs : Present(f) => own.rows[f] = work[f]

\* No link from one of the files fs to another is lost.
NoneLost(fs) == \A f, k \in fs : Present(f) /\ Present(k) => <<f, k>> \notin own.dead

\* When the stored fingerprint is that of the vault, the next build is skipped;
\* so what every file there links to had better be in the graph, whatever
\* builds, tool calls, half-done undos and kills came before.  The files whose
\* reads failed are all it may hide.
FingerprintMeansCurrent == fp = mtime => Current(Files \ lost)

\* The files that are as the build in the thread saw them at its beginning.
Unchanged == {f \in Files : bgfp[f] = mtime[f]}

\* A build that ends, also by being skipped, leaves current what is still as it
\* was when the build began, and a rebuild by a tool leaves everything current,
\* but for files whose reads failed; links that updates of their objects have
\* lost are found again unless it is skipped.
BuildEndsCurrent ==
  [][/\ BuildSkips \/ BuildInstalls => \A f \in Unchanged : Current({f} \ lost)'
     /\ BuildInstalls => \A f, k \in Unchanged : NoneLost({f, k})'
     /\ RebuildSkips => Current(Files \ lost)'
     /\ RebuildInstalls => (Current(Files \ lost) /\ NoneLost(Files))']_vars

\* A cached payload is what the graphs show now, even if it was read in two
\* parts, unless a build has replaced the user's graph or somebody else has
\* changed the root graph since: no update, restore or delete of the user leaves
\* one behind.
CacheShowsGraph ==
  \A v \in Views \ mixed : cache[v] # None => cache[v] = PayloadOf(v, NodesOf(v))

\* The two readers of the graph agree: an edge of the payload is a relation of
\* knowledge_related, one hop for a link and two, over the tag, for a tag edge;
\* but for tags shared across the two graphs, and for files whose name is also
\* a concept's.
EdgesAreRelated ==
  \A v \in Views, g \in Graphs : LET nodes == NodesOf(v) IN
    /\ \A e \in LinksIn(g, v, nodes) : \A f, k \in e :
         f # k /\ StartOf(g, f) = f => k \in Related(f, 1, TRUE, v)
    /\ \A e \in TagsIn({g}, v, nodes) : \A f, k \in e :
         f # k /\ StartOf(g, f) = f => k \in Related(f, 2, FALSE, v)
===============================================================================
