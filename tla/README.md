# A verification of mcp-brain in TLA+

mcp-brain is an MCP server that keeps a user's knowledge as markdown files in a
git repository, with search, graph and embedding indexes derived from them. In
the multi-tenant deployment an *isolation manager* (an asyncio reverse proxy)
starts one sandboxed *worker* process per user and proxies the user's requests
to it over a Unix socket; a *unified server* serves several users from one
process and is its own OAuth authorization server.

This directory holds TLA+ modules translated from the source under
`src/mcp_brain/`, the configurations TLC checks them with, and theorems TLAPS
proves about them. `PROJECT.json` maps every definition to the lines it models.

| module | models | checked by | proofs |
|---|---|---|---|
| `WorkerPool` | `isolation/manager.py`, the proxy of `isolation/entrypoint.py`, start and exit of `worker.py` | `WorkerPool.cfg`, `WorkerPoolLive.cfg`, `WorkerPoolEvict.cfg`, `WorkerPoolReady.cfg` | `WorkerPool_proofs` |
| `OAuthServer` | `oauth.py`, `tools/oauth_connections.py` | `OAuthServer.cfg`, `OAuthServerAbsent.cfg` | `OAuthServer_proofs` |
| `KnowledgeIndex` | the vault's files, `search.py` builds, `embeddings/service.py`, the writing tools, the start-up of `worker.py` | `KnowledgeIndex.cfg`, `KnowledgeIndexStale.cfg` | `KnowledgeIndex_proofs` |
| `KnowledgeGit` | disk, git index and history under the tools of `tools/knowledge.py` that commit | `KnowledgeGit.cfg` | `KnowledgeGit_proofs` |
| `GraphIndex` | `graph.py`, `graph_cache.py`, `tools/knowledge_graph_tool.py`, `tools/graph.py`, the tools that change files beside the build in the thread | `GraphIndex.cfg` | `GraphIndex_proofs` |
| `ReviewQueue` | abstract: what a queue of things to review promises | implemented by `Review` | `ReviewQueue_proofs` |
| `Review` | `tools/inbox.py`, the sessions of `tools/maintain.py` | `Review.cfg` | `Review_proofs` |
| `AuthReload` | `auth.py`: the token table, its loads and its lock | in `Access` | `Access_proofs` |
| `DurableTable` | abstract: what a persistent table promises | implemented by `JsonStore` | |
| `JsonStore` | `keystore.py`, `integration_store.py`, `usage.py`, the routes and tools that change them | in `Access` | `Access_proofs` |
| `Access` | composition of the two with admission: `oauth.py`'s chained provider, `_perms.py`, the proxy's user lookup | `Access.cfg` | `Access_proofs` |

The `MC...` modules add the symmetry sets and the small instances for
TLC. Run, in this directory, `tlc -config WorkerPool.cfg MCWorkerPool.tla` and so
on, and `tlapm WorkerPool_proofs.tla` and so on. Definitions named `Mutant...`
are not part of a specification: each is a plausible bug, in the form of a
definition it could replace, and a property is only kept if some mutant of the
code breaks it.

# Inventory

## Components

**Worker pool** (`isolation/manager.py`, `ProcessManager`). State: `_workers`
(user -> `WorkerInfo` with a `Popen`, a socket path, `last_activity`), one
`asyncio.Lock`, the reaper task; outside it the kernel's process table and the
socket directory. Operations: `get_or_spawn`, `touch`, `kill_worker`,
`list_workers`, `shutdown`, `_reap_idle`. Hard: every `await` inside the lock
lets lock-free code in (`touch`, `list_workers`); worker processes crash, hang
and bind late; pids and socket paths are reused. Correct if no worker is lost or
doubled, sockets stay reachable, shutdown is complete, idle workers go and busy
ones stay, and nobody waits for ever.

**Proxy and admin endpoints** (`isolation/entrypoint.py`). State: the request
tasks; the token table. Calls `get_or_spawn`, `touch` and `kill_worker`; reload
of the token table.

**Worker** (`worker.py`). Unlinks the old socket, brings embeddings up to date,
binds, builds the search and graph indexes in a thread beside the handlers.

**Sandbox and quotas** (`isolation/bwrap.py`, `cgroups.py`, `quotas.py`). Build
an argument list, write cgroup files as best they can, sum up a directory.

**OAuth server** (`oauth.py`, `tools/oauth_connections.py`). State: clients and
tokens in memory and in `oauth-state.json`; pending consents and codes in memory
only. Operations: register, authorize, consent, code exchange, refresh, revoke a
connection. Hard: a handler is several saves, any of which may raise or be the
last thing the process does. Correct if issued tokens survive, a rotation or a
revocation is final, and no crash leaves a second session.

**Static tokens** (`auth.py`, `tools/_perms.py`). State: the token table, loaded
by a watcher thread, by SIGHUP and at construction; scope matching. Hard: two
loads at once, and a signal handler that takes a lock its own thread may hold.

**Knowledge files** (`tools/knowledge.py`). State: markdown files, the git index
and history, `.lock` files. Operations: update, delete, restore_at, undo,
scope_rename, and reads. Hard: a change is many steps (write, `git add`, `git
commit`, three index updates), each of which may fail or be the last; failures
of git are logged and the tool goes on.

**Search index** (`search.py`, `tools/search.py`), **graph** (`graph.py`,
`tools/graph.py`), **embeddings** (`embeddings/`, `tools/semantic.py`). State:
SQLite files beside the vault. Whole builds, skipped when a fingerprint of the
vault's modification times matches, and updates of one file. Hard: the build
runs in a thread beside the writers; a kill comes at any time; relationships of
the graph name rows by id and a file's row is deleted and recreated.

**Graph cache** (`graph_cache.py`, `tools/knowledge_graph_tool.py`). Payloads
cached for a time to live, invalidated by update, restore and delete only; a
payload is read in two parts. Correct if it is what the graph shows.

**JSON stores** (`keystore.py`, `integration_store.py`, `usage.py`, `admin.py`,
`tools/apikeys.py`). Mutate memory, save the file; the pattern of the OAuth store.

**Rate limiter** (`rate_limit.py`), **request log** (`logging_middleware.py`).
A time per token; a middleware that buffers and replays a request body.

**Maintenance sessions** (`tools/maintain.py`), **inbox** (`tools/inbox.py`). A
session file with questions that are answered, confirmed or skipped in order;
items that are added, accepted into a file or rejected, then archived. Both write
knowledge files and refresh no index.

**The rest.** `tools/meta.py`, `tools/layout.py` (one file each), `wake.py`,
`briefing.py` (layout of text), the clients of Todoist, Trello, Nextcloud and
Google Calendar (stateless HTTP), `server.py` (assembly),
`tools/secrets_schema.py` (a table).

## How they interact

A request enters the proxy, which asks the pool for a worker of the user, connects
to its socket and streams the answer, touching the worker at every chunk. The
reaper and an admin's reload terminate workers; that is the kill that interrupts
the worker's tools. In a worker the MCP framework runs tools on the event loop
(they are plain functions without `await`), so tools never interleave with each
other; they do interleave with the build thread. Tools share the files, git and
three databases, which survive the worker. The unified server instead
authenticates with the OAuth server and the static tokens.

# Plan

Done, in this order because the first parts carry the concurrency and the
promises to the user: `WorkerPool`, `OAuthServer`, `KnowledgeIndex`,
`KnowledgeGit`; then `GraphIndex`; `Review` against `ReviewQueue`; `AuthReload` and
`JsonStore`, the latter against `DurableTable`, composed in `Access`. Left:

1. The JSON store's and OAuth store's fallback to an empty table for a file that cannot
   be parsed or read, and failing statements of `graph.db` and `embeddings.db`.
2. The OAuth store as a second implementation of `DurableTable`, whose `Done` and
   `Failed` must then change several names at once: a handler is several saves.
3. An abstract per-user service (absent, starting, serving, stopping) that
   `WorkerPool` implements for each user.
4. Pure algorithms against reference definitions, in modules without proofs:
   sections (parse and rebuild), the chunker, rank fusion, scope matching.

# The worker pool

**State.** `proc` is the process table, with the strongest signal each process
was sent; `sock` the socket directory, by user; `workers`, `waited`, `idle` the
registry: the pid of each entry, whether its `Popen` has collected the exit
status, and whether `last_activity` is older than `idle_timeout`. `lock`, `cur`,
`curWaited` are the holder of the lock and the `Popen` local to it. `pc` and
`user` say where each request task is suspended, `rpc`, `late`, `todo`, `victim`
the same of the reaper, `mpc` of the lifespan.

**Steps.** One action is what the event loop runs between two awaits; acquiring
the lock and the code up to the next await are one action. `waited` and
`curWaited` matter because from the moment `poll()` or the waiter thread has
collected a pid, the kernel may hand it out again. A request is either a proxied
one (`get`, `spawn`, `body`, `stream`) or a reload (`kill`, `kterm`, `kkill`).
Time is abstract: a deadline may pass whenever its awaiting task is suspended,
and `BecomeIdle` stands for the passing of `idle_timeout`.

**Runs.** `pool`: two users, two requests, two pids (1.36 million states). Two
pids are enough for a worker and its successor, or two users' workers at once;
two requests for a spawn and a reload in competition with the reaper. It checks
`NoOrphan`, `OneWorkerPerUser`, `SocketsAreOwn`, `ShutdownLeavesNone`,
`FirstVictimIsIdle`. `SocketsAreOwn` has both directions: a registered worker that
listens keeps its socket file, and whoever listens on a user's file, where the proxy
connects whatever the registry says, is that user's registered worker or the one
being spawned or killed. `pool_live`: one user, two requests and two pids, under
`FairSpec`: `RequestsAnswered`, `ReloadsEnd`, `IdleIsReaped`; symmetry is not used
with liveness.

**Fairness.** Weak fairness of timers, of threads in `Popen.wait` and of the
kernel ending a process it sent SIGKILL. Strong fairness of taking the lock:
`asyncio.Lock` wakes waiters first come first served, and every holder waits with
a deadline. No fairness of workers: nothing makes one bind, answer or obey
SIGTERM; none of requests coming or clients reading.

**What the violations show.** `pool_evict`: the reaper computes `to_reap` once
and then awaits the end of each worker in turn; a worker touched during the wait
for an earlier victim is terminated in the middle of its stream. `pool_ready`: a
socket file left by an earlier worker is taken for the readiness of the new one,
so the proxy connects to nobody.

**Proof.** `IInv` conjoins the types, `TaskInv` (who holds the lock is where), 
`RegInv` (marks exist for registered users only; the reaper's lists are empty
when it does not run), `HandleInv` (a handle whose status is not collected names
a process of its user: this is what makes signals by number safe), `NoOrphan` and
`SocketInv` (a process that listens and is not being killed, or is registered,
owns its socket file). `NoOrphan` is not inductive alone: that a spawn adds no
second worker needs `HandleInv`'s statement that the spawning user's entry is
absent or collected. `Inductive` proves it for any users, pids and requests; the
safety properties of the run follow, and `FirstVictimIsIdle` as an action
property from `late` being a subset of `idle`. `SocketsAreOwn` needs one invariant
more, `ListenerInv`: whoever listens on a user's file has a handle of that user whose
exit status is not collected. It rests on `HandleInv` and on the order in the code: a
status is collected only once the process has ended and its file is stale.

Two theorems say how far the code keeps what it does not keep in general.
`ReadyButForStaleFiles`: a spawn that reports ready has a worker that has bound, or
found a file nobody listens on, so `ReadyHasBound` fails for leftovers only and never
because another worker's listener is taken for the new one. `SignalsReachOwn`: every
SIGTERM and SIGKILL goes through a handle of the worker's own user, or one whose exit
status was already collected, which is the only way a reused pid is hit.

# The authorization server

**State.** `mem` and `disk` are the store in memory and in the file; `expired`
the tokens whose time has passed; `stage`, `owner`, `gen` the consent flows and
how many pairs were minted for each. `known`, `given`, `struck`, `revoked`,
`absent` record what clients and the user have been told: no code variable, but
what the properties are about. A token is the record of what it was minted for:
`secrets.token_urlsafe` never repeats.

**Steps.** No handler awaits between reading the store and answering, so a handler
is one action; but it saves after each mutation, and a save may raise (`_save`
leaves the mutation in memory and the old file in place: it writes a temporary
file and renames it) or be the last thing before a crash. A handler is therefore
the sequence of images it saves, and ends in one of `Saved`, `SaveFails` at some
image, `Dies` after some image. `_prune_expired` runs in every save. PKCE, CSRF,
scopes and HTML are left out; `revoke_token` is not modelled because `server.py`
does not enable `RevocationOptions`, so no route reaches it. `_load` falls back to an
empty store when the file cannot be read or parsed (134-155); the store itself never
writes such a file, and the model leaves that out.

**Runs.** `oauth`: two clients, two grants, two pairs for each (0.95 million
states): one refresh and its interruption, two clients to keep apart, and two
grants of one client, which a revocation must treat together. It checks `IssuedSurvives`,
`OneRefreshPerGrant`, `RotationIsFinal`, `RevokedStaysRevoked`.
`oauth_absent` (violation): a revocation whose save raises has emptied memory;
its retry finds nothing, saves nothing and answers "No active tokens found", and
after a restart the tokens are accepted again.

**Proof.** `IInv` adds to these properties `Minted` (tokens of a grant are numbered up to
`gen`, so the next pair is new), `Unspent` (nothing was minted for a flow whose
code is not exchanged) and `Owned` (a token is its grant's client's). The lemmas
first reduce the three outcomes to which tokens can end in memory and file; the
invariant's parts then follow from sets of tokens alone. All five are proved for any
clients, grants and bound on pairs.

The violation is bounded by two theorems. `DeletionIsFinal`: memory and file gain only
tokens minted in the same step (`OnlyFresh`), so a token that was handed out and is gone
from both is gone for good. `AbsentErrsOnStruck`: the answer "No active tokens found"
errs only about tokens whose deletion an earlier refresh or revocation had begun, or
expired ones, since every other token is in memory.

# The vault and its indexes

**State.** `text`, `mtime`, `clock`: the files. `rows`, `fp`: the search database
and its stored fingerprint as its one connection sees them; `drows`, `dfp`: what is
committed; `chunks`: the embeddings. `h`, `hf`, `hx`, `silent`, `hfp`: the tool call in
progress. `bg`, `bgfp`, `bgrows`, `left`, `missed`: the start of the worker (bootstrap,
then fingerprint, scan and installation in the thread). A fingerprint is the function
of modification times, which is what `_knowledge_fingerprint` hashes; two writes are
taken to leave different times (nanoseconds and the size are both in the hash). A file
is emptied by `open(..., "w")` before it is written (`Torn`). `chunks[f]` is the text
the file is embedded with, or `Mixed` after a refresh that was cut short. `lost` is
history: the files that may lack rows because a read or a statement failed. The graph
is in `GraphIndex`.

**Steps.** A tool is a sequence of actions, one for each effect another actor can
see: the thread, which reads file after file, or a kill. The git commands in
between touch no file except in undo, whose reverts change files one by one to
some other text; which text is the subject of `KnowledgeGit`. `Restart` is the
pool's kill and respawn; files and databases stay. Of failures, a full disk while a file
is written, the embedder, the reads of files and the statements of `search.db` are
actions. What a read costs follows the code: a build passes over a file it cannot read
but stores the fingerprint that counts it (`BuildPasses`, `UndoInstalls`;
search.py 231-235 and 254-257), leaves a file out of the fingerprint whose time it cannot
ask for (`BuildStatFails`), and bootstrap leaves the chunks of a file it cannot read as
they are (`BootPasses`; service.py 217-220). A statement that fails after the DELETE
leaves the rows of before, none, or the new ones in a transaction that stays open, which
the next commit makes durable and a kill takes back (`Break`, `Restart`).
`scope_rename`, which moves a directory, commits and rebuilds, is modelled in
`KnowledgeGit` up to its commit; its rebuild of the search index and its embeddings are
not modelled.

**Runs.** `vault`: two files, two texts, three changes, one failed read or statement
(2.1 million states). One write is two changes, so three allow a torn or complete write
and another change before, inside and after a build, over any number of restarts; one
failure is enough for rows to be lost behind a fingerprint, or to come with another
file's commit. It checks `FingerprintMeansCurrent`, `BuildEndsCurrent`,
`UndoEndsCurrent`, `BootEndsEmbedded`. The first three say what they say of every file
but those in `lost`: a file whose read failed is indeed missing from the rows behind a
fingerprint that counts it, until it or another file changes, and nothing in the
repository promises otherwise. A file leaves `lost` with the next update or build that
reads it. `vault_stale` (violation, one file, no failure): an update between the
thread's read of the file and its installation of the rows is lost from the
index, and stays lost until the file is written again, an undo rebuilds, or the
worker restarts: the fingerprint then differs, which is `FingerprintMeansCurrent`.

**Proof.** `FingerprintMeansCurrent` speaks of the whole fingerprint and is not
inductive. The invariant holds it file by file, for files that are not lost: one with
the time the fingerprint stores has the rows it should, as the connection sees them and
as they are committed. `ScannedRows` says the same of the rows in the hands of the
thread, which holds because a file's time is taken before it is read; `Clocked` says no
fingerprint holds a time that is still to come; `ToolHolds` that the tool knows the file
as it is. Besides the bounds being numbers and the special values being different from
texts, the proof assumes only that no fingerprint is equal to `None` (a row that is not
in the database). `MissesAreNoticed` bounds the violation: between the refresh of the
rows and the answer of an update only the build in the thread can replace them
(`OnlyTheBuild`), and if it did, the stored fingerprint is not that of the vault, so that
the next build runs; unless a read or a statement of that build failed.

# The vault's git repository

**State.** `work`, `index` and `log` are the worktree, what is staged, and the trees
of all commits; `locked` says that an `index.lock` is left over. `pc`, `opf`, `old`
are the tool call in progress, the files it is about and, in a rename, those of the
old name; `utop` and `uend` are the ends of the list of commits an undo walks
down. `hurt` is history: the files whose last call had a git command that failed or
was killed. A file is a scope and a project, or `meta.yaml`, which is in no scope; a
text is a model value. `calls` counts the calls, for the bound.

**Steps.** One action for each git command and for each change of files before it.
`WriteFile`, `Add`, `CommitFile` are knowledge_update, knowledge_restore_at, and
`_git_commit_file` and `_git_commit_meta` of the maintain and meta tools, which
run the same two commands; `Unlink`, `Rm`, `CommitAll` are knowledge_delete;
`Move`, `Rewrite`, `AddNew`, `RmOld`, `CommitAll` are scope_rename, whose result of
`git rm` the code does not look at; `UndoBegin`, `Revert` are knowledge_undo. Any
command may fail without effect (`GitFails` and so on: no identity configured,
permissions, a full disk), and a kill may come between commands or before a
command's effect; a revert may be killed half-way through the worktree. A kill may
leave `index.lock`, and nothing in the repository removes it, `install.sh
repair-knowledge` included: from then on every command that writes fails. Which
text a reference rewrite produces is left open, so `Rewrite` may give any file, and
`meta.yaml`, any other text; a rewrite of `meta.yaml` that raises is swallowed and may
leave anything in it (`RewriteFails`; knowledge.py 1548-1549). Refusals that change nothing (an invalid name, more steps than
commits) are steps not taken.

git itself is external. What the model takes for granted of it: `commit -- path`
commits the file as it is on disk and leaves the rest of the index staged and
uncommitted; `commit` commits the index; neither makes an empty commit; `revert`
refuses when something is staged, when a file it has to change holds text that is
not committed, or when the commit's own text is no longer there; a file
missing from disk does not stop it. A conflict, which would leave markers in
files, is not an action: `UndoMirrors` shows that `CanRevert`'s last
condition always holds.

An undo takes the last commits back whatever they are, those of knowledge_delete
included (knowledge.py 618-647), while knowledge_delete's docstring (1233-1234) says
"This cannot be undone via knowledge_undo". The model and `UndoMirrors` follow the code;
the docstring is wrong.

**Run.** `git`: two scopes with one project each and `meta.yaml`, two texts, five calls,
six commits, undo of at most two (0.72 million states). Two files are needed for one call
to disturb the other's file and for a rename; five calls hold three changes and an undo
of two of them, or an undo of an undo. At the bound every commit fails, which the tools
must bear in any case, and after the last call nothing runs any more, as between the
calls of real tools, so deadlock is not checked. It checks `SavedUnlessHurt`,
`UndoMirrors`, `CommitsOwnFiles`. `SavedUnlessHurt` is strongest where `hurt` is small: a
file leaves it with the next call on it that goes through. That an undo loses no text
that is not committed is git's own promise (its refusals, above) and no property here.
What `CommitsOwnFiles` allows is real: a delete's commit names no path and takes
along what a failed commit of another file has left staged.

**Proof.** `IInv` adds `CallInv` (between the commands of a call, its files are as
far as the commands have brought them: staged like on disk before a commit, gone
from disk before `rm`) and `UndoInv` (commits are left to revert, and the reverted
ones are mirrored). `SavedUnlessHurt` needs `CallInv` for the step that ends a call,
and its preservation by `Revert` needs `RevertIs`: since HEAD is the tree of the
commit to revert, reverting it gives the tree before. The lemmas on `Take` and
`Record` keep git's operators closed. Everything is proved for any scopes, projects
and texts, any number of steps, and any bounds on the history and the calls.

# The relationship graph and its cache

**State.** `work`, `mtime`, `clock` are the files, where a text is the function of
what it links to: the type it gives each file, name (concept or tag) and heading. A
graph has `rows[f]`, the text whose links are stored for `f`; `ents`, the type of each
entity's row, by name; and `dead`: ids are abstracted to what they can do, a
relationship whose object's row was deleted is dead for good, and only the rows of files
come back under the same name. `own` is the vault's graph, `root` that of the root
vault, which the tools of a user of the shared server read as well
(knowledge_graph_tool.py 163 and 186, tools/graph.py 85-118); a worker has only one.
`fp` is the fingerprint in the database, `made` says there is a graph (a shared server
makes a user's in memory on first use), `backed` which of the two kinds it is. `cache`
holds the payloads of knowledge_graph by view; `h`, `hf`, `look` the tool call in
progress, `bg`, `bgfp`, `bgtext`, `left`, `missed` the build in the thread. `mixed` and
`lost` are history: views whose payload may come from a graph replaced or changed since,
and files the graph may lack because a read failed.

**Steps.** As in `KnowledgeIndex`, one action for each effect another actor can see:
`WriteFile` and `Index` are knowledge_update and knowledge_restore_at, `Unlink` and
`Unindex` knowledge_delete, `Change` and `Rebuild...` knowledge_undo and
scope_rename, `WriteSilently` the tools that index nothing, `RootIndexes`,
`RootForgets` and `RootBuilds` the tools of other callers on the root vault. Updates and
removals of a file's rows are whole transactions: they run under the graph's lock with
one commit. `IndexAll` takes the order of the files as the file system gives it, since
the last file to name an entity sets its type; a build passes over a file it cannot read
and stores the fingerprint that counts it (`BuildPasses`, `RebuildInstalls`, `Open`;
graph.py 568-572 and 591-594). `ReadNodes` and `ReadEdges` are the two queries of
knowledge_graph, between which only the thread can run. `Related` is knowledge_related's
walk, over each of the two graphs, from the first row that has the file's name: that of a
concept, if somebody put `[[scope/project]]` (graph.py 661-668). Two changes are taken
to leave different times, as in `KnowledgeIndex`. Left out: statements of `graph.db` that
fail (those of `search.db` are in `KnowledgeIndex`); in a text that names one file both
in `[[ ]]` and by a path or `@`, the former counts as coming last.

**Run.** `graph`: two files, a tag, a heading, a concept named like each file, two texts
(a reference by path with a tag; a concept named like a file, a reference by `@`, the tag
and a heading), three changes, changes of the root graph and failed reads together, a
graph of either kind (0.54 million states). Two files are needed for a link and for one
update to disturb the other's; three changes for a write before, inside and after a
build. `EndpointsExist`: no relationship hangs in the air, unless its object's row has been
deleted since. `FingerprintMeansCurrent` and `BuildEndsCurrent`: a skipped build had
nothing to add but files whose reads failed, and one that ran lost no link.
`CacheShowsGraph`: a payload in the cache, read in two parts from two graphs, is what the
graphs show. `EdgesAreRelated`: the edges of the payload and the walk of
knowledge_related, two readers written apart, agree, within each graph and for files
whose name is not also a concept's. For the others they do not: a payload joins two files
by a tag that one has in the user's graph and the other in the root's, which no walk of
one graph finds, and a walk from a name that is also a concept's starts at the concept.

**What the model shows besides.** An update deletes and recreates the file's entity:
links of other files to it are dead until a build that is not skipped, and updates
do not change the fingerprint, so the next build is skipped only if no file has
changed, which `BuildEndsCurrent` tells apart. A reference by `@` turns the type of
an existing file's entity into `reference` and thereby takes the file off
list_files and knowledge_graph until it is indexed again. A write to a user whose graph has
not been made yet makes it empty but for that file, and the lazy build then never
comes. Undo, rename and build leave payloads in the cache. So does a write to the root
vault: it drops the root's payloads only, and a user's goes on showing the old root graph
until it expires, a minute later; graph_cache.py 23 says a payload depends only on the
user's own tree, which the merge contradicts, and `mixed` marks those views. The
repository promises the contrary of none of these.

**Proof.** `IInv` is as in `KnowledgeIndex` with `EndpointsExist` beside it, for both
graphs, which is inductive with `ToolHolds` (a file being indexed is there): an update
adds every entity it links to before the links; a removal marks the links to the file as
dead in the step that deletes its row; a build makes entities of all it links to, where
the lemma that one of several files is indexed last rests on the well-foundedness of
the natural numbers. `CacheInv` adds that nodes read are the graphs' until one of them is
replaced or changed. `EdgesAreRelated` compares two readers of one state: the recursive
function of knowledge_related's walk (`Reached`) is unfolded for the two hops that
matter, one for a link and two for a shared tag, and `EndpointsExist` gives the tag's
entity the second hop goes through. All seven are proved for any files, names,
headings, texts and views.

# The review queues

**Abstract.** `ReviewQueue`: each thing is new, then open, then accepted, dismissed
or gone. Accepting applies its change once; a call that is cut short after it applied the
change leaves the thing open or loses it. Things may move together.

**State.** `Review` has the files as sequences of pieces (texts and entries of accepted
items) by section, `session` (the
session file: number of questions, position, file, status and draft of each),
`items` (the item files, in the inbox or the archive), and `todo`, what the tool in
progress does after the file was written: a tool changes several files one after the
other and keeps nothing else. A language model's answers are arbitrary, cut to
the hard cap as in the code. `qfate`, `times`, `cuts`, `stopped` are history.

**Steps.** `Start`, `AnswerSkips`, `AnswerDrafts`, `Confirm`, `Skip`, `End` and `Save`
are maintain_start, _answer, _confirm and _skip; `Add`, `Accept`, `Reject`, `Mark`,
`Archive` the inbox tools. `Confirm` writes as maintain_confirm does: a section, else
the first occurrence of the old text, else the section of updates. `StopSave`,
`StopItem`, `StopAdd`, `StopWrite` end a call before or within any of its writes: all
of them write in place, so a file can be left truncated. `Update`, `Delete` and
`Day` are the other tools and the calendar. What a draft or another tool puts into a file
(`Bodies`) is any sequence of pieces, entries among them: a model sees the file with the
entries it has, and answers what it likes.

**Run.** `review`: one file, one item, two sessions of at most two questions, drafts and
updates that repeat the item's entry, one call cut short (2.3 million states). Two
sessions are needed for one to replace the other, two questions for an order, one stop
for a retry. `QueueSpec` is the refinement; `times` counts a change only once its call is
past the write, so that a call in progress is no step of the queue. `SettledInOrder` and
`InboxShowsAll` relate statuses to the position and the list to the inbox. How often an
entry stands in a file is no property: drafts and updates may repeat or drop it.

**What the model shows besides.** A confirmation cut short and retried writes its
change twice, the second time into the section of updates when the old text is gone.
A confirmation that replaces a section takes along items accepted into it since the
draft. The last question, when maintain_answer passes over it, leaves the session
file behind although its answer says the session is cleaned up; the next call
removes it. One unreadable item file makes inbox_list fail for all; an item marked
but not archived is off the list and can be accepted again. `ReviewQueue` allows
what concerns it through `cuts`.

**Proof.** About the abstract queue: `AppliedOnce` (what the counters add up to) and
`SettledForGood`, for any things. For `Review`, the session file alone is not
inductive, since a call computes the next session before it is saved: `SessionInv`
says that what `todo` is about to save is a new session or the one there after one
answer (`Fresh`, `Same`), `FateInv` that the questions from the current one on are open,
`ItemInv` that an item being settled is in the inbox and that one marked there is so
because of that or of a call cut short, `CountInv` that a change not yet settled has
been written. `TypeCorrect`, `SettlesInOrder` and `InboxIsListed` follow.
`ImplementsQueue` is the step simulation: `EveryStepMoves` says of each step and each
thing which step of the queue it is; a confirmation's write stutters and its save is
`Accept` or, cut short, `CutShort`. All of it is proved for any files, texts, items,
targets, changes, caps and bounds, assuming that the names are distinct and no special
value is a content.

With the refinement proved, the promises of `ReviewQueue` become theorems about the
tools: `Results` is `ReviewQueue_proofs` instantiated with the refinement mapping, and
its theorems, cited through it, give `ChangesAreWrittenOnce` (a change is written once for
its acceptance and once for each call cut short) and `SettledOnceForAll` (no later call,
session or restart settles anything again).

# Who is admitted: the token table and the stores

**State.** `AuthReload`: `file` and `mtime`, and `seen`, what the file has held with that
time; `table` and `stamp`, the `_config` and `_mtime` of the verifier; `held`, the main
thread reads under the lock; `hup`, the stack of loads on the main thread, where handlers
of SIGHUP may interrupt it and each other; `watch`, the watcher thread. `JsonStore`:
`mem` and `disk` of the three stores, an entry named by store and key, and `told`, the
values the answers so far leave possible. `Access` puts both into one process that
restarts as a whole, beside the isolating proxy with the keys it loaded when it started
(`loaded`; `known`, what they could be then).

**Steps.** A load takes the time, reads, waits for the lock and installs; each is an
action, for the file may change and the other thread run in between. A step within
the lock that nothing interrupts (the watcher's) is one action; the main thread may
be interrupted while it holds the lock, and the lock is not reentrant. An edit may fall
into the same tick of the clock as the one before, since the code compares
`os.path.getmtime` alone (auth.py 203 and 225); a change in several writes, the first of
which truncates the file to a valid empty table, is several `Edit`s. A start that cannot
load the file ends: server.py 312-316 reads the tokens of a table that is not there
(`WatchStarts`; a supervisor's next attempt is `Restart`). A store's change is made in
memory and then the whole file replaced (`Saved`), with what earlier failed saves left in
memory, or not (`SaveRaises`). Requests are served, and stores changed, when the main
thread is in no handler. `Admitted` is `ChainedProvider.load_access_token`. `UserOf` is
the user of a call, looked up at any time after its admission: for a key revoked since,
none, which the tools take for the root vault (_perms.py 153-163). `Routed` is the
proxy's own lookup, over keys that none of its routes changes (entrypoint.py 371).

Taken for granted: entry ids and secrets are one to one, and the clock does not go back.
The proxy's own verifier of tokens (entrypoint.py 370) loads as this one does, but the
proxy does not read its table at the start, and goes on without one. Left out: a store's
fallback to an empty table for a file it cannot parse (keystore.py 80-87,
integration_store.py 60-66, usage.py 63-69), which the stores themselves never write.

**Run.** `access`: one token, two keys of two users, one integration; four edits, signals,
changes of stores and starts together, with at most one tick of the clock between edits;
handlers nested two deep (0.89 million states). This is enough for an edit to fall between the
parts of two overlapping loads or into the tick of another, and for the save of one key
to fail, be carried along by that of the other, or be lost in a restart. A token may have
either user, none, or be gone. Larger numbers are covered by the proofs. Deadlock is not
checked: at the bounds the system stops, and it really may: a signal within the lock
blocks the main thread for ever, and a start without a table ends. `StaleIsNoticed` and
`CatchesUp` are about the table; `TableSpec` is the refinement of `DurableTable`;
`AdmitsAsAnswered` relates admission by every way to answers and file.

**Fairness.** Weak fairness of the main thread's own steps (code that runs to its
end unless it is blocked) and strong fairness of the watcher: its steps follow each
other in a loop with a timer, and a thread that waits for a lock which becomes free
again and again gets it. No fairness of edits, signals, requests or restarts.
`CatchesUp` speaks of a process that has started, in which no handler has blocked its own
thread for good, and of a file that has held nothing else with the time it has. So it
does not catch the deadlock of the signal handler: `Blocked` is the situation the model
makes visible, the code has no way out of it, and no property says it does not come.

**What the model shows besides.** A table older than the file can be installed last; it
is stored with another time than the file's, so the next poll repairs it
(`StaleIsNoticed`), unless two changes shared a tick: then a table of the first, that of
the truncated file perhaps, passes for the second until the next change or SIGHUP. A file
that parses in the middle of an edit drops tokens until the next poll. The proxy and a
tool call look a user up after the request was admitted, each under its own acquisition
of the lock: a call whose key was revoked in between runs on as the root vault's. The
proxy routes a key revoked after its own start until it is started again, though
`_resolve_user_id`'s docstring (entrypoint.py 102) says "None if the token is invalid,
revoked, or has no user_id"; `ProxyAsAnswered` promises no more than the code keeps, what
was answered before the proxy started. A revocation whose save failed is "not found" when
retried, with the key active in the file: `DurableTable` allows it, since the first
answer was an error, and `MemoryIsAsked` bounds what it can lead to.

**Proof.** For the table, `TableInv` says of every load in progress, on the stack or in the
watcher, that what it has read the file has held with its present time, if that is the
time it has taken (`Honest`); so whichever load installs last, `StaleIsNoticed` holds. For
the stores, memory and file hold only values in `told`, and the proxy's keys only values
in `known`. `AdmissionIsAnswered` follows from both; `StoresAreDurable` is the step
simulation: a put that is saved is `Done`, one that is not is `Failed`, and every other
step of the process stutters. `NothingUnasked` carries the table's promise back: what
memory shows and what a restart brings back are among the values the answers leave
possible. All of it is proved for any tokens, keys, users, depth of nesting and bounds on
events and ticks, assuming that tokens and keys are distinct and the special values are
no contents.

# What is only model-checked, and what is not modelled

Every type invariant, safety invariant, action property and refinement the passing
runs check is proved for every value of the constants. TLC alone checks liveness
(`RequestsAnswered`, `ReloadsEnd`, `IdleIsReaped`, `CatchesUp`), which needs fairness and
so is out of the prover's reach, and finds the four violations. What a recursive
definition computes for all inputs cannot be proved either; the one a proof uses,
`Reached`, is used only as far as its first two values.

Known behaviour that no property states: a signal handler that blocks its own thread;
where a confirmed draft lands when the text it was made for is gone, and what it may
overwrite; chunks of a file that an undo removed
stay in the embedding store, because `bootstrap` only visits files there are; a
file created and deleted during one scan keeps its rows until another file
changes; the reaper signals a registered pid without polling it first. They are
in the models and are listed as hazards with a note.

Not modelled, with the reason in `PROJECT.json`: the rate limiter and the request
log, which keep nothing between requests but one timestamp; knowledge_maintain's
audit, which only reads (run with a scope, it reports links to other scopes as
broken; its cached report ignores the arguments); wake-up and briefing, which lay
out text; the HTTP clients of external services; scope filters, layout of the graph,
the timeline, ranking; server assembly beyond a restart; the sandbox's argument list and cgroup
files, which keep no state; JSON files that the stores did not write; failing
statements of `graph.db`; the embedding
model, SQLite, git's and the kernel's own correctness.
