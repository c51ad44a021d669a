----------------------------- MODULE KnowledgeIndex -----------------------------
(***************************************************************************)
(* The markdown files of one worker's vault and the two indexes derived      *)
(* from them: the full-text rows of mcp_brain/search.py and the chunks of    *)
(* mcp_brain/embeddings.  The tools that write files (tools/knowledge.py,    *)
(* tools/inbox.py, tools/maintain.py) run on the worker's event loop, one at *)
(* a time; the full build that worker.py starts runs in a thread beside      *)
(* them, and the pool may kill the worker between any two steps.  Files and  *)
(* databases survive a kill.  A scan skips a file it cannot read, and a       *)
(* statement that fails leaves search.db in an open transaction, which the    *)
(* next commit makes durable.                                                 *)
(*                                                                           *)
(* A fingerprint is the modification time of every file, so it is a          *)
(* function like mtime; two writes never leave the same time.  git, which    *)
(* the tools call between their steps, touches files only in undo.           *)
(***************************************************************************)
EXTENDS Integers

CONSTANTS
  Files,     \* scope/project pairs
  Texts,     \* contents of a file
  MaxClock,  \* bound: changes of files
  MaxFaults, \* bound: reads of files and statements of search.db that fail
  None,      \* no file, no rows, no chunks, no fingerprint
  Torn,      \* an empty file: opened for writing, not written yet
  Mixed      \* some chunks of the old text and some of the new

ASSUME ContentsDistinct ==
  /\ None \notin Texts \cup {Torn, Mixed}
  /\ Torn \notin Texts \cup {Mixed} /\ Mixed \notin Texts
ASSUME BoundsAssumption == MaxClock \in Nat /\ MaxFaults \in Nat
ASSUME NoneIsNoFingerprint == None \notin [Files -> 0..MaxClock]

VARIABLES
  text,    \* what is in each file
  mtime,   \* its modification time, 0 for a file that is not there
  clock,   \* the last modification time given out
  rows,    \* the text each file is indexed with in search.db ...
  fp,      \* ... and the fingerprint there, as its connection sees them
  drows,   \* the rows ...
  dfp,     \* ... and the fingerprint that are committed
  chunks,  \* the text each file is embedded with in embeddings.db
  h,       \* what the tool call in progress does next, and ...
  hf,      \* ... the file it is about
  hx,      \* ... the text it writes
  silent,  \* ... and whether it is one of the tools that refresh no index
  hfp,     \* ... and the fingerprint an undo scans the vault for
  bg,      \* the worker's start-up: bootstrap, fingerprint, scan, done
  bgfp,    \* the fingerprint of the build in the thread
  bgrows,  \* the rows it has collected
  left,    \* the files it has still to look at
  missed,  \* the files it could not read
  faults,  \* the reads and statements that have failed
  lost     \* history: the files that may lack rows since one failed

fileVars == <<text, mtime, clock>>
searchVars == <<rows, fp, drows, dfp>>
faultVars == <<faults, lost>>
dbVars == <<searchVars, chunks, faultVars>>
toolVars == <<h, hf, hx, silent, hfp>>
bgVars == <<bg, bgfp, bgrows, left, missed>>
vars == <<text, mtime, clock, rows, fp, drows, dfp, chunks, h, hf, hx, silent, hfp, bg, bgfp,
          bgrows, left, missed, faults, lost>>

Contents == Texts \cup {Torn, None}
Times == 0..MaxClock

TypeOK ==
  /\ text \in [Files -> Contents]
  /\ mtime \in [Files -> Times]
  /\ clock \in Times
  /\ rows \in [Files -> Contents]
  /\ fp \in [Files -> Times] \cup {None}
  /\ drows \in [Files -> Contents]
  /\ dfp \in [Files -> Times] \cup {None}
  /\ chunks \in [Files -> Texts \cup {Mixed, None}]
  /\ h \in {"idle", "write", "rows", "embed", "unrow", "unembed", "revert", "install"}
  /\ hf \in Files \cup {None}
  /\ hx \in Texts \cup {None}
  /\ silent \in BOOLEAN
  /\ hfp \in [Files -> Times]
  /\ bg \in {"boot", "stat", "scan", "done", "failed"}
  /\ bgfp \in [Files -> Times]
  /\ bgrows \in [Files -> Contents]
  /\ left \subseteq Files /\ missed \subseteq Files
  /\ faults \in 0..MaxFaults
  /\ lost \subseteq Files

Nothing == [f \in Files |-> None]
NoTimes == [f \in Files |-> 0]

Present(f) == text[f] # None

\* A worker that starts over an empty vault.
Init ==
  /\ text = Nothing /\ mtime = NoTimes /\ clock = 0
  /\ rows = Nothing /\ fp = None /\ drows = Nothing /\ dfp = None /\ chunks = Nothing
  /\ h = "idle" /\ hf = None /\ hx = None /\ silent = FALSE /\ hfp = NoTimes
  /\ bg = "boot" /\ bgfp = NoTimes /\ bgrows = Nothing /\ left = Files /\ missed = {}
  /\ faults = 0 /\ lost = {}

-------------------------------------------------------------------------------
(* The file system and the databases. *)

\* The file f is changed to x, or removed.
SetFile(f, x) ==
  /\ clock < MaxClock /\ clock' = clock + 1
  /\ text' = [text EXCEPT ![f] = x]
  /\ mtime' = [mtime EXCEPT ![f] = IF x = None THEN 0 ELSE clock']

\* A read or a statement fails.
Fault == faults < MaxFaults /\ faults' = faults + 1

\* The rows of update_file and remove_file; the fingerprint stays.
Indexed(f, x) == [rows EXCEPT ![f] = x]

\* The statements go through, and so does the commit: of these rows and this
\* fingerprint, with whatever an earlier failure left in the transaction.
Commit(r, p) == rows' = r /\ fp' = p /\ drows' = r /\ dfp' = p

\* One of them fails: those before it have taken effect in a transaction that stays
\* open, or SQLite has rolled it back.  (Rows inserted in part count as none.)
Break(states, fs) ==
  /\ Fault
  /\ \E s \in states \cup {<<drows, dfp>>} : rows' = s[1] /\ fp' = s[2]
  /\ lost' = lost \cup fs
  /\ UNCHANGED <<drows, dfp>>

\* SearchIndex.update_file and remove_file: the rows of one file, delete before
\* insert, in one transaction.
IndexFile(f, x) == Commit(Indexed(f, x), fp) /\ lost' = lost \ {f} /\ UNCHANGED faults
IndexFileFails(f, x) == Break({rows, Indexed(f, None), Indexed(f, x)} \X {fp}, {f})

\* SearchIndex.build: all rows are deleted, then inserted, then the fingerprint;
\* skipped are the files that could not be read.
IndexAll(r, p, skipped) == Commit(r, p) /\ lost' = skipped
RowsOf(r, fs) == [f \in Files |-> IF f \in fs THEN r[f] ELSE None]
IndexAllFails(r, p) ==
  Break({<<rows, fp>>, <<r, p>>} \cup {<<RowsOf(r, fs), fp>> : fs \in SUBSET Files}, Files)

\* Mutant: an empty text is a chunk like any other.
MutantChunksOf(x) == x

\* chunk_markdown of an empty text is no chunk.
ChunksOf(x) == IF x \in Texts THEN x ELSE None

\* Mutant: chunks of sections that are gone are kept.
MutantEmbedded(f, x) ==
  [chunks EXCEPT ![f] = IF @ \in {None, ChunksOf(x)} THEN ChunksOf(x) ELSE Mixed]

\* EmbeddingService.refresh_file: what differs is deleted or embedded.
Embedded(f, x) == [chunks EXCEPT ![f] = ChunksOf(x)]

\* A refresh that raises, or is killed, after some of its transactions.
EmbeddedInPart(f, x) ==
  {chunks} \cup IF chunks[f] = ChunksOf(x) THEN {} ELSE {[chunks EXCEPT ![f] = Mixed]}

Answer == h' = "idle" /\ hf' = None /\ hx' = None /\ silent' = FALSE /\ hfp' = NoTimes

Goto(label) == h' = label /\ UNCHANGED <<hf, hx, silent, hfp>>

Listening == bg # "boot"

-------------------------------------------------------------------------------
(* knowledge_update and knowledge_restore_at; and inbox_accept and the        *)
(* maintain tools, which leave the indexes alone.                             *)

\* write_text opens the file, which empties it.
WriteOpen(f, x, s) ==
  /\ Listening /\ h = "idle"
  /\ SetFile(f, Torn)
  /\ h' = "write" /\ hf' = f /\ hx' = x /\ silent' = s /\ UNCHANGED hfp
  /\ UNCHANGED <<dbVars, bgVars>>

\* knowledge_update, knowledge_restore_at.
UpdateFile(f, x) == WriteOpen(f, x, FALSE)

\* inbox_accept, maintain_confirm.
WriteSilently(f, x) == WriteOpen(f, x, TRUE)

WriteText ==
  /\ h = "write"
  /\ SetFile(hf, hx)
  /\ IF silent THEN Answer ELSE Goto("rows")
  /\ UNCHANGED <<dbVars, bgVars>>

\* The disk is full: the tool raises and the file stays empty.
WriteFails ==
  /\ h = "write"
  /\ Answer
  /\ UNCHANGED <<fileVars, dbVars, bgVars>>

\* Mutant: the fingerprint is brought up to date along with the rows.
MutantRefreshRows ==
  /\ h = "rows"
  /\ Commit(Indexed(hf, hx), mtime) /\ lost' = lost \ {hf} /\ UNCHANGED faults
  /\ Goto("embed")
  /\ UNCHANGED <<fileVars, chunks, bgVars>>

RefreshRows ==
  /\ h = "rows"
  /\ IndexFile(hf, hx)
  /\ Goto("embed")
  /\ UNCHANGED <<fileVars, chunks, bgVars>>

\* The tool raises; the embedding is not refreshed.
RefreshRowsFails ==
  /\ h = "rows"
  /\ IndexFileFails(hf, hx)
  /\ Answer
  /\ UNCHANGED <<fileVars, chunks, bgVars>>

\* The embedding is refreshed, or raises, which is logged; then the answer.
RefreshChunks ==
  /\ h = "embed"
  /\ chunks' \in {Embedded(hf, hx)} \cup EmbeddedInPart(hf, hx)
  /\ Answer
  /\ UNCHANGED <<fileVars, searchVars, faultVars, bgVars>>

-------------------------------------------------------------------------------
(* knowledge_delete. *)

Unlink(f) ==
  /\ Listening /\ h = "idle" /\ Present(f)
  /\ SetFile(f, None)
  /\ h' = "unrow" /\ hf' = f /\ UNCHANGED <<hx, silent, hfp>>
  /\ UNCHANGED <<dbVars, bgVars>>

RemoveRows ==
  /\ h = "unrow"
  /\ IndexFile(hf, None)
  /\ Goto("unembed")
  /\ UNCHANGED <<fileVars, chunks, bgVars>>

RemoveRowsFails ==
  /\ h = "unrow"
  /\ IndexFileFails(hf, None)
  /\ Answer
  /\ UNCHANGED <<fileVars, chunks, bgVars>>

\* delete_file drops the chunks in one transaction, or raises, which is logged.
RemoveChunks ==
  /\ h = "unembed"
  /\ chunks' \in {Embedded(hf, None), chunks}
  /\ Answer
  /\ UNCHANGED <<fileVars, searchVars, faultVars, bgVars>>

-------------------------------------------------------------------------------
(* knowledge_undo. *)

\* One git revert puts a file back to an earlier text or removes it; git refuses
\* for a file left empty, which was never committed so.  (git unlinks and
\* rewrites a file it changes: two reverts in a row.)
UndoRevert(f, x) ==
  /\ Listening /\ h \in {"idle", "revert"}
  /\ x # text[f] /\ text[f] # Torn
  /\ SetFile(f, x)
  /\ Goto("revert")
  /\ UNCHANGED <<dbVars, bgVars>>

\* A later revert fails: "Partial revert.", and no index is rebuilt.
UndoStops ==
  /\ h = "revert"
  /\ Answer
  /\ UNCHANGED <<fileVars, dbVars, bgVars>>

\* Mutant: any stored fingerprint will do.
MutantUndoSkips ==
  /\ h = "revert" /\ fp # None
  /\ Answer
  /\ UNCHANGED <<fileVars, dbVars, bgVars>>

\* A vault's fingerprint with the files left out whose times cannot be asked for.
TimesOf(fs) == [f \in Files |-> IF f \in fs THEN mtime[f] ELSE 0]

\* Some of the files fail to give their times, or their texts; mostly none does.
Unreadable(fs) == (fs = {} /\ UNCHANGED faults) \/ (fs # {} /\ Fault)

\* All reverted: search_index.build finds the fingerprint it has stored ...
UndoSkips ==
  /\ h = "revert"
  /\ \E bad \in SUBSET {f \in Files : Present(f)} :
       /\ Unreadable(bad)
       /\ fp = TimesOf(Files \ bad)
       /\ lost' = lost \cup bad
  /\ Answer
  /\ UNCHANGED <<fileVars, searchVars, chunks, bgVars>>

\* ... or scans the vault, where nobody else writes meanwhile ...
UndoScans ==
  /\ h = "revert"
  /\ \E bad \in SUBSET {f \in Files : Present(f)} :
       /\ Unreadable(bad)
       /\ hfp' = TimesOf(Files \ bad)
       /\ fp # hfp'
  /\ h' = "install" /\ UNCHANGED <<hf, hx, silent>>
  /\ UNCHANGED <<fileVars, searchVars, chunks, lost, bgVars>>

\* ... skips the files it cannot read, and replaces all rows and the fingerprint
\* in one transaction.
UndoInstalls ==
  /\ h = "install"
  /\ \E bad \in SUBSET {f \in Files : Present(f)} :
       /\ Unreadable(bad)
       /\ IndexAll(RowsOf(text, Files \ bad), hfp, bad)
  /\ Answer
  /\ UNCHANGED <<fileVars, chunks, bgVars>>

UndoFails ==
  /\ h = "install"
  /\ IndexAllFails(text, hfp)
  /\ Answer
  /\ UNCHANGED <<fileVars, chunks, bgVars>>

-------------------------------------------------------------------------------
(* The start of the worker: EmbeddingService.bootstrap before it listens,     *)
(* then SearchIndex.build in a thread.                                        *)

BootFile(f) ==
  /\ bg = "boot" /\ f \in left
  /\ chunks' = IF Present(f) THEN Embedded(f, text[f]) ELSE chunks
  /\ left' = left \ {f}
  /\ UNCHANGED <<fileVars, searchVars, faultVars, toolVars, bg, bgfp, bgrows, missed>>

\* A file that cannot be read keeps the chunks it has, and is passed over.
BootPasses(f) ==
  /\ bg = "boot" /\ f \in left /\ Present(f)
  /\ Fault
  /\ left' = left \ {f} /\ missed' = missed \cup {f}
  /\ UNCHANGED <<fileVars, searchVars, chunks, lost, toolVars, bg, bgfp, bgrows>>

\* The embedder raises: the rest of the bootstrap is skipped.
BootFails ==
  /\ bg = "boot"
  /\ \E f \in left : Present(f) /\ chunks' \in EmbeddedInPart(f, text[f])
  /\ bg' = "stat" /\ left' = Files /\ missed' = {}
  /\ UNCHANGED <<fileVars, searchVars, faultVars, toolVars, bgfp, bgrows>>

BootDone ==
  /\ bg = "boot" /\ left = {}
  /\ bg' = "stat" /\ left' = Files /\ missed' = {}
  /\ UNCHANGED <<fileVars, dbVars, toolVars, bgfp, bgrows>>

\* _knowledge_fingerprint asks for the times one file after the other.
BuildStat(f) ==
  /\ bg = "stat" /\ f \in left
  /\ bgfp' = [bgfp EXCEPT ![f] = mtime[f]]
  /\ left' = left \ {f}
  /\ UNCHANGED <<fileVars, dbVars, toolVars, bg, bgrows, missed>>

\* A file that does not give its time is left out of the fingerprint.
BuildStatFails(f) ==
  /\ bg = "stat" /\ f \in left /\ Present(f)
  /\ Fault
  /\ left' = left \ {f}
  /\ UNCHANGED <<fileVars, searchVars, chunks, lost, toolVars, bg, bgfp, bgrows, missed>>

BuildSkips ==
  /\ bg = "stat" /\ left = {} /\ fp = bgfp
  /\ bg' = "done"
  /\ UNCHANGED <<fileVars, dbVars, toolVars, bgfp, bgrows, left, missed>>

BuildScans ==
  /\ bg = "stat" /\ left = {} /\ fp # bgfp
  /\ bg' = "scan" /\ left' = Files /\ bgrows' = Nothing
  /\ UNCHANGED <<fileVars, dbVars, toolVars, bgfp, missed>>

\* A file is read; one that is gone by now has no rows.
BuildReads(f) ==
  /\ bg = "scan" /\ f \in left
  /\ bgrows' = [bgrows EXCEPT ![f] = text[f]]
  /\ left' = left \ {f}
  /\ UNCHANGED <<fileVars, dbVars, toolVars, bg, bgfp, missed>>

\* A file that cannot be read has no rows either, and is in the fingerprint.
BuildPasses(f) ==
  /\ bg = "scan" /\ f \in left /\ Present(f)
  /\ Fault
  /\ left' = left \ {f} /\ missed' = missed \cup {f}
  /\ UNCHANGED <<fileVars, searchVars, chunks, lost, toolVars, bg, bgfp, bgrows>>

\* Mutant: the fingerprint is computed when the rows are stored.
MutantBuildInstalls ==
  /\ bg = "scan" /\ left = {}
  /\ IndexAll(bgrows, mtime, missed) /\ UNCHANGED faults
  /\ bg' = "done"
  /\ UNCHANGED <<fileVars, chunks, toolVars, bgfp, bgrows, left, missed>>

\* Every row is replaced, and the fingerprint, in one transaction.
BuildInstalls ==
  /\ bg = "scan" /\ left = {}
  /\ IndexAll(bgrows, bgfp, missed) /\ UNCHANGED faults
  /\ bg' = "done"
  /\ UNCHANGED <<fileVars, chunks, toolVars, bgfp, bgrows, left, missed>>

\* A directory cannot be listed, or a statement fails: the worker logs it and
\* goes on without the build.
BuildFails ==
  /\ \/ bg \in {"stat", "scan"} /\ UNCHANGED dbVars
     \/ bg = "scan" /\ left = {} /\ IndexAllFails(bgrows, bgfp) /\ UNCHANGED chunks
  /\ bg' = "failed"
  /\ UNCHANGED <<fileVars, toolVars, bgfp, bgrows, left, missed>>

\* The pool kills the worker, in the middle of a refresh of chunks perhaps, and
\* a new one starts; what was not committed is gone.
Restart ==
  /\ \/ chunks' = chunks
     \/ h = "embed" /\ chunks' \in EmbeddedInPart(hf, hx)
     \/ bg = "boot" /\ \E f \in left : Present(f) /\ chunks' \in EmbeddedInPart(f, text[f])
  /\ Answer
  /\ rows' = drows /\ fp' = dfp
  /\ bg' = "boot" /\ left' = Files /\ missed' = {} /\ bgfp' = NoTimes /\ bgrows' = Nothing
  /\ UNCHANGED <<fileVars, drows, dfp, faultVars>>

-------------------------------------------------------------------------------

Tool ==
  \/ \E f \in Files, x \in Texts : UpdateFile(f, x) \/ WriteSilently(f, x)
  \/ WriteText \/ WriteFails \/ RefreshRows \/ RefreshRowsFails \/ RefreshChunks
  \/ \E f \in Files : Unlink(f)
  \/ RemoveRows \/ RemoveRowsFails \/ RemoveChunks
  \/ \E f \in Files, x \in Texts \cup {None} : UndoRevert(f, x)
  \/ UndoStops \/ UndoSkips \/ UndoScans \/ UndoInstalls \/ UndoFails

Start ==
  \/ \E f \in Files : \/ BootFile(f) \/ BootPasses(f)
                     \/ BuildStat(f) \/ BuildStatFails(f)
                     \/ BuildReads(f) \/ BuildPasses(f)
  \/ BootFails \/ BootDone
  \/ BuildSkips \/ BuildScans \/ BuildInstalls \/ BuildFails

Next == Tool \/ Start \/ Restart

Spec == Init /\ [][Next]_vars

-------------------------------------------------------------------------------
(* Properties. *)

\* The rows of every file that is there, and is in fs, are those of its text now.
Current(fs) == \A f \in fs : Present(f) => rows[f] = text[f]

\* When the stored fingerprint is that of the vault, the next build is skipped,
\* so the rows of every file there is had better be current: however builds,
\* tool calls, half-done undos, rollbacks and kills came before.  The files a
\* failed read or statement has cost their rows are all it may hide.
FingerprintMeansCurrent == fp = mtime => Current(Files \ lost)

\* The files that are as the build in the thread saw them at its beginning.
Unchanged == {f \in Files : bgfp[f] = mtime[f]}

\* A build that ends, by skipping or by replacing the rows, leaves the rows
\* current of every file that is still as it was when the build began, but for
\* those a failed read or statement has cost their rows.
BuildEndsCurrent == [][BuildSkips \/ BuildInstalls => Current(Unchanged \ lost)']_vars

\* An undo that answers with success has left the rows current of every file,
\* but for those a failed read or statement has cost their rows, also when the
\* thread replaced the rows while it ran.
UndoEndsCurrent == [][UndoSkips \/ UndoInstalls => Current(Files \ lost)']_vars

\* A worker whose bootstrap went through starts with the chunks of every file it
\* could read exact, whatever refreshes were cut short before.
BootEndsEmbedded ==
  [][BootDone => \A f \in Files \ missed : Present(f) => chunks[f] = ChunksOf(text[f])]_vars

\* When knowledge_update answers, a search finds what it has written.
UpdateIsSearchable == [][RefreshChunks => rows[hf] = text[hf]]_vars
===============================================================================
