-------------------------- MODULE KnowledgeIndex_proofs --------------------------
(***************************************************************************)
(* Proofs about KnowledgeIndex, for any files, any texts and any bound on    *)
(* the changes: what a matching fingerprint promises, and what the builds,   *)
(* an undo and the bootstrap leave behind.                                   *)
(*                                                                           *)
(* The key is to hold the promise of the fingerprint file by file.  A file   *)
(* that has the time a fingerprint holds has not changed since its time was  *)
(* taken, which was before it was read, so what was read is what it holds.   *)
(***************************************************************************)
EXTENDS KnowledgeIndex, TLAPS

-------------------------------------------------------------------------------
(* The inductive invariant. *)

\* A file that is there has a time, and no time is in the future.
Clocked ==
  /\ \A f \in Files : mtime[f] <= clock /\ (Present(f) <=> mtime[f] # 0)
  /\ \A f \in Files : bgfp[f] <= clock /\ hfp[f] <= clock
  /\ fp # None => \A f \in Files : fp[f] <= clock
  /\ dfp # None => \A f \in Files : dfp[f] <= clock

\* What the fingerprint p says of the files fs is true of the rows r.
Truthful(p, r, fs) ==
  p # None => \A f \in fs : Present(f) /\ p[f] = mtime[f] => r[f] = text[f]

\* The fingerprint and the rows of search.db, those its connection sees and those
\* it falls back on, are truthful of all files that lost no rows.
StoredRows ==
  /\ Truthful(fp, rows, Files \ lost)
  /\ Truthful(dfp, drows, Files \ lost)

\* So are those in the hands of the thread, of the files it has read.
ScannedRows == bg = "scan" => Truthful(bgfp, bgrows, Files \ (left \cup missed))

\* The tool call in progress knows the file as it is.
ToolHolds ==
  /\ h = "write" => hf \in Files /\ hx \in Texts
  /\ h \in {"rows", "embed"} => hf \in Files /\ hx \in Texts /\ text[hf] = hx
  /\ h \in {"unrow", "unembed"} => hf \in Files /\ ~Present(hf)

\* The bootstrap has dealt with the files that are not left.
BootChunks ==
  bg = "boot" =>
    /\ h = "idle"
    /\ \A f \in Files \ (left \cup missed) : Present(f) => chunks[f] = ChunksOf(text[f])

IInv ==
  /\ TypeOK /\ Clocked /\ StoredRows /\ ScannedRows /\ ToolHolds /\ BootChunks

-------------------------------------------------------------------------------
(* Steps. *)

\* An answer leaves no tool call in progress.
LEMMA AnswerTypes ==
  ASSUME Answer
  PROVE  h' = "idle" /\ hf' = None /\ hx' = None /\ silent' \in BOOLEAN /\ hfp' = NoTimes
  BY DEF Answer

\* What a step does to the files, the rows and the fingerprint.
FilesStay == UNCHANGED <<text, mtime, clock>>
SearchStays == UNCHANGED <<rows, fp, drows, dfp>> /\ lost \subseteq lost'
FileChanges ==
  /\ \E f \in Files, x \in Contents : SetFile(f, x)
  /\ SearchStays /\ UNCHANGED <<bg, bgfp, bgrows, left, missed>>
OneFileIndexed ==
  /\ hf \in Files
  /\ \E x \in Contents : \/ IndexFile(hf, x) /\ (Present(hf) => x = text[hf])
                        \/ IndexFileFails(hf, x)
AllIndexed ==
  \E skipped \in SUBSET Files, r \in [Files -> Contents], p \in [Files -> Times] :
    \/ /\ IndexAll(r, p, skipped) /\ Truthful(p, r, Files \ skipped)
       /\ \A f \in Files : p[f] <= clock
    \/ IndexAllFails(r, p) /\ \A f \in Files : p[f] <= clock
RolledBack == rows' = drows /\ fp' = dfp /\ UNCHANGED <<drows, dfp, lost>>

LEMMA StepKinds ==
  ASSUME TypeOK, Clocked, ScannedRows, ToolHolds, [Next]_vars
  PROVE  \/ FileChanges
         \/ /\ FilesStay
            /\ SearchStays \/ OneFileIndexed \/ AllIndexed \/ RolledBack
<1> DEFINE Stay == FilesStay /\ SearchStays
<1>1. CASE UNCHANGED vars
  BY <1>1 DEF vars, FilesStay, SearchStays
<1>2. CASE \E f \in Files, x \in Texts, s \in BOOLEAN : WriteOpen(f, x, s)
  BY <1>2 DEF WriteOpen, FileChanges, SearchStays, dbVars, searchVars, faultVars, bgVars, Contents
<1>3. CASE WriteText
  BY <1>3 DEF WriteText, ToolHolds, FileChanges, SearchStays, dbVars, searchVars, faultVars, bgVars,
     Contents
<1>4. CASE \E f \in Files : Unlink(f)
  BY <1>4 DEF Unlink, FileChanges, SearchStays, dbVars, searchVars, faultVars, bgVars, Contents
<1>5. CASE \E f \in Files, x \in Texts \cup {None} : UndoRevert(f, x)
  BY <1>5 DEF UndoRevert, FileChanges, SearchStays, dbVars, searchVars, faultVars, bgVars, Contents
<1>6. CASE WriteFails \/ RefreshChunks \/ RemoveChunks \/ UndoStops \/ UndoSkips \/ UndoScans
  BY <1>6 DEF WriteFails, RefreshChunks, RemoveChunks, UndoStops, UndoSkips, UndoScans,
     FilesStay, SearchStays, fileVars, dbVars, searchVars, faultVars
<1>7. ASSUME NEW f \in Files,
             \/ BootFile(f) \/ BootPasses(f) \/ BuildStat(f) \/ BuildStatFails(f)
             \/ BuildReads(f) \/ BuildPasses(f)
      PROVE  Stay
  BY <1>7 DEF BootFile, BootPasses, BuildStat, BuildStatFails, BuildReads, BuildPasses, Stay,
     FilesStay, SearchStays, fileVars, dbVars, searchVars, faultVars
<1>8. CASE BootFails \/ BootDone \/ BuildSkips \/ BuildScans
  BY <1>8 DEF BootFails, BootDone, BuildSkips, BuildScans, FilesStay, SearchStays, fileVars, dbVars,
     searchVars, faultVars
<1>9. CASE RefreshRows \/ RefreshRowsFails \/ RemoveRows \/ RemoveRowsFails
  BY <1>9 DEF RefreshRows, RefreshRowsFails, RemoveRows, RemoveRowsFails, ToolHolds, FilesStay,
     OneFileIndexed, Contents, fileVars
<1>10. CASE UndoInstalls
  <2>1. PICK bad \in SUBSET Files : IndexAll(RowsOf(text, Files \ bad), hfp, bad)
    BY <1>10 DEF UndoInstalls
  <2>2. RowsOf(text, Files \ bad) \in [Files -> Contents]
    BY DEF TypeOK, RowsOf, Contents
  <2>3. Truthful(hfp, RowsOf(text, Files \ bad), Files \ bad)
    BY DEF Truthful, RowsOf
  <2>4. AllIndexed
    BY <2>1, <2>2, <2>3 DEF AllIndexed, TypeOK, Clocked
  <2>5. QED
    BY <1>10, <2>4 DEF UndoInstalls, FilesStay, fileVars
<1>11. CASE UndoFails
  BY <1>11 DEF UndoFails, AllIndexed, TypeOK, Clocked, FilesStay, fileVars
<1>12. CASE BuildInstalls
  <2>1. Truthful(bgfp, bgrows, Files \ missed)
    BY <1>12 DEF BuildInstalls, ScannedRows
  <2>2. AllIndexed
    BY <1>12, <2>1 DEF BuildInstalls, AllIndexed, TypeOK, Clocked
  <2>3. QED
    BY <1>12, <2>2 DEF BuildInstalls, FilesStay, fileVars
<1>13. CASE BuildFails
  BY <1>13 DEF BuildFails, AllIndexed, TypeOK, Clocked, FilesStay, SearchStays, fileVars, dbVars,
     searchVars, faultVars
<1>14. CASE Restart
  BY <1>14 DEF Restart, RolledBack, FilesStay, fileVars, faultVars
<1>15. QED
  BY <1>1, <1>2, <1>3, <1>4, <1>5, <1>6, <1>7, <1>8, <1>9, <1>10, <1>11, <1>12, <1>13, <1>14
     DEF Next, Tool, Start, UpdateFile, WriteSilently

-------------------------------------------------------------------------------
(* The conjuncts of the invariant, one lemma each. *)

\* search.db keeps its types whatever is committed, broken off or rolled back.
SearchTyped ==
  /\ rows \in [Files -> Contents] /\ fp \in [Files -> Times] \cup {None}
  /\ drows \in [Files -> Contents] /\ dfp \in [Files -> Times] \cup {None}
  /\ faults \in 0..MaxFaults /\ lost \subseteq Files

LEMMA BreakTypes ==
  ASSUME TypeOK,
         NEW states \in SUBSET ([Files -> Contents] \X ([Files -> Times] \cup {None})),
         NEW fs \in SUBSET Files, Break(states, fs)
  PROVE  SearchTyped'
<1>1. faults' \in 0..MaxFaults
  BY BoundsAssumption DEF TypeOK, Break, Fault
<1>2. PICK s \in states \cup {<<drows, dfp>>} : rows' = s[1] /\ fp' = s[2]
  BY DEF Break
<1>3. s \in [Files -> Contents] \X ([Files -> Times] \cup {None})
  BY DEF TypeOK
<1>4. QED
  BY <1>1, <1>2, <1>3 DEF TypeOK, SearchTyped, Break

LEMMA FileTypes ==
  ASSUME TypeOK, NEW f \in Files, NEW x \in Contents, IndexFile(f, x) \/ IndexFileFails(f, x)
  PROVE  SearchTyped'
<1>1. Indexed(f, None) \in [Files -> Contents] /\ Indexed(f, x) \in [Files -> Contents]
  BY DEF TypeOK, Indexed, Contents
<1>2. {rows, Indexed(f, None), Indexed(f, x)} \X {fp}
        \in SUBSET ([Files -> Contents] \X ([Files -> Times] \cup {None}))
  BY <1>1 DEF TypeOK
<1>3. CASE IndexFile(f, x)
  BY <1>1, <1>3 DEF TypeOK, SearchTyped, IndexFile, Commit
<1>4. CASE IndexFileFails(f, x)
  BY <1>2, <1>4, BreakTypes DEF IndexFileFails
<1>5. QED
  BY <1>3, <1>4

LEMMA AllTypes ==
  ASSUME TypeOK, NEW r \in [Files -> Contents], NEW p \in [Files -> Times], IndexAllFails(r, p)
  PROVE  SearchTyped'
<1>1. \A fs \in SUBSET Files : RowsOf(r, fs) \in [Files -> Contents]
  BY DEF RowsOf, Contents
<1>2. {<<rows, fp>>, <<r, p>>} \cup {<<RowsOf(r, fs), fp>> : fs \in SUBSET Files}
        \in SUBSET ([Files -> Contents] \X ([Files -> Times] \cup {None}))
  BY <1>1 DEF TypeOK
<1>3. Files \in SUBSET Files
  OBVIOUS
<1>4. QED
  BY <1>2, <1>3, BreakTypes DEF IndexAllFails

LEMMA TypeStep ==
  ASSUME TypeOK, ToolHolds, [Next]_vars
  PROVE  TypeOK'
<1> USE BoundsAssumption DEF Contents, Times
<1>0. ASSUME NEW f \in Files, NEW x \in Contents, SetFile(f, x)
      PROVE  /\ text' \in [Files -> Contents] /\ mtime' \in [Files -> Times]
             /\ clock' \in Times
  BY <1>0 DEF TypeOK, SetFile
<1>1. ASSUME NEW f \in Files, NEW x \in Contents
      PROVE  {Embedded(f, x)} \cup EmbeddedInPart(f, x) \subseteq [Files -> Texts \cup {Mixed, None}]
  BY DEF TypeOK, Embedded, EmbeddedInPart, ChunksOf
<1>2. Fault => faults' \in 0..MaxFaults
  BY DEF TypeOK, Fault
<1>3. CASE UNCHANGED vars
  BY <1>3 DEF TypeOK, vars
<1>4. ASSUME NEW f \in Files, NEW x \in Texts, NEW s \in BOOLEAN, WriteOpen(f, x, s)
      PROVE  TypeOK'
  BY <1>0, <1>4 DEF TypeOK, WriteOpen, dbVars, searchVars, faultVars, bgVars
<1>5. CASE WriteText
  BY <1>0, <1>5, AnswerTypes DEF TypeOK, ToolHolds, WriteText, Goto, NoTimes, dbVars, searchVars,
     faultVars, bgVars
<1>6. CASE WriteFails
  BY <1>6, AnswerTypes DEF TypeOK, WriteFails, NoTimes, fileVars, dbVars, searchVars, faultVars, bgVars
<1>7. CASE RefreshRows \/ RefreshRowsFails
  <2>1. hf \in Files /\ hx \in Contents
    BY <1>7 DEF ToolHolds, RefreshRows, RefreshRowsFails
  <2>2. IndexFile(hf, hx) \/ IndexFileFails(hf, hx)
    BY <1>7 DEF RefreshRows, RefreshRowsFails
  <2>3. SearchTyped'
    BY <2>1, <2>2, FileTypes
  <2>4. \/ h' = "embed" /\ UNCHANGED <<hf, hx, silent, hfp>>
        \/ h' = "idle" /\ hf' = None /\ hx' = None /\ silent' \in BOOLEAN /\ hfp' = NoTimes
    BY <1>7 DEF RefreshRows, RefreshRowsFails, Goto, Answer
  <2>5. UNCHANGED <<text, mtime, clock, chunks, bg, bgfp, bgrows, left, missed>>
    BY <1>7 DEF RefreshRows, RefreshRowsFails, fileVars, bgVars
  <2>6. QED
    BY <2>3, <2>4, <2>5 DEF TypeOK, SearchTyped, NoTimes
<1>8. CASE RefreshChunks
  <2>1. chunks' \in [Files -> Texts \cup {Mixed, None}]
    BY <1>1, <1>8 DEF TypeOK, ToolHolds, RefreshChunks
  <2>2. h' = "idle" /\ hf' = None /\ hx' = None /\ silent' \in BOOLEAN /\ hfp' = NoTimes
    BY <1>8, AnswerTypes DEF RefreshChunks
  <2>3. UNCHANGED <<text, mtime, clock, rows, fp, drows, dfp, faults, lost, bg, bgfp, bgrows, left, missed>>
    BY <1>8 DEF RefreshChunks, fileVars, searchVars, faultVars, bgVars
  <2>4. QED
    BY <2>1, <2>2, <2>3 DEF TypeOK, NoTimes
<1>9. ASSUME NEW f \in Files, Unlink(f) PROVE TypeOK'
  BY <1>0, <1>9 DEF TypeOK, Unlink, dbVars, searchVars, faultVars, bgVars
<1>10. CASE RemoveRows \/ RemoveRowsFails
  <2>1. hf \in Files /\ None \in Contents
    BY <1>10 DEF ToolHolds, RemoveRows, RemoveRowsFails
  <2>2. IndexFile(hf, None) \/ IndexFileFails(hf, None)
    BY <1>10 DEF RemoveRows, RemoveRowsFails
  <2>3. SearchTyped'
    BY <2>1, <2>2, FileTypes
  <2>4. QED
    BY <1>10, <2>3, AnswerTypes DEF TypeOK, SearchTyped, RemoveRows, RemoveRowsFails, Goto, NoTimes, fileVars, bgVars
<1>11. CASE RemoveChunks
  BY <1>1, <1>11, AnswerTypes DEF TypeOK, ToolHolds, RemoveChunks, NoTimes, fileVars, searchVars,
     faultVars, bgVars
<1>12. ASSUME NEW f \in Files, NEW x \in Texts \cup {None}, UndoRevert(f, x)
       PROVE  TypeOK'
  BY <1>0, <1>12 DEF TypeOK, UndoRevert, Goto, dbVars, searchVars, faultVars, bgVars
<1>13. CASE UndoStops
  BY <1>13, AnswerTypes DEF TypeOK, UndoStops, NoTimes, fileVars, dbVars, searchVars, faultVars, bgVars
<1>14. CASE UndoSkips
  <2>1. faults' \in 0..MaxFaults /\ lost' \subseteq Files
    BY <1>2, <1>14 DEF TypeOK, UndoSkips, Unreadable
  <2>2. QED
    BY <1>14, <2>1, AnswerTypes DEF TypeOK, UndoSkips, NoTimes, fileVars, searchVars, bgVars
<1>15. CASE UndoScans
  <2>1. faults' \in 0..MaxFaults /\ hfp' \in [Files -> Times]
    BY <1>2, <1>15 DEF TypeOK, UndoScans, Unreadable, TimesOf
  <2>2. QED
    BY <1>15, <2>1 DEF TypeOK, UndoScans, fileVars, searchVars, bgVars
<1>16. CASE UndoInstalls
  <2>1. PICK bad \in SUBSET Files :
          Unreadable(bad) /\ IndexAll(RowsOf(text, Files \ bad), hfp, bad)
    BY <1>16 DEF UndoInstalls
  <2>2. RowsOf(text, Files \ bad) \in [Files -> Contents]
    BY DEF TypeOK, RowsOf
  <2>3. SearchTyped'
    BY <1>2, <2>1, <2>2 DEF TypeOK, SearchTyped, Unreadable, IndexAll, Commit
  <2>4. QED
    BY <1>16, <2>3, AnswerTypes DEF TypeOK, SearchTyped, UndoInstalls, NoTimes, fileVars, bgVars
<1>17. CASE UndoFails
  <2>1. SearchTyped'
    BY <1>17, AllTypes DEF TypeOK, UndoFails
  <2>2. QED
    BY <1>17, <2>1, AnswerTypes DEF TypeOK, SearchTyped, UndoFails, NoTimes, fileVars, bgVars
<1>18. ASSUME NEW f \in Files, BootFile(f) \/ BootPasses(f) PROVE TypeOK'
  BY <1>1, <1>2, <1>18 DEF TypeOK, BootFile, BootPasses, fileVars, searchVars, faultVars, toolVars
<1>19. CASE BootFails
  BY <1>1, <1>19 DEF TypeOK, BootFails, fileVars, searchVars, faultVars, toolVars
<1>20. ASSUME NEW f \in Files,
              BuildStat(f) \/ BuildStatFails(f) \/ BuildReads(f) \/ BuildPasses(f)
       PROVE  TypeOK'
  BY <1>2, <1>20 DEF TypeOK, BuildStat, BuildStatFails, BuildReads, BuildPasses, fileVars, dbVars,
     searchVars, faultVars, toolVars
<1>21. CASE BootDone \/ BuildSkips \/ BuildScans
  BY <1>21 DEF TypeOK, BootDone, BuildSkips, BuildScans, Nothing, fileVars, dbVars, searchVars,
     faultVars, toolVars
<1>22. CASE BuildInstalls
  BY <1>22 DEF TypeOK, BuildInstalls, IndexAll, Commit, fileVars, toolVars
<1>23. CASE BuildFails
  <2>1. CASE UNCHANGED dbVars
    BY <1>23, <2>1 DEF TypeOK, BuildFails, fileVars, dbVars, searchVars, faultVars, toolVars
  <2>2. CASE IndexAllFails(bgrows, bgfp) /\ UNCHANGED chunks
    <3>1. SearchTyped'
      BY <2>2, AllTypes DEF TypeOK
    <3>2. QED
      BY <1>23, <2>2, <3>1 DEF TypeOK, SearchTyped, BuildFails, fileVars, toolVars
  <2>3. QED
    BY <1>23, <2>1, <2>2 DEF BuildFails
<1>24. CASE Restart
  <2>1. chunks' \in [Files -> Texts \cup {Mixed, None}]
    BY <1>1, <1>24 DEF TypeOK, ToolHolds, Restart
  <2>2. QED
    BY <2>1, <1>24, AnswerTypes DEF TypeOK, Restart, NoTimes, Nothing, fileVars, faultVars
<1>25. QED
  BY <1>3, <1>4, <1>5, <1>6, <1>7, <1>8, <1>9, <1>10, <1>11, <1>12, <1>13, <1>14, <1>15, <1>16,
     <1>17, <1>18, <1>19, <1>20, <1>21, <1>22, <1>23, <1>24
     DEF Next, Tool, Start, UpdateFile, WriteSilently

\* A changed file gets a time no fingerprint holds.
LEMMA ClockedStep ==
  ASSUME TypeOK, TypeOK', Clocked, ScannedRows, ToolHolds, [Next]_vars
  PROVE  Clocked'
<1> USE BoundsAssumption DEF Contents, Times
<1>1. /\ \A f \in Files : mtime'[f] <= clock' /\ (Present(f)' <=> mtime'[f] # 0)
      /\ clock' \in Nat /\ clock' >= clock
  <2>1. CASE FilesStay
    BY <2>1 DEF TypeOK, Clocked, Present, FilesStay
  <2>2. ASSUME NEW f \in Files, NEW x \in Contents, SetFile(f, x)
        PROVE  <1>1!:
    BY <2>2, ContentsDistinct DEF TypeOK, Clocked, Present, SetFile
  <2>3. QED
    BY <2>1, <2>2, StepKinds DEF FileChanges
<1>2. \A f \in Files : bgfp'[f] <= clock'
  <2>1. CASE UNCHANGED bgfp
    BY <1>1, <2>1 DEF TypeOK, Clocked
  <2>2. ASSUME NEW f \in Files, BuildStat(f) PROVE <1>2!:
    BY <1>1, <2>2 DEF TypeOK, Clocked, BuildStat, fileVars
  <2>3. CASE bgfp' = NoTimes
    BY <1>1, <2>3 DEF NoTimes
  <2>4. QED
    BY <2>1, <2>2, <2>3 DEF Next, Tool, Start, vars, bgVars, UpdateFile, WriteSilently, WriteOpen, WriteText, WriteFails,
       RefreshRows, RefreshRowsFails, RefreshChunks, Unlink, RemoveRows, RemoveRowsFails, RemoveChunks, UndoRevert, UndoStops,
       UndoSkips, UndoScans, UndoInstalls, UndoFails, BootFile, BootPasses, BootFails, BootDone, BuildStatFails, BuildSkips, BuildScans,
       BuildReads, BuildPasses, BuildInstalls, BuildFails, Restart
<1>3. \A f \in Files : hfp'[f] <= clock'
  <2>1. CASE UNCHANGED hfp
    BY <1>1, <2>1 DEF TypeOK, Clocked
  <2>2. CASE UndoScans
    BY <1>1, <2>2 DEF TypeOK, Clocked, UndoScans, TimesOf, fileVars
  <2>3. CASE hfp' = NoTimes
    BY <1>1, <2>3 DEF NoTimes
  <2>4. CASE Tool /\ ~UndoScans
    BY <2>1, <2>3, <2>4 DEF Tool, UpdateFile, WriteSilently, WriteOpen, WriteText, WriteFails,
       RefreshRows, RefreshRowsFails, RefreshChunks, Unlink, RemoveRows, RemoveRowsFails, RemoveChunks, UndoRevert, UndoStops,
       UndoSkips, UndoInstalls, UndoFails, Answer, Goto
  <2>5. CASE ~Tool
    BY <2>1, <2>3, <2>5 DEF Next, Start, vars, toolVars, BootFile, BootPasses, BootFails, BootDone, BuildStat, BuildStatFails, BuildSkips, BuildScans,
       BuildReads, BuildPasses, BuildInstalls, BuildFails, Restart, Answer
  <2>6. QED
    BY <2>2, <2>4, <2>5
<1>4. /\ fp' # None => \A f \in Files : fp'[f] <= clock'
      /\ dfp' # None => \A f \in Files : dfp'[f] <= clock'
  <2>1. CASE SearchStays \/ RolledBack
    BY <1>1, <2>1 DEF TypeOK, Clocked, SearchStays, RolledBack
  <2>2. CASE OneFileIndexed
    <3>1. fp' \in {fp, dfp} /\ dfp' \in {fp, dfp}
      <4>1. ASSUME NEW x \in Contents, IndexFileFails(hf, x) PROVE fp' \in {fp, dfp} /\ dfp' = dfp
        BY <4>1 DEF IndexFileFails, Break
      <4>2. ASSUME NEW x \in Contents, IndexFile(hf, x) PROVE fp' = fp /\ dfp' = fp
        BY <4>2 DEF IndexFile, Commit
      <4>3. QED
        BY <2>2, <4>1, <4>2 DEF OneFileIndexed
    <3>2. QED
      BY <1>1, <3>1 DEF TypeOK, Clocked
  <2>3. CASE AllIndexed
    <3>1. PICK p \in [Files -> Times] :
            /\ \A f \in Files : p[f] <= clock
            /\ fp' \in {p, fp, dfp} /\ dfp' \in {p, dfp}
      BY <2>3 DEF AllIndexed, IndexAll, IndexAllFails, Commit, Break
    <3>2. QED
      BY <1>1, <3>1 DEF TypeOK, Clocked
  <2>4. QED
    BY <2>1, <2>2, <2>3, StepKinds DEF FileChanges
<1>5. QED
  BY <1>1, <1>2, <1>3, <1>4 DEF Clocked

\* A change of a file spoils no truth: its new time is in no fingerprint.
LEMMA TruthLasts ==
  ASSUME TypeOK, NEW f \in Files, NEW x \in Contents, SetFile(f, x), NEW fs \in SUBSET Files,
         NEW p \in [Files -> Times] \cup {None}, NEW r,
         p # None => \A g \in Files : p[g] <= clock,
         Truthful(p, r, fs)
  PROVE  p # None => \A g \in fs : Present(g)' /\ p[g] = mtime'[g] => r[g] = text'[g]
<1>1. SUFFICES ASSUME p # None, NEW g \in fs, text'[g] # None, p[g] = mtime'[g]
               PROVE  r[g] = text'[g]
  BY DEF Present
<1>2. CASE g = f
  BY <1>1, <1>2, BoundsAssumption, NoneIsNoFingerprint DEF TypeOK, SetFile, Times
<1>3. CASE g # f
  BY <1>1, <1>3 DEF TypeOK, SetFile, Truthful, Present
<1>4. QED
  BY <1>2, <1>3

LEMMA StoredRowsStep ==
  ASSUME TypeOK, Clocked, StoredRows, ScannedRows, ToolHolds, [Next]_vars
  PROVE  StoredRows'
<1>1. CASE FilesStay /\ SearchStays
  BY <1>1 DEF StoredRows, Truthful, Present, FilesStay, SearchStays
<1>2. CASE FileChanges
  <2>1. PICK f \in Files, x \in Contents : SetFile(f, x)
    BY <1>2 DEF FileChanges
  <2>2. /\ fp # None
             => \A g \in Files \ lost : Present(g)' /\ fp[g] = mtime'[g] => rows[g] = text'[g]
        /\ dfp # None
             => \A g \in Files \ lost : Present(g)' /\ dfp[g] = mtime'[g] => drows[g] = text'[g]
    BY <2>1, TruthLasts DEF TypeOK, Clocked, StoredRows
  <2>3. QED
    BY <1>2, <2>2 DEF StoredRows, Truthful, FileChanges, SearchStays
<1>3. CASE FilesStay /\ OneFileIndexed
  <2>1. CASE \E x \in Contents : IndexFile(hf, x) /\ (Present(hf) => x = text[hf])
    BY <1>3, <2>1 DEF TypeOK, StoredRows, Truthful, IndexFile, Commit, Indexed, Present, FilesStay
  <2>2. ASSUME NEW x \in Contents, IndexFileFails(hf, x) PROVE StoredRows'
    <3>1. PICK s \in ({rows, Indexed(hf, None), Indexed(hf, x)} \X {fp}) \cup {<<drows, dfp>>} :
            rows' = s[1] /\ fp' = s[2]
      BY <2>2 DEF IndexFileFails, Break
    <3>2. lost' = lost \cup {hf} /\ UNCHANGED <<drows, dfp>>
      BY <2>2 DEF IndexFileFails, Break
    <3>3. \/ fp' = fp /\ \A f \in Files \ {hf} : rows'[f] = rows[f]
          \/ fp' = dfp /\ rows' = drows
      BY <3>1 DEF Indexed, TypeOK
    <3>4. QED
      BY <1>3, <3>2, <3>3 DEF StoredRows, Truthful, Present, FilesStay
  <2>3. QED
    BY <1>3, <2>1, <2>2 DEF OneFileIndexed
<1>4. CASE FilesStay /\ AllIndexed
  <2>1. CASE lost' = Files
    BY <2>1 DEF StoredRows, Truthful
  <2>2. PICK skipped \in SUBSET Files, r \in [Files -> Contents], p \in [Files -> Times] :
          \/ IndexAll(r, p, skipped) /\ Truthful(p, r, Files \ skipped)
          \/ IndexAllFails(r, p)
    BY <1>4 DEF AllIndexed
  <2>3. CASE IndexAll(r, p, skipped) /\ Truthful(p, r, Files \ skipped)
    BY <1>4, <2>3 DEF StoredRows, Truthful, IndexAll, Commit, Present, FilesStay
  <2>4. CASE IndexAllFails(r, p)
    BY <2>1, <2>4 DEF TypeOK, IndexAllFails, Break
  <2>5. QED
    BY <2>2, <2>3, <2>4
<1>5. CASE FilesStay /\ RolledBack
  BY <1>5 DEF StoredRows, Truthful, Present, FilesStay, RolledBack
<1>6. QED
  BY <1>1, <1>2, <1>3, <1>4, <1>5, StepKinds

LEMMA ScannedRowsStep ==
  ASSUME TypeOK, Clocked, ScannedRows, ToolHolds, [Next]_vars
  PROVE  ScannedRows'
<1>1. CASE FilesStay /\ UNCHANGED <<bg, bgfp, bgrows, left, missed>>
  BY <1>1 DEF ScannedRows, Truthful, Present, FilesStay
<1>2. CASE FileChanges
  <2>1. PICK f \in Files, x \in Contents : SetFile(f, x)
    BY <1>2 DEF FileChanges
  <2>2. bg = "scan" => Truthful(bgfp, bgrows, Files \ (left \cup missed))
    BY DEF ScannedRows
  <2>3. bg = "scan" => (bgfp # None => \A g \in Files \ (left \cup missed) :
          Present(g)' /\ bgfp[g] = mtime'[g] => bgrows[g] = text'[g])
    BY <2>1, <2>2, TruthLasts DEF TypeOK, Clocked
  <2>4. QED
    BY <1>2, <2>3 DEF ScannedRows, Truthful, FileChanges
<1>3. ASSUME NEW f \in Files, BuildReads(f) \/ BuildPasses(f) PROVE ScannedRows'
  BY <1>3 DEF TypeOK, ScannedRows, Truthful, BuildReads, BuildPasses, Present, fileVars
<1>4. CASE BuildScans
  BY <1>4 DEF ScannedRows, Truthful, BuildScans
<1>5. CASE bg' # "scan"
  BY <1>5 DEF ScannedRows
<1>6. ASSUME NEW f \in Files, BootFile(f) \/ BootPasses(f) \/ BuildStat(f) \/ BuildStatFails(f)
      PROVE  bg' # "scan"
  BY <1>6 DEF BootFile, BootPasses, BuildStat, BuildStatFails
<1>7. CASE BootFails \/ BootDone \/ BuildSkips \/ BuildFails \/ BuildInstalls \/ Restart
  BY <1>5, <1>7 DEF BootFails, BootDone, BuildSkips, BuildFails, BuildInstalls, Restart
<1>8. CASE Tool \/ UNCHANGED vars
  <2>1. UNCHANGED <<bg, bgfp, bgrows, left, missed>>
    BY <1>8 DEF Tool, vars, bgVars, UpdateFile, WriteSilently, WriteOpen, WriteText,
     WriteFails, RefreshRows, RefreshRowsFails, RefreshChunks, Unlink, RemoveRows, RemoveRowsFails,
     RemoveChunks, UndoRevert, UndoStops, UndoSkips, UndoScans, UndoInstalls, UndoFails
  <2>2. QED
    BY <1>1, <1>2, <2>1, StepKinds
<1>9. QED
  BY <1>3, <1>4, <1>5, <1>6, <1>7, <1>8 DEF Next, Start

LEMMA ToolHoldsStep ==
  ASSUME TypeOK, ToolHolds, [Next]_vars
  PROVE  ToolHolds'
<1>1. CASE h' = "idle"
  BY <1>1 DEF ToolHolds
<1>2. CASE UNCHANGED <<text, h, hf, hx>>
  BY <1>2 DEF ToolHolds, Present
<1>3. CASE h' \in {"revert", "install"}
  BY <1>3 DEF ToolHolds
<1>4. ASSUME NEW f \in Files, NEW x \in Texts, NEW s \in BOOLEAN, WriteOpen(f, x, s)
      PROVE  ToolHolds'
  BY <1>4 DEF ToolHolds, WriteOpen
<1>5. CASE WriteText
  BY <1>1, <1>5, AnswerTypes DEF TypeOK, ToolHolds, WriteText, SetFile, Goto
<1>6. CASE RefreshRows
  BY <1>6 DEF ToolHolds, RefreshRows, Goto, fileVars
<1>7. ASSUME NEW f \in Files, Unlink(f) PROVE ToolHolds'
  BY <1>7 DEF TypeOK, ToolHolds, Unlink, SetFile, Present
<1>8. CASE RemoveRows
  BY <1>8 DEF ToolHolds, RemoveRows, Goto, Present, fileVars
<1>9. CASE Start \/ UNCHANGED vars
  BY <1>2, <1>9 DEF Start, vars, toolVars, fileVars, BootFile, BootPasses, BootFails, BootDone,
     BuildStat, BuildStatFails, BuildSkips, BuildScans, BuildReads, BuildPasses, BuildInstalls, BuildFails
<1>10. CASE WriteFails \/ RefreshRowsFails \/ RefreshChunks \/ RemoveRowsFails \/ RemoveChunks
              \/ UndoStops \/ UndoSkips \/ UndoInstalls \/ UndoFails \/ Restart
  BY <1>1, <1>10, AnswerTypes DEF WriteFails, RefreshRowsFails, RefreshChunks, RemoveRowsFails,
     RemoveChunks, UndoStops, UndoSkips, UndoInstalls, UndoFails, Restart
<1>11. CASE UndoScans \/ \E f \in Files, x \in Texts \cup {None} : UndoRevert(f, x)
  BY <1>3, <1>11 DEF UndoScans, UndoRevert, Goto
<1>12. QED
  BY <1>4, <1>5, <1>6, <1>7, <1>8, <1>9, <1>10, <1>11
     DEF Next, Tool, UpdateFile, WriteSilently

LEMMA BootChunksStep ==
  ASSUME TypeOK, BootChunks, [Next]_vars
  PROVE  BootChunks'
<1>1. CASE bg' # "boot"
  BY <1>1 DEF BootChunks
<1>2. CASE UNCHANGED vars
  BY <1>2 DEF BootChunks, Present, vars
<1>3. ASSUME NEW f \in Files, BootFile(f) \/ BootPasses(f) PROVE BootChunks'
  BY <1>3 DEF TypeOK, BootChunks, BootFile, BootPasses, Embedded, Present, fileVars, toolVars
<1>4. CASE Restart
  BY <1>4 DEF BootChunks, Restart, Answer
<1>5. CASE Tool
  BY <1>1, <1>5 DEF BootChunks, Tool, Listening, bgVars, UpdateFile, WriteSilently, WriteOpen, WriteText, WriteFails,
     RefreshRows, RefreshRowsFails, RefreshChunks, Unlink, RemoveRows, RemoveRowsFails, RemoveChunks,
     UndoRevert, UndoStops, UndoSkips, UndoScans, UndoInstalls, UndoFails
<1>6. CASE BootFails \/ BootDone \/ BuildSkips \/ BuildScans \/ BuildInstalls \/ BuildFails
  BY <1>1, <1>6 DEF BootFails, BootDone, BuildSkips, BuildScans, BuildInstalls, BuildFails
<1>7. ASSUME NEW f \in Files,
             BuildStat(f) \/ BuildStatFails(f) \/ BuildReads(f) \/ BuildPasses(f)
      PROVE  bg' # "boot"
  BY <1>7 DEF BuildStat, BuildStatFails, BuildReads, BuildPasses
<1>8. QED
  BY <1>1, <1>2, <1>3, <1>4, <1>5, <1>6, <1>7 DEF Next, Start

-------------------------------------------------------------------------------
(* The theorems. *)

\* Whatever the files, the texts and the bounds, the invariant holds in every
\* state the tools, the build, failures and kills can reach.
THEOREM Inductive == Spec => []IInv
<1>1. ASSUME Init PROVE IInv
  <2>1. silent \in BOOLEAN
    BY <1>1 DEF Init
  <2>2. TypeOK
    BY <1>1, <2>1, BoundsAssumption DEF Init, TypeOK, Contents, Times, Nothing, NoTimes
  <2>3. QED
    BY <1>1, <2>2, BoundsAssumption DEF Init, IInv, Clocked, StoredRows, Truthful, ScannedRows,
       ToolHolds, BootChunks, Nothing, NoTimes, Present
<1>2. IInv /\ [Next]_vars => IInv'
  BY TypeStep, ClockedStep, StoredRowsStep, ScannedRowsStep, ToolHoldsStep, BootChunksStep
     DEF IInv
<1>3. QED
  BY <1>1, <1>2, PTL DEF Spec

\* The state always has its types.
THEOREM TypeCorrect == Spec => []TypeOK
<1>1. IInv => TypeOK
  BY DEF IInv
<1>2. QED
  BY <1>1, Inductive, PTL

\* A fingerprint that is that of the vault has no file untold.
LEMMA Matching ==
  ASSUME TypeOK, StoredRows, fp = mtime
  PROVE  Current(Files \ lost)
BY NoneIsNoFingerprint DEF TypeOK, Times, StoredRows, Truthful, Current

\* A build that is skipped because the fingerprint matches had nothing to do for
\* any file there is but those that a failed read or statement cost their rows.
THEOREM SkippingIsSafe == Spec => []FingerprintMeansCurrent
<1>1. IInv => FingerprintMeansCurrent
  BY Matching DEF IInv, FingerprintMeansCurrent
<1>2. QED
  BY <1>1, Inductive, PTL

\* A build in the thread leaves the rows current of every file no tool changed
\* since it began and no failure cost its rows.
THEOREM BuildLeavesCurrent == Spec => BuildEndsCurrent
<1>1. IInv /\ [Next]_vars
        => [BuildSkips \/ BuildInstalls => Current(Unchanged \ lost)']_vars
  <2>1. ASSUME IInv, BuildSkips PROVE Current(Unchanged \ lost)'
    BY <2>1, NoneIsNoFingerprint DEF IInv, TypeOK, Times, StoredRows, Truthful, BuildSkips, Current,
       Unchanged, Present, fileVars, dbVars, searchVars, faultVars
  <2>2. ASSUME IInv, BuildInstalls PROVE Current(Unchanged \ lost)'
    BY <2>2, NoneIsNoFingerprint DEF IInv, TypeOK, Times, ScannedRows, Truthful, BuildInstalls,
       IndexAll, Commit, Current, Unchanged, Present, fileVars
  <2>3. QED
    BY <2>1, <2>2
<1>2. QED
  BY <1>1, Inductive, PTL DEF Spec, BuildEndsCurrent

\* An undo that succeeds leaves the rows of every file current that no failure
\* cost its rows.
THEOREM UndoLeavesCurrent == Spec => UndoEndsCurrent
<1>1. IInv /\ [Next]_vars => [UndoSkips \/ UndoInstalls => Current(Files \ lost)']_vars
  <2>1. ASSUME IInv, UndoSkips PROVE Current(Files \ lost)'
    <3>1. PICK bad \in SUBSET Files : fp = TimesOf(Files \ bad) /\ lost' = lost \cup bad
      BY <2>1 DEF UndoSkips
    <3>2. fp # None /\ \A f \in Files \ bad : fp[f] = mtime[f]
      <4>1. TimesOf(Files \ bad) \in [Files -> 0..MaxClock]
        BY <2>1, BoundsAssumption DEF IInv, TypeOK, Times, TimesOf
      <4>2. \A f \in Files \ bad : TimesOf(Files \ bad)[f] = mtime[f]
        BY DEF TimesOf
      <4>3. QED
        BY <3>1, <4>1, <4>2, NoneIsNoFingerprint
    <3>3. QED
      BY <2>1, <3>1, <3>2 DEF IInv, StoredRows, Truthful, UndoSkips, Current, Present, fileVars,
         searchVars
  <2>2. ASSUME UndoInstalls PROVE Current(Files \ lost)'
    BY <2>2 DEF UndoInstalls, IndexAll, Commit, RowsOf, Current, Present, fileVars
  <2>3. QED
    BY <2>1, <2>2
<1>2. QED
  BY <1>1, Inductive, PTL DEF Spec, UndoEndsCurrent

\* A bootstrap that goes through leaves the chunks exact of every file it read.
THEOREM BootLeavesEmbedded == Spec => BootEndsEmbedded
<1>1. IInv => [BootDone => \A f \in Files \ missed :
                             Present(f) => chunks[f] = ChunksOf(text[f])]_vars
  BY DEF IInv, BootChunks, BootDone
<1>2. QED
  BY <1>1, Inductive, PTL DEF Spec, BootEndsEmbedded

-------------------------------------------------------------------------------
(* How far an update is searchable when it answers.  UpdateIsSearchable fails: *)
(* the build in the thread may replace the rows in between.                    *)

\* Between refreshing the rows of a file and the answer, they can only have been
\* replaced by those the thread had collected, or lost to a failure of its build.
OnlyTheBuild ==
  h = "embed" => \/ rows[hf] = text[hf]
                 \/ bg = "done" /\ rows[hf] = bgrows[hf]
                 \/ hf \in lost

\* An update that answers without being found was overwritten by the build in the
\* thread, and the stored fingerprint is not that of the vault; or a read or a
\* statement of that build failed.
MissIsNoticed ==
  [][RefreshChunks /\ rows[hf] # text[hf]
       => hf \in lost \/ (bg = "done" /\ rows[hf] = bgrows[hf] /\ fp # mtime)]_vars

LEMMA OnlyTheBuildStep ==
  ASSUME IInv, OnlyTheBuild, [Next]_vars
  PROVE  OnlyTheBuild'
<1>1. CASE UNCHANGED vars
  BY <1>1 DEF OnlyTheBuild, vars
<1>2. CASE RefreshRows
  BY <1>2 DEF IInv, TypeOK, ToolHolds, OnlyTheBuild, RefreshRows, IndexFile, Commit, Indexed, Goto,
     fileVars
<1>3. CASE Tool /\ ~RefreshRows
  <2>1. h' # "embed"
    BY <1>3 DEF Tool, UpdateFile, WriteSilently, WriteOpen, WriteText, WriteFails,
       RefreshRowsFails, RefreshChunks, Unlink, RemoveRows, RemoveRowsFails, RemoveChunks,
       UndoRevert, UndoStops, UndoSkips, UndoScans, UndoInstalls, UndoFails, Answer, Goto
  <2>2. QED
    BY <2>1 DEF OnlyTheBuild
<1>4. CASE BuildInstalls
  BY <1>4 DEF OnlyTheBuild, BuildInstalls, IndexAll, Commit, fileVars, toolVars
<1>5. CASE BuildFails
  <2>1. bg # "done" /\ UNCHANGED <<text, h, hf>>
    BY <1>5 DEF BuildFails, fileVars, toolVars
  <2>2. CASE UNCHANGED dbVars
    BY <2>1, <2>2 DEF OnlyTheBuild, dbVars, searchVars, faultVars
  <2>3. CASE lost' = Files
    BY <2>1, <2>3 DEF IInv, ToolHolds, OnlyTheBuild
  <2>4. QED
    BY <1>5, <2>2, <2>3 DEF IInv, TypeOK, BuildFails, IndexAllFails, Break
<1>6. CASE Start /\ ~BuildInstalls /\ ~BuildFails
  <2>1. UNCHANGED <<text, rows, lost, h, hf>>
    BY <1>6 DEF Start, BootFile, BootPasses, BootFails, BootDone, BuildStat, BuildStatFails,
       BuildSkips, BuildScans, BuildReads, BuildPasses, fileVars, dbVars, searchVars, faultVars, toolVars
  <2>2. bg # "done"
    BY <1>6 DEF Start, BootFile, BootPasses, BootFails, BootDone, BuildStat, BuildStatFails,
       BuildSkips, BuildScans, BuildReads, BuildPasses
  <2>3. QED
    BY <2>1, <2>2 DEF OnlyTheBuild
<1>7. CASE Restart
  BY <1>7 DEF OnlyTheBuild, Restart, Answer
<1>8. QED
  BY <1>1, <1>2, <1>3, <1>4, <1>5, <1>6, <1>7 DEF Next

\* The build in the thread is all that can hide an update from a search when it
\* answers, and unless a read or a statement failed the next build is not skipped.
THEOREM MissesAreNoticed == Spec => MissIsNoticed
<1>1. Init => OnlyTheBuild
  BY DEF Init, OnlyTheBuild
<1>2. IInv /\ OnlyTheBuild /\ [Next]_vars => OnlyTheBuild'
  BY OnlyTheBuildStep
<1>3. IInv /\ OnlyTheBuild
        => [RefreshChunks /\ rows[hf] # text[hf]
              => hf \in lost \/ (bg = "done" /\ rows[hf] = bgrows[hf] /\ fp # mtime)]_vars
  <2>1. SUFFICES ASSUME IInv, OnlyTheBuild, RefreshChunks, rows[hf] # text[hf], hf \notin lost
                 PROVE  bg = "done" /\ rows[hf] = bgrows[hf] /\ fp # mtime
    OBVIOUS
  <2>2. h = "embed"
    BY <2>1 DEF RefreshChunks
  <2>3. hf \in Files /\ Present(hf)
    BY <2>1, <2>2, ContentsDistinct DEF IInv, ToolHolds, Present
  <2>4. fp # mtime
    BY <2>1, <2>3, Matching DEF IInv, Current
  <2>5. QED
    BY <2>1, <2>2, <2>4 DEF OnlyTheBuild
<1>4. QED
  BY <1>1, <1>2, <1>3, Inductive, PTL DEF Spec, MissIsNoticed
===============================================================================
