------------------------------ MODULE KnowledgeGit ------------------------------
(***************************************************************************)
(* The files of one vault, git's index and its history, under the tools of   *)
(* mcp_brain/tools/knowledge.py that change them (and those of maintain.py,  *)
(* inbox.py and meta.py, which commit like knowledge_update).  One worker    *)
(* serves a vault and its tools do not interleave, but every git command may *)
(* fail, which the tools log and ignore, and the pool may kill the worker,   *)
(* and git with it, at any point; a git that is killed may leave its         *)
(* index.lock behind, and from then on every command fails that writes.      *)
(*                                                                           *)
(* git is external: `add`, `rm --cached`, `commit` with and without a path,  *)
(* and `revert` are modelled by what they do to worktree, index and history. *)
(***************************************************************************)
EXTENDS Integers, Sequences

CONSTANTS
  Scopes,     \* directories of the vault
  Projects,   \* names of files
  Meta,       \* meta.yaml, which is in no scope
  Texts,      \* contents of a file
  None,       \* no file
  MaxUndo,    \* the most commits one undo takes back; 10 in the code
  MaxCommits, \* bound: length of the history
  MaxCalls    \* bound: calls of tools

ASSUME NoneIsNoText == None \notin Texts
ASSUME BoundsAssumption == MaxUndo \in Nat /\ MaxCommits \in Nat \ {0} /\ MaxCalls \in Nat

ASSUME MetaAssumption == Meta \notin Scopes \X Projects

Files == (Scopes \X Projects) \cup {Meta}
Trees == [Files -> Texts \cup {None}]
Empty == [f \in Files |-> None]

VARIABLES
  work,    \* the worktree
  index,   \* what is staged
  log,     \* the trees of all commits, that of the init commit first
  locked,  \* an index.lock is left over
  pc,      \* what the tool call in progress does next
  opf,     \* the files it is about
  old,     \* scope_rename: those of the old name
  utop,    \* undo: the number of commits when it began, ...
  uend,    \* ... and the number it goes back to
  calls,   \* the calls there have been
  hurt     \* history: files whose last call had a git command fail or die

repoVars == <<work, index, log, locked>>
vars == <<work, index, log, locked, pc, opf, old, utop, uend, calls, hurt>>

HeadTree == log[Len(log)]

TypeOK ==
  /\ work \in Trees /\ index \in Trees
  /\ log \in Seq(Trees) /\ Len(log) \in 1..MaxCommits
  /\ locked \in BOOLEAN
  /\ pc \in {"idle", "add", "commit", "rm", "commitall", "rewrite", "rmold",
             "rmonly", "revert"}
  /\ opf \subseteq Files /\ old \subseteq Files
  /\ utop \in 0..MaxCommits /\ uend \in 0..MaxCommits
  /\ calls \in 0..MaxCalls /\ hurt \subseteq Files

\* install.sh makes an empty first commit.
Init ==
  /\ work = Empty /\ index = Empty /\ log = <<Empty>> /\ locked = FALSE
  /\ pc = "idle" /\ opf = {} /\ old = {} /\ utop = 0 /\ uend = 0
  /\ calls = 0 /\ hurt = {}

-------------------------------------------------------------------------------
(* git. *)

\* Mutant: a commit of some files drops the others.
MutantTake(tree, fs, from) == [f \in fs |-> from[f]]

\* A tree with the files fs of another one.
Take(tree, fs, from) == [f \in Files |-> IF f \in fs THEN from[f] ELSE tree[f]]

\* A commit of a tree; there is none when nothing has changed.
Record(tree) ==
  /\ ~locked
  /\ IF tree = HeadTree
     THEN log' = log
     ELSE Len(log) < MaxCommits /\ log' = Append(log, tree)

\* The files the i-th commit changed.
Changed(i) == {f \in Files : log[i][f] # log[i - 1][f]}

\* The tree after a revert of the i-th commit.
Reverted(i) == Take(HeadTree, Changed(i), log[i - 1])

\* git reverts a commit if nothing is staged, no file it has to change holds
\* anything that is not committed, and the commit's own text is still there.
CanRevert(i) ==
  /\ ~locked /\ index = HeadTree
  /\ \A f \in Changed(i) : work[f] \in {HeadTree[f], None} /\ HeadTree[f] = log[i][f]

-------------------------------------------------------------------------------
(* How a call begins, goes on and ends. *)

Call(label) == pc = "idle" /\ pc' = label /\ calls < MaxCalls /\ calls' = calls + 1

Goto(label) == pc' = label /\ UNCHANGED <<opf, old, utop, uend, calls, hurt>>

End ==
  /\ pc' = "idle" /\ opf' = {} /\ old' = {} /\ utop' = 0 /\ uend' = 0
  /\ UNCHANGED calls

\* All went well: what the call is about is saved.
EndSaved == End /\ hurt' = hurt \ opf

\* A command failed; the tool logs it and answers as if it had not.
EndHurt == End /\ hurt' = hurt \cup opf

-------------------------------------------------------------------------------
(* knowledge_update, knowledge_restore_at and the others that write one file. *)

WriteFile(f, x) ==
  /\ Call("add")
  /\ work' = [work EXCEPT ![f] = x]
  /\ opf' = {f}
  /\ UNCHANGED <<index, log, locked, old, utop, uend, hurt>>

Add ==
  /\ pc = "add" /\ ~locked
  /\ index' = Take(index, opf, work)
  /\ Goto("commit")
  /\ UNCHANGED <<work, log, locked>>

\* Mutant: the commit names no path.
MutantCommitFile ==
  /\ pc = "commit"
  /\ Record(index)
  /\ EndSaved
  /\ UNCHANGED <<work, index, locked>>

\* commit -- path takes the file as it is and leaves the rest of the index out.
CommitFile ==
  /\ pc = "commit"
  /\ Record(Take(HeadTree, opf, work))
  /\ EndSaved
  /\ UNCHANGED <<work, index, locked>>

-------------------------------------------------------------------------------
(* knowledge_delete. *)

Unlink(f) ==
  /\ Call("rm")
  /\ f # Meta /\ work[f] # None
  /\ work' = [work EXCEPT ![f] = None]
  /\ opf' = {f}
  /\ UNCHANGED <<index, log, locked, old, utop, uend, hurt>>

Rm ==
  /\ pc = "rm" /\ ~locked
  /\ \A f \in opf : index[f] # None
  /\ index' = Take(index, opf, Empty)
  /\ Goto("commitall")
  /\ UNCHANGED <<work, log, locked>>

\* A commit without a path: all that is staged.
CommitAll ==
  /\ pc = "commitall"
  /\ Record(index)
  /\ EndSaved
  /\ UNCHANGED <<work, index, locked>>

\* git add, rm or commit fails in one of these tools, or the commit of a rename.
GitFails ==
  /\ pc \in {"add", "commit", "rm", "commitall"}
  /\ EndHurt
  /\ UNCHANGED repoVars

-------------------------------------------------------------------------------
(* scope_rename. *)

InScope(s) == {s} \X Projects

\* There is a directory of the old name and none of the new one.
Move(s, t) ==
  /\ Call("rewrite") /\ s # t
  /\ \E f \in InScope(s) : work[f] # None
  /\ \A f \in InScope(t) : work[f] = None
  /\ work' = [f \in Files |-> IF f \in InScope(s) THEN None
                              ELSE IF f \in InScope(t) THEN work[<<s, f[2]>>] ELSE work[f]]
  /\ opf' = InScope(s) \cup InScope(t) /\ old' = InScope(s)
  /\ UNCHANGED <<index, log, locked, utop, uend, hurt>>

\* References to the old name in meta.yaml, or in a file that can be read, are
\* replaced.
Rewrite(f, x) ==
  /\ pc = "rewrite" /\ work[f] \notin {None, x}
  /\ work' = [work EXCEPT ![f] = x]
  /\ opf' = opf \cup {f}
  /\ UNCHANGED <<index, log, locked, pc, old, utop, uend, calls, hurt>>

\* The write of meta.yaml fails with anything in the file; the rename goes on
\* without it.
RewriteFails(x) ==
  /\ pc = "rewrite" /\ work[Meta] \notin {None, x} /\ Meta \notin opf
  /\ work' = [work EXCEPT ![Meta] = x]
  /\ hurt' = hurt \cup {Meta}
  /\ UNCHANGED <<index, log, locked, pc, opf, old, utop, uend, calls>>

AddNew ==
  /\ pc = "rewrite" /\ ~locked
  /\ index' = Take(index, opf \ old, work)
  /\ Goto("rmold")
  /\ UNCHANGED <<work, log, locked>>

\* Nothing will be committed, but the old names still leave the index.
AddNewFails ==
  /\ pc = "rewrite"
  /\ pc' = "rmonly" /\ hurt' = hurt \cup opf
  /\ UNCHANGED <<repoVars, opf, old, utop, uend, calls>>

\* Mutant: the old names are left to git add.
MutantRmOld ==
  /\ pc = "rmold"
  /\ Goto("commitall")
  /\ UNCHANGED repoVars

RmOld ==
  /\ pc \in {"rmold", "rmonly"} /\ ~locked
  /\ index' = Take(index, old, Empty)
  /\ IF pc = "rmold" THEN Goto("commitall") ELSE EndHurt
  /\ UNCHANGED <<work, log, locked>>

\* The result of git rm is not looked at.
RmOldFails ==
  /\ pc \in {"rmold", "rmonly"}
  /\ IF pc = "rmold"
     THEN /\ pc' = "commitall" /\ opf' = opf \ old /\ hurt' = hurt \cup old
          /\ UNCHANGED <<old, utop, uend, calls>>
     ELSE EndHurt
  /\ UNCHANGED repoVars

-------------------------------------------------------------------------------
(* knowledge_undo: the last k commits, by hash, newest first. *)

UndoBegin(k) ==
  /\ Call("revert")
  /\ Len(log) - k >= 1
  /\ utop' = Len(log) /\ uend' = Len(log) - k
  /\ UNCHANGED <<repoVars, opf, old, hurt>>

\* Mutant: oldest first.
MutantToRevert == uend + 1 + (Len(log) - utop)

\* Each revert has added one commit.
ToRevert == utop - (Len(log) - utop)

Revert ==
  /\ pc = "revert" /\ CanRevert(ToRevert) /\ Len(log) < MaxCommits
  /\ work' = Take(work, Changed(ToRevert), Reverted(ToRevert))
  /\ index' = Reverted(ToRevert)
  /\ log' = Append(log, Reverted(ToRevert))
  /\ IF Len(log') - utop = utop - uend THEN End /\ UNCHANGED hurt ELSE Goto("revert")
  /\ UNCHANGED locked

\* git refuses or fails: what was reverted before stays.
RevertFails ==
  /\ pc = "revert"
  /\ End
  /\ UNCHANGED <<repoVars, hurt>>

-------------------------------------------------------------------------------
(* The pool kills the worker, or a write raises. *)

\* Between two steps, or in a git command before its effect.
Kill ==
  /\ pc # "idle"
  /\ locked' \in {locked, TRUE}
  /\ EndHurt
  /\ UNCHANGED <<work, index, log>>

\* In a revert that has changed some files, or all of them and the index.
KillRevert ==
  /\ pc = "revert" /\ CanRevert(ToRevert)
  /\ \E done \in SUBSET Changed(ToRevert) :
       /\ work' = Take(work, done, Reverted(ToRevert))
       /\ \/ index' = index
          \/ done = Changed(ToRevert) /\ index' = Reverted(ToRevert)
       /\ hurt' = hurt \cup done
  /\ locked' \in {locked, TRUE}
  /\ End
  /\ UNCHANGED log

-------------------------------------------------------------------------------

Next ==
  \/ \E f \in Files, x \in Texts : WriteFile(f, x) \/ Rewrite(f, x)
  \/ \E x \in Texts : RewriteFails(x)
  \/ Add \/ CommitFile
  \/ \E f \in Files : Unlink(f)
  \/ Rm \/ CommitAll \/ GitFails
  \/ \E s, t \in Scopes : Move(s, t)
  \/ AddNew \/ AddNewFails \/ RmOld \/ RmOldFails
  \/ \E k \in 1..MaxUndo : UndoBegin(k)
  \/ Revert \/ RevertFails
  \/ Kill \/ KillRevert

Spec == Init /\ [][Next]_vars

-------------------------------------------------------------------------------
(* Properties. *)

\* A lost commit costs its own file only: a file whose last call met no failure,
\* and that no call in progress is about, is the same on disk, in the index and
\* in the last commit, whatever happened to other files or to this one before.
SavedUnlessHurt ==
  \A f \in Files \ (hurt \cup opf) : work[f] = index[f] /\ index[f] = HeadTree[f]

\* An undo walks back through history: after j reverts the tree is that of j
\* commits before, although HEAD moves with each revert, so that no revert meets
\* a conflict; and the init commit is not among those reverted.  The code makes
\* no exception for the commits of knowledge_delete, whose docstring says that
\* undo does not take them back.
UndoMirrors ==
  pc = "revert" =>
    /\ uend >= 1
    /\ \A j \in 0..(Len(log) - utop) : log[utop + j] = log[utop - j]

\* The files a step changes in the last commit.
Changes == {f \in Files : HeadTree'[f] # HeadTree[f]}

\* A commit of one file leaves all others in history alone, also those that a
\* failed call has staged; and a commit of all that is staged adds to its own
\* files only ones with a failed call.
CommitsOwnFiles ==
  [][/\ pc = "commit" => Changes \subseteq opf
     /\ pc = "commitall" => Changes \subseteq opf \cup hurt]_vars
===============================================================================
