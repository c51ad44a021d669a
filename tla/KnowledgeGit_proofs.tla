-------------------------- MODULE KnowledgeGit_proofs --------------------------
(***************************************************************************)
(* Proofs about KnowledgeGit, for any scopes, files and texts and any length *)
(* of the history: what failed git commands cost, what commits contain, and  *)
(* that an undo mirrors history.                                             *)
(***************************************************************************)
EXTENDS KnowledgeGit, TLAPS

-------------------------------------------------------------------------------
(* The inductive invariant. *)

\* How far the call in progress has brought the files it is about.
CallInv ==
  /\ pc \in {"idle", "revert"} => opf = {}
  /\ pc \in {"commit", "commitall"} => \A f \in opf : work[f] = index[f]
  /\ pc = "rm" => \A f \in opf : work[f] = None
  /\ pc \in {"rewrite", "rmold", "rmonly"} =>
       old \subseteq opf /\ \A f \in old : work[f] = None
  /\ pc = "rmold" => \A f \in opf \ old : work[f] = index[f]

\* An undo has commits left to revert, and has mirrored those it has reverted.
UndoInv ==
  pc = "revert" =>
    /\ uend >= 1 /\ utop <= Len(log) /\ Len(log) - utop < utop - uend
    /\ UndoMirrors

IInv == TypeOK /\ CallInv /\ UndoInv /\ SavedUnlessHurt

-------------------------------------------------------------------------------
(* Trees and history. *)

\* A tree that takes files of another is a tree, file by file one or the other.
LEMMA TakeIs ==
  ASSUME NEW t \in Trees, NEW u \in Trees, NEW fs
  PROVE  /\ Take(t, fs, u) \in Trees
         /\ \A f \in Files : Take(t, fs, u)[f] = IF f \in fs THEN u[f] ELSE t[f]
  BY DEF Take, Trees

\* The empty tree is a tree.
LEMMA EmptyIs == Empty \in Trees /\ \A f \in Files : Empty[f] = None
  BY DEF Empty, Trees

\* There is a last commit.
LEMMA HeadIs ==
  ASSUME TypeOK
  PROVE  HeadTree \in Trees /\ Len(log) \in Nat /\ Len(log) >= 1
  BY BoundsAssumption DEF TypeOK, HeadTree

\* A commit keeps the types and ends at the tree that was committed.
LEMMA RecordIs ==
  ASSUME TypeOK, NEW t \in Trees, Record(t)
  PROVE  /\ log' \in Seq(Trees) /\ Len(log') \in 1..MaxCommits
         /\ HeadTree' = t
<1>1. CASE log' = log /\ t = HeadTree
  BY <1>1 DEF TypeOK, HeadTree
<1>2. CASE log' = Append(log, t) /\ Len(log) < MaxCommits
  <2>1. Len(log') = Len(log) + 1 /\ log' \in Seq(Trees)
    BY <1>2 DEF TypeOK
  <2>2. log'[Len(log) + 1] = t
    BY <1>2 DEF TypeOK
  <2>3. Len(log') \in 1..MaxCommits
    BY <1>2, <2>1, BoundsAssumption DEF TypeOK
  <2> QED BY <2>1, <2>2, <2>3 DEF HeadTree
<1> QED BY <1>1, <1>2 DEF Record

\* The commit to revert next: its tree is the present one, and the revert leads
\* to the tree before it.
LEMMA RevertIs ==
  ASSUME TypeOK, UndoInv, pc = "revert"
  PROVE  /\ ToRevert \in (uend + 1)..utop /\ ToRevert \in 2..Len(log)
         /\ HeadTree = log[ToRevert]
         /\ log[ToRevert - 1] \in Trees
         /\ Reverted(ToRevert) = log[ToRevert - 1]
<1> DEFINE i == ToRevert
<1>1. i \in (uend + 1)..utop /\ i \in 2..Len(log) /\ Len(log) \in Nat
  BY BoundsAssumption DEF TypeOK, UndoInv, ToRevert
<1>2. HeadTree = log[i]
  <2>1. Len(log) - utop \in 0..(Len(log) - utop)
    BY <1>1 DEF TypeOK, UndoInv
  <2>2. log[utop + (Len(log) - utop)] = log[utop - (Len(log) - utop)]
    BY <2>1 DEF UndoInv, UndoMirrors
  <2>3. utop + (Len(log) - utop) = Len(log)
    BY <1>1 DEF TypeOK
  <2> QED BY <2>2, <2>3 DEF HeadTree, ToRevert
<1>3. log[i] \in Trees /\ log[i - 1] \in Trees
  BY <1>1 DEF TypeOK
<1>4. \A f \in Files : Reverted(i)[f] = log[i - 1][f]
  BY <1>2, <1>3, TakeIs DEF Reverted, Changed
<1>5. Reverted(i) \in Trees
  BY <1>2, <1>3, TakeIs DEF Reverted
<1>6. Reverted(i) = log[i - 1]
  BY <1>3, <1>4, <1>5 DEF Trees
<1> QED BY <1>1, <1>2, <1>3, <1>6

-------------------------------------------------------------------------------
(* The types. *)

\* The initial state satisfies the invariant.
LEMMA InitInv == Init => IInv
<1> SUFFICES ASSUME Init PROVE IInv
  OBVIOUS
<1>1. log \in Seq(Trees) /\ Len(log) = 1 /\ HeadTree = Empty
  BY EmptyIs DEF Init, HeadTree
<1>2. Len(log) \in 1..MaxCommits /\ 0 \in 0..MaxCommits
  BY <1>1, BoundsAssumption
<1>3. locked \in BOOLEAN
  BY DEF Init
<1>4. calls \in 0..MaxCalls
  BY BoundsAssumption DEF Init
<1>5. TypeOK
  BY <1>1, <1>2, <1>3, <1>4, EmptyIs DEF Init, TypeOK
<1> QED BY <1>1, <1>5 DEF Init, IInv, CallInv, UndoInv, SavedUnlessHurt

\* How calls end, in types.
LEMMA EndTypes ==
  ASSUME TypeOK, End
  PROVE  /\ pc' = "idle" /\ opf' = {} /\ old' = {}
         /\ utop' \in 0..MaxCommits /\ uend' \in 0..MaxCommits
         /\ calls' \in 0..MaxCalls
  BY BoundsAssumption DEF End, TypeOK

\* How calls begin, in types.
LEMMA CallTypes ==
  ASSUME TypeOK, NEW label, Call(label)
  PROVE  pc = "idle" /\ pc' = label /\ calls' \in 0..MaxCalls
  BY BoundsAssumption DEF Call, TypeOK

\* Moving a scope gives a tree.
LEMMA MoveIs ==
  ASSUME TypeOK, NEW s \in Scopes, NEW t \in Scopes, Move(s, t)
  PROVE  /\ work' \in Trees
         /\ opf' \subseteq Files /\ old' \subseteq opf'
         /\ \A f \in old' : work'[f] = None
         /\ \A f \in Files \ opf' : work'[f] = work[f]
<1>1. InScope(s) \subseteq Files /\ InScope(t) \subseteq Files
  BY DEF InScope, Files
<1>2. \A f \in InScope(t) : <<s, f[2]>> \in Files
  BY DEF InScope, Files
<1>3. work' = [f \in Files |-> IF f \in InScope(s) THEN None
                              ELSE IF f \in InScope(t) THEN work[<<s, f[2]>>] ELSE work[f]]
  BY DEF Move
<1>4. work' \in Trees
  BY <1>2, <1>3 DEF Trees, TypeOK
<1>5. /\ \A f \in InScope(s) : work'[f] = None
      /\ \A f \in Files \ (InScope(s) \cup InScope(t)) : work'[f] = work[f]
  BY <1>1, <1>3
<1> QED BY <1>1, <1>4, <1>5 DEF Move

-------------------------------------------------------------------------------
(* One lemma for each kind of step. *)

\* A call that has ended owes nothing.
LEMMA EndOwesNothing ==
  ASSUME End
  PROVE  CallInv' /\ UndoInv'
  BY DEF End, CallInv, UndoInv

\* A history that does not change keeps its last tree.
LEMMA SameHead == UNCHANGED log => HeadTree' = HeadTree
  BY DEF HeadTree

\* Starting a write or a deletion takes one file out of the promise.
LEMMA OpenStep ==
  ASSUME IInv, NEW f \in Files, NEW x \in Texts, WriteFile(f, x) \/ Unlink(f)
  PROVE  IInv'
<1>1. /\ work' \in Trees /\ \A g \in Files \ {f} : work'[g] = work[g]
      /\ pc' = "rm" => work'[f] = None
  <2>1. f \in Files /\ None \in Texts \cup {None} /\ x \in Texts \cup {None}
    OBVIOUS
  <2>. QED  BY <2>1 DEF WriteFile, Unlink, Call, IInv, TypeOK, Trees
<1>2. /\ UNCHANGED <<index, log, locked, old, utop, uend, hurt>>
      /\ opf = {} /\ opf' = {f} /\ pc' \in {"add", "rm"}
      /\ calls' \in 0..MaxCalls
  BY CallTypes DEF WriteFile, Unlink, IInv, CallInv
<1>3. TypeOK'
  BY <1>1, <1>2 DEF IInv, TypeOK
<1>4. CallInv' /\ UndoInv'
  BY <1>1, <1>2 DEF CallInv, UndoInv
<1>5. SavedUnlessHurt'
  BY <1>1, <1>2, SameHead DEF IInv, SavedUnlessHurt
<1> QED BY <1>3, <1>4, <1>5 DEF IInv

\* Staging changes the index of the call's own files only.
LEMMA StageStep ==
  ASSUME IInv, Add \/ Rm \/ AddNew
  PROVE  IInv'
<1>1. UNCHANGED <<work, log, locked, opf, old, utop, uend, calls, hurt>>
  BY DEF Add, Rm, AddNew, Goto
<1>2. /\ pc' \in {"commit", "commitall", "rmold"}
      /\ \E fs \in SUBSET opf, from \in Trees :
           index' = Take(index, fs, from)
  BY EmptyIs DEF Add, Rm, AddNew, Goto, IInv, TypeOK
<1>3. index' \in Trees /\ \A f \in Files \ opf : index'[f] = index[f]
  BY <1>2, TakeIs DEF IInv, TypeOK
<1>4. TypeOK'
  BY <1>1, <1>2, <1>3 DEF IInv, TypeOK
<1>5. CallInv'
  <2>1. CASE Add
    BY <2>1, <1>1, TakeIs DEF Add, Goto, IInv, TypeOK, CallInv
  <2>2. CASE Rm
    <3>1. \A f \in opf : index'[f] = None
      BY <2>2, TakeIs, EmptyIs DEF Rm, IInv, TypeOK
    <3>2. \A f \in opf : work'[f] = None
      BY <2>2, <1>1 DEF Rm, IInv, CallInv
    <3> QED BY <2>2, <3>1, <3>2, <1>1 DEF Rm, Goto, CallInv
  <2>3. CASE AddNew
    <3>1. \A f \in opf \ old : index'[f] = work[f]
      BY <2>3, TakeIs DEF AddNew, IInv, TypeOK
    <3>2. old \subseteq opf /\ \A f \in old : work[f] = None
      BY <2>3 DEF AddNew, IInv, CallInv
    <3> QED BY <2>3, <3>1, <3>2, <1>1 DEF AddNew, Goto, CallInv
  <2> QED BY <2>1, <2>2, <2>3
<1>6. UndoInv'
  BY <1>2 DEF UndoInv
<1>7. SavedUnlessHurt'
  BY <1>1, <1>3, SameHead DEF IInv, SavedUnlessHurt
<1> QED BY <1>4, <1>5, <1>6, <1>7 DEF IInv

\* What a commit of one file does to the last tree.
LEMMA CommitFileIs ==
  ASSUME IInv, CommitFile
  PROVE  /\ log' \in Seq(Trees) /\ Len(log') \in 1..MaxCommits
         /\ \A f \in opf : HeadTree'[f] = work[f]
         /\ \A f \in Files \ opf : HeadTree'[f] = HeadTree[f]
<1> DEFINE t == Take(HeadTree, opf, work)
<1>1. opf \subseteq Files /\ work \in Trees /\ HeadTree \in Trees
  BY HeadIs DEF IInv, TypeOK
<1>2. /\ t \in Trees
      /\ \A f \in Files : t[f] = IF f \in opf THEN work[f] ELSE HeadTree[f]
  BY <1>1, TakeIs
<1>3. Record(t)
  BY DEF CommitFile
<1>4. log' \in Seq(Trees) /\ Len(log') \in 1..MaxCommits /\ HeadTree' = t
  BY <1>2, <1>3, RecordIs DEF IInv
<1> QED BY <1>1, <1>2, <1>4

\* A commit makes the call's files agree and loses no agreement of others.
LEMMA CommitStep ==
  ASSUME IInv, CommitFile \/ CommitAll
  PROVE  IInv'
<1>1. /\ UNCHANGED <<work, index, locked>> /\ End /\ hurt' = hurt \ opf
      /\ \A f \in opf : work[f] = index[f]
  BY DEF CommitFile, CommitAll, EndSaved, IInv, CallInv
<1>2. /\ log' \in Seq(Trees) /\ Len(log') \in 1..MaxCommits
      /\ \A f \in opf : HeadTree'[f] = index[f]
      /\ \A f \in Files \ opf : HeadTree'[f] \in {HeadTree[f], index[f]}
  <2>1. CASE CommitFile
    BY <2>1, <1>1, CommitFileIs
  <2>2. CASE CommitAll
    <3>1. log' \in Seq(Trees) /\ Len(log') \in 1..MaxCommits /\ HeadTree' = index
      BY <2>2, RecordIs DEF CommitAll, IInv, TypeOK
    <3> QED BY <3>1
  <2> QED BY <2>1, <2>2
<1>3. TypeOK'
  BY <1>1, <1>2, EndTypes DEF IInv, TypeOK
<1>4. SavedUnlessHurt'
  <2>1. opf' = {} /\ opf \subseteq Files
    BY <1>1 DEF End, IInv, TypeOK
  <2>2. \A f \in Files \ (hurt \cup opf) : work[f] = index[f] /\ index[f] = HeadTree'[f]
    BY <1>2 DEF IInv, SavedUnlessHurt
  <2> QED BY <1>1, <1>2, <2>1, <2>2 DEF SavedUnlessHurt
<1> QED BY <1>1, <1>3, <1>4, EndOwesNothing DEF IInv

\* A command that fails, or a kill before its effect, gives the call's files up.
LEMMA FailStep ==
  ASSUME IInv, GitFails \/ RevertFails \/ Kill
  PROVE  IInv'
<1>1. /\ UNCHANGED <<work, index, log>> /\ End
      /\ hurt' = hurt \cup opf
      /\ locked' \in {locked, TRUE}
  BY DEF GitFails, RevertFails, Kill, EndHurt, repoVars, IInv, CallInv
<1>2. locked' \in BOOLEAN
  BY <1>1 DEF IInv, TypeOK
<1>3. TypeOK'
  BY <1>1, <1>2, EndTypes DEF IInv, TypeOK
<1>4. SavedUnlessHurt'
  BY <1>1, SameHead DEF IInv, SavedUnlessHurt, End
<1> QED BY <1>1, <1>3, <1>4, EndOwesNothing DEF IInv

\* The steps of scope_rename before its commit.
LEMMA RenameStep ==
  ASSUME IInv,
         \/ \E s, t \in Scopes : Move(s, t)
         \/ \E f \in Files, x \in Texts : Rewrite(f, x)
         \/ \E x \in Texts : RewriteFails(x)
         \/ AddNewFails \/ RmOld \/ RmOldFails
  PROVE  IInv'
<1>1. CASE \E s, t \in Scopes : Move(s, t)
  <2>1. PICK s \in Scopes, t \in Scopes : Move(s, t)
    BY <1>1
  <2>2. /\ work' \in Trees /\ opf' \subseteq Files /\ old' \subseteq opf'
        /\ \A f \in old' : work'[f] = None
        /\ \A f \in Files \ opf' : work'[f] = work[f]
    BY <2>1, MoveIs DEF IInv
  <2>3. /\ UNCHANGED <<index, log, locked, utop, uend, hurt>> /\ pc' = "rewrite" /\ opf = {}
        /\ calls' \in 0..MaxCalls
    BY <2>1, CallTypes DEF Move, IInv, CallInv
  <2>4. TypeOK'
    BY <2>2, <2>3 DEF IInv, TypeOK
  <2>5. CallInv' /\ UndoInv'
    BY <2>2, <2>3 DEF CallInv, UndoInv
  <2>6. SavedUnlessHurt'
    BY <2>2, <2>3, SameHead DEF IInv, SavedUnlessHurt
  <2> QED BY <2>4, <2>5, <2>6 DEF IInv
<1>2. CASE \E f \in Files, x \in Texts : Rewrite(f, x)
  <2>1. PICK f \in Files, x \in Texts : Rewrite(f, x)
    BY <1>2
  <2>2. /\ work' \in Trees /\ \A g \in Files \ {f} : work'[g] = work[g]
        /\ work[f] # None
    BY <2>1 DEF Rewrite, IInv, TypeOK, Trees
  <2>3. /\ UNCHANGED <<index, log, locked, pc, old, utop, uend, calls, hurt>>
        /\ pc = "rewrite" /\ opf' = opf \cup {f}
    BY <2>1 DEF Rewrite
  <2>4. TypeOK'
    BY <2>2, <2>3 DEF IInv, TypeOK
  <2>5. CallInv' /\ UndoInv'
    <3>1. old \subseteq opf /\ \A g \in old : work[g] = None
      BY <2>3 DEF IInv, CallInv
    <3>2. f \notin old
      BY <2>2, <3>1
    <3>3. \A g \in old : work'[g] = None
      BY <3>1, <3>2, <2>2 DEF IInv, TypeOK
    <3> QED BY <2>3, <3>1, <3>3 DEF CallInv, UndoInv
  <2>6. SavedUnlessHurt'
    BY <2>2, <2>3, SameHead DEF IInv, SavedUnlessHurt
  <2> QED BY <2>4, <2>5, <2>6 DEF IInv
<1>3. CASE AddNewFails
  <2>1. /\ UNCHANGED <<work, index, log, locked, opf, old, utop, uend, calls>>
        /\ pc = "rewrite" /\ pc' = "rmonly" /\ hurt' = hurt \cup opf
    BY <1>3 DEF AddNewFails, repoVars
  <2>2. TypeOK'
    BY <2>1 DEF IInv, TypeOK
  <2>3. CallInv' /\ UndoInv'
    BY <2>1 DEF IInv, CallInv, UndoInv
  <2>4. SavedUnlessHurt'
    BY <2>1, SameHead DEF IInv, SavedUnlessHurt
  <2> QED BY <2>2, <2>3, <2>4 DEF IInv
<1>4. CASE RmOld
  <2>1. /\ UNCHANGED <<work, log, locked>> /\ old \subseteq opf
        /\ \A f \in old : work[f] = None
    BY <1>4 DEF RmOld, IInv, CallInv
  <2>2. /\ index' \in Trees
        /\ \A f \in Files : index'[f] = IF f \in old THEN None ELSE index[f]
    BY <1>4, TakeIs, EmptyIs DEF RmOld, IInv, TypeOK
  <2>3. CASE pc = "rmold"
    <3>1. pc' = "commitall" /\ UNCHANGED <<opf, old, utop, uend, calls, hurt>>
      BY <1>4, <2>3 DEF RmOld, Goto
    <3>2. TypeOK'
      BY <2>1, <2>2, <3>1 DEF IInv, TypeOK
    <3>3. \A f \in opf : work[f] = index'[f]
      BY <2>1, <2>2, <2>3 DEF IInv, CallInv, TypeOK
    <3>4. CallInv' /\ UndoInv'
      BY <2>1, <3>1, <3>3 DEF CallInv, UndoInv
    <3>5. SavedUnlessHurt'
      BY <2>1, <2>2, <3>1, SameHead DEF IInv, SavedUnlessHurt
    <3> QED BY <3>2, <3>4, <3>5 DEF IInv
  <2>4. CASE pc = "rmonly"
    <3>1. End /\ hurt' = hurt \cup opf
      BY <1>4, <2>4 DEF RmOld, EndHurt
    <3>2. TypeOK'
      BY <2>1, <2>2, <3>1, EndTypes DEF IInv, TypeOK
    <3>3. SavedUnlessHurt'
      BY <2>1, <2>2, <3>1, SameHead DEF IInv, SavedUnlessHurt, End
    <3> QED BY <3>1, <3>2, <3>3, EndOwesNothing DEF IInv
  <2> QED BY <1>4, <2>3, <2>4 DEF RmOld
<1>5. CASE RmOldFails
  <2>1. UNCHANGED <<work, index, log, locked>>
    BY <1>5 DEF RmOldFails, repoVars
  <2>2. CASE pc = "rmold"
    <3>1. /\ pc' = "commitall" /\ opf' = opf \ old /\ hurt' = hurt \cup old
          /\ UNCHANGED <<old, utop, uend, calls>>
      BY <1>5, <2>2 DEF RmOldFails
    <3>2. TypeOK'
      BY <2>1, <3>1 DEF IInv, TypeOK
    <3>3. CallInv' /\ UndoInv'
      BY <2>1, <2>2, <3>1 DEF IInv, CallInv, UndoInv
    <3>4. SavedUnlessHurt'
      BY <2>1, <3>1, SameHead DEF IInv, SavedUnlessHurt
    <3> QED BY <3>2, <3>3, <3>4 DEF IInv
  <2>3. CASE pc = "rmonly"
    <3>1. End /\ hurt' = hurt \cup opf
      BY <1>5, <2>3 DEF RmOldFails, EndHurt
    <3>2. TypeOK'
      BY <2>1, <3>1, EndTypes DEF IInv, TypeOK
    <3>3. SavedUnlessHurt'
      BY <2>1, <3>1, SameHead DEF IInv, SavedUnlessHurt, End
    <3> QED BY <3>1, <3>2, <3>3, EndOwesNothing DEF IInv
  <2> QED BY <1>5, <2>2, <2>3 DEF RmOldFails
<1>6. CASE \E x \in Texts : RewriteFails(x)
  <2>1. PICK x \in Texts : RewriteFails(x)
    BY <1>6
  <2>2. /\ Meta \in Files /\ work[Meta] # None
        /\ work' \in Trees /\ \A g \in Files \ {Meta} : work'[g] = work[g]
    BY <2>1 DEF RewriteFails, IInv, TypeOK, Trees, Files
  <2>3. /\ UNCHANGED <<index, log, locked, pc, opf, old, utop, uend, calls>>
        /\ pc = "rewrite" /\ hurt' = hurt \cup {Meta}
    BY <2>1 DEF RewriteFails
  <2>4. TypeOK'
    BY <2>2, <2>3 DEF IInv, TypeOK
  <2>5. CallInv' /\ UndoInv'
    <3>1. old \subseteq opf /\ \A g \in old : work[g] = None
      BY <2>3 DEF IInv, CallInv
    <3>2. \A g \in old : work'[g] = None
      BY <3>1, <2>2 DEF IInv, TypeOK
    <3> QED BY <2>3, <3>1, <3>2 DEF CallInv, UndoInv
  <2>6. SavedUnlessHurt'
    BY <2>2, <2>3, SameHead DEF IInv, SavedUnlessHurt
  <2> QED BY <2>4, <2>5, <2>6 DEF IInv
<1> QED BY <1>1, <1>2, <1>3, <1>4, <1>5, <1>6

-------------------------------------------------------------------------------
(* Undo. *)

\* An undo begins with nothing reverted.
LEMMA UndoBeginStep ==
  ASSUME IInv, NEW k \in 1..MaxUndo, UndoBegin(k)
  PROVE  IInv'
<1>1. /\ UNCHANGED <<work, index, log, locked, opf, old, hurt>>
      /\ pc = "idle" /\ pc' = "revert"
      /\ utop' = Len(log) /\ uend' = Len(log) - k /\ Len(log) - k >= 1
      /\ calls' \in 0..MaxCalls
  BY CallTypes DEF UndoBegin, repoVars, IInv
<1>2. k \in Nat /\ k >= 1 /\ Len(log) \in Nat /\ Len(log) <= MaxCommits
  BY BoundsAssumption DEF IInv, TypeOK
<1>3. TypeOK'
  <2>1. utop' \in 0..MaxCommits /\ uend' \in 0..MaxCommits
    BY <1>1, <1>2, BoundsAssumption
  <2> QED BY <1>1, <2>1 DEF IInv, TypeOK
<1>4. UndoInv'
  <2>1. \A j \in 0..(Len(log') - utop') : log'[utop' + j] = log'[utop' - j]
    BY <1>1, <1>2
  <2> QED BY <1>1, <1>2, <2>1 DEF UndoInv, UndoMirrors
<1>5. CallInv'
  BY <1>1 DEF IInv, CallInv
<1>6. SavedUnlessHurt'
  BY <1>1, SameHead DEF IInv, SavedUnlessHurt
<1> QED BY <1>3, <1>4, <1>5, <1>6 DEF IInv

\* A revert adds the tree before the commit it takes back: one more of the mirror.
LEMMA RevertStep ==
  ASSUME IInv, Revert
  PROVE  IInv'
<1> DEFINE i == ToRevert
           n == Len(log)
<1>1. /\ i \in (uend + 1)..utop /\ i \in 2..n /\ HeadTree = log[i]
      /\ log[i - 1] \in Trees /\ Reverted(i) = log[i - 1]
  BY RevertIs DEF IInv, Revert
<1>2. /\ utop \in Nat /\ uend \in Nat /\ n \in Nat /\ n < MaxCommits
      /\ uend >= 1 /\ utop <= n /\ i = utop - (n - utop) /\ MaxCommits \in Nat
  BY BoundsAssumption DEF IInv, TypeOK, UndoInv, Revert, ToRevert
<1>3. log' = Append(log, log[i - 1]) /\ index' = log[i - 1] /\ UNCHANGED <<locked, hurt>>
  BY <1>1 DEF Revert, End, Goto
<1>4. /\ log' \in Seq(Trees) /\ Len(log') = n + 1 /\ log'[n + 1] = log[i - 1]
      /\ \A m \in 1..n : log'[m] = log[m]
  BY <1>1, <1>3 DEF IInv, TypeOK
<1>5. HeadTree' = log[i - 1]
  BY <1>4 DEF HeadTree
<1>6. /\ work' \in Trees
      /\ \A f \in Files : work'[f] = IF f \in Changed(i) THEN log[i - 1][f] ELSE work[f]
  BY <1>1, TakeIs DEF Revert, IInv, TypeOK
<1>7. SavedUnlessHurt'
  <2>1. opf = {} /\ opf' = {}
    BY DEF Revert, IInv, CallInv, End, Goto
  <2>2. ASSUME NEW f \in Files \ hurt
        PROVE  work'[f] = log[i - 1][f]
    <3>1. work[f] = HeadTree[f]
      BY <2>1, <2>2 DEF IInv, SavedUnlessHurt
    <3>2. f \notin Changed(i) => log[i][f] = log[i - 1][f]
      BY DEF Changed
    <3> QED BY <1>1, <1>6, <3>1, <3>2
  <2> QED BY <1>3, <1>5, <2>1, <2>2 DEF SavedUnlessHurt
<1>8. Len(log') \in 1..MaxCommits
  BY <1>2, <1>4
<1>9. CASE i = uend + 1
  <2>1. End
    <3>1. Len(log') - utop = utop - uend
      BY <1>2, <1>4, <1>9
    <3> QED BY <3>1 DEF Revert
  <2>2. TypeOK'
    BY <1>3, <1>1, <1>4, <1>6, <1>8, <2>1, EndTypes DEF IInv, TypeOK
  <2> QED BY <1>7, <2>1, <2>2, EndOwesNothing DEF IInv
<1>10. CASE i # uend + 1
  <2>1. pc = "revert" /\ UNCHANGED <<pc, opf, old, utop, uend, calls>>
    <3>1. Len(log') - utop # utop - uend
      BY <1>2, <1>4, <1>10
    <3> QED BY <3>1 DEF Revert, Goto
  <2>2. TypeOK'
    BY <1>3, <1>1, <1>4, <1>6, <1>8, <2>1 DEF IInv, TypeOK
  <2>3. \A j \in 0..(Len(log') - utop') : log'[utop' + j] = log'[utop' - j]
    <3>1. utop' = utop /\ Len(log') - utop' = n + 1 - utop
      <4>1. utop' = utop
        BY <2>1
      <4>2. Len(log') = n + 1
        BY <1>4
      <4> QED BY <4>1, <4>2, <1>2
    <3>2. ASSUME NEW j \in 0..(n + 1 - utop)
          PROVE  log'[utop + j] = log'[utop - j]
      <4>1. CASE j = n + 1 - utop
        <5>1. utop + j = n + 1 /\ utop - j = i - 1 /\ i - 1 \in 1..n
          BY <4>1, <1>1, <1>2
        <5> QED BY <5>1, <1>4
      <4>2. CASE j # n + 1 - utop
        <5>1. j \in 0..(n - utop)
          BY <4>2, <1>2
        <5>2. log[utop + j] = log[utop - j]
          BY <5>1, <2>1 DEF IInv, UndoInv, UndoMirrors
        <5>3. utop + j \in 1..n /\ utop - j \in 1..n
          BY <5>1, <1>1, <1>2
        <5> QED BY <5>2, <5>3, <1>4
      <4> QED BY <4>1, <4>2
    <3> QED BY <3>1, <3>2
  <2>4. uend' >= 1 /\ utop' <= Len(log') /\ Len(log') - utop' < utop' - uend'
    BY <1>1, <1>2, <1>4, <1>10, <2>1
  <2>5. UndoInv'
    BY <2>3, <2>4 DEF UndoInv, UndoMirrors
  <2>6. CallInv'
    BY <2>1 DEF IInv, CallInv
  <2> QED BY <1>7, <2>2, <2>5, <2>6 DEF IInv
<1> QED BY <1>9, <1>10

\* A revert that is killed gives up the files it has touched.
LEMMA KillRevertStep ==
  ASSUME IInv, KillRevert
  PROVE  IInv'
<1> DEFINE i == ToRevert
<1>1. /\ HeadTree = log[i] /\ HeadTree \in Trees
      /\ log[i - 1] \in Trees /\ Reverted(i) = log[i - 1]
  BY RevertIs, HeadIs DEF IInv, KillRevert
<1>2. PICK done \in SUBSET Changed(i) :
        /\ work' = Take(work, done, Reverted(i))
        /\ index' = index \/ (done = Changed(i) /\ index' = Reverted(i))
        /\ hurt' = hurt \cup done
  BY DEF KillRevert
<1>3. End /\ opf = {} /\ UNCHANGED log /\ locked' \in BOOLEAN
  <2>1. locked' \in {locked, TRUE} /\ locked \in BOOLEAN
    BY DEF KillRevert, IInv, TypeOK
  <2> QED BY <2>1 DEF KillRevert, IInv, CallInv
<1>4. /\ work' \in Trees
      /\ \A f \in Files \ done : work'[f] = work[f]
  BY <1>1, <1>2, TakeIs DEF IInv, TypeOK
<1>5. /\ index' \in Trees
      /\ \A f \in Files \ done : index'[f] = index[f]
  <2>1. CASE index' = index
    BY <2>1 DEF IInv, TypeOK
  <2>2. CASE done = Changed(i) /\ index' = Reverted(i)
    <3>1. index = log[i]
      BY <1>1 DEF KillRevert, CanRevert
    <3>2. \A f \in Files \ done : log[i][f] = log[i - 1][f]
      BY <2>2 DEF Changed
    <3> QED BY <2>2, <3>1, <3>2, <1>1
  <2> QED BY <1>2, <2>1, <2>2
<1>6. TypeOK'
  <2>1. done \subseteq Files
    BY DEF Changed
  <2> QED BY <1>2, <1>3, <1>4, <1>5, <2>1, EndTypes DEF IInv, TypeOK
<1>7. SavedUnlessHurt'
  BY <1>2, <1>3, <1>4, <1>5, SameHead DEF IInv, SavedUnlessHurt, End
<1> QED BY <1>3, <1>6, <1>7, EndOwesNothing DEF IInv

-------------------------------------------------------------------------------
(* Theorems. *)

\* Every step keeps the invariant.
LEMMA StepInv == IInv /\ [Next]_vars => IInv'
<1> SUFFICES ASSUME IInv, [Next]_vars PROVE IInv'
  OBVIOUS
<1>1. CASE \/ \E f \in Files, x \in Texts : WriteFile(f, x) \/ Rewrite(f, x)
           \/ \E x \in Texts : RewriteFails(x)
  BY <1>1, OpenStep, RenameStep
<1>2. CASE \E f \in Files : Unlink(f)
  <2>1. PICK f \in Files : Unlink(f)
    BY <1>2
  <2>2. work[f] \in Texts
    BY <2>1 DEF Unlink, IInv, TypeOK, Trees
  <2> QED BY <2>1, <2>2, OpenStep
<1>3. CASE Add \/ Rm \/ AddNew
  BY <1>3, StageStep
<1>4. CASE CommitFile \/ CommitAll
  BY <1>4, CommitStep
<1>5. CASE GitFails \/ RevertFails \/ Kill
  BY <1>5, FailStep
<1>6. CASE (\E s, t \in Scopes : Move(s, t)) \/ AddNewFails \/ RmOld \/ RmOldFails
  BY <1>6, RenameStep
<1>7. CASE \E k \in 1..MaxUndo : UndoBegin(k)
  BY <1>7, UndoBeginStep
<1>8. CASE Revert \/ KillRevert
  BY <1>8, RevertStep, KillRevertStep
<1>9. CASE UNCHANGED vars
  BY <1>9, SameHead DEF vars, IInv, TypeOK, CallInv, UndoInv, UndoMirrors, SavedUnlessHurt
<1> QED BY <1>1, <1>2, <1>3, <1>4, <1>5, <1>6, <1>7, <1>8, <1>9 DEF Next

\* The inductive invariant holds for any vault and any length of its history.
THEOREM Inductive == Spec => []IInv
<1>1. Init => IInv
  BY InitInv
<1>2. IInv /\ [Next]_vars => IInv'
  BY StepInv
<1> QED BY <1>1, <1>2, PTL DEF Spec

\* The variables keep their types.
THEOREM TypeCorrect == Spec => []TypeOK
<1>1. IInv => TypeOK
  BY DEF IInv
<1> QED BY <1>1, Inductive, PTL

\* A failed or killed git command leaves at most its own call's files unsaved,
\* and the next call that succeeds on a file saves it.
THEOREM LostCommitsCostTheirFilesOnly == Spec => []SavedUnlessHurt
<1>1. IInv => SavedUnlessHurt
  BY DEF IInv
<1> QED BY <1>1, Inductive, PTL

\* An undo of any number of commits mirrors history, stays behind the init
\* commit, and so never meets a conflict.
THEOREM UndoWalksBack == Spec => []UndoMirrors
<1>1. IInv => UndoMirrors
  BY DEF IInv, UndoInv, UndoMirrors
<1> QED BY <1>1, Inductive, PTL

\* Steps that commit in a tool do it by CommitFile or CommitAll.
LEMMA CommitSteps ==
  ASSUME [Next]_vars, pc \in {"commit", "commitall"}, ~UNCHANGED log
  PROVE  (pc = "commit" /\ CommitFile) \/ (pc = "commitall" /\ CommitAll)
<1>1. UNCHANGED vars => UNCHANGED log
  BY DEF vars
<1> QED
  BY <1>1 DEF Next, Call, WriteFile, Rewrite, RewriteFails, Add, Unlink, Rm, GitFails, Move, AddNew,
     AddNewFails, RmOld, RmOldFails, UndoBegin, Revert, RevertFails, Kill,
     KillRevert, repoVars, CommitFile, CommitAll

\* A commit of one file takes no other along, and one of all that is staged
\* takes along only files that a failed call left.
THEOREM CommitsAreOwn == Spec => CommitsOwnFiles
<1>1. ASSUME IInv, [Next]_vars
      PROVE  /\ pc = "commit" => Changes \subseteq opf
             /\ pc = "commitall" => Changes \subseteq opf \cup hurt
  <2>1. CASE UNCHANGED log
    BY <2>1, SameHead DEF Changes
  <2>2. CASE pc = "commit" /\ CommitFile
    BY <1>1, <2>2, CommitFileIs DEF Changes
  <2>3. CASE pc = "commitall" /\ CommitAll
    <3>1. HeadTree' = index
      BY <1>1, <2>3, RecordIs DEF CommitAll, IInv, TypeOK
    <3> QED BY <1>1, <2>3, <3>1 DEF Changes, IInv, SavedUnlessHurt
  <2> QED BY <1>1, <2>1, <2>2, <2>3, CommitSteps
<1> QED BY <1>1, Inductive, PTL DEF Spec, CommitsOwnFiles
===============================================================================
