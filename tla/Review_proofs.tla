------------------------------ MODULE Review_proofs ------------------------------
(***************************************************************************)
(* Proofs about Review, for any files, texts, items, changes and bounds: the *)
(* order of a session, the list of the inbox, and that Review implements     *)
(* ReviewQueue.                                                              *)
(***************************************************************************)
EXTENDS Review, SequenceTheorems, WellFoundedInduction, TLAPS

-------------------------------------------------------------------------------
(* The inductive invariant. *)

\* What the tool in progress does next.
Saves == todo # None /\ todo.do = "save"
Settles == todo # None /\ todo.do \in {"mark", "archive"}

\* The questions of session s are settled in their order.
Ordered(s) ==
  \A k \in Slots :
    /\ k < s.at <=> s.status[k] # "pending"
    /\ k > s.at => s.change[k] = None
    /\ s.status[k] = "confirmed" => s.change[k] # None

\* The session about to be saved is a new one, or the current one after an answer.
Fresh ==
  /\ todo.next # None /\ todo.next.id = sid /\ todo.next.at = 1 /\ todo.fate = None
  /\ \A k \in Slots : qfate[<<sid, k>>] = "new"

Same ==
  /\ Live(session) /\ session.at <= session.n
  /\ todo.next = None => todo.fate # None
  /\ todo.next # None =>
       /\ todo.next.id = session.id /\ todo.next.n = session.n
       /\ todo.next.at = session.at + (IF todo.fate = None THEN 0 ELSE 1)

SessionInv ==
  /\ Live(session) => Ordered(session) /\ session.id <= sid
  /\ Saves => /\ todo.next # None => Ordered(todo.next)
              /\ Fresh \/ Same

\* The questions from the current one on are open, those of later sessions new.
FateInv ==
  /\ \A q \in Questions : q[1] > sid => qfate[q] = "new"
  /\ Live(session) => \A k \in Slots :
       k >= session.at /\ k <= session.n => qfate[<<session.id, k>>] = "open"

\* An item being settled is in the inbox; one that is marked or unreadable is so
\* because of that or because a call about it was cut short.
ItemInv ==
  /\ Settles => InInbox(todo.item)
  /\ Settles /\ todo.do = "archive" => items[todo.item].status = todo.status
  /\ \A i \in Items : items[i] = Broken => i \in stopped
  /\ \A i \in Items : InInbox(i) /\ items[i].status # "pending" =>
       i \in stopped \/ (Settles /\ todo.do = "archive" /\ todo.item = i)

\* A change that is not settled yet has been written.
CountInv == \A t \in Unsettled : times[t] >= 1

IInv == TypeOK /\ SessionInv /\ FateInv /\ ItemInv /\ CountInv

-------------------------------------------------------------------------------
(* Types. *)

LEMMA LiveSession ==
  ASSUME TypeOK, Live(session)
  PROVE  /\ session \in Session
         /\ session.id \in 1..MaxSessions /\ session.n \in 0..MaxQuestions
         /\ session.at \in 1..MaxQuestions + 1
         /\ session.status \in [Slots -> {"pending", "confirmed", "skipped"}]
         /\ session.change \in [Slots -> Changes \cup {None}]
         /\ session.file \in [Slots -> Files \cup {Ghost}]
BY DEF TypeOK, Live, Session

LEMMA SavedSession ==
  ASSUME NEW s \in Session
  PROVE  /\ s # None /\ s # Broken /\ Live(s)
         /\ s.id \in 1..MaxSessions /\ s.n \in 0..MaxQuestions
         /\ s.at \in 1..MaxQuestions + 1
BY FilesAssumption DEF Session, Live

LEMMA TodoTypes ==
  ASSUME TypeOK
  PROVE  /\ Saves => /\ todo \in ToSave /\ todo.next \in Session \cup {None}
                     /\ todo.fate \in {"accepted", "dismissed", None}
         /\ Settles => /\ todo \in ToFile /\ todo.item \in Items
                      /\ todo.status \in {"accepted", "rejected"}
         /\ todo = None \/ Saves \/ Settles
BY DEF TypeOK, Saves, Settles, ToSave, ToFile

LEMMA CurrentIsQuestion ==
  ASSUME TypeOK, Live(session), session.at <= session.n
  PROVE  /\ Current \in Questions /\ Current \in Things
         /\ session.at \in Slots /\ session.at + 1 \in 1..MaxQuestions + 1
         /\ session.at \in Nat /\ session.n \in Nat
BY LiveSession, BoundsAssumption DEF Current, Questions, Things, Slots

\* A piece that a sequence holds has a first place in it.
LEMMA FirstPlace ==
  ASSUME NEW seq \in Seq(Pieces), NEW text, Holds(seq, text)
  PROVE  \E k \in DOMAIN seq : seq[k] = text /\ \A j \in 1..(k - 1) : seq[j] # text
<1>. DEFINE T == {k \in DOMAIN seq : seq[k] = text}
<1>1. DOMAIN seq = 1..Len(seq) /\ Len(seq) \in Nat
  OBVIOUS
<1>2. T \subseteq Nat /\ T # {}
  BY <1>1 DEF Holds
<1>3. \E x \in T : \A y \in T : ~(<<y, x>> \in OpToRel(<, Nat))
  BY <1>2, NatLessThanWellFounded, WFMin
<1>4. PICK x \in T : \A y \in T : ~(<<y, x>> \in OpToRel(<, Nat))
  BY <1>3
<1>5. ASSUME NEW j \in 1..(x - 1), seq[j] = text PROVE FALSE
  <2>1. x \in Nat /\ j \in Nat /\ j < x /\ j \in DOMAIN seq
    BY <1>1, <1>2
  <2>2. j \in T /\ <<j, x>> \in OpToRel(<, Nat)
    BY <1>5, <2>1 DEF OpToRel
  <2>. QED  BY <1>4, <2>2
<1>. QED  BY <1>5

LEMMA ReplaceFirstType ==
  ASSUME NEW seq \in Seq(Pieces), NEW text, Holds(seq, text), NEW new \in Seq(Pieces)
  PROVE  ReplaceFirst(seq, text, new) \in Seq(Pieces)
<1>. DEFINE first == CHOOSE k \in DOMAIN seq :
                       seq[k] = text /\ \A j \in 1..(k - 1) : seq[j] # text
<1>1. first \in DOMAIN seq
  BY FirstPlace
<1>2. ReplaceFirst(seq, text, new)
        = SubSeq(seq, 1, first - 1) \o new \o SubSeq(seq, first + 1, Len(seq))
  BY DEF ReplaceFirst
<1>. HIDE DEF first
<1>3. /\ Len(seq) \in Nat /\ first \in 1..Len(seq)
      /\ \A k \in 1..(first - 1) : seq[k] \in Pieces
      /\ \A k \in (first + 1)..Len(seq) : seq[k] \in Pieces
  BY <1>1
<1>4. /\ SubSeq(seq, 1, first - 1) \in Seq(Pieces)
      /\ SubSeq(seq, first + 1, Len(seq)) \in Seq(Pieces)
  BY <1>3, SubSeqProperties
<1>5. SubSeq(seq, 1, first - 1) \o new \in Seq(Pieces)
  BY <1>4, ConcatProperties
<1>. QED  BY <1>2, <1>4, <1>5, ConcatProperties

\* The text of a file after a change.
LEMMA EditsType ==
  ASSUME NEW content \in [Sections -> Seq(Pieces)], NEW c \in Changes,
         NEW e \in Edits(content, c)
  PROVE  e \in [Sections -> Seq(Pieces)]
<1>1. /\ c.section \in Sections \cup {None} /\ c.new \in Seq(Pieces) /\ Updated \in Sections
  BY ChangesAssumption, NamesAssumption
<1>2. ASSUME NEW s \in Sections, Holds(content[s], c.old)
      PROVE  ReplaceFirst(content[s], c.old, c.new) \in Seq(Pieces)
  BY <1>1, <1>2, ReplaceFirstType
<1>. QED  BY <1>1, <1>2 DEF Edits

LEMMA ContentType ==
  ASSUME TypeOK
  PROVE  /\ Blank \in [Sections -> Seq(Pieces)]
         /\ \A f \in Files : ContentOf(f) \in [Sections -> Seq(Pieces)]
BY DEF TypeOK, Blank, ContentOf

LEMMA WriteFileType ==
  ASSUME TypeOK, NEW f, NEW content \in [Sections -> Seq(Pieces)], WriteFile(f, content)
  PROVE  /\ work' \in [Files -> [Sections -> Seq(Pieces)] \cup {None}]
         /\ age' \in [Files -> 0..StaleDays]
<1>1. 0 \in 0..StaleDays
  BY BoundsAssumption
<1>2. age \in [Files -> 0..StaleDays] /\ age' \in {age, [age EXCEPT ![f] = 0]}
  BY DEF TypeOK, WriteFile
<1>3. work \in [Files -> [Sections -> Seq(Pieces)] \cup {None}]
  BY DEF TypeOK
<1>4. work' = [work EXCEPT ![f] = content]
  BY DEF WriteFile
<1>5. age' \in [Files -> 0..StaleDays]
  BY <1>1, <1>2
<1>6. work' \in [Files -> [Sections -> Seq(Pieces)] \cup {None}]
  BY <1>3, <1>4
<1>. QED  BY <1>5, <1>6

\* Every call but a new session and a change of files that saves the session.
LEMMA SavingType ==
  ASSUME TypeOK, NEW next \in Session \cup {None}, NEW fate \in {"accepted", "dismissed", None},
         Saving(next, fate)
  PROVE  /\ todo' \in ToSave /\ todo' # None /\ Saves' /\ ~Settles'
         /\ todo'.next = next /\ todo'.fate = fate
         /\ UNCHANGED <<session, items, stops, qfate, cuts, stopped>>
<1>1. todo' = [do |-> "save", next |-> next, fate |-> fate]
  BY DEF Saving
<1>2. todo' \in ToSave
  BY <1>1 DEF ToSave
<1>3. todo' # None
  BY <1>2, FilesAssumption
<1>. QED  BY <1>1, <1>2, <1>3 DEF Saving, Saves, Settles

LEMMA AdvancedType ==
  ASSUME TypeOK, Live(session), session.at <= session.n,
         NEW status \in {"confirmed", "skipped"}
  PROVE  /\ Advanced(status) \in Session
         /\ Advanced(status).id = session.id /\ Advanced(status).n = session.n
         /\ Advanced(status).at = session.at + 1
         /\ Advanced(status).change = session.change
         /\ Advanced(status).status = [session.status EXCEPT ![session.at] = status]
BY LiveSession, CurrentIsQuestion DEF Advanced, Session

-------------------------------------------------------------------------------
(* Types are kept. *)

LEMMA StartType ==
  ASSUME TypeOK, NEW n, NEW file, Start(n, file)
  PROVE  /\ todo' = [do |-> "save", next |-> todo'.next, fate |-> None]
         /\ todo'.next \in Session /\ todo'.next.id = sid + 1 /\ todo'.next.at = 1
         /\ todo'.next.n = n
         /\ todo'.next.status = [k \in Slots |-> "pending"]
         /\ todo'.next.change = [k \in Slots |-> None]
         /\ todo' \in ToSave /\ todo' # None /\ Saves' /\ ~Settles' /\ todo'.fate = None
         /\ sid' = sid + 1 /\ sid' \in 1..MaxSessions /\ todo = None
         /\ UNCHANGED <<fileVars, session, items, stops, qfate, cuts, stopped, times>>
<1>. DEFINE next == [id |-> sid + 1, n |-> n, at |-> 1, file |-> file,
                     status |-> [k \in Slots |-> "pending"], change |-> [k \in Slots |-> None]]
<1>1. sid \in 0..MaxSessions /\ sid < MaxSessions /\ sid' = sid + 1 /\ sid + 1 \in 1..MaxSessions
  BY BoundsAssumption DEF TypeOK, Start
<1>2. n \in 0..MaxQuestions /\ file \in [Slots -> Files \cup {Ghost}]
  BY DEF Start, Asked
<1>3. 1 \in 1..MaxQuestions + 1
  BY BoundsAssumption
<1>4. next \in Session
  BY <1>1, <1>2, <1>3 DEF Session
<1>5. /\ Saving(next, None) /\ todo = None /\ UNCHANGED <<fileVars, times>>
  BY <1>1 DEF Start
<1>6. todo' = [do |-> "save", next |-> next, fate |-> None]
  BY <1>5 DEF Saving
<1>7. /\ todo' \in ToSave /\ todo' # None /\ Saves' /\ ~Settles'
      /\ UNCHANGED <<session, items, stops, qfate, cuts, stopped>>
  BY <1>4, <1>5, SavingType
<1>. QED  BY <1>1, <1>4, <1>5, <1>6, <1>7

LEMMA AdvancedOrdered ==
  ASSUME TypeOK, Live(session), session.at <= session.n, Ordered(session),
         NEW status \in {"confirmed", "skipped"},
         status = "confirmed" => session.change[session.at] # None
  PROVE  Ordered(Advanced(status))
<1>1. /\ session.at \in Nat /\ session.at \in Slots /\ Slots \subseteq Int
      /\ session.status \in [Slots -> {"pending", "confirmed", "skipped"}]
  BY LiveSession, CurrentIsQuestion DEF Slots
<1>2. /\ Advanced(status).at = session.at + 1 /\ Advanced(status).change = session.change
      /\ Advanced(status).status = [session.status EXCEPT ![session.at] = status]
  BY AdvancedType
<1>3. ASSUME NEW k \in Slots
      PROVE  /\ k < session.at + 1 <=> [session.status EXCEPT ![session.at] = status][k] # "pending"
             /\ k > session.at + 1 => session.change[k] = None
             /\ [session.status EXCEPT ![session.at] = status][k] = "confirmed"
                  => session.change[k] # None
  <2>1. CASE k = session.at
    BY <1>1, <2>1
  <2>2. CASE k # session.at
    <3>1. [session.status EXCEPT ![session.at] = status][k] = session.status[k]
      BY <1>1, <2>2
    <3>2. k \in Int /\ (k < session.at + 1 <=> k < session.at) /\ (k > session.at + 1 => k > session.at)
      BY <1>1, <2>2
    <3>. QED  BY <3>1, <3>2 DEF Ordered
  <2>. QED  BY <2>1, <2>2
<1>. QED  BY <1>2, <1>3 DEF Ordered

\* What a call that goes on with the session is about to save.
Continues(next, fate) ==
  /\ next \in Session \cup {None} /\ fate \in {"accepted", "dismissed", None}
  /\ next = None => fate # None
  /\ next # None =>
       /\ Ordered(next)
       /\ next.id = session.id /\ next.n = session.n
       /\ next.at = session.at + (IF fate = None THEN 0 ELSE 1)

LEMMA AnswerContinues ==
  ASSUME TypeOK, Live(session) => Ordered(session),
         AnswerSkips \/ Skip \/ Confirm \/ \E c \in Changes : AnswerDrafts(c)
  PROVE  /\ todo = None /\ Live(session) /\ session.at <= session.n
         /\ \E next, fate : Saving(next, fate) /\ Continues(next, fate)
                              /\ (fate = "accepted" <=> Confirm)
<1>1. todo = None /\ Live(session) /\ session.at <= session.n /\ Ordered(session)
  BY DEF AnswerSkips, Skip, Confirm, AnswerDrafts, Asking
<1>2. /\ session.at \in Slots /\ session.at \in Nat
      /\ session \in Session /\ session # None
      /\ session.change \in [Slots -> Changes \cup {None}]
  BY <1>1, LiveSession, CurrentIsQuestion, SavedSession
<1>3. ASSUME NEW status \in {"confirmed", "skipped"}, NEW fate \in {"accepted", "dismissed"},
             status = "confirmed" => session.change[session.at] # None
      PROVE  Continues(Advanced(status), fate) /\ Continues(Rest(status), fate)
  <2>1. Continues(Advanced(status), fate)
    BY <1>1, <1>3, AdvancedType, AdvancedOrdered, FilesAssumption DEF Continues
  <2>2. Continues(None, fate)
    BY FilesAssumption DEF Continues
  <2>. QED  BY <2>1, <2>2 DEF Rest
<1>4. CASE AnswerSkips
  <2>1. Saving(Advanced("skipped"), "dismissed") /\ Continues(Advanced("skipped"), "dismissed")
    BY <1>3, <1>4 DEF AnswerSkips
  <2>2. ~Confirm
    BY <1>4 DEF AnswerSkips, Confirm, Saving
  <2>. QED  BY <1>1, <2>1, <2>2
<1>5. CASE Skip
  <2>1. Saving(Rest("skipped"), "dismissed") /\ Continues(Rest("skipped"), "dismissed")
    BY <1>3, <1>5 DEF Skip
  <2>2. ~Confirm
    BY <1>5 DEF Skip, Confirm, Saving
  <2>. QED  BY <1>1, <2>1, <2>2
<1>6. CASE Confirm
  <2>1. Saving(Rest("confirmed"), "accepted") /\ Continues(Rest("confirmed"), "accepted")
    BY <1>3, <1>6 DEF Confirm
  <2>. QED  BY <1>1, <1>6, <2>1
<1>7. ASSUME NEW c \in Changes, AnswerDrafts(c)
      PROVE  \E next, fate : Saving(next, fate) /\ Continues(next, fate)
                               /\ (fate = "accepted" <=> Confirm)
  <2>. DEFINE next == [session EXCEPT !.change[session.at] = c]
  <2>1. /\ next \in Session /\ next.id = session.id /\ next.n = session.n
        /\ next.at = session.at /\ next.status = session.status
        /\ next.change = [session.change EXCEPT ![session.at] = c]
    BY <1>2 DEF Session
  <2>2. c # None /\ next # None
    BY <2>1, SavedSession, NamesAssumption
  <2>3. Ordered(next)
    <3>1. ASSUME NEW k \in Slots
          PROVE  /\ k < session.at <=> session.status[k] # "pending"
                 /\ k > session.at => [session.change EXCEPT ![session.at] = c][k] = None
                 /\ session.status[k] = "confirmed"
                      => [session.change EXCEPT ![session.at] = c][k] # None
      BY <1>1, <1>2, <2>2 DEF Ordered, Slots
    <3>. HIDE DEF next
    <3>. QED  BY <2>1, <3>1 DEF Ordered
  <2>4. Saving(next, None) /\ ~Confirm
    BY <1>7, FilesAssumption DEF AnswerDrafts, Confirm, Saving
  <2>. HIDE DEF next
  <2>5. Continues(next, None)
    BY <1>2, <2>1, <2>2, <2>3 DEF Continues
  <2>. QED  BY <2>4, <2>5, FilesAssumption
<1>. QED  BY <1>1, <1>4, <1>5, <1>6, <1>7

LEMMA FatesType ==
  ASSUME TypeOK, NEW next, NEW fate \in {"accepted", "dismissed", None}
  PROVE  FatesAfter(next, fate) \in
           [Questions -> {"new", "open", "accepted", "dismissed", "gone"}]
BY DEF TypeOK, FatesAfter

-------------------------------------------------------------------------------
(* Initial states and steps. *)

LEMMA IInvInit == Init => IInv
<1>. SUFFICES ASSUME Init PROVE IInv
  OBVIOUS
<1>1. TypeOK
  <2>1. work \in [Files -> [Sections -> Seq(Pieces)] \cup {None}]
    <3>1. ASSUME NEW s \in Sections, NEW t \in Texts
          PROVE  [Blank EXCEPT ![s] = <<t>>] \in [Sections -> Seq(Pieces)]
      <4>1. <<t>> \in Seq(Pieces) /\ Blank \in [Sections -> Seq(Pieces)]
        BY DEF Pieces, Blank
      <4>. QED  BY <4>1
    <3>2. work \in [Files -> {[Blank EXCEPT ![s] = <<t>>] : s \in Sections \ {Updated}, t \in Texts}]
      BY DEF Init
    <3>3. ASSUME NEW f \in Files PROVE work[f] \in [Sections -> Seq(Pieces)]
      <4>1. PICK s \in Sections, t \in Texts : work[f] = [Blank EXCEPT ![s] = <<t>>]
        BY <3>2
      <4>. QED  BY <3>1, <4>1
    <3>4. work = [f \in Files |-> work[f]]
      BY <3>2
    <3>. QED  BY <3>3, <3>4
  <2>2. /\ age \in [Files -> 0..StaleDays] /\ sid \in 0..MaxSessions /\ stops \in 0..MaxStops
    BY BoundsAssumption DEF Init
  <2>3. /\ session \in Session \cup {None, Broken} /\ items \in [Items -> Item \cup {None, Broken}]
        /\ todo \in ToSave \cup ToFile \cup {None} /\ stopped \subseteq Items
        /\ qfate \in [Questions -> {"new", "open", "accepted", "dismissed", "gone"}]
        /\ times \in [Things -> Nat] /\ cuts \in [Things -> Nat]
    BY DEF Init
  <2>. QED  BY <2>1, <2>2, <2>3 DEF TypeOK
<1>2. todo = None /\ session = None /\ \A i \in Items : items[i] = None
  BY DEF Init
<1>3. SessionInv /\ FateInv /\ CountInv
  BY <1>2 DEF SessionInv, FateInv, CountInv, Saves, Live, Unsettled, Init
<1>4. ItemInv
  BY <1>2, FilesAssumption DEF ItemInv, Settles, InInbox, Readable
<1>. QED  BY <1>1, <1>3, <1>4 DEF IInv

LEMMA IInvParts ==
  ASSUME IInv
  PROVE  TypeOK /\ SessionInv /\ FateInv /\ ItemInv /\ CountInv
BY DEF IInv

\* A change of files that no queue is about.
LEMMA FileOnly ==
  ASSUME IInv, work' \in [Files -> [Sections -> Seq(Pieces)] \cup {None}],
         age' \in [Files -> 0..StaleDays],
         UNCHANGED <<session, items, todo, sid, stops, histVars>>
  PROVE  IInv'
<1>1. TypeOK'
  BY DEF IInv, TypeOK, histVars
<1>2. SessionInv'
  BY DEF IInv, SessionInv, Saves, Live, Ordered, Fresh, Same, histVars
<1>3. FateInv'
  BY DEF IInv, FateInv, Live, histVars
<1>4. ItemInv'
  BY DEF IInv, ItemInv, Settles, InInbox, Readable, histVars
<1>5. CountInv'
  BY DEF IInv, CountInv, Unsettled, Current, histVars
<1>. QED  BY <1>1, <1>2, <1>3, <1>4, <1>5 DEF IInv

LEMMA OthersInv == IInv /\ Others => IInv'
<1>. SUFFICES ASSUME IInv, Others PROVE IInv'
  OBVIOUS
<1>1. /\ work \in [Files -> [Sections -> Seq(Pieces)] \cup {None}]
      /\ age \in [Files -> 0..StaleDays] /\ StaleDays \in Nat /\ TypeOK
  BY BoundsAssumption DEF IInv, TypeOK
<1>2. ASSUME NEW f \in Files, NEW s \in Sections, NEW body \in Bodies, Update(f, s, body)
      PROVE  IInv'
  <2>1. body \in Seq(Pieces)
    BY ChangesAssumption
  <2>2. [ContentOf(f) EXCEPT ![s] = body] \in [Sections -> Seq(Pieces)]
    BY <1>1, <2>1, ContentType
  <2>3. work' \in [Files -> [Sections -> Seq(Pieces)] \cup {None}] /\ age' \in [Files -> 0..StaleDays]
    <3>1. work' = [work EXCEPT ![f] = [ContentOf(f) EXCEPT ![s] = body]]
          /\ age' = [age EXCEPT ![f] = 0] /\ 0 \in 0..StaleDays
      BY <1>1, <1>2 DEF Update
    <3>2. work' \in [Files -> [Sections -> Seq(Pieces)] \cup {None}]
      BY <1>1, <2>2, <3>1
    <3>3. age' \in [Files -> 0..StaleDays]
      BY <1>1, <3>1
    <3>. QED  BY <3>2, <3>3
  <2>. QED  BY <1>2, <2>3, FileOnly DEF Update
<1>3. ASSUME NEW f \in Files, Delete(f) PROVE IInv'
  BY <1>1, <1>3, FileOnly DEF Delete
<1>4. CASE Day
  <2>1. age' \in [Files -> 0..StaleDays]
    BY <1>1, <1>4 DEF Day
  <2>. QED  BY <1>1, <1>4, <2>1, FileOnly DEF Day
<1>. QED  BY <1>2, <1>3, <1>4 DEF Others

\* A step that begins with no tool in progress and changes no item.
LEMMA ItemsKept ==
  ASSUME ItemInv, todo = None, UNCHANGED <<items, stopped>>, ~Settles'
  PROVE  ItemInv'
BY DEF ItemInv, Settles, InInbox, Readable

LEMMA StartInv ==
  ASSUME IInv, NEW n, NEW file, Start(n, file)
  PROVE  IInv'
<1>1. TypeOK /\ SessionInv /\ FateInv /\ ItemInv /\ CountInv
  BY IInvParts
<1>2. /\ todo'.next \in Session /\ todo'.next.id = sid + 1 /\ todo'.next.at = 1
      /\ todo'.next.status = [k \in Slots |-> "pending"]
      /\ todo'.next.change = [k \in Slots |-> None]
      /\ todo' \in ToSave /\ todo' # None /\ Saves' /\ ~Settles' /\ todo'.fate = None
      /\ sid' = sid + 1 /\ sid' \in 1..MaxSessions /\ sid \in Nat /\ todo = None
      /\ UNCHANGED <<work, age, session, items, stops, qfate, cuts, stopped, times>>
  BY <1>1, StartType, BoundsAssumption DEF fileVars, TypeOK
<1>3. TypeOK'
  BY <1>1, <1>2, BoundsAssumption DEF TypeOK
<1>4. SessionInv'
  <2>1. Ordered(todo'.next)
    BY <1>2, BoundsAssumption DEF Ordered, Slots
  <2>2. todo'.next # None
    BY <1>2, SavedSession
  <2>3. \A k \in Slots : <<sid + 1, k>> \in Questions
    BY <1>2 DEF Questions
  <2>4. \A k \in Slots : qfate[<<sid + 1, k>>] = "new"
    BY <1>1, <1>2, <2>3 DEF FateInv
  <2>5. Fresh'
    BY <1>2, <2>2, <2>4 DEF Fresh
  <2>6. Live(session)' => Ordered(session)' /\ session'.id <= sid'
    BY <1>1, <1>2, LiveSession DEF SessionInv, Live, Ordered
  <2>. QED  BY <1>2, <2>1, <2>5, <2>6 DEF SessionInv, Ordered
<1>5. FateInv'
  BY <1>1, <1>2 DEF FateInv, Live, Questions
<1>6. ItemInv'
  BY <1>1, <1>2, ItemsKept
<1>7. CountInv'
  BY <1>2, FilesAssumption DEF CountInv, Unsettled, Saves
<1>. QED  BY <1>3, <1>4, <1>5, <1>6, <1>7 DEF IInv

\* What an answer that confirms writes; the others write nothing.
LEMMA AnswerWrites ==
  ASSUME TypeOK, AnswerSkips \/ Skip \/ Confirm \/ \E c \in Changes : AnswerDrafts(c)
  PROVE  /\ work' \in [Files -> [Sections -> Seq(Pieces)] \cup {None}]
         /\ age' \in [Files -> 0..StaleDays] /\ sid' = sid
         /\ times' \in [Things -> Nat]
         /\ ~Confirm => times' = times
         /\ Confirm => times' = [times EXCEPT ![Current] = @ + 1] /\ times'[Current] >= 1
<1>1. /\ work \in [Files -> [Sections -> Seq(Pieces)] \cup {None}]
      /\ age \in [Files -> 0..StaleDays] /\ times \in [Things -> Nat]
  BY DEF TypeOK
<1>2. CASE Confirm
  <2>1. Live(session) /\ session.at <= session.n /\ session.change[session.at] # None
    BY <1>2 DEF Confirm, Asking
  <2>2. /\ session.at \in Slots /\ Current \in Things
        /\ session.change \in [Slots -> Changes \cup {None}]
    BY <2>1, LiveSession, CurrentIsQuestion
  <2>3. session.change[session.at] \in Changes
    BY <2>1, <2>2
  <2>4. PICK content \in Edits(ContentOf(session.file[session.at]), session.change[session.at]) :
          WriteFile(session.file[session.at], content)
    BY <1>2 DEF Confirm
  <2>5. session.file[session.at] \in Files => content \in [Sections -> Seq(Pieces)]
    BY <2>3, <2>4, ContentType, EditsType
  <2>6. /\ work' \in [Files -> [Sections -> Seq(Pieces)] \cup {None}]
        /\ age' \in [Files -> 0..StaleDays]
    <3>1. CASE session.file[session.at] \in Files
      BY <2>4, <2>5, <3>1, WriteFileType
    <3>2. CASE session.file[session.at] \notin Files
      <4>1. work' = work /\ age' = age
        BY <1>1, <2>4, <3>2 DEF WriteFile
      <4>. QED  BY <1>1, <4>1
    <3>. QED  BY <3>1, <3>2
  <2>7. times' = [times EXCEPT ![Current] = @ + 1] /\ sid' = sid
    BY <1>2 DEF Confirm
  <2>8. times' \in [Things -> Nat] /\ times'[Current] >= 1
    BY <1>1, <2>2, <2>7
  <2>. QED  BY <1>2, <2>6, <2>7, <2>8
<1>3. CASE ~Confirm
  <2>1. UNCHANGED <<work, age, sid, times>>
    BY <1>3 DEF AnswerSkips, Skip, AnswerDrafts, fileVars
  <2>. QED  BY <1>1, <1>3, <2>1
<1>. QED  BY <1>2, <1>3

LEMMA AnswerInv ==
  ASSUME IInv, AnswerSkips \/ Skip \/ Confirm \/ \E c \in Changes : AnswerDrafts(c)
  PROVE  IInv'
<1>1. TypeOK /\ SessionInv /\ FateInv /\ ItemInv /\ CountInv
  BY IInvParts
<1>2. Live(session) => Ordered(session)
  BY <1>1 DEF SessionInv
<1>3. /\ todo = None /\ Live(session) /\ session.at <= session.n
      /\ \E next, fate : Saving(next, fate) /\ Continues(next, fate)
                           /\ (fate = "accepted" <=> Confirm)
  BY <1>1, <1>2, AnswerContinues
<1>4. PICK next, fate : Saving(next, fate) /\ Continues(next, fate)
                           /\ (fate = "accepted" <=> Confirm)
  BY <1>3
<1>5. /\ todo' \in ToSave /\ todo' # None /\ Saves' /\ ~Settles'
      /\ todo'.next = next /\ todo'.fate = fate
      /\ UNCHANGED <<session, items, stops, qfate, cuts, stopped>>
  BY <1>1, <1>4, SavingType DEF Continues
<1>6. /\ work' \in [Files -> [Sections -> Seq(Pieces)] \cup {None}]
      /\ age' \in [Files -> 0..StaleDays] /\ sid' = sid
      /\ times' \in [Things -> Nat]
      /\ Confirm => times'[Current] >= 1
  BY <1>1, AnswerWrites
<1>7. TypeOK'
  BY <1>1, <1>5, <1>6 DEF TypeOK
<1>8. SessionInv'
  <2>1. Live(session)' => Ordered(session)' /\ session'.id <= sid'
    BY <1>1, <1>5, <1>6 DEF SessionInv, Live, Ordered
  <2>2. todo'.next # None => Ordered(todo'.next)
    BY <1>4, <1>5 DEF Continues
  <2>3. Same'
    <3>1. /\ next = None => fate # None
          /\ next # None => /\ next.id = session.id /\ next.n = session.n
                            /\ next.at = session.at + (IF fate = None THEN 0 ELSE 1)
      BY <1>4 DEF Continues
    <3>2. Live(session)' /\ session' = session
      BY <1>3, <1>5 DEF Live
    <3>. QED  BY <1>3, <1>5, <3>1, <3>2 DEF Same
  <2>. QED  BY <2>1, <2>2, <2>3 DEF SessionInv, Ordered
<1>9. FateInv'
  BY <1>1, <1>5, <1>6 DEF FateInv, Live
<1>10. ItemInv'
  BY <1>1, <1>3, <1>5, ItemsKept
<1>11. CountInv'
  <2>1. Unsettled' \subseteq (IF Confirm THEN {Current} ELSE {})
    BY <1>4, <1>5 DEF Unsettled, Saves, Current
  <2>. QED  BY <1>6, <2>1 DEF CountInv
<1>. QED  BY <1>7, <1>8, <1>9, <1>10, <1>11 DEF IInv

LEMMA EndInv == IInv /\ End => IInv'
<1>. SUFFICES ASSUME IInv, End PROVE IInv'
  OBVIOUS
<1>1. TypeOK /\ SessionInv /\ FateInv /\ ItemInv /\ CountInv
  BY IInvParts
<1>2. todo = None /\ session' = None /\ UNCHANGED <<work, age, items, todo, sid, stops, qfate, times, cuts, stopped>>
  BY DEF End, fileVars, histVars
<1>3. TypeOK'
  BY <1>1, <1>2 DEF TypeOK
<1>4. SessionInv' /\ FateInv' /\ CountInv'
  BY <1>1, <1>2 DEF SessionInv, FateInv, CountInv, Saves, Live, Unsettled
<1>5. ItemInv'
  BY <1>1, <1>2, ItemsKept DEF Settles
<1>. QED  BY <1>3, <1>4, <1>5 DEF IInv

\* The session is saved: its open questions are those from the new position on.
LEMMA SaveInv == IInv /\ Save => IInv'
<1>. SUFFICES ASSUME IInv, Save PROVE IInv'
  OBVIOUS
<1>1. TypeOK /\ SessionInv /\ FateInv /\ ItemInv /\ CountInv
  BY IInvParts
<1>2. /\ Saves /\ ~Settles /\ session' = todo.next /\ qfate' = FatesAfter(todo.next, todo.fate) /\ todo' = None
      /\ UNCHANGED <<work, age, items, sid, stops, times, cuts, stopped>>
  BY DEF Save, Saves, Settles, fileVars
<1>3. /\ todo.next \in Session \cup {None} /\ todo.fate \in {"accepted", "dismissed", None}
      /\ sid \in Nat
  BY <1>1, <1>2, TodoTypes, BoundsAssumption DEF TypeOK
<1>4. TypeOK'
  BY <1>1, <1>2, <1>3, FatesType DEF TypeOK
<1>5. /\ todo.next # None => Ordered(todo.next) /\ todo.next.id <= sid
      /\ Fresh \/ Same
  BY <1>1, <1>2, <1>3 DEF SessionInv, Fresh, Same
<1>6. Live(session)' <=> todo.next # None
  BY <1>2, <1>3, SavedSession, FilesAssumption DEF Live
<1>7. SessionInv'
  BY <1>2, <1>5, <1>6 DEF SessionInv, Saves, Ordered
<1>8. FateInv'
  <2>1. ASSUME NEW q \in Questions, q[1] > sid PROVE qfate'[q] = "new"
    <3>1. qfate[q] = "new"
      BY <1>1, <2>1 DEF FateInv
    <3>2. q[1] \in Nat /\ (q # Current \/ todo.fate = None)
      <4>1. CASE Fresh
        BY <4>1, q[1] \in 1..MaxSessions DEF Fresh, Questions
      <4>2. CASE Same
        <5>1. session.id <= sid /\ session.id \in Int /\ q[1] \in Nat
          BY <1>1, <4>2, LiveSession, BoundsAssumption DEF SessionInv, Same, Questions
        <5>. QED  BY <1>3, <2>1, <5>1 DEF Current
      <4>. QED  BY <1>5, <4>1, <4>2
    <3>3. Live(todo.next) => q[1] # todo.next.id
      <4>1. ASSUME todo.next # None PROVE todo.next.id <= sid /\ todo.next.id \in Int /\ q[1] \in Int
        BY <1>3, <1>5, <4>1, SavedSession, BoundsAssumption DEF Questions
      <4>. QED  BY <1>3, <2>1, <4>1, FilesAssumption DEF Live
    <3>. QED  BY <1>2, <3>1, <3>2, <3>3 DEF FatesAfter
  <2>2. ASSUME todo.next # None, NEW k \in Slots, k >= todo.next.at, k <= todo.next.n
        PROVE  qfate'[<<todo.next.id, k>>] = "open"
    <3>. DEFINE q == <<todo.next.id, k>>
    <3>1. q \in Questions /\ Live(todo.next) /\ k \in Nat
      BY <1>3, <2>2, SavedSession, BoundsAssumption DEF Questions, Slots
    <3>2. (qfate[q] = "new" \/ qfate[q] = "open") /\ (q # Current \/ todo.fate = None)
      <4>1. CASE Fresh
        BY <2>2, <4>1 DEF Fresh
      <4>2. CASE Same
        <5>1. /\ todo.next.id = session.id /\ todo.next.n = session.n
              /\ todo.next.at = session.at + (IF todo.fate = None THEN 0 ELSE 1)
              /\ session.at \in Nat /\ session.n \in Nat /\ Live(session)
          BY <1>1, <2>2, <4>2, CurrentIsQuestion DEF Same
        <5>2. k >= session.at /\ k <= session.n /\ (todo.fate = None \/ k # session.at)
          BY <2>2, <3>1, <5>1
        <5>. QED  BY <1>1, <2>2, <5>1, <5>2 DEF FateInv, Current
      <4>. QED  BY <1>5, <4>1, <4>2
    <3>. QED  BY <1>2, <2>2, <3>1, <3>2 DEF FatesAfter
  <2>. QED  BY <1>2, <1>6, <2>1, <2>2 DEF FateInv
<1>9. ItemInv'
  BY <1>1, <1>2 DEF ItemInv, Settles, InInbox, Readable
<1>10. CountInv'
  BY <1>2 DEF CountInv, Unsettled
<1>. QED  BY <1>4, <1>7, <1>8, <1>9, <1>10 DEF IInv

\* What an item is, and what one that can be read is.
LEMMA ItemTypes ==
  ASSUME TypeOK, NEW i \in Items
  PROVE  /\ items[i] \in Item \cup {None, Broken}
         /\ Readable(i) => items[i] \in Item
         /\ \A x \in Item : x # None /\ x # Broken
         /\ None # Broken
BY FilesAssumption DEF TypeOK, Readable

\* A step about an item that leaves the session alone.
LEMMA SessionKept ==
  ASSUME SessionInv, FateInv, UNCHANGED <<session, qfate, sid>>, ~Saves'
  PROVE  SessionInv' /\ FateInv'
BY DEF SessionInv, FateInv, Live, Ordered

LEMMA AddInv ==
  ASSUME IInv, NEW i \in Items, Add(i)
  PROVE  IInv'
<1>1. TypeOK /\ SessionInv /\ FateInv /\ ItemInv /\ CountInv
  BY IInvParts
<1>. DEFINE new == [where |-> "inbox", status |-> "pending"]
<1>2. /\ todo = None /\ items' = [items EXCEPT ![i] = new]
      /\ UNCHANGED <<work, age, session, todo, sid, stops, qfate, times, cuts, stopped>>
  BY DEF Add, fileVars, histVars
<1>3. new \in Item /\ new.status = "pending" /\ ~Settles' /\ ~Saves'
  BY <1>2 DEF Item, Settles, Saves
<1>4. items \in [Items -> Item \cup {None, Broken}] /\ new # Broken
  BY <1>1, <1>3, ItemTypes DEF TypeOK
<1>. HIDE DEF new
<1>5. items' \in [Items -> Item \cup {None, Broken}]
  BY <1>2, <1>3, <1>4
<1>6. TypeOK'
  BY <1>1, <1>2, <1>5 DEF TypeOK
<1>7. ItemInv'
  <2>1. ASSUME NEW j \in Items PROVE items'[j] = (IF j = i THEN new ELSE items[j])
    BY <1>2, <1>4
  <2>. QED  BY <1>1, <1>2, <1>3, <1>4, <2>1 DEF ItemInv, InInbox, Readable, Settles
<1>8. SessionInv' /\ FateInv' /\ CountInv'
  BY <1>1, <1>2, <1>3, SessionKept DEF CountInv, Unsettled
<1>. QED  BY <1>6, <1>7, <1>8 DEF IInv

LEMMA AcceptType ==
  ASSUME TypeOK, NEW i \in Items, Accept(i)
  PROVE  /\ work' \in [Files -> [Sections -> Seq(Pieces)] \cup {None}]
         /\ age' \in [Files -> 0..StaleDays]
         /\ times' \in [Things -> Nat] /\ times'[i] >= 1
<1>. DEFINE f == TargetOf[i][1]
            s == TargetOf[i][2]
            new == [ContentOf(f) EXCEPT ![s] = Append(@, i)]
<1>1. f \in Files /\ s \in Sections
  BY NamesAssumption DEF Accept
<1>2. ContentOf(f) \in [Sections -> Seq(Pieces)] /\ i \in Pieces
  BY <1>1, ContentType DEF Pieces
<1>3. Append(ContentOf(f)[s], i) \in Seq(Pieces)
  BY <1>1, <1>2, ContentOf(f)[s] \in Seq(Pieces)
<1>4. new \in [Sections -> Seq(Pieces)]
  BY <1>1, <1>2, <1>3
<1>5. WriteFile(f, new)
  BY DEF Accept
<1>. HIDE DEF f, new
<1>6. times \in [Things -> Nat] /\ i \in Things /\ times' = [times EXCEPT ![i] = @ + 1]
  BY DEF TypeOK, Things, Accept
<1>. QED  BY <1>4, <1>5, <1>6, WriteFileType

LEMMA AcceptRejectInv ==
  ASSUME IInv, NEW i \in Items, Accept(i) \/ Reject(i)
  PROVE  IInv'
<1>1. TypeOK /\ SessionInv /\ FateInv /\ ItemInv /\ CountInv
  BY IInvParts
<1>2. PICK status \in {"accepted", "rejected"} :
        /\ todo' = [do |-> "mark", item |-> i, status |-> status]
        /\ status = "accepted" => Accept(i)
  <2>1. CASE Accept(i)
    BY <2>1 DEF Accept
  <2>2. CASE Reject(i)
    BY <2>2 DEF Reject
  <2>. QED  BY <2>1, <2>2
<1>3. /\ todo = None /\ InInbox(i)
      /\ UNCHANGED <<session, items, sid, stops, qfate, cuts, stopped>>
  BY DEF Accept, Reject, histVars
<1>4. /\ todo' \in ToFile /\ todo' # None
      /\ todo'.do = "mark" /\ todo'.item = i /\ todo'.status = status
  BY <1>2, FilesAssumption DEF ToFile
<1>5. /\ work' \in [Files -> [Sections -> Seq(Pieces)] \cup {None}]
      /\ age' \in [Files -> 0..StaleDays] /\ times' \in [Things -> Nat]
      /\ status = "accepted" => times'[i] >= 1
  <2>1. CASE Accept(i)
    BY <1>1, <2>1, AcceptType
  <2>2. CASE ~Accept(i)
    BY <1>1, <1>2, <2>2 DEF Reject, fileVars, histVars, TypeOK
  <2>. QED  BY <2>1, <2>2
<1>6. TypeOK'
  BY <1>1, <1>3, <1>4, <1>5 DEF TypeOK
<1>7. SessionInv' /\ FateInv'
  BY <1>1, <1>3, <1>4, SessionKept DEF Saves
<1>8. ItemInv'
  BY <1>1, <1>3, <1>4 DEF ItemInv, InInbox, Readable, Settles
<1>9. CountInv'
  BY <1>4, <1>5 DEF CountInv, Unsettled
<1>. QED  BY <1>6, <1>7, <1>8, <1>9 DEF IInv

\* A tool about an item marks it and moves it.
LEMMA MarkInv == IInv /\ Mark => IInv'
<1>. SUFFICES ASSUME IInv, Mark PROVE IInv'
  OBVIOUS
<1>1. TypeOK /\ SessionInv /\ FateInv /\ ItemInv /\ CountInv
  BY IInvParts
<1>2. /\ Settles /\ todo.do = "mark" /\ todo' = [todo EXCEPT !.do = "archive"]
      /\ items' = [items EXCEPT ![todo.item].status = todo.status]
      /\ UNCHANGED <<work, age, session, sid, stops, qfate, times, cuts, stopped>>
  BY DEF Mark, Settles, fileVars, histVars
<1>3. /\ todo \in ToFile /\ todo.item \in Items /\ todo.status \in {"accepted", "rejected"}
      /\ items[todo.item] \in Item /\ items[todo.item].where = "inbox"
      /\ items \in [Items -> Item \cup {None, Broken}]
  BY <1>1, <1>2, TodoTypes, ItemTypes DEF ItemInv, InInbox, TypeOK
<1>. DEFINE new == [items[todo.item] EXCEPT !.status = todo.status]
<1>4. new \in Item /\ new.status = todo.status /\ new.where = "inbox"
  BY <1>3 DEF Item
<1>5. items' = [items EXCEPT ![todo.item] = new]
  BY <1>2
<1>. HIDE DEF new
<1>6. /\ todo' \in ToFile /\ todo' # None /\ todo'.do = "archive"
      /\ todo'.item = todo.item /\ todo'.status = todo.status
  BY <1>2, <1>3, FilesAssumption DEF ToFile
<1>7. TypeOK'
  <2>1. items' \in [Items -> Item \cup {None, Broken}]
    BY <1>3, <1>4, <1>5
  <2>. QED  BY <1>1, <1>2, <1>6, <2>1 DEF TypeOK
<1>8. SessionInv' /\ FateInv'
  BY <1>1, <1>2, <1>6, SessionKept DEF Saves
<1>9. ItemInv'
  <2>1. ASSUME NEW j \in Items
        PROVE  items'[j] = (IF j = todo.item THEN new ELSE items[j])
    BY <1>3, <1>5
  <2>2. new # None /\ new # Broken
    BY <1>1, <1>3, <1>4, ItemTypes
  <2>. QED  BY <1>1, <1>2, <1>3, <1>4, <1>6, <2>1, <2>2 DEF ItemInv, InInbox, Readable, Settles
<1>10. CountInv'
  BY <1>1, <1>2, <1>6 DEF CountInv, Unsettled, Settles
<1>. QED  BY <1>7, <1>8, <1>9, <1>10 DEF IInv

LEMMA ArchiveInv == IInv /\ Archive => IInv'
<1>. SUFFICES ASSUME IInv, Archive PROVE IInv'
  OBVIOUS
<1>1. TypeOK /\ SessionInv /\ FateInv /\ ItemInv /\ CountInv
  BY IInvParts
<1>2. /\ Settles /\ todo.do = "archive" /\ todo' = None
      /\ items' = [items EXCEPT ![todo.item].where = "archive"]
      /\ UNCHANGED <<work, age, session, sid, stops, qfate, times, cuts, stopped>>
  BY DEF Archive, Settles, fileVars, histVars
<1>3. /\ todo.item \in Items
      /\ items[todo.item] \in Item
      /\ items \in [Items -> Item \cup {None, Broken}]
  BY <1>1, <1>2, TodoTypes, ItemTypes DEF ItemInv, InInbox, TypeOK
<1>. DEFINE new == [items[todo.item] EXCEPT !.where = "archive"]
<1>4. new \in Item /\ new.where = "archive"
  BY <1>3 DEF Item
<1>5. items' = [items EXCEPT ![todo.item] = new]
  BY <1>2
<1>. HIDE DEF new
<1>6. TypeOK'
  <2>1. items' \in [Items -> Item \cup {None, Broken}]
    BY <1>3, <1>4, <1>5
  <2>. QED  BY <1>1, <1>2, <2>1 DEF TypeOK
<1>7. SessionInv' /\ FateInv'
  BY <1>1, <1>2, SessionKept DEF Saves
<1>8. ItemInv'
  <2>1. ASSUME NEW j \in Items
        PROVE  items'[j] = (IF j = todo.item THEN new ELSE items[j])
    BY <1>3, <1>5
  <2>2. new # None /\ new # Broken
    BY <1>1, <1>3, <1>4, ItemTypes
  <2>. QED  BY <1>1, <1>2, <1>3, <1>4, <2>1, <2>2 DEF ItemInv, InInbox, Readable, Settles
<1>9. CountInv'
  BY <1>2 DEF CountInv, Unsettled
<1>. QED  BY <1>6, <1>7, <1>8, <1>9 DEF IInv

-------------------------------------------------------------------------------
(* Calls cut short. *)

\* What every call that is cut short leaves: no tool in progress.
LEMMA StopLeaves ==
  ASSUME IInv, Stop, session' \in {session, Broken}
  PROVE  /\ stops' \in 0..MaxStops /\ todo' = None /\ sid' = sid /\ times' = times
         /\ ~Saves' /\ ~Settles' /\ CountInv' /\ SessionInv'
<1>1. /\ TypeOK /\ SessionInv /\ stops \in 0..MaxStops
  BY DEF IInv, TypeOK
<1>2. /\ todo' = None /\ sid' = sid /\ times' = times
      /\ stops < MaxStops /\ stops' = stops + 1
  BY DEF Stop
<1>3. stops' \in 0..MaxStops
  BY <1>1, <1>2, BoundsAssumption
<1>4. ~Saves' /\ ~Settles' /\ CountInv'
  BY <1>2 DEF Saves, Settles, CountInv, Unsettled
<1>5. SessionInv'
  BY <1>1, <1>2, <1>4 DEF SessionInv, Live, Ordered
<1>. QED  BY <1>2, <1>3, <1>4, <1>5

LEMMA StopSaveInv == IInv /\ StopSave => IInv'
<1>. SUFFICES ASSUME IInv, StopSave PROVE IInv'
  OBVIOUS
<1>1. TypeOK /\ SessionInv /\ FateInv /\ ItemInv
  BY IInvParts
<1>2. /\ Stop /\ session' \in {session, Broken}
      /\ UNCHANGED <<work, age, items, stopped>> /\ Saves /\ ~Settles
  BY DEF StopSave, fileVars, Saves, Settles
<1>3. /\ stops' \in 0..MaxStops /\ todo' = None /\ sid' = sid /\ times' = times
      /\ ~Saves' /\ ~Settles' /\ CountInv' /\ SessionInv'
  BY <1>2, StopLeaves
<1>4. cuts' \in [Things -> Nat]
  <2>1. cuts \in [Things -> Nat]
    BY <1>1 DEF TypeOK
  <2>2. cuts' = cuts \/ cuts' = [cuts EXCEPT ![Current] = @ + 1]
    BY DEF StopSave
  <2>. QED  BY <2>1, <2>2
<1>5. qfate' = qfate \/ (session' = Broken /\ qfate' = FatesAfter(Broken, None))
  BY <1>2 DEF StopSave
<1>6. TypeOK'
  BY <1>1, <1>2, <1>3, <1>4, <1>5, FatesType DEF TypeOK
<1>7. FateInv'
  <2>1. session' = session => qfate' = qfate
    BY DEF StopSave
  <2>2. \A q \in Questions : qfate[q] = "new" => qfate'[q] = "new"
    BY <1>5 DEF FatesAfter, Live
  <2>. QED  BY <1>1, <1>2, <1>3, <2>1, <2>2 DEF FateInv, Live
<1>8. ItemInv'
  BY <1>1, <1>2, <1>3 DEF ItemInv, InInbox, Readable, Settles
<1>. QED  BY <1>3, <1>6, <1>7, <1>8 DEF IInv

LEMMA StopItemInv == IInv /\ StopItem => IInv'
<1>. SUFFICES ASSUME IInv, StopItem PROVE IInv'
  OBVIOUS
<1>1. TypeOK /\ SessionInv /\ FateInv /\ ItemInv
  BY IInvParts
<1>2. /\ Stop /\ Settles /\ stopped' = stopped \cup {todo.item}
      /\ items' = items \/ items' = [items EXCEPT ![todo.item] = Broken]
      /\ UNCHANGED <<work, age, session, qfate>>
  BY DEF StopItem, fileVars, Settles
<1>3. /\ stops' \in 0..MaxStops /\ todo' = None /\ sid' = sid /\ times' = times
      /\ ~Saves' /\ ~Settles' /\ CountInv' /\ SessionInv'
  BY <1>2, StopLeaves
<1>4. /\ todo.item \in Items /\ cuts \in [Things -> Nat]
      /\ items \in [Items -> Item \cup {None, Broken}] /\ stopped \subseteq Items
  BY <1>1, <1>2, TodoTypes DEF TypeOK
<1>5. cuts' \in [Things -> Nat]
  <2>1. cuts' = cuts \/ cuts' = [cuts EXCEPT ![todo.item] = @ + 1]
    BY DEF StopItem
  <2>. QED  BY <1>4, <2>1
<1>6. TypeOK'
  BY <1>1, <1>2, <1>3, <1>4, <1>5 DEF TypeOK
<1>7. FateInv'
  BY <1>1, <1>2, <1>3 DEF FateInv, Live
<1>8. ItemInv'
  <2>1. ASSUME NEW j \in Items
        PROVE  items'[j] = items[j] \/ (j = todo.item /\ items'[j] = Broken)
    BY <1>2, <1>4
  <2>. QED  BY <1>1, <1>2, <1>3, <2>1 DEF ItemInv, InInbox, Readable
<1>. QED  BY <1>3, <1>6, <1>7, <1>8 DEF IInv

LEMMA StopAddInv ==
  ASSUME IInv, NEW i \in Items, StopAdd(i)
  PROVE  IInv'
<1>1. TypeOK /\ SessionInv /\ FateInv /\ ItemInv
  BY IInvParts
<1>2. /\ Stop /\ ~Settles /\ stopped' = stopped \cup {i}
      /\ items' = [items EXCEPT ![i] = Broken]
      /\ UNCHANGED <<work, age, session, qfate, cuts>>
  BY DEF StopAdd, fileVars, Settles
<1>3. /\ stops' \in 0..MaxStops /\ todo' = None /\ sid' = sid /\ times' = times
      /\ ~Saves' /\ ~Settles' /\ CountInv' /\ SessionInv'
  BY <1>2, StopLeaves
<1>4. items \in [Items -> Item \cup {None, Broken}] /\ stopped \subseteq Items
  BY <1>1 DEF TypeOK
<1>5. TypeOK'
  BY <1>1, <1>2, <1>3, <1>4 DEF TypeOK
<1>6. FateInv'
  BY <1>1, <1>2, <1>3 DEF FateInv, Live
<1>7. ItemInv'
  <2>1. ASSUME NEW j \in Items
        PROVE  items'[j] = (IF j = i THEN Broken ELSE items[j])
    BY <1>2, <1>4
  <2>. QED  BY <1>1, <1>2, <1>3, <2>1 DEF ItemInv, InInbox, Readable
<1>. QED  BY <1>3, <1>5, <1>6, <1>7 DEF IInv

LEMMA StopWriteInv ==
  ASSUME IInv, NEW f \in Files, StopWrite(f)
  PROVE  IInv'
<1>1. TypeOK /\ SessionInv /\ FateInv /\ ItemInv
  BY IInvParts
<1>2. /\ Stop /\ todo = None /\ work' = [work EXCEPT ![f] = Blank]
      /\ UNCHANGED <<age, session, items, qfate, cuts, stopped>>
  BY DEF StopWrite
<1>3. /\ stops' \in 0..MaxStops /\ todo' = None /\ sid' = sid /\ times' = times
      /\ ~Saves' /\ ~Settles' /\ CountInv' /\ SessionInv'
  BY <1>2, StopLeaves
<1>4. work' \in [Files -> [Sections -> Seq(Pieces)] \cup {None}]
  BY <1>1, <1>2, ContentType DEF TypeOK
<1>5. TypeOK'
  BY <1>1, <1>2, <1>3, <1>4 DEF TypeOK
<1>6. FateInv'
  BY <1>1, <1>2, <1>3 DEF FateInv, Live
<1>7. ItemInv'
  BY <1>1, <1>2, <1>3, ItemsKept
<1>. QED  BY <1>3, <1>5, <1>6, <1>7 DEF IInv

LEMMA IInvNext == IInv /\ [Next]_vars => IInv'
<1>. SUFFICES ASSUME IInv, [Next]_vars PROVE IInv'
  OBVIOUS
<1>1. CASE Maintain
  BY <1>1, StartInv, AnswerInv, EndInv, SaveInv DEF Maintain
<1>2. CASE Inbox
  BY <1>2, AddInv, AcceptRejectInv, MarkInv, ArchiveInv DEF Inbox
<1>3. CASE CutsShort
  BY <1>3, StopSaveInv, StopItemInv, StopAddInv, StopWriteInv DEF CutsShort
<1>4. CASE Others
  BY <1>4, OthersInv
<1>5. CASE UNCHANGED vars
  <2>1. work' \in [Files -> [Sections -> Seq(Pieces)] \cup {None}] /\ age' \in [Files -> 0..StaleDays]
    BY <1>5 DEF IInv, TypeOK, vars, fileVars
  <2>. QED  BY <1>5, <2>1, FileOnly DEF vars, fileVars
<1>. QED  BY <1>1, <1>2, <1>3, <1>4, <1>5 DEF Next

\* The invariant of every state of the two queues.
THEOREM Inductive == Spec => []IInv
BY IInvInit, IInvNext, PTL DEF Spec

\* Every variable keeps its type, whatever the calls and wherever they are cut short.
THEOREM TypeCorrect == Spec => []TypeOK
<1>1. IInv => TypeOK
  BY DEF IInv
<1>. QED  BY <1>1, Inductive, PTL

\* A maintenance session settles its questions one after the other: those before
\* the current one are confirmed, with a draft, or skipped, and those after it
\* are untouched (maintain_answer, maintain_confirm, maintain_skip).
THEOREM SettlesInOrder == Spec => []SettledInOrder
<1>1. IInv => SettledInOrder
  BY DEF IInv, SessionInv, SettledInOrder, Ordered
<1>. QED  BY <1>1, Inductive, PTL

\* While no call about an item was cut short, inbox_list shows every item that is
\* in the inbox, but one that a call in progress has marked and not moved yet.
THEOREM InboxIsListed == Spec => []InboxShowsAll
<1>1. IInv => InboxShowsAll
  BY DEF IInv, ItemInv, InboxShowsAll, Listed, Settles
<1>. QED  BY <1>1, Inductive, PTL

-------------------------------------------------------------------------------
(* Review implements ReviewQueue. *)

\* How often the change of a thing is written, without the call in progress.
Shown(t) == times[t] - (IF t \in Unsettled THEN 1 ELSE 0)

Counted(t, n, c) == Shown(t)' = Shown(t) + n /\ cuts'[t] = cuts[t] + c

\* What the abstract queue allows for a thing.
Moves(t) ==
  \/ Queue!Stays(t) \/ Queue!Open(t) \/ Queue!Accept(t) \/ Queue!Dismiss(t)
  \/ Queue!CutShort(t) \/ Queue!Vanish(t)

\* The same in terms of what Review keeps.
LEMMA MovesFrom ==
  ASSUME NEW t \in Things,
         \/ FateOf(t)' = FateOf(t) /\ Counted(t, 0, 0)
         \/ FateOf(t) = "new" /\ FateOf(t)' = "open" /\ Counted(t, 0, 0)
         \/ FateOf(t) = "open" /\ FateOf(t)' = "accepted" /\ Counted(t, 1, 0)
         \/ FateOf(t) = "open" /\ FateOf(t)' = "dismissed" /\ Counted(t, 0, 0)
         \/ FateOf(t) = "open" /\ FateOf(t)' \in {"open", "gone"} /\ Counted(t, 1, 1)
         \/ FateOf(t) \in {"new", "open"} /\ FateOf(t)' = "gone" /\ Counted(t, 0, 0)
  PROVE  Moves(t)
BY DEF Moves, Counted, Shown, Queue!Counts, Queue!Stays, Queue!Open, Queue!Accept,
       Queue!Dismiss, Queue!CutShort, Queue!Vanish

LEMMA QueueTypes == IInv => Queue!TypeOK
<1>. SUFFICES ASSUME IInv PROVE Queue!TypeOK
  OBVIOUS
<1>1. TypeOK /\ CountInv
  BY IInvParts
<1>2. ASSUME NEW t \in Things PROVE FateOf(t) \in Queue!Fates
  <2>1. t \in Questions \/ t \in Items
    BY DEF Things
  <2>. QED  BY <1>1, <2>1 DEF FateOf, Queue!Fates, TypeOK
<1>3. ASSUME NEW t \in Things PROVE Shown(t) \in Nat
  <2>1. times[t] \in Nat /\ (t \in Unsettled => times[t] >= 1)
    BY <1>1 DEF CountInv, TypeOK
  <2>. QED  BY <2>1 DEF Shown
<1>4. cuts \in [Things -> Nat]
  BY <1>1 DEF TypeOK
<1>. QED  BY <1>2, <1>3, <1>4 DEF Queue!TypeOK, Shown

\* Counts of a thing whose change is neither written nor settled.
LEMMA CountsKept ==
  ASSUME TypeOK, NEW t \in Things, times'[t] = times[t], cuts'[t] = cuts[t],
         t \in Unsettled' <=> t \in Unsettled
  PROVE  Counted(t, 0, 0)
<1>1. times[t] \in Nat /\ cuts[t] \in Nat
  BY DEF TypeOK
<1>. QED  BY <1>1 DEF Counted, Shown

\* Counts of a thing whose written change the step settles, or cuts short.
LEMMA CountsSettled ==
  ASSUME TypeOK, NEW t \in Things, times'[t] = times[t],
         t \in Unsettled, t \notin Unsettled'
  PROVE  /\ cuts'[t] = cuts[t] => Counted(t, 1, 0)
         /\ cuts'[t] = cuts[t] + 1 => Counted(t, 1, 1)
<1>1. times[t] \in Nat /\ cuts[t] \in Nat
  BY DEF TypeOK
<1>. QED  BY <1>1 DEF Counted, Shown

\* A step that settles nothing.
LEMMA QuietMoves ==
  ASSUME TypeOK, UNCHANGED <<qfate, times, cuts>>,
         \A i \in Items : FateOf(i)' = FateOf(i), Unsettled' = Unsettled
  PROVE  \A t \in Things : Moves(t)
<1>1. ASSUME NEW t \in Things PROVE FateOf(t)' = FateOf(t)
  BY DEF Things, FateOf
<1>. QED  BY <1>1, CountsKept, MovesFrom

LEMMA FatesOfItems ==
  ASSUME UNCHANGED items
  PROVE  \A i \in Items : FateOf(i)' = FateOf(i)
BY NamesAssumption DEF FateOf

LEMMA OthersMoves == IInv /\ (Others \/ UNCHANGED vars) => \A t \in Things : Moves(t)
<1>. SUFFICES ASSUME IInv, Others \/ UNCHANGED vars PROVE \A t \in Things : Moves(t)
  OBVIOUS
<1>1. UNCHANGED <<session, items, todo, qfate, times, cuts>>
  BY DEF Others, Update, Delete, Day, vars, histVars
<1>2. Unsettled' = Unsettled
  BY <1>1 DEF Unsettled, Current
<1>. QED  BY <1>1, <1>2, IInvParts, FatesOfItems, QuietMoves

LEMMA AnswerMoves ==
  ASSUME IInv, AnswerSkips \/ Skip \/ Confirm \/ \E c \in Changes : AnswerDrafts(c)
  PROVE  \A t \in Things : Moves(t)
<1>1. TypeOK /\ (Live(session) => Ordered(session)) /\ times \in [Things -> Nat]
  BY DEF IInv, SessionInv, TypeOK
<1>2. /\ todo = None /\ Live(session) /\ session.at <= session.n
      /\ \E next, fate : Saving(next, fate) /\ Continues(next, fate)
                           /\ (fate = "accepted" <=> Confirm)
  BY <1>1, AnswerContinues
<1>3. PICK next, fate : Saving(next, fate) /\ Continues(next, fate)
                           /\ (fate = "accepted" <=> Confirm)
  BY <1>2
<1>4. /\ todo' # None /\ Saves' /\ todo'.fate = fate
      /\ UNCHANGED <<session, items, stops, qfate, cuts, stopped>>
  BY <1>1, <1>3, SavingType DEF Continues
<1>5. /\ ~Confirm => times' = times
      /\ Confirm => times' = [times EXCEPT ![Current] = @ + 1]
  BY <1>1, AnswerWrites
<1>6. Unsettled = {} /\ Unsettled' = (IF Confirm THEN {Current} ELSE {})
  BY <1>2, <1>3, <1>4 DEF Unsettled, Saves, Current
<1>7. ASSUME NEW t \in Things PROVE FateOf(t)' = FateOf(t) /\ Counted(t, 0, 0)
  <2>1. FateOf(t)' = FateOf(t)
    BY <1>4 DEF FateOf
  <2>2. times[t] \in Nat /\ cuts[t] \in Nat /\ cuts'[t] = cuts[t]
    BY <1>1, <1>4 DEF TypeOK
  <2>3. times'[t] = times[t] + (IF t \in Unsettled' THEN 1 ELSE 0)
    BY <1>1, <1>5, <1>6, <2>2
  <2>. QED  BY <1>6, <2>1, <2>2, <2>3 DEF Counted, Shown
<1>. QED  BY <1>7, MovesFrom

LEMMA StartEndMoves ==
  ASSUME IInv, End \/ \E q \in Asked : Start(q[1], q[2])
  PROVE  \A t \in Things : Moves(t)
<1>1. TypeOK /\ UNCHANGED <<items, qfate, times, cuts>>
  BY IInvParts DEF End, Start, Saving, histVars
<1>2. Unsettled = {} /\ Unsettled' = {}
  <2>1. CASE End
    BY <2>1 DEF End, Unsettled
  <2>2. ASSUME NEW q \in Asked, Start(q[1], q[2]) PROVE Unsettled = {} /\ Unsettled' = {}
    BY <1>1, <2>2, StartType, FilesAssumption DEF Unsettled, Saves
  <2>. QED  BY <2>1, <2>2
<1>. QED  BY <1>1, <1>2, FatesOfItems, QuietMoves

\* What saving the session, or losing it, does to a question.
LEMMA FatesMove ==
  ASSUME NEW q \in Questions, NEW next, NEW fate, qfate' = FatesAfter(next, fate),
         TypeOK
  PROVE  /\ fate # None /\ q = Current => qfate'[q] = fate
         /\ ~(fate # None /\ q = Current) =>
               \/ qfate'[q] = qfate[q]
               \/ qfate[q] = "new" /\ qfate'[q] = "open"
               \/ qfate[q] = "open" /\ qfate'[q] = "gone"
BY DEF FatesAfter, TypeOK

LEMMA CurrentIsOpen ==
  ASSUME IInv, Saves, todo.fate # None
  PROVE  /\ Current \in Questions /\ qfate[Current] = "open"
         /\ Current \in Things /\ Current \notin Items
<1>1. TypeOK /\ SessionInv /\ FateInv
  BY IInvParts
<1>2. Live(session) /\ session.at <= session.n
  BY <1>1 DEF SessionInv, Fresh, Same
<1>3. Current \in Questions /\ Current \in Things /\ session.at \in Slots /\ session.at \in Nat
  BY <1>1, <1>2, CurrentIsQuestion
<1>. QED  BY <1>1, <1>2, <1>3, NamesAssumption DEF FateInv, Current

LEMMA SaveMoves == IInv /\ Save => \A t \in Things : Moves(t)
<1>. SUFFICES ASSUME IInv, Save, NEW t \in Things PROVE Moves(t)
  OBVIOUS
<1>1. /\ TypeOK /\ Saves /\ qfate' = FatesAfter(todo.next, todo.fate) /\ todo' = None
      /\ UNCHANGED <<items, times, cuts>>
  BY IInvParts DEF Save, Saves
<1>2. todo.fate \in {"accepted", "dismissed", None}
  BY <1>1, TodoTypes
<1>3. Unsettled' = {} /\ Unsettled = (IF todo.fate = "accepted" THEN {Current} ELSE {})
  BY <1>1 DEF Unsettled, Saves
<1>4. CASE todo.fate # None /\ t = Current
  <2>1. /\ t \in Questions /\ FateOf(t) = "open" /\ FateOf(t)' = todo.fate
    BY <1>1, <1>4, CurrentIsOpen, FatesMove DEF FateOf
  <2>2. CASE todo.fate = "accepted"
    BY <1>1, <1>3, <1>4, <2>1, <2>2, CountsSettled, MovesFrom
  <2>3. CASE todo.fate = "dismissed"
    BY <1>1, <1>3, <1>4, <2>1, <2>3, CountsKept, MovesFrom
  <2>. QED  BY <1>2, <1>4, <2>2, <2>3
<1>5. CASE ~(todo.fate # None /\ t = Current)
  <2>1. Counted(t, 0, 0)
    BY <1>1, <1>3, <1>5, CountsKept, FilesAssumption
  <2>2. CASE t \in Questions
    BY <1>1, <1>5, <2>1, <2>2, FatesMove, MovesFrom DEF FateOf
  <2>3. CASE t \notin Questions
    <3>1. FateOf(t)' = FateOf(t)
      BY <1>1, <2>3 DEF FateOf
    <3>. QED  BY <2>1, <3>1, MovesFrom
  <2>. QED  BY <2>2, <2>3
<1>. QED  BY <1>4, <1>5

\* A step of the inbox leaves the fates of questions alone, and that of items
\* but one.
LEMMA ItemMoves ==
  ASSUME TypeOK, NEW i \in Items, UNCHANGED qfate, Moves(i),
         \A j \in Items \ {i} : items'[j] = items[j],
         \A t \in Things \ {i} : Counted(t, 0, 0)
  PROVE  \A t \in Things : Moves(t)
<1>1. ASSUME NEW t \in Things, t # i PROVE FateOf(t)' = FateOf(t)
  <2>1. CASE t \in Questions
    BY <2>1 DEF FateOf
  <2>2. CASE t \notin Questions
    <3>1. t \in Items \ {i}
      BY <1>1, <2>2 DEF Things
    <3>. QED  BY <2>2, <3>1 DEF FateOf
  <2>. QED  BY <2>1, <2>2
<1>2. ASSUME NEW t \in Things, t # i PROVE Moves(t)
  BY <1>1, <1>2, MovesFrom
<1>. QED  BY <1>2

\* The fate of an item, case by case.
LEMMA FateOfItem ==
  ASSUME TypeOK, NEW i \in Items
  PROVE  /\ items[i] = None => FateOf(i) = "new"
         /\ items[i] = Broken => FateOf(i) = "gone"
         /\ InInbox(i) => FateOf(i) = "open"
         /\ i \in Things /\ i \notin Questions
BY NamesAssumption, FilesAssumption DEF FateOf, InInbox, Readable, Things

LEMMA AddMoves ==
  ASSUME IInv, NEW i \in Items, Add(i)
  PROVE  \A t \in Things : Moves(t)
<1>1. TypeOK /\ TypeOK'
  BY IInvParts, AddInv DEF IInv
<1>2. /\ todo = None /\ todo' = None /\ items[i] = None /\ UNCHANGED <<qfate, times, cuts>>
      /\ items' = [items EXCEPT ![i] = [where |-> "inbox", status |-> "pending"]]
      /\ items \in [Items -> Item \cup {None, Broken}]
  BY <1>1 DEF Add, histVars, TypeOK
<1>3. \A t \in Things : Counted(t, 0, 0)
  BY <1>1, <1>2, CountsKept DEF Unsettled
<1>4. items'[i] # None /\ items'[i] # Broken /\ items'[i].where = "inbox"
  <2>1. [where |-> "inbox", status |-> "pending"] \in Item
    BY DEF Item
  <2>. QED  BY <1>1, <1>2, <2>1, ItemTypes
<1>5. FateOf(i) = "new" /\ FateOf(i)' = "open" /\ i \in Things
  BY <1>1, <1>2, <1>4, FateOfItem DEF FateOf
<1>6. Moves(i)
  BY <1>3, <1>5, MovesFrom
<1>. QED  BY <1>1, <1>2, <1>3, <1>6, ItemMoves

LEMMA AcceptRejectMoves ==
  ASSUME IInv, NEW i \in Items, Accept(i) \/ Reject(i)
  PROVE  \A t \in Things : Moves(t)
<1>1. TypeOK /\ i \in Things
  BY IInvParts DEF Things
<1>2. /\ todo = None /\ UNCHANGED <<items, qfate, cuts>>
      /\ times \in [Things -> Nat] /\ cuts \in [Things -> Nat]
  BY <1>1 DEF Accept, Reject, histVars, TypeOK
<1>3. PICK status \in {"accepted", "rejected"} :
        /\ todo' = [do |-> "mark", item |-> i, status |-> status]
        /\ times' = IF status = "accepted" THEN [times EXCEPT ![i] = @ + 1] ELSE times
  <2>1. CASE Accept(i)
    BY <2>1 DEF Accept
  <2>2. CASE Reject(i)
    BY <2>2 DEF Reject, histVars
  <2>. QED  BY <2>1, <2>2
<1>4. todo' # None /\ todo'.do = "mark" /\ todo'.item = i /\ todo'.status = status
  <2>1. todo' \in ToFile
    BY <1>3 DEF ToFile
  <2>. QED  BY <1>3, <2>1, FilesAssumption
<1>5. Unsettled = {} /\ Unsettled' = (IF status = "accepted" THEN {i} ELSE {})
  BY <1>2, <1>4 DEF Unsettled
<1>6. ASSUME NEW t \in Things PROVE FateOf(t)' = FateOf(t) /\ Counted(t, 0, 0)
  <2>1. FateOf(t)' = FateOf(t)
    BY <1>2 DEF FateOf
  <2>2. times[t] \in Nat /\ cuts[t] \in Nat
    BY <1>2
  <2>3. times'[t] = times[t] + (IF t \in Unsettled' THEN 1 ELSE 0)
    BY <1>2, <1>3, <1>5, <2>2
  <2>. QED  BY <1>2, <1>5, <2>1, <2>2, <2>3 DEF Counted, Shown
<1>. QED  BY <1>6, MovesFrom

\* What a tool about an item knows of it.
LEMMA SettledItem ==
  ASSUME IInv, Settles
  PROVE  /\ todo.item \in Items /\ todo.item \in Things /\ todo.item \notin Questions
         /\ todo.status \in {"accepted", "rejected"} /\ FateOf(todo.item) = "open"
         /\ items[todo.item] \in Item /\ items[todo.item].where = "inbox"
         /\ items \in [Items -> Item \cup {None, Broken}]
         /\ Unsettled = (IF todo.status = "accepted" THEN {todo.item} ELSE {})
<1>1. TypeOK /\ ItemInv
  BY IInvParts
<1>2. todo.item \in Items /\ todo.status \in {"accepted", "rejected"} /\ InInbox(todo.item)
  BY <1>1, TodoTypes DEF ItemInv
<1>3. FateOf(todo.item) = "open" /\ todo.item \in Things /\ todo.item \notin Questions
  BY <1>1, <1>2, FateOfItem
<1>4. items[todo.item] \in Item /\ items[todo.item].where = "inbox"
  BY <1>1, <1>2, ItemTypes DEF InInbox
<1>. QED  BY <1>1, <1>2, <1>3, <1>4 DEF TypeOK, Unsettled, Settles

LEMMA MarkMoves == IInv /\ Mark => \A t \in Things : Moves(t)
<1>. SUFFICES ASSUME IInv, Mark, NEW i, i = todo.item PROVE \A t \in Things : Moves(t)
  OBVIOUS
<1>1. /\ TypeOK /\ Settles /\ todo \in ToFile /\ todo' = [todo EXCEPT !.do = "archive"]
      /\ items' = [items EXCEPT ![todo.item].status = todo.status]
      /\ UNCHANGED <<qfate, times, cuts>>
  BY IInvParts, TodoTypes DEF Mark, Settles, histVars
<1>2. /\ todo' # None /\ todo'.do = "archive"
      /\ todo'.item = todo.item /\ todo'.status = todo.status
  <2>1. todo' \in ToFile
    BY <1>1 DEF ToFile
  <2>. QED  BY <1>1, <2>1, FilesAssumption DEF ToFile
<1>3. Unsettled' = Unsettled
  BY <1>1, <1>2, SettledItem DEF Unsettled
<1>4. \A t \in Things : Counted(t, 0, 0)
  BY <1>1, <1>3, CountsKept
<1>. DEFINE new == [items[todo.item] EXCEPT !.status = todo.status]
<1>5. new \in Item /\ new.where = "inbox" /\ items' = [items EXCEPT ![i] = new]
  BY <1>1, SettledItem DEF Item
<1>. HIDE DEF new
<1>6. items'[i] = new /\ new # None /\ new # Broken
  BY <1>1, <1>5, SettledItem, ItemTypes
<1>7. FateOf(i)' = "open"
  BY <1>1, <1>5, <1>6, SettledItem DEF FateOf
<1>8. Moves(i)
  BY <1>1, <1>4, <1>7, SettledItem, MovesFrom
<1>. QED  BY <1>1, <1>4, <1>5, <1>8, SettledItem, ItemMoves

LEMMA ArchiveMoves == IInv /\ Archive => \A t \in Things : Moves(t)
<1>. SUFFICES ASSUME IInv, Archive, NEW i, i = todo.item PROVE \A t \in Things : Moves(t)
  OBVIOUS
<1>1. /\ TypeOK /\ Settles /\ todo' = None /\ todo.do = "archive"
      /\ items' = [items EXCEPT ![todo.item].where = "archive"]
      /\ UNCHANGED <<qfate, times, cuts>>
  BY IInvParts DEF Archive, Settles, histVars
<1>2. items[todo.item].status = todo.status
  BY <1>1 DEF IInv, ItemInv
<1>. DEFINE new == [items[todo.item] EXCEPT !.where = "archive"]
<1>3. /\ new \in Item /\ new.where = "archive" /\ new.status = todo.status
      /\ items' = [items EXCEPT ![i] = new]
  BY <1>1, <1>2, SettledItem DEF Item
<1>. HIDE DEF new
<1>4. items'[i] = new /\ new # None /\ new # Broken
  BY <1>1, <1>3, SettledItem, ItemTypes
<1>5. Unsettled' = {}
  BY <1>1 DEF Unsettled
<1>6. FateOf(i)' = IF todo.status = "accepted" THEN "accepted" ELSE "dismissed"
  BY <1>1, <1>3, <1>4, SettledItem DEF FateOf
<1>7. Moves(i)
  <2>1. CASE todo.status = "accepted"
    BY <1>1, <1>5, <1>6, <2>1, SettledItem, CountsSettled, MovesFrom
  <2>2. CASE todo.status = "rejected"
    BY <1>1, <1>5, <1>6, <2>2, SettledItem, CountsKept, MovesFrom
  <2>. QED  BY <1>1, <2>1, <2>2, SettledItem
<1>8. \A t \in Things \ {i} : Counted(t, 0, 0)
  BY <1>1, <1>5, SettledItem, CountsKept
<1>. QED  BY <1>1, <1>3, <1>7, <1>8, SettledItem, ItemMoves

LEMMA StopSaveMoves == IInv /\ StopSave => \A t \in Things : Moves(t)
<1>. SUFFICES ASSUME IInv, StopSave, NEW t \in Things PROVE Moves(t)
  OBVIOUS
<1>1. /\ TypeOK /\ Saves /\ todo' = None /\ UNCHANGED <<items, times>>
      /\ qfate' = qfate \/ qfate' = FatesAfter(Broken, None)
  BY IInvParts DEF StopSave, Saves, Stop
<1>2. cuts' = (IF todo.fate = "accepted" THEN [cuts EXCEPT ![Current] = @ + 1] ELSE cuts)
  BY DEF StopSave
<1>3. Unsettled' = {} /\ Unsettled = (IF todo.fate = "accepted" THEN {Current} ELSE {})
  BY <1>1 DEF Unsettled, Saves
<1>4. cuts \in [Things -> Nat]
  BY <1>1 DEF TypeOK
<1>5. \/ FateOf(t)' = FateOf(t)
      \/ t \in Questions /\ FateOf(t) = "open" /\ FateOf(t)' = "gone"
  <2>1. CASE t \in Questions
    BY <1>1, <2>1 DEF FateOf, FatesAfter, Live
  <2>2. CASE t \notin Questions
    BY <1>1, <2>2 DEF FateOf
  <2>. QED  BY <2>1, <2>2
<1>6. CASE todo.fate = "accepted" /\ t = Current
  <2>1. FateOf(t) = "open"
    BY <1>1, <1>6, CurrentIsOpen, FilesAssumption DEF FateOf
  <2>2. cuts'[t] = cuts[t] + 1
    BY <1>2, <1>4, <1>6
  <2>. QED  BY <1>1, <1>3, <1>5, <1>6, <2>1, <2>2, CountsSettled, MovesFrom
<1>7. CASE ~(todo.fate = "accepted" /\ t = Current)
  <2>1. cuts'[t] = cuts[t]
    BY <1>2, <1>4, <1>7
  <2>. QED  BY <1>1, <1>3, <1>5, <1>7, <2>1, CountsKept, MovesFrom
<1>. QED  BY <1>6, <1>7

LEMMA StopItemMoves == IInv /\ StopItem => \A t \in Things : Moves(t)
<1>. SUFFICES ASSUME IInv, StopItem, NEW i, i = todo.item PROVE \A t \in Things : Moves(t)
  OBVIOUS
<1>1. /\ TypeOK /\ Settles /\ todo' = None /\ UNCHANGED <<qfate, times>>
      /\ items' = items \/ items' = [items EXCEPT ![i] = Broken]
      /\ cuts' = (IF todo.status = "accepted" THEN [cuts EXCEPT ![i] = @ + 1] ELSE cuts)
  BY IInvParts DEF StopItem, Settles, Stop
<1>2. /\ i \in Items /\ i \in Things /\ i \notin Questions /\ FateOf(i) = "open"
      /\ items \in [Items -> Item \cup {None, Broken}] /\ cuts \in [Things -> Nat]
  BY <1>1, SettledItem DEF TypeOK
<1>3. Unsettled' = {} /\ Unsettled = (IF todo.status = "accepted" THEN {i} ELSE {})
  BY <1>1, SettledItem DEF Unsettled
<1>4. FateOf(i)' \in {"open", "gone"}
  <2>1. CASE items' = items
    <3>1. FateOf(i)' = FateOf(i)
      BY <2>1, <1>2 DEF FateOf
    <3>. QED  BY <1>2, <3>1
  <2>2. CASE items' = [items EXCEPT ![i] = Broken]
    BY <1>2, <2>2, FilesAssumption DEF FateOf
  <2>. QED  BY <1>1, <2>1, <2>2
<1>5. Moves(i)
  <2>1. CASE todo.status = "accepted"
    <3>1. cuts'[i] = cuts[i] + 1
      BY <1>1, <1>2, <2>1
    <3>. QED  BY <1>1, <1>2, <1>3, <1>4, <2>1, <3>1, CountsSettled, MovesFrom
  <2>2. CASE todo.status # "accepted"
    BY <1>1, <1>2, <1>3, <1>4, <2>2, CountsKept, MovesFrom
  <2>. QED  BY <2>1, <2>2
<1>6. \A t \in Things \ {i} : Counted(t, 0, 0)
  <2>1. \A t \in Things \ {i} : cuts'[t] = cuts[t]
    BY <1>1, <1>2
  <2>. QED  BY <1>1, <1>3, <2>1, CountsKept
<1>7. \A j \in Items \ {i} : items'[j] = items[j]
  BY <1>1, <1>2
<1>. QED  BY <1>1, <1>2, <1>5, <1>6, <1>7, ItemMoves

LEMMA StopAddMoves ==
  ASSUME IInv, NEW i \in Items, StopAdd(i)
  PROVE  \A t \in Things : Moves(t)
<1>1. /\ TypeOK /\ todo = None /\ todo' = None /\ items[i] = None
      /\ items' = [items EXCEPT ![i] = Broken] /\ UNCHANGED <<qfate, times, cuts>>
  BY IInvParts DEF StopAdd, Stop
<1>2. items \in [Items -> Item \cup {None, Broken}]
  BY <1>1 DEF TypeOK
<1>3. \A t \in Things : Counted(t, 0, 0)
  BY <1>1, CountsKept DEF Unsettled
<1>4. FateOf(i) = "new" /\ FateOf(i)' = "gone" /\ i \in Things
  <2>1. items'[i] = Broken
    BY <1>1, <1>2
  <2>. QED  BY <1>1, <2>1, FateOfItem, FilesAssumption DEF FateOf
<1>5. Moves(i)
  BY <1>3, <1>4, MovesFrom
<1>. QED  BY <1>1, <1>2, <1>3, <1>5, ItemMoves

LEMMA StopWriteMoves ==
  ASSUME IInv, NEW f \in Files, StopWrite(f)
  PROVE  \A t \in Things : Moves(t)
<1>1. TypeOK /\ todo = None /\ todo' = None /\ UNCHANGED <<items, qfate, times, cuts>>
  BY IInvParts DEF StopWrite, Stop
<1>2. Unsettled' = Unsettled
  BY <1>1 DEF Unsettled
<1>. QED  BY <1>1, <1>2, FatesOfItems, QuietMoves

LEMMA EveryStepMoves == IInv /\ [Next]_vars => \A t \in Things : Moves(t)
<1>. SUFFICES ASSUME IInv, [Next]_vars PROVE \A t \in Things : Moves(t)
  OBVIOUS
<1>1. CASE Maintain
  BY <1>1, StartEndMoves, AnswerMoves, SaveMoves DEF Maintain
<1>2. CASE Inbox
  BY <1>2, AddMoves, AcceptRejectMoves, MarkMoves, ArchiveMoves DEF Inbox
<1>3. CASE CutsShort
  BY <1>3, StopSaveMoves, StopItemMoves, StopAddMoves, StopWriteMoves DEF CutsShort
<1>4. CASE Others \/ UNCHANGED vars
  BY <1>4, OthersMoves
<1>. QED  BY <1>1, <1>2, <1>3, <1>4 DEF Next

LEMMA QueueInit == Init => Queue!Init
<1>. SUFFICES ASSUME Init PROVE Queue!Init
  OBVIOUS
<1>1. /\ todo = None /\ \A i \in Items : items[i] = None
      /\ \A q \in Questions : qfate[q] = "new"
      /\ times = [t \in Things |-> 0] /\ cuts = [t \in Things |-> 0]
  BY DEF Init
<1>2. ASSUME NEW t \in Things
      PROVE  FateOf(t) = "new" /\ times[t] - (IF t \in Unsettled THEN 1 ELSE 0) = 0
  BY <1>1 DEF FateOf, Unsettled, Things
<1>. QED  BY <1>1, <1>2 DEF Queue!Init

LEMMA QueueNext ==
  IInv /\ [Next]_vars =>
    [Queue!Next]_<<[t \in Things |-> FateOf(t)],
                   [t \in Things |-> times[t] - (IF t \in Unsettled THEN 1 ELSE 0)], cuts>>
<1>. SUFFICES ASSUME IInv, [Next]_vars PROVE Queue!Next
  OBVIOUS
<1>1. \A t \in Things : Moves(t)
  BY EveryStepMoves
<1>2. IInv'
  BY IInvNext
<1>3. Queue!TypeOK'
  BY <1>2, QueueTypes, PTL
<1>. QED  BY <1>1, <1>3 DEF Queue!Next, Moves

\* The inbox and the maintenance sessions keep what a review queue promises
\* (ReviewQueue): each question and each item is settled once, or lost unsettled,
\* and its change is written once for its acceptance and at most once more for
\* each call that was cut short.
THEOREM ImplementsQueue == Spec => QueueSpec
<1>. QED  BY QueueInit, QueueNext, Inductive, PTL DEF Spec, QueueSpec, Queue!Spec

-------------------------------------------------------------------------------
(* What follows for the inbox and the sessions from what the queue promises. *)

Results == INSTANCE ReviewQueue_proofs WITH
  fate <- [t \in Things |-> FateOf(t)],
  times <- [t \in Things |-> times[t] - (IF t \in Unsettled THEN 1 ELSE 0)]

LEMMA QueueHasResults == Spec => Results!Spec
<1>1. Queue!Init <=> Results!Init
  BY DEF Queue!Init, Results!Init
<1>2. Queue!Next <=> Results!Next
  BY DEF Queue!Next, Results!Next, Queue!TypeOK, Results!TypeOK, Queue!Fates, Results!Fates,
         Queue!Stays, Results!Stays, Queue!Open, Results!Open, Queue!Accept, Results!Accept,
         Queue!Dismiss, Results!Dismiss, Queue!CutShort, Results!CutShort,
         Queue!Vanish, Results!Vanish, Queue!Counts, Results!Counts
<1>. QED  BY <1>1, <1>2, ImplementsQueue, PTL DEF QueueSpec, Queue!Spec, Results!Spec

\* How often the change of a thing has been written, but for the calls cut short.
WrittenOnce ==
  \A t \in Things : times[t] = cuts[t] + (IF FateOf(t) = "accepted" \/ t \in Unsettled
                                          THEN 1 ELSE 0)

\* The change of a question or an item is written once for its acceptance and once
\* for each call cut short after writing it, and so never for what was dismissed
\* without that: inbox_accept, inbox_reject, maintain_confirm and maintain_skip.
THEOREM ChangesAreWrittenOnce == Spec => []WrittenOnce
<1>1. ASSUME IInv, Results!AppliedOnceUnlessCut, NEW t \in Things
      PROVE  times[t] = cuts[t] + (IF FateOf(t) = "accepted" \/ t \in Unsettled
                                   THEN 1 ELSE 0)
  <2>1. TypeOK /\ SessionInv /\ FateInv /\ ItemInv
    BY <1>1, IInvParts
  <2>2. times[t] \in Nat /\ cuts[t] \in Nat
    BY <2>1 DEF TypeOK
  <2>3. Shown(t) = cuts[t] + (IF FateOf(t) = "accepted" THEN 1 ELSE 0)
    BY <1>1 DEF Results!AppliedOnceUnlessCut, Shown
  <2>4. ASSUME t \in Unsettled PROVE FateOf(t) # "accepted"
    <3>1. CASE Saves
      <4>1. t = Current /\ todo.fate # None
        BY <2>4, <3>1, FilesAssumption DEF Unsettled, Saves
      <4>. QED  BY <1>1, <3>1, <4>1, CurrentIsOpen DEF FateOf
    <3>2. CASE ~Saves
      <4>1. Settles /\ t = todo.item /\ t \in Items /\ InInbox(t)
        BY <2>1, <2>4, <3>2, TodoTypes DEF Unsettled, Saves, ItemInv
      <4>. QED  BY <4>1, NamesAssumption DEF FateOf, InInbox, Readable
    <3>. QED  BY <3>1, <3>2
  <2>. QED  BY <2>2, <2>3, <2>4 DEF Shown
<1>2. IInv /\ Results!AppliedOnceUnlessCut => WrittenOnce
  BY <1>1 DEF WrittenOnce
<1>. QED  BY <1>2, Inductive, QueueHasResults, Results!AppliedOnce, PTL

\* What a question or an item is settled as, it stays.
SettledStays ==
  [][\A t \in Things :
       FateOf(t) \in {"accepted", "dismissed", "gone"} =>
         FateOf(t)' = FateOf(t) /\ Shown(t)' = Shown(t)]_vars

\* A question or an item that was accepted, dismissed or lost is never settled
\* again, nor its change written again, by any later call, session or restart.
THEOREM SettledOnceForAll == Spec => SettledStays
<1>. DEFINE Kept == \A t \in Things :
              FateOf(t) \in {"accepted", "dismissed", "gone"} =>
                FateOf(t)' = FateOf(t) /\ Shown(t)' = Shown(t)
            fate == [t \in Things |-> FateOf(t)]
            shown == [t \in Things |-> times[t] - (IF t \in Unsettled THEN 1 ELSE 0)]
<1>1. ASSUME UNCHANGED <<fate, shown, cuts>>, NEW t \in Things
      PROVE  FateOf(t)' = FateOf(t) /\ Shown(t)' = Shown(t)
  BY <1>1, fate'[t] = fate[t], shown'[t] = shown[t] DEF Shown
<1>2. [\A t \in Things :
         fate[t] \in {"accepted", "dismissed", "gone"} =>
           fate'[t] = fate[t] /\ shown'[t] = shown[t]]_<<fate, shown, cuts>>
      => Kept
  BY <1>1 DEF Shown
<1>. HIDE DEF Kept
<1>3. Results!Final => [][Kept]_vars
  BY <1>2, PTL DEF Results!Final
<1>4. Spec => [][Kept]_vars
  BY <1>3, QueueHasResults, Results!SettledForGood, PTL
<1>. QED  BY <1>4 DEF SettledStays, Kept
================================================================================
