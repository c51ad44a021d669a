--------------------------------- MODULE Review ---------------------------------
(***************************************************************************)
(* The two review queues of a vault: the inbox (tools/inbox.py) and the      *)
(* maintenance session (tools/maintain.py).  Their tools run on the event    *)
(* loop from beginning to end, so they interleave only at their ends; but    *)
(* each of them changes several files, one after the other, and may be cut   *)
(* short between two of them or within one: the process is killed or a write *)
(* raises.  Nothing else of a tool survives.                                 *)
(*                                                                           *)
(* A file is a sequence of pieces in each of its sections: texts, and the    *)
(* entries of accepted items.  What a language model answers, and what other *)
(* tools put into a section, is arbitrary, entries among it.                  *)
(***************************************************************************)
EXTENDS Integers, Sequences

CONSTANTS
  Files,         \* scope/project pairs
  Ghost,         \* a file that is not there, which a model may ask about
  Sections,      \* sections of a file
  Updated,       \* the section for changes that have no other place
  Texts,
  Bodies,        \* what others may put into a section
  Items,         \* ids of inbox items
  TargetOf,      \* file and section an item is meant for, or None
  Changes,       \* changes a model may propose
  MaxQuestions,  \* the hard cap on the questions of a session
  StaleDays,     \* age in days at which a file is asked about
  MaxSessions, MaxStops, \* bounds: sessions started, calls cut short
  Broken,        \* contents of a file whose writing was cut short
  None           \* no file, no session, no change, no text

Slots == 1..MaxQuestions
Questions == (1..MaxSessions) \X Slots
Things == Items \cup Questions
Pieces == Texts \cup Items

ASSUME BoundsAssumption ==
  MaxQuestions \in Nat /\ StaleDays \in Nat /\ MaxSessions \in Nat /\ MaxStops \in Nat
ASSUME NamesAssumption ==
  /\ Items \cap Questions = {} /\ Items \cap Texts = {}
  /\ Updated \in Sections /\ Ghost \notin Files
  /\ None \notin Files \cup Texts \cup Changes \cup Sections \cup Items \cup {Ghost}
  /\ TargetOf \in [Items -> (Files \X Sections) \cup {None}]
  /\ None \notin Files \X Sections
ASSUME ChangesAssumption ==
  /\ Bodies \subseteq Seq(Pieces)
  /\ Changes \subseteq [section: Sections \cup {None}, old: Pieces \cup {None}, new: Bodies]

Session ==
  [id: 1..MaxSessions, n: 0..MaxQuestions, at: 1..MaxQuestions + 1,
   file: [Slots -> Files \cup {Ghost}],
   status: [Slots -> {"pending", "confirmed", "skipped"}],
   change: [Slots -> Changes \cup {None}]]
Item == [where: {"inbox", "archive"}, status: {"pending", "accepted", "rejected"}]

\* What a tool does after it has written the file, if it does.
ToSave == [do: {"save"}, next: Session \cup {None}, fate: {"accepted", "dismissed", None}]
ToFile == [do: {"mark", "archive"}, item: Items, status: {"accepted", "rejected"}]

ASSUME FilesAssumption ==
  /\ None # Broken /\ None \notin {"accepted", "dismissed"}
  /\ {None, Broken} \cap (Session \cup Item \cup [Sections -> Seq(Pieces)]) = {}
  /\ None \notin ToSave \cup ToFile

VARIABLES
  work,     \* the pieces in each section of each file
  age,      \* days since the last commit of each file, 0 to StaleDays
  session,  \* the session file
  items,    \* the item files
  todo,     \* what the tool in progress does next
  sid,      \* sessions started
  stops,    \* calls cut short
  qfate,    \* history: what has become of each question
  times,    \* history: how often the change of each thing has been written
  cuts,     \* history: how often a call was cut short after that
  stopped   \* history: items a call about which was cut short

fileVars == <<work, age>>
histVars == <<qfate, times, cuts, stopped>>
vars == <<fileVars, session, items, todo, sid, stops, histVars>>

Live(s) == s \notin {None, Broken}

TypeOK ==
  /\ work \in [Files -> [Sections -> Seq(Pieces)] \cup {None}]
  /\ age \in [Files -> 0..StaleDays]
  /\ session \in Session \cup {None, Broken}
  /\ items \in [Items -> Item \cup {None, Broken}]
  /\ todo \in ToSave \cup ToFile \cup {None}
  /\ sid \in 0..MaxSessions /\ stops \in 0..MaxStops
  /\ qfate \in [Questions -> {"new", "open", "accepted", "dismissed", "gone"}]
  /\ times \in [Things -> Nat] /\ cuts \in [Things -> Nat]
  /\ stopped \subseteq Items

Blank == [s \in Sections |-> <<>>]

\* Files of some day, committed long ago.
Init ==
  /\ work \in [Files -> {[Blank EXCEPT ![s] = <<t>>] : s \in Sections \ {Updated}, t \in Texts}]
  /\ age = [f \in Files |-> StaleDays]
  /\ session = None /\ items = [i \in Items |-> None] /\ todo = None
  /\ sid = 0 /\ stops = 0
  /\ qfate = [q \in Questions |-> "new"]
  /\ times = [t \in Things |-> 0] /\ cuts = [t \in Things |-> 0]
  /\ stopped = {}

-------------------------------------------------------------------------------
(* Files. *)

ContentOf(f) == IF work[f] = None THEN Blank ELSE work[f]

\* The file is written and committed; git may have nothing to commit, or fail.
WriteFile(f, content) ==
  /\ work' = [work EXCEPT ![f] = content]
  /\ age' \in {age, [age EXCEPT ![f] = 0]}

Holds(seq, text) == \E k \in DOMAIN seq : seq[k] = text

\* A sequence with the first occurrence of a piece in it replaced.
ReplaceFirst(seq, text, new) ==
  LET first == CHOOSE k \in DOMAIN seq : seq[k] = text /\ \A j \in 1..(k - 1) : seq[j] # text
  IN SubSeq(seq, 1, first - 1) \o new \o SubSeq(seq, first + 1, Len(seq))

\* maintain_confirm: a section is replaced; or the first occurrence of the old
\* text is, in any section, for their order is left open; or, if it is not there
\* any more, the section of updates.
Edits(content, c) ==
  LET holding == {s \in Sections : c.old # None /\ Holds(content[s], c.old)}
  IN IF c.section # None THEN {[content EXCEPT ![c.section] = c.new]}
     ELSE IF holding # {}
          THEN {[content EXCEPT ![s] = ReplaceFirst(@, c.old, c.new)] : s \in holding}
          ELSE {[content EXCEPT ![Updated] = c.new]}

\* Other tools change files, and days pass.
Update(f, s, body) ==
  /\ todo = None
  /\ work' = [work EXCEPT ![f] = [ContentOf(f) EXCEPT ![s] = body]]
  /\ age' = [age EXCEPT ![f] = 0]
  /\ UNCHANGED <<session, items, todo, sid, stops, histVars>>

Delete(f) ==
  /\ todo = None /\ work[f] # None
  /\ work' = [work EXCEPT ![f] = None]
  /\ UNCHANGED <<age, session, items, todo, sid, stops, histVars>>

Day ==
  /\ \E f \in Files : age[f] < StaleDays
  /\ age' = [f \in Files |-> IF age[f] < StaleDays THEN age[f] + 1 ELSE age[f]]
  /\ UNCHANGED <<work, session, items, todo, sid, stops, histVars>>

-------------------------------------------------------------------------------
(* The maintenance session. *)

Stale == {f \in Files : work[f] # None /\ age[f] >= StaleDays}

\* Save next as the session, or delete the session if there is none, and take
\* the current question as settled so.
Saving(next, fate) ==
  /\ todo' = [do |-> "save", next |-> next, fate |-> fate]
  /\ UNCHANGED <<session, items, stops, qfate, cuts, stopped>>

\* How many questions a session has and the file each is about: one of the
\* stalest files each, or whatever a language model answers, cut to MaxQuestions.
Asked ==
  {q \in (0..MaxQuestions) \X [Slots -> Files \cup {Ghost}] :
     \A k \in Slots : k > q[1] => q[2][k] = Ghost}

\* Mutant: the questions are counted from 0.
MutantStart(n, file) ==
  /\ todo = None /\ sid < MaxSessions
  /\ Stale # {} /\ <<n, file>> \in Asked
  /\ sid' = sid + 1
  /\ Saving([id |-> sid', n |-> n, at |-> 0, file |-> file,
             status |-> [k \in Slots |-> "pending"], change |-> [k \in Slots |-> None]],
            None)
  /\ UNCHANGED <<fileVars, times>>

\* maintain_start replaces a session that is there.
Start(n, file) ==
  /\ todo = None /\ sid < MaxSessions
  /\ Stale # {} /\ <<n, file>> \in Asked
  /\ sid' = sid + 1
  /\ Saving([id |-> sid', n |-> n, at |-> 1, file |-> file,
             status |-> [k \in Slots |-> "pending"], change |-> [k \in Slots |-> None]],
            None)
  /\ UNCHANGED <<fileVars, times>>

\* A session with a question left, which the call names.
Asking == todo = None /\ Live(session) /\ session.at <= session.n

Current == <<session.id, session.at>>

\* Mutant: the next question is the current one, but this one stays pending.
MutantAdvanced(status) == [session EXCEPT !.at = session.at + 1]

Advanced(status) ==
  [session EXCEPT !.status[session.at] = status, !.at = session.at + 1]

\* maintain_answer: the file is not there, or the model sees nothing to change.
AnswerSkips ==
  /\ Asking
  /\ Saving(Advanced("skipped"), "dismissed")
  /\ UNCHANGED <<fileVars, sid, times>>

\* maintain_answer: the model drafts a change, in place of one drafted before.
AnswerDrafts(c) ==
  /\ Asking
  /\ session.file[session.at] \in Files /\ work[session.file[session.at]] # None
  /\ Saving([session EXCEPT !.change[session.at] = c], None)
  /\ UNCHANGED <<fileVars, sid, times>>

\* A session ends with its last question, when that is confirmed or skipped.
Rest(status) == IF session.at = session.n THEN None ELSE Advanced(status)

\* Mutant: the question stays the current one when it is not the last.
MutantConfirm ==
  /\ Asking /\ session.change[session.at] # None
  /\ LET f == session.file[session.at]
     IN \E content \in Edits(ContentOf(f), session.change[session.at]) :
          WriteFile(f, content)
  /\ times' = [times EXCEPT ![Current] = @ + 1]
  /\ Saving(IF session.at = session.n THEN None
            ELSE [session EXCEPT !.status[session.at] = "confirmed"], "accepted")
  /\ UNCHANGED sid

Confirm ==
  /\ Asking /\ session.change[session.at] # None
  /\ LET f == session.file[session.at]
     IN \E content \in Edits(ContentOf(f), session.change[session.at]) :
          WriteFile(f, content)
  /\ times' = [times EXCEPT ![Current] = @ + 1]
  /\ Saving(Rest("confirmed"), "accepted")
  /\ UNCHANGED sid

Skip ==
  /\ Asking
  /\ Saving(Rest("skipped"), "dismissed")
  /\ UNCHANGED <<fileVars, sid, times>>

\* Any of the three calls deletes a session that has no question left.
End ==
  /\ todo = None /\ Live(session) /\ session.at > session.n
  /\ session' = None
  /\ UNCHANGED <<fileVars, items, todo, sid, stops, histVars>>

\* The questions once the session is next and the current one settled as fate.
FatesAfter(next, fate) ==
  [q \in Questions |->
     IF fate # None /\ q = Current THEN fate
     ELSE IF Live(next) /\ q[1] = next.id /\ q[2] <= next.n
          THEN IF qfate[q] = "new" THEN "open" ELSE qfate[q]
          ELSE IF qfate[q] = "open" THEN "gone" ELSE qfate[q]]

Save ==
  /\ todo # None /\ todo.do = "save"
  /\ session' = todo.next
  /\ qfate' = FatesAfter(todo.next, todo.fate)
  /\ todo' = None
  /\ UNCHANGED <<fileVars, items, sid, stops, times, cuts, stopped>>

-------------------------------------------------------------------------------
(* The inbox. *)

Readable(i) == items[i] \notin {None, Broken}

InInbox(i) == Readable(i) /\ items[i].where = "inbox"

Add(i) ==
  /\ todo = None /\ items[i] = None
  /\ items' = [items EXCEPT ![i] = [where |-> "inbox", status |-> "pending"]]
  /\ UNCHANGED <<fileVars, session, todo, sid, stops, histVars>>

\* inbox_accept appends to the target, commits it, ...
Accept(i) ==
  /\ todo = None /\ InInbox(i) /\ TargetOf[i] # None
  /\ LET f == TargetOf[i][1]
         s == TargetOf[i][2]
     IN WriteFile(f, [ContentOf(f) EXCEPT ![s] = Append(@, i)])
  /\ times' = [times EXCEPT ![i] = @ + 1]
  /\ todo' = [do |-> "mark", item |-> i, status |-> "accepted"]
  /\ UNCHANGED <<session, items, sid, stops, qfate, cuts, stopped>>

Reject(i) ==
  /\ todo = None /\ InInbox(i)
  /\ todo' = [do |-> "mark", item |-> i, status |-> "rejected"]
  /\ UNCHANGED <<fileVars, session, items, sid, stops, histVars>>

\* ... marks the item, ...
Mark ==
  /\ todo # None /\ todo.do = "mark"
  /\ items' = [items EXCEPT ![todo.item].status = todo.status]
  /\ todo' = [todo EXCEPT !.do = "archive"]
  /\ UNCHANGED <<fileVars, session, sid, stops, histVars>>

\* Mutant: the item is marked but never moved.
MutantArchive ==
  /\ todo # None /\ todo.do = "archive"
  /\ todo' = None
  /\ UNCHANGED <<fileVars, session, items, sid, stops, histVars>>

\* ... and moves it to the archive.
Archive ==
  /\ todo # None /\ todo.do = "archive"
  /\ items' = [items EXCEPT ![todo.item].where = "archive"]
  /\ todo' = None
  /\ UNCHANGED <<fileVars, session, sid, stops, histVars>>

\* inbox_list shows nothing at all while there is an item it cannot read.
Listed ==
  IF \E i \in Items : items[i] = Broken THEN {}
  ELSE {i \in Items : InInbox(i) /\ items[i].status = "pending"}

-------------------------------------------------------------------------------
(* Calls cut short. *)

Stop ==
  /\ stops < MaxStops /\ stops' = stops + 1
  /\ todo' = None
  /\ UNCHANGED <<sid, times>>

\* Before the session is saved, or while it is.
StopSave ==
  /\ todo # None /\ todo.do = "save"
  /\ session' \in {session} \cup (IF todo.next = None THEN {} ELSE {Broken})
  /\ qfate' = (IF session' = session THEN qfate ELSE FatesAfter(Broken, None))
  /\ cuts' = (IF todo.fate = "accepted" THEN [cuts EXCEPT ![Current] = @ + 1] ELSE cuts)
  /\ Stop
  /\ UNCHANGED <<fileVars, items, stopped>>

\* Before the item is marked or moved, or while it is marked.
StopItem ==
  /\ todo # None /\ todo.do \in {"mark", "archive"}
  /\ items' \in {items} \cup (IF todo.do = "mark" THEN {[items EXCEPT ![todo.item] = Broken]}
                                                  ELSE {})
  /\ cuts' = (IF todo.status = "accepted" THEN [cuts EXCEPT ![todo.item] = @ + 1] ELSE cuts)
  /\ stopped' = stopped \cup {todo.item}
  /\ Stop
  /\ UNCHANGED <<fileVars, session, qfate>>

\* While an item is added, ...
StopAdd(i) ==
  /\ todo = None /\ items[i] = None
  /\ items' = [items EXCEPT ![i] = Broken]
  /\ stopped' = stopped \cup {i}
  /\ Stop
  /\ UNCHANGED <<fileVars, session, qfate, cuts>>

\* ... or while a file is written: it is truncated.
StopWrite(f) ==
  /\ todo = None
  /\ \/ Asking /\ session.change[session.at] # None /\ f = session.file[session.at]
     \/ \E i \in Items : InInbox(i) /\ TargetOf[i] # None /\ f = TargetOf[i][1]
  /\ work' = [work EXCEPT ![f] = Blank]
  /\ Stop
  /\ UNCHANGED <<age, session, items, qfate, cuts, stopped>>

-------------------------------------------------------------------------------

Maintain ==
  \/ \E q \in Asked : Start(q[1], q[2])
  \/ AnswerSkips \/ (\E c \in Changes : AnswerDrafts(c))
  \/ Confirm \/ Skip \/ End \/ Save

Inbox ==
  \/ \E i \in Items : Add(i) \/ Accept(i) \/ Reject(i)
  \/ Mark \/ Archive

CutsShort ==
  \/ StopSave \/ StopItem
  \/ \E i \in Items : StopAdd(i)
  \/ \E f \in Files : StopWrite(f)

Others ==
  \/ \E f \in Files, s \in Sections, body \in Bodies : Update(f, s, body)
  \/ \E f \in Files : Delete(f)
  \/ Day

Next == Maintain \/ Inbox \/ CutsShort \/ Others

Spec == Init /\ [][Next]_vars

-------------------------------------------------------------------------------
(* Properties. *)

\* The questions before the current one are settled, those from it on are not,
\* and only the current one may have a draft that is not settled.
SettledInOrder ==
  Live(session) =>
    \A k \in Slots :
      /\ k < session.at <=> session.status[k] # "pending"
      /\ k > session.at => session.change[k] = None
      /\ session.status[k] = "confirmed" => session.change[k] # None

\* The fate of a thing: that of an item is where its file is, whatever its mark.
FateOf(t) ==
  IF t \in Questions THEN qfate[t]
  ELSE IF items[t] = None THEN "new"
  ELSE IF items[t] = Broken THEN "gone"
  ELSE IF items[t].where = "inbox" THEN "open"
  ELSE IF items[t].status = "accepted" THEN "accepted" ELSE "dismissed"

\* Things whose change is written by a call that has not settled them yet.
Unsettled ==
  IF todo = None THEN {}
  ELSE IF todo.do = "save" THEN IF todo.fate = "accepted" THEN {Current} ELSE {}
  ELSE IF todo.status = "accepted" THEN {todo.item} ELSE {}

Queue == INSTANCE ReviewQueue WITH
  fate <- [t \in Things |-> FateOf(t)],
  times <- [t \in Things |-> times[t] - (IF t \in Unsettled THEN 1 ELSE 0)]

\* Items and questions are settled once, and their changes written once unless a
\* call is cut short: confirming, skipping, replacing sessions, accepting and
\* rejecting in any order, with calls cut short anywhere, keep that promise.
QueueSpec == Queue!Spec

\* Unless it is of a call in progress or one cut short, an item in the inbox is
\* on the list (of any length), and the list can be shown.
InboxShowsAll ==
  stopped = {} =>
    \A i \in Items : InInbox(i) => i \in Listed \/ (todo # None /\ todo.do = "archive"
                                                     /\ todo.item = i)
===============================================================================
