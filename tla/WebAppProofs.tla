---------------------------- MODULE WebAppProofs ----------------------------
(***************************************************************************)
(* Theorems about the parts of the web application, which do not share     *)
(* state: the notes of the backend (NoteStore), the editor's dialog        *)
(* (NoteEditor) and its Markdown preview (MarkdownPreview), and the chat   *)
(* with the agent (AgentProxy). They hold for any number of clients, notes,*)
(* contents, saves on their way, lines, pages, messages and threads, and   *)
(* without a bound on the versions of the notes. BatchingProofs has the    *)
(* lemmas about FlattenSeq and least natural numbers that the preview needs.*)
(***************************************************************************)
EXTENDS NoteStore, NoteEditor, AgentProxy, MarkdownPreview, BatchingProofs

-----------------------------------------------------------------------------
(* The notes of the backend.                                               *)

\* The note of client c still exists.
Lives(c) == view[c] # NoNote /\ notes[view[c].id] # NoNote

\* A client looks at an id that was given out.
ViewUsed == \A c \in Clients : view[c] # NoNote => view[c].id \in used

\* The version of a note only grows from the one that was seen, and is the one
\* that was seen only if the content is.
ViewOld ==
  \A c \in Clients :
    Lives(c) /\ view[c].note.version # NoVersion =>
      LET note == notes[view[c].id] IN
      /\ note.version # NoVersion
      /\ note.version >= view[c].note.version
      /\ note.version = view[c].note.version => note.content = view[c].note.content

\* An update with a version is about what its client looks at.
ExpectedSeen ==
  \A c \in Clients :
    request[c] # NoRequest /\ request[c].kind = "update" =>
      /\ view[c] # NoNote /\ request[c].id = view[c].id
      /\ request[c].expected \in {NoVersion, view[c].note.version}

\* After a versioned update was applied the version that was seen is history.
AppliedOutdates ==
  \A c \in Clients :
    /\ applied[c] <= 1
    /\ applied[c] = 1 =>
         /\ view[c] # NoNote /\ view[c].note.version # NoVersion
         /\ Lives(c) => notes[view[c].id].version > view[c].note.version

StoreInv == TypeOK /\ ViewUsed /\ ViewOld /\ ExpectedSeen /\ AppliedOutdates

\* The invariant holds in a store where no client has read or sent anything.
LEMMA StoreInit == Init => StoreInv
<1> SUFFICES ASSUME Init PROVE StoreInv
  OBVIOUS
<1> USE StoreAssumption
<1>1. TypeOK
  BY DEF Init, TypeOK, Notes, Versions, Replies
<1> QED
  BY <1>1 DEF Init, StoreInv, ViewUsed, ViewOld, ExpectedSeen, AppliedOutdates, Lives

\* A client that gets a note has seen what is stored.
LEMMA GetStep ==
  ASSUME StoreInv, NEW c \in Clients, NEW id \in Ids, Get(c, id)
  PROVE  StoreInv'
<1> USE StoreAssumption DEF StoreInv, TypeOK
<1>1. notes[id] \in Notes /\ id \in used
  BY DEF Get
<1>2. TypeOK'
  BY <1>1 DEF Get, Views
<1>3. /\ view'[c] = [id |-> id, note |-> notes[id]] /\ view'[c] # NoNote
      /\ \A d \in Clients \ {c} : view'[d] = view[d]
  BY <1>1 DEF Get, Views, Notes, Versions
<1>4. /\ applied'[c] = 0 /\ request[c] = NoRequest
      /\ \A d \in Clients \ {c} : applied'[d] = applied[d]
      /\ UNCHANGED <<notes, used, request>>
  BY DEF Get
<1>5. ViewUsed'
  BY <1>1, <1>3, <1>4 DEF ViewUsed
<1>6. ViewOld'
  BY <1>1, <1>3, <1>4 DEF ViewOld, Lives, Notes, Versions
<1>7. ExpectedSeen'
  BY <1>3, <1>4 DEF ExpectedSeen
<1>8. AppliedOutdates'
  BY <1>3, <1>4 DEF AppliedOutdates, Lives
<1> QED
  BY <1>2, <1>5, <1>6, <1>7, <1>8

\* A request names what the client looks at.
LEMMA SendStep ==
  ASSUME StoreInv, NEW c \in Clients, SendSave(c) \/ SendUpdate(c) \/ SendDelete(c) \/ Lose(c)
  PROVE  StoreInv'
<1> USE DEF StoreInv, TypeOK
<1>1. UNCHANGED <<notes, used, view, applied>>
  BY DEF SendSave, SendUpdate, SendDelete, Send, Lose
<1>2. /\ reply' \in [Clients -> Replies]
      /\ ViewUsed' /\ ViewOld' /\ AppliedOutdates'
  <2>1. reply' \in [Clients -> Replies]
    BY DEF SendSave, SendUpdate, SendDelete, Send, Lose, Replies
  <2> QED
    BY <1>1, <2>1 DEF ViewUsed, ViewOld, AppliedOutdates, Lives
<1>3. CASE SendSave(c)
  <2>1. PICK content \in Contents : Send(c, [kind |-> "save", content |-> content])
    BY <1>3 DEF SendSave
  <2>2. request' \in [Clients -> Requests \cup {NoRequest}]
    BY <2>1 DEF Send, Requests
  <2>3. ExpectedSeen'
    BY <2>1, <1>1 DEF Send, ExpectedSeen
  <2> QED
    BY <1>1, <1>2, <2>2, <2>3
<1>4. CASE SendUpdate(c)
  <2>1. PICK content \in Contents, expected \in {NoVersion, view[c].note.version} :
          Send(c, [kind |-> "update", id |-> view[c].id, content |-> content,
                   expected |-> expected])
    BY <1>4 DEF SendUpdate
  <2>2. view[c] \in Views /\ expected \in Versions
    BY <1>4 DEF SendUpdate, Views, Notes, Versions
  <2>3. request' \in [Clients -> Requests \cup {NoRequest}]
    BY <2>1, <2>2 DEF Send, Requests, Views
  <2>4. ExpectedSeen'
    BY <2>1, <2>2, <1>1, <1>4 DEF Send, SendUpdate, ExpectedSeen
  <2> QED
    BY <1>1, <1>2, <2>3, <2>4
<1>5. CASE SendDelete(c)
  <2>1. Send(c, [kind |-> "delete", id |-> view[c].id]) /\ view[c] \in Views
    BY <1>5 DEF SendDelete
  <2>2. request' \in [Clients -> Requests \cup {NoRequest}]
    BY <2>1 DEF Send, Requests, Views
  <2>3. ExpectedSeen'
    BY <2>1, <1>1 DEF Send, ExpectedSeen
  <2> QED
    BY <1>1, <1>2, <2>2, <2>3
<1>6. CASE Lose(c)
  <2>1. request' = [request EXCEPT ![c] = NoRequest]
    BY <1>6 DEF Lose
  <2>2. ExpectedSeen'
    BY <2>1, <1>1 DEF ExpectedSeen
  <2> QED
    BY <1>1, <1>2, <2>1, <2>2
<1> QED
  BY <1>3, <1>4, <1>5, <1>6

\* The end of a mutation leaves only requests of other clients.
LEMMA AnswerRequests ==
  ASSUME StoreInv, NEW c \in Clients, NEW given \in Replies, Answer(c, given)
  PROVE  /\ request' \in [Clients -> Requests \cup {NoRequest}]
         /\ reply' \in [Clients -> Replies]
         /\ view' = view
         /\ ExpectedSeen'
BY DEF StoreInv, TypeOK, Answer, ExpectedSeen, Replies

\* A new note has an id nobody looks at.
LEMMA SaveStep ==
  ASSUME StoreInv, NEW c \in Clients, SaveNote(c)
  PROVE  StoreInv'
<1> USE StoreAssumption DEF StoreInv, TypeOK
<1>1. /\ request' \in [Clients -> Requests \cup {NoRequest}]
      /\ reply' \in [Clients -> Replies]
      /\ view' = view /\ applied' = applied /\ ExpectedSeen'
  BY AnswerRequests DEF SaveNote, Replies
<1>2. PICK id \in Ids \ used :
        /\ notes' = [notes EXCEPT ![id] = [content |-> request[c].content, version |-> 1]]
        /\ used' = used \cup {id}
  BY DEF SaveNote
<1>3. [content |-> request[c].content, version |-> 1] \in Notes
  BY DEF SaveNote, Arrived, Requests, Notes, Versions
<1>4. TypeOK'
  BY <1>1, <1>2, <1>3
<1>5. \A d \in Clients : view[d] # NoNote => notes'[view[d].id] = notes[view[d].id]
  BY <1>2 DEF ViewUsed, Views
<1>6. ViewUsed' /\ ViewOld' /\ AppliedOutdates'
  BY <1>1, <1>2, <1>5 DEF ViewUsed, ViewOld, AppliedOutdates, Lives
<1> QED
  BY <1>1, <1>4, <1>6

\* A patch raises the version, so nobody has seen the new one.
LEMMA PatchStep ==
  ASSUME StoreInv, NEW c \in Clients, Arrived(c, "update"),
         notes[request[c].id] # NoNote,
         Accepts(notes[request[c].id], request[c].expected),
         Patch(c, Count(notes[request[c].id].version) + 1),
         Answer(c, "ok")
  PROVE  StoreInv'
<1> USE StoreAssumption DEF StoreInv, TypeOK
<1> DEFINE id == request[c].id
<1> DEFINE version == Count(notes[id].version) + 1
<1>1. /\ request' \in [Clients -> Requests \cup {NoRequest}]
      /\ reply' \in [Clients -> Replies]
      /\ view' = view /\ used' = used /\ ExpectedSeen'
  BY AnswerRequests DEF Patch, Replies
<1>2. /\ id \in Ids /\ request[c].content \in Contents /\ request[c].expected \in Versions
      /\ notes[id] \in Notes
  BY DEF Arrived, Requests
<1>3. version \in Nat \ {0}
  BY <1>2 DEF Count, Notes, Versions
<1>4. /\ notes' = [notes EXCEPT ![id] = [content |-> request[c].content, version |-> version]]
      /\ applied' = [applied EXCEPT ![c] = IF request[c].expected = NoVersion THEN @ ELSE @ + 1]
  BY DEF Patch
<1>5. [content |-> request[c].content, version |-> version] \in Notes
  BY <1>2, <1>3 DEF Notes, Versions
<1>6. TypeOK'
  BY <1>1, <1>2, <1>4, <1>5
<1>7. /\ notes'[id].version = version /\ notes'[id] # NoNote
      /\ \A other \in Ids \ {id} : notes'[other] = notes[other]
  BY <1>2, <1>4, <1>5 DEF Notes, Versions
<1>8. notes[id].version # NoVersion => version = notes[id].version + 1
  BY <1>2 DEF Count
<1>9. ASSUME NEW d \in Clients, view[d] # NoNote, view[d].id = id,
             view[d].note.version # NoVersion
      PROVE  version > view[d].note.version
  <2>1. view[d] \in Views /\ view[d].note.version \in Nat
    BY <1>9 DEF Views, Notes, Versions
  <2>2. /\ notes[id].version # NoVersion /\ notes[id].version \in Nat
        /\ notes[id].version >= view[d].note.version
    BY <1>2, <1>9 DEF ViewOld, Lives, Notes, Versions
  <2> QED
    BY <2>1, <2>2, <1>8
<1>10. ViewUsed' /\ ViewOld'
  BY <1>1, <1>3, <1>7, <1>9 DEF ViewUsed, ViewOld, Lives, Views, Notes, Versions
<1>11. ASSUME request[c].expected # NoVersion
       PROVE  /\ view[c] # NoNote /\ view[c].id = id
              /\ view[c].note.version = request[c].expected
              /\ applied[c] = 0
  <2>1. /\ view[c] # NoNote /\ view[c].id = id
        /\ view[c].note.version = request[c].expected
    BY <1>11 DEF ExpectedSeen, Arrived
  <2>2. notes[id].version = view[c].note.version /\ notes[id].version \in Nat
    BY <1>2, <1>11, <2>1 DEF Accepts, Notes, Versions
  <2> QED
    BY <2>1, <2>2 DEF AppliedOutdates, Lives
<1>12. AppliedOutdates'
  <2> SUFFICES ASSUME NEW d \in Clients
               PROVE  /\ applied'[d] <= 1
                      /\ applied'[d] = 1 =>
                           /\ view[d] # NoNote /\ view[d].note.version # NoVersion
                           /\ notes'[view[d].id] # NoNote =>
                                notes'[view[d].id].version > view[d].note.version
    BY <1>1 DEF AppliedOutdates, Lives
  <2>1. CASE d = c /\ request[c].expected # NoVersion
    BY <2>1, <1>4, <1>7, <1>9, <1>11
  <2>2. CASE ~(d = c /\ request[c].expected # NoVersion)
    <3>1. applied'[d] = applied[d]
      BY <2>2, <1>4
    <3> QED
      BY <3>1, <1>7, <1>9 DEF AppliedOutdates, Lives, Views
  <2> QED
    BY <2>1, <2>2
<1> QED
  BY <1>1, <1>6, <1>10, <1>12

\* updateNote keeps the invariant, whether it refuses the update or patches the note.
LEMMA UpdateStep ==
  ASSUME StoreInv, NEW c \in Clients, UpdateNote(c)
  PROVE  StoreInv'
<1>1. CASE UNCHANGED <<notes, used, applied>> /\ \E given \in Replies : Answer(c, given)
  <2>1. /\ request' \in [Clients -> Requests \cup {NoRequest}]
        /\ reply' \in [Clients -> Replies]
      /\ view' = view /\ ExpectedSeen'
    BY <1>1, AnswerRequests
  <2> QED
    BY <1>1, <2>1 DEF StoreInv, TypeOK, ViewUsed, ViewOld, AppliedOutdates, Lives
<1>2. CASE ~(UNCHANGED <<notes, used, applied>> /\ \E given \in Replies : Answer(c, given))
  BY <1>2, PatchStep DEF UpdateNote, Replies
<1> QED
  BY <1>1, <1>2

\* deleteNote keeps the invariant: the views of a deleted note claim nothing.
LEMMA DeleteStep ==
  ASSUME StoreInv, NEW c \in Clients, DeleteNote(c)
  PROVE  StoreInv'
<1> USE StoreAssumption DEF StoreInv, TypeOK
<1>1. /\ request' \in [Clients -> Requests \cup {NoRequest}]
      /\ reply' \in [Clients -> Replies]
      /\ view' = view /\ UNCHANGED <<used, applied>> /\ ExpectedSeen'
  BY AnswerRequests DEF DeleteNote, Replies
<1>2. \/ notes' = notes
      \/ notes' = [notes EXCEPT ![request[c].id] = NoNote]
  BY DEF DeleteNote
<1>3. /\ notes' \in [Ids -> Notes \cup {NoNote}]
      /\ \A id \in Ids : notes'[id] = notes[id] \/ notes'[id] = NoNote
  BY <1>2
<1>4. ViewUsed' /\ ViewOld' /\ AppliedOutdates'
  BY <1>1, <1>3 DEF ViewUsed, ViewOld, AppliedOutdates, Lives, Views
<1> QED
  BY <1>1, <1>3, <1>4

\* Every mutation, reading, loss or answer keeps the invariant.
LEMMA StoreStep == StoreInv /\ [Next]_vars => StoreInv'
<1> SUFFICES ASSUME StoreInv, [Next]_vars PROVE StoreInv'
  OBVIOUS
<1>1. CASE UNCHANGED vars
  BY <1>1 DEF vars, StoreInv, TypeOK, ViewUsed, ViewOld, ExpectedSeen, AppliedOutdates, Lives
<1> QED
  BY <1>1, GetStep, SendStep, SaveStep, UpdateStep, DeleteStep DEF Next

\* The inductive invariant of the store and of what its clients have seen.
THEOREM StoreCorrect == Spec => []StoreInv
BY StoreInit, StoreStep, PTL DEF Spec

-----------------------------------------------------------------------------
\* Every variable keeps its type; a version, once there is one, is a number.
THEOREM StoreTypeCorrect == Spec => []TypeOK
BY StoreCorrect, PTL DEF StoreInv

\* A version never comes back with other content, so it can stand for the
\* content a client has seen.
THEOREM VersionsIdentify == Spec => []VersionIdentifiesContent
<1>1. StoreInv => VersionIdentifiesContent
  BY DEF StoreInv, ViewOld, VersionIdentifiesContent, Lives
<1> QED
  BY <1>1, StoreCorrect, PTL

\* A client that retries an update with the version it saw applies it once.
THEOREM RetriesApplyOnce == Spec => []RetryAppliesOnce
<1>1. StoreInv => RetryAppliesOnce
  BY DEF StoreInv, AppliedOutdates, RetryAppliesOnce
<1> QED
  BY <1>1, StoreCorrect, PTL

\* An update that names a version never overwrites what its sender has not
\* seen, whatever other clients send with or without a version.
THEOREM VersionedUpdatesSafe == Spec => VersionedUpdateReplacesSeen
<1>1. ASSUME StoreInv, [Next]_vars, NEW c \in Clients, applied'[c] > applied[c]
      PROVE  notes[view[c].id].content = view[c].note.content
  <2> USE StoreAssumption DEF StoreInv, TypeOK
  <2>1. CASE UNCHANGED applied
    BY <1>1, <2>1
  <2>2. CASE \E d \in Clients, id \in Ids : Get(d, id)
    BY <1>1, <2>2 DEF Get
  <2>3. ASSUME NEW d \in Clients, UpdateNote(d), applied' # applied
        PROVE  notes[view[c].id].content = view[c].note.content
    <3>1. /\ Arrived(d, "update") /\ notes[request[d].id] # NoNote
          /\ Accepts(notes[request[d].id], request[d].expected)
          /\ applied' = [applied EXCEPT ![d] = IF request[d].expected = NoVersion THEN @ ELSE @ + 1]
      BY <2>3 DEF UpdateNote, Patch
    <3>2. c = d /\ request[c].expected # NoVersion
      BY <1>1, <3>1
    <3>3. /\ view[c] # NoNote /\ request[c].id = view[c].id
          /\ view[c].note.version = request[c].expected
      BY <1>1, <3>1, <3>2 DEF ExpectedSeen, Arrived
    <3>4. notes[view[c].id].version = view[c].note.version
      BY <3>1, <3>2, <3>3 DEF Accepts
    <3> QED
      BY <1>1, <3>1, <3>2, <3>3, <3>4 DEF ViewOld, Lives, Views
  <2>4. \/ UNCHANGED applied
        \/ \E d \in Clients, id \in Ids : Get(d, id)
        \/ \E d \in Clients : UpdateNote(d)
    BY <1>1 DEF Next, vars, SendSave, SendUpdate, SendDelete, Send, Lose, SaveNote, DeleteNote
  <2> QED
    BY <2>1, <2>2, <2>3, <2>4
<1>2. StoreInv /\ [Next]_vars =>
        [\A c \in Clients :
           applied'[c] > applied[c] => notes[view[c].id].content = view[c].note.content]_vars
  BY <1>1
<1> QED
  BY <1>2, StoreCorrect, PTL DEF Spec, VersionedUpdateReplacesSeen

\* Deletion is final, whatever mutations were on their way.
THEOREM DeletionsAreFinal == Spec => DeletedStaysDeleted
<1>1. ASSUME StoreInv, [Next]_vars, NEW id \in used, notes[id] = NoNote
      PROVE  notes'[id] = NoNote
  <2> USE DEF StoreInv, TypeOK
  <2>1. CASE UNCHANGED notes
    BY <1>1, <2>1
  <2>2. ASSUME NEW c \in Clients, SaveNote(c) PROVE notes'[id] = NoNote
    BY <1>1, <2>2 DEF SaveNote
  <2>3. ASSUME NEW c \in Clients, UpdateNote(c) PROVE notes'[id] = NoNote
    BY <1>1, <2>3 DEF UpdateNote, Patch
  <2>4. ASSUME NEW c \in Clients, DeleteNote(c) PROVE notes'[id] = NoNote
    BY <1>1, <2>4 DEF DeleteNote
  <2>5. UNCHANGED notes \/ \E c \in Clients : SaveNote(c) \/ UpdateNote(c) \/ DeleteNote(c)
    BY <1>1 DEF Next, vars, Get, SendSave, SendUpdate, SendDelete, Send, Lose
  <2> QED
    BY <2>1, <2>2, <2>3, <2>4, <2>5
<1>2. StoreInv /\ [Next]_vars =>
        [\A id \in used : notes[id] = NoNote => notes'[id] = NoNote]_vars
  BY <1>1
<1> QED
  BY <1>2, StoreCorrect, PTL DEF Spec, DeletedStaysDeleted

-----------------------------------------------------------------------------
(* The dialog of the editor.                                               *)

\* What the editor compares its text with was in the backend.
KnownStored == cloud \in stored /\ prop \in stored

EditorInv == EditorType /\ KnownStored /\ TypingIsKept /\ ChangesAreDrafted

\* The invariant holds before the dialog is opened.
LEMMA EditorStarts == EditorInit => EditorInv
<1> SUFFICES ASSUME EditorInit PROVE EditorInv
  OBVIOUS
<1>1. Empty \in Texts
  BY EditorAssumption DEF Empty, Texts
<1>2. EditorType
  BY <1>1 DEF EditorInit, EditorType
<1> QED
  BY <1>2 DEF EditorInit, EditorInv, KnownStored, TypingIsKept, ChangesAreDrafted

\* What the two effects do with the text of a render.
LEMMA EffectIs ==
  ASSUME EditorInv, NEW t \in Texts, NEW note \in Texts, note \in stored, AutosaveEffect(t, note)
  PROVE  /\ text' = t /\ prop' = note /\ armed' \in BOOLEAN /\ status' \in {"draft", "saved"}
         /\ draft' \in {t, NoText} /\ (t \notin stored => draft' = t)
         /\ (t # note => draft' = t)
BY DEF AutosaveEffect

\* A load takes the draft, and its effects write the text of the render before.
LEMMA LoadStep ==
  ASSUME EditorInv, open', NEW t \in Texts, NEW note \in {prop, cloud}, LoadEffects(t, note),
         UNCHANGED <<cloud, saves, typed, stored>>,
         \/ ~open /\ UNCHANGED broken
         \/ CutOff
  PROVE  EditorInv'
<1> USE EditorAssumption DEF EditorInv, EditorType
<1>1. note \in Texts /\ note \in stored
  BY DEF KnownStored
<1>2. /\ text' = t /\ prop' = note /\ armed' \in BOOLEAN /\ status' \in {"draft", "saved"}
      /\ draft' \in {t, NoText} /\ (t # note => draft' = t)
  BY <1>1, EffectIs DEF LoadEffects
<1>3. queued' \in Texts /\ queued' # NoText /\ (draft # NoText => queued' = draft)
  BY <1>1 DEF LoadEffects, Loaded, Texts
<1>4. broken' \in BOOLEAN
  BY DEF CutOff
<1>5. EditorType'
  BY <1>1, <1>2, <1>3, <1>4
<1>6. TypingIsKept'
  <2>1. CASE typed = NoText \/ broken' \/ typed \in stored
    BY <2>1 DEF TypingIsKept
  <2>2. CASE typed # NoText /\ ~broken' /\ typed \notin stored
    <3>1. ~broken /\ queued = NoText
      BY <2>2 DEF CutOff
    <3>2. draft = typed
      BY <2>2, <3>1 DEF TypingIsKept
    <3> QED BY <1>3, <2>2, <3>2 DEF TypingIsKept
  <2> QED BY <2>1, <2>2
<1>7. ChangesAreDrafted' /\ KnownStored'
  BY <1>1, <1>2 DEF ChangesAreDrafted, KnownStored
<1> QED
  BY <1>5, <1>6, <1>7

\* The render after a load writes what was loaded back into the draft.
LEMMA RenderStep ==
  ASSUME EditorInv, Render
  PROVE  EditorInv'
<1> USE EditorAssumption DEF EditorInv, EditorType
<1>1. queued # NoText /\ open /\ queued' = NoText /\ UNCHANGED <<cloud, open, saves, histories>>
  BY DEF Render
<1>2. queued \in Texts /\ prop \in Texts /\ prop \in stored
  BY <1>1 DEF KnownStored
<1>3. /\ text' = queued /\ prop' = prop /\ armed' \in BOOLEAN /\ status' \in {"draft", "saved"}
      /\ draft' \in {queued, NoText} /\ (queued \notin stored => draft' = queued)
      /\ (queued # prop => draft' = queued)
  BY <1>2, EffectIs DEF Render
<1>4. EditorType'
  BY <1>1, <1>2, <1>3 DEF histories
<1>5. TypingIsKept' /\ ChangesAreDrafted' /\ KnownStored'
  BY <1>1, <1>2, <1>3 DEF TypingIsKept, ChangesAreDrafted, KnownStored, histories
<1> QED
  BY <1>4, <1>5

\* What is typed is drafted at once, or is what the note has already.
LEMMA TypeStep ==
  ASSUME EditorInv, NEW t \in Texts, Type(t)
  PROVE  EditorInv'
<1> USE EditorAssumption DEF EditorInv, EditorType
<1>1. /\ open /\ queued' = NoText /\ typed' = t /\ broken' = FALSE
      /\ UNCHANGED <<cloud, open, saves, stored>>
  BY DEF Type
<1>2. prop \in Texts /\ prop \in stored
  BY DEF KnownStored
<1>3. /\ text' = t /\ prop' = prop /\ armed' \in BOOLEAN /\ status' \in {"draft", "saved"}
      /\ draft' \in {t, NoText} /\ (t \notin stored => draft' = t) /\ (t # prop => draft' = t)
  BY <1>2, EffectIs DEF Type
<1>4. EditorType'
  BY <1>1, <1>3
<1>5. TypingIsKept' /\ ChangesAreDrafted' /\ KnownStored'
  BY <1>1, <1>2, <1>3 DEF TypingIsKept, ChangesAreDrafted, KnownStored
<1> QED
  BY <1>4, <1>5

\* A save in progress carries a text that may be stored.
LEMMA CallOnSaveType ==
  ASSUME EditorType, open, NEW s \in Slots, NEW tracked \in BOOLEAN, CallOnSave(s, tracked)
  PROVE  saves' \in [Slots -> Saves \cup {NoSave}]
<1>1. text \in Texts
  BY DEF EditorType
<1>2. Trim(text) \in Texts
  BY <1>1 DEF Texts, Trim
<1> QED
  BY <1>2 DEF CallOnSave, EditorType, Saves

\* The steps that leave the text, the note and the draft alone.
LEMMA EditorSaveStep ==
  ASSUME EditorInv,
         \/ \E s \in Slots : Autosave(s) \/ HandleSave(s)
         \/ \E s \in Slots, resolved \in BOOLEAN : Settle(s, resolved)
         \/ AutosaveUntitled
  PROVE  EditorInv'
<1> USE DEF EditorInv
<1>1. UNCHANGED <<cloud, prop, open, text, queued, draft, histories>>
  <2>1. CASE \E s \in Slots : Autosave(s) \/ HandleSave(s)
    BY <2>1 DEF Autosave, HandleSave, dialogVars
  <2>2. CASE \E s \in Slots, resolved \in BOOLEAN : Settle(s, resolved)
    BY <2>2 DEF Settle
  <2>3. CASE AutosaveUntitled
    BY <2>3 DEF AutosaveUntitled
  <2> QED
    BY <2>1, <2>2, <2>3
<1>2. KnownStored' /\ TypingIsKept' /\ ChangesAreDrafted'
  BY <1>1 DEF KnownStored, TypingIsKept, ChangesAreDrafted, histories
<1>3. saves' \in [Slots -> Saves \cup {NoSave}]
  <2>1. CASE \E s \in Slots : Autosave(s) \/ HandleSave(s)
    <3>1. PICK s \in Slots : open /\ (CallOnSave(s, TRUE) \/ CallOnSave(s, FALSE))
      BY <2>1 DEF Autosave, HandleSave
    <3> QED
      BY <3>1, CallOnSaveType
  <2>2. CASE \E s \in Slots, resolved \in BOOLEAN : Settle(s, resolved)
    BY <2>2 DEF Settle, EditorType
  <2>3. CASE AutosaveUntitled
    BY <2>3 DEF AutosaveUntitled, EditorType
  <2> QED
    BY <2>1, <2>2, <2>3
<1>4. /\ open' \in BOOLEAN /\ armed' \in BOOLEAN /\ (armed' => open')
      /\ status' \in {"saved", "draft", "saving", "sync_error"}
  <2>1. CASE \E s \in Slots : HandleSave(s)
    BY <2>1 DEF HandleSave, dialogVars, EditorType
  <2>2. CASE \E s \in Slots : Autosave(s)
    BY <2>2 DEF Autosave, EditorType
  <2>3. CASE \E s \in Slots, resolved \in BOOLEAN : Settle(s, resolved)
    BY <2>3 DEF Settle, EditorType
  <2>4. CASE AutosaveUntitled
    BY <2>4 DEF AutosaveUntitled, EditorType
  <2> QED
    BY <2>1, <2>2, <2>3, <2>4
<1> QED
  BY <1>1, <1>2, <1>3, <1>4 DEF EditorType, histories

\* A text that reaches the backend is what a save carried or what another
\* client wrote; the editor does not hear of it.
LEMMA WriteStep ==
  ASSUME EditorInv,
         (\E s \in Slots : Apply(s)) \/ (\E t \in Texts : OtherWrites(t))
  PROVE  EditorInv'
<1> USE DEF EditorInv, EditorType
<1>1. UNCHANGED <<dialogVars, typed, broken>> /\ cloud' \in Texts /\ stored' = stored \cup {cloud'}
  BY DEF Apply, OtherWrites, Saves
<1>2. saves' \in [Slots -> Saves \cup {NoSave}]
  BY DEF Apply, OtherWrites, Saves
<1> QED
  BY <1>1, <1>2 DEF dialogVars, KnownStored, TypingIsKept, ChangesAreDrafted

\* Closing leaves the draft alone.
LEMMA CloseStep ==
  ASSUME EditorInv, Close
  PROVE  EditorInv'
BY DEF EditorInv, EditorType, Close, CutOff, KnownStored, TypingIsKept, ChangesAreDrafted

\* After a crash the draft is all that is left of the text.
LEMMA ReloadStep ==
  ASSUME EditorInv, Reload
  PROVE  EditorInv'
<1> USE DEF EditorInv, EditorType
<1>1. saves' \in [Slots -> Saves \cup {NoSave}]
  BY DEF Reload, Saves
<1>2. Empty \in Texts
  BY EditorAssumption DEF Empty, Texts
<1> QED
  BY <1>1, <1>2 DEF Reload, CutOff, KnownStored, TypingIsKept, ChangesAreDrafted

\* Every step of the user, the timer, the backend and the browser keeps the invariant.
LEMMA EditorStep == EditorInv /\ [EditorNext]_editorVars => EditorInv'
<1> SUFFICES ASSUME EditorInv, [EditorNext]_editorVars PROVE EditorInv'
  OBVIOUS
<1>1. Empty \in Texts
  BY EditorAssumption DEF Empty, Texts
<1>2. CASE Open
  <2>1. PICK note \in {prop, cloud}, left \in {text, Empty} : LoadEffects(left, note)
    BY <1>2 DEF Open
  <2> QED BY <1>1, <1>2, <2>1, LoadStep DEF Open, histories, EditorInv, EditorType
<1>3. CASE Refresh
  <2>1. (IF queued = NoText THEN text ELSE queued) \in Texts
    BY DEF EditorInv, EditorType
  <2> QED BY <1>3, <2>1, LoadStep DEF Refresh
<1>4. CASE UNCHANGED editorVars
  BY <1>4 DEF editorVars, dialogVars, histories, EditorInv, EditorType, KnownStored, TypingIsKept,
     ChangesAreDrafted
<1> QED
  BY <1>2, <1>3, <1>4, RenderStep, TypeStep, EditorSaveStep, WriteStep, CloseStep, ReloadStep
  DEF EditorNext

\* The inductive invariant of the dialog: what was typed is kept, whatever fails.
THEOREM EditorCorrect == EditorSpec => []EditorInv
BY EditorStarts, EditorStep, PTL DEF EditorSpec

-----------------------------------------------------------------------------
\* Every variable keeps its type, and neither a timer nor a load is left for a
\* closed editor.
THEOREM EditorTypeCorrect == EditorSpec => []EditorType
BY EditorCorrect, PTL DEF EditorInv

\* No sequence of closing, crashes, refreshes, failing and late saves loses
\* what the user typed last, unless one of them cuts off a load from its render.
THEOREM TypingNeverLost == EditorSpec => []TypingIsKept
BY EditorCorrect, PTL DEF EditorInv

\* The text of an open editor that differs from its note has a draft.
THEOREM EveryChangeDrafted == EditorSpec => []ChangesAreDrafted
BY EditorCorrect, PTL DEF EditorInv

-----------------------------------------------------------------------------
(* The Markdown preview: increasing sequences of line numbers.             *)

Increasing(s) == \A j, k \in DOMAIN s : j < k => s[j] < s[k]

Within(s, from, to) == \A k \in DOMAIN s : from <= s[k] /\ s[k] < to

Occurs(s, line) == \E k \in DOMAIN s : s[k] = line

\* The elements of a concatenation.
LEMMA ConcatElements ==
  ASSUME NEW s \in Seq(Nat), NEW t \in Seq(Nat)
  PROVE  /\ s \o t \in Seq(Nat) /\ Len(s) \in Nat /\ Len(t) \in Nat
         /\ DOMAIN s = 1..Len(s) /\ DOMAIN t = 1..Len(t)
         /\ DOMAIN (s \o t) = 1..(Len(s) + Len(t))
         /\ \A k \in 1..Len(s) : (s \o t)[k] = s[k]
         /\ \A k \in 1..Len(t) : (s \o t)[Len(s) + k] = t[k]
  OBVIOUS

\* An increasing sequence with later lines at its end.
LEMMA IncreasingConcat ==
  ASSUME NEW s \in Seq(Nat), NEW t \in Seq(Nat), NEW from \in Nat, NEW to \in Nat, from <= to,
         Increasing(s), Within(s, 0, from), Increasing(t), Within(t, from, to)
  PROVE  /\ s \o t \in Seq(Nat) /\ Increasing(s \o t) /\ Within(s \o t, 0, to)
         /\ \A line : Occurs(s, line) \/ Occurs(t, line) => Occurs(s \o t, line)
<1>1. /\ s \o t \in Seq(Nat) /\ Len(s) \in Nat /\ Len(t) \in Nat
      /\ DOMAIN s = 1..Len(s) /\ DOMAIN t = 1..Len(t)
      /\ DOMAIN (s \o t) = 1..(Len(s) + Len(t))
      /\ \A k \in 1..Len(s) : (s \o t)[k] = s[k]
      /\ \A k \in 1..Len(t) : (s \o t)[Len(s) + k] = t[k]
  BY ConcatElements
<1>2. PICK m \in Nat, n \in Nat : m = Len(s) /\ n = Len(t)
  BY <1>1
<1> DEFINE st == s \o t
<1> HIDE DEF st
<1>3. /\ st \in Seq(Nat) /\ DOMAIN s = 1..m /\ DOMAIN t = 1..n /\ DOMAIN st = 1..(m + n)
      /\ \A k \in 1..m : st[k] = s[k]
      /\ \A k \in 1..n : st[m + k] = t[k]
  BY <1>1, <1>2 DEF st
<1>4. /\ \A k \in 1..m : s[k] \in Nat
      /\ \A k \in 1..n : t[k] \in Nat
  BY <1>3
<1>5. \A k \in 1..(m + n) : k \in 1..m \/ (k - m \in 1..n /\ st[k] = t[k - m] /\ k > m)
  <2> SUFFICES ASSUME NEW k \in 1..(m + n), k \notin 1..m
               PROVE  k - m \in 1..n /\ st[k] = t[k - m] /\ k > m
    OBVIOUS
  <2>1. k - m \in 1..n /\ m + (k - m) = k /\ k > m
    OBVIOUS
  <2> QED BY <2>1, <1>3
<1>6. Increasing(st)
  <2> SUFFICES ASSUME NEW j \in 1..(m + n), NEW k \in 1..(m + n), j < k
               PROVE  st[j] < st[k]
    BY <1>3 DEF Increasing
  <2>1. CASE k \in 1..m
    <3>1. j \in 1..m
      BY <2>1
    <3> QED BY <2>1, <3>1, <1>3 DEF Increasing
  <2>2. CASE j \in 1..m /\ k \notin 1..m
    <3>1. st[j] = s[j] /\ s[j] \in Nat /\ s[j] < from
      BY <2>2, <1>3, <1>4 DEF Within
    <3>2. k - m \in 1..n /\ st[k] = t[k - m]
      BY <2>2, <1>5
    <3>3. st[k] \in Nat /\ from <= st[k]
      BY <3>2, <1>3, <1>4 DEF Within
    <3> QED BY <3>1, <3>3
  <2>3. CASE j \notin 1..m
    <3>1. k \notin 1..m /\ j - m < k - m
      BY <2>3
    <3>2. /\ j - m \in 1..n /\ st[j] = t[j - m]
          /\ k - m \in 1..n /\ st[k] = t[k - m]
      BY <2>3, <3>1, <1>5
    <3> QED BY <3>1, <3>2, <1>3 DEF Increasing
  <2> QED BY <2>1, <2>2, <2>3
<1>7. Within(st, 0, to)
  <2> SUFFICES ASSUME NEW k \in 1..(m + n) PROVE 0 <= st[k] /\ st[k] < to
    BY <1>3 DEF Within
  <2>1. CASE k \in 1..m
    <3>1. st[k] = s[k] /\ s[k] \in Nat /\ s[k] < from
      BY <2>1, <1>3, <1>4 DEF Within
    <3> QED BY <3>1
  <2>2. CASE k \notin 1..m
    <3>1. k - m \in 1..n /\ st[k] = t[k - m]
      BY <2>2, <1>5
    <3>2. st[k] \in Nat /\ st[k] < to
      BY <3>1, <1>3, <1>4 DEF Within
    <3> QED BY <3>2
  <2> QED BY <2>1, <2>2
<1>8. ASSUME NEW line, Occurs(s, line) \/ Occurs(t, line) PROVE Occurs(st, line)
  <2>1. ASSUME NEW k \in 1..m, s[k] = line PROVE Occurs(st, line)
    <3>1. k \in 1..(m + n)
      OBVIOUS
    <3> QED BY <2>1, <3>1, <1>3 DEF Occurs
  <2>2. ASSUME NEW k \in 1..n, t[k] = line PROVE Occurs(st, line)
    <3>1. m + k \in 1..(m + n)
      OBVIOUS
    <3> QED BY <2>2, <3>1, <1>3 DEF Occurs
  <2> QED BY <2>1, <2>2, <1>8, <1>3 DEF Occurs
<1> QED BY <1>3, <1>6, <1>7, <1>8 DEF st

\* The lines from one to another, and no other.
LEMMA NumbersAre ==
  ASSUME NEW from \in Nat, NEW to \in Nat, from <= to
  PROVE  /\ Numbers(from, to) \in Seq(Nat)
         /\ Increasing(Numbers(from, to)) /\ Within(Numbers(from, to), from, to)
         /\ \A line \in from..(to - 1) : Occurs(Numbers(from, to), line)
         /\ from < to => Numbers(from, to)[1] = from
<1>1. PICK n \in Nat : n = to - from
  OBVIOUS
<1> DEFINE s == [k \in 1..n |-> from + k - 1]
<1>2. Numbers(from, to) = s
  BY <1>1 DEF Numbers
<1>3. \A k \in 1..n : from + k - 1 \in Nat /\ from <= from + k - 1 /\ from + k - 1 < to
  BY <1>1
<1>4. s \in Seq(Nat)
  BY <1>3
<1>5. Increasing(s) /\ Within(s, from, to)
  BY <1>3 DEF Increasing, Within
<1>6. ASSUME NEW line \in from..(to - 1) PROVE Occurs(s, line)
  <2>1. line + 1 - from \in 1..n /\ from + (line + 1 - from) - 1 = line
    BY <1>1
  <2> QED BY <2>1 DEF Occurs
<1>7. from < to => s[1] = from
  BY <1>1
<1> HIDE DEF s
<1> QED BY <1>2, <1>4, <1>5, <1>6, <1>7

\* The first line that breaks a run, or the end of the document.
LEMMA LeastIn ==
  ASSUME NEW i \in Nat, NEW n \in Nat, i <= n + 1, NEW S \in SUBSET (i..n)
  PROVE  Min(S \cup {n + 1}) \in i..(n + 1) /\ Min(S \cup {n + 1}) \in S \cup {n + 1}
<1> DEFINE T == S \cup {n + 1}
<1>1. T \in SUBSET Nat /\ T # {} /\ \A x \in T : x \in i..(n + 1)
  OBVIOUS
<1> HIDE DEF T
<1>2. \E x \in T : \A y \in T : x <= y
  BY <1>1, LeastNatural
<1>3. Min(T) \in T
  BY <1>2 DEF Min
<1> QED BY <1>1, <1>3 DEF T

-----------------------------------------------------------------------------
(* The invariant: the lines taken are increasing and below the next line,   *)
(* and every line before the next one is taken or may be left out.          *)

BlockKinds == {"code", "heading", "rule", "quote", "task", "bullet", "number", "table", "paragraph"}

Blocks == [b \in DOMAIN html |-> html[b].shown]

PreviewType ==
  /\ lines \in Seq(Lines) /\ index \in 1..(Len(lines) + 1) /\ inCode \in BOOLEAN
  /\ html \in Seq([kind : BlockKinds, shown : Seq(Nat)])
  /\ codeLines \in Seq(Nat)
  /\ ~inCode => codeLines = <<>>
  /\ FlattenSeq(Blocks) \in Seq(Nat)

LinesOrdered == Taken \in Seq(Nat) /\ Increasing(Taken) /\ Within(Taken, 0, index)

\* A row of delimiters is under the header of a table that is shown.
LeftOut(line) ==
  \/ lines[line].kind \in {"blank", "fence"}
  \/ /\ lines[line].delimiter
     /\ \E b \in DOMAIN html : html[b].kind = "table" /\ html[b].shown[1] = line - 1

LinesCovered == \A line \in 1..(index - 1) : Occurs(Taken, line) \/ LeftOut(line)

PreviewInv == PreviewType /\ LinesOrdered /\ LinesCovered

LEMMA PreviewStarts == PreviewInit => PreviewInv
<1> SUFFICES ASSUME PreviewInit PROVE PreviewInv
  OBVIOUS
<1>1. lines \in Seq(Lines) /\ index = 1 /\ inCode = FALSE /\ codeLines = <<>> /\ html = <<>>
  BY DocumentsAssumption DEF PreviewInit
<1>2. Blocks = <<>> /\ FlattenSeq(Blocks) = <<>>
  <2>1. Blocks = <<>>
    BY <1>1 DEF Blocks
  <2>2. FlattenSeq(<<>>) = <<>>
    BY DEF FlattenSeq
  <2> QED BY <2>1, <2>2
<1>3. Taken = <<>>
  BY <1>1, <1>2 DEF Taken, Shown, Blocks
<1>4. PreviewType
  <2> DEFINE Block == [kind : BlockKinds, shown : Seq(Nat)]
  <2>1. html \in Seq(Block)
    <3> HIDE DEF Block
    <3> QED BY <1>1
  <2>2. index \in 1..(Len(lines) + 1)
    BY <1>1
  <2>3. codeLines \in Seq(Nat) /\ FlattenSeq(Blocks) \in Seq(Nat)
    <3>1. <<>> \in Seq(Nat)
      OBVIOUS
    <3> QED BY <1>1, <1>2, <3>1
  <2> QED BY <1>1, <2>1, <2>2, <2>3 DEF PreviewType
<1>5. LinesOrdered
  BY <1>1, <1>3 DEF LinesOrdered, Increasing, Within
<1>6. LinesCovered
  BY <1>1 DEF LinesCovered
<1> QED BY <1>4, <1>5, <1>6 DEF PreviewInv

\* A block that is pushed shows its lines after those that were shown.
LEMMA PushShows ==
  ASSUME PreviewInv, NEW kind \in BlockKinds, NEW shown \in Seq(Nat), NEW to, Push(kind, shown, to)
  PROVE  /\ html' \in Seq([kind : BlockKinds, shown : Seq(Nat)])
         /\ FlattenSeq(Blocks') = FlattenSeq(Blocks) \o shown
         /\ \A line : LeftOut(line) => LeftOut(line)'
         /\ \E b \in DOMAIN html' : html'[b] = [kind |-> kind, shown |-> shown]
<1> DEFINE Block == [kind : BlockKinds, shown : Seq(Nat)]
           block == [kind |-> kind, shown |-> shown]
<1>1. html \in Seq(Block) /\ block \in Block /\ html' = Append(html, block) /\ lines' = lines
  BY DEF Push, PreviewInv, PreviewType
<1>2. block.shown = shown
  OBVIOUS
<1>3. \A b \in Block : b.shown \in Seq(Nat)
  OBVIOUS
<1> HIDE DEF Block, block
<1>4. /\ html' \in Seq(Block) /\ Len(html) \in Nat /\ DOMAIN html = 1..Len(html)
      /\ DOMAIN html' = 1..(Len(html) + 1)
      /\ \A b \in 1..Len(html) : html'[b] = html[b] /\ html[b] \in Block
      /\ html'[Len(html) + 1] = block
  BY <1>1
<1>5. Blocks \in Seq(Seq(Nat)) /\ Len(Blocks) = Len(html)
  BY <1>3, <1>4 DEF Blocks
<1>6. Blocks' = Append(Blocks, shown)
  BY <1>2, <1>4, <1>5 DEF Blocks
<1>7. FlattenSeq(Blocks') = FlattenSeq(Blocks) \o shown
  BY <1>5, <1>6, FlattenAppend
<1>8. \A line : LeftOut(line) => LeftOut(line)'
  BY <1>1, <1>4 DEF LeftOut
<1>9. \E b \in DOMAIN html' : html'[b] = block
  BY <1>4
<1> USE DEF Block, block
<1> QED BY <1>4, <1>7, <1>8, <1>9

\* A block of the lines from the next one on keeps the invariant.
LEMMA BlockStep ==
  ASSUME PreviewInv, ~inCode, UNCHANGED <<inCode, codeLines>>,
         NEW kind \in BlockKinds, NEW shown \in Seq(Nat), NEW to \in (index + 1)..(Len(lines) + 1),
         Push(kind, shown, to), Increasing(shown), Within(shown, index, to),
         \A line \in index..(to - 1) :
           \/ Occurs(shown, line)
           \/ lines[line].delimiter /\ kind = "table" /\ shown[1] = line - 1
  PROVE  PreviewInv'
<1>1. /\ index \in Nat /\ to \in Nat /\ index <= to /\ Len(lines) \in Nat
      /\ codeLines = <<>> /\ codeLines' = <<>> /\ index' = to /\ lines' = lines
      /\ FlattenSeq(Blocks) \in Seq(Nat)
  BY DEF PreviewInv, PreviewType, Push
<1>2. Taken = FlattenSeq(Blocks)
  BY <1>1 DEF Taken, Shown, Blocks
<1>3. Increasing(Taken) /\ Within(Taken, 0, index) /\ Taken \in Seq(Nat)
  BY DEF PreviewInv, LinesOrdered
<1>4. /\ Taken \o shown \in Seq(Nat) /\ Increasing(Taken \o shown) /\ Within(Taken \o shown, 0, to)
      /\ \A line : Occurs(Taken, line) \/ Occurs(shown, line) => Occurs(Taken \o shown, line)
  BY <1>1, <1>3, IncreasingConcat
<1>5. /\ html' \in Seq([kind : BlockKinds, shown : Seq(Nat)])
      /\ FlattenSeq(Blocks') = FlattenSeq(Blocks) \o shown
      /\ \A line : LeftOut(line) => LeftOut(line)'
      /\ \E b \in DOMAIN html' : html'[b] = [kind |-> kind, shown |-> shown]
  BY PushShows
<1>6. Taken' = Taken \o shown
  <2>1. Taken' = FlattenSeq(Blocks') \o <<>>
    BY <1>1 DEF Taken, Shown, Blocks
  <2> QED BY <2>1, <1>2, <1>4, <1>5
<1>7. PreviewType'
  BY <1>1, <1>2, <1>4, <1>5 DEF PreviewInv, PreviewType
<1>8. LinesOrdered'
  BY <1>1, <1>4, <1>6 DEF LinesOrdered
<1>9. LinesCovered'
  <2> SUFFICES ASSUME NEW line \in 1..(to - 1) PROVE Occurs(Taken', line) \/ LeftOut(line)'
    BY <1>1 DEF LinesCovered, Occurs
  <2>1. CASE line < index
    <3>1. Occurs(Taken, line) \/ LeftOut(line)
      BY <2>1, <1>1 DEF PreviewInv, LinesCovered
    <3> QED BY <3>1, <1>4, <1>5, <1>6
  <2>2. CASE ~(line < index)
    <3>1. line \in index..(to - 1)
      BY <2>2, <1>1
    <3>2. CASE Occurs(shown, line)
      BY <3>2, <1>4, <1>6
    <3>3. ASSUME lines[line].delimiter, kind = "table", shown[1] = line - 1
          PROVE  LeftOut(line)'
      <4> DEFINE block == [kind |-> kind, shown |-> shown]
      <4>1. PICK b \in DOMAIN html' : html'[b] = block
        BY <1>5
      <4>2. block.kind = kind /\ block.shown = shown
        OBVIOUS
      <4> HIDE DEF block
      <4>3. html'[b].kind = "table" /\ html'[b].shown[1] = line - 1
        BY <3>3, <4>1, <4>2
      <4> QED BY <3>3, <4>1, <4>3, <1>1 DEF LeftOut
    <3> QED BY <3>1, <3>2, <3>3
  <2> QED BY <2>1, <2>2
<1> QED BY <1>7, <1>8, <1>9 DEF PreviewInv

\* A block of one kind of line is never empty.
LEMMA RunStep ==
  ASSUME PreviewInv, ~inCode, NEW kind \in BlockKinds,
         NEW to \in (index + 1)..(Len(lines) + 1), PushRun(kind, to)
  PROVE  PreviewInv'
<1>1. index \in Nat /\ to \in Nat /\ index <= to
  BY DEF PreviewInv, PreviewType
<1>2. /\ Numbers(index, to) \in Seq(Nat)
      /\ Increasing(Numbers(index, to)) /\ Within(Numbers(index, to), index, to)
      /\ \A line \in index..(to - 1) : Occurs(Numbers(index, to), line)
  BY <1>1, NumbersAre
<1> QED BY <1>2, BlockStep DEF PushRun

LEMMA RunEndLater ==
  ASSUME PreviewInv, ~Done, NEW kinds
  PROVE  /\ RunEnd(index, kinds) \in index..(Len(lines) + 1)
         /\ lines[index].kind \in kinds => RunEnd(index, kinds) \in (index + 1)..(Len(lines) + 1)
<1> DEFINE S == {j \in index..Len(lines) : lines[j].kind \notin kinds}
<1>1. /\ index \in Nat /\ Len(lines) \in Nat /\ index <= Len(lines)
      /\ S \in SUBSET (index..Len(lines))
      /\ lines[index].kind \in kinds => index \notin S
  BY DEF PreviewInv, PreviewType, Done
<1>2. RunEnd(index, kinds) = Min(S \cup {Len(lines) + 1})
  BY DEF RunEnd
<1> HIDE DEF S
<1>3. /\ Min(S \cup {Len(lines) + 1}) \in index..(Len(lines) + 1)
      /\ Min(S \cup {Len(lines) + 1}) \in S \cup {Len(lines) + 1}
  BY <1>1, LeastIn
<1> QED BY <1>1, <1>2, <1>3

\* The header of a table and its rows: the delimiters between them are left out.
LEMMA TableStep ==
  ASSUME PreviewInv, Table
  PROVE  PreviewInv'
<1> DEFINE S == {j \in TableBody..Len(lines) : ~lines[j].pipe}
           to == Min(S \cup {Len(lines) + 1})
           rows == Numbers(TableBody, to)
<1>1. /\ ~inCode /\ UNCHANGED <<inCode, codeLines>> /\ Push("table", <<index>> \o rows, to)
      /\ index < Len(lines) /\ lines[index + 1].delimiter
  BY DEF Table, TableHere, Unmatched, Looking
<1>2. index \in Nat /\ index >= 1 /\ Len(lines) \in Nat /\ TableBody = index + 2
  BY DEF PreviewInv, PreviewType, TableBody
<1>3. S \in SUBSET (TableBody..Len(lines))
  OBVIOUS
<1> HIDE DEF S
<1>4. to \in (index + 2)..(Len(lines) + 1)
  <2>1. PICK from \in Nat : from = TableBody
    BY <1>2
  <2>2. Len(lines) \in Nat /\ from <= Len(lines) + 1 /\ S \in SUBSET (from..Len(lines))
    BY <2>1, <1>1, <1>2, <1>3
  <2>3. to \in from..(Len(lines) + 1)
    BY <2>2, LeastIn
  <2> QED BY <2>1, <2>3, <1>2
<1> HIDE DEF to
<1>5. /\ rows \in Seq(Nat) /\ Increasing(rows) /\ Within(rows, index + 2, to)
      /\ \A line \in (index + 2)..(to - 1) : Occurs(rows, line)
  <2>1. TableBody \in Nat /\ to \in Nat /\ TableBody <= to
    BY <1>2, <1>4
  <2>2. /\ rows \in Seq(Nat) /\ Increasing(rows) /\ Within(rows, TableBody, to)
        /\ \A line \in TableBody..(to - 1) : Occurs(rows, line)
    BY <2>1, NumbersAre
  <2> QED BY <2>2, <1>2
<1> HIDE DEF rows
<1> DEFINE header == <<index>>
<1>6. /\ header \in Seq(Nat) /\ Len(header) = 1 /\ DOMAIN header = {1} /\ header[1] = index
  BY <1>2
<1> HIDE DEF header
<1>7. header \o rows \in Seq(Nat) /\ (header \o rows)[1] = index
  <2>1. 1 \in 1..Len(header)
    BY <1>6
  <2>2. header \o rows \in Seq(Nat)
    BY <1>5, <1>6
  <2>3. \A k \in 1..Len(header) : (header \o rows)[k] = header[k]
    BY <1>5, <1>6, ConcatElements
  <2> QED BY <2>1, <2>2, <2>3, <1>6
<1>8. /\ Increasing(header) /\ Within(header, 0, index + 2) /\ Occurs(header, index)
  BY <1>2, <1>6 DEF Increasing, Within, Occurs
<1>9. /\ Increasing(header \o rows)
      /\ \A line : Occurs(header, line) \/ Occurs(rows, line) => Occurs(header \o rows, line)
  BY <1>2, <1>4, <1>5, <1>6, <1>8, IncreasingConcat
<1>10. Within(header \o rows, index, to)
  <2>1. PICK n \in Nat : n = Len(rows) /\ DOMAIN rows = 1..n
    BY <1>5
  <2>2. /\ DOMAIN (header \o rows) = 1..(1 + n)
        /\ \A k \in 1..n : (header \o rows)[1 + k] = rows[k]
    <3>1. /\ DOMAIN (header \o rows) = 1..(Len(header) + Len(rows))
          /\ \A k \in 1..Len(rows) : (header \o rows)[Len(header) + k] = rows[k]
      BY <1>5, <1>6, ConcatElements
    <3> QED BY <3>1, <2>1, <1>6
  <2> SUFFICES ASSUME NEW k \in 1..(1 + n)
               PROVE  index <= (header \o rows)[k] /\ (header \o rows)[k] < to
    BY <2>2 DEF Within
  <2>3. CASE k = 1
    BY <2>3, <1>2, <1>4, <1>7
  <2>4. CASE k # 1
    <3>1. k - 1 \in 1..n /\ 1 + (k - 1) = k
      BY <2>4
    <3>2. (header \o rows)[k] = rows[k - 1] /\ rows[k - 1] \in Nat
      BY <3>1, <2>1, <2>2, <1>5
    <3>3. index + 2 <= rows[k - 1] /\ rows[k - 1] < to
      BY <3>1, <2>1, <1>5 DEF Within
    <3> QED BY <3>2, <3>3, <1>2
  <2> QED BY <2>3, <2>4
<1>11. ASSUME NEW line \in index..(to - 1)
       PROVE  \/ Occurs(header \o rows, line)
              \/ lines[line].delimiter /\ (header \o rows)[1] = line - 1
  <2>1. line = index \/ line = index + 1 \/ line \in (index + 2)..(to - 1)
    BY <1>2, <1>4
  <2>2. CASE line = index
    BY <2>2, <1>8, <1>9
  <2>3. CASE line = index + 1
    <3>1. line - 1 = index
      BY <2>3, <1>2
    <3> QED BY <2>3, <3>1, <1>1, <1>7
  <2>4. CASE line \in (index + 2)..(to - 1)
    BY <2>4, <1>5, <1>9
  <2> QED BY <2>1, <2>2, <2>3, <2>4
<1>12. to \in (index + 1)..(Len(lines) + 1) /\ Push("table", header \o rows, to)
  BY <1>1, <1>2, <1>4 DEF header
<1> DEFINE shown == header \o rows
<1> HIDE DEF shown
<1>13. /\ shown \in Seq(Nat) /\ Increasing(shown) /\ Within(shown, index, to)
  BY <1>7, <1>9, <1>10 DEF shown
<1>14. PICK kind \in BlockKinds : kind = "table"
  BY DEF BlockKinds
<1>15. /\ Push(kind, shown, to)
       /\ \A line \in index..(to - 1) :
            \/ Occurs(shown, line)
            \/ lines[line].delimiter /\ kind = "table" /\ shown[1] = line - 1
  BY <1>11, <1>12, <1>14 DEF shown
<1> QED BY <1>1, <1>12, <1>13, <1>15, BlockStep

\* A line that is passed over adds nothing and may be left out.
LEMMA PassStep ==
  ASSUME PreviewInv, ~inCode, ~Done, lines[index].kind \in {"blank", "fence"},
         index' = index + 1, inCode' \in BOOLEAN, UNCHANGED <<lines, codeLines, html>>
  PROVE  PreviewInv'
<1>1. Blocks' = Blocks /\ Taken' = Taken
  BY DEF Blocks, Taken, Shown
<1>2. /\ index \in Nat /\ index >= 1 /\ Len(lines) \in Nat /\ index <= Len(lines)
      /\ codeLines = <<>>
  BY DEF PreviewInv, PreviewType, Done
<1>3. PreviewType'
  BY <1>1, <1>2 DEF PreviewInv, PreviewType
<1>4. LinesOrdered'
  <2>1. Taken \in Seq(Nat) /\ Increasing(Taken) /\ Within(Taken, 0, index)
    BY DEF PreviewInv, LinesOrdered
  <2>2. Within(Taken, 0, index + 1)
    <3>1. \A k \in DOMAIN Taken : Taken[k] \in Nat
      BY <2>1
    <3> QED BY <2>1, <3>1, <1>2 DEF Within
  <2> QED BY <2>1, <2>2, <1>1 DEF LinesOrdered
<1>5. LinesCovered'
  <2> SUFFICES ASSUME NEW line \in 1..index PROVE Occurs(Taken, line) \/ LeftOut(line)'
    BY <1>1, <1>2 DEF LinesCovered, Occurs
  <2>1. LeftOut(line)' <=> LeftOut(line)
    BY DEF LeftOut
  <2>2. line = index \/ line \in 1..(index - 1)
    BY <1>2
  <2>3. CASE line = index
    BY <2>1, <2>3 DEF LeftOut
  <2>4. CASE line \in 1..(index - 1)
    BY <2>1, <2>4 DEF PreviewInv, LinesCovered
  <2> QED BY <2>2, <2>3, <2>4
<1> QED BY <1>3, <1>4, <1>5 DEF PreviewInv

\* A line of code waits in the open block for the fence that closes it.
LEMMA CodeLineStep ==
  ASSUME PreviewInv, CodeLine
  PROVE  PreviewInv'
<1> DEFINE flat == FlattenSeq(Blocks)
           added == <<index>>
<1>1. /\ index \in Nat /\ index >= 1 /\ Len(lines) \in Nat /\ index <= Len(lines) /\ inCode
      /\ index' = index + 1 /\ codeLines' = Append(codeLines, index)
      /\ UNCHANGED <<lines, inCode, html>>
  BY DEF CodeLine, PreviewInv, PreviewType, Done
<1>2. /\ flat \in Seq(Nat) /\ codeLines \in Seq(Nat) /\ Blocks' = Blocks
      /\ Taken = flat \o codeLines /\ Taken' = flat \o codeLines'
  BY <1>1 DEF PreviewInv, PreviewType, Blocks, Taken, Shown
<1> HIDE DEF flat
<1>3. codeLines' = codeLines \o added /\ codeLines' \in Seq(Nat)
  BY <1>1, <1>2
<1>4. /\ added \in Seq(Nat) /\ Increasing(added) /\ Within(added, index, index + 1)
      /\ Occurs(added, index)
  BY <1>1 DEF Increasing, Within, Occurs
<1> HIDE DEF added
<1>5. Taken' = Taken \o added
  <2>1. \A a, b, c \in Seq(Nat) : (a \o b) \o c = a \o (b \o c)
    OBVIOUS
  <2> QED BY <2>1, <1>2, <1>3, <1>4
<1>6. Taken \in Seq(Nat) /\ Increasing(Taken) /\ Within(Taken, 0, index)
  BY DEF PreviewInv, LinesOrdered
<1>7. /\ Taken \o added \in Seq(Nat) /\ Increasing(Taken \o added)
      /\ Within(Taken \o added, 0, index + 1)
      /\ \A line : Occurs(Taken, line) \/ Occurs(added, line) => Occurs(Taken \o added, line)
  BY <1>1, <1>4, <1>6, IncreasingConcat
<1>8. PreviewType'
  BY <1>1, <1>2, <1>3 DEF PreviewInv, PreviewType, flat
<1>9. LinesOrdered'
  BY <1>1, <1>5, <1>7 DEF LinesOrdered
<1>10. LinesCovered'
  <2> SUFFICES ASSUME NEW line \in 1..index PROVE Occurs(Taken', line) \/ LeftOut(line)'
    BY <1>1 DEF LinesCovered, Occurs
  <2>1. LeftOut(line)' <=> LeftOut(line)
    BY <1>1 DEF LeftOut
  <2>2. line = index \/ line \in 1..(index - 1)
    BY <1>1
  <2>3. CASE line = index
    BY <2>3, <1>4, <1>5, <1>7
  <2>4. CASE line \in 1..(index - 1)
    <3>1. Occurs(Taken, line) \/ LeftOut(line)
      BY <2>4 DEF PreviewInv, LinesCovered
    <3> QED BY <2>1, <3>1, <1>5, <1>7
  <2> QED BY <2>2, <2>3, <2>4
<1> QED BY <1>8, <1>9, <1>10 DEF PreviewInv

\* A closing fence moves the lines of code into a block: the same are shown.
LEMMA CloseFenceStep ==
  ASSUME PreviewInv, CloseFence
  PROVE  PreviewInv'
<1> DEFINE flat == FlattenSeq(Blocks)
<1>1. /\ index \in Nat /\ index >= 1 /\ Len(lines) \in Nat /\ index <= Len(lines) /\ inCode
      /\ index' = index + 1 /\ codeLines' = <<>> /\ inCode' = FALSE /\ lines' = lines
      /\ lines[index].kind = "fence" /\ Push("code", codeLines, index + 1)
  BY DEF CloseFence, Push, PreviewInv, PreviewType, Done
<1>2. flat \in Seq(Nat) /\ codeLines \in Seq(Nat) /\ Taken = flat \o codeLines
  BY DEF PreviewInv, PreviewType, Blocks, Taken, Shown
<1>3. /\ html' \in Seq([kind : BlockKinds, shown : Seq(Nat)])
      /\ FlattenSeq(Blocks') = flat \o codeLines
      /\ \A line : LeftOut(line) => LeftOut(line)'
  <2>1. PICK kind \in BlockKinds : kind = "code"
    BY DEF BlockKinds
  <2>2. Push(kind, codeLines, index + 1)
    BY <1>1, <2>1
  <2> QED BY <1>2, <2>2, PushShows
<1>4. Taken' = FlattenSeq(Blocks') \o <<>>
  BY <1>1 DEF Taken, Shown, Blocks
<1> HIDE DEF flat
<1>5. Taken' = Taken /\ Taken \in Seq(Nat) /\ FlattenSeq(Blocks') \in Seq(Nat)
  <2>1. flat \o codeLines \in Seq(Nat)
    BY <1>2
  <2> QED BY <2>1, <1>2, <1>3, <1>4
<1>6. PreviewType'
  <2>1. codeLines' \in Seq(Nat)
    BY <1>1
  <2>2. lines' \in Seq(Lines) /\ index' \in 1..(Len(lines') + 1) /\ inCode' \in BOOLEAN
    <3>1. lines \in Seq(Lines)
      BY DEF PreviewInv, PreviewType
    <3>2. index + 1 \in 1..(Len(lines) + 1)
      BY <1>1
    <3> QED BY <3>1, <3>2, <1>1
  <2>3. ~inCode' => codeLines' = <<>>
    BY <1>1
  <2> QED BY <1>3, <1>5, <2>1, <2>2, <2>3 DEF PreviewType, Blocks
<1>7. LinesOrdered'
  <2>1. Increasing(Taken) /\ Within(Taken, 0, index) /\ \A k \in DOMAIN Taken : Taken[k] \in Nat
    BY <1>5 DEF PreviewInv, LinesOrdered
  <2>2. Within(Taken, 0, index + 1)
    BY <2>1, <1>1 DEF Within
  <2> QED BY <2>1, <2>2, <1>1, <1>5 DEF LinesOrdered
<1>8. LinesCovered'
  <2> SUFFICES ASSUME NEW line \in 1..index PROVE Occurs(Taken, line) \/ LeftOut(line)'
    BY <1>1, <1>5 DEF LinesCovered, Occurs
  <2>1. line = index \/ line \in 1..(index - 1)
    BY <1>1
  <2>2. CASE line = index
    BY <2>2, <1>1, <1>3 DEF LeftOut
  <2>3. CASE line \in 1..(index - 1)
    BY <2>3, <1>3 DEF PreviewInv, LinesCovered
  <2> QED BY <2>1, <2>2, <2>3
<1> QED BY <1>6, <1>7, <1>8 DEF PreviewInv

\* Every iteration of the loop keeps the invariant.
LEMMA PreviewStep == PreviewInv /\ [PreviewNext]_previewVars => PreviewInv'
<1> SUFFICES ASSUME PreviewInv, [PreviewNext]_previewVars PROVE PreviewInv'
  OBVIOUS
<1>1. index \in Nat /\ Len(lines) \in Nat /\ index >= 1
  BY DEF PreviewInv, PreviewType
<1>2. CASE OpenFence
  BY <1>2, PassStep DEF OpenFence, Starts, Looking
<1>3. CASE CodeLine
  BY <1>3, CodeLineStep
<1>4. CASE CloseFence
  BY <1>4, CloseFenceStep
<1>5. CASE Blank
  <2>1. inCode' \in BOOLEAN
    BY <1>5 DEF Blank, Looking, PreviewInv, PreviewType
  <2> QED BY <2>1, <1>5, PassStep DEF Blank, Looking
<1>6. CASE HeadingOrRule
  <2>1. PICK kind \in BlockKinds : Starts(kind) /\ PushRun(kind, index + 1)
    BY <1>6 DEF HeadingOrRule, BlockKinds
  <2>2. ~inCode /\ index + 1 \in (index + 1)..(Len(lines) + 1)
    BY <1>1, <2>1 DEF Starts, Looking, Done
  <2> QED BY <2>1, <2>2, RunStep
<1>7. CASE QuoteOrList
  <2>1. PICK kind \in BlockKinds : Starts(kind) /\ PushRun(kind, RunEnd(index, ListKinds(kind)))
    BY <1>7 DEF QuoteOrList, BlockKinds
  <2>2. ~inCode /\ ~Done /\ lines[index].kind \in ListKinds(kind)
    BY <2>1 DEF Starts, Looking, ListKinds
  <2>3. RunEnd(index, ListKinds(kind)) \in (index + 1)..(Len(lines) + 1)
    BY <2>2, RunEndLater
  <2> QED BY <2>1, <2>2, <2>3, RunStep
<1>8. CASE Table
  BY <1>8, TableStep
<1>9. CASE Paragraph
  <2>1. ~inCode /\ ~Done
    BY <1>9 DEF Paragraph, Unmatched, Looking
  <2>2. ParagraphEnd \in index..(Len(lines) + 1)
    BY <2>1, RunEndLater DEF ParagraphEnd
  <2>3. CASE ParagraphEnd > index
    <3>1. ParagraphEnd \in (index + 1)..(Len(lines) + 1)
      BY <1>1, <2>2, <2>3
    <3>2. PICK kind \in BlockKinds : kind = "paragraph"
      BY DEF BlockKinds
    <3>3. PushRun(kind, ParagraphEnd)
      BY <1>9, <2>3, <3>2 DEF Paragraph
    <3> QED BY <2>1, <3>1, <3>3, RunStep
  <2>4. CASE ~(ParagraphEnd > index)
    <3>1. UNCHANGED previewVars
      BY <1>9, <2>4 DEF Paragraph
    <3> QED BY <3>1 DEF previewVars, PreviewInv, PreviewType, LinesOrdered, LinesCovered, Taken, Shown, Blocks,
                        Increasing, Within, Occurs, LeftOut
  <2> QED BY <2>3, <2>4
<1>10. CASE UNCHANGED previewVars
  BY <1>10 DEF previewVars, PreviewInv, PreviewType, LinesOrdered, LinesCovered, Taken, Shown, Blocks,
               Increasing, Within, Occurs, LeftOut
<1> QED BY <1>2, <1>3, <1>4, <1>5, <1>6, <1>7, <1>8, <1>9, <1>10 DEF PreviewNext

\* The preview shows the lines in their order, none twice, and leaves out only
\* blank lines, fences, the delimiters of tables and the lines of a code block
\* that no fence closes, whatever the document (renderMarkdownToHtml).
THEOREM EveryLineShownOnce == PreviewSpec => []LinesShownOnce
<1>1. ASSUME PreviewInv PROVE LinesShownOnce
  <2>1. Shown \in Seq(Nat) /\ codeLines \in Seq(Nat) /\ (~inCode => codeLines = <<>>)
    BY <1>1 DEF PreviewInv, PreviewType, Shown, Blocks
  <2>2. \A line : Occurs(Taken, line) => Occurs(Shown, line) \/ Unclosed(line)
    <3> SUFFICES ASSUME NEW k \in DOMAIN Taken
                 PROVE  Occurs(Shown, Taken[k]) \/ Unclosed(Taken[k])
      BY DEF Occurs
    <3>1. CASE k \in DOMAIN Shown
      <4>1. Taken[k] = Shown[k]
        BY <2>1, <3>1 DEF Taken
      <4> QED BY <3>1, <4>1 DEF Occurs
    <3>2. CASE k \notin DOMAIN Shown
      <4>1. PICK q \in DOMAIN codeLines : Taken[k] = codeLines[q]
        <5>1. k - Len(Shown) \in DOMAIN codeLines /\ Taken[k] = codeLines[k - Len(Shown)]
          BY <2>1, <3>2 DEF Taken
        <5> QED BY <5>1
      <4>2. inCode
        BY <2>1, <4>1
      <4> QED BY <4>1, <4>2 DEF Unclosed
    <3> QED BY <3>1, <3>2
  <2>3. /\ Increasing(Taken)
        /\ \A line \in 1..(index - 1) : Occurs(Taken, line) \/ LeftOut(line)
    BY <1>1 DEF PreviewInv, LinesOrdered, LinesCovered
  <2> QED BY <2>2, <2>3 DEF LinesShownOnce, Increasing, Occurs, LeftOut
<1> QED BY <1>1, PreviewStarts, PreviewStep, PTL DEF PreviewSpec

-----------------------------------------------------------------------------
(* The chat with the agent.                                                *)

ProxyType ==
  /\ sent \in [Pages -> Nat]
  /\ pc \in [Posts -> {"none", "arrived", "calling", "failed", "replied"}]
  /\ call \in [Posts -> {"none", "sent", "received", "answered"}]
  /\ asked \in [Posts -> Nat]

\* The agent has not heard of a request that no page has sent, of one that has
\* just arrived, or of one on its way to it.
NotAskedYet ==
  \A r \in Posts :
    /\ r[2] > sent[r[1]] => pc[r] = "none" /\ call[r] = "none" /\ asked[r] = 0
    /\ pc[r] = "arrived" => call[r] = "none" /\ asked[r] = 0
    /\ call[r] = "sent" => asked[r] = 0

ProxyInv == ProxyType /\ NotAskedYet /\ AskedOnce

\* A request is a page and the number of one of its messages.
LEMMA RequestType ==
  ASSUME NEW r \in Posts
  PROVE  r[1] \in Pages /\ r[2] \in Nat /\ r = <<r[1], r[2]>>
<1>1. PICK p \in Pages : r \in {p} \X (1..MaxMessages[p])
  BY DEF Posts
<1> QED
  BY <1>1, ProxyAssumption

\* The invariant holds before any message is sent.
LEMMA ProxyInit == ChatInit => ProxyInv
BY RequestType DEF ChatInit, ProxyInv, ProxyType, NotAskedYet, AskedOnce

\* A message that is sent belongs to a request that was not sent before.
LEMMA MessageStep ==
  ASSUME ProxyInv, NEW p \in Pages, NEW k, SendMessage(p, k)
  PROVE  ProxyInv'
<1> USE DEF ProxyInv, ProxyType
<1> DEFINE new == <<p, sent[p] + 1>>
<1>1. /\ sent' = [sent EXCEPT ![p] = @ + 1]
      /\ pc' = [pc EXCEPT ![new] = "arrived"]
      /\ call' = call /\ asked' = asked
  BY DEF SendMessage, agent
<1>2. ProxyType'
  <2>1. sent' \in [Pages -> Nat]
    BY <1>1
  <2>2. pc' \in [Posts -> {"none", "arrived", "calling", "failed", "replied"}]
    BY <1>1
  <2> QED
    BY <1>1, <2>1, <2>2
<1>3. NotAskedYet'
  <2> SUFFICES ASSUME NEW r \in Posts
               PROVE  /\ r[2] > sent'[r[1]] => pc'[r] = "none" /\ call[r] = "none" /\ asked[r] = 0
                      /\ pc'[r] = "arrived" => call[r] = "none" /\ asked[r] = 0
                      /\ call[r] = "sent" => asked[r] = 0
    BY <1>1 DEF NotAskedYet
  <2>1. /\ r[1] \in Pages /\ r[2] \in Nat /\ sent'[r[1]] >= sent[r[1]]
        /\ sent'[r[1]] \in Nat /\ sent[r[1]] \in Nat
    BY <1>1, RequestType
  <2>2. CASE r = new
    <3>1. r[2] > sent[r[1]] /\ ~(r[2] > sent'[r[1]])
      BY <1>1, <2>1, <2>2
    <3>2. call[r] = "none" /\ asked[r] = 0
      BY <3>1 DEF NotAskedYet
    <3> QED
      BY <3>1, <3>2
  <2>3. CASE r # new
    <3>1. pc'[r] = pc[r]
      BY <1>1, <2>3
    <3> QED
      BY <2>1, <3>1 DEF NotAskedYet
  <2> QED
    BY <2>2, <2>3
<1> QED
  BY <1>1, <1>2, <1>3 DEF AskedOnce

\* Everything else leaves the numbers of messages alone, and asks the agent
\* only when the message arrives.
LEMMA RequestStep ==
  ASSUME ProxyInv, NEW r \in Posts,
         Route(r) \/ AgentReceives(r) \/ AgentReplies(r)
  PROVE  ProxyInv'
<1> USE DEF ProxyInv, ProxyType, AskedOnce
<1>1. CASE CallAgent(r)
  <2>1. /\ pc[r] = "arrived" /\ UNCHANGED <<sent, asked>>
        /\ \/ pc' = [pc EXCEPT ![r] = "calling"] /\ call' = [call EXCEPT ![r] = "sent"]
           \/ pc' = [pc EXCEPT ![r] = "failed"] /\ call' = call
    BY <1>1 DEF CallAgent, Ask, agent, chat
  <2> QED
    BY <2>1 DEF NotAskedYet
<1>2. CASE Fallback(r)
  BY <1>2 DEF Fallback, Reply, agent, chat, NotAskedYet
<1>3. CASE AgentAnswer(r)
  BY <1>3 DEF AgentAnswer, Reply, agent, chat, NotAskedYet
<1>4. CASE AgentFails(r)
  BY <1>4 DEF AgentFails, agent, chat, NotAskedYet
<1>5. CASE AgentReceives(r)
  BY <1>5, RequestType DEF AgentReceives, chat, NotAskedYet
<1>6. CASE AgentReplies(r)
  BY <1>6 DEF AgentReplies, agent, chat, NotAskedYet
<1> QED
  BY <1>1, <1>2, <1>3, <1>4, <1>5, <1>6 DEF Route

\* Every step of the pages, the route and the agent keeps the invariant.
LEMMA ProxyStep == ProxyInv /\ [ChatNext]_chatVars => ProxyInv'
<1> SUFFICES ASSUME ProxyInv, [ChatNext]_chatVars PROVE ProxyInv'
  OBVIOUS
<1>1. CASE \E p \in Pages : ReceiveReply(p) \/ LoseReply(p)
  BY <1>1 DEF ReceiveReply, LoseReply, Show, agent, ProxyInv, ProxyType, NotAskedYet, AskedOnce
<1>2. CASE UNCHANGED chatVars
  BY <1>2 DEF chatVars, agent, chat, ProxyInv, ProxyType, NotAskedYet, AskedOnce
<1> QED
  BY <1>1, <1>2, MessageStep, RequestStep DEF ChatNext

\* No message is handed to the agent twice, however failures, aborted calls that
\* still reach it, and the fallback meet: a message is never sent again.
THEOREM NeverAskedTwice == ChatSpec => []AskedOnce
<1>1. ChatSpec => []ProxyInv
  BY ProxyInit, ProxyStep, PTL DEF ChatSpec
<1> QED
  BY <1>1, PTL DEF ProxyInv
=============================================================================
