----------------------------- MODULE NoteStore -----------------------------
(***************************************************************************)
(* The note mutations of the Convex backend (convex/notes.ts) and clients  *)
(* that use them through HTTP: the web application, which sends no version,*)
(* and the agent's update_note tool, which may send the one it has seen    *)
(* (note-agent/agent/tools/update_note.ts).                                *)
(*                                                                         *)
(* Convex runs a mutation as one serializable transaction: one action. The *)
(* request or its reply may be lost, and a client may then send it again.  *)
(* Title, content and tags of a note are one value.                        *)
(***************************************************************************)
EXTENDS Naturals

CONSTANTS Clients, Ids, Contents,
          NoVersion,  \* an undefined contentVersion or expectedVersion
          NoNote,     \* what db.get returns for an id without a document
          NoRequest,
          MaxVersion  \* no client starts an update above this; bounds the model

ASSUME StoreAssumption ==
  /\ NoVersion \notin Nat
  /\ NoNote \notin [content : Contents, version : Nat \cup {NoVersion}]
  /\ NoNote \notin [id : Ids, note : [content : Contents, version : Nat \cup {NoVersion}]]
  /\ MaxVersion \in Nat

VARIABLES notes,    \* the documents of the table
          used,     \* history: ids given out; Convex does not give one twice
          view,     \* the note each client last got, with its id
          request,  \* the mutation each client has sent
          reply,    \* what it heard of its last one
          applied   \* history: versioned updates applied since its last get

vars == <<notes, used, view, request, reply, applied>>

Versions == (Nat \ {0}) \cup {NoVersion}
Notes == [content : Contents, version : Versions]
Views == [id : Ids, note : Notes]
Requests ==
  [kind : {"save"}, content : Contents]
    \cup [kind : {"update"}, id : Ids, content : Contents, expected : Versions]
    \cup [kind : {"delete"}, id : Ids]
Replies == {"none", "ok", "missing", "conflict", "lost"}

\* Documents written before contentVersion existed have none.
Init ==
  /\ notes \in [Ids -> {NoNote} \cup [content : Contents, version : {1, NoVersion}]]
  /\ used = {id \in Ids : notes[id] # NoNote}
  /\ view = [c \in Clients |-> NoNote]
  /\ request = [c \in Clients |-> NoRequest]
  /\ reply = [c \in Clients |-> "none"]
  /\ applied = [c \in Clients |-> 0]

-----------------------------------------------------------------------------
(* The clients.                                                            *)

\* getNote, or the note's entry in listNotes.
Get(c, id) ==
  /\ request[c] = NoRequest
  /\ notes[id] # NoNote
  /\ view' = [view EXCEPT ![c] = [id |-> id, note |-> notes[id]]]
  /\ applied' = [applied EXCEPT ![c] = 0]
  /\ UNCHANGED <<notes, used, request, reply>>

Send(c, message) ==
  /\ request[c] = NoRequest
  /\ request' = [request EXCEPT ![c] = message]
  /\ reply' = [reply EXCEPT ![c] = "none"]
  /\ UNCHANGED <<notes, used, view, applied>>

SendSave(c) ==
  \E content \in Contents : Send(c, [kind |-> "save", content |-> content])

SendUpdate(c) ==
  /\ view[c] # NoNote
  /\ \A id \in used : notes[id] # NoNote => notes[id].version \in {NoVersion} \cup 0..MaxVersion
  /\ \E content \in Contents, expected \in {NoVersion, view[c].note.version} :
       Send(c, [kind |-> "update", id |-> view[c].id, content |-> content,
                expected |-> expected])

SendDelete(c) ==
  /\ view[c] # NoNote
  /\ Send(c, [kind |-> "delete", id |-> view[c].id])

\* The request does not arrive.
Lose(c) ==
  /\ request[c] # NoRequest
  /\ request' = [request EXCEPT ![c] = NoRequest]
  /\ reply' = [reply EXCEPT ![c] = "lost"]
  /\ UNCHANGED <<notes, used, view, applied>>

-----------------------------------------------------------------------------
(* The backend.                                                            *)

\* The mutation ends; its reply may be lost.
Answer(c, outcome) ==
  /\ request' = [request EXCEPT ![c] = NoRequest]
  /\ \E heard \in {outcome, "lost"} : reply' = [reply EXCEPT ![c] = heard]
  /\ UNCHANGED view

Arrived(c, kind) == request[c] # NoRequest /\ request[c].kind = kind

SaveNote(c) ==
  /\ Arrived(c, "save")
  /\ \E id \in Ids \ used :
       /\ notes' = [notes EXCEPT ![id] = [content |-> request[c].content, version |-> 1]]
       /\ used' = used \cup {id}
  /\ Answer(c, "ok")
  /\ UNCHANGED applied

\* contentVersion ?? 0
Count(version) == IF version = NoVersion THEN 0 ELSE version

Accepts(note, expected) == expected = NoVersion \/ note.version = expected

Patch(c, version) ==
  /\ notes' = [notes EXCEPT ![request[c].id] =
                 [content |-> request[c].content, version |-> version]]
  /\ applied' = [applied EXCEPT ![c] = IF request[c].expected = NoVersion THEN @ ELSE @ + 1]
  /\ UNCHANGED used

\* Faulty variants of UpdateNote, for mutation testing: the version stays the
\* same; it is not compared; a missing note is written.
UpdateNoteSameVersion(c) ==
  /\ Arrived(c, "update")
  /\ LET note == notes[request[c].id] IN
     /\ note # NoNote /\ Accepts(note, request[c].expected)
     /\ Patch(c, Count(note.version))
     /\ Answer(c, "ok")

UpdateNoteUnchecked(c) ==
  /\ Arrived(c, "update")
  /\ LET note == notes[request[c].id] IN
     /\ note # NoNote
     /\ Patch(c, Count(note.version) + 1)
     /\ Answer(c, "ok")

UpdateNoteUpserts(c) ==
  /\ Arrived(c, "update")
  /\ LET note == notes[request[c].id] IN
     IF note = NoNote
     THEN Patch(c, 1) /\ Answer(c, "ok")
     ELSE /\ Accepts(note, request[c].expected)
          /\ Patch(c, Count(note.version) + 1)
          /\ Answer(c, "ok")

UpdateNote(c) ==
  /\ Arrived(c, "update")
  /\ LET note == notes[request[c].id] IN
     IF note = NoNote
     THEN Answer(c, "missing") /\ UNCHANGED <<notes, used, applied>>
     ELSE IF ~Accepts(note, request[c].expected)
     THEN Answer(c, "conflict") /\ UNCHANGED <<notes, used, applied>>
     ELSE Patch(c, Count(note.version) + 1) /\ Answer(c, "ok")

DeleteNote(c) ==
  /\ Arrived(c, "delete")
  /\ IF notes[request[c].id] = NoNote
     THEN Answer(c, "missing") /\ UNCHANGED notes
     ELSE /\ notes' = [notes EXCEPT ![request[c].id] = NoNote]
          /\ Answer(c, "ok")
  /\ UNCHANGED <<used, applied>>

-----------------------------------------------------------------------------
Next ==
  \E c \in Clients :
    \/ \E id \in Ids : Get(c, id)
    \/ SendSave(c) \/ SendUpdate(c) \/ SendDelete(c) \/ Lose(c)
    \/ SaveNote(c) \/ UpdateNote(c) \/ DeleteNote(c)

Spec == Init /\ [][Next]_vars

-----------------------------------------------------------------------------
\* Every variable has its type; a version counts from 1.
TypeOK ==
  /\ notes \in [Ids -> Notes \cup {NoNote}]
  /\ used \subseteq Ids
  /\ \A id \in Ids : notes[id] # NoNote => id \in used
  /\ view \in [Clients -> Views \cup {NoNote}]
  /\ request \in [Clients -> Requests \cup {NoRequest}]
  /\ reply \in [Clients -> Replies]
  /\ applied \in [Clients -> Nat]

\* A note that still has the version a client has seen still has the content
\* it has seen: no sequence of updates, with or without a version, leads back
\* to an old version with other content (updateNote, saveNote, deleteNote).
VersionIdentifiesContent ==
  \A c \in Clients :
    view[c] # NoNote =>
      LET note == notes[view[c].id] IN
      note # NoNote /\ note.version # NoVersion /\ note.version = view[c].note.version
        => note.content = view[c].note.content

\* An update that names a version replaces only what its sender has seen,
\* whoever wrote since, and however late it arrives (updateNote).
VersionedUpdateReplacesSeen ==
  [][\A c \in Clients :
       applied'[c] > applied[c] => notes[view[c].id].content = view[c].note.content]_vars

\* An update that names a version is applied once even if its reply is lost
\* and its client sends it again (updateNote).
RetryAppliesOnce == \A c \in Clients : applied[c] <= 1

\* A deleted note does not come back, whatever updates were on their way.
DeletedStaysDeleted ==
  [][\A id \in used : notes[id] = NoNote => notes'[id] = NoNote]_vars
=============================================================================
