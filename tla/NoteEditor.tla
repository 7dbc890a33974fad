----------------------------- MODULE NoteEditor -----------------------------
(***************************************************************************)
(* Autosave and local drafts of the note editor: NoteEditorDialog          *)
(* (apps/web/src/components/editor/note-editor.tsx), open on a note that   *)
(* exists, in one browser, while other clients write the same note.        *)
(*                                                                         *)
(* A render and the effects that follow it are one action. The effect that *)
(* loads the note only queues the loaded text: the dialog has it from the  *)
(* next render on, an action of its own, and anything may come in between. *)
(* The parent component, the network and the backend are environment: they *)
(* answer a save late, in any order or never.                              *)
(***************************************************************************)
EXTENDS Naturals

CONSTANTS Bodies,      \* the words a note may consist of
          Untitled,    \* one of them, which stands for a note without a title
          Padded,      \* the ones that may be followed by white space
          NoText,
          Slots,       \* the saves that may be on their way at once; a bound
          NoSave,
          OtherBodies  \* what other clients may write into the note

ASSUME EditorAssumption ==
  /\ Untitled \in Bodies /\ Padded \subseteq Bodies
  /\ NoText \notin [body : Bodies, padded : BOOLEAN]
  /\ OtherBodies \subseteq Bodies

VARIABLES cloud,   \* the note in the backend
          prop,    \* the note the parent passes to the dialog
          open,    \* isOpen
          text,    \* title, content and tags as last rendered
          queued,  \* the text an effect has set for the next render
          draft,   \* the note's entry in localStorage
          status,  \* syncStatus
          armed,   \* whether the autosave timer runs
          saves,   \* calls of onSave that have not ended
          typed,   \* history: what the user last typed
          stored,  \* history: what the backend has ever held
          broken   \* history: whether a load was cut off from its render since

dialogVars == <<prop, open, text, queued, draft, status, armed>>
histories == <<typed, stored, broken>>
editorVars == <<cloud, dialogVars, saves, histories>>

\* A text that is padded has white space at its end, which trim() removes.
Texts == {t \in [body : Bodies, padded : BOOLEAN] : t.padded => t.body \in Padded}
Trim(t) == [t EXCEPT !.padded = FALSE]
Titled(t) == t.body # Untitled
Empty == [body |-> Untitled, padded |-> FALSE]

Saves == [text : Texts, applied : BOOLEAN, tracked : BOOLEAN]

EditorInit ==
  /\ cloud \in Texts /\ Titled(cloud)
  /\ prop = cloud
  /\ open = FALSE /\ text = Empty /\ queued = NoText
  /\ draft = NoText
  /\ status = "saved" /\ armed = FALSE
  /\ saves = [s \in Slots |-> NoSave]
  /\ typed = NoText /\ stored = {cloud} /\ broken = FALSE

-----------------------------------------------------------------------------
(* The effects.                                                            *)

\* Faulty variants, for mutation testing: the draft is written only when the
\* timer fires; it is ignored when the note is loaded.
AutosaveEffectUndrafted(t, note) ==
  /\ text' = t /\ prop' = note
  /\ IF t # note
     THEN status' = "draft" /\ armed' = TRUE /\ UNCHANGED draft
     ELSE status' = "saved" /\ armed' = FALSE /\ draft' = NoText

LoadedNote(note) == note

\* What the effect that loads the note queues: a draft of it, if there is one.
Loaded(note) == IF draft # NoText THEN draft ELSE note

\* The effect that persists the draft and arms the timer, after a render of
\* text t and the note; the timer of the render before is cleared.
AutosaveEffect(t, note) ==
  /\ text' = t /\ prop' = note
  /\ IF t # note
     THEN status' = "draft" /\ armed' = TRUE /\ draft' = t
     ELSE status' = "saved" /\ armed' = FALSE /\ draft' = NoText

\* A render with a new note: the one effect reads the draft, then the other
\* writes it, still with the text t that was rendered.
LoadEffects(t, note) ==
  /\ queued' = Loaded(note)
  /\ AutosaveEffect(t, note)

-----------------------------------------------------------------------------
(* The user and the parent component.                                      *)

\* The parent's copy of the note is fresh or as old as its last fetch. The
\* dialog still has the text it was closed with, or the empty one of a new note.
Open ==
  /\ ~open /\ open' = TRUE
  /\ \E note \in {prop, cloud}, left \in {text, Empty} : LoadEffects(left, note)
  /\ UNCHANGED <<cloud, saves, histories>>

\* The render with the loaded text.
Render ==
  /\ queued # NoText
  /\ AutosaveEffect(queued, prop)
  /\ queued' = NoText
  /\ UNCHANGED <<cloud, open, saves, histories>>

\* What is typed comes after what is queued, in the same field.
Type(t) ==
  /\ open /\ t # text
  /\ AutosaveEffect(t, prop)
  /\ queued' = NoText
  /\ typed' = t /\ broken' = FALSE
  /\ UNCHANGED <<cloud, open, saves, stored>>

\* A load whose render does not come, or comes with another load.
CutOff == broken' = (broken \/ (queued # NoText /\ typed \notin stored))

\* The parent fetched its notes again. A text that is queued is rendered with
\* the new note.
Refresh ==
  /\ open
  /\ LoadEffects(IF queued = NoText THEN text ELSE queued, cloud)
  /\ CutOff
  /\ UNCHANGED <<cloud, open, saves, typed, stored>>

\* Closing clears the timer; the effects of a closed dialog do nothing.
Close ==
  /\ open
  /\ open' = FALSE /\ armed' = FALSE
  /\ queued' = NoText /\ CutOff
  /\ UNCHANGED <<cloud, prop, text, draft, status, saves, typed, stored>>

\* The tab crashes or is reloaded: only localStorage and what the network
\* already has remain.
Reload ==
  /\ open' = FALSE /\ armed' = FALSE
  /\ text' = Empty /\ status' = "saved" /\ prop' = cloud
  /\ queued' = NoText /\ CutOff
  /\ saves' = [s \in Slots |-> IF saves[s] = NoSave THEN NoSave
                               ELSE [saves[s] EXCEPT !.tracked = FALSE]]
  /\ UNCHANGED <<cloud, draft, typed, stored>>

-----------------------------------------------------------------------------
(* Saving.                                                                 *)

\* handleSave and the timer pass the trimmed text to onSave.
CallOnSave(s, tracked) ==
  /\ Titled(text)
  /\ saves[s] = NoSave
  /\ saves' = [saves EXCEPT ![s] =
                 [text |-> Trim(text), applied |-> FALSE, tracked |-> tracked]]

\* Faulty variant: the timer forgets to save.
AutosaveForgotten(s) ==
  /\ open /\ armed
  /\ armed' = FALSE /\ status' = "saving"
  /\ UNCHANGED <<cloud, prop, open, text, queued, draft, saves, histories>>

\* The timer fires.
Autosave(s) ==
  /\ open /\ armed
  /\ CallOnSave(s, TRUE)
  /\ armed' = FALSE /\ status' = "saving"
  /\ UNCHANGED <<cloud, prop, open, text, queued, draft, histories>>

\* Without a title nothing is saved.
AutosaveUntitled ==
  /\ open /\ armed /\ ~Titled(text)
  /\ armed' = FALSE
  /\ UNCHANGED <<cloud, prop, open, text, queued, draft, status, saves, histories>>

\* The save button; the timer still runs and the result is not awaited. The
\* bound leaves a slot to the timer.
HandleSave(s) ==
  /\ open
  /\ \E r \in Slots \ {s} : saves[r] = NoSave
  /\ CallOnSave(s, FALSE)
  /\ UNCHANGED <<cloud, dialogVars, histories>>

\* The backend applies a save.
Apply(s) ==
  /\ saves[s] # NoSave /\ ~saves[s].applied
  /\ cloud' = saves[s].text
  /\ stored' = stored \cup {cloud'}
  /\ saves' = [saves EXCEPT ![s].applied = TRUE]
  /\ UNCHANGED <<dialogVars, typed, broken>>

\* The promise of onSave is settled; it is rejected although the save was
\* applied if only the reply is lost.
Settle(s, resolved) ==
  /\ saves[s] # NoSave
  /\ resolved => saves[s].applied
  /\ status' = IF ~saves[s].tracked THEN status
               ELSE IF resolved THEN "saved" ELSE "sync_error"
  /\ saves' = [saves EXCEPT ![s] = NoSave]
  /\ UNCHANGED <<cloud, prop, open, text, queued, draft, armed, histories>>

OtherWrites(t) ==
  /\ t.body \in OtherBodies /\ Titled(t)
  /\ cloud' = t /\ stored' = stored \cup {t}
  /\ UNCHANGED <<dialogVars, saves, typed, broken>>

-----------------------------------------------------------------------------
SaveEnds(s) == Apply(s) \/ \E resolved \in BOOLEAN : Settle(s, resolved)
TimerFires == AutosaveUntitled \/ \E s \in Slots : Autosave(s)

EditorNext ==
  \/ Open \/ Render \/ Refresh \/ Close \/ Reload
  \/ \E t \in Texts : Type(t) \/ OtherWrites(t)
  \/ AutosaveUntitled
  \/ \E s \in Slots :
       \/ Autosave(s) \/ HandleSave(s) \/ Apply(s)
       \/ \E resolved \in BOOLEAN : Settle(s, resolved)

\* A timer that runs fires, and every save is answered.
EditorSpec ==
  /\ EditorInit /\ [][EditorNext]_editorVars
  /\ WF_editorVars(TimerFires)
  /\ \A s \in Slots : WF_editorVars(SaveEnds(s))

-----------------------------------------------------------------------------
\* Every variable has its type.
EditorType ==
  /\ cloud \in Texts /\ prop \in Texts
  /\ open \in BOOLEAN /\ armed \in BOOLEAN
  /\ text \in Texts
  /\ {queued, draft, typed} \subseteq Texts \cup {NoText}
  /\ status \in {"saved", "draft", "saving", "sync_error"}
  /\ saves \in [Slots -> Saves \cup {NoSave}]
  /\ stored \subseteq Texts /\ broken \in BOOLEAN
  /\ queued # NoText => open
  /\ armed => open

\* What the user typed is not lost, whatever closes, crashes, fails or is
\* refreshed: until the backend has held exactly it, it is the local draft, or
\* a load has taken it from there and its render writes it back. The exception
\* is a load that was cut off from its render (both effects of the dialog).
TypingIsKept ==
  typed # NoText /\ ~broken =>
    typed \in stored \/ typed = (IF queued = NoText THEN draft ELSE queued)

\* While the text of the open editor is not that of the note, the draft holds
\* exactly that text: none of it waits for the timer or for a save to be safe.
ChangesAreDrafted == open /\ text # prop => draft = text

\* Text that stays in the open editor is saved or reported as not saved.
TypingIsSaved ==
  \A t \in {t \in Texts : Titled(t)} :
    (open /\ armed /\ text = t)
      ~> ({t, Trim(t)} \cap stored # {} \/ text # t \/ ~open \/ status = "sync_error")
=============================================================================
