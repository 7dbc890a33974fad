---------------------------- MODULE MCNoteStore ----------------------------
EXTENDS NoteStore
=============================================================================
