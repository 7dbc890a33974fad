SPECIFICATION EditorSpec
CONSTANTS
  Bodies = {a, b, untitled}
  Untitled = untitled
  Padded = {a}
  NoText = NoText
  Slots = {s1, s2}
  NoSave = NoSave
  OtherBodies = {b}
INVARIANTS
  TypingIsKept
  ChangesAreDrafted
PROPERTIES
  TypingIsSaved
CHECK_DEADLOCK FALSE
