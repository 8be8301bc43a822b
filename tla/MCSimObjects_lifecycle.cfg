SPECIFICATION Spec
CONSTANTS
  Objects = {1, 2, 3}
  Groups = {1, 2}
  Sets = {3}
  Registered = {1, 2}
  Refs = {r}
  NoObject = NoObject
  Targets = {2}
  TouchDying = FALSE
  MaxNotes = 2
  MaxDepth = 3
  MaxPosts = 2
  MaxTime = 1
INVARIANTS
  GroupsSound
  NothingDangles
  NotesArePaired
  EventsInOrder
\* The program may do nothing more, and an assertion may have ended it.
CHECK_DEADLOCK FALSE
