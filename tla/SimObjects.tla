----------------------------- MODULE SimObjects -----------------------------
(***************************************************************************)
(* The life of simulation objects (sim/): registration, groups and sets,   *)
(* references that are cleared, the event queue, and deletion, in the      *)
(* middle of which scripts run that may do all of it again.                *)
(*                                                                         *)
(* One thread runs everything (TORQUE_MULTITHREAD is not defined), so what *)
(* is under way is a stack of calls.  Scripts run between frames of the    *)
(* main loop, in the onRemove of an object, and in an event; they reach    *)
(* objects by id, that is while they are in the dictionary.  An object's   *)
(* number is its id.  Names, fields and the console are left out.          *)
(***************************************************************************)
EXTENDS Integers, Sequences, FiniteSets, SequencesExt

CONSTANTS Objects,      \* the objects: their ids
          Sets, Groups, \* those that are a SimSet, or a SimGroup
          Registered,   \* the objects registered at the start
          Refs,         \* pointers registered with their object (SimObjectPtr)
          NoObject,     \* NULL
          Targets,      \* the objects that events are posted to
          TouchDying,   \* may scripts add to, or delete from, a dying group?
          MaxNotes, MaxDepth, MaxPosts, MaxTime       \* bounds

ASSUME ObjectConstants ==
  /\ Objects \subseteq Nat \ {0} /\ IsFiniteSet(Objects) /\ NoObject \notin Objects
  /\ Sets \subseteq Objects /\ Groups \subseteq Objects /\ Sets \cap Groups = {}
  /\ Registered \subseteq Objects /\ Targets \subseteq Objects
  /\ TouchDying \in BOOLEAN
  /\ {MaxNotes, MaxDepth, MaxPosts, MaxTime} \subseteq Nat

VARIABLES
  flags,        \* mFlags: Added, Removed, Deleted
  memory,       \* "none" before new, "live", "freed" after delete
  manager,      \* the objects gIdDictionary and gNameDictionary find
  list,         \* objectList of the sets and groups
  mGroup,       \* the group an object is in
  notes,        \* mNotifyList of each object, newest first
  ref,          \* the object each pointer points to
  queue,        \* gEventQueue
  now, target,  \* gCurrentTime, gTargetTime
  posts,        \* events posted so far: gEventSequence
  stack         \* the calls under way, innermost last

objectVars == <<flags, memory, manager>>
memberVars == <<list, mGroup, notes, ref>>
eventVars  == <<queue, now, target, posts>>
vars == <<objectVars, memberVars, eventVars, stack>>

DeleteNote(watcher) == [type |-> "DeleteNotify", ptr |-> watcher]
ClearNote(watched)  == [type |-> "ClearNotify", ptr |-> watched]
RefNote(r)          == [type |-> "ObjectRef", ptr |-> r]
NotesTo(type, ptrs) == [type : {type}, ptr : ptrs]

Events == [dest : Targets, time : 0 .. MaxTime, seq : 1 .. MaxPosts]

\* A call: unregisterObject in its script or, for a group, at child number
\* `next'; or the script of an event.  delete: deleteObject made the call.
Calls == [at : {"onRemove", "children", "advance", "event"}, obj : Objects \cup {NoObject},
          delete : BOOLEAN, next : Nat]
Call(at, o, delete) == [at |-> at, obj |-> o, delete |-> delete, next |-> 0]

TypeOK ==
  /\ flags \in [Objects -> SUBSET {"Added", "Removed", "Deleted"}]
  /\ memory \in [Objects -> {"none", "live", "freed"}]
  /\ manager \subseteq Objects
  /\ list \in [Sets \cup Groups -> Seq(Objects)]
  /\ mGroup \in [Objects -> Groups \cup {NoObject}]
  /\ \A o \in Objects :
       notes[o] \in Seq(NotesTo("DeleteNotify", Objects) \cup NotesTo("ClearNotify", Objects)
                          \cup NotesTo("ObjectRef", Refs))
  /\ ref \in [Refs -> Objects \cup {NoObject}]
  /\ queue \in Seq(Events)
  /\ now \in 0 .. MaxTime /\ target \in 0 .. MaxTime /\ posts \in 0 .. MaxPosts
  /\ stack \in Seq(Calls)
  /\ \A s \in Sets : IsInjective(list[s])

Init ==
  /\ flags = [o \in Objects |-> IF o \in Registered THEN {"Added"} ELSE {}]
  /\ memory = [o \in Objects |-> IF o \in Registered THEN "live" ELSE "none"]
  /\ manager = Registered
  /\ list = [s \in Sets \cup Groups |-> <<>>]
  /\ mGroup = [o \in Objects |-> NoObject]
  /\ notes = [o \in Objects |-> <<>>]
  /\ ref = [r \in Refs |-> NoObject]
  /\ queue = <<>> /\ now = 0 /\ target = 0 /\ posts = 0
  /\ stack = <<>>

-----------------------------------------------------------------------------
(* Notes: watcher->deleteNotify(watched) leaves a DeleteNotify with the    *)
(* watched object and a ClearNotify with the watcher.                      *)

AddNote(all, o, note)    == [all EXCEPT ![o] = <<note>> \o @]
RemoveNote(all, o, note) == [all EXCEPT ![o] = RemoveFirst(@, note)]

DeleteNotify(all, watcher, watched) ==
  AddNote(AddNote(all, watched, DeleteNote(watcher)), watcher, ClearNote(watched))

\* (mutant) Only the watched object forgets.
ClearNotifyHalf(all, watcher, watched) ==
  RemoveNote(all, watched, DeleteNote(watcher))

\* watcher->clearNotify(watched)
ClearNotify(all, watcher, watched) ==
  RemoveNote(RemoveNote(all, watched, DeleteNote(watcher)), watcher, ClearNote(watched))

\* SimSet::onRemove: the members, from the last, do not notify the set any more.
SetOnRemove(all, s) ==
  LET members == list[s]
      clear[n \in 0 .. Len(members)] ==
        IF n = 0 THEN all ELSE ClearNotify(clear[n - 1], s, members[Len(members) + 1 - n])
  IN  clear[Len(members)]

\* The first note of a list that says what the object watches.
FirstClear(own) == SelectInSeq(own, LAMBDA note : note.type = "ClearNotify")

\* clearAllNotifications: what o watches no longer notifies it.
ClearFirst(all, o) ==
  LET at   == FirstClear(all[o])
      note == all[o][at]
  IN  IF at = 0 THEN all
      ELSE RemoveNote([all EXCEPT ![o] = RemoveAt(@, at)], note.ptr, DeleteNote(o))

ClearAllNotifications(all, o) ==
  LET clear[n \in 0 .. Len(all[o])] == IF n = 0 THEN all ELSE ClearFirst(clear[n - 1], o)
  IN  clear[Len(all[o])]

\* processDeleteNotifies takes the newest note: a set removes the object
\* (onDeleteNotify), a pointer becomes NULL.
ProcessNote(acc, o) ==
  LET note == Head(acc.notes[o])
      rest == [acc.notes EXCEPT ![o] = Tail(@)]
  IN  IF note.type = "ObjectRef"
        THEN [acc EXCEPT !.notes = rest, !.ref[note.ptr] = NoObject]
        ELSE [acc EXCEPT !.notes = ClearNotify(RemoveNote(rest, note.ptr, ClearNote(o)), note.ptr, o),
                         !.list[note.ptr] = RemoveFirst(@, o)]

ProcessDeleteNotifies(before, o) ==
  LET process[n \in 0 .. Len(before.notes[o])] ==
        IF n = 0 THEN before
        ELSE IF process[n - 1].notes[o] = <<>> THEN process[n - 1]
        ELSE ProcessNote(process[n - 1], o)
  IN  process[Len(before.notes[o])]

-----------------------------------------------------------------------------
(* What scripts do.                                                        *)

Top == stack[Len(stack)]
ScriptRuns == stack # <<>> => Top.at \in {"onRemove", "event"}

Under(o, at) == \E i \in DOMAIN stack : stack[i].obj = o /\ stack[i].at = at

\* A group whose children are being unregistered.
Dying(g) == g # NoObject /\ Under(g, "children")
MayTouch(g) == TouchDying \/ ~Dying(g)

\* new and registerObject.
RegisterObject(o) ==
  /\ ScriptRuns
  /\ memory[o] = "none"
  /\ memory' = [memory EXCEPT ![o] = "live"]
  /\ flags' = [flags EXCEPT ![o] = {"Added"}]
  /\ manager' = manager \cup {o}
  /\ UNCHANGED <<memberVars, eventVars, stack>>

\* SimSet::addObject: a note each time, a place in the list once.
AddToSet(s, o) ==
  /\ ScriptRuns
  /\ {s, o} \subseteq manager
  /\ Len(notes[s]) < MaxNotes /\ Len(notes[o]) < MaxNotes
  /\ list' = [list EXCEPT ![s] = IF Contains(@, o) THEN @ ELSE Append(@, o)]
  /\ notes' = DeleteNotify(notes, s, o)
  /\ UNCHANGED <<objectVars, mGroup, ref, eventVars, stack>>

RemoveFromSet(s, o) ==
  /\ ScriptRuns
  /\ {s, o} \subseteq manager /\ Contains(list[s], o)
  /\ list' = [list EXCEPT ![s] = RemoveFirst(@, o)]
  /\ notes' = ClearNotify(notes, s, o)
  /\ UNCHANGED <<objectVars, mGroup, ref, eventVars, stack>>

\* The group's list without the object: SimGroup::removeObject.
Without(g, o) == IF g = NoObject THEN list ELSE [list EXCEPT ![g] = RemoveFirst(@, o)]

\* SimGroup::addObject.  (Nothing keeps a group out of its own children;
\* here groups are only added to groups with a smaller id.)
AddToGroup(g, o) ==
  /\ ScriptRuns
  /\ {g, o} \subseteq manager /\ o # g /\ mGroup[o] # g
  /\ o \in Groups => g < o
  /\ MayTouch(g) /\ MayTouch(mGroup[o])
  /\ list' = [Without(mGroup[o], o) EXCEPT ![g] = Append(@, o)]
  /\ mGroup' = [mGroup EXCEPT ![o] = g]
  /\ UNCHANGED <<objectVars, notes, ref, eventVars, stack>>

RemoveFromGroup(g, o) ==
  /\ ScriptRuns
  /\ {g, o} \subseteq manager /\ mGroup[o] = g /\ MayTouch(g)
  /\ list' = Without(g, o)
  /\ mGroup' = [mGroup EXCEPT ![o] = NoObject]
  /\ UNCHANGED <<objectVars, notes, ref, eventVars, stack>>

\* SimObjectPtr::operator=
SetRef(r, o) ==
  /\ ScriptRuns
  /\ o \in manager /\ ref[r] # o /\ Len(notes[o]) < MaxNotes
  /\ ref' = [ref EXCEPT ![r] = o]
  /\ notes' = AddNote(IF ref[r] = NoObject THEN notes ELSE RemoveNote(notes, ref[r], RefNote(r)),
                      o, RefNote(r))
  /\ UNCHANGED <<objectVars, list, mGroup, eventVars, stack>>

\* deleteObject, up to the script of unregisterObject.  Its assertions are the
\* caller's duty; the one on the callback guard ends the program.
DeleteObject(o) ==
  /\ ScriptRuns
  /\ o \in manager /\ flags[o] = {"Added"} /\ ~Under(o, "onRemove")
  /\ MayTouch(mGroup[o])
  /\ Len(stack) < MaxDepth
  /\ flags' = [flags EXCEPT ![o] = @ \cup {"Deleted"}]
  /\ stack' = Append(stack, Call("onRemove", o, TRUE))
  /\ UNCHANGED <<memory, manager, memberVars, eventVars>>

-----------------------------------------------------------------------------
(* The event queue.                                                        *)

\* (mutant) Before the events of the same time.
PlaceBeforeEqual(time) == Cardinality({i \in DOMAIN queue : queue[i].time < time})

\* Behind the events of the same time.
PlaceOf(time) == Cardinality({i \in DOMAIN queue : queue[i].time =< time})

PostEvent(o, time) ==
  /\ ScriptRuns
  /\ o \in Targets \cap manager /\ posts < MaxPosts
  /\ posts' = posts + 1
  /\ queue' = InsertAt(queue, PlaceOf(time) + 1, [dest |-> o, time |-> time, seq |-> posts'])
  /\ UNCHANGED <<objectVars, memberVars, now, target, stack>>

CancelEvent(seq) ==
  /\ ScriptRuns
  /\ \E i \in DOMAIN queue : queue[i].seq = seq /\ queue' = RemoveAt(queue, i)
  /\ UNCHANGED <<objectVars, memberVars, now, target, posts, stack>>

\* (mutant) They stay.
CancelNoPendingEvents(o) == UNCHANGED queue

CancelPendingEvents(o) ==
  LET kept[n \in 0 .. Len(queue)] ==
        IF n = 0 THEN <<>>
        ELSE IF queue[n].dest = o THEN kept[n - 1] ELSE Append(kept[n - 1], queue[n])
  IN  queue' = kept[Len(queue)]

\* advanceToTime starts.
AdvanceToTime(time) ==
  /\ stack = <<>>
  /\ target' = time
  /\ stack' = <<Call("advance", NoObject, FALSE)>>
  /\ UNCHANGED <<objectVars, memberVars, queue, now, posts>>

Due == queue # <<>> /\ Head(queue).time =< target

\* The first event is taken off the queue, and then its script runs.
PopEvent ==
  LET event == Head(queue)
  IN  /\ stack # <<>> /\ Top.at = "advance" /\ Due
      /\ queue' = Tail(queue)
      /\ now' = event.time
      /\ stack' = IF "Deleted" \in flags[event.dest] THEN stack
                  ELSE Append(stack, Call("event", event.dest, FALSE))
      /\ UNCHANGED <<objectVars, memberVars, target, posts>>

EndEvent ==
  /\ stack # <<>> /\ Top.at = "event"
  /\ stack' = Front(stack)
  /\ UNCHANGED <<objectVars, memberVars, eventVars>>

EndAdvance ==
  /\ stack # <<>> /\ Top.at = "advance" /\ ~Due
  /\ now' = target
  /\ stack' = Front(stack)
  /\ UNCHANGED <<objectVars, memberVars, queue, target, posts>>

-----------------------------------------------------------------------------
(* unregisterObject, after its script.                                     *)

\* What ~SimGroup deletes with a group: the objects in its list.
Owned(o) ==
  LET within[n \in 0 .. Cardinality(Groups)] ==
        IF n = 0 THEN {o}
        ELSE within[n - 1] \cup UNION {ToSet(list[g]) : g \in within[n - 1] \cap Groups}
  IN  within[Cardinality(Groups)]

\* From onRemove to the deletion: a set forgets its members, the object what it
\* watches; it leaves its group; sets and pointers are notified; dictionaries
\* and event queue forget it.  A group that unregisters its children goes on.
Unregister(o, below, delete) ==
  LET cleared == ClearAllNotifications(IF o \in Sets THEN SetOnRemove(notes, o) ELSE notes, o)
      notified == ProcessDeleteNotifies([list |-> Without(mGroup[o], o), ref |-> ref,
                                         notes |-> cleared], o)
  IN  /\ flags' = [flags EXCEPT ![o] = (@ \ {"Added"}) \cup {"Removed"}]
      /\ list' = notified.list /\ ref' = notified.ref /\ notes' = notified.notes
      /\ manager' = manager \ {o}
      /\ CancelPendingEvents(o)
      /\ memory' = IF delete THEN [x \in Objects |-> IF x \in Owned(o) THEN "freed" ELSE memory[x]]
                             ELSE memory
      /\ LET child == below # <<>> /\ below[Len(below)].at = "children"
         IN  /\ mGroup' = [mGroup EXCEPT ![o] = IF child THEN below[Len(below)].obj ELSE NoObject]
             /\ stack' = IF child THEN [below EXCEPT ![Len(below)].next = @ - 1] ELSE below
      /\ UNCHANGED <<now, target, posts>>

\* The script of an object that is not a group returns.
EndOnRemove ==
  /\ stack # <<>> /\ Top.at = "onRemove" /\ Top.obj \notin Groups
  /\ Unregister(Top.obj, Front(stack), Top.delete)

\* SimObjectList::sortId
SortId(objects) ==
  {sorted \in {[i \in DOMAIN objects |-> objects[place[i]]] :
                 place \in Bijection(DOMAIN objects, DOMAIN objects)} :
     \A i, j \in DOMAIN sorted : i < j => sorted[i] =< sorted[j]}

\* (mutant) The first child is left out.
EndGroupOnRemoveShort ==
  LET g == Top.obj
  IN  /\ stack # <<>> /\ Top.at = "onRemove" /\ g \in Groups
      /\ flags' = [flags EXCEPT ![g] = @ \cup {"Removed"}]
      /\ \E sorted \in SortId(list[g]) : list' = [list EXCEPT ![g] = sorted]
      /\ stack' = [stack EXCEPT ![Len(stack)] =
                     [@ EXCEPT !.at = "children", !.next = Len(list[g]) - 1]]
      /\ UNCHANGED <<memory, manager, mGroup, notes, ref, eventVars>>

\* That of a group: SimGroup::onRemove sorts its children and starts at the
\* last one.
EndGroupOnRemove ==
  LET g == Top.obj
  IN  /\ stack # <<>> /\ Top.at = "onRemove" /\ g \in Groups
      /\ flags' = [flags EXCEPT ![g] = @ \cup {"Removed"}]
      /\ \E sorted \in SortId(list[g]) : list' = [list EXCEPT ![g] = sorted]
      /\ stack' = [stack EXCEPT ![Len(stack)] =
                     [@ EXCEPT !.at = "children", !.next = Len(list[g])]]
      /\ UNCHANGED <<memory, manager, mGroup, notes, ref, eventVars>>

\* The next child is unregistered, out of the group meanwhile.  (An assertion
\* ends the program if a script of the child is running.)
UnregisterChild ==
  /\ stack # <<>> /\ Top.at = "children" /\ Top.next \in DOMAIN list[Top.obj]
  /\ LET child == list[Top.obj][Top.next]
     IN  IF "Added" \in flags[child]
           THEN /\ ~Under(child, "onRemove")
                /\ mGroup' = [mGroup EXCEPT ![child] = NoObject]
                /\ stack' = Append(stack, Call("onRemove", child, FALSE))
           ELSE /\ stack' = [stack EXCEPT ![Len(stack)].next = @ - 1]
                /\ UNCHANGED mGroup
  /\ UNCHANGED <<objectVars, list, notes, ref, eventVars>>

EndGroup ==
  /\ stack # <<>> /\ Top.at = "children" /\ Top.next = 0
  /\ Unregister(Top.obj, Front(stack), Top.delete)

-----------------------------------------------------------------------------
Next ==
  \/ \E o \in Objects : RegisterObject(o)
  \/ \E s \in Sets, o \in Objects : AddToSet(s, o) \/ RemoveFromSet(s, o)
  \/ \E g \in Groups, o \in Objects : AddToGroup(g, o) \/ RemoveFromGroup(g, o)
  \/ \E r \in Refs, o \in Objects : SetRef(r, o)
  \/ \E o \in Objects : DeleteObject(o)
  \/ \E o \in Objects, time \in now .. MaxTime : PostEvent(o, time)
  \/ \E seq \in 1 .. MaxPosts : CancelEvent(seq)
  \/ \E time \in now .. MaxTime : AdvanceToTime(time)
  \/ PopEvent
  \/ EndEvent
  \/ EndAdvance
  \/ EndOnRemove
  \/ EndGroupOnRemove
  \/ UnregisterChild
  \/ EndGroup

Spec == Init /\ [][Next]_vars

-----------------------------------------------------------------------------
(* Properties.                                                             *)

Live(o) == memory[o] = "live"

\* "There can be no invalid references to objects" (sets), and neither the
\* dictionaries, the event queue, pointers nor notes keep one of an object that
\* is gone; a group owns what it will delete.
NothingDangles ==
  /\ \A o \in manager : Live(o)
  /\ \A s \in Sets : s \in manager => \A o \in ToSet(list[s]) : Live(o)
  /\ \A g \in Groups : Live(g) => \A o \in ToSet(list[g]) : Live(o)
  /\ \A i \in DOMAIN queue : queue[i].dest \in manager
  /\ \A r \in Refs : ref[r] # NoObject => ref[r] \in manager
  /\ \A o \in manager : \A i \in DOMAIN notes[o] :
       notes[o][i].type # "ObjectRef" => Live(notes[o][i].ptr)

Times(o, note) == Cardinality({i \in DOMAIN notes[o] : notes[o][i] = note})

\* Each DeleteNotify has its ClearNotify, so that neither end frees a note that
\* is not there; and the members of a set, and what a pointer points to, have
\* the note that tells the set or clears the pointer.
NotesArePaired ==
  /\ \A watcher, watched \in Objects : Live(watcher) /\ Live(watched) =>
       Times(watched, DeleteNote(watcher)) = Times(watcher, ClearNote(watched))
  /\ \A s \in Sets \cap manager : \A o \in ToSet(list[s]) : Times(o, DeleteNote(s)) > 0
  /\ \A r \in Refs : ref[r] # NoObject => Times(ref[r], RefNote(r)) = 1

\* A group is unregistered by the group it is in, from within a script of one of
\* its own children: the assertion on the callback guard ends the program when
\* that child is reached again.
Twice(o) ==
  \E i, j \in DOMAIN stack : /\ i # j /\ stack[i].obj = o /\ stack[j].obj = o
                             /\ {stack[i].at, stack[j].at} \subseteq {"onRemove", "children"}

\* A registered object is in the list of its group and no other, once, and not
\* in two groups; while its group unregisters it, it still is in that list.
OneGroup ==
  \A o \in manager, g \in Groups : Live(g) =>
    /\ mGroup[o] = g => Contains(list[g], o)
    /\ Contains(list[g], o) => mGroup[o] = g \/ Dying(g) \/ Twice(o)
    /\ \A i, j \in DOMAIN list[g] : i # j /\ list[g][i] = o /\ list[g][j] = o => Twice(o)

Before(e, f) == e.time < f.time \/ (e.time = f.time /\ e.seq < f.seq)

\* Events run at their time, those of the same time in the order of posting.
EventsInOrder ==
  /\ \A i, j \in DOMAIN queue : i < j => Before(queue[i], queue[j])
  /\ \A i \in DOMAIN queue : queue[i].time >= now

\* When a group is deleted, the objects it deletes directly have been
\* unregistered: "they should already have been removed from the manager".
ChildrenAreRemoved ==
  stack # <<>> /\ Top.at = "children" /\ Top.next = 0 =>
    \A o \in ToSet(list[Top.obj]) : o \notin manager

\* Groups own what they will delete, and delete nothing that is still registered.
GroupsSound == TypeOK /\ OneGroup /\ ChildrenAreRemoved
=============================================================================
