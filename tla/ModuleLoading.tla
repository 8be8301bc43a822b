--------------------------- MODULE ModuleLoading ---------------------------
(***************************************************************************)
(* The module manager (module/moduleManager.cc): modules come in versions, *)
(* belong to a group and depend on others; groups, or single modules, are  *)
(* loaded with all they depend on and unloaded again, a count in each      *)
(* definition saying how often it is needed.                               *)
(*                                                                         *)
(* Loading a module executes its script, which may load and unload in turn *)
(* (the AppCore of the toybox does), so the calls under way are a stack.   *)
(* Nothing locks the database: `LockDatabase( this );' is gone at its      *)
(* semicolon.  Files, merging, copying and synchronizing are left out, as  *)
(* are destroy functions that call the manager.                            *)
(***************************************************************************)
EXTENDS Integers, Sequences, FiniteSets, SequencesExt

CONSTANTS Definitions,     \* the module definitions: records of id and version
          Groups,
          GroupOf,         \* mModuleGroup of each id
          Dependencies,    \* of each definition: ids with versions, 0 for any
          Registered,      \* the definitions registered at the start, in order
          Enforce,         \* mEnforceDependencies
          NoId,
          MaxExplicit, MaxDepth     \* bounds: explicit loads, calls under way

Ids == {d.id : d \in Definitions}
Slots == 1 .. MaxExplicit        \* explicit loads that have not been undone
Holders == Groups \cup Slots

\* A module that is not there is one that nobody registers.
Wanted(id, version) == [id |-> id, version |-> version]
Wants == [id : Ids, version : Nat]

ASSUME ModuleConstants ==
  /\ IsFiniteSet(Definitions)
  /\ \A d \in Definitions : d.version \in Nat \ {0} /\ GroupOf[d.id] \in Groups
  /\ Dependencies \in [Definitions -> Seq(Wants)]
  /\ Registered \in Seq(Definitions)
  /\ Enforce \in BOOLEAN /\ NoId \notin Ids /\ MaxExplicit \in Nat /\ Groups \cap Slots = {}

VARIABLES
  database,      \* the definitions registered
  groupModules,  \* mGroupModules: the ids of a group, in order
  groupsLoaded,  \* mGroupsLoaded
  loaded,        \* mModulesLoaded
  loadCount,     \* mLoadCount of each definition
  stack,         \* the calls under way, innermost last
  clearing,      \* clearDatabase: "no", "yes" or "done"
  explicit,      \* history: the ids loaded explicitly
  hold,          \* history: what each holder has counted and not given back
  late           \* history: a definition came while modules were loaded

databaseVars == <<database, groupModules, late>>
loadVars == <<groupsLoaded, loaded, loadCount, explicit, hold>>
vars == <<databaseVars, loadVars, stack, clearing>>

\* A call: the definitions to load, or to unload from the last to the first,
\* the one it is at, and whether the script of that one is running.
Calls == [kind : {"load", "unload"}, holder : Holders \cup {NoId}, ready : Seq(Definitions),
          next : Nat, script : BOOLEAN]

TypeOK ==
  /\ database \subseteq Definitions
  /\ groupModules \in [Groups -> Seq(Ids)]
  /\ groupsLoaded \in Seq(Groups) /\ IsInjective(groupsLoaded)
  /\ loaded \in Seq(database)
  /\ loadCount \in [Definitions -> Int]
  /\ stack \in Seq(Calls)
  /\ clearing \in {"no", "yes", "done"}
  /\ explicit \in [Slots -> Ids \cup {NoId}]
  /\ hold \in [Holders -> SUBSET Definitions]
  /\ late \in BOOLEAN

\* The ids of a group in the order they first come in.
IdsInOrder(definitions, g) ==
  LET ids[n \in 0 .. Len(definitions)] ==
        IF n = 0 THEN <<>>
        ELSE LET d == definitions[n]
             IN  IF GroupOf[d.id] = g /\ ~Contains(ids[n - 1], d.id) THEN Append(ids[n - 1], d.id)
                                                                    ELSE ids[n - 1]
  IN  ids[Len(definitions)]

Init ==
  /\ database = Range(Registered)
  /\ groupModules = [g \in Groups |-> IdsInOrder(Registered, g)]
  /\ groupsLoaded = <<>> /\ loaded = <<>>
  /\ loadCount = [d \in Definitions |-> 0]
  /\ stack = <<>> /\ clearing = "no"
  /\ explicit = [s \in Slots |-> NoId]
  /\ hold = [h \in Holders |-> {}]
  /\ late = FALSE

-----------------------------------------------------------------------------
(* resolveModuleDependencies.                                              *)

Latest(definitions) == CHOOSE d \in definitions : \A e \in definitions : e.version =< d.version

\* What is resolved so far: the definitions queued, each with whether its version
\* is strict, and the modules whose dependencies are being resolved.
Queues == [ok : BOOLEAN, ready : Seq([def : database, strict : BOOLEAN]),
           resolving : SUBSET Ids]
Failed(queue) == [queue EXCEPT !.ok = FALSE]

\* One module; inner resolves what the definition chosen depends on, and the
\* module comes behind.
ResolveOne(inner, queue, dep) ==
  LET at      == {n \in DOMAIN queue.ready : queue.ready[n].def.id = dep.id}
      first   == CHOOSE n \in at : TRUE
      wanted  == {d \in database : d.id = dep.id /\ dep.version \in {0, d.version}}
      missing == IF Enforce THEN Failed(queue) ELSE queue
      behind  == inner[<<[queue EXCEPT !.resolving = @ \cup {dep.id}], Latest(wanted)>>]
  IN  IF at # {}
        THEN IF dep.version \in {0, queue.ready[first].def.version} THEN queue
             ELSE IF queue.ready[first].strict THEN Failed(queue)
             ELSE IF wanted = {} THEN missing
             ELSE [queue EXCEPT !.ready[first] = [def |-> Latest(wanted), strict |-> TRUE]]
        ELSE IF dep.id \in queue.resolving THEN Failed(queue)
             ELSE IF wanted = {} THEN missing
             ELSE [behind EXCEPT !.resolving = queue.resolving,
                     !.ready = Append(@, [def |-> Latest(wanted), strict |-> FALSE])]

\* Several, until one fails.
ResolveAll(inner, queue, deps) ==
  LET done[n \in 0 .. Len(deps)] ==
        IF n = 0 THEN queue
        ELSE IF done[n - 1].ok THEN ResolveOne(inner, done[n - 1], deps[n]) ELSE done[n - 1]
  IN  done[Len(deps)]

\* No module is resolved within itself: the depth is that of the ids.
Resolved(wants) ==
  LET resolve[n \in 0 .. Cardinality(Ids)] ==
        [p \in Queues \X database |->
           IF n = 0 THEN p[1] ELSE ResolveAll(resolve[n - 1], p[1], Dependencies[p[2]])]
  IN  ResolveAll(resolve[Cardinality(Ids)], [ok |-> TRUE, ready |-> <<>>, resolving |-> {}], wants)

Versions == {0} \cup {d.version : d \in Definitions}

GroupResolved(g) ==
  Resolved([n \in DOMAIN groupModules[g] |-> Wanted(groupModules[g][n], 0)])

ModuleResolved(id, version) == Resolved(<<Wanted(id, version)>>)

ReadyOf(resolved) == [n \in DOMAIN resolved.ready |-> resolved.ready[n].def]

LoadedAs(id) == {d \in Range(loaded) : d.id = id}

\* Resolved, and no other version of a module is loaded already.
Compatible(resolved) ==
  /\ resolved.ok
  /\ \A d \in Range(ReadyOf(resolved)) : LoadedAs(d.id) \subseteq {d}

-----------------------------------------------------------------------------
(* The calls.  One that is refused changes nothing and is left out.        *)

Top == stack[Len(stack)]

\* Scripts run between frames, and when a module is loaded.
ScriptRuns == /\ clearing = "no"
              /\ stack # <<>> => Top.kind = "load" /\ Top.script
              /\ Len(stack) < MaxDepth

UnderWay(holder) == \E n \in DOMAIN stack : stack[n].holder = holder

Load(holder, resolved) ==
  stack' = Append(stack, [kind |-> "load", holder |-> holder, ready |-> ReadyOf(resolved),
                          next |-> 1, script |-> FALSE])

\* (mutant) From the first to the last, as when loading: what a module depends on
\* before the module, the order of moduleManager.dox:245.
UnloadInOrder(holder, resolved) ==
  stack' = Append(stack, [kind |-> "unload", holder |-> holder,
                          ready |-> Reverse(ReadyOf(resolved)),
                          next |-> Len(resolved.ready), script |-> FALSE])

Unload(holder, resolved) ==
  stack' = Append(stack, [kind |-> "unload", holder |-> holder, ready |-> ReadyOf(resolved),
                          next |-> Len(resolved.ready), script |-> FALSE])

LoadModuleGroup(g) ==
  /\ ScriptRuns
  /\ groupModules[g] # <<>> /\ ~Contains(groupsLoaded, g)
  /\ Compatible(GroupResolved(g))
  /\ groupsLoaded' = Append(groupsLoaded, g)
  /\ Load(g, GroupResolved(g))
  /\ UNCHANGED <<databaseVars, loaded, loadCount, explicit, hold, clearing>>

LoadModuleExplicit(id, version) ==
  LET free == {s \in Slots : explicit[s] = NoId /\ ~UnderWay(s)}
      slot == CHOOSE s \in free : \A t \in free : s =< t
      resolved == ModuleResolved(id, version)
  IN  /\ ScriptRuns /\ free # {}
      /\ \E d \in database : d.id = id
      /\ Compatible(resolved)
      /\ explicit' = [explicit EXCEPT ![slot] = id]
      /\ Load(slot, resolved)
      /\ UNCHANGED <<databaseVars, groupsLoaded, loaded, loadCount, hold, clearing>>

\* Vector::erase_fast: the last element takes the place.
EraseFast(s, x) ==
  LET i == SelectInSeq(s, LAMBDA y : y = x) IN Front([s EXCEPT ![i] = s[Len(s)]])

UnloadGroup(g) ==
  /\ Contains(groupsLoaded, g)
  /\ Compatible(GroupResolved(g))
  /\ groupsLoaded' = EraseFast(groupsLoaded, g)
  /\ Unload(g, GroupResolved(g))
  /\ UNCHANGED <<databaseVars, loaded, loadCount, explicit, hold, clearing>>

UnloadExplicit(id, holder) ==
  /\ LoadedAs(id) # {}
  /\ LET resolved == ModuleResolved(id, (CHOOSE d \in LoadedAs(id) : TRUE).version)
     IN  Compatible(resolved) /\ Unload(holder, resolved)
  /\ explicit' = [s \in Slots |-> IF s = holder THEN NoId ELSE explicit[s]]
  /\ UNCHANGED <<databaseVars, groupsLoaded, loaded, loadCount, hold, clearing>>

\* Scripts unload what is loaded, not what is being loaded, and a module as
\* often as they have loaded it.
UnloadModuleGroup(g) == ScriptRuns /\ ~UnderWay(g) /\ UnloadGroup(g)

UnloadModuleExplicit(s) ==
  ScriptRuns /\ ~UnderWay(s) /\ explicit[s] # NoId /\ UnloadExplicit(explicit[s], s)

-----------------------------------------------------------------------------
(* The loops of the calls.                                                 *)

TopWith(next, script) == [stack EXCEPT ![Len(stack)] = [@ EXCEPT !.next = next, !.script = script]]

\* (mutant) Modules loaded already are not counted.
LoadNextOnce ==
  LET d == Top.ready[Top.next]
  IN  /\ stack # <<>> /\ Top.kind = "load" /\ ~Top.script /\ Top.next =< Len(Top.ready)
      /\ hold' = [hold EXCEPT ![Top.holder] =
                    @ \cup (IF LoadedAs(d.id) # {} THEN LoadedAs(d.id) ELSE {d})]
      /\ IF LoadedAs(d.id) # {}
           THEN /\ stack' = TopWith(Top.next + 1, FALSE)
                /\ UNCHANGED <<loaded, loadCount>>
           ELSE /\ loadCount' = [loadCount EXCEPT ![d] = @ + 1]
                /\ loaded' = Append(loaded, d)
                /\ stack' = TopWith(Top.next, TRUE)
      /\ UNCHANGED <<databaseVars, groupsLoaded, explicit, clearing>>

\* The next module is counted; it is loaded, and its script executed, unless
\* some version of it is loaded.
LoadNext ==
  LET d == Top.ready[Top.next]
      counted == IF LoadedAs(d.id) # {} THEN CHOOSE e \in LoadedAs(d.id) : TRUE ELSE d
  IN  /\ stack # <<>> /\ Top.kind = "load" /\ ~Top.script /\ Top.next =< Len(Top.ready)
      /\ loadCount' = [loadCount EXCEPT ![counted] = @ + 1]
      /\ hold' = [hold EXCEPT ![Top.holder] = @ \cup {counted}]
      /\ IF LoadedAs(d.id) # {}
           THEN loaded' = loaded /\ stack' = TopWith(Top.next + 1, FALSE)
           ELSE loaded' = Append(loaded, d) /\ stack' = TopWith(Top.next, TRUE)
      /\ UNCHANGED <<databaseVars, groupsLoaded, explicit, clearing>>

\* The count of the next module is reduced; at zero it is unloaded, and its
\* destroy function called.  One that is not loaded is skipped.  (For a group the
\* message that says so, unless EchoInfo is off, reads the entry not found: skipping
\* stands for what the code does without it.)
UnloadNext ==
  LET d == Top.ready[Top.next]
      counted == CHOOSE e \in LoadedAs(d.id) : TRUE
  IN  /\ stack # <<>> /\ Top.kind = "unload" /\ ~Top.script /\ Top.next > 0
      /\ IF LoadedAs(d.id) = {}
           THEN stack' = TopWith(Top.next - 1, FALSE) /\ UNCHANGED <<loaded, loadCount, hold>>
           ELSE /\ loadCount' = [loadCount EXCEPT ![counted] = @ - 1]
                /\ hold' = [h \in Holders |-> IF h = Top.holder THEN hold[h] \ {counted} ELSE hold[h]]
                /\ IF loadCount'[counted] = 0
                     THEN loaded' = EraseFast(loaded, counted) /\ stack' = TopWith(Top.next, TRUE)
                     ELSE loaded' = loaded /\ stack' = TopWith(Top.next - 1, FALSE)
      /\ UNCHANGED <<databaseVars, groupsLoaded, explicit, clearing>>

EndScript ==
  /\ stack # <<>> /\ Top.script
  /\ stack' = TopWith(IF Top.kind = "load" THEN Top.next + 1 ELSE Top.next - 1, FALSE)
  /\ UNCHANGED <<databaseVars, loadVars, clearing>>

EndCall ==
  /\ stack # <<>> /\ ~Top.script
  /\ Top.next = (IF Top.kind = "load" THEN Len(Top.ready) + 1 ELSE 0)
  /\ stack' = Front(stack)
  /\ UNCHANGED <<databaseVars, loadVars, clearing>>

-----------------------------------------------------------------------------
(* The database.                                                           *)

RegisterModule(d) ==
  LET g == GroupOf[d.id]
  IN  /\ stack = <<>> /\ clearing = "no"
      /\ d \notin database /\ ~Contains(groupsLoaded, g)
      /\ database' = database \cup {d}
      /\ groupModules' = [groupModules EXCEPT ![g] = IF Contains(@, d.id) THEN @ ELSE Append(@, d.id)]
      /\ late' = (late \/ loaded # <<>>)
      /\ UNCHANGED <<loadVars, stack, clearing>>

\* (mutant) Loaded or not.
UnregisterAnyway(d) ==
  /\ stack = <<>> /\ clearing = "no"
  /\ d \in database
  /\ \E e \in database : e.id = d.id /\ e # d
  /\ database' = database \ {d}
  /\ UNCHANGED <<groupModules, late, loadVars, stack, clearing>>

\* removeModuleDefinition.  (The entry of an id stays when its last version
\* goes, and resolving it would read an empty vector: not done here.)
UnregisterModule(d) ==
  /\ stack = <<>> /\ clearing = "no"
  /\ d \in database /\ loadCount[d] =< 0
  /\ \E e \in database : e.id = d.id /\ e # d
  /\ database' = database \ {d}
  /\ UNCHANGED <<groupModules, late, loadVars, stack, clearing>>

ClearDatabase ==
  /\ stack = <<>> /\ clearing = "no"
  /\ clearing' = "yes"
  /\ UNCHANGED <<databaseVars, loadVars, stack>>

\* Then the modules that are still loaded, starting from the first.
ClearModules == UnloadExplicit(Head(loaded).id, NoId)

\* clearDatabase unloads the first group, or the first module, until none is
\* left; a call that is refused is made again for ever.
ClearNext ==
  /\ stack = <<>> /\ clearing = "yes"
  /\ \/ groupsLoaded # <<>> /\ UnloadGroup(Head(groupsLoaded))
     \/ groupsLoaded = <<>> /\ loaded # <<>> /\ ClearModules

EndClear ==
  /\ stack = <<>> /\ clearing = "yes" /\ groupsLoaded = <<>> /\ loaded = <<>>
  /\ clearing' = "done"
  /\ database' = {} /\ groupModules' = [g \in Groups |-> <<>>]
  /\ UNCHANGED <<late, loadVars, stack>>

-----------------------------------------------------------------------------
CallNext == LoadNext \/ UnloadNext \/ EndScript \/ EndCall

Next ==
  \/ \E g \in Groups : LoadModuleGroup(g) \/ UnloadModuleGroup(g)
  \/ \E id \in Ids : \E version \in Versions : LoadModuleExplicit(id, version)
  \/ \E s \in Slots : UnloadModuleExplicit(s)
  \/ CallNext
  \/ \E d \in Definitions : RegisterModule(d) \/ UnregisterModule(d)
  \/ ClearDatabase
  \/ ClearNext
  \/ EndClear

Spec == Init /\ [][Next]_vars

-----------------------------------------------------------------------------
(* Properties.                                                             *)

\* One version of a module is loaded at a time, and what is loaded is what is
\* counted: no module is unregistered, or left behind, while it is in use.
LoadedIsCounted ==
  /\ TypeOK
  /\ \A i, j \in DOMAIN loaded : loaded[i].id = loaded[j].id => i = j
  /\ \A d \in Definitions : d \in Range(loaded) <=> loadCount[d] > 0

\* Resolving again at the time of unloading gives back what was counted at the
\* time of loading, although versions have come and gone: the count of a
\* definition is the number of its holders, and what is not loaded any more,
\* nor being loaded or unloaded, holds nothing.  (Until clearDatabase.)
CountsAreHolds ==
  clearing = "no" =>
    /\ \A d \in Definitions : loadCount[d] = Cardinality({h \in Holders : d \in hold[h]})
    /\ \A g \in Groups : hold[g] # {} => Contains(groupsLoaded, g) \/ UnderWay(g)
    /\ \A s \in Slots : hold[s] # {} => explicit[s] # NoId \/ UnderWay(s)

Satisfied(d) ==
  \A dep \in Range(Dependencies[d]) : \E e \in LoadedAs(dep.id) : dep.version \in {0, e.version}

\* What a module depends on is loaded, in a version it accepts, from before its
\* script is executed until its destroy function has returned: the loops that
\* unload go from the last module to the first.  That is the rule of
\* moduleManager.dox:209; its example (245) has the opposite order.  (Until
\* clearDatabase, which unloads modules in the order they were loaded in.)
DependenciesLoaded ==
  clearing = "no" =>
    /\ \A d \in Range(loaded) : Satisfied(d)
    /\ stack # <<>> /\ Top.script => Satisfied(Top.ready[Top.next])

\* clearDatabase makes its next call until nothing is loaded, even if the call
\* is refused, and then it never ends: no call is refused, and each takes
\* something away, unless definitions came while modules were loaded.
ClearGoesOn ==
  clearing = "yes" /\ stack = <<>> /\ ~late =>
    /\ groupsLoaded # <<>> => Compatible(GroupResolved(Head(groupsLoaded)))
    /\ groupsLoaded = <<>> /\ loaded # <<>> =>
         LET resolved == ModuleResolved(Head(loaded).id, Head(loaded).version)
         IN  Compatible(resolved) /\ Contains(ReadyOf(resolved), Head(loaded))
=============================================================================
