------------------------------ MODULE NetGhost ------------------------------
(***************************************************************************)
(* The ghost manager of NetConnection (network/netGhost.cc) while ghosting *)
(* is active, with the parts of NetObject (network/netObject.cc) that mark *)
(* state as changed and put objects in and out of scope: the server's      *)
(* objects, its ghost infos for one client, the packets of the notify      *)
(* window, and the client's ghosts.                                        *)
(*                                                                         *)
(* An object's state is one version number per mask bit.  mGhostArray is   *)
(* abstracted to the range each ghost info lies in (free, zero mask, non   *)
(* zero mask); which free info a new ghost gets is any.  A ghost's         *)
(* updateChain is the refs to it in the packets not yet notified.  How     *)
(* many ghosts fit into a packet is any number, but at least one.          *)
(***************************************************************************)
EXTENDS Integers, Sequences, FiniteSetsExt, Functions

CONSTANTS Objects,      \* the server's Ghostable objects
          Indices,      \* ghost indices, 0 .. MaxGhostCount - 1
          Bits,         \* the bits of an object's update mask
          None,         \* NULL
          SendWindow,   \* 30: windowFull()
          SkipCap,      \* bound: updateSkipCount, as far as it is counted
          MaxVersion,   \* bound: changes of one bit of one object
          MaxScopings,  \* bound: calls that change an object's scope flags
          PackRetains,  \* whether packUpdate may leave bits for later
          ClearMasks    \* the masks clearMaskBits is called with

ASSUME GhostConstants ==
  /\ None \notin Objects /\ Bits # {}
  /\ SendWindow \in Nat \ {0} /\ {SkipCap, MaxVersion, MaxScopings} \subseteq Nat
  /\ PackRetains \in BOOLEAN
  /\ ClearMasks \subseteq SUBSET Bits

VARIABLES
  alive,                \* the objects registered
  version,              \* version[o][b]: the state of object o under bit b
  dirty,                \* mDirtyMaskBits, the dirty list
  scopeAlways,          \* objects with the ScopeAlways flag
  ghost,                \* mGhostRefs and the ranges of mGhostArray
  window, contents,     \* the packets not yet notified, and their ghostLists
  localGhost,           \* mLocalGhosts of the client
  scopings,             \* calls that have changed scope flags
  waived                \* history: bits cleared since they were last set

objectVars == <<alive, version, dirty, scopeAlways>>
vars == <<objectVars, ghost, window, contents, localGhost, scopings, waived>>

Net == INSTANCE PacketWindow

Flags == {"InScope", "ScopeAlways", "ScopeLocalAlways", "NotYetGhosted", "Ghosting",
          "KillGhost", "KillingGhost"}

GhostInfo == [obj : Objects \cup {None}, mask : SUBSET Bits, flags : SUBSET Flags,
              skip : 0 .. SkipCap, range : {"free", "zero", "nonzero"}]

\* ghostInfoFlags of a ref is its kind; vers is the state packUpdate wrote.
GhostRef == [kind : {"update", "ghosting", "killing"}, mask : SUBSET Bits,
             obj : Objects \cup {None}, vers : [Bits -> Nat]]

NoVersion == -1         \* a bit the client's ghost has not received yet

LocalGhost == [obj : Objects, vers : [Bits -> Nat \cup {NoVersion}]]

ASSUME NoneIsNoGhost == None \notin LocalGhost

TypeOK ==
  /\ alive \subseteq Objects /\ scopeAlways \subseteq Objects
  /\ version \in [Objects -> [Bits -> Nat]]
  /\ dirty \in [Objects -> SUBSET Bits]
  /\ ghost \in [Indices -> GhostInfo]
  /\ window \in Seq(Net!Fates)
  /\ Len(contents) = Len(window)
  /\ \A k \in DOMAIN contents : /\ DOMAIN contents[k] \subseteq Indices
                                /\ Range(contents[k]) \subseteq GhostRef
  /\ localGhost \in [Indices -> {None} \cup LocalGhost]
  /\ scopings \in Nat
  /\ waived \in [Objects -> SUBSET Bits]

FreeInfo == [obj |-> None, mask |-> {}, flags |-> {}, skip |-> 0, range |-> "free"]

Init ==
  /\ alive = Objects
  /\ version = [o \in Objects |-> [b \in Bits |-> 0]]
  /\ dirty = [o \in Objects |-> {}]
  /\ scopeAlways = {}
  /\ ghost = [i \in Indices |-> FreeInfo]
  /\ Net!Init /\ contents = <<>>
  /\ localGhost = [i \in Indices |-> None]
  /\ scopings = 0
  /\ waived = [o \in Objects |-> {}]

GhostsOf(o) == {i \in Indices : ghost[i].obj = o}

-----------------------------------------------------------------------------
(* Ghost infos.                                                            *)

\* (mutant) The info is not moved out of the zero range.
DetachInPlace(g) == [g EXCEPT !.flags = @ \cup {"KillGhost"}, !.obj = None]

\* detachObject: the ghost is to be killed.
Detach(g) ==
  [g EXCEPT !.flags = @ \cup {"KillGhost"},
            !.mask  = IF g.mask = {} THEN Bits ELSE @,
            !.range = IF g.mask = {} THEN "nonzero" ELSE @,
            !.obj   = None]

\* freeGhostInfo.  What is left in the flags of a free info is never read.
Free(g) == [g EXCEPT !.mask = {}, !.range = "free"]

\* Bits are put into the mask, and the info into the range of the non zero.
AddBits(g, bits) ==
  [g EXCEPT !.mask = @ \cup bits,
            !.range = IF g.mask = {} /\ bits # {} THEN "nonzero" ELSE @]

NewGhost(o, always) ==
  [obj |-> o, mask |-> Bits, skip |-> 0, range |-> "nonzero",
   flags |-> {"NotYetGhosted", "InScope"}
             \cup (IF o \in always THEN {"ScopeAlways"} ELSE {})]

\* objectInScope for each of the objects: one that has an info is marked, for
\* the others infos are taken from the free ones, as far as there are any.
ObjectsInScope(gs, objects, always) ==
  LET known == {gs[i].obj : i \in DOMAIN gs}
      free  == {i \in DOMAIN gs : gs[i].range = "free"}
      new   == objects \ known
  IN  {[i \in DOMAIN gs |->
          IF gs[i].obj \in objects THEN [gs[i] EXCEPT !.flags = @ \cup {"InScope"}]
          ELSE IF i \in DOMAIN taken THEN NewGhost(taken[i], always) ELSE gs[i]] :
       taken \in UNION {Injection(slots, new) :
                          slots \in kSubset(Min({Cardinality(free), Cardinality(new)}), free)}}

-----------------------------------------------------------------------------
(* The server's objects.                                                   *)

\* The game changes the state under bit b of an object and calls setMaskBits.
SetMaskBits(o, b) ==
  /\ o \in alive
  /\ version[o][b] < MaxVersion
  /\ version' = [version EXCEPT ![o][b] = @ + 1]
  /\ dirty' = [dirty EXCEPT ![o] = @ \cup {b}]
  /\ waived' = [waived EXCEPT ![o] = @ \ {b}]
  /\ UNCHANGED <<alive, scopeAlways, ghost, window, contents, localGhost, scopings>>

\* clearMaskBits: the bits need not be sent any more.
ClearMaskBits(o, bits) ==
  /\ o \in alive
  /\ dirty' = [dirty EXCEPT ![o] = @ \ bits]
  /\ waived' = [waived EXCEPT ![o] = @ \cup bits]
  /\ ghost' = [i \in Indices |->
                 IF i \notin GhostsOf(o) THEN ghost[i]
                 ELSE [ghost[i] EXCEPT !.mask = @ \ bits,
                                       !.range = IF ghost[i].mask = bits /\ bits # {}
                                                   THEN "zero" ELSE @]]
  /\ UNCHANGED <<alive, version, scopeAlways, window, contents, localGhost, scopings>>

\* collapseDirtyList: dirty bits go into the masks of the object's ghosts.
CollapseDirtyList ==
  /\ \E o \in Objects : dirty[o] # {}
  /\ ghost' = [i \in Indices |->
                 IF ghost[i].obj = None THEN ghost[i]
                 ELSE AddBits(ghost[i], dirty[ghost[i].obj])]
  /\ dirty' = [o \in Objects |-> {}]
  /\ UNCHANGED <<alive, version, scopeAlways, window, contents, localGhost, scopings,
                 waived>>

\* NetObject::onRemove and the destructor.
DeleteObject(o) ==
  /\ o \in alive
  /\ alive' = alive \ {o}
  /\ dirty' = [dirty EXCEPT ![o] = {}]
  /\ scopeAlways' = scopeAlways \ {o}
  /\ ghost' = [i \in Indices |-> IF i \in GhostsOf(o) THEN Detach(ghost[i]) ELSE ghost[i]]
  /\ UNCHANGED <<version, window, contents, localGhost, scopings, waived>>

Rescope == /\ scopings < MaxScopings
           /\ scopings' = scopings + 1
           /\ UNCHANGED <<alive, version, dirty, window, contents, localGhost, waived>>

SetScopeAlways(o) ==
  /\ o \in alive
  /\ scopeAlways' = scopeAlways \cup {o}
  /\ ghost' \in ObjectsInScope(ghost, {o}, scopeAlways \cup {o})
  /\ Rescope

ClearScopeAlways(o) ==
  /\ o \in alive
  /\ scopeAlways' = scopeAlways \ {o}
  /\ ghost' = [i \in Indices |-> IF i \in GhostsOf(o) THEN Detach(ghost[i]) ELSE ghost[i]]
  /\ Rescope

\* objectLocalScopeAlways, objectLocalClearAlways
ObjectLocalScopeAlways(o) ==
  /\ o \in alive
  /\ ghost' \in {[i \in Indices |->
                    IF gs[i].obj = o
                      THEN [gs[i] EXCEPT !.flags = @ \cup {"ScopeLocalAlways"}]
                      ELSE gs[i]] : gs \in ObjectsInScope(ghost, {o}, scopeAlways)}
  /\ UNCHANGED scopeAlways
  /\ Rescope

ObjectLocalClearAlways(o) ==
  /\ o \in alive
  /\ ghost' = [i \in Indices |->
                 IF i \in GhostsOf(o)
                   THEN [ghost[i] EXCEPT !.flags = @ \ {"ScopeLocalAlways"}]
                   ELSE ghost[i]]
  /\ UNCHANGED scopeAlways
  /\ Rescope

-----------------------------------------------------------------------------
(* ghostWritePacket.                                                       *)

\* Ghosts that have something to send leave the scope, unless it is for ever.
LeaveScope(g) ==
  IF g.range # "nonzero" THEN g
  ELSE [g EXCEPT !.skip = Min({@ + 1, SkipCap}),
                 !.flags = IF @ \cap {"ScopeAlways", "ScopeLocalAlways"} # {}
                             THEN @ ELSE @ \ {"InScope"}]

\* Those the scope query did not bring back are detached; one to be killed
\* that was never ghosted is freed.
DropOutOfScope(g) ==
  LET d == IF g.range = "nonzero" /\ "InScope" \notin g.flags THEN Detach(g) ELSE g
  IN  IF d.range = "nonzero" /\ {"KillGhost", "NotYetGhosted"} \subseteq d.flags
        THEN Free(d) ELSE d

\* (mutant) A ghost may be sent again before it is known to have arrived.
WritableGhosting(g) == g.range = "nonzero" /\ "KillingGhost" \notin g.flags

Writable(g) == g.range = "nonzero" /\ g.flags \cap {"KillingGhost", "Ghosting"} = {}

\* Kills come first, then what has waited longest (NetObject's
\* getUpdatePriority; equal ones in any order).
Priority(g) == IF "KillGhost" \in g.flags THEN SkipCap + 1 ELSE g.skip

RefFor(g, retained) ==
  IF "KillGhost" \in g.flags
    THEN [kind |-> "killing", mask |-> g.mask, obj |-> None, vers |-> [b \in Bits |-> 0]]
    ELSE [kind |-> IF "NotYetGhosted" \in g.flags THEN "ghosting" ELSE "update",
          mask |-> g.mask \ retained, obj |-> g.obj, vers |-> version[g.obj]]

\* The ghost's info after its update, or its killing, has been written.
Written(g, retained) ==
  IF "KillGhost" \in g.flags
    THEN [g EXCEPT !.flags = (@ \ {"KillGhost"}) \cup {"KillingGhost"}, !.mask = {},
                   !.range = "zero", !.skip = 0]
    ELSE [g EXCEPT !.flags = IF "NotYetGhosted" \in @
                               THEN (@ \ {"NotYetGhosted"}) \cup {"Ghosting"} ELSE @,
                   !.mask = retained,
                   !.range = IF retained = {} THEN "zero" ELSE @, !.skip = 0]

\* The scope object reports any of the objects that are not ScopeAlways.
GhostWritePacket ==
  \E inView \in SUBSET (alive \ scopeAlways) :
  \E scoped \in ObjectsInScope([i \in Indices |-> LeaveScope(ghost[i])], inView, {}) :
    LET gs == [i \in Indices |-> DropOutOfScope(scoped[i])]
        writable == {i \in Indices : Writable(gs[i])}
    IN  \E sent \in SUBSET writable :
        \E retained \in [sent -> IF PackRetains THEN SUBSET Bits ELSE {{}}] :
          /\ sent = {} => writable = {}
          /\ \A i \in sent, j \in writable \ sent : Priority(gs[i]) >= Priority(gs[j])
          /\ \A i \in sent : retained[i] \subseteq gs[i].mask
          /\ contents' = Append(contents, [i \in sent |-> RefFor(gs[i], retained[i])])
          /\ ghost' = [i \in Indices |->
                         IF i \in sent THEN Written(gs[i], retained[i]) ELSE gs[i]]

SendPacket == /\ Net!Send
              /\ GhostWritePacket
              /\ UNCHANGED <<objectVars, localGhost, scopings, waived>>

-----------------------------------------------------------------------------
(* Notifies.                                                               *)

\* Bits sent again since, in the refs of later packets to the same ghost.
SentSince(i) == UNION {contents[k][i].mask :
                         k \in {n \in 2 .. Len(contents) : i \in DOMAIN contents[n]}}

\* (mutant) Only the flags are put back.
DroppedForgetsBits(g, i, ref) ==
  [g EXCEPT !.flags =
     CASE ref.kind = "ghosting" -> (@ \ {"Ghosting"}) \cup {"NotYetGhosted"}
       [] ref.kind = "killing"  -> (@ \ {"KillingGhost"}) \cup {"KillGhost"}
       [] OTHER -> @]

\* (mutant) A kill that was lost is taken for an update that was.
DroppedNotKilledAgain(g, i, ref) ==
  [AddBits(g, ref.mask \ SentSince(i)) EXCEPT
     !.flags = IF ref.kind = "ghosting" THEN (@ \ {"Ghosting"}) \cup {"NotYetGhosted"}
                                        ELSE @]

\* ghostPacketDropped: what no later packet carries is to be sent again.
Dropped(g, i, ref) ==
  [AddBits(g, ref.mask \ SentSince(i)) EXCEPT
     !.flags = CASE ref.kind = "ghosting" -> (@ \ {"Ghosting"}) \cup {"NotYetGhosted"}
                 [] ref.kind = "killing"  -> (@ \ {"KillingGhost"}) \cup {"KillGhost"}
                 [] OTHER -> @]

\* (mutant) The index of a ghost that was only asked to die is reused.
ReceivedFreesDetached(g, ref) ==
  IF ref.kind = "killing" \/ "KillGhost" \in g.flags THEN Free(g)
  ELSE [g EXCEPT !.flags = @ \ {"Ghosting"}]

\* ghostPacketReceived: a ghost that was ghosting is ghosted, a dying one free.
Received(g, ref) ==
  CASE ref.kind = "ghosting" -> [g EXCEPT !.flags = @ \ {"Ghosting"}]
    [] ref.kind = "killing"  -> Free(g)
    [] OTHER -> g

HandleNotify ==
  /\ window # <<>>
  /\ Net!Notify(1)
  /\ contents' = Tail(contents)
  /\ ghost' = [i \in Indices |->
                 IF i \notin DOMAIN contents[1] THEN ghost[i]
                 ELSE IF window[1] = "handled" THEN Received(ghost[i], contents[1][i])
                                               ELSE Dropped(ghost[i], i, contents[1][i])]
  /\ UNCHANGED <<objectVars, localGhost, scopings, waived>>

-----------------------------------------------------------------------------
(* The client.                                                             *)

\* unpackUpdate
Unpack(vers, ref) == [b \in Bits |-> IF b \in ref.mask THEN ref.vers[b] ELSE vers[b]]

\* ghostReadPacket: whether an update makes a new ghost is for the client to
\* see from its table; only then does the packet name a class.
ReadRef(l, ref) ==
  IF ref.kind = "killing" THEN None
  ELSE IF l = None
    THEN [obj |-> ref.obj, vers |-> Unpack([b \in Bits |-> NoVersion], ref)]
    ELSE [l EXCEPT !.vers = Unpack(@, ref)]

HandlePacket(k) ==
  /\ Net!Handle(k)
  /\ localGhost' = [i \in Indices |->
                      IF i \in DOMAIN contents[k] THEN ReadRef(localGhost[i], contents[k][i])
                                                  ELSE localGhost[i]]
  /\ UNCHANGED <<objectVars, ghost, contents, scopings, waived>>

-----------------------------------------------------------------------------
Next == \/ \E o \in Objects : \/ \E b \in Bits : SetMaskBits(o, b)
                              \/ \E bits \in ClearMasks : ClearMaskBits(o, bits)
                              \/ DeleteObject(o)
                              \/ SetScopeAlways(o) \/ ClearScopeAlways(o)
                              \/ ObjectLocalScopeAlways(o) \/ ObjectLocalClearAlways(o)
        \/ CollapseDirtyList
        \/ SendPacket
        \/ HandleNotify
        \/ \E k \in DOMAIN window : HandlePacket(k)

Spec == Init /\ [][Next]_vars

\* The main loop collapses the dirty list and sends a packet at every tick;
\* acks come back, and of the packets that carry a ghost some arrive.
Arrives(k) == k \in DOMAIN window /\ Net!Handle(k)

Fairness ==
  /\ WF_dirty(CollapseDirtyList)
  /\ WF_window(Net!Send)
  /\ WF_window(window # <<>> /\ Net!Notify(1))
  /\ SF_window(Arrives(Len(window)))
  /\ \A i \in Indices :
       SF_window(\E k \in DOMAIN contents : i \in DOMAIN contents[k] /\ Arrives(k))

FairSpec == Spec /\ Fairness

-----------------------------------------------------------------------------
(* Properties.                                                             *)

\* validateGhostArray: a ghost info lies in the range its mask says.
GhostArrayValid ==
  \A i \in Indices : (ghost[i].range = "nonzero") <=> (ghost[i].mask # {})

\* The client reads each update the way the server wrote it: it takes for a
\* new ghost exactly what was sent as one, never kills or updates a ghost it
\* does not have, and an update meets the ghost of its own object, although
\* indices are reused and the server only guesses what has arrived.
ReadsAsWritten ==
  \A k \in DOMAIN contents : window[k] = "flying" =>
    \A i \in DOMAIN contents[k] :
      LET ref == contents[k][i]
      IN  /\ (ref.kind = "ghosting") <=> (localGhost[i] = None)
          /\ ref.kind = "update" => localGhost[i].obj = ref.obj

\* A free index is not in use at the client and no packet speaks of it.
FreeIndexUnused ==
  \A i \in Indices : ghost[i].range = "free" =>
    /\ localGhost[i] = None
    /\ \A k \in DOMAIN contents : i \notin DOMAIN contents[k]

\* packUpdate and getUpdatePriority are called on objects that exist.
WrittenObjectsExist ==
  \A i \in Indices :
    ghost[i].range = "nonzero" /\ ghost[i].flags \cap {"KillGhost", "KillingGhost"} = {} =>
      ghost[i].obj \in alive

\* The server's table: every ghost info is in its range, an index that is free is
\* free at both ends, and what is in the table can be written.
GhostTableSound == TypeOK /\ GhostArrayValid /\ FreeIndexUnused /\ WrittenObjectsExist

\* What the client knows under bit b of ghost i, and the packets that still
\* carry the ghost there.
Known(i, b) == IF localGhost[i] = None THEN NoVersion ELSE localGhost[i].vers[b]
Carriers(i) == {k \in DOMAIN contents : i \in DOMAIN contents[k] /\ window[k] # "handled"}

\* Whatever the client has not heard of, it will: where its ghost differs from
\* the object, the bit is dirty, or in the ghost's mask, or in a packet not
\* handled that carries the present state (if that is lost, the notify brings
\* the bit back).  (Not the bits clearMaskBits has said need not be sent.)
StaleIsComing ==
  \A i \in Indices : \A b \in Bits :
    LET o == ghost[i].obj
    IN  o # None /\ b \notin waived[o] /\ Known(i, b) # version[o][b] =>
          \/ b \in dirty[o] \cup ghost[i].mask
          \/ \E k \in Carriers(i) : /\ b \in contents[k][i].mask
                                    /\ contents[k][i].vers[b] = version[o][b]

\* A ghost of the client whose object has left the scope or is deleted will be
\* killed.
KillIsComing ==
  \A i \in Indices :
    ghost[i].obj = None /\ localGhost[i] # None =>
      \/ ghost[i].range = "nonzero" /\ "KillGhost" \in ghost[i].flags
      \/ \E k \in Carriers(i) : contents[k][i].kind = "killing"

\* NetObject's doc (netObject.h): an object marked ScopeAlways is always
\* ghosted.  Here: it keeps a ghost info that is not to be killed.
ScopeAlwaysIsGhosted ==
  \A o \in scopeAlways : \E i \in GhostsOf(o) : "KillGhost" \notin ghost[i].flags

\* Once the game stops changing it, the client's ghost gets the state of its
\* object or goes; the ghost of a deleted object goes.
InSync(i) == \/ localGhost[i] = None
             \/ localGhost[i].obj \in alive /\ localGhost[i].vers = version[localGhost[i].obj]

EventuallyInSync == \A i \in Indices : ~InSync(i) ~> InSync(i)
=============================================================================
