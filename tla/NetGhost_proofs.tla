-------------------------- MODULE NetGhost_proofs --------------------------
(***************************************************************************)
(* Proofs about NetGhost, for any objects, indices, bits and windows: the  *)
(* invariant that the safety properties follow from.  It tells the life of *)
(* a ghost index: unused, unsent, being created, created, dying.  Each of  *)
(* these fixes what the flags, the client and the packets may say of the   *)
(* index, and the versions in the packets only grow.                       *)
(***************************************************************************)
EXTENDS NetGhost, SequenceTheorems, TLAPS

-----------------------------------------------------------------------------
(* The invariant.  Its parts speak of one index: g is its ghost info, cs   *)
(* the packets not yet notified, w their fates, l the client's ghost.      *)

\* The packets that are still flying are the last ones.
FlyingLast(w) == \A j, k \in DOMAIN w : j < k /\ w[j] = "flying" => w[k] = "flying"

\* The packets with a ref to index i.
Holders(cs, i) == {k \in DOMAIN cs : i \in DOMAIN cs[k]}

\* Of the flags that tell how far a ghost's life has come at most one is set.
InPhase(g, phase) ==
  \A flag \in {"NotYetGhosted", "Ghosting", "KillingGhost"} :
    flag \in g.flags <=> flag = phase

\* Nothing has been sent, or all that was has been lost.
Unsent(g, i, cs, l) ==
  /\ InPhase(g, "NotYetGhosted")
  /\ l = None /\ Holders(cs, i) = {}

\* One packet carries the ghost, and its notify is due.
Creating(g, i, cs, w, l) ==
  /\ InPhase(g, "Ghosting")
  /\ \E k \in Holders(cs, i) :
       /\ \A j \in Holders(cs, i) : j = k
       /\ cs[k][i].kind = "ghosting" /\ cs[k][i].obj \in Objects
       /\ (w[k] = "handled") <=> (l # None)
       /\ l # None => l.obj = cs[k][i].obj
       /\ g.obj \in {None, cs[k][i].obj}

\* The client has the ghost, and all refs are updates of its object.
Created(g, i, cs, l) ==
  /\ InPhase(g, "none of them")
  /\ l # None /\ g.obj \in {None, l.obj}
  /\ \A k \in Holders(cs, i) : cs[k][i].kind = "update" /\ cs[k][i].obj = l.obj

\* The last ref is the kill, the others are updates.
Dying(g, i, cs, w, l) ==
  /\ InPhase(g, "KillingGhost")
  /\ \E k \in Holders(cs, i) :
       /\ cs[k][i].kind = "killing" /\ cs[k][i].mask # {}
       /\ (w[k] = "handled") <=> (l = None)
       /\ \A j \in Holders(cs, i) \ {k} :
            /\ j < k /\ cs[j][i].kind = "update" /\ cs[j][i].obj \in Objects
            /\ l # None => cs[j][i].obj = l.obj

\* The flags and the range of an info that is in use.
FlagsSound(g) ==
  /\ g.range # "free"
  /\ (g.obj = None) <=> ("KillGhost" \in g.flags \/ "KillingGhost" \in g.flags)
  /\ "KillGhost" \in g.flags => g.range = "nonzero" /\ g.mask # {}
  /\ g.range = "zero" => g.mask = {}

Unused(g, i, cs, l) ==
  g.range = "free" /\ g.obj = None /\ g.mask = {} /\ l = None /\ Holders(cs, i) = {}

Lifetime(g, i, cs, w, l) ==
  \/ Unused(g, i, cs, l)
  \/ FlagsSound(g) /\ \/ Unsent(g, i, cs, l)
                      \/ Creating(g, i, cs, w, l)
                      \/ Created(g, i, cs, l)
                      \/ Dying(g, i, cs, w, l)

\* Versions grow: from what the client has, through the packets, to what the
\* object has now.
Grows(i, cs, w, l, ver) ==
  /\ l # None => \A b \in Bits : l.vers[b] =< ver[l.obj][b]
  /\ \A k \in Holders(cs, i) : cs[k][i].kind # "killing" => \A b \in Bits :
       /\ cs[k][i].vers[b] =< ver[cs[k][i].obj][b]
       /\ w[k] = "flying" /\ l # None => l.vers[b] =< cs[k][i].vers[b]
       /\ w[k] = "handled" /\ l # None /\ b \in cs[k][i].mask => cs[k][i].vers[b] =< l.vers[b]
       /\ \A j \in Holders(cs, i) : j < k /\ cs[j][i].kind # "killing" =>
            cs[j][i].vers[b] =< cs[k][i].vers[b]

\* StaleIsComing of one index.
Coming(g, i, cs, w, l, ver, dirt, waiv) ==
  g.obj # None => \A b \in Bits \ waiv[g.obj] :
    \/ l # None /\ l.vers[b] = ver[g.obj][b]
    \/ b \in dirt[g.obj] \cup g.mask
    \/ \E k \in Holders(cs, i) : /\ w[k] # "handled" /\ b \in cs[k][i].mask
                                 /\ cs[k][i].vers[b] = ver[g.obj][b]

\* No mask given to clearMaskBits has two bits (see GhostArrayValid).
OneBitMasks == \A bits \in ClearMasks : \E b \in Bits : bits = {b}

\* What holds of a ghost info.
InfoInv(g, i, cs, w, l, ver, dirt, waiv, al) ==
  /\ g \in GhostInfo
  /\ Lifetime(g, i, cs, w, l)
  /\ Coming(g, i, cs, w, l, ver, dirt, waiv)
  /\ g.obj # None => g.obj \in al
  /\ OneBitMasks => (g.range = "nonzero" <=> g.mask # {})

\* The ghostLists of the packets: refs by index.
GhostLists == UNION {[written -> GhostRef] : written \in SUBSET Indices}

WindowInv(cs, w) ==
  /\ cs \in Seq(GhostLists) /\ w \in Seq(Net!Fates) /\ Len(cs) = Len(w)
  /\ FlyingLast(w)

TablesInv(ver, dirt, waiv, al) ==
  /\ ver \in [Objects -> [Bits -> Nat]]
  /\ dirt \in [Objects -> SUBSET Bits] /\ waiv \in [Objects -> SUBSET Bits]
  /\ al \subseteq Objects

IndexInv(i) ==
  /\ localGhost[i] \in {None} \cup LocalGhost
  /\ InfoInv(ghost[i], i, contents, window, localGhost[i], version, dirty, waived, alive)
  /\ Grows(i, contents, window, localGhost[i], version)

IInv ==
  /\ scopeAlways \subseteq Objects /\ scopings \in Nat
  /\ ghost = [i \in Indices |-> ghost[i]] /\ localGhost = [i \in Indices |-> localGhost[i]]
  /\ TablesInv(version, dirty, waived, alive)
  /\ WindowInv(contents, window)
  /\ \A i \in Indices : IndexInv(i)

-----------------------------------------------------------------------------
(* Changes of one ghost info.  Nothing else of the index changes.          *)

\* A change that keeps how far the ghost's life has come, or takes its object
\* away, leaves its lifetime sound.
LEMMA SamePhase ==
  ASSUME NEW g, NEW h, NEW i, NEW cs, NEW w, NEW l,
         Lifetime(g, i, cs, w, l), g.range # "free", FlagsSound(h),
         \A phase : InPhase(g, phase) => InPhase(h, phase),
         h.obj \in {None, g.obj}
  PROVE  Lifetime(h, i, cs, w, l)
<1>1. CASE Unsent(g, i, cs, l)
  BY <1>1 DEF Unsent, Lifetime
<1>2. CASE Creating(g, i, cs, w, l)
  BY <1>2 DEF Creating, Lifetime
<1>3. CASE Created(g, i, cs, l)
  BY <1>3 DEF Created, Lifetime
<1>4. CASE Dying(g, i, cs, w, l)
  BY <1>4 DEF Dying, Lifetime
<1> QED BY <1>1, <1>2, <1>3, <1>4 DEF Lifetime, Unused

\* An info with an object is in use and is not being killed.
LEMMA WithObject ==
  ASSUME NEW g, NEW i, NEW cs, NEW w, NEW l,
         Lifetime(g, i, cs, w, l), g.obj # None
  PROVE  /\ FlagsSound(g) /\ g.range # "free"
         /\ "KillGhost" \notin g.flags /\ "KillingGhost" \notin g.flags
BY DEF Lifetime, Unused, FlagsSound

\* detachObject of an info in use.
LEMMA DetachSound ==
  ASSUME NEW g, NEW i, NEW cs, NEW w, NEW l, NEW ver, NEW dirt, NEW waiv, NEW al,
         InfoInv(g, i, cs, w, l, ver, dirt, waiv, al), g.range # "free"
  PROVE  /\ InfoInv(Detach(g), i, cs, w, l, ver, dirt, waiv, al)
         /\ Detach(g).range # "free" /\ Detach(g).obj = None
<1> DEFINE h == Detach(g)
<1>1. g \in GhostInfo /\ Lifetime(g, i, cs, w, l) /\ Bits # {} /\ FlagsSound(g)
  BY GhostConstants DEF InfoInv, Lifetime, Unused
<1>2. /\ h.flags = g.flags \cup {"KillGhost"} /\ h.obj = None
      /\ h.mask = (IF g.mask = {} THEN Bits ELSE g.mask)
      /\ h.range = (IF g.mask = {} THEN "nonzero" ELSE g.range)
      /\ h.skip = g.skip
      /\ h \in GhostInfo
  BY <1>1 DEF Detach, GhostInfo, Flags
<1>3. FlagsSound(h)
  <2>1. g.mask # {} => g.range = "nonzero"
    BY <1>1 DEF FlagsSound, GhostInfo
  <2> QED BY <1>1, <1>2, <2>1 DEF FlagsSound
<1>4. \A phase : InPhase(g, phase) => InPhase(h, phase)
  BY <1>2 DEF InPhase
<1> HIDE DEF h
<1>5. Lifetime(h, i, cs, w, l)
  BY <1>1, <1>2, <1>3, <1>4, SamePhase DEF FlagsSound
<1>6. Coming(h, i, cs, w, l, ver, dirt, waiv)
  BY <1>2 DEF Coming
<1>7. OneBitMasks => (h.range = "nonzero" <=> h.mask # {})
  BY <1>1, <1>2, <1>3 DEF FlagsSound, InfoInv
<1>8. InfoInv(h, i, cs, w, l, ver, dirt, waiv, al)
  BY <1>2, <1>5, <1>6, <1>7 DEF InfoInv
<1>9. h.range # "free" /\ h.obj = None
  BY <1>2, <1>3 DEF FlagsSound
<1> QED BY <1>8, <1>9 DEF h

\* Bits put into the mask of an info in use.
LEMMA AddBitsSound ==
  ASSUME NEW g \in GhostInfo, NEW bits \in SUBSET Bits, FlagsSound(g)
  PROVE  LET h == AddBits(g, bits)
         IN  /\ h \in GhostInfo /\ FlagsSound(h)
             /\ h.obj = g.obj /\ h.flags = g.flags /\ h.mask = g.mask \cup bits
             /\ (g.range = "nonzero" <=> g.mask # {}) => (h.range = "nonzero" <=> h.mask # {})
<1> DEFINE h == AddBits(g, bits)
<1>1. /\ h.obj = g.obj /\ h.flags = g.flags /\ h.mask = g.mask \cup bits
      /\ h.range = (IF g.mask = {} /\ bits # {} THEN "nonzero" ELSE g.range)
      /\ h \in GhostInfo
  BY DEF AddBits, GhostInfo
<1>2. FlagsSound(h)
  BY <1>1 DEF FlagsSound, GhostInfo
<1> HIDE DEF h
<1>3. (g.range = "nonzero" <=> g.mask # {}) => (h.range = "nonzero" <=> h.mask # {})
  BY <1>1, <1>2 DEF FlagsSound
<1> QED BY <1>1, <1>2, <1>3 DEF h

\* A new ghost on a free info.
LEMMA NewGhostSound ==
  ASSUME NEW g, NEW i, NEW cs, NEW w, NEW l, NEW ver, NEW dirt, NEW waiv, NEW al,
         InfoInv(g, i, cs, w, l, ver, dirt, waiv, al), g.range = "free",
         NEW o \in Objects, o \in al, NEW always
  PROVE  /\ InfoInv(NewGhost(o, always), i, cs, w, l, ver, dirt, waiv, al)
         /\ NewGhost(o, always).range # "free"
<1> DEFINE h == NewGhost(o, always)
<1>1. /\ h.obj = o /\ h.mask = Bits /\ h.range = "nonzero" /\ h \in GhostInfo
      /\ "KillGhost" \notin h.flags /\ "KillingGhost" \notin h.flags
      /\ "NotYetGhosted" \in h.flags /\ "Ghosting" \notin h.flags
  <2>1. 0 \in 0 .. SkipCap
    BY GhostConstants
  <2> QED BY <2>1 DEF NewGhost, GhostInfo, Flags
<1> HIDE DEF h
<1>2. Unused(g, i, cs, l) /\ None \notin Objects /\ Bits # {}
  BY GhostConstants DEF InfoInv, Lifetime, FlagsSound
<1>3. FlagsSound(h) /\ Unsent(h, i, cs, l)
  BY <1>1, <1>2 DEF FlagsSound, Unsent, InPhase, Unused
<1>4. Coming(h, i, cs, w, l, ver, dirt, waiv)
  BY <1>1 DEF Coming
<1>5. InfoInv(h, i, cs, w, l, ver, dirt, waiv, al)
  BY <1>1, <1>2, <1>3, <1>4 DEF InfoInv, Lifetime
<1> QED BY <1>1, <1>5 DEF h

\* The flags that say whether an object is in scope have no part in this.
LEMMA ScopeFlagsSound ==
  ASSUME NEW g, NEW i, NEW cs, NEW w, NEW l, NEW ver, NEW dirt, NEW waiv, NEW al,
         InfoInv(g, i, cs, w, l, ver, dirt, waiv, al), g.range # "free",
         NEW h \in GhostInfo, h.obj = g.obj, h.mask = g.mask, h.range = g.range,
         \A flag \in Flags \ {"InScope", "ScopeAlways", "ScopeLocalAlways"} :
           flag \in h.flags <=> flag \in g.flags
  PROVE  InfoInv(h, i, cs, w, l, ver, dirt, waiv, al)
<1>1. FlagsSound(g) /\ Lifetime(g, i, cs, w, l)
  BY DEF InfoInv, Lifetime, Unused
<1>2. FlagsSound(h)
  BY <1>1 DEF FlagsSound, Flags
<1>3. \A phase : InPhase(g, phase) => InPhase(h, phase)
  BY DEF InPhase, Flags
<1>4. Lifetime(h, i, cs, w, l)
  BY <1>1, <1>2, <1>3, SamePhase
<1>5. Coming(h, i, cs, w, l, ver, dirt, waiv)
  BY DEF InfoInv, Coming
<1> QED BY <1>4, <1>5 DEF InfoInv

\* The scope of an info is reset before the scope query.
LEMMA LeaveScopeSound ==
  ASSUME NEW g, NEW i, NEW cs, NEW w, NEW l, NEW ver, NEW dirt, NEW waiv, NEW al,
         InfoInv(g, i, cs, w, l, ver, dirt, waiv, al)
  PROVE  InfoInv(LeaveScope(g), i, cs, w, l, ver, dirt, waiv, al)
<1>1. CASE g.range # "nonzero"
  BY <1>1 DEF LeaveScope
<1>2. CASE g.range = "nonzero"
  <2> DEFINE h == LeaveScope(g)
  <2>1. g \in GhostInfo /\ SkipCap \in Nat /\ g.skip \in 0 .. SkipCap
    BY GhostConstants DEF InfoInv, GhostInfo
  <2>2. Min({g.skip + 1, SkipCap}) \in 0 .. SkipCap
    <3>1. \E m \in {g.skip + 1, SkipCap} : \A n \in {g.skip + 1, SkipCap} : m =< n
      BY <2>1
    <3>2. /\ Min({g.skip + 1, SkipCap}) \in {g.skip + 1, SkipCap}
          /\ \A n \in {g.skip + 1, SkipCap} : Min({g.skip + 1, SkipCap}) =< n
      BY <3>1 DEF Min
    <3> QED BY <2>1, <3>2
  <2> DEFINE skip == Min({g.skip + 1, SkipCap})
             flags == IF g.flags \cap {"ScopeAlways", "ScopeLocalAlways"} # {}
                        THEN g.flags ELSE g.flags \ {"InScope"}
  <2>3. h = [g EXCEPT !.skip = skip, !.flags = flags]
    BY <1>2 DEF LeaveScope
  <2>4. flags \in SUBSET Flags
    BY <2>1 DEF GhostInfo
  <2>5. \A flag \in Flags \ {"InScope", "ScopeAlways", "ScopeLocalAlways"} :
           flag \in flags <=> flag \in g.flags
    OBVIOUS
  <2> HIDE DEF skip, flags, h
  <2>6. /\ h \in GhostInfo /\ h.obj = g.obj /\ h.mask = g.mask /\ h.range = g.range
        /\ h.flags = flags
    BY <2>1, <2>2, <2>3, <2>4 DEF GhostInfo, skip
  <2>7. InfoInv(h, i, cs, w, l, ver, dirt, waiv, al)
    BY <1>2, <2>5, <2>6, ScopeFlagsSound
  <2> QED BY <2>7 DEF h
<1> QED BY <1>1, <1>2

\* Those out of scope are detached; what was never ghosted is freed, and then
\* no ghost to be killed is still to be ghosted.
LEMMA DropOutOfScopeSound ==
  ASSUME NEW g, NEW i, NEW cs, NEW w, NEW l, NEW ver, NEW dirt, NEW waiv, NEW al,
         InfoInv(g, i, cs, w, l, ver, dirt, waiv, al)
  PROVE  /\ InfoInv(DropOutOfScope(g), i, cs, w, l, ver, dirt, waiv, al)
         /\ LET h == DropOutOfScope(g)
            IN  ~(h.range = "nonzero" /\ "KillGhost" \in h.flags /\ "NotYetGhosted" \in h.flags)
<1> DEFINE d == IF g.range = "nonzero" /\ "InScope" \notin g.flags THEN Detach(g) ELSE g
           h == DropOutOfScope(g)
<1>1. InfoInv(d, i, cs, w, l, ver, dirt, waiv, al)
  BY DetachSound
<1>2. h = IF d.range = "nonzero" /\ "KillGhost" \in d.flags /\ "NotYetGhosted" \in d.flags
            THEN Free(d) ELSE d
  BY DEF DropOutOfScope
<1> HIDE DEF d, h
<1>3. CASE ~(d.range = "nonzero" /\ "KillGhost" \in d.flags /\ "NotYetGhosted" \in d.flags)
  <2>1. h = d
    BY <1>2, <1>3
  <2> QED BY <1>1, <1>3, <2>1 DEF h
<1>4. CASE d.range = "nonzero" /\ "KillGhost" \in d.flags /\ "NotYetGhosted" \in d.flags
  <2>1. d \in GhostInfo /\ h = [d EXCEPT !.mask = {}, !.range = "free"]
    BY <1>1, <1>2, <1>4 DEF InfoInv, Free
  <2>2. /\ h \in GhostInfo /\ h.mask = {} /\ h.range = "free" /\ h.obj = d.obj
        /\ h.flags = d.flags
    BY <2>1 DEF GhostInfo
  <2>3. Unsent(d, i, cs, l) /\ d.obj = None
    BY <1>1, <1>4 DEF InfoInv, Lifetime, Unused, FlagsSound, Creating, Created, Dying, InPhase
  <2>4. Unused(h, i, cs, l)
    BY <2>2, <2>3 DEF Unused, Unsent
  <2>5. InfoInv(h, i, cs, w, l, ver, dirt, waiv, al)
    BY <2>2, <2>3, <2>4 DEF InfoInv, Lifetime, Coming
  <2> QED BY <2>2, <2>5 DEF h
<1> QED BY <1>3, <1>4

-----------------------------------------------------------------------------
(* Changes of the window.                                                  *)

\* What a packet's ghostList is, and where the packets with a ref are.
LEMMA Refs ==
  ASSUME NEW cs, NEW w, WindowInv(cs, w), NEW i
  PROVE  /\ Len(cs) \in Nat /\ DOMAIN cs = 1 .. Len(cs) /\ DOMAIN w = 1 .. Len(cs)
         /\ Holders(cs, i) \subseteq 1 .. Len(cs)
         /\ \A k \in Holders(cs, i) : cs[k][i] \in GhostRef
         /\ \A k \in 1 .. Len(cs) : w[k] \in Net!Fates
         /\ \A k \in 1 .. Len(cs) : DOMAIN cs[k] \subseteq Indices
<1>1. cs \in Seq(GhostLists) /\ w \in Seq(Net!Fates) /\ Len(cs) = Len(w)
  BY DEF WindowInv
<1>2. Len(cs) \in Nat /\ DOMAIN cs = 1 .. Len(cs) /\ DOMAIN w = 1 .. Len(cs)
  BY <1>1, LenProperties
<1>3. \A k \in 1 .. Len(cs) : cs[k] \in GhostLists /\ w[k] \in Net!Fates
  BY <1>1, ElementOfSeq
<1>4. ASSUME NEW k \in 1 .. Len(cs)
      PROVE  DOMAIN cs[k] \subseteq Indices /\ \A j \in DOMAIN cs[k] : cs[k][j] \in GhostRef
  BY <1>3 DEF GhostLists
<1> QED BY <1>2, <1>3, <1>4 DEF Holders

\* An index the step does not speak of: its refs stay, and a packet may only
\* stop flying.
LEMMA SameRefs ==
  ASSUME NEW g, NEW i, NEW cs, NEW w, NEW l, NEW ver, NEW dirt, NEW waiv, NEW al,
         InfoInv(g, i, cs, w, l, ver, dirt, waiv, al), Grows(i, cs, w, l, ver),
         NEW cs2, NEW w2, Holders(cs2, i) = Holders(cs, i),
         \A k \in Holders(cs, i) :
           /\ cs2[k][i] = cs[k][i] /\ (w2[k] = "handled" <=> w[k] = "handled")
           /\ w2[k] = "flying" => w[k] = "flying"
  PROVE  InfoInv(g, i, cs2, w2, l, ver, dirt, waiv, al) /\ Grows(i, cs2, w2, l, ver)
<1>1. Unused(g, i, cs, l) => Unused(g, i, cs2, l)
  BY DEF Unused
<1>2. Unsent(g, i, cs, l) => Unsent(g, i, cs2, l)
  BY DEF Unsent
<1>3. Creating(g, i, cs, w, l) => Creating(g, i, cs2, w2, l)
  BY DEF Creating
<1>4. Created(g, i, cs, l) => Created(g, i, cs2, l)
  BY DEF Created
<1>5. Dying(g, i, cs, w, l) => Dying(g, i, cs2, w2, l)
  BY DEF Dying
<1>6. Coming(g, i, cs2, w2, l, ver, dirt, waiv)
  BY DEF InfoInv, Coming
<1>7. Grows(i, cs2, w2, l, ver)
  BY DEF Grows
<1> QED BY <1>1, <1>2, <1>3, <1>4, <1>5, <1>6, <1>7 DEF InfoInv, Lifetime

\* A packet with refs to the indices of f is sent.
With(s, e) == Append(s, e)

LEMMA Sending ==
  ASSUME NEW cs, NEW w, WindowInv(cs, w), NEW f \in GhostLists
  PROVE  LET cs2 == With(cs, f)  w2 == With(w, "flying")
         IN  /\ WindowInv(cs2, w2)
             /\ w2[Len(cs) + 1] = "flying" /\ cs2[Len(cs) + 1] = f
             /\ \A i : \A k \in Holders(cs, i) :
                  k < Len(cs) + 1 /\ w2[k] = w[k] /\ cs2[k] = cs[k]
             /\ \A i \in DOMAIN f : Holders(cs2, i) = Holders(cs, i) \cup {Len(cs) + 1}
             /\ \A i : i \notin DOMAIN f => Holders(cs2, i) = Holders(cs, i)
<1> DEFINE n == Len(cs)  cs2 == With(cs, f)  w2 == With(w, "flying")
<1>1. cs \in Seq(GhostLists) /\ w \in Seq(Net!Fates) /\ Len(cs) = Len(w) /\ FlyingLast(w)
  BY DEF WindowInv
<1>2. n \in Nat /\ DOMAIN cs = 1 .. n /\ DOMAIN w = 1 .. n
  BY <1>1, LenProperties
<1>3. "flying" \in Net!Fates
  BY DEF Net!Fates
<1>4. /\ cs2 \in Seq(GhostLists) /\ Len(cs2) = n + 1 /\ cs2[n + 1] = f
      /\ \A k \in 1 .. n : cs2[k] = cs[k]
  BY <1>1, AppendProperties DEF With
<1>5. /\ w2 \in Seq(Net!Fates) /\ Len(w2) = n + 1 /\ w2[n + 1] = "flying"
      /\ \A k \in 1 .. n : w2[k] = w[k]
  BY <1>1, <1>3, AppendProperties DEF With
<1>6. DOMAIN cs2 = 1 .. n + 1 /\ DOMAIN w2 = 1 .. n + 1
  BY <1>4, <1>5, LenProperties
<1> HIDE DEF n, cs2, w2
<1>7. FlyingLast(w2)
  BY <1>1, <1>2, <1>5, <1>6 DEF FlyingLast
<1>8. WindowInv(cs2, w2)
  BY <1>4, <1>5, <1>7 DEF WindowInv
<1>9. \A i : \A k \in Holders(cs, i) : k < n + 1 /\ w2[k] = w[k] /\ cs2[k] = cs[k]
  BY <1>2, <1>4, <1>5 DEF Holders
<1>10. ASSUME NEW i
       PROVE  Holders(cs2, i) = Holders(cs, i) \cup (IF i \in DOMAIN f THEN {n + 1} ELSE {})
  <2>1. \A k : k \in Holders(cs2, i) <=> k \in 1 .. n + 1 /\ i \in DOMAIN cs2[k]
    BY <1>6 DEF Holders
  <2>2. \A k : k \in Holders(cs, i) <=> k \in 1 .. n /\ i \in DOMAIN cs[k]
    BY <1>2 DEF Holders
  <2>3. \A k : k \in 1 .. n + 1 <=> k \in 1 .. n \/ k = n + 1
    BY <1>2
  <2>4. n + 1 \notin 1 .. n
    BY <1>2
  <2> QED BY <2>1, <2>2, <2>3, <2>4, <1>4
<1> QED BY <1>4, <1>5, <1>8, <1>9, <1>10 DEF n, cs2, w2

\* The k-th packet is handled.
Handled(w, k) == [j \in DOMAIN w |-> CASE j = k -> "handled"
                                       [] j < k /\ w[j] = "flying" -> "lost"
                                       [] OTHER -> w[j]]

LEMMA Handling ==
  ASSUME NEW cs, NEW w, WindowInv(cs, w), NEW k \in DOMAIN w, w[k] = "flying"
  PROVE  /\ WindowInv(cs, Handled(w, k))
         /\ Handled(w, k)[k] = "handled"
         /\ \A j \in DOMAIN w : j # k =>
              /\ (Handled(w, k)[j] = "handled") <=> (w[j] = "handled")
              /\ (Handled(w, k)[j] = "flying") <=> (w[j] = "flying" /\ j > k)
              /\ (w[j] = "handled") => j < k
         /\ \A j \in DOMAIN w : j > k => w[j] = "flying"
<1> DEFINE w2 == Handled(w, k)
<1>1. /\ Len(w) \in Nat /\ DOMAIN w = 1 .. Len(w)
      /\ \A j \in DOMAIN w : w[j] \in {"flying", "handled", "lost"}
  BY Refs DEF WindowInv, Net!Fates
<1>2. /\ DOMAIN w2 = DOMAIN w
      /\ w2[k] = "handled"
      /\ \A j \in DOMAIN w : j # k =>
           w2[j] = IF j < k /\ w[j] = "flying" THEN "lost" ELSE w[j]
  <2>1. DOMAIN w2 = DOMAIN w
    BY DEF Handled
  <2>2. \A j \in DOMAIN w : w2[j] = CASE j = k -> "handled"
                                    [] j < k /\ w[j] = "flying" -> "lost"
                                    [] OTHER -> w[j]
    BY DEF Handled
  <2> HIDE DEF w2
  <2>3. w2[k] = "handled"
    <3>1. CASE k < k /\ w[k] = "flying"
      BY <1>1, <3>1
    <3>2. CASE ~(k < k /\ w[k] = "flying")
      BY <2>2, <3>2
    <3> QED BY <3>1, <3>2
  <2>4. ASSUME NEW j \in DOMAIN w, j # k
        PROVE  w2[j] = IF j < k /\ w[j] = "flying" THEN "lost" ELSE w[j]
    BY <2>2, <2>4
  <2> QED BY <2>1, <2>3, <2>4 DEF w2
<1>3. FlyingLast(w)
  BY DEF WindowInv
<1> HIDE DEF w2
<1>4. \A j \in DOMAIN w : j > k => w[j] = "flying"
  BY <1>1, <1>3 DEF FlyingLast
<1>5. \A j \in DOMAIN w : j # k =>
              /\ (w2[j] = "handled") <=> (w[j] = "handled")
              /\ (w2[j] = "flying") <=> (w[j] = "flying" /\ j > k)
              /\ (w[j] = "handled") => j < k
  <2> SUFFICES ASSUME NEW j \in DOMAIN w, j # k
               PROVE  /\ (w2[j] = "handled") <=> (w[j] = "handled")
                      /\ (w2[j] = "flying") <=> (w[j] = "flying" /\ j > k)
                      /\ (w[j] = "handled") => j < k
    OBVIOUS
  <2>1. j \in Nat /\ k \in Nat
    BY <1>1
  <2> QED BY <1>2, <1>4, <2>1
<1>6. FlyingLast(w2)
  <2> SUFFICES ASSUME NEW a \in DOMAIN w, NEW b \in DOMAIN w, a < b, w2[a] = "flying"
               PROVE  w2[b] = "flying"
    BY <1>2 DEF FlyingLast
  <2>1. a # k /\ a > k /\ a \in Nat /\ b \in Nat /\ k \in Nat
    BY <1>1, <1>2, <1>5
  <2> QED BY <1>4, <1>5, <2>1
<1>7. w2 \in Seq(Net!Fates) /\ Len(w2) = Len(w)
  <2>1. w2 = [j \in 1 .. Len(w) |-> w2[j]]
    BY <1>1, <1>2 DEF w2, Handled
  <2>2. \A j \in 1 .. Len(w) : w2[j] \in Net!Fates
    BY <1>1, <1>2 DEF Net!Fates
  <2>3. w2 \in [1 .. Len(w) -> Net!Fates]
    BY <2>1, <2>2
  <2>4. w2 \in Seq(Net!Fates)
    BY <1>1, <2>3, SeqDef
  <2> QED BY <1>1, <1>2, <2>4, LenProperties
<1> QED BY <1>2, <1>4, <1>5, <1>6, <1>7 DEF WindowInv, w2

\* The first packet is forgotten.
Rest(s) == Tail(s)

LEMMA RestWindow ==
  ASSUME NEW cs, NEW w, WindowInv(cs, w), w # <<>>
  PROVE  WindowInv(Rest(cs), Rest(w)) /\ 1 \in DOMAIN w
<1> DEFINE n == Len(cs)  cs2 == Rest(cs)  w2 == Rest(w)
<1>1. cs \in Seq(GhostLists) /\ w \in Seq(Net!Fates) /\ n = Len(w) /\ FlyingLast(w)
  BY DEF WindowInv
<1>2. n \in Nat \ {0} /\ DOMAIN cs = 1 .. n /\ DOMAIN w = 1 .. n /\ cs # <<>>
  BY <1>1, LenProperties, EmptySeq
<1>3. /\ cs2 \in Seq(GhostLists) /\ Len(cs2) = n - 1
      /\ \A k \in 1 .. n - 1 : cs2[k] = cs[k + 1]
  BY <1>1, <1>2, HeadTailProperties DEF Rest
<1>4. /\ w2 \in Seq(Net!Fates) /\ Len(w2) = n - 1
      /\ \A k \in 1 .. n - 1 : w2[k] = w[k + 1]
  BY <1>1, <1>2, HeadTailProperties DEF Rest
<1>5. DOMAIN cs2 = 1 .. n - 1 /\ DOMAIN w2 = 1 .. n - 1
  BY <1>3, <1>4, LenProperties
<1> HIDE DEF n, cs2, w2
<1>6. FlyingLast(w2)
  <2> SUFFICES ASSUME NEW a \in 1 .. n - 1, NEW b \in 1 .. n - 1, a < b, w2[a] = "flying"
               PROVE  w2[b] = "flying"
    BY <1>5 DEF FlyingLast
  <2>1. a + 1 \in DOMAIN w /\ b + 1 \in DOMAIN w /\ a + 1 < b + 1
    BY <1>2
  <2> QED BY <1>1, <1>4, <2>1 DEF FlyingLast
<1>7. WindowInv(cs2, w2)
  BY <1>3, <1>4, <1>6 DEF WindowInv
<1>8. 1 \in DOMAIN w
  BY <1>2
<1> QED BY <1>7, <1>8 DEF cs2, w2

LEMMA Forgetting ==
  ASSUME NEW cs, NEW w, WindowInv(cs, w), w # <<>>, NEW i
  PROVE  /\ \A k \in Holders(Rest(cs), i) :
              /\ k \in Nat \ {0} /\ k + 1 \in Holders(cs, i)
              /\ Rest(cs)[k] = cs[k + 1] /\ Rest(w)[k] = w[k + 1]
         /\ \A k \in Holders(cs, i) : k # 1 =>
              /\ k - 1 \in Holders(Rest(cs), i)
              /\ Rest(cs)[k - 1] = cs[k] /\ Rest(w)[k - 1] = w[k]
<1> DEFINE n == Len(cs)  cs2 == Rest(cs)  w2 == Rest(w)
<1>1. cs \in Seq(GhostLists) /\ w \in Seq(Net!Fates) /\ n = Len(w) /\ FlyingLast(w)
  BY DEF WindowInv
<1>2. n \in Nat \ {0} /\ DOMAIN cs = 1 .. n /\ DOMAIN w = 1 .. n /\ cs # <<>>
  BY <1>1, LenProperties, EmptySeq
<1>3. /\ cs2 \in Seq(GhostLists) /\ Len(cs2) = n - 1
      /\ \A k \in 1 .. n - 1 : cs2[k] = cs[k + 1]
  BY <1>1, <1>2, HeadTailProperties DEF Rest
<1>4. /\ w2 \in Seq(Net!Fates) /\ Len(w2) = n - 1
      /\ \A k \in 1 .. n - 1 : w2[k] = w[k + 1]
  BY <1>1, <1>2, HeadTailProperties DEF Rest
<1>5. DOMAIN cs2 = 1 .. n - 1 /\ DOMAIN w2 = 1 .. n - 1
  BY <1>3, <1>4, LenProperties
<1> HIDE DEF n, cs2, w2
<1>6. ASSUME NEW k \in Holders(cs2, i)
      PROVE  /\ k \in Nat \ {0} /\ k + 1 \in Holders(cs, i)
             /\ cs2[k] = cs[k + 1] /\ w2[k] = w[k + 1]
  <2>1. k \in 1 .. n - 1 /\ i \in DOMAIN cs2[k]
    BY <1>5 DEF Holders
  <2>2. k \in Nat \ {0} /\ k + 1 \in 1 .. n
    BY <1>2, <2>1
  <2> QED BY <1>2, <1>3, <1>4, <2>1, <2>2 DEF Holders
<1>7. ASSUME NEW k \in Holders(cs, i), k # 1
      PROVE  /\ k - 1 \in Holders(cs2, i)
             /\ cs2[k - 1] = cs[k] /\ w2[k - 1] = w[k]
  <2>1. k \in 1 .. n /\ i \in DOMAIN cs[k]
    BY <1>2 DEF Holders
  <2>2. k - 1 \in 1 .. n - 1 /\ (k - 1) + 1 = k
    BY <1>2, <1>7, <2>1
  <2>3. cs2[k - 1] = cs[k] /\ w2[k - 1] = w[k]
    BY <1>3, <1>4, <2>2
  <2> QED BY <1>5, <2>1, <2>2, <2>3 DEF Holders
<1> QED BY <1>6, <1>7 DEF cs2, w2

-----------------------------------------------------------------------------
(* The ghost a packet carries is sent, read, received or dropped.          *)

\* What a ref that is still flying will meet at the client.
LEMMA FlyingRef ==
  ASSUME NEW cs, NEW w, WindowInv(cs, w), NEW i, NEW g, NEW l \in {None} \cup LocalGhost,
         Lifetime(g, i, cs, w, l), NEW k \in Holders(cs, i), w[k] = "flying"
  PROVE  /\ cs[k][i].kind = "ghosting" <=> l = None
         /\ l = None => \A j \in Holders(cs, i) : j = k
         /\ cs[k][i].kind # "killing" => cs[k][i].obj \in Objects
         /\ cs[k][i].kind = "update" => l.obj = cs[k][i].obj
         /\ cs[k][i].kind = "killing" =>
              "KillingGhost" \in g.flags /\ FlagsSound(g) /\ \A j \in Holders(cs, i) : j =< k
<1>1. /\ k \in DOMAIN w /\ cs[k][i] \in GhostRef
      /\ \A j \in Holders(cs, i) : j \in Nat /\ j \in DOMAIN w
  BY Refs
<1>2. Lifetime(g, i, cs, w, l) /\ ~Unused(g, i, cs, l) /\ ~Unsent(g, i, cs, l)
  BY DEF Unused, Unsent
<1>3. CASE Creating(g, i, cs, w, l)
  BY <1>1, <1>3 DEF Creating
<1>4. CASE Created(g, i, cs, l)
  <2>1. l # None /\ cs[k][i].kind = "update" /\ cs[k][i].obj = l.obj
    BY <1>4 DEF Created
  <2>2. l \in LocalGhost
    BY <2>1
  <2> QED BY <2>1, <2>2 DEF LocalGhost
<1>5. CASE Dying(g, i, cs, w, l)
  <2>1. PICK n \in Holders(cs, i) :
          /\ cs[n][i].kind = "killing" /\ cs[n][i].mask # {}
          /\ (w[n] = "handled") <=> (l = None)
          /\ \A j \in Holders(cs, i) \ {n} :
               /\ j < n /\ cs[j][i].kind = "update" /\ cs[j][i].obj \in Objects
               /\ l # None => cs[j][i].obj = l.obj
    BY <1>5 DEF Dying
  <2>2. w[n] = "flying" /\ l # None
    <3>1. k = n \/ k < n
      BY <2>1
    <3>2. w[n] = "flying"
      BY <1>1, <3>1 DEF WindowInv, FlyingLast
    <3> QED BY <2>1, <3>2
  <2>3. "KillingGhost" \in g.flags
    BY <1>5 DEF Dying, InPhase
  <2>4. k = n => \A j \in Holders(cs, i) : j =< k
    BY <1>1, <2>1
  <2>5. FlagsSound(g)
    BY <1>2 DEF Lifetime
  <2> QED BY <2>1, <2>2, <2>3, <2>4, <2>5
<1> QED BY <1>2, <1>3, <1>4, <1>5 DEF Lifetime

\* RefFor in a state whose versions are ver.
RefOf(g, retained, ver) ==
  IF "KillGhost" \in g.flags
    THEN [kind |-> "killing", mask |-> g.mask, obj |-> None, vers |-> [b \in Bits |-> 0]]
    ELSE [kind |-> IF "NotYetGhosted" \in g.flags THEN "ghosting" ELSE "update",
          mask |-> g.mask \ retained, obj |-> g.obj, vers |-> ver[g.obj]]

\* A ghost that may be written has an object, unless it is to be killed, and
\* lives, or is not known to the client.
LEMMA WritableGhost ==
  ASSUME NEW g, NEW i, NEW cs, NEW w, NEW l, Lifetime(g, i, cs, w, l), g \in GhostInfo,
         Writable(g), ~("KillGhost" \in g.flags /\ "NotYetGhosted" \in g.flags)
  PROVE  /\ FlagsSound(g) /\ g.range = "nonzero"
         /\ "KillingGhost" \notin g.flags /\ "Ghosting" \notin g.flags
         /\ IF "KillGhost" \in g.flags
              THEN g.obj = None /\ g.mask # {} /\ Created(g, i, cs, l)
              ELSE /\ g.obj \in Objects
                   /\ IF "NotYetGhosted" \in g.flags
                        THEN Unsent(g, i, cs, l) ELSE Created(g, i, cs, l)
<1>1. g.range = "nonzero" /\ "KillingGhost" \notin g.flags /\ "Ghosting" \notin g.flags
  BY DEF Writable
<1>2. FlagsSound(g) /\ ~Creating(g, i, cs, w, l) /\ ~Dying(g, i, cs, w, l)
  BY <1>1 DEF Lifetime, Unused, Creating, Dying, InPhase
<1>3. IF "NotYetGhosted" \in g.flags THEN Unsent(g, i, cs, l) ELSE Created(g, i, cs, l)
  BY <1>2 DEF Lifetime, Unused, FlagsSound, Unsent, Created, InPhase
<1>4. IF "KillGhost" \in g.flags THEN g.obj = None /\ g.mask # {} ELSE g.obj \in Objects
  BY <1>1, <1>2 DEF FlagsSound, GhostInfo
<1> QED BY <1>1, <1>2, <1>3, <1>4

LEMMA RefOfType ==
  ASSUME NEW g, NEW i, NEW cs, NEW w, NEW l, Lifetime(g, i, cs, w, l), g \in GhostInfo,
         Writable(g), ~("KillGhost" \in g.flags /\ "NotYetGhosted" \in g.flags),
         NEW retained, NEW ver \in [Objects -> [Bits -> Nat]]
  PROVE  RefOf(g, retained, ver) \in GhostRef
<1>1. CASE "KillGhost" \in g.flags
  BY <1>1 DEF RefOf, GhostRef, GhostInfo
<1>2. CASE "KillGhost" \notin g.flags
  <2>1. g.obj \in Objects /\ g.mask \in SUBSET Bits
    BY <1>2, WritableGhost DEF GhostInfo
  <2>2. ver[g.obj] \in [Bits -> Nat] /\ g.mask \ retained \in SUBSET Bits
    BY <2>1
  <2> QED BY <1>2, <2>1, <2>2 DEF RefOf, GhostRef
<1> QED BY <1>1, <1>2

\* An update, or the killing, of ghost i is in the n-th packet, just sent.
SentRef(g, retained, ver, i, cs, w, cs2, w2, n) ==
  /\ Writable(g) /\ ~("KillGhost" \in g.flags /\ "NotYetGhosted" \in g.flags)
  /\ retained \subseteq g.mask
  /\ n \in Nat /\ w2[n] = "flying" /\ cs2[n][i] = RefOf(g, retained, ver)
  /\ Holders(cs2, i) = Holders(cs, i) \cup {n}
  /\ \A k \in Holders(cs, i) : k < n /\ w2[k] = w[k] /\ cs2[k] = cs[k]

LEMMA SendSound ==
  ASSUME NEW g, NEW i, NEW cs, NEW w, NEW l \in {None} \cup LocalGhost,
         NEW ver, NEW dirt, NEW waiv, NEW al, TablesInv(ver, dirt, waiv, al), WindowInv(cs, w),
         InfoInv(g, i, cs, w, l, ver, dirt, waiv, al), Grows(i, cs, w, l, ver),
         NEW retained, NEW cs2, NEW w2, NEW n,
         SentRef(g, retained, ver, i, cs, w, cs2, w2, n)
  PROVE  /\ InfoInv(Written(g, retained), i, cs2, w2, l, ver, dirt, waiv, al)
         /\ Grows(i, cs2, w2, l, ver)
<1> DEFINE h == Written(g, retained)
           ref == RefOf(g, retained, ver)
<1> USE DEF SentRef
<1>1. /\ g \in GhostInfo /\ Lifetime(g, i, cs, w, l)
      /\ Coming(g, i, cs, w, l, ver, dirt, waiv) /\ (g.obj # None => g.obj \in al)
      /\ g.flags \in SUBSET Flags /\ g.mask \in SUBSET Bits /\ retained \in SUBSET Bits
      /\ 0 \in 0 .. SkipCap
      /\ ver \in [Objects -> [Bits -> Nat]]
  BY GhostConstants DEF InfoInv, GhostInfo, TablesInv
<1>2. /\ FlagsSound(g) /\ g.range = "nonzero"
      /\ "KillingGhost" \notin g.flags /\ "Ghosting" \notin g.flags
      /\ IF "KillGhost" \in g.flags
           THEN g.obj = None /\ g.mask # {} /\ Created(g, i, cs, l)
           ELSE /\ g.obj \in Objects
                /\ IF "NotYetGhosted" \in g.flags
                     THEN Unsent(g, i, cs, l) ELSE Created(g, i, cs, l)
  BY <1>1, WritableGhost
<1>3. ~(n < n) /\ \A k \in Holders(cs, i) : k \in Nat /\ k # n
  BY Refs
<1>4. CASE "KillGhost" \in g.flags
  <2>1. /\ h = [g EXCEPT !.flags = (g.flags \ {"KillGhost"}) \cup {"KillingGhost"},
                         !.mask = {}, !.range = "zero", !.skip = 0]
        /\ ref.kind = "killing" /\ ref.mask = g.mask
    BY <1>4 DEF Written, RefOf
  <2> HIDE DEF h, ref
  <2>2. (g.flags \ {"KillGhost"}) \cup {"KillingGhost"} \in SUBSET Flags
    BY <1>1 DEF Flags
  <2>3. /\ h \in GhostInfo /\ h.obj = None /\ h.mask = {} /\ h.range = "zero"
        /\ h.flags = (g.flags \ {"KillGhost"}) \cup {"KillingGhost"}
    BY <1>1, <1>2, <1>4, <2>1, <2>2 DEF GhostInfo
  <2>4. FlagsSound(h) /\ InPhase(h, "KillingGhost")
    BY <1>2, <2>3, <1>4 DEF FlagsSound, InPhase
  <2>5. /\ l # None /\ l \in LocalGhost
        /\ \A k \in Holders(cs, i) : cs[k][i].kind = "update" /\ cs[k][i].obj = l.obj
    BY <1>2, <1>4 DEF Created
  <2>6. Dying(h, i, cs2, w2, l)
    <3>1. n \in Holders(cs2, i) /\ Holders(cs2, i) \ {n} \subseteq Holders(cs, i)
      OBVIOUS
    <3>2. cs2[n][i].kind = "killing" /\ cs2[n][i].mask # {} /\ w2[n] # "handled"
      BY <1>2, <1>4, <2>1 DEF ref
    <3>3. l.obj \in Objects
      BY <2>5 DEF LocalGhost
    <3> QED BY <2>4, <2>5, <3>1, <3>2, <3>3 DEF Dying
  <2>7. InfoInv(h, i, cs2, w2, l, ver, dirt, waiv, al)
    BY <2>3, <2>4, <2>6 DEF InfoInv, Lifetime, Coming
  <2>8. Grows(i, cs2, w2, l, ver)
    BY <1>3, <2>1 DEF Grows, ref
  <2> QED BY <2>7, <2>8 DEF h
<1>5. CASE "KillGhost" \notin g.flags
  <2> DEFINE flags == IF "NotYetGhosted" \in g.flags
                        THEN (g.flags \ {"NotYetGhosted"}) \cup {"Ghosting"} ELSE g.flags
             range == IF retained = {} THEN "zero" ELSE g.range
  <2>1. /\ h = [g EXCEPT !.flags = flags, !.mask = retained, !.range = range, !.skip = 0]
        /\ ref.kind = (IF "NotYetGhosted" \in g.flags THEN "ghosting" ELSE "update")
        /\ ref.mask = g.mask \ retained /\ ref.obj = g.obj /\ ref.vers = ver[g.obj]
    BY <1>5 DEF Written, RefOf
  <2>2. flags \in SUBSET Flags /\ range \in {"zero", "nonzero"}
    BY <1>1, <1>2 DEF Flags
  <2> HIDE DEF h, ref, flags, range
  <2>3. /\ h \in GhostInfo /\ h.obj = g.obj /\ h.mask = retained /\ h.range = range
        /\ h.flags = flags
    BY <1>1, <2>1, <2>2 DEF GhostInfo
  <2>4. /\ "KillGhost" \notin flags /\ "KillingGhost" \notin flags /\ "NotYetGhosted" \notin flags
        /\ "Ghosting" \in flags <=> "NotYetGhosted" \in g.flags
    BY <1>2, <1>5 DEF flags
  <2>5. FlagsSound(h) /\ (OneBitMasks => (h.range = "nonzero" <=> h.mask # {}))
    BY <1>2, <1>5, <2>2, <2>3, <2>4 DEF FlagsSound, range
  <2>6. cs2[n][i] = ref /\ n \in Holders(cs2, i)
    BY DEF ref
  <2>7. g.obj \in Objects /\ ver[g.obj] \in [Bits -> Nat]
    BY <1>1, <1>2, <1>5
  <2>8. \/ Creating(h, i, cs2, w2, l) /\ l = None /\ Holders(cs, i) = {}
        \/ Created(h, i, cs2, l) /\ Created(g, i, cs, l) /\ g.obj = l.obj
    <3>1. CASE "NotYetGhosted" \in g.flags
      <4>1. l = None /\ Holders(cs2, i) = {n} /\ Holders(cs, i) = {}
        BY <1>2, <1>5, <3>1 DEF Unsent
      <4>2. InPhase(h, "Ghosting")
        BY <2>3, <2>4, <3>1 DEF InPhase
      <4> QED BY <2>1, <2>3, <2>6, <2>7, <3>1, <4>1, <4>2 DEF Creating
    <3>2. CASE "NotYetGhosted" \notin g.flags
      <4>1. /\ l # None /\ g.obj = l.obj
            /\ \A k \in Holders(cs, i) : cs[k][i].kind = "update" /\ cs[k][i].obj = l.obj
        BY <1>2, <1>5, <2>7, <3>2, GhostConstants DEF Created
      <4>2. InPhase(h, "none of them")
        BY <2>3, <2>4, <3>2 DEF InPhase
      <4>3. Created(h, i, cs2, l)
        BY <2>1, <2>3, <2>6, <3>2, <4>1, <4>2 DEF Created
      <4> QED BY <1>2, <1>5, <3>2, <4>1, <4>3
    <3> QED BY <3>1, <3>2
  <2>9. Coming(h, i, cs2, w2, l, ver, dirt, waiv)
    <3>1. \A b \in g.mask : b \in h.mask \/ (b \in ref.mask /\ ref.vers[b] = ver[g.obj][b])
      BY <2>1, <2>3
    <3>2. w2[n] # "handled"
      OBVIOUS
    <3>3. \A k \in Holders(cs, i) : k \in Holders(cs2, i) /\ cs2[k] = cs[k] /\ w2[k] = w[k]
      OBVIOUS
    <3>4. ASSUME NEW b \in Bits \ waiv[g.obj], g.obj # None
          PROVE  \/ l # None /\ l.vers[b] = ver[g.obj][b]
                 \/ b \in dirt[g.obj] \cup h.mask
                 \/ \E k \in Holders(cs2, i) : /\ w2[k] # "handled" /\ b \in cs2[k][i].mask
                                               /\ cs2[k][i].vers[b] = ver[g.obj][b]
      <4>1. CASE b \in g.mask
        BY <2>6, <3>1, <3>2, <4>1
      <4>2. CASE b \notin g.mask
        BY <1>1, <3>3, <3>4, <4>2 DEF Coming
      <4> QED BY <4>1, <4>2
    <3> QED BY <2>3, <3>4 DEF Coming
  <2>10. Grows(i, cs2, w2, l, ver)
    <3>1. l # None => \A b \in Bits : l.vers[b] =< ver[l.obj][b]
      BY DEF Grows
    <3>2. \A b \in Bits : ver[g.obj][b] =< ver[g.obj][b]
      BY <2>7
    <3>3. /\ \A b \in Bits : ref.vers[b] =< ver[ref.obj][b]
          /\ l # None => \A b \in Bits : l.vers[b] =< ref.vers[b]
          /\ \A j \in Holders(cs, i) : \A b \in Bits : cs[j][i].vers[b] =< ref.vers[b]
      <4>1. \A j \in Holders(cs, i) : cs[j][i].kind = "update" /\ cs[j][i].obj = g.obj
        BY <2>8 DEF Created
      <4>2. \A j \in Holders(cs, i) : \A b \in Bits : cs[j][i].vers[b] =< ver[g.obj][b]
        BY <4>1 DEF Grows
      <4>3. l # None => l.obj = g.obj
        BY <2>8
      <4> QED BY <2>1, <3>1, <3>2, <4>2, <4>3
    <3>4. ASSUME NEW k \in Holders(cs2, i), cs2[k][i].kind # "killing", NEW b \in Bits
          PROVE  /\ cs2[k][i].vers[b] =< ver[cs2[k][i].obj][b]
                 /\ w2[k] = "flying" /\ l # None => l.vers[b] =< cs2[k][i].vers[b]
                 /\ w2[k] = "handled" /\ l # None /\ b \in cs2[k][i].mask =>
                      cs2[k][i].vers[b] =< l.vers[b]
                 /\ \A j \in Holders(cs2, i) : j < k /\ cs2[j][i].kind # "killing" =>
                      cs2[j][i].vers[b] =< cs2[k][i].vers[b]
      <4>1. CASE k = n
        BY <1>3, <2>6, <3>3, <4>1
      <4>2. CASE k # n
        <5>1. k \in Holders(cs, i) /\ k < n /\ ~(n < k) /\ w2[k] = w[k] /\ cs2[k] = cs[k]
          BY <1>3, <4>2
        <5> QED BY <3>4, <5>1 DEF Grows
      <4> QED BY <4>1, <4>2
    <3> QED BY <3>1, <3>4 DEF Grows
  <2>11. InfoInv(h, i, cs2, w2, l, ver, dirt, waiv, al)
    BY <1>1, <2>3, <2>5, <2>8, <2>9 DEF InfoInv, Lifetime
  <2> QED BY <2>10, <2>11 DEF h
<1> QED BY <1>4, <1>5

\* The client reads the ghost in the k-th packet.
LEMMA ReadRefType ==
  ASSUME NEW l \in {None} \cup LocalGhost, NEW ref \in GhostRef,
         ref.kind # "killing" => ref.obj \in Objects
  PROVE  /\ ReadRef(l, ref) \in {None} \cup LocalGhost
         /\ ReadRef(l, ref) = None <=> ref.kind = "killing"
         /\ ref.kind # "killing" =>
              /\ ReadRef(l, ref).obj = IF l = None THEN ref.obj ELSE l.obj
              /\ \A b \in Bits : ReadRef(l, ref).vers[b] =
                   IF b \in ref.mask THEN ref.vers[b] ELSE IF l = None THEN -1 ELSE l.vers[b]
<1> DEFINE l2 == ReadRef(l, ref)
           old == IF l = None THEN [b \in Bits |-> NoVersion] ELSE l.vers
           obj == IF l = None THEN ref.obj ELSE l.obj
<1>1. CASE ref.kind = "killing"
  BY <1>1 DEF ReadRef
<1>2. CASE ref.kind # "killing"
  <2>1. old \in [Bits -> Nat \cup {NoVersion}] /\ ref.vers \in [Bits -> Nat] /\ obj \in Objects
    BY <1>2 DEF LocalGhost, GhostRef
  <2>2. l2 = [obj |-> obj, vers |-> Unpack(old, ref)]
    BY <1>2 DEF ReadRef, LocalGhost
  <2>3. \A b \in Bits : old[b] = IF l = None THEN -1 ELSE l.vers[b]
    BY DEF NoVersion
  <2> HIDE DEF l2, old, obj
  <2>4. /\ Unpack(old, ref) \in [Bits -> Nat \cup {NoVersion}]
        /\ \A b \in Bits : Unpack(old, ref)[b] = IF b \in ref.mask THEN ref.vers[b] ELSE old[b]
    BY <2>1 DEF Unpack
  <2>5. l2 \in LocalGhost /\ l2 # None
    BY <2>1, <2>2, <2>4, NoneIsNoGhost DEF LocalGhost
  <2> QED BY <1>2, <2>2, <2>3, <2>4, <2>5 DEF l2, obj
<1> QED BY <1>1, <1>2

LEMMA HandleSound ==
  ASSUME NEW g, NEW i, NEW cs, NEW w, NEW l \in {None} \cup LocalGhost,
         NEW ver, NEW dirt, NEW waiv, NEW al, TablesInv(ver, dirt, waiv, al), WindowInv(cs, w),
         InfoInv(g, i, cs, w, l, ver, dirt, waiv, al), Grows(i, cs, w, l, ver),
         NEW k \in Holders(cs, i), w[k] = "flying"
  PROVE  LET l2 == ReadRef(l, cs[k][i])
         IN  /\ l2 \in {None} \cup LocalGhost
             /\ InfoInv(g, i, cs, Handled(w, k), l2, ver, dirt, waiv, al)
             /\ Grows(i, cs, Handled(w, k), l2, ver)
<1> DEFINE ref == cs[k][i]  l2 == ReadRef(l, ref)  w2 == Handled(w, k)
<1>1. /\ k \in DOMAIN w /\ k \in Nat /\ ref \in GhostRef
      /\ \A j \in Holders(cs, i) : j \in DOMAIN w /\ j \in Nat /\ cs[j][i] \in GhostRef
  BY Refs
<1>2. /\ w2[k] = "handled"
      /\ \A j \in Holders(cs, i) : j # k =>
           /\ (w2[j] = "handled") <=> (w[j] = "handled")
           /\ (w2[j] = "flying") <=> (w[j] = "flying" /\ j > k)
           /\ (w[j] = "handled") => j < k
  BY <1>1, Handling
<1>3. /\ g \in GhostInfo /\ Lifetime(g, i, cs, w, l)
      /\ Coming(g, i, cs, w, l, ver, dirt, waiv)
      /\ ver \in [Objects -> [Bits -> Nat]]
  BY DEF InfoInv, TablesInv
<1>4. /\ ref.kind = "ghosting" <=> l = None
      /\ l = None => \A j \in Holders(cs, i) : j = k
      /\ ref.kind # "killing" => ref.obj \in Objects
      /\ ref.kind = "update" => l.obj = ref.obj
      /\ ref.kind = "killing" =>
           "KillingGhost" \in g.flags /\ FlagsSound(g) /\ \A j \in Holders(cs, i) : j =< k
  BY <1>3, FlyingRef
<1>5. /\ l2 \in {None} \cup LocalGhost
      /\ l2 = None <=> ref.kind = "killing"
      /\ ref.kind # "killing" =>
           /\ l2.obj = ref.obj /\ (l # None => l2.obj = l.obj)
           /\ \A b \in Bits : l2.vers[b] =
                IF b \in ref.mask THEN ref.vers[b] ELSE IF l = None THEN -1 ELSE l.vers[b]
  <2>1. ref.kind \in {"update", "ghosting", "killing"}
    BY <1>1 DEF GhostRef
  <2> QED BY <1>1, <1>4, <2>1, ReadRefType
<1>6. /\ \A b \in Bits : ref.vers[b] \in Nat
      /\ ref.kind # "killing" => \A b \in Bits : ver[ref.obj][b] \in Nat
      /\ l # None => \A b \in Bits : l.vers[b] \in Int /\ ver[l.obj][b] \in Nat
      /\ \A j \in Holders(cs, i) : \A b \in Bits : cs[j][i].vers[b] \in Nat
  BY <1>1, <1>3, <1>4 DEF GhostRef, LocalGhost, NoVersion
<1> HIDE DEF ref, l2, w2
<1>7. Lifetime(g, i, cs, w2, l2)
  <2>1. ~Unused(g, i, cs, l) /\ ~Unsent(g, i, cs, l)
    BY DEF Unused, Unsent
  <2>2. CASE Creating(g, i, cs, w, l)
    <3>1. l = None /\ ref.kind = "ghosting" /\ \A j \in Holders(cs, i) : j = k
      <4>1. l = None
        BY <2>2 DEF Creating
      <4> QED BY <1>4, <4>1
    <3>2. Creating(g, i, cs, w2, l2)
      BY <1>2, <1>4, <1>5, <2>2, <3>1 DEF Creating, ref
    <3> QED BY <1>3, <2>2, <3>2 DEF Lifetime, Creating, Unused, InPhase
  <2>3. CASE Created(g, i, cs, l)
    <3>1. l # None /\ ref.kind = "update"
      BY <2>3 DEF Created, ref
    <3>2. Created(g, i, cs, l2)
      BY <1>4, <1>5, <2>3, <3>1 DEF Created
    <3> QED BY <1>3, <2>1, <3>2 DEF Lifetime
  <2>4. CASE Dying(g, i, cs, w, l)
    <3>1. PICK n \in Holders(cs, i) :
            /\ cs[n][i].kind = "killing" /\ cs[n][i].mask # {}
            /\ (w[n] = "handled") <=> (l = None)
            /\ \A j \in Holders(cs, i) \ {n} :
                 /\ j < n /\ cs[j][i].kind = "update" /\ cs[j][i].obj \in Objects
                 /\ l # None => cs[j][i].obj = l.obj
      BY <2>4 DEF Dying
    <3>2. l # None
      <4>1. l = None => k = n
        BY <1>4, <3>1
      <4> QED BY <3>1, <4>1
    <3>3. /\ (w2[n] = "handled") <=> (l2 = None)
          /\ l2 # None => l2.obj = l.obj
      <4>1. CASE k = n
        BY <1>2, <1>5, <3>1, <4>1 DEF ref
      <4>2. CASE k # n
        BY <1>2, <1>5, <3>1, <3>2, <4>2 DEF ref
      <4> QED BY <4>1, <4>2
    <3>4. Dying(g, i, cs, w2, l2)
      BY <2>4, <3>1, <3>2, <3>3 DEF Dying
    <3> QED BY <1>3, <2>1, <3>4 DEF Lifetime
  <2> QED BY <1>3, <2>1, <2>2, <2>3, <2>4 DEF Lifetime
<1>8. Coming(g, i, cs, w2, l2, ver, dirt, waiv)
  <2> SUFFICES ASSUME g.obj # None, NEW b \in Bits \ waiv[g.obj]
               PROVE  \/ l2 # None /\ l2.vers[b] = ver[g.obj][b]
                      \/ b \in dirt[g.obj] \cup g.mask
                      \/ \E j \in Holders(cs, i) : /\ w2[j] # "handled" /\ b \in cs[j][i].mask
                                                   /\ cs[j][i].vers[b] = ver[g.obj][b]
    BY DEF Coming
  <2>1. ref.kind # "killing" /\ l2 # None
    BY <1>3, <1>4, <1>5, WithObject
  <2>2. CASE l # None /\ l.vers[b] = ver[g.obj][b]
    <3>1. ref.kind = "update" /\ l.obj = ref.obj
      BY <1>1, <1>4, <2>1, <2>2 DEF GhostRef
    <3>2. g.obj = l.obj
      <4>1. ~Creating(g, i, cs, w, l) /\ ~Dying(g, i, cs, w, l)
        BY <2>1, <2>2, <1>3, <3>1, WithObject DEF Creating, Dying, InPhase, ref
      <4> QED BY <1>3, <4>1 DEF Lifetime, Unused, Unsent, Created
    <3>3. l.vers[b] =< ref.vers[b] /\ ref.vers[b] =< ver[ref.obj][b]
      BY <2>1, <2>2 DEF Grows, ref
    <3>4. ref.vers[b] = ver[g.obj][b]
      BY <1>6, <2>1, <2>2, <3>1, <3>2, <3>3
    <3> QED BY <1>5, <2>1, <2>2, <3>4
  <2>3. ASSUME NEW j \in Holders(cs, i), w[j] # "handled", b \in cs[j][i].mask,
               cs[j][i].vers[b] = ver[g.obj][b]
        PROVE  \/ l2 # None /\ l2.vers[b] = ver[g.obj][b]
               \/ w2[j] # "handled"
    BY <1>2, <1>5, <2>1, <2>3 DEF ref
  <2> QED BY <1>3, <2>2, <2>3 DEF Coming
<1>9. Grows(i, cs, w2, l2, ver)
  <2>1. ASSUME l2 # None, NEW b \in Bits
        PROVE  l2.vers[b] =< ver[l2.obj][b]
    <3>1. ref.kind # "killing" /\ l2.obj = ref.obj
      BY <1>5, <2>1
    <3>2. ref.vers[b] =< ver[ref.obj][b]
      BY <3>1 DEF Grows, ref
    <3>3. l # None => l.vers[b] =< ver[l.obj][b] /\ l2.obj = l.obj
      BY <1>5, <3>1 DEF Grows
    <3> QED BY <1>5, <1>6, <3>1, <3>2, <3>3
  <2>2. ASSUME NEW j \in Holders(cs, i), cs[j][i].kind # "killing", l2 # None, NEW b \in Bits,
               w2[j] = "flying"
        PROVE  l2.vers[b] =< cs[j][i].vers[b]
    <3>1. w[j] = "flying" /\ k < j
      BY <1>1, <1>2, <2>2
    <3>2. ref.kind # "killing"
      BY <1>5, <2>2
    <3>3. ref.vers[b] =< cs[j][i].vers[b]
      BY <2>2, <3>1, <3>2 DEF Grows, ref
    <3>4. l # None => l.vers[b] =< cs[j][i].vers[b]
      BY <2>2, <3>1 DEF Grows
    <3> QED BY <1>5, <1>6, <3>2, <3>3, <3>4
  <2>3. ASSUME NEW j \in Holders(cs, i), cs[j][i].kind # "killing", l2 # None, NEW b \in Bits,
               w2[j] = "handled", b \in cs[j][i].mask
        PROVE  cs[j][i].vers[b] =< l2.vers[b]
    <3>1. ref.kind # "killing"
      BY <1>5, <2>3
    <3>2. CASE j = k
      BY <1>5, <1>6, <2>3, <3>1, <3>2 DEF ref
    <3>3. CASE j # k
      <4>1. w[j] = "handled" /\ j < k /\ l # None
        BY <1>2, <1>4, <2>3, <3>3
      <4>2. cs[j][i].vers[b] =< ref.vers[b]
        BY <2>3, <3>1, <4>1 DEF Grows, ref
      <4>3. cs[j][i].vers[b] =< l.vers[b]
        BY <2>3, <4>1 DEF Grows
      <4> QED BY <1>5, <3>1, <4>1, <4>2, <4>3
    <3> QED BY <3>2, <3>3
  <2> QED BY <2>1, <2>2, <2>3 DEF Grows
<1>10. InfoInv(g, i, cs, w2, l2, ver, dirt, waiv, al)
  BY <1>7, <1>8 DEF InfoInv
<1> QED BY <1>5, <1>9, <1>10 DEF l2, w2, ref

\* Dropped when the bits since are those sent again.
DroppedWith(g, ref, since) ==
  [AddBits(g, ref.mask \ since) EXCEPT
     !.flags = CASE ref.kind = "ghosting" -> (@ \ {"Ghosting"}) \cup {"NotYetGhosted"}
                 [] ref.kind = "killing"  -> (@ \ {"KillingGhost"}) \cup {"KillGhost"}
                 [] OTHER -> @]

\* The refs of the window without its first packet, when that has none to i.
LEMMA ForgetOther ==
  ASSUME NEW g, NEW i, NEW cs, NEW w, NEW l, NEW ver, NEW dirt, NEW waiv, NEW al,
         WindowInv(cs, w), w # <<>>, 1 \notin Holders(cs, i),
         InfoInv(g, i, cs, w, l, ver, dirt, waiv, al), Grows(i, cs, w, l, ver)
  PROVE  /\ InfoInv(g, i, Rest(cs), Rest(w), l, ver, dirt, waiv, al)
         /\ Grows(i, Rest(cs), Rest(w), l, ver)
<1> DEFINE cs2 == Rest(cs)  w2 == Rest(w)
<1>1. /\ \A k \in Holders(cs2, i) : /\ k \in Nat \ {0} /\ k + 1 \in Holders(cs, i)
                                    /\ cs2[k] = cs[k + 1] /\ w2[k] = w[k + 1]
      /\ \A k \in Holders(cs, i) : k \in Nat
  BY Forgetting, Refs
<1>2. \A k \in Holders(cs, i) : /\ k - 1 \in Holders(cs2, i)
                                /\ cs2[k - 1] = cs[k] /\ w2[k - 1] = w[k]
  <2>1. \A k \in Holders(cs, i) : k # 1
    OBVIOUS
  <2> QED BY <2>1, Forgetting
<1> HIDE DEF cs2, w2
<1>3. Unused(g, i, cs, l) => Unused(g, i, cs2, l)
  BY <1>1 DEF Unused
<1>4. Unsent(g, i, cs, l) => Unsent(g, i, cs2, l)
  BY <1>1 DEF Unsent
<1>5. Creating(g, i, cs, w, l) => Creating(g, i, cs2, w2, l)
  <2> HAVE Creating(g, i, cs, w, l)
  <2>1. PICK k \in Holders(cs, i) :
          /\ \A j \in Holders(cs, i) : j = k
          /\ cs[k][i].kind = "ghosting" /\ cs[k][i].obj \in Objects
          /\ (w[k] = "handled") <=> (l # None)
          /\ l # None => l.obj = cs[k][i].obj
          /\ g.obj \in {None, cs[k][i].obj}
    BY DEF Creating
  <2>2. \A j \in Holders(cs2, i) : j = k - 1
    BY <1>1, <2>1
  <2> QED BY <1>2, <2>1, <2>2 DEF Creating
<1>6. Created(g, i, cs, l) => Created(g, i, cs2, l)
  BY <1>1 DEF Created
<1>7. Dying(g, i, cs, w, l) => Dying(g, i, cs2, w2, l)
  <2> HAVE Dying(g, i, cs, w, l)
  <2>1. PICK k \in Holders(cs, i) :
          /\ cs[k][i].kind = "killing" /\ cs[k][i].mask # {}
          /\ (w[k] = "handled") <=> (l = None)
          /\ \A j \in Holders(cs, i) \ {k} :
               /\ j < k /\ cs[j][i].kind = "update" /\ cs[j][i].obj \in Objects
               /\ l # None => cs[j][i].obj = l.obj
    BY DEF Dying
  <2>2. ASSUME NEW j \in Holders(cs2, i) \ {k - 1}
        PROVE  /\ j < k - 1 /\ cs2[j][i].kind = "update" /\ cs2[j][i].obj \in Objects
               /\ l # None => cs2[j][i].obj = l.obj
    <3>1. /\ j + 1 \in Holders(cs, i) \ {k} /\ cs2[j] = cs[j + 1] /\ j \in Nat /\ k \in Nat
      BY <1>1
    <3> QED BY <2>1, <3>1
  <2> QED BY <1>2, <2>1, <2>2 DEF Dying
<1>8. Coming(g, i, cs2, w2, l, ver, dirt, waiv)
  BY <1>2 DEF InfoInv, Coming
<1>9. Grows(i, cs2, w2, l, ver)
  BY <1>1 DEF Grows
<1>10. Lifetime(g, i, cs, w, l) => Lifetime(g, i, cs2, w2, l)
  BY <1>3, <1>4, <1>5, <1>6, <1>7 DEF Lifetime
<1>11. InfoInv(g, i, cs2, w2, l, ver, dirt, waiv, al)
  BY <1>8, <1>10 DEF InfoInv
<1> QED BY <1>9, <1>11 DEF cs2, w2

\* Versions still grow in the window without its first packet.
LEMMA GrowsForgetting ==
  ASSUME NEW i, NEW cs, NEW w, NEW l, NEW ver, WindowInv(cs, w), w # <<>>,
         Grows(i, cs, w, l, ver)
  PROVE  Grows(i, Rest(cs), Rest(w), l, ver)
<1>1. \A k \in Holders(Rest(cs), i) :
        /\ k \in Nat \ {0} /\ k + 1 \in Holders(cs, i)
        /\ Rest(cs)[k] = cs[k + 1] /\ Rest(w)[k] = w[k + 1]
  BY Forgetting
<1> QED BY <1>1 DEF Grows

\* Where the first packet has a ref to i, only kills come alone or last.
LEMMA FirstRef ==
  ASSUME NEW g, NEW i, NEW cs, NEW w, NEW l \in {None} \cup LocalGhost,
         WindowInv(cs, w), w # <<>>, w[1] # "flying", 1 \in Holders(cs, i),
         Lifetime(g, i, cs, w, l)
  PROVE  LET ref == cs[1][i]  cs2 == Rest(cs)
         IN  \/ /\ Creating(g, i, cs, w, l) /\ ref.kind = "ghosting" /\ Holders(cs2, i) = {}
                /\ (w[1] = "handled") <=> (l # None)
                /\ l # None => l.obj = ref.obj
                /\ g.obj \in {None, ref.obj}
             \/ Created(g, i, cs, l) /\ Created(g, i, cs2, l) /\ ref.kind = "update"
             \/ /\ Dying(g, i, cs, w, l) /\ ref.kind = "killing" /\ Holders(cs2, i) = {}
                /\ (w[1] = "handled") <=> (l = None)
                /\ ref.mask # {} /\ \A k \in Holders(cs, i) : k = 1
             \/ /\ Dying(g, i, cs, w, l) /\ Dying(g, i, cs2, Rest(w), l)
                /\ ref.kind = "update"
<1> DEFINE ref == cs[1][i]  cs2 == Rest(cs)  w2 == Rest(w)
<1>1. /\ \A k \in Holders(cs2, i) : /\ k \in Nat \ {0} /\ k + 1 \in Holders(cs, i)
                                    /\ cs2[k] = cs[k + 1] /\ w2[k] = w[k + 1]
      /\ \A k \in Holders(cs, i) : k \in Nat \ {0}
  BY Forgetting, Refs
<1>2. (\A k \in Holders(cs, i) : k = 1) => Holders(cs2, i) = {}
  <2>1. \A k \in Nat \ {0} : k + 1 # 1
    OBVIOUS
  <2> QED BY <1>1, <2>1
<1> HIDE DEF cs2, w2
<1>3. ~Unused(g, i, cs, l) /\ ~Unsent(g, i, cs, l)
  BY DEF Unused, Unsent
<1>4. CASE Creating(g, i, cs, w, l)
  <2>1. PICK k \in Holders(cs, i) :
          /\ \A j \in Holders(cs, i) : j = k
          /\ cs[k][i].kind = "ghosting" /\ cs[k][i].obj \in Objects
          /\ (w[k] = "handled") <=> (l # None)
          /\ l # None => l.obj = cs[k][i].obj
          /\ g.obj \in {None, cs[k][i].obj}
    BY <1>4 DEF Creating
  <2>2. k = 1
    BY <2>1
  <2> QED BY <1>2, <1>4, <2>1, <2>2 DEF cs2
<1>5. CASE Created(g, i, cs, l)
  <2>1. Created(g, i, cs2, l) /\ ref.kind = "update"
    BY <1>1, <1>5 DEF Created
  <2> QED BY <1>5, <2>1 DEF cs2
<1>6. CASE Dying(g, i, cs, w, l)
  <2>1. PICK k \in Holders(cs, i) :
          /\ cs[k][i].kind = "killing" /\ cs[k][i].mask # {}
          /\ (w[k] = "handled") <=> (l = None)
          /\ \A j \in Holders(cs, i) \ {k} :
               /\ j < k /\ cs[j][i].kind = "update" /\ cs[j][i].obj \in Objects
               /\ l # None => cs[j][i].obj = l.obj
    BY <1>6 DEF Dying
  <2>2. CASE k = 1
    <3>1. \A j \in Holders(cs, i) : j = 1
      BY <1>1, <2>1, <2>2
    <3> QED BY <1>2, <1>6, <2>1, <2>2, <3>1 DEF cs2
  <2>3. CASE k # 1
    <3>1. k \in Nat
      BY <1>1
    <3>2. k - 1 \in Holders(cs2, i)
      BY <2>3, Forgetting DEF cs2
    <3>3. cs2[k - 1] = cs[k] /\ w2[k - 1] = w[k]
      BY <2>3, Forgetting DEF cs2, w2
    <3>4. ASSUME NEW j \in Holders(cs2, i) \ {k - 1}
          PROVE  /\ j < k - 1 /\ cs2[j][i].kind = "update" /\ cs2[j][i].obj \in Objects
                 /\ l # None => cs2[j][i].obj = l.obj
      <4>1. /\ j + 1 \in Holders(cs, i) \ {k} /\ cs2[j] = cs[j + 1] /\ j \in Nat
        BY <1>1, <3>1
      <4> QED BY <2>1, <3>1, <4>1
    <3>5. Dying(g, i, cs2, w2, l)
      BY <1>6, <2>1, <3>2, <3>3, <3>4 DEF Dying
    <3>6. ref.kind = "update"
      BY <2>1, <2>3
    <3> QED BY <1>6, <3>5, <3>6 DEF cs2, w2
  <2> QED BY <2>2, <2>3
<1> QED BY <1>3, <1>4, <1>5, <1>6 DEF Lifetime

\* The packet with the ghost was received.
LEMMA ReceivedSound ==
  ASSUME NEW g, NEW i, NEW cs, NEW w, NEW l \in {None} \cup LocalGhost,
         NEW ver, NEW dirt, NEW waiv, NEW al, TablesInv(ver, dirt, waiv, al),
         WindowInv(cs, w), w # <<>>, w[1] = "handled", 1 \in Holders(cs, i),
         InfoInv(g, i, cs, w, l, ver, dirt, waiv, al)
  PROVE  InfoInv(Received(g, cs[1][i]), i, Rest(cs), Rest(w), l, ver, dirt, waiv, al)
<1> DEFINE ref == cs[1][i]  cs2 == Rest(cs)  w2 == Rest(w)  h == Received(g, ref)
<1>1. /\ g \in GhostInfo /\ g.flags \in SUBSET Flags /\ Lifetime(g, i, cs, w, l)
      /\ Coming(g, i, cs, w, l, ver, dirt, waiv) /\ (g.obj # None => g.obj \in al)
      /\ OneBitMasks => (g.range = "nonzero" <=> g.mask # {})
  BY DEF InfoInv, GhostInfo
<1>2. \A k \in Holders(cs, i) : k # 1 =>
        k - 1 \in Holders(cs2, i) /\ cs2[k - 1] = cs[k] /\ w2[k - 1] = w[k]
  BY Forgetting
<1>3. Coming(g, i, cs2, w2, l, ver, dirt, waiv)
  BY <1>1, <1>2 DEF Coming
<1>4. \/ /\ Creating(g, i, cs, w, l) /\ ref.kind = "ghosting" /\ Holders(cs2, i) = {}
         /\ l # None /\ l.obj = ref.obj /\ g.obj \in {None, ref.obj}
      \/ Created(g, i, cs2, l) /\ ref.kind = "update"
      \/ /\ Dying(g, i, cs, w, l) /\ ref.kind = "killing" /\ Holders(cs2, i) = {} /\ l = None
      \/ Dying(g, i, cs2, w2, l) /\ ref.kind = "update"
  BY <1>1, FirstRef
<1>5. FlagsSound(g)
  BY <1>1 DEF Lifetime, Unused
<1> HIDE DEF ref, cs2, w2
<1>6. CASE ref.kind = "update"
  <2>1. h = g
    BY <1>6 DEF Received
  <2>2. Lifetime(g, i, cs2, w2, l)
    BY <1>4, <1>5, <1>6 DEF Lifetime
  <2> QED BY <1>1, <1>3, <2>1, <2>2 DEF InfoInv, ref, cs2, w2
<1>7. CASE ref.kind = "ghosting"
  <2>1. h = [g EXCEPT !.flags = g.flags \ {"Ghosting"}]
    BY <1>7 DEF Received
  <2> HIDE DEF h
  <2>2. /\ h \in GhostInfo /\ h.obj = g.obj /\ h.mask = g.mask /\ h.range = g.range
        /\ h.flags = g.flags \ {"Ghosting"}
    BY <1>1, <2>1 DEF GhostInfo
  <2>3. /\ Creating(g, i, cs, w, l) /\ Holders(cs2, i) = {}
        /\ l # None /\ l.obj = ref.obj /\ g.obj \in {None, ref.obj}
    BY <1>4, <1>7
  <2>4. FlagsSound(h) /\ InPhase(h, "none of them")
    BY <1>5, <2>2, <2>3 DEF FlagsSound, Creating, InPhase
  <2>5. Created(h, i, cs2, l)
    BY <2>2, <2>3, <2>4 DEF Created
  <2>6. Coming(h, i, cs2, w2, l, ver, dirt, waiv)
    BY <1>3, <2>2 DEF Coming
  <2>7. InfoInv(h, i, cs2, w2, l, ver, dirt, waiv, al)
    BY <1>1, <2>2, <2>4, <2>5, <2>6 DEF InfoInv, Lifetime
  <2> QED BY <2>7 DEF h, ref, cs2, w2
<1>8. CASE ref.kind = "killing"
  <2>1. h = [g EXCEPT !.mask = {}, !.range = "free"]
    BY <1>8 DEF Received, Free
  <2> HIDE DEF h
  <2>2. h \in GhostInfo /\ h.obj = g.obj /\ h.mask = {} /\ h.range = "free"
    BY <1>1, <2>1 DEF GhostInfo
  <2>3. Dying(g, i, cs, w, l) /\ Holders(cs2, i) = {} /\ l = None
    BY <1>4, <1>8
  <2>4. g.obj = None
    BY <1>5, <2>3 DEF FlagsSound, Dying, InPhase
  <2>5. Unused(h, i, cs2, l)
    BY <2>2, <2>3, <2>4 DEF Unused
  <2>6. InfoInv(h, i, cs2, w2, l, ver, dirt, waiv, al)
    BY <2>2, <2>4, <2>5 DEF InfoInv, Lifetime, Coming
  <2> QED BY <2>6 DEF h, ref, cs2, w2
<1> QED BY <1>4, <1>6, <1>7, <1>8

\* The packet with the ghost was lost.
LEMMA DroppedSound ==
  ASSUME NEW g, NEW i, NEW cs, NEW w, NEW l \in {None} \cup LocalGhost,
         NEW ver, NEW dirt, NEW waiv, NEW al, TablesInv(ver, dirt, waiv, al),
         WindowInv(cs, w), w # <<>>, w[1] = "lost", 1 \in Holders(cs, i),
         InfoInv(g, i, cs, w, l, ver, dirt, waiv, al), Grows(i, cs, w, l, ver),
         NEW since,
         \A b : b \in since <=> \E k \in Holders(cs, i) \ {1} : b \in cs[k][i].mask
  PROVE  InfoInv(DroppedWith(g, cs[1][i], since), i, Rest(cs), Rest(w), l,
                 ver, dirt, waiv, al)
<1> DEFINE ref == cs[1][i]  cs2 == Rest(cs)  w2 == Rest(w)
           bits == ref.mask \ since  a == AddBits(g, bits)  h == DroppedWith(g, ref, since)
<1>1. /\ g \in GhostInfo /\ g.flags \in SUBSET Flags /\ Lifetime(g, i, cs, w, l)
      /\ Coming(g, i, cs, w, l, ver, dirt, waiv) /\ (g.obj # None => g.obj \in al)
      /\ OneBitMasks => (g.range = "nonzero" <=> g.mask # {})
      /\ ver \in [Objects -> [Bits -> Nat]]
  BY DEF InfoInv, GhostInfo, TablesInv
<1>2. \A k \in Holders(cs, i) : k # 1 =>
        k - 1 \in Holders(cs2, i) /\ cs2[k - 1] = cs[k] /\ w2[k - 1] = w[k]
  BY Forgetting
<1>3. /\ \A k \in Holders(cs, i) : k \in Nat \ {0} /\ cs[k][i] \in GhostRef
      /\ ref \in GhostRef /\ bits \in SUBSET Bits
  BY Refs DEF GhostRef
<1>4. \/ /\ Creating(g, i, cs, w, l) /\ ref.kind = "ghosting" /\ Holders(cs2, i) = {}
         /\ l = None /\ g.obj \in {None, ref.obj}
      \/ Created(g, i, cs, l) /\ Created(g, i, cs2, l) /\ ref.kind = "update"
      \/ /\ Dying(g, i, cs, w, l) /\ ref.kind = "killing" /\ Holders(cs2, i) = {} /\ l # None
         /\ bits # {}
      \/ Dying(g, i, cs, w, l) /\ Dying(g, i, cs2, w2, l) /\ ref.kind = "update"
  BY <1>1, FirstRef
<1>5. FlagsSound(g)
  BY <1>1, <1>4 DEF Lifetime, Unused
<1> HIDE DEF ref, cs2, w2, bits, a
<1>6. /\ a \in GhostInfo /\ FlagsSound(a) /\ a.obj = g.obj /\ a.flags = g.flags
      /\ a.mask = g.mask \cup bits
      /\ (g.range = "nonzero" <=> g.mask # {}) => (a.range = "nonzero" <=> a.mask # {})
  BY <1>1, <1>3, <1>5, AddBitsSound DEF a
<1> DEFINE flags == IF ref.kind = "ghosting"
                      THEN (g.flags \ {"Ghosting"}) \cup {"NotYetGhosted"}
                      ELSE IF ref.kind = "killing"
                        THEN (g.flags \ {"KillingGhost"}) \cup {"KillGhost"} ELSE g.flags
<1>7. h = [a EXCEPT !.flags = flags]
  <2>1. CASE ref.kind = "ghosting"
    BY <1>6, <2>1 DEF DroppedWith, a, bits
  <2>2. CASE ref.kind = "killing"
    BY <1>6, <2>2 DEF DroppedWith, a, bits
  <2>3. CASE ref.kind = "update"
    BY <1>6, <2>3 DEF DroppedWith, a, bits
  <2> QED BY <1>4, <2>1, <2>2, <2>3
<1>8. flags \in SUBSET Flags
  BY <1>1 DEF Flags
<1> HIDE DEF h, flags
<1>9. /\ h \in GhostInfo /\ h.obj = g.obj /\ h.mask = g.mask \cup bits /\ h.range = a.range
      /\ h.flags = flags
  BY <1>6, <1>7, <1>8 DEF GhostInfo
<1>10. Lifetime(h, i, cs2, w2, l)
  <2>1. CASE ref.kind = "ghosting"
    <3>1. /\ Creating(g, i, cs, w, l) /\ Holders(cs2, i) = {} /\ l = None
          /\ flags = (g.flags \ {"Ghosting"}) \cup {"NotYetGhosted"}
      BY <1>4, <2>1 DEF flags
    <3>2. FlagsSound(h) /\ InPhase(h, "NotYetGhosted")
      BY <1>6, <1>9, <3>1 DEF FlagsSound, Creating, InPhase
    <3> QED BY <3>1, <3>2 DEF Lifetime, Unsent
  <2>2. CASE ref.kind = "killing"
    <3>1. /\ Dying(g, i, cs, w, l) /\ Holders(cs2, i) = {} /\ l # None /\ bits # {}
          /\ flags = (g.flags \ {"KillingGhost"}) \cup {"KillGhost"}
      BY <1>4, <2>2 DEF flags
    <3>2. g.obj = None /\ InPhase(h, "none of them")
      BY <1>5, <1>9, <3>1 DEF FlagsSound, Dying, InPhase
    <3>3. a.mask # {} /\ a.range = "nonzero"
      BY <1>6, <3>1 DEF FlagsSound, GhostInfo
    <3>4. FlagsSound(h)
      BY <1>6, <1>9, <3>1, <3>2, <3>3 DEF FlagsSound
    <3>5. Created(h, i, cs2, l)
      BY <1>9, <3>1, <3>2 DEF Created
    <3> QED BY <3>4, <3>5 DEF Lifetime
  <2>3. CASE ref.kind = "update"
    <3>1. h.flags = g.flags /\ h.obj = g.obj
      BY <1>9, <2>3 DEF flags
    <3>2. FlagsSound(h)
      BY <1>6, <1>9, <3>1 DEF FlagsSound
    <3>3. Created(h, i, cs2, l) \/ Dying(h, i, cs2, w2, l)
      BY <1>4, <2>3, <3>1 DEF Created, Dying, InPhase
    <3> QED BY <3>2, <3>3 DEF Lifetime
  <2> QED BY <1>4, <2>1, <2>2, <2>3
<1>11. Coming(h, i, cs2, w2, l, ver, dirt, waiv)
  <2> SUFFICES ASSUME g.obj # None, NEW b \in Bits \ waiv[g.obj]
               PROVE  \/ l # None /\ l.vers[b] = ver[g.obj][b]
                      \/ b \in dirt[g.obj] \cup h.mask
                      \/ \E k \in Holders(cs2, i) : /\ w2[k] # "handled" /\ b \in cs2[k][i].mask
                                                    /\ cs2[k][i].vers[b] = ver[g.obj][b]
    BY <1>9 DEF Coming
  <2>1. CASE \E k \in Holders(cs, i) \ {1} : /\ w[k] # "handled" /\ b \in cs[k][i].mask
                                             /\ cs[k][i].vers[b] = ver[g.obj][b]
    <3>1. PICK k \in Holders(cs, i) \ {1} : /\ w[k] # "handled" /\ b \in cs[k][i].mask
                                            /\ cs[k][i].vers[b] = ver[g.obj][b]
      BY <2>1
    <3> QED BY <1>2, <3>1
  <2>2. CASE 1 \in Holders(cs, i) /\ b \in ref.mask /\ ref.vers[b] = ver[g.obj][b]
    <3>1. CASE b \notin since
      BY <1>9, <2>2, <3>1 DEF bits
    <3>2. CASE b \in since
      <4>1. PICK k \in Holders(cs, i) \ {1} : b \in cs[k][i].mask
        BY <3>2
      <4>2. ~Dying(g, i, cs, w, l) /\ Holders(cs2, i) # {}
        <5>1. "KillingGhost" \notin g.flags
          BY <1>5 DEF FlagsSound
        <5> QED BY <1>2, <4>1, <5>1 DEF Dying, InPhase
      <4>3. Created(g, i, cs, l)
        BY <1>4, <4>2
      <4>4. /\ l # None /\ l.obj = g.obj
            /\ cs[k][i].kind = "update" /\ cs[k][i].obj = g.obj
            /\ ref.kind = "update"
        BY <4>1, <4>3 DEF Created, ref
      <4>5. /\ ref.vers[b] =< cs[k][i].vers[b] /\ cs[k][i].vers[b] =< ver[g.obj][b]
            /\ w[k] = "handled" => cs[k][i].vers[b] =< l.vers[b]
            /\ l.vers[b] =< ver[g.obj][b]
        <5>1. 1 < k
          BY <1>3
        <5> QED BY <4>1, <4>4, <5>1 DEF Grows, ref
      <4>6. /\ cs[k][i].vers[b] \in Nat /\ l.vers[b] \in Int /\ ver[g.obj][b] \in Nat
        BY <1>1, <1>3, <4>1, <4>4 DEF GhostRef, LocalGhost, NoVersion
      <4>7. cs[k][i].vers[b] = ver[g.obj][b]
        BY <2>2, <4>5, <4>6
      <4>8. CASE w[k] = "handled"
        BY <4>4, <4>5, <4>6, <4>7, <4>8
      <4>9. CASE w[k] # "handled"
        BY <1>2, <4>1, <4>7, <4>9
      <4> QED BY <4>8, <4>9
    <3> QED BY <3>1, <3>2
  <2> QED BY <1>1, <1>9, <2>1, <2>2 DEF Coming, ref
<1>12. OneBitMasks => (h.range = "nonzero" <=> h.mask # {})
  BY <1>1, <1>6, <1>9
<1>13. InfoInv(h, i, cs2, w2, l, ver, dirt, waiv, al)
  BY <1>1, <1>9, <1>10, <1>11, <1>12 DEF InfoInv
<1> QED BY <1>13 DEF h, ref, cs2, w2

-----------------------------------------------------------------------------
(* Changes of the objects.                                                 *)

\* Every ref but a kill is to an object.
LEMMA RefObject ==
  ASSUME NEW g, NEW i, NEW cs, NEW w, NEW l \in {None} \cup LocalGhost,
         Lifetime(g, i, cs, w, l), NEW k \in Holders(cs, i), cs[k][i].kind # "killing"
  PROVE  cs[k][i].obj \in Objects
<1>1. l # None => l.obj \in Objects
  BY DEF LocalGhost
<1>2. ~Unused(g, i, cs, l) /\ ~Unsent(g, i, cs, l)
  BY DEF Unused, Unsent
<1>3. Creating(g, i, cs, w, l) => cs[k][i].obj \in Objects
  BY DEF Creating
<1>4. Created(g, i, cs, l) => cs[k][i].obj \in Objects
  BY <1>1 DEF Created
<1>5. Dying(g, i, cs, w, l) => cs[k][i].obj \in Objects
  BY DEF Dying
<1> QED BY <1>2, <1>3, <1>4, <1>5 DEF Lifetime

LEMMA SetMaskBitsSound ==
  ASSUME NEW g, NEW i, NEW cs, NEW w, NEW l \in {None} \cup LocalGhost,
         NEW ver, NEW dirt, NEW waiv, NEW al, TablesInv(ver, dirt, waiv, al), WindowInv(cs, w),
         InfoInv(g, i, cs, w, l, ver, dirt, waiv, al), Grows(i, cs, w, l, ver),
         NEW o \in Objects, NEW b \in Bits,
         NEW ver2, NEW dirt2, NEW waiv2, TablesInv(ver2, dirt2, waiv2, al), b \in dirt2[o],
         \A p \in Objects, c \in Bits :
           /\ ver2[p][c] = IF p = o /\ c = b THEN ver[p][c] + 1 ELSE ver[p][c]
           /\ c \in dirt[p] => c \in dirt2[p]
           /\ c \notin waiv2[p] => c \notin waiv[p] \/ (p = o /\ c = b)
  PROVE  /\ InfoInv(g, i, cs, w, l, ver2, dirt2, waiv2, al) /\ Grows(i, cs, w, l, ver2)
<1>1. /\ ver \in [Objects -> [Bits -> Nat]]
      /\ dirt \in [Objects -> SUBSET Bits] /\ waiv \in [Objects -> SUBSET Bits]
  BY DEF TablesInv
<1>2. /\ ver2 \in [Objects -> [Bits -> Nat]] /\ dirt2 \in [Objects -> SUBSET Bits]
      /\ waiv2 \in [Objects -> SUBSET Bits]
  BY DEF TablesInv
<1>3. \A p \in Objects, c \in Bits : /\ ver[p][c] \in Nat /\ ver2[p][c] \in Nat
                                     /\ ver[p][c] =< ver2[p][c]
  BY <1>1, <1>2
<1>4. Coming(g, i, cs, w, l, ver2, dirt2, waiv2)
  <2> SUFFICES ASSUME g.obj # None, NEW c \in Bits \ waiv2[g.obj]
               PROVE  \/ l # None /\ l.vers[c] = ver2[g.obj][c]
                      \/ c \in dirt2[g.obj] \cup g.mask
                      \/ \E k \in Holders(cs, i) : /\ w[k] # "handled" /\ c \in cs[k][i].mask
                                                   /\ cs[k][i].vers[c] = ver2[g.obj][c]
    BY DEF Coming
  <2>1. g.obj \in Objects /\ Coming(g, i, cs, w, l, ver, dirt, waiv)
    BY DEF InfoInv, GhostInfo
  <2>2. CASE g.obj = o /\ c = b
    BY <2>2
  <2>3. CASE ~(g.obj = o /\ c = b)
    <3>1. c \in Bits \ waiv[g.obj] /\ ver2[g.obj][c] = ver[g.obj][c]
      BY <2>1, <2>3
    <3> QED BY <2>1, <3>1 DEF Coming
  <2> QED BY <2>2, <2>3
<1>5. Grows(i, cs, w, l, ver2)
  <2>1. \A k \in Holders(cs, i) : cs[k][i].kind # "killing" =>
          cs[k][i].obj \in Objects /\ \A c \in Bits : cs[k][i].vers[c] \in Nat
    BY RefObject, Refs DEF InfoInv, GhostRef
  <2>2. l # None => l.obj \in Objects /\ \A c \in Bits : l.vers[c] \in Int
    BY DEF LocalGhost, NoVersion
  <2>3. l # None => \A c \in Bits : l.vers[c] =< ver2[l.obj][c]
    BY <1>3, <2>2 DEF Grows
  <2>4. \A k \in Holders(cs, i) : cs[k][i].kind # "killing" =>
          \A c \in Bits : cs[k][i].vers[c] =< ver2[cs[k][i].obj][c]
    <3> SUFFICES ASSUME NEW k \in Holders(cs, i), cs[k][i].kind # "killing", NEW c \in Bits
                 PROVE  cs[k][i].vers[c] =< ver2[cs[k][i].obj][c]
      OBVIOUS
    <3>1. cs[k][i].vers[c] =< ver[cs[k][i].obj][c]
      BY DEF Grows
    <3> QED BY <1>3, <2>1, <3>1
  <2> QED BY <2>3, <2>4 DEF Grows
<1> QED BY <1>4, <1>5 DEF InfoInv

LEMMA ClearMaskBitsSound ==
  ASSUME NEW g, NEW i, NEW cs, NEW w, NEW l,
         NEW ver, NEW dirt, NEW waiv, NEW al, TablesInv(ver, dirt, waiv, al),
         InfoInv(g, i, cs, w, l, ver, dirt, waiv, al),
         NEW o \in Objects, NEW bits \in ClearMasks,
         NEW h, h = IF g.obj # o THEN g
                    ELSE [g EXCEPT !.mask = @ \ bits,
                                   !.range = IF g.mask = bits /\ bits # {} THEN "zero" ELSE @],
         NEW dirt2, dirt2 = [dirt EXCEPT ![o] = @ \ bits],
         NEW waiv2, waiv2 = [waiv EXCEPT ![o] = @ \cup bits]
  PROVE  /\ TablesInv(ver, dirt2, waiv2, al)
         /\ InfoInv(h, i, cs, w, l, ver, dirt2, waiv2, al)
<1>1. /\ dirt \in [Objects -> SUBSET Bits] /\ waiv \in [Objects -> SUBSET Bits]
      /\ bits \in SUBSET Bits /\ o # None
  BY GhostConstants DEF TablesInv
<1>2. /\ dirt2 \in [Objects -> SUBSET Bits] /\ waiv2 \in [Objects -> SUBSET Bits]
      /\ dirt2[o] = dirt[o] \ bits /\ waiv2[o] = waiv[o] \cup bits
      /\ \A p \in Objects \ {o} : dirt2[p] = dirt[p] /\ waiv2[p] = waiv[p]
  BY <1>1
<1>3. /\ g \in GhostInfo /\ Lifetime(g, i, cs, w, l)
      /\ Coming(g, i, cs, w, l, ver, dirt, waiv)
      /\ g.obj # None => g.obj \in Objects
  BY DEF InfoInv, GhostInfo
<1>4. CASE g.obj # o
  <2>1. h = g /\ Coming(g, i, cs, w, l, ver, dirt2, waiv2)
    BY <1>2, <1>3, <1>4 DEF Coming
  <2> QED BY <1>2, <2>1 DEF InfoInv, TablesInv
<1>5. CASE g.obj = o
  <2>1. /\ h \in GhostInfo /\ h.obj = o /\ h.flags = g.flags /\ h.mask = g.mask \ bits
        /\ h.range = IF g.mask = bits /\ bits # {} THEN "zero" ELSE g.range
    BY <1>1, <1>3, <1>5 DEF GhostInfo
  <2>2. /\ FlagsSound(g) /\ g.range # "free"
        /\ "KillGhost" \notin g.flags /\ "KillingGhost" \notin g.flags
    BY <1>1, <1>3, <1>5, WithObject
  <2>3. FlagsSound(h)
    BY <1>1, <2>1, <2>2 DEF FlagsSound
  <2>4. Lifetime(h, i, cs, w, l)
    <3>1. \A phase : InPhase(g, phase) => InPhase(h, phase)
      BY <2>1 DEF InPhase
    <3> QED BY <1>3, <1>5, <2>1, <2>2, <2>3, <3>1, SamePhase
  <2>5. Coming(h, i, cs, w, l, ver, dirt2, waiv2)
    BY <1>1, <1>2, <1>3, <1>5, <2>1 DEF Coming
  <2>6. OneBitMasks => (h.range = "nonzero" <=> h.mask # {})
    <3> HAVE OneBitMasks
    <3>1. (\E b \in Bits : bits = {b}) /\ (g.range = "nonzero" <=> g.mask # {})
      BY DEF OneBitMasks, InfoInv
    <3>2. CASE g.mask = bits
      BY <2>1, <3>1, <3>2
    <3>3. CASE g.mask # bits
      BY <2>1, <3>1, <3>3
    <3> QED BY <3>2, <3>3
  <2> QED BY <1>2, <1>5, <2>1, <2>4, <2>5, <2>6 DEF InfoInv, TablesInv
<1> QED BY <1>4, <1>5

LEMMA CollapseSound ==
  ASSUME NEW g, NEW i, NEW cs, NEW w, NEW l,
         NEW ver, NEW dirt, NEW waiv, NEW al, TablesInv(ver, dirt, waiv, al),
         InfoInv(g, i, cs, w, l, ver, dirt, waiv, al),
         NEW h, h = IF g.obj = None THEN g ELSE AddBits(g, dirt[g.obj]),
         NEW dirt2
  PROVE  InfoInv(h, i, cs, w, l, ver, dirt2, waiv, al)
<1>1. /\ g \in GhostInfo /\ Lifetime(g, i, cs, w, l)
      /\ Coming(g, i, cs, w, l, ver, dirt, waiv)
      /\ g.obj # None => g.obj \in Objects
  BY DEF InfoInv, GhostInfo
<1>2. CASE g.obj = None
  BY <1>2 DEF InfoInv, Coming
<1>3. CASE g.obj # None
  <2>1. dirt[g.obj] \in SUBSET Bits /\ FlagsSound(g)
    BY <1>1, <1>3, WithObject DEF TablesInv
  <2>2. h = AddBits(g, dirt[g.obj])
    BY <1>3
  <2>3. /\ h \in GhostInfo /\ FlagsSound(h)
        /\ h.obj = g.obj /\ h.flags = g.flags /\ h.mask = g.mask \cup dirt[g.obj]
        /\ (g.range = "nonzero" <=> g.mask # {}) => (h.range = "nonzero" <=> h.mask # {})
    BY <1>1, <2>1, <2>2, AddBitsSound
  <2>4. Lifetime(h, i, cs, w, l)
    <3>1. \A phase : InPhase(g, phase) => InPhase(h, phase)
      BY <2>3 DEF InPhase
    <3> QED BY <1>1, <2>1, <2>3, <3>1, SamePhase DEF FlagsSound
  <2>5. Coming(h, i, cs, w, l, ver, dirt2, waiv)
    BY <1>1, <2>3 DEF Coming
  <2> QED BY <2>3, <2>4, <2>5 DEF InfoInv
<1> QED BY <1>2, <1>3

\* An object is deleted, or is not ScopeAlways any more.
LEMMA WithoutObjectSound ==
  ASSUME NEW g, NEW i, NEW cs, NEW w, NEW l,
         NEW ver, NEW dirt, NEW waiv, NEW al, TablesInv(ver, dirt, waiv, al),
         InfoInv(g, i, cs, w, l, ver, dirt, waiv, al),
         NEW o \in Objects, NEW h, h = IF g.obj = o THEN Detach(g) ELSE g
  PROVE  /\ InfoInv(h, i, cs, w, l, ver, dirt, waiv, al)
         /\ InfoInv(h, i, cs, w, l, ver, [dirt EXCEPT ![o] = {}], waiv, al \ {o})
<1> DEFINE dirt2 == [dirt EXCEPT ![o] = {}]
<1>1. o # None /\ \A p \in Objects \ {o} : dirt2[p] = dirt[p]
  BY GhostConstants DEF TablesInv
<1>2. h.obj # o /\ InfoInv(h, i, cs, w, l, ver, dirt, waiv, al)
  <2>1. CASE g.obj = o
    <3>1. Lifetime(g, i, cs, w, l)
      BY DEF InfoInv
    <3>2. g.range # "free"
      BY <1>1, <2>1, <3>1, WithObject
    <3> QED BY <1>1, <2>1, <3>2, DetachSound
  <2>2. CASE g.obj # o
    BY <2>2
  <2> QED BY <2>1, <2>2
<1>3. h.obj # None => h.obj \in Objects
  BY <1>2 DEF InfoInv, GhostInfo
<1>4. Coming(h, i, cs, w, l, ver, dirt2, waiv)
  <2>1. h.obj # None => dirt2[h.obj] = dirt[h.obj]
    BY <1>1, <1>2, <1>3
  <2> HIDE DEF dirt2
  <2> QED BY <1>2, <2>1 DEF InfoInv, Coming
<1> HIDE DEF dirt2
<1>5. InfoInv(h, i, cs, w, l, ver, dirt2, waiv, al \ {o})
  BY <1>2, <1>4 DEF InfoInv
<1> QED BY <1>2, <1>5 DEF dirt2

\* objectInScope: an index is marked, or taken, or stays.
LEMMA ObjectsInScopeCases ==
  ASSUME NEW gs, DOMAIN gs = Indices, NEW objects, NEW always,
         NEW hs \in ObjectsInScope(gs, objects, always)
  PROVE  /\ hs = [i \in Indices |-> hs[i]]
         /\ \A i \in Indices :
              \/ /\ gs[i].obj \in objects
                 /\ hs[i] = [gs[i] EXCEPT !.flags = @ \cup {"InScope"}]
              \/ gs[i].range = "free" /\ \E o \in objects : hs[i] = NewGhost(o, always)
              \/ hs[i] = gs[i]
<1> DEFINE known == {gs[i].obj : i \in DOMAIN gs}
           free  == {i \in DOMAIN gs : gs[i].range = "free"}
           new   == objects \ known
           count == Min({Cardinality(free), Cardinality(new)})
           with(taken) ==
             [i \in DOMAIN gs |->
               IF gs[i].obj \in objects THEN [gs[i] EXCEPT !.flags = @ \cup {"InScope"}]
               ELSE IF i \in DOMAIN taken THEN NewGhost(taken[i], always) ELSE gs[i]]
<1>1. hs \in {with(taken) :
               taken \in UNION {Injection(slots, new) : slots \in kSubset(count, free)}}
  BY Zenon DEF ObjectsInScope
<1>2. PICK taken \in UNION {Injection(slots, new) : slots \in kSubset(count, free)} :
        hs = with(taken)
  <2> HIDE DEF with, count, free, new
  <2> QED BY <1>1
<1>3. PICK slots \in kSubset(count, free) : taken \in Injection(slots, new)
  OBVIOUS
<1>4. slots \subseteq free /\ taken \in [slots -> new]
  BY <1>3 DEF kSubset, Injection
<1>5. \A i \in DOMAIN taken : gs[i].range = "free" /\ taken[i] \in objects
  BY <1>4
<1> HIDE DEF known, free, new, count
<1>6. hs = [i \in Indices |->
               IF gs[i].obj \in objects THEN [gs[i] EXCEPT !.flags = @ \cup {"InScope"}]
               ELSE IF i \in DOMAIN taken THEN NewGhost(taken[i], always) ELSE gs[i]]
  BY <1>2
<1> HIDE DEF with
<1> QED BY <1>5, <1>6

LEMMA ObjectsInScopeSound ==
  ASSUME NEW gs, DOMAIN gs = Indices, NEW objects, NEW always,
         NEW hs \in ObjectsInScope(gs, objects, always),
         NEW i \in Indices, NEW cs, NEW w, NEW l,
         NEW ver, NEW dirt, NEW waiv, NEW al, TablesInv(ver, dirt, waiv, al),
         objects \subseteq al, InfoInv(gs[i], i, cs, w, l, ver, dirt, waiv, al)
  PROVE  InfoInv(hs[i], i, cs, w, l, ver, dirt, waiv, al)
<1>1. objects \subseteq Objects /\ None \notin objects
  BY GhostConstants DEF TablesInv
<1>2. /\ gs[i] \in GhostInfo /\ Lifetime(gs[i], i, cs, w, l)
  BY DEF InfoInv
<1>3. CASE gs[i].obj \in objects /\ hs[i] = [gs[i] EXCEPT !.flags = @ \cup {"InScope"}]
  <2>1. gs[i].range # "free"
    BY <1>1, <1>2, <1>3, WithObject
  <2>2. /\ hs[i] \in GhostInfo /\ hs[i].obj = gs[i].obj /\ hs[i].mask = gs[i].mask
        /\ hs[i].range = gs[i].range /\ hs[i].flags = gs[i].flags \cup {"InScope"}
    BY <1>2, <1>3 DEF GhostInfo, Flags
  <2>3. \A flag \in Flags \ {"InScope", "ScopeAlways", "ScopeLocalAlways"} :
           flag \in hs[i].flags <=> flag \in gs[i].flags
    BY <2>2
  <2> QED BY <2>1, <2>2, <2>3, ScopeFlagsSound
<1>4. CASE gs[i].range = "free" /\ \E o \in objects : hs[i] = NewGhost(o, always)
  BY <1>1, <1>4, NewGhostSound
<1>5. CASE hs[i] = gs[i]
  BY <1>5
<1> QED BY <1>3, <1>4, <1>5, ObjectsInScopeCases

-----------------------------------------------------------------------------
(* The invariant.                                                          *)

LEMMA InitIInv == Init => IInv
<1> SUFFICES ASSUME Init PROVE IInv
  OBVIOUS
<1>1. /\ alive = Objects /\ scopeAlways = {} /\ scopings = 0
      /\ version = [o \in Objects |-> [b \in Bits |-> 0]]
      /\ dirty = [o \in Objects |-> {}] /\ waived = [o \in Objects |-> {}]
      /\ ghost = [i \in Indices |-> FreeInfo] /\ localGhost = [i \in Indices |-> None]
      /\ window = <<>> /\ contents = <<>>
  BY DEF Init, Net!Init
<1>2. TablesInv(version, dirty, waived, alive)
  BY <1>1 DEF TablesInv
<1>3. WindowInv(contents, window)
  <2>1. contents \in Seq(GhostLists) /\ window \in Seq(Net!Fates) /\ Len(contents) = Len(window)
    BY <1>1, EmptySeq
  <2>2. FlyingLast(window)
    BY <1>1 DEF FlyingLast
  <2> QED BY <2>1, <2>2 DEF WindowInv
<1>4. ASSUME NEW i \in Indices
      PROVE  IndexInv(i)
  <2>1. ghost[i] = FreeInfo /\ localGhost[i] = None /\ Holders(contents, i) = {}
    BY <1>1 DEF Holders
  <2>2. FreeInfo \in GhostInfo
    BY GhostConstants DEF FreeInfo, GhostInfo
  <2>3. Unused(FreeInfo, i, contents, None)
    BY <2>1 DEF Unused, FreeInfo
  <2>4. InfoInv(FreeInfo, i, contents, window, None, version, dirty, waived, alive)
    BY <2>2, <2>3 DEF InfoInv, Lifetime, Coming, FreeInfo
  <2>5. Grows(i, contents, window, None, version)
    BY <2>1 DEF Grows
  <2> QED BY <2>1, <2>4, <2>5 DEF IndexInv
<1> QED BY <1>1, <1>2, <1>3, <1>4 DEF IInv

\* A step of the game: neither the packets nor the client have part in it.
LEMMA TableStep ==
  ASSUME IInv, UNCHANGED <<window, contents, localGhost>>,
         (scopeAlways \subseteq Objects)', (scopings \in Nat)',
         (ghost = [i \in Indices |-> ghost[i]])',
         TablesInv(version', dirty', waived', alive'),
         \A i \in Indices :
           /\ InfoInv(ghost'[i], i, contents, window, localGhost[i],
                      version', dirty', waived', alive')
           /\ Grows(i, contents, window, localGhost[i], version')
  PROVE  IInv'
<1>1. WindowInv(contents', window')
  BY DEF IInv
<1>2. \A i \in Indices : IndexInv(i)'
  BY DEF IInv, IndexInv
<1>3. (localGhost = [i \in Indices |-> localGhost[i]])'
  BY DEF IInv
<1> QED BY <1>1, <1>2, <1>3 DEF IInv

\* What the invariant says of index i, for the lemmas on one index.
LEMMA IInvFacts ==
  ASSUME IInv
  PROVE  /\ DOMAIN ghost = Indices /\ DOMAIN localGhost = Indices
         /\ scopeAlways \subseteq Objects /\ alive \subseteq Objects /\ scopings \in Nat
         /\ TablesInv(version, dirty, waived, alive) /\ WindowInv(contents, window)
         /\ \A i \in Indices :
              /\ localGhost[i] \in {None} \cup LocalGhost
              /\ InfoInv(ghost[i], i, contents, window, localGhost[i], version, dirty,
                         waived, alive)
              /\ Grows(i, contents, window, localGhost[i], version)
<1>1. DOMAIN ghost = Indices
  <2>1. ghost = [i \in Indices |-> ghost[i]]
    BY DEF IInv
  <2> QED BY <2>1
<1>2. DOMAIN localGhost = Indices
  <2>1. localGhost = [i \in Indices |-> localGhost[i]]
    BY DEF IInv
  <2> QED BY <2>1
<1>3. alive \subseteq Objects
  BY DEF IInv, TablesInv
<1> QED BY <1>1, <1>2, <1>3 DEF IInv, IndexInv

LEMMA SetMaskBitsStep ==
  ASSUME IInv, NEW o \in Objects, NEW b \in Bits, SetMaskBits(o, b)
  PROVE  IInv'
<1>1. /\ version' = [version EXCEPT ![o][b] = @ + 1]
      /\ dirty' = [dirty EXCEPT ![o] = @ \cup {b}]
      /\ waived' = [waived EXCEPT ![o] = @ \ {b}]
      /\ UNCHANGED <<alive, scopeAlways, ghost, window, contents, localGhost, scopings>>
  BY DEF SetMaskBits
<1>2. /\ TablesInv(version', dirty', waived', alive) /\ b \in dirty'[o]
      /\ \A p \in Objects, c \in Bits :
           /\ version'[p][c] = IF p = o /\ c = b THEN version[p][c] + 1 ELSE version[p][c]
           /\ c \in dirty[p] => c \in dirty'[p]
           /\ c \notin waived'[p] => c \notin waived[p] \/ (p = o /\ c = b)
  <2>1. /\ version \in [Objects -> [Bits -> Nat]]
        /\ dirty \in [Objects -> SUBSET Bits] /\ waived \in [Objects -> SUBSET Bits]
    BY IInvFacts DEF TablesInv
  <2>2. /\ version' \in [Objects -> [Bits -> Nat]]
        /\ \A p \in Objects, c \in Bits :
             version'[p][c] = IF p = o /\ c = b THEN version[p][c] + 1 ELSE version[p][c]
    BY <1>1, <2>1
  <2>3. /\ dirty' \in [Objects -> SUBSET Bits] /\ b \in dirty'[o]
        /\ \A p \in Objects, c \in Bits : c \in dirty[p] => c \in dirty'[p]
    BY <1>1, <2>1
  <2>4. /\ waived' \in [Objects -> SUBSET Bits]
        /\ \A p \in Objects, c \in Bits :
             c \notin waived'[p] => c \notin waived[p] \/ (p = o /\ c = b)
    BY <1>1, <2>1
  <2> QED BY <2>2, <2>3, <2>4, IInvFacts DEF TablesInv
<1>3. \A i \in Indices :
        /\ InfoInv(ghost[i], i, contents, window, localGhost[i], version', dirty', waived', alive)
        /\ Grows(i, contents, window, localGhost[i], version')
  BY <1>2, IInvFacts, SetMaskBitsSound
<1> QED BY <1>1, <1>2, <1>3, IInvFacts, TableStep DEF IInv

LEMMA ClearMaskBitsStep ==
  ASSUME IInv, NEW o \in Objects, NEW bits \in ClearMasks, ClearMaskBits(o, bits)
  PROVE  IInv'
<1>1. /\ dirty' = [dirty EXCEPT ![o] = @ \ bits]
      /\ waived' = [waived EXCEPT ![o] = @ \cup bits]
      /\ UNCHANGED <<alive, version, scopeAlways, window, contents, localGhost, scopings>>
  BY DEF ClearMaskBits
<1>2. /\ (ghost = [i \in Indices |-> ghost[i]])'
      /\ \A i \in Indices :
           ghost'[i] = IF ghost[i].obj # o THEN ghost[i]
                       ELSE [ghost[i] EXCEPT !.mask = @ \ bits,
                                             !.range = IF ghost[i].mask = bits /\ bits # {}
                                                         THEN "zero" ELSE @]
  BY DEF ClearMaskBits, GhostsOf
<1>3. \A i \in Indices :
        InfoInv(ghost'[i], i, contents, window, localGhost[i], version, dirty', waived', alive)
  BY <1>1, <1>2, IInvFacts, ClearMaskBitsSound
<1>4. TablesInv(version, dirty', waived', alive)
  BY <1>1, IInvFacts, GhostConstants DEF TablesInv
<1> QED BY <1>1, <1>2, <1>3, <1>4, IInvFacts, TableStep

LEMMA CollapseStep ==
  ASSUME IInv, CollapseDirtyList
  PROVE  IInv'
<1>1. /\ dirty' = [o \in Objects |-> {}]
      /\ UNCHANGED <<alive, version, scopeAlways, window, contents, localGhost, scopings,
                     waived>>
  BY DEF CollapseDirtyList
<1>2. /\ (ghost = [i \in Indices |-> ghost[i]])'
      /\ \A i \in Indices : ghost'[i] = IF ghost[i].obj = None THEN ghost[i]
                                        ELSE AddBits(ghost[i], dirty[ghost[i].obj])
  BY DEF CollapseDirtyList
<1>3. \A i \in Indices :
        InfoInv(ghost'[i], i, contents, window, localGhost[i], version, dirty', waived, alive)
  BY <1>2, IInvFacts, CollapseSound
<1>4. TablesInv(version, dirty', waived, alive)
  BY <1>1, IInvFacts DEF TablesInv
<1> QED BY <1>1, <1>2, <1>3, <1>4, IInvFacts, TableStep

LEMMA DeleteObjectStep ==
  ASSUME IInv, NEW o \in Objects, DeleteObject(o)
  PROVE  IInv'
<1>1. /\ alive' = alive \ {o} /\ dirty' = [dirty EXCEPT ![o] = {}]
      /\ scopeAlways' = scopeAlways \ {o}
      /\ UNCHANGED <<version, window, contents, localGhost, scopings, waived>>
  BY DEF DeleteObject
<1>2. /\ (ghost = [i \in Indices |-> ghost[i]])'
      /\ \A i \in Indices :
           ghost'[i] = IF ghost[i].obj = o THEN Detach(ghost[i]) ELSE ghost[i]
  BY DEF DeleteObject, GhostsOf
<1>3. \A i \in Indices :
        InfoInv(ghost'[i], i, contents, window, localGhost[i], version, dirty', waived, alive')
  BY <1>1, <1>2, IInvFacts, WithoutObjectSound
<1>4. TablesInv(version, dirty', waived, alive')
  BY <1>1, IInvFacts DEF TablesInv
<1> QED BY <1>1, <1>2, <1>3, <1>4, IInvFacts, TableStep

\* The calls that change the scope flags of an object.
LEMMA RescopeStep ==
  ASSUME IInv, NEW o \in Objects,
         SetScopeAlways(o) \/ ClearScopeAlways(o) \/ ObjectLocalScopeAlways(o)
           \/ ObjectLocalClearAlways(o)
  PROVE  IInv'
<1>1. /\ o \in alive /\ UNCHANGED <<alive, version, dirty, window, contents, localGhost, waived>>
      /\ (scopeAlways \subseteq Objects)' /\ (scopings \in Nat)'
  BY IInvFacts
     DEF SetScopeAlways, ClearScopeAlways, ObjectLocalScopeAlways, ObjectLocalClearAlways, Rescope
<1> DEFINE Ok(g, i) == InfoInv(g, i, contents, window, localGhost[i], version, dirty, waived, alive)
<1>2. SUFFICES /\ (ghost = [i \in Indices |-> ghost[i]])'
               /\ \A i \in Indices : Ok(ghost'[i], i)
  BY <1>1, IInvFacts, TableStep
<1>3. \A i \in Indices : Ok(ghost[i], i) /\ ghost[i] \in GhostInfo
  BY IInvFacts DEF InfoInv
<1>4. ASSUME NEW always, NEW gs \in ObjectsInScope(ghost, {o}, always)
      PROVE  gs = [i \in Indices |-> gs[i]] /\ \A i \in Indices : Ok(gs[i], i)
  BY <1>1, IInvFacts, ObjectsInScopeCases, ObjectsInScopeSound
<1>5. CASE SetScopeAlways(o)
  <2>1. ghost' \in ObjectsInScope(ghost, {o}, scopeAlways \cup {o})
    BY <1>5 DEF SetScopeAlways
  <2> HIDE DEF Ok
  <2> QED BY <1>4, <2>1
<1>6. CASE ClearScopeAlways(o)
  <2>1. /\ (ghost = [i \in Indices |-> ghost[i]])'
        /\ \A i \in Indices :
             ghost'[i] = IF ghost[i].obj = o THEN Detach(ghost[i]) ELSE ghost[i]
    BY <1>6 DEF ClearScopeAlways, GhostsOf
  <2> QED BY <2>1, IInvFacts, WithoutObjectSound
<1>7. \A g \in GhostInfo, i \in Indices, flags \in SUBSET Flags :
        Ok(g, i) /\ g.obj = o
          /\ (\A flag \in Flags \ {"InScope", "ScopeAlways", "ScopeLocalAlways"} :
                flag \in flags <=> flag \in g.flags)
          => Ok([g EXCEPT !.flags = flags], i)
  <2> SUFFICES ASSUME NEW g \in GhostInfo, NEW i \in Indices, NEW flags \in SUBSET Flags,
                      Ok(g, i), g.obj = o,
                      \A flag \in Flags \ {"InScope", "ScopeAlways", "ScopeLocalAlways"} :
                        flag \in flags <=> flag \in g.flags
               PROVE  Ok([g EXCEPT !.flags = flags], i)
    OBVIOUS
  <2>1. PICK h : h = [g EXCEPT !.flags = flags]
    OBVIOUS
  <2>2. /\ h \in GhostInfo /\ h.obj = g.obj /\ h.mask = g.mask /\ h.range = g.range
        /\ h.flags = flags
    BY <2>1 DEF GhostInfo
  <2>3. g.range # "free"
    <3>1. Lifetime(g, i, contents, window, localGhost[i]) /\ g.obj # None
      BY GhostConstants DEF InfoInv
    <3> QED BY <3>1, WithObject
  <2>4. Ok(h, i)
    BY <2>2, <2>3, ScopeFlagsSound
  <2> QED BY <2>1, <2>4
<1>8. CASE ObjectLocalScopeAlways(o)
  <2>1. PICK gs \in ObjectsInScope(ghost, {o}, scopeAlways) :
          ghost' = [i \in Indices |->
                     IF gs[i].obj = o THEN [gs[i] EXCEPT !.flags = @ \cup {"ScopeLocalAlways"}]
                                      ELSE gs[i]]
    BY <1>8 DEF ObjectLocalScopeAlways
  <2>2. \A i \in Indices : Ok(gs[i], i)
    <3> HIDE DEF Ok
    <3> QED BY <1>4
  <2>3. ASSUME NEW i \in Indices
        PROVE  Ok(ghost'[i], i)
    <3>1. CASE gs[i].obj = o
      <4>1. gs[i] \in GhostInfo /\ gs[i].flags \in SUBSET Flags
        BY <2>2 DEF InfoInv, GhostInfo
      <4>2. ghost'[i] = [gs[i] EXCEPT !.flags = gs[i].flags \cup {"ScopeLocalAlways"}]
        BY <2>1, <3>1
      <4>3. gs[i].flags \cup {"ScopeLocalAlways"} \in SUBSET Flags
        BY <4>1 DEF Flags
      <4>4. \A flag \in Flags \ {"InScope", "ScopeAlways", "ScopeLocalAlways"} :
              flag \in gs[i].flags \cup {"ScopeLocalAlways"} <=> flag \in gs[i].flags
        OBVIOUS
      <4> HIDE DEF Ok
      <4> QED BY <1>7, <2>2, <3>1, <4>1, <4>2, <4>3, <4>4
    <3>2. CASE gs[i].obj # o
      <4>1. ghost'[i] = gs[i]
        BY <2>1, <3>2
      <4> HIDE DEF Ok
      <4> QED BY <2>2, <4>1
    <3> QED BY <3>1, <3>2
  <2>4. (ghost = [i \in Indices |-> ghost[i]])'
    BY <2>1
  <2> QED BY <2>3, <2>4
<1>9. CASE ObjectLocalClearAlways(o)
  <2>1. ghost' = [i \in Indices |->
                   IF ghost[i].obj = o
                     THEN [ghost[i] EXCEPT !.flags = ghost[i].flags \ {"ScopeLocalAlways"}]
                     ELSE ghost[i]]
    BY <1>9 DEF ObjectLocalClearAlways, GhostsOf
  <2>2. ASSUME NEW i \in Indices
        PROVE  Ok(ghost'[i], i)
    <3>1. CASE ghost[i].obj = o
      <4>1. ghost[i].flags \ {"ScopeLocalAlways"} \in SUBSET Flags
        BY <1>3 DEF GhostInfo
      <4>2. ghost'[i] = [ghost[i] EXCEPT !.flags = ghost[i].flags \ {"ScopeLocalAlways"}]
        BY <2>1, <3>1
      <4>3. \A flag \in Flags \ {"InScope", "ScopeAlways", "ScopeLocalAlways"} :
              flag \in ghost[i].flags \ {"ScopeLocalAlways"} <=> flag \in ghost[i].flags
        OBVIOUS
      <4>4. PICK flags \in SUBSET Flags : flags = ghost[i].flags \ {"ScopeLocalAlways"}
        BY <4>1
      <4>5. Ok(ghost[i], i) /\ ghost[i] \in GhostInfo
        BY <1>3
      <4> HIDE DEF Ok
      <4>6. Ok([ghost[i] EXCEPT !.flags = flags], i)
        BY <1>7, <3>1, <4>3, <4>4, <4>5
      <4> QED BY <4>2, <4>4, <4>6
    <3>2. CASE ghost[i].obj # o
      <4>1. ghost'[i] = ghost[i]
        BY <2>1, <3>2
      <4> HIDE DEF Ok
      <4> QED BY <1>3, <4>1
    <3> QED BY <3>1, <3>2
  <2>3. (ghost = [i \in Indices |-> ghost[i]])'
    BY <2>1
  <2> QED BY <2>2, <2>3
<1> QED BY <1>5, <1>6, <1>8, <1>9

\* A packet is filled: the scope query, the masks of what it reports, the refs.
LEMMA SendPacketStep ==
  ASSUME IInv, SendPacket
  PROVE  IInv'
<1>1. /\ Net!Send /\ GhostWritePacket
      /\ UNCHANGED <<alive, version, dirty, scopeAlways, localGhost, scopings, waived>>
  BY DEF SendPacket, objectVars
<1> DEFINE Ok(g, i) == InfoInv(g, i, contents, window, localGhost[i], version, dirty, waived, alive)
           left == [i \in Indices |-> LeaveScope(ghost[i])]
           filled(scoped) ==
             LET gs == [i \in Indices |-> DropOutOfScope(scoped[i])]
                 writable == {i \in Indices : Writable(gs[i])}
             IN  \E sent \in SUBSET writable :
                 \E retained \in [sent -> IF PackRetains THEN SUBSET Bits ELSE {{}}] :
                   /\ sent = {} => writable = {}
                   /\ \A i \in sent, j \in writable \ sent : Priority(gs[i]) >= Priority(gs[j])
                   /\ \A i \in sent : retained[i] \subseteq gs[i].mask
                   /\ contents' = Append(contents, [i \in sent |-> RefFor(gs[i], retained[i])])
                   /\ ghost' = [i \in Indices |->
                                  IF i \in sent THEN Written(gs[i], retained[i]) ELSE gs[i]]
<1>2. PICK inView \in SUBSET (alive \ scopeAlways) :
        \E scoped \in ObjectsInScope(left, inView, {}) : filled(scoped)
  BY <1>1, Zenon DEF GhostWritePacket
<1>3. PICK scoped \in ObjectsInScope(left, inView, {}) : filled(scoped)
  BY <1>2
<1> DEFINE gs == [i \in Indices |-> DropOutOfScope(scoped[i])]
           writable == {i \in Indices : Writable(gs[i])}
<1>4. PICK sent, retained :
        /\ sent \in SUBSET writable
        /\ \A i \in sent : retained[i] \subseteq gs[i].mask
        /\ contents' = Append(contents, [i \in sent |-> RefFor(gs[i], retained[i])])
        /\ ghost' = [i \in Indices |->
                       IF i \in sent THEN Written(gs[i], retained[i]) ELSE gs[i]]
  BY <1>3
<1>5. \A i \in Indices : Ok(left[i], i)
  BY IInvFacts, LeaveScopeSound
<1>6. \A i \in Indices : Ok(scoped[i], i)
  <2>1. DOMAIN left = Indices /\ inView \subseteq alive
    OBVIOUS
  <2> HIDE DEF left
  <2> QED BY <1>5, <2>1, IInvFacts, ObjectsInScopeSound
<1>7. \A i \in Indices :
        /\ Ok(gs[i], i)
        /\ ~(gs[i].range = "nonzero" /\ "KillGhost" \in gs[i].flags
               /\ "NotYetGhosted" \in gs[i].flags)
  <2>1. \A i \in Indices : gs[i] = DropOutOfScope(scoped[i])
    OBVIOUS
  <2> HIDE DEF gs
  <2> QED BY <1>6, <2>1, DropOutOfScopeSound
<1>8. \A i \in sent : /\ i \in Indices /\ Writable(gs[i])
                      /\ ~("KillGhost" \in gs[i].flags /\ "NotYetGhosted" \in gs[i].flags)
  <2>1. \A i \in sent : i \in Indices /\ Writable(gs[i])
    BY <1>4
  <2> HIDE DEF gs, writable
  <2> QED BY <1>7, <2>1 DEF Writable
<1> HIDE DEF gs, writable, left
<1>9. PICK f : f = [i \in sent |-> RefFor(gs[i], retained[i])]
  OBVIOUS
<1>10. \A i \in sent : f[i] = RefOf(gs[i], retained[i], version)
  BY <1>9 DEF RefFor, RefOf
<1>11. DOMAIN f = sent /\ f \in GhostLists
  <2>1. version \in [Objects -> [Bits -> Nat]]
    BY IInvFacts DEF TablesInv
  <2>2. ASSUME NEW i \in sent
        PROVE  f[i] \in GhostRef
    <3>1. Lifetime(gs[i], i, contents, window, localGhost[i]) /\ gs[i] \in GhostInfo
      BY <1>7, <1>8 DEF InfoInv
    <3> QED BY <1>8, <1>10, <2>1, <3>1, RefOfType
  <2>3. sent \in SUBSET Indices /\ f \in [sent -> GhostRef]
    BY <1>8, <1>9, <2>2
  <2> QED BY <2>3 DEF GhostLists
<1>12. PICK cs2, w2, n : /\ cs2 = With(contents, f) /\ w2 = With(window, "flying")
                         /\ n = Len(contents) + 1
  OBVIOUS
<1>13. contents' = cs2 /\ window' = w2 /\ n \in Nat
  <2>1. Len(contents) \in Nat
    BY IInvFacts, Refs
  <2> QED BY <1>1, <1>4, <1>9, <1>12, <2>1 DEF Net!Send, With
<1>14. /\ WindowInv(cs2, w2) /\ w2[n] = "flying" /\ cs2[n] = f
       /\ \A i : \A k \in Holders(contents, i) : k < n /\ w2[k] = window[k] /\ cs2[k] = contents[k]
       /\ \A i \in sent : Holders(cs2, i) = Holders(contents, i) \cup {n}
       /\ \A i : i \notin sent => Holders(cs2, i) = Holders(contents, i)
  BY <1>11, <1>12, IInvFacts, Sending
<1>15. ASSUME NEW i \in Indices
       PROVE  IndexInv(i)'
  <2>1. /\ InfoInv(gs[i], i, contents, window, localGhost[i], version, dirty, waived, alive)
        /\ Grows(i, contents, window, localGhost[i], version)
        /\ localGhost[i] \in {None} \cup LocalGhost
        /\ TablesInv(version, dirty, waived, alive) /\ WindowInv(contents, window)
    BY <1>7, IInvFacts
  <2>2. CASE i \in sent
    <3>1. ghost'[i] = Written(gs[i], retained[i])
      BY <1>4, <2>2
    <3>2. retained[i] \subseteq gs[i].mask /\ cs2[n][i] = RefOf(gs[i], retained[i], version)
      BY <1>4, <1>10, <1>14, <2>2
    <3>3. /\ InfoInv(Written(gs[i], retained[i]), i, cs2, w2, localGhost[i],
                     version, dirty, waived, alive)
          /\ Grows(i, cs2, w2, localGhost[i], version)
      <4>1. PICK g, r, l : g = gs[i] /\ r = retained[i] /\ l = localGhost[i]
        OBVIOUS
      <4>2. /\ l \in {None} \cup LocalGhost
            /\ TablesInv(version, dirty, waived, alive) /\ WindowInv(contents, window)
            /\ InfoInv(g, i, contents, window, l, version, dirty, waived, alive)
            /\ Grows(i, contents, window, l, version)
            /\ SentRef(g, r, version, i, contents, window, cs2, w2, n)
        BY <1>8, <1>13, <1>14, <2>1, <2>2, <3>2, <4>1 DEF SentRef
      <4>3. /\ InfoInv(Written(g, r), i, cs2, w2, l, version, dirty, waived, alive)
            /\ Grows(i, cs2, w2, l, version)
        BY <4>2, SendSound
      <4> QED BY <4>1, <4>3
    <3> QED BY <1>1, <1>13, <2>1, <3>1, <3>3 DEF IndexInv
  <2>3. CASE i \notin sent
    <3>1. ghost'[i] = gs[i]
      BY <1>4, <2>3
    <3>2. /\ InfoInv(gs[i], i, cs2, w2, localGhost[i], version, dirty, waived, alive)
          /\ Grows(i, cs2, w2, localGhost[i], version)
      BY <1>14, <2>1, <2>3, SameRefs
    <3> QED BY <1>1, <1>13, <2>1, <3>1, <3>2 DEF IndexInv
  <2> QED BY <2>2, <2>3
<1>16. (ghost = [i \in Indices |-> ghost[i]])'
  BY <1>4
<1> QED BY <1>1, <1>13, <1>14, <1>15, <1>16 DEF IInv

\* A packet is handled: the client reads its refs.
LEMMA HandlePacketStep ==
  ASSUME IInv, NEW k \in DOMAIN window, HandlePacket(k)
  PROVE  IInv'
<1>1. /\ window[k] = "flying" /\ window' = Handled(window, k)
      /\ localGhost' = [i \in Indices |->
                          IF i \in DOMAIN contents[k] THEN ReadRef(localGhost[i], contents[k][i])
                                                      ELSE localGhost[i]]
      /\ UNCHANGED <<alive, version, dirty, scopeAlways, ghost, contents, scopings, waived>>
  BY DEF HandlePacket, Net!Handle, Handled, objectVars
<1>2. PICK w2 : w2 = Handled(window, k)
  OBVIOUS
<1>3. /\ WindowInv(contents, w2)
      /\ \A j \in DOMAIN window : j # k =>
           /\ (w2[j] = "handled") <=> (window[j] = "handled")
           /\ (w2[j] = "flying") => (window[j] = "flying")
      /\ DOMAIN contents = DOMAIN window
  BY <1>1, <1>2, IInvFacts, Handling, Refs
<1>4. ASSUME NEW i \in Indices
      PROVE  IndexInv(i)'
  <2>1. /\ InfoInv(ghost[i], i, contents, window, localGhost[i], version, dirty, waived, alive)
        /\ Grows(i, contents, window, localGhost[i], version)
        /\ localGhost[i] \in {None} \cup LocalGhost
        /\ TablesInv(version, dirty, waived, alive) /\ WindowInv(contents, window)
    BY IInvFacts
  <2>2. CASE i \in DOMAIN contents[k]
    <3>1. k \in Holders(contents, i)
      BY <1>3, <2>2 DEF Holders
    <3>2. localGhost'[i] = ReadRef(localGhost[i], contents[k][i])
      BY <1>1, <2>2
    <3>3. /\ ReadRef(localGhost[i], contents[k][i]) \in {None} \cup LocalGhost
          /\ InfoInv(ghost[i], i, contents, w2, ReadRef(localGhost[i], contents[k][i]),
                     version, dirty, waived, alive)
          /\ Grows(i, contents, w2, ReadRef(localGhost[i], contents[k][i]), version)
      BY <1>1, <1>2, <2>1, <3>1, HandleSound
    <3> QED BY <1>1, <1>2, <3>2, <3>3 DEF IndexInv
  <2>3. CASE i \notin DOMAIN contents[k]
    <3>1. localGhost'[i] = localGhost[i]
      BY <1>1, <2>3
    <3>2. \A j \in Holders(contents, i) :
            /\ (w2[j] = "handled") <=> (window[j] = "handled")
            /\ (w2[j] = "flying") => (window[j] = "flying")
      BY <1>3, <2>3 DEF Holders
    <3>3. /\ InfoInv(ghost[i], i, contents, w2, localGhost[i], version, dirty, waived, alive)
          /\ Grows(i, contents, w2, localGhost[i], version)
      BY <2>1, <3>2, SameRefs
    <3> QED BY <1>1, <1>2, <2>1, <3>1, <3>3 DEF IndexInv
  <2> QED BY <2>2, <2>3
<1>5. (localGhost = [i \in Indices |-> localGhost[i]])'
  BY <1>1
<1> QED BY <1>1, <1>2, <1>3, <1>4, <1>5 DEF IInv

\* The oldest packet is notified.
LEMMA HandleNotifyStep ==
  ASSUME IInv, HandleNotify
  PROVE  IInv'
<1>1. /\ window # <<>> /\ window[1] # "flying" /\ window' = SubSeq(window, 2, Len(window))
      /\ contents' = Rest(contents)
      /\ ghost' = [i \in Indices |->
                     IF i \notin DOMAIN contents[1] THEN ghost[i]
                     ELSE IF window[1] = "handled" THEN Received(ghost[i], contents[1][i])
                                                   ELSE Dropped(ghost[i], i, contents[1][i])]
      /\ UNCHANGED <<alive, version, dirty, scopeAlways, localGhost, scopings, waived>>
  BY DEF HandleNotify, Net!Notify, objectVars, Rest
<1>2. /\ WindowInv(contents, window) /\ TablesInv(version, dirty, waived, alive)
      /\ window \in Seq(Net!Fates) /\ DOMAIN contents = DOMAIN window
      /\ 1 \in DOMAIN window /\ window[1] \in {"handled", "lost"}
  BY <1>1, IInvFacts, Refs, RestWindow DEF WindowInv, Net!Fates
<1>3. window' = Rest(window)
  BY <1>1, <1>2, TailIsSubSeq DEF Rest
<1>4. PICK cs2, w2 : cs2 = Rest(contents) /\ w2 = Rest(window)
  OBVIOUS
<1>5. ASSUME NEW i \in Indices
      PROVE  IndexInv(i)'
  <2>1. /\ InfoInv(ghost[i], i, contents, window, localGhost[i], version, dirty, waived, alive)
        /\ Grows(i, contents, window, localGhost[i], version)
        /\ localGhost[i] \in {None} \cup LocalGhost
    BY IInvFacts
  <2>2. Grows(i, cs2, w2, localGhost[i], version)
    BY <1>1, <1>2, <1>4, <2>1, GrowsForgetting
  <2>3. CASE i \notin DOMAIN contents[1]
    <3>1. 1 \notin Holders(contents, i) /\ ghost'[i] = ghost[i]
      BY <1>1, <2>3 DEF Holders
    <3>2. InfoInv(ghost[i], i, cs2, w2, localGhost[i], version, dirty, waived, alive)
      BY <1>1, <1>2, <1>4, <2>1, <3>1, ForgetOther
    <3> QED BY <1>1, <1>3, <1>4, <2>1, <2>2, <3>1, <3>2 DEF IndexInv
  <2>4. CASE i \in DOMAIN contents[1] /\ window[1] = "handled"
    <3>1. 1 \in Holders(contents, i) /\ ghost'[i] = Received(ghost[i], contents[1][i])
      BY <1>1, <1>2, <2>4 DEF Holders
    <3>2. InfoInv(Received(ghost[i], contents[1][i]), i, cs2, w2, localGhost[i],
                  version, dirty, waived, alive)
      BY <1>1, <1>2, <1>4, <2>1, <2>4, <3>1, ReceivedSound
    <3> QED BY <1>1, <1>3, <1>4, <2>1, <2>2, <3>1, <3>2 DEF IndexInv
  <2>5. CASE i \in DOMAIN contents[1] /\ window[1] = "lost"
    <3>1. 1 \in Holders(contents, i) /\ ghost'[i] = Dropped(ghost[i], i, contents[1][i])
      BY <1>1, <1>2, <2>5 DEF Holders
    <3>2. Dropped(ghost[i], i, contents[1][i])
            = DroppedWith(ghost[i], contents[1][i], SentSince(i))
      BY DEF Dropped, DroppedWith
    <3>3. \A b : b \in SentSince(i) <=> \E k \in Holders(contents, i) \ {1} : b \in contents[k][i].mask
      <4>1. /\ Len(contents) \in Nat /\ DOMAIN contents = 1 .. Len(contents)
        BY <1>2, Refs
      <4>2. \A k : k \in {n \in 2 .. Len(contents) : i \in DOMAIN contents[n]}
                     <=> k \in Holders(contents, i) \ {1}
        <5>1. \A k : k \in 2 .. Len(contents) <=> k \in (1 .. Len(contents)) \ {1}
          BY <4>1
        <5> QED BY <4>1, <5>1 DEF Holders
      <4> DEFINE later == {n \in 2 .. Len(contents) : i \in DOMAIN contents[n]}
      <4>3. SentSince(i) = UNION {contents[k][i].mask : k \in later}
        BY DEF SentSince
      <4> HIDE DEF later
      <4>4. \A b : b \in SentSince(i) <=> \E k \in later : b \in contents[k][i].mask
        BY <4>3
      <4>5. \A k : k \in later <=> k \in Holders(contents, i) \ {1}
        BY <4>2 DEF later
      <4> QED BY <4>4, <4>5
    <3>4. PICK since : since = SentSince(i)
      OBVIOUS
    <3>5. InfoInv(DroppedWith(ghost[i], contents[1][i], since), i, cs2, w2, localGhost[i],
                  version, dirty, waived, alive)
      BY <1>1, <1>2, <1>4, <2>1, <2>5, <3>1, <3>3, <3>4, DroppedSound
    <3> QED BY <1>1, <1>3, <1>4, <2>1, <2>2, <3>1, <3>2, <3>4, <3>5 DEF IndexInv
  <2> QED BY <1>2, <2>3, <2>4, <2>5
<1>6. WindowInv(contents', window')
  BY <1>1, <1>2, <1>3, RestWindow
<1>7. (ghost = [i \in Indices |-> ghost[i]])' /\ (localGhost = [i \in Indices |-> localGhost[i]])'
  BY <1>1 DEF IInv
<1> QED BY <1>1, <1>5, <1>6, <1>7 DEF IInv

LEMMA NextIInv == IInv /\ [Next]_vars => IInv'
<1> SUFFICES ASSUME IInv, [Next]_vars PROVE IInv'
  OBVIOUS
<1>1. ASSUME NEW o \in Objects,
             \/ \E b \in Bits : SetMaskBits(o, b)
             \/ \E bits \in ClearMasks : ClearMaskBits(o, bits)
             \/ DeleteObject(o)
      PROVE  IInv'
  BY <1>1, SetMaskBitsStep, ClearMaskBitsStep, DeleteObjectStep
<1>2. ASSUME NEW o \in Objects,
             SetScopeAlways(o) \/ ClearScopeAlways(o) \/ ObjectLocalScopeAlways(o)
               \/ ObjectLocalClearAlways(o)
      PROVE  IInv'
  BY <1>2, RescopeStep
<1>3. CASE CollapseDirtyList
  BY <1>3, CollapseStep
<1>4. CASE SendPacket
  BY <1>4, SendPacketStep
<1>5. CASE HandleNotify
  BY <1>5, HandleNotifyStep
<1>6. ASSUME NEW k \in DOMAIN window, HandlePacket(k)
      PROVE  IInv'
  BY <1>6, HandlePacketStep
<1>7. CASE UNCHANGED vars
  BY <1>7 DEF vars, objectVars, IInv, IndexInv
<1> QED BY <1>1, <1>2, <1>3, <1>4, <1>5, <1>6, <1>7 DEF Next

LEMMA SpecIInv == Spec => []IInv
BY InitIInv, NextIInv, PTL DEF Spec

-----------------------------------------------------------------------------
(* What follows.                                                           *)

LEMMA IInvType == IInv => TypeOK
<1> SUFFICES ASSUME IInv PROVE TypeOK
  OBVIOUS
<1>1. ghost \in [Indices -> GhostInfo] /\ localGhost \in [Indices -> {None} \cup LocalGhost]
  <2>1. ghost = [i \in Indices |-> ghost[i]] /\ \A i \in Indices : ghost[i] \in GhostInfo
    BY DEF IInv, IndexInv, InfoInv
  <2>2. /\ localGhost = [i \in Indices |-> localGhost[i]]
        /\ \A i \in Indices : localGhost[i] \in {None} \cup LocalGhost
    BY DEF IInv, IndexInv
  <2> QED BY <2>1, <2>2
<1>2. /\ contents \in Seq(GhostLists) /\ window \in Seq(Net!Fates) /\ Len(contents) = Len(window)
      /\ version \in [Objects -> [Bits -> Nat]]
      /\ dirty \in [Objects -> SUBSET Bits] /\ waived \in [Objects -> SUBSET Bits]
  BY DEF IInv, WindowInv, TablesInv
<1>3. ASSUME NEW k \in DOMAIN contents
      PROVE  DOMAIN contents[k] \subseteq Indices /\ Range(contents[k]) \subseteq GhostRef
  <2>1. contents[k] \in GhostLists
    BY <1>2, LenProperties, ElementOfSeq
  <2> QED BY <2>1 DEF GhostLists, Range
<1> QED BY <1>1, <1>2, <1>3, IInvFacts DEF TypeOK

\* Every state is of its type: what the handlers leave in the tables and in the
\* packets is what they expect to find there.
THEOREM TypeCorrect == Spec => []TypeOK
BY SpecIInv, IInvType, PTL

LEMMA IInvTable == IInv => FreeIndexUnused /\ WrittenObjectsExist
<1> SUFFICES ASSUME IInv, NEW i \in Indices
             PROVE  /\ ghost[i].range = "free" =>
                         localGhost[i] = None /\ \A k \in DOMAIN contents : i \notin DOMAIN contents[k]
                    /\ ghost[i].range = "nonzero"
                         /\ ghost[i].flags \cap {"KillGhost", "KillingGhost"} = {} =>
                           ghost[i].obj \in alive
  BY DEF FreeIndexUnused, WrittenObjectsExist
<1>1. /\ Lifetime(ghost[i], i, contents, window, localGhost[i])
      /\ ghost[i].obj # None => ghost[i].obj \in alive
  BY IInvFacts DEF InfoInv
<1> QED BY <1>1 DEF Lifetime, Unused, FlagsSound, Holders

\* A ghost index the server takes for free is in use nowhere, whatever the
\* network has lost, and the objects ghostWritePacket asks for an update exist.
THEOREM FreeIndices == Spec => [](FreeIndexUnused /\ WrittenObjectsExist)
BY SpecIInv, IInvTable, PTL

\* The whole of GhostTableSound, with the ranges of mGhostArray in step with the
\* masks: as long as clearMaskBits is called with one bit (netObject.cc:99
\* compares the mask with all the bits cleared).
THEOREM TableSound ==
  ASSUME OneBitMasks
  PROVE  Spec => []GhostTableSound
<1>1. IInv => GhostTableSound
  <2>1. IInv => GhostArrayValid
    BY IInvFacts DEF GhostArrayValid, InfoInv
  <2> QED BY <2>1, IInvType, IInvTable DEF GhostTableSound
<1> QED BY <1>1, SpecIInv, PTL

\* The client takes each update for what the server meant: from the class id it
\* reads for a new ghost to the object it updates, although both only guess
\* what the other has.
THEOREM UpdatesAreReadAsWritten == Spec => []ReadsAsWritten
<1>1. IInv => ReadsAsWritten
  <2> SUFFICES ASSUME IInv, NEW k \in DOMAIN contents, window[k] = "flying",
                      NEW i \in DOMAIN contents[k]
               PROVE  /\ (contents[k][i].kind = "ghosting") <=> (localGhost[i] = None)
                      /\ contents[k][i].kind = "update" => localGhost[i].obj = contents[k][i].obj
    BY DEF ReadsAsWritten
  <2>1. i \in Indices /\ k \in Holders(contents, i)
    BY IInvFacts, Refs DEF Holders
  <2>2. /\ WindowInv(contents, window) /\ localGhost[i] \in {None} \cup LocalGhost
        /\ Lifetime(ghost[i], i, contents, window, localGhost[i])
    BY <2>1, IInvFacts DEF InfoInv
  <2> QED BY <2>1, <2>2, FlyingRef
<1> QED BY <1>1, SpecIInv, PTL

\* No change of an object is forgotten: the client has it, or it is still to be
\* sent, or a packet that carries it can still arrive.
THEOREM NoChangeIsForgotten == Spec => []StaleIsComing
<1>1. IInv => StaleIsComing
  <2> SUFFICES ASSUME IInv, NEW i \in Indices, NEW b \in Bits, ghost[i].obj # None,
                      b \notin waived[ghost[i].obj], Known(i, b) # version[ghost[i].obj][b]
               PROVE  \/ b \in dirty[ghost[i].obj] \cup ghost[i].mask
                      \/ \E k \in Carriers(i) : /\ b \in contents[k][i].mask
                                                /\ contents[k][i].vers[b] = version[ghost[i].obj][b]
    BY DEF StaleIsComing
  <2>1. Coming(ghost[i], i, contents, window, localGhost[i], version, dirty, waived)
    BY IInvFacts DEF InfoInv
  <2>2. ~(localGhost[i] # None /\ localGhost[i].vers[b] = version[ghost[i].obj][b])
    BY DEF Known
  <2> QED BY <2>1, <2>2 DEF Coming, Carriers, Holders
<1> QED BY <1>1, SpecIInv, PTL

\* No ghost of a deleted object, or of one out of scope, stays at the client: its
\* kill is waiting to be sent, or on its way.
THEOREM NoKillIsForgotten == Spec => []KillIsComing
<1>1. IInv => KillIsComing
  <2> SUFFICES ASSUME IInv, NEW i \in Indices, ghost[i].obj = None, localGhost[i] # None
               PROVE  \/ ghost[i].range = "nonzero" /\ "KillGhost" \in ghost[i].flags
                      \/ \E k \in Carriers(i) : contents[k][i].kind = "killing"
    BY DEF KillIsComing
  <2>1. Lifetime(ghost[i], i, contents, window, localGhost[i])
    BY IInvFacts DEF InfoInv
  <2>2. FlagsSound(ghost[i])
    BY <2>1 DEF Lifetime, Unused
  <2>3. CASE "KillGhost" \in ghost[i].flags
    BY <2>2, <2>3 DEF FlagsSound
  <2>4. CASE "KillingGhost" \in ghost[i].flags
    <3>1. Dying(ghost[i], i, contents, window, localGhost[i])
      BY <2>1, <2>4 DEF Lifetime, Unused, Unsent, Creating, Created, InPhase
    <3> QED BY <3>1 DEF Dying, Carriers, Holders
  <2> QED BY <2>2, <2>3, <2>4 DEF FlagsSound
<1> QED BY <1>1, SpecIInv, PTL
=============================================================================
