-------------------------- MODULE ToolCallsProofs ---------------------------
(***************************************************************************)
(* Proofs about the tools that act or answer at once, for any number of    *)
(* clients, principals, guests, versions and waivers.                      *)
(*                                                                         *)
(* Every call is sound: it was justified by the world as it was at some    *)
(* version since it began.  A sound call stays sound whatever the world    *)
(* does (SoundPersists), because a version is never rewritten; and every   *)
(* step of a call leaves it sound (StartMoves, NextStep).                  *)
(***************************************************************************)
EXTENDS ToolCalls, FiniteSetTheorems, TLAPS

-----------------------------------------------------------------------------
(***************************************************************************)
(* The inductive invariant.                                                *)
(***************************************************************************)

\* A request that interrupts had its reason, and a pin its override.  The time when it was
\* lifted and the version that holds the guest come apart here; LiftedAtOnce
\* brings them together.
Justified(k) ==
  k.at = "send" /\ k.interrupts =>
    /\ \E version \in k.began .. now : \E guest \in past[version][k.vmid] :
         /\ AllowsGuest(Grants[k.by], guest)
         /\ Protected(Served, {guest}, FALSE) => LiftedSince(k)
    /\ k.vmid \in Served.protected_vmids => k.override

\* A request on a guest reaches one that was in scope (ReachesOnlyAdmitted).
Admitted(k) ==
  k.at \in {"send", "make"} /\ k.vmid # None =>
    \E version \in 0 .. now : \E guest \in past[version][k.vmid] :
      AllowsGuest(Grants[k.by], guest) /\ k.kind \in {"any", guest.type}

\* What a walk has shown was in scope (ListsOnlyScope).
InScope(k) ==
  \A v \in k.seen :
    \E version \in k.began .. now : \E guest \in past[version][v] :
      AllowsGuest(Grants[k.by], guest)

\* The listing has lost a guest since the walk began.
Shrunk(k) ==
  \E i \in k.began .. (now - 1) :
    ~(Visible(k.by, k.kind, i) \subseteq Visible(k.by, k.kind, i + 1))

\* Without such a loss, all that was there at the start and lies before the offset has
\* been shown (NoneSkipped).
Complete(k) ==
  k.at \in {"list", "listed"} =>
    \/ Shrunk(k)
    \/ /\ Visible(k.by, k.kind, k.began) \subseteq Visible(k.by, k.kind, now)
       /\ \A v \in Visible(k.by, k.kind, k.began) :
            \/ v \in k.seen
            \/ k.at = "list" /\ Position(Visible(k.by, k.kind, now), v) >= k.offset

\* What the later steps of a call rely on.
Prepared(k) ==
  /\ k.at # "idle" => k.by \in Principals
  /\ k.at \in {"resolve", "authorize", "read"} => k.vmid \in Vmids
  /\ k.at = "read" => ~k.interrupts
  /\ k.at = "vacancy" => k.vmid = None
  /\ k.at \in {"vacancy", "make"} => k.newid \in Vmids /\ MayMake(k.by, k.newid)
  /\ k.at \in {"resolve", "authorize"} /\ k.tool = "clone_vm" => k.newid \in Vmids
  /\ k.config # "restoring"
  /\ k.at \in {"list", "listed"} \/ k.seen = {}

\* The index answers an interrupting call from after its beginning; an override had its
\* reason; what came about after the version when the call began is no older than the call.
Dated(k) ==
  /\ k.floor <= now /\ k.began <= now /\ k.since <= clock
  /\ \A j \in 0 .. now : k.began < j => k.since <= arose[j]
  /\ k.interrupts => k.began <= k.floor
  /\ k.override => LiftedSince(k)

Sound(k) ==
  Prepared(k) /\ Dated(k) /\ Justified(k) /\ Admitted(k) /\ InScope(k) /\ Complete(k)

\* A VMID holds one guest at most, which bears it, and what was made was within the grant.
History ==
  /\ \A k \in Versions, v \in Vmids : \A guest \in past[k][v] : guest.vmid = v
  /\ \A k \in Versions, v \in Vmids : \A a, b \in past[k][v] : a = b
  /\ MadeWithinGrant

\* The versions came about one after the other, none later than now.
Aged ==
  /\ \A j \in 0 .. now : arose[j] <= clock
  /\ \A j \in 0 .. (now - 1) : arose[j] <= arose[j + 1]

Ind ==
  /\ TypeOK
  /\ History
  /\ Aged
  /\ \A c \in Clients : Sound(call[c])

\* What any step does to the world: a version that was reached stays.
WorldGrows ==
  /\ now' \in Versions /\ now <= now'
  /\ now' = now \/ now' = now + 1
  /\ past' \in [Versions -> [Vmids -> SUBSET Guests]]
  /\ \A k \in 0 .. now : past'[k] = past[k]
  /\ clock' \in 0 .. MaxTime /\ clock <= clock'
  /\ arose' \in [Versions -> 0 .. MaxTime]
  /\ \A k \in 0 .. now : arose'[k] = arose[k]
  /\ now' = now + 1 => arose'[now'] = clock

-----------------------------------------------------------------------------
(***************************************************************************)
(* The locals of a call.                                                   *)
(***************************************************************************)

\* The locals of an idle client are typed, field by field.
LEMMA IdleTyped ==
  /\ Idle \in Calls
  /\ Idle.at = "idle" /\ Idle.tool = None /\ Idle.by = None /\ Idle.vmid = None
  /\ Idle.newid = None /\ Idle.kind = "any" /\ Idle.config = "none"
  /\ Idle.interrupts = FALSE /\ Idle.override = FALSE /\ Idle.began = 0
  /\ Idle.since = 0 /\ Idle.pins = {} /\ Idle.floor = 0 /\ Idle.offset = 0
  /\ Idle.limit = 0 /\ Idle.seen = {}
  <1>1. 0 \in Versions /\ 0 \in 0 .. MaxTime /\ 0 \in 0 .. MaxLimit
    BY BoundAssumption DEF Versions
  <1>2. {} \in SUBSET Vmids
    OBVIOUS
  <1> QED
    BY <1>1, <1>2 DEF Idle, Calls, Steps, Kinds, Configs

Fields == {"at", "tool", "by", "vmid", "newid", "kind", "config", "interrupts", "override",
           "began", "since", "pins", "floor", "offset", "limit", "seen"}

\* A record is the locals of a call if every field is typed.
LEMMA CallsMember ==
  ASSUME NEW r, DOMAIN r = Fields, r = [f \in Fields |-> r[f]], r["at"] \in Steps,
    r["tool"] \in (UNION {Asks[c] : c \in Clients}) \cup {None},
    r["by"] \in Principals \cup {None}, r["vmid"] \in Vmids \cup {None},
    r["newid"] \in Vmids \cup {None}, r["kind"] \in Kinds,
    r["config"] \in Configs \cup {"none"}, r["interrupts"] \in BOOLEAN,
    r["override"] \in BOOLEAN, r["began"] \in Versions, r["since"] \in 0 .. MaxTime,
    r["pins"] \in {{}} \cup {i.protected_vmids : i \in Inventories},
    r["floor"] \in Versions, r["offset"] \in Nat, r["limit"] \in 0 .. MaxLimit,
    r["seen"] \in SUBSET Vmids
  PROVE  r \in Calls
  BY DEF Calls, Fields

\* A step that only moves a call on.
LEMMA Moved ==
  ASSUME NEW r \in Calls, NEW s \in Steps
  PROVE  /\ [r EXCEPT !.at = s] \in Calls
         /\ [r EXCEPT !.at = s].at = s
         /\ \A f \in Fields \ {"at"} : [r EXCEPT !.at = s][f] = r[f]
  BY DEF Calls, Fields

\* What Begin leaves of a client's locals.
LEMMA BeginStep ==
  ASSUME TypeOK, NEW c \in Clients, NEW s \in Steps, NEW by \in Principals,
         NEW tool, tool \in UNION {Asks[d] : d \in Clients},
         NEW locals, Begin(c, s, tool, by, locals)
  PROVE  /\ call'[c].at = s /\ call'[c].tool = tool /\ call'[c].by = by
         /\ \A f \in Fields \ {"at", "tool", "by"} :
              call'[c][f] = IF f \in DOMAIN locals THEN locals[f] ELSE Idle[f]
         /\ DOMAIN call'[c] = Fields
         /\ call'[c] = [f \in Fields |-> call'[c][f]]
  BY DEF TypeOK, Begin, Idle, Fields

-----------------------------------------------------------------------------
(***************************************************************************)
(* Guests.                                                                 *)
(***************************************************************************)

\* A guest found at a VMID, whoever is recorded as its maker, is a guest.
LEMMA LifeIsGuest ==
  ASSUME NEW v \in Vmids, NEW g \in Lives[v], NEW m \in Principals \cup {"others"}
  PROVE  /\ [g EXCEPT !.made = m] \in Guests
         /\ [g EXCEPT !.made = m].made = m /\ [g EXCEPT !.made = m].vmid = v
         /\ [g EXCEPT !.made = m].type = g.type
         /\ g \in Guests /\ g.made = "others" /\ g.vmid = v
  <1>1. g.made = "others" /\ g.vmid = v /\ DOMAIN g = {"vmid", "type", "node", "pool", "tags", "made"}
        /\ g = [f \in DOMAIN g |-> g[f]]
    BY LivesAssumption
  <1>2. [g EXCEPT !.made = m] \in Guests
    BY DEF Guests
  <1>3. [g EXCEPT !.made = "others"] \in Guests
    BY DEF Guests
  <1>4. [g EXCEPT !.made = "others"] = g
    BY <1>1
  <1> QED
    BY <1>1, <1>2, <1>3, <1>4

\* Every guest is of one of the two kinds.
LEMMA GuestKind ==
  ASSUME NEW g \in Guests
  PROVE  g.type \in {"qemu", "lxc"} /\ g.made \in Principals \cup {"others"}
  <1>1. PICK v \in Vmids : \E h \in Lives[v], m \in Principals \cup {"others"} :
          g = [h EXCEPT !.made = m]
    BY DEF Guests
  <1>2. PICK h \in Lives[v], m \in Principals \cup {"others"} : g = [h EXCEPT !.made = m]
    BY <1>1
  <1>3. h.type \in {"qemu", "lxc"} /\ DOMAIN h = {"vmid", "type", "node", "pool", "tags", "made"}
    BY LivesAssumption
  <1> QED
    BY <1>2, <1>3

\* What a change of the cluster leaves.
LEMMA BecomesGrows ==
  ASSUME TypeOK, NEW w \in [Vmids -> SUBSET Guests], Becomes(w), UNCHANGED clock
  PROVE  WorldGrows /\ now' = now + 1 /\ past'[now'] = w
         /\ \A k \in Versions : past'[k] = past[k] \/ past'[k] = w
  BY BoundAssumption DEF TypeOK, Becomes, WorldGrows, Versions

-----------------------------------------------------------------------------
(***************************************************************************)
(* What others do to the world leaves a sound call sound.                  *)
(***************************************************************************)

\* What could be listed of an old version is what it was.
LEMMA VisibleStays ==
  ASSUME WorldGrows, NEW p, NEW kind, NEW k \in 0 .. now
  PROVE  Visible(p, kind, k)' = Visible(p, kind, k)
  BY DEF WorldGrows, Visible

\* A listing is a finite set of VMIDs, and a position in it is a number.
LEMMA Positions ==
  ASSUME NEW S \in SUBSET Vmids, NEW v
  PROVE  /\ IsFiniteSet(S) /\ Cardinality(S) \in Nat
         /\ Position(S, v) \in Nat
         /\ v \in S => Position(S, v) < Cardinality(S)
         /\ \A R \in SUBSET S : Position(R, v) <= Position(S, v)
  <1> DEFINE Before(R) == {q \in R : q < v}
  <1>1. IsFiniteSet(S) /\ Cardinality(S) \in Nat
    BY VmidsAssumption, FS_Subset, FS_CardinalityType
  <1>2. IsFiniteSet(Before(S)) /\ Cardinality(Before(S)) \in Nat
        /\ Cardinality(Before(S)) <= Cardinality(S)
        /\ (Cardinality(Before(S)) = Cardinality(S) => Before(S) = S)
    BY <1>1, FS_Subset, FS_CardinalityType
  <1>3. v \in S => v \notin Before(S)
    BY VmidsAssumption
  <1>4. ASSUME NEW R \in SUBSET S
        PROVE  Cardinality(Before(R)) <= Cardinality(Before(S))
    <2>1. Before(R) \subseteq Before(S)
      OBVIOUS
    <2> QED
      BY <2>1, <1>2, FS_Subset
  <1> QED
    BY <1>1, <1>2, <1>3, <1>4 DEF Position

\* A new version comes about now, after those before it.
LEMMA AgedPersists ==
  ASSUME TypeOK, WorldGrows, Aged
  PROVE  Aged'
  <1>1. /\ now \in Nat /\ clock \in Nat /\ clock' \in Nat /\ clock <= clock'
        /\ \A j \in 0 .. now : arose'[j] = arose[j] /\ arose[j] \in Nat /\ arose[j] <= clock
        /\ \A j \in 0 .. (now - 1) : arose[j] <= arose[j + 1]
    BY BoundAssumption DEF TypeOK, WorldGrows, Aged, Versions
  <1>2. CASE now' = now
    BY <1>1, <1>2 DEF Aged
  <1>3. CASE now' = now + 1
    <2>1. arose'[now + 1] = clock
      BY <1>3 DEF WorldGrows
    <2> QED
      BY <1>1, <1>3, <2>1 DEF Aged
  <1> QED
    BY <1>2, <1>3 DEF WorldGrows

\* Sound calls stay sound.
LEMMA SoundPersists ==
  ASSUME TypeOK, WorldGrows, NEW r \in Calls, Sound(r)
  PROVE  Sound(r)'
  <1> USE DEF Sound
  <1>0. /\ now \in Nat /\ now' \in Nat /\ clock \in Nat /\ clock' \in Nat
        /\ r.began \in Nat /\ r.floor \in Nat /\ r.since \in Nat /\ r.offset \in Nat
        /\ r.began <= now /\ now <= now' /\ clock <= clock'
    BY BoundAssumption DEF TypeOK, WorldGrows, Versions, Calls, Dated
  <1>1. Prepared(r)'
    BY DEF Prepared, MayMake, Served
  <1>2. LiftedSince(r) => LiftedSince(r)'
    BY <1>0 DEF LiftedSince
  <1>3. Dated(r)'
    <2>1. ASSUME NEW j \in 0 .. now', r.began < j
          PROVE  r.since <= arose'[j]
      <3>1. CASE j \in 0 .. now
        BY <2>1, <3>1 DEF Dated, WorldGrows
      <3>2. CASE j \notin 0 .. now
        <4>1. now' = now + 1 /\ j = now'
          BY <1>0, <2>1, <3>2 DEF WorldGrows
        <4> QED
          BY <4>1 DEF Dated, WorldGrows
      <3> QED
        BY <3>1, <3>2
    <2> QED
      BY <1>0, <1>2, <2>1 DEF Dated
  <1>4. Justified(r)'
    <2>0. r.at = "send" /\ r.interrupts /\ r.vmid \in Startup.protected_vmids => r.override
      BY DEF Justified, Served
    <2> SUFFICES ASSUME r.at = "send", r.interrupts
                 PROVE  \E version \in r.began .. now' : \E guest \in past'[version][r.vmid] :
                          /\ AllowsGuest(Grants[r.by], guest)
                          /\ Protected(Startup, {guest}, FALSE) => LiftedSince(r)'
      BY <2>0 DEF Justified, Served
    <2>1. PICK version \in r.began .. now : \E guest \in past[version][r.vmid] :
            /\ AllowsGuest(Grants[r.by], guest)
            /\ Protected(Startup, {guest}, FALSE) => LiftedSince(r)
      BY DEF Justified, Served
    <2>2. version \in r.began .. now' /\ past'[version] = past[version]
      BY <1>0 DEF WorldGrows
    <2> QED
      BY <2>1, <2>2, <1>2
  <1>5. Admitted(r)'
    BY <1>0 DEF Admitted, WorldGrows
  <1>6. InScope(r)'
    BY <1>0 DEF InScope, WorldGrows
  <1>7. Complete(r)'
    <2> DEFINE V(k) == Visible(r.by, r.kind, k)
               W(k) == Visible(r.by, r.kind, k)'
    <2>1. PICK n, m : n = now /\ m = now'
      OBVIOUS
    <2>2. \A k \in 0 .. n : W(k) = V(k)
      BY VisibleStays, <2>1
    <2>3. /\ Shrunk(r) <=> \E i \in r.began .. (n - 1) : ~(V(i) \subseteq V(i + 1))
          /\ Shrunk(r)' <=> \E i \in r.began .. (m - 1) : ~(W(i) \subseteq W(i + 1))
      BY <2>1 DEF Shrunk
    <2>4. \A i \in r.began .. (n - 1) :
            i \in 0 .. n /\ i + 1 \in 0 .. n /\ i \in r.began .. (m - 1)
      <3>1. PICK b : b = r.began
        OBVIOUS
      <3>2. b \in Nat /\ n \in Nat /\ m \in Nat /\ n <= m
        BY <1>0, <2>1, <3>1
      <3>3. \A i \in b .. (n - 1) : i \in 0 .. n /\ i + 1 \in 0 .. n /\ i \in b .. (m - 1)
        BY <3>2
      <3> QED
        BY <3>1, <3>3
    <2>5. Shrunk(r) => Shrunk(r)'
      <3> HIDE DEF V, W
      <3> QED
        BY <2>2, <2>3, <2>4
    <2>6. Visible(r.by, r.kind, now) = V(n) /\ Visible(r.by, r.kind, now)' = W(m)
      BY <2>1 DEF Visible
    <2> SUFFICES ASSUME r.at \in {"list", "listed"}, ~Shrunk(r)'
                 PROVE  /\ W(r.began) \subseteq W(m)
                        /\ \A v \in W(r.began) :
                             \/ v \in r.seen
                             \/ r.at = "list" /\ Position(W(m), v) >= r.offset
      BY <2>5, <2>6 DEF Complete
    <2>7. W(n) \subseteq W(m)
      <3>1. CASE m = n + 1
        BY <2>1, <2>3, <1>0, <3>1
      <3> QED
        BY <3>1, <2>1 DEF WorldGrows
    <2>8. /\ V(r.began) \subseteq V(n)
          /\ \A v \in V(r.began) :
               \/ v \in r.seen
               \/ r.at = "list" /\ Position(V(n), v) >= r.offset
      BY <2>5, <2>6 DEF Complete
    <2>9. W(r.began) = V(r.began) /\ W(n) = V(n)
      <3>1. r.began \in 0 .. n /\ n \in 0 .. n
        BY <1>0, <2>1
      <3> QED
        BY <2>2, <3>1
    <2>10. W(m) \in SUBSET Vmids
      BY DEF Visible
    <2>11. \A v : /\ Position(V(n), v) <= Position(W(m), v)
                  /\ Position(V(n), v) \in Nat /\ Position(W(m), v) \in Nat
      BY <2>7, <2>9, <2>10, Positions
    <2> HIDE DEF V, W
    <2> QED
      BY <2>7, <2>8, <2>9, <2>11, <1>0
  <1> QED
    BY <1>1, <1>3, <1>4, <1>5, <1>6, <1>7

-----------------------------------------------------------------------------
(***************************************************************************)
(* The starts.                                                             *)
(***************************************************************************)

\* A call as a handler leaves it before its first request.
Begun(r) ==
  /\ r.at \in {"resolve", "read", "vacancy", "send", "list"} /\ r.by \in Principals
  /\ r.override = FALSE /\ r.seen = {} /\ r.config # "restoring"
  /\ r.floor \in 0 .. now /\ r.began \in 0 .. now /\ r.since \in 0 .. clock
  /\ r.interrupts => r.at = "resolve" /\ r.began <= r.floor
  /\ r.at \in {"resolve", "read"} => r.vmid \in Vmids
  /\ r.at \in {"vacancy", "send"} => r.vmid = None
  /\ r.at = "vacancy" => r.newid \in Vmids /\ MayMake(r.by, r.newid)
  /\ r.at = "resolve" /\ r.tool = "clone_vm" => r.newid \in Vmids
  /\ r.at = "list" => r.began = now /\ r.offset = 0
  /\ r.since = 0 \/ r.began = now

\* A call that has begun is sound.
LEMMA BegunSound ==
  ASSUME TypeOK, NEW r \in Calls, Begun(r)
  PROVE  Sound(r)
  <1>1. Prepared(r)
    BY DEF Begun, Prepared
  <1>2. Dated(r)
    BY BoundAssumption DEF Begun, Dated, TypeOK, Versions
  <1>3. Justified(r) /\ Admitted(r) /\ InScope(r)
    BY DEF Begun, Justified, Admitted, InScope
  <1>4. Complete(r)
    <2> SUFFICES ASSUME r.at = "list", r.began = now, r.offset = 0
                 PROVE  \A v : Position(Visible(r.by, r.kind, now), v) >= 0
      BY <1>1 DEF Begun, Complete
    <2>1. PICK S : S = Visible(r.by, r.kind, now)
      OBVIOUS
    <2>2. S \in SUBSET Vmids
      BY <2>1 DEF Visible
    <2>3. \A v : Position(S, v) \in Nat
      BY <2>2, Positions
    <2> QED
      BY <2>1, <2>3
  <1> QED
    BY <1>1, <1>2, <1>3, <1>4 DEF Sound

\* What any step of a client does to the calls: one moves, and is sound.
Moves(c) ==
  /\ call' \in [Clients -> Calls]
  /\ \A d \in Clients \ {c} : call'[d] = call[d]
  /\ Sound(call'[c])

\* A typed call that has begun is such a step.
LEMMA BegunMoves ==
  ASSUME TypeOK, NEW c \in Clients, NEW s, NEW tool, NEW by, NEW locals,
         Begin(c, s, tool, by, locals), call'[c] \in Calls, Begun(call'[c])
  PROVE  Moves(c) /\ UNCHANGED <<now, past, arose, clock, inventory>>
  <1>1. PICK r \in Calls : r = call'[c]
    OBVIOUS
  <1>2. Begun(r)
    BY <1>1 DEF Begun
  <1>3. Sound(r)
    BY <1>2, BegunSound
  <1>4. /\ call' \in [Clients -> Calls]
        /\ \A d \in Clients \ {c} : call'[d] = call[d]
    BY DEF TypeOK, Begin
  <1> QED
    BY <1>1, <1>3, <1>4 DEF Moves, Begin

\* Calls on a guest: lifecycle, snapshots, backups, sizes, resources, guests' tasks.
LEMMA BeginLowMoves ==
  ASSUME TypeOK, NEW c \in Clients, NEW tool \in Asks[c], NEW by \in Principals,
         NEW vmid \in Vmids, NEW kind \in Kinds, NEW interrupts \in BOOLEAN,
         tool # "clone_vm", BeginLow(c, tool, by, vmid, kind, interrupts)
  PROVE  Moves(c) /\ UNCHANGED <<now, past, arose, clock, inventory>>
  <1> DEFINE low == [vmid |-> vmid, kind |-> kind, floor |-> Fresh(FALSE)]
             inter == [vmid |-> vmid, kind |-> kind, interrupts |-> TRUE, floor |-> Fresh(TRUE),
                       began |-> now, since |-> clock, pins |-> inventory.protected_vmids]
             locals == IF interrupts THEN inter ELSE low
  <1>0. Begin(c, "resolve", tool, by, locals)
    BY DEF BeginLow
  <1>1. "resolve" \in Steps /\ tool \in UNION {Asks[d] : d \in Clients}
    BY DEF Steps
  <1> HIDE DEF locals
  <1>2. /\ call'[c].at = "resolve" /\ call'[c].tool = tool /\ call'[c].by = by
        /\ \A f \in Fields \ {"at", "tool", "by"} :
             call'[c][f] = IF f \in DOMAIN locals THEN locals[f] ELSE Idle[f]
        /\ DOMAIN call'[c] = Fields
        /\ call'[c] = [f \in Fields |-> call'[c][f]]
    BY <1>0, <1>1, BeginStep
  <1>3. /\ call'[c].vmid = vmid /\ call'[c].kind = kind
        /\ call'[c].newid = None /\ call'[c].config = "none"
        /\ call'[c].offset = 0 /\ call'[c].limit = 0 /\ call'[c].seen = {}
    BY <1>2, IdleTyped DEF Fields, locals
  <1>8. call'[c].override = FALSE
    BY <1>2, IdleTyped DEF Fields, locals
  <1>9. call'[c].interrupts = interrupts
    BY <1>2, IdleTyped DEF Fields, locals
  <1>4. /\ call'[c].floor = IF interrupts THEN now ELSE 0
        /\ call'[c].began = IF interrupts THEN now ELSE 0
        /\ call'[c].since = IF interrupts THEN clock ELSE 0
        /\ call'[c].pins = IF interrupts THEN inventory.protected_vmids ELSE {}
    BY <1>2, IdleTyped DEF Fields, locals, Fresh
  <1>5. now \in Versions /\ 0 \in Versions /\ clock \in 0 .. MaxTime /\ 0 \in 0 .. MaxTime
        /\ 0 \in 0 .. MaxLimit /\ inventory \in Inventories /\ now \in Nat /\ clock \in Nat
    BY BoundAssumption DEF TypeOK, Versions
  <1>6. call'[c] \in Calls
    <2>1. PICK r : r = call'[c]
      OBVIOUS
    <2>2. /\ r.at \in Steps /\ r.tool \in (UNION {Asks[d] : d \in Clients}) \cup {None}
          /\ r.by \in Principals \cup {None} /\ r.kind \in Kinds
      BY <2>1, <1>1, <1>2, <1>3
    <2>3. /\ r.vmid \in Vmids \cup {None} /\ r.newid \in Vmids \cup {None}
          /\ r.config \in Configs \cup {"none"} /\ r.seen \in SUBSET Vmids
      BY <2>1, <1>3
    <2>4. r.interrupts \in BOOLEAN
      BY <2>1, <1>9
    <2>5. r.override \in BOOLEAN
      BY <2>1, <1>8
    <2>6. /\ r.began \in Versions /\ r.since \in 0 .. MaxTime /\ r.floor \in Versions
          /\ r.pins \in {{}} \cup {i.protected_vmids : i \in Inventories}
          /\ r.offset \in Nat /\ r.limit \in 0 .. MaxLimit
      BY <2>1, <1>3, <1>4, <1>5
    <2>7. DOMAIN r = Fields /\ r = [f \in Fields |-> r[f]]
      BY <2>1, <1>2
    <2> QED
      BY <2>1, <2>2, <2>3, <2>4, <2>5, <2>6, <2>7, CallsMember
  <1>7. Begun(call'[c])
    <2>1. /\ call'[c].floor \in 0 .. now /\ call'[c].began \in 0 .. now
          /\ call'[c].since \in 0 .. clock
          /\ interrupts => call'[c].began <= call'[c].floor
          /\ call'[c].since = 0 \/ call'[c].began = now
      BY <1>4, <1>5
    <2> QED
      BY <2>1, <1>2, <1>3, <1>8, <1>9 DEF Begun
  <1> QED
    BY <1>0, <1>6, <1>7, BegunMoves

\* A field of a call that begins with these locals.
Local(locals, f) == IF f \in DOMAIN locals THEN locals[f] ELSE Idle[f]

\* Locals that need no more said of them: those of a call that does not interrupt.
Plain(s, tool, by, locals) ==
  /\ DOMAIN locals \subseteq {"vmid", "newid", "kind", "config", "floor", "limit", "began"}
  /\ Local(locals, "vmid") \in Vmids \cup {None} /\ Local(locals, "newid") \in Vmids \cup {None}
  /\ Local(locals, "kind") \in Kinds /\ Local(locals, "config") \in {"none", "allowed"}
  /\ Local(locals, "floor") \in 0 .. now /\ Local(locals, "limit") \in 0 .. MaxLimit
  /\ Local(locals, "began") \in 0 .. now
  /\ s \in {"resolve", "read"} => Local(locals, "vmid") \in Vmids
  /\ s \in {"vacancy", "send"} => Local(locals, "vmid") = None
  /\ s = "vacancy" => Local(locals, "newid") \in Vmids /\ MayMake(by, Local(locals, "newid"))
  /\ s = "resolve" /\ tool = "clone_vm" => Local(locals, "newid") \in Vmids
  /\ s = "list" => Local(locals, "began") = now

\* Every other call begins without interrupting.
LEMMA BeginMoves ==
  ASSUME TypeOK, NEW c \in Clients, NEW s \in {"resolve", "read", "vacancy", "send", "list"},
         NEW tool \in Asks[c], NEW by \in Principals,
         NEW locals, Begin(c, s, tool, by, locals), Plain(s, tool, by, locals)
  PROVE  Moves(c) /\ UNCHANGED <<now, past, arose, clock, inventory>>
  <1>1. s \in Steps /\ tool \in UNION {Asks[d] : d \in Clients}
    BY DEF Steps
  <1>2. /\ call'[c].at = s /\ call'[c].tool = tool /\ call'[c].by = by
        /\ \A f \in Fields \ {"at", "tool", "by"} :
             call'[c][f] = IF f \in DOMAIN locals THEN locals[f] ELSE Idle[f]
        /\ DOMAIN call'[c] = Fields
        /\ call'[c] = [f \in Fields |-> call'[c][f]]
    BY <1>1, BeginStep
  <1>3. /\ call'[c].vmid = Local(locals, "vmid") /\ call'[c].newid = Local(locals, "newid")
        /\ call'[c].kind = Local(locals, "kind") /\ call'[c].config = Local(locals, "config")
        /\ call'[c].floor = Local(locals, "floor") /\ call'[c].limit = Local(locals, "limit")
        /\ call'[c].began = Local(locals, "began")
    BY <1>2 DEF Fields, Local
  <1>4. /\ call'[c].offset = 0 /\ call'[c].seen = {} /\ call'[c].since = 0
        /\ call'[c].pins = {}
    BY <1>2, IdleTyped DEF Fields, Plain
  <1>5. call'[c].override = FALSE
    BY <1>2, IdleTyped DEF Fields, Plain
  <1>6. call'[c].interrupts = FALSE
    BY <1>2, IdleTyped DEF Fields, Plain
  <1>7. /\ now \in Versions /\ now \in Nat /\ clock \in Nat
        /\ Local(locals, "floor") \in Versions /\ Local(locals, "began") \in Versions
        /\ 0 \in 0 .. MaxTime
    BY BoundAssumption DEF TypeOK, Versions, Plain
  <1>8. call'[c] \in Calls
    <2>1. PICK r : r = call'[c]
      OBVIOUS
    <2>2. /\ r.at \in Steps /\ r.tool \in (UNION {Asks[d] : d \in Clients}) \cup {None}
          /\ r.by \in Principals \cup {None} /\ r.kind \in Kinds
      BY <2>1, <1>1, <1>2, <1>3 DEF Plain
    <2>3. /\ r.vmid \in Vmids \cup {None} /\ r.newid \in Vmids \cup {None}
          /\ r.config \in Configs \cup {"none"} /\ r.seen \in SUBSET Vmids
      BY <2>1, <1>3, <1>4 DEF Configs, Plain
    <2>4. r.interrupts \in BOOLEAN
      BY <2>1, <1>6
    <2>5. r.override \in BOOLEAN
      BY <2>1, <1>5
    <2>6. /\ r.began \in Versions /\ r.since \in 0 .. MaxTime /\ r.floor \in Versions
          /\ r.pins \in {{}} \cup {i.protected_vmids : i \in Inventories}
          /\ r.offset \in Nat /\ r.limit \in 0 .. MaxLimit
      BY <2>1, <1>3, <1>4, <1>7 DEF Plain
    <2>7. DOMAIN r = Fields /\ r = [f \in Fields |-> r[f]]
      BY <2>1, <1>2
    <2> QED
      BY <2>1, <2>2, <2>3, <2>4, <2>5, <2>6, <2>7, CallsMember
  <1>9. Begun(call'[c])
    BY <1>2, <1>3, <1>4, <1>5, <1>6, <1>7 DEF Begun, Plain
  <1> QED
    BY <1>8, <1>9, BegunMoves

\* Every start is sound, and changes nothing but its own call.
LEMMA StartMoves ==
  ASSUME TypeOK, NEW c \in Clients, Start(c)
  PROVE  Moves(c) /\ UNCHANGED <<now, past, arose, clock, inventory>>
  <1> USE DEF Asked
  <1>0. 0 \in 0 .. now /\ now \in 0 .. now /\ 0 \in 0 .. MaxLimit
    BY BoundAssumption DEF TypeOK, Versions
  <1>20. ASSUME NEW tool, NEW by PROVE Plain("send", tool, by, [vmid |-> None])
    BY <1>0, IdleTyped DEF Plain, Local, Kinds
  <1>1. CASE LifecycleStart(c)
    <2>1. PICK tool \in DOMAIN RequiredType, by \in Principals, vmid \in Vmids :
            /\ tool \in Asks[c]
            /\ BeginLow(c, tool, by, vmid, RequiredType[tool], tool \in InterruptingTools)
      BY <1>1 DEF LifecycleStart
    <2>2. RequiredType[tool] \in Kinds /\ tool # "clone_vm"
      BY DEF RequiredType, Kinds
    <2>3. (tool \in InterruptingTools) \in BOOLEAN
      OBVIOUS
    <2> QED
      BY <2>1, <2>2, <2>3, BeginLowMoves
  <1>2. CASE SnapshotStart(c)
    <2>1. PICK by \in Principals, vmid \in Vmids :
            /\ "create_snapshot" \in Asks[c]
            /\ BeginLow(c, "create_snapshot", by, vmid, "any", FALSE)
      BY <1>2 DEF SnapshotStart
    <2> QED
      BY <2>1, BeginLowMoves DEF Kinds
  <1>3. CASE BackupStart(c)
    <2>1. PICK by \in Principals, vmid \in Vmids, mode \in BackupModes :
            /\ "create_backup" \in Asks[c]
            /\ BeginLow(c, "create_backup", by, vmid, "any", BackupInterrupts(mode))
      BY <1>3 DEF BackupStart
    <2>2. BackupInterrupts(mode) \in BOOLEAN
      BY DEF BackupInterrupts
    <2> QED
      BY <2>1, <2>2, BeginLowMoves DEF Kinds
  <1>5. CASE ResizeStart(c)
    <2>1. PICK by \in Principals, vmid \in Vmids :
            /\ "resize_disk" \in Asks[c]
            /\ BeginLow(c, "resize_disk", by, vmid, "any", FALSE)
      BY <1>5 DEF ResizeStart
    <2> QED
      BY <2>1, BeginLowMoves DEF Kinds
  <1>6. CASE ResourcesStart(c)
    <2>1. PICK by \in Principals, vmid \in Vmids :
            /\ "update_container_resources" \in Asks[c]
            /\ BeginLow(c, "update_container_resources", by, vmid, "lxc", TRUE)
      BY <1>6 DEF ResourcesStart
    <2> QED
      BY <2>1, BeginLowMoves DEF Kinds
  <1>7. CASE StopTaskStart(c)
    <2>1. PICK by \in Principals, task \in Tasks :
            /\ "stop_task" \in Asks[c]
            /\ \/ \E vmid \in TaskGuest(task) : BeginLow(c, "stop_task", by, vmid, "any", TRUE)
               \/ Begin(c, "send", "stop_task", by, [vmid |-> None])
      BY <1>7 DEF StopTaskStart
    <2>2. CASE \E vmid \in TaskGuest(task) : BeginLow(c, "stop_task", by, vmid, "any", TRUE)
      <3>1. PICK vmid \in TaskGuest(task) : BeginLow(c, "stop_task", by, vmid, "any", TRUE)
        BY <2>2
      <3>2. vmid \in Vmids
        BY TasksAssumption DEF TaskGuest
      <3> QED
        BY <2>1, <3>1, <3>2, BeginLowMoves DEF Kinds
    <2>3. CASE Begin(c, "send", "stop_task", by, [vmid |-> None])
      BY <2>1, <2>3, <1>20, BeginMoves
    <2> QED
      BY <2>1, <2>2, <2>3
  <1>4. CASE CloneStart(c)
    <2>1. PICK by \in Principals, vmid \in Vmids, newid \in Vmids :
            /\ "clone_vm" \in Asks[c]
            /\ Begin(c, "resolve", "clone_vm", by, [vmid |-> vmid, newid |-> newid])
      BY <1>4 DEF CloneStart
    <2>2. Plain("resolve", "clone_vm", by, [vmid |-> vmid, newid |-> newid])
      BY <1>0, IdleTyped DEF Plain, Local, Kinds
    <2> QED
      BY <2>1, <2>2, BeginMoves
  <1>8. CASE CreateStart(c)
    <2>1. PICK tool \in {"create_vm", "create_container"}, by \in Principals, vmid \in Vmids :
            /\ tool \in Asks[c]
            /\ MayMake(by, vmid)
            /\ Begin(c, "vacancy", tool, by,
                 [newid |-> vmid, kind |-> IF tool = "create_vm" THEN "qemu" ELSE "lxc",
                  config |-> "allowed", floor |-> now])
      BY <1>8 DEF CreateStart, ConfigAllowed
    <2>2. Plain("vacancy", tool, by,
            [newid |-> vmid, kind |-> IF tool = "create_vm" THEN "qemu" ELSE "lxc",
             config |-> "allowed", floor |-> now])
      BY <2>1, <1>0, IdleTyped DEF Plain, Local, Kinds
    <2> QED
      BY <2>1, <2>2, BeginMoves
  <1>9. CASE DownloadStart(c)
    <2>1. PICK by \in Principals :
            /\ "download_iso" \in Asks[c]
            /\ Begin(c, "send", "download_iso", by, [vmid |-> None])
      BY <1>9 DEF DownloadStart
    <2> QED
      BY <2>1, <1>20, BeginMoves
  <1>10. CASE ReadStart(c)
    <2>1. PICK tool \in GuestReads, by \in Principals, vmid \in Vmids :
            /\ tool \in Asks[c]
            /\ Begin(c, "read", tool, by,
                 [vmid |-> vmid,
                  kind |-> IF tool \in DOMAIN KindReads THEN KindReads[tool] ELSE "any"])
      BY <1>10 DEF ReadStart
    <2>2. (IF tool \in DOMAIN KindReads THEN KindReads[tool] ELSE "any") \in Kinds
      BY DEF Kinds, KindReads
    <2>3. Plain("read", tool, by,
            [vmid |-> vmid, kind |-> IF tool \in DOMAIN KindReads THEN KindReads[tool] ELSE "any"])
      BY <2>2, <1>0, IdleTyped DEF Plain, Local
    <2> QED
      BY <2>1, <2>3, BeginMoves
  <1>11. CASE SharedReadStart(c)
    <2>1. PICK tool \in SharedReads \cup ClusterReads, by \in Principals :
            /\ tool \in Asks[c]
            /\ Begin(c, "send", tool, by, [vmid |-> None])
      BY <1>11 DEF SharedReadStart
    <2> QED
      BY <2>1, <1>20, BeginMoves
  <1>12. CASE ListStart(c)
    <2>1. PICK tool \in DOMAIN Listings, by \in Principals, limit \in 0 .. MaxLimit + 1 :
            /\ tool \in Asks[c]
            /\ LimitAccepted(limit, MaxLimit)
            /\ Begin(c, "list", tool, by,
                 [kind |-> Listings[tool], limit |-> limit, began |-> now])
      BY <1>12 DEF ListStart
    <2>2. Listings[tool] \in Kinds /\ limit \in 0 .. MaxLimit
      BY <2>1, BoundAssumption DEF Kinds, Listings, LimitAccepted
    <2>3. Plain("list", tool, by, [kind |-> Listings[tool], limit |-> limit, began |-> now])
      BY <2>2, <1>0, IdleTyped DEF Plain, Local
    <2> QED
      BY <2>1, <2>3, BeginMoves
  <1> QED
    BY <1>1, <1>2, <1>3, <1>4, <1>5, <1>6, <1>7, <1>8, <1>9, <1>10, <1>11, <1>12 DEF Start

-----------------------------------------------------------------------------
(***************************************************************************)
(* The later steps of a call.                                              *)
(***************************************************************************)

\* An idle client has nothing to answer for.
LEMMA ReturnMoves ==
  ASSUME TypeOK, NEW c \in Clients, Return(c)
  PROVE  Moves(c)
  <1>1. Prepared(Idle)
    BY IdleTyped, NoneAssumption DEF Prepared
  <1>2. Dated(Idle) /\ Justified(Idle) /\ Admitted(Idle) /\ InScope(Idle) /\ Complete(Idle)
    BY BoundAssumption, IdleTyped
    DEF Dated, Justified, Admitted, InScope, Complete, TypeOK, Versions
  <1>3. /\ call' \in [Clients -> Calls] /\ call'[c] = Idle
        /\ \A d \in Clients \ {c} : call'[d] = call[d]
    BY IdleTyped DEF TypeOK, Return
  <1>4. Sound(Idle)
    BY <1>1, <1>2 DEF Sound
  <1> QED
    BY <1>3, <1>4 DEF Moves

\* A call whose locals are replaced by sound ones.
LEMMA ReplacedMoves ==
  ASSUME TypeOK, NEW c \in Clients, NEW n \in Calls, Sound(n), call' = [call EXCEPT ![c] = n]
  PROVE  Moves(c)
  BY DEF TypeOK, Moves

\* The first resolution: what is lifted is lifted now.
LEMMA ResolveMoves ==
  ASSUME TypeOK, NEW c \in Clients, Sound(call[c]), Resolve(c)
  PROVE  Moves(c)
  <1>1. PICK r \in Calls : r = call[c]
    BY DEF TypeOK
  <1>2. PICK o \in BOOLEAN :
          /\ call' = [call EXCEPT ![c] = [r EXCEPT !.at = "authorize", !.override = o]]
          /\ o => Overridden(Waivers, r.vmid, clock, r.tool, r.by, LabMode)
    BY <1>1 DEF Resolve
  <1>3. PICK n : n = [r EXCEPT !.at = "authorize", !.override = o]
    OBVIOUS
  <1>4. n \in Calls /\ n.at = "authorize"
        /\ n.tool = r.tool /\ n.by = r.by /\ n.vmid = r.vmid /\ n.newid = r.newid
        /\ n.kind = r.kind /\ n.config = r.config
        /\ n.began = r.began /\ n.since = r.since /\ n.floor = r.floor /\ n.seen = r.seen
    BY <1>3 DEF Calls, Steps
  <1>5. n.override <=> o
    BY <1>3 DEF Calls
  <1>6. n.interrupts <=> r.interrupts
    BY <1>3 DEF Calls
  <1>7. Sound(r) /\ r.at = "resolve"
    BY <1>1 DEF Resolve, At, Sound, Prepared, Dated, Justified, Admitted, InScope, Complete,
                Shrunk, LiftedSince
  <1>8. Prepared(n)
    BY <1>4, <1>7 DEF Sound, Prepared
  <1>9. clock \in r.since .. clock
    BY <1>7, BoundAssumption DEF Sound, Dated, TypeOK, Calls
  <1>10. o => LiftedSince(n)
    BY <1>2, <1>4, <1>9 DEF LiftedSince
  <1>11. Dated(n)
    BY <1>4, <1>5, <1>6, <1>7, <1>10 DEF Sound, Dated
  <1>12. Justified(n) /\ Admitted(n) /\ InScope(n) /\ Complete(n)
    BY <1>4, <1>7, <1>8 DEF Justified, Admitted, InScope, Complete, Prepared, Sound
  <1> QED
    BY <1>2, <1>3, <1>4, <1>8, <1>11, <1>12, ReplacedMoves DEF Sound

\* The second resolution finds the guest as it was since the call began.
LEMMA AuthorizeMoves ==
  ASSUME TypeOK, History, NEW c \in Clients, Sound(call[c]), Authorize(c)
  PROVE  Moves(c)
  <1>1. PICK r \in Calls : r = call[c]
    BY DEF TypeOK
  <1>2. PICK version \in r.floor .. now : \E guest \in past[version][r.vmid] :
          /\ AuthorizedAs(r, guest)
          /\ call' = [call EXCEPT ![c] = [r EXCEPT !.kind = guest.type,
               !.at = IF r.tool = "clone_vm" THEN "make" ELSE "send"]]
    <2>1. PICK found \in Answers(r.floor, r.vmid) : \E guest \in found :
            /\ AuthorizedAs(r, guest)
            /\ call' = [call EXCEPT ![c] = [r EXCEPT !.kind = guest.type,
                 !.at = IF r.tool = "clone_vm" THEN "make" ELSE "send"]]
      <3>1. call[c] = r /\ Authorize(c)
        BY <1>1
      <3> QED
        BY <3>1 DEF Authorize
    <2>2. PICK version \in r.floor .. now : found = past[version][r.vmid]
      BY <2>1 DEF Answers
    <2> QED
      BY <2>1, <2>2
  <1>3. PICK guest \in past[version][r.vmid] :
          /\ AuthorizedAs(r, guest)
          /\ call' = [call EXCEPT ![c] = [r EXCEPT !.kind = guest.type,
               !.at = IF r.tool = "clone_vm" THEN "make" ELSE "send"]]
    BY <1>2
  <1>4. PICK n : n = [r EXCEPT !.kind = guest.type,
                       !.at = IF r.tool = "clone_vm" THEN "make" ELSE "send"]
    OBVIOUS
  <1>5. Sound(r) /\ r.at = "authorize"
    BY <1>1 DEF Authorize, At, Sound, Prepared, Dated, Justified, Admitted, InScope, Complete,
                Shrunk, LiftedSince
  <1>6. /\ now \in Nat /\ r.floor \in Nat /\ r.began \in Nat /\ version \in 0 .. now
        /\ version \in Versions /\ r.vmid \in Vmids
    BY <1>5, BoundAssumption DEF TypeOK, Calls, Versions, Sound, Prepared
  <1>7. guest.type \in {"qemu", "lxc"}
    BY <1>6, GuestKind DEF TypeOK
  <1>8. n \in Calls /\ n.kind = guest.type
        /\ n.at = (IF r.tool = "clone_vm" THEN "make" ELSE "send")
        /\ n.tool = r.tool /\ n.by = r.by /\ n.vmid = r.vmid /\ n.newid = r.newid
        /\ n.config = r.config
        /\ n.began = r.began /\ n.since = r.since /\ n.floor = r.floor /\ n.seen = r.seen
    <2>1. PICK s, t : s = (IF r.tool = "clone_vm" THEN "make" ELSE "send") /\ t = guest.type
      OBVIOUS
    <2>2. s \in Steps /\ t \in Kinds
      BY <2>1, <1>7 DEF Steps, Kinds
    <2>3. n = [r EXCEPT !.kind = t, !.at = s]
      BY <1>4, <2>1
    <2>4. n \in Calls
      BY <2>2, <2>3 DEF Calls
    <2>5. n.kind = t /\ n.at = s
          /\ n.tool = r.tool /\ n.by = r.by /\ n.vmid = r.vmid /\ n.newid = r.newid
          /\ n.config = r.config
          /\ n.began = r.began /\ n.since = r.since /\ n.floor = r.floor /\ n.seen = r.seen
      BY <2>3 DEF Calls
    <2> QED
      BY <2>1, <2>4, <2>5
  <1>9. n.override <=> r.override
    BY <1>4 DEF Calls
  <1>10. n.interrupts <=> r.interrupts
    BY <1>4 DEF Calls
  <1>11. Prepared(n)
    BY <1>3, <1>5, <1>8 DEF Sound, Prepared, AuthorizedAs
  <1>12. Dated(n)
    BY <1>5, <1>8, <1>9, <1>10 DEF Sound, Dated, LiftedSince
  <1>13. /\ AllowsGuest(Grants[r.by], guest)
         /\ r.interrupts => ~Protected(Served, {guest}, FALSE) \/ r.override
    BY <1>3 DEF AuthorizedAs, Authorizes
  <1>14. Justified(n)
    <2>0. r.interrupts /\ r.vmid \in Served.protected_vmids => r.override
      <3>1. guest.vmid = r.vmid
        BY <1>6 DEF History
      <3> QED
        BY <1>13, <3>1 DEF Protected
    <2> SUFFICES ASSUME r.interrupts
                 PROVE  \E i \in r.began .. now : \E g \in past[i][r.vmid] :
                          /\ AllowsGuest(Grants[r.by], g)
                          /\ Protected(Served, {g}, FALSE) => LiftedSince(n)
      BY <2>0, <1>8, <1>9, <1>10 DEF Justified
    <2>1. version \in r.began .. now
      BY <1>5, <1>6 DEF Sound, Dated
    <2>2. Protected(Served, {guest}, FALSE) => LiftedSince(n)
      BY <1>9, <1>12, <1>13 DEF Dated
    <2> QED
      BY <2>1, <2>2, <1>13
  <1>15. Admitted(n)
    BY <1>6, <1>8, <1>13 DEF Admitted
  <1>16. InScope(n) /\ Complete(n)
    BY <1>5, <1>8 DEF InScope, Complete, Sound, Prepared
  <1> QED
    BY <1>3, <1>4, <1>8, <1>11, <1>12, <1>14, <1>15, <1>16, ReplacedMoves DEF Sound

\* A read of a guest that its grant admits.
LEMMA ReadMoves ==
  ASSUME TypeOK, NEW c \in Clients, Sound(call[c]), ReadGuest(c)
  PROVE  Moves(c)
  <1>1. PICK r \in Calls : r = call[c]
    BY DEF TypeOK
  <1>2. Sound(r) /\ r.at = "read"
    BY <1>1 DEF ReadGuest, At, Sound, Prepared, Dated, Justified, Admitted, InScope, Complete,
                Shrunk, LiftedSince
  <1>3. PICK found \in Answers(0, r.vmid) : \E guest \in found :
          /\ AllowsGuest(Grants[r.by], guest)
          /\ r.kind \in {"any", guest.type}
    BY <1>1 DEF ReadGuest, Authorizes
  <1>4. PICK version \in 0 .. now : found = past[version][r.vmid]
    BY <1>3 DEF Answers
  <1>5. PICK n : n = [r EXCEPT !.at = "send"]
    OBVIOUS
  <1>6. n \in Calls /\ n.at = "send" /\ n.by = r.by /\ n.vmid = r.vmid /\ n.kind = r.kind
        /\ n.config = r.config /\ n.tool = r.tool
        /\ n.began = r.began /\ n.since = r.since /\ n.floor = r.floor /\ n.seen = r.seen
    BY <1>5 DEF Calls, Steps
  <1>7. n.override <=> r.override
    BY <1>5 DEF Calls
  <1>8. n.interrupts <=> r.interrupts
    BY <1>5 DEF Calls
  <1>9. Prepared(n) /\ InScope(n) /\ Complete(n)
    BY <1>2, <1>6 DEF Sound, Prepared, InScope, Complete
  <1>10. Dated(n)
    BY <1>2, <1>6, <1>7, <1>8 DEF Sound, Dated, LiftedSince
  <1>11. Admitted(n)
    BY <1>3, <1>4, <1>6 DEF Admitted
  <1>13. Justified(n)
    BY <1>2, <1>8 DEF Justified, Sound, Prepared
  <1>14. call' = [call EXCEPT ![c] = n]
    BY <1>1, <1>5 DEF ReadGuest, Goto
  <1> QED
    BY <1>6, <1>9, <1>10, <1>11, <1>13, <1>14, ReplacedMoves DEF Sound

\* A creation at a VMID that was known to be free.
LEMMA VacancyMoves ==
  ASSUME TypeOK, NEW c \in Clients, Sound(call[c]), Vacancy(c)
  PROVE  Moves(c)
  <1>1. PICK r \in Calls : r = call[c]
    BY DEF TypeOK
  <1>2. Sound(r) /\ r.at = "vacancy"
    BY <1>1 DEF Vacancy, At, Sound, Prepared, Dated, Justified, Admitted, InScope, Complete,
                Shrunk, LiftedSince
  <1>3. PICK n : n = [r EXCEPT !.at = "make"]
    OBVIOUS
  <1>4. n \in Calls /\ n.at = "make" /\ n.by = r.by /\ n.vmid = r.vmid /\ n.newid = r.newid
        /\ n.config = r.config /\ n.tool = r.tool
        /\ n.began = r.began /\ n.since = r.since /\ n.floor = r.floor /\ n.seen = r.seen
    BY <1>3 DEF Calls, Steps
  <1>5. n.override <=> r.override
    BY <1>3 DEF Calls
  <1>6. n.interrupts <=> r.interrupts
    BY <1>3 DEF Calls
  <1>7. Prepared(n) /\ Justified(n) /\ Admitted(n) /\ InScope(n) /\ Complete(n)
    BY <1>2, <1>4 DEF Sound, Prepared, Justified, Admitted, InScope, Complete
  <1>8. Dated(n)
    BY <1>2, <1>4, <1>5, <1>6 DEF Sound, Dated, LiftedSince
  <1>9. call' = [call EXCEPT ![c] = n]
    BY <1>1, <1>3 DEF Vacancy, Goto
  <1> QED
    BY <1>4, <1>7, <1>8, <1>9, ReplacedMoves DEF Sound

\* One page more: in scope, and without a gap.
LEMMA PageMoves ==
  ASSUME TypeOK, NEW c \in Clients, Sound(call[c]), Page(c)
  PROVE  Moves(c)
  <1>1. PICK r \in Calls : r = call[c]
    BY DEF TypeOK
  <1>2. Sound(r) /\ r.at = "list"
    BY <1>1 DEF Page, At, Sound, Prepared, Dated, Justified, Admitted, InScope, Complete,
                Shrunk, LiftedSince
  <1>3. PICK records : records = Visible(r.by, r.kind, now)
    OBVIOUS
  <1>4. PICK page, s :
          /\ page = {v \in records : Position(records, v) \in r.offset .. (r.offset + r.limit - 1)}
          /\ s = IF HasMore(records, r.offset, r.limit) THEN "list" ELSE "listed"
    OBVIOUS
  <1>5. PICK n : n = [r EXCEPT !.seen = @ \cup page, !.offset = r.offset + r.limit, !.at = s]
    OBVIOUS
  <1>6. call' = [call EXCEPT ![c] = n]
    <2>1. PICK p \in Pages(records, r.offset, r.limit) :
            call' = [call EXCEPT ![c] = [r EXCEPT
              !.seen = @ \cup p,
              !.offset = r.offset + r.limit,
              !.at = IF HasMore(records, r.offset, r.limit) THEN "list" ELSE "listed"]]
      <3> DEFINE V == Visible(call[c].by, call[c].kind, now)
      <3>1. \E p \in Pages(V, call[c].offset, call[c].limit) :
              call' = [call EXCEPT ![c] = [call[c] EXCEPT
                !.seen = @ \cup p,
                !.offset = call[c].offset + call[c].limit,
                !.at = IF HasMore(V, call[c].offset, call[c].limit) THEN "list" ELSE "listed"]]
        BY DEF Page
      <3>2. V = records
        BY <1>1, <1>3
      <3> HIDE DEF V
      <3> QED
        BY <1>1, <3>1, <3>2
    <2>2. p = page
      BY <2>1, <1>4 DEF Pages
    <2> QED
      BY <2>1, <2>2, <1>4, <1>5
  <1>7. /\ records \in SUBSET Vmids /\ page \in SUBSET records
        /\ r.offset \in Nat /\ r.limit \in Nat /\ r.offset + r.limit \in Nat
        /\ s \in {"list", "listed"} /\ r.seen \in SUBSET Vmids
    BY <1>3, <1>4, BoundAssumption DEF Visible, Calls
  <1>8. n \in Calls
    BY <1>5, <1>7 DEF Calls, Steps
  <1>9. n.at = s /\ n.by = r.by /\ n.kind = r.kind /\ n.config = r.config
        /\ n.offset = r.offset + r.limit /\ n.seen = r.seen \cup page
        /\ n.began = r.began /\ n.since = r.since /\ n.floor = r.floor
        /\ n.vmid = r.vmid /\ n.tool = r.tool
    BY <1>5 DEF Calls
  <1>10. n.override <=> r.override
    BY <1>5 DEF Calls
  <1>11. n.interrupts <=> r.interrupts
    BY <1>5 DEF Calls
  <1>12. Prepared(n) /\ Justified(n) /\ Admitted(n)
    BY <1>2, <1>7, <1>9 DEF Sound, Prepared, Justified, Admitted
  <1>13. Dated(n)
    BY <1>2, <1>9, <1>10, <1>11 DEF Sound, Dated, LiftedSince
  <1>14. InScope(n)
    <2> SUFFICES ASSUME NEW v \in page
                 PROVE  \E version \in r.began .. now : \E guest \in past[version][v] :
                          AllowsGuest(Grants[r.by], guest)
      BY <1>2, <1>9 DEF InScope, Sound
    <2>1. PICK guest \in past[now][v] :
            UnrestrictedGuestScope(Grants[r.by]) \/ AllowsGuest(Grants[r.by], guest)
      BY <1>3, <1>7 DEF Visible
    <2>2. AllowsGuest(Grants[r.by], guest)
      <3>1. ASSUME UnrestrictedGuestScope(Grants[r.by])
            PROVE  AllowsGuest(Grants[r.by], guest)
        <4>1. PICK term \in Grants[r.by].guests : term.kind = "any"
          BY <1>2, <3>1, GrantsAssumption DEF UnrestrictedGuestScope, Sound, Prepared
        <4>2. Matches(term, guest)
          BY <4>1 DEF Matches
        <4> QED
          BY <4>2 DEF AllowsGuest
      <3> QED
        BY <2>1, <3>1
    <2>3. now \in r.began .. now
      BY <1>2, BoundAssumption DEF Sound, Dated, TypeOK, Versions, Calls
    <2> QED
      BY <2>2, <2>3
  <1>15. Complete(n)
    <2>1. Shrunk(n) <=> Shrunk(r)
      BY <1>9 DEF Shrunk
    <2>2. PICK first : first = Visible(r.by, r.kind, r.began)
      OBVIOUS
    <2>3. ASSUME ~Shrunk(r)
          PROVE  /\ first \subseteq records
                 /\ \A v \in first : v \in r.seen \/ Position(records, v) >= r.offset
      BY <1>2, <1>3, <2>2, <2>3 DEF Sound, Complete
    <2>4. \A v \in records : /\ Position(records, v) \in Nat
                             /\ Position(records, v) < Cardinality(records)
      BY <1>7, Positions
    <2>5. Cardinality(records) \in Nat
      BY <1>7, Positions
    <2>6. ASSUME ~Shrunk(r), NEW v \in first
          PROVE  \/ v \in n.seen
                 \/ s = "list" /\ Position(records, v) >= n.offset
      <3>1. v \in records /\ (v \in r.seen \/ Position(records, v) >= r.offset)
        BY <2>3, <2>6
      <3>2. CASE v \in r.seen
        BY <3>2, <1>9
      <3>3. CASE Position(records, v) >= r.offset /\ Position(records, v) < r.offset + r.limit
        <4>1. PICK i \in Nat : i = Position(records, v)
          BY <2>4, <3>1
        <4>2. i \in r.offset .. (r.offset + r.limit - 1)
          BY <4>1, <3>3, <1>7
        <4> QED
          BY <4>1, <4>2, <3>1, <1>4, <1>9
      <3>4. CASE Position(records, v) >= r.offset + r.limit
        BY <3>1, <3>4, <2>4, <2>5, <1>4, <1>7, <1>9 DEF HasMore
      <3> QED
        BY <3>1, <3>2, <3>3, <3>4, <2>4, <1>7
    <2> QED
      BY <2>1, <2>2, <2>3, <2>6, <1>3, <1>9 DEF Complete
  <1> QED
    BY <1>6, <1>8, <1>12, <1>13, <1>14, <1>15, ReplacedMoves DEF Sound

-----------------------------------------------------------------------------
(***************************************************************************)
(* The steps of the world.                                                 *)
(***************************************************************************)

\* A guest that is there keeps its maker.
MakersKept ==
  \A v \in Vmids : \A old \in past[now][v], new \in past'[now'][v] : new.made = old.made

\* A change of the cluster at one VMID.
LEMMA BecomesHistory ==
  ASSUME TypeOK, History, UNCHANGED clock, NEW v \in Vmids, NEW found \in SUBSET Guests,
         Becomes([past[now] EXCEPT ![v] = found]),
         \A a, b \in found : a = b, \A guest \in found : guest.vmid = v,
         \A guest \in found : guest.made \in Principals =>
           AllowsNewVmid(Grants[guest.made], v) /\ v \notin Startup.protected_vmids,
         \A guest \in found, old \in past[now][v] : guest.made = old.made
  PROVE  WorldGrows /\ History' /\ MakersKept
  <1>1. PICK w : w = [past[now] EXCEPT ![v] = found]
    OBVIOUS
  <1>2. /\ w \in [Vmids -> SUBSET Guests] /\ w[v] = found
        /\ \A u \in Vmids \ {v} : w[u] = past[now][u]
        /\ now \in Versions
    BY <1>1 DEF TypeOK
  <1>3. /\ WorldGrows /\ past'[now'] = w /\ now' \in Versions
        /\ \A k \in Versions : past'[k] = past[k] \/ past'[k] = w
    BY <1>1, <1>2, BecomesGrows DEF WorldGrows
  <1>4. \A u \in Vmids : (\A a, b \in w[u] : a = b) /\ \A guest \in w[u] : guest.vmid = u
    BY <1>2 DEF History
  <1>5. \A u \in Vmids : \A guest \in w[u] : guest.made \in Principals =>
          AllowsNewVmid(Grants[guest.made], u) /\ u \notin Startup.protected_vmids
    BY <1>2 DEF History, MadeWithinGrant
  <1>6. History'
    BY <1>3, <1>4, <1>5 DEF History, MadeWithinGrant
  <1>7. MakersKept
    BY <1>2, <1>3 DEF MakersKept, History
  <1> QED
    BY <1>3, <1>6, <1>7

\* Without a change of the cluster, the world stays as it is.
LEMMA WorldStays ==
  ASSUME TypeOK, History, UNCHANGED <<now, past, arose>>, clock' \in clock .. MaxTime
  PROVE  WorldGrows /\ History' /\ MakersKept
  <1>1. WorldGrows
    BY BoundAssumption DEF WorldGrows, TypeOK, Versions
  <1>2. History'
    BY DEF History, MadeWithinGrant
  <1>3. MakersKept
    BY DEF MakersKept, History, TypeOK
  <1> QED
    BY <1>1, <1>2, <1>3

\* What a caller makes is made in a free place that its grant admits.
LEMMA MakeWorld ==
  ASSUME TypeOK, History, NEW c \in Clients, Sound(call[c]), Make(c)
  PROVE  WorldGrows /\ History' /\ MakersKept
  <1>1. PICK r \in Calls : r = call[c]
    BY DEF TypeOK
  <1>2. Prepared(r) /\ r.at = "make"
    BY <1>1 DEF Make, At, Sound, Prepared
  <1>3. r.by \in Principals /\ r.newid \in Vmids /\ MayMake(r.by, r.newid)
        /\ r.config # "restoring"
    BY <1>2 DEF Prepared
  <1>4. PICK guest \in Lives[r.newid] :
          Becomes([past[now] EXCEPT ![r.newid] = {[guest EXCEPT !.made = r.by]}])
    BY <1>1 DEF Make
  <1>5. PICK made : made = [guest EXCEPT !.made = r.by]
    OBVIOUS
  <1>6. made \in Guests /\ made.made = r.by /\ made.vmid = r.newid
    BY <1>3, <1>5, LifeIsGuest
  <1>7. past[now][r.newid] = {}
    BY <1>1, <1>3 DEF Make, Accepts
  <1>8. AllowsNewVmid(Grants[r.by], r.newid) /\ r.newid \notin Startup.protected_vmids
    BY <1>3 DEF MayMake, CreationAllowed, Served
  <1>9. PICK v \in Vmids : v = r.newid
    BY <1>3
  <1>10. Becomes([past[now] EXCEPT ![v] = {made}])
    BY <1>4, <1>5, <1>9
  <1>11. {made} \in SUBSET Guests /\ clock' = clock
    BY <1>6 DEF Make
  <1> QED
    BY <1>6, <1>7, <1>8, <1>9, <1>10, <1>11, BecomesHistory

\* What others do to a guest does not change who has made it.
LEMMA EditWorld ==
  ASSUME TypeOK, History, Edit
  PROVE  WorldGrows /\ History' /\ MakersKept
  <1>0. clock' = clock /\ now \in Versions
    BY DEF Edit, TypeOK
  <1>1. ASSUME NEW v \in Vmids, Becomes([past[now] EXCEPT ![v] = {}])
        PROVE  WorldGrows /\ History' /\ MakersKept
    <2>1. {} \in SUBSET Guests
      OBVIOUS
    <2> QED
      BY <1>0, <1>1, <2>1, BecomesHistory
  <1>2. ASSUME NEW v \in Vmids, NEW guest \in Lives[v], NEW maker,
               maker = IF past[now][v] = {} THEN "others"
                       ELSE (CHOOSE g \in past[now][v] : TRUE).made,
               Becomes([past[now] EXCEPT ![v] = {[guest EXCEPT !.made = maker]}])
        PROVE  WorldGrows /\ History' /\ MakersKept
    <2>1. past[now][v] \in SUBSET Guests
      BY <1>0 DEF TypeOK
    <2>2. \/ past[now][v] = {} /\ maker = "others"
          \/ \E old \in past[now][v] : maker = old.made
      BY <1>2
    <2>3. maker \in Principals \cup {"others"}
      BY <2>1, <2>2, GuestKind
    <2>4. PICK edited : edited = [guest EXCEPT !.made = maker]
      OBVIOUS
    <2>5. edited \in Guests /\ edited.made = maker /\ edited.vmid = v
      BY <2>3, <2>4, LifeIsGuest
    <2>6. \A old \in past[now][v] : maker = old.made
      BY <1>0, <2>2 DEF History
    <2>7. maker \in Principals =>
            AllowsNewVmid(Grants[maker], v) /\ v \notin Startup.protected_vmids
      BY <2>2, NoneAssumption DEF History, MadeWithinGrant
    <2>8. {edited} \in SUBSET Guests /\ Becomes([past[now] EXCEPT ![v] = {edited}])
      BY <1>2, <2>4, <2>5
    <2>9. PICK found : found = {edited}
      OBVIOUS
    <2>10. /\ \A a, b \in found : a = b
           /\ \A g \in found : g.vmid = v
           /\ \A g \in found : g.made \in Principals =>
                AllowsNewVmid(Grants[g.made], v) /\ v \notin Startup.protected_vmids
           /\ \A g \in found, old \in past[now][v] : g.made = old.made
      BY <2>5, <2>6, <2>7, <2>9
    <2>11. found \in SUBSET Guests /\ Becomes([past[now] EXCEPT ![v] = found])
      BY <2>8, <2>9
    <2> QED
      BY <1>0, <2>10, <2>11, BecomesHistory
  <1>3. PICK v \in Vmids :
          \/ Becomes([past[now] EXCEPT ![v] = {}])
          \/ \E guest \in Lives[v] : Becomes([past[now] EXCEPT ![v] = {[guest EXCEPT !.made =
               IF past[now][v] = {} THEN "others" ELSE (CHOOSE g \in past[now][v] : TRUE).made]}])
    BY DEF Edit
  <1>4. CASE \E guest \in Lives[v] : Becomes([past[now] EXCEPT ![v] = {[guest EXCEPT !.made =
               IF past[now][v] = {} THEN "others" ELSE (CHOOSE g \in past[now][v] : TRUE).made]}])
    <2>1. PICK maker :
            maker = IF past[now][v] = {} THEN "others" ELSE (CHOOSE g \in past[now][v] : TRUE).made
      OBVIOUS
    <2>2. PICK guest \in Lives[v] :
            Becomes([past[now] EXCEPT ![v] = {[guest EXCEPT !.made = maker]}])
      BY <1>4, <2>1
    <2> QED
      BY <1>2, <2>1, <2>2
  <1> QED
    BY <1>1, <1>3, <1>4

-----------------------------------------------------------------------------
(***************************************************************************)
(* The theorems.                                                           *)
(***************************************************************************)

\* What any step does, to the world and to the calls.
LEMMA NextStep ==
  ASSUME Ind, [Next]_vars
  PROVE  /\ WorldGrows /\ History' /\ MakersKept /\ inventory' \in Inventories
         /\ call' \in [Clients -> Calls] /\ \A d \in Clients : Sound(call'[d])
  <1> USE DEF Ind
  <1>0. TypeOK /\ now \in Nat /\ clock \in clock .. MaxTime /\ inventory \in Inventories
        /\ call \in [Clients -> Calls]
    BY BoundAssumption DEF TypeOK, Versions
  <1>1. ASSUME UNCHANGED call
        PROVE  call' \in [Clients -> Calls] /\ \A d \in Clients : Sound(call'[d])
    <2>1. ASSUME NEW d \in Clients
          PROVE  Sound(call'[d])
      <3>1. PICK r : r = call[d] /\ r = call'[d]
        BY <1>1
      <3>2. Sound(r)
        BY <3>1 DEF Sound, Prepared, Dated, Justified, Admitted, InScope, Complete, Shrunk,
                    LiftedSince
      <3> QED
        BY <3>1, <3>2
    <2> QED
      BY <1>0, <1>1, <2>1
  <1>2. ASSUME NEW c \in Clients, Moves(c)
        PROVE  call' \in [Clients -> Calls] /\ \A d \in Clients : Sound(call'[d])
    <2>1. ASSUME NEW d \in Clients
          PROVE  Sound(call'[d])
      <3>1. CASE d = c
        BY <1>2, <3>1 DEF Moves
      <3>2. CASE d # c
        <4>1. PICK r : r = call[d] /\ r = call'[d]
          BY <1>2, <3>2 DEF Moves
        <4>2. Sound(r)
          BY <4>1 DEF Sound, Prepared, Dated, Justified, Admitted, InScope, Complete, Shrunk,
                      LiftedSince
        <4> QED
          BY <4>1, <4>2
      <3> QED
        BY <3>1, <3>2
    <2> QED
      BY <1>2, <2>1 DEF Moves
  <1>3. CASE \E c \in Clients : Start(c)
    <2>1. PICK c \in Clients : Start(c)
      BY <1>3
    <2>2. Moves(c) /\ UNCHANGED <<now, past, arose, clock, inventory>>
      BY <1>0, <2>1, StartMoves
    <2> QED
      BY <1>0, <2>2, <1>2, WorldStays
  <1>4. CASE \E c \in Clients : Step(c)
    <2>1. PICK c \in Clients : Step(c)
      BY <1>4
    <2>2. Moves(c)
      <3>1. CASE Return(c)
        BY <1>0, <3>1, ReturnMoves
      <3>2. CASE Resolve(c)
        BY <1>0, <3>2, ResolveMoves
      <3>3. CASE Authorize(c)
        BY <1>0, <3>3, AuthorizeMoves
      <3>4. CASE ReadGuest(c)
        BY <1>0, <3>4, ReadMoves
      <3>5. CASE Vacancy(c)
        BY <1>0, <3>5, VacancyMoves
      <3>6. CASE Page(c)
        BY <1>0, <3>6, PageMoves
      <3> QED
        BY <2>1, <3>1, <3>2, <3>3, <3>4, <3>5, <3>6 DEF Step, Refuse, Send, Make, Listed
    <2>3. WorldGrows /\ History' /\ MakersKept /\ inventory' \in Inventories
      <3>1. CASE Make(c)
        BY <1>0, <3>1, MakeWorld DEF Make
      <3>2. CASE UNCHANGED <<now, past, arose, clock, inventory>>
        BY <1>0, <3>2, WorldStays
      <3> QED
        BY <2>1, <3>1, <3>2 DEF Step, Refuse, Resolve, Authorize, ReadGuest, Vacancy, Send, Page,
                                Listed
    <2> QED
      BY <1>2, <2>2, <2>3
  <1>5. CASE Edit
    BY <1>0, <1>1, <1>5, EditWorld DEF Edit
  <1>6. CASE Tick
    <2>1. clock' \in clock .. MaxTime
      BY <1>6, BoundAssumption DEF Tick, TypeOK
    <2> QED
      BY <1>0, <1>1, <1>6, <2>1, WorldStays DEF Tick
  <1>7. CASE Reload
    BY <1>0, <1>1, <1>7, WorldStays DEF Reload
  <1>8. CASE UNCHANGED vars
    BY <1>0, <1>1, <1>8, WorldStays DEF vars
  <1> QED
    BY <1>3, <1>4, <1>5, <1>6, <1>7, <1>8 DEF Next

\* Initially nobody has called, and others have made all there is.
LEMMA InitInd ==
  ASSUME Init
  PROVE  Ind
  <1>1. PICK w : /\ past = [k \in Versions |-> w]
                 /\ w \in [Vmids -> SUBSET UNION {Lives[v] : v \in Vmids}]
                 /\ \A v \in Vmids : w[v] = {} \/ \E guest \in Lives[v] : w[v] = {guest}
    BY DEF Init
  <1>2. /\ w \in [Vmids -> SUBSET Guests]
        /\ \A v \in Vmids : \A g \in w[v] : g.made = "others" /\ g.vmid = v
    <2>1. ASSUME NEW v \in Vmids
          PROVE  w[v] \in SUBSET Guests /\ \A g \in w[v] : g.made = "others" /\ g.vmid = v
      <3>1. \A g \in Lives[v] : g \in Guests /\ g.made = "others" /\ g.vmid = v
        BY LifeIsGuest
      <3> QED
        BY <1>1, <3>1
    <2> QED
      BY <1>1, <2>1
  <1>3. TypeOK
    BY <1>1, <1>2, BoundAssumption, ReloadAssumption, IdleTyped DEF Init, TypeOK, Versions
  <1>4. History
    BY <1>1, <1>2, NoneAssumption, BoundAssumption DEF Init, History, MadeWithinGrant, Versions
  <1>5. Prepared(Idle) /\ Dated(Idle) /\ Justified(Idle) /\ Admitted(Idle) /\ InScope(Idle)
        /\ Complete(Idle)
    BY IdleTyped
    DEF Init, Prepared, Dated, Justified, Admitted, InScope, Complete
  <1>6. ASSUME NEW c \in Clients
        PROVE  Sound(call[c])
    <2>1. call[c] = Idle
      BY DEF Init
    <2> QED
      BY <1>5, <2>1 DEF Sound
  <1>7. Aged
    BY BoundAssumption DEF Init, Aged, Versions
  <1> QED
    BY <1>3, <1>4, <1>6, <1>7 DEF Ind

\* The invariant is inductive.
LEMMA StepInd ==
  ASSUME Ind, [Next]_vars
  PROVE  Ind'
  <1>1. /\ TypeOK /\ WorldGrows /\ History' /\ inventory' \in Inventories
        /\ call' \in [Clients -> Calls] /\ \A d \in Clients : Sound(call'[d])
    BY NextStep DEF Ind
  <1>2. ASSUME NEW d \in Clients
        PROVE  Sound(call[d])' /\ Dated(call[d])'
    <2>1. PICK r \in Calls : r = call'[d]
      BY <1>1
    <2>2. Sound(r)'
      BY <1>1, <2>1, SoundPersists
    <2>3. Sound(call[d])'
      BY <2>1, <2>2 DEF Sound, Prepared, Dated, Justified, Admitted, InScope, Complete, Shrunk,
                        LiftedSince
    <2> QED
      BY <2>3 DEF Sound
  <1>3. TypeOK'
    BY <1>1, <1>2 DEF TypeOK, WorldGrows, Dated
  <1>4. Aged'
    BY <1>1, AgedPersists DEF Ind
  <1> QED
    BY <1>1, <1>2, <1>3, <1>4 DEF Ind

\* Every reachable state satisfies the invariant.
THEOREM Inductive == Spec => []Ind
  <1>1. Init => Ind
    BY InitInd
  <1>2. Ind /\ [Next]_vars => Ind'
    BY StepInd
  <1> QED
    BY <1>1, <1>2, PTL DEF Spec

\* The state keeps its types.
THEOREM TypeCorrect == Spec => []TypeOK
  <1>1. Ind => TypeOK
    BY DEF Ind
  <1> QED
    BY <1>1, Inductive, PTL

\* A waiver that has lifted and has not expired since, like lab mode, lifts at a time of the
\* call when the cluster was at any version of the call.
LEMMA LiftedAtOnce ==
  ASSUME TypeOK, Aged, NEW r \in Calls, Dated(r), LiftedSince(r), ~LapsedSince(r),
         NEW version \in r.began .. now
  PROVE  LiftedAt(r, version)
  <1>0. /\ now \in Nat /\ clock \in Nat /\ r.began \in Nat /\ r.since \in Nat
        /\ r.since <= clock /\ version \in 0 .. now
        /\ \A j \in 0 .. now : arose[j] \in Nat
    BY BoundAssumption DEF TypeOK, Calls, Versions, Dated
  <1>1. PICK m \in r.since .. clock :
          arose[version] <= m /\ (version = now \/ m <= arose[version + 1])
    <2>1. arose[version] <= clock
      BY <1>0 DEF Aged
    <2>2. version # now => /\ version \in 0 .. (now - 1) /\ version + 1 \in 0 .. now
                           /\ r.began < version + 1
      BY <1>0
    <2>3. version # now => /\ arose[version] <= arose[version + 1]
                           /\ r.since <= arose[version + 1]
      BY <2>2 DEF Aged, Dated
    <2>4. CASE arose[version] <= r.since
      BY <1>0, <2>3, <2>4
    <2>5. CASE r.since <= arose[version]
      BY <1>0, <2>1, <2>3, <2>5
    <2> QED
      BY <1>0, <2>4, <2>5
  <1>2. Overridden(Waivers, r.vmid, m, r.tool, r.by, LabMode)
    <2>1. PICK t \in r.since .. clock : Overridden(Waivers, r.vmid, t, r.tool, r.by, LabMode)
      BY DEF LiftedSince
    <2>2. CASE LabMode
      BY <2>2 DEF Overridden
    <2>3. CASE \E waiver \in Waivers : WaiverMatches(waiver, r.vmid, t, r.tool, r.by)
      <3>1. PICK waiver \in Waivers : WaiverMatches(waiver, r.vmid, t, r.tool, r.by)
        BY <2>3
      <3>2. waiver.until \in Nat /\ t < waiver.until
        BY <3>1, WaiversAssumption DEF WaiverMatches
      <3>3. r.since < waiver.until
        BY <1>0, <3>2
      <3>4. ~(waiver.until <= clock)
        BY <3>1, <3>3 DEF LapsedSince, WaiverMatches
      <3>5. m < waiver.until
        BY <1>0, <1>1, <3>2, <3>4
      <3> QED
        BY <3>1, <3>5 DEF WaiverMatches, Overridden
    <2> QED
      BY <2>1, <2>2, <2>3 DEF Overridden
  <1> QED
    BY <1>1, <1>2 DEF LiftedAt

(***************************************************************************)
(* A request that takes a guest down had its reason while the call ran:    *)
(* at one version of the cluster the guest was there, in scope, and        *)
(* unprotected or, at a time when the cluster was at that version, lifted; *)
(* but for a waiver that expired while the call ran                        *)
(* (server/mod.rs:2966-2970).                                              *)
(***************************************************************************)
THEOREM NoInterruptionOnAStaleAnswer == Spec => []InterruptionsJustified
  <1>1. Ind => InterruptionsJustified
    <2> SUFFICES ASSUME Ind, NEW c \in Clients, call[c].at = "send", call[c].interrupts
                 PROVE  \E version \in call[c].began .. now :
                          \E guest \in past[version][call[c].vmid] :
                            /\ AllowsGuest(Grants[call[c].by], guest)
                            /\ Protected(Served, {guest}, FALSE) =>
                                 LiftedAt(call[c], version) \/ LapsedSince(call[c])
      BY DEF InterruptionsJustified, At
    <2>1. TypeOK /\ Aged /\ call[c] \in Calls /\ Dated(call[c]) /\ Justified(call[c])
      BY DEF Ind, TypeOK, Sound
    <2>2. PICK version \in call[c].began .. now : \E guest \in past[version][call[c].vmid] :
            /\ AllowsGuest(Grants[call[c].by], guest)
            /\ Protected(Served, {guest}, FALSE) => LiftedSince(call[c])
      BY <2>1 DEF Justified
    <2>3. LiftedSince(call[c]) => LiftedAt(call[c], version) \/ LapsedSince(call[c])
      BY <2>1, LiftedAtOnce
    <2> QED
      BY <2>2, <2>3
  <1> QED
    BY <1>1, Inductive, PTL

\* No tool acts on a guest that was never in the caller's scope, or of the wrong kind
\* (server/mod.rs:2027-2037).
THEOREM ToolsStayInScope == Spec => []ReachesOnlyAdmitted
  <1>1. Ind => ReachesOnlyAdmitted
    BY DEF Ind, Sound, Admitted, ReachesOnlyAdmitted
  <1> QED
    BY <1>1, Inductive, PTL

\* What a principal makes lies within its grant and off the pins (grant.rs:88-100).
THEOREM CreationsStayInScope == Spec => []MadeWithinGrant
  <1>1. Ind => MadeWithinGrant
    BY DEF Ind, History
  <1> QED
    BY <1>1, Inductive, PTL

\* A narrowed token's listings show what was in its scope (server/mod.rs:2063-2072).
THEOREM ListingsStayInScope == Spec => []ListsOnlyScope
  <1>1. Ind => ListsOnlyScope
    BY DEF Ind, Sound, InScope, ListsOnlyScope
  <1> QED
    BY <1>1, Inductive, PTL

\* Pages add up, however others change the listing, unless it shrinks
\* (server/mod.rs:651-661).
THEOREM PagesAddUp == Spec => []NoneSkipped
  <1>1. Ind => NoneSkipped
    <2> SUFFICES ASSUME Ind, NEW c \in Clients, call[c].at = "listed", ~Shrunk(call[c])
                 PROVE  \A v \in Visible(call[c].by, call[c].kind, call[c].began) :
                          v \in call[c].seen
      BY DEF NoneSkipped, At, Shrunk
    <2> QED
      BY DEF Ind, Sound, Complete
  <1> QED
    BY <1>1, Inductive, PTL

(***************************************************************************)
(* The pins that the clients were built with hold through every reload: a  *)
(* guest on one of them is interrupted only with an override, and that     *)
(* rests on a waiver or on lab mode at a time since the call began.        *)
(***************************************************************************)
THEOREM StartupPinsAreKept == Spec => []StartupPinsHold
  <1>1. Ind => StartupPinsHold
    BY DEF Ind, Sound, Justified, Dated, StartupPinsHold, At, Served
  <1> QED
    BY <1>1, Inductive, PTL

(***************************************************************************)
(* So that README.md:150 holds of pins where no reload adds one: a reload  *)
(* that does is the only way to the counterexample of ReloadedPinsHold.    *)
(***************************************************************************)
THEOREM ReloadsThatAddNoPinHold ==
  ASSUME \A lists \in Inventories : lists.protected_vmids \subseteq Startup.protected_vmids
  PROVE  Spec => []ReloadedPinsHold
  <1>1. Ind /\ StartupPinsHold => ReloadedPinsHold
    <2> SUFFICES ASSUME Ind, StartupPinsHold, NEW c \in Clients, call[c].at = "send",
                        call[c].interrupts, call[c].vmid \in call[c].pins
                 PROVE  call[c].override
      BY DEF ReloadedPinsHold, At
    <2>1. call[c].pins \in {{}} \cup {i.protected_vmids : i \in Inventories}
      BY DEF Ind, TypeOK, Calls
    <2>2. call[c].vmid \in Startup.protected_vmids
      BY <2>1
    <2> QED
      BY <2>2 DEF StartupPinsHold, At
  <1> QED
    BY <1>1, Inductive, StartupPinsAreKept, PTL

(***************************************************************************)
(* So that what is said of waivers (server/mod.rs:3097-3099) holds where   *)
(* none expires: an expiry while a call runs is the only way to the        *)
(* counterexample of JustifiedAtOnce, whatever happens to the guest        *)
(* between the two resolutions.                                            *)
(***************************************************************************)
THEOREM WaiversThatStandLiftAtOnce ==
  ASSUME \A waiver \in Waivers : waiver.until > MaxTime
  PROVE  Spec => []JustifiedAtOnce
  <1>1. Ind /\ InterruptionsJustified => JustifiedAtOnce
    <2> SUFFICES ASSUME Ind, InterruptionsJustified, NEW c \in Clients
                 PROVE  ~LapsedSince(call[c])
      BY DEF InterruptionsJustified, JustifiedAtOnce
    <2>1. clock \in 0 .. MaxTime /\ \A waiver \in Waivers : waiver.until \in Nat
      BY WaiversAssumption DEF Ind, TypeOK
    <2> QED
      BY <2>1, BoundAssumption DEF LapsedSince
  <1> QED
    BY <1>1, Inductive, NoInterruptionOnAStaleAnswer, PTL

(***************************************************************************)
(* Creating leads nobody out of its own scope: what a principal has made   *)
(* it can address afterwards, whatever others have made of its tags, its   *)
(* pool and its node since (grant.rs:81-100).                              *)
(***************************************************************************)
THEOREM MakersKeepTheirGuests == Spec => []MakersMayAddress
  <1>1. Ind => MakersMayAddress
    <2> SUFFICES ASSUME Ind, NEW v \in Vmids, NEW guest \in past[now][v],
                        guest.made \in Principals
                 PROVE  AllowsGuest(Grants[guest.made], guest)
      BY DEF MakersMayAddress
    <2>1. guest.vmid = v /\ AllowsNewVmid(Grants[guest.made], v)
      BY DEF Ind, TypeOK, History, MadeWithinGrant
    <2>2. PICK term \in Grants[guest.made].guests :
            term.kind = "any" \/ (term.kind = "vmid" /\ v \in term.low .. term.high)
      BY <2>1 DEF AllowsNewVmid
    <2>3. Matches(term, guest)
      BY <2>1, <2>2 DEF Matches
    <2> QED
      BY <2>3 DEF AllowsGuest
  <1> QED
    BY <1>1, Inductive, PTL

\* Creating never overwrites: a guest that is there keeps its maker
\* (server/mod.rs:2795-2803).
THEOREM CreatingNeverOverwrites == Spec => NeverOverwrites
  <1>1. Ind /\ [Next]_vars => MakersKept
    BY NextStep
  <1>2. Ind /\ [Next]_vars => [MakersKept]_vars
    BY <1>1
  <1> QED
    BY <1>2, Inductive, PTL DEF Spec, NeverOverwrites, MakersKept
=============================================================================
