----------------------- MODULE RestoreChangeSetProofs -----------------------
(***************************************************************************)
(* Proofs about the change sets that restore an archive to a new VMID, for *)
(* any number of handlers, change sets, principals, owners and edits,      *)
(* whatever fails.                                                         *)
(*                                                                         *)
(* What an apply has seen of the cluster it has seen of a version, and a   *)
(* version is never rewritten; what it holds of the record, nobody else    *)
(* moves while it holds the claim.                                         *)
(***************************************************************************)
EXTENDS RestoreChangeSet, FiniteSetTheorems, TLAPS

\* Handlers that name a change set, and those of them that are an apply.
Applies == {"apply_source", "apply_owner", "apply_vacancy", "claim"} \cup ClaimSteps
Naming  == {"plan_preview", "approve"} \cup Applies

\* What a handler has read and seen.
Reader(k) ==
  /\ k.at \in {"plan_owner", "plan_vacancy", "plan_create"}
       => k.by \in Principals /\ k.copies \in Owners
  /\ k.at \in Naming => k.id \in Ids /\ store[k.id] # None
  /\ k.at \in Applies \cup {"approve"} => k.by \in Principals
  /\ k.at = "approve" => store[k.id].preview = "stored"
  /\ k.at \in Applies => k.copies = store[k.id].copies
  /\ k.began <= now /\ k.floor <= now
  /\ k.at = "apply_vacancy" => k.began <= k.floor
  /\ k.at \in {"apply_owner", "apply_vacancy", "claim", "intent", "dispatch"}
       => \E v \in k.began .. now : past[v].archive = k.copies
  /\ k.at \in {"claim", "intent", "dispatch"}
       => \E v \in k.began .. now : past[v].target = "free"
  /\ k.at \in {"apply_vacancy", "claim"} \cup ClaimSteps
       => OwnerAuthorized(k.by, k.by, k.copies)

\* A handler with the claim holds an Applying record, and knows what became of it.
Holder(k) ==
  k.at \in ClaimSteps =>
    /\ InState(k.id, "Applying")
    /\ k.at \in {"intent", "dispatch"}
         => effect[k.id] = "none" /\ receipts[k.id] = {} /\ store[k.id].handle = "none"
    /\ k.at \in {"persist", "poll"} => effect[k.id] # "none"
    /\ k.at \in {"receipt", "settle"} => Truthful(k.id, k.outcome)

\* What a change set's record says, by how far it has come.
RecordOK(i) ==
  /\ store[i] = None \/ InState(i, "Planned") \/ InState(i, "Approved")
       => effect[i] = "none" /\ receipts[i] = {}
  /\ store[i] # None /\ ~InState(i, "Planned")
       => store[i].preview = "stored" /\ store[i].approver \in Humans \ {store[i].owner}
  /\ InState(i, "Applied") => effect[i] = "ok"
  /\ InState(i, "Failed") => effect[i] \in {"none", "failed"}
  /\ \A o \in receipts[i] : Truthful(i, o)
  /\ store[i] # None /\ store[i].handle # "none"
       => InState(i, "Applying") /\ effect[i] # "none"

\* One holder of a claim at a time, and none while the server is not serving.
OneHolder ==
  /\ \A g, h \in Handlers :
       call[g].at \in ClaimSteps /\ call[h].at \in ClaimSteps /\ call[g].id = call[h].id
         => g = h
  /\ server # "serving" => \A h \in Handlers : call[h] = NoCall

\* Every version has its cause: an edit, a restore, or the failure of one.
Begun == {i \in Ids : effect[i] # "none"}
Ended == {i \in Ids : effect[i] = "failed"}
Paced == now <= edits + Cardinality(Begun) + Cardinality(Ended)

Ind ==
  /\ TypeOK
  /\ Paced
  /\ \A i \in Ids : RecordOK(i)
  /\ \A h \in Handlers : Reader(call[h]) /\ Holder(call[h])
  /\ OneHolder

-----------------------------------------------------------------------------
\* Versions.

\* No more versions than causes.
LEMMA Bounded ==
  ASSUME NEW n \in Nat, NEW e \in 0 .. Horizon, NEW S \in SUBSET Ids, NEW T \in SUBSET Ids,
         n <= e + Cardinality(S) + Cardinality(T)
  PROVE  n \in Versions
  <1>1. /\ Cardinality(S) \in Nat /\ Cardinality(T) \in Nat /\ Cardinality(Ids) \in Nat
        /\ Cardinality(S) <= Cardinality(Ids) /\ Cardinality(T) <= Cardinality(Ids)
    BY BoundAssumption, FS_Subset, FS_CardinalityType
  <1> QED
    BY <1>1, BoundAssumption DEF Versions

\* The first version is one, and versions are numbers.
LEMMA VersionNumbers ==
  /\ 0 \in Versions /\ Versions \subseteq Nat
  /\ Cardinality(Ids) \in Nat /\ Horizon \in Nat
  BY BoundAssumption, FS_CardinalityType DEF Versions

\* What any step does to the cluster: a version that was reached stays.
Grows ==
  /\ now' \in Versions /\ now <= now' /\ edits' \in 0 .. Horizon
  /\ past' \in [Versions -> Clusters]
  /\ \A v \in 0 .. now : past'[v] = past[v]
  /\ Paced'

\* What Becomes leaves, if the new version has its cause.
LEMMA BecomesGrows ==
  ASSUME TypeOK, NEW c \in Clusters, Becomes(c), edits' \in 0 .. Horizon, Paced'
  PROVE  Grows /\ past'[now'] = c
  <1>1. PICK n, e, S, T : n = now' /\ e = edits' /\ S = Begun' /\ T = Ended'
    OBVIOUS
  <1>2. n \in Nat /\ n = now + 1 /\ S \in SUBSET Ids /\ T \in SUBSET Ids
    BY <1>1, VersionNumbers DEF Becomes, TypeOK, Begun, Ended
  <1>3. n <= e + Cardinality(S) + Cardinality(T)
    BY <1>1 DEF Paced
  <1>4. n \in Versions
    BY <1>1, <1>2, <1>3, Bounded
  <1>5. past' \in [Versions -> Clusters] /\ past'[now'] = c
        /\ \A v \in 0 .. now : past'[v] = past[v]
    <2>1. \A v \in Versions : past'[v] = IF v > now THEN c ELSE past[v]
      BY DEF Becomes
    <2>2. 0 .. now \subseteq Versions
      BY VersionNumbers DEF TypeOK, Versions
    <2>3. past' \in [Versions -> Clusters]
      BY DEF Becomes, TypeOK
    <2>4. \A v \in 0 .. now : past'[v] = past[v]
      BY <2>1, <2>2, VersionNumbers DEF TypeOK
    <2>5. past'[n] = c
      BY <2>1, <1>2, <1>4, VersionNumbers DEF TypeOK
    <2> QED
      BY <2>3, <2>4, <2>5, <1>1
  <1> QED
    BY <1>1, <1>2, <1>4, <1>5, VersionNumbers DEF Grows, TypeOK

\* Without a change of the cluster, no cause is needed.
LEMMA StaysGrows ==
  ASSUME TypeOK, Paced, UNCHANGED <<now, past, edits, effect>>
  PROVE  Grows
  BY VersionNumbers DEF Grows, TypeOK, Paced, Begun, Ended

\* Proxmox restores a change set for the first time: one cause more.
LEMMA RestoresGrow ==
  ASSUME TypeOK, Paced, NEW i \in Ids, effect[i] = "none", NEW e \in {"running", "ok"},
         Restores(i, e)
  PROVE  Grows
  <1>1. PICK S, T : S = Begun /\ T = Ended
    OBVIOUS
  <1>2. S \in SUBSET Ids /\ T \in SUBSET Ids /\ i \notin S
    BY <1>1 DEF Begun, Ended
  <1>3. Begun' = S \cup {i} /\ Ended' = T
    BY <1>1 DEF Restores, TypeOK, Begun, Ended
  <1>4. /\ IsFiniteSet(S) /\ Cardinality(S) \in Nat /\ Cardinality(T) \in Nat
        /\ Cardinality(S \cup {i}) = Cardinality(S) + 1
    BY <1>2, BoundAssumption, FS_Subset, FS_CardinalityType, FS_AddElement
  <1>5. now <= edits + Cardinality(S) + Cardinality(T)
    BY <1>1 DEF Paced
  <1>6. now' = now + 1 /\ edits' = edits /\ edits \in 0 .. Horizon /\ now \in Nat
    BY VersionNumbers DEF Restores, Becomes, TypeOK
  <1>7. Paced'
    BY <1>3, <1>4, <1>5, <1>6, VersionNumbers DEF Paced
  <1>8. [past[now] EXCEPT !.target = i] \in Clusters
    BY DEF TypeOK, Clusters, Targets
  <1> QED
    BY <1>6, <1>7, <1>8, BecomesGrows DEF Restores

\* A restore task ends, perhaps giving the VMID back: one cause more.
LEMMA TaskEndsGrow ==
  ASSUME TypeOK, Paced, NEW i \in Ids, TaskEnds(i)
  PROVE  Grows
  <1>1. PICK S, T : S = Begun /\ T = Ended
    OBVIOUS
  <1>2. S \in SUBSET Ids /\ T \in SUBSET Ids /\ i \notin T
    BY <1>1 DEF Begun, Ended, TaskEnds
  <1>3. /\ Cardinality(S) \in Nat /\ Cardinality(T) \in Nat
        /\ Cardinality(T \cup {i}) = Cardinality(T) + 1
    BY <1>2, BoundAssumption, FS_Subset, FS_CardinalityType, FS_AddElement
  <1>4. now <= edits + Cardinality(S) + Cardinality(T) /\ now \in Nat /\ edits' = edits
        /\ edits \in 0 .. Horizon /\ edits \in Nat
    BY <1>1, VersionNumbers DEF Paced, TypeOK, TaskEnds
  <1>5. CASE effect' = [effect EXCEPT ![i] = "ok"] /\ UNCHANGED <<now, past>>
    <2>1. Begun' = S /\ Ended' = T
      BY <1>1, <1>5 DEF TaskEnds, TypeOK, Begun, Ended
    <2> QED
      BY <2>1, <1>4, <1>5 DEF Grows, TypeOK, Paced
  <1>6. CASE effect' = [effect EXCEPT ![i] = "failed"]
    <2>1. Begun' = S /\ Ended' = T \cup {i}
      BY <1>1, <1>6 DEF TaskEnds, TypeOK, Begun, Ended
    <2>2. CASE UNCHANGED <<now, past>>
      BY <2>1, <2>2, <1>3, <1>4 DEF Grows, TypeOK, Paced
    <2>3. CASE Becomes([past[now] EXCEPT !.target = "free"])
      <3>1. now' = now + 1
        BY <2>3 DEF Becomes
      <3>2. Paced'
        BY <2>1, <3>1, <1>3, <1>4 DEF Paced
      <3>3. [past[now] EXCEPT !.target = "free"] \in Clusters
        BY DEF TypeOK, Clusters, Targets
      <3> QED
        BY <2>3, <3>2, <3>3, <1>4, BecomesGrows
    <2> QED
      BY <1>6, <2>2, <2>3 DEF TaskEnds
  <1> QED
    BY <1>5, <1>6 DEF TaskEnds

\* What others do to the cluster leaves a cluster.
LEMMA EditedTyped ==
  ASSUME NEW c \in Clusters, NEW d \in Edited(c)
  PROVE  /\ d \in Clusters
         /\ c.target # "free" => d.target \in {c.target, "free"}
  <1>1. c.target \in Targets /\ c.status \in [Owners -> Statuses]
    BY DEF Clusters
  <1>2. CASE \E t \in {"foreign", "free"} : d = [c EXCEPT !.target = t]
             /\ (t = "foreign" => c.target = "free")
    BY <1>1, <1>2 DEF Clusters, Targets
  <1>3. CASE \E a \in Owners \cup {None} : d = [c EXCEPT !.archive = a]
    BY <1>1, <1>3 DEF Clusters, Targets
  <1>4. CASE \E o \in Owners : \E s \in Lives[o] :
               d = [c EXCEPT !.status = [@ EXCEPT ![o] = s]]
    <2>1. PICK o \in Owners : \E s \in Lives[o] : d = [c EXCEPT !.status = [@ EXCEPT ![o] = s]]
      BY <1>4
    <2>2. PICK s \in Lives[o] : d = [c EXCEPT !.status = [c.status EXCEPT ![o] = s]]
      BY <2>1
    <2>3. s \in Statuses
      BY <2>2, LivesAssumption
    <2>4. PICK w : w = [c.status EXCEPT ![o] = s]
      OBVIOUS
    <2>5. w \in [Owners -> Statuses] /\ d = [c EXCEPT !.status = w]
      BY <2>2, <2>3, <2>4, <1>1
    <2> QED
      BY <2>5 DEF Clusters
  <1> QED
    BY <1>1, <1>2, <1>3, <1>4 DEF Edited

\* An edit has itself for a cause.
LEMMA EditGrows ==
  ASSUME TypeOK, Paced, Edit
  PROVE  Grows /\ (past[now].target # "free" => past'[now'].target \in {past[now].target, "free"})
  <1>1. PICK c \in Edited(past[now]) : Becomes(c)
    BY DEF Edit
  <1>2. past[now] \in Clusters
    BY DEF TypeOK
  <1>3. c \in Clusters /\ (past[now].target # "free" => c.target \in {past[now].target, "free"})
    BY <1>1, <1>2, EditedTyped
  <1>4. edits' = edits + 1 /\ now' = now + 1 /\ edits' \in 0 .. Horizon
        /\ now \in Nat /\ edits \in Nat
    BY <1>1, VersionNumbers DEF Edit, Becomes, TypeOK
  <1>5. PICK S, T : S = Begun /\ T = Ended
    OBVIOUS
  <1>6. S \in SUBSET Ids /\ T \in SUBSET Ids /\ Begun' = S /\ Ended' = T
    BY <1>5 DEF Begun, Ended, Edit
  <1>7. Cardinality(S) \in Nat /\ Cardinality(T) \in Nat
    BY <1>6, BoundAssumption, FS_Subset, FS_CardinalityType
  <1>8. Paced'
    BY <1>4, <1>5, <1>6, <1>7 DEF Paced
  <1> QED
    BY <1>1, <1>3, <1>4, <1>8, BecomesGrows

-----------------------------------------------------------------------------
\* Frames: what a step has to show for itself, where it leaves the rest alone.

\* The locals of an idle handler, field by field.
LEMMA NoCallTyped ==
  /\ NoCall \in Calls
  /\ NoCall.at = "idle" /\ NoCall.id = None /\ NoCall.by = None /\ NoCall.copies = None
  /\ NoCall.seen = "none" /\ NoCall.began = 0 /\ NoCall.floor = 0 /\ NoCall.outcome = "failed"
  BY VersionNumbers DEF NoCall, Calls, Outcomes

\* A record is not None.
LEMMA RecordsNotNone == \A r \in Records : r # None
  BY NoneAssumption

\* Nothing has changed about change set j.
SameFor(j) ==
  store'[j] = store[j] /\ effect'[j] = effect[j] /\ receipts'[j] = receipts[j]

\* The record of change set j, if there was one, still says what was planned.
KeepsPlan(j) ==
  store[j] # None =>
    /\ store'[j] # None /\ store'[j].copies = store[j].copies
    /\ store[j].preview = "stored" => store'[j].preview = "stored"

\* Change set j has come no further: whoever holds its claim still does.
SameProgress(j) ==
  /\ store[j] # None /\ store'[j] # None /\ store'[j].state = store[j].state
  /\ store'[j].handle = store[j].handle
  /\ effect'[j] = effect[j] /\ receipts'[j] = receipts[j]

\* No handler but h has claimed change set i.
OnlyHolder(h, i) ==
  \A g \in Handlers \ {h} : call[g].at \in ClaimSteps => call[g].id # i

\* What the invariant says of a call, of its locals as such.
LEMMA CallKnown ==
  ASSUME Ind, NEW h \in Handlers
  PROVE  \E k \in Calls : k = call[h] /\ Reader(k) /\ Holder(k)
  <1>1. PICK k : k = call[h]
    OBVIOUS
  <1>2. Reader(call[h]) /\ Holder(call[h]) /\ call[h] \in Calls
    BY DEF Ind, TypeOK
  <1>3. Reader(k)
    BY <1>1, <1>2
  <1>4. Holder(k)
    BY <1>1, <1>2
  <1> QED
    BY <1>1, <1>2, <1>3, <1>4

\* The same of the state that a step leads to.
LEMMA CallPrimed ==
  ASSUME NEW h, NEW k, k = call'[h], Reader(k)', Holder(k)'
  PROVE  Reader(call[h])' /\ Holder(call[h])'
  <1>1. Reader(call[h])'
    BY DEF Reader, OwnerAuthorized, OwnerAdmits
  <1>2. Holder(call[h])'
    BY DEF Holder, Truthful, InState
  <1> QED
    BY <1>1, <1>2

\* What a call has read and seen, it has for good.
LEMMA ReaderKept ==
  ASSUME TypeOK, Grows, NEW k \in Calls, Reader(k), \A j \in Ids : KeepsPlan(j)
  PROVE  Reader(k)'
  <1>1. /\ now \in Nat /\ now' \in Nat /\ now <= now' /\ k.began \in Nat /\ k.floor \in Nat
        /\ k.began <= now /\ k.floor <= now
    BY VersionNumbers DEF TypeOK, Grows, Calls, Reader
  <1>2. \A v \in 0 .. now : past'[v] = past[v]
    BY DEF Grows
  <1>3. k.at \in Naming => /\ k.id \in Ids /\ store[k.id] # None
                           /\ store'[k.id] # None /\ store'[k.id].copies = store[k.id].copies
                           /\ store[k.id].preview = "stored" => store'[k.id].preview = "stored"
    BY DEF Reader, KeepsPlan
  <1>4. OwnerAuthorized(k.by, k.by, k.copies) => OwnerAuthorized(k.by, k.by, k.copies)'
    <2> SUFFICES ASSUME NEW v \in 0 .. now, OwnerAdmits(k.by, k.by, k.copies, past[v])
                 PROVE  \E w \in 0 .. now' : OwnerAdmits(k.by, k.by, k.copies, past'[w])
      BY DEF OwnerAuthorized
    <2>1. v \in 0 .. now' /\ past'[v] = past[v]
      BY <1>1, <1>2
    <2> QED
      BY <2>1
  <1>5. \A a : (\E v \in k.began .. now : past[v].archive = a)
                 => \E v \in k.began .. now' : past'[v].archive = a
    BY <1>1, <1>2
  <1>6. (\E v \in k.began .. now : past[v].target = "free")
          => \E v \in k.began .. now' : past'[v].target = "free"
    BY <1>1, <1>2
  <1> QED
    BY <1>1, <1>3, <1>4, <1>5, <1>6 DEF Reader, Naming, Applies

\* What a holder knows stays true of a change set that has come no further.
LEMMA HolderKept ==
  ASSUME NEW k, Holder(k), SameFor(k.id) \/ SameProgress(k.id)
  PROVE  Holder(k)'
  <1>1. InState(k.id, "Applying") => /\ InState(k.id, "Applying")'
                                     /\ store'[k.id].handle = store[k.id].handle
    BY DEF InState, SameFor, SameProgress
  <1>2. effect'[k.id] = effect[k.id] /\ receipts'[k.id] = receipts[k.id]
    BY DEF SameFor, SameProgress
  <1>3. \A o : Truthful(k.id, o)' <=> Truthful(k.id, o)
    BY <1>2 DEF Truthful
  <1> QED
    BY <1>1, <1>2, <1>3 DEF Holder

\* A record keeps saying what it said of a change set that has not moved.
LEMMA RecordKept ==
  ASSUME NEW j, RecordOK(j), SameFor(j)
  PROVE  RecordOK(j)'
  BY DEF RecordOK, SameFor, InState, Truthful

\* A step of handler h about change set i.
LEMMA StepInd ==
  ASSUME Ind, NEW h \in Handlers, NEW i \in Ids, NEW c \in Calls, server' = "serving",
         call' = [call EXCEPT ![h] = c], TypeOK', Grows,
         \A j \in Ids \ {i} : SameFor(j), KeepsPlan(i),
         OnlyHolder(h, i) \/ SameProgress(i),
         RecordOK(i)', Reader(c)', Holder(c)',
         c.at \in ClaimSteps => c.id = i /\ OnlyHolder(h, i)
  PROVE  Ind'
  <1>1. TypeOK /\ \A j \in Ids : RecordOK(j) /\ KeepsPlan(j)
    BY DEF Ind, SameFor, KeepsPlan
  <1>2. \A j \in Ids : RecordOK(j)'
    BY <1>1, RecordKept
  <1>3. ASSUME NEW g \in Handlers
        PROVE  Reader(call[g])' /\ Holder(call[g])'
    <2>1. CASE g = h
      <3>1. call'[g] = c
        BY <2>1, <1>1 DEF TypeOK
      <3> QED
        BY <3>1, CallPrimed
    <2>2. CASE g # h
      <3>1. PICK k \in Calls : k = call[g] /\ Reader(k) /\ Holder(k)
        BY CallKnown
      <3>2. k = call'[g]
        BY <2>2, <3>1, <1>1 DEF TypeOK
      <3>3. Reader(k)'
        BY <3>1, <1>1, ReaderKept
      <3>4. Holder(k)'
        <4>1. CASE k.at \in ClaimSteps
          <5>1. k.id \in Ids /\ (OnlyHolder(h, i) => k.id # i)
            BY <2>2, <3>1, <4>1 DEF Reader, Naming, Applies, OnlyHolder
          <5> QED
            BY <3>1, <5>1, HolderKept
        <4>2. CASE k.at \notin ClaimSteps
          BY <4>2 DEF Holder
        <4> QED
          BY <4>1, <4>2
      <3> QED
        BY <3>2, <3>3, <3>4, CallPrimed
    <2> QED
      BY <2>1, <2>2
  <1>4. OneHolder'
    BY <1>1 DEF Ind, OneHolder, OnlyHolder, TypeOK
  <1> QED
    BY <1>2, <1>3, <1>4 DEF Ind, Grows

\* A step of handler h that writes nothing, and takes no claim.
LEMMA QuietInd ==
  ASSUME Ind, NEW h \in Handlers, NEW c \in Calls, server = "serving",
         call' = [call EXCEPT ![h] = c], c.at \notin ClaimSteps, Reader(c),
         UNCHANGED <<server, crashes, cluster, store, effect, receipts, intents>>
  PROVE  Ind'
  <1>1. TypeOK /\ TypeOK' /\ Grows
    BY StaysGrows DEF Ind, TypeOK, cluster
  <1>2. \A j \in Ids : SameFor(j) /\ KeepsPlan(j) /\ RecordOK(j)
    BY DEF SameFor, KeepsPlan, Ind
  <1>3. \A j \in Ids : RecordOK(j)'
    BY <1>2, RecordKept
  <1>4. Reader(c)'
    BY <1>1, <1>2, ReaderKept
  <1>5. ASSUME NEW g \in Handlers
        PROVE  Reader(call[g])' /\ Holder(call[g])'
    <2>1. PICK k \in Calls : k = call'[g] /\ (k = c \/ k = call[g])
      BY <1>1 DEF TypeOK
    <2>2. Reader(k)'
      <3>1. CASE k = c
        BY <1>4, <3>1
      <3>2. CASE k = call[g]
        <4>1. Reader(k)
          BY <3>2, CallKnown
        <4> QED
          BY <4>1, <1>1, <1>2, ReaderKept
      <3> QED
        BY <2>1, <3>1, <3>2
    <2>3. Holder(k)'
      <3>1. CASE k.at \in ClaimSteps
        <4>1. k = call[g]
          BY <2>1, <3>1
        <4>2. Holder(k) /\ Reader(k)
          BY <4>1, CallKnown
        <4>3. k.id \in Ids
          BY <3>1, <4>2 DEF Reader, Naming, Applies
        <4> QED
          BY <1>2, <4>2, <4>3, HolderKept
      <3>2. CASE k.at \notin ClaimSteps
        BY <3>2 DEF Holder
      <3> QED
        BY <3>1, <3>2
    <2> QED
      BY <2>1, <2>2, <2>3, CallPrimed
  <1>6. OneHolder'
    BY <1>1 DEF Ind, OneHolder, TypeOK
  <1> QED
    BY <1>1, <1>3, <1>5, <1>6 DEF Ind, Grows

-----------------------------------------------------------------------------
\* Steps that only read: one lemma per action, that it preserves the invariant.

\* An idle handler has read nothing.
LEMMA IdleReader ==
  ASSUME TypeOK
  PROVE  Reader(NoCall)
  BY NoCallTyped, VersionNumbers DEF TypeOK, Reader, Naming, Applies, ClaimSteps

\* A handler that returns preserves the invariant.
LEMMA ReturnInd ==
  ASSUME Ind, NEW h \in Handlers, server = "serving", Return(h),
         UNCHANGED <<server, crashes, cluster, store, effect, receipts, intents>>
  PROVE  Ind'
  <1>1. Reader(NoCall) /\ NoCall \in Calls /\ NoCall.at \notin ClaimSteps
    BY IdleReader, NoCallTyped DEF Ind, ClaimSteps
  <1> QED
    BY <1>1, QuietInd DEF Return

\* PlanStart preserves the invariant.
LEMMA PlanStartInd ==
  ASSUME Ind, NEW h \in Handlers, PlanStart(h)
  PROVE  Ind'
  <1>1. PICK by \in Principals :
          call' = [call EXCEPT ![h] = [NoCall EXCEPT !.at = "plan_owner", !.by = by,
                                                     !.copies = past[now].archive]]
    BY DEF PlanStart
  <1>2. past[now].archive \in Owners /\ server = "serving"
    BY DEF PlanStart, At, Ind, TypeOK, Clusters
  <1>3. PICK c : c = [NoCall EXCEPT !.at = "plan_owner", !.by = by, !.copies = past[now].archive]
    OBVIOUS
  <1>4. c \in Calls /\ c.at = "plan_owner" /\ c.by = by /\ c.copies \in Owners
        /\ c.began = 0 /\ c.floor = 0
    BY <1>2, <1>3, NoCallTyped DEF Calls, PlanSteps
  <1>5. Reader(c)
    BY <1>4, VersionNumbers DEF Ind, TypeOK, Reader, Naming, Applies, ClaimSteps
  <1> QED
    BY <1>1, <1>2, <1>3, <1>4, <1>5, QuietInd DEF PlanStart, ClaimSteps

\* PlanOwner preserves the invariant.
LEMMA PlanOwnerInd ==
  ASSUME Ind, NEW h \in Handlers, PlanOwner(h)
  PROVE  Ind'
  <1>1. PICK k \in Calls : k = call[h] /\ Reader(k) /\ Holder(k)
    BY CallKnown
  <1>2. PICK c : c = [k EXCEPT !.at = "plan_vacancy", !.floor = now]
    OBVIOUS
  <1>3. k.at = "plan_owner" /\ server = "serving" /\ now \in Versions /\ now \in Nat
    BY <1>1, VersionNumbers DEF PlanOwner, At, Ind, TypeOK
  <1>4. c \in Calls /\ c.at = "plan_vacancy" /\ c.by = k.by /\ c.copies = k.copies
        /\ c.began = k.began /\ c.floor = now
    BY <1>2, <1>3 DEF Calls, PlanSteps
  <1>5. Reader(c)
    BY <1>1, <1>3, <1>4 DEF Reader, Naming, Applies, ClaimSteps
  <1>6. call' = [call EXCEPT ![h] = c]
    BY <1>1, <1>2 DEF PlanOwner
  <1> QED
    BY <1>3, <1>4, <1>5, <1>6, QuietInd DEF PlanOwner, ClaimSteps

\* PlanVacancy preserves the invariant.
LEMMA PlanVacancyInd ==
  ASSUME Ind, NEW h \in Handlers, PlanVacancy(h)
  PROVE  Ind'
  <1>1. PICK k \in Calls : k = call[h] /\ Reader(k) /\ Holder(k)
    BY CallKnown
  <1>2. PICK c : c = [k EXCEPT !.at = "plan_create", !.floor = 0]
    OBVIOUS
  <1>3. k.at = "plan_vacancy" /\ server = "serving" /\ now \in Nat
    BY <1>1, VersionNumbers DEF PlanVacancy, At, Ind, TypeOK
  <1>4. c \in Calls /\ c.at = "plan_create" /\ c.by = k.by /\ c.copies = k.copies
        /\ c.began = k.began /\ c.floor = 0
    BY <1>2, VersionNumbers DEF Calls, PlanSteps
  <1>5. Reader(c)
    BY <1>1, <1>3, <1>4 DEF Reader, Naming, Applies, ClaimSteps
  <1>6. call' = [call EXCEPT ![h] = c]
    BY <1>1, <1>2 DEF PlanVacancy
  <1> QED
    BY <1>3, <1>4, <1>5, <1>6, QuietInd DEF PlanVacancy, ClaimSteps

\* ApproveStart preserves the invariant.
LEMMA ApproveStartInd ==
  ASSUME Ind, NEW h \in Handlers, ApproveStart(h)
  PROVE  Ind'
  <1>1. PICK i \in Ids, by \in Principals :
          /\ store[i] # None /\ store[i].preview = "stored"
          /\ call' = [call EXCEPT ![h] = [NoCall EXCEPT !.at = "approve", !.id = i, !.by = by]]
    BY DEF ApproveStart
  <1>2. PICK c : c = [NoCall EXCEPT !.at = "approve", !.id = i, !.by = by]
    OBVIOUS
  <1>3. c \in Calls /\ c.at = "approve" /\ c.id = i /\ c.by = by /\ c.began = 0 /\ c.floor = 0
    BY <1>2, NoCallTyped DEF Calls, CheckSteps
  <1>4. Reader(c)
    BY <1>1, <1>3, VersionNumbers DEF Ind, TypeOK, Reader, Naming, Applies, ClaimSteps
  <1> QED
    BY <1>1, <1>2, <1>3, <1>4, QuietInd DEF ApproveStart, At, ClaimSteps

\* ApplyStart preserves the invariant.
LEMMA ApplyStartInd ==
  ASSUME Ind, NEW h \in Handlers, ApplyStart(h)
  PROVE  Ind'
  <1>1. PICK i \in Ids, by \in Principals :
          /\ store[i] # None
          /\ call' = [call EXCEPT ![h] =
               [NoCall EXCEPT !.at = "apply_source", !.id = i, !.by = by, !.began = now,
                              !.seen = store[i].state, !.copies = store[i].copies]]
    BY DEF ApplyStart
  <1>2. PICK c : c = [NoCall EXCEPT !.at = "apply_source", !.id = i, !.by = by, !.began = now,
                                    !.seen = store[i].state, !.copies = store[i].copies]
    OBVIOUS
  <1>3. store[i].state \in States /\ store[i].copies \in Owners /\ now \in Versions /\ now \in Nat
    BY <1>1, VersionNumbers DEF Ind, TypeOK, Records
  <1>4. c \in Calls /\ c.at = "apply_source" /\ c.id = i /\ c.by = by /\ c.began = now
        /\ c.floor = 0 /\ c.copies = store[i].copies
    BY <1>2, <1>3, NoCallTyped DEF Calls, CheckSteps
  <1>5. Reader(c)
    BY <1>1, <1>3, <1>4 DEF Reader, Naming, Applies, ClaimSteps
  <1> QED
    BY <1>1, <1>2, <1>4, <1>5, QuietInd DEF ApplyStart, At, ClaimSteps

\* ApplySource preserves the invariant: the archive is the planned owner's now.
LEMMA ApplySourceInd ==
  ASSUME Ind, NEW h \in Handlers, ApplySource(h)
  PROVE  Ind'
  <1>1. PICK k \in Calls : k = call[h] /\ Reader(k) /\ Holder(k)
    BY CallKnown
  <1>2. PICK c : c = [k EXCEPT !.at = "apply_owner"]
    OBVIOUS
  <1>3. k.at = "apply_source" /\ server = "serving" /\ past[now].archive = k.copies
    BY <1>1 DEF ApplySource, At
  <1>4. c \in Calls /\ c.at = "apply_owner" /\ c.id = k.id /\ c.by = k.by
        /\ c.copies = k.copies /\ c.began = k.began /\ c.floor = k.floor
    BY <1>2 DEF Calls, CheckSteps
  <1>5. now \in k.began .. now
    BY <1>1, VersionNumbers DEF Reader, Calls, Ind, TypeOK
  <1>6. Reader(c)
    BY <1>1, <1>3, <1>4, <1>5 DEF Reader, Naming, Applies, ClaimSteps
  <1>7. call' = [call EXCEPT ![h] = c]
    BY <1>1, <1>2 DEF ApplySource, Goto
  <1> QED
    BY <1>3, <1>4, <1>6, <1>7, QuietInd DEF ApplySource, ClaimSteps

\* ApplyOwner preserves the invariant: the caller himself is admitted to the owner.
LEMMA ApplyOwnerInd ==
  ASSUME Ind, NEW h \in Handlers, ApplyOwner(h)
  PROVE  Ind'
  <1>1. PICK k \in Calls : k = call[h] /\ Reader(k) /\ Holder(k)
    BY CallKnown
  <1>2. PICK c : c = [k EXCEPT !.at = "apply_vacancy", !.floor = now]
    OBVIOUS
  <1>3. k.at = "apply_owner" /\ server = "serving" /\ now \in Versions /\ now \in Nat
    BY <1>1, VersionNumbers DEF ApplyOwner, At, Ind, TypeOK
  <1>4. OwnerAuthorized(k.by, k.by, k.copies)
    BY <1>1 DEF ApplyOwner
  <1>5. c \in Calls /\ c.at = "apply_vacancy" /\ c.id = k.id /\ c.by = k.by
        /\ c.copies = k.copies /\ c.began = k.began /\ c.floor = now
    BY <1>2, <1>3 DEF Calls, CheckSteps
  <1>6. Reader(c)
    BY <1>1, <1>3, <1>4, <1>5 DEF Reader, Naming, Applies, ClaimSteps
  <1>7. call' = [call EXCEPT ![h] = c]
    BY <1>1, <1>2 DEF ApplyOwner
  <1> QED
    BY <1>3, <1>5, <1>6, <1>7, QuietInd DEF ApplyOwner, ClaimSteps

\* ApplyVacancy preserves the invariant: the target was free since the apply began.
LEMMA ApplyVacancyInd ==
  ASSUME Ind, NEW h \in Handlers, ApplyVacancy(h)
  PROVE  Ind'
  <1>1. PICK k \in Calls : k = call[h] /\ Reader(k) /\ Holder(k)
    BY CallKnown
  <1>2. PICK c : c = [k EXCEPT !.at = "claim", !.seen = "none", !.floor = 0]
    OBVIOUS
  <1>3. k.at = "apply_vacancy" /\ server = "serving" /\ now \in Nat
    BY <1>1, VersionNumbers DEF ApplyVacancy, At, Ind, TypeOK
  <1>4. \E v \in k.began .. now : past[v].target = "free"
    <2>1. Vacant(k.floor)
      BY <1>1 DEF ApplyVacancy
    <2>2. PICK v \in k.floor .. now : past[v].target = "free"
      BY <2>1 DEF Vacant
    <2>3. k.began <= k.floor /\ k.began \in Nat /\ k.floor \in Nat
      BY <1>1, <1>3, VersionNumbers DEF Reader, Calls
    <2> QED
      BY <1>3, <2>2, <2>3
  <1>5. c \in Calls /\ c.at = "claim" /\ c.id = k.id /\ c.by = k.by
        /\ c.copies = k.copies /\ c.began = k.began /\ c.floor = 0
    BY <1>2, VersionNumbers DEF Calls, CheckSteps
  <1>6. Reader(c)
    BY <1>1, <1>3, <1>4, <1>5 DEF Reader, Naming, Applies, ClaimSteps
  <1>7. call' = [call EXCEPT ![h] = c]
    BY <1>1, <1>2 DEF ApplyVacancy
  <1> QED
    BY <1>3, <1>5, <1>6, <1>7, QuietInd DEF ApplyVacancy, ClaimSteps

-----------------------------------------------------------------------------
\* Steps that write a record.

\* The record of a handler that names one.
LEMMA NamedRecord ==
  ASSUME TypeOK, NEW k, Reader(k), k.at \in Naming
  PROVE  k.id \in Ids /\ store[k.id] \in Records
  BY DEF TypeOK, Reader

\* A claim that is held is held once; a record that is not claimed, by nobody.
LEMMA HolderAlone ==
  ASSUME Ind, NEW h \in Handlers, NEW k, k = call[h], k.at \in ClaimSteps
  PROVE  OnlyHolder(h, k.id)
  BY DEF Ind, OneHolder, OnlyHolder

\* ... and nobody holds a record that is not claimed.
LEMMA NotHeld ==
  ASSUME Ind, NEW h \in Handlers, NEW i \in Ids, ~InState(i, "Applying")
  PROVE  OnlyHolder(h, i)
  BY DEF Ind, Holder, OnlyHolder

\* What a write of one record leaves of the rest.
LEMMA Written ==
  ASSUME Ind, NEW h \in Handlers, NEW i \in Ids, NEW r \in Records, NEW c \in Calls,
         store' = [store EXCEPT ![i] = r], call' = [call EXCEPT ![h] = c],
         UNCHANGED <<server, crashes, cluster, effect, receipts, intents>>
  PROVE  /\ TypeOK' /\ Grows /\ \A j \in Ids \ {i} : SameFor(j) /\ KeepsPlan(j)
         /\ store'[i] = r /\ r # None
         /\ effect'[i] = effect[i] /\ receipts'[i] = receipts[i]
  <1>1. TypeOK'
    BY DEF Ind, TypeOK, cluster
  <1>2. Grows
    BY StaysGrows DEF Ind, cluster
  <1>3. \A j \in Ids \ {i} : SameFor(j) /\ KeepsPlan(j)
    BY DEF Ind, TypeOK, SameFor, KeepsPlan
  <1> QED
    BY <1>1, <1>2, <1>3, RecordsNotNone DEF Ind, TypeOK

\* A handler that writes a record and returns.
LEMMA WriteAndReturnInd ==
  ASSUME Ind, NEW h \in Handlers, NEW i \in Ids, NEW r \in Records, server = "serving",
         store' = [store EXCEPT ![i] = r], Return(h),
         UNCHANGED <<server, crashes, cluster, effect, receipts, intents>>,
         KeepsPlan(i), OnlyHolder(h, i) \/ SameProgress(i), RecordOK(i)'
  PROVE  Ind'
  <1>1. NoCall \in Calls /\ NoCall.at \notin ClaimSteps /\ call' = [call EXCEPT ![h] = NoCall]
    BY NoCallTyped DEF ClaimSteps, Return
  <1>2. TypeOK' /\ Grows /\ \A j \in Ids \ {i} : SameFor(j) /\ KeepsPlan(j)
    BY <1>1, Written
  <1>3. Reader(NoCall)'
    <2>1. Reader(NoCall) /\ TypeOK
      BY IdleReader DEF Ind
    <2> QED
      BY <1>1, <1>2, <2>1, ReaderKept
  <1>4. Holder(NoCall)'
    BY <1>1 DEF Holder
  <1>5. server' = "serving"
    OBVIOUS
  <1> QED
    BY <1>1, <1>2, <1>3, <1>4, <1>5, StepInd

\* PlanCreate preserves the invariant.
LEMMA PlanCreateInd ==
  ASSUME Ind, NEW h \in Handlers, PlanCreate(h)
  PROVE  Ind'
  <1>1. PICK k \in Calls : k = call[h] /\ Reader(k) /\ Holder(k)
    BY CallKnown
  <1>2. PICK i \in Ids :
          /\ store[i] = None
          /\ store' = [store EXCEPT ![i] =
               [state |-> "Planned", preview |-> "missing", owner |-> k.by,
                approver |-> None, copies |-> k.copies, handle |-> "none"]]
          /\ call' = [call EXCEPT ![h] = [NoCall EXCEPT !.at = "plan_preview", !.id = i]]
    <2>1. PICK i \in Ids :
            /\ store[i] = None
            /\ store' = [store EXCEPT ![i] =
                 [state |-> "Planned", preview |-> "missing", owner |-> call[h].by,
                  approver |-> None, copies |-> call[h].copies, handle |-> "none"]]
            /\ call' = [call EXCEPT ![h] = [NoCall EXCEPT !.at = "plan_preview", !.id = i]]
      BY DEF PlanCreate
    <2> QED
      BY <1>1, <2>1
  <1>3. PICK r : r = [state |-> "Planned", preview |-> "missing", owner |-> k.by,
                      approver |-> None, copies |-> k.copies, handle |-> "none"]
    OBVIOUS
  <1>4. PICK c : c = [NoCall EXCEPT !.at = "plan_preview", !.id = i]
    OBVIOUS
  <1>5. k.at = "plan_create" /\ k.by \in Principals /\ k.copies \in Owners
    BY <1>1 DEF PlanCreate, At, Reader
  <1>6. r \in Records /\ r.state = "Planned" /\ r.handle = "none"
    BY <1>3, <1>5 DEF Records, States
  <1>7. c \in Calls /\ c.at = "plan_preview" /\ c.id = i /\ c.began = 0 /\ c.floor = 0
    BY <1>4, NoCallTyped DEF Calls, PlanSteps
  <1>8. /\ server = "serving" /\ server' = "serving"
        /\ UNCHANGED <<server, crashes, cluster, effect, receipts, intents>>
        /\ store' = [store EXCEPT ![i] = r] /\ call' = [call EXCEPT ![h] = c]
    BY <1>2, <1>3, <1>4 DEF PlanCreate, At
  <1>9. /\ TypeOK' /\ Grows /\ \A j \in Ids \ {i} : SameFor(j) /\ KeepsPlan(j)
        /\ store'[i] = r /\ r # None
        /\ effect'[i] = effect[i] /\ receipts'[i] = receipts[i]
    <2>1. r \in Records /\ c \in Calls
      BY <1>6, <1>7
    <2> QED
      BY <2>1, <1>8, Written
  <1>10. effect[i] = "none" /\ receipts[i] = {}
    BY <1>2 DEF Ind, RecordOK
  <1>11. RecordOK(i)'
    BY <1>6, <1>9, <1>10 DEF RecordOK, InState
  <1>12. KeepsPlan(i) /\ OnlyHolder(h, i)
    BY <1>2, NotHeld DEF KeepsPlan, InState
  <1>13. Reader(c)'
    BY <1>7, <1>9, VersionNumbers DEF Grows, Reader, Naming, Applies, ClaimSteps
  <1>14. c.at \notin ClaimSteps /\ Holder(c)'
    BY <1>7 DEF Holder, ClaimSteps
  <1> QED
    BY <1>7, <1>8, <1>9, <1>11, <1>12, <1>13, <1>14, StepInd

\* PlanPreview preserves the invariant.
LEMMA PlanPreviewInd ==
  ASSUME Ind, NEW h \in Handlers, PlanPreview(h)
  PROVE  Ind'
  <1>1. PICK k \in Calls : k = call[h] /\ Reader(k) /\ Holder(k)
    BY CallKnown
  <1>2. k.at = "plan_preview" /\ server = "serving" /\ TypeOK
    BY <1>1 DEF PlanPreview, At, Ind
  <1>3. PICK i \in Ids : i = k.id /\ store[i] \in Records
    BY <1>1, <1>2, NamedRecord DEF Naming
  <1>4. PICK r : r = [store[i] EXCEPT !.preview = "stored"]
    OBVIOUS
  <1>5. /\ r \in Records /\ r.preview = "stored" /\ r.state = store[i].state
        /\ r.owner = store[i].owner /\ r.approver = store[i].approver
        /\ r.copies = store[i].copies /\ r.handle = store[i].handle
    BY <1>3, <1>4 DEF Records
  <1>6. /\ store' = [store EXCEPT ![i] = r] /\ Return(h)
        /\ UNCHANGED <<server, crashes, cluster, effect, receipts, intents>>
    BY <1>1, <1>3, <1>4 DEF PlanPreview
  <1>7. /\ store'[i] = r /\ r # None /\ store[i] # None
        /\ effect'[i] = effect[i] /\ receipts'[i] = receipts[i]
    BY <1>2, <1>3, <1>5, <1>6, RecordsNotNone DEF TypeOK
  <1>8. RecordOK(i)'
    <2>1. RecordOK(i)
      BY DEF Ind
    <2> QED
      BY <1>5, <1>7, <2>1 DEF RecordOK, InState, Truthful
  <1>9. KeepsPlan(i) /\ SameProgress(i)
    BY <1>5, <1>7 DEF KeepsPlan, SameProgress
  <1> QED
    BY <1>2, <1>5, <1>6, <1>8, <1>9, WriteAndReturnInd

\* Approve preserves the invariant: the decision itself compares the two persons.
LEMMA ApproveInd ==
  ASSUME Ind, NEW h \in Handlers, Approve(h)
  PROVE  Ind'
  <1>1. PICK k \in Calls : k = call[h] /\ Reader(k) /\ Holder(k)
    BY CallKnown
  <1>2. k.at = "approve" /\ server = "serving" /\ TypeOK
    BY <1>1 DEF Approve, At, Ind
  <1>3. PICK i \in Ids : i = k.id /\ store[i] \in Records
    BY <1>1, <1>2, NamedRecord DEF Naming
  <1>4. PICK r : r = [store[i] EXCEPT !.state = "Approved", !.approver = k.by]
    OBVIOUS
  <1>5. /\ InState(i, "Planned") /\ k.by \in Humans /\ k.by # store[i].owner
        /\ store' = [store EXCEPT ![i] = r] /\ Return(h)
        /\ UNCHANGED <<server, crashes, cluster, effect, receipts, intents>>
    BY <1>1, <1>3, <1>4 DEF Approve
  <1>6. /\ r \in Records /\ r.preview = store[i].preview /\ r.state = "Approved"
        /\ r.owner = store[i].owner /\ r.approver = k.by
        /\ r.copies = store[i].copies /\ r.handle = store[i].handle
    BY <1>3, <1>4, <1>5, HumansAssumption DEF Records, States
  <1>7. /\ store'[i] = r /\ r # None /\ store[i] # None
        /\ effect'[i] = effect[i] /\ receipts'[i] = receipts[i]
    BY <1>2, <1>3, <1>5, <1>6, RecordsNotNone DEF TypeOK
  <1>8. RecordOK(i)'
    <2>1. RecordOK(i) /\ store[i].preview = "stored"
      BY <1>1, <1>2, <1>3 DEF Ind, Reader
    <2>2. store[i].handle = "none"
      BY <1>5, <1>7, <2>1 DEF RecordOK, InState
    <2> QED
      BY <1>5, <1>6, <1>7, <2>1, <2>2 DEF RecordOK, InState, Truthful
  <1>9. KeepsPlan(i) /\ OnlyHolder(h, i)
    BY <1>5, <1>6, <1>7, NotHeld DEF KeepsPlan, InState
  <1> QED
    BY <1>2, <1>5, <1>6, <1>8, <1>9, WriteAndReturnInd

\* Claim preserves the invariant.
LEMMA ClaimInd ==
  ASSUME Ind, NEW h \in Handlers, Claim(h)
  PROVE  Ind'
  <1>1. PICK k \in Calls : k = call[h] /\ Reader(k) /\ Holder(k)
    BY CallKnown
  <1>2. k.at = "claim" /\ server = "serving" /\ TypeOK
    BY <1>1 DEF Claim, At, Ind
  <1>3. PICK i \in Ids : i = k.id /\ store[i] \in Records
    BY <1>1, <1>2, NamedRecord DEF Naming, Applies
  <1>4. PICK r, s : r = [store[i] EXCEPT !.state = "Applying"]
                    /\ s = IF HasEvidence THEN "intent" ELSE "dispatch"
    OBVIOUS
  <1>5. PICK c : c = [k EXCEPT !.at = s]
    OBVIOUS
  <1>6. s \in {"intent", "dispatch"}
    BY <1>4
  <1>7. c \in Calls /\ c.at = s /\ c.id = i /\ c.by = k.by
        /\ c.copies = k.copies /\ c.began = k.began /\ c.floor = k.floor
    BY <1>3, <1>5, <1>6 DEF Calls, ClaimSteps
  <1>8. /\ InState(i, "Approved")
        /\ store' = [store EXCEPT ![i] = r] /\ call' = [call EXCEPT ![h] = c]
        /\ UNCHANGED <<server, crashes, cluster, effect, receipts, intents>>
    BY <1>1, <1>3, <1>4, <1>5 DEF Claim, Goto
  <1>9. /\ r \in Records /\ r.preview = store[i].preview /\ r.state = "Applying"
        /\ r.owner = store[i].owner /\ r.approver = store[i].approver
        /\ r.copies = store[i].copies /\ r.handle = store[i].handle
    BY <1>3, <1>4 DEF Records, States
  <1>10. /\ TypeOK' /\ Grows /\ \A j \in Ids \ {i} : SameFor(j) /\ KeepsPlan(j)
         /\ store'[i] = r /\ r # None
         /\ effect'[i] = effect[i] /\ receipts'[i] = receipts[i]
    <2>1. r \in Records /\ c \in Calls
      BY <1>7, <1>9
    <2> QED
      BY <2>1, <1>8, Written
  <1>11. store[i] # None /\ store[i].handle = "none" /\ effect[i] = "none" /\ receipts[i] = {}
    <2>1. RecordOK(i)
      BY DEF Ind
    <2> QED
      BY <1>8, <2>1 DEF RecordOK, InState
  <1>12. RecordOK(i)'
    <2>1. RecordOK(i)
      BY DEF Ind
    <2> QED
      BY <1>8, <1>9, <1>10, <1>11, <2>1 DEF RecordOK, InState
  <1>13. KeepsPlan(i) /\ OnlyHolder(h, i)
    BY <1>8, <1>9, <1>10, NotHeld DEF KeepsPlan, InState
  <1>14. Reader(c)'
    <2>1. Reader(c)
      BY <1>1, <1>2, <1>3, <1>6, <1>7 DEF Reader, Naming, Applies, ClaimSteps
    <2> QED
      BY <1>2, <1>7, <1>10, <1>13, <2>1, ReaderKept
  <1>15. Holder(c)'
    BY <1>6, <1>7, <1>9, <1>10, <1>11 DEF Holder, InState
  <1>16. server' = "serving"
    BY <1>2, <1>8
  <1> QED
    BY <1>7, <1>8, <1>10, <1>12, <1>13, <1>14, <1>15, <1>16, StepInd

-----------------------------------------------------------------------------
\* Steps with the claim.

\* A holder's locals, moved on, have still been read and seen.
LEMMA StillReads ==
  ASSUME Ind, NEW k \in Calls, Reader(k), k.at \in ClaimSteps,
         NEW c \in Calls, c.at \in ClaimSteps, c.id = k.id, c.by = k.by,
         c.copies = k.copies, c.floor = k.floor,
         \/ c.began = k.began /\ k.at \in {"intent", "dispatch"}
         \/ c.began \in {0, k.began} /\ c.at \notin {"intent", "dispatch"}
  PROVE  Reader(c)
  BY VersionNumbers DEF Ind, TypeOK, Reader, Naming, Applies, ClaimSteps

\* A holder that moves on, no record, effect or receipt changing.
LEMMA HolderGoes ==
  ASSUME Ind, NEW h \in Handlers, NEW k, k = call[h], k.at \in ClaimSteps, Reader(k),
         NEW c \in Calls, call' = [call EXCEPT ![h] = c], c.id = k.id, Reader(c), Holder(c),
         server = "serving", intents' \in SUBSET Ids,
         UNCHANGED <<server, crashes, cluster, store, effect, receipts>>
  PROVE  Ind'
  <1>1. PICK i \in Ids : i = k.id
    BY DEF Reader, Naming, Applies
  <1>2. TypeOK /\ TypeOK' /\ Grows
    BY StaysGrows DEF Ind, TypeOK, cluster
  <1>3. \A j \in Ids : SameFor(j) /\ KeepsPlan(j) /\ RecordOK(j)
    BY DEF SameFor, KeepsPlan, Ind
  <1>4. RecordOK(i)'
    BY <1>3, RecordKept
  <1>5. Reader(c)' /\ Holder(c)'
    BY <1>1, <1>2, <1>3, ReaderKept, HolderKept
  <1>6. OnlyHolder(h, i)
    BY <1>1, HolderAlone
  <1>7. server' = "serving"
    OBVIOUS
  <1> QED
    BY <1>1, <1>2, <1>3, <1>4, <1>5, <1>6, <1>7, StepInd

\* Intent preserves the invariant.
LEMMA IntentInd ==
  ASSUME Ind, NEW h \in Handlers, Intent(h)
  PROVE  Ind'
  <1>1. PICK k \in Calls : k = call[h] /\ Reader(k) /\ Holder(k)
    BY CallKnown
  <1>2. PICK c : c = [k EXCEPT !.at = "dispatch"]
    OBVIOUS
  <1>3. k.at = "intent" /\ server = "serving" /\ k.at \in ClaimSteps /\ k.id \in Ids
    BY <1>1 DEF Intent, At, ClaimSteps, Reader, Naming, Applies
  <1>4. /\ c \in Calls /\ c.at = "dispatch" /\ c.at \in ClaimSteps /\ c.id = k.id
        /\ c.by = k.by /\ c.copies = k.copies /\ c.began = k.began /\ c.floor = k.floor
    BY <1>2 DEF Calls, ClaimSteps
  <1>5. Reader(c)
    BY <1>1, <1>3, <1>4, StillReads
  <1>6. Holder(c)
    BY <1>1, <1>3, <1>4 DEF Holder
  <1>7. /\ call' = [call EXCEPT ![h] = c] /\ intents' \in SUBSET Ids
        /\ UNCHANGED <<server, crashes, cluster, store, effect, receipts>>
    BY <1>1, <1>2, <1>3 DEF Intent, Goto, Ind, TypeOK
  <1> QED
    BY <1>1, <1>3, <1>4, <1>5, <1>6, <1>7, HolderGoes

\* What a conclusion is of: the same change set, at the receipt or at the record.
LEMMA Concluded ==
  ASSUME Ind, NEW h \in Handlers, NEW k \in Calls, k = call[h], Reader(k), k.at \in ClaimSteps,
         NEW o \in Outcomes, Conclude(h, o)
  PROVE  \E c \in Calls : /\ c.at \in {"receipt", "settle"} /\ c.id = k.id /\ c.outcome = o
                          /\ Reader(c) /\ call' = [call EXCEPT ![h] = c]
  <1>1. PICK s : s = IF HasEvidence THEN "receipt" ELSE "settle"
    OBVIOUS
  <1>2. PICK c : c = [k EXCEPT !.at = s, !.outcome = o, !.began = 0]
    OBVIOUS
  <1>3. s \in {"receipt", "settle"}
    BY <1>1
  <1>4. /\ c \in Calls /\ c.at = s /\ c.id = k.id /\ c.by = k.by /\ c.copies = k.copies
        /\ c.began = 0 /\ c.floor = k.floor /\ c.outcome = o
    BY <1>2, <1>3, VersionNumbers DEF Calls, ClaimSteps
  <1>5. c.at \in ClaimSteps /\ c.at \notin {"intent", "dispatch"}
    BY <1>3, <1>4 DEF ClaimSteps
  <1>6. Reader(c)
    BY <1>4, <1>5, StillReads
  <1>7. call' = [call EXCEPT ![h] = c]
    BY <1>1, <1>2 DEF Conclude
  <1> QED
    BY <1>3, <1>4, <1>6, <1>7

\* DispatchRefused preserves the invariant: nothing was restored.
LEMMA DispatchRefusedInd ==
  ASSUME Ind, NEW h \in Handlers, DispatchRefused(h)
  PROVE  Ind'
  <1>1. PICK k \in Calls : k = call[h] /\ Reader(k) /\ Holder(k)
    BY CallKnown
  <1>2. k.at = "dispatch" /\ server = "serving" /\ k.at \in ClaimSteps
    BY <1>1 DEF DispatchRefused, At, ClaimSteps
  <1>3. PICK c \in Calls : /\ c.at \in {"receipt", "settle"} /\ c.id = k.id
                           /\ c.outcome = "failed" /\ Reader(c)
                           /\ call' = [call EXCEPT ![h] = c]
    BY <1>1, <1>2, Concluded DEF DispatchRefused, Outcomes
  <1>4. Holder(c)
    BY <1>1, <1>2, <1>3 DEF Holder, Truthful
  <1>5. /\ intents' \in SUBSET Ids
        /\ UNCHANGED <<server, crashes, cluster, store, effect, receipts>>
    BY DEF DispatchRefused, Ind, TypeOK
  <1> QED
    BY <1>1, <1>2, <1>3, <1>4, <1>5, HolderGoes

\* Poll preserves the invariant: the outcome is the task's own.
LEMMA PollInd ==
  ASSUME Ind, NEW h \in Handlers, Poll(h)
  PROVE  Ind'
  <1>1. PICK k \in Calls : k = call[h] /\ Reader(k) /\ Holder(k)
    BY CallKnown
  <1>2. k.at = "poll" /\ server = "serving" /\ k.at \in ClaimSteps
    BY <1>1 DEF Poll, At, ClaimSteps
  <1>3. PICK o \in Outcomes : o = effect[k.id] /\ Conclude(h, o)
    BY <1>1 DEF Poll
  <1>4. PICK c \in Calls : /\ c.at \in {"receipt", "settle"} /\ c.id = k.id
                           /\ c.outcome = o /\ Reader(c)
                           /\ call' = [call EXCEPT ![h] = c]
    BY <1>1, <1>2, <1>3, Concluded
  <1>5. Holder(c)
    BY <1>1, <1>2, <1>3, <1>4 DEF Holder, Truthful, Outcomes
  <1>6. /\ intents' \in SUBSET Ids
        /\ UNCHANGED <<server, crashes, cluster, store, effect, receipts>>
    BY DEF Poll, Ind, TypeOK
  <1> QED
    BY <1>1, <1>2, <1>4, <1>5, <1>6, HolderGoes

\* IntentFails preserves the invariant: the record fails, and nothing was sent.
LEMMA IntentFailsInd ==
  ASSUME Ind, NEW h \in Handlers, IntentFails(h)
  PROVE  Ind'
  <1>1. PICK k \in Calls : k = call[h] /\ Reader(k) /\ Holder(k)
    BY CallKnown
  <1>2. k.at = "intent" /\ server = "serving" /\ TypeOK /\ k.at \in ClaimSteps
    BY <1>1 DEF IntentFails, At, Ind, ClaimSteps
  <1>3. PICK i \in Ids : i = k.id /\ store[i] \in Records
    BY <1>1, <1>2, NamedRecord DEF Naming, Applies
  <1>4. PICK r : r = [store[i] EXCEPT !.state = "Failed"]
    OBVIOUS
  <1>5. /\ store' = [store EXCEPT ![i] = r] \/ UNCHANGED store
        /\ Return(h) /\ UNCHANGED <<server, crashes, cluster, effect, receipts, intents>>
    BY <1>1, <1>3, <1>4 DEF IntentFails
  <1>6. CASE UNCHANGED store
    BY <1>2, <1>5, <1>6, ReturnInd
  <1>7. CASE store' = [store EXCEPT ![i] = r]
    <2>1. /\ r \in Records /\ r.preview = store[i].preview /\ r.state = "Failed"
          /\ r.owner = store[i].owner /\ r.approver = store[i].approver
          /\ r.copies = store[i].copies /\ r.handle = store[i].handle
      BY <1>3, <1>4 DEF Records, States
    <2>2. /\ store'[i] = r /\ r # None /\ store[i] # None
          /\ effect'[i] = effect[i] /\ receipts'[i] = receipts[i]
      BY <1>2, <1>3, <1>5, <1>7, <2>1, RecordsNotNone DEF TypeOK
    <2>3. InState(i, "Applying") /\ effect[i] = "none" /\ receipts[i] = {}
          /\ store[i].handle = "none"
      BY <1>1, <1>2, <1>3 DEF Holder, ClaimSteps
    <2>4. RecordOK(i)'
      <3>1. RecordOK(i)
        BY DEF Ind
      <3> QED
        BY <2>1, <2>2, <2>3, <3>1 DEF RecordOK, InState
    <2>5. KeepsPlan(i) /\ OnlyHolder(h, i)
      BY <1>1, <1>2, <1>3, <2>1, <2>2, HolderAlone DEF KeepsPlan
    <2> QED
      BY <1>2, <1>5, <1>7, <2>1, <2>4, <2>5, WriteAndReturnInd
  <1> QED
    BY <1>5, <1>6, <1>7

\* A restore that Proxmox begins: the claim's change set moves, and no other.
LEMMA Restored ==
  ASSUME Ind, NEW i \in Ids, effect[i] = "none", InState(i, "Applying"), receipts[i] = {},
         store[i].handle = "none", NEW e \in {"running", "ok"}, Restores(i, e),
         NEW h \in Handlers, NEW c \in Calls, call' = [call EXCEPT ![h] = c],
         UNCHANGED <<server, crashes, store, receipts, intents>>
  PROVE  /\ TypeOK' /\ Grows /\ \A j \in Ids \ {i} : SameFor(j)
         /\ KeepsPlan(i) /\ RecordOK(i)'
         /\ store'[i] = store[i] /\ effect'[i] = e
  <1>1. TypeOK /\ Grows
    BY RestoresGrow DEF Ind
  <1>2. effect' = [effect EXCEPT ![i] = e]
    BY DEF Restores
  <1>3. TypeOK'
    BY <1>1, <1>2 DEF TypeOK, Grows, Outcomes
  <1>4. effect'[i] = e /\ \A j \in Ids \ {i} : SameFor(j)
    BY <1>1, <1>2 DEF TypeOK, SameFor
  <1>5. KeepsPlan(i)
    BY DEF KeepsPlan
  <1>6. RecordOK(i)'
    <2>1. RecordOK(i)
      BY DEF Ind
    <2> QED
      BY <1>4, <2>1 DEF RecordOK, InState
  <1> QED
    BY <1>1, <1>3, <1>4, <1>5, <1>6

\* A handler whose request Proxmox accepts, with whatever it has become by it.
LEMMA SentInd ==
  ASSUME Ind, NEW h \in Handlers, NEW k, k = call[h], k.at = "dispatch", Reader(k), Holder(k),
         server = "serving", NEW e \in {"running", "ok"}, Restores(k.id, e),
         NEW c \in Calls, call' = [call EXCEPT ![h] = c], Reader(c),
         c.at \notin {"intent", "dispatch"},
         c.at \in ClaimSteps => c.id = k.id,
         c.at \in {"receipt", "settle"} => c.outcome = "ok" /\ e = "ok",
         UNCHANGED <<server, crashes, store, receipts, intents>>
  PROVE  Ind'
  <1>1. PICK i \in Ids : i = k.id
    BY DEF Reader, Naming, Applies, ClaimSteps
  <1>2. /\ effect[i] = "none" /\ InState(i, "Applying") /\ receipts[i] = {}
        /\ store[i].handle = "none"
    BY <1>1 DEF Holder, ClaimSteps
  <1>3. /\ TypeOK' /\ Grows /\ \A j \in Ids \ {i} : SameFor(j)
        /\ KeepsPlan(i) /\ RecordOK(i)'
        /\ store'[i] = store[i] /\ effect'[i] = e
    BY <1>1, <1>2, Restored
  <1>4. OnlyHolder(h, i)
    BY <1>1, HolderAlone DEF ClaimSteps
  <1>5. Reader(c)'
    <2>1. TypeOK /\ \A j \in Ids : KeepsPlan(j)
      BY <1>3 DEF Ind, SameFor, KeepsPlan
    <2> QED
      BY <1>3, <2>1, ReaderKept
  <1>6. Holder(c)'
    BY <1>1, <1>2, <1>3 DEF Holder, InState, Truthful, ClaimSteps
  <1>7. server' = "serving"
    OBVIOUS
  <1> QED
    BY <1>1, <1>3, <1>4, <1>5, <1>6, <1>7, StepInd

\* DispatchAccepted preserves the invariant.
LEMMA DispatchAcceptedInd ==
  ASSUME Ind, NEW h \in Handlers, DispatchAccepted(h)
  PROVE  Ind'
  <1>1. PICK k \in Calls : k = call[h] /\ Reader(k) /\ Holder(k)
    BY CallKnown
  <1>2. PICK c : c = [k EXCEPT !.at = "persist", !.began = 0]
    OBVIOUS
  <1>3. k.at = "dispatch" /\ server = "serving" /\ k.at \in ClaimSteps
    BY <1>1 DEF DispatchAccepted, At, ClaimSteps
  <1>4. /\ c \in Calls /\ c.at = "persist" /\ c.at \in ClaimSteps /\ c.id = k.id
        /\ c.by = k.by /\ c.copies = k.copies /\ c.began = 0 /\ c.floor = k.floor
    BY <1>2, VersionNumbers DEF Calls, ClaimSteps
  <1>5. Reader(c)
    BY <1>1, <1>3, <1>4, StillReads
  <1>6. /\ call' = [call EXCEPT ![h] = c] /\ Restores(k.id, "running")
        /\ UNCHANGED <<server, crashes, store, receipts, intents>>
    BY <1>1, <1>2 DEF DispatchAccepted
  <1> QED
    BY <1>1, <1>3, <1>4, <1>5, <1>6, SentInd

\* DispatchSynchronous preserves the invariant.
LEMMA DispatchSynchronousInd ==
  ASSUME Ind, NEW h \in Handlers, DispatchSynchronous(h)
  PROVE  Ind'
  <1>1. PICK k \in Calls : k = call[h] /\ Reader(k) /\ Holder(k)
    BY CallKnown
  <1>2. k.at = "dispatch" /\ server = "serving" /\ k.at \in ClaimSteps
    BY <1>1 DEF DispatchSynchronous, At, ClaimSteps
  <1>3. PICK c \in Calls : /\ c.at \in {"receipt", "settle"} /\ c.id = k.id
                           /\ c.outcome = "ok" /\ Reader(c)
                           /\ call' = [call EXCEPT ![h] = c]
    BY <1>1, <1>2, Concluded DEF DispatchSynchronous, Outcomes
  <1>4. Restores(k.id, "ok") /\ UNCHANGED <<server, crashes, store, receipts, intents>>
    BY <1>1 DEF DispatchSynchronous
  <1>5. c.at \notin {"intent", "dispatch"}
    BY <1>3
  <1> QED
    BY <1>1, <1>2, <1>3, <1>4, <1>5, SentInd

\* DispatchLost preserves the invariant, whether or not the request arrived.
LEMMA DispatchLostInd ==
  ASSUME Ind, NEW h \in Handlers, DispatchLost(h)
  PROVE  Ind'
  <1>1. PICK k \in Calls : k = call[h] /\ Reader(k) /\ Holder(k)
    BY CallKnown
  <1>2. k.at = "dispatch" /\ server = "serving" /\ Return(h)
        /\ UNCHANGED <<server, crashes, store, receipts, intents>>
    BY <1>1 DEF DispatchLost, At
  <1>3. CASE UNCHANGED <<cluster, effect>>
    BY <1>2, <1>3, ReturnInd
  <1>4. CASE Restores(k.id, "running")
    <2>1. PICK c : c = NoCall
      OBVIOUS
    <2>2. c \in Calls /\ c.at = "idle" /\ Reader(c) /\ call' = [call EXCEPT ![h] = c]
      BY <1>2, <2>1, IdleReader, NoCallTyped DEF Ind, Return
    <2>3. c.at \notin ClaimSteps
      BY <2>2 DEF ClaimSteps
    <2> QED
      BY <1>1, <1>2, <1>4, <2>2, <2>3, SentInd
  <1> QED
    BY <1>1, <1>3, <1>4 DEF DispatchLost

\* PersistHandle preserves the invariant: what has a handle has been accepted.
LEMMA PersistHandleInd ==
  ASSUME Ind, NEW h \in Handlers, PersistHandle(h)
  PROVE  Ind'
  <1>1. PICK k \in Calls : k = call[h] /\ Reader(k) /\ Holder(k)
    BY CallKnown
  <1>2. k.at = "persist" /\ server = "serving" /\ TypeOK /\ k.at \in ClaimSteps
    BY <1>1 DEF PersistHandle, At, Ind, ClaimSteps
  <1>3. PICK i \in Ids : i = k.id /\ store[i] \in Records
    BY <1>1, <1>2, NamedRecord DEF Naming, Applies
  <1>4. PICK r, c : r = [store[i] EXCEPT !.handle = "upid"] /\ c = [k EXCEPT !.at = "poll"]
    OBVIOUS
  <1>5. /\ c \in Calls /\ c.at = "poll" /\ c.at \in ClaimSteps /\ c.id = k.id
        /\ c.by = k.by /\ c.copies = k.copies /\ c.began = k.began /\ c.floor = k.floor
    BY <1>4 DEF Calls, ClaimSteps
  <1>6. Reader(c)
    BY <1>1, <1>2, <1>5, StillReads
  <1>7. Holder(c) /\ InState(i, "Applying") /\ effect[i] # "none"
    BY <1>1, <1>2, <1>3, <1>5 DEF Holder
  <1>8. /\ store' = [store EXCEPT ![i] = r] \/ UNCHANGED store
        /\ call' = [call EXCEPT ![h] = c]
        /\ UNCHANGED <<server, crashes, cluster, effect, receipts, intents>>
    BY <1>1, <1>3, <1>4 DEF PersistHandle, Goto
  <1>9. CASE UNCHANGED store
    <2>1. intents' \in SUBSET Ids
      BY <1>2, <1>8 DEF TypeOK
    <2> QED
      BY <1>1, <1>2, <1>5, <1>6, <1>7, <1>8, <1>9, <2>1, HolderGoes
  <1>10. CASE store' = [store EXCEPT ![i] = r]
    <2>1. /\ r \in Records /\ r.preview = store[i].preview /\ r.state = store[i].state
          /\ r.owner = store[i].owner /\ r.approver = store[i].approver
          /\ r.copies = store[i].copies /\ r.handle = "upid"
      BY <1>3, <1>4 DEF Records
    <2>2. /\ TypeOK' /\ Grows /\ \A j \in Ids \ {i} : SameFor(j) /\ KeepsPlan(j)
          /\ store'[i] = r /\ r # None
          /\ effect'[i] = effect[i] /\ receipts'[i] = receipts[i]
      <3>1. r \in Records /\ c \in Calls
        BY <1>5, <2>1
      <3> QED
        BY <1>8, <1>10, <3>1, Written
    <2>3. RecordOK(i)'
      <3>1. RecordOK(i)
        BY DEF Ind
      <3> QED
        BY <1>7, <2>1, <2>2, <3>1 DEF RecordOK, InState, Truthful
    <2>4. KeepsPlan(i) /\ OnlyHolder(h, i)
      BY <1>1, <1>2, <1>3, <2>1, <2>2, HolderAlone DEF KeepsPlan
    <2>5. Reader(c)'
      BY <1>2, <1>5, <1>6, <2>2, <2>4, ReaderKept
    <2>6. Holder(c)'
      BY <1>3, <1>5, <1>7, <2>1, <2>2 DEF Holder, InState
    <2>7. server' = "serving"
      BY <1>2, <1>8
    <2> QED
      BY <1>3, <1>5, <1>8, <2>2, <2>3, <2>4, <2>5, <2>6, <2>7, StepInd
  <1> QED
    BY <1>8, <1>9, <1>10

\* Receipt preserves the invariant: it says what the holder knows to be true.
LEMMA ReceiptInd ==
  ASSUME Ind, NEW h \in Handlers, Receipt(h)
  PROVE  Ind'
  <1>1. PICK k \in Calls : k = call[h] /\ Reader(k) /\ Holder(k)
    BY CallKnown
  <1>2. k.at = "receipt" /\ server = "serving" /\ TypeOK /\ k.at \in ClaimSteps
    BY <1>1 DEF Receipt, At, Ind, ClaimSteps
  <1>3. PICK i \in Ids : i = k.id /\ store[i] \in Records
    BY <1>1, <1>2, NamedRecord DEF Naming, Applies
  <1>4. PICK c : c = [k EXCEPT !.at = "settle"]
    OBVIOUS
  <1>5. /\ c \in Calls /\ c.at = "settle" /\ c.at \in ClaimSteps /\ c.id = k.id
        /\ c.by = k.by /\ c.copies = k.copies /\ c.began = k.began /\ c.floor = k.floor
        /\ c.outcome = k.outcome
    BY <1>4 DEF Calls, ClaimSteps
  <1>6. Reader(c)
    BY <1>1, <1>2, <1>5, StillReads
  <1>7. Holder(c) /\ InState(i, "Applying") /\ Truthful(i, k.outcome) /\ k.outcome \in Outcomes
    BY <1>1, <1>2, <1>3, <1>5 DEF Holder, Calls
  <1>8. /\ \/ receipts' = [receipts EXCEPT ![i] = @ \cup {k.outcome}]
           \/ UNCHANGED receipts
        /\ call' = [call EXCEPT ![h] = c]
        /\ UNCHANGED <<server, crashes, cluster, store, effect, intents>>
    BY <1>1, <1>3, <1>4 DEF Receipt, Goto
  <1>9. CASE UNCHANGED receipts
    <2>1. intents' \in SUBSET Ids
      BY <1>2, <1>8 DEF TypeOK
    <2> QED
      BY <1>1, <1>2, <1>5, <1>6, <1>7, <1>8, <1>9, <2>1, HolderGoes
  <1>10. CASE receipts' = [receipts EXCEPT ![i] = @ \cup {k.outcome}]
    <2>1. receipts'[i] = receipts[i] \cup {k.outcome} /\ \A j \in Ids \ {i} : SameFor(j)
      BY <1>2, <1>8, <1>10 DEF TypeOK, SameFor
    <2>2. TypeOK'
      BY <1>2, <1>5, <1>7, <1>8, <1>10 DEF TypeOK, cluster
    <2>3. Grows
      BY <1>8, StaysGrows DEF Ind, cluster
    <2>4. RecordOK(i)'
      <3>1. RecordOK(i)
        BY DEF Ind
      <3> QED
        BY <1>7, <1>8, <2>1, <3>1 DEF RecordOK, InState, Truthful
    <2>5. KeepsPlan(i) /\ OnlyHolder(h, i)
      BY <1>1, <1>2, <1>3, <1>8, HolderAlone DEF KeepsPlan
    <2>6. \A j \in Ids : KeepsPlan(j)
      BY <1>8 DEF KeepsPlan
    <2>7. Reader(c)'
      BY <1>2, <1>5, <1>6, <2>3, <2>6, ReaderKept
    <2>8. Holder(c)'
      BY <1>3, <1>5, <1>7, <1>8 DEF Holder, InState, Truthful
    <2>9. server' = "serving"
      BY <1>2, <1>8
    <2> QED
      BY <1>3, <1>5, <1>8, <2>1, <2>2, <2>3, <2>4, <2>5, <2>7, <2>8, <2>9, StepInd
  <1> QED
    BY <1>8, <1>9, <1>10

\* What settling leaves of a record.
LEMMA SettledRecord ==
  ASSUME NEW r \in Records, NEW o \in Outcomes
  PROVE  \E s \in Records : /\ s = Settled(r, o) /\ s.preview = r.preview /\ s.owner = r.owner
                            /\ s.approver = r.approver /\ s.copies = r.copies
                            /\ s.handle = "none"
                            /\ s.state = IF o = "ok" THEN "Applied" ELSE "Failed"
  <1>1. PICK t : t = IF o = "ok" THEN "Applied" ELSE "Failed"
    OBVIOUS
  <1>2. PICK s : s = [r EXCEPT !.state = t, !.handle = "none"]
    OBVIOUS
  <1>3. t \in States
    BY <1>1 DEF States
  <1>4. /\ s \in Records /\ s.preview = r.preview /\ s.owner = r.owner
        /\ s.approver = r.approver /\ s.copies = r.copies /\ s.handle = "none" /\ s.state = t
    BY <1>2, <1>3 DEF Records
  <1>5. s = Settled(r, o)
    BY <1>1, <1>2 DEF Settled
  <1> QED
    BY <1>1, <1>4, <1>5

\* A record that is settled by what happened says what happened.
LEMMA SettledOK ==
  ASSUME NEW i \in Ids, RecordOK(i), InState(i, "Applying"), NEW s, NEW o \in Outcomes,
         store'[i] = s, s # None, s.preview = store[i].preview, s.owner = store[i].owner,
         s.approver = store[i].approver, s.handle = "none",
         s.state = IF o = "ok" THEN "Applied" ELSE "Failed", effect'[i] = effect[i],
         Truthful(i, o), receipts'[i] \in {receipts[i], receipts[i] \cup {o}}
  PROVE  RecordOK(i)'
  <1>1. s.state = IF effect[i] = "ok" THEN "Applied" ELSE "Failed"
    BY DEF Truthful, Outcomes
  <1>2. effect[i] # "ok" => effect[i] \in {"none", "failed"}
    BY DEF Truthful, Outcomes
  <1>3. \A q \in receipts'[i] : Truthful(i, q)
    BY DEF RecordOK
  <1>4. \A q \in receipts'[i] : Truthful(i, q)'
    BY <1>3 DEF Truthful
  <1>5. store[i].preview = "stored" /\ store[i].approver \in Humans \ {store[i].owner}
    BY DEF RecordOK, InState
  <1> QED
    BY <1>1, <1>2, <1>4, <1>5 DEF RecordOK, InState

\* Settle preserves the invariant: the record says what the holder knows to be true.
LEMMA SettleInd ==
  ASSUME Ind, NEW h \in Handlers, Settle(h)
  PROVE  Ind'
  <1>1. PICK k \in Calls : k = call[h] /\ Reader(k) /\ Holder(k)
    BY CallKnown
  <1>2. k.at = "settle" /\ server = "serving" /\ TypeOK /\ k.at \in ClaimSteps
    BY <1>1 DEF Settle, At, Ind, ClaimSteps
  <1>3. PICK i \in Ids : i = k.id /\ store[i] \in Records
    BY <1>1, <1>2, NamedRecord DEF Naming, Applies
  <1>4. PICK o \in Outcomes : o = k.outcome
    BY DEF Calls
  <1>5. InState(i, "Applying") /\ Truthful(i, o) /\ RecordOK(i)
    BY <1>1, <1>2, <1>3, <1>4 DEF Holder, Ind
  <1>6. PICK s \in Records : /\ s = Settled(store[i], o) /\ s.preview = store[i].preview
                             /\ s.owner = store[i].owner /\ s.approver = store[i].approver
                             /\ s.copies = store[i].copies /\ s.handle = "none"
                             /\ s.state = IF o = "ok" THEN "Applied" ELSE "Failed"
    BY <1>3, SettledRecord
  <1>7. /\ store' = [store EXCEPT ![i] = s] \/ UNCHANGED store
        /\ Return(h) /\ UNCHANGED <<server, crashes, cluster, effect, receipts, intents>>
    BY <1>1, <1>3, <1>4, <1>6 DEF Settle
  <1>8. CASE UNCHANGED store
    BY <1>2, <1>7, <1>8, ReturnInd
  <1>9. CASE store' = [store EXCEPT ![i] = s]
    <2>1. /\ store'[i] = s /\ s # None /\ store[i] # None
          /\ effect'[i] = effect[i] /\ receipts'[i] = receipts[i]
      BY <1>2, <1>3, <1>7, <1>9, RecordsNotNone DEF TypeOK
    <2>2. RecordOK(i)'
      BY <1>5, <1>6, <2>1, SettledOK
    <2>3. KeepsPlan(i) /\ OnlyHolder(h, i)
      BY <1>1, <1>2, <1>3, <1>6, <2>1, HolderAlone DEF KeepsPlan
    <2> QED
      BY <1>2, <1>7, <1>9, <2>2, <2>3, WriteAndReturnInd
  <1> QED
    BY <1>7, <1>8, <1>9

-----------------------------------------------------------------------------
\* The world, crashes and startup.

\* What others do, or a task's end: no handler moves and no record is written.
LEMMA WorldInd ==
  ASSUME Ind, TypeOK', Grows, UNCHANGED <<server, call, store, receipts>>,
         \A j \in Ids : effect'[j] = effect[j] \/ (effect[j] = "running" /\ effect'[j] # "none")
  PROVE  Ind'
  <1>1. TypeOK /\ \A j \in Ids : KeepsPlan(j)
    BY DEF Ind, KeepsPlan
  <1>2. ASSUME NEW j \in Ids
        PROVE  RecordOK(j)'
    <2>1. RecordOK(j)
      BY DEF Ind
    <2>2. CASE effect'[j] = effect[j]
      BY <2>1, <2>2, RecordKept DEF SameFor
    <2>3. CASE effect[j] = "running" /\ effect'[j] # "none"
      <3>1. receipts[j] = {} /\ ~InState(j, "Applied") /\ ~InState(j, "Failed")
            /\ ~InState(j, "Planned") /\ ~InState(j, "Approved") /\ store[j] # None
        BY <2>1, <2>3, <1>1 DEF RecordOK, Truthful, TypeOK, Outcomes
      <3> QED
        BY <2>1, <2>3, <3>1 DEF RecordOK, InState
    <2> QED
      BY <2>2, <2>3
  <1>3. ASSUME NEW g \in Handlers
        PROVE  Reader(call[g])' /\ Holder(call[g])'
    <2>1. PICK k \in Calls : k = call[g] /\ Reader(k) /\ Holder(k)
      BY CallKnown
    <2>2. Reader(k)'
      BY <1>1, <2>1, ReaderKept
    <2>3. Holder(k)'
      <3>1. CASE k.at \notin ClaimSteps
        BY <3>1 DEF Holder
      <3>2. CASE k.at \in ClaimSteps
        <4>1. k.id \in Ids
          BY <2>1, <3>2 DEF Reader, Naming, Applies
        <4>2. CASE effect'[k.id] = effect[k.id]
          BY <2>1, <4>1, <4>2, HolderKept DEF SameFor
        <4>3. CASE effect[k.id] = "running" /\ effect'[k.id] # "none"
          <5>1. k.at \in {"persist", "poll"} /\ InState(k.id, "Applying")
            BY <2>1, <3>2, <4>3 DEF Holder, Truthful, ClaimSteps
          <5> QED
            BY <4>3, <5>1 DEF Holder, InState
        <4> QED
          BY <4>1, <4>2, <4>3
      <3> QED
        BY <3>1, <3>2
    <2>4. k = call'[g]
      BY <2>1
    <2> QED
      BY <2>2, <2>3, <2>4, CallPrimed
  <1>4. OneHolder'
    BY DEF Ind, OneHolder
  <1> QED
    BY <1>2, <1>3, <1>4 DEF Ind, Grows

\* An edit preserves the invariant.
LEMMA EditInd ==
  ASSUME Ind, Edit
  PROVE  Ind'
  <1>1. Grows
    BY EditGrows DEF Ind
  <1>2. TypeOK'
    BY <1>1 DEF Ind, TypeOK, Grows, Edit
  <1> QED
    BY <1>1, <1>2, WorldInd DEF Edit

\* The end of a task preserves the invariant.
LEMMA TaskEndsInd ==
  ASSUME Ind, NEW i \in Ids, TaskEnds(i)
  PROVE  Ind'
  <1>1. Grows /\ TypeOK
    BY TaskEndsGrow DEF Ind
  <1>2. PICK e \in Outcomes : effect' = [effect EXCEPT ![i] = e]
    BY DEF TaskEnds, Outcomes
  <1>3. TypeOK'
    BY <1>1, <1>2 DEF TypeOK, Grows, TaskEnds
  <1>4. \A j \in Ids : effect'[j] = effect[j] \/ (effect[j] = "running" /\ effect'[j] # "none")
    BY <1>1, <1>2 DEF TypeOK, TaskEnds, Outcomes
  <1> QED
    BY <1>1, <1>3, <1>4, WorldInd DEF TaskEnds

\* While no call is in progress, a step is judged by the records alone.
LEMMA AsleepInd ==
  ASSUME Ind, TypeOK', Grows, \A j \in Ids : RecordOK(j)',
         call' = [h \in Handlers |-> NoCall]
  PROVE  Ind'
  <1>1. NoCall \in Calls /\ NoCall.at = "idle"
    BY NoCallTyped
  <1>2. ASSUME NEW g \in Handlers
        PROVE  Reader(call[g])' /\ Holder(call[g])'
    <2>1. PICK k : k = NoCall
      OBVIOUS
    <2>2. k = call'[g] /\ k.at = "idle" /\ k.began = 0 /\ k.floor = 0
      BY <2>1, NoCallTyped
    <2>3. Reader(k)'
      BY <2>2, VersionNumbers DEF Grows, Reader, Naming, Applies, ClaimSteps
    <2>4. Holder(k)'
      BY <2>2 DEF Holder, ClaimSteps
    <2> QED
      BY <2>2, <2>3, <2>4, CallPrimed
  <1>3. OneHolder'
    BY <1>1 DEF OneHolder, ClaimSteps
  <1> QED
    BY <1>2, <1>3 DEF Ind, Grows

\* The records of change sets that have not moved.
LEMMA RecordsKept ==
  ASSUME Ind, UNCHANGED <<store, effect, receipts>>
  PROVE  \A j \in Ids : RecordOK(j)'
  BY RecordKept DEF Ind, SameFor

\* Crash preserves the invariant.
LEMMA CrashInd ==
  ASSUME Ind, Crash
  PROVE  Ind'
  <1>1. Grows /\ \A j \in Ids : RecordOK(j)'
    BY StaysGrows, RecordsKept DEF Ind, Crash, cluster
  <1>2. TypeOK'
    BY NoCallTyped, BoundAssumption DEF Ind, TypeOK, Crash, cluster
  <1> QED
    BY <1>1, <1>2, AsleepInd DEF Crash

\* While the server is down or recovers, no call is in progress.
LEMMA Asleep ==
  ASSUME Ind, server # "serving"
  PROVE  call = [h \in Handlers |-> NoCall]
  BY DEF Ind, TypeOK, OneHolder

\* Restart and Serve preserve the invariant.
LEMMA StartupInd ==
  ASSUME Ind, Restart \/ Serve
  PROVE  Ind'
  <1>1. call' = [h \in Handlers |-> NoCall]
    BY Asleep DEF Restart, Serve
  <1>2. Grows /\ \A j \in Ids : RecordOK(j)'
    BY StaysGrows, RecordsKept DEF Ind, Restart, Serve, cluster
  <1>3. TypeOK'
    BY DEF Ind, TypeOK, Restart, Serve, cluster
  <1> QED
    BY <1>1, <1>2, <1>3, AsleepInd

\* RecoverSettle preserves the invariant: the record gets the task's own outcome.
LEMMA RecoverSettleInd ==
  ASSUME Ind, NEW i \in Ids, RecoverSettle(i)
  PROVE  Ind'
  <1>1. TypeOK /\ InState(i, "Applying") /\ RecordOK(i) /\ store[i] \in Records
    BY DEF RecoverSettle, Ind, InState, TypeOK
  <1>2. PICK o \in Outcomes : o = effect[i]
    BY DEF RecoverSettle
  <1>3. PICK s \in Records : /\ s = Settled(store[i], o) /\ s.preview = store[i].preview
                             /\ s.owner = store[i].owner /\ s.approver = store[i].approver
                             /\ s.copies = store[i].copies /\ s.handle = "none"
                             /\ s.state = IF o = "ok" THEN "Applied" ELSE "Failed"
    BY <1>1, SettledRecord
  <1>4. PICK W : W \in {receipts[i], receipts[i] \cup {o}} /\ receipts' = [receipts EXCEPT ![i] = W]
    <2>1. CASE HasEvidence
      BY <2>1, <1>2 DEF RecoverSettle
    <2>2. CASE ~HasEvidence
      <3>1. receipts' = [receipts EXCEPT ![i] = receipts[i]]
        BY <2>2, <1>1 DEF RecoverSettle, TypeOK
      <3> QED
        BY <3>1
    <2> QED
      BY <2>1, <2>2
  <1>5. /\ store' = [store EXCEPT ![i] = s]
        /\ UNCHANGED <<server, crashes, cluster, call, effect, intents>>
    BY <1>2, <1>3 DEF RecoverSettle
  <1>6. /\ store'[i] = s /\ s # None /\ effect'[i] = effect[i] /\ receipts'[i] = W
        /\ Truthful(i, o)
    BY <1>1, <1>2, <1>4, <1>5, RecordsNotNone DEF TypeOK, Truthful, Outcomes
  <1>7. RecordOK(i)'
    BY <1>1, <1>3, <1>4, <1>6, SettledOK
  <1>8. \A j \in Ids : RecordOK(j)'
    <2>1. \A j \in Ids \ {i} : SameFor(j) /\ RecordOK(j)
      BY <1>1, <1>4, <1>5 DEF TypeOK, SameFor, Ind
    <2> QED
      BY <1>7, <2>1, RecordKept
  <1>9. TypeOK'
    <2>1. W \in SUBSET Outcomes
      BY <1>1, <1>4 DEF TypeOK
    <2> QED
      BY <1>1, <1>4, <1>5, <2>1 DEF TypeOK, cluster
  <1>10. Grows
    BY <1>5, StaysGrows DEF Ind, cluster
  <1>11. call' = [h \in Handlers |-> NoCall]
    BY <1>5, Asleep DEF RecoverSettle
  <1> QED
    BY <1>8, <1>9, <1>10, <1>11, AsleepInd

-----------------------------------------------------------------------------
\* The invariant holds at the start, and every step preserves it.

\* It holds at the start.
LEMMA InitInd ==
  ASSUME Init
  PROVE  Ind
  <1>1. PICK o \in Owners, s \in [Owners -> Statuses] :
          past = [v \in Versions |-> [archive |-> o, target |-> "free", status |-> s]]
    BY DEF Init
  <1>2. PICK c : c = [archive |-> o, target |-> "free", status |-> s]
    OBVIOUS
  <1>3. c \in Clusters /\ past = [v \in Versions |-> c]
    BY <1>1, <1>2 DEF Clusters, Targets
  <1>4. TypeOK
    BY <1>3, NoCallTyped, VersionNumbers, BoundAssumption DEF Init, TypeOK
  <1>5. Begun = {} /\ Ended = {}
    BY DEF Init, Begun, Ended
  <1>6. Paced
    BY <1>5, FS_EmptySet DEF Init, Paced
  <1>7. \A i \in Ids : RecordOK(i)
    BY DEF Init, RecordOK, InState
  <1>8. \A h \in Handlers : call[h] = NoCall /\ Reader(NoCall)
    BY <1>4, IdleReader DEF Init
  <1>9. NoCall.at \notin ClaimSteps
    BY NoCallTyped DEF ClaimSteps
  <1>10. \A h \in Handlers : Reader(call[h]) /\ Holder(call[h])
    <2> SUFFICES ASSUME NEW h \in Handlers PROVE Reader(call[h]) /\ Holder(call[h])
      OBVIOUS
    <2>1. call[h] = NoCall
      BY <1>8
    <2>2. Reader(call[h])
      BY <1>8, <2>1
    <2>3. Holder(call[h])
      BY <2>1, <1>9 DEF Holder
    <2> QED
      BY <2>2, <2>3
  <1>11. OneHolder
    BY <1>8, <1>9 DEF Init, OneHolder
  <1> QED
    BY <1>4, <1>6, <1>7, <1>10, <1>11 DEF Ind

\* A refusal returns, and so does a poll that gives up.
LEMMA RefuseInd ==
  ASSUME Ind, NEW h \in Handlers, Refuse(h) \/ PollFails(h)
  PROVE  Ind'
  BY ReturnInd DEF Refuse, PollFails, At

\* Every step of a handler preserves it.
LEMMA HandlerInd ==
  ASSUME Ind, NEW h \in Handlers, Start(h) \/ Step(h)
  PROVE  Ind'
  <1>1. CASE Start(h)
    BY <1>1, PlanStartInd, ApproveStartInd, ApplyStartInd DEF Start
  <1>2. CASE Step(h)
    BY <1>2, RefuseInd, PlanOwnerInd, PlanVacancyInd, PlanCreateInd, PlanPreviewInd,
       ApproveInd, ApplySourceInd, ApplyOwnerInd, ApplyVacancyInd, ClaimInd, IntentInd,
       IntentFailsInd, DispatchAcceptedInd, DispatchSynchronousInd, DispatchRefusedInd,
       DispatchLostInd, PersistHandleInd, PollInd, ReceiptInd, SettleInd DEF Step
  <1> QED
    BY <1>1, <1>2

\* Every step preserves it.
LEMMA NextInd ==
  ASSUME Ind, Next
  PROVE  Ind'
  BY HandlerInd, TaskEndsInd, RecoverSettleInd, EditInd, CrashInd, StartupInd DEF Next

\* And so does a step of something else.
LEMMA StutterInd ==
  ASSUME Ind, UNCHANGED vars
  PROVE  Ind'
  <1>1. TypeOK' /\ Grows
    BY StaysGrows DEF Ind, TypeOK, vars, cluster
  <1>2. \A j \in Ids : effect'[j] = effect[j]
    BY DEF vars
  <1> QED
    BY <1>1, <1>2, WorldInd DEF vars

\* The invariant is one: whatever a handler has seen since its apply began it has seen
\* for good, and it alone moves the record it has claimed.
THEOREM Inductive == Spec => []Ind
  <1>1. Init => Ind
    BY InitInd
  <1>2. Ind /\ [Next]_vars => Ind'
    BY NextInd, StutterInd
  <1> QED
    BY <1>1, <1>2, PTL DEF Spec

-----------------------------------------------------------------------------
\* What the runs check of small instances, for all of them.

(***************************************************************************)
(* Records, locals, effects and the cluster's history always have the      *)
(* shape the handlers rely on, and the history never runs out of versions. *)
(***************************************************************************)
THEOREM TypeCorrect == Spec => []TypeOK
  <1>1. Ind => TypeOK
    BY DEF Ind
  <1> QED
    BY <1>1, Inductive, PTL

(***************************************************************************)
(* Every apply establishes the vacancy and the owner of the archive for    *)
(* itself, after it began, whatever the index had cached.                  *)
(***************************************************************************)
THEOREM EveryApplyChecksDrift == Spec => []DriftCheckedByApply
  <1>1. Ind => DriftCheckedByApply
    <2> SUFFICES ASSUME Ind, NEW h \in Handlers, call[h].at \in {"claim", "intent", "dispatch"}
                 PROVE  /\ \E v \in call[h].began .. now : past[v].target = "free"
                        /\ \E v \in call[h].began .. now :
                             past[v].archive = store[call[h].id].copies
      BY DEF DriftCheckedByApply
    <2>1. PICK k \in Calls : k = call[h] /\ Reader(k)
      BY CallKnown
    <2>2. k.copies = store[k.id].copies
      BY <2>1 DEF Reader, Applies, ClaimSteps
    <2> QED
      BY <2>1, <2>2 DEF Reader
  <1> QED
    BY <1>1, Inductive, PTL

(***************************************************************************)
(* Whoever sends a restore was admitted, in his own name, to the guest     *)
(* whose disks it copies.                                                  *)
(***************************************************************************)
THEOREM CopiersMayRead == Spec => []CopierMayRead
  <1>1. Ind => CopierMayRead
    <2> SUFFICES ASSUME Ind, NEW h \in Handlers, call[h].at \in {"claim"} \cup ClaimSteps
                 PROVE  OwnerAuthorized(call[h].by, call[h].by, store[call[h].id].copies)
      BY DEF CopierMayRead
    <2>1. PICK k \in Calls : k = call[h] /\ Reader(k)
      BY CallKnown
    <2>2. k.copies = store[k.id].copies /\ OwnerAuthorized(k.by, k.by, k.copies)
      BY <2>1 DEF Reader, Applies
    <2> QED
      BY <2>1, <2>2
  <1> QED
    BY <1>1, Inductive, PTL

(***************************************************************************)
(* No waiver and no lab mode spares the second person: what was restored   *)
(* was previewed, and approved by a human who had not planned it.          *)
(***************************************************************************)
THEOREM SecondPersonNeverWaived == Spec => []SecondPersonAlways
  <1>1. Ind => SecondPersonAlways
    BY DEF Ind, RecordOK, SecondPersonAlways
  <1> QED
    BY <1>1, Inductive, PTL

(***************************************************************************)
(* A receipt never contradicts the cluster, though an apply and a recovery *)
(* may each have written one.                                              *)
(***************************************************************************)
THEOREM ReceiptsAreTruthful == Spec => []ReceiptsTruthful
  <1>1. Ind => ReceiptsTruthful
    BY DEF Ind, RecordOK, ReceiptsTruthful
  <1> QED
    BY <1>1, Inductive, PTL

\* The version that Becomes adds is the cluster from now on.
LEMMA BecomesLatest ==
  ASSUME TypeOK, Grows, NEW c, Becomes(c)
  PROVE  past'[now'] = c
  <1>1. now \in Nat /\ now' = now + 1 /\ now' \in Versions
    BY VersionNumbers DEF TypeOK, Grows, Becomes
  <1> QED
    BY <1>1 DEF Becomes

\* What no step does to a target that is taken.
SparesTaken ==
  past[now].target # "free" => past'[now'].target \in {past[now].target, "free"}

\* A restore finds the target free, or does not happen.
LEMMA HandlerSpares ==
  ASSUME NEW h \in Handlers, Start(h) \/ Step(h)
  PROVE  SparesTaken
  <1>1. \/ past[now].target = "free"
        \/ UNCHANGED <<now, past>>
    BY DEF Start, PlanStart, ApproveStart, ApplyStart, Step, Refuse, PlanOwner, PlanVacancy,
       PlanCreate, PlanPreview, Approve, ApplySource, ApplyOwner, ApplyVacancy, Claim, Intent,
       IntentFails, DispatchAccepted, DispatchSynchronous, DispatchRefused, DispatchLost,
       PersistHandle, Poll, PollFails, Receipt, Settle, Restores, Accepts, cluster
  <1> QED
    BY <1>1 DEF SparesTaken

\* A task that fails gives its VMID back, or leaves its guest there.
LEMMA TaskEndsSpares ==
  ASSUME Ind, NEW i \in Ids, TaskEnds(i)
  PROVE  SparesTaken
  <1>1. CASE UNCHANGED <<now, past>>
    BY <1>1 DEF SparesTaken
  <1>2. CASE Becomes([past[now] EXCEPT !.target = "free"])
    <2>1. PICK c : c = [past[now] EXCEPT !.target = "free"]
      OBVIOUS
    <2>2. TypeOK /\ Grows
      BY TaskEndsGrow DEF Ind
    <2>3. past'[now'] = c
      BY <1>2, <2>1, <2>2, BecomesLatest
    <2>4. past[now] \in Clusters
      BY <2>2 DEF TypeOK
    <2>5. c.target = "free"
      BY <2>1, <2>4 DEF Clusters
    <2> QED
      BY <2>3, <2>5 DEF SparesTaken
  <1> QED
    BY <1>1, <1>2 DEF TaskEnds

(***************************************************************************)
(* force=0 is enough: whatever happens between the vacancy check and the   *)
(* request, no guest that holds the target is replaced by a restore.       *)
(***************************************************************************)
THEOREM RestoresNeverOverwrite == Spec => NeverOverwrites
  <1>1. Ind /\ [Next]_vars => [SparesTaken]_vars
    <2> SUFFICES ASSUME Ind, Next PROVE SparesTaken
      OBVIOUS
    <2>1. CASE Edit
      BY <2>1, EditGrows DEF Ind, SparesTaken
    <2>2. CASE Crash \/ Restart \/ Serve \/ \E i \in Ids : RecoverSettle(i)
      BY <2>2 DEF Crash, Restart, Serve, RecoverSettle, SparesTaken, cluster
    <2> QED
      BY <2>1, <2>2, HandlerSpares, TaskEndsSpares DEF Next
  <1>2. [SparesTaken]_vars
        <=> [past[now].target # "free" => past'[now'].target \in {past[now].target, "free"}]_vars
    BY DEF SparesTaken
  <1> QED
    BY <1>1, <1>2, Inductive, PTL DEF Spec, NeverOverwrites

-----------------------------------------------------------------------------
\* Restores implement SingleUse: every step is one of its steps or a stutter.

Stutter == UNCHANGED <<phaseOf, effect>>

\* Without a write of a record, the phases stay.
LEMMA NothingMoves ==
  ASSUME UNCHANGED <<store, effect>>
  PROVE  Stutter
  BY DEF phaseOf, Stutter

\* The phase of a change set is the state of its record.
LEMMA PhaseIs ==
  ASSUME NEW i \in Ids, NEW s, InState(i, s)
  PROVE  phaseOf[i] = s
  BY DEF phaseOf, InState

\* A record of change set i is written: the phase of i is that of the new record.
LEMMA PhaseStep ==
  ASSUME TypeOK, NEW i \in Ids, NEW r \in Records, store' = [store EXCEPT ![i] = r]
  PROVE  phaseOf' = [phaseOf EXCEPT ![i] = r.state]
  BY RecordsNotNone DEF phaseOf, TypeOK

\* A write that moves a record from one state to another is an Advance.
LEMMA AdvanceStep ==
  ASSUME TypeOK, NEW i \in Ids, NEW r \in Records, NEW s, InState(i, s),
         store' = [store EXCEPT ![i] = r], UNCHANGED effect
  PROVE  Single!Advance(i, s, r.state)
  BY PhaseStep, PhaseIs DEF Single!Advance

\* A write that leaves the state of a record is none that SingleUse sees.
LEMMA SamePhase ==
  ASSUME TypeOK, NEW i \in Ids, NEW r \in Records, store[i] \in Records,
         r.state = store[i].state, store' = [store EXCEPT ![i] = r], UNCHANGED effect
  PROVE  Stutter
  <1>1. phaseOf' = [phaseOf EXCEPT ![i] = r.state] /\ phaseOf[i] = r.state
    BY PhaseStep, RecordsNotNone DEF phaseOf
  <1>2. UNCHANGED phaseOf
    BY <1>1 DEF phaseOf
  <1> QED
    BY <1>2 DEF Stutter

\* A record that is settled by what happened: Succeed or Fail.
LEMMA SettledRefines ==
  ASSUME TypeOK, NEW i \in Ids, InState(i, "Applying"), NEW o \in Outcomes, Truthful(i, o),
         store' = [store EXCEPT ![i] = Settled(store[i], o)], UNCHANGED effect
  PROVE  Single!Next
  <1>1. store[i] \in Records
    BY DEF TypeOK, InState
  <1>2. PICK s \in Records : s = Settled(store[i], o)
                             /\ s.state = IF o = "ok" THEN "Applied" ELSE "Failed"
    BY <1>1, SettledRecord
  <1>3. Single!Advance(i, "Applying", s.state)
    BY <1>2, AdvanceStep
  <1>4. CASE o = "ok"
    BY <1>2, <1>3, <1>4 DEF Truthful, Single!Next, Single!Succeed
  <1>5. CASE o # "ok"
    BY <1>2, <1>3, <1>5 DEF Truthful, Single!Next, Single!Fail
  <1> QED
    BY <1>4, <1>5

\* PlanCreate is a Plan.
LEMMA PlanCreateRefines ==
  ASSUME Ind, NEW h \in Handlers, PlanCreate(h)
  PROVE  Single!Next
  <1>1. PICK k \in Calls : k = call[h] /\ Reader(k)
    BY CallKnown
  <1>2. PICK r : r = [state |-> "Planned", preview |-> "missing", owner |-> k.by,
                      approver |-> None, copies |-> k.copies, handle |-> "none"]
    OBVIOUS
  <1>3. PICK i \in Ids : store[i] = None /\ store' = [store EXCEPT ![i] = r]
    BY <1>1, <1>2 DEF PlanCreate
  <1>4. k.by \in Principals /\ k.copies \in Owners /\ UNCHANGED effect /\ TypeOK
    BY <1>1 DEF PlanCreate, At, Reader, Ind
  <1>5. r \in Records /\ r.state = "Planned"
    BY <1>2, <1>4 DEF Records, States
  <1>6. phaseOf' = [phaseOf EXCEPT ![i] = "Planned"] /\ phaseOf[i] = "unplanned"
    BY <1>3, <1>4, <1>5, PhaseStep DEF phaseOf
  <1> QED
    BY <1>4, <1>6 DEF Single!Next, Single!Plan, Single!Advance

\* PlanPreview and PersistHandle leave the phase alone.
LEMMA NotedRefines ==
  ASSUME Ind, NEW h \in Handlers, PlanPreview(h) \/ PersistHandle(h)
  PROVE  Stutter
  <1>1. PICK k \in Calls : k = call[h] /\ Reader(k)
    BY CallKnown
  <1>2. k.at \in Naming /\ TypeOK /\ UNCHANGED effect
    BY <1>1 DEF PlanPreview, PersistHandle, At, Naming, Applies, ClaimSteps, Ind
  <1>3. PICK i \in Ids : i = k.id /\ store[i] \in Records
    BY <1>1, <1>2, NamedRecord
  <1>4. PICK r, q : r = [store[i] EXCEPT !.preview = "stored"]
                    /\ q = [store[i] EXCEPT !.handle = "upid"]
    OBVIOUS
  <1>5. r \in Records /\ r.state = store[i].state
    BY <1>3, <1>4 DEF Records
  <1>6. q \in Records /\ q.state = store[i].state
    BY <1>3, <1>4 DEF Records
  <1>7. \/ store' = [store EXCEPT ![i] = r]
        \/ store' = [store EXCEPT ![i] = q]
        \/ UNCHANGED store
    BY <1>1, <1>3, <1>4 DEF PlanPreview, PersistHandle
  <1> QED
    BY <1>2, <1>3, <1>5, <1>6, <1>7, SamePhase, NothingMoves

\* Approve is an Approve.
LEMMA ApproveRefines ==
  ASSUME Ind, NEW h \in Handlers, Approve(h)
  PROVE  Single!Next
  <1>1. PICK k \in Calls : k = call[h] /\ Reader(k)
    BY CallKnown
  <1>2. k.at \in Naming /\ k.by \in Principals /\ TypeOK /\ UNCHANGED effect
    BY <1>1 DEF Approve, At, Naming, Reader, Ind
  <1>3. PICK i \in Ids : i = k.id /\ store[i] \in Records
    BY <1>1, <1>2, NamedRecord
  <1>4. PICK r : r = [store[i] EXCEPT !.state = "Approved", !.approver = k.by]
    OBVIOUS
  <1>5. r \in Records /\ r.state = "Approved"
    BY <1>2, <1>3, <1>4 DEF Records, States
  <1>6. InState(i, "Planned") /\ store' = [store EXCEPT ![i] = r]
    BY <1>1, <1>3, <1>4 DEF Approve
  <1>7. Single!Advance(i, "Planned", "Approved")
    BY <1>2, <1>5, <1>6, AdvanceStep
  <1> QED
    BY <1>7 DEF Single!Next, Single!Approve

\* Claim is a Spend.
LEMMA ClaimRefines ==
  ASSUME Ind, NEW h \in Handlers, Claim(h)
  PROVE  Single!Next
  <1>1. PICK k \in Calls : k = call[h] /\ Reader(k)
    BY CallKnown
  <1>2. k.at \in Naming /\ TypeOK /\ UNCHANGED effect
    BY <1>1 DEF Claim, At, Naming, Applies, Ind
  <1>3. PICK i \in Ids : i = k.id /\ store[i] \in Records
    BY <1>1, <1>2, NamedRecord
  <1>4. PICK r : r = [store[i] EXCEPT !.state = "Applying"]
    OBVIOUS
  <1>5. r \in Records /\ r.state = "Applying"
    BY <1>3, <1>4 DEF Records, States
  <1>6. InState(i, "Approved") /\ store' = [store EXCEPT ![i] = r]
    BY <1>1, <1>3, <1>4 DEF Claim
  <1>7. Single!Advance(i, "Approved", "Applying")
    BY <1>2, <1>5, <1>6, AdvanceStep
  <1> QED
    BY <1>7 DEF Single!Next, Single!Spend

\* An intent that cannot be written fails a change set whose request was never made.
LEMMA IntentFailsRefines ==
  ASSUME Ind, NEW h \in Handlers, IntentFails(h)
  PROVE  Single!Next \/ Stutter
  <1>1. PICK k \in Calls : k = call[h] /\ Reader(k) /\ Holder(k)
    BY CallKnown
  <1>2. k.at = "intent" /\ k.at \in Naming /\ TypeOK /\ UNCHANGED effect
    BY <1>1 DEF IntentFails, At, Naming, Applies, ClaimSteps, Ind
  <1>3. PICK i \in Ids : i = k.id /\ store[i] \in Records
    BY <1>1, <1>2, NamedRecord
  <1>4. PICK r : r = [store[i] EXCEPT !.state = "Failed"]
    OBVIOUS
  <1>5. r \in Records /\ r.state = "Failed"
    BY <1>3, <1>4 DEF Records, States
  <1>6. InState(i, "Applying") /\ effect[i] = "none"
    BY <1>1, <1>2, <1>3 DEF Holder, ClaimSteps
  <1>7. store' = [store EXCEPT ![i] = r] \/ UNCHANGED store
    BY <1>1, <1>3, <1>4 DEF IntentFails
  <1>8. CASE store' = [store EXCEPT ![i] = r]
    <2>1. Single!Advance(i, "Applying", "Failed")
      BY <1>2, <1>5, <1>6, <1>8, AdvanceStep
    <2> QED
      BY <1>6, <2>1 DEF Single!Next, Single!Fail
  <1> QED
    BY <1>2, <1>7, <1>8, NothingMoves

\* A restore that Proxmox begins is the Act.
LEMMA RestoresRefine ==
  ASSUME Ind, NEW h \in Handlers, call[h].at = "dispatch", NEW e \in {"running", "ok"},
         Restores(call[h].id, e), UNCHANGED store
  PROVE  Single!Next
  <1>1. PICK k \in Calls : k = call[h] /\ Reader(k) /\ Holder(k)
    BY CallKnown
  <1>2. PICK i \in Ids : i = k.id
    BY <1>1 DEF Reader, Naming, Applies, ClaimSteps
  <1>3. InState(i, "Applying") /\ effect[i] = "none"
    BY <1>1, <1>2 DEF Holder, ClaimSteps
  <1>4. effect' = [effect EXCEPT ![i] = e]
    BY <1>1, <1>2 DEF Restores
  <1>5. phaseOf[i] = "Applying" /\ UNCHANGED phaseOf
    BY <1>3, PhaseIs DEF phaseOf
  <1> QED
    BY <1>3, <1>4, <1>5 DEF Single!Next, Single!Act

\* Settle, and the recovery that settles, say what the cluster did.
LEMMA SettleRefines ==
  ASSUME Ind, NEW h \in Handlers, Settle(h)
  PROVE  Single!Next \/ Stutter
  <1>1. PICK k \in Calls : k = call[h] /\ Reader(k) /\ Holder(k)
    BY CallKnown
  <1>2. k.at = "settle" /\ k.id \in Ids /\ TypeOK /\ UNCHANGED effect
    BY <1>1 DEF Settle, At, Reader, Naming, Applies, ClaimSteps, Ind
  <1>3. k.outcome \in Outcomes /\ InState(k.id, "Applying") /\ Truthful(k.id, k.outcome)
    BY <1>1, <1>2 DEF Calls, Holder, ClaimSteps
  <1>4. store' = [store EXCEPT ![k.id] = Settled(store[k.id], k.outcome)] \/ UNCHANGED store
    BY <1>1 DEF Settle
  <1> QED
    BY <1>2, <1>3, <1>4, SettledRefines, NothingMoves

\* ... and so does the recovery.
LEMMA RecoverRefines ==
  ASSUME Ind, NEW i \in Ids, RecoverSettle(i)
  PROVE  Single!Next
  <1>1. PICK o \in Outcomes : o = effect[i]
    BY DEF RecoverSettle
  <1>2. /\ TypeOK /\ InState(i, "Applying") /\ UNCHANGED effect
        /\ store' = [store EXCEPT ![i] = Settled(store[i], o)]
    BY <1>1 DEF RecoverSettle, Ind
  <1>3. Truthful(i, o)
    BY <1>1 DEF Truthful, Outcomes
  <1> QED
    BY <1>1, <1>2, <1>3, SettledRefines

\* A task that ends is the End.
LEMMA TaskEndsRefines ==
  ASSUME NEW i \in Ids, TaskEnds(i)
  PROVE  Single!Next
  <1>1. \E e \in {"ok", "failed"} : effect' = [effect EXCEPT ![i] = e]
    BY DEF TaskEnds
  <1>2. UNCHANGED phaseOf
    BY DEF TaskEnds, phaseOf
  <1> QED
    BY <1>1, <1>2 DEF TaskEnds, Single!Next, Single!End

\* Every step is a step of SingleUse or a stutter.
LEMMA NextRefines ==
  ASSUME Ind, Next
  PROVE  Single!Next \/ Stutter
  <1>1. ASSUME NEW h \in Handlers, Start(h) \/ Step(h)
        PROVE  Single!Next \/ Stutter
    <2>1. CASE \/ Start(h) \/ Refuse(h) \/ PlanOwner(h) \/ PlanVacancy(h) \/ ApplySource(h)
               \/ ApplyOwner(h) \/ ApplyVacancy(h)
      BY <2>1, NothingMoves DEF Start, PlanStart, ApproveStart, ApplyStart, Refuse, PlanOwner,
         PlanVacancy, ApplySource, ApplyOwner, ApplyVacancy
    <2>2. CASE Intent(h) \/ DispatchRefused(h) \/ Poll(h) \/ PollFails(h) \/ Receipt(h)
      BY <2>2, NothingMoves DEF Intent, DispatchRefused, Poll, PollFails, Receipt
    <2>3. CASE DispatchAccepted(h) \/ DispatchSynchronous(h)
      BY <2>3, RestoresRefine DEF DispatchAccepted, DispatchSynchronous, At
    <2>4. CASE DispatchLost(h)
      <3>1. call[h].at = "dispatch" /\ UNCHANGED store
        BY <2>4 DEF DispatchLost, At
      <3>2. Restores(call[h].id, "running") \/ UNCHANGED effect
        BY <2>4 DEF DispatchLost
      <3> QED
        BY <3>1, <3>2, RestoresRefine, NothingMoves
    <2> QED
      BY <1>1, <2>1, <2>2, <2>3, <2>4, PlanCreateRefines, NotedRefines, ApproveRefines,
         ClaimRefines, IntentFailsRefines, SettleRefines DEF Step
  <1>2. CASE Edit \/ Crash \/ Restart \/ Serve
    BY <1>2, NothingMoves DEF Edit, Crash, Restart, Serve
  <1> QED
    BY <1>1, <1>2, TaskEndsRefines, RecoverRefines DEF Next

(***************************************************************************)
(* A restore keeps the promise of SingleUse: whatever is edited, lost or   *)
(* crashed, one approval buys one restore, and the record is settled by    *)
(* what became of it.                                                      *)
(***************************************************************************)
THEOREM RestoresImplementSingleUse == Spec => ImplementsSingleUse
  <1>1. Init => Single!Init
    BY DEF Init, Single!Init, phaseOf
  <1>2. Ind /\ [Next]_vars => [Single!Next]_(Single!vars)
    <2>1. UNCHANGED vars => Stutter
      BY NothingMoves DEF vars
    <2> QED
      BY <2>1, NextRefines DEF Stutter, Single!vars
  <1> QED
    BY <1>1, <1>2, Inductive, PTL DEF Spec, ImplementsSingleUse, Single!Spec

\* What SingleUse entails, of the phases that the records show.
Promise == INSTANCE SingleUseProofs WITH phase <- phaseOf

\* The promise that RestoresImplementSingleUse shows to be kept is the one that
\* SingleUseProofs is about.
LEMMA PromiseKept == Spec => Promise!Spec
  <1>1. Single!Init => Promise!Init
    BY DEF Single!Init, Promise!Init
  <1>2. [Single!Next]_(Single!vars) => [Promise!Next]_(Promise!vars)
    BY DEF Single!Next, Single!vars, Promise!Next, Promise!vars,
           Single!Plan, Single!Approve, Single!Spend, Single!Act, Single!End, Single!Succeed,
           Single!Fail, Single!Advance,
           Promise!Plan, Promise!Approve, Promise!Spend, Promise!Act, Promise!End,
           Promise!Succeed, Promise!Fail, Promise!Advance
  <1> QED
    BY <1>1, <1>2, RestoresImplementSingleUse, PTL
    DEF ImplementsSingleUse, Single!Spec, Promise!Spec

(***************************************************************************)
(* A restore that is Applied or Failed stays so, whatever calls, crashes and *)
(* recoveries follow, and Proxmox does nothing for it any more.            *)
(***************************************************************************)
THEOREM SettledForGood == Spec => Promise!EndsForGood
  BY PromiseKept, Promise!EndingIsFinal, PTL

(***************************************************************************)
(* The approval of a restore is not given back: the states of its record   *)
(* come one at a time.                                                     *)
(***************************************************************************)
THEOREM ApprovalNeverGivenBack == Spec => Promise!NeverGivenBack
  BY PromiseKept, Promise!ApprovalsAreNotGivenBack, PTL

(***************************************************************************)
(* Proxmox begins a restore at most once, while its record is Applying.    *)
(***************************************************************************)
THEOREM ProxmoxBeginsOnce == Spec => Promise!BeginsOnce
  BY PromiseKept, Promise!TheClusterBeginsOnce, PTL

-----------------------------------------------------------------------------
(***************************************************************************)
(* Calls run down, whatever happens to the storage and the target.         *)
(***************************************************************************)

\* The steps of a call.
StepNames == {"idle"} \cup PlanSteps \cup CheckSteps \cup ClaimSteps

\* The number of steps left at each of them.
LEMMA StepsLeftIs ==
  /\ StepsLeft["plan_owner"] = 4 /\ StepsLeft["plan_vacancy"] = 3
  /\ StepsLeft["plan_create"] = 2 /\ StepsLeft["plan_preview"] = 1
  /\ StepsLeft["approve"] = 1 /\ StepsLeft["apply_source"] = 10
  /\ StepsLeft["apply_owner"] = 9 /\ StepsLeft["apply_vacancy"] = 8
  /\ StepsLeft["claim"] = 7 /\ StepsLeft["intent"] = 6 /\ StepsLeft["dispatch"] = 5
  /\ StepsLeft["persist"] = 4 /\ StepsLeft["poll"] = 3 /\ StepsLeft["receipt"] = 2
  /\ StepsLeft["settle"] = 1 /\ StepsLeft["idle"] = 0
  BY DEF StepsLeft

\* It is a number, and no less than one but for an idle handler.
LEMMA StepsLeftPositive ==
  ASSUME NEW s \in StepNames
  PROVE  StepsLeft[s] \in Nat /\ (s # "idle" => StepsLeft[s] >= 1)
  BY StepsLeftIs DEF StepNames, PlanSteps, CheckSteps, ClaimSteps

\* What the next lemmas show of a handler that takes a step: fewer are left to it.
Fewer(h) == \E c : call' = [call EXCEPT ![h] = c] /\ StepsLeft[c.at] < StepsLeft[call[h].at]

\* A handler that returns has no step left.
LEMMA ReturnRunsDown ==
  ASSUME TypeOK, NEW h \in Handlers, call[h].at # "idle", Return(h)
  PROVE  Fewer(h)
  <1>1. call[h].at \in StepNames
    BY DEF TypeOK, Calls, StepNames
  <1>2. StepsLeft[call[h].at] >= 1 /\ StepsLeft[call[h].at] \in Nat
    BY <1>1, StepsLeftPositive
  <1>3. StepsLeft[NoCall.at] < StepsLeft[call[h].at]
    BY <1>2, NoCallTyped, StepsLeftIs
  <1> QED
    BY <1>3 DEF Return, Fewer

\* A handler that goes on to the next step, whatever else it notes, has fewer left.
LEMMA MoveRunsDown ==
  ASSUME NEW h \in Handlers, NEW c, call' = [call EXCEPT ![h] = c],
         \/ call[h].at = "plan_owner" /\ c.at = "plan_vacancy"
         \/ call[h].at = "plan_vacancy" /\ c.at = "plan_create"
         \/ call[h].at = "plan_create" /\ c.at = "plan_preview"
         \/ call[h].at = "apply_source" /\ c.at = "apply_owner"
         \/ call[h].at = "apply_owner" /\ c.at = "apply_vacancy"
         \/ call[h].at = "apply_vacancy" /\ c.at = "claim"
         \/ call[h].at = "claim" /\ c.at \in {"intent", "dispatch"}
         \/ call[h].at = "intent" /\ c.at = "dispatch"
         \/ call[h].at = "dispatch" /\ c.at \in {"persist", "receipt", "settle"}
         \/ call[h].at = "persist" /\ c.at = "poll"
         \/ call[h].at = "poll" /\ c.at \in {"receipt", "settle"}
         \/ call[h].at = "receipt" /\ c.at = "settle"
  PROVE  Fewer(h)
  <1>1. StepsLeft[c.at] < StepsLeft[call[h].at]
    BY StepsLeftIs
  <1> QED
    BY <1>1 DEF Fewer

\* Where Goto leads.
LEMMA GotoStep ==
  ASSUME TypeOK, NEW h \in Handlers, NEW s, Goto(h, s)
  PROVE  \E c : call' = [call EXCEPT ![h] = c] /\ c.at = s
  <1>1. PICK c : c = [call[h] EXCEPT !.at = s]
    OBVIOUS
  <1>2. c.at = s
    BY <1>1 DEF TypeOK, Calls
  <1>3. call' = [call EXCEPT ![h] = c]
    BY <1>1 DEF Goto
  <1> QED
    BY <1>2, <1>3

\* Where Conclude leads.
LEMMA ConcludeStep ==
  ASSUME TypeOK, NEW h \in Handlers, NEW o, Conclude(h, o)
  PROVE  \E c : call' = [call EXCEPT ![h] = c] /\ c.at \in {"receipt", "settle"}
  <1>1. PICK s : s = IF HasEvidence THEN "receipt" ELSE "settle"
    OBVIOUS
  <1>2. PICK c : c = [call[h] EXCEPT !.at = s, !.outcome = o, !.began = 0]
    OBVIOUS
  <1>3. c.at = s
    BY <1>2 DEF TypeOK, Calls
  <1>4. call' = [call EXCEPT ![h] = c]
    BY <1>1, <1>2 DEF Conclude
  <1> QED
    BY <1>1, <1>3, <1>4

\* Every step of a call leaves it fewer.
LEMMA StepRunsDown ==
  ASSUME TypeOK, NEW h \in Handlers, Step(h)
  PROVE  Fewer(h)
  <1>0. call[h] \in Calls
    BY DEF TypeOK
  <1>1. CASE \/ Refuse(h) \/ PlanPreview(h) \/ Approve(h) \/ IntentFails(h)
             \/ DispatchLost(h) \/ PollFails(h) \/ Settle(h)
    <2>1. Return(h) /\ call[h].at # "idle"
      BY <1>1 DEF Refuse, PlanSteps, CheckSteps, PlanPreview, Approve, IntentFails,
                  DispatchLost, PollFails, Settle, At
    <2> QED
      BY <2>1, ReturnRunsDown
  <1>2. CASE PlanOwner(h) \/ ApplyOwner(h)
    <2>1. PICK s : /\ call' = [call EXCEPT ![h] = [call[h] EXCEPT !.at = s, !.floor = now]]
                   /\ \/ call[h].at = "plan_owner" /\ s = "plan_vacancy"
                      \/ call[h].at = "apply_owner" /\ s = "apply_vacancy"
      BY <1>2 DEF PlanOwner, ApplyOwner, At
    <2>2. PICK c : c = [call[h] EXCEPT !.at = s, !.floor = now]
      OBVIOUS
    <2>3. c.at = s /\ call' = [call EXCEPT ![h] = c]
      BY <1>0, <2>1, <2>2 DEF Calls
    <2> QED
      BY <2>1, <2>3, MoveRunsDown
  <1>3. CASE PlanVacancy(h)
    <2>1. PICK c : c = [call[h] EXCEPT !.at = "plan_create", !.floor = 0]
      OBVIOUS
    <2>2. c.at = "plan_create" /\ call[h].at = "plan_vacancy"
      BY <1>0, <1>3, <2>1 DEF PlanVacancy, At, Calls
    <2>3. call' = [call EXCEPT ![h] = c]
      BY <1>3, <2>1 DEF PlanVacancy
    <2> QED
      BY <2>2, <2>3, MoveRunsDown
  <1>4. CASE PlanCreate(h)
    <2>1. PICK i \in Ids :
            call' = [call EXCEPT ![h] = [NoCall EXCEPT !.at = "plan_preview", !.id = i]]
      BY <1>4 DEF PlanCreate
    <2>2. PICK c : c = [NoCall EXCEPT !.at = "plan_preview", !.id = i]
      OBVIOUS
    <2>3. c.at = "plan_preview" /\ call[h].at = "plan_create"
      BY <1>4, <2>2 DEF PlanCreate, At, NoCall
    <2>4. call' = [call EXCEPT ![h] = c]
      BY <2>1, <2>2
    <2> QED
      BY <2>3, <2>4, MoveRunsDown
  <1>5. CASE ApplyVacancy(h)
    <2>1. PICK c : c = [call[h] EXCEPT !.at = "claim", !.seen = "none", !.floor = 0]
      OBVIOUS
    <2>2. c.at = "claim" /\ call[h].at = "apply_vacancy"
      BY <1>0, <1>5, <2>1 DEF ApplyVacancy, At, Calls
    <2>3. call' = [call EXCEPT ![h] = c]
      BY <1>5, <2>1 DEF ApplyVacancy
    <2> QED
      BY <2>2, <2>3, MoveRunsDown
  <1>6. CASE ApplySource(h) \/ Claim(h) \/ Intent(h) \/ PersistHandle(h) \/ Receipt(h)
    <2>1. PICK s : /\ Goto(h, s)
                   /\ \/ call[h].at = "apply_source" /\ s = "apply_owner"
                      \/ call[h].at = "claim" /\ s \in {"intent", "dispatch"}
                      \/ call[h].at = "intent" /\ s = "dispatch"
                      \/ call[h].at = "persist" /\ s = "poll"
                      \/ call[h].at = "receipt" /\ s = "settle"
      BY <1>6 DEF ApplySource, Claim, Intent, PersistHandle, Receipt, At
    <2>2. PICK c : call' = [call EXCEPT ![h] = c] /\ c.at = s
      BY <2>1, GotoStep
    <2> QED
      BY <2>1, <2>2, MoveRunsDown
  <1>7. CASE DispatchAccepted(h)
    <2>1. PICK c : c = [call[h] EXCEPT !.at = "persist", !.began = 0]
      OBVIOUS
    <2>2. c.at = "persist" /\ call[h].at = "dispatch"
      BY <1>0, <1>7, <2>1 DEF DispatchAccepted, At, Calls
    <2>3. call' = [call EXCEPT ![h] = c]
      BY <1>7, <2>1 DEF DispatchAccepted
    <2> QED
      BY <2>2, <2>3, MoveRunsDown
  <1>8. CASE DispatchSynchronous(h) \/ DispatchRefused(h) \/ Poll(h)
    <2>1. PICK o : Conclude(h, o)
      BY <1>8 DEF DispatchSynchronous, DispatchRefused, Poll
    <2>2. call[h].at \in {"dispatch", "poll"}
      BY <1>8 DEF DispatchSynchronous, DispatchRefused, Poll, At
    <2>3. PICK c : call' = [call EXCEPT ![h] = c] /\ c.at \in {"receipt", "settle"}
      BY <2>1, ConcludeStep
    <2> QED
      BY <2>2, <2>3, MoveRunsDown
  <1> QED
    BY <1>1, <1>2, <1>3, <1>4, <1>5, <1>6, <1>7, <1>8 DEF Step

\* Nobody else gives a call more steps.
LEMMA OthersRunDown ==
  ASSUME TypeOK, NEW h \in Handlers, call[h].at # "idle", Next
  PROVE  call'[h] = call[h] \/ Step(h) \/ call'[h] = NoCall
  <1>1. ASSUME NEW g \in Handlers, Start(g)
        PROVE  call'[h] = call[h]
    <2>1. call[g].at = "idle" /\ \E c : call' = [call EXCEPT ![g] = c]
      BY <1>1 DEF Start, PlanStart, ApproveStart, ApplyStart, At
    <2> QED
      BY <2>1 DEF TypeOK
  <1>2. ASSUME NEW g \in Handlers, g # h, Step(g)
        PROVE  call'[h] = call[h]
    BY <1>2, StepRunsDown DEF TypeOK, Fewer
  <1>3. CASE (\E i \in Ids : TaskEnds(i) \/ RecoverSettle(i)) \/ Edit \/ Crash \/ Restart \/ Serve
    BY <1>3 DEF TaskEnds, RecoverSettle, Edit, Crash, Restart, Serve
  <1> QED
    BY <1>1, <1>2, <1>3 DEF Next

(***************************************************************************)
(* No restore's plan, approval or apply retries, whatever others do to the *)
(* archive, its owner or the target: each of its steps leaves fewer.       *)
(***************************************************************************)
THEOREM EveryCallRunsDown == Spec => CallsRunDown
  <1>1. Ind /\ Next => \A h \in Handlers : call[h].at # "idle" =>
                         /\ Step(h) => Left(h)' < Left(h)
                         /\ Left(h)' <= Left(h)
    <2> SUFFICES ASSUME Ind, Next, NEW h \in Handlers, call[h].at # "idle"
                 PROVE  /\ Step(h) => Left(h)' < Left(h)
                        /\ Left(h)' <= Left(h)
      OBVIOUS
    <2>1. StepsLeft[call[h].at] \in Nat /\ TypeOK
      BY StepsLeftPositive DEF Ind, TypeOK, Calls, StepNames
    <2>2. ASSUME Step(h)
          PROVE  /\ StepsLeft[call'[h].at] < StepsLeft[call[h].at]
                 /\ StepsLeft[call'[h].at] <= StepsLeft[call[h].at]
      <3>1. PICK c : call' = [call EXCEPT ![h] = c] /\ StepsLeft[c.at] < StepsLeft[call[h].at]
        BY <2>1, <2>2, StepRunsDown DEF Fewer
      <3>2. call' \in [Handlers -> Calls]
        BY NextInd DEF Ind, TypeOK
      <3>3. StepsLeft[call'[h].at] \in Nat
        BY <3>2, StepsLeftPositive DEF Calls, StepNames
      <3>4. call'[h] = c
        BY <3>1 DEF Ind, TypeOK
      <3> QED
        BY <2>1, <3>1, <3>3, <3>4
    <2>3. StepsLeft[call'[h].at] <= StepsLeft[call[h].at]
      <3>1. CASE call'[h] = call[h]
        BY <2>1, <3>1
      <3>2. CASE call'[h] = NoCall
        BY <2>1, <3>2, StepsLeftIs, NoCallTyped
      <3> QED
        BY <2>1, <2>2, <3>1, <3>2, OthersRunDown
    <2> QED
      BY <2>2, <2>3 DEF Left
  <1>2. Ind /\ [Next]_vars
          => [\A h \in Handlers : call[h].at # "idle" =>
                /\ Step(h) => Left(h)' < Left(h)
                /\ Left(h)' <= Left(h)]_vars
    BY <1>1
  <1> QED
    BY <1>2, Inductive, PTL DEF Spec, CallsRunDown
=============================================================================
