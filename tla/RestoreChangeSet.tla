-------------------------- MODULE RestoreChangeSet --------------------------
(***************************************************************************)
(* The change set that restores a backup archive into a VMID that does not *)
(* exist yet: plan_restore_new_vmid, the restore branch of                 *)
(* approve_change_set, apply_restore_new_vmid, and the recovery after a    *)
(* crash (server/mod.rs).  There is no guest to fingerprint: what stands   *)
(* in for it is that the VMID is vacant, and that the caller may read the  *)
(* guest whose archive it is.                                              *)
(*                                                                         *)
(* The cluster is a history of versions, and the guest index the one that  *)
(* FreshReads describes: it answers from any version of this history, no   *)
(* older than the caller's own invalidation.  The storage's content list,  *)
(* which names an archive's owner, is read live.                           *)
(***************************************************************************)
EXTENDS Naturals, FiniteSets

CONSTANTS
  Handlers,     \* tool calls that may be in progress together
  Ids,          \* change sets, all of one archive and one target VMID
  Principals,   \* token names
  Humans,       \* the principals whose tokens belong to people
  Owners,       \* guests the archive may belong to
  Scope,        \* Scope[p]: the owners that p's grant admits while they live
  ByNumber,     \* ByNumber[p]: those that it admits by a bare VMID
  Lives,        \* bound: Lives[o], the statuses that owner o may have
  Waived,       \* the principals that a current waiver for restore_new_vmid matches
  LabMode,      \* --lab-mode
  HasEvidence,  \* an evidence recorder is attached
  Horizon,      \* bound: changes made by others than this server
  MaxCrashes,   \* bound: crashes of the server
  Faults,       \* what may fail: a subset of FaultKinds
  None          \* no record, no principal, no change set, no archive

FaultKinds == {"store", "evidence", "request", "poll"}
Statuses   == {"open", "protected", "gone"}
States     == {"Planned", "Approved", "Applying", "Applied", "Failed"}
Outcomes   == {"ok", "failed"}
Versions   == 0 .. Horizon + 2 * Cardinality(Ids)

\* The target VMID: free, taken by a guest of somebody else, or by a restored one.
Targets  == {"free", "foreign"} \cup Ids
Clusters == [archive : Owners \cup {None}, target : Targets,
             status : [Owners -> Statuses]]

\* copies: owner_vmid in the recorded action; handle: task_id.
Records == [state : States, preview : {"missing", "stored"}, owner : Principals,
            approver : Principals \cup {None}, copies : Owners, handle : {"none", "upid"}]

ASSUME HumansAssumption == Humans \subseteq Principals
ASSUME ScopeAssumption  == /\ Scope \in [Principals -> SUBSET Owners]
                           /\ ByNumber \in [Principals -> SUBSET Owners]
                           /\ \A p \in Principals : ByNumber[p] \subseteq Scope[p]
ASSUME LivesAssumption  == Lives \in [Owners -> SUBSET Statuses]
ASSUME BoundAssumption  == Horizon \in Nat /\ MaxCrashes \in Nat /\ IsFiniteSet(Ids)
ASSUME FlagAssumption   == LabMode \in BOOLEAN /\ HasEvidence \in BOOLEAN
ASSUME FaultsAssumption == Faults \subseteq FaultKinds
ASSUME TargetAssumption == Ids \cap {"free", "foreign"} = {}
ASSUME NoneAssumption   == None \notin Records \cup Principals \cup Ids \cup Owners

VARIABLES
  server,    \* "down", "recovering" or "serving"
  crashes,   \* crashes so far
  now,       \* the current version of the cluster
  past,      \* past[v]: the cluster at version v, up to now
  edits,     \* changes made by others so far
  store,     \* store[i]: the coordinator's record of change set i, on disk
  call,      \* call[h]: where handler h stands, and its locals
  effect,    \* effect[i]: what Proxmox has done for change set i
  receipts,  \* receipts[i]: the outcomes that result receipts state
  intents    \* the change sets with an apply-intent record in the evidence chain

cluster == <<now, past, edits>>
vars == <<server, crashes, cluster, store, call, effect, receipts, intents>>

PlanSteps  == {"plan_owner", "plan_vacancy", "plan_create", "plan_preview"}
CheckSteps == {"approve", "apply_source", "apply_owner", "apply_vacancy", "claim"}
ClaimSteps == {"intent", "dispatch", "persist", "poll", "receipt", "settle"}

\* began: history, the version when the call began; floor: the version when it
\* invalidated the index; seen: the state of the record an apply read at its start.
Calls == [at : {"idle"} \cup PlanSteps \cup CheckSteps \cup ClaimSteps,
          id : Ids \cup {None}, by : Principals \cup {None}, copies : Owners \cup {None},
          seen : States \cup {"none"}, began : Versions, floor : Versions, outcome : Outcomes]

TypeOK ==
  /\ server \in {"down", "recovering", "serving"}
  /\ crashes \in 0 .. MaxCrashes
  /\ now \in Versions
  /\ past \in [Versions -> Clusters]
  /\ edits \in 0 .. Horizon
  /\ store \in [Ids -> Records \cup {None}]
  /\ call \in [Handlers -> Calls]
  /\ effect \in [Ids -> {"none", "running"} \cup Outcomes]
  /\ receipts \in [Ids -> SUBSET Outcomes]
  /\ intents \in SUBSET Ids

NoCall == [at |-> "idle", id |-> None, by |-> None, copies |-> None, seen |-> "none",
           began |-> 0, floor |-> 0, outcome |-> "failed"]

InState(i, s) == store[i] # None /\ store[i].state = s

At(h, s) == server = "serving" /\ call[h].at = s

Goto(h, s) == call' = [call EXCEPT ![h] = [@ EXCEPT !.at = s]]

Return(h) == call' = [call EXCEPT ![h] = NoCall]

\* The cluster becomes c, as its next version; versions to come look like the newest.
Becomes(c) ==
  /\ now' = now + 1
  /\ past' = [v \in Versions |-> IF v > now THEN c ELSE past[v]]

-----------------------------------------------------------------------------
(***************************************************************************)
(* authorize_backup_owner for a grant of p and a waiver of w, with the     *)
(* owner o as the cluster c shows it: a live owner is held to the scope    *)
(* and to its protection, one that is gone to the scope by bare VMID.      *)
(***************************************************************************)
OwnerAdmits(p, w, o, c) ==
  CASE c.status[o] = "open"      -> o \in Scope[p]
    [] c.status[o] = "protected" -> o \in Scope[p] /\ (w \in Waived \/ LabMode)
    [] c.status[o] = "gone"      -> o \in ByNumber[p]

\* authorize_backup_owner resolves without invalidating: from any version.
OwnerAuthorized(p, w, o) == \E v \in 0 .. now : OwnerAdmits(p, w, o, past[v])

\* The index, asked about the target after an invalidation at version floor.
Vacant(floor) == \E v \in floor .. now : past[v].target = "free"

\* A handler that has claimed nothing returns with an error: a tool, tier, scope or pin
\* that forbids it, an owner or a vacancy that cannot be established, a lost claim, an
\* approval past its TTL, a store that cannot be written.
Refuse(h) ==
  /\ server = "serving"
  /\ call[h].at \in PlanSteps \cup CheckSteps
  /\ Return(h)
  /\ UNCHANGED <<server, crashes, cluster, store, effect, receipts, intents>>

-----------------------------------------------------------------------------
\* plan_restore_new_vmid: owner, its authorization, vacancy, record, preview.

\* resolve_backup_owner: the owner that the storage's own content list names.  Ids is a
\* bound: a plan that could not be recorded for want of one is not started.
PlanStart(h) ==
  /\ At(h, "idle")
  /\ \E i \in Ids : store[i] = None
  /\ past[now].archive # None
  /\ \E by \in Principals :
       call' = [call EXCEPT ![h] = [NoCall EXCEPT !.at = "plan_owner", !.by = by,
                                                  !.copies = past[now].archive]]
  /\ UNCHANGED <<server, crashes, cluster, store, effect, receipts, intents>>

\* The owner is authorized, and then the index invalidated for the target.
PlanOwner(h) ==
  /\ At(h, "plan_owner")
  /\ OwnerAuthorized(call[h].by, call[h].by, call[h].copies)
  /\ call' = [call EXCEPT ![h] = [@ EXCEPT !.at = "plan_vacancy", !.floor = now]]
  /\ UNCHANGED <<server, crashes, cluster, store, effect, receipts, intents>>

PlanVacancy(h) ==
  /\ At(h, "plan_vacancy")
  /\ Vacant(call[h].floor)
  /\ call' = [call EXCEPT ![h] = [@ EXCEPT !.at = "plan_create", !.floor = 0]]
  /\ UNCHANGED <<server, crashes, cluster, store, effect, receipts, intents>>

\* The coordinator blocks a new plan while a claim is held on the same target.
PlanCreate(h) ==
  /\ At(h, "plan_create")
  /\ \A i \in Ids : ~InState(i, "Applying")
  /\ \E i \in Ids :
       /\ store[i] = None
       /\ store' = [store EXCEPT ![i] =
            [state |-> "Planned", preview |-> "missing", owner |-> call[h].by,
             approver |-> None, copies |-> call[h].copies, handle |-> "none"]]
       /\ call' = [call EXCEPT ![h] = [NoCall EXCEPT !.at = "plan_preview", !.id = i]]
  /\ UNCHANGED <<server, crashes, cluster, effect, receipts, intents>>

\* No lab-mode waiver follows: this plan is always approved by somebody.
PlanPreview(h) ==
  LET i == call[h].id IN
  /\ At(h, "plan_preview")
  /\ store' = [store EXCEPT ![i] = [@ EXCEPT !.preview = "stored"]]
  /\ Return(h)
  /\ UNCHANGED <<server, crashes, cluster, effect, receipts, intents>>

-----------------------------------------------------------------------------
\* approve_change_set, restore branch: the approver's scope, the planner's waiver.

ApproveStart(h) ==
  /\ At(h, "idle")
  /\ \E i \in Ids, by \in Principals :
       /\ store[i] # None
       /\ store[i].preview = "stored"
       /\ OwnerAuthorized(by, store[i].owner, store[i].copies)
       /\ call' = [call EXCEPT ![h] = [NoCall EXCEPT !.at = "approve", !.id = i, !.by = by]]
  /\ UNCHANGED <<server, crashes, cluster, store, effect, receipts, intents>>

\* A decision that forgets to compare the approver with the owner.
ApproveByAnyone(h) ==
  LET i == call[h].id IN
  /\ At(h, "approve")
  /\ InState(i, "Planned")
  /\ call[h].by \in Humans
  /\ store' = [store EXCEPT ![i] = [@ EXCEPT !.state = "Approved", !.approver = call[h].by]]
  /\ Return(h)
  /\ UNCHANGED <<server, crashes, cluster, effect, receipts, intents>>

Approve(h) ==
  LET i == call[h].id IN
  /\ At(h, "approve")
  /\ InState(i, "Planned")
  /\ call[h].by \in Humans
  /\ call[h].by # store[i].owner
  /\ store' = [store EXCEPT ![i] = [@ EXCEPT !.state = "Approved", !.approver = call[h].by]]
  /\ Return(h)
  /\ UNCHANGED <<server, crashes, cluster, effect, receipts, intents>>

-----------------------------------------------------------------------------
(***************************************************************************)
(* apply_restore_new_vmid, up to the claim: read the record, resolve the   *)
(* archive's owner again and compare, authorize it for this caller,        *)
(* invalidate the index, look whether the target is vacant, and compare    *)
(* the state that the record had when it was read.                         *)
(***************************************************************************)
ApplyStart(h) ==
  /\ At(h, "idle")
  /\ \E i \in Ids, by \in Principals :
       /\ store[i] # None
       /\ store[i].preview = "stored"
       /\ call' = [call EXCEPT ![h] =
            [NoCall EXCEPT !.at = "apply_source", !.id = i, !.by = by, !.began = now,
                           !.seen = store[i].state, !.copies = store[i].copies]]
  /\ UNCHANGED <<server, crashes, cluster, store, effect, receipts, intents>>

\* An apply that trusts the owner in the record.
ApplySourceRecorded(h) ==
  /\ At(h, "apply_source")
  /\ past[now].archive # None
  /\ Goto(h, "apply_owner")
  /\ UNCHANGED <<server, crashes, cluster, store, effect, receipts, intents>>

ApplySource(h) ==
  /\ At(h, "apply_source")
  /\ past[now].archive = call[h].copies
  /\ Goto(h, "apply_owner")
  /\ UNCHANGED <<server, crashes, cluster, store, effect, receipts, intents>>

\* An apply that authorizes the owner as the planner was authorized.
ApplyOwnerAsPlanned(h) ==
  LET planner == store[call[h].id].owner IN
  /\ At(h, "apply_owner")
  /\ OwnerAuthorized(planner, planner, call[h].copies)
  /\ call' = [call EXCEPT ![h] = [@ EXCEPT !.at = "apply_vacancy", !.floor = now]]
  /\ UNCHANGED <<server, crashes, cluster, store, effect, receipts, intents>>

ApplyOwner(h) ==
  /\ At(h, "apply_owner")
  /\ OwnerAuthorized(call[h].by, call[h].by, call[h].copies)
  /\ call' = [call EXCEPT ![h] = [@ EXCEPT !.at = "apply_vacancy", !.floor = now]]
  /\ UNCHANGED <<server, crashes, cluster, store, effect, receipts, intents>>

\* A vacancy check answered from a snapshot cached before the apply began.
ApplyVacancyCached(h) ==
  /\ At(h, "apply_vacancy")
  /\ Vacant(0)
  /\ call[h].seen = "Approved"
  /\ call' = [call EXCEPT ![h] = [@ EXCEPT !.at = "claim", !.seen = "none",
                                          !.floor = 0]]
  /\ UNCHANGED <<server, crashes, cluster, store, effect, receipts, intents>>

\* The fingerprint compared after it is a constant of the target.
ApplyVacancy(h) ==
  /\ At(h, "apply_vacancy")
  /\ Vacant(call[h].floor)
  /\ call[h].seen = "Approved"
  /\ call' = [call EXCEPT ![h] = [@ EXCEPT !.at = "claim", !.seen = "none",
                                          !.floor = 0]]
  /\ UNCHANGED <<server, crashes, cluster, store, effect, receipts, intents>>

\* A claim decided on the state the apply read at its start, which was Approved.
ClaimAsSeen(h) ==
  LET i == call[h].id IN
  /\ At(h, "claim")
  /\ store' = [store EXCEPT ![i] = [@ EXCEPT !.state = "Applying"]]
  /\ Goto(h, IF HasEvidence THEN "intent" ELSE "dispatch")
  /\ UNCHANGED <<server, crashes, cluster, effect, receipts, intents>>

\* claim_change_set_for_apply: read and write under one lock.
Claim(h) ==
  LET i == call[h].id IN
  /\ At(h, "claim")
  /\ InState(i, "Approved")
  /\ store' = [store EXCEPT ![i] = [@ EXCEPT !.state = "Applying"]]
  /\ Goto(h, IF HasEvidence THEN "intent" ELSE "dispatch")
  /\ UNCHANGED <<server, crashes, cluster, effect, receipts, intents>>

-----------------------------------------------------------------------------
\* apply_restore_new_vmid with the claim: evidence, request, task, outcome.

Intent(h) ==
  LET i == call[h].id IN
  /\ At(h, "intent")
  /\ intents' = intents \cup {i}
  /\ Goto(h, "dispatch")
  /\ UNCHANGED <<server, crashes, cluster, store, effect, receipts>>

\* The intent cannot be persisted: the change set is settled as Failed, or, if that
\* cannot be written either, stays claimed.
IntentFails(h) ==
  LET i == call[h].id IN
  /\ At(h, "intent")
  /\ "evidence" \in Faults
  /\ \/ store' = [store EXCEPT ![i] = [@ EXCEPT !.state = "Failed"]]
     \/ "store" \in Faults /\ UNCHANGED store
  /\ Return(h)
  /\ UNCHANGED <<server, crashes, cluster, effect, receipts, intents>>

\* With the outcome known, the receipt (if there is a recorder) and the record.
Conclude(h, outcome) ==
  call' = [call EXCEPT ![h] = [@ EXCEPT !.at = IF HasEvidence THEN "receipt" ELSE "settle",
                                        !.outcome = outcome, !.began = 0]]

\* With force=1, Proxmox restores over whatever is there.
AcceptsForced(c) == c.archive # None

\* restore_backup with force=0: Proxmox refuses a VMID that is taken, atomically.
Accepts(c) == c.target = "free" /\ c.archive # None

\* Proxmox restores change set i to the target, by a task or at once.
Restores(i, e) ==
  /\ Accepts(past[now])
  /\ Becomes([past[now] EXCEPT !.target = i])
  /\ effect' = [effect EXCEPT ![i] = e]
  /\ UNCHANGED edits

DispatchAccepted(h) ==
  /\ At(h, "dispatch")
  /\ Restores(call[h].id, "running")
  /\ call' = [call EXCEPT ![h] = [@ EXCEPT !.at = "persist", !.began = 0]]
  /\ UNCHANGED <<server, crashes, store, receipts, intents>>

\* An answer without a UPID is taken for a restore that is done.
DispatchSynchronous(h) ==
  /\ At(h, "dispatch")
  /\ Restores(call[h].id, "ok")
  /\ Conclude(h, "ok")
  /\ UNCHANGED <<server, crashes, store, receipts, intents>>

\* A definitive refusal: Api, Unauthorized, Denied or NotFound.
DispatchRefused(h) ==
  /\ At(h, "dispatch")
  /\ Conclude(h, "failed")
  /\ UNCHANGED <<server, crashes, cluster, store, effect, receipts, intents>>

\* A lost-request handler that treats every error as a refusal.
LostIsRefused(h) ==
  /\ At(h, "dispatch")
  /\ "request" \in Faults
  /\ Restores(call[h].id, "running") \/ UNCHANGED <<cluster, effect>>
  /\ Conclude(h, "failed")
  /\ UNCHANGED <<server, crashes, store, receipts, intents>>

\* The request or its answer is lost, or its UPID does not parse: the record stays
\* claimed, and nothing says how it ended.
DispatchLost(h) ==
  /\ At(h, "dispatch")
  /\ "request" \in Faults
  /\ Restores(call[h].id, "running") \/ UNCHANGED <<cluster, effect>>
  /\ Return(h)
  /\ UNCHANGED <<server, crashes, store, receipts, intents>>

PersistHandle(h) ==
  LET i == call[h].id IN
  /\ At(h, "persist")
  /\ \/ store' = [store EXCEPT ![i] = [@ EXCEPT !.handle = "upid"]]
     \/ "store" \in Faults /\ UNCHANGED store
  /\ Goto(h, "poll")
  /\ UNCHANGED <<server, crashes, cluster, effect, receipts, intents>>

\* A poll that takes the first status for the last.
PollOnce(h) ==
  LET i == call[h].id IN
  /\ At(h, "poll")
  /\ Conclude(h, effect[i])
  /\ UNCHANGED <<server, crashes, cluster, store, effect, receipts, intents>>

Poll(h) ==
  LET i == call[h].id IN
  /\ At(h, "poll")
  /\ effect[i] \in Outcomes
  /\ Conclude(h, effect[i])
  /\ UNCHANGED <<server, crashes, cluster, store, effect, receipts, intents>>

\* The deadline passes, or a status request fails: the record stays claimed.
PollFails(h) ==
  /\ At(h, "poll")
  /\ "poll" \in Faults
  /\ Return(h)
  /\ UNCHANGED <<server, crashes, cluster, store, effect, receipts, intents>>

\* result_receipt; a failure to persist it is only logged.
Receipt(h) ==
  LET i == call[h].id IN
  /\ At(h, "receipt")
  /\ \/ receipts' = [receipts EXCEPT ![i] = @ \cup {call[h].outcome}]
     \/ "evidence" \in Faults /\ UNCHANGED receipts
  /\ Goto(h, "settle")
  /\ UNCHANGED <<server, crashes, cluster, store, effect, intents>>

Settled(r, outcome) ==
  [r EXCEPT !.state = IF outcome = "ok" THEN "Applied" ELSE "Failed", !.handle = "none"]

\* update_change_set with the outcome; a failure is only logged.
Settle(h) ==
  LET i == call[h].id IN
  /\ At(h, "settle")
  /\ \/ store' = [store EXCEPT ![i] = Settled(@, call[h].outcome)]
     \/ "store" \in Faults /\ UNCHANGED store
  /\ Return(h)
  /\ UNCHANGED <<server, crashes, cluster, effect, receipts, intents>>

-----------------------------------------------------------------------------
(***************************************************************************)
(* The world.  Others create a guest on the target or destroy it, protect, *)
(* open or destroy an owner, rewrite or delete the archive.                *)
(***************************************************************************)
Edited(c) ==
  LET retarget == CASE c.target = "free"    -> {"foreign"}
                    [] c.target = "foreign" -> {"free"}
                    [] OTHER                -> {}
  IN {[c EXCEPT !.target = t] : t \in retarget}
     \cup {[c EXCEPT !.archive = a] : a \in (Owners \cup {None}) \ {c.archive}}
     \cup UNION {{[c EXCEPT !.status = [@ EXCEPT ![o] = s]] : s \in Lives[o]} : o \in Owners}

Edit ==
  /\ edits < Horizon
  /\ edits' = edits + 1
  /\ \E c \in Edited(past[now]) \ {past[now]} : Becomes(c)
  /\ UNCHANGED <<server, crashes, store, call, effect, receipts, intents>>

\* A restore task ends; one that fails leaves its guest, or gives the VMID back.
TaskEnds(i) ==
  /\ effect[i] = "running"
  /\ \/ effect' = [effect EXCEPT ![i] = "ok"] /\ UNCHANGED <<now, past>>
     \/ effect' = [effect EXCEPT ![i] = "failed"] /\ UNCHANGED <<now, past>>
     \/ /\ effect' = [effect EXCEPT ![i] = "failed"]
        /\ Becomes([past[now] EXCEPT !.target = "free"])
  /\ UNCHANGED <<server, crashes, edits, store, call, receipts, intents>>

Crash ==
  /\ server = "serving"
  /\ crashes < MaxCrashes
  /\ crashes' = crashes + 1
  /\ server' = "down"
  /\ call' = [h \in Handlers |-> NoCall]
  /\ UNCHANGED <<cluster, store, effect, receipts, intents>>

-----------------------------------------------------------------------------
\* Startup: recover_in_flight, as ChangeSet has it step by step; here one record a step.

Restart ==
  /\ server = "down"
  /\ server' = "recovering"
  /\ UNCHANGED <<crashes, cluster, store, call, effect, receipts, intents>>

\* A recovery that takes a task that is not running for one that succeeded.
RecoverOptimist(i) ==
  /\ server = "recovering"
  /\ InState(i, "Applying")
  /\ store[i].handle = "upid"
  /\ effect[i] # "running"
  /\ receipts' = IF HasEvidence THEN [receipts EXCEPT ![i] = @ \cup {"ok"}] ELSE receipts
  /\ store' = [store EXCEPT ![i] = Settled(@, "ok")]
  /\ UNCHANGED <<server, crashes, cluster, call, effect, intents>>

\* A record whose task has ended gets its receipt and its outcome.
RecoverSettle(i) ==
  /\ server = "recovering"
  /\ InState(i, "Applying")
  /\ store[i].handle = "upid"
  /\ effect[i] \in Outcomes
  /\ receipts' = IF HasEvidence THEN [receipts EXCEPT ![i] = @ \cup {effect[i]}] ELSE receipts
  /\ store' = [store EXCEPT ![i] = Settled(@, effect[i])]
  /\ UNCHANGED <<server, crashes, cluster, call, effect, intents>>

\* Whatever is left (a task still running, an unreadable status, no handle) stays claimed.
Serve ==
  /\ server = "recovering"
  /\ server' = "serving"
  /\ UNCHANGED <<crashes, cluster, store, call, effect, receipts, intents>>

-----------------------------------------------------------------------------
Init ==
  /\ server = "serving"
  /\ crashes = 0
  /\ now = 0
  /\ edits = 0
  /\ \E o \in Owners, s \in [Owners -> Statuses] :
       /\ \A q \in Owners : s[q] \in Lives[q]
       /\ past = [v \in Versions |-> [archive |-> o, target |-> "free", status |-> s]]
  /\ store = [i \in Ids |-> None]
  /\ call = [h \in Handlers |-> NoCall]
  /\ effect = [i \in Ids |-> "none"]
  /\ receipts = [i \in Ids |-> {}]
  /\ intents = {}

Start(h) == PlanStart(h) \/ ApproveStart(h) \/ ApplyStart(h)

Step(h) ==
  \/ Refuse(h)
  \/ PlanOwner(h)
  \/ PlanVacancy(h)
  \/ PlanCreate(h)
  \/ PlanPreview(h)
  \/ Approve(h)
  \/ ApplySource(h)
  \/ ApplyOwner(h)
  \/ ApplyVacancy(h)
  \/ Claim(h)
  \/ Intent(h)
  \/ IntentFails(h)
  \/ DispatchAccepted(h)
  \/ DispatchSynchronous(h)
  \/ DispatchRefused(h)
  \/ DispatchLost(h)
  \/ PersistHandle(h)
  \/ Poll(h)
  \/ PollFails(h)
  \/ Receipt(h)
  \/ Settle(h)

Next ==
  \/ \E h \in Handlers : Start(h) \/ Step(h)
  \/ \E i \in Ids : TaskEnds(i) \/ RecoverSettle(i)
  \/ Edit
  \/ Crash
  \/ Restart
  \/ Serve

Spec == Init /\ [][Next]_vars

-----------------------------------------------------------------------------
(***************************************************************************)
(* What force=0 is for (server/mod.rs:7283-7286): whatever happens between *)
(* the vacancy check, the claim and the request, no guest that holds the   *)
(* target VMID is ever replaced by a restore; it goes only by being        *)
(* destroyed, or by its own restore failing.                               *)
(***************************************************************************)
NeverOverwrites ==
  [][past[now].target # "free"
       => past'[now'].target \in {past[now].target, "free"}]_vars

(***************************************************************************)
(* The drift check of an operation without a guest to fingerprint          *)
(* (server/mod.rs:7106-7116): an apply sends nothing unless the VMID was   *)
(* vacant, and the archive still the planned owner's, at some moment since *)
(* that very apply began; what plan saw does not count.                    *)
(***************************************************************************)
DriftCheckedByApply ==
  \A h \in Handlers :
    call[h].at \in {"claim", "intent", "dispatch"}
      => /\ \E v \in call[h].began .. now : past[v].target = "free"
         /\ \E v \in call[h].began .. now : past[v].archive = store[call[h].id].copies

(***************************************************************************)
(* Who copies a guest's disks may read that guest (server/mod.rs:7056-7062 *)
(* and 2666-2680): the principal whose apply sends the restore is himself  *)
(* admitted to the archive's owner, by a waiver bound to him if it takes   *)
(* one.  That the planner and the approver were is not enough.             *)
(***************************************************************************)
CopierMayRead ==
  \A h \in Handlers :
    call[h].at \in {"claim"} \cup ClaimSteps
      => OwnerAuthorized(call[h].by, call[h].by, store[call[h].id].copies)

(***************************************************************************)
(* Lab mode waives no approval here: whatever has reached the target was   *)
(* previewed and approved by a human who did not plan it.                  *)
(***************************************************************************)
SecondPersonAlways ==
  \A i \in Ids :
    effect[i] # "none" =>
      /\ store[i].preview = "stored"
      /\ store[i].approver \in Humans \ {store[i].owner}

\* What may be said of an effect, now and for good.
Truthful(i, outcome) ==
  IF outcome = "ok" THEN effect[i] = "ok" ELSE effect[i] \in {"none", "failed"}

(***************************************************************************)
(* Receipts tell what happened, even when two of them are written for one  *)
(* change set: by an apply that crashed before settling, then by recovery. *)
(***************************************************************************)
ReceiptsTruthful == \A i \in Ids : \A o \in receipts[i] : Truthful(i, o)

\* How many steps a call may still take, by where it stands.
StepsLeft == [plan_owner |-> 4, plan_vacancy |-> 3, plan_create |-> 2, plan_preview |-> 1,
              approve |-> 1, apply_source |-> 10, apply_owner |-> 9, apply_vacancy |-> 8,
              claim |-> 7, intent |-> 6, dispatch |-> 5, persist |-> 4, poll |-> 3,
              receipt |-> 2, settle |-> 1, idle |-> 0]

Left(h) == StepsLeft[call[h].at]

(***************************************************************************)
(* No call retries: each of its steps leaves it fewer to take, and nothing *)
(* that others do to the storage, the guests or the records gives it more. *)
(***************************************************************************)
CallsRunDown ==
  [][\A h \in Handlers : call[h].at # "idle" =>
       /\ Step(h) => Left(h)' < Left(h)
       /\ Left(h)' <= Left(h)]_vars

(***************************************************************************)
(* A restore's approval buys one attempt, and its record is settled by     *)
(* what the cluster did, as for any other destructive change set.          *)
(***************************************************************************)
phaseOf == [i \in Ids |-> IF store[i] = None THEN "unplanned" ELSE store[i].state]

Single == INSTANCE SingleUse WITH phase <- phaseOf

ImplementsSingleUse == Single!Spec
=============================================================================
