----------------------------- MODULE ChangeSet ------------------------------
(***************************************************************************)
(* The life of a destructive change set of one guest: the handlers         *)
(* plan_destroy, approve_change_set and apply_change_set, the coordinator  *)
(* they share, the Proxmox task an apply starts, the evidence chain, and   *)
(* recover_in_flight at startup (server/mod.rs).                           *)
(*                                                                         *)
(* A tool call in progress is a process of Handlers; its steps are the     *)
(* awaits of its handler, where other calls, the guest, the cluster and a  *)
(* crash can come in between.  What /cluster/resources and the config say  *)
(* of the guest is a version number each, that grows when it changes; the  *)
(* guest index is the one FreshReads describes: an acting call is answered *)
(* from a state no older than its own invalidation.                        *)
(***************************************************************************)
EXTENDS Naturals

CONSTANTS
  Handlers,     \* tool calls that may be in progress together
  Ids,          \* change sets
  Principals,   \* token names
  Humans,       \* the principals whose tokens belong to people
  Waived,       \* the principals a current waiver for the guest matches
  LabMode,      \* --lab-mode
  HasEvidence,  \* an evidence recorder is attached
  ProtectedAt,  \* the facts versions at which the guest carries a protected tag
  Horizon,      \* bound: changes of the guest's facts, and of its config
  MaxCrashes,   \* bound: crashes of the server
  Faults,       \* what may fail: a subset of FaultKinds
  None          \* no record, no principal, no change set

Versions   == 0 .. Horizon
FaultKinds == {"resolve", "store", "evidence", "request", "poll", "probe"}
States     == {"Planned", "Approved", "Applying", "Applied", "Failed"}
Outcomes   == {"ok", "failed"}
Overrides  == {"none", "waiver", "lab"}

\* approval: "second" when another principal approved it, "waived" by lab mode;
\* claim: what the claim promised of a task handle (ApplyHandle); handle: task_id.
Records == [state : States, preview : {"missing", "stored"},
            owner : Principals, approver : Principals \cup {None},
            approval : {"none", "second", "waived"},
            facts : Versions, config : Versions,
            claim : {"None", "Expected"}, handle : {"none", "upid"}]

ASSUME HumansAssumption    == Humans \subseteq Principals
ASSUME BoundAssumption     == Horizon \in Nat /\ MaxCrashes \in Nat
ASSUME FlagAssumption      == LabMode \in BOOLEAN /\ HasEvidence \in BOOLEAN
ASSUME FaultsAssumption    == Faults \subseteq FaultKinds
ASSUME NoneAssumption      == None \notin Records \cup Principals \cup Ids

VARIABLES
  server,    \* "down", "recovering" or "serving"
  crashes,   \* crashes so far
  guest,     \* the guest now: a version of its facts and one of its config
  store,     \* store[i]: the coordinator's record of change set i, on disk
  call,      \* call[h]: where handler h stands, and its locals
  effect,    \* effect[i]: what Proxmox has done for change set i
  sent,      \* history: how many requests for i Proxmox has acted on
  intents,   \* intents[i]: apply-intent records in the evidence chain
  receipts,  \* receipts[i]: the outcomes that result receipts state
  recovery   \* recover_in_flight: records still to visit, and the one in hand

vars == <<server, crashes, guest, store, call, effect, sent, intents, receipts, recovery>>

\* The steps of a handler after its first; the last five need the claim.
PlanSteps  == {"plan_authorize", "plan_config", "plan_create", "plan_preview", "plan_waive"}
CheckSteps == {"approve", "apply_authorize", "apply_config", "claim"}
ClaimSteps == {"intent", "dispatch", "persist", "poll", "receipt", "settle"}

\* seen: the state in the record an apply read at its start; floorFacts and floorConfig:
\* history, the guest when that apply invalidated the index.
Calls == [at : {"idle"} \cup PlanSteps \cup CheckSteps \cup ClaimSteps,
          id : Ids \cup {None}, by : Principals \cup {None},
          override : Overrides, seen : States \cup {"none"},
          facts : Versions, config : Versions,
          floorFacts : Versions, floorConfig : Versions, outcome : Outcomes]

Recoveries == [todo : SUBSET Ids, id : Ids \cup {None},
               at : {"probe", "receipt", "settle"}, outcome : Outcomes]

TypeOK ==
  /\ server \in {"down", "recovering", "serving"}
  /\ crashes \in 0 .. MaxCrashes
  /\ guest \in [facts : Versions, config : Versions]
  /\ store \in [Ids -> Records \cup {None}]
  /\ call \in [Handlers -> Calls]
  /\ effect \in [Ids -> {"none", "running"} \cup Outcomes]
  /\ sent \in [Ids -> Nat]
  /\ intents \in [Ids -> Nat]
  /\ receipts \in [Ids -> SUBSET Outcomes]
  /\ recovery \in Recoveries

NoCall == [at |-> "idle", id |-> None, by |-> None, override |-> "none", seen |-> "none",
           facts |-> 0, config |-> 0, floorFacts |-> 0, floorConfig |-> 0,
           outcome |-> "failed"]

NoRecovery == [todo |-> {}, id |-> None, at |-> "probe", outcome |-> "failed"]

InState(i, s) == store[i] # None /\ store[i].state = s

-----------------------------------------------------------------------------
\* Steps of a handler: h is at step s; it goes on to another, or returns.

At(h, s) == server = "serving" /\ call[h].at = s

Goto(h, s) == call' = [call EXCEPT ![h] = [@ EXCEPT !.at = s]]

Return(h) == call' = [call EXCEPT ![h] = NoCall]

\* protect.rs destructive_allowed, for a guest that is protected or not.
Override(protected, by) ==
  IF ~protected THEN "none"
  ELSE IF by \in Waived THEN "waiver"
  ELSE IF LabMode THEN "lab" ELSE "none"

\* The first resolve of a handler: it reads version v, or it fails and the guest
\* counts as protected.
OverrideAt(v, by) ==
  {Override(v \in ProtectedAt, by)} \cup
    IF "resolve" \in Faults THEN {Override(TRUE, by)} ELSE {}

\* The first resolve, which gives the override o to principal by, and then
\* GuestIndex::authorize, which admits the guest at version v: the index may answer
\* each of them from any version the guest has had since version floor.
Admitted(by, floor, o, v) ==
  /\ \E first \in floor .. guest.facts : o \in OverrideAt(first, by)
  /\ v \in floor .. guest.facts
  /\ v \in ProtectedAt => o # "none"

\* A handler that has claimed nothing returns with an error: out of scope, an
\* operation it may not name, a precondition, an unreadable guest, a lost claim, or a
\* coordinator that refuses (an approval past its TTL, a full or unwritable store).
Refuse(h) ==
  /\ server = "serving"
  /\ call[h].at \in PlanSteps \cup CheckSteps
  /\ Return(h)
  /\ UNCHANGED <<server, crashes, guest, store, effect, sent, intents, receipts, recovery>>

-----------------------------------------------------------------------------
(***************************************************************************)
(* plan_destroy: invalidate the index, resolve and authorize, read the     *)
(* config and fingerprint, create the record, store its preview, and in    *)
(* lab mode waive the approval.                                            *)
(***************************************************************************)
PlanStart(h) ==
  /\ At(h, "idle")
  /\ \E by \in Principals :
       call' = [call EXCEPT ![h] = [NoCall EXCEPT !.at = "plan_authorize", !.by = by,
                                                  !.floorFacts = guest.facts]]
  /\ UNCHANGED <<server, crashes, guest, store, effect, sent, intents, receipts, recovery>>

PlanAuthorize(h) ==
  /\ At(h, "plan_authorize")
  /\ \E o \in Overrides, v \in Versions :
       /\ Admitted(call[h].by, call[h].floorFacts, o, v)
       /\ call' = [call EXCEPT ![h] = [@ EXCEPT !.at = "plan_config", !.override = o,
                                                !.facts = v]]
  /\ UNCHANGED <<server, crashes, guest, store, effect, sent, intents, receipts, recovery>>

PlanConfig(h) ==
  /\ At(h, "plan_config")
  /\ call' = [call EXCEPT ![h] = [@ EXCEPT !.at = "plan_create", !.config = guest.config]]
  /\ UNCHANGED <<server, crashes, guest, store, effect, sent, intents, receipts, recovery>>

\* The coordinator blocks a new plan while a claim is held on the same guest.
PlanCreate(h) ==
  /\ At(h, "plan_create")
  /\ \A i \in Ids : ~InState(i, "Applying")
  /\ \E i \in Ids :
       /\ store[i] = None
       /\ store' = [store EXCEPT ![i] =
            [state |-> "Planned", preview |-> "missing", owner |-> call[h].by,
             approver |-> None, approval |-> "none", facts |-> call[h].facts,
             config |-> call[h].config, claim |-> "None", handle |-> "none"]]
       /\ call' = [call EXCEPT ![h] = [@ EXCEPT !.at = "plan_preview", !.id = i]]
  /\ UNCHANGED <<server, crashes, guest, effect, sent, intents, receipts, recovery>>

\* A store that cannot be written is a Refuse: the record stays without a preview.
PlanPreview(h) ==
  LET i == call[h].id IN
  /\ At(h, "plan_preview")
  /\ store' = [store EXCEPT ![i] = [@ EXCEPT !.preview = "stored"]]
  /\ IF call[h].override = "lab" THEN Goto(h, "plan_waive") ELSE Return(h)
  /\ UNCHANGED <<server, crashes, guest, effect, sent, intents, receipts, recovery>>

\* coordinator.waive_approval
PlanWaive(h) ==
  LET i == call[h].id IN
  /\ At(h, "plan_waive")
  /\ InState(i, "Planned")
  /\ store' = [store EXCEPT ![i] = [@ EXCEPT !.state = "Approved", !.approval = "waived"]]
  /\ Return(h)
  /\ UNCHANGED <<server, crashes, guest, effect, sent, intents, receipts, recovery>>

-----------------------------------------------------------------------------
(***************************************************************************)
(* approve_change_set: read the record, resolve and authorize for the      *)
(* approver with the owner's override (from the cache: any version since   *)
(* the beginning), then the coordinator's decision, under its lock.        *)
(***************************************************************************)
ApproveStart(h) ==
  /\ At(h, "idle")
  /\ \E i \in Ids, by \in Principals, o \in Overrides, v \in Versions :
       /\ store[i] # None
       /\ store[i].preview = "stored"
       /\ Admitted(store[i].owner, 0, o, v)
       /\ call' = [call EXCEPT ![h] = [NoCall EXCEPT !.at = "approve", !.id = i, !.by = by]]
  /\ UNCHANGED <<server, crashes, guest, store, effect, sent, intents, receipts, recovery>>

\* A decision that forgets to compare the approver with the owner.
ApproveByAnyone(h) ==
  LET i == call[h].id IN
  /\ At(h, "approve")
  /\ InState(i, "Planned")
  /\ call[h].by \in Humans
  /\ store' = [store EXCEPT ![i] = [@ EXCEPT !.state = "Approved", !.approval = "second",
                                             !.approver = call[h].by]]
  /\ Return(h)
  /\ UNCHANGED <<server, crashes, guest, effect, sent, intents, receipts, recovery>>

Approve(h) ==
  LET i == call[h].id IN
  /\ At(h, "approve")
  /\ InState(i, "Planned")
  /\ call[h].by \in Humans
  /\ call[h].by # store[i].owner
  /\ store' = [store EXCEPT ![i] = [@ EXCEPT !.state = "Approved", !.approval = "second",
                                             !.approver = call[h].by]]
  /\ Return(h)
  /\ UNCHANGED <<server, crashes, guest, effect, sent, intents, receipts, recovery>>

-----------------------------------------------------------------------------
(***************************************************************************)
(* apply_change_set, up to the claim: read the record and invalidate the   *)
(* index, resolve and authorize, read the config, compare the fingerprint  *)
(* and then the state the record had when it was read.                     *)
(***************************************************************************)
ApplyStart(h) ==
  /\ At(h, "idle")
  /\ \E i \in Ids, by \in Principals :
       /\ store[i] # None
       /\ store[i].preview = "stored"
       /\ call' = [call EXCEPT ![h] =
            [NoCall EXCEPT !.at = "apply_authorize", !.id = i, !.by = by,
                           !.seen = store[i].state, !.floorFacts = guest.facts,
                           !.floorConfig = guest.config]]
  /\ UNCHANGED <<server, crashes, guest, store, effect, sent, intents, receipts, recovery>>

\* An apply answered from a snapshot cached before it began.
ApplyAuthorizeCached(h) ==
  /\ At(h, "apply_authorize")
  /\ \E o \in Overrides, v \in Versions :
       /\ Admitted(call[h].by, 0, o, v)
       /\ call' = [call EXCEPT ![h] = [@ EXCEPT !.at = "apply_config", !.facts = v]]
  /\ UNCHANGED <<server, crashes, guest, store, effect, sent, intents, receipts, recovery>>

ApplyAuthorize(h) ==
  /\ At(h, "apply_authorize")
  /\ \E o \in Overrides, v \in Versions :
       /\ Admitted(call[h].by, call[h].floorFacts, o, v)
       /\ call' = [call EXCEPT ![h] = [@ EXCEPT !.at = "apply_config", !.facts = v]]
  /\ UNCHANGED <<server, crashes, guest, store, effect, sent, intents, receipts, recovery>>

\* The record compared with is the one read at the start; what it says of the guest
\* never changes, so the stored one stands for it.
ApplyConfig(h) ==
  LET i == call[h].id IN
  /\ At(h, "apply_config")
  /\ store[i].facts = call[h].facts
  /\ store[i].config = guest.config
  /\ call[h].seen = "Approved"
  /\ Goto(h, "claim")
  /\ UNCHANGED <<server, crashes, guest, store, effect, sent, intents, receipts, recovery>>

\* A claim decided on the state the apply read at its start.
ClaimAsSeen(h) ==
  LET i == call[h].id IN
  /\ At(h, "claim")
  /\ call[h].seen = "Approved"
  /\ store' = [store EXCEPT ![i] = [@ EXCEPT !.state = "Applying", !.claim = "None"]]
  /\ Goto(h, IF HasEvidence THEN "intent" ELSE "dispatch")
  /\ UNCHANGED <<server, crashes, guest, effect, sent, intents, receipts, recovery>>

\* A claim that promises a task handle.
ClaimExpected(h) ==
  LET i == call[h].id IN
  /\ At(h, "claim")
  /\ InState(i, "Approved")
  /\ store' = [store EXCEPT ![i] = [@ EXCEPT !.state = "Applying", !.claim = "Expected"]]
  /\ Goto(h, IF HasEvidence THEN "intent" ELSE "dispatch")
  /\ UNCHANGED <<server, crashes, guest, effect, sent, intents, receipts, recovery>>

\* claim_change_set_for_apply: read and write under one lock.
Claim(h) ==
  LET i == call[h].id IN
  /\ At(h, "claim")
  /\ InState(i, "Approved")
  /\ store' = [store EXCEPT ![i] = [@ EXCEPT !.state = "Applying", !.claim = "None"]]
  /\ Goto(h, IF HasEvidence THEN "intent" ELSE "dispatch")
  /\ UNCHANGED <<server, crashes, guest, effect, sent, intents, receipts, recovery>>

-----------------------------------------------------------------------------
\* apply_change_set with the claim: evidence, request, task, outcome.

Intent(h) ==
  LET i == call[h].id IN
  /\ At(h, "intent")
  /\ intents' = [intents EXCEPT ![i] = @ + 1]
  /\ Goto(h, "dispatch")
  /\ UNCHANGED <<server, crashes, guest, store, effect, sent, receipts, recovery>>

\* An intent that cannot be persisted is logged, like a receipt.
IntentLogged(h) ==
  /\ At(h, "intent")
  /\ "evidence" \in Faults
  /\ Goto(h, "dispatch")
  /\ UNCHANGED <<server, crashes, guest, store, effect, sent, intents, receipts, recovery>>

\* The intent cannot be persisted: nothing is sent, and the record is settled if the
\* store can be written.
IntentFails(h) ==
  LET i == call[h].id IN
  /\ At(h, "intent")
  /\ "evidence" \in Faults
  /\ \/ store' = [store EXCEPT ![i] = [@ EXCEPT !.state = "Failed"]]
     \/ "store" \in Faults /\ UNCHANGED store
  /\ Return(h)
  /\ UNCHANGED <<server, crashes, guest, effect, sent, intents, receipts, recovery>>

\* A definitive outcome is written to the evidence chain first, when there is one.
Conclude(h, outcome) ==
  call' = [call EXCEPT ![h] = [NoCall EXCEPT
             !.at = IF HasEvidence THEN "receipt" ELSE "settle",
             !.id = call[h].id, !.outcome = outcome]]

\* execute_destructive: Proxmox accepts, and answers with a UPID.
DispatchAccepted(h) ==
  LET i == call[h].id IN
  /\ At(h, "dispatch")
  /\ effect' = [effect EXCEPT ![i] = "running"]
  /\ sent' = [sent EXCEPT ![i] = @ + 1]
  /\ call' = [call EXCEPT ![h] = [NoCall EXCEPT !.at = "persist", !.id = i]]
  /\ UNCHANGED <<server, crashes, guest, store, intents, receipts, recovery>>

\* Proxmox has done it already and answers with no UPID.
DispatchSynchronous(h) ==
  LET i == call[h].id IN
  /\ At(h, "dispatch")
  /\ effect' = [effect EXCEPT ![i] = "ok"]
  /\ sent' = [sent EXCEPT ![i] = @ + 1]
  /\ Conclude(h, "ok")
  /\ UNCHANGED <<server, crashes, guest, store, intents, receipts, recovery>>

\* A definitive refusal: Api, Unauthorized, Denied or NotFound.
DispatchRefused(h) ==
  /\ At(h, "dispatch")
  /\ Conclude(h, "failed")
  /\ UNCHANGED <<server, crashes, guest, store, effect, sent, intents, receipts, recovery>>

\* A lost-request handler that treats every error as a refusal.
LostIsRefused(h) ==
  LET i == call[h].id IN
  /\ At(h, "dispatch")
  /\ "request" \in Faults
  /\ \/ /\ effect' = [effect EXCEPT ![i] = "running"]
        /\ sent' = [sent EXCEPT ![i] = @ + 1]
     \/ UNCHANGED <<effect, sent>>
  /\ Conclude(h, "failed")
  /\ UNCHANGED <<server, crashes, guest, store, intents, receipts, recovery>>

\* The request or its answer is lost, or the answer or its UPID does not parse: Proxmox
\* may have accepted it or not, the record stays claimed, and nothing says how it ended.
DispatchLost(h) ==
  LET i == call[h].id IN
  /\ At(h, "dispatch")
  /\ "request" \in Faults
  /\ \/ /\ effect' = [effect EXCEPT ![i] = "running"]
        /\ sent' = [sent EXCEPT ![i] = @ + 1]
     \/ UNCHANGED <<effect, sent>>
  /\ Return(h)
  /\ UNCHANGED <<server, crashes, guest, store, intents, receipts, recovery>>

\* The UPID goes to disk before the first poll; a failure to write it is only logged.
PersistHandle(h) ==
  LET i == call[h].id IN
  /\ At(h, "persist")
  /\ \/ store' = [store EXCEPT ![i] = [@ EXCEPT !.handle = "upid"]]
     \/ "store" \in Faults /\ UNCHANGED store
  /\ Goto(h, "poll")
  /\ UNCHANGED <<server, crashes, guest, effect, sent, intents, receipts, recovery>>

\* A poll that does not wait for the task to stop.
PollOnce(h) ==
  LET i == call[h].id IN
  /\ At(h, "poll")
  /\ Conclude(h, effect[i])
  /\ UNCHANGED <<server, crashes, guest, store, effect, sent, intents, receipts, recovery>>

\* poll_proxmox_task sees the exit status.
Poll(h) ==
  LET i == call[h].id IN
  /\ At(h, "poll")
  /\ effect[i] \in Outcomes
  /\ Conclude(h, effect[i])
  /\ UNCHANGED <<server, crashes, guest, store, effect, sent, intents, receipts, recovery>>

\* A poll without a deadline: it fails only once the task is over.
PollForever(h) ==
  /\ At(h, "poll")
  /\ "poll" \in Faults
  /\ effect[call[h].id] \in Outcomes
  /\ Return(h)
  /\ UNCHANGED <<server, crashes, guest, store, effect, sent, intents, receipts, recovery>>

\* Its deadline passes, or a status request fails: the record stays claimed.
PollFails(h) ==
  /\ At(h, "poll")
  /\ "poll" \in Faults
  /\ Return(h)
  /\ UNCHANGED <<server, crashes, guest, store, effect, sent, intents, receipts, recovery>>

\* result_receipt; a failure to persist it is only logged.
Receipt(h) ==
  LET i == call[h].id IN
  /\ At(h, "receipt")
  /\ \/ receipts' = [receipts EXCEPT ![i] = @ \cup {call[h].outcome}]
     \/ "evidence" \in Faults /\ UNCHANGED receipts
  /\ Goto(h, "settle")
  /\ UNCHANGED <<server, crashes, guest, store, effect, sent, intents, recovery>>

\* Settling that leaves the task handle in the record.
SettledKeepingHandle(r, outcome) ==
  [r EXCEPT !.state = IF outcome = "ok" THEN "Applied" ELSE "Failed"]

\* A settled record: its outcome, and no handle left to re-probe.
Settled(r, outcome) ==
  [r EXCEPT !.state = IF outcome = "ok" THEN "Applied" ELSE "Failed", !.handle = "none"]

\* update_change_set with the outcome; a failure is only logged.
Settle(h) ==
  LET i == call[h].id IN
  /\ At(h, "settle")
  /\ \/ store' = [store EXCEPT ![i] = Settled(@, call[h].outcome)]
     \/ "store" \in Faults /\ UNCHANGED store
  /\ Return(h)
  /\ UNCHANGED <<server, crashes, guest, effect, sent, intents, receipts, recovery>>

-----------------------------------------------------------------------------
\* The world: the guest changes, a task ends, the server crashes.

GuestChanges ==
  /\ \/ guest.facts < Horizon /\ guest' = [guest EXCEPT !.facts = @ + 1]
     \/ guest.config < Horizon /\ guest' = [guest EXCEPT !.config = @ + 1]
  /\ UNCHANGED <<server, crashes, store, call, effect, sent, intents, receipts, recovery>>

TaskEnds(i) ==
  /\ effect[i] = "running"
  /\ \E o \in Outcomes : effect' = [effect EXCEPT ![i] = o]
  /\ UNCHANGED <<server, crashes, guest, store, call, sent, intents, receipts, recovery>>

Crash ==
  /\ server # "down"
  /\ crashes < MaxCrashes
  /\ crashes' = crashes + 1
  /\ server' = "down"
  /\ call' = [h \in Handlers |-> NoCall]
  /\ recovery' = NoRecovery
  /\ UNCHANGED <<guest, store, effect, sent, intents, receipts>>

-----------------------------------------------------------------------------
(***************************************************************************)
(* Startup.  The coordinator loads its file, and settles as Failed a       *)
(* claimed record that promised a handle and has none.  recover_in_flight  *)
(* then visits the records one by one, before the server serves.           *)
(***************************************************************************)
Restart ==
  /\ server = "down"
  /\ server' = "recovering"
  /\ store' = [i \in Ids |->
       IF InState(i, "Applying") /\ store[i].claim = "Expected" /\ store[i].handle = "none"
         THEN [store[i] EXCEPT !.state = "Failed"] ELSE store[i]]
  /\ recovery' = [NoRecovery EXCEPT !.todo = {i \in Ids : store[i] # None}]
  /\ UNCHANGED <<crashes, guest, call, effect, sent, intents, receipts>>

Recovering(s) == server = "recovering" /\ recovery.at = s

\* Anything but a stopped task with an exit status leaves the record as it is.
RecoverSkip(i) ==
  /\ Recovering("probe")
  /\ i \in recovery.todo
  /\ \/ ~InState(i, "Applying")
     \/ store[i].handle = "none"
     \/ effect[i] = "running"
     \/ "probe" \in Faults
  /\ recovery' = [recovery EXCEPT !.todo = @ \ {i}]
  /\ UNCHANGED <<server, crashes, guest, store, call, effect, sent, intents, receipts>>

\* A recovery that takes a task that is not running for one that succeeded.
RecoverOptimist(i) ==
  /\ Recovering("probe")
  /\ i \in recovery.todo
  /\ InState(i, "Applying")
  /\ store[i].handle = "upid"
  /\ effect[i] # "running"
  /\ recovery' = [todo |-> recovery.todo \ {i}, id |-> i, outcome |-> "ok",
                  at |-> IF HasEvidence THEN "receipt" ELSE "settle"]
  /\ UNCHANGED <<server, crashes, guest, store, call, effect, sent, intents, receipts>>

RecoverProbe(i) ==
  /\ Recovering("probe")
  /\ i \in recovery.todo
  /\ InState(i, "Applying")
  /\ store[i].handle = "upid"
  /\ effect[i] \in Outcomes
  /\ recovery' = [todo |-> recovery.todo \ {i}, id |-> i, outcome |-> effect[i],
                  at |-> IF HasEvidence THEN "receipt" ELSE "settle"]
  /\ UNCHANGED <<server, crashes, guest, store, call, effect, sent, intents, receipts>>

RecoverReceipt ==
  LET i == recovery.id IN
  /\ Recovering("receipt")
  /\ \/ receipts' = [receipts EXCEPT ![i] = @ \cup {recovery.outcome}]
     \/ "evidence" \in Faults /\ UNCHANGED receipts
  /\ recovery' = [recovery EXCEPT !.at = "settle"]
  /\ UNCHANGED <<server, crashes, guest, store, call, effect, sent, intents>>

\* A recovery that writes the receipt and forgets the record.
RecoverForgets ==
  /\ Recovering("settle")
  /\ recovery' = [NoRecovery EXCEPT !.todo = recovery.todo]
  /\ UNCHANGED <<server, crashes, guest, store, call, effect, sent, intents, receipts>>

RecoverSettle ==
  LET i == recovery.id IN
  /\ Recovering("settle")
  /\ \/ store' = [store EXCEPT ![i] = Settled(@, recovery.outcome)]
     \/ "store" \in Faults /\ UNCHANGED store
  /\ recovery' = [NoRecovery EXCEPT !.todo = recovery.todo]
  /\ UNCHANGED <<server, crashes, guest, call, effect, sent, intents, receipts>>

Serve ==
  /\ Recovering("probe")
  /\ recovery.todo = {}
  /\ server' = "serving"
  /\ UNCHANGED <<crashes, guest, store, call, effect, sent, intents, receipts, recovery>>

-----------------------------------------------------------------------------
Init ==
  /\ server = "serving"
  /\ crashes = 0
  /\ guest = [facts |-> 0, config |-> 0]
  /\ store = [i \in Ids |-> None]
  /\ call = [h \in Handlers |-> NoCall]
  /\ effect = [i \in Ids |-> "none"]
  /\ sent = [i \in Ids |-> 0]
  /\ intents = [i \in Ids |-> 0]
  /\ receipts = [i \in Ids |-> {}]
  /\ recovery = NoRecovery

\* A call comes in.
Start(h) ==
  \/ PlanStart(h)
  \/ ApproveStart(h)
  \/ ApplyStart(h)

\* A call in progress takes its next step.
Step(h) ==
  \/ Refuse(h)
  \/ PlanAuthorize(h)
  \/ PlanConfig(h)
  \/ PlanCreate(h)
  \/ PlanPreview(h)
  \/ PlanWaive(h)
  \/ Approve(h)
  \/ ApplyAuthorize(h)
  \/ ApplyConfig(h)
  \/ Claim(h)
  \/ Intent(h)
  \/ IntentFails(h)
  \/ DispatchAccepted(h)
  \/ DispatchSynchronous(h)
  \/ DispatchRefused(h)
  \/ DispatchLost(h)
  \/ PersistHandle(h)
  \/ Poll(h)
  \/ PollFails(h)
  \/ Receipt(h)
  \/ Settle(h)

Recover ==
  \/ \E i \in Ids : RecoverSkip(i) \/ RecoverProbe(i)
  \/ RecoverReceipt
  \/ RecoverSettle
  \/ Serve

Next ==
  \/ \E h \in Handlers : Start(h) \/ Step(h)
  \/ \E i \in Ids : TaskEnds(i)
  \/ GuestChanges
  \/ Crash
  \/ Restart
  \/ Recover

Spec == Init /\ [][Next]_vars

\* Every call in progress takes its next step, and startup proceeds.  Nothing is assumed
\* of new calls, of tasks, of the guest, of crashes or of an operator's restart.
Fairness ==
  /\ \A h \in Handlers : WF_vars(Step(h))
  /\ WF_vars(Recover)

FairSpec == Spec /\ Fairness

\* And an operator, or systemd, starts a server that is down, and tasks end.
RestartedSpec == FairSpec /\ WF_vars(Restart) /\ \A i \in Ids : WF_vars(TaskEnds(i))

-----------------------------------------------------------------------------
(***************************************************************************)
(* One approval buys one attempt (server/mod.rs:5855-5862): no matter how  *)
(* many applies race, and across crashes and retries, Proxmox acts on at   *)
(* most one request of a change set, and the evidence chain holds at most  *)
(* one intent for it.                                                      *)
(***************************************************************************)
SpentOnce == \A i \in Ids : sent[i] <= 1 /\ intents[i] <= 1

(***************************************************************************)
(* Two-person control: whatever reaches the guest had its preview stored,  *)
(* and was approved by a human who did not plan it, or in lab mode was     *)
(* waived.                                                                 *)
(***************************************************************************)
TwoPersons ==
  \A i \in Ids :
    sent[i] > 0 =>
      /\ store[i].preview = "stored"
      /\ \/ store[i].approval = "second" /\ store[i].approver \in Humans \ {store[i].owner}
         \/ store[i].approval = "waived" /\ LabMode

(***************************************************************************)
(* The evidence chain (server/mod.rs:5904-5912): with a recorder attached, *)
(* nothing reaches the guest and no receipt is written before the intent.  *)
(***************************************************************************)
EvidenceFirst ==
  HasEvidence => \A i \in Ids : sent[i] > 0 \/ receipts[i] # {} => intents[i] = 1

\* What may be said of an effect, now and for good.
Truthful(i, outcome) ==
  IF outcome = "ok" THEN effect[i] = "ok" ELSE effect[i] \in {"none", "failed"}

(***************************************************************************)
(* A settled record tells what happened: Applied if Proxmox did it, Failed *)
(* if it did not and never will, in spite of lost requests and answers,    *)
(* failed writes, crashes anywhere between the request and the settlement, *)
(* and the recovery after them.                                            *)
(***************************************************************************)
SettledTruthfully ==
  \A i \in Ids : /\ InState(i, "Applied") => Truthful(i, "ok")
                 /\ InState(i, "Failed") => Truthful(i, "failed")

(***************************************************************************)
(* Every receipt tells what happened, so two receipts of one change set    *)
(* (an apply that crashed before settling, then recovery) agree.           *)
(***************************************************************************)
ReceiptsTruthful == \A i \in Ids : \A o \in receipts[i] : Truthful(i, o)

(***************************************************************************)
(* A task handle is on disk only while its apply is unresolved and its     *)
(* task exists: recovery never re-probes a settled record, and the state   *)
(* that recover_in_flight warns of (server/mod.rs:2356) cannot arise.      *)
(***************************************************************************)
HandleWhileApplying ==
  \A i \in Ids :
    store[i] # None /\ store[i].handle = "upid"
      => store[i].state = "Applying" /\ effect[i] # "none"

(***************************************************************************)
(* The fingerprint check (server/mod.rs:5585-5605, 5703): an apply claims  *)
(* only a plan of the guest as it was when that apply began, both for the  *)
(* facts that come through the shared index and for the config that is     *)
(* read later.                                                             *)
(***************************************************************************)
ActsOnPlannedGuest ==
  \A h \in Handlers :
    call[h].at \in {"claim", "intent", "dispatch"}
      => /\ store[call[h].id].facts >= call[h].floorFacts
         /\ store[call[h].id].config >= call[h].floorConfig

(***************************************************************************)
(* The whole of it as SingleUse: an approval buys one attempt, and the     *)
(* record is settled by what the cluster did.                              *)
(***************************************************************************)
phaseOf == [i \in Ids |-> IF store[i] = None THEN "unplanned" ELSE store[i].state]

Single == INSTANCE SingleUse WITH phase <- phaseOf

ImplementsSingleUse == Single!Spec

(***************************************************************************)
(* A call always returns, whether its task ends or not: polling has a      *)
(* deadline, and no step waits for another call.                           *)
(***************************************************************************)
CallsReturn == \A h \in Handlers : call[h].at # "idle" ~> call[h].at = "idle"

\* How many steps a call may still take, by where it stands.
StepsLeft == [plan_authorize |-> 5, plan_config |-> 4, plan_create |-> 3, plan_preview |-> 2,
              plan_waive |-> 1, approve |-> 1, apply_authorize |-> 9, apply_config |-> 8,
              claim |-> 7, intent |-> 6, dispatch |-> 5, persist |-> 4, poll |-> 3,
              receipt |-> 2, settle |-> 1, idle |-> 0]

Left(h) == StepsLeft[call[h].at]

(***************************************************************************)
(* No step of a call is a retry: each leaves it fewer steps to take, and   *)
(* nothing that another call, the guest, a task or a crash does gives it   *)
(* more, so that an apply ends within nine steps.                          *)
(***************************************************************************)
CallsRunDown ==
  [][\A h \in Handlers : /\ Step(h) => Left(h)' < Left(h)
                         /\ call[h].at # "idle" => Left(h)' <= Left(h)]_vars

\* An apply that left its handle, and one that has been settled.
Unresolved(i) == InState(i, "Applying") /\ store[i].handle = "upid"
Resolved(i)   == InState(i, "Applied") \/ InState(i, "Failed")

(***************************************************************************)
(* A crash between the request and the settlement is repaired at startup   *)
(* when the task has ended: the record that startup finds with a handle    *)
(* is settled, unless the server crashes again.                            *)
(***************************************************************************)
RecoverySettles ==
  \A i \in Ids :
    Unresolved(i) /\ server = "recovering" /\ i \in recovery.todo /\ effect[i] \in Outcomes
      ~> Resolved(i) \/ server = "down"

\* The apply has ended, and startup has yet to visit its record or has it in hand.
Pending(i) ==
  /\ server = "recovering"
  /\ Unresolved(i)
  /\ effect[i] \in Outcomes
  /\ i \in recovery.todo \/ (recovery.at # "probe" /\ recovery.id = i)

(***************************************************************************)
(* Where the store can be written and the node asked, startup lets go of   *)
(* such a record only by settling it: in particular the server does not    *)
(* serve while there is one.                                               *)
(***************************************************************************)
RecoveryKeeps ==
  [][{"store", "probe"} \cap Faults = {} =>
       \A i \in Ids : Pending(i) => Pending(i)' \/ Resolved(i)' \/ server' = "down"]_vars

\* How much startup still has to do for the record in hand.
RecoveryLeft == [probe |-> 0, receipt |-> 2, settle |-> 1]

(***************************************************************************)
(* Startup makes headway with every step, and comes back to no record: it  *)
(* takes one from those to visit, goes on with the one in hand, or serves. *)
(***************************************************************************)
StartupRunsDown ==
  [][Recover =>
       \/ \E i \in recovery.todo : recovery'.todo = recovery.todo \ {i}
       \/ /\ recovery'.todo = recovery.todo
          /\ RecoveryLeft[recovery'.at] < RecoveryLeft[recovery.at]
       \/ server' = "serving" /\ recovery.todo = {}]_vars

(***************************************************************************)
(* README.md:149: "A change set left `Applying` with a task handle is      *)
(* re-probed at startup, so an apply interrupted by a restart resolves     *)
(* rather than staying unresolved forever."                                *)
(***************************************************************************)
InterruptedApplyResolves == \A i \in Ids : Unresolved(i) ~> Resolved(i)

(***************************************************************************)
(* README.md:60-64: "`--lab-mode` is the *protection* override, not a      *)
(* blanket waiver [...] a protected guest is approved on creation with no  *)
(* second principal, while an ordinary guest still requires one".          *)
(***************************************************************************)
LabModeOnlyForProtected ==
  \A i \in Ids :
    store[i] # None /\ store[i].approval = "waived" => store[i].facts \in ProtectedAt

(***************************************************************************)
(* What is true of it: lab mode waives the approval of nobody who has a    *)
(* waiver, and while every resolve succeeds, of no guest that has never    *)
(* been protected.                                                         *)
(***************************************************************************)
LabModeHasReason ==
  \A i \in Ids :
    store[i] # None /\ store[i].approval = "waived"
    => /\ store[i].owner \notin Waived
       /\ "resolve" \notin Faults => \E v \in 0 .. guest.facts : v \in ProtectedAt
=============================================================================
