# rustproxmoxmcp in TLA+

rustproxmoxmcp is an MCP server that lets language-model agents operate Proxmox VE
clusters. What it must get right is not the Proxmox API, it is the *control* around it:
which guest a call is about, whether that call may act on it, and, for destructive
work, that one approval of one described operation leads to at most one attempt, whose
outcome is recorded truthfully, whatever crashes or is lost on the way. This directory
models that control, checks it with TLC and proves it with TLAPS.

Paths below are relative to the repository's `src/`; `core` stands for
`crates/rust-proxmoxmcp-core/src`, `server` for `crates/rust-proxmoxmcp/src/server`, and
`main.rs`, `http_transport.rs`, ... for the files of `crates/rust-proxmoxmcp/src`.

## 1. The system

### Components, their state and their operations

| component | state it keeps | operations | modelled |
|---|---|---|---|
| guest index (`core/resolve.rs`) | `snapshots`: one TTL-bounded `/cluster/resources` snapshot per cluster; `generation`: an atomic counter | `resolve`, `invalidate_cluster`, `invalidate`, `authorize` | `GuestIndex` |
| change-set tools (`server/mod.rs`: plan, approve, apply; `server/change_set.rs`) | none of their own; records live in the coordinator | `plan_destroy`, `approve_change_set`, `apply_change_set`, `get_change_set` | `ChangeSet` |
| startup recovery (`server/mod.rs` `recover_in_flight`) | none | probe every `Applying` record that has a task handle | `ChangeSet` |
| evidence chain (recorder calls in `apply_change_set` and recovery) | append-only chain | intent receipt, result receipt | `ChangeSet` |
| Proxmox tasks (`core/task.rs`, `poll_proxmox_task`) | a task per accepted request | parse a UPID, classify an exit status, poll with a deadline | `ChangeSet` |
| authorization (`core/selector.rs`, `grant.rs`, `protect.rs`, `waiver.rs`, `tier.rs`, `authorized.rs`) | loaded files only | selectors, grants, protection union, waivers, tiers | `Authorization`; abstracted to sets in the change-set modules |
| fingerprints and previews (`core/fingerprint.rs`, `preview.rs`) | none | digests of a guest's state, text of a preview | versions in `ChangeSet` |
| HA-rule change sets (`server/ha_change_set.rs`, `core/ha_rules.rs`) | records in the coordinator | plan, approve, apply, get | `HaRuleChangeSet` |
| restore to a new VMID (`server/restore_change_set.rs`, `server/mod.rs`) | records in the coordinator | plan, approve, apply | `RestoreChangeSet` |
| lifecycle and creation tools (`server/mod.rs`) | none | start, stop, snapshot, backup, create, clone, resize, stop a task, download | `ToolCalls`; their index behaviour in `GuestIndex` |
| read tools and pagination (`server/mod.rs`, `core/guests.rs`, `catalog.rs`) | none | list and read, one page at a time | `ToolCalls`, `Paging` |
| inventory and SIGHUP (`core/inventory.rs`, `main.rs`) | the cluster table, swapped on reload | load, reload, get | the reload and who sees it in `ToolCalls`; the invalidation it causes in `GuestIndex` |
| readiness (`readiness.rs`) | cached verdict | probe | no |
| Proxmox client (`core/client.rs`, `error.rs`) | HTTP client | request, retry, error classification | error classes in `ChangeSet` |
| CLI, transports, tokens (`cli.rs`, `main.rs`, `http_transport.rs`) | configuration | parse, serve | no |
| packaging and test support | | | no |

External code the repository depends on and that is not in it: `mecmcp-changeset` (the
coordinator and its file), `mecmcp-audit` (the recorder), `mecmcp-auth`, `mecmcp-job`,
`rmcp`, and Proxmox VE itself.  They are modelled from how the code in `src/` uses them,
and marked external.

### How they interact

A tool call is a tokio task. It may call `GuestIndex::invalidate_cluster`, and it calls
`GuestIndex::resolve` once or twice: the first time, in handlers that need to know
whether the guest is protected before they ask to act; the second time inside
`GuestIndex::authorize`. The index is shared by every call in progress and guarded by
an `RwLock` that is *not* held during the GET, so an invalidation, another fetch, and a
publication interleave freely; the generation counter is what keeps them in order.

`plan_destroy` turns an authorized guest into a record of the coordinator, with the
guest's fingerprint and, in a second write, a preview. `approve_change_set` moves it to
`Approved`. `apply_change_set` re-resolves, compares fingerprints, *claims* the record
under the coordinator's lock, writes an intent to the evidence chain, sends one request
to Proxmox, persists the UPID, polls the task, writes a result receipt and settles the
record. At each of these awaits the server can crash, another apply of the same record
can come in, and the store, the chain or the request can fail, each with its own error
path. At startup, before serving, `recover_in_flight` finishes what a crash left.

### Where it is hard, and what makes each component correct

* **Guest index**: a GET that was sent before an invalidation returns after it. Correct:
  no snapshot older than a completed invalidation is ever cached, and a call is answered
  from a state no older than its own invalidation.
* **Change sets**: two applies of one record, applies that have read a record which then
  moves, a crash at any await, five kinds of failure in sequence. Correct: at most one
  attempt per approval; only what a second human approved (or lab mode waived) reaches a
  guest; the intent is on the chain before the effect; a settled record and every receipt
  say what happened; a call always returns.
* **Recovery**: the outcome of a task is learned long after the record was written, and
  the receipt and the settlement are two writes. Correct: never settles wrongly, settles
  what has ended, never re-probes what is settled.
* **Authorization**: protection is computed from one resolve and enforced on another; a
  waiver names the planner; an override is chosen before the guest is admitted.
* **HA rules and restores**: preconditions over other objects than one guest (the
  resources a rule names, the absence of a VMID) that can change between check and use.
* **Tools that act at once**: the guest is resolved twice, once to choose an override and
  once to act, and nobody approves; a waiver may expire in between. Correct: what interrupts
  a guest was justified while the call ran; what a principal makes lies inside its own
  grant, and never on top of somebody's guest.
* **Listings**: each page is read live, by offset, and the cluster changes between pages.
  Correct: nothing that stays is skipped; nothing out of scope is shown.
* **Inventory**: a reload swaps the table, while the clients were built at startup with
  copies of it.

`PROJECT.json` lists these hazards at the lines where they bite, with the properties that
cover them.

## 2. The modules

| module | what it is |
|---|---|
| `FreshReads` | what the guest index promises: reads answered from a real state, never older than the reader's floor |
| `GuestIndex` | `resolve.rs`, step by step: the cache, the generation, the GETs in flight, both invalidations, SIGHUP |
| `GuestIndexProofs` | the theorems about it |
| `SingleUse` | what a change set promises: one approval, one attempt, settled by what the cluster did |
| `SingleUseProofs` | what that promise entails, for whatever keeps it |
| `ChangeSet` | plan, approve, apply, the coordinator's records, the task, the evidence chain, crashes, recovery |
| `ChangeSetProofs` | the theorems about it |
| `HaRuleChangeSet` | the same life for a rule of the HA manager: the guests it names, its fingerprint and its digest, administrators who edit it |
| `HaRuleChangeSetProofs` | the theorems about it |
| `RestoreChangeSet` | the same life for a restore into a VMID that does not exist: the archive's owner, the vacancy of the target, the task that takes it |
| `RestoreChangeSetProofs` | the theorems about it |
| `Authorization` | selectors, grants, tiers, protection and waivers as operators, and `authorize` put together from them |
| `Paging` | the pages of a list: what is on one, and whether there is another |
| `PagingProofs` | what the pages of a listing add up to, for every listing, offset and limit |
| `ToolCalls` | every tool that acts or answers at once, beside a cluster that changes, a clock on which waivers expire, and reloads of the inventory |
| `ToolCallsProofs` | the theorems about it |
| `MCGuestIndex`, `MCChangeSet`, `MCHaRuleChangeSet`, `MCRestoreChangeSet`, `MCToolCalls` | constants and symmetry for TLC |

### GuestIndex

A call is a process of `Callers`. `Begin` chooses what the call is: its cluster and guest,
whether it invalidates first (`plan_destroy`, `apply_change_set`, the interrupting
lifecycle verbs, creations, restores) or not (reads, `approve_change_set`), and whether it
resolves once or twice. `BumpGeneration` and `EvictCluster` are the two halves of
`invalidate_cluster` (an atomic increment, then the removal under the write lock);
`HupBump` and `HupEvict` those of `invalidate`, which SIGHUP calls. `LookupHit` and
`LookupMiss` are `lookup_fresh`, the second of them reading the generation before the GET;
`Reply` is the moment the cluster reads its own state, `FetchFails` an error, and `Publish`
the insertion under the write lock, guarded by the generation, with the caller answered
from its own fetch whether or not it was inserted.

A cluster's content is a version number; `Roster` says which VMIDs each version lists, so
that a guest can disappear and come back and a fresh snapshot can lack it. Time is
`Expire`, which may happen to a snapshot at any moment: what depends on the TTL is only
that an entry counts as absent from then on.  `floor`, `barrier` and `hupMark` are history
variables for the properties; no action's guard reads them.

`FreshReads` hides the cache, the generation and the fetches; the refinement
`ImplementsFreshReads` says that whatever the interleaving, an answer is a state the
cluster was in between the caller's floor and now. `ChangeSet` uses exactly that: its
resolves are answered from any version since the call's own invalidation
(`Admitted`), and an approval, which does not invalidate, from any version at all.

### ChangeSet

All change sets of the model are of one guest, so that they contend. A call is a process
of `Handlers`; its steps are the awaits of its handler:

| handler | actions | 
|---|---|
| `plan_destroy` | `PlanStart`, `PlanAuthorize`, `PlanConfig`, `PlanCreate`, `PlanPreview`, `PlanWaive` |
| `approve_change_set` | `ApproveStart`, `Approve` |
| `apply_change_set` | `ApplyStart`, `ApplyAuthorize`, `ApplyConfig`, `Claim`, `Intent` or `IntentFails`, `DispatchAccepted`, `DispatchSynchronous`, `DispatchRefused` or `DispatchLost`, `PersistHandle`, `Poll` or `PollFails`, `Receipt`, `Settle` |
| `recover_in_flight` | `RecoverSkip`, `RecoverProbe`, `RecoverReceipt`, `RecoverSettle`, `Serve` |
| any of them, before a claim | `Refuse`: every early return with an error |
| the world | `GuestChanges`, `TaskEnds`, `Crash`, `Restart` |

`store` is the coordinator's file (it survives a crash), `call` the handlers' locals (they
do not), `effect` and `sent` what Proxmox has done, `intents` and `receipts` the evidence
chain. What the model keeps of the guest is one version for the facts that come from
`/cluster/resources` and one for its config: the fingerprint is computed from a snapshot
through the index and a config read *later*, and the model keeps the two reads apart.

What is abstracted, and why it is sound:

* A fingerprint is the pair of versions it was computed from, so equal fingerprints mean
  equal guests: a guest that changes and changes back to the very same state is not told
  apart from one that did not change, in the code as by intent.
* `ApproveStart`, `PlanAuthorize` and `ApplyAuthorize` merge the two resolves of a handler
  and the evaluation between them. Each resolve still reads its own version, and may fail
  on its own: the code then treats the guest as protected, which is what the
  `lab_mode_race` run is about.
* Selectors and grants are a nondeterministic `Refuse`. Waivers are the constant `Waived`
  (the principals with a current waiver for this guest); one that has expired when it is
  asked is a `Refuse`, and one that expires afterwards is to the code as good as current. An
  expiry in the middle of a call is modelled in `ToolCalls`, where there is a clock.
* The approval's TTL, a full store, a store that cannot be written before the claim and a
  lost race for the claim are all `Refuse`: an error to the caller and no write.
* Whatever is an `Api`, `Unauthorized`, `Denied` or `NotFound` error is a refusal by
  Proxmox (`DispatchRefused`). That Proxmox has not accepted a request it answers with a
  5xx is an assumption about Proxmox, which the code makes too.
* Only `--state-file` deployments survive a restart; without it the store is in memory
  and a crash loses the records with everything the properties say of them.
* A client that disconnects does not cancel a handler in the model; a crash at the same
  point is the stronger case.
* The coordinator is external: that claiming is atomic and demands `Approved`, that an
  approval demands a different human, that a plan is refused while a claim is held on the
  guest, that loading settles a claim which promised a handle and has none, are read off
  the calls and comments of `server/mod.rs` and the tests in
  `crates/rust-proxmoxmcp/tests/change_set.rs`.

`SingleUse` is the promise in seven actions, with neither handlers nor files nor crashes;
`ImplementsSingleUse` says that every step of `ChangeSet` is a step of it or invisible. The
module also states four consequences of the promise (`Accountable`, `EndsForGood`,
`NeverGivenBack`, `BeginsOnce`), which any implementation of it inherits.

`StepsLeft` and `RecoveryLeft` are no state of the code: they count how many steps a
call, or startup, may still take from where it stands, and `CallsRunDown` and
`StartupRunsDown` say that the count falls. `HaRuleChangeSet` and `RestoreChangeSet` have
the same `CallsRunDown`.

### HaRuleChangeSet

An HA rule makes the HA manager move the guests it names, so a change of a rule is a change
set too, with its own handlers: `PlanStart`, `PlanAuthorize`, `PlanCreate`, `PlanPreview`;
`Approve`; `ApplyStart`, `ApplyFetch`, `ApplyAuthorize`, `Claim`, `Intent` or `IntentFails`,
`DispatchDone`, `DispatchRefused` or `DispatchLost`, `Receipt`, `Settle`. There is no task:
a write answers at once, the claim promises no handle, and recovery leaves such a record
alone.

A rule is the set of guests that it names, or `None`; its other fields (nodes, affinity,
strictness) are left out, since an edit of them only makes a fingerprint or a digest differ,
which `Refuse` and `DispatchRefused` allow at any time. `Admits` is one turn of the loop of
`authorize_ha_rule_guests`: a resolve, the override that it gives, then the resolve inside
`authorize`, each from any version since the invalidation; a vmid with no guest is held to
the creation rule. `Accepts` is what Proxmox does with the write: it refuses to create a
rule that exists, to change one that does not, and an update whose digest is not the
rule's. `RuleEdited` is an administrator at work beside the server. `strays` and
`replaced` are history variables: the guests that a write moved and the apply had not
checked, and the rule that was there before.

### RestoreChangeSet

All change sets of the model restore one archive into one VMID, so that they contend for it.

| handler | actions |
|---|---|
| `plan_restore_new_vmid` | `PlanStart` (the storage names the archive's owner), `PlanOwner`, `PlanVacancy`, `PlanCreate`, `PlanPreview` |
| `approve_change_set`, restore branch | `ApproveStart`, `Approve` |
| `apply_restore_new_vmid` | `ApplyStart`, `ApplySource`, `ApplyOwner`, `ApplyVacancy`, `Claim`, `Intent` or `IntentFails`, `DispatchAccepted`, `DispatchSynchronous`, `DispatchRefused` or `DispatchLost`, `PersistHandle`, `Poll` or `PollFails`, `Receipt`, `Settle` |
| `recover_in_flight` | `RecoverSettle`, `Serve` |
| any of them, before a claim | `Refuse` |
| the world | `Edit`, `TaskEnds`, `Crash`, `Restart` |

There is no guest to fingerprint. The cluster is a history of versions (`past`, `now`), each
a record of who owns the archive, what holds the target, and how each possible owner
stands: open, protected or gone. A read through the index is answered from any version
since the handler's invalidation, or from any version at all where it makes none
(`OwnerAuthorized`, as `authorize_backup_owner` resolves from the cache); the storage's
content list is read live. `OwnerAdmits` is the arms of `authorize_backup_owner`: a live
owner is held to the scope and to its protection, one that is gone to the scope by bare
VMID. `Accepts` is `force=0`: Proxmox refuses a VMID that is taken. Recovery is one record
a step, because `ChangeSet` has its steps apart already. The documentation comment at
the head of `server/restore_change_set.rs` describes the approval without the owner's
authorization that `approve_change_set` now makes; the model follows the code.

### ToolCalls, Authorization and Paging

`Authorization` is the pure part: `Matches`, `AllowsGuest`, `AllowsNewVmid` and
`UnrestrictedGuestScope` of a grant, `Protected` (which counts a guest that is absent or
cannot be resolved as protected), `WaiverMatches` and `Overridden`, and `Authorizes`,
which is `GuestIndex::authorize` once it has its answer. `Paging` is `paginate` over the
sorted keys of a listing. `ToolCalls` uses both.

A call starts with one action per kind of tool (`LifecycleStart`, `SnapshotStart`,
`BackupStart`, `CloneStart`, `ResizeStart`, `ResourcesStart`, `StopTaskStart`,
`CreateStart`, `DownloadStart`, `ReadStart`, `SharedReadStart`, `ListStart`), which is the
handler up to its first request: checks of the arguments, tool scope, grant, invalidation.
Then

* a call on a guest goes through `Resolve` (the override, from a first resolution) and
  `Authorize` (a second one, the kind of the guest, the destination of a clone, the
  `--allow-direct-commit` gate) to `Send`, or to `Make` for a clone;
* a creation goes through `Vacancy` to `Make`, which Proxmox performs only where there is no
  guest, unless the configuration carries the keys of a restore, which
  `reject_unsafe_config` keeps out;
* a read goes through `ReadGuest`; a listing through one `Page` per page.

`Edit` is anybody's change of the cluster, `Tick` the clock, `Reload` SIGHUP. Reloads change
`inventory`, and nothing that the tools consult: `Served` is the entry of `clusters.json`
that a client was built with.

What is abstracted, and why it is sound:

* `floor` is where the call invalidated the index. `began`, `since`, `pins`, `arose` (the
  time when a version of the cluster came about) and a guest's `made` are history for the
  properties; no guard reads them.
* `Send` stands for every request that creates nothing, for a read, and for one that fails:
  the answer is the caller's alone, and nothing is recorded of it. A guest's power state,
  snapshots and disks are left out.
* A task's worker name is one of a representative few: of work on a guest, of work that
  rewrites a guest and may not be stopped, and of work of a node. A configuration is one of
  three classes: harmless, carrying the keys of a restore, or reaching outside the guest.
* Grants are assumed to have been validated, as `ProxmoxGrant::validate` does before a token
  is loaded; the reload of the token store is not modelled.
* Calls share nothing but the cluster and the index, so that what other callers do is `Edit`
  and the freedom of `Answers`.

## 3. What is model-checked

| run | constants | shows |
|---|---|---|
| `guest_index` | 2 callers, 2 clusters, 1 change of a cluster, 2 invalidations | types, `NoResurrection`, `FreshAnswer`, and the refinement of `FreshReads` |
| `guest_index_equivalence` | 2 callers, 1 cluster, 2 changes | finding 1 (violated) |
| `change_set` | 2 handlers, 1 change set, 3 principals of whom 2 are human and one waived, the guest becomes protected, 1 change of facts and config, 1 crash, every kind of failure | all invariants and the refinement of `SingleUse` |
| `change_set_lab` | lab mode, no evidence recorder, 2 change sets of one guest, 1 crash | the same where approvals are waived, nothing is recorded and two records contend |
| `change_set_live` | fairness, 1 crash, failures of evidence, request and poll | `CallsReturn`, `RecoverySettles`, and `RecoveryKeeps`, the safe half of the latter |
| `ha_rule` | 2 handlers, 1 change set, 2 guests of which one is created and one gets a protected tag, 1 waived and 1 narrowed principal, 1 edit of the rule, 1 crash, every kind of failure | a create or an update reaches only guests the apply checked and replaces only the rule that was planned; no waiver spares the second person; receipts are true; the refinement of `SingleUse` |
| `ha_rule_delete` | 1 handler, a pinned guest, 1 edit of the rule | finding 4 (violated) |
| `lab_mode_race` | lab mode, resolves may fail | finding 2 (violated) |
| `recovery` | fairness with a restart and tasks that end | finding 3 (violated) |
| `restore` | 2 handlers, 1 change set, 2 principals of whom one is waived and names owners by number, 2 owners of whom one may be protected or go, 1 edit by others, 1 crash, every kind of failure | no restore replaces a guest; an apply checks drift itself; who copies may read; no waiver spares the second person; receipts are true; the refinement of `SingleUse` |
| `tool_calls` | 1 client, an unrestricted and a narrowed principal, 3 VMIDs of which one is pinned, 2 changes of the cluster, 1 tick, 2 inventories, pages of 1 and 2 | interruptions were justified while the call ran, but for a waiver that expires meanwhile; requests reach only what was admitted, creations stay in the grant and overwrite nothing, walks skip nothing that stays and show nothing out of scope |
| `reloaded_pins` | the same | finding 5 (violated) |

The bounds and why they are enough to meet the hazards. In `guest_index` two callers are
one fetch and one invalidation that overlap, the smallest case of a resurrection, and two
clusters distinguish the global counter from the per-cluster eviction; two invalidations
let a SIGHUP and a call's own invalidation overlap. The run says `CHECK_DEADLOCK FALSE`:
with `MaxGen` invalidations spent, callers that are about to invalidate wait for ever, a
stop that comes from the bound and not from the code. In `change_set` two handlers are two
applies that race for one record, or an apply and the approval it races; one crash is
enough for every cut between two writes, and a second handler after the restart for every
retry. `Horizon = 1` lets the guest move between any two reads. `change_set_lab` has the
second record, where `PlanCreate`'s block on a held claim and two attempts on one guest
matter. In `ha_rule` one edit of the rule
may fall between any two steps of an apply, and the second handler is a second apply. In `restore` one edit is
enough for the owner to go, the archive to change hands, or the target to be taken, each
between any two steps; the run says `CHECK_DEADLOCK FALSE` because without an archive, and
with the edits and the crash spent, there is nothing left that a call could do. In
`tool_calls` two changes let a guest be replaced between the two resolutions of a call and
once more before it is sent, or leave a listing and come back between pages; one tick
expires the only waiver in the middle of a call; one VMID holds a container in the narrowed
scope, a protected machine out of it, or nothing, so that a replacement changes kind, scope
and protection at once; three VMIDs make a listing of two pages of
one, of one page of two, and of an offset on its very end; limits run from 0 to one above
the maximum. It says `CHECK_DEADLOCK FALSE`: a creation whose VMID is taken for good waits
for nothing that the bounds still allow. The
theorems of section 4 have none of these bounds.

Fairness is only used by two runs. `FairSpec` assumes that a call in progress takes its
next step (tokio runs every task; every await is a request with a timeout, a file write or
a lock that is held for no await) and that startup proceeds. It assumes nothing of tasks:
`CallsReturn` holds because polling has a deadline. `RestartedSpec`, for the run that
refutes the README's sentence, adds an operator who restarts a server that is down and
tasks that end: even then the record stays unresolved. `RecoverySettles` is checked with a
store that can be written and a Proxmox that can be reached at startup; without either,
the code logs and leaves the record, by design.

### Findings

1. `core/resolve.rs:92-95` says of two concurrent fetches that "the second insert simply
   wins. That is acceptable here (the cost is one redundant GET, the data is equivalent)".
   It need not be: two GETs with no invalidation between them may publish in the opposite
   order of their replies, and the cache goes back to the older state for up to a TTL.
   Acting calls are not concerned, they invalidate first; observing calls and
   `approve_change_set` are.
2. `README.md:60-64` says that lab mode approves on creation the change sets of *protected*
   guests and that an ordinary guest still requires a second principal. `plan_destroy`
   decides on the waiver with an override it computed from its first resolve, and treats a
   guest it could not resolve as protected. When that first GET fails and the one inside
   `authorize` succeeds, an ordinary guest's change set is approved with no second
   principal.
3. `README.md:149` says that an apply interrupted by a restart "resolves rather than staying
   unresolved forever". Recovery runs once, before serving, and skips a task that is still
   running: nothing probes it again, and its record stays `Applying` until a further
   restart.
4. `server/mod.rs:1679-1682` says that the guests checked are those the action names and
   those the rule names, "so an update or delete cannot reach a guest the token could not
   have named itself". An update carries the digest of the rule that was checked; a delete
   carries none (`server/mod.rs:6707`, `core/ha_rules.rs:195-199`). A rule that an
   administrator edits after the apply has read it is deleted as edited, with a pinned
   guest that no token could have named.
5. `README.md:150` and `core/inventory.rs:108` say that a reload of `clusters.json` takes
   effect in place. It swaps the inventory (`main.rs:780`), but every tool consults the
   cluster its client was built with at startup (`main.rs:289-297`), and the server's own
   handle to the inventory is never read (`server/mod.rs:1508-1509`): a guest pinned by a
   reload is interrupted as before.

### A waiver that expires in the middle of a call

`InterruptionsJustified` makes one exception, which is what the code does and not what it
says. `server/mod.rs:3097-3099` says of a waiver that the question it answers is "may this
protected guest be disrupted right now?", and `README.md:146` that a protected guest is
refused unless a waiver or lab mode supplies an override. The waivers are asked once, after
the first resolution, and `authorize` acts on the second with that answer
(`server/mod.rs:2982-3017` and `3085-3127`). A VMID with no guest counts as protected, so a
call on it takes its override from a waiver that is current then. If the waiver expires and
a protected guest appears at the VMID before the second resolution, that guest is disrupted,
though there was no moment when it was both there and lifted. `JustifiedAtOnce` is the
property without the exception: put in the place of the properties of `ToolCalls.cfg`, it
fails in six states: `LifecycleStart`, `Resolve`, `Tick`, `Edit`, `Authorize`.
`InterruptionsJustified` excepts only the calls during which such a waiver has expired, and
even of those it demands that the guest was there, and in scope, while the call ran.

## 4. What is proved

`tlapm` checks `GuestIndexProofs`, `SingleUseProofs`, `ChangeSetProofs`,
`HaRuleChangeSetProofs`, `RestoreChangeSetProofs`, `ToolCallsProofs` and `PagingProofs`.
Every property of the passing runs, but the
two about liveness, is a theorem there: for any sets of callers, handlers, clusters,
records, principals, guests, rules and owners, any grants, waivers and inventories, any
bounds, any set of failures, lab mode or not, recorder or not. The only assumptions are the
named `ASSUME`s of the modules, which TLC evaluates in every run: the bounds are naturals,
flags are Booleans, humans are principals, `None` is none of the things it stands beside,
`Ids` of `RestoreChangeSet` is finite and none of its ids is the name of another target,
the VMIDs of `ToolCalls` are a finite set of numbers, and grants, waivers, tasks and
inventories have their shape.

Each proof module of a component has the same plan: an invariant `Ind`, the lemmas that a step leaves it
alone (one per action, over a few frame lemmas that say what a step has to show when it
leaves the rest as it was), `THEOREM Inductive == Spec => []Ind`, and from it the
properties of the runs and, where there is one, the refinement.

**The guest index.** `NoResurrection` is not inductive: a GET in flight says nothing yet
about the cache. `Ind` in `GuestIndexProofs` adds what a GET in flight carries.
`ReplyCurrent`: a reply whose generation still stands was read after every bump so far,
completed or between its two halves, so publishing it resurrects nothing; this is the
sentence the generation counter is there to make true, and it needs `GenerationPast` (a
fetch never carries a generation of the future). `FloorBehind` and `ReplyFresh` carry the
same for the caller's own floor, `Unanswered` and `RoundsLeft` its control, and `Past`
keeps everything remembered of a cluster out of its future. From `Ind` follow
`CacheNeverResurrects`, `AnswersAreFresh`, and, step by step, `IndexImplementsFreshReads`.

**Change sets.** `Ind` in `ChangeSetProofs` is the invariant. Beyond the properties
themselves it says

* of a record (`RecordOK`): before its claim nothing was sent, written or receipted for
  it; after its approval it is authorized as `TwoPersons` demands, and stays so; the claim
  never promises a handle (which is why a restart never settles one as Failed);
* of a handler with the claim (`HolderOK`): its record is `Applying`, before the request
  nothing has been done, and what it is about to write is truthful;
* of the others (`CheckerOK`): they name a record that exists, and what they have read is
  no older than their invalidation;
* `OneHolder`: one handler per claim, which is what makes an attempt single;
* `Phases`: handlers and recovery exclude one another, which is why recovery's outcome
  cannot be overtaken.

There is one lemma per action, with one step per conjunct; actions that leave records and
the world alone share `QuietInd`. `SpentOnce` needs `OneHolder`, `HolderOK` and
`RecordOK` together: a second request would need a second holder, or a claim on a record
that is not `Approved`, or a record that is `Approved` again. `ChangeSetsImplementSingleUse`
maps each action to a step of `SingleUse` or to a stutter, from `Ind`.

**HA rules.** `Ind` in `HaRuleChangeSetProofs` has the same parts. What is new is
`RecordOK`'s `Guarded`: of what a create, or an update with a digest, has written, the
guests it moved are among those the apply had authorized, and the rule it replaced is the
planned one. It is inductive because of what `ReaderOK` carries from `ApplyFetch` to the
request: a handler past the fetch holds the fingerprint and the digest of the planned rule,
and Proxmox compares that digest with the rule as it is at the write. A delete sends none,
and is exempt; that is finding 4. `SecondPersonNeverWaived` follows from the record alone:
no step leads from `Planned` to `Approved` but `Approve`, which compares the two persons.

**Restores.** Time is the difference: `DriftCheckedByApply` and `CopierMayRead` say that
something was so at some version since the apply began. `Ind` in
`RestoreChangeSetProofs` is stated of a call's locals alone (`Reader`, `Holder`), so that
what a call has seen is carried from one state to the next by one lemma (`ReaderKept`)
from one fact: a version that was reached is never rewritten (`Grows`). The vacancy that
`ApplyVacancy` sees is at or after its invalidation, and that at or after the apply began
(`k.began <= k.floor`): this is the link that an apply which trusted a cached answer would
break. `Paced` counts the causes of the versions (edits, restores begun, restores failed)
and keeps the history within `Versions`, so that `TypeCorrect` is about the code and not
about the bound. `Holder` knows of a claim what happened to it: before the request nothing
has, between acceptance and the end of the task something has, and what it is about to
receipt is true. `RestoresNeverOverwrite` is proved of each step from `Accepts`.

**Direct tools.** `Sound` in `ToolCallsProofs` says of every call: what its arguments were
checked for (`Prepared`); when it began, invalidated and looked, and that no later version of
the cluster is older than it (`Dated`); that an interruption it is about to send was
justified since, by a guest at one version and a waiver at one time (`Justified`); that its guest was
admitted (`Admitted`); that what it has listed was in scope (`InScope`); and that its pages
have so far shown all they passed over, unless the listing lost a guest (`Complete`). All
of them are about versions that have been reached, so `SoundPersists` carries them over
any step of the world, and each action shows only the locals it moves to. `Complete` is
the loop invariant of a walk: with nothing lost, positions only grow, so whatever stood
before the offset when the walk began is on a page already. `LiftedAtOnce` brings the two
halves of `Justified` together: versions come about one after the other (`Aged`), so every
version of a call has a time within the call, and a waiver that has lifted and has not
expired since, like lab mode, lifts at that time too. What remains is a waiver that has
expired, the exception in `InterruptionsJustified`. `History` keeps one guest per
VMID and every guest made here within its maker's grant, for `CreationsStayInScope`.

**The refinements.** `ChangeSetsImplementSingleUse`, `HaRuleChangeSetsImplementSingleUse`
and `RestoresImplementSingleUse` show the three kinds of change set to keep one and the
same promise: `phase` is the state of the record (`phaseOf`), `effect` what the cluster has
done, and every action is mapped to a step of `SingleUse` or to a stutter.

**What the promise entails.** `SingleUseProofs` proves four consequences of `SingleUse` from
one small invariant (`Accountable`: nothing has happened before the approval was spent, and
the last phase is what happened): a change set that has ended has ended for good, phases
come one at a time and are never returned to, the cluster begins at most once. Each module
of proofs about a kind of change set instantiates it under its own refinement mapping
(`Promise`) and receives them as theorems about handlers, files and crashes
(`SettledForGood`, `ApprovalNeverGivenBack`, `ProxmoxBeginsOnce`), without another look at
any action: this is what the refinement is good for. `PromiseKept` is the one bridge, that
the promise shown to be kept is the promise drawn upon. An HA rule has no `ProxmoxBeginsOnce`
of its own: a rule's write is at once, and `RecordOK` has it happen at most once.

**Calls run down.** Liveness needs fairness, and a variant. The variant is proved:
`EveryCallRunsDown`, of all three kinds of change set, says that each step of a call leaves
it fewer steps to take and that nobody else ever gives it more, neither a competing apply,
nor an edit of the rule, nor a crash, so that there is no retry and no livelock between two
calls. `StartupEnds` says the same of startup: every step takes one record from those to
visit or goes on with the one in hand, and none is visited twice. `StartupLetsGoOfNothing`
(`RecoveryKeeps`) is the other half: a record that startup owes an outcome stays in its care
until it has one. It rests on where recovery stands in the conjunct `Phases` of `Ind`.

**What is true of what the findings refute.** A counterexample leaves open whether it is the
only kind; so does an exception. The theorems below close that.

* Finding 2: `LabModeNeedsAReason`. If lab mode waived a change set's approval, its planner
  had no waiver, and either a resolve may fail or the guest has been protected at some
  time; `LabModeSparesOrdinaryGuests` draws the conclusion that the README's sentence holds
  to the letter where resolves succeed and protection does not change. This needs an
  invariant of its own beside `Ind` (`LabInd`), which carries from the plan's authorization
  to the waiver why the override was chosen.
* Finding 4: `PinnedReachedOnlyThroughEdits`. Without waivers and lab mode, and as long as no
  administrator edits the rule, no sequence of creates, updates and deletes, by any number
  of calls, reaches a pinned guest. `PinsInd` says why: from the
  moment that a call has authorized the rule it has read, neither the rule nor what the call
  is about to write names a pinned guest, since whatever other calls write has passed the
  same check.
* Finding 5: `StartupPinsAreKept` and `ReloadsThatAddNoPinHold`. The pins that the clients
  were built with hold through any reloads, so that a reload which adds a pin is the only
  way to the counterexample.
* The waiver that expires in the middle of a call: `WaiversThatStandLiftAtOnce`. Where no waiver expires, whatever happens to the
  guest between the two resolutions, a protected guest that is interrupted was there and
  lifted at one moment of the call.

**Pages.** `PagingProofs` is about `paginate` alone, for every finite listing: a page is full
or ends the listing (`PagesAreFull`), `has_more` is said exactly when a record comes
after (`HasMoreIsExact`), and the pages at multiples of the limit share out the listing,
every record on one and only one (`PagesShareOutTheListing`). `PositionsAreAll`, the lemma
they rest on, says that the positions of a finite set are an initial segment of the
naturals. `PagesAddUp` of `ToolCallsProofs` is the same for a listing that changes between
pages, where only half of it is true: what stays is shown, though perhaps twice.

**Makers.** `MakersKeepTheirGuests`: who creates or clones a guest can address it, by the
same grant that let it be made, whatever others do to its tags, pool and node afterwards.

**Only model-checked.** `CallsReturn` and `RecoverySettles` themselves (liveness under
fairness is out of TLAPS's reach; their variants are the theorems above), and the five
findings, which are counterexamples. What TLC says of the `change_set_lab` run it says again of the same theorems, on two contending records.

## 5. What is not modelled, and why

See the components' notes in `PROJECT.json`. Out of scope for good: text (previews, audit
lines, error wording, redaction), TLS, HTTP and JSON, the CLI; the inside of `mecmcp-*`
crates, which are not in the repository; and the repository's mock server.

`readiness.rs` is left out as well: its pollers write one flag per cluster and the probe
reads the flags, so there is no pair of steps whose order matters to it, and nothing else
reads its verdict. So is the token store's reload: the repository calls `mecmcp-auth` for
it and keeps no state of its own.

Deliberately coarse: the digest of a fingerprint is the versions it was computed from; the
power state, disks and snapshots of a guest are left out of `ToolCalls`; nodes, affinity
and strictness are left out of an HA rule; recovery is one step per record in
`RestoreChangeSet`, because `ChangeSet` has its steps apart.

## 6. Plan

Done, in this order: the guest index and its promise (`FreshReads`, `GuestIndex`); the
destructive change sets and theirs (`SingleUse`, `ChangeSet`); who may do what
(`Authorization`); the variants of the same life (`HaRuleChangeSet`, `RestoreChangeSet`);
the tools that act or answer at once, listings and reloads (`ToolCalls`, `Paging`); and the
proofs of each; then the consequences of `SingleUse` and their transfer, the variants of
calls and of startup, the true halves of the findings, and `PagingProofs`.

What is left would be:

1. A composition of `GuestIndex` with the handlers, on a small instance, in place of the
   promise of `FreshReads` that `ChangeSet`, `HaRuleChangeSet`, `RestoreChangeSet` and
   `ToolCalls` rest on. `ImplementsFreshReads`, which is proved, is what makes resting on
   it sound.
2. Liveness of HA-rule changes and of restores under fairness, as `CallsReturn` and
   `RecoverySettles` have it for destructive change sets; the polling and the recovery are
   the same code. That their calls run down is proved.
3. Change sets of several kinds in one coordinator at once: they share its lock and its
   targets, and the model has them apart.
