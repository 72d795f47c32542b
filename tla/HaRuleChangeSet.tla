-------------------------- MODULE HaRuleChangeSet --------------------------
(***************************************************************************)
(* The life of a change set of one HA rule (server/mod.rs:                 *)
(* plan_ha_rule_change, approve_ha_rule_change, apply_ha_rule_change;      *)
(* core/ha_rules.rs).  A rule moves the guests it names, so plan and apply *)
(* authorize every guest that the change or the current rule names; the    *)
(* fingerprint is the rule's own body; a write answers at once, with no    *)
(* task; and administrators edit rules and guests meanwhile.               *)
(*                                                                         *)
(* A rule's body is abstracted to the guests it names, what the cluster    *)
(* says of its guests to a version number, as in ChangeSet.                *)
(***************************************************************************)
EXTENDS Naturals

CONSTANTS
  Handlers,    \* tool calls that may be in progress together
  Ids,         \* change sets of the rule
  Principals,  \* token names
  Humans,      \* the principals whose tokens belong to people
  Guests,      \* vmids a rule may name
  Scope,       \* Scope[p]: the vmids that the grant of p admits
  Star,        \* the principals whose grant is '*'
  Waived,      \* the principals with a current waiver for HA rule changes
  LabMode,     \* --lab-mode
  Pinned,      \* protected_vmids
  LiveAt,      \* LiveAt[v]: the guests that exist at version v
  TaggedAt,    \* TaggedAt[v]: those that carry a protected tag
  Horizon,     \* bound: changes of the guests
  MaxEdits,    \* bound: edits of the rule by administrators
  MaxCrashes,  \* bound: crashes of the server
  HasDigest,   \* the cluster reports a digest with a rule
  HasEvidence, \* an evidence recorder is attached
  Faults,      \* what may fail: a subset of {"store", "evidence", "request"}
  None         \* no rule, no record, no principal, no change set

Versions == 0 .. Horizon
Bodies   == (SUBSET Guests) \ {{}}
Rules    == {None} \cup Bodies
Ops      == {"create", "update", "delete"}
States   == {"Planned", "Approved", "Applying", "Applied", "Failed"}

ASSUME PeopleAssumption == Humans \subseteq Principals /\ Star \subseteq Principals
ASSUME BoundAssumption  == Horizon \in Nat /\ MaxEdits \in Nat /\ MaxCrashes \in Nat
ASSUME ScopeAssumption  == /\ Scope \in [Principals -> SUBSET Guests]
                           /\ \A p \in Star : Scope[p] = Guests
ASSUME GuestsAssumption == LiveAt \in [Versions -> SUBSET Guests]
                             /\ TaggedAt \in [Versions -> SUBSET Guests]
ASSUME FlagAssumption   == {LabMode, HasDigest, HasEvidence} \subseteq BOOLEAN

\* An action names the guests it moves; an update that leaves them alone names none.
Actions == {a \in [op : Ops, resources : SUBSET Guests] :
              /\ a.op = "create" => a.resources # {}
              /\ a.op = "delete" => a.resources = {}}

Records == [state : States, preview : {"missing", "stored"}, owner : Principals,
            approver : Principals \cup {None}, action : Actions,
            expected : Rules]

ASSUME NoneAssumption == /\ None \notin Records \cup Principals \cup Ids \cup Actions
                         /\ \A b \in Bodies : b # None

VARIABLES
  server,    \* "up" or "down"
  crashes,   \* crashes so far
  facts,     \* the guests now
  rule,      \* the rule now: the guests it names, or None
  edits,     \* edits by administrators so far
  store,     \* store[i]: the coordinator's record of change set i
  call,      \* call[h]: where handler h stands, and its locals
  sent,      \* sent[i]: writes of the rule that change set i has made
  intents,   \* intents[i]: apply-intent records in the evidence chain
  receipts,  \* receipts[i]: the outcomes that result receipts state
  strays,    \* history: the guests a write of i reached and its apply had not checked
  replaced   \* history: the rules that the writes of i have replaced

world  == <<server, crashes, facts, rule, edits>>
ledger == <<sent, intents, receipts, strays, replaced>>

vars == <<world, store, call, ledger>>

Steps == {"idle", "plan_authorize", "plan_create", "plan_preview", "apply_fetch",
          "apply_authorize", "claim", "intent", "dispatch", "receipt", "settle"}

\* A local that a handler no longer needs goes back to its first value.
\* action and existing: the change and the rule as a plan, or an apply, has read them;
\* checked: the guests that this apply has authorized.
Calls == [at : Steps, id : Ids \cup {None}, by : Principals \cup {None},
          action : Actions \cup {None}, existing : Rules, floor : Versions,
          seen : States \cup {"none"}, checked : SUBSET Guests, outcome : {"ok", "failed"}]

TypeOK ==
  /\ server \in {"up", "down"}
  /\ crashes \in 0 .. MaxCrashes
  /\ facts \in Versions
  /\ rule \in Rules
  /\ edits \in 0 .. MaxEdits
  /\ store \in [Ids -> Records \cup {None}]
  /\ call \in [Handlers -> Calls]
  /\ sent \in [Ids -> Nat]
  /\ intents \in [Ids -> Nat]
  /\ receipts \in [Ids -> SUBSET {"ok", "failed"}]
  /\ strays \in [Ids -> SUBSET Guests]
  /\ replaced \in [Ids -> SUBSET Rules]

NoCall == [at |-> "idle", id |-> None, by |-> None, action |-> None, existing |-> None,
           floor |-> 0, seen |-> "none", checked |-> {}, outcome |-> "failed"]

InState(i, s) == store[i] # None /\ store[i].state = s

At(h, s) == server = "up" /\ call[h].at = s

Goto(h, s) == call' = [call EXCEPT ![h] = [@ EXCEPT !.at = s]]

Return(h) == call' = [call EXCEPT ![h] = NoCall]

-----------------------------------------------------------------------------
\* authorize_ha_rule_guests

\* A change of a rule that exists reaches guests that a narrowed token may not even
\* know of; the message of a refusal would name them.
MayTouch(by, action) == action.op = "create" \/ by \in Star

\* guests_touched: those that the action names and those that the rule names.
NamedBy(r) == IF r = None THEN {} ELSE r

Touched(action, existing) == action.resources \cup NamedBy(existing)

Protected(g, v) == g \in TaggedAt[v] \/ g \in Pinned

Overridden(g, v, by) == Protected(g, v) /\ (by \in Waived \/ LabMode)

\* One guest of the loop.  Its first resolve reads version v; if it finds the guest,
\* authorize reads version w, under the override that v gave.  A vmid with no guest is
\* held to the creation rule.
Admits(by, g, floor) ==
  \E v \in floor .. facts :
    \/ /\ g \in LiveAt[v]
       /\ \E w \in floor .. facts :
            /\ g \in LiveAt[w] \cap Scope[by]
            /\ Protected(g, w) => Overridden(g, v, by)
    \/ g \notin LiveAt[v] /\ g \in Scope[by] /\ g \notin Pinned

AdmitsAll(by, guests, floor) == \A g \in guests : Admits(by, g, floor)

\* A handler that holds no claim returns with an error.
Refuse(h) ==
  /\ server = "up"
  /\ call[h].at \in {"plan_authorize", "plan_create", "plan_preview", "apply_fetch",
                     "apply_authorize", "claim"}
  /\ Return(h)
  /\ UNCHANGED <<world, store, ledger>>

-----------------------------------------------------------------------------
\* plan_ha_rule_change

\* Read the rule, refuse what Proxmox would refuse anyway, and invalidate the index.
PlanStart(h) ==
  /\ At(h, "idle")
  /\ \E by \in Principals, a \in Actions :
       /\ a.op = "create" <=> rule = None
       /\ MayTouch(by, a)
       /\ call' = [call EXCEPT ![h] = [NoCall EXCEPT !.at = "plan_authorize", !.by = by,
                                        !.action = a, !.existing = rule, !.floor = facts]]
  /\ UNCHANGED <<world, store, ledger>>

PlanAuthorize(h) ==
  /\ At(h, "plan_authorize")
  /\ AdmitsAll(call[h].by, Touched(call[h].action, call[h].existing), call[h].floor)
  /\ call' = [call EXCEPT ![h] = [@ EXCEPT !.at = "plan_create", !.floor = 0]]
  /\ UNCHANGED <<world, store, ledger>>

PlanCreate(h) ==
  /\ At(h, "plan_create")
  /\ \A i \in Ids : ~InState(i, "Applying")
  /\ \E i \in Ids :
       /\ store[i] = None
       /\ store' = [store EXCEPT ![i] =
            [state |-> "Planned", preview |-> "missing", owner |-> call[h].by,
             approver |-> None, action |-> call[h].action, expected |-> call[h].existing]]
       /\ call' = [call EXCEPT ![h] = [NoCall EXCEPT !.at = "plan_preview", !.id = i]]
  /\ UNCHANGED <<world, ledger>>

PlanPreview(h) ==
  /\ At(h, "plan_preview")
  /\ store' = [store EXCEPT ![call[h].id] = [@ EXCEPT !.preview = "stored"]]
  /\ Return(h)
  /\ UNCHANGED <<world, ledger>>

-----------------------------------------------------------------------------
(***************************************************************************)
(* approve_ha_rule_change looks at no guest and at no rule: the record's   *)
(* preview, and then the coordinator's decision.  What it has read of the  *)
(* record does not change, so that the two are one step.                   *)
(***************************************************************************)

\* An approval that lab mode, or a waiver, gives to the planner.
ApproveOverridden(i) ==
  /\ server = "up"
  /\ InState(i, "Planned")
  /\ store[i].preview = "stored"
  /\ \E by \in Humans :
       /\ by # store[i].owner \/ LabMode \/ by \in Waived
       /\ store' = [store EXCEPT ![i] = [@ EXCEPT !.state = "Approved", !.approver = by]]
  /\ UNCHANGED <<world, call, ledger>>

Approve(i) ==
  /\ server = "up"
  /\ InState(i, "Planned")
  /\ store[i].preview = "stored"
  /\ \E by \in Humans \ {store[i].owner} :
       store' = [store EXCEPT ![i] = [@ EXCEPT !.state = "Approved", !.approver = by]]
  /\ UNCHANGED <<world, call, ledger>>

-----------------------------------------------------------------------------
\* apply_ha_rule_change

ApplyStart(h) ==
  /\ At(h, "idle")
  /\ \E i \in Ids, by \in Principals :
       /\ store[i] # None
       /\ store[i].preview = "stored"
       /\ call' = [call EXCEPT ![h] = [NoCall EXCEPT !.at = "apply_fetch", !.id = i, !.by = by,
                                        !.action = store[i].action, !.seen = store[i].state]]
  /\ UNCHANGED <<world, store, ledger>>

\* An apply that does not compare fingerprints.
FetchAnyRule(h) ==
  /\ At(h, "apply_fetch")
  /\ call[h].seen = "Approved"
  /\ MayTouch(call[h].by, call[h].action)
  /\ call' = [call EXCEPT ![h] = [@ EXCEPT !.at = "apply_authorize", !.existing = rule,
                                            !.floor = facts]]
  /\ UNCHANGED <<world, store, ledger>>

\* Read the rule again, compare it and the state that the record had, invalidate.
ApplyFetch(h) ==
  /\ At(h, "apply_fetch")
  /\ rule = store[call[h].id].expected
  /\ call[h].seen = "Approved"
  /\ MayTouch(call[h].by, call[h].action)
  /\ call' = [call EXCEPT ![h] = [@ EXCEPT !.at = "apply_authorize", !.existing = rule,
                                            !.floor = facts]]
  /\ UNCHANGED <<world, store, ledger>>

ApplyAuthorize(h) ==
  LET touched == Touched(call[h].action, call[h].existing) IN
  /\ At(h, "apply_authorize")
  /\ AdmitsAll(call[h].by, touched, call[h].floor)
  /\ call' = [call EXCEPT ![h] = [@ EXCEPT !.at = "claim", !.checked = touched,
                                            !.by = None, !.floor = 0]]
  /\ UNCHANGED <<world, store, ledger>>

\* A claim decided on the state that the record had at the start.
ClaimAsSeen(h) ==
  /\ At(h, "claim")
  /\ call[h].seen = "Approved"
  /\ store' = [store EXCEPT ![call[h].id] = [@ EXCEPT !.state = "Applying"]]
  /\ Goto(h, IF HasEvidence THEN "intent" ELSE "dispatch")
  /\ UNCHANGED <<world, ledger>>

Claim(h) ==
  /\ At(h, "claim")
  /\ InState(call[h].id, "Approved")
  /\ store' = [store EXCEPT ![call[h].id] = [@ EXCEPT !.state = "Applying"]]
  /\ Goto(h, IF HasEvidence THEN "intent" ELSE "dispatch")
  /\ UNCHANGED <<world, ledger>>

Intent(h) ==
  /\ At(h, "intent")
  /\ intents' = [intents EXCEPT ![call[h].id] = @ + 1]
  /\ Goto(h, "dispatch")
  /\ UNCHANGED <<world, store, sent, receipts, strays, replaced>>

IntentFails(h) ==
  /\ At(h, "intent")
  /\ "evidence" \in Faults
  /\ \/ store' = [store EXCEPT ![call[h].id] = [@ EXCEPT !.state = "Failed"]]
     \/ "store" \in Faults /\ UNCHANGED store
  /\ Return(h)
  /\ UNCHANGED <<world, ledger>>

-----------------------------------------------------------------------------
\* The write.

\* An update that forgets the digest.
AcceptsBlindly(h) == IF call[h].action.op = "create" THEN rule = None ELSE rule # None

\* When Proxmox performs it: a create where there is no rule, a delete where there is
\* one, and an update where there is one, the one that the digest sent with it names.
Accepts(h) ==
  CASE call[h].action.op = "create" -> rule = None
    [] call[h].action.op = "delete" -> rule # None
    [] call[h].action.op = "update" -> rule # None /\ (HasDigest => rule = call[h].existing)

\* An update that sends its list of resources even when it has none.
WrittenAnyway(a) == IF a.op = "delete" THEN None ELSE a.resources

\* The rule afterwards: an update sends the resources only if it has some.
Written(a) ==
  CASE a.op = "delete" -> None
    [] a.op # "delete" /\ a.resources # {} -> a.resources
    [] OTHER -> rule

Write(h) ==
  LET i == call[h].id IN
  /\ Accepts(h)
  /\ rule' = Written(call[h].action)
  /\ sent' = [sent EXCEPT ![i] = @ + 1]
  /\ strays' = [strays EXCEPT ![i] =
       @ \cup ((NamedBy(rule) \cup NamedBy(rule')) \ call[h].checked)]
  /\ replaced' = [replaced EXCEPT ![i] = @ \cup {rule}]

Conclude(h, outcome) ==
  call' = [call EXCEPT ![h] = [NoCall EXCEPT !.at = IF HasEvidence THEN "receipt" ELSE "settle",
                                              !.id = call[h].id, !.outcome = outcome]]

DispatchDone(h) ==
  /\ At(h, "dispatch")
  /\ Write(h)
  /\ Conclude(h, "ok")
  /\ UNCHANGED <<server, crashes, facts, edits, store, intents, receipts>>

\* A definitive error: the cluster said no.
DispatchRefused(h) ==
  /\ At(h, "dispatch")
  /\ Conclude(h, "failed")
  /\ UNCHANGED <<world, store, ledger>>

\* A write that treats every error as a refusal.
LostIsRefused(h) ==
  /\ At(h, "dispatch")
  /\ "request" \in Faults
  /\ Write(h) \/ UNCHANGED <<rule, sent, strays, replaced>>
  /\ Conclude(h, "failed")
  /\ UNCHANGED <<server, crashes, facts, edits, store, intents, receipts>>

\* Request or answer lost, written or not: the record stays claimed.
DispatchLost(h) ==
  /\ At(h, "dispatch")
  /\ "request" \in Faults
  /\ Write(h) \/ UNCHANGED <<rule, sent, strays, replaced>>
  /\ Return(h)
  /\ UNCHANGED <<server, crashes, facts, edits, store, intents, receipts>>

Receipt(h) ==
  /\ At(h, "receipt")
  /\ \/ receipts' = [receipts EXCEPT ![call[h].id] = @ \cup {call[h].outcome}]
     \/ "evidence" \in Faults /\ UNCHANGED receipts
  /\ Goto(h, "settle")
  /\ UNCHANGED <<world, store, sent, intents, strays, replaced>>

Settle(h) ==
  /\ At(h, "settle")
  /\ \/ store' = [store EXCEPT ![call[h].id] =
          [@ EXCEPT !.state = IF call[h].outcome = "ok" THEN "Applied" ELSE "Failed"]]
     \/ "store" \in Faults /\ UNCHANGED store
  /\ Return(h)
  /\ UNCHANGED <<world, ledger>>

-----------------------------------------------------------------------------
\* The world: guests change, an administrator edits the rule, the server crashes.

GuestsChange ==
  /\ facts < Horizon
  /\ facts' = facts + 1
  /\ UNCHANGED <<server, crashes, rule, edits, store, call, ledger>>

RuleEdited ==
  /\ edits < MaxEdits
  /\ edits' = edits + 1
  /\ rule' \in Rules \ {rule}
  /\ UNCHANGED <<server, crashes, facts, store, call, ledger>>

Crash ==
  /\ server = "up"
  /\ crashes < MaxCrashes
  /\ crashes' = crashes + 1
  /\ server' = "down"
  /\ call' = [h \in Handlers |-> NoCall]
  /\ UNCHANGED <<facts, rule, edits, store, ledger>>

\* The claim promised no task handle and the record has none: loading and
\* recover_in_flight leave it alone.
Restart ==
  /\ server = "down"
  /\ server' = "up"
  /\ UNCHANGED <<crashes, facts, rule, edits, store, call, ledger>>

Init ==
  /\ server = "up"
  /\ crashes = 0
  /\ facts = 0
  /\ rule \in Rules
  /\ edits = 0
  /\ store = [i \in Ids |-> None]
  /\ call = [h \in Handlers |-> NoCall]
  /\ sent = [i \in Ids |-> 0]
  /\ intents = [i \in Ids |-> 0]
  /\ receipts = [i \in Ids |-> {}]
  /\ strays = [i \in Ids |-> {}]
  /\ replaced = [i \in Ids |-> {}]

Handler(h) ==
  \/ Refuse(h)
  \/ PlanStart(h)
  \/ PlanAuthorize(h)
  \/ PlanCreate(h)
  \/ PlanPreview(h)
  \/ ApplyStart(h)
  \/ ApplyFetch(h)
  \/ ApplyAuthorize(h)
  \/ Claim(h)
  \/ Intent(h)
  \/ IntentFails(h)
  \/ DispatchDone(h)
  \/ DispatchRefused(h)
  \/ DispatchLost(h)
  \/ Receipt(h)
  \/ Settle(h)

Next ==
  \/ \E h \in Handlers : Handler(h)
  \/ \E i \in Ids : Approve(i)
  \/ GuestsChange
  \/ RuleEdited
  \/ Crash
  \/ Restart

Spec == Init /\ [][Next]_vars

-----------------------------------------------------------------------------
(***************************************************************************)
(* Two-person control with no exception (server/mod.rs:1676-1677, "an      *)
(* override here never waives the change set's second-principal            *)
(* approval"): whatever is written was approved by a human other than its  *)
(* planner, and the evidence chain had the intent first.                   *)
(***************************************************************************)
SecondPersonAlways ==
  \A i \in Ids :
    sent[i] > 0 => /\ store[i].preview = "stored"
                   /\ store[i].approver \in Humans \ {store[i].owner}
                   /\ HasEvidence => intents[i] = 1

(***************************************************************************)
(* A create or an update reaches only guests that its own apply has        *)
(* authorized, although administrators edit the rule between the check,    *)
(* the claim and the write: the cluster's refusal of a second create and   *)
(* the digest that an update carries see to it.                            *)
(***************************************************************************)
ReachesOnlyChecked ==
  \A i \in Ids :
    /\ store[i] # None
    /\ store[i].action.op = "create" \/ (store[i].action.op = "update" /\ HasDigest)
    => strays[i] = {}

(***************************************************************************)
(* What is written replaces the very rule that the plan was made from and  *)
(* the approver saw: a rule edited in between is refused, either by the    *)
(* fingerprint at the start of the apply or by the digest at its end.      *)
(***************************************************************************)
UpdatesPlannedRule ==
  \A i \in Ids :
    /\ store[i] # None
    /\ store[i].action.op = "create" \/ (store[i].action.op = "update" /\ HasDigest)
    => replaced[i] \subseteq {store[i].expected}

(***************************************************************************)
(* server/mod.rs:1679-1682: the guests checked are the union of those the  *)
(* action names and those the rule names, "so an update or delete cannot   *)
(* reach a guest the token could not have named itself".  No token can     *)
(* name a pinned guest where there is neither a waiver nor lab mode.       *)
(***************************************************************************)
DeleteStaysInReach ==
  \A i \in Ids :
    store[i] # None /\ store[i].action.op = "delete" /\ ~LabMode /\ Waived = {}
    => strays[i] \cap Pinned = {}

(***************************************************************************)
(* What is true of that comment: whatever change sets do to a rule         *)
(* together, none of them reaches a pinned guest until an administrator    *)
(* has edited the rule.                                                    *)
(***************************************************************************)
PinnedOnlyThroughEdits ==
  ~LabMode /\ Waived = {} /\ edits = 0 => \A i \in Ids : strays[i] \cap Pinned = {}

(***************************************************************************)
(* Every receipt tells what happened to the rule.                          *)
(***************************************************************************)
ReceiptsTruthful ==
  \A i \in Ids : \A o \in receipts[i] : o = "ok" <=> sent[i] > 0

\* How many steps a call may still take, by where it stands.
StepsLeft == [plan_authorize |-> 3, plan_create |-> 2, plan_preview |-> 1, apply_fetch |-> 7,
              apply_authorize |-> 6, claim |-> 5, intent |-> 4, dispatch |-> 3,
              receipt |-> 2, settle |-> 1, idle |-> 0]

Left(h) == StepsLeft[call[h].at]

(***************************************************************************)
(* No call retries: each of its steps leaves it fewer to take, and nothing *)
(* that others do to the rule, the guests or the records gives it more.    *)
(***************************************************************************)
CallsRunDown ==
  [][\A h \in Handlers : call[h].at # "idle" =>
       /\ Handler(h) => Left(h)' < Left(h)
       /\ Left(h)' <= Left(h)]_vars

(***************************************************************************)
(* HA-rule change sets keep the promise of SingleUse too: one approval,    *)
(* one write, settled by what the cluster did.                             *)
(***************************************************************************)
phaseOf  == [i \in Ids |-> IF store[i] = None THEN "unplanned" ELSE store[i].state]
effectOf == [i \in Ids |-> IF sent[i] = 0 THEN "none" ELSE "ok"]

Single == INSTANCE SingleUse WITH phase <- phaseOf, effect <- effectOf

ImplementsSingleUse == Single!Spec
=============================================================================
