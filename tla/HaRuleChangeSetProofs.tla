----------------------- MODULE HaRuleChangeSetProofs ------------------------
(***************************************************************************)
(* Proofs about the change sets of an HA rule, for any number of handlers, *)
(* change sets, principals, guests and edits, whatever fails.              *)
(***************************************************************************)
EXTENDS HaRuleChangeSet, TLAPS

ClaimSteps == {"intent", "dispatch", "receipt", "settle"}

\* Handlers that name a change set; those of them that hold its action, the rule that it
\* was planned from, and the guests of both.
Acting  == {"apply_fetch", "apply_authorize", "claim", "intent", "dispatch"}
Naming  == {"plan_preview"} \cup Acting \cup ClaimSteps
Fetched == {"apply_authorize", "claim", "intent", "dispatch"}
Cleared == {"claim", "intent", "dispatch"}

\* Nothing has been written for change set i, and nothing says that it was.
Untouched(i) ==
  sent[i] = 0 /\ receipts[i] = {} /\ strays[i] = {} /\ replaced[i] = {}

Authorized(i) ==
  store[i].preview = "stored" /\ store[i].approver \in Humans \ {store[i].owner}

\* The writes that Proxmox refuses if the rule is no longer the one that was read.
Guarded(i) ==
  /\ store[i] # None
  /\ store[i].action.op = "create" \/ (store[i].action.op = "update" /\ HasDigest)

\* What a change set's record says, by how far it has come.
RecordOK(i) ==
  /\ store[i] = None \/ InState(i, "Planned") \/ InState(i, "Approved")
       => Untouched(i) /\ intents[i] = 0
  /\ store[i] # None /\ ~InState(i, "Planned") => Authorized(i)
  /\ store[i] # None => (store[i].action.op = "create" <=> store[i].expected = None)
  /\ InState(i, "Applied") => sent[i] = 1
  /\ InState(i, "Failed") => sent[i] = 0
  /\ sent[i] <= 1 /\ intents[i] <= 1
  /\ sent[i] > 0 /\ HasEvidence => intents[i] = 1
  /\ \A o \in receipts[i] : o = "ok" <=> sent[i] > 0
  /\ Guarded(i) => strays[i] = {} /\ replaced[i] \subseteq {store[i].expected}

\* A handler with the claim holds an Applying record, and knows whether it has written.
HolderOK(h) ==
  LET i == call[h].id IN
  call[h].at \in ClaimSteps =>
    /\ InState(i, "Applying")
    /\ call[h].at = "intent" => Untouched(i) /\ intents[i] = 0
    /\ call[h].at = "dispatch" => Untouched(i) /\ (HasEvidence => intents[i] = 1)
    /\ call[h].at \in {"receipt", "settle"} => (call[h].outcome = "ok" <=> sent[i] > 0)

\* What a handler has read agrees with the record it names.
ReaderOK(h) ==
  LET c == call[h] IN
  /\ c.at \in {"plan_authorize", "plan_create"} =>
       /\ c.by \in Principals
       /\ c.action \in Actions
       /\ c.action.op = "create" <=> c.existing = None
  /\ c.at \in Naming => c.id \in Ids /\ store[c.id] # None
  /\ c.at \in Acting => c.action = store[c.id].action
  /\ c.at \in Fetched => c.existing = store[c.id].expected
  /\ c.at \in Cleared => c.checked = Touched(c.action, c.existing)

\* One holder of a claim at a time.
OneHolder ==
  \A g, h \in Handlers :
    call[g].at \in ClaimSteps /\ call[h].at \in ClaimSteps /\ call[g].id = call[h].id => g = h

Ind ==
  /\ TypeOK
  /\ \A i \in Ids : RecordOK(i)
  /\ \A h \in Handlers : HolderOK(h) /\ ReaderOK(h)
  /\ OneHolder

-----------------------------------------------------------------------------
\* Frames: what a step has to show for itself, where it leaves the rest alone.

\* The first version is one.
LEMMA ZeroVersion == 0 \in Versions
  BY BoundAssumption DEF Versions

\* The locals of an idle handler, field by field.
LEMMA NoCallTyped ==
  /\ NoCall \in Calls
  /\ NoCall.at = "idle" /\ NoCall.id = None /\ NoCall.by = None /\ NoCall.action = None
  /\ NoCall.existing = None /\ NoCall.floor = 0 /\ NoCall.seen = "none"
  /\ NoCall.checked = {} /\ NoCall.outcome = "failed"
  BY BoundAssumption DEF NoCall, Calls, Steps, Versions, Rules

\* A record is not None.
LEMMA RecordsNotNone == \A r \in Records : r # None
  BY NoneAssumption

\* A step of handler h that writes no record and no ledger, and takes no claim.
LEMMA QuietInd ==
  ASSUME Ind, NEW h \in Handlers, NEW c \in Calls, call' = [call EXCEPT ![h] = c],
         c.at \notin ClaimSteps, ReaderOK(h)', UNCHANGED <<world, store, ledger>>
  PROVE  Ind'
  <1> USE DEF Ind, world, ledger
  <1>1. TypeOK'
    BY DEF TypeOK
  <1>2. \A j \in Ids : RecordOK(j)'
    BY DEF RecordOK, Untouched, Authorized, Guarded, InState
  <1>3. \A g \in Handlers : HolderOK(g)'
    BY DEF TypeOK, HolderOK, InState, Untouched
  <1>4. \A g \in Handlers : ReaderOK(g)'
    BY DEF TypeOK, ReaderOK, Touched, NamedBy
  <1>5. OneHolder'
    BY DEF TypeOK, OneHolder
  <1> QED
    BY <1>1, <1>2, <1>3, <1>4, <1>5

\* Nothing has changed about change set j.
SameFor(j) == /\ store'[j] = store[j] /\ sent'[j] = sent[j] /\ intents'[j] = intents[j]
              /\ receipts'[j] = receipts[j] /\ strays'[j] = strays[j]
              /\ replaced'[j] = replaced[j]

\* The record of change set i, if there was one, still says what was planned.
KeepsPlan(i) ==
  store[i] # None => /\ store'[i] # None
                     /\ store'[i].action = store[i].action
                     /\ store'[i].expected = store[i].expected

\* No handler but h has claimed change set i.
OnlyHolder(h, i) ==
  \A g \in Handlers \ {h} : call[g].at \in ClaimSteps => call[g].id # i

\* Change set i has come no further: whoever holds its claim still does.
SameProgress(i) ==
  /\ store[i] # None /\ store'[i] # None /\ store'[i].state = store[i].state
  /\ sent'[i] = sent[i] /\ intents'[i] = intents[i] /\ receipts'[i] = receipts[i]
  /\ strays'[i] = strays[i] /\ replaced'[i] = replaced[i]

\* What a handler knows stays true of a change set that has come no further.
LEMMA HolderKept ==
  ASSUME NEW g, HolderOK(g), call'[g] = call[g], SameFor(call[g].id) \/ SameProgress(call[g].id)
  PROVE  HolderOK(g)'
  <1> DEFINE j == call[g].id
  <1>1. call'[g].id = j /\ call'[g].at = call[g].at /\ call'[g].outcome = call[g].outcome
    OBVIOUS
  <1>2. InState(j, "Applying") => InState(j, "Applying")'
    BY <1>1 DEF InState, SameFor, SameProgress
  <1>3. Untouched(j) => Untouched(j)'
    BY <1>1 DEF Untouched, SameFor, SameProgress
  <1>4. intents'[j] = intents[j] /\ sent'[j] = sent[j]
    BY DEF SameFor, SameProgress
  <1> QED
    BY <1>1, <1>2, <1>3, <1>4, FlagAssumption DEF HolderOK

\* A step of handler h about change set i.
LEMMA StepInd ==
  ASSUME Ind, NEW h \in Handlers, NEW i \in Ids, NEW c \in Calls,
         call' = [call EXCEPT ![h] = c], TypeOK',
         \A j \in Ids \ {i} : SameFor(j), KeepsPlan(i),
         OnlyHolder(h, i) \/ SameProgress(i),
         RecordOK(i)', HolderOK(h)', ReaderOK(h)',
         c.at \in ClaimSteps => c.id = i /\ OnlyHolder(h, i)
  PROVE  Ind'
  <1> USE DEF Ind
  <1>1. \A j \in Ids : RecordOK(j)'
    BY DEF RecordOK, Untouched, Authorized, Guarded, InState, SameFor
  <1>2. ASSUME NEW g \in Handlers, g # h
        PROVE  HolderOK(g)' /\ ReaderOK(g)'
    <2>1. call'[g] = call[g]
      BY <1>2 DEF TypeOK
    <2>2. call[g].at \in ClaimSteps
            => SameFor(call[g].id) \/ SameProgress(call[g].id)
      BY <1>2 DEF OnlyHolder, ReaderOK, Naming
    <2>3. HolderOK(g)'
      <3>1. CASE call[g].at \in ClaimSteps
        BY <2>1, <2>2, <3>1, HolderKept
      <3>2. CASE call[g].at \notin ClaimSteps
        BY <2>1, <3>2 DEF HolderOK
      <3> QED
        BY <3>1, <3>2
    <2>4. ReaderOK(g)'
      BY <2>1 DEF ReaderOK, KeepsPlan, SameFor, Touched, NamedBy, Acting, Fetched, Cleared, Naming
    <2> QED
      BY <2>3, <2>4
  <1>3. OneHolder'
    BY DEF OneHolder, OnlyHolder, TypeOK
  <1> QED
    BY <1>1, <1>2, <1>3

\* The record of a handler that names one.
LEMMA NamedRecord ==
  ASSUME Ind, NEW h \in Handlers, call[h].at \in Naming
  PROVE  call[h].id \in Ids /\ store[call[h].id] \in Records /\ call[h] \in Calls
  BY DEF Ind, TypeOK, ReaderOK

\* A claim that is held is held once; a record that is not claimed, by nobody.
LEMMA HolderAlone ==
  ASSUME Ind, NEW h \in Handlers, call[h].at \in ClaimSteps
  PROVE  OnlyHolder(h, call[h].id)
  BY DEF Ind, OneHolder, OnlyHolder

\* ... and nobody holds a record that is not claimed.
LEMMA NotHeld ==
  ASSUME Ind, NEW h \in Handlers, NEW i \in Ids, ~InState(i, "Applying")
  PROVE  OnlyHolder(h, i)
  BY DEF Ind, HolderOK, OnlyHolder

\* What Goto leaves of a handler's locals.
LEMMA GotoStep ==
  ASSUME TypeOK, NEW h \in Handlers, NEW s \in Steps, Goto(h, s)
  PROVE  \E c \in Calls : /\ call' = [call EXCEPT ![h] = c]
                          /\ c.at = s /\ c.id = call[h].id /\ c.action = call[h].action
                          /\ c.existing = call[h].existing /\ c.checked = call[h].checked
                          /\ c.outcome = call[h].outcome
  <1> DEFINE c == [call[h] EXCEPT !.at = s]
  <1>1. call[h] \in Calls
    BY DEF TypeOK
  <1>2. /\ c \in Calls
        /\ c.at = s /\ c.id = call[h].id /\ c.action = call[h].action
        /\ c.existing = call[h].existing /\ c.checked = call[h].checked
        /\ c.outcome = call[h].outcome
    BY <1>1 DEF Calls
  <1>3. call' = [call EXCEPT ![h] = c]
    BY DEF Goto
  <1> QED
    BY <1>2, <1>3

\* What Conclude leaves of them.
LEMMA ConcludeStep ==
  ASSUME NEW h \in Handlers, call[h].id \in Ids, NEW o \in {"ok", "failed"}, Conclude(h, o)
  PROVE  \E c \in Calls : /\ call' = [call EXCEPT ![h] = c]
                          /\ c.at \in {"receipt", "settle"}
                          /\ c.id = call[h].id /\ c.outcome = o
  <1> DEFINE c == [NoCall EXCEPT !.at = IF HasEvidence THEN "receipt" ELSE "settle",
                                 !.id = call[h].id, !.outcome = o]
  <1>1. c \in Calls /\ c.at \in {"receipt", "settle"} /\ c.id = call[h].id /\ c.outcome = o
    BY NoCallTyped DEF Calls, Steps
  <1>2. call' = [call EXCEPT ![h] = c]
    BY DEF Conclude
  <1> QED
    BY <1>1, <1>2

-----------------------------------------------------------------------------
\* One lemma per action from here on: it preserves the invariant.

\* Refuse preserves the invariant.
LEMMA RefuseInd ==
  ASSUME Ind, NEW h \in Handlers, Refuse(h)
  PROVE  Ind'
  <1>1. call' = [call EXCEPT ![h] = NoCall] /\ UNCHANGED <<world, store, ledger>>
    BY DEF Refuse, Return
  <1>2. ReaderOK(h)'
    BY <1>1, NoCallTyped DEF ReaderOK, Ind, TypeOK, Naming, Acting, Fetched, Cleared, ClaimSteps
  <1> QED
    BY <1>1, <1>2, NoCallTyped, QuietInd DEF ClaimSteps

\* PlanStart preserves the invariant.
LEMMA PlanStartInd ==
  ASSUME Ind, NEW h \in Handlers, PlanStart(h)
  PROVE  Ind'
  <1>1. PICK by \in Principals, a \in Actions :
          /\ a.op = "create" <=> rule = None
          /\ call' = [call EXCEPT ![h] = [NoCall EXCEPT !.at = "plan_authorize", !.by = by,
                                           !.action = a, !.existing = rule, !.floor = facts]]
    BY DEF PlanStart
  <1> DEFINE c == [NoCall EXCEPT !.at = "plan_authorize", !.by = by, !.action = a,
                                 !.existing = rule, !.floor = facts]
  <1>2. facts \in Versions /\ rule \in Rules
    BY DEF Ind, TypeOK
  <1>3. c \in Calls
    BY <1>2, NoCallTyped DEF Calls, Steps
  <1>4. c.at = "plan_authorize" /\ c.by = by /\ c.action = a /\ c.existing = rule
    BY NoCallTyped DEF Calls
  <1>5. call' = [call EXCEPT ![h] = c] /\ UNCHANGED <<world, store, ledger>>
    BY <1>1 DEF PlanStart
  <1> HIDE DEF c
  <1>6. ReaderOK(h)'
    BY <1>1, <1>4, <1>5 DEF ReaderOK, Ind, TypeOK, Naming, Acting, Fetched, Cleared, ClaimSteps
  <1> QED
    BY <1>3, <1>4, <1>5, <1>6, QuietInd DEF ClaimSteps

\* PlanAuthorize preserves the invariant.
LEMMA PlanAuthorizeInd ==
  ASSUME Ind, NEW h \in Handlers, PlanAuthorize(h)
  PROVE  Ind'
  <1> DEFINE c == [call[h] EXCEPT !.at = "plan_create", !.floor = 0]
  <1>1. call[h] \in Calls /\ call[h].at = "plan_authorize"
    BY DEF Ind, TypeOK, PlanAuthorize, At
  <1>2. c \in Calls
    BY <1>1, ZeroVersion DEF Calls, Steps
  <1>3. /\ c.at = "plan_create" /\ c.by = call[h].by
        /\ c.action = call[h].action /\ c.existing = call[h].existing
    BY <1>1 DEF Calls
  <1>4. call' = [call EXCEPT ![h] = c] /\ UNCHANGED <<world, store, ledger>>
    BY DEF PlanAuthorize
  <1> HIDE DEF c
  <1>5. ReaderOK(h)'
    BY <1>1, <1>3, <1>4 DEF ReaderOK, Ind, TypeOK, Naming, Acting, Fetched, Cleared, ClaimSteps
  <1> QED
    BY <1>2, <1>3, <1>4, <1>5, QuietInd DEF ClaimSteps

\* ApplyStart preserves the invariant.
LEMMA ApplyStartInd ==
  ASSUME Ind, NEW h \in Handlers, ApplyStart(h)
  PROVE  Ind'
  <1>1. PICK i \in Ids, by \in Principals :
          /\ store[i] # None
          /\ call' = [call EXCEPT ![h] =
               [NoCall EXCEPT !.at = "apply_fetch", !.id = i, !.by = by,
                              !.action = store[i].action, !.seen = store[i].state]]
    BY DEF ApplyStart
  <1> DEFINE c == [NoCall EXCEPT !.at = "apply_fetch", !.id = i, !.by = by,
                                 !.action = store[i].action, !.seen = store[i].state]
  <1>2. store[i].action \in Actions /\ store[i].state \in States
    BY <1>1 DEF Ind, TypeOK, Records
  <1>3. c \in Calls
    BY <1>2, NoCallTyped DEF Calls, Steps
  <1>4. c.at = "apply_fetch" /\ c.id = i /\ c.action = store[i].action
    BY NoCallTyped DEF Calls
  <1>5. call' = [call EXCEPT ![h] = c] /\ UNCHANGED <<world, store, ledger>>
    BY <1>1 DEF ApplyStart
  <1> HIDE DEF c
  <1>6. ReaderOK(h)'
    BY <1>1, <1>4, <1>5 DEF ReaderOK, Ind, TypeOK, Naming, Acting, Fetched, Cleared, ClaimSteps
  <1> QED
    BY <1>3, <1>4, <1>5, <1>6, QuietInd DEF ClaimSteps

\* ApplyFetch preserves the invariant: the rule it has read is the one that was planned.
LEMMA ApplyFetchInd ==
  ASSUME Ind, NEW h \in Handlers, ApplyFetch(h)
  PROVE  Ind'
  <1> DEFINE c == [call[h] EXCEPT !.at = "apply_authorize", !.existing = rule, !.floor = facts]
  <1>1. call[h] \in Calls /\ rule \in Rules /\ facts \in Versions
    BY DEF Ind, TypeOK
  <1>2. c \in Calls
    BY <1>1 DEF Calls, Steps
  <1>3. /\ c.at = "apply_authorize" /\ c.id = call[h].id
        /\ c.action = call[h].action /\ c.existing = rule
    BY <1>1 DEF Calls
  <1>4. call' = [call EXCEPT ![h] = c] /\ UNCHANGED <<world, store, ledger>>
    BY DEF ApplyFetch
  <1>5. call[h].at = "apply_fetch" /\ rule = store[call[h].id].expected
    BY DEF ApplyFetch, At
  <1> HIDE DEF c
  <1>6. ReaderOK(h)'
    BY <1>3, <1>4, <1>5 DEF ReaderOK, Ind, TypeOK, Naming, Acting, Fetched, Cleared, ClaimSteps
  <1> QED
    BY <1>2, <1>3, <1>4, <1>6, QuietInd DEF ClaimSteps

\* The guests of an action and of a rule are guests.
LEMMA TouchedTyped ==
  ASSUME NEW a \in Actions, NEW r \in Rules
  PROVE  Touched(a, r) \in SUBSET Guests
  BY DEF Touched, NamedBy, Actions, Rules, Bodies

\* ApplyAuthorize preserves the invariant.
LEMMA ApplyAuthorizeInd ==
  ASSUME Ind, NEW h \in Handlers, ApplyAuthorize(h)
  PROVE  Ind'
  <1> DEFINE touched == Touched(call[h].action, call[h].existing)
             c == [call[h] EXCEPT !.at = "claim", !.checked = touched, !.by = None, !.floor = 0]
  <1>1. call[h] \in Calls /\ call[h].at = "apply_authorize"
    BY DEF Ind, TypeOK, ApplyAuthorize, At
  <1>2. call[h].action \in Actions /\ call[h].existing \in Rules
    <2>1. store[call[h].id] \in Records /\ call[h].action = store[call[h].id].action
      BY <1>1, NamedRecord DEF Ind, ReaderOK, Naming, Acting
    <2> QED
      BY <1>1, <2>1 DEF Records, Calls
  <1>3. touched \in SUBSET Guests
    BY <1>2, TouchedTyped
  <1>4. c \in Calls
    BY <1>1, <1>3, ZeroVersion DEF Calls, Steps
  <1>5. /\ c.at = "claim" /\ c.id = call[h].id /\ c.action = call[h].action
        /\ c.existing = call[h].existing
        /\ c.checked = Touched(call[h].action, call[h].existing)
    BY <1>1 DEF Calls
  <1>6. call' = [call EXCEPT ![h] = c] /\ UNCHANGED <<world, store, ledger>>
    BY DEF ApplyAuthorize
  <1> HIDE DEF c, touched
  <1>7. ReaderOK(h)'
    BY <1>1, <1>5, <1>6 DEF ReaderOK, Ind, TypeOK, Naming, Acting, Fetched, Cleared,
       ClaimSteps, Touched, NamedBy
  <1> QED
    BY <1>4, <1>5, <1>6, <1>7, QuietInd DEF ClaimSteps

\* PlanCreate preserves the invariant.
LEMMA PlanCreateInd ==
  ASSUME Ind, NEW h \in Handlers, PlanCreate(h)
  PROVE  Ind'
  <1>1. PICK i \in Ids :
          /\ store[i] = None
          /\ store' = [store EXCEPT ![i] =
               [state |-> "Planned", preview |-> "missing", owner |-> call[h].by,
                approver |-> None, action |-> call[h].action, expected |-> call[h].existing]]
          /\ call' = [call EXCEPT ![h] = [NoCall EXCEPT !.at = "plan_preview", !.id = i]]
    BY DEF PlanCreate
  <1> DEFINE r == [state |-> "Planned", preview |-> "missing", owner |-> call[h].by,
                   approver |-> None, action |-> call[h].action, expected |-> call[h].existing]
             c == [NoCall EXCEPT !.at = "plan_preview", !.id = i]
  <1>2. /\ call[h] \in Calls /\ call[h].at = "plan_create"
        /\ call[h].by \in Principals /\ call[h].action \in Actions
        /\ call[h].action.op = "create" <=> call[h].existing = None
    BY DEF PlanCreate, At, Ind, TypeOK, ReaderOK
  <1>3. r \in Records
    BY <1>2 DEF Records, States, Calls
  <1>4. /\ r.state = "Planned"
        /\ r.action.op = "create" <=> r.expected = None
    BY <1>2
  <1>5. c \in Calls /\ c.at = "plan_preview" /\ c.id = i
    BY NoCallTyped DEF Calls, Steps
  <1>6. store' = [store EXCEPT ![i] = r] /\ call' = [call EXCEPT ![h] = c]
    BY <1>1
  <1>7. UNCHANGED <<world, ledger>>
    BY DEF PlanCreate
  <1> HIDE DEF r, c
  <1>8. TypeOK'
    BY <1>3, <1>5, <1>6, <1>7 DEF Ind, TypeOK, world, ledger
  <1>9. \A j \in Ids \ {i} : SameFor(j)
    BY <1>6, <1>7 DEF SameFor, ledger, Ind, TypeOK
  <1>10. KeepsPlan(i) /\ OnlyHolder(h, i)
    BY <1>1, NotHeld DEF KeepsPlan, InState
  <1>11. store'[i] = r /\ call'[h] = c
    BY <1>6 DEF Ind, TypeOK
  <1>12. RecordOK(i)'
    <2>1. Untouched(i) /\ intents[i] = 0
      BY <1>1 DEF Ind, RecordOK
    <2> QED
      BY <1>3, <1>4, <1>7, <1>11, <2>1, RecordsNotNone
      DEF RecordOK, Untouched, Guarded, InState, ledger
  <1>13. HolderOK(h)' /\ ReaderOK(h)'
    BY <1>3, <1>5, <1>11, RecordsNotNone
    DEF HolderOK, ReaderOK, ClaimSteps, Naming, Acting, Fetched, Cleared
  <1>14. c.at \in ClaimSteps => c.id = i
    BY <1>5
  <1> QED
    BY <1>5, <1>6, <1>8, <1>9, <1>10, <1>12, <1>13, <1>14, StepInd

\* PlanPreview preserves the invariant.
LEMMA PlanPreviewInd ==
  ASSUME Ind, NEW h \in Handlers, PlanPreview(h)
  PROVE  Ind'
  <1>1. call[h].at = "plan_preview" /\ call[h].id \in Ids /\ store[call[h].id] \in Records
    BY NamedRecord DEF PlanPreview, At, Naming
  <1>2. PICK i \in Ids : i = call[h].id
    BY <1>1
  <1> DEFINE r == [store[i] EXCEPT !.preview = "stored"]
  <1>3. /\ store' = [store EXCEPT ![i] = r]
        /\ call' = [call EXCEPT ![h] = NoCall]
        /\ UNCHANGED <<world, ledger>>
    BY <1>2 DEF PlanPreview, Return
  <1>4. /\ r \in Records /\ r.preview = "stored"
        /\ r.state = store[i].state /\ r.owner = store[i].owner
        /\ r.approver = store[i].approver /\ r.action = store[i].action
        /\ r.expected = store[i].expected
    BY <1>1, <1>2 DEF Records
  <1> HIDE DEF r
  <1>5. TypeOK'
    BY <1>3, <1>4, NoCallTyped DEF Ind, TypeOK, world, ledger
  <1>6. \A j \in Ids \ {i} : SameFor(j)
    BY <1>3 DEF SameFor, ledger, Ind, TypeOK
  <1>7. store'[i] = r /\ call'[h] = NoCall /\ r # None /\ store[i] # None
    BY <1>1, <1>2, <1>3, <1>4, RecordsNotNone DEF Ind, TypeOK
  <1>8. KeepsPlan(i) /\ SameProgress(i)
    BY <1>3, <1>4, <1>7 DEF KeepsPlan, SameProgress, ledger
  <1>9. RecordOK(i)'
    <2>1. RecordOK(i)
      BY DEF Ind
    <2> QED
      BY <1>3, <1>4, <1>7, <2>1, FlagAssumption
      DEF RecordOK, Untouched, Authorized, Guarded, InState, ledger
  <1>10. HolderOK(h)' /\ ReaderOK(h)'
    BY <1>7, NoCallTyped DEF HolderOK, ReaderOK, ClaimSteps, Naming, Acting, Fetched, Cleared
  <1> QED
    BY <1>3, <1>5, <1>6, <1>8, <1>9, <1>10, NoCallTyped, StepInd DEF ClaimSteps

\* Approve preserves the invariant: the decision itself compares the two persons.
LEMMA ApproveInd ==
  ASSUME Ind, NEW i \in Ids, Approve(i)
  PROVE  Ind'
  <1>1. PICK by \in Humans \ {store[i].owner} :
          store' = [store EXCEPT ![i] = [@ EXCEPT !.state = "Approved", !.approver = by]]
    BY DEF Approve
  <1> DEFINE r == [store[i] EXCEPT !.state = "Approved", !.approver = by]
  <1>2. /\ store[i] \in Records /\ InState(i, "Planned") /\ store[i].preview = "stored"
        /\ UNCHANGED <<world, call, ledger>>
    BY DEF Approve, Ind, TypeOK, InState
  <1>3. /\ r \in Records /\ r.preview = "stored"
        /\ r.state = "Approved" /\ r.owner = store[i].owner
        /\ r.approver = by /\ r.action = store[i].action
        /\ r.expected = store[i].expected
    BY <1>2, PeopleAssumption DEF Records, States
  <1>4. store' = [store EXCEPT ![i] = r]
    BY <1>1
  <1> HIDE DEF r
  <1>5. TypeOK'
    BY <1>2, <1>3, <1>4 DEF Ind, TypeOK, world, ledger
  <1>6. \A j \in Ids \ {i} : SameFor(j)
    BY <1>2, <1>4 DEF SameFor, ledger, Ind, TypeOK
  <1>7. store'[i] = r /\ r # None /\ store[i] # None
    BY <1>2, <1>3, <1>4, RecordsNotNone DEF Ind, TypeOK
  <1>8. RecordOK(i)'
    <2>1. RecordOK(i)
      BY DEF Ind
    <2>2. Untouched(i) /\ intents[i] = 0
      BY <1>2, <2>1 DEF RecordOK
    <2> QED
      BY <1>2, <1>3, <1>7, <2>1, <2>2, FlagAssumption
      DEF RecordOK, Untouched, Authorized, Guarded, InState, ledger
  <1>9. \A j \in Ids : RecordOK(j)'
    BY <1>6, <1>8 DEF Ind, RecordOK, Untouched, Authorized, Guarded, InState, SameFor
  <1>10. ASSUME NEW g \in Handlers
         PROVE  HolderOK(g)' /\ ReaderOK(g)'
    <2>1. call' = call /\ HolderOK(g) /\ ReaderOK(g)
      BY <1>2 DEF Ind
    <2>2. call[g].at \in ClaimSteps => call[g].id \in Ids \ {i}
      BY <1>2, <2>1 DEF HolderOK, ReaderOK, InState, Naming
    <2>3. HolderOK(g)'
      <3>1. CASE call[g].at \in ClaimSteps
        BY <1>6, <2>1, <2>2, <3>1, HolderKept
      <3>2. CASE call[g].at \notin ClaimSteps
        BY <2>1, <3>2 DEF HolderOK
      <3> QED
        BY <3>1, <3>2
    <2>4. ReaderOK(g)'
      BY <1>3, <1>6, <1>7, <2>1 DEF ReaderOK, SameFor, Touched, NamedBy, Acting, Fetched,
         Cleared, Naming
    <2> QED
      BY <2>3, <2>4
  <1>11. OneHolder'
    BY <1>2 DEF Ind, OneHolder
  <1> QED
    BY <1>5, <1>9, <1>10, <1>11 DEF Ind

\* Claim preserves the invariant.
LEMMA ClaimInd ==
  ASSUME Ind, NEW h \in Handlers, Claim(h)
  PROVE  Ind'
  <1>1. /\ call[h].at = "claim" /\ call[h].id \in Ids /\ store[call[h].id] \in Records
        /\ InState(call[h].id, "Approved")
    BY NamedRecord DEF Claim, At, Naming, Acting
  <1>2. PICK i \in Ids : i = call[h].id
    BY <1>1
  <1>3. PICK c \in Calls :
          /\ call' = [call EXCEPT ![h] = c]
          /\ c.at \in {"intent", "dispatch"}
          /\ c.at = "dispatch" => ~HasEvidence
          /\ c.id = i /\ c.action = call[h].action
          /\ c.existing = call[h].existing /\ c.checked = call[h].checked
    <2> DEFINE s == IF HasEvidence THEN "intent" ELSE "dispatch"
    <2>1. TypeOK /\ s \in Steps /\ Goto(h, s)
      BY DEF Claim, Ind, Steps
    <2>2. s \in {"intent", "dispatch"} /\ (s = "dispatch" => ~HasEvidence)
      OBVIOUS
    <2> HIDE DEF s
    <2> QED
      BY <1>2, <2>1, <2>2, GotoStep
  <1> DEFINE r == [store[i] EXCEPT !.state = "Applying"]
  <1>4. store' = [store EXCEPT ![i] = r] /\ UNCHANGED <<world, ledger>>
    BY <1>2 DEF Claim
  <1>5. /\ r \in Records /\ r.preview = store[i].preview
        /\ r.state = "Applying" /\ r.owner = store[i].owner
        /\ r.approver = store[i].approver /\ r.action = store[i].action
        /\ r.expected = store[i].expected
    BY <1>1, <1>2 DEF Records, States
  <1> HIDE DEF r
  <1>6. TypeOK'
    BY <1>3, <1>4, <1>5 DEF Ind, TypeOK, world, ledger
  <1>7. \A j \in Ids \ {i} : SameFor(j)
    BY <1>4 DEF SameFor, ledger, Ind, TypeOK
  <1>8. store'[i] = r /\ call'[h] = c /\ r # None /\ store[i] # None
    BY <1>1, <1>2, <1>3, <1>4, <1>5, RecordsNotNone DEF Ind, TypeOK
  <1>9. KeepsPlan(i) /\ OnlyHolder(h, i)
    BY <1>1, <1>2, <1>5, <1>8, NotHeld DEF KeepsPlan, InState
  <1>10. Untouched(i) /\ intents[i] = 0 /\ RecordOK(i)
    BY <1>1, <1>2 DEF Ind, RecordOK
  <1>11. RecordOK(i)'
    BY <1>1, <1>2, <1>4, <1>5, <1>8, <1>10, FlagAssumption
    DEF RecordOK, Untouched, Authorized, Guarded, InState, ledger
  <1>12. HolderOK(h)'
    BY <1>3, <1>4, <1>5, <1>8, <1>10, FlagAssumption DEF HolderOK, InState, Untouched, ledger
  <1>13. ReaderOK(h)'
    <2>1. ReaderOK(h)
      BY DEF Ind
    <2> QED
      BY <1>1, <1>2, <1>3, <1>5, <1>8, <2>1
      DEF ReaderOK, Touched, NamedBy, Acting, Fetched, Cleared, Naming
  <1> QED
    BY <1>3, <1>6, <1>7, <1>9, <1>11, <1>12, <1>13, StepInd

\* Intent preserves the invariant.
LEMMA IntentInd ==
  ASSUME Ind, NEW h \in Handlers, Intent(h)
  PROVE  Ind'
  <1>1. call[h].at = "intent" /\ call[h].id \in Ids /\ store[call[h].id] \in Records
    BY NamedRecord DEF Intent, At, Naming, Acting
  <1>2. PICK i \in Ids : i = call[h].id
    BY <1>1
  <1>3. PICK c \in Calls :
          /\ call' = [call EXCEPT ![h] = c]
          /\ c.at = "dispatch" /\ c.id = i /\ c.action = call[h].action
          /\ c.existing = call[h].existing /\ c.checked = call[h].checked
    BY <1>2, GotoStep DEF Intent, Ind, Steps
  <1>4. /\ intents' = [intents EXCEPT ![i] = intents[i] + 1]
        /\ UNCHANGED <<world, store, sent, receipts, strays, replaced>>
    BY <1>2 DEF Intent
  <1>5. InState(i, "Applying") /\ Untouched(i) /\ intents[i] = 0 /\ RecordOK(i)
    BY <1>1, <1>2 DEF Ind, HolderOK, ClaimSteps
  <1>6. TypeOK'
    BY <1>3, <1>4, <1>5 DEF Ind, TypeOK, world
  <1>7. \A j \in Ids \ {i} : SameFor(j)
    BY <1>4 DEF SameFor, Ind, TypeOK
  <1>8. intents'[i] = 1 /\ call'[h] = c
    BY <1>3, <1>4, <1>5 DEF Ind, TypeOK
  <1>9. KeepsPlan(i) /\ OnlyHolder(h, i)
    BY <1>1, <1>2, <1>4, HolderAlone DEF KeepsPlan, ClaimSteps
  <1>10. RecordOK(i)'
    BY <1>4, <1>5, <1>8, FlagAssumption DEF RecordOK, Untouched, Authorized, Guarded, InState
  <1>11. HolderOK(h)'
    BY <1>3, <1>4, <1>5, <1>8, FlagAssumption DEF HolderOK, InState, Untouched
  <1>12. ReaderOK(h)'
    <2>1. ReaderOK(h)
      BY DEF Ind
    <2> QED
      BY <1>1, <1>2, <1>3, <1>4, <1>8, <2>1
      DEF ReaderOK, Touched, NamedBy, Acting, Fetched, Cleared, Naming
  <1> QED
    BY <1>3, <1>6, <1>7, <1>9, <1>10, <1>11, <1>12, StepInd

\* Whether what settles a claim is stored or not, the handler returns.
LEMMA IntentFailsInd ==
  ASSUME Ind, NEW h \in Handlers, IntentFails(h)
  PROVE  Ind'
  <1>1. call[h].at = "intent" /\ call[h].id \in Ids /\ store[call[h].id] \in Records
    BY NamedRecord DEF IntentFails, At, Naming, Acting
  <1>2. PICK i \in Ids : i = call[h].id
    BY <1>1
  <1> DEFINE r == [store[i] EXCEPT !.state = "Failed"]
  <1>3. /\ store' = [store EXCEPT ![i] = r] \/ UNCHANGED store
        /\ call' = [call EXCEPT ![h] = NoCall]
        /\ UNCHANGED <<world, ledger>>
    BY <1>2 DEF IntentFails, Return
  <1>4. /\ r \in Records /\ r.preview = store[i].preview
        /\ r.state = "Failed" /\ r.owner = store[i].owner
        /\ r.approver = store[i].approver /\ r.action = store[i].action
        /\ r.expected = store[i].expected
    BY <1>1, <1>2 DEF Records, States
  <1> HIDE DEF r
  <1>5. InState(i, "Applying") /\ Untouched(i) /\ RecordOK(i)
    BY <1>1, <1>2 DEF Ind, HolderOK, ClaimSteps
  <1>6. TypeOK'
    BY <1>3, <1>4, NoCallTyped DEF Ind, TypeOK, world, ledger
  <1>7. \A j \in Ids \ {i} : SameFor(j)
    BY <1>3 DEF SameFor, ledger, Ind, TypeOK
  <1>8. store'[i] \in {r, store[i]} /\ call'[h] = NoCall /\ r # None /\ store[i] # None
    BY <1>1, <1>2, <1>3, <1>4, RecordsNotNone DEF Ind, TypeOK
  <1>9. KeepsPlan(i) /\ OnlyHolder(h, i)
    BY <1>1, <1>2, <1>4, <1>8, HolderAlone DEF KeepsPlan, ClaimSteps
  <1>10. RecordOK(i)'
    BY <1>3, <1>4, <1>5, <1>8, FlagAssumption
    DEF RecordOK, Untouched, Authorized, Guarded, InState, ledger
  <1>11. HolderOK(h)' /\ ReaderOK(h)'
    BY <1>8, NoCallTyped DEF HolderOK, ReaderOK, ClaimSteps, Naming, Acting, Fetched, Cleared
  <1> QED
    BY <1>3, <1>6, <1>7, <1>9, <1>10, <1>11, NoCallTyped, StepInd DEF ClaimSteps

(***************************************************************************)
(* What a write does, by a handler that has checked the guests of the      *)
(* action and of the planned rule.  If Proxmox would have refused any      *)
(* other rule than that one, what it replaces is that one, and no guest is *)
(* reached that was not checked.                                           *)
(***************************************************************************)
LEMMA WriteStep ==
  ASSUME Ind, NEW h \in Handlers, call[h].at = "dispatch",
         NEW i \in Ids, i = call[h].id, Write(h)
  PROVE  /\ rule' \in Rules
         /\ sent' = [sent EXCEPT ![i] = 1]
         /\ \E s \in SUBSET Guests, q \in SUBSET Rules :
              /\ strays' = [strays EXCEPT ![i] = s]
              /\ replaced' = [replaced EXCEPT ![i] = q]
              /\ Guarded(i) => s = {} /\ q \subseteq {store[i].expected}
  <1> DEFINE a == call[h].action
             s == (NamedBy(rule) \cup NamedBy(rule')) \ call[h].checked
  <1>1. /\ store[i] \in Records /\ rule \in Rules
        /\ a = store[i].action /\ call[h].existing = store[i].expected
        /\ call[h].checked = Touched(a, call[h].existing)
        /\ Untouched(i) /\ RecordOK(i)
    BY DEF Ind, TypeOK, ReaderOK, HolderOK, ClaimSteps, Naming, Acting, Fetched, Cleared
  <1>2. a \in Actions /\ a.resources \in SUBSET Guests /\ a.op \in Ops
    BY <1>1 DEF Records, Actions
  <1>3. Accepts(h) /\ rule' = Written(a)
    BY DEF Write
  <1>4. rule' \in Rules
    <2>1. \/ rule' = None
          \/ rule' = a.resources /\ a.resources # {}
          \/ rule' = rule
      BY <1>3 DEF Written
    <2> QED
      BY <1>1, <1>2, <2>1 DEF Rules, Bodies
  <1>5. sent' = [sent EXCEPT ![i] = 1]
    BY <1>1 DEF Write, Untouched
  <1>6. strays' = [strays EXCEPT ![i] = s] /\ replaced' = [replaced EXCEPT ![i] = {rule}]
    BY <1>1 DEF Write, Untouched
  <1>7. s \in SUBSET Guests
    BY <1>1, <1>4 DEF NamedBy, Rules, Bodies
  <1>8. ASSUME Guarded(i)
        PROVE  s = {} /\ rule = store[i].expected
    <2>1. CASE a.op = "create"
      <3>1. rule = None /\ rule' = a.resources
        BY <1>2, <1>3, <2>1 DEF Accepts, Written, Actions
      <3>2. store[i].expected = None
        BY <1>1, <2>1, <1>8 DEF RecordOK, Guarded
      <3>3. a.resources \subseteq call[h].checked
        BY <1>1 DEF Touched
      <3> QED
        BY <3>1, <3>2, <3>3 DEF NamedBy
    <2>2. CASE a.op = "update" /\ HasDigest
      <3>1. rule # None /\ rule = call[h].existing
        BY <1>3, <2>2 DEF Accepts
      <3>2. rule' = a.resources \/ rule' = rule
        BY <1>3, <2>2 DEF Written
      <3>3. a.resources \cup NamedBy(rule) \subseteq call[h].checked
        BY <1>1, <3>1 DEF Touched
      <3>4. NamedBy(rule') \subseteq a.resources \cup NamedBy(rule)
        BY <3>2 DEF NamedBy
      <3> QED
        BY <1>1, <3>1, <3>3, <3>4
    <2> QED
      BY <1>1, <1>8, <2>1, <2>2 DEF Guarded
  <1> HIDE DEF s
  <1>9. {rule} \in SUBSET Rules
    BY <1>1
  <1> QED
    BY <1>4, <1>5, <1>6, <1>7, <1>8, <1>9

\* A request that is performed preserves the invariant, whether its answer is heard
\* (the handler goes on to its receipt) or not (it returns).
LEMMA ActInd ==
  ASSUME Ind, NEW h \in Handlers, call[h].at = "dispatch", Write(h),
         NEW c \in Calls, call' = [call EXCEPT ![h] = c],
         \/ c.at = "idle"
         \/ c.at \in {"receipt", "settle"} /\ c.id = call[h].id /\ c.outcome = "ok",
         UNCHANGED <<server, crashes, facts, edits, store, intents, receipts>>
  PROVE  Ind'
  <1>1. call[h].id \in Ids /\ store[call[h].id] \in Records
    BY NamedRecord DEF Naming, Acting
  <1>2. PICK i \in Ids : i = call[h].id
    BY <1>1
  <1>3. PICK s \in SUBSET Guests, q \in SUBSET Rules :
          /\ rule' \in Rules
          /\ sent' = [sent EXCEPT ![i] = 1]
          /\ strays' = [strays EXCEPT ![i] = s]
          /\ replaced' = [replaced EXCEPT ![i] = q]
          /\ Guarded(i) => s = {} /\ q \subseteq {store[i].expected}
    BY <1>2, WriteStep
  <1>4. /\ InState(i, "Applying") /\ Untouched(i) /\ RecordOK(i)
        /\ HasEvidence => intents[i] = 1
    BY <1>2 DEF Ind, HolderOK, ClaimSteps
  <1>5. TypeOK'
    BY <1>3 DEF Ind, TypeOK
  <1>6. \A j \in Ids \ {i} : SameFor(j)
    BY <1>3 DEF SameFor, Ind, TypeOK
  <1>7. sent'[i] = 1 /\ strays'[i] = s /\ replaced'[i] = q /\ call'[h] = c
    BY <1>3 DEF Ind, TypeOK
  <1>8. KeepsPlan(i) /\ OnlyHolder(h, i)
    BY <1>2, HolderAlone DEF KeepsPlan, ClaimSteps
  <1>9. RecordOK(i)'
    <2>1. Guarded(i)' => Guarded(i)
      BY DEF Guarded
    <2> QED
      BY <1>3, <1>4, <1>7, <2>1, FlagAssumption
      DEF RecordOK, Untouched, Authorized, InState
  <1>10. HolderOK(h)'
    BY <1>2, <1>4, <1>7, FlagAssumption DEF HolderOK, InState, ClaimSteps
  <1>11. ReaderOK(h)'
    BY <1>1, <1>2, <1>4, <1>7
    DEF ReaderOK, InState, Acting, Fetched, Cleared, Naming, ClaimSteps
  <1> QED
    BY <1>2, <1>5, <1>6, <1>8, <1>9, <1>10, <1>11, StepInd DEF ClaimSteps

\* DispatchDone preserves the invariant.
LEMMA DispatchDoneInd ==
  ASSUME Ind, NEW h \in Handlers, DispatchDone(h)
  PROVE  Ind'
  <1>1. call[h].at = "dispatch" /\ call[h].id \in Ids
    BY NamedRecord DEF DispatchDone, At, Naming, Acting
  <1>2. PICK c \in Calls : /\ call' = [call EXCEPT ![h] = c]
                           /\ c.at \in {"receipt", "settle"}
                           /\ c.id = call[h].id /\ c.outcome = "ok"
    BY <1>1, ConcludeStep DEF DispatchDone
  <1> QED
    BY <1>1, <1>2, ActInd DEF DispatchDone

\* A handler that leaves without writing preserves the invariant.
LEMMA LeaveInd ==
  ASSUME Ind, NEW h \in Handlers, call' = [call EXCEPT ![h] = NoCall],
         UNCHANGED <<world, store, ledger>>
  PROVE  Ind'
  <1>1. call'[h] = NoCall
    BY DEF Ind, TypeOK
  <1>2. ReaderOK(h)'
    BY <1>1, NoCallTyped DEF ReaderOK, Naming, Acting, Fetched, Cleared, ClaimSteps
  <1> QED
    BY <1>2, NoCallTyped, QuietInd DEF ClaimSteps

\* DispatchLost preserves the invariant.
LEMMA DispatchLostInd ==
  ASSUME Ind, NEW h \in Handlers, DispatchLost(h)
  PROVE  Ind'
  <1>1. /\ call[h].at = "dispatch" /\ call' = [call EXCEPT ![h] = NoCall]
        /\ UNCHANGED <<server, crashes, facts, edits, store, intents, receipts>>
        /\ Write(h) \/ UNCHANGED <<rule, sent, strays, replaced>>
    BY DEF DispatchLost, At, Return
  <1>2. CASE Write(h)
    BY <1>1, <1>2, NoCallTyped, ActInd
  <1>3. CASE UNCHANGED <<rule, sent, strays, replaced>>
    BY <1>1, <1>3, LeaveInd DEF world, ledger
  <1> QED
    BY <1>1, <1>2, <1>3

\* DispatchRefused preserves the invariant.
LEMMA DispatchRefusedInd ==
  ASSUME Ind, NEW h \in Handlers, DispatchRefused(h)
  PROVE  Ind'
  <1>1. call[h].at = "dispatch" /\ call[h].id \in Ids /\ store[call[h].id] \in Records
    BY NamedRecord DEF DispatchRefused, At, Naming, Acting
  <1>2. PICK i \in Ids : i = call[h].id
    BY <1>1
  <1>3. PICK c \in Calls : /\ call' = [call EXCEPT ![h] = c]
                           /\ c.at \in {"receipt", "settle"}
                           /\ c.id = i /\ c.outcome = "failed"
    BY <1>1, <1>2, ConcludeStep DEF DispatchRefused
  <1>4. UNCHANGED <<world, store, ledger>>
    BY DEF DispatchRefused
  <1>5. InState(i, "Applying") /\ Untouched(i) /\ RecordOK(i)
    BY <1>1, <1>2 DEF Ind, HolderOK, ClaimSteps
  <1>6. TypeOK'
    BY <1>3, <1>4 DEF Ind, TypeOK, world, ledger
  <1>7. \A j \in Ids : SameFor(j)
    BY <1>4 DEF SameFor, ledger
  <1>8. KeepsPlan(i) /\ OnlyHolder(h, i)
    BY <1>1, <1>2, <1>4, HolderAlone DEF KeepsPlan, ClaimSteps
  <1>9. RecordOK(i)'
    BY <1>4, <1>5, FlagAssumption DEF RecordOK, Untouched, Authorized, Guarded, InState, ledger
  <1>10. call'[h] = c
    BY <1>3 DEF Ind, TypeOK
  <1>11. HolderOK(h)'
    BY <1>3, <1>4, <1>5, <1>10 DEF HolderOK, InState, Untouched, ledger, ClaimSteps
  <1>12. ReaderOK(h)'
    BY <1>1, <1>3, <1>4, <1>5, <1>10
    DEF ReaderOK, InState, Acting, Fetched, Cleared, Naming, ClaimSteps
  <1> QED
    BY <1>3, <1>6, <1>7, <1>8, <1>9, <1>11, <1>12, StepInd

\* Receipt preserves the invariant.
LEMMA ReceiptInd ==
  ASSUME Ind, NEW h \in Handlers, Receipt(h)
  PROVE  Ind'
  <1>1. call[h].at = "receipt" /\ call[h].id \in Ids /\ store[call[h].id] \in Records
    BY NamedRecord DEF Receipt, At, Naming, ClaimSteps
  <1>2. PICK i \in Ids : i = call[h].id
    BY <1>1
  <1>3. PICK c \in Calls :
          /\ call' = [call EXCEPT ![h] = c]
          /\ c.at = "settle" /\ c.id = i /\ c.outcome = call[h].outcome
    BY <1>2, GotoStep DEF Receipt, Ind, Steps
  <1>4. /\ \/ receipts' = [receipts EXCEPT ![i] = receipts[i] \cup {c.outcome}]
           \/ UNCHANGED receipts
        /\ UNCHANGED <<world, store, sent, intents, strays, replaced>>
    BY <1>2, <1>3 DEF Receipt
  <1>5. /\ InState(i, "Applying") /\ RecordOK(i)
        /\ c.outcome = "ok" <=> sent[i] > 0
        /\ c.outcome \in {"ok", "failed"}
    BY <1>1, <1>2, <1>3 DEF Ind, TypeOK, HolderOK, ClaimSteps, Calls
  <1>6. TypeOK'
    BY <1>3, <1>4, <1>5 DEF Ind, TypeOK, world
  <1>7. \A j \in Ids \ {i} : SameFor(j)
    BY <1>4 DEF SameFor, Ind, TypeOK
  <1>8. receipts'[i] \in {receipts[i], receipts[i] \cup {c.outcome}} /\ call'[h] = c
    BY <1>3, <1>4 DEF Ind, TypeOK
  <1>9. KeepsPlan(i) /\ OnlyHolder(h, i)
    BY <1>1, <1>2, <1>4, HolderAlone DEF KeepsPlan, ClaimSteps
  <1>10. RecordOK(i)'
    BY <1>4, <1>5, <1>8, FlagAssumption DEF RecordOK, Untouched, Authorized, Guarded, InState
  <1>11. HolderOK(h)'
    BY <1>3, <1>4, <1>5, <1>8 DEF HolderOK, InState
  <1>12. ReaderOK(h)'
    BY <1>3, <1>4, <1>5, <1>8
    DEF ReaderOK, InState, Acting, Fetched, Cleared, Naming, ClaimSteps
  <1> QED
    BY <1>3, <1>6, <1>7, <1>9, <1>10, <1>11, <1>12, StepInd

\* Settle preserves the invariant: a record is settled by what happened to the rule.
LEMMA SettleInd ==
  ASSUME Ind, NEW h \in Handlers, Settle(h)
  PROVE  Ind'
  <1>1. call[h].at = "settle" /\ call[h].id \in Ids /\ store[call[h].id] \in Records
    BY NamedRecord DEF Settle, At, Naming, ClaimSteps
  <1>2. PICK i \in Ids : i = call[h].id
    BY <1>1
  <1> DEFINE r == [store[i] EXCEPT !.state = IF call[h].outcome = "ok" THEN "Applied" ELSE "Failed"]
  <1>3. /\ store' = [store EXCEPT ![i] = r] \/ UNCHANGED store
        /\ call' = [call EXCEPT ![h] = NoCall]
        /\ UNCHANGED <<world, ledger>>
    BY <1>2 DEF Settle, Return
  <1>4. /\ r \in Records /\ r.preview = store[i].preview
        /\ r.state = (IF call[h].outcome = "ok" THEN "Applied" ELSE "Failed")
        /\ r.owner = store[i].owner
        /\ r.approver = store[i].approver /\ r.action = store[i].action
        /\ r.expected = store[i].expected
    BY <1>1, <1>2 DEF Records, States
  <1> HIDE DEF r
  <1>5. /\ InState(i, "Applying") /\ RecordOK(i) /\ sent[i] \in Nat
        /\ call[h].outcome = "ok" <=> sent[i] > 0
    BY <1>1, <1>2 DEF Ind, TypeOK, HolderOK, ClaimSteps
  <1>6. TypeOK'
    BY <1>3, <1>4, NoCallTyped DEF Ind, TypeOK, world, ledger
  <1>7. \A j \in Ids \ {i} : SameFor(j)
    BY <1>3 DEF SameFor, ledger, Ind, TypeOK
  <1>8. store'[i] \in {r, store[i]} /\ call'[h] = NoCall /\ r # None /\ store[i] # None
    BY <1>1, <1>2, <1>3, <1>4, RecordsNotNone DEF Ind, TypeOK
  <1>9. KeepsPlan(i) /\ OnlyHolder(h, i)
    BY <1>1, <1>2, <1>4, <1>8, HolderAlone DEF KeepsPlan, ClaimSteps
  <1>10. RecordOK(i)'
    <2>1. sent[i] > 0 => sent[i] = 1
      BY <1>5 DEF RecordOK
    <2> QED
      BY <1>3, <1>4, <1>5, <1>8, <2>1, FlagAssumption
      DEF RecordOK, Untouched, Authorized, Guarded, InState, ledger
  <1>11. HolderOK(h)' /\ ReaderOK(h)'
    BY <1>8, NoCallTyped DEF HolderOK, ReaderOK, ClaimSteps, Naming, Acting, Fetched, Cleared
  <1> QED
    BY <1>3, <1>6, <1>7, <1>9, <1>10, <1>11, NoCallTyped, StepInd DEF ClaimSteps

\* The world, and a restart, preserve the invariant: it says nothing of the rule and the
\* guests as they are now.
LEMMA WorldInd ==
  ASSUME Ind, GuestsChange \/ RuleEdited \/ Restart
  PROVE  Ind'
  <1> USE DEF Ind, ledger
  <1>1. UNCHANGED <<store, call, sent, intents, receipts, strays, replaced>>
    BY DEF GuestsChange, RuleEdited, Restart
  <1>2. TypeOK'
    <2>1. CASE GuestsChange
      <3>1. facts + 1 \in Versions
        BY <2>1, BoundAssumption DEF GuestsChange, Versions, TypeOK
      <3> QED
        BY <2>1, <3>1 DEF GuestsChange, TypeOK
    <2>2. CASE RuleEdited
      <3>1. edits + 1 \in 0 .. MaxEdits
        BY <2>2, BoundAssumption DEF RuleEdited, TypeOK
      <3> QED
        BY <2>2, <3>1 DEF RuleEdited, TypeOK
    <2>3. CASE Restart
      BY <2>3 DEF Restart, TypeOK
    <2> QED
      BY <2>1, <2>2, <2>3
  <1>3. \A i \in Ids : RecordOK(i)'
    BY <1>1 DEF RecordOK, Untouched, Authorized, Guarded, InState
  <1>4. \A h \in Handlers : HolderOK(h)' /\ ReaderOK(h)'
    BY <1>1 DEF HolderOK, ReaderOK, InState, Untouched, Touched, NamedBy
  <1>5. OneHolder'
    BY <1>1 DEF OneHolder
  <1> QED
    BY <1>2, <1>3, <1>4, <1>5

\* Crash preserves the invariant: no handler survives it.
LEMMA CrashInd ==
  ASSUME Ind, Crash
  PROVE  Ind'
  <1> USE DEF Ind, ledger
  <1>1. /\ call' = [h \in Handlers |-> NoCall]
        /\ UNCHANGED <<facts, rule, edits, store, sent, intents, receipts, strays, replaced>>
    BY DEF Crash
  <1>2. TypeOK'
    <2>1. crashes' \in 0 .. MaxCrashes /\ server' = "down"
      BY BoundAssumption DEF Crash, TypeOK
    <2> QED
      BY <1>1, <2>1, NoCallTyped DEF TypeOK
  <1>3. \A i \in Ids : RecordOK(i)'
    BY <1>1 DEF RecordOK, Untouched, Authorized, Guarded, InState
  <1>4. \A h \in Handlers : HolderOK(h)' /\ ReaderOK(h)'
    BY <1>1, NoCallTyped DEF HolderOK, ReaderOK, ClaimSteps, Naming, Acting, Fetched, Cleared
  <1>5. OneHolder'
    BY <1>1, NoCallTyped DEF OneHolder, ClaimSteps
  <1> QED
    BY <1>2, <1>3, <1>4, <1>5

-----------------------------------------------------------------------------
\* The invariant is inductive.

\* The invariant holds at the start.
LEMMA InitInd ==
  ASSUME Init
  PROVE  Ind
  <1> USE NoCallTyped DEF Init
  <1>1. TypeOK
    BY ZeroVersion, BoundAssumption DEF TypeOK
  <1>2. \A i \in Ids : RecordOK(i)
    BY DEF RecordOK, Untouched, Guarded, InState
  <1>3. \A h \in Handlers : HolderOK(h) /\ ReaderOK(h)
    BY DEF HolderOK, ReaderOK, ClaimSteps, Naming, Acting, Fetched, Cleared
  <1>4. OneHolder
    BY DEF OneHolder, ClaimSteps
  <1> QED
    BY <1>1, <1>2, <1>3, <1>4 DEF Ind

\* It depends on nothing but the variables.
LEMMA StutterInd ==
  ASSUME Ind, UNCHANGED vars
  PROVE  Ind'
  <1> USE DEF vars, world, ledger, Ind
  <1>1. TypeOK' /\ OneHolder'
    BY DEF TypeOK, OneHolder
  <1>2. \A i \in Ids : RecordOK(i)'
    BY DEF RecordOK, Untouched, Authorized, Guarded, InState
  <1>3. \A h \in Handlers : HolderOK(h)' /\ ReaderOK(h)'
    BY DEF HolderOK, ReaderOK, InState, Untouched, Touched, NamedBy
  <1> QED
    BY <1>1, <1>2, <1>3

\* Every step preserves it.
LEMMA NextInd ==
  ASSUME Ind, Next
  PROVE  Ind'
  <1>1. ASSUME NEW h \in Handlers, Handler(h)
        PROVE  Ind'
    BY <1>1, RefuseInd, PlanStartInd, PlanAuthorizeInd, PlanCreateInd, PlanPreviewInd,
       ApplyStartInd, ApplyFetchInd, ApplyAuthorizeInd, ClaimInd, IntentInd, IntentFailsInd,
       DispatchDoneInd, DispatchRefusedInd, DispatchLostInd, ReceiptInd, SettleInd
       DEF Handler
  <1> QED
    BY <1>1, ApproveInd, WorldInd, CrashInd DEF Next

(***************************************************************************)
(* Ind is an invariant of the life of every HA-rule change set, whatever   *)
(* administrators do to the rule and to the guests, and wherever the       *)
(* server crashes.                                                         *)
(***************************************************************************)
THEOREM Inductive == Spec => []Ind
  <1>1. Init => Ind
    BY InitInd
  <1>2. Ind /\ [Next]_vars => Ind'
    BY NextInd, StutterInd
  <1> QED
    BY <1>1, <1>2, PTL DEF Spec

-----------------------------------------------------------------------------
\* What the runs check of small instances, for all of them.

(***************************************************************************)
(* Records, locals and ledgers always have the shape the handlers rely on. *)
(***************************************************************************)
THEOREM TypeCorrect == Spec => []TypeOK
  <1>1. Ind => TypeOK
    BY DEF Ind
  <1> QED
    BY <1>1, Inductive, PTL

(***************************************************************************)
(* No waiver and no lab mode ever spares the second person: a rule is      *)
(* written only for a change that another human approved, after its        *)
(* preview was stored and, with a recorder, its intent.                    *)
(***************************************************************************)
THEOREM SecondPersonNeverWaived == Spec => []SecondPersonAlways
  <1>1. Ind => SecondPersonAlways
    <2> SUFFICES ASSUME Ind, NEW i \in Ids, sent[i] > 0
                 PROVE  Authorized(i) /\ (HasEvidence => intents[i] = 1)
      BY DEF SecondPersonAlways, Authorized
    <2>1. RecordOK(i)
      BY DEF Ind
    <2>2. store[i] # None /\ ~InState(i, "Planned")
      BY <2>1 DEF RecordOK, Untouched
    <2> QED
      BY <2>1, <2>2 DEF RecordOK
  <1> QED
    BY <1>1, Inductive, PTL

(***************************************************************************)
(* Guards make an edit harmless: what is written of a create, or of an     *)
(* update with a digest, reaches only guests that its own apply has        *)
(* authorized, and replaces only the rule that was planned and approved.   *)
(***************************************************************************)
THEOREM WritesStayWithinTheCheck == Spec => []ReachesOnlyChecked
  <1>1. Ind => ReachesOnlyChecked
    BY DEF Ind, RecordOK, Guarded, ReachesOnlyChecked
  <1> QED
    BY <1>1, Inductive, PTL

(***************************************************************************)
(* ... and the same of the rule that it replaces.                          *)
(***************************************************************************)
THEOREM WritesReplaceThePlannedRule == Spec => []UpdatesPlannedRule
  <1>1. Ind => UpdatesPlannedRule
    BY DEF Ind, RecordOK, Guarded, UpdatesPlannedRule
  <1> QED
    BY <1>1, Inductive, PTL

(***************************************************************************)
(* A result receipt says "ok" exactly when the rule was written.           *)
(***************************************************************************)
THEOREM ReceiptsAreTruthful == Spec => []ReceiptsTruthful
  <1>1. Ind => ReceiptsTruthful
    BY DEF Ind, RecordOK, ReceiptsTruthful
  <1> QED
    BY <1>1, Inductive, PTL

-----------------------------------------------------------------------------
\* HA-rule change sets implement SingleUse: every step is one of its steps or a stutter.

Stutter == UNCHANGED <<phaseOf, effectOf>>

\* Without a write of a record or of the rule, nothing moves.
LEMMA NothingMoves ==
  ASSUME UNCHANGED <<store, sent>>
  PROVE  Stutter
  BY DEF phaseOf, effectOf, Stutter

\* The phase of a change set is the state of its record.
LEMMA PhaseIs ==
  ASSUME NEW i \in Ids, NEW s, InState(i, s)
  PROVE  phaseOf[i] = s
  BY DEF phaseOf, InState

\* A record of change set i is written: the phase of i is that of the new record.
LEMMA PhaseStep ==
  ASSUME TypeOK, NEW i \in Ids, NEW r \in Records, store' = [store EXCEPT ![i] = r]
  PROVE  phaseOf' = [phaseOf EXCEPT ![i] = r.state]
  BY RecordsNotNone DEF phaseOf, TypeOK

\* A write that moves a record from one state to another is an Advance.
LEMMA AdvanceStep ==
  ASSUME TypeOK, NEW i \in Ids, NEW r \in Records, NEW s, InState(i, s),
         store' = [store EXCEPT ![i] = r], UNCHANGED sent
  PROVE  Single!Advance(i, s, r.state)
  <1>1. UNCHANGED effectOf
    BY DEF effectOf
  <1> QED
    BY <1>1, PhaseStep, PhaseIs DEF Single!Advance

\* PlanCreate is a Plan.
LEMMA PlanCreateRefines ==
  ASSUME Ind, NEW h \in Handlers, PlanCreate(h)
  PROVE  Single!Next
  <1> DEFINE r == [state |-> "Planned", preview |-> "missing", owner |-> call[h].by,
                   approver |-> None, action |-> call[h].action, expected |-> call[h].existing]
  <1>1. /\ call[h] \in Calls /\ call[h].by \in Principals /\ call[h].action \in Actions
    BY DEF PlanCreate, At, Ind, TypeOK, ReaderOK
  <1>2. r \in Records /\ r.state = "Planned"
    BY <1>1 DEF Records, States, Calls
  <1>3. PICK i \in Ids : store[i] = None /\ store' = [store EXCEPT ![i] = r]
    BY DEF PlanCreate
  <1>4. TypeOK /\ UNCHANGED effectOf
    BY DEF PlanCreate, Ind, ledger, effectOf
  <1> HIDE DEF r
  <1>5. phaseOf' = [phaseOf EXCEPT ![i] = "Planned"]
    BY <1>2, <1>3, <1>4, PhaseStep
  <1>6. phaseOf[i] = "unplanned"
    BY <1>3 DEF phaseOf
  <1> QED
    BY <1>4, <1>5, <1>6 DEF Single!Next, Single!Plan, Single!Advance

\* PlanPreview leaves the phase alone.
LEMMA PlanPreviewRefines ==
  ASSUME Ind, NEW h \in Handlers, PlanPreview(h)
  PROVE  Stutter
  <1> DEFINE r == [store[call[h].id] EXCEPT !.preview = "stored"]
  <1>1. call[h].id \in Ids /\ store[call[h].id] \in Records
    BY NamedRecord DEF PlanPreview, At, Naming
  <1>2. r \in Records /\ r.state = store[call[h].id].state
    BY <1>1 DEF Records
  <1>3. TypeOK /\ store' = [store EXCEPT ![call[h].id] = r] /\ UNCHANGED effectOf
    BY DEF PlanPreview, Ind, ledger, effectOf
  <1> HIDE DEF r
  <1>4. phaseOf' = [phaseOf EXCEPT ![call[h].id] = r.state]
    BY <1>1, <1>2, <1>3, PhaseStep
  <1>5. phaseOf[call[h].id] = r.state
    BY <1>1, <1>2, RecordsNotNone DEF phaseOf
  <1>6. UNCHANGED phaseOf
    BY <1>1, <1>4, <1>5 DEF phaseOf
  <1> QED
    BY <1>3, <1>6 DEF Stutter

\* Approve is an Approve.
LEMMA ApproveRefines ==
  ASSUME Ind, NEW i \in Ids, Approve(i)
  PROVE  Single!Next
  <1>1. PICK by \in Humans \ {store[i].owner} :
          store' = [store EXCEPT ![i] = [@ EXCEPT !.state = "Approved", !.approver = by]]
    BY DEF Approve
  <1> DEFINE r == [store[i] EXCEPT !.state = "Approved", !.approver = by]
  <1>2. store[i] \in Records /\ InState(i, "Planned") /\ TypeOK /\ UNCHANGED sent
    BY DEF Approve, Ind, TypeOK, InState, ledger
  <1>3. r \in Records /\ r.state = "Approved"
    BY <1>2, PeopleAssumption DEF Records, States
  <1>4. store' = [store EXCEPT ![i] = r]
    BY <1>1
  <1> HIDE DEF r
  <1>5. Single!Advance(i, "Planned", "Approved")
    BY <1>2, <1>3, <1>4, AdvanceStep
  <1> QED
    BY <1>5 DEF Single!Next, Single!Approve

\* Claim is a Spend.
LEMMA ClaimRefines ==
  ASSUME Ind, NEW h \in Handlers, Claim(h)
  PROVE  Single!Next
  <1> DEFINE r == [store[call[h].id] EXCEPT !.state = "Applying"]
  <1>1. call[h].id \in Ids /\ store[call[h].id] \in Records
    BY NamedRecord DEF Claim, At, Naming, Acting
  <1>2. r \in Records /\ r.state = "Applying"
    BY <1>1 DEF Records, States
  <1>3. /\ TypeOK /\ InState(call[h].id, "Approved") /\ UNCHANGED sent
        /\ store' = [store EXCEPT ![call[h].id] = r]
    BY DEF Claim, Ind, ledger
  <1> HIDE DEF r
  <1>4. Single!Advance(call[h].id, "Approved", "Applying")
    BY <1>1, <1>2, <1>3, AdvanceStep
  <1> QED
    BY <1>1, <1>4 DEF Single!Next, Single!Spend

\* An intent that cannot be written fails a change set whose request was never made.
LEMMA IntentFailsRefines ==
  ASSUME Ind, NEW h \in Handlers, IntentFails(h)
  PROVE  Single!Next \/ Stutter
  <1> DEFINE r == [store[call[h].id] EXCEPT !.state = "Failed"]
  <1>1. call[h].id \in Ids /\ store[call[h].id] \in Records
    BY NamedRecord DEF IntentFails, At, Naming, Acting
  <1>2. r \in Records /\ r.state = "Failed"
    BY <1>1 DEF Records, States
  <1>3. TypeOK /\ InState(call[h].id, "Applying") /\ sent[call[h].id] = 0 /\ UNCHANGED sent
    BY DEF IntentFails, At, Ind, HolderOK, ClaimSteps, Untouched, ledger
  <1>4. store' = [store EXCEPT ![call[h].id] = r] \/ UNCHANGED store
    BY DEF IntentFails
  <1> HIDE DEF r
  <1>5. CASE store' = [store EXCEPT ![call[h].id] = r]
    <2>1. Single!Advance(call[h].id, "Applying", "Failed")
      BY <1>1, <1>2, <1>3, <1>5, AdvanceStep
    <2>2. effectOf[call[h].id] = "none"
      BY <1>1, <1>3 DEF effectOf
    <2> QED
      BY <1>1, <2>1, <2>2 DEF Single!Next, Single!Fail
  <1> QED
    BY <1>3, <1>4, <1>5, NothingMoves

\* A write of the rule is the Act.
LEMMA WriteRefines ==
  ASSUME Ind, NEW h \in Handlers, call[h].at = "dispatch", Write(h), UNCHANGED store
  PROVE  Single!Next
  <1>1. call[h].id \in Ids
    BY NamedRecord DEF Naming, Acting
  <1>2. PICK i \in Ids : i = call[h].id
    BY <1>1
  <1>3. sent' = [sent EXCEPT ![i] = 1] /\ sent \in [Ids -> Nat]
    BY <1>2, WriteStep DEF Ind, TypeOK
  <1>4. InState(i, "Applying") /\ sent[i] = 0
    BY <1>2 DEF Ind, HolderOK, ClaimSteps, Untouched
  <1>5. phaseOf[i] = "Applying" /\ UNCHANGED phaseOf
    BY <1>4, PhaseIs DEF phaseOf
  <1>6. effectOf[i] = "none" /\ effectOf' = [effectOf EXCEPT ![i] = "ok"]
    <2>1. \A j \in Ids : sent'[j] = IF j = i THEN 1 ELSE sent[j]
      BY <1>3
    <2>2. \A j \in Ids : effectOf'[j] = IF j = i THEN "ok" ELSE effectOf[j]
      BY <2>1 DEF effectOf
    <2>3. effectOf[i] = "none"
      BY <1>4 DEF effectOf
    <2> QED
      BY <2>2, <2>3 DEF effectOf
  <1> QED
    BY <1>5, <1>6 DEF Single!Next, Single!Act

\* Settle succeeds if the rule was written, and fails if it was not.
LEMMA SettleRefines ==
  ASSUME Ind, NEW h \in Handlers, Settle(h)
  PROVE  Single!Next \/ Stutter
  <1> DEFINE s == IF call[h].outcome = "ok" THEN "Applied" ELSE "Failed"
             r == [store[call[h].id] EXCEPT !.state = s]
  <1>1. call[h].id \in Ids /\ store[call[h].id] \in Records
    BY NamedRecord DEF Settle, At, Naming, ClaimSteps
  <1>2. r \in Records /\ r.state = s
    BY <1>1 DEF Records, States
  <1>3. /\ TypeOK /\ InState(call[h].id, "Applying") /\ UNCHANGED sent
        /\ call[h].outcome = "ok" <=> sent[call[h].id] > 0
        /\ sent[call[h].id] \in Nat
    BY <1>1 DEF Settle, At, Ind, TypeOK, HolderOK, ClaimSteps, ledger
  <1>4. store' = [store EXCEPT ![call[h].id] = r] \/ UNCHANGED store
    BY DEF Settle
  <1> HIDE DEF r
  <1>5. CASE store' = [store EXCEPT ![call[h].id] = r]
    <2>1. Single!Advance(call[h].id, "Applying", s)
      BY <1>1, <1>2, <1>3, <1>5, AdvanceStep
    <2>2. CASE call[h].outcome = "ok"
      <3>1. effectOf[call[h].id] = "ok"
        BY <1>1, <1>3, <2>2 DEF effectOf
      <3> QED
        BY <1>1, <2>1, <2>2, <3>1 DEF Single!Next, Single!Succeed
    <2>3. CASE call[h].outcome # "ok"
      <3>1. effectOf[call[h].id] = "none"
        BY <1>1, <1>3, <2>3 DEF effectOf
      <3> QED
        BY <1>1, <2>1, <2>3, <3>1 DEF Single!Next, Single!Fail
    <2> QED
      BY <2>2, <2>3
  <1> QED
    BY <1>3, <1>4, <1>5, NothingMoves

\* Every step is a step of SingleUse or a stutter.
LEMMA NextRefines ==
  ASSUME Ind, Next
  PROVE  Single!Next \/ Stutter
  <1> USE DEF ledger
  <1>1. ASSUME NEW h \in Handlers, Handler(h)
        PROVE  Single!Next \/ Stutter
    <2>1. CASE \/ Refuse(h) \/ PlanStart(h) \/ PlanAuthorize(h) \/ ApplyStart(h)
               \/ ApplyFetch(h) \/ ApplyAuthorize(h)
      BY <2>1, NothingMoves DEF Refuse, PlanStart, PlanAuthorize, ApplyStart, ApplyFetch,
         ApplyAuthorize
    <2>2. CASE Intent(h) \/ DispatchRefused(h) \/ Receipt(h)
      BY <2>2, NothingMoves DEF Intent, DispatchRefused, Receipt
    <2>3. CASE DispatchDone(h)
      BY <2>3, WriteRefines DEF DispatchDone, At
    <2>4. CASE DispatchLost(h)
      <3>1. call[h].at = "dispatch" /\ UNCHANGED store
        BY <2>4 DEF DispatchLost, At
      <3>2. Write(h) \/ UNCHANGED sent
        BY <2>4 DEF DispatchLost
      <3> QED
        BY <3>1, <3>2, WriteRefines, NothingMoves
    <2> QED
      BY <1>1, <2>1, <2>2, <2>3, <2>4, PlanCreateRefines, PlanPreviewRefines, ClaimRefines,
         IntentFailsRefines, SettleRefines DEF Handler
  <1>2. CASE GuestsChange \/ RuleEdited \/ Crash \/ Restart
    BY <1>2, NothingMoves DEF GuestsChange, RuleEdited, Crash, Restart
  <1> QED
    BY <1>1, <1>2, ApproveRefines DEF Next

(***************************************************************************)
(* A change of an HA rule keeps the promise of SingleUse: whatever is      *)
(* edited, lost or crashed, one approval buys one write, and the record is *)
(* settled by whether the rule was written.                                *)
(***************************************************************************)
THEOREM HaRuleChangeSetsImplementSingleUse == Spec => ImplementsSingleUse
  <1>1. Init => Single!Init
    BY DEF Init, Single!Init, phaseOf, effectOf
  <1>2. Ind /\ [Next]_vars => [Single!Next]_(Single!vars)
    <2>1. UNCHANGED vars => Stutter
      BY NothingMoves DEF vars, ledger
    <2> QED
      BY <2>1, NextRefines DEF Stutter, Single!vars
  <1> QED
    BY <1>1, <1>2, Inductive, PTL DEF Spec, ImplementsSingleUse, Single!Spec

\* What SingleUse entails, of the phases that the records show and of the writes that were
\* sent.
Promise == INSTANCE SingleUseProofs WITH phase <- phaseOf, effect <- effectOf

\* The promise that HaRuleChangeSetsImplementSingleUse shows to be kept is the one that
\* SingleUseProofs is about.
LEMMA PromiseKept == Spec => Promise!Spec
  <1>1. Single!Init => Promise!Init
    BY DEF Single!Init, Promise!Init
  <1>2. [Single!Next]_(Single!vars) => [Promise!Next]_(Promise!vars)
    BY DEF Single!Next, Single!vars, Promise!Next, Promise!vars,
           Single!Plan, Single!Approve, Single!Spend, Single!Act, Single!End, Single!Succeed,
           Single!Fail, Single!Advance,
           Promise!Plan, Promise!Approve, Promise!Spend, Promise!Act, Promise!End,
           Promise!Succeed, Promise!Fail, Promise!Advance
  <1> QED
    BY <1>1, <1>2, HaRuleChangeSetsImplementSingleUse, PTL
    DEF ImplementsSingleUse, Single!Spec, Promise!Spec

(***************************************************************************)
(* An HA-rule change set that is Applied or Failed stays so, whatever calls, *)
(* crashes and recoveries follow, and it writes nothing any more.          *)
(***************************************************************************)
THEOREM SettledForGood == Spec => Promise!EndsForGood
  BY PromiseKept, Promise!EndingIsFinal, PTL

(***************************************************************************)
(* The approval of an HA-rule change is not given back: the states of its  *)
(* record come one at a time.                                              *)
(***************************************************************************)
THEOREM ApprovalNeverGivenBack == Spec => Promise!NeverGivenBack
  BY PromiseKept, Promise!ApprovalsAreNotGivenBack, PTL

-----------------------------------------------------------------------------
(***************************************************************************)
(* Pinned guests and the rule.  What an apply has checked names no pinned  *)
(* guest, and from its check on the rule names none either, unless it is   *)
(* edited: a write of another change set has been checked as well.         *)
(***************************************************************************)

Unedited == ~LabMode /\ Waived = {} /\ edits = 0

\* The rule may name a pinned guest only if the check to come will see it.
Watched(c) ==
  /\ c.at = "apply_authorize" => c.existing = rule \/ NamedBy(rule) \cap Pinned = {}
  /\ c.at \in Cleared => c.checked \cap Pinned = {} /\ NamedBy(rule) \cap Pinned = {}

PinsInd ==
  Unedited => /\ \A i \in Ids : strays[i] \cap Pinned = {}
              /\ \A h \in Handlers : Watched(call[h])

\* Without a waiver and without lab mode, no check admits a pinned guest.
LEMMA PinnedNotAdmitted ==
  ASSUME ~LabMode, Waived = {}, NEW by, NEW guests, NEW floor, AdmitsAll(by, guests, floor)
  PROVE  guests \cap Pinned = {}
  BY DEF AdmitsAll, Admits, Protected, Overridden

\* A step that leaves the rule and the writes alone keeps what its handler has to show.
LEMMA QuietPins ==
  ASSUME Ind, PinsInd, NEW h \in Handlers, NEW c, call' = [call EXCEPT ![h] = c],
         Unedited => Watched(c), UNCHANGED <<rule, edits, strays>>
  PROVE  PinsInd'
  <1> SUFFICES ASSUME Unedited
               PROVE  /\ \A i \in Ids : strays[i] \cap Pinned = {}
                      /\ \A g \in Handlers : Watched(call'[g])
    BY DEF PinsInd, Unedited, Watched
  <1>1. ASSUME NEW g \in Handlers
        PROVE  Watched(call'[g])
    <2>1. call'[g] = IF g = h THEN c ELSE call[g]
      BY DEF Ind, TypeOK
    <2> QED
      BY <2>1 DEF PinsInd
  <1> QED
    BY <1>1 DEF PinsInd

\* A step that moves a handler on, within what it has checked or out of it.
LEMMA GotoPins ==
  ASSUME Ind, PinsInd, NEW h \in Handlers, NEW s \in Steps, Goto(h, s),
         s \in Cleared => call[h].at \in Cleared, s # "apply_authorize",
         UNCHANGED <<rule, edits, strays>>
  PROVE  PinsInd'
  <1>1. PICK c \in Calls : /\ call' = [call EXCEPT ![h] = c]
                           /\ c.at = s /\ c.checked = call[h].checked
    BY GotoStep DEF Ind
  <1>2. Unedited => Watched(c)
    BY <1>1 DEF PinsInd, Watched
  <1> QED
    BY <1>1, <1>2, QuietPins

\* A handler that returns, or is told how its write ended, has nothing more to show.
LEMMA LeavingPins ==
  ASSUME Ind, PinsInd, NEW h \in Handlers, NEW o \in {"ok", "failed"},
         Return(h) \/ (Conclude(h, o) /\ call[h].id \in Ids)
  PROVE  \E c \in Calls : /\ call' = [call EXCEPT ![h] = c]
                          /\ c.at \notin Cleared \cup {"apply_authorize"}
  <1>1. CASE Return(h)
    BY <1>1, NoCallTyped DEF Return, Cleared
  <1>2. CASE Conclude(h, o) /\ call[h].id \in Ids
    BY <1>2, ConcludeStep DEF Cleared
  <1> QED
    BY <1>1, <1>2

\* A write puts no pinned guest into the rule, and reaches none.
LEMMA WritePins ==
  ASSUME Ind, PinsInd, NEW h \in Handlers, call[h].at = "dispatch", Write(h),
         NEW c \in Calls, call' = [call EXCEPT ![h] = c],
         c.at \notin Cleared \cup {"apply_authorize"}, edits' = edits
  PROVE  PinsInd'
  <1> SUFFICES ASSUME Unedited
               PROVE  /\ \A i \in Ids : strays'[i] \cap Pinned = {}
                      /\ \A g \in Handlers : Watched(call[g])'
    BY DEF PinsInd, Unedited
  <1>1. Watched(call[h]) /\ call[h].at \in Cleared /\ call[h].id \in Ids
    BY DEF PinsInd, Cleared, Ind, ReaderOK, Naming, Acting
  <1>2. call[h].checked \cap Pinned = {} /\ NamedBy(rule) \cap Pinned = {}
    BY <1>1 DEF Watched
  <1>3. call[h].action.resources \subseteq call[h].checked
    BY <1>1 DEF Ind, ReaderOK, Touched
  <1>4. NamedBy(Written(call[h].action)) \cap Pinned = {}
    BY <1>2, <1>3 DEF Written, NamedBy
  <1>5. NamedBy(rule)' \cap Pinned = {}
    BY <1>4 DEF Write, NamedBy
  <1>6. ASSUME NEW i \in Ids
        PROVE  strays'[i] \cap Pinned = {}
    <2>1. strays[i] \cap Pinned = {}
      BY DEF PinsInd
    <2>2. strays'[i] \subseteq strays[i] \cup NamedBy(rule) \cup NamedBy(rule)'
      BY <1>1 DEF Write, Ind, TypeOK, NamedBy
    <2> QED
      BY <1>2, <1>5, <2>1, <2>2
  <1>7. ASSUME NEW g \in Handlers
        PROVE  Watched(call[g])'
    <2>1. call'[g] = IF g = h THEN c ELSE call[g]
      BY DEF Ind, TypeOK
    <2>2. g # h => Watched(call[g])
      BY DEF PinsInd
    <2> QED
      BY <1>5, <2>1, <2>2 DEF Watched
  <1> QED
    BY <1>6, <1>7

\* What an apply reads of the rule is the rule.
LEMMA FetchPins ==
  ASSUME Ind, PinsInd, NEW h \in Handlers, ApplyFetch(h)
  PROVE  PinsInd'
  <1>1. PICK c : c = [call[h] EXCEPT !.at = "apply_authorize", !.existing = rule, !.floor = facts]
    OBVIOUS
  <1>2. c.at = "apply_authorize" /\ c.existing = rule
    BY <1>1 DEF Ind, TypeOK, Calls
  <1>3. call' = [call EXCEPT ![h] = c] /\ UNCHANGED <<rule, edits, strays>>
    BY <1>1 DEF ApplyFetch, world, ledger
  <1> QED
    BY <1>2, <1>3, QuietPins DEF Watched, Cleared

\* An apply that passes its check has none in the rule, and no more has the rule now.
LEMMA CheckPins ==
  ASSUME Ind, PinsInd, NEW h \in Handlers, ApplyAuthorize(h)
  PROVE  PinsInd'
  <1>1. PICK touched : touched = Touched(call[h].action, call[h].existing)
    OBVIOUS
  <1>2. PICK c : c = [call[h] EXCEPT !.at = "claim", !.checked = touched, !.by = None, !.floor = 0]
    OBVIOUS
  <1>3. c.at = "claim" /\ c.checked = touched /\ call[h].at = "apply_authorize"
    BY <1>2 DEF Ind, TypeOK, Calls, ApplyAuthorize, At
  <1>4. call' = [call EXCEPT ![h] = c] /\ UNCHANGED <<rule, edits, strays>>
    BY <1>1, <1>2 DEF ApplyAuthorize, world, ledger
  <1>5. ASSUME Unedited
        PROVE  Watched(c)
    <2>1. touched \cap Pinned = {}
      BY <1>1, <1>5, PinnedNotAdmitted DEF ApplyAuthorize, Unedited
    <2>2. NamedBy(call[h].existing) \cap Pinned = {}
      BY <1>1, <2>1 DEF Touched
    <2>3. Watched(call[h])
      BY <1>5 DEF PinsInd
    <2> QED
      BY <1>3, <2>1, <2>2, <2>3 DEF Watched
  <1> QED
    BY <1>4, <1>5, QuietPins

\* A step before an apply has read the rule, or after its write, has nothing to show.
LEMMA OtherPins ==
  ASSUME Ind, PinsInd, NEW h \in Handlers,
         PlanStart(h) \/ PlanAuthorize(h) \/ PlanCreate(h) \/ ApplyStart(h)
  PROVE  PinsInd'
  <1>1. PICK c : c = call'[h]
    OBVIOUS
  <1>2. /\ call' = [call EXCEPT ![h] = c]
        /\ c.at \in {"plan_authorize", "plan_create", "plan_preview", "apply_fetch"}
        /\ UNCHANGED <<rule, edits, strays>>
    <2>1. CASE PlanStart(h)
      BY <1>1, <2>1 DEF PlanStart, NoCall, Ind, TypeOK, world, ledger
    <2>2. CASE PlanAuthorize(h)
      BY <1>1, <2>2 DEF PlanAuthorize, Ind, TypeOK, Calls, world, ledger
    <2>3. CASE PlanCreate(h)
      <3>1. PICK i \in Ids :
              call' = [call EXCEPT ![h] = [NoCall EXCEPT !.at = "plan_preview", !.id = i]]
        BY <2>3 DEF PlanCreate
      <3>2. UNCHANGED <<rule, edits, strays>>
        BY <2>3 DEF PlanCreate, world, ledger
      <3> QED
        BY <1>1, <3>1, <3>2 DEF NoCall, Ind, TypeOK
    <2>4. CASE ApplyStart(h)
      BY <1>1, <2>4 DEF ApplyStart, NoCall, Ind, TypeOK, world, ledger
    <2> QED
      BY <2>1, <2>2, <2>3, <2>4
  <1> QED
    BY <1>2, QuietPins DEF Watched, Cleared

\* Every step keeps it.
LEMMA PinsStep ==
  ASSUME Ind, PinsInd, [Next]_vars
  PROVE  PinsInd'
  <1>1. ASSUME NEW h \in Handlers, Handler(h)
        PROVE  PinsInd'
    <2>1. CASE PlanStart(h) \/ PlanAuthorize(h) \/ PlanCreate(h) \/ ApplyStart(h)
      BY <2>1, OtherPins
    <2>2. CASE ApplyFetch(h)
      BY <2>2, FetchPins
    <2>3. CASE ApplyAuthorize(h)
      BY <2>3, CheckPins
    <2>4. CASE Claim(h) \/ Intent(h)
      <3>1. PICK s \in {"intent", "dispatch"} : Goto(h, s)
        BY <2>4 DEF Claim, Intent
      <3>2. call[h].at \in Cleared /\ UNCHANGED <<rule, edits, strays>>
        BY <2>4 DEF Claim, Intent, At, Cleared, world, ledger
      <3> QED
        BY <3>1, <3>2, GotoPins DEF Steps
    <2>5. CASE Receipt(h)
      BY <2>5, GotoPins DEF Receipt, Steps, Cleared, world
    <2>6. CASE Refuse(h) \/ PlanPreview(h) \/ IntentFails(h) \/ Settle(h)
      <3>1. Return(h) /\ UNCHANGED <<rule, edits, strays>>
        BY <2>6 DEF Refuse, PlanPreview, IntentFails, Settle, world, ledger
      <3>2. PICK c \in Calls : /\ call' = [call EXCEPT ![h] = c]
                               /\ c.at \notin Cleared \cup {"apply_authorize"}
        BY <3>1, LeavingPins
      <3> QED
        BY <3>1, <3>2, QuietPins DEF Watched
    <2>7. CASE DispatchDone(h) \/ DispatchRefused(h) \/ DispatchLost(h)
      <3>1. call[h].at = "dispatch" /\ call[h].id \in Ids /\ edits' = edits
        BY <2>7 DEF DispatchDone, DispatchRefused, DispatchLost, At, Ind, ReaderOK, Naming, Acting,
                    world
      <3>2. \E o \in {"ok", "failed"} : Return(h) \/ Conclude(h, o)
        BY <2>7 DEF DispatchDone, DispatchRefused, DispatchLost
      <3>3. PICK c \in Calls : /\ call' = [call EXCEPT ![h] = c]
                               /\ c.at \notin Cleared \cup {"apply_authorize"}
        BY <3>1, <3>2, LeavingPins
      <3>4. Write(h) \/ UNCHANGED <<rule, edits, strays>>
        BY <2>7 DEF DispatchDone, DispatchRefused, DispatchLost, world, ledger
      <3>5. CASE Write(h)
        BY <3>1, <3>3, <3>5, WritePins
      <3>6. CASE UNCHANGED <<rule, edits, strays>>
        BY <3>3, <3>6, QuietPins DEF Watched
      <3> QED
        BY <3>4, <3>5, <3>6
    <2> QED
      BY <1>1, <2>1, <2>2, <2>3, <2>4, <2>5, <2>6, <2>7 DEF Handler
  <1>2. ASSUME UNCHANGED <<rule, edits, strays, call>>
        PROVE  PinsInd'
    BY <1>2 DEF PinsInd, Unedited, Watched, NamedBy
  <1>3. CASE RuleEdited
    BY <1>3 DEF RuleEdited, PinsInd, Unedited, Ind, TypeOK
  <1>4. CASE Crash
    <2>1. /\ \A h \in Handlers : call'[h].at = "idle"
          /\ UNCHANGED <<rule, edits, strays>>
      BY <1>4, NoCallTyped DEF Crash, ledger
    <2> QED
      BY <2>1 DEF PinsInd, Unedited, Watched, Cleared
  <1>5. CASE (\E i \in Ids : Approve(i)) \/ GuestsChange \/ Restart \/ UNCHANGED vars
    BY <1>2, <1>5 DEF Approve, GuestsChange, Restart, vars, world, ledger
  <1> QED
    BY <1>1, <1>3, <1>4, <1>5 DEF Next

(***************************************************************************)
(* As long as no administrator edits the rule, and nobody has an override, *)
(* no sequence of creates, updates and deletes reaches a pinned guest, not *)
(* even a delete or an update that carries no digest.                      *)
(***************************************************************************)
THEOREM PinnedReachedOnlyThroughEdits == Spec => []PinnedOnlyThroughEdits
  <1>1. Init => PinsInd
    BY NoCallTyped DEF Init, PinsInd, Watched, Cleared
  <1>2. Ind /\ PinsInd /\ [Next]_vars => PinsInd'
    BY PinsStep
  <1>3. PinsInd => PinnedOnlyThroughEdits
    BY DEF PinsInd, Unedited, PinnedOnlyThroughEdits
  <1> QED
    BY <1>1, <1>2, <1>3, Inductive, PTL DEF Spec

-----------------------------------------------------------------------------
(***************************************************************************)
(* Calls run down, whoever edits the rule meanwhile.                       *)
(***************************************************************************)

\* The number of steps left at each step.
LEMMA StepsLeftIs ==
  /\ StepsLeft["plan_authorize"] = 3 /\ StepsLeft["plan_create"] = 2
  /\ StepsLeft["plan_preview"] = 1 /\ StepsLeft["apply_fetch"] = 7
  /\ StepsLeft["apply_authorize"] = 6 /\ StepsLeft["claim"] = 5
  /\ StepsLeft["intent"] = 4 /\ StepsLeft["dispatch"] = 3 /\ StepsLeft["receipt"] = 2
  /\ StepsLeft["settle"] = 1 /\ StepsLeft["idle"] = 0
  BY DEF StepsLeft

\* It is a number, and no less than one but for an idle handler.
LEMMA StepsLeftPositive ==
  ASSUME NEW s \in Steps
  PROVE  StepsLeft[s] \in Nat /\ (s # "idle" => StepsLeft[s] >= 1)
  BY StepsLeftIs DEF Steps

\* What the next lemmas show of a handler that is not idle: fewer steps are left to it.
Fewer(h) == \E c : call' = [call EXCEPT ![h] = c] /\ StepsLeft[c.at] < StepsLeft[call[h].at]

\* A handler that returns has no step left.
LEMMA ReturnRunsDown ==
  ASSUME TypeOK, NEW h \in Handlers, call[h].at # "idle", Return(h)
  PROVE  Fewer(h)
  <1>1. call[h].at \in Steps
    BY DEF TypeOK, Calls
  <1>2. StepsLeft[call[h].at] >= 1 /\ StepsLeft[call[h].at] \in Nat
    BY <1>1, StepsLeftPositive
  <1>3. StepsLeft[NoCall.at] < StepsLeft[call[h].at]
    BY <1>2, NoCallTyped, StepsLeftIs
  <1> QED
    BY <1>3 DEF Return, Fewer

\* A handler that goes on to step s, whatever else it notes, has fewer, if s has.
LEMMA MoveRunsDown ==
  ASSUME NEW h \in Handlers, NEW c, call' = [call EXCEPT ![h] = c],
         \/ call[h].at = "plan_authorize" /\ c.at = "plan_create"
         \/ call[h].at = "plan_create" /\ c.at = "plan_preview"
         \/ call[h].at = "apply_fetch" /\ c.at = "apply_authorize"
         \/ call[h].at = "apply_authorize" /\ c.at = "claim"
         \/ call[h].at = "claim" /\ c.at \in {"intent", "dispatch"}
         \/ call[h].at = "intent" /\ c.at = "dispatch"
         \/ call[h].at = "dispatch" /\ c.at \in {"receipt", "settle"}
         \/ call[h].at = "receipt" /\ c.at = "settle"
  PROVE  Fewer(h)
  <1>1. StepsLeft[c.at] < StepsLeft[call[h].at]
    BY StepsLeftIs
  <1> QED
    BY <1>1 DEF Fewer

\* Every step of a call leaves it fewer.
LEMMA HandlerRunsDown ==
  ASSUME Ind, NEW h \in Handlers, call[h].at # "idle", Handler(h)
  PROVE  Fewer(h)
  <1>0. TypeOK /\ call[h] \in Calls
    BY DEF Ind, TypeOK
  <1>1. CASE Refuse(h) \/ PlanPreview(h) \/ IntentFails(h) \/ DispatchLost(h) \/ Settle(h)
    BY <1>0, <1>1, ReturnRunsDown DEF Refuse, PlanPreview, IntentFails, DispatchLost, Settle
  <1>2. CASE PlanAuthorize(h)
    <2>1. PICK c : c = [call[h] EXCEPT !.at = "plan_create", !.floor = 0]
      OBVIOUS
    <2>2. c.at = "plan_create" /\ call[h].at = "plan_authorize"
      BY <1>0, <1>2, <2>1 DEF PlanAuthorize, At, Calls
    <2>3. call' = [call EXCEPT ![h] = c]
      BY <1>2, <2>1 DEF PlanAuthorize
    <2> QED
      BY <2>2, <2>3, MoveRunsDown
  <1>3. CASE PlanCreate(h)
    <2>1. PICK i \in Ids :
            call' = [call EXCEPT ![h] = [NoCall EXCEPT !.at = "plan_preview", !.id = i]]
      BY <1>3 DEF PlanCreate
    <2>2. PICK c : c = [NoCall EXCEPT !.at = "plan_preview", !.id = i]
      OBVIOUS
    <2>3. c.at = "plan_preview" /\ call[h].at = "plan_create"
      BY <1>3, <2>2 DEF PlanCreate, At, NoCall
    <2>4. call' = [call EXCEPT ![h] = c]
      BY <2>1, <2>2
    <2> QED
      BY <2>3, <2>4, MoveRunsDown
  <1>4. CASE ApplyFetch(h)
    <2>1. PICK c : c = [call[h] EXCEPT !.at = "apply_authorize", !.existing = rule,
                                       !.floor = facts]
      OBVIOUS
    <2>2. c.at = "apply_authorize" /\ call[h].at = "apply_fetch"
      BY <1>0, <1>4, <2>1 DEF ApplyFetch, At, Calls
    <2>3. call' = [call EXCEPT ![h] = c]
      BY <1>4, <2>1 DEF ApplyFetch
    <2> QED
      BY <2>2, <2>3, MoveRunsDown
  <1>5. CASE ApplyAuthorize(h)
    <2>1. PICK touched : touched = Touched(call[h].action, call[h].existing)
      OBVIOUS
    <2>2. PICK c : c = [call[h] EXCEPT !.at = "claim", !.checked = touched, !.by = None,
                                       !.floor = 0]
      OBVIOUS
    <2>3. c.at = "claim" /\ call[h].at = "apply_authorize"
      BY <1>0, <1>5, <2>2 DEF ApplyAuthorize, At, Calls
    <2>4. call' = [call EXCEPT ![h] = c]
      BY <1>5, <2>1, <2>2 DEF ApplyAuthorize
    <2> QED
      BY <2>3, <2>4, MoveRunsDown
  <1>6. CASE Claim(h) \/ Intent(h) \/ Receipt(h)
    <2>1. PICK s \in Steps : /\ Goto(h, s)
                             /\ \/ call[h].at = "claim" /\ s \in {"intent", "dispatch"}
                                \/ call[h].at = "intent" /\ s = "dispatch"
                                \/ call[h].at = "receipt" /\ s = "settle"
      BY <1>6 DEF Claim, Intent, Receipt, At, Steps
    <2>2. PICK c \in Calls : call' = [call EXCEPT ![h] = c] /\ c.at = s
      BY <1>0, <2>1, GotoStep
    <2> QED
      BY <2>1, <2>2, MoveRunsDown
  <1>7. CASE DispatchDone(h) \/ DispatchRefused(h)
    <2>1. PICK o \in {"ok", "failed"} : Conclude(h, o)
      BY <1>7 DEF DispatchDone, DispatchRefused
    <2>2. call[h].at = "dispatch"
      BY <1>7 DEF DispatchDone, DispatchRefused, At
    <2>3. call[h].id \in Ids
      BY <2>2, NamedRecord DEF Naming, Acting
    <2>4. PICK c \in Calls : call' = [call EXCEPT ![h] = c] /\ c.at \in {"receipt", "settle"}
      BY <2>1, <2>3, ConcludeStep
    <2> QED
      BY <2>2, <2>4, MoveRunsDown
  <1>8. ~PlanStart(h) /\ ~ApplyStart(h)
    BY DEF PlanStart, ApplyStart, At
  <1> QED
    BY <1>1, <1>2, <1>3, <1>4, <1>5, <1>6, <1>7, <1>8 DEF Handler

\* A step of another call leaves this one alone.
LEMMA OthersLeaveAlone ==
  ASSUME Ind, NEW g \in Handlers, NEW h \in Handlers, g # h, Handler(g)
  PROVE  call'[h] = call[h]
  <1>1. CASE call[g].at # "idle"
    BY <1>1, HandlerRunsDown DEF Fewer, Ind, TypeOK
  <1>2. CASE call[g].at = "idle"
    <2>1. PlanStart(g) \/ ApplyStart(g)
      BY <1>2 DEF Handler, Refuse, PlanAuthorize, PlanCreate, PlanPreview, ApplyFetch,
                  ApplyAuthorize, Claim, Intent, IntentFails, DispatchDone, DispatchRefused,
                  DispatchLost, Receipt, Settle, At
    <2> QED
      BY <2>1 DEF PlanStart, ApplyStart, Ind, TypeOK
  <1> QED
    BY <1>1, <1>2

\* Nobody else gives a call more steps.
LEMMA OthersRunDown ==
  ASSUME Ind, NEW h \in Handlers, Next
  PROVE  call'[h] = call[h] \/ Handler(h) \/ call'[h] = NoCall
  <1>1. CASE \/ \E i \in Ids : Approve(i)
             \/ GuestsChange \/ RuleEdited \/ Crash \/ Restart
    BY <1>1 DEF Approve, GuestsChange, RuleEdited, Crash, Restart
  <1> QED
    BY <1>1, OthersLeaveAlone DEF Next

(***************************************************************************)
(* No plan or apply of a rule retries, or starts over when the rule is     *)
(* edited under it: each of its steps leaves fewer, and nobody adds any.   *)
(***************************************************************************)
THEOREM EveryCallRunsDown == Spec => CallsRunDown
  <1>1. Ind /\ Next => \A h \in Handlers : call[h].at # "idle" =>
                         /\ Handler(h) => Left(h)' < Left(h)
                         /\ Left(h)' <= Left(h)
    <2> SUFFICES ASSUME Ind, Next, NEW h \in Handlers, call[h].at # "idle"
                 PROVE  /\ Handler(h) => Left(h)' < Left(h)
                        /\ Left(h)' <= Left(h)
      OBVIOUS
    <2>1. StepsLeft[call[h].at] \in Nat
      BY StepsLeftPositive DEF Ind, TypeOK, Calls
    <2>2. ASSUME Handler(h)
          PROVE  /\ StepsLeft[call'[h].at] < StepsLeft[call[h].at]
                 /\ StepsLeft[call'[h].at] <= StepsLeft[call[h].at]
      <3>1. PICK c : call' = [call EXCEPT ![h] = c] /\ StepsLeft[c.at] < StepsLeft[call[h].at]
        BY <2>2, HandlerRunsDown DEF Fewer
      <3>2. call' \in [Handlers -> Calls]
        BY NextInd DEF Ind, TypeOK
      <3>3. StepsLeft[call'[h].at] \in Nat
        BY <3>2, StepsLeftPositive DEF Calls
      <3>4. call'[h] = c
        BY <3>1 DEF Ind, TypeOK
      <3> QED
        BY <2>1, <3>1, <3>3, <3>4
    <2>3. StepsLeft[call'[h].at] <= StepsLeft[call[h].at]
      <3>1. CASE call'[h] = call[h]
        BY <2>1, <3>1
      <3>2. CASE call'[h] = NoCall
        BY <2>1, <3>2, StepsLeftIs, NoCallTyped
      <3> QED
        BY <2>2, <3>1, <3>2, OthersRunDown
    <2> QED
      BY <2>2, <2>3 DEF Left
  <1>2. Ind /\ [Next]_vars
          => [\A h \in Handlers : call[h].at # "idle" =>
                /\ Handler(h) => Left(h)' < Left(h)
                /\ Left(h)' <= Left(h)]_vars
    BY <1>1
  <1> QED
    BY <1>2, Inductive, PTL DEF Spec, CallsRunDown
=============================================================================
