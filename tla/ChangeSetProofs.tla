-------------------------- MODULE ChangeSetProofs ---------------------------
(***************************************************************************)
(* Proofs about the life of a change set, for any number of handlers,      *)
(* change sets, principals, guest versions and crashes, whatever fails.    *)
(***************************************************************************)
EXTENDS ChangeSet, TLAPS

\* Handlers that name a change set, and those of them that apply it.
ApplyChecks == {"apply_authorize", "apply_config", "claim"}
Naming      == {"plan_preview", "plan_waive", "approve"} \cup ApplyChecks \cup ClaimSteps

\* Nothing has been done for change set i, and nothing says that it was.
Untouched(i) ==
  /\ sent[i] = 0
  /\ effect[i] = "none"
  /\ receipts[i] = {}
  /\ store[i] # None => store[i].handle = "none"

\* Approved, by whom it must be.
Authorized(i) ==
  /\ store[i].preview = "stored"
  /\ \/ store[i].approval = "second" /\ store[i].approver \in Humans \ {store[i].owner}
     \/ store[i].approval = "waived" /\ LabMode

\* What a change set's record says, by how far it has come.
RecordOK(i) ==
  /\ store[i] = None \/ InState(i, "Planned") \/ InState(i, "Approved")
       => Untouched(i) /\ intents[i] = 0
  /\ store[i] # None /\ ~InState(i, "Planned") => Authorized(i)
  /\ store[i] # None => store[i].claim = "None"
  /\ sent[i] = 0 <=> effect[i] = "none"
  /\ sent[i] <= 1 /\ intents[i] <= 1

\* A handler with the claim holds an Applying record, and knows how far its request
\* has come.
HolderOK(h) ==
  LET i == call[h].id IN
  call[h].at \in ClaimSteps =>
    /\ InState(i, "Applying")
    /\ call[h].at = "intent" => Untouched(i) /\ intents[i] = 0
    /\ call[h].at = "dispatch" => Untouched(i)
    /\ call[h].at \in {"dispatch", "persist", "poll", "receipt", "settle"} /\ HasEvidence
         => intents[i] = 1
    /\ call[h].at \in {"persist", "poll"} => effect[i] # "none"
    /\ call[h].at \in {"receipt", "settle"} => Truthful(i, call[h].outcome)

\* What a handler before the claim relies on.
CheckerOK(h) ==
  LET c == call[h] IN
  /\ c.at \in Naming => c.id \in Ids /\ store[c.id] # None
  /\ c.at \in PlanSteps \cup {"approve"} => c.by \in Principals
  /\ c.at \in {"plan_waive", "approve"} => store[c.id].preview = "stored"
  /\ c.at \in PlanSteps /\ c.override = "lab" => LabMode
  /\ c.at = "plan_waive" => LabMode
  /\ c.at \in ApplyChecks => store[c.id].preview = "stored"
  /\ c.at \in {"apply_authorize", "apply_config"} => c.floorConfig <= guest.config
  /\ c.at = "apply_config" => c.floorFacts <= c.facts

\* One holder of a claim at a time.
OneHolder ==
  \A g, h \in Handlers :
    call[g].at \in ClaimSteps /\ call[h].at \in ClaimSteps /\ call[g].id = call[h].id => g = h

\* Handlers run only while the server serves; recovery only before it does.
Phases ==
  /\ server # "serving" => \A h \in Handlers : call[h].at = "idle"
  /\ server # "recovering" => recovery.at = "probe"
  /\ recovery.at \in {"receipt", "settle"} =>
       /\ recovery.id \in Ids
       /\ Unresolved(recovery.id)
       /\ Truthful(recovery.id, recovery.outcome)

Ind ==
  /\ TypeOK
  /\ \A i \in Ids : RecordOK(i)
  /\ \A h \in Handlers : HolderOK(h) /\ CheckerOK(h)
  /\ OneHolder
  /\ Phases
  /\ EvidenceFirst
  /\ SettledTruthfully
  /\ ReceiptsTruthful
  /\ HandleWhileApplying
  /\ ActsOnPlannedGuest
-----------------------------------------------------------------------------
\* What steps do to the locals of a handler and to a record, field by field.

Steps == {"idle"} \cup PlanSteps \cup CheckSteps \cup ClaimSteps

\* Two records of the same plan; two records with the same preview and approval.
SamePlan(r, q)     == r.owner = q.owner /\ r.facts = q.facts /\ r.config = q.config
SameApproval(r, q) == /\ r.preview = q.preview
                      /\ r.approval = q.approval
                      /\ r.approver = q.approver

\* c is d, at another step.
MovedOn(c, d) == /\ c.id = d.id /\ c.by = d.by /\ c.override = d.override
                 /\ c.seen = d.seen /\ c.facts = d.facts /\ c.config = d.config
                 /\ c.floorFacts = d.floorFacts /\ c.floorConfig = d.floorConfig
                 /\ c.outcome = d.outcome

\* The locals of an idle handler, field by field.
LEMMA NoCallTyped ==
  /\ NoCall \in Calls
  /\ NoCall.at = "idle" /\ NoCall.id = None /\ NoCall.by = None
  /\ NoCall.override = "none" /\ NoCall.seen = "none" /\ NoCall.outcome = "failed"
  /\ NoCall.facts = 0 /\ NoCall.config = 0 /\ NoCall.floorFacts = 0 /\ NoCall.floorConfig = 0
  BY BoundAssumption DEF NoCall, Calls, Versions, Outcomes, Overrides

\* What Goto leaves of a handler's locals.
LEMMA GotoStep ==
  ASSUME TypeOK, NEW h \in Handlers, NEW s \in Steps, Goto(h, s)
  PROVE  \E c \in Calls : /\ call' = [call EXCEPT ![h] = c]
                          /\ c.at = s
                          /\ MovedOn(c, call[h])
  <1>1. call[h] \in Calls
    BY DEF TypeOK
  <1>2. [call[h] EXCEPT !.at = s] \in Calls
    BY <1>1 DEF Calls, Steps
  <1>3. MovedOn([call[h] EXCEPT !.at = s], call[h]) /\ [call[h] EXCEPT !.at = s].at = s
    BY <1>1 DEF MovedOn, Calls
  <1>4. call' = [call EXCEPT ![h] = [call[h] EXCEPT !.at = s]]
    BY DEF Goto
  <1> QED
    BY <1>2, <1>3, <1>4

\* What Conclude leaves of them.
LEMMA ConcludeStep ==
  ASSUME TypeOK, NEW h \in Handlers, call[h].id \in Ids, NEW o \in Outcomes, Conclude(h, o)
  PROVE  \E c \in Calls : /\ call' = [call EXCEPT ![h] = c]
                          /\ c.at \in {"receipt", "settle"}
                          /\ c.at = "receipt" => HasEvidence
                          /\ c.id = call[h].id
                          /\ c.outcome = o
  <1> DEFINE c == [NoCall EXCEPT !.at = IF HasEvidence THEN "receipt" ELSE "settle",
                                 !.id = call[h].id, !.outcome = o]
  <1>1. c \in Calls
    BY NoCallTyped DEF Calls, ClaimSteps
  <1>2. c.at \in {"receipt", "settle"} /\ c.id = call[h].id /\ c.outcome = o
    BY NoCallTyped DEF Calls
  <1>3. c.at = "receipt" => HasEvidence
    BY NoCallTyped, FlagAssumption DEF Calls
  <1>4. call' = [call EXCEPT ![h] = c]
    BY DEF Conclude
  <1> QED
    BY <1>1, <1>2, <1>3, <1>4

\* The record a handler names.
LEMMA NamedRecord ==
  ASSUME Ind, NEW h \in Handlers, call[h].at \in Naming
  PROVE  call[h].id \in Ids /\ store[call[h].id] \in Records
  BY DEF Ind, TypeOK, CheckerOK

\* What settling leaves of a record.
LEMMA SettledRecord ==
  ASSUME NEW r \in Records, NEW o \in Outcomes
  PROVE  /\ Settled(r, o) \in Records
         /\ Settled(r, o).state = IF o = "ok" THEN "Applied" ELSE "Failed"
         /\ Settled(r, o).handle = "none"
         /\ Settled(r, o).claim = r.claim
         /\ SamePlan(Settled(r, o), r)
         /\ SameApproval(Settled(r, o), r)
  BY DEF Settled, Records, States, SamePlan, SameApproval

-----------------------------------------------------------------------------
\* Steps of a handler that holds no claim and changes nothing but its own locals.

\* Such a step preserves the invariant, if what it has read is as CheckerOK says.
LEMMA QuietInd ==
  ASSUME Ind, NEW h \in Handlers, NEW c \in Calls,
         server = "serving", call' = [call EXCEPT ![h] = c], c.at \notin ClaimSteps,
         CheckerOK(h)',
         c.at = "claim" => /\ store[c.id].facts >= c.floorFacts
                           /\ store[c.id].config >= c.floorConfig,
         UNCHANGED <<server, crashes, guest, store, effect, sent, intents, receipts, recovery>>
  PROVE  Ind'
  <1> USE DEF Ind
  <1>1. TypeOK'
    BY DEF TypeOK
  <1>2. /\ \A j \in Ids : RecordOK(j)'
        /\ EvidenceFirst'
        /\ SettledTruthfully'
        /\ ReceiptsTruthful'
        /\ HandleWhileApplying'
    BY DEF RecordOK, Untouched, Authorized, InState, EvidenceFirst, SettledTruthfully,
       ReceiptsTruthful, Truthful, HandleWhileApplying
  <1>3. \A g \in Handlers : HolderOK(g)'
    BY DEF TypeOK, HolderOK, InState, Untouched, Truthful
  <1>4. \A g \in Handlers : CheckerOK(g)'
    BY DEF TypeOK, CheckerOK
  <1>5. OneHolder'
    BY DEF TypeOK, OneHolder
  <1>6. Phases'
    BY DEF TypeOK, Phases, Unresolved, InState, Truthful
  <1>7. ActsOnPlannedGuest'
    BY DEF TypeOK, ActsOnPlannedGuest, ClaimSteps
  <1> QED
    BY <1>1, <1>2, <1>3, <1>4, <1>5, <1>6, <1>7 DEF Ind

\* Lab mode answers only where there is lab mode.
LEMMA AdmittedLab ==
  ASSUME NEW by, NEW floor, NEW v, Admitted(by, floor, "lab", v)
  PROVE  LabMode
  BY DEF Admitted, OverrideAt, Override

\* One lemma per action from here on: it preserves the invariant.
LEMMA RefuseInd ==
  ASSUME Ind, NEW h \in Handlers, Refuse(h)
  PROVE  Ind'
  <1>1. CheckerOK(h)'
    BY NoCallTyped DEF Refuse, Return, CheckerOK, Ind, TypeOK, Naming, ApplyChecks,
       PlanSteps, ClaimSteps
  <1> QED
    BY <1>1, NoCallTyped, QuietInd DEF Refuse, Return, ClaimSteps

\* PlanStart preserves the invariant.
LEMMA PlanStartInd ==
  ASSUME Ind, NEW h \in Handlers, PlanStart(h)
  PROVE  Ind'
  <1>1. PICK by \in Principals :
          call' = [call EXCEPT ![h] = [NoCall EXCEPT !.at = "plan_authorize", !.by = by,
                                                     !.floorFacts = guest.facts]]
    BY DEF PlanStart
  <1> DEFINE c == [NoCall EXCEPT !.at = "plan_authorize", !.by = by,
                                 !.floorFacts = guest.facts]
  <1>2. guest.facts \in Versions
    BY DEF Ind, TypeOK
  <1>3. c \in Calls
    BY <1>2, NoCallTyped DEF Calls, PlanSteps
  <1>4. c.at = "plan_authorize" /\ c.by = by /\ c.override = "none"
    BY NoCallTyped DEF Calls
  <1>5. call' = [call EXCEPT ![h] = c]
    BY <1>1
  <1> HIDE DEF c
  <1>6. CheckerOK(h)'
    BY <1>4, <1>5 DEF CheckerOK, Ind, TypeOK, Naming, ApplyChecks, PlanSteps, ClaimSteps
  <1>7. server = "serving" /\ UNCHANGED <<server, crashes, guest, store, effect, sent,
                                          intents, receipts, recovery>>
    BY DEF PlanStart, At
  <1> QED
    BY <1>3, <1>4, <1>5, <1>6, <1>7, QuietInd DEF ClaimSteps

\* PlanAuthorize preserves the invariant.
LEMMA PlanAuthorizeInd ==
  ASSUME Ind, NEW h \in Handlers, PlanAuthorize(h)
  PROVE  Ind'
  <1>1. PICK o \in Overrides, v \in Versions :
          /\ Admitted(call[h].by, call[h].floorFacts, o, v)
          /\ call' = [call EXCEPT ![h] = [call[h] EXCEPT !.at = "plan_config", !.override = o,
                                                         !.facts = v]]
    BY DEF PlanAuthorize
  <1> DEFINE c == [call[h] EXCEPT !.at = "plan_config", !.override = o, !.facts = v]
  <1>2. call[h] \in Calls
    BY DEF Ind, TypeOK
  <1>3. c \in Calls
    BY <1>2 DEF Calls, PlanSteps
  <1>4. c.at = "plan_config" /\ c.by = call[h].by /\ c.override = o
    BY <1>2 DEF Calls
  <1>5. call' = [call EXCEPT ![h] = c]
    BY <1>1
  <1>6. o = "lab" => LabMode
    BY <1>1, AdmittedLab
  <1> HIDE DEF c
  <1>7. /\ server = "serving"
        /\ call[h].at = "plan_authorize"
        /\ UNCHANGED <<server, crashes, guest, store, effect, sent, intents, receipts, recovery>>
    BY DEF PlanAuthorize, At
  <1>8. CheckerOK(h)'
    BY <1>4, <1>5, <1>6, <1>7 DEF CheckerOK, Ind, TypeOK, Naming, ApplyChecks, PlanSteps,
       ClaimSteps
  <1> QED
    BY <1>3, <1>4, <1>5, <1>7, <1>8, QuietInd DEF ClaimSteps

\* PlanConfig preserves the invariant.
LEMMA PlanConfigInd ==
  ASSUME Ind, NEW h \in Handlers, PlanConfig(h)
  PROVE  Ind'
  <1> DEFINE c == [call[h] EXCEPT !.at = "plan_create", !.config = guest.config]
  <1>1. call[h] \in Calls /\ guest.config \in Versions
    BY DEF Ind, TypeOK
  <1>2. c \in Calls
    BY <1>1 DEF Calls, PlanSteps
  <1>3. c.at = "plan_create" /\ c.by = call[h].by /\ c.override = call[h].override
    BY <1>1 DEF Calls
  <1>4. call' = [call EXCEPT ![h] = c]
    BY DEF PlanConfig
  <1> HIDE DEF c
  <1>5. /\ server = "serving"
        /\ call[h].at = "plan_config"
        /\ UNCHANGED <<server, crashes, guest, store, effect, sent, intents, receipts, recovery>>
    BY DEF PlanConfig, At
  <1>6. CheckerOK(h)'
    BY <1>3, <1>4, <1>5 DEF CheckerOK, Ind, TypeOK, Naming, ApplyChecks, PlanSteps, ClaimSteps
  <1> QED
    BY <1>2, <1>3, <1>4, <1>5, <1>6, QuietInd DEF ClaimSteps

\* ApproveStart preserves the invariant.
LEMMA ApproveStartInd ==
  ASSUME Ind, NEW h \in Handlers, ApproveStart(h)
  PROVE  Ind'
  <1>1. PICK i \in Ids, by \in Principals :
          /\ store[i] # None /\ store[i].preview = "stored"
          /\ call' = [call EXCEPT ![h] = [NoCall EXCEPT !.at = "approve", !.id = i, !.by = by]]
    BY DEF ApproveStart
  <1> DEFINE c == [NoCall EXCEPT !.at = "approve", !.id = i, !.by = by]
  <1>2. c \in Calls
    BY NoCallTyped DEF Calls, CheckSteps
  <1>3. c.at = "approve" /\ c.id = i /\ c.by = by
    BY NoCallTyped DEF Calls
  <1>4. call' = [call EXCEPT ![h] = c]
    BY <1>1
  <1> HIDE DEF c
  <1>5. server = "serving" /\ UNCHANGED <<server, crashes, guest, store, effect, sent,
                                          intents, receipts, recovery>>
    BY DEF ApproveStart, At
  <1>6. CheckerOK(h)'
    BY <1>1, <1>3, <1>4, <1>5 DEF CheckerOK, Ind, TypeOK, Naming, ApplyChecks, PlanSteps,
       ClaimSteps
  <1> QED
    BY <1>2, <1>3, <1>4, <1>5, <1>6, QuietInd DEF ClaimSteps

\* ApplyStart preserves the invariant.
LEMMA ApplyStartInd ==
  ASSUME Ind, NEW h \in Handlers, ApplyStart(h)
  PROVE  Ind'
  <1>1. PICK i \in Ids, by \in Principals :
          /\ store[i] # None /\ store[i].preview = "stored"
          /\ call' = [call EXCEPT ![h] =
               [NoCall EXCEPT !.at = "apply_authorize", !.id = i, !.by = by,
                              !.seen = store[i].state, !.floorFacts = guest.facts,
                              !.floorConfig = guest.config]]
    BY DEF ApplyStart
  <1> DEFINE c == [NoCall EXCEPT !.at = "apply_authorize", !.id = i, !.by = by,
                                 !.seen = store[i].state, !.floorFacts = guest.facts,
                                 !.floorConfig = guest.config]
  <1>2. guest.facts \in Versions /\ guest.config \in Versions /\ store[i].state \in States
    BY <1>1 DEF Ind, TypeOK, Records
  <1>3. c \in Calls
    BY <1>2, NoCallTyped DEF Calls, CheckSteps
  <1>4. c.at = "apply_authorize" /\ c.id = i /\ c.floorConfig = guest.config
    BY NoCallTyped DEF Calls
  <1>5. call' = [call EXCEPT ![h] = c]
    BY <1>1
  <1> HIDE DEF c
  <1>6. server = "serving" /\ UNCHANGED <<server, crashes, guest, store, effect, sent,
                                          intents, receipts, recovery>>
    BY DEF ApplyStart, At
  <1>7. guest.config <= guest.config
    BY <1>2, BoundAssumption DEF Versions
  <1>8. CheckerOK(h)'
    BY <1>1, <1>4, <1>5, <1>6, <1>7 DEF CheckerOK, Ind, TypeOK, Naming, ApplyChecks,
       PlanSteps, ClaimSteps
  <1> QED
    BY <1>3, <1>4, <1>5, <1>6, <1>8, QuietInd DEF ClaimSteps

\* ApplyAuthorize preserves the invariant.
LEMMA ApplyAuthorizeInd ==
  ASSUME Ind, NEW h \in Handlers, ApplyAuthorize(h)
  PROVE  Ind'
  <1>1. PICK v \in Versions :
          /\ v \in call[h].floorFacts .. guest.facts
          /\ call' = [call EXCEPT ![h] = [call[h] EXCEPT !.at = "apply_config", !.facts = v]]
    BY DEF ApplyAuthorize, Admitted
  <1> DEFINE c == [call[h] EXCEPT !.at = "apply_config", !.facts = v]
  <1>2. call[h] \in Calls /\ guest.facts \in Versions
    BY DEF Ind, TypeOK
  <1>3. call[h].floorFacts <= v
    BY <1>1, <1>2, BoundAssumption DEF Calls, Versions
  <1>4. c \in Calls
    BY <1>2 DEF Calls, CheckSteps
  <1>5. /\ c.at = "apply_config" /\ c.id = call[h].id
        /\ c.floorFacts <= c.facts /\ c.floorConfig = call[h].floorConfig
    BY <1>2, <1>3 DEF Calls
  <1>6. call' = [call EXCEPT ![h] = c]
    BY <1>1
  <1> HIDE DEF c
  <1>7. /\ server = "serving"
        /\ call[h].at = "apply_authorize"
        /\ UNCHANGED <<server, crashes, guest, store, effect, sent, intents, receipts, recovery>>
    BY DEF ApplyAuthorize, At
  <1>8. CheckerOK(h)'
    BY <1>5, <1>6, <1>7 DEF CheckerOK, Ind, TypeOK, Naming, ApplyChecks, PlanSteps, ClaimSteps
  <1> QED
    BY <1>4, <1>5, <1>6, <1>7, <1>8, QuietInd DEF ClaimSteps

\* ApplyConfig preserves the invariant.
LEMMA ApplyConfigInd ==
  ASSUME Ind, NEW h \in Handlers, ApplyConfig(h)
  PROVE  Ind'
  <1>1. TypeOK /\ Goto(h, "claim") /\ "claim" \in Steps
    BY DEF ApplyConfig, Ind, Steps, CheckSteps
  <1>2. PICK c \in Calls : /\ call' = [call EXCEPT ![h] = c]
                           /\ c.at = "claim"
                           /\ MovedOn(c, call[h])
    BY <1>1, GotoStep
  <1>3. /\ server = "serving"
        /\ call[h].at = "apply_config"
        /\ store[call[h].id].facts = call[h].facts
        /\ store[call[h].id].config = guest.config
        /\ UNCHANGED <<server, crashes, guest, store, effect, sent, intents, receipts, recovery>>
    BY DEF ApplyConfig, At
  <1>4. CheckerOK(h)'
    BY <1>2, <1>3 DEF CheckerOK, MovedOn, Ind, TypeOK, Naming, ApplyChecks, PlanSteps, ClaimSteps
  <1>5. /\ call[h].floorFacts <= call[h].facts
        /\ call[h].floorConfig <= guest.config
    BY <1>3 DEF Ind, CheckerOK
  <1>6. store[c.id].facts >= c.floorFacts /\ store[c.id].config >= c.floorConfig
    BY <1>2, <1>3, <1>5 DEF MovedOn
  <1> QED
    BY <1>2, <1>3, <1>4, <1>6, QuietInd DEF ClaimSteps

\* PlanCreate preserves the invariant.
LEMMA PlanCreateInd ==
  ASSUME Ind, NEW h \in Handlers, PlanCreate(h)
  PROVE  Ind'
  <1> USE FlagAssumption, NoneAssumption, NoCallTyped DEF Ind
  <1>1. call[h] \in Calls /\ call[h].by \in Principals
    BY DEF PlanCreate, At, TypeOK, CheckerOK, PlanSteps
  <1>2. PICK i \in Ids, r \in Records, c \in Calls :
          /\ store[i] = None
          /\ store' = [store EXCEPT ![i] = r]
          /\ r.state = "Planned" /\ r.handle = "none" /\ r.claim = "None"
          /\ call' = [call EXCEPT ![h] = c]
          /\ c.at = "plan_preview" /\ c.id = i
          /\ c.by = call[h].by /\ c.override = call[h].override
    <2>1. PICK i \in Ids :
            /\ store[i] = None
            /\ store' = [store EXCEPT ![i] =
                 [state |-> "Planned", preview |-> "missing", owner |-> call[h].by,
                  approver |-> None, approval |-> "none", facts |-> call[h].facts,
                  config |-> call[h].config, claim |-> "None", handle |-> "none"]]
            /\ call' = [call EXCEPT ![h] = [@ EXCEPT !.at = "plan_preview", !.id = i]]
      BY DEF PlanCreate
    <2> DEFINE r == [state |-> "Planned", preview |-> "missing", owner |-> call[h].by,
                     approver |-> None, approval |-> "none", facts |-> call[h].facts,
                     config |-> call[h].config, claim |-> "None", handle |-> "none"]
               c == [call[h] EXCEPT !.at = "plan_preview", !.id = i]
    <2>2. r \in Records
      BY <1>1 DEF Records, States, Calls
    <2>3. c \in Calls /\ c.at = "plan_preview" /\ c.id = i
      BY <1>1 DEF Calls, PlanSteps
    <2>4. c.by = call[h].by /\ c.override = call[h].override
      BY <1>1 DEF Calls
    <2>5. call' = [call EXCEPT ![h] = c]
      BY <2>1
    <2>6. /\ store' = [store EXCEPT ![i] = r]
          /\ r.state = "Planned" /\ r.handle = "none" /\ r.claim = "None"
      BY <2>1
    <2>7. store[i] = None
      BY <2>1
    <2> HIDE DEF r, c
    <2> QED
      BY <2>2, <2>3, <2>4, <2>5, <2>6, <2>7
  <1>3. /\ server = "serving"
        /\ call[h].at = "plan_create"
        /\ UNCHANGED <<server, crashes, guest, effect, sent, intents, receipts, recovery>>
    BY DEF PlanCreate, At
  <1>4. TypeOK'
    BY <1>2, <1>3 DEF TypeOK
  <1>5. \A j \in Ids : RecordOK(j)'
    BY <1>2, <1>3 DEF RecordOK, Untouched, Authorized, InState
  <1>6. \A g \in Handlers : HolderOK(g)'
    BY <1>2, <1>3 DEF Untouched, InState, HolderOK, CheckerOK, Truthful, TypeOK,
       ClaimSteps, Naming
  <1>7. \A g \in Handlers : CheckerOK(g)'
    BY <1>2, <1>3 DEF CheckerOK, TypeOK, PlanSteps, ApplyChecks, Naming
  <1>8. OneHolder'
    BY <1>2 DEF OneHolder, HolderOK, InState
  <1>9. Phases'
    BY <1>3 DEF Phases
  <1>10. SettledTruthfully'
    BY <1>2, <1>3 DEF SettledTruthfully, Truthful, InState
  <1>11. HandleWhileApplying'
    BY <1>2, <1>3 DEF HandleWhileApplying
  <1>12. ActsOnPlannedGuest'
    BY <1>2 DEF ActsOnPlannedGuest, CheckerOK, ClaimSteps, ApplyChecks, Naming
  <1>13. /\ EvidenceFirst'
         /\ ReceiptsTruthful'
    BY <1>3 DEF EvidenceFirst, ReceiptsTruthful, Truthful
  <1> QED
    BY <1>4, <1>5, <1>6, <1>7, <1>8, <1>9, <1>10, <1>11, <1>12, <1>13 DEF Ind

\* PlanPreview preserves the invariant.
LEMMA PlanPreviewInd ==
  ASSUME Ind, NEW h \in Handlers, PlanPreview(h)
  PROVE  Ind'
  <1> USE FlagAssumption, NoneAssumption, NoCallTyped DEF Ind
  <1>1. call[h] \in Calls /\ call[h].id \in Ids /\ store[call[h].id] \in Records
    BY NamedRecord DEF PlanPreview, At, TypeOK, Naming, ApplyChecks, ClaimSteps
  <1>2. PICK c \in Calls : /\ call' = [call EXCEPT ![h] = c]
                          /\ \/ c.at = "idle"
                             \/ c.at = "plan_waive" /\ MovedOn(c, call[h]) /\ call[h].override = "lab"
    <2>1. CASE call[h].override = "lab"
      <3>1. TypeOK /\ Goto(h, "plan_waive") /\ "plan_waive" \in Steps
        BY <2>1 DEF PlanPreview, Steps, PlanSteps
      <3> QED
        BY <2>1, <3>1, GotoStep
    <2>2. CASE call[h].override # "lab"
      BY <2>2 DEF PlanPreview, Return
    <2> QED
      BY <2>1, <2>2
  <1>3. \E r \in Records : /\ store' = [store EXCEPT ![call[h].id] = r]
                          /\ r.preview = "stored"
                          /\ r.state = store[call[h].id].state
                          /\ r.approval = store[call[h].id].approval
                          /\ r.approver = store[call[h].id].approver
                          /\ r.handle = store[call[h].id].handle
                          /\ r.claim = store[call[h].id].claim
                          /\ SamePlan(r, store[call[h].id])
    <2> DEFINE r == [store[call[h].id] EXCEPT !.preview = "stored"]
    <2>1. r \in Records
      BY <1>1 DEF Records, States
    <2>2. /\ r.preview = "stored"
          /\ r.state = store[call[h].id].state
          /\ r.approval = store[call[h].id].approval
          /\ r.approver = store[call[h].id].approver
          /\ r.handle = store[call[h].id].handle
          /\ r.claim = store[call[h].id].claim
          /\ SamePlan(r, store[call[h].id])
      BY <1>1 DEF Records, SamePlan, SameApproval
    <2>3. store' = [store EXCEPT ![call[h].id] = r]
      BY DEF PlanPreview
    <2> HIDE DEF r
    <2> QED
      BY <2>1, <2>2, <2>3
  <1>4. /\ server = "serving"
        /\ call[h].at = "plan_preview"
        /\ UNCHANGED <<server, crashes, guest, effect, sent, intents, receipts, recovery>>
    BY DEF PlanPreview, At
  <1>5. TypeOK'
    BY <1>2, <1>3, <1>4 DEF TypeOK
  <1>6. \A j \in Ids : RecordOK(j)'
    BY <1>1, <1>3, <1>4 DEF RecordOK, Untouched, Authorized, InState, SamePlan
  <1>7. \A g \in Handlers : HolderOK(g)'
    BY <1>2, <1>3, <1>4 DEF Untouched, InState, HolderOK, CheckerOK, Truthful, TypeOK,
       ClaimSteps, Naming
  <1>8. \A g \in Handlers : CheckerOK(g)'
    BY <1>2, <1>3, <1>4 DEF CheckerOK, TypeOK, PlanSteps, ClaimSteps, ApplyChecks,
       Naming, MovedOn
  <1>9. OneHolder'
    BY <1>2 DEF OneHolder, ClaimSteps
  <1>10. Phases'
    BY <1>4 DEF Phases
  <1>11. SettledTruthfully'
    BY <1>1, <1>3, <1>4 DEF SettledTruthfully, Truthful, InState
  <1>12. HandleWhileApplying'
    BY <1>1, <1>3, <1>4 DEF HandleWhileApplying
  <1>13. ActsOnPlannedGuest'
    BY <1>2, <1>3 DEF ActsOnPlannedGuest, SamePlan
  <1>14. /\ EvidenceFirst'
         /\ ReceiptsTruthful'
    BY <1>4 DEF EvidenceFirst, ReceiptsTruthful, Truthful
  <1> QED
    BY <1>5, <1>6, <1>7, <1>8, <1>9, <1>10, <1>11, <1>12, <1>13, <1>14 DEF Ind

\* PlanWaive preserves the invariant.
LEMMA PlanWaiveInd ==
  ASSUME Ind, NEW h \in Handlers, PlanWaive(h)
  PROVE  Ind'
  <1> USE FlagAssumption, NoneAssumption, NoCallTyped DEF Ind
  <1>1. call[h] \in Calls /\ call[h].id \in Ids /\ store[call[h].id] \in Records
    BY NamedRecord DEF PlanWaive, At, TypeOK, Naming, ApplyChecks, ClaimSteps
  <1>2. call' = [call EXCEPT ![h] = NoCall]
    BY DEF PlanWaive, Return
  <1>3. \E r \in Records : /\ store' = [store EXCEPT ![call[h].id] = r]
                          /\ r.state = "Approved" /\ r.approval = "waived"
                          /\ r.preview = store[call[h].id].preview
                          /\ r.handle = store[call[h].id].handle
                          /\ r.claim = store[call[h].id].claim
                          /\ SamePlan(r, store[call[h].id])
    <2> DEFINE r == [store[call[h].id] EXCEPT !.state = "Approved", !.approval = "waived"]
    <2>1. r \in Records
      BY <1>1 DEF Records, States
    <2>2. /\ r.state = "Approved" /\ r.approval = "waived"
          /\ r.preview = store[call[h].id].preview
          /\ r.handle = store[call[h].id].handle
          /\ r.claim = store[call[h].id].claim
          /\ SamePlan(r, store[call[h].id])
      BY <1>1 DEF Records, SamePlan, SameApproval
    <2>3. store' = [store EXCEPT ![call[h].id] = r]
      BY DEF PlanWaive
    <2> HIDE DEF r
    <2> QED
      BY <2>1, <2>2, <2>3
  <1>4. /\ server = "serving"
        /\ call[h].at = "plan_waive"
        /\ InState(call[h].id, "Planned")
        /\ UNCHANGED <<server, crashes, guest, effect, sent, intents, receipts, recovery>>
    BY DEF PlanWaive, At
  <1>5. TypeOK'
    BY <1>2, <1>3, <1>4 DEF TypeOK
  <1>6. \A j \in Ids : RecordOK(j)'
    BY <1>3, <1>4 DEF RecordOK, Untouched, Authorized, InState, CheckerOK
  <1>7. \A g \in Handlers : HolderOK(g)'
    BY <1>2, <1>3, <1>4 DEF Untouched, InState, HolderOK, CheckerOK, Truthful, TypeOK,
       ClaimSteps, Naming
  <1>8. \A g \in Handlers : CheckerOK(g)'
    BY <1>2, <1>3, <1>4 DEF CheckerOK, PlanSteps, ClaimSteps, ApplyChecks, Naming
  <1>9. OneHolder'
    BY <1>2 DEF OneHolder, ClaimSteps
  <1>10. Phases'
    BY <1>4 DEF Phases
  <1>11. SettledTruthfully'
    BY <1>3, <1>4 DEF SettledTruthfully, Truthful, InState
  <1>12. HandleWhileApplying'
    BY <1>1, <1>3, <1>4 DEF HandleWhileApplying, RecordOK, Untouched
  <1>13. ActsOnPlannedGuest'
    BY <1>2, <1>3 DEF ActsOnPlannedGuest, SamePlan
  <1>14. /\ EvidenceFirst'
         /\ ReceiptsTruthful'
    BY <1>4 DEF EvidenceFirst, ReceiptsTruthful, Truthful
  <1> QED
    BY <1>5, <1>6, <1>7, <1>8, <1>9, <1>10, <1>11, <1>12, <1>13, <1>14 DEF Ind

\* Approve preserves the invariant.
LEMMA ApproveInd ==
  ASSUME Ind, NEW h \in Handlers, Approve(h)
  PROVE  Ind'
  <1> USE FlagAssumption, NoneAssumption, NoCallTyped DEF Ind
  <1>1. call[h] \in Calls /\ call[h].id \in Ids /\ store[call[h].id] \in Records
    BY NamedRecord DEF Approve, At, TypeOK, Naming, ApplyChecks, ClaimSteps
  <1>2. call' = [call EXCEPT ![h] = NoCall]
    BY DEF Approve, Return
  <1>3. \E r \in Records : /\ store' = [store EXCEPT ![call[h].id] = r]
                          /\ r.state = "Approved" /\ r.approval = "second" /\ r.approver = call[h].by
                          /\ r.preview = store[call[h].id].preview
                          /\ r.handle = store[call[h].id].handle
                          /\ r.claim = store[call[h].id].claim
                          /\ SamePlan(r, store[call[h].id])
    <2> DEFINE r == [store[call[h].id] EXCEPT !.state = "Approved", !.approval = "second", !.approver = call[h].by]
    <2>1. r \in Records
      BY <1>1, HumansAssumption DEF Records, States, Approve, Calls
    <2>2. /\ r.state = "Approved" /\ r.approval = "second" /\ r.approver = call[h].by
          /\ r.preview = store[call[h].id].preview
          /\ r.handle = store[call[h].id].handle
          /\ r.claim = store[call[h].id].claim
          /\ SamePlan(r, store[call[h].id])
      BY <1>1 DEF Records, SamePlan, SameApproval
    <2>3. store' = [store EXCEPT ![call[h].id] = r]
      BY DEF Approve
    <2> HIDE DEF r
    <2> QED
      BY <2>1, <2>2, <2>3
  <1>4. /\ server = "serving"
        /\ call[h].at = "approve"
        /\ InState(call[h].id, "Planned")
        /\ call[h].by \in Humans /\ call[h].by # store[call[h].id].owner
        /\ UNCHANGED <<server, crashes, guest, effect, sent, intents, receipts, recovery>>
    BY DEF Approve, At
  <1>5. TypeOK'
    BY <1>1, <1>2, <1>3, <1>4 DEF TypeOK
  <1>6. \A j \in Ids : RecordOK(j)'
    BY <1>3, <1>4 DEF RecordOK, Untouched, Authorized, InState, CheckerOK, SamePlan
  <1>7. \A g \in Handlers : HolderOK(g)'
    BY <1>2, <1>3, <1>4 DEF Untouched, InState, HolderOK, OneHolder, Truthful,
       ClaimSteps, SamePlan
  <1>8. \A g \in Handlers : CheckerOK(g)'
    BY <1>2, <1>3, <1>4 DEF CheckerOK, PlanSteps, ClaimSteps, ApplyChecks, Naming
  <1>9. OneHolder'
    BY <1>2 DEF OneHolder, ClaimSteps
  <1>10. Phases'
    BY <1>4 DEF Phases
  <1>11. SettledTruthfully'
    BY <1>3, <1>4 DEF SettledTruthfully, Truthful, InState
  <1>12. HandleWhileApplying'
    BY <1>1, <1>3, <1>4 DEF HandleWhileApplying, RecordOK, Untouched
  <1>13. ActsOnPlannedGuest'
    BY <1>2, <1>3 DEF ActsOnPlannedGuest, SamePlan
  <1>14. /\ EvidenceFirst'
         /\ ReceiptsTruthful'
    BY <1>4 DEF EvidenceFirst, ReceiptsTruthful, Truthful
  <1> QED
    BY <1>5, <1>6, <1>7, <1>8, <1>9, <1>10, <1>11, <1>12, <1>13, <1>14 DEF Ind

\* Claim preserves the invariant.
LEMMA ClaimInd ==
  ASSUME Ind, NEW h \in Handlers, Claim(h)
  PROVE  Ind'
  <1> USE FlagAssumption, NoneAssumption, NoCallTyped DEF Ind
  <1>1. call[h] \in Calls /\ call[h].id \in Ids /\ store[call[h].id] \in Records
    BY NamedRecord DEF Claim, At, TypeOK, Naming, ApplyChecks, ClaimSteps
  <1>2. PICK c \in Calls : /\ call' = [call EXCEPT ![h] = c]
                          /\ c.at \in {"intent", "dispatch"} /\ (c.at = "intent" <=> HasEvidence)
                          /\ MovedOn(c, call[h])
    <2>1. CASE HasEvidence
      <3>1. TypeOK /\ Goto(h, "intent") /\ "intent" \in Steps
        BY <2>1 DEF Claim, Steps, ClaimSteps
      <3> QED
        BY <2>1, <3>1, GotoStep
    <2>2. CASE ~HasEvidence
      <3>1. TypeOK /\ Goto(h, "dispatch") /\ "dispatch" \in Steps
        BY <2>2 DEF Claim, Steps, ClaimSteps
      <3> QED
        BY <2>2, <3>1, GotoStep
    <2> QED
      BY <2>1, <2>2
  <1>3. \E r \in Records : /\ store' = [store EXCEPT ![call[h].id] = r]
                          /\ r.state = "Applying" /\ r.claim = "None"
                          /\ r.handle = store[call[h].id].handle
                          /\ SamePlan(r, store[call[h].id])
                          /\ SameApproval(r, store[call[h].id])
    <2> DEFINE r == [store[call[h].id] EXCEPT !.state = "Applying", !.claim = "None"]
    <2>1. r \in Records
      BY <1>1 DEF Records, States
    <2>2. /\ r.state = "Applying" /\ r.claim = "None"
          /\ r.handle = store[call[h].id].handle
          /\ SamePlan(r, store[call[h].id])
          /\ SameApproval(r, store[call[h].id])
      BY <1>1 DEF Records, SamePlan, SameApproval
    <2>3. store' = [store EXCEPT ![call[h].id] = r]
      BY DEF Claim
    <2> HIDE DEF r
    <2> QED
      BY <2>1, <2>2, <2>3
  <1>4. /\ server = "serving"
        /\ call[h].at = "claim"
        /\ InState(call[h].id, "Approved")
        /\ UNCHANGED <<server, crashes, guest, effect, sent, intents, receipts, recovery>>
    BY DEF Claim, At
  <1>5. TypeOK'
    BY <1>1, <1>2, <1>3, <1>4 DEF TypeOK
  <1>6. \A j \in Ids : RecordOK(j)'
    BY <1>3, <1>4 DEF RecordOK, Untouched, Authorized, InState, SamePlan, SameApproval
  <1>7. \A g \in Handlers : HolderOK(g)'
    BY <1>1, <1>2, <1>3, <1>4 DEF RecordOK, Untouched, InState, HolderOK, CheckerOK,
       Truthful, TypeOK, Naming, MovedOn
  <1>8. \A g \in Handlers : CheckerOK(g)'
    BY <1>1, <1>2, <1>3, <1>4 DEF CheckerOK, PlanSteps, ApplyChecks, MovedOn,
       SameApproval
  <1>9. OneHolder'
    BY <1>2, <1>4 DEF OneHolder, HolderOK, InState, MovedOn
  <1>10. Phases'
    BY <1>4 DEF Phases
  <1>11. SettledTruthfully'
    BY <1>3, <1>4 DEF SettledTruthfully, Truthful, InState
  <1>12. HandleWhileApplying'
    BY <1>1, <1>3, <1>4 DEF HandleWhileApplying
  <1>13. ActsOnPlannedGuest'
    BY <1>2, <1>3, <1>4 DEF ActsOnPlannedGuest, MovedOn, SamePlan
  <1>14. /\ EvidenceFirst'
         /\ ReceiptsTruthful'
    BY <1>4 DEF EvidenceFirst, ReceiptsTruthful, Truthful
  <1> QED
    BY <1>5, <1>6, <1>7, <1>8, <1>9, <1>10, <1>11, <1>12, <1>13, <1>14 DEF Ind

\* Intent preserves the invariant.
LEMMA IntentInd ==
  ASSUME Ind, NEW h \in Handlers, Intent(h)
  PROVE  Ind'
  <1> USE FlagAssumption, NoneAssumption, NoCallTyped DEF Ind
  <1>1. call[h] \in Calls /\ call[h].id \in Ids /\ store[call[h].id] \in Records
    BY NamedRecord DEF Intent, At, TypeOK, Naming, ApplyChecks, ClaimSteps
  <1>2. PICK c \in Calls : /\ call' = [call EXCEPT ![h] = c]
                          /\ c.at = "dispatch"
                          /\ MovedOn(c, call[h])
    <2>1. TypeOK /\ Goto(h, "dispatch") /\ "dispatch" \in Steps
      BY DEF Intent, Steps, ClaimSteps
    <2> QED
      BY <2>1, GotoStep
  <1>3. /\ server = "serving"
        /\ call[h].at = "intent"
        /\ intents' = [intents EXCEPT ![call[h].id] = @ + 1]
        /\ UNCHANGED <<server, crashes, guest, store, effect, sent, receipts, recovery>>
    BY DEF Intent, At
  <1>4. TypeOK'
    BY <1>1, <1>2, <1>3 DEF TypeOK
  <1>5. \A j \in Ids : RecordOK(j)'
    BY <1>3 DEF RecordOK, Untouched, Authorized, InState, HolderOK, ClaimSteps
  <1>6. \A g \in Handlers : HolderOK(g)'
    BY <1>2, <1>3 DEF Untouched, InState, HolderOK, CheckerOK, OneHolder, Truthful,
       TypeOK, ClaimSteps, Naming, MovedOn
  <1>7. \A g \in Handlers : CheckerOK(g)'
    BY <1>1, <1>2, <1>3 DEF CheckerOK, PlanSteps, ApplyChecks, MovedOn
  <1>8. OneHolder'
    BY <1>2, <1>3 DEF OneHolder, ClaimSteps, MovedOn
  <1>9. Phases'
    BY <1>3 DEF Phases
  <1>10. EvidenceFirst'
    BY <1>3 DEF EvidenceFirst, HolderOK, ClaimSteps
  <1>11. ActsOnPlannedGuest'
    BY <1>2, <1>3 DEF ActsOnPlannedGuest, MovedOn
  <1>12. /\ SettledTruthfully'
         /\ ReceiptsTruthful'
         /\ HandleWhileApplying'
    BY <1>3 DEF SettledTruthfully, InState, Truthful, ReceiptsTruthful,
       HandleWhileApplying
  <1> QED
    BY <1>4, <1>5, <1>6, <1>7, <1>8, <1>9, <1>10, <1>11, <1>12 DEF Ind

\* IntentFails preserves the invariant.
LEMMA IntentFailsInd ==
  ASSUME Ind, NEW h \in Handlers, IntentFails(h)
  PROVE  Ind'
  <1> USE FlagAssumption, NoneAssumption, NoCallTyped DEF Ind
  <1>1. call[h] \in Calls /\ call[h].id \in Ids /\ store[call[h].id] \in Records
    BY NamedRecord DEF IntentFails, At, TypeOK, Naming, ApplyChecks, ClaimSteps
  <1>2. call' = [call EXCEPT ![h] = NoCall]
    BY DEF IntentFails, Return
  <1>3. \/ store' = store
        \/ \E r \in Records : /\ store' = [store EXCEPT ![call[h].id] = r]
                              /\ r.state = "Failed"
                              /\ r.claim = store[call[h].id].claim
                              /\ r.handle = store[call[h].id].handle
                              /\ SamePlan(r, store[call[h].id])
                              /\ SameApproval(r, store[call[h].id])
    <2> DEFINE r == [store[call[h].id] EXCEPT !.state = "Failed"]
    <2>1. r \in Records
      BY <1>1 DEF Records, States
    <2>2. /\ r.state = "Failed"
          /\ r.claim = store[call[h].id].claim
          /\ r.handle = store[call[h].id].handle
          /\ SamePlan(r, store[call[h].id])
          /\ SameApproval(r, store[call[h].id])
      BY <1>1 DEF Records, SamePlan, SameApproval
    <2>3. store' = [store EXCEPT ![call[h].id] = r] \/ store' = store
      BY DEF IntentFails
    <2> HIDE DEF r
    <2> QED
      BY <2>1, <2>2, <2>3
  <1>4. /\ server = "serving"
        /\ call[h].at = "intent"
        /\ UNCHANGED <<server, crashes, guest, effect, sent, intents, receipts, recovery>>
    BY DEF IntentFails, At
  <1>5. TypeOK'
    BY <1>2, <1>3, <1>4 DEF TypeOK
  <1>6. \A j \in Ids : RecordOK(j)'
    BY <1>3, <1>4 DEF RecordOK, Untouched, Authorized, InState, HolderOK, TypeOK,
       ClaimSteps, SamePlan, SameApproval
  <1>7. \A g \in Handlers : HolderOK(g)'
    BY <1>2, <1>3, <1>4 DEF Untouched, InState, HolderOK, CheckerOK, OneHolder,
       Truthful, TypeOK, ClaimSteps, Naming
  <1>8. \A g \in Handlers : CheckerOK(g)'
    BY <1>2, <1>3, <1>4 DEF CheckerOK, TypeOK, PlanSteps, ClaimSteps, ApplyChecks,
       Naming, SameApproval
  <1>9. OneHolder'
    BY <1>2 DEF OneHolder, ClaimSteps
  <1>10. Phases'
    BY <1>4 DEF Phases
  <1>11. SettledTruthfully'
    BY <1>3, <1>4 DEF SettledTruthfully, Truthful, InState, HolderOK, Untouched, TypeOK,
       ClaimSteps
  <1>12. HandleWhileApplying'
    BY <1>1, <1>3, <1>4 DEF HandleWhileApplying, HolderOK, Untouched, TypeOK, ClaimSteps
  <1>13. ActsOnPlannedGuest'
    BY <1>2, <1>3 DEF ActsOnPlannedGuest, CheckerOK, TypeOK, ClaimSteps, ApplyChecks,
       Naming, SamePlan
  <1>14. /\ EvidenceFirst'
         /\ ReceiptsTruthful'
    BY <1>4 DEF EvidenceFirst, ReceiptsTruthful, Truthful
  <1> QED
    BY <1>5, <1>6, <1>7, <1>8, <1>9, <1>10, <1>11, <1>12, <1>13, <1>14 DEF Ind

\* DispatchAccepted preserves the invariant.
LEMMA DispatchAcceptedInd ==
  ASSUME Ind, NEW h \in Handlers, DispatchAccepted(h)
  PROVE  Ind'
  <1> USE FlagAssumption, NoneAssumption, NoCallTyped DEF Ind
  <1>1. call[h] \in Calls /\ call[h].id \in Ids /\ store[call[h].id] \in Records
    BY NamedRecord DEF DispatchAccepted, At, TypeOK, Naming, ApplyChecks, ClaimSteps
  <1>2. PICK c \in Calls : /\ call' = [call EXCEPT ![h] = c]
                          /\ c.at = "persist" /\ c.id = call[h].id
    <2>1. [NoCall EXCEPT !.at = "persist", !.id = call[h].id] \in Calls
      BY <1>1 DEF Calls, ClaimSteps
    <2> QED
      BY <2>1 DEF DispatchAccepted, Calls
  <1>3. /\ server = "serving"
        /\ call[h].at = "dispatch"
        /\ effect' = [effect EXCEPT ![call[h].id] = "running"]
        /\ sent' = [sent EXCEPT ![call[h].id] = @ + 1]
        /\ UNCHANGED <<server, crashes, guest, store, intents, receipts, recovery>>
    BY DEF DispatchAccepted, At
  <1>4. TypeOK'
    BY <1>1, <1>2, <1>3 DEF TypeOK
  <1>5. \A j \in Ids : RecordOK(j)'
    BY <1>3 DEF RecordOK, Untouched, Authorized, InState, HolderOK, TypeOK, ClaimSteps
  <1>6. \A g \in Handlers : HolderOK(g)'
    BY <1>2, <1>3 DEF Untouched, InState, HolderOK, CheckerOK, OneHolder, Truthful,
       TypeOK, ClaimSteps, Naming
  <1>7. \A g \in Handlers : CheckerOK(g)'
    BY <1>1, <1>2, <1>3 DEF CheckerOK, PlanSteps, ApplyChecks
  <1>8. OneHolder'
    BY <1>2, <1>3 DEF OneHolder, ClaimSteps
  <1>9. Phases'
    BY <1>3 DEF Phases
  <1>10. EvidenceFirst'
    BY <1>3 DEF EvidenceFirst, HolderOK, ClaimSteps
  <1>11. SettledTruthfully'
    BY <1>3 DEF SettledTruthfully, Truthful, InState, HolderOK, ClaimSteps
  <1>12. ReceiptsTruthful'
    BY <1>3 DEF ReceiptsTruthful, Truthful, HolderOK, Untouched, ClaimSteps
  <1>13. HandleWhileApplying'
    BY <1>3 DEF HandleWhileApplying
  <1>14. ActsOnPlannedGuest'
    BY <1>2, <1>3 DEF ActsOnPlannedGuest
  <1> QED
    BY <1>4, <1>5, <1>6, <1>7, <1>8, <1>9, <1>10, <1>11, <1>12, <1>13, <1>14 DEF Ind

\* DispatchSynchronous preserves the invariant.
LEMMA DispatchSynchronousInd ==
  ASSUME Ind, NEW h \in Handlers, DispatchSynchronous(h)
  PROVE  Ind'
  <1> USE FlagAssumption, NoneAssumption, NoCallTyped DEF Ind
  <1>1. call[h] \in Calls /\ call[h].id \in Ids /\ store[call[h].id] \in Records
    BY NamedRecord DEF DispatchSynchronous, At, TypeOK, Naming, ApplyChecks, ClaimSteps
  <1>2. PICK c \in Calls : /\ call' = [call EXCEPT ![h] = c]
                          /\ c.at \in {"receipt", "settle"}
                          /\ c.id = call[h].id
                          /\ c.outcome = "ok"
    <2>1. TypeOK /\ Conclude(h, "ok") /\ "ok" \in Outcomes
      BY DEF DispatchSynchronous, Outcomes
    <2> QED
      BY <1>1, <2>1, ConcludeStep
  <1>3. /\ server = "serving"
        /\ call[h].at = "dispatch"
        /\ effect' = [effect EXCEPT ![call[h].id] = "ok"]
        /\ sent' = [sent EXCEPT ![call[h].id] = @ + 1]
        /\ UNCHANGED <<server, crashes, guest, store, intents, receipts, recovery>>
    BY DEF DispatchSynchronous, At
  <1>4. TypeOK'
    BY <1>1, <1>2, <1>3 DEF TypeOK, Calls
  <1>5. \A j \in Ids : RecordOK(j)'
    BY <1>3 DEF RecordOK, Untouched, Authorized, InState, HolderOK, TypeOK, ClaimSteps
  <1>6. \A g \in Handlers : HolderOK(g)'
    BY <1>2, <1>3 DEF Untouched, InState, HolderOK, CheckerOK, OneHolder, Truthful,
       TypeOK, ClaimSteps, Naming
  <1>7. \A g \in Handlers : CheckerOK(g)'
    BY <1>1, <1>2, <1>3 DEF CheckerOK, PlanSteps, ApplyChecks
  <1>8. OneHolder'
    BY <1>2, <1>3 DEF OneHolder, ClaimSteps
  <1>9. Phases'
    BY <1>3 DEF Phases
  <1>10. EvidenceFirst'
    BY <1>3 DEF EvidenceFirst, HolderOK, ClaimSteps
  <1>11. SettledTruthfully'
    BY <1>3 DEF SettledTruthfully, Truthful, InState, HolderOK, ClaimSteps
  <1>12. ReceiptsTruthful'
    BY <1>3 DEF ReceiptsTruthful, Truthful, HolderOK, Untouched, ClaimSteps
  <1>13. HandleWhileApplying'
    BY <1>3 DEF HandleWhileApplying
  <1>14. ActsOnPlannedGuest'
    BY <1>2, <1>3 DEF ActsOnPlannedGuest
  <1> QED
    BY <1>4, <1>5, <1>6, <1>7, <1>8, <1>9, <1>10, <1>11, <1>12, <1>13, <1>14 DEF Ind

\* DispatchRefused preserves the invariant.
LEMMA DispatchRefusedInd ==
  ASSUME Ind, NEW h \in Handlers, DispatchRefused(h)
  PROVE  Ind'
  <1> USE FlagAssumption, NoneAssumption, NoCallTyped DEF Ind
  <1>1. call[h] \in Calls /\ call[h].id \in Ids /\ store[call[h].id] \in Records
    BY NamedRecord DEF DispatchRefused, At, TypeOK, Naming, ApplyChecks, ClaimSteps
  <1>2. PICK c \in Calls : /\ call' = [call EXCEPT ![h] = c]
                          /\ c.at \in {"receipt", "settle"}
                          /\ c.id = call[h].id
                          /\ c.outcome = "failed"
    <2>1. TypeOK /\ Conclude(h, "failed") /\ "failed" \in Outcomes
      BY DEF DispatchRefused, Outcomes
    <2> QED
      BY <1>1, <2>1, ConcludeStep
  <1>3. /\ server = "serving"
        /\ call[h].at = "dispatch"
        /\ UNCHANGED <<server, crashes, guest, store, effect, sent, intents, receipts, recovery>>
    BY DEF DispatchRefused, At
  <1>4. TypeOK'
    BY <1>2, <1>3 DEF TypeOK
  <1>5. \A g \in Handlers : HolderOK(g)'
    BY <1>2, <1>3 DEF Untouched, InState, HolderOK, Truthful, PlanSteps, ClaimSteps,
       ApplyChecks
  <1>6. \A g \in Handlers : CheckerOK(g)'
    BY <1>1, <1>2, <1>3 DEF CheckerOK, PlanSteps, ApplyChecks
  <1>7. OneHolder'
    BY <1>2, <1>3 DEF OneHolder, ClaimSteps
  <1>8. Phases'
    BY <1>3 DEF Phases
  <1>9. ActsOnPlannedGuest'
    BY <1>2, <1>3 DEF ActsOnPlannedGuest
  <1>10. /\ \A j \in Ids : RecordOK(j)'
         /\ EvidenceFirst'
         /\ SettledTruthfully'
         /\ ReceiptsTruthful'
         /\ HandleWhileApplying'
    BY <1>3 DEF RecordOK, Untouched, Authorized, InState, EvidenceFirst,
       SettledTruthfully, Truthful, ReceiptsTruthful, HandleWhileApplying
  <1> QED
    BY <1>4, <1>5, <1>6, <1>7, <1>8, <1>9, <1>10 DEF Ind

\* DispatchLost preserves the invariant.
LEMMA DispatchLostInd ==
  ASSUME Ind, NEW h \in Handlers, DispatchLost(h)
  PROVE  Ind'
  <1> USE FlagAssumption, NoneAssumption, NoCallTyped DEF Ind
  <1>1. call[h] \in Calls /\ call[h].id \in Ids /\ store[call[h].id] \in Records
    BY NamedRecord DEF DispatchLost, At, TypeOK, Naming, ApplyChecks, ClaimSteps
  <1>2. call' = [call EXCEPT ![h] = NoCall]
    BY DEF DispatchLost, Return
  <1>3. /\ server = "serving"
        /\ call[h].at = "dispatch"
        /\ \/ /\ effect' = [effect EXCEPT ![call[h].id] = "running"]
              /\ sent' = [sent EXCEPT ![call[h].id] = @ + 1]
           \/ UNCHANGED <<effect, sent>>
        /\ UNCHANGED <<server, crashes, guest, store, intents, receipts, recovery>>
    BY DEF DispatchLost, At
  <1>4. TypeOK'
    BY <1>2, <1>3 DEF TypeOK
  <1>5. \A j \in Ids : RecordOK(j)'
    BY <1>3 DEF RecordOK, Untouched, Authorized, InState, HolderOK, TypeOK, ClaimSteps
  <1>6. \A g \in Handlers : HolderOK(g)'
    BY <1>2, <1>3 DEF Untouched, InState, HolderOK, CheckerOK, OneHolder, Truthful,
       TypeOK, ClaimSteps, Naming
  <1>7. \A g \in Handlers : CheckerOK(g)'
    BY <1>2, <1>3 DEF CheckerOK, PlanSteps, ClaimSteps, ApplyChecks, Naming
  <1>8. OneHolder'
    BY <1>2 DEF OneHolder, ClaimSteps
  <1>9. Phases'
    BY <1>3 DEF Phases
  <1>10. EvidenceFirst'
    BY <1>3 DEF EvidenceFirst, HolderOK, TypeOK, ClaimSteps
  <1>11. SettledTruthfully'
    BY <1>3 DEF SettledTruthfully, Truthful, InState, HolderOK, TypeOK, ClaimSteps
  <1>12. ReceiptsTruthful'
    BY <1>3 DEF ReceiptsTruthful, Truthful, HolderOK, Untouched, TypeOK, ClaimSteps
  <1>13. HandleWhileApplying'
    BY <1>3 DEF HandleWhileApplying, TypeOK
  <1>14. ActsOnPlannedGuest'
    BY <1>2, <1>3 DEF ActsOnPlannedGuest
  <1> QED
    BY <1>4, <1>5, <1>6, <1>7, <1>8, <1>9, <1>10, <1>11, <1>12, <1>13, <1>14 DEF Ind

\* PersistHandle preserves the invariant.
LEMMA PersistHandleInd ==
  ASSUME Ind, NEW h \in Handlers, PersistHandle(h)
  PROVE  Ind'
  <1> USE FlagAssumption, NoneAssumption, NoCallTyped DEF Ind
  <1>1. call[h] \in Calls /\ call[h].id \in Ids /\ store[call[h].id] \in Records
    BY NamedRecord DEF PersistHandle, At, TypeOK, Naming, ApplyChecks, ClaimSteps
  <1>2. PICK c \in Calls : /\ call' = [call EXCEPT ![h] = c]
                          /\ c.at = "poll"
                          /\ MovedOn(c, call[h])
    <2>1. TypeOK /\ Goto(h, "poll") /\ "poll" \in Steps
      BY DEF PersistHandle, Steps, ClaimSteps
    <2> QED
      BY <2>1, GotoStep
  <1>3. \/ store' = store
        \/ \E r \in Records : /\ store' = [store EXCEPT ![call[h].id] = r]
                              /\ r.handle = "upid"
                              /\ r.state = store[call[h].id].state
                              /\ r.claim = store[call[h].id].claim
                              /\ SamePlan(r, store[call[h].id])
                              /\ SameApproval(r, store[call[h].id])
    <2> DEFINE r == [store[call[h].id] EXCEPT !.handle = "upid"]
    <2>1. r \in Records
      BY <1>1 DEF Records, States
    <2>2. /\ r.handle = "upid"
          /\ r.state = store[call[h].id].state
          /\ r.claim = store[call[h].id].claim
          /\ SamePlan(r, store[call[h].id])
          /\ SameApproval(r, store[call[h].id])
      BY <1>1 DEF Records, SamePlan, SameApproval
    <2>3. store' = [store EXCEPT ![call[h].id] = r] \/ store' = store
      BY DEF PersistHandle
    <2> HIDE DEF r
    <2> QED
      BY <2>1, <2>2, <2>3
  <1>4. /\ server = "serving"
        /\ call[h].at = "persist"
        /\ UNCHANGED <<server, crashes, guest, effect, sent, intents, receipts, recovery>>
    BY DEF PersistHandle, At
  <1>5. TypeOK'
    BY <1>2, <1>3, <1>4 DEF TypeOK
  <1>6. \A j \in Ids : RecordOK(j)'
    BY <1>3, <1>4 DEF RecordOK, Untouched, Authorized, InState, HolderOK, TypeOK,
       ClaimSteps, SamePlan, SameApproval
  <1>7. \A g \in Handlers : HolderOK(g)'
    BY <1>2, <1>3, <1>4 DEF Untouched, InState, HolderOK, CheckerOK, Truthful, TypeOK,
       ClaimSteps, Naming, MovedOn
  <1>8. \A g \in Handlers : CheckerOK(g)'
    BY <1>1, <1>2, <1>3, <1>4 DEF CheckerOK, TypeOK, PlanSteps, ApplyChecks, Naming,
       MovedOn, SameApproval
  <1>9. OneHolder'
    BY <1>2, <1>4 DEF OneHolder, ClaimSteps, MovedOn
  <1>10. Phases'
    BY <1>4 DEF Phases
  <1>11. SettledTruthfully'
    BY <1>1, <1>3, <1>4 DEF SettledTruthfully, Truthful, InState, TypeOK
  <1>12. HandleWhileApplying'
    BY <1>3, <1>4 DEF HandleWhileApplying, HolderOK, InState, TypeOK, ClaimSteps
  <1>13. ActsOnPlannedGuest'
    BY <1>2, <1>3 DEF ActsOnPlannedGuest, CheckerOK, TypeOK, ClaimSteps, ApplyChecks,
       Naming, SamePlan
  <1>14. /\ EvidenceFirst'
         /\ ReceiptsTruthful'
    BY <1>4 DEF EvidenceFirst, ReceiptsTruthful, Truthful
  <1> QED
    BY <1>5, <1>6, <1>7, <1>8, <1>9, <1>10, <1>11, <1>12, <1>13, <1>14 DEF Ind

\* Poll preserves the invariant.
LEMMA PollInd ==
  ASSUME Ind, NEW h \in Handlers, Poll(h)
  PROVE  Ind'
  <1> USE FlagAssumption, NoneAssumption, NoCallTyped DEF Ind
  <1>1. call[h] \in Calls /\ call[h].id \in Ids /\ store[call[h].id] \in Records
    BY NamedRecord DEF Poll, At, TypeOK, Naming, ApplyChecks, ClaimSteps
  <1>2. PICK c \in Calls : /\ call' = [call EXCEPT ![h] = c]
                          /\ c.at \in {"receipt", "settle"}
                          /\ c.id = call[h].id
                          /\ c.outcome = effect[call[h].id]
    <2>1. TypeOK /\ Conclude(h, effect[call[h].id]) /\ effect[call[h].id] \in Outcomes
      BY DEF Poll, Outcomes
    <2> QED
      BY <1>1, <2>1, ConcludeStep
  <1>3. /\ server = "serving"
        /\ call[h].at = "poll"
        /\ effect[call[h].id] \in Outcomes
        /\ UNCHANGED <<server, crashes, guest, store, effect, sent, intents, receipts, recovery>>
    BY DEF Poll, At
  <1>4. TypeOK'
    BY <1>2, <1>3 DEF TypeOK
  <1>5. \A g \in Handlers : HolderOK(g)'
    BY <1>2, <1>3 DEF Untouched, InState, HolderOK, CheckerOK, Truthful, TypeOK,
       Outcomes, ClaimSteps, Naming
  <1>6. \A g \in Handlers : CheckerOK(g)'
    BY <1>1, <1>2, <1>3 DEF CheckerOK, PlanSteps, ApplyChecks
  <1>7. OneHolder'
    BY <1>2, <1>3 DEF OneHolder, ClaimSteps
  <1>8. Phases'
    BY <1>3 DEF Phases
  <1>9. ActsOnPlannedGuest'
    BY <1>2, <1>3 DEF ActsOnPlannedGuest
  <1>10. /\ \A j \in Ids : RecordOK(j)'
         /\ EvidenceFirst'
         /\ SettledTruthfully'
         /\ ReceiptsTruthful'
         /\ HandleWhileApplying'
    BY <1>3 DEF RecordOK, Untouched, Authorized, InState, EvidenceFirst,
       SettledTruthfully, Truthful, ReceiptsTruthful, HandleWhileApplying
  <1> QED
    BY <1>4, <1>5, <1>6, <1>7, <1>8, <1>9, <1>10 DEF Ind

\* PollFails preserves the invariant.
LEMMA PollFailsInd ==
  ASSUME Ind, NEW h \in Handlers, PollFails(h)
  PROVE  Ind'
  <1> USE FlagAssumption, NoneAssumption, NoCallTyped DEF Ind
  <1>1. call[h] \in Calls /\ call[h].id \in Ids /\ store[call[h].id] \in Records
    BY NamedRecord DEF PollFails, At, TypeOK, Naming, ApplyChecks, ClaimSteps
  <1>2. call' = [call EXCEPT ![h] = NoCall]
    BY DEF PollFails, Return
  <1>3. /\ server = "serving"
        /\ call[h].at = "poll"
        /\ UNCHANGED <<server, crashes, guest, store, effect, sent, intents, receipts, recovery>>
    BY DEF PollFails, At
  <1>4. TypeOK'
    BY <1>2, <1>3 DEF TypeOK
  <1>5. \A g \in Handlers : HolderOK(g)'
    BY <1>2, <1>3 DEF Untouched, InState, HolderOK, Truthful, ClaimSteps, ApplyChecks
  <1>6. \A g \in Handlers : CheckerOK(g)'
    BY <1>2, <1>3 DEF CheckerOK, PlanSteps, ClaimSteps, ApplyChecks, Naming
  <1>7. OneHolder'
    BY <1>2 DEF OneHolder, ClaimSteps
  <1>8. Phases'
    BY <1>3 DEF Phases
  <1>9. ActsOnPlannedGuest'
    BY <1>2, <1>3 DEF ActsOnPlannedGuest
  <1>10. /\ \A j \in Ids : RecordOK(j)'
         /\ EvidenceFirst'
         /\ SettledTruthfully'
         /\ ReceiptsTruthful'
         /\ HandleWhileApplying'
    BY <1>3 DEF RecordOK, Untouched, Authorized, InState, EvidenceFirst,
       SettledTruthfully, Truthful, ReceiptsTruthful, HandleWhileApplying
  <1> QED
    BY <1>4, <1>5, <1>6, <1>7, <1>8, <1>9, <1>10 DEF Ind

\* Receipt preserves the invariant.
LEMMA ReceiptInd ==
  ASSUME Ind, NEW h \in Handlers, Receipt(h)
  PROVE  Ind'
  <1> USE FlagAssumption, NoneAssumption, NoCallTyped DEF Ind
  <1>1. call[h] \in Calls /\ call[h].id \in Ids /\ store[call[h].id] \in Records
    BY NamedRecord DEF Receipt, At, TypeOK, Naming, ApplyChecks, ClaimSteps
  <1>2. PICK c \in Calls : /\ call' = [call EXCEPT ![h] = c]
                          /\ c.at = "settle"
                          /\ MovedOn(c, call[h])
    <2>1. TypeOK /\ Goto(h, "settle") /\ "settle" \in Steps
      BY DEF Receipt, Steps, ClaimSteps
    <2> QED
      BY <2>1, GotoStep
  <1>3. /\ server = "serving"
        /\ call[h].at = "receipt"
        /\ \/ receipts' = [receipts EXCEPT ![call[h].id] = @ \cup {call[h].outcome}]
           \/ receipts' = receipts
        /\ call[h].outcome \in Outcomes /\ Truthful(call[h].id, call[h].outcome)
        /\ UNCHANGED <<server, crashes, guest, store, effect, sent, intents, recovery>>
    BY <1>1 DEF Receipt, At, HolderOK, Calls, ClaimSteps
  <1>4. TypeOK'
    BY <1>2, <1>3 DEF TypeOK
  <1>5. \A j \in Ids : RecordOK(j)'
    BY <1>3 DEF RecordOK, Untouched, Authorized, InState, HolderOK, TypeOK, ClaimSteps
  <1>6. \A g \in Handlers : HolderOK(g)'
    BY <1>2, <1>3 DEF Untouched, InState, HolderOK, CheckerOK, OneHolder, Truthful,
       TypeOK, ClaimSteps, Naming, MovedOn
  <1>7. \A g \in Handlers : CheckerOK(g)'
    BY <1>1, <1>2, <1>3 DEF CheckerOK, PlanSteps, ApplyChecks, MovedOn
  <1>8. OneHolder'
    BY <1>2, <1>3 DEF OneHolder, ClaimSteps, MovedOn
  <1>9. Phases'
    BY <1>3 DEF Phases
  <1>10. EvidenceFirst'
    BY <1>3 DEF EvidenceFirst, HolderOK, TypeOK, ClaimSteps
  <1>11. ReceiptsTruthful'
    BY <1>3 DEF ReceiptsTruthful, Truthful, TypeOK
  <1>12. ActsOnPlannedGuest'
    BY <1>2, <1>3 DEF ActsOnPlannedGuest
  <1>13. /\ SettledTruthfully'
         /\ HandleWhileApplying'
    BY <1>3 DEF SettledTruthfully, InState, Truthful, HandleWhileApplying
  <1> QED
    BY <1>4, <1>5, <1>6, <1>7, <1>8, <1>9, <1>10, <1>11, <1>12, <1>13 DEF Ind

\* Settle preserves the invariant.
LEMMA SettleInd ==
  ASSUME Ind, NEW h \in Handlers, Settle(h)
  PROVE  Ind'
  <1> USE FlagAssumption, NoneAssumption, NoCallTyped DEF Ind
  <1>1. call[h] \in Calls /\ call[h].id \in Ids /\ store[call[h].id] \in Records
    BY NamedRecord DEF Settle, At, TypeOK, Naming, ApplyChecks, ClaimSteps
  <1>2. call' = [call EXCEPT ![h] = NoCall]
    BY DEF Settle, Return
  <1>3. \/ store' = store
        \/ \E r \in Records : /\ store' = [store EXCEPT ![call[h].id] = r]
                              /\ r.state = (IF call[h].outcome = "ok" THEN "Applied" ELSE "Failed")
                              /\ r.handle = "none"
                              /\ r.claim = store[call[h].id].claim
                              /\ SamePlan(r, store[call[h].id])
                              /\ SameApproval(r, store[call[h].id])
    <2>1. call[h].outcome \in Outcomes
      BY <1>1 DEF Calls
    <2> QED
      BY <1>1, <2>1, SettledRecord DEF Settle
  <1>4. /\ server = "serving"
        /\ call[h].at = "settle"
        /\ UNCHANGED <<server, crashes, guest, effect, sent, intents, receipts, recovery>>
    BY DEF Settle, At
  <1>5. TypeOK'
    BY <1>2, <1>3, <1>4 DEF TypeOK
  <1>6. \A j \in Ids : RecordOK(j)'
    BY <1>3, <1>4 DEF RecordOK, Untouched, Authorized, InState, HolderOK, TypeOK,
       ClaimSteps, SamePlan, SameApproval
  <1>7. \A g \in Handlers : HolderOK(g)'
    BY <1>2, <1>3, <1>4 DEF Untouched, InState, HolderOK, CheckerOK, OneHolder,
       Truthful, TypeOK, ClaimSteps, Naming
  <1>8. \A g \in Handlers : CheckerOK(g)'
    BY <1>2, <1>3, <1>4 DEF CheckerOK, TypeOK, PlanSteps, ClaimSteps, ApplyChecks,
       Naming, SameApproval
  <1>9. OneHolder'
    BY <1>2 DEF OneHolder, ClaimSteps
  <1>10. Phases'
    BY <1>4 DEF Phases
  <1>11. SettledTruthfully'
    BY <1>3, <1>4 DEF SettledTruthfully, Truthful, InState, HolderOK, TypeOK, ClaimSteps
  <1>12. HandleWhileApplying'
    BY <1>3, <1>4 DEF HandleWhileApplying, TypeOK
  <1>13. ActsOnPlannedGuest'
    BY <1>2, <1>3 DEF ActsOnPlannedGuest, CheckerOK, Naming, ApplyChecks, ClaimSteps,
       SamePlan, TypeOK
  <1>14. /\ EvidenceFirst'
         /\ ReceiptsTruthful'
    BY <1>4 DEF EvidenceFirst, ReceiptsTruthful, Truthful
  <1> QED
    BY <1>5, <1>6, <1>7, <1>8, <1>9, <1>10, <1>11, <1>12, <1>13, <1>14 DEF Ind

\* TaskEnds preserves the invariant.
LEMMA TaskEndsInd ==
  ASSUME Ind, NEW i \in Ids, TaskEnds(i)
  PROVE  Ind'
  <1> USE BoundAssumption, FlagAssumption, NoneAssumption, NoCallTyped DEF Ind
  <1>1. TypeOK'
    BY DEF TypeOK, TaskEnds
  <1>2. \A j \in Ids : RecordOK(j)'
    BY DEF RecordOK, Untouched, Authorized, InState, Outcomes, TaskEnds
  <1>3. \A g \in Handlers : HolderOK(g)'
    BY DEF Untouched, InState, HolderOK, Truthful, Outcomes, TaskEnds
  <1>4. Phases'
    BY DEF Phases, Unresolved, Truthful, InState, TaskEnds
  <1>5. SettledTruthfully'
    BY DEF SettledTruthfully, Truthful, InState, TaskEnds
  <1>6. ReceiptsTruthful'
    BY DEF ReceiptsTruthful, Truthful, TaskEnds
  <1>7. HandleWhileApplying'
    BY DEF HandleWhileApplying, Outcomes, TaskEnds
  <1>8. /\ \A g \in Handlers : CheckerOK(g)'
        /\ OneHolder'
        /\ EvidenceFirst'
        /\ ActsOnPlannedGuest'
    BY DEF CheckerOK, OneHolder, EvidenceFirst, ActsOnPlannedGuest, TaskEnds
  <1> QED
    BY <1>1, <1>2, <1>3, <1>4, <1>5, <1>6, <1>7, <1>8 DEF Ind

\* GuestChanges preserves the invariant.
LEMMA GuestChangesInd ==
  ASSUME Ind, GuestChanges
  PROVE  Ind'
  <1> USE BoundAssumption, FlagAssumption, NoneAssumption, NoCallTyped DEF Ind
  <1>1. TypeOK'
    BY DEF TypeOK, Versions, GuestChanges
  <1>2. \A g \in Handlers : CheckerOK(g)'
    BY DEF CheckerOK, TypeOK, Calls, Versions, GuestChanges
  <1>3. /\ \A j \in Ids : RecordOK(j)'
        /\ \A g \in Handlers : HolderOK(g)'
        /\ OneHolder'
        /\ Phases'
        /\ EvidenceFirst'
        /\ SettledTruthfully'
        /\ ReceiptsTruthful'
        /\ HandleWhileApplying'
        /\ ActsOnPlannedGuest'
    BY DEF RecordOK, Untouched, Authorized, InState, HolderOK, Truthful, OneHolder,
       Phases, Unresolved, EvidenceFirst, SettledTruthfully, ReceiptsTruthful,
       HandleWhileApplying, ActsOnPlannedGuest, GuestChanges
  <1> QED
    BY <1>1, <1>2, <1>3 DEF Ind

\* Crash preserves the invariant.
LEMMA CrashInd ==
  ASSUME Ind, Crash
  PROVE  Ind'
  <1> USE BoundAssumption, FlagAssumption, NoneAssumption, NoCallTyped DEF Ind
  <1>1. TypeOK'
    BY DEF TypeOK, Outcomes, Recoveries, Crash, NoRecovery
  <1>2. \A g \in Handlers : HolderOK(g)'
    BY DEF HolderOK, ClaimSteps, Crash
  <1>3. \A g \in Handlers : CheckerOK(g)'
    BY DEF CheckerOK, PlanSteps, ClaimSteps, ApplyChecks, Naming, Crash
  <1>4. OneHolder'
    BY DEF OneHolder, ClaimSteps, Crash
  <1>5. Phases'
    BY DEF Phases, Crash, NoRecovery
  <1>6. ActsOnPlannedGuest'
    BY DEF ActsOnPlannedGuest, Crash
  <1>7. /\ \A j \in Ids : RecordOK(j)'
        /\ EvidenceFirst'
        /\ SettledTruthfully'
        /\ ReceiptsTruthful'
        /\ HandleWhileApplying'
    BY DEF RecordOK, Untouched, Authorized, InState, EvidenceFirst, SettledTruthfully,
       Truthful, ReceiptsTruthful, HandleWhileApplying, Crash
  <1> QED
    BY <1>1, <1>2, <1>3, <1>4, <1>5, <1>6, <1>7 DEF Ind

\* Restart preserves the invariant.
LEMMA RestartInd ==
  ASSUME Ind, Restart
  PROVE  Ind'
  <1> USE BoundAssumption, FlagAssumption, NoneAssumption, NoCallTyped DEF Ind
  <1>1. store' = store
    BY DEF Restart, RecordOK, TypeOK, Records, InState
  <1>2. TypeOK'
    BY <1>1 DEF TypeOK, Outcomes, Recoveries, Restart, NoRecovery
  <1>3. Phases'
    BY DEF Phases, Restart, NoRecovery
  <1>4. /\ \A j \in Ids : RecordOK(j)'
        /\ \A g \in Handlers : HolderOK(g)'
        /\ \A g \in Handlers : CheckerOK(g)'
        /\ OneHolder'
        /\ EvidenceFirst'
        /\ SettledTruthfully'
        /\ ReceiptsTruthful'
        /\ HandleWhileApplying'
        /\ ActsOnPlannedGuest'
    BY <1>1 DEF RecordOK, Untouched, Authorized, InState, HolderOK, Truthful, CheckerOK,
       OneHolder, EvidenceFirst, SettledTruthfully, ReceiptsTruthful,
       HandleWhileApplying, ActsOnPlannedGuest, Restart
  <1> QED
    BY <1>2, <1>3, <1>4 DEF Ind

\* RecoverSkip preserves the invariant.
LEMMA RecoverSkipInd ==
  ASSUME Ind, NEW i \in Ids, RecoverSkip(i)
  PROVE  Ind'
  <1> USE BoundAssumption, FlagAssumption, NoneAssumption, NoCallTyped DEF Ind
  <1>1. TypeOK'
    BY DEF TypeOK, Recoveries, RecoverSkip
  <1>2. Phases'
    BY DEF Phases, RecoverSkip, Recovering
  <1>3. /\ \A j \in Ids : RecordOK(j)'
        /\ \A g \in Handlers : HolderOK(g)'
        /\ \A g \in Handlers : CheckerOK(g)'
        /\ OneHolder'
        /\ EvidenceFirst'
        /\ SettledTruthfully'
        /\ ReceiptsTruthful'
        /\ HandleWhileApplying'
        /\ ActsOnPlannedGuest'
    BY DEF RecordOK, Untouched, Authorized, InState, HolderOK, Truthful, CheckerOK,
       OneHolder, EvidenceFirst, SettledTruthfully, ReceiptsTruthful,
       HandleWhileApplying, ActsOnPlannedGuest, RecoverSkip
  <1> QED
    BY <1>1, <1>2, <1>3 DEF Ind

\* RecoverProbe preserves the invariant.
LEMMA RecoverProbeInd ==
  ASSUME Ind, NEW i \in Ids, RecoverProbe(i)
  PROVE  Ind'
  <1> USE BoundAssumption, FlagAssumption, NoneAssumption, NoCallTyped DEF Ind
  <1>1. TypeOK'
    BY DEF TypeOK, Recoveries, RecoverProbe
  <1>2. Phases'
    BY DEF Phases, Unresolved, Truthful, InState, Outcomes, RecoverProbe, Recovering
  <1>3. /\ \A j \in Ids : RecordOK(j)'
        /\ \A g \in Handlers : HolderOK(g)'
        /\ \A g \in Handlers : CheckerOK(g)'
        /\ OneHolder'
        /\ EvidenceFirst'
        /\ SettledTruthfully'
        /\ ReceiptsTruthful'
        /\ HandleWhileApplying'
        /\ ActsOnPlannedGuest'
    BY DEF RecordOK, Untouched, Authorized, InState, HolderOK, Truthful, CheckerOK,
       OneHolder, EvidenceFirst, SettledTruthfully, ReceiptsTruthful,
       HandleWhileApplying, ActsOnPlannedGuest, RecoverProbe
  <1> QED
    BY <1>1, <1>2, <1>3 DEF Ind

\* RecoverReceipt preserves the invariant.
LEMMA RecoverReceiptInd ==
  ASSUME Ind, RecoverReceipt
  PROVE  Ind'
  <1> USE BoundAssumption, FlagAssumption, NoneAssumption, NoCallTyped DEF Ind
  <1>1. TypeOK'
    BY DEF TypeOK, Recoveries, RecoverReceipt
  <1>2. \A j \in Ids : RecordOK(j)'
    BY DEF RecordOK, Untouched, Authorized, InState, Phases, Unresolved, TypeOK,
       RecoverReceipt, Recovering
  <1>3. \A g \in Handlers : HolderOK(g)'
    BY DEF HolderOK, Phases, Recovering, RecoverReceipt, ClaimSteps
  <1>4. Phases'
    BY DEF Phases, Unresolved, Truthful, InState, RecoverReceipt, Recovering
  <1>5. EvidenceFirst'
    BY DEF EvidenceFirst, Phases, Unresolved, InState, RecordOK, HandleWhileApplying,
       TypeOK, RecoverReceipt, Recovering
  <1>6. ReceiptsTruthful'
    BY DEF ReceiptsTruthful, Truthful, Phases, TypeOK, RecoverReceipt, Recovering
  <1>7. /\ \A g \in Handlers : CheckerOK(g)'
        /\ OneHolder'
        /\ SettledTruthfully'
        /\ HandleWhileApplying'
        /\ ActsOnPlannedGuest'
    BY DEF CheckerOK, OneHolder, SettledTruthfully, InState, Truthful,
       HandleWhileApplying, ActsOnPlannedGuest, RecoverReceipt
  <1> QED
    BY <1>1, <1>2, <1>3, <1>4, <1>5, <1>6, <1>7 DEF Ind

\* RecoverSettle preserves the invariant.
LEMMA RecoverSettleInd ==
  ASSUME Ind, RecoverSettle
  PROVE  Ind'
  <1> USE BoundAssumption, FlagAssumption, NoneAssumption, NoCallTyped DEF Ind
  <1>1. /\ server = "recovering" /\ recovery.at = "settle"
        /\ recovery.id \in Ids /\ store[recovery.id] \in Records
        /\ UNCHANGED <<server, crashes, guest, call, effect, sent, intents, receipts>>
    BY DEF RecoverSettle, Recovering, Phases, Unresolved, InState, TypeOK
  <1>2. recovery' \in Recoveries /\ recovery'.at = "probe"
    BY DEF RecoverSettle, NoRecovery, Recoveries, TypeOK, Outcomes
  <1>3. \/ store' = store
        \/ \E r \in Records :
             /\ store' = [store EXCEPT ![recovery.id] = r]
             /\ r.state = (IF recovery.outcome = "ok" THEN "Applied" ELSE "Failed")
             /\ r.handle = "none"
             /\ r.claim = store[recovery.id].claim
             /\ SamePlan(r, store[recovery.id])
             /\ SameApproval(r, store[recovery.id])
    <2>1. recovery.outcome \in Outcomes
      BY DEF TypeOK, Recoveries
    <2> QED
      BY <1>1, <2>1, SettledRecord DEF RecoverSettle
  <1>4. TypeOK'
    BY <1>1, <1>2, <1>3 DEF TypeOK
  <1>5. \A j \in Ids : RecordOK(j)'
    BY <1>1, <1>3 DEF RecordOK, Untouched, Authorized, InState, Phases, Unresolved,
       TypeOK, SamePlan, SameApproval
  <1>6. \A g \in Handlers : HolderOK(g)'
    BY <1>1 DEF HolderOK, Phases, ClaimSteps
  <1>7. \A g \in Handlers : CheckerOK(g)'
    BY <1>1, <1>3 DEF CheckerOK, TypeOK, Naming, SameApproval
  <1>8. Phases'
    BY <1>1, <1>2 DEF Phases
  <1>9. SettledTruthfully'
    BY <1>1, <1>3 DEF SettledTruthfully, Truthful, InState, Phases, TypeOK
  <1>10. HandleWhileApplying'
    BY <1>1, <1>3 DEF HandleWhileApplying, TypeOK
  <1>11. ActsOnPlannedGuest'
    BY <1>1, <1>3 DEF ActsOnPlannedGuest, CheckerOK, TypeOK, ClaimSteps, ApplyChecks,
       Naming, SamePlan
  <1>12. /\ OneHolder'
         /\ EvidenceFirst'
         /\ ReceiptsTruthful'
    BY <1>1 DEF OneHolder, EvidenceFirst, ReceiptsTruthful, Truthful
  <1> QED
    BY <1>4, <1>5, <1>6, <1>7, <1>8, <1>9, <1>10, <1>11, <1>12 DEF Ind

\* Serve preserves the invariant.
LEMMA ServeInd ==
  ASSUME Ind, Serve
  PROVE  Ind'
  <1> USE BoundAssumption, FlagAssumption, NoneAssumption, NoCallTyped DEF Ind
  <1>1. TypeOK'
    BY DEF TypeOK, Serve
  <1>2. Phases'
    BY DEF Phases, Serve, Recovering
  <1>3. /\ \A j \in Ids : RecordOK(j)'
        /\ \A g \in Handlers : HolderOK(g)'
        /\ \A g \in Handlers : CheckerOK(g)'
        /\ OneHolder'
        /\ EvidenceFirst'
        /\ SettledTruthfully'
        /\ ReceiptsTruthful'
        /\ HandleWhileApplying'
        /\ ActsOnPlannedGuest'
    BY DEF RecordOK, Untouched, Authorized, InState, HolderOK, Truthful, CheckerOK,
       OneHolder, EvidenceFirst, SettledTruthfully, ReceiptsTruthful,
       HandleWhileApplying, ActsOnPlannedGuest, Serve
  <1> QED
    BY <1>1, <1>2, <1>3 DEF Ind

-----------------------------------------------------------------------------
\* The invariant is inductive.

\* The invariant holds at the start.
LEMMA InitInd ==
  ASSUME Init
  PROVE  Ind
  <1> USE NoCallTyped, NoneAssumption, BoundAssumption DEF Init, InState
  <1>1. TypeOK
    BY DEF TypeOK, Versions, Outcomes, NoRecovery, Recoveries
  <1>2. \A i \in Ids : RecordOK(i)
    BY DEF RecordOK, Untouched
  <1>3. \A h \in Handlers : HolderOK(h) /\ CheckerOK(h)
    BY DEF HolderOK, CheckerOK, PlanSteps, ClaimSteps, ApplyChecks, Naming
  <1>4. OneHolder /\ ActsOnPlannedGuest
    BY DEF OneHolder, ActsOnPlannedGuest, ClaimSteps
  <1>5. Phases
    BY DEF Phases, NoRecovery
  <1>6. EvidenceFirst /\ SettledTruthfully /\ ReceiptsTruthful /\ HandleWhileApplying
    BY DEF EvidenceFirst, SettledTruthfully, ReceiptsTruthful, HandleWhileApplying
  <1> QED
    BY <1>1, <1>2, <1>3, <1>4, <1>5, <1>6 DEF Ind

\* It depends on nothing but the variables.
LEMMA StutterInd ==
  ASSUME Ind, UNCHANGED vars
  PROVE  Ind'
  <1> USE DEF vars, Ind
  <1>1. TypeOK' /\ OneHolder'
    BY DEF TypeOK, OneHolder
  <1>2. \A i \in Ids : RecordOK(i)'
    BY DEF RecordOK, Untouched, Authorized, InState
  <1>3. \A h \in Handlers : HolderOK(h)' /\ CheckerOK(h)'
    BY DEF HolderOK, CheckerOK, Untouched, Truthful, InState
  <1>4. Phases'
    BY DEF Phases, Unresolved, Truthful, InState
  <1>5. /\ EvidenceFirst'
        /\ SettledTruthfully'
        /\ ReceiptsTruthful'
        /\ HandleWhileApplying'
        /\ ActsOnPlannedGuest'
    BY DEF EvidenceFirst, SettledTruthfully, ReceiptsTruthful, Truthful, InState,
       HandleWhileApplying, ActsOnPlannedGuest
  <1> QED
    BY <1>1, <1>2, <1>3, <1>4, <1>5

\* Every step preserves it.
LEMMA NextInd ==
  ASSUME Ind, Next
  PROVE  Ind'
  <1>1. ASSUME NEW h \in Handlers, Start(h)
        PROVE  Ind'
    BY <1>1, PlanStartInd, ApproveStartInd, ApplyStartInd DEF Start
  <1>2. ASSUME NEW h \in Handlers, Step(h)
        PROVE  Ind'
    BY <1>2, RefuseInd, PlanAuthorizeInd, PlanConfigInd, PlanCreateInd, PlanPreviewInd,
       PlanWaiveInd, ApproveInd, ApplyAuthorizeInd, ApplyConfigInd, ClaimInd, IntentInd,
       IntentFailsInd, DispatchAcceptedInd, DispatchSynchronousInd, DispatchRefusedInd,
       DispatchLostInd, PersistHandleInd, PollInd, PollFailsInd, ReceiptInd, SettleInd
       DEF Step
  <1>3. ASSUME Recover
        PROVE  Ind'
    BY <1>3, RecoverSkipInd, RecoverProbeInd, RecoverReceiptInd, RecoverSettleInd, ServeInd
       DEF Recover
  <1> QED
    BY <1>1, <1>2, <1>3, TaskEndsInd, GuestChangesInd, CrashInd, RestartInd DEF Next

(***************************************************************************)
(* Ind is an invariant of the whole program: every await of plan, approve  *)
(* and apply, every failure, a crash anywhere, and recovery preserve it.   *)
(***************************************************************************)
THEOREM Inductive == Spec => []Ind
  <1>1. Init => Ind
    BY InitInd
  <1>2. Ind /\ [Next]_vars => Ind'
    BY NextInd, StutterInd
  <1> QED
    BY <1>1, <1>2, PTL DEF Spec

-----------------------------------------------------------------------------
\* What follows of every reachable state.

(***************************************************************************)
(* Every variable of the coordinator, of its handlers and of recovery      *)
(* keeps its type.                                                         *)
(***************************************************************************)
THEOREM TypeCorrect == Spec => []TypeOK
  <1>1. Ind => TypeOK
    BY DEF Ind
  <1> QED
    BY <1>1, Inductive, PTL

(***************************************************************************)
(* However many applies race for a change set, crash or are retried,       *)
(* Proxmox acts on one request at most, and the evidence chain holds one   *)
(* intent at most.                                                         *)
(***************************************************************************)
THEOREM ApprovalSpentOnce == Spec => []SpentOnce
  <1>1. Ind => SpentOnce
    BY DEF Ind, RecordOK, SpentOnce
  <1> QED
    BY <1>1, Inductive, PTL

(***************************************************************************)
(* Nothing reaches the guest that was not previewed, and approved by a     *)
(* second person or waived in lab mode.                                    *)
(***************************************************************************)
THEOREM TwoPersonControl == Spec => []TwoPersons
  <1>1. Ind => TwoPersons
    <2> SUFFICES ASSUME Ind, NEW i \in Ids, sent[i] > 0
                 PROVE  Authorized(i)
      BY DEF TwoPersons, Authorized
    <2>1. store[i] # None /\ ~InState(i, "Planned")
      BY DEF Ind, RecordOK, Untouched
    <2> QED
      BY <2>1 DEF Ind, RecordOK
  <1> QED
    BY <1>1, Inductive, PTL

(***************************************************************************)
(* With a recorder attached, the intent comes before the request and       *)
(* before every receipt.                                                   *)
(***************************************************************************)
THEOREM IntentBeforeEffect == Spec => []EvidenceFirst
  <1>1. Ind => EvidenceFirst
    BY DEF Ind
  <1> QED
    BY <1>1, Inductive, PTL

(***************************************************************************)
(* A settled record tells what Proxmox did, through lost requests, failed  *)
(* writes, crashes and recovery.                                           *)
(***************************************************************************)
THEOREM OutcomesAreTruthful == Spec => []SettledTruthfully
  <1>1. Ind => SettledTruthfully
    BY DEF Ind
  <1> QED
    BY <1>1, Inductive, PTL

(***************************************************************************)
(* ... and so does every receipt, whether an apply or the recovery wrote   *)
(* it.                                                                     *)
(***************************************************************************)
THEOREM ReceiptsAreTruthful == Spec => []ReceiptsTruthful
  <1>1. Ind => ReceiptsTruthful
    BY DEF Ind
  <1> QED
    BY <1>1, Inductive, PTL

(***************************************************************************)
(* A task handle on disk belongs to an unresolved apply whose task exists. *)
(***************************************************************************)
THEOREM HandlesAreLive == Spec => []HandleWhileApplying
  <1>1. Ind => HandleWhileApplying
    BY DEF Ind
  <1> QED
    BY <1>1, Inductive, PTL

(***************************************************************************)
(* An apply claims only a plan of the guest as it was when it began.       *)
(***************************************************************************)
THEOREM PlansAreCurrent == Spec => []ActsOnPlannedGuest
  <1>1. Ind => ActsOnPlannedGuest
    BY DEF Ind
  <1> QED
    BY <1>1, Inductive, PTL
-----------------------------------------------------------------------------
\* The change sets implement SingleUse: every step is one of its steps or a stutter.

Stutter == UNCHANGED <<phaseOf, effect>>

\* A record of change set i is written: the phase of i is that of the new record.
LEMMA PhaseStep ==
  ASSUME TypeOK, NEW i \in Ids, NEW r \in Records, store' = [store EXCEPT ![i] = r]
  PROVE  phaseOf' = [phaseOf EXCEPT ![i] = r.state]
  BY NoneAssumption DEF phaseOf, TypeOK

\* The phase of a change set is the state of its record.
LEMMA PhaseIs ==
  ASSUME NEW i \in Ids, NEW s, InState(i, s)
  PROVE  phaseOf[i] = s
  BY DEF phaseOf, InState

\* Without a write, no phase moves.
LEMMA StoreUnchanged ==
  ASSUME UNCHANGED <<store, effect>>
  PROVE  Stutter
  BY DEF phaseOf, Stutter

\* A write that moves a record from one state to the next is an Advance.
LEMMA AdvanceStep ==
  ASSUME TypeOK, NEW i \in Ids, NEW r \in Records, NEW s, InState(i, s),
         store' = [store EXCEPT ![i] = r], UNCHANGED effect
  PROVE  Single!Advance(i, s, r.state)
  BY PhaseStep, PhaseIs DEF Single!Advance

\* A write that leaves the state of a record alone.
LEMMA SameStateStep ==
  ASSUME TypeOK, NEW i \in Ids, store[i] \in Records, NEW r \in Records, r.state = store[i].state,
         store' = [store EXCEPT ![i] = r], UNCHANGED effect
  PROVE  Stutter
  BY PhaseStep, NoneAssumption DEF phaseOf, Stutter, TypeOK

\* A record settled with a truthful outcome.
LEMMA SettledStep ==
  ASSUME TypeOK, NEW i \in Ids, InState(i, "Applying"), NEW o \in Outcomes, Truthful(i, o),
         store' = [store EXCEPT ![i] = Settled(store[i], o)], UNCHANGED effect
  PROVE  Single!Next
  <1>1. store[i] \in Records
    BY DEF TypeOK, InState
  <1>2. Settled(store[i], o) \in Records
    BY <1>1, SettledRecord
  <1>3. CASE o = "ok"
    <2>1. Settled(store[i], o).state = "Applied"
      BY <1>1, <1>3, SettledRecord
    <2>2. Single!Advance(i, "Applying", "Applied")
      BY <1>2, <2>1, AdvanceStep
    <2> QED
      BY <1>3, <2>2 DEF Truthful, Single!Succeed, Single!Next
  <1>4. CASE o # "ok"
    <2>1. Settled(store[i], o).state = "Failed"
      BY <1>1, <1>4, SettledRecord
    <2>2. Single!Advance(i, "Applying", "Failed")
      BY <1>2, <2>1, AdvanceStep
    <2> QED
      BY <1>4, <2>2 DEF Truthful, Single!Fail, Single!Next
  <1> QED
    BY <1>3, <1>4

\* One lemma per action that writes a record or acts: it is a step of SingleUse.
LEMMA PlanCreateRefines ==
  ASSUME Ind, NEW h \in Handlers, PlanCreate(h)
  PROVE  Single!Next
  <1> DEFINE r == [state |-> "Planned", preview |-> "missing", owner |-> call[h].by,
                   approver |-> None, approval |-> "none", facts |-> call[h].facts,
                   config |-> call[h].config, claim |-> "None", handle |-> "none"]
  <1>1. call[h] \in Calls /\ call[h].by \in Principals
    BY DEF PlanCreate, At, Ind, TypeOK, CheckerOK, PlanSteps
  <1>2. r \in Records
    BY <1>1 DEF Records, States, Calls
  <1>3. PICK i \in Ids : store[i] = None /\ store' = [store EXCEPT ![i] = r]
    BY DEF PlanCreate
  <1>4. UNCHANGED effect /\ TypeOK
    BY DEF PlanCreate, Ind
  <1>5. r.state = "Planned"
    OBVIOUS
  <1> HIDE DEF r
  <1>6. phaseOf' = [phaseOf EXCEPT ![i] = "Planned"]
    BY <1>2, <1>3, <1>4, <1>5, PhaseStep
  <1>7. phaseOf[i] = "unplanned"
    BY <1>3 DEF phaseOf
  <1> QED
    BY <1>4, <1>6, <1>7 DEF Single!Next, Single!Plan, Single!Advance

\* PlanPreview is a step of SingleUse, or a stutter.
LEMMA PlanPreviewRefines ==
  ASSUME Ind, NEW h \in Handlers, PlanPreview(h)
  PROVE  Stutter
  <1> DEFINE r == [store[call[h].id] EXCEPT !.preview = "stored"]
  <1>1. call[h].id \in Ids /\ store[call[h].id] \in Records
    BY NamedRecord DEF PlanPreview, At, Naming
  <1>2. r \in Records /\ r.state = store[call[h].id].state
    BY <1>1 DEF Records
  <1>3. TypeOK /\ store' = [store EXCEPT ![call[h].id] = r] /\ UNCHANGED effect
    BY DEF PlanPreview, Ind
  <1> HIDE DEF r
  <1> QED
    BY <1>1, <1>2, <1>3, SameStateStep

\* PlanWaive is a step of SingleUse, or a stutter.
LEMMA PlanWaiveRefines ==
  ASSUME Ind, NEW h \in Handlers, PlanWaive(h)
  PROVE  Single!Next
  <1> DEFINE r == [store[call[h].id] EXCEPT !.state = "Approved", !.approval = "waived"]
  <1>1. call[h].id \in Ids /\ store[call[h].id] \in Records
    BY NamedRecord DEF PlanWaive, At, Naming
  <1>2. r \in Records /\ r.state = "Approved"
    BY <1>1 DEF Records, States
  <1>3. /\ TypeOK /\ InState(call[h].id, "Planned")
        /\ store' = [store EXCEPT ![call[h].id] = r]
        /\ UNCHANGED effect
    BY DEF PlanWaive, Ind
  <1> HIDE DEF r
  <1>4. Single!Advance(call[h].id, "Planned", "Approved")
    BY <1>1, <1>2, <1>3, AdvanceStep
  <1> QED
    BY <1>1, <1>4 DEF Single!Next, Single!Approve

\* Approve is a step of SingleUse, or a stutter.
LEMMA ApproveRefines ==
  ASSUME Ind, NEW h \in Handlers, Approve(h)
  PROVE  Single!Next
  <1> DEFINE r == [store[call[h].id] EXCEPT !.state = "Approved", !.approval = "second",
                                            !.approver = call[h].by]
  <1>1. call[h].id \in Ids /\ store[call[h].id] \in Records
    BY NamedRecord DEF Approve, At, Naming
  <1>2. r \in Records /\ r.state = "Approved"
    BY <1>1, HumansAssumption DEF Records, States, Approve
  <1>3. /\ TypeOK /\ InState(call[h].id, "Planned")
        /\ store' = [store EXCEPT ![call[h].id] = r]
        /\ UNCHANGED effect
    BY DEF Approve, Ind
  <1> HIDE DEF r
  <1>4. Single!Advance(call[h].id, "Planned", "Approved")
    BY <1>1, <1>2, <1>3, AdvanceStep
  <1> QED
    BY <1>1, <1>4 DEF Single!Next, Single!Approve

\* Claim is a step of SingleUse, or a stutter.
LEMMA ClaimRefines ==
  ASSUME Ind, NEW h \in Handlers, Claim(h)
  PROVE  Single!Next
  <1> DEFINE r == [store[call[h].id] EXCEPT !.state = "Applying", !.claim = "None"]
  <1>1. call[h].id \in Ids /\ store[call[h].id] \in Records
    BY NamedRecord DEF Claim, At, Naming, ApplyChecks
  <1>2. r \in Records /\ r.state = "Applying"
    BY <1>1 DEF Records, States
  <1>3. /\ TypeOK /\ InState(call[h].id, "Approved")
        /\ store' = [store EXCEPT ![call[h].id] = r]
        /\ UNCHANGED effect
    BY DEF Claim, Ind
  <1> HIDE DEF r
  <1>4. Single!Advance(call[h].id, "Approved", "Applying")
    BY <1>1, <1>2, <1>3, AdvanceStep
  <1> QED
    BY <1>1, <1>4 DEF Single!Next, Single!Spend

\* IntentFails is a step of SingleUse, or a stutter.
LEMMA IntentFailsRefines ==
  ASSUME Ind, NEW h \in Handlers, IntentFails(h)
  PROVE  Single!Next \/ Stutter
  <1> DEFINE r == [store[call[h].id] EXCEPT !.state = "Failed"]
  <1>1. call[h].id \in Ids /\ store[call[h].id] \in Records
    BY NamedRecord DEF IntentFails, At, Naming, ClaimSteps
  <1>2. r \in Records /\ r.state = "Failed"
    BY <1>1 DEF Records, States
  <1>3. /\ TypeOK /\ InState(call[h].id, "Applying") /\ effect[call[h].id] = "none"
        /\ store' = [store EXCEPT ![call[h].id] = r] \/ UNCHANGED store
        /\ UNCHANGED effect
    BY DEF IntentFails, At, Ind, HolderOK, Untouched, ClaimSteps
  <1> HIDE DEF r
  <1>4. ASSUME store' = [store EXCEPT ![call[h].id] = r]
        PROVE  Single!Fail(call[h].id)
    BY <1>1, <1>2, <1>3, <1>4, AdvanceStep DEF Single!Fail
  <1> QED
    BY <1>1, <1>3, <1>4, StoreUnchanged DEF Single!Next

\* The three ways a request can be acted on.
LEMMA DispatchRefines ==
  ASSUME Ind, NEW h \in Handlers,
         DispatchAccepted(h) \/ DispatchSynchronous(h) \/ DispatchLost(h)
  PROVE  Single!Next \/ Stutter
  <1>1. /\ call[h].id \in Ids
        /\ InState(call[h].id, "Applying") /\ effect[call[h].id] = "none"
    BY NamedRecord DEF DispatchAccepted, DispatchSynchronous, DispatchLost, At, Ind, HolderOK,
       Untouched, Naming, ClaimSteps
  <1>2. phaseOf[call[h].id] = "Applying"
    BY <1>1, PhaseIs
  <1>3. UNCHANGED phaseOf
    BY DEF DispatchAccepted, DispatchSynchronous, DispatchLost, phaseOf
  <1>4. \/ \E e \in {"running", "ok"} : effect' = [effect EXCEPT ![call[h].id] = e]
        \/ UNCHANGED effect
    BY DEF DispatchAccepted, DispatchSynchronous, DispatchLost
  <1> QED
    BY <1>1, <1>2, <1>3, <1>4 DEF Single!Next, Single!Act, Stutter

\* PersistHandle is a step of SingleUse, or a stutter.
LEMMA PersistHandleRefines ==
  ASSUME Ind, NEW h \in Handlers, PersistHandle(h)
  PROVE  Stutter
  <1> DEFINE r == [store[call[h].id] EXCEPT !.handle = "upid"]
  <1>1. call[h].id \in Ids /\ store[call[h].id] \in Records
    BY NamedRecord DEF PersistHandle, At, Naming, ClaimSteps
  <1>2. r \in Records /\ r.state = store[call[h].id].state
    BY <1>1 DEF Records
  <1>3. /\ TypeOK /\ UNCHANGED effect
        /\ store' = [store EXCEPT ![call[h].id] = r] \/ UNCHANGED store
    BY DEF PersistHandle, Ind
  <1> HIDE DEF r
  <1> QED
    BY <1>1, <1>2, <1>3, SameStateStep, StoreUnchanged

\* Settle is a step of SingleUse, or a stutter.
LEMMA SettleRefines ==
  ASSUME Ind, NEW h \in Handlers, Settle(h)
  PROVE  Single!Next \/ Stutter
  <1>1. call[h].id \in Ids /\ call[h] \in Calls
    BY NamedRecord DEF Settle, At, Naming, ClaimSteps, Ind, TypeOK
  <1>2. /\ call[h].outcome \in Outcomes
        /\ InState(call[h].id, "Applying") /\ Truthful(call[h].id, call[h].outcome)
    BY <1>1 DEF Settle, At, Ind, HolderOK, ClaimSteps, Calls
  <1>3. /\ TypeOK /\ UNCHANGED effect
        /\ \/ store' = [store EXCEPT ![call[h].id] =
                          Settled(store[call[h].id], call[h].outcome)]
           \/ UNCHANGED store
    BY DEF Settle, Ind
  <1> QED
    BY <1>1, <1>2, <1>3, SettledStep, StoreUnchanged

\* RecoverSettle is a step of SingleUse, or a stutter.
LEMMA RecoverSettleRefines ==
  ASSUME Ind, RecoverSettle
  PROVE  Single!Next \/ Stutter
  <1>1. /\ recovery.id \in Ids /\ recovery.outcome \in Outcomes
        /\ InState(recovery.id, "Applying") /\ Truthful(recovery.id, recovery.outcome)
    BY DEF RecoverSettle, Recovering, Ind, TypeOK, Recoveries, Phases, Unresolved
  <1>2. /\ TypeOK /\ UNCHANGED effect
        /\ \/ store' = [store EXCEPT ![recovery.id] =
                          Settled(store[recovery.id], recovery.outcome)]
           \/ UNCHANGED store
    BY DEF RecoverSettle, Ind
  <1> QED
    BY <1>1, <1>2, SettledStep, StoreUnchanged

\* TaskEnds is a step of SingleUse, or a stutter.
LEMMA TaskEndsRefines ==
  ASSUME NEW i \in Ids, TaskEnds(i)
  PROVE  Single!Next
  BY DEF TaskEnds, Outcomes, Single!Next, Single!End, phaseOf

\* Restart is a step of SingleUse, or a stutter.
LEMMA RestartRefines ==
  ASSUME Ind, Restart
  PROVE  Stutter
  <1>1. store' = store /\ UNCHANGED effect
    BY DEF Restart, Ind, RecordOK, TypeOK, Records, InState
  <1> QED
    BY <1>1, StoreUnchanged

\* Every other step leaves the records and their effects alone.
LEMMA OtherSteps ==
  ASSUME NEW h \in Handlers,
         \/ Start(h) \/ Refuse(h) \/ PlanAuthorize(h) \/ PlanConfig(h)
         \/ ApplyAuthorize(h) \/ ApplyConfig(h) \/ Intent(h) \/ DispatchRefused(h)
         \/ Poll(h) \/ PollFails(h) \/ Receipt(h)
  PROVE  Stutter
  <1>1. UNCHANGED <<store, effect>>
    BY DEF Start, PlanStart, ApproveStart, ApplyStart, Refuse, PlanAuthorize, PlanConfig,
       ApplyAuthorize, ApplyConfig, Intent, DispatchRefused, Poll, PollFails, Receipt
  <1> QED
    BY <1>1, StoreUnchanged

\* Every step is a step of SingleUse, or a stutter.
LEMMA NextRefines ==
  ASSUME Ind, Next
  PROVE  Single!Next \/ Stutter
  <1>1. ASSUME NEW h \in Handlers, Start(h) \/ Step(h)
        PROVE  Single!Next \/ Stutter
    BY <1>1, OtherSteps, PlanCreateRefines, PlanPreviewRefines, PlanWaiveRefines,
       ApproveRefines, ClaimRefines, IntentFailsRefines, DispatchRefines,
       PersistHandleRefines, SettleRefines DEF Step
  <1>2. ASSUME GuestChanges \/ Crash
        PROVE  Stutter
    BY <1>2, StoreUnchanged DEF GuestChanges, Crash
  <1>3. ASSUME Recover
        PROVE  Single!Next \/ Stutter
    BY <1>3, RecoverSettleRefines, StoreUnchanged
       DEF Recover, RecoverSkip, RecoverProbe, RecoverReceipt, Serve
  <1> QED
    BY <1>1, <1>2, <1>3, TaskEndsRefines, RestartRefines DEF Next

(***************************************************************************)
(* The handlers, the coordinator, recovery and a Proxmox that may lose     *)
(* requests implement SingleUse: an approval buys one attempt, and the     *)
(* record is settled by what the cluster did.                              *)
(***************************************************************************)
THEOREM ChangeSetsImplementSingleUse == Spec => ImplementsSingleUse
  <1>1. Init => Single!Init
    BY DEF Init, Single!Init, phaseOf
  <1>2. Ind /\ [Next]_vars => [Single!Next]_(Single!vars)
    BY NextRefines, StoreUnchanged DEF vars, Stutter, Single!vars
  <1> QED
    BY <1>1, <1>2, Inductive, PTL DEF Spec, ImplementsSingleUse, Single!Spec

\* What SingleUse entails, of the phases that the records show.
Promise == INSTANCE SingleUseProofs WITH phase <- phaseOf

\* The promise that ChangeSetsImplementSingleUse shows to be kept is the one that
\* SingleUseProofs is about.
LEMMA PromiseKept == Spec => Promise!Spec
  <1>1. Single!Init => Promise!Init
    BY DEF Single!Init, Promise!Init
  <1>2. [Single!Next]_(Single!vars) => [Promise!Next]_(Promise!vars)
    BY DEF Single!Next, Single!vars, Promise!Next, Promise!vars,
           Single!Plan, Single!Approve, Single!Spend, Single!Act, Single!End, Single!Succeed,
           Single!Fail, Single!Advance,
           Promise!Plan, Promise!Approve, Promise!Spend, Promise!Act, Promise!End,
           Promise!Succeed, Promise!Fail, Promise!Advance
  <1> QED
    BY <1>1, <1>2, ChangeSetsImplementSingleUse, PTL
    DEF ImplementsSingleUse, Single!Spec, Promise!Spec

(***************************************************************************)
(* A change set that is Applied or Failed stays so, through any call,      *)
(* crash, restart and recovery, and Proxmox does nothing for it any more.  *)
(***************************************************************************)
THEOREM SettledForGood == Spec => Promise!EndsForGood
  BY PromiseKept, Promise!EndingIsFinal, PTL

(***************************************************************************)
(* No call, crash, restart or recovery gives an approval back, or takes a  *)
(* record past the approval it needs: its states come one at a time.       *)
(***************************************************************************)
THEOREM ApprovalNeverGivenBack == Spec => Promise!NeverGivenBack
  BY PromiseKept, Promise!ApprovalsAreNotGivenBack, PTL

(***************************************************************************)
(* Proxmox begins what a change set asks for at most once, while the       *)
(* record is Applying, and no retry or recovery makes it begin again.      *)
(***************************************************************************)
THEOREM ProxmoxBeginsOnce == Spec => Promise!BeginsOnce
  BY PromiseKept, Promise!TheClusterBeginsOnce, PTL

-----------------------------------------------------------------------------
(***************************************************************************)
(* Calls run down: what liveness under fairness rests on, without it.      *)
(***************************************************************************)

\* The number of steps left at each step.
LEMMA StepsLeftIs ==
  /\ StepsLeft["plan_authorize"] = 5 /\ StepsLeft["plan_config"] = 4
  /\ StepsLeft["plan_create"] = 3 /\ StepsLeft["plan_preview"] = 2
  /\ StepsLeft["plan_waive"] = 1 /\ StepsLeft["approve"] = 1
  /\ StepsLeft["apply_authorize"] = 9 /\ StepsLeft["apply_config"] = 8
  /\ StepsLeft["claim"] = 7 /\ StepsLeft["intent"] = 6 /\ StepsLeft["dispatch"] = 5
  /\ StepsLeft["persist"] = 4 /\ StepsLeft["poll"] = 3 /\ StepsLeft["receipt"] = 2
  /\ StepsLeft["settle"] = 1 /\ StepsLeft["idle"] = 0
  BY DEF StepsLeft

\* It is a number, and no less than one but for an idle handler.
LEMMA StepsLeftPositive ==
  ASSUME NEW s \in Steps
  PROVE  StepsLeft[s] \in Nat /\ (s # "idle" => StepsLeft[s] >= 1)
  BY StepsLeftIs DEF Steps, PlanSteps, CheckSteps, ClaimSteps

\* A handler that returns has no step left.
LEMMA ReturnRunsDown ==
  ASSUME TypeOK, NEW h \in Handlers, call[h].at # "idle", Return(h)
  PROVE  \E c : call' = [call EXCEPT ![h] = c] /\ StepsLeft[c.at] < StepsLeft[call[h].at]
  <1>1. call[h].at \in Steps
    BY DEF TypeOK, Calls, Steps
  <1>2. StepsLeft[call[h].at] >= 1 /\ StepsLeft[call[h].at] \in Nat
    BY <1>1, StepsLeftPositive
  <1>3. StepsLeft[NoCall.at] < StepsLeft[call[h].at]
    BY <1>2, NoCallTyped, StepsLeftIs
  <1> QED
    BY <1>3 DEF Return

\* A handler that goes on has fewer steps left, if the step it goes to has.
LEMMA GotoRunsDown ==
  ASSUME TypeOK, NEW h \in Handlers, NEW s \in Steps, Goto(h, s),
         StepsLeft[s] < StepsLeft[call[h].at]
  PROVE  \E c : call' = [call EXCEPT ![h] = c] /\ StepsLeft[c.at] < StepsLeft[call[h].at]
  BY GotoStep

\* And so has one that concludes.
LEMMA ConcludeRunsDown ==
  ASSUME Ind, NEW h \in Handlers, call[h].at \in {"dispatch", "poll"},
         NEW o \in Outcomes, Conclude(h, o)
  PROVE  \E c : call' = [call EXCEPT ![h] = c] /\ StepsLeft[c.at] < StepsLeft[call[h].at]
  <1>1. TypeOK /\ call[h].id \in Ids
    BY NamedRecord DEF Ind, Naming, ClaimSteps
  <1> QED
    BY <1>1, ConcludeStep, StepsLeftIs

\* Every step of a call leaves it fewer.
LEMMA StepRunsDown ==
  ASSUME Ind, NEW h \in Handlers, Step(h)
  PROVE  \E c : call' = [call EXCEPT ![h] = c] /\ StepsLeft[c.at] < StepsLeft[call[h].at]
  <1>0. TypeOK /\ call[h] \in Calls
    BY DEF Ind, TypeOK
  <1>1. CASE Return(h)
    <2>1. call[h].at # "idle"
      BY DEF Step, Refuse, PlanSteps, CheckSteps, PlanAuthorize, PlanConfig, PlanCreate,
             PlanPreview, PlanWaive, Approve, ApplyAuthorize, ApplyConfig, Claim, Intent,
             IntentFails, DispatchAccepted, DispatchSynchronous, DispatchRefused, DispatchLost,
             PersistHandle, Poll, PollFails, Receipt, Settle, At
    <2> QED
      BY <1>0, <1>1, <2>1, ReturnRunsDown
  <1>2. CASE PlanAuthorize(h)
    <2>1. PICK o \in Overrides, v \in Versions :
            call' = [call EXCEPT ![h] = [call[h] EXCEPT !.at = "plan_config", !.override = o,
                                                        !.facts = v]]
      BY <1>2 DEF PlanAuthorize
    <2>2. PICK c : c = [call[h] EXCEPT !.at = "plan_config", !.override = o, !.facts = v]
      OBVIOUS
    <2>3. c.at = "plan_config" /\ call[h].at = "plan_authorize"
      BY <1>0, <1>2, <2>2 DEF PlanAuthorize, At, Calls
    <2>4. StepsLeft[c.at] < StepsLeft[call[h].at]
      BY <2>3, StepsLeftIs
    <2> QED
      BY <2>1, <2>2, <2>4
  <1>3. CASE PlanConfig(h)
    <2>1. PICK c : c = [call[h] EXCEPT !.at = "plan_create", !.config = guest.config]
      OBVIOUS
    <2>2. c.at = "plan_create" /\ call[h].at = "plan_config"
      BY <1>0, <1>3, <2>1 DEF PlanConfig, At, Calls
    <2>3. StepsLeft[c.at] < StepsLeft[call[h].at]
      BY <2>2, StepsLeftIs
    <2>4. call' = [call EXCEPT ![h] = c]
      BY <1>3, <2>1 DEF PlanConfig
    <2> QED
      BY <2>3, <2>4
  <1>4. CASE PlanCreate(h)
    <2>1. PICK i \in Ids :
            call' = [call EXCEPT ![h] = [call[h] EXCEPT !.at = "plan_preview", !.id = i]]
      BY <1>4 DEF PlanCreate
    <2>2. PICK c : c = [call[h] EXCEPT !.at = "plan_preview", !.id = i]
      OBVIOUS
    <2>3. c.at = "plan_preview" /\ call[h].at = "plan_create"
      BY <1>0, <1>4, <2>2 DEF PlanCreate, At, Calls
    <2>4. StepsLeft[c.at] < StepsLeft[call[h].at]
      BY <2>3, StepsLeftIs
    <2> QED
      BY <2>1, <2>2, <2>4
  <1>5. CASE ApplyAuthorize(h)
    <2>1. PICK v \in Versions :
            call' = [call EXCEPT ![h] = [call[h] EXCEPT !.at = "apply_config", !.facts = v]]
      BY <1>5 DEF ApplyAuthorize
    <2>2. PICK c : c = [call[h] EXCEPT !.at = "apply_config", !.facts = v]
      OBVIOUS
    <2>3. c.at = "apply_config" /\ call[h].at = "apply_authorize"
      BY <1>0, <1>5, <2>2 DEF ApplyAuthorize, At, Calls
    <2>4. StepsLeft[c.at] < StepsLeft[call[h].at]
      BY <2>3, StepsLeftIs
    <2> QED
      BY <2>1, <2>2, <2>4
  <1>6. CASE DispatchAccepted(h)
    <2>1. PICK c : c = [NoCall EXCEPT !.at = "persist", !.id = call[h].id]
      OBVIOUS
    <2>2. c.at = "persist" /\ call[h].at = "dispatch"
      BY <1>6, <2>1 DEF DispatchAccepted, At, NoCall
    <2>3. StepsLeft[c.at] < StepsLeft[call[h].at]
      BY <2>2, StepsLeftIs
    <2>4. call' = [call EXCEPT ![h] = c]
      BY <1>6, <2>1 DEF DispatchAccepted
    <2> QED
      BY <2>3, <2>4
  <1>7. CASE DispatchSynchronous(h) \/ DispatchRefused(h)
    <2>1. PICK o \in Outcomes : Conclude(h, o)
      BY <1>7 DEF DispatchSynchronous, DispatchRefused, Outcomes
    <2> QED
      BY <1>7, <2>1, ConcludeRunsDown DEF DispatchSynchronous, DispatchRefused, At
  <1>8. CASE Poll(h)
    BY <1>8, ConcludeRunsDown DEF Poll, At
  <1>9. CASE \/ At(h, "plan_preview") /\ Goto(h, "plan_waive")
             \/ At(h, "apply_config") /\ Goto(h, "claim")
             \/ At(h, "claim") /\ Goto(h, "intent")
             \/ At(h, "claim") /\ Goto(h, "dispatch")
             \/ At(h, "intent") /\ Goto(h, "dispatch")
             \/ At(h, "persist") /\ Goto(h, "poll")
             \/ At(h, "receipt") /\ Goto(h, "settle")
    BY <1>0, <1>9, GotoRunsDown, StepsLeftIs DEF At, Steps, PlanSteps, CheckSteps, ClaimSteps
  <1> QED
    <2>1. CASE PlanPreview(h) \/ ApplyConfig(h) \/ Claim(h)
      BY <1>1, <1>9, <2>1 DEF PlanPreview, ApplyConfig, Claim
    <2>2. CASE Intent(h) \/ PersistHandle(h) \/ Receipt(h)
      BY <1>9, <2>2 DEF Intent, PersistHandle, Receipt
    <2>3. CASE \/ Refuse(h) \/ PlanWaive(h) \/ Approve(h) \/ IntentFails(h) \/ DispatchLost(h)
               \/ PollFails(h) \/ Settle(h)
      BY <1>1, <2>3 DEF Refuse, PlanWaive, Approve, IntentFails, DispatchLost, PollFails, Settle
    <2> QED
      BY <1>2, <1>3, <1>4, <1>5, <1>6, <1>7, <1>8, <2>1, <2>2, <2>3 DEF Step

\* Nobody else gives a call more steps.
LEMMA OthersRunDown ==
  ASSUME Ind, NEW h \in Handlers, call[h].at # "idle", Next
  PROVE  call'[h] = call[h] \/ Step(h) \/ call'[h] = NoCall
  <1>1. ASSUME NEW g \in Handlers, Start(g)
        PROVE  call'[h] = call[h]
    <2>1. call[g].at = "idle" /\ \E c : call' = [call EXCEPT ![g] = c]
      BY <1>1 DEF Start, PlanStart, ApproveStart, ApplyStart, At
    <2> QED
      BY <2>1 DEF Ind, TypeOK
  <1>2. ASSUME NEW g \in Handlers, g # h, Step(g)
        PROVE  call'[h] = call[h]
    BY <1>2, StepRunsDown DEF Ind, TypeOK
  <1>3. CASE \/ \E i \in Ids : TaskEnds(i)
             \/ GuestChanges \/ Crash \/ Restart \/ Recover
    BY <1>3 DEF TaskEnds, GuestChanges, Crash, Restart, Recover, RecoverSkip, RecoverProbe,
                RecoverReceipt, RecoverSettle, Serve
  <1> QED
    BY <1>1, <1>2, <1>3 DEF Next

(***************************************************************************)
(* No call retries or waits for another: each of its steps leaves fewer,   *)
(* and nobody else adds any.  That a call takes its next step at all is    *)
(* what CallsReturn needs fairness for.                                    *)
(***************************************************************************)
THEOREM EveryCallRunsDown == Spec => CallsRunDown
  <1>1. Ind /\ Next => \A h \in Handlers : /\ Step(h) => Left(h)' < Left(h)
                                           /\ call[h].at # "idle" => Left(h)' <= Left(h)
    <2> SUFFICES ASSUME Ind, Next, NEW h \in Handlers
                 PROVE  /\ Step(h) => Left(h)' < Left(h)
                        /\ call[h].at # "idle" => Left(h)' <= Left(h)
      OBVIOUS
    <2>1. call[h].at \in Steps /\ call \in [Handlers -> Calls]
      BY DEF Ind, TypeOK, Calls, Steps
    <2>2. StepsLeft[call[h].at] \in Nat
      BY <2>1, StepsLeftPositive
    <2>3. ASSUME Step(h)
          PROVE  StepsLeft[call'[h].at] < StepsLeft[call[h].at]
      BY <2>1, <2>3, StepRunsDown
    <2>4. StepsLeft[call'[h].at] < StepsLeft[call[h].at]
            => StepsLeft[call'[h].at] <= StepsLeft[call[h].at]
      <3>1. CASE Step(h)
        <4>1. PICK c : call' = [call EXCEPT ![h] = c] /\ StepsLeft[c.at] < StepsLeft[call[h].at]
          BY <3>1, StepRunsDown
        <4>2. call' \in [Handlers -> Calls]
          BY NextInd DEF Ind, TypeOK
        <4>3. StepsLeft[call'[h].at] \in Nat
          BY <4>2, StepsLeftPositive DEF Calls, Steps
        <4> QED
          BY <2>2, <4>3
      <3>2. CASE call'[h] = call[h]
        BY <2>2, <3>2
      <3>3. CASE call'[h] = NoCall
        BY <2>2, <3>3, StepsLeftIs, NoCallTyped
      <3>4. CASE call[h].at = "idle"
        <4>1. call'[h].at \in Steps
          BY NextInd DEF Ind, TypeOK, Calls, Steps
        <4> QED
          BY <2>2, <4>1, StepsLeftPositive
      <3> QED
        BY <3>1, <3>2, <3>3, <3>4, OthersRunDown
    <2>5. ASSUME call[h].at # "idle"
          PROVE  StepsLeft[call'[h].at] <= StepsLeft[call[h].at]
      <3>1. CASE Step(h)
        BY <2>3, <2>4, <3>1
      <3>2. CASE call'[h] = call[h]
        BY <2>2, <3>2
      <3>3. CASE call'[h] = NoCall
        BY <2>2, <3>3, StepsLeftIs, NoCallTyped
      <3> QED
        BY <2>5, <3>1, <3>2, <3>3, OthersRunDown
    <2> QED
      BY <2>3, <2>5 DEF Left
  <1>2. Ind /\ [Next]_vars
          => [\A h \in Handlers : /\ Step(h) => Left(h)' < Left(h)
                                  /\ call[h].at # "idle" => Left(h)' <= Left(h)]_vars
    BY <1>1
  <1> QED
    BY <1>2, Inductive, PTL DEF Spec, CallsRunDown

-----------------------------------------------------------------------------
(***************************************************************************)
(* Startup: it makes headway, and lets go of no record it can settle.      *)
(***************************************************************************)

\* While startup has the server, no call is in progress: only startup itself, the tasks,
\* the guest and a crash can take a step.
LEMMA StepsOfStartup ==
  ASSUME Ind, Next, server = "recovering"
  PROVE  Recover \/ Crash \/ GuestChanges \/ \E i \in Ids : TaskEnds(i)
  <1>1. ASSUME NEW h \in Handlers, Start(h) \/ Step(h)
        PROVE  server = "serving"
    BY <1>1 DEF Start, PlanStart, ApproveStart, ApplyStart, Step, Refuse, PlanAuthorize,
           PlanConfig, PlanCreate, PlanPreview, PlanWaive, Approve, ApplyAuthorize, ApplyConfig,
           Claim, Intent, IntentFails, DispatchAccepted, DispatchSynchronous, DispatchRefused,
           DispatchLost, PersistHandle, Poll, PollFails, Receipt, Settle, At
  <1> QED
    BY <1>1 DEF Next, Restart

\* Startup keeps a record that it can settle in hand, or settles it.
LEMMA RecoverKeeps ==
  ASSUME Ind, Recover, NEW i \in Ids, Pending(i), {"store", "probe"} \cap Faults = {}
  PROVE  Pending(i)' \/ Resolved(i)'
  <1>1. /\ Unresolved(i) /\ effect[i] \in Outcomes /\ effect[i] # "running"
        /\ i \in recovery.todo \/ (recovery.at # "probe" /\ recovery.id = i)
        /\ recovery \in Recoveries /\ store[i] \in Records
    BY DEF Pending, Unresolved, InState, Outcomes, Ind, TypeOK
  <1>2. ASSUME UNCHANGED <<server, store, effect>>,
               i \in recovery'.todo \/ (recovery'.at # "probe" /\ recovery'.id = i)
        PROVE  Pending(i)'
    BY <1>1, <1>2 DEF Pending, Unresolved, InState
  <1>3. ASSUME NEW j \in Ids, RecoverSkip(j)
        PROVE  Pending(i)'
    <2>1. j # i
      BY <1>1, <1>3 DEF RecoverSkip, Unresolved
    <2>2. i \in recovery'.todo
      BY <1>1, <1>3, <2>1 DEF RecoverSkip, Recovering, Recoveries
    <2> QED
      BY <1>2, <1>3, <2>2 DEF RecoverSkip
  <1>4. ASSUME NEW j \in Ids, RecoverProbe(j)
        PROVE  Pending(i)'
    <2>1. recovery'.todo = recovery.todo \ {j} /\ recovery'.id = j /\ recovery'.at # "probe"
      BY <1>4 DEF RecoverProbe
    <2> QED
      BY <1>1, <1>2, <1>4, <2>1 DEF RecoverProbe, Recovering
  <1>5. CASE RecoverReceipt
    <2>1. /\ recovery'.todo = recovery.todo /\ recovery'.id = recovery.id
          /\ recovery'.at = "settle"
      BY <1>1, <1>5 DEF RecoverReceipt, Recoveries
    <2> QED
      BY <1>1, <1>2, <1>5, <2>1 DEF RecoverReceipt
  <1>6. CASE RecoverSettle
    <2>1. store' = [store EXCEPT ![recovery.id] = Settled(@, recovery.outcome)]
      BY <1>6 DEF RecoverSettle
    <2>2. recovery.id \in Ids
      BY <1>6 DEF RecoverSettle, Recovering, Ind, Phases
    <2>3. CASE recovery.id = i
      <3>1. store'[i] = Settled(store[i], recovery.outcome)
        BY <2>1, <2>3 DEF Ind, TypeOK
      <3>2. recovery.outcome \in Outcomes
        BY <1>1 DEF Recoveries
      <3>3. /\ Settled(store[i], recovery.outcome) \in Records
            /\ Settled(store[i], recovery.outcome).state \in {"Applied", "Failed"}
        BY <1>1, <3>2, SettledRecord
      <3>4. store'[i] # None /\ store'[i].state \in {"Applied", "Failed"}
        BY <3>1, <3>3, NoneAssumption
      <3> QED
        BY <3>4 DEF Resolved, InState
    <2>4. CASE recovery.id # i
      <3>1. store'[i] = store[i] /\ UNCHANGED <<server, effect>>
        BY <1>6, <2>1, <2>4 DEF RecoverSettle, Ind, TypeOK
      <3>2. recovery'.todo = recovery.todo
        BY <1>6 DEF RecoverSettle, NoRecovery
      <3>3. i \in recovery.todo
        BY <1>1, <2>4
      <3> QED
        BY <1>1, <3>1, <3>2, <3>3 DEF Pending, Unresolved, InState
    <2> QED
      BY <2>3, <2>4
  <1>7. CASE Serve
    BY <1>1, <1>7 DEF Serve, Recovering
  <1> QED
    BY <1>3, <1>4, <1>5, <1>6, <1>7 DEF Recover

(***************************************************************************)
(* Where the store can be written and the node asked, startup lets go of   *)
(* an apply that has ended only by settling its record.  That it comes to  *)
(* that at all is what RecoverySettles needs fairness for.                 *)
(***************************************************************************)
THEOREM StartupLetsGoOfNothing == Spec => RecoveryKeeps
  <1>1. Ind /\ [Next]_vars
          => [{"store", "probe"} \cap Faults = {} =>
                \A i \in Ids : Pending(i) => Pending(i)' \/ Resolved(i)' \/ server' = "down"]_vars
    <2> SUFFICES ASSUME Ind, Next, {"store", "probe"} \cap Faults = {}, NEW i \in Ids, Pending(i)
                 PROVE  Pending(i)' \/ Resolved(i)' \/ server' = "down"
      OBVIOUS
    <2>1. CASE Recover
      BY <2>1, RecoverKeeps
    <2>2. CASE Crash
      BY <2>2 DEF Crash
    <2>3. CASE GuestChanges
      BY <2>3 DEF GuestChanges, Pending, Unresolved, InState
    <2>4. CASE \E j \in Ids : TaskEnds(j)
      <3>1. PICK j \in Ids : TaskEnds(j)
        BY <2>4
      <3>2. j # i /\ effect'[i] = effect[i]
        BY <3>1 DEF TaskEnds, Pending, Outcomes, Ind, TypeOK
      <3> QED
        BY <3>1, <3>2 DEF TaskEnds, Pending, Unresolved, InState
    <2> QED
      BY <2>1, <2>2, <2>3, <2>4, StepsOfStartup DEF Pending
  <1> QED
    BY <1>1, Inductive, PTL DEF Spec, RecoveryKeeps

\* A step of startup makes headway.
LEMMA RecoverHeadway ==
  ASSUME Ind, Recover
  PROVE  \/ \E i \in recovery.todo : recovery'.todo = recovery.todo \ {i}
         \/ /\ recovery'.todo = recovery.todo
            /\ RecoveryLeft[recovery'.at] < RecoveryLeft[recovery.at]
         \/ server' = "serving" /\ recovery.todo = {}
  <1>0. recovery \in Recoveries
    BY DEF Ind, TypeOK
  <1>1. RecoveryLeft["probe"] = 0 /\ RecoveryLeft["receipt"] = 2 /\ RecoveryLeft["settle"] = 1
    BY DEF RecoveryLeft
  <1>2. ASSUME NEW i \in Ids, RecoverSkip(i) \/ RecoverProbe(i)
        PROVE  i \in recovery.todo /\ recovery'.todo = recovery.todo \ {i}
    BY <1>0, <1>2 DEF RecoverSkip, RecoverProbe, Recoveries
  <1>3. CASE RecoverReceipt
    <2>1. recovery'.todo = recovery.todo /\ recovery'.at = "settle" /\ recovery.at = "receipt"
      BY <1>0, <1>3 DEF RecoverReceipt, Recovering, Recoveries
    <2> QED
      BY <1>1, <2>1
  <1>4. CASE RecoverSettle
    <2>1. recovery'.todo = recovery.todo /\ recovery'.at = "probe" /\ recovery.at = "settle"
      BY <1>4 DEF RecoverSettle, Recovering, NoRecovery
    <2> QED
      BY <1>1, <2>1
  <1>5. CASE Serve
    BY <1>5 DEF Serve
  <1> QED
    BY <1>2, <1>3, <1>4, <1>5 DEF Recover

(***************************************************************************)
(* Startup visits each record once and takes at most three steps for it.   *)
(* That it takes the next one is what RecoverySettles needs fairness for.  *)
(***************************************************************************)
THEOREM StartupEnds == Spec => StartupRunsDown
  <1>1. Ind /\ [Next]_vars
          => [Recover =>
                \/ \E i \in recovery.todo : recovery'.todo = recovery.todo \ {i}
                \/ /\ recovery'.todo = recovery.todo
                   /\ RecoveryLeft[recovery'.at] < RecoveryLeft[recovery.at]
                \/ server' = "serving" /\ recovery.todo = {}]_vars
    BY RecoverHeadway
  <1> QED
    BY <1>1, Inductive, PTL DEF Spec, StartupRunsDown

-----------------------------------------------------------------------------
(***************************************************************************)
(* Lab mode: an override carries its reason from the first resolve of the  *)
(* plan to the waived approval.                                            *)
(***************************************************************************)

\* What makes lab mode the override of a principal.
Reason(by) ==
  /\ by \notin Waived
  /\ "resolve" \notin Faults => \E v \in 0 .. guest.facts : v \in ProtectedAt

\* The plan that a call has the override for is the record that it names.
Overriding(c) ==
  /\ c.at \in {"plan_config", "plan_create", "plan_preview", "plan_waive"} /\ c.override = "lab"
       => Reason(c.by)
  /\ c.at \in {"plan_preview", "plan_waive"} => store[c.id].owner = c.by
  /\ c.at = "plan_waive" => c.override = "lab"

WaivedWithReason(i) == store[i] # None /\ store[i].approval = "waived" => Reason(store[i].owner)

LabInd == /\ \A i \in Ids : WaivedWithReason(i)
          /\ \A h \in Handlers : Overriding(call[h])

\* Lab mode answers in the first resolve for a reason.
LEMMA AdmittedWithReason ==
  ASSUME NEW by, NEW floor \in Nat, NEW o, NEW v, Admitted(by, floor, o, v), o = "lab"
  PROVE  Reason(by)
  <1>1. PICK first \in floor .. guest.facts : o \in OverrideAt(first, by)
    BY DEF Admitted
  <1>2. \/ o = Override(first \in ProtectedAt, by)
        \/ "resolve" \in Faults /\ o = Override(TRUE, by)
    BY <1>1 DEF OverrideAt
  <1> QED
    BY <1>1, <1>2 DEF Override, Reason

\* The guest gets older only.
LEMMA ReasonKept ==
  ASSUME TypeOK, TypeOK', guest'.facts >= guest.facts, NEW by, Reason(by)
  PROVE  Reason(by)'
  <1>1. guest.facts \in Nat /\ guest'.facts \in Nat
    BY BoundAssumption DEF TypeOK, Versions
  <1> QED
    BY <1>1 DEF Reason

\* What a step has to show: the records it keeps have their owner, and an approval that
\* was not waived is waived with reason.
LEMMA LabKept ==
  ASSUME Ind, LabInd, TypeOK', guest'.facts >= guest.facts,
         \A i \in Ids : store[i] # None =>
           /\ store'[i] # None /\ store'[i].owner = store[i].owner
           /\ store'[i].approval = "waived" =>
                store[i].approval = "waived" \/ Reason(store[i].owner),
         \A i \in Ids : store[i] = None => store'[i] = None \/ store'[i].approval # "waived",
         \A h \in Handlers : call'[h] = call[h] \/ Overriding(call[h])'
  PROVE  LabInd'
  <1> USE DEF Ind
  <1>1. ASSUME NEW i \in Ids
        PROVE  WaivedWithReason(i)'
    BY ReasonKept DEF LabInd, WaivedWithReason
  <1>2. ASSUME NEW h \in Handlers
        PROVE  Overriding(call[h])'
    <2>1. CASE call'[h] = call[h]
      <3>1. PICK c \in Calls : c = call[h]
        BY DEF TypeOK
      <3>2. c.at \in {"plan_preview", "plan_waive"} => c.id \in Ids /\ store[c.id] # None
        BY <3>1 DEF CheckerOK, Naming
      <3>3. Overriding(c)
        BY <3>1 DEF LabInd
      <3>4. Overriding(c)'
        BY <3>2, <3>3, ReasonKept DEF Overriding
      <3> QED
        BY <2>1, <3>1, <3>4 DEF Overriding, Reason
    <2>2. CASE Overriding(call[h])'
      BY <2>2 DEF Overriding, Reason
    <2> QED
      BY <2>1, <2>2
  <1> QED
    BY <1>1, <1>2 DEF LabInd

\* A step of handler h that writes no record.
LEMMA LabQuiet ==
  ASSUME Ind, LabInd, TypeOK', UNCHANGED <<guest, store>>,
         NEW h \in Handlers, NEW c \in Calls, call' = [call EXCEPT ![h] = c], Overriding(c)
  PROVE  LabInd'
  <1>1. \A g \in Handlers : call'[g] = call[g] \/ (g = h /\ call'[g] = c)
    BY DEF Ind, TypeOK
  <1>2. Overriding(c)'
    BY DEF Overriding, Reason
  <1>3. \A g \in Handlers : call'[g] = call[g] \/ Overriding(call[g])'
    BY <1>1, <1>2 DEF Overriding, Reason
  <1>4. guest'.facts >= guest.facts
    BY BoundAssumption DEF Ind, TypeOK, Versions
  <1> QED
    BY <1>3, <1>4, LabKept

\* The steps at which a call still carries the override of its plan.
Carrying == {"plan_config", "plan_create", "plan_preview", "plan_waive"}

\* A step that writes a record, and no approval but one with reason.
LEMMA LabWrite ==
  ASSUME Ind, LabInd, TypeOK', UNCHANGED guest,
         NEW i \in Ids, store[i] # None, NEW r, store' = [store EXCEPT ![i] = r], r # None,
         r.owner = store[i].owner,
         r.approval = "waived" => store[i].approval = "waived" \/ Reason(store[i].owner),
         \A g \in Handlers : call'[g] = call[g] \/ call'[g].at \notin Carrying
                             \/ Overriding(call[g])'
  PROVE  LabInd'
  <1>1. \A j \in Ids : store'[j] = IF j = i THEN r ELSE store[j]
    BY DEF Ind, TypeOK
  <1>2. \A g \in Handlers : call'[g] = call[g] \/ Overriding(call[g])'
    BY DEF Overriding, Carrying
  <1>3. guest'.facts >= guest.facts
    BY BoundAssumption DEF Ind, TypeOK, Versions
  <1>4. \A j \in Ids : store[j] # None =>
          /\ store'[j] # None /\ store'[j].owner = store[j].owner
          /\ store'[j].approval = "waived" =>
               store[j].approval = "waived" \/ Reason(store[j].owner)
    BY <1>1
  <1>5. \A j \in Ids : store[j] = None => store'[j] = None
    BY <1>1
  <1> QED
    BY <1>2, <1>3, <1>4, <1>5, LabKept

\* A step that writes no record, and leaves no call with an override it did not have.
LEMMA LabSame ==
  ASSUME Ind, LabInd, TypeOK', UNCHANGED <<guest, store>>,
         \A g \in Handlers : call'[g] = call[g] \/ call'[g].at \notin Carrying
  PROVE  LabInd'
  <1>1. \A g \in Handlers : call'[g] = call[g] \/ Overriding(call[g])'
    BY DEF Overriding, Carrying
  <1>2. guest'.facts >= guest.facts
    BY BoundAssumption DEF Ind, TypeOK, Versions
  <1> QED
    BY <1>1, <1>2, LabKept

\* The handlers but h stay where they are, and h carries nothing on.
LEMMA CarriesNothing ==
  ASSUME Ind, NEW h \in Handlers, Start(h) \/ Step(h),
         ~(PlanAuthorize(h) \/ PlanConfig(h) \/ PlanCreate(h) \/ PlanPreview(h))
  PROVE  \A g \in Handlers : call'[g] = call[g] \/ call'[g].at \notin Carrying
  <1> SUFFICES \E c : call' = [call EXCEPT ![h] = c] /\ c.at \notin Carrying
    BY DEF Ind, TypeOK
  <1>0. TypeOK /\ call[h] \in Calls
    BY DEF Ind, TypeOK
  <1>1. CASE Return(h)
    BY <1>1, NoCallTyped DEF Return, Carrying
  <1>2. ASSUME NEW s \in Steps, Goto(h, s), s \notin Carrying
        PROVE  \E c : call' = [call EXCEPT ![h] = c] /\ c.at \notin Carrying
    BY <1>0, <1>2, GotoStep
  <1>3. ASSUME NEW o \in Outcomes, Conclude(h, o), call[h].at \in {"dispatch", "poll"}
        PROVE  \E c : call' = [call EXCEPT ![h] = c] /\ c.at \notin Carrying
    <2>1. call[h].id \in Ids
      BY <1>3, NamedRecord DEF Naming, ClaimSteps
    <2> QED
      BY <1>0, <1>3, <2>1, ConcludeStep DEF Carrying
  <1>4. CASE Start(h)
    <2>1. PICK c : c = call'[h]
      OBVIOUS
    <2>2. call' = [call EXCEPT ![h] = c]
      BY <1>4, <2>1 DEF Start, PlanStart, ApproveStart, ApplyStart, Ind, TypeOK
    <2>3. c.at \in {"plan_authorize", "approve", "apply_authorize"}
      <3>1. CASE PlanStart(h)
        BY <2>1, <3>1, NoCallTyped DEF PlanStart, Calls, Ind, TypeOK
      <3>2. CASE ApproveStart(h)
        BY <2>1, <3>2, NoCallTyped DEF ApproveStart, Calls, Ind, TypeOK
      <3>3. CASE ApplyStart(h)
        BY <2>1, <3>3, NoCallTyped DEF ApplyStart, Calls, Ind, TypeOK
      <3> QED
        BY <1>4, <3>1, <3>2, <3>3 DEF Start
    <2> QED
      BY <2>2, <2>3 DEF Carrying
  <1>5. CASE ApplyAuthorize(h)
    <2>1. PICK v \in Versions :
            call' = [call EXCEPT ![h] = [call[h] EXCEPT !.at = "apply_config", !.facts = v]]
      BY <1>5 DEF ApplyAuthorize
    <2>2. PICK c : c = [call[h] EXCEPT !.at = "apply_config", !.facts = v]
      OBVIOUS
    <2>3. c.at \notin Carrying
      BY <1>0, <2>2 DEF Calls, Carrying
    <2> QED
      BY <2>1, <2>2, <2>3
  <1>6. CASE DispatchAccepted(h)
    <2>1. PICK c : c = [NoCall EXCEPT !.at = "persist", !.id = call[h].id]
      OBVIOUS
    <2>2. c.at \notin Carrying
      BY <2>1, NoCallTyped DEF Calls, Carrying
    <2> QED
      BY <1>6, <2>1, <2>2 DEF DispatchAccepted
  <1>7. CASE DispatchSynchronous(h) \/ DispatchRefused(h) \/ Poll(h)
    <2>1. PICK o \in Outcomes : Conclude(h, o)
      BY <1>7 DEF DispatchSynchronous, DispatchRefused, Poll, Outcomes
    <2> QED
      BY <1>3, <1>7, <2>1 DEF DispatchSynchronous, DispatchRefused, Poll, At
  <1>8. CASE ApplyConfig(h) \/ Claim(h) \/ Intent(h) \/ PersistHandle(h) \/ Receipt(h)
    <2>1. PICK s \in {"claim", "intent", "dispatch", "poll", "settle"} : Goto(h, s)
      BY <1>8 DEF ApplyConfig, Claim, Intent, PersistHandle, Receipt
    <2> QED
      BY <1>2, <2>1 DEF Steps, CheckSteps, ClaimSteps, Carrying
  <1> QED
    <2>1. CASE \/ Refuse(h) \/ PlanWaive(h) \/ Approve(h) \/ IntentFails(h) \/ DispatchLost(h)
               \/ PollFails(h) \/ Settle(h)
      BY <1>1, <2>1 DEF Refuse, PlanWaive, Approve, IntentFails, DispatchLost, PollFails, Settle
    <2> QED
      BY <1>4, <1>5, <1>6, <1>7, <1>8, <2>1 DEF Step

\* The first resolve gives the override its reason.
LEMMA PlanAuthorizeLab ==
  ASSUME Ind, LabInd, TypeOK', NEW h \in Handlers, PlanAuthorize(h)
  PROVE  LabInd'
  <1>1. PICK o \in Overrides, v \in Versions :
          /\ Admitted(call[h].by, call[h].floorFacts, o, v)
          /\ call' = [call EXCEPT ![h] = [call[h] EXCEPT !.at = "plan_config", !.override = o,
                                                         !.facts = v]]
    BY DEF PlanAuthorize
  <1>2. call[h] \in Calls /\ call[h].floorFacts \in Nat
    BY BoundAssumption DEF Ind, TypeOK, Calls, Versions
  <1>3. PICK c : c = [call[h] EXCEPT !.at = "plan_config", !.override = o, !.facts = v]
    OBVIOUS
  <1>4. c \in Calls /\ c.at = "plan_config" /\ c.override = o /\ c.by = call[h].by
    BY <1>2, <1>3 DEF Calls, PlanSteps
  <1>5. Overriding(c)
    BY <1>1, <1>2, <1>4, AdmittedWithReason DEF Overriding
  <1> QED
    BY <1>1, <1>3, <1>4, <1>5, LabQuiet DEF PlanAuthorize

\* The plan goes on with its override.
LEMMA PlanConfigLab ==
  ASSUME Ind, LabInd, TypeOK', NEW h \in Handlers, PlanConfig(h)
  PROVE  LabInd'
  <1>1. call[h] \in Calls /\ call[h].at = "plan_config" /\ guest.config \in Versions
    BY DEF PlanConfig, At, Ind, TypeOK
  <1>2. PICK c : c = [call[h] EXCEPT !.at = "plan_create", !.config = guest.config]
    OBVIOUS
  <1>3. c \in Calls /\ c.at = "plan_create" /\ c.override = call[h].override /\ c.by = call[h].by
    BY <1>1, <1>2 DEF Calls, PlanSteps
  <1>4. Overriding(c)
    BY <1>1, <1>3 DEF LabInd, Overriding
  <1> QED
    BY <1>2, <1>3, <1>4, LabQuiet DEF PlanConfig

\* The record that it creates is its caller's.
LEMMA PlanCreateLab ==
  ASSUME Ind, LabInd, TypeOK', NEW h \in Handlers, PlanCreate(h)
  PROVE  LabInd'
  <1>1. PICK i \in Ids :
          /\ store[i] = None
          /\ store' = [store EXCEPT ![i] =
               [state |-> "Planned", preview |-> "missing", owner |-> call[h].by,
                approver |-> None, approval |-> "none", facts |-> call[h].facts,
                config |-> call[h].config, claim |-> "None", handle |-> "none"]]
          /\ call' = [call EXCEPT ![h] = [call[h] EXCEPT !.at = "plan_preview", !.id = i]]
    BY DEF PlanCreate
  <1>2. call[h] \in Calls /\ call[h].at = "plan_create"
    BY DEF PlanCreate, At, Ind, TypeOK
  <1>3. PICK c : c = [call[h] EXCEPT !.at = "plan_preview", !.id = i]
    OBVIOUS
  <1>4. c.at = "plan_preview" /\ c.id = i /\ c.override = call[h].override /\ c.by = call[h].by
    BY <1>2, <1>3 DEF Calls
  <1>5. store'[i].owner = call[h].by /\ store'[i].approval = "none"
        /\ \A j \in Ids \ {i} : store'[j] = store[j]
    BY <1>1 DEF Ind, TypeOK
  <1>6. Overriding(call[h])
    BY DEF LabInd
  <1>7. guest' = guest /\ guest'.facts >= guest.facts
    BY BoundAssumption DEF PlanCreate, Ind, TypeOK, Versions
  <1>8. Overriding(c)'
    BY <1>2, <1>4, <1>5, <1>6, <1>7 DEF Overriding, Reason
  <1>9. \A g \in Handlers : call'[g] = IF g = h THEN c ELSE call[g]
    BY <1>1, <1>3 DEF Ind, TypeOK
  <1>10. \A g \in Handlers : call'[g] = call[g] \/ Overriding(call[g])'
    BY <1>8, <1>9 DEF Overriding, Reason
  <1> QED
    BY <1>1, <1>5, <1>7, <1>10, LabKept

\* A preview is stored, and in lab mode the call goes on to waive the approval.
LEMMA PlanPreviewLab ==
  ASSUME Ind, LabInd, TypeOK', NEW h \in Handlers, PlanPreview(h)
  PROVE  LabInd'
  <1> DEFINE i == call[h].id
             r == [store[i] EXCEPT !.preview = "stored"]
  <1>1. call[h] \in Calls /\ call[h].at = "plan_preview" /\ i \in Ids /\ store[i] \in Records
    BY NamedRecord DEF PlanPreview, At, Ind, TypeOK, Naming
  <1>2. store[i] # None /\ r # None /\ r \in Records
    BY <1>1, NoneAssumption DEF Records
  <1>3. r.owner = store[i].owner /\ r.approval = store[i].approval
    BY <1>1 DEF Records
  <1>4. store' = [store EXCEPT ![i] = r] /\ guest' = guest
    BY DEF PlanPreview
  <1>5. Overriding(call[h])
    BY DEF LabInd
  <1>6. \E c : /\ call' = [call EXCEPT ![h] = c]
               /\ c.at \notin Carrying \/ Overriding(c)'
    <2>1. CASE Return(h)
      BY <2>1, NoCallTyped DEF Return, Carrying
    <2>2. CASE call[h].override = "lab" /\ Goto(h, "plan_waive")
      <3>1. PICK c \in Calls : /\ call' = [call EXCEPT ![h] = c]
                               /\ c.at = "plan_waive" /\ MovedOn(c, call[h])
        BY <2>2, GotoStep DEF Steps, PlanSteps, Ind
      <3>2. c.id = i /\ c.by = call[h].by /\ c.override = "lab"
        BY <2>2, <3>1 DEF MovedOn
      <3>3. store'[i].owner = store[i].owner
        BY <1>1, <1>3, <1>4 DEF Ind, TypeOK
      <3>4. Overriding(c)'
        BY <1>1, <1>4, <1>5, <2>2, <3>1, <3>2, <3>3 DEF Overriding, Reason
      <3> QED
        BY <3>1, <3>4
    <2> QED
      BY <2>1, <2>2 DEF PlanPreview
  <1>7. PICK c : /\ call' = [call EXCEPT ![h] = c]
                 /\ c.at \notin Carrying \/ Overriding(c)'
    BY <1>6
  <1>8. \A g \in Handlers : call'[g] = IF g = h THEN c ELSE call[g]
    BY <1>7 DEF Ind, TypeOK
  <1>9. \A g \in Handlers : call'[g] = call[g] \/ call'[g].at \notin Carrying
                            \/ Overriding(call[g])'
    BY <1>7, <1>8 DEF Overriding, Reason
  <1> HIDE DEF r, i
  <1> QED
    BY <1>1, <1>2, <1>3, <1>4, <1>9, LabWrite

\* The approval is waived with the reason that the override had.
LEMMA PlanWaiveLab ==
  ASSUME Ind, LabInd, TypeOK', NEW h \in Handlers, PlanWaive(h)
  PROVE  LabInd'
  <1> DEFINE i == call[h].id
             r == [store[i] EXCEPT !.state = "Approved", !.approval = "waived"]
  <1>1. call[h].at = "plan_waive" /\ i \in Ids /\ store[i] \in Records
    BY NamedRecord DEF PlanWaive, At, Naming
  <1>2. store[i] # None /\ r # None /\ r.owner = store[i].owner
    <2>1. r \in Records /\ r.owner = store[i].owner
      BY <1>1 DEF Records, States
    <2> QED
      BY <1>1, <2>1, NoneAssumption
  <1>3. Reason(store[i].owner)
    BY <1>1 DEF LabInd, Overriding
  <1>4. store' = [store EXCEPT ![i] = r] /\ guest' = guest
    BY DEF PlanWaive
  <1>5. \A g \in Handlers : call'[g] = call[g] \/ call'[g].at \notin Carrying
    <2>1. Return(h)
      BY DEF PlanWaive
    <2> QED
      BY <2>1, NoCallTyped DEF Return, Carrying, Ind, TypeOK
  <1> HIDE DEF r, i
  <1> QED
    BY <1>1, <1>2, <1>3, <1>4, <1>5, LabWrite

\* The other steps of a handler that write a record leave how it was approved, or have a
\* second person approve it.
LEMMA WritesLab ==
  ASSUME Ind, LabInd, TypeOK', NEW h \in Handlers,
         Approve(h) \/ Claim(h) \/ IntentFails(h) \/ PersistHandle(h) \/ Settle(h)
  PROVE  LabInd'
  <1>1. \A g \in Handlers : call'[g] = call[g] \/ call'[g].at \notin Carrying
    <2>1. ~(PlanAuthorize(h) \/ PlanConfig(h) \/ PlanCreate(h) \/ PlanPreview(h)) /\ Step(h)
      BY DEF PlanAuthorize, PlanConfig, PlanCreate, PlanPreview, Approve, Claim, IntentFails,
             PersistHandle, Settle, Step, At
    <2> QED
      BY <2>1, CarriesNothing
  <1>2. PICK i : i = call[h].id
    OBVIOUS
  <1>3. i \in Ids /\ store[i] \in Records /\ store[i] # None /\ call[h] \in Calls
    BY <1>2, NamedRecord, NoneAssumption
    DEF Approve, Claim, IntentFails, PersistHandle, Settle, At, Naming, ApplyChecks, ClaimSteps,
        Ind, TypeOK
  <1>4. guest' = guest
    BY DEF Approve, Claim, IntentFails, PersistHandle, Settle
  <1>5. PICK q : q = store[i]
    OBVIOUS
  <1>6. \/ UNCHANGED store
        \/ \E r : /\ store' = [store EXCEPT ![i] = r]
                  /\ r # None /\ r.owner = q.owner
                  /\ r.approval = q.approval \/ r.approval = "second"
    <2>1. q \in Records
      BY <1>3, <1>5
    <2>2. CASE Approve(h)
      <3>1. PICK r : r = [q EXCEPT !.state = "Approved", !.approval = "second",
                                   !.approver = call[h].by]
        OBVIOUS
      <3>2. call[h].by \in Principals
        BY <2>2, HumansAssumption DEF Approve
      <3>3. r \in Records /\ r.owner = q.owner /\ r.approval = "second"
        BY <2>1, <3>1, <3>2 DEF Records, States
      <3>4. store' = [store EXCEPT ![i] = r]
        BY <1>2, <1>5, <2>2, <3>1 DEF Approve
      <3> QED
        BY <3>3, <3>4, NoneAssumption
    <2>3. CASE Claim(h)
      <3>1. PICK r : r = [q EXCEPT !.state = "Applying", !.claim = "None"]
        OBVIOUS
      <3>2. r \in Records /\ r.owner = q.owner /\ r.approval = q.approval
        BY <2>1, <3>1 DEF Records, States
      <3>3. store' = [store EXCEPT ![i] = r]
        BY <1>2, <1>5, <2>3, <3>1 DEF Claim
      <3> QED
        BY <3>2, <3>3, NoneAssumption
    <2>4. CASE IntentFails(h)
      <3>1. PICK r : r = [q EXCEPT !.state = "Failed"]
        OBVIOUS
      <3>2. r \in Records /\ r.owner = q.owner /\ r.approval = q.approval
        BY <2>1, <3>1 DEF Records, States
      <3>3. store' = [store EXCEPT ![i] = r] \/ UNCHANGED store
        BY <1>2, <1>5, <2>4, <3>1 DEF IntentFails
      <3> QED
        BY <3>2, <3>3, NoneAssumption
    <2>5. CASE PersistHandle(h)
      <3>1. PICK r : r = [q EXCEPT !.handle = "upid"]
        OBVIOUS
      <3>2. r \in Records /\ r.owner = q.owner /\ r.approval = q.approval
        BY <2>1, <3>1 DEF Records
      <3>3. store' = [store EXCEPT ![i] = r] \/ UNCHANGED store
        BY <1>2, <1>5, <2>5, <3>1 DEF PersistHandle
      <3> QED
        BY <3>2, <3>3, NoneAssumption
    <2>6. CASE Settle(h)
      <3>1. PICK r : r = Settled(q, call[h].outcome)
        OBVIOUS
      <3>2. r \in Records /\ r.owner = q.owner /\ r.approval = q.approval
        BY <1>3, <2>1, <3>1, SettledRecord DEF Calls, SamePlan, SameApproval
      <3>3. store' = [store EXCEPT ![i] = r] \/ UNCHANGED store
        BY <1>2, <1>5, <2>6, <3>1 DEF Settle
      <3> QED
        BY <3>2, <3>3, NoneAssumption
    <2> QED
      BY <2>2, <2>3, <2>4, <2>5, <2>6
  <1>7. CASE UNCHANGED store
    BY <1>1, <1>4, <1>7, LabSame
  <1>8. ASSUME NEW r, store' = [store EXCEPT ![i] = r], r # None, r.owner = q.owner,
               r.approval = q.approval \/ r.approval = "second"
        PROVE  LabInd'
    <2>1. /\ r.owner = store[i].owner
          /\ r.approval = "waived" => store[i].approval = "waived"
      BY <1>5, <1>8
    <2> QED
      BY <1>1, <1>3, <1>4, <1>8, <2>1, LabWrite
  <1> QED
    BY <1>6, <1>7, <1>8

\* So does recovery, when it settles a record, and loading the store.
LEMMA StartupLab ==
  ASSUME Ind, LabInd, TypeOK', RecoverSettle \/ Restart
  PROVE  LabInd'
  <1>1. UNCHANGED <<guest, call>>
    BY DEF RecoverSettle, Restart
  <1>2. guest'.facts >= guest.facts
    BY <1>1, BoundAssumption DEF Ind, TypeOK, Versions
  <1>3. \A i \in Ids : /\ store[i] = None => store'[i] = None
                       /\ store[i] # None => /\ store'[i] # None
                                             /\ store'[i].owner = store[i].owner
                                             /\ store'[i].approval = store[i].approval
    <2>1. CASE RecoverSettle
      <3>1. PICK i \in Ids : i = recovery.id
        BY <2>1 DEF RecoverSettle, Recovering, Ind, Phases
      <3>2. recovery.outcome \in Outcomes /\ store[i] \in Records
        BY <2>1, <3>1 DEF RecoverSettle, Recovering, Ind, Phases, Unresolved, InState, TypeOK,
                          Recoveries
      <3>3. PICK r : r = Settled(store[i], recovery.outcome)
        OBVIOUS
      <3>4. r # None /\ r.owner = store[i].owner /\ r.approval = store[i].approval
        BY <3>2, <3>3, SettledRecord, NoneAssumption DEF SamePlan, SameApproval
      <3>5. store' = [store EXCEPT ![i] = r] \/ UNCHANGED store
        BY <2>1, <3>1, <3>3 DEF RecoverSettle
      <3> QED
        BY <3>2, <3>4, <3>5, NoneAssumption DEF Ind, TypeOK
    <2>2. CASE Restart
      <3> SUFFICES ASSUME NEW i \in Ids
                   PROVE  /\ store[i] = None => store'[i] = None
                          /\ store[i] # None => /\ store'[i] # None
                                                /\ store'[i].owner = store[i].owner
                                                /\ store'[i].approval = store[i].approval
        OBVIOUS
      <3>1. \/ store'[i] = store[i]
            \/ store[i] # None /\ store'[i] = [store[i] EXCEPT !.state = "Failed"]
        BY <2>2 DEF Restart, InState
      <3>2. ASSUME NEW q \in Records, store[i] = q, NEW r, r = [q EXCEPT !.state = "Failed"]
            PROVE  r \in Records /\ r.owner = q.owner /\ r.approval = q.approval
        BY <3>2 DEF Records, States
      <3> QED
        BY <3>1, <3>2, NoneAssumption DEF Ind, TypeOK
    <2> QED
      BY <2>1, <2>2
  <1> QED
    BY <1>1, <1>2, <1>3, LabKept

\* Every step keeps it.
LEMMA NextLab ==
  ASSUME Ind, LabInd, [Next]_vars
  PROVE  LabInd'
  <1>0. TypeOK'
    BY NextInd, StutterInd DEF Ind
  <1>1. ASSUME NEW h \in Handlers, Start(h) \/ Step(h)
        PROVE  LabInd'
    <2>1. CASE PlanAuthorize(h) \/ PlanConfig(h) \/ PlanCreate(h) \/ PlanPreview(h)
      BY <1>0, <2>1, PlanAuthorizeLab, PlanConfigLab, PlanCreateLab, PlanPreviewLab
    <2>2. CASE PlanWaive(h)
      BY <1>0, <2>2, PlanWaiveLab
    <2>3. CASE Approve(h) \/ Claim(h) \/ IntentFails(h) \/ PersistHandle(h) \/ Settle(h)
      BY <1>0, <2>3, WritesLab
    <2>4. CASE ~(PlanAuthorize(h) \/ PlanConfig(h) \/ PlanCreate(h) \/ PlanPreview(h))
               /\ UNCHANGED <<guest, store>>
      BY <1>0, <1>1, <2>4, CarriesNothing, LabSame
    <2>5. UNCHANGED <<guest, store>> \/ PlanCreate(h) \/ PlanPreview(h) \/ PlanWaive(h)
          \/ Approve(h) \/ Claim(h) \/ IntentFails(h) \/ PersistHandle(h) \/ Settle(h)
      BY <1>1 DEF Start, PlanStart, ApproveStart, ApplyStart, Step, Refuse, PlanAuthorize,
             PlanConfig, ApplyAuthorize, ApplyConfig, Intent, DispatchAccepted,
             DispatchSynchronous, DispatchRefused, DispatchLost, Poll, PollFails, Receipt
    <2> QED
      BY <2>1, <2>2, <2>3, <2>4, <2>5
  <1>2. CASE RecoverSettle \/ Restart
    BY <1>0, <1>2, StartupLab
  <1>3. CASE Crash
    <2>1. \A h \in Handlers : call'[h].at \notin Carrying
      BY <1>3, NoCallTyped DEF Crash, Carrying
    <2> QED
      BY <1>0, <1>3, <2>1, LabSame DEF Crash
  <1>4. CASE \/ \E i \in Ids : TaskEnds(i) \/ RecoverSkip(i) \/ RecoverProbe(i)
             \/ RecoverReceipt \/ Serve \/ UNCHANGED vars
    <2>1. UNCHANGED <<guest, store, call>>
      BY <1>4 DEF TaskEnds, RecoverSkip, RecoverProbe, RecoverReceipt, Serve, vars
    <2> QED
      BY <1>0, <2>1, LabSame
  <1>5. CASE GuestChanges
    <2>1. UNCHANGED <<store, call>>
      BY <1>5 DEF GuestChanges
    <2>2. guest'.facts >= guest.facts
      BY <1>5, BoundAssumption DEF GuestChanges, Ind, TypeOK, Versions
    <2> QED
      BY <1>0, <2>1, <2>2, LabKept
  <1> QED
    BY <1>1, <1>2, <1>3, <1>4, <1>5 DEF Next, Recover

(***************************************************************************)
(* Lab mode is no blanket waiver: it stands in for the second person only  *)
(* where the planner has no waiver, and a resolve failed or the guest has  *)
(* been protected.                                                         *)
(***************************************************************************)
THEOREM LabModeNeedsAReason == Spec => []LabModeHasReason
  <1>1. Init => LabInd
    BY NoCallTyped DEF Init, LabInd, WaivedWithReason, Overriding
  <1>2. Ind /\ LabInd /\ [Next]_vars => LabInd'
    BY NextLab
  <1>3. LabInd => LabModeHasReason
    BY DEF LabInd, WaivedWithReason, Reason, LabModeHasReason
  <1> QED
    BY <1>1, <1>2, <1>3, Inductive, PTL DEF Spec

(***************************************************************************)
(* README.md:60-64 holds to the letter where every resolve succeeds and    *)
(* the guest's protection does not change.                                 *)
(***************************************************************************)
THEOREM LabModeSparesOrdinaryGuests ==
  ASSUME "resolve" \notin Faults, ProtectedAt \in {{}, Versions}
  PROVE  Spec => []LabModeOnlyForProtected
  <1>1. Ind /\ LabModeHasReason => LabModeOnlyForProtected
    BY DEF LabModeHasReason, LabModeOnlyForProtected, Ind, TypeOK, Records
  <1> QED
    BY <1>1, Inductive, LabModeNeedsAReason, PTL
=============================================================================
