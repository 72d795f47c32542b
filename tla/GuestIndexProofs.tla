-------------------------- MODULE GuestIndexProofs --------------------------
(***************************************************************************)
(* Proofs about the guest index, for any number of callers, clusters and   *)
(* guests, any roster and any bounds.                                      *)
(***************************************************************************)
EXTENDS GuestIndex, TLAPS

\* A caller between its first step and its last resolve has resolves left to do.
RoundsLeft ==
  \A p \in Callers : pc[p] \notin {"idle", "answered"} => call[p].rounds >= 1

\* Nothing that is remembered of a cluster is from its future.
Past ==
  /\ \A c \in Clusters : barrier[c] <= world[c] /\ hupMark[c] <= world[c]
  /\ \A c \in Clusters : snapshots[c] # None => snapshots[c].version <= world[c]
  /\ \A p \in Callers : /\ call[p].floor <= world[call[p].cluster]
                        /\ call[p].version <= world[call[p].cluster]
                        /\ call[p].fetched <= world[call[p].cluster]

\* A fetch carries a generation that has been.
GenerationPast ==
  \A p \in Callers : pc[p] \in {"fetch", "replied"} => call[p].genBefore <= generation

\* v satisfies every invalidation of c, completed or between its two steps.
Satisfies(c, v) ==
  /\ v >= barrier[c]
  /\ \A q \in Callers : pc[q] = "bumped" /\ call[q].cluster = c => v >= call[q].floor
  /\ hup = "bumped" => v >= hupMark[c]

\* What the comparison in Publish buys: a reply whose generation still stands was
\* read after every bump so far.
ReplyCurrent ==
  \A p \in Callers :
    pc[p] = "replied" /\ call[p].genBefore = generation
      => Satisfies(call[p].cluster, call[p].fetched)

\* Past its own eviction, a caller's floor is behind its cluster's barrier.
FloorBehind ==
  \A p \in Callers : pc[p] # "bumped" => call[p].floor <= barrier[call[p].cluster]

\* A caller's own reply satisfies its floor.
ReplyFresh ==
  \A p \in Callers : pc[p] = "replied" => call[p].fetched >= call[p].floor

\* No answer before the invalidation a caller starts with.
Unanswered ==
  \A p \in Callers : pc[p] \in {"idle", "invalidate", "bumped"} => call[p].status = "none"

Ind ==
  /\ TypeOK
  /\ RoundsLeft
  /\ Past
  /\ GenerationPast
  /\ ReplyCurrent
  /\ FloorBehind
  /\ ReplyFresh
  /\ Unanswered
  /\ NoResurrection
  /\ FreshAnswer

-----------------------------------------------------------------------------
\* The locals of an idle caller have the types of a call's.
LEMMA NoCallTyped ==
  /\ NoCall \in Calls
  /\ NoCall.floor = 0 /\ NoCall.version = 0 /\ NoCall.fetched = 0 /\ NoCall.genBefore = 0
  /\ NoCall.status = "none"
  BY ScopeAssumption, HorizonAssumption, MaxGenAssumption DEF NoCall, Calls, Versions

\* The invariant holds before the first call.
LEMMA InitInd == Init => Ind
  <1> USE HorizonAssumption, MaxGenAssumption, NoCallTyped
  <1> SUFFICES ASSUME Init PROVE Ind
    OBVIOUS
  <1>1. TypeOK
    BY DEF Init, TypeOK, Versions, Points
  <1>2. RoundsLeft /\ GenerationPast /\ ReplyCurrent /\ ReplyFresh /\ Unanswered
    BY DEF Init, RoundsLeft, GenerationPast, ReplyCurrent, ReplyFresh, Unanswered
  <1>3. Past /\ FloorBehind
    BY <1>1 DEF Init, Past, FloorBehind, TypeOK, Calls
  <1>4. NoResurrection /\ FreshAnswer
    BY DEF Init, NoResurrection, FreshAnswer
  <1> QED
    BY <1>1, <1>2, <1>3, <1>4 DEF Ind

\* An answer leaves its caller's locals well typed, and a caller that will look up
\* again with a resolve left to do.
LEMMA AnswerTyped ==
  ASSUME TypeOK, RoundsLeft,
         NEW p \in Callers, pc[p] \in {"lookup", "fetch", "replied"},
         NEW status \in {"found", "absent", "failed"}, NEW v \in Versions,
         Answer(p, status, v)
  PROVE  /\ call' \in [Callers -> Calls]
         /\ pc' \in [Callers -> Points]
         /\ RoundsLeft'
  <1> USE HorizonAssumption, MaxGenAssumption DEF Answer, Goto, TypeOK
  <1>1. call[p] \in Calls /\ call[p].rounds \in 1 .. 2
    BY DEF RoundsLeft, Calls
  <1>2. ASSUME NEW r \in Calls, r.rounds \in 1 .. 2
        PROVE  [r EXCEPT !.status = status, !.version = v, !.rounds = r.rounds - 1,
                         !.genBefore = 0, !.fetched = 0] \in Calls
    <2> HIDE DEF Answer, Goto, TypeOK
    <2>1. r.rounds - 1 \in 0 .. 2 /\ 0 \in 0 .. MaxGen /\ 0 \in Versions
      BY <1>2 DEF Versions
    <2> QED
      BY <1>2, <2>1 DEF Calls
  <1>3. call' \in [Callers -> Calls]
    BY <1>1, <1>2
  <1>4. pc' \in [Callers -> Points]
    BY DEF Points
  <1>5. RoundsLeft'
    BY <1>1 DEF RoundsLeft, Calls
  <1> QED
    BY <1>3, <1>4, <1>5

-----------------------------------------------------------------------------
\* Every step preserves the invariant: one lemma per action, one step per part.

\* Change: the cluster moves on.
LEMMA ChangeInd ==
  ASSUME Ind, NEW c \in Clusters, Change(c)
  PROVE  Ind'
  <1> USE HorizonAssumption, MaxGenAssumption, NoneAssumption, NoCallTyped
      DEF Ind, TypeOK, Versions, Change
  <1>1. TypeOK'
    BY DEF Points, Calls, Snapshots
  <1>2. RoundsLeft'
    BY <1>1 DEF RoundsLeft, Calls
  <1>3. Past'
    BY <1>1 DEF Past, Calls, Snapshots
  <1>4. GenerationPast'
    BY <1>1 DEF GenerationPast, Calls
  <1>5. ReplyCurrent'
    BY <1>1 DEF ReplyCurrent, Satisfies, Past, GenerationPast, Calls
  <1>6. FloorBehind'
    BY <1>1 DEF FloorBehind, Calls
  <1>7. ReplyFresh'
    BY <1>1 DEF ReplyFresh, Past, Calls
  <1>8. Unanswered'
    BY <1>1 DEF Unanswered
  <1>9. NoResurrection'
    BY <1>1 DEF NoResurrection, ReplyCurrent, Satisfies, Calls, Snapshots
  <1>10. FreshAnswer'
    BY <1>1 DEF FreshAnswer, NoResurrection, FloorBehind, ReplyFresh, Unanswered, Calls, Snapshots
  <1> QED
    BY <1>1, <1>2, <1>3, <1>4, <1>5, <1>6, <1>7, <1>8, <1>9, <1>10

\* Expire: a snapshot outlives its TTL.
LEMMA ExpireInd ==
  ASSUME Ind, NEW c \in Clusters, Expire(c)
  PROVE  Ind'
  <1> USE HorizonAssumption, MaxGenAssumption, NoneAssumption, NoCallTyped
      DEF Ind, TypeOK, Versions, Expire
  <1>1. TypeOK'
    <2>1. [snapshots[c] EXCEPT !.expired = TRUE] \in Snapshots
      BY DEF Snapshots
    <2> QED
      BY <2>1
  <1>2. RoundsLeft'
    BY <1>1 DEF RoundsLeft, Calls
  <1>3. Past'
    BY <1>1 DEF Past, Calls, Snapshots
  <1>4. GenerationPast'
    BY <1>1 DEF GenerationPast, Calls
  <1>5. ReplyCurrent'
    BY <1>1 DEF ReplyCurrent, Satisfies, Past, GenerationPast, Calls
  <1>6. FloorBehind'
    BY <1>1 DEF FloorBehind, Calls
  <1>7. ReplyFresh'
    BY <1>1 DEF ReplyFresh, Past, Calls
  <1>8. Unanswered'
    BY <1>1 DEF Unanswered
  <1>9. NoResurrection'
    BY <1>1 DEF NoResurrection, ReplyCurrent, Satisfies, Calls, Snapshots
  <1>10. FreshAnswer'
    BY <1>1 DEF FreshAnswer, NoResurrection, FloorBehind, ReplyFresh, Unanswered, Calls, Snapshots
  <1> QED
    BY <1>1, <1>2, <1>3, <1>4, <1>5, <1>6, <1>7, <1>8, <1>9, <1>10

\* Begin: a call starts behind the barrier.
LEMMA BeginInd ==
  ASSUME Ind, NEW p \in Callers, Begin(p)
  PROVE  Ind'
  <1> USE HorizonAssumption, MaxGenAssumption, NoneAssumption, NoCallTyped
      DEF Ind, TypeOK, Versions, Begin, Goto
  <1>1. TypeOK'
    <2>1. PICK c \in Clusters, v \in Vmids, invalidates \in BOOLEAN, n \in 1 .. 2 :
            /\ call' = [call EXCEPT ![p] = [NoCall EXCEPT !.cluster = c, !.vmid = v,
                                                          !.rounds = n, !.floor = barrier[c]]]
            /\ Goto(p, IF invalidates THEN "invalidate" ELSE "lookup")
      BY DEF Begin
    <2>2. barrier[c] \in Versions /\ n \in 0 .. 2
      OBVIOUS
    <2>3. [NoCall EXCEPT !.cluster = c, !.vmid = v, !.rounds = n, !.floor = barrier[c]] \in Calls
      BY <2>2, NoCallTyped DEF Calls
    <2> QED
      BY <2>1, <2>3 DEF Points
  <1>2. RoundsLeft'
    BY <1>1 DEF RoundsLeft, Calls
  <1>3. Past'
    BY <1>1 DEF Past, Calls, Snapshots
  <1>4. GenerationPast'
    BY <1>1 DEF GenerationPast, Calls
  <1>5. ReplyCurrent'
    BY <1>1 DEF ReplyCurrent, Satisfies, Past, GenerationPast, Calls
  <1>6. FloorBehind'
    BY <1>1 DEF FloorBehind, Calls
  <1>7. ReplyFresh'
    BY <1>1 DEF ReplyFresh, Past, Calls
  <1>8. Unanswered'
    BY <1>1 DEF Unanswered
  <1>9. NoResurrection'
    BY <1>1 DEF NoResurrection, ReplyCurrent, Satisfies, Calls, Snapshots
  <1>10. FreshAnswer'
    BY <1>1 DEF FreshAnswer, NoResurrection, FloorBehind, ReplyFresh, Unanswered, Calls, Snapshots
  <1> QED
    BY <1>1, <1>2, <1>3, <1>4, <1>5, <1>6, <1>7, <1>8, <1>9, <1>10

\* BumpGeneration: no reply in flight carries the new generation.
LEMMA BumpGenerationInd ==
  ASSUME Ind, NEW p \in Callers, BumpGeneration(p)
  PROVE  Ind'
  <1> USE HorizonAssumption, MaxGenAssumption, NoneAssumption, NoCallTyped
      DEF Ind, TypeOK, Versions, BumpGeneration, Goto, Bump
  <1>1. TypeOK'
    <2>1. world[call[p].cluster] \in Versions /\ call[p] \in Calls
      BY DEF Calls
    <2>2. [call[p] EXCEPT !.floor = world[call[p].cluster]] \in Calls
      BY <2>1 DEF Calls
    <2> QED
      BY <2>2 DEF Points
  <1>2. RoundsLeft'
    BY <1>1 DEF RoundsLeft, Calls
  <1>3. Past'
    BY <1>1 DEF Past, Calls, Snapshots
  <1>4. GenerationPast'
    BY <1>1 DEF GenerationPast, Calls
  <1>5. ReplyCurrent'
    BY <1>1 DEF ReplyCurrent, Satisfies, Past, GenerationPast, Calls
  <1>6. FloorBehind'
    BY <1>1 DEF FloorBehind, Calls
  <1>7. ReplyFresh'
    BY <1>1 DEF ReplyFresh, Past, Calls
  <1>8. Unanswered'
    BY <1>1 DEF Unanswered
  <1>9. NoResurrection'
    BY <1>1 DEF NoResurrection, ReplyCurrent, Satisfies, Calls, Snapshots
  <1>10. FreshAnswer'
    BY <1>1 DEF FreshAnswer, NoResurrection, FloorBehind, ReplyFresh, Unanswered, Calls, Snapshots
  <1> QED
    BY <1>1, <1>2, <1>3, <1>4, <1>5, <1>6, <1>7, <1>8, <1>9, <1>10

\* EvictCluster: the barrier rises, and the cache of the cluster is empty.
LEMMA EvictClusterInd ==
  ASSUME Ind, NEW p \in Callers, EvictCluster(p)
  PROVE  Ind'
  <1> USE HorizonAssumption, MaxGenAssumption, NoneAssumption, NoCallTyped
      DEF Ind, TypeOK, Versions, EvictCluster, Goto, Later
  <1>1. TypeOK'
    BY DEF Points, Calls, Snapshots
  <1>2. RoundsLeft'
    BY <1>1 DEF RoundsLeft, Calls
  <1>3. Past'
    BY <1>1 DEF Past, Calls, Snapshots
  <1>4. GenerationPast'
    BY <1>1 DEF GenerationPast, Calls
  <1>5. ReplyCurrent'
    BY <1>1 DEF ReplyCurrent, Satisfies, Past, GenerationPast, Calls
  <1>6. FloorBehind'
    BY <1>1 DEF FloorBehind, Calls
  <1>7. ReplyFresh'
    BY <1>1 DEF ReplyFresh, Past, Calls
  <1>8. Unanswered'
    BY <1>1 DEF Unanswered
  <1>9. NoResurrection'
    BY <1>1 DEF NoResurrection, ReplyCurrent, Satisfies, Calls, Snapshots
  <1>10. FreshAnswer'
    BY <1>1 DEF FreshAnswer, NoResurrection, FloorBehind, ReplyFresh, Unanswered, Calls, Snapshots
  <1> QED
    BY <1>1, <1>2, <1>3, <1>4, <1>5, <1>6, <1>7, <1>8, <1>9, <1>10

\* HupBump: as BumpGeneration, for every cluster.
LEMMA HupBumpInd ==
  ASSUME Ind, HupBump
  PROVE  Ind'
  <1> USE HorizonAssumption, MaxGenAssumption, NoneAssumption, NoCallTyped
      DEF Ind, TypeOK, Versions, HupBump, Bump
  <1>1. TypeOK'
    BY DEF Points, Calls, Snapshots
  <1>2. RoundsLeft'
    BY <1>1 DEF RoundsLeft, Calls
  <1>3. Past'
    BY <1>1 DEF Past, Calls, Snapshots
  <1>4. GenerationPast'
    BY <1>1 DEF GenerationPast, Calls
  <1>5. ReplyCurrent'
    BY <1>1 DEF ReplyCurrent, Satisfies, Past, GenerationPast, Calls
  <1>6. FloorBehind'
    BY <1>1 DEF FloorBehind, Calls
  <1>7. ReplyFresh'
    BY <1>1 DEF ReplyFresh, Past, Calls
  <1>8. Unanswered'
    BY <1>1 DEF Unanswered
  <1>9. NoResurrection'
    BY <1>1 DEF NoResurrection, ReplyCurrent, Satisfies, Calls, Snapshots
  <1>10. FreshAnswer'
    BY <1>1 DEF FreshAnswer, NoResurrection, FloorBehind, ReplyFresh, Unanswered, Calls, Snapshots
  <1> QED
    BY <1>1, <1>2, <1>3, <1>4, <1>5, <1>6, <1>7, <1>8, <1>9, <1>10

\* HupEvict: as EvictCluster, for every cluster.
LEMMA HupEvictInd ==
  ASSUME Ind, HupEvict
  PROVE  Ind'
  <1> USE HorizonAssumption, MaxGenAssumption, NoneAssumption, NoCallTyped
      DEF Ind, TypeOK, Versions, HupEvict, Later
  <1>1. TypeOK'
    BY DEF Points, Calls, Snapshots
  <1>2. RoundsLeft'
    BY <1>1 DEF RoundsLeft, Calls
  <1>3. Past'
    BY <1>1 DEF Past, Calls, Snapshots
  <1>4. GenerationPast'
    BY <1>1 DEF GenerationPast, Calls
  <1>5. ReplyCurrent'
    BY <1>1 DEF ReplyCurrent, Satisfies, Past, GenerationPast, Calls
  <1>6. FloorBehind'
    BY <1>1 DEF FloorBehind, Calls
  <1>7. ReplyFresh'
    BY <1>1 DEF ReplyFresh, Past, Calls
  <1>8. Unanswered'
    BY <1>1 DEF Unanswered
  <1>9. NoResurrection'
    BY <1>1 DEF NoResurrection, ReplyCurrent, Satisfies, Calls, Snapshots
  <1>10. FreshAnswer'
    BY <1>1 DEF FreshAnswer, NoResurrection, FloorBehind, ReplyFresh, Unanswered, Calls, Snapshots
  <1> QED
    BY <1>1, <1>2, <1>3, <1>4, <1>5, <1>6, <1>7, <1>8, <1>9, <1>10

\* LookupHit: the answer is the snapshot, at or past the barrier.
LEMMA LookupHitInd ==
  ASSUME Ind, NEW p \in Callers, LookupHit(p)
  PROVE  Ind'
  <1> USE HorizonAssumption, MaxGenAssumption, NoneAssumption, NoCallTyped
      DEF Ind, TypeOK, Versions, LookupHit, Cached, Answer, Goto
  <1>1. /\ call' \in [Callers -> Calls]
        /\ pc' \in [Callers -> Points]
        /\ RoundsLeft'
    <2>1. snapshots[call[p].cluster].version \in Versions
      BY DEF Snapshots, Calls
    <2>2. Answer(p, "found", snapshots[call[p].cluster].version)
      OBVIOUS
    <2> HIDE DEF Answer
    <2> QED
      BY <2>1, <2>2, AnswerTyped
  <1>2. TypeOK'
    BY <1>1 DEF Snapshots, Calls
  <1>3. Past'
    BY <1>2 DEF Past, Calls, Snapshots
  <1>4. GenerationPast'
    BY <1>2 DEF GenerationPast, Calls
  <1>5. ReplyCurrent'
    BY <1>2 DEF ReplyCurrent, Satisfies, Past, GenerationPast, Calls
  <1>6. FloorBehind'
    BY <1>2 DEF FloorBehind, Calls
  <1>7. ReplyFresh'
    BY <1>2 DEF ReplyFresh, Past, Calls
  <1>8. Unanswered'
    BY <1>2 DEF Unanswered
  <1>9. NoResurrection'
    BY <1>2 DEF NoResurrection, ReplyCurrent, Satisfies, Calls, Snapshots
  <1>10. FreshAnswer'
    BY <1>2 DEF FreshAnswer, NoResurrection, FloorBehind, ReplyFresh, Unanswered, Calls, Snapshots
  <1> QED
    BY <1>1, <1>2, <1>3, <1>4, <1>5, <1>6, <1>7, <1>8, <1>9, <1>10

\* LookupMiss: the fetch takes the generation of now.
LEMMA LookupMissInd ==
  ASSUME Ind, NEW p \in Callers, LookupMiss(p)
  PROVE  Ind'
  <1> USE HorizonAssumption, MaxGenAssumption, NoneAssumption, NoCallTyped
      DEF Ind, TypeOK, Versions, LookupMiss, Goto
  <1>1. TypeOK'
    BY DEF Points, Calls, Snapshots
  <1>2. RoundsLeft'
    BY <1>1 DEF RoundsLeft, Calls
  <1>3. Past'
    BY <1>1 DEF Past, Calls, Snapshots
  <1>4. GenerationPast'
    BY <1>1 DEF GenerationPast, Calls
  <1>5. ReplyCurrent'
    BY <1>1 DEF ReplyCurrent, Satisfies, Past, GenerationPast, Calls
  <1>6. FloorBehind'
    BY <1>1 DEF FloorBehind, Calls
  <1>7. ReplyFresh'
    BY <1>1 DEF ReplyFresh, Past, Calls
  <1>8. Unanswered'
    BY <1>1 DEF Unanswered
  <1>9. NoResurrection'
    BY <1>1 DEF NoResurrection, ReplyCurrent, Satisfies, Calls, Snapshots
  <1>10. FreshAnswer'
    BY <1>1 DEF FreshAnswer, NoResurrection, FloorBehind, ReplyFresh, Unanswered, Calls, Snapshots
  <1> QED
    BY <1>1, <1>2, <1>3, <1>4, <1>5, <1>6, <1>7, <1>8, <1>9, <1>10

\* Reply: what the cluster reports now satisfies every invalidation so far.
LEMMA ReplyInd ==
  ASSUME Ind, NEW p \in Callers, Reply(p)
  PROVE  Ind'
  <1> USE HorizonAssumption, MaxGenAssumption, NoneAssumption, NoCallTyped
      DEF Ind, TypeOK, Versions, Reply, Goto
  <1>1. TypeOK'
    BY DEF Points, Calls, Snapshots
  <1>2. RoundsLeft'
    BY <1>1 DEF RoundsLeft, Calls
  <1>3. Past'
    BY <1>1 DEF Past, Calls, Snapshots
  <1>4. GenerationPast'
    BY <1>1 DEF GenerationPast, Calls
  <1>5. ReplyCurrent'
    BY <1>1 DEF ReplyCurrent, Satisfies, Past, GenerationPast, Calls
  <1>6. FloorBehind'
    BY <1>1 DEF FloorBehind, Calls
  <1>7. ReplyFresh'
    BY <1>1 DEF ReplyFresh, Past, Calls
  <1>8. Unanswered'
    BY <1>1 DEF Unanswered
  <1>9. NoResurrection'
    BY <1>1 DEF NoResurrection, ReplyCurrent, Satisfies, Calls, Snapshots
  <1>10. FreshAnswer'
    BY <1>1 DEF FreshAnswer, NoResurrection, FloorBehind, ReplyFresh, Unanswered, Calls, Snapshots
  <1> QED
    BY <1>1, <1>2, <1>3, <1>4, <1>5, <1>6, <1>7, <1>8, <1>9, <1>10

\* FetchFails: no answer.
LEMMA FetchFailsInd ==
  ASSUME Ind, NEW p \in Callers, FetchFails(p)
  PROVE  Ind'
  <1> USE HorizonAssumption, MaxGenAssumption, NoneAssumption, NoCallTyped
      DEF Ind, TypeOK, Versions, FetchFails, Answer, Goto
  <1>1. /\ call' \in [Callers -> Calls]
        /\ pc' \in [Callers -> Points]
        /\ RoundsLeft'
    <2>1. call[p].version \in Versions
      BY DEF Calls
    <2>2. Answer(p, "failed", call[p].version)
      OBVIOUS
    <2> HIDE DEF Answer
    <2> QED
      BY <2>1, <2>2, AnswerTyped
  <1>2. TypeOK'
    BY <1>1 DEF Snapshots, Calls
  <1>3. Past'
    BY <1>2 DEF Past, Calls, Snapshots
  <1>4. GenerationPast'
    BY <1>2 DEF GenerationPast, Calls
  <1>5. ReplyCurrent'
    BY <1>2 DEF ReplyCurrent, Satisfies, Past, GenerationPast, Calls
  <1>6. FloorBehind'
    BY <1>2 DEF FloorBehind, Calls
  <1>7. ReplyFresh'
    BY <1>2 DEF ReplyFresh, Past, Calls
  <1>8. Unanswered'
    BY <1>2 DEF Unanswered
  <1>9. NoResurrection'
    BY <1>2 DEF NoResurrection, ReplyCurrent, Satisfies, Calls, Snapshots
  <1>10. FreshAnswer'
    BY <1>2 DEF FreshAnswer, NoResurrection, FloorBehind, ReplyFresh, Unanswered, Calls, Snapshots
  <1> QED
    BY <1>1, <1>2, <1>3, <1>4, <1>5, <1>6, <1>7, <1>8, <1>9, <1>10

\* Publish: the comparison admits only a reply that satisfies every invalidation.
LEMMA PublishInd ==
  ASSUME Ind, NEW p \in Callers, Publish(p)
  PROVE  Ind'
  <1> USE HorizonAssumption, MaxGenAssumption, NoneAssumption, NoCallTyped
      DEF Ind, TypeOK, Versions, Publish, Found, Answer, Goto
  <1>1. /\ call' \in [Callers -> Calls]
        /\ pc' \in [Callers -> Points]
        /\ RoundsLeft'
    <2>1. call[p].fetched \in Versions
      BY DEF Calls
    <2>2. Answer(p, Found(p), call[p].fetched)
      OBVIOUS
    <2> HIDE DEF Answer
    <2> QED
      BY <2>1, <2>2, AnswerTyped
  <1>2. TypeOK'
    BY <1>1 DEF Snapshots, Calls
  <1>3. Past'
    BY <1>2 DEF Past, Calls, Snapshots
  <1>4. GenerationPast'
    BY <1>2 DEF GenerationPast, Calls
  <1>5. ReplyCurrent'
    BY <1>2 DEF ReplyCurrent, Satisfies, Past, GenerationPast, Calls
  <1>6. FloorBehind'
    BY <1>2 DEF FloorBehind, Calls
  <1>7. ReplyFresh'
    BY <1>2 DEF ReplyFresh, Past, Calls
  <1>8. Unanswered'
    BY <1>2 DEF Unanswered
  <1>9. NoResurrection'
    BY <1>2 DEF NoResurrection, ReplyCurrent, Satisfies, Calls, Snapshots
  <1>10. FreshAnswer'
    BY <1>2 DEF FreshAnswer, NoResurrection, FloorBehind, ReplyFresh, Unanswered, Calls, Snapshots
  <1> QED
    BY <1>1, <1>2, <1>3, <1>4, <1>5, <1>6, <1>7, <1>8, <1>9, <1>10

\* Return: the caller forgets its call.
LEMMA ReturnInd ==
  ASSUME Ind, NEW p \in Callers, Return(p)
  PROVE  Ind'
  <1> USE HorizonAssumption, MaxGenAssumption, NoneAssumption, NoCallTyped
      DEF Ind, TypeOK, Versions, Return, Goto
  <1>1. TypeOK'
    BY DEF Points, Calls, Snapshots
  <1>2. RoundsLeft'
    BY <1>1 DEF RoundsLeft, Calls
  <1>3. Past'
    BY <1>1 DEF Past, Calls, Snapshots
  <1>4. GenerationPast'
    BY <1>1 DEF GenerationPast, Calls
  <1>5. ReplyCurrent'
    BY <1>1 DEF ReplyCurrent, Satisfies, Past, GenerationPast, Calls
  <1>6. FloorBehind'
    BY <1>1 DEF FloorBehind, Calls
  <1>7. ReplyFresh'
    BY <1>1 DEF ReplyFresh, Past, Calls
  <1>8. Unanswered'
    BY <1>1 DEF Unanswered
  <1>9. NoResurrection'
    BY <1>1 DEF NoResurrection, ReplyCurrent, Satisfies, Calls, Snapshots
  <1>10. FreshAnswer'
    BY <1>1 DEF FreshAnswer, NoResurrection, FloorBehind, ReplyFresh, Unanswered, Calls, Snapshots
  <1> QED
    BY <1>1, <1>2, <1>3, <1>4, <1>5, <1>6, <1>7, <1>8, <1>9, <1>10

-----------------------------------------------------------------------------
\* The invariant is inductive, and holds of every behaviour.
LEMMA StepInd == Ind /\ [Next]_vars => Ind'
  <1> SUFFICES ASSUME Ind, [Next]_vars PROVE Ind'
    OBVIOUS
  <1>1. ASSUME NEW c \in Clusters, Change(c) PROVE Ind'
    BY <1>1, ChangeInd
  <1>2. ASSUME NEW c \in Clusters, Expire(c) PROVE Ind'
    BY <1>2, ExpireInd
  <1>3. ASSUME NEW p \in Callers, Caller(p) PROVE Ind'
    BY <1>3, BeginInd, BumpGenerationInd, EvictClusterInd, LookupHitInd, LookupMissInd,
       ReplyInd, FetchFailsInd, PublishInd, ReturnInd
       DEF Caller
  <1>4. CASE HupBump
    BY <1>4, HupBumpInd
  <1>5. CASE HupEvict
    BY <1>5, HupEvictInd
  <1>6. CASE UNCHANGED vars
    BY <1>6 DEF vars, Ind, TypeOK, RoundsLeft, Past, GenerationPast, ReplyCurrent, Satisfies,
                FloorBehind, ReplyFresh, Unanswered, NoResurrection, FreshAnswer
  <1> QED
    BY <1>1, <1>2, <1>3, <1>4, <1>5, <1>6 DEF Next

LEMMA AlwaysInd == Spec => []Ind
  BY InitInd, StepInd, PTL DEF Spec

(***************************************************************************)
(* The state of the index and of its callers is what their types say.      *)
(***************************************************************************)
THEOREM TypeCorrect == Spec => []TypeOK
  <1>1. Ind => TypeOK
    BY DEF Ind
  <1> QED
    BY <1>1, AlwaysInd, PTL

(***************************************************************************)
(* No snapshot read before an invalidation survives it in the cache        *)
(* (resolve.rs:116-130), whatever is in flight.                            *)
(***************************************************************************)
THEOREM CacheNeverResurrects == Spec => []NoResurrection
  <1>1. Ind => NoResurrection
    BY DEF Ind
  <1> QED
    BY <1>1, AlwaysInd, PTL

(***************************************************************************)
(* A call that invalidated its cluster is answered from a state no older   *)
(* than its own invalidation, in each of its resolves; any other from one  *)
(* no older than the invalidations completed before it began.              *)
(***************************************************************************)
THEOREM AnswersAreFresh == Spec => []FreshAnswer
  <1>1. Ind => FreshAnswer
    BY DEF Ind
  <1> QED
    BY <1>1, AlwaysInd, PTL

-----------------------------------------------------------------------------
\* One caller as FreshReads sees it.
readOfOne(p) == [state |-> readState(p), cluster |-> call[p].cluster,
                 floor |-> call[p].floor, version |-> call[p].version]

LEMMA ReadOfPointwise ==
  /\ readOf = [p \in Callers |-> readOfOne(p)]
  /\ readOf' = [p \in Callers |-> readOfOne(p)']
  BY DEF readOf, readOfOne

LEMMA ReadTyped ==
  ASSUME TypeOK, NEW p \in Callers
  PROVE  readOfOne(p) \in Fresh!Reads
  <1>1. call[p] \in Calls
    BY DEF TypeOK
  <1> QED
    BY <1>1 DEF readOfOne, readState, Fresh!Reads, Calls

LEMMA InitRefines == Init => Fresh!Init
  <1> SUFFICES ASSUME Init PROVE Fresh!Init
    OBVIOUS
  <1>1. TypeOK
    BY InitInd DEF Ind
  <1>2. readOf \in [Callers -> {r \in Fresh!Reads : r.state = "idle"}]
    <2>1. ASSUME NEW p \in Callers
          PROVE  readOfOne(p) \in {r \in Fresh!Reads : r.state = "idle"}
      <3>1. pc[p] = "idle"
        BY DEF Init
      <3> QED
        BY <3>1, <1>1, ReadTyped DEF readOfOne, readState
    <2> QED
      BY <2>1, ReadOfPointwise
  <1> QED
    BY <1>2 DEF Fresh!Init, Init

\* A step that changes no caller's read, nor the world, nor a barrier, is a stutter;
\* a step of caller p leaves the reads of the others alone.
LEMMA OthersRead ==
  ASSUME NEW p \in Callers, TypeOK,
         pc' = [pc EXCEPT ![p] = pc'[p]], call' = [call EXCEPT ![p] = call'[p]]
  PROVE  readOf' = [readOf EXCEPT ![p] = readOfOne(p)']
  <1>1. \A q \in Callers : q # p => readOfOne(q)' = readOfOne(q)
    BY DEF readOfOne, readState, TypeOK
  <1> QED
    BY <1>1, ReadOfPointwise

\* A call that starts is a read that is asked for.
LEMMA BeginRefines ==
  ASSUME Ind, NEW p \in Callers, Begin(p)
  PROVE  Fresh!Ask(p)
  <1>1. PICK c \in Clusters, v \in Vmids, invalidates \in BOOLEAN, n \in 1 .. 2 :
          /\ call' = [call EXCEPT ![p] = [NoCall EXCEPT !.cluster = c, !.vmid = v,
                                                        !.rounds = n, !.floor = barrier[c]]]
          /\ Goto(p, IF invalidates THEN "invalidate" ELSE "lookup")
    BY DEF Begin
  <1>2. pc' = [pc EXCEPT ![p] = pc'[p]] /\ call' = [call EXCEPT ![p] = call'[p]]
    BY <1>1 DEF Goto, Ind, TypeOK
  <1>3. readOf' = [readOf EXCEPT ![p] = readOfOne(p)']
    BY <1>2, OthersRead DEF Ind
  <1>4. readOfOne(p)' = [state |-> "asked", cluster |-> c,
                         floor |-> barrier[c], version |-> NoCall.version]
    <2>1. pc'[p] # "idle"
      BY <1>1 DEF Goto, Ind, TypeOK
    <2>2. /\ call'[p].cluster = c /\ call'[p].floor = barrier[c]
          /\ call'[p].version = NoCall.version /\ call'[p].status = "none"
      BY <1>1, NoCallTyped DEF Ind, TypeOK, Calls
    <2> QED
      BY <2>1, <2>2 DEF readOfOne, readState
  <1>5. NoCall.version \in Versions
    BY NoCallTyped DEF Calls
  <1>6. readOf[p].state = "idle"
    BY DEF Begin, readOf, readState
  <1> QED
    BY <1>3, <1>4, <1>5, <1>6 DEF Fresh!Ask, Begin

\* An acting call insists: its floor is the present.
LEMMA BumpRefines ==
  ASSUME Ind, NEW p \in Callers, BumpGeneration(p)
  PROVE  Fresh!Insist(p)
  <1> USE DEF BumpGeneration, Goto, Ind, TypeOK
  <1>1. readOf' = [readOf EXCEPT ![p] = readOfOne(p)']
    BY OthersRead
  <1>2. readOf[p].state = "asked"
    BY DEF readOf, readState, Unanswered
  <1>3. readOfOne(p)' = [readOf[p] EXCEPT !.floor = world[readOf[p].cluster]]
    BY DEF readOf, readOfOne, readState, Unanswered, Calls
  <1> QED
    BY <1>1, <1>2, <1>3 DEF Fresh!Insist

\* An eviction raises barriers.
LEMMA EvictRefines ==
  ASSUME Ind, NEW p \in Callers, EvictCluster(p)
  PROVE  Fresh!Raise
  <1> USE DEF EvictCluster, Goto, Ind, TypeOK
  <1>1. readOf' = readOf
    BY DEF readOf, readState
  <1>2. barrier' \in [Clusters -> Versions]
    BY EvictClusterInd
  <1>3. \A c \in Clusters : barrier[c] <= barrier'[c] /\ barrier'[c] <= world[c]
    BY HorizonAssumption DEF Past, Later, Versions, Calls
  <1> QED
    BY <1>1, <1>2, <1>3 DEF Fresh!Raise

LEMMA HupEvictRefines ==
  ASSUME Ind, HupEvict
  PROVE  Fresh!Raise
  <1> USE DEF HupEvict, Ind, TypeOK
  <1>1. readOf' = readOf
    BY DEF readOf, readState
  <1>2. barrier' \in [Clusters -> Versions]
    BY HupEvictInd
  <1>3. \A c \in Clusters : barrier[c] <= barrier'[c] /\ barrier'[c] <= world[c]
    BY HorizonAssumption DEF Past, Later, Versions
  <1> QED
    BY <1>1, <1>2, <1>3 DEF Fresh!Raise

\* A resolve that finds or misses the guest in version v is an answer from v.
LEMMA AnswerRefines ==
  ASSUME Ind, NEW p \in Callers, pc[p] \in {"lookup", "replied"},
         NEW status \in {"found", "absent"}, NEW v \in Versions,
         Answer(p, status, v), UNCHANGED <<world, barrier>>,
         call[p].floor <= v, v <= world[call[p].cluster]
  PROVE  Fresh!Answer(p)
  <1> USE DEF Answer, Goto, Ind, TypeOK
  <1>1. readOf' = [readOf EXCEPT ![p] = readOfOne(p)']
    BY OthersRead
  <1>2. readOf[p].state # "idle" /\ readOf[p].floor <= v /\ v <= world[readOf[p].cluster]
    BY DEF readOf, readState
  <1>3. readOfOne(p)' = [state |-> "answered", cluster |-> readOf[p].cluster,
                         floor |-> readOf[p].floor, version |-> v]
    <2>1. pc[p] # "idle" /\ pc'[p] # "idle"
      OBVIOUS
    <2>2. /\ call'[p].cluster = call[p].cluster /\ call'[p].floor = call[p].floor
          /\ call'[p].version = v /\ call'[p].status \in {"found", "absent"}
      BY DEF Calls
    <2>3. readState(p)' = "answered"
      BY <2>1, <2>2 DEF readState
    <2> QED
      BY <2>2, <2>3 DEF readOf, readOfOne
  <1> QED
    BY <1>1, <1>2, <1>3 DEF Fresh!Answer

LEMMA HitRefines ==
  ASSUME Ind, NEW p \in Callers, LookupHit(p)
  PROVE  Fresh!Answer(p)
  <1> DEFINE s == snapshots[call[p].cluster]
  <1>1. s \in Snapshots /\ call[p] \in Calls
    BY DEF LookupHit, Cached, Ind, TypeOK, Calls
  <1>2. call[p].floor <= s.version /\ s.version <= world[call[p].cluster]
    BY <1>1, HorizonAssumption
       DEF LookupHit, Cached, Ind, TypeOK, FloorBehind, NoResurrection, Past,
           Calls, Snapshots, Versions
  <1> QED
    BY <1>1, <1>2, AnswerRefines DEF LookupHit, Snapshots

LEMMA PublishRefines ==
  ASSUME Ind, NEW p \in Callers, Publish(p)
  PROVE  Fresh!Answer(p)
  <1>1. call[p] \in Calls
    BY DEF Ind, TypeOK
  <1>2. call[p].floor <= call[p].fetched /\ call[p].fetched <= world[call[p].cluster]
    BY DEF Publish, Ind, ReplyFresh, Past
  <1> QED
    BY <1>1, <1>2, AnswerRefines DEF Publish, Found, Calls

LEMMA FailRefines ==
  ASSUME Ind, NEW p \in Callers, FetchFails(p)
  PROVE  Fresh!Fail(p)
  <1> USE DEF FetchFails, Answer, Goto, Ind, TypeOK
  <1>1. readOf' = [readOf EXCEPT ![p] = readOfOne(p)']
    BY OthersRead
  <1>2. readOf[p].state # "idle"
    BY DEF readOf, readState
  <1>3. readOfOne(p)' = [readOf[p] EXCEPT !.state = "asked"]
    <2>1. pc[p] # "idle" /\ pc'[p] # "idle"
      OBVIOUS
    <2>2. /\ call'[p].cluster = call[p].cluster /\ call'[p].floor = call[p].floor
          /\ call'[p].version = call[p].version /\ call'[p].status = "failed"
      BY DEF Calls
    <2> QED
      BY <2>1, <2>2 DEF readOf, readOfOne, readState
  <1> QED
    BY <1>1, <1>2, <1>3 DEF Fresh!Fail

LEMMA ReturnRefines ==
  ASSUME Ind, NEW p \in Callers, Return(p)
  PROVE  Fresh!Return(p)
  <1>1. readOf' = [readOf EXCEPT ![p] = readOfOne(p)']
    BY OthersRead DEF Return, Goto, Ind, TypeOK
  <1>2. readOf[p].state # "idle"
    BY DEF Return, readOf, readState
  <1>3. readOfOne(p)' \in Fresh!Reads
    <2>1. TypeOK'
      BY ReturnInd DEF Ind
    <2>2. call'[p] \in Calls
      BY <2>1 DEF TypeOK
    <2> QED
      BY <2>2 DEF readOfOne, readState, Fresh!Reads, Calls
  <1>4. readOfOne(p)'.state = "idle"
    BY DEF Return, Goto, Ind, TypeOK, readOfOne, readState
  <1> QED
    BY <1>1, <1>2, <1>3, <1>4 DEF Fresh!Return, Return

\* Every other step of a caller shows nothing of itself.
LEMMA SilentRefines ==
  ASSUME Ind, NEW p \in Callers, LookupMiss(p) \/ Reply(p)
  PROVE  UNCHANGED Fresh!vars
  <1>1. readOf' = readOf
    <2>1. ASSUME NEW q \in Callers PROVE readOfOne(q)' = readOfOne(q)
      <3>1. pc'[q] = "idle" <=> pc[q] = "idle"
        BY DEF LookupMiss, Reply, Goto, Ind, TypeOK
      <3>2. /\ call'[q].cluster = call[q].cluster /\ call'[q].floor = call[q].floor
            /\ call'[q].version = call[q].version /\ call'[q].status = call[q].status
        BY DEF LookupMiss, Reply, Ind, TypeOK, Calls
      <3> QED
        BY <3>1, <3>2 DEF readOfOne, readState
    <2> QED
      BY <2>1, ReadOfPointwise
  <1> QED
    BY <1>1 DEF Fresh!vars, LookupMiss, Reply

LEMMA ChangeRefines ==
  ASSUME Ind, NEW c \in Clusters, Change(c)
  PROVE  Fresh!Change(c)
  <1>1. readOf' = readOf
    BY DEF Change, readOf, readState
  <1>2. world[c] + 1 \in Versions /\ world[c] + 1 > world[c]
    BY HorizonAssumption DEF Change, Ind, TypeOK, Versions
  <1> QED
    BY <1>1, <1>2 DEF Fresh!Change, Change

LEMMA StepRefines == Ind /\ [Next]_vars => [Fresh!Next]_(Fresh!vars)
  <1> SUFFICES ASSUME Ind, [Next]_vars PROVE [Fresh!Next]_(Fresh!vars)
    OBVIOUS
  <1>1. ASSUME NEW c \in Clusters, Change(c) PROVE Fresh!Next
    BY <1>1, ChangeRefines DEF Fresh!Next
  <1>2. ASSUME NEW c \in Clusters, Expire(c) PROVE UNCHANGED Fresh!vars
    BY <1>2 DEF Expire, Fresh!vars, readOf, readState
  <1>3. ASSUME NEW p \in Callers, Caller(p) PROVE Fresh!Next \/ UNCHANGED Fresh!vars
    BY <1>3, BeginRefines, BumpRefines, EvictRefines, HitRefines, SilentRefines,
       FailRefines, PublishRefines, ReturnRefines
       DEF Caller, Fresh!Next
  <1>4. CASE HupBump
    BY <1>4 DEF HupBump, Fresh!vars, readOf, readState
  <1>5. CASE HupEvict
    BY <1>5, HupEvictRefines DEF Fresh!Next
  <1>6. CASE UNCHANGED vars
    BY <1>6 DEF vars, Fresh!vars, readOf, readState
  <1> QED
    BY <1>1, <1>2, <1>3, <1>4, <1>5, <1>6 DEF Next

(***************************************************************************)
(* The index implements FreshReads: whatever the cache, the generation     *)
(* counter and the fetches in flight do, callers see reads answered from   *)
(* between their floor and the present.                                    *)
(***************************************************************************)
THEOREM IndexImplementsFreshReads == Spec => ImplementsFreshReads
  <1>1. Spec => Fresh!Init /\ [][Fresh!Next]_(Fresh!vars)
    BY InitRefines, StepRefines, AlwaysInd, PTL DEF Spec
  <1> QED
    BY <1>1 DEF ImplementsFreshReads, Fresh!Spec
=============================================================================
