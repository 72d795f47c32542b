----------------------------- MODULE GuestIndex -----------------------------
(***************************************************************************)
(* The guest index of rust-proxmoxmcp-core (resolve.rs): a TTL-bounded     *)
(* cache of one /cluster/resources snapshot per cluster, shared by every   *)
(* tool call, with a generation counter that keeps a fetch started before  *)
(* an invalidation from publishing its result after it.                    *)
(*                                                                         *)
(* A tool call is a process of Callers.  Its steps are the points where    *)
(* another task can run: the two halves of an invalidation, the locked     *)
(* lookup, the GET, and the locked publication.  What a cluster reports    *)
(* is abstracted to a version number that grows with every change, and     *)
(* Roster says which vmids each version lists.                             *)
(***************************************************************************)
EXTENDS Naturals

CONSTANTS
  Callers,    \* tool calls that may be in progress together
  Clusters,   \* clusters of the inventory
  Vmids,      \* guest ids a call may name
  Roster,     \* Roster[v]: the vmids a cluster lists at version v
  Horizon,    \* bound: changes of one cluster
  MaxGen,     \* bound: invalidations
  None        \* "no snapshot"

Versions  == 0 .. Horizon
Snapshots == [version : Versions, expired : BOOLEAN]

ASSUME HorizonAssumption == Horizon \in Nat
ASSUME MaxGenAssumption  == MaxGen \in Nat
ASSUME ScopeAssumption   == Clusters # {} /\ Vmids # {}
ASSUME RosterAssumption  == Roster \in [Versions -> SUBSET Vmids]
ASSUME NoneAssumption    == None \notin Snapshots

VARIABLES
  world,       \* world[c]: version of cluster c now
  generation,  \* GuestIndex::generation
  snapshots,   \* GuestIndex::snapshots
  pc,          \* where each call stands
  call,        \* the locals of each call
  hup,         \* the SIGHUP handler: "idle", or "bumped" between its two steps
  hupMark,     \* history: world when that handler bumped the generation
  barrier      \* history: newest world[c] an invalidation of c has put an end to

vars == <<world, generation, snapshots, pc, call, hup, hupMark, barrier>>

Points == {"idle", "invalidate", "bumped", "lookup", "fetch", "replied", "answered"}

\* rounds: resolves still to do; floor: history, the oldest version this call may
\* be answered from; version and status: the latest answer.
Calls == [cluster : Clusters, vmid : Vmids, rounds : 0 .. 2, genBefore : 0 .. MaxGen,
          fetched : Versions, floor : Versions, version : Versions,
          status : {"none", "found", "absent", "failed"}]

TypeOK ==
  /\ world \in [Clusters -> Versions]
  /\ generation \in 0 .. MaxGen
  /\ snapshots \in [Clusters -> Snapshots \cup {None}]
  /\ pc \in [Callers -> Points]
  /\ call \in [Callers -> Calls]
  /\ hup \in {"idle", "bumped"}
  /\ hupMark \in [Clusters -> Versions]
  /\ barrier \in [Clusters -> Versions]

\* The locals of a caller with no call in progress.
NoCall == [cluster |-> CHOOSE c \in Clusters : TRUE, vmid |-> CHOOSE v \in Vmids : TRUE,
           rounds |-> 0, genBefore |-> 0, fetched |-> 0, floor |-> 0, version |-> 0,
           status |-> "none"]

Goto(p, there) == pc' = [pc EXCEPT ![p] = there]

Later(a, b) == IF a < b THEN b ELSE a

-----------------------------------------------------------------------------
\* The world: a cluster changes, a snapshot outlives its TTL.

Change(c) ==
  /\ world[c] < Horizon
  /\ world' = [world EXCEPT ![c] = @ + 1]
  /\ UNCHANGED <<generation, snapshots, pc, call, hup, hupMark, barrier>>

Expire(c) ==
  /\ snapshots[c] # None
  /\ ~snapshots[c].expired
  /\ snapshots' = [snapshots EXCEPT ![c] = [@ EXCEPT !.expired = TRUE]]
  /\ UNCHANGED <<world, generation, pc, call, hup, hupMark, barrier>>

-----------------------------------------------------------------------------
(***************************************************************************)
(* A call starts.  An acting call (plan, apply, an interrupting verb, a    *)
(* creation) invalidates its cluster first; an observing one (read tools,  *)
(* approve) does not.  It then resolves once, or twice when the handler    *)
(* computes protection before GuestIndex::authorize resolves again.        *)
(***************************************************************************)
Begin(p) ==
  /\ pc[p] = "idle"
  /\ \E c \in Clusters, v \in Vmids, invalidates \in BOOLEAN, n \in 1 .. 2 :
       /\ call' = [call EXCEPT ![p] = [NoCall EXCEPT !.cluster = c, !.vmid = v,
                                                      !.rounds = n, !.floor = barrier[c]]]
       /\ Goto(p, IF invalidates THEN "invalidate" ELSE "lookup")
  /\ UNCHANGED <<world, generation, snapshots, hup, hupMark, barrier>>

\* A bump that leaves the counter as it was.
BumpNothing(g) == g

\* The atomic increment both invalidations start with.
Bump(g) == g + 1

\* invalidate_cluster, first half: bump the generation, global to all clusters.
BumpGeneration(p) ==
  /\ pc[p] = "invalidate"
  /\ generation < MaxGen
  /\ generation' = Bump(generation)
  /\ call' = [call EXCEPT ![p] = [@ EXCEPT !.floor = world[call[p].cluster]]]
  /\ Goto(p, "bumped")
  /\ UNCHANGED <<world, snapshots, hup, hupMark, barrier>>

\* An eviction that forgets to remove the entry.
KeepSnapshot(p) ==
  LET c == call[p].cluster IN
  /\ pc[p] = "bumped"
  /\ barrier' = [barrier EXCEPT ![c] = Later(@, call[p].floor)]
  /\ Goto(p, "lookup")
  /\ UNCHANGED <<world, generation, snapshots, call, hup, hupMark>>

\* invalidate_cluster, second half: under the write lock, drop this cluster's entry.
EvictCluster(p) ==
  LET c == call[p].cluster IN
  /\ pc[p] = "bumped"
  /\ snapshots' = [snapshots EXCEPT ![c] = None]
  /\ barrier' = [barrier EXCEPT ![c] = Later(@, call[p].floor)]
  /\ Goto(p, "lookup")
  /\ UNCHANGED <<world, generation, call, hup, hupMark>>

\* SIGHUP with a readable inventory: GuestIndex::invalidate, in the same two halves.
HupBump ==
  /\ hup = "idle"
  /\ generation < MaxGen
  /\ generation' = Bump(generation)
  /\ hup' = "bumped"
  /\ hupMark' = world
  /\ UNCHANGED <<world, snapshots, pc, call, barrier>>

HupEvict ==
  /\ hup = "bumped"
  /\ snapshots' = [c \in Clusters |-> None]
  /\ barrier' = [c \in Clusters |-> Later(barrier[c], hupMark[c])]
  /\ hup' = "idle"
  /\ UNCHANGED <<world, generation, pc, call, hupMark>>

-----------------------------------------------------------------------------
\* resolve: lookup_fresh, the fetch, and the guarded publication.

\* A handler that resolves once more than it needs to.
AnswerAgain(p, status, v) ==
  /\ call' = [call EXCEPT ![p] = [@ EXCEPT !.status = status, !.version = v,
                                            !.rounds = call[p].rounds - 1,
                                            !.genBefore = 0, !.fetched = 0]]
  /\ Goto(p, IF call[p].rounds >= 0 THEN "lookup" ELSE "answered")

\* A resolve ends with an answer; a handler that needs another one looks up again.
Answer(p, status, v) ==
  /\ call' = [call EXCEPT ![p] = [@ EXCEPT !.status = status, !.version = v,
                                            !.rounds = call[p].rounds - 1,
                                            !.genBefore = 0, !.fetched = 0]]
  /\ Goto(p, IF call[p].rounds > 1 THEN "lookup" ELSE "answered")

Cached(p) ==
  LET s == snapshots[call[p].cluster] IN
  /\ s # None
  /\ ~s.expired
  /\ call[p].vmid \in Roster[s.version]

LookupHit(p) ==
  /\ pc[p] = "lookup"
  /\ Cached(p)
  /\ Answer(p, "found", snapshots[call[p].cluster].version)
  /\ UNCHANGED <<world, generation, snapshots, hup, hupMark, barrier>>

\* Reads the generation first, then sends the GET.
LookupMiss(p) ==
  /\ pc[p] = "lookup"
  /\ ~Cached(p)
  /\ call' = [call EXCEPT ![p] = [@ EXCEPT !.genBefore = generation]]
  /\ Goto(p, "fetch")
  /\ UNCHANGED <<world, generation, snapshots, hup, hupMark, barrier>>

\* The cluster reads its own state to answer the GET.
Reply(p) ==
  /\ pc[p] = "fetch"
  /\ call' = [call EXCEPT ![p] = [@ EXCEPT !.fetched = world[call[p].cluster]]]
  /\ Goto(p, "replied")
  /\ UNCHANGED <<world, generation, snapshots, hup, hupMark, barrier>>

\* The GET fails.  Only authorize, the last round, refuses the call for it.
FetchFails(p) ==
  /\ pc[p] = "fetch"
  /\ Answer(p, "failed", call[p].version)
  /\ UNCHANGED <<world, generation, snapshots, hup, hupMark, barrier>>

Found(p) == IF call[p].vmid \in Roster[call[p].fetched] THEN "found" ELSE "absent"

\* Publishing without looking at the generation again.
PublishAlways(p) ==
  LET c == call[p].cluster IN
  /\ pc[p] = "replied"
  /\ snapshots' = [snapshots EXCEPT ![c] = [version |-> call[p].fetched, expired |-> FALSE]]
  /\ Answer(p, Found(p), call[p].fetched)
  /\ UNCHANGED <<world, generation, hup, hupMark, barrier>>

\* Under the write lock: insert only if nothing was invalidated since the GET went
\* out.  The caller is answered from its own fetch either way.
Publish(p) ==
  LET c == call[p].cluster IN
  /\ pc[p] = "replied"
  /\ snapshots' = IF generation = call[p].genBefore
                    THEN [snapshots EXCEPT ![c] = [version |-> call[p].fetched,
                                                   expired |-> FALSE]]
                    ELSE snapshots
  /\ Answer(p, Found(p), call[p].fetched)
  /\ UNCHANGED <<world, generation, hup, hupMark, barrier>>

\* The handler is done with the guest it resolved.
Return(p) ==
  /\ pc[p] = "answered"
  /\ call' = [call EXCEPT ![p] = NoCall]
  /\ Goto(p, "idle")
  /\ UNCHANGED <<world, generation, snapshots, hup, hupMark, barrier>>

-----------------------------------------------------------------------------
Init ==
  /\ world = [c \in Clusters |-> 0]
  /\ generation = 0
  /\ snapshots = [c \in Clusters |-> None]
  /\ pc = [p \in Callers |-> "idle"]
  /\ call = [p \in Callers |-> NoCall]
  /\ hup = "idle"
  /\ hupMark = [c \in Clusters |-> 0]
  /\ barrier = [c \in Clusters |-> 0]

Caller(p) ==
  \/ Begin(p)
  \/ BumpGeneration(p)
  \/ EvictCluster(p)
  \/ LookupHit(p)
  \/ LookupMiss(p)
  \/ Reply(p)
  \/ FetchFails(p)
  \/ Publish(p)
  \/ Return(p)

Next ==
  \/ \E c \in Clusters : Change(c) \/ Expire(c)
  \/ \E p \in Callers : Caller(p)
  \/ HupBump
  \/ HupEvict

Spec == Init /\ [][Next]_vars

-----------------------------------------------------------------------------
(***************************************************************************)
(* What the generation counter is for (resolve.rs:116-130): no snapshot    *)
(* read before an invalidation is in the cache once it has completed, no   *)
(* matter which fetches were in flight and in which order they publish.    *)
(***************************************************************************)
NoResurrection ==
  \A c \in Clusters : snapshots[c] # None => snapshots[c].version >= barrier[c]

(***************************************************************************)
(* What plan and apply rely on (server/mod.rs:4756, 5606): a call that     *)
(* invalidated its cluster is answered, in both of its resolves, from a    *)
(* state no older than that invalidation; and a call that did not is       *)
(* answered from a state no older than any invalidation completed before   *)
(* it began.                                                               *)
(***************************************************************************)
FreshAnswer ==
  \A p \in Callers :
    call[p].status \in {"found", "absent"} => call[p].version >= call[p].floor

-----------------------------------------------------------------------------
(***************************************************************************)
(* The whole of resolve.rs as its callers see it: with the cache, the      *)
(* generation and the GETs in flight hidden, every step is a step of       *)
(* FreshReads.  An answer is a state the cluster really was in between the *)
(* caller's floor and now, and an insisting caller's floor is the present. *)
(***************************************************************************)
readState(p) ==
  CASE pc[p] = "idle" -> "idle"
    [] pc[p] # "idle" /\ call[p].status \in {"found", "absent"} -> "answered"
    [] OTHER -> "asked"

readOf == [p \in Callers |-> [state |-> readState(p), cluster |-> call[p].cluster,
                              floor |-> call[p].floor, version |-> call[p].version]]

Fresh == INSTANCE FreshReads WITH read <- readOf

ImplementsFreshReads == Fresh!Spec

(***************************************************************************)
(* resolve.rs:92-95 on two concurrent resolves: "the second insert simply  *)
(* wins.  That is acceptable here (the cost is one redundant GET, the data *)
(* is equivalent)".  Were the data equivalent, no insert would ever        *)
(* replace a snapshot by an older one.                                     *)
(***************************************************************************)
SecondInsertIsEquivalent ==
  [][\A c \in Clusters :
       snapshots[c] # None /\ snapshots'[c] # None
         => snapshots'[c].version >= snapshots[c].version]_vars
=============================================================================
