----------------------------- MODULE FreshReads -----------------------------
(***************************************************************************)
(* What the guest index promises its callers, with no cache, no generation *)
(* and no fetch in it: a read is answered, as often as its caller asks,    *)
(* from a state the cluster really was in, no older than the caller's      *)
(* floor.  The floor of a plain read is the newest state any completed     *)
(* invalidation has put an end to; a caller that insists (one that         *)
(* invalidates first) raises its floor to the present.                     *)
(***************************************************************************)
EXTENDS Naturals

CONSTANTS Callers, Clusters, Versions

VARIABLES
  world,    \* world[c]: version of cluster c now
  barrier,  \* barrier[c]: older versions are never served to a read that starts now
  read      \* read[p]: the read of caller p

vars == <<world, barrier, read>>

Reads == [state : {"idle", "asked", "answered"}, cluster : Clusters,
          floor : Versions, version : Versions]

Change(c) ==
  /\ \E v \in Versions : v > world[c] /\ world' = [world EXCEPT ![c] = v]
  /\ UNCHANGED <<barrier, read>>

\* An invalidation completes: barriers rise, never past the present.
Raise ==
  /\ \E b \in [Clusters -> Versions] :
       /\ \A c \in Clusters : barrier[c] <= b[c] /\ b[c] <= world[c]
       /\ barrier' = b
  /\ UNCHANGED <<world, read>>

Ask(p) ==
  /\ read[p].state = "idle"
  /\ \E c \in Clusters, v \in Versions :
       read' = [read EXCEPT ![p] = [state |-> "asked", cluster |-> c,
                                    floor |-> barrier[c], version |-> v]]
  /\ UNCHANGED <<world, barrier>>

Insist(p) ==
  /\ read[p].state = "asked"
  /\ read' = [read EXCEPT ![p] = [@ EXCEPT !.floor = world[read[p].cluster]]]
  /\ UNCHANGED <<world, barrier>>

Answer(p) ==
  /\ read[p].state # "idle"
  /\ \E v \in Versions :
       /\ read[p].floor <= v
       /\ v <= world[read[p].cluster]
       /\ read' = [read EXCEPT ![p] = [state |-> "answered", cluster |-> read[p].cluster,
                                       floor |-> read[p].floor, version |-> v]]
  /\ UNCHANGED <<world, barrier>>

\* The cluster cannot be read; an earlier answer no longer stands.
Fail(p) ==
  /\ read[p].state # "idle"
  /\ read' = [read EXCEPT ![p] = [@ EXCEPT !.state = "asked"]]
  /\ UNCHANGED <<world, barrier>>

Return(p) ==
  /\ read[p].state # "idle"
  /\ \E r \in Reads : r.state = "idle" /\ read' = [read EXCEPT ![p] = r]
  /\ UNCHANGED <<world, barrier>>

Init ==
  /\ world = [c \in Clusters |-> 0]
  /\ barrier = [c \in Clusters |-> 0]
  /\ read \in [Callers -> {r \in Reads : r.state = "idle"}]

Next ==
  \/ \E c \in Clusters : Change(c)
  \/ Raise
  \/ \E p \in Callers : Ask(p) \/ Insist(p) \/ Answer(p) \/ Fail(p) \/ Return(p)

Spec == Init /\ [][Next]_vars
=============================================================================
