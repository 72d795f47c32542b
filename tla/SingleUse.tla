----------------------------- MODULE SingleUse ------------------------------
(***************************************************************************)
(* What a destructive change set promises: an approval buys one attempt.   *)
(* The attempt reaches the cluster at most once, and the change set is     *)
(* settled by what the cluster did: applied only when the operation        *)
(* succeeded, failed only when it failed or never happened and never will. *)
(***************************************************************************)
EXTENDS Naturals

CONSTANT Ids

VARIABLES
  phase,   \* phase[i]: how far change set i has come
  effect   \* effect[i]: what the cluster has done for it

vars == <<phase, effect>>

Init ==
  /\ phase = [i \in Ids |-> "unplanned"]
  /\ effect = [i \in Ids |-> "none"]

Advance(i, from, to) ==
  /\ phase[i] = from
  /\ phase' = [phase EXCEPT ![i] = to]
  /\ UNCHANGED effect

Plan(i)    == Advance(i, "unplanned", "Planned")
Approve(i) == Advance(i, "Planned", "Approved")
Spend(i)   == Advance(i, "Approved", "Applying")

Act(i) ==
  /\ phase[i] = "Applying"
  /\ effect[i] = "none"
  /\ \E e \in {"running", "ok"} : effect' = [effect EXCEPT ![i] = e]
  /\ UNCHANGED phase

End(i) ==
  /\ effect[i] = "running"
  /\ \E e \in {"ok", "failed"} : effect' = [effect EXCEPT ![i] = e]
  /\ UNCHANGED phase

Succeed(i) == effect[i] = "ok" /\ Advance(i, "Applying", "Applied")
Fail(i)    == effect[i] \in {"none", "failed"} /\ Advance(i, "Applying", "Failed")

Next ==
  \E i \in Ids :
    \/ Plan(i)
    \/ Approve(i)
    \/ Spend(i)
    \/ Act(i)
    \/ End(i)
    \/ Succeed(i)
    \/ Fail(i)

Spec == Init /\ [][Next]_vars

-----------------------------------------------------------------------------
(***************************************************************************)
(* What follows from it, for whatever implements it.                       *)
(***************************************************************************)

\* The phases in their order; the last two end a change set.
Order == [p \in {"unplanned", "Planned", "Approved", "Applying", "Applied", "Failed"} |->
            CASE p = "unplanned" -> 0 [] p = "Planned" -> 1 [] p = "Approved" -> 2
              [] p = "Applying" -> 3 [] OTHER -> 4]

Ended(i) == phase[i] \in {"Applied", "Failed"}

(***************************************************************************)
(* A phase answers for the effect: nothing has happened to the cluster     *)
(* before the approval was spent, and the last phase is what happened.     *)
(***************************************************************************)
Accountable ==
  \A i \in Ids :
    /\ phase[i] \in {"unplanned", "Planned", "Approved"} => effect[i] = "none"
    /\ phase[i] = "Applied" => effect[i] = "ok"
    /\ phase[i] = "Failed" => effect[i] \in {"none", "failed"}

(***************************************************************************)
(* A change set that has ended has ended: it is never approved or spent    *)
(* again, and the cluster never does anything for it any more.             *)
(***************************************************************************)
EndsForGood ==
  [][\A i \in Ids : Ended(i) => phase'[i] = phase[i] /\ effect'[i] = effect[i]]_vars

(***************************************************************************)
(* An approval is not given back: a change set goes through its phases one *)
(* at a time, whatever fails, and never returns to an earlier one.         *)
(***************************************************************************)
NeverGivenBack ==
  [][\A i \in Ids : phase'[i] # phase[i] => Order[phase'[i]] = Order[phase[i]] + 1]_vars

(***************************************************************************)
(* The cluster begins once for a change set, while its approval is being   *)
(* spent; what it has begun ends once.                                     *)
(***************************************************************************)
BeginsOnce ==
  [][\A i \in Ids : effect'[i] # effect[i] =>
       \/ effect[i] = "none" /\ phase[i] = "Applying"
       \/ effect[i] = "running" /\ effect'[i] \in {"ok", "failed"}]_vars
=============================================================================
