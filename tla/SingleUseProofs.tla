-------------------------- MODULE SingleUseProofs ---------------------------
(***************************************************************************)
(* What the promise of a change set entails, proved once of the abstract   *)
(* specification, for every specification that implements it.              *)
(***************************************************************************)
EXTENDS SingleUse, TLAPS

Phases  == {"unplanned", "Planned", "Approved", "Applying", "Applied", "Failed"}
Effects == {"none", "running", "ok", "failed"}

TypeOK ==
  /\ phase \in [Ids -> Phases]
  /\ effect \in [Ids -> Effects]

Ind == TypeOK /\ Accountable

\* What the step of one change set does, and leaves of the others.
Moves(i) ==
  /\ \A j \in Ids \ {i} : phase'[j] = phase[j] /\ effect'[j] = effect[j]
  /\ \/ /\ effect'[i] = effect[i]
        /\ ~Ended(i)
        /\ phase'[i] \in Phases
        /\ Order[phase'[i]] = Order[phase[i]] + 1
        /\ phase'[i] \in {"Planned", "Approved", "Applying"} => effect[i] = "none"
        /\ phase'[i] = "Applied" => effect[i] = "ok"
        /\ phase'[i] = "Failed" => effect[i] \in {"none", "failed"}
     \/ /\ phase'[i] = phase[i]
        /\ phase[i] = "Applying"
        /\ \/ effect[i] = "none" /\ effect'[i] \in {"running", "ok"}
           \/ effect[i] = "running" /\ effect'[i] \in {"ok", "failed"}

\* The phases' numbers.
LEMMA OrderIs ==
  /\ Order["unplanned"] = 0 /\ Order["Planned"] = 1 /\ Order["Approved"] = 2
  /\ Order["Applying"] = 3 /\ Order["Applied"] = 4 /\ Order["Failed"] = 4
  BY DEF Order

\* A step from one phase to the next but the last.
LEMMA AdvanceMoves ==
  ASSUME Ind, NEW i \in Ids, NEW from, NEW to,
         <<from, to>> \in {<<"unplanned", "Planned">>, <<"Planned", "Approved">>,
                           <<"Approved", "Applying">>},
         Advance(i, from, to)
  PROVE  Moves(i) /\ TypeOK'
  BY DEF Ind, TypeOK, Phases, Accountable, Advance, Moves, Ended, Order

\* Every step is one of a single change set.
LEMMA NextMoves ==
  ASSUME Ind, Next
  PROVE  \E i \in Ids : Moves(i) /\ TypeOK'
  <1>1. PICK i \in Ids : \/ Plan(i) \/ Approve(i) \/ Spend(i) \/ Act(i) \/ End(i)
                         \/ Succeed(i) \/ Fail(i)
    BY DEF Next
  <1>2. CASE Plan(i) \/ Approve(i) \/ Spend(i)
    BY <1>2, AdvanceMoves DEF Plan, Approve, Spend
  <1>3. CASE Act(i)
    BY <1>3 DEF Act, Ind, TypeOK, Phases, Effects, Moves
  <1>4. CASE End(i)
    <2>1. phase[i] = "Applying"
      BY <1>4 DEF End, Ind, TypeOK, Phases, Accountable
    <2> QED
      BY <1>4, <2>1 DEF End, Ind, TypeOK, Phases, Effects, Moves
  <1>5. CASE Succeed(i)
    BY <1>5, OrderIs DEF Succeed, Advance, Ind, TypeOK, Phases, Moves, Ended
  <1>6. CASE Fail(i)
    BY <1>6, OrderIs DEF Fail, Advance, Ind, TypeOK, Phases, Moves, Ended
  <1> QED
    BY <1>1, <1>2, <1>3, <1>4, <1>5, <1>6

\* The phase goes on answering for the effect.
LEMMA MovesInd ==
  ASSUME Ind, TypeOK', NEW i \in Ids, Moves(i)
  PROVE  Ind'
  <1>1. ASSUME NEW j \in Ids
        PROVE  /\ phase'[j] \in {"unplanned", "Planned", "Approved"} => effect'[j] = "none"
               /\ phase'[j] = "Applied" => effect'[j] = "ok"
               /\ phase'[j] = "Failed" => effect'[j] \in {"none", "failed"}
    <2>1. CASE j # i
      BY <2>1 DEF Moves, Ind, Accountable
    <2>2. CASE j = i
      BY <2>2 DEF Moves, Ind, Accountable, TypeOK, Phases, Order, Ended
    <2> QED
      BY <2>1, <2>2
  <1> QED
    BY <1>1 DEF Ind, Accountable

\* Types, and the phase that answers for the effect, are invariant.
THEOREM Inductive == Spec => []Ind
  <1>1. Init => Ind
    BY DEF Init, Ind, TypeOK, Phases, Effects, Accountable
  <1>2. Ind /\ [Next]_vars => Ind'
    <2>1. Ind /\ UNCHANGED vars => Ind'
      BY DEF Ind, TypeOK, Accountable, vars
    <2> QED
      BY <2>1, NextMoves, MovesInd
  <1> QED
    BY <1>1, <1>2, PTL DEF Spec

\* A phase answers for the effect.
THEOREM PhasesAnswerForEffects == Spec => []Accountable
  <1>1. Ind => Accountable
    BY DEF Ind
  <1> QED
    BY <1>1, Inductive, PTL

\* A change set that has ended never moves again, nor does the cluster for it.
THEOREM EndingIsFinal == Spec => EndsForGood
  <1>1. Ind /\ [Next]_vars =>
          [\A i \in Ids : Ended(i) => phase'[i] = phase[i] /\ effect'[i] = effect[i]]_vars
    <2> SUFFICES ASSUME Ind, Next, NEW j \in Ids, Ended(j)
                 PROVE  phase'[j] = phase[j] /\ effect'[j] = effect[j]
      OBVIOUS
    <2>1. PICK i \in Ids : Moves(i)
      BY NextMoves
    <2> QED
      BY <2>1 DEF Moves, Ended
  <1> QED
    BY <1>1, Inductive, PTL DEF Spec, EndsForGood

\* A change set never returns to an earlier phase, nor skips one.
THEOREM ApprovalsAreNotGivenBack == Spec => NeverGivenBack
  <1>1. Ind /\ [Next]_vars =>
          [\A i \in Ids : phase'[i] # phase[i] => Order[phase'[i]] = Order[phase[i]] + 1]_vars
    <2> SUFFICES ASSUME Ind, Next, NEW j \in Ids, phase'[j] # phase[j]
                 PROVE  Order[phase'[j]] = Order[phase[j]] + 1
      OBVIOUS
    <2>1. PICK i \in Ids : Moves(i)
      BY NextMoves
    <2> QED
      BY <2>1 DEF Moves
  <1> QED
    BY <1>1, Inductive, PTL DEF Spec, NeverGivenBack

\* The cluster begins once, while the approval is being spent, and ends once.
THEOREM TheClusterBeginsOnce == Spec => BeginsOnce
  <1>1. Ind /\ [Next]_vars =>
          [\A i \in Ids : effect'[i] # effect[i] =>
             \/ effect[i] = "none" /\ phase[i] = "Applying"
             \/ effect[i] = "running" /\ effect'[i] \in {"ok", "failed"}]_vars
    <2> SUFFICES ASSUME Ind, Next, NEW j \in Ids, effect'[j] # effect[j]
                 PROVE  \/ effect[j] = "none" /\ phase[j] = "Applying"
                        \/ effect[j] = "running" /\ effect'[j] \in {"ok", "failed"}
      OBVIOUS
    <2>1. PICK i \in Ids : Moves(i)
      BY NextMoves
    <2> QED
      BY <2>1 DEF Moves
  <1> QED
    BY <1>1, Inductive, PTL DEF Spec, BeginsOnce
=============================================================================
