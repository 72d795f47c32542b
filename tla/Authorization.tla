--------------------------- MODULE Authorization ---------------------------
(***************************************************************************)
(* Who may do what to which guest: the selectors of a grant (selector.rs,  *)
(* grant.rs), the tiers and interruptions of the tools (tier.rs), the      *)
(* protection of a guest (protect.rs), the operator's waivers (waiver.rs), *)
(* and GuestIndex::authorize, which puts them together (resolve.rs).       *)
(*                                                                         *)
(* A guest's facts are a record [vmid, type, node, pool, tags]; an         *)
(* Option<ResolvedGuest> is a set of at most one of these.                 *)
(***************************************************************************)
EXTENDS Naturals

-----------------------------------------------------------------------------
\* Selectors.  "vmid:7" is the range from 7 to 7; a term that does not parse, as an
\* inverted range or an unknown prefix, is "malformed", but for a "*" among blanks, which
\* is "padded": it does not parse either, and still counts as an unrestricted scope.

AnyTerm == [kind |-> "any"]
VmidTerm(low, high) == [kind |-> "vmid", low |-> low, high |-> high]
NamedTerm(kind, name) == [kind |-> kind, name |-> name]
MalformedTerm == [kind |-> "malformed"]
PaddedTerm == [kind |-> "padded"]

Matches(term, facts) ==
  CASE term.kind = "any"       -> TRUE
    [] term.kind = "vmid"      -> facts.vmid \in term.low .. term.high
    [] term.kind = "tag"       -> term.name \in facts.tags
    [] term.kind = "pool"      -> term.name = facts.pool
    [] term.kind = "node"      -> term.name = facts.node
    [] term.kind = "type"      -> term.name = facts.type
    [] OTHER                   -> FALSE

-----------------------------------------------------------------------------
\* Grants: [guests : a set of terms, actions : a set of tiers].

AllowsGuest(grant, facts) == \E term \in grant.guests : Matches(term, facts)

AllowsAction(grant, tier) == tier \in grant.actions

\* A VMID without a guest: only the terms that a bare number can answer.
AllowsNewVmid(grant, vmid) ==
  \E term \in grant.guests :
    \/ term.kind = "any"
    \/ term.kind = "vmid" /\ vmid \in term.low .. term.high

UnrestrictedGuestScope(grant) == \E term \in grant.guests : term.kind \in {"any", "padded"}

-----------------------------------------------------------------------------
\* Tiers and interruptions.

InterruptingTools ==
  {"reset_vm", "restart_container", "shutdown_vm", "stop_container", "stop_task",
   "stop_vm", "update_container_resources"}

BackupModes == {"snapshot", "suspend", "stop"}

BackupInterrupts(mode) == mode \in {"stop", "suspend"}

\* The low-tier tools among WRITE_TOOLS that act at once, on a guest or in place of one;
\* the rest of that list plans, approves or applies a change set.
LowTools ==
  {"clone_vm", "create_backup", "create_container", "create_snapshot", "create_vm",
   "download_iso", "reset_vm", "resize_disk", "restart_container", "shutdown_vm",
   "start_container", "start_vm", "stop_container", "stop_task", "stop_vm",
   "update_container_resources"}

\* A wildcard tool scope reaches every tool but the writing ones.
MayCall(tools, tool) == tool \in tools \/ ("*" \in tools /\ tool \notin LowTools)

-----------------------------------------------------------------------------
\* Protection: [protected_vmids, protected_tags] of a cluster, what it says of the
\* answer found to a question about a guest, and what overrides it.

Protected(cluster, found, failed) ==
  \/ failed
  \/ found = {}
  \/ \E guest \in found : \/ guest.tags \cap cluster.protected_tags # {}
                          \/ guest.vmid \in cluster.protected_vmids

CreationAllowed(cluster, vmid) == vmid \notin cluster.protected_vmids

\* A waiver is [vmid, until, ops, callers]; one that names no principal has them all
\* as its callers.
WaiverMatches(waiver, vmid, time, op, principal) ==
  /\ waiver.vmid = vmid
  /\ time < waiver.until
  /\ op \in waiver.ops
  /\ principal \in waiver.callers

\* destructive_allowed on a protected guest: a waiver, or lab mode.
Overridden(waivers, vmid, time, op, principal, labMode) ==
  labMode \/ \E waiver \in waivers : WaiverMatches(waiver, vmid, time, op, principal)

-----------------------------------------------------------------------------
\* authorize for a guest that the index has answered: scope, action tier, protection.
Authorizes(cluster, grant, guest, tier, interrupts, override) ==
  /\ AllowsGuest(grant, guest)
  /\ AllowsAction(grant, tier)
  /\ (tier = "destructive" \/ interrupts) => ~Protected(cluster, {guest}, FALSE) \/ override
=============================================================================
