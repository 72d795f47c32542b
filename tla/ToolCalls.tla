----------------------------- MODULE ToolCalls -----------------------------
(***************************************************************************)
(* The tools that act at once, without a change set (server/mod.rs): the   *)
(* lifecycle verbs, snapshots, backups, clones, creations, resizes,        *)
(* resource changes, task stops and downloads; the reads that address a    *)
(* guest; and the guest listings, which a client walks page by page.       *)
(*                                                                         *)
(* The cluster is a history of versions.  The guest index is the one that  *)
(* FreshReads describes: it answers from any version that is no older than *)
(* the call's own invalidation, if it made one.  A listing is not answered *)
(* by the index but read live.                                             *)
(***************************************************************************)
EXTENDS Authorization, Paging

CONSTANTS
  Clients,      \* callers, each with one call or one walk through a listing at a time
  Asks,         \* bound: Asks[c], the tools that client c calls
  Principals,   \* token names
  Tools,        \* Tools[p]: the tool scope of p's token, names of tools or "*"
  Grants,       \* Grants[p]: the grant of p's token
  Vmids,        \* bound: the VMIDs in use
  Lives,        \* bound: Lives[v], the guests that may be found at v
  Startup,      \* the protection lists that the clients were built with
  Inventories,  \* bound: the protection lists that a reload may find in clusters.json
  Waivers,      \* the waivers file, read at startup
  LabMode,      \* --lab-mode
  DirectCommit, \* --allow-direct-commit
  Tasks,        \* bound: the UPIDs that a caller may name
  MaxLimit,     \* MAX_PAGE_LIMIT
  Horizon,      \* bound: changes of the cluster
  MaxTime,      \* bound: ticks of the clock
  None          \* no tool, no principal, no VMID

Versions == 0 .. Horizon

\* made: who created the guest, a principal through this server or "others".
Guests == UNION {{[g EXCEPT !.made = m] : g \in Lives[v], m \in Principals \cup {"others"}} :
                 v \in Vmids}

ASSUME BoundAssumption  == Horizon \in Nat /\ MaxTime \in Nat /\ MaxLimit \in Nat
ASSUME VmidsAssumption  == Vmids \subseteq Nat /\ IsFiniteSet(Vmids)
ASSUME LivesAssumption  ==
  \A v \in Vmids : \A g \in Lives[v] :
    g \in [vmid : {v}, type : {"qemu", "lxc"}, node : {g.node}, pool : {g.pool},
          tags : {g.tags}, made : {"others"}]
ASSUME FlagAssumption   == LabMode \in BOOLEAN /\ DirectCommit \in BOOLEAN
ASSUME WaiversAssumption == \A waiver \in Waivers : waiver.until \in Nat
\* A token whose grant does not validate is not loaded (ProxmoxGrant::validate).
ASSUME GrantsAssumption ==
  \A p \in Principals : \A term \in Grants[p].guests : term.kind \notin {"malformed", "padded"}
ASSUME ReloadAssumption == Startup \in Inventories
ASSUME NoneAssumption   == None \notin Principals \cup Vmids /\ "others" \notin Principals

VARIABLES
  now,        \* the current version of the cluster
  past,       \* past[k]: the cluster at version k, up to now; past[k][v] is {} or one guest
  arose,      \* history: arose[k], the time when version k came about
  clock,      \* unix time
  inventory,  \* the protection lists of clusters.json as last loaded
  call        \* call[c]: where client c's call stands, and its locals

vars == <<now, past, arose, clock, inventory, call>>

Steps == {"idle", "resolve", "authorize", "read", "vacancy", "send", "make", "list", "listed"}

Kinds   == {"any", "qemu", "lxc"}
Configs == {"allowed", "restoring", "reaching"}

\* floor: the version when the call invalidated the index; seen: what a walk has been
\* shown; began, since and pins: history of calls that interrupt and of walks, the
\* version, the time and the pins of clusters.json when they began.
Calls == [at : Steps, tool : (UNION {Asks[c] : c \in Clients}) \cup {None},
          by : Principals \cup {None}, vmid : Vmids \cup {None}, newid : Vmids \cup {None},
          kind : Kinds, config : Configs \cup {"none"},
          interrupts : BOOLEAN, override : BOOLEAN,
          began : Versions, since : 0 .. MaxTime,
          pins : {{}} \cup {i.protected_vmids : i \in Inventories}, floor : Versions,
          offset : Nat, limit : 0 .. MaxLimit, seen : SUBSET Vmids]

TypeOK ==
  /\ now \in Versions
  /\ past \in [Versions -> [Vmids -> SUBSET Guests]]
  /\ arose \in [Versions -> 0 .. MaxTime]
  /\ clock \in 0 .. MaxTime
  /\ inventory \in Inventories
  /\ call \in [Clients -> Calls]
  /\ \A c \in Clients :
       call[c].floor <= now /\ call[c].began <= now /\ call[c].since <= clock

Idle == [at |-> "idle", tool |-> None, by |-> None, vmid |-> None, newid |-> None,
         kind |-> "any", config |-> "none", interrupts |-> FALSE, override |-> FALSE,
         began |-> 0, since |-> 0, pins |-> {}, floor |-> 0,
         offset |-> 0, limit |-> 0, seen |-> {}]

At(c, s) == call[c].at = s

Return(c) == call' = [call EXCEPT ![c] = Idle]

Goto(c, s) == call' = [call EXCEPT ![c] = [@ EXCEPT !.at = s]]

\* The cluster becomes w, as its next version; versions to come look like the newest.
Becomes(w) ==
  /\ now < Horizon
  /\ now' = now + 1
  /\ past' = [k \in Versions |-> IF k > now THEN w ELSE past[k]]
  /\ arose' = [k \in Versions |-> IF k > now THEN clock ELSE arose[k]]

-----------------------------------------------------------------------------
\* A protection list that follows the reloads.
ServedReloaded == inventory

\* client.cluster(): the entry of clusters.json that the client was built with, at startup.
Served == Startup

\* What the index may answer about vmid after an invalidation at version floor.
Answers(floor, vmid) == {past[k][vmid] : k \in floor .. now}

\* A call that never invalidates.
FreshNever(interrupts) == 0

\* An interrupting call drops the cached snapshot before it resolves; others may be
\* answered from any version.
Fresh(interrupts) == IF interrupts THEN now ELSE 0

\* gate_direct_commit: what runs with no approval needs --allow-direct-commit, if it
\* interrupts, copies or makes a guest.
Gated(tool, interrupts) ==
  interrupts \/ tool \in {"create_backup", "clone_vm", "resize_disk", "create_vm",
                          "create_container"}

GateOpen(tool, interrupts) == Gated(tool, interrupts) => DirectCommit

\* A destination check that asks nobody.
MayMakeAnywhere(p, vmid) == vmid \notin Served.protected_vmids

\* The destination of a clone or a creation: in the grant by its number, and not a pin.
MayMake(p, vmid) == AllowsNewVmid(Grants[p], vmid) /\ CreationAllowed(Served, vmid)

-----------------------------------------------------------------------------
(***************************************************************************)
(* Starts.  Everything from the arrival of a call to its first request,    *)
(* which is a cache lookup at least: checks of the arguments, authorize_   *)
(* call, the grant, the invalidation.                                      *)
(***************************************************************************)

Asked(c, tool, by) == At(c, "idle") /\ tool \in Asks[c] /\ MayCall(Tools[by], tool)

\* The call as the handler has it once it goes on to step s.
Begin(c, s, tool, by, locals) ==
  /\ call' = [call EXCEPT ![c] =
       [[k \in DOMAIN Idle |-> IF k \in DOMAIN locals THEN locals[k] ELSE Idle[k]]
         EXCEPT !.at = s, !.tool = tool, !.by = by]]
  /\ UNCHANGED <<now, past, arose, clock, inventory>>

\* authorize_low, authorize_low_with_interrupts and serve_lifecycle up to the resolution:
\* a call on a guest that has to be of the given kind.
BeginLow(c, tool, by, vmid, kind, interrupts) ==
  Begin(c, "resolve", tool, by,
        IF interrupts
        THEN [vmid |-> vmid, kind |-> kind, interrupts |-> TRUE, floor |-> Fresh(TRUE),
              began |-> now, since |-> clock, pins |-> inventory.protected_vmids]
        ELSE [vmid |-> vmid, kind |-> kind, floor |-> Fresh(FALSE)])

RequiredType ==
  [start_vm |-> "qemu", stop_vm |-> "qemu", shutdown_vm |-> "qemu", reset_vm |-> "qemu",
   start_container |-> "lxc", stop_container |-> "lxc", restart_container |-> "lxc"]

LifecycleStart(c) ==
  \E tool \in DOMAIN RequiredType, by \in Principals, vmid \in Vmids :
    /\ Asked(c, tool, by)
    /\ BeginLow(c, tool, by, vmid, RequiredType[tool], tool \in InterruptingTools)

SnapshotStart(c) ==
  \E by \in Principals, vmid \in Vmids :
    /\ Asked(c, "create_snapshot", by)
    /\ BeginLow(c, "create_snapshot", by, vmid, "any", FALSE)

BackupStart(c) ==
  \E by \in Principals, vmid \in Vmids, mode \in BackupModes :
    /\ Asked(c, "create_backup", by)
    /\ BeginLow(c, "create_backup", by, vmid, "any", BackupInterrupts(mode))

\* The source is authorized first, from the cache.
CloneStart(c) ==
  \E by \in Principals, vmid \in Vmids, newid \in Vmids :
    /\ Asked(c, "clone_vm", by)
    /\ Begin(c, "resolve", "clone_vm", by, [vmid |-> vmid, newid |-> newid])

\* resize_shrinks: anything but an unambiguous grow.
ResizeShrinks(size) == size # "grow"

ResizeStart(c) ==
  \E by \in Principals, vmid \in Vmids, size \in {"grow", "absolute", "zero", "malformed"} :
    /\ Asked(c, "resize_disk", by)
    /\ ~ResizeShrinks(size)
    /\ BeginLow(c, "resize_disk", by, vmid, "any", FALSE)

ResourcesStart(c) ==
  \E by \in Principals, vmid \in Vmids :
    /\ Asked(c, "update_container_resources", by)
    /\ BeginLow(c, "update_container_resources", by, vmid, "lxc", TRUE)

\* A task is [worker, id], the id a VMID or the number of something else, or None if it is
\* no number.  The workers of guests are those whose names begin with "qm" or "vz".
Rewriting == {"qmrestore", "vzrestore", "qmdestroy", "vzdestroy", "qmrollback", "vzrollback"}
GuestWorkers == Rewriting \cup {"vzdump", "qmigrate", "vzmigrate", "qmclone", "qmstop"}

\* A task's guest told by the look of the id.
TaskGuestByNumber(task) == {task.id}

\* task_guest: by the kind of the worker, not by the look of the id.
TaskGuest(task) == IF task.worker \in GuestWorkers THEN {task.id} \ {None} ELSE {}

ASSUME TasksAssumption ==
  \A task \in Tasks : task.worker \in GuestWorkers => task.id \in Vmids \cup {None}

\* stop_task on the task of a guest is authorized as any interruption of that guest; on
\* work of a node, it takes a grant that names no guests.
StopTaskStart(c) ==
  \E by \in Principals, task \in Tasks :
    /\ Asked(c, "stop_task", by)
    /\ task.worker \notin Rewriting
    /\ AllowsAction(Grants[by], "low")
    /\ \/ \E vmid \in TaskGuest(task) : BeginLow(c, "stop_task", by, vmid, "any", TRUE)
       \/ /\ TaskGuest(task) = {}
          /\ UnrestrictedGuestScope(Grants[by])
          /\ GateOpen("stop_task", TRUE)
          /\ Begin(c, "send", "stop_task", by, [vmid |-> None])

\* A list of refused keys that does not know how a restore is spelled.
ConfigRefusedKeys(config) == config # "reaching"

\* reject_unsafe_config: neither the keys of a restore (archive, restore, force) nor a
\* host path, a device, a privileged container or another guest's volume.
ConfigAllowed(config) == config = "allowed"

CreateStart(c) ==
  \E tool \in {"create_vm", "create_container"}, by \in Principals, vmid \in Vmids,
     config \in Configs :
    /\ Asked(c, tool, by)
    /\ ConfigAllowed(config)
    /\ AllowsAction(Grants[by], "low")
    /\ MayMake(by, vmid)
    /\ Begin(c, "vacancy", tool, by,
             [newid |-> vmid, kind |-> IF tool = "create_vm" THEN "qemu" ELSE "lxc",
              config |-> config, floor |-> now])

\* Half a checksum is refused, and a storage takes a grant that names no guests.
DownloadStart(c) ==
  \E by \in Principals, checksum \in BOOLEAN, algorithm \in BOOLEAN :
    /\ Asked(c, "download_iso", by)
    /\ AllowsAction(Grants[by], "low")
    /\ UnrestrictedGuestScope(Grants[by])
    /\ checksum = algorithm
    /\ Begin(c, "send", "download_iso", by, [vmid |-> None])

\* The reads that address a guest; some paths name the kind of guest they are for.
KindReads == [get_vm_config |-> "qemu", get_container_config |-> "lxc", get_container_ip |-> "lxc"]

GuestFirewallReads ==
  {"get_guest_firewall_rules", "get_guest_firewall_options", "list_guest_firewall_aliases",
   "list_guest_firewall_ipsets", "get_guest_firewall_ipset_entries"}

GuestReads == (DOMAIN KindReads) \cup GuestFirewallReads \cup {"get_guest_status", "list_snapshots"}

ReadStart(c) ==
  \E tool \in GuestReads, by \in Principals, vmid \in Vmids :
    /\ Asked(c, tool, by)
    /\ Begin(c, "read", tool, by,
             [vmid |-> vmid, kind |-> IF tool \in DOMAIN KindReads THEN KindReads[tool] ELSE "any"])

\* The reads of what guests share, and the two that say nothing of guests.
NodeReads ==
  {"get_node_status", "get_storage", "list_backups", "list_isos", "list_templates",
   "list_tasks", "get_task_status"}

FirewallReads ==
  {"get_cluster_firewall_rules", "get_cluster_firewall_options",
   "list_firewall_security_groups", "get_firewall_security_group_rules",
   "list_firewall_ipsets", "get_firewall_ipset_entries", "list_firewall_aliases",
   "get_node_firewall_rules", "get_node_firewall_options"}

HaReads == {"list_ha_rules", "get_ha_rule"}

SharedReads == NodeReads \cup FirewallReads \cup HaReads

ClusterReads == {"get_cluster_status", "get_nodes"}

\* A read of what guests share takes a grant that names none.
SharedReadStart(c) ==
  \E tool \in SharedReads \cup ClusterReads, by \in Principals :
    /\ Asked(c, tool, by)
    /\ tool \in SharedReads => UnrestrictedGuestScope(Grants[by])
    /\ Begin(c, "send", tool, by, [vmid |-> None])

Listings == [get_vms |-> "qemu", get_containers |-> "lxc"]

ListStart(c) ==
  \E tool \in DOMAIN Listings, by \in Principals, limit \in 0 .. MaxLimit + 1 :
    /\ Asked(c, tool, by)
    /\ LimitAccepted(limit, MaxLimit)
    /\ Begin(c, "list", tool, by, [kind |-> Listings[tool], limit |-> limit, began |-> now])

-----------------------------------------------------------------------------
\* A call that is refused, or fails, at a step that has sent nothing.
Refuse(c) ==
  /\ call[c].at \in {"resolve", "authorize", "read", "vacancy", "list"}
  /\ Return(c)
  /\ UNCHANGED <<now, past, arose, clock, inventory>>

\* The first resolution, for the override alone: destructive_allowed.  A guest that is
\* absent or cannot be resolved counts as one that cannot.
Resolve(c) ==
  LET k == call[c] IN
  /\ At(c, "resolve")
  /\ \E found \in Answers(k.floor, k.vmid) \cup {{}} :
       call' = [call EXCEPT ![c] = [@ EXCEPT !.at = "authorize", !.override =
         Protected(Served, found, found = {})
           /\ Overridden(Waivers, k.vmid, clock, k.tool, k.by, LabMode)]]
  /\ UNCHANGED <<now, past, arose, clock, inventory>>

\* authorize, then, before anything is awaited, what the tool itself asks of the guest.
AuthorizedAs(k, guest) ==
  /\ Authorizes(Served, Grants[k.by], guest, "low", k.interrupts, k.override)
  /\ k.kind \in {"any", guest.type}
  /\ k.tool = "clone_vm" => MayMake(k.by, k.newid)
  /\ GateOpen(k.tool, k.interrupts)

\* The second resolution, which authorize makes.
Authorize(c) ==
  LET k == call[c] IN
  /\ At(c, "authorize")
  /\ \E found \in Answers(k.floor, k.vmid) : \E guest \in found :
       /\ AuthorizedAs(k, guest)
       /\ call' = [call EXCEPT ![c] = [@ EXCEPT !.kind = guest.type,
            !.at = IF k.tool = "clone_vm" THEN "make" ELSE "send"]]
  /\ UNCHANGED <<now, past, arose, clock, inventory>>

\* An authorization that trusts the VMID.
ReadAnyGuest(c) ==
  /\ At(c, "read")
  /\ \E found \in Answers(0, call[c].vmid) : \E guest \in found :
       call[c].kind \in {"any", guest.type}
  /\ Goto(c, "send")
  /\ UNCHANGED <<now, past, arose, clock, inventory>>

\* authorize with Intent::read: protection does not keep a guest from being observed.
ReadGuest(c) ==
  LET k == call[c] IN
  /\ At(c, "read")
  /\ \E found \in Answers(0, k.vmid) : \E guest \in found :
       /\ Authorizes(Served, Grants[k.by], guest, "read", FALSE, FALSE)
       /\ k.kind \in {"any", guest.type}
  /\ Goto(c, "send")
  /\ UNCHANGED <<now, past, arose, clock, inventory>>

\* authorize_creation: the VMID must be known to be free; then the gate.
Vacancy(c) ==
  LET k == call[c] IN
  /\ At(c, "vacancy")
  /\ {} \in Answers(k.floor, k.newid)
  /\ GateOpen(k.tool, FALSE)
  /\ Goto(c, "make")
  /\ UNCHANGED <<now, past, arose, clock, inventory>>

-----------------------------------------------------------------------------
\* The request.  Its answer, lost or not, is the caller's alone: nothing is recorded.

\* A request that changes no more of a guest than its power state, its snapshots, its
\* disks' sizes or its resources; or a read; or one that Proxmox refuses.
Send(c) ==
  /\ call[c].at \in {"send", "make"}
  /\ Return(c)
  /\ UNCHANGED <<now, past, arose, clock, inventory>>

\* Proxmox makes a guest only where there is none, unless it is told to restore over it;
\* a clone, only of a guest of the kind that its path names.
Accepts(k) ==
  /\ past[now][k.newid] = {} \/ k.config = "restoring"
  /\ k.tool = "clone_vm" => \E source \in past[now][k.vmid] : source.type = k.kind

\* What carries which tags is up to the caller.
Make(c) ==
  LET k == call[c] IN
  /\ At(c, "make")
  /\ Accepts(k)
  /\ \E guest \in Lives[k.newid] :
       /\ guest.type = k.kind
       /\ Becomes([past[now] EXCEPT ![k.newid] = {[guest EXCEPT !.made = k.by]}])
  /\ Return(c)
  /\ UNCHANGED <<clock, inventory>>

-----------------------------------------------------------------------------
\* Listings, read live.

\* A listing whose filter knows types but not scopes.
VisibleToAll(p, kind, k) ==
  {v \in Vmids : \E guest \in past[k][v] : guest.type = kind}

\* What p may list of the cluster at version k: the type filter and the scope filter.
Visible(p, kind, k) ==
  {v \in Vmids : \E guest \in past[k][v] :
     /\ guest.type = kind
     /\ UnrestrictedGuestScope(Grants[p]) \/ AllowsGuest(Grants[p], guest)}

\* One page of a walk: the client asks on while has_more says so.
Page(c) ==
  LET k == call[c]
      records == Visible(k.by, k.kind, now)
  IN
  /\ At(c, "list")
  /\ \E page \in Pages(records, k.offset, k.limit) :
       call' = [call EXCEPT ![c] = [@ EXCEPT
         !.seen = k.seen \cup page,
         !.offset = k.offset + k.limit,
         !.at = IF HasMore(records, k.offset, k.limit) THEN "list" ELSE "listed"]]
  /\ UNCHANGED <<now, past, arose, clock, inventory>>

Listed(c) ==
  /\ At(c, "listed")
  /\ Return(c)
  /\ UNCHANGED <<now, past, arose, clock, inventory>>

-----------------------------------------------------------------------------
\* The world.

\* Others create, destroy or change a guest.
Edit ==
  /\ \E v \in Vmids :
       \/ past[now][v] # {} /\ Becomes([past[now] EXCEPT ![v] = {}])
       \/ \E guest \in Lives[v] :
            LET maker == IF past[now][v] = {} THEN "others"
                         ELSE (CHOOSE g \in past[now][v] : TRUE).made
                edited == [guest EXCEPT !.made = maker]
            IN /\ past[now][v] # {edited}
               /\ Becomes([past[now] EXCEPT ![v] = {edited}])
  /\ UNCHANGED <<clock, inventory, call>>

Tick ==
  /\ clock < MaxTime
  /\ clock' = clock + 1
  /\ UNCHANGED <<now, past, arose, inventory, call>>

\* SIGHUP: the inventory is loaded anew and the index emptied; the clients stay.
Reload ==
  /\ inventory' \in Inventories \ {inventory}
  /\ UNCHANGED <<now, past, arose, clock, call>>

-----------------------------------------------------------------------------
Init ==
  /\ now = 0
  /\ \E w \in [Vmids -> SUBSET UNION {Lives[v] : v \in Vmids}] :
       /\ \A v \in Vmids : w[v] = {} \/ \E guest \in Lives[v] : w[v] = {guest}
       /\ past = [k \in Versions |-> w]
  /\ arose = [k \in Versions |-> 0]
  /\ clock = 0
  /\ inventory = Startup
  /\ call = [c \in Clients |-> Idle]

Start(c) ==
  \/ LifecycleStart(c)
  \/ SnapshotStart(c)
  \/ BackupStart(c)
  \/ CloneStart(c)
  \/ ResizeStart(c)
  \/ ResourcesStart(c)
  \/ StopTaskStart(c)
  \/ CreateStart(c)
  \/ DownloadStart(c)
  \/ ReadStart(c)
  \/ SharedReadStart(c)
  \/ ListStart(c)

Step(c) ==
  \/ Refuse(c)
  \/ Resolve(c)
  \/ Authorize(c)
  \/ ReadGuest(c)
  \/ Vacancy(c)
  \/ Send(c)
  \/ Make(c)
  \/ Page(c)
  \/ Listed(c)

Next ==
  \/ \E c \in Clients : Start(c) \/ Step(c)
  \/ Edit
  \/ Tick
  \/ Reload

Spec == Init /\ [][Next]_vars

-----------------------------------------------------------------------------
\* A waiver or lab mode lifts the protection at some time since the call began.
LiftedSince(k) ==
  \E t \in k.since .. clock : Overridden(Waivers, k.vmid, t, k.tool, k.by, LabMode)

\* It does so at some time of the call when the cluster was at this version.
LiftedAt(k, version) ==
  \E t \in k.since .. clock :
    /\ arose[version] <= t /\ (version = now \/ t <= arose[version + 1])
    /\ Overridden(Waivers, k.vmid, t, k.tool, k.by, LabMode)

\* A waiver that covered the call when it began has expired since.
LapsedSince(k) ==
  \E waiver \in Waivers :
    WaiverMatches(waiver, k.vmid, k.since, k.tool, k.by) /\ waiver.until <= clock

(***************************************************************************)
(* The cached answer is never good enough to take a guest down             *)
(* (server/mod.rs:2966-2970, 3074-3078).  A request that interrupts a      *)
(* guest is sent only if, at some version of the cluster since that very   *)
(* call began, the guest was there, in the caller's scope, and either      *)
(* unprotected or lifted, for this tool and this principal, while the      *)
(* cluster was at that version.  The one exception is a waiver that        *)
(* expires while the call runs: it may have lifted at another moment than  *)
(* the guest was there, or before the guest was protected                  *)
(* (JustifiedAtOnce).                                                      *)
(***************************************************************************)
InterruptionsJustified ==
  \A c \in Clients : LET k == call[c] IN
    At(c, "send") /\ k.interrupts =>
      \E version \in k.began .. now : \E guest \in past[version][k.vmid] :
        /\ AllowsGuest(Grants[k.by], guest)
        /\ Protected(Served, {guest}, FALSE) => LiftedAt(k, version) \/ LapsedSince(k)

(***************************************************************************)
(* What is said of a protected guest without that exception: it is refused *)
(* to every service-interrupting tool unless a waiver or lab mode supplies *)
(* an override (README.md:146), and what the waiver is asked is whether    *)
(* this protected guest may be disrupted right now                         *)
(* (server/mod.rs:3097-3099).  So a call that interrupts one has a moment  *)
(* when it was both there, in the caller's scope, and lifted.  The code    *)
(* does not keep this where a waiver expires while the call runs.          *)
(***************************************************************************)
JustifiedAtOnce ==
  \A c \in Clients : LET k == call[c] IN
    At(c, "send") /\ k.interrupts =>
      \E version \in k.began .. now : \E guest \in past[version][k.vmid] :
        /\ AllowsGuest(Grants[k.by], guest)
        /\ Protected(Served, {guest}, FALSE) => LiftedAt(k, version)

(***************************************************************************)
(* No tool, read or write, acts on a guest that was never in the caller's  *)
(* scope, and none that names a guest of one kind acts on a VMID that only *)
(* ever held the other (server/mod.rs:2027-2037): between the two          *)
(* resolutions of a call, the guest may be replaced or re-tagged.          *)
(***************************************************************************)
ReachesOnlyAdmitted ==
  \A c \in Clients : LET k == call[c] IN
    k.at \in {"send", "make"} /\ k.vmid # None =>
      \E version \in 0 .. now : \E guest \in past[version][k.vmid] :
        AllowsGuest(Grants[k.by], guest) /\ k.kind \in {"any", guest.type}

(***************************************************************************)
(* A grant is not a licence to choose one's own scope (grant.rs:88-100,    *)
(* server/mod.rs:4042-4067): what a principal has made through this        *)
(* server, by creating or cloning, lies where its grant admits the bare    *)
(* number, and never on a pin that the server started with, whatever       *)
(* reloads have said since.                                                *)
(***************************************************************************)
MadeWithinGrant ==
  \A v \in Vmids : \A guest \in past[now][v] :
    guest.made \in Principals =>
      AllowsNewVmid(Grants[guest.made], v) /\ v \notin Startup.protected_vmids

(***************************************************************************)
(* Creating cannot overwrite (server/mod.rs:2795-2803): however the check  *)
(* that the VMID is free races with others, a guest that is there is never *)
(* turned into one that a caller of this server has made.                  *)
(***************************************************************************)
NeverOverwrites ==
  [][\A v \in Vmids : \A old \in past[now][v], new \in past'[now'][v] :
       new.made = old.made]_vars

(***************************************************************************)
(* Pages add up (server/mod.rs:651-661): a guest that the caller could     *)
(* list all through a walk is on one of its pages, unless another one left *)
(* the listing meanwhile; and the walk ends only at the true end.          *)
(***************************************************************************)
NoneSkipped ==
  \A c \in Clients : LET k == call[c] IN
    At(c, "listed") =>
      \/ \E i \in k.began .. (now - 1) :
           ~(Visible(k.by, k.kind, i) \subseteq Visible(k.by, k.kind, i + 1))
      \/ \A v \in Visible(k.by, k.kind, k.began) : v \in k.seen

(***************************************************************************)
(* A narrowed token lists no guest that was out of its scope all through   *)
(* the walk, though it never named one (server/mod.rs:2063-2072).          *)
(***************************************************************************)
ListsOnlyScope ==
  \A c \in Clients : LET k == call[c] IN
    \A v \in k.seen :
      \E version \in k.began .. now : \E guest \in past[version][v] :
        AllowsGuest(Grants[k.by], guest)

(***************************************************************************)
(* Who makes a guest may address it, whatever others do to its tags, its   *)
(* pool or its node (grant.rs:81-100).                                     *)
(***************************************************************************)
MakersMayAddress ==
  \A v \in Vmids : \A guest \in past[now][v] :
    guest.made \in Principals => AllowsGuest(Grants[guest.made], guest)

(***************************************************************************)
(* A pin of the lists that the server started with is lifted by a waiver   *)
(* or by lab mode only, whatever reloads say.                              *)
(***************************************************************************)
StartupPinsHold ==
  \A c \in Clients : LET k == call[c] IN
    At(c, "send") /\ k.interrupts /\ k.vmid \in Startup.protected_vmids
      => k.override /\ LiftedSince(k)

(***************************************************************************)
(* What a reload of clusters.json is said to do (README.md:150, and        *)
(* inventory.rs:108): a call that begins after it does not interrupt a     *)
(* guest pinned there, unless a waiver or lab mode applies.                *)
(***************************************************************************)
ReloadedPinsHold ==
  \A c \in Clients : LET k == call[c] IN
    At(c, "send") /\ k.interrupts /\ k.vmid \in k.pins => k.override
=============================================================================
