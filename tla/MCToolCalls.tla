---------------------------- MODULE MCToolCalls ----------------------------
EXTENDS ToolCalls

CONSTANTS alice, bob, c1, c2

Guest(v, type, tags) ==
  [vmid |-> v, type |-> type, node |-> "n1", pool |-> "none", tags |-> tags, made |-> "others"]

\* 1 is a container in bob's scope, or a machine that is out of it and protected by its tag;
\* 2 is pinned; 3 is an ordinary machine.
MCLives == <<{Guest(1, "lxc", {"ci"}), Guest(1, "qemu", {"protected"})},
             {Guest(2, "qemu", {"ci"})},
             {Guest(3, "qemu", {"ci"})}>>

MCVmids == 1 .. 3

\* alice's scope is unrestricted; bob's is a tag, and one VMID.
MCGrants ==
  [p \in Principals |->
     IF p = alice THEN [guests |-> {AnyTerm}, actions |-> {"read", "low"}]
     ELSE [guests |-> {NamedTerm("tag", "ci"), VmidTerm(3, 3)}, actions |-> {"read", "low"}]]

MCTools == [p \in Principals |-> LowTools \cup {"*"}]

MCAsks == [c \in Clients |->
  {"start_vm", "stop_vm", "create_snapshot", "create_backup", "clone_vm", "resize_disk",
   "update_container_resources", "stop_task", "create_vm", "download_iso",
   "get_vm_config", "get_node_status", "get_vms"}]

Lists(pins) == [protected_vmids |-> pins, protected_tags |-> {"protected"}]
MCStartup == Lists({2})
MCInventories == {Lists({2}), Lists({1})}

MCWaivers == {[vmid |-> 1, until |-> 1, ops |-> {"stop_vm"}, callers |-> {alice}]}

MCTasks == {[worker |-> "vzdump", id |-> 1], [worker |-> "qmrestore", id |-> 1],
            [worker |-> "cephdestroyosd", id |-> 9]}
=============================================================================
