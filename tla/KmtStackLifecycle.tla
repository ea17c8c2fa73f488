------------------------- MODULE KmtStackLifecycle -------------------------
(***************************************************************************)
(* What the kmt stack commands promise a developer about local VMs, with  *)
(* the EC2 and pulumi detail left out.  A stack directory is created, its *)
(* vmconfig declares local VMs or not, VMs are provisioned for a stack    *)
(* whose vmconfig declares them, paused and resumed, released (in full,   *)
(* or only their domains), and the directory, with its vmconfig, is       *)
(* removed from a stack that holds no VMs, or whose vmconfig does not     *)
(* declare them: the VMs of such a stack are left behind.  KmtStacks      *)
(* implements this specification under the mapping given there           *)
(* (LifecycleSpec).                                                        *)
(***************************************************************************)
CONSTANTS Stacks

VARIABLES
    dirs,    \* stacks whose directory exists
    local,   \* stacks whose vmconfig declares local VMs
    vms,     \* stacks that hold local VM resources
    paused   \* stacks whose VMs are suspended

absVars == <<dirs, local, vms, paused>>

Init ==
    /\ dirs = {}
    /\ local = {}
    /\ vms = {}
    /\ paused = {}

Create(s) ==
    /\ s \notin dirs
    /\ dirs' = dirs \cup {s}
    /\ UNCHANGED <<local, vms, paused>>

\* The vmconfig is (re)written, with or without local VMs.
Configure(s) ==
    /\ s \in dirs
    /\ local' \in {local \cup {s}, local \ {s}}
    /\ UNCHANGED <<dirs, vms, paused>>

Provision(s) ==
    /\ s \in dirs
    /\ s \in local
    /\ vms' = vms \cup {s}
    /\ UNCHANGED <<dirs, local, paused>>

\* The VMs are no longer suspended: resumed, or their domains deleted.
Unpause(s) ==
    /\ s \in paused
    /\ paused' = paused \ {s}
    /\ UNCHANGED <<dirs, local, vms>>

Release(s) ==
    /\ s \in vms
    /\ vms' = vms \ {s}
    /\ paused' = paused \ {s}
    /\ UNCHANGED <<dirs, local>>

Pause(s) ==
    /\ s \in vms
    /\ paused' = paused \cup {s}
    /\ UNCHANGED <<dirs, local, vms>>

Remove(s) ==
    /\ s \in dirs
    /\ s \notin vms \/ s \notin local
    /\ dirs' = dirs \ {s}
    /\ local' = local \ {s}
    /\ UNCHANGED <<vms, paused>>

Next ==
    \E s \in Stacks :
        \/ Create(s) \/ Configure(s) \/ Provision(s) \/ Unpause(s)
        \/ Release(s) \/ Pause(s) \/ Remove(s)

Spec == Init /\ [][Next]_absVars

=============================================================================
