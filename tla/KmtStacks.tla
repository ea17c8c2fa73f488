----------------------------- MODULE KmtStacks -----------------------------
(***************************************************************************)
(* Lifecycle of kernel-matrix-testing VM stacks, as driven by              *)
(* tasks/kernel_matrix_testing/stacks.py.                                  *)
(*                                                                         *)
(* A stack is a directory under the stacks dir holding a vmconfig and,     *)
(* once launched, a stack.output file written by the start-microvms        *)
(* binary.  Launching creates a pulumi stack, EC2 metal instances (one per *)
(* remote architecture) and local libvirt resources.  Destroying goes      *)
(* either through pulumi ("--destroy") or through the "force" path, which  *)
(* deletes libvirt resources by name, terminates the EC2 instances whose   *)
(* private IPs stack.output records, removes the pulumi stack whose name   *)
(* grep finds, and finally removes the stack directory.                    *)
(*                                                                         *)
(* Every command runs on one stack at a time, so each stack has one phase  *)
(* variable; commands on different stacks (different branches, different  *)
(* developers sharing the sandbox AWS account) interleave freely.  A step  *)
(* of the force path is one external call; any of them can raise Exit or  *)
(* be interrupted, which ends the command (Abort).  A call that fails     *)
(* before it changes anything is a stuttering step and is left out.        *)
(***************************************************************************)
EXTENDS Naturals, FiniteSets, Sequences, Functions

CONSTANTS
    Stacks,        \* stack names after check_and_get_stack ("<name>-ddvm")
    Arch,          \* remote architectures of the metal instances
    IPs,           \* private IP addresses the sandbox subnet hands out
    NameContains,  \* <<s, t>> : the name of s is a substring of the name of t
    Configs,       \* the vmconfigs gen-config may write (see Config)
    NoConfig,      \* sentinel: the stack has no vmconfig file
    NoOutput,      \* sentinel: the stack has no stack.output file
    Corrupt        \* sentinel: stack.output exists but cannot be parsed

ASSUME StacksAssumption == Stacks # {} /\ IsFiniteSet(Stacks)
ASSUME NameContainsAssumption ==
    /\ NameContains \subseteq Stacks \X Stacks
    /\ \A s \in Stacks : <<s, s>> \in NameContains
ASSUME SentinelAssumption == NoOutput # Corrupt
\* x86_64 and arm64 for kmt's remote instances.
ASSUME ArchAssumption == IsFiniteSet(Arch)

VARIABLES
    dirs,     \* stacks whose directory exists
    config,   \* the stack's vmconfig, or NoConfig
    output,   \* the stack's stack.output: the (arch, ip) it records
    ec2,      \* live EC2 instances (all carry the team tag ebpf-platform)
    libvirt,  \* kinds of local libvirt resources that exist per stack
    paused,   \* stacks whose libvirt domains are suspended
    pulumi,   \* pulumi stacks that exist in the local backend
    pc,       \* phase of the command running on each stack
    warned    \* stacks for which the user was told to clean up by hand

vars == <<dirs, config, output, ec2, libvirt, paused, pulumi, pc, warned>>

(***************************************************************************)
(* A vmconfig, abstracted to what stacks.py reads of it: whether a vmset   *)
(* has arch "local", which remote arches its vmsets name, and whether some *)
(* vmset has no "arch" field at all.                                       *)
(***************************************************************************)
Config == {c \in [local : BOOLEAN, remote : SUBSET Arch, archless : BOOLEAN] :
              c.local \/ c.remote # {}}
ASSUME ConfigsAssumption == Configs \subseteq Config /\ NoConfig \notin Config

Instance == [stack : Stacks, arch : Arch, ip : IPs]
Record == [arch : Arch, ip : IPs]

\* The order in which destroy_stack_force deletes libvirt resources.
LibvirtOrder == <<"domain", "volume", "pool", "pooldir", "network">>
LibvirtKind == {LibvirtOrder[i] : i \in 1..Len(LibvirtOrder)}
DeletedFirst(k) == {LibvirtOrder[i] : i \in 1..k}
\* A pulumi run creates them in dependency order, the reverse one.
CreatedFirst(k) == {LibvirtOrder[i] : i \in (Len(LibvirtOrder) - k + 1)..Len(LibvirtOrder)}

Phase == {"idle", "force_ec2", "force_pulumi", "rmdir"}

InstancesOf(s) == {i \in ec2 : i.stack = s}
UsedIPs == {i.ip : i \in ec2}

(***************************************************************************)
(* remote_vms_in_config: some vmset names an arch other than "local";      *)
(* vmsets without an arch are skipped.                                     *)
(***************************************************************************)
RemoteVmsInConfig(c) == c.remote # {}

(***************************************************************************)
(* local_vms_in_config walks the vmsets in file order: it raises Exit at   *)
(* the first vmset without an arch and returns true at the first local    *)
(* one.  The order is not modelled, so with an archless vmset it may      *)
(* return "true" (local one first) or "raise"; it never returns "false".  *)
(***************************************************************************)
LocalVmsInConfig(c) ==
    IF c.archless THEN (IF c.local THEN {"true", "raise"} ELSE {"raise"})
    ELSE (IF c.local THEN {"true"} ELSE {"false"})

TypeOK ==
    /\ dirs \subseteq Stacks
    /\ config \in [Stacks -> Config \cup {NoConfig}]
    /\ output \in [Stacks -> (SUBSET Record) \cup {NoOutput, Corrupt}]
    /\ ec2 \subseteq Instance
    /\ libvirt \in [Stacks -> SUBSET LibvirtKind]
    /\ paused \subseteq Stacks
    /\ pulumi \subseteq Stacks
    /\ pc \in [Stacks -> Phase]
    /\ warned \subseteq Stacks

Init ==
    /\ dirs = {}
    /\ config = [s \in Stacks |-> NoConfig]
    /\ output = [s \in Stacks |-> NoOutput]
    /\ ec2 = {}
    /\ libvirt = [s \in Stacks |-> {}]
    /\ paused = {}
    /\ pulumi = {}
    /\ pc = [s \in Stacks |-> "idle"]
    /\ warned = {}

(***************************************************************************)
(* One entry of stack.output: the arch of an instance and its private IP, *)
(* which destroy_ec2_instances reads back.  The variant below is a        *)
(* mutant: a writer that records the IP alone.                             *)
(***************************************************************************)
StackOutputEntryIpOnly(i) == [ip |-> i.ip]
StackOutputEntry(i) == [arch |-> i.arch, ip |-> i.ip]

(***************************************************************************)
(* Where destroy_stack_force goes after deleting the first k libvirt      *)
(* kinds: on to the EC2 part once all five calls returned, else the       *)
(* command has raised.  The variant below is a mutant that logs a failed  *)
(* delete and carries on.                                                  *)
(***************************************************************************)
AfterLibvirtDeleteIgnoringErrors(k) == "force_ec2"
AfterLibvirtDelete(k) == IF k = Len(LibvirtOrder) THEN "force_ec2" ELSE "idle"

\* paused is a property of domains: deleting a stack's domains clears it.
PausedAfter(lv) == {t \in paused : "domain" \in lv[t]}

-----------------------------------------------------------------------------
(***************************************************************************)
(* create_stack: fails if the directory exists, else mkdir.               *)
(***************************************************************************)
CreateStack(s) ==
    /\ pc[s] = "idle"
    /\ s \notin dirs
    /\ dirs' = dirs \cup {s}
    /\ UNCHANGED <<config, output, ec2, libvirt, paused, pulumi, pc, warned>>

(***************************************************************************)
(* kmt.gen-config (vmconfig.py, outside stacks.py): writes the vmconfig   *)
(* of an existing stack.  It can merge into the file or, with --new,      *)
(* replace it, so any vmconfig may follow any other; stacks.py reads the  *)
(* file as it is at each command.                                          *)
(***************************************************************************)
GenConfig(s) ==
    /\ pc[s] = "idle"
    /\ s \in dirs
    /\ \E c \in Configs :
         /\ c # config[s]
         /\ config' = [config EXCEPT ![s] = c]
    /\ UNCHANGED <<dirs, output, ec2, libvirt, paused, pulumi, pc, warned>>

(***************************************************************************)
(* launch_stack: needs the stack and its vmconfig; local_vms_in_config    *)
(* must not raise; then start-microvms creates (or updates) the pulumi    *)
(* stack, one instance per remote arch that has none, with a free private *)
(* IP, and the libvirt resources of local VMs, and writes stack.output.   *)
(* If the run fails (ctx.run raises) it has created any part of that, and *)
(* stack.output is left as it was or unreadable.                          *)
(***************************************************************************)
LaunchStack(s) ==
    LET c == config[s] IN
    /\ pc[s] = "idle"
    /\ s \in dirs
    /\ c # NoConfig
    /\ \E local \in LocalVmsInConfig(c) \ {"raise"}, done \in BOOLEAN :
       LET missing == c.remote \ {i.arch : i \in InstancesOf(s)}
           lvMax   == IF local = "true" THEN Len(LibvirtOrder) ELSE 0
       IN
       \E M \in SUBSET missing, k \in 0..lvMax :
       \E ip \in [M -> IPs \ UsedIPs] :
          /\ IsInjective(ip)
          /\ done => M = missing /\ k = lvMax
          /\ ec2' = ec2 \cup {[stack |-> s, arch |-> a, ip |-> ip[a]] : a \in M}
          /\ libvirt' = [libvirt EXCEPT ![s] = @ \cup CreatedFirst(k)]
          /\ pulumi' = pulumi \cup {s}
          /\ IF done
               THEN output' = [output EXCEPT ![s] =
                                 {StackOutputEntry(i) :
                                     i \in {j \in ec2' : j.stack = s}}]
               ELSE output' \in {output, [output EXCEPT ![s] = Corrupt]}
    /\ UNCHANGED <<dirs, config, paused, pc, warned>>

(***************************************************************************)
(* destroy_stack with pulumi: destroy_stack_pulumi reads the vmconfig and *)
(* runs start-microvms --destroy, which destroys what the pulumi stack    *)
(* owns and removes it.  If it raises, part of it is destroyed and the    *)
(* command ends; otherwise destroy_stack goes on to remove the directory. *)
(***************************************************************************)
DestroyStackPulumi(s) ==
    /\ pc[s] = "idle"
    /\ s \in dirs
    /\ config[s] # NoConfig
    /\ \E done \in BOOLEAN, E \in SUBSET InstancesOf(s), L \in SUBSET libvirt[s] :
         /\ done => E = InstancesOf(s) /\ L = libvirt[s]
         /\ ec2' = ec2 \ E
         /\ libvirt' = [libvirt EXCEPT ![s] = @ \ L]
         /\ paused' = PausedAfter(libvirt')
         /\ pulumi' = IF done THEN pulumi \ {s} ELSE pulumi
         /\ pc' = [pc EXCEPT ![s] = IF done THEN "rmdir" ELSE "idle"]
    /\ UNCHANGED <<dirs, config, output, warned>>

(***************************************************************************)
(* destroy_stack_force, libvirt part.  If the vmconfig exists and has     *)
(* local VMs it deletes domains, volumes, pools, pool directories and     *)
(* networks in that order; a call that raises ends the command after the  *)
(* kinds before it were deleted.                                           *)
(***************************************************************************)
DestroyForceLibvirt(s) ==
    /\ pc[s] = "idle"
    /\ s \in dirs
    /\ \E local \in (IF config[s] = NoConfig THEN {"false"}
                     ELSE LocalVmsInConfig(config[s])) \ {"raise"} :
         \/ /\ local = "false"
            /\ pc' = [pc EXCEPT ![s] = "force_ec2"]
            /\ UNCHANGED <<libvirt, paused>>
         \/ /\ local = "true"
            /\ \E k \in 1..Len(LibvirtOrder) :
                 /\ libvirt' = [libvirt EXCEPT ![s] = @ \ DeletedFirst(k)]
                 /\ paused' = PausedAfter(libvirt')
                 /\ pc' = [pc EXCEPT ![s] = AfterLibvirtDelete(k)]
    /\ UNCHANGED <<dirs, config, output, ec2, pulumi, warned>>

\* The private IPs of the remote instances that stack.output records.
RecordedIPs(s) ==
    IF output[s] \in {NoOutput, Corrupt} THEN {} ELSE {r.ip : r \in output[s]}

(***************************************************************************)
(* ec2_instance_ids: describe-instances filtered on the recorded private  *)
(* IPs and the team tag (every kmt instance carries it).  The first       *)
(* variant is a mutant whose IP filter matches nothing, leaving the tag.  *)
(***************************************************************************)
InstanceIdsByTeamTag(s) == ec2
InstanceIds(s) == {i \in ec2 : i.ip \in RecordedIPs(s)}

(***************************************************************************)
(* destroy_ec2_instances.  No stack.output: return.  Unreadable: warn and *)
(* return.  Otherwise describe-instances by the recorded private IPs and  *)
(* the team tag; if that fails, tell the user the instances were not      *)
(* destroyed; if it finds instances, terminate them, telling the user to  *)
(* use the console if that fails.  The "more than two ids" Exit cannot    *)
(* happen here: a stack.output records at most one IP per arch and live   *)
(* private IPs are distinct.                                               *)
(***************************************************************************)
DestroyEc2Instances(s) ==
    LET out  == output[s]
        ips  == RecordedIPs(s)
        ids  == InstanceIds(s)
    IN
    /\ pc[s] = "force_ec2"
    /\ pc' = [pc EXCEPT ![s] = "force_pulumi"]
    /\ \/ /\ out # Corrupt
          /\ ids = {}
          /\ UNCHANGED <<ec2, warned>>
       \/ /\ out = Corrupt
          /\ warned' = warned \cup {s}
          /\ UNCHANGED ec2
       \/ /\ ips # {}
          /\ warned' = warned \cup {s}   \* describe or terminate failed
          /\ UNCHANGED ec2
       \/ /\ ids # {}
          /\ ec2' = ec2 \ ids
          /\ UNCHANGED warned
    /\ UNCHANGED <<dirs, config, output, libvirt, paused, pulumi>>

(***************************************************************************)
(* The pulumi part of destroy_stack_force: `pulumi stack ls -a | grep     *)
(* <stack> | cut -f1` gives the first listed stack whose line contains    *)
(* the name; `pulumi cancel` and `pulumi stack rm --force` are run on it  *)
(* with warn=True, so a failure goes unnoticed.                            *)
(***************************************************************************)
DestroyPulumiStack(s) ==
    LET matches == {t \in pulumi : <<s, t>> \in NameContains} IN
    /\ pc[s] = "force_pulumi"
    /\ pc' = [pc EXCEPT ![s] = "rmdir"]
    /\ \/ /\ matches = {}
          /\ UNCHANGED pulumi
       \/ \E t \in matches, removed \in BOOLEAN :
             pulumi' = IF removed THEN pulumi \ {t} ELSE pulumi
    /\ UNCHANGED <<dirs, config, output, ec2, libvirt, paused, warned>>

(***************************************************************************)
(* destroy_stack, last call: rm -r of the stack directory.                *)
(***************************************************************************)
RemoveStackDir(s) ==
    /\ pc[s] = "rmdir"
    /\ dirs' = dirs \ {s}
    /\ config' = [config EXCEPT ![s] = NoConfig]
    /\ output' = [output EXCEPT ![s] = NoOutput]
    /\ pc' = [pc EXCEPT ![s] = "idle"]
    /\ UNCHANGED <<ec2, libvirt, paused, pulumi, warned>>

(***************************************************************************)
(* A destroy command ends between two calls: Ctrl-C, or the next call     *)
(* raises before it changes anything.                                      *)
(***************************************************************************)
Abort(s) ==
    /\ pc[s] # "idle"
    /\ pc' = [pc EXCEPT ![s] = "idle"]
    /\ UNCHANGED <<dirs, config, output, ec2, libvirt, paused, pulumi, warned>>

(***************************************************************************)
(* pause_stack / resume_stack: suspend or resume the stack's domains;     *)
(* pause_domains finds them by stack name, so a stack without domains is  *)
(* left as it is.  The first variant is a mutant that marks the stack     *)
(* paused whether or not it has domains.                                   *)
(***************************************************************************)
PauseStackWithoutDomains(s) ==
    /\ pc[s] = "idle"
    /\ s \in dirs
    /\ paused' = paused \cup {s}
    /\ UNCHANGED <<dirs, config, output, ec2, libvirt, pulumi, pc, warned>>

PauseStack(s) ==
    /\ pc[s] = "idle"
    /\ s \in dirs
    /\ "domain" \in libvirt[s]
    /\ paused' = paused \cup {s}
    /\ UNCHANGED <<dirs, config, output, ec2, libvirt, pulumi, pc, warned>>

ResumeStack(s) ==
    /\ pc[s] = "idle"
    /\ s \in dirs
    /\ s \in paused
    /\ paused' = paused \ {s}
    /\ UNCHANGED <<dirs, config, output, ec2, libvirt, pulumi, pc, warned>>

(***************************************************************************)
(* Instances are launched with --shutdown-period 320: each terminates     *)
(* itself after that, and its private IP becomes free again.               *)
(***************************************************************************)
InstanceExpires(i) ==
    /\ ec2' = ec2 \ {i}
    /\ UNCHANGED <<dirs, config, output, libvirt, paused, pulumi, pc, warned>>

-----------------------------------------------------------------------------
Next ==
    \/ \E s \in Stacks :
         \/ CreateStack(s)
         \/ GenConfig(s)
         \/ LaunchStack(s)
         \/ DestroyStackPulumi(s)
         \/ DestroyForceLibvirt(s)
         \/ DestroyEc2Instances(s)
         \/ DestroyPulumiStack(s)
         \/ RemoveStackDir(s)
         \/ Abort(s)
         \/ PauseStack(s)
         \/ ResumeStack(s)
    \/ \E i \in ec2 : InstanceExpires(i)

Spec == Init /\ [][Next]_vars


-----------------------------------------------------------------------------
(***************************************************************************)
(* Libvirt resources never outlive their stack directory, so that         *)
(* `kmt.destroy-stack` can always be rerun on a stack that still has      *)
(* local VMs: destroy_stack removes the directory only after the libvirt  *)
(* resources were deleted (a failing delete raises Exit) or pulumi        *)
(* destroyed them.                                                         *)
(***************************************************************************)
LibvirtNotOrphaned == \A s \in Stacks : libvirt[s] # {} => s \in dirs

(***************************************************************************)
(* rm -r removes the directory of a stack that still has libvirt          *)
(* resources only when its vmconfig, as destroy_stack_force read it,      *)
(* declares no local VMs: on the force path all five libvirt deletes     *)
(* returned before the EC2 and pulumi parts and rm -r, and on the pulumi  *)
(* path start-microvms --destroy succeeded, whatever call failed or was   *)
(* interrupted in an earlier run of the command.                           *)
(***************************************************************************)
RemoveStackDirAfterLibvirtDeleted ==
    [][\A s \in Stacks :
          RemoveStackDir(s) =>
            \/ libvirt[s] = {}
            \/ config[s] = NoConfig
            \/ ~config[s].local]_vars

(***************************************************************************)
(* destroy_ec2_instances terminates only the instances of the stack being *)
(* destroyed (the "CAREFUL! More than two instance ids returned" check    *)
(* guards against terminating anyone else's).                              *)
(***************************************************************************)
TerminatesOwnInstancesOnly ==
    [][\A s \in Stacks :
          DestroyEc2Instances(s) => \A i \in ec2 \ ec2' : i.stack = s]_vars

(***************************************************************************)
(* An EC2 instance that outlives its stack directory was reported to the  *)
(* user ("Instances not destroyed. Use console ..."), as every failing    *)
(* path of destroy_ec2_instances intends.                                  *)
(***************************************************************************)
NoSilentInstanceLeak ==
    \A i \in ec2 : i.stack \in dirs \/ i.stack \in warned

(***************************************************************************)
(* The force path removes only the pulumi stack of the stack it destroys. *)
(***************************************************************************)
RemovesOwnPulumiStackOnly ==
    [][\A s \in Stacks :
          DestroyPulumiStack(s) => pulumi \ pulumi' \subseteq {s}]_vars

(***************************************************************************)
(* A pulumi stack is kept only while its stack directory exists: once     *)
(* destroy_stack has removed a directory, no kmt command finds the pulumi *)
(* stack (and what it still tracks) until a stack of the same name is     *)
(* created and destroyed again.                                            *)
(***************************************************************************)
PulumiStackNotOrphaned == \A t \in pulumi : t \in dirs

(***************************************************************************)
(* ec2_instance_ids never returns more instances than there are remote    *)
(* arches, whatever other stacks, expired instances and reused private    *)
(* IPs do: stack.output maps each arch to one instance and live private   *)
(* IPs are distinct.  With the two kmt arches, the "CAREFUL! More than    *)
(* two instance ids returned" Exit of destroy_ec2_instances is never      *)
(* raised.                                                                 *)
(***************************************************************************)
InstanceIdsWithinArchBound ==
    \A s \in Stacks : Cardinality(InstanceIds(s)) <= Cardinality(Arch)

(***************************************************************************)
(* The stack commands implement the lifecycle that KmtStackLifecycle      *)
(* promises: a stack holds VMs while it has libvirt resources, and its    *)
(* vmconfig declares local VMs while it has one with a local vmset.       *)
(* Every step of gen-config, launch, either destroy path, a failure or    *)
(* interruption, and pause and resume is a step of that lifecycle or      *)
(* leaves its state alone; in particular VMs are provisioned only for a   *)
(* stack whose vmconfig declares them, and the directory is removed only  *)
(* from a stack without VMs or whose vmconfig does not declare them.      *)
(***************************************************************************)
VmStacks == {t \in Stacks : libvirt[t] # {}}
LocalStacks == {t \in Stacks : config[t] # NoConfig /\ config[t].local}

Lifecycle == INSTANCE KmtStackLifecycle WITH vms <- VmStacks, local <- LocalStacks

LifecycleSpec == Lifecycle!Spec

=============================================================================
