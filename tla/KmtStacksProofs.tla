-------------------------- MODULE KmtStacksProofs --------------------------
(***************************************************************************)
(* Proofs about KmtStacks for every set of stacks, arches, IPs and        *)
(* vmconfigs: the type invariant, and that destroy_stack removes the      *)
(* directory of a stack with libvirt resources only when its vmconfig     *)
(* declares no local VMs.                                                  *)
(***************************************************************************)
EXTENDS KmtStacks, TLAPS

(***************************************************************************)
(* The order of the libvirt deletions, and what a prefix or suffix of it  *)
(* covers.                                                                 *)
(***************************************************************************)
LEMMA LibvirtOrderFacts ==
    /\ Len(LibvirtOrder) = 5
    /\ DeletedFirst(5) = LibvirtKind
    /\ CreatedFirst(0) = {}
    /\ \A k \in 0..5 : CreatedFirst(k) \subseteq LibvirtKind
    /\ \A k \in 0..5 : DeletedFirst(k) \subseteq LibvirtKind
    /\ \A k \in 0..5 : AfterLibvirtDelete(k) \in Phase
BY DEF LibvirtOrder, DeletedFirst, CreatedFirst, LibvirtKind,
       AfterLibvirtDelete, Phase

-----------------------------------------------------------------------------
(***************************************************************************)
(* Type correctness.                                                       *)
(***************************************************************************)
LEMMA InitTypeOK == Init => TypeOK
BY DEF Init, TypeOK, Phase

LEMMA LaunchTypeOK ==
    ASSUME TypeOK, NEW s \in Stacks, LaunchStack(s)
    PROVE  TypeOK'
<1> DEFINE c == config[s]
<1>1. c \in Config
  BY DEF LaunchStack, TypeOK
<1>2. PICK local \in LocalVmsInConfig(c) \ {"raise"}, done \in BOOLEAN :
        LET missing == c.remote \ {i.arch : i \in InstancesOf(s)}
            lvMax   == IF local = "true" THEN Len(LibvirtOrder) ELSE 0
        IN
        \E M \in SUBSET missing, k \in 0..lvMax :
        \E ip \in [M -> IPs \ UsedIPs] :
          /\ IsInjective(ip)
          /\ done => M = missing /\ k = lvMax
          /\ ec2' = ec2 \cup {[stack |-> s, arch |-> a, ip |-> ip[a]] : a \in M}
          /\ libvirt' = [libvirt EXCEPT ![s] = @ \cup CreatedFirst(k)]
          /\ pulumi' = pulumi \cup {s}
          /\ IF done
               THEN output' = [output EXCEPT ![s] =
                                 {StackOutputEntry(i) :
                                     i \in {j \in ec2' : j.stack = s}}]
               ELSE output' \in {output, [output EXCEPT ![s] = Corrupt]}
  BY DEF LaunchStack
<1> DEFINE missing == c.remote \ {i.arch : i \in InstancesOf(s)}
           lvMax   == IF local = "true" THEN Len(LibvirtOrder) ELSE 0
<1>3. PICK M \in SUBSET missing, k \in 0..lvMax :
        \E ip \in [M -> IPs \ UsedIPs] :
          /\ ec2' = ec2 \cup {[stack |-> s, arch |-> a, ip |-> ip[a]] : a \in M}
          /\ libvirt' = [libvirt EXCEPT ![s] = @ \cup CreatedFirst(k)]
          /\ pulumi' = pulumi \cup {s}
          /\ IF done
               THEN output' = [output EXCEPT ![s] =
                                 {StackOutputEntry(i) :
                                     i \in {j \in ec2' : j.stack = s}}]
               ELSE output' \in {output, [output EXCEPT ![s] = Corrupt]}
  BY <1>2
<1>4. PICK ip \in [M -> IPs \ UsedIPs] :
          /\ ec2' = ec2 \cup {[stack |-> s, arch |-> a, ip |-> ip[a]] : a \in M}
          /\ libvirt' = [libvirt EXCEPT ![s] = @ \cup CreatedFirst(k)]
          /\ pulumi' = pulumi \cup {s}
          /\ IF done
               THEN output' = [output EXCEPT ![s] =
                                 {StackOutputEntry(i) :
                                     i \in {j \in ec2' : j.stack = s}}]
               ELSE output' \in {output, [output EXCEPT ![s] = Corrupt]}
  BY <1>3
<1>5. M \subseteq Arch
  BY <1>1 DEF Config
<1>6. ec2' \subseteq Instance
  BY <1>4, <1>5 DEF TypeOK, Instance
<1>7. k \in 0..5
  BY LibvirtOrderFacts
<1>8. libvirt' \in [Stacks -> SUBSET LibvirtKind]
  BY <1>4, <1>7, LibvirtOrderFacts DEF TypeOK
<1>9. \A i \in Instance : StackOutputEntry(i) \in Record
  BY DEF StackOutputEntry, Instance, Record
<1>10. output' \in [Stacks -> (SUBSET Record) \cup {NoOutput, Corrupt}]
  BY <1>4, <1>6, <1>9 DEF TypeOK
<1>11. UNCHANGED <<dirs, config, paused, pc, warned>>
  BY DEF LaunchStack
<1>. QED
  BY <1>4, <1>6, <1>8, <1>10, <1>11 DEF TypeOK

LEMMA DestroyForceLibvirtTypeOK ==
    ASSUME TypeOK, NEW s \in Stacks, DestroyForceLibvirt(s)
    PROVE  TypeOK'
<1>1. PICK local \in (IF config[s] = NoConfig THEN {"false"}
                      ELSE LocalVmsInConfig(config[s])) \ {"raise"} :
         \/ /\ local = "false"
            /\ pc' = [pc EXCEPT ![s] = "force_ec2"]
            /\ UNCHANGED <<libvirt, paused>>
         \/ /\ local = "true"
            /\ \E k \in 1..Len(LibvirtOrder) :
                 /\ libvirt' = [libvirt EXCEPT ![s] = @ \ DeletedFirst(k)]
                 /\ paused' = PausedAfter(libvirt')
                 /\ pc' = [pc EXCEPT ![s] = AfterLibvirtDelete(k)]
  BY DEF DestroyForceLibvirt
<1>2. UNCHANGED <<dirs, config, output, ec2, pulumi, warned>>
  BY DEF DestroyForceLibvirt
<1>3. CASE local = "false" /\ pc' = [pc EXCEPT ![s] = "force_ec2"]
                           /\ UNCHANGED <<libvirt, paused>>
  BY <1>2, <1>3 DEF TypeOK, Phase
<1>4. CASE local = "true"
  <2>1. PICK k \in 1..Len(LibvirtOrder) :
                 /\ libvirt' = [libvirt EXCEPT ![s] = @ \ DeletedFirst(k)]
                 /\ paused' = PausedAfter(libvirt')
                 /\ pc' = [pc EXCEPT ![s] = AfterLibvirtDelete(k)]
    BY <1>1, <1>4
  <2>2. k \in 0..5
    BY LibvirtOrderFacts
  <2>. QED
    BY <1>2, <2>1, <2>2, LibvirtOrderFacts DEF TypeOK, PausedAfter
<1>. QED
  BY <1>1, <1>3, <1>4

LEMMA NextTypeOK == TypeOK /\ [Next]_vars => TypeOK'
<1> SUFFICES ASSUME TypeOK, [Next]_vars PROVE TypeOK'
  OBVIOUS
<1>1. CASE \E s \in Stacks : CreateStack(s)
  BY <1>1 DEF CreateStack, TypeOK
<1>2. CASE \E s \in Stacks : GenConfig(s)
  BY <1>2, ConfigsAssumption DEF GenConfig, TypeOK
<1>3. CASE \E s \in Stacks : LaunchStack(s)
  BY <1>3, LaunchTypeOK
<1>4. CASE \E s \in Stacks : DestroyStackPulumi(s)
  BY <1>4 DEF DestroyStackPulumi, TypeOK, InstancesOf, PausedAfter, Phase
<1>5. CASE \E s \in Stacks : DestroyForceLibvirt(s)
  BY <1>5, DestroyForceLibvirtTypeOK
<1>6. CASE \E s \in Stacks : DestroyEc2Instances(s)
  BY <1>6 DEF DestroyEc2Instances, TypeOK, Phase
<1>7. CASE \E s \in Stacks : DestroyPulumiStack(s)
  BY <1>7 DEF DestroyPulumiStack, TypeOK, Phase
<1>8. CASE \E s \in Stacks : RemoveStackDir(s)
  BY <1>8 DEF RemoveStackDir, TypeOK, Phase
<1>9. CASE \E s \in Stacks : Abort(s)
  BY <1>9 DEF Abort, TypeOK, Phase
<1>10. CASE \E s \in Stacks : PauseStack(s)
  BY <1>10 DEF PauseStack, TypeOK
<1>11. CASE \E s \in Stacks : ResumeStack(s)
  BY <1>11 DEF ResumeStack, TypeOK
<1>12. CASE \E i \in ec2 : InstanceExpires(i)
  BY <1>12 DEF InstanceExpires, TypeOK
<1>13. CASE UNCHANGED vars
  BY <1>13 DEF vars, TypeOK
<1>. QED
  BY <1>1, <1>2, <1>3, <1>4, <1>5, <1>6, <1>7, <1>8, <1>9, <1>10,
     <1>11, <1>12, <1>13 DEF Next

(***************************************************************************)
(* Every reachable state is well typed: the model's phases, vmconfigs,    *)
(* stack.output files, instances and libvirt resources keep their shapes  *)
(* through every stacks.py command, failure and interruption.             *)
(***************************************************************************)
THEOREM TypeCorrect == Spec => []TypeOK
BY InitTypeOK, NextTypeOK, PTL DEF Spec

-----------------------------------------------------------------------------
(***************************************************************************)
(* RemoveStackDirAfterLibvirtDeleted follows from an invariant of each    *)
(* stack: past the libvirt part of destroy_stack (phases force_ec2,       *)
(* force_pulumi and rmdir) a stack whose vmconfig declares local VMs has  *)
(* no libvirt resources left.  It holds because the vmconfig cannot       *)
(* change while a command runs on the stack, and the force path leaves    *)
(* the libvirt part only once all five deletes returned.  The two other   *)
(* conjuncts, a stack without directory has no vmconfig and a running     *)
(* command has a directory, are what the refinement proof needs of rm -r. *)
(***************************************************************************)
LibvirtOK(s) ==
    /\ s \notin dirs => config[s] = NoConfig
    /\ pc[s] # "idle" => s \in dirs
    /\ pc[s] \in {"force_ec2", "force_pulumi", "rmdir"} /\ s \in LocalStacks
         => libvirt[s] = {}

LibvirtInv == TypeOK /\ \A s \in Stacks : LibvirtOK(s)

\* local_vms_in_config answers "true" only for a vmconfig with local VMs,
\* and "false" only for one without.
LEMMA LocalVmsFacts ==
    ASSUME NEW c \in Config
    PROVE  /\ "true" \in LocalVmsInConfig(c) => c.local
           /\ "false" \in LocalVmsInConfig(c) => ~c.local
BY DEF LocalVmsInConfig, Config

LEMMA InitLibvirtInv == Init => LibvirtInv
BY InitTypeOK DEF Init, LibvirtInv, LibvirtOK

\* Steps that leave libvirt, dirs, config and pc of every stack alone.
LEMMA FrameLibvirtOK ==
    ASSUME LibvirtInv, UNCHANGED <<libvirt, dirs, config, pc>>
    PROVE  \A t \in Stacks : LibvirtOK(t)'
BY DEF LibvirtInv, LibvirtOK, LocalStacks

LEMMA GenConfigLibvirtOK ==
    ASSUME LibvirtInv, NEW s \in Stacks, GenConfig(s)
    PROVE  \A t \in Stacks : LibvirtOK(t)'
<1>1. PICK c \in Configs : config' = [config EXCEPT ![s] = c]
  BY DEF GenConfig
<1>2. c # NoConfig
  BY ConfigsAssumption
<1>3. pc[s] = "idle" /\ s \in dirs
  BY DEF GenConfig
<1>. QED
  BY <1>1, <1>2, <1>3 DEF GenConfig, LibvirtInv, LibvirtOK, TypeOK, LocalStacks

LEMMA LaunchLibvirtOK ==
    ASSUME LibvirtInv, NEW s \in Stacks, LaunchStack(s)
    PROVE  \A t \in Stacks : LibvirtOK(t)'
<1>1. PICK local \in LocalVmsInConfig(config[s]) \ {"raise"}, done \in BOOLEAN :
        LET lvMax == IF local = "true" THEN Len(LibvirtOrder) ELSE 0 IN
        \E k \in 0..lvMax :
          libvirt' = [libvirt EXCEPT ![s] = @ \cup CreatedFirst(k)]
  BY DEF LaunchStack
<1>2. PICK k \in 0..(IF local = "true" THEN Len(LibvirtOrder) ELSE 0) :
        libvirt' = [libvirt EXCEPT ![s] = @ \cup CreatedFirst(k)]
  BY <1>1
<1>3. pc[s] = "idle" /\ UNCHANGED <<dirs, config, pc>>
  BY DEF LaunchStack
<1>. QED
  BY <1>2, <1>3 DEF LibvirtInv, LibvirtOK, TypeOK, LocalStacks

LEMMA DestroyStackPulumiLibvirtOK ==
    ASSUME LibvirtInv, NEW s \in Stacks, DestroyStackPulumi(s)
    PROVE  \A t \in Stacks : LibvirtOK(t)'
<1>1. PICK done \in BOOLEAN, L \in SUBSET libvirt[s] :
         /\ done => L = libvirt[s]
         /\ libvirt' = [libvirt EXCEPT ![s] = @ \ L]
         /\ pc' = [pc EXCEPT ![s] = IF done THEN "rmdir" ELSE "idle"]
  BY DEF DestroyStackPulumi
<1>. QED
  BY <1>1 DEF DestroyStackPulumi, LibvirtInv, LibvirtOK, TypeOK, LocalStacks

LEMMA DestroyForceLibvirtLibvirtOK ==
    ASSUME LibvirtInv, NEW s \in Stacks, DestroyForceLibvirt(s)
    PROVE  \A t \in Stacks : LibvirtOK(t)'
<1>1. PICK local \in (IF config[s] = NoConfig THEN {"false"}
                      ELSE LocalVmsInConfig(config[s])) \ {"raise"} :
         \/ /\ local = "false"
            /\ pc' = [pc EXCEPT ![s] = "force_ec2"]
            /\ UNCHANGED <<libvirt, paused>>
         \/ /\ local = "true"
            /\ \E k \in 1..Len(LibvirtOrder) :
                 /\ libvirt' = [libvirt EXCEPT ![s] = @ \ DeletedFirst(k)]
                 /\ paused' = PausedAfter(libvirt')
                 /\ pc' = [pc EXCEPT ![s] = AfterLibvirtDelete(k)]
  BY DEF DestroyForceLibvirt
<1>2. UNCHANGED <<dirs, config>> /\ s \in dirs
  BY DEF DestroyForceLibvirt
<1>3. CASE local = "false" /\ pc' = [pc EXCEPT ![s] = "force_ec2"]
                           /\ UNCHANGED <<libvirt, paused>>
  <2>1. s \notin LocalStacks
    BY <1>1, <1>3, LocalVmsFacts DEF LibvirtInv, TypeOK, LocalStacks
  <2>. QED
    BY <1>2, <1>3, <2>1 DEF LibvirtInv, LibvirtOK, TypeOK, LocalStacks
<1>4. CASE local = "true"
  <2>1. PICK k \in 1..Len(LibvirtOrder) :
                 /\ libvirt' = [libvirt EXCEPT ![s] = @ \ DeletedFirst(k)]
                 /\ pc' = [pc EXCEPT ![s] = AfterLibvirtDelete(k)]
    BY <1>1, <1>4
  <2>2. AfterLibvirtDelete(k) \in {"force_ec2", "force_pulumi", "rmdir"}
          => libvirt[s] \ DeletedFirst(k) = {}
    BY <2>1, LibvirtOrderFacts DEF AfterLibvirtDelete, LibvirtInv, TypeOK
  <2>. QED
    BY <1>2, <2>1, <2>2 DEF LibvirtInv, LibvirtOK, TypeOK, LocalStacks
<1>. QED
  BY <1>1, <1>3, <1>4

LEMMA NextLibvirtInv == LibvirtInv /\ [Next]_vars => LibvirtInv'
<1> SUFFICES ASSUME LibvirtInv, [Next]_vars PROVE LibvirtInv'
  OBVIOUS
<1>0. TypeOK'
  BY NextTypeOK DEF LibvirtInv
<1> SUFFICES \A t \in Stacks : LibvirtOK(t)'
  BY <1>0 DEF LibvirtInv
<1>1. CASE \E s \in Stacks : CreateStack(s)
  BY <1>1 DEF CreateStack, LibvirtInv, LibvirtOK, LocalStacks
<1>2. CASE \E s \in Stacks : GenConfig(s)
  BY <1>2, GenConfigLibvirtOK
<1>3. CASE \E s \in Stacks : LaunchStack(s)
  BY <1>3, LaunchLibvirtOK
<1>4. CASE \E s \in Stacks : DestroyStackPulumi(s)
  BY <1>4, DestroyStackPulumiLibvirtOK
<1>5. CASE \E s \in Stacks : DestroyForceLibvirt(s)
  BY <1>5, DestroyForceLibvirtLibvirtOK
<1>6. CASE \E s \in Stacks : DestroyEc2Instances(s)
  BY <1>6 DEF DestroyEc2Instances, LibvirtInv, LibvirtOK, TypeOK, LocalStacks
<1>7. CASE \E s \in Stacks : DestroyPulumiStack(s)
  BY <1>7 DEF DestroyPulumiStack, LibvirtInv, LibvirtOK, TypeOK, LocalStacks
<1>8. CASE \E s \in Stacks : RemoveStackDir(s)
  BY <1>8 DEF RemoveStackDir, LibvirtInv, LibvirtOK, TypeOK, LocalStacks
<1>9. CASE \E s \in Stacks : Abort(s)
  BY <1>9 DEF Abort, LibvirtInv, LibvirtOK, TypeOK, LocalStacks
<1>10. CASE \E s \in Stacks : PauseStack(s) \/ ResumeStack(s)
  BY <1>10, FrameLibvirtOK DEF PauseStack, ResumeStack
<1>11. CASE \E i \in ec2 : InstanceExpires(i)
  BY <1>11, FrameLibvirtOK DEF InstanceExpires
<1>12. CASE UNCHANGED vars
  BY <1>12, FrameLibvirtOK DEF vars
<1>. QED
  BY <1>1, <1>2, <1>3, <1>4, <1>5, <1>6, <1>7, <1>8, <1>9, <1>10,
     <1>11, <1>12 DEF Next

(***************************************************************************)
(* For every number of stacks, arches, IPs and vmconfigs, rm -r in        *)
(* destroy_stack removes the directory of a stack that still has libvirt  *)
(* resources only when its vmconfig declares no local VMs: both destroy   *)
(* paths delete them first, whatever call failed or was interrupted in    *)
(* an earlier run.  (A vmconfig rewritten without local VMs after a       *)
(* launch does leave them behind; run stacks_libvirt_orphan.)             *)
(***************************************************************************)
THEOREM RemoveStackDirSafe == Spec => RemoveStackDirAfterLibvirtDeleted
<1>1. LibvirtInv =>
        \A s \in Stacks :
          RemoveStackDir(s) =>
            \/ libvirt[s] = {}
            \/ config[s] = NoConfig
            \/ ~config[s].local
  BY DEF LibvirtInv, LibvirtOK, RemoveStackDir, LocalStacks, TypeOK
<1>2. Spec => []LibvirtInv
  BY InitLibvirtInv, NextLibvirtInv, PTL DEF Spec
<1>. QED
  BY <1>1, <1>2, PTL DEF RemoveStackDirAfterLibvirtDeleted

=============================================================================
