------------------------ MODULE KmtStacksRefinement ------------------------
(***************************************************************************)
(* Proof that KmtStacks implements KmtStackLifecycle under the mapping     *)
(* vms <- VmStacks (the stacks that have libvirt resources), local <-     *)
(* LocalStacks (the stacks whose vmconfig has a local vmset), dirs and    *)
(* paused mapped to themselves.                                            *)
(***************************************************************************)
EXTENDS KmtStacksProofs

(***************************************************************************)
(* The refinement needs, besides LibvirtInv, that a paused stack still    *)
(* has its domains: pause_stack only suspends existing domains, and       *)
(* deleting the domains (PausedAfter) ends the pause.                      *)
(***************************************************************************)
PausedHasDomain == \A t \in paused : "domain" \in libvirt[t]

RefInv == LibvirtInv /\ PausedHasDomain

LEMMA InitRefInv == Init => RefInv
BY InitLibvirtInv DEF Init, RefInv, PausedHasDomain

\* A step that deletes some of one stack's libvirt resources and drops the
\* stacks left without domains from paused.
LEMMA ShrinkPausedHasDomain ==
    ASSUME PausedHasDomain, NEW s \in Stacks, NEW X,
           libvirt' = [libvirt EXCEPT ![s] = @ \ X],
           paused' = PausedAfter(libvirt')
    PROVE  PausedHasDomain'
BY DEF PausedHasDomain, PausedAfter

LEMMA NextPausedHasDomain ==
    ASSUME TypeOK, PausedHasDomain, [Next]_vars
    PROVE  PausedHasDomain'
<1>1. CASE \E s \in Stacks : LaunchStack(s)
  BY <1>1 DEF LaunchStack, PausedHasDomain, TypeOK
<1>2. CASE \E s \in Stacks : DestroyStackPulumi(s)
  BY <1>2, ShrinkPausedHasDomain DEF DestroyStackPulumi
<1>3. CASE \E s \in Stacks : DestroyForceLibvirt(s)
  BY <1>3, ShrinkPausedHasDomain DEF DestroyForceLibvirt, PausedHasDomain
<1>4. CASE \E s \in Stacks : PauseStack(s)
  BY <1>4 DEF PauseStack, PausedHasDomain
<1>5. CASE \E s \in Stacks : ResumeStack(s)
  BY <1>5 DEF ResumeStack, PausedHasDomain
<1>6. CASE \/ \E s \in Stacks : \/ CreateStack(s) \/ GenConfig(s)
                                 \/ DestroyEc2Instances(s)
                                 \/ DestroyPulumiStack(s)
                                 \/ RemoveStackDir(s) \/ Abort(s)
           \/ \E i \in ec2 : InstanceExpires(i)
           \/ UNCHANGED vars
  BY <1>6 DEF CreateStack, GenConfig, DestroyEc2Instances, DestroyPulumiStack,
              RemoveStackDir, Abort, InstanceExpires, vars, PausedHasDomain
<1>. QED
  BY <1>1, <1>2, <1>3, <1>4, <1>5, <1>6 DEF Next

LEMMA NextRefInv == RefInv /\ [Next]_vars => RefInv'
BY NextLibvirtInv, NextPausedHasDomain DEF RefInv, LibvirtInv

-----------------------------------------------------------------------------
(***************************************************************************)
(* The steps of KmtStacks mapped to steps of the lifecycle.                *)
(***************************************************************************)
AbsNext == [Lifecycle!Next]_Lifecycle!absVars

\* Steps that leave directories, vmconfigs, libvirt resources and pauses
\* alone.
LEMMA FrameStutters ==
    ASSUME UNCHANGED <<dirs, config, libvirt, paused>>
    PROVE  AbsNext
BY DEF AbsNext, Lifecycle!absVars, VmStacks, LocalStacks

\* Deleting some of one stack's libvirt resources is a release, an
\* unpause, or invisible.
LEMMA ShrinkRefines ==
    ASSUME RefInv, NEW s \in Stacks, NEW X,
           libvirt' = [libvirt EXCEPT ![s] = @ \ X],
           paused' = PausedAfter(libvirt'),
           UNCHANGED <<dirs, config>>
    PROVE  AbsNext
<1> USE DEF AbsNext, Lifecycle!absVars
<1>0. LocalStacks' = LocalStacks
  BY DEF LocalStacks
<1>1. \A t \in Stacks \ {s} : libvirt'[t] = libvirt[t]
  BY DEF RefInv, LibvirtInv, TypeOK
<1>3. paused' \in {paused, paused \ {s}}
  BY <1>1 DEF PausedAfter, RefInv, PausedHasDomain, TypeOK, LibvirtInv
<1>4. CASE libvirt'[s] = {} /\ s \in VmStacks
  <2>1. VmStacks' = VmStacks \ {s}
    BY <1>1, <1>4 DEF VmStacks, RefInv, LibvirtInv, TypeOK
  <2>2. paused' = paused \ {s}
    BY <1>3, <1>4 DEF PausedAfter
  <2>. QED
    BY <1>0, <1>4, <2>1, <2>2 DEF Lifecycle!Next, Lifecycle!Release
<1>5. CASE libvirt'[s] = {} /\ s \notin VmStacks
  <2>1. s \notin paused
    BY <1>5 DEF VmStacks, RefInv, PausedHasDomain
  <2>2. libvirt[s] = {}
    BY <1>5 DEF VmStacks
  <2>3. \A t \in Stacks : (libvirt'[t] # {}) <=> (libvirt[t] # {})
    BY <1>1, <1>5, <2>2
  <2>4. VmStacks' = VmStacks
    BY <2>3 DEF VmStacks
  <2>5. paused' = paused
    BY <1>3, <2>1
  <2>. QED
    BY <1>0, <2>4, <2>5
<1>6. CASE libvirt'[s] # {}
  <2>1. VmStacks' = VmStacks
    BY <1>1, <1>6 DEF VmStacks, RefInv, LibvirtInv, TypeOK
  <2>2. CASE paused' = paused
    BY <1>0, <2>1, <2>2
  <2>3. CASE paused' = paused \ {s} /\ s \in paused
    BY <1>0, <2>1, <2>3 DEF Lifecycle!Next, Lifecycle!Unpause
  <2>. QED
    BY <1>3, <2>2, <2>3
<1>. QED
  BY <1>4, <1>5, <1>6

\* Launch provisions VMs only from a vmconfig that declares them.
LEMMA LaunchRefines ==
    ASSUME RefInv, NEW s \in Stacks, LaunchStack(s)
    PROVE  AbsNext
<1> USE DEF AbsNext, Lifecycle!absVars
<1>0. PICK answer \in LocalVmsInConfig(config[s]) \ {"raise"} :
        \E k \in 0..(IF answer = "true" THEN Len(LibvirtOrder) ELSE 0) :
          libvirt' = [libvirt EXCEPT ![s] = @ \cup CreatedFirst(k)]
  <2>1. PICK local \in LocalVmsInConfig(config[s]) \ {"raise"}, done \in BOOLEAN :
          LET missing == config[s].remote \ {i.arch : i \in InstancesOf(s)}
              lvMax   == IF local = "true" THEN Len(LibvirtOrder) ELSE 0
          IN
          \E M \in SUBSET missing, kk \in 0..lvMax :
          \E ip \in [M -> IPs \ UsedIPs] :
            libvirt' = [libvirt EXCEPT ![s] = @ \cup CreatedFirst(kk)]
    BY DEF LaunchStack
  <2>. QED  BY <2>1
<1>1. PICK k \in 0..(IF answer = "true" THEN Len(LibvirtOrder) ELSE 0) :
        libvirt' = [libvirt EXCEPT ![s] = @ \cup CreatedFirst(k)]
  BY <1>0
<1>2. UNCHANGED <<dirs, config, paused>> /\ s \in dirs /\ config[s] \in Config
  BY DEF LaunchStack, RefInv, LibvirtInv, TypeOK
<1>3. LocalStacks' = LocalStacks
  BY <1>2 DEF LocalStacks
<1>4. CASE CreatedFirst(k) = {}
  <2>1. libvirt' = libvirt
    BY <1>1, <1>4 DEF RefInv, LibvirtInv, TypeOK
  <2>. QED
    BY <1>2, <2>1, FrameStutters
<1>5. CASE CreatedFirst(k) # {}
  <2>1. answer = "true"
    BY <1>1, <1>5, LibvirtOrderFacts
  <2>2. config[s].local
    BY <1>0, <1>2, <2>1, LocalVmsFacts
  <2>3. config[s] # NoConfig
    BY <1>2, ConfigsAssumption
  <2>4. s \in LocalStacks
    BY <2>2, <2>3 DEF LocalStacks
  <2>5. k \in 0..5
    BY <1>1, LibvirtOrderFacts
  <2>6. VmStacks' = VmStacks \cup {s}
    BY <1>1, <1>5, <2>5, LibvirtOrderFacts DEF VmStacks, RefInv, LibvirtInv, TypeOK
  <2>. QED
    BY <1>2, <1>3, <2>4, <2>6 DEF Lifecycle!Next, Lifecycle!Provision
<1>. QED
  BY <1>4, <1>5

\* gen-config (re)declares or drops the stack's local VMs.
LEMMA GenConfigRefines ==
    ASSUME RefInv, NEW s \in Stacks, GenConfig(s)
    PROVE  AbsNext
<1> USE DEF AbsNext, Lifecycle!absVars
<1>1. PICK c \in Configs : config' = [config EXCEPT ![s] = c]
  BY DEF GenConfig
<1>2. c \in Config
  BY ConfigsAssumption
<1>3. UNCHANGED <<dirs, libvirt, paused>> /\ s \in dirs
  BY DEF GenConfig
<1>4. LocalStacks' = IF c.local THEN LocalStacks \cup {s} ELSE LocalStacks \ {s}
  BY <1>1, <1>2, ConfigsAssumption DEF LocalStacks, RefInv, LibvirtInv, TypeOK
<1>5. VmStacks' = VmStacks
  BY <1>3 DEF VmStacks
<1>. QED
  BY <1>3, <1>4, <1>5 DEF Lifecycle!Next, Lifecycle!Configure

\* rm -r removes a directory, with its vmconfig, from a stack without VMs
\* or whose vmconfig does not declare them.
LEMMA RemoveStackDirRefines ==
    ASSUME RefInv, NEW s \in Stacks, RemoveStackDir(s)
    PROVE  AbsNext
<1> USE DEF AbsNext, Lifecycle!absVars
<1>1. /\ s \in dirs
      /\ s \notin VmStacks \/ s \notin LocalStacks
  BY DEF RemoveStackDir, RefInv, LibvirtInv, LibvirtOK, VmStacks
<1>2. LocalStacks' = LocalStacks \ {s}
  BY DEF RemoveStackDir, LocalStacks, RefInv, LibvirtInv, TypeOK
<1>3. VmStacks' = VmStacks /\ UNCHANGED paused /\ dirs' = dirs \ {s}
  BY DEF RemoveStackDir, VmStacks
<1>. QED
  BY <1>1, <1>2, <1>3 DEF Lifecycle!Next, Lifecycle!Remove

LEMMA NextRefines == RefInv /\ [Next]_vars => AbsNext
<1> SUFFICES ASSUME RefInv, [Next]_vars PROVE AbsNext
  OBVIOUS
<1> USE DEF AbsNext, Lifecycle!absVars
<1>1. CASE \E s \in Stacks : CreateStack(s)
  BY <1>1 DEF CreateStack, VmStacks, LocalStacks, Lifecycle!Next, Lifecycle!Create
<1>2. CASE \E s \in Stacks : LaunchStack(s)
  BY <1>2, LaunchRefines
<1>3. CASE \E s \in Stacks : DestroyStackPulumi(s)
  <2>1. PICK s \in Stacks : DestroyStackPulumi(s)
    BY <1>3
  <2>2. PICK L \in SUBSET libvirt[s] :
           /\ libvirt' = [libvirt EXCEPT ![s] = @ \ L]
           /\ paused' = PausedAfter(libvirt')
           /\ UNCHANGED <<dirs, config>>
    BY <2>1 DEF DestroyStackPulumi
  <2>. QED
    BY <2>2, ShrinkRefines
<1>4. CASE \E s \in Stacks : DestroyForceLibvirt(s)
  <2>1. PICK s \in Stacks : DestroyForceLibvirt(s)
    BY <1>4
  <2>2. CASE UNCHANGED <<libvirt, paused>>
    BY <2>1, <2>2, FrameStutters DEF DestroyForceLibvirt
  <2>3. CASE \E k \in 1..Len(LibvirtOrder) :
                 /\ libvirt' = [libvirt EXCEPT ![s] = @ \ DeletedFirst(k)]
                 /\ paused' = PausedAfter(libvirt')
    BY <2>1, <2>3, ShrinkRefines DEF DestroyForceLibvirt
  <2>. QED
    BY <2>1, <2>2, <2>3 DEF DestroyForceLibvirt
<1>5. CASE \E s \in Stacks : RemoveStackDir(s)
  BY <1>5, RemoveStackDirRefines
<1>6. CASE \E s \in Stacks : PauseStack(s)
  BY <1>6 DEF PauseStack, VmStacks, LocalStacks, Lifecycle!Next, Lifecycle!Pause
<1>7. CASE \E s \in Stacks : ResumeStack(s)
  BY <1>7 DEF ResumeStack, VmStacks, LocalStacks, Lifecycle!Next, Lifecycle!Unpause
<1>8. CASE \E s \in Stacks : GenConfig(s)
  BY <1>8, GenConfigRefines
<1>9. CASE \/ \E s \in Stacks : \/ DestroyEc2Instances(s)
                                 \/ DestroyPulumiStack(s) \/ Abort(s)
           \/ \E i \in ec2 : InstanceExpires(i)
           \/ UNCHANGED vars
  BY <1>9, FrameStutters DEF DestroyEc2Instances, DestroyPulumiStack,
                             Abort, InstanceExpires, vars
<1>. QED
  BY <1>1, <1>2, <1>3, <1>4, <1>5, <1>6, <1>7, <1>8, <1>9 DEF Next

(***************************************************************************)
(* For every set of stacks, arches, IPs and vmconfigs, the kmt stack      *)
(* commands implement the lifecycle KmtStackLifecycle promises: launch    *)
(* provisions VMs only for a stack with a directory and a vmconfig that   *)
(* declares local VMs, the destroy paths and their failures only release  *)
(* VMs or end a pause, pause needs VMs, and destroy_stack removes a       *)
(* directory only from a stack without VMs or whose vmconfig, rewritten   *)
(* since the launch, no longer declares them.                              *)
(***************************************************************************)
THEOREM ImplementsLifecycle == Spec => LifecycleSpec
<1>1. Init => Lifecycle!Init
  BY DEF Init, Lifecycle!Init, VmStacks, LocalStacks
<1>2. Spec => []RefInv
  BY InitRefInv, NextRefInv, PTL DEF Spec
<1>3. RefInv /\ [Next]_vars => AbsNext
  BY NextRefines
<1>. QED
  BY <1>1, <1>2, <1>3, PTL DEF Spec, LifecycleSpec, Lifecycle!Spec, AbsNext

=============================================================================
