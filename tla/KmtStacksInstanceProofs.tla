---------------------- MODULE KmtStacksInstanceProofs ----------------------
(***************************************************************************)
(* Proof that ec2_instance_ids never returns more instances than there    *)
(* are remote arches (InstanceIdsWithinArchBound), for every set of       *)
(* stacks, arches, IPs and vmconfigs.                                      *)
(***************************************************************************)
EXTENDS KmtStacksProofs, FiniteSetTheorems

(***************************************************************************)
(* The inductive invariant.  Live private IPs are distinct (start-microvms *)
(* takes a free one for each new instance), a stack has at most one       *)
(* instance per arch (a launch creates only the missing ones), and         *)
(* stack.output records one instance per arch (it is written from the     *)
(* stack's instances once a launch succeeds).                              *)
(***************************************************************************)
IPsDistinct == \A i, j \in ec2 : i.ip = j.ip => i = j

OneInstancePerArch ==
    \A i, j \in ec2 : i.stack = j.stack /\ i.arch = j.arch => i = j

OutputOnePerArch ==
    \A s \in Stacks :
        output[s] \notin {NoOutput, Corrupt} =>
            \A r, q \in output[s] : r.arch = q.arch => r = q

IdsInv == TypeOK /\ IPsDistinct /\ OneInstancePerArch /\ OutputOnePerArch

LEMMA InitIdsInv == Init => IdsInv
BY InitTypeOK DEF Init, IdsInv, IPsDistinct, OneInstancePerArch, OutputOnePerArch

(***************************************************************************)
(* Every step but a launch only removes instances and leaves each         *)
(* stack.output as it was or removes it.                                   *)
(***************************************************************************)
LEMMA ShrinkIdsInv ==
    ASSUME IdsInv, TypeOK', ec2' \subseteq ec2,
           \A t \in Stacks : output'[t] = output[t] \/ output'[t] = NoOutput
    PROVE  IdsInv'
BY DEF IdsInv, IPsDistinct, OneInstancePerArch, OutputOnePerArch

LEMMA LaunchIdsInv ==
    ASSUME IdsInv, NEW s \in Stacks, LaunchStack(s)
    PROVE  IdsInv'
<1> DEFINE c == config[s]
<1>0. TypeOK /\ TypeOK'
  BY LaunchTypeOK DEF IdsInv
<1>1. c \in Config
  BY DEF LaunchStack, TypeOK, IdsInv
<1>2. PICK local \in LocalVmsInConfig(c) \ {"raise"}, done \in BOOLEAN :
        LET missing == c.remote \ {i.arch : i \in InstancesOf(s)}
            lvMax   == IF local = "true" THEN Len(LibvirtOrder) ELSE 0
        IN
        \E M \in SUBSET missing, k \in 0..lvMax :
        \E ip \in [M -> IPs \ UsedIPs] :
          /\ IsInjective(ip)
          /\ done => M = missing /\ k = lvMax
          /\ ec2' = ec2 \cup {[stack |-> s, arch |-> a, ip |-> ip[a]] : a \in M}
          /\ libvirt' = [libvirt EXCEPT ![s] = @ \cup CreatedFirst(k)]
          /\ pulumi' = pulumi \cup {s}
          /\ IF done
               THEN output' = [output EXCEPT ![s] =
                                 {StackOutputEntry(i) :
                                     i \in {j \in ec2' : j.stack = s}}]
               ELSE output' \in {output, [output EXCEPT ![s] = Corrupt]}
  BY DEF LaunchStack
<1> DEFINE missing == c.remote \ {i.arch : i \in InstancesOf(s)}
           lvMax   == IF local = "true" THEN Len(LibvirtOrder) ELSE 0
<1>3. PICK M \in SUBSET missing :
        \E k \in 0..lvMax :
        \E ip \in [M -> IPs \ UsedIPs] :
          /\ IsInjective(ip)
          /\ ec2' = ec2 \cup {[stack |-> s, arch |-> a, ip |-> ip[a]] : a \in M}
          /\ IF done
               THEN output' = [output EXCEPT ![s] =
                                 {StackOutputEntry(i) :
                                     i \in {j \in ec2' : j.stack = s}}]
               ELSE output' \in {output, [output EXCEPT ![s] = Corrupt]}
  BY <1>2
<1>4. PICK ip \in [M -> IPs \ UsedIPs] :
          /\ IsInjective(ip)
          /\ ec2' = ec2 \cup {[stack |-> s, arch |-> a, ip |-> ip[a]] : a \in M}
          /\ IF done
               THEN output' = [output EXCEPT ![s] =
                                 {StackOutputEntry(i) :
                                     i \in {j \in ec2' : j.stack = s}}]
               ELSE output' \in {output, [output EXCEPT ![s] = Corrupt]}
  BY <1>3
<1> DEFINE New == {[stack |-> s, arch |-> a, ip |-> ip[a]] : a \in M}
<1>5. \A n \in New : n.stack = s /\ n.arch \in M /\ n.ip = ip[n.arch]
  BY DEF New
<1>6. \A n \in New, i \in ec2 : n.ip # i.ip
  BY <1>4, <1>5 DEF UsedIPs
<1>7. \A n \in New, i \in ec2 : i.stack = s => n.arch # i.arch
  BY <1>5 DEF InstancesOf
<1>8. IPsDistinct'
  BY <1>4, <1>5, <1>6 DEF IPsDistinct, IdsInv, IsInjective
<1>9. OneInstancePerArch'
  BY <1>4, <1>5, <1>7 DEF OneInstancePerArch, IdsInv
<1>10. OutputOnePerArch'
  <2> SUFFICES ASSUME NEW t \in Stacks, output'[t] \notin {NoOutput, Corrupt},
                      NEW r \in output'[t], NEW q \in output'[t], r.arch = q.arch
               PROVE  r = q
    BY DEF OutputOnePerArch
  <2>1. CASE done /\ t = s
    <3>1. PICK i \in ec2' : i.stack = s /\ r = StackOutputEntry(i)
      BY <1>0, <1>4, <2>1 DEF TypeOK
    <3>2. PICK j \in ec2' : j.stack = s /\ q = StackOutputEntry(j)
      BY <1>0, <1>4, <2>1 DEF TypeOK
    <3>3. i.arch = j.arch
      BY <3>1, <3>2 DEF StackOutputEntry
    <3>. QED
      BY <1>9, <3>1, <3>2, <3>3 DEF OneInstancePerArch
  <2>2. CASE ~done \/ t # s
    <3>1. output'[t] = output[t]
      BY <1>0, <1>4, <2>2, SentinelAssumption DEF TypeOK
    <3>. QED
      BY <3>1 DEF IdsInv, OutputOnePerArch
  <2>. QED
    BY <2>1, <2>2
<1>. QED
  BY <1>0, <1>8, <1>9, <1>10 DEF IdsInv

LEMMA NextIdsInv == IdsInv /\ [Next]_vars => IdsInv'
<1> SUFFICES ASSUME IdsInv, [Next]_vars PROVE IdsInv'
  OBVIOUS
<1>0. TypeOK'
  BY NextTypeOK DEF IdsInv
<1>1. CASE \E s \in Stacks : LaunchStack(s)
  BY <1>1, LaunchIdsInv
<1>2. CASE \E s \in Stacks : RemoveStackDir(s)
  BY <1>0, <1>2, ShrinkIdsInv DEF RemoveStackDir, IdsInv, TypeOK
<1>3. CASE \E s \in Stacks : DestroyStackPulumi(s)
  BY <1>0, <1>3, ShrinkIdsInv DEF DestroyStackPulumi
<1>4. CASE \E s \in Stacks : DestroyEc2Instances(s)
  BY <1>0, <1>4, ShrinkIdsInv DEF DestroyEc2Instances
<1>5. CASE \E i \in ec2 : InstanceExpires(i)
  BY <1>0, <1>5, ShrinkIdsInv DEF InstanceExpires
<1>6. CASE \E s \in Stacks :
             \/ CreateStack(s) \/ GenConfig(s) \/ DestroyForceLibvirt(s)
             \/ DestroyPulumiStack(s) \/ Abort(s) \/ PauseStack(s)
             \/ ResumeStack(s)
  BY <1>0, <1>6, ShrinkIdsInv
     DEF CreateStack, GenConfig, DestroyForceLibvirt, DestroyPulumiStack,
         Abort, PauseStack, ResumeStack
<1>7. CASE UNCHANGED vars
  BY <1>0, <1>7, ShrinkIdsInv DEF vars
<1>. QED
  BY <1>1, <1>2, <1>3, <1>4, <1>5, <1>6, <1>7 DEF Next

(***************************************************************************)
(* The count: the found instances map injectively (by IP) into the       *)
(* recorded IPs, which are the image of the records, which map            *)
(* injectively (by arch) into Arch.                                        *)
(***************************************************************************)
LEMMA IdsInvBound == IdsInv => InstanceIdsWithinArchBound
<1> SUFFICES ASSUME IdsInv, NEW s \in Stacks
             PROVE  Cardinality(InstanceIds(s)) <= Cardinality(Arch)
  BY DEF InstanceIdsWithinArchBound
<1>0. IsFiniteSet(Arch) /\ Cardinality(Arch) \in Nat
  BY ArchAssumption, FS_CardinalityType
<1>1. CASE output[s] \in {NoOutput, Corrupt}
  <2>1. InstanceIds(s) = {}
    BY <1>1 DEF InstanceIds, RecordedIPs
  <2>. QED
    BY <1>0, <2>1, FS_EmptySet
<1>2. CASE output[s] \notin {NoOutput, Corrupt}
  <2> DEFINE out == output[s]
             ips == RecordedIPs(s)
             ids == InstanceIds(s)
  <2>1. out \subseteq Record /\ ids \subseteq Instance
    BY <1>2 DEF IdsInv, TypeOK, InstanceIds
  <2>2. ips = {r.ip : r \in out}
    BY <1>2 DEF RecordedIPs
  <2>3. [r \in out |-> r.arch] \in Injection(out, Arch)
    BY <1>2, <2>1 DEF IdsInv, OutputOnePerArch, Injection, IsInjective, Record
  <2>4. IsFiniteSet(out) /\ Cardinality(out) <= Cardinality(Arch)
    BY <1>0, <2>3, FS_Injection
  <2>5. [r \in out |-> r.ip] \in Surjection(out, ips)
    BY <2>2 DEF Surjection
  <2>6. IsFiniteSet(ips) /\ Cardinality(ips) <= Cardinality(out)
    BY <2>4, <2>5, FS_Surjection
  <2>7. [i \in ids |-> i.ip] \in Injection(ids, ips)
    BY DEF IdsInv, IPsDistinct, InstanceIds, Injection, IsInjective
  <2>8. IsFiniteSet(ids) /\ Cardinality(ids) <= Cardinality(ips)
    BY <2>6, <2>7, FS_Injection
  <2>9. Cardinality(ids) \in Nat /\ Cardinality(ips) \in Nat
          /\ Cardinality(out) \in Nat
    BY <2>4, <2>6, <2>8, FS_CardinalityType
  <2>. QED
    BY <1>0, <2>4, <2>6, <2>8, <2>9
<1>. QED
  BY <1>1, <1>2

(***************************************************************************)
(* ec2_instance_ids never returns more instances than there are remote    *)
(* arches, so the "More than two instance ids" Exit of                     *)
(* destroy_ec2_instances is unreachable with kmt's two arches.            *)
(***************************************************************************)
THEOREM InstanceIdsBounded == Spec => []InstanceIdsWithinArchBound
<1>1. Spec => []IdsInv
  BY InitIdsInv, NextIdsInv, PTL DEF Spec
<1>. QED
  BY <1>1, IdsInvBound, PTL

=============================================================================
