# TLA+ models of the datadog-agent developer tasks

This directory holds TLA+ models of the `invoke` tasks under `src/tasks/`. It has
TLC configurations that model-check them on small instances, and TLAPS proofs of
their main invariants for every instance.

## Inventory

| Part | Source | What it is | Status |
|---|---|---|---|
| KMT stack lifecycle | `src/tasks/kernel_matrix_testing/stacks.py` | Create, launch, pause, resume and destroy kernel-matrix-testing VM stacks. It drives pulumi (through `start-microvms`), EC2, libvirt and the stack directory. | modelled: `KmtStacks`, `KmtStackLifecycle`, `MCKmtStacks`, `KmtStacksProofs`, `KmtStacksRefinement` |
| Release train | `src/tasks/unit_tests/release_tests.py` (tests only) | `check_for_changes`, `tag_modules` (pushes in batches), `tag_version` and the qualification tags, highest repo version with rc ordering, `generate_repo_data`, `find_previous_tags` | not modelled (see below) |
| CWS backend doc generator | `src/tasks/libs/cws/backend_doc_gen.py` | Turns the CWS backend JSON schema into Markdown documentation | modelled: `CwsBackendDocGen`, `MCCwsBackendDocGen`, `CwsBackendDocGenProofs` |
| Windows JMX quality gate | `src/tasks/static_quality_gates/static_quality_gate_docker_agent_windows2022_jmx.py` | A 24-line entrypoint into the generic gate code | not modelled: nothing to explore |

### The KMT stack lifecycle

Each stack has a **stack directory** holding a vmconfig. Once launched, the
directory also holds a `stack.output` file. The directory is the only handle the
tools keep on what a launch created:

- a **pulumi stack** in the local backend;
- one **EC2 metal instance** per remote architecture, tagged `team:ebpf-platform`
  in the shared sandbox account, which terminates itself after
  `--shutdown-period 320`;
- the **libvirt resources** of the local VMs: domains, volumes, pools, pool
  directories and networks, found later by stack name.

There are two ways to destroy a stack:

- `destroy_stack --pulumi` runs `start-microvms --destroy`.
- The **force path** (`destroy_stack_force`) works through these steps in order:
  1. It deletes the libvirt resources kind by kind. This happens only if the
     vmconfig, as it is at destroy time, exists and has local VMs
     (`stacks.py:398`).
  2. It terminates the instances whose private IPs `stack.output` records.
  3. It finds the pulumi stack with `pulumi stack ls | grep <stack>` and removes
     it with `warn=True`.

Both paths end with `rm -r` of the directory. Any call may raise, and the user
may interrupt the command between calls. Commands on different stacks, from
different branches or different developers, run independently.

## The model: `KmtStacks.tla`

**State.**

| Variable | What it holds |
|---|---|
| `dirs` | the stacks whose directory exists |
| `config` | each stack's vmconfig, abstracted to three facts: whether it has local VMs, which remote arches it names, and whether some vmset lacks an `arch` |
| `output` | each stack's `stack.output`: its set of (arch, ip) records, `NoOutput` or `Corrupt` |
| `ec2` | the live instances (stack, arch, ip) |
| `libvirt` | the kinds of libvirt resource each stack has |
| `paused` | the stacks whose domains are paused |
| `pulumi` | the pulumi stacks that exist |
| `pc` | the step each stack's running command is at |
| `warned` | the stacks for which the user was told to clean up by hand |

**Actions.**

| Action | Code |
|---|---|
| `CreateStack` | `create_stack` |
| `GenConfig` | `kmt.gen-config` (`vmconfig.py`, not under `src/`): writes any vmconfig over any other, as its `--new` option does |
| `LaunchStack` | `launch_stack` with its `start-microvms` run. On failure, any part of what it creates may exist. `stack.output` is written only on success. |
| `DestroyStackPulumi` | the pulumi path. Partial on failure. |
| `DestroyForceLibvirt` | the libvirt deletions. `AfterLibvirtDelete` gives where the command goes when the k-th delete is the last to return. |
| `DestroyEc2Instances` | `destroy_ec2_instances` with `ec2_instance_ids`, every return path included |
| `DestroyPulumiStack` | the grep and the `warn=True` removal. `NameContains` says which names are substrings of which. |
| `RemoveStackDir` | the final `rm -r` |
| `Abort` | an exception or interruption between two calls |
| `PauseStack` and `ResumeStack` | `pause_stack` and `resume_stack` |
| `InstanceExpires` | the shutdown period |

The environment checks (`check_env`, the group and socket probes, the SSH key
checks) change nothing and fail before any side effect. A failure there is a
stuttering step, so they are left out.

**Assumptions** on what lies outside `src/`:

- the vmconfig can be rewritten, by gen-config or by hand, to any shape between
  two commands on the stack (`GenConfig` puts no restriction on it);
- pulumi creates libvirt resources in the reverse of the order the force path
  deletes them (`CreatedFirst`);
- a relaunch creates only the missing instances;
- private IPs of live instances are distinct, and a free IP can be handed to
  any stack.

## Runs

| Run | Config | Result | What it shows |
|---|---|---|---|
| `stacks_single` | `MCKmtStacks_single.cfg` | pass (240,946 states) | With 1 stack, 2 arches, 2 IPs and every vmconfig shape, rewritten at any time between commands, `TypeOK` and `RemoveStackDirAfterLibvirtDeleted` hold. `rm -r` removes the directory of a stack with libvirt resources only when its vmconfig declares no local VMs, whatever fails or is interrupted. Every behaviour is also a behaviour of the abstract lifecycle (`LifecycleSpec`). The mutant `AfterLibvirtDeleteIgnoringErrors` goes on after a failed libvirt delete and breaks the action property. |
| `stacks_libvirt_orphan` | `MCKmtStacks_LibvirtNotOrphaned.cfg` | violation | See below. |
| `stacks_instance_ids` | `MCKmtStacks_InstanceIds.cfg` | pass (40,185 states) | With 2 stacks sharing 1 arch and 2 IPs, `InstanceIdsWithinArchBound` holds. This instance lets instances expire and IPs pass from one stack to the other while a `stack.output` is stale. `ec2_instance_ids` never returns more instances than there are arches, so the "More than two instance ids" `Exit` (`stacks.py:368`) is unreachable. The mutant `InstanceIdsByTeamTag` describes instances by the team tag alone, and it breaks the property. |
| `stacks_stale_ip` | `MCKmtStacks_TerminatesOwnInstancesOnly.cfg` | violation | See below. |
| `stacks_silent_leak` | `MCKmtStacks_NoSilentInstanceLeak.cfg` | violation | See below. |
| `stacks_grep_pulumi` | `MCKmtStacks_RemovesOwnPulumiStackOnly.cfg` | violation | See below. |
| `stacks_pulumi_orphan` | `MCKmtStacks_PulumiStackNotOrphaned.cfg` | violation | See below. |

**`stacks_libvirt_orphan`**. s1 is created and given a vmconfig with local
VMs, then launched, which creates libvirt resources. The vmconfig is then
rewritten with remote VMs only. The force destroy reads it (`stacks.py:398`),
skips the libvirt deletes, and `rm -r` removes the directory. The libvirt
resources are left with no stack to destroy them by (`LibvirtNotOrphaned`).
This rests on the assumption that gen-config can drop local VMs from a
vmconfig.

**`stacks_stale_ip`**. s1's pulumi destroy fails after terminating s1's instance
but leaves `stack.output` in place. s2 launches and gets the same private IP.
s1's force destroy then terminates s2's instance.

**`stacks_silent_leak`**. A launch fails after creating an instance but before
writing `stack.output`. The force destroy returns without a warning and the
directory is removed, so the instance is leaked silently. It still terminates
itself after the shutdown period of 320 passed at launch.

**`stacks_grep_pulumi`**. s1's name is a substring of s2's. s1's force destroy
removes s2's pulumi stack.

**`stacks_pulumi_orphan`**. A force destroy runs `pulumi stack rm` with
`warn=True` (`stacks.py:429`) and does not read its result. When the removal
fails, the directory is still removed and nothing is reported, so the pulumi
stack is left with no kmt stack pointing at it (`PulumiStackNotOrphaned`).

The stale-IP, grep and pulumi-orphan runs use one arch and one IP, which is the
smallest instance where the problem appears. `stacks_libvirt_orphan` uses the
constants of `stacks_single`. `stacks_stale_ip` and `stacks_grep_pulumi` also use
two stacks.

**Why these bounds are enough.** One stack is enough for
`RemoveStackDirAfterLibvirtDeleted` and `LibvirtNotOrphaned`,
because no action on one stack touches another stack's libvirt resources or
directory. The proof below covers any number of stacks. Two arches let a partial
launch create some instances and not others. Every vmconfig shape covers all the
outcomes of `local_vms_in_config`: true, false, and raising on an archless vmset.

**Fairness.** No fairness is assumed. `ctx.run` has no timeout, so nothing the
code does guarantees that a destroy finishes, and no liveness property is
stated.

## The abstract lifecycle: `KmtStackLifecycle.tla`

This module states what the stack commands promise a developer about local
VMs, without EC2 or pulumi. Its state has four parts:

- `dirs`, the stacks with a directory;
- `local`, the stacks whose vmconfig declares local VMs;
- `vms`, the stacks holding local VM resources;
- `paused`, the paused stacks.

A directory is created and its vmconfig declares local VMs or not
(`Configure`). VMs are provisioned only for a stack whose vmconfig declares
them, then paused, unpaused and released. The directory is removed, with its
vmconfig, only from a stack that holds no VMs or whose vmconfig does not
declare them. In the second case the VMs are left behind: the abstract
specification says openly what `stacks_libvirt_orphan` shows.

`KmtStacks` maps onto it with `vms <- VmStacks`, the stacks with some libvirt
resource, and `local <- LocalStacks`, the stacks whose vmconfig has a local
vmset. `dirs` and `paused` map to themselves. The steps map as follows:

- gen-config is `Configure`;
- a launch is `Provision` or a stutter;
- a force libvirt delete or a pulumi destroy is `Release`, `Unpause` or a
  stutter, depending on what it deleted;
- every other step is a stutter or the action of the same name. `stacks_single` checks `LifecycleSpec` with TLC. The
mutant `PauseStackWithoutDomains` pauses a stack whose domains are gone, which
the abstract `Pause` forbids.

## Proofs: `KmtStacksProofs.tla`

Both theorems hold for every finite nonempty set of stacks, any arches and IPs,
and any set of vmconfigs, under the named `ASSUME`s of `KmtStacks`.

- **`TypeCorrect`** (`Spec => []TypeOK`). The proof has one lemma per nontrivial
  action, with the launch and the force libvirt delete split into steps.
- **`RemoveStackDirSafe`** (`Spec => RemoveStackDirAfterLibvirtDeleted`). The
  action property follows from the invariant `LibvirtInv`, which TLC checked on
  the `stacks_single` instance before it was proved. `LibvirtInv` says three
  things of each stack:
  1. Past the libvirt part of `destroy_stack` (the phases `force_ec2`,
     `force_pulumi` and `rmdir`), a stack whose vmconfig declares local VMs has
     no libvirt resources left. This holds because the vmconfig cannot change
     while a command runs on the stack, and because the force path leaves the
     libvirt part only once all five deletes have returned.
  2. A stack without a directory has no vmconfig.
  3. A running command has a directory.

  Parts 2 and 3 are what the refinement needs of `rm -r`. The theorem does not
  say that libvirt resources never outlive the directory; they can, and
  `stacks_libvirt_orphan` shows how.

  The step lemma has one case per action. The lemmas `LocalVmsFacts` and
  `LibvirtOrderFacts` do the reasoning about `local_vms_in_config` and the
  deletion order.

## Refinement proof: `KmtStacksRefinement.tla`

**`ImplementsLifecycle`** (`Spec => LifecycleSpec`) holds for every instance.
The initial state maps to the abstract initial state. Every step maps to an
abstract step or a stutter under the invariant `RefInv`. `RefInv` is
`LibvirtInv` together with `PausedHasDomain`: a paused stack still has its
domains. `PausedHasDomain` is needed for two reasons. The abstract `Pause`
requires the stack to hold VMs. And a step that deletes domains but keeps
other resources has to be an `Unpause`. Part 1 of `LibvirtInv` makes `rm -r` an
abstract `Remove`. The step lemma is split into these lemmas:

- `FrameStutters`, for the steps that leave the vmconfig and libvirt alone;
- `ShrinkRefines`, for the deletions;
- `LaunchRefines`, which needs `local_vms_in_config` to answer "true" only for
  a vmconfig with local VMs;
- `GenConfigRefines` and `RemoveStackDirRefines`;
- `NextRefines`.

The temporal conclusion is `PTL`.

## Instance-count proof: `KmtStacksInstanceProofs.tla`

**`InstanceIdsBounded`** (`Spec => []InstanceIdsWithinArchBound`) holds for every
instance. It adds one assumption, `ArchAssumption`: the set of arches is finite.
kmt has two, x86_64 and arm64, and with them the `len(instance_ids) > 2` check is
dead code.

The bound is not inductive: a step can only be shown to keep it by knowing how
IPs and records are laid out. The strengthening `IdsInv`, which TLC checked on
`stacks_single` and `stacks_instance_ids` before it was proved, adds three facts:

- `IPsDistinct`: live private IPs are distinct, because a launch takes a free
  one for each new instance;
- `OneInstancePerArch`: a stack has at most one instance per arch, because a
  launch creates only the missing ones;
- `OutputOnePerArch`: `stack.output` records one instance per arch, because it
  is written from the stack's instances.

Every step except a launch only removes instances, and leaves each
`stack.output` as it was or removes it (`ShrinkIdsInv`). The launch needs a
lemma of its own (`LaunchIdsInv`). The count in `IdsInvBound` is a chain of
three `FiniteSetTheorems` facts:

1. The found instances map injectively, by IP, into the recorded IPs.
2. The recorded IPs are the image of the records.
3. The records map injectively, by arch, into `Arch`.

## The CWS doc generator: `CwsBackendDocGen.tla`

`generate_backend_documentation` runs as a sequence of steps, one per loop
iteration. A program counter `pc` says where the generator is. The outer index
`di` walks the `$defs` entries and the inner index `pi` walks a definition's
fields. The lists the code builds are variables: `parameters`, `definitions`,
`references`, `seen` (`seen_ref_names`) and `descriptions`. `doc` is the
written file, or `Raise` for a `KeyError` or an `UnboundLocalError`.

| Action | Code |
|---|---|
| `Init` | the schema is loaded (`backend_doc_gen.py:53-60`) |
| `CollectParameters` | the parameters loop, then `definitions = []` and its sort (60-69); a property that raises ends the run |
| `BeginDefinition` | head of the `$defs` loop: the three lists reset (71-74) |
| `VisitField` | one field: its `$ref`, if not in `seen_ref_names`, added to both lists; its description, if any (75-82); a foreign `$ref` raises |
| `EndDefinition` | `definitions.append(SchemaDefinition(...))` (84) |
| `WriteDocumentation` | the template filled and written (86-94) |

The schema is abstracted to what the generator reads:

- properties, with a name, an optional `$ref` (of the `#/$defs/` form or not),
  an optional `type` and an optional description;
- `$defs` entries, with their properties in insertion order.

The `definitions.sort` call is `SortedByName`, a permutation of the list
ordered by name, applied where the code applies it. The loops are stepped,
rather than written as folds over the fields, so that what they build can be
proved by an invariant of the steps rather than by induction over the data
(see the proof below).

**Runs.**

| Run | Bounds | Result | What it shows |
|---|---|---|---|
| `docgen_reference` | every schema with one top-level property, up to two definitions and up to two fields each, field references of both forms (7,075,165 states) | pass | `DocMatchesReference`: each definition lists the definitions it references once each, in first-reference order, with its described fields. This is checked against a declarative reference. The mutant `IsNewReferenceUnchecked` drops the seen check and breaks it. |
| `docgen_sorted` | two definitions | violation | `DefinitionsSortedByName` fails: `definitions.sort` (`backend_doc_gen.py:69`) runs on the empty list, before the loop fills it. |
| `docgen_foreign_ref` | one top-level property | violation | `TypedSchemaDocumented` fails: a `$ref` not of the `#/$defs/` form leaves `name` unbound in `extract_ref_name_and_anchor` (`backend_doc_gen.py:50`). |

Two definitions with two fields are the smallest instance with a repeated
reference, two distinct references whose order matters, and an unsorted
`$defs`. The command ends once the file is written, so these runs do not check
for deadlock.

**Proof: `CwsBackendDocGenProofs.tla`.** **`DocMatchesReferenceHolds`**
(`Spec => []DocMatchesReference`) holds for schemas of any size: any number of
definitions, fields, names and types. The assumptions are `DefNamesAssumption`,
`SchemasAssumption` and `SentinelAssumption`.

`DocMatchesReference` speaks only of the written file, so it is not
inductive. The strengthening `DocInv`, which TLC checked on the
`docgen_reference` instance before it was proved, is the loop invariant of
both loops:

- at the head of the `$defs` loop, the first `di - 1` entries of `definitions`
  document the first `di - 1` definitions (`DefDocumented`);
- inside the fields loop, `seen` equals `references`, and the two lists
  document the first `pi - 1` fields (`FieldsDocumented(..., pi - 1)`);
- once the file is written, it holds the whole list, one entry per definition.

The work is in `FieldsStep`: one more field keeps `FieldsDocumented`. A new
reference is appended only when it is not yet in the list, so the list stays
injective (`InjectiveAppend`). No earlier field refers to it, so it stays in
first-reference order. The lemmas `RangeAppend`, `RefNamesStep` and
`DescNamesStep` describe the sets involved. `SortedEmpty` shows that the sort
of the empty list yields the empty list. The last step, `DocInvMatches`, uses
the distinct `$defs` keys to pair each entry with its definition by name. The
module uses neither `SequencesExt` nor TLC's `SortSeq`: the first reaches
`RECURSIVE` definitions and tlapm cannot unfold the second.

## What only TLC checks

Every property of a passing run is also a theorem: `TypeOK`,
`RemoveStackDirAfterLibvirtDeleted`, `LifecycleSpec`, `InstanceIdsWithinArchBound` and
`DocMatchesReference`. Only TLC checks:

- the seven violations;
- the mutants, which confirm that the checked properties react to plausible bugs
  (`StackOutputEntryIpOnly`, `AfterLibvirtDeleteIgnoringErrors`,
  `PauseStackWithoutDomains`, `InstanceIdsByTeamTag`, `IsNewReferenceUnchecked`);

TLAPS cannot prove liveness, `ENABLED` or facts about recursive definitions, so
those stay with TLC. No liveness property is stated (see below).

## Not modelled

- **The release train.** Only its unit tests are under `src/`; the task code
  (`tasks/release.py`, `tasks/libs/releasing/`) is not. The spec and the tests
  disagree on `check_for_changes`:
  - The spec compares the branch tip with the previous tag's commit. The tests
    compare it with the latest matching tag.
  - The spec auto-tags only the agent's own repository. The tests expect
    omnibus-ruby to be tagged.

  A model written from the spec would check the spec against itself, so it is
  left out.
- **The Windows JMX quality gate.** It is a 24-line entrypoint into gate code
  that is not under `src/`.
- **Two commands on the same stack at once** (`stacks.py:436`). The model runs
  one command per stack at a time.
- **Liveness.** `ctx.run` has no timeout (`stacks.py:278`), so no fairness is
  justified and no liveness property is stated.
- **The JSON text of the doc generator.** Its output layout, and the stale
  `"definitions"` exclusion in `presentable_top_node`, only affect the
  formatting of the output.
