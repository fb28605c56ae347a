-------------------------------- MODULE Plan --------------------------------
(***************************************************************************)
(* build_plan and build_compiler_target (src/src/plan.rs): the provision   *)
(* plan of one device, bound to the running Driver ABI and to the CPU.     *)
(*                                                                         *)
(* On top of what Resolve uses, a profile has                              *)
(*   hardware   some package is of driver or firmware scope                *)
(*   abi        at most one [minimum, maximum], texts                      *)
(*   compiler   at most one [architecture, allowed, required]              *)
(*   packages   the names of what is to be installed                       *)
(*   removals   the list of what a rollback removes                        *)
(* A loaded profile is [profile, keyId, sha256].                           *)
(***************************************************************************)
EXTENDS Integers

CONSTANT AbiOf    \* [text -> <<major, minor>>], where AbiVersion::from_str takes it

\* AbiVersion's derived order: major first.
AtMost(v, w) == v[1] < w[1] \/ (v[1] = w[1] /\ v[2] <= w[2])

InRange(version, abi) ==
  AtMost(AbiOf[abi.minimum], version) /\ AtMost(version, AbiOf[abi.maximum])
AbiSupported(profile, running) ==
  profile.hardware => \E abi \in profile.abi : InRange(AbiOf[running], abi)

CompilerSupported(profile, cpu) ==
  \A policy \in profile.compiler :
    policy.architecture = cpu.architecture /\ policy.required \subseteq cpu.features

\* Mutant: the plan carries what the profile allows.
AllAllowed(profile, cpu) == UNION {policy.allowed : policy \in profile.compiler}
TargetFeatures(profile, cpu) ==
  UNION {policy.allowed \cap cpu.features : policy \in profile.compiler}

BuildSucceeds(profile, cpu, running) ==
  /\ running \in DOMAIN AbiOf
  /\ AbiSupported(profile, running)
  /\ CompilerSupported(profile, cpu)

ProvisionPlan(verified, cpu, device, running) ==
  [device    |-> device.key,
   profileId |-> verified.profile.id,
   sha256    |-> verified.sha256,
   keyId     |-> verified.keyId,
   abi       |-> running,
   features  |-> TargetFeatures(verified.profile, cpu),
   packages  |-> verified.profile.packages,
   removals  |-> verified.profile.removals]
=============================================================================
