---------------------------- MODULE PlanCommand ----------------------------
(***************************************************************************)
(* `arach-hwd plan` (plan_command, src/src/main.rs): scan, verify the      *)
(* catalog, load the keyring, load the profiles, plan every device, check  *)
(* the coverage, write the plan.  The catalog is a directory that others   *)
(* may edit while the command runs, and the command is run again with the  *)
(* same output file.  `profiles` and `plans` are lists with gaps: functions *)
(* from the positions of the sorted paths, and of the devices.             *)
(*                                                                         *)
(* verify_catalog reads many files; it is one step here, because an edit   *)
(* of a file it has read is an edit after it and an edit of a file it has  *)
(* not read is an edit before it.  So is load_profiles.  An I/O error of   *)
(* these steps ends the command as Kill does.                              *)
(***************************************************************************)
EXTENDS Catalog, Profile, Preflight

CONSTANTS
  Trees,         \* catalogs the command may start from
  Edits,         \* <<file, content>> others may write; NoFile removes the file
  NoFile,
  SortedPaths,   \* ProfilePath in the order of the paths
  Inventories,   \* what a scan may find: [cpu, dmi, devices], keys distinct
  Options,       \* [driverAbi, requireTargets, toFile]; driverAbi is a text
  MaxRuns, MaxEdits    \* bounds

ASSUME TreeAssumption ==
  /\ Symlink \notin Bytes /\ NoFile \notin Bytes
  /\ \A t \in Trees : \A f \in DOMAIN t : t[f] \in Bytes \cup {Symlink}
  /\ \A e \in Edits : e[2] \in Bytes \cup {Symlink, NoFile}
  /\ \A p \in ProfilePath : \E i \in DOMAIN SortedPaths : SortedPaths[i] = p
  /\ SortedPaths \in Seq(ProfilePath)
  /\ \A i, j \in DOMAIN SortedPaths : SortedPaths[i] = SortedPaths[j] => i = j

\* What HardwareProfile::validate and the types guarantee.
ASSUME ProfileAssumption == \A b \in Bytes : ProfileOf[b].ok => IsSound(ProfileOf[b])

ASSUME InventoryAssumption ==
  /\ MaxRuns \in Nat /\ MaxEdits \in Nat /\ Options # {}
  /\ \A inv \in Inventories : \A i, j \in DOMAIN inv.devices :
        /\ inv.devices[i].key = inv.devices[j].key => i = j
        /\ inv.devices[i].bus # "sysfs" => inv.devices[i].properties["sysfs_class"] = {}

VARIABLES
  tree,        \* the catalog directory
  output,      \* the --output file
  pc,          \* where the command is
  options, inventory, lock, keyring, profiles, plans,   \* its locals
  result,      \* how the last run ended
  runs, edits

locals == <<options, inventory, lock, keyring, profiles, plans>>
vars == <<tree, output, pc, locals, result, runs, edits>>

Nothing    == [kind |-> "nothing"]
Partial    == [kind |-> "partial"]
PlanSet(p) == [kind |-> "plans", plans |-> p]

NoInventory == [cpu |-> [architecture |-> "unknown", features |-> {}],
                dmi |-> [f \in {} |-> {}], devices |-> <<>>]
Devices == {inventory.devices[i] : i \in DOMAIN inventory.devices}

\* What the rules are compared with: the device and the texts of the system.
Facts(d) ==
  [f \in Fields |->
     CASE f = "bus"               -> {d.bus}
       [] f \in NumberField       -> d.number[f]
       [] f = "name_contains"     -> Words(d.name)
       [] f = "modalias_contains" -> Words(d.modalias)
       [] f = "driver"            -> d.driver
       [] f = "property" ->
            {<<p, d.properties[p]>> : p \in {p \in PropertyName : d.properties[p] # {}}}
       [] OTHER -> IF f \in DOMAIN inventory.dmi THEN Words(inventory.dmi[f]) ELSE {}]
Resolution(d) == resolve(Facts(d), [i \in DOMAIN profiles |-> profiles[i].profile])

-----------------------------------------------------------------------------
Init ==
  /\ tree \in Trees
  /\ output = Nothing
  /\ pc = "idle" /\ result = "none"
  /\ options = CHOOSE o \in Options : TRUE
  /\ inventory = NoInventory
  /\ lock = [ok |-> FALSE]
  /\ keyring = {} /\ profiles = <<>> /\ plans = <<>>
  /\ runs = 0 /\ edits = 0

Fail(reason) ==
  /\ result' = reason
  /\ pc' = "idle"

\* A new process, whose locals are empty.
Invoke ==
  /\ pc = "idle" /\ runs < MaxRuns
  /\ runs' = runs + 1
  /\ pc' = "scan" /\ result' = "none"
  /\ options' \in Options
  /\ inventory' = NoInventory
  /\ lock' = [ok |-> FALSE]
  /\ keyring' = {} /\ profiles' = <<>> /\ plans' = <<>>
  /\ UNCHANGED <<tree, output, edits>>

\* scan_inventory_with_driver_sources.
Scan ==
  /\ pc = "scan"
  /\ \/ inventory' \in Inventories /\ pc' = "verify" /\ UNCHANGED result
     \/ Fail("scan") /\ UNCHANGED inventory
  /\ UNCHANGED <<tree, output, options, lock, keyring, profiles, plans, runs, edits>>

\* verify_catalog; `lock` remembers what was verified, which the code drops.
Verify ==
  /\ pc = "verify"
  /\ IF VerifyCatalog(tree)
     THEN lock' = LockOf[tree[LockTxt]] /\ pc' = "keyring" /\ UNCHANGED result
     ELSE Fail("catalog") /\ UNCHANGED lock
  /\ UNCHANGED <<tree, output, options, inventory, keyring, profiles, plans, runs, edits>>

\* What fs::read_to_string of a file may return: it follows a link.
Readable(file) ==
  {b \in Bytes : file \in DOMAIN tree /\ tree[file] \in {b, Symlink}}
\* Keyring::load reads the keyring again.
LoadKeyring ==
  /\ pc = "keyring"
  /\ \/ \E b \in Readable(Keys) :
          /\ KeyringParses(KeysOf[b])
          /\ keyring' = KeyringOf(b) /\ pc' = "profiles" /\ UNCHANGED result
     \/ /\ \A b \in Readable(Keys) : tree[Keys] = b => ~KeyringParses(KeysOf[b])
        /\ Fail("keyring") /\ UNCHANGED keyring
  /\ UNCHANGED <<tree, output, options, inventory, lock, profiles, plans, runs, edits>>

\* The profile found at a path, with the key its signature names.
Verified(path) ==
  [profile |-> ProfileOf[tree[Profile(path)]],
   keyId   |-> SignatureOf[tree[SigFile(path)]].key,
   sha256  |-> tree[Profile(path)]]

Found == {i \in DOMAIN SortedPaths : SortedPaths[i] \in Discovered(tree)}
\* load_profiles walks the directory again and takes what it finds.
LoadAllProfiles ==
  /\ pc = "profiles"
  /\ IF LoadProfiles(tree, keyring)
     THEN /\ profiles' = [i \in Found |-> Verified(SortedPaths[i])]
          /\ pc' = "plan" /\ UNCHANGED result
     ELSE Fail("profiles") /\ UNCHANGED profiles
  /\ UNCHANGED <<tree, output, options, inventory, lock, keyring, plans, runs, edits>>

\* The devices with a profile.
PlannedDevices ==
  {i \in DOMAIN inventory.devices : Resolution(inventory.devices[i]).kind = "selected"}
DevicePlan(d) ==
  ProvisionPlan(profiles[Resolution(d).winner], inventory.cpu, d, options.driverAbi)

\* The first loop: an ambiguity, a conflict or a plan that cannot be built
\* ends the command.
PlanDevices ==
  /\ pc = "plan"
  /\ IF \A i \in DOMAIN inventory.devices :
          LET r == Resolution(inventory.devices[i]) IN
          \/ r.kind = "none"
          \/ /\ r.kind = "selected"
             /\ BuildSucceeds(profiles[r.winner].profile, inventory.cpu, options.driverAbi)
     THEN /\ plans' = [i \in PlannedDevices |-> DevicePlan(inventory.devices[i])]
          /\ pc' = "coverage" /\ UNCHANGED result
     ELSE Fail("plan") /\ UNCHANGED plans
  /\ UNCHANGED <<tree, output, options, inventory, lock, keyring, profiles, runs, edits>>

\* preflight_inventory: the keys of the devices it lists.
Unresolved ==
  {u.device_key : u \in UnresolvedDevices(Devices, CapabilityRequirements(Devices))}
\* Mutant: the loop over the unresolved devices is dropped.
TargetsOnly(devices) ==
  {i \in DOMAIN devices : options.requireTargets /\ TargetProfileRequired(devices[i])}
\* Mutant: only the devices the preflight report lists are checked.
UnresolvedOnly(devices) == {i \in DOMAIN devices : devices[i].key \in Unresolved}
\* The devices that must have a profile.
MustResolve(devices) ==
  {i \in DOMAIN devices :
     \/ devices[i].key \in Unresolved
     \/ options.requireTargets /\ TargetProfileRequired(devices[i])}

\* The second and third loop.
CheckCoverage ==
  /\ pc = "coverage"
  /\ IF \A i \in MustResolve(inventory.devices) :
          Resolution(inventory.devices[i]).kind # "none"
     THEN pc' = (IF options.toFile THEN "open" ELSE "print") /\ UNCHANGED result
     ELSE Fail("uncovered")
  /\ UNCHANGED <<tree, output, locals, runs, edits>>

PrintPlan ==
  /\ pc = "print"
  /\ result' = "ok" /\ pc' = "idle"
  /\ UNCHANGED <<tree, output, locals, runs, edits>>

\* fs::write creates or truncates the file ...
OpenOutput ==
  /\ pc = "open"
  /\ \/ output' = Partial /\ pc' = "write" /\ UNCHANGED result
     \/ Fail("write") /\ UNCHANGED output
  /\ UNCHANGED <<tree, locals, runs, edits>>

\* Mutant: the result of writing is not looked at.
WriteErrorIgnored(done) == "ok"
ResultOfWrite(done) == IF done THEN "ok" ELSE "write"
\* ... and then writes it, all or a part.
WriteOutput ==
  /\ pc = "write"
  /\ \E done \in BOOLEAN :
       /\ output' = IF done THEN PlanSet(plans) ELSE Partial
       /\ result' = ResultOfWrite(done)
  /\ pc' = "idle"
  /\ UNCHANGED <<tree, locals, runs, edits>>

Kill ==
  /\ pc # "idle"
  /\ Fail("killed")
  /\ UNCHANGED <<tree, output, locals, runs, edits>>

\* Catalog maintenance: one file written, replaced or removed.
Edit ==
  /\ edits < MaxEdits
  /\ edits' = edits + 1
  /\ \E e \in Edits :
       IF e[2] = NoFile
       THEN /\ e[1] \in DOMAIN tree
            /\ tree' = [f \in DOMAIN tree \ {e[1]} |-> tree[f]]
       ELSE tree' = [f \in DOMAIN tree \cup {e[1]} |-> IF f = e[1] THEN e[2] ELSE tree[f]]
  /\ UNCHANGED <<output, pc, locals, result, runs>>

Command ==
  \/ Invoke \/ Scan \/ Verify \/ LoadKeyring \/ LoadAllProfiles \/ PlanDevices
  \/ CheckCoverage \/ PrintPlan \/ OpenOutput \/ WriteOutput
Next == Command \/ Kill \/ Edit

Spec == Init /\ [][Next]_vars

-----------------------------------------------------------------------------
(* Properties.                                                             *)

Reference == INSTANCE HardwarePlan

PlansOf(d) == {i \in DOMAIN plans : plans[i].device = d.key}

\* Every variable has its type, and the profiles resolve is called with have
\* distinct ids: no error message and no tie-break has to tell two apart.
TypeOK ==
  /\ pc \in {"idle", "scan", "verify", "keyring", "profiles", "plan", "coverage",
             "print", "open", "write"}
  /\ result \in {"none", "ok", "scan", "catalog", "keyring", "profiles", "plan",
                 "uncovered", "write", "killed"}
  /\ \A f \in DOMAIN tree : tree[f] \in Bytes \cup {Symlink}
  /\ output.kind \in {"nothing", "partial", "plans"}
  /\ options \in Options
  /\ runs \in 0 .. MaxRuns /\ edits \in 0 .. MaxEdits
  /\ \A i, j \in DOMAIN profiles : profiles[i].profile.id = profiles[j].profile.id => i = j
  /\ \A i \in DOMAIN plans : plans[i].keyId \in {k.id : k \in keyring}

\* The profiles as the formal reference sees them for one device.
ReferenceView(d) ==
  [i \in DOMAIN SortedPaths |->
     IF i \in DOMAIN profiles
     THEN LET p == profiles[i].profile IN
          [profileId |-> p.id, priority |-> p.priority,
           advisoryRank |-> AdvisoryRank(p, Facts(d)), trust |-> "Signed",
           matchState |-> IF ProfileMatches(p, Facts(d)) THEN "Matched" ELSE "Unmatched"]
     ELSE [trust |-> "Unsigned"]]

\* Whatever the order of the profiles in the directory, a device is planned
\* with the profile the formal reference selects, with none if it selects
\* none, and a device for which it finds a tie ends the command.
\* (profile.rs 437-491; README.md 106-108; HardwarePlan.idr 87-107)
SelectionAgreesWithReference ==
  pc \in {"coverage", "print", "open", "write"} =>
    \A d \in Devices :
      LET s == Reference!select(ReferenceView(d)) IN
      /\ s.kind # "Ambiguous"
      /\ {plans[i].profileId : i \in PlansOf(d)} =
           IF s.kind = "Selected" THEN {s.profile.profileId} ELSE {}

\* No device is planned with a profile while another loaded profile that
\* matches the device declares a conflict with it, or it with that one,
\* even one of a lower priority.  (profile.rs 477-491)
NoConflictOnDevice ==
  \A d \in Devices, i \in DOMAIN plans, q \in DOMAIN profiles, p \in DOMAIN profiles :
    /\ plans[i].device = d.key /\ plans[i].profileId = profiles[p].profile.id
    /\ p # q /\ ProfileMatches(profiles[q].profile, Facts(d))
    => /\ profiles[q].profile.id \notin profiles[p].profile.conflicts
       /\ profiles[p].profile.id \notin profiles[q].profile.conflicts

\* Major numbers decide, and minor numbers between equal ones, as numbers.
NoEarlier(v, w) == v[1] > w[1] \/ (v[1] = w[1] /\ v[2] >= w[2])

\* A plan asks the compiler for nothing this CPU was not seen to have, its
\* architecture does not have or the signed policy does not allow, and for
\* everything the policy requires; a driver or firmware plan is for a Driver
\* ABI inside the signed range; and what a rollback removes is what the plan
\* installs, each package once.  (plan.rs 85-194; profile.rs 257-311;
\* README.md 95-102)
PlanFitsMachine ==
  \A i \in DOMAIN plans, p \in DOMAIN profiles :
    plans[i].sha256 = profiles[p].sha256 =>
      LET profile == profiles[p].profile IN
      /\ plans[i].features \subseteq inventory.cpu.features \cap Supports(inventory.cpu.architecture)
      /\ profile.compiler = {} => plans[i].features = {}
      /\ \A policy \in profile.compiler :
           policy.required \subseteq plans[i].features /\ plans[i].features \subseteq policy.allowed
      /\ profile.hardware => \E abi \in profile.abi :
           /\ NoEarlier(AbiOf[plans[i].abi], AbiOf[abi.minimum])
           /\ NoEarlier(AbiOf[abi.maximum], AbiOf[plans[i].abi])
      /\ Distinctly(plans[i].removals) /\ Elements(plans[i].removals) = plans[i].packages

\* A function of the machine that has no driver: of a bus, or a Bluetooth
\* controller or firmware request that only a class shows.
Undriven(d) ==
  /\ d.driver = {}
  /\ \E c \in DeviceCapabilities(d) : d.bus # "sysfs" \/ c \in {"bluetooth", "firmware"}

\* A command that succeeds has exactly one plan for every function without a
\* driver and, with --require-target-profiles, for every bus device with a
\* capability whatever driver the live kernel has bound.
\* (main.rs 199-235; CORINTH_PROTOCOL.md 52-66)
SuccessCoversMachine ==
  result = "ok" =>
    \A d \in Devices :
      \/ Undriven(d)
      \/ options.requireTargets /\ d.bus # "sysfs" /\ DeviceCapabilities(d) # {}
      => Cardinality(PlansOf(d)) = 1

\* After a success with --output the file holds that run's plans, complete;
\* it keeps them until another run opens it.  (main.rs 236-244)
SuccessIsOnDisk ==
  result = "ok" /\ options.toFile => output = PlanSet(plans)

\* The content b, read as a keyring, lets key `id` sign profiles.
Authorizes(b, id) ==
  \E i \in DOMAIN KeysOf[b] :
    LET key == KeysOf[b][i]
    IN  key.id = id /\ key.scope = "hardware-profile" /\ ~key.revoked /\ key.idOk

\* However the catalog is edited while the command runs, a planned profile is
\* the bytes that a key signed and that a keyring file held unrevoked, for
\* profiles.  (signature.rs 69-147, 150-201)
PlansAreSigned ==
  \A i \in DOMAIN plans :
    /\ ProfileOf[plans[i].sha256].ok
    /\ \E b \in Bytes : Authorizes(b, plans[i].keyId)
    /\ \E s \in Bytes :
         /\ SignatureOf[s].ok
         /\ SignatureOf[s].key = plans[i].keyId
         /\ SignatureOf[s].payload = plans[i].sha256

\* What is planned is what was verified: every planned profile is one the
\* lock lists, signed by a key of the keyring the lock pins.
\* (CORINTH_PROTOCOL.md 26-27: plan "rejects additions, removals, symlinks, or
\* byte changes before it resolves a device")
PlansAreLocked ==
  \A i \in DOMAIN plans :
    /\ lock.ok
    /\ \E j \in DOMAIN lock.profile : lock.profile[j].profile_sha256 = plans[i].sha256
    /\ Authorizes(lock.keyring_sha256, plans[i].keyId)

\* As long as nobody edits the catalog it is.  (main.rs 173-198)
UneditedPlansAreLocked == edits = 0 => PlansAreLocked

\* A refused plan leaves the file of the last one alone: the output changes
\* only in a run that has a plan for every device that needs one, and before
\* that run's result is known.  (main.rs 199-241)
OutputChangesOnlyWhenCovered ==
  [][output' # output =>
       /\ result = "none"
       /\ \A d \in Devices : Undriven(d) => PlansOf(d) # {}]_vars
=============================================================================
