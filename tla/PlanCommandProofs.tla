-------------------------- MODULE PlanCommandProofs --------------------------
(* Proofs about PlanCommand, for every catalog, every set of edits, every    *)
(* inventory and every number of runs.                                       *)
EXTENDS PlanCommand, ProfileProofs

(***************************************************************************)
(* The inductive invariant.  A local is empty until its step, and then     *)
(* keeps what that step read however the catalog is edited afterwards: a   *)
(* loaded profile is remembered with its signature and an authorized key,  *)
(* a plan with the resolution and the checks it was built from.            *)
(***************************************************************************)
Typed ==
  /\ pc \in {"idle", "scan", "verify", "keyring", "profiles", "plan", "coverage",
             "print", "open", "write"}
  /\ result \in {"none", "ok", "scan", "catalog", "keyring", "profiles", "plan",
                 "uncovered", "write", "killed"}
  /\ \A f \in DOMAIN tree : tree[f] \in Bytes \cup {Symlink}
  /\ output.kind \in {"nothing", "partial", "plans"}
  /\ options \in Options
  /\ runs \in 0 .. MaxRuns /\ edits \in 0 .. MaxEdits

Fresh ==
  /\ pc \in {"scan", "verify", "keyring"} => keyring = {}
  /\ pc \in {"scan", "verify", "keyring", "profiles"} => profiles = <<>>
  /\ pc \in {"scan", "verify", "keyring", "profiles", "plan"} => plans = <<>>

KeysDistinct ==
  \A i, j \in DOMAIN inventory.devices :
    /\ inventory.devices[i].key = inventory.devices[j].key => i = j
    /\ inventory.devices[i].bus # "sysfs" =>
         inventory.devices[i].properties["sysfs_class"] = {}

KeysHeld ==
  \A k \in keyring : k.scope = "hardware-profile" => \E b \in Bytes : Authorizes(b, k.id)

Genuine(v) ==
  /\ v.sha256 \in Bytes /\ ProfileOf[v.sha256].ok
  /\ v.profile = ProfileOf[v.sha256]
  /\ [id |-> v.keyId, scope |-> "hardware-profile"] \in keyring
  /\ \E s \in Bytes : /\ SignatureOf[s].ok
                      /\ SignatureOf[s].key = v.keyId
                      /\ SignatureOf[s].payload = v.sha256
ProfilesVerified ==
  /\ DOMAIN profiles \subseteq DOMAIN SortedPaths
  /\ \A i \in DOMAIN profiles : Genuine(profiles[i])
  /\ \A i, j \in DOMAIN profiles : profiles[i].profile.id = profiles[j].profile.id => i = j

PlanMade(i) ==
  LET d == inventory.devices[i] IN
  /\ i \in DOMAIN inventory.devices
  /\ Resolution(d).kind = "selected"
  /\ plans[i] = DevicePlan(d)
  /\ BuildSucceeds(profiles[Resolution(d).winner].profile, inventory.cpu, options.driverAbi)
PlansMade ==
  /\ \A i \in DOMAIN plans : PlanMade(i)
  /\ pc \in {"coverage", "print", "open", "write"} =>
       \A i \in DOMAIN inventory.devices :
         i \in DOMAIN plans \/ Resolution(inventory.devices[i]).kind = "none"

Covered == \A i \in MustResolve(inventory.devices) : i \in DOMAIN plans
Results ==
  /\ pc \in {"print", "open", "write"} \/ result = "ok" => Covered
  /\ pc # "idle" => result = "none"
  /\ pc = "print" => ~options.toFile
  /\ SuccessIsOnDisk

IInv ==
  /\ Typed /\ Fresh /\ KeysDistinct /\ KeysHeld /\ ProfilesVerified
  /\ PlansMade /\ Results

-----------------------------------------------------------------------------
LEMMA InitInv == Init => IInv
  <1> SUFFICES ASSUME Init PROVE IInv
    OBVIOUS
  <1>1. /\ pc = "idle" /\ result = "none" /\ output = Nothing
        /\ keyring = {} /\ DOMAIN profiles = {} /\ DOMAIN plans = {}
        /\ DOMAIN inventory.devices = {}
    BY DEF Init, NoInventory
  <1>2. Typed
    BY TreeAssumption, InventoryAssumption DEF Init, Typed, Nothing
  <1>3. Fresh /\ KeysDistinct /\ KeysHeld /\ ProfilesVerified
    BY <1>1 DEF Fresh, KeysDistinct, KeysHeld, ProfilesVerified
  <1>4. PlansMade /\ Results
    BY <1>1 DEF PlansMade, Results, SuccessIsOnDisk
  <1> QED BY <1>2, <1>3, <1>4 DEF IInv

\* What the locals say of each other outlives a step that leaves them alone.
LEMMA LocalsFrame ==
  ASSUME UNCHANGED locals
  PROVE  /\ KeysDistinct => KeysDistinct'
         /\ KeysHeld => KeysHeld'
         /\ ProfilesVerified => ProfilesVerified'
         /\ \A i \in DOMAIN plans : PlanMade(i) => PlanMade(i)'
         /\ \A i \in DOMAIN inventory.devices :
              Resolution(inventory.devices[i])' = Resolution(inventory.devices[i])
         /\ Covered => Covered'
  <1>1. /\ inventory' = inventory /\ profiles' = profiles /\ plans' = plans
        /\ options' = options /\ keyring' = keyring
    BY DEF locals
  <1>2. KeysDistinct => KeysDistinct'
    BY <1>1 DEF KeysDistinct
  <1>3. KeysHeld => KeysHeld'
    BY <1>1 DEF KeysHeld
  <1>4. ProfilesVerified => ProfilesVerified'
    BY <1>1 DEF ProfilesVerified, Genuine
  <1>5. \A i \in DOMAIN inventory.devices :
              Resolution(inventory.devices[i])' = Resolution(inventory.devices[i])
    BY <1>1 DEF Resolution, Facts
  <1>6. ASSUME NEW i \in DOMAIN plans, PlanMade(i) PROVE PlanMade(i)'
    <2>1. i \in DOMAIN inventory.devices
      BY <1>6 DEF PlanMade
    <2>2. Resolution(inventory.devices[i])' = Resolution(inventory.devices[i])
      BY <1>5, <2>1
    <2>3. DevicePlan(inventory.devices[i])' = DevicePlan(inventory.devices[i])
      BY <1>1 DEF DevicePlan, Resolution, Facts
    <2> QED BY <1>1, <1>6, <2>2, <2>3 DEF PlanMade
  <1>7. Covered => Covered'
    <2>1. Unresolved' = Unresolved
      BY <1>1 DEF Unresolved, Devices
    <2>2. MustResolve(inventory.devices)' = MustResolve(inventory.devices)
      BY <1>1, <2>1 DEF MustResolve
    <2> QED BY <1>1, <2>2 DEF Covered
  <1> QED BY <1>2, <1>3, <1>4, <1>5, <1>6, <1>7

-----------------------------------------------------------------------------
(* The steps that leave the locals alone.                                   *)

LEMMA QuietStep ==
  ASSUME IInv, UNCHANGED locals, Typed', Results',
         pc' = pc \/ pc' = "idle" \/ pc' \in {"print", "open", "write"},
         pc' \in {"print", "open", "write"} => pc \in {"coverage", "print", "open", "write"}
  PROVE  IInv'
  <1>1. Fresh'
    BY DEF IInv, Fresh, locals
  <1>2. KeysDistinct' /\ KeysHeld' /\ ProfilesVerified'
    BY LocalsFrame DEF IInv
  <1>3. PlansMade'
    <2>1. \A i \in DOMAIN plans : PlanMade(i)'
      BY LocalsFrame DEF IInv, PlansMade
    <2>2. ASSUME pc' \in {"coverage", "print", "open", "write"},
                 NEW i \in DOMAIN inventory.devices
          PROVE  i \in DOMAIN plans \/ Resolution(inventory.devices[i])'.kind = "none"
      <3>1. pc \in {"coverage", "print", "open", "write"}
        BY <2>2
      <3>2. Resolution(inventory.devices[i])' = Resolution(inventory.devices[i])
        BY LocalsFrame
      <3> QED BY <3>1, <3>2 DEF IInv, PlansMade
    <2>3. plans' = plans /\ inventory' = inventory
      BY DEF locals
    <2> QED BY <2>1, <2>2, <2>3 DEF PlansMade
  <1> QED BY <1>1, <1>2, <1>3 DEF IInv

LEMMA CheckCoverageInv == IInv /\ CheckCoverage => IInv'
  <1> SUFFICES ASSUME IInv, CheckCoverage PROVE IInv'
    OBVIOUS
  <1>1. UNCHANGED locals /\ output' = output
    BY DEF CheckCoverage
  <1>2. Typed'
    BY DEF IInv, Typed, CheckCoverage, Fail, locals
  <1>3. \/ pc' = "idle" /\ result' = "uncovered"
        \/ /\ pc' \in {"print", "open"} /\ result' = result
           /\ pc' = "print" => ~options.toFile
           /\ \A i \in MustResolve(inventory.devices) :
                Resolution(inventory.devices[i]).kind # "none"
    BY DEF CheckCoverage, Fail
  <1>4. Results'
    <2>1. CASE pc' = "idle" /\ result' = "uncovered"
      BY <2>1 DEF Results, SuccessIsOnDisk
    <2>2. CASE /\ pc' \in {"print", "open"} /\ result' = result
               /\ pc' = "print" => ~options.toFile
               /\ \A i \in MustResolve(inventory.devices) :
                    Resolution(inventory.devices[i]).kind # "none"
      <3>1. pc = "coverage" /\ result = "none"
        BY DEF CheckCoverage, IInv, Results
      <3>2. \A i \in MustResolve(inventory.devices) : i \in DOMAIN inventory.devices
        BY DEF MustResolve
      <3>3. Covered
        BY <2>2, <3>1, <3>2 DEF IInv, PlansMade, Covered
      <3>4. Covered'
        BY <1>1, <3>3, LocalsFrame
      <3>5. options' = options
        BY <1>1 DEF locals
      <3> QED BY <2>2, <3>1, <3>4, <3>5 DEF Results, SuccessIsOnDisk
    <2> QED BY <1>3, <2>1, <2>2
  <1>5. pc = "coverage"
    BY DEF CheckCoverage
  <1> QED BY <1>1, <1>2, <1>3, <1>4, <1>5, QuietStep

LEMMA PrintPlanInv == IInv /\ PrintPlan => IInv'
  <1> SUFFICES ASSUME IInv, PrintPlan PROVE IInv'
    OBVIOUS
  <1>1. UNCHANGED locals /\ pc = "print" /\ pc' = "idle" /\ result' = "ok"
    BY DEF PrintPlan
  <1>2. Typed'
    BY DEF IInv, Typed, PrintPlan, locals
  <1>3. Results'
    <2>1. ~options'.toFile
      BY <1>1 DEF IInv, Results, locals
    <2>2. Covered'
      BY <1>1, LocalsFrame DEF IInv, Results
    <2> QED BY <1>1, <2>1, <2>2 DEF Results, SuccessIsOnDisk
  <1> QED BY <1>1, <1>2, <1>3, QuietStep

LEMMA OpenOutputInv == IInv /\ OpenOutput => IInv'
  <1> SUFFICES ASSUME IInv, OpenOutput PROVE IInv'
    OBVIOUS
  <1>1. UNCHANGED locals /\ pc = "open" /\ result = "none"
    BY DEF OpenOutput, IInv, Results
  <1>2. \/ pc' = "write" /\ result' = result
        \/ pc' = "idle" /\ result' = "write"
    BY DEF OpenOutput, Fail
  <1>3. Typed'
    BY DEF IInv, Typed, OpenOutput, Fail, Partial, locals
  <1>4. Covered'
    BY <1>1, LocalsFrame DEF IInv, Results
  <1>5. Results'
    BY <1>1, <1>2, <1>4 DEF Results, SuccessIsOnDisk
  <1> QED BY <1>1, <1>2, <1>3, <1>5, QuietStep

LEMMA WriteOutputInv == IInv /\ WriteOutput => IInv'
  <1> SUFFICES ASSUME IInv, WriteOutput PROVE IInv'
    OBVIOUS
  <1>1. UNCHANGED locals /\ pc = "write" /\ pc' = "idle"
    BY DEF WriteOutput
  <1>2. PICK done \in BOOLEAN :
          /\ output' = IF done THEN PlanSet(plans) ELSE Partial
          /\ result' = ResultOfWrite(done)
    BY DEF WriteOutput
  <1>3. output'.kind \in {"partial", "plans"} /\ result' \in {"ok", "write"}
    BY <1>2 DEF PlanSet, Partial, ResultOfWrite
  <1>4. Typed'
    BY <1>3 DEF IInv, Typed, WriteOutput, locals
  <1>5. Covered'
    BY <1>1, LocalsFrame DEF IInv, Results
  <1>6. SuccessIsOnDisk'
    BY <1>1, <1>2 DEF ResultOfWrite, SuccessIsOnDisk, PlanSet, locals
  <1>7. Results'
    BY <1>1, <1>5, <1>6 DEF Results
  <1> QED BY <1>1, <1>4, <1>7, QuietStep

LEMMA KillInv == IInv /\ Kill => IInv'
  <1> SUFFICES ASSUME IInv, Kill PROVE IInv'
    OBVIOUS
  <1>1. UNCHANGED locals /\ pc' = "idle" /\ result' = "killed"
    BY DEF Kill, Fail
  <1>2. Typed'
    BY DEF IInv, Typed, Kill, Fail, locals
  <1>3. Results'
    BY <1>1 DEF Results, SuccessIsOnDisk
  <1> QED BY <1>1, <1>2, <1>3, QuietStep

LEMMA EditInv == IInv /\ Edit => IInv'
  <1> SUFFICES ASSUME IInv, Edit PROVE IInv'
    OBVIOUS
  <1>1. UNCHANGED locals /\ pc' = pc /\ result' = result /\ output' = output
    BY DEF Edit
  <1>2. \A f \in DOMAIN tree' : tree'[f] \in Bytes \cup {Symlink}
    BY TreeAssumption DEF Edit, IInv, Typed
  <1>3. edits' \in 0 .. MaxEdits
    BY InventoryAssumption DEF Edit, IInv, Typed
  <1>4. Typed'
    BY <1>1, <1>2, <1>3 DEF IInv, Typed, Edit, locals
  <1>5. Results'
    <2>1. Covered => Covered'
      BY <1>1, LocalsFrame
    <2> QED BY <1>1, <2>1 DEF IInv, Results, SuccessIsOnDisk, locals, PlanSet
  <1> QED BY <1>1, <1>4, <1>5, QuietStep

LEMMA StutterInv == IInv /\ UNCHANGED vars => IInv'
  <1> SUFFICES ASSUME IInv, UNCHANGED vars PROVE IInv'
    OBVIOUS
  <1>1. UNCHANGED locals /\ pc' = pc /\ result' = result /\ output' = output
    BY DEF vars
  <1>2. Typed'
    BY DEF IInv, Typed, vars, locals
  <1>3. Results'
    <2>1. Covered => Covered'
      BY <1>1, LocalsFrame
    <2> QED BY <1>1, <2>1 DEF IInv, Results, SuccessIsOnDisk, locals, PlanSet
  <1> QED BY <1>1, <1>2, <1>3, QuietStep

-----------------------------------------------------------------------------
(* The steps that fill a local.                                             *)

\* Before the last loop there are no plans, so nothing is said of them yet.
LEMMA NoPlansYet ==
  ASSUME plans' = <<>>, pc' \notin {"coverage", "print", "open", "write"}
  PROVE  PlansMade'
  <1>1. DOMAIN plans' = {}
    BY DEF PlansMade
  <1> QED BY <1>1 DEF PlansMade

LEMMA InvokeInv == IInv /\ Invoke => IInv'
  <1> SUFFICES ASSUME IInv, Invoke PROVE IInv'
    OBVIOUS
  <1>1. /\ pc' = "scan" /\ result' = "none" /\ keyring' = {} /\ plans' = <<>>
        /\ profiles' = <<>> /\ DOMAIN profiles' = {} /\ DOMAIN inventory'.devices = {}
    BY DEF Invoke, NoInventory
  <1>2. runs' \in 0 .. MaxRuns
    BY InventoryAssumption DEF Invoke, IInv, Typed
  <1>3. Typed'
    BY <1>1, <1>2 DEF IInv, Typed, Invoke
  <1>4. Fresh' /\ KeysDistinct' /\ KeysHeld' /\ ProfilesVerified'
    BY <1>1 DEF Fresh, KeysDistinct, KeysHeld, ProfilesVerified
  <1>5. Results'
    BY <1>1 DEF Results, SuccessIsOnDisk
  <1> QED BY <1>1, <1>3, <1>4, <1>5, NoPlansYet DEF IInv

LEMMA ScanInv == IInv /\ Scan => IInv'
  <1> SUFFICES ASSUME IInv, Scan PROVE IInv'
    OBVIOUS
  <1>1. /\ pc = "scan" /\ keyring' = keyring /\ profiles' = profiles /\ plans' = plans
        /\ keyring = {} /\ profiles = <<>> /\ plans = <<>> /\ result = "none"
    BY DEF Scan, IInv, Fresh, Results
  <1>2. \/ pc' = "verify" /\ result' = "none" /\ inventory' \in Inventories
        \/ pc' = "idle" /\ result' = "scan" /\ inventory' = inventory
    BY <1>1 DEF Scan, Fail
  <1>3. Typed'
    BY <1>2 DEF IInv, Typed, Scan
  <1>4. Fresh' /\ KeysHeld'
    BY <1>1, <1>2 DEF Fresh, KeysHeld
  <1>5. KeysDistinct'
    BY <1>2, InventoryAssumption DEF IInv, KeysDistinct
  <1>6. ProfilesVerified'
    <2>1. DOMAIN profiles' = {}
      BY <1>1
    <2> QED BY <2>1 DEF ProfilesVerified
  <1>7. Results'
    BY <1>2 DEF Results, SuccessIsOnDisk
  <1> QED BY <1>1, <1>2, <1>3, <1>4, <1>5, <1>6, <1>7, NoPlansYet DEF IInv

LEMMA VerifyInv == IInv /\ Verify => IInv'
  <1> SUFFICES ASSUME IInv, Verify PROVE IInv'
    OBVIOUS
  <1>1. /\ keyring' = {} /\ profiles' = <<>> /\ plans' = <<>>
        /\ inventory' = inventory /\ result = "none"
    BY DEF Verify, IInv, Fresh, Results
  <1>2. \/ pc' = "keyring" /\ result' = "none"
        \/ pc' = "idle" /\ result' = "catalog"
    BY <1>1 DEF Verify, Fail
  <1>3. Typed'
    BY <1>2 DEF IInv, Typed, Verify
  <1>4. Fresh' /\ KeysHeld' /\ KeysDistinct'
    BY <1>1, <1>2 DEF IInv, Fresh, KeysHeld, KeysDistinct
  <1>5. ProfilesVerified'
    <2>1. DOMAIN profiles' = {}
      BY <1>1
    <2> QED BY <2>1 DEF ProfilesVerified
  <1>6. Results'
    BY <1>2 DEF Results, SuccessIsOnDisk
  <1> QED BY <1>1, <1>2, <1>3, <1>4, <1>5, <1>6, NoPlansYet DEF IInv

\* What Keyring::load returns was authorized by the bytes it read.
LEMMA KeyringAuthorizes ==
  ASSUME NEW b, KeyringParses(KeysOf[b]), NEW k \in KeyringOf(b),
         k.scope = "hardware-profile"
  PROVE  Authorizes(b, k.id)
  <1>1. PICK i \in Active(KeysOf[b]) :
          k = [id |-> KeysOf[b][i].id, scope |-> KeysOf[b][i].scope]
    BY DEF KeyringOf
  <1>2. i \in DOMAIN KeysOf[b] /\ ~KeysOf[b][i].revoked /\ KeysOf[b][i].idOk
    BY DEF Active, KeyringParses
  <1> QED BY <1>1, <1>2 DEF Authorizes

LEMMA LoadKeyringInv == IInv /\ LoadKeyring => IInv'
  <1> SUFFICES ASSUME IInv, LoadKeyring PROVE IInv'
    OBVIOUS
  <1>1. /\ profiles' = <<>> /\ plans' = <<>> /\ inventory' = inventory
        /\ keyring = {} /\ result = "none"
    BY DEF LoadKeyring, IInv, Fresh, Results
  <1>2. \/ /\ pc' = "profiles" /\ result' = "none"
           /\ \E b \in Bytes : KeyringParses(KeysOf[b]) /\ keyring' = KeyringOf(b)
        \/ pc' = "idle" /\ result' = "keyring" /\ keyring' = {}
    BY <1>1 DEF LoadKeyring, Readable, Fail
  <1>3. Typed'
    BY <1>2 DEF IInv, Typed, LoadKeyring
  <1>4. Fresh' /\ KeysDistinct'
    BY <1>1, <1>2 DEF IInv, Fresh, KeysDistinct
  <1>5. KeysHeld'
    BY <1>2, KeyringAuthorizes DEF KeysHeld
  <1>6. ProfilesVerified'
    <2>1. DOMAIN profiles' = {}
      BY <1>1
    <2> QED BY <2>1 DEF ProfilesVerified
  <1>7. Results'
    BY <1>2 DEF Results, SuccessIsOnDisk
  <1> QED BY <1>1, <1>2, <1>3, <1>4, <1>5, <1>6, <1>7, NoPlansYet DEF IInv

LEMMA LoadAllProfilesInv == IInv /\ LoadAllProfiles => IInv'
  <1> SUFFICES ASSUME IInv, LoadAllProfiles PROVE IInv'
    OBVIOUS
  <1>1. /\ pc = "profiles" /\ plans' = <<>> /\ inventory' = inventory
        /\ keyring' = keyring /\ profiles = <<>> /\ result = "none"
    BY DEF LoadAllProfiles, IInv, Fresh, Results
  <1>2. \/ /\ pc' = "plan" /\ result' = "none" /\ LoadProfiles(tree, keyring)
           /\ profiles' = [i \in Found |-> Verified(SortedPaths[i])]
        \/ pc' = "idle" /\ result' = "profiles" /\ profiles' = <<>>
    BY <1>1 DEF LoadAllProfiles, Fail
  <1>3. Typed'
    BY <1>2 DEF IInv, Typed, LoadAllProfiles
  <1>4. Fresh' /\ KeysDistinct' /\ KeysHeld'
    BY <1>1, <1>2 DEF IInv, Fresh, KeysDistinct, KeysHeld
  <1>5. ProfilesVerified'
    <2>1. CASE profiles' = <<>>
      <3>1. DOMAIN profiles' = {}
        BY <2>1
      <3> QED BY <3>1 DEF ProfilesVerified
    <2>2. CASE /\ LoadProfiles(tree, keyring)
               /\ profiles' = [i \in Found |-> Verified(SortedPaths[i])]
      <3>1. \A i \in Found : SortedPaths[i] \in Discovered(tree)
        BY DEF Found
      <3>2. ASSUME NEW p \in Discovered(tree)
            PROVE  /\ tree[Profile(p)] \in Bytes /\ tree[SigFile(p)] \in Bytes
                   /\ VerifyProfile(keyring, tree[Profile(p)], tree[SigFile(p)])
        <4>1. Profile(p) \in DOMAIN tree /\ SigFile(p) \in DOMAIN tree
          BY <2>2 DEF Discovered, LoadProfiles
        <4>2. tree[Profile(p)] # Symlink /\ tree[SigFile(p)] # Symlink
          BY <2>2, <4>1 DEF LoadProfiles, LinkFree, Profile, SigFile
        <4> QED BY <2>2, <4>1, <4>2 DEF IInv, Typed, LoadProfiles
      <3>3. ASSUME NEW i \in Found PROVE Genuine(profiles[i])'
        <4>1. profiles'[i] = Verified(SortedPaths[i])
          BY <2>2
        <4>2. /\ tree[Profile(SortedPaths[i])] \in Bytes
              /\ tree[SigFile(SortedPaths[i])] \in Bytes
              /\ VerifyProfile(keyring, tree[Profile(SortedPaths[i])],
                               tree[SigFile(SortedPaths[i])])
          BY <3>1, <3>2
        <4> QED BY <1>1, <4>1, <4>2
              DEF Genuine, Verified, VerifyProfile, VerifyPayload
      <3>4. \A i, j \in Found :
              profiles'[i].profile.id = profiles'[j].profile.id => i = j
        <4>1. ASSUME NEW i \in Found, NEW j \in Found,
                     profiles'[i].profile.id = profiles'[j].profile.id
              PROVE  i = j
          <5>1. SortedPaths[i] = SortedPaths[j]
            BY <2>2, <3>1, <4>1 DEF Verified, LoadProfiles
          <5> QED BY <5>1, TreeAssumption DEF Found
        <4> QED BY <4>1
      <3>5. DOMAIN profiles' = Found /\ Found \subseteq DOMAIN SortedPaths
        BY <2>2 DEF Found
      <3> QED BY <3>3, <3>4, <3>5 DEF ProfilesVerified
    <2> QED BY <1>2, <2>1, <2>2
  <1>6. Results'
    BY <1>2 DEF Results, SuccessIsOnDisk
  <1> QED BY <1>1, <1>2, <1>3, <1>4, <1>5, <1>6, NoPlansYet DEF IInv

LEMMA PlanDevicesInv == IInv /\ PlanDevices => IInv'
  <1> SUFFICES ASSUME IInv, PlanDevices PROVE IInv'
    OBVIOUS
  <1>1. /\ pc = "plan" /\ inventory' = inventory /\ options' = options
        /\ keyring' = keyring /\ profiles' = profiles
        /\ plans = <<>> /\ result = "none"
    BY DEF PlanDevices, IInv, Fresh, Results
  <1>2. \/ /\ pc' = "coverage" /\ result' = "none"
           /\ plans' = [i \in PlannedDevices |-> DevicePlan(inventory.devices[i])]
           /\ \A i \in DOMAIN inventory.devices :
                LET r == Resolution(inventory.devices[i]) IN
                \/ r.kind = "none"
                \/ /\ r.kind = "selected"
                   /\ BuildSucceeds(profiles[r.winner].profile, inventory.cpu,
                                    options.driverAbi)
        \/ pc' = "idle" /\ result' = "plan" /\ plans' = <<>>
    BY <1>1 DEF PlanDevices, Fail
  <1>3. Typed'
    BY <1>2 DEF IInv, Typed, PlanDevices
  <1>4. Fresh' /\ KeysDistinct' /\ KeysHeld' /\ ProfilesVerified'
    BY <1>1, <1>2 DEF IInv, Fresh, KeysDistinct, KeysHeld, ProfilesVerified, Genuine
  <1>5. PlansMade'
    <2>1. CASE pc' = "idle" /\ plans' = <<>>
      BY <2>1, NoPlansYet
    <2>2. CASE ~(pc' = "idle" /\ plans' = <<>>)
      <3>1. \A d : Resolution(d)' = Resolution(d)
        BY <1>1 DEF Resolution, Facts
      <3>2. DOMAIN plans' = PlannedDevices
        BY <1>2, <2>2
      <3>3. ASSUME NEW i \in PlannedDevices PROVE PlanMade(i)'
        <4>1. /\ i \in DOMAIN inventory.devices
              /\ Resolution(inventory.devices[i]).kind = "selected"
          BY DEF PlannedDevices
        <4>2. plans'[i] = DevicePlan(inventory.devices[i])
          BY <1>2, <2>2
        <4>3. DevicePlan(inventory.devices[i])' = DevicePlan(inventory.devices[i])
          BY <1>1 DEF DevicePlan, Resolution, Facts
        <4>4. BuildSucceeds(profiles[Resolution(inventory.devices[i]).winner].profile,
                            inventory.cpu, options.driverAbi)
          BY <1>2, <2>2, <4>1
        <4> QED BY <1>1, <3>1, <4>1, <4>2, <4>3, <4>4 DEF PlanMade
      <3>4. \A i \in DOMAIN inventory.devices :
              i \in PlannedDevices \/ Resolution(inventory.devices[i]).kind = "none"
        BY <1>2, <2>2 DEF PlannedDevices
      <3> QED BY <1>1, <3>1, <3>2, <3>3, <3>4 DEF PlansMade
    <2> QED BY <2>1, <2>2
  <1>6. Results'
    BY <1>2 DEF Results, SuccessIsOnDisk
  <1> QED BY <1>3, <1>4, <1>5, <1>6 DEF IInv

LEMMA StepInv == IInv /\ [Next]_vars => IInv'
  BY InvokeInv, ScanInv, VerifyInv, LoadKeyringInv, LoadAllProfilesInv, PlanDevicesInv,
     CheckCoverageInv, PrintPlanInv, OpenOutputInv, WriteOutputInv, KillInv, EditInv,
     StutterInv DEF Next, Command

LEMMA Invariant == Spec => []IInv
  BY InitInv, StepInv, PTL DEF Spec

-----------------------------------------------------------------------------
(* The theorems.                                                            *)

\* The profiles, as resolve takes them, are a list it is proved for.
LEMMA ResolvableProfiles ==
  ASSUME IInv
  PROVE  ProfileList([i \in DOMAIN profiles |-> profiles[i].profile])
  <1>1. DOMAIN SortedPaths \subseteq Nat /\ IsFiniteSet(DOMAIN SortedPaths)
    <2>1. PICK n \in Nat : DOMAIN SortedPaths = 1 .. n
      BY TreeAssumption
    <2> QED BY <2>1, FS_Interval
  <1>2. DOMAIN profiles \subseteq Nat /\ IsFiniteSet(DOMAIN profiles)
    BY <1>1, FS_Subset DEF IInv, ProfilesVerified
  <1>3. \A i \in DOMAIN profiles : ProfileShape(profiles[i].profile)
    <2> SUFFICES ASSUME NEW i \in DOMAIN profiles PROVE ProfileShape(profiles[i].profile)
      OBVIOUS
    <2>1. IsSound(profiles[i].profile)
      BY ProfileAssumption DEF IInv, ProfilesVerified, Genuine
    <2> QED BY <2>1 DEF ProfileShape, IsSound
  <1> QED BY <1>2, <1>3 DEF ProfileList

\* A plan is for its device, with the profile resolve selected: the best one.
LEMMA PlanFacts ==
  ASSUME IInv, NEW i \in DOMAIN plans
  PROVE  LET d == inventory.devices[i]
             w == Resolution(d).winner
         IN
         /\ i \in DOMAIN inventory.devices /\ w \in DOMAIN profiles
         /\ plans[i] = DevicePlan(d) /\ plans[i].device = d.key
         /\ plans[i].profileId = profiles[w].profile.id
         /\ plans[i].sha256 = profiles[w].sha256 /\ plans[i].keyId = profiles[w].keyId
         /\ plans[i].abi = options.driverAbi
         /\ plans[i].features = TargetFeatures(profiles[w].profile, inventory.cpu)
         /\ plans[i].packages = profiles[w].profile.packages
         /\ plans[i].removals = profiles[w].profile.removals
         /\ BuildSucceeds(profiles[w].profile, inventory.cpu, options.driverAbi)
         /\ \A q \in DOMAIN profiles \ {w} :
              /\ ProfileMatches(profiles[q].profile, Facts(d))
              /\ profiles[q].profile.id # profiles[w].profile.id
              => /\ profiles[q].profile.id \notin profiles[w].profile.conflicts
                 /\ profiles[w].profile.id \notin profiles[q].profile.conflicts
  <1> DEFINE d == inventory.devices[i]
             w == Resolution(d).winner
             ps == [j \in DOMAIN profiles |-> profiles[j].profile]
  <1>1. PlanMade(i)
    BY DEF IInv, PlansMade
  <1>2. resolve(Facts(d), ps).kind = "selected" /\ w = resolve(Facts(d), ps).winner
    BY <1>1 DEF PlanMade, Resolution
  <1>3. /\ w \in DOMAIN ps
        /\ \A q \in DOMAIN ps \ {w} :
             ProfileMatches(ps[q], Facts(d)) /\ ps[q].id # ps[w].id =>
               ps[q].id \notin ps[w].conflicts /\ ps[w].id \notin ps[q].conflicts
    <2>1. ProfileList(ps)
      BY ResolvableProfiles
    <2> HIDE DEF ps
    <2> QED BY <1>2, <2>1, SelectionIsBest
  <1>4. DOMAIN ps = DOMAIN profiles /\ \A q \in DOMAIN profiles : ps[q] = profiles[q].profile
    OBVIOUS
  <1>5. plans[i] = ProvisionPlan(profiles[w], inventory.cpu, d, options.driverAbi)
    BY <1>1 DEF PlanMade, DevicePlan
  <1>6. /\ plans[i].device = d.key /\ plans[i].profileId = profiles[w].profile.id
        /\ plans[i].sha256 = profiles[w].sha256 /\ plans[i].keyId = profiles[w].keyId
        /\ plans[i].abi = options.driverAbi
        /\ plans[i].features = TargetFeatures(profiles[w].profile, inventory.cpu)
        /\ plans[i].packages = profiles[w].profile.packages
        /\ plans[i].removals = profiles[w].profile.removals
    BY <1>5 DEF ProvisionPlan
  <1>7. /\ i \in DOMAIN inventory.devices /\ plans[i] = DevicePlan(d)
        /\ BuildSucceeds(profiles[w].profile, inventory.cpu, options.driverAbi)
    BY <1>1 DEF PlanMade
  <1> HIDE DEF d, w, ps
  <1>8. \A q \in DOMAIN profiles \ {w} :
          /\ ProfileMatches(profiles[q].profile, Facts(d))
          /\ profiles[q].profile.id # profiles[w].profile.id
          => /\ profiles[q].profile.id \notin profiles[w].profile.conflicts
             /\ profiles[w].profile.id \notin profiles[q].profile.conflicts
    BY <1>3, <1>4
  <1>9. w \in DOMAIN profiles
    BY <1>3, <1>4
  <1> QED BY <1>6, <1>7, <1>8, <1>9 DEF d, w

\* TypeOK, with the distinct ids of the loaded profiles and the signing key
\* of a plan in the keyring that was loaded.  (signature.rs 150-201)
THEOREM TypeCorrect == Spec => []TypeOK
  <1>1. IInv => TypeOK
    <2> SUFFICES ASSUME IInv PROVE TypeOK
      OBVIOUS
    <2>1. \A i, j \in DOMAIN profiles :
            profiles[i].profile.id = profiles[j].profile.id => i = j
      BY DEF IInv, ProfilesVerified
    <2>2. ASSUME NEW i \in DOMAIN plans
          PROVE  plans[i].keyId \in {k.id : k \in keyring}
      <3>1. PICK v \in DOMAIN profiles : plans[i].keyId = profiles[v].keyId
        BY PlanFacts
      <3>2. [id |-> profiles[v].keyId, scope |-> "hardware-profile"] \in keyring
        BY DEF IInv, ProfilesVerified, Genuine
      <3> QED BY <3>1, <3>2
    <2> QED BY <2>1, <2>2 DEF IInv, Typed, TypeOK
  <1> QED BY <1>1, Invariant, PTL

\* However files of the catalog are replaced while the command runs, a planned
\* profile is bytes signed by an unrevoked profile key of some keyring file.
\* (signature.rs 69-201)
THEOREM PlansSigned == Spec => []PlansAreSigned
  <1>1. IInv => PlansAreSigned
    <2> SUFFICES ASSUME IInv, NEW i \in DOMAIN plans
                 PROVE  /\ ProfileOf[plans[i].sha256].ok
                        /\ \E b \in Bytes : Authorizes(b, plans[i].keyId)
                        /\ \E s \in Bytes : /\ SignatureOf[s].ok
                                            /\ SignatureOf[s].key = plans[i].keyId
                                            /\ SignatureOf[s].payload = plans[i].sha256
      BY DEF PlansAreSigned
    <2>1. PICK v \in DOMAIN profiles :
            plans[i].keyId = profiles[v].keyId /\ plans[i].sha256 = profiles[v].sha256
      BY PlanFacts
    <2>2. Genuine(profiles[v])
      BY DEF IInv, ProfilesVerified
    <2>3. \E b \in Bytes : Authorizes(b, profiles[v].keyId)
      <3> DEFINE k == [id |-> profiles[v].keyId, scope |-> "hardware-profile"]
      <3>1. k \in keyring /\ k.scope = "hardware-profile" /\ k.id = profiles[v].keyId
        BY <2>2 DEF Genuine
      <3> HIDE DEF k
      <3> QED BY <3>1 DEF IInv, KeysHeld
    <2> QED BY <2>1, <2>2, <2>3 DEF Genuine
  <1> QED BY <1>1, Invariant, PTL

\* A planned profile has no declared conflict with another loaded profile that
\* matches the device.  (profile.rs 477-491)
THEOREM NoConflictPlanned == Spec => []NoConflictOnDevice
  <1>1. IInv => NoConflictOnDevice
    <2> SUFFICES ASSUME IInv, NEW e \in DOMAIN inventory.devices, NEW i \in DOMAIN plans,
                        NEW q \in DOMAIN profiles, NEW p \in DOMAIN profiles,
                        plans[i].device = inventory.devices[e].key,
                        plans[i].profileId = profiles[p].profile.id, p # q,
                        ProfileMatches(profiles[q].profile, Facts(inventory.devices[e]))
                 PROVE  /\ profiles[q].profile.id \notin profiles[p].profile.conflicts
                        /\ profiles[p].profile.id \notin profiles[q].profile.conflicts
      BY DEF NoConflictOnDevice, Devices
    <2> DEFINE w == Resolution(inventory.devices[i]).winner
    <2>1. /\ i \in DOMAIN inventory.devices /\ w \in DOMAIN profiles
          /\ plans[i].device = inventory.devices[i].key
          /\ plans[i].profileId = profiles[w].profile.id
      BY PlanFacts
    <2>2. e = i
      BY <2>1 DEF IInv, KeysDistinct
    <2>3. p = w
      BY <2>1 DEF IInv, ProfilesVerified
    <2>4. profiles[q].profile.id # profiles[p].profile.id
      BY DEF IInv, ProfilesVerified
    <2> QED BY <2>2, <2>3, <2>4, PlanFacts
  <1> QED BY <1>1, Invariant, PTL

\* No plan asks for an unobserved, foreign or unsigned compiler feature, omits
\* a required one or leaves the signed Driver ABI range, and its rollback
\* removes exactly what it installs.  (plan.rs 85-192; profile.rs 257-311)
THEOREM PlansFit == Spec => []PlanFitsMachine
  <1>1. IInv => PlanFitsMachine
    <2> SUFFICES ASSUME IInv, NEW i \in DOMAIN plans, NEW p \in DOMAIN profiles,
                        plans[i].sha256 = profiles[p].sha256
                 PROVE  LET profile == profiles[p].profile IN
                        /\ plans[i].features
                             \subseteq inventory.cpu.features \cap Supports(inventory.cpu.architecture)
                        /\ profile.compiler = {} => plans[i].features = {}
                        /\ \A policy \in profile.compiler :
                             policy.required \subseteq plans[i].features
                               /\ plans[i].features \subseteq policy.allowed
                        /\ profile.hardware =>
                             \E abi \in profile.abi :
                               /\ NoEarlier(AbiOf[plans[i].abi], AbiOf[abi.minimum])
                               /\ NoEarlier(AbiOf[abi.maximum], AbiOf[plans[i].abi])
                        /\ Distinctly(plans[i].removals)
                        /\ Elements(plans[i].removals) = plans[i].packages
      BY DEF PlanFitsMachine
    <2> DEFINE profile == profiles[p].profile
    <2>1. PICK w \in DOMAIN profiles :
            /\ plans[i].sha256 = profiles[w].sha256
            /\ plans[i].abi = options.driverAbi
            /\ plans[i].features = TargetFeatures(profiles[w].profile, inventory.cpu)
            /\ plans[i].packages = profiles[w].profile.packages
            /\ plans[i].removals = profiles[w].profile.removals
            /\ BuildSucceeds(profiles[w].profile, inventory.cpu, options.driverAbi)
      BY PlanFacts
    <2>2. /\ profiles[w].profile = profile
          /\ profile = ProfileOf[profiles[p].sha256]
          /\ profiles[p].sha256 \in Bytes /\ ProfileOf[profiles[p].sha256].ok
      <3>1. Genuine(profiles[w]) /\ Genuine(profiles[p])
        BY DEF IInv, ProfilesVerified
      <3> QED BY <2>1, <3>1 DEF Genuine
    <2>3. IsSound(profile)
      BY <2>2, ProfileAssumption
    <2>4. \A policy \in profile.compiler :
            /\ policy.required \subseteq policy.allowed \cap inventory.cpu.features
            /\ policy.allowed \subseteq Supports(inventory.cpu.architecture)
      <3>1. CompilerSupported(profile, inventory.cpu)
        BY <2>1, <2>2 DEF BuildSucceeds
      <3>2. \A policy \in profile.compiler :
              /\ policy.required \subseteq policy.allowed
              /\ policy.allowed \subseteq Supports(policy.architecture)
        BY <2>3 DEF IsSound
      <3> HIDE DEF profile
      <3> QED BY <3>1, <3>2 DEF CompilerSupported
    <2>5. profile.hardware =>
            \E abi \in profile.abi :
              /\ NoEarlier(AbiOf[plans[i].abi], AbiOf[abi.minimum])
              /\ NoEarlier(AbiOf[abi.maximum], AbiOf[plans[i].abi])
      <3>1. profile.hardware => \E abi \in profile.abi : InRange(AbiOf[plans[i].abi], abi)
        BY <2>1, <2>2 DEF BuildSucceeds, AbiSupported
      <3>2. \A abi \in profile.abi :
              InRange(AbiOf[plans[i].abi], abi) =>
                /\ NoEarlier(AbiOf[plans[i].abi], AbiOf[abi.minimum])
                /\ NoEarlier(AbiOf[abi.maximum], AbiOf[plans[i].abi])
        <4> HIDE DEF profile
        <4> QED BY DEF InRange, AtMost, NoEarlier
      <3> QED BY <3>1, <3>2
    <2>6. Distinctly(plans[i].removals) /\ Elements(plans[i].removals) = plans[i].packages
      BY <2>1, <2>2, <2>3 DEF IsSound
    <2>7. plans[i].features = UNION {policy.allowed \cap inventory.cpu.features :
                                     policy \in profile.compiler}
      BY <2>1, <2>2 DEF TargetFeatures
    <2>8. \A x, y \in profile.compiler : x = y
      BY <2>3 DEF IsSound
    <2>9. \A policy \in profile.compiler :
            plans[i].features = policy.allowed \cap inventory.cpu.features
      BY <2>7, <2>8
    <2>10. plans[i].features
             \subseteq inventory.cpu.features \cap Supports(inventory.cpu.architecture)
      BY <2>4, <2>7
    <2>11. profile.compiler = {} => plans[i].features = {}
      BY <2>7
    <2>12. \A policy \in profile.compiler :
             policy.required \subseteq plans[i].features /\ plans[i].features \subseteq policy.allowed
      BY <2>4, <2>9
    <2> QED BY <2>5, <2>6, <2>10, <2>11, <2>12
  <1> QED BY <1>1, Invariant, PTL

\* The file a successful run leaves holds its plans.  (main.rs 239-244)
THEOREM SuccessOnDisk == Spec => []SuccessIsOnDisk
  <1>1. IInv => SuccessIsOnDisk
    BY DEF IInv, Results
  <1> QED BY <1>1, Invariant, PTL

\* Only the capabilities of the list are found.
LEMMA CapabilitiesAreKnown ==
  ASSUME NEW d PROVE DeviceCapabilities(d) \subseteq Capability
  <1>1. \A bus : DOMAIN Naming(bus) \subseteq Capability
    BY DEF Naming, Capability
  <1>2. ByName(d) \subseteq Capability
    BY <1>1 DEF ByName
  <1>3. ByCode(d) \subseteq Capability
    BY DEF ByCode
  <1> QED BY <1>2, <1>3 DEF DeviceCapabilities, Capability

\* The report lists every function without a driver.
LEMMA UndrivenIsUnresolved ==
  ASSUME NEW e \in DOMAIN inventory.devices, KeysDistinct, Undriven(inventory.devices[e])
  PROVE  inventory.devices[e].key \in Unresolved
  <1> DEFINE d == inventory.devices[e]
  <1>1. PICK c \in DeviceCapabilities(d) : d.bus # "sysfs" \/ c \in {"bluetooth", "firmware"}
    BY DEF Undriven
  <1>2. IsRequirementCandidate(d, c)
    <2>1. CASE d.bus # "sysfs"
      BY <2>1 DEF KeysDistinct, IsRequirementCandidate
    <2>2. CASE c \in {"bluetooth", "firmware"}
      BY <2>2 DEF IsRequirementCandidate
    <2> QED BY <1>1, <2>1, <2>2
  <1>3. c \in Capability /\ d \in Devices /\ d.driver = {} /\ Requires(d, c)
    BY <1>1, <1>2, CapabilitiesAreKnown DEF Devices, Undriven, Requires
  <1>4. d.key \in CapabilityRequirements(Devices)[c].unbound_device_keys
    BY <1>3 DEF CapabilityRequirements
  <1> DEFINE u == UnresolvedDevice(c, d)
  <1>5. u \in UnresolvedDevices(Devices, CapabilityRequirements(Devices))
    BY <1>3, <1>4 DEF UnresolvedDevices
  <1>6. u.device_key = d.key
    BY DEF UnresolvedDevice
  <1> HIDE DEF u
  <1> QED BY <1>5, <1>6 DEF Unresolved

\* The devices a coverage loop asks for have exactly one plan each.
LEMMA CoveredIsPlanned ==
  ASSUME IInv, Covered, NEW e \in DOMAIN inventory.devices,
         \/ Undriven(inventory.devices[e])
         \/ /\ options.requireTargets
            /\ inventory.devices[e].bus # "sysfs"
            /\ DeviceCapabilities(inventory.devices[e]) # {}
  PROVE  e \in DOMAIN plans /\ PlansOf(inventory.devices[e]) = {e}
  <1> DEFINE d == inventory.devices[e]
  <1>1. e \in MustResolve(inventory.devices)
    <2>1. CASE Undriven(d)
      BY <2>1, UndrivenIsUnresolved DEF IInv, MustResolve
    <2>2. CASE /\ options.requireTargets /\ d.bus # "sysfs"
               /\ DeviceCapabilities(d) # {}
      BY <2>2 DEF TargetProfileRequired, MustResolve
    <2> QED BY <2>1, <2>2
  <1>2. e \in DOMAIN plans
    BY <1>1 DEF Covered
  <1>3. \A i \in DOMAIN plans :
          i \in DOMAIN inventory.devices /\ plans[i].device = inventory.devices[i].key
    BY PlanFacts
  <1>4. \A i \in DOMAIN plans : plans[i].device = d.key => i = e
    BY <1>3 DEF IInv, KeysDistinct
  <1> QED BY <1>2, <1>3, <1>4 DEF PlansOf

\* A success leaves no device that needs a profile without its one plan.
\* (main.rs 199-233)
THEOREM SuccessCovers == Spec => []SuccessCoversMachine
  <1>1. IInv => SuccessCoversMachine
    <2> SUFFICES ASSUME IInv, result = "ok", NEW e \in DOMAIN inventory.devices,
                        \/ Undriven(inventory.devices[e])
                        \/ /\ options.requireTargets
                           /\ inventory.devices[e].bus # "sysfs"
                           /\ DeviceCapabilities(inventory.devices[e]) # {}
                 PROVE  Cardinality(PlansOf(inventory.devices[e])) = 1
      BY DEF SuccessCoversMachine, Devices
    <2>1. PlansOf(inventory.devices[e]) = {e}
      BY CoveredIsPlanned DEF IInv, Results
    <2> QED BY <2>1, FS_Singleton
  <1> QED BY <1>1, Invariant, PTL

\* A refused run does not touch the file of an earlier one.  (main.rs 199-241)
THEOREM OutputGuarded == Spec => OutputChangesOnlyWhenCovered
  <1> DEFINE Guard ==
        /\ result = "none"
        /\ \A d \in Devices : Undriven(d) => PlansOf(d) # {}
  <1>1. ASSUME IInv, [Next]_vars, output' # output PROVE Guard
    <2>1. pc \in {"open", "write"}
      <3>1. OpenOutput \/ WriteOutput
        BY <1>1 DEF Next, Command, vars, Invoke, Scan, Verify, LoadKeyring,
             LoadAllProfiles, PlanDevices, CheckCoverage, PrintPlan, Kill, Edit
      <3> QED BY <3>1 DEF OpenOutput, WriteOutput
    <2>2. result = "none" /\ Covered
      BY <1>1, <2>1 DEF IInv, Results
    <2>3. ASSUME NEW e \in DOMAIN inventory.devices, Undriven(inventory.devices[e])
          PROVE  PlansOf(inventory.devices[e]) # {}
      BY <1>1, <2>2, <2>3, CoveredIsPlanned
    <2> QED BY <2>2, <2>3 DEF Devices
  <1>2. ASSUME IInv, [Next]_vars PROVE [output' # output => Guard]_vars
    BY <1>1, <1>2
  <1> QED BY <1>2, Invariant, PTL DEF Spec, OutputChangesOnlyWhenCovered

-----------------------------------------------------------------------------
(* Until the first edit, what is planned is what verify_catalog saw.        *)

ListedIn(sha) ==
  \E j \in DOMAIN lock.profile : lock.profile[j].profile_sha256 = sha
Pinned ==
  /\ lock.ok => VerifyCatalog(tree) /\ lock = LockOf[tree[LockTxt]]
  /\ pc \notin {"idle", "scan", "verify"} => lock.ok
  /\ \A k \in keyring :
        k.scope = "hardware-profile" => lock.ok /\ Authorizes(lock.keyring_sha256, k.id)
  /\ \A i \in DOMAIN profiles : lock.ok /\ ListedIn(profiles[i].sha256)

LEMMA PinnedInit == Init => Pinned
  <1> SUFFICES ASSUME Init PROVE Pinned
    OBVIOUS
  <1>1. pc = "idle" /\ lock = [ok |-> FALSE] /\ keyring = {}
        /\ DOMAIN profiles = {}
    BY DEF Init
  <1> QED BY <1>1 DEF Pinned

LEMMA PinnedStep ==
  ASSUME IInv, edits = 0 => Pinned, [Next]_vars, edits' = 0
  PROVE  Pinned'
  <1>1. ~Edit
    BY InventoryAssumption DEF Edit, IInv, Typed
  <1>2. tree' = tree /\ edits = 0 /\ Pinned
    BY <1>1 DEF Next, Command, vars, Invoke, Scan, Verify, LoadKeyring, LoadAllProfiles,
         PlanDevices, CheckCoverage, PrintPlan, OpenOutput, WriteOutput, Kill
  <1>3. CASE Invoke
    <2>1. pc' = "scan" /\ lock' = [ok |-> FALSE] /\ keyring' = {} /\ DOMAIN profiles' = {}
      BY <1>3 DEF Invoke
    <2> QED BY <1>2, <2>1 DEF Pinned
  <1>4. CASE Verify
    <2>1. keyring' = {} /\ DOMAIN profiles' = {}
      BY <1>4 DEF Verify, IInv, Fresh
    <2>2. \/ VerifyCatalog(tree) /\ lock' = LockOf[tree[LockTxt]]
          \/ pc' = "idle" /\ lock' = lock
      BY <1>4 DEF Verify, Fail
    <2>3. VerifyCatalog(tree) => LockOf[tree[LockTxt]].ok
      BY DEF VerifyCatalog
    <2> QED BY <1>2, <2>1, <2>2, <2>3 DEF Pinned
  <1>5. CASE LoadKeyring
    <2>1. lock' = lock /\ lock.ok /\ DOMAIN profiles' = {}
      BY <1>2, <1>5 DEF LoadKeyring, Pinned, IInv, Fresh
    <2>2. tree[Keys] = lock.keyring_sha256 /\ tree[Keys] # Symlink
      BY <1>2, <2>1 DEF Pinned, VerifyCatalog, HasDigest, Regular
    <2>3. \/ keyring' = keyring
          \/ KeyringParses(KeysOf[tree[Keys]]) /\ keyring' = KeyringOf(tree[Keys])
      BY <1>5, <2>2 DEF LoadKeyring, Readable
    <2>4. \A k \in keyring' :
            k.scope = "hardware-profile" => Authorizes(lock.keyring_sha256, k.id)
      BY <1>2, <2>1, <2>2, <2>3, KeyringAuthorizes DEF Pinned
    <2> QED BY <1>2, <2>1, <2>4 DEF Pinned
  <1>6. CASE LoadAllProfiles
    <2>1. lock' = lock /\ lock.ok /\ keyring' = keyring
      BY <1>2, <1>6 DEF LoadAllProfiles, Pinned
    <2>2. /\ Discovered(tree) = Listed(lock.profile)
          /\ \A j \in DOMAIN lock.profile :
               tree[Profile(lock.profile[j].path)] = lock.profile[j].profile_sha256
      BY <1>2, <2>1 DEF Pinned, VerifyCatalog, ExactProfileTree, HasDigest
    <2>3. \A i \in DOMAIN profiles' : ListedIn(profiles'[i].sha256)
      <3>1. CASE profiles' = profiles
        BY <1>2, <3>1 DEF Pinned
      <3>2. CASE profiles' = [i \in Found |-> Verified(SortedPaths[i])]
        <4>1. ASSUME NEW i \in Found PROVE ListedIn(tree[Profile(SortedPaths[i])])
          BY <2>2 DEF Found, Listed, ListedIn
        <4>2. \A i \in Found : profiles'[i].sha256 = tree[Profile(SortedPaths[i])]
          BY <3>2 DEF Verified
        <4>3. DOMAIN profiles' = Found
          BY <3>2
        <4> QED BY <4>1, <4>2, <4>3
      <3> QED BY <1>6, <3>1, <3>2 DEF LoadAllProfiles
    <2>4. \A s : ListedIn(s)' = ListedIn(s)
      BY <2>1 DEF ListedIn
    <2> QED BY <1>2, <2>1, <2>3, <2>4 DEF Pinned
  <1>7. CASE ~(Invoke \/ Verify \/ LoadKeyring \/ LoadAllProfiles)
    <2>1. lock' = lock /\ keyring' = keyring /\ profiles' = profiles
      BY <1>1, <1>7 DEF Next, Command, vars, locals, Scan, PlanDevices, CheckCoverage,
           PrintPlan, OpenOutput, WriteOutput, Kill
    <2>2. pc' \notin {"idle", "scan", "verify"} => pc \notin {"idle", "scan", "verify"}
      BY <1>1, <1>7 DEF Next, Command, vars, Scan, PlanDevices, CheckCoverage,
           PrintPlan, OpenOutput, WriteOutput, Kill, Fail
    <2> QED BY <1>2, <2>1, <2>2 DEF Pinned, ListedIn
  <1> QED BY <1>3, <1>4, <1>5, <1>6, <1>7

\* As long as nobody edits the catalog, every planned profile is listed in the
\* verified lock and signed by a key of the keyring it pins.
\* (main.rs 173-198; CORINTH_PROTOCOL.md 26-27)
THEOREM UneditedPlansLocked == Spec => []UneditedPlansAreLocked
  <1>1. IInv /\ (edits = 0 => Pinned) => UneditedPlansAreLocked
    <2> SUFFICES ASSUME IInv, Pinned, NEW i \in DOMAIN plans
                 PROVE  /\ lock.ok
                        /\ \E j \in DOMAIN lock.profile :
                             lock.profile[j].profile_sha256 = plans[i].sha256
                        /\ Authorizes(lock.keyring_sha256, plans[i].keyId)
      BY DEF UneditedPlansAreLocked, PlansAreLocked
    <2>1. PICK v \in DOMAIN profiles :
            plans[i].keyId = profiles[v].keyId /\ plans[i].sha256 = profiles[v].sha256
      BY PlanFacts
    <2>2. [id |-> profiles[v].keyId, scope |-> "hardware-profile"] \in keyring
      BY DEF IInv, ProfilesVerified, Genuine
    <2>3. lock.ok /\ ListedIn(profiles[v].sha256)
      BY DEF Pinned
    <2>4. Authorizes(lock.keyring_sha256, profiles[v].keyId)
      <3> DEFINE k == [id |-> profiles[v].keyId, scope |-> "hardware-profile"]
      <3>1. k \in keyring /\ k.scope = "hardware-profile" /\ k.id = profiles[v].keyId
        BY <2>2
      <3> HIDE DEF k
      <3> QED BY <3>1 DEF Pinned
    <2> QED BY <2>1, <2>3, <2>4 DEF ListedIn
  <1>2. IInv /\ (edits = 0 => Pinned) /\ [Next]_vars => (edits = 0 => Pinned)'
    BY PinnedStep
  <1> QED BY <1>1, <1>2, PinnedInit, Invariant, PTL DEF Spec

-----------------------------------------------------------------------------
(* What the formal reference selects, for every list of profiles.           *)

Listing(view) ==
  /\ Len(view) \in Nat
  /\ \A i \in 1 .. Len(view) : Reference!isEligible(view[i]) =>
        view[i].priority \in Int /\ view[i].advisoryRank \in Int
Outranks(p, q) ==
  \/ p.priority > q.priority
  \/ p.priority = q.priority /\ p.advisoryRank > q.advisoryRank
Eligibles(view, n) == {i \in 1 .. n : Reference!isEligible(view[i])}

\* The selection among the first n profiles: none of them is eligible, or one
\* of them outranks all the others, or two are level and none outranks them.
PickOf(selection, view, n) ==
  LET among == Eligibles(view, n) IN
  \/ selection = Reference!NoProfile /\ among = {}
  \/ \E w \in among : /\ selection = Reference!SelectedProfile(view[w])
                      /\ \A j \in among \ {w} : Outranks(view[w], view[j])
  \/ \E i, j \in among :
        /\ selection = Reference!AmbiguousAt(view[i].priority, view[i].advisoryRank)
        /\ i # j
        /\ view[i].priority = view[j].priority
        /\ view[i].advisoryRank = view[j].advisoryRank
        /\ \A k \in among : ~Outranks(view[k], view[i])

LEMMA ConsiderKeepsBest ==
  ASSUME NEW view, Listing(view), NEW n \in 1 .. Len(view), Reference!isEligible(view[n]),
         NEW selection, PickOf(selection, view, n - 1)
  PROVE  PickOf(Reference!consider(selection, view[n]), view, n)
  <1> DEFINE before == Eligibles(view, n - 1)
             among == Eligibles(view, n)
             new == Reference!consider(selection, view[n])
  <1>1. among = before \cup {n} /\ n \notin before
    BY DEF Eligibles, Listing
  <1>2. \A i \in among : view[i].priority \in Int /\ view[i].advisoryRank \in Int
    BY DEF Eligibles, Listing
  <1> HIDE DEF before, among
  <1>3. CASE selection = Reference!NoProfile /\ before = {}
    <2>1. new = Reference!SelectedProfile(view[n])
      BY <1>3 DEF Reference!consider, Reference!NoProfile
    <2>2. n \in among /\ \A j \in among \ {n} : Outranks(view[n], view[j])
      BY <1>1, <1>3
    <2> QED BY <2>1, <2>2 DEF PickOf, among
  <1>4. ASSUME NEW w \in before, selection = Reference!SelectedProfile(view[w]),
               \A j \in before \ {w} : Outranks(view[w], view[j])
        PROVE  PickOf(new, view, n)
    <2>1. selection.kind = "Selected" /\ selection.profile = view[w]
      BY <1>4 DEF Reference!SelectedProfile
    <2>2. w \in among /\ n \in among /\ w # n
      BY <1>1
    <2>3. CASE Outranks(view[n], view[w])
      <3>1. new = Reference!SelectedProfile(view[n])
        BY <2>1, <2>3 DEF Reference!consider, Outranks
      <3>2. \A j \in among \ {n} : Outranks(view[n], view[j])
        BY <1>1, <1>2, <1>4, <2>2, <2>3 DEF Outranks
      <3> QED BY <2>2, <3>1, <3>2 DEF PickOf, among
    <2>4. CASE view[n].priority = view[w].priority /\ view[n].advisoryRank = view[w].advisoryRank
      <3>1. ~Outranks(view[n], view[w])
        BY <1>2, <2>2, <2>4 DEF Outranks
      <3>2. new = Reference!AmbiguousAt(view[n].priority, view[n].advisoryRank)
        BY <2>1, <2>4, <3>1 DEF Reference!consider, Outranks
      <3>3. \A k \in among : ~Outranks(view[k], view[n])
        BY <1>1, <1>2, <1>4, <2>2, <2>4 DEF Outranks
      <3> QED BY <2>2, <2>4, <3>2, <3>3 DEF PickOf, among
    <2>5. CASE Outranks(view[w], view[n])
      <3>1. ~Outranks(view[n], view[w])
        BY <1>2, <2>2, <2>5 DEF Outranks
      <3>2. ~(view[n].priority = view[w].priority /\ view[n].advisoryRank = view[w].advisoryRank)
        BY <1>2, <2>2, <2>5 DEF Outranks
      <3>3. new = selection
        BY <2>1, <3>1, <3>2 DEF Reference!consider, Outranks
      <3>4. \A j \in among \ {w} : Outranks(view[w], view[j])
        BY <1>1, <1>4, <2>5
      <3> QED BY <1>4, <2>2, <3>3, <3>4 DEF PickOf, among
    <2> QED BY <1>2, <2>2, <2>3, <2>4, <2>5 DEF Outranks
  <1>5. ASSUME NEW i \in before, NEW j \in before, i # j,
               selection = Reference!AmbiguousAt(view[i].priority, view[i].advisoryRank),
               view[i].priority = view[j].priority,
               view[i].advisoryRank = view[j].advisoryRank,
               \A k \in before : ~Outranks(view[k], view[i])
        PROVE  PickOf(new, view, n)
    <2>1. /\ selection.kind = "Ambiguous" /\ selection.priority = view[i].priority
          /\ selection.advisoryRank = view[i].advisoryRank
      BY <1>5 DEF Reference!AmbiguousAt
    <2>2. i \in among /\ j \in among /\ n \in among
      BY <1>1
    <2>3. CASE Outranks(view[n], view[i])
      <3>1. new = Reference!SelectedProfile(view[n])
        BY <2>1, <2>3 DEF Reference!consider, Outranks
      <3>2. \A k \in among \ {n} : Outranks(view[n], view[k])
        <4> SUFFICES ASSUME NEW k \in among \ {n} PROVE Outranks(view[n], view[k])
          OBVIOUS
        <4>1. k \in before /\ ~Outranks(view[k], view[i])
          BY <1>1, <1>5
        <4> QED BY <1>2, <2>2, <2>3, <4>1 DEF Outranks
      <3> QED BY <2>2, <3>1, <3>2 DEF PickOf, among
    <2>4. CASE ~Outranks(view[n], view[i])
      <3>1. new = selection
        BY <2>1, <2>4 DEF Reference!consider, Outranks
      <3>2. \A k \in among : ~Outranks(view[k], view[i])
        BY <1>1, <1>5, <2>4
      <3> QED BY <1>5, <2>2, <3>1, <3>2 DEF PickOf, among
    <2> QED BY <2>3, <2>4
  <1> QED BY <1>3, <1>4, <1>5 DEF PickOf, before

\* The fold picks the one best profile, the tie at the top, or nothing.
\* (HardwarePlan.idr 87-107)
THEOREM SelectPicksBest ==
  ASSUME NEW view, Listing(view)
  PROVE  PickOf(Reference!select(view), view, Len(view))
  <1> DEFINE N == Len(view)
             None == Reference!NoProfile
             V == {None} \cup {Reference!SelectedProfile(view[i]) : i \in 1 .. N}
                    \cup {Reference!AmbiguousAt(view[i].priority, view[i].advisoryRank)
                            : i \in 1 .. N}
             Next1(i, s) == IF Reference!isEligible(view[i])
                            THEN Reference!consider(s, view[i]) ELSE s
             Step == [x \in (1 .. N) \X V |-> Next1(x[1], x[2])]
             Picks(P) == [n \in 0 .. N |-> IF n = 0 THEN None
                                           ELSE IF Reference!isEligible(view[n])
                                           THEN Reference!consider(P[n - 1], view[n])
                                           ELSE P[n - 1]]
             picks == CHOOSE P : P = Picks(P)
  <1>1. ASSUME NEW i \in 1 .. N, NEW s \in V
        PROVE  Next1(i, s) \in V
    <2>1. s.kind \in {"NoProfile", "Selected", "Ambiguous"}
      BY DEF Reference!NoProfile, Reference!SelectedProfile, Reference!AmbiguousAt
    <2>2. \/ Reference!consider(s, view[i]) = s
          \/ Reference!consider(s, view[i]) = Reference!SelectedProfile(view[i])
          \/ Reference!consider(s, view[i])
               = Reference!AmbiguousAt(view[i].priority, view[i].advisoryRank)
      <3> HIDE DEF V
      <3> QED BY <2>1 DEF Reference!consider
    <2> QED BY <2>2
  <1>2. IsStep(Step, N, V)
    <2> HIDE DEF Next1, V
    <2> QED BY <1>1 DEF IsStep
  <1>3. \A i \in 1 .. N, s \in V : Step[<<i, s>>] = Next1(i, s)
    <2> HIDE DEF Next1, V
    <2> QED OBVIOUS
  <1>4. None \in V /\ N \in Nat
    BY DEF Listing
  <1>5. PICK f : IsChain(f, N, V, None, Step)
    <2> HIDE DEF Step, V, None, N
    <2> QED BY <1>2, <1>4, ChainExists
  <1>6. f = Picks(f)
    <2>1. \A i \in 1 .. N : i - 1 \in 0 .. N
      BY <1>4
    <2>2. \A i \in 1 .. N : f[i] = Next1(i, f[i - 1])
      <3> HIDE DEF Step, V, Next1
      <3> QED BY <1>3, <1>5, <2>1 DEF IsChain
    <2>3. f \in [0 .. N -> V] /\ f[0] = None
      BY <1>5 DEF IsChain
    <2>4. \A n \in 0 .. N : n = 0 \/ n \in 1 .. N
      BY <1>4
    <2> HIDE DEF V, None, N
    <2> QED BY <2>2, <2>3, <2>4
  <1>7. picks = Picks(picks)
    <2> HIDE DEF Picks
    <2> QED BY <1>6
  <1>8. Reference!select(view) = picks[N]
    BY DEF Reference!select
  <1> HIDE DEF picks
  <1>9. picks[0] = None /\ \A i \in 1 .. N : picks[i] = Next1(i, picks[i - 1])
    <2>1. \A i \in 1 .. N : i \in 0 .. N /\ i # 0
      BY <1>4
    <2>2. 0 \in 0 .. N
      BY <1>4
    <2> HIDE DEF N, None
    <2> QED BY <1>7, <2>1, <2>2
  <1> DEFINE T == {n \in 0 .. N : PickOf(picks[n], view, n)}
  <1>10. 0 \in T
    <2>1. Eligibles(view, 0) = {}
      BY DEF Eligibles
    <2>2. PickOf(None, view, 0)
      BY <2>1 DEF PickOf
    <2> QED BY <1>4, <1>9, <2>2
  <1>11. ASSUME NEW n \in 0 .. N - 1, n \in T
         PROVE  n + 1 \in T
    <2>1. n + 1 \in 1 .. N /\ (n + 1) - 1 = n /\ n + 1 \in 0 .. N
      BY <1>4
    <2>2. picks[n + 1] = Next1(n + 1, picks[n]) /\ PickOf(picks[n], view, n)
      BY <1>9, <1>11, <2>1
    <2>3. CASE Reference!isEligible(view[n + 1])
      <3>1. PickOf(Reference!consider(picks[n], view[n + 1]), view, n + 1)
        BY <2>1, <2>2, <2>3, ConsiderKeepsBest
      <3> QED BY <2>1, <2>2, <2>3, <3>1
    <2>4. CASE ~Reference!isEligible(view[n + 1])
      <3>1. Eligibles(view, n + 1) = Eligibles(view, n)
        BY <1>4, <2>1, <2>4 DEF Eligibles
      <3> QED BY <2>1, <2>2, <2>4, <3>1 DEF PickOf
    <2> QED BY <2>3, <2>4
  <1>12. \A n \in 0 .. N : n \in T
    <2> HIDE DEF T, N
    <2> QED BY <1>4, <1>10, <1>11, PositionInduction
  <1> QED BY <1>4, <1>8, <1>12

\* view is what the reference is given of the profiles and what was observed.
Viewed(view, ps, facts) ==
  /\ Listing(view)
  /\ Eligibles(view, Len(view)) = Eligible(facts, ps)
  /\ \A i \in DOMAIN ps : /\ view[i].profileId = ps[i].id
                          /\ view[i].priority = ps[i].priority
                          /\ view[i].advisoryRank = AdvisoryRank(ps[i], facts)

\* resolve is the reference, whatever the profiles and their order: it finds
\* nothing when the reference does, a tie when the reference does, and
\* otherwise names the profile the reference selects, if only to report its
\* conflict, of which the reference knows nothing.
\* (profile.rs 437-491; HardwarePlan.idr 92-108)
THEOREM ResolveIsSelect ==
  ASSUME NEW ps, ProfileList(ps), NEW facts, NEW view, Viewed(view, ps, facts)
  PROVE  LET r == resolve(facts, ps)
             s == Reference!select(view)
         IN
         \/ r.kind = "none" /\ s = Reference!NoProfile
         \/ r.kind = "ambiguous" /\ s.kind = "Ambiguous"
         \/ r.kind \in {"selected", "conflict"} /\ s = Reference!SelectedProfile(view[r.winner])
  <1> DEFINE r == resolve(facts, ps)
             s == Reference!select(view)
             E == Eligible(facts, ps)
             top == HighestPriority(E, ps)
             w == Winner(facts, ps, top)
             tied == Tied(facts, ps, top, w)
             rank(i) == AdvisoryRank(ps[i], facts)
  <1>1. PickOf(s, view, Len(view)) /\ Eligibles(view, Len(view)) = E
    BY SelectPicksBest DEF Viewed
  <1>2. CASE E = {}
    <2>1. s = Reference!NoProfile
      BY <1>1, <1>2 DEF PickOf
    <2>2. r = NoMatch
      BY <1>2 DEF resolve
    <2> QED BY <2>1, <2>2 DEF NoMatch
  <1>3. CASE E # {}
    <2>1. E \in SUBSET DOMAIN ps
      BY DEF Eligible
    <2>2. top \in SUBSET E /\ top # {}
      BY <1>3, <2>1, TopExists DEF HighestPriority
    <2>3. w \in top /\ \A j \in top : rank(j) <= rank(w)
      BY <2>1, <2>2, WinnerIsFirst
    <2>4. \A i \in E : ps[i].priority \in Int /\ rank(i) \in Nat
      BY <2>1, RankType DEF ProfileList, ProfileShape
    <2>5. \A i, j \in E : /\ view[i].priority = ps[i].priority /\ view[i].advisoryRank = rank(i)
                          /\ Outranks(view[i], view[j]) <=>
                               \/ ps[i].priority > ps[j].priority
                               \/ ps[i].priority = ps[j].priority /\ rank(i) > rank(j)
      BY <2>1 DEF Viewed, Outranks
    <2>6. /\ w \in E /\ w \in tied /\ tied \in SUBSET E
          /\ \A i \in E : i \in tied <=> ps[i].priority = ps[w].priority /\ rank(i) = rank(w)
      <3>1. \A i \in top : i \in E /\ \A j \in E : ps[j].priority <= ps[i].priority
        BY DEF HighestPriority
      <3>2. \A i \in E : (\A j \in E : ps[j].priority <= ps[i].priority) => i \in top
        BY DEF HighestPriority
      <3>3. \A i : i \in tied <=> i \in top /\ rank(i) = rank(w)
        BY DEF Tied
      <3> HIDE DEF E, top, tied, rank, w
      <3>4. \A i \in E : i \in top <=> ps[i].priority = ps[w].priority
        <4>1. \A i \in top : ps[i].priority <= ps[w].priority /\ ps[w].priority <= ps[i].priority
          BY <2>3, <3>1
        <4>2. \A i \in top : ps[i].priority = ps[w].priority
          BY <2>3, <2>4, <3>1, <4>1
        <4>3. \A i \in E : ps[i].priority = ps[w].priority => i \in top
          BY <2>3, <3>1, <3>2
        <4> QED BY <4>2, <4>3
      <3> QED BY <2>3, <3>1, <3>3, <3>4
    <2>7. \A i \in E : ~Outranks(view[i], view[w])
      <3> SUFFICES ASSUME NEW i \in E, Outranks(view[i], view[w]) PROVE FALSE
        OBVIOUS
      <3>1. ps[i].priority <= ps[w].priority
        BY <2>3 DEF HighestPriority
      <3>2. ps[i].priority = ps[w].priority /\ rank(i) > rank(w)
        BY <2>4, <2>5, <2>6, <3>1
      <3>3. i \in top
        BY <2>3, <3>2 DEF HighestPriority
      <3> QED BY <2>3, <2>4, <2>6, <3>2, <3>3
    <2> HIDE DEF E, top, w, tied, rank, s
    <2>8. CASE tied = {w}
      <3>1. \A j \in E \ {w} : Outranks(view[w], view[j])
        BY <2>4, <2>5, <2>6, <2>7, <2>8
      <3>2. s = Reference!SelectedProfile(view[w])
        BY <1>1, <2>4, <2>5, <2>6, <2>7, <3>1 DEF PickOf
      <3>3. Cardinality(tied) = 1
        BY <2>8, FS_Singleton
      <3>4. \/ r = Selected(w)
            \/ \E id : r = Conflict(w, id)
        <4> DEFINE rivals == Rivals(E, ps, w)
                   first == ps[CHOOSE j \in rivals : \A k \in rivals : j <= k].id
        <4>1. r = IF E = {} THEN NoMatch
                  ELSE IF Cardinality(tied) > 1 THEN Ambiguous({ps[i].id : i \in tied})
                  ELSE IF rivals # {} THEN Conflict(w, first)
                  ELSE Selected(w)
          BY DEF resolve, E, top, w, tied
        <4>2. ~(Cardinality(tied) > 1)
          BY <3>3
        <4> HIDE DEF r, rivals, first
        <4> QED BY <1>3, <4>1, <4>2
      <3>5. r.kind \in {"selected", "conflict"} /\ r.winner = w
        BY <3>4 DEF Selected, Conflict
      <3> QED BY <3>2, <3>5 DEF s
    <2>9. CASE tied # {w}
      <3>1. PICK j \in E : j # w /\ ps[j].priority = ps[w].priority /\ rank(j) = rank(w)
        BY <2>6, <2>9
      <3>2. \A i \in E : i # w => ~Outranks(view[i], view[w])
        BY <2>7
      <3>3. ~Outranks(view[w], view[j])
        BY <2>4, <2>5, <2>6, <3>1
      <3>4. s.kind = "Ambiguous"
        <4>1. s # Reference!NoProfile \/ E # {}
          BY <1>3
        <4>2. \A x \in E : \E y \in E \ {x} : ~Outranks(view[x], view[y])
          BY <2>6, <3>1, <3>2, <3>3
        <4>3. PICK i \in E :
                s = Reference!AmbiguousAt(view[i].priority, view[i].advisoryRank)
          BY <1>1, <1>3, <4>2 DEF PickOf
        <4> QED BY <4>3 DEF Reference!AmbiguousAt
      <3>5. Cardinality(tied) > 1
        <4>1. IsFiniteSet(tied)
          BY <2>1, <2>6, FS_Subset DEF ProfileList
        <4>2. {w} \in SUBSET tied /\ Cardinality({w}) = 1
          BY <2>6, FS_Singleton
        <4>3. /\ Cardinality({w}) <= Cardinality(tied)
              /\ Cardinality({w}) = Cardinality(tied) => {w} = tied
          BY <4>1, <4>2, FS_Subset
        <4>4. Cardinality(tied) \in Nat
          BY <4>1, FS_CardinalityType
        <4> QED BY <2>9, <4>2, <4>3, <4>4
      <3>6. r.kind = "ambiguous"
        BY <1>3, <3>5 DEF resolve, Ambiguous, E, top, w, tied
      <3> QED BY <3>4, <3>6 DEF s
    <2> QED BY <2>8, <2>9
  <1> QED BY <1>2, <1>3

\* The profiles the command loaded, as the reference sees them.
LEMMA LoadedViewed ==
  ASSUME IInv, NEW d
  PROVE  Viewed(ReferenceView(d), [i \in DOMAIN profiles |-> profiles[i].profile], Facts(d))
  <1> DEFINE view == ReferenceView(d)
             ps == [i \in DOMAIN profiles |-> profiles[i].profile]
             matching == Eligible(Facts(d), ps)
  <1>1. PICK n \in Nat : DOMAIN SortedPaths = 1 .. n
    BY TreeAssumption
  <1>2. DOMAIN profiles \subseteq 1 .. n
    BY <1>1 DEF IInv, ProfilesVerified
  <1>3. DOMAIN view = 1 .. n /\ Len(view) = n
    BY <1>1 DEF ReferenceView
  <1>4. ASSUME NEW i \in DOMAIN profiles
        PROVE  /\ view[i].profileId = ps[i].id
               /\ view[i].priority = ps[i].priority
               /\ view[i].advisoryRank = AdvisoryRank(ps[i], Facts(d))
               /\ view[i].trust = "Signed"
               /\ ProfileMatches(ps[i], Facts(d)) => view[i].matchState = "Matched"
               /\ ~ProfileMatches(ps[i], Facts(d)) => view[i].matchState = "Unmatched"
    <2> DEFINE p == profiles[i].profile
               rank == AdvisoryRank(p, Facts(d))
               state == IF ProfileMatches(p, Facts(d)) THEN "Matched" ELSE "Unmatched"
    <2>1. view[i] = [profileId |-> p.id, priority |-> p.priority, advisoryRank |-> rank,
                     trust |-> "Signed", matchState |-> state]
      BY <1>1, <1>2, Zenon DEF ReferenceView
    <2>2. ps[i] = p
      OBVIOUS
    <2>3. /\ ProfileMatches(p, Facts(d)) => state = "Matched"
          /\ ~ProfileMatches(p, Facts(d)) => state = "Unmatched"
      OBVIOUS
    <2> HIDE DEF view, ps, p, rank, state
    <2> QED BY <2>1, <2>2, <2>3 DEF rank
  <1>5. \A i \in 1 .. n : i \notin DOMAIN profiles => view[i] = [trust |-> "Unsigned"]
    BY <1>1 DEF ReferenceView
  <1>6. \A i : i \in matching <=> i \in DOMAIN profiles /\ ProfileMatches(ps[i], Facts(d))
    BY DEF Eligible
  <1>7. \A i \in 1 .. n : Reference!isEligible(view[i]) <=> i \in matching
    <2> SUFFICES ASSUME NEW i \in 1 .. n
                 PROVE  Reference!isEligible(view[i]) <=> i \in matching
      OBVIOUS
    <2>1. CASE i \in DOMAIN profiles
      <3> HIDE DEF view, ps, matching
      <3> QED BY <1>4, <1>6, <2>1 DEF Reference!isEligible
    <2>2. CASE i \notin DOMAIN profiles
      <3>1. view[i].trust = "Unsigned"
        BY <1>5, <2>2
      <3> HIDE DEF view, ps, matching
      <3> QED BY <1>6, <2>2, <3>1 DEF Reference!isEligible
    <2> QED BY <2>1, <2>2
  <1>8. \A i \in DOMAIN profiles : ps[i].priority \in Int /\ AdvisoryRank(ps[i], Facts(d)) \in Nat
    <2>1. ProfileList(ps)
      BY ResolvableProfiles
    <2>2. DOMAIN ps = DOMAIN profiles
      OBVIOUS
    <2> HIDE DEF ps
    <2> QED BY <2>1, <2>2, RankType DEF ProfileList, ProfileShape
  <1>9. Eligibles(view, n) = matching
    <2> HIDE DEF view, ps, matching
    <2> QED BY <1>2, <1>6, <1>7 DEF Eligibles
  <1>10. Listing(view)
    <2> HIDE DEF view, ps, matching
    <2> QED BY <1>3, <1>4, <1>6, <1>7, <1>8 DEF Listing
  <1> QED BY <1>3, <1>4, <1>9, <1>10 DEF Viewed, Eligible

\* The device planned, or left alone, gets what the reference selects: whatever
\* profiles were loaded and wherever they are in the directory.
\* (profile.rs 437-491; HardwarePlan.idr 87-108)
THEOREM SelectionAgrees == Spec => []SelectionAgreesWithReference
  <1>1. IInv => SelectionAgreesWithReference
    <2> SUFFICES ASSUME IInv, pc \in {"coverage", "print", "open", "write"},
                        NEW e \in DOMAIN inventory.devices
                 PROVE  LET d == inventory.devices[e]
                            s == Reference!select(ReferenceView(d)) IN
                        /\ s.kind # "Ambiguous"
                        /\ {plans[i].profileId : i \in PlansOf(d)} =
                             IF s.kind = "Selected" THEN {s.profile.profileId} ELSE {}
      BY DEF SelectionAgreesWithReference, Devices
    <2> DEFINE d == inventory.devices[e]
               view == ReferenceView(d)
               s == Reference!select(view)
               ps == [i \in DOMAIN profiles |-> profiles[i].profile]
               r == resolve(Facts(d), ps)
    <2>1. ProfileList(ps) /\ Viewed(view, ps, Facts(d))
      BY ResolvableProfiles, LoadedViewed
    <2>2. \/ r.kind = "none" /\ s = Reference!NoProfile
          \/ r.kind = "ambiguous" /\ s.kind = "Ambiguous"
          \/ r.kind \in {"selected", "conflict"} /\ s = Reference!SelectedProfile(view[r.winner])
      <3> HIDE DEF ps, view
      <3> QED BY <2>1, ResolveIsSelect
    <2>3. Resolution(d) = r
      BY DEF Resolution
    <2>4. \A i \in DOMAIN plans : i \in PlansOf(d) <=> i = e
      <3>1. \A i \in DOMAIN plans : i \in DOMAIN inventory.devices
                                    /\ plans[i].device = inventory.devices[i].key
        BY PlanFacts
      <3> QED BY <3>1 DEF IInv, KeysDistinct, PlansOf
    <2>5. CASE e \in DOMAIN plans
      <3>1. r.kind = "selected"
        BY <2>3, <2>5 DEF IInv, PlansMade, PlanMade
      <3>2. /\ r.winner \in DOMAIN profiles
            /\ plans[e].profileId = profiles[r.winner].profile.id
        BY <2>3, <2>5, PlanFacts
      <3>3. plans[e].profileId = view[r.winner].profileId
        <4>1. DOMAIN ps = DOMAIN profiles /\ ps[r.winner] = profiles[r.winner].profile
          BY <3>2
        <4> HIDE DEF ps, view, r
        <4> QED BY <2>1, <3>2, <4>1 DEF Viewed
      <3> HIDE DEF r, view, s
      <3>4. s.kind = "Selected" /\ s.profile = view[r.winner]
        BY <2>2, <3>1 DEF Reference!SelectedProfile
      <3>5. {plans[i].profileId : i \in PlansOf(d)} = {plans[e].profileId}
        BY <2>4, <2>5 DEF PlansOf
      <3> QED BY <3>3, <3>4, <3>5 DEF s, view
    <2>6. CASE e \notin DOMAIN plans
      <3>1. r.kind = "none"
        BY <2>3, <2>6 DEF IInv, PlansMade
      <3>2. s.kind = "NoProfile"
        <4> HIDE DEF r, s
        <4> QED BY <2>2, <3>1 DEF Reference!NoProfile
      <3>3. PlansOf(d) = {}
        BY <2>4, <2>6 DEF PlansOf
      <3> QED BY <3>2, <3>3
    <2> QED BY <2>5, <2>6
  <1> QED BY <1>1, Invariant, PTL
=============================================================================
