# A TLA+ model of Arach-HWD

Arach-HWD decides which signed hardware profile each device of a machine gets,
and writes the answer as a provision plan.  It does not install anything: what
it must get right is that a plan says only what a signed, complete, unambiguous
catalog says, for this machine.  These modules model that decision and the path
of the data into it: from the download of a catalog, and from the scan of the
machine, to the plan file; together with the recovery health of a running
profile and the records by which a machine is qualified.

- [1. The system](#1-the-system)
- [2. The modules](#2-the-modules)
- [3. What is checked](#3-what-is-checked)
- [4. Bounds](#4-bounds)
- [5. Fairness](#5-fairness)
- [6. What is proved](#6-what-is-proved)
- [7. Where the code and its documents disagree](#7-where-the-code-and-its-documents-disagree)
- [8. What is not modelled](#8-what-is-not-modelled)
- [9. Plan](#9-plan)

Source paths are relative to the directory of the repository, `src/`; so
`src/src/repository.rs` is the Rust file `src/repository.rs` of the crate.

## 1. The system

Everything is a short-lived command of one thread.  The state that outlives a
command is on disk: the catalog directory, the plan file, a directory of
qualification records.  The concurrency is that of processes on one file system
and of people who edit it.

| Component | Source | State it keeps | Operations | What makes it hard |
|---|---|---|---|---|
| Catalog synchronisation | `repository.rs`, `bin/arach-hwd-catalog-sync.rs` | the output path, staging and download directories, one serial per process | `sync_catalog`: read the signed manifest, stage, fetch each object, verify, fsync, rename, fsync the parent, clean up | several processes on one path, kills, recycled process ids, failing steps and clean-ups, power loss |
| Catalog verification | `catalog.rs` | none; reads a tree | `verify_catalog` | the tree is exactly what the lock lists, without links |
| Keyrings and signatures | `signature.rs` | a keyring in memory | `Keyring::load`, `verify_payload`, `load_profiles` | revocation, scopes, two files with one profile id |
| Profile selection | `profile.rs`, `native/profile_rank.f90` | none | `HardwareProfile::validate`, `profile_matches`, `advisory_rank`, `resolve` | independence of file order, ties, conflicts from either side; what later steps take for granted of a valid profile |
| Preflight | `preflight.rs`, `scan.rs`, `main.rs` | none; the report file | `preflight_command`: which devices need a profile | class nodes and bus functions of one card; drivers bound only by the live kernel; the report is written before the verdict |
| Provision plans | `plan.rs` | none | `build_plan`, `build_compiler_target` | three feature lists, version comparison |
| Plan command | `main.rs` | its locals; the output file | scan, verify, load, resolve each device, check the coverage, write | the files are read twice, the output is truncated first |
| Recovery health | `health.rs` | none; the evidence is kept by the kernel and elan-guardian | `assess_recovery` | counters at their limit, window boundary, quarantine over time |
| Hardware scan | `scan.rs` | what it has read so far; sysfs, the driver tables and the firmware trees are the machine's | `scan_inventory_with_driver_sources`: seven scanners, the parsers of five tables, four annotations | udev and installers change the machine during the scan; caps on candidates; links; a glob |
| Qualification | `qualification.rs`, `bin/arach-hwd-record.rs`, `bin/arach-hwd-qualify.rs` | records in a directory | record evidence, qualify a release | artifacts replaced between check and use, interrupted records |
| Driver source manifest | `sources.rs`, `scan.rs` | none | `driver_source_manifest`: read each table again and hash it | read separately from their use |
| Formal reference | `formal/idris2`, `formal/agda` | none | the selection fold | it must say what `resolve` does |
| Facts, library surface | `facts.rs`, `lib.rs` | none | data types | — |

How they interact: `sync_catalog` leaves a directory that `plan` reads;
`verify_catalog` and the signature code are called by both.  `plan` calls
scan, verification, keyring, profiles, `resolve`, `build_plan` and preflight
in that order, in one process; `scan` and `preflight` make the same scan.
Nothing calls back and nothing is shared in memory: what interferes with a scan
is the kernel, udev and whoever installs tables and firmware.  What `assess_recovery` is asked about comes from outside.

What makes each one correct:

- *synchronisation*: at the path there is nothing, or one whole snapshot; an
  `Ok` is about that snapshot; a call disturbs no directory but its own;
- *verification, keyrings*: what passes is what the lock pins and what an
  unrevoked key of the right scope signed;
- *selection*: the profile of a device does not depend on the order of files,
  is the best eligible one, and conflicts with no other that matches;
- *scan*: what it says of a driver some table said, and the manifest pins that
  table; firmware lies in the roots; a class node follows the function it is of;
- *preflight*: a success means that every function has a driver; a failure for
  unresolved devices leaves its whole report for the installer;
- *plan command*: a success has a plan for every device that needs one, on
  disk; a refusal leaves the last plan file alone;
- *plans*: they ask for what the CPU has and the policy allows, and for a
  Driver ABI in the signed range; their rollback undoes exactly what they
  install;
- *recovery*: a failure is never reported as health, and recovery stops;
- *qualification*: a record is written once; what qualifies is what a recorder
  bound, meets the rules of its level, and is on disk with the bytes recorded.

## 2. The modules

```
Catalog ── CatalogSync ── CatalogDurability    CatalogSync implements CatalogPublication
   │            │              └── CatalogDurabilityProofs
   │            └── CatalogSyncProofs
   └── PlanCommand ── PlanCommandProofs            compared with HardwarePlan
         ├── Preflight ── Sysfs
         └── Profile ── ProfileProofs
               ├── Resolve
               └── Plan
Sysfs ── Preflight ── DriverMetadata ── DriverScan ── DriverScanProofs
Recovery ── RecoveryProofs
Qualification ── QualificationProofs
OrderTheorems ── ProfileProofs, DriverScanProofs     lemmas that know no model
```

The `MC` modules give the constants of a checkable instance.  A definition
whose comment says *Mutant* is a plausible mistake in the code; the properties
are run against each of them, to know that they can fail.

**Catalog** — `verify_catalog`, `Keyring::from_toml`, `verify_payload` and
`load_profiles` as predicates on a tree.  A tree is a function from file names
to contents or `Symlink`.  A digest *is* the content (SHA-256 is taken to be
injective); what a content is when it is parsed is a constant: `LockOf`,
`KeysOf`, `SignatureOf`, `ProfileOf`.  An Ed25519 signature is a record of the
key and of the payload it signs.

**CatalogPublication** — the abstract promise of synchronisation: a write-once
register.  It takes one catalog, a call is answered with it or with an error.

**CatalogSync** — `sync_catalog_with_fetcher`.  `Proc` are slots processes run
in; `pid` is the process id and `serial` the value of `STAGING_SERIAL`, which
together name the two directories of a call.  Each file operation another
process can observe is an action, in the order of the code:

| action | code | |
|---|---|---|
| `Start`, `CallAgain`, `Exit`, `Kill` | the process | a new process starts its serial anew; an id is free again once its process is gone |
| `BeginCall` | 75-83 | `validate_output`, then the download directory |
| `ReadManifest` | 85-95, 115-125 | everything that is asked of the manifest |
| `CreateStage` | 126-132 | `validate_output` again, then `mkdir`, which fails on a name in use |
| `FetchObject` | 134-158 | the fetcher delivers the object, something else, or an error; length and digest are compared |
| `VerifyStage` | 159, 176-218 | `verify_staged_catalog` |
| `SyncStage`, `RenameStage`, `SyncParent` | 160-168 | `rename` replaces an empty directory, and nothing else |
| `RemoveStage`, `RemoveTemp` | 170-174, 98-99 | results ignored, as in the code |

A failing step goes through `Fail`, which removes the stage if there is one.
A failed `SyncParent` makes the call answer `Err` although its catalog is at
the path, as the code does.

**CatalogDurability** — the same on a disk that loses power.  `dirty` are
the files of the published tree whose bytes no fsync covers; a power loss ends
every process, loses any of them, and may undo a rename whose parent was not
synced.

**Recovery** — `assess_recovery` over time.  The environment breaks the
controller, recovers it (with or without success), lets time pass and starts a
new counting window; the disposition is a function of what is left.

**Resolve** — `matches`, `profile_matches`, `advisory_rank`, `resolve`.  A
rule is a function from the fields it gives to their values.

**Profile** — `HardwareProfile::validate`, check by check, and
`CpuArchitecture::supports`.  A document is what parsed: lists are sequences, an
optional field is a set of at most one, a text is a value.  What the six
functions that look at the characters of a text refuse is one constant,
`Refused`.  `ProfileFrom` makes of a document the profile that Resolve and Plan
work with; `IsSound` says what they rely on.

**HardwarePlan** — the selection fold of `formal/idris2/HardwarePlan.idr`.

**Sysfs** — the seven scanners: what `scan_pci`, `scan_usb`, `scan_i2c`,
`scan_acpi`, `scan_simple_bus` and `scan_class_devices` make of one directory of
`/sys`, and `parse_cpu_facts`.  A tree gives for each bus and class the entries
and for each entry its attributes, named by the path the code reads them under:
`device/device/driver` is the driver link two devices further.  So the *order of
the fall-backs* of each reader (`First`) is what is modelled.  A text is a value;
the words that the code looks for in it are the constants `Contained` and
`Leading`.  A node also names its `parent` functions, each with the path from the
node to the driver link of that function; no reader looks at these, and a property
compares with them.

**Preflight** — the capabilities of a device (`device_capabilities`), which class
entries stand for one (`is_requirement_candidate`), the sets of devices that must
have a profile, and the report.

**Plan** — `build_plan` and `build_compiler_target`.  `AbiOf` is
`AbiVersion::from_str`.

**DriverMetadata** — the five parsers of the tables of modules, the dynamic
program of `glob_matches` (`Reached[i]` is its i-th row, as a set), the four
functions that annotate the devices, with their caps, `resolve_firmware_file`,
and the manifest.  A table is its set of lines, a line its words.  `Take` is an
iterator over a `BTreeSet` cut after `n`.

**DriverScan** — the `scan` and `preflight` commands on a machine that changes.
The scan is a list of input operations `<<phase, argument>>`, done in the order
of `Phases` and, in a phase, of the arguments:

| phase | argument | code (`scan.rs`) |
|---|---|---|
| `bus`, `class` | a directory | 82-115, 775-788 |
| `alias`, `modinfo` | a table | 119-126: the candidates |
| `firmware`, `resolve` | a table; all roots | 127-131, 1340-1476 |
| `dep`, `builtin` | a table | 132-135 |
| `hash-alias`, `hash-firmware`, `hash-dep`, `hash-builtin` | a table, again | 141-147, 155-181 |
| `root` | a root, again | 182-199 |

One action does one operation (`ScanBus`, `ScanClass`, `ReadTable`,
`ResolveFirmware`, `CheckRoot`), and what is computed between them is computed by
`Finish` from `devices`, `reads` and `found`, which hold what the operations
returned.  `Discover` finds the default tables and roots before, `OpenOutput`,
`WriteOutput` and `Verdict` are the end of `preflight_command`.  `Rebind`,
`EditTable` and `EditRoot` are the environment.  `trees` and `held` are history
variables, all that `/sys` and each table have been; no guard reads them.

**PlanCommand** — `plan_command` step by step, with a catalog that others
edit file by file between its steps, and with several runs on one output file.
`profiles` and `plans` are functions with gaps, indexed by the position of the
path or of the device, instead of re-numbered sequences.  Its scan is one step:
the inventories it may return are built by MCPlanCommand with the operators of
Sysfs and `Annotate` of DriverMetadata, so that they are what a scan returns.

**Qualification** — `arach-hwd-record` and `arach-hwd-qualify` on one
directory.  A recorder goes `idle`, `root`, then for each piece of evidence
`inspect` (is it a regular file), `resolve` (`canonicalize`), `read`; then
`create` (`create_new`) and `write`.  A qualifier loads and validates the record
and takes the same three steps for each artifact.  The three are separate
because the owner of the directory can replace an artifact between them.
`route` says how a path leads to its artifact (the file itself, a link, a linked
directory) and `content` what is at each place.  A write may become visible in
part or be cut short; a cut text parses only if it ends after some digits of the
last duration, so `Prefixes` has those texts and `Torn`.  `given` is how the
command line names the record, which decides what its parent directory is.
`calm` is a history variable the properties use; no guard reads it.  A file that
is there can be read; of the syntax of identities and revisions only the verdict
is kept (`wellFormed`).

## 3. What is checked

| run | bounds that matter | properties | what it shows |
|---|---|---|---|
| `sync_race` | two processes, two snapshots, failing operations and clean-ups, kills, an id used again, an administrator | `TypeOK`, `OkIsMine`, `StageIsMine`, `ImplementsRegister` | the output path is a write-once register; an `Ok` is for the caller's own snapshot; a stage is never another call's, nor a dead one's |
| `sync_checks` | a faulty and a healthy call; five manifests, four of them bad in one respect each; another file, a longer one or a link in place of an object | `PublishedIsSnapshot`, `PublishedIsUsable`, `NoLitter`, `CallsReturn`, `HealthyCallPublishes` | what is published is whole and is what `plan` accepts; each call ends and leaves no directory; the faulty call cannot keep the healthy one from ending with a catalog at the path |
| `sync_damage` | one power loss | `DamageIsDetected`, `SettledNeverChanges`, `LeftoversUntouched` | `verify_catalog` notices lost bytes of every pinned file; what is settled stays; the directories of dead processes are never adopted or changed |
| `sync_powerloss` | the same | `PublishedIsSnapshot` is **violated** | see section 7 |
| `recovery_bounded` | counters of four values, a window of two | `TypeOK`, `BoundedRecovery`, `FailureIsReported`, `OnlyEvidenceRelaxes` | recovery is bounded and failures are reported, saturated counters included |
| `recovery_interval` | the same | `QuarantineLasts` is **violated** | see section 7 |
| `plan` | every catalog of up to three of seven profiles that tie, outrank, conflict with or repeat each other, on three machines with two Driver ABIs; seven signed profiles that are each wrong in one respect, and one for older Driver ABIs; and one catalog in two runs on one output file, with two edits out of nine and a profile the lock does not list | `TypeOK`, `SelectionAgreesWithReference`, `NoConflictOnDevice`, `PlanFitsMachine`, `SuccessCoversMachine`, `PlansAreSigned`, `SuccessIsOnDisk`, `UneditedPlansAreLocked`, `OutputChangesOnlyWhenCovered` | `resolve` is the fold of the formal reference; plans fit and cover the machine; whatever is edited, plans are signed, and without edits they are locked; the file is whole after a success, untouched by a refusal |
| `plan_toctou` | one run, two edits | `PlansAreLocked` is **violated** | see section 7 |
| `driver_scan` | two laptops under two changes of `/sys`, tables or firmware; links, oversized tables, linked roots; every pattern of up to three characters against a modalias of up to three, and a pattern that is not ASCII | `TypeOK`, `CandidatesAgreeWithReference`, `EvidenceHasSource`, `SteadySourceIsHashed`, `FirmwareStaysInside`, `ReadyIsHonest`, `ReportReachesInstaller`, `DefaultScanSucceeds`, `NodesFollowParents` | candidates are exactly what the tables name; each piece of evidence has its table and each table its digest; firmware stays in its roots; a preflight is honest although the scan is no snapshot; class nodes follow the functions near them |
| `scan_virtual` | one laptop with a WireGuard interface and an attribute file of the network class | `UnresolvedArePhysical` is **violated** | see section 7 |
| `qualification` | two recorders and a qualifier, every level, soaks at and around the limits, torn writes, kills, one change by the owner | `TypeOK`, `RecordWrittenOnce`, `QualifiedWasBound`, `LevelsAreOrdered`, `UndisturbedIsIntact`, `RecordedIsQualifiable` | no record is overwritten; what qualifies was bound by one recorder, suffices for its level and every lower one, and is on disk; recording and qualifying agree |
| `qualification_bare` | one recorder with valid evidence | `BareNameRecords` is **violated** | see section 7 |

`CHECK_DEADLOCK FALSE` is given everywhere because the system does stop: a
behaviour ends when the bound on processes, runs or time is used up.

## 4. Bounds

- *Processes* (`Proc`, `Pid`, `MaxProcesses`, `MaxSerial`): the interference of
  calls is pairwise: one loses a race to one other.  The second process to start
  may be given the id of the first once that was killed, so two also reach a
  directory a dead process left under the names a new one uses.
- *Catalogs*: one profile and one driver table give a snapshot of eight
  objects, one of each kind the lock pins or the code lists by name.  The sizes
  are small numbers; `MaxObjectBytes` and `MaxTotalBytes` are met exactly and
  exceeded by one of the manifests.
- *Faults* name what may go wrong in a run: `io` (a file operation of the main
  path fails), `remove` (one of a clean-up), `fetch`, `kill`, `admin`; `Faulty`
  are the slots they happen in, so that a run can have a healthy call beside a
  faulty one.  They are split over the runs because they multiply; the proofs
  are for all of them at once.
- *Plan*: three profiles are enough for a winner, a rival and a bystander, in
  each order of their paths.  Two edits replace a profile together with its
  signature, which is what it takes to get a signed but unlisted one in.
- *Plan, documents*: every profile is a document that went through `Validate`.
  The invalid ones require a feature they do not allow, or allow one of another
  architecture, remove a package they do not install, or one twice, have an
  empty range of Driver ABIs, a package without version, or half a property.
  Without the check in question the plan would be unsound, and TLC evaluates
  `ProfileAssumption` on what `ProfileFrom` makes of all of them.
- *Plan, machines*: a card without a driver, a card the live kernel binds, a
  touchpad with its event node, and a sensor that only the target's tables know.
- *Scan*: the caps are 2 instead of 32 and 64, and there are tables with three
  candidates, files or blobs for a device, so that each cap cuts.  `MaxChanges`
  is two: a driver is unbound and bound again, or a table and `/sys` change
  between the same two operations.  Worlds with changes and without are in one
  run.  Patterns of three characters over `a`, `b`, `*` and `?` have every
  neighbourhood of a star: at either end, doubled, before and after a letter.
- *Recovery*: `MaxU32 = 3` with a threshold of 2 makes both the sum of the
  counters and twice the threshold saturate.  `EndTime` is longer than the
  window and the quarantine interval.
- *Qualification*: one recorder asks for each level in turn, with each way to be
  refused, and the other is its rival at the path.  The durations are real:
  3599, 3600 and 86400 seconds, and 36001, whose first four digits are exactly
  what `compatible` asks for.  `MaxEdits` is one change, a new content, a
  removal, a link or a linked directory for an artifact, or a use of the
  record's path; one is enough to come between any two steps of a process.

## 5. Fairness

Only `FairSpec` of CatalogSync has any: weak fairness of the steps of a call
that is under way.  The code justifies it: a call has no lock and waits for
nobody; its one external wait is `curl`, which is started with `--max-time`;
and the operating system schedules a runnable process.  There is no fairness
for starting a process, calling again, exiting, being killed or for the
administrator, so liveness rests on none of these.  The properties of the
other modules are safety.

## 6. What is proved

TLAPS checks these for every value of the constants that meets the assumptions
`BoundsAssumption`, `NamesAssumption`, `ManifestAssumption` (CatalogSync),
`LostAssumption` (CatalogDurability), `PolicyAssumption` (Recovery),
`TreeAssumption`, `ProfileAssumption`, `InventoryAssumption` (PlanCommand),
`ScanAssumption`, `TextAssumption`, `LimitAssumption`, `MachineAssumption`
(DriverScan), `ProcAssumption`, `PlaceAssumption`,
`RequestAssumption`, `EditsAssumption` and `LayoutAssumption` (Qualification).
They say that names and contents do not collide, that numbers are numbers, and
what `HardwareProfile::validate` and the scan guarantee of their results.  Two say
something of the machine.  `TextAssumption`: the order of texts puts no two at
one place.  `MachineAssumption`: a table that can be read has finitely many lines
(the code refuses one above its cap), and a path from a class entry to the driver
link of a function reads that link, however long the path is.  Only
`NodesFollowParents` needs the last.  TLC evaluates all of them in each run.

**CatalogSyncProofs.**  `TypeCorrect`, `NoPartialPublication`
(`PublishedIsSnapshot`), `UsablePublication` (`PublishedIsUsable`), `OkStaysTrue`
(`OkIsMine`), `StagingIsExclusive` (`StageIsMine`), `LeftoversAreSafe`
(`LeftoversUntouched`) and `SyncImplementsRegister`, for any number of processes, ids and manifests, with
every fault.  None of the safety properties is inductive alone: that
publishing moves a whole snapshot needs to know what the stage holds, which
needs `mkdir` to have been exclusive, which needs two live processes not to
share an id and a process not to repeat a serial.  `CallInv` says these things:
`PidInv` (ids of live processes differ), `NameInv` (a call's two directories
carry its id and a serial it has passed), `ManifestInv` (after `ReadManifest`
the manifest is admissible), `StageInv` (`StageIsMine`), `IndexInv` (past the
fetch every object is there), `VerifiedInv` (past the verification the stage is
one the lock accounts for); `IInv` adds `OutputInv` and `OkInv`, what is at the
path and what was answered about it.  The refinement maps the
rename to `Publish`, the parent's fsync to `Accept`, the failure of a step to
`Refuse`, and the rest to stuttering.  `NothingLeft` (`NoLitter`) assumes that
nobody is killed and that removals succeed; its invariant `Kept` names for each
directory the call that is still to publish or to remove it.

**CatalogDurabilityProofs.**  `SettledStays` (`SettledNeverChanges`),
`LeftoversSurvive` (`LeftoversUntouched`) and `DamageDetected`
(`DamageIsDetected`), for any number of calls and losses.  `CallInv` survives a
loss of power and `OutputInv` does not, which is why they are apart; in its
place `PathInv` says that the files at the path are those of a publication, some
without their bytes.  `LostAssumption` says that such a file is no lock and that
no repository serves one like it.  Then what passes `verify_catalog` has its
lock, and the lock pins the rest.

**RecoveryProofs.**  `TypeCorrect`, `RecoveryIsBounded`,
`FailureIsAlwaysReported`, `RelaxationNeedsEvidence`, at any width of the
counters.  The invariant is the typing and `age <= now`, without which the age
is not bounded; the arithmetic of saturation is two lemmas.

**OrderTheorems.**  What the libraries lack.  A finite set has a first element in
any strict order (`FiniteHasFirst`), and of its first `n` elements it is known how
many there are and that what is left out comes after them (`FirstElements`).
`PositionInduction` is induction over the positions of a list in the form the
provers can use, about a *set* of positions: it follows from the least element of
the set of those where the claim fails.  `ChainExists` says that a function whose
value at each position is computed from the one before exists; with these two a
theorem can be proved about what a fold or a loop leaves at its end.

**ProfileProofs.**  `ValidateGuarantees`: a document of the types of
`HardwareProfile` that validates is sound, whatever it says.  This is what
PlanCommand assumes of each content of a profile as `ProfileAssumption`, so the
theorems about the command rest on the code of `validate` and not on a reading
of it.  The code compares a rollback with the packages by a count and one
inclusion; that this makes them equal, without repetition, is the lemma
`CountedList`.  `SelectionIsBest`: for any list of profiles and any facts, what
`resolve` selects matches, has the greatest priority, among those the greatest
rank, shares both with no other, and conflicts with no other match.

**PlanCommandProofs.**  `TypeCorrect`, `PlansSigned`, `NoConflictPlanned`,
`PlansFit`, `SuccessCovers`, `SuccessOnDisk`, `OutputGuarded` and
`UneditedPlansLocked`, for any catalogs, edits, machines and numbers of runs, and
`SelectionAgrees` (`SelectionAgreesWithReference`).
The invariant records what each local was made of when the step that made it is
over: `KeysHeld` (the keyring is the unrevoked profile keys of some content),
`ProfilesVerified` (each profile is genuine: signed bytes under a key of it),
`KeysDistinct`, `PlansMade` (each plan is `ProvisionPlan` of the profile
`resolve` selected), `Results`, and `Fresh` (locals are empty before their
step).  `UneditedPlansLocked` needs one more, `Pinned`: until the first edit
the tree is the one that was verified.

The formal reference is a fold.  `SelectPicksBest` says what it leaves, for every
list: nothing if no entry is eligible, else the one that outranks all the others,
else a tie at the top.  The claim has to be made of every prefix (`PickOf`), and
`ConsiderKeepsBest` is its step: a tie is forgotten when a better profile comes, and
a selection becomes a tie only with its equal.  `ResolveIsSelect` concludes that
`resolve`, which filters, takes a maximum, sorts and compares, answers `none`,
`ambiguous` or a winner exactly when the fold does, and the same winner, in whatever
order the profiles come; only a conflict, which the reference does not know, makes
the two differ, and then `resolve` refuses.  `SelectionAgrees` carries this to the
plans of the command.

**DriverScanProofs.**  `TypeCorrect`, `HonestReady` (`ReadyIsHonest`),
`ReportDelivered` (`ReportReachesInstaller`), `DefaultSucceeds`
(`DefaultScanSucceeds`), `SourcesHashed` (`SteadySourceIsHashed`),
`FirmwareInside` (`FirmwareStaysInside`), `CandidatesAgree`
(`CandidatesAgreeWithReference`), `EvidenceSourced` (`EvidenceHasSource`) and
`ParentsFollowed` (`NodesFollowParents`), for every machine, every table, every
sequence of changes and any caps.  `IInv` says what the locals were made of:
`DevicesScanned` (for each bus and class that was scanned the devices of some
tree `/sys` has been, for the others none: two devices with one key come from one
directory, hence from one tree), `ReadsSound` (each read is of an operation that
is over and is a content that table had and that could be read), `InventoryMade`
(the inventory is what `Finish` makes of them), `Outcome` (what each ending
says of the report and its file) and `Discovered` (default tables and roots were
there when they were looked for).  The heart of `HonestReady` is that a function
with a capability and no driver is unresolved, whatever the annotations add: they
change no capability.  `Known` (every content a table had is a finite set of lines,
every tree is one the kernel shows, the reads are finitely many) is what the theorems
about the evidence rest on.

`GlobIsReference` is about any pattern and any value: the loop of `glob_matches`
accepts exactly the values that can be cut into pieces the characters of the
pattern stand for.  The loop keeps the set of places it may be at, and the proof
that each of them ends a cut of the pattern so far goes by position.
`CandidatesAgree` adds the rest of the path of a candidate: the literal prefix
under which a pattern is looked up never hides a match (`PrefixIsNecessary`) if it is
ASCII (section 8), the
modaliases of a device are the texts its attributes give, and the cap keeps the
first in the order of the texts and no fewer than it allows (`TakenAreFirst`).
`EvidenceSourced`: each source a device lists is in the manifest and, in a content
it had, names that driver for this device; and every driver reported has a source,
unless the cap on sources was met.  `ParentsFollowed`: as long as `/sys` did not
change, an unresolved class node has no driver on its device, on the device of that,
or on the directory above it: whichever of the seven paths of `class_driver_name`
comes first, the node is resolved.  It says nothing of functions farther away, which
the code does not look at: the event node of an HDA jack (`eventN`, `inputN`,
`card0`, the PCI function) is three links from its driver, scanned without one, and
no requirement only because it bears the name of its jack.  The laptop of the run
has such a node.

**QualificationProofs.**  `TypeCorrect`, `RecordIsWrittenOnce`,
`QualifiedBound`, `LevelsOrdered`, `UndisturbedIntact` and
`RecordedQualifiable`, for any number of recorders, qualifiers, artifacts,
requests and owner's changes.  The invariants, each inductive with the ones
before it: `TypeInv` (the types, and where in the evidence a process is),
`BoundInv` (what is in the file is from the recorder whose file it is, in whole
or cut after a digit; who creates or writes has a valid record; who qualifies
has one that was in the file), `CalmInv` (as long as the artifacts are
undisturbed, those a qualifier has passed are as recorded), `SoundInv` (those
a recorder passed are readable and in the root), `RefusalInv` (why a qualifier
that has a valid, undisturbed record may still have refused it) and `WrittenInv`.
That a cut record claims no longer a soak rests on a lemma about division:
the first digits of a number make no greater number.

**Only model-checked**: liveness (`CallsReturn`, `HealthyCallPublishes`), which
needs `ENABLED`, and the five disagreements of section 7, each a counterexample.
Every other property of a run is stated by a theorem.

## 7. Where the code and its documents disagree

1. **A published catalog may lose bytes** (`sync_powerloss`,
   `repository.rs:160`).  The directories are synced, the objects never are.
   `docs/REMOTE_CATALOG.md:96`: "A partial download is never published."
   `verify_catalog` refuses the damaged tree later, but the path stays taken.
2. **Quarantine has no duration** (`recovery_interval`, `health.rs:25`).
   `quarantine_seconds` is validated and never read: at the end of the counting
   window the profile leaves quarantine, with a missing device for Degraded (the
   trace of the run) and with a working one for Healthy.  `docs/RECOVERY.md:16-17`
   says it is quarantined for its declared interval.
3. **Verified files are read again** (`plan_toctou`, `main.rs:173`).  A profile
   and signature replaced after `verify_catalog` are planned though the lock
   does not list their bytes, as long as a key of the keyring signed them.
   `docs/CORINTH_PROTOCOL.md:26-27` says the command rejects byte changes
   before it resolves a device.
4. **Virtual interfaces are requirements** (`scan_virtual`, `scan.rs:1786`).
   `is_virtual_network` knows `lo` and seven other words of a name.  An interface such as
   `wg0`, and the attribute file `bonding_masters` of the class directory, is
   taken for a network device without a driver, and the preflight of a machine
   whose hardware is all bound fails.  (So would one whose kernel has the file
   `/sys/class/firmware/timeout`, by the same lines.)  `docs/CORINTH_PROTOCOL.md:49-50`: "Virtual
   interfaces and child class nodes are excluded from the unresolved set".
5. **A record named by its file name alone is refused** (`qualification_bare`,
   `bin/arach-hwd-record.rs:208`).  `Path::parent` of such a name is `Some("")`,
   not `None`, so the fallback to `.` never applies and `""` is no directory.
   `README.md:51` documents `arach-hwd-record --output QUALIFICATION.toml`.
   `arach-hwd-qualify` fails on the same name in `canonicalize("")`.

## 8. What is not modelled

- TOML, URL, name, digest and path syntax: checks of the characters of one
  text.  Their results are fields (`ok`, `safe`, `headerOk`) or the constant
  `Refused`.
- Text that is not ASCII, with one exception.  `literal_prefix` takes each byte of a
  pattern for a character (`scan.rs` 1533-1537, 1565-1569), so that a pattern with
  another character before its first wildcard is filtered out although it matches.
  `Latin1` models this; `CandidatesAgreeWithReference` says which candidates there
  are only for patterns with an ASCII prefix (`AsciiPrefix`), as those of the kernel
  are, and that there are no others for all patterns.  In the rest of a pattern `?`
  stands for a byte.
- SHA-256 and Ed25519: digests are contents, signatures are records.
- In the scan: a link put in place of a table between the check of its kind and
  its read; commas in the paths of tables, at which the report splits; the NUL
  form of `modules.builtin.modinfo` told by the file's content (here by its name,
  `Modinfo`), and such a table given with `--modules-alias`; that
  `parse_modules_firmware` reads a content with NULs a second time as lines of words
  (`scan.rs` 1624-1660), which finds more in it only if a line of it has a colon; several names in one
  firmware attribute; `kernel_release`, which is a part of the path; the list of
  authorities, a constant text; the CPU's family and model and the DMI texts,
  which are copied.
- Option parsing, printing, JSON, and the health checks, digests and recovery
  policy that `build_plan` copies.
- `formal/agda`: types without an operation.  `native/profile_rank.f90`: the sum
  that `rank_impl` computes, which Resolve models.

## 9. Plan

Order of work, most important behaviour first:

1. done: Catalog, CatalogPublication, CatalogSync, CatalogDurability, with
   their proofs;
2. done: Profile, Resolve, HardwarePlan, Preflight, Plan, PlanCommand, with their
   proofs;
3. done: Recovery, with its proofs;
4. done: Qualification, with its proofs;
5. done: Sysfs, DriverMetadata, DriverScan, with their proofs;
6. done: the glob, the candidates, the evidence and the fold of the formal
   reference, compared with the code for every input;
7. left: liveness stays with TLC, and section 8 says what is outside the models.
