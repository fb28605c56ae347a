---------------------------- MODULE CatalogSync ----------------------------
(***************************************************************************)
(* sync_catalog (src/src/repository.rs): processes that each fetch, verify *)
(* and publish one signed catalog snapshot at the same output path, under  *)
(* failing fetches and file operations, kills at any step, recycled        *)
(* process ids and an administrator who uses the path for something else.  *)
(*                                                                         *)
(* A step is one file operation another process could observe.  The order  *)
(* of a call:  check -> manifest -> stage -> fetch* -> verify -> sync ->   *)
(* rename -> syncparent -> [rmstage] -> rmtemp -> returned.                *)
(***************************************************************************)
EXTENDS Catalog, Functions

CONSTANTS
  Proc,             \* slots a sync process can run in
  Pid,              \* process ids; two live processes never share one
  Manifest,         \* the manifests a repository can serve
  SizeOf,           \* Bytes -> length
  MaxManifestBytes, MaxObjects, MaxObjectBytes, MaxTotalBytes,
  Faults,           \* subset of {"io", "remove", "fetch", "kill", "admin"}: what may
                    \* go wrong; "remove" is an I/O error of a clean-up
  Faulty,           \* the slots it may go wrong in, in Proc
  Substitutes,      \* what a fetcher may deliver instead, in Bytes or Symlink
  MaxProcesses,     \* bound: processes started in a behaviour
  MaxSerial,        \* bound: values STAGING_SERIAL takes in one process
  NoPid, NoName, NoManifest

ASSUME BoundsAssumption ==
  /\ MaxProcesses \in Nat /\ MaxSerial \in Nat
  /\ MaxManifestBytes \in Nat /\ MaxObjects \in Nat
  /\ MaxObjectBytes \in Nat /\ MaxTotalBytes \in Nat
ASSUME NamesAssumption ==
  /\ NoPid \notin Pid
  /\ NoName \notin Pid \X Nat
  /\ NoManifest \notin Manifest
\* A manifest is its parsed header and its objects, in order; signed says
\* whether the detached signature verifies under the local bootstrap keyring.
ASSUME ManifestAssumption ==
  /\ SizeOf \in [Bytes -> Nat]
  /\ Symlink \notin Bytes
  /\ \A m \in Manifest :
       /\ m.signed \in BOOLEAN /\ m.headerOk \in BOOLEAN /\ m.size \in Nat
       /\ Len(m.objects) \in Nat /\ DOMAIN m.objects = 1 .. Len(m.objects)
       /\ \A i \in DOMAIN m.objects :
             /\ m.objects[i].size \in Nat
             /\ m.objects[i].safe \in BOOLEAN

VARIABLES
  output,    \* what is at the output path
  stages,    \* .arach-hwd-catalog-PID-SERIAL.tmp directories and their trees
  temps,     \* .arach-hwd-repository-PID-SERIAL.download directories
  pc, pid, serial,
  man,       \* the manifest this call verified
  next,      \* index of the next object to fetch
  temp, stage, \* the names of this call's two directories
  result,    \* what the last call of this slot returned
  started    \* processes started so far

fs   == <<output, stages, temps>>
vars == <<output, stages, temps, pc, pid, serial, man, next, temp, stage,
          result, started>>

Name == Pid \X Nat
Labels == {"idle", "check", "manifest", "stage", "fetch", "verify", "sync",
           "rename", "syncparent", "rmstage", "rmtemp", "returned"}
EmptyTree == [file \in {} |-> Symlink]
NotCatalog(kind) == [kind |-> kind, files |-> EmptyTree]

With(tree, file, content) ==
  [f \in DOMAIN tree \cup {file} |-> IF f = file THEN content ELSE tree[f]]
Without(f, x) == [y \in DOMAIN f \ {x} |-> f[y]]

-----------------------------------------------------------------------------
(* What is checked of a manifest and of a staged tree.                     *)

PathsOf(m) == {m.objects[i].path : i \in DOMAIN m.objects}

\* The running u64 total of validate_manifest exceeds MAX_TOTAL_BYTES after
\* some object iff the whole sum does; each size is at most MaxObjectBytes.
TotalSize(m) ==
  FoldFunctionOnSet(LAMBDA o, sum : o.size + sum, 0, m.objects, DOMAIN m.objects)

\* Mutant: the set of the paths seen so far is not looked at.
DistinctUrls(m) ==
  \A i, j \in DOMAIN m.objects : i # j => m.objects[i].url # m.objects[j].url
DistinctObjects(m) ==
  \A i, j \in DOMAIN m.objects : i # j =>
    m.objects[i].path # m.objects[j].path /\ m.objects[i].url # m.objects[j].url

ValidManifest(m) ==
  /\ m.headerOk
  /\ m.objects # <<>>
  /\ Len(m.objects) <= MaxObjects
  /\ DistinctObjects(m)
  /\ \A i \in DOMAIN m.objects :
        /\ m.objects[i].safe
        /\ m.objects[i].size \in 1 .. MaxObjectBytes
  /\ TotalSize(m) <= MaxTotalBytes

\* Everything sync_catalog_with_fetcher asks of the manifest before it
\* touches the disk.
Admissible(m) ==
  /\ m.size \in 1 .. MaxManifestBytes
  /\ m.signed
  /\ ValidManifest(m)

ExpectedPaths(lock) ==
  {Keys, LockTxt, Top("packages.toml"), Top("packages.toml.sig"), Top("driver-abi")}
  \cup {Source(s) : s \in RequiredSources}
  \cup {Profile(lock.profile[i].path) : i \in DOMAIN lock.profile}
  \cup {SigFile(lock.profile[i].path) : i \in DOMAIN lock.profile}

\* Mutant: the manifest may list objects the lock does not know.
SupersetOfExpected(m, lock) == ExpectedPaths(lock) \subseteq PathsOf(m)
ExactSnapshot(m, lock) == PathsOf(m) = ExpectedPaths(lock)

VerifyStagedCatalog(m, tree) ==
  LET keyring == KeyringOf(tree[Keys]) IN
  /\ VerifyCatalog(tree)
  /\ KeyringParses(KeysOf[tree[Keys]])
  /\ LoadProfiles(tree, keyring)
  /\ Regular(tree, Top("packages.toml")) /\ Regular(tree, Top("packages.toml.sig"))
  /\ VerifyPayload(keyring, tree[Top("packages.toml")],
                   tree[Top("packages.toml.sig")], "package-index")
  /\ Regular(tree, Top("driver-abi")) /\ tree[Top("driver-abi")] \in DriverAbiText
  /\ ExactSnapshot(m, LockOf[tree[LockTxt]])

\* read_bounded, the length and the digest of one fetched object.
Accepted(object, content) ==
  /\ content # Symlink
  /\ SizeOf[content] = object.size
  /\ content = object.sha256

-----------------------------------------------------------------------------
(* The file system (Linux).                                                *)

\* Path::exists follows links: a dangling one does not exist.
Exists(out) == out.kind \notin {"absent", "dangling"}

\* Mutant: publication replaces whatever is at the path.
ReplacesAnything(out) == TRUE
\* Mutant: publication expects the administrator to make the directory.
RenameNeedsDirectory(out) == out.kind = "empty"
\* rename(2) of a directory: over nothing or an empty directory, else an error.
RenameSucceeds(out) == out.kind \in {"absent", "empty"}

\* Mutant: create_dir_all, which accepts a directory that is already there.
AlwaysFree(name, taken) == TRUE
\* DirBuilder::create is mkdir(2): it fails on a name in use.
NameFree(name, taken) == name \notin taken

-----------------------------------------------------------------------------
Init ==
  /\ output = NotCatalog("absent")
  /\ stages = [n \in {} |-> EmptyTree]
  /\ temps = {}
  /\ pc = [p \in Proc |-> "idle"]
  /\ pid = [p \in Proc |-> NoPid]
  /\ serial = [p \in Proc |-> 1]
  /\ man = [p \in Proc |-> NoManifest]
  /\ next = [p \in Proc |-> 1]
  /\ temp = [p \in Proc |-> NoName]
  /\ stage = [p \in Proc |-> NoName]
  /\ result = [p \in Proc |-> "none"]
  /\ started = 0

CanFail(p, fault) == p \in Faulty /\ fault \in Faults
Goto(p, from, to) == pc[p] = from /\ pc' = [pc EXCEPT ![p] = to]

\* A new process: an id no live process has, STAGING_SERIAL = 1.
Start(p) ==
  /\ started < MaxProcesses
  /\ started' = started + 1
  /\ Goto(p, "idle", "check")
  /\ \E id \in Pid :
       /\ \A q \in Proc : pid[q] # id
       /\ pid' = [pid EXCEPT ![p] = id]
  /\ serial' = [serial EXCEPT ![p] = 1]
  /\ man' = [man EXCEPT ![p] = NoManifest]
  /\ result' = [result EXCEPT ![p] = "none"]
  /\ UNCHANGED <<fs, next, temp, stage>>

\* A library caller of the same process calls again.
CallAgain(p) ==
  /\ serial[p] + 1 < MaxSerial
  /\ Goto(p, "returned", "check")
  /\ man' = [man EXCEPT ![p] = NoManifest]
  /\ result' = [result EXCEPT ![p] = "none"]
  /\ UNCHANGED <<fs, pid, serial, next, temp, stage, started>>

Exit(p) ==
  /\ Goto(p, "returned", "idle")
  /\ pid' = [pid EXCEPT ![p] = NoPid]
  /\ UNCHANGED <<fs, serial, man, next, temp, stage, result, started>>

\* sync_catalog: validate_output, then the private download directory.
BeginCall(p) ==
  LET name == <<pid[p], serial[p]>> IN
  \/ /\ ~Exists(output)
     /\ NameFree(name, temps)
     /\ Goto(p, "check", "manifest")
     /\ temps' = temps \cup {name}
     /\ temp' = [temp EXCEPT ![p] = name]
     /\ serial' = [serial EXCEPT ![p] = @ + 1]
     /\ UNCHANGED <<output, stages, pid, man, next, stage, result, started>>
  \/ /\ Exists(output) \/ ~NameFree(name, temps) \/ CanFail(p, "io")
     /\ Goto(p, "check", "returned")
     /\ serial' = [serial EXCEPT ![p] = IF Exists(output) THEN @ ELSE @ + 1]
     /\ result' = [result EXCEPT ![p] = "err"]
     /\ UNCHANGED <<fs, pid, man, next, temp, stage, started>>

\* Download the manifest and its signature, then every check on them.
ReadManifest(p) ==
  \/ \E m \in Manifest :
       /\ Admissible(m)
       /\ Goto(p, "manifest", "stage")
       /\ man' = [man EXCEPT ![p] = m]
       /\ UNCHANGED <<fs, pid, serial, next, temp, stage, result, started>>
  \/ /\ CanFail(p, "fetch") \/ \E m \in Manifest : ~Admissible(m)
     /\ Goto(p, "manifest", "rmtemp")
     /\ result' = [result EXCEPT ![p] = "err"]
     /\ UNCHANGED <<fs, pid, serial, man, next, temp, stage, started>>

\* The tree mkdir leaves under a name.
Opened(name) == IF name \in DOMAIN stages THEN stages[name] ELSE EmptyTree

\* validate_output again, then the private staging directory.  A failure here
\* returns before the code that would remove the directory.
CreateStage(p) ==
  LET name == <<pid[p], serial[p]>> IN
  \/ /\ ~Exists(output)
     /\ NameFree(name, DOMAIN stages)
     /\ Goto(p, "stage", "fetch")
     /\ stages' = With(stages, name, Opened(name))
     /\ stage' = [stage EXCEPT ![p] = name]
     /\ serial' = [serial EXCEPT ![p] = @ + 1]
     /\ UNCHANGED <<output, temps, pid, man, next, temp, result, started>>
  \/ /\ Exists(output) \/ ~NameFree(name, DOMAIN stages) \/ CanFail(p, "io")
     /\ Goto(p, "stage", "rmtemp")
     /\ serial' = [serial EXCEPT ![p] = IF Exists(output) THEN @ ELSE @ + 1]
     /\ result' = [result EXCEPT ![p] = "err"]
     /\ UNCHANGED <<fs, pid, man, next, temp, stage, started>>

\* Mutant: the error path forgets the staging directory.
FailKeepingStage(p, from) ==
  /\ Goto(p, from, "rmtemp")
  /\ result' = [result EXCEPT ![p] = "err"]
  /\ UNCHANGED <<output, temps, pid, serial, man, next, temp, stage, started>>
\* Mutant: a failure after the rename takes the publication back.
FailRemovingOutput(p, from) ==
  /\ Goto(p, from, "rmtemp")
  /\ output' = IF from = "syncparent" THEN NotCatalog("absent") ELSE output
  /\ result' = [result EXCEPT ![p] = "err"]
  /\ UNCHANGED <<temps, pid, serial, man, next, temp, stage, started>>
\* Any `?` of the closure: the call will return Err, after remove_dir_all.
Fail(p, from) ==
  /\ Goto(p, from, "rmstage")
  /\ result' = [result EXCEPT ![p] = "err"]
  /\ UNCHANGED <<output, temps, pid, serial, man, next, temp, stage, started>>

\* Mutant: the loop over the objects runs one past the end.
PastLastObject(p) == next[p] > Len(man[p].objects)
LastObject(p) == next[p] = Len(man[p].objects)

\* create_private_tree, fetch, read_bounded, length, digest, permissions.
\* A fetcher that goes wrong may deliver a substitute, or nothing.
FetchObject(p) ==
  /\ pc[p] = "fetch"
  /\ LET object == man[p].objects[next[p]] IN
     \/ \E content \in Bytes :
          /\ Accepted(object, content)
          /\ Goto(p, "fetch", IF LastObject(p) THEN "verify" ELSE "fetch")
          /\ stages' = [stages EXCEPT ![stage[p]] = With(@, object.path, content)]
          /\ next' = [next EXCEPT ![p] = @ + 1]
          /\ UNCHANGED <<output, temps, pid, serial, man, temp, stage, result, started>>
     \/ \E content \in Substitutes :
          /\ CanFail(p, "fetch")
          /\ ~Accepted(object, content)
          /\ stages' = [stages EXCEPT ![stage[p]] = With(@, object.path, content)]
          /\ Fail(p, "fetch")
     \/ /\ CanFail(p, "fetch") \/ CanFail(p, "io")
        /\ UNCHANGED stages
        /\ Fail(p, "fetch")

VerifyStage(p) ==
  /\ pc[p] = "verify"
  /\ LET verified == VerifyStagedCatalog(man[p], stages[stage[p]]) IN
     \/ /\ verified
        /\ Goto(p, "verify", "sync")
        /\ UNCHANGED <<fs, pid, serial, man, next, temp, stage, result, started>>
     \/ /\ CanFail(p, "io") \/ ~verified
        /\ UNCHANGED stages
        /\ Fail(p, "verify")

SyncStage(p) ==
  \/ /\ Goto(p, "sync", "rename")
     /\ UNCHANGED <<fs, pid, serial, man, next, temp, stage, result, started>>
  \/ /\ CanFail(p, "io")
     /\ UNCHANGED stages
     /\ Fail(p, "sync")

RenameStage(p) ==
  \/ /\ RenameSucceeds(output)
     /\ Goto(p, "rename", "syncparent")
     /\ output' = [kind |-> "catalog", files |-> stages[stage[p]]]
     /\ stages' = Without(stages, stage[p])
     /\ UNCHANGED <<temps, pid, serial, man, next, temp, stage, result, started>>
  \/ /\ CanFail(p, "io") \/ ~RenameSucceeds(output)
     /\ UNCHANGED stages
     /\ Fail(p, "rename")

\* If this fails the call returns Err although the catalog is published.
SyncParent(p) ==
  \/ /\ Goto(p, "syncparent", "rmtemp")
     /\ result' = [result EXCEPT ![p] = "ok"]
     /\ UNCHANGED <<fs, pid, serial, man, next, temp, stage, started>>
  \/ /\ CanFail(p, "io")
     /\ UNCHANGED stages
     /\ Fail(p, "syncparent")

\* Mutant: removal waits for a directory that publication moved away.
RemoveExistingStage(p) ==
  /\ stage[p] \in DOMAIN stages
  /\ Goto(p, "rmstage", "rmtemp")
  /\ stages' = Without(stages, stage[p])
  /\ UNCHANGED <<output, temps, pid, serial, man, next, temp, stage, result, started>>
\* let _ = remove_dir_all(stage): nothing there, or a failure, is ignored.
RemoveStage(p) ==
  /\ Goto(p, "rmstage", "rmtemp")
  /\ \/ stages' = Without(stages, stage[p])
     \/ CanFail(p, "remove") /\ UNCHANGED stages
  /\ UNCHANGED <<output, temps, pid, serial, man, next, temp, stage, result, started>>

\* The locals of a call go out of scope when it ends.
ForgetLocals(p) ==
  /\ next' = [next EXCEPT ![p] = 1]
  /\ temp' = [temp EXCEPT ![p] = NoName]
  /\ stage' = [stage EXCEPT ![p] = NoName]

\* let _ = remove_dir_all(temporary), then the call returns.
RemoveTemp(p) ==
  /\ Goto(p, "rmtemp", "returned")
  /\ \/ temps' = temps \ {temp[p]}
     \/ CanFail(p, "remove") /\ UNCHANGED temps
  /\ ForgetLocals(p)
  /\ UNCHANGED <<output, stages, pid, serial, man, result, started>>

\* The process dies; its directories stay and its id becomes free.
Kill(p) ==
  /\ CanFail(p, "kill")
  /\ pc[p] \notin {"idle", "returned"}
  /\ pc' = [pc EXCEPT ![p] = "idle"]
  /\ pid' = [pid EXCEPT ![p] = NoPid]
  /\ result' = [result EXCEPT ![p] = "none"]
  /\ ForgetLocals(p)
  /\ UNCHANGED <<fs, serial, man, started>>

\* Someone else uses the output path: an empty directory, a file or a
\* populated directory, or a dangling link.
AdminUsesPath ==
  /\ "admin" \in Faults
  /\ output.kind = "absent"
  /\ \E kind \in {"empty", "other", "dangling"} : output' = NotCatalog(kind)
  /\ UNCHANGED <<stages, temps, pc, pid, serial, man, next, temp, stage,
                 result, started>>

\* One step of a call that is under way.
CallStep(p) ==
  \/ BeginCall(p)   \/ ReadManifest(p) \/ CreateStage(p) \/ FetchObject(p)
  \/ VerifyStage(p) \/ SyncStage(p)    \/ RenameStage(p) \/ SyncParent(p)
  \/ RemoveStage(p) \/ RemoveTemp(p)

Next ==
  \/ \E p \in Proc : Start(p) \/ CallAgain(p) \/ Exit(p) \/ CallStep(p) \/ Kill(p)
  \/ AdminUsesPath

Spec == Init /\ [][Next]_vars

\* The operating system schedules every process, and curl's --max-time ends
\* every transfer; nothing makes a process start, call again, or die.
FairSpec == Spec /\ \A p \in Proc : WF_vars(CallStep(p))
-----------------------------------------------------------------------------
(* Properties.                                                             *)

\* Every variable has its type: output is absent, in other use or a tree,
\* staging directories are named by process id and serial, and a call that
\* fetches has a manifest and an object of it to fetch next.
TypeOK ==
  /\ output.kind \in {"absent", "empty", "other", "dangling", "catalog"}
  /\ DOMAIN stages \subseteq Name
  /\ temps \subseteq Name
  /\ pc \in [Proc -> Labels]
  /\ pid \in [Proc -> Pid \cup {NoPid}]
  /\ serial \in [Proc -> Nat]
  /\ man \in [Proc -> Manifest \cup {NoManifest}]
  /\ next \in [Proc -> Nat]
  /\ temp \in [Proc -> Name \cup {NoName}]
  /\ stage \in [Proc -> Name \cup {NoName}]
  /\ result \in [Proc -> {"none", "ok", "err"}]
  /\ started \in 0 .. MaxProcesses
  /\ \A p \in Proc :
        pc[p] = "fetch" => man[p] \in Manifest /\ next[p] \in DOMAIN man[p].objects

\* tree holds exactly the first n objects of m, with the manifest's bytes.
Holds(tree, m, n) ==
  /\ DOMAIN tree = {m.objects[i].path : i \in 1 .. n}
  /\ \A i \in 1 .. n : tree[m.objects[i].path] = m.objects[i].sha256
HoldsAll(tree, m) == Holds(tree, m, Len(m.objects))

\* Whatever was interrupted or raced, a catalog at the output path holds
\* every object of one signed, bounded manifest and nothing else: never a
\* part of it or a mixture of two.  (repository.rs 105-174; REMOTE_CATALOG.md)
PublishedIsSnapshot ==
  output.kind = "catalog" =>
     \E m \in Manifest : Admissible(m) /\ HoldsAll(output.files, m)

\* What is published is what `arach-hwd plan` will accept, and holds no file
\* that the catalog lock does not account for.
PublishedIsUsable ==
  output.kind = "catalog" =>
     LET tree == output.files IN
     /\ VerifyCatalog(tree)
     /\ LoadProfiles(tree, KeyringOf(tree[Keys]))
     /\ DOMAIN tree = ExpectedPaths(LockOf[tree[LockTxt]])

\* A call that answers Ok answers for the tree that is at the path: its own
\* manifest's, not that of a process that published in between.
OkIsMine ==
  \A p \in Proc : result[p] = "ok" =>
     output.kind = "catalog" /\ HoldsAll(output.files, man[p])

HasStage(p) == pc[p] \in {"fetch", "verify", "sync", "rename"}
\* The name a call has taken, from mkdir until it no longer refers to it.
Owns(p, name) ==
  (HasStage(p) \/ pc[p] \in {"syncparent", "rmstage"}) /\ stage[p] = name

\* Between mkdir and rename a staging directory holds what its call fetched
\* and nothing else, although a killed process with the same id may have
\* left one under a name this process will try.
StageIsMine ==
  \A p \in Proc : HasStage(p) =>
     /\ stage[p] \in DOMAIN stages
     /\ Holds(stages[stage[p]], man[p], next[p] - 1)
     /\ \A q \in Proc \ {p} : ~Owns(q, stage[p])

\* What a killed process left behind is never adopted, changed or published
\* by a later call, even one that computes the same name.
LeftoversUntouched ==
  [][\A name \in DOMAIN stages :
        (\A p \in Proc : ~Owns(p, name)) =>
           /\ name \in DOMAIN stages' /\ stages'[name] = stages[name]
           /\ \A p \in Proc : ~Owns(p, name)']_vars

\* The register: what a manifest publishes, and what each call was answered.
SnapshotOf(m) ==
  [file \in PathsOf(m) |->
     m.objects[CHOOSE i \in DOMAIN m.objects : m.objects[i].path = file].sha256]
Publishable(m) == Admissible(m) /\ VerifyStagedCatalog(m, SnapshotOf(m))
Publications == {SnapshotOf(m) : m \in {n \in Manifest : Publishable(n)}}
Answered(p) == CASE result[p] = "ok"  -> SnapshotOf(man[p])
                 [] result[p] = "err" -> NoName
                 [] OTHER             -> NoManifest
PublishedTree == IF output.kind = "catalog" THEN output.files ELSE NoManifest
Answers == [p \in Proc |-> Answered(p)]
Register == INSTANCE CatalogPublication WITH
  Caller   <- Proc,
  Catalogs <- Publications,
  None     <- NoManifest,
  Failed   <- NoName,
  catalog  <- PublishedTree,
  answer   <- Answers

\* sync_catalog implements the write-once register of CatalogPublication.
ImplementsRegister == Register!Spec

\* A call that is under way ends, whatever fails and whoever else publishes.
CallsReturn ==
  \A p \in Proc : pc[p] \notin {"idle", "returned"} ~> pc[p] \in {"idle", "returned"}

\* Calls cannot all lose, and no failure of one keeps another from succeeding:
\* once a process in which nothing goes wrong fetches a good snapshot, a
\* catalog comes to be at the path, its own or that of a faster one.
HealthyCallPublishes ==
  \A p \in Proc \ Faulty :
     pc[p] = "fetch" /\ Publishable(man[p]) ~> output.kind = "catalog"

\* Without kills and failing removals no call leaves a directory behind.
NoLitter ==
  (\A p \in Proc : pc[p] \in {"idle", "returned"}) => DOMAIN stages = {} /\ temps = {}
=============================================================================
