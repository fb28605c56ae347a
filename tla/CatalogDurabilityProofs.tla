---------------------- MODULE CatalogDurabilityProofs ----------------------
(***************************************************************************)
(* What a loss of power does to a published catalog, for any calls, faults *)
(* and number of losses.                                                   *)
(***************************************************************************)
EXTENDS CatalogDurability, CatalogSyncProofs

IsOutput(out) ==
  /\ out = [kind |-> out.kind, files |-> out.files]
  /\ out.kind \in {"absent", "empty", "other", "dangling", "catalog", "durable"}
  /\ IsTree(out.files)

\* A tree whose files have the bytes of a published one, or have lost them.
Genuine(files, tree) ==
  /\ DOMAIN files = DOMAIN tree
  /\ \A f \in DOMAIN tree : files[f] \in {tree[f], Lost}

PathInv ==
  /\ IsOutput(output)
  /\ IsOutput(undo) /\ undo.kind # "catalog" /\ (undo.kind = "durable" => undo = Durable)
  /\ output.kind = "catalog" => \E tree \in Publications : Genuine(output.files, tree)

DInv == CallInv /\ PathInv

LEMMA DInitInv == DInit => DInv
  <1> SUFFICES ASSUME DInit PROVE DInv
    OBVIOUS
  <1>1. CallInv
    BY InitInv DEF DInit, IInv
  <1>2. PathInv
    BY DEF DInit, Init, PathInv, IsOutput, IsTree, NotCatalog, Durable, EmptyTree
  <1> QED BY <1>1, <1>2 DEF DInv

\* Only a rename and the administrator touch the path, and only while no
\* catalog is there.
LEMMA PathStep ==
  ASSUME CallInv, [Next]_vars
  PROVE  \/ output' = output
         \/ /\ output.kind # "catalog"
            /\ \/ output' \in {NotCatalog(kind) : kind \in {"empty", "other", "dangling"}}
               \/ \E tree \in Publications :
                    IsTree(tree) /\ output' = [kind |-> "catalog", files |-> tree]
  <1>1. ASSUME NEW p \in Proc, RenameStage(p), output' # output
        PROVE  /\ output.kind # "catalog"
               /\ \E tree \in Publications :
                    IsTree(tree) /\ output' = [kind |-> "catalog", files |-> tree]
    <2> DEFINE tree == stages[stage[p]]
    <2>1. tree = SnapshotOf(man[p])
      BY <1>1, RenamedTree, SnapshotUnique
    <2>2. tree \in Publications
      BY <1>1, <2>1, RenamedTree DEF Publications, Publishable
    <2> QED BY <1>1, <2>2, RenamedTree
  <1>2. ASSUME NEW p \in Proc, Start(p) \/ CallAgain(p) \/ Exit(p) \/ Kill(p)
        PROVE  output' = output
    BY <1>2 DEF Start, CallAgain, Exit, Kill, fs
  <1>3. ASSUME NEW p \in Proc, BeginCall(p) \/ ReadManifest(p) \/ CreateStage(p)
        PROVE  output' = output
    BY <1>3 DEF BeginCall, ReadManifest, CreateStage, fs
  <1>4. ASSUME NEW p \in Proc,
               FetchObject(p) \/ VerifyStage(p) \/ SyncStage(p) \/ SyncParent(p)
        PROVE  output' = output
    BY <1>4 DEF FetchObject, VerifyStage, SyncStage, SyncParent, Fail, fs
  <1>5. ASSUME NEW p \in Proc, RemoveStage(p) \/ RemoveTemp(p)
        PROVE  output' = output
    BY <1>5 DEF RemoveStage, RemoveTemp
  <1>6. CASE AdminUsesPath
    BY <1>6 DEF AdminUsesPath
  <1>7. CASE UNCHANGED vars
    BY <1>7 DEF vars
  <1> QED BY <1>1, <1>2, <1>3, <1>4, <1>5, <1>6, <1>7 DEF Next, CallStep

\* What a loss leaves at the path: the files are there, some without bytes.
LEMMA LossAtPath ==
  ASSUME PathInv, PowerLoss
  PROVE  \/ output' = undo /\ undo # Durable
         \/ /\ IsOutput(output)' /\ output'.kind = output.kind
            /\ DOMAIN output'.files = DOMAIN output.files
            /\ \A f \in DOMAIN output.files : output'.files[f] \in {output.files[f], Lost}
            /\ dirty = {} => output' = output
  <1> SUFFICES ASSUME ~(output' = undo /\ undo # Durable)
               PROVE  /\ IsOutput(output)' /\ output'.kind = output.kind
                      /\ DOMAIN output'.files = DOMAIN output.files
                      /\ \A f \in DOMAIN output.files :
                           output'.files[f] \in {output.files[f], Lost}
                      /\ dirty = {} => output' = output
    OBVIOUS
  <1>1. PICK lost \in SUBSET dirty :
          output' = [output EXCEPT !.files =
                       [f \in DOMAIN @ |-> IF f \in lost THEN Lost ELSE @[f]]]
    BY DEF PowerLoss
  <1> DEFINE files == output.files
             left  == [f \in DOMAIN files |-> IF f \in lost THEN Lost ELSE files[f]]
  <1>2. output = [kind |-> output.kind, files |-> files] /\ IsTree(files)
        /\ output.kind \in {"absent", "empty", "other", "dangling", "catalog", "durable"}
    BY DEF PathInv, IsOutput
  <1>3. output' = [kind |-> output.kind, files |-> left]
    BY <1>1, <1>2
  <1>4. IsTree(left) /\ DOMAIN left = DOMAIN files
    BY DEF IsTree
  <1>5. dirty = {} => left = files
    BY <1>2 DEF IsTree
  <1>6. \A f \in DOMAIN files : left[f] \in {files[f], Lost}
    OBVIOUS
  <1> HIDE DEF left
  <1>7. output'.kind = output.kind /\ output'.files = left
    BY <1>3
  <1>8. IsOutput(output)'
    BY <1>2, <1>3, <1>4, <1>7 DEF IsOutput
  <1> QED BY <1>2, <1>3, <1>4, <1>5, <1>6, <1>7, <1>8

LEMMA DStepInv ==
  ASSUME DInv, DStep PROVE DInv'
  <1>1. CallInv'
    BY CallNextInv DEF DInv, DStep
  <1>2. IsOutput(output)'
    BY PathStep DEF DInv, PathInv, DStep, IsOutput, IsTree, NotCatalog, EmptyTree
  <1>3. /\ IsOutput(undo)' /\ undo'.kind # "catalog"
        /\ undo'.kind = "durable" => undo' = Durable
    <2>1. \/ undo' = output /\ output.kind # "catalog"
          \/ undo' \in {Durable, undo}
      BY DEF DStep
    <2>2. IsOutput(Durable) /\ Durable.kind # "catalog"
      BY DEF IsOutput, Durable, NotCatalog, IsTree, EmptyTree
    <2>3. output.kind # "durable"
      BY DEF DInv, CallInv, TypeOK
    <2> QED BY <2>1, <2>2, <2>3 DEF DInv, PathInv, IsOutput
  <1>4. output'.kind = "catalog" =>
          \E tree \in Publications : Genuine(output'.files, tree)
    <2>1. CASE output' = output
      BY <2>1 DEF DInv, PathInv
    <2>2. CASE output' # output
      BY <2>2, PathStep DEF DInv, DStep, Genuine, NotCatalog
    <2> QED BY <2>1, <2>2
  <1> QED BY <1>1, <1>2, <1>3, <1>4 DEF DInv, PathInv

LEMMA PowerLossInv ==
  ASSUME DInv, PowerLoss PROVE DInv'
  <1>1. PathInv'
    <2>1. undo' = Durable /\ IsOutput(Durable) /\ Durable.kind # "catalog"
      BY DEF PowerLoss, IsOutput, Durable, NotCatalog, IsTree, EmptyTree
    <2>2. CASE output' = undo /\ undo # Durable
      BY <2>1, <2>2 DEF DInv, PathInv, IsOutput
    <2>3. CASE ~(output' = undo /\ undo # Durable)
      <3>1. \A tree : Genuine(output.files, tree) => Genuine(output'.files, tree)
        BY <2>3, LossAtPath DEF DInv, Genuine
      <3> QED BY <2>1, <2>3, <3>1, LossAtPath DEF DInv, PathInv, IsOutput
    <2> QED BY <2>2, <2>3
  <1>2. CallInv'
    <2> USE DEF DInv, CallInv, TypeOK, PowerLoss, HasStage
    <2>1. output'.kind \in {"absent", "empty", "other", "dangling", "catalog"}
      BY LossAtPath DEF PathInv, IsOutput, Durable, NotCatalog
    <2>2. TypeOK'
      BY <2>1, BoundsAssumption DEF Labels
    <2>3. PidInv' /\ NameInv' /\ ManifestInv' /\ StageInv'
      BY DEF PidInv, NameInv, ManifestInv, StageInv
    <2>4. IndexInv' /\ VerifiedInv'
      BY DEF IndexInv, VerifiedInv
    <2> QED BY <2>2, <2>3, <2>4
  <1> QED BY <1>1, <1>2 DEF DInv

\* DInv is inductive.
LEMMA DNextInv == DInv /\ [DNext]_dvars => DInv'
  <1> SUFFICES ASSUME DInv, [DNext]_dvars PROVE DInv'
    OBVIOUS
  <1>1. CASE UNCHANGED dvars
    <2>1. UNCHANGED vars /\ UNCHANGED undo
      BY <1>1 DEF dvars
    <2>2. CallInv'
      BY <2>1, CallNextInv DEF DInv
    <2>3. PathInv'
      BY <2>1 DEF DInv, PathInv, vars, IsOutput
    <2> QED BY <2>2, <2>3 DEF DInv
  <1>2. CASE WriteBack
    <2>1. UNCHANGED vars /\ undo' = Durable
      BY <1>2 DEF WriteBack
    <2>2. CallInv'
      BY <2>1, CallNextInv DEF DInv
    <2>3. PathInv'
      BY <2>1 DEF DInv, PathInv, vars, IsOutput, Durable, NotCatalog, IsTree, EmptyTree
    <2> QED BY <2>2, <2>3 DEF DInv
  <1> QED BY <1>1, <1>2, DStepInv, PowerLossInv DEF DNext

LEMMA DSpecInv == DSpec => []DInv
  BY DInitInv, DNextInv, PTL DEF DSpec

\* Once a catalog and its name are on disk, no call and no loss changes it.
\* (repository.rs 160-168)
THEOREM SettledStays == DSpec => SettledNeverChanges
  <1> DEFINE A == output.kind = "catalog" /\ dirty = {} /\ undo = Durable => output' = output
  <1>1. DInv /\ [DNext]_dvars => A
    <2> SUFFICES ASSUME DInv, [DNext]_dvars, output.kind = "catalog", dirty = {}, undo = Durable
                 PROVE  output' = output
      OBVIOUS
    <2>1. CASE DStep
      BY <2>1, PathStep DEF DStep, DInv
    <2>2. CASE WriteBack \/ UNCHANGED dvars
      BY <2>2 DEF WriteBack, dvars, vars
    <2>3. CASE PowerLoss
      BY <2>3, LossAtPath DEF DInv
    <2> QED BY <2>1, <2>2, <2>3 DEF DNext
  <1>2. [][A]_dvars => SettledNeverChanges
    BY DEF SettledNeverChanges
  <1> HIDE DEF A
  <1> QED BY <1>1, <1>2, DSpecInv, PTL DEF DSpec

\* A directory that no call owns is left alone, by a loss of power too: that
\* makes leftovers of all of them.  (repository.rs 126-132, 300-306)
THEOREM LeftoversSurvive == DSpec => LeftoversUntouched
  <1> DEFINE A == \A name \in DOMAIN stages :
                    (\A p \in Proc : ~Owns(p, name)) =>
                       /\ name \in DOMAIN stages' /\ stages'[name] = stages[name]
                       /\ \A p \in Proc : ~Owns(p, name)'
  <1>1. DInv /\ [DNext]_dvars => A
    <2>1. ASSUME DInv, DStep \/ WriteBack \/ UNCHANGED dvars PROVE A
      <3>1. [Next]_vars
        BY <2>1 DEF DStep, WriteBack, dvars
      <3> QED BY <2>1, <3>1, LeftoversStep DEF DInv
    <2>2. ASSUME PowerLoss PROVE A
      BY <2>2 DEF PowerLoss, Owns, HasStage
    <2> QED BY <2>1, <2>2 DEF DNext
  <1>2. A => [A]_vars
    OBVIOUS
  <1>3. [][A]_vars => LeftoversUntouched
    BY DEF LeftoversUntouched
  <1> HIDE DEF A
  <1> QED BY <1>1, <1>2, <1>3, DSpecInv, PTL DEF DSpec

-----------------------------------------------------------------------------
(* Damage.                                                                 *)

\* What was published has all its bytes and passes verify_catalog, and its
\* lock accounts for each file.
LEMMA PublicationsAreWhole ==
  ASSUME NEW tree \in Publications
  PROVE  /\ VerifyCatalog(tree)
         /\ DOMAIN tree = ExpectedPaths(LockOf[tree[LockTxt]])
         /\ \A f \in DOMAIN tree : tree[f] # Lost
  <1>1. PICK m \in Manifest : Publishable(m) /\ tree = SnapshotOf(m)
    BY DEF Publications
  <1>2. VerifyStagedCatalog(m, tree)
    BY <1>1 DEF Publishable
  <1>3. DOMAIN tree = PathsOf(m)
    BY <1>1 DEF SnapshotOf
  <1>4. ASSUME NEW f \in PathsOf(m) PROVE tree[f] # Lost
    <2> DEFINE i == CHOOSE i \in DOMAIN m.objects : m.objects[i].path = f
    <2>1. i \in DOMAIN m.objects
      BY DEF PathsOf
    <2> HIDE DEF i
    <2>2. tree[f] = m.objects[i].sha256
      BY <1>1 DEF SnapshotOf, i
    <2> QED BY <2>1, <2>2, LostAssumption
  <1> QED BY <1>2, <1>3, <1>4 DEF VerifyStagedCatalog, ExactSnapshot

\* A pinned file of a tree that passes has the bytes its lock says.
LEMMA PinnedBytes ==
  ASSUME NEW a, NEW b, VerifyCatalog(a), VerifyCatalog(b), a[LockTxt] = b[LockTxt],
         DOMAIN a = ExpectedPaths(LockOf[a[LockTxt]]), NEW f \in Pinned(a)
  PROVE  a[f] = b[f]
  <1> DEFINE lock == LockOf[a[LockTxt]]
  <1>1. /\ a[Keys] = lock.keyring_sha256 /\ b[Keys] = lock.keyring_sha256
        /\ \A i \in DOMAIN lock.profile :
             LET entry == lock.profile[i] IN
             /\ a[Profile(entry.path)] = entry.profile_sha256
             /\ b[Profile(entry.path)] = entry.profile_sha256
             /\ a[SigFile(entry.path)] = entry.signature_sha256
             /\ b[SigFile(entry.path)] = entry.signature_sha256
    BY DEF VerifyCatalog, HasDigest
  <1>2. ASSUME NEW s \in RequiredSources PROVE a[Source(s)] = b[Source(s)]
    <2>1. PICK i \in DOMAIN lock.driver_source : lock.driver_source[i].path = s
      BY DEF VerifyCatalog, DriverSourcesMatch, Listed
    <2> QED BY <2>1 DEF VerifyCatalog, DriverSourcesMatch, HasDigest
  <1>3. \/ f \in {Keys, LockTxt}
        \/ \E s \in RequiredSources : f = Source(s)
        \/ \E i \in DOMAIN lock.profile :
             f \in {Profile(lock.profile[i].path), SigFile(lock.profile[i].path)}
    <2>1. f \in ExpectedPaths(lock) /\ (f = LockTxt \/ f = Keys \/ f[1] # "")
      BY DEF Pinned
    <2>2. \A name : Top(name)[1] = ""
      BY DEF Top
    <2>3. f \notin {Top("packages.toml"), Top("packages.toml.sig"), Top("driver-abi")}
            \/ f \in {Keys, LockTxt}
      BY <2>1, <2>2
    <2> HIDE DEF lock
    <2> QED BY <2>1, <2>3 DEF ExpectedPaths
  <1> QED BY <1>1, <1>2, <1>3

\* Bytes lost from the lock, or from a file it pins, never go unnoticed.
\* (catalog.rs 78-175)
THEOREM DamageDetected == DSpec => []DamageIsDetected
  <1>1. DInv => DamageIsDetected
    <2> SUFFICES ASSUME DInv, output.kind = "catalog",
                        NEW f \in Pinned(output.files), output.files[f] = Lost,
                        VerifyCatalog(output.files)
                 PROVE  FALSE
      BY DEF DamageIsDetected
    <2> DEFINE files == output.files
    <2>1. PICK tree \in Publications : Genuine(files, tree)
      BY DEF DInv, PathInv
    <2>2. /\ VerifyCatalog(tree) /\ DOMAIN tree = ExpectedPaths(LockOf[tree[LockTxt]])
          /\ \A g \in DOMAIN tree : tree[g] # Lost
      BY PublicationsAreWhole
    <2>3. LockTxt \in DOMAIN files /\ LockOf[files[LockTxt]].ok
      BY DEF VerifyCatalog, Regular
    <2>4. files[LockTxt] = tree[LockTxt]
      BY <2>1, <2>3, LostAssumption DEF Genuine
    <2>5. DOMAIN files = DOMAIN tree /\ f \in DOMAIN tree
      BY <2>1 DEF Genuine, Pinned
    <2>6. files[f] = tree[f]
      BY <2>2, <2>4, <2>5, PinnedBytes
    <2> QED BY <2>2, <2>5, <2>6
  <1> QED BY <1>1, DSpecInv, PTL
=============================================================================
