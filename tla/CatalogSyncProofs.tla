------------------------- MODULE CatalogSyncProofs -------------------------
(***************************************************************************)
(* Proofs about CatalogSync, for any processes, ids, manifests and faults. *)
(***************************************************************************)
EXTENDS CatalogSync, TLAPS

IsTree(tree) == tree = [file \in DOMAIN tree |-> tree[file]]

\* Live processes have an id, and no two of them the same.
PidInv ==
  /\ \A p \in Proc : pc[p] = "idle" <=> pid[p] = NoPid
  /\ \A p, q \in Proc : p # q /\ pid[p] = pid[q] => pid[p] = NoPid

\* A call's staging directory carries the id of its process.
NameInv ==
  \A p \in Proc : HasStage(p) \/ pc[p] \in {"syncparent", "rmstage"} =>
     stage[p] \in Name /\ stage[p][1] = pid[p]

\* Past the manifest checks a call works on an admissible manifest.
ManifestInv ==
  \A p \in Proc : HasStage(p) \/ pc[p] \in {"stage", "syncparent"} \/ result[p] = "ok" =>
     man[p] \in Manifest /\ Admissible(man[p])

\* The staging directory holds what was fetched so far.
StageInv ==
  \A p \in Proc : HasStage(p) =>
     /\ stage[p] \in DOMAIN stages
     /\ IsTree(stages[stage[p]])
     /\ Holds(stages[stage[p]], man[p], next[p] - 1)

\* next is where the loop over the objects is; nothing is answered before the end.
IndexInv ==
  \A p \in Proc :
     /\ pc[p] \in {"check", "manifest", "stage", "syncparent"} \/ HasStage(p) =>
           result[p] = "none"
     /\ pc[p] \in {"idle", "check", "manifest", "stage", "returned"} => next[p] = 1
     /\ pc[p] \in {"verify", "sync", "rename"} => next[p] = Len(man[p].objects) + 1

VerifiedInv ==
  \A p \in Proc : pc[p] \in {"sync", "rename"} =>
     VerifyStagedCatalog(man[p], stages[stage[p]])

OutputInv ==
  output.kind = "catalog" =>
     /\ IsTree(output.files)
     /\ \E m \in Manifest : /\ Admissible(m)
                            /\ HoldsAll(output.files, m)
                            /\ VerifyStagedCatalog(m, output.files)

OkInv ==
  \A p \in Proc : result[p] = "ok" \/ pc[p] = "syncparent" =>
     /\ output.kind = "catalog"
     /\ HoldsAll(output.files, man[p])

\* What the calls rely on; it does not speak of what is in a published catalog.
CallInv == /\ TypeOK
           /\ PidInv
           /\ NameInv
           /\ ManifestInv
           /\ StageInv
           /\ IndexInv
           /\ VerifiedInv

IInv == CallInv /\ OutputInv /\ OkInv

LEMMA InitInv == Init => IInv
  BY BoundsAssumption, NamesAssumption
  DEF Init, IInv, CallInv, TypeOK, PidInv, NameInv, ManifestInv, StageInv, IndexInv,
      VerifiedInv, OutputInv, OkInv, HasStage, Labels, NotCatalog, Name

LEMMA StartInv ==
  ASSUME CallInv, NEW p \in Proc, Start(p) PROVE CallInv'
  <1> USE DEF CallInv, TypeOK, Start, Goto, fs, HasStage
  <1>1. TypeOK'
    BY BoundsAssumption DEF Labels
  <1>2. PidInv'
    BY NamesAssumption DEF PidInv
  <1>3. NameInv' /\ ManifestInv' /\ StageInv'
    BY DEF NameInv, ManifestInv, StageInv
  <1>4. IndexInv' /\ VerifiedInv'
    BY DEF IndexInv, VerifiedInv
  <1> QED BY <1>1, <1>2, <1>3, <1>4

LEMMA CallAgainInv ==
  ASSUME CallInv, NEW p \in Proc, CallAgain(p) PROVE CallInv'
  <1> USE DEF CallInv, TypeOK, CallAgain, Goto, fs, HasStage
  <1>1. TypeOK'
    BY DEF Labels
  <1>2. PidInv'
    BY NamesAssumption DEF PidInv
  <1>3. NameInv' /\ ManifestInv' /\ StageInv'
    BY DEF NameInv, ManifestInv, StageInv
  <1>4. IndexInv' /\ VerifiedInv'
    BY DEF IndexInv, VerifiedInv
  <1> QED BY <1>1, <1>2, <1>3, <1>4

LEMMA ExitInv ==
  ASSUME CallInv, NEW p \in Proc, Exit(p) PROVE CallInv'
  <1> USE DEF CallInv, TypeOK, Exit, Goto, fs, HasStage
  <1>1. TypeOK'
    BY DEF Labels
  <1>2. PidInv'
    BY NamesAssumption DEF PidInv
  <1>3. NameInv' /\ ManifestInv' /\ StageInv'
    BY DEF NameInv, ManifestInv, StageInv
  <1>4. IndexInv' /\ VerifiedInv'
    BY DEF IndexInv, VerifiedInv
  <1> QED BY <1>1, <1>2, <1>3, <1>4

LEMMA SyncStageInv ==
  ASSUME CallInv, NEW p \in Proc, SyncStage(p) PROVE CallInv'
  <1> USE DEF CallInv, TypeOK, SyncStage, Fail, Goto, fs, HasStage
  <1>1. TypeOK'
    BY DEF Labels
  <1>2. PidInv'
    BY NamesAssumption DEF PidInv
  <1>3. NameInv' /\ ManifestInv' /\ StageInv'
    BY DEF NameInv, ManifestInv, StageInv
  <1>4. IndexInv' /\ VerifiedInv'
    BY DEF IndexInv, VerifiedInv
  <1> QED BY <1>1, <1>2, <1>3, <1>4

\* Two live calls never use the same staging directory.
LEMMA StagesDiffer ==
  ASSUME CallInv, NEW p \in Proc, NEW q \in Proc, p # q,
         HasStage(p) \/ pc[p] \in {"syncparent", "rmstage"},
         HasStage(q) \/ pc[q] \in {"syncparent", "rmstage"}
  PROVE  stage[p] # stage[q]
  <1>1. pid[p] # NoPid /\ pid[q] # NoPid
    BY DEF CallInv, PidInv, HasStage
  <1>2. pid[p] # pid[q]
    BY <1>1 DEF CallInv, PidInv
  <1> QED BY <1>2 DEF CallInv, NameInv

LEMMA FailInv ==
  ASSUME CallInv, NEW p \in Proc,
         NEW from \in {"fetch", "verify", "sync", "rename", "syncparent"},
         Fail(p, from),
         DOMAIN stages' = DOMAIN stages,
         \A name \in DOMAIN stages : name # stage[p] => stages'[name] = stages[name]
  PROVE  CallInv'
  <1> USE DEF CallInv, TypeOK, Fail, Goto, HasStage
  <1>1. TypeOK'
    BY DEF Labels
  <1>2. PidInv'
    BY NamesAssumption DEF PidInv
  <1>3. NameInv' /\ ManifestInv'
    BY DEF NameInv, ManifestInv
  <1>4. \A q \in Proc : HasStage(q)' => HasStage(q) /\ stages'[stage[q]] = stages[stage[q]]
    BY StagesDiffer DEF StageInv
  <1>5. StageInv' /\ VerifiedInv'
    BY <1>4 DEF StageInv, VerifiedInv
  <1>6. IndexInv'
    BY DEF IndexInv
  <1> QED BY <1>1, <1>2, <1>3, <1>5, <1>6

LEMMA BeginCallInv ==
  ASSUME CallInv, NEW p \in Proc, BeginCall(p) PROVE CallInv'
  <1> USE DEF CallInv, TypeOK, BeginCall, Goto, fs, HasStage
  <1>0. <<pid[p], serial[p]>> \in Name
    BY DEF Name, PidInv
  <1>1. TypeOK'
    BY <1>0 DEF Labels
  <1>2. PidInv'
    BY NamesAssumption DEF PidInv
  <1>3. NameInv' /\ ManifestInv' /\ StageInv'
    BY DEF NameInv, ManifestInv, StageInv
  <1>4. IndexInv' /\ VerifiedInv'
    BY DEF IndexInv, VerifiedInv
  <1> QED BY <1>1, <1>2, <1>3, <1>4

LEMMA ReadManifestInv ==
  ASSUME CallInv, NEW p \in Proc, ReadManifest(p) PROVE CallInv'
  <1> USE DEF CallInv, TypeOK, ReadManifest, Goto, fs, HasStage
  <1>1. TypeOK'
    BY DEF Labels
  <1>2. PidInv'
    BY NamesAssumption DEF PidInv
  <1>3. NameInv' /\ ManifestInv' /\ StageInv'
    BY DEF NameInv, ManifestInv, StageInv
  <1>4. IndexInv' /\ VerifiedInv'
    BY DEF IndexInv, VerifiedInv
  <1> QED BY <1>1, <1>2, <1>3, <1>4

LEMMA CreateStageInv ==
  ASSUME CallInv, NEW p \in Proc, CreateStage(p) PROVE CallInv'
  <1> USE DEF CallInv, TypeOK, Goto, fs, HasStage
  <1>0. <<pid[p], serial[p]>> \in Name
    BY DEF CreateStage, Name, PidInv
  <1>1. CASE pc'[p] = "fetch"
    <2> DEFINE name == <<pid[p], serial[p]>>
    <2>1. /\ pc[p] = "stage" /\ pc' = [pc EXCEPT ![p] = "fetch"]
          /\ name \notin DOMAIN stages
          /\ stages' = With(stages, name, EmptyTree)
          /\ stage' = [stage EXCEPT ![p] = name]
          /\ serial' = [serial EXCEPT ![p] = @ + 1]
          /\ UNCHANGED <<output, temps, pid, man, next, temp, result, started>>
      BY <1>1 DEF CreateStage, NameFree, Opened
    <2>2. /\ DOMAIN stages' = DOMAIN stages \cup {name}
          /\ stages'[name] = EmptyTree
          /\ \A n \in DOMAIN stages : stages'[n] = stages[n]
      BY <2>1 DEF With
    <2>3. Admissible(man[p]) /\ man[p] \in Manifest /\ next[p] = 1
      BY <2>1 DEF ManifestInv, IndexInv
    <2>4. 1 \in DOMAIN man[p].objects
      BY <2>3, ManifestAssumption DEF Admissible, ValidManifest, DistinctObjects
    <2>5. TypeOK'
      BY <1>0, <2>1, <2>2, <2>3, <2>4 DEF Labels
    <2>6. PidInv'
      BY <2>1 DEF PidInv
    <2>7. NameInv' /\ ManifestInv'
      BY <1>0, <2>1 DEF NameInv, ManifestInv
    <2>8. Holds(EmptyTree, man[p], 0) /\ IsTree(EmptyTree)
      BY DEF Holds, EmptyTree, IsTree
    <2>9. StageInv'
      BY <2>1, <2>2, <2>3, <2>8 DEF StageInv
    <2>10. IndexInv' /\ VerifiedInv'
      BY <2>1, <2>2, <2>3 DEF IndexInv, VerifiedInv, StageInv
    <2> QED BY <2>5, <2>6, <2>7, <2>9, <2>10
  <1>2. CASE pc'[p] # "fetch"
    <2>1. /\ Goto(p, "stage", "rmtemp")
          /\ serial' \in [Proc -> Nat]
          /\ result' = [result EXCEPT ![p] = "err"]
          /\ UNCHANGED <<fs, pid, man, next, temp, stage, started>>
      BY <1>2 DEF CreateStage
    <2>2. TypeOK'
      BY <2>1 DEF Labels
    <2>3. PidInv' /\ NameInv' /\ ManifestInv'
      BY <2>1, NamesAssumption DEF PidInv, NameInv, ManifestInv
    <2>4. StageInv' /\ IndexInv' /\ VerifiedInv'
      BY <2>1 DEF StageInv, IndexInv, VerifiedInv
    <2> QED BY <2>2, <2>3, <2>4
  <1> QED BY <1>1, <1>2

LEMMA FetchObjectInv ==
  ASSUME CallInv, NEW p \in Proc, FetchObject(p) PROVE CallInv'
  <1> DEFINE object == man[p].objects[next[p]]
  <1>0. pc[p] = "fetch" /\ stage[p] \in DOMAIN stages
    BY DEF FetchObject, CallInv, StageInv, HasStage
  <1>1. CASE Fail(p, "fetch")
    <2>1. /\ DOMAIN stages' = DOMAIN stages
          /\ \A name \in DOMAIN stages : name # stage[p] => stages'[name] = stages[name]
      BY <1>0, <1>1 DEF FetchObject, Fail, Goto
    <2> QED BY <1>1, <2>1, FailInv
  <1>2. CASE ~Fail(p, "fetch")
    <2> USE DEF CallInv, TypeOK, HasStage
    <2>1. PICK content \in Bytes :
            /\ Accepted(object, content)
            /\ Goto(p, "fetch", IF LastObject(p) THEN "verify" ELSE "fetch")
            /\ stages' = [stages EXCEPT ![stage[p]] = With(@, object.path, content)]
            /\ next' = [next EXCEPT ![p] = @ + 1]
            /\ UNCHANGED <<output, temps, pid, serial, man, temp, stage, result, started>>
      BY <1>2 DEF FetchObject
    <2> DEFINE old == stages[stage[p]]
               new == With(old, object.path, content)
    <2>2. /\ man[p] \in Manifest /\ Admissible(man[p])
          /\ next[p] \in 1 .. Len(man[p].objects)
          /\ Len(man[p].objects) \in Nat
      BY <1>0, ManifestAssumption DEF ManifestInv
    <2>3. IsTree(old) /\ Holds(old, man[p], next[p] - 1)
      BY <1>0 DEF StageInv
    <2>4. \A i \in 1 .. next[p] - 1 : man[p].objects[i].path # object.path
      <3>1. DOMAIN man[p].objects = 1 .. Len(man[p].objects)
        BY <2>2, ManifestAssumption
      <3>2. \A i, j \in DOMAIN man[p].objects :
               i = j \/ man[p].objects[i].path # man[p].objects[j].path
        BY <2>2 DEF Admissible, ValidManifest, DistinctObjects
      <3>3. \A i \in 1 .. next[p] - 1 : i \in DOMAIN man[p].objects /\ i # next[p]
        BY <2>2, <3>1
      <3>4. next[p] \in DOMAIN man[p].objects
        BY <2>2, <3>1
      <3> QED BY <3>2, <3>3, <3>4
    <2>5. /\ DOMAIN new = DOMAIN old \cup {object.path}
          /\ new[object.path] = object.sha256
          /\ \A f \in DOMAIN old : f # object.path => new[f] = old[f]
          /\ IsTree(new)
      BY <2>1 DEF With, Accepted, IsTree
    <2>6. Holds(new, man[p], next[p])
      <3>1. 1 .. next[p] = (1 .. next[p] - 1) \cup {next[p]}
        BY <2>2
      <3>2. DOMAIN new = {man[p].objects[i].path : i \in 1 .. next[p]}
        <4> DEFINE path(i) == man[p].objects[i].path
        <4>1. DOMAIN old = {path(i) : i \in 1 .. next[p] - 1}
          BY <2>3 DEF Holds
        <4>2. DOMAIN new = {path(i) : i \in 1 .. next[p] - 1} \cup {path(next[p])}
          BY <2>5, <4>1
        <4> HIDE DEF path, new, old
        <4>3. {path(i) : i \in (1 .. next[p] - 1) \cup {next[p]}}
                = {path(i) : i \in 1 .. next[p] - 1} \cup {path(next[p])}
          OBVIOUS
        <4>4. DOMAIN new = {path(i) : i \in 1 .. next[p]}
          BY <3>1, <4>2, <4>3
        <4> QED BY <4>4 DEF path
      <3>3. \A i \in 1 .. next[p] - 1 : new[man[p].objects[i].path] = man[p].objects[i].sha256
        BY <2>3, <2>4, <2>5 DEF Holds
      <3> QED BY <2>5, <3>1, <3>2, <3>3 DEF Holds
    <2>7. /\ DOMAIN stages' = DOMAIN stages
          /\ stages'[stage[p]] = new
          /\ \A name \in DOMAIN stages : name # stage[p] => stages'[name] = stages[name]
      BY <1>0, <2>1
    <2>8. \A q \in Proc : q # p /\ HasStage(q) =>
             stage[q] \in DOMAIN stages /\ stages'[stage[q]] = stages[stage[q]]
      BY <1>0, <2>7, StagesDiffer DEF StageInv
    <2>9. pc' = [pc EXCEPT ![p] = IF next[p] = Len(man[p].objects) THEN "verify" ELSE "fetch"]
      BY <2>1 DEF Goto, LastObject
    <2>10. TypeOK'
      <3>1. \A q \in Proc : pc'[q] = "fetch" =>
               man'[q] \in Manifest /\ next'[q] \in DOMAIN man'[q].objects
        BY <2>1, <2>2, <2>9, ManifestAssumption
      <3> QED BY <2>1, <2>7, <2>9, <3>1 DEF Labels
    <2>11. PidInv'
      BY <1>0, <2>1, <2>9 DEF PidInv
    <2>12. NameInv' /\ ManifestInv'
      BY <1>0, <2>1, <2>9 DEF NameInv, ManifestInv
    <2>13. StageInv'
      <3>1. HasStage(p)' => /\ stage'[p] \in DOMAIN stages'
                            /\ IsTree(stages'[stage'[p]])
                            /\ Holds(stages'[stage'[p]], man'[p], next'[p] - 1)
        <4>1. stage'[p] = stage[p] /\ man'[p] = man[p] /\ next'[p] - 1 = next[p]
          BY <2>1, <2>2
        <4> HIDE DEF new, old
        <4> QED BY <1>0, <2>5, <2>6, <2>7, <4>1
      <3>2. \A q \in Proc : q # p /\ HasStage(q)' =>
               HasStage(q) /\ stage'[q] = stage[q] /\ man'[q] = man[q] /\ next'[q] = next[q]
        BY <2>1, <2>9
      <3> QED BY <2>7, <2>8, <3>1, <3>2 DEF StageInv
    <2>14. IndexInv'
      BY <1>0, <2>1, <2>2, <2>9 DEF IndexInv
    <2>15. VerifiedInv'
      BY <1>0, <2>1, <2>8, <2>9 DEF VerifiedInv
    <2> QED BY <2>10, <2>11, <2>12, <2>13, <2>14, <2>15
  <1> QED BY <1>1, <1>2

LEMMA VerifyStageInv ==
  ASSUME CallInv, NEW p \in Proc, VerifyStage(p) PROVE CallInv'
  <1>1. CASE Fail(p, "verify") /\ UNCHANGED stages
    BY <1>1, FailInv
  <1>2. CASE ~(Fail(p, "verify") /\ UNCHANGED stages)
    <2> USE DEF CallInv, TypeOK, Goto, fs, HasStage
    <2>1. /\ VerifyStagedCatalog(man[p], stages[stage[p]])
          /\ Goto(p, "verify", "sync")
          /\ UNCHANGED <<fs, pid, serial, man, next, temp, stage, result, started>>
      BY <1>2 DEF VerifyStage
    <2>2. TypeOK'
      BY <2>1 DEF Labels
    <2>3. PidInv' /\ NameInv' /\ ManifestInv'
      BY <2>1 DEF PidInv, NameInv, ManifestInv
    <2>4. StageInv' /\ IndexInv' /\ VerifiedInv'
      BY <2>1 DEF StageInv, IndexInv, VerifiedInv
    <2> QED BY <2>2, <2>3, <2>4
  <1> QED BY <1>1, <1>2

LEMMA RenameStageInv ==
  ASSUME CallInv, NEW p \in Proc, RenameStage(p) PROVE CallInv'
  <1>1. CASE Fail(p, "rename") /\ UNCHANGED stages
    BY <1>1, FailInv
  <1>2. CASE ~(Fail(p, "rename") /\ UNCHANGED stages)
    <2> USE DEF CallInv, TypeOK, Goto, HasStage
    <2>1. /\ output.kind # "catalog"
          /\ pc[p] = "rename" /\ pc' = [pc EXCEPT ![p] = "syncparent"]
          /\ output' = [kind |-> "catalog", files |-> stages[stage[p]]]
          /\ stages' = Without(stages, stage[p])
          /\ UNCHANGED <<temps, pid, serial, man, next, temp, stage, result, started>>
      BY <1>2 DEF RenameStage, RenameSucceeds
    <2>2. /\ DOMAIN stages' = DOMAIN stages \ {stage[p]}
          /\ \A n \in DOMAIN stages : n # stage[p] => stages'[n] = stages[n]
      BY <2>1 DEF Without
    <2>3. \A q \in Proc : HasStage(q)' =>
             /\ q # p /\ HasStage(q)
             /\ stage'[q] \in DOMAIN stages'
             /\ stages'[stage'[q]] = stages[stage[q]]
      BY <2>1, <2>2, StagesDiffer DEF StageInv
    <2>4. TypeOK'
      BY <2>1, <2>2 DEF Labels
    <2>5. PidInv' /\ NameInv' /\ ManifestInv'
      BY <2>1 DEF PidInv, NameInv, ManifestInv
    <2>6. StageInv' /\ VerifiedInv'
      BY <2>1, <2>3 DEF StageInv, VerifiedInv
    <2>7. IndexInv'
      BY <2>1 DEF IndexInv
    <2> QED BY <2>4, <2>5, <2>6, <2>7
  <1> QED BY <1>1, <1>2

LEMMA SyncParentInv ==
  ASSUME CallInv, NEW p \in Proc, SyncParent(p) PROVE CallInv'
  <1>1. CASE Fail(p, "syncparent") /\ UNCHANGED stages
    BY <1>1, FailInv
  <1>2. CASE ~(Fail(p, "syncparent") /\ UNCHANGED stages)
    <2> USE DEF CallInv, TypeOK, Goto, fs, HasStage
    <2>1. /\ Goto(p, "syncparent", "rmtemp")
          /\ result' = [result EXCEPT ![p] = "ok"]
          /\ UNCHANGED <<fs, pid, serial, man, next, temp, stage, started>>
      BY <1>2 DEF SyncParent
    <2>2. TypeOK'
      BY <2>1 DEF Labels
    <2>3. PidInv' /\ NameInv' /\ ManifestInv'
      BY <2>1 DEF PidInv, NameInv, ManifestInv
    <2>4. StageInv' /\ IndexInv' /\ VerifiedInv'
      BY <2>1 DEF StageInv, IndexInv, VerifiedInv
    <2> QED BY <2>2, <2>3, <2>4
  <1> QED BY <1>1, <1>2

LEMMA RemoveStageInv ==
  ASSUME CallInv, NEW p \in Proc, RemoveStage(p) PROVE CallInv'
  <1> USE DEF CallInv, TypeOK, RemoveStage, Goto, HasStage
  <1>1. /\ DOMAIN stages' \subseteq DOMAIN stages
        /\ \A n \in DOMAIN stages : n # stage[p] =>
              n \in DOMAIN stages' /\ stages'[n] = stages[n]
    BY DEF Without
  <1>2. \A q \in Proc : HasStage(q)' =>
           /\ q # p /\ HasStage(q)
           /\ stage'[q] \in DOMAIN stages'
           /\ stages'[stage'[q]] = stages[stage[q]]
    BY <1>1, StagesDiffer DEF StageInv
  <1>3. TypeOK'
    BY <1>1 DEF Labels
  <1>4. PidInv' /\ NameInv' /\ ManifestInv'
    BY DEF PidInv, NameInv, ManifestInv
  <1>5. StageInv' /\ VerifiedInv'
    BY <1>2 DEF StageInv, VerifiedInv
  <1>6. IndexInv'
    BY DEF IndexInv
  <1> QED BY <1>3, <1>4, <1>5, <1>6

LEMMA RemoveTempInv ==
  ASSUME CallInv, NEW p \in Proc, RemoveTemp(p) PROVE CallInv'
  <1> USE DEF CallInv, TypeOK, RemoveTemp, ForgetLocals, Goto, HasStage
  <1>1. TypeOK'
    BY DEF Labels
  <1>2. PidInv'
    BY NamesAssumption DEF PidInv
  <1>3. NameInv' /\ ManifestInv' /\ StageInv'
    BY DEF NameInv, ManifestInv, StageInv
  <1>4. IndexInv' /\ VerifiedInv'
    BY DEF IndexInv, VerifiedInv
  <1> QED BY <1>1, <1>2, <1>3, <1>4

LEMMA KillInv ==
  ASSUME CallInv, NEW p \in Proc, Kill(p) PROVE CallInv'
  <1> USE DEF CallInv, TypeOK, Kill, ForgetLocals, fs, HasStage
  <1>1. TypeOK'
    BY DEF Labels
  <1>2. PidInv'
    BY NamesAssumption DEF PidInv
  <1>3. NameInv' /\ ManifestInv' /\ StageInv'
    BY DEF NameInv, ManifestInv, StageInv
  <1>4. IndexInv' /\ VerifiedInv'
    BY DEF IndexInv, VerifiedInv
  <1> QED BY <1>1, <1>2, <1>3, <1>4

LEMMA AdminUsesPathInv ==
  ASSUME CallInv, AdminUsesPath PROVE CallInv'
  <1> USE DEF CallInv, TypeOK, AdminUsesPath, NotCatalog, HasStage
  <1>1. TypeOK'
    BY DEF Labels
  <1>2. PidInv'
    BY NamesAssumption DEF PidInv
  <1>3. NameInv' /\ ManifestInv' /\ StageInv'
    BY DEF NameInv, ManifestInv, StageInv
  <1>4. IndexInv' /\ VerifiedInv'
    BY DEF IndexInv, VerifiedInv
  <1> QED BY <1>1, <1>2, <1>3, <1>4

LEMMA StutterInv ==
  ASSUME CallInv, UNCHANGED vars PROVE CallInv'
  <1> USE DEF CallInv, vars, HasStage
  <1>1. TypeOK' /\ PidInv' /\ NameInv' /\ ManifestInv'
    BY DEF TypeOK, PidInv, NameInv, ManifestInv
  <1>2. StageInv' /\ IndexInv' /\ VerifiedInv'
    BY DEF StageInv, IndexInv, VerifiedInv
  <1> QED BY <1>1, <1>2

LEMMA CallNextInv == CallInv /\ [Next]_vars => CallInv'
  <1> SUFFICES ASSUME CallInv, [Next]_vars PROVE CallInv'
    OBVIOUS
  <1>1. ASSUME NEW p \in Proc, CallStep(p) PROVE CallInv'
    BY <1>1, BeginCallInv, ReadManifestInv, CreateStageInv, FetchObjectInv,
       VerifyStageInv, SyncStageInv, RenameStageInv, SyncParentInv,
       RemoveStageInv, RemoveTempInv DEF CallStep
  <1>2. ASSUME NEW p \in Proc, Start(p) \/ CallAgain(p) \/ Exit(p) \/ Kill(p)
        PROVE  CallInv'
    BY <1>2, StartInv, CallAgainInv, ExitInv, KillInv
  <1> QED BY <1>1, <1>2, AdminUsesPathInv, StutterInv DEF Next

-----------------------------------------------------------------------------
(* What is at the output path.                                             *)

\* The tree that a rename moves to the path is whole and verified, and no
\* catalog was there.
LEMMA RenamedTree ==
  ASSUME CallInv, NEW p \in Proc, RenameStage(p), output' # output
  PROVE  /\ output.kind # "catalog"
         /\ output' = [kind |-> "catalog", files |-> stages[stage[p]]]
         /\ UNCHANGED <<man, result>>
         /\ pc' = [pc EXCEPT ![p] = "syncparent"]
         /\ IsTree(stages[stage[p]])
         /\ man[p] \in Manifest /\ Admissible(man[p])
         /\ HoldsAll(stages[stage[p]], man[p])
         /\ VerifyStagedCatalog(man[p], stages[stage[p]])
  <1>1. /\ output.kind # "catalog"
        /\ pc[p] = "rename" /\ pc' = [pc EXCEPT ![p] = "syncparent"]
        /\ output' = [kind |-> "catalog", files |-> stages[stage[p]]]
        /\ UNCHANGED <<man, result>>
    BY DEF RenameStage, RenameSucceeds, Goto, Fail
  <1>2. /\ IsTree(stages[stage[p]]) /\ man[p] \in Manifest /\ Admissible(man[p])
        /\ VerifyStagedCatalog(man[p], stages[stage[p]])
        /\ Holds(stages[stage[p]], man[p], next[p] - 1)
        /\ next[p] - 1 = Len(man[p].objects)
    BY <1>1, ManifestAssumption
    DEF CallInv, HasStage, StageInv, ManifestInv, VerifiedInv, IndexInv
  <1> QED BY <1>1, <1>2 DEF HoldsAll

\* A step that leaves the path alone, and answers Ok only after a rename.
LEMMA OutputKept ==
  ASSUME OutputInv, OkInv, output' = output,
         \A q \in Proc : result'[q] = "ok" \/ pc'[q] = "syncparent" =>
           (result[q] = "ok" \/ pc[q] = "syncparent") /\ man'[q] = man[q]
  PROVE  OutputInv' /\ OkInv'
  BY DEF OutputInv, OkInv

LEMMA OutputStep ==
  ASSUME IInv, [Next]_vars
  PROVE  OutputInv' /\ OkInv'
  <1> USE DEF IInv, CallInv, TypeOK, Goto, fs
  <1>1. CASE UNCHANGED vars
    BY <1>1, OutputKept DEF vars
  <1>2. CASE AdminUsesPath
    BY <1>2 DEF AdminUsesPath, NotCatalog, OutputInv, OkInv
  <1>3. ASSUME NEW p \in Proc, Start(p) \/ CallAgain(p) \/ Exit(p) \/ Kill(p)
        PROVE  OutputInv' /\ OkInv'
    BY <1>3, OutputKept DEF Start, CallAgain, Exit, Kill
  <1>4. ASSUME NEW p \in Proc, BeginCall(p) \/ ReadManifest(p) \/ CreateStage(p)
        PROVE  OutputInv' /\ OkInv'
    BY <1>4, OutputKept DEF BeginCall, ReadManifest, CreateStage, IndexInv
  <1>5. ASSUME NEW p \in Proc,
               FetchObject(p) \/ VerifyStage(p) \/ SyncStage(p) \/ SyncParent(p)
        PROVE  OutputInv' /\ OkInv'
    BY <1>5, OutputKept DEF FetchObject, VerifyStage, SyncStage, SyncParent, Fail
  <1>6. ASSUME NEW p \in Proc, RemoveStage(p) \/ RemoveTemp(p)
        PROVE  OutputInv' /\ OkInv'
    BY <1>6, OutputKept DEF RemoveStage, RemoveTemp
  <1>7. ASSUME NEW p \in Proc, RenameStage(p) PROVE OutputInv' /\ OkInv'
    <2>1. CASE output' = output
      <3>1. result' = [result EXCEPT ![p] = "err"] /\ UNCHANGED man
            /\ pc' = [pc EXCEPT ![p] = "rmstage"]
        BY <1>7, <2>1 DEF RenameStage, RenameSucceeds, Fail
      <3> QED BY <2>1, <3>1, OutputKept
    <2>2. CASE output' # output
      <3>1. OutputInv'
        BY <1>7, <2>2, RenamedTree DEF OutputInv
      <3>2. OkInv'
        BY <1>7, <2>2, RenamedTree DEF OkInv
      <3> QED BY <3>1, <3>2
    <2> QED BY <2>1, <2>2
  <1> QED BY <1>1, <1>2, <1>3, <1>4, <1>5, <1>6, <1>7 DEF Next, CallStep

\* IInv is inductive.
LEMMA NextInv == IInv /\ [Next]_vars => IInv'
  BY CallNextInv, OutputStep DEF IInv

LEMMA SpecInv == Spec => []IInv
  BY InitInv, NextInv, PTL DEF Spec

\* Type correctness of every variable, for every call and every fault.
THEOREM TypeCorrect == Spec => []TypeOK
  <1>1. IInv => TypeOK
    BY DEF IInv, CallInv
  <1> QED BY <1>1, SpecInv, PTL

\* A catalog at the output path always holds exactly the objects of one
\* signed manifest: no partial or mixed tree is ever published.
THEOREM NoPartialPublication == Spec => []PublishedIsSnapshot
  <1>1. IInv => PublishedIsSnapshot
    BY DEF IInv, OutputInv, PublishedIsSnapshot
  <1> QED BY <1>1, SpecInv, PTL

\* A call that answered Ok keeps being right: its own snapshot is at the path.
THEOREM OkStaysTrue == Spec => []OkIsMine
  <1>1. IInv => OkIsMine
    BY DEF IInv, OkInv, OkIsMine
  <1> QED BY <1>1, SpecInv, PTL

\* Staging directories are exclusive and hold exactly what was fetched.
THEOREM StagingIsExclusive == Spec => []StageIsMine
  <1>1. IInv => StageIsMine
    <2> SUFFICES ASSUME IInv, NEW p \in Proc, HasStage(p)
                 PROVE  /\ stage[p] \in DOMAIN stages
                        /\ Holds(stages[stage[p]], man[p], next[p] - 1)
                        /\ \A q \in Proc \ {p} : ~Owns(q, stage[p])
      BY DEF StageIsMine
    <2> QED BY StagesDiffer DEF IInv, CallInv, StageInv, Owns
  <1> QED BY <1>1, SpecInv, PTL

\* What is published is what plan accepts, and no file is unaccounted for.
THEOREM UsablePublication == Spec => []PublishedIsUsable
  <1>1. IInv => PublishedIsUsable
    <2> SUFFICES ASSUME IInv, output.kind = "catalog" PROVE PublishedIsUsable
      BY DEF PublishedIsUsable
    <2> DEFINE tree == output.files
    <2>1. PICK m \in Manifest : HoldsAll(tree, m) /\ VerifyStagedCatalog(m, tree)
      BY DEF IInv, OutputInv
    <2>2. DOMAIN tree = PathsOf(m)
      BY <2>1, ManifestAssumption DEF HoldsAll, Holds, PathsOf
    <2>3. /\ VerifyCatalog(tree) /\ LoadProfiles(tree, KeyringOf(tree[Keys]))
          /\ PathsOf(m) = ExpectedPaths(LockOf[tree[LockTxt]])
      BY <2>1 DEF VerifyStagedCatalog, ExactSnapshot
    <2> QED BY <2>2, <2>3 DEF PublishedIsUsable
  <1> QED BY <1>1, SpecInv, PTL

-----------------------------------------------------------------------------
(* Directories left behind.                                                *)

LEMMA LeftoversStep ==
  ASSUME CallInv, [Next]_vars,
         NEW name \in DOMAIN stages, \A p \in Proc : ~Owns(p, name)
  PROVE  /\ name \in DOMAIN stages' /\ stages'[name] = stages[name]
         /\ \A p \in Proc : ~Owns(p, name)'
  <1> USE DEF CallInv, TypeOK, Owns, HasStage, Goto, Fail, fs
  <1>1. CASE UNCHANGED vars
    BY <1>1 DEF vars
  <1>2. CASE AdminUsesPath
    BY <1>2 DEF AdminUsesPath
  <1>3. ASSUME NEW p \in Proc,
               Start(p) \/ CallAgain(p) \/ Exit(p) \/ Kill(p) \/ RemoveTemp(p)
        PROVE  stages' = stages /\ \A q \in Proc : ~Owns(q, name)'
    BY <1>3 DEF Start, CallAgain, Exit, Kill, RemoveTemp, ForgetLocals
  <1>4. ASSUME NEW p \in Proc,
               BeginCall(p) \/ ReadManifest(p) \/ VerifyStage(p) \/ SyncStage(p)
               \/ SyncParent(p)
        PROVE  stages' = stages /\ \A q \in Proc : ~Owns(q, name)'
    BY <1>4 DEF BeginCall, ReadManifest, VerifyStage, SyncStage, SyncParent
  <1>5. ASSUME NEW p \in Proc, CreateStage(p)
        PROVE  /\ name \in DOMAIN stages' /\ stages'[name] = stages[name]
               /\ \A q \in Proc : ~Owns(q, name)'
    BY <1>5 DEF CreateStage, NameFree, With
  <1>6. ASSUME NEW p \in Proc, FetchObject(p)
        PROVE  /\ name \in DOMAIN stages' /\ stages'[name] = stages[name]
               /\ \A q \in Proc : ~Owns(q, name)'
    BY <1>6 DEF FetchObject
  <1>7. ASSUME NEW p \in Proc, RenameStage(p) \/ RemoveStage(p)
        PROVE  /\ name \in DOMAIN stages' /\ stages'[name] = stages[name]
               /\ \A q \in Proc : ~Owns(q, name)'
    BY <1>7 DEF RenameStage, RemoveStage, Without
  <1> QED BY <1>1, <1>2, <1>3, <1>4, <1>5, <1>6, <1>7 DEF Next, CallStep

\* What a killed process left in the parent directory is never adopted,
\* changed or published, whatever ids later processes get.
THEOREM LeftoversAreSafe == Spec => LeftoversUntouched
  <1> DEFINE A == \A name \in DOMAIN stages :
                    (\A p \in Proc : ~Owns(p, name)) =>
                       /\ name \in DOMAIN stages' /\ stages'[name] = stages[name]
                       /\ \A p \in Proc : ~Owns(p, name)'
  <1>1. IInv /\ [Next]_vars => A
    BY LeftoversStep DEF IInv
  <1>2. [][A]_vars => LeftoversUntouched
    BY DEF LeftoversUntouched
  <1> HIDE DEF A
  <1> QED BY <1>1, <1>2, SpecInv, PTL DEF Spec

\* Each directory is one that a call is still to publish or to remove.
Kept ==
  /\ \A name \in DOMAIN stages : \E p \in Proc :
       pc[p] \in {"fetch", "verify", "sync", "rename", "rmstage"} /\ stage[p] = name
  /\ \A name \in temps : \E p \in Proc :
       pc[p] \notin {"idle", "check", "returned"} /\ temp[p] = name

\* A step of one call keeps the directories of the others; of its own it has
\* to be shown.
LEMMA KeptStep ==
  ASSUME TypeOK, Kept, "kill" \notin Faults, "remove" \notin Faults, [Next]_vars
  PROVE  Kept'
  <1> USE DEF TypeOK, Kept, Goto, fs
  <1>1. CASE UNCHANGED vars
    BY <1>1 DEF vars
  <1>2. CASE AdminUsesPath
    BY <1>2 DEF AdminUsesPath
  <1>3. ASSUME NEW p \in Proc, Start(p) \/ CallAgain(p) \/ Exit(p)
        PROVE  Kept'
    BY <1>3 DEF Start, CallAgain, Exit
  <1>4. ASSUME NEW p \in Proc, Kill(p) PROVE Kept'
    BY <1>4 DEF Kill, CanFail
  <1>5. ASSUME NEW p \in Proc, BeginCall(p) PROVE Kept'
    BY <1>5 DEF BeginCall
  <1>6. ASSUME NEW p \in Proc, ReadManifest(p) PROVE Kept'
    BY <1>6 DEF ReadManifest
  <1>7. ASSUME NEW p \in Proc, CreateStage(p) PROVE Kept'
    BY <1>7 DEF CreateStage, With
  <1>8. ASSUME NEW p \in Proc, FetchObject(p) PROVE Kept'
    <2>1. /\ DOMAIN stages' = DOMAIN stages /\ UNCHANGED <<temps, temp, stage>>
          /\ \E to \in {"fetch", "verify", "rmstage"} : Goto(p, "fetch", to)
      BY <1>8 DEF FetchObject, Fail
    <2> QED BY <2>1
  <1>9. ASSUME NEW p \in Proc, VerifyStage(p) \/ SyncStage(p) PROVE Kept'
    BY <1>9 DEF VerifyStage, SyncStage, Fail
  <1>10. ASSUME NEW p \in Proc, RenameStage(p) PROVE Kept'
    BY <1>10 DEF RenameStage, Fail, Without
  <1>11. ASSUME NEW p \in Proc, SyncParent(p) PROVE Kept'
    BY <1>11 DEF SyncParent, Fail
  <1>12. ASSUME NEW p \in Proc, RemoveStage(p) PROVE Kept'
    BY <1>12 DEF RemoveStage, Without, CanFail
  <1>13. ASSUME NEW p \in Proc, RemoveTemp(p) PROVE Kept'
    BY <1>13 DEF RemoveTemp, ForgetLocals, CanFail
  <1> QED BY <1>1, <1>2, <1>3, <1>4, <1>5, <1>6, <1>7, <1>8, <1>9, <1>10, <1>11,
             <1>12, <1>13 DEF Next, CallStep

\* If no process is killed and no removal fails, nothing is left of any call,
\* however it failed.
THEOREM NothingLeft ==
  ASSUME "kill" \notin Faults, "remove" \notin Faults
  PROVE  Spec => []NoLitter
  <1>1. Init => Kept
    BY DEF Init, Kept
  <1>2. IInv /\ Kept /\ [Next]_vars => Kept'
    BY KeptStep DEF IInv, CallInv
  <1>3. Kept => NoLitter
    BY DEF Kept, NoLitter
  <1> QED BY <1>1, <1>2, <1>3, SpecInv, PTL DEF Spec

-----------------------------------------------------------------------------
(* The write-once register.                                                *)

\* The tree a manifest describes is unique.
LEMMA SnapshotUnique ==
  ASSUME NEW m \in Manifest, Admissible(m), NEW tree, IsTree(tree), HoldsAll(tree, m)
  PROVE  tree = SnapshotOf(m)
  <1> DEFINE index(f) == CHOOSE i \in DOMAIN m.objects : m.objects[i].path = f
  <1>1. DOMAIN m.objects = 1 .. Len(m.objects)
    BY ManifestAssumption
  <1>2. DOMAIN tree = PathsOf(m)
    BY <1>1 DEF HoldsAll, Holds, PathsOf
  <1>3. ASSUME NEW f \in PathsOf(m) PROVE tree[f] = m.objects[index(f)].sha256
    <2>1. index(f) \in DOMAIN m.objects /\ m.objects[index(f)].path = f
      BY DEF PathsOf
    <2> QED BY <1>1, <2>1 DEF HoldsAll, Holds
  <1>4. tree = [f \in PathsOf(m) |-> tree[f]]
    BY <1>2 DEF IsTree
  <1> QED BY <1>3, <1>4 DEF SnapshotOf

LEMMA RegisterInit == Init => Register!Init
  BY DEF Init, Register!Init, Answers, Answered, PublishedTree, NotCatalog

\* The register's view of a step that touches one call's answer at most.
LEMMA AnswersChangeOnce ==
  ASSUME IInv, IInv', NEW p \in Proc,
         \A q \in Proc \ {p} : result'[q] = result[q] /\ man'[q] = man[q]
  PROVE  Answers' = [Answers EXCEPT ![p] = Answered(p)']
  <1>1. \A q \in Proc \ {p} : Answered(q)' = Answered(q)
    BY DEF Answered
  <1> QED BY <1>1 DEF Answers

\* A step that publishes nothing and takes an answer back, or leaves it.
LEMMA RegisterForgets ==
  ASSUME IInv, IInv', NEW p \in Proc,
         \A q \in Proc \ {p} : result'[q] = result[q] /\ man'[q] = man[q],
         result'[p] = "none" \/ (result'[p] = result[p] /\ man'[p] = man[p]),
         PublishedTree' = PublishedTree
  PROVE  [Register!Next]_Register!vars
  <1>1. Answers' = [Answers EXCEPT ![p] = Answered(p)']
    BY AnswersChangeOnce
  <1>2. CASE Answered(p)' = Answered(p)
    <2>1. Answers' = Answers
      BY <1>1, <1>2 DEF Answers
    <2> QED BY <2>1 DEF Register!vars
  <1>3. CASE Answered(p)' # Answered(p)
    <2>1. Answered(p)' = NoManifest /\ Answers[p] # NoManifest
      BY <1>3 DEF Answered, Answers
    <2>2. Register!Forget(p)
      BY <1>1, <2>1 DEF Register!Forget
    <2> QED BY <2>2 DEF Register!Next
  <1> QED BY <1>2, <1>3

\* A call that was not answered is answered Err.
LEMMA RegisterRefuses ==
  ASSUME IInv, IInv', NEW p \in Proc,
         \A q \in Proc \ {p} : result'[q] = result[q] /\ man'[q] = man[q],
         result[p] = "none", result'[p] = "err",
         PublishedTree' = PublishedTree
  PROVE  [Register!Next]_Register!vars
  <1>1. Answers' = [Answers EXCEPT ![p] = Answered(p)']
    BY AnswersChangeOnce
  <1>2. Answers[p] = NoManifest /\ Answered(p)' = NoName
    BY DEF Answers, Answered
  <1>3. Register!Refuse(p)
    BY <1>1, <1>2 DEF Register!Refuse
  <1> QED BY <1>3 DEF Register!Next

LEMMA RegisterRename ==
  ASSUME IInv, IInv', NEW p \in Proc, RenameStage(p)
  PROVE  [Register!Next]_Register!vars
  <1> USE DEF IInv, CallInv, TypeOK, HasStage
  <1>1. CASE Fail(p, "rename")
    <2>1. result[p] = "none" /\ result' = [result EXCEPT ![p] = "err"]
          /\ UNCHANGED <<man, output>>
      BY <1>1 DEF Fail, Goto, IndexInv
    <2> QED BY <2>1, RegisterRefuses DEF PublishedTree
  <1>2. CASE ~Fail(p, "rename")
    <2>1. /\ pc[p] = "rename" /\ output.kind # "catalog"
          /\ output' = [kind |-> "catalog", files |-> stages[stage[p]]]
          /\ UNCHANGED <<man, result>>
      BY <1>2 DEF RenameStage, RenameSucceeds, Goto
    <2> DEFINE tree == stages[stage[p]]
    <2>2. /\ IsTree(tree) /\ HoldsAll(tree, man[p]) /\ VerifyStagedCatalog(man[p], tree)
          /\ man[p] \in Manifest /\ Admissible(man[p])
      BY <2>1, ManifestAssumption
      DEF StageInv, ManifestInv, VerifiedInv, IndexInv, HoldsAll
    <2>3. tree = SnapshotOf(man[p])
      BY <2>2, SnapshotUnique
    <2>4. tree \in Publications
      BY <2>2, <2>3 DEF Publications, Publishable
    <2>5. PublishedTree = NoManifest /\ PublishedTree' = tree
      BY <2>1 DEF PublishedTree
    <2>6. Answers' = Answers
      BY <2>1 DEF Answers, Answered
    <2> QED BY <2>4, <2>5, <2>6 DEF Register!Next, Register!Publish
  <1> QED BY <1>1, <1>2

LEMMA RegisterSyncParent ==
  ASSUME IInv, IInv', NEW p \in Proc, SyncParent(p)
  PROVE  [Register!Next]_Register!vars
  <1> USE DEF IInv, CallInv, TypeOK, HasStage
  <1>1. CASE Fail(p, "syncparent")
    <2>1. result[p] = "none" /\ result' = [result EXCEPT ![p] = "err"]
          /\ UNCHANGED <<man, output>>
      BY <1>1 DEF Fail, Goto, IndexInv
    <2> QED BY <2>1, RegisterRefuses DEF PublishedTree
  <1>2. CASE ~Fail(p, "syncparent")
    <2>1. /\ pc[p] = "syncparent" /\ result' = [result EXCEPT ![p] = "ok"]
          /\ UNCHANGED <<man, output>>
      BY <1>2 DEF SyncParent, Goto, fs
    <2>2. /\ output.kind = "catalog" /\ result[p] = "none"
          /\ man[p] \in Manifest /\ Admissible(man[p])
          /\ HoldsAll(output.files, man[p]) /\ IsTree(output.files)
      BY <2>1 DEF OkInv, OutputInv, ManifestInv, IndexInv
    <2>3. output.files = SnapshotOf(man[p])
      BY <2>2, SnapshotUnique
    <2>4. PublishedTree = SnapshotOf(man[p]) /\ PublishedTree' = PublishedTree
      BY <2>1, <2>2, <2>3 DEF PublishedTree
    <2>5. Answered(p)' = PublishedTree /\ Answers[p] = NoManifest
      BY <2>1, <2>2, <2>4 DEF Answered, Answers
    <2>6. Answers' = [Answers EXCEPT ![p] = PublishedTree]
      BY <2>1, <2>5, AnswersChangeOnce
    <2>7. CASE PublishedTree = NoManifest
      <3>1. Answers' = Answers
        BY <2>5, <2>6, <2>7 DEF Answers
      <3> QED BY <3>1, <2>4 DEF Register!vars
    <2>8. CASE PublishedTree # NoManifest
      BY <2>4, <2>5, <2>6, <2>8 DEF Register!Next, Register!Accept
    <2> QED BY <2>7, <2>8
  <1> QED BY <1>1, <1>2

LEMMA RegisterStep == IInv /\ IInv' /\ [Next]_vars => [Register!Next]_Register!vars
  <1> SUFFICES ASSUME IInv, IInv', [Next]_vars PROVE [Register!Next]_Register!vars
    OBVIOUS
  <1> USE DEF IInv, CallInv, TypeOK, HasStage, Goto, fs
  <1>1. ASSUME NEW p \in Proc,
               Start(p) \/ CallAgain(p) \/ Exit(p) \/ RemoveStage(p) \/ RemoveTemp(p)
               \/ Kill(p)
        PROVE  [Register!Next]_Register!vars
    BY <1>1, RegisterForgets
    DEF Start, CallAgain, Exit, RemoveStage, RemoveTemp, Kill, PublishedTree
  <1>2. ASSUME NEW p \in Proc, BeginCall(p) \/ ReadManifest(p) \/ CreateStage(p)
        PROVE  [Register!Next]_Register!vars
    <2>1. /\ \A q \in Proc \ {p} : result'[q] = result[q] /\ man'[q] = man[q]
          /\ PublishedTree' = PublishedTree /\ result[p] = "none"
          /\ result'[p] \in {"none", "err"}
      BY <1>2 DEF BeginCall, ReadManifest, CreateStage, PublishedTree, IndexInv
    <2> QED BY <2>1, RegisterForgets, RegisterRefuses
  <1>3. ASSUME NEW p \in Proc, FetchObject(p) \/ VerifyStage(p) \/ SyncStage(p)
        PROVE  [Register!Next]_Register!vars
    <2>1. /\ \A q \in Proc \ {p} : result'[q] = result[q] /\ man'[q] = man[q]
          /\ PublishedTree' = PublishedTree /\ result[p] = "none"
          /\ result'[p] \in {"none", "err"}
      BY <1>3 DEF FetchObject, VerifyStage, SyncStage, Fail, PublishedTree, IndexInv
    <2> QED BY <2>1, RegisterForgets, RegisterRefuses
  <1>4. ASSUME AdminUsesPath \/ UNCHANGED vars PROVE [Register!Next]_Register!vars
    <2>1. Answers' = Answers /\ PublishedTree' = PublishedTree
      BY <1>4 DEF AdminUsesPath, vars, NotCatalog, Answers, Answered, PublishedTree
    <2> QED BY <2>1 DEF Register!vars
  <1> QED BY <1>1, <1>2, <1>3, <1>4, RegisterRename, RegisterSyncParent DEF Next, CallStep

\* sync_catalog implements the write-once register: it takes one catalog at
\* most, that catalog never changes, and an Ok is an Ok for what is in it.
THEOREM SyncImplementsRegister == Spec => ImplementsRegister
  <1>1. Init => Register!Init
    BY RegisterInit
  <1>2. IInv /\ IInv' /\ [Next]_vars => [Register!Next]_Register!vars
    BY RegisterStep
  <1> QED BY <1>1, <1>2, SpecInv, PTL DEF Spec, ImplementsRegister, Register!Spec
=============================================================================
