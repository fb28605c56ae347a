------------------------ MODULE QualificationProofs ------------------------
(***************************************************************************)
(* Theorems about Qualification, for any processes, artifacts, command     *)
(* lines, faults and changes: the record is written once, what qualifies   *)
(* was bound, the levels are ordered, and an undisturbed qualification is  *)
(* of what is on disk.                                                     *)
(***************************************************************************)
EXTENDS Qualification, TLAPS

-----------------------------------------------------------------------------
(* The records.                                                            *)

LEMMA EntryTypes ==
  ASSUME NEW r \in Records, NEW i \in DOMAIN r.evidence
  PROVE  /\ r.evidence[i] \in Entries /\ r.evidence[i].duration \in Nat
         /\ r.evidence[i].artifact \in Artifact \cup {Escaping}
<1>1. r.evidence \in Seq(Entries)
  BY DEF Records
<1>2. r.evidence[i] \in Entries
  BY <1>1
<1>3. QED BY <1>2 DEF Entries

\* A certified record would pass at every lower level, if its counts are
\* consistent: the kinds are nested and the soaks descend.
LEMMA CertifiedIsMost ==
  ASSUME NEW r \in Records, Validate(r), r.critical <= r.unresolved
  PROVE  /\ Validate([r EXCEPT !.level = "experimental"])
         /\ r.level = "certified" => Validate([r EXCEPT !.level = "compatible"])
<1> USE DEF Records, Level
<1>1. RequiredKinds("experimental") \subseteq RequiredKinds(r.level)
  BY DEF RequiredKinds, Kind, Validate
<1>2. RequiredKinds("compatible") \subseteq RequiredKinds("certified")
  BY DEF RequiredKinds, Kind
<1>3. RequiredSoak("experimental") = 0 /\ RequiredSoak("compatible") = 3600
      /\ RequiredSoak("certified") = 86400
  BY DEF RequiredSoak
<1>4. Validate([r EXCEPT !.level = "experimental"])
  <2> DEFINE e == [r EXCEPT !.level = "experimental"]
  <2>1. e.level = "experimental" /\ e.evidence = r.evidence /\ e.wellFormed = r.wellFormed
    OBVIOUS
  <2>2. UnresolvedAllowed(e)
    BY <2>1 DEF UnresolvedAllowed
  <2>3. SoakSuffices(e)
    BY <1>3, <2>1 DEF SoakSuffices
  <2> HIDE DEF e
  <2>4. QED BY <1>1, <2>1, <2>2, <2>3 DEF Validate, e
<1>5. ASSUME r.level = "certified" PROVE Validate([r EXCEPT !.level = "compatible"])
  <2> DEFINE e == [r EXCEPT !.level = "compatible"]
  <2>1. e.level = "compatible" /\ e.evidence = r.evidence /\ e.wellFormed = r.wellFormed
        /\ e.critical = r.critical
    OBVIOUS
  <2>2. UnresolvedAllowed(e)
    BY <1>5, <2>1 DEF UnresolvedAllowed, Validate
  <2>3. PICK i \in DOMAIN r.evidence :
          r.evidence[i].kind = "stress" /\ r.evidence[i].duration >= 86400
    BY <1>3, <1>5 DEF Validate, SoakSuffices
  <2>4. r.evidence[i].duration \in Nat
    BY EntryTypes
  <2>5. SoakSuffices(e)
    BY <1>3, <2>1, <2>3, <2>4 DEF SoakSuffices
  <2> HIDE DEF e
  <2>6. QED BY <1>2, <1>5, <2>1, <2>2, <2>5 DEF Validate, e
<1>6. QED BY <1>4, <1>5

\* A valid record has evidence.
LEMMA ValidHasEvidence ==
  ASSUME NEW r \in Records, Validate(r)
  PROVE  1 \in DOMAIN r.evidence /\ Len(r.evidence) \in DOMAIN r.evidence
<1>1. "boot" \in RequiredKinds(r.level)
  BY DEF Records, Level, RequiredKinds, Kind
<1>2. PICK i \in DOMAIN r.evidence : r.evidence[i].kind = "boot"
  BY <1>1 DEF Validate, Kinds
<1>3. r.evidence \in Seq(Entries) /\ DOMAIN r.evidence = 1 .. Len(r.evidence)
      /\ Len(r.evidence) \in Nat
  BY DEF Records
<1>4. QED BY <1>2, <1>3

\* What can be read of a torn record is a record, and no more than was bound.
LEMMA CutIsLess ==
  ASSUME NEW s \in Records, NEW k \in DOMAIN s.evidence, NEW d \in Nat,
         d <= s.evidence[k].duration
  PROVE  Cut(s, k, d) \in Records /\ NoMoreThan(Cut(s, k, d), s)
<1> DEFINE e == [i \in 1 .. k |-> IF i = k THEN [s.evidence[i] EXCEPT !.duration = d]
                                          ELSE s.evidence[i]]
<1>1. s.evidence \in Seq(Entries) /\ DOMAIN s.evidence = 1 .. Len(s.evidence)
      /\ Len(s.evidence) \in Nat /\ k \in 1 .. Len(s.evidence)
  BY DEF Records
<1>2. \A i \in 1 .. k : s.evidence[i] \in Entries
  BY <1>1
<1>3. \A i \in 1 .. k : e[i] \in Entries
  BY <1>2 DEF Entries
<1>4. e \in Seq(Entries) /\ Len(e) = k
  BY <1>1, <1>3
<1>5. e[k].duration = d
  BY <1>1, <1>2 DEF Entries
<1> HIDE DEF e
<1>6. Cut(s, k, d) = [s EXCEPT !.evidence = e]
  BY DEF Cut, e
<1>7. Cut(s, k, d) \in Records /\ Cut(s, k, d).evidence = e
  BY <1>4, <1>6 DEF Records
<1>8. QED BY <1>4, <1>5, <1>7 DEF NoMoreThan

LEMMA DigitsAreLess ==
  ASSUME NEW d \in Nat, NEW c \in Digits(d)
  PROVE  c \in Nat /\ c <= d
BY DEF Digits

LEMMA PrefixIsLess ==
  ASSUME NEW s \in Records, NEW text \in Prefixes(s)
  PROVE  text = Torn \/ (text \in Records /\ NoMoreThan(text, s))
<1>1. SUFFICES ASSUME text # Torn
               PROVE  text \in Records /\ NoMoreThan(text, s)
  OBVIOUS
<1>2. PICK k \in DOMAIN s.evidence : \E d \in Digits(s.evidence[k].duration) : text = Cut(s, k, d)
  BY <1>1 DEF Prefixes
<1>3. PICK d \in Digits(s.evidence[k].duration) : text = Cut(s, k, d)
  BY <1>2
<1>4. s.evidence[k].duration \in Nat
  BY EntryTypes
<1>5. d \in Nat /\ d <= s.evidence[k].duration
  BY <1>4, DigitsAreLess
<1>6. QED BY <1>3, <1>5, CutIsLess

LEMMA WholeIsLess ==
  ASSUME NEW s \in Records, Len(s.evidence) \in DOMAIN s.evidence
  PROVE  NoMoreThan(s, s)
<1> DEFINE k == Len(s.evidence)
<1>1. s.evidence \in Seq(Entries) /\ DOMAIN s.evidence = 1 .. k /\ k \in 1 .. k
  BY DEF Records
<1>2. s.evidence[k] \in Entries
  BY <1>1
<1>3. [s.evidence[k] EXCEPT !.duration = s.evidence[k].duration] = s.evidence[k]
  BY <1>2 DEF Entries
<1>4. s.evidence = [i \in 1 .. k |-> IF i = k
          THEN [s.evidence[i] EXCEPT !.duration = s.evidence[k].duration] ELSE s.evidence[i]]
  BY <1>1, <1>3
<1>5. Cut(s, k, s.evidence[k].duration) = s
  BY <1>4 DEF Cut, Records
<1>6. s.evidence[k].duration <= s.evidence[k].duration
  BY <1>2 DEF Entries
<1>7. QED BY <1>1, <1>5, <1>6 DEF NoMoreThan

\* Binding a digest leaves a record of the same shape.
LEMMA BindKeepsShape ==
  ASSUME NEW s \in Records, NEW i \in DOMAIN s.evidence, NEW b \in Bytes
  PROVE  LET r == [s EXCEPT !.evidence[i].digest = b]
         IN r \in Records /\ DOMAIN r.evidence = DOMAIN s.evidence
            /\ Len(r.evidence) = Len(s.evidence)
<1> DEFINE e == [s.evidence EXCEPT ![i] = [s.evidence[i] EXCEPT !.digest = b]]
<1>1. s.evidence \in Seq(Entries)
  BY DEF Records
<1>2. [s.evidence[i] EXCEPT !.digest = b] \in Entries
  BY EntryTypes DEF Entries
<1>3. e \in Seq(Entries) /\ DOMAIN e = DOMAIN s.evidence /\ Len(e) = Len(s.evidence)
  BY <1>1, <1>2
<1> HIDE DEF e
<1>4. [s EXCEPT !.evidence[i].digest = b] = [s EXCEPT !.evidence = e]
  BY DEF e
<1>5. [s EXCEPT !.evidence = e] \in Records /\ [s EXCEPT !.evidence = e].evidence = e
  BY <1>3 DEF Records
<1>6. QED BY <1>3, <1>4, <1>5

-----------------------------------------------------------------------------
(* The types.                                                              *)

\* Where a process is in its evidence, and that it looks at a safe path.
AtInv == \A p \in Proc :
  /\ pc[p] \in {"idle", "load", "root"} => at[p] = 1
  /\ pc[p] \in {"resolve", "read"} => Here(p) # Escaping
TypeInv == TypeOK /\ AtInv

LEMMA TypeInit == Init => TypeInv
<1>1. SUFFICES ASSUME Init PROVE TypeOK /\ AtInv
  BY DEF TypeInv
<1>2. /\ route \in [Artifact -> Way] /\ \A a \in Artifact : route[a] \in Routes(a)
      /\ content \in [Place -> Bytes \cup {Absent}]
  BY <1>1, LayoutAssumption DEF Init
<1>3. /\ pc \in [Proc -> Labels] /\ given \in [Proc -> Given \cup {"plain"}]
      /\ rec \in [Proc -> Records \cup {NoRecord}]
      /\ at \in [Proc -> Nat] /\ place \in [Proc -> Place]
      /\ calm \in [Proc -> BOOLEAN] /\ edits \in 0 .. MaxEdits
  BY <1>1, EditsAssumption DEF Init, Labels, Place
<1>4. QED BY <1>1, <1>2, <1>3 DEF Init, TypeOK, AtInv

LEMMA BytesAtType ==
  ASSUME TypeOK, NEW l \in Place
  PROVE  BytesAt(l) \in Bytes \cup {Absent}
<1>1. l \in Artifact => route[l].at \in Place
  BY DEF TypeOK, Way
<1>2. QED BY <1>1 DEF TypeOK, BytesAt

LEMMA HereIsArtifact ==
  ASSUME TypeOK, NEW p \in Proc, pc[p] \in {"inspect", "resolve", "read"}, Here(p) # Escaping
  PROVE  /\ Here(p) \in Artifact /\ route[Here(p)] \in Routes(Here(p))
         /\ route[Here(p)].at \in Place
<1>1. Here(p) \in Artifact
  BY EntryTypes DEF TypeOK, Here
<1>2. QED BY <1>1 DEF TypeOK, Way

\* The steps of the loop that both programs take.
LEMMA LoopTypes ==
  ASSUME TypeInv, NEW p \in Proc
  PROVE  /\ Inspect(p) => TypeInv'
         /\ \A accepted \in BOOLEAN : ResolveIf(p, accepted) => TypeInv'
<1> USE DEF TypeInv
<1>1. ASSUME Inspect(p) PROVE TypeInv'
  <2>1. CASE Goto(p, "resolve") /\ Here(p) # Escaping /\ UNCHANGED <<given, rec, at, place>>
    BY <1>1, <2>1 DEF Inspect, Goto, TypeOK, AtInv, Labels, Here
  <2>2. CASE Refuse(p)
    BY <1>1, <2>2 DEF Inspect, Refuse, Goto, TypeOK, AtInv, Labels, Here
  <2>3. QED BY <1>1, <2>1, <2>2 DEF Inspect
<1>2. ASSUME NEW accepted \in BOOLEAN, ResolveIf(p, accepted) PROVE TypeInv'
  <2>1. CASE /\ place' = [place EXCEPT ![p] = route[Here(p)].at]
             /\ Goto(p, "read") /\ UNCHANGED <<given, rec, at>>
    <3>1. pc[p] = "resolve" /\ route[Here(p)].at \in Place
      BY <1>2, HereIsArtifact DEF ResolveIf, AtInv
    <3>2. QED BY <1>2, <2>1, <3>1 DEF ResolveIf, Goto, TypeOK, AtInv, Labels, Here
  <2>2. CASE Refuse(p)
    BY <1>2, <2>2 DEF ResolveIf, Refuse, Goto, TypeOK, AtInv, Labels, Here
  <2>3. QED BY <1>2, <2>1, <2>2 DEF ResolveIf
<1>3. QED BY <1>1, <1>2

LEMMA AdvanceTypes ==
  ASSUME TypeInv, NEW p \in Proc, pc[p] = "read",
         NEW r \in Records, DOMAIN r.evidence = DOMAIN rec[p].evidence,
         NEW last \in Labels \ {"idle", "load", "root", "inspect", "resolve", "read"},
         Advance(p, r, last), UNCHANGED <<route, content, record, calm, edits>>
  PROVE  TypeInv'
<1> USE DEF TypeInv
<1>1. /\ at[p] \in 1 .. Len(r.evidence) /\ Len(r.evidence) \in Nat
      /\ DOMAIN r.evidence = 1 .. Len(r.evidence)
  BY DEF TypeOK, Records
<1>2. CASE at[p] = Len(r.evidence)
  BY <1>1, <1>2 DEF Advance, Goto, TypeOK, AtInv, Here
<1>3. CASE at[p] # Len(r.evidence)
  <2>1. at[p] + 1 \in DOMAIN r.evidence /\ at[p] + 1 \in Nat
    BY <1>1, <1>3
  <2>2. /\ rec' = [rec EXCEPT ![p] = r] /\ pc' = [pc EXCEPT ![p] = "inspect"]
        /\ at' = [at EXCEPT ![p] = @ + 1] /\ UNCHANGED <<given, place>>
    BY <1>3 DEF Advance, Goto
  <2>3. /\ pc' \in [Proc -> Labels] /\ rec' \in [Proc -> Records \cup {NoRecord}]
        /\ at' \in [Proc -> Nat]
    BY <2>1, <2>2 DEF TypeOK, Labels
  <2>4. rec'[p] = r /\ pc'[p] = "inspect" /\ at'[p] = at[p] + 1
    BY <2>2 DEF TypeOK
  <2>5. \A q \in Proc \ {p} : rec'[q] = rec[q] /\ pc'[q] = pc[q] /\ at'[q] = at[q]
    BY <2>2 DEF TypeOK
  <2>6. TypeOK'
    BY <2>1, <2>2, <2>3, <2>4, <2>5 DEF TypeOK
  <2>7. AtInv'
    BY <2>4, <2>5 DEF AtInv, Here
  <2>8. QED BY <2>6, <2>7
<1>4. QED BY <1>2, <1>3

LEMMA RecorderTypes ==
  ASSUME TypeInv, NEW p \in Recorder, Record(p)
  PROVE  TypeInv'
<1> USE DEF TypeInv
<1>p. p \in Proc
  BY DEF Proc
<1>1. CASE StartRecording(p)
  <2>1. PICK q \in Request[p], g \in Given :
          /\ given' = [given EXCEPT ![p] = g]
          /\ rec' = [rec EXCEPT ![p] = q]
          /\ Goto(p, IF q.evidence # <<>> /\ DistinctKinds(q.evidence) THEN "root" ELSE "refused")
    BY <1>1 DEF StartRecording
  <2>2. q \in Records
    BY RequestAssumption
  <2>3. q.evidence # <<>> => 1 \in DOMAIN q.evidence
    BY <2>2 DEF Records
  <2>4. QED BY <1>p, <1>1, <2>1, <2>2, <2>3
            DEF StartRecording, Goto, TypeOK, AtInv, Labels, Here
<1>2. CASE FindRoot(p)
  BY <1>p, <1>2 DEF FindRoot, Refuse, Goto, TypeOK, AtInv, Labels, Here
<1>3. CASE Inspect(p)
  BY <1>p, <1>3, LoopTypes
<1>4. CASE ResolveToBind(p)
  BY <1>p, <1>4, LoopTypes DEF ResolveToBind
<1>5. CASE Bind(p)
  <2>1. CASE Refuse(p)
    BY <1>p, <1>5, <2>1 DEF Bind, Refuse, Goto, TypeOK, AtInv, Labels, Here
  <2>2. CASE ~Refuse(p)
    <3> DEFINE r == [rec[p] EXCEPT !.evidence[at[p]].digest = BytesAt(place[p])]
    <3>1. pc[p] = "read" /\ BytesAt(place[p]) # Absent /\ place[p] \in Place
          /\ Advance(p, r, IF Validate(r) THEN "create" ELSE "refused")
      BY <1>p, <1>5, <2>2 DEF Bind, TypeOK
    <3>2. BytesAt(place[p]) \in Bytes
      BY <3>1, BytesAtType
    <3>3. r \in Records /\ DOMAIN r.evidence = DOMAIN rec[p].evidence
      BY <1>p, <3>1, <3>2, BindKeepsShape DEF TypeOK
    <3>4. UNCHANGED <<route, content, record, calm, edits>>
      BY <1>5 DEF Bind
    <3> HIDE DEF r
    <3>5. QED BY <1>p, <3>1, <3>3, <3>4, AdvanceTypes DEF Labels
  <2>3. QED BY <2>1, <2>2
<1>6. CASE CreateRecord(p)
  <2>1. File(p, Torn) \in [by : Recorder, text : Records \cup {Torn}]
    BY DEF File
  <2>2. QED BY <1>p, <1>6, <2>1 DEF CreateRecord, Refuse, Goto, TypeOK, AtInv, Labels, Here
<1>7. CASE WritePart(p)
  <2>1. PICK text \in Prefixes(rec[p]) : Put(p, text)
    BY <1>7 DEF WritePart
  <2>2. CASE record' = record
    BY <1>7, <2>2 DEF WritePart, TypeOK, AtInv, Here
  <2>3. CASE record' = File(p, text)
    <3>1. rec[p] \in Records
      BY <1>p, <1>7 DEF WritePart, TypeOK
    <3>2. text \in Records \cup {Torn}
      BY <2>1, <3>1, PrefixIsLess
    <3>3. QED BY <1>7, <2>3, <3>2 DEF WritePart, TypeOK, AtInv, Here, File
  <2>4. QED BY <2>1, <2>2, <2>3 DEF Put
<1>8. CASE WriteRecord(p)
  <2>1. File(p, rec[p]) \in [by : Recorder, text : Records \cup {Torn}]
    BY <1>p, <1>8 DEF WriteRecord, TypeOK, File
  <2>2. CASE Refuse(p) /\ UNCHANGED record
    BY <1>p, <1>8, <2>2 DEF WriteRecord, Refuse, Goto, TypeOK, AtInv, Labels, Here
  <2>3. CASE Put(p, rec[p]) /\ Goto(p, "recorded") /\ UNCHANGED <<given, rec, at, place>>
    BY <1>p, <1>8, <2>1, <2>3 DEF WriteRecord, Put, Goto, TypeOK, AtInv, Labels, Here
  <2>4. QED BY <1>8, <2>2, <2>3 DEF WriteRecord
<1>9. QED BY <1>1, <1>2, <1>3, <1>4, <1>5, <1>6, <1>7, <1>8 DEF Record

LEMMA QualifierTypes ==
  ASSUME TypeInv, NEW p \in Qualifier, Qualify(p)
  PROVE  TypeInv'
<1> USE DEF TypeInv
<1>p. p \in Proc
  BY DEF Proc
<1>1. CASE StartQualifying(p)
  BY <1>p, <1>1 DEF StartQualifying, Goto, TypeOK, AtInv, Labels, Here
<1>2. CASE Load(p)
  <2>1. CASE Refuse(p)
    BY <1>p, <1>2, <2>1 DEF Load, Refuse, Goto, TypeOK, AtInv, Labels, Here
  <2>2. CASE /\ IsFile /\ record.text # Torn
             /\ rec' = [rec EXCEPT ![p] = record.text]
             /\ Goto(p, IF Validate(record.text) THEN "root" ELSE "refused")
             /\ UNCHANGED <<given, at, place>>
    <3>1. record.text \in Records
      BY <2>2 DEF IsFile, TypeOK
    <3>2. Validate(record.text) => 1 \in DOMAIN record.text.evidence
      BY <3>1, ValidHasEvidence
    <3>3. QED BY <1>p, <1>2, <2>2, <3>1, <3>2 DEF Load, Goto, TypeOK, AtInv, Labels, Here
  <2>3. QED BY <1>2, <2>1, <2>2 DEF Load
<1>3. CASE CanonicalRoot(p)
  BY <1>p, <1>3 DEF CanonicalRoot, Refuse, Goto, TypeOK, AtInv, Labels, Here
<1>4. CASE Inspect(p)
  BY <1>p, <1>4, LoopTypes
<1>5. CASE ResolveToCheck(p)
  BY <1>p, <1>5, LoopTypes DEF ResolveToCheck
<1>6. CASE CompareDigest(p)
  <2>1. CASE Refuse(p)
    BY <1>p, <1>6, <2>1 DEF CompareDigest, Refuse, Goto, TypeOK, AtInv, Labels, Here
  <2>2. CASE Advance(p, rec[p], "qualified")
    <3>1. pc[p] = "read" /\ rec[p] \in Records /\ UNCHANGED <<route, content, record, calm, edits>>
      BY <1>p, <1>6 DEF CompareDigest, TypeOK
    <3>2. QED BY <1>p, <2>2, <3>1, AdvanceTypes DEF Labels
  <2>3. QED BY <1>6, <2>1, <2>2 DEF CompareDigest
<1>7. QED BY <1>1, <1>2, <1>3, <1>4, <1>5, <1>6 DEF Qualify

LEMMA OthersTypes ==
  ASSUME TypeInv
  PROVE  /\ \A p \in Proc : Kill(p) => TypeInv'
         /\ \A c \in Change : EditArtifact(c) => TypeInv'
         /\ UseRecordPath => TypeInv'
         /\ UNCHANGED vars => TypeInv'
<1> USE DEF TypeInv
<1>1. ASSUME NEW p \in Proc, Kill(p) PROVE TypeInv'
  BY <1>1 DEF Kill, Goto, TypeOK, AtInv, Labels, Here
<1>2. ASSUME NEW c \in Change, EditArtifact(c) PROVE TypeInv'
  <2>1. c.artifact \in Artifact /\ c.route \in Routes(c.artifact) /\ c.bytes \in Bytes \cup {Absent}
    BY LayoutAssumption
  <2>2. c.route \in Way
    BY <2>1 DEF Routes, Way, Place
  <2>3. /\ route' \in [Artifact -> Way] /\ \A a \in Artifact : route'[a] \in Routes(a)
        /\ content' \in [Place -> Bytes \cup {Absent}]
    BY <1>2, <2>1, <2>2 DEF EditArtifact, TypeOK
  <2>4. edits' \in 0 .. MaxEdits
    BY <1>2, EditsAssumption DEF EditArtifact, TypeOK
  <2>5. QED BY <1>2, <2>3, <2>4 DEF EditArtifact, TypeOK, AtInv, Here, local
<1>3. ASSUME UseRecordPath PROVE TypeInv'
  <2>1. edits' \in 0 .. MaxEdits
    BY <1>3, EditsAssumption DEF UseRecordPath, TypeOK
  <2>2. QED BY <1>3, <2>1 DEF UseRecordPath, TypeOK, AtInv, Here, local
<1>4. ASSUME UNCHANGED vars PROVE TypeInv'
  BY <1>4 DEF vars, TypeOK, AtInv, Here
<1>5. QED BY <1>1, <1>2, <1>3, <1>4

LEMMA TypeStep == TypeInv /\ [Next]_vars => TypeInv'
BY RecorderTypes, QualifierTypes, OthersTypes DEF Next

LEMMA TypesHold == Spec => []TypeInv
<1>1. QED BY TypeInit, TypeStep, PTL DEF Spec

\* Every state is typed, and a process at an evidence has one there.
THEOREM TypeCorrect == Spec => []TypeOK
<1>1. TypeInv => TypeOK
  BY DEF TypeInv
<1>2. QED BY <1>1, TypesHold, PTL

-----------------------------------------------------------------------------
(* The record at its path.                                                 *)

\* No recorder replaces a record, and none changes it but the one that
\* created it, while it writes.
THEOREM RecordIsWrittenOnce == Spec => RecordWrittenOnce
<1> DEFINE Once == IsFile /\ record' # Absent =>
                     /\ record'.by = record.by
                     /\ pc[record.by] # "write" => record' = record
<1>1. [Next]_vars => Once
  <2>1. SUFFICES ASSUME Next, record' # record, IsFile, record' # Absent PROVE Once
    BY DEF vars
  <2>2. \E p \in Recorder : WritePart(p) \/ WriteRecord(p)
    BY <2>1 DEF Next, Record, Qualify, StartRecording, FindRoot, Inspect, ResolveToBind,
       ResolveToCheck, ResolveIf, Bind, CreateRecord, StartQualifying, Load, CanonicalRoot,
       CompareDigest, Kill, EditArtifact, UseRecordPath, IsFile
  <2>3. PICK p \in Recorder : pc[p] = "write" /\ \E text : Put(p, text)
    BY <2>1, <2>2 DEF WritePart, WriteRecord
  <2>4. record.by = p /\ \E text : record' = File(p, text)
    BY <2>1, <2>3 DEF Put
  <2>5. QED BY <2>3, <2>4 DEF File
<1>2. QED BY <1>1, PTL DEF Spec, RecordWrittenOnce

-----------------------------------------------------------------------------
(* What a step leaves alone.                                               *)

Others(p) == \A x \in Proc \ {p} :
  /\ pc'[x] = pc[x] /\ rec'[x] = rec[x] /\ at'[x] = at[x] /\ place'[x] = place[x]
  /\ calm'[x] = calm[x]

LEMMA RecordFrame ==
  ASSUME TypeInv, NEW p \in Recorder, Record(p)
  PROVE  Others(p) /\ UNCHANGED <<route, content>> /\ pc[p] \in
           {"idle", "root", "inspect", "resolve", "read", "create", "write"}
<1> USE DEF TypeInv, Others, Proc
<1>1. CASE StartRecording(p)
  BY <1>1 DEF StartRecording, Goto, TypeOK
<1>2. CASE FindRoot(p)
  BY <1>2 DEF FindRoot, Refuse, Goto, TypeOK
<1>3. CASE Inspect(p)
  BY <1>3 DEF Inspect, Refuse, Goto, TypeOK
<1>4. CASE ResolveToBind(p)
  BY <1>4 DEF ResolveToBind, ResolveIf, Refuse, Goto, TypeOK
<1>5. CASE Bind(p)
  BY <1>5 DEF Bind, Advance, Refuse, Goto, TypeOK
<1>6. CASE CreateRecord(p)
  BY <1>6 DEF CreateRecord, Refuse, Goto, TypeOK
<1>7. CASE WritePart(p)
  BY <1>7 DEF WritePart, TypeOK
<1>8. CASE WriteRecord(p)
  BY <1>8 DEF WriteRecord, Refuse, Goto, TypeOK
<1>9. QED BY <1>1, <1>2, <1>3, <1>4, <1>5, <1>6, <1>7, <1>8 DEF Record

LEMMA QualifyFrame ==
  ASSUME TypeInv, NEW p \in Qualifier, Qualify(p)
  PROVE  Others(p) /\ UNCHANGED <<route, content, record>>
<1> USE DEF TypeInv, Others, Proc
<1>1. CASE StartQualifying(p)
  BY <1>1 DEF StartQualifying, Goto, TypeOK
<1>2. CASE Load(p)
  BY <1>2 DEF Load, Refuse, Goto, TypeOK
<1>3. CASE CanonicalRoot(p)
  BY <1>3 DEF CanonicalRoot, Refuse, Goto, TypeOK
<1>4. CASE Inspect(p)
  BY <1>4 DEF Inspect, Refuse, Goto, TypeOK
<1>5. CASE ResolveToCheck(p)
  BY <1>5 DEF ResolveToCheck, ResolveIf, Refuse, Goto, TypeOK
<1>6. CASE CompareDigest(p)
  BY <1>6 DEF CompareDigest, Advance, Refuse, Goto, TypeOK
<1>7. QED BY <1>1, <1>2, <1>3, <1>4, <1>5, <1>6 DEF Qualify

-----------------------------------------------------------------------------
(* What is qualified was bound.                                            *)

\* A recorder whose record is settled: it created a file, or is over.
Settled == {"write", "recorded", "refused", "killed"}
Checking == {"root", "inspect", "resolve", "read", "qualified"}

BoundBy(text, r) == /\ pc[r] \in Settled /\ rec[r] \in Records /\ Validate(rec[r])
                    /\ NoMoreThan(text, rec[r])
\* The file is of a recorder that has validated its record, and holds part of it.
FileInv == IsFile =>
  /\ pc[record.by] \in Settled /\ rec[record.by] \in Records /\ Validate(rec[record.by])
  /\ record.text = Torn \/ NoMoreThan(record.text, rec[record.by])
CreateInv == \A r \in Recorder : pc[r] \in {"create", "write"} => Validate(rec[r])
QualifierInv == \A q \in Qualifier : pc[q] \in Checking =>
  rec[q] \in Records /\ Validate(rec[q]) /\ \E r \in Recorder : BoundBy(rec[q], r)
BoundInv == FileInv /\ CreateInv /\ QualifierInv

LEMMA SettledStays ==
  ASSUME TypeInv, [Next]_vars, NEW r \in Recorder, pc[r] \in Settled
  PROVE  pc'[r] \in Settled /\ rec'[r] = rec[r]
<1>r. r \in Proc /\ r \notin Qualifier
  BY ProcAssumption DEF Proc
<1>1. CASE \E p \in Recorder : Record(p)
  <2>1. PICK p \in Recorder : Record(p)
    BY <1>1
  <2>2. CASE p # r
    BY <1>r, <2>1, <2>2, RecordFrame DEF Others
  <2>3. CASE p = r
    <3>1. WritePart(r) \/ WriteRecord(r)
      BY <2>1, <2>3 DEF Record, StartRecording, FindRoot, Inspect, ResolveToBind, ResolveIf,
         Bind, CreateRecord, Settled
    <3>2. QED BY <1>r, <3>1 DEF WritePart, WriteRecord, Refuse, Goto, TypeInv, TypeOK, Settled
  <2>4. QED BY <2>2, <2>3
<1>2. CASE \E p \in Qualifier : Qualify(p)
  BY <1>r, <1>2, QualifyFrame DEF Others
<1>3. CASE \E p \in Proc : Kill(p)
  BY <1>r, <1>3 DEF Kill, Goto, TypeInv, TypeOK, Settled
<1>4. CASE (\E c \in Change : EditArtifact(c)) \/ UseRecordPath \/ UNCHANGED vars
  BY <1>4 DEF EditArtifact, UseRecordPath, vars, local
<1>5. QED BY <1>1, <1>2, <1>3, <1>4 DEF Next

\* Where the record can change, and to what.
LEMMA RecordSteps ==
  ASSUME TypeInv, [Next]_vars, record' # record
  PROVE  \/ ~IsFile'
         \/ \E p \in Recorder : CreateRecord(p) /\ record = Absent
                               /\ record' = File(p, Torn) /\ Goto(p, "write") /\ UNCHANGED rec
         \/ \E p \in Recorder : /\ pc[p] = "write" /\ IsFile /\ record.by = p
                               /\ \E text \in Prefixes(rec[p]) \cup {rec[p]} : record' = File(p, text)
<1>1. CASE \E p \in Recorder : Record(p)
  <2>1. PICK p \in Recorder : CreateRecord(p) \/ WritePart(p) \/ WriteRecord(p)
    BY <1>1 DEF Record, StartRecording, FindRoot, Inspect, ResolveToBind, ResolveIf, Bind
  <2>2. CASE CreateRecord(p)
    BY <2>2 DEF CreateRecord
  <2>3. CASE WritePart(p)
    BY <2>3 DEF WritePart, Put
  <2>4. CASE WriteRecord(p)
    BY <2>4 DEF WriteRecord, Put
  <2>5. QED BY <2>1, <2>2, <2>3, <2>4
<1>2. CASE \E p \in Qualifier : Qualify(p)
  BY <1>2, QualifyFrame
<1>3. CASE (\E p \in Proc : Kill(p)) \/ (\E c \in Change : EditArtifact(c)) \/ UNCHANGED vars
  BY <1>3 DEF Kill, EditArtifact, vars
<1>4. CASE UseRecordPath
  BY <1>4 DEF UseRecordPath, IsFile
<1>5. QED BY <1>1, <1>2, <1>3, <1>4 DEF Next

LEMMA FileStep ==
  ASSUME TypeInv, BoundInv, [Next]_vars
  PROVE  FileInv'
<1> SUFFICES ASSUME IsFile'
             PROVE  /\ pc'[record'.by] \in Settled /\ rec'[record'.by] \in Records
                    /\ Validate(rec'[record'.by])
                    /\ record'.text = Torn \/ NoMoreThan(record'.text, rec'[record'.by])
  BY DEF FileInv
<1>1. CASE record' = record
  <2>1. IsFile /\ record.by \in Recorder /\ pc[record.by] \in Settled
    BY <1>1 DEF IsFile, TypeInv, TypeOK, BoundInv, FileInv
  <2>2. QED BY <1>1, <2>1, SettledStays DEF BoundInv, FileInv
<1>2. ASSUME NEW p \in Recorder, CreateRecord(p), record' = File(p, Torn),
             Goto(p, "write"), UNCHANGED rec
      PROVE  /\ pc'[record'.by] \in Settled /\ rec'[record'.by] \in Records
             /\ Validate(rec'[record'.by]) /\ record'.text = Torn
  <2>1. pc[p] = "create" /\ p \in Proc
    BY <1>2 DEF CreateRecord, Proc
  <2>2. rec[p] \in Records /\ Validate(rec[p])
    BY <2>1 DEF TypeInv, TypeOK, BoundInv, CreateInv
  <2>3. pc'[p] = "write"
    BY <1>2, <2>1 DEF Goto, TypeInv, TypeOK
  <2>4. QED BY <1>2, <2>2, <2>3 DEF File, Settled
<1>3. ASSUME NEW p \in Recorder, pc[p] = "write",
             NEW text \in Prefixes(rec[p]) \cup {rec[p]}, record' = File(p, text)
      PROVE  /\ pc'[record'.by] \in Settled /\ rec'[record'.by] \in Records
             /\ Validate(rec'[record'.by])
             /\ record'.text = Torn \/ NoMoreThan(record'.text, rec'[record'.by])
  <2>1. rec[p] \in Records /\ Validate(rec[p])
    BY <1>3 DEF TypeInv, TypeOK, BoundInv, CreateInv, Proc
  <2>2. text = Torn \/ NoMoreThan(text, rec[p])
    BY <2>1, PrefixIsLess, WholeIsLess, ValidHasEvidence
  <2>3. pc'[p] \in Settled /\ rec'[p] = rec[p]
    BY <1>3, SettledStays DEF Settled
  <2>4. QED BY <1>3, <2>1, <2>2, <2>3 DEF File
<1>4. QED BY <1>1, <1>2, <1>3, RecordSteps

LEMMA CreateStep ==
  ASSUME TypeInv, BoundInv, [Next]_vars
  PROVE  CreateInv'
<1> SUFFICES ASSUME NEW r \in Recorder, pc'[r] \in {"create", "write"}
             PROVE  Validate(rec'[r])
  BY DEF CreateInv
<1>r. r \in Proc /\ r \notin Qualifier
  BY ProcAssumption DEF Proc
<1>1. CASE pc'[r] = pc[r] /\ rec'[r] = rec[r]
  BY <1>1 DEF BoundInv, CreateInv
<1>2. CASE Record(r)
  <2>1. CASE Bind(r)
    <3> DEFINE s == [rec[r] EXCEPT !.evidence[at[r]].digest = BytesAt(place[r])]
    <3>1. ~Refuse(r)
      BY <1>r DEF Refuse, Goto, TypeInv, TypeOK
    <3>2. Advance(r, s, IF Validate(s) THEN "create" ELSE "refused")
      BY <2>1, <3>1 DEF Bind
    <3> HIDE DEF s
    <3>3. rec'[r] = s /\ (pc'[r] = "create" => Validate(s)) /\ pc'[r] # "write"
      BY <1>r, <3>2 DEF Advance, Goto, TypeInv, TypeOK
    <3>4. QED BY <3>3
  <2>2. CASE StartRecording(r) \/ FindRoot(r) \/ Inspect(r) \/ ResolveToBind(r)
    BY <1>r, <2>2 DEF StartRecording, FindRoot, Inspect, ResolveToBind, ResolveIf, Refuse,
       Goto, TypeInv, TypeOK
  <2>3. CASE CreateRecord(r) \/ WritePart(r) \/ WriteRecord(r)
    BY <1>r, <2>3 DEF CreateRecord, WritePart, WriteRecord, Refuse, Goto, TypeInv, TypeOK,
       BoundInv, CreateInv
  <2>4. QED BY <1>2, <2>1, <2>2, <2>3 DEF Record
<1>3. CASE \E p \in Recorder \ {r} : Record(p)
  BY <1>r, <1>1, <1>3, RecordFrame DEF Others
<1>4. CASE \E p \in Qualifier : Qualify(p)
  BY <1>r, <1>1, <1>4, QualifyFrame DEF Others
<1>5. CASE \E p \in Proc : Kill(p)
  BY <1>r, <1>1, <1>5 DEF Kill, Goto, TypeInv, TypeOK
<1>6. CASE (\E c \in Change : EditArtifact(c)) \/ UseRecordPath \/ UNCHANGED vars
  BY <1>1, <1>6 DEF EditArtifact, UseRecordPath, vars, local
<1>7. QED BY <1>2, <1>3, <1>4, <1>5, <1>6 DEF Next

LEMMA QualifierStep ==
  ASSUME TypeInv, BoundInv, [Next]_vars
  PROVE  QualifierInv'
<1> SUFFICES ASSUME NEW q \in Qualifier, pc'[q] \in Checking
             PROVE  /\ rec'[q] \in Records /\ Validate(rec'[q])
                    /\ \E r \in Recorder : /\ pc'[r] \in Settled /\ rec'[r] \in Records
                                           /\ Validate(rec'[r]) /\ NoMoreThan(rec'[q], rec'[r])
  BY DEF QualifierInv, BoundBy
<1>q. q \in Proc /\ q \notin Recorder
  BY ProcAssumption DEF Proc
<1>1. CASE rec'[q] = rec[q] /\ pc[q] \in Checking
  <2>1. PICK r \in Recorder : BoundBy(rec[q], r)
    BY <1>1 DEF BoundInv, QualifierInv
  <2>2. pc'[r] \in Settled /\ rec'[r] = rec[r]
    BY <2>1, SettledStays DEF BoundBy
  <2>3. QED BY <1>1, <2>1, <2>2 DEF BoundInv, QualifierInv, BoundBy
<1>2. CASE Load(q)
  <2>1. ~Refuse(q)
    BY <1>q DEF Refuse, Goto, TypeInv, TypeOK, Checking
  <2>2. /\ IsFile /\ record.text # Torn /\ rec' = [rec EXCEPT ![q] = record.text]
        /\ Goto(q, IF Validate(record.text) THEN "root" ELSE "refused")
    BY <1>2, <2>1 DEF Load
  <2>3. record.by \in Recorder /\ record.text \in Records
    BY <2>2 DEF IsFile, TypeInv, TypeOK
  <2>4. Validate(record.text)
    BY <1>q, <2>2 DEF Goto, TypeInv, TypeOK, Checking
  <2>5. rec'[q] = record.text
    BY <1>q, <2>2 DEF TypeInv, TypeOK
  <2>6. /\ pc[record.by] \in Settled /\ rec[record.by] \in Records /\ Validate(rec[record.by])
        /\ NoMoreThan(record.text, rec[record.by])
    BY <2>2 DEF BoundInv, FileInv
  <2>7. pc'[record.by] \in Settled /\ rec'[record.by] = rec[record.by]
    BY <2>3, <2>6, SettledStays
  <2>8. QED BY <2>3, <2>4, <2>5, <2>6, <2>7
<1>3. CASE Qualify(q) /\ ~Load(q)
  <2>1. CASE StartQualifying(q)
    BY <1>q, <2>1 DEF StartQualifying, Goto, TypeInv, TypeOK, Checking
  <2>2. CASE CanonicalRoot(q) \/ Inspect(q) \/ ResolveToCheck(q)
    BY <1>q, <1>1, <2>2 DEF CanonicalRoot, Inspect, ResolveToCheck, ResolveIf, Refuse,
       Checking
  <2>3. CASE CompareDigest(q)
    BY <1>q, <1>1, <2>3 DEF CompareDigest, Advance, Refuse, Checking, TypeInv, TypeOK
  <2>4. QED BY <1>3, <2>1, <2>2, <2>3 DEF Qualify
<1>4. CASE \E p \in Qualifier \ {q} : Qualify(p)
  BY <1>q, <1>1, <1>4, QualifyFrame DEF Others
<1>5. CASE \E p \in Recorder : Record(p)
  BY <1>q, <1>1, <1>5, RecordFrame DEF Others
<1>6. CASE \E p \in Proc : Kill(p)
  <2>1. PICK p \in Proc : Kill(p)
    BY <1>6
  <2>2. p # q
    BY <1>q, <2>1 DEF Kill, Goto, TypeInv, TypeOK, Checking
  <2>3. QED BY <1>q, <1>1, <2>1, <2>2 DEF Kill, Goto, TypeInv, TypeOK
<1>7. CASE (\E c \in Change : EditArtifact(c)) \/ UseRecordPath \/ UNCHANGED vars
  BY <1>1, <1>7 DEF EditArtifact, UseRecordPath, vars, local
<1>8. QED BY <1>2, <1>3, <1>4, <1>5, <1>6, <1>7 DEF Next

LEMMA BoundHolds == Spec => []BoundInv
<1>1. Init => BoundInv
  BY DEF Init, BoundInv, FileInv, CreateInv, QualifierInv, IsFile, Checking, Proc
<1>2. TypeInv /\ BoundInv /\ [Next]_vars => BoundInv'
  BY FileStep, CreateStep, QualifierStep DEF BoundInv
<1>3. QED BY <1>1, <1>2, TypesHold, PTL DEF Spec

\* Torn, replaced or removed: what qualifies is part of what one recorder
\* bound and validated.
THEOREM QualifiedBound == Spec => []QualifiedWasBound
<1>1. BoundInv => QualifiedWasBound
  BY DEF BoundInv, QualifierInv, QualifiedWasBound, BoundBy, Checking
<1>2. QED BY <1>1, BoundHolds, PTL

\* Qualified for a level is qualified for every lower one.
THEOREM LevelsOrdered == Spec => []LevelsAreOrdered
<1>1. BoundInv => LevelsAreOrdered
  BY CertifiedIsMost DEF BoundInv, QualifierInv, LevelsAreOrdered, Checking
<1>2. QED BY <1>1, BoundHolds, PTL

-----------------------------------------------------------------------------
(* What an undisturbed qualification says about the disk.                  *)

Intact(e) == route[e.artifact].form = "file" /\ content[e.artifact] = e.digest
\* Evidence behind the index has been found intact, and a place is resolved
\* only if it is the artifact itself.
CalmInv == \A q \in Qualifier : calm[q] =>
  /\ pc[q] \in {"inspect", "resolve", "read"} =>
       \A i \in DOMAIN rec[q].evidence : i < at[q] => Intact(rec[q].evidence[i])
  /\ pc[q] = "read" => place[q] = Here(q) /\ route[Here(q)].at = Here(q)
  /\ pc[q] = "qualified" => \A i \in DOMAIN rec[q].evidence : Intact(rec[q].evidence[i])

LEMMA CompareIsIntact ==
  ASSUME TypeInv, NEW q \in Qualifier, pc[q] = "read",
         place[q] = Here(q), route[Here(q)].at = Here(q),
         BytesAt(place[q]) = rec[q].evidence[at[q]].digest
  PROVE  Intact(rec[q].evidence[at[q]])
<1>1. Here(q) \in Artifact /\ route[Here(q)] \in Routes(Here(q))
  BY HereIsArtifact DEF TypeInv, AtInv, Proc
<1>2. Here(q) # Inner /\ Here(q) # Outer
  BY <1>1, PlaceAssumption
<1>3. route[Here(q)].form = "file"
  BY <1>1, <1>2 DEF Routes
<1>4. BytesAt(place[q]) = content[Here(q)]
  BY <1>1 DEF BytesAt
<1>5. QED BY <1>3, <1>4 DEF Intact, Here

LEMMA CalmQualify ==
  ASSUME TypeInv, CalmInv, NEW q \in Qualifier, Qualify(q), calm'[q]
  PROVE  /\ pc'[q] \in {"inspect", "resolve", "read"} =>
              \A i \in DOMAIN rec'[q].evidence : i < at'[q] => Intact(rec'[q].evidence[i])
         /\ pc'[q] = "read" => place'[q] = Here(q)' /\ route[Here(q)'].at = Here(q)'
         /\ pc'[q] = "qualified" =>
              \A i \in DOMAIN rec'[q].evidence : Intact(rec'[q].evidence[i])
<1>q. q \in Proc
  BY DEF Proc
<1>r. Refuse(q) => pc'[q] = "refused"
  BY <1>q DEF Refuse, Goto, TypeInv, TypeOK
<1>1. CASE StartQualifying(q) \/ Load(q)
  BY <1>q, <1>r, <1>1 DEF StartQualifying, Load, Goto, TypeInv, TypeOK
<1>2. CASE CanonicalRoot(q)
  <2>1. CASE Goto(q, "inspect") /\ UNCHANGED <<given, rec, at, place>>
    <3>1. at[q] = 1 /\ rec[q] \in Records
      BY <1>q, <1>2 DEF CanonicalRoot, TypeInv, TypeOK, AtInv
    <3>2. \A i \in DOMAIN rec[q].evidence : ~(i < 1)
      BY <3>1 DEF Records
    <3>3. QED BY <1>q, <2>1, <3>1, <3>2 DEF Goto, TypeInv, TypeOK
  <2>2. QED BY <1>2, <1>r, <2>1 DEF CanonicalRoot
<1>3. CASE Inspect(q)
  BY <1>q, <1>r, <1>3 DEF Inspect, Goto, TypeInv, TypeOK, CalmInv
<1>4. CASE ResolveToCheck(q)
  <2>1. CASE Refuse(q)
    BY <1>r, <2>1
  <2>2. CASE /\ route[Here(q)].at = Here(q) /\ place' = [place EXCEPT ![q] = route[Here(q)].at]
             /\ Goto(q, "read") /\ UNCHANGED <<given, rec, at>>
    <3>1. pc[q] = "resolve" /\ calm[q] /\ pc'[q] = "read" /\ Here(q)' = Here(q)
          /\ place'[q] = Here(q)
      BY <1>q, <1>4, <2>2 DEF ResolveToCheck, ResolveIf, Goto, TypeInv, TypeOK, Here
    <3>2. QED BY <2>2, <3>1 DEF CalmInv
  <2>3. QED BY <1>4, <2>1, <2>2 DEF ResolveToCheck, ResolveIf
<1>5. CASE CompareDigest(q)
  <2>1. CASE Refuse(q)
    BY <1>r, <2>1
  <2>2. CASE BytesAt(place[q]) = rec[q].evidence[at[q]].digest /\ Advance(q, rec[q], "qualified")
    <3>1. pc[q] = "read" /\ calm[q] /\ rec[q] \in Records /\ at[q] \in DOMAIN rec[q].evidence
      BY <1>q, <1>5 DEF CompareDigest, TypeInv, TypeOK
    <3>2. /\ \A i \in DOMAIN rec[q].evidence : i < at[q] => Intact(rec[q].evidence[i])
          /\ Intact(rec[q].evidence[at[q]])
      BY <2>2, <3>1, CompareIsIntact DEF CalmInv
    <3>3. DOMAIN rec[q].evidence = 1 .. Len(rec[q].evidence) /\ Len(rec[q].evidence) \in Nat
      BY <3>1 DEF Records
    <3>4. \A i \in DOMAIN rec[q].evidence : i < at[q] + 1 => Intact(rec[q].evidence[i])
      BY <3>1, <3>2, <3>3
    <3>5. rec'[q] = rec[q]
      BY <1>q, <2>2 DEF Advance, TypeInv, TypeOK
    <3>6. CASE at[q] = Len(rec[q].evidence)
      <4>1. pc'[q] = "qualified"
        BY <1>q, <2>2, <3>6 DEF Advance, Goto, TypeInv, TypeOK
      <4>2. QED BY <3>3, <3>4, <3>5, <3>6, <4>1
    <3>7. CASE at[q] # Len(rec[q].evidence)
      <4>1. pc'[q] = "inspect" /\ at'[q] = at[q] + 1
        BY <1>q, <2>2, <3>7 DEF Advance, Goto, TypeInv, TypeOK
      <4>2. QED BY <3>4, <3>5, <4>1
    <3>8. QED BY <3>6, <3>7
  <2>3. QED BY <1>5, <2>1, <2>2 DEF CompareDigest
<1>6. QED BY <1>1, <1>2, <1>3, <1>4, <1>5 DEF Qualify

LEMMA CalmStep ==
  ASSUME TypeInv, CalmInv, [Next]_vars
  PROVE  CalmInv'
<1>1. CASE \E p \in Qualifier : Qualify(p)
  <2>1. PICK p \in Qualifier : Qualify(p)
    BY <1>1
  <2>2. UNCHANGED <<route, content>>
    BY <2>1, QualifyFrame
  <2>3. \A q \in Qualifier \ {p} : /\ pc'[q] = pc[q] /\ rec'[q] = rec[q] /\ at'[q] = at[q]
                                  /\ place'[q] = place[q] /\ calm'[q] = calm[q]
    BY <2>1, QualifyFrame DEF Others, Proc
  <2>4. QED BY <2>1, <2>2, <2>3, CalmQualify DEF CalmInv, Intact, Here
<1>2. CASE \E p \in Recorder : Record(p)
  <2>1. PICK p \in Recorder : Record(p)
    BY <1>2
  <2>2. UNCHANGED <<route, content>>
    BY <2>1, RecordFrame
  <2>3. \A q \in Qualifier : /\ pc'[q] = pc[q] /\ rec'[q] = rec[q] /\ at'[q] = at[q]
                            /\ place'[q] = place[q] /\ calm'[q] = calm[q]
    BY <2>1, RecordFrame, ProcAssumption DEF Others, Proc
  <2>4. QED BY <2>2, <2>3 DEF CalmInv, Intact, Here
<1>3. CASE \E p \in Proc : Kill(p)
  <2>1. PICK p \in Proc : Kill(p)
    BY <1>3
  <2>2. UNCHANGED <<route, content, rec, at, place, calm>>
        /\ \A q \in Proc : pc'[q] = pc[q] \/ pc'[q] = "killed"
    BY <2>1 DEF Kill, Goto, TypeInv, TypeOK
  <2>3. QED BY <2>2 DEF CalmInv, Intact, Here, Proc
<1>4. CASE \E c \in Change : EditArtifact(c)
  BY <1>4 DEF EditArtifact, CalmInv, Proc
<1>5. CASE UseRecordPath \/ UNCHANGED vars
  BY <1>5 DEF UseRecordPath, vars, local, CalmInv, Intact, Here
<1>6. QED BY <1>1, <1>2, <1>3, <1>4, <1>5 DEF Next

\* If nobody replaced an artifact meanwhile, the artifacts of a qualified
\* record are files in the root with the recorded bytes.
THEOREM UndisturbedIntact == Spec => []UndisturbedIsIntact
<1>1. Init => CalmInv
  BY DEF Init, CalmInv, Proc
<1>2. TypeInv /\ CalmInv /\ [Next]_vars => CalmInv'
  BY CalmStep
<1>3. CalmInv => UndisturbedIsIntact
  BY DEF CalmInv, UndisturbedIsIntact, Intact
<1>4. QED BY <1>1, <1>2, <1>3, TypesHold, PTL DEF Spec

-----------------------------------------------------------------------------
(* Recording and qualifying agree.                                         *)

LEMMA BindChanges ==
  ASSUME NEW s \in Records, NEW i \in DOMAIN s.evidence, NEW b
  PROVE  LET r == [s EXCEPT !.evidence[i].digest = b]
         IN /\ r.evidence[i].artifact = s.evidence[i].artifact /\ r.evidence[i].digest = b
            /\ \A j \in DOMAIN s.evidence \ {i} : r.evidence[j] = s.evidence[j]
<1>1. s.evidence \in Seq(Entries) /\ s.evidence[i] \in Entries
  BY EntryTypes DEF Records
<1>2. [s EXCEPT !.evidence[i].digest = b].evidence
        = [s.evidence EXCEPT ![i] = [s.evidence[i] EXCEPT !.digest = b]]
  BY DEF Records
<1>3. QED BY <1>1, <1>2 DEF Entries

Sound(e) == /\ e.artifact \in Artifact /\ route[e.artifact].form # "link"
            /\ content[route[e.artifact].at] = e.digest
\* What a calm recorder has bound is still so.
SoundOf(r) == calm[r] =>
  /\ pc[r] \in {"inspect", "resolve", "read"} =>
       \A i \in DOMAIN rec[r].evidence : i < at[r] => Sound(rec[r].evidence[i])
  /\ pc[r] \in {"resolve", "read"} => route[Here(r)].form # "link"
  /\ pc[r] = "read" => place[r] = route[Here(r)].at
  /\ pc[r] \in {"create", "write", "recorded"} =>
       \A i \in DOMAIN rec[r].evidence : Sound(rec[r].evidence[i])
SoundInv == \A r \in Recorder : SoundOf(r)
\* Why a calm qualifier has refused a record it has read.
RefusalInv == \A q \in Qualifier :
  /\ pc[q] \in {"idle", "load"} => rec[q] = NoRecord
  /\ pc[q] = "refused" /\ calm[q] /\ rec[q] # NoRecord =>
       \/ given[q] = "bare" \/ ~Validate(rec[q])
       \/ \E i \in DOMAIN rec[q].evidence : ~Intact(rec[q].evidence[i])
\* A written record was validated.
WrittenInv == \A r \in Recorder : pc[r] = "recorded" => rec[r] \in Records /\ Validate(rec[r])

LEMMA BindIsSound ==
  ASSUME TypeInv, NEW p \in Recorder, pc[p] = "read", route[Here(p)].form # "link",
         place[p] = route[Here(p)].at
  PROVE  Here(p) \in Artifact /\ content[route[Here(p)].at] = BytesAt(place[p])
<1>1. Here(p) \in Artifact /\ route[Here(p)] \in Routes(Here(p))
  BY HereIsArtifact DEF TypeInv, AtInv, Proc
<1>2. CASE route[Here(p)].at \in Artifact
  <2>1. route[Here(p)].at = Here(p)
    BY <1>1, <1>2, PlaceAssumption DEF Routes
  <2>2. QED BY <1>1, <1>2, <2>1 DEF BytesAt
<1>3. CASE route[Here(p)].at \notin Artifact
  BY <1>1, <1>3 DEF BytesAt
<1>4. QED BY <1>2, <1>3

LEMMA SoundRecord ==
  ASSUME TypeInv, NEW p \in Recorder, SoundOf(p), Record(p)
  PROVE  SoundOf(p)'
<1>p. p \in Proc /\ UNCHANGED <<route, content>>
  BY RecordFrame DEF Proc
<1>r. Refuse(p) => pc'[p] = "refused"
  BY <1>p DEF Refuse, Goto, TypeInv, TypeOK
<1>x. pc'[p] \in {"refused", "root"} => SoundOf(p)'
  BY DEF SoundOf
<1>1. CASE StartRecording(p)
  BY <1>p, <1>x, <1>1 DEF StartRecording, Goto, TypeInv, TypeOK
<1>2. CASE FindRoot(p)
  <2>1. CASE Goto(p, "inspect") /\ UNCHANGED <<given, rec, at, place>>
    <3>1. at[p] = 1 /\ rec[p] \in Records
      BY <1>p, <1>2 DEF FindRoot, TypeInv, TypeOK, AtInv
    <3>2. \A i \in DOMAIN rec[p].evidence : ~(i < 1)
      BY <3>1 DEF Records
    <3>3. pc'[p] = "inspect" /\ UNCHANGED <<rec, at>>
      BY <1>p, <2>1 DEF Goto, TypeInv, TypeOK
    <3>4. QED BY <3>1, <3>2, <3>3 DEF SoundOf
  <2>2. QED BY <1>2, <1>r, <1>x, <2>1 DEF FindRoot
<1>3. CASE Inspect(p)
  <2>1. CASE Refuse(p)
    BY <1>r, <1>x, <2>1
  <2>2. CASE ~Refuse(p)
    <3>1. pc[p] = "inspect" /\ pc'[p] = "resolve" /\ IsRegular(Here(p))
          /\ UNCHANGED <<rec, at, place, calm>>
      BY <1>p, <1>3, <2>2 DEF Inspect, Goto, TypeInv, TypeOK
    <3>2. QED BY <1>p, <3>1 DEF SoundOf, IsRegular, Here, Sound
  <2>3. QED BY <2>1, <2>2
<1>4. CASE ResolveToBind(p)
  <2>1. CASE Refuse(p)
    BY <1>r, <1>x, <2>1
  <2>2. CASE ~Refuse(p)
    <3>1. pc[p] = "resolve" /\ pc'[p] = "read" /\ place'[p] = route[Here(p)].at
          /\ UNCHANGED <<rec, at, calm>>
      BY <1>p, <1>4, <2>2 DEF ResolveToBind, ResolveIf, Goto, TypeInv, TypeOK
    <3>2. QED BY <1>p, <3>1 DEF SoundOf, Here, Sound
  <2>3. QED BY <2>1, <2>2
<1>5. CASE Bind(p)
  <2>1. CASE Refuse(p)
    BY <1>r, <1>x, <2>1
  <2>2. CASE ~Refuse(p) /\ calm[p]
    <3> DEFINE k == at[p]
               s == [rec[p] EXCEPT !.evidence[k].digest = BytesAt(place[p])]
    <3>1. /\ pc[p] = "read" /\ rec[p] \in Records /\ k \in DOMAIN rec[p].evidence
          /\ UNCHANGED calm /\ BytesAt(place[p]) # Absent
          /\ Advance(p, s, IF Validate(s) THEN "create" ELSE "refused")
      BY <1>p, <1>5, <2>2 DEF Bind, TypeInv, TypeOK
    <3>2. BytesAt(place[p]) \in Bytes
      BY <1>p, <3>1, BytesAtType DEF TypeInv, TypeOK
    <3>3. /\ s.evidence[k].artifact = Here(p) /\ s.evidence[k].digest = BytesAt(place[p])
          /\ \A j \in DOMAIN rec[p].evidence \ {k} : s.evidence[j] = rec[p].evidence[j]
      <4> DEFINE b == BytesAt(place[p])
                 t == rec[p]
      <4>1. t \in Records /\ k \in DOMAIN t.evidence /\ Here(p) = t.evidence[k].artifact
        BY <3>1 DEF Here
      <4>2. s = [t EXCEPT !.evidence[k].digest = b]
        OBVIOUS
      <4> HIDE DEF b, t, k, s
      <4>3. /\ s.evidence[k].artifact = t.evidence[k].artifact /\ s.evidence[k].digest = b
            /\ \A j \in DOMAIN t.evidence \ {k} : s.evidence[j] = t.evidence[j]
        BY <4>1, <4>2, BindChanges
      <4>4. QED BY <4>1, <4>3 DEF b, t
    <3>4. DOMAIN s.evidence = DOMAIN rec[p].evidence /\ Len(s.evidence) = Len(rec[p].evidence)
      BY <3>1, <3>2, BindKeepsShape
    <3>5. DOMAIN rec[p].evidence = 1 .. Len(rec[p].evidence) /\ Len(rec[p].evidence) \in Nat
      BY <3>1 DEF Records
    <3> HIDE DEF s
    <3>6. Sound(s.evidence[k])
      BY <2>2, <3>1, <3>3, BindIsSound DEF SoundOf, Sound
    <3>7. \A j \in DOMAIN s.evidence : j < k => Sound(s.evidence[j])
      BY <2>2, <3>1, <3>3, <3>4, <3>5 DEF SoundOf
    <3>8. \A j \in DOMAIN s.evidence : j < k + 1 => Sound(s.evidence[j])
      BY <3>1, <3>4, <3>5, <3>6, <3>7
    <3>9. rec'[p] = s
      BY <1>p, <3>1 DEF Advance, TypeInv, TypeOK
    <3>10. CASE k = Len(s.evidence)
      <4>1. pc'[p] \in {"create", "refused"}
        BY <1>p, <3>1, <3>10 DEF Advance, Goto, TypeInv, TypeOK
      <4>2. \A j \in DOMAIN s.evidence : Sound(s.evidence[j])
        BY <3>4, <3>5, <3>8, <3>10
      <4>3. QED BY <1>p, <3>9, <4>1, <4>2 DEF SoundOf, Sound
    <3>11. CASE k # Len(s.evidence)
      <4>1. pc'[p] = "inspect" /\ at'[p] = k + 1
        BY <1>p, <3>1, <3>11 DEF Advance, Goto, TypeInv, TypeOK
      <4>2. QED BY <1>p, <3>8, <3>9, <4>1 DEF SoundOf, Sound
    <3>12. QED BY <3>10, <3>11
  <2>3. CASE ~calm[p]
    BY <1>5, <2>3 DEF Bind, SoundOf
  <2>4. QED BY <2>1, <2>2, <2>3
<1>6. CASE CreateRecord(p) \/ WritePart(p) \/ WriteRecord(p)
  <2>1. /\ pc[p] \in {"create", "write"} /\ UNCHANGED <<rec, calm>>
        /\ pc'[p] \in {"refused", "write", "recorded"}
    BY <1>p, <1>6 DEF CreateRecord, WritePart, WriteRecord, Refuse, Goto, TypeInv, TypeOK
  <2>2. QED BY <1>p, <2>1 DEF SoundOf, Sound
<1>7. QED BY <1>1, <1>2, <1>3, <1>4, <1>5, <1>6 DEF Record

LEMMA SoundStep ==
  ASSUME TypeInv, SoundInv, [Next]_vars
  PROVE  SoundInv'
<1>1. CASE \E p \in Recorder : Record(p)
  <2>1. PICK p \in Recorder : Record(p)
    BY <1>1
  <2>2. SoundOf(p)'
    BY <2>1, SoundRecord DEF SoundInv
  <2>3. ASSUME NEW r \in Recorder \ {p} PROVE SoundOf(r)'
    <3>1. /\ pc'[r] = pc[r] /\ rec'[r] = rec[r] /\ at'[r] = at[r] /\ place'[r] = place[r]
          /\ calm'[r] = calm[r] /\ UNCHANGED <<route, content>> /\ SoundOf(r)
      BY <2>1, RecordFrame DEF Others, Proc, SoundInv
    <3>2. QED BY <3>1 DEF SoundOf, Sound, Here
  <2>4. QED BY <2>2, <2>3 DEF SoundInv
<1>2. CASE \E p \in Qualifier : Qualify(p)
  <2>1. PICK p \in Qualifier : Qualify(p)
    BY <1>2
  <2>2. ASSUME NEW r \in Recorder PROVE SoundOf(r)'
    <3>1. /\ pc'[r] = pc[r] /\ rec'[r] = rec[r] /\ at'[r] = at[r] /\ place'[r] = place[r]
          /\ calm'[r] = calm[r] /\ UNCHANGED <<route, content>> /\ SoundOf(r)
      BY <2>1, QualifyFrame, ProcAssumption DEF Others, Proc, SoundInv
    <3>2. QED BY <3>1 DEF SoundOf, Sound, Here
  <2>3. QED BY <2>2 DEF SoundInv
<1>3. CASE \E p \in Proc : Kill(p)
  <2>1. PICK p \in Proc : Kill(p)
    BY <1>3
  <2>2. UNCHANGED <<route, content, rec, at, place, calm>>
        /\ \A q \in Proc : pc'[q] = pc[q] \/ pc'[q] = "killed"
    BY <2>1 DEF Kill, Goto, TypeInv, TypeOK
  <2>3. QED BY <2>2 DEF SoundInv, SoundOf, Sound, Here, Proc
<1>4. CASE \E c \in Change : EditArtifact(c)
  BY <1>4 DEF EditArtifact, SoundInv, SoundOf, Proc
<1>5. CASE UseRecordPath \/ UNCHANGED vars
  BY <1>5 DEF UseRecordPath, vars, local, SoundInv, SoundOf, Sound, Here
<1>6. QED BY <1>1, <1>2, <1>3, <1>4, <1>5 DEF Next

\* Each refusal of a record that was read has its reason in what is there.
LEMMA RefusalQualify ==
  ASSUME TypeInv, CalmInv, RefusalInv, NEW q \in Qualifier, Qualify(q)
  PROVE  /\ pc'[q] \in {"idle", "load"} => rec'[q] = NoRecord
         /\ pc'[q] = "refused" /\ calm'[q] /\ rec'[q] # NoRecord =>
              \/ given'[q] = "bare" \/ ~Validate(rec'[q])
              \/ \E i \in DOMAIN rec'[q].evidence : ~Intact(rec'[q].evidence[i])
<1>q. q \in Proc
  BY DEF Proc
<1>1. CASE StartQualifying(q)
  BY <1>q, <1>1 DEF StartQualifying, Goto, TypeInv, TypeOK, RefusalInv
<1>2. CASE Load(q)
  <2>1. CASE Refuse(q)
    BY <1>q, <1>2, <2>1 DEF Load, Refuse, Goto, TypeInv, TypeOK, RefusalInv
  <2>2. CASE rec' = [rec EXCEPT ![q] = record.text]
             /\ Goto(q, IF Validate(record.text) THEN "root" ELSE "refused")
    BY <1>q, <2>2 DEF Goto, TypeInv, TypeOK
  <2>3. QED BY <1>2, <2>1, <2>2 DEF Load
<1>3. CASE CanonicalRoot(q)
  BY <1>q, <1>3 DEF CanonicalRoot, Refuse, Goto, TypeInv, TypeOK
<1>4. CASE Inspect(q) \/ ResolveToCheck(q) \/ CompareDigest(q)
  <2>1. SUFFICES ASSUME Refuse(q), calm[q]
                 PROVE  ~Validate(rec[q]) \/ \E i \in DOMAIN rec[q].evidence : ~Intact(rec[q].evidence[i])
    <3>1. UNCHANGED <<route, content, calm>>
      BY <1>4 DEF Inspect, ResolveToCheck, ResolveIf, CompareDigest
    <3>2. Refuse(q) => UNCHANGED rec
      BY DEF Refuse
    <3>3. ~Refuse(q) => pc'[q] # "refused" /\ pc'[q] \notin {"idle", "load"}
      BY <1>q, <1>4 DEF Inspect, ResolveToCheck, ResolveIf, CompareDigest, Advance, Goto,
         TypeInv, TypeOK
    <3>4. Refuse(q) => pc'[q] = "refused"
      BY <1>q DEF Refuse, Goto, TypeInv, TypeOK
    <3>5. QED BY <2>1, <3>1, <3>2, <3>3, <3>4 DEF Intact
  <2>2. /\ rec[q] \in Records /\ at[q] \in DOMAIN rec[q].evidence
        /\ Here(q) = rec[q].evidence[at[q]].artifact
    BY <1>q, <1>4 DEF Inspect, ResolveToCheck, ResolveIf, CompareDigest, TypeInv, TypeOK, Here
  <2>3. rec[q].evidence[at[q]].digest \in Bytes \cup {NoDigest}
    BY <2>2, EntryTypes DEF Entries
  <2>4. SUFFICES ASSUME Validate(rec[q]), Intact(rec[q].evidence[at[q]]) PROVE FALSE
    BY <2>2
  <2>5. /\ Here(q) # Escaping /\ rec[q].evidence[at[q]].digest \in Bytes
    BY <2>2, <2>3, <2>4 DEF Validate
  <2>6. pc[q] \in {"inspect", "resolve", "read"}
    BY <1>4 DEF Inspect, ResolveToCheck, ResolveIf, CompareDigest
  <2>7. Here(q) \in Artifact /\ route[Here(q)] \in Routes(Here(q))
    BY <1>q, <2>5, <2>6, HereIsArtifact DEF TypeInv
  <2>8. /\ route[Here(q)].form = "file" /\ content[Here(q)] = rec[q].evidence[at[q]].digest
    BY <2>2, <2>4 DEF Intact
  <2>9. route[Here(q)].at = Here(q) /\ content[Here(q)] # Absent
    BY <2>5, <2>7, <2>8, PlaceAssumption DEF Routes
  <2>10. pc'[q] = "refused"
    BY <1>q, <2>1 DEF Refuse, Goto, TypeInv, TypeOK
  <2>11. ~Inspect(q)
    BY <1>q, <2>5, <2>8, <2>9, <2>10 DEF Inspect, IsRegular, Goto, TypeInv, TypeOK
  <2>12. ~ResolveToCheck(q)
    BY <1>q, <2>9, <2>10 DEF ResolveToCheck, ResolveIf, Goto, TypeInv, TypeOK
  <2>13. ~CompareDigest(q)
    <3>1. SUFFICES ASSUME CompareDigest(q) PROVE FALSE
      OBVIOUS
    <3>2. place[q] = Here(q)
      BY <2>1, <3>1 DEF CompareDigest, CalmInv
    <3>3. BytesAt(place[q]) = rec[q].evidence[at[q]].digest
      BY <2>7, <2>8, <2>9, <3>2 DEF BytesAt
    <3>4. Advance(q, rec[q], "qualified")
      BY <3>1, <3>3 DEF CompareDigest
    <3>5. QED BY <1>q, <2>10, <3>4 DEF Advance, Goto, TypeInv, TypeOK
  <2>14. QED BY <1>4, <2>11, <2>12, <2>13
<1>5. QED BY <1>1, <1>2, <1>3, <1>4 DEF Qualify

LEMMA RefusalStep ==
  ASSUME TypeInv, CalmInv, RefusalInv, [Next]_vars
  PROVE  RefusalInv'
<1>1. CASE \E p \in Qualifier : Qualify(p)
  <2>1. PICK p \in Qualifier : Qualify(p)
    BY <1>1
  <2>2. \A q \in Qualifier \ {p} : /\ pc'[q] = pc[q] /\ rec'[q] = rec[q] /\ calm'[q] = calm[q]
                                  /\ given'[q] = given[q]
    BY <2>1, QualifyFrame DEF Others, Proc, Qualify, StartQualifying, Load, CanonicalRoot,
       Inspect, ResolveToCheck, ResolveIf, CompareDigest, Advance, Refuse, TypeInv, TypeOK
  <2>3. UNCHANGED <<route, content>>
    BY <2>1, QualifyFrame
  <2>4. QED BY <2>1, <2>2, <2>3, RefusalQualify DEF RefusalInv, Intact
<1>2. CASE \E p \in Recorder : Record(p)
  <2>1. PICK p \in Recorder : Record(p)
    BY <1>2
  <2>2. \A q \in Qualifier : given'[q] = given[q]
    BY <2>1, ProcAssumption DEF Proc, Record, StartRecording, FindRoot, Inspect, ResolveToBind,
       ResolveIf, Bind, Advance, CreateRecord, WritePart, WriteRecord, Refuse, TypeInv, TypeOK
  <2>3. \A q \in Qualifier : /\ pc'[q] = pc[q] /\ rec'[q] = rec[q] /\ calm'[q] = calm[q]
    BY <2>1, RecordFrame, ProcAssumption DEF Others, Proc
  <2>4. UNCHANGED <<route, content>>
    BY <2>1, RecordFrame
  <2>5. QED BY <2>2, <2>3, <2>4 DEF RefusalInv, Intact
<1>3. CASE \E p \in Proc : Kill(p)
  <2>1. PICK p \in Proc : Kill(p)
    BY <1>3
  <2>2. UNCHANGED <<route, content, rec, given, calm>>
        /\ \A q \in Proc : pc'[q] = pc[q] \/ pc'[q] = "killed"
    BY <2>1 DEF Kill, Goto, TypeInv, TypeOK
  <2>3. QED BY <2>2 DEF RefusalInv, Intact, Proc
<1>4. CASE \E c \in Change : EditArtifact(c)
  BY <1>4 DEF EditArtifact, RefusalInv, Proc, local
<1>5. CASE UseRecordPath \/ UNCHANGED vars
  BY <1>5 DEF UseRecordPath, vars, local, RefusalInv, Intact
<1>6. QED BY <1>1, <1>2, <1>3, <1>4, <1>5 DEF Next

LEMMA WrittenStep ==
  ASSUME TypeInv, BoundInv, WrittenInv, [Next]_vars
  PROVE  WrittenInv'
<1> SUFFICES ASSUME NEW r \in Recorder, pc'[r] = "recorded"
             PROVE  rec'[r] \in Records /\ Validate(rec'[r])
  BY DEF WrittenInv
<1>r. r \in Proc /\ r \notin Qualifier
  BY ProcAssumption DEF Proc
<1>1. CASE pc[r] = "recorded" \/ pc[r] = "write"
  <2>1. rec'[r] = rec[r]
    BY <1>1, SettledStays DEF Settled
  <2>2. QED BY <1>r, <1>1, <2>1 DEF WrittenInv, BoundInv, CreateInv, TypeInv, TypeOK
<1>2. CASE pc[r] \notin {"recorded", "write"}
  <2>1. CASE \E p \in Recorder \ {r} : Record(p)
    BY <1>r, <1>2, <2>1, RecordFrame DEF Others
  <2>2. CASE Record(r)
    BY <1>r, <1>2, <2>2 DEF Record, StartRecording, FindRoot, Inspect, ResolveToBind,
       ResolveIf, Bind, Advance, CreateRecord, WritePart, WriteRecord, Refuse, Goto, TypeInv, TypeOK
  <2>3. CASE \E p \in Qualifier : Qualify(p)
    BY <1>r, <1>2, <2>3, QualifyFrame DEF Others
  <2>4. CASE \E p \in Proc : Kill(p)
    BY <1>r, <1>2, <2>4 DEF Kill, Goto, TypeInv, TypeOK
  <2>5. CASE (\E c \in Change : EditArtifact(c)) \/ UseRecordPath \/ UNCHANGED vars
    BY <1>2, <2>5 DEF EditArtifact, UseRecordPath, vars, local
  <2>6. QED BY <2>1, <2>2, <2>3, <2>4, <2>5 DEF Next
<1>3. QED BY <1>1, <1>2

LEMMA CalmAgree ==
  ASSUME TypeInv, SoundInv, RefusalInv, WrittenInv, NEW r \in Recorder, NEW q \in Qualifier,
         pc[r] = "recorded", pc[q] = "refused", calm[r], calm[q], rec[q] = rec[r],
         given[q] # "bare"
  PROVE  \E i \in DOMAIN rec[r].evidence : route[rec[r].evidence[i].artifact].form = "through"
<1>1. rec[r] \in Records /\ Validate(rec[r])
  BY DEF WrittenInv
<1>2. rec[r] # NoRecord
  BY <1>1 DEF Records, Level, NoRecord
<1>3. PICK i \in DOMAIN rec[r].evidence : ~Intact(rec[r].evidence[i])
  BY <1>1, <1>2 DEF RefusalInv
<1> DEFINE e == rec[r].evidence[i]
<1>4. Sound(e)
  BY DEF SoundInv, SoundOf
<1>5. route[e.artifact] \in Routes(e.artifact)
  BY <1>4 DEF Sound, TypeInv, TypeOK
<1>6. route[e.artifact].form # "file"
  BY <1>3, <1>4, <1>5, PlaceAssumption DEF Sound, Intact, Routes
<1>7. route[e.artifact].form = "through"
  BY <1>4, <1>5, <1>6 DEF Sound, Routes
<1>8. QED BY <1>7

\* A whole record that was recorded and is qualified undisturbed is refused
\* only for its bare name or a linked directory.
THEOREM RecordedQualifiable == Spec => []RecordedIsQualifiable
<1> DEFINE IInv == CalmInv /\ SoundInv /\ RefusalInv /\ WrittenInv
<1>1. Init => IInv
  BY DEF Init, CalmInv, SoundInv, SoundOf, RefusalInv, WrittenInv, Proc
<1>2. TypeInv /\ BoundInv /\ IInv /\ [Next]_vars => IInv'
  BY CalmStep, SoundStep, RefusalStep, WrittenStep
<1>3. TypeInv /\ IInv => RecordedIsQualifiable
  BY CalmAgree DEF RecordedIsQualifiable
<1>4. QED BY <1>1, <1>2, <1>3, TypesHold, BoundHolds, PTL DEF Spec
=============================================================================
