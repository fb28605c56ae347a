--------------------------- MODULE Qualification ---------------------------
(***************************************************************************)
(* arach-hwd-record and arach-hwd-qualify (src/src/bin) on one directory:  *)
(* recorders bind the digests of artifacts into a new record file,         *)
(* qualifiers check a record against the artifacts, the owner of the       *)
(* directory replaces artifacts and removes records, and any process may   *)
(* be killed or stop half way through its write.                           *)
(*                                                                         *)
(* A recorder:   idle -> root -> (inspect -> resolve -> read)* -> create   *)
(*               -> write -> recorded.                                     *)
(* A qualifier:  idle -> load -> root -> (inspect -> resolve -> read)*     *)
(*               -> qualified.   Any failure ends either as refused.       *)
(***************************************************************************)
EXTENDS Naturals, Sequences, FiniteSets

CONSTANTS
  Recorder, Qualifier,  \* processes, each run once
  Artifact,             \* relative, contained paths under the root
  Escaping,             \* a path that is absolute or has a .. component
  Inner, Outer,         \* what links lead to: a file in, and out of, the root
  Bytes,                \* contents of artifacts; a digest is the content
  Absent, NoDigest,
  Request,              \* Recorder -> the command lines it may be given, parsed
  Layout,               \* the artifacts there may be at first
  Given,                \* how a command names the record, within
                        \* {"plain", "bare", "linked"}: in a named directory, by
                        \* its file name alone, through a linked directory
  Faults,               \* subset of {"clock", "write", "kill"}
  Change,               \* what the owner may do to an artifact
  MaxEdits              \* bound: changes the owner makes

Kind  == {"install", "boot", "desktop", "suspend-resume", "shutdown", "hotplug",
          "recovery", "stress"}
Level == {"experimental", "compatible", "certified"}
Proc  == Recorder \cup Qualifier
Place == Artifact \cup {Inner, Outer}
NoRecord == [level |-> "none", evidence |-> <<>>]

ASSUME ProcAssumption == Recorder \cap Qualifier = {}
ASSUME PlaceAssumption ==
  /\ Inner \notin Artifact /\ Outer \notin Artifact /\ Inner # Outer
  /\ Escaping \notin Artifact
  /\ Absent \notin Bytes /\ NoDigest \notin Bytes
\* wellFormed: schema, identity, revisions and the catalog digest are valid.
Entries == [kind : Kind, artifact : Artifact \cup {Escaping},
            digest : Bytes \cup {NoDigest}, duration : Nat]
Records == [level : Level, wellFormed : BOOLEAN, unresolved : Nat, critical : Nat,
            evidence : Seq(Entries)]
ASSUME RequestAssumption ==
  \A r \in Recorder : \A q \in Request[r] :
    q \in Records /\ \A i \in DOMAIN q.evidence : q.evidence[i].digest = NoDigest
ASSUME EditsAssumption == MaxEdits \in Nat
Routes(a) == {[form |-> "file", at |-> a]} \cup
             [form : {"link", "through"}, at : {Inner, Outer}]
Way == [form : {"file", "link", "through"}, at : Place]
ASSUME LayoutAssumption ==
  /\ \A l \in Layout :
       /\ l.route \in [Artifact -> Way]
       /\ \A a \in Artifact : l.route[a] \in Routes(a)
       /\ l.content \in [Place -> Bytes \cup {Absent}]
  /\ \A c \in Change : /\ c.artifact \in Artifact /\ c.route \in Routes(c.artifact)
                       /\ c.bytes \in Bytes \cup {Absent}

VARIABLES
  route,    \* the way to each artifact: the file itself, a link, or a linked directory
  content,  \* the bytes at each place, or Absent
  record,   \* what is at the path of the record
  pc, given,
  rec,      \* the record a process has in hand
  at,       \* the index of the evidence it is at
  place,    \* where that artifact canonically is
  calm,     \* no artifact was changed since this process began (for the properties)
  edits     \* changes the owner has made

vars == <<route, content, record, pc, given, rec, at, place, calm, edits>>
local == <<pc, given, rec, at, place>>

-----------------------------------------------------------------------------
(* QualificationRecord::validate.                                          *)

RequiredKinds(level) ==
  CASE level = "certified"    -> Kind
    [] level = "compatible"   -> {"install", "boot", "desktop", "shutdown", "stress"}
    [] level = "experimental" -> {"boot"}
RequiredSoak(level) ==
  CASE level = "certified"    -> 86400
    [] level = "compatible"   -> 3600
    [] level = "experimental" -> 0

Kinds(evidence) == {evidence[i].kind : i \in DOMAIN evidence}
DistinctKinds(evidence) ==
  \A i, j \in DOMAIN evidence : evidence[i].kind = evidence[j].kind => i = j
\* Mutant: the two counters are mixed up.
CountersSwapped(r) ==
  /\ r.level = "certified"  => r.critical = 0
  /\ r.level = "compatible" => r.unresolved = 0
UnresolvedAllowed(r) ==
  /\ r.level = "certified"  => r.unresolved = 0
  /\ r.level = "compatible" => r.critical = 0
SoakSuffices(r) ==
  \/ RequiredSoak(r.level) = 0
  \/ \E i \in DOMAIN r.evidence : /\ r.evidence[i].kind = "stress"
                                  /\ r.evidence[i].duration >= RequiredSoak(r.level)
Validate(r) ==
  /\ r.wellFormed
  /\ DistinctKinds(r.evidence)
  /\ \A i \in DOMAIN r.evidence : /\ r.evidence[i].artifact # Escaping
                                  /\ r.evidence[i].digest # NoDigest
  /\ RequiredKinds(r.level) \subseteq Kinds(r.evidence)
  /\ UnresolvedAllowed(r)
  /\ SoakSuffices(r)

-----------------------------------------------------------------------------
(* A record file.  Its evidence is written last, and the duration last in   *)
(* each entry, so a torn file parses only if it ends after some digits of   *)
(* a duration.                                                              *)

Torn  == [level |-> "torn"]   \* a text that is no record: empty, or cut elsewhere
Other == [by |-> "owner", text |-> Torn]   \* a directory or a dangling link
File(r, text) == [by |-> r, text |-> text]
IsFile == record # Absent /\ record # Other

\* The numbers the first digits of a decimal spell; durations have up to 7.
Digits(d) == {d} \cup
  ({d \div n : n \in {10, 100, 1000, 10000, 100000, 1000000}} \ {0})
Cut(r, k, d) == [r EXCEPT !.evidence =
  [i \in 1 .. k |-> IF i = k THEN [r.evidence[i] EXCEPT !.duration = d] ELSE r.evidence[i]]]
Prefixes(r) == {Torn} \cup
  UNION {{Cut(r, k, d) : d \in Digits(r.evidence[k].duration)} : k \in DOMAIN r.evidence}

\* r is s, or what is left of s if it was cut after a digit.
NoMoreThan(r, s) == LET k == Len(r.evidence) IN
  /\ k \in DOMAIN s.evidence
  /\ r.evidence[k].duration <= s.evidence[k].duration
  /\ r = Cut(s, k, r.evidence[k].duration)

-----------------------------------------------------------------------------
(* The artifacts.                                                          *)

Here(p) == rec[p].evidence[at[p]].artifact
\* Mutant: a linked artifact is followed.
IsReadable(a) == content[route[a].at] # Absent
\* !is_symlink() && is_file(): a link in a directory of the path is followed.
IsRegular(a) == route[a].form # "link" /\ content[route[a].at] # Absent
\* Reading a place follows a link that has replaced the file meanwhile.
BytesAt(l) == IF l \in Artifact THEN content[route[l].at] ELSE content[l]

-----------------------------------------------------------------------------
Init ==
  /\ \E l \in Layout : route = l.route /\ content = l.content
  /\ record = Absent
  /\ pc = [p \in Proc |-> "idle"]
  /\ given = [p \in Proc |-> "plain"]
  /\ rec = [p \in Proc |-> NoRecord]
  /\ at = [p \in Proc |-> 1]
  /\ place = [p \in Proc |-> Outer]
  /\ calm = [p \in Proc |-> FALSE]
  /\ edits = 0

Goto(p, l) == pc' = [pc EXCEPT ![p] = l]
Refuse(p) == Goto(p, "refused") /\ UNCHANGED <<given, rec, at, place>>

\* parse_record: at least one evidence, and one of each kind.
StartRecording(p) ==
  /\ pc[p] = "idle"
  /\ \E q \in Request[p], g \in Given :
       /\ given' = [given EXCEPT ![p] = g]
       /\ rec' = [rec EXCEPT ![p] = q]
       /\ Goto(p, IF q.evidence # <<>> /\ DistinctKinds(q.evidence) THEN "root" ELSE "refused")
  /\ calm' = [calm EXCEPT ![p] = TRUE]
  /\ UNCHANGED <<route, content, record, at, place, edits>>

\* qualification_root, then the clock.  The parent of a bare name is the
\* empty path, which is no directory.
FindRoot(p) ==
  /\ pc[p] = "root"
  /\ \/ /\ given[p] = "plain"
        /\ Goto(p, "inspect") /\ UNCHANGED <<given, rec, at, place>>
     \/ /\ given[p] # "plain" \/ "clock" \in Faults
        /\ Refuse(p)
  /\ UNCHANGED <<route, content, record, calm, edits>>

\* One turn of the loops over the evidence, in three steps, since the
\* artifact may be replaced between any two.
Inspect(p) ==
  /\ pc[p] = "inspect"
  /\ IF Here(p) # Escaping /\ IsRegular(Here(p))
       THEN Goto(p, "resolve") /\ UNCHANGED <<given, rec, at, place>>
       ELSE Refuse(p)
  /\ UNCHANGED <<route, content, record, calm, edits>>

ResolveIf(p, accepted) ==
  /\ pc[p] = "resolve"
  /\ IF content[route[Here(p)].at] # Absent /\ accepted
       THEN /\ place' = [place EXCEPT ![p] = route[Here(p)].at]
            /\ Goto(p, "read") /\ UNCHANGED <<given, rec, at>>
       ELSE Refuse(p)
  /\ UNCHANGED <<route, content, record, calm, edits>>
\* canonical.starts_with(root)
ResolveToBind(p) == ResolveIf(p, route[Here(p)].at # Outer)
\* Mutant: the qualifier is content with a path inside the root.
ResolveInside(p) == ResolveIf(p, route[Here(p)].at # Outer)
\* canonical == artifact
ResolveToCheck(p) == ResolveIf(p, route[Here(p)].at = Here(p))

\* Mutant: the loop runs once more.
AdvancePast(p, r, last) ==
  /\ rec' = [rec EXCEPT ![p] = r]
  /\ IF at[p] > Len(r.evidence)
       THEN Goto(p, last) /\ UNCHANGED at
       ELSE Goto(p, "inspect") /\ at' = [at EXCEPT ![p] = @ + 1]
  /\ UNCHANGED <<given, place>>
\* What follows the last evidence: validate and create, or the answer.
Advance(p, r, last) ==
  /\ rec' = [rec EXCEPT ![p] = r]
  /\ IF at[p] = Len(r.evidence)
       THEN Goto(p, last) /\ UNCHANGED at
       ELSE Goto(p, "inspect") /\ at' = [at EXCEPT ![p] = @ + 1]
  /\ UNCHANGED <<given, place>>

Bind(p) ==
  /\ pc[p] = "read"
  /\ LET r == [rec[p] EXCEPT !.evidence[at[p]].digest = BytesAt(place[p])]
     IN IF BytesAt(place[p]) = Absent THEN Refuse(p)
        ELSE Advance(p, r, IF Validate(r) THEN "create" ELSE "refused")
  /\ UNCHANGED <<route, content, record, calm, edits>>

\* Mutant: an existing file is opened and truncated.
CreateOrTruncate(p) ==
  /\ pc[p] = "create"
  /\ record' = File(p, Torn)
  /\ Goto(p, "write")
  /\ UNCHANGED <<route, content, given, rec, at, place, calm, edits>>
\* create_new fails on whatever is at the path.
CreateRecord(p) ==
  /\ pc[p] = "create"
  /\ \/ /\ record = Absent
        /\ record' = File(p, Torn)
        /\ Goto(p, "write") /\ UNCHANGED <<given, rec, at, place>>
     \/ /\ record # Absent \/ "write" \in Faults
        /\ Refuse(p) /\ UNCHANGED record
  /\ UNCHANGED <<route, content, calm, edits>>

\* The handle is of the file this process created, removed or not.
Put(p, text) == record' = IF IsFile /\ record.by = p THEN File(p, text) ELSE record

\* Part of the text is there, for others to see, when the write is
\* interrupted or before it is over.
WritePart(p) ==
  /\ pc[p] = "write" /\ record = File(p, Torn)
  /\ \E text \in Prefixes(rec[p]) : Put(p, text)
  /\ UNCHANGED <<route, content, pc, given, rec, at, place, calm, edits>>
WriteRecord(p) ==
  /\ pc[p] = "write"
  /\ \/ Put(p, rec[p]) /\ Goto(p, "recorded") /\ UNCHANGED <<given, rec, at, place>>
     \/ "write" \in Faults /\ Refuse(p) /\ UNCHANGED record
  /\ UNCHANGED <<route, content, calm, edits>>

-----------------------------------------------------------------------------
(* qualify.                                                                *)

StartQualifying(p) ==
  /\ pc[p] = "idle"
  /\ \E g \in Given : given' = [given EXCEPT ![p] = g]
  /\ Goto(p, IF IsFile THEN "load" ELSE "refused")
  /\ calm' = [calm EXCEPT ![p] = TRUE]
  /\ UNCHANGED <<route, content, record, rec, at, place, edits>>

\* Mutant: the record is parsed and not validated.
LoadUnvalidated(p) ==
  /\ pc[p] = "load"
  /\ IF ~IsFile \/ record.text = Torn
       THEN Refuse(p)
       ELSE /\ rec' = [rec EXCEPT ![p] = record.text]
            /\ Goto(p, "root")
            /\ UNCHANGED <<given, at, place>>
  /\ UNCHANGED <<route, content, record, calm, edits>>
\* read_to_string, from_str and validate.
Load(p) ==
  /\ pc[p] = "load"
  /\ IF ~IsFile \/ record.text = Torn
       THEN Refuse(p)
       ELSE /\ rec' = [rec EXCEPT ![p] = record.text]
            /\ Goto(p, IF Validate(record.text) THEN "root" ELSE "refused")
            /\ UNCHANGED <<given, at, place>>
  /\ UNCHANGED <<route, content, record, calm, edits>>

\* canonicalize("") fails as well; a linked directory is followed.
CanonicalRoot(p) ==
  /\ pc[p] = "root"
  /\ IF given[p] # "bare"
       THEN Goto(p, "inspect") /\ UNCHANGED <<given, rec, at, place>>
       ELSE Refuse(p)
  /\ UNCHANGED <<route, content, record, calm, edits>>

CompareDigest(p) ==
  /\ pc[p] = "read"
  /\ IF BytesAt(place[p]) = rec[p].evidence[at[p]].digest
       THEN Advance(p, rec[p], "qualified")
       ELSE Refuse(p)
  /\ UNCHANGED <<route, content, record, calm, edits>>

-----------------------------------------------------------------------------
(* The owner of the directory, and the end of a process.                   *)

EditArtifact(c) ==
  /\ edits < MaxEdits /\ edits' = edits + 1
  /\ route' = [route EXCEPT ![c.artifact] = c.route]
  /\ content' = [content EXCEPT ![c.route.at] = c.bytes]
  /\ calm' = [p \in Proc |-> FALSE]
  /\ UNCHANGED <<record, local>>

\* The owner removes the record, or puts something else than a file there.
UseRecordPath ==
  /\ edits < MaxEdits /\ edits' = edits + 1
  /\ \/ record # Absent /\ record' = Absent
     \/ record = Absent /\ record' = Other
  /\ UNCHANGED <<route, content, calm, local>>

Kill(p) ==
  /\ "kill" \in Faults
  /\ pc[p] \notin {"idle", "recorded", "qualified", "refused", "killed"}
  /\ Goto(p, "killed")
  /\ UNCHANGED <<route, content, record, given, rec, at, place, calm, edits>>

Record(p) ==
  \/ StartRecording(p) \/ FindRoot(p) \/ Inspect(p) \/ ResolveToBind(p) \/ Bind(p)
  \/ CreateRecord(p) \/ WritePart(p) \/ WriteRecord(p)
Qualify(p) ==
  \/ StartQualifying(p) \/ Load(p) \/ CanonicalRoot(p) \/ Inspect(p)
  \/ ResolveToCheck(p) \/ CompareDigest(p)

Next ==
  \/ \E p \in Recorder : Record(p)
  \/ \E p \in Qualifier : Qualify(p)
  \/ \E p \in Proc : Kill(p)
  \/ \E c \in Change : EditArtifact(c)
  \/ UseRecordPath

Spec == Init /\ [][Next]_vars

-----------------------------------------------------------------------------
(* Properties.                                                             *)

Labels == {"idle", "load", "root", "inspect", "resolve", "read", "create", "write",
           "recorded", "qualified", "refused", "killed"}

\* The types; a process that is at an evidence has one there.
TypeOK ==
  /\ route \in [Artifact -> Way] /\ \A a \in Artifact : route[a] \in Routes(a)
  /\ content \in [Place -> Bytes \cup {Absent}]
  /\ record \in {Absent, Other} \cup [by : Recorder, text : Records \cup {Torn}]
  /\ pc \in [Proc -> Labels] /\ given \in [Proc -> Given \cup {"plain"}]
  /\ rec \in [Proc -> Records \cup {NoRecord}]
  /\ at \in [Proc -> Nat] /\ place \in [Proc -> Place]
  /\ calm \in [Proc -> BOOLEAN] /\ edits \in 0 .. MaxEdits
  /\ \A p \in Proc : pc[p] \in {"root", "inspect", "resolve", "read", "create", "write"} =>
       rec[p] \in Records /\ at[p] \in DOMAIN rec[p].evidence

\* "Without overwriting an existing record" (README.md): as long as nobody
\* removes it, a record stays the one of the recorder that created it, and
\* nothing changes it once that recorder is through, whoever else runs.
RecordWrittenOnce ==
  [][IsFile /\ record' # Absent =>
       /\ record'.by = record.by
       /\ pc[record.by] # "write" => record' = record]_vars

\* However records are torn, removed and written again, what is qualified is
\* what one recorder bound, or a part of it that is valid by itself and has
\* no longer a soak: an interrupted recorder never helps to a level.
QualifiedWasBound ==
  \A q \in Qualifier : pc[q] = "qualified" =>
    /\ Validate(rec[q])
    /\ \E r \in Recorder : NoMoreThan(rec[q], rec[r]) /\ Validate(rec[r])

\* The levels are ordered: a machine that is qualified for one is qualified
\* for every lower one on the same evidence, if its counts are consistent (a
\* critical unresolved device is an unresolved one).
LevelsAreOrdered ==
  \A q \in Qualifier : pc[q] = "qualified" /\ rec[q].critical <= rec[q].unresolved =>
    /\ Validate([rec[q] EXCEPT !.level = "experimental"])
    /\ rec[q].level = "certified" => Validate([rec[q] EXCEPT !.level = "compatible"])

\* If no artifact was replaced while it was being qualified, every artifact
\* of a qualified record is now a file in the root, reached without a link,
\* with the bytes that were recorded.
UndisturbedIsIntact ==
  \A q \in Qualifier : pc[q] = "qualified" /\ calm[q] =>
    \A i \in DOMAIN rec[q].evidence :
      LET e == rec[q].evidence[i]
      IN route[e.artifact].form = "file" /\ content[e.artifact] = e.digest

\* Recording and qualifying agree: a whole record whose artifacts nobody has
\* touched since its recorder and its qualifier began is refused only when it
\* is named by its bare file name, or has an artifact in a linked directory,
\* which recording accepts.
RecordedIsQualifiable ==
  \A r \in Recorder, q \in Qualifier :
    pc[r] = "recorded" /\ pc[q] = "refused" /\ rec[q] = rec[r] /\ calm[r] /\ calm[q] =>
      \/ given[q] = "bare"
      \/ \E i \in DOMAIN rec[r].evidence : route[rec[r].evidence[i].artifact].form = "through"

\* The invocation README.md documents, arach-hwd-record --output
\* QUALIFICATION.toml: with valid evidence and nothing at the path, naming
\* the record by its file name alone is no reason to refuse it.
Bound(r) == [r EXCEPT !.evidence = [i \in DOMAIN r.evidence |->
  [r.evidence[i] EXCEPT !.digest = BytesAt(r.evidence[i].artifact)]]]
BareNameRecords ==
  \A r \in Recorder : pc[r] = "refused" /\ given[r] = "bare" =>
    ~ /\ record = Absent /\ calm[r]
      /\ \A i \in DOMAIN rec[r].evidence :
           LET file == rec[r].evidence[i].artifact
           IN file # Escaping => IsRegular(file) /\ route[file].at # Outer
      /\ Validate(Bound(rec[r]))
=============================================================================
