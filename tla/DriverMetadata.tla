--------------------------- MODULE DriverMetadata ---------------------------
(***************************************************************************)
(* How the tables of Linux modules become evidence about a device          *)
(* (src/src/scan.rs): the parsers of modules.alias, modules.firmware,      *)
(* modules.builtin.modinfo, modules.dep and modules.builtin, glob_matches, *)
(* and the four functions that annotate the devices.                       *)
(*                                                                         *)
(* The content of a table is the set of its lines, and stands for its      *)
(* digest too.  A line is the sequence of its words:                       *)
(*   modules.alias             <<"alias", pattern, driver>>                *)
(*   modules.builtin.modinfo   <<module, field, value>>                    *)
(*   modules.firmware          <<module, name, ...>>                       *)
(*   modules.dep               <<path, dependency, ...>>, one for a path   *)
(*   modules.builtin           <<path>>                                    *)
(* What was read is a set of <<use, table, content>>.  A fact from it is   *)
(* <<subject, value, table>>.                                              *)
(***************************************************************************)
EXTENDS Preflight, Sequences

CONSTANTS
  Spelling,    \* [pattern or modalias -> the sequence of its characters]
  Latin1,      \* [literal prefix -> its bytes taken for characters], where it is not ASCII
  Canonical,   \* [name or path -> module], where canonical_module_name changes it
  Malformed,   \* the words that the valid_ functions refuse
  Modinfo,     \* the tables named modules.builtin.modinfo
  Position,    \* [text -> Nat], the order of texts
  MaxDriverCandidates, MaxDriverFiles, MaxFirmwareCandidates, MaxFirmwareFiles

CanonicalModuleName(text) == IF text \in DOMAIN Canonical THEN Canonical[text] ELSE text

-----------------------------------------------------------------------------
\* glob_matches: Reached[i] are the lengths of what the first i characters
\* of the pattern match of the value.
\* Mutant: a star stands for at least one character.
AfterSome(k, value) == k + 1 .. Len(value)
AfterStar(k, value) == k .. Len(value)
After(c, k, value) ==
  IF c = "*" THEN AfterStar(k, value)
  ELSE {j \in {k + 1} : j <= Len(value) /\ c \in {"?", value[j]}}
GlobMatches(pattern, value) ==
  LET Reached[i \in 0 .. Len(pattern)] ==
        IF i = 0 THEN {0} ELSE UNION {After(pattern[i], k, value) : k \in Reached[i - 1]}
  IN  Len(value) \in Reached[Len(pattern)]

\* The filter before it: the value starts with what precedes the first "*"
\* or "?" of the pattern, of which char::from takes each byte for a character.
Literal(pattern) ==
  [i \in {i \in DOMAIN pattern : \A k \in 1 .. i : pattern[k] \notin {"*", "?"}} |-> pattern[i]]
LiteralPrefix(pattern) ==
  IF Literal(pattern) \in DOMAIN Latin1 THEN Latin1[Literal(pattern)] ELSE Literal(pattern)
HasLiteralPrefix(pattern, value) ==
  LET prefix == LiteralPrefix(pattern) IN
  \A i \in DOMAIN prefix : i <= Len(value) /\ value[i] = prefix[i]

-----------------------------------------------------------------------------
\* The parsers: pairs of a subject and a value.
ParseModulesAlias(lines) ==
  {<<l[2], l[3]>> : l \in {l \in lines : Len(l) = 3 /\ l[1] = "alias" /\ l[3] \notin Malformed}}

\* The records of one field of a modules.builtin.modinfo.
ModinfoField(lines, field) ==
  {<<CanonicalModuleName(l[1]), l[3]>> : l \in {l \in lines : Len(l) = 3 /\ l[2] = field}}
ParseModinfoAliases(lines) ==
  {<<p[2], p[1]>> : p \in {p \in ModinfoField(lines, "alias") : p[1] \notin Malformed}}
ParseModinfoFirmware(lines) ==
  {p \in ModinfoField(lines, "firmware") : p[2] \notin Malformed}

\* The words after the first of a line, each with that one's module.
Rest(lines) ==
  UNION {{<<CanonicalModuleName(l[1]), l[i]>> : i \in {i \in 2 .. Len(l) : l[i] \notin Malformed}} :
         l \in lines}
Wellformed(lines) == {l \in lines : l[1] \notin Malformed}
ParseModulesFirmware(lines) == Rest(lines)
ParseModulesDep(lines)      == {<<CanonicalModuleName(l[1]), l[1]>> : l \in Wellformed(lines)}
ParseDependencies(lines)    == Rest(Wellformed(lines))
ParseModulesBuiltin(lines)  == ParseModulesDep(lines)

\* The facts of every table read for a use, each with its table.
FactsOf(reads, use, Parse(_)) ==
  UNION {{<<p[1], p[2], r[2]>> : p \in Parse(r[3])} : r \in {r \in reads : r[1] = use}}
Aliases(reads) ==
  FactsOf(reads, "alias", ParseModulesAlias) \cup FactsOf(reads, "modinfo", ParseModinfoAliases)
FirmwareRecords(reads) ==
  FactsOf({r \in reads : r[2] \notin Modinfo}, "firmware", ParseModulesFirmware)
    \cup FactsOf({r \in reads : r[2] \in Modinfo}, "firmware", ParseModinfoFirmware)
Payloads(reads)     == FactsOf(reads, "dep", ParseModulesDep)
Dependencies(reads) == FactsOf(reads, "dep", ParseDependencies)
Builtins(reads)     == FactsOf(reads, "builtin", ParseModulesBuiltin)

-----------------------------------------------------------------------------
\* The order of tuples of texts, and the first n of a set in it.
Before(x, y) ==
  \E i \in DOMAIN x :
    /\ Position[x[i]] < Position[y[i]]
    /\ \A j \in 1 .. i - 1 : x[j] = y[j]
Take(tuples, n) == {x \in tuples : Cardinality({y \in tuples : Before(y, x)}) < n}
TakeTexts(texts, n) == {x[1] : x \in Take({<<t>> : t \in texts}, n)}

\* annotate_linux_driver_candidates.
Matching(d, reads) ==
  {a \in Aliases(reads) : \E m \in d.modalias :
     /\ HasLiteralPrefix(Spelling[a[1]], Spelling[m])
     /\ GlobMatches(Spelling[a[1]], Spelling[m])}
Candidates(d, reads) == TakeTexts({a[2] : a \in Matching(d, reads)}, MaxDriverCandidates)
\* Mutant: the table is not looked at.
AllSources(d, reads, kept) == {<<driver, r[2]>> : driver \in kept, r \in reads}
MatchingSources(d, reads, kept) ==
  {<<a[2], a[3]>> : a \in {a \in Matching(d, reads) : a[2] \in kept}}

\* The modules a device may need: its candidates, and the one that is bound.
Drivers(d, reads) == {CanonicalModuleName(x) : x \in Candidates(d, reads) \cup d.driver}
Needed(d, reads, facts) == LET drivers == Drivers(d, reads) IN {f \in facts : f[1] \in drivers}
Values(facts)  == Take({<<f[1], f[2]>> : f \in facts}, MaxDriverFiles)
Sources(facts) == Take({<<f[1], f[3]>> : f \in facts}, MaxDriverFiles)

\* annotate_linux_firmware_candidates.
FirmwareCandidates(d, reads) ==
  TakeTexts((d.properties["firmware"] \ Malformed)
              \cup {f[2] : f \in Needed(d, reads, FirmwareRecords(reads))},
            MaxFirmwareCandidates)

\* What the scan did read decides what is annotated: `reads`, and the files
\* `found` for firmware candidates, as <<candidate, root, name, suffix>>.
Annotate(d, reads, found, withFirmware) ==
  LET candidates == Candidates(d, reads)
      firmware   == Needed(d, reads, FirmwareRecords(reads))
      payloads   == Needed(d, reads, Payloads(reads))
      dependencies == Needed(d, reads, Dependencies(reads))
      builtins   == Needed(d, reads, Builtins(reads))
      names      == IF withFirmware THEN FirmwareCandidates(d, reads) ELSE {}
  IN
  [d EXCEPT !.properties = [p \in PropertyName |->
     CASE p = "linux_driver_candidates" -> candidates
       [] p = "linux_driver_candidate_sources" ->
            Take(MatchingSources(d, reads, candidates), MaxDriverFiles)
       [] p = "linux_firmware_candidates" -> names
       [] p = "linux_firmware_candidate_sources" -> {<<f[1], f[3]>> : f \in firmware}
       [] p = "linux_firmware_files" ->
            Take({x \in found : x[1] \in names}, MaxFirmwareFiles)
       [] p = "linux_driver_files"              -> Values(payloads)
       [] p = "linux_driver_file_sources"       -> Sources(payloads)
       [] p = "linux_driver_dependencies"       -> Values(dependencies)
       [] p = "linux_driver_dependency_sources" -> Sources(dependencies)
       [] p = "linux_driver_builtins"           -> {f[1] : f \in builtins}
       [] p = "linux_driver_builtin_sources"    -> Sources(builtins)
       [] OTHER -> d.properties[p]]]

-----------------------------------------------------------------------------
\* A firmware root is [dir, at, files]: whether it is a directory, where it
\* resolves to, and for the entries <<name, suffix>> that resolve to a
\* regular file, where: <<root, name, suffix>>.  No root lies in another.
Suffix == {"", ".xz", ".zst", ".gz", ".bz2", ".lz4", ".lz"}

\* Mutant: a link may lead out of the root.
Anywhere(root, place) == TRUE
\* resolve_firmware_file: only what is in the root itself.
Inside(root, place) == place[1] = root.at

\* annotate_linux_firmware_files, before it is cut.
FirmwareFiles(roots, names) ==
  UNION {{<<e[1], root.files[e][1], root.files[e][2], root.files[e][3]>> :
            e \in {e \in DOMAIN root.files :
                     /\ e[1] \in names \ Malformed /\ e[2] \in Suffix
                     /\ Inside(root, root.files[e])}} : root \in roots}

\* Mutant: only the tables of the candidates are listed.
CandidateTables(reads, roots) ==
  {<<"kernel-metadata", r[2], r[3]>> : r \in {r \in reads : r[1] = "hash-alias"}}
\* driver_source_manifest, of the tables as read for it: <<kind, path, sha256>>.
DriverSourceManifest(reads, roots) ==
  {<<IF r[1] = "hash-firmware" THEN "firmware-metadata" ELSE "kernel-metadata", r[2], r[3]>> :
     r \in {r \in reads :
              r[1] \in {"hash-alias", "hash-firmware", "hash-dep", "hash-builtin"}}}
    \cup {<<"firmware-tree", root, {}>> : root \in roots}
=============================================================================
