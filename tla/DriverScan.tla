----------------------------- MODULE DriverScan -----------------------------
(***************************************************************************)
(* `arach-hwd scan` and `arach-hwd preflight` (src/src/main.rs), and the   *)
(* scan they share with `plan`, scan_inventory_with_driver_sources         *)
(* (src/src/scan.rs): it lists the buses and the classes, reads the tables *)
(* of the modules, looks for firmware, and reads the tables once more to   *)
(* put their digests into the manifest.  Nothing of that is locked: while  *)
(* it goes on, udev binds and unbinds drivers, an installer stages tables  *)
(* and firmware, and the process may be killed.                            *)
(*                                                                         *)
(* The scan is a list of input operations <<phase, argument>>, phase after *)
(* phase and in a phase in the order of Position; what the program         *)
(* computes of their results between them is computed where it is used.    *)
(* Tables given on the command line are taken in the order of their names. *)
(***************************************************************************)
EXTENDS DriverMetadata

CONSTANTS
  Link,            \* the content of a path that is a link or a directory
  Oversize,        \* ... of a table with more than MAX_MODULES_ALIAS_BYTES
  Worlds,          \* [sysfs, tables, roots, options] to start from
  SysfsMoves,      \* <<sysfs, next>>: what udev and hot-plugging do to a tree
  TableEdits,      \* <<table, old content, new content>>
  RootEdits,       \* <<root, old value, new value>>
  DefaultTables,   \* [kind -> the conventional paths of its tables]
  DefaultRoots,    \* the conventional firmware roots
  MaxChanges       \* bound: of the environment during a scan

TableKind == {"alias", "firmware", "dep", "builtin"}
Phases == <<"bus", "class", "alias", "modinfo", "firmware", "resolve", "dep", "builtin",
            "hash-alias", "hash-firmware", "hash-dep", "hash-builtin", "root">>
TablePhase == {"alias", "modinfo", "firmware", "dep", "builtin",
               "hash-alias", "hash-firmware", "hash-dep", "hash-builtin"}

\* A text that is known: it has its place among the texts, and its characters.
Text == DOMAIN Position
IsText(characters) ==
  Len(characters) \in Nat /\ DOMAIN characters = 1 .. Len(characters)
\* The content of a table.
IsTable(content) ==
  \/ content \in {Link, Oversize}
  \/ IsFiniteSet(content) /\ \A line \in content : line \in Seq(Text) /\ line # <<>>
\* A /sys: its attributes are texts, and the path from an entry to the driver
\* link of a function leads to what that link is, if it is there.
IsTree(tree) ==
  /\ \A bus \in BusName : \A id \in DOMAIN tree.bus[bus] :
       LET attr == tree.bus[bus][id].attr IN \A a \in DOMAIN attr : attr[a] \in Text
  /\ \A class \in ClassName : \A id \in DOMAIN tree.class[class] :
       LET node == tree.class[class][id] IN
       /\ \A a \in DOMAIN node.attr : node.attr[a] \in Text
       /\ \A p \in node.parent :
            /\ p[1] \in BusName /\ p[2] \in DOMAIN tree.bus[p[1]]
            /\ LET function == tree.bus[p[1]][p[2]] IN
               /\ p[3] \in DOMAIN node.attr <=> "driver" \in DOMAIN function.attr
               /\ p[3] \in DOMAIN node.attr => node.attr[p[3]] = function.attr["driver"]

ASSUME ScanAssumption ==
  /\ MaxChanges \in Nat
  /\ Modinfo \cap DefaultTables["alias"] = {}
  /\ \A e \in RootEdits : e[2].at = e[3].at
  /\ \A w \in Worlds :
       /\ DOMAIN w.options =
            {"given", "table", "roots", "preflight", "toFile", "allowUnresolved"}
       /\ DOMAIN w.options.table = TableKind
       /\ w.options.given \subseteq TableKind \cup {"root"}
ASSUME TextAssumption ==
  /\ \A t \in Text : Position[t] \in Nat /\ IsText(Spelling[t])
  /\ \A s, t \in Text : Position[s] = Position[t] => s = t
  /\ \A t \in DOMAIN Canonical : Canonical[t] \in Text
ASSUME LimitAssumption == MaxDriverCandidates \in Nat /\ MaxDriverFiles \in Nat
ASSUME MachineAssumption ==
  /\ \A w \in Worlds : IsTree(w.sysfs) /\ \A t \in DOMAIN w.tables : t \in Text /\ IsTable(w.tables[t])
  /\ \A m \in SysfsMoves : IsTree(m[2])
  /\ \A e \in TableEdits : IsTable(e[3])

VARIABLES
  sysfs, tables, roots,      \* the machine: /sys, the tables, the firmware trees
  output,                    \* the --output file
  pc, options,
  done,                      \* the operations of the scan that are over
  devices, reads, found,     \* what they returned
  inventory,                 \* [devices, driver_sources], when the scan is over
  result,                    \* how the command ended
  trees, held,               \* history: each /sys, and each <<table, content>>, so far
  changes

locals   == <<options, done, devices, reads, found, inventory>>
machine  == <<sysfs, tables, roots>>
history  == <<trees, held, changes>>
vars     == <<machine, output, pc, locals, result, history>>

Empty  == [devices |-> {}, driver_sources |-> {}]
Nothing == [kind |-> "nothing"]
Partial == [kind |-> "partial"]
Report(i) ==
  [kind |-> "report",
   report |-> PreflightInventory(i.devices, CapabilityRequirements(i.devices), i.driver_sources)]

Init ==
  /\ \E w \in Worlds :
       sysfs = w.sysfs /\ tables = w.tables /\ roots = w.roots /\ options = w.options
  /\ output = Nothing /\ pc = "options" /\ result = "none"
  /\ done = {} /\ devices = {} /\ reads = {} /\ found = {} /\ inventory = Empty
  /\ trees = {sysfs} /\ changes = 0
  /\ held = {<<t, tables[t]>> : t \in DOMAIN tables}

Fail(reason) ==
  /\ result' = reason
  /\ pc' = "idle"

-----------------------------------------------------------------------------
\* Mutant: a link counts as a table.
IsThere(table) == table \in DOMAIN tables
\* is_regular_non_symlink: of any size.
IsRegularNonSymlink(table) == table \in DOMAIN tables /\ tables[table] # Link

\* The lists that are not given are looked for: collect_modules_files, and
\* default_firmware_roots, which takes a link to a directory for one.
Discover ==
  /\ pc = "options"
  /\ options' =
       [options EXCEPT
          !.table = [k \in TableKind |->
             IF k \in options.given THEN options.table[k]
             ELSE {t \in DefaultTables[k] : IsRegularNonSymlink(t)}],
          !.roots = IF "root" \in options.given THEN @ ELSE DefaultRoots \cap DOMAIN roots]
  /\ pc' = "scan"
  /\ UNCHANGED <<machine, output, done, devices, reads, found, inventory, result, history>>

Arguments(phase) ==
  CASE phase = "bus"   -> BusName
    [] phase = "class" -> ClassName
    [] phase \in {"alias", "hash-alias"}       -> options.table["alias"]
    [] phase = "modinfo"                       -> options.table["firmware"] \cap Modinfo
    [] phase \in {"firmware", "hash-firmware"} -> options.table["firmware"]
    [] phase \in {"dep", "hash-dep"}           -> options.table["dep"]
    [] phase \in {"builtin", "hash-builtin"}   -> options.table["builtin"]
    [] phase = "resolve" -> IF options.roots = {} THEN {} ELSE {"all"}
    [] phase = "root"    -> options.roots

\* What is left of a phase, and the operation that is next.
Remaining(phase) == {a \in Arguments(phase) : <<phase, a>> \notin done}
IsNext(op) ==
  /\ pc = "scan" /\ op[2] \in Remaining(op[1])
  /\ \A a \in Remaining(op[1]) : Position[op[2]] <= Position[a]
  /\ \E i \in DOMAIN Phases :
       Phases[i] = op[1] /\ \A j \in 1 .. i - 1 : Remaining(Phases[j]) = {}

\* An operation of the scan is over, and the command goes on; or it could not
\* be done, and the command ends.
Over(op) ==
  /\ done' = done \cup {op}
  /\ UNCHANGED <<pc, result>>

ScanBus(bus) ==
  /\ IsNext(<<"bus", bus>>)
  /\ \/ Over(<<"bus", bus>>) /\ devices' = devices \cup ScanBusDirectory(sysfs, bus)
     \/ Fail("io") /\ UNCHANGED <<done, devices>>
  /\ UNCHANGED <<machine, output, options, reads, found, inventory, history>>

ScanClass(class) ==
  /\ IsNext(<<"class", class>>)
  /\ \/ Over(<<"class", class>>) /\ devices' = devices \cup ScanClassDirectory(sysfs, class)
     \/ Fail("io") /\ UNCHANGED <<done, devices>>
  /\ UNCHANGED <<machine, output, options, reads, found, inventory, history>>

IsReadable(table) == table \in DOMAIN tables /\ tables[table] \notin {Link, Oversize}

\* read_modules_metadata_bytes; an edit between its check and its read is
\* one before both, or, with a link, is left out.
ReadTable(use, table) ==
  /\ use \in TablePhase /\ IsNext(<<use, table>>)
  /\ IF IsReadable(table)
     THEN /\ Over(<<use, table>>)
          /\ reads' = reads \cup {<<use, table, tables[table]>>}
     ELSE Fail("table") /\ UNCHANGED <<done, reads>>
  /\ UNCHANGED <<machine, output, options, devices, found, inventory, history>>

GivenRoots == {roots[r] : r \in options.roots \cap DOMAIN roots}
RootsAreDirectories(names) ==
  \A r \in names : r \in DOMAIN roots /\ roots[r].dir

\* annotate_linux_firmware_files looks for what the devices ask for.
ResolveFirmware ==
  /\ IsNext(<<"resolve", "all">>)
  /\ IF RootsAreDirectories(options.roots)
     THEN /\ Over(<<"resolve", "all">>)
          /\ found' = FirmwareFiles(GivenRoots,
                        UNION {FirmwareCandidates(d, reads) : d \in devices})
     ELSE Fail("root") /\ UNCHANGED <<done, found>>
  /\ UNCHANGED <<machine, output, options, devices, reads, inventory, history>>

\* The manifest looks at each root once more.
CheckRoot(root) ==
  /\ IsNext(<<"root", root>>)
  /\ IF RootsAreDirectories({root}) THEN Over(<<"root", root>>)
     ELSE Fail("root") /\ UNCHANGED done
  /\ UNCHANGED <<machine, output, options, devices, reads, found, inventory, history>>

WithFirmware == options.table["firmware"] # {} \/ options.roots # {}
\* The inventory: scan prints it, preflight reports on it.
Finish ==
  /\ pc = "scan" /\ \A i \in DOMAIN Phases : Remaining(Phases[i]) = {}
  /\ inventory' =
       [devices |-> {Annotate(d, reads, found, WithFirmware) : d \in devices},
        driver_sources |-> DriverSourceManifest(reads, options.roots)]
  /\ IF options.preflight
     THEN pc' = (IF options.toFile THEN "open" ELSE "verdict") /\ UNCHANGED result
     ELSE Fail("ok")
  /\ UNCHANGED <<machine, output, options, done, devices, reads, found, history>>

\* fs::write creates or truncates the file ...
OpenOutput ==
  /\ pc = "open"
  /\ \/ output' = Partial /\ pc' = "write" /\ UNCHANGED result
     \/ Fail("io") /\ UNCHANGED output
  /\ UNCHANGED <<machine, locals, history>>

\* Mutant: whether all of it was written is not looked at.
GoOn(whole) == TRUE
Written(whole) == whole
\* ... and then writes it, all or a part.
WriteOutput ==
  /\ pc = "write"
  /\ \E whole \in BOOLEAN :
       /\ output' = IF whole THEN Report(inventory) ELSE Partial
       /\ IF Written(whole) THEN pc' = "verdict" /\ UNCHANGED result ELSE Fail("io")
  /\ UNCHANGED <<machine, locals, history>>

\* The report is out; a machine that is not ready fails the command.
Verdict ==
  /\ pc = "verdict"
  /\ Fail(IF Report(inventory).report.ready \/ options.allowUnresolved THEN "ok"
          ELSE "unresolved")
  /\ UNCHANGED <<machine, output, locals, history>>

Kill ==
  /\ pc # "idle"
  /\ Fail("killed")
  /\ UNCHANGED <<machine, output, locals, history>>

-----------------------------------------------------------------------------
\* The environment.
Changes == pc # "idle" /\ changes < MaxChanges /\ changes' = changes + 1

Rebind ==
  /\ Changes
  /\ \E m \in SysfsMoves : m[1] = sysfs /\ sysfs' = m[2]
  /\ trees' = trees \cup {sysfs'}
  /\ UNCHANGED <<tables, roots, output, pc, locals, result, held>>

EditTable ==
  /\ Changes
  /\ \E e \in TableEdits :
       /\ e[1] \in DOMAIN tables /\ tables[e[1]] = e[2]
       /\ tables' = [tables EXCEPT ![e[1]] = e[3]]
       /\ held' = held \cup {<<e[1], e[3]>>}
  /\ UNCHANGED <<sysfs, roots, output, pc, locals, result, trees>>

EditRoot ==
  /\ Changes
  /\ \E e \in RootEdits :
       /\ e[1] \in DOMAIN roots /\ roots[e[1]] = e[2]
       /\ roots' = [roots EXCEPT ![e[1]] = e[3]]
  /\ UNCHANGED <<sysfs, tables, output, pc, locals, result, trees, held>>

Tables  == UNION {options.table[k] : k \in TableKind}
Command ==
  \/ Discover
  \/ \E bus \in BusName : ScanBus(bus)
  \/ \E class \in ClassName : ScanClass(class)
  \/ \E use \in TablePhase, table \in Tables : ReadTable(use, table)
  \/ ResolveFirmware
  \/ \E root \in options.roots : CheckRoot(root)
  \/ Finish \/ OpenOutput \/ WriteOutput \/ Verdict
Next == Command \/ Kill \/ Rebind \/ EditTable \/ EditRoot

Spec == Init /\ [][Next]_vars
-----------------------------------------------------------------------------
Complete   == inventory # Empty
Unresolved == UnresolvedDevices(inventory.devices, CapabilityRequirements(inventory.devices))

\* The state is of its types, every table that was read had that content, and
\* no two devices have one key: dedup_by (scan.rs:121) takes none away.
TypeOK ==
  /\ pc \in {"options", "scan", "open", "write", "verdict", "idle"}
  /\ result \in {"none", "ok", "io", "table", "root", "unresolved", "killed"}
  /\ output = Nothing \/ output = Partial \/ output = Report(inventory)
  /\ changes \in 0 .. MaxChanges
  /\ sysfs \in trees
  /\ \A r \in reads : r[1] \in TablePhase /\ <<r[2], r[3]>> \in held
  /\ \A d, e \in devices : d.key = e.key => d = e

\* A pattern cut into the pieces that its characters stand for.
ReferenceMatches(pattern, value) ==
  \E end \in [0 .. Len(pattern) -> 0 .. Len(value)] :
    /\ end[0] = 0 /\ end[Len(pattern)] = Len(value)
    /\ \A i \in DOMAIN pattern :
         IF pattern[i] = "*" THEN end[i - 1] <= end[i]
         ELSE end[i] = end[i - 1] + 1 /\ pattern[i] \in {"?", value[end[i]]}

\* The contents that could be read so far.
Contents == {h \in held : h[2] \notin {Link, Oversize}}
\* The drivers that a content of a table names for a device by one of the
\* patterns, in the words of each list of tables that it is in.
NamedBy(table, content, d, patterns) ==
  LET lines(here) == {l \in content : here /\ Len(l) = 3}
      Claims ==
        {<<l[2], l[3]>> : l \in {l \in lines(table \in options.table["alias"]) : l[1] = "alias"}}
          \cup {<<l[3], CanonicalModuleName(l[1])>> :
                 l \in {l \in lines(table \in options.table["firmware"] \cap Modinfo) : l[2] = "alias"}}
  IN {c[2] : c \in {c \in Claims : c[1] \in patterns /\ c[2] \notin Malformed /\
                      \E m \in d.modalias : ReferenceMatches(Spelling[c[1]], Spelling[m])}}
NamedSoFar(d, patterns) == UNION {NamedBy(h[1], h[2], d, patterns) : h \in Contents}
\* The texts whose literal prefix is ASCII, as that of every modalias of the
\* kernel is: read byte by byte it is still the same.
AsciiPrefix == {t \in Text : Literal(Spelling[t]) \notin DOMAIN Latin1}

\* A candidate driver is one that some supplied table, as it was at a moment
\* of the scan, names for the modalias of the device; and when nothing was
\* edited, every driver that is so named by a pattern with an ASCII prefix is
\* a candidate, but for the last when there are more than
\* MAX_DRIVER_CANDIDATES.
CandidatesAgreeWithReference ==
  Complete => \A d \in inventory.devices :
    LET kept == d.properties["linux_driver_candidates"]
    IN /\ kept \subseteq NamedSoFar(d, Text)
       /\ held = {<<t, tables[t]>> : t \in DOMAIN tables} =>
            \A x \in NamedSoFar(d, AsciiPrefix) \ kept :
              /\ Cardinality(kept) = MaxDriverCandidates
              /\ \A y \in kept : Position[y] < Position[x]

\* What supports an entry of the evidence, and in which tables.
Evidence ==
  {<<"linux_driver_candidates", "linux_driver_candidate_sources", "alias">>,
   <<"linux_driver_files", "linux_driver_file_sources", "dep">>,
   <<"linux_driver_dependencies", "linux_driver_dependency_sources", "dep">>,
   <<"linux_driver_builtins", "linux_driver_builtin_sources", "builtin">>}
\* A content of a table has something to say of a driver for a device.
Supports(table, content, kind, driver, d) ==
  CASE kind = "alias" -> driver \in NamedBy(table, content, d, Text)
    [] OTHER -> \E l \in content : l[1] \notin Malformed /\ CanonicalModuleName(l[1]) = driver

\* Every source of evidence is a table of the manifest that at some moment of
\* the scan named that driver; and a driver that is kept has a source, unless
\* the sources were cut off at MAX_DRIVER_FILES.
EvidenceHasSource ==
  Complete => \A d \in inventory.devices, e \in Evidence :
    LET sources == d.properties[e[2]]
        values  == d.properties[e[1]]
        drivers == IF e[3] = "dep" THEN {v[1] : v \in values} ELSE values
    IN /\ \A s \in sources :
            /\ \E m \in inventory.driver_sources : m[2] = s[2]
            /\ \E h \in Contents : h[1] = s[2] /\ Supports(h[1], h[2], e[3], s[1], d)
       /\ Cardinality(sources) < MaxDriverFiles => drivers \subseteq {s[1] : s \in sources}

\* Every table that is a source is in the manifest with the digest of a
\* content it had during the scan: when it was not edited meanwhile, of the
\* content that the evidence came from.
SteadySourceIsHashed ==
  Complete => \A d \in inventory.devices, e \in Evidence :
    \A s \in d.properties[e[2]] :
      \E m \in inventory.driver_sources : m[2] = s[2] /\ <<m[2], m[3]>> \in held

\* The firmware files of a device lie in the roots that were supplied, and
\* the device itself, or a table at some moment of the scan for one of its
\* drivers, asks for them.
FirmwareStaysInside ==
  Complete => \A d \in inventory.devices :
    \A f \in d.properties["linux_firmware_files"] :
      /\ \E r \in options.roots : r \in DOMAIN roots /\ f[2] = roots[r].at
      /\ \/ f[1] \in d.properties["firmware"]
         \/ \E h \in Contents, x \in d.properties["linux_driver_candidates"] \cup d.driver :
              /\ h[1] \in options.table["firmware"]
              /\ \E l \in h[2] : CanonicalModuleName(l[1]) = CanonicalModuleName(x) /\
                                 \E i \in 2 .. Len(l) : l[i] = f[1]

\* The functions of the buses that have something to drive.
Functions(tree) ==
  {d \in UNION {ScanBusDirectory(tree, bus) : bus \in BusName} : DeviceCapabilities(d) # {}}

\* A preflight that succeeds without --allow-unresolved is honest: a function
\* that was there all the while had a driver at some moment of the scan, even
\* when udev was at work between the directories.
ReadyIsHonest ==
  options.preflight /\ result = "ok" /\ ~options.allowUnresolved =>
    \A key \in {d.key : d \in Functions(sysfs)} :
      (\A tree \in trees : \E d \in Functions(tree) : d.key = key) =>
        \E tree \in trees : \E d \in Functions(tree) : d.key = key /\ d.driver # {}

\* The installer reads the report of a preflight that fails because of
\* unresolved devices: such a report is whole, and so is one of a success.
ReportReachesInstaller ==
  options.preflight =>
    /\ result \in {"ok", "unresolved"} /\ options.toFile => output = Report(inventory)
    /\ result = "unresolved" => Unresolved # {} /\ ~options.allowUnresolved
    /\ result = "ok" => Unresolved = {} \/ options.allowUnresolved

\* A scan that looks for its tables and roots itself is not refused for what
\* it found, unless the machine was changed meanwhile, a root is a link or a
\* table too long.
DefaultScanSucceeds ==
  options.given = {} /\ changes = 0 /\ result \in {"table", "root"} =>
    \/ \E r \in options.roots : ~roots[r].dir
    \/ \E t \in Tables : tables[t] = Oversize

Parents(tree, key) ==
  IF key[1] = "class" THEN tree.class[key[2]][key[3]].parent ELSE {}

\* How near a function must be to a class entry: its device, the device of
\* that, or the directory above the entry.
Near == {"device/driver", "device/device/driver", "../driver"}
\* An entry of a class is not reported as unresolved when a driver is bound to
\* a function so near to it.  (scan.rs 931-957)
NodesFollowParents ==
  Complete => \A tree \in trees : trees = {tree} =>
    \A entry \in Unresolved : \A p \in Parents(tree, entry.device_key) :
      p[3] \in Near => "driver" \notin DOMAIN tree.bus[p[1]][p[2]].attr

\* docs/CORINTH_PROTOCOL.md:49-50: a virtual interface is never unresolved.
UnresolvedArePhysical ==
  Complete => \A tree \in trees : trees = {tree} =>
    \A entry \in Unresolved :
      entry.bus = "sysfs" => Parents(tree, entry.device_key) # {}
=============================================================================
