--------------------------- MODULE DriverScanProofs ---------------------------
(* Proofs about DriverScan, for every machine, every set of tables and roots, *)
(* every change of them during the scan and every limit on the candidates.    *)
EXTENDS DriverScan, OrderTheorems

-----------------------------------------------------------------------------
(* glob_matches.                                                            *)

\* The rows of glob_matches: each is of lengths of the value, and made of the
\* one before.
LEMMA GlobRows ==
  ASSUME NEW pattern, Len(pattern) \in Nat, NEW value, Len(value) \in Nat
  PROVE  \E row \in [0 .. Len(pattern) -> SUBSET (0 .. Len(value))] :
           /\ row[0] = {0}
           /\ \A i \in 1 .. Len(pattern) :
                row[i] = UNION {After(pattern[i], k, value) : k \in row[i - 1]}
           /\ GlobMatches(pattern, value) <=> Len(value) \in row[Len(pattern)]
  <1> DEFINE N == Len(pattern)
             V == SUBSET (0 .. Len(value))
             Next1(i, ks) == UNION {After(pattern[i], k, value) : k \in ks}
             Step == [x \in (1 .. N) \X V |-> Next1(x[1], x[2])]
             Row(R) == [i \in 0 .. N |-> IF i = 0 THEN {0} ELSE Next1(i, R[i - 1])]
             row == CHOOSE R : R = Row(R)
  <1>1. ASSUME NEW i, NEW ks \in V
        PROVE  Next1(i, ks) \in V
    <2>1. \A k \in 0 .. Len(value) : After(pattern[i], k, value) \subseteq 0 .. Len(value)
      BY DEF After, AfterStar
    <2> QED BY <2>1
  <1>2. IsStep(Step, N, V)
    <2> HIDE DEF Next1, V
    <2> QED BY <1>1 DEF IsStep
  <1>3. \A i \in 1 .. N, ks \in V : Step[<<i, ks>>] = Next1(i, ks)
    <2> HIDE DEF Next1, V
    <2> QED OBVIOUS
  <1>4. {0} \in V
    OBVIOUS
  <1>5. PICK f : IsChain(f, N, V, {0}, Step)
    <2> HIDE DEF Step, V
    <2> QED BY <1>2, <1>4, ChainExists
  <1>6. f = Row(f)
    <2>1. \A i \in 1 .. N : i - 1 \in 0 .. N
      OBVIOUS
    <2>2. \A i \in 1 .. N : f[i] = Next1(i, f[i - 1])
      <3> HIDE DEF Step, V, Next1
      <3> QED BY <1>3, <1>5, <2>1 DEF IsChain
    <2> HIDE DEF V, Next1
    <2> QED BY <1>5, <2>2 DEF IsChain
  <1>7. row = Row(row)
    <2> HIDE DEF Row
    <2> QED BY <1>6
  <1>8. GlobMatches(pattern, value) <=> Len(value) \in row[N]
    BY DEF GlobMatches
  <1> HIDE DEF row
  <1>9. row[0] = {0} /\ \A i \in 1 .. N : row[i] = Next1(i, row[i - 1])
    <2>1. \A i \in 1 .. N : i \in 0 .. N /\ i # 0
      OBVIOUS
    <2>2. 0 \in 0 .. N
      OBVIOUS
    <2> HIDE DEF N, Next1
    <2> QED BY <1>7, <2>1, <2>2
  <1>10. \A n \in 0 .. N : row[n] \in V
    <2> DEFINE T == {n \in 0 .. N : row[n] \in V}
    <2>1. 0 \in T
      BY <1>4, <1>9
    <2>2. ASSUME NEW n \in 0 .. N - 1, n \in T
          PROVE  n + 1 \in T
      <3>1. n + 1 \in 1 .. N /\ (n + 1) - 1 = n
        OBVIOUS
      <3>2. row[n + 1] = Next1(n + 1, row[n])
        BY <1>9, <3>1
      <3> HIDE DEF Next1, V
      <3> QED BY <1>1, <2>2, <3>1, <3>2
    <2>3. N \in Nat
      OBVIOUS
    <2>4. \A n \in 0 .. N : n \in T
      <3> HIDE DEF T, N
      <3> QED BY <2>1, <2>2, <2>3, PositionInduction
    <2> QED BY <2>4
  <1>11. row \in [0 .. N -> V]
    <2> HIDE DEF V, Next1
    <2>1. \A n \in 0 .. N : row[n] \in V
      BY <1>10
    <2>2. row = [i \in 0 .. N |-> row[i]]
      BY <1>7
    <2> QED BY <2>1, <2>2
  <1> WITNESS row \in [0 .. N -> V]
  <1> QED BY <1>8, <1>9, <1>11

\* A character of a pattern stands for what is between k and j.
StandsFor(c, value, k, j) ==
  IF c = "*" THEN k <= j ELSE j = k + 1 /\ c \in {"?", value[j]}
\* A cut of the first i characters of the pattern that ends at j.
CutTo(end, pattern, value, i, j) ==
  /\ end \in [0 .. i -> 0 .. Len(value)]
  /\ end[0] = 0 /\ end[i] = j
  /\ \A x \in 1 .. i : StandsFor(pattern[x], value, end[x - 1], end[x])

LEMMA AfterStands ==
  ASSUME NEW c, NEW value, Len(value) \in Nat, NEW k \in 0 .. Len(value), NEW j
  PROVE  j \in After(c, k, value) <=> j \in 0 .. Len(value) /\ StandsFor(c, value, k, j)
  BY DEF After, AfterStar, StandsFor

LEMMA ReferenceIsCut ==
  ASSUME NEW pattern, IsText(pattern), NEW value, IsText(value)
  PROVE  ReferenceMatches(pattern, value) <=>
           \E end : CutTo(end, pattern, value, Len(pattern), Len(value))
  BY DEF ReferenceMatches, CutTo, StandsFor, IsText

\* glob_matches finds a match exactly when the value can be cut into pieces
\* that the characters of the pattern stand for.  (scan.rs 1704-1729)
THEOREM GlobIsReference ==
  ASSUME NEW pattern, IsText(pattern), NEW value, IsText(value)
  PROVE  GlobMatches(pattern, value) <=> ReferenceMatches(pattern, value)
  <1> DEFINE N == Len(pattern)
             M == Len(value)
  <1>1. N \in Nat /\ M \in Nat
    BY DEF IsText
  <1>2. PICK row \in [0 .. N -> SUBSET (0 .. M)] :
           /\ row[0] = {0}
           /\ \A i \in 1 .. N : row[i] = UNION {After(pattern[i], k, value) : k \in row[i - 1]}
           /\ GlobMatches(pattern, value) <=> M \in row[N]
    BY <1>1, GlobRows
  <1> HIDE DEF N, M
  <1>3. ASSUME NEW i \in 1 .. N, NEW j
        PROVE  j \in row[i] <=>
                 j \in 0 .. M /\ \E k \in row[i - 1] : StandsFor(pattern[i], value, k, j)
    <2>1. row[i - 1] \subseteq 0 .. M
      <3>1. i - 1 \in 0 .. N
        BY <1>1
      <3> QED BY <1>2, <3>1
    <2>2. j \in row[i] <=> \E k \in row[i - 1] : j \in After(pattern[i], k, value)
      <3>1. row[i] = UNION {After(pattern[i], k, value) : k \in row[i - 1]}
        BY <1>2
      <3> QED BY <3>1
    <2>3. \A k \in 0 .. M : j \in After(pattern[i], k, value) <=>
                              j \in 0 .. M /\ StandsFor(pattern[i], value, k, j)
      BY <1>1, AfterStands DEF M
    <2> QED BY <2>1, <2>2, <2>3
  <1>4. ASSUME M \in row[N]
        PROVE  \E end : CutTo(end, pattern, value, N, M)
    <2> DEFINE T == {i \in 0 .. N : \A j \in row[i] : \E end : CutTo(end, pattern, value, i, j)}
    <2>1. 0 \in T
      <3> DEFINE end == [i \in 0 .. 0 |-> 0]
      <3>1. CutTo(end, pattern, value, 0, 0)
        BY <1>1 DEF CutTo, M
      <3> HIDE DEF end
      <3> QED BY <1>1, <1>2, <3>1
    <2>2. ASSUME NEW i \in 0 .. N - 1, i \in T
          PROVE  i + 1 \in T
      <3> SUFFICES ASSUME NEW j \in row[i + 1]
                   PROVE  \E end : CutTo(end, pattern, value, i + 1, j)
        BY <1>1
      <3>1. i + 1 \in 1 .. N /\ (i + 1) - 1 = i
        BY <1>1
      <3>2. PICK k \in row[i] : j \in 0 .. M /\ StandsFor(pattern[i + 1], value, k, j)
        BY <1>3, <3>1
      <3>3. PICK end : CutTo(end, pattern, value, i, k)
        BY <2>2
      <3> DEFINE longer == [x \in 0 .. i + 1 |-> IF x = i + 1 THEN j ELSE end[x]]
      <3>4. /\ longer \in [0 .. i + 1 -> 0 .. M]
            /\ longer[0] = 0 /\ longer[i + 1] = j /\ longer[i] = k
        BY <3>2, <3>3 DEF CutTo, M
      <3>5. ASSUME NEW x \in 1 .. i + 1
            PROVE  StandsFor(pattern[x], value, longer[x - 1], longer[x])
        <4>1. CASE x = i + 1
          BY <3>1, <3>2, <3>4, <4>1
        <4>2. CASE x # i + 1
          <5>1. x \in 1 .. i /\ longer[x] = end[x] /\ longer[x - 1] = end[x - 1]
            BY <4>2
          <5> HIDE DEF longer
          <5> QED BY <3>3, <5>1 DEF CutTo
        <4> QED BY <4>1, <4>2
      <3> HIDE DEF longer
      <3>6. CutTo(longer, pattern, value, i + 1, j)
        BY <3>4, <3>5 DEF CutTo, M
      <3> QED BY <3>6
    <2>3. \A i \in 0 .. N : i \in T
      <3> HIDE DEF T
      <3> QED BY <1>1, <2>1, <2>2, PositionInduction
    <2> QED BY <1>1, <1>4, <2>3
  <1>5. ASSUME NEW end, CutTo(end, pattern, value, N, M)
        PROVE  M \in row[N]
    <2> DEFINE T == {i \in 0 .. N : end[i] \in row[i]}
    <2>1. 0 \in T
      BY <1>1, <1>2, <1>5 DEF CutTo
    <2>2. ASSUME NEW i \in 0 .. N - 1, i \in T
          PROVE  i + 1 \in T
      <3>1. i + 1 \in 1 .. N /\ (i + 1) - 1 = i /\ i + 1 \in 0 .. N
        BY <1>1
      <3>2. end[i + 1] \in 0 .. M /\ StandsFor(pattern[i + 1], value, end[i], end[i + 1])
        BY <1>5, <3>1 DEF CutTo, M
      <3> QED BY <1>3, <2>2, <3>1, <3>2
    <2>3. \A i \in 0 .. N : i \in T
      <3> HIDE DEF T
      <3> QED BY <1>1, <2>1, <2>2, PositionInduction
    <2> QED BY <1>1, <1>5, <2>3 DEF CutTo
  <1> QED BY <1>2, <1>4, <1>5, ReferenceIsCut DEF N, M

\* The filter before glob_matches refuses nothing that it would accept, when
\* the prefix of the pattern is ASCII.
LEMMA PrefixIsNecessary ==
  ASSUME NEW pattern, IsText(pattern), NEW value, IsText(value), ReferenceMatches(pattern, value),
         Literal(pattern) \notin DOMAIN Latin1
  PROVE  HasLiteralPrefix(pattern, value)
  <1>1. PICK end : CutTo(end, pattern, value, Len(pattern), Len(value))
    BY ReferenceIsCut
  <1>2. SUFFICES ASSUME NEW i \in 1 .. Len(pattern),
                        \A k \in 1 .. i : pattern[k] \notin {"*", "?"}
                 PROVE  i <= Len(value) /\ value[i] = pattern[i]
    BY DEF HasLiteralPrefix, LiteralPrefix, Literal, IsText
  <1> DEFINE T == {k \in 0 .. i : end[k] = k}
  <1>3. 0 \in T
    BY <1>1 DEF CutTo
  <1>4. ASSUME NEW k \in 0 .. i - 1, k \in T
        PROVE  k + 1 \in T
    <2>1. k + 1 \in 1 .. i /\ k + 1 \in 1 .. Len(pattern) /\ (k + 1) - 1 = k
      BY DEF IsText
    <2>2. StandsFor(pattern[k + 1], value, end[k], end[k + 1])
      BY <1>1, <2>1 DEF CutTo
    <2>3. pattern[k + 1] # "*"
      BY <1>2, <2>1
    <2> QED BY <1>4, <2>1, <2>2, <2>3 DEF StandsFor
  <1>5. i \in T /\ i - 1 \in T
    <2>1. i \in Nat /\ i \in 0 .. i /\ i - 1 \in 0 .. i
      BY DEF IsText
    <2> HIDE DEF T
    <2>2. \A k \in 0 .. i - 1 : k \in T => k + 1 \in T
      BY <1>4
    <2>3. \A k \in 0 .. i : k \in T
      BY <1>3, <2>1, <2>2, PositionInduction
    <2> QED BY <2>1, <2>3
  <1>6. StandsFor(pattern[i], value, end[i - 1], end[i]) /\ end[i] \in 0 .. Len(value)
    BY <1>1 DEF CutTo, IsText
  <1> QED BY <1>2, <1>5, <1>6 DEF StandsFor, IsText

-----------------------------------------------------------------------------

(***************************************************************************)
(* The inductive invariant.  The devices of a bus are those of one tree    *)
(* that /sys was during the scan, and there are none before the bus was    *)
(* scanned; what was read of a table is a content it had; what is in the   *)
(* inventory is the devices with annotations that leave alone what the     *)
(* requirements look at.                                                   *)
(***************************************************************************)
OptionNames == {"given", "table", "roots", "preflight", "toFile", "allowUnresolved"}
Typed ==
  /\ pc \in {"options", "scan", "open", "write", "verdict", "idle"}
  /\ result \in {"none", "ok", "io", "table", "root", "unresolved", "killed"}
  /\ changes \in 0 .. MaxChanges
  /\ sysfs \in trees
  /\ \A t \in DOMAIN tables : <<t, tables[t]>> \in held
  /\ DOMAIN options = OptionNames

OfBus(bus)     == {d \in devices : d.key[1] = bus}
OfClass(class) == {d \in devices : d.key[1] = "class" /\ d.key[2] = class}
DevicesScanned ==
  /\ \A bus \in BusName : \E tree \in trees :
       OfBus(bus) = IF <<"bus", bus>> \in done THEN ScanBusDirectory(tree, bus) ELSE {}
  /\ \A class \in ClassName : \E tree \in trees :
       OfClass(class) = IF <<"class", class>> \in done THEN ScanClassDirectory(tree, class) ELSE {}
  /\ \A d \in devices : d.key[1] \in BusName \/ (d.key[1] = "class" /\ d.key[2] \in ClassName)

ReadsSound ==
  /\ \A r \in reads :
       /\ r[1] \in TablePhase /\ r[2] \in Arguments(r[1])
       /\ <<r[2], r[3]>> \in held /\ r[3] \notin {Link, Oversize}
  /\ \A use \in TablePhase : \A t : <<use, t>> \in done => \E r \in reads : r[1] = use /\ r[2] = t
  /\ \A x \in found : \E r \in options.roots : r \in DOMAIN roots /\ x[2] = roots[r].at
  /\ pc = "options" => done = {} /\ reads = {} /\ found = {}

Finished == pc \in {"open", "write", "verdict"} \/ result \in {"ok", "unresolved"} \/ Complete
InventoryMade ==
  /\ Finished =>
       /\ inventory.devices = {Annotate(d, reads, found, WithFirmware) : d \in devices}
       /\ inventory.driver_sources = DriverSourceManifest(reads, options.roots)
       /\ \A i \in DOMAIN Phases : Remaining(Phases[i]) = {}
  /\ pc \in {"options", "scan"} => inventory = Empty

Outcome ==
  /\ pc # "idle" <=> result = "none"
  /\ pc \in {"options", "scan"} => output = Nothing
  /\ output = Nothing \/ output = Partial \/ output = Report(inventory)
  /\ pc \in {"open", "write"} => options.toFile
  /\ pc \in {"open", "write", "verdict"} => options.preflight
  /\ pc = "verdict" /\ options.toFile => output = Report(inventory)
  /\ ReportReachesInstaller

Discovered ==
  /\ options.given = {} /\ changes = 0 /\ pc # "options" /\ result # "killed" =>
       /\ \A k \in TableKind : \A t \in options.table[k] : IsRegularNonSymlink(t)
       /\ options.roots \subseteq DOMAIN roots
  /\ DefaultScanSucceeds

\* What the machine shows is known, and there was no end of reads.
Known ==
  /\ \A h \in held : h[1] \in Text /\ IsTable(h[2])
  /\ \A tree \in trees : IsTree(tree)
  /\ IsFiniteSet(reads)

IInv ==
  Typed /\ Known /\ DevicesScanned /\ ReadsSound /\ InventoryMade /\ Outcome /\ Discovered

-----------------------------------------------------------------------------
(* The devices of a scan.                                                   *)

LEMMA BusDeviceShape ==
  ASSUME NEW bus \in BusName, NEW id, NEW node
  PROVE  LET d == BusDevice(bus, id, node) IN
         /\ DOMAIN d = {"key", "bus", "name", "modalias", "number", "driver", "properties"}
         /\ d.key = <<bus, id>> /\ d.bus = bus /\ d.properties["sysfs_class"] = {}
         /\ DOMAIN d.properties = PropertyName
  BY DEF BusDevice, PciDevice, UsbDevice, I2cDevice, AcpiDevice, SimpleDevice, HardwareDevice,
         PropertyName, BusName, SimpleBus
LEMMA ClassDeviceShape ==
  ASSUME NEW class, NEW id, NEW node
  PROVE  LET d == ClassDevice(class, id, node) IN
         /\ DOMAIN d = {"key", "bus", "name", "modalias", "number", "driver", "properties"}
         /\ d.key = <<"class", class, id>>
         /\ DOMAIN d.properties = PropertyName
  BY DEF ClassDevice, HardwareDevice, PropertyName

\* In one tree a key is one device.
LEMMA BusKeys ==
  ASSUME NEW tree, NEW bus \in BusName
  PROVE  /\ \A d \in ScanBusDirectory(tree, bus) :
              d.key[1] = bus /\ d.key = <<bus, d.key[2]>> /\ d.bus = bus
         /\ \A d, e \in ScanBusDirectory(tree, bus) : d.key = e.key => d = e
  <1>1. \A d \in ScanBusDirectory(tree, bus) :
          \E id : d = BusDevice(bus, id, tree.bus[bus][id])
    BY DEF ScanBusDirectory
  <1>2. \A id : BusDevice(bus, id, tree.bus[bus][id]).key = <<bus, id>>
                /\ BusDevice(bus, id, tree.bus[bus][id]).bus = bus
    BY BusDeviceShape
  <1>3. ASSUME NEW d \in ScanBusDirectory(tree, bus)
        PROVE  /\ d.key[1] = bus /\ d.key = <<bus, d.key[2]>> /\ d.bus = bus
               /\ d = BusDevice(bus, d.key[2], tree.bus[bus][d.key[2]])
    <2>1. PICK id : d = BusDevice(bus, id, tree.bus[bus][id])
      BY <1>1
    <2>2. d.key = <<bus, id>> /\ d.bus = bus
      BY <1>2, <2>1
    <2>3. d.key[2] = id /\ d.key[1] = bus
      BY <2>2
    <2> QED BY <2>1, <2>2, <2>3
  <1> QED BY <1>3

LEMMA ClassKeys ==
  ASSUME NEW tree, NEW class \in ClassName
  PROVE  /\ \A d \in ScanClassDirectory(tree, class) : d.key[1] = "class" /\ d.key[2] = class
         /\ \A d, e \in ScanClassDirectory(tree, class) : d.key = e.key => d = e
  <1>1. \A d \in ScanClassDirectory(tree, class) :
          \E id : d = ClassDevice(class, id, tree.class[class][id])
    BY DEF ScanClassDirectory
  <1>2. \A id : ClassDevice(class, id, tree.class[class][id]).key = <<"class", class, id>>
    BY ClassDeviceShape
  <1>3. ASSUME NEW d \in ScanClassDirectory(tree, class)
        PROVE  /\ d.key[1] = "class" /\ d.key[2] = class
               /\ d = ClassDevice(class, d.key[3], tree.class[class][d.key[3]])
    <2>1. PICK id : d = ClassDevice(class, id, tree.class[class][id])
      BY <1>1
    <2>2. d.key = <<"class", class, id>>
      BY <1>2, <2>1
    <2>3. d.key[3] = id /\ d.key[2] = class /\ d.key[1] = "class"
      BY <2>2
    <2> QED BY <2>1, <2>2, <2>3
  <1> QED BY <1>3

LEMMA NoBusIsClass == "class" \notin BusName
  BY DEF BusName, SimpleBus

\* No two devices have one key.
LEMMA KeysIdentify ==
  ASSUME DevicesScanned, NEW d \in devices, NEW e \in devices, d.key = e.key
  PROVE  d = e
  <1>1. CASE d.key[1] \in BusName
    <2> DEFINE bus == d.key[1]
    <2>1. d \in OfBus(bus) /\ e \in OfBus(bus)
      BY DEF OfBus
    <2>2. PICK tree \in trees :
            OfBus(bus) = IF <<"bus", bus>> \in done THEN ScanBusDirectory(tree, bus) ELSE {}
      BY <1>1 DEF DevicesScanned
    <2>3. d \in ScanBusDirectory(tree, bus) /\ e \in ScanBusDirectory(tree, bus)
      BY <2>1, <2>2
    <2> QED BY <1>1, <2>3, BusKeys
  <1>2. CASE d.key[1] = "class" /\ d.key[2] \in ClassName
    <2> DEFINE class == d.key[2]
    <2>1. d \in OfClass(class) /\ e \in OfClass(class)
      BY <1>2 DEF OfClass
    <2>2. PICK tree \in trees :
            OfClass(class) = IF <<"class", class>> \in done THEN ScanClassDirectory(tree, class) ELSE {}
      BY <1>2 DEF DevicesScanned
    <2>3. d \in ScanClassDirectory(tree, class) /\ e \in ScanClassDirectory(tree, class)
      BY <2>1, <2>2
    <2> QED BY <1>2, <2>3, ClassKeys
  <1> QED BY <1>1, <1>2 DEF DevicesScanned

\* The annotations leave alone what a requirement looks at.
Plain(d) ==
  /\ DOMAIN d = {"key", "bus", "name", "modalias", "number", "driver", "properties"}
  /\ DOMAIN d.properties = PropertyName
SameFunction(d, e) ==
  /\ e.key = d.key /\ e.bus = d.bus /\ e.name = d.name /\ e.modalias = d.modalias
  /\ e.number = d.number /\ e.driver = d.driver
  /\ \A p \in {"sysfs_class", "interface", "firmware", "wireless", "partition", "virtual",
               "net_interfaces"} : e.properties[p] = d.properties[p]
LEMMA AnnotateKeeps ==
  ASSUME NEW d, Plain(d), NEW rs, NEW fs, NEW with
  PROVE  SameFunction(d, Annotate(d, rs, fs, with))
  BY DEF Plain, SameFunction, Annotate, PropertyName
LEMMA SameCapabilities ==
  ASSUME NEW d, NEW e, SameFunction(d, e)
  PROVE  DeviceCapabilities(e) = DeviceCapabilities(d)
  <1>1. ByCode(e) = ByCode(d)
    BY DEF SameFunction, ByCode
  <1>2. ByName(e) = ByName(d)
    BY DEF SameFunction, ByName
  <1>3. HasWireless(e) = HasWireless(d)
    BY DEF SameFunction, HasWireless
  <1>4. WirelessPci(e) = WirelessPci(d)
    BY <1>1 DEF SameFunction, WirelessPci
  <1>5. /\ e.bus = d.bus /\ e.properties["sysfs_class"] = d.properties["sysfs_class"]
        /\ e.properties["net_interfaces"] = d.properties["net_interfaces"]
        /\ e.properties["firmware"] = d.properties["firmware"]
    BY DEF SameFunction
  <1> QED BY <1>1, <1>2, <1>3, <1>4, <1>5, Zenon DEF DeviceCapabilities
LEMMA ScannedIsPlain ==
  ASSUME DevicesScanned, NEW d \in devices
  PROVE  Plain(d)
  <1>1. CASE d.key[1] \in BusName
    <2>1. PICK tree \in trees : d \in ScanBusDirectory(tree, d.key[1])
      BY <1>1 DEF DevicesScanned, OfBus
    <2>2. \E id : d = BusDevice(d.key[1], id, tree.bus[d.key[1]][id])
      BY <2>1 DEF ScanBusDirectory
    <2> QED BY <1>1, <2>2, BusDeviceShape DEF Plain
  <1>2. CASE d.key[1] = "class" /\ d.key[2] \in ClassName
    <2>1. PICK tree \in trees : d \in ScanClassDirectory(tree, d.key[2])
      BY <1>2 DEF DevicesScanned, OfClass
    <2>2. \E id : d = ClassDevice(d.key[2], id, tree.class[d.key[2]][id])
      BY <2>1 DEF ScanClassDirectory
    <2> QED BY <2>2, ClassDeviceShape DEF Plain
  <1> QED BY <1>1, <1>2 DEF DevicesScanned
-----------------------------------------------------------------------------
LEMMA InitInv == Init => IInv
  <1> SUFFICES ASSUME Init PROVE IInv
    OBVIOUS
  <1>1. /\ pc = "options" /\ result = "none" /\ output = Nothing /\ inventory = Empty
        /\ done = {} /\ devices = {} /\ reads = {} /\ found = {}
        /\ trees = {sysfs} /\ changes = 0 /\ held = {<<t, tables[t]>> : t \in DOMAIN tables}
    BY DEF Init
  <1>2. PICK w \in Worlds : options = w.options
    BY DEF Init
  <1>3. Typed
    BY <1>1, <1>2, ScanAssumption DEF Typed, OptionNames
  <1>4. DevicesScanned
    BY <1>1 DEF DevicesScanned, OfBus, OfClass
  <1>5. ReadsSound
    BY <1>1 DEF ReadsSound
  <1>6. InventoryMade
    BY <1>1 DEF InventoryMade, Finished, Complete
  <1>7. Outcome
    BY <1>1 DEF Outcome, ReportReachesInstaller
  <1>8. Discovered
    BY <1>1 DEF Discovered, DefaultScanSucceeds
  <1>9. Known
    <2>1. PICK v \in Worlds : sysfs = v.sysfs /\ tables = v.tables
      BY DEF Init
    <2>2. IsTree(sysfs) /\ \A t \in DOMAIN tables : t \in Text /\ IsTable(tables[t])
      BY <2>1, MachineAssumption
    <2> QED BY <1>1, <2>2, FS_EmptySet DEF Known
  <1> QED BY <1>3, <1>4, <1>5, <1>6, <1>7, <1>8, <1>9 DEF IInv

\* What the operations of the scan have in common.
ScanStep ==
  \/ \E bus \in BusName : ScanBus(bus)
  \/ \E class \in ClassName : ScanClass(class)
  \/ \E use \in TablePhase, table \in Tables : ReadTable(use, table)
  \/ ResolveFirmware
  \/ \E root \in options.roots : CheckRoot(root)
Environment == Rebind \/ EditTable \/ EditRoot
LastStep == OpenOutput \/ WriteOutput \/ Verdict \/ Kill

LEMMA NextCases ==
  ASSUME [Next]_vars
  PROVE  Discover \/ ScanStep \/ Finish \/ LastStep \/ Environment \/ UNCHANGED vars
  BY DEF Next, Command, ScanStep, Environment, LastStep

LEMMA ScanStepFacts ==
  ASSUME ScanStep
  PROVE  /\ pc = "scan"
         /\ UNCHANGED <<machine, output, options, inventory, history>>
         /\ \/ pc' = pc /\ result' = result
            \/ pc' = "idle" /\ result' \in {"io", "table", "root"}
  BY DEF ScanStep, ScanBus, ScanClass, ReadTable, ResolveFirmware, CheckRoot, IsNext, Over, Fail

LEMMA LastStepFacts ==
  ASSUME LastStep
  PROVE  UNCHANGED <<machine, locals, history>>
  BY DEF LastStep, OpenOutput, WriteOutput, Verdict, Kill

LEMMA EnvironmentFacts ==
  ASSUME Environment
  PROVE  /\ pc # "idle" /\ changes' = changes + 1 /\ changes < MaxChanges
         /\ UNCHANGED <<output, pc, locals, result>>
         /\ trees \subseteq trees' /\ held \subseteq held'
  BY DEF Environment, Rebind, EditTable, EditRoot, Changes

-----------------------------------------------------------------------------
(* The parts of the invariant, one by one.                                  *)

LEMMA TypedStep == Typed /\ [Next]_vars => Typed'
  <1> SUFFICES ASSUME Typed, [Next]_vars PROVE Typed'
    OBVIOUS
  <1>1. CASE Discover
    BY <1>1 DEF Discover, Typed, machine, history, OptionNames
  <1>2. CASE ScanStep
    BY <1>2, ScanStepFacts DEF Typed, machine, history
  <1>3. CASE Finish
    BY <1>3 DEF Finish, Fail, Typed, machine, history
  <1>4. CASE LastStep
    <2>1. /\ pc' \in {"open", "write", "verdict", "idle"}
          /\ result' \in {result, "ok", "io", "unresolved", "killed"}
      BY <1>4 DEF LastStep, OpenOutput, WriteOutput, Verdict, Kill, Fail
    <2> QED BY <1>4, <2>1, LastStepFacts DEF Typed, machine, history, locals
  <1>5. CASE Environment
    <2>1. changes' \in 0 .. MaxChanges
      BY <1>5, EnvironmentFacts, ScanAssumption DEF Typed
    <2>2. sysfs' \in trees'
      BY <1>5 DEF Environment, Rebind, EditTable, EditRoot, Typed
    <2>3. \A t \in DOMAIN tables' : <<t, tables'[t]>> \in held'
      BY <1>5 DEF Environment, Rebind, EditTable, EditRoot, Typed
    <2> QED BY <1>5, <2>1, <2>2, <2>3, EnvironmentFacts DEF Typed, locals
  <1>6. CASE UNCHANGED vars
    BY <1>6 DEF vars, Typed, machine, history, locals
  <1> QED BY <1>1, <1>2, <1>3, <1>4, <1>5, <1>6, NextCases

LEMMA KnownStep == Typed /\ Known /\ [Next]_vars => Known'
  <1> SUFFICES ASSUME Typed, Known, [Next]_vars PROVE Known'
    OBVIOUS
  <1>1. CASE \E use \in TablePhase, table \in Tables : ReadTable(use, table)
    <2>1. PICK use \in TablePhase, table \in Tables : ReadTable(use, table)
      BY <1>1
    <2>2. reads' = reads \/ reads' = reads \cup {<<use, table, tables[table]>>}
      BY <2>1 DEF ReadTable
    <2>3. IsFiniteSet(reads')
      BY <2>2, FS_AddElement DEF Known
    <2> QED BY <2>1, <2>3 DEF ReadTable, Known, history
  <1>2. CASE Rebind
    <2>1. IsTree(sysfs') /\ trees' = trees \cup {sysfs'}
      BY <1>2, MachineAssumption DEF Rebind
    <2> QED BY <1>2, <2>1 DEF Rebind, Known, locals
  <1>3. CASE EditTable
    <2>1. PICK e \in TableEdits : e[1] \in DOMAIN tables /\ held' = held \cup {<<e[1], e[3]>>}
      BY <1>3 DEF EditTable
    <2>2. e[1] \in Text /\ IsTable(e[3])
      <3>1. <<e[1], tables[e[1]]>> \in held
        BY <2>1 DEF Typed
      <3> QED BY <3>1, MachineAssumption DEF Known
    <2> QED BY <1>3, <2>1, <2>2 DEF EditTable, Known, locals
  <1>4. CASE UNCHANGED <<trees, held, reads>>
    BY <1>4 DEF Known
  <1>5. \/ \E use \in TablePhase, table \in Tables : ReadTable(use, table)
        \/ Rebind \/ EditTable \/ UNCHANGED <<trees, held, reads>>
    <2>1. CASE \/ \E bus \in BusName : ScanBus(bus)
               \/ \E class \in ClassName : ScanClass(class)
               \/ \E root \in options.roots : CheckRoot(root)
      BY <2>1 DEF ScanBus, ScanClass, CheckRoot, history
    <2>2. CASE Discover \/ ResolveFirmware \/ Finish
      BY <2>2 DEF Discover, ResolveFirmware, Finish, history
    <2>3. CASE LastStep \/ EditRoot \/ UNCHANGED vars
      BY <2>3, LastStepFacts DEF EditRoot, history, locals, vars
    <2> QED BY <2>1, <2>2, <2>3, NextCases DEF ScanStep, Environment
  <1> QED BY <1>1, <1>2, <1>3, <1>4, <1>5

LEMMA DevicesFrame ==
  ASSUME DevicesScanned, devices' = devices, trees \subseteq trees',
         \A a : <<"bus", a>> \in done' <=> <<"bus", a>> \in done,
         \A a : <<"class", a>> \in done' <=> <<"class", a>> \in done
  PROVE  DevicesScanned'
  <1>1. ASSUME NEW bus \in BusName
        PROVE  \E tree \in trees' :
                 OfBus(bus)' = IF <<"bus", bus>> \in done' THEN ScanBusDirectory(tree, bus) ELSE {}
    BY DEF DevicesScanned, OfBus
  <1>2. ASSUME NEW class \in ClassName
        PROVE  \E tree \in trees' :
                 OfClass(class)' =
                   IF <<"class", class>> \in done' THEN ScanClassDirectory(tree, class) ELSE {}
    BY DEF DevicesScanned, OfClass
  <1> QED BY <1>1, <1>2 DEF DevicesScanned

LEMMA ScanBusStep ==
  ASSUME Typed, DevicesScanned, NEW bus \in BusName, ScanBus(bus)
  PROVE  DevicesScanned'
  <1>1. trees' = trees /\ sysfs \in trees /\ <<"bus", bus>> \notin done
    BY DEF ScanBus, history, Typed, IsNext, Remaining
  <1>2. CASE done' = done /\ devices' = devices
    BY <1>1, <1>2, DevicesFrame
  <1>3. CASE /\ done' = done \cup {<<"bus", bus>>}
             /\ devices' = devices \cup ScanBusDirectory(sysfs, bus)
    <2>1. \A d \in ScanBusDirectory(sysfs, bus) : d.key[1] = bus
      BY BusKeys
    <2>2. ASSUME NEW b \in BusName
          PROVE  \E tree \in trees' :
                   OfBus(b)' = IF <<"bus", b>> \in done' THEN ScanBusDirectory(tree, b) ELSE {}
      <3>1. CASE b = bus
        <4>1. OfBus(bus) = {}
          BY <1>1 DEF DevicesScanned
        <4>2. OfBus(bus)' = ScanBusDirectory(sysfs, bus)
          BY <1>3, <2>1, <4>1 DEF OfBus
        <4> QED BY <1>1, <1>3, <3>1, <4>2
      <3>2. CASE b # bus
        <4>1. OfBus(b)' = OfBus(b)
          BY <1>3, <2>1, <3>2 DEF OfBus
        <4>2. <<"bus", b>> \in done' <=> <<"bus", b>> \in done
          BY <1>3, <3>2
        <4> QED BY <1>1, <4>1, <4>2 DEF DevicesScanned
      <3> QED BY <3>1, <3>2
    <2>3. ASSUME NEW class \in ClassName
          PROVE  \E tree \in trees' :
                   OfClass(class)' =
                     IF <<"class", class>> \in done' THEN ScanClassDirectory(tree, class) ELSE {}
      <3>1. OfClass(class)' = OfClass(class)
        BY <1>3, <2>1, NoBusIsClass DEF OfClass
      <3>2. <<"class", class>> \in done' <=> <<"class", class>> \in done
        BY <1>3
      <3> QED BY <1>1, <3>1, <3>2 DEF DevicesScanned
    <2> QED BY <1>3, <2>1, <2>2, <2>3 DEF DevicesScanned
  <1> QED BY <1>2, <1>3 DEF ScanBus, Over

LEMMA ScanClassStep ==
  ASSUME Typed, DevicesScanned, NEW class \in ClassName, ScanClass(class)
  PROVE  DevicesScanned'
  <1>1. trees' = trees /\ sysfs \in trees /\ <<"class", class>> \notin done
    BY DEF ScanClass, history, Typed, IsNext, Remaining
  <1>2. CASE done' = done /\ devices' = devices
    BY <1>1, <1>2, DevicesFrame
  <1>3. CASE /\ done' = done \cup {<<"class", class>>}
             /\ devices' = devices \cup ScanClassDirectory(sysfs, class)
    <2>1. \A d \in ScanClassDirectory(sysfs, class) : d.key[1] = "class" /\ d.key[2] = class
      BY ClassKeys
    <2>2. ASSUME NEW b \in BusName
          PROVE  \E tree \in trees' :
                   OfBus(b)' = IF <<"bus", b>> \in done' THEN ScanBusDirectory(tree, b) ELSE {}
      <3>1. OfBus(b)' = OfBus(b)
        BY <1>3, <2>1, NoBusIsClass DEF OfBus
      <3>2. <<"bus", b>> \in done' <=> <<"bus", b>> \in done
        BY <1>3
      <3> QED BY <1>1, <3>1, <3>2 DEF DevicesScanned
    <2>3. ASSUME NEW c \in ClassName
          PROVE  \E tree \in trees' :
                   OfClass(c)' =
                     IF <<"class", c>> \in done' THEN ScanClassDirectory(tree, c) ELSE {}
      <3>1. CASE c = class
        <4>1. OfClass(class) = {}
          BY <1>1 DEF DevicesScanned
        <4>2. OfClass(class)' = ScanClassDirectory(sysfs, class)
          BY <1>3, <2>1, <4>1 DEF OfClass
        <4> QED BY <1>1, <1>3, <3>1, <4>2
      <3>2. CASE c # class
        <4>1. OfClass(c)' = OfClass(c)
          BY <1>3, <2>1, <3>2 DEF OfClass
        <4>2. <<"class", c>> \in done' <=> <<"class", c>> \in done
          BY <1>3, <3>2
        <4> QED BY <1>1, <4>1, <4>2 DEF DevicesScanned
      <3> QED BY <3>1, <3>2
    <2> QED BY <1>3, <2>1, <2>2, <2>3 DEF DevicesScanned
  <1> QED BY <1>2, <1>3 DEF ScanClass, Over

LEMMA DevicesStep == Typed /\ DevicesScanned /\ [Next]_vars => DevicesScanned'
  <1> SUFFICES ASSUME Typed, DevicesScanned, [Next]_vars PROVE DevicesScanned'
    OBVIOUS
  <1>1. CASE \E bus \in BusName : ScanBus(bus)
    BY <1>1, ScanBusStep
  <1>2. CASE \E class \in ClassName : ScanClass(class)
    BY <1>2, ScanClassStep
  <1>3. CASE \/ \E use \in TablePhase, table \in Tables : ReadTable(use, table)
             \/ ResolveFirmware
             \/ \E root \in options.roots : CheckRoot(root)
    <2>1. trees' = trees /\ devices' = devices
      BY <1>3 DEF ReadTable, ResolveFirmware, CheckRoot, history
    <2>2. \/ done' = done
          \/ \E use \in TablePhase : \E table : done' = done \cup {<<use, table>>}
          \/ done' = done \cup {<<"resolve", "all">>}
          \/ \E root : done' = done \cup {<<"root", root>>}
      BY <1>3 DEF ReadTable, ResolveFirmware, CheckRoot, Over
    <2>3. /\ \A a : <<"bus", a>> \in done' <=> <<"bus", a>> \in done
          /\ \A a : <<"class", a>> \in done' <=> <<"class", a>> \in done
      BY <2>2 DEF TablePhase
    <2> QED BY <2>1, <2>3, DevicesFrame
  <1>4. CASE Discover \/ Finish \/ LastStep \/ Environment \/ UNCHANGED vars
    <2>1. trees \subseteq trees' /\ devices' = devices /\ done' = done
      BY <1>4, LastStepFacts, EnvironmentFacts DEF Discover, Finish, vars, locals, history
    <2> QED BY <2>1, DevicesFrame
  <1> QED BY <1>1, <1>2, <1>3, <1>4, NextCases DEF ScanStep
LEMMA ReadsFrame ==
  ASSUME ReadsSound, reads' = reads, options' = options, found' = found, done' = done,
         roots' = roots, held \subseteq held', pc' # "options" \/ pc = "options"
  PROVE  ReadsSound'
  <1>1. \A phase : Arguments(phase)' = Arguments(phase)
    BY DEF Arguments
  <1> QED BY <1>1 DEF ReadsSound

LEMMA ReadsStep == Typed /\ ReadsSound /\ [Next]_vars => ReadsSound'
  <1> SUFFICES ASSUME Typed, ReadsSound, [Next]_vars PROVE ReadsSound'
    OBVIOUS
  <1> DEFINE Same == \A phase : Arguments(phase)' = Arguments(phase)
  <1>1. CASE Discover
    <2>1. done' = {} /\ reads' = {} /\ found' = {}
      BY <1>1 DEF Discover, ReadsSound
    <2> QED BY <2>1 DEF ReadsSound
  <1>2. CASE ScanStep
    <2>1. /\ options' = options /\ roots' = roots /\ held' = held /\ pc' # "options"
      BY <1>2, ScanStepFacts DEF machine, history
    <2>2. Same
      BY <2>1 DEF Arguments
    <2>3. CASE \/ \E bus \in BusName : ScanBus(bus)
               \/ \E class \in ClassName : ScanClass(class)
               \/ \E root \in options.roots : CheckRoot(root)
      <3>1. reads' = reads /\ found' = found
        BY <2>3 DEF ScanBus, ScanClass, CheckRoot
      <3>2. \A use \in TablePhase : \A t : <<use, t>> \in done' => <<use, t>> \in done
        <4>1. \/ done' = done
              \/ \E bus : done' = done \cup {<<"bus", bus>>}
              \/ \E class : done' = done \cup {<<"class", class>>}
              \/ \E root : done' = done \cup {<<"root", root>>}
          BY <2>3 DEF ScanBus, ScanClass, CheckRoot, Over
        <4>2. \A use \in TablePhase : use \notin {"bus", "class", "root"}
          BY DEF TablePhase
        <4> QED BY <4>1, <4>2
      <3> QED BY <2>1, <2>2, <3>1, <3>2 DEF ReadsSound
    <2>4. ASSUME NEW use \in TablePhase, NEW table \in Tables, ReadTable(use, table)
          PROVE  ReadsSound'
      <3>1. found' = found /\ table \in Arguments(use)
        BY <2>4 DEF ReadTable, IsNext, Remaining
      <3>2. CASE done' = done /\ reads' = reads
        BY <2>1, <2>2, <3>1, <3>2 DEF ReadsSound
      <3>3. CASE /\ IsReadable(table) /\ done' = done \cup {<<use, table>>}
                 /\ reads' = reads \cup {<<use, table, tables[table]>>}
        <4> DEFINE new == <<use, table, tables[table]>>
        <4>1. /\ new[1] \in TablePhase /\ new[2] \in Arguments(new[1])
              /\ <<new[2], new[3]>> \in held /\ new[3] \notin {Link, Oversize}
              /\ new[1] = use /\ new[2] = table
          BY <3>1, <3>3 DEF IsReadable, Typed
        <4> HIDE DEF new
        <4>2. reads' = reads \cup {new}
          BY <3>3 DEF new
        <4>3. \A u \in TablePhase : \A t :
                <<u, t>> \in done' => <<u, t>> \in done \/ (u = use /\ t = table)
          BY <3>3
        <4>4. \A r \in reads' :
                /\ r[1] \in TablePhase /\ r[2] \in Arguments(r[1])'
                /\ <<r[2], r[3]>> \in held' /\ r[3] \notin {Link, Oversize}
          BY <2>1, <2>2, <4>1, <4>2 DEF ReadsSound
        <4>5. \A u \in TablePhase : \A t :
                <<u, t>> \in done' => \E r \in reads' : r[1] = u /\ r[2] = t
          BY <4>1, <4>2, <4>3 DEF ReadsSound
        <4> QED BY <2>1, <3>1, <4>4, <4>5 DEF ReadsSound
      <3> QED BY <2>4, <3>2, <3>3 DEF ReadTable, Over
    <2>5. CASE ResolveFirmware
      <3>1. reads' = reads
        BY <2>5 DEF ResolveFirmware
      <3>2. \A use \in TablePhase : \A t : <<use, t>> \in done' => <<use, t>> \in done
        BY <2>5 DEF ResolveFirmware, Over, TablePhase
      <3>3. \A x \in found' : \E r \in options.roots : r \in DOMAIN roots /\ x[2] = roots[r].at
        <4>1. CASE found' = found
          BY <4>1 DEF ReadsSound
        <4>2. ASSUME NEW names, found' = FirmwareFiles(GivenRoots, names), NEW x \in found'
              PROVE  \E r \in options.roots : r \in DOMAIN roots /\ x[2] = roots[r].at
          <5>1. PICK root \in GivenRoots :
                  \E e \in DOMAIN root.files :
                    /\ Inside(root, root.files[e])
                    /\ x = <<e[1], root.files[e][1], root.files[e][2], root.files[e][3]>>
            BY <4>2 DEF FirmwareFiles
          <5>2. x[2] = root.at
            BY <5>1 DEF Inside
          <5> QED BY <5>2 DEF GivenRoots
        <4> QED BY <2>5, <4>1, <4>2 DEF ResolveFirmware
      <3> QED BY <2>1, <2>2, <3>1, <3>2, <3>3 DEF ReadsSound
    <2> QED BY <1>2, <2>3, <2>4, <2>5 DEF ScanStep
  <1>3. CASE Finish \/ LastStep \/ UNCHANGED vars
    <2>1. UNCHANGED <<reads, options, found, done, roots, held>>
      BY <1>3, LastStepFacts DEF Finish, vars, locals, machine, history
    <2>2. pc' # "options" \/ pc = "options"
      BY <1>3 DEF Finish, Fail, LastStep, OpenOutput, WriteOutput, Verdict, Kill, vars
    <2> QED BY <2>1, <2>2, ReadsFrame
  <1>4. CASE Environment
    <2>1. UNCHANGED <<reads, options, found, done, pc>> /\ held \subseteq held'
      BY <1>4, EnvironmentFacts DEF locals
    <2>2. \A r \in DOMAIN roots : r \in DOMAIN roots' /\ roots'[r].at = roots[r].at
      BY <1>4, ScanAssumption DEF Environment, Rebind, EditTable, EditRoot
    <2>3. Same
      BY <2>1 DEF Arguments
    <2> QED BY <2>1, <2>2, <2>3 DEF ReadsSound
  <1> QED BY <1>1, <1>2, <1>3, <1>4, NextCases

LEMMA InventoryStep == Outcome /\ InventoryMade /\ [Next]_vars => InventoryMade'
  <1> SUFFICES ASSUME Outcome, InventoryMade, [Next]_vars PROVE InventoryMade'
    OBVIOUS
  <1>1. CASE Discover
    <2>1. pc' = "scan" /\ result' = "none" /\ inventory' = Empty
      BY <1>1 DEF Discover, Outcome, InventoryMade
    <2> QED BY <2>1 DEF InventoryMade, Finished, Complete
  <1>2. CASE ScanStep
    <2>1. /\ inventory' = Empty /\ pc' \in {"scan", "idle"}
          /\ result' \notin {"ok", "unresolved"}
      BY <1>2, ScanStepFacts DEF Outcome, InventoryMade
    <2> QED BY <2>1 DEF InventoryMade, Finished, Complete
  <1>3. CASE Finish
    <2>1. UNCHANGED <<options, done, devices, reads, found>> /\ pc' \notin {"options", "scan"}
      BY <1>3 DEF Finish, Fail
    <2>2. /\ inventory'.devices = {Annotate(d, reads, found, WithFirmware) : d \in devices}
          /\ inventory'.driver_sources = DriverSourceManifest(reads, options.roots)
          /\ \A i \in DOMAIN Phases : Remaining(Phases[i]) = {}
      BY <1>3 DEF Finish
    <2>3. WithFirmware' = WithFirmware
      BY <2>1 DEF WithFirmware
    <2>4. \A i \in DOMAIN Phases : Remaining(Phases[i])' = Remaining(Phases[i])
      BY <2>1 DEF Remaining, Arguments, Phases
    <2> QED BY <2>1, <2>2, <2>3, <2>4 DEF InventoryMade, Phases
  <1>4. CASE LastStep \/ Environment \/ UNCHANGED vars
    <2>1. UNCHANGED <<options, done, devices, reads, found, inventory>>
      BY <1>4, LastStepFacts, EnvironmentFacts DEF locals, vars
    <2>2. Finished' => Finished
      BY <1>4, <2>1, EnvironmentFacts
         DEF LastStep, OpenOutput, WriteOutput, Verdict, Kill, Fail, vars, Finished, Complete
    <2>3. pc' \in {"options", "scan"} => pc \in {"options", "scan"}
      BY <1>4, EnvironmentFacts DEF LastStep, OpenOutput, WriteOutput, Verdict, Kill, Fail, vars
    <2>4. WithFirmware' = WithFirmware
      BY <2>1 DEF WithFirmware
    <2>5. \A i \in DOMAIN Phases : Remaining(Phases[i])' = Remaining(Phases[i])
      BY <2>1 DEF Remaining, Arguments, Phases
    <2> QED BY <2>1, <2>2, <2>3, <2>4, <2>5 DEF InventoryMade, Phases
  <1> QED BY <1>1, <1>2, <1>3, <1>4, NextCases

\* Ready is what the report says.
LEMMA ReadyMeans == Report(inventory).report.ready <=> Unresolved = {}
  BY DEF Report, PreflightInventory, Unresolved

LEMMA OutcomeStep == Outcome /\ InventoryMade /\ [Next]_vars => Outcome'
  <1> SUFFICES ASSUME Outcome, InventoryMade, [Next]_vars PROVE Outcome'
    OBVIOUS
  <1>1. CASE Discover
    <2>1. /\ pc = "options" /\ pc' = "scan" /\ result' = "none" /\ output' = Nothing
      BY <1>1 DEF Discover, Outcome
    <2> QED BY <2>1 DEF Outcome, ReportReachesInstaller
  <1>2. CASE ScanStep
    <2>1. /\ output' = Nothing /\ pc' \in {"scan", "idle"}
          /\ \/ pc' = "scan" /\ result' = "none"
             \/ pc' = "idle" /\ result' \in {"io", "table", "root"}
      BY <1>2, ScanStepFacts DEF Outcome
    <2> QED BY <2>1 DEF Outcome, ReportReachesInstaller
  <1>3. CASE Finish
    <2>1. output' = Nothing /\ options' = options
      BY <1>3 DEF Finish, Outcome
    <2>2. \/ /\ options.preflight /\ options.toFile /\ pc' = "open" /\ result' = "none"
          \/ /\ options.preflight /\ ~options.toFile /\ pc' = "verdict" /\ result' = "none"
          \/ ~options.preflight /\ pc' = "idle" /\ result' = "ok"
      BY <1>3 DEF Finish, Fail, Outcome
    <2> QED BY <2>1, <2>2 DEF Outcome, ReportReachesInstaller
  <1>4. CASE LastStep
    <2>1. options' = options /\ inventory' = inventory
      BY <1>4, LastStepFacts DEF locals
    <2>2. Report(inventory)' = Report(inventory) /\ Unresolved' = Unresolved
      BY <2>1 DEF Report, Unresolved
    <2>3. CASE OpenOutput
      <3>1. \/ output' = Partial /\ pc' = "write" /\ result' = "none"
            \/ output' = output /\ pc' = "idle" /\ result' = "io"
        BY <2>3 DEF OpenOutput, Fail, Outcome
      <3>2. pc = "open"
        BY <2>3 DEF OpenOutput
      <3> QED BY <2>1, <2>2, <3>1, <3>2 DEF Outcome, ReportReachesInstaller
    <2>4. CASE WriteOutput
      <3>1. \/ output' = Report(inventory) /\ pc' = "verdict" /\ result' = "none"
            \/ output' = Partial /\ pc' = "idle" /\ result' = "io"
        BY <2>4 DEF WriteOutput, Fail, Outcome, Written
      <3>2. pc = "write"
        BY <2>4 DEF WriteOutput
      <3> QED BY <2>1, <2>2, <3>1, <3>2 DEF Outcome, ReportReachesInstaller
    <2>5. CASE Verdict
      <3>1. /\ pc = "verdict" /\ pc' = "idle" /\ output' = output
            /\ result' = IF Unresolved = {} \/ options.allowUnresolved THEN "ok" ELSE "unresolved"
        BY <2>5, ReadyMeans DEF Verdict, Fail
      <3> QED BY <2>1, <2>2, <3>1 DEF Outcome, ReportReachesInstaller
    <2>6. CASE Kill
      <3>1. pc' = "idle" /\ result' = "killed" /\ output' = output
        BY <2>6 DEF Kill, Fail
      <3> QED BY <2>1, <2>2, <3>1 DEF Outcome, ReportReachesInstaller
    <2> QED BY <1>4, <2>3, <2>4, <2>5, <2>6 DEF LastStep
  <1>5. CASE Environment \/ UNCHANGED vars
    <2>1. UNCHANGED <<output, pc, options, inventory, result>>
      BY <1>5, EnvironmentFacts DEF locals, vars
    <2>2. Report(inventory)' = Report(inventory) /\ Unresolved' = Unresolved
      BY <2>1 DEF Report, Unresolved
    <2> QED BY <2>1, <2>2 DEF Outcome, ReportReachesInstaller
  <1> QED BY <1>1, <1>2, <1>3, <1>4, <1>5, NextCases
\* What the default lists hold stays true while nothing changes.
FoundThere ==
  /\ \A k \in TableKind : \A t \in options.table[k] : IsRegularNonSymlink(t)
  /\ options.roots \subseteq DOMAIN roots

LEMMA DiscoveredFrame ==
  ASSUME Discovered, UNCHANGED <<options, tables, roots, changes>>,
         pc' # "options" /\ result' # "killed" => pc # "options" /\ result # "killed",
         result' \in {"table", "root"} => result' = result
  PROVE  Discovered'
  <1>1. FoundThere' = FoundThere
    BY DEF IsRegularNonSymlink, FoundThere
  <1>2. Tables' = Tables
    BY DEF Tables
  <1> QED BY <1>1, <1>2 DEF Discovered, DefaultScanSucceeds, FoundThere

LEMMA DiscoveredStep == Typed /\ Outcome /\ Discovered /\ [Next]_vars => Discovered'
  <1> SUFFICES ASSUME Typed, Outcome, Discovered, [Next]_vars PROVE Discovered'
    OBVIOUS
  <1>1. CASE Discover
    <2>1. UNCHANGED <<tables, roots, changes>> /\ result' = "none" /\ options'.given = options.given
      BY <1>1 DEF Discover, machine, history, Outcome, Typed, OptionNames
    <2>2. ASSUME options.given = {} PROVE FoundThere'
      <3>1. /\ options'.table = [k \in TableKind |-> {t \in DefaultTables[k] : IsRegularNonSymlink(t)}]
            /\ options'.roots = DefaultRoots \cap DOMAIN roots
        BY <1>1, <2>2 DEF Discover, Typed, OptionNames
      <3> QED BY <2>1, <3>1 DEF FoundThere, IsRegularNonSymlink
    <2> QED BY <2>1, <2>2 DEF Discovered, DefaultScanSucceeds, FoundThere
  <1>2. CASE ScanStep
    <2>1. /\ pc = "scan" /\ result = "none"
          /\ UNCHANGED <<options, tables, roots, changes>>
      BY <1>2, ScanStepFacts DEF machine, history, Outcome
    <2>2. CASE result' \notin {"table", "root"}
      BY <2>1, <2>2, DiscoveredFrame
    <2>3. ASSUME options.given = {}, changes = 0, result' \in {"table", "root"}
          PROVE  \/ \E r \in options.roots : ~roots[r].dir
                 \/ \E t \in Tables : tables[t] = Oversize
      <3>1. FoundThere
        BY <2>1, <2>3 DEF Discovered, FoundThere
      <3>2. CASE \E use \in TablePhase, table \in Tables : ReadTable(use, table)
        <4>1. PICK table \in Tables : ~IsReadable(table)
          BY <2>1, <2>3, <3>2 DEF ReadTable, Over
        <4>2. IsRegularNonSymlink(table)
          BY <3>1 DEF FoundThere, Tables
        <4> QED BY <4>1, <4>2 DEF IsReadable, IsRegularNonSymlink
      <3>3. CASE ResolveFirmware \/ \E root \in options.roots : CheckRoot(root)
        <4>1. \E r \in options.roots : ~(r \in DOMAIN roots /\ roots[r].dir)
          BY <2>1, <2>3, <3>3 DEF ResolveFirmware, CheckRoot, Over, RootsAreDirectories
        <4> QED BY <3>1, <4>1 DEF FoundThere
      <3>4. CASE (\E bus \in BusName : ScanBus(bus)) \/ \E class \in ClassName : ScanClass(class)
        BY <2>1, <2>3, <3>4 DEF ScanBus, ScanClass, Over, Fail
      <3> QED BY <1>2, <3>2, <3>3, <3>4 DEF ScanStep
    <2>4. FoundThere' = FoundThere /\ Tables' = Tables
      BY <2>1 DEF FoundThere, IsRegularNonSymlink, Tables
    <2>5. DefaultScanSucceeds'
      BY <2>1, <2>3, <2>4 DEF DefaultScanSucceeds
    <2> QED BY <2>1, <2>4, <2>5 DEF Discovered, FoundThere
  <1>3. CASE Finish \/ LastStep \/ UNCHANGED vars
    <2>1. UNCHANGED <<options, tables, roots, changes>>
      BY <1>3, LastStepFacts DEF Finish, vars, locals, machine, history
    <2>2. /\ pc' # "options" /\ result' # "killed" => pc # "options" /\ result # "killed"
          /\ result' \in {"table", "root"} => result' = result
      BY <1>3 DEF Finish, Fail, LastStep, OpenOutput, WriteOutput, Verdict, Kill, vars, Outcome
    <2> QED BY <2>1, <2>2, DiscoveredFrame
  <1>4. CASE Environment
    <2>1. changes' # 0
      BY <1>4, EnvironmentFacts DEF Typed
    <2> QED BY <2>1 DEF Discovered, DefaultScanSucceeds
  <1> QED BY <1>1, <1>2, <1>3, <1>4, NextCases

\* The inductive invariant holds of every execution of the command.
THEOREM Invariant == Spec => []IInv
  <1>1. IInv /\ [Next]_vars => IInv'
    BY TypedStep, KnownStep, DevicesStep, ReadsStep, InventoryStep, OutcomeStep, DiscoveredStep DEF IInv
  <1> QED BY <1>1, InitInv, PTL DEF Spec

-----------------------------------------------------------------------------
(* The properties.                                                          *)

\* TypeOK: the state is of its types, and no two scanned devices have one
\* key, so that the dedup_by of the inventory (scan.rs:121) loses none.
THEOREM TypeCorrect == Spec => []TypeOK
  <1>1. ASSUME IInv PROVE TypeOK
    <2>1. \A d, e \in devices : d.key = e.key => d = e
      BY <1>1, KeysIdentify DEF IInv
    <2> QED BY <1>1, <2>1 DEF IInv, Typed, ReadsSound, Outcome, TypeOK
  <1> QED BY <1>1, Invariant, PTL

LEMMA CapabilitiesAreKnown == \A d : DeviceCapabilities(d) \subseteq Capability
  BY DEF DeviceCapabilities, ByCode, ByName, Naming, Capability

\* When the scan is over, what it was to do is done.
LEMMA AllDone ==
  ASSUME InventoryMade, Finished, NEW i \in DOMAIN Phases, NEW a \in Arguments(Phases[i])
  PROVE  <<Phases[i], a>> \in done
  BY DEF InventoryMade, Remaining

LEMMA BusesDone ==
  ASSUME InventoryMade, Finished
  PROVE  \A bus \in BusName : <<"bus", bus>> \in done
  <1>1. 1 \in DOMAIN Phases /\ Phases[1] = "bus"
    BY DEF Phases
  <1>2. Arguments("bus") = BusName
    BY DEF Arguments
  <1> QED BY <1>1, <1>2, AllDone

\* A scanned bus function with a capability and no driver is unresolved.
LEMMA UnboundIsUnresolved ==
  ASSUME DevicesScanned, InventoryMade, Finished, NEW d \in devices,
         d.key[1] \in BusName, DeviceCapabilities(d) # {}, d.driver = {}
  PROVE  Unresolved # {}
  <1> DEFINE a == Annotate(d, reads, found, WithFirmware)
  <1>1. a \in inventory.devices
    BY DEF InventoryMade
  <1>2. SameFunction(d, a)
    BY ScannedIsPlain, AnnotateKeeps
  <1>3. d.properties["sysfs_class"] = {}
    <2>1. PICK tree \in trees : d \in ScanBusDirectory(tree, d.key[1])
      BY DEF DevicesScanned, OfBus
    <2>2. \E id : d = BusDevice(d.key[1], id, tree.bus[d.key[1]][id])
      BY <2>1 DEF ScanBusDirectory
    <2> QED BY <2>2, BusDeviceShape
  <1>4. PICK c \in Capability : c \in DeviceCapabilities(a)
    BY <1>2, SameCapabilities, CapabilitiesAreKnown
  <1>5. a.properties["sysfs_class"] = {} /\ a.driver = {}
    BY <1>2, <1>3 DEF SameFunction
  <1> HIDE DEF a
  <1>6. Requires(a, c)
    BY <1>4, <1>5 DEF Requires, IsRequirementCandidate
  <1>7. a.key \in CapabilityRequirements(inventory.devices)[c].unbound_device_keys
    BY <1>1, <1>5, <1>6 DEF CapabilityRequirements
  <1>8. UnresolvedDevice(c, a) \in Unresolved
    BY <1>1, <1>7 DEF Unresolved, UnresolvedDevices
  <1> QED BY <1>8

\* ReadyIsHonest: a preflight that succeeds has seen a driver on every
\* function that was there all the while, whatever udev does between the
\* directories of the scan.
THEOREM HonestReady == Spec => []ReadyIsHonest
  <1>1. ASSUME IInv PROVE ReadyIsHonest
    <2> SUFFICES ASSUME options.preflight, result = "ok", ~options.allowUnresolved,
                        NEW seen \in Functions(sysfs),
                        \A tree \in trees : \E d \in Functions(tree) : d.key = seen.key
                 PROVE  \E tree \in trees : \E d \in Functions(tree) :
                          d.key = seen.key /\ d.driver # {}
      BY DEF ReadyIsHonest
    <2>1. Finished /\ Unresolved = {}
      BY <1>1 DEF IInv, Outcome, ReportReachesInstaller, Finished
    <2>2. PICK bus \in BusName : seen \in ScanBusDirectory(sysfs, bus)
      BY DEF Functions
    <2>3. seen.key[1] = bus
      BY <2>2, BusKeys
    <2>4. PICK tree \in trees : OfBus(bus) = ScanBusDirectory(tree, bus)
      BY <1>1, <2>1, BusesDone DEF IInv, DevicesScanned
    <2>5. PICK d \in Functions(tree) : d.key = seen.key
      OBVIOUS
    <2>6. DeviceCapabilities(d) # {}
      BY DEF Functions
    <2>7. d \in ScanBusDirectory(tree, bus)
      <3>1. PICK b \in BusName : d \in ScanBusDirectory(tree, b)
        BY DEF Functions
      <3>2. b = bus
        BY <2>3, <2>5, <3>1, BusKeys
      <3> QED BY <3>1, <3>2
    <2>8. d \in devices /\ d.key[1] \in BusName
      BY <2>3, <2>4, <2>5, <2>7 DEF OfBus
    <2>9. d.driver # {}
      BY <1>1, <2>1, <2>6, <2>8, UnboundIsUnresolved DEF IInv
    <2> QED BY <2>5, <2>9
  <1> QED BY <1>1, Invariant, PTL

\* ReportReachesInstaller: a preflight that fails for unresolved devices has
\* written its whole report, and one that succeeds too.
THEOREM ReportDelivered == Spec => []ReportReachesInstaller
  <1>1. IInv => ReportReachesInstaller
    BY DEF IInv, Outcome
  <1> QED BY <1>1, Invariant, PTL

\* DefaultScanSucceeds: a scan with the default tables and roots fails only
\* for a root that is a link, a table that is too long, or a change.
THEOREM DefaultSucceeds == Spec => []DefaultScanSucceeds
  <1>1. IInv => DefaultScanSucceeds
    BY DEF IInv, Discovered
  <1> QED BY <1>1, Invariant, PTL

\* The facts of a use come from what was read for it.
LEMMA FactsComeFromReads ==
  ASSUME NEW rs, NEW f
  PROVE  /\ f \in Aliases(rs) => \E r \in rs : r[1] \in {"alias", "modinfo"} /\ f[3] = r[2]
         /\ f \in Payloads(rs) \cup Dependencies(rs) => \E r \in rs : r[1] = "dep" /\ f[3] = r[2]
         /\ f \in Builtins(rs) => \E r \in rs : r[1] = "builtin" /\ f[3] = r[2]
  BY DEF Aliases, Payloads, Dependencies, Builtins, FactsOf

LEMMA EvidenceComesFromReads ==
  ASSUME NEW d, Plain(d), NEW rs, NEW fs, NEW with, NEW e \in Evidence,
         NEW s \in Annotate(d, rs, fs, with).properties[e[2]]
  PROVE  \E r \in rs : r[1] \in {"alias", "modinfo", "dep", "builtin"} /\ r[2] = s[2]
  <1> DEFINE a == Annotate(d, rs, fs, with)
  <1>1. /\ a.properties["linux_driver_candidate_sources"] =
             Take(MatchingSources(d, rs, Candidates(d, rs)), MaxDriverFiles)
        /\ a.properties["linux_driver_file_sources"] = Sources(Needed(d, rs, Payloads(rs)))
        /\ a.properties["linux_driver_dependency_sources"] =
             Sources(Needed(d, rs, Dependencies(rs)))
        /\ a.properties["linux_driver_builtin_sources"] = Sources(Needed(d, rs, Builtins(rs)))
    BY DEF Annotate, Plain, PropertyName
  <1> HIDE DEF a
  <1>2. ASSUME NEW facts, s \in Sources(Needed(d, rs, facts))
        PROVE  \E f \in facts : s[2] = f[3]
    BY <1>2 DEF Sources, Take, Needed
  <1>3. CASE s \in a.properties["linux_driver_candidate_sources"]
    <2>1. s \in MatchingSources(d, rs, Candidates(d, rs))
      BY <1>1, <1>3 DEF Take
    <2>2. \E f \in Aliases(rs) : s[2] = f[3]
      BY <2>1 DEF MatchingSources, Matching
    <2> QED BY <2>2, FactsComeFromReads
  <1>4. CASE \/ s \in a.properties["linux_driver_file_sources"]
             \/ s \in a.properties["linux_driver_dependency_sources"]
    <2>1. \E f \in Payloads(rs) \cup Dependencies(rs) : s[2] = f[3]
      BY <1>1, <1>2, <1>4
    <2> QED BY <2>1, FactsComeFromReads
  <1>5. CASE s \in a.properties["linux_driver_builtin_sources"]
    <2>1. \E f \in Builtins(rs) : s[2] = f[3]
      BY <1>1, <1>2, <1>5
    <2> QED BY <2>1, FactsComeFromReads
  <1>6. /\ e[2] \in {"linux_driver_candidate_sources", "linux_driver_file_sources",
                     "linux_driver_dependency_sources", "linux_driver_builtin_sources"}
        /\ s \in a.properties[e[2]]
    BY DEF Evidence, a
  <1> QED BY <1>3, <1>4, <1>5, <1>6

\* A table that was read for some use is read once more for its digest.
LEMMA ReadsAreHashed ==
  ASSUME ReadsSound, InventoryMade, Finished, NEW r \in reads,
         r[1] \in {"alias", "modinfo", "dep", "builtin"}
  PROVE  \E m \in inventory.driver_sources : m[2] = r[2] /\ <<m[2], m[3]>> \in held
  <1>1. r[2] \in Arguments(r[1])
    BY DEF ReadsSound
  <1>2. PICK hash \in {"hash-alias", "hash-firmware", "hash-dep", "hash-builtin"} :
          r[2] \in Arguments(hash)
    <2>1. /\ Arguments("alias") = Arguments("hash-alias")
          /\ Arguments("modinfo") \subseteq Arguments("hash-firmware")
          /\ Arguments("dep") = Arguments("hash-dep")
          /\ Arguments("builtin") = Arguments("hash-builtin")
      BY DEF Arguments
    <2> QED BY <1>1, <2>1
  <1>3. \E i \in DOMAIN Phases : Phases[i] = hash
    <2>1. /\ {10, 11, 12, 9} \subseteq DOMAIN Phases /\ Phases[9] = "hash-alias"
          /\ Phases[10] = "hash-firmware" /\ Phases[11] = "hash-dep"
          /\ Phases[12] = "hash-builtin"
      BY DEF Phases
    <2> QED BY <2>1
  <1>4. <<hash, r[2]>> \in done
    BY <1>2, <1>3, AllDone
  <1>5. PICK again \in reads : again[1] = hash /\ again[2] = r[2]
    BY <1>4 DEF ReadsSound, TablePhase
  <1> DEFINE m == <<IF hash = "hash-firmware" THEN "firmware-metadata" ELSE "kernel-metadata",
                    again[2], again[3]>>
  <1>6. m \in inventory.driver_sources
    BY <1>5 DEF InventoryMade, DriverSourceManifest
  <1>7. m[2] = r[2] /\ m[3] = again[3] /\ <<again[2], again[3]>> \in held
    BY <1>5 DEF ReadsSound
  <1> HIDE DEF m
  <1> QED BY <1>5, <1>6, <1>7

\* A device of the inventory is an annotated device of the scan.
LEMMA InventoryOfScan ==
  ASSUME DevicesScanned, InventoryMade, Complete, NEW d \in inventory.devices
  PROVE  \E x \in devices : Plain(x) /\ d = Annotate(x, reads, found, WithFirmware)
  BY ScannedIsPlain DEF InventoryMade, Finished

\* SteadySourceIsHashed: every table that is named as a source of evidence is
\* in the manifest, with the digest of a content it had during the scan.
THEOREM SourcesHashed == Spec => []SteadySourceIsHashed
  <1>1. ASSUME IInv, Complete, NEW d \in inventory.devices, NEW e \in Evidence,
               NEW s \in d.properties[e[2]]
        PROVE  \E m \in inventory.driver_sources : m[2] = s[2] /\ <<m[2], m[3]>> \in held
    <2>1. PICK x \in devices : Plain(x) /\ d = Annotate(x, reads, found, WithFirmware)
      BY <1>1, InventoryOfScan DEF IInv
    <2>2. PICK r \in reads : r[1] \in {"alias", "modinfo", "dep", "builtin"} /\ r[2] = s[2]
      BY <2>1, EvidenceComesFromReads
    <2>3. Finished
      BY <1>1 DEF Finished
    <2> QED BY <1>1, <2>2, <2>3, ReadsAreHashed DEF IInv
  <1>2. IInv => SteadySourceIsHashed
    BY <1>1 DEF SteadySourceIsHashed
  <1> QED BY <1>2, Invariant, PTL

\* A firmware name that a table asks for is a word of one of its lines.
LEMMA RecordsComeFromLines ==
  ASSUME NEW rs, NEW f \in FirmwareRecords(rs)
  PROVE  \E r \in rs : /\ r[1] = "firmware"
                       /\ \E l \in r[3] : CanonicalModuleName(l[1]) = f[1] /\
                                          \E i \in 2 .. Len(l) : l[i] = f[2]
  <1>1. \/ \E r \in rs : \E p \in ParseModulesFirmware(r[3]) :
             r[1] = "firmware" /\ f = <<p[1], p[2], r[2]>>
        \/ \E r \in rs : \E p \in ParseModinfoFirmware(r[3]) :
             r[1] = "firmware" /\ f = <<p[1], p[2], r[2]>>
    BY DEF FirmwareRecords, FactsOf
  <1>2. ASSUME NEW lines, NEW p \in ParseModulesFirmware(lines)
        PROVE  \E l \in lines : CanonicalModuleName(l[1]) = p[1] /\
                                \E i \in 2 .. Len(l) : l[i] = p[2]
    BY DEF ParseModulesFirmware, Rest
  <1>3. ASSUME NEW lines, NEW p \in ParseModinfoFirmware(lines)
        PROVE  \E l \in lines : CanonicalModuleName(l[1]) = p[1] /\
                                \E i \in 2 .. Len(l) : l[i] = p[2]
    <2>1. PICK l \in lines : Len(l) = 3 /\ p = <<CanonicalModuleName(l[1]), l[3]>>
      BY DEF ParseModinfoFirmware, ModinfoField
    <2>2. 3 \in 2 .. Len(l)
      BY <2>1
    <2> QED BY <2>1, <2>2
  <1> QED BY <1>1, <1>2, <1>3

\* What is taken of a set of texts is one of them.
LEMMA TakenIsOne == ASSUME NEW texts, NEW n PROVE TakeTexts(texts, n) \subseteq texts
  <1>1. \A y \in Take({<<t>> : t \in texts}, n) : y \in {<<t>> : t \in texts}
    BY DEF Take
  <1>2. \A y \in {<<t>> : t \in texts} : y[1] \in texts
    OBVIOUS
  <1> QED BY <1>1, <1>2 DEF TakeTexts

\* FirmwareStaysInside: a firmware file of a device lies in a supplied root,
\* and the device or a table it had during the scan asks for it.
THEOREM FirmwareInside == Spec => []FirmwareStaysInside
  <1>1. ASSUME IInv, Complete, NEW d \in inventory.devices,
               NEW f \in d.properties["linux_firmware_files"]
        PROVE  /\ \E r \in options.roots : r \in DOMAIN roots /\ f[2] = roots[r].at
               /\ \/ f[1] \in d.properties["firmware"]
                  \/ \E h \in Contents, x \in d.properties["linux_driver_candidates"] \cup d.driver :
                       /\ h[1] \in options.table["firmware"]
                       /\ \E l \in h[2] : CanonicalModuleName(l[1]) = CanonicalModuleName(x) /\
                                          \E i \in 2 .. Len(l) : l[i] = f[1]
    <2>1. PICK x \in devices : Plain(x) /\ d = Annotate(x, reads, found, WithFirmware)
      BY <1>1, InventoryOfScan DEF IInv
    <2>2. /\ d.driver = x.driver /\ d.properties["firmware"] = x.properties["firmware"]
          /\ d.properties["linux_driver_candidates"] = Candidates(x, reads)
          /\ f \in found /\ f[1] \in FirmwareCandidates(x, reads)
      <3>1. SameFunction(x, d)
        BY <2>1, AnnotateKeeps
      <3>2. d.properties["linux_driver_candidates"] = Candidates(x, reads)
        BY <2>1 DEF Plain, Annotate, PropertyName
      <3>3. d.properties["linux_firmware_files"] =
              Take({y \in found : y[1] \in IF WithFirmware THEN FirmwareCandidates(x, reads) ELSE {}},
                   MaxFirmwareFiles)
        BY <2>1 DEF Plain, Annotate, PropertyName
      <3>4. f \in found /\ f[1] \in FirmwareCandidates(x, reads)
        BY <3>3 DEF Take
      <3> QED BY <3>1, <3>2, <3>4 DEF SameFunction
    <2>3. f[1] \in x.properties["firmware"]
            \cup {y[2] : y \in Needed(x, reads, FirmwareRecords(reads))}
      BY <2>2, TakenIsOne DEF FirmwareCandidates
    <2>4. ASSUME NEW y \in Needed(x, reads, FirmwareRecords(reads)), y[2] = f[1]
          PROVE  \E h \in Contents, z \in Candidates(x, reads) \cup x.driver :
                   /\ h[1] \in options.table["firmware"]
                   /\ \E l \in h[2] : CanonicalModuleName(l[1]) = CanonicalModuleName(z) /\
                                      \E i \in 2 .. Len(l) : l[i] = f[1]
      <3>1. y \in FirmwareRecords(reads) /\ y[1] \in Drivers(x, reads)
        BY DEF Needed
      <3>2. PICK z \in Candidates(x, reads) \cup x.driver : y[1] = CanonicalModuleName(z)
        BY <3>1 DEF Drivers
      <3>3. PICK r \in reads : /\ r[1] = "firmware"
                               /\ \E l \in r[3] : CanonicalModuleName(l[1]) = y[1] /\
                                                  \E i \in 2 .. Len(l) : l[i] = y[2]
        BY <3>1, RecordsComeFromLines
      <3> DEFINE h == <<r[2], r[3]>>
      <3>4. h \in Contents /\ h[1] = r[2] /\ h[2] = r[3]
        BY <1>1 DEF IInv, ReadsSound, Contents
      <3>5. r[2] \in options.table["firmware"]
        BY <1>1, <3>3 DEF IInv, ReadsSound, Arguments
      <3> HIDE DEF h
      <3> QED BY <2>4, <3>2, <3>3, <3>4, <3>5
    <2>5. \E r \in options.roots : r \in DOMAIN roots /\ f[2] = roots[r].at
      BY <1>1, <2>2 DEF IInv, ReadsSound
    <2> QED BY <2>2, <2>3, <2>4, <2>5
  <1>2. IInv => FirmwareStaysInside
    BY <1>1 DEF FirmwareStaysInside
  <1> QED BY <1>2, Invariant, PTL

-----------------------------------------------------------------------------
(* The candidates and the evidence.                                         *)

\* Texts, and pairs of texts, are in order.
Texts == {<<t>> : t \in Text}
LEMMA BeforeText ==
  ASSUME NEW s \in Text, NEW t \in Text
  PROVE  Before(<<s>>, <<t>>) <=> Position[s] < Position[t]
  <1> DEFINE x == <<s>>
             y == <<t>>
  <1>1. DOMAIN x = {1} /\ x[1] = s /\ y[1] = t
    OBVIOUS
  <1> HIDE DEF x, y
  <1>2. \A j \in 1 .. 1 - 1 : FALSE
    OBVIOUS
  <1> QED BY <1>1, <1>2 DEF Before, x, y
LEMMA BeforePair ==
  ASSUME NEW x \in Text \X Text, NEW y \in Text \X Text
  PROVE  Before(x, y) <=> \/ Position[x[1]] < Position[y[1]]
                          \/ x[1] = y[1] /\ Position[x[2]] < Position[y[2]]
  <1>1. DOMAIN x = {1, 2}
    OBVIOUS
  <1>2. 1 .. 1 - 1 = {} /\ 1 .. 2 - 1 = {1}
    OBVIOUS
  <1>3. Before(x, y) <=>
          \E i \in {1, 2} : Position[x[i]] < Position[y[i]] /\ \A j \in 1 .. i - 1 : x[j] = y[j]
    BY <1>1 DEF Before
  <1> QED BY <1>2, <1>3

LEMMA BeforeIsOrder ==
  ASSUME NEW S, S \subseteq Texts \/ S \subseteq Text \X Text, NEW R, R = {p \in S \X S : Before(p[1], p[2])}
  PROVE  IsStrictOrder(R, S)
  <1>1. \A s, t \in Text : /\ Position[s] \in Nat
                           /\ Position[s] = Position[t] => s = t
    BY TextAssumption
  <1>2. \A x, y \in S : <<x, y>> \in R <=> Before(x, y)
    OBVIOUS
  <1>3. CASE S \subseteq Texts
    <2>1. \A x \in S : x[1] \in Text /\ x = <<x[1]>>
      BY <1>3 DEF Texts
    <2>2. \A x, y \in S : <<x, y>> \in R <=> Position[x[1]] < Position[y[1]]
      <3> SUFFICES ASSUME NEW x \in S, NEW y \in S
                   PROVE <<x, y>> \in R <=> Position[x[1]] < Position[y[1]]
        OBVIOUS
      <3>1. Before(<<x[1]>>, <<y[1]>>) <=> Position[x[1]] < Position[y[1]]
        BY <2>1, BeforeText
      <3> QED BY <1>2, <2>1, <3>1
    <2> HIDE DEF Texts
    <2> QED BY <1>1, <2>1, <2>2 DEF IsStrictOrder
  <1>4. CASE S \subseteq Text \X Text
    <2>1. \A x \in S : x[1] \in Text /\ x[2] \in Text /\ x = <<x[1], x[2]>>
      BY <1>4
    <2>2. \A x, y \in S : <<x, y>> \in R <=>
             \/ Position[x[1]] < Position[y[1]]
             \/ x[1] = y[1] /\ Position[x[2]] < Position[y[2]]
      BY <1>2, <1>4, BeforePair
    <2>3. \A x \in S : <<x, x>> \notin R
      BY <1>1, <2>1, <2>2
    <2>4. \A x, y, z \in S : <<x, y>> \in R /\ <<y, z>> \in R => <<x, z>> \in R
      BY <1>1, <2>1, <2>2
    <2>5. ASSUME NEW x \in S, NEW y \in S, x # y
          PROVE  <<x, y>> \in R \/ <<y, x>> \in R
      <3>1. x[1] # y[1] \/ x[2] # y[2]
        <4>1. x = <<x[1], x[2]>> /\ y = <<y[1], y[2]>>
          BY <2>1
        <4> QED BY <2>5, <4>1
      <3>2. Position[x[1]] # Position[y[1]] \/ (x[1] = y[1] /\ Position[x[2]] # Position[y[2]])
        <4>1. x[1] \in Text /\ y[1] \in Text /\ x[2] \in Text /\ y[2] \in Text
          BY <2>1
        <4>2. /\ Position[x[1]] = Position[y[1]] => x[1] = y[1]
              /\ Position[x[2]] = Position[y[2]] => x[2] = y[2]
          BY <1>1, <4>1
        <4> QED BY <3>1, <4>2
      <3>3. /\ Position[x[1]] \in Nat /\ Position[y[1]] \in Nat
            /\ Position[x[2]] \in Nat /\ Position[y[2]] \in Nat
        BY <1>1, <2>1
      <3> QED BY <2>2, <3>2, <3>3
    <2> QED BY <2>3, <2>4, <2>5 DEF IsStrictOrder
  <1> QED BY <1>3, <1>4

\* What Take leaves out comes after what it keeps, and it keeps n.
LEMMA TakenAreFirst ==
  ASSUME NEW S, IsFiniteSet(S), S \subseteq Texts \/ S \subseteq Text \X Text, NEW n \in Nat,
         NEW out \in S \ Take(S, n)
  PROVE  Cardinality(Take(S, n)) = n /\ \A y \in Take(S, n) : Before(y, out)
  <1> DEFINE R == {p \in S \X S : Before(p[1], p[2])}
  <1>1. IsStrictOrder(R, S)
    BY BeforeIsOrder
  <1>2. \A x, y \in S : <<x, y>> \in R <=> Before(x, y)
    OBVIOUS
  <1> HIDE DEF R
  <1>3. \A x \in S : BelowIn(R, S, x) = {y \in S : Before(y, x)}
    BY <1>2 DEF BelowIn
  <1>4. Take(S, n) = {x \in S : Cardinality(BelowIn(R, S, x)) < n}
    BY <1>3 DEF Take
  <1>5. /\ Cardinality(Take(S, n)) = n
        /\ \A y \in Take(S, n) : <<y, out>> \in R
    BY <1>1, <1>4, FirstElements
  <1>6. Take(S, n) \subseteq S
    BY <1>4
  <1> QED BY <1>2, <1>5, <1>6

LEMMA TakenTextsAreFirst ==
  ASSUME NEW S \in SUBSET Text, IsFiniteSet(S), NEW n \in Nat, NEW out \in S \ TakeTexts(S, n)
  PROVE  /\ Cardinality(TakeTexts(S, n)) = n
         /\ \A y \in TakeTexts(S, n) : Position[y] < Position[out]
  <1> DEFINE one == [t \in S |-> <<t>>]
             Ones == {<<t>> : t \in S}
             kept == Take(Ones, n)
  <1>1. IsFiniteSet(Ones)
    <2>1. Ones = {one[t] : t \in S}
      OBVIOUS
    <2> HIDE DEF one, Ones
    <2> QED BY <2>1, FiniteImage
  <1>2. Ones \subseteq Texts /\ \A x \in Ones : x[1] \in S /\ x = <<x[1]>>
    BY DEF Texts
  <1>3. kept \subseteq Ones
    BY DEF Take
  <1>4. <<out>> \in Ones \ kept
    <2>1. <<out>> \in Ones /\ <<out>>[1] = out
      OBVIOUS
    <2> HIDE DEF Ones
    <2> QED BY <2>1 DEF TakeTexts, Ones
  <1>5. TakeTexts(S, n) = {x[1] : x \in kept}
    BY DEF TakeTexts
  <1> HIDE DEF one, Ones
  <1>6. Cardinality(kept) = n /\ \A y \in kept : Before(y, <<out>>)
    BY <1>1, <1>2, <1>4, TakenAreFirst
  <1> HIDE DEF kept
  <1>7. Cardinality(TakeTexts(S, n)) = n
    <2> DEFINE f == [x \in kept |-> x[1]]
    <2>1. f \in Bijection(kept, TakeTexts(S, n))
      <3>1. f \in [kept -> TakeTexts(S, n)]
        BY <1>5
      <3>2. \A x, y \in kept : f[x] = f[y] => x = y
        BY <1>2, <1>3
      <3>3. \A t \in TakeTexts(S, n) : \E x \in kept : f[x] = t
        BY <1>5
      <3> HIDE DEF f, kept
      <3>4. f \in Injection(kept, TakeTexts(S, n))
        BY <3>1, <3>2, Zenon DEF Injection, IsInjective
      <3>5. f \in Surjection(kept, TakeTexts(S, n))
        BY <3>1, <3>3, Zenon DEF Surjection
      <3> QED BY <3>4, <3>5 DEF Bijection
    <2>2. IsFiniteSet(kept)
      BY <1>1, <1>3, FS_Subset
    <2> HIDE DEF f
    <2> QED BY <1>6, <2>1, <2>2, FS_Bijection DEF ExistsBijection
  <1>8. ASSUME NEW y \in TakeTexts(S, n) PROVE Position[y] < Position[out]
    <2>1. PICK x \in kept : y = x[1]
      BY <1>5
    <2>2. x = <<y>> /\ y \in Text
      BY <1>2, <1>3, <2>1
    <2> QED BY <1>6, <2>1, <2>2, BeforeText
  <1> QED BY <1>7, <1>8

LEMMA FirstIsFinite ==
  ASSUME NEW attr, NEW paths, IsFiniteSet(DOMAIN paths)
  PROVE  IsFiniteSet(First(attr, paths))
  <1> DEFINE at == {i \in DOMAIN paths : /\ paths[i] \in DOMAIN attr
                                         /\ \A j \in 1 .. i - 1 : paths[j] \notin DOMAIN attr}
             f == [i \in at |-> attr[paths[i]]]
  <1>1. IsFiniteSet(at)
    BY FS_Subset
  <1>2. First(attr, paths) = {f[i] : i \in at}
    BY DEF First
  <1> HIDE DEF at, f
  <1> QED BY <1>1, <1>2, FiniteImage

LEMMA FirstIsText ==
  ASSUME NEW attr, \A a \in DOMAIN attr : attr[a] \in Text, NEW paths
  PROVE  First(attr, paths) \subseteq Text
  BY DEF First

\* What a scanned device says of itself.
Spoken(d) == d.modalias \subseteq Text /\ IsFiniteSet(d.driver)
LEMMA ScannedIsSpoken ==
  ASSUME Known, DevicesScanned, NEW d \in devices
  PROVE  Spoken(d)
  <1>1. IsFiniteSet(DOMAIN BusDriver) /\ IsFiniteSet(DOMAIN ClassDriver)
    <2>1. DOMAIN BusDriver = 1 .. 2 /\ DOMAIN ClassDriver = 1 .. 6
      BY DEF BusDriver, ClassDriver
    <2>2. IsFiniteSet(1 .. 2) /\ IsFiniteSet(1 .. 6)
      <3>1. 1 \in Int /\ 2 \in Int /\ 6 \in Int
        OBVIOUS
      <3> QED BY <3>1, FS_Interval, Zenon
    <2> QED BY <2>1, <2>2
  <1>2. CASE d.key[1] \in BusName
    <2> DEFINE bus == d.key[1]
    <2>1. PICK tree \in trees : d \in ScanBusDirectory(tree, bus)
      BY <1>2 DEF DevicesScanned, OfBus
    <2>2. PICK id \in DOMAIN tree.bus[bus] : d = BusDevice(bus, id, tree.bus[bus][id])
      BY <2>1 DEF ScanBusDirectory
    <2> DEFINE node == tree.bus[bus][id]
    <2>3. \A a \in DOMAIN node.attr : node.attr[a] \in Text
      BY <1>2, <2>2 DEF Known, IsTree
    <2>4. /\ d.driver = First(node.attr, BusDriver)
          /\ \E paths : d.modalias = First(node.attr, paths)
      <3> HIDE DEF bus, node
      <3>1. d = BusDevice(bus, id, node)
        BY <2>2 DEF node
      <3> QED BY <3>1 DEF BusDevice, PciDevice, UsbDevice, I2cDevice, AcpiDevice, SimpleDevice,
                          HardwareDevice
    <2> HIDE DEF node
    <2> QED BY <1>1, <2>3, <2>4, FirstIsFinite, FirstIsText DEF Spoken
  <1>3. CASE d.key[1] = "class" /\ d.key[2] \in ClassName
    <2> DEFINE class == d.key[2]
    <2>1. PICK tree \in trees : d \in ScanClassDirectory(tree, class)
      BY <1>3 DEF DevicesScanned, OfClass
    <2>2. PICK id \in DOMAIN tree.class[class] : d = ClassDevice(class, id, tree.class[class][id])
      BY <2>1 DEF ScanClassDirectory
    <2> DEFINE node == tree.class[class][id]
    <2>3. \A a \in DOMAIN node.attr : node.attr[a] \in Text
      BY <1>3, <2>2 DEF Known, IsTree
    <2>4. /\ d.driver = First(node.attr, ClassDriver)
          /\ \E paths : d.modalias = First(node.attr, paths)
      <3> HIDE DEF class, node
      <3>1. d = ClassDevice(class, id, node)
        BY <2>2 DEF node
      <3> QED BY <3>1 DEF ClassDevice, HardwareDevice
    <2> HIDE DEF node
    <2> QED BY <1>1, <2>3, <2>4, FirstIsFinite, FirstIsText DEF Spoken
  <1> QED BY <1>2, <1>3 DEF DevicesScanned

-----------------------------------------------------------------------------
\* What was read is of known tables.
LEMMA ReadTables ==
  ASSUME Known, ReadsSound, NEW r \in reads
  PROVE  /\ r[2] \in Text /\ IsFiniteSet(r[3])
         /\ \A l \in r[3] : l \in Seq(Text) /\ l # <<>>
         /\ <<r[2], r[3]>> \in Contents
  <1> DEFINE h == <<r[2], r[3]>>
  <1>1. h \in held /\ h[2] \notin {Link, Oversize} /\ h[1] = r[2] /\ h[2] = r[3]
    BY DEF ReadsSound
  <1> HIDE DEF h
  <1>2. h[1] \in Text /\ IsTable(h[2])
    BY <1>1 DEF Known
  <1>3. h \in Contents
    BY <1>1 DEF Contents
  <1> QED BY <1>1, <1>2, <1>3 DEF IsTable, h

LEMMA WordsAreTexts ==
  ASSUME NEW l \in Seq(Text), NEW i \in 1 .. Len(l)
  PROVE  l[i] \in Text
  OBVIOUS

LEMMA CanonicalIsText == \A t \in Text : CanonicalModuleName(t) \in Text
  BY TextAssumption DEF CanonicalModuleName

\* An alias fact is a line of a table that was read for it.
AliasLine(use, l, pattern, driver) ==
  /\ Len(l) = 3 /\ driver \notin Malformed
  /\ \/ use = "alias"   /\ l[1] = "alias" /\ pattern = l[2] /\ driver = l[3]
     \/ use = "modinfo" /\ l[2] = "alias" /\ pattern = l[3] /\ driver = CanonicalModuleName(l[1])
LEMMA AliasesAreLines ==
  ASSUME NEW rs
  PROVE  /\ \A f \in Aliases(rs) : \E r \in rs : \E l \in r[3] :
              f = <<f[1], f[2], r[2]>> /\ AliasLine(r[1], l, f[1], f[2])
         /\ \A r \in rs : \A l \in r[3] : \A pattern, driver :
              AliasLine(r[1], l, pattern, driver) => <<pattern, driver, r[2]>> \in Aliases(rs)
  <1>1. ASSUME NEW f \in Aliases(rs)
        PROVE  \E r \in rs : \E l \in r[3] :
                 f = <<f[1], f[2], r[2]>> /\ AliasLine(r[1], l, f[1], f[2])
    <2>1. CASE f \in FactsOf(rs, "alias", ParseModulesAlias)
      <3>1. PICK r \in rs : r[1] = "alias" /\ \E p \in ParseModulesAlias(r[3]) : f = <<p[1], p[2], r[2]>>
        BY <2>1 DEF FactsOf
      <3>2. PICK p \in ParseModulesAlias(r[3]) : f = <<p[1], p[2], r[2]>>
        BY <3>1
      <3>3. PICK l \in r[3] : Len(l) = 3 /\ l[1] = "alias" /\ l[3] \notin Malformed /\ p = <<l[2], l[3]>>
        BY DEF ParseModulesAlias
      <3> QED BY <3>1, <3>2, <3>3 DEF AliasLine
    <2>2. CASE f \in FactsOf(rs, "modinfo", ParseModinfoAliases)
      <3>1. PICK r \in rs : r[1] = "modinfo" /\ \E p \in ParseModinfoAliases(r[3]) : f = <<p[1], p[2], r[2]>>
        BY <2>2 DEF FactsOf
      <3>2. PICK p \in ParseModinfoAliases(r[3]) : f = <<p[1], p[2], r[2]>>
        BY <3>1
      <3>3. PICK q \in ModinfoField(r[3], "alias") : q[1] \notin Malformed /\ p = <<q[2], q[1]>>
        BY DEF ParseModinfoAliases
      <3>4. PICK l \in r[3] : Len(l) = 3 /\ l[2] = "alias" /\ q = <<CanonicalModuleName(l[1]), l[3]>>
        BY DEF ModinfoField
      <3> QED BY <3>1, <3>2, <3>3, <3>4 DEF AliasLine
    <2> QED BY <2>1, <2>2 DEF Aliases
  <1>2. ASSUME NEW r \in rs, NEW l \in r[3], NEW pattern, NEW driver,
               AliasLine(r[1], l, pattern, driver)
        PROVE  <<pattern, driver, r[2]>> \in Aliases(rs)
    <2>1. CASE r[1] = "alias"
      <3> DEFINE p == <<pattern, driver>>
      <3>1. p \in ParseModulesAlias(r[3]) /\ p[1] = pattern /\ p[2] = driver
        BY <1>2, <2>1 DEF ParseModulesAlias, AliasLine
      <3> HIDE DEF p
      <3>2. <<p[1], p[2], r[2]>> \in FactsOf(rs, "alias", ParseModulesAlias)
        BY <2>1, <3>1 DEF FactsOf
      <3> QED BY <3>1, <3>2 DEF Aliases
    <2>2. CASE r[1] = "modinfo"
      <3> DEFINE p == <<pattern, driver>>
                 q == <<driver, pattern>>
      <3>1. q \in ModinfoField(r[3], "alias") /\ q[1] = driver /\ q[2] = pattern /\ driver \notin Malformed
        BY <1>2, <2>2 DEF ModinfoField, AliasLine
      <3>2. p = <<q[2], q[1]>> /\ p[1] = pattern /\ p[2] = driver
        OBVIOUS
      <3> HIDE DEF p, q
      <3>3. p \in ParseModinfoAliases(r[3])
        BY <3>1, <3>2 DEF ParseModinfoAliases
      <3>4. <<p[1], p[2], r[2]>> \in FactsOf(rs, "modinfo", ParseModinfoAliases)
        BY <2>2, <3>3 DEF FactsOf
      <3> QED BY <3>2, <3>4 DEF Aliases
    <2> QED BY <1>2, <2>1, <2>2 DEF AliasLine
  <1> QED BY <1>1, <1>2

\* What NamedBy says, line by line.
LEMMA NamedByLines ==
  ASSUME NEW table, NEW content, NEW d, NEW patterns, NEW driver
  PROVE  driver \in NamedBy(table, content, d, patterns) <=>
           \E l \in content : \E use \in {"alias", "modinfo"} : \E pattern \in patterns :
             /\ table \in Arguments(use) /\ AliasLine(use, l, pattern, driver)
             /\ \E m \in d.modalias : ReferenceMatches(Spelling[pattern], Spelling[m])
  <1> DEFINE lines(here) == {l \in content : here /\ Len(l) = 3}
             Claims ==
               {<<l[2], l[3]>> : l \in {l \in lines(table \in options.table["alias"]) : l[1] = "alias"}}
                 \cup {<<l[3], CanonicalModuleName(l[1])>> :
                        l \in {l \in lines(table \in options.table["firmware"] \cap Modinfo) : l[2] = "alias"}}
             Matched(pattern) == \E m \in d.modalias : ReferenceMatches(Spelling[pattern], Spelling[m])
  <1>1. NamedBy(table, content, d, patterns) =
          {c[2] : c \in {c \in Claims : c[1] \in patterns /\ c[2] \notin Malformed /\ Matched(c[1])}}
    BY DEF NamedBy
  <1>2. /\ Arguments("alias") = options.table["alias"]
        /\ Arguments("modinfo") = options.table["firmware"] \cap Modinfo
    BY DEF Arguments
  <1> HIDE DEF Matched
  <1>3. ASSUME NEW c \in Claims, c[2] \notin Malformed
        PROVE  \E l \in content : \E use \in {"alias", "modinfo"} :
                 table \in Arguments(use) /\ AliasLine(use, l, c[1], c[2])
    BY <1>2, <1>3 DEF AliasLine
  <1>4. ASSUME NEW l \in content, NEW use \in {"alias", "modinfo"}, NEW pattern,
               table \in Arguments(use), AliasLine(use, l, pattern, driver)
        PROVE  <<pattern, driver>> \in Claims
    BY <1>2, <1>4 DEF AliasLine
  <1> HIDE DEF Claims
  <1>5. ASSUME driver \in NamedBy(table, content, d, patterns)
        PROVE  \E l \in content : \E use \in {"alias", "modinfo"} : \E pattern \in patterns :
                 table \in Arguments(use) /\ AliasLine(use, l, pattern, driver) /\ Matched(pattern)
    <2>1. PICK c \in Claims : c[1] \in patterns /\ c[2] \notin Malformed /\ Matched(c[1]) /\ driver = c[2]
      BY <1>1, <1>5
    <2> QED BY <1>3, <2>1
  <1>6. ASSUME NEW l \in content, NEW use \in {"alias", "modinfo"}, NEW pattern \in patterns,
               table \in Arguments(use), AliasLine(use, l, pattern, driver), Matched(pattern)
        PROVE  driver \in NamedBy(table, content, d, patterns)
    <2> DEFINE c == <<pattern, driver>>
    <2>1. c \in Claims /\ c[1] = pattern /\ c[2] = driver /\ driver \notin Malformed
      BY <1>4, <1>6 DEF AliasLine
    <2> HIDE DEF c
    <2> QED BY <1>1, <1>6, <2>1
  <1> QED BY <1>5, <1>6 DEF Matched

\* Patterns and modaliases are texts, and glob_matches with its filter
\* decides what the reference does, for patterns with an ASCII prefix, and
\* accepts no more for the others.
LEMMA MatchingMeans ==
  ASSUME Known, ReadsSound, NEW d, d.modalias \subseteq Text, NEW a
  PROVE  /\ a \in Matching(d, reads) =>
              /\ a \in Aliases(reads) /\ a[1] \in Text
              /\ \E m \in d.modalias : ReferenceMatches(Spelling[a[1]], Spelling[m])
         /\ /\ a \in Aliases(reads) /\ a[1] \in AsciiPrefix
            /\ \E m \in d.modalias : ReferenceMatches(Spelling[a[1]], Spelling[m])
            => a \in Matching(d, reads)
  <1>1. ASSUME NEW f \in Aliases(reads)
        PROVE  f[1] \in Text /\ f[2] \in Text /\ f[3] \in Text
    <2>1. PICK r \in reads : \E l \in r[3] : f = <<f[1], f[2], r[2]>> /\ AliasLine(r[1], l, f[1], f[2])
      BY AliasesAreLines
    <2>2. PICK l \in r[3] : f = <<f[1], f[2], r[2]>> /\ AliasLine(r[1], l, f[1], f[2])
      BY <2>1
    <2>3. r[2] \in Text /\ l \in Seq(Text)
      BY ReadTables
    <2>4. Len(l) = 3 => l[1] \in Text /\ l[2] \in Text /\ l[3] \in Text
      <3>1. Len(l) = 3 => 1 \in 1 .. Len(l) /\ 2 \in 1 .. Len(l) /\ 3 \in 1 .. Len(l)
        OBVIOUS
      <3> QED BY <2>3, <3>1, WordsAreTexts
    <2>5. f[3] = r[2]
      BY <2>2
    <2> QED BY <2>2, <2>3, <2>4, <2>5, CanonicalIsText DEF AliasLine
  <1>2. \A s, t \in Text :
          /\ GlobMatches(Spelling[s], Spelling[t]) <=> ReferenceMatches(Spelling[s], Spelling[t])
          /\ ReferenceMatches(Spelling[s], Spelling[t]) /\ s \in AsciiPrefix
               => HasLiteralPrefix(Spelling[s], Spelling[t])
    BY TextAssumption, GlobIsReference, PrefixIsNecessary DEF AsciiPrefix
  <1> QED BY <1>1, <1>2 DEF Matching

\* The drivers of the matching aliases, of which the candidates are the first.
Matched(d) == {a[2] : a \in Matching(d, reads)}
LEMMA MatchedIsText ==
  ASSUME Known, ReadsSound, NEW d
  PROVE  Matched(d) \subseteq Text /\ IsFiniteSet(Matched(d))
  <1> DEFINE read(r) == {l[3] : l \in {l \in r[3] : Len(l) = 3}}
                          \cup {CanonicalModuleName(l[1]) : l \in {l \in r[3] : Len(l) = 3}}
             all == UNION {read(r) : r \in reads}
  <1>1. ASSUME NEW r \in reads
        PROVE  read(r) \subseteq Text /\ IsFiniteSet(read(r))
    <2> DEFINE L == {l \in r[3] : Len(l) = 3}
               f == [l \in L |-> l[3]]
               g == [l \in L |-> CanonicalModuleName(l[1])]
    <2>1. IsFiniteSet(L)
      BY ReadTables, FS_Subset
    <2>2. read(r) = {f[l] : l \in L} \cup {g[l] : l \in L}
      OBVIOUS
    <2>3. \A l \in L : l[1] \in Text /\ l[3] \in Text
      <3> SUFFICES ASSUME NEW l \in L PROVE l[1] \in Text /\ l[3] \in Text
        OBVIOUS
      <3>1. l \in Seq(Text) /\ Len(l) = 3
        BY ReadTables
      <3>2. 1 \in 1 .. Len(l) /\ 3 \in 1 .. Len(l)
        BY <3>1
      <3> QED BY <3>1, <3>2, WordsAreTexts
    <2>4. read(r) \subseteq Text
      BY <2>3, CanonicalIsText
    <2>5. IsFiniteSet({f[l] : l \in L}) /\ IsFiniteSet({g[l] : l \in L})
      <3> HIDE DEF f, g, L
      <3> QED BY <2>1, FiniteImage
    <2>6. IsFiniteSet({f[l] : l \in L} \cup {g[l] : l \in L})
      <3> HIDE DEF f, g, L
      <3> QED BY <2>5, FS_Union
    <2> QED BY <2>2, <2>4, <2>6
  <1> HIDE DEF read
  <1>2. IsFiniteSet(all) /\ all \subseteq Text
    <2> DEFINE h == [r \in reads |-> read(r)]
               H == {h[r] : r \in reads}
    <2>1. IsFiniteSet(H)
      <3> HIDE DEF h
      <3> QED BY FiniteImage DEF Known
    <2>2. \A T \in H : IsFiniteSet(T)
      BY <1>1
    <2>3. UNION H = all
      OBVIOUS
    <2>4. IsFiniteSet(UNION H)
      <3> HIDE DEF H
      <3> QED BY <2>1, <2>2, FS_UNION
    <2> QED BY <1>1, <2>3, <2>4
  <1>3. ASSUME NEW a \in Aliases(reads)
        PROVE  a[2] \in all
    <2>1. PICK r \in reads : \E l \in r[3] : AliasLine(r[1], l, a[1], a[2])
      BY AliasesAreLines
    <2>2. a[2] \in read(r)
      BY <2>1 DEF AliasLine, read
    <2> QED BY <2>2
  <1>4. Matched(d) \in SUBSET all
    <2> HIDE DEF all
    <2> QED BY <1>3 DEF Matched, Matching
  <1> QED BY <1>2, <1>4, FS_Subset

\* A matching alias is one that a content of its table names.
LEMMA MatchingIsNamed ==
  ASSUME Known, ReadsSound, NEW d, d.modalias \subseteq Text, NEW a \in Matching(d, reads)
  PROVE  \E h \in Contents : h[1] = a[3] /\ a[2] \in NamedBy(h[1], h[2], d, Text)
  <1>1. /\ a \in Aliases(reads) /\ a[1] \in Text
        /\ \E m \in d.modalias : ReferenceMatches(Spelling[a[1]], Spelling[m])
    BY MatchingMeans
  <1>2. PICK r \in reads : \E l \in r[3] : a = <<a[1], a[2], r[2]>> /\ AliasLine(r[1], l, a[1], a[2])
    BY <1>1, AliasesAreLines
  <1>3. PICK l \in r[3] : a = <<a[1], a[2], r[2]>> /\ AliasLine(r[1], l, a[1], a[2])
    BY <1>2
  <1>4. r[1] \in {"alias", "modinfo"} /\ r[2] \in Arguments(r[1])
    BY <1>3 DEF AliasLine, ReadsSound
  <1>5. a[2] \in NamedBy(r[2], r[3], d, Text)
    BY <1>1, <1>3, <1>4, NamedByLines
  <1> DEFINE h == <<r[2], r[3]>>
  <1>6. h \in Contents /\ h[1] = r[2] /\ h[2] = r[3] /\ a[3] = r[2]
    BY <1>3, ReadTables
  <1> HIDE DEF h
  <1> QED BY <1>5, <1>6

\* When no table was edited, what is named was read, and it matches unless
\* the filter misreads the pattern.
LEMMA NamedIsMatched ==
  ASSUME Known, ReadsSound, InventoryMade, Finished, NEW d, d.modalias \subseteq Text,
         held = {<<t, tables[t]>> : t \in DOMAIN tables}, NEW driver \in NamedSoFar(d, AsciiPrefix)
  PROVE  driver \in Matched(d)
  <1>1. PICK h \in Contents : driver \in NamedBy(h[1], h[2], d, AsciiPrefix)
    BY DEF NamedSoFar
  <1>2. PICK l \in h[2], use \in {"alias", "modinfo"} :
          \E pattern \in AsciiPrefix :
            /\ h[1] \in Arguments(use) /\ AliasLine(use, l, pattern, driver)
            /\ \E m \in d.modalias : ReferenceMatches(Spelling[pattern], Spelling[m])
    BY <1>1, NamedByLines
  <1>3. PICK pattern \in AsciiPrefix :
            /\ h[1] \in Arguments(use) /\ AliasLine(use, l, pattern, driver)
            /\ \E m \in d.modalias : ReferenceMatches(Spelling[pattern], Spelling[m])
    BY <1>2
  <1>4. <<use, h[1]>> \in done
    <2>1. Phases[3] = "alias" /\ Phases[4] = "modinfo" /\ {3, 4} \subseteq DOMAIN Phases
      BY DEF Phases
    <2> QED BY <1>3, <2>1, AllDone
  <1>5. PICK r \in reads : r[1] = use /\ r[2] = h[1]
    BY <1>4 DEF ReadsSound, TablePhase
  <1>6. r[3] = h[2]
    <2>1. <<r[2], r[3]>> \in held /\ h \in held
      BY DEF ReadsSound, Contents
    <2>2. r[3] = tables[r[2]]
      BY <2>1
    <2>3. h = <<h[1], tables[h[1]]>>
      BY <2>1
    <2> QED BY <1>5, <2>2, <2>3
  <1> DEFINE a == <<pattern, driver, r[2]>>
  <1>7. a \in Aliases(reads)
    BY <1>3, <1>5, <1>6, AliasesAreLines
  <1>8. a[1] = pattern /\ a[2] = driver
    OBVIOUS
  <1> HIDE DEF a
  <1>9. a \in Matching(d, reads)
    BY <1>3, <1>7, <1>8, MatchingMeans
  <1> QED BY <1>8, <1>9 DEF Matched

\* CandidatesAgreeWithReference: the candidates are drivers that a table
\* named, for the reference of the glob; with unedited tables, all drivers
\* named by patterns with ASCII prefixes, or the first MAX_DRIVER_CANDIDATES of them.
THEOREM CandidatesAgree == Spec => []CandidatesAgreeWithReference
  <1>1. ASSUME IInv, Complete, NEW d \in inventory.devices
        PROVE  LET kept == d.properties["linux_driver_candidates"]
               IN /\ kept \subseteq NamedSoFar(d, Text)
                  /\ held = {<<t, tables[t]>> : t \in DOMAIN tables} =>
                       \A x \in NamedSoFar(d, AsciiPrefix) \ kept :
                         /\ Cardinality(kept) = MaxDriverCandidates
                         /\ \A y \in kept : Position[y] < Position[x]
    <2> DEFINE kept == d.properties["linux_driver_candidates"]
    <2>1. PICK x \in devices : Plain(x) /\ d = Annotate(x, reads, found, WithFirmware)
      BY <1>1, InventoryOfScan DEF IInv
    <2>2. kept = Candidates(x, reads) /\ d.modalias = x.modalias
      <3>1. SameFunction(x, d)
        BY <2>1, AnnotateKeeps
      <3> QED BY <2>1, <3>1 DEF Plain, Annotate, PropertyName, SameFunction
    <2>3. d.modalias \subseteq Text
      BY <1>1, <2>2, ScannedIsSpoken DEF IInv, Spoken
    <2>4. Matching(d, reads) = Matching(x, reads)
      BY <2>2 DEF Matching
    <2>5. kept = TakeTexts(Matched(d), MaxDriverCandidates)
      BY <2>2, <2>4 DEF Candidates, Matched
    <2>6. Matched(d) \subseteq Text /\ IsFiniteSet(Matched(d))
      BY <1>1, MatchedIsText DEF IInv
    <2>7. kept \subseteq NamedSoFar(d, Text)
      <3>1. kept \subseteq Matched(d)
        BY <2>5, TakenIsOne
      <3>2. Matched(d) \subseteq NamedSoFar(d, Text)
        BY <1>1, <2>3, MatchingIsNamed DEF IInv, Matched, NamedSoFar
      <3> QED BY <3>1, <3>2
    <2>8. ASSUME held = {<<t, tables[t]>> : t \in DOMAIN tables},
                 NEW y \in NamedSoFar(d, AsciiPrefix) \ kept
          PROVE  /\ Cardinality(kept) = MaxDriverCandidates
                 /\ \A z \in kept : Position[z] < Position[y]
      <3>1. y \in Matched(d)
        <4>1. Finished
          BY <1>1 DEF Finished
        <4> QED BY <1>1, <2>3, <2>8, <4>1, NamedIsMatched DEF IInv
      <3> HIDE DEF kept
      <3> QED BY <2>5, <2>6, <2>8, <3>1, TakenTextsAreFirst, LimitAssumption
    <2> QED BY <2>7, <2>8
  <1>2. IInv => CandidatesAgreeWithReference
    BY <1>1 DEF CandidatesAgreeWithReference
  <1> QED BY <1>2, Invariant, PTL

\* The subject of a fact and its table are texts, and a line says it.
SaidBy(use, f) ==
  \E r \in reads : /\ r[1] = use /\ f[3] = r[2]
                   /\ \E l \in r[3] : l[1] \notin Malformed /\ CanonicalModuleName(l[1]) = f[1]
LEMMA DepFactsAreSaid ==
  ASSUME NEW f
  PROVE  /\ f \in Payloads(reads) \cup Dependencies(reads) => SaidBy("dep", f)
         /\ f \in Builtins(reads) => SaidBy("builtin", f)
  <1>1. ASSUME NEW lines, NEW p \in ParseModulesDep(lines) \cup ParseDependencies(lines)
        PROVE  \E l \in lines : l[1] \notin Malformed /\ CanonicalModuleName(l[1]) = p[1]
    <2>1. CASE p \in ParseModulesDep(lines)
      BY <2>1 DEF ParseModulesDep, Wellformed
    <2>2. CASE p \in ParseDependencies(lines)
      BY <2>2 DEF ParseDependencies, Rest, Wellformed
    <2> QED BY <2>1, <2>2
  <1>2. ASSUME NEW use,
               \/ f \in FactsOf(reads, use, ParseModulesDep)
               \/ f \in FactsOf(reads, use, ParseDependencies)
        PROVE  SaidBy(use, f)
    <2>1. PICK r \in reads : /\ r[1] = use
                             /\ \E p \in ParseModulesDep(r[3]) \cup ParseDependencies(r[3]) :
                                  f = <<p[1], p[2], r[2]>>
      BY <1>2 DEF FactsOf
    <2>2. PICK p \in ParseModulesDep(r[3]) \cup ParseDependencies(r[3]) : f = <<p[1], p[2], r[2]>>
      BY <2>1
    <2>3. f[1] = p[1] /\ f[3] = r[2]
      BY <2>2
    <2> QED BY <1>1, <2>1, <2>3 DEF SaidBy
  <1>3. f \in Payloads(reads) \cup Dependencies(reads) => SaidBy("dep", f)
    BY <1>2 DEF Payloads, Dependencies
  <1>4. f \in Builtins(reads) => SaidBy("builtin", f)
    <2>1. Builtins(reads) = FactsOf(reads, "builtin", ParseModulesDep)
      BY DEF Builtins, ParseModulesBuiltin, FactsOf
    <2> QED BY <1>2, <2>1
  <1> QED BY <1>3, <1>4

LEMMA SaidIsText ==
  ASSUME Known, ReadsSound, NEW use, NEW f, SaidBy(use, f)
  PROVE  /\ f[1] \in Text /\ f[3] \in Text
         /\ \E h \in Contents : h[1] = f[3] /\
              \E l \in h[2] : l[1] \notin Malformed /\ CanonicalModuleName(l[1]) = f[1]
  <1>1. PICK r \in reads : /\ r[1] = use /\ f[3] = r[2]
                           /\ \E l \in r[3] : l[1] \notin Malformed /\ CanonicalModuleName(l[1]) = f[1]
    BY DEF SaidBy
  <1>2. PICK l \in r[3] : l[1] \notin Malformed /\ CanonicalModuleName(l[1]) = f[1]
    BY <1>1
  <1>3. l[1] \in Text
    <2>1. l \in Seq(Text) /\ l # <<>>
      BY ReadTables
    <2>2. 1 \in 1 .. Len(l)
      BY <2>1
    <2> QED BY <2>1, <2>2, WordsAreTexts
  <1> DEFINE h == <<r[2], r[3]>>
  <1>4. h \in Contents /\ h[1] = r[2] /\ h[2] = r[3] /\ r[2] \in Text
    BY ReadTables
  <1> HIDE DEF h
  <1> QED BY <1>1, <1>2, <1>3, <1>4, CanonicalIsText

\* The tables that were read, and the modules a device may need, are finite.
LEMMA FewTables == ASSUME Known PROVE IsFiniteSet({r[2] : r \in reads})
  <1> DEFINE f == [r \in reads |-> r[2]]
  <1>1. {r[2] : r \in reads} = {f[r] : r \in reads}
    OBVIOUS
  <1>2. IsFiniteSet({f[r] : r \in reads})
    <2> HIDE DEF f
    <2> QED BY FiniteImage DEF Known
  <1> QED BY <1>1, <1>2
LEMMA FewDrivers ==
  ASSUME Known, ReadsSound, NEW d, IsFiniteSet(d.driver)
  PROVE  IsFiniteSet(Drivers(d, reads))
  <1> DEFINE need == Candidates(d, reads) \cup d.driver
             f == [x \in need |-> CanonicalModuleName(x)]
  <1>1. Candidates(d, reads) \in SUBSET Matched(d)
    BY TakenIsOne DEF Candidates, Matched
  <1>2. IsFiniteSet(Matched(d))
    BY MatchedIsText
  <1>3. IsFiniteSet(Candidates(d, reads))
    BY <1>1, <1>2, FS_Subset
  <1>4. IsFiniteSet(need)
    BY <1>3, FS_Union
  <1>5. Drivers(d, reads) = {f[x] : x \in need}
    BY DEF Drivers
  <1>6. IsFiniteSet({f[x] : x \in need})
    <2> HIDE DEF f, need
    <2> QED BY <1>4, FiniteImage
  <1> QED BY <1>5, <1>6

\* Sources that were cut to less than the limit were not cut.
LEMMA UncutSources ==
  ASSUME NEW S, IsFiniteSet(S), S \subseteq Text \X Text, NEW n \in Nat,
         Cardinality(Take(S, n)) < n
  PROVE  Take(S, n) = S
  <1>1. Take(S, n) \subseteq S
    BY DEF Take
  <1>2. \A out \in S \ Take(S, n) : Cardinality(Take(S, n)) = n
    BY TakenAreFirst
  <1>3. Cardinality(Take(S, n)) # n
    <2>1. IsFiniteSet(Take(S, n))
      BY <1>1, FS_Subset
    <2> QED BY <2>1, FS_CardinalityType
  <1> QED BY <1>1, <1>2, <1>3

\* The sources of facts about what a device needs.
LEMMA NeededSources ==
  ASSUME Known, ReadsSound, NEW d, IsFiniteSet(d.driver), NEW use, NEW facts,
         \A f \in facts : SaidBy(use, f)
  PROVE  LET needed == Needed(d, reads, facts)
             sources == Sources(needed)
         IN /\ \A s \in sources : \E f \in needed : s[1] = f[1] /\ s[2] = f[3]
            /\ Cardinality(sources) < MaxDriverFiles =>
                 {f[1] : f \in needed} \subseteq {s[1] : s \in sources}
  <1> DEFINE needed == Needed(d, reads, facts)
             all == {<<f[1], f[3]>> : f \in needed}
             tables1 == {r[2] : r \in reads}
  <1>1. \A f \in needed : f[1] \in Text /\ f[3] \in Text /\ f[1] \in Drivers(d, reads) /\ f[3] \in tables1
    BY SaidIsText DEF Needed, SaidBy
  <1>2. all \subseteq Text \X Text /\ all \in SUBSET (Drivers(d, reads) \X tables1)
    <2> HIDE DEF needed, tables1
    <2> QED BY <1>1
  <1>3. IsFiniteSet(all)
    <2>1. IsFiniteSet(Drivers(d, reads) \X tables1)
      <3> HIDE DEF tables1
      <3>1. IsFiniteSet(tables1)
        BY FewTables DEF tables1
      <3> QED BY <3>1, FewDrivers, FS_Product
    <2> HIDE DEF all, tables1
    <2> QED BY <1>2, <2>1, FS_Subset
  <1>4. Sources(needed) = Take(all, MaxDriverFiles)
    BY DEF Sources
  <1>5. \A s \in Sources(needed) : \E f \in needed : s[1] = f[1] /\ s[2] = f[3]
    <2>1. Take(all, MaxDriverFiles) \subseteq all
      BY DEF Take
    <2> HIDE DEF needed
    <2>2. \A s \in all : \E f \in needed : s[1] = f[1] /\ s[2] = f[3]
      OBVIOUS
    <2> QED BY <1>4, <2>1, <2>2
  <1>6. ASSUME Cardinality(Sources(needed)) < MaxDriverFiles, NEW f \in needed
        PROVE  \E s \in Sources(needed) : s[1] = f[1]
    <2>1. Take(all, MaxDriverFiles) = all
      <3> HIDE DEF all
      <3> QED BY <1>2, <1>3, <1>4, <1>6, UncutSources, LimitAssumption
    <2> DEFINE s == <<f[1], f[3]>>
    <2>2. s \in all /\ s[1] = f[1]
      OBVIOUS
    <2> HIDE DEF all, s
    <2> QED BY <1>4, <2>1, <2>2
  <1> HIDE DEF needed
  <1> QED BY <1>5, <1>6 DEF needed

DriversOf(d, e) ==
  LET values == d.properties[e[1]] IN IF e[3] = "dep" THEN {v[1] : v \in values} ELSE values
Sourced(d, e) ==
  LET sources == d.properties[e[2]]
  IN /\ \A s \in sources :
          \E h \in Contents : h[1] = s[2] /\ Supports(h[1], h[2], e[3], s[1], d)
     /\ Cardinality(sources) < MaxDriverFiles => DriversOf(d, e) \subseteq {s[1] : s \in sources}

\* The sources of the candidates.
LEMMA CandidatesAreSourced ==
  ASSUME Known, ReadsSound, NEW x, Plain(x), Spoken(x), NEW d, NEW fs, NEW with,
         d = Annotate(x, reads, fs, with)
  PROVE  Sourced(d, <<"linux_driver_candidates", "linux_driver_candidate_sources", "alias">>)
  <1> DEFINE kept == Candidates(x, reads)
             all  == MatchingSources(x, reads, kept)
             e    == <<"linux_driver_candidates", "linux_driver_candidate_sources", "alias">>
  <1>1. /\ d.properties["linux_driver_candidates"] = kept
        /\ d.properties["linux_driver_candidate_sources"] = Take(all, MaxDriverFiles)
    BY DEF Annotate, Plain, PropertyName
  <1>2. d.modalias = x.modalias /\ d.modalias \subseteq Text
    BY AnnotateKeeps DEF SameFunction, Spoken
  <1>3. Matching(d, reads) = Matching(x, reads)
    BY <1>2 DEF Matching
  <1>4. ASSUME NEW s \in all
        PROVE  \E a \in Matching(d, reads) : s = <<a[2], a[3]>>
    BY <1>3 DEF MatchingSources
  <1>5. \A a \in Matching(d, reads) : a[2] \in Text /\ a[2] \in Matched(x) /\ a[3] \in Text
                                      /\ a[3] \in {r[2] : r \in reads}
    <2> SUFFICES ASSUME NEW a \in Matching(d, reads)
                 PROVE  a[2] \in Text /\ a[2] \in Matched(x) /\ a[3] \in Text
                        /\ a[3] \in {r[2] : r \in reads}
      OBVIOUS
    <2>1. a[2] \in Matched(x)
      BY <1>3 DEF Matched
    <2>2. a \in Aliases(reads)
      BY DEF Matching
    <2>3. PICK r \in reads : a[3] = r[2]
      BY <2>2, FactsComeFromReads
    <2> QED BY <2>1, <2>3, MatchedIsText, ReadTables
  <1>6. all \subseteq Text \X Text /\ all \in SUBSET (Matched(x) \X {r[2] : r \in reads})
    BY <1>4, <1>5
  <1>7. IsFiniteSet(all)
    <2>1. IsFiniteSet(Matched(x)) /\ IsFiniteSet({r[2] : r \in reads})
      BY MatchedIsText, FewTables
    <2>2. IsFiniteSet(Matched(x) \X {r[2] : r \in reads})
      BY <2>1, FS_Product
    <2> QED BY <1>6, <2>2, FS_Subset
  <1>8. ASSUME NEW s \in Take(all, MaxDriverFiles)
        PROVE  \E h \in Contents : h[1] = s[2] /\ Supports(h[1], h[2], "alias", s[1], d)
    <2>1. s \in all
      BY DEF Take
    <2>2. PICK a \in Matching(d, reads) : s = <<a[2], a[3]>>
      BY <1>4, <2>1
    <2>3. PICK h \in Contents : h[1] = a[3] /\ a[2] \in NamedBy(h[1], h[2], d, Text)
      BY <1>2, MatchingIsNamed
    <2> QED BY <2>2, <2>3 DEF Supports
  <1>9. ASSUME Cardinality(Take(all, MaxDriverFiles)) < MaxDriverFiles, NEW driver \in kept
        PROVE  \E s \in Take(all, MaxDriverFiles) : s[1] = driver
    <2>1. driver \in Matched(x)
      BY TakenIsOne DEF Candidates, Matched
    <2>2. PICK a \in Matching(x, reads) : driver = a[2]
      BY <2>1 DEF Matched
    <2> DEFINE s == <<a[2], a[3]>>
    <2>3. s \in all /\ s[1] = driver
      BY <1>9, <2>2 DEF MatchingSources
    <2> HIDE DEF s, all
    <2>4. Take(all, MaxDriverFiles) = all
      BY <1>6, <1>7, <1>9, UncutSources, LimitAssumption
    <2> QED BY <2>3, <2>4
  <1>10. e[1] = "linux_driver_candidates" /\ e[2] = "linux_driver_candidate_sources" /\ e[3] = "alias"
    OBVIOUS
  <1> HIDE DEF kept, all, e
  <1>11. DriversOf(d, e) = kept
    BY <1>1, <1>10 DEF DriversOf
  <1>12. Sourced(d, e)
    BY <1>1, <1>8, <1>9, <1>10, <1>11 DEF Sourced
  <1> QED BY <1>12 DEF e

\* The sources of the payloads, the dependencies and the builtins.
LEMMA NeededIsSourced ==
  ASSUME Known, ReadsSound, NEW x, Spoken(x), NEW use \in {"dep", "builtin"}, NEW facts,
         \A f \in facts : SaidBy(use, f), NEW d, NEW e, e[3] = use,
         d.properties[e[2]] = Sources(Needed(x, reads, facts)),
         DriversOf(d, e) \subseteq {f[1] : f \in Needed(x, reads, facts)}
  PROVE  Sourced(d, e)
  <1> DEFINE needed == Needed(x, reads, facts)
             sources == Sources(needed)
  <1>1. /\ \A s \in sources : \E f \in needed : s[1] = f[1] /\ s[2] = f[3]
        /\ Cardinality(sources) < MaxDriverFiles => {f[1] : f \in needed} \subseteq {s[1] : s \in sources}
    BY NeededSources DEF Spoken
  <1>2. needed \subseteq facts
    BY DEF Needed
  <1>3. d.properties[e[2]] = sources /\ DriversOf(d, e) \subseteq {f[1] : f \in needed}
    OBVIOUS
  <1> HIDE DEF needed, sources
  <1>4. ASSUME NEW s \in sources
        PROVE  \E h \in Contents : h[1] = s[2] /\ Supports(h[1], h[2], use, s[1], d)
    <2>1. PICK f \in facts : s[1] = f[1] /\ s[2] = f[3]
      BY <1>1, <1>2
    <2>2. PICK h \in Contents : h[1] = f[3] /\
            \E l \in h[2] : l[1] \notin Malformed /\ CanonicalModuleName(l[1]) = f[1]
      BY SaidIsText
    <2>3. use # "alias"
      OBVIOUS
    <2> QED BY <2>1, <2>2, <2>3 DEF Supports
  <1>5. Cardinality(sources) < MaxDriverFiles => DriversOf(d, e) \subseteq {s[1] : s \in sources}
    BY <1>1, <1>3
  <1> QED BY <1>3, <1>4, <1>5 DEF Sourced

LEMMA EvidenceIsSourced ==
  ASSUME Known, ReadsSound, NEW x, Plain(x), Spoken(x), NEW d, NEW fs, NEW with,
         d = Annotate(x, reads, fs, with), NEW e \in Evidence
  PROVE  Sourced(d, e)
  <1>1. /\ d.properties["linux_driver_files"] = Values(Needed(x, reads, Payloads(reads)))
        /\ d.properties["linux_driver_file_sources"] = Sources(Needed(x, reads, Payloads(reads)))
        /\ d.properties["linux_driver_dependencies"] = Values(Needed(x, reads, Dependencies(reads)))
        /\ d.properties["linux_driver_dependency_sources"] =
             Sources(Needed(x, reads, Dependencies(reads)))
        /\ d.properties["linux_driver_builtins"] = {f[1] : f \in Needed(x, reads, Builtins(reads))}
        /\ d.properties["linux_driver_builtin_sources"] = Sources(Needed(x, reads, Builtins(reads)))
    BY DEF Annotate, Plain, PropertyName
  <1>2. ASSUME NEW facts
        PROVE  {v[1] : v \in Values(facts)} \subseteq {f[1] : f \in facts}
    <2>1. Values(facts) \subseteq {<<f[1], f[2]>> : f \in facts}
      BY DEF Values, Take
    <2> QED BY <2>1
  <1>3. CASE e = <<"linux_driver_candidates", "linux_driver_candidate_sources", "alias">>
    BY <1>3, CandidatesAreSourced
  <1>4. CASE e = <<"linux_driver_files", "linux_driver_file_sources", "dep">>
    <2>1. /\ e[1] = "linux_driver_files" /\ e[2] = "linux_driver_file_sources" /\ e[3] = "dep"
      BY <1>4
    <2>2. DriversOf(d, e) \subseteq {f[1] : f \in Needed(x, reads, Payloads(reads))}
      BY <1>1, <1>2, <2>1 DEF DriversOf
    <2>3. \A f \in Payloads(reads) : SaidBy("dep", f)
      BY DepFactsAreSaid
    <2>4. d.properties[e[2]] = Sources(Needed(x, reads, Payloads(reads)))
      BY <1>1, <2>1
    <2> QED BY <2>1, <2>2, <2>3, <2>4, NeededIsSourced
  <1>5. CASE e = <<"linux_driver_dependencies", "linux_driver_dependency_sources", "dep">>
    <2>1. /\ e[1] = "linux_driver_dependencies" /\ e[2] = "linux_driver_dependency_sources" /\ e[3] = "dep"
      BY <1>5
    <2>2. DriversOf(d, e) \subseteq {f[1] : f \in Needed(x, reads, Dependencies(reads))}
      BY <1>1, <1>2, <2>1 DEF DriversOf
    <2>3. \A f \in Dependencies(reads) : SaidBy("dep", f)
      BY DepFactsAreSaid
    <2>4. d.properties[e[2]] = Sources(Needed(x, reads, Dependencies(reads)))
      BY <1>1, <2>1
    <2> QED BY <2>1, <2>2, <2>3, <2>4, NeededIsSourced
  <1>6. CASE e = <<"linux_driver_builtins", "linux_driver_builtin_sources", "builtin">>
    <2>1. /\ e[1] = "linux_driver_builtins" /\ e[2] = "linux_driver_builtin_sources" /\ e[3] = "builtin"
      BY <1>6
    <2>2. DriversOf(d, e) \subseteq {f[1] : f \in Needed(x, reads, Builtins(reads))}
      BY <1>1, <2>1 DEF DriversOf
    <2>3. \A f \in Builtins(reads) : SaidBy("builtin", f)
      BY DepFactsAreSaid
    <2>4. d.properties[e[2]] = Sources(Needed(x, reads, Builtins(reads)))
      BY <1>1, <2>1
    <2> QED BY <2>1, <2>2, <2>3, <2>4, NeededIsSourced
  <1> QED BY <1>3, <1>4, <1>5, <1>6 DEF Evidence

\* EvidenceHasSource: every source is a table of the manifest, with a content
\* that named that driver; what is kept has a source unless they were cut.
THEOREM EvidenceSourced == Spec => []EvidenceHasSource
  <1>1. ASSUME IInv, Complete, NEW d \in inventory.devices, NEW e \in Evidence
        PROVE  /\ Sourced(d, e)
               /\ \A s \in d.properties[e[2]] : \E m \in inventory.driver_sources : m[2] = s[2]
    <2>1. PICK x \in devices : Plain(x) /\ d = Annotate(x, reads, found, WithFirmware)
      BY <1>1, InventoryOfScan DEF IInv
    <2>2. Spoken(x)
      BY <1>1, ScannedIsSpoken DEF IInv
    <2>3. Sourced(d, e)
      BY <1>1, <2>1, <2>2, EvidenceIsSourced DEF IInv
    <2>4. ASSUME NEW s \in d.properties[e[2]]
          PROVE  \E m \in inventory.driver_sources : m[2] = s[2]
      <3>1. PICK r \in reads : r[1] \in {"alias", "modinfo", "dep", "builtin"} /\ r[2] = s[2]
        BY <2>1, EvidenceComesFromReads
      <3>2. Finished
        BY <1>1 DEF Finished
      <3> QED BY <1>1, <3>1, <3>2, ReadsAreHashed DEF IInv
    <2> QED BY <2>3, <2>4
  <1>2. IInv => EvidenceHasSource
    BY <1>1 DEF EvidenceHasSource, Sourced, DriversOf
  <1> QED BY <1>2, Invariant, PTL

\* NodesFollowParents: in a machine that stays as it is, no entry of a class
\* is reported that has a bound function as its device, as the device of its
\* device, or beside it.  Of sysfs it takes only that a path leads to one file.
THEOREM ParentsFollowed == Spec => []NodesFollowParents
  <1>1. ASSUME IInv, Complete, NEW tree \in trees, trees = {tree}, NEW entry \in Unresolved,
               NEW p \in Parents(tree, entry.device_key), p[3] \in Near
        PROVE  "driver" \notin DOMAIN tree.bus[p[1]][p[2]].attr
    <2> DEFINE key == entry.device_key
    <2>1. PICK c \in Capability : \E b \in inventory.devices :
            /\ entry = UnresolvedDevice(c, b)
            /\ b.key \in CapabilityRequirements(inventory.devices)[c].unbound_device_keys
      BY DEF Unresolved, UnresolvedDevices
    <2>2. PICK b \in inventory.devices : b.key = key /\ b.driver = {}
      <3>1. PICK a \in inventory.devices :
              /\ entry = UnresolvedDevice(c, a)
              /\ a.key \in CapabilityRequirements(inventory.devices)[c].unbound_device_keys
        BY <2>1
      <3>2. a.key = key
        BY <3>1 DEF UnresolvedDevice
      <3>3. a.key \in {x.key : x \in {x \in {x \in inventory.devices : Requires(x, c)} : x.driver = {}}}
        BY <3>1 DEF CapabilityRequirements
      <3> QED BY <3>2, <3>3
    <2>3. key[1] = "class" /\ p \in tree.class[key[2]][key[3]].parent
      BY DEF Parents
    <2>4. PICK x \in devices : x.key = key /\ x.driver = {}
      BY <1>1, <2>2, InventoryOfScan, AnnotateKeeps DEF IInv, SameFunction
    <2>5. key[2] \in ClassName
      BY <1>1, <2>3, <2>4, NoBusIsClass DEF IInv, DevicesScanned
    <2> DEFINE class == key[2]
    <2>6. x \in ScanClassDirectory(tree, class)
      <3>1. x \in OfClass(class)
        BY <2>3, <2>4 DEF OfClass
      <3> QED BY <1>1, <2>5, <3>1 DEF IInv, DevicesScanned
    <2>7. PICK id \in DOMAIN tree.class[class] : x = ClassDevice(class, id, tree.class[class][id])
      BY <2>6 DEF ScanClassDirectory
    <2> DEFINE node == tree.class[class][id]
    <2>8. key[3] = id
      <3>1. x.key = <<"class", class, id>>
        BY <2>7, ClassDeviceShape
      <3>2. x.key[3] = id
        BY <3>1
      <3> QED BY <2>4, <3>2
    <2>9. First(node.attr, ClassDriver) = {}
      BY <2>4, <2>7 DEF ClassDevice, HardwareDevice
    <2>10. p[3] \in DOMAIN node.attr <=> "driver" \in DOMAIN tree.bus[p[1]][p[2]].attr
      <3>1. IsTree(tree)
        BY <1>1 DEF IInv, Known
      <3>2. class \in ClassName /\ id \in DOMAIN tree.class[class] /\ p \in node.parent
        BY <2>3, <2>5, <2>8
      <3> HIDE DEF class
      <3> QED BY <3>1, <3>2 DEF IsTree
    <2>11. p[3] \notin DOMAIN node.attr
      <3> HIDE DEF node
      <3> SUFFICES ASSUME p[3] \in DOMAIN node.attr PROVE FALSE
        OBVIOUS
      <3> DEFINE there == {i \in 1 .. 4 : ClassDriver[i] \in DOMAIN node.attr}
      <3>1. there # {} /\ there \in SUBSET Nat
        BY <1>1 DEF Near, ClassDriver
      <3>2. PICK i \in there : \A j \in there : i <= j
        <4> HIDE DEF there
        <4> QED BY <3>1, LeastNatural
      <3>3. i \in DOMAIN ClassDriver /\ ClassDriver[i] \in DOMAIN node.attr
        BY DEF ClassDriver
      <3>4. \A j \in 1 .. i - 1 : ClassDriver[j] \notin DOMAIN node.attr
        BY <3>2
      <3>5. node.attr[ClassDriver[i]] \in First(node.attr, ClassDriver)
        BY <3>3, <3>4 DEF First
      <3> QED BY <2>9, <3>5
    <2> QED BY <2>10, <2>11
  <1>2. IInv => NodesFollowParents
    BY <1>1 DEF NodesFollowParents
  <1> QED BY <1>2, Invariant, PTL
=============================================================================
