------------------------------- MODULE Sysfs -------------------------------
(***************************************************************************)
(* What a scan makes of the entries of /sys (src/src/scan.rs): scan_pci,   *)
(* scan_usb, scan_i2c, scan_acpi, scan_simple_bus, scan_class_devices and  *)
(* the readers they call, and parse_cpu_facts.                             *)
(*                                                                         *)
(* A tree is [bus, class]: for each directory a function from the names of *)
(* its entries to nodes.  A node is                                        *)
(*   attr   the attributes and links that are there and not blank, by path *)
(*          from the node: "device/name", "../driver", "uevent:DRIVER" (a  *)
(*          field of that file); the value of a driver link is the last    *)
(*          component of what it resolves to                               *)
(*   net    its network interfaces, and whether each is a wireless one     *)
(*   words  of the path the entry resolves to                              *)
(*   parent <<bus, id, link>>: the bus functions it belongs to, each with  *)
(*          the path from the entry that leads to the driver link of that  *)
(*          function, however long it is; the scan does not look at these  *)
(* A class entry is a link, so a path from the entry and the same path     *)
(* from its target are one attribute.  Text is a value; what the code      *)
(* searches texts for is in the functions below, which leave out the texts *)
(* that have nothing of it.                                                *)
(*                                                                         *)
(* An optional value is a set of at most one; the name of a device is the  *)
(* set of the texts it is put together from.                               *)
(***************************************************************************)
EXTENDS Integers, FiniteSets

CONSTANTS
  Contained,   \* [text -> the words it contains]
  Leading,     \* [text -> the words it begins with]
  HexOf,       \* [hexadecimal text -> the number]
  I2cIds       \* the entry names valid_i2c_id accepts

SimpleBus ==
  {"platform", "spi", "serio", "hid", "auxiliary", "firewire", "i3c", "mdio_bus", "mei",
   "mhi", "mmc", "nvme", "rpmsg", "scsi", "sdio", "soundwire", "thunderbolt", "typec",
   "virtio", "vmbus"}
BusName   == {"pci", "usb", "i2c", "acpi"} \cup SimpleBus
ClassName == {"net", "sound", "drm", "block", "input", "bluetooth", "firmware"}

Words(texts)  == UNION {Contained[t] : t \in texts \cap DOMAIN Contained}
Starts(texts) == UNION {Leading[t] : t \in texts \cap DOMAIN Leading}

\* read_first and the readers like it: the first of the paths that is there.
First(attr, paths) ==
  {attr[paths[i]] : i \in {i \in DOMAIN paths :
     /\ paths[i] \in DOMAIN attr
     /\ \A j \in 1 .. i - 1 : paths[j] \notin DOMAIN attr}}
Numbers(attr) ==
  [a \in {a \in DOMAIN attr : attr[a] \in DOMAIN HexOf} |-> HexOf[attr[a]]]
FirstHex(node, paths) == First(Numbers(node.attr), paths)

NumberField == {"vendor", "product", "subsystem_vendor", "subsystem_product", "class",
                "revision"}
PropertyName ==
  {"sysfs_class", "interface", "firmware", "wireless", "partition", "virtual",
   "net_interfaces", "serial", "status", "runtime_watchdog", "uevent",
   "linux_driver_candidates", "linux_driver_candidate_sources",
   "linux_firmware_candidates", "linux_firmware_candidate_sources", "linux_firmware_files",
   "linux_driver_files", "linux_driver_file_sources", "linux_driver_dependencies",
   "linux_driver_dependency_sources", "linux_driver_builtins",
   "linux_driver_builtin_sources"}

\* A device with what each scan fills in; a property that is not inserted is
\* empty.
HardwareDevice(key, bus, node, name, modalias, numbers, driver, properties) ==
  [key |-> key, bus |-> bus, name |-> name, modalias |-> First(node.attr, modalias),
   number |-> [f \in NumberField |->
                 IF f \in DOMAIN numbers THEN FirstHex(node, numbers[f]) ELSE {}],
   driver |-> First(node.attr, driver),
   properties |-> [p \in PropertyName |->
                     IF p \in DOMAIN properties THEN properties[p] ELSE {}]]

BusDriver   == <<"driver", "uevent:DRIVER">>
BusModalias == <<"modalias", "uevent:MODALIAS">>
Flag(condition) == IF condition THEN {"1"} ELSE {}

\* record_network_children.
WirelessChild(id, node) ==
  \E child \in DOMAIN node.net :
    \/ node.net[child]
    \/ "wireless" \in Words({id, child})
    \/ Starts({child}) \cap {"wl", "ww"} # {}

PciDevice(id, node) ==
  HardwareDevice(<<"pci", id>>, "pci", node, First(node.attr, <<"label">>), BusModalias,
    [vendor |-> <<"vendor">>, product |-> <<"device">>,
     subsystem_vendor |-> <<"subsystem_vendor">>, subsystem_product |-> <<"subsystem_device">>,
     class |-> <<"class">>, revision |-> <<"revision">>],
    BusDriver,
    [net_interfaces |-> DOMAIN node.net, wireless |-> Flag(WirelessChild(id, node))])

UsbDevice(id, node) ==
  HardwareDevice(<<"usb", id>>, "usb", node,
    First(node.attr, <<"manufacturer">>) \cup First(node.attr, <<"product">>), BusModalias,
    [vendor |-> <<"idVendor">>, product |-> <<"idProduct">>, class |-> <<"bDeviceClass">>,
     revision |-> <<"bcdDevice">>],
    BusDriver,
    [serial |-> First(node.attr, <<"serial">>),
     net_interfaces |-> DOMAIN node.net, wireless |-> Flag(WirelessChild(id, node))])

I2cDevice(id, node) ==
  HardwareDevice(<<"i2c", id>>, "i2c", node, First(node.attr, <<"name">>), BusModalias, <<>>,
    BusDriver, [runtime_watchdog |-> First(node.attr, <<"runtime_watchdog">>)])

AcpiDevice(id, node) ==
  HardwareDevice(<<"acpi", id>>, "acpi", node, {id}, BusModalias, <<>>, BusDriver,
    [status |-> First(node.attr, <<"status">>)])

SimpleDevice(bus, id, node) ==
  HardwareDevice(<<bus, id>>, bus, node,
    First(node.attr, <<"name", "device/name", "product", "device/product">>),
    <<"modalias", "device/modalias", "uevent:MODALIAS">>,
    [vendor  |-> <<"id/vendor", "device/id/vendor", "vendor", "device/vendor">>,
     product |-> <<"id/product", "device/id/product", "product_id", "device/product_id">>],
    BusDriver,
    [firmware |-> First(node.attr, <<"firmware", "device/firmware", "uevent:FIRMWARE">>),
     uevent   |-> First(node.attr, <<"uevent", "device/uevent">>)])

BusDevice(bus, id, node) ==
  CASE bus = "pci"  -> PciDevice(id, node)
    [] bus = "usb"  -> UsbDevice(id, node)
    [] bus = "i2c"  -> I2cDevice(id, node)
    [] bus = "acpi" -> AcpiDevice(id, node)
    [] OTHER        -> SimpleDevice(bus, id, node)

\* The entries that are devices; the others are passed over.
IsDevice(bus, id, node) ==
  LET d == BusDevice(bus, id, node) IN
  CASE bus \in {"pci", "usb"} -> d.number["vendor"] # {} /\ d.number["product"] # {}
    [] bus = "acpi"           -> d.modalias # {}
    [] bus = "i2c"            -> id \in I2cIds /\ (d.name # {} \/ d.modalias # {})
    [] OTHER                  -> d.name # {} \/ d.modalias # {}

ScanBusDirectory(tree, bus) ==
  LET nodes == tree.bus[bus] IN
  {BusDevice(bus, id, nodes[id]) :
     id \in {id \in DOMAIN nodes : IsDevice(bus, id, nodes[id])}}

\* Mutant: the device of a class entry is looked at, and not that one's.
OneLevelUp ==
  <<"driver", "device/driver", "../driver", "uevent:DRIVER", "device/uevent:DRIVER">>
\* class_driver_name: the driver of an entry, of its device, of the device of
\* that, of the directory above; then what a uevent file says.
ClassDriver ==
  <<"driver", "device/driver", "device/device/driver", "../driver", "uevent:DRIVER",
    "device/uevent:DRIVER">>

ClassDeviceName(id, node) ==
  LET name == First(node.attr, <<"name", "device/name", "id", "device/id">>)
  IN  IF name = {} THEN {id} ELSE name

IsWirelessName(id, node) ==
  \/ (Words({id} \cup ClassDeviceName(id, node)) \cup node.words)
       \cap {"wlan", "wifi", "wireless", "wlp", "wwan"} # {}
  \/ "wireless" \in DOMAIN node.attr

IsVirtualBlock(id, node) ==
  \/ Starts({id}) \cap {"dm-", "loop", "ram", "zram"} # {}
  \/ "virtual" \in node.words

ClassDevice(class, id, node) ==
  HardwareDevice(<<"class", class, id>>, "sysfs", node, ClassDeviceName(id, node),
    <<"modalias", "device/modalias", "uevent:MODALIAS", "device/uevent:MODALIAS">>,
    [vendor  |-> <<"vendor", "device/vendor">>,
     product |-> <<"device", "device/device">>,
     subsystem_vendor  |-> <<"device/subsystem_vendor">>,
     subsystem_product |-> <<"device/subsystem_device">>,
     class    |-> <<"class", "device/class">>,
     revision |-> <<"device/revision", "revision">>],
    ClassDriver,
    [sysfs_class |-> {class},
     interface   |-> First(node.attr, <<"interface", "device/interface">>),
     firmware    |-> First(node.attr, <<"firmware", "device/firmware">>),
     wireless    |-> Flag(class = "net" /\ IsWirelessName(id, node)),
     partition   |-> IF class = "block" THEN First(node.attr, <<"partition">>) ELSE {},
     virtual     |-> Flag(class = "block" /\ IsVirtualBlock(id, node))])

\* Mutant: the class is not in the key.
KeyedByEntry(tree, class) ==
  {[ClassDevice(class, id, tree.class[class][id]) EXCEPT !.key = <<"class", "", id>>] :
     id \in DOMAIN tree.class[class]}
\* Whatever is in the directory counts, an attribute file of the class too.
ScanClassDirectory(tree, class) ==
  {ClassDevice(class, id, tree.class[class][id]) : id \in DOMAIN tree.class[class]}

-----------------------------------------------------------------------------
\* parse_cpu_facts, of the first block of /proc/cpuinfo: a function from the
\* keys to sets of words.
FeatureOf(word) ==
  CASE word \in {"abm", "lzcnt"}            -> {"lzcnt"}
    [] word \in {"asimd", "neon"}           -> {"neon"}
    [] word \in {"pclmulqdq", "pclmuldq"}   -> {"pclmulqdq"}
    [] word \in {"pni", "sse3"}             -> {"sse3"}
    [] word \in {"aes", "avx", "avx2", "avx512bw", "avx512cd", "avx512dq", "avx512f",
                 "avx512vl", "bmi1", "bmi2", "crc32", "fma", "fxsr", "mmx", "popcnt", "sha2",
                 "sse", "sse2", "sse4_1", "sse4_2", "ssse3", "sve", "sve2"} -> {word}
    [] OTHER -> {}

CpuArchitecture(block, built) ==
  CASE {"vendor_id", "cpu family"} \cap DOMAIN block # {} -> "x86-64"
    [] {"CPU implementer", "CPU architecture"} \cap DOMAIN block # {} -> "aarch64"
    [] "isa" \in DOMAIN block /\ "rv64" \in block["isa"] -> "riscv64"
    [] OTHER -> built

\* `built` is the architecture the program was built for.
CpuFacts(block, built) ==
  IF DOMAIN block = {} THEN [architecture |-> "unknown", features |-> {}]
  ELSE [architecture |-> CpuArchitecture(block, built),
        features |-> UNION {FeatureOf(w) :
          w \in CASE "flags" \in DOMAIN block    -> block["flags"]
                  [] "Features" \in DOMAIN block -> block["Features"]
                  [] OTHER                       -> {}}]
=============================================================================
