----------------------------- MODULE Preflight -----------------------------
(***************************************************************************)
(* Which scanned devices need a profile: device_capabilities,              *)
(* is_requirement_candidate, capability_requirements and                   *)
(* target_profile_required (src/src/scan.rs), and what preflight_inventory *)
(* (src/src/preflight.rs) reports of them.                                 *)
(***************************************************************************)
EXTENDS Sysfs

Capability == {"network", "wireless", "audio", "graphics", "storage", "input",
               "bluetooth", "firmware"}

ClassCapability ==
  {<<"net", "network">>, <<"sound", "audio">>, <<"drm", "graphics">>, <<"block", "storage">>,
   <<"input", "input">>, <<"bluetooth", "bluetooth">>, <<"firmware", "firmware">>}

\* By the byte of the class code that the code looks at.
PciCapability == {<<1, "storage">>, <<2, "network">>, <<3, "graphics">>, <<4, "audio">>,
                  <<9, "input">>}
UsbCapability == {<<1, "audio">>, <<2, "network">>, <<3, "input">>, <<8, "storage">>,
                  <<14, "graphics">>, <<224, "bluetooth">>, <<224, "wireless">>}
ByCode(d) ==
  {c \in Capability : \E code \in d.number["class"] :
     \/ d.bus = "pci" /\ <<(code \div 65536) % 256, c>> \in PciCapability
     \/ d.bus = "usb" /\ <<code % 256, c>> \in UsbCapability}

\* The buses all of whose functions have one capability.
BusCapability ==
  {<<"serio", "input">>, <<"hid", "input">>, <<"mmc", "storage">>, <<"sdio", "storage">>,
   <<"nvme", "storage">>, <<"scsi", "storage">>, <<"soundwire", "audio">>}

Sound == {"sound", "audio", "codec", "hda", "sof"}
Radio == {"wifi", "wireless", "wlan"}
\* The words that name a capability in the name or the modalias.
Naming(bus) ==
  CASE bus \in {"i2c", "acpi"} ->
         [input |-> {"elan", "synaptics", "touchpad", "wacom", "atml", "pnp0c50", "msft0001"}]
    [] bus \in {"platform", "spi"} ->
         [audio |-> Sound, network |-> Radio, wireless |-> Radio \cup {"bluetooth"},
          bluetooth |-> {"bluetooth"},
          input |-> {"elan", "synaptics", "touchpad", "touchscreen", "keyboard", "mouse",
                     "pointing", "i8042", "wacom"}]
    [] bus \in {"virtio", "vmbus", "mhi", "mdio_bus", "firewire"} ->
         [network |-> Radio \cup {"net", "ether", "wwan"}, wireless |-> Radio \cup {"wwan"},
          audio |-> Sound, storage |-> {"blk", "block", "storage", "nvme", "scsi"}]
    [] bus \in {"auxiliary", "i3c", "mei", "rpmsg", "thunderbolt", "typec"} ->
         [input |-> {"elan", "synaptics", "touch", "keyboard", "mouse", "pointing", "hid"},
          audio |-> Sound, network |-> Radio \cup {"wwan", "bluetooth", "modem"},
          wireless |-> Radio \cup {"wwan", "bluetooth"}]
    [] OTHER -> <<>>
ByName(d) ==
  {c \in DOMAIN Naming(d.bus) : Naming(d.bus)[c] \cap Words(d.name \cup d.modalias) # {}}

\* A PCI network function that calls itself wireless.
WirelessPci(d) ==
  /\ d.bus = "pci" /\ "network" \in ByCode(d)
  /\ "wireless" \in Words(d.name) \/ "wifi" \in Words(d.modalias)

HasWireless(d) ==
  d.properties["wireless"] # {} \/ Starts(d.properties["net_interfaces"]) \cap {"wl", "ww"} # {}

DeviceCapabilities(d) ==
  {c \in Capability : \E class \in d.properties["sysfs_class"] : <<class, c>> \in ClassCapability}
    \cup {c \in Capability : <<d.bus, c>> \in BusCapability}
    \cup ByCode(d) \cup ByName(d)
    \cup {c \in {"network"}  : d.properties["net_interfaces"] # {}}
    \cup {c \in {"wireless"} : HasWireless(d) \/ WirelessPci(d)}
    \cup {c \in {"firmware"} : d.properties["firmware"] # {}}

\* is_virtual_network, whose text is the name, a space, "class:net:" and the
\* name of the entry.
IsVirtualNetwork(d) ==
  LET texts == d.name \cup {d.key[3]} IN
  \/ d.name = {"lo"} \/ "lo" \in Starts({d.key[3]})
  \/ Words(texts) \cap {" lo", "lo:", ":lo", "docker", "veth", "virbr", "br-", "dummy", "tun", "tap"} # {}

\* Mutant: a device without a class entry is no candidate.
ClassEntriesOnly(d, c) == d.properties["sysfs_class"] # {}
\* is_requirement_candidate: which entries of a class stand for what.
IsRequirementCandidate(d, c) ==
  \A class \in d.properties["sysfs_class"] :
    CASE class = "net" /\ c \in {"network", "wireless"} -> ~IsVirtualNetwork(d)
      [] class = "sound" /\ c = "audio" -> "card" \in Starts(d.name)
      [] class = "drm" /\ c = "graphics" -> "card" \in Starts(d.name) /\ "-" \notin Words(d.name)
      [] class = "block" /\ c = "storage" ->
           d.properties["partition"] = {} /\ d.properties["virtual"] = {}
      [] class = "input" /\ c = "input" -> "event" \in Starts(d.name)
      [] OTHER -> TRUE

Requires(d, c) == c \in DeviceCapabilities(d) /\ IsRequirementCandidate(d, c)

\* capability_requirements, of a set of devices.
CapabilityRequirements(devices) ==
  [c \in Capability |->
     LET required == {d \in devices : Requires(d, c)} IN
     [device_keys         |-> {d.key : d \in required},
      modaliases          |-> UNION {d.modalias : d \in required},
      bound_drivers       |-> UNION {d.driver : d \in required},
      unbound_device_keys |-> {d.key : d \in {d \in required : d.driver = {}}}]]

\* An entry of the report; it copies the evidence among the properties.
UnresolvedDevice(c, d) ==
  [capability |-> c, device_key |-> d.key, bus |-> d.bus, modalias |-> d.modalias,
   number |-> d.number, current_driver |-> d.driver, evidence |-> d.properties]

\* preflight_inventory.
UnresolvedDevices(devices, requirements) ==
  UNION {{UnresolvedDevice(c, d) :
            d \in {d \in devices : d.key \in requirements[c].unbound_device_keys}} :
         c \in Capability}
PreflightInventory(devices, requirements, sources) ==
  LET unresolved == UnresolvedDevices(devices, requirements) IN
  [driver_sources |-> sources, requirements |-> requirements, unresolved |-> unresolved,
   ready |-> unresolved = {}]

\* The metadata tables of a target know a driver for it.
TargetDriverEvidence(d) ==
  \E p \in {"linux_driver_candidates", "linux_driver_files", "linux_driver_builtins"} :
    d.properties[p] # {}

\* target_profile_required: a bus function with a capability, or one that
\* names itself and is not merely bound by the live kernel.
TargetProfileRequired(d) ==
  /\ d.bus # "sysfs"
  /\ \/ DeviceCapabilities(d) # {}
     \/ d.modalias # {} /\ (d.driver = {} \/ TargetDriverEvidence(d))
     \/ TargetDriverEvidence(d)
=============================================================================
