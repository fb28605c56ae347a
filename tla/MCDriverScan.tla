---------------------------- MODULE MCDriverScan ----------------------------
(* Laptops: a Wi-Fi card that udev binds and unbinds, with its interface;   *)
(* an NVMe disk whose block node is two links away from it; a touchpad with *)
(* an event node; a sound card with a jack, whose event node is three links *)
(* away from it.  And one platform device against every short pattern.      *)
EXTENDS DriverScan, SequencesExt, TLC

Node(attr) == [attr |-> attr, net |-> <<>>, words |-> {}, parent |-> {}]
Tree(bus, class) ==
  [bus   |-> [b \in BusName |-> IF b \in DOMAIN bus THEN bus[b] ELSE <<>>],
   class |-> [c \in ClassName |-> IF c \in DOMAIN class THEN class[c] ELSE <<>>]]

Card == Node([vendor |-> "0x8086", device |-> "0x2723", class |-> "0x028000",
              modalias |-> "pci:wifi"])
BoundCard == [Card EXCEPT !.attr = @ @@ [driver |-> "iwlwifi"], !.net = [wlan0 |-> TRUE]]
Disk == Node([vendor |-> "0x144d", device |-> "0xa808", class |-> "0x010802",
              modalias |-> "pci:nvme", driver |-> "nvme"])
Pad  == Node([name |-> "ELAN0670", modalias |-> "i2c:ELAN0670", driver |-> "elan_i2c"])
LoosePad == [Pad EXCEPT !.attr = [name |-> "ELAN0670", modalias |-> "i2c:ELAN0670"]]

Codec == Node([vendor |-> "0x8086", device |-> "0xa0c8", class |-> "0x040300", driver |-> "snd"])

\* An entry of a function with a driver, at the end of that path, or without.
LooseChild(attr, bus, id, link) == [Node(attr) EXCEPT !.parent = {<<bus, id, link>>}]
Child(attr, bus, id, link, driver) == LooseChild(link :> driver @@ attr, bus, id, link)
Wlan  == Child([wireless |-> "dir"], "pci", "w0", "device/driver", "iwlwifi")
Block == Child(<<>>, "pci", "n0", "device/device/driver", "nvme")
Event == Child(<<>>, "i2c", "i2c-0", "device/device/driver", "elan_i2c")
SoundCard == Child(<<>>, "pci", "a0", "device/driver", "snd")
Jack  == Child("device/name" :> "Headphone", "pci", "a0", "device/device/device/driver", "snd")
\* An interface of WireGuard, and a file of the network class itself.
Virtual == Node("uevent" :> "wg")

Laptop(card, class) ==
  Tree([pci |-> card @@ [n0 |-> Disk], i2c |-> "i2c-0" :> Pad],
       class @@ [block |-> "nvme0n1" :> Block, input |-> "event0" :> Event])
BoundTree == Laptop([w0 |-> BoundCard], [net |-> [wlan0 |-> Wlan]])
LooseTree == Laptop([w0 |-> Card], <<>>)
BareTree  == Laptop(<<>>, <<>>)
BoundMoves == {<<BoundTree, LooseTree>>, <<LooseTree, BoundTree>>, <<LooseTree, BareTree>>,
               <<BareTree, LooseTree>>}
VirtualTree ==
  Tree([pci |-> [w0 |-> BoundCard]],
       [net |-> [wlan0 |-> Wlan, wg0 |-> Virtual, bonding_masters |-> Node(<<>>)]])
PadTree ==
  Tree([i2c |-> "i2c-0" :> LoosePad, pci |-> [a0 |-> Codec]],
       [input |-> [event0 |-> LooseChild(<<>>, "i2c", "i2c-0", "device/device/driver"),
                   event1 |-> Jack],
        drm   |-> [card0 |-> Node("device/driver" :> "i915")],
        sound |-> [card0 |-> SoundCard]])

MCContained == [ELAN0670 |-> {"elan"}, wlan0 |-> {"wlan"}] @@ "i2c:ELAN0670" :> {"elan"}
MCLeading   == [wlan0 |-> {"wl"}, event0 |-> {"event"}, card0 |-> {"card"}]
MCHexOf     == "0x8086" :> 32902 @@ "0x144d" :> 5197 @@ "0x2723" :> 10019 @@ "0xa808" :> 43016
                 @@ "0xa0c8" :> 41160 @@ "0x040300" :> 262912 @@ "0x028000" :> 163840 @@ "0x010802" :> 67586
MCI2cIds    == {"i2c-0"}

-----------------------------------------------------------------------------
\* The tables of two kernels, the live one's and the target's.
Alias1 == {<<"alias", "pci:*", "pci_stub">>, <<"alias", "pci:wifi", "iwlwifi">>, <<"#", "Aliases">>}
Alias2 == {<<"alias", "pci:wifi", "iwlwifi">>, <<"alias", "pci:wifi", "iwlmvm">>,
           <<"alias", "i2c:ELAN*", "elan_i2c">>, <<"alias", "pci:nvme", "../x">>}
Info   == {<<"nvme", "alias", "pci:nvme">>, <<"nvme", "firmware", "nvme.bin">>,
           <<"nvme", "license", "GPL">>}
Firmware == {<<"iwlwifi", "iwl.ucode", "out.ucode">>, <<"elan_i2c", "elan.bin", "iwl.ucode">>}
Deps     == {<<"kernel/iwlwifi.ko", "kernel/cfg80211.ko">>, <<"kernel/elan-i2c.ko">>,
             <<"kernel/iwlmvm.ko", "kernel/iwlwifi.ko", "../x">>}
Builtin  == {<<"kernel/nvme.ko">>, <<"kernel/iwlwifi.ko">>}
MCTables ==
  "alias" :> Alias1 @@ "t.alias" :> Alias2 @@ "modinfo" :> Info @@ "firmware" :> Firmware
    @@ "dep" :> Deps @@ "builtin" :> Builtin
MCDefaultTables == [alias |-> {"alias", "t.alias"}, firmware |-> {"firmware", "modinfo"},
                    dep |-> {"dep"}, builtin |-> {"builtin"}]
MCModinfo   == {"modinfo"}
MCMalformed == {"../x"}
MCCanonical == "kernel/iwlwifi.ko" :> "iwlwifi" @@ "kernel/iwlmvm.ko" :> "iwlmvm"
                 @@ "kernel/cfg80211.ko" :> "cfg80211" @@ "kernel/elan-i2c.ko" :> "elan_i2c"
                 @@ "kernel/nvme.ko" :> "nvme"
MCTableEdits == {<<"t.alias", Alias2, {<<"alias", "pci:wifi", "iwlmvm">>}>>,
                 <<"alias", Alias1, Link>>, <<"dep", Deps, {<<"kernel/iwlmvm.ko", "kernel/iwlwifi.ko">>}>>,
                 <<"firmware", Firmware, Oversize>>}

\* One root holds a blob, a link to it and a link out; the other is a link
\* itself.
Root == [dir |-> TRUE, at |-> "/lib/firmware",
         files |-> <<"iwl.ucode", "">> :> <<"/lib/firmware", "iwl.ucode", "">>
                     @@ <<"iwl.ucode", ".xz">> :> <<"/lib/firmware", "iwl.ucode", "">>
                     @@ <<"out.ucode", ".zst">> :> <<"/etc", "out.ucode", "">>]
LinkedRoot == [dir |-> FALSE, at |-> "/srv/firmware", files |-> <<>>]
MCRoots == "root" :> Root
MCDefaultRoots == {"root", "link"}
MCRootEdits == {<<"root", Root, [Root EXCEPT !.files = <<>>]>>}

-----------------------------------------------------------------------------
Option(given, preflight, toFile, allow) ==
  [given |-> DOMAIN given, table |-> [k \in TableKind |-> IF k \in DOMAIN given THEN given[k] ELSE {}],
   roots |-> IF "root" \in DOMAIN given THEN given["root"] ELSE {},
   preflight |-> preflight, toFile |-> toFile, allowUnresolved |-> allow]
World(tree, theTables, theRoots, option) ==
  [sysfs |-> tree, tables |-> theTables, roots |-> theRoots, options |-> option]
RaceWorlds ==
  {World(BoundTree, MCTables, MCRoots, Option(<<>>, TRUE, TRUE, FALSE)),
   World(LooseTree, MCTables, MCRoots,
         Option([alias |-> {"t.alias"}, root |-> {"root"}], TRUE, FALSE, FALSE))}
QuietWorlds ==
  {World(PadTree, MCTables, "link" :> LinkedRoot @@ MCRoots, Option(<<>>, TRUE, FALSE, TRUE)),
   World(PadTree, [MCTables EXCEPT !["t.alias"] = Link], <<>>, Option(<<>>, TRUE, TRUE, TRUE)),
   World(VirtualTree, [MCTables EXCEPT !["dep"] = Oversize], MCRoots, Option(<<>>, TRUE, TRUE, FALSE)),
   World(VirtualTree, MCTables, "link" :> LinkedRoot, Option([root |-> {}], TRUE, TRUE, FALSE))}

VirtualWorlds ==
  {World(VirtualTree, MCTables, MCRoots, Option(<<>>, TRUE, t, FALSE)) : t \in BOOLEAN}

Short(letters) == {x \o y \o z : x, y, z \in letters \cup {""}} \ {""}
Values2   == {x \o y : x, y \in {"", "a", "b"}}
Patterns3 == Short({"a", "b", "*", "?"})
Only(kind, tables1) == [k \in TableKind \cup {"root"} |-> IF k = kind THEN tables1 ELSE {}]
GlobWorlds ==
  {World(Tree([platform |-> [p0 |-> Node([modalias |-> "a" \o v])]], <<>>),
         "g.alias" :> {<<"alias", p, "glob">>}, <<>>,
         Option(Only("alias", {"g.alias"}), FALSE, FALSE, FALSE)) :
     v \in Values2, p \in Patterns3}
\* A pattern that begins with an a-umlaut: two bytes, and as characters others.
WideWorlds ==
  {World(Tree([platform |-> [p0 |-> Node([modalias |-> "wide"])]], <<>>),
         "g.alias" :> {<<"alias", "wide*", "glob">>, <<"alias", "*", "nvme">>}, <<>>,
         Option(Only("alias", {"g.alias"}), FALSE, FALSE, FALSE))}
MCLatin1 == <<"a-umlaut">> :> <<"A-tilde", "currency sign">>
MCWorlds == WideWorlds \cup RaceWorlds \cup QuietWorlds \cup GlobWorlds

TextOrder ==
  <<"pci", "usb", "i2c", "acpi", "platform", "spi", "serio", "hid", "auxiliary", "firewire",
    "i3c", "mdio_bus", "mei", "mhi", "mmc", "nvme", "rpmsg", "scsi", "sdio", "soundwire",
    "thunderbolt", "typec", "virtio", "vmbus",
    "net", "sound", "drm", "block", "input", "bluetooth", "firmware",
    "", ".xz", ".zst", "../x", "/etc", "/lib/firmware", "alias", "all", "builtin", "cfg80211", "dep",
    "elan.bin", "elan_i2c", "g.alias", "glob", "iwl.ucode", "iwlmvm", "iwlwifi",
    "kernel/cfg80211.ko", "kernel/elan-i2c.ko", "kernel/iwlmvm.ko", "kernel/iwlwifi.ko",
    "kernel/nvme.ko", "link", "modinfo", "nvme.bin", "out.ucode", "pci_stub", "root", "t.alias",
    "#", "Aliases", "GPL", "license", "pci:*", "pci:wifi", "pci:nvme", "i2c:ELAN*", "i2c:ELAN0670",
    "0x8086", "0x144d", "0x2723", "0xa808", "0x028000", "0x010802", "ELAN0670", "dir", "i915", "snd", "wg",
    "0xa0c8", "0x040300", "Headphone", "wide", "wide*">>
\* The short texts come after them, as numbers to the base 5.
Digit(c) == CASE c = "a" -> 1 [] c = "b" -> 2 [] c = "*" -> 3 [] c = "?" -> 4
Code[t \in Patterns3 \cup {""}] ==
  IF t = "" THEN 0 ELSE 5 * Code[SubSeq(t, 1, Len(t) - 1)] + Digit(SubSeq(t, Len(t), Len(t)))
MCPosition ==
  [t \in ToSet(TextOrder) \cup Patterns3 |->
     IF t \in Patterns3 THEN Len(TextOrder) + Code[t] ELSE CHOOSE i \in DOMAIN TextOrder : TextOrder[i] = t]
MCSpelling ==
  "pci:*" :> <<"p", "*">> @@ "pci:wifi" :> <<"p", "w">> @@ "pci:nvme" :> <<"p", "n">>
    @@ "i2c:ELAN*" :> <<"i", "e", "*">> @@ "i2c:ELAN0670" :> <<"i", "e", "0">>
    @@ "wide" :> <<"a-umlaut">> @@ "wide*" :> <<"a-umlaut", "*">>
    @@ [t \in ToSet(TextOrder) \cup Patterns3 |-> [i \in 1 .. Len(t) |-> SubSeq(t, i, i)]]
=============================================================================
