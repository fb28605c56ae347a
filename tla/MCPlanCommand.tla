--------------------------- MODULE MCPlanCommand ---------------------------
(* A Wi-Fi card and a touchpad with its event node; seven profiles that    *)
(* tie, outrank, conflict with, or repeat one another; and signed ones that *)
(* do not validate.                                                         *)
EXTENDS PlanCommand, SequencesExt, TLC

MCPaths  == {"a", "b", "c"}
MCSorted == <<"a", "b", "c">>
MCSources == {"modules.alias"}

MCAbiOf == "1.0" :> <<1, 0>> @@ "1.2" :> <<1, 2>> @@ "1.9" :> <<1, 9>> @@ "1.10" :> <<1, 10>>
             @@ "2.0" :> <<2, 0>> @@ "2.1" :> <<2, 1>>
MCRefused == {<<"text", "">>}

\* The documents.
Policy(allowed, required) ==
  {[architecture |-> "x86-64", allowed_features |-> allowed, required_features |-> required]}
Package(name, scope, repository) ==
  [name |-> name, version |-> "1", scope |-> scope, repository |-> repository, digests |-> {"0"}]
Doc(id, priority, rules, conflicts) ==
  [format |-> 1, id |-> id, name |-> "a profile", priority |-> priority, rules |-> rules,
   package |-> <<Package("driver", "driver", "arach-hardware"),
                 Package("tools", "system", "arach-native")>>,
   driver_abi |-> {[minimum |-> "1.2", maximum |-> "2.0"]}, compiler |-> {},
   health |-> <<[kind |-> "driver-bound", value |-> {"iwlwifi"}]>>,
   remove_packages |-> <<"tools", "driver">>,
   recovery |-> {[max_recoveries |-> 3, window_seconds |-> 600, cooldown_seconds |-> 5,
                  quarantine_seconds |-> 3600]},
   conflicts |-> conflicts]
PciRule   == [bus |-> "pci"]
ExactRule == [vendor |-> 1, product |-> 2]
Exact     == [Doc(2, 1, <<ExactRule>>, <<>>) EXCEPT !.compiler = Policy(<<"avx2", "sse2">>, <<"sse2">>)]
Pool ==
  [generic |-> Doc(1, 1, <<PciRule>>, <<>>),
   exact   |-> Exact,
   twin    |-> Doc(3, 1, <<ExactRule>>, <<>>),
   vendor  |-> Doc(4, 2, <<[vendor |-> 1, dmi_vendor_contains |-> "lenovo"]>>, <<2>>),
   padded  |-> Doc(5, 1, <<PciRule, PciRule, PciRule>>, <<4>>),
   pad     |-> Doc(6, 1, <<[bus |-> "hid", property_key |-> "uevent", property_value |-> {"HID"}],
                           [vendor |-> 9, driver |-> "hid-multitouch"]>>, <<>>),
   again   |-> Doc(2, 3, <<PciRule>>, <<>>)]
\* Each is wrong in one respect; the first is for Driver ABIs that are all older
\* than the one that runs, though "1.9" is the greater text.
Bad ==
  [older  |-> [Exact EXCEPT !.driver_abi = {[minimum |-> "1.0", maximum |-> "1.9"]}],
   greedy |-> [Exact EXCEPT !.compiler = Policy(<<"avx2">>, <<"sse2">>)],
   alien  |-> [Exact EXCEPT !.compiler = Policy(<<"neon">>, <<>>)],
   stray  |-> [Exact EXCEPT !.remove_packages = <<"tools", "kernel">>],
   twice  |-> [Exact EXCEPT !.remove_packages = <<"tools", "driver", "tools">>],
   closed |-> [Exact EXCEPT !.driver_abi = {[minimum |-> "2.0", maximum |-> "1.10"]}],
   empty  |-> [Exact EXCEPT !.package[1].version = ""],
   half   |-> [Exact EXCEPT !.rules = <<[bus |-> "pci", property_key |-> "uevent"]>>]]
Documents == Pool @@ Bad
SigOf ==
  [generic |-> "sig1", exact |-> "sig2", twin |-> "sig3", vendor |-> "sig4",
   padded |-> "sig5", pad |-> "sig6", again |-> "sig7"] @@ [c \in DOMAIN Bad |-> "sig " \o c]

\* A content is a record: its text, or, of a lock, the profile at each path.
T(text) == [text |-> text]
Texts == DOMAIN Documents \cup {SigOf[c] : c \in DOMAIN Documents}
           \cup {"keys", "keys2", "tables", "sigIndex", "sigRevoked"}
Locks == UNION {[paths -> DOMAIN Pool] : paths \in SUBSET MCPaths \ {{}}}
           \cup [{"a"} -> DOMAIN Bad]
Plain == {T(text) : text \in Texts}
MCBytes == Plain \cup Locks

Listing(l) ==
  LET paths == SetToSeq(DOMAIN l)
  IN  [i \in DOMAIN paths |-> [path |-> paths[i], profile_sha256 |-> T(l[paths[i]]),
                               signature_sha256 |-> T(SigOf[l[paths[i]]])]]
MCLockOf ==
  [b \in Locks |->
     [ok |-> TRUE, keyring_sha256 |-> T("keys"), profile |-> Listing(b),
      driver_source |-> <<[path |-> "modules.alias", sha256 |-> T("tables")]>>]]
Key(id, scope, revoked) == [id |-> id, scope |-> scope, revoked |-> revoked, idOk |-> TRUE]
MCKeysOf ==
  [b \in MCBytes |->
     CASE b = T("keys")  -> <<Key("k1", "hardware-profile", FALSE),
                              Key("k2", "package-index", FALSE),
                              Key("k3", "hardware-profile", TRUE)>>
       [] b = T("keys2") -> <<Key("k4", "hardware-profile", FALSE)>>
       [] OTHER          -> <<Key("none", "none", FALSE)>>]
Sig(key, c) == [ok |-> TRUE, key |-> key, payload |-> T(c)]
MCSignatureOf ==
  [b \in MCBytes |->
     CASE b = T("sigIndex")   -> Sig("k2", "twin")
       [] b = T("sigRevoked") -> Sig("k3", "twin")
       [] \E c \in DOMAIN Documents : b = T(SigOf[c]) ->
            Sig("k1", CHOOSE c \in DOMAIN Documents : b = T(SigOf[c]))
       [] OTHER -> [ok |-> FALSE]]
MCProfileOf ==
  [b \in MCBytes |-> IF \E c \in DOMAIN Documents : b = T(c) THEN ProfileFrom(Documents[b.text])
                     ELSE [ok |-> FALSE]]

TreeOf(l) ==
  [f \in {LockTxt, Keys, Source("modules.alias")}
           \cup {Profile(p) : p \in DOMAIN l} \cup {SigFile(p) : p \in DOMAIN l} |->
     CASE f = LockTxt -> l
       [] f = Keys -> T("keys")
       [] f[1] = "driver-sources" -> T("tables")
       [] f[1] = "profiles" -> T(l[f[2]])
       [] OTHER -> T(SigOf[l[f[2]]])]
AllTrees == {TreeOf(l) : l \in Locks}
\* A catalog, and the same with a signed profile its lock does not list.
TwoTrees == LET one == TreeOf([a |-> "exact"])
            IN  {one, [f \in DOMAIN one \cup {Profile("b"), SigFile("b")} |->
                         CASE f = Profile("b") -> T("pad") [] f = SigFile("b") -> T("sig6")
                           [] OTHER -> one[f]]}

\* What a scan makes of these nodes and of the tables of the target.
Node(attr) == [attr |-> attr, net |-> <<>>, words |-> {}, parent |-> {}]
Nodes ==
  [card   |-> Node([vendor |-> "0x1", device |-> "0x2", class |-> "0x028000", modalias |-> "pci:1"]),
   pad    |-> Node("id/vendor" :> "0x9" @@ "driver" :> "hid-multitouch" @@ "name" :> "ELAN"
                   @@ "uevent" :> "HID"),
   sensor |-> Node([name |-> "bmc150", modalias |-> "acpi:BOSC", driver |-> "bmc150"]),
   event  |-> Node("device/name" :> "event0" @@ "device/device/driver" :> "hid-multitouch")]
BoundCard ==
  [Nodes.card EXCEPT !.attr = @ @@ [driver |-> "iwlwifi"], !.net = [wlan0 |-> TRUE]]
MCContained == [wlan0 |-> {"wlan"}, ELAN |-> {"elan"}, LENOVO |-> {"lenovo"}]
MCLeading   == [wlan0 |-> {"wl"}, event0 |-> {"event"}]
MCHexOf     == "0x1" :> 1 @@ "0x2" :> 2 @@ "0x9" :> 9 @@ "0x028000" :> 163840
MCI2cIds    == {"i2c-0"}

Metadata ==
  INSTANCE DriverMetadata WITH
    Spelling <- "acpi:*" :> <<"a", "*">> @@ "acpi:BOSC" :> <<"a", "b">> @@ "pci:1" :> <<"p">>,
    Latin1 <- <<>>, Canonical <- "k/bmc150.ko" :> "bmc150", Malformed <- {}, Modinfo <- {},
    Position <- "bmc150" :> 1 @@ "k/bmc150.ko" :> 2 @@ "modules.alias" :> 3 @@ "modules.dep" :> 4,
    MaxDriverCandidates <- 32, MaxDriverFiles <- 64, MaxFirmwareCandidates <- 64,
    MaxFirmwareFiles <- 64
TargetTables ==
  {<<"alias", "modules.alias", {<<"alias", "acpi:*", "bmc150">>}>>,
   <<"dep", "modules.dep", {<<"k/bmc150.ko">>}>>}
Inventory(flags, devices) ==
  [cpu |-> CpuFacts("cpu family" :> {} @@ "flags" :> flags, "x86-64"),
   dmi |-> [dmi_vendor_contains |-> {"LENOVO"}],
   devices |-> [i \in DOMAIN devices |-> Metadata!Annotate(devices[i], TargetTables, {}, FALSE)]]

Wifi      == PciDevice("w0", Nodes.card)
BoundWifi == PciDevice("w0", BoundCard)
Touchpad  == SimpleDevice("hid", "p0", Nodes.pad)
Sensor    == I2cDevice("i2c-0", Nodes.sensor)
EventNode == ClassDevice("input", "event0", Nodes.event)
MCInventories ==
  {Inventory({"sse2"}, <<EventNode, Touchpad, Wifi>>),
   Inventory({"sse2", "asimd"}, <<BoundWifi>>),
   Inventory({}, <<Sensor, Wifi>>)}
MCOptions == [driverAbi : {"1.10", "2.1"}, requireTargets : BOOLEAN, toFile : {TRUE}]
OneOption == [driverAbi : {"1.10"}, requireTargets : {FALSE}, toFile : BOOLEAN]
AllOptions == MCOptions \cup OneOption

\* The catalog that is edited, and planned from more than once.
Focus == edits > 0 \/ runs > 1 => tree[LockTxt] = [a |-> "exact"] /\ options \in OneOption
BothTrees == AllTrees \cup TwoTrees

\* Somebody replaces the profile, its signature and the keyring, file by file.
SomeEdits ==
  {<<Profile("a"), T("twin")>>, <<SigFile("a"), T("sig3")>>, <<SigFile("a"), T("sigIndex")>>,
   <<SigFile("a"), T("sigRevoked")>>, <<Profile("a"), NoFile>>, <<Keys, T("keys2")>>,
   <<Keys, Symlink>>,
   <<Profile("b"), T("again")>>, <<SigFile("b"), T("sig7")>>}
=============================================================================
