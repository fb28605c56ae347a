------------------------------ MODULE Profile ------------------------------
(***************************************************************************)
(* HardwareProfile::validate (src/src/profile.rs) of a document that       *)
(* parsed, CpuArchitecture::supports (src/src/facts.rs), and the profile   *)
(* that Resolve and Plan work with.                                        *)
(*                                                                         *)
(* A document has the fields of the struct.  A list is a sequence, an      *)
(* optional value a set of at most one, a text a value; whether a text is  *)
(* well formed depends on what it is used for.  A rule is a function from  *)
(* the fields it gives, of which "property_key" and "property_value" are   *)
(* two; the value of a property is a set, as in Sysfs.                     *)
(***************************************************************************)
EXTENDS Resolve, Plan

CONSTANT Refused    \* <<use, text>>: what the valid_ functions and
                    \* trim().is_empty() refuse

PROFILE_FORMAT == 1
Valid(use, text) == <<use, text>> \notin Refused

Elements(list) == {list[i] : i \in DOMAIN list}
Distinctly(list) == \A i, j \in DOMAIN list : list[i] = list[j] => i = j

\* CpuFeature, in its derived order, and CpuArchitecture::supports.
CpuFeature ==
  <<"aes", "avx", "avx2", "avx512bw", "avx512cd", "avx512dq", "avx512f", "avx512vl", "bmi1",
    "bmi2", "crc32", "fma", "fxsr", "lzcnt", "mmx", "neon", "pclmulqdq", "popcnt", "sha2",
    "sse", "sse2", "sse3", "sse4_1", "sse4_2", "ssse3", "sve", "sve2">>
Arm == {"aes", "crc32", "neon", "sha2", "sve", "sve2"}
Supports(architecture) ==
  CASE architecture = "x86-64"  -> Elements(CpuFeature) \ (Arm \ {"aes"})
    [] architecture = "aarch64" -> Arm
    [] OTHER                    -> {}
Ascending(features) ==
  \A i, j \in DOMAIN CpuFeature, k \in DOMAIN features :
    k + 1 \in DOMAIN features /\ CpuFeature[i] = features[k] /\ CpuFeature[j] = features[k + 1]
      => i < j

-----------------------------------------------------------------------------
\* What a rule asks for: a property by its key and its value.
Given(rule) ==
  (DOMAIN rule \cap Fields)
    \cup {f \in {"property"} : {"property_key", "property_value"} \subseteq DOMAIN rule}
Rule(rule) ==
  [f \in Given(rule) |->
     IF f = "property" THEN <<rule["property_key"], rule["property_value"]>> ELSE rule[f]]
Use(field) ==
  CASE field \in {"driver", "property_key"} -> "word"
    [] field \in {"name_contains", "modalias_contains", "dmi_vendor_contains",
                  "dmi_product_contains", "dmi_board_contains"} -> "text"
    [] field = "property_value" -> "property"
    [] OTHER -> "number"
RuleValid(rule) ==
  /\ Given(rule) # {}
  /\ "property_key" \in DOMAIN rule <=> "property_value" \in DOMAIN rule
  /\ \A f \in DOMAIN rule : Use(f) # "number" => Valid(Use(f), rule[f])

HeaderValid(doc) ==
  /\ doc.format = PROFILE_FORMAT
  /\ Valid("id", doc.id) /\ Valid("text", doc.name)
  /\ doc.rules # <<>> /\ \A i \in DOMAIN doc.rules : RuleValid(doc.rules[i])

PackageNames(doc) == {doc.package[i].name : i \in DOMAIN doc.package}
IsHardware(package) == package.scope \in {"driver", "firmware"}
HasHardwarePackage(doc) == \E i \in DOMAIN doc.package : IsHardware(doc.package[i])
PackagesValid(doc) ==
  /\ doc.package # <<>>
  /\ \A i, j \in DOMAIN doc.package : doc.package[i].name = doc.package[j].name => i = j
  /\ \A i \in DOMAIN doc.package :
       LET package == doc.package[i] IN
       /\ Valid("name", package.name) /\ Valid("text", package.version)
       /\ \A digest \in package.digests : Valid("digest", digest)
       /\ package.repository = IF IsHardware(package) THEN "arach-hardware" ELSE "arach-native"

DriverAbiValid(doc) ==
  /\ HasHardwarePackage(doc) => doc.driver_abi # {}
  /\ \A abi \in doc.driver_abi :
       /\ abi.minimum \in DOMAIN AbiOf /\ abi.maximum \in DOMAIN AbiOf
       /\ AtMost(AbiOf[abi.minimum], AbiOf[abi.maximum])

CompilerValid(doc) ==
  \A policy \in doc.compiler :
    LET allowed == Elements(policy.allowed_features) IN
    /\ policy.architecture # "unknown" /\ allowed # {}
    /\ Distinctly(policy.allowed_features) /\ Distinctly(policy.required_features)
    /\ Ascending(policy.allowed_features) /\ Ascending(policy.required_features)
    /\ allowed \subseteq Supports(policy.architecture)
    /\ Elements(policy.required_features) \subseteq allowed

HealthValid(doc) ==
  /\ HasHardwarePackage(doc) => doc.health # <<>>
  /\ \A i \in DOMAIN doc.health :
       LET check == doc.health[i] IN
       CASE check.kind = "driver-bound" -> \E v \in check.value : Valid("word", v)
         [] check.kind = "sysfs-exists" -> \E v \in check.value : Valid("path", v)
         [] OTHER                       -> check.value = {}

\* As many removals as packages, and each package among them.
RollbackValid(doc) ==
  /\ Len(doc.remove_packages) = Cardinality(PackageNames(doc))
  /\ PackageNames(doc) \subseteq Elements(doc.remove_packages)

RecoveryValid(doc) ==
  \A r \in doc.recovery :
    /\ 0 \notin {r.max_recoveries, r.window_seconds, r.cooldown_seconds, r.quarantine_seconds}
    /\ r.cooldown_seconds < r.window_seconds

ConflictsValid(doc) ==
  /\ \A i \in DOMAIN doc.conflicts :
       doc.conflicts[i] # doc.id /\ Valid("id", doc.conflicts[i])
  /\ Distinctly(doc.conflicts)

Validate(doc) ==
  /\ HeaderValid(doc) /\ PackagesValid(doc) /\ DriverAbiValid(doc) /\ CompilerValid(doc)
  /\ HealthValid(doc) /\ RollbackValid(doc) /\ RecoveryValid(doc) /\ ConflictsValid(doc)

-----------------------------------------------------------------------------
\* The profile of a document, as the later modules see it.
Validated(doc) ==
  [ok        |-> TRUE,
   id        |-> doc.id, priority |-> doc.priority,
   rules     |-> [i \in DOMAIN doc.rules |-> Rule(doc.rules[i])],
   conflicts |-> Elements(doc.conflicts),
   hardware  |-> HasHardwarePackage(doc),
   abi       |-> doc.driver_abi,
   compiler  |-> {[architecture |-> policy.architecture,
                   allowed  |-> Elements(policy.allowed_features),
                   required |-> Elements(policy.required_features)] : policy \in doc.compiler},
   packages  |-> PackageNames(doc), removals |-> doc.remove_packages,
   recovery  |-> doc.recovery]
ProfileFrom(doc) == IF Validate(doc) THEN Validated(doc) ELSE [ok |-> FALSE]

RuleFields == (Fields \ {"property"}) \cup {"property_key", "property_value"}

\* What the types of HardwareProfile say of a document.
IsDocument(doc) ==
  /\ doc.id \in Nat /\ doc.priority \in Int
  /\ doc.rules \in Seq(Elements(doc.rules))
  /\ \A i \in DOMAIN doc.rules : DOMAIN doc.rules[i] \subseteq RuleFields
  /\ Len(doc.package) \in Nat /\ DOMAIN doc.package = 1 .. Len(doc.package)
  /\ Len(doc.remove_packages) \in Nat
  /\ DOMAIN doc.remove_packages = 1 .. Len(doc.remove_packages)
  /\ \A x, y \in doc.compiler : x = y
  /\ \A r \in doc.recovery : r.window_seconds \in Nat /\ r.cooldown_seconds \in Nat

\* What the plan command and recovery rely on.
IsSound(profile) ==
  /\ profile.id \in Nat /\ profile.priority \in Int
  /\ profile.rules # <<>> /\ IsFiniteSet(DOMAIN profile.rules)
  /\ \A i \in DOMAIN profile.rules :
       DOMAIN profile.rules[i] # {} /\ DOMAIN profile.rules[i] \subseteq Fields
  /\ profile.id \notin profile.conflicts
  /\ profile.hardware =>
       \E abi \in profile.abi : AtMost(AbiOf[abi.minimum], AbiOf[abi.maximum])
  /\ \A x, y \in profile.compiler : x = y
  /\ \A policy \in profile.compiler :
       /\ policy.required \subseteq policy.allowed
       /\ policy.allowed \subseteq Supports(policy.architecture)
  /\ Distinctly(profile.removals) /\ Elements(profile.removals) = profile.packages
  /\ \A r \in profile.recovery :
       r.max_recoveries # 0 /\ r.cooldown_seconds \in 1 .. r.window_seconds - 1
=============================================================================
