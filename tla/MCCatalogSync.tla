--------------------------- MODULE MCCatalogSync ---------------------------
(* Two snapshots of a catalog with one profile and one driver table, and    *)
(* manifests that fail each of the checks sync_catalog makes.               *)
EXTENDS CatalogSync, TLC

MCBytes == {"keys", "lockA", "lockB", "index", "indexSig", "abi", "abi2", "tables",
            "profA", "sigA", "profB", "sigB", "notes", "lost"}
MCProfilePath == {"pci"}
MCSources == {"modules.alias"}

Entry(b, s) == [path |-> "pci", profile_sha256 |-> b, signature_sha256 |-> s]
Lock(b, s) ==
  [ok |-> TRUE, keyring_sha256 |-> "keys", profile |-> <<Entry(b, s)>>,
   driver_source |-> <<[path |-> "modules.alias", sha256 |-> "tables"]>>]
NotALock == [ok |-> FALSE]
MCLockOf == [b \in MCBytes |-> CASE b = "lockA" -> Lock("profA", "sigA")
                                 [] b = "lockB" -> Lock("profB", "sigB")
                                 [] OTHER -> NotALock]
Key(id, scope) == [id |-> id, scope |-> scope, revoked |-> FALSE, idOk |-> TRUE]
MCKeysOf == [b \in MCBytes |-> IF b = "keys"
               THEN <<Key("k1", "hardware-profile"), Key("k2", "package-index")>>
               ELSE <<Key("none", "none")>>]
Sig(key, payload) == [ok |-> TRUE, key |-> key, payload |-> payload]
MCSignatureOf == [b \in MCBytes |-> CASE b = "sigA" -> Sig("k1", "profA")
                                      [] b = "sigB" -> Sig("k1", "profB")
                                      [] b = "indexSig" -> Sig("k2", "index")
                                      [] OTHER -> [ok |-> FALSE]]
MCProfileOf == [b \in MCBytes |-> [ok |-> b \in {"profA", "profB"}, id |-> b]]
MCDriverAbiText == {"abi", "abi2"}
MCSizeOf == [b \in MCBytes |-> CASE b = "notes" -> 2 [] b = "lost" -> 0 [] OTHER -> 1]

Object(file, b) == [path |-> file, url |-> file, sha256 |-> b,
                    size |-> MCSizeOf[b], safe |-> TRUE]
Objects(lock, prof, sig) ==
  << Object(Keys, "keys"), Object(LockTxt, lock),
     Object(Top("packages.toml"), "index"),
     Object(Top("packages.toml.sig"), "indexSig"),
     Object(Top("driver-abi"), "abi"), Object(Source("modules.alias"), "tables"),
     Object(Profile("pci"), prof), Object(SigFile("pci"), sig) >>
Served(objects) == [signed |-> TRUE, headerOk |-> TRUE, size |-> 1, objects |-> objects]

A == Served(Objects("lockA", "profA", "sigA"))
B == Served(Objects("lockB", "profB", "sigB"))
Unsigned == [A EXCEPT !.signed = FALSE]
Extra    == Served(Append(A.objects, Object(Top("notes"), "notes")))
TooBig   == Served(Append(Extra.objects, Object(Top("more"), "notes")))
\* The file driver-abi twice, with different contents.
Twice    == Served(Append(A.objects, [Object(Top("driver-abi"), "abi2") EXCEPT !.url = Top("mirror")]))
AllManifests == {A, Extra, Twice, Unsigned, TooBig}
GoodManifests == {A, B}
OneManifest == {A}
\* Another file of the right length and form, or a link.
SomeSubstitutes == {"abi2", Symlink}
\* Of the right length and form: only the manifest digest tells it apart.
OneSubstitute == {"abi2"}

Symmetry == Permutations(Proc) \cup Permutations(Pid)
=============================================================================
