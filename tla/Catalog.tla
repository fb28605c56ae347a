------------------------------ MODULE Catalog ------------------------------
(***************************************************************************)
(* What a hardware catalog on disk is, and the two readers every consumer  *)
(* of one goes through: verify_catalog (src/src/catalog.rs) and            *)
(* Keyring::load + load_profiles (src/src/signature.rs).                   *)
(*                                                                         *)
(* A tree is a function from the files present to their contents.  A file  *)
(* is a pair <<directory, name>>; the ".sig" beside profiles/x.toml is     *)
(* <<"signatures", x>>.  A content is an element of Bytes; the SHA-256 of  *)
(* a content is the content itself (no collisions), and the constant       *)
(* functions below say what parsing a content yields.                      *)
(***************************************************************************)
EXTENDS Naturals, Sequences, FiniteSets

CONSTANTS
  Bytes,            \* file contents
  Symlink,          \* what a tree maps a file to that is a symbolic link
  ProfilePath,      \* paths of profiles below profiles/, all ending in .toml
  RequiredSources,  \* REQUIRED_DRIVER_SOURCES, names below driver-sources/
  LockOf,           \* Bytes -> a parsed CatalogLock, ok = FALSE if it does not parse
  KeysOf,           \* Bytes -> the key records of a keyring file; one record of
                    \* an unknown scope if it does not parse
  SignatureOf,      \* Bytes -> the key a signature names and the bytes it signs
  ProfileOf,        \* Bytes -> a profile's id, ok = FALSE if it does not validate
  DriverAbiText     \* the contents that are a MAJOR.MINOR text

Top(name)     == <<"", name>>
Profile(path) == <<"profiles", path>>
SigFile(path) == <<"signatures", path>>
Source(name)  == <<"driver-sources", name>>

Keys    == Top("keys.toml")
LockTxt == Top("catalog.lock")

\* read_bounded: the entry exists and is a regular file, not a link to one.
Regular(tree, file) == file \in DOMAIN tree /\ tree[file] # Symlink
HasDigest(tree, file, sha) == Regular(tree, file) /\ tree[file] = sha

\* collect_profiles and load_profiles' collect fail on a link anywhere below
\* profiles/ and otherwise find every .toml there, listed or not.
LinkFree(tree) ==
  \A file \in DOMAIN tree :
     file[1] \in {"profiles", "signatures"} => tree[file] # Symlink
Discovered(tree) == {path \in ProfilePath : Profile(path) \in DOMAIN tree}

Distinct(entries) ==
  \A i, j \in DOMAIN entries : entries[i].path = entries[j].path => i = j
Listed(entries) == {entries[i].path : i \in DOMAIN entries}

\* Mutant: the list is checked and no table is read.
ListedOnly(lock, tree) == Listed(lock.driver_source) = RequiredSources
\* verify_driver_sources: each listed table has the recorded bytes, and the
\* list is exactly the required five.
DriverSourcesMatch(lock, tree) ==
  /\ Distinct(lock.driver_source)
  /\ \A i \in DOMAIN lock.driver_source :
        LET entry == lock.driver_source[i]
        IN  HasDigest(tree, Source(entry.path), entry.sha256)
  /\ Listed(lock.driver_source) = RequiredSources

\* Mutant: only the listed profiles are looked at, the tree is not walked.
IgnoreUnlisted(tree, lock) == TRUE
\* collect_profiles(...) and `discovered != listed`.
ExactProfileTree(tree, lock) ==
  LinkFree(tree) /\ Discovered(tree) = Listed(lock.profile)

\* verify_catalog: the lock parses with a good shape, pins the keyring, and
\* enumerates exactly the profile tree and the driver sources, by digest.
VerifyCatalog(tree) ==
  /\ Regular(tree, LockTxt)
  /\ LET lock == LockOf[tree[LockTxt]] IN
     /\ lock.ok
     /\ lock.profile # <<>>
     /\ HasDigest(tree, Keys, lock.keyring_sha256)
     /\ Distinct(lock.profile)
     /\ \A i \in DOMAIN lock.profile :
           LET entry == lock.profile[i] IN
           /\ HasDigest(tree, Profile(entry.path), entry.profile_sha256)
           /\ HasDigest(tree, SigFile(entry.path), entry.signature_sha256)
     /\ ExactProfileTree(tree, lock)
     /\ DriverSourcesMatch(lock, tree)

-----------------------------------------------------------------------------
(* Keyrings and signatures.                                                *)

\* Keyring::from_toml: every record needs a known scope; revoked records are
\* then skipped; the others must carry the id of their key (record.idOk) and
\* be unique.
Active(records) == {i \in DOMAIN records : ~records[i].revoked}
KeyringParses(records) ==
  /\ \A i \in DOMAIN records :
        records[i].scope \in {"hardware-profile", "package-index"}
  /\ \A i \in Active(records) : records[i].idOk
  /\ \A i, j \in Active(records) : records[i].id = records[j].id => i = j
KeyringOf(bytes) ==
  LET records == KeysOf[bytes]
  IN  {[id |-> records[i].id, scope |-> records[i].scope] : i \in Active(records)}

\* Mutant: a key of any scope will do.
AnyScope(keyring, payload, signature, scope) ==
  LET sig == SignatureOf[signature]
  IN  sig.ok /\ sig.key \in {k.id : k \in keyring} /\ sig.payload = payload
\* Keyring::verify_payload, under the key the signature names.
VerifyPayload(keyring, payload, signature, scope) ==
  LET sig == SignatureOf[signature]
  IN  /\ sig.ok
      /\ [id |-> sig.key, scope |-> scope] \in keyring
      /\ sig.payload = payload

\* Keyring::verify: the payload, then the typed schema.
VerifyProfile(keyring, payload, signature) ==
  /\ VerifyPayload(keyring, payload, signature, "hardware-profile")
  /\ ProfileOf[payload].ok

\* Mutant: two files may claim one id.
ClaimsTwice(tree, keyring) ==
  /\ LinkFree(tree)
  /\ \A path \in Discovered(tree) :
        /\ SigFile(path) \in DOMAIN tree
        /\ VerifyProfile(keyring, tree[Profile(path)], tree[SigFile(path)])
\* load_profiles: every profile found in the tree verifies, ids are unique.
LoadProfiles(tree, keyring) ==
  /\ LinkFree(tree)
  /\ \A path \in Discovered(tree) :
        /\ SigFile(path) \in DOMAIN tree
        /\ VerifyProfile(keyring, tree[Profile(path)], tree[SigFile(path)])
  /\ \A p, q \in Discovered(tree) :
        ProfileOf[tree[Profile(p)]].id = ProfileOf[tree[Profile(q)]].id => p = q
=============================================================================
