------------------------- MODULE CatalogDurability -------------------------
(***************************************************************************)
(* CatalogSync on a disk that can lose power.  sync_catalog_with_fetcher   *)
(* calls fsync on the staging directory and, after the rename, on its      *)
(* parent (src/src/repository.rs 160-168), never on an object: until the   *)
(* kernel writes an object back, a power failure may lose its bytes, and   *)
(* until the parent is synced it may undo the rename.                      *)
(***************************************************************************)
EXTENDS CatalogSync

CONSTANTS
  Lost,             \* the content of a file whose bytes were lost, in Bytes
  MaxPowerLosses    \* bound
\* Such a file does not parse as a lock, and a repository serves none.
ASSUME LostAssumption ==
  /\ Lost \in Bytes /\ ~LockOf[Lost].ok
  /\ \A m \in Manifest : \A i \in DOMAIN m.objects : m.objects[i].sha256 # Lost

VARIABLES
  dirty,    \* files of the published tree whose bytes are not on disk
  undo,     \* what the output path holds on disk if the rename is not there
  powerLosses

dvars == <<vars, dirty, undo, powerLosses>>

Durable == NotCatalog("durable")   \* the rename is on disk

DInit == Init /\ dirty = {} /\ undo = Durable /\ powerLosses = 0

\* A step of the calls: a rename leaves every object dirty, a parent fsync
\* makes the rename durable.
DStep ==
  /\ Next
  /\ dirty' = IF output.kind # "catalog" THEN DOMAIN output'.files ELSE dirty
  /\ undo' = CASE output'.kind = "catalog" /\ output.kind # "catalog" -> output
               [] \E p \in Proc : pc[p] = "syncparent" /\ pc'[p] = "rmtemp" -> Durable
               [] OTHER -> undo
  /\ UNCHANGED powerLosses

\* The kernel writes dirty pages back (all at once, to bound the states).
WriteBack ==
  /\ dirty # {}
  /\ dirty' = {}
  /\ undo' = Durable
  /\ UNCHANGED <<vars, powerLosses>>

\* Every process dies.  Leftover staging trees are not damaged here: nothing
\* reads one (LeftoversUntouched).
PowerLoss ==
  /\ powerLosses < MaxPowerLosses
  /\ powerLosses' = powerLosses + 1
  /\ \/ \E lost \in SUBSET dirty :
          output' = [output EXCEPT !.files =
                       [f \in DOMAIN @ |-> IF f \in lost THEN Lost ELSE @[f]]]
     \/ undo # Durable /\ output' = undo
  /\ dirty' = {} /\ undo' = Durable
  /\ pc' = [p \in Proc |-> "idle"]
  /\ pid' = [p \in Proc |-> NoPid]
  /\ result' = [p \in Proc |-> "none"]
  /\ next' = [p \in Proc |-> 1]
  /\ temp' = [p \in Proc |-> NoName]
  /\ stage' = [p \in Proc |-> NoName]
  /\ UNCHANGED <<stages, temps, serial, man, started>>

DNext == DStep \/ WriteBack \/ PowerLoss
DSpec == DInit /\ [][DNext]_dvars

-----------------------------------------------------------------------------
\* The files whose bytes the catalog lock pins, the lock itself included.
Pinned(tree) == {f \in DOMAIN tree : f = LockTxt \/ f = Keys \/ f[1] # ""}

\* Bytes lost from the lock, the keyring, a profile, a signature or a driver
\* table never go unnoticed: verify_catalog, which `arach-hwd plan` runs
\* first, refuses the damaged tree.  (catalog.rs 78-175)
DamageIsDetected ==
  output.kind = "catalog" /\ (\E f \in Pinned(output.files) : output.files[f] = Lost)
     => ~VerifyCatalog(output.files)

\* Once every byte and the rename are on disk, neither a call nor a power
\* failure changes the published catalog any more.
SettledNeverChanges ==
  [][output.kind = "catalog" /\ dirty = {} /\ undo = Durable => output' = output]_dvars
=============================================================================
