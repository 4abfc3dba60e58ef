--------------------------- MODULE DeviceIdentity --------------------------
(***************************************************************************)
(* The identity of the device that every init request carries.             *)
(*                                                                         *)
(* getUUID looks for an identifier in the keychain, which outlives the     *)
(* process and the installation; if it finds none it takes the digest of   *)
(* the vendor identifier, which a reinstallation changes, and saves it by  *)
(* deleting the old item and adding a new one.  Load and save share ONE    *)
(* static query dictionary, and each leaves keys in it that the other did  *)
(* not mean to send.  A push may start the application after a reboot and  *)
(* before the first unlock, when neither the keychain nor the vendor       *)
(* identifier can be read.                                                 *)
(***************************************************************************)
EXTENDS Naturals, FiniteSets

CONSTANTS
  MaxInstalls,         \* bound: installations, each with a vendor identifier
  LaunchBeforeUnlock,  \* may the process run before the first unlock?
  Keychains            \* the behaviours of the keychain that are considered

\* What a keychain may refuse about a query with keys of another operation.
Refusal == {"deleteWithLimit", "addWithReturn", "loadWithData"}

ASSUME DeviceAssumption ==
  /\ MaxInstalls \in Nat \ {0}
  /\ LaunchBeforeUnlock \in BOOLEAN
  /\ Keychains \subseteq SUBSET Refusal

\* Identifiers: the digest of the vendor identifier of an installation, or of
\* the text "(null)" that stands for a vendor identifier that cannot be read.
Digest == 1..MaxInstalls
NullDigest == 0
NoId == MaxInstalls + 1
Id == Digest \cup {NullDigest}

VARIABLES
  refuses,     \* what this keychain refuses; a constant of the device
  locked,      \* rebooted and not yet unlocked
  install,     \* the current installation
  item,        \* the keychain item; it survives process and installation
  up,          \* does the process run?
  queryData,   \* kSecValueData in the static query, left there by a save
  adding,      \* the identifier that save is adding, between its two calls
  issued,      \* history: the identifiers returned, ever ...
  issuedHere,  \* ... and since the last installation
  ranLocked    \* history: has getUUID run before an unlock?

identityVars == <<refuses, locked, install, item, up, queryData, adding, issued,
                issuedHere, ranLocked>>

IdentityTypeOK ==
  /\ refuses \in Keychains
  /\ locked \in BOOLEAN
  /\ install \in 1..MaxInstalls
  /\ item \in Id \cup {NoId}
  /\ up \in BOOLEAN
  /\ queryData \in Id \cup {NoId}
  /\ adding \in Id \cup {NoId}
  /\ issued \subseteq Id
  /\ issuedHere \subseteq issued
  /\ ranLocked \in BOOLEAN

IdentityInit ==
  /\ refuses \in Keychains
  /\ locked = FALSE
  /\ install = 1
  /\ item = NoId
  /\ up = FALSE
  /\ queryData = NoId
  /\ adding = NoId
  /\ issued = {}
  /\ issuedHere = {}
  /\ ranLocked = FALSE

-----------------------------------------------------------------------------
(***************************************************************************)
(* The device.                                                             *)
(***************************************************************************)
Launch ==
  /\ ~up
  /\ locked => LaunchBeforeUnlock
  /\ up' = TRUE
  /\ UNCHANGED <<refuses, locked, install, item, queryData, adding, issued,
                 issuedHere, ranLocked>>

\* The static query dies with the process, and so does a save half done.
Exit ==
  /\ up
  /\ up' = FALSE
  /\ queryData' = NoId
  /\ adding' = NoId
  /\ UNCHANGED <<refuses, locked, install, item, issued, issuedHere, ranLocked>>

Reboot ==
  /\ ~up
  /\ ~locked
  /\ locked' = TRUE
  /\ UNCHANGED <<refuses, install, item, up, queryData, adding, issued,
                 issuedHere, ranLocked>>

Unlock ==
  /\ locked
  /\ locked' = FALSE
  /\ UNCHANGED <<refuses, install, item, up, queryData, adding, issued,
                 issuedHere, ranLocked>>

\* The vendor identifier changes with the reinstallation, the keychain stays.
Reinstall ==
  /\ ~up
  /\ ~locked
  /\ install < MaxInstalls
  /\ install' = install + 1
  /\ issuedHere' = {}
  /\ UNCHANGED <<refuses, locked, item, up, queryData, adding, issued, ranLocked>>

-----------------------------------------------------------------------------
(***************************************************************************)
(* getUUID.                                                                *)
(***************************************************************************)

Matches == item # NoId /\ queryData \in {NoId, item}

\* load: SecItemCopyMatching with the shared query.
LoadFinds ==
  /\ ~locked
  /\ Matches
  /\ queryData # NoId => "loadWithData" \notin refuses

Return(id) ==
  /\ issued' = issued \cup {id}
  /\ issuedHere' = issuedHere \cup {id}

\* The keychain holds an identifier: it is the answer.
GetUUIDStored ==
  /\ up /\ adding = NoId
  /\ LoadFinds
  /\ Return(item)
  /\ UNCHANGED <<refuses, locked, install, item, up, queryData, adding, ranLocked>>

\* Faulty variant: a fresh UUID instead of the digest, as the code once did.
FreshUUID == 1 + (Cardinality(issued) % MaxInstalls)

\* identifierForVendor is nil as long as the device is locked.
VendorDigest == IF locked THEN NullDigest ELSE install

\* Nothing found: an identifier is made, and save begins by deleting the item
\* that its query matches.  The query holds the match limit of the load before,
\* which the keychain may refuse in a delete; whether a locked keychain deletes
\* is left open.
GetUUIDGenerate ==
  /\ up /\ adding = NoId
  /\ ~LoadFinds
  /\ adding' = VendorDigest
  /\ \/ Matches /\ "deleteWithLimit" \notin refuses /\ item' = NoId
     \/ Matches /\ "deleteWithLimit" \in refuses /\ item' = item
     \/ ~Matches /\ item' = item
     \/ locked /\ item' = item
  /\ ranLocked' = (ranLocked \/ locked)
  /\ UNCHANGED <<refuses, locked, install, up, queryData, issued, issuedHere>>

\* Faulty variant: the fresh identifier is returned but not saved.
AddForgotten ==
  /\ up /\ adding # NoId
  /\ queryData' = adding
  /\ Return(adding)
  /\ adding' = NoId
  /\ UNCHANGED <<refuses, locked, install, item, up, ranLocked>>

\* save ends by adding the item; the result is ignored and the identifier is
\* returned whether it was stored or not.  The query holds the return key of
\* the load before, and keeps the data for the next load.
GetUUIDAdd ==
  /\ up /\ adding # NoId
  /\ queryData' = adding
  /\ item' = IF item # NoId \/ locked \/ "addWithReturn" \in refuses
               THEN item ELSE adding
  /\ Return(adding)
  /\ adding' = NoId
  /\ UNCHANGED <<refuses, locked, install, up, ranLocked>>

IdentityNext == \/ Launch \/ Exit \/ Reboot \/ Unlock \/ Reinstall
        \/ GetUUIDStored \/ GetUUIDGenerate \/ GetUUIDAdd

IdentitySpec == IdentityInit /\ [][IdentityNext]_identityVars

-----------------------------------------------------------------------------
(***************************************************************************)
(* Properties.                                                             *)
(***************************************************************************)
Same(ids) == \A a, b \in ids : a = b

\* One installation shows the server one device, whatever the keychain makes of
\* the keys that load and save leave in each other's query, and wherever the
\* process is killed; the one condition is that getUUID only ran unlocked.
OneIdPerInstall == ~ranLocked => Same(issuedHere)

\* What the keychain is used for: with a keychain that tolerates the mixed
\* query, the device keeps its identity over a reinstallation, although the
\* vendor identifier changes.
IdentitySurvivesReinstall == refuses = {} /\ ~ranLocked => Same(issued)
=============================================================================
