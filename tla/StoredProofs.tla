---------------------------- MODULE StoredProofs ----------------------------
(***************************************************************************)
(* What holds of the archive, of the identity and of the reception of      *)
(* pushes for every value of their constants.                              *)
(***************************************************************************)
EXTENDS ArchiveFile, DeviceIdentity, PushReception, TLAPS

-----------------------------------------------------------------------------
(***************************************************************************)
(* Proofs about ArchiveFile, for any set of values and any number of       *)
(* writes that a file takes.                                               *)
(***************************************************************************)

(***************************************************************************)
(* The inductive invariant: a data file is open only during a save of the  *)
(* running process, and is then still short and holds the value being      *)
(* saved; otherwise, unless a save was cut short, the file holds the last  *)
(* completed save.                                                         *)
(***************************************************************************)
OpenIsOfSave ==
  /\ saving # None => running
  /\ opened => saving # None /\ data.value = saving /\ data.size < Chunks

FileIsDurable == ~opened /\ ~damaged => Decode(data) = durable

FileInvariant == TypeOK /\ OpenIsOfSave /\ FileIsDurable

USE ArchiveFileAssumption

\* What a file decodes to.
LEMMA DecodeType ==
  ASSUME NEW f \in File
  PROVE  /\ Decode(f) \in Values \cup {Absent, Torn}
         /\ f.size \in 0..Chunks
         /\ f.size = 0 => Decode(f) = Absent
         /\ f.size = Chunks => Decode(f) = f.value
         /\ f.size \in 1..(Chunks - 1) <=> Decode(f) = Torn
<1>1. CASE f = NoFile
  <2>1. f.size = 0
    BY <1>1 DEF NoFile
  <2> QED BY <2>1 DEF Decode, Absent, Torn
<1>2. CASE f \in [value : Values, size : 0..Chunks]
  <2>1. f.value \in Values /\ f.size \in 0..Chunks
    BY <1>2
  <2> QED BY <2>1 DEF Decode, Absent, Torn
<1> QED BY <1>1, <1>2 DEF File

LEMMA FileInit == Init => FileInvariant
<1> SUFFICES ASSUME Init PROVE FileInvariant
  OBVIOUS
<1>1. data \in File /\ Decode(data) = Absent
  BY DEF Init, File, NoFile, Decode
<1> QED BY <1>1 DEF Init, FileInvariant, TypeOK, OpenIsOfSave, FileIsDurable

\* The end of the process keeps the invariant: it closes the file, and what it
\* cuts short it marks as damaged.
LEMMA StopInvariant == ASSUME FileInvariant, Stop PROVE FileInvariant'
BY DEF FileInvariant, TypeOK, OpenIsOfSave, FileIsDurable, Stop, Decode

\* A write to the open file keeps its type and makes it longer by one.
LEMMA WriteLonger ==
  ASSUME FileInvariant, WriteData
  PROVE  /\ data' \in File
         /\ data'.value = data.value
         /\ data'.size = data.size + 1
<1> USE DEF FileInvariant, TypeOK, OpenIsOfSave
<1>1. data # NoFile /\ data \in [value : Values, size : 0..Chunks]
  BY DEF WriteData, File, NoFile
<1>2. data' = [data EXCEPT !.size = data.size + 1]
  BY DEF WriteData
<1>3. data.size \in 0..(Chunks - 1)
  BY <1>1 DEF WriteData
<1> QED BY <1>1, <1>2, <1>3 DEF File

LEMMA FileNext == FileInvariant /\ [Next]_vars => FileInvariant'
<1> SUFFICES ASSUME FileInvariant, [Next]_vars PROVE FileInvariant'
  OBVIOUS
<1> USE DEF FileInvariant
<1>1. CASE Start
  BY <1>1 DEF Start, TypeOK, OpenIsOfSave, FileIsDurable, Decode
<1>2. ASSUME NEW v \in Values, OpenExpires(v) PROVE FileInvariant'
  BY <1>2 DEF OpenExpires, TypeOK, OpenIsOfSave, FileIsDurable, Decode, None
<1>3. CASE WriteExpires
  BY <1>3 DEF WriteExpires, TypeOK, OpenIsOfSave, FileIsDurable, Decode
<1>4. CASE OpenData
  <2>1. saving \in Values
    BY <1>4 DEF OpenData, TypeOK
  <2>2. data' \in File /\ data'.value = saving /\ data'.size = 0
    BY <1>4, <2>1 DEF OpenData, File
  <2>3. before' \in Values \cup {Absent, Torn}
    BY <1>4, DecodeType DEF OpenData, TypeOK
  <2> QED BY <1>4, <2>2, <2>3 DEF OpenData, TypeOK, OpenIsOfSave, FileIsDurable
<1>5. CASE WriteData
  <2>1. /\ data' \in File
        /\ data'.value = data.value
        /\ data'.size = data.size + 1
    BY <1>5, WriteLonger
  <2>2. saving \in Values /\ data.value = saving /\ data.size \in 0..(Chunks - 1)
    BY <1>5, DecodeType DEF WriteData, TypeOK, OpenIsOfSave
  <2>3. CASE data'.size = Chunks
    <3>1. Decode(data') = saving
      BY <2>1, <2>2, <2>3, DecodeType
    <3> QED BY <1>5, <2>1, <2>2, <2>3, <3>1
            DEF WriteData, TypeOK, OpenIsOfSave, FileIsDurable, Decode
  <2>4. CASE data'.size # Chunks
    BY <1>5, <2>1, <2>2, <2>4 DEF WriteData, TypeOK, OpenIsOfSave, FileIsDurable
  <2> QED BY <2>3, <2>4
<1>6. CASE GetObject
  <2>1. answer' \in Values \cup {Absent, None}
    BY <1>6, DecodeType DEF GetObject, IsExpired, TypeOK
  <2> QED BY <1>6, <2>1
          DEF GetObject, TypeOK, OpenIsOfSave, FileIsDurable, Decode
<1>7. CASE GetObjectRaises \/ Kill
  BY <1>7, StopInvariant DEF GetObjectRaises, Kill
<1>8. CASE ClearCaches
  <2>1. NoFile \in File /\ Decode(NoFile) = Absent
    BY DEF File, NoFile, Decode
  <2>2. ~opened /\ ~opened'
    BY <1>8 DEF ClearCaches, OpenIsOfSave
  <2>3. CASE data' = NoFile /\ durable' = Absent /\ damaged' = FALSE
    <3>1. data' \in File /\ Decode(data') = Absent
      BY <2>1, <2>3
    <3>2. FileIsDurable'
      BY <2>3, <3>1 DEF FileIsDurable, Decode
    <3> QED BY <1>8, <2>2, <2>3, <3>1, <3>2 DEF ClearCaches, TypeOK, OpenIsOfSave
  <2>4. CASE UNCHANGED <<data, durable, damaged>>
    BY <1>8, <2>4 DEF ClearCaches, TypeOK, OpenIsOfSave, FileIsDurable, Decode
  <2> QED BY <1>8, <2>3, <2>4 DEF ClearCaches
<1>9. CASE UNCHANGED vars
  BY <1>9 DEF vars, TypeOK, OpenIsOfSave, FileIsDurable, Decode
<1> QED BY <1>1, <1>2, <1>3, <1>4, <1>5, <1>6, <1>7, <1>8, <1>9 DEF Next

THEOREM FileInvariance == Spec => []FileInvariant
BY FileInit, FileNext, PTL DEF Spec

\* getObject raises only after a save was cut short: without a kill there is
\* no torn archive.
THEOREM RaisesOnlyIfDamaged == Spec => []RaiseNeedsDamage
<1>1. FileInvariant => RaiseNeedsDamage
  BY DEF FileInvariant, TypeOK, FileIsDurable, OpenIsOfSave, RaiseNeedsDamage,
         Torn, Absent
<1> QED BY <1>1, FileInvariance, PTL

\* A completed save is what every later read answers, across kills, until the
\* next save has opened the file.
THEOREM SaveSurvives == Spec => CompletedSaveSurvives
<1>1. FileInvariant /\ [Next]_vars
        => [GetObject /\ ~damaged => answer' = durable]_vars
  <2> SUFFICES ASSUME FileInvariant, GetObject, ~damaged
               PROVE  answer' = durable
    OBVIOUS
  <2>1. ~opened
    BY DEF GetObject, FileInvariant, OpenIsOfSave
  <2> QED BY <2>1 DEF GetObject, IsExpired, FileInvariant, FileIsDurable
<1> QED BY <1>1, FileInvariance, PTL DEF Spec, CompletedSaveSurvives

-----------------------------------------------------------------------------
(***************************************************************************)
(* The files implement the register.                                       *)
(***************************************************************************)
Content == IF opened THEN before ELSE Decode(data)

LEMMA RegisterInit == Init => Register!Init
BY DEF Init, Register!Init, Decode, NoFile, Absent, None, Register!Absent,
       Register!None

LEMMA RegisterStep ==
  ASSUME FileInvariant, FileInvariant', [Next]_vars
  PROVE  Register!Next \/ UNCHANGED <<Content, running, saving, answer>>
<1> USE DEF FileInvariant, Content, None, Absent, Torn, Register!None,
            Register!Absent, Register!Torn
<1>1. CASE Start
  <2>1. Register!Start
    BY <1>1 DEF Start, Register!Start, Decode
  <2> QED BY <2>1 DEF Register!Next
<1>2. ASSUME NEW v \in Values, OpenExpires(v)
      PROVE  Register!Begin(v)
  BY <1>2 DEF OpenExpires, Register!Begin, Decode
<1>3. CASE WriteExpires
  BY <1>3 DEF WriteExpires, Decode
<1>4. CASE OpenData
  BY <1>4 DEF OpenData
<1>5. CASE WriteData
  <2>1. /\ data'.value = saving
        /\ data'.size = data.size + 1
        /\ data' \in File
    BY <1>5, WriteLonger DEF WriteData, OpenIsOfSave
  <2>2. CASE data'.size = Chunks
    <3>1. Decode(data') = saving
      BY <2>1, <2>2, DecodeType
    <3>2. Content' = saving
      BY <1>5, <2>2, <3>1 DEF WriteData, Decode
    <3> QED BY <1>5, <2>2, <3>2
            DEF WriteData, OpenIsOfSave, Register!Next, Register!Commit
  <2>3. CASE data'.size # Chunks
    BY <1>5, <2>3 DEF WriteData
  <2> QED BY <2>2, <2>3
<1>6. CASE GetObject
  <2>1. ~opened
    BY <1>6 DEF GetObject, OpenIsOfSave
  <2> QED BY <1>6, <2>1
          DEF GetObject, IsExpired, Register!Next, Register!Read, Decode
<1>7. CASE GetObjectRaises \/ Kill
  <2>1. Stop /\ running
    BY <1>7 DEF GetObjectRaises, Kill
  <2>2. Content' = Decode(data)
    BY <2>1 DEF Stop, Decode
  <2>3. CASE opened
    <3>1. data.size < Chunks /\ saving # None
      BY <2>3 DEF OpenIsOfSave
    <3>2. Decode(data) \in {Absent, Torn}
      BY <3>1, DecodeType DEF TypeOK
    <3> QED BY <2>1, <2>2, <3>1, <3>2 DEF Stop, Register!Next, Register!Stop
  <2>4. CASE ~opened
    BY <2>1, <2>2, <2>4 DEF Stop, Register!Next, Register!Stop
  <2> QED BY <2>3, <2>4
<1>8. CASE ClearCaches
  <2>1. ~opened /\ ~opened'
    BY <1>8 DEF ClearCaches, OpenIsOfSave
  <2>2. CASE data' = NoFile
    <3>1. Content' = Absent
      BY <2>1, <2>2 DEF Decode, NoFile
    <3> QED BY <1>8, <3>1 DEF ClearCaches, Register!Next, Register!Clear
  <2>3. CASE UNCHANGED data
    BY <1>8, <2>3 DEF ClearCaches, Decode
  <2> QED BY <1>8, <2>2, <2>3 DEF ClearCaches
<1>9. CASE UNCHANGED vars
  BY <1>9 DEF vars, Decode
<1> QED BY <1>1, <1>2, <1>3, <1>4, <1>5, <1>6, <1>7, <1>8, <1>9 DEF Next, Register!Next

\* Reads and saves of the two files behave as a register that a kill during a
\* save can empty or tear, and nothing else can.
THEOREM FilesImplementRegister == Spec => ImplementsRegister
<1>1. FileInvariant /\ FileInvariant' /\ [Next]_vars
        => [Register!Next]_<<Content, running, saving, answer>>
  BY RegisterStep
<1>2. Spec => Register!Init /\ [][Register!Next]_<<Content, running, saving, answer>>
  BY <1>1, RegisterInit, FileInvariance, PTL DEF Spec
<1> QED BY <1>2 DEF ImplementsRegister, Register!Spec, Register!register, Content

-----------------------------------------------------------------------------
(***************************************************************************)
(* Proofs about DeviceIdentity, for any number of installations and any    *)
(* set of keychain behaviours.                                             *)
(***************************************************************************)

(***************************************************************************)
(* The inductive invariant behind OneIdPerInstall.  As long as getUUID ran *)
(* unlocked only:                                                          *)
(*   - the process adds and remembers the identifier of this installation, *)
(*     and while it does, the keychain holds that one or none;             *)
(*   - an identifier issued in this installation is the one the keychain   *)
(*     holds, or the keychain is empty and it is the digest that the next  *)
(*     call will make again.                                               *)
(***************************************************************************)
OwnIdentifier ==
  ~ranLocked =>
    /\ adding # NoId => adding = install
    /\ queryData # NoId => queryData = install
    /\ adding # NoId \/ queryData # NoId => item \in {NoId, install}

IssuedIsHeld ==
  ~ranLocked => \A a \in issuedHere : item = a \/ (item = NoId /\ a = install)

\* A process that does not run has no static query.
QueryIsOfProcess == ~up => queryData = NoId /\ adding = NoId

InstallInvariant ==
  IdentityTypeOK /\ QueryIsOfProcess /\ OwnIdentifier /\ IssuedIsHeld

\* The identifiers of installations are neither NoId nor the null digest.
LEMMA IdsDiffer ==
  /\ NoId \notin Id
  /\ \A i \in 1..MaxInstalls : i \in Id /\ i # NoId
BY DeviceAssumption DEF NoId, Id, Digest, NullDigest

LEMMA TypeInit == IdentityInit => IdentityTypeOK
<1> SUFFICES ASSUME IdentityInit PROVE IdentityTypeOK
  OBVIOUS
<1>1. install \in 1..MaxInstalls
  BY DeviceAssumption DEF IdentityInit
<1>2. issued \subseteq Id /\ issuedHere \subseteq issued
  BY DEF IdentityInit
<1> QED BY <1>1, <1>2 DEF IdentityInit, IdentityTypeOK

\* Types are kept by every step.
LEMMA TypeNext == IdentityTypeOK /\ [IdentityNext]_identityVars => IdentityTypeOK'
<1> SUFFICES ASSUME IdentityTypeOK, [IdentityNext]_identityVars PROVE IdentityTypeOK'
  OBVIOUS
<1> USE DEF IdentityTypeOK
<1>1. CASE Launch \/ Exit \/ Reboot \/ Unlock
  BY <1>1 DEF Launch, Exit, Reboot, Unlock
<1>2. CASE Reinstall
  <2>1. install' \in 1..MaxInstalls
    BY <1>2, DeviceAssumption DEF Reinstall
  <2> QED BY <1>2, <2>1 DEF Reinstall
<1>3. CASE GetUUIDStored
  <2>1. item \in Id
    BY <1>3 DEF GetUUIDStored, LoadFinds, Matches
  <2> QED BY <1>3, <2>1 DEF GetUUIDStored, Return
<1>4. CASE GetUUIDGenerate
  <2>1. VendorDigest \in Id
    BY DEF VendorDigest, Id, Digest
  <2> QED BY <1>4, <2>1 DEF GetUUIDGenerate
<1>5. CASE GetUUIDAdd
  <2>1. adding \in Id
    BY <1>5 DEF GetUUIDAdd
  <2> QED BY <1>5, <2>1 DEF GetUUIDAdd, Return
<1>6. CASE UNCHANGED identityVars
  BY <1>6 DEF identityVars
<1> QED BY <1>1, <1>2, <1>3, <1>4, <1>5, <1>6 DEF IdentityNext

\* A load that fails unlocked found no item, or an item of this process.
LEMMA FailedLoad ==
  ASSUME InstallInvariant, ~ranLocked, ~locked, ~LoadFinds
  PROVE  item \in {NoId, install}
BY DEF InstallInvariant, OwnIdentifier, LoadFinds, Matches

\* Every step keeps the invariant.
LEMMA InstallNext == InstallInvariant /\ [IdentityNext]_identityVars => InstallInvariant'
<1> SUFFICES ASSUME InstallInvariant, [IdentityNext]_identityVars PROVE InstallInvariant'
  OBVIOUS
<1> USE DEF InstallInvariant
<1>a. IdentityTypeOK'
  BY TypeNext
<1>b. install \in 1..MaxInstalls /\ install # NoId
  BY IdsDiffer DEF IdentityTypeOK
<1>1. CASE Launch \/ Exit \/ Reboot \/ Unlock
  BY <1>a, <1>1 DEF Launch, Exit, Reboot, Unlock, QueryIsOfProcess,
                    OwnIdentifier, IssuedIsHeld
<1>2. CASE Reinstall
  BY <1>a, <1>2 DEF Reinstall, QueryIsOfProcess, OwnIdentifier, IssuedIsHeld
<1>3. CASE GetUUIDStored
  <2>1. issuedHere' = issuedHere \cup {item} /\ item # NoId
    BY <1>3 DEF GetUUIDStored, Return, LoadFinds, Matches
  <2>2. UNCHANGED <<install, item, up, queryData, adding, ranLocked>>
    BY <1>3 DEF GetUUIDStored
  <2> QED BY <1>a, <2>1, <2>2 DEF QueryIsOfProcess, OwnIdentifier, IssuedIsHeld
<1>4. CASE GetUUIDGenerate
  <2>1. CASE ranLocked'
    BY <1>a, <1>4, <2>1
       DEF GetUUIDGenerate, QueryIsOfProcess, OwnIdentifier, IssuedIsHeld
  <2>2. CASE ~ranLocked'
    <3>1. ~ranLocked /\ ~locked
      BY <1>4, <2>2 DEF GetUUIDGenerate, IdentityTypeOK
    <3>2. item \in {NoId, install} /\ item' \in {NoId, item}
      BY <1>4, <3>1, FailedLoad DEF GetUUIDGenerate
    <3>3. /\ adding' = install
          /\ UNCHANGED <<install, up, queryData, issuedHere>>
          /\ up
      BY <1>4, <3>1 DEF GetUUIDGenerate, VendorDigest
    <3>4. QueryIsOfProcess' /\ OwnIdentifier'
      BY <3>1, <3>2, <3>3 DEF QueryIsOfProcess, OwnIdentifier
    <3>5. IssuedIsHeld'
      BY <1>b, <3>1, <3>2, <3>3 DEF IssuedIsHeld
    <3> QED BY <1>a, <3>4, <3>5
  <2> QED BY <2>1, <2>2
<1>5. CASE GetUUIDAdd
  <2>1. /\ UNCHANGED <<install, up, ranLocked>>
        /\ up
        /\ adding # NoId /\ adding' = NoId /\ queryData' = adding
        /\ issuedHere' = issuedHere \cup {adding}
        /\ item' \in {item, adding} /\ (item # NoId => item' = item)
    BY <1>5 DEF GetUUIDAdd, Return
  <2>2. CASE ranLocked
    BY <1>a, <2>1, <2>2 DEF QueryIsOfProcess, OwnIdentifier, IssuedIsHeld
  <2>3. CASE ~ranLocked
    <3>1. adding = install /\ item \in {NoId, install}
      BY <2>1, <2>3 DEF OwnIdentifier
    <3>2. QueryIsOfProcess' /\ OwnIdentifier'
      BY <2>1, <3>1 DEF QueryIsOfProcess, OwnIdentifier
    <3>3. NoId \notin issuedHere
      BY IdsDiffer DEF IdentityTypeOK
    <3>4. IssuedIsHeld'
      BY <1>b, <2>1, <2>3, <3>1, <3>3 DEF IssuedIsHeld
    <3> QED BY <1>a, <3>2, <3>4
  <2> QED BY <2>2, <2>3
<1>6. CASE UNCHANGED identityVars
  BY <1>a, <1>6 DEF identityVars, QueryIsOfProcess, OwnIdentifier, IssuedIsHeld
<1> QED BY <1>1, <1>2, <1>3, <1>4, <1>5, <1>6 DEF IdentityNext

\* Types: identifiers are digests, and what is issued here was issued.
THEOREM IdentityTypeCorrect == IdentitySpec => []IdentityTypeOK
BY TypeInit, TypeNext, PTL DEF IdentitySpec

THEOREM InstallInvariance == IdentitySpec => []InstallInvariant
<1>1. IdentityInit => InstallInvariant
  BY TypeInit DEF IdentityInit, InstallInvariant, QueryIsOfProcess, OwnIdentifier,
                  IssuedIsHeld
<1> QED BY <1>1, InstallNext, PTL DEF IdentitySpec

\* One installation shows the server one device.
THEOREM OneIdentifier == IdentitySpec => []OneIdPerInstall
<1>1. InstallInvariant => OneIdPerInstall
  <2> SUFFICES ASSUME InstallInvariant, ~ranLocked,
                      NEW a \in issuedHere, NEW b \in issuedHere
               PROVE  a = b
    BY DEF OneIdPerInstall, Same
  <2>1. NoId \notin issuedHere
    BY IdsDiffer DEF InstallInvariant, IdentityTypeOK
  <2> QED BY <2>1 DEF InstallInvariant, IssuedIsHeld
<1> QED BY <1>1, InstallInvariance, PTL

-----------------------------------------------------------------------------
(***************************************************************************)
(* With a tolerant keychain the identifier is kept for good.  Then a load  *)
(* only fails while the keychain is empty, and it is empty only as long as *)
(* nothing has been issued.                                                *)
(***************************************************************************)
Kept ==
  refuses = {} /\ ~ranLocked =>
    /\ issued \subseteq {item}
    /\ queryData \in {NoId, item}
    /\ adding # NoId => item = NoId /\ issued = {} /\ ~locked


KeptInvariant == IdentityTypeOK /\ QueryIsOfProcess /\ Kept

LEMMA KeptNext == KeptInvariant /\ [IdentityNext]_identityVars => KeptInvariant'
<1> SUFFICES ASSUME KeptInvariant, [IdentityNext]_identityVars PROVE KeptInvariant'
  OBVIOUS
<1> USE DEF KeptInvariant
<1>a. IdentityTypeOK'
  BY TypeNext
<1>1. CASE Launch \/ Exit \/ Reboot \/ Unlock \/ Reinstall
  BY <1>a, <1>1 DEF Launch, Exit, Reboot, Unlock, Reinstall, QueryIsOfProcess, Kept
<1>2. CASE GetUUIDStored
  <2>1. UNCHANGED <<refuses, locked, item, up, queryData, adding, ranLocked>>
    BY <1>2 DEF GetUUIDStored
  <2>2. issued' = issued \cup {item} /\ adding = NoId
    BY <1>2 DEF GetUUIDStored, Return
  <2> QED BY <1>a, <2>1, <2>2 DEF QueryIsOfProcess, Kept
<1>3. CASE GetUUIDGenerate
  <2>1. CASE ranLocked' \/ refuses # {}
    BY <1>a, <1>3, <2>1 DEF GetUUIDGenerate, QueryIsOfProcess, Kept
  <2>2. CASE ~ranLocked' /\ refuses = {}
    <3>1. ~ranLocked /\ ~locked
      BY <1>3, <2>2 DEF GetUUIDGenerate, IdentityTypeOK
    <3>2. item = NoId
      BY <1>3, <2>2, <3>1 DEF GetUUIDGenerate, LoadFinds, Matches, Kept
    <3>3. NoId \notin issued
      BY IdsDiffer DEF IdentityTypeOK
    <3>4. issued = {}
      BY <2>2, <3>1, <3>2, <3>3 DEF Kept
    <3>5. item' = NoId /\ UNCHANGED <<refuses, locked, up, queryData, issued>> /\ up
      BY <1>3, <3>2 DEF GetUUIDGenerate, Matches
    <3> QED BY <1>a, <2>2, <3>1, <3>2, <3>4, <3>5 DEF QueryIsOfProcess, Kept
  <2> QED BY <2>1, <2>2
<1>4. CASE GetUUIDAdd
  <2>1. /\ UNCHANGED <<refuses, locked, up, ranLocked>>
        /\ up
        /\ adding # NoId /\ adding' = NoId /\ queryData' = adding
        /\ issued' = issued \cup {adding}
    BY <1>4 DEF GetUUIDAdd, Return
  <2>2. CASE ranLocked \/ refuses # {}
    BY <1>a, <2>1, <2>2 DEF QueryIsOfProcess, Kept
  <2>3. CASE ~ranLocked /\ refuses = {}
    <3>1. item = NoId /\ issued = {} /\ ~locked
      BY <2>1, <2>3 DEF Kept
    <3>2. item' = adding
      BY <1>4, <2>3, <3>1 DEF GetUUIDAdd
    <3> QED BY <1>a, <2>1, <2>3, <3>1, <3>2 DEF QueryIsOfProcess, Kept
  <2> QED BY <2>2, <2>3
<1>5. CASE UNCHANGED identityVars
  BY <1>a, <1>5 DEF identityVars, QueryIsOfProcess, Kept
<1> QED BY <1>1, <1>2, <1>3, <1>4, <1>5 DEF IdentityNext

\* A device whose keychain tolerates the mixed query keeps its identity over
\* every reinstallation.
THEOREM IdentityKept == IdentitySpec => []IdentitySurvivesReinstall
<1>1. IdentityInit => KeptInvariant
  BY TypeInit DEF IdentityInit, KeptInvariant, QueryIsOfProcess, Kept
<1>2. KeptInvariant => IdentitySurvivesReinstall
  BY DEF KeptInvariant, Kept, IdentitySurvivesReinstall, Same
<1> QED BY <1>1, <1>2, KeptNext, PTL DEF IdentitySpec

-----------------------------------------------------------------------------
(***************************************************************************)
(* For every set of messages, a JPush message both of whose deliveries     *)
(* find the application active in the same mode is given exactly once.     *)
(***************************************************************************)

\* What became of a message follows from the modes its deliveries found.
TakenIsLateCustom ==
  \A m \in JPushMessages \cap Readable :
    "taken" \in seen[m] <=> <<"custom", "late">> \in noted[m]

BannerIsEarlyOrAway ==
  \A m \in JPushMessages :
    "banner" \in seen[m] <=> \/ <<"notification", "early">> \in noted[m]
                             \/ <<"notification", "away">> \in noted[m]

PushInvariant == PushTypeOK /\ TakenIsLateCustom /\ BannerIsEarlyOrAway

\* The five steps that deliver a message, and the others.
LEMMA DeliveriesKeepPushes ==
  ASSUME PushInvariant, NEW m \in Message, NEW offLine \in BOOLEAN,
         \/ m \in JPushMessages /\ NetworkDidReceiveMessage(m)
         \/ m \in JPushMessages /\ WillPresent(m)
         \/ m \in JPushMessages /\ SystemPresents(m)
         \/ m \in GeTuiMessages /\ GeTuiSdkDidReceivePayload(m, offLine)
  PROVE  PushInvariant'
<1> USE DEF PushInvariant
<1>1. Mode \in {"early", "late", "away"}
  BY DEF Mode
<1>2. CASE m \in JPushMessages /\ NetworkDidReceiveMessage(m)
  <2>0. /\ UNCHANGED <<appState, isJPush, notification, payload, unanswered>>
        /\ custom' = custom \ {m}
        /\ noted' = [noted EXCEPT ![m] = @ \cup {<<"custom", Mode>>}]
        /\ \/ isJPush /\ appState = "active" /\ m \in Readable /\ Take(m)
           \/ ~(isJPush /\ appState = "active" /\ m \in Readable) /\ UNCHANGED <<pushDict, seen>>
    BY <1>2 DEF NetworkDidReceiveMessage, Note
  <2>1. PushTypeOK'
    BY <1>1, <1>2, <2>0 DEF PushTypeOK, Take, See, Channel, Message
  <2>2. TakenIsLateCustom'
    BY <1>2, <2>0 DEF PushTypeOK, Take, See, Mode, TakenIsLateCustom, Message
  <2>3. BannerIsEarlyOrAway'
    BY <1>2, <2>0 DEF PushTypeOK, Take, See, BannerIsEarlyOrAway, Message
  <2> QED  BY <2>1, <2>2, <2>3
<1>3. CASE m \in JPushMessages /\ WillPresent(m)
  <2>0. /\ UNCHANGED <<appState, isJPush, pushDict, custom, payload>>
        /\ notification' = notification \ {m}
        /\ noted' = [noted EXCEPT ![m] = @ \cup {<<"notification", Mode>>}]
        /\ \/ /\ appState = "active" /\ isJPush
              /\ unanswered' = unanswered \cup {m} /\ UNCHANGED seen
           \/ /\ ~(appState = "active" /\ isJPush)
              /\ See(m, "banner") /\ UNCHANGED unanswered
    BY <1>3 DEF WillPresent, Note
  <2>1. PushTypeOK'
    BY <1>1, <1>3, <2>0 DEF PushTypeOK, See, Channel, Message
  <2>2. TakenIsLateCustom'
    BY <1>3, <2>0 DEF PushTypeOK, See, TakenIsLateCustom, Message
  <2>3. BannerIsEarlyOrAway'
    BY <1>3, <2>0 DEF PushTypeOK, See, Mode, BannerIsEarlyOrAway, Message
  <2> QED  BY <2>1, <2>2, <2>3
<1>4. CASE m \in JPushMessages /\ SystemPresents(m)
  <2>0. /\ UNCHANGED <<appState, isJPush, pushDict, custom, payload, unanswered>>
        /\ notification' = notification \ {m}
        /\ noted' = [noted EXCEPT ![m] = @ \cup {<<"notification", "away">>}]
        /\ See(m, "banner")
    BY <1>4 DEF SystemPresents, Note, Mode
  <2>1. PushTypeOK'
    BY <1>4, <2>0 DEF PushTypeOK, See, Channel, Message
  <2>2. TakenIsLateCustom'
    BY <1>4, <2>0 DEF PushTypeOK, See, TakenIsLateCustom, Message
  <2>3. BannerIsEarlyOrAway'
    BY <1>4, <2>0 DEF PushTypeOK, See, BannerIsEarlyOrAway, Message
  <2> QED  BY <2>1, <2>2, <2>3
<1>5. CASE m \in GeTuiMessages /\ GeTuiSdkDidReceivePayload(m, offLine)
  <2>0. /\ UNCHANGED <<appState, isJPush, notification, custom, unanswered>>
        /\ payload' = payload \ {m}
        /\ noted' = [noted EXCEPT ![m] = @ \cup {<<"payload", Mode>>}]
        /\ (m \in Readable /\ Take(m)) \/ UNCHANGED <<pushDict, seen>>
    BY <1>5 DEF GeTuiSdkDidReceivePayload, Note
  <2>1. m \notin JPushMessages
    BY <1>5, PushAssumption
  <2>2. PushTypeOK'
    BY <1>1, <1>5, <2>0 DEF PushTypeOK, Take, See, Channel, Message
  <2>3. \A n \in JPushMessages : seen'[n] = seen[n] /\ noted'[n] = noted[n]
    BY <2>0, <2>1 DEF PushTypeOK, Take, See, Message
  <2>4. TakenIsLateCustom' /\ BannerIsEarlyOrAway'
    BY <2>3 DEF TakenIsLateCustom, BannerIsEarlyOrAway
  <2> QED  BY <2>2, <2>4
<1> QED  BY <1>2, <1>3, <1>4, <1>5

LEMMA OthersKeepPushes ==
  ASSUME PushInvariant,
         \/ DidFinishLaunching \/ ChangeState \/ FifteenSeconds \/ Terminate
         \/ \E m \in Message : Lose(m)
         \/ UNCHANGED pushVars
  PROVE  PushInvariant'
<1> USE DEF PushInvariant, TakenIsLateCustom, BannerIsEarlyOrAway
<1>1. CASE DidFinishLaunching \/ ChangeState \/ FifteenSeconds \/ Terminate
  BY <1>1 DEF PushTypeOK, AppState, DidFinishLaunching, ChangeState, FifteenSeconds, Terminate
<1>2. CASE \E m \in Message : Lose(m)
  BY <1>2 DEF PushTypeOK, Lose
<1>3. CASE UNCHANGED pushVars
  BY <1>3 DEF PushTypeOK, pushVars
<1> QED  BY <1>1, <1>2, <1>3

LEMMA PushInvariance == PushSpec => []PushInvariant
<1>1. PushInit => PushInvariant
  BY DEF PushInit, PushInvariant, PushTypeOK, TakenIsLateCustom, BannerIsEarlyOrAway, AppState, Message
<1>2. PushInvariant /\ [PushNext]_pushVars => PushInvariant'
  <2> SUFFICES ASSUME PushInvariant, [PushNext]_pushVars PROVE PushInvariant'
    OBVIOUS
  <2>1. CASE \E m \in JPushMessages : \/ NetworkDidReceiveMessage(m)
                                      \/ WillPresent(m)
                                      \/ SystemPresents(m)
    BY <2>1, DeliveriesKeepPushes DEF Message
  <2>2. CASE \E m \in GeTuiMessages, offLine \in BOOLEAN : GeTuiSdkDidReceivePayload(m, offLine)
    BY <2>2, DeliveriesKeepPushes DEF Message
  <2>3. CASE \/ DidFinishLaunching \/ ChangeState \/ FifteenSeconds \/ Terminate
             \/ \E m \in Message : Lose(m)
             \/ UNCHANGED pushVars
    BY <2>3, OthersKeepPushes
  <2> QED  BY <2>1, <2>2, <2>3 DEF PushNext
<1> QED  BY <1>1, <1>2, PTL DEF PushSpec

\* Every value of every variable stays in its set.
THEOREM PushTypeCorrect == PushSpec => []PushTypeOK
<1> QED  BY PushInvariance, PTL DEF PushInvariant

\* A JPush message whose notification and whose custom message both find the
\* application active, both before or both after the first fifteen seconds, is
\* given exactly once: isJPush splits the two channels without gap or overlap.
THEOREM GivenOnceAlways == PushSpec => []GivenOnce
<1>1. PushInvariant => GivenOnce
  <2> SUFFICES ASSUME PushInvariant, NEW m \in JPushMessages \cap Readable, NEW mode \in {"early", "late"},
                      noted[m] = {<<"notification", mode>>, <<"custom", mode>>}
               PROVE  \E how \in {"banner", "taken"} : seen[m] = {how}
    BY DEF GivenOnce
  <2>1. seen[m] \subseteq {"banner", "taken"}
    BY DEF PushInvariant, PushTypeOK, Message
  <2>2. CASE mode = "early"
    <3>1. "banner" \in seen[m] /\ "taken" \notin seen[m]
      BY <2>2 DEF PushInvariant, TakenIsLateCustom, BannerIsEarlyOrAway
    <3> QED  BY <2>1, <3>1
  <2>3. CASE mode = "late"
    <3>1. "taken" \in seen[m] /\ "banner" \notin seen[m]
      BY <2>3 DEF PushInvariant, TakenIsLateCustom, BannerIsEarlyOrAway
    <3> QED  BY <2>1, <3>1
  <2> QED  BY <2>2, <2>3
<1> QED  BY <1>1, PushInvariance, PTL
=============================================================================
