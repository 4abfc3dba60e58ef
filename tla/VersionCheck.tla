---------------------------- MODULE VersionCheck ----------------------------
(***************************************************************************)
(* XLVersionCheck: comparing the application's version with the one that   *)
(* the server names in the archived App_Info, and the alert that forces or *)
(* offers an update.  Between the check, which presents the alert, and the *)
(* touch that answers it, the server may name another version; the user's  *)
(* "do not remind me" outlives the process.                                *)
(*                                                                         *)
(* A version is a text; PartsOf gives its parts between the dots as        *)
(* intValue reads them, so that different texts may have the same parts.   *)
(* Nothing in the repository calls startCheckOperate yet: it is modelled   *)
(* as called at any time, with no alert but its own on the root.           *)
(***************************************************************************)
EXTENDS Naturals, Sequences

CONSTANTS
  Version,     \* versions as the application or the server writes them
  Numbers,     \* those that are numbers, not texts, in the server's JSON
  Released,    \* the versions that this application has
  PartsOf      \* the parts of each version

None == "none"

\* A number has at most one dot; a version that is missing is "(null)".
ASSUME VersionAssumption ==
  /\ Numbers \subseteq Version /\ Released \subseteq Version /\ None \notin Version
  /\ PartsOf \in [Version -> Seq(Nat)]
  /\ \A v \in Numbers : Len(PartsOf[v]) <= 2

Info == [version : Version, force : BOOLEAN]
NoInfo == [version |-> None, force |-> FALSE]

VARIABLES
  appVersion,   \* CurrentAppVersion
  appInfo,      \* App_Info in the archive
  no_version,   \* VersionUpdateReminde in the user defaults
  actionSheet,  \* the alert on the screen
  raised,       \* isEqualToString: was sent to a number
  lastVersion,  \* history: the last version that the server named
  declined,     \* history: the versions the user would not be reminded of
  wentBack      \* history: the server came back to one of them

versionHistory == <<lastVersion, declined, wentBack>>
versionVars == <<appVersion, appInfo, no_version, actionSheet, raised,
                 lastVersion, declined, wentBack>>

VersionTypeOK ==
  /\ appVersion \in Released
  /\ appInfo \in Info \cup {NoInfo}
  /\ no_version \in Version \cup {None}
  /\ actionSheet \in Info \cup {NoInfo}
  /\ raised \in BOOLEAN
  /\ lastVersion \in Version \cup {None}
  /\ declined \subseteq Version
  /\ wentBack \in BOOLEAN

VersionInit ==
  /\ appVersion \in Released
  /\ appInfo = NoInfo /\ no_version = None /\ actionSheet = NoInfo
  /\ raised = FALSE
  /\ lastVersion = None /\ declined = {} /\ wentBack = FALSE

-----------------------------------------------------------------------------
(***************************************************************************)
(* The server, the archive and the application's own version.              *)
(***************************************************************************)

\* An init answer is archived.
NameVersion(info) ==
  /\ appInfo' = info
  /\ lastVersion' = info.version
  /\ wentBack' = (wentBack \/ (info.version \in declined /\ info.version # lastVersion))
  /\ UNCHANGED <<appVersion, no_version, actionSheet, raised, declined>>

ClearInfo ==
  /\ appInfo' = NoInfo
  /\ UNCHANGED <<appVersion, no_version, actionSheet, raised, versionHistory>>

\* The process ends, perhaps for an update to version v.
Restart(v) ==
  /\ appVersion' = v
  /\ actionSheet' = NoInfo
  /\ UNCHANGED <<appInfo, no_version, raised, versionHistory>>

-----------------------------------------------------------------------------
(***************************************************************************)
(* The check.                                                              *)
(***************************************************************************)

\* Faulty variant: the later parts are compared whatever the earlier are.
CompareEachPart(a, s) == Len(a) = 3 /\ Len(s) = 3 /\ \E n \in 1..3 : a[n] < s[n]

\* versionCompare:serverVersion:
VersionCompare(a, s) ==
  /\ Len(a) = 3 /\ Len(s) = 3
  /\ \/ a[1] < s[1]
     \/ a[2] < s[2] /\ a[1] = s[1]
     \/ a[3] < s[3] /\ a[2] = s[2] /\ a[1] = s[1]

IsNewer(v) == v # None /\ VersionCompare(PartsOf[appVersion], PartsOf[v])

\* UIKit presents no second alert over the first.
Present(info) == actionSheet' = IF actionSheet = NoInfo THEN info ELSE actionSheet

\* An update that is not forced is compared as a text with the version not to be
\* reminded of: a number raises on isEqualToString:, which ends the process.
StartCheckOperate ==
  LET newer == IsNewer(appInfo.version)
      offered == newer /\ (appInfo.force \/ appInfo.version # no_version)
  IN  /\ ~raised
      /\ raised' = (newer /\ ~appInfo.force /\ appInfo.version \in Numbers)
      /\ IF offered /\ ~raised' THEN Present(appInfo) ELSE UNCHANGED actionSheet
      /\ UNCHANGED <<appVersion, appInfo, no_version, versionHistory>>

\* The user goes to the update: the address is read from the archive as it is now,
\* and the alert is gone whether or not it can be opened.
GoToUpdate ==
  /\ actionSheet # NoInfo
  /\ actionSheet' = NoInfo
  /\ UNCHANGED <<appVersion, appInfo, no_version, raised, versionHistory>>

\* Faulty variant: remembers the version that the archive holds by now.
DoNotRemindOfCurrent ==
  /\ actionSheet # NoInfo /\ ~actionSheet.force
  /\ no_version' = appInfo.version
  /\ declined' = declined \cup {actionSheet.version}
  /\ actionSheet' = NoInfo
  /\ UNCHANGED <<appVersion, appInfo, raised, lastVersion, wentBack>>

\* The user would not be reminded again of the version that the alert is about,
\* which the block has kept.
DoNotRemind ==
  /\ actionSheet # NoInfo /\ ~actionSheet.force
  /\ no_version' = actionSheet.version
  /\ declined' = declined \cup {actionSheet.version}
  /\ actionSheet' = NoInfo
  /\ UNCHANGED <<appVersion, appInfo, raised, lastVersion, wentBack>>

VersionNext ==
  \/ \E info \in Info : NameVersion(info)
  \/ ClearInfo
  \/ \E v \in Released : Restart(v)
  \/ StartCheckOperate
  \/ GoToUpdate \/ DoNotRemind

VersionSpec == VersionInit /\ [][VersionNext]_versionVars

-----------------------------------------------------------------------------
(***************************************************************************)
(* Properties.                                                             *)
(***************************************************************************)

\* The reference: the order of versions of equally many parts, by the first part in
\* which they differ.
Precedes(a, s) ==
  \E n \in 1..Len(a) : a[n] < s[n] /\ \A m \in 1..n - 1 : a[m] = s[m]

Comparable(v, w) == Len(PartsOf[v]) = 3 /\ Len(PartsOf[w]) = 3

\* The user is only shown, and is shown at the next check, a version that comes after
\* the application's own: an update that is forced, or that he has not just declined
\* (lines 33-64, for versions of three parts, which line 96 asks for).
AlertsFollowVersions ==
  [][actionSheet = NoInfo /\ StartCheckOperate =>
       LET v == appInfo.version
       IN  actionSheet' # NoInfo <=>
             /\ v # None
             /\ Comparable(appVersion, v) /\ Precedes(PartsOf[appVersion], PartsOf[v])
             /\ appInfo.force \/ v # no_version]_versionVars

\* An update that the user once declined is not offered again, although only one
\* declined version is remembered, unless the server itself comes back to it: an alert
\* may outlast its version in the archive, and the user answers it later (line 74).
DeclinedStaysDeclined ==
  actionSheet # NoInfo /\ ~actionSheet.force /\ ~wentBack => actionSheet.version \notin declined
=============================================================================
