---------------------------- MODULE ArchiveFile ----------------------------
(***************************************************************************)
(* XLArchiverHelper on one key: a value is archived in a data file, next   *)
(* to a file with its time of expiry.  Both are written in place, the time *)
(* of expiry first, so that a process that dies meanwhile leaves a file    *)
(* short.  All callers are on the main queue and wait for the end of their *)
(* call, so that calls do not overlap; only the end of the process comes   *)
(* between two writes.                                                     *)
(***************************************************************************)
EXTENDS Naturals

CONSTANTS
  Values,   \* what callers save
  Chunks    \* the writes that a data file takes, after it has been truncated

Absent == "absent"
Torn == "torn"
None == "none"

ASSUME ArchiveFileAssumption ==
  /\ {Absent, Torn, None} \cap Values = {}
  /\ Chunks \in Nat \ {0}

NoFile == [value |-> None, size |-> 0]
File == [value : Values, size : 0..Chunks] \cup {NoFile}

VARIABLES
  data,      \* the data file
  expires,   \* the file with the time of expiry: "absent", "short" or "whole"
  running,   \* does the process run?
  saving,    \* the value being saved, or None
  opened,    \* has the save under way opened, and truncated, the data file?
  answer,    \* the answer to the last getObject of this process, or None
  before,    \* history: the archive when the save under way opened the file
  durable,   \* history: the value of the last completed save, if not cleared
  damaged    \* history: has a save been cut short since?

vars == <<data, expires, running, saving, opened, answer, before, durable, damaged>>

\* What a data file holds: a file of size zero is empty data, which getObject
\* takes for no object; a short file is no archive.
Decode(file) ==
  CASE file.size = 0                       -> Absent
    [] file.size > 0 /\ file.size < Chunks -> Torn
    [] OTHER                               -> file.value

TypeOK ==
  /\ data \in File
  /\ expires \in {"absent", "short", "whole"}
  /\ running \in BOOLEAN
  /\ saving \in Values \cup {None}
  /\ opened \in BOOLEAN
  /\ answer \in Values \cup {Absent, None}
  /\ before \in Values \cup {Absent, Torn}
  /\ durable \in Values \cup {Absent}
  /\ damaged \in BOOLEAN

Init ==
  /\ data = NoFile
  /\ expires = "absent"
  /\ running = FALSE
  /\ saving = None
  /\ opened = FALSE
  /\ answer = None
  /\ before = Absent
  /\ durable = Absent
  /\ damaged = FALSE

Start ==
  /\ ~running
  /\ running' = TRUE
  /\ UNCHANGED <<data, expires, saving, opened, answer, before, durable, damaged>>

-----------------------------------------------------------------------------
(***************************************************************************)
(* setObject:forKey: and setObject:forKey:withExpires:.                    *)
(***************************************************************************)

\* The time of expiry is written first, not atomically ...
OpenExpires(v) ==
  /\ running /\ saving = None
  /\ saving' = v
  /\ expires' = "short"
  /\ UNCHANGED <<data, running, opened, answer, before, durable, damaged>>

WriteExpires ==
  /\ running /\ saving # None /\ expires = "short"
  /\ expires' = "whole"
  /\ UNCHANGED <<data, running, saving, opened, answer, before, durable, damaged>>

\* Faulty variant: the file is written over its old contents.
OpenDataInPlace ==
  /\ running /\ saving # None /\ expires = "whole" /\ ~opened
  /\ opened' = TRUE
  /\ before' = Decode(data)
  /\ UNCHANGED <<data, expires, running, saving, answer, durable, damaged>>

\* ... then the data file is truncated ...
OpenData ==
  /\ running /\ saving # None /\ expires = "whole" /\ ~opened
  /\ opened' = TRUE
  /\ data' = [value |-> saving, size |-> 0]
  /\ before' = Decode(data)
  /\ UNCHANGED <<expires, running, saving, answer, durable, damaged>>

\* Faulty variant: the save returns before the last write.
WriteDataShort ==
  /\ running /\ opened
  /\ IF data.size = Chunks - 1
       THEN /\ saving' = None /\ opened' = FALSE
            /\ durable' = saving /\ damaged' = FALSE
            /\ UNCHANGED data
       ELSE /\ data' = [data EXCEPT !.size = @ + 1]
            /\ UNCHANGED <<saving, opened, durable, damaged>>
  /\ UNCHANGED <<expires, running, answer, before>>

\* ... and written; its last write completes the save.
WriteData ==
  /\ running /\ opened
  /\ data' = [data EXCEPT !.size = @ + 1]
  /\ IF data'.size = Chunks
       THEN /\ saving' = None /\ opened' = FALSE
            /\ durable' = saving /\ damaged' = FALSE
       ELSE UNCHANGED <<saving, opened, durable, damaged>>
  /\ UNCHANGED <<expires, running, answer, before>>

-----------------------------------------------------------------------------
(***************************************************************************)
(* getObject:.                                                             *)
(***************************************************************************)

\* Faulty variant: the comparison that isExpired: has in a comment.  A short
\* file reads as the time zero.
IsExpiredCompared == expires # "whole"

\* isExpired: reads the time of expiry and the clock, and returns NO.
IsExpired == FALSE

GetObject ==
  /\ running /\ saving = None
  /\ IsExpired \/ Decode(data) # Torn
  /\ answer' = IF IsExpired THEN Absent ELSE Decode(data)
  /\ UNCHANGED <<data, expires, running, saving, opened, before, durable, damaged>>

\* The end of the process, at any point of a save.
Stop ==
  /\ running' = FALSE
  /\ saving' = None
  /\ opened' = FALSE
  /\ answer' = None
  /\ damaged' = (damaged \/ opened)
  /\ UNCHANGED <<data, expires, before, durable>>

Kill == running /\ Stop

\* The unarchiver raises on a short file, in a block of another queue than the
\* one whose caller has the @try.
GetObjectRaises ==
  running /\ saving = None /\ ~IsExpired /\ Decode(data) = Torn /\ Stop

\* The files are in Library/Caches, which the system clears, wholly or partly,
\* when it needs room and the application does not run.
ClearCaches ==
  /\ ~running
  /\ expires' \in {expires, "absent"}
  /\ \/ data' = NoFile /\ durable' = Absent /\ damaged' = FALSE
     \/ UNCHANGED <<data, durable, damaged>>
  /\ UNCHANGED <<running, saving, opened, answer, before>>

Next ==
  \/ Start \/ ClearCaches
  \/ \E v \in Values : OpenExpires(v)
  \/ WriteExpires \/ OpenData \/ WriteData
  \/ GetObject \/ GetObjectRaises \/ Kill

Spec == Init /\ [][Next]_vars

-----------------------------------------------------------------------------
(***************************************************************************)
(* Properties.                                                             *)
(***************************************************************************)

\* A completed save survives every kill until the next save opens the file, or
\* the system clears the caches:
\* what is read is the last value saved, never an older one, and the time of
\* expiry, which may be short after a kill, does not come into it.
CompletedSaveSurvives == [][GetObject /\ ~damaged => answer' = durable]_vars

\* getObject only raises after a save that a kill has cut short.
RaiseNeedsDamage == saving = None /\ Decode(data) = Torn => damaged

\* To its callers the pair of files is a register that a kill can empty or tear
\* and the system can clear.
Register == INSTANCE ArchiveRegister WITH
  content <- IF opened THEN before ELSE Decode(data)

ImplementsRegister == Register!Spec
=============================================================================
