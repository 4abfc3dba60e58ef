--------------------------------- MODULE Wal --------------------------------
(***************************************************************************)
(* The write-ahead log of a data base (WCDBOptimizedSQLCipher's wal.c) as  *)
(* WCDB configures it: WAL mode, synchronous=NORMAL, checkpoints in the    *)
(* PASSIVE mode by a thread of their own.  Connections append frames to    *)
(* the log, find pages in it by the wal-index, which is memory they share, *)
(* and copy it back into the data base file, all at the same time.         *)
(*                                                                         *)
(* A step is one access to the shared memory that others can tell apart,   *)
(* one frame or page written, one lock, or a stretch under an exclusive    *)
(* lock that others only notice by failing to get it.  A page's content is *)
(* the number of the transaction that wrote it.                            *)
(*                                                                         *)
(* Left out: the size of the data base, pages written twice by one         *)
(* transaction (iReCksum), savepoints, snapshots that are opened again,    *)
(* the other checkpoint modes, the last close, and errors of the files     *)
(* other than a failed write of a frame.                                   *)
(***************************************************************************)
EXTENDS Integers, Sequences, FiniteSets

CONSTANTS
  Connection, Page, None, Torn,
  NReader,        \* bound: read marks besides the one with number 0; the source has 4
  MaxFrame,       \* bound: frames in the log
  MaxTransactions,\* bound: write transactions
  MaxCrashes      \* bound: crashes

ASSUME WalAssumption ==
  /\ None \notin Connection \cup Page \cup {Torn}
  /\ None \notin [salt : Nat, mxFrame : Nat, iChange : Nat]
  /\ None \notin [salt : Nat, page : Page, data : Nat, commit : BOOLEAN, after : Nat]
  /\ None \notin [Page -> 0..MaxTransactions \cup {Torn}]
  /\ NReader \in Nat \ {0} /\ MaxFrame \in Nat \ {0} /\ MaxTransactions \in Nat

Frames == 1..MaxFrame
Marks == 1..NReader
NotUsed == MaxFrame + 1    \* READMARK_NOT_USED: beyond every frame

VARIABLES
  header,      \* the wal-index header, or None if it is not valid
  aPgno,       \* the wal-index: for every frame its page, or None
  nBackfill,   \* frames copied back to the data base file
  aReadMark,
  writer,      \* who holds WAL_WRITE_LOCK
  at,          \* for every connection, where it is
  hdr,         \* its copy of the header
  readLock,    \* the read lock it holds, or -1
  mark,        \* the number and the value of the mark it has chosen
  minFrame,    \* the first frame it must look at
  iFrame,      \* the last frame it has written
  ckpt,        \* the checkpoint under way
  log,         \* the log file: the salt in its header, its frames
  db,          \* the data base file
  logMay,      \* what else the disk may hold of the log,
  saltMay,     \* of its header,
  dbMay,       \* and of the data base, as they have not been synced
  transaction, \* transactions begun
  crashes,
  store,       \* history: the states committed, and not lost
  sure,        \* history: how many of them are durable
  behind,      \* history: the log was restarted since the checkpointer read the header
  outrun       \* history: a checkpointer has gone on with such a header

index == <<header, aPgno, nBackfill, aReadMark>>
reading == <<hdr, readLock, mark, minFrame>>
files == <<log, db, logMay, saltMay, dbMay>>
outruns == <<behind, outrun>>
history == <<store, sure>>
walVars == <<index, writer, at, reading, iFrame, ckpt, files, transaction, crashes, history, outruns>>

NoHeader == [salt |-> 0, mxFrame |-> 0, iChange |-> 0]
NoCheckpoint == [by |-> None, mxSafeFrame |-> 0, iter |-> [p \in Page |-> 0],
                 marks |-> {}, y |-> 0, pages |-> {}]
Last(s) == s[Len(s)]
MaxOf(S) == IF S = {} THEN 0 ELSE CHOOSE x \in S : \A y \in S : y <= x

\* The last of the frames S that has page p, by the wal-index; 0 if none has.
FrameOf(S, p) == MaxOf({f \in S : aPgno[f] = p})

Moves(c, s, n) == at[c] = s /\ at' = [at EXCEPT ![c] = n]
Set(f, c, v) == [f EXCEPT ![c] = v]

WalInit ==
  /\ header = None
  /\ aPgno = [f \in Frames |-> None] /\ nBackfill = 0
  /\ aReadMark = [i \in Marks |-> 0]
  /\ writer = None
  /\ at = [c \in Connection |-> "idle"]
  /\ hdr = [c \in Connection |-> NoHeader]
  /\ readLock = [c \in Connection |-> -1]
  /\ mark = [c \in Connection |-> <<0, 0>>]
  /\ minFrame = [c \in Connection |-> 0]
  /\ iFrame = 0
  /\ ckpt = NoCheckpoint
  /\ log = [salt |-> 0, frames |-> [f \in Frames |-> None]]
  /\ db = [p \in Page |-> 0]
  /\ logMay = [f \in Frames |-> {}] /\ saltMay = {} /\ dbMay = [p \in Page |-> {}]
  /\ transaction = 0 /\ crashes = 0
  /\ store = <<db>> /\ sure = 1
  /\ behind = FALSE /\ outrun = FALSE

-----------------------------------------------------------------------------
(***************************************************************************)
(* Locks in the shared memory.                                             *)
(***************************************************************************)

Restarting == \E c \in Connection : at[c] = "reset"   \* holds READ(1)..READ(NReader)
Copying == \E c \in Connection : at[c] \in {"copy", "finish"}   \* holds READ(0)

MayShare(i) == IF i = 0 THEN ~Copying ELSE ~Restarting
MayExclude(i) == MayShare(i) /\ \A c \in Connection : readLock[c] # i

-----------------------------------------------------------------------------
(***************************************************************************)
(* Recovery: walIndexRecover.                                              *)
(***************************************************************************)

\* Frames as long as each has the salt of the header and a checksum that goes on
\* from that of the frame before: the frame that was there when it was written.
Valid(l) == {n \in 0..MaxFrame : l.salt # 0 /\ \A f \in 1..n :
               /\ l.frames[f] # None
               /\ l.frames[f].salt = l.salt
               /\ l.frames[f].after = IF f = 1 THEN 0 ELSE l.frames[f - 1].data}

Recovered(l) == MaxOf({f \in Frames : f <= MaxOf(Valid(l)) /\ l.frames[f].commit})

\* The state that a connection finds after the recovery.
StateOf(l, d) ==
  [p \in Page |-> LET f == MaxOf({g \in 1..Recovered(l) : l.frames[g].page = p})
                  IN  IF f = 0 THEN d[p] ELSE l.frames[f].data]

\* Needs all locks; the wal-index is blank, as the shared memory is new.
Recover(c) ==
  /\ header = None
  /\ Moves(c, "idle", "decide")
  /\ \A d \in Connection : readLock[d] = -1
  /\ writer = None /\ ckpt.by = None
  /\ header' = [salt |-> log.salt, mxFrame |-> Recovered(log), iChange |-> Len(store)]
  /\ aPgno' = [f \in Frames |-> IF f <= MaxOf(Valid(log)) THEN log.frames[f].page ELSE None]
  /\ nBackfill' = 0
  /\ aReadMark' = [i \in Marks |-> IF i = 1 /\ Recovered(log) > 0 THEN Recovered(log) ELSE NotUsed]
  /\ hdr' = Set(hdr, c, header')
  /\ UNCHANGED <<writer, readLock, mark, minFrame, iFrame, ckpt, files,
                 transaction, crashes, history, outruns>>

-----------------------------------------------------------------------------
(***************************************************************************)
(* sqlite3WalBeginReadTransaction: walTryBeginRead, until it succeeds.     *)
(***************************************************************************)

ReadHdr(c) ==
  /\ header # None
  /\ Moves(c, "idle", "decide")
  /\ hdr' = Set(hdr, c, header)
  /\ UNCHANGED <<index, writer, readLock, mark, minFrame, iFrame, ckpt, files,
                 transaction, crashes, history, outruns>>

\* A connection without a lock, which begins anew; a writer has no header to read.
Leave(c, s) ==
  /\ Moves(c, s, IF writer = c THEN "mark" ELSE "idle")
  /\ hdr' = IF writer = c THEN hdr ELSE Set(hdr, c, NoHeader)
  /\ readLock' = Set(readLock, c, -1)
  /\ mark' = Set(mark, c, <<0, 0>>) /\ minFrame' = Set(minFrame, c, 0)

\* If the whole log is copied back the data base file alone will do.
Decide(c) ==
  /\ \/ /\ nBackfill = hdr[c].mxFrame /\ MayShare(0)
        /\ Moves(c, "decide", "compare")
        /\ readLock' = Set(readLock, c, 0)
     \/ /\ ~(nBackfill = hdr[c].mxFrame /\ MayShare(0))
        /\ Moves(c, "decide", "mark")
        /\ UNCHANGED readLock
  /\ UNCHANGED <<index, writer, hdr, mark, minFrame, iFrame, ckpt, files,
                 transaction, crashes, history, outruns>>

\* That held if no frame was appended before the lock was had.
Compare(c) ==
  /\ \/ header = hdr[c] /\ Moves(c, "compare", "read") /\ UNCHANGED reading
     \/ header # hdr[c] /\ Leave(c, "compare")
  /\ UNCHANGED <<index, writer, iFrame, ckpt, files, transaction, crashes, history, outruns>>

\* The largest mark that is not beyond the header, or one that nobody uses, which
\* is moved to the header's last frame.
ChooseMark(c) ==
  LET mx == hdr[c].mxFrame
      below == {i \in Marks : aReadMark[i] <= mx}
      value == MaxOf({aReadMark[i] : i \in below})
      best == MaxOf({i \in below : aReadMark[i] = value})
      free == {i \in Marks : MayExclude(i)}
      first == CHOOSE i \in free : \A j \in free : i <= j
      short == value < mx \/ best = 0
  IN
  /\ \/ /\ Moves(c, "mark", "share")
        /\ short /\ free # {}
        /\ aReadMark' = [aReadMark EXCEPT ![first] = mx]
        /\ mark' = Set(mark, c, <<first, mx>>)
        /\ UNCHANGED <<hdr, readLock, minFrame>>
     \/ /\ Moves(c, "mark", "share")
        /\ ~(short /\ free # {}) /\ best # 0
        /\ mark' = Set(mark, c, <<best, value>>)
        /\ UNCHANGED <<aReadMark, hdr, readLock, minFrame>>
     \/ /\ Leave(c, "mark")
        /\ short /\ free = {} /\ best = 0
        /\ UNCHANGED aReadMark
  /\ UNCHANGED <<header, aPgno, nBackfill, writer, iFrame, ckpt, files,
                 transaction, crashes, history, outruns>>

ShareMark(c) ==
  /\ \/ /\ Moves(c, "share", "minFrame")
        /\ MayShare(mark[c][1])
        /\ readLock' = Set(readLock, c, mark[c][1])
        /\ UNCHANGED <<hdr, mark, minFrame>>
     \/ Leave(c, "share") /\ ~MayShare(mark[c][1])
  /\ UNCHANGED <<index, writer, iFrame, ckpt, files, transaction, crashes, history, outruns>>

SetMinFrame(c) ==
  /\ Moves(c, "minFrame", "check")
  /\ minFrame' = Set(minFrame, c, nBackfill + 1)
  /\ UNCHANGED <<index, writer, hdr, readLock, mark, iFrame, ckpt, files,
                 transaction, crashes, history, outruns>>

\* Faulty variant: only the mark is compared.
StillOnlyMark(c) == aReadMark[mark[c][1]] = mark[c][2]

Still(c) == aReadMark[mark[c][1]] = mark[c][2] /\ header = hdr[c]

CheckMark(c) ==
  /\ \/ /\ Moves(c, "check", IF writer = c THEN "log" ELSE "read")
        /\ Still(c)
        /\ mark' = Set(mark, c, <<0, 0>>)
        /\ UNCHANGED <<hdr, readLock, minFrame>>
     \/ Leave(c, "check") /\ ~Still(c)
  /\ UNCHANGED <<index, writer, iFrame, ckpt, files, transaction, crashes, history, outruns>>

EndRead(c) ==
  /\ Leave(c, "read")
  /\ UNCHANGED <<index, writer, iFrame, ckpt, files, transaction, crashes, history, outruns>>

\* What a reader reads: sqlite3WalFindFrame and the frame, or the page in the file.
PageRead(c, p) ==
  LET f == IF readLock[c] = 0 THEN 0 ELSE FrameOf(minFrame[c]..hdr[c].mxFrame, p)
  IN  IF f = 0 THEN db[p] ELSE log.frames[f].data

-----------------------------------------------------------------------------
(***************************************************************************)
(* Write transactions: sqlite3WalBeginWriteTransaction, sqlite3WalFrames   *)
(* for a page spilled or for a commit, sqlite3WalUndo.                     *)
(***************************************************************************)

BeginWrite(c) ==
  /\ writer = None /\ header = hdr[c]
  /\ transaction < MaxTransactions
  /\ Moves(c, "read", "write")
  /\ writer' = c
  /\ transaction' = transaction + 1
  /\ UNCHANGED <<index, reading, iFrame, ckpt, files, crashes, history, outruns>>

\* A checkpointer has read the header, and not yet what is copied back.
AboutToCheckpoint == \E c \in Connection : at[c] = "iterate"

\* walRestartLog: a writer that needs nothing of the log starts it anew, if nobody
\* else needs it.  In any case it will use the log from now on.
RestartLog(c) ==
  /\ \/ /\ readLock[c] > 0
        /\ Moves(c, "write", "log")
        /\ UNCHANGED <<header, hdr, readLock, behind>>
     \/ /\ readLock[c] = 0
        /\ nBackfill > 0 /\ \A i \in Marks : MayExclude(i)
        /\ Moves(c, "write", "reset")
        /\ header' = [hdr[c] EXCEPT !.salt = transaction, !.mxFrame = 0]
        /\ hdr' = Set(hdr, c, header')
        /\ behind' = (behind \/ AboutToCheckpoint)
        /\ UNCHANGED readLock
     \/ /\ readLock[c] = 0
        /\ nBackfill = 0 \/ \E i \in Marks : ~MayExclude(i)
        /\ Moves(c, "write", "mark")
        /\ readLock' = Set(readLock, c, -1)
        /\ UNCHANGED <<header, hdr, behind>>
  /\ UNCHANGED <<aPgno, nBackfill, aReadMark, writer, mark, minFrame, iFrame, ckpt, files,
                 transaction, crashes, history, outrun>>

\* The rest of walRestartHdr, after it has written the header.
Reset(c) ==
  /\ Moves(c, "reset", "mark")
  /\ nBackfill' = 0
  /\ aReadMark' = [i \in Marks |-> IF i = 1 THEN 0 ELSE NotUsed]
  /\ readLock' = Set(readLock, c, -1)
  /\ UNCHANGED <<header, aPgno, writer, hdr, mark, minFrame, iFrame, ckpt, files,
                 transaction, crashes, history, outruns>>

\* The first frame of the log needs the file's header, which is synced.
WriteHeader(c) ==
  /\ hdr[c].mxFrame = 0
  /\ Moves(c, "log", "header")
  /\ hdr' = [hdr EXCEPT ![c].salt = IF @ = 0 THEN transaction ELSE @]
  /\ log' = [log EXCEPT !.salt = hdr'[c].salt]
  /\ saltMay' = saltMay \cup {log.salt, 0}
  /\ UNCHANGED <<index, writer, readLock, mark, minFrame, iFrame, ckpt, db, logMay, dbMay,
                 transaction, crashes, history, outruns>>

SyncHeader(c) ==
  /\ Moves(c, "header", "frames")
  /\ logMay' = [f \in Frames |-> {}] /\ saltMay' = {}
  /\ sure' = Len(store)
  /\ iFrame' = 0
  /\ UNCHANGED <<index, writer, reading, ckpt, log, db, dbMay, transaction, crashes, store, outruns>>

AfterOthers(c) ==
  /\ hdr[c].mxFrame > 0
  /\ Moves(c, "log", "frames")
  /\ iFrame' = hdr[c].mxFrame
  /\ UNCHANGED <<index, writer, reading, ckpt, files, transaction, crashes, history, outruns>>

\* Pages of the transaction under way that are in the log.
Logged == {p \in Page : \E f \in Frames :
             /\ log.frames[f] # None
             /\ log.frames[f].data = transaction /\ log.frames[f].page = p}

\* walWriteOneFrame; a spilled page is the only one of its call.
WriteFrame(c, p, commit) ==
  /\ iFrame < MaxFrame /\ p \notin Logged
  /\ \/ (commit \/ iFrame = hdr[c].mxFrame) /\ Moves(c, "frames", "append")
     \/ ~commit /\ Moves(c, "frames", "frames")
  /\ iFrame' = iFrame + 1
  /\ LET frame == [salt |-> hdr[c].salt, page |-> p, data |-> transaction, commit |-> commit,
                   after |-> IF iFrame = 0 THEN 0 ELSE log.frames[iFrame].data]
     IN  log' = [log EXCEPT !.frames[iFrame'] = frame]
  /\ logMay' = [logMay EXCEPT ![iFrame'] = @ \cup {log.frames[iFrame'], None}]
  /\ UNCHANGED <<index, writer, reading, ckpt, db, saltMay, dbMay,
                 transaction, crashes, history, outruns>>

\* The wal-index gets the frames; what is there beyond is removed.
AppendIndex(c) ==
  /\ Moves(c, "append", IF log.frames[iFrame].commit THEN "publish" ELSE "write")
  /\ aPgno' = [f \in Frames |-> IF f <= hdr[c].mxFrame THEN aPgno[f]
                                ELSE IF f <= iFrame THEN log.frames[f].page ELSE None]
  /\ hdr' = [hdr EXCEPT ![c].mxFrame = iFrame]
  /\ UNCHANGED <<header, nBackfill, aReadMark, writer, readLock, mark, minFrame, iFrame, ckpt, files,
                 transaction, crashes, history, outruns>>

Draft == [p \in Page |-> IF p \in Logged THEN transaction ELSE Last(store)[p]]

\* walIndexWriteHdr: the transaction is committed.
Publish(c) ==
  /\ Moves(c, "publish", "wrote")
  /\ iFrame' = 0
  /\ header' = [hdr[c] EXCEPT !.iChange = @ + 1]
  /\ hdr' = Set(hdr, c, header')
  /\ store' = Append(store, Draft)
  /\ UNCHANGED <<aPgno, nBackfill, aReadMark, writer, readLock, mark, minFrame, ckpt, files,
                 transaction, crashes, sure, outruns>>

\* A rollback, or a failed write.
Undo(c) ==
  /\ Moves(c, "write", "wrote") \/ Moves(c, "frames", "wrote")
  /\ iFrame' = 0
  /\ hdr' = Set(hdr, c, header)
  /\ aPgno' = [f \in Frames |-> IF header.mxFrame # 0 /\ header.mxFrame # hdr[c].mxFrame /\ f > header.mxFrame
                                  THEN None ELSE aPgno[f]]
  /\ UNCHANGED <<header, nBackfill, aReadMark, writer, readLock, mark, minFrame, ckpt, files,
                 transaction, crashes, history, outruns>>

EndWrite(c) ==
  /\ Moves(c, "wrote", "read")
  /\ writer' = None
  /\ UNCHANGED <<index, reading, iFrame, ckpt, files, transaction, crashes, history, outruns>>

-----------------------------------------------------------------------------
(***************************************************************************)
(* Checkpoints: sqlite3WalCheckpoint, walCheckpoint.                       *)
(***************************************************************************)

Checkpoint(c) ==
  /\ ckpt.by = None /\ header # None
  /\ Moves(c, "idle", "iterate")
  /\ ckpt' = [ckpt EXCEPT !.by = c]
  /\ hdr' = Set(hdr, c, header)
  /\ behind' = FALSE
  /\ UNCHANGED <<index, writer, readLock, mark, minFrame, iFrame, files, transaction, crashes,
                 history, outrun>>

\* The frames of the log, for every page the last, if any is yet to be copied.
Iterate(c) ==
  /\ \/ /\ nBackfill < hdr[c].mxFrame
        /\ Moves(c, "iterate", "marks")
        /\ ckpt' = [ckpt EXCEPT !.mxSafeFrame = hdr[c].mxFrame, !.marks = Marks,
                                !.iter = [p \in Page |-> FrameOf(1..hdr[c].mxFrame, p)]]
        /\ outrun' = (outrun \/ behind)
     \/ /\ nBackfill >= hdr[c].mxFrame
        /\ Moves(c, "iterate", "unlock")
        /\ UNCHANGED <<ckpt, outrun>>
  /\ UNCHANGED <<index, writer, reading, iFrame, files, transaction, crashes, history, behind>>

NextMark == CHOOSE i \in ckpt.marks : \A j \in ckpt.marks : i <= j

\* A mark that is not below what is safe so far does not matter.
LookAtMark(c) ==
  /\ ckpt.marks # {}
  /\ \/ /\ aReadMark[NextMark] < ckpt.mxSafeFrame
        /\ Moves(c, "marks", "obey")
        /\ ckpt' = [ckpt EXCEPT !.y = aReadMark[NextMark]]
     \/ /\ aReadMark[NextMark] >= ckpt.mxSafeFrame
        /\ Moves(c, "marks", "marks")
        /\ ckpt' = [ckpt EXCEPT !.marks = @ \ {NextMark}]
  /\ UNCHANGED <<index, writer, reading, iFrame, files, transaction, crashes, history, outruns>>

\* Faulty variant: a mark that is in use does not count.
SafeWithoutMarks == ckpt.mxSafeFrame

\* What may be copied if the mark is in use: up to what was seen there.
SafeWith == ckpt.y

\* The mark is put out of the way, or obeyed if it is in use.
ObeyMark(c) ==
  /\ Moves(c, "obey", "marks")
  /\ \/ /\ MayExclude(NextMark)
        /\ aReadMark' = [aReadMark EXCEPT ![NextMark] = IF NextMark = 1 THEN ckpt.mxSafeFrame ELSE NotUsed]
        /\ ckpt' = [ckpt EXCEPT !.marks = @ \ {NextMark}, !.y = 0]
     \/ /\ ~MayExclude(NextMark)
        /\ ckpt' = [ckpt EXCEPT !.marks = @ \ {NextMark}, !.mxSafeFrame = SafeWith, !.y = 0]
        /\ UNCHANGED aReadMark
  /\ UNCHANGED <<header, aPgno, nBackfill, writer, reading, iFrame, files,
                 transaction, crashes, history, outruns>>

\* With READ(0), so that nobody relies on the file alone; the log is synced first.
SyncLog(c) ==
  /\ ckpt.marks = {}
  /\ \/ /\ nBackfill < ckpt.mxSafeFrame /\ MayExclude(0)
        /\ Moves(c, "marks", "copy")
        /\ ckpt' = [ckpt EXCEPT !.pages = Page]
        /\ logMay' = [f \in Frames |-> {}] /\ saltMay' = {}
        /\ sure' = Len(store)
     \/ /\ ~(nBackfill < ckpt.mxSafeFrame /\ MayExclude(0))
        /\ Moves(c, "marks", "unlock")
        /\ UNCHANGED <<ckpt, logMay, saltMay, sure>>
  /\ UNCHANGED <<index, writer, reading, iFrame, log, db, dbMay,
                 transaction, crashes, store, outruns>>

\* A page whose last frame is not safe is passed over, an older one of it with it.
CopyPage(c, p) ==
  /\ p \in ckpt.pages
  /\ Moves(c, "copy", IF ckpt.pages = {p} THEN "finish" ELSE "copy")
  /\ ckpt' = [ckpt EXCEPT !.pages = @ \ {p}]
  /\ IF ckpt.iter[p] \in nBackfill + 1..ckpt.mxSafeFrame
       THEN /\ db' = [db EXCEPT ![p] = log.frames[ckpt.iter[p]].data]
            /\ dbMay' = [dbMay EXCEPT ![p] = @ \cup {db[p], Torn}]
       ELSE UNCHANGED <<db, dbMay>>
  /\ UNCHANGED <<index, writer, reading, iFrame, log, logMay, saltMay,
                 transaction, crashes, history, outruns>>

\* The file is only synced if that was the whole log.
Finish(c) ==
  /\ Moves(c, "finish", "unlock")
  /\ dbMay' = IF ckpt.mxSafeFrame = header.mxFrame THEN [p \in Page |-> {}] ELSE dbMay
  /\ nBackfill' = ckpt.mxSafeFrame
  /\ UNCHANGED <<header, aPgno, aReadMark, writer, reading, iFrame, ckpt, log, db, logMay, saltMay,
                 transaction, crashes, history, outruns>>

Unlock(c) ==
  /\ Leave(c, "unlock")
  /\ ckpt' = NoCheckpoint
  /\ UNCHANGED <<index, writer, iFrame, files, transaction, crashes, history, outruns>>

-----------------------------------------------------------------------------
(***************************************************************************)
(* Crashes.  The wal-index is made anew by whoever connects first.         *)
(***************************************************************************)

\* The states committed that are left if the files are l and d: those up to the state
\* that a recovery finds.
Left(l, d) ==
  LET s == StateOf(l, d)
      n == MaxOf({i \in 1..Len(store) : store[i] = s})
  IN  IF n = 0 THEN Append(store, s) ELSE SubSeq(store, 1, n)

Crash ==
  /\ crashes < MaxCrashes
  /\ crashes' = crashes + 1
  /\ header' = None
  /\ aPgno' = [f \in Frames |-> None] /\ nBackfill' = 0 /\ aReadMark' = [i \in Marks |-> 0]
  /\ writer' = None
  /\ at' = [c \in Connection |-> "idle"]
  /\ hdr' = [c \in Connection |-> NoHeader]
  /\ readLock' = [c \in Connection |-> -1]
  /\ mark' = [c \in Connection |-> <<0, 0>>]
  /\ minFrame' = [c \in Connection |-> 0]
  /\ iFrame' = 0 /\ ckpt' = NoCheckpoint
  /\ store' = Left(log', db')
  /\ behind' = FALSE
  /\ UNCHANGED <<transaction, sure, outrun>>

\* The process ends; the system keeps what was written.
Kill == UNCHANGED files /\ Crash

\* Of what was not synced anything may be on the disk.
PowerLoss ==
  \E salt \in saltMay \cup {log.salt},
     frames \in {g \in [Frames -> UNION {logMay[f] \cup {log.frames[f]} : f \in Frames}] :
                   \A f \in Frames : g[f] \in logMay[f] \cup {log.frames[f]}},
     d \in {e \in [Page -> UNION {dbMay[p] \cup {db[p]} : p \in Page}] :
              \A p \in Page : e[p] \in dbMay[p] \cup {db[p]}} :
    /\ log' = [salt |-> salt, frames |-> frames] /\ db' = d
    /\ logMay' = [f \in Frames |-> {}] /\ saltMay' = {} /\ dbMay' = [p \in Page |-> {}]
    /\ Crash

-----------------------------------------------------------------------------

WalNext ==
  \/ \E c \in Connection :
       \/ Recover(c) \/ ReadHdr(c) \/ Decide(c) \/ Compare(c)
       \/ ChooseMark(c) \/ ShareMark(c) \/ SetMinFrame(c) \/ CheckMark(c) \/ EndRead(c)
       \/ BeginWrite(c) \/ RestartLog(c) \/ Reset(c)
       \/ WriteHeader(c) \/ SyncHeader(c) \/ AfterOthers(c)
       \/ \E p \in Page, commit \in BOOLEAN : WriteFrame(c, p, commit)
       \/ AppendIndex(c) \/ Publish(c) \/ Undo(c) \/ EndWrite(c)
       \/ Checkpoint(c) \/ Iterate(c) \/ LookAtMark(c) \/ ObeyMark(c) \/ SyncLog(c)
       \/ \E p \in Page : CopyPage(c, p)
       \/ Finish(c) \/ Unlock(c)
  \/ Kill \/ PowerLoss

WalSpec == WalInit /\ [][WalNext]_walVars

-----------------------------------------------------------------------------
(***************************************************************************)
(* Properties.                                                             *)
(***************************************************************************)

Version == 0..MaxTransactions \cup {Torn}

WalTypeOK ==
  /\ header \in {None} \cup [salt : Nat, mxFrame : Nat, iChange : Nat]
  /\ aPgno \in [Frames -> Page \cup {None}] /\ nBackfill \in 0..MaxFrame
  /\ aReadMark \in [Marks -> 0..NotUsed]
  /\ writer \in Connection \cup {None}
  /\ readLock \in [Connection -> -1..NReader]
  /\ db \in [Page -> Version]

Writing == writer # None /\ at[writer] # "wrote"

Store == INSTANCE SnapshotStore WITH
  State <- [Page -> Version],
  First <- [p \in Page |-> 0],
  view <- [c \in Connection |-> IF at[c] = "read" THEN [p \in Page |-> PageRead(c, p)] ELSE None],
  draft <- IF Writing THEN Draft ELSE None,
  sealed <- Writing /\ at[writer] \in {"append", "publish"} /\ log.frames[iFrame].commit

\* Every reader sees one committed state, the latest when it began, until it ends,
\* whatever is appended, copied back or restarted meanwhile; a commit is all or
\* nothing, and a crash loses none that a checkpoint has synced: the log and all
\* who use it implement SnapshotStore, at least until a checkpointer has gone on with
\* the header of a log that was restarted meanwhile (wal.c 3285, 1760).
ImplementsStore ==
  Store!StoreInit /\ [][Store!StoreNext \/ outrun']_(Store!storeVars)

\* While pages are copied nobody reads the file alone, and nothing is copied that is
\* newer than what anybody reads, although marks are chosen, moved, shared and checked
\* while the checkpointer looks at them (wal.c 358-361, 1780-1803), and although the
\* log may be restarted before it does, if it does not go on with the old header.
CopiesNothingNewer ==
  ~outrun => \A c \in Connection :
    at[c] \in {"read", "write"} /\ Copying =>
      readLock[c] > 0 /\ ckpt.mxSafeFrame <= hdr[c].mxFrame

\* "The nBackfill number is never greater than WalIndexHdr.mxFrame" (wal.c 329-330), as
\* what it counts is passed over by readers and checkpoints alike.
BackfillWithinLog ==
  header # None /\ ~Restarting => nBackfill <= header.mxFrame
=============================================================================
