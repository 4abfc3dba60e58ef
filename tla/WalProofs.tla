----------------------------- MODULE WalProofs -----------------------------
(***************************************************************************)
(* Nothing newer is copied back into the data base file than anybody       *)
(* reads, for any number of connections, pages, marks and frames and       *)
(* through any crashes, until a checkpointer has gone on with the header   *)
(* of a log that a writer has restarted meanwhile.                         *)
(*                                                                         *)
(* The invariant says who may be where (PlaceInv) with which lock          *)
(* (LockInv); that no header is new twice (FreshInv), what a writer knows  *)
(* of it (WriterInv), what the marks and the bare file are worth (MarkInv, *)
(* FileInv), and what a checkpoint may go by (SafeInv).  Each step keeps   *)
(* it: a lemma per action, with one step per part.  That the header of a   *)
(* checkpointer is not beyond the log, or the log was restarted, is kept   *)
(* by itself (AheadInv).                                                   *)
(***************************************************************************)
EXTENDS Wal, SequenceTheorems, WellFoundedInduction, TLAPS

Places == {"idle", "decide", "compare", "mark", "share", "minFrame", "check", "read",
           "write", "reset", "log", "header", "frames", "append", "publish", "wrote",
           "iterate", "marks", "obey", "copy", "finish", "unlock"}
Writes == {"write", "reset", "log", "header", "frames", "append", "publish", "wrote"}
Appends == {"log", "header", "frames", "append", "publish"}
Checkpoints == {"iterate", "marks", "obey", "copy", "finish", "unlock"}
Backfills == {"marks", "obey", "copy", "finish"}
\* Where a connection has a lock that will not be taken from it.
Reads == {"read"} \cup (Writes \ {"reset"})

Header == [salt : Nat, mxFrame : Nat, iChange : Nat]

WalTypes ==
  /\ at \in [Connection -> Places] /\ DOMAIN mark = Connection
  /\ hdr \in [Connection -> Header]
  /\ header # None => header \in Header
  /\ readLock \in [Connection -> -1..NReader]
  /\ aReadMark \in [Marks -> Nat]
  /\ nBackfill \in Nat /\ iFrame \in Nat /\ transaction \in Nat
  /\ log = [salt |-> log.salt, frames |-> log.frames]
  /\ log.salt \in Nat /\ saltMay \subseteq Nat

CheckpointTypes ==
  /\ ckpt = [by |-> ckpt.by, mxSafeFrame |-> ckpt.mxSafeFrame, iter |-> ckpt.iter,
             marks |-> ckpt.marks, y |-> ckpt.y, pages |-> ckpt.pages]
  /\ ckpt.mxSafeFrame \in Nat /\ ckpt.y \in Nat /\ ckpt.marks \subseteq Marks

\* There is one writer, and one checkpointer, and a header for who uses it.
PlaceInv ==
  /\ \A c \in Connection : at[c] \in Writes => writer = c
  /\ \A c \in Connection : at[c] \in Checkpoints => ckpt.by = c
  /\ header = None => \A c \in Connection : at[c] = "idle" /\ hdr[c] = NoHeader

\* Who holds which read lock, and what keeps others from it.
LockInv ==
  /\ \A c \in Connection :
       /\ at[c] \in {"idle", "decide", "mark", "share"} \cup Checkpoints => readLock[c] = -1
       /\ at[c] \in {"compare", "reset"} => readLock[c] = 0
       /\ at[c] \in {"share", "minFrame", "check"} =>
            mark[c][1] \in Marks /\ mark[c][2] \in Nat /\ mark[c][2] <= hdr[c].mxFrame
       /\ at[c] \in {"minFrame", "check"} => readLock[c] = mark[c][1]
       /\ at[c] \in Reads => readLock[c] >= 0
       /\ at[c] \in Appends => readLock[c] > 0
  /\ Copying => \A c \in Connection : readLock[c] # 0
  /\ Restarting => \A c \in Connection : readLock[c] <= 0

\* No header is new twice: its salt is that of a transaction, its count goes up.
FreshInv ==
  /\ header # None => header.salt <= transaction
  /\ \A c \in Connection : hdr[c].salt <= transaction
  /\ log.salt <= transaction /\ \A s \in saltMay : s <= transaction
  /\ header # None => \A c \in Connection : hdr[c].iChange <= header.iChange
  /\ \A c \in Connection : at[c] = "write" /\ readLock[c] = 0 =>
       header.salt < transaction /\ \A d \in Connection : hdr[d].salt < transaction

\* What a writer knows of the header, and how far it has got.
WriterInv ==
  \A c \in Connection :
    /\ at[c] = "write" /\ readLock[c] = 0 => header = hdr[c]
    /\ at[c] = "reset" => header = hdr[c] /\ header.mxFrame = 0 /\ nBackfill > 0
    /\ at[c] \in Appends \cup {"write"} =>
         header.mxFrame <= hdr[c].mxFrame /\ header.iChange = hdr[c].iChange
    /\ at[c] = "header" => hdr[c].mxFrame = 0
    /\ at[c] \in {"frames", "append"} => hdr[c].mxFrame <= iFrame

\* A mark in use is not beyond the header of who uses it.
MarkInv ==
  \A c \in Connection : at[c] \in Reads /\ readLock[c] > 0 =>
    /\ aReadMark[readLock[c]] <= hdr[c].mxFrame
    /\ at[c] \in Appends \cup {"write"} => aReadMark[readLock[c]] <= header.mxFrame

\* Who reads the file alone has all of the log in it, unless the log has changed.
FileInv ==
  \A c \in Connection :
    at[c] \in {"compare", "read", "write", "wrote"} /\ readLock[c] = 0 /\ header = hdr[c] =>
      nBackfill = hdr[c].mxFrame

\* What a checkpoint goes by.
SafeInv ==
  \A k \in Connection : at[k] \in Backfills =>
    /\ ckpt.mxSafeFrame <= header.mxFrame /\ nBackfill < header.mxFrame
    /\ at[k] = "obey" => ckpt.marks # {} /\ ckpt.y < ckpt.mxSafeFrame
    /\ at[k] \in {"copy", "finish"} => ckpt.marks = {}
    /\ \A c \in Connection : at[c] \in Reads /\ readLock[c] > 0 =>
         /\ readLock[c] \in ckpt.marks \/ ckpt.mxSafeFrame <= hdr[c].mxFrame
         /\ at[k] = "obey" /\ readLock[c] = NextMark => ckpt.y <= hdr[c].mxFrame

\* A header that a checkpointer has read, and not yet gone by, is of the log.
AheadInv ==
  /\ behind \in BOOLEAN /\ outrun \in BOOLEAN
  /\ \A k \in Connection : at[k] = "iterate" => behind \/ hdr[k].mxFrame <= header.mxFrame

HistoryInv == \E S : store \in Seq(S)

WalInv ==
  /\ WalTypes /\ CheckpointTypes /\ HistoryInv /\ PlaceInv /\ LockInv /\ FreshInv
  /\ WriterInv /\ MarkInv /\ FileInv /\ SafeInv

\* Sets of numbers have a least element, and bounded ones a greatest.
LEMMA Least ==
  ASSUME NEW S \in SUBSET Nat, S # {}
  PROVE  \E x \in S : \A y \in S : x <= y
<1> DEFINE R == {ss \in Nat \X Nat : ss[1] < ss[2]}
<1>1. IsWellFoundedOn(R, Nat)
  BY NatLessThanWellFounded, Zenon DEF OpToRel
<1>2. PICK x \in S : \A y \in S : ~(<<y, x>> \in R)
  <2> HIDE DEF R
  <2> QED  BY <1>1, WFMin
<1>3. \A y \in S : ~(y < x)
  BY <1>2
<1> QED  BY <1>3

LEMMA Greatest ==
  ASSUME NEW n \in Nat, NEW S \in SUBSET (0..n)
  PROVE  /\ MaxOf(S) \in S \cup {0} /\ (S # {} => MaxOf(S) \in S)
         /\ \A y \in S : y <= MaxOf(S)
<1>1. CASE S = {}
  BY <1>1 DEF MaxOf
<1>2. CASE S # {}
  <2> DEFINE T == {n - x : x \in S}
  <2>0. \A x \in S : x \in Nat /\ x <= n /\ n - x \in Nat
    OBVIOUS
  <2>1. T \in SUBSET Nat /\ T # {}
    BY <1>2, <2>0
  <2>2. PICK t \in T : \A y \in T : t <= y
    BY <2>1, Least
  <2>3. \E x \in S : \A y \in S : y <= x
    <3>1. PICK x \in S : t = n - x
      BY <2>2
    <3>2. \A y \in S : n - x <= n - y
      BY <2>2, <3>1
    <3>3. ASSUME NEW y \in S  PROVE y <= x
      BY <2>0, <3>2
    <3> QED  BY <3>3
  <2> QED  BY <1>2, <2>3 DEF MaxOf
<1> QED  BY <1>1, <1>2

\* What no lock and the first marks are.
LEMMA Ranges ==
  /\ 0 \in -1..NReader /\ -1 \in -1..NReader /\ 1 \in Marks
  /\ \A i \in Marks : i \in -1..NReader /\ i \in Nat /\ i > 0
BY WalAssumption DEF Marks

\* What a checkpoint goes by holds still if the others' headers only grow, or are
\* that of the log.
LEMMA SafeKept ==
  ASSUME WalTypes, WalTypes', CheckpointTypes, SafeInv, UNCHANGED <<ckpt, nBackfill>>,
         \A k \in Connection : at'[k] \in Backfills =>
           /\ at'[k] = at[k] /\ hdr'[k] = hdr[k]
           /\ header \in Header /\ header' \in Header /\ header.mxFrame <= header'.mxFrame,
         \A d \in Connection : at'[d] \in Reads /\ readLock'[d] > 0 =>
           \/ at[d] \in Reads /\ readLock'[d] = readLock[d] /\ hdr[d].mxFrame <=
                 hdr'[d].mxFrame
           \/ hdr'[d] = header'
  PROVE  SafeInv'
<1>1. \A d \in Connection : hdr[d].mxFrame \in Nat /\ hdr'[d].mxFrame \in Nat
  BY DEF WalTypes, Header
<1>3. ASSUME NEW k \in Connection, at'[k] \in Backfills
      PROVE  /\ ckpt'.mxSafeFrame <= header'.mxFrame /\ nBackfill' < header'.mxFrame
             /\ at'[k] = "obey" => ckpt'.marks # {} /\ ckpt'.y < ckpt'.mxSafeFrame
             /\ at'[k] \in {"copy", "finish"} => ckpt'.marks = {}
  <2>1. at[k] = at'[k] /\ header.mxFrame \in Nat /\ header'.mxFrame \in Nat /\
        header.mxFrame <= header'.mxFrame
    BY <1>3 DEF Header
  <2> QED  BY <1>3, <2>1 DEF SafeInv, WalTypes, CheckpointTypes
<1>4. ASSUME NEW k \in Connection, at'[k] \in Backfills,
             NEW c \in Connection, at'[c] \in Reads, readLock'[c] > 0
      PROVE  /\ readLock'[c] \in ckpt'.marks \/ ckpt'.mxSafeFrame <= hdr'[c].mxFrame
             /\ at'[k] = "obey" /\ readLock'[c] = NextMark' => ckpt'.y <= hdr'[c].mxFrame
  <2>1. at[k] = at'[k] /\ NextMark' = NextMark
    BY <1>4 DEF NextMark
  <2>2. ckpt.mxSafeFrame \in Nat /\ ckpt.y \in Nat
    BY DEF CheckpointTypes
  <2>3. CASE hdr'[c] = header'
    <3>1. ckpt'.mxSafeFrame <= hdr'[c].mxFrame
      BY <1>3, <1>4, <2>3
    <3>2. at'[k] = "obey" => ckpt'.y < ckpt'.mxSafeFrame
      BY <1>3, <1>4
    <3> QED  BY <1>1, <2>2, <3>1, <3>2
  <2>4. CASE at[c] \in Reads /\ readLock'[c] = readLock[c] /\ hdr[c].mxFrame <=
        hdr'[c].mxFrame
    BY <1>1, <1>4, <2>1, <2>2, <2>4 DEF SafeInv
  <2> QED  BY <1>4, <2>3, <2>4
<1> QED  BY <1>3, <1>4 DEF SafeInv

\* The history stays a sequence.
LEMMA HistoryKept ==
  ASSUME HistoryInv, NEW s, store' = Append(store, s)
  PROVE  HistoryInv'
<1>1. PICK S : store \in Seq(S)
  BY DEF HistoryInv
<1>2. store \in Seq(S \cup {s})
  BY <1>1
<1>3. Append(store, s) \in Seq(S \cup {s})
  BY <1>2, AppendProperties
<1> QED  BY <1>3 DEF HistoryInv


\* A step of the checkpointer leaves the others alone.
LEMMA CheckpointStep ==
  ASSUME WalTypes, PlaceInv, FreshInv, WriterInv, FileInv, HistoryInv,
         NEW c \in Connection, NEW n \in Checkpoints, at[c] \in Checkpoints,
         at' = [at EXCEPT ![c] = n], ckpt'.by = ckpt.by,
         UNCHANGED <<header, nBackfill, writer, hdr, readLock, mark, iFrame, log,
               transaction, store>>,
         aReadMark' \in [Marks -> Nat], saltMay' \subseteq saltMay
  PROVE  /\ WalTypes' /\ PlaceInv' /\ FreshInv' /\ WriterInv' /\ FileInv' /\ HistoryInv'
         /\ \A d \in Connection : d # c => at'[d] = at[d] /\ at[d] \notin Checkpoints
         /\ \A d \in Connection : at'[d] \notin Checkpoints => at[d] = at'[d]
<1> USE DEF Places, Writes, Appends, Checkpoints
<1>1. n \in Places
  OBVIOUS
<1>2. at \in [Connection -> Places] /\ at' \in [Connection -> Places]
  BY <1>1 DEF WalTypes
<1>3. /\ \A d \in Connection : d # c => at'[d] = at[d]
      /\ at'[c] = n
  BY <1>2
<1>4. \A d \in Connection : at'[d] \notin Checkpoints => at[d] = at'[d]
  BY <1>3
<1>5. ASSUME NEW d \in Connection, d # c  PROVE at[d] \notin Checkpoints
  BY <1>5 DEF PlaceInv
<1>6. WalTypes'
  BY <1>2 DEF WalTypes
<1>7. PlaceInv'
  BY <1>3 DEF PlaceInv
<1>8. FreshInv'
  BY <1>4 DEF FreshInv
<1>9. WriterInv'
  BY <1>4 DEF WriterInv
<1>10. FileInv'
  BY <1>4 DEF FileInv
<1>11. HistoryInv'
  BY DEF HistoryInv
<1> QED  BY <1>3, <1>4, <1>5, <1>6, <1>7, <1>8, <1>9, <1>10, <1>11

\* A connection that leaves without a lock.
LEMMA LeaveKeeps ==
  ASSUME WalInv, NEW c \in Connection,
         NEW s \in {"compare", "mark", "share", "check", "read", "unlock"}, Leave(c, s),
         UNCHANGED <<index, writer, iFrame, files, transaction, store>>,
         ckpt' = ckpt \/ (s = "unlock" /\ ckpt' = NoCheckpoint)
  PROVE  WalInv'
<1> USE WalAssumption, Ranges DEF WalInv, Leave, Moves, Set, Places, Writes, Appends,
      Checkpoints,
        Backfills, Reads, Header, index, files
<1>0. at' = [at EXCEPT ![c] = at'[c]] /\ at'[c] \in {"mark", "idle"} /\ at[c] = s
  BY DEF WalTypes
<1>1. hdr' \in [Connection -> Header] /\ \A d \in Connection : hdr'[d] = hdr[d] \/ (d = c
      /\ hdr'[d] = NoHeader)
  BY DEF WalTypes, NoHeader
<1>2. readLock' = [readLock EXCEPT ![c] = -1]
  OBVIOUS
<1>3. WalTypes'
  BY <1>0, <1>1 DEF WalTypes
<1>4. CheckpointTypes'
  BY DEF CheckpointTypes, NoCheckpoint
<1>5. PlaceInv'
  BY <1>0, <1>1 DEF PlaceInv, WalTypes
<1>6. LockInv'
  BY <1>0, <1>1, <1>2 DEF LockInv, WalTypes, Copying, Restarting
<1>7. FreshInv'
  BY <1>0, <1>1, <1>2 DEF FreshInv, WalTypes, PlaceInv, NoHeader
<1>8. WriterInv'
  BY <1>0, <1>1, <1>2 DEF WriterInv, WalTypes
<1>9. MarkInv'
  BY <1>0, <1>1, <1>2 DEF MarkInv, WalTypes
<1>10. FileInv'
  BY <1>0, <1>1, <1>2 DEF FileInv, WalTypes
<1>11. SafeInv'
  BY <1>0, <1>1, <1>2 DEF SafeInv, WalTypes, PlaceInv, NextMark
<1>12. HistoryInv'
  BY DEF HistoryInv
<1> QED  BY <1>3, <1>4, <1>5, <1>6, <1>7, <1>8, <1>9, <1>10, <1>11, <1>12

\* The steps by which a reader gets its lock (wal.c 2283-2520).
LEMMA CompareKeeps ==
  ASSUME WalInv, NEW c \in Connection, Compare(c)
  PROVE  WalInv'
<1>1. CASE Leave(c, "compare")
  BY <1>1, LeaveKeeps DEF Compare, history
<1>2. CASE header = hdr[c] /\ Moves(c, "compare", "read") /\ UNCHANGED reading
  <2> USE <1>2 DEF WalInv, Moves, Set, Compare, Places, Writes, Appends, Checkpoints,
        Backfills, Reads, Header, index, reading, files, history
  <2>1. at[c] = "compare" /\ at' = [at EXCEPT ![c] = "read"] /\ readLock[c] = 0
    BY DEF LockInv
  <2>2. WalTypes' /\ CheckpointTypes' /\ HistoryInv'
    BY DEF WalTypes, CheckpointTypes, HistoryInv
  <2>3. PlaceInv' /\ LockInv'
    BY <2>1 DEF WalTypes, PlaceInv, LockInv, Copying, Restarting
  <2>4. FreshInv' /\ WriterInv' /\ MarkInv'
    BY <2>1 DEF WalTypes, FreshInv, WriterInv, MarkInv
  <2>5. FileInv'
    BY <2>1 DEF WalTypes, FileInv
  <2>6. SafeInv'
    BY <2>1 DEF WalTypes, SafeInv, NextMark
  <2> QED  BY <2>2, <2>3, <2>4, <2>5, <2>6
<1> QED  BY <1>1, <1>2 DEF Compare

LEMMA DecideKeeps ==
  ASSUME WalInv, NEW c \in Connection, Decide(c)
  PROVE  WalInv'
<1> USE DEF WalInv, Places, Writes, Appends, Checkpoints, Backfills, Reads
<1>1. /\ at[c] = "decide" /\ at' = [at EXCEPT ![c] = at'[c]] /\ at'[c] \in {"compare", "mark"}
      /\ UNCHANGED <<header, nBackfill, aReadMark, writer, hdr, mark, iFrame, ckpt, log, saltMay,
           transaction, store>>
  BY DEF Decide, Moves, WalTypes, index, files, history
<1>2. \/ /\ at'[c] = "compare" /\ nBackfill = hdr[c].mxFrame /\ MayShare(0)
         /\ readLock' = [readLock EXCEPT ![c] = 0]
      \/ at'[c] = "mark" /\ readLock' = readLock
  BY DEF Decide, Moves, Set, WalTypes
<1>3. /\ at' \in [Connection -> Places]
      /\ \A d \in Connection : d # c => at'[d] = at[d] /\ readLock'[d] = readLock[d]
  BY <1>1, <1>2 DEF WalTypes
<1>4. readLock' \in [Connection -> -1..NReader]
  BY <1>2, Ranges DEF WalTypes
<1>5. /\ at'[c] = "compare" => readLock'[c] = 0 /\ ~Copying
      /\ at'[c] = "mark" => readLock'[c] = -1
  BY <1>1, <1>2 DEF MayShare, WalTypes, LockInv
<1>6. WalTypes' /\ CheckpointTypes' /\ HistoryInv'
  BY <1>1, <1>3, <1>4 DEF WalTypes, CheckpointTypes, HistoryInv
<1>7. PlaceInv' /\ FreshInv'
  BY <1>1, <1>3 DEF PlaceInv, FreshInv
<1>8. LockInv'
  <2>1. (Copying' => Copying) /\ (Restarting' => Restarting)
    BY <1>1, <1>3 DEF Copying, Restarting
  <2>2. Copying' => \A d \in Connection : readLock'[d] # 0
    BY <1>1, <1>3, <1>5, <2>1 DEF LockInv
  <2>3. Restarting' => \A d \in Connection : readLock'[d] <= 0
    BY <1>1, <1>3, <1>5, <2>1 DEF LockInv
  <2> QED  BY <1>1, <1>3, <1>5, <2>2, <2>3 DEF LockInv
<1>9. WriterInv' /\ MarkInv'
  BY <1>1, <1>3 DEF WriterInv, MarkInv
<1>10. FileInv'
  BY <1>1, <1>2, <1>3 DEF FileInv
<1>11. SafeInv'
  <2>1. NextMark' = NextMark
    BY <1>1 DEF NextMark
  <2> QED  BY <1>1, <1>3, <2>1 DEF SafeInv
<1> QED  BY <1>6, <1>7, <1>8, <1>9, <1>10, <1>11

LEMMA ShareMarkKeeps ==
  ASSUME WalInv, NEW c \in Connection, ShareMark(c)
  PROVE  WalInv'
<1>1. CASE Leave(c, "share")
  BY <1>1, LeaveKeeps DEF ShareMark, history
<1>2. CASE /\ Moves(c, "share", "minFrame") /\ MayShare(mark[c][1])
           /\ readLock' = Set(readLock, c, mark[c][1]) /\ UNCHANGED <<hdr, mark, minFrame>>
  <2> USE <1>2, Ranges DEF WalInv, Moves, Set, ShareMark, Places, Writes, Appends,
        Checkpoints, Backfills, Reads, Header, index, files, history
  <2>1. /\ at[c] = "share" /\ at' = [at EXCEPT ![c] = "minFrame"]
        /\ mark[c][1] \in Marks /\ ~Restarting
        /\ readLock' = [readLock EXCEPT ![c] = mark[c][1]]
    BY DEF LockInv, MayShare
  <2>2. WalTypes' /\ CheckpointTypes' /\ HistoryInv'
    <3>1. at' \in [Connection -> Places]
      BY <2>1 DEF WalTypes
    <3>2. readLock' \in [Connection -> -1..NReader]
      BY <2>1, WalAssumption DEF WalTypes, Marks
    <3>3. WalTypes'
      BY <3>1, <3>2 DEF WalTypes
    <3> QED  BY <3>3 DEF CheckpointTypes, HistoryInv
  <2>3. PlaceInv'
    BY <2>1 DEF WalTypes, PlaceInv
  <2>4. LockInv'
    BY <2>1 DEF WalTypes, LockInv, Copying, Restarting
  <2>5. FreshInv' /\ WriterInv' /\ MarkInv'
    BY <2>1 DEF WalTypes, FreshInv, WriterInv, MarkInv
  <2>6. FileInv'
    BY <2>1 DEF WalTypes, FileInv
  <2>7. SafeInv'
    BY <2>1 DEF WalTypes, SafeInv, NextMark
  <2> QED  BY <2>2, <2>3, <2>4, <2>5, <2>6, <2>7
<1> QED  BY <1>1, <1>2 DEF ShareMark

LEMMA CheckMarkKeeps ==
  ASSUME WalInv, NEW c \in Connection, CheckMark(c)
  PROVE  WalInv'
<1>1. CASE Leave(c, "check")
  BY <1>1, LeaveKeeps DEF CheckMark, history
<1>2. CASE /\ Moves(c, "check", IF writer = c THEN "log" ELSE "read") /\ Still(c)
           /\ mark' = Set(mark, c, <<0, 0>>) /\ UNCHANGED <<hdr, readLock, minFrame>>
  <2> USE <1>2, Ranges DEF WalInv, Moves, Set, CheckMark, Places, Writes, Appends,
        Checkpoints, Backfills, Reads, Header, index, files, history
  <2>1. /\ at[c] = "check" /\ readLock[c] = mark[c][1] /\ readLock[c] \in Marks
        /\ header = hdr[c] /\ aReadMark[readLock[c]] <= header.mxFrame
    BY DEF LockInv, Still
  <2>2. at' = [at EXCEPT ![c] = at'[c]] /\ at'[c] \in {"log", "read"} /\ (at'[c] = "log"
        => writer = c)
    BY DEF WalTypes
  <2>3. WalTypes' /\ CheckpointTypes' /\ HistoryInv'
    BY <2>2 DEF WalTypes, CheckpointTypes, HistoryInv
  <2>4. PlaceInv'
    BY <2>1, <2>2 DEF WalTypes, PlaceInv
  <2>5. LockInv'
    BY <2>1, <2>2 DEF WalTypes, LockInv, Copying, Restarting
  <2>6. FreshInv'
    BY <2>1, <2>2 DEF WalTypes, FreshInv
  <2>7. WriterInv' /\ MarkInv'
    BY <2>1, <2>2 DEF WalTypes, WriterInv, MarkInv
  <2>8. FileInv'
    BY <2>1, <2>2 DEF WalTypes, FileInv
  <2>9. SafeInv'
    <3>1. \A k \in Connection : at'[k] \in Backfills =>
            at'[k] = at[k] /\ header \in Header /\ header.mxFrame <= header.mxFrame
      BY <2>2 DEF WalTypes, PlaceInv
    <3>2. \A d \in Connection : at'[d] \in Reads => at[d] \in Reads \/ hdr[d] = header
      BY <2>1, <2>2 DEF WalTypes
    <3>3. \A d \in Connection : hdr[d].mxFrame <= hdr[d].mxFrame
      BY DEF WalTypes
    <3> QED  BY <2>3, <3>1, <3>2, <3>3, SafeKept
  <2> QED  BY <2>3, <2>4, <2>5, <2>6, <2>7, <2>8, <2>9
<1> QED  BY <1>1, <1>2 DEF CheckMark

\* A writer that may restart the log, and what a writer appends (wal.c 2700-2780, 2960-3130).
LEMMA ResetKeeps ==
  ASSUME WalInv, NEW c \in Connection, Reset(c)
  PROVE  WalInv'
<1> USE WalAssumption, Ranges DEF WalInv, Reset, Moves, Set, Places, Writes, Appends,
      Checkpoints, Backfills, Reads, Header, index, reading, files, history
<1>1. WalTypes'
  BY WalAssumption DEF WalTypes, LockInv, NotUsed
<1>2. CheckpointTypes'
  BY DEF CheckpointTypes
<1>3. PlaceInv'
  BY DEF PlaceInv
<1>4. LockInv'
  BY DEF LockInv, WalTypes, Copying, Restarting
<1>5. FreshInv'
  BY DEF FreshInv
<1>6. WriterInv'
  BY DEF WriterInv, WalTypes, PlaceInv
<1>7. MarkInv'
  BY DEF MarkInv, WalTypes, LockInv, Restarting
<1>8. FileInv'
  BY DEF FileInv, WriterInv
<1>9. SafeInv'
  BY DEF SafeInv, WalTypes, WriterInv
<1>10. HistoryInv'
  BY DEF HistoryInv
<1> QED  BY <1>1, <1>2, <1>3, <1>4, <1>5, <1>6, <1>7, <1>8, <1>9, <1>10

LEMMA SyncHeaderKeeps ==
  ASSUME WalInv, NEW c \in Connection, SyncHeader(c)
  PROVE  WalInv'
<1> USE DEF WalInv, SyncHeader, Moves, Set, Places, Writes, Appends,
      Checkpoints, Backfills, Reads, Header, index, reading, files, history
<1>1. WalTypes'
  BY DEF WalTypes
<1>2. CheckpointTypes'
  BY DEF CheckpointTypes
<1>3. PlaceInv'
  BY DEF PlaceInv
<1>4. LockInv'
  <2>1. at[c] = "header" /\ at' = [at EXCEPT ![c] = "frames"] /\ UNCHANGED <<readLock,
        hdr, mark>>
    OBVIOUS
  <2>2. \A d \in Connection : d # c => at'[d] = at[d]
    BY <2>1 DEF WalTypes
  <2>3. at'[c] = "frames"
    BY <2>1 DEF WalTypes
  <2>4. (Copying' => Copying) /\ (Restarting' => Restarting)
    BY <2>2, <2>3 DEF Copying, Restarting
  <2> QED  BY <2>1, <2>2, <2>3, <2>4 DEF LockInv
<1>5. FreshInv'
  BY DEF FreshInv
<1>6. WriterInv'
  <2>1. /\ header' = header /\ hdr' = hdr /\ readLock' = readLock
        /\ nBackfill' = nBackfill /\ iFrame' = 0 /\ hdr[c].mxFrame = 0
        /\ at[c] = "header" /\ at'[c] = "frames"
        /\ header.mxFrame <= hdr[c].mxFrame /\ header.iChange = hdr[c].iChange
    BY DEF WalTypes, WriterInv
  <2>2. \A d \in Connection : d # c => at'[d] = at[d] /\ at[d] \notin Appends
    BY DEF WalTypes, PlaceInv
  <2> QED  BY <2>1, <2>2 DEF WriterInv
<1>7. MarkInv'
  BY DEF MarkInv
<1>8. FileInv'
  BY DEF FileInv
<1>9. SafeInv'
  <2>1. \A k \in Connection : at'[k] \in Backfills => at'[k] = at[k] /\
        hdr'[k] = hdr[k] /\ header' = header /\ header \in Header
    BY DEF WalTypes, PlaceInv
  <2>2. \A d \in Connection : at'[d] \in Reads => at[d] \in Reads
    BY DEF WalTypes
  <2>3. \A d \in Connection : hdr[d].mxFrame <= hdr'[d].mxFrame
    BY SMTT(30) DEF WalTypes
  <2>4. \A h \in Header : h.mxFrame <= h.mxFrame
    OBVIOUS
  <2> QED  BY <1>1, <2>1, <2>2, <2>3, <2>4, SafeKept
<1>10. HistoryInv'
  BY DEF HistoryInv
<1> QED  BY <1>1, <1>2, <1>3, <1>4, <1>5, <1>6, <1>7, <1>8, <1>9, <1>10

LEMMA AppendIndexKeeps ==
  ASSUME WalInv, NEW c \in Connection, AppendIndex(c)
  PROVE  WalInv'
<1> USE DEF WalInv, AppendIndex, Moves, Set, Places, Writes, Appends,
      Checkpoints, Backfills, Reads, Header, index, reading, files, history
<1>0. hdr' = [hdr EXCEPT ![c].mxFrame = iFrame] /\ hdr[c].mxFrame <= hdr'[c].mxFrame /\
      readLock[c] > 0
  BY DEF WalTypes, WriterInv, LockInv
<1>1. WalTypes'
  BY DEF WalTypes
<1>2. CheckpointTypes'
  BY DEF CheckpointTypes
<1>3. PlaceInv'
  BY DEF PlaceInv
<1>4. LockInv'
  BY DEF LockInv, Copying, Restarting
<1>5. FreshInv'
  BY DEF FreshInv, LockInv
<1>6. WriterInv'
  BY DEF WriterInv, WalTypes, PlaceInv, LockInv
<1>7. MarkInv'
  <2>1. \A d \in Connection : hdr[d].mxFrame <= hdr'[d].mxFrame
    BY <1>0 DEF WalTypes
  <2>2. at'[c] \in {"publish", "write"} /\ at[c] = "append" /\ \A d \in Connection : d # c
        => at'[d] = at[d]
    BY DEF WalTypes
  <2>3. aReadMark' = aReadMark /\ readLock' = readLock /\ header' = header
    OBVIOUS
  <2>4. \A d \in Connection : at'[d] \in Reads => at[d] \in Reads
    BY <2>2
  <2>5. \A d \in Connection : at'[d] \in Appends \cup {"write"} => at[d] \in Appends \cup
        {"write"}
    BY <2>2
  <2>6. \A d \in Connection : readLock[d] > 0 => aReadMark[readLock[d]] \in Nat /\
        hdr[d].mxFrame \in Nat /\ hdr'[d].mxFrame \in Nat
    <3>1. \A d \in Connection : hdr[d].mxFrame \in Nat /\ hdr'[d].mxFrame \in Nat
      BY <1>1 DEF WalTypes
    <3>2. \A d \in Connection : readLock[d] > 0 => readLock[d] \in Marks
      BY WalAssumption, SMTT(30) DEF WalTypes, Marks
    <3> QED  BY <3>1, <3>2 DEF WalTypes
  <2> QED  BY <2>1, <2>3, <2>4, <2>5, <2>6 DEF MarkInv
<1>8. FileInv'
  BY DEF FileInv, LockInv
<1>9. SafeInv'
  BY DEF SafeInv, WalTypes, CheckpointTypes, WriterInv, NextMark
<1>10. HistoryInv'
  BY DEF HistoryInv
<1> QED  BY <1>1, <1>2, <1>3, <1>4, <1>5, <1>6, <1>7, <1>8, <1>9, <1>10

LEMMA ReadHdrKeeps ==
  ASSUME WalInv, NEW c \in Connection, ReadHdr(c)
  PROVE  WalInv'
<1> USE DEF WalInv, ReadHdr, Moves, Set, Places, Writes, Appends,
      Checkpoints, Backfills, Reads, Header, index, reading, files, history
<1>1. WalTypes'
  BY DEF WalTypes
<1>2. CheckpointTypes'
  BY DEF CheckpointTypes
<1>3. PlaceInv'
  BY DEF PlaceInv
<1>4. LockInv'
  BY DEF LockInv, Copying, Restarting
<1>5. FreshInv'
  BY DEF FreshInv, WalTypes
<1>6. WriterInv'
  BY DEF WriterInv
<1>7. MarkInv'
  BY DEF MarkInv
<1>8. FileInv'
  BY DEF FileInv
<1>9. SafeInv'
  BY DEF SafeInv, NextMark
<1>10. HistoryInv'
  BY DEF HistoryInv
<1> QED  BY <1>1, <1>2, <1>3, <1>4, <1>5, <1>6, <1>7, <1>8, <1>9, <1>10

LEMMA SetMinFrameKeeps ==
  ASSUME WalInv, NEW c \in Connection, SetMinFrame(c)
  PROVE  WalInv'
<1> USE DEF WalInv, SetMinFrame, Moves, Set, Places, Writes, Appends,
      Checkpoints, Backfills, Reads, Header, index, reading, files, history
<1>1. WalTypes'
  BY DEF WalTypes
<1>2. CheckpointTypes'
  BY DEF CheckpointTypes
<1>3. PlaceInv'
  BY DEF PlaceInv
<1>4. LockInv'
  BY DEF LockInv, Copying, Restarting
<1>5. FreshInv'
  BY DEF FreshInv
<1>6. WriterInv'
  BY DEF WriterInv
<1>7. MarkInv'
  BY DEF MarkInv
<1>8. FileInv'
  BY DEF FileInv
<1>9. SafeInv'
  BY DEF SafeInv, NextMark
<1>10. HistoryInv'
  BY DEF HistoryInv
<1> QED  BY <1>1, <1>2, <1>3, <1>4, <1>5, <1>6, <1>7, <1>8, <1>9, <1>10

LEMMA BeginWriteKeeps ==
  ASSUME WalInv, NEW c \in Connection, BeginWrite(c)
  PROVE  WalInv'
<1> USE DEF WalInv, BeginWrite, Moves, Set, Places, Writes, Appends,
      Checkpoints, Backfills, Reads, Header, index, reading, files, history
<1>1. WalTypes'
  BY DEF WalTypes
<1>2. CheckpointTypes'
  BY DEF CheckpointTypes
<1>3. PlaceInv'
  BY WalAssumption DEF PlaceInv
<1>4. LockInv'
  BY DEF LockInv, Copying, Restarting
<1>5. FreshInv'
  BY DEF FreshInv, WalTypes
<1>6. WriterInv'
  BY DEF WriterInv, WalTypes
<1>7. MarkInv'
  BY DEF MarkInv
<1>8. FileInv'
  BY DEF FileInv
<1>9. SafeInv'
  BY DEF SafeInv, NextMark
<1>10. HistoryInv'
  BY DEF HistoryInv
<1> QED  BY <1>1, <1>2, <1>3, <1>4, <1>5, <1>6, <1>7, <1>8, <1>9, <1>10

LEMMA WriteHeaderKeeps ==
  ASSUME WalInv, NEW c \in Connection, WriteHeader(c)
  PROVE  WalInv'
<1> USE DEF WalInv, WriteHeader, Moves, Set, Places, Writes, Appends,
      Checkpoints, Backfills, Reads, Header, index, reading, files, history
<1>1. WalTypes'
  BY DEF WalTypes
<1>2. CheckpointTypes'
  BY DEF CheckpointTypes
<1>3. PlaceInv'
  BY DEF PlaceInv
<1>4. LockInv'
  BY DEF LockInv, Copying, Restarting
<1>5. FreshInv'
  BY DEF FreshInv, WalTypes, PlaceInv
<1>6. WriterInv'
  BY DEF WriterInv
<1>7. MarkInv'
  BY DEF MarkInv
<1>8. FileInv'
  BY DEF FileInv
<1>9. SafeInv'
  BY DEF SafeInv, WalTypes, PlaceInv, WriterInv
<1>10. HistoryInv'
  BY DEF HistoryInv
<1> QED  BY <1>1, <1>2, <1>3, <1>4, <1>5, <1>6, <1>7, <1>8, <1>9, <1>10

LEMMA AfterOthersKeeps ==
  ASSUME WalInv, NEW c \in Connection, AfterOthers(c)
  PROVE  WalInv'
<1> USE DEF WalInv, AfterOthers, Moves, Set, Places, Writes, Appends,
      Checkpoints, Backfills, Reads, Header, index, reading, files, history
<1>1. WalTypes'
  BY DEF WalTypes
<1>2. CheckpointTypes'
  BY DEF CheckpointTypes
<1>3. PlaceInv'
  BY DEF PlaceInv
<1>4. LockInv'
  BY DEF LockInv, Copying, Restarting
<1>5. FreshInv'
  BY DEF FreshInv
<1>6. WriterInv'
  BY DEF WriterInv, WalTypes, PlaceInv
<1>7. MarkInv'
  BY DEF MarkInv
<1>8. FileInv'
  BY DEF FileInv
<1>9. SafeInv'
  BY DEF SafeInv, NextMark
<1>10. HistoryInv'
  BY DEF HistoryInv
<1> QED  BY <1>1, <1>2, <1>3, <1>4, <1>5, <1>6, <1>7, <1>8, <1>9, <1>10

LEMMA UndoKeeps ==
  ASSUME WalInv, NEW c \in Connection, Undo(c)
  PROVE  WalInv'
<1> USE DEF WalInv, Undo, Moves, Set, Places, Writes, Appends, Checkpoints,
      Backfills, Reads, Header, index, reading, files, history
<1>1. WalTypes'
  BY DEF WalTypes, PlaceInv, Copying
<1>2. CheckpointTypes'
  BY DEF CheckpointTypes
<1>3. PlaceInv'
  BY DEF PlaceInv, WalTypes
<1>4. LockInv'
  BY DEF LockInv, WalTypes, Copying, Restarting
<1>5. FreshInv'
  BY DEF FreshInv, WalTypes, PlaceInv
<1>6. WriterInv'
  BY DEF WriterInv, WalTypes, PlaceInv
<1>7. MarkInv'
  BY DEF MarkInv, WalTypes
<1>8. FileInv'
  BY DEF FileInv, WalTypes, LockInv, WriterInv
<1>9. SafeInv'
  BY DEF SafeInv, WalTypes, CheckpointTypes, PlaceInv, NextMark
<1>10. HistoryInv'
  BY DEF HistoryInv
<1> QED  BY <1>1, <1>2, <1>3, <1>4, <1>5, <1>6, <1>7, <1>8, <1>9, <1>10

LEMMA EndWriteKeeps ==
  ASSUME WalInv, NEW c \in Connection, EndWrite(c)
  PROVE  WalInv'
<1> USE DEF WalInv, EndWrite, Moves, Set, Places, Writes, Appends,
      Checkpoints, Backfills, Reads, Header, index, reading, files, history
<1>1. WalTypes'
  BY DEF WalTypes
<1>2. CheckpointTypes'
  BY DEF CheckpointTypes
<1>3. PlaceInv'
  BY DEF PlaceInv, WalTypes
<1>4. LockInv'
  BY DEF LockInv, Copying, Restarting
<1>5. FreshInv'
  BY DEF FreshInv
<1>6. WriterInv'
  BY DEF WriterInv
<1>7. MarkInv'
  BY DEF MarkInv
<1>8. FileInv'
  BY DEF FileInv
<1>9. SafeInv'
  BY DEF SafeInv, NextMark
<1>10. HistoryInv'
  BY DEF HistoryInv
<1> QED  BY <1>1, <1>2, <1>3, <1>4, <1>5, <1>6, <1>7, <1>8, <1>9, <1>10

LEMMA CheckpointKeeps ==
  ASSUME WalInv, NEW c \in Connection, Checkpoint(c)
  PROVE  WalInv'
<1> USE DEF WalInv, Checkpoint, Moves, Set, Places, Writes, Appends,
      Checkpoints, Backfills, Reads, Header, index, reading, files, history
<1>1. WalTypes'
  BY DEF WalTypes
<1>2. CheckpointTypes'
  BY DEF CheckpointTypes
<1>3. PlaceInv'
  BY WalAssumption DEF PlaceInv
<1>4. LockInv'
  BY DEF LockInv, Copying, Restarting
<1>5. FreshInv'
  BY DEF FreshInv, WalTypes
<1>6. WriterInv'
  BY DEF WriterInv
<1>7. MarkInv'
  BY DEF MarkInv
<1>8. FileInv'
  BY DEF FileInv
<1>9. SafeInv'
  BY WalAssumption DEF SafeInv, WalTypes, PlaceInv
<1>10. HistoryInv'
  BY DEF HistoryInv
<1> QED  BY <1>1, <1>2, <1>3, <1>4, <1>5, <1>6, <1>7, <1>8, <1>9, <1>10

LEMMA FinishKeeps ==
  ASSUME WalInv, NEW c \in Connection, Finish(c)
  PROVE  WalInv'
<1> USE DEF WalInv, Finish, Moves, Set, Places, Writes, Appends,
      Checkpoints, Backfills, Reads, Header, index, reading, files, history
<1>1. WalTypes'
  BY DEF WalTypes, CheckpointTypes
<1>2. CheckpointTypes'
  BY DEF CheckpointTypes
<1>3. PlaceInv'
  BY DEF PlaceInv
<1>4. LockInv'
  BY DEF LockInv, Copying, Restarting
<1>5. FreshInv'
  BY DEF FreshInv
<1>6. WriterInv'
  BY DEF WriterInv, WalTypes, SafeInv
<1>7. MarkInv'
  BY DEF MarkInv
<1>8. FileInv'
  BY DEF FileInv, WalTypes, SafeInv
<1>9. SafeInv'
  BY DEF SafeInv, WalTypes, PlaceInv
<1>10. HistoryInv'
  BY DEF HistoryInv
<1> QED  BY <1>1, <1>2, <1>3, <1>4, <1>5, <1>6, <1>7, <1>8, <1>9, <1>10

LEMMA PublishKeeps ==
  ASSUME WalInv, NEW c \in Connection, Publish(c)
  PROVE  WalInv'
<1> USE DEF WalInv, Places, Writes, Appends, Checkpoints, Backfills, Reads
<1>1. /\ at[c] = "publish" /\ at' = [at EXCEPT ![c] = "wrote"] /\ readLock[c] > 0
      /\ header # None /\ header \in Header /\ hdr[c] \in Header
      /\ header.mxFrame <= hdr[c].mxFrame /\ header.iChange = hdr[c].iChange
  BY DEF Publish, Moves, WalTypes, PlaceInv, LockInv, WriterInv
<1>0. header' = [hdr[c] EXCEPT !.iChange = hdr[c].iChange + 1] /\ hdr' = [hdr EXCEPT ![c]
      = header']
  BY DEF Publish, Set
<1>2. /\ header' \in Header /\ hdr' = [hdr EXCEPT ![c] = header'] /\ header' # None
      /\ header'.mxFrame = hdr[c].mxFrame /\ header'.salt = hdr[c].salt
      /\ header'.iChange = hdr[c].iChange + 1
  BY <1>0, <1>1, WalAssumption DEF Header
<1>4. UNCHANGED <<readLock, aReadMark, nBackfill, ckpt, transaction, log, saltMay, mark,
      writer>> /\ iFrame' = 0
  BY DEF Publish, files
<1>3. /\ \A d \in Connection : d # c => at'[d] = at[d] /\ at'[d] \notin Writes /\ hdr'[d]
           = hdr[d]
      /\ at'[c] = "wrote" /\ hdr'[c] = header'
      /\ at' \in [Connection -> Places] /\ hdr' \in [Connection -> Header]
  BY <1>1, <1>2 DEF WalTypes, PlaceInv
<1>5. WalTypes'
  BY <1>2, <1>3, <1>4 DEF WalTypes
<1>6. CheckpointTypes'
  BY <1>4 DEF CheckpointTypes
<1>7. PlaceInv'
  BY <1>1, <1>2, <1>3, <1>4 DEF WalTypes, PlaceInv
<1>8. LockInv'
  <2>1. at'[c] = "wrote" /\ hdr'[c].mxFrame = hdr[c].mxFrame
    BY <1>1, <1>2 DEF WalTypes
  <2>2. (Copying' => Copying) /\ (Restarting' => Restarting)
    BY <1>3, <2>1 DEF Copying, Restarting
  <2> QED  BY <1>1, <1>3, <1>4, <2>1, <2>2 DEF LockInv
<1>9. FreshInv'
  <2>1. /\ \A d \in Connection : hdr'[d].salt <= transaction
        /\ \A d \in Connection : hdr'[d].iChange <= header'.iChange
    <3>1. \A d \in Connection : hdr[d].iChange \in Nat
      BY DEF WalTypes, Header
    <3>2. hdr'[c].salt <= transaction /\ hdr'[c].iChange <= header'.iChange
      BY <1>2, <1>3, <3>1 DEF FreshInv
    <3>3. ASSUME NEW d \in Connection, d # c
          PROVE  hdr'[d].salt <= transaction /\ hdr'[d].iChange <= header'.iChange
      BY <1>1, <1>2, <1>3, <3>1, <3>3 DEF FreshInv
    <3> QED  BY <3>2, <3>3
  <2>2. \A d \in Connection : at'[d] # "write"
    BY <1>1, <1>3 DEF WalTypes
  <2> QED  BY <1>1, <1>2, <1>4, <2>1, <2>2 DEF FreshInv
<1>10. WriterInv'
  BY <1>1, <1>2, <1>3 DEF WalTypes, WriterInv
<1>11. MarkInv'
  BY <1>1, <1>2, <1>3, <1>4 DEF WalTypes, MarkInv
<1>12. FileInv'
  <2>1. ASSUME NEW d \in Connection, d # c  PROVE hdr'[d] # header'
    <3>1. hdr[d].iChange <= header.iChange /\ hdr[d].iChange \in Nat /\ header.iChange \in
          Nat
      BY <1>1 DEF WalTypes, FreshInv, Header
    <3>2. hdr'[d].iChange # header'.iChange
      BY <1>1, <1>2, <1>3, <2>1, <3>1
    <3> QED  BY <3>2
  <2>2. readLock'[c] # 0
    BY <1>1, <1>4
  <2> QED  BY <2>1, <2>2 DEF FileInv
<1>13. SafeInv'
  <2>1. \A k \in Connection : at'[k] \in Backfills => at'[k] = at[k] /\
        hdr'[k] = hdr[k]
    BY <1>1, <1>3 DEF WalTypes
  <2>2. header.mxFrame <= header'.mxFrame
    BY <1>1, <1>2
  <2>3. \A d \in Connection : at'[d] \in Reads => at[d] \in Reads
    BY <1>1, <1>3 DEF WalTypes
  <2>4. \A d \in Connection : hdr[d].mxFrame <= hdr'[d].mxFrame
    <3>1. hdr'[c].mxFrame = hdr[c].mxFrame
      BY <1>2 DEF WalTypes
    <3>2. \A d \in Connection : hdr[d].mxFrame = hdr'[d].mxFrame /\ hdr[d].mxFrame \in Nat
      BY <1>3, <3>1 DEF WalTypes, Header
    <3> QED  BY <3>2
  <2> QED  BY <1>1, <1>2, <1>4, <1>5, <2>1, <2>2, <2>3, <2>4, SafeKept
<1>14. HistoryInv'
  BY HistoryKept DEF Publish
<1> QED  BY <1>5, <1>6, <1>7, <1>8, <1>9, <1>10, <1>11, <1>12, <1>13, <1>14

LEMMA IterateKeeps ==
  ASSUME WalInv, AheadInv, ~outrun', NEW c \in Connection, Iterate(c)
  PROVE  WalInv'
<1> USE DEF WalInv, Moves, Places, Writes, Appends, Checkpoints, Backfills,
        Reads, Header, index, reading, files, history
<1>1. /\ at[c] = "iterate" /\ at' = [at EXCEPT ![c] = at'[c]]
      /\ \/ /\ at'[c] = "marks" /\ nBackfill < hdr[c].mxFrame
            /\ ckpt' = [ckpt EXCEPT !.mxSafeFrame = hdr[c].mxFrame, !.marks = Marks,
                           !.iter = [p \in Page |-> FrameOf(1..hdr[c].mxFrame, p)]]
         \/ at'[c] = "unlock" /\ ckpt' = ckpt
  BY DEF WalTypes, Iterate
<1>3. /\ ckpt.by = c /\ header # None /\ header \in Header /\ hdr[c] \in Header
      /\ at'[c] = "marks" => hdr[c].mxFrame <= header.mxFrame
  <2>1. at'[c] = "marks" => outrun' = (outrun \/ behind)
    BY <1>1 DEF WalTypes, Iterate
  <2> QED  BY <1>1, <2>1 DEF WalTypes, PlaceInv, AheadInv
<1>4. CheckpointTypes' /\ ckpt'.by = ckpt.by
  <2>1. CASE ckpt' = ckpt
    BY <2>1 DEF CheckpointTypes
  <2>2. CASE at'[c] = "marks"
    <3>1. /\ ckpt' = [by |-> ckpt.by, mxSafeFrame |-> hdr[c].mxFrame, iter |-> ckpt'.iter,
                      marks |-> Marks, y |-> ckpt.y, pages |-> ckpt.pages]
          /\ ckpt.y \in Nat
      BY <1>1, <2>2 DEF CheckpointTypes
    <3> QED  BY <1>3, <3>1 DEF CheckpointTypes
  <2> QED  BY <1>1, <2>1, <2>2
<1>5. at'[c] = "marks" => ckpt'.mxSafeFrame = hdr[c].mxFrame /\ ckpt'.marks = Marks
  BY <1>1 DEF CheckpointTypes
<1>2. /\ WalTypes' /\ PlaceInv' /\ FreshInv' /\ WriterInv' /\ FileInv' /\ HistoryInv'
      /\ \A d \in Connection : d # c => at'[d] = at[d] /\ at[d] \notin Checkpoints
      /\ \A d \in Connection : at'[d] \notin Checkpoints => at[d] = at'[d]
  <2>1. /\ UNCHANGED <<header, nBackfill, writer, hdr, readLock, mark, iFrame, log,
             transaction, store>>
        /\ aReadMark' \in [Marks -> Nat] /\ saltMay' \subseteq saltMay
    BY DEF WalTypes, Iterate
  <2> QED  BY <1>1, <1>3, <1>4, <2>1, CheckpointStep
<1>6. LockInv'
  BY <1>1 DEF WalTypes, LockInv, Copying, Restarting, Iterate
<1>7. MarkInv'
  BY <1>2 DEF MarkInv, Iterate
<1>8. SafeInv'
  <2>1. \A d \in Connection : readLock[d] > 0 => readLock[d] \in Marks
    BY SMTT(30) DEF WalTypes, Marks
  <2>2. UNCHANGED <<header, hdr, readLock, nBackfill>>
    BY DEF Iterate
  <2> QED  BY <1>1, <1>2, <1>3, <1>5, <2>1, <2>2 DEF WalTypes, SafeInv
<1> QED  BY <1>2, <1>4, <1>6, <1>7, <1>8

LEMMA SyncLogKeeps ==
  ASSUME WalInv, NEW c \in Connection, SyncLog(c)
  PROVE  WalInv'
<1> USE DEF WalInv, SyncLog, Moves, Places, Writes, Appends, Checkpoints,
      Backfills, Reads, Header, index, reading
<1>1. /\ at[c] = "marks" /\ at' = [at EXCEPT ![c] = at'[c]] /\ at'[c] \in {"copy", "unlock"}
      /\ ckpt.by = c /\ ckpt.marks = {}
      /\ at'[c] = "copy" => MayExclude(0)
  BY DEF WalTypes, PlaceInv
<1>2. ckpt' = [ckpt EXCEPT !.pages = ckpt'.pages]
  BY DEF CheckpointTypes
<1>3. /\ ckpt'.mxSafeFrame = ckpt.mxSafeFrame /\ ckpt'.marks = ckpt.marks /\ ckpt'.by =
           ckpt.by /\ ckpt'.y = ckpt.y
      /\ CheckpointTypes'
  BY <1>2 DEF CheckpointTypes
<1>5. /\ UNCHANGED <<header, nBackfill, aReadMark, readLock, hdr, mark, writer,
           transaction, iFrame, log, store>>
      /\ saltMay' \subseteq saltMay
  OBVIOUS
<1>4. /\ WalTypes' /\ PlaceInv' /\ FreshInv' /\ WriterInv' /\ FileInv' /\ HistoryInv'
      /\ \A d \in Connection : d # c => at'[d] = at[d] /\ at[d] \notin Checkpoints
      /\ \A d \in Connection : at'[d] \notin Checkpoints => at[d] = at'[d]
  <2>1. aReadMark' \in [Marks -> Nat] /\ at[c] \in Checkpoints /\ at'[c] \in Checkpoints
    BY <1>1, <1>5 DEF WalTypes
  <2> QED  BY <1>1, <1>3, <1>5, <2>1, CheckpointStep
<1>8. LockInv'
  <2>1. at'[c] = "copy" => \A d \in Connection : readLock[d] # 0
    BY <1>1 DEF MayExclude
  <2>2. /\ Copying' => \A d \in Connection : readLock'[d] # 0
        /\ Restarting' => Restarting
        /\ \A d \in Connection : at'[d] \in Checkpoints => readLock'[d] = -1
    BY <1>1, <1>4, <1>5, <2>1 DEF LockInv, Copying, Restarting
  <2> QED  BY <1>4, <1>5, <2>2 DEF LockInv
<1>11. MarkInv'
  BY <1>4, <1>5 DEF MarkInv
<1>13. SafeInv'
  <2>1. \A d \in Connection : at'[d] \in Reads => at[d] \in Reads
    BY <1>4
  <2>2. \A k \in Connection : at'[k] \in Backfills => k = c /\ at'[k] =
        "copy"
    BY <1>1, <1>4
  <2> QED  BY <1>1, <1>3, <1>5, <2>1, <2>2 DEF SafeInv
<1> QED  BY <1>3, <1>4, <1>8, <1>11, <1>13

LEMMA EndReadKeeps ==
  ASSUME WalInv, NEW c \in Connection, EndRead(c)
  PROVE  WalInv'
BY LeaveKeeps DEF EndRead, history

LEMMA UnlockKeeps ==
  ASSUME WalInv, NEW c \in Connection, Unlock(c)
  PROVE  WalInv'
BY LeaveKeeps DEF Unlock, history

LEMMA CopyPageKeeps ==
  ASSUME WalInv, NEW c \in Connection, NEW p \in Page, CopyPage(c, p)
  PROVE  WalInv'
<1> USE DEF WalInv, Checkpoints, Backfills
<1>1. /\ at[c] = "copy" /\ at'[c] \in {"copy", "finish"} /\ at' = [at EXCEPT ![c] = at'[c]]
      /\ ckpt' = [ckpt EXCEPT !.pages = ckpt.pages \ {p}]
      /\ UNCHANGED <<header, nBackfill, writer, hdr, readLock, mark, iFrame, log,
           transaction, store, aReadMark, saltMay>>
  BY DEF CopyPage, Moves, WalTypes, index, reading, history
<1>2. CheckpointTypes'
  BY <1>1 DEF CheckpointTypes
<1>3. /\ ckpt'.mxSafeFrame = ckpt.mxSafeFrame /\ ckpt'.marks = ckpt.marks
      /\ ckpt'.by = ckpt.by /\ ckpt'.y = ckpt.y
  BY <1>1 DEF CheckpointTypes
<1>4. /\ WalTypes' /\ PlaceInv' /\ FreshInv' /\ WriterInv' /\ FileInv' /\ HistoryInv'
      /\ \A d \in Connection : d # c => at'[d] = at[d] /\ at[d] \notin Checkpoints
      /\ \A d \in Connection : at'[d] \notin Checkpoints => at[d] = at'[d]
  BY <1>1, <1>3, CheckpointStep DEF WalTypes
<1>5. MarkInv'
  BY <1>1, <1>4 DEF MarkInv, Reads, Writes, Appends
<1>6. LockInv'
  BY <1>1, <1>4 DEF LockInv, Copying, Restarting, Reads, Writes, Appends
<1>7. SafeInv'
  <2>1. \A d \in Connection : at'[d] \in Reads => at[d] \in Reads
    BY <1>4 DEF Reads, Writes
  <2>2. \A k \in Connection : at'[k] \in Backfills => k = c
    BY <1>4
  <2> QED  BY <1>1, <1>3, <2>1, <2>2 DEF SafeInv
<1> QED  BY <1>2, <1>4, <1>5, <1>6, <1>7

LEMMA LookAtMarkKeeps ==
  ASSUME WalInv, NEW c \in Connection, LookAtMark(c)
  PROVE  WalInv'
<1> USE DEF WalInv, Checkpoints, Backfills
<1>0. PICK m \in ckpt.marks : m = NextMark /\ m \in Marks
  BY Least DEF LookAtMark, NextMark, CheckpointTypes, Marks
<1>1. /\ at[c] = "marks" /\ at'[c] \in {"marks", "obey"} /\ at' = [at EXCEPT ![c] = at'[c]]
      /\ UNCHANGED <<header, nBackfill, writer, hdr, readLock, mark, iFrame, log,
           transaction, store, aReadMark, saltMay>>
  BY DEF LookAtMark, Moves, WalTypes, index, reading, files, history
<1>2. CheckpointTypes' /\ ckpt'.by = ckpt.by /\ ckpt'.mxSafeFrame = ckpt.mxSafeFrame
  BY <1>0, <1>1 DEF LookAtMark, CheckpointTypes, WalTypes
<1>4. /\ WalTypes' /\ PlaceInv' /\ FreshInv' /\ WriterInv' /\ FileInv' /\ HistoryInv'
      /\ \A d \in Connection : d # c => at'[d] = at[d] /\ at[d] \notin Checkpoints
      /\ \A d \in Connection : at'[d] \notin Checkpoints => at[d] = at'[d]
  BY <1>1, <1>2, CheckpointStep DEF WalTypes
<1>5. MarkInv'
  BY <1>1, <1>4 DEF MarkInv, Reads, Writes, Appends
<1>6. LockInv'
  BY <1>1, <1>4 DEF LockInv, Copying, Restarting, Reads, Writes, Appends
<1>7. SafeInv'
  <2>1. \A d \in Connection : at'[d] \in Reads => at[d] \in Reads
    BY <1>4 DEF Reads, Writes
  <2>2. \A k \in Connection : at'[k] \in Backfills => k = c
    BY <1>4
  <2>3. ckpt.mxSafeFrame <= header.mxFrame /\ nBackfill < header.mxFrame
    BY <1>1 DEF SafeInv
  <2>4. \A d \in Connection : at[d] \in Reads /\ readLock[d] = m => aReadMark[m] <=
        hdr[d].mxFrame
    BY <1>0 DEF MarkInv, Marks
  <2>5. \A d \in Connection : at[d] \in Reads /\ readLock[d] > 0 =>
          readLock[d] \in ckpt.marks \/ ckpt.mxSafeFrame <= hdr[d].mxFrame
    BY <1>1 DEF SafeInv
  <2>6. CASE aReadMark[m] < ckpt.mxSafeFrame
    <3>1. at'[c] = "obey" /\ ckpt' = [ckpt EXCEPT !.y = aReadMark[m]]
      BY <1>0, <2>6 DEF LookAtMark, Moves, WalTypes, CheckpointTypes
    <3>2. ckpt'.marks = ckpt.marks /\ ckpt'.y = aReadMark[m] /\ NextMark' = m
      BY <1>0, <3>1 DEF CheckpointTypes, NextMark
    <3> QED  BY <1>0, <1>1, <1>2, <2>1, <2>2, <2>3, <2>4, <2>5, <2>6, <3>1, <3>2 DEF SafeInv
  <2>7. CASE ~(aReadMark[m] < ckpt.mxSafeFrame)
    <3>1. at'[c] = "marks" /\ ckpt' = [ckpt EXCEPT !.marks = ckpt.marks \ {m}] /\
          aReadMark[m] >= ckpt.mxSafeFrame
      BY <1>0, <2>7 DEF LookAtMark, Moves, WalTypes, CheckpointTypes
    <3>2. ckpt'.marks = ckpt.marks \ {m}
      BY <3>1 DEF CheckpointTypes
    <3>3. ASSUME NEW d \in Connection, at[d] \in Reads, readLock[d] > 0
          PROVE  readLock[d] \in ckpt'.marks \/ ckpt.mxSafeFrame <= hdr[d].mxFrame
      <4>1. aReadMark[m] \in Nat /\ hdr[d].mxFrame \in Nat /\ ckpt.mxSafeFrame \in Nat
        BY <1>0 DEF WalTypes, CheckpointTypes, Header
      <4> QED  BY <2>4, <2>5, <3>1, <3>2, <3>3, <4>1
    <3> QED  BY <1>1, <1>2, <2>1, <2>2, <2>3, <3>1, <3>3 DEF SafeInv
  <2> QED  BY <2>6, <2>7
<1> QED  BY <1>2, <1>4, <1>5, <1>6, <1>7

LEMMA ObeyMarkKeeps ==
  ASSUME WalInv, NEW c \in Connection, ObeyMark(c)
  PROVE  WalInv'
<1> USE DEF WalInv, Checkpoints, Backfills
<1>1. /\ at[c] = "obey" /\ at'[c] = "marks" /\ at' = [at EXCEPT ![c] = "marks"]
      /\ UNCHANGED <<header, nBackfill, writer, hdr, readLock, mark, iFrame, log,
           transaction, store, saltMay>>
      /\ ckpt.marks # {} /\ ckpt.y < ckpt.mxSafeFrame
  BY DEF ObeyMark, Moves, WalTypes, reading, files, history, SafeInv
<1>0. PICK m \in ckpt.marks : m = NextMark /\ m \in Marks
  BY <1>1, Least DEF NextMark, CheckpointTypes, Marks
<1>9. \/ /\ \A d \in Connection : readLock[d] # m
         /\ \E v \in Nat : aReadMark' = [aReadMark EXCEPT ![m] = v]
         /\ ckpt' = [ckpt EXCEPT !.marks = ckpt.marks \ {m}, !.y = 0]
      \/ /\ aReadMark' = aReadMark
         /\ ckpt' = [ckpt EXCEPT !.marks = ckpt.marks \ {m}, !.mxSafeFrame = ckpt.y, !.y =
              0]
  <2>1. ckpt.mxSafeFrame \in Nat /\ NotUsed \in Nat
    BY WalAssumption DEF CheckpointTypes, NotUsed
  <2>2. CASE MayExclude(m)
    BY <1>0, <2>1, <2>2 DEF ObeyMark, MayExclude
  <2>3. CASE ~MayExclude(m)
    BY <1>0, <2>3 DEF ObeyMark, SafeWith
  <2> QED  BY <2>2, <2>3
<1>2. /\ CheckpointTypes' /\ ckpt'.by = ckpt.by /\ ckpt'.marks = ckpt.marks \ {m} /\
           ckpt'.y = 0
      /\ ckpt'.mxSafeFrame = ckpt.mxSafeFrame \/ ckpt'.mxSafeFrame = ckpt.y
  <2>1. CASE ckpt' = [ckpt EXCEPT !.marks = ckpt.marks \ {m}, !.y = 0]
    BY <1>0, <2>1 DEF CheckpointTypes
  <2>2. CASE ckpt' = [ckpt EXCEPT !.marks = ckpt.marks \ {m}, !.mxSafeFrame = ckpt.y, !.y
        = 0]
    BY <1>0, <2>2 DEF CheckpointTypes
  <2> QED  BY <1>9, <2>1, <2>2
<1>3. aReadMark' \in [Marks -> Nat]
  BY <1>9 DEF WalTypes
<1>4. /\ WalTypes' /\ PlaceInv' /\ FreshInv' /\ WriterInv' /\ FileInv' /\ HistoryInv'
      /\ \A d \in Connection : d # c => at'[d] = at[d] /\ at[d] \notin Checkpoints
      /\ \A d \in Connection : at'[d] \notin Checkpoints => at[d] = at'[d]
  BY <1>1, <1>2, <1>3, CheckpointStep
<1>5. MarkInv'
  <2>1. \A d \in Connection : readLock[d] > 0 => readLock[d] \in Marks
    BY WalAssumption DEF WalTypes, Marks
  <2>2. \A d \in Connection : readLock[d] > 0 => aReadMark'[readLock[d]] =
        aReadMark[readLock[d]]
    BY <1>9, <2>1 DEF WalTypes
  <2> QED  BY <1>1, <1>4, <2>2 DEF MarkInv, Reads, Writes, Appends
<1>6. LockInv'
  BY <1>1, <1>4 DEF LockInv, Copying, Restarting, Reads, Writes, Appends
<1>7. SafeInv'
  <2>1. \A d \in Connection : at'[d] \in Reads => at[d] \in Reads
    BY <1>4 DEF Reads, Writes
  <2>2. \A k \in Connection : at'[k] \in Backfills => k = c
    BY <1>4
  <2>3. ckpt.mxSafeFrame \in Nat /\ ckpt.y \in Nat /\ \A d \in Connection : hdr[d].mxFrame
        \in Nat
    BY DEF CheckpointTypes, WalTypes, Header
  <2>4. ckpt'.mxSafeFrame <= header.mxFrame /\ nBackfill < header.mxFrame
    <3>1. ckpt.mxSafeFrame <= header.mxFrame /\ nBackfill < header.mxFrame /\ header \in
          Header
      BY <1>1 DEF SafeInv, WalTypes, PlaceInv
    <3> QED  BY <1>1, <1>2, <2>3, <3>1 DEF Header
  <2>5. ASSUME NEW d \in Connection, at[d] \in Reads, readLock[d] > 0
        PROVE  readLock[d] \in ckpt'.marks \/ ckpt'.mxSafeFrame <= hdr[d].mxFrame
    <3>1. readLock[d] \in ckpt.marks \/ ckpt.mxSafeFrame <= hdr[d].mxFrame
      BY <1>1, <2>5 DEF SafeInv
    <3>2. readLock[d] = m => ckpt.y <= hdr[d].mxFrame
      BY <1>0, <1>1, <2>5 DEF SafeInv
    <3>3. CASE ckpt.mxSafeFrame <= hdr[d].mxFrame
      BY <1>1, <1>2, <2>3, <3>3
    <3>4. CASE readLock[d] \in ckpt.marks /\ readLock[d] # m
      BY <1>2, <3>4
    <3>5. CASE readLock[d] = m
      <4>1. ckpt'.mxSafeFrame = ckpt.y
        BY <1>9, <3>5 DEF CheckpointTypes
      <4> QED  BY <3>2, <3>5, <4>1
    <3> QED  BY <3>1, <3>3, <3>4, <3>5
  <2> QED  BY <1>1, <1>2, <2>1, <2>2, <2>4, <2>5 DEF SafeInv
<1> QED  BY <1>2, <1>4, <1>5, <1>6, <1>7

LEMMA ChooseMarkKeeps ==
  ASSUME WalInv, NEW c \in Connection, ChooseMark(c)
  PROVE  WalInv'
<1> DEFINE mx == hdr[c].mxFrame
           below == {i \in Marks : aReadMark[i] <= mx}
           value == MaxOf({aReadMark[i] : i \in below})
           best == MaxOf({i \in below : aReadMark[i] = value})
           free == {i \in Marks : MayExclude(i)}
           first == CHOOSE i \in free : \A j \in free : i <= j
           short == value < mx \/ best = 0
<1>0. /\ at[c] = "mark"
      /\ UNCHANGED <<header, nBackfill, writer, iFrame, ckpt, log, transaction, store,
           saltMay>>
  BY DEF ChooseMark, Moves, Leave, files, history
<1>1. mx \in Nat
  BY DEF WalInv, WalTypes, Header
<1>2. CASE Leave(c, "mark") /\ UNCHANGED aReadMark
  BY <1>0, <1>2, LeaveKeeps DEF ChooseMark, index, files, history
<1>3. ASSUME Moves(c, "mark", "share"), UNCHANGED <<hdr, readLock>>,
             NEW i \in Marks, NEW v \in Nat, v <= mx,
             mark' = [mark EXCEPT ![c] = <<i, v>>],
             \/ aReadMark' = aReadMark
             \/ aReadMark' = [aReadMark EXCEPT ![i] = v] /\ \A d \in Connection :
                   readLock[d] # i
      PROVE  WalInv'
  <2> USE <1>0 DEF WalInv, Places, Writes, Appends, Checkpoints, Backfills, Reads
  <2>1. /\ \A d \in Connection : d # c => at'[d] = at[d]
        /\ at'[c] = "share" /\ at' \in [Connection -> Places]
    BY <1>3 DEF WalTypes, Moves
  <2>2. aReadMark' \in [Marks -> Nat]
    BY <1>3 DEF WalTypes
  <2>3. \A d \in Connection : readLock[d] > 0 => aReadMark'[readLock[d]] =
        aReadMark[readLock[d]]
    <3>1. \A d \in Connection : readLock[d] > 0 => readLock[d] \in Marks
      BY WalAssumption DEF WalTypes, Marks
    <3> QED  BY <1>3, <3>1 DEF WalTypes
  <2>4. WalTypes'
    BY <1>3, <2>1, <2>2 DEF WalTypes
  <2>5. CheckpointTypes' /\ HistoryInv'
    BY DEF CheckpointTypes, HistoryInv
  <2>6. PlaceInv'
    BY <1>3, <2>1 DEF PlaceInv
  <2>7. LockInv'
    <3>1. readLock[c] = -1
      BY DEF LockInv
    <3>2. ASSUME NEW d \in Connection  PROVE mark'[d] = mark[d] \/ (d = c /\ mark'[d] =
          <<i, v>>)
      BY <1>3 DEF WalTypes
    <3>3. (Copying' => Copying) /\ (Restarting' => Restarting)
      BY <2>1 DEF Copying, Restarting
    <3>4. mark'[c][1] = i /\ mark'[c][2] = v /\ readLock'[c] = -1
      BY <1>3, <3>1 DEF WalTypes
    <3>5. \A d \in Connection : d # c => mark'[d] = mark[d] /\ readLock'[d] = readLock[d]
          /\ hdr'[d] = hdr[d]
      BY <1>3, <3>2
    <3> QED  BY <1>3, <2>1, <3>3, <3>4, <3>5 DEF LockInv
  <2>8. FreshInv'
    BY <1>3, <2>1 DEF FreshInv
  <2>9. WriterInv'
    BY <1>3, <2>1 DEF WriterInv
  <2>10. MarkInv'
    BY <1>3, <2>1, <2>3 DEF MarkInv
  <2>11. FileInv'
    BY <1>3, <2>1 DEF FileInv
  <2>12. SafeInv'
    <3>1. NextMark' = NextMark
      BY DEF NextMark
    <3> QED  BY <1>3, <2>1, <3>1 DEF SafeInv
  <2> QED  BY <2>4, <2>5, <2>6, <2>7, <2>8, <2>9, <2>10, <2>11, <2>12
<1>4. CASE /\ Moves(c, "mark", "share") /\ short /\ free # {}
           /\ aReadMark' = [aReadMark EXCEPT ![first] = mx]
           /\ mark' = Set(mark, c, <<first, mx>>) /\ UNCHANGED <<hdr, readLock, minFrame>>
  <2>1. first \in free
    <3>1. free \in SUBSET Nat /\ free # {}
      BY <1>4 DEF Marks
    <3> HIDE DEF free
    <3>2. \E i \in free : \A j \in free : i <= j
      BY <3>1, Least
    <3> QED  BY <3>2
  <2>2. first \in Marks /\ \A d \in Connection : readLock[d] # first
    BY <2>1 DEF MayExclude
  <2>3. mx <= mx
    BY <1>1
  <2> QED  BY <1>1, <1>3, <1>4, <2>2, <2>3 DEF Set
<1>5. CASE /\ Moves(c, "mark", "share") /\ best # 0
           /\ mark' = Set(mark, c, <<best, value>>)
           /\ UNCHANGED <<aReadMark, hdr, readLock, minFrame>>
  <2>1. value \in Nat /\ value <= mx
    <3>1. {aReadMark[i] : i \in below} \in SUBSET (0..mx)
      BY <1>1 DEF WalInv, WalTypes
    <3>2. value \in {aReadMark[i] : i \in below} \cup {0}
      BY <1>1, <3>1, Greatest
    <3> QED  BY <1>1, <3>1, <3>2
  <2>2. best \in Marks
    <3>1. {i \in below : aReadMark[i] = value} \in SUBSET (0..NReader) /\ NReader \in Nat
      BY WalAssumption DEF Marks
    <3>2. best \in {i \in below : aReadMark[i] = value} \cup {0}
      BY <3>1, Greatest
    <3> QED  BY <1>5, <3>2
  <2> QED  BY <1>3, <1>5, <2>1, <2>2 DEF Set
<1>6. \/ Leave(c, "mark") /\ UNCHANGED aReadMark
      \/ /\ Moves(c, "mark", "share") /\ short /\ free # {}
         /\ aReadMark' = [aReadMark EXCEPT ![first] = mx]
         /\ mark' = Set(mark, c, <<first, mx>>) /\ UNCHANGED <<hdr, readLock, minFrame>>
      \/ /\ Moves(c, "mark", "share") /\ best # 0
         /\ mark' = Set(mark, c, <<best, value>>)
         /\ UNCHANGED <<aReadMark, hdr, readLock, minFrame>>
  BY DEF ChooseMark
<1> QED  BY <1>2, <1>4, <1>5, <1>6

LEMMA RecoverKeeps ==
  ASSUME WalInv, NEW c \in Connection, Recover(c)
  PROVE  WalInv'
<1> USE DEF WalInv, Places, Writes, Appends, Checkpoints, Backfills, Reads
<1>1. /\ header = None /\ \A d \in Connection : at[d] = "idle" /\ hdr[d] = NoHeader /\
           readLock[d] = -1
      /\ writer = None /\ ckpt.by = None
      /\ UNCHANGED <<writer, readLock, mark, iFrame, ckpt, log, saltMay, transaction,
           store>>
      /\ nBackfill' = 0 /\ hdr' = [hdr EXCEPT ![c] = header']
      /\ at' = [at EXCEPT ![c] = "decide"]
  BY DEF Recover, PlaceInv, Moves, Set, files, history
<1>2. /\ at' \in [Connection -> Places] /\ at'[c] = "decide"
      /\ \A d \in Connection : at'[d] \in {"idle", "decide"}
      /\ \A d \in Connection : d # c => at'[d] = "idle" /\ hdr'[d] = NoHeader
  BY <1>1 DEF WalTypes
<1>3. Recovered(log) \in Nat
  <2>1. MaxFrame \in Nat
    BY WalAssumption
  <2>2. {f \in Frames : f <= MaxOf(Valid(log)) /\ log.frames[f].commit} \in SUBSET
        (0..MaxFrame)
    BY <2>1 DEF Frames
  <2> DEFINE T == {f \in Frames : f <= MaxOf(Valid(log)) /\ log.frames[f].commit}
  <2>3. T \in SUBSET (0..MaxFrame) /\ Recovered(log) = MaxOf(T)
    BY <2>2 DEF Recovered
  <2> HIDE DEF T
  <2>4. MaxOf(T) \in T \cup {0}
    BY <2>1, <2>3, Greatest
  <2>5. \A x \in T \cup {0} : x \in Nat
    BY <2>1, <2>3
  <2> QED  BY <2>3, <2>4, <2>5
<1>4. PICK S : store \in Seq(S)
  BY DEF HistoryInv
<1>5. Len(store) \in Nat
  BY <1>4, LenProperties
<1>6. header' = [salt |-> log.salt, mxFrame |-> Recovered(log), iChange |-> Len(store)]
  BY DEF Recover
<1>7. header' \in Header /\ header'.salt = log.salt /\ header'.iChange = Len(store)
  BY <1>3, <1>5, <1>6 DEF Header, WalTypes
<1>8. hdr' \in [Connection -> Header] /\ hdr'[c] = header' /\ NoHeader.salt = 0 /\
      NoHeader.iChange = 0
  BY <1>1, <1>7 DEF WalTypes, NoHeader
<1>9. aReadMark' \in [Marks -> Nat]
  <2>1. NotUsed \in Nat
    BY WalAssumption DEF NotUsed
  <2> QED  BY <1>3, <2>1 DEF Recover
<1>10. WalTypes'
  BY <1>1, <1>2, <1>7, <1>8, <1>9 DEF WalTypes
<1>11. CheckpointTypes' /\ HistoryInv'
  BY <1>1 DEF CheckpointTypes, HistoryInv
<1>12. PlaceInv'
  <2>1. header' # None
    BY <1>7, WalAssumption DEF Header
  <2> QED  BY <1>2, <2>1 DEF PlaceInv
<1>13. LockInv'
  BY <1>1, <1>2 DEF LockInv, Copying, Restarting
<1>14. FreshInv'
  <2>1. header'.salt <= transaction
    BY <1>7 DEF FreshInv
  <2>2. \A d \in Connection : hdr'[d].salt <= transaction
    BY <1>2, <1>8, <2>1 DEF WalTypes
  <2>3. \A d \in Connection : hdr'[d].iChange <= header'.iChange
    BY <1>2, <1>5, <1>7, <1>8
  <2>4. log.salt <= transaction /\ \A s \in saltMay : s <= transaction
    BY DEF FreshInv
  <2>5. \A d \in Connection : at'[d] # "write"
    BY <1>2
  <2> QED  BY <1>1, <2>1, <2>2, <2>3, <2>4, <2>5 DEF FreshInv
<1>15. WriterInv' /\ MarkInv' /\ FileInv' /\ SafeInv'
  BY <1>2 DEF WriterInv, MarkInv, FileInv, SafeInv
<1> QED  BY <1>10, <1>11, <1>12, <1>13, <1>14, <1>15

LEMMA WriteFrameKeeps ==
  ASSUME WalInv, NEW c \in Connection, NEW p \in Page, NEW commit \in BOOLEAN,
        WriteFrame(c, p, commit)
  PROVE  WalInv'
<1> USE DEF WalInv, Places, Writes, Appends, Checkpoints, Backfills, Reads
<1>1. /\ at[c] = "frames" /\ at' = [at EXCEPT ![c] = at'[c]] /\ at'[c] \in {"frames",
           "append"}
      /\ UNCHANGED <<header, nBackfill, aReadMark, writer, hdr, readLock, mark, ckpt,
           saltMay, transaction, store>>
      /\ iFrame' = iFrame + 1 /\ \E f, n : log' = [log EXCEPT !.frames[n] = f]
  BY DEF WriteFrame, Moves, WalTypes, index, reading, history
<1>2. /\ at' \in [Connection -> Places]
      /\ \A d \in Connection : d # c => at'[d] = at[d]
  BY <1>1 DEF WalTypes
<1>3. log' = [salt |-> log.salt, frames |-> log'.frames] /\ log'.salt = log.salt
  BY <1>1 DEF WalTypes
<1>4. WalTypes'
  BY <1>1, <1>2, <1>3 DEF WalTypes
<1>5. CheckpointTypes' /\ HistoryInv'
  BY <1>1 DEF CheckpointTypes, HistoryInv
<1>6. PlaceInv'
  BY <1>1, <1>2 DEF PlaceInv
<1>7. LockInv'
  <2>1. (Copying' => Copying) /\ (Restarting' => Restarting)
    BY <1>1, <1>2 DEF Copying, Restarting
  <2> QED  BY <1>1, <1>2, <2>1 DEF LockInv
<1>8. FreshInv'
  BY <1>1, <1>2, <1>3 DEF FreshInv
<1>9. WriterInv'
  <2>1. hdr[c].mxFrame <= iFrame'
    BY <1>1 DEF WriterInv, WalTypes, Header
  <2>2. header.mxFrame <= hdr[c].mxFrame /\ header.iChange = hdr[c].iChange
    BY <1>1 DEF WriterInv
  <2>3. \A d \in Connection : d # c => at[d] \notin Writes
    BY <1>1 DEF PlaceInv
  <2> QED  BY <1>1, <1>2, <2>1, <2>2, <2>3 DEF WriterInv
<1>10. MarkInv'
  BY <1>1, <1>2 DEF MarkInv
<1>11. FileInv'
  BY <1>1, <1>2 DEF FileInv
<1>12. SafeInv'
  <2>1. NextMark' = NextMark
    BY <1>1 DEF NextMark
  <2> QED  BY <1>1, <1>2, <2>1 DEF SafeInv
<1> QED  BY <1>4, <1>5, <1>6, <1>7, <1>8, <1>9, <1>10, <1>11, <1>12

\* A log that is restarted has nothing that a checkpoint under way could want.
LEMMA RestartLogKeeps ==
  ASSUME WalInv, NEW c \in Connection, RestartLog(c)
  PROVE  WalInv'
<1> USE DEF WalInv, Places, Writes, Appends, Checkpoints, Backfills, Reads
<1>1. /\ at[c] = "write" /\ at' = [at EXCEPT ![c] = at'[c]] /\ writer = c
      /\ UNCHANGED <<nBackfill, aReadMark, writer, mark, iFrame, ckpt, log, saltMay,
           transaction, store>>
  BY DEF RestartLog, Moves, WalTypes, PlaceInv, files, history
<1>2. \A d \in Connection : d # c => at'[d] = at[d] /\ at[d] \notin Writes
  BY <1>1 DEF WalTypes, PlaceInv
<1>3. CheckpointTypes' /\ HistoryInv' /\ NextMark' = NextMark
  BY <1>1 DEF CheckpointTypes, HistoryInv, NextMark
<1>4. CASE Moves(c, "write", "log") /\ readLock[c] > 0 /\ UNCHANGED <<header, hdr,
      readLock>>
  <2>1. at'[c] = "log" /\ at' \in [Connection -> Places]
    BY <1>1, <1>4 DEF Moves, WalTypes
  <2>2. WalTypes' /\ PlaceInv'
    BY <1>1, <1>2, <1>4, <2>1 DEF WalTypes, PlaceInv
  <2>3. LockInv'
    <3>1. (Copying' => Copying) /\ (Restarting' => Restarting)
      BY <1>2, <2>1 DEF Copying, Restarting
    <3> QED  BY <1>1, <1>2, <1>4, <2>1, <3>1 DEF LockInv
  <2>4. FreshInv' /\ FileInv'
    BY <1>1, <1>2, <1>4, <2>1 DEF FreshInv, FileInv
  <2>5. WriterInv' /\ MarkInv'
    BY <1>1, <1>2, <1>4, <2>1 DEF WriterInv, MarkInv
  <2>6. SafeInv'
    BY <1>1, <1>2, <1>3, <1>4, <2>1 DEF SafeInv
  <2> QED  BY <1>3, <2>2, <2>3, <2>4, <2>5, <2>6
<1>5. CASE Moves(c, "write", "mark") /\ readLock' = [readLock EXCEPT ![c] = -1] /\
      UNCHANGED <<header, hdr>>
  <2>1. at'[c] = "mark" /\ at' \in [Connection -> Places]
    BY <1>1, <1>5 DEF Moves, WalTypes
  <2>2. /\ readLock' \in [Connection -> -1..NReader] /\ readLock'[c] = -1
        /\ \A d \in Connection : d # c => readLock'[d] = readLock[d]
    <3>1. -1 \in -1..NReader
      BY WalAssumption
    <3> QED  BY <1>5, <3>1 DEF WalTypes
  <2>3. WalTypes' /\ PlaceInv'
    BY <1>1, <1>2, <1>5, <2>1, <2>2 DEF WalTypes, PlaceInv
  <2>4. LockInv'
    <3>1. (Copying' => Copying) /\ (Restarting' => Restarting)
      BY <1>2, <2>1 DEF Copying, Restarting
    <3> QED  BY <1>1, <1>2, <1>5, <2>1, <2>2, <3>1 DEF LockInv
  <2>5. FreshInv' /\ FileInv'
    BY <1>1, <1>2, <1>5, <2>1, <2>2 DEF FreshInv, FileInv
  <2>6. WriterInv' /\ MarkInv'
    BY <1>1, <1>2, <1>5, <2>1, <2>2 DEF WriterInv, MarkInv
  <2>7. SafeInv'
    BY <1>1, <1>2, <1>3, <1>5, <2>1, <2>2 DEF SafeInv
  <2> QED  BY <1>3, <2>3, <2>4, <2>5, <2>6, <2>7
<1>6. CASE /\ readLock[c] = 0 /\ nBackfill > 0 /\ \A i \in Marks : MayExclude(i)
           /\ Moves(c, "write", "reset")
           /\ header' = [hdr[c] EXCEPT !.salt = transaction, !.mxFrame = 0]
           /\ hdr' = [hdr EXCEPT ![c] = header'] /\ UNCHANGED readLock
  <2>1. at'[c] = "reset" /\ at' \in [Connection -> Places]
    BY <1>1, <1>6 DEF Moves, WalTypes
  <2>2. /\ header = hdr[c] /\ header \in Header /\ header # None
        /\ nBackfill = header.mxFrame
    BY <1>1, <1>6 DEF WriterInv, FileInv, WalTypes, PlaceInv
  <2>3. /\ header' \in Header /\ header'.salt = transaction /\ header'.mxFrame = 0
        /\ header'.iChange = header.iChange /\ header' # None
    <3>1. /\ header' \in Header /\ header'.salt = transaction /\ header'.mxFrame = 0
          /\ header'.iChange = header.iChange
      BY <1>6, <2>2 DEF Header, WalTypes
    <3> QED  BY <3>1, WalAssumption DEF Header
  <2>4. /\ hdr' \in [Connection -> Header] /\ hdr'[c] = header'
        /\ \A d \in Connection : d # c => hdr'[d] = hdr[d]
    BY <1>6, <2>3 DEF WalTypes
  <2>5. WalTypes' /\ PlaceInv'
    BY <1>1, <1>2, <1>6, <2>1, <2>3, <2>4 DEF WalTypes, PlaceInv
  <2>6. \A d \in Connection : readLock[d] <= 0
    <3>1. \A i \in Marks, d \in Connection : readLock[d] # i
      BY <1>6 DEF MayExclude
    <3> QED  BY <3>1, WalAssumption DEF WalTypes, Marks
  <2>7. LockInv'
    <3>1. Copying' => Copying
      BY <1>2, <2>1 DEF Copying
    <3>2. \A d \in Connection : d # c => at[d] \notin {"minFrame", "check"}
      BY <2>6 DEF LockInv, Marks, WalTypes
    <3>3. \A d \in Connection : d # c /\ at[d] = "share" => mark[d][2] <= hdr[d].mxFrame
      BY DEF LockInv
    <3> QED  BY <1>1, <1>2, <1>6, <2>1, <2>4, <2>6, <3>1, <3>2, <3>3 DEF LockInv
  <2>8. \A d \in Connection : hdr[d].salt < transaction
    BY <1>1, <1>6 DEF FreshInv
  <2>9. FreshInv'
    <3>1. transaction \in Nat
      BY DEF WalTypes
    <3>2. \A d \in Connection : hdr'[d].salt <= transaction
      BY <2>3, <2>4, <3>1 DEF FreshInv
    <3>3. \A d \in Connection : hdr'[d].iChange <= header'.iChange
      BY <2>2, <2>3, <2>4 DEF FreshInv, Header
    <3>4. \A d \in Connection : at'[d] # "write"
      BY <1>2, <2>1
    <3> QED  BY <1>1, <2>3, <3>1, <3>2, <3>3, <3>4 DEF FreshInv
  <2>10. WriterInv'
    BY <1>1, <1>2, <1>6, <2>1, <2>3, <2>4 DEF WriterInv
  <2>11. MarkInv'
    BY <1>6, <2>6 DEF MarkInv, WalTypes
  <2>12. FileInv'
    <3>1. \A d \in Connection : d # c => header' # hdr'[d]
      <4>1. \A d \in Connection : hdr[d].salt # transaction
        BY <2>8 DEF WalTypes, Header
      <4> QED  BY <2>3, <2>4, <4>1
    <3> QED  BY <2>1, <3>1 DEF FileInv
  <2>13. SafeInv'
    <3>1. \A k \in Connection : at[k] \notin Backfills
      <4>1. \A k \in Connection : at[k] \in Backfills => nBackfill < header.mxFrame
        BY DEF SafeInv
      <4> QED  BY <2>2, <4>1 DEF Header
    <3> QED  BY <1>2, <2>1, <3>1 DEF SafeInv
  <2> QED  BY <1>3, <2>5, <2>7, <2>9, <2>10, <2>11, <2>12, <2>13
<1> QED  BY <1>4, <1>5, <1>6 DEF RestartLog, Set

\* After a crash nobody knows anything.
LEMMA CrashKeeps ==
  ASSUME WalInv, Crash, log' = [salt |-> log'.salt, frames |-> log'.frames],
         log'.salt \in saltMay \cup {log.salt}, saltMay' \subseteq saltMay
  PROVE  WalInv'
<1> USE DEF WalInv, Places, Writes, Appends, Checkpoints, Backfills, Reads
<1>1. /\ header' = None /\ writer' = None /\ nBackfill' = 0 /\ iFrame' = 0 /\ ckpt' =
           NoCheckpoint
      /\ aReadMark' = [i \in Marks |-> 0]
      /\ at' = [c \in Connection |-> "idle"] /\ hdr' = [c \in Connection |-> NoHeader]
      /\ readLock' = [c \in Connection |-> -1] /\ mark' = [c \in Connection |-> <<0, 0>>]
      /\ transaction' = transaction
  BY DEF Crash
<1>2. NoHeader \in Header /\ NoHeader.salt = 0
  BY DEF NoHeader, Header
<1>3. WalTypes'
  <2>1. -1 \in -1..NReader
    BY WalAssumption
  <2> QED  BY <1>1, <1>2, <2>1 DEF WalTypes
<1>4. CheckpointTypes'
  BY <1>1 DEF CheckpointTypes, NoCheckpoint
<1>5. PlaceInv'
  BY <1>1 DEF PlaceInv
<1>6. LockInv'
  BY <1>1 DEF LockInv, Copying, Restarting
<1>7. FreshInv'
  <2>1. \A s \in saltMay \cup {log.salt} : s <= transaction
    BY DEF FreshInv
  <2>2. \A c \in Connection : hdr'[c].salt <= transaction
    BY <1>1, <1>2 DEF WalTypes
  <2> QED  BY <1>1, <2>1, <2>2 DEF FreshInv
<1>8. WriterInv' /\ MarkInv' /\ FileInv' /\ SafeInv'
  BY <1>1 DEF WriterInv, MarkInv, FileInv, SafeInv
<1>9. HistoryInv'
  <2>1. PICK S : store \in Seq(S)
    BY DEF HistoryInv
  <2>2. store' = Left(log', db')
    BY DEF Crash
  <2>3. PICK s, n : /\ n = MaxOf({i \in 1..Len(store) : store[i] = s})
                    /\ store' = IF n = 0 THEN Append(store, s) ELSE SubSeq(store, 1, n)
    BY <2>2 DEF Left
  <2>4. CASE n = 0
    BY <2>3, <2>4, HistoryKept
  <2>5. CASE n # 0
    <3>1. Len(store) \in Nat /\ \A i \in 1..Len(store) : store[i] \in S
      BY <2>1, LenProperties, ElementOfSeq
    <3>2. {i \in 1..Len(store) : store[i] = s} \in SUBSET (0..Len(store))
      BY <3>1
    <3>3. n \in 1..Len(store)
      BY <2>3, <2>5, <3>1, <3>2, Greatest
    <3>4. SubSeq(store, 1, n) \in Seq(S)
      BY <3>1, <3>3, SubSeqProperties
    <3> QED  BY <2>3, <2>5, <3>4 DEF HistoryInv
  <2> QED  BY <2>4, <2>5
<1> QED  BY <1>3, <1>4, <1>5, <1>6, <1>7, <1>8, <1>9

LEMMA InitHolds == WalInit => WalInv
<1> SUFFICES ASSUME WalInit  PROVE WalInv
  OBVIOUS
<1> USE DEF WalInit, Places, Writes, Appends, Checkpoints, Backfills, Reads
<1>1. NoHeader \in Header /\ NoHeader.salt = 0 /\ -1 \in -1..NReader
  BY WalAssumption DEF NoHeader, Header
<1>2. WalTypes
  BY <1>1 DEF WalTypes
<1>3. CheckpointTypes
  BY DEF CheckpointTypes, NoCheckpoint
<1>4. PlaceInv /\ WriterInv /\ MarkInv /\ FileInv /\ SafeInv
  BY DEF PlaceInv, WriterInv, MarkInv, FileInv, SafeInv
<1>5. LockInv
  BY DEF LockInv, Copying, Restarting
<1>6. FreshInv
  BY <1>1 DEF FreshInv
<1>7. HistoryInv
  <2>1. store \in Seq({db})
    OBVIOUS
  <2> QED  BY <2>1 DEF HistoryInv
<1> QED  BY <1>2, <1>3, <1>4, <1>5, <1>6, <1>7 DEF WalInv

LEMMA StutterKeeps ==
  ASSUME WalInv, UNCHANGED walVars
  PROVE  WalInv'
<1> USE DEF walVars, index, reading, files, history
<1>1. WalTypes' /\ CheckpointTypes'
  BY DEF WalInv, WalTypes, CheckpointTypes
<1>2. PlaceInv' /\ MarkInv' /\ FileInv' /\ HistoryInv'
  BY DEF WalInv, PlaceInv, MarkInv, FileInv, HistoryInv
<1>3. LockInv' /\ FreshInv' /\ WriterInv'
  BY DEF WalInv, LockInv, FreshInv, WriterInv, Copying, Restarting
<1>4. SafeInv'
  <2>1. NextMark' = NextMark
    BY DEF NextMark
  <2> QED  BY <2>1 DEF WalInv, SafeInv
<1> QED  BY <1>1, <1>2, <1>3, <1>4 DEF WalInv

\* Every step keeps the invariant, unless a checkpointer goes on with an old header.
LEMMA StepKeeps ==
  ASSUME WalInv, AheadInv, ~outrun', [WalNext]_walVars
  PROVE  WalInv'
<1>1. CASE UNCHANGED walVars
  BY <1>1, StutterKeeps
<1>2. CASE Kill
  <2>1. Crash /\ log' = log /\ saltMay' = saltMay
    BY <1>2 DEF Kill, files
  <2>2. log' = [salt |-> log'.salt, frames |-> log'.frames]
    BY <2>1 DEF WalInv, WalTypes
  <2> QED  BY <2>1, <2>2, CrashKeeps
<1>3. CASE PowerLoss
  BY <1>3, CrashKeeps DEF PowerLoss
<1>4. ASSUME NEW c \in Connection,
             \/ Recover(c) \/ ReadHdr(c) \/ Decide(c) \/ Compare(c)
             \/ ChooseMark(c) \/ ShareMark(c) \/ SetMinFrame(c) \/ CheckMark(c) \/
                   EndRead(c)
      PROVE  WalInv'
  BY <1>4, RecoverKeeps, ReadHdrKeeps, DecideKeeps, CompareKeeps, ChooseMarkKeeps,
     ShareMarkKeeps, SetMinFrameKeeps, CheckMarkKeeps, EndReadKeeps
<1>5. ASSUME NEW c \in Connection,
             \/ BeginWrite(c) \/ RestartLog(c) \/ Reset(c)
             \/ WriteHeader(c) \/ SyncHeader(c) \/ AfterOthers(c)
             \/ \E p \in Page, commit \in BOOLEAN : WriteFrame(c, p, commit)
             \/ AppendIndex(c) \/ Publish(c) \/ Undo(c) \/ EndWrite(c)
      PROVE  WalInv'
  BY <1>5, BeginWriteKeeps, RestartLogKeeps, ResetKeeps, WriteHeaderKeeps,
        SyncHeaderKeeps, AfterOthersKeeps,
     WriteFrameKeeps, AppendIndexKeeps, PublishKeeps, UndoKeeps, EndWriteKeeps
<1>6. ASSUME NEW c \in Connection,
             \/ Checkpoint(c) \/ Iterate(c) \/ LookAtMark(c) \/ ObeyMark(c) \/ SyncLog(c)
             \/ \E p \in Page : CopyPage(c, p)
             \/ Finish(c) \/ Unlock(c)
      PROVE  WalInv'
  BY <1>6, CheckpointKeeps, IterateKeeps, LookAtMarkKeeps, ObeyMarkKeeps, SyncLogKeeps,
     CopyPageKeeps, FinishKeeps, UnlockKeeps
<1> QED  BY <1>1, <1>2, <1>3, <1>4, <1>5, <1>6 DEF WalNext

\* What is not about a checkpointer that goes on.
LEMMA OthersKeepAhead ==
  ASSUME WalInv, AheadInv, NEW c \in Connection,
         \/ Recover(c) \/ ReadHdr(c) \/ Decide(c) \/ Compare(c)
         \/ ChooseMark(c) \/ ShareMark(c) \/ SetMinFrame(c) \/ CheckMark(c) \/ EndRead(c)
         \/ BeginWrite(c) \/ Reset(c) \/ WriteHeader(c) \/ SyncHeader(c) \/ AfterOthers(c)
         \/ \E p \in Page, commit \in BOOLEAN : WriteFrame(c, p, commit)
         \/ AppendIndex(c) \/ Undo(c) \/ EndWrite(c)
         \/ LookAtMark(c) \/ ObeyMark(c) \/ SyncLog(c)
         \/ \E p \in Page : CopyPage(c, p)
         \/ Finish(c) \/ Unlock(c)
  PROVE  AheadInv'
<1> USE DEF WalInv, WalTypes, Moves, Set, Leave, index, reading, outruns
<1>1. CASE Recover(c)
  <2>1. behind' = behind /\ outrun' = outrun /\ \A d \in Connection : at'[d] # "iterate"
    BY <1>1 DEF Recover, PlaceInv
  <2> QED  BY <2>1 DEF AheadInv
<1>2. ASSUME behind' = behind, outrun' = outrun, header' = header,
             at'[c] # "iterate",
             \A d \in Connection : d # c => at'[d] = at[d] /\ hdr'[d] = hdr[d]
      PROVE  AheadInv'
  BY <1>2 DEF AheadInv
<1>3. CASE \/ ReadHdr(c) \/ Decide(c) \/ Compare(c) \/ ShareMark(c) \/ SetMinFrame(c)
           \/ CheckMark(c) \/ EndRead(c)
  <2>1. /\ behind' = behind /\ outrun' = outrun /\ header' = header
        /\ \E n \in Places \ {"iterate"} : at' = [at EXCEPT ![c] = n]
        /\ hdr' = hdr \/ \E h : hdr' = [hdr EXCEPT ![c] = h]
    BY <1>3 DEF ReadHdr, Decide, Compare, ShareMark, SetMinFrame, CheckMark, EndRead, Places
  <2> QED  BY <1>2, <2>1
<1>4. CASE ChooseMark(c)
  <2>1. /\ behind' = behind /\ outrun' = outrun /\ header' = header
        /\ \E n \in Places \ {"iterate"} : at' = [at EXCEPT ![c] = n]
        /\ hdr' = hdr \/ \E h : hdr' = [hdr EXCEPT ![c] = h]
    BY <1>4 DEF ChooseMark, Places
  <2> QED  BY <1>2, <2>1
<1>5. CASE \/ BeginWrite(c) \/ Reset(c) \/ WriteHeader(c) \/ SyncHeader(c) \/ AfterOthers(c)
           \/ \E p \in Page, commit \in BOOLEAN : WriteFrame(c, p, commit)
           \/ AppendIndex(c) \/ Undo(c) \/ EndWrite(c)
  <2>1. /\ behind' = behind /\ outrun' = outrun /\ header' = header
        /\ \E n \in Places \ {"iterate"} : at' = [at EXCEPT ![c] = n]
        /\ hdr' = hdr \/ \E h : hdr' = [hdr EXCEPT ![c] = h]
    <3>1. CASE BeginWrite(c) \/ Reset(c) \/ SyncHeader(c) \/ AfterOthers(c) \/ EndWrite(c)
      BY <3>1 DEF BeginWrite, Reset, SyncHeader, AfterOthers, EndWrite, Places
    <3>2. CASE WriteHeader(c) \/ AppendIndex(c) \/ Undo(c)
      BY <3>2 DEF WriteHeader, AppendIndex, Undo, Places
    <3>3. CASE \E p \in Page, commit \in BOOLEAN : WriteFrame(c, p, commit)
      BY <3>3 DEF WriteFrame, Places
    <3> QED  BY <1>5, <3>1, <3>2, <3>3
  <2> QED  BY <1>2, <2>1
<1>6. CASE \/ LookAtMark(c) \/ ObeyMark(c) \/ SyncLog(c)
           \/ \E p \in Page : CopyPage(c, p)
           \/ Finish(c) \/ Unlock(c)
  <2>1. /\ behind' = behind /\ outrun' = outrun /\ header' = header
        /\ \E n \in Places \ {"iterate"} : at' = [at EXCEPT ![c] = n]
        /\ hdr' = hdr \/ \E h : hdr' = [hdr EXCEPT ![c] = h]
    BY <1>6 DEF LookAtMark, ObeyMark, SyncLog, CopyPage, Finish, Unlock, Places
  <2> QED  BY <1>2, <2>1
<1> QED  BY <1>1, <1>3, <1>4, <1>5, <1>6

\* A header only grows, but by a restart.
LEMMA StepKeepsAhead ==
  ASSUME WalInv, AheadInv, [WalNext]_walVars
  PROVE  AheadInv'
<1>1. CASE UNCHANGED walVars
  BY <1>1 DEF walVars, index, reading, outruns, AheadInv
<1>2. CASE Kill \/ PowerLoss
  <2>1. Crash
    BY <1>2 DEF Kill, PowerLoss
  <2> QED  BY <2>1 DEF Crash, AheadInv
<1>3. ASSUME NEW c \in Connection, RestartLog(c)  PROVE AheadInv'
  <2>1. /\ outrun' = outrun /\ behind' \in BOOLEAN
        /\ \E n \in {"log", "reset", "mark"} : at' = [at EXCEPT ![c] = n]
        /\ \/ UNCHANGED <<header, hdr, behind>>
           \/ /\ behind' = (behind \/ AboutToCheckpoint)
              /\ \E h : hdr' = [hdr EXCEPT ![c] = h]
    BY <1>3 DEF RestartLog, Moves, Set, AheadInv
  <2>2. \A k \in Connection : at'[k] = "iterate" => at[k] = "iterate" /\ k # c
    BY <2>1 DEF WalInv, WalTypes
  <2> QED  BY <2>1, <2>2 DEF AheadInv, AboutToCheckpoint
<1>4. ASSUME NEW c \in Connection, Publish(c)  PROVE AheadInv'
  <2>1. /\ at[c] = "publish" /\ at' = [at EXCEPT ![c] = "wrote"]
        /\ header' = [hdr[c] EXCEPT !.iChange = hdr[c].iChange + 1]
        /\ hdr' = [hdr EXCEPT ![c] = header'] /\ UNCHANGED <<behind, outrun>>
    BY <1>4 DEF Publish, Moves, Set, outruns
  <2>2. /\ header \in Header /\ hdr[c] \in Header /\ header.mxFrame <= hdr[c].mxFrame
        /\ \A k \in Connection : hdr[k] \in Header
    BY <2>1 DEF WalInv, WalTypes, WriterInv, PlaceInv, Appends
  <2>3. header'.mxFrame = hdr[c].mxFrame
    BY <2>1, <2>2 DEF Header
  <2>4. \A k \in Connection : at'[k] = "iterate" => at[k] = "iterate" /\ hdr'[k] = hdr[k]
    BY <2>1 DEF WalInv, WalTypes
  <2> QED  BY <2>1, <2>2, <2>3, <2>4 DEF AheadInv, Header
<1>5. ASSUME NEW c \in Connection, Checkpoint(c)  PROVE AheadInv'
  <2>1. /\ header # None /\ ckpt.by = None /\ UNCHANGED <<header, outrun>> /\ behind' = FALSE
        /\ at' = [at EXCEPT ![c] = "iterate"] /\ hdr' = [hdr EXCEPT ![c] = header]
    BY <1>5 DEF Checkpoint, Moves, Set, index
  <2>2. \A k \in Connection : at'[k] = "iterate" => k = c
    BY <2>1, WalAssumption DEF WalInv, WalTypes, PlaceInv, Checkpoints
  <2>3. hdr'[c] = header /\ header.mxFrame <= header.mxFrame
    BY <2>1 DEF WalInv, WalTypes, Header
  <2> QED  BY <2>1, <2>2, <2>3 DEF AheadInv
<1>6. ASSUME NEW c \in Connection, Iterate(c)  PROVE AheadInv'
  <2>1. /\ outrun' \in BOOLEAN /\ UNCHANGED <<header, hdr, behind>>
        /\ \E n \in {"marks", "unlock"} : at' = [at EXCEPT ![c] = n]
    BY <1>6 DEF Iterate, Moves, index, reading, AheadInv
  <2>2. \A k \in Connection : at'[k] = "iterate" => at[k] = "iterate"
    BY <2>1 DEF WalInv, WalTypes
  <2> QED  BY <2>1, <2>2 DEF AheadInv
<1> QED  BY <1>1, <1>2, <1>3, <1>4, <1>5, <1>6, OthersKeepAhead DEF WalNext

\* A checkpointer that has gone on with an old header is not forgotten.
LEMMA OutrunStays ==
  ASSUME outrun, [WalNext]_walVars
  PROVE  outrun'
<1> USE DEF outruns
<1>1. CASE UNCHANGED walVars
  BY <1>1 DEF walVars
<1>2. CASE Kill \/ PowerLoss
  BY <1>2 DEF Kill, PowerLoss, Crash
<1>3. ASSUME NEW c \in Connection,
             \/ Recover(c) \/ ReadHdr(c) \/ Decide(c) \/ Compare(c)
             \/ ChooseMark(c) \/ ShareMark(c) \/ SetMinFrame(c) \/ CheckMark(c) \/ EndRead(c)
      PROVE  outrun'
  BY <1>3 DEF Recover, ReadHdr, Decide, Compare, ChooseMark, ShareMark, SetMinFrame, CheckMark,
              EndRead
<1>4. ASSUME NEW c \in Connection,
             \/ BeginWrite(c) \/ RestartLog(c) \/ Reset(c)
             \/ WriteHeader(c) \/ SyncHeader(c) \/ AfterOthers(c)
             \/ \E p \in Page, commit \in BOOLEAN : WriteFrame(c, p, commit)
             \/ AppendIndex(c) \/ Publish(c) \/ Undo(c) \/ EndWrite(c)
      PROVE  outrun'
  BY <1>4 DEF BeginWrite, RestartLog, Reset, WriteHeader, SyncHeader, AfterOthers, WriteFrame,
              AppendIndex, Publish, Undo, EndWrite
<1>5. ASSUME NEW c \in Connection,
             \/ Checkpoint(c) \/ Iterate(c) \/ LookAtMark(c) \/ ObeyMark(c) \/ SyncLog(c)
             \/ \E p \in Page : CopyPage(c, p)
             \/ Finish(c) \/ Unlock(c)
      PROVE  outrun'
  BY <1>5 DEF Checkpoint, Iterate, LookAtMark, ObeyMark, SyncLog, CopyPage, Finish, Unlock
<1> QED  BY <1>1, <1>2, <1>3, <1>4, <1>5 DEF WalNext

\* As long as no checkpointer has gone on with an old header the invariant holds.
LEMMA InvariantHolds == WalSpec => [](~outrun => WalInv /\ AheadInv)
<1> DEFINE Held == ~outrun => WalInv /\ AheadInv
<1>1. WalInit => Held
  BY InitHolds DEF WalInit, AheadInv
<1>2. Held /\ [WalNext]_walVars => Held'
  <2> SUFFICES ASSUME Held, [WalNext]_walVars, ~outrun'  PROVE WalInv' /\ AheadInv'
    OBVIOUS
  <2>1. ~outrun
    BY OutrunStays
  <2> QED  BY <2>1, StepKeeps, StepKeepsAhead
<1> QED  BY <1>1, <1>2, PTL DEF WalSpec

\* What is copied back into the data base file is not newer than what anybody reads, and
\* nobody reads the file alone meanwhile, for any number of connections, pages, marks and
\* frames, and through any crashes (wal.c 1780-1803), until a checkpointer has gone on
\* with the header of a log that was restarted after it had read it (3285, 1760).
THEOREM NothingNewerIsCopied == WalSpec => []CopiesNothingNewer
<1>1. (~outrun => WalInv /\ AheadInv) => CopiesNothingNewer
  <2> SUFFICES ASSUME ~outrun, WalInv, NEW c \in Connection, at[c] \in {"read", "write"}, Copying
               PROVE  readLock[c] > 0 /\ ckpt.mxSafeFrame <= hdr[c].mxFrame
    BY DEF CopiesNothingNewer
  <2>1. readLock[c] > 0
    BY DEF WalInv, LockInv, WalTypes, Reads, Writes
  <2>2. PICK k \in Connection : at[k] \in {"copy", "finish"}
    BY DEF Copying
  <2>3. ckpt.marks = {}
    BY <2>2 DEF WalInv, SafeInv, Backfills
  <2> QED  BY <2>1, <2>2, <2>3 DEF WalInv, SafeInv, Backfills, Reads, Writes
<1> QED  BY <1>1, InvariantHolds, PTL

============================================================================
