----------------------------- MODULE StoreProofs -----------------------------
(***************************************************************************)
(* The log and all who use it implement SnapshotStore, for any number of   *)
(* connections, pages, marks, frames and transactions and through any      *)
(* crashes, until a checkpointer has gone on with the header of a log that *)
(* a writer has restarted meanwhile.                                       *)
(*                                                                         *)
(* What a reader sees is the easier half: a committed state is either in   *)
(* the file or in frames that the reader looks at (BackInv, ReadInv), and  *)
(* nothing newer is copied (WalProofs).  The other half is what a recovery *)
(* would find.  After a power loss the disk holds any choice of what was   *)
(* not synced, the log's header included, so the invariant speaks of every *)
(* choice (DiskInv): under each salt that the header may have, the states  *)
(* committed since the log with that salt was begun are a chain of frames  *)
(* that are commits; those that must last are durable, the file has the    *)
(* state from which the chain starts wherever the chain will not cover it, *)
(* and no other frame of any choice would be taken for a commit, as        *)
(* checksums that go on from frame to frame tell the frames of different   *)
(* transactions apart (FrameInv).  The rest says what the writer has       *)
(* written so far (DraftInv, PenInv), what the wal-index says of the log   *)
(* (IndexInv), that a salt is durable before anything is committed under   *)
(* it (SaltInv, EmptyInv), and what a checkpointer has copied (CopyInv).   *)
(* Each step keeps it, and each is a step of SnapshotStore or not seen     *)
(* there: a lemma per action for either.                                   *)
(***************************************************************************)
EXTENDS WalProofs

\* Where a writer has begun to write to the log, and where it has yet to get there.
Pens == {"header", "frames", "append", "publish"}
Waits == {"mark", "share", "minFrame", "check"}

\* What the disk may hold as a frame, and as the salt of the header.
Choices(f) == logMay[f] \cup {log.frames[f]}
Salts == saltMay \cup {log.salt}

Frame == [salt : Nat, page : Page, data : Nat, commit : BOOLEAN, after : Nat]

\* A transaction whose last frame is written may be committed by that.
Sealed == Writing /\ at[writer] \in {"append", "publish"} /\ log.frames[iFrame].commit
States == IF Sealed THEN Append(store, Draft) ELSE store

\* The frames g have a salt s and checksums that fit, up to n.
ValidTo(s, g, n) ==
  s # 0 /\ \A f \in 1..n : /\ g[f] # None
                           /\ g[f].salt = s
                           /\ g[f].after = IF f = 1 THEN 0 ELSE g[f - 1].data

\* The last of the frames g up to n that has page p.
FrameIn(g, n, p) == MaxOf({h \in 1..n : g[h].page = p})

\* The state d with the frames g up to n on it.
StateAfter(g, d, n) ==
  [p \in Page |-> IF FrameIn(g, n, p) = 0 THEN d[p] ELSE g[FrameIn(g, n, p)].data]

\* The disk may hold the frames g.
Chosen(g) == \A f \in Frames : g[f] \in Choices(f)

\* No commit is found under the salt s, whatever the disk holds.
Empty(s) == \A n \in Frames : \A g : Chosen(g) /\ ValidTo(s, g, n) => ~g[n].commit

-----------------------------------------------------------------------------
StoreTypes ==
  /\ log.frames \in [Frames -> Frame \cup {None}]
  /\ \A f \in Frames : logMay[f] \subseteq Frame \cup {None}
  /\ DOMAIN logMay = Frames
  /\ db \in [Page -> 0..transaction \cup {Torn}]
  /\ dbMay \in [Page -> SUBSET (0..transaction \cup {Torn})]
  /\ \A i \in 1..Len(store) : store[i] \in [Page -> 0..transaction]
  /\ sure \in 1..Len(store) /\ transaction <= MaxTransactions
  /\ DOMAIN aPgno = Frames
  /\ minFrame \in [Connection -> Nat]
  /\ iFrame <= MaxFrame
  /\ header # None => header.mxFrame <= MaxFrame
  /\ \A c \in Connection : hdr[c].mxFrame <= MaxFrame
  /\ writer # None => writer \in Connection /\ at[writer] \in Writes \cup Waits

\* Frames are of transactions begun, and the data of a frame tell which it is.
FrameInv ==
  \A f \in Frames :
    /\ \A a \in Choices(f) : a # None =>
         0 < a.data /\ a.data <= transaction /\ a.after <= transaction /\ a.salt <= transaction
    /\ \A a, b \in Choices(f) : a # None /\ b # None /\ a.data = b.data => a = b

\* The last frame of the writer's log.
Top == IF at[writer] \in {"frames", "append", "publish"} THEN iFrame ELSE hdr[writer].mxFrame

\* What is of the transaction under way, and what is not.
DraftInv ==
  Writing =>
    /\ 0 < transaction
    /\ \A i \in 1..Len(store), p \in Page : store[i][p] < transaction
    /\ header.mxFrame <= Top
    /\ \A f \in Frames : f <= header.mxFrame \/ Top < f =>
         \A a \in Choices(f) : a # None => a.data < transaction /\ a.after < transaction
    /\ \A f \in header.mxFrame + 1..Top :
         /\ log.frames[f] # None /\ log.frames[f].data = transaction
         /\ log.frames[f].commit => Sealed /\ f = Top

\* What the writer's header is worth.
PenInv ==
  Writing =>
    /\ hdr[writer].salt # transaction =>
         \A f \in Frames : \A a \in Choices(f) : a # None => a.salt < transaction
    /\ Top > 0 => ValidTo(log.salt, log.frames, Top)
    /\ at[writer] \in Pens \/ hdr[writer].mxFrame > 0 => hdr[writer].salt = log.salt /\ log.salt # 0
    /\ header.salt # 0 => hdr[writer].salt = header.salt
    /\ at[writer] \notin Pens /\ hdr[writer].mxFrame = 0 => hdr[writer].salt = header.salt
    /\ at[writer] \in Waits => hdr[writer] = header
    /\ at[writer] \in {"append", "publish"} => header.mxFrame < iFrame
    /\ at[writer] = "publish" => log.frames[iFrame].commit /\ hdr[writer].mxFrame = iFrame

IndexInv ==
  header # None =>
    /\ \A f \in 1..header.mxFrame : log.frames[f] # None /\ aPgno[f] = log.frames[f].page
    /\ Writing => \A f \in 1..hdr[writer].mxFrame : log.frames[f] # None /\ aPgno[f] = log.frames[f].page
    /\ header.mxFrame > 0 => header.salt = log.salt

\* The salt of the log is durable before anything is committed under it.
SaltInv ==
  /\ saltMay # {} => Empty(log.salt)
  /\ header # None /\ header.mxFrame > 0 => saltMay = {}
  /\ Writing /\ hdr[writer].mxFrame > 0 => saltMay = {}
  /\ Writing /\ at[writer] \in Pens \ {"header"} => saltMay = {}

Strict == \A i, j \in 1..Len(store) : i < j => store[i] # store[j]

\* The header speaks of the log that is on the disk.
Tied ==
  /\ header # None
  /\ \/ header.mxFrame > 0
     \/ Writing /\ (at[writer] \in Pens \/ hdr[writer].mxFrame > 0)

\* With a log from the state b on, the first state that can be found.
Sure(b) == IF sure < b THEN b ELSE sure

\* Under the salt s the log begins with the state b, and has the state i, for i from b on,
\* with its frame e[i].
Chained(s, b, e) ==
  /\ b \in 1..Len(States) /\ e \in [b..Len(States) -> 0..MaxFrame] /\ e[b] = 0
  /\ \A i, j \in b..Len(States) : i < j => e[i] < e[j]
  /\ e[Len(States)] > 0 => ValidTo(s, log.frames, e[Len(States)])
  /\ \A i \in b + 1..Len(States) : log.frames[e[i]].commit
  /\ \A i \in b..Len(States) : States[i] = StateAfter(log.frames, States[b], e[i])

\* The frames of the sure states are durable, and the file has the state b, but where
\* these frames will be copied to.
Durable(b, e) ==
  /\ \A f \in 1..e[Sure(b)] : logMay[f] = {}
  /\ \A p \in Page : \/ dbMay[p] = {} /\ db[p] = States[b][p]
                     \/ \E f \in 1..e[Sure(b)] : log.frames[f].page = p

\* No other commit can be found.
Found(s, b, e) ==
  \A m \in Frames : \A g :
    Chosen(g) /\ ValidTo(s, g, m) /\ g[m].commit =>
      /\ \E i \in b..Len(States) : m = e[i]
      /\ \A f \in 1..m : g[f] = log.frames[f]

\* How far the wal-index, the writer and the checkpointer are.
Linked(s, b, e) ==
  /\ s = log.salt /\ Tied => e[Len(store)] = header.mxFrame
  /\ s = log.salt /\ Sealed => e[Len(States)] = iFrame
  /\ Copying => ckpt.mxSafeFrame <= e[Sure(b)]

Chain(s, b, e) == Chained(s, b, e) /\ Durable(b, e) /\ Found(s, b, e) /\ Linked(s, b, e)

DiskInv ==
  \A s \in Salts :
    \E b \in 1..Len(States) : \E e \in [b..Len(States) -> 0..MaxFrame] : Chain(s, b, e)

EmptyInv ==
  header # None /\ header.mxFrame = 0 /\ header.salt # 0 /\ ~Tied => Empty(header.salt)

BackInv ==
  header # None =>
    /\ \A p \in Page : (\A f \in nBackfill + 1..header.mxFrame : aPgno[f] # p) => db[p] = Last(store)[p]
    /\ nBackfill >= header.mxFrame => \A p \in Page : dbMay[p] = {}
    /\ ~Restarting => nBackfill <= header.mxFrame

\* What a reader may rely on, and a checkpointer.
ReadsWell(c) ==
  /\ at[c] \in {"check"} \cup Reads /\ readLock[c] > 0 => 1 <= minFrame[c] /\ minFrame[c] <= nBackfill + 1
  /\ at[c] = "read" /\ readLock[c] > 0 => hdr[c].mxFrame <= header.mxFrame
  /\ at[c] = "wrote" => hdr[c] = header

CopiesWell(c) ==
  at[c] \in Backfills =>
    /\ hdr[c].mxFrame <= header.mxFrame /\ ckpt.mxSafeFrame <= hdr[c].mxFrame
    /\ \A p \in Page : ckpt.iter[p] = FrameOf(1..hdr[c].mxFrame, p)
    /\ at[c] \in {"copy", "finish"} =>
         /\ nBackfill < ckpt.mxSafeFrame
         /\ \A p \in Page : p \notin ckpt.pages /\ ckpt.iter[p] \in nBackfill + 1..ckpt.mxSafeFrame =>
              db[p] = log.frames[ckpt.iter[p]].data
    /\ at[c] = "finish" => ckpt.pages = {}

ReadInv == \A c \in Connection : ReadsWell(c)
CopyInv == \A c \in Connection : CopiesWell(c)

StoreInv ==
  /\ StoreTypes /\ FrameInv /\ DraftInv /\ PenInv /\ IndexInv /\ SaltInv /\ Strict
  /\ DiskInv /\ EmptyInv /\ BackInv /\ ReadInv /\ CopyInv

-----------------------------------------------------------------------------
(***************************************************************************)
(* What a recovery finds: logs that agree in a frame, the chain of states. *)
(***************************************************************************)

\* The greatest of some numbers of an interval.
LEMMA GreatestIn ==
  ASSUME NEW a \in Nat, NEW n \in Nat, NEW S \in SUBSET (a..n)
  PROVE  /\ (MaxOf(S) = 0 /\ S = {}) \/ MaxOf(S) \in S
         /\ \A y \in S : y <= MaxOf(S)
<1>1. S \in SUBSET (0..n)
  OBVIOUS
<1>2. S = {} => MaxOf(S) = 0
  BY DEF MaxOf
<1> QED  BY <1>1, <1>2, Greatest

\* The last frame with a page.
LEMMA FrameInIs ==
  ASSUME NEW g, NEW n \in Nat, NEW p
  PROVE  /\ FrameIn(g, n, p) \in 0..n
         /\ FrameIn(g, n, p) # 0 => g[FrameIn(g, n, p)].page = p
         /\ \A h \in 1..n : g[h].page = p => h <= FrameIn(g, n, p)
<1> DEFINE S == {h \in 1..n : g[h].page = p}
<1>1. S \in SUBSET (1..n) /\ FrameIn(g, n, p) = MaxOf(S)
  BY DEF FrameIn
<1>2. /\ (MaxOf(S) = 0 /\ S = {}) \/ MaxOf(S) \in S
      /\ \A y \in S : y <= MaxOf(S)
  <2> HIDE DEF S
  <2> QED  BY <1>1, GreatestIn
<1> QED  BY <1>1, <1>2

LEMMA FrameInUnique ==
  ASSUME NEW g, NEW n \in Nat, NEW p, NEW f \in 0..n, f # 0 => g[f].page = p,
         \A h \in 1..n : g[h].page = p => h <= f
  PROVE  FrameIn(g, n, p) = f
<1> DEFINE i == FrameIn(g, n, p)
<1>1. /\ i \in 0..n /\ (i # 0 => g[i].page = p)
      /\ \A h \in 1..n : g[h].page = p => h <= i
  BY FrameInIs
<1> HIDE DEF i
<1>2. i = f
  BY <1>1
<1> QED  BY <1>2 DEF i

\* Only the frames count that are there.
LEMMA SameFrames ==
  ASSUME NEW g, NEW h, NEW n \in Nat, \A f \in 1..n : g[f] = h[f], NEW d
  PROVE  StateAfter(g, d, n) = StateAfter(h, d, n)
<1>1. ASSUME NEW p \in Page  PROVE FrameIn(g, n, p) = FrameIn(h, n, p) /\ FrameIn(g, n, p) \in 0..n
  <2>1. {f \in 1..n : g[f].page = p} = {f \in 1..n : h[f].page = p}
    OBVIOUS
  <2>2. FrameIn(g, n, p) = FrameIn(h, n, p)
    BY <2>1, Zenon DEF FrameIn
  <2> QED  BY <2>2, FrameInIs
<1>2. ASSUME NEW p \in Page
      PROVE  (IF FrameIn(g, n, p) = 0 THEN d[p] ELSE g[FrameIn(g, n, p)].data)
               = (IF FrameIn(h, n, p) = 0 THEN d[p] ELSE h[FrameIn(h, n, p)].data)
  BY <1>1
<1> QED  BY <1>2 DEF StateAfter

\* With no frames a state is as it was.
LEMMA NoFrames ==
  ASSUME NEW g, NEW S, NEW d \in [Page -> S]
  PROVE  StateAfter(g, d, 0) = d
<1>1. \A p \in Page : FrameIn(g, 0, p) = 0
  BY FrameInIs
<1> QED  BY <1>1 DEF StateAfter

\* Checksums go on from frame to frame: logs that agree in one frame agree in those
\* before it, if no two frames that may be at the same place have the same checksum.
LEMMA Agree ==
  ASSUME NEW n \in Nat, NEW s, NEW g, NEW h, ValidTo(s, g, n), ValidTo(s, h, n),
         g[n] = h[n], \A f \in 1..n : g[f].data = h[f].data => g[f] = h[f]
  PROVE  \A f \in 1..n : g[f] = h[f]
<1> DEFINE D == {f \in 1..n : g[f] # h[f]}
<1>1. D \in SUBSET (1..n)
  OBVIOUS
<1>2. SUFFICES ASSUME D # {}  PROVE FALSE
  OBVIOUS
<1>3. PICK x \in D : \A y \in D : y <= x
  <2> HIDE DEF D
  <2> QED  BY <1>1, <1>2, GreatestIn
<1>4. x \in 1..n /\ x # n /\ g[x] # h[x]
  BY <1>3
<1>5. x + 1 \in 1..n /\ x + 1 \notin D
  BY <1>3, <1>4
<1>6. g[x + 1] = h[x + 1]
  BY <1>5
<1>7. g[x + 1].after = g[x].data /\ h[x + 1].after = h[x].data
  <2>1. x + 1 # 1 /\ (x + 1) - 1 = x
    BY <1>4
  <2> QED  BY <1>5, <2>1 DEF ValidTo
<1> QED  BY <1>4, <1>6, <1>7

LEMMA ValidBefore ==
  ASSUME NEW s, NEW g, NEW n \in Nat, NEW m \in 0..n, ValidTo(s, g, n)
  PROVE  ValidTo(s, g, m)
BY DEF ValidTo

LEMMA ValidSame ==
  ASSUME NEW s, NEW g, NEW h, NEW n \in Nat, \A f \in 1..n : g[f] = h[f], ValidTo(s, g, n)
  PROVE  ValidTo(s, h, n)
<1>1. \A f \in 1..n : f = 1 \/ f - 1 \in 1..n
  OBVIOUS
<1> QED  BY <1>1 DEF ValidTo

\* What is recovered ends with a commit, and is all that does.
LEMMA RecoveredIs ==
  ASSUME NEW s, NEW g
  PROVE  LET l == [salt |-> s, frames |-> g] IN
         /\ Recovered(l) \in 0..MaxFrame
         /\ Recovered(l) > 0 => ValidTo(s, g, Recovered(l)) /\ g[Recovered(l)].commit
         /\ \A m \in Frames : ValidTo(s, g, m) /\ g[m].commit => m <= Recovered(l)
<1> DEFINE l == [salt |-> s, frames |-> g]
           v == MaxOf(Valid(l))
           S == {f \in Frames : f <= v /\ l.frames[f].commit}
<1>0. MaxFrame \in Nat /\ l.salt = s /\ l.frames = g
  BY WalAssumption
<1>1. /\ Valid(l) \in SUBSET (0..MaxFrame)
      /\ \A n \in 0..MaxFrame : n \in Valid(l) <=> ValidTo(s, g, n)
  BY <1>0 DEF Valid, ValidTo
<1>2. S \in SUBSET (1..MaxFrame) /\ Recovered(l) = MaxOf(S)
  BY <1>0 DEF Recovered, Frames
<1>3. /\ (v = 0 /\ Valid(l) = {}) \/ v \in Valid(l)
      /\ \A y \in Valid(l) : y <= v
  BY <1>0, <1>1, GreatestIn
<1>4. /\ (MaxOf(S) = 0 /\ S = {}) \/ MaxOf(S) \in S
      /\ \A y \in S : y <= MaxOf(S)
  <2> HIDE DEF S
  <2> QED  BY <1>0, <1>2, GreatestIn
<1> HIDE DEF v
<1>5. Recovered(l) \in 0..MaxFrame
  BY <1>0, <1>2, <1>4
<1>6. ASSUME Recovered(l) > 0  PROVE ValidTo(s, g, Recovered(l)) /\ g[Recovered(l)].commit
  <2>1. Recovered(l) \in S
    BY <1>2, <1>4, <1>6
  <2>2. Recovered(l) <= v /\ g[Recovered(l)].commit /\ Recovered(l) \in Nat
    BY <1>0, <2>1, <1>5
  <2>3. v \in Valid(l) /\ v \in 0..MaxFrame
    BY <1>1, <1>3, <1>6, <2>2
  <2>4. ValidTo(s, g, v)
    BY <1>1, <2>3
  <2> QED  BY <2>2, <2>3, <2>4, ValidBefore
<1>7. ASSUME NEW m \in Frames, ValidTo(s, g, m), g[m].commit  PROVE m <= Recovered(l)
  <2>1. m \in 0..MaxFrame
    BY <1>0 DEF Frames
  <2>2. m <= v
    BY <1>1, <1>3, <1>7, <2>1
  <2>3. m \in S
    BY <1>0, <1>7, <2>2
  <2> QED  BY <1>2, <1>4, <2>3
<1> QED  BY <1>5, <1>6, <1>7

\* What a sequence is with one more element.
LEMMA OneMore ==
  ASSUME NEW S, NEW q \in Seq(S), NEW x
  PROVE  /\ Len(q) \in Nat /\ Len(Append(q, x)) = Len(q) + 1
         /\ \A i \in 1..Len(q) : Append(q, x)[i] = q[i]
         /\ Append(q, x)[Len(q) + 1] = x
<1>1. q \in Seq(S \cup {x})
  OBVIOUS
<1> QED  BY <1>1, AppendProperties

\* The states that may be found, and the last of them.
LEMMA StatesAre ==
  ASSUME HistoryInv
  PROVE  /\ Len(store) \in Nat /\ Len(States) \in Nat
         /\ ~Sealed => States = store
         /\ Sealed => Len(States) = Len(store) + 1 /\ States[Len(store) + 1] = Draft
         /\ Len(store) <= Len(States)
         /\ \A i \in 1..Len(store) : States[i] = store[i]
<1>1. PICK S : store \in Seq(S)
  BY DEF HistoryInv
<1>2. /\ Len(store) \in Nat /\ Len(Append(store, Draft)) = Len(store) + 1
      /\ \A i \in 1..Len(store) : Append(store, Draft)[i] = store[i]
      /\ Append(store, Draft)[Len(store) + 1] = Draft
  BY <1>1, OneMore
<1>3. CASE Sealed
  BY <1>2, <1>3 DEF States
<1>4. CASE ~Sealed
  BY <1>2, <1>4 DEF States
<1> QED  BY <1>3, <1>4

LEMMA StatesTyped ==
  ASSUME HistoryInv, StoreTypes, transaction \in Nat
  PROVE  /\ Draft \in [Page -> 0..transaction] /\ Last(store) \in [Page -> 0..transaction]
         /\ Len(store) \in 1..Len(States)
         /\ \A i \in 1..Len(States) : States[i] \in [Page -> 0..transaction]
<1>1. /\ Len(store) \in Nat /\ Len(States) \in Nat
      /\ ~Sealed => States = store
      /\ Sealed => Len(States) = Len(store) + 1 /\ States[Len(store) + 1] = Draft
      /\ Len(store) <= Len(States)
      /\ \A i \in 1..Len(store) : States[i] = store[i]
  BY StatesAre
<1>2. Len(store) \in 1..Len(store)
  BY <1>1 DEF StoreTypes
<1>3. Last(store) \in [Page -> 0..transaction]
  BY <1>2 DEF StoreTypes, Last
<1>4. Draft \in [Page -> 0..transaction]
  BY <1>3 DEF Draft
<1>5. ASSUME NEW i \in 1..Len(States)  PROVE States[i] \in [Page -> 0..transaction]
  <2>1. i \in 1..Len(store) \/ (Sealed /\ i = Len(store) + 1)
    BY <1>1
  <2> QED  BY <1>1, <1>4, <2>1 DEF StoreTypes
<1> QED  BY <1>1, <1>2, <1>3, <1>4, <1>5

\* In a chain later states have later frames.
LEMMA ChainRises ==
  ASSUME NEW s, NEW b, NEW e, Chained(s, b, e), HistoryInv, StoreTypes
  PROVE  /\ b \in 1..Len(States) /\ Len(States) \in Nat /\ b \in Nat
         /\ \A i \in b..Len(States) : i \in Nat /\ e[i] \in 0..MaxFrame /\ e[i] \in Nat
         /\ \A i, j \in b..Len(States) : i < j => e[i] < e[j]
         /\ \A i, j \in b..Len(States) : i <= j => e[i] <= e[j]
         /\ Sure(b) \in b..Len(States) /\ sure <= Sure(b)
         /\ \A i \in b..Len(States) : e[i] = 0 => i = b
<1>1. Len(store) \in Nat /\ Len(States) \in Nat /\ Len(store) <= Len(States)
  BY StatesAre
<1>2. b \in 1..Len(States) /\ e \in [b..Len(States) -> 0..MaxFrame] /\ e[b] = 0
  BY DEF Chained
<1>3. \A i \in b..Len(States) : i \in Nat /\ e[i] \in 0..MaxFrame /\ e[i] \in Nat
  BY <1>1, <1>2, WalAssumption
<1>4. \A i, j \in b..Len(States) : i < j => e[i] < e[j]
  BY DEF Chained
<1>5. \A i, j \in b..Len(States) : i <= j => e[i] <= e[j]
  BY <1>1, <1>2, <1>3, <1>4
<1>6. Sure(b) \in b..Len(States) /\ sure <= Sure(b)
  BY <1>1, <1>2 DEF Sure, StoreTypes
<1>7. \A i \in b..Len(States) : e[i] = 0 => i = b
  BY <1>1, <1>2, <1>3, <1>4
<1> QED  BY <1>1, <1>2, <1>3, <1>4, <1>5, <1>6, <1>7

\* What a recovery finds, whatever the disk holds, is a state of the chain, not before what
\* is sure: the last of them if the disk holds what was written.
IsFound(s, b, e, g, d, i) ==
  /\ i \in Sure(b)..Len(States)
  /\ Recovered([salt |-> s, frames |-> g]) = e[i]
  /\ StateOf([salt |-> s, frames |-> g], d) = States[i]
  /\ \A f \in 1..e[i] : g[f] = log.frames[f]
  /\ g = log.frames => i = Len(States)

LEMMA RecoveryFinds ==
  ASSUME NEW s, NEW b, NEW e, Chain(s, b, e), HistoryInv, StoreTypes, transaction \in Nat,
         NEW g, Chosen(g), NEW d, \A p \in Page : d[p] \in dbMay[p] \cup {db[p]}
  PROVE  \E i \in b..Len(States) : IsFound(s, b, e, g, d, i)
<1> DEFINE l == [salt |-> s, frames |-> g]
           R == Recovered(l)
           n == Len(States)
<1>1. /\ R \in 0..MaxFrame
      /\ R > 0 => ValidTo(s, g, R) /\ g[R].commit
      /\ \A m \in Frames : ValidTo(s, g, m) /\ g[m].commit => m <= R
  BY RecoveredIs
<1>2. /\ b \in 1..n /\ n \in Nat /\ b \in Nat
      /\ \A i \in b..n : i \in Nat /\ e[i] \in 0..MaxFrame /\ e[i] \in Nat
      /\ \A i, j \in b..n : i < j => e[i] < e[j]
      /\ \A i, j \in b..n : i <= j => e[i] <= e[j]
      /\ Sure(b) \in b..n
      /\ \A i \in b..n : e[i] = 0 => i = b
  BY ChainRises DEF Chain
<1>3. e[b] = 0 /\ (e[n] > 0 => ValidTo(s, log.frames, e[n]))
      /\ \A i \in b + 1..n : log.frames[e[i]].commit
  BY DEF Chain, Chained
<1> HIDE DEF R
<1>4. ASSUME NEW i \in b..n, i = b \/ \A f \in 1..e[i] : g[f] = log.frames[f]  PROVE e[i] <= R
  <2>1. CASE e[i] = 0
    BY <1>1, <2>1
  <2>2. CASE e[i] # 0
    <3>1. i \in b + 1..n /\ e[i] \in 0..e[n] /\ e[n] > 0 /\ e[i] \in Frames /\ e[n] \in Nat
      BY <1>2, <1>3, <2>2 DEF Frames
    <3>2. ValidTo(s, log.frames, e[i])
      BY <1>3, <3>1, ValidBefore
    <3>3. \A f \in 1..e[i] : log.frames[f] = g[f]
      BY <1>3, <1>4, <2>2
    <3>4. ValidTo(s, g, e[i])
      BY <1>2, <3>2, <3>3, ValidSame
    <3>5. g[e[i]].commit
      BY <1>2, <1>3, <3>1, <3>3
    <3> QED  BY <1>1, <3>1, <3>4, <3>5
  <2> QED  BY <2>1, <2>2
<1>5. e[Sure(b)] <= R
  <2>1. \A f \in 1..e[Sure(b)] : g[f] = log.frames[f]
    <3>1. \A f \in 1..e[Sure(b)] : f \in Frames
      <4>1. e[Sure(b)] \in 0..MaxFrame
        BY <1>2
      <4> QED  BY <4>1, WalAssumption DEF Frames
    <3>2. \A f \in 1..e[Sure(b)] : logMay[f] = {}
      BY DEF Chain, Durable
    <3> QED  BY <3>1, <3>2 DEF Chosen, Choices
  <2> QED  BY <1>2, <1>4, <2>1
<1>6. PICK i \in b..n : R = e[i] /\ \A f \in 1..e[i] : g[f] = log.frames[f]
  <2>1. CASE R = 0
    BY <1>2, <1>3, <2>1
  <2>2. CASE R # 0
    <3>1. R > 0 /\ R \in Frames
      BY <1>1, <2>2, WalAssumption DEF Frames
    <3> QED  BY <1>1, <3>1 DEF Chain, Found
  <2> QED  BY <2>1, <2>2
<1>7. i \in Sure(b)..n
  BY <1>2, <1>5, <1>6
<1>8. g = log.frames => i = n
  <2>1. ASSUME g = log.frames  PROVE e[n] <= R
    BY <1>2, <1>4, <2>1
  <2> QED  BY <1>2, <1>6, <2>1
<1>9. StateOf(l, d) = States[i]
  <2>1. StateOf(l, d) =
          [p \in Page |-> IF FrameIn(g, R, p) = 0 THEN d[p] ELSE g[FrameIn(g, R, p)].data]
    BY DEF StateOf, FrameIn, R
  <2>2. StateOf(l, d) = StateAfter(g, d, R)
    BY <2>1 DEF StateAfter
  <2>3. StateAfter(g, d, R) = StateAfter(log.frames, d, R)
    <3>1. R \in Nat
      BY <1>2, <1>6
    <3>2. \A f \in 1..R : g[f] = log.frames[f]
      BY <1>6
    <3>3. \A h : (\A f \in 1..R : g[f] = h[f]) => StateAfter(g, d, R) = StateAfter(h, d, R)
      BY <3>1, SameFrames
    <3> QED  BY <3>2, <3>3
  <2>4. States[i] = StateAfter(log.frames, States[b], R)
    BY <1>6 DEF Chain, Chained
  <2>5. ASSUME NEW p \in Page
        PROVE  FrameIn(log.frames, R, p) = 0 => d[p] = States[b][p]
    <3>1. \A h \in 1..R : log.frames[h].page = p => h <= FrameIn(log.frames, R, p)
      BY <1>1, FrameInIs
    <3>2. CASE \E f \in 1..e[Sure(b)] : log.frames[f].page = p
      <4>1. PICK f \in 1..e[Sure(b)] : log.frames[f].page = p
        BY <3>2
      <4>2. f \in 1..R /\ f \in Nat /\ f > 0
        BY <1>1, <1>2, <1>5
      <4>3. f <= FrameIn(log.frames, R, p)
        BY <3>1, <4>1, <4>2
      <4> QED  BY <4>2, <4>3
    <3>3. CASE dbMay[p] = {} /\ db[p] = States[b][p]
      BY <3>3
    <3> QED  BY <3>2, <3>3 DEF Chain, Durable
  <2>6. StateAfter(log.frames, d, R) = StateAfter(log.frames, States[b], R)
    BY <2>5 DEF StateAfter
  <2> QED  BY <2>2, <2>3, <2>4, <2>6
<1> QED  BY <1>6, <1>7, <1>8, <1>9 DEF IsFound, R

\* The chains stay if the log does, and the states that may be found.
LEMMA ChainsKept ==
  ASSUME DiskInv, UNCHANGED <<log, logMay>>, saltMay' \subseteq saltMay, States' = States,
         \A s, b, e : Chain(s, b, e) => Durable(b, e)' /\ Linked(s, b, e)'
  PROVE  DiskInv'
<1>1. ASSUME NEW s \in Salts'
      PROVE  \E b \in 1..Len(States') : \E e \in [b..Len(States') -> 0..MaxFrame] : Chain(s, b, e)'
  <2>1. s \in Salts
    BY DEF Salts
  <2>2. PICK b \in 1..Len(States) : \E e \in [b..Len(States) -> 0..MaxFrame] : Chain(s, b, e)
    BY <2>1 DEF DiskInv
  <2>3. PICK e \in [b..Len(States) -> 0..MaxFrame] : Chain(s, b, e)
    BY <2>2
  <2>4. Chained(s, b, e)'
    BY <2>3 DEF Chain, Chained
  <2>5. Found(s, b, e)'
    BY <2>3 DEF Chain, Found, Chosen, Choices
  <2>6. Chain(s, b, e)'
    BY <2>3, <2>4, <2>5 DEF Chain
  <2> QED  BY <2>6
<1> QED  BY <1>1 DEF DiskInv

\* A step that changes neither the files nor the wal-index, but where a connection is that
\* does not write, or has yet to get to the log.
Quiet(c) ==
  /\ UNCHANGED <<header, aPgno, nBackfill, writer, iFrame, files, transaction, history>>
  /\ at' = [at EXCEPT ![c] = at'[c]]
  /\ \A d \in Connection : d # c => hdr'[d] = hdr[d]
  /\ hdr'[c] \in {hdr[c], NoHeader} \/ (header # None /\ hdr'[c] = header)
  /\ minFrame' \in [Connection -> Nat]
  /\ IF writer = c THEN hdr'[c] = hdr[c] /\ at[c] \in Waits /\ at'[c] \in Waits \cup {"log"}
                   ELSE at[c] \notin Writes /\ at'[c] \notin Writes
  /\ at[c] \notin {"copy", "finish"} /\ at'[c] \notin {"copy", "finish"}
  /\ Copying => ckpt' = ckpt

LEMMA QuietIs ==
  ASSUME WalInv, StoreTypes, NEW c \in Connection, Quiet(c)
  PROVE  /\ \A d \in Connection : d # c => at'[d] = at[d]
         /\ Writing' <=> Writing
         /\ Writing => /\ writer \in Connection /\ hdr'[writer] = hdr[writer] /\ writer' = writer
                       /\ at[writer] = at'[writer] \/
                           (at[writer] \in Waits /\ at'[writer] \in Waits \cup {"log"})
         /\ Sealed' <=> Sealed
         /\ Draft' = Draft /\ States' = States /\ (Writing => Top' = Top)
         /\ Tied' <=> Tied
         /\ Copying' <=> Copying
         /\ Restarting' <=> Restarting
<1>1. \A d \in Connection : d # c => at'[d] = at[d]
  BY DEF Quiet, WalInv, WalTypes
<1>2. writer # None => writer \in Connection /\ hdr'[writer] = hdr[writer]
                       /\ (at[writer] = at'[writer] \/
                            (at[writer] \in Waits /\ at'[writer] \in Waits \cup {"log"}))
  BY <1>1 DEF Quiet, StoreTypes
<1>3. /\ writer' = writer /\ iFrame' = iFrame /\ log' = log /\ store' = store
      /\ transaction' = transaction /\ header' = header
  BY DEF Quiet, files, history
<1>4. Writing' <=> Writing
  BY <1>2, <1>3 DEF Writing, Waits
<1>5. Sealed' <=> Sealed
  BY <1>2, <1>3, <1>4 DEF Sealed, Waits, Writing
<1>6. Draft' = Draft
  BY <1>3 DEF Draft, Logged, Last
<1>7. States' = States
  BY <1>3, <1>5, <1>6 DEF States
<1>8. Writing => Top' = Top
  BY <1>2, <1>3 DEF Top, Writing, Waits
<1>9. Tied' <=> Tied
  BY <1>2, <1>3, <1>4 DEF Tied, Writing, Pens, Waits
<1>10. Copying' <=> Copying
  BY <1>1 DEF Quiet, Copying
<1>11. Restarting' <=> Restarting
  BY <1>1 DEF Quiet, Restarting, Waits, Writes
<1> QED  BY <1>1, <1>2, <1>3, <1>4, <1>5, <1>6, <1>7, <1>8, <1>9, <1>10, <1>11 DEF Writing

LEMMA QuietKeeps ==
  ASSUME WalInv, StoreInv, NEW c \in Connection, Quiet(c)
  PROVE  /\ StoreTypes' /\ FrameInv' /\ DraftInv' /\ PenInv' /\ IndexInv' /\ SaltInv' /\ Strict'
         /\ DiskInv' /\ EmptyInv' /\ BackInv'
<1> USE DEF StoreInv
<1>1. /\ \A d \in Connection : d # c => at'[d] = at[d]
      /\ Writing' <=> Writing
      /\ Writing => /\ writer \in Connection /\ hdr'[writer] = hdr[writer] /\ writer' = writer
                    /\ at[writer] = at'[writer] \/
                        (at[writer] \in Waits /\ at'[writer] \in Waits \cup {"log"})
      /\ Sealed' <=> Sealed
      /\ Draft' = Draft /\ States' = States /\ (Writing => Top' = Top)
      /\ Tied' <=> Tied
      /\ Copying' <=> Copying
      /\ Restarting' <=> Restarting
  BY QuietIs
<1>2. UNCHANGED <<header, aPgno, nBackfill, writer, iFrame, log, db, logMay, saltMay, dbMay,
                  transaction, store, sure>>
  BY DEF Quiet, files, history
<1>3. StoreTypes'
  <2>1. \A d \in Connection : hdr'[d].mxFrame <= MaxFrame
    <3>1. NoHeader.mxFrame <= MaxFrame
      BY WalAssumption DEF NoHeader
    <3>2. \A d \in Connection : hdr[d].mxFrame <= MaxFrame
      BY DEF StoreTypes
    <3>3. header # None => header.mxFrame <= MaxFrame
      BY DEF StoreTypes
    <3>4. hdr'[c].mxFrame <= MaxFrame
      BY <3>1, <3>2, <3>3 DEF Quiet
    <3>5. \A d \in Connection : d # c => hdr'[d] = hdr[d]
      BY DEF Quiet
    <3> QED  BY <3>2, <3>4, <3>5
  <2>2. writer # None => writer \in Connection /\ at'[writer] \in Writes \cup Waits
    BY <1>1 DEF StoreTypes, Quiet, Waits, Writes
  <2>3. minFrame' \in [Connection -> Nat]
    BY DEF Quiet
  <2> QED  BY <1>2, <2>1, <2>2, <2>3 DEF StoreTypes
<1>4. FrameInv' /\ Strict'
  BY <1>2 DEF FrameInv, Strict, Choices
<1>5. DraftInv'
  BY <1>1, <1>2 DEF DraftInv, Choices
<1>6. PenInv'
  <2> SUFFICES ASSUME Writing  PROVE PenInv'
    BY <1>1 DEF PenInv
  <2>1. /\ hdr[writer].salt # transaction =>
             \A f \in Frames : \A a \in Choices(f) : a # None => a.salt < transaction
        /\ Top > 0 => ValidTo(log.salt, log.frames, Top)
        /\ at[writer] \in Pens \/ hdr[writer].mxFrame > 0 => hdr[writer].salt = log.salt /\ log.salt # 0
        /\ header.salt # 0 => hdr[writer].salt = header.salt
        /\ at[writer] \notin Pens /\ hdr[writer].mxFrame = 0 => hdr[writer].salt = header.salt
        /\ at[writer] \in Waits => hdr[writer] = header
        /\ at[writer] \in {"append", "publish"} => header.mxFrame < iFrame
        /\ at[writer] = "publish" => log.frames[iFrame].commit /\ hdr[writer].mxFrame = iFrame
    BY DEF PenInv
  <2>2. at'[writer] \in Pens <=> at[writer] \in Pens
    BY <1>1 DEF Pens, Waits
  <2>3. at'[writer] \in Waits => at[writer] \in Waits
    BY <1>1 DEF Waits
  <2>4. at'[writer] \in {"append", "publish"} => at'[writer] = at[writer]
    BY <1>1 DEF Waits
  <2>5. \A f \in Frames : Choices(f)' = Choices(f)
    BY <1>2 DEF Choices
  <2> QED  BY <1>1, <1>2, <2>1, <2>2, <2>3, <2>4, <2>5 DEF PenInv
<1>7. IndexInv'
  BY <1>1, <1>2 DEF IndexInv
<1>8. \A s : Empty(s)' <=> Empty(s)
  BY <1>2 DEF Empty, Chosen, Choices
<1>9. SaltInv'
  BY <1>1, <1>2, <1>8 DEF SaltInv, Pens, Waits
<1>10. EmptyInv'
  BY <1>1, <1>2, <1>8 DEF EmptyInv
<1>11. BackInv'
  BY <1>1, <1>2 DEF BackInv
<1>12. DiskInv'
  <2>1. \A s, b, e : Chain(s, b, e) => Linked(s, b, e)'
    BY <1>1, <1>2 DEF Chain, Linked, Quiet, Sure
  <2>2. \A b, e : Durable(b, e)' <=> Durable(b, e)
    BY <1>1, <1>2 DEF Durable, Sure
  <2> QED  BY <1>1, <1>2, <2>1, <2>2, ChainsKept DEF Chain
<1> QED  BY <1>3, <1>4, <1>5, <1>6, <1>7, <1>9, <1>10, <1>11, <1>12

-----------------------------------------------------------------------------
(***************************************************************************)
(* Readers and checkpointers leave the log alone, and the file.            *)
(***************************************************************************)

LEMMA QuietOthers ==
  ASSUME WalInv, StoreInv, NEW c \in Connection, Quiet(c),
         \A d \in Connection : d # c => readLock'[d] = readLock[d] /\ minFrame'[d] = minFrame[d],
         ckpt' = ckpt \/ \A d \in Connection : d # c => at[d] \notin Checkpoints,
         ReadsWell(c)', CopiesWell(c)'
  PROVE  StoreInv'
<1>1. /\ StoreTypes' /\ FrameInv' /\ DraftInv' /\ PenInv' /\ IndexInv' /\ SaltInv' /\ Strict'
      /\ DiskInv' /\ EmptyInv' /\ BackInv'
  BY QuietKeeps
<1>2. \A d \in Connection : d # c => at'[d] = at[d] /\ hdr'[d] = hdr[d]
  BY QuietIs DEF Quiet, StoreInv
<1>3. UNCHANGED <<header, aPgno, nBackfill, log, db>>
  BY DEF Quiet, files
<1>4. ReadInv'
  <2>1. ASSUME NEW d \in Connection, d # c  PROVE ReadsWell(d)'
    <3>1. ReadsWell(d)
      BY DEF StoreInv, ReadInv
    <3> QED  BY <1>2, <1>3, <2>1, <3>1 DEF ReadsWell
  <2> QED  BY <2>1 DEF ReadInv
<1>5. CopyInv'
  <2>1. ASSUME NEW d \in Connection, d # c  PROVE CopiesWell(d)'
    <3>1. CopiesWell(d)
      BY DEF StoreInv, CopyInv
    <3>2. CASE at[d] \notin Checkpoints
      BY <1>2, <2>1, <3>2 DEF CopiesWell, Backfills, Checkpoints
    <3>3. CASE ckpt' = ckpt
      BY <1>2, <1>3, <2>1, <3>1, <3>3 DEF CopiesWell, FrameOf
    <3> QED  BY <2>1, <3>2, <3>3
  <2> QED  BY <2>1 DEF CopyInv
<1> QED  BY <1>1, <1>4, <1>5 DEF StoreInv

\* Who begins to read, or ends.
LEMMA LeaveIsQuiet ==
  ASSUME WalInv, StoreInv, NEW c \in Connection,
         NEW s \in {"compare", "mark", "share", "check", "read", "unlock"}, Leave(c, s),
         UNCHANGED <<index, writer, iFrame, files, transaction, history>>,
         ckpt' = ckpt \/ (s = "unlock" /\ ckpt' = NoCheckpoint)
  PROVE  StoreInv'
<1> USE DEF Leave, Moves, Set, index
<1>1. at[c] = s /\ at' = [at EXCEPT ![c] = at'[c]] /\ at'[c] \in {"mark", "idle"}
      /\ (writer = c => at'[c] = "mark")
  BY DEF WalInv, WalTypes
<1>2. s = "unlock" => ckpt.by = c /\ \A d \in Connection : d # c => at[d] \notin Checkpoints
  BY <1>1 DEF WalInv, PlaceInv, Checkpoints
<1>3. s = "unlock" => ~Copying
  BY <1>1, <1>2 DEF Copying, Checkpoints
<1>4. writer = c => s \in Waits
  BY <1>1, WalAssumption DEF StoreInv, StoreTypes, Writes, Waits
<1>5. /\ hdr'[c] \in {hdr[c], NoHeader} /\ (writer = c => hdr'[c] = hdr[c])
      /\ minFrame' \in [Connection -> Nat]
      /\ \A d \in Connection : d # c =>
           hdr'[d] = hdr[d] /\ readLock'[d] = readLock[d] /\ minFrame'[d] = minFrame[d]
  BY DEF WalInv, WalTypes, StoreInv, StoreTypes
<1>6. Quiet(c)
  BY <1>1, <1>3, <1>4, <1>5 DEF Quiet, Waits, Writes
<1>7. ReadsWell(c)' /\ CopiesWell(c)'
  BY <1>1 DEF ReadsWell, CopiesWell, Reads, Writes, Backfills
<1> QED  BY <1>2, <1>5, <1>6, <1>7, QuietOthers

LEMMA ReaderStep ==
  ASSUME WalInv, StoreInv, NEW c \in Connection,
         NEW n \in {"decide", "compare", "mark", "share", "minFrame", "check", "read"} \cup {"log"},
         at' = [at EXCEPT ![c] = n],
         UNCHANGED <<header, aPgno, nBackfill, writer, iFrame, ckpt, files, transaction, history>>,
         hdr' = hdr \/ (header # None /\ hdr' = [hdr EXCEPT ![c] = header] /\ at[c] = "idle"),
         readLock' = [readLock EXCEPT ![c] = readLock'[c]],
         minFrame' = [minFrame EXCEPT ![c] = minFrame'[c]], minFrame'[c] \in Nat,
         at[c] \in Waits \cup {"idle", "decide", "compare"},
         at[c] \in Waits => n \in Waits \cup {IF writer = c THEN "log" ELSE "read"},
         at[c] \notin Waits => n \in Waits \cup {"decide", "compare", "read"},
         ReadsWell(c)'
  PROVE  StoreInv'
<1>1. at'[c] = n
  BY DEF WalInv, WalTypes
<1>2. writer = c => at[c] \in Waits
  BY WalAssumption DEF StoreInv, StoreTypes, Writes, Waits
<1>3. /\ hdr'[c] = hdr[c] \/ (header # None /\ hdr'[c] = header)
      /\ writer = c => hdr'[c] = hdr[c]
      /\ \A d \in Connection : d # c =>
           hdr'[d] = hdr[d] /\ readLock'[d] = readLock[d] /\ minFrame'[d] = minFrame[d]
  BY <1>2 DEF WalInv, WalTypes, StoreInv, StoreTypes, Waits
<1>4. minFrame' \in [Connection -> Nat]
  BY DEF StoreInv, StoreTypes
<1>5. Quiet(c)
  BY <1>1, <1>2, <1>3, <1>4 DEF Quiet, Waits, Writes
<1>6. CopiesWell(c)'
  BY <1>1 DEF CopiesWell, Backfills
<1> QED  BY <1>3, <1>5, <1>6, QuietOthers

\* The steps by which a reader gets its lock, and gives it back.
LEMMA ReadersKeepStore ==
  ASSUME WalInv, StoreInv, NEW c \in Connection,
         \/ ReadHdr(c) \/ Decide(c) \/ Compare(c)
         \/ ChooseMark(c) \/ ShareMark(c) \/ SetMinFrame(c) \/ CheckMark(c) \/ EndRead(c)
  PROVE  StoreInv'
<1> USE DEF Moves, Set
<1>1. hdr = [hdr EXCEPT ![c] = hdr[c]] /\ readLock = [readLock EXCEPT ![c] = readLock[c]]
      /\ minFrame = [minFrame EXCEPT ![c] = minFrame[c]] /\ minFrame[c] \in Nat
      /\ nBackfill \in Nat
  BY DEF WalInv, WalTypes, StoreInv, StoreTypes
<1>2. \A n : at' = [at EXCEPT ![c] = n] => at'[c] = n
  BY DEF WalInv, WalTypes
<1>3. CASE ReadHdr(c)
  <2>1. at'[c] = "decide"
    BY <1>2, <1>3 DEF ReadHdr
  <2>2. ReadsWell(c)'
    BY <2>1 DEF ReadsWell, Reads, Writes
  <2> QED  BY <1>1, <1>3, <2>2, ReaderStep DEF ReadHdr, index, Waits
<1>4. CASE Decide(c)
  <2>1. at'[c] \in {"compare", "mark"} /\ at' = [at EXCEPT ![c] = at'[c]]
    BY <1>2, <1>4 DEF Decide
  <2>2. ReadsWell(c)'
    BY <2>1 DEF ReadsWell, Reads, Writes
  <2>3. readLock' = [readLock EXCEPT ![c] = readLock'[c]]
    BY <1>1, <1>4 DEF Decide, WalInv, WalTypes
  <2> QED  BY <1>1, <1>4, <2>1, <2>2, <2>3, ReaderStep DEF Decide, index, Waits
<1>5. CASE Compare(c)
  <2>1. CASE header = hdr[c] /\ Moves(c, "compare", "read") /\ UNCHANGED reading
    <3>1. at'[c] = "read" /\ readLock[c] = 0 /\ readLock' = readLock
      BY <1>2, <2>1 DEF WalInv, LockInv, reading
    <3>2. ReadsWell(c)'
      BY <3>1 DEF ReadsWell
    <3> QED  BY <1>1, <1>5, <2>1, <3>2, ReaderStep DEF Compare, index, reading, Waits
  <2>2. CASE Leave(c, "compare")
    BY <1>5, <2>2, LeaveIsQuiet DEF Compare
  <2> QED  BY <1>5, <2>1, <2>2 DEF Compare
<1>6. CASE ChooseMark(c)
  <2>1. CASE Moves(c, "mark", "share") /\ UNCHANGED <<hdr, readLock, minFrame>>
    <3>1. at'[c] = "share"
      BY <1>2, <2>1
    <3>2. ReadsWell(c)'
      BY <3>1 DEF ReadsWell, Reads, Writes
    <3> QED  BY <1>1, <1>6, <2>1, <3>2, ReaderStep DEF ChooseMark, Waits
  <2>2. CASE Leave(c, "mark") /\ UNCHANGED aReadMark
    <3>1. UNCHANGED <<index, writer, iFrame, ckpt, files, transaction, history>>
      BY <1>6, <2>2 DEF ChooseMark, index
    <3> QED  BY <2>2, <3>1, LeaveIsQuiet
  <2> QED  BY <1>6, <2>1, <2>2 DEF ChooseMark
<1>7. CASE ShareMark(c)
  <2>1. CASE Moves(c, "share", "minFrame") /\ readLock' = Set(readLock, c, mark[c][1])
             /\ UNCHANGED <<hdr, mark, minFrame>>
    <3>1. at'[c] = "minFrame"
      BY <1>2, <2>1
    <3>2. ReadsWell(c)'
      BY <3>1 DEF ReadsWell, Reads, Writes
    <3>3. readLock' = [readLock EXCEPT ![c] = readLock'[c]]
      BY <2>1 DEF WalInv, WalTypes
    <3> QED  BY <1>1, <1>7, <2>1, <3>2, <3>3, ReaderStep DEF ShareMark, index, Waits
  <2>2. CASE Leave(c, "share")
    BY <1>7, <2>2, LeaveIsQuiet DEF ShareMark
  <2> QED  BY <1>7, <2>1, <2>2 DEF ShareMark
<1>8. CASE SetMinFrame(c)
  <2>1. at'[c] = "check" /\ minFrame'[c] = nBackfill + 1 /\
        minFrame' = [minFrame EXCEPT ![c] = minFrame'[c]]
        /\ nBackfill' = nBackfill
    BY <1>2, <1>8 DEF SetMinFrame, StoreInv, StoreTypes, index
  <2>2. ReadsWell(c)'
    BY <1>1, <2>1 DEF ReadsWell
  <2>3. minFrame'[c] \in Nat
    BY <1>1, <2>1
  <2> QED  BY <1>1, <1>8, <2>1, <2>2, <2>3, ReaderStep DEF SetMinFrame, index, Waits
<1>9. CASE CheckMark(c)
  <2>1. CASE /\ Moves(c, "check", IF writer = c THEN "log" ELSE "read") /\ Still(c)
             /\ UNCHANGED <<hdr, readLock, minFrame>>
    <3>1. at'[c] \in {"log", "read"} /\ at[c] = "check" /\ hdr[c] = header
          /\ at'[c] = IF writer = c THEN "log" ELSE "read"
      BY <1>2, <2>1 DEF Still
    <3>2. ReadsWell(c) /\ header'= header /\ nBackfill' = nBackfill /\ hdr[c].mxFrame \in Nat
      BY <1>9 DEF StoreInv, ReadInv, CheckMark, index, WalInv, WalTypes, Header
    <3>3. ReadsWell(c)'
      BY <2>1, <3>1, <3>2 DEF ReadsWell
    <3> QED  BY <1>1, <1>9, <2>1, <3>1, <3>3, ReaderStep DEF CheckMark, index, Waits
  <2>2. CASE Leave(c, "check")
    BY <1>9, <2>2, LeaveIsQuiet DEF CheckMark
  <2> QED  BY <1>9, <2>1, <2>2 DEF CheckMark
<1>10. CASE EndRead(c)
  BY <1>10, LeaveIsQuiet DEF EndRead
<1> QED  BY <1>3, <1>4, <1>5, <1>6, <1>7, <1>8, <1>9, <1>10

\* A checkpointer is alone.
LEMMA CheckpointStepIsQuiet ==
  ASSUME WalInv, StoreInv, NEW c \in Connection,
         NEW n \in Checkpoints \ {"copy", "finish"},
         at' = [at EXCEPT ![c] = n], at[c] \in Checkpoints \ {"copy", "finish"} \/ ckpt.by = None,
         UNCHANGED <<header, aPgno, nBackfill, writer, readLock, minFrame, iFrame, files,
                     transaction, history>>,
         at[c] \in Checkpoints \cup {"idle"},
         hdr' = hdr \/ (header # None /\ hdr' = [hdr EXCEPT ![c] = header] /\ at[c] = "idle"),
         CopiesWell(c)'
  PROVE  StoreInv'
<1>1. at'[c] = n
  BY DEF WalInv, WalTypes
<1>2. writer # c
  BY WalAssumption DEF StoreInv, StoreTypes, Writes, Waits, Checkpoints
<1>3. \A d \in Connection : d # c => at[d] \notin Checkpoints
  BY WalAssumption DEF WalInv, PlaceInv
<1>4. ~Copying
  <2>1. at[c] \notin {"copy", "finish"}
    BY WalAssumption DEF WalInv, PlaceInv, Checkpoints
  <2> QED  BY <1>3, <2>1 DEF Copying, Checkpoints
<1>5. /\ hdr'[c] = hdr[c] \/ (header # None /\ hdr'[c] = header)
      /\ \A d \in Connection : d # c => hdr'[d] = hdr[d]
      /\ minFrame' \in [Connection -> Nat]
  BY DEF WalInv, WalTypes, StoreInv, StoreTypes
<1>6. Quiet(c)
  <2>1. at[c] \notin Writes /\ n \notin Writes /\ at[c] \notin {"copy", "finish"}
    BY WalAssumption DEF Checkpoints, Writes, WalInv, PlaceInv
  <2> QED  BY <1>1, <1>2, <1>4, <1>5, <2>1 DEF Quiet
<1>7. ReadsWell(c)'
  BY <1>1 DEF ReadsWell, Reads, Writes, Checkpoints
<1> QED  BY <1>3, <1>6, <1>7, QuietOthers

LEMMA CheckpointKeepsStore ==
  ASSUME WalInv, StoreInv, NEW c \in Connection, Checkpoint(c)
  PROVE  StoreInv'
<1> USE DEF Checkpoint, Moves, Set, index
<1>1. at'[c] = "iterate"
  BY DEF WalInv, WalTypes
<1>2. CopiesWell(c)'
  BY <1>1 DEF CopiesWell, Backfills
<1> QED  BY <1>2, CheckpointStepIsQuiet DEF Checkpoints

LEMMA IterateKeepsStore ==
  ASSUME WalInv, AheadInv, ~outrun', StoreInv, NEW c \in Connection, Iterate(c)
  PROVE  StoreInv'
<1> USE DEF Iterate, Moves, index, reading
<1>1. at' = [at EXCEPT ![c] = at'[c]] /\ at'[c] \in {"marks", "unlock"} /\ at[c] = "iterate"
  BY DEF WalInv, WalTypes
<1>2. CopiesWell(c)'
  <2>1. CASE at'[c] = "marks"
    <3>1. /\ ckpt' = [ckpt EXCEPT !.mxSafeFrame = hdr[c].mxFrame, !.marks = Marks,
                                  !.iter = [p \in Page |-> FrameOf(1..hdr[c].mxFrame, p)]]
          /\ hdr[c].mxFrame <= header.mxFrame /\ hdr' = hdr /\ header' = header /\ aPgno' = aPgno
      BY <1>1, <2>1 DEF WalInv, WalTypes, AheadInv
    <3>2. ckpt'.mxSafeFrame = hdr[c].mxFrame /\ ckpt'.iter = [p \in Page |-> FrameOf(1..hdr[c].mxFrame, p)]
      BY <3>1 DEF WalInv, CheckpointTypes
    <3>3. hdr[c].mxFrame \in Nat
      BY DEF WalInv, WalTypes, Header
    <3>4. \A p \in Page : FrameOf(1..hdr[c].mxFrame, p)' = FrameOf(1..hdr[c].mxFrame, p)
      BY <3>1 DEF FrameOf
    <3> QED  BY <2>1, <3>1, <3>2, <3>3, <3>4 DEF CopiesWell
  <2>2. CASE at'[c] = "unlock"
    BY <2>2 DEF CopiesWell, Backfills
  <2> QED  BY <1>1, <2>1, <2>2
<1> QED  BY <1>1, <1>2, CheckpointStepIsQuiet DEF Checkpoints

\* A checkpointer that looks at the marks finds less that is safe, or as much.
LEMMA MarksKeepStore ==
  ASSUME WalInv, StoreInv, NEW c \in Connection, LookAtMark(c) \/ ObeyMark(c)
  PROVE  StoreInv'
<1> USE DEF LookAtMark, ObeyMark, Moves, index, reading
<1>1. at' = [at EXCEPT ![c] = at'[c]] /\ at'[c] \in {"marks", "obey"} /\ at[c] \in {"marks", "obey"}
  BY DEF WalInv, WalTypes
<1>2. UNCHANGED <<header, aPgno, nBackfill, writer, iFrame, hdr, readLock, minFrame, files,
                  transaction, history>>
  OBVIOUS
<1>3. ckpt'.iter = ckpt.iter /\ ckpt'.mxSafeFrame \in Nat /\ ckpt'.mxSafeFrame <= ckpt.mxSafeFrame
  <2>1. ckpt.mxSafeFrame \in Nat /\ ckpt.y \in Nat
    BY DEF WalInv, CheckpointTypes
  <2>2. at[c] = "obey" => ckpt.y < ckpt.mxSafeFrame
    BY DEF WalInv, SafeInv, Backfills
  <2>3. ckpt' \in {[ckpt EXCEPT !.y = aReadMark[NextMark]], [ckpt EXCEPT !.marks = @ \ {NextMark}],
                   [ckpt EXCEPT !.marks = @ \ {NextMark}, !.y = 0]}
        \/ (at[c] = "obey" /\ ckpt' = [ckpt EXCEPT !.marks = @ \ {NextMark},
                                       !.mxSafeFrame = SafeWith, !.y = 0])
    BY <1>1
  <2>4. ckpt = [by |-> ckpt.by, mxSafeFrame |-> ckpt.mxSafeFrame, iter |-> ckpt.iter,
                marks |-> ckpt.marks, y |-> ckpt.y, pages |-> ckpt.pages]
    BY DEF WalInv, CheckpointTypes
  <2>5. CASE ckpt' = [ckpt EXCEPT !.y = aReadMark[NextMark]]
    BY <2>1, <2>4, <2>5
  <2>6. CASE ckpt' = [ckpt EXCEPT !.marks = @ \ {NextMark}]
    BY <2>1, <2>4, <2>6
  <2>7. CASE ckpt' = [ckpt EXCEPT !.marks = @ \ {NextMark}, !.y = 0]
    BY <2>1, <2>4, <2>7
  <2>8. CASE at[c] = "obey" /\ ckpt' = [ckpt EXCEPT !.marks = @ \ {NextMark},
                                        !.mxSafeFrame = SafeWith, !.y = 0]
    BY <2>1, <2>2, <2>4, <2>8 DEF SafeWith
  <2> QED  BY <2>3, <2>5, <2>6, <2>7, <2>8
<1>4. CopiesWell(c)'
  <2>1. CopiesWell(c) /\ ckpt.mxSafeFrame \in Nat /\ hdr[c].mxFrame \in Nat
    BY DEF StoreInv, CopyInv, WalInv, CheckpointTypes, WalTypes, Header
  <2>2. \A p \in Page : FrameOf(1..hdr[c].mxFrame, p)' = FrameOf(1..hdr[c].mxFrame, p)
    BY <1>2 DEF FrameOf
  <2>3. at'[c] \notin {"copy", "finish"}
    BY <1>1
  <2> QED  BY <1>1, <1>2, <1>3, <2>1, <2>2, <2>3 DEF CopiesWell, Backfills
<1> QED  BY <1>1, <1>2, <1>4, CheckpointStepIsQuiet DEF Checkpoints

LEMMA UnlockKeepsStore ==
  ASSUME WalInv, StoreInv, NEW c \in Connection, Unlock(c)
  PROVE  StoreInv'
BY LeaveIsQuiet DEF Unlock

-----------------------------------------------------------------------------
(***************************************************************************)
(* The steps of a checkpoint that others rely on: the sync, the copies.    *)
(***************************************************************************)

\* A sync: what was written is what the disk holds.
LEMMA SyncedChain ==
  ASSUME DiskInv, HistoryInv, StoreTypes, States' = States, store' = store, sure' = Len(store),
         UNCHANGED <<log, db, dbMay>>, logMay' = [f \in Frames |-> {}], saltMay' = {},
         \A b, e : Chain(log.salt, b, e) => Linked(log.salt, b, e)'
  PROVE  DiskInv'
<1>0. PICK s : s = log.salt
  OBVIOUS
<1>1. s \in Salts /\ Salts' = {s}
  BY <1>0 DEF Salts
<1>2. PICK b \in 1..Len(States) : \E e \in [b..Len(States) -> 0..MaxFrame] : Chain(s, b, e)
  BY <1>1 DEF DiskInv
<1>3. PICK e \in [b..Len(States) -> 0..MaxFrame] : Chain(s, b, e)
  BY <1>2
<1>4. /\ b \in 1..Len(States) /\ Len(States) \in Nat /\ b \in Nat
      /\ \A i \in b..Len(States) : i \in Nat /\ e[i] \in 0..MaxFrame /\ e[i] \in Nat
      /\ \A i, j \in b..Len(States) : i <= j => e[i] <= e[j]
      /\ Sure(b) \in b..Len(States) /\ sure <= Sure(b)
  BY <1>3, ChainRises DEF Chain
<1>5. Len(store) \in Nat /\ Len(store) <= Len(States) /\ sure <= Len(store) /\ sure \in Nat
  BY StatesAre DEF StoreTypes
<1>6. Sure(b)' \in b..Len(States) /\ Sure(b) <= Sure(b)'
  BY <1>4, <1>5 DEF Sure
<1>7. e[Sure(b)] \in 0..MaxFrame /\ e[Sure(b)'] \in 0..MaxFrame /\ e[Sure(b)] <= e[Sure(b)']
  BY <1>4, <1>6
<1>8. Chained(s, b, e)'
  BY <1>3 DEF Chain, Chained
<1>9. Durable(b, e)'
  <2>1. \A f \in 1..e[Sure(b)'] : f \in Frames
    BY <1>7, WalAssumption DEF Frames
  <2>2. \A p \in Page : \/ dbMay[p] = {} /\ db[p] = States[b][p]
                        \/ \E f \in 1..e[Sure(b)] : log.frames[f].page = p
    BY <1>3 DEF Chain, Durable
  <2>3. \A f \in 1..e[Sure(b)] : f \in 1..e[Sure(b)']
    BY <1>7, WalAssumption
  <2>4. \A f \in 1..e[Sure(b)'] : logMay'[f] = {}
    BY <2>1
  <2>5. \A p \in Page : \/ dbMay'[p] = {} /\ db'[p] = States'[b][p]
                        \/ \E f \in 1..e[Sure(b)'] : log'.frames[f].page = p
    BY <2>2, <2>3
  <2> QED  BY <2>4, <2>5 DEF Durable
<1>10. Found(s, b, e)'
  <2>1. \A g : Chosen(g)' => Chosen(g)
    BY DEF Chosen, Choices
  <2> QED  BY <1>3, <2>1 DEF Chain, Found
<1>11. Chain(s, b, e)'
  BY <1>0, <1>3, <1>8, <1>9, <1>10 DEF Chain
<1> QED  BY <1>1, <1>11 DEF DiskInv

\* A step of a checkpointer that writes to the files.
Copies(c) ==
  /\ at[c] \in Checkpoints /\ at'[c] \in Checkpoints /\ at' = [at EXCEPT ![c] = at'[c]]
  /\ UNCHANGED <<header, aPgno, writer, hdr, readLock, minFrame, iFrame, log, store, transaction>>

LEMMA CopiesIs ==
  ASSUME WalInv, StoreTypes, NEW c \in Connection, Copies(c)
  PROVE  /\ \A d \in Connection : d # c => at'[d] = at[d] /\ at[d] \notin Checkpoints
         /\ Writing' <=> Writing
         /\ writer # None => writer \in Connection /\ at'[writer] = at[writer]
         /\ Sealed' <=> Sealed
         /\ Draft' = Draft /\ States' = States /\ (Writing => Top' = Top)
         /\ Tied' <=> Tied
         /\ Restarting' <=> Restarting
<1>1. \A d \in Connection : d # c => at'[d] = at[d] /\ at[d] \notin Checkpoints
  BY DEF Copies, WalInv, WalTypes, PlaceInv
<1>2. writer # None => writer \in Connection /\ at'[writer] = at[writer]
  BY <1>1 DEF Copies, StoreTypes, Writes, Waits, Checkpoints
<1> USE DEF Copies
<1>3. Writing' <=> Writing
  BY <1>2 DEF Writing
<1>4. Sealed' <=> Sealed
  BY <1>2, <1>3 DEF Sealed, Writing
<1>5. Draft' = Draft
  BY DEF Draft, Logged, Last
<1>6. States' = States
  BY <1>4, <1>5 DEF States
<1>7. Writing => Top' = Top
  BY <1>2 DEF Top, Writing
<1>8. Tied' <=> Tied
  BY <1>2, <1>3 DEF Tied, Writing
<1>9. Restarting' <=> Restarting
  BY <1>1 DEF Restarting, Checkpoints
<1> QED  BY <1>1, <1>2, <1>3, <1>4, <1>5, <1>6, <1>7, <1>8, <1>9

\* It keeps what is not about what it copies.
LEMMA CopiesKeeps ==
  ASSUME WalInv, StoreInv, NEW c \in Connection, Copies(c),
         saltMay' \subseteq saltMay, DOMAIN logMay' = Frames,
         \A f \in Frames : logMay'[f] \subseteq logMay[f],
         sure' \in 1..Len(store), db' \in [Page -> 0..transaction \cup {Torn}],
         dbMay' \in [Page -> SUBSET (0..transaction \cup {Torn})],
         nBackfill <= nBackfill', nBackfill' \in Nat,
         DiskInv', BackInv', CopiesWell(c)'
  PROVE  StoreInv'
<1> USE DEF StoreInv
<1>1. /\ \A d \in Connection : d # c => at'[d] = at[d] /\ at[d] \notin Checkpoints
      /\ Writing' <=> Writing
      /\ writer # None => writer \in Connection /\ at'[writer] = at[writer]
      /\ Sealed' <=> Sealed
      /\ Draft' = Draft /\ States' = States /\ (Writing => Top' = Top)
      /\ Tied' <=> Tied
      /\ Restarting' <=> Restarting
  BY CopiesIs
<1>2. UNCHANGED <<header, aPgno, writer, hdr, readLock, minFrame, iFrame, log, store, transaction>>
  BY DEF Copies
<1>3. \A f \in Frames : Choices(f)' \subseteq Choices(f)
  BY <1>2 DEF Choices
<1>4. StoreTypes'
  BY <1>1, <1>2 DEF StoreTypes
<1>5. FrameInv' /\ Strict'
  BY <1>2, <1>3 DEF FrameInv, Strict
<1>6. DraftInv'
  BY <1>1, <1>2, <1>3 DEF DraftInv, Writing
<1>7. PenInv'
  BY <1>1, <1>2, <1>3 DEF PenInv, Writing
<1>8. IndexInv'
  BY <1>1, <1>2 DEF IndexInv
<1>9. \A s : Empty(s) => Empty(s)'
  BY <1>3 DEF Empty, Chosen
<1>10. SaltInv'
  BY <1>1, <1>2, <1>9 DEF SaltInv, Writing
<1>11. EmptyInv'
  BY <1>1, <1>2, <1>9 DEF EmptyInv
<1>12. ReadInv'
  <2>1. ASSUME NEW d \in Connection  PROVE ReadsWell(d)'
    <3>1. ReadsWell(d)
      BY DEF ReadInv
    <3>2. CASE d = c
      BY <3>2 DEF Copies, ReadsWell, Checkpoints, Reads, Writes
    <3>3. CASE d # c
      <4>1. minFrame[d] \in Nat /\ nBackfill \in Nat
        BY DEF StoreTypes, WalInv, WalTypes
      <4> QED  BY <1>1, <1>2, <3>1, <3>3, <4>1 DEF ReadsWell
    <3> QED  BY <3>2, <3>3
  <2> QED  BY <2>1 DEF ReadInv
<1>13. CopyInv'
  <2>1. \A d \in Connection : d # c => CopiesWell(d)'
    BY <1>1 DEF CopiesWell, Backfills, Checkpoints
  <2> QED  BY <2>1 DEF CopyInv
<1> QED  BY <1>4, <1>5, <1>6, <1>7, <1>8, <1>10, <1>11, <1>12, <1>13

\* As long as the wal-index speaks of the log on the disk, the last state committed is in
\* the chain, with the last frame of the header.
LEMMA TiedChain ==
  ASSUME HistoryInv, StoreTypes, PenInv, NEW b, NEW e, Chain(log.salt, b, e), Tied,
         Writing => header.mxFrame \in Nat
  PROVE  Len(store) \in b..Len(States) /\ e[Len(store)] = header.mxFrame
<1>1. /\ b \in 1..Len(States) /\ Len(States) \in Nat /\ b \in Nat
      /\ \A i \in b..Len(States) : i \in Nat /\ e[i] \in 0..MaxFrame /\ e[i] \in Nat
  BY ChainRises DEF Chain
<1>2. /\ Len(store) \in Nat
      /\ ~Sealed => States = store
      /\ Sealed => Len(States) = Len(store) + 1 /\ States[Len(store) + 1] = Draft
  BY StatesAre
<1>3. e[b] = 0 /\ e[Len(store)] = header.mxFrame /\ (Sealed => e[Len(States)] = iFrame)
  BY DEF Chain, Chained, Linked
<1>4. Sealed => header.mxFrame < iFrame
  BY DEF PenInv, Sealed
<1>5. Sealed => b # Len(States)
  <2>1. Sealed => header.mxFrame \in Nat
    BY DEF Sealed
  <2> QED  BY <1>1, <1>3, <1>4, <2>1
<1> QED  BY <1>1, <1>2, <1>3, <1>5

\* The last state committed has of a page the last frame in the header's log.
LEMMA LastIs ==
  ASSUME WalInv, StoreInv, header # None, header.mxFrame > 0
  PROVE  /\ ValidTo(log.salt, log.frames, header.mxFrame)
         /\ \A p \in Page, f \in 1..header.mxFrame :
              aPgno[f] = p /\ (\A h \in f + 1..header.mxFrame : aPgno[h] # p)
                => Last(store)[p] = log.frames[f].data
<1> USE DEF WalInv, StoreInv
<1>1. header \in Header /\ header.mxFrame \in Nat
  BY DEF WalTypes, Header
<1>2. PICK b, e : Chain(log.salt, b, e)
  <2>1. log.salt \in Salts
    BY DEF Salts
  <2> QED  BY <2>1 DEF DiskInv
<1>3. Tied
  BY DEF Tied
<1>4. Len(store) \in b..Len(States) /\ e[Len(store)] = header.mxFrame
  BY <1>1, <1>2, <1>3, TiedChain
<1>5. /\ b \in 1..Len(States) /\ Len(States) \in Nat /\ b \in Nat
      /\ \A i \in b..Len(States) : i \in Nat /\ e[i] \in 0..MaxFrame /\ e[i] \in Nat
      /\ \A i, j \in b..Len(States) : i <= j => e[i] <= e[j]
  BY <1>2, ChainRises DEF Chain
<1>6. States[Len(store)] = Last(store)
  <2>1. Len(store) \in 1..Len(store)
    BY <1>4, <1>5, StatesAre
  <2> QED  BY <2>1, StatesAre DEF Last
<1>7. ValidTo(log.salt, log.frames, header.mxFrame)
  <2>1. e[Len(store)] <= e[Len(States)] /\ e[Len(States)] \in Nat /\ header.mxFrame \in 0..e[Len(States)]
    BY <1>1, <1>4, <1>5
  <2>2. ValidTo(log.salt, log.frames, e[Len(States)])
    BY <1>1, <1>2, <2>1 DEF Chain, Chained
  <2> QED  BY <2>1, <2>2, ValidBefore
<1>8. ASSUME NEW p \in Page, NEW f \in 1..header.mxFrame,
             aPgno[f] = p, \A h \in f + 1..header.mxFrame : aPgno[h] # p
      PROVE  Last(store)[p] = log.frames[f].data
  <2>1. \A h \in 1..header.mxFrame : aPgno[h] = log.frames[h].page
    BY DEF IndexInv
  <2>2. \A h \in 1..header.mxFrame : log.frames[h].page = p => h <= f
    BY <1>1, <1>8, <2>1
  <2>3. FrameIn(log.frames, header.mxFrame, p) = f
    <3>1. f \in 0..header.mxFrame /\ log.frames[f].page = p /\ header.mxFrame \in Nat
      BY <1>1, <1>8, <2>1
    <3>2. \A g : (/\ f # 0 => g[f].page = p
                  /\ \A h \in 1..header.mxFrame : g[h].page = p => h <= f)
            => FrameIn(g, header.mxFrame, p) = f
      BY <3>1, FrameInUnique
    <3> QED  BY <2>2, <3>1, <3>2
  <2>4. Last(store) = StateAfter(log.frames, States[b], header.mxFrame)
    BY <1>2, <1>4, <1>6 DEF Chain, Chained
  <2>5. f # 0
    BY <1>1
  <2> QED  BY <2>3, <2>4, <2>5 DEF StateAfter
<1> QED  BY <1>7, <1>8

LEMMA SyncLogKeepsStore ==
  ASSUME WalInv, StoreInv, NEW c \in Connection, SyncLog(c)
  PROVE  StoreInv'
<1> USE DEF Moves, index, reading
<1>1. at[c] = "marks" /\ ckpt.marks = {} /\ header # None /\ CopiesWell(c)
      /\ \A n : at' = [at EXCEPT ![c] = n] => at'[c] = n
  BY DEF SyncLog, WalInv, PlaceInv, StoreInv, CopyInv, WalTypes
<1>2. CASE ~(nBackfill < ckpt.mxSafeFrame /\ MayExclude(0))
  <2>1. at' = [at EXCEPT ![c] = "unlock"] /\ UNCHANGED <<ckpt, logMay, saltMay, sure>>
    BY <1>2 DEF SyncLog
  <2>2. UNCHANGED <<header, aPgno, nBackfill, writer, readLock, minFrame, iFrame, files,
                    transaction, history, hdr>>
    BY <2>1 DEF SyncLog, files, history
  <2>3. CopiesWell(c)'
    BY <1>1, <2>1 DEF CopiesWell, Backfills
  <2> QED  BY <1>1, <2>1, <2>2, <2>3, CheckpointStepIsQuiet DEF Checkpoints
<1>3. CASE nBackfill < ckpt.mxSafeFrame /\ MayExclude(0)
  <2>1. /\ at' = [at EXCEPT ![c] = "copy"] /\ ckpt' = [ckpt EXCEPT !.pages = Page]
        /\ logMay' = [f \in Frames |-> {}] /\ saltMay' = {} /\ sure' = Len(store)
        /\ UNCHANGED <<header, aPgno, nBackfill, aReadMark, writer, hdr, readLock, minFrame,
                       iFrame, log, db, dbMay,
                       transaction, store>>
    BY <1>3 DEF SyncLog
  <2>2. at'[c] = "copy"
    BY <1>1, <2>1
  <2>3. Copies(c)
    BY <1>1, <2>1, <2>2 DEF Copies, Checkpoints
  <2>4. ckpt'.mxSafeFrame = ckpt.mxSafeFrame /\ ckpt'.iter = ckpt.iter /\ ckpt'.pages = Page
    BY <2>1 DEF WalInv, CheckpointTypes
  <2>5. /\ ckpt.mxSafeFrame \in Nat /\ header.mxFrame \in Nat /\ nBackfill \in Nat /\ hdr[c].mxFrame \in Nat
        /\ hdr[c].mxFrame <= header.mxFrame /\ ckpt.mxSafeFrame <= hdr[c].mxFrame
    BY <1>1 DEF CopiesWell, Backfills, WalInv, WalTypes, CheckpointTypes, Header
  <2>6. CopiesWell(c)'
    <3>1. \A p \in Page : FrameOf(1..hdr[c].mxFrame, p)' = FrameOf(1..hdr[c].mxFrame, p)
      BY <2>1 DEF FrameOf
    <3> QED  BY <1>1, <1>3, <2>1, <2>2, <2>4, <3>1 DEF CopiesWell, Backfills
  <2>7. /\ Writing' <=> Writing
        /\ Sealed' <=> Sealed
        /\ States' = States
        /\ Tied' <=> Tied
        /\ Restarting' <=> Restarting
    BY <2>3, CopiesIs DEF StoreInv
  <2>8. BackInv'
    BY <2>1, <2>7 DEF StoreInv, BackInv
  <2>9. ASSUME NEW b, NEW e, Chain(log.salt, b, e)  PROVE Linked(log.salt, b, e)'
    <3>1. Tied
      BY <1>1, <1>3, <2>5 DEF Tied
    <3>2. Len(store) \in b..Len(States) /\ e[Len(store)] = header.mxFrame
      BY <2>5, <2>9, <3>1, TiedChain DEF WalInv, StoreInv
    <3>3. b \in Nat /\ Len(States) \in Nat
      BY <2>9, ChainRises DEF WalInv, StoreInv, Chain
    <3>4. Sure(b)' = Len(store)
      BY <2>1, <3>2, <3>3 DEF Sure
    <3>5. ckpt'.mxSafeFrame <= e[Sure(b)']
      BY <2>4, <2>5, <3>2, <3>4
    <3> QED  BY <2>1, <2>7, <2>9, <3>5 DEF Chain, Linked
  <2>10. DiskInv'
    BY <2>1, <2>7, <2>9, SyncedChain DEF WalInv, StoreInv
  <2>11. /\ saltMay' \subseteq saltMay /\ DOMAIN logMay' = Frames
         /\ \A f \in Frames : logMay'[f] \subseteq logMay[f]
         /\ sure' \in 1..Len(store) /\ db' \in [Page -> 0..transaction \cup {Torn}]
         /\ dbMay' \in [Page -> SUBSET (0..transaction \cup {Torn})]
         /\ nBackfill <= nBackfill' /\ nBackfill' \in Nat
    BY <2>1, <2>5, StatesAre DEF WalInv, StoreInv, StoreTypes
  <2> QED  BY <2>3, <2>6, <2>8, <2>10, <2>11, CopiesKeeps
<1> QED  BY <1>2, <1>3

\* What a checkpointer copies of a page is a frame of the log with that page, the last that
\* its header tells of.
LEMMA IterIs ==
  ASSUME WalInv, StoreInv, NEW c \in Connection, at[c] \in Backfills, NEW p \in Page
  PROVE  /\ ckpt.mxSafeFrame \in Nat /\ header.mxFrame \in Nat
         /\ nBackfill \in Nat /\ hdr[c].mxFrame \in Nat
         /\ header # None /\ hdr[c].mxFrame <= header.mxFrame /\ ckpt.mxSafeFrame <= hdr[c].mxFrame
         /\ nBackfill < header.mxFrame
         /\ ckpt.iter[p] \in 0..hdr[c].mxFrame
         /\ ckpt.iter[p] > 0 => ckpt.iter[p] \in Frames /\ aPgno[ckpt.iter[p]] = p
                                /\ log.frames[ckpt.iter[p]] # None /\ log.frames[ckpt.iter[p]].page = p
         /\ \A f \in 1..hdr[c].mxFrame : aPgno[f] = p => f <= ckpt.iter[p]
<1>1. header # None /\ CopiesWell(c)
  BY DEF WalInv, PlaceInv, StoreInv, CopyInv, Backfills
<1>2. ckpt.mxSafeFrame \in Nat /\ header.mxFrame \in Nat /\ nBackfill \in Nat /\ hdr[c].mxFrame \in Nat
  BY <1>1 DEF WalInv, CheckpointTypes, WalTypes, Header
<1>3. hdr[c].mxFrame <= header.mxFrame /\ ckpt.mxSafeFrame <= hdr[c].mxFrame
      /\ ckpt.iter[p] = FrameOf(1..hdr[c].mxFrame, p)
  BY <1>1 DEF CopiesWell
<1>4. nBackfill < header.mxFrame
  BY DEF WalInv, SafeInv
<1> DEFINE S == {f \in 1..hdr[c].mxFrame : aPgno[f] = p}
<1>5. S \in SUBSET (1..hdr[c].mxFrame) /\ ckpt.iter[p] = MaxOf(S)
  BY <1>3 DEF FrameOf
<1>6. /\ (MaxOf(S) = 0 /\ S = {}) \/ MaxOf(S) \in S
      /\ \A y \in S : y <= MaxOf(S)
  <2> HIDE DEF S
  <2> QED  BY <1>2, <1>5, GreatestIn
<1>7. ckpt.iter[p] \in 0..hdr[c].mxFrame /\ \A f \in 1..hdr[c].mxFrame : aPgno[f] = p => f <= ckpt.iter[p]
  BY <1>2, <1>5, <1>6
<1>8. ASSUME ckpt.iter[p] > 0  PROVE ckpt.iter[p] \in 1..header.mxFrame /\ aPgno[ckpt.iter[p]] = p
  BY <1>2, <1>3, <1>5, <1>6, <1>8
<1>9. header.mxFrame <= MaxFrame
  BY <1>1 DEF StoreInv, StoreTypes
<1>10. ASSUME ckpt.iter[p] > 0
       PROVE  ckpt.iter[p] \in Frames /\
              log.frames[ckpt.iter[p]] # None /\ log.frames[ckpt.iter[p]].page = p
  <2>1. ckpt.iter[p] \in 1..header.mxFrame /\ aPgno[ckpt.iter[p]] = p
    BY <1>8, <1>10
  <2>2. ckpt.iter[p] \in Frames
    BY <1>2, <1>9, <2>1, WalAssumption DEF Frames
  <2> QED  BY <1>1, <2>1, <2>2 DEF StoreInv, IndexInv
<1> QED  BY <1>1, <1>2, <1>3, <1>4, <1>7, <1>8, <1>10

\* The content of the frames of the log.
LEMMA FrameData ==
  ASSUME StoreInv, NEW f \in Frames, log.frames[f] # None, transaction \in Nat
  PROVE  log.frames[f] \in Frame /\ log.frames[f].data \in 1..transaction /\ log.frames[f].page \in Page
<1>1. log.frames[f] \in Frame
  BY DEF StoreInv, StoreTypes
<1>2. log.frames[f] \in Choices(f)
  BY DEF Choices
<1> QED  BY <1>1, <1>2 DEF StoreInv, FrameInv, Frame

LEMMA CopyPageKeepsStore ==
  ASSUME WalInv, StoreInv, NEW c \in Connection, NEW p \in Page, CopyPage(c, p)
  PROVE  StoreInv'
<1> USE DEF Moves, index, reading, history
<1> DEFINE i == ckpt.iter[p]
<1>1. /\ at[c] = "copy" /\ CopiesWell(c) /\ p \in ckpt.pages
      /\ at' = [at EXCEPT ![c] = at'[c]] /\ at'[c] = (IF ckpt.pages = {p} THEN "finish" ELSE "copy")
      /\ ckpt' = [ckpt EXCEPT !.pages = @ \ {p}]
      /\ UNCHANGED <<header, aPgno, nBackfill, writer, hdr, readLock, minFrame, iFrame, log,
                     logMay, saltMay,
                     transaction, store, sure>>
      /\ transaction \in Nat
  BY DEF CopyPage, StoreInv, CopyInv, WalInv, WalTypes
<1>2. ckpt'.mxSafeFrame = ckpt.mxSafeFrame /\ ckpt'.iter = ckpt.iter /\ ckpt'.pages = ckpt.pages \ {p}
  BY <1>1 DEF WalInv, CheckpointTypes
<1>3. /\ ckpt.mxSafeFrame \in Nat /\ header.mxFrame \in Nat /\ nBackfill \in Nat /\ hdr[c].mxFrame \in Nat
      /\ header # None /\ hdr[c].mxFrame <= header.mxFrame /\ ckpt.mxSafeFrame <= hdr[c].mxFrame
      /\ nBackfill < header.mxFrame
      /\ i \in 0..hdr[c].mxFrame
      /\ i > 0 => i \in Frames /\ aPgno[i] = p
                  /\ log.frames[i] # None /\ log.frames[i].page = p
  BY <1>1, IterIs DEF Backfills
<1>4. Copies(c)
  BY <1>1 DEF Copies, Checkpoints
<1>5. Copying /\ Copying'
  BY <1>1 DEF Copying
<1>6. \/ i \in nBackfill + 1..ckpt.mxSafeFrame /\ db' = [db EXCEPT ![p] = log.frames[i].data]
         /\ dbMay' = [dbMay EXCEPT ![p] = @ \cup {db[p], Torn}]
      \/ i \notin nBackfill + 1..ckpt.mxSafeFrame /\ db' = db /\ dbMay' = dbMay
  BY DEF CopyPage
<1>7. i \in nBackfill + 1..ckpt.mxSafeFrame => i > 0 /\ log.frames[i].data \in 0..transaction
  BY <1>1, <1>3, FrameData
<1> HIDE DEF i
<1>8. db \in [Page -> 0..transaction \cup {Torn}] /\ dbMay \in [Page -> SUBSET (0..transaction \cup {Torn})]
  BY DEF StoreInv, StoreTypes
<1>9. /\ db' \in [Page -> 0..transaction \cup {Torn}]
      /\ dbMay' \in [Page -> SUBSET (0..transaction \cup {Torn})]
  BY <1>6, <1>7, <1>8
<1>10. \A q \in Page : q # p => db'[q] = db[q] /\ dbMay'[q] = dbMay[q]
  BY <1>6, <1>8
<1>11. /\ Writing' <=> Writing
       /\ Sealed' <=> Sealed
       /\ States' = States
       /\ Tied' <=> Tied
       /\ Restarting' <=> Restarting
  BY <1>4, CopiesIs DEF StoreInv
<1>12. CopiesWell(c)'
  <2>1. \A q \in Page : FrameOf(1..hdr[c].mxFrame, q)' = FrameOf(1..hdr[c].mxFrame, q)
    BY <1>1 DEF FrameOf
  <2>2. ASSUME NEW q \in Page, q \notin ckpt'.pages, ckpt'.iter[q] \in nBackfill' + 1..ckpt'.mxSafeFrame
        PROVE  db'[q] = log'.frames[ckpt'.iter[q]].data
    <3>1. CASE q = p
      BY <1>1, <1>2, <1>6, <1>8, <2>2, <3>1 DEF i
    <3>2. CASE q # p
      BY <1>1, <1>2, <1>10, <2>2, <3>2 DEF CopiesWell, Backfills
    <3> QED  BY <3>1, <3>2
  <2>3. at'[c] = "finish" => ckpt'.pages = {}
    BY <1>1, <1>2
  <2> QED  BY <1>1, <1>2, <2>1, <2>2, <2>3 DEF CopiesWell, Backfills
<1>13. BackInv'
  <2>1. /\ \A q \in Page : (\A f \in nBackfill + 1..header.mxFrame : aPgno[f] # q) => db[q] = Last(store)[q]
        /\ ~Restarting => nBackfill <= header.mxFrame
    BY <1>3 DEF StoreInv, BackInv
  <2>2. ASSUME NEW q \in Page, \A f \in nBackfill + 1..header.mxFrame : aPgno[f] # q
        PROVE  db'[q] = db[q]
    <3>1. CASE q = p
      <4>1. i \notin nBackfill + 1..ckpt.mxSafeFrame
        BY <1>3, <2>2, <3>1
      <4> QED  BY <1>6, <4>1
    <3> QED  BY <1>10, <3>1
  <2>3. ~(nBackfill >= header.mxFrame)
    BY <1>3
  <2> QED  BY <1>1, <1>11, <2>1, <2>2, <2>3 DEF BackInv, Last
<1>14. DiskInv'
  <2>1. ASSUME NEW s, NEW b, NEW e, Chain(s, b, e)  PROVE Durable(b, e)' /\ Linked(s, b, e)'
    <3>1. Linked(s, b, e)'
      BY <1>1, <1>2, <1>5, <1>11, <2>1 DEF Chain, Linked, Sure
    <3>2. Sure(b) \in b..Len(States) /\ e[Sure(b)] \in Nat
      BY <2>1, ChainRises DEF WalInv, StoreInv, Chain
    <3>3. ckpt.mxSafeFrame <= e[Sure(b)]
      BY <1>5, <2>1 DEF Chain, Linked
    <3>4. i \in nBackfill + 1..ckpt.mxSafeFrame => i \in 1..e[Sure(b)] /\ log.frames[i].page = p
      BY <1>3, <3>2, <3>3
    <3>5. ASSUME NEW q \in Page
          PROVE  \/ dbMay'[q] = {} /\ db'[q] = States[b][q]
                 \/ \E f \in 1..e[Sure(b)] : log.frames[f].page = q
      BY <1>6, <1>10, <2>1, <3>4 DEF Chain, Durable
    <3>6. Sure(b)' = Sure(b)
      BY <1>1 DEF Sure
    <3>7. Durable(b, e)'
      BY <1>1, <1>11, <2>1, <3>5, <3>6 DEF Chain, Durable
    <3> QED  BY <3>1, <3>7
  <2> QED  BY <1>1, <1>11, <2>1, ChainsKept DEF StoreInv
<1>15. /\ saltMay' \subseteq saltMay /\ DOMAIN logMay' = Frames
       /\ \A f \in Frames : logMay'[f] \subseteq logMay[f]
       /\ sure' \in 1..Len(store) /\ nBackfill <= nBackfill' /\ nBackfill' \in Nat
  BY <1>1, <1>3 DEF StoreInv, StoreTypes
<1> QED  BY <1>4, <1>9, <1>12, <1>13, <1>14, <1>15, CopiesKeeps

LEMMA FinishKeepsStore ==
  ASSUME WalInv, StoreInv, NEW c \in Connection, Finish(c)
  PROVE  StoreInv'
<1> USE DEF Moves, index, reading, history
<1>1. /\ at[c] = "finish" /\ CopiesWell(c)
      /\ at' = [at EXCEPT ![c] = "unlock"] /\ at'[c] = "unlock"
      /\ nBackfill' = ckpt.mxSafeFrame
      /\ dbMay' = IF ckpt.mxSafeFrame = header.mxFrame THEN [p \in Page |-> {}] ELSE dbMay
      /\ UNCHANGED <<header, aPgno, writer, hdr, readLock, minFrame, iFrame, log, logMay, saltMay,
                     db, ckpt,
                     transaction, store, sure>>
  BY DEF Finish, StoreInv, CopyInv, WalInv, WalTypes
<1>2. /\ ckpt.mxSafeFrame \in Nat /\ header.mxFrame \in Nat /\ nBackfill \in Nat /\ hdr[c].mxFrame \in Nat
      /\ header # None /\ hdr[c].mxFrame <= header.mxFrame /\ ckpt.mxSafeFrame <= hdr[c].mxFrame
      /\ nBackfill < header.mxFrame
  <2>1. CASE Page # {}
    BY <1>1, <2>1, IterIs DEF Backfills
  <2>2. header # None
    BY <1>1 DEF WalInv, PlaceInv
  <2> QED  BY <1>1, <2>2 DEF CopiesWell, Backfills, WalInv, CheckpointTypes, WalTypes, Header, SafeInv
<1>3. Copies(c)
  BY <1>1 DEF Copies, Checkpoints
<1>4. Copying
  BY <1>1 DEF Copying
<1>5. /\ Writing' <=> Writing
      /\ Sealed' <=> Sealed
      /\ States' = States
      /\ Tied' <=> Tied
      /\ Restarting' <=> Restarting
      /\ ~Copying'
  <2>1. \A d \in Connection : d # c => at'[d] \notin Checkpoints
    BY <1>3, CopiesIs DEF StoreInv
  <2>2. ~Copying'
    BY <1>1, <2>1 DEF Copying, Checkpoints
  <2> QED  BY <1>3, <2>2, CopiesIs DEF StoreInv
<1>6. nBackfill < ckpt.mxSafeFrame /\ ckpt.pages = {}
  BY <1>1 DEF CopiesWell, Backfills
<1>7. CopiesWell(c)'
  BY <1>1 DEF CopiesWell, Backfills
<1>8. BackInv'
  <2>1. ASSUME NEW p \in Page, \A f \in ckpt.mxSafeFrame + 1..header.mxFrame : aPgno[f] # p
        PROVE  db[p] = Last(store)[p]
    <3> DEFINE i == ckpt.iter[p]
    <3>1. /\ i \in 0..hdr[c].mxFrame /\ (i > 0 => aPgno[i] = p)
          /\ \A f \in 1..hdr[c].mxFrame : aPgno[f] = p => f <= i
      BY <1>1, IterIs DEF Backfills
    <3> HIDE DEF i
    <3>2. CASE i \in nBackfill + 1..ckpt.mxSafeFrame
      <4>1. db[p] = log.frames[i].data
        BY <1>1, <1>6, <3>2 DEF CopiesWell, Backfills, i
      <4>2. i \in 1..header.mxFrame /\ aPgno[i] = p /\ \A h \in i + 1..header.mxFrame : aPgno[h] # p
        BY <1>2, <2>1, <3>1, <3>2
      <4>3. header.mxFrame > 0
        BY <1>2
      <4> QED  BY <1>2, <4>1, <4>2, <4>3, LastIs
    <3>3. CASE i \notin nBackfill + 1..ckpt.mxSafeFrame
      <4>1. i <= nBackfill
        BY <1>2, <2>1, <3>1, <3>3
      <4>2. \A f \in nBackfill + 1..header.mxFrame : aPgno[f] # p
        BY <1>2, <2>1, <3>1, <4>1
      <4> QED  BY <1>2, <4>2 DEF StoreInv, BackInv
    <3> QED  BY <3>2, <3>3
  <2>2. ckpt.mxSafeFrame >= header.mxFrame => ckpt.mxSafeFrame = header.mxFrame
    BY <1>2
  <2>3. ckpt.mxSafeFrame <= header.mxFrame
    BY <1>2
  <2> QED  BY <1>1, <2>1, <2>2, <2>3 DEF BackInv, Last
<1>9. /\ dbMay' \in [Page -> SUBSET (0..transaction \cup {Torn})]
      /\ \A p \in Page : dbMay'[p] \subseteq dbMay[p]
  BY <1>1 DEF StoreInv, StoreTypes
<1>10. DiskInv'
  <2>1. ASSUME NEW s, NEW b, NEW e, Chain(s, b, e)  PROVE Durable(b, e)' /\ Linked(s, b, e)'
    <3>1. Linked(s, b, e)'
      BY <1>1, <1>5, <2>1 DEF Chain, Linked
    <3>2. Durable(b, e)'
      BY <1>1, <1>5, <1>9, <2>1 DEF Chain, Durable, Sure
    <3> QED  BY <3>1, <3>2
  <2> QED  BY <1>1, <1>5, <2>1, ChainsKept DEF StoreInv
<1>11. /\ saltMay' \subseteq saltMay /\ DOMAIN logMay' = Frames
       /\ \A f \in Frames : logMay'[f] \subseteq logMay[f]
       /\ sure' \in 1..Len(store) /\ nBackfill <= nBackfill' /\ nBackfill' \in Nat
       /\ db' \in [Page -> 0..transaction \cup {Torn}]
  BY <1>1, <1>2, <1>6 DEF StoreInv, StoreTypes
<1> QED  BY <1>3, <1>7, <1>8, <1>9, <1>10, <1>11, CopiesKeeps

-----------------------------------------------------------------------------
(***************************************************************************)
(* The writer, in front of its frames and behind them.                     *)
(***************************************************************************)

\* What a writer does leaves readers and checkpointers what they rely on, if it does not
\* touch the log up to the header's last frame.
LEMMA PenOthers ==
  ASSUME WalInv, StoreInv, NEW c \in Connection, at[c] \notin Checkpoints,
         at'[c] \notin Checkpoints,
         \A d \in Connection : d # c =>
           at'[d] = at[d] /\ hdr'[d] = hdr[d] /\ readLock'[d] = readLock[d] /\ minFrame'[d] = minFrame[d],
         UNCHANGED <<nBackfill, ckpt, db>>, header # None, header.mxFrame \in Nat,
         header'.mxFrame \in Nat,
         header.mxFrame <= header'.mxFrame,
         \A d \in Connection : d # c => at[d] # "wrote",
         \A f \in 1..header.mxFrame : aPgno'[f] = aPgno[f] /\ log'.frames[f] = log.frames[f],
         ReadsWell(c)'
  PROVE  /\ ReadInv' /\ CopyInv'
         /\ at[c] # "reset" /\ at'[c] # "reset" => (Copying' <=> Copying) /\ (Restarting' <=> Restarting)
<1> USE DEF StoreInv
<1>1. \A d \in Connection : hdr[d].mxFrame \in Nat
  BY DEF WalInv, WalTypes, Header
<1>2. ASSUME NEW d \in Connection, d # c  PROVE ReadsWell(d)'
  <2>1. ReadsWell(d)
    BY DEF ReadInv
  <2> QED  BY <1>1, <1>2, <2>1 DEF ReadsWell
<1>3. ASSUME NEW d \in Connection, d # c, at[d] \in Backfills  PROVE CopiesWell(d)'
  <2>1. CopiesWell(d) /\ hdr[d].mxFrame <= header.mxFrame
    BY <1>3 DEF CopyInv, CopiesWell
  <2>2. \A f \in 1..hdr[d].mxFrame : f \in 1..header.mxFrame
    BY <1>1, <2>1
  <2>3. ASSUME NEW p \in Page  PROVE FrameOf(1..hdr[d].mxFrame, p)' = FrameOf(1..hdr[d].mxFrame, p)
    <3>1. {f \in 1..hdr[d].mxFrame : aPgno'[f] = p} = {f \in 1..hdr[d].mxFrame : aPgno[f] = p}
      BY <2>2
    <3>2. {f \in 1..hdr'[d].mxFrame : aPgno'[f] = p} = {f \in 1..hdr[d].mxFrame : aPgno[f] = p}
      BY <1>3, <3>1
    <3> QED  BY <3>2, Zenon DEF FrameOf
  <2>4. ASSUME NEW p \in Page, ckpt.iter[p] \in nBackfill + 1..ckpt.mxSafeFrame
        PROVE  log'.frames[ckpt.iter[p]] = log.frames[ckpt.iter[p]]
    <3>1. ckpt.iter[p] \in 0..hdr[d].mxFrame /\ nBackfill \in Nat /\ ckpt.mxSafeFrame \in Nat
      BY <1>3, IterIs
    <3>2. ckpt.iter[p] \in 1..header.mxFrame
      BY <1>1, <2>1, <2>4, <3>1
    <3> QED  BY <3>2
  <2>5. hdr'[d].mxFrame = hdr[d].mxFrame /\ hdr[d].mxFrame <= header'.mxFrame
    BY <1>1, <1>3, <2>1
  <2> QED  BY <1>3, <2>1, <2>3, <2>4, <2>5 DEF CopiesWell
<1>4. ReadInv'
  BY <1>2 DEF ReadInv
<1>5. CopyInv'
  <2>1. ASSUME NEW d \in Connection, at'[d] \in Backfills  PROVE CopiesWell(d)'
    <3>1. d # c
      BY <2>1 DEF Backfills, Checkpoints
    <3> QED  BY <1>3, <2>1, <3>1
  <2> QED  BY <2>1 DEF CopyInv, CopiesWell
<1>6. ASSUME at[c] # "reset", at'[c] # "reset"  PROVE (Copying' <=> Copying) /\ (Restarting' <=> Restarting)
  BY <1>6 DEF Copying, Restarting, Checkpoints
<1> QED  BY <1>4, <1>5, <1>6

LEMMA BeginWriteKeepsStore ==
  ASSUME WalInv, StoreInv, NEW c \in Connection, BeginWrite(c)
  PROVE  StoreInv'
<1> USE DEF StoreInv
<1>1. /\ writer = None /\ writer' = c /\ header = hdr[c] /\ at[c] = "read"
      /\ at'[c] = "write" /\ \A d \in Connection : d # c => at'[d] = at[d]
      /\ transaction' = transaction + 1 /\ transaction \in Nat /\ transaction < MaxTransactions
      /\ UNCHANGED <<header, aPgno, nBackfill, hdr, readLock, minFrame, iFrame, ckpt, log, db,
                     logMay, saltMay, dbMay, store, sure>>
  BY DEF BeginWrite, Moves, index, reading, files, history, WalInv, WalTypes
<1>2. header # None /\ header \in Header /\ header.mxFrame \in Nat /\ header.mxFrame <= MaxFrame
  BY <1>1 DEF WalInv, PlaceInv, WalTypes, Header, StoreTypes
<1>3. ~Writing /\ ~Sealed /\ Writing' /\ ~Sealed'
  BY <1>1, WalAssumption DEF Writing, Sealed
<1>4. Top' = header.mxFrame
  BY <1>1 DEF Top
<1>5. \A d \in Connection : d # c => at[d] # "wrote"
  BY <1>1, WalAssumption DEF WalInv, PlaceInv, Writes
<1>6. ReadInv' /\ CopyInv' /\ (Copying' <=> Copying) /\ (Restarting' <=> Restarting)
  <2>1. ReadsWell(c)'
    <3>1. ReadsWell(c)
      BY DEF ReadInv
    <3> QED  BY <1>1, <3>1 DEF ReadsWell, Reads
  <2>2. header.mxFrame <= header'.mxFrame
    BY <1>1, <1>2
  <2> QED  BY <1>1, <1>2, <1>5, <2>1, <2>2, PenOthers DEF Checkpoints
<1>7. StoreTypes'
  <2>1. 0..transaction \subseteq 0..transaction'
    BY <1>1
  <2>2. \A S, T : S \subseteq T => [Page -> S] \subseteq [Page -> T]
    OBVIOUS
  <2>3. /\ db' \in [Page -> 0..transaction' \cup {Torn}]
        /\ dbMay' \in [Page -> SUBSET (0..transaction' \cup {Torn})]
        /\ \A i \in 1..Len(store') : store'[i] \in [Page -> 0..transaction']
    BY <1>1, <2>1, <2>2 DEF StoreTypes
  <2>4. transaction' <= MaxTransactions
    BY <1>1, WalAssumption
  <2> QED  BY <1>1, <2>3, <2>4 DEF StoreTypes, Writes
<1>8. \A f \in Frames : \A a \in Choices(f) : a # None =>
        /\ a \in Frame
        /\ 0 < a.data /\ a.data <= transaction /\ a.after <= transaction /\ a.salt <= transaction
        /\ a.data < transaction' /\ a.after < transaction' /\ a.salt < transaction'
  <2>1. \A f \in Frames : \A a \in Choices(f) : a # None => a \in Frame
    BY DEF StoreTypes, Choices
  <2> QED  BY <1>1, <2>1 DEF FrameInv, Frame
<1>9. \A f : Choices(f)' = Choices(f)
  BY <1>1 DEF Choices
<1>10. FrameInv' /\ Strict'
  <2>1. ASSUME NEW f \in Frames, NEW a \in Choices(f), a # None
        PROVE  a.data <= transaction' /\ a.after <= transaction' /\ a.salt <= transaction'
    BY <1>1, <1>8, <2>1 DEF Frame
  <2> QED  BY <1>1, <1>9, <2>1 DEF FrameInv, Strict
<1>11. DraftInv'
  <2>1. ASSUME NEW i \in 1..Len(store), NEW p \in Page  PROVE store[i][p] < transaction'
    <3>1. store[i][p] \in 0..transaction
      BY DEF StoreTypes
    <3> QED  BY <1>1, <3>1
  <2> QED  BY <1>1, <1>2, <1>3, <1>4, <1>8, <1>9, <2>1 DEF DraftInv
<1>12. header.mxFrame > 0 =>
         /\ header.salt = log.salt /\ log.salt # 0
         /\ ValidTo(log.salt, log.frames, header.mxFrame)
  <2>1. header.mxFrame > 0 => ValidTo(log.salt, log.frames, header.mxFrame)
    BY <1>2, LastIs
  <2> QED  BY <1>2, <2>1 DEF IndexInv, ValidTo
<1>13. PenInv'
  BY <1>1, <1>4, <1>8, <1>9, <1>12 DEF PenInv, Pens, Waits
<1>14. IndexInv'
  BY <1>1, <1>2 DEF IndexInv
<1>15. \A s : Empty(s)' <=> Empty(s)
  BY <1>9 DEF Empty, Chosen
<1>16. SaltInv'
  BY <1>1, <1>2, <1>15 DEF SaltInv, Pens
<1>17. Tied' <=> Tied
  BY <1>1, <1>3 DEF Tied, Pens
<1>18. EmptyInv'
  BY <1>1, <1>15, <1>17 DEF EmptyInv
<1>19. BackInv'
  BY <1>1, <1>6 DEF BackInv
<1>20. DiskInv'
  <2>1. States' = States
    BY <1>1, <1>3 DEF States
  <2>2. \A s, b, e : Chain(s, b, e) => Durable(b, e)' /\ Linked(s, b, e)'
    BY <1>1, <1>3, <1>6, <1>17, <2>1 DEF Chain, Linked, Durable, Sure
  <2> QED  BY <1>1, <2>1, <2>2, ChainsKept
<1> QED  BY <1>6, <1>7, <1>10, <1>11, <1>13, <1>14, <1>16, <1>18, <1>19, <1>20

\* Who is in a place of the writer's is the writer.
LEMMA WriterIs ==
  ASSUME WalInv, NEW c \in Connection, at[c] \in Writes
  PROVE  /\ writer = c /\ writer # None /\ header # None /\ header \in Header /\ header.mxFrame \in Nat
         /\ hdr[c] \in Header /\ hdr[c].mxFrame \in Nat /\ iFrame \in Nat /\ transaction \in Nat
         /\ \A d \in Connection : d # c => at[d] \notin Writes
         /\ at[c] \notin Checkpoints
BY WalAssumption DEF WalInv, PlaceInv, WalTypes, Header, Writes, Checkpoints

\* A writer that goes on behind the others' frames.
LEMMA AfterOthersKeepsStore ==
  ASSUME WalInv, StoreInv, NEW c \in Connection, AfterOthers(c)
  PROVE  StoreInv'
<1> USE DEF StoreInv
<1>1. /\ at[c] = "log" /\ at'[c] = "frames" /\ \A d \in Connection : d # c => at'[d] = at[d]
      /\ hdr[c].mxFrame > 0 /\ iFrame' = hdr[c].mxFrame
      /\ UNCHANGED <<header, aPgno, nBackfill, writer, hdr, readLock, minFrame, ckpt, log, db,
                     logMay, saltMay, dbMay,
                     transaction, store, sure>>
  BY DEF AfterOthers, Moves, index, reading, files, history, WalInv, WalTypes
<1>2. /\ writer = c /\ writer # None /\ header # None /\ header.mxFrame \in Nat /\ hdr[c].mxFrame \in Nat
      /\ \A d \in Connection : d # c => at[d] \notin Writes
  BY <1>1, WriterIs DEF Writes
<1>3. Writing /\ Writing' /\ ~Sealed /\ ~Sealed' /\ Top' = Top /\ Top = hdr[c].mxFrame
  BY <1>1, <1>2 DEF Writing, Sealed, Top
<1>4. ReadInv' /\ CopyInv' /\ (Copying' <=> Copying) /\ (Restarting' <=> Restarting)
  <2>1. ReadsWell(c)'
    <3>1. ReadsWell(c)
      BY DEF ReadInv
    <3> QED  BY <1>1, <3>1 DEF ReadsWell, Reads, Writes
  <2>2. header.mxFrame <= header'.mxFrame
    BY <1>1, <1>2
  <2> QED  BY <1>1, <1>2, <2>1, <2>2, PenOthers DEF Checkpoints, Writes
<1>5. StoreTypes'
  BY <1>1, <1>2 DEF StoreTypes, Writes
<1>6. \A f : Choices(f)' = Choices(f)
  BY <1>1 DEF Choices
<1>7. FrameInv' /\ Strict'
  BY <1>1, <1>6 DEF FrameInv, Strict
<1>8. DraftInv'
  BY <1>1, <1>3, <1>6 DEF DraftInv
<1>9. PenInv'
  BY <1>1, <1>2, <1>3, <1>6 DEF PenInv, Pens, Waits
<1>10. IndexInv'
  BY <1>1, <1>3 DEF IndexInv
<1>11. \A s : Empty(s)' <=> Empty(s)
  BY <1>6 DEF Empty, Chosen
<1>12. SaltInv'
  BY <1>1, <1>2, <1>3, <1>11 DEF SaltInv
<1>13. Tied' <=> Tied
  BY <1>1, <1>2, <1>3 DEF Tied
<1>14. EmptyInv' /\ BackInv'
  BY <1>1, <1>4, <1>11, <1>13 DEF EmptyInv, BackInv
<1>15. DiskInv'
  <2>1. States' = States
    BY <1>1, <1>3 DEF States
  <2>2. \A s, b, e : Chain(s, b, e) => Durable(b, e)' /\ Linked(s, b, e)'
    BY <1>1, <1>3, <1>4, <1>13, <2>1 DEF Chain, Linked, Durable, Sure
  <2> QED  BY <1>1, <2>1, <2>2, ChainsKept
<1> QED  BY <1>4, <1>5, <1>7, <1>8, <1>9, <1>10, <1>12, <1>14, <1>15

\* The wal-index tells of what was appended; the rest of it stays.
LEMMA AppendIndexKeepsStore ==
  ASSUME WalInv, StoreInv, NEW c \in Connection, AppendIndex(c)
  PROVE  StoreInv'
<1> USE DEF StoreInv
<1>1. /\ at[c] = "append" /\ \A d \in Connection : d # c => at'[d] = at[d] /\ hdr'[d] = hdr[d]
      /\ at'[c] = IF log.frames[iFrame].commit THEN "publish" ELSE "write"
      /\ aPgno' = [f \in Frames |-> IF f <= hdr[c].mxFrame THEN aPgno[f]
                                    ELSE IF f <= iFrame THEN log.frames[f].page ELSE None]
      /\ hdr'[c].mxFrame = iFrame /\ hdr'[c].salt = hdr[c].salt
      /\ UNCHANGED <<header, nBackfill, writer, readLock, minFrame, iFrame, ckpt, log, db, logMay,
                     saltMay, dbMay,
                     transaction, store, sure>>
  BY DEF AppendIndex, Moves, index, reading, files, history, WalInv, WalTypes, Header
<1>2. /\ writer = c /\ writer # None /\ header # None /\ header.mxFrame \in Nat /\ hdr[c].mxFrame \in Nat
      /\ iFrame \in Nat /\ \A d \in Connection : d # c => at[d] \notin Writes
  BY <1>1, WriterIs DEF Writes
<1>3. Writing /\ Writing' /\ (Sealed' <=> Sealed) /\ Top' = Top /\ Top = iFrame
  BY <1>1, <1>2 DEF Writing, Sealed, Top
<1>4. header.mxFrame < iFrame /\ hdr[c].salt = log.salt /\ log.salt # 0 /\ header.mxFrame <= hdr[c].mxFrame
      /\ iFrame <= MaxFrame
  BY <1>1, <1>2, <1>3 DEF PenInv, Pens, WalInv, WriterInv, Appends, StoreTypes
<1>5. \A f \in 1..hdr[c].mxFrame : log.frames[f] # None /\ aPgno[f] = log.frames[f].page
  BY <1>2, <1>3 DEF IndexInv
<1>6. \A f \in 1..iFrame : f \in Frames /\ log.frames[f] # None /\ aPgno'[f] = log.frames[f].page
  <2>1. ASSUME NEW f \in 1..iFrame  PROVE f \in Frames /\ log.frames[f] # None
    <3>1. ValidTo(log.salt, log.frames, iFrame)
      BY <1>2, <1>3, <1>4 DEF PenInv
    <3>2. f \in Frames
      BY <1>2, <1>4, WalAssumption DEF Frames
    <3> QED  BY <3>1, <3>2 DEF ValidTo
  <2>2. ASSUME NEW f \in 1..iFrame, f <= hdr[c].mxFrame  PROVE aPgno'[f] = log.frames[f].page
    <3>1. f \in 1..hdr[c].mxFrame
      BY <1>2, <2>2
    <3> QED  BY <1>1, <1>5, <2>1, <2>2, <3>1
  <2>3. ASSUME NEW f \in 1..iFrame, ~(f <= hdr[c].mxFrame)  PROVE aPgno'[f] = log.frames[f].page
    BY <1>1, <2>1, <2>3
  <2> QED  BY <2>1, <2>2, <2>3
<1>7. \A f \in 1..header.mxFrame : aPgno'[f] = aPgno[f]
  <2>1. \A f \in 1..header.mxFrame : f \in 1..hdr[c].mxFrame /\ f \in 1..iFrame
    BY <1>2, <1>4
  <2> QED  BY <1>5, <1>6, <2>1
<1>8. ReadInv' /\ CopyInv' /\ (Copying' <=> Copying) /\ (Restarting' <=> Restarting)
  <2>1. ReadsWell(c)'
    <3>1. ReadsWell(c)
      BY DEF ReadInv
    <3> QED  BY <1>1, <3>1 DEF ReadsWell, Reads, Writes
  <2>2. header.mxFrame <= header'.mxFrame
    BY <1>1, <1>2
  <2> QED  BY <1>1, <1>2, <1>7, <2>1, <2>2, PenOthers DEF Checkpoints, Writes
<1>9. StoreTypes'
  <2>1. \A d \in Connection : hdr'[d].mxFrame <= MaxFrame
    BY <1>1, <1>4 DEF StoreTypes
  <2>2. DOMAIN aPgno' = Frames
    BY <1>1
  <2> QED  BY <1>1, <1>2, <2>1, <2>2 DEF StoreTypes, Writes
<1>10. \A f : Choices(f)' = Choices(f)
  BY <1>1 DEF Choices
<1>11. FrameInv' /\ Strict'
  BY <1>1, <1>10 DEF FrameInv, Strict
<1>12. DraftInv'
  BY <1>1, <1>3, <1>10 DEF DraftInv
<1>13. PenInv'
  BY <1>1, <1>2, <1>3, <1>4, <1>10 DEF PenInv, Pens, Waits
<1>14. IndexInv'
  <2>1. header.mxFrame > 0 => header.salt = log.salt
    BY <1>2 DEF IndexInv
  <2>2. \A f \in 1..header.mxFrame : f \in 1..iFrame
    BY <1>2, <1>4
  <2> QED  BY <1>1, <1>2, <1>3, <1>6, <2>1, <2>2 DEF IndexInv
<1>15. \A s : Empty(s)' <=> Empty(s)
  BY <1>10 DEF Empty, Chosen
<1>16. SaltInv'
  BY <1>1, <1>2, <1>3, <1>15 DEF SaltInv, Pens
<1>17. Tied' /\ Tied
  BY <1>1, <1>2, <1>3, <1>4 DEF Tied, Pens
<1>18. EmptyInv' /\ BackInv'
  <2>1. BackInv'
    <3>1. \A p \in Page : (\A f \in nBackfill + 1..header.mxFrame : aPgno'[f] # p)
                            => \A f \in nBackfill + 1..header.mxFrame : aPgno[f] # p
      <4>1. nBackfill \in Nat
        BY DEF WalInv, WalTypes
      <4> QED  BY <1>2, <1>7, <4>1
    <3> QED  BY <1>1, <1>8, <3>1 DEF BackInv
  <2> QED  BY <1>17, <2>1 DEF EmptyInv
<1>19. DiskInv'
  <2>1. States' = States
    <3>1. Draft' = Draft
      BY <1>1 DEF Draft, Logged, Last
    <3> QED  BY <1>1, <1>3, <3>1 DEF States
  <2>2. \A s, b, e : Chain(s, b, e) => Durable(b, e)' /\ Linked(s, b, e)'
    BY <1>1, <1>3, <1>8, <1>17, <2>1 DEF Chain, Linked, Durable, Sure
  <2> QED  BY <1>1, <2>1, <2>2, ChainsKept
<1> QED  BY <1>8, <1>9, <1>11, <1>12, <1>13, <1>14, <1>16, <1>18, <1>19

\* A transaction committed is a state of its own.
LEMMA DraftIsNew ==
  ASSUME WalInv, StoreInv, Sealed
  PROVE  \E p \in Page : Draft[p] = transaction /\ \A i \in 1..Len(store) : store[i][p] < transaction
<1> USE DEF StoreInv
<1>1. /\ Writing /\ at[writer] \in {"append", "publish"} /\ Top = iFrame /\ header.mxFrame < iFrame
      /\ iFrame <= MaxFrame /\ header # None
  BY DEF Sealed, Top, PenInv, StoreTypes, WalInv, PlaceInv, Writing
<1>2. iFrame \in Nat /\ header.mxFrame \in Nat /\ transaction \in Nat
  BY <1>1 DEF WalInv, WalTypes, Header
<1>3. iFrame \in header.mxFrame + 1..Top /\ iFrame \in Frames
  BY <1>1, <1>2, WalAssumption DEF Frames
<1>4. log.frames[iFrame] # None /\ log.frames[iFrame].data = transaction
  BY <1>1, <1>3 DEF DraftInv
<1>5. log.frames[iFrame].page \in Page
  BY <1>2, <1>3, <1>4, FrameData
<1>6. log.frames[iFrame].page \in Logged
  BY <1>3, <1>4, <1>5 DEF Logged
<1>7. \A i \in 1..Len(store), p \in Page : store[i][p] < transaction
  BY <1>1 DEF DraftInv
<1> QED  BY <1>5, <1>6, <1>7 DEF Draft

LEMMA PublishKeepsStore ==
  ASSUME WalInv, StoreInv, NEW c \in Connection, Publish(c)
  PROVE  StoreInv'
<1> USE DEF StoreInv
<1>1. /\ at[c] = "publish" /\ at'[c] = "wrote"
      /\ \A d \in Connection : d # c => at'[d] = at[d] /\ hdr'[d] = hdr[d]
      /\ hdr'[c] = header' /\ header'.mxFrame = hdr[c].mxFrame /\ header'.salt = hdr[c].salt
      /\ iFrame' = 0 /\ store' = Append(store, Draft)
      /\ header' = [hdr[c] EXCEPT !.iChange = @ + 1]
      /\ UNCHANGED <<aPgno, nBackfill, writer, readLock, minFrame, ckpt, log, db, logMay, saltMay,
                     dbMay,
                     transaction, sure>>
  BY DEF Publish, Moves, Set, files, WalInv, WalTypes, Header
<1>2. /\ writer = c /\ writer # None /\ header # None /\ header.mxFrame \in Nat /\ hdr[c].mxFrame \in Nat
      /\ hdr[c] \in Header /\ iFrame \in Nat /\ transaction \in Nat
      /\ \A d \in Connection : d # c => at[d] \notin Writes
  BY <1>1, WriterIs DEF Writes
<1>3. Writing /\ ~Writing' /\ ~Sealed' /\ Top = iFrame
  BY <1>1, <1>2 DEF Writing, Sealed, Top
<1>4. header.mxFrame < iFrame /\ hdr[c].salt = log.salt /\ log.salt # 0 /\ hdr[c].mxFrame = iFrame
      /\ Sealed /\ iFrame <= MaxFrame
  BY <1>1, <1>2, <1>3 DEF PenInv, Pens, Sealed, StoreTypes
<1>5. header' # None
  <2>1. header' \in Header
    BY <1>1, <1>2 DEF Header
  <2> QED  BY <2>1, WalAssumption DEF Header
<1>6. States' = States /\ Len(store') = Len(States) /\ Last(store') = Draft
  BY <1>1, <1>3, <1>4, StatesAre DEF States, Last, WalInv
<1>7. \A f \in 1..iFrame : log.frames[f] # None /\ aPgno[f] = log.frames[f].page
  BY <1>2, <1>3, <1>4 DEF IndexInv
<1>8. ReadInv' /\ CopyInv' /\ (Copying' <=> Copying) /\ (Restarting' <=> Restarting)
  <2>1. ReadsWell(c)'
    <3>1. ReadsWell(c)
      BY DEF ReadInv
    <3> QED  BY <1>1, <3>1 DEF ReadsWell, Reads, Writes
  <2>2. header.mxFrame <= header'.mxFrame /\ header'.mxFrame \in Nat
    BY <1>1, <1>2, <1>4
  <2> QED  BY <1>1, <1>2, <2>1, <2>2, PenOthers DEF Checkpoints, Writes
<1>9. /\ Len(store) \in Nat /\ Len(store') = Len(store) + 1
      /\ \A i \in 1..Len(store) : store'[i] = store[i]
      /\ store'[Len(store) + 1] = Draft
      /\ Draft \in [Page -> 0..transaction]
  BY <1>1, <1>2, <1>4, <1>6, StatesAre, StatesTyped DEF States, WalInv
<1>10. \A i \in 1..Len(store') : i \in 1..Len(store) \/ i = Len(store) + 1
  BY <1>9
<1>11. StoreTypes'
  <2>1. \A i \in 1..Len(store') : store'[i] \in [Page -> 0..transaction]
    BY <1>9, <1>10 DEF StoreTypes
  <2>2. sure \in 1..Len(store')
    BY <1>9 DEF StoreTypes
  <2>3. \A d \in Connection : hdr'[d].mxFrame <= MaxFrame
    BY <1>1, <1>4 DEF StoreTypes
  <2>4. iFrame' <= MaxFrame /\ header'.mxFrame <= MaxFrame
    BY <1>1, <1>4, WalAssumption
  <2> QED  BY <1>1, <1>2, <2>1, <2>2, <2>3, <2>4 DEF StoreTypes, Writes
<1>12. \A f : Choices(f)' = Choices(f)
  BY <1>1 DEF Choices
<1>13. FrameInv'
  BY <1>1, <1>12 DEF FrameInv
<1>14. Strict'
  <2>1. \A i \in 1..Len(store) : store[i] # Draft
    <3>1. PICK p \in Page : Draft[p] = transaction /\ \A i \in 1..Len(store) : store[i][p] < transaction
      BY <1>4, DraftIsNew
    <3> QED  BY <1>2, <3>1
  <2>2. ASSUME NEW i \in 1..Len(store'), NEW j \in 1..Len(store'), i < j  PROVE store'[i] # store'[j]
    <3>1. i \in 1..Len(store)
      BY <1>9, <2>2
    <3> QED  BY <1>9, <1>10, <2>1, <2>2, <3>1 DEF Strict
  <2> QED  BY <2>2 DEF Strict
<1>15. DraftInv' /\ PenInv'
  BY <1>3 DEF DraftInv, PenInv
<1>16. IndexInv'
  BY <1>1, <1>3, <1>4, <1>7 DEF IndexInv
<1>17. \A s : Empty(s)' <=> Empty(s)
  BY <1>12 DEF Empty, Chosen
<1>18. SaltInv'
  BY <1>1, <1>2, <1>3, <1>17 DEF SaltInv, Pens
<1>19. Tied' /\ Tied /\ EmptyInv'
  BY <1>1, <1>2, <1>3, <1>4, <1>5 DEF Tied, Pens, EmptyInv
<1>20. BackInv'
  <2>1. nBackfill \in Nat /\ nBackfill <= header.mxFrame
    <3>1. ~Restarting
      BY <1>1, <1>2 DEF Restarting, Writes
    <3> QED  BY <1>2, <3>1 DEF BackInv, WalInv, WalTypes
  <2>2. ASSUME NEW p \in Page, \A f \in nBackfill + 1..iFrame : aPgno[f] # p  PROVE db[p] = Draft[p]
    <3>1. \A f \in nBackfill + 1..header.mxFrame : aPgno[f] # p
      BY <1>2, <1>4, <2>1, <2>2
    <3>2. db[p] = Last(store)[p]
      BY <1>2, <3>1 DEF BackInv
    <3>3. p \notin Logged
      <4>1. SUFFICES ASSUME NEW f \in Frames, log.frames[f] # None, log.frames[f].data = transaction,
                            log.frames[f].page = p  PROVE FALSE
        BY DEF Logged
      <4>2. log.frames[f] \in Choices(f)
        BY DEF Choices
      <4>3. ~(f <= header.mxFrame \/ iFrame < f)
        BY <1>2, <1>3, <4>1, <4>2 DEF DraftInv
      <4>4. f \in nBackfill + 1..iFrame /\ f \in 1..iFrame
        BY <1>2, <2>1, <4>3, WalAssumption DEF Frames
      <4> QED  BY <1>7, <2>2, <4>1, <4>4
    <3> QED  BY <3>2, <3>3 DEF Draft
  <2>3. nBackfill <= iFrame /\ ~(nBackfill >= iFrame)
    BY <1>2, <1>4, <2>1
  <2> QED  BY <1>1, <1>4, <1>6, <2>2, <2>3 DEF BackInv
<1>21. DiskInv'
  <2>1. \A s, b, e : Chain(s, b, e) => Durable(b, e)' /\ Linked(s, b, e)'
    BY <1>1, <1>3, <1>4, <1>6, <1>8 DEF Chain, Linked, Durable, Sure
  <2> QED  BY <1>1, <1>6, <2>1, ChainsKept
<1> QED  BY <1>8, <1>11, <1>13, <1>14, <1>15, <1>16, <1>18, <1>19, <1>20, <1>21

\* Where the last state of a chain has no frames, no commit is found.
LEMMA NoneFound ==
  ASSUME HistoryInv, StoreTypes, NEW s, NEW b, NEW e, Chain(s, b, e), e[Len(States)] = 0
  PROVE  Empty(s)
<1>1. /\ b \in 1..Len(States) /\ Len(States) \in Nat /\ b \in Nat
      /\ \A i \in b..Len(States) : e[i] = 0 => i = b
  BY ChainRises DEF Chain
<1>2. Len(States) = b
  BY <1>1
<1>3. \A i \in b..Len(States) : e[i] = 0
  BY <1>1, <1>2
<1>4. \A m \in Frames : m # 0
  BY WalAssumption DEF Frames
<1> QED  BY <1>3, <1>4 DEF Chain, Found, Empty

LEMMA UndoKeepsStore ==
  ASSUME WalInv, StoreInv, NEW c \in Connection, Undo(c)
  PROVE  StoreInv'
<1> USE DEF StoreInv
<1>1. /\ at[c] \in {"write", "frames"} /\ at'[c] = "wrote"
      /\ \A d \in Connection : d # c => at'[d] = at[d] /\ hdr'[d] = hdr[d]
      /\ hdr'[c] = header /\ iFrame' = 0
      /\ aPgno' = [f \in Frames |-> IF header.mxFrame # 0 /\ header.mxFrame # hdr[c].mxFrame
                                       /\ f > header.mxFrame
                                    THEN None ELSE aPgno[f]]
      /\ UNCHANGED <<header, nBackfill, writer, readLock, minFrame, ckpt, log, db, logMay,
                     saltMay, dbMay,
                     transaction, store, sure>>
  BY DEF Undo, Moves, Set, files, history, WalInv, WalTypes
<1>2. /\ writer = c /\ writer # None /\ header # None /\ header.mxFrame \in Nat /\ hdr[c].mxFrame \in Nat
      /\ \A d \in Connection : d # c => at[d] \notin Writes
  BY <1>1, WriterIs DEF Writes
<1>3. Writing /\ ~Writing' /\ ~Sealed' /\ ~Sealed
  BY <1>1, <1>2 DEF Writing, Sealed
<1>4. States' = States /\ States = store
  BY <1>1, <1>3 DEF States
<1>5. header.mxFrame <= MaxFrame
  BY <1>2 DEF StoreTypes
<1>6. \A f \in 1..header.mxFrame : aPgno'[f] = aPgno[f]
  <2>1. \A f \in 1..header.mxFrame : f \in Frames /\ ~(f > header.mxFrame)
    BY <1>2, <1>5, WalAssumption DEF Frames
  <2> QED  BY <1>1, <2>1
<1>7. ReadInv' /\ CopyInv' /\ (Copying' <=> Copying) /\ (Restarting' <=> Restarting)
  <2>1. ReadsWell(c)'
    <3>1. ReadsWell(c)
      BY DEF ReadInv
    <3> QED  BY <1>1, <3>1 DEF ReadsWell, Reads, Writes
  <2>2. header.mxFrame <= header'.mxFrame /\ header'.mxFrame \in Nat
    BY <1>1, <1>2
  <2> QED  BY <1>1, <1>2, <1>6, <2>1, <2>2, PenOthers DEF Checkpoints, Writes
<1>8. StoreTypes'
  <2>1. \A d \in Connection : hdr'[d].mxFrame <= MaxFrame
    BY <1>1, <1>5 DEF StoreTypes
  <2>2. iFrame' <= MaxFrame /\ DOMAIN aPgno' = Frames
    BY <1>1, WalAssumption
  <2> QED  BY <1>1, <1>2, <2>1, <2>2 DEF StoreTypes, Writes
<1>9. \A f : Choices(f)' = Choices(f)
  BY <1>1 DEF Choices
<1>10. FrameInv' /\ Strict'
  BY <1>1, <1>9 DEF FrameInv, Strict
<1>11. DraftInv' /\ PenInv'
  BY <1>3 DEF DraftInv, PenInv
<1>12. IndexInv'
  BY <1>1, <1>3, <1>6 DEF IndexInv
<1>13. \A s : Empty(s)' <=> Empty(s)
  BY <1>9 DEF Empty, Chosen
<1>14. SaltInv'
  BY <1>1, <1>3, <1>13 DEF SaltInv
<1>15. Tied' <=> header.mxFrame > 0
  BY <1>1, <1>2, <1>3 DEF Tied
<1>16. EmptyInv'
  <2>1. SUFFICES ASSUME header.mxFrame = 0, header.salt # 0  PROVE Empty(header.salt)
    BY <1>1, <1>13 DEF EmptyInv
  <2>2. CASE ~Tied
    BY <1>2, <2>1, <2>2 DEF EmptyInv
  <2>3. CASE Tied
    <3>1. header.salt = log.salt
      BY <1>2, <1>3, <2>1, <2>3 DEF Tied, PenInv
    <3>2. PICK b, e : Chain(log.salt, b, e)
      <4>1. log.salt \in Salts
        BY DEF Salts
      <4> QED  BY <4>1 DEF DiskInv
    <3>3. e[Len(States)] = 0
      BY <1>2, <1>4, <2>1, <2>3, <3>2, TiedChain DEF WalInv
    <3> QED  BY <3>1, <3>2, <3>3, NoneFound DEF WalInv
  <2> QED  BY <2>2, <2>3
<1>17. BackInv'
  <2>1. \A p \in Page : (\A f \in nBackfill + 1..header.mxFrame : aPgno'[f] # p)
                          => \A f \in nBackfill + 1..header.mxFrame : aPgno[f] # p
    <3>1. nBackfill \in Nat
      BY DEF WalInv, WalTypes
    <3> QED  BY <1>2, <1>6, <3>1
  <2> QED  BY <1>1, <1>7, <2>1 DEF BackInv
<1>18. DiskInv'
  <2>1. Tied' => Tied
    BY <1>2, <1>15 DEF Tied
  <2>2. \A s, b, e : Chain(s, b, e) => Durable(b, e)' /\ Linked(s, b, e)'
    BY <1>1, <1>3, <1>4, <1>7, <2>1 DEF Chain, Linked, Durable, Sure
  <2> QED  BY <1>1, <1>4, <2>2, ChainsKept
<1> QED  BY <1>7, <1>8, <1>10, <1>11, <1>12, <1>14, <1>16, <1>17, <1>18

LEMMA EndWriteKeepsStore ==
  ASSUME WalInv, StoreInv, NEW c \in Connection, EndWrite(c)
  PROVE  StoreInv'
<1> USE DEF StoreInv
<1>1. /\ at[c] = "wrote" /\ at'[c] = "read" /\ \A d \in Connection : d # c => at'[d] = at[d]
      /\ writer' = None
      /\ UNCHANGED <<header, aPgno, nBackfill, hdr, readLock, minFrame, iFrame, ckpt, log, db,
                     logMay, saltMay, dbMay,
                     transaction, store, sure>>
  BY DEF EndWrite, Moves, index, reading, files, history, WalInv, WalTypes
<1>2. /\ writer = c /\ writer # None /\ header # None /\ header.mxFrame \in Nat /\ hdr[c].mxFrame \in Nat
      /\ \A d \in Connection : d # c => at[d] \notin Writes
  BY <1>1, WriterIs DEF Writes
<1>3. ~Writing /\ ~Writing' /\ ~Sealed' /\ ~Sealed
  BY <1>1, <1>2 DEF Writing, Sealed
<1>4. States' = States /\ (Tied' <=> Tied)
  BY <1>1, <1>3 DEF States, Tied
<1>5. ReadInv' /\ CopyInv' /\ (Copying' <=> Copying) /\ (Restarting' <=> Restarting)
  <2>1. ReadsWell(c)'
    <3>1. ReadsWell(c)
      BY DEF ReadInv
    <3> QED  BY <1>1, <1>2, <3>1 DEF ReadsWell, Reads, Writes
  <2>2. header.mxFrame <= header'.mxFrame
    BY <1>1, <1>2
  <2> QED  BY <1>1, <1>2, <2>1, <2>2, PenOthers DEF Checkpoints, Writes
<1>6. StoreTypes'
  BY <1>1 DEF StoreTypes
<1>7. \A f : Choices(f)' = Choices(f)
  BY <1>1 DEF Choices
<1>8. FrameInv' /\ Strict' /\ DraftInv' /\ PenInv'
  BY <1>1, <1>3, <1>7 DEF FrameInv, Strict, DraftInv, PenInv
<1>9. \A s : Empty(s)' <=> Empty(s)
  BY <1>7 DEF Empty, Chosen
<1>10. IndexInv' /\ SaltInv' /\ EmptyInv' /\ BackInv'
  BY <1>1, <1>3, <1>4, <1>5, <1>9 DEF IndexInv, SaltInv, EmptyInv, BackInv
<1>11. DiskInv'
  <2>1. \A s, b, e : Chain(s, b, e) => Durable(b, e)' /\ Linked(s, b, e)'
    BY <1>1, <1>3, <1>4, <1>5 DEF Chain, Linked, Durable, Sure
  <2> QED  BY <1>1, <1>4, <2>1, ChainsKept
<1> QED  BY <1>5, <1>6, <1>8, <1>10, <1>11

-----------------------------------------------------------------------------
(***************************************************************************)
(* A log begun anew.                                                       *)
(***************************************************************************)

\* A writer that starts the log anew has all of it in the file; others go on.
LEMMA RestartLogKeepsStore ==
  ASSUME WalInv, StoreInv, NEW c \in Connection, RestartLog(c)
  PROVE  StoreInv'
<1> USE DEF StoreInv
<1>1. /\ at[c] = "write" /\ \A d \in Connection : d # c => at'[d] = at[d]
      /\ \A n : at' = [at EXCEPT ![c] = n] => at'[c] = n
      /\ UNCHANGED <<aPgno, nBackfill, writer, minFrame, iFrame, ckpt, log, db, logMay, saltMay,
                     dbMay,
                     transaction, store, sure>>
  BY DEF RestartLog, Moves, files, history, WalInv, WalTypes
<1>2. /\ writer = c /\ writer # None /\ header # None /\ header \in Header /\ header.mxFrame \in Nat
      /\ hdr[c] \in Header /\ hdr[c].mxFrame \in Nat /\ transaction \in Nat
      /\ \A d \in Connection : d # c => at[d] \notin Writes
  BY <1>1, WriterIs DEF Writes
<1>3. Writing /\ ~Sealed /\ Top = hdr[c].mxFrame
  BY <1>1, <1>2 DEF Writing, Sealed, Top
<1>4. \A f : Choices(f)' = Choices(f)
  BY <1>1 DEF Choices
<1>5. \A s : Empty(s)' <=> Empty(s)
  BY <1>4 DEF Empty, Chosen
<1>6. FrameInv' /\ Strict'
  BY <1>1, <1>4 DEF FrameInv, Strict
<1>7. ASSUME UNCHANGED <<header, hdr>>, at'[c] \in {"log",
                                                    "mark"}, at'[c] = "mark" => header = hdr[c],
             \A d \in Connection : d # c \/ at'[c] = "log" => readLock'[d] = readLock[d]
      PROVE  StoreInv'
  <2>1. Writing' /\ ~Sealed' /\ Top' = Top
    BY <1>1, <1>2, <1>3, <1>7 DEF Writing, Sealed, Top
  <2>2. ReadInv' /\ CopyInv' /\ (Copying' <=> Copying) /\ (Restarting' <=> Restarting)
    <3>1. ReadsWell(c)'
      <4>1. ReadsWell(c)
        BY DEF ReadInv
      <4> QED  BY <1>1, <1>7, <4>1 DEF ReadsWell, Reads, Writes
    <3>2. header.mxFrame <= header'.mxFrame /\ header'.mxFrame \in Nat
      BY <1>2, <1>7
    <3> QED  BY <1>1, <1>2, <1>7, <3>1, <3>2, PenOthers DEF Checkpoints, Writes
  <2>3. StoreTypes'
    BY <1>1, <1>2, <1>7 DEF StoreTypes, Writes, Waits
  <2>4. DraftInv'
    BY <1>1, <1>2, <1>3, <1>4, <1>7, <2>1 DEF DraftInv
  <2>5. PenInv'
    BY <1>1, <1>2, <1>3, <1>4, <1>7, <2>1 DEF PenInv, Pens, Waits
  <2>6. IndexInv'
    BY <1>1, <1>2, <1>3, <1>7, <2>1 DEF IndexInv
  <2>7. SaltInv'
    BY <1>1, <1>2, <1>3, <1>5, <1>7, <2>1 DEF SaltInv, Pens
  <2>8. Tied' <=> Tied
    BY <1>1, <1>2, <1>3, <1>7, <2>1 DEF Tied, Pens
  <2>9. EmptyInv' /\ BackInv'
    BY <1>1, <1>5, <1>7, <2>2, <2>8 DEF EmptyInv, BackInv
  <2>10. DiskInv'
    <3>1. States' = States
      BY <1>1, <1>3, <2>1 DEF States
    <3>2. \A s, b, e : Chain(s, b, e) => Durable(b, e)' /\ Linked(s, b, e)'
      BY <1>1, <1>3, <1>7, <2>1, <2>2, <2>8, <3>1 DEF Chain, Linked, Durable, Sure
    <3> QED  BY <1>1, <3>1, <3>2, ChainsKept
  <2> QED  BY <1>6, <2>2, <2>3, <2>4, <2>5, <2>6, <2>7, <2>9, <2>10
<1>8. CASE readLock[c] > 0 /\ Moves(c, "write", "log") /\ UNCHANGED <<header, hdr, readLock>>
  <2>1. at'[c] = "log"
    BY <1>1, <1>8 DEF Moves
  <2> QED  BY <1>7, <1>8, <2>1
<1>9. CASE /\ readLock[c] = 0 /\ Moves(c, "write", "mark")
           /\ readLock' = Set(readLock, c, -1) /\ UNCHANGED <<header, hdr>>
  <2>1. at'[c] = "mark" /\ \A d \in Connection : d # c => readLock'[d] = readLock[d]
    BY <1>1, <1>9 DEF Moves, Set, WalInv, WalTypes
  <2>2. header = hdr[c]
    BY <1>1, <1>9 DEF WalInv, WriterInv
  <2> QED  BY <1>7, <1>9, <2>1, <2>2
<1>10. CASE /\ readLock[c] = 0 /\ nBackfill > 0 /\ \A i \in Marks : MayExclude(i)
            /\ Moves(c, "write", "reset")
            /\ header' = [hdr[c] EXCEPT !.salt = transaction, !.mxFrame = 0]
            /\ hdr' = Set(hdr, c, header') /\ UNCHANGED readLock
  <2>1. at'[c] = "reset" /\ readLock' = readLock
    BY <1>1, <1>10 DEF Moves
  <2>2. /\ header'.salt = transaction /\ header'.mxFrame = 0 /\ header' \in Header /\ header' # None
        /\ hdr'[c] = header' /\ \A d \in Connection : d # c => hdr'[d] = hdr[d]
    <3>1. header'.salt = transaction /\ header'.mxFrame = 0 /\ header' \in Header
      BY <1>2, <1>10 DEF Header
    <3> QED  BY <1>10, <3>1, WalAssumption DEF Set, Header, WalInv, WalTypes
  <2>3. /\ header = hdr[c] /\ nBackfill = header.mxFrame /\ header.mxFrame > 0
        /\ hdr[c].salt < transaction /\ hdr[c].salt \in Nat
    BY <1>1, <1>2, <1>10 DEF WalInv, WriterInv, FileInv, FreshInv, Header
  <2>4. \A d \in Connection : ~(readLock[d] > 0)
    <3>1. \A i \in Marks, d \in Connection : readLock[d] # i
      BY <1>10 DEF MayExclude
    <3> QED  BY <3>1, WalAssumption DEF WalInv, WalTypes, Marks
  <2>5. \A d \in Connection : at[d] \notin Backfills
    BY <1>2, <2>3 DEF WalInv, SafeInv
  <2>6. Writing' /\ ~Sealed' /\ Top' = 0 /\ ~Tied' /\ Restarting'
    BY <1>1, <1>2, <2>1, <2>2 DEF Writing, Sealed, Top, Tied, Restarting, Pens
  <2>7. ~Copying'
    BY <1>1, <2>1, <2>5 DEF Copying, Backfills
  <2>8. StoreTypes'
    <3>1. \A d \in Connection : hdr'[d].mxFrame <= MaxFrame
      <4>1. 0 <= MaxFrame
        BY WalAssumption
      <4>2. \A d \in Connection : hdr[d].mxFrame <= MaxFrame
        BY DEF StoreTypes
      <4> QED  BY <2>2, <4>1, <4>2
    <3>2. header'.mxFrame <= MaxFrame
      BY <2>2, WalAssumption
    <3> QED  BY <1>1, <1>2, <2>1, <3>1, <3>2 DEF StoreTypes, Writes
  <2>9. \A f \in Frames : \A a \in Choices(f) : a # None =>
           a.data < transaction /\ a.after < transaction /\ a.salt < transaction
    <3>1. \A f \in Frames : f <= header.mxFrame \/ Top < f
      BY <1>2, <1>3, <2>3, WalAssumption DEF Frames
    <3>2. hdr[writer].salt # transaction
      BY <1>2, <2>3
    <3> QED  BY <1>3, <3>1, <3>2 DEF DraftInv, PenInv
  <2>10. DraftInv'
    <3>1. \A f : f \notin header'.mxFrame + 1..Top'
      BY <2>2, <2>6
    <3>2. 0 < transaction /\ \A i \in 1..Len(store), p \in Page : store[i][p] < transaction
      BY <1>3 DEF DraftInv
    <3> QED  BY <1>1, <1>4, <2>2, <2>6, <2>9, <3>1, <3>2 DEF DraftInv
  <2>11. PenInv'
    BY <1>1, <1>2, <2>1, <2>2, <2>6 DEF PenInv, Pens, Waits
  <2>12. IndexInv'
    BY <1>1, <1>2, <2>2 DEF IndexInv
  <2>13. SaltInv'
    BY <1>1, <1>2, <1>5, <2>1, <2>2 DEF SaltInv, Pens
  <2>14. EmptyInv'
    <3>1. SUFFICES ASSUME NEW n \in Frames, NEW g, Chosen(g), ValidTo(transaction, g, n)
                   PROVE  FALSE
      BY <1>5, <2>2 DEF EmptyInv, Empty
    <3>2. n \in 1..n
      BY WalAssumption DEF Frames
    <3>3. g[n] # None /\ g[n].salt = transaction /\ g[n] \in Choices(n)
      BY <3>1, <3>2 DEF ValidTo, Chosen
    <3> QED  BY <1>2, <2>9, <3>3
  <2>15. BackInv'
    <3>1. nBackfill >= header.mxFrame
      BY <1>2, <2>3
    <3>2. \A p \in Page : db[p] = Last(store)[p] /\ dbMay[p] = {}
      <4>1. \A f : f \notin nBackfill + 1..header.mxFrame
        BY <1>2, <2>3
      <4> QED  BY <1>2, <3>1, <4>1 DEF BackInv
    <3> QED  BY <1>1, <2>6, <3>2 DEF BackInv
  <2>16. ReadInv' /\ CopyInv'
    <3>0. \A d \in Connection : at'[d] # "wrote" /\ ~(readLock'[d] > 0)
      BY <1>1, <1>2, <2>1, <2>4 DEF Writes
    <3>1. \A d \in Connection : ReadsWell(d)'
      BY <3>0 DEF ReadsWell
    <3>2. \A d \in Connection : CopiesWell(d)'
      BY <1>1, <2>1, <2>5 DEF CopiesWell, Backfills
    <3> QED  BY <3>1, <3>2 DEF ReadInv, CopyInv
  <2>17. DiskInv'
    <3>1. States' = States
      BY <1>1, <1>3, <2>6 DEF States
    <3>2. \A s, b, e : Chain(s, b, e) => Durable(b, e)' /\ Linked(s, b, e)'
      BY <1>1, <2>6, <2>7, <3>1 DEF Chain, Linked, Durable, Sure
    <3> QED  BY <1>1, <3>1, <3>2, ChainsKept
  <2> QED  BY <1>6, <2>8, <2>10, <2>11, <2>12, <2>13, <2>14, <2>15, <2>16, <2>17
<1> QED  BY <1>8, <1>9, <1>10 DEF RestartLog

LEMMA ResetKeepsStore ==
  ASSUME WalInv, StoreInv, NEW c \in Connection, Reset(c)
  PROVE  StoreInv'
<1> USE DEF StoreInv
<1>1. /\ at[c] = "reset" /\ at'[c] = "mark"
      /\ \A d \in Connection : d # c => at'[d] = at[d] /\ readLock'[d] = readLock[d]
      /\ nBackfill' = 0
      /\ UNCHANGED <<header, aPgno, writer, hdr, minFrame, iFrame, ckpt, log, db, logMay, saltMay,
                     dbMay,
                     transaction, store, sure>>
  BY DEF Reset, Moves, Set, files, history, WalInv, WalTypes
<1>2. /\ writer = c /\ writer # None /\ header # None /\ header.mxFrame \in Nat
      /\ \A d \in Connection : d # c => at[d] \notin Writes
  BY <1>1, WriterIs DEF Writes
<1>3. /\ header = hdr[c] /\ header.mxFrame = 0 /\ nBackfill > 0 /\ nBackfill \in Nat
      /\ \A d \in Connection : ~(readLock[d] > 0)
  BY <1>1 DEF WalInv, WriterInv, LockInv, Restarting, WalTypes
<1>4. Writing /\ Writing' /\ ~Sealed /\ ~Sealed' /\ Top' = Top /\ Top = 0
  BY <1>1, <1>2, <1>3 DEF Writing, Sealed, Top
<1>5. \A d \in Connection : at[d] \notin Backfills /\ at'[d] \notin Backfills
  BY <1>1, <1>2, <1>3 DEF WalInv, SafeInv, Backfills
<1>6. ~Copying /\ ~Copying' /\ ~Restarting'
  BY <1>1, <1>2, <1>5 DEF Copying, Restarting, Backfills, Writes
<1>7. \A f : Choices(f)' = Choices(f)
  BY <1>1 DEF Choices
<1>8. \A s : Empty(s)' <=> Empty(s)
  BY <1>7 DEF Empty, Chosen
<1>9. StoreTypes'
  BY <1>1, <1>2 DEF StoreTypes, Waits
<1>10. FrameInv' /\ Strict' /\ DraftInv'
  BY <1>1, <1>4, <1>7 DEF FrameInv, Strict, DraftInv
<1>11. PenInv'
  BY <1>1, <1>2, <1>3, <1>4, <1>7 DEF PenInv, Pens, Waits
<1>12. IndexInv'
  BY <1>1, <1>4 DEF IndexInv
<1>13. SaltInv'
  BY <1>1, <1>2, <1>4, <1>8 DEF SaltInv, Pens
<1>14. Tied' <=> Tied
  BY <1>1, <1>2, <1>4 DEF Tied, Pens
<1>15. EmptyInv'
  BY <1>1, <1>8, <1>14 DEF EmptyInv
<1>16. BackInv'
  <2>1. \A p \in Page : db[p] = Last(store)[p] /\ dbMay[p] = {}
    <3>1. \A f : f \notin nBackfill + 1..header.mxFrame
      BY <1>3
    <3> QED  BY <1>2, <1>3, <3>1 DEF BackInv
  <2> QED  BY <1>1, <1>3, <2>1 DEF BackInv
<1>17. ReadInv' /\ CopyInv'
  <2>1. \A d \in Connection : at'[d] # "wrote" /\ (d # c => ~(readLock'[d] > 0))
    BY <1>1, <1>2, <1>3 DEF Writes
  <2>0. \A d \in Connection : ReadsWell(d)'
    BY <1>1, <2>1 DEF ReadsWell, Reads, Writes
  <2>2. \A d \in Connection : CopiesWell(d)'
    BY <1>5 DEF CopiesWell
  <2> QED  BY <2>0, <2>2 DEF ReadInv, CopyInv
<1>18. DiskInv'
  <2>1. States' = States
    BY <1>1, <1>4 DEF States
  <2>2. \A s, b, e : Chain(s, b, e) => Durable(b, e)' /\ Linked(s, b, e)'
    BY <1>1, <1>4, <1>6, <1>14, <2>1 DEF Chain, Linked, Durable, Sure
  <2> QED  BY <1>1, <2>1, <2>2, ChainsKept
<1> QED  BY <1>9, <1>10, <1>11, <1>12, <1>13, <1>15, <1>16, <1>17, <1>18

\* Under a salt that no frame has no commit is found.
LEMMA FreshIsEmpty ==
  ASSUME NEW s, \A f \in Frames : \A a \in Choices(f) : a # None => a.salt # s
  PROVE  Empty(s)
<1>1. SUFFICES ASSUME NEW n \in Frames, NEW g, Chosen(g), ValidTo(s, g, n)  PROVE FALSE
  BY DEF Empty
<1>2. n \in 1..n
  BY WalAssumption DEF Frames
<1>3. g[n] # None /\ g[n].salt = s /\ g[n] \in Choices(n)
  BY <1>1, <1>2 DEF ValidTo, Chosen
<1> QED  BY <1>3

\* The header of a new log: under its salt, and under that of no log, the chain is the file.
LEMMA WriteHeaderKeepsStore ==
  ASSUME WalInv, StoreInv, NEW c \in Connection, WriteHeader(c)
  PROVE  StoreInv'
<1> USE DEF StoreInv
<1>1. /\ at[c] = "log" /\ at'[c] = "header"
      /\ \A d \in Connection : d # c => at'[d] = at[d] /\ hdr'[d] = hdr[d]
      /\ hdr[c].mxFrame = 0 /\ hdr'[c].mxFrame = 0
      /\ hdr'[c].salt = (IF hdr[c].salt = 0 THEN transaction ELSE hdr[c].salt)
      /\ log'.salt = hdr'[c].salt /\ log'.frames = log.frames
      /\ saltMay' = saltMay \cup {log.salt, 0}
      /\ UNCHANGED <<header, aPgno, nBackfill, writer, readLock, minFrame, iFrame, ckpt, db,
                     logMay, dbMay,
                     transaction, store, sure>>
  BY DEF WriteHeader, Moves, index, history, WalInv, WalTypes, Header
<1>2. /\ writer = c /\ writer # None /\ header # None /\ header \in Header /\ header.mxFrame \in Nat
      /\ hdr[c] \in Header /\ hdr[c].salt \in Nat /\ transaction \in Nat
      /\ \A d \in Connection : d # c => at[d] \notin Writes
  BY <1>1, WriterIs DEF Writes, Header
<1>3. header.mxFrame = 0
  BY <1>1, <1>2 DEF WalInv, WriterInv, Appends
<1>4. Writing /\ Writing' /\ ~Sealed /\ ~Sealed' /\ Top' = 0 /\ Top = 0 /\ ~Tied /\ Tied'
  BY <1>1, <1>2, <1>3 DEF Writing, Sealed, Top, Tied, Pens
<1>5. hdr[c].salt = header.salt /\ hdr'[c].salt # 0
  BY <1>1, <1>2, <1>4 DEF PenInv, Pens, DraftInv
<1>6. \A f : Choices(f)' = Choices(f)
  BY <1>1 DEF Choices
<1>7. \A s : Empty(s)' <=> Empty(s)
  BY <1>6 DEF Empty, Chosen
<1>8. Empty(hdr'[c].salt)
  <2>1. CASE hdr[c].salt = 0
    <3>1. \A f \in Frames : \A a \in Choices(f) : a # None => a.salt < transaction
      BY <1>2, <1>4, <1>5, <2>1 DEF PenInv, DraftInv
    <3>2. \A s : (\A f \in Frames : \A a \in Choices(f) : a # None => a.salt # s) => Empty(s)
      BY FreshIsEmpty
    <3> QED  BY <1>1, <1>2, <2>1, <3>1, <3>2
  <2>2. CASE hdr[c].salt # 0
    BY <1>1, <1>2, <1>3, <1>4, <1>5, <2>2 DEF EmptyInv
  <2> QED  BY <2>1, <2>2
<1>9. ~Copying /\ ~Copying' /\ ~Restarting /\ ~Restarting'
  <2>1. \A k \in Connection : at[k] \notin Backfills
    BY <1>3 DEF WalInv, SafeInv, WalTypes
  <2> QED  BY <1>1, <1>2, <2>1 DEF Copying, Restarting, Backfills, Writes
<1>10. StoreTypes'
  BY <1>1, <1>2 DEF StoreTypes, Writes
<1>11. FrameInv' /\ Strict' /\ DraftInv'
  BY <1>1, <1>4, <1>6 DEF FrameInv, Strict, DraftInv
<1>12. PenInv'
  BY <1>1, <1>2, <1>4, <1>5, <1>6 DEF PenInv, Pens, Waits
<1>13. IndexInv'
  BY <1>1, <1>2, <1>3, <1>4 DEF IndexInv
<1>14. SaltInv'
  BY <1>1, <1>2, <1>3, <1>7, <1>8 DEF SaltInv, Pens
<1>15. EmptyInv' /\ BackInv'
  BY <1>1, <1>4, <1>9 DEF EmptyInv, BackInv
<1>16. ReadInv' /\ CopyInv'
  <2>1. ReadsWell(c)'
    <3>1. ReadsWell(c)
      BY DEF ReadInv
    <3> QED  BY <1>1, <3>1 DEF ReadsWell, Reads, Writes
  <2>2. header.mxFrame <= header'.mxFrame
    BY <1>1, <1>2
  <2> QED  BY <1>1, <1>2, <2>1, <2>2, PenOthers DEF Checkpoints, Writes
<1>17. States' = store /\ States = store /\ Len(store) \in Nat /\ sure \in 1..Len(store)
  BY <1>1, <1>4, StatesAre DEF States, StoreTypes, WalInv
<1>18. \A p \in Page : db[p] = Last(store)[p] /\ dbMay[p] = {}
  <2>1. nBackfill = 0
    BY <1>2, <1>3, <1>9 DEF BackInv, WalInv, WalTypes
  <2>2. \A f : f \notin nBackfill + 1..header.mxFrame
    BY <1>3, <2>1
  <2> QED  BY <1>2, <1>3, <2>1, <2>2 DEF BackInv
<1>19. ASSUME NEW s \in {0, hdr'[c].salt}
       PROVE  \E b \in 1..Len(States') : \E e \in [b..Len(States') -> 0..MaxFrame] : Chain(s, b, e)'
  <2>0. PICK b : b = Len(store)
    OBVIOUS
  <2>1. PICK e : e = [i \in b..b |-> 0]
    OBVIOUS
  <2>2. /\ b \in Nat /\ b \in 1..Len(States') /\ b = Len(States') /\ b..b = {b} /\ e[b] = 0
        /\ e \in [b..Len(States') -> 0..MaxFrame] /\ b = Len(store')
    BY <1>1, <1>17, <2>0, <2>1, WalAssumption
  <2>3. Chained(s, b, e)'
    <3>1. States'[b] = StateAfter(log'.frames, States'[b], 0)
      <4>1. store[b] \in [Page -> 0..transaction]
        BY <1>17, <2>0 DEF StoreTypes
      <4>2. \A g : StateAfter(g, store[b], 0) = store[b]
        BY <4>1, NoFrames
      <4> QED  BY <1>17, <4>2
    <3>2. \A i : i \notin b + 1..Len(States')
      BY <2>2
    <3>3. \A i \in b..Len(States') : i = b
      BY <2>2
    <3> QED  BY <2>2, <3>1, <3>2, <3>3 DEF Chained
  <2>4. Durable(b, e)'
    <3>1. Sure(b)' = b
      BY <1>1, <1>17, <2>0 DEF Sure
    <3>2. \A f : f \notin 1..e[b]
      BY <2>2
    <3>3. \A p \in Page : dbMay'[p] = {} /\ db'[p] = States'[b][p]
      BY <1>1, <1>17, <1>18, <2>0 DEF Last
    <3> QED  BY <3>1, <3>2, <3>3 DEF Durable
  <2>5. Found(s, b, e)'
    <3>1. PICK n : n = hdr'[c].salt
      OBVIOUS
    <3>2. s \in {0, n} /\ Empty(n)'
      BY <1>7, <1>8, <1>19, <3>1
    <3>3. CASE s = 0
      BY <3>3 DEF Found, ValidTo
    <3>4. CASE s = n
      BY <3>2, <3>4 DEF Found, Empty
    <3> QED  BY <3>2, <3>3, <3>4
  <2>6. Linked(s, b, e)'
    BY <1>1, <1>3, <1>4, <1>9, <2>2 DEF Linked
  <2> QED  BY <2>2, <2>3, <2>4, <2>5, <2>6 DEF Chain
<1>20. ASSUME NEW s \in Salts, s # hdr'[c].salt
       PROVE  \E b \in 1..Len(States') : \E e \in [b..Len(States') -> 0..MaxFrame] : Chain(s, b, e)'
  <2>1. PICK b \in 1..Len(States) : \E e \in [b..Len(States) -> 0..MaxFrame] : Chain(s, b, e)
    BY DEF DiskInv
  <2>2. PICK e \in [b..Len(States) -> 0..MaxFrame] : Chain(s, b, e)
    BY <2>1
  <2>3. Chained(s, b, e)' /\ Durable(b, e)'
    BY <1>1, <1>17, <2>2 DEF Chain, Chained, Durable, Sure
  <2>4. Found(s, b, e)'
    BY <1>1, <1>6, <1>17, <2>2 DEF Chain, Found, Chosen
  <2>5. Linked(s, b, e)'
    BY <1>1, <1>9, <1>20 DEF Linked
  <2> QED  BY <1>17, <2>2, <2>3, <2>4, <2>5 DEF Chain
<1>21. DiskInv'
  <2>1. Salts' \subseteq Salts \cup {0, hdr'[c].salt}
    BY <1>1 DEF Salts
  <2> QED  BY <1>19, <1>20, <2>1 DEF DiskInv
<1> QED  BY <1>10, <1>11, <1>12, <1>13, <1>14, <1>15, <1>16, <1>21

\* The header is synced before there are frames of its salt that could be valid.
LEMMA SyncHeaderKeepsStore ==
  ASSUME WalInv, StoreInv, NEW c \in Connection, SyncHeader(c)
  PROVE  StoreInv'
<1> USE DEF StoreInv
<1>1. /\ at[c] = "header" /\ at'[c] = "frames" /\ \A d \in Connection : d # c => at'[d] = at[d]
      /\ logMay' = [f \in Frames |-> {}] /\ saltMay' = {} /\ sure' = Len(store) /\ iFrame' = 0
      /\ UNCHANGED <<header, aPgno, nBackfill, writer, hdr, readLock, minFrame, ckpt, log, db,
                     dbMay,
                     transaction, store>>
  BY DEF SyncHeader, Moves, index, reading, WalInv, WalTypes
<1>2. /\ writer = c /\ writer # None /\ header # None /\ header.mxFrame \in Nat
      /\ \A d \in Connection : d # c => at[d] \notin Writes
  BY <1>1, WriterIs DEF Writes
<1>3. hdr[c].mxFrame = 0 /\ header.mxFrame = 0
  BY <1>1, <1>2 DEF WalInv, WriterInv, Appends
<1>4. Writing /\ Writing' /\ ~Sealed /\ ~Sealed' /\ Top' = Top /\ Top = 0 /\ Tied /\ Tied'
  BY <1>1, <1>2, <1>3 DEF Writing, Sealed, Top, Tied, Pens
<1>5. \A f \in Frames : Choices(f)' \subseteq Choices(f)
  BY <1>1 DEF Choices
<1>6. ~Copying /\ ~Copying' /\ ~Restarting /\ ~Restarting'
  <2>1. \A k \in Connection : at[k] \notin Backfills
    BY <1>3 DEF WalInv, SafeInv, WalTypes
  <2> QED  BY <1>1, <1>2, <2>1 DEF Copying, Restarting, Backfills, Writes
<1>7. StoreTypes'
  <2>1. sure' \in 1..Len(store)
    BY <1>1, StatesAre DEF StoreTypes, WalInv
  <2>2. iFrame' <= MaxFrame
    BY <1>1, WalAssumption
  <2> QED  BY <1>1, <1>2, <2>1, <2>2 DEF StoreTypes, Writes
<1>8. FrameInv' /\ Strict'
  BY <1>1, <1>5 DEF FrameInv, Strict
<1>9. DraftInv'
  BY <1>1, <1>4, <1>5 DEF DraftInv
<1>10. PenInv'
  BY <1>1, <1>2, <1>4, <1>5 DEF PenInv, Pens, Waits
<1>11. IndexInv'
  BY <1>1, <1>4 DEF IndexInv
<1>12. SaltInv'
  BY <1>1 DEF SaltInv
<1>13. EmptyInv' /\ BackInv'
  BY <1>1, <1>4, <1>6 DEF EmptyInv, BackInv
<1>14. ReadInv' /\ CopyInv'
  <2>1. ReadsWell(c)'
    <3>1. ReadsWell(c)
      BY DEF ReadInv
    <3> QED  BY <1>1, <3>1 DEF ReadsWell, Reads, Writes
  <2>2. header.mxFrame <= header'.mxFrame
    BY <1>1, <1>2
  <2> QED  BY <1>1, <1>2, <2>1, <2>2, PenOthers DEF Checkpoints, Writes
<1>15. DiskInv'
  <2>1. States' = States
    BY <1>1, <1>4 DEF States
  <2>2. \A b, e : Chain(log.salt, b, e) => Linked(log.salt, b, e)'
    BY <1>1, <1>4, <1>6 DEF Chain, Linked
  <2> QED  BY <1>1, <2>1, <2>2, SyncedChain DEF WalInv
<1> QED  BY <1>7, <1>8, <1>9, <1>10, <1>11, <1>12, <1>13, <1>14, <1>15

-----------------------------------------------------------------------------
(***************************************************************************)
(* The wal-index made anew.                                                *)
(***************************************************************************)

\* A recovery finds the last state committed, and under a salt that is durable.
LEMMA RecoverKeepsStore ==
  ASSUME WalInv, StoreInv, NEW c \in Connection, Recover(c)
  PROVE  StoreInv'
<1> USE DEF StoreInv
<1> DEFINE R == Recovered(log)
<1>1. /\ header = None /\ writer = None /\ writer' = None /\ nBackfill' = 0
      /\ header' = [salt |-> log.salt, mxFrame |-> R, iChange |-> Len(store)]
      /\ aPgno' = [f \in Frames |-> IF f <= MaxOf(Valid(log)) THEN log.frames[f].page ELSE None]
      /\ hdr' = [hdr EXCEPT ![c] = header']
      /\ UNCHANGED <<minFrame, iFrame, ckpt, log, db, logMay, saltMay, dbMay, transaction, store,
                     sure>>
  BY DEF Recover, Set, files, history
<1>2. \A d \in Connection : at'[d] \in {"idle", "decide"}
  BY <1>1 DEF Recover, Moves, WalInv, WalTypes, PlaceInv
<1>3. ~Writing /\ ~Writing' /\ ~Sealed /\ ~Sealed' /\ ~Copying' /\ ~Restarting'
  BY <1>1, <1>2 DEF Writing, Sealed, Copying, Restarting
<1>4. States' = store /\ States = store /\ Len(store) \in Nat /\ Len(store) \in 1..Len(store)
  BY <1>1, <1>3, StatesAre DEF States, StoreTypes, WalInv
<1>5. PICK t : t = log.salt
  OBVIOUS
<1>6. PICK g : g = log.frames
  OBVIOUS
<1>7. log = [salt |-> t, frames |-> g] /\ Chosen(g)
  BY <1>5, <1>6 DEF WalInv, WalTypes, Chosen, Choices
<1>8. /\ R \in 0..MaxFrame /\ R \in Nat
      /\ R > 0 => ValidTo(t, g, R) /\ g[R].commit
  <2>1. \A s, h : LET l == [salt |-> s, frames |-> h] IN
           /\ Recovered(l) \in 0..MaxFrame
           /\ Recovered(l) > 0 => ValidTo(s, h, Recovered(l)) /\ h[Recovered(l)].commit
    BY RecoveredIs
  <2>2. R \in 0..MaxFrame /\ (R > 0 => ValidTo(t, g, R) /\ g[R].commit)
    BY <1>7, <2>1
  <2> QED  BY <2>2, WalAssumption
<1>9. R <= MaxOf(Valid(log))
  <2>1. Valid(log) \in SUBSET (0..MaxFrame) /\ MaxFrame \in Nat
    BY WalAssumption DEF Valid
  <2>2. (MaxOf(Valid(log)) = 0 /\ Valid(log) = {}) \/ MaxOf(Valid(log)) \in Valid(log)
    BY <2>1, GreatestIn
  <2>3. \A y \in Valid(log) : y <= MaxOf(Valid(log))
    BY <2>1, GreatestIn
  <2>4. R > 0 => R \in Valid(log)
    <3>1. log.salt = t /\ log.frames = g
      BY <1>5, <1>6
    <3> QED  BY <1>8, <3>1 DEF Valid, ValidTo
  <2> QED  BY <1>8, <2>1, <2>2, <2>3, <2>4
<1>10. ASSUME NEW b, NEW e, Chain(t, b, e)
       PROVE  /\ e[Len(store)] = R /\ Last(store) = StateOf(log, db)
              /\ R = 0 => \A p \in Page : dbMay[p] = {}
  <2>1. \A d : (\A p \in Page : d[p] \in dbMay[p] \cup {db[p]}) =>
           \E i \in b..Len(States) : IsFound(t, b, e, g, d, i)
    BY <1>7, <1>10, RecoveryFinds DEF WalInv, WalTypes
  <2>2. PICK i \in b..Len(States) : IsFound(t, b, e, g, db, i)
    BY <2>1
  <2>3. i = Len(store) /\ R = e[i] /\ StateOf(log, db) = store[i]
    BY <1>4, <1>6, <1>7, <2>2 DEF IsFound
  <2>4. ASSUME R = 0  PROVE \A p \in Page : dbMay[p] = {}
    <3>1. /\ b \in 1..Len(States) /\ b \in Nat
          /\ Sure(b) \in b..Len(States)
          /\ \A j \in b..Len(States) : e[j] = 0 => j = b
      BY <1>10, ChainRises DEF Chain, WalInv
    <3>0. e[i] = 0 /\ i = b /\ Len(States) = i /\ i \in Nat
      <4>1. e[i] = 0
        BY <2>3, <2>4
      <4> QED  BY <1>4, <2>3, <3>1, <4>1
    <3>2. Sure(b) = i
      BY <3>0, <3>1
    <3>3. \A f : f \notin 1..e[Sure(b)]
      BY <3>0, <3>2
    <3> QED  BY <1>10, <3>3 DEF Chain, Durable
  <2> QED  BY <2>3, <2>4 DEF Last
<1> HIDE DEF R
<1>11. PICK b, e : Chain(t, b, e)
  <2>1. t \in Salts
    BY <1>5 DEF Salts
  <2> QED  BY <2>1 DEF DiskInv
<1>12. header' # None /\ header'.mxFrame = R /\ header'.salt = t
  <2>1. header'.mxFrame = R /\ header'.salt = t
    BY <1>1, <1>5
  <2>2. header' \in [salt : Nat, mxFrame : Nat, iChange : Nat]
    BY <1>1, <1>4, <1>5, <1>8 DEF WalInv, WalTypes
  <2> QED  BY <2>1, <2>2, WalAssumption
<1>13. \A f : Choices(f)' = Choices(f)
  BY <1>1 DEF Choices
<1>14. \A s : Empty(s)' <=> Empty(s)
  BY <1>13 DEF Empty, Chosen
<1>15. StoreTypes'
  <2>1. \A d \in Connection : hdr'[d].mxFrame <= MaxFrame
    <3>1. R <= MaxFrame /\ \A d \in Connection : hdr[d].mxFrame <= MaxFrame
      BY <1>8, WalAssumption DEF StoreTypes
    <3> QED  BY <1>1, <1>12, <3>1 DEF WalInv, WalTypes
  <2>2. header'.mxFrame <= MaxFrame
    BY <1>8, <1>12, WalAssumption
  <2> QED  BY <1>1, <2>1, <2>2 DEF StoreTypes
<1>16. FrameInv' /\ Strict' /\ DraftInv' /\ PenInv'
  BY <1>1, <1>3, <1>13 DEF FrameInv, Strict, DraftInv, PenInv
<1>17. \A f \in 1..R : log.frames[f] # None /\ aPgno'[f] = log.frames[f].page
  <2>1. ASSUME NEW f \in 1..R  PROVE log.frames[f] # None /\ aPgno'[f] = log.frames[f].page
    <3>1. f \in Frames /\ f \in Nat /\ f <= R /\ R > 0
      BY <1>8, WalAssumption DEF Frames
    <3>2. f <= MaxOf(Valid(log))
      <4>1. MaxOf(Valid(log)) \in Nat
        <5>1. Valid(log) \in SUBSET (0..MaxFrame) /\ MaxFrame \in Nat
          BY WalAssumption DEF Valid
        <5>2. (MaxOf(Valid(log)) = 0 /\ Valid(log) = {}) \/ MaxOf(Valid(log)) \in Valid(log)
          BY <5>1, GreatestIn
        <5> QED  BY <5>1, <5>2
      <4> QED  BY <1>8, <1>9, <3>1, <4>1
    <3> QED  BY <1>1, <1>6, <1>8, <3>1, <3>2 DEF ValidTo
  <2> QED  BY <2>1
<1>23. IndexInv'
  BY <1>1, <1>3, <1>5, <1>12, <1>17 DEF IndexInv
<1>18. SaltInv'
  <2>1. ASSUME R > 0  PROVE ~Empty(t)
    <3>1. R \in Frames
      BY <1>8, <2>1, WalAssumption DEF Frames
    <3> QED  BY <1>7, <1>8, <2>1, <3>1 DEF Empty
  <2>2. saltMay # {} => Empty(t)
    BY <1>5 DEF SaltInv
  <2> QED  BY <1>1, <1>3, <1>5, <1>12, <1>14, <2>1, <2>2 DEF SaltInv
<1>19. EmptyInv'
  <2>1. R = 0 => Empty(t)
    BY <1>4, <1>10, <1>11, NoneFound DEF WalInv
  <2> QED  BY <1>12, <1>14, <2>1 DEF EmptyInv
<1>20. BackInv'
  <2>1. ASSUME NEW p \in Page, \A f \in 1..R : aPgno'[f] # p  PROVE db[p] = Last(store)[p]
    <3>1. {f \in 1..R : log.frames[f].page = p} = {}
      BY <1>17, <2>1
    <3>2. MaxOf({f \in 1..R : log.frames[f].page = p}) = 0
      BY <3>1 DEF MaxOf
    <3>3. StateOf(log, db)[p] = db[p]
      BY <3>2 DEF StateOf, R
    <3> QED  BY <1>10, <1>11, <3>3
  <2>2. R <= 0 => \A p \in Page : dbMay[p] = {}
    BY <1>8, <1>10, <1>11
  <2> QED  BY <1>1, <1>8, <1>12, <2>1, <2>2 DEF BackInv
<1>21. ReadInv' /\ CopyInv'
  BY <1>2 DEF ReadInv, CopyInv, ReadsWell, CopiesWell, Reads, Writes, Backfills
<1>22. DiskInv'
  <2>1. \A s, h, k : Chain(s, h, k) => Durable(h, k)' /\ Linked(s, h, k)'
    <3>1. \A h, k : Chain(t, h, k) => k[Len(store)] = R
      BY <1>10
    <3>2. \A s, h, k : Chain(s, h, k) /\ s = log'.salt => k[Len(store')] = header'.mxFrame
      BY <1>1, <1>5, <1>12, <3>1
    <3> QED  BY <1>1, <1>3, <1>4, <3>2 DEF Chain, Linked, Durable, Sure
  <2> QED  BY <1>1, <1>4, <2>1, ChainsKept
<1> QED  BY <1>15, <1>16, <1>17, <1>18, <1>19, <1>20, <1>21, <1>22, <1>23

-----------------------------------------------------------------------------
(***************************************************************************)
(* A frame.                                                                *)
(***************************************************************************)

\* A frame is written: what the log holds then, and what the disk may hold.
LEMMA WriteFrameIs ==
  ASSUME WalInv, StoreInv, NEW c \in Connection, NEW p \in Page, NEW commit \in BOOLEAN,
         WriteFrame(c, p, commit)
  PROVE  /\ at[c] = "frames" /\ at'[c] \in {"frames", "append"} /\ (commit => at'[c] = "append")
         /\ \A d \in Connection : d # c => at'[d] = at[d] /\ at[d] \notin Writes
         /\ writer = c /\ writer # None /\ header # None /\ header.mxFrame \in Nat /\ hdr[c].mxFrame \in Nat
         /\ header.mxFrame <= iFrame /\ hdr[c].mxFrame <= iFrame
         /\ iFrame \in Nat /\ iFrame' = iFrame + 1 /\ iFrame + 1 \in Frames
         /\ transaction \in Nat /\ saltMay = {} /\ log'.salt = log.salt /\ log.salt # 0
         /\ hdr[c].salt = log.salt
         /\ DOMAIN logMay' = Frames /\ log'.frames \in [Frames -> Frame \cup {None}]
         /\ \A f \in Frames : f # iFrame + 1 =>
              log'.frames[f] = log.frames[f] /\ logMay'[f] = logMay[f] /\ Choices(f)' = Choices(f)
         /\ \A f \in Frames : f = iFrame + 1 =>
              /\ log'.frames[f] # None /\ log'.frames[f] \in Frame
              /\ log'.frames[f].salt = log.salt /\ log'.frames[f].page = p
              /\ log'.frames[f].data = transaction /\ log'.frames[f].commit = commit
              /\ log'.frames[f].after = IF iFrame = 0 THEN 0 ELSE log.frames[iFrame].data
              /\ logMay'[f] = logMay[f] \cup {log.frames[f], None}
              /\ Choices(f)' = Choices(f) \cup {log'.frames[f], None}
         /\ UNCHANGED <<header, aPgno, nBackfill, writer, hdr, readLock, minFrame, ckpt, db,
                        saltMay, dbMay,
                        transaction, store, sure>>
<1> USE DEF StoreInv
<1>1. /\ at[c] = "frames" /\ at'[c] \in {"frames", "append"} /\ (commit => at'[c] = "append")
      /\ \A d \in Connection : d # c => at'[d] = at[d]
      /\ iFrame' = iFrame + 1 /\ iFrame < MaxFrame
      /\ UNCHANGED <<header, aPgno, nBackfill, writer, hdr, readLock, minFrame, ckpt, db, saltMay,
                     dbMay,
                     transaction, store, sure>>
  BY DEF WriteFrame, Moves, index, reading, history, WalInv, WalTypes
<1>2. /\ writer = c /\ writer # None /\ header # None /\ header.mxFrame \in Nat /\ hdr[c].mxFrame \in Nat
      /\ iFrame \in Nat /\ transaction \in Nat /\ hdr[c] \in Header
      /\ \A d \in Connection : d # c => at[d] \notin Writes
  BY <1>1, WriterIs DEF Writes
<1>3. Writing /\ Top = iFrame /\ iFrame + 1 \in Frames
  BY <1>1, <1>2, WalAssumption DEF Writing, Top, Frames
<1>4. /\ header.mxFrame <= iFrame /\ hdr[c].mxFrame <= iFrame /\ saltMay = {}
      /\ hdr[c].salt = log.salt /\ log.salt # 0
  BY <1>1, <1>2, <1>3 DEF DraftInv, PenInv, SaltInv, Pens, WalInv, WriterInv
<1>5. PICK a : a = [salt |-> hdr[c].salt, page |-> p, data |-> transaction, commit |-> commit,
                    after |-> IF iFrame = 0 THEN 0 ELSE log.frames[iFrame].data]
  OBVIOUS
<1>6. /\ log' = [log EXCEPT !.frames[iFrame + 1] = a]
      /\ logMay' = [logMay EXCEPT ![iFrame + 1] = @ \cup {log.frames[iFrame + 1], None}]
  BY <1>1, <1>5 DEF WriteFrame
<1>7. iFrame # 0 => log.frames[iFrame].data \in Nat
  <2>1. SUFFICES ASSUME iFrame # 0  PROVE log.frames[iFrame].data \in Nat
    OBVIOUS
  <2>2. iFrame \in Frames /\ iFrame \in 1..iFrame
    BY <1>1, <1>2, <2>1, WalAssumption DEF Frames
  <2>3. log.frames[iFrame] # None
    BY <1>2, <1>3, <2>1, <2>2 DEF PenInv, ValidTo
  <2> QED  BY <1>2, <2>2, <2>3, FrameData
<1>8. a \in Frame
  <2>1. (IF iFrame = 0 THEN 0 ELSE log.frames[iFrame].data) \in Nat
    BY <1>7
  <2>2. hdr[c].salt \in Nat
    BY <1>2 DEF Header
  <2> QED  BY <1>2, <1>5, <2>1, <2>2 DEF Frame
<1>9. a # None
  BY <1>8, WalAssumption DEF Frame
<1>10. /\ log'.salt = log.salt /\ log'.frames = [log.frames EXCEPT ![iFrame + 1] = a]
  BY <1>6 DEF WalInv, WalTypes
<1>11. /\ log'.frames \in [Frames -> Frame \cup {None}] /\ DOMAIN logMay' = Frames
       /\ \A f \in Frames : f # iFrame + 1 => log'.frames[f] = log.frames[f] /\ logMay'[f] = logMay[f]
       /\ \A f \in Frames : f = iFrame + 1 =>
           log'.frames[f] = a /\ logMay'[f] = logMay[f] \cup {log.frames[f], None}
  BY <1>3, <1>6, <1>8, <1>10 DEF StoreTypes
<1>12. \A f \in Frames : f # iFrame + 1 => Choices(f)' = Choices(f)
  BY <1>11 DEF Choices
<1>13. \A f \in Frames : f = iFrame + 1 => Choices(f)' = Choices(f) \cup {log'.frames[f], None}
  BY <1>11 DEF Choices
<1>14. a.salt = hdr[c].salt /\ a.page = p /\ a.data = transaction /\ a.commit = commit
       /\ a.after = IF iFrame = 0 THEN 0 ELSE log.frames[iFrame].data
  BY <1>5
<1> QED  BY <1>1, <1>2, <1>3, <1>4, <1>8, <1>9, <1>10, <1>11, <1>12, <1>13, <1>14

\* What is not about the chains.
LEMMA WriteFrameKeepsRest ==
  ASSUME WalInv, StoreInv, NEW c \in Connection, NEW p \in Page, NEW commit \in BOOLEAN,
         WriteFrame(c, p, commit)
  PROVE  /\ StoreTypes' /\ FrameInv' /\ DraftInv' /\ PenInv' /\ IndexInv' /\ SaltInv' /\ Strict'
         /\ EmptyInv' /\ BackInv' /\ ReadInv' /\ CopyInv'
         /\ Writing /\ Writing' /\ ~Sealed /\ (Sealed' <=> commit) /\ Top = iFrame /\ Top' = iFrame + 1
         /\ Tied /\ Tied' /\ (Copying' <=> Copying)
<1> USE DEF StoreInv
<1>0. PICK q : q = iFrame + 1
  OBVIOUS
<1>1. /\ at[c] = "frames" /\ at'[c] \in {"frames", "append"} /\ (commit => at'[c] = "append")
      /\ \A d \in Connection : d # c => at'[d] = at[d] /\ at[d] \notin Writes
      /\ writer = c /\ writer # None /\ header # None /\ header.mxFrame \in Nat /\ hdr[c].mxFrame \in Nat
      /\ header.mxFrame <= iFrame /\ hdr[c].mxFrame <= iFrame
      /\ iFrame \in Nat /\ iFrame' = q /\ q \in Frames
      /\ transaction \in Nat /\ saltMay = {} /\ log'.salt = log.salt /\ log.salt # 0
      /\ hdr[c].salt = log.salt
      /\ DOMAIN logMay' = Frames /\ log'.frames \in [Frames -> Frame \cup {None}]
  BY <1>0, WriteFrameIs
<1>2. \A f \in Frames : f # q =>
        log'.frames[f] = log.frames[f] /\ logMay'[f] = logMay[f] /\ Choices(f)' = Choices(f)
  BY <1>0, WriteFrameIs
<1>3. /\ log'.frames[q] # None /\ log'.frames[q] \in Frame
      /\ log'.frames[q].salt = log.salt /\ log'.frames[q].page = p
      /\ log'.frames[q].data = transaction /\ log'.frames[q].commit = commit
      /\ log'.frames[q].after = IF iFrame = 0 THEN 0 ELSE log.frames[iFrame].data
      /\ logMay'[q] = logMay[q] \cup {log.frames[q], None}
      /\ Choices(q)' = Choices(q) \cup {log'.frames[q], None}
  <2>1. \A f \in Frames : f = iFrame + 1 =>
              /\ log'.frames[f] # None /\ log'.frames[f] \in Frame
              /\ log'.frames[f].salt = log.salt /\ log'.frames[f].page = p
              /\ log'.frames[f].data = transaction /\ log'.frames[f].commit = commit
              /\ log'.frames[f].after = IF iFrame = 0 THEN 0 ELSE log.frames[iFrame].data
              /\ logMay'[f] = logMay[f] \cup {log.frames[f], None}
              /\ Choices(f)' = Choices(f) \cup {log'.frames[f], None}
    BY WriteFrameIs
  <2> QED  BY <1>0, <1>1, <2>1
<1>4. UNCHANGED <<header, aPgno, nBackfill, writer, hdr, readLock, minFrame, ckpt, db, saltMay,
                  dbMay,
                  transaction, store, sure>>
  BY WriteFrameIs
<1>5. /\ Writing /\ Writing' /\ ~Sealed /\ (Sealed' <=> commit) /\ Top = iFrame /\ Top' = q /\ Tied /\ Tied'
  <2>1. log'.frames[iFrame'].commit = commit
    BY <1>1, <1>3
  <2> QED  BY <1>1, <1>4, <2>1 DEF Writing, Sealed, Top, Tied, Pens
<1>6. \A f \in Frames : f \in Nat /\ f > 0
  BY WalAssumption DEF Frames
<1>7. \A f \in 1..iFrame : f \in Frames /\ f # q
  BY <1>0, <1>1, WalAssumption DEF Frames
<1>8. iFrame > 0 => ValidTo(log.salt, log.frames, iFrame)
  BY <1>5 DEF PenInv
<1>9. ReadInv' /\ CopyInv' /\ (Copying' <=> Copying) /\ (Restarting' <=> Restarting)
  <2>1. ReadsWell(c)'
    <3>1. ReadsWell(c)
      BY DEF ReadInv
    <3> QED  BY <1>1, <1>4, <3>1 DEF ReadsWell, Reads, Writes
  <2>2. header.mxFrame <= header'.mxFrame
    BY <1>1, <1>4
  <2>3. \A f \in 1..header.mxFrame : aPgno'[f] = aPgno[f] /\ log'.frames[f] = log.frames[f]
    <3>1. \A f \in 1..header.mxFrame : f \in 1..iFrame
      BY <1>1
    <3> QED  BY <1>2, <1>4, <1>7, <3>1
  <2> QED  BY <1>1, <1>4, <2>1, <2>2, <2>3, PenOthers DEF Checkpoints, Writes
<1>10. StoreTypes'
  <2>1. \A f \in Frames : logMay'[f] \subseteq Frame \cup {None}
    <3>1. \A f \in Frames : logMay[f] \subseteq Frame \cup {None} /\ log.frames[f] \in Frame \cup {None}
      BY DEF StoreTypes
    <3> QED  BY <1>2, <1>3, <3>1
  <2>2. iFrame' <= MaxFrame
    BY <1>1, WalAssumption DEF Frames
  <2> QED  BY <1>1, <1>4, <2>1, <2>2 DEF StoreTypes, Writes
<1>11. \A f \in Frames : \A a \in Choices(f) : a # None => a.data <= transaction /\ a \in Frame
  <2>1. \A f \in Frames : \A a \in Choices(f) : a # None => a \in Frame
    BY DEF StoreTypes, Choices
  <2> QED  BY <2>1 DEF FrameInv
<1>12. \A a \in Choices(q) : a # None => a.data < transaction /\ a.after < transaction
  BY <1>0, <1>1, <1>5 DEF DraftInv
<1>13. 0 < transaction /\ \A i \in 1..Len(store), x \in Page : store[i][x] < transaction
  BY <1>5 DEF DraftInv
<1>14. log'.frames[q].after <= transaction /\ log.salt <= transaction /\ log.salt \in Nat
  <2>1. iFrame # 0 => log.frames[iFrame].data \in 1..transaction
    <3>1. SUFFICES ASSUME iFrame # 0  PROVE log.frames[iFrame].data \in 1..transaction
      OBVIOUS
    <3>2. iFrame \in 1..iFrame /\ iFrame > 0
      BY <1>1, <3>1
    <3>3. iFrame \in Frames /\ log.frames[iFrame] # None
      BY <1>7, <1>8, <3>2 DEF ValidTo
    <3> QED  BY <1>1, <3>3, FrameData
  <2>2. log.salt <= transaction /\ log.salt \in Nat
    BY DEF WalInv, FreshInv, WalTypes
  <2> QED  BY <1>1, <1>3, <2>1, <2>2
<1>15. FrameInv'
  <2>1. ASSUME NEW f \in Frames, f # q
        PROVE  /\ \A a \in Choices(f)' : a # None =>
                    0 < a.data /\ a.data <= transaction /\ a.after <= transaction /\ a.salt <= transaction
               /\ \A a, b \in Choices(f)' : a # None /\ b # None /\ a.data = b.data => a = b
    BY <1>2, <2>1 DEF FrameInv
  <2>2. \A a \in Choices(q)' : a # None =>
          0 < a.data /\ a.data <= transaction /\ a.after <= transaction /\ a.salt <= transaction
    <3>1. \A a \in Choices(q) : a # None =>
            0 < a.data /\ a.data <= transaction /\ a.after <= transaction /\ a.salt <= transaction
      BY <1>1 DEF FrameInv
    <3> QED  BY <1>1, <1>3, <1>13, <1>14, <3>1
  <2>3. \A a, b \in Choices(q)' : a # None /\ b # None /\ a.data = b.data => a = b
    <3>1. \A a, b \in Choices(q) : a # None /\ b # None /\ a.data = b.data => a = b
      BY <1>1 DEF FrameInv
    <3>2. \A a \in Choices(q) : a # None => a.data # transaction
      BY <1>1, <1>11, <1>12 DEF Frame
    <3> QED  BY <1>3, <3>1, <3>2
  <2> QED  BY <1>4, <2>1, <2>2, <2>3 DEF FrameInv
<1>16. DraftInv'
  <2>1. header.mxFrame <= q
    BY <1>0, <1>1
  <2>2. ASSUME NEW f \in Frames, f <= header.mxFrame \/ q < f
        PROVE  \A a \in Choices(f)' : a # None => a.data < transaction /\ a.after < transaction
    <3>0. f \in Nat /\ q \in Nat /\ q = iFrame + 1 /\ iFrame \in Nat /\ header.mxFrame \in Nat
          /\ header.mxFrame <= iFrame
      BY <1>0, <1>1, <1>6
    <3>1. f # q /\ (f <= header.mxFrame \/ iFrame < f)
      <4>1. CASE f <= header.mxFrame
        BY <3>0, <4>1
      <4>2. CASE q < f
        BY <3>0, <4>2
      <4> QED  BY <2>2, <4>1, <4>2
    <3> QED  BY <1>2, <1>5, <3>1 DEF DraftInv
  <2>3. ASSUME NEW f \in header.mxFrame + 1..q
        PROVE  /\ log'.frames[f] # None /\ log'.frames[f].data = transaction
               /\ log'.frames[f].commit => commit /\ f = q
    <3>1. CASE f = q
      BY <1>3, <3>1
    <3>2. CASE f # q
      <4>1. f \in header.mxFrame + 1..iFrame /\ f \in 1..iFrame
        BY <1>0, <1>1, <2>3, <3>2
      <4>2. log.frames[f] # None /\ log.frames[f].data = transaction /\ (log.frames[f].commit => Sealed)
        BY <1>5, <4>1 DEF DraftInv
      <4>3. log'.frames[f] = log.frames[f]
        BY <1>2, <1>7, <4>1
      <4> QED  BY <1>5, <4>2, <4>3
    <3> QED  BY <3>1, <3>2
  <2> QED  BY <1>4, <1>5, <1>13, <2>1, <2>2, <2>3 DEF DraftInv
<1>17. PenInv'
  <2>1. hdr[c].salt # transaction =>
        \A f \in Frames : \A a \in Choices(f)' : a # None => a.salt < transaction
    <3>1. SUFFICES ASSUME hdr[c].salt # transaction, NEW f \in Frames, NEW a \in Choices(f)', a # None
                   PROVE  a.salt < transaction
      OBVIOUS
    <3>2. \A x \in Choices(f) : x # None => x.salt < transaction
      BY <1>1, <1>5, <3>1 DEF PenInv
    <3>3. CASE f = q
      BY <1>1, <1>3, <1>14, <3>1, <3>2, <3>3
    <3>4. CASE f # q
      BY <1>2, <3>1, <3>2, <3>4
    <3> QED  BY <3>3, <3>4
  <2>2. ValidTo(log.salt, log'.frames, q)
    <3>1. ASSUME NEW f \in 1..q
          PROVE  /\ log'.frames[f] # None
                 /\ log'.frames[f].salt = log.salt
                 /\ log'.frames[f].after = IF f = 1 THEN 0 ELSE log'.frames[f - 1].data
      <4>1. CASE f = q
        <5>1. f = 1 <=> iFrame = 0
          BY <1>0, <1>1, <4>1
        <5>2. f # 1 => f - 1 = iFrame /\ log'.frames[f - 1] = log.frames[iFrame]
          <6>1. f # 1 => f - 1 = iFrame /\ iFrame \in 1..iFrame
            BY <1>0, <1>1, <4>1
          <6> QED  BY <1>2, <1>7, <6>1
        <5> QED  BY <1>3, <4>1, <5>1, <5>2
      <4>2. CASE f # q
        <5>1. f \in 1..iFrame /\ iFrame > 0 /\ (f # 1 => f - 1 \in 1..iFrame)
          BY <1>0, <1>1, <4>2
        <5>2. log'.frames[f] = log.frames[f] /\ (f # 1 => log'.frames[f - 1] = log.frames[f - 1])
          BY <1>2, <1>7, <5>1
        <5> QED  BY <1>8, <5>1, <5>2 DEF ValidTo
      <4> QED  BY <4>1, <4>2
    <3> QED  BY <1>1, <3>1 DEF ValidTo
  <2>3. header.mxFrame < q
    BY <1>0, <1>1
  <2>4. /\ at[writer] \in Pens \/ hdr[writer].mxFrame > 0 => hdr[writer].salt = log.salt /\ log.salt # 0
        /\ header.salt # 0 => hdr[writer].salt = header.salt
    BY <1>5 DEF PenInv
  <2> QED  BY <1>1, <1>4, <1>5, <2>1, <2>2, <2>3, <2>4 DEF PenInv, Pens, Waits
<1>18. IndexInv'
  <2>1. \A f \in 1..header.mxFrame : log'.frames[f] = log.frames[f]
    <3>1. \A f \in 1..header.mxFrame : f \in 1..iFrame
      BY <1>1
    <3> QED  BY <1>2, <1>7, <3>1
  <2>2. \A f \in 1..hdr[c].mxFrame : log'.frames[f] = log.frames[f]
    <3>1. \A f \in 1..hdr[c].mxFrame : f \in 1..iFrame
      BY <1>1
    <3> QED  BY <1>2, <1>7, <3>1
  <2> QED  BY <1>1, <1>4, <1>5, <2>1, <2>2 DEF IndexInv
<1>19. SaltInv' /\ Strict'
  BY <1>1, <1>4 DEF SaltInv, Strict
<1>20. EmptyInv' /\ BackInv'
  BY <1>4, <1>5, <1>9 DEF EmptyInv, BackInv
<1> QED  BY <1>0, <1>5, <1>9, <1>10, <1>15, <1>16, <1>17, <1>18, <1>19, <1>20

\* The chain of the log goes on with the frame, if that is the last of a transaction.
LEMMA WriteFrameKeepsChain ==
  ASSUME WalInv, StoreInv, NEW c \in Connection, NEW p \in Page, NEW commit \in BOOLEAN,
         WriteFrame(c, p, commit)
  PROVE  DiskInv'
<1> USE DEF StoreInv
<1>0. PICK q : q = iFrame + 1
  OBVIOUS
<1>1. /\ writer = c /\ header # None /\ header.mxFrame \in Nat /\ header.mxFrame <= iFrame
      /\ iFrame \in Nat /\ iFrame' = q /\ q \in Frames
      /\ transaction \in Nat /\ saltMay = {} /\ log'.salt = log.salt /\ log.salt # 0
  BY <1>0, WriteFrameIs
<1>2. \A f \in Frames : f # q =>
        log'.frames[f] = log.frames[f] /\ logMay'[f] = logMay[f] /\ Choices(f)' = Choices(f)
  BY <1>0, WriteFrameIs
<1>3. /\ log'.frames[q] # None /\ log'.frames[q].data = transaction /\ log'.frames[q].commit = commit
      /\ Choices(q)' = Choices(q) \cup {log'.frames[q], None}
  <2>1. \A f \in Frames : f = iFrame + 1 =>
              /\ log'.frames[f] # None /\ log'.frames[f].data = transaction
              /\ log'.frames[f].commit = commit
              /\ Choices(f)' = Choices(f) \cup {log'.frames[f], None}
    BY WriteFrameIs
  <2> QED  BY <1>0, <1>1, <2>1
<1>4. UNCHANGED <<header, writer, ckpt, db, saltMay, dbMay, transaction, store, sure>>
  BY WriteFrameIs
<1>5. /\ StoreTypes' /\ FrameInv' /\ DraftInv' /\ PenInv'
      /\ Writing /\ Writing' /\ ~Sealed /\ (Sealed' <=> commit) /\ Top = iFrame /\ Top' = q
      /\ Tied /\ Tied' /\ (Copying' <=> Copying)
  BY <1>0, WriteFrameKeepsRest
<1>6. PICK s : s = log.salt
  OBVIOUS
<1>7. PICK F : F = log.frames
  OBVIOUS
<1>8. PICK G : G = log'.frames
  OBVIOUS
<1>9. s \in Salts /\ Salts' = {s} /\ s # 0
  BY <1>1, <1>4, <1>6 DEF Salts
<1>10. PICK b \in 1..Len(States) : \E e \in [b..Len(States) -> 0..MaxFrame] : Chain(s, b, e)
  BY <1>9 DEF DiskInv
<1>11. PICK e \in [b..Len(States) -> 0..MaxFrame] : Chain(s, b, e)
  BY <1>10
<1>12. PICK n : n = Len(store)
  OBVIOUS
<1>13. /\ n \in Nat /\ b \in Nat /\ b \in 1..n /\ n = Len(States) /\ States = store
       /\ \A i \in b..n : i \in Nat /\ e[i] \in 0..MaxFrame /\ e[i] \in Nat
       /\ \A i, j \in b..n : i < j => e[i] < e[j]
       /\ \A i, j \in b..n : i <= j => e[i] <= e[j]
       /\ Sure(b) \in b..n
  BY <1>5, <1>11, <1>12, StatesAre, ChainRises DEF WalInv, Chain, States
<1>14. e[b] = 0 /\ n \in b..n /\ e[n] = header.mxFrame /\ \A i \in b..n : e[i] <= iFrame /\ e[i] < q
  <2>1. e[b] = 0 /\ n \in b..n /\ e[n] = header.mxFrame
    BY <1>5, <1>6, <1>11, <1>12, <1>13 DEF Chain, Chained, Linked
  <2>2. \A i \in b..n : e[i] <= e[n]
    BY <1>13, <2>1
  <2> QED  BY <1>0, <1>1, <1>13, <2>1, <2>2
<1>15. \A f \in 1..iFrame : f \in Frames /\ f # q /\ G[f] = F[f] /\ logMay'[f] = logMay[f]
  <2>1. \A f \in 1..iFrame : f \in Frames /\ f # q
    BY <1>0, <1>1, WalAssumption DEF Frames
  <2> QED  BY <1>2, <1>7, <1>8, <2>1
<1>16. ASSUME NEW i \in b..n
       PROVE  /\ \A f \in 1..e[i] : f \in 1..iFrame /\ G[f] = F[f]
              /\ StateAfter(G, store[b], e[i]) = store[i]
  <2>1. e[i] \in Nat /\ \A f \in 1..e[i] : f \in 1..iFrame /\ G[f] = F[f]
    <3>1. \A f \in 1..e[i] : f \in 1..iFrame
      BY <1>1, <1>13, <1>14
    <3> QED  BY <1>13, <1>15, <3>1
  <2>2. StateAfter(G, store[b], e[i]) = StateAfter(F, store[b], e[i])
    <3>1. \A d : StateAfter(G, d, e[i]) = StateAfter(F, d, e[i])
      BY <2>1, SameFrames
    <3> QED  BY <3>1
  <2>3. store[i] = StateAfter(F, store[b], e[i])
    BY <1>7, <1>11, <1>13 DEF Chain, Chained
  <2> QED  BY <2>1, <2>2, <2>3
<1>17. \A i \in b + 1..n : i \in b..n /\ e[i] \in 1..e[i] /\ G[e[i]].commit
  <2>1. ASSUME NEW i \in b + 1..n  PROVE i \in b..n /\ e[i] \in 1..e[i] /\ G[e[i]].commit
    <3>1. i \in b..n /\ b < i /\ b \in b..n
      BY <1>13
    <3>2. e[i] \in 1..e[i]
      BY <1>13, <1>14, <3>1
    <3>3. F[e[i]].commit
      BY <1>7, <1>11, <1>13 DEF Chain, Chained
    <3> QED  BY <1>16, <3>1, <3>2, <3>3
  <2> QED  BY <2>1
<1>18. ValidTo(s, G, q)
  BY <1>0, <1>1, <1>5, <1>6, <1>8 DEF PenInv
\* What else may be found than before is the frame that is written, at the end.
<1>19. ASSUME NEW m \in Frames, NEW g, Chosen(g)', ValidTo(s, g, m), g[m].commit
       PROVE  \/ (\E i \in b..n : m = e[i]) /\ \A f \in 1..m : g[f] = G[f]
              \/ commit /\ m = q /\ g[q] = G[q]
  <2>0. m \in Nat /\ m \in 1..m /\ \A f \in 1..m : f \in Frames
    BY <1>19, WalAssumption DEF Frames
  <2>1. \A f \in 1..m : g[f] # None /\ g[f].after = IF f = 1 THEN 0 ELSE g[f - 1].data
    BY <1>19 DEF ValidTo
  <2>2. \A f \in Frames : f # q => g[f] \in Choices(f)
    BY <1>2, <1>19 DEF Chosen
  <2>3. \A h : Chosen(h) /\ ValidTo(s, h, m) /\ h[m].commit =>
          (\E i \in b..n : m = e[i]) /\ \A f \in 1..m : h[f] = F[f]
    BY <1>7, <1>11, <1>13 DEF Chain, Found
  <2>4. CASE m < q
    <3>1. PICK h : h = [f \in Frames |-> IF f = q THEN F[q] ELSE g[f]]
      OBVIOUS
    <3>2. Chosen(h)
      BY <1>1, <1>7, <2>2, <3>1 DEF Chosen, Choices
    <3>3. \A f \in 1..m : h[f] = g[f]
      <4>1. \A f \in 1..m : f \in Frames /\ f # q
        BY <1>0, <1>1, <2>0, <2>4
      <4> QED  BY <3>1, <4>1
    <3>4. ValidTo(s, h, m)
      <4>1. \A f \in 1..m : g[f] = h[f]
        BY <3>3
      <4> QED  BY <1>19, <2>0, <4>1, ValidSame
    <3>5. (\E i \in b..n : m = e[i]) /\ \A f \in 1..m : h[f] = F[f]
      BY <1>19, <2>0, <2>3, <3>2, <3>3, <3>4
    <3>6. \A f \in 1..m : f \in 1..iFrame
      BY <1>0, <1>1, <2>0, <2>4
    <3> QED  BY <1>15, <3>3, <3>5, <3>6
  <2>5. CASE ~(m < q)
    <3>1. q \in 1..m
      BY <1>0, <1>1, <2>0, <2>5
    <3>2. g[q] \in Choices(q) \/ g[q] = G[q]
      BY <1>1, <1>3, <1>8, <1>19, <2>1, <3>1 DEF Chosen
    <3>3. g[q] \notin Choices(q)
      <4>1. SUFFICES ASSUME g[q] \in Choices(q)  PROVE FALSE
        OBVIOUS
      <4>2. Chosen(g)
        BY <2>2, <4>1 DEF Chosen
      <4>3. PICK i \in b..n : m = e[i]
        BY <1>19, <2>3, <4>2
      <4> QED  BY <1>0, <1>1, <1>13, <1>14, <2>5, <4>3
    <3>4. g[q] = G[q] /\ g[q].data = transaction /\ g[q].commit = commit
      BY <1>3, <1>8, <3>2, <3>3
    <3>5. m = q
      <4>1. SUFFICES ASSUME m # q  PROVE FALSE
        OBVIOUS
      <4>2. q + 1 \in 1..m /\ q + 1 # 1 /\ (q + 1) - 1 = q /\ q + 1 # q /\ iFrame < q + 1
        BY <1>0, <1>1, <2>0, <2>5, <4>1
      <4>3. g[q + 1].after = transaction /\ g[q + 1] # None
        BY <2>1, <3>4, <4>2
      <4>4. q + 1 \in Frames /\ g[q + 1] \in Choices(q + 1)
        BY <2>0, <2>2, <4>2
      <4>5. g[q + 1].after < transaction
        BY <1>5, <4>2, <4>3, <4>4 DEF DraftInv
      <4> QED  BY <1>1, <4>3, <4>5
    <3> QED  BY <1>19, <3>4, <3>5
  <2> QED  BY <2>4, <2>5
<1>20. Sure(b)' = Sure(b)
  BY <1>4 DEF Sure
<1>21. /\ \A f \in 1..e[Sure(b)] : logMay'[f] = {}
       /\ \A x \in Page : \/ dbMay'[x] = {} /\ db'[x] = store[b][x]
                          \/ \E f \in 1..e[Sure(b)] : G[f].page = x
  <2>1. \A f \in 1..e[Sure(b)] : f \in 1..iFrame /\ G[f] = F[f]
    BY <1>13, <1>16
  <2>2. /\ \A f \in 1..e[Sure(b)] : logMay[f] = {}
        /\ \A x \in Page : \/ dbMay[x] = {} /\ db[x] = store[b][x]
                           \/ \E f \in 1..e[Sure(b)] : F[f].page = x
    BY <1>7, <1>11, <1>13 DEF Chain, Durable
  <2> QED  BY <1>4, <1>15, <2>1, <2>2
<1>22. Copying => ckpt.mxSafeFrame <= e[Sure(b)]
  BY <1>11 DEF Chain, Linked
<1>23. CASE ~commit
  <2>1. States' = store /\ Len(States') = n /\ Len(store') = n
    BY <1>4, <1>5, <1>12, <1>23 DEF States
  <2>2. Chained(s, b, e)'
    <3>1. e[n] > 0 => ValidTo(s, G, e[n])
      <4>1. e[n] \in 0..q /\ q \in Nat
        BY <1>0, <1>1, <1>13, <1>14
      <4> QED  BY <1>18, <4>1, ValidBefore
    <3> QED  BY <1>8, <1>11, <1>13, <1>14, <1>16, <1>17, <2>1, <3>1 DEF Chained
  <2>3. Durable(b, e)'
    BY <1>8, <1>20, <1>21, <2>1 DEF Durable
  <2>4. Found(s, b, e)'
    BY <1>8, <1>19, <1>23, <2>1 DEF Found
  <2>5. Linked(s, b, e)'
    BY <1>4, <1>5, <1>14, <1>20, <1>22, <1>23, <2>1 DEF Linked
  <2> QED  BY <1>9, <1>11, <1>13, <2>1, <2>2, <2>3, <2>4, <2>5 DEF DiskInv, Chain
<1>24. CASE commit
  <2>0. PICK D : D = Draft'
    OBVIOUS
  <2>1. States' = Append(store, D) /\ Len(States') = n + 1 /\ Len(store') = n
        /\ (\A i \in 1..n : States'[i] = store[i]) /\ States'[n + 1] = D
    <3>1. States' = Append(store, D) /\ Len(store') = n
      BY <1>4, <1>5, <1>12, <1>24, <2>0 DEF States
    <3>2. PICK S : store \in Seq(S)
      BY DEF WalInv, HistoryInv
    <3> QED  BY <1>12, <3>1, <3>2, OneMore
  <2>2. PICK k : k = [i \in b..n + 1 |-> IF i = n + 1 THEN q ELSE e[i]]
    OBVIOUS
  <2>3. /\ b \in 1..n + 1 /\ n + 1 \in b..n + 1 /\ k[n + 1] = q
        /\ \A i \in b..n : i \in b..n + 1 /\ k[i] = e[i]
        /\ \A i \in b..n + 1 : i \in b..n \/ i = n + 1
    BY <1>13, <2>2
  <2>4. k \in [b..n + 1 -> 0..MaxFrame]
    <3>1. q \in 0..MaxFrame
      BY <1>1, WalAssumption DEF Frames
    <3> QED  BY <1>13, <2>2, <2>3, <3>1
  <2>5. StateAfter(G, store[b], q) = D
    <3>1. ASSUME NEW x \in Page
          PROVE  (IF FrameIn(G, q, x) = 0 THEN store[b][x] ELSE G[FrameIn(G, q, x)].data) = D[x]
      <4> DEFINE i == FrameIn(G, q, x)
                 j == FrameIn(G, header.mxFrame, x)
      <4>1. /\ i \in 0..q /\ (i # 0 => G[i].page = x)
            /\ \A h \in 1..q : G[h].page = x => h <= i
        <5>1. q \in Nat
          BY <1>0, <1>1
        <5> QED  BY <5>1, FrameInIs
      <4>2. D[x] = IF x \in Logged' THEN transaction ELSE store[n][x]
        BY <1>4, <1>12, <2>0 DEF Draft, Last
      <4>3. store[n][x] = IF j = 0 THEN store[b][x] ELSE G[j].data
        <5>1. store[n] = StateAfter(G, store[b], header.mxFrame)
          BY <1>14, <1>16
        <5> QED  BY <5>1 DEF StateAfter
      <4> HIDE DEF i
      <4>4. CASE i <= header.mxFrame
        <5>1. j = i
          <6>1. i \in 0..header.mxFrame
            BY <1>0, <1>1, <4>1, <4>4
          <6>2. \A h \in 1..header.mxFrame : h \in 1..q
            BY <1>0, <1>1
          <6> QED  BY <1>1, <4>1, <6>1, <6>2, FrameInUnique
        <5>2. x \notin Logged'
          <6>1. SUFFICES ASSUME NEW f \in Frames, G[f] # None, G[f].data = transaction,
          G[f].page = x
                         PROVE  FALSE
            BY <1>4, <1>8 DEF Logged
          <6>2. G[f] \in Choices(f)'
            BY <1>8 DEF Choices
          <6>3. ~(f <= header.mxFrame \/ q < f)
            <7>1. f <= header.mxFrame \/ q < f => G[f].data < transaction
              BY <1>4, <1>5, <6>1, <6>2 DEF DraftInv
            <7> QED  BY <1>1, <6>1, <7>1
          <6>4. f \in Nat /\ q \in Nat /\ f > 0
            BY <1>0, <1>1, WalAssumption DEF Frames
          <6>5. f \in 1..q
            BY <6>3, <6>4
          <6>6. f <= i
            BY <4>1, <6>1, <6>5
          <6> QED  BY <1>1, <4>1, <4>4, <6>3, <6>4, <6>6
        <5> QED  BY <4>2, <4>3, <5>1, <5>2 DEF i
      <4>5. CASE ~(i <= header.mxFrame)
        <5>1. i \in header.mxFrame + 1..q /\ i # 0 /\ i \in Frames
          BY <1>0, <1>1, <4>1, <4>5, WalAssumption DEF Frames
        <5>2. G[i] # None /\ G[i].data = transaction
          BY <1>4, <1>5, <1>8, <5>1 DEF DraftInv
        <5>3. x \in Logged'
          BY <1>4, <1>8, <4>1, <5>1, <5>2 DEF Logged
        <5> QED  BY <4>2, <5>1, <5>2, <5>3 DEF i
      <4> QED  BY <4>4, <4>5
    <3>2. D = [x \in Page |-> D[x]]
      BY <2>0 DEF Draft
    <3>3. StateAfter(G, store[b], q) = [x \in Page |-> D[x]]
      BY <3>1 DEF StateAfter
    <3> QED  BY <3>2, <3>3
  <2>6. Chained(s, b, k)'
    <3>1. k[b] = 0
      BY <1>13, <1>14, <2>3
    <3>2. \A i, j \in b..n + 1 : i < j => k[i] < k[j]
      <4>1. ASSUME NEW i \in b..n + 1, NEW j \in b..n + 1, i < j  PROVE k[i] < k[j]
        <5>1. i \in b..n
          BY <1>13, <4>1
        <5>2. CASE j = n + 1
          BY <1>14, <2>3, <5>1, <5>2
        <5>3. CASE j \in b..n
          BY <1>13, <2>3, <4>1, <5>1, <5>3
        <5> QED  BY <2>3, <5>2, <5>3
      <4> QED  BY <4>1
    <3>3. ValidTo(s, G, k[n + 1])
      BY <1>18, <2>3
    <3>4. \A i \in b + 1..n + 1 : G[k[i]].commit
      <4>1. ASSUME NEW i \in b + 1..n + 1  PROVE G[k[i]].commit
        <5>1. CASE i = n + 1
          BY <1>3, <1>8, <1>24, <2>3, <5>1
        <5>2. CASE i # n + 1
          <6>1. i \in b + 1..n
            BY <1>13, <5>2
          <6> QED  BY <1>17, <2>3, <6>1
        <5> QED  BY <5>1, <5>2
      <4> QED  BY <4>1
    <3>5. \A i \in b..n + 1 : States'[i] = StateAfter(G, States'[b], k[i])
      <4>1. States'[b] = store[b]
        BY <1>13, <2>1
      <4>2. ASSUME NEW i \in b..n  PROVE States'[i] = StateAfter(G, store[b], k[i])
        BY <1>13, <1>16, <2>1, <2>3
      <4>3. States'[n + 1] = StateAfter(G, store[b], k[n + 1])
        BY <2>1, <2>3, <2>5
      <4> QED  BY <2>3, <4>1, <4>2, <4>3
    <3> QED  BY <1>8, <2>1, <2>3, <2>4, <3>1, <3>2, <3>3, <3>4, <3>5 DEF Chained
  <2>7. k[Sure(b)] = e[Sure(b)] /\ States'[b] = store[b]
    BY <1>13, <2>1, <2>3
  <2>8. Durable(b, k)'
    BY <1>8, <1>20, <1>21, <2>7 DEF Durable
  <2>9. Found(s, b, k)'
    <3>1. ASSUME NEW m \in Frames, NEW g, Chosen(g)', ValidTo(s, g, m), g[m].commit
          PROVE  (\E i \in b..n + 1 : m = k[i]) /\ \A f \in 1..m : g[f] = G[f]
      <4>1. CASE (\E i \in b..n : m = e[i]) /\ \A f \in 1..m : g[f] = G[f]
        BY <2>3, <4>1
      <4>2. CASE m = q /\ g[q] = G[q]
        <5>1. q \in Nat /\ \A f \in 1..q : f \in Frames
          BY <1>0, <1>1, WalAssumption DEF Frames
        <5>2. ASSUME NEW f \in 1..q, g[f].data = G[f].data  PROVE g[f] = G[f]
          <6>1. g[f] \in Choices(f)' /\ G[f] \in Choices(f)' /\ g[f] # None /\ G[f] # None
            BY <1>8, <1>18, <3>1, <4>2, <5>1 DEF Chosen, Choices, ValidTo
          <6> QED  BY <1>5, <5>1, <5>2, <6>1 DEF FrameInv
        <5>3. \A f \in 1..q : g[f] = G[f]
          BY <1>18, <3>1, <4>2, <5>1, <5>2, Agree
        <5> QED  BY <2>3, <4>2, <5>3
      <4> QED  BY <1>19, <3>1, <4>1, <4>2
    <3> QED  BY <1>8, <2>1, <3>1 DEF Found
  <2>10. Linked(s, b, k)'
    <3>1. k[n] = header.mxFrame
      BY <1>14, <2>3
    <3> QED  BY <1>1, <1>4, <1>5, <1>20, <1>22, <2>1, <2>3, <2>7, <3>1 DEF Linked
  <2>11. \E h \in 1..Len(States') : \E j \in [h..Len(States') -> 0..MaxFrame] : Chain(s, h, j)'
    <3>1. Chain(s, b, k)'
      BY <2>6, <2>8, <2>9, <2>10 DEF Chain
    <3>2. b \in 1..Len(States') /\ k \in [b..Len(States') -> 0..MaxFrame]
      BY <2>1, <2>3, <2>4
    <3> QED  BY <3>1, <3>2
  <2> QED  BY <1>9, <2>11 DEF DiskInv
<1> QED  BY <1>23, <1>24

LEMMA WriteFrameKeepsStore ==
  ASSUME WalInv, StoreInv, NEW c \in Connection, NEW p \in Page, NEW commit \in BOOLEAN,
         WriteFrame(c, p, commit)
  PROVE  StoreInv'
BY WriteFrameKeepsRest, WriteFrameKeepsChain DEF StoreInv

-----------------------------------------------------------------------------
(***************************************************************************)
(* Crashes: what was written is found again, and all that is durable.      *)
(***************************************************************************)

\* The states that may be found are one another's predecessors and no two the same.
LEMMA StatesAreStrict ==
  ASSUME WalInv, StoreInv
  PROVE  \A i, j \in 1..Len(States) : i < j => States[i] # States[j]
<1> USE DEF StoreInv
<1>1. /\ Len(store) \in Nat /\ Len(States) \in Nat
      /\ ~Sealed => States = store
      /\ Sealed => Len(States) = Len(store) + 1 /\ States[Len(store) + 1] = Draft
      /\ Len(store) <= Len(States)
      /\ \A i \in 1..Len(store) : States[i] = store[i]
  BY StatesAre DEF WalInv
<1>2. ASSUME NEW i \in 1..Len(States), NEW j \in 1..Len(States), i < j  PROVE States[i] # States[j]
  <2>1. i \in 1..Len(store)
    BY <1>1, <1>2
  <2>2. CASE j \in 1..Len(store)
    BY <1>1, <1>2, <2>1, <2>2 DEF Strict
  <2>3. CASE j \notin 1..Len(store)
    <3>1. Sealed /\ j = Len(store) + 1
      BY <1>1, <2>3
    <3>2. PICK p \in Page : Draft[p] = transaction /\ \A k \in 1..Len(store) : store[k][p] < transaction
      BY <3>1, DraftIsNew
    <3>3. store[i][p] # transaction
      BY <2>1, <3>2 DEF WalInv, WalTypes, StoreTypes
    <3> QED  BY <1>1, <2>1, <3>1, <3>2, <3>3
  <2> QED  BY <2>2, <2>3
<1> QED  BY <1>2

\* What is left after a crash is what was committed, up to the state that is found.
LEMMA LeftIs ==
  ASSUME WalInv, StoreInv, NEW i \in 1..Len(States), NEW l, NEW d, StateOf(l, d) = States[i]
  PROVE  /\ Left(l, d) = SubSeq(States, 1, i) /\ Len(Left(l, d)) = i
         /\ \A j \in 1..i : Left(l, d)[j] = States[j]
         /\ i = Len(States) => Left(l, d) = States
<1> USE DEF StoreInv
<1>1. /\ Len(store) \in Nat /\ Len(States) \in Nat
      /\ ~Sealed => States = store
      /\ Sealed => Len(States) = Len(store) + 1 /\ States[Len(store) + 1] = Draft
      /\ Len(store) <= Len(States)
      /\ \A j \in 1..Len(store) : States[j] = store[j]
  BY StatesAre DEF WalInv
<1>2. \A j, k \in 1..Len(States) : j < k => States[j] # States[k]
  BY StatesAreStrict
<1>3. PICK T : T = [Page -> 0..transaction]
  OBVIOUS
<1>4. (\A j \in 1..Len(States) : States[j] \in T) /\ Draft \in T
  BY <1>3, StatesTyped DEF WalInv, WalTypes
<1>5. store \in Seq(T)
  <2>1. PICK S : store \in Seq(S)
    BY DEF WalInv, HistoryInv
  <2>2. \A j \in 1..Len(store) : store[j] \in T
    BY <1>3 DEF StoreTypes
  <2>3. SubSeq(store, 1, Len(store)) \in Seq(T)
    BY <1>1, <2>2, SubSeqProperties
  <2> QED  BY <2>1, <2>3, SubSeqFull
<1>6. States \in Seq(T)
  BY <1>4, <1>5 DEF States
<1>7. PICK q : q = SubSeq(States, 1, i)
  OBVIOUS
<1>8. q \in Seq(T) /\ Len(q) = i /\ \A j \in 1..i : q[j] = States[j]
  <2>1. i \in Nat /\ i >= 1 /\ \A j \in 1..i : j \in 1..Len(States) /\ 1 + j - 1 = j
    BY <1>1
  <2>2. \A j \in 1..i : States[j] \in T
    BY <1>4, <2>1
  <2>3. /\ SubSeq(States, 1, i) \in Seq(T)
        /\ Len(SubSeq(States, 1, i)) = IF 1 <= i THEN i - 1 + 1 ELSE 0
        /\ \A j \in 1..i - 1 + 1 : SubSeq(States, 1, i)[j] = States[1 + j - 1]
    BY <2>1, <2>2, SubSeqProperties
  <2> QED  BY <1>7, <2>1, <2>3
<1>9. i = Len(States) => q = States
  BY <1>6, <1>7, SubSeqFull
<1> DEFINE N == {j \in 1..Len(store) : store[j] = States[i]}
<1>10. Left(l, d) = IF MaxOf(N) = 0 THEN Append(store, States[i]) ELSE SubSeq(store, 1, MaxOf(N))
  BY DEF Left
<1>11. CASE i <= Len(store)
  <2>1. N = {i} /\ i \in Nat /\ i # 0
    BY <1>1, <1>2, <1>11
  <2>2. MaxOf(N) = i
    BY <2>1 DEF MaxOf
  <2>3. Left(l, d) = SubSeq(store, 1, i)
    BY <1>10, <2>1, <2>2
  <2>4. /\ SubSeq(store, 1, i) \in Seq(T)
        /\ Len(SubSeq(store, 1, i)) = i
        /\ \A j \in 1..i : SubSeq(store, 1, i)[j] = States[j]
    <3>1. i >= 1 /\ \A j \in 1..i : j \in 1..Len(store) /\ j \in 1..Len(States) /\ 1 + j - 1 = j
      BY <1>1, <1>11
    <3>2. \A j \in 1..i : store[j] \in T
      BY <1>1, <1>4, <3>1
    <3>3. /\ SubSeq(store, 1, i) \in Seq(T)
          /\ Len(SubSeq(store, 1, i)) = IF 1 <= i THEN i - 1 + 1 ELSE 0
          /\ \A j \in 1..i - 1 + 1 : SubSeq(store, 1, i)[j] = store[1 + j - 1]
      BY <2>1, <3>1, <3>2, SubSeqProperties
    <3> QED  BY <1>1, <2>1, <3>1, <3>3
  <2>5. SubSeq(store, 1, i) = q
    BY <1>8, <2>4, SeqEqual
  <2> QED  BY <1>7, <1>8, <1>9, <2>3, <2>5
<1>12. CASE ~(i <= Len(store))
  <2>1. Sealed /\ i = Len(store) + 1 /\ i = Len(States)
    BY <1>1, <1>12
  <2>2. N = {}
    BY <1>1, <1>2, <2>1
  <2>3. MaxOf(N) = 0
    BY <2>2 DEF MaxOf
  <2>4. Left(l, d) = States
    BY <1>1, <1>10, <2>1, <2>3 DEF States
  <2> QED  BY <1>7, <1>8, <1>9, <2>1, <2>4
<1> QED  BY <1>11, <1>12

\* After a crash nobody does anything, and what was committed is that which will be found.
LEMMA CrashKeepsRest ==
  ASSUME WalInv, StoreInv, Crash, NEW i \in 1..Len(States), sure <= i,
         StateOf(log', db') = States[i],
         log'.frames \in [Frames -> Frame \cup {None}], DOMAIN logMay' = Frames,
         db' \in [Page -> 0..transaction \cup {Torn}],
         dbMay' \in [Page -> SUBSET (0..transaction \cup {Torn})],
         \A f \in Frames : Choices(f)' \subseteq Choices(f),
         saltMay' # {} => log' = log /\ saltMay' = saltMay
  PROVE  /\ StoreTypes' /\ FrameInv' /\ DraftInv' /\ PenInv' /\ IndexInv' /\ SaltInv' /\ Strict'
         /\ EmptyInv' /\ BackInv' /\ ReadInv' /\ CopyInv'
         /\ States' = SubSeq(States, 1, i) /\ store' = States' /\ Len(States') = i
         /\ \A j \in 1..i : States'[j] = States[j]
         /\ i = Len(States) => States' = States
         /\ ~Tied' /\ ~Sealed' /\ ~Copying'
<1> USE DEF StoreInv
<1>1. /\ header' = None /\ writer' = None /\ iFrame' = 0
      /\ aPgno' = [f \in Frames |-> None]
      /\ at' = [c \in Connection |-> "idle"] /\ hdr' = [c \in Connection |-> NoHeader]
      /\ minFrame' = [c \in Connection |-> 0]
      /\ transaction' = transaction /\ sure' = sure
      /\ store' = Left(log', db')
  BY DEF Crash
<1>2. ~Writing' /\ ~Sealed' /\ ~Tied' /\ ~Copying'
  BY <1>1 DEF Writing, Sealed, Tied, Copying
<1>3. States' = store'
  BY <1>2 DEF States
<1>4. /\ store' = SubSeq(States, 1, i) /\ Len(store') = i
      /\ \A j \in 1..i : store'[j] = States[j]
      /\ i = Len(States) => store' = States
  <2>1. \A l, d : StateOf(l, d) = States[i] =>
          /\ Left(l, d) = SubSeq(States, 1, i) /\ Len(Left(l, d)) = i
          /\ \A j \in 1..i : Left(l, d)[j] = States[j]
          /\ i = Len(States) => Left(l, d) = States
    BY LeftIs
  <2> QED  BY <1>1, <2>1
<1>5. \A j \in 1..i : j \in 1..Len(States)
  <2>1. Len(States) \in Nat
    BY StatesAre DEF WalInv
  <2> QED  BY <2>1
<1>6. StoreTypes'
  <2>1. \A j \in 1..i : store'[j] \in [Page -> 0..transaction]
    BY <1>4, <1>5, StatesTyped DEF WalInv, WalTypes
  <2>2. sure \in 1..i
    <3>1. Len(States) \in Nat /\ sure \in Nat /\ 1 <= sure
      BY StatesAre DEF WalInv, StoreTypes
    <3> QED  BY <3>1
  <2>3. \A c \in Connection : hdr'[c].mxFrame <= MaxFrame
    BY <1>1, WalAssumption DEF NoHeader
  <2>4. \A f \in Frames : logMay'[f] \subseteq Frame \cup {None}
    <3>1. \A f \in Frames : Choices(f) \subseteq Frame \cup {None}
      BY DEF StoreTypes, Choices
    <3>2. \A f \in Frames : logMay'[f] \subseteq Choices(f)'
      BY DEF Choices
    <3> QED  BY <3>1, <3>2
  <2>5. iFrame' <= MaxFrame
    BY <1>1, WalAssumption
  <2>6. DOMAIN aPgno' = Frames /\ minFrame' \in [Connection -> Nat]
    BY <1>1
  <2> QED  BY <1>1, <1>4, <2>1, <2>2, <2>3, <2>4, <2>5, <2>6 DEF StoreTypes
<1>7. FrameInv'
  BY <1>1 DEF FrameInv
<1>8. DraftInv' /\ PenInv' /\ IndexInv'
  BY <1>1, <1>2 DEF DraftInv, PenInv, IndexInv
<1>9. SaltInv'
  <2>1. \A s : Empty(s) => Empty(s)'
    BY DEF Empty, Chosen
  <2> QED  BY <1>1, <1>2, <2>1 DEF SaltInv
<1>10. Strict'
  <2>1. \A j, k \in 1..Len(States) : j < k => States[j] # States[k]
    BY StatesAreStrict
  <2> QED  BY <1>4, <1>5, <2>1 DEF Strict
<1>11. EmptyInv' /\ BackInv'
  BY <1>1 DEF EmptyInv, BackInv
<1>12. ReadInv' /\ CopyInv'
  BY <1>1 DEF ReadInv, CopyInv, ReadsWell, CopiesWell, Reads, Writes, Backfills
<1> QED  BY <1>2, <1>3, <1>4, <1>6, <1>7, <1>8, <1>9, <1>10, <1>11, <1>12

\* What was written is found after the process has ended, all of it.
LEMMA KillFinds ==
  ASSUME WalInv, StoreInv
  PROVE  StateOf(log, db) = States[Len(States)] /\ Len(States) \in 1..Len(States) /\ sure <= Len(States)
<1> USE DEF StoreInv
<1>1. PICK s : s = log.salt
  OBVIOUS
<1>2. PICK b \in 1..Len(States) : \E e \in [b..Len(States) -> 0..MaxFrame] : Chain(s, b, e)
  BY <1>1 DEF DiskInv, Salts
<1>3. PICK e \in [b..Len(States) -> 0..MaxFrame] : Chain(s, b, e)
  BY <1>2
<1>4. PICK g : g = log.frames
  OBVIOUS
<1>5. log = [salt |-> s, frames |-> g] /\ Chosen(g)
  BY <1>1, <1>4 DEF WalInv, WalTypes, Chosen, Choices
<1>6. \A d : (\A p \in Page : d[p] \in dbMay[p] \cup {db[p]}) =>
         \E i \in b..Len(States) : IsFound(s, b, e, g, d, i)
  BY <1>3, <1>5, RecoveryFinds DEF WalInv, WalTypes
<1>7. PICK i \in b..Len(States) : IsFound(s, b, e, g, db, i)
  BY <1>6
<1>8. StateOf(log, db) = States[Len(States)]
  BY <1>4, <1>5, <1>7 DEF IsFound
<1>9. Len(States) \in Nat /\ sure <= Len(States) /\ Len(States) \in 1..Len(States)
  <2>1. Len(store) \in Nat /\ Len(States) \in Nat /\ Len(store) <= Len(States)
    BY StatesAre DEF WalInv
  <2> QED  BY <2>1 DEF StoreTypes
<1> QED  BY <1>8, <1>9

LEMMA KillKeepsStore ==
  ASSUME WalInv, StoreInv, Kill
  PROVE  StoreInv' /\ store' = States
<1> USE DEF StoreInv
<1>1. Crash /\ UNCHANGED <<log, db, logMay, saltMay, dbMay>>
  BY DEF Kill, files
<1>2. StateOf(log, db) = States[Len(States)] /\ Len(States) \in 1..Len(States) /\ sure <= Len(States)
  BY KillFinds
<1>3. StateOf(log', db') = States[Len(States)]
  BY <1>1, <1>2
<1>4. PICK i \in 1..Len(States) : i = Len(States) /\ sure <= i /\ StateOf(log', db') = States[i]
  BY <1>2, <1>3
<1>5. /\ log'.frames \in [Frames -> Frame \cup {None}] /\ DOMAIN logMay' = Frames
      /\ db' \in [Page -> 0..transaction \cup {Torn}]
      /\ dbMay' \in [Page -> SUBSET (0..transaction \cup {Torn})]
  BY <1>1 DEF StoreTypes
<1>6. \A f \in Frames : Choices(f)' \subseteq Choices(f)
  BY <1>1 DEF Choices
<1>7. /\ StoreTypes' /\ FrameInv' /\ DraftInv' /\ PenInv' /\ IndexInv' /\ SaltInv' /\ Strict'
      /\ EmptyInv' /\ BackInv' /\ ReadInv' /\ CopyInv'
      /\ store' = States' /\ States' = States
      /\ ~Tied' /\ ~Sealed' /\ ~Copying'
  BY <1>1, <1>4, <1>5, <1>6, CrashKeepsRest
<1>8. sure' = sure
  BY <1>1 DEF Crash
<1>9. DiskInv'
  <2>1. \A s, b, e : Chain(s, b, e) => Durable(b, e)' /\ Linked(s, b, e)'
    BY <1>1, <1>7, <1>8 DEF Chain, Linked, Durable, Sure
  <2> QED  BY <1>1, <1>7, <2>1, ChainsKept
<1> QED  BY <1>7, <1>9

\* After a loss of power what is found is not before what was synced.
LEMMA PowerLossKeepsStore ==
  ASSUME WalInv, StoreInv, PowerLoss
  PROVE  StoreInv' /\ \E i \in sure..Len(States) : store' = SubSeq(States, 1, i)
<1> USE DEF StoreInv
<1>1. PICK t \in saltMay \cup {log.salt},
           g \in [Frames -> UNION {logMay[f] \cup {log.frames[f]} : f \in Frames}],
           d \in [Page -> UNION {dbMay[p] \cup {db[p]} : p \in Page}] :
        /\ \A f \in Frames : g[f] \in logMay[f] \cup {log.frames[f]}
        /\ \A p \in Page : d[p] \in dbMay[p] \cup {db[p]}
        /\ log' = [salt |-> t, frames |-> g] /\ db' = d
        /\ logMay' = [f \in Frames |-> {}] /\ saltMay' = {} /\ dbMay' = [p \in Page |-> {}]
        /\ Crash
  BY DEF PowerLoss
<1>2. Chosen(g) /\ t \in Salts
  BY <1>1 DEF Chosen, Choices, Salts
<1>3. PICK F : F = log.frames
  OBVIOUS
<1>4. PICK b \in 1..Len(States) : \E e \in [b..Len(States) -> 0..MaxFrame] : Chain(t, b, e)
  BY <1>2 DEF DiskInv
<1>5. PICK e \in [b..Len(States) -> 0..MaxFrame] : Chain(t, b, e)
  BY <1>4
<1>6. PICK n : n = Len(States)
  OBVIOUS
<1>7. PICK i \in b..n : IsFound(t, b, e, g, d, i)
  BY <1>1, <1>2, <1>5, <1>6, RecoveryFinds DEF WalInv, WalTypes
<1>8. /\ i \in Sure(b)..n
      /\ Recovered([salt |-> t, frames |-> g]) = e[i]
      /\ StateOf([salt |-> t, frames |-> g], d) = States[i]
      /\ \A f \in 1..e[i] : g[f] = F[f]
  BY <1>3, <1>6, <1>7 DEF IsFound
<1>9. /\ b \in 1..n /\ n \in Nat /\ b \in Nat
      /\ \A j \in b..n : j \in Nat /\ e[j] \in 0..MaxFrame /\ e[j] \in Nat
      /\ \A j, k \in b..n : j < k => e[j] < e[k]
      /\ \A j, k \in b..n : j <= k => e[j] <= e[k]
      /\ Sure(b) \in b..n /\ sure <= Sure(b)
  BY <1>5, <1>6, ChainRises DEF Chain, WalInv
<1>10. i \in Nat /\ sure \in Nat /\ sure <= i /\ i \in 1..n /\ b \in 1..i /\ Sure(b) <= i
       /\ \A j \in b..i : j \in b..n /\ e[j] <= e[i]
  <2>1. sure \in Nat
    <3>1. Len(store) \in Nat
      BY StatesAre DEF WalInv
    <3> QED  BY <3>1 DEF StoreTypes
  <2>2. /\ i \in Nat /\ sure <= i /\ i \in 1..n /\ b \in 1..i /\ Sure(b) <= i
        /\ \A j \in b..i : j \in b..n /\ j <= i
    BY <1>7, <1>8, <1>9, <2>1
  <2> QED  BY <1>7, <1>9, <2>1, <2>2
<1>11. StateOf(log', db') = States[i]
  BY <1>1, <1>8
<1>12. \A f \in Frames : Choices(f)' = {g[f]}
  BY <1>1 DEF Choices
<1>13. \A f \in Frames : Choices(f)' \subseteq Choices(f)
  BY <1>1, <1>12 DEF Choices
<1>14. /\ log'.frames \in [Frames -> Frame \cup {None}] /\ DOMAIN logMay' = Frames
       /\ db' \in [Page -> 0..transaction \cup {Torn}]
       /\ dbMay' \in [Page -> SUBSET (0..transaction \cup {Torn})]
  <2>1. \A f \in Frames : g[f] \in Frame \cup {None}
    BY <1>1 DEF StoreTypes
  <2>2. \A p \in Page : d[p] \in 0..transaction \cup {Torn}
    BY <1>1 DEF StoreTypes
  <2>3. log'.frames = g /\ g = [f \in Frames |-> g[f]] /\ db' = d /\ d = [p \in Page |-> d[p]]
    BY <1>1
  <2>4. log'.frames \in [Frames -> Frame \cup {None}]
    BY <2>1, <2>3
  <2>5. db' \in [Page -> 0..transaction \cup {Torn}]
    BY <2>2, <2>3
  <2> QED  BY <1>1, <2>4, <2>5
<1>15. /\ StoreTypes' /\ FrameInv' /\ DraftInv' /\ PenInv' /\ IndexInv' /\ SaltInv' /\ Strict'
       /\ EmptyInv' /\ BackInv' /\ ReadInv' /\ CopyInv'
       /\ States' = SubSeq(States, 1, i) /\ store' = States' /\ Len(States') = i
       /\ \A j \in 1..i : States'[j] = States[j]
       /\ ~Tied' /\ ~Sealed' /\ ~Copying'
  BY <1>1, <1>6, <1>10, <1>11, <1>13, <1>14, CrashKeepsRest
<1>16. Sure(b)' = Sure(b)
  BY <1>1 DEF Crash, Sure
<1>17. \A j \in b..i : \A f \in 1..e[j] : f \in 1..e[i] /\ g[f] = F[f]
  <2>1. ASSUME NEW j \in b..i, NEW f \in 1..e[j]  PROVE f \in 1..e[i]
    BY <1>7, <1>9, <1>10, <2>1
  <2> QED  BY <1>8, <2>1
<1>18. PICK k : k = [j \in b..i |-> e[j]]
  OBVIOUS
<1>19. k \in [b..i -> 0..MaxFrame] /\ \A j \in b..i : k[j] = e[j]
  BY <1>9, <1>10, <1>18
<1>20. Chained(t, b, k)'
  <2>1. k[b] = 0 /\ b \in b..i /\ i \in b..i
    BY <1>5, <1>9, <1>10, <1>19 DEF Chain, Chained
  <2>2. \A j, m \in b..i : j < m => k[j] < k[m]
    BY <1>9, <1>10, <1>19
  <2>3. k[i] > 0 => ValidTo(t, g, k[i])
    <3>1. SUFFICES ASSUME k[i] > 0  PROVE ValidTo(t, g, k[i])
      OBVIOUS
    <3>2. k[i] = e[i] /\ e[i] \in 0..e[n] /\ e[n] \in Nat /\ e[n] > 0 /\ e[i] \in Nat
      <4>1. n \in b..n /\ i <= n /\ i \in b..n
        BY <1>9, <1>10
      <4>2. e[i] <= e[n] /\ e[i] \in Nat /\ e[n] \in Nat
        BY <1>9, <4>1
      <4> QED  BY <1>19, <2>1, <3>1, <4>2
    <3>3. ValidTo(t, F, e[n])
      BY <1>3, <1>5, <1>6, <3>2 DEF Chain, Chained
    <3>4. ValidTo(t, F, e[i])
      BY <3>2, <3>3, ValidBefore
    <3>5. \A f \in 1..e[i] : F[f] = g[f]
      BY <1>8
    <3>6. ValidTo(t, g, e[i])
      BY <3>2, <3>4, <3>5, ValidSame
    <3> QED  BY <3>2, <3>6
  <2>4. \A j \in b + 1..i : g[k[j]].commit
    <3>1. ASSUME NEW j \in b + 1..i  PROVE g[k[j]].commit
      <4>1. j \in b..i /\ j \in b + 1..n /\ b < j
        BY <1>9, <1>10
      <4>2. k[j] = e[j] /\ F[e[j]].commit
        BY <1>3, <1>5, <1>6, <1>19, <4>1 DEF Chain, Chained
      <4>3. e[j] \in 1..e[j]
        BY <1>9, <1>10, <1>19, <2>1, <2>2, <4>1, <4>2
      <4> QED  BY <1>17, <4>1, <4>2, <4>3
    <3> QED  BY <3>1
  <2>5. \A j \in b..i : States'[j] = StateAfter(g, States'[b], k[j])
    <3>1. ASSUME NEW j \in b..i  PROVE States'[j] = StateAfter(g, States'[b], k[j])
      <4>1. j \in 1..i /\ b \in 1..i
        BY <1>9, <1>10
      <4>2. States'[j] = States[j] /\ States'[b] = States[b] /\ k[j] = e[j] /\ e[j] \in Nat
        BY <1>9, <1>10, <1>15, <1>19, <4>1
      <4>3. States[j] = StateAfter(F, States[b], e[j])
        BY <1>3, <1>5, <1>6, <1>10 DEF Chain, Chained
      <4>4. \A x : StateAfter(g, x, e[j]) = StateAfter(F, x, e[j])
        <5>1. \A f \in 1..e[j] : g[f] = F[f]
          BY <1>17
        <5> QED  BY <4>2, <5>1, SameFrames
      <4> QED  BY <4>2, <4>3, <4>4
    <3> QED  BY <3>1
  <2>6. log'.frames = g
    BY <1>1
  <2> QED  BY <1>10, <1>15, <1>19, <2>1, <2>2, <2>3, <2>4, <2>5, <2>6 DEF Chained
<1>21. Durable(b, k)'
  <2>1. Sure(b) \in b..i /\ k[Sure(b)] = e[Sure(b)]
    BY <1>9, <1>10, <1>19
  <2>2. \A f \in 1..e[Sure(b)] : g[f] = F[f] /\ f \in Frames
    <3>1. \A f \in 1..e[Sure(b)] : f \in Frames
      BY <1>9, WalAssumption DEF Frames
    <3> QED  BY <1>17, <2>1, <3>1
  <2>3. States'[b] = States[b]
    BY <1>9, <1>10, <1>15
  <2>4. ASSUME NEW p \in Page
        PROVE  (dbMay'[p] = {} /\ db'[p] = States'[b][p])
                \/ \E f \in 1..k[Sure(b)] : log'.frames[f].page = p
    <3>1. \/ dbMay[p] = {} /\ db[p] = States[b][p]
          \/ \E f \in 1..e[Sure(b)] : F[f].page = p
      BY <1>3, <1>5 DEF Chain, Durable
    <3>2. d[p] \in dbMay[p] \cup {db[p]} /\ db' = d /\ dbMay'[p] = {} /\ log'.frames = g
      BY <1>1
    <3>3. CASE dbMay[p] = {} /\ db[p] = States[b][p]
      BY <2>3, <3>2, <3>3
    <3>4. CASE \E f \in 1..e[Sure(b)] : F[f].page = p
      <4>1. \E f \in 1..k[Sure(b)] : g[f].page = p
        BY <2>1, <2>2, <3>4
      <4> QED  BY <3>2, <4>1
    <3> QED  BY <3>1, <3>3, <3>4
  <2>5. \A f \in 1..k[Sure(b)] : logMay'[f] = {}
    BY <1>1, <2>1, <2>2
  <2> QED  BY <1>16, <2>4, <2>5 DEF Durable
<1>22. Found(t, b, k)'
  <2>1. ASSUME NEW m \in Frames, NEW h, Chosen(h)', ValidTo(t, h, m), h[m].commit
        PROVE  (\E j \in b..i : m = k[j]) /\ \A f \in 1..m : h[f] = g[f]
    <3>1. m \in Nat /\ m \in 1..m /\ \A f \in 1..m : f \in Frames
      BY WalAssumption DEF Frames
    <3>2. \A f \in 1..m : h[f] = g[f]
      BY <1>12, <2>1, <3>1 DEF Chosen
    <3>3. ValidTo(t, g, m) /\ g[m].commit
      BY <2>1, <3>1, <3>2, ValidSame
    <3>4. PICK j \in b..n : m = e[j]
      BY <1>2, <1>5, <1>6, <3>3 DEF Chain, Found
    <3>5. m <= e[i]
      BY <1>8, <3>3, RecoveredIs
    <3>6. j \in b..i
      <4>1. SUFFICES ASSUME i < j  PROVE FALSE
        BY <1>9, <1>10
      <4>2. e[i] < e[j] /\ e[i] \in Nat /\ e[j] \in Nat
        BY <1>7, <1>9, <4>1
      <4> QED  BY <3>4, <3>5, <4>2
    <3> QED  BY <1>19, <3>2, <3>4, <3>6
  <2>2. log'.frames = g
    BY <1>1
  <2> QED  BY <1>15, <2>1, <2>2 DEF Found
<1>23. Linked(t, b, k)'
  BY <1>15 DEF Linked
<1>24. DiskInv'
  <2>1. Salts' = {t}
    BY <1>1 DEF Salts
  <2>2. Chain(t, b, k)'
    BY <1>20, <1>21, <1>22, <1>23 DEF Chain
  <2>3. b \in 1..Len(States') /\ k \in [b..Len(States') -> 0..MaxFrame]
    BY <1>10, <1>15, <1>19
  <2>4. \E h \in 1..Len(States') : \E j \in [h..Len(States') -> 0..MaxFrame] : Chain(t, h, j)'
    BY <2>2, <2>3
  <2> QED  BY <2>1, <2>4 DEF DiskInv
<1>25. i \in sure..Len(States)
  BY <1>6, <1>9, <1>10
<1> QED  BY <1>15, <1>24, <1>25

-----------------------------------------------------------------------------
(***************************************************************************)
(* The invariant holds.                                                    *)
(***************************************************************************)

\* In the beginning there is one state, in the file.
LEMMA StoreInitHolds ==
  ASSUME WalInit
  PROVE  StoreInv
<1> USE DEF WalInit
<1>1. /\ store = <<db>> /\ Len(store) = 1 /\ store[1] = db /\ Last(store) = db
      /\ db = [p \in Page |-> 0] /\ db \in [Page -> {0}]
  BY DEF Last
<1>2. ~Writing /\ ~Sealed /\ States = store /\ ~Tied /\ ~Copying
  BY DEF Writing, Sealed, States, Tied, Copying
<1>3. \A f \in Frames : Choices(f) = {None}
  BY DEF Choices
<1>4. StoreTypes
  BY <1>1, WalAssumption DEF StoreTypes, NoHeader
<1>5. FrameInv /\ DraftInv /\ PenInv /\ IndexInv /\ EmptyInv /\ BackInv
  BY <1>2, <1>3 DEF FrameInv, DraftInv, PenInv, IndexInv, EmptyInv, BackInv
<1>6. SaltInv /\ Strict
  BY <1>1, <1>2 DEF SaltInv, Strict
<1>7. ReadInv /\ CopyInv
  BY DEF ReadInv, CopyInv, ReadsWell, CopiesWell, Reads, Writes, Backfills
<1>8. DiskInv
  <2>1. SUFFICES ASSUME NEW s \in Salts
                 PROVE  \E b \in 1..Len(States) : \E e \in [b..Len(States) -> 0..MaxFrame] : Chain(s, b, e)
    BY DEF DiskInv
  <2>2. s = 0
    BY <2>1 DEF Salts
  <2> DEFINE e == [i \in 1..1 |-> 0]
  <2>3. e \in [1..1 -> 0..MaxFrame] /\ \A i \in 1..1 : e[i] = 0
    BY WalAssumption
  <2>4. Len(States) = 1 /\ States[1] = db /\ sure = 1
    BY <1>1, <1>2
  <2> HIDE DEF e
  <2>5. Chained(s, 1, e)
    <3>1. StateAfter(log.frames, db, 0) = db
      BY <1>1, NoFrames
    <3> QED  BY <2>3, <2>4, <3>1 DEF Chained
  <2>6. Sure(1) = 1
    BY <2>4 DEF Sure
  <2>7. Durable(1, e)
    BY <2>3, <2>4, <2>6 DEF Durable
  <2>8. Found(s, 1, e)
    BY <2>2 DEF Found, ValidTo
  <2>9. Linked(s, 1, e)
    BY <1>2 DEF Linked
  <2>10. Chain(s, 1, e)
    BY <2>5, <2>7, <2>8, <2>9 DEF Chain
  <2> QED  BY <2>3, <2>4, <2>10
<1> QED  BY <1>4, <1>5, <1>6, <1>7, <1>8 DEF StoreInv

LEMMA StoreStutters ==
  ASSUME WalInv, StoreInv, UNCHANGED walVars
  PROVE  StoreInv'
<1>1. UNCHANGED <<header, aPgno, nBackfill, aReadMark, writer, at, hdr, readLock, mark, minFrame,
                  iFrame, ckpt,
                  log, db, logMay, saltMay, dbMay, transaction, crashes, store, sure>>
  BY DEF walVars, index, reading, files, history
<1>2. /\ Writing' = Writing /\ Sealed' = Sealed /\ Draft' = Draft /\ Copying' = Copying
      /\ Restarting' = Restarting
  BY <1>1 DEF Writing, Sealed, Draft, Logged, Copying, Restarting
<1>3. States' = States /\ Tied' = Tied /\ Top' = Top /\ Salts' = Salts
  BY <1>1, <1>2 DEF States, Tied, Top, Salts
<1>4. ASSUME NEW f  PROVE Choices(f)' = Choices(f)
  BY <1>1 DEF Choices
<1>5. ASSUME NEW s  PROVE Empty(s) => Empty(s)'
  BY <1>4 DEF Empty, Chosen
<1>6. StoreTypes' /\ FrameInv'
  BY <1>1, <1>4 DEF StoreInv, StoreTypes, FrameInv
<1>7. DraftInv' /\ PenInv' /\ IndexInv' /\ Strict'
  BY <1>1, <1>2, <1>3, <1>4 DEF StoreInv, DraftInv, PenInv, IndexInv, Strict
<1>8. SaltInv' /\ EmptyInv'
  BY <1>1, <1>2, <1>3, <1>5 DEF StoreInv, SaltInv, EmptyInv
<1>9. BackInv' /\ ReadInv'
  BY <1>1, <1>2 DEF StoreInv, BackInv, ReadInv, ReadsWell
<1>10. CopyInv'
  <2>1. ASSUME NEW S, NEW p  PROVE FrameOf(S, p)' = FrameOf(S, p)
    BY <1>1 DEF FrameOf
  <2> QED  BY <1>1, <2>1 DEF StoreInv, CopyInv, CopiesWell
<1>11. DiskInv'
  <2>1. ASSUME NEW s, NEW b, NEW e, Chain(s, b, e)  PROVE Chain(s, b, e)'
    <3>1. Chained(s, b, e)' /\ Durable(b, e)' /\ Linked(s, b, e)'
      BY <1>1, <1>2, <1>3, <2>1 DEF Chain, Chained, Durable, Sure, Linked
    <3>2. Found(s, b, e)'
      BY <1>1, <1>3, <1>4, <2>1 DEF Chain, Found, Chosen
    <3> QED  BY <3>1, <3>2 DEF Chain
  <2> QED  BY <1>3, <2>1 DEF StoreInv, DiskInv
<1> QED  BY <1>6, <1>7, <1>8, <1>9, <1>10, <1>11 DEF StoreInv

\* Every step keeps it.
LEMMA StoreStepKeeps ==
  ASSUME WalInv, AheadInv, ~outrun', StoreInv, [WalNext]_walVars
  PROVE  StoreInv'
<1>1. CASE UNCHANGED walVars
  BY <1>1, StoreStutters
<1>2. CASE Kill \/ PowerLoss
  BY <1>2, KillKeepsStore, PowerLossKeepsStore
<1>3. ASSUME NEW c \in Connection,
             \/ Recover(c) \/ ReadHdr(c) \/ Decide(c) \/ Compare(c)
             \/ ChooseMark(c) \/ ShareMark(c) \/ SetMinFrame(c) \/ CheckMark(c) \/ EndRead(c)
      PROVE  StoreInv'
  BY <1>3, RecoverKeepsStore, ReadersKeepStore
<1>4. ASSUME NEW c \in Connection,
             \/ BeginWrite(c) \/ RestartLog(c) \/ Reset(c)
             \/ WriteHeader(c) \/ SyncHeader(c) \/ AfterOthers(c)
      PROVE  StoreInv'
  BY <1>4, BeginWriteKeepsStore, RestartLogKeepsStore, ResetKeepsStore, WriteHeaderKeepsStore,
     SyncHeaderKeepsStore, AfterOthersKeepsStore
<1>5. ASSUME NEW c \in Connection,
             \/ \E p \in Page, commit \in BOOLEAN : WriteFrame(c, p, commit)
             \/ AppendIndex(c) \/ Publish(c) \/ Undo(c) \/ EndWrite(c)
      PROVE  StoreInv'
  BY <1>5, WriteFrameKeepsStore, AppendIndexKeepsStore, PublishKeepsStore, UndoKeepsStore,
     EndWriteKeepsStore
<1>6. ASSUME NEW c \in Connection,
             \/ Checkpoint(c) \/ Iterate(c) \/ LookAtMark(c) \/ ObeyMark(c) \/ SyncLog(c)
             \/ \E p \in Page : CopyPage(c, p)
             \/ Finish(c) \/ Unlock(c)
      PROVE  StoreInv'
  BY <1>6, CheckpointKeepsStore, IterateKeepsStore, MarksKeepStore, SyncLogKeepsStore,
     CopyPageKeepsStore,
     FinishKeepsStore, UnlockKeepsStore
<1> QED  BY <1>1, <1>2, <1>3, <1>4, <1>5, <1>6 DEF WalNext

LEMMA StoreInvHolds == WalSpec => [](~outrun => WalInv /\ StoreInv)
<1> DEFINE Held == ~outrun => WalInv /\ AheadInv
           Good == ~outrun => StoreInv
<1>1. WalInit => Good
  BY StoreInitHolds
<1>2. Held /\ Good /\ [WalNext]_walVars => Good'
  <2> SUFFICES ASSUME Held, Good, [WalNext]_walVars, ~outrun'  PROVE StoreInv'
    OBVIOUS
  <2>1. ~outrun
    BY OutrunStays
  <2> QED  BY <2>1, StoreStepKeeps
<1>3. WalSpec => []Held
  BY InvariantHolds
<1>4. Held /\ Good => (~outrun => WalInv /\ StoreInv)
  OBVIOUS
<1> QED  BY <1>1, <1>2, <1>3, <1>4, PTL DEF WalSpec

\* "The nBackfill number is never greater than WalIndexHdr.mxFrame" (wal.c 329-330), for
\* any number of connections, pages, marks and frames, and through any crashes, but while
\* walRestartHdr has written the header and not yet the number, and until a checkpointer
\* has gone on with the header of a log that was restarted meanwhile.
THEOREM BackfillStaysWithin == WalSpec => [](outrun \/ BackfillWithinLog)
<1>1. (~outrun => WalInv /\ StoreInv) => (outrun \/ BackfillWithinLog)
  BY DEF StoreInv, BackInv, BackfillWithinLog
<1> QED  BY <1>1, StoreInvHolds, PTL

-----------------------------------------------------------------------------
(***************************************************************************)
(* The log and all who use it implement SnapshotStore.                     *)
(***************************************************************************)

\* What SnapshotStore sees of the readers, and of the writer.
Views == [c \in Connection |-> IF at[c] = "read" THEN [p \in Page |-> PageRead(c, p)] ELSE None]
DraftSeen == IF Writing THEN Draft ELSE None

\* The last frame with a page from a on, by the wal-index.
LEMMA FrameOfIs ==
  ASSUME NEW a \in Nat, NEW n \in Nat, NEW p
  PROVE  /\ FrameOf(a..n, p) = 0 \/ (FrameOf(a..n, p) \in a..n /\ aPgno[FrameOf(a..n, p)] = p)
         /\ FrameOf(a..n, p) = 0 => (\A f \in a..n : aPgno[f] = p => f = 0)
         /\ \A f \in a..n : aPgno[f] = p => f <= FrameOf(a..n, p)
<1> DEFINE S == {f \in a..n : aPgno[f] = p}
<1>1. S \in SUBSET (a..n) /\ \A f \in S : aPgno[f] = p
  OBVIOUS
<1>2. FrameOf(a..n, p) = MaxOf(S)
  BY DEF FrameOf
<1>3. \A f \in a..n : aPgno[f] = p => f \in S
  OBVIOUS
<1> HIDE DEF S
<1>4. /\ (MaxOf(S) = 0 /\ S = {}) \/ MaxOf(S) \in S
      /\ \A y \in S : y <= MaxOf(S)
  BY <1>1, GreatestIn
<1>5. MaxOf(S) = 0 => \A y \in S : y = 0
  BY <1>1, <1>4
<1>6. MaxOf(S) = 0 \/ (MaxOf(S) \in a..n /\ aPgno[MaxOf(S)] = p)
  BY <1>1, <1>4
<1> QED  BY <1>2, <1>3, <1>4, <1>5, <1>6, Zenon

\* Who has a lock and the header that is there sees the latest state.
LEMMA LatestIsRead ==
  ASSUME WalInv, StoreInv, NEW c \in Connection, header # None, header = hdr[c],
         readLock[c] = 0 => nBackfill = header.mxFrame,
         readLock[c] # 0 => 1 <= minFrame[c] /\ minFrame[c] <= nBackfill + 1
  PROVE  [p \in Page |-> PageRead(c, p)] = Last(store)
<1> USE DEF WalInv, StoreInv
<1>1. /\ header.mxFrame \in Nat /\ nBackfill \in Nat /\ minFrame[c] \in Nat
      /\ hdr[c].mxFrame = header.mxFrame
      /\ transaction \in Nat
  BY DEF WalTypes, Header, StoreTypes
<1>2. \A p \in Page : (\A f \in nBackfill + 1..header.mxFrame : aPgno[f] # p) => db[p] = Last(store)[p]
  BY DEF BackInv
<1>3. Last(store) \in [Page -> 0..transaction]
  BY <1>1, StatesTyped
<1>4. ASSUME NEW p \in Page  PROVE PageRead(c, p) = Last(store)[p]
  <2>1. CASE readLock[c] = 0
    <3>1. PageRead(c, p) = db[p]
      BY <2>1 DEF PageRead
    <3>2. \A f \in nBackfill + 1..header.mxFrame : aPgno[f] # p
      BY <1>1, <2>1
    <3> QED  BY <1>2, <3>1, <3>2
  <2>2. CASE readLock[c] # 0
    <3>1. PICK f : f = FrameOf(minFrame[c]..header.mxFrame, p)
      OBVIOUS
    <3>2. PageRead(c, p) = IF f = 0 THEN db[p] ELSE log.frames[f].data
      BY <1>1, <2>2, <3>1 DEF PageRead
    <3>3. \A a \in Nat, n \in Nat :
            /\ FrameOf(a..n, p) = 0 \/ (FrameOf(a..n, p) \in a..n /\ aPgno[FrameOf(a..n, p)] = p)
            /\ FrameOf(a..n, p) = 0 => (\A h \in a..n : aPgno[h] = p => h = 0)
            /\ \A h \in a..n : aPgno[h] = p => h <= FrameOf(a..n, p)
      BY FrameOfIs
    <3>4. /\ f = 0 \/ (f \in minFrame[c]..header.mxFrame /\ aPgno[f] = p)
          /\ f = 0 => (\A h \in minFrame[c]..header.mxFrame : aPgno[h] = p => h = 0)
          /\ \A h \in minFrame[c]..header.mxFrame : aPgno[h] = p => h <= f
      BY <1>1, <3>1, <3>3
    <3>5. CASE f = 0
      <4>1. \A h \in nBackfill + 1..header.mxFrame : aPgno[h] # p
        BY <1>1, <2>2, <3>4, <3>5
      <4> QED  BY <1>2, <3>2, <3>5, <4>1
    <3>6. CASE f # 0
      <4>1. f \in 1..header.mxFrame /\ header.mxFrame > 0
        BY <1>1, <2>2, <3>4, <3>6
      <4>2. \A h \in f + 1..header.mxFrame : aPgno[h] # p
        BY <1>1, <2>2, <3>4, <3>6
      <4>3. Last(store)[p] = log.frames[f].data
        BY <3>4, <3>6, <4>1, <4>2, LastIs
      <4> QED  BY <3>2, <3>6, <4>3
    <3> QED  BY <3>5, <3>6
  <2> QED  BY <2>1, <2>2
<1> QED  BY <1>3, <1>4

\* A reader has a lock, and looks only at frames that are committed.
LEMMA ReaderIs ==
  ASSUME WalInv, StoreInv, NEW c \in Connection, at[c] = "read"
  PROVE  /\ header # None /\ header.mxFrame \in Nat
         /\ readLock[c] # 0 => /\ 1 <= minFrame[c] /\ minFrame[c] <= nBackfill + 1 /\ minFrame[c] \in Nat
                               /\ hdr[c].mxFrame <= header.mxFrame /\ hdr[c].mxFrame \in Nat
<1> USE DEF WalInv, StoreInv
<1>1. header # None /\ header.mxFrame \in Nat /\ hdr[c].mxFrame \in Nat
  BY DEF PlaceInv, WalTypes, Header
<1>2. readLock[c] \in -1..NReader /\ readLock[c] >= 0
  BY DEF LockInv, Reads, WalTypes
<1>3. readLock[c] # 0 => readLock[c] > 0
  BY <1>2, WalAssumption
<1>4. ReadsWell(c) /\ minFrame[c] \in Nat
  BY DEF ReadInv, StoreTypes
<1> QED  BY <1>1, <1>3, <1>4 DEF ReadsWell, Reads

\* What is seen is as the abstract store has it.
LEMMA DraftIs ==
  ASSUME WalInv, StoreInv
  PROVE  /\ Draft \in [Page -> Version] /\ Draft # None
         /\ Last(store) \in [Page -> Version] /\ Last(store) # None
<1>1. transaction \in Nat /\ transaction <= MaxTransactions
  BY DEF StoreInv, StoreTypes, WalInv, WalTypes
<1>2. Draft \in [Page -> 0..transaction] /\ Last(store) \in [Page -> 0..transaction]
  BY <1>1, StatesTyped DEF WalInv, StoreInv
<1>3. \A i \in 0..transaction : i \in Version
  BY <1>1, WalAssumption DEF Version
<1>4. Draft \in [Page -> Version] /\ Last(store) \in [Page -> Version]
  BY <1>2, <1>3
<1> QED  BY <1>4, WalAssumption DEF Version

\* As long as the frames that the header counts and the file are as they were, nobody
\* sees anything else.
LEMMA OthersSeeTheSame ==
  ASSUME WalInv, StoreInv, NEW d \in Connection,
         at'[d] = at[d], hdr'[d] = hdr[d], readLock'[d] = readLock[d], minFrame'[d] = minFrame[d],
         db' = db, header # None =>
           \A f \in 1..header.mxFrame : aPgno'[f] = aPgno[f] /\ log'.frames[f] = log.frames[f]
  PROVE  Views'[d] = Views[d]
<1>1. CASE at[d] # "read"
  BY <1>1 DEF Views
<1>2. CASE at[d] = "read"
  <2>1. ASSUME NEW p \in Page  PROVE PageRead(d, p)' = PageRead(d, p)
    <3>1. CASE readLock[d] = 0
      BY <3>1 DEF PageRead
    <3>2. CASE readLock[d] # 0
      <4>1. \A f \in minFrame[d]..hdr[d].mxFrame : f \in 1..header.mxFrame
        BY <1>2, <3>2, ReaderIs
      <4>2. header # None
        BY <1>2, ReaderIs
      <4>3. {f \in minFrame[d]..hdr[d].mxFrame : aPgno'[f] = p}
              = {f \in minFrame[d]..hdr[d].mxFrame : aPgno[f] = p}
        BY <4>1, <4>2
      <4>4. PICK n : n = FrameOf(minFrame[d]..hdr[d].mxFrame, p)
        OBVIOUS
      <4>5. FrameOf(minFrame[d]..hdr[d].mxFrame, p)' = n
        BY <4>3, <4>4 DEF FrameOf
      <4>6. n = 0 \/ n \in minFrame[d]..hdr[d].mxFrame
        <5>1. \A a \in Nat, m \in Nat : FrameOf(a..m, p) = 0 \/ FrameOf(a..m, p) \in a..m
          BY FrameOfIs
        <5>2. minFrame[d] \in Nat /\ hdr[d].mxFrame \in Nat
          BY <1>2, <3>2, ReaderIs
        <5> QED  BY <4>4, <5>1, <5>2
      <4>7. n # 0 => log'.frames[n] = log.frames[n]
        BY <4>1, <4>2, <4>6
      <4>8. PageRead(d, p) = IF n = 0 THEN db[p] ELSE log.frames[n].data
        BY <3>2, <4>4 DEF PageRead
      <4>9. PageRead(d, p)' = IF n = 0 THEN db[p] ELSE log'.frames[n].data
        BY <3>2, <4>5 DEF PageRead
      <4> QED  BY <4>7, <4>8, <4>9
    <3> QED  BY <3>1, <3>2
  <2> QED  BY <1>2, <2>1 DEF Views
<1> QED  BY <1>1, <1>2

\* A step of one that neither reads nor is to read.
LEMMA ViewsKept ==
  ASSUME WalInv, StoreInv, NEW c \in Connection, at[c] # "read", at'[c] # "read",
         \A d \in Connection : d # c =>
           at'[d] = at[d] /\ hdr'[d] = hdr[d] /\ readLock'[d] = readLock[d] /\ minFrame'[d] = minFrame[d],
         db' = db, header # None =>
           \A f \in 1..header.mxFrame : aPgno'[f] = aPgno[f] /\ log'.frames[f] = log.frames[f]
  PROVE  Views' = Views
<1>1. ASSUME NEW d \in Connection  PROVE Views'[d] = Views[d]
  <2>1. CASE d = c
    BY <2>1 DEF Views
  <2>2. CASE d # c
    BY <2>2, OthersSeeTheSame
  <2> QED  BY <2>1, <2>2
<1> QED  BY <1>1 DEF Views

\* A step of one that begins to read, or of one that ends.
LEMMA ViewsChange ==
  ASSUME WalInv, StoreInv, NEW c \in Connection,
         \A d \in Connection : d # c =>
           at'[d] = at[d] /\ hdr'[d] = hdr[d] /\ readLock'[d] = readLock[d] /\ minFrame'[d] = minFrame[d],
         UNCHANGED <<db, log>>, aPgno' = aPgno
  PROVE  Views' = [Views EXCEPT ![c] = Views'[c]]
<1>1. ASSUME NEW d \in Connection, d # c  PROVE Views'[d] = Views[d]
  BY <1>1, OthersSeeTheSame
<1> QED  BY <1>1 DEF Views

\* What is seen of the writer does not change, unless it writes or comes to an end.
LEMMA WriterSeenSame ==
  ASSUME StoreInv, NEW c \in Connection, \A d \in Connection : d # c => at'[d] = at[d],
         writer = c => {at[c], at'[c]} \cap {"append", "publish", "wrote"} = {},
         writer = c \/ iFrame' = iFrame,
         UNCHANGED <<writer, store, sure, transaction>>, log'.frames = log.frames
  PROVE  DraftSeen' = DraftSeen /\ Sealed' = Sealed
<1>2. Draft' = Draft
  BY DEF Draft, Logged, Last
<1>3. CASE writer = c
  BY <1>2, <1>3 DEF DraftSeen, Writing, Sealed
<1>4. CASE writer # c
  <2>1. writer # None => writer \in Connection
    BY DEF StoreInv, StoreTypes
  <2> QED  BY <1>2, <1>4, <2>1 DEF DraftSeen, Writing, Sealed
<1> QED  BY <1>3, <1>4

\* Every page read is some version.
LEMMA SeesVersions ==
  ASSUME WalInv, StoreInv, NEW c \in Connection, at[c] = "read"
  PROVE  [p \in Page |-> PageRead(c, p)] # None
<1>1. transaction \in Nat /\ transaction <= MaxTransactions
  BY DEF StoreInv, StoreTypes, WalInv, WalTypes
<1>2. ASSUME NEW p \in Page  PROVE PageRead(c, p) \in Version
  <2>1. CASE PageRead(c, p) = db[p]
    <3>1. db[p] \in 0..transaction \cup {Torn}
      BY DEF StoreInv, StoreTypes
    <3> QED  BY <1>1, <2>1, <3>1, WalAssumption DEF Version
  <2>2. CASE PageRead(c, p) # db[p]
    <3>1. PICK n : n = FrameOf(minFrame[c]..hdr[c].mxFrame, p)
      OBVIOUS
    <3>2. readLock[c] # 0 /\ n # 0 /\ PageRead(c, p) = log.frames[n].data
      BY <2>2, <3>1 DEF PageRead
    <3>3. \A a \in Nat, m \in Nat : FrameOf(a..m, p) = 0 \/ FrameOf(a..m, p) \in a..m
      BY FrameOfIs
    <3>4. n \in minFrame[c]..hdr[c].mxFrame /\ n \in 1..header.mxFrame /\ header # None
      <4>1. /\ header # None /\ header.mxFrame \in Nat
            /\ 1 <= minFrame[c] /\ minFrame[c] \in Nat
            /\ hdr[c].mxFrame <= header.mxFrame /\ hdr[c].mxFrame \in Nat
        BY <3>2, ReaderIs
      <4> QED  BY <3>1, <3>2, <3>3, <4>1
    <3>5. n \in Frames /\ log.frames[n] # None
      <4>1. header.mxFrame <= MaxFrame /\ header.mxFrame \in Nat
        BY <3>4, ReaderIs DEF StoreInv, StoreTypes
      <4> QED  BY <3>4, <4>1, WalAssumption DEF StoreInv, IndexInv, Frames
    <3>6. log.frames[n].data \in 1..transaction
      BY <1>1, <3>5, FrameData
    <3> QED  BY <1>1, <3>2, <3>6, WalAssumption DEF Version
  <2> QED  BY <2>1, <2>2
<1> QED  BY <1>2, WalAssumption DEF Version

\* A step that SnapshotStore does not see.
LEMMA Unseen ==
  ASSUME Views' = Views, DraftSeen' = DraftSeen, Sealed' = Sealed, UNCHANGED <<store, sure, writer>>
  PROVE  UNCHANGED Store!storeVars
BY DEF Store!storeVars, Views, DraftSeen, Sealed

LEMMA BeginSeen ==
  ASSUME NEW c \in Connection, Views[c] = None, writer # c,
         Views' = [Views EXCEPT ![c] = Last(store)],
         DraftSeen' = DraftSeen, Sealed' = Sealed, UNCHANGED <<store, sure, writer>>
  PROVE  Store!Begin(c)
BY DEF Store!Begin, Store!Latest, Last, Views, DraftSeen, Sealed

LEMMA EndSeen ==
  ASSUME NEW c \in Connection, Views[c] # None, Views' = [Views EXCEPT ![c] = None],
         DraftSeen' = DraftSeen, Sealed' = Sealed, UNCHANGED <<store, sure, writer>>
  PROVE  Store!End(c)
BY DEF Store!End, Views, DraftSeen, Sealed

LEMMA BeginWriteSeen ==
  ASSUME NEW c \in Connection, writer = None, Views[c] = Last(store), writer' = c,
         DraftSeen' = Last(store),
         Views' = [Views EXCEPT ![c] = None], Sealed' = Sealed, UNCHANGED <<store, sure>>
  PROVE  Store!BeginWrite(c)
BY DEF Store!BeginWrite, Store!Latest, Last, Views, DraftSeen, Sealed

LEMMA WriteSeen ==
  ASSUME writer # None, DraftSeen # None, ~Sealed, DraftSeen' \in [Page -> Version],
         Sealed' \in BOOLEAN,
         Views' = Views, UNCHANGED <<store, sure, writer>>
  PROVE  Store!StoreNext
<1>1. Store!Write(DraftSeen')
  BY DEF Store!Write, Views, DraftSeen, Sealed
<1> QED  BY <1>1 DEF Store!StoreNext

LEMMA CommitSeen ==
  ASSUME Sealed, store' = Append(store, DraftSeen), DraftSeen' = None, ~Sealed', Views' = Views,
         UNCHANGED <<sure, writer>>
  PROVE  Store!Commit
BY DEF Store!Commit, Views, DraftSeen, Sealed

LEMMA RollbackSeen ==
  ASSUME writer # None, DraftSeen # None, DraftSeen' = None, ~Sealed', Views' = Views,
         UNCHANGED <<store, sure, writer>>
  PROVE  Store!Rollback
BY DEF Store!Rollback, Views, DraftSeen, Sealed

LEMMA EndWriteSeen ==
  ASSUME writer # None, DraftSeen = None, writer' = None,
         Views' = [Views EXCEPT ![writer] = Last(store)],
         DraftSeen' = DraftSeen, Sealed' = Sealed, UNCHANGED <<store, sure>>
  PROVE  Store!EndWrite
BY DEF Store!EndWrite, Store!Latest, Last, Views, DraftSeen, Sealed

LEMMA PersistSeen ==
  ASSUME sure' = Len(store), Views' = Views, DraftSeen' = DraftSeen, Sealed' = Sealed,
         UNCHANGED <<store, writer>>
  PROVE  Store!Persist
BY DEF Store!Persist, Views, DraftSeen, Sealed

\* After a crash nobody reads and nobody writes.
LEMMA CrashSeen ==
  ASSUME Crash
  PROVE  Store!Ended
<1>1. /\ \A c \in Connection : at'[c] # "read"
      /\ writer' = None /\ sure' = sure
  BY DEF Crash
<1>2. Views' = [c \in Connection |-> None]
  BY <1>1 DEF Views
<1>3. DraftSeen' = None /\ ~Sealed'
  BY <1>1 DEF DraftSeen, Sealed, Writing
<1> QED  BY <1>1, <1>2, <1>3 DEF Store!Ended, Views, DraftSeen, Sealed

LEMMA WrittenIs ==
  ASSUME StoreInv
  PROVE  Store!Written = States
<1>1. Sealed => DraftSeen = Draft
  BY DEF DraftSeen, Sealed
<1> QED  BY <1>1 DEF Store!Written, States, DraftSeen, Sealed

\* A step of one connection that SnapshotStore does not see.
LEMMA Aside ==
  ASSUME WalInv, StoreInv, NEW c \in Connection, at[c] # "read", at'[c] # "read",
         \A d \in Connection : d # c =>
           at'[d] = at[d] /\ hdr'[d] = hdr[d] /\ readLock'[d] = readLock[d] /\ minFrame'[d] = minFrame[d],
         writer = c => {at[c], at'[c]} \cap {"append", "publish", "wrote"} = {},
         writer = c \/ iFrame' = iFrame,
         UNCHANGED <<writer, store, sure, transaction, db>>, log'.frames = log.frames,
         header # None => \A f \in 1..header.mxFrame : aPgno'[f] = aPgno[f]
  PROVE  UNCHANGED Store!storeVars
BY ViewsKept, WriterSeenSame, Unseen

LEMMA LeaveIs ==
  ASSUME WalInv, StoreInv, NEW c \in Connection,
         NEW s \in {"compare", "mark", "share", "check", "read", "unlock"}, Leave(c, s)
  PROVE  /\ at[c] = s /\ at'[c] = (IF writer = c THEN "mark" ELSE "idle")
         /\ \A d \in Connection : d # c =>
              at'[d] = at[d] /\ hdr'[d] = hdr[d] /\ readLock'[d] = readLock[d] /\ minFrame'[d] = minFrame[d]
BY DEF Leave, Moves, Set, WalInv, WalTypes, StoreInv, StoreTypes

LEMMA LeaveUnseen ==
  ASSUME WalInv, StoreInv, NEW c \in Connection,
         NEW s \in {"compare", "mark", "share", "check", "unlock"}, Leave(c, s),
         UNCHANGED <<aPgno, writer, iFrame, files, transaction, history>>
  PROVE  UNCHANGED Store!storeVars
<1>1. /\ at[c] = s /\ at'[c] = (IF writer = c THEN "mark" ELSE "idle")
      /\ \A d \in Connection : d # c =>
           at'[d] = at[d] /\ hdr'[d] = hdr[d] /\ readLock'[d] = readLock[d] /\ minFrame'[d] = minFrame[d]
  BY LeaveIs
<1> QED  BY <1>1, Aside DEF files, history

\* What goes before a read transaction is not seen, until it has its lock.
LEMMA RecoverUnseen ==
  ASSUME WalInv, StoreInv, NEW c \in Connection, Recover(c)
  PROVE  UNCHANGED Store!storeVars
<1>1. /\ header = None /\ at[c] = "idle" /\ at'[c] = "decide" /\ writer = None
      /\ \A d \in Connection : d # c =>
           at'[d] = at[d] /\ hdr'[d] = hdr[d] /\ readLock'[d] = readLock[d] /\ minFrame'[d] = minFrame[d]
      /\ UNCHANGED <<writer, iFrame, store, sure, transaction, db, log>>
  BY DEF Recover, Moves, Set, files, history, WalInv, WalTypes
<1>2. writer # c
  BY <1>1, WalAssumption
<1> QED  BY <1>1, <1>2, Aside

LEMMA BeginReadUnseen ==
  ASSUME WalInv, StoreInv, NEW c \in Connection,
         ReadHdr(c) \/ Decide(c) \/ ChooseMark(c) \/ ShareMark(c) \/ SetMinFrame(c)
  PROVE  UNCHANGED Store!storeVars
<1> USE DEF index, reading, files, history
<1>1. CASE \E s \in {"mark", "share"} : Leave(c, s)
  <2>1. UNCHANGED <<aPgno, writer, iFrame, files, transaction, history>>
    BY DEF ReadHdr, Decide, ChooseMark, ShareMark, SetMinFrame
  <2> QED  BY <1>1, <2>1, LeaveUnseen
<1>2. CASE ~ \E s \in {"mark", "share"} : Leave(c, s)
  <2>1. /\ UNCHANGED <<aPgno, writer, iFrame, store, sure, transaction, db, log>>
        /\ at[c] \in {"idle", "decide", "mark", "share", "minFrame"}
        /\ \E n \in {"decide", "compare", "mark", "share", "minFrame", "check"} :
             at' = [at EXCEPT ![c] = n]
        /\ hdr' = hdr \/ hdr' = [hdr EXCEPT ![c] = header]
        /\ readLock' = readLock \/ \E n : readLock' = [readLock EXCEPT ![c] = n]
        /\ minFrame' = minFrame \/ minFrame' = [minFrame EXCEPT ![c] = nBackfill + 1]
    <3>1. CASE ReadHdr(c) \/ Decide(c)
      BY <3>1 DEF ReadHdr, Decide, Moves, Set
    <3>2. CASE ChooseMark(c)
      BY <1>2, <3>2 DEF ChooseMark, Moves, Set
    <3>3. CASE ShareMark(c) \/ SetMinFrame(c)
      BY <1>2, <3>3 DEF ShareMark, SetMinFrame, Moves, Set
    <3> QED  BY <3>1, <3>2, <3>3
  <2>2. at'[c] \in {"decide", "compare", "mark", "share", "minFrame", "check"}
    BY <2>1 DEF WalInv, WalTypes
  <2>3. \A d \in Connection : d # c =>
          at'[d] = at[d] /\ hdr'[d] = hdr[d] /\ readLock'[d] = readLock[d] /\ minFrame'[d] = minFrame[d]
    BY <2>1 DEF WalInv, WalTypes, StoreInv, StoreTypes
  <2> QED  BY <2>1, <2>2, <2>3, Aside
<1> QED  BY <1>1, <1>2

\* A reader that has its lock, and the header still, begins with the latest state.
LEMMA ReaderBegins ==
  ASSUME WalInv, StoreInv, NEW c \in Connection, at[c] \in {"compare", "check"},
         at' = [at EXCEPT ![c] = "read"],
         writer # c, header = hdr[c], UNCHANGED <<index, hdr, readLock, minFrame, writer, iFrame,
                                                  files,
                                                   transaction, history>>
  PROVE  Store!Begin(c)
<1> USE DEF index, files, history
<1>1. /\ at'[c] = "read" /\ \A d \in Connection : d # c => at'[d] = at[d]
      /\ header # None /\ minFrame[c] \in Nat
  BY DEF WalInv, WalTypes, PlaceInv, StoreInv, StoreTypes
<1>2. [p \in Page |-> PageRead(c, p)] = Last(store)
  <2>1. readLock[c] = 0 => nBackfill = header.mxFrame
    BY DEF WalInv, FileInv, LockInv, Marks
  <2>2. readLock[c] # 0 => at[c] = "check" /\ readLock[c] > 0
    BY DEF WalInv, LockInv, Marks
  <2>3. readLock[c] # 0 => 1 <= minFrame[c] /\ minFrame[c] <= nBackfill + 1
    BY <2>2 DEF StoreInv, ReadInv, ReadsWell
  <2> QED  BY <1>1, <2>1, <2>3, LatestIsRead
<1>3. \A p \in Page : PageRead(c, p)' = PageRead(c, p)
  BY DEF PageRead, FrameOf
<1>4. Views'[c] = Last(store) /\ Views[c] = None
  <2>1. Views'[c] = [p \in Page |-> PageRead(c, p)]
    BY <1>1, <1>3 DEF Views
  <2> QED  BY <1>2, <2>1 DEF Views
<1>5. Views' = [Views EXCEPT ![c] = Last(store)]
  BY <1>1, <1>4, ViewsChange
<1>6. DraftSeen' = DraftSeen /\ Sealed' = Sealed
  BY <1>1, WriterSeenSame
<1> QED  BY <1>4, <1>5, <1>6, BeginSeen

LEMMA CompareImplements ==
  ASSUME WalInv, StoreInv, NEW c \in Connection, Compare(c)
  PROVE  [Store!StoreNext]_(Store!storeVars)
<1>1. UNCHANGED <<index, writer, iFrame, files, transaction, history>> /\ aPgno' = aPgno
  BY DEF Compare, index
<1>2. CASE header = hdr[c] /\ Moves(c, "compare", "read") /\ UNCHANGED reading
  <2>1. /\ at[c] = "compare" /\ at' = [at EXCEPT ![c] = "read"]
        /\ UNCHANGED <<hdr, readLock, minFrame>>
    BY <1>2 DEF Moves, reading
  <2>2. writer # c
    <3>1. writer = c => at[c] \in Writes \cup Waits
      BY WalAssumption DEF StoreInv, StoreTypes
    <3> QED  BY <2>1, <3>1 DEF Writes, Waits
  <2>3. Store!Begin(c)
    BY <1>1, <1>2, <2>1, <2>2, ReaderBegins
  <2> QED  BY <2>3 DEF Store!StoreNext
<1>3. CASE header # hdr[c] /\ Leave(c, "compare")
  BY <1>1, <1>3, LeaveUnseen
<1> QED  BY <1>2, <1>3 DEF Compare

LEMMA CheckMarkImplements ==
  ASSUME WalInv, StoreInv, NEW c \in Connection, CheckMark(c)
  PROVE  [Store!StoreNext]_(Store!storeVars)
<1>1. UNCHANGED <<index, writer, iFrame, files, transaction, history>> /\ aPgno' = aPgno
  BY DEF CheckMark, index
<1>2. CASE /\ Moves(c, "check", "read") /\ Still(c) /\ writer # c
           /\ UNCHANGED <<hdr, readLock, minFrame>>
  <2>1. at[c] = "check" /\ at' = [at EXCEPT ![c] = "read"] /\ header = hdr[c]
    BY <1>2 DEF Moves, Still
  <2>2. Store!Begin(c)
    BY <1>1, <1>2, <2>1, ReaderBegins
  <2> QED  BY <2>2 DEF Store!StoreNext
<1>3. CASE Moves(c, "check", "log") /\ UNCHANGED <<hdr, readLock, minFrame>>
  <2>1. at[c] = "check" /\ at'[c] = "log" /\ \A d \in Connection : d # c => at'[d] = at[d]
    BY <1>3 DEF Moves, WalInv, WalTypes
  <2> QED  BY <1>1, <1>3, <2>1, Aside DEF files, history
<1>4. CASE Leave(c, "check")
  BY <1>1, <1>4, LeaveUnseen
<1> QED  BY <1>2, <1>3, <1>4 DEF CheckMark

LEMMA EndReadImplements ==
  ASSUME WalInv, StoreInv, NEW c \in Connection, EndRead(c)
  PROVE  [Store!StoreNext]_(Store!storeVars)
<1>1. Leave(c, "read") /\ UNCHANGED <<index, writer, iFrame, files, transaction,
                                      history>> /\ aPgno' = aPgno
  BY DEF EndRead, index
<1>2. /\ at[c] = "read" /\ at'[c] = (IF writer = c THEN "mark" ELSE "idle")
      /\ \A d \in Connection : d # c =>
           at'[d] = at[d] /\ hdr'[d] = hdr[d] /\ readLock'[d] = readLock[d] /\ minFrame'[d] = minFrame[d]
  BY <1>1, LeaveIs
<1>3. DraftSeen' = DraftSeen /\ Sealed' = Sealed
  BY <1>1, <1>2, WriterSeenSame DEF files, history
<1>4. Views' = [Views EXCEPT ![c] = None]
  <2>1. Views'[c] = None
    BY <1>2 DEF Views
  <2> QED  BY <1>1, <1>2, <2>1, ViewsChange DEF files
<1>5. Views[c] # None
  <2>1. Views[c] = [p \in Page |-> PageRead(c, p)]
    BY <1>2 DEF Views
  <2> QED  BY <1>2, <2>1, SeesVersions
<1>6. Store!End(c)
  BY <1>1, <1>3, <1>4, <1>5, EndSeen DEF history
<1> QED  BY <1>6 DEF Store!StoreNext

\* A writer begins with the latest state, as it has the header still.
LEMMA BeginWriteImplements ==
  ASSUME WalInv, StoreInv, NEW c \in Connection, BeginWrite(c)
  PROVE  Store!BeginWrite(c)
<1>1. /\ writer = None /\ writer' = c /\ header = hdr[c] /\ at[c] = "read" /\ at'[c] = "write"
      /\ \A d \in Connection : d # c => at'[d] = at[d]
      /\ transaction' = transaction + 1 /\ transaction \in Nat
      /\ UNCHANGED <<aPgno, hdr, readLock, minFrame, iFrame, log, db, store, sure>>
  BY DEF BeginWrite, Moves, index, reading, files, history, WalInv, WalTypes
<1>2. [p \in Page |-> PageRead(c, p)] = Last(store)
  <2>1. readLock[c] = 0 => nBackfill = header.mxFrame
    BY <1>1 DEF WalInv, FileInv
  <2> QED  BY <1>1, <2>1, ReaderIs, LatestIsRead
<1>3. Views[c] = Last(store)
  BY <1>1, <1>2 DEF Views
<1>4. Views' = [Views EXCEPT ![c] = None]
  <2>1. Views'[c] = None
    BY <1>1 DEF Views
  <2> QED  BY <1>1, <2>1, ViewsChange
<1>5. DraftSeen' = Last(store)
  <2>1. \A f \in Frames : log.frames[f] # None => log.frames[f].data # transaction + 1
    BY <1>1, FrameData
  <2>2. Logged' = {}
    BY <1>1, <2>1 DEF Logged
  <2>3. Last(store)' = Last(store)
    BY <1>1 DEF Last
  <2>4. Draft' = [p \in Page |-> Last(store)[p]]
    BY <2>2, <2>3 DEF Draft
  <2>5. Last(store) \in [Page -> Version]
    BY DraftIs
  <2>6. Writing'
    BY <1>1, WalAssumption DEF Writing
  <2> QED  BY <2>4, <2>5, <2>6 DEF DraftSeen
<1>6. Sealed' = Sealed
  BY <1>1 DEF Sealed, Writing
<1> QED  BY <1>1, <1>3, <1>4, <1>5, <1>6, BeginWriteSeen

\* To restart the log, to begin it or to go on in it is not seen.
LEMMA PrepareUnseen ==
  ASSUME WalInv, StoreInv, NEW c \in Connection,
         RestartLog(c) \/ Reset(c) \/ WriteHeader(c) \/ AfterOthers(c)
  PROVE  UNCHANGED Store!storeVars
<1> USE DEF index, reading, files, history
<1>1. /\ UNCHANGED <<aPgno, writer, minFrame, store, sure, transaction,
                     db>> /\ log'.frames = log.frames
      /\ at[c] \in {"write", "reset", "log"}
      /\ \E n \in {"log", "reset", "mark", "header", "frames"} : at' = [at EXCEPT ![c] = n]
      /\ hdr' = hdr \/ \E n : hdr' = [hdr EXCEPT ![c] = n]
      /\ readLock' = readLock \/ \E n : readLock' = [readLock EXCEPT ![c] = n]
  <2>1. CASE RestartLog(c)
    BY <2>1 DEF RestartLog, Moves, Set
  <2>2. CASE Reset(c)
    BY <2>2 DEF Reset, Moves, Set
  <2>3. CASE WriteHeader(c)
    <3>1. log'.frames = log.frames
      BY <2>3 DEF WriteHeader, WalInv, WalTypes
    <3>2. \E n : hdr' = [hdr EXCEPT ![c] = n]
      BY <2>3 DEF WriteHeader
    <3> QED  BY <2>3, <3>1, <3>2 DEF WriteHeader, Moves
  <2>4. CASE AfterOthers(c)
    BY <2>4 DEF AfterOthers, Moves
  <2> QED  BY <2>1, <2>2, <2>3, <2>4
<1>2. at'[c] \in {"log", "reset", "mark", "header", "frames"}
  BY <1>1 DEF WalInv, WalTypes
<1>3. \A d \in Connection : d # c =>
        at'[d] = at[d] /\ hdr'[d] = hdr[d] /\ readLock'[d] = readLock[d] /\ minFrame'[d] = minFrame[d]
  BY <1>1 DEF WalInv, WalTypes
<1>4. writer = c
  BY <1>1, WriterIs DEF Writes
<1> QED  BY <1>1, <1>2, <1>3, <1>4, Aside

LEMMA SyncHeaderImplements ==
  ASSUME WalInv, StoreInv, NEW c \in Connection, SyncHeader(c)
  PROVE  Store!Persist
<1>1. /\ at[c] = "header" /\ at'[c] = "frames" /\ sure' = Len(store)
      /\ \A d \in Connection : d # c => at'[d] = at[d]
      /\ UNCHANGED <<aPgno, writer, hdr, readLock, minFrame, store, transaction, db, log>>
  BY DEF SyncHeader, Moves, index, reading, WalInv, WalTypes
<1>2. writer = c /\ writer # None
  BY <1>1, WriterIs DEF Writes
<1>3. Views' = Views
  BY <1>1, ViewsKept
<1>4. DraftSeen' = DraftSeen /\ Sealed' = Sealed
  <2>1. Draft' = Draft
    BY <1>1 DEF Draft, Logged, Last
  <2> QED  BY <1>1, <1>2, <2>1 DEF DraftSeen, Writing, Sealed
<1> QED  BY <1>1, <1>3, <1>4, PersistSeen

\* Behind the frames that the header counts nobody looks.
LEMMA WriteFrameImplements ==
  ASSUME WalInv, StoreInv, NEW c \in Connection, NEW p \in Page, NEW commit \in BOOLEAN,
         WriteFrame(c, p, commit)
  PROVE  Store!StoreNext
<1>1. /\ at[c] = "frames" /\ at'[c] \in {"frames", "append"}
      /\ \A d \in Connection : d # c => at'[d] = at[d]
      /\ writer = c /\ writer # None /\ header # None /\ header.mxFrame \in Nat
      /\ header.mxFrame <= iFrame /\ iFrame \in Nat /\ iFrame + 1 \in Frames
      /\ \A f \in Frames : f # iFrame + 1 => log'.frames[f] = log.frames[f]
  BY WriteFrameIs
<1>2. Writing /\ Writing' /\ ~Sealed /\ (Sealed' <=> commit)
  BY WriteFrameKeepsRest
<1>3. UNCHANGED <<aPgno, writer, hdr, readLock, minFrame, store, sure, transaction, db>>
  BY DEF WriteFrame, index, reading, history
<1>4. Views' = Views
  <2>1. \A f \in 1..header.mxFrame : f \in Frames /\ f # iFrame + 1
    BY <1>1, WalAssumption DEF Frames
  <2> QED  BY <1>1, <1>3, <2>1, ViewsKept
<1>5. DraftSeen # None
  BY <1>2, DraftIs DEF DraftSeen
<1>6. DraftSeen' \in [Page -> Version]
  <2>1. transaction \in Version /\ transaction' = transaction
    BY <1>3, WalAssumption DEF StoreInv, StoreTypes, WalInv, WalTypes, Version
  <2>2. Last(store)' = Last(store) /\ Last(store) \in [Page -> Version]
    BY <1>3, DraftIs DEF Last
  <2>3. Draft' \in [Page -> Version]
    BY <2>1, <2>2 DEF Draft
  <2> QED  BY <1>2, <2>3 DEF DraftSeen
<1>7. Sealed' \in BOOLEAN
  BY <1>2 DEF Sealed
<1> QED  BY <1>1, <1>2, <1>3, <1>4, <1>5, <1>6, <1>7, WriteSeen

LEMMA AppendIndexUnseen ==
  ASSUME WalInv, StoreInv, NEW c \in Connection, AppendIndex(c)
  PROVE  UNCHANGED Store!storeVars
<1>1. /\ at[c] = "append" /\ \A d \in Connection : d # c => at'[d] = at[d]
      /\ at'[c] = IF log.frames[iFrame].commit THEN "publish" ELSE "write"
      /\ aPgno' = [f \in Frames |-> IF f <= hdr[c].mxFrame THEN aPgno[f]
                                    ELSE IF f <= iFrame THEN log.frames[f].page ELSE None]
      /\ \A d \in Connection : d # c => hdr'[d] = hdr[d]
      /\ UNCHANGED <<header, writer, readLock, minFrame, iFrame, log, db, transaction, store, sure>>
  BY DEF AppendIndex, Moves, index, reading, files, history, WalInv, WalTypes, Header
<1>2. writer = c /\ writer # None /\ header # None /\ header.mxFrame \in Nat /\ hdr[c].mxFrame \in Nat
  BY <1>1, WriterIs DEF Writes
<1>3. header.mxFrame <= hdr[c].mxFrame /\ header.mxFrame <= MaxFrame
  BY <1>1, <1>2 DEF WalInv, WriterInv, Appends, StoreInv, StoreTypes
<1>4. \A f \in 1..header.mxFrame : aPgno'[f] = aPgno[f]
  BY <1>1, <1>2, <1>3, WalAssumption DEF Frames
<1>5. Views' = Views
  BY <1>1, <1>4, ViewsKept
<1>6. DraftSeen' = DraftSeen /\ Sealed' = Sealed
  <2>1. Draft' = Draft
    BY <1>1 DEF Draft, Logged, Last
  <2> QED  BY <1>1, <1>2, <2>1 DEF DraftSeen, Writing, Sealed
<1> QED  BY <1>1, <1>5, <1>6, Unseen

\* The transaction is committed by the header, and what was written is seen.
LEMMA PublishImplements ==
  ASSUME WalInv, StoreInv, NEW c \in Connection, Publish(c)
  PROVE  Store!Commit
<1>1. /\ at[c] = "publish" /\ at'[c] = "wrote" /\ \A d \in Connection : d # c => at'[d] = at[d]
      /\ \A d \in Connection : d # c => hdr'[d] = hdr[d]
      /\ store' = Append(store, Draft)
      /\ UNCHANGED <<aPgno, writer, readLock, minFrame, log, db, sure>>
  BY DEF Publish, Moves, Set, files, WalInv, WalTypes
<1>2. writer = c /\ writer # None
  BY <1>1, WriterIs DEF Writes
<1>3. Sealed /\ Writing
  BY <1>1, <1>2 DEF Sealed, Writing, StoreInv, PenInv
<1>4. Views' = Views
  BY <1>1, ViewsKept
<1>5. DraftSeen' = None /\ ~Sealed'
  BY <1>1, <1>2 DEF DraftSeen, Sealed, Writing
<1> QED  BY <1>1, <1>3, <1>4, <1>5, CommitSeen DEF DraftSeen

LEMMA UndoImplements ==
  ASSUME WalInv, StoreInv, NEW c \in Connection, Undo(c)
  PROVE  Store!Rollback
<1>1. /\ at[c] \in {"write", "frames"} /\ at'[c] = "wrote"
      /\ \A d \in Connection : d # c => at'[d] = at[d] /\ hdr'[d] = hdr[d]
      /\ aPgno' = [f \in Frames |-> IF header.mxFrame # 0 /\ header.mxFrame # hdr[c].mxFrame
                                       /\ f > header.mxFrame
                                    THEN None ELSE aPgno[f]]
      /\ UNCHANGED <<header, writer, readLock, minFrame, log, db, store, sure>>
  BY DEF Undo, Moves, Set, files, history, WalInv, WalTypes
<1>2. writer = c /\ writer # None /\ header # None /\ header.mxFrame \in Nat
  BY <1>1, WriterIs DEF Writes
<1>3. \A f \in 1..header.mxFrame : aPgno'[f] = aPgno[f]
  <2>1. header.mxFrame <= MaxFrame
    BY <1>2 DEF StoreInv, StoreTypes
  <2> QED  BY <1>1, <1>2, <2>1, WalAssumption DEF Frames
<1>4. Views' = Views
  BY <1>1, <1>3, ViewsKept
<1>5. DraftSeen # None
  BY <1>1, <1>2, DraftIs DEF DraftSeen, Writing
<1>6. DraftSeen' = None /\ ~Sealed'
  BY <1>1, <1>2 DEF DraftSeen, Sealed, Writing
<1> QED  BY <1>1, <1>2, <1>4, <1>5, <1>6, RollbackSeen

\* What a writer reads when it is done is the latest state: its own, or that before.
LEMMA EndWriteImplements ==
  ASSUME WalInv, StoreInv, NEW c \in Connection, EndWrite(c)
  PROVE  Store!EndWrite
<1>1. /\ at[c] = "wrote" /\ at'[c] = "read" /\ writer' = None
      /\ \A d \in Connection : d # c => at'[d] = at[d]
      /\ UNCHANGED <<aPgno, hdr, readLock, minFrame, log, db, store, sure>>
  BY DEF EndWrite, Moves, index, reading, files, history, WalInv, WalTypes
<1>2. writer = c /\ writer # None /\ header # None
  BY <1>1, WriterIs DEF Writes
<1>3. ReadsWell(c) /\ hdr[c] = header
  BY <1>1 DEF StoreInv, ReadInv, ReadsWell
<1>4. [p \in Page |-> PageRead(c, p)] = Last(store)
  <2>1. readLock[c] = 0 => nBackfill = header.mxFrame
    BY <1>1, <1>3 DEF WalInv, FileInv
  <2>2. readLock[c] # 0 => readLock[c] > 0
    <3>1. readLock[c] \in -1..NReader /\ readLock[c] >= 0
      BY <1>1 DEF WalInv, LockInv, WalTypes, Reads, Writes
    <3> QED  BY <3>1, WalAssumption
  <2>3. readLock[c] # 0 => 1 <= minFrame[c] /\ minFrame[c] <= nBackfill + 1
    BY <1>1, <1>3, <2>2 DEF ReadsWell, Reads, Writes
  <2> QED  BY <1>2, <1>3, <2>1, <2>3, LatestIsRead
<1>5. Views' = [Views EXCEPT ![c] = Last(store)]
  <2>1. \A p \in Page : PageRead(c, p)' = PageRead(c, p)
    BY <1>1 DEF PageRead, FrameOf
  <2>2. Views'[c] = Last(store)
    BY <1>1, <1>4, <2>1 DEF Views
  <2> QED  BY <1>1, <2>2, ViewsChange
<1>6. DraftSeen = None /\ DraftSeen' = DraftSeen /\ Sealed' = Sealed
  BY <1>1, <1>2 DEF DraftSeen, Sealed, Writing
<1> QED  BY <1>1, <1>2, <1>5, <1>6, EndWriteSeen

\* What a checkpoint does apart from the copying is not seen.
LEMMA CheckpointUnseen ==
  ASSUME WalInv, StoreInv, NEW c \in Connection,
         Checkpoint(c) \/ Iterate(c) \/ LookAtMark(c) \/ ObeyMark(c) \/ Finish(c) \/ Unlock(c)
  PROVE  UNCHANGED Store!storeVars
<1> USE DEF index, reading, files, history
<1>1. CASE Unlock(c)
  <2>1. Leave(c, "unlock") /\ UNCHANGED <<aPgno, writer, iFrame, files, transaction, history>>
    BY <1>1 DEF Unlock
  <2> QED  BY <2>1, LeaveUnseen
<1>2. CASE Checkpoint(c) \/ Iterate(c) \/ LookAtMark(c) \/ ObeyMark(c) \/ Finish(c)
  <2>1. /\ UNCHANGED <<aPgno, writer, readLock, minFrame, iFrame, store, sure, transaction, db,
                       log>>
        /\ at[c] \in {"idle", "iterate", "marks", "obey", "finish"}
        /\ \E n \in {"iterate", "marks", "obey", "unlock"} : at' = [at EXCEPT ![c] = n]
        /\ hdr' = hdr \/ hdr' = [hdr EXCEPT ![c] = header]
    BY <1>2 DEF Checkpoint, Iterate, LookAtMark, ObeyMark, Finish, Moves, Set
  <2>2. at'[c] \in {"iterate", "marks", "obey", "unlock"}
    BY <2>1 DEF WalInv, WalTypes
  <2>3. \A d \in Connection : d # c => at'[d] = at[d] /\ hdr'[d] = hdr[d]
    BY <2>1 DEF WalInv, WalTypes
  <2> QED  BY <2>1, <2>2, <2>3, Aside
<1> QED  BY <1>1, <1>2

\* All is durable once the log is synced.
LEMMA SyncLogImplements ==
  ASSUME WalInv, StoreInv, NEW c \in Connection, SyncLog(c)
  PROVE  [Store!StoreNext]_(Store!storeVars)
<1>1. /\ at[c] = "marks" /\ at'[c] \in {"copy", "unlock"} /\ \A d \in Connection : d # c => at'[d] = at[d]
      /\ UNCHANGED <<aPgno, writer, hdr, readLock, minFrame, iFrame, store, transaction, db, log>>
      /\ sure' = sure \/ sure' = Len(store)
  BY DEF SyncLog, Moves, index, reading, WalInv, WalTypes
<1>2. Views' = Views
  BY <1>1, ViewsKept
<1>3. DraftSeen' = DraftSeen /\ Sealed' = Sealed
  <2>1. writer # c
    <3>1. writer = c => at[c] \in Writes \cup Waits
      BY WalAssumption DEF StoreInv, StoreTypes
    <3> QED  BY <1>1, <3>1 DEF Writes, Waits
  <2>2. writer # None => at'[writer] = at[writer]
    BY <1>1, <2>1 DEF StoreInv, StoreTypes
  <2>3. Draft' = Draft
    BY <1>1 DEF Draft, Logged, Last
  <2> QED  BY <1>1, <2>2, <2>3 DEF DraftSeen, Writing, Sealed
<1>4. CASE sure' = sure
  BY <1>1, <1>2, <1>3, <1>4, Unseen
<1>5. CASE sure' = Len(store)
  <2>1. Store!Persist
    BY <1>1, <1>2, <1>3, <1>5, PersistSeen
  <2> QED  BY <2>1 DEF Store!StoreNext
<1> QED  BY <1>1, <1>4, <1>5

\* A page that is copied back is found in the log by all who read: nothing is copied
\* that is newer than what any of them reads, and what is in the log is looked for there.
LEMMA CopyPageUnseen ==
  ASSUME WalInv, StoreInv, NEW c \in Connection, NEW p \in Page, CopyPage(c, p)
  PROVE  UNCHANGED Store!storeVars
<1>1. /\ at[c] = "copy" /\ at'[c] \in {"copy", "finish"} /\ \A d \in Connection : d # c => at'[d] = at[d]
      /\ UNCHANGED <<aPgno, writer, hdr, readLock, minFrame, iFrame, store, sure, transaction, log>>
  BY DEF CopyPage, Moves, index, reading, history, WalInv, WalTypes
<1>2. PICK i : i = ckpt.iter[p]
  OBVIOUS
<1>3. db' = db \/ (i \in nBackfill + 1..ckpt.mxSafeFrame /\ db' = [db EXCEPT ![p] = db'[p]])
  <2>1. db \in [Page -> 0..transaction \cup {Torn}]
    BY DEF StoreInv, StoreTypes
  <2> QED  BY <1>2, <2>1 DEF CopyPage
<1>4. /\ ckpt.mxSafeFrame \in Nat /\ nBackfill \in Nat /\ header.mxFrame \in Nat
      /\ i > 0 => i \in Frames /\ aPgno[i] = p
  BY <1>1, <1>2, IterIs DEF Backfills, WalInv, WalTypes
<1>5. ASSUME NEW d \in Connection, at[d] = "read", NEW q \in Page
      PROVE  PageRead(d, q)' = PageRead(d, q)
  <2>1. readLock[d] > 0
    BY <1>1, <1>5 DEF WalInv, LockInv, WalTypes, Reads, Copying
  <2>2. ckpt.mxSafeFrame <= hdr[d].mxFrame
    BY <1>1, <1>5, <2>1 DEF WalInv, SafeInv, Backfills, Reads
  <2>3. /\ minFrame[d] <= nBackfill + 1 /\ minFrame[d] \in Nat /\ hdr[d].mxFrame \in Nat /\ readLock[d] # 0
    <3>1. readLock[d] # 0
      BY <2>1
    <3> QED  BY <1>5, <3>1, ReaderIs
  <2>4. PICK n : n = FrameOf(minFrame[d]..hdr[d].mxFrame, q)
    OBVIOUS
  <2>5. PageRead(d, q) = IF n = 0 THEN db[q] ELSE log.frames[n].data
    BY <2>3, <2>4 DEF PageRead
  <2>6. PageRead(d, q)' = IF n = 0 THEN db'[q] ELSE log.frames[n].data
    <3>1. FrameOf(minFrame[d]..hdr[d].mxFrame, q)' = n
      BY <1>1, <2>4 DEF FrameOf
    <3> QED  BY <1>1, <2>3, <3>1 DEF PageRead
  <2>7. n = 0 => db'[q] = db[q]
    <3>1. SUFFICES ASSUME n = 0, i \in nBackfill + 1..ckpt.mxSafeFrame,
                          db' = [db EXCEPT ![p] = db'[p]], q = p
                   PROVE  FALSE
      BY <1>3 DEF StoreInv, StoreTypes
    <3>2. i \in minFrame[d]..hdr[d].mxFrame /\ aPgno[i] = q /\ i > 0
      BY <1>4, <2>2, <2>3, <3>1
    <3>3. \A a \in Nat, m \in Nat : \A f \in a..m : aPgno[f] = q => f <= FrameOf(a..m, q)
      BY FrameOfIs
    <3>4. i <= n
      BY <2>3, <2>4, <3>2, <3>3
    <3> QED  BY <1>4, <3>1, <3>2, <3>4
  <2> QED  BY <2>5, <2>6, <2>7
<1>6. Views' = Views
  <2>1. \A d \in Connection : at'[d] = "read" <=> at[d] = "read"
    BY <1>1
  <2>2. \A d \in Connection : at[d] = "read" =>
          [q \in Page |-> PageRead(d, q)]' = [q \in Page |-> PageRead(d, q)]
    BY <1>5
  <2> QED  BY <2>1, <2>2 DEF Views
<1>7. DraftSeen' = DraftSeen /\ Sealed' = Sealed
  <2>1. writer # c
    <3>1. writer = c => at[c] \in Writes \cup Waits
      BY WalAssumption DEF StoreInv, StoreTypes
    <3> QED  BY <1>1, <3>1 DEF Writes, Waits
  <2> QED  BY <1>1, <2>1, WriterSeenSame
<1> QED  BY <1>1, <1>6, <1>7, Unseen

\* After a crash the states are those that are left of what was written.
LEMMA CrashImplements ==
  ASSUME WalInv, StoreInv, Kill \/ PowerLoss
  PROVE  Store!StoreNext
<1>1. Store!Written = States
  BY WrittenIs
<1>2. Store!Ended
  BY CrashSeen DEF Kill, PowerLoss
<1>3. CASE Kill
  <2>1. Store!Kill
    BY <1>1, <1>2, <1>3, KillKeepsStore DEF Store!Kill
  <2> QED  BY <2>1 DEF Store!StoreNext
<1>4. CASE PowerLoss
  <2>1. \E i \in sure..Len(States) : store' = SubSeq(States, 1, i)
    BY <1>4, PowerLossKeepsStore
  <2>2. Store!PowerLoss
    BY <1>1, <1>2, <2>1 DEF Store!PowerLoss
  <2> QED  BY <2>2 DEF Store!StoreNext
<1> QED  BY <1>3, <1>4

\* Every step is one of SnapshotStore, or is not seen.
LEMMA StepImplements ==
  ASSUME WalInv, StoreInv, [WalNext]_walVars
  PROVE  [Store!StoreNext]_(Store!storeVars)
<1>1. CASE UNCHANGED walVars
  <2>1. UNCHANGED <<aPgno, writer, at, hdr, readLock, minFrame, iFrame, log, db, transaction,
                    store, sure>>
    BY <1>1 DEF walVars, index, reading, files, history
  <2>2. Views' = Views
    BY <2>1 DEF Views, PageRead, FrameOf
  <2>3. DraftSeen' = DraftSeen /\ Sealed' = Sealed
    BY <2>1 DEF DraftSeen, Draft, Logged, Last, Writing, Sealed
  <2> QED  BY <2>1, <2>2, <2>3, Unseen
<1>2. CASE Kill \/ PowerLoss
  BY <1>2, CrashImplements
<1>3. ASSUME NEW c \in Connection,
             \/ Recover(c) \/ ReadHdr(c) \/ Decide(c) \/ Compare(c)
             \/ ChooseMark(c) \/ ShareMark(c) \/ SetMinFrame(c) \/ CheckMark(c) \/ EndRead(c)
      PROVE  [Store!StoreNext]_(Store!storeVars)
  BY <1>3, RecoverUnseen, BeginReadUnseen, CompareImplements, CheckMarkImplements, EndReadImplements
<1>4. ASSUME NEW c \in Connection,
             \/ RestartLog(c) \/ Reset(c) \/ WriteHeader(c) \/ AfterOthers(c) \/ AppendIndex(c)
             \/ \E p \in Page, commit \in BOOLEAN : WriteFrame(c, p, commit)
      PROVE  [Store!StoreNext]_(Store!storeVars)
  BY <1>4, PrepareUnseen, AppendIndexUnseen, WriteFrameImplements
<1>5. ASSUME NEW c \in Connection,
             BeginWrite(c) \/ SyncHeader(c) \/ Publish(c) \/ Undo(c) \/ EndWrite(c)
      PROVE  Store!StoreNext
  BY <1>5, BeginWriteImplements, SyncHeaderImplements, PublishImplements, UndoImplements,
     EndWriteImplements
     DEF Store!StoreNext
<1>6. ASSUME NEW c \in Connection,
             \/ Checkpoint(c) \/ Iterate(c) \/ LookAtMark(c) \/ ObeyMark(c) \/ SyncLog(c)
             \/ \E p \in Page : CopyPage(c, p)
             \/ Finish(c) \/ Unlock(c)
      PROVE  [Store!StoreNext]_(Store!storeVars)
  BY <1>6, CheckpointUnseen, SyncLogImplements, CopyPageUnseen
<1> QED  BY <1>1, <1>2, <1>3, <1>4, <1>5, <1>6 DEF WalNext

LEMMA InitImplements ==
  ASSUME WalInit
  PROVE  Store!StoreInit
<1>1. Views = [c \in Connection |-> None] /\ DraftSeen = None /\ ~Sealed
  BY DEF WalInit, Views, DraftSeen, Sealed, Writing
<1>2. store = <<[p \in Page |-> 0]>> /\ sure = 1 /\ writer = None
  BY DEF WalInit
<1> QED  BY <1>1, <1>2 DEF Store!StoreInit, Views, DraftSeen, Sealed

\* The log and all who use it implement the store that SnapshotStore specifies, for any
\* number of connections, pages, marks, frames and transactions and through any crashes:
\* every reader sees one committed state, the latest when it began (walTryBeginRead, wal.c
\* 2189-2393), whatever is appended, copied back or restarted meanwhile; a commit is all or
\* nothing; and a recovery (walIndexRecover, 1099-1261) finds every state that was synced.
\* Until a checkpointer has gone on with the header of a log that was restarted after it
\* had read it (3285, 1760): then pages of another log are copied.
THEOREM LogImplementsStore == WalSpec => ImplementsStore
<1> DEFINE Held == ~outrun => WalInv /\ StoreInv
<1>1. WalInit => Store!StoreInit
  BY InitImplements
<1>2. Held /\ [WalNext]_walVars => [Store!StoreNext \/ outrun']_(Store!storeVars)
  <2> SUFFICES ASSUME Held, [WalNext]_walVars, ~outrun'
               PROVE  [Store!StoreNext]_(Store!storeVars)
    OBVIOUS
  <2>1. ~outrun
    BY OutrunStays
  <2> QED  BY <2>1, StepImplements
<1>3. WalSpec => []Held
  BY StoreInvHolds
<1> QED  BY <1>1, <1>2, <1>3, PTL DEF WalSpec, ImplementsStore

============================================================================
