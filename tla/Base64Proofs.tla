---------------------------- MODULE Base64Proofs ----------------------------
(***************************************************************************)
(* For data of every length and every received text: the encoder and the   *)
(* decoder write inside the buffers they allocated, what they compute is   *)
(* the Base64 of the standard, and data that is sent comes back.           *)
(*                                                                         *)
(* The loops of the special characters and of the decoder are functions    *)
(* here, and what they compute is shown by the induction of LoopInduction; *)
(* the bits of the reference are then compared block by block, and an      *)
(* invariant says of either direction what its buffer holds so far.        *)
(***************************************************************************)
EXTENDS Base64, LoopInduction, SequenceTheorems

-----------------------------------------------------------------------------
(***************************************************************************)
(* The special characters.  replaceOccurrencesOfString: looks at the       *)
(* characters from the left, and the functions that model it are defined   *)
(* from the right.                                                         *)
(***************************************************************************)

\* replaceOccurrencesOfString: as the loop that it is.
PairsFrom(s, old, new, f) ==
  /\ f[1] = ReplacePairs(s, old, new)
  /\ f[Len(s) + 1] = <<>> /\ f[Len(s) + 2] = <<>>
  /\ \A n \in 1..Len(s) :
       f[n] = IF n < Len(s) /\ s[n] = old /\ s[n + 1] = old THEN <<new>> \o f[n + 2]
              ELSE <<s[n]>> \o f[n + 1]

LEMMA PairsAre ==
  ASSUME NEW S, NEW s \in Seq(S), NEW old, NEW new \in S
  PROVE  \E f : PairsFrom(s, old, new, f) /\ \A n \in 1..Len(s) + 1 : f[n] \in Seq(S)
<1> DEFINE N == Len(s)
           D == Seq(S)
           first == <<>>
           step == [n \in 1..N |-> [r \in D |-> [q \in D |->
                     IF n < N /\ s[n] = old /\ s[n + 1] = old THEN <<new>> \o q ELSE <<s[n]>> \o r]]]
<1>0. N \in Nat /\ \A n \in 1..N : s[n] \in S
  OBVIOUS
<1>1. first \in D /\ step \in [1..N -> [D -> [D -> D]]]
  BY <1>0
<1>2. PICK g \in [1..N + 2 -> D] :
        /\ g[N + 1] = first /\ g[N + 2] = first
        /\ \A n \in 1..N : g[n] = step[n][g[n + 1]][g[n + 2]]
  <2> HIDE DEF N, D, first, step
  <2>1. N \in Nat
    BY <1>0
  <2>2. \E g : ComputesBack(g, N, D, first, step)
    BY <1>1, <2>1, BackwardsComputes
  <2> QED  BY <2>2 DEF ComputesBack
<1>3. ASSUME NEW n \in 1..N
      PROVE  g[n] = IF n < N /\ s[n] = old /\ s[n + 1] = old THEN <<new>> \o g[n + 2]
                    ELSE <<s[n]>> \o g[n + 1]
  <2>0. n + 1 \in 1..N + 2 /\ n + 2 \in 1..N + 2
    BY <1>0
  <2>1. g[n + 1] \in D /\ g[n + 2] \in D
    <3> HIDE DEF D
    <3> QED  BY <1>2, <2>0
  <2>2. g[n] = step[n][g[n + 1]][g[n + 2]]
    <3> HIDE DEF D, step
    <3> QED  BY <1>2
  <2> HIDE DEF D
  <2>3. step[n][g[n + 1]] = [q \in D |->
            IF n < N /\ s[n] = old /\ s[n + 1] = old THEN <<new>> \o q ELSE <<s[n]>> \o g[n + 1]]
    BY <2>1
  <2> QED  BY <2>1, <2>2, <2>3
<1> DEFINE Fix(f) == f = [n \in 1..N + 2 |->
                       IF n > N THEN <<>>
                       ELSE IF n < N /\ s[n] = old /\ s[n + 1] = old THEN <<new>> \o f[n + 2]
                       ELSE <<s[n]>> \o f[n + 1]]
           from == CHOOSE f : Fix(f)
<1>4. Fix(g)
  <2>1. \A n \in 1..N + 2 : n > N <=> n = N + 1 \/ n = N + 2
    BY <1>0
  <2>2. \A n \in 1..N + 2 : n \in 1..N \/ n > N
    BY <1>0
  <2> HIDE DEF step, D, N
  <2>3. \A n \in 1..N + 2 :
          g[n] = IF n > N THEN <<>>
                 ELSE IF n < N /\ s[n] = old /\ s[n + 1] = old THEN <<new>> \o g[n + 2]
                 ELSE <<s[n]>> \o g[n + 1]
    BY <1>2, <1>3, <2>1, <2>2 DEF first
  <2> QED  BY <2>3
<1>5. Fix(from)
  BY <1>4
<1>6. ReplacePairs(s, old, new) = from[1]
  BY DEF ReplacePairs
<1>7. \A n \in 1..N + 2 :
        from[n] = IF n > N THEN <<>>
                  ELSE IF n < N /\ s[n] = old /\ s[n + 1] = old THEN <<new>> \o from[n + 2]
                  ELSE <<s[n]>> \o from[n + 1]
  <2> HIDE DEF from
  <2> QED  BY <1>5
<1> HIDE DEF from
<1>8. /\ N + 1 \in 1..N + 2 /\ N + 2 \in 1..N + 2 /\ N + 1 > N /\ N + 2 > N
      /\ \A n \in 1..N : n \in 1..N + 2 /\ ~(n > N)
  BY <1>0
<1>9. PairsFrom(s, old, new, from)
  <2> HIDE DEF N
  <2>1. from[N + 1] = <<>> /\ from[N + 2] = <<>>
    BY <1>7, <1>8
  <2>2. \A n \in 1..N : from[n] = IF n < N /\ s[n] = old /\ s[n + 1] = old THEN <<new>> \o from[n + 2]
                                 ELSE <<s[n]>> \o from[n + 1]
    BY <1>7, <1>8
  <2> QED  BY <1>6, <2>1, <2>2 DEF PairsFrom, N
<1> DEFINE P == {n \in 1..N + 1 : from[n] \in D /\ from[n + 1] \in D}
<1>10. \A n \in 1..N + 1 : n \in P
  <2>1. N + 1 \in P
    <3>1. from[N + 1] = <<>> /\ from[N + 2] = <<>> /\ (N + 1) + 1 = N + 2 /\ N + 1 \in 1..N + 1
      BY <1>0, <1>9 DEF PairsFrom
    <3>2. <<>> \in D
      OBVIOUS
    <3> HIDE DEF N, D
    <3> QED  BY <3>1, <3>2
  <2>2. ASSUME NEW n \in 1..N, n + 1 \in P  PROVE n \in P
    <3>1. from[n + 1] \in D /\ from[n + 2] \in D
      BY <1>0, <2>2
    <3>2. from[n] = IF n < N /\ s[n] = old /\ s[n + 1] = old THEN <<new>> \o from[n + 2]
                    ELSE <<s[n]>> \o from[n + 1]
      BY <1>0, <1>7
    <3>3. from[n] \in D
      BY <1>0, <3>1, <3>2
    <3> QED  BY <1>0, <3>1, <3>3
  <2> HIDE DEF P, N
  <2> QED  BY <1>0, <2>1, <2>2, DownFrom
<1> QED  BY <1>9, <1>10

LEMMA PairsAreCharacters ==
  ASSUME NEW S, NEW s \in Seq(S), NEW old, NEW new \in S
  PROVE  ReplacePairs(s, old, new) \in Seq(S)
<1>1. PICK f : PairsFrom(s, old, new, f) /\ \A n \in 1..Len(s) + 1 : f[n] \in Seq(S)
  BY PairsAre
<1>2. 1 \in 1..Len(s) + 1
  OBVIOUS
<1> QED  BY <1>1, <1>2 DEF PairsFrom

\* Behind a prefix the loop does what it does without.
LEMMA PairsBehind ==
  ASSUME NEW S, NEW s \in Seq(S), NEW h \in Seq(S), NEW old, NEW new \in S,
         NEW f, PairsFrom(s, old, new, f), NEW g, PairsFrom(h \o s, old, new, g)
  PROVE  \A n \in 1..Len(s) + 1 : g[Len(h) + n] = f[n] /\ g[Len(h) + n + 1] = f[n + 1]
<1> DEFINE u == h \o s
           N == Len(s)
           H == Len(h)
           P == {n \in 1..N + 1 : g[H + n] = f[n] /\ g[H + n + 1] = f[n + 1]}
<1>1. N \in Nat /\ H \in Nat /\ Len(u) = H + N /\ \A n \in 1..N : u[H + n] = s[n]
  OBVIOUS
<1> HIDE DEF u, N, H
<1>2. N + 1 \in P
  <2>1. Len(u) + 1 = H + (N + 1) /\ Len(u) + 2 = H + (N + 1) + 1 /\ (N + 1) + 1 = N + 2
    BY <1>1
  <2>2. g[Len(u) + 1] = <<>> /\ g[Len(u) + 2] = <<>> /\ f[N + 1] = <<>> /\ f[N + 2] = <<>>
    BY DEF PairsFrom, u, N
  <2>3. N + 1 \in 1..N + 1
    BY <1>1
  <2> QED  BY <2>1, <2>2, <2>3
<1>3. ASSUME NEW n \in 1..N, n + 1 \in P  PROVE n \in P
  <2>1. g[H + n + 1] = f[n + 1] /\ g[H + n + 2] = f[n + 2]
    <3>1. H + (n + 1) = H + n + 1 /\ H + (n + 1) + 1 = H + n + 2 /\ (n + 1) + 1 = n + 2
      BY <1>1
    <3> QED  BY <1>3, <3>1
  <2>2. f[n] = IF n < N /\ s[n] = old /\ s[n + 1] = old THEN <<new>> \o f[n + 2]
               ELSE <<s[n]>> \o f[n + 1]
    BY DEF PairsFrom, N
  <2>3. H + n \in 1..Len(u) /\ (H + n < Len(u) <=> n < N) /\ u[H + n] = s[n]
        /\ (n < N => u[H + n + 1] = s[n + 1]) /\ n \in 1..N + 1
    <3>1. n < N => n + 1 \in 1..N /\ H + (n + 1) = H + n + 1
      BY <1>1
    <3>2. n < N => u[H + n + 1] = s[n + 1]
      BY <1>1, <3>1
    <3> QED  BY <1>1, <3>2
  <2>4. g[H + n] = IF H + n < Len(u) /\ u[H + n] = old /\ u[H + n + 1] = old THEN <<new>> \o g[H + n + 2]
                   ELSE <<u[H + n]>> \o g[H + n + 1]
    BY <2>3 DEF PairsFrom, u
  <2> QED  BY <2>1, <2>2, <2>3, <2>4
<1>4. \A n \in 1..N + 1 : n \in P
  <2> HIDE DEF P
  <2> QED  BY <1>1, <1>2, <1>3, DownFrom
<1> QED  BY <1>4 DEF N, H

\* A pair in front is replaced, another character stays.
One(c, s) == <<c>> \o s
Two(c, s) == <<c, c>> \o s

LEMMA PairsInFront ==
  ASSUME NEW s \in Seq(Character), NEW old \in Character, NEW new \in Character
  PROVE  /\ ReplacePairs(<<>>, old, new) = <<>>
         /\ ReplacePairs(Two(old, s), old, new) = One(new, ReplacePairs(s, old, new))
         /\ \A a \in Character \ {old} :
              ReplacePairs(One(a, s), old, new) = One(a, ReplacePairs(s, old, new))
<1> DEFINE S == Character
<1> HIDE DEF S
<1>9. s \in Seq(S) /\ old \in S /\ new \in S
  BY DEF S
<1>0. Len(s) \in Nat /\ 1 \in 1..Len(s) + 1
  OBVIOUS
<1>1. PICK f : PairsFrom(s, old, new, f)
  BY <1>9, PairsAre
<1>2. ReplacePairs(<<>>, old, new) = <<>>
  <2> DEFINE none == <<>>
  <2>1. none \in Seq(S) /\ Len(none) = 0
    OBVIOUS
  <2> HIDE DEF none
  <2>2. PICK e : PairsFrom(none, old, new, e)
    BY <1>9, <2>1, PairsAre
  <2>3. e[1] = <<>>
    BY <2>1, <2>2 DEF PairsFrom
  <2> QED  BY <2>2, <2>3 DEF none, PairsFrom
<1>3. ReplacePairs(<<old, old>> \o s, old, new) = <<new>> \o ReplacePairs(s, old, new)
  <2> DEFINE h == <<old, old>>
             u == h \o s
  <2>1. h \in Seq(S) /\ Len(h) = 2 /\ u \in Seq(S) /\ Len(u) = Len(s) + 2 /\ u[1] = old /\ u[2] = old
    BY <1>9
  <2> HIDE DEF h
  <2>2. PICK g : PairsFrom(u, old, new, g)
    <3> HIDE DEF u
    <3> QED  BY <1>9, <2>1, PairsAre
  <2>3. g[2 + 1] = f[1]
    <3>1. PairsFrom(h \o s, old, new, g) /\ h \in Seq(S)
      BY <2>1, <2>2
    <3>2. \A n \in 1..Len(s) + 1 : g[Len(h) + n] = f[n] /\ g[Len(h) + n + 1] = f[n + 1]
      BY <1>1, <1>9, <3>1, PairsBehind
    <3> QED  BY <1>0, <2>1, <3>2
  <2>4. 1 \in 1..Len(u) /\ 1 < Len(u)
    BY <1>0, <2>1
  <2>5. g[1] = <<new>> \o g[1 + 2]
    <3> HIDE DEF u
    <3>1. u[1 + 1] = old
      BY <2>1
    <3> QED  BY <2>1, <2>2, <2>4, <3>1 DEF PairsFrom
  <2>6. 2 + 1 = 1 + 2
    OBVIOUS
  <2>7. g[1] = ReplacePairs(u, old, new) /\ f[1] = ReplacePairs(s, old, new)
    <3> HIDE DEF u
    <3> QED  BY <1>1, <2>2 DEF PairsFrom
  <2> QED  BY <2>3, <2>5, <2>6, <2>7 DEF h
<1>4. ASSUME NEW a \in S \ {old}
      PROVE  ReplacePairs(<<a>> \o s, old, new) = <<a>> \o ReplacePairs(s, old, new)
  <2> DEFINE h == <<a>>
             u == h \o s
  <2>1. h \in Seq(S) /\ Len(h) = 1 /\ u \in Seq(S) /\ Len(u) = Len(s) + 1 /\ u[1] = a
    BY <1>9
  <2> HIDE DEF h
  <2>2. PICK g : PairsFrom(u, old, new, g)
    <3> HIDE DEF u
    <3> QED  BY <1>9, <2>1, PairsAre
  <2>3. g[1 + 1] = f[1]
    <3>1. PairsFrom(h \o s, old, new, g) /\ h \in Seq(S)
      BY <2>1, <2>2
    <3>2. \A n \in 1..Len(s) + 1 : g[Len(h) + n] = f[n] /\ g[Len(h) + n + 1] = f[n + 1]
      BY <1>1, <1>9, <3>1, PairsBehind
    <3> QED  BY <1>0, <2>1, <3>2
  <2>4. 1 \in 1..Len(u)
    BY <1>0, <2>1
  <2>5. g[1] = <<a>> \o g[1 + 1]
    <3> HIDE DEF u
    <3> QED  BY <1>4, <2>1, <2>2, <2>4 DEF PairsFrom
  <2>6. g[1] = ReplacePairs(u, old, new) /\ f[1] = ReplacePairs(s, old, new)
    <3> HIDE DEF u
    <3> QED  BY <1>1, <2>2 DEF PairsFrom
  <2> QED  BY <2>3, <2>5, <2>6 DEF h
<1> QED  BY <1>2, <1>3, <1>4 DEF S, One, Two

LEMMA NonePaired ==
  ASSUME NEW old \in Character, NEW new \in Character
  PROVE  ReplacePairs(<<>>, old, new) = <<>>
<1>1. <<>> \in Seq(Character)
  OBVIOUS
<1> QED  BY <1>1, PairsInFront

\* The replacement of single characters as the loop that it is.
UpFrom(s, f) ==
  /\ f[1] = SpecialUp(s) /\ f[Len(s) + 1] = <<>>
  /\ \A n \in 1..Len(s) : f[n] = Doubled(s[n]) \o f[n + 1]

LEMMA DoubledAre ==
  ASSUME NEW c \in Character
  PROVE  Doubled(c) \in Seq(Character)
<1>1. Dollar \in Character /\ At \in Character
  BY DEF Dollar, At, Character, Foreign
<1>2. CASE c = Plus
  BY <1>1, <1>2 DEF Doubled
<1>3. CASE c = Slash
  BY <1>1, <1>3 DEF Doubled, Plus, Slash
<1>4. CASE c # Plus /\ c # Slash
  BY <1>4 DEF Doubled
<1> QED  BY <1>2, <1>3, <1>4

LEMMA UpIs ==
  ASSUME NEW s \in Seq(Character)
  PROVE  \E f : UpFrom(s, f) /\ \A n \in 1..Len(s) + 1 : f[n] \in Seq(Character)
<1> DEFINE N == Len(s)
           D == Seq(Character)
           first == <<>>
           step == [n \in 1..N |-> [r \in D |-> [q \in D |-> Doubled(s[n]) \o r]]]
<1>0. N \in Nat /\ \A n \in 1..N : s[n] \in Character
  OBVIOUS
<1>1. first \in D /\ step \in [1..N -> [D -> [D -> D]]]
  <2>1. \A n \in 1..N : Doubled(s[n]) \in D
    BY <1>0, DoubledAre
  <2> QED  BY <2>1
<1>2. PICK g \in [1..N + 2 -> D] :
        /\ g[N + 1] = first /\ g[N + 2] = first
        /\ \A n \in 1..N : g[n] = step[n][g[n + 1]][g[n + 2]]
  <2> HIDE DEF N, D, first, step
  <2>1. N \in Nat
    BY <1>0
  <2>2. \E g : ComputesBack(g, N, D, first, step)
    BY <1>1, <2>1, BackwardsComputes
  <2> QED  BY <2>2 DEF ComputesBack
<1>3. ASSUME NEW n \in 1..N
      PROVE  g[n] = Doubled(s[n]) \o g[n + 1]
  <2>0. n + 1 \in 1..N + 2 /\ n + 2 \in 1..N + 2
    BY <1>0
  <2>1. g[n + 1] \in D /\ g[n + 2] \in D
    <3> HIDE DEF D
    <3> QED  BY <1>2, <2>0
  <2> HIDE DEF D
  <2> QED  BY <1>2, <2>1
<1> DEFINE e == [n \in 1..N + 1 |-> g[n]]
           Fix(f) == f = [n \in 1..N + 1 |-> IF n > N THEN <<>> ELSE Doubled(s[n]) \o f[n + 1]]
           from == CHOOSE f : Fix(f)
<1>4. Fix(e)
  <2> HIDE DEF step, D
  <2>1. \A n \in 1..N + 1 : n > N <=> n = N + 1
    BY <1>0
  <2>2. \A n \in 1..N + 1 : n > N \/ (n \in 1..N /\ n + 1 \in 1..N + 1)
    BY <1>0
  <2>3. \A n \in 1..N + 1 : g[n] = IF n > N THEN <<>> ELSE Doubled(s[n]) \o g[n + 1]
    <3> HIDE DEF N
    <3> QED  BY <1>2, <1>3, <2>1, <2>2 DEF first
  <2>4. \A n \in 1..N + 1 : e[n] = IF n > N THEN <<>> ELSE Doubled(s[n]) \o e[n + 1]
    <3> HIDE DEF N
    <3> QED  BY <2>2, <2>3
  <2> QED  BY <2>4
<1>5. Fix(from)
  <2> HIDE DEF e
  <2> QED  BY <1>4
<1>6. SpecialUp(s) = from[1]
  BY DEF SpecialUp
<1>7. \A n \in 1..N + 1 : from[n] = IF n > N THEN <<>> ELSE Doubled(s[n]) \o from[n + 1]
  <2> HIDE DEF from
  <2> QED  BY <1>5
<1> HIDE DEF from
<1>8. N + 1 \in 1..N + 1 /\ N + 1 > N /\ \A n \in 1..N : n \in 1..N + 1 /\ ~(n > N)
  BY <1>0
<1>9. UpFrom(s, from)
  <2> HIDE DEF N
  <2>1. from[N + 1] = <<>>
    BY <1>7, <1>8
  <2>2. \A n \in 1..N : from[n] = Doubled(s[n]) \o from[n + 1]
    BY <1>7, <1>8
  <2> QED  BY <1>6, <2>1, <2>2 DEF UpFrom, N
<1> DEFINE P == {n \in 1..N + 1 : from[n] \in D}
<1>10. \A n \in 1..N + 1 : n \in P
  <2>1. N + 1 \in P
    <3>1. from[N + 1] = <<>> /\ N + 1 \in 1..N + 1
      BY <1>0, <1>9 DEF UpFrom
    <3>2. <<>> \in D
      OBVIOUS
    <3> HIDE DEF N, D
    <3> QED  BY <3>1, <3>2
  <2>2. ASSUME NEW n \in 1..N, n + 1 \in P  PROVE n \in P
    <3>1. from[n + 1] \in D /\ Doubled(s[n]) \in D /\ n \in 1..N + 1
      BY <1>0, <2>2, DoubledAre
    <3>2. from[n] = Doubled(s[n]) \o from[n + 1]
      BY <1>9 DEF UpFrom
    <3>3. from[n] \in D
      BY <3>1, <3>2
    <3> QED  BY <3>1, <3>3
  <2> HIDE DEF P, N
  <2> QED  BY <1>0, <2>1, <2>2, DownFrom
<1> QED  BY <1>9, <1>10

\* The characters of an encoded text.
Code == 0..Pad

LEMMA UpIsCharacters ==
  ASSUME NEW s \in Seq(Character)
  PROVE  SpecialUp(s) \in Seq(Character)
<1>1. PICK f : UpFrom(s, f) /\ \A n \in 1..Len(s) + 1 : f[n] \in Seq(Character)
  BY UpIs
<1>2. 1 \in 1..Len(s) + 1
  OBVIOUS
<1> QED  BY <1>1, <1>2 DEF UpFrom

LEMMA DownIsCharacters ==
  ASSUME NEW s \in Seq(Character)
  PROVE  SpecialDown(s) \in Seq(Character)
<1>1. Plus \in Character /\ Slash \in Character
  BY DEF Plus, Slash, Character, Foreign
<1>2. ReplacePairs(s, Dollar, Plus) \in Seq(Character)
  BY <1>1, PairsAreCharacters
<1> QED  BY <1>1, <1>2, PairsAreCharacters DEF SpecialDown

\* What was replaced is undone, in a text without the signs that replace.
LEMMA UpThenDown ==
  ASSUME NEW t \in Seq(Code)
  PROVE  SpecialDown(SpecialUp(t)) = t
<1> DEFINE N == Len(t)
<1>0. /\ N \in Nat /\ \A n \in 1..N : t[n] \in Code
      /\ t \in Seq(Character) /\ Code \subseteq Character
      /\ Plus \in Character /\ Slash \in Character /\ Dollar \in Character /\ At \in Character
      /\ Plus # Slash /\ Plus # At /\ Slash # Dollar /\ At # Dollar
      /\ \A c \in Code : c # Dollar /\ c # At
  <2>1. Code \subseteq Character
    BY DEF Code, Pad, Character, Foreign
  <2>2. t \in Seq(Character)
    <3>1. \A n \in 1..Len(t) : t[n] \in Character
      BY <2>1
    <3> QED  BY <3>1
  <2>3. /\ Plus \in Character /\ Slash \in Character /\ Dollar \in Character /\ At \in Character
        /\ Plus # Slash /\ Plus # At /\ Slash # Dollar /\ At # Dollar
        /\ \A c \in Code : c # Dollar /\ c # At
    BY DEF Plus, Slash, Dollar, At, Character, Foreign, Code, Pad
  <2>4. N \in Nat /\ \A n \in 1..N : t[n] \in Code
    OBVIOUS
  <2> QED  BY <2>1, <2>2, <2>3, <2>4
<1>1. PICK x : UpFrom(t, x) /\ \A n \in 1..N + 1 : x[n] \in Seq(Character)
  BY <1>0, UpIs
<1> DEFINE half(c, s) == IF c = Slash THEN Two(At, s) ELSE One(c, s)
           y(n) == ReplacePairs(x[n], Dollar, Plus)
           z(n) == ReplacePairs(y(n), At, Slash)
<1>2. \A n \in 1..N + 1 : y(n) \in Seq(Character)
  BY <1>0, <1>1, PairsAreCharacters
<1>3. ASSUME NEW n \in 1..N  PROVE y(n) = half(t[n], y(n + 1))
  <2>1. x[n] = Doubled(t[n]) \o x[n + 1] /\ x[n + 1] \in Seq(Character) /\ t[n] \in Code
    <3>1. n + 1 \in 1..N + 1
      BY <1>0
    <3> QED  BY <1>0, <1>1, <3>1 DEF UpFrom
  <2> DEFINE s == x[n + 1]
  <2> HIDE DEF s
  <2>2. s \in Seq(Character) /\ x[n] = Doubled(t[n]) \o s
    BY <2>1 DEF s
  <2>3. CASE t[n] = Plus
    <3>1. x[n] = Two(Dollar, s)
      BY <2>2, <2>3 DEF Doubled, Two
    <3>2. y(n) = One(Plus, ReplacePairs(s, Dollar, Plus))
      BY <1>0, <2>2, <3>1, PairsInFront
    <3> QED  BY <1>0, <2>3, <3>2 DEF s
  <2>4. CASE t[n] = Slash
    <3>1. x[n] = Two(At, s)
      BY <1>0, <2>2, <2>4 DEF Doubled, Two
    <3>2. \A r \in Seq(Character) : One(At, r) \in Seq(Character) /\ Two(At, r) = One(At, One(At, r))
      BY <1>0 DEF One, Two
    <3>3. ReplacePairs(One(At, s), Dollar, Plus) = One(At, ReplacePairs(s, Dollar, Plus))
      BY <1>0, <2>2, PairsInFront
    <3>4. ReplacePairs(One(At, One(At, s)), Dollar, Plus) = One(At, ReplacePairs(One(At, s), Dollar, Plus))
      BY <1>0, <2>2, <3>2, PairsInFront
    <3>5. ReplacePairs(s, Dollar, Plus) \in Seq(Character)
      BY <1>0, <2>2, PairsAreCharacters
    <3> QED  BY <2>2, <2>4, <3>1, <3>2, <3>3, <3>4, <3>5 DEF s
  <2>5. CASE t[n] # Plus /\ t[n] # Slash
    <3>1. x[n] = One(t[n], s)
      BY <2>2, <2>5 DEF Doubled, One
    <3>2. t[n] \in Character \ {Dollar}
      BY <1>0, <2>1
    <3>3. y(n) = One(t[n], ReplacePairs(s, Dollar, Plus))
      BY <1>0, <2>2, <3>1, <3>2, PairsInFront
    <3> QED  BY <2>5, <3>3 DEF s
  <2> QED  BY <2>3, <2>4, <2>5
<1>4. y(N + 1) = <<>>
  <2>1. x[N + 1] = <<>>
    BY <1>1 DEF UpFrom
  <2> QED  BY <1>0, <2>1, NonePaired
<1>5. ASSUME NEW n \in 1..N  PROVE z(n) = One(t[n], z(n + 1))
  <2> DEFINE s == y(n + 1)
  <2>1. s \in Seq(Character) /\ y(n) = half(t[n], s) /\ t[n] \in Character \ {At}
    <3>1. n + 1 \in 1..N + 1
      BY <1>0
    <3> QED  BY <1>0, <1>2, <1>3, <3>1
  <2> HIDE DEF s, y
  <2>2. CASE t[n] = Slash
    <3>1. y(n) = Two(At, s)
      BY <2>1, <2>2
    <3>2. z(n) = One(Slash, ReplacePairs(s, At, Slash))
      BY <1>0, <2>1, <3>1, PairsInFront
    <3> QED  BY <2>2, <3>2 DEF s
  <2>3. CASE t[n] # Slash
    <3>1. y(n) = One(t[n], s)
      BY <2>1, <2>3
    <3>2. z(n) = One(t[n], ReplacePairs(s, At, Slash))
      BY <1>0, <2>1, <3>1, PairsInFront
    <3> QED  BY <3>2 DEF s
  <2> QED  BY <2>2, <2>3
<1>6. z(N + 1) = <<>>
  <2> HIDE DEF y
  <2> QED  BY <1>0, <1>4, NonePaired
<1> DEFINE P == {n \in 1..N + 1 : z(n) = SubSeq(t, n, N)}
<1> HIDE DEF y, z
<1>7. \A n \in 1..N + 1 : n \in P
  <2>1. N + 1 \in P
    <3>1. SubSeq(t, N + 1, N) = <<>> /\ N + 1 \in 1..N + 1
      BY <1>0
    <3> QED  BY <1>6, <3>1
  <2>2. ASSUME NEW n \in 1..N, n + 1 \in P  PROVE n \in P
    <3>1. z(n) = <<t[n]>> \o SubSeq(t, n + 1, N)
      BY <1>5, <2>2 DEF One
    <3>2. <<t[n]>> \o SubSeq(t, n + 1, N) = SubSeq(t, n, N)
      <4>1. n + 1 \in 1..N + 1 /\ N \in Nat
        BY <1>0
      <4> DEFINE a == SubSeq(t, n + 1, N)
                 b == SubSeq(t, n, N)
      <4>2. a \in Seq(Code) /\ Len(a) = N - n /\ \A j \in 1..N - n : a[j] = t[n + j]
        BY <1>0, <4>1
      <4>3. b \in Seq(Code) /\ Len(b) = N - n + 1 /\ \A j \in 1..N - n + 1 : b[j] = t[n + j - 1]
        BY <1>0, <4>1
      <4>4. <<t[n]>> \in Seq(Code)
        BY <1>0
      <4> HIDE DEF a, b
      <4>5. Len(<<t[n]>> \o a) = N - n + 1 /\ (<<t[n]>> \o a)[1] = t[n]
            /\ \A j \in 2..N - n + 1 : (<<t[n]>> \o a)[j] = t[n + j - 1]
        <5>1. /\ \A c \in Code, r \in Seq(Code) :
                   /\ Len(<<c>> \o r) = 1 + Len(r) /\ (<<c>> \o r)[1] = c
                   /\ \A j \in 1..Len(r) : (<<c>> \o r)[1 + j] = r[j]
          OBVIOUS
        <5>2. \A j \in 2..N - n + 1 : j - 1 \in 1..N - n /\ 1 + (j - 1) = j /\ n + (j - 1) = n + j - 1
          BY <4>1
        <5>3. t[n] \in Code
          BY <1>0
        <5>4. \A j \in 1..N - n : (<<t[n]>> \o a)[1 + j] = t[n + j]
          BY <4>2, <5>1, <5>3
        <5>5. Len(<<t[n]>> \o a) = N - n + 1 /\ (<<t[n]>> \o a)[1] = t[n]
          BY <4>1, <4>2, <5>1, <5>3
        <5> HIDE DEF N
        <5> QED  BY <5>2, <5>4, <5>5
      <4>6. \A j \in 1..N - n + 1 : (<<t[n]>> \o a)[j] = b[j]
        BY <4>1, <4>3, <4>5
      <4>7. <<t[n]>> \o a \in Seq(Code)
        BY <4>2, <4>4
      <4> QED  BY <4>3, <4>5, <4>6, <4>7 DEF a, b
    <3> QED  BY <1>0, <3>1, <3>2
  <2> HIDE DEF P, N
  <2>3. N \in Nat
    BY <1>0
  <2> QED  BY <2>1, <2>2, <2>3, DownFrom
<1>8. z(1) = SubSeq(t, 1, N)
  <2>1. 1 \in 1..N + 1
    BY <1>0
  <2> QED  BY <1>7, <2>1
<1>9. SubSeq(t, 1, N) = t
  BY <1>0
<1>10. z(1) = SpecialDown(SpecialUp(t))
  BY <1>1 DEF SpecialDown, UpFrom, y, z
<1> QED  BY <1>8, <1>9, <1>10

-----------------------------------------------------------------------------
(***************************************************************************)
(* The characters of a text that belong to a set.                          *)
(***************************************************************************)

KeptIs(s, S, f) ==
  /\ f[0] = <<>>
  /\ \A n \in 1..Len(s) : f[n] = IF s[n] \in S THEN Append(f[n - 1], s[n]) ELSE f[n - 1]

LEMMA KeptComputes ==
  ASSUME NEW S \in SUBSET Character, NEW s \in Seq(Character)
  PROVE  /\ KeptIs(s, S, Kept(s, S))
         /\ \A n \in 0..Len(s) : Kept(s, S)[n] \in Seq(S) /\ Len(Kept(s, S)[n]) <= n
<1> DEFINE N == Len(s)
           D == Seq(S)
           first == <<>>
           step == [n \in 1..N |-> [q \in D |-> IF s[n] \in S THEN Append(q, s[n]) ELSE q]]
           Fix(f) == f = [n \in 0..N |-> IF n = 0 THEN <<>>
                            ELSE IF s[n] \in S THEN Append(f[n - 1], s[n]) ELSE f[n - 1]]
           w == CHOOSE f : Fix(f)
<1>0. N \in Nat
  OBVIOUS
<1>1. first \in D /\ step \in [1..N -> [D -> D]]
  OBVIOUS
<1>2. PICK g \in [0..N -> D] : Computes(g, N, D, first, step)
  <2> HIDE DEF N, D, first, step
  <2> QED  BY <1>0, <1>1, LoopComputes
<1>3. ASSUME NEW n \in 1..N
      PROVE  g[n] = IF s[n] \in S THEN Append(g[n - 1], s[n]) ELSE g[n - 1]
  <2>1. n - 1 \in 0..N
    BY <1>0
  <2>2. g[n] = step[n][g[n - 1]]
    <3> HIDE DEF step
    <3> QED  BY <1>2 DEF Computes
  <2>3. g[n - 1] \in D
    <3> HIDE DEF D
    <3> QED  BY <1>2, <2>1
  <2> HIDE DEF D
  <2> QED  BY <2>2, <2>3
<1>4. Fix(g)
  <2> HIDE DEF step, D
  <2>1. \A n \in 0..N : n = 0 \/ (n \in 1..N /\ n # 0)
    BY <1>0
  <2>2. g[0] = <<>>
    BY <1>2 DEF Computes, first
  <2>3. \A n \in 0..N : g[n] = IF n = 0 THEN <<>>
                            ELSE IF s[n] \in S THEN Append(g[n - 1], s[n]) ELSE g[n - 1]
    <3> HIDE DEF N
    <3> QED  BY <1>3, <2>1, <2>2
  <2> QED  BY <2>3
<1>5. Fix(w)
  BY <1>4
<1>6. Kept(s, S) = w
  BY DEF Kept
<1>7. \A n \in 0..N : w[n] = IF n = 0 THEN <<>>
                            ELSE IF s[n] \in S THEN Append(w[n - 1], s[n]) ELSE w[n - 1]
  <2> HIDE DEF w
  <2> QED  BY <1>5
<1> HIDE DEF w
<1>8. KeptIs(s, S, w)
  <2>1. 0 \in 0..N /\ \A n \in 1..N : n \in 0..N /\ n # 0
    BY <1>0
  <2>2. w[0] = <<>>
    <3> HIDE DEF N
    <3> QED  BY <1>7, <2>1
  <2>3. \A n \in 1..N : w[n] = IF s[n] \in S THEN Append(w[n - 1], s[n]) ELSE w[n - 1]
    <3> HIDE DEF N
    <3> QED  BY <1>7, <2>1
  <2> QED  BY <2>2, <2>3 DEF KeptIs
<1> DEFINE P == {n \in 0..N : w[n] \in D /\ Len(w[n]) <= n}
<1>9. \A n \in 0..N : n \in P
  <2>1. 0 \in P
    <3>1. w[0] = <<>> /\ Len(<<>>) = 0 /\ <<>> \in D /\ 0 \in 0..N
      BY <1>0, <1>8 DEF KeptIs
    <3> HIDE DEF D, N
    <3> QED  BY <3>1
  <2>2. ASSUME NEW n \in Nat, n < N, n \in P  PROVE n + 1 \in P
    <3>1. w[n] \in D /\ Len(w[n]) <= n /\ n + 1 \in 1..N /\ (n + 1) - 1 = n /\ n + 1 \in 0..N
      BY <1>0, <2>2
    <3>2. w[n + 1] = IF s[n + 1] \in S THEN Append(w[n], s[n + 1]) ELSE w[n]
      BY <1>8, <3>1 DEF KeptIs
    <3>3. w[n + 1] \in D /\ Len(w[n + 1]) <= n + 1
      <4>1. CASE s[n + 1] \in S
        <5>1. w[n + 1] = Append(w[n], s[n + 1])
          BY <3>2, <4>1
        <5>2. w[n + 1] \in D /\ Len(w[n + 1]) = Len(w[n]) + 1 /\ Len(w[n]) \in Nat
          BY <3>1, <4>1, <5>1, AppendProperties
        <5> QED  BY <3>1, <5>2
      <4>2. CASE s[n + 1] \notin S
        <5>1. Len(w[n]) \in Nat /\ w[n + 1] = w[n]
          BY <3>1, <3>2, <4>2
        <5> QED  BY <3>1, <5>1
      <4> QED  BY <4>1, <4>2
    <3> QED  BY <3>1, <3>3
  <2> HIDE DEF P, N
  <2> QED  BY <1>0, <2>1, <2>2, UpTo
<1> QED  BY <1>6, <1>8, <1>9

LEMMA KeepIsShorter ==
  ASSUME NEW S \in SUBSET Character, NEW s \in Seq(Character)
  PROVE  Keep(s, S) \in Seq(S) /\ Len(Keep(s, S)) <= Len(s)
<1>1. Len(s) \in 0..Len(s)
  OBVIOUS
<1> QED  BY <1>1, KeptComputes DEF Keep

LEMMA NextOfSubSeq ==
  ASSUME NEW S, NEW s \in Seq(S), NEW n \in Nat, n < Len(s)
  PROVE  /\ SubSeq(s, 1, n) \in Seq(S) /\ s[n + 1] \in S
         /\ SubSeq(s, 1, n + 1) = Append(SubSeq(s, 1, n), s[n + 1])
<1>1. /\ Len(s) \in Nat /\ n + 1 \in 1..Len(s) /\ 1 \in 1..Len(s) /\ n \in 0..Len(s)
      /\ (n + 1) - 1 = n /\ n + 1 \in 1..Len(s)
  OBVIOUS
<1>2. SubSeq(s, 1, n) \in Seq(S) /\ s[n + 1] \in S
  BY <1>1
<1>3. SubSeq(s, 1, n + 1) = SubSeq(s, 1, (n + 1) - 1) \o <<s[n + 1]>>
  BY <1>1, SubSeqRecursiveSecond
<1>4. Append(SubSeq(s, 1, n), s[n + 1]) = SubSeq(s, 1, n) \o <<s[n + 1]>>
  BY <1>2, AppendIsConcat
<1> QED  BY <1>1, <1>2, <1>3, <1>4

\* What comes before a tail that does not belong to S.
LEMMA KeepFront ==
  ASSUME NEW S \in SUBSET Character, NEW s \in Seq(Character), NEW d \in 0..Len(s),
         \A n \in 1..d : s[n] \in S, \A n \in d + 1..Len(s) : s[n] \notin S
  PROVE  Keep(s, S) = SubSeq(s, 1, d)
<1> DEFINE N == Len(s)
           w == Kept(s, S)
           P == {n \in 0..N : w[n] = IF n <= d THEN SubSeq(s, 1, n) ELSE SubSeq(s, 1, d)}
<1>0. N \in Nat /\ d \in Nat /\ d <= N
  OBVIOUS
<1>1. KeptIs(s, S, w)
  BY KeptComputes
<1>2. 0 \in P
  <2>1. SubSeq(s, 1, 0) = <<>> /\ 0 <= d /\ 0 \in 0..N
    BY <1>0
  <2> QED  BY <1>1, <2>1 DEF KeptIs
<1>3. ASSUME NEW n \in Nat, n < N, n \in P  PROVE n + 1 \in P
  <2>1. /\ n + 1 \in 1..N /\ (n + 1) - 1 = n /\ n + 1 \in 0..N
        /\ w[n] = IF n <= d THEN SubSeq(s, 1, n) ELSE SubSeq(s, 1, d)
    BY <1>0, <1>3
  <2>2. w[n + 1] = IF s[n + 1] \in S THEN Append(w[n], s[n + 1]) ELSE w[n]
    BY <1>1, <2>1 DEF KeptIs
  <2>3. CASE n + 1 <= d
    <3>1. s[n + 1] \in S /\ n <= d
      BY <1>0, <2>3
    <3>2. SubSeq(s, 1, n + 1) = Append(SubSeq(s, 1, n), s[n + 1])
      BY <1>3, NextOfSubSeq
    <3> QED  BY <2>1, <2>2, <2>3, <3>1, <3>2
  <2>4. CASE ~(n + 1 <= d)
    <3>1. s[n + 1] \notin S /\ (n <= d => n = d)
      BY <1>0, <2>1, <2>4
    <3> QED  BY <2>1, <2>2, <2>4, <3>1
  <2> QED  BY <2>3, <2>4
<1>4. N \in P
  <2>1. N \in Nat /\ N \in 0..N
    BY <1>0
  <2> HIDE DEF P, N
  <2> QED  BY <1>2, <1>3, <2>1, UpTo
<1>5. w[N] = SubSeq(s, 1, d)
  <2>1. N <= d => N = d
    BY <1>0
  <2> QED  BY <1>4, <2>1
<1> QED  BY <1>5 DEF Keep

LEMMA KeepAll ==
  ASSUME NEW S \in SUBSET Character, NEW s \in Seq(S)
  PROVE  Keep(s, S) = s
<1>1. s \in Seq(Character) /\ Len(s) \in 0..Len(s) /\ \A n \in 1..Len(s) : s[n] \in S
  OBVIOUS
<1>2. \A n \in Len(s) + 1..Len(s) : s[n] \notin S
  OBVIOUS
<1>3. Keep(s, S) = SubSeq(s, 1, Len(s))
  BY <1>1, <1>2, KeepFront
<1> QED  BY <1>3

-----------------------------------------------------------------------------
(***************************************************************************)
(* What either direction computes, place by place.                         *)
(***************************************************************************)

Digits(length) == (8 * length + 5) \div 6
Bytewise(length) == (6 * length) \div 8

ByteAt(d, n) == IF n <= Len(d) THEN d[n] ELSE 0
Four(d, b) == Quartet(ByteAt(d, 3 * b + 1), ByteAt(d, 3 * b + 2), ByteAt(d, 3 * b + 3))
Coded(d, n) == IF n <= Digits(Len(d)) THEN Four(d, (n - 1) \div 4)[((n - 1) % 4) + 1] ELSE Pad

DigitAt(s, n) == IF n <= Len(s) THEN s[n] ELSE 0
Three(s, q) ==
  Triplet(DigitAt(s, 4 * q + 1), DigitAt(s, 4 * q + 2), DigitAt(s, 4 * q + 3), DigitAt(s, 4 * q + 4))
Decoded(s, n) == Three(s, (n - 1) \div 3)[((n - 1) % 3) + 1]

LEMMA ByteAtIs ==
  ASSUME NEW d \in Seq(Byte), NEW n \in Nat, n > 0
  PROVE  ByteAt(d, n) \in Byte
<1>1. Len(d) \in Nat /\ \A m \in 1..Len(d) : d[m] \in Byte
  OBVIOUS
<1>2. 0 \in Byte
  BY DEF Byte
<1> QED  BY <1>1, <1>2 DEF ByteAt

LEMMA DigitAtIs ==
  ASSUME NEW s \in Seq(Digit), NEW n \in Nat, n > 0
  PROVE  DigitAt(s, n) \in Digit
<1>1. Len(s) \in Nat /\ \A m \in 1..Len(s) : s[m] \in Digit
  OBVIOUS
<1>2. 0 \in Digit
  BY DEF Digit
<1> QED  BY <1>1, <1>2 DEF DigitAt

LEMMA QuartetIs ==
  ASSUME NEW x \in Byte, NEW y \in Byte, NEW z \in Byte
  PROVE  /\ Len(Quartet(x, y, z)) = 4
         /\ \A m \in 1..4 : Quartet(x, y, z)[m] \in Digit
         /\ Quartet(x, y, z)[1] = x \div 4
         /\ Quartet(x, y, z)[2] = (x % 4) * 16 + y \div 16
         /\ Quartet(x, y, z)[3] = (y % 16) * 4 + z \div 64
         /\ Quartet(x, y, z)[4] = z % 64
<1>1. x \div 4 \in Digit /\ (x % 4) * 16 + y \div 16 \in Digit
  BY DEF Byte, Digit
<1>2. (y % 16) * 4 + z \div 64 \in Digit /\ z % 64 \in Digit
  BY DEF Byte, Digit
<1>3. \A m \in 1..4 : m = 1 \/ m = 2 \/ m = 3 \/ m = 4
  OBVIOUS
<1> QED  BY <1>1, <1>2, <1>3 DEF Quartet

LEMMA TripletIs ==
  ASSUME NEW a \in Digit, NEW b \in Digit, NEW c \in Digit, NEW e \in Digit
  PROVE  /\ Len(Triplet(a, b, c, e)) = 3
         /\ Triplet(a, b, c, e)[1] = a * 4 + b \div 16
         /\ Triplet(a, b, c, e)[2] = (b % 16) * 16 + c \div 4
         /\ Triplet(a, b, c, e)[3] = (c % 4) * 64 + e
<1>1. (a * 4 + b \div 16) % 256 = a * 4 + b \div 16
  BY DEF Digit
<1>2. (b * 16 + c \div 4) % 256 = (b % 16) * 16 + c \div 4
  BY DEF Digit
<1>3. (c * 64 + e) % 256 = (c % 4) * 64 + e
  BY DEF Digit
<1> QED  BY <1>1, <1>2, <1>3 DEF Triplet

\* A digit that was put together from two bytes, taken apart.
LEMMA TakenApart ==
  ASSUME NEW x \in Byte, NEW y \in Byte
  PROVE  /\ ((x % 4) * 16 + y \div 16) \div 16 = x % 4
         /\ ((x % 4) * 16 + y \div 16) % 16 = y \div 16
         /\ ((x % 16) * 4 + y \div 64) \div 4 = x % 16
         /\ ((x % 16) * 4 + y \div 64) % 4 = y \div 64
<1>1. x % 4 \in 0..3 /\ y \div 16 \in 0..15 /\ x % 16 \in 0..15 /\ y \div 64 \in 0..3
  BY DEF Byte
<1>2. \A v \in 0..3, u \in 0..15 : (v * 16 + u) \div 16 = v /\ (v * 16 + u) % 16 = u
  OBVIOUS
<1>3. \A v \in 0..15, u \in 0..3 : (v * 4 + u) \div 4 = v /\ (v * 4 + u) % 4 = u
  OBVIOUS
<1> QED  BY <1>1, <1>2, <1>3

\* Where a number lies among the blocks.
LEMMA BlockOf ==
  ASSUME NEW n \in Nat, n > 0
  PROVE  /\ \E b \in Nat, r \in 0..3 : n = 4 * b + r + 1 /\ (n - 1) \div 4 = b /\ (n - 1) % 4 = r
         /\ \E q \in Nat, r \in 0..2 : n = 3 * q + r + 1 /\ (n - 1) \div 3 = q /\ (n - 1) % 3 = r
<1>1. /\ (n - 1) \div 4 \in Nat /\ (n - 1) % 4 \in 0..3
      /\ n = 4 * ((n - 1) \div 4) + ((n - 1) % 4) + 1
  OBVIOUS
<1>2. /\ (n - 1) \div 3 \in Nat /\ (n - 1) % 3 \in 0..2
      /\ n = 3 * ((n - 1) \div 3) + ((n - 1) % 3) + 1
  OBVIOUS
<1> QED  BY <1>1, <1>2

LEMMA InBlock ==
  ASSUME NEW b \in Nat
  PROVE  /\ \A r \in 0..3 : (4 * b + r + 1 - 1) \div 4 = b /\ (4 * b + r + 1 - 1) % 4 = r
         /\ \A r \in 0..2 : (3 * b + r + 1 - 1) \div 3 = b /\ (3 * b + r + 1 - 1) % 3 = r
<1> QED  OBVIOUS

\* The lengths, by how many bytes the last block has.
LEMMA EncodedSizes ==
  ASSUME NEW b \in Nat, NEW rest \in 0..2, NEW n, n = 3 * b + rest
  PROVE  /\ Digits(n) = 4 * b + (IF rest = 0 THEN 0 ELSE rest + 1)
         /\ Padding(n) = IF rest = 0 THEN 0 ELSE 3 - rest
         /\ EncodedLength(n) = 4 * b + (IF rest = 0 THEN 0 ELSE 4)
         /\ EncodedLength(n) = 4 * ((n + 2) \div 3)
         /\ Bytewise(Digits(n)) = n
<1>1. n % 3 = rest /\ n \div 3 = b /\ (n * 8) \div 24 = b
  OBVIOUS
<1>2. Padding(n) = IF rest = 0 THEN 0 ELSE 3 - rest
  BY <1>1 DEF Padding
<1>3. EncodedLength(n) = 4 * b + (IF rest = 0 THEN 0 ELSE 4)
  BY <1>1, <1>2 DEF EncodedLength
<1>4. 4 * ((n + 2) \div 3) = 4 * b + (IF rest = 0 THEN 0 ELSE 4)
  OBVIOUS
<1>5. Digits(n) = 4 * b + (IF rest = 0 THEN 0 ELSE rest + 1)
  BY DEF Digits
<1>6. Bytewise(4 * b + (IF rest = 0 THEN 0 ELSE rest + 1)) = n
  BY DEF Bytewise
<1> QED  BY <1>2, <1>3, <1>4, <1>5, <1>6

LEMMA RestOf ==
  ASSUME NEW n \in Nat
  PROVE  \E b \in Nat, rest \in 0..2 : n = 3 * b + rest
<1>1. n \div 3 \in Nat /\ n % 3 \in 0..2 /\ n = 3 * (n \div 3) + (n % 3)
  OBVIOUS
<1> QED  BY <1>1

LEMMA DecodedSizes ==
  ASSUME NEW q \in Nat, NEW j \in 0..3
  PROVE  Bytewise(4 * q + j) = 3 * q + (CASE j = 3 -> 2 [] j = 2 -> 1 [] OTHER -> 0)
<1>1. j = 0 \/ j = 1 \/ j = 2 \/ j = 3
  OBVIOUS
<1> QED  BY <1>1 DEF Bytewise

-----------------------------------------------------------------------------
(***************************************************************************)
(* What is decoded of what was encoded.                                    *)
(***************************************************************************)

LEMMA DecodedOfCoded ==
  ASSUME NEW d \in Seq(Byte), NEW s \in Seq(Digit), Len(s) = Digits(Len(d)),
         \A n \in 1..Len(s) : s[n] = Coded(d, n), NEW n \in 1..Len(d)
  PROVE  Decoded(s, n) = d[n]
<1>1. PICK q \in Nat, r \in 0..2 : n = 3 * q + r + 1 /\ (n - 1) \div 3 = q /\ (n - 1) % 3 = r
  <2>1. n \in Nat /\ n > 0
    OBVIOUS
  <2> QED  BY <2>1, BlockOf
<1> DEFINE x == ByteAt(d, 3 * q + 1)
           y == ByteAt(d, 3 * q + 2)
           z == ByteAt(d, 3 * q + 3)
           D(m) == DigitAt(s, 4 * q + m)
<1>2. x \in Byte /\ y \in Byte /\ z \in Byte
  BY ByteAtIs
<1>3. D(1) \in Digit /\ D(2) \in Digit /\ D(3) \in Digit /\ D(4) \in Digit
  BY DigitAtIs
<1>4. 4 * q + r + 2 <= Digits(Len(d))
  <2>1. Len(d) \in Nat /\ 3 * q + r + 1 <= Len(d)
    BY <1>1
  <2>2. \A l \in Nat : 3 * q + r + 1 <= l => 4 * q + r + 2 <= (8 * l + 5) \div 6
    OBVIOUS
  <2> QED  BY <2>1, <2>2 DEF Digits
<1>5. \A m \in 0..r + 1 : D(m + 1) = Four(d, q)[m + 1]
  <2> SUFFICES ASSUME NEW m \in 0..r + 1 PROVE D(m + 1) = Four(d, q)[m + 1]
    OBVIOUS
  <2> DEFINE p == 4 * q + m + 1
  <2>1. p \in Nat /\ 1 <= p /\ p <= Digits(Len(d)) /\ m \in 0..3 /\ p = 4 * q + (m + 1)
    BY <1>1, <1>4 DEF Digits
  <2>2. Len(s) \in Nat
    OBVIOUS
  <2>3. p \in 1..Len(s)
    BY <2>1, <2>2
  <2>4. (p - 1) \div 4 = q /\ (p - 1) % 4 = m
    BY <2>1, InBlock
  <2>5. s[p] = Coded(d, p)
    BY <2>3
  <2> HIDE DEF p
  <2>6. s[p] = Four(d, q)[m + 1]
    BY <2>1, <2>4, <2>5 DEF Coded
  <2> QED  BY <2>1, <2>3, <2>6 DEF DigitAt
<1>6. /\ Four(d, q)[1] = x \div 4
      /\ Four(d, q)[2] = (x % 4) * 16 + y \div 16
      /\ Four(d, q)[3] = (y % 16) * 4 + z \div 64
      /\ Four(d, q)[4] = z % 64
  BY <1>2, QuartetIs DEF Four
<1>7. Decoded(s, n) = Triplet(D(1), D(2), D(3), D(4))[r + 1]
  BY <1>1 DEF Decoded, Three
<1> DEFINE T == Triplet(D(1), D(2), D(3), D(4))
<1>8. /\ T[1] = D(1) * 4 + D(2) \div 16
      /\ T[2] = (D(2) % 16) * 16 + D(3) \div 4
      /\ T[3] = (D(3) % 4) * 64 + D(4)
  BY <1>3, TripletIs
<1>9. d[n] = ByteAt(d, 3 * q + r + 1)
  BY <1>1 DEF ByteAt
<1> HIDE DEF D, T, x, y, z
<1>10. D(1) = x \div 4 /\ D(2) = (x % 4) * 16 + y \div 16
  <2>1. 0 \in 0..r + 1 /\ 1 \in 0..r + 1
    BY <1>1
  <2>2. D(0 + 1) = Four(d, q)[0 + 1] /\ D(1 + 1) = Four(d, q)[1 + 1]
    BY <1>5, <2>1
  <2> QED  BY <1>6, <2>2
<1>11. r >= 1 => D(3) = (y % 16) * 4 + z \div 64
  <2>1. r >= 1 => 2 \in 0..r + 1
    BY <1>1
  <2>2. r >= 1 => D(2 + 1) = Four(d, q)[2 + 1]
    BY <1>5, <2>1
  <2> QED  BY <1>6, <2>2
<1>12. r = 2 => D(4) = z % 64
  <2>1. r = 2 => 3 \in 0..r + 1
    BY <1>1
  <2>2. r = 2 => D(3 + 1) = Four(d, q)[3 + 1]
    BY <1>5, <2>1
  <2> QED  BY <1>6, <2>2
<1>13. CASE r = 0
  <2>1. D(2) \div 16 = x % 4
    BY <1>2, <1>10, TakenApart
  <2>2. T[1] = D(1) * 4 + D(2) \div 16 /\ D(1) = x \div 4
    BY <1>8, <1>10
  <2>3. T[1] = (x \div 4) * 4 + (x % 4)
    BY <2>1, <2>2
  <2>4. T[1] = x
    BY <1>2, <2>3 DEF Byte
  <2> QED  BY <1>7, <1>9, <1>13, <2>4 DEF T, x
<1>14. CASE r = 1
  <2>a. D(2) % 16 = y \div 16
    BY <1>2, <1>10, TakenApart
  <2>b. D(3) \div 4 = y % 16
    BY <1>2, <1>11, <1>14, TakenApart
  <2>1. D(2) % 16 = y \div 16 /\ D(3) \div 4 = y % 16
    BY <2>a, <2>b
  <2>2. T[2] = y
    BY <1>2, <1>8, <2>1 DEF Byte
  <2> QED  BY <1>7, <1>9, <1>14, <2>2 DEF T, y
<1>15. CASE r = 2
  <2>1. D(3) % 4 = z \div 64 /\ D(4) = z % 64
    BY <1>2, <1>11, <1>12, <1>15, TakenApart
  <2>2. T[3] = z
    BY <1>2, <1>8, <2>1 DEF Byte
  <2> QED  BY <1>7, <1>9, <1>15, <2>2 DEF T, z
<1> QED  BY <1>13, <1>14, <1>15

-----------------------------------------------------------------------------
(***************************************************************************)
(* Numbers out of bits.                                                    *)
(***************************************************************************)

LEMMA WeightIs ==
  /\ Weight[1] = 128 /\ Weight[2] = 64 /\ Weight[3] = 32 /\ Weight[4] = 16
  /\ Weight[5] = 8 /\ Weight[6] = 4 /\ Weight[7] = 2 /\ Weight[8] = 1
<1> QED  BY DEF Weight

LEMMA BitIs ==
  ASSUME NEW s \in Seq(Nat), NEW w \in {6, 8}, NEW p \in Nat
  PROVE  /\ Bit(s, w, p) \in {0, 1}
         /\ p \div w \in Nat /\ p % w \in 0..w - 1
<1>1. p \div w \in Nat /\ p % w \in 0..w - 1
  <2>1. CASE w = 6
    BY <2>1
  <2>2. CASE w = 8
    BY <2>2
  <2> QED  BY <2>1, <2>2
<1>2. 9 - w + (p % w) \in 1..8
  <2>1. \A m \in 0..5 : 9 - 6 + m \in 1..8
    OBVIOUS
  <2>2. \A m \in 0..7 : 9 - 8 + m \in 1..8
    OBVIOUS
  <2>3. w = 6 => p % w \in 0..5
    BY <1>1
  <2>4. w = 8 => p % w \in 0..7
    BY <1>1
  <2> QED  BY <2>1, <2>2, <2>3, <2>4
<1>3. Weight[9 - w + (p % w)] \in 1..128
  <2>1. \A m \in 1..8 : m = 1 \/ m = 2 \/ m = 3 \/ m = 4 \/ m = 5 \/ m = 6 \/ m = 7 \/ m = 8
    OBVIOUS
  <2>3. /\ Weight[1] \in 1..128 /\ Weight[2] \in 1..128 /\ Weight[3] \in 1..128
        /\ Weight[4] \in 1..128 /\ Weight[5] \in 1..128 /\ Weight[6] \in 1..128
        /\ Weight[7] \in 1..128 /\ Weight[8] \in 1..128
    BY WeightIs
  <2>2. \A m \in 1..8 : Weight[m] \in 1..128
    BY <2>1, <2>3
  <2> QED  BY <1>2, <2>2
<1>4. CASE p \div w < Len(s)
  <2> DEFINE m == p \div w + 1
             x == s[m]
             y == Weight[9 - w + (p % w)]
  <2>1. m \in 1..Len(s)
    <3>1. Len(s) \in Nat
      OBVIOUS
    <3> HIDE DEF m
    <3> QED  BY <1>1, <1>4, <3>1 DEF m
  <2>2. x \in Nat /\ y \in 1..128
    <3> HIDE DEF m, y
    <3>1. s[m] \in Nat
      BY <2>1
    <3> QED  BY <1>3, <3>1 DEF y
  <2>3. Bit(s, w, p) = (x \div y) % 2
    BY <1>4 DEF Bit
  <2> HIDE DEF x, y
  <2>4. x \div y \in Int
    BY <2>2
  <2>5. (x \div y) % 2 \in {0, 1}
    BY <2>4
  <2> QED  BY <1>1, <2>3, <2>5
<1>5. CASE ~(p \div w < Len(s))
  BY <1>1, <1>5 DEF Bit
<1> QED  BY <1>4, <1>5

\* The sum that Number works out, bit by bit.
NumberFrom(g, s, v, w, n) ==
  /\ g[0] = 0 /\ g[w] = Number(s, v, w, n)
  /\ \A m \in 1..w : g[m] = 2 * g[m - 1] + Bit(s, v, (n - 1) * w + m - 1)

LEMMA NumberIs ==
  ASSUME NEW s \in Seq(Nat), NEW v \in {6, 8}, NEW w \in {6, 8}, NEW n \in Nat, n > 0
  PROVE  \E g \in [0..w -> Nat] : NumberFrom(g, s, v, w, n)
<1> DEFINE bit(m) == Bit(s, v, (n - 1) * w + m - 1)
           zero == 0
           step == [m \in 1..w |-> [x \in Nat |-> 2 * x + bit(m)]]
           Fix(f) == f = [m \in 0..w |-> IF m = 0 THEN 0 ELSE 2 * f[m - 1] + bit(m)]
           f == CHOOSE g : Fix(g)
<1>0. w \in Nat /\ zero \in Nat
  OBVIOUS
<1>1. \A m \in 1..w : bit(m) \in {0, 1}
  <2>1. ASSUME NEW m \in 1..w  PROVE (n - 1) * w + m - 1 \in Nat
    <3>1. CASE w = 6
      BY <3>1
    <3>2. CASE w = 8
      BY <3>2
    <3> QED  BY <3>1, <3>2
  <2> QED  BY <2>1, BitIs
<1>2. step \in [1..w -> [Nat -> Nat]]
  <2>1. \A m \in 1..w, x \in Nat : 2 * x + bit(m) \in Nat
    <3> HIDE DEF bit
    <3>1. \A b \in {0, 1}, x \in Nat : 2 * x + b \in Nat
      OBVIOUS
    <3> QED  BY <1>1, <3>1
  <2> QED  BY <2>1
<1>3. PICK g \in [0..w -> Nat] : Computes(g, w, Nat, zero, step)
  <2> HIDE DEF step, zero
  <2> QED  BY <1>0, <1>2, LoopComputes
<1>4. g[0] = 0 /\ \A m \in 1..w : g[m] = 2 * g[m - 1] + bit(m)
  <2>1. \A m \in 1..w : m - 1 \in 0..w
    BY <1>0
  <2>2. g[0] = zero /\ \A m \in 1..w : g[m] = step[m][g[m - 1]]
    BY <1>3 DEF Computes
  <2> HIDE DEF bit
  <2> QED  BY <2>1, <2>2
<1>5. Fix(g)
  <2>1. \A m \in 0..w : m = 0 \/ m \in 1..w
    BY <1>0
  <2>2. \A m \in 1..w : m # 0
    OBVIOUS
  <2> HIDE DEF step, bit
  <2>3. \A m \in 0..w : g[m] = IF m = 0 THEN 0 ELSE 2 * g[m - 1] + bit(m)
    BY <1>4, <2>1, <2>2
  <2> QED  BY <2>3
<1>6. Fix(f)
  BY <1>5
<1>7. Number(s, v, w, n) = f[w]
  BY DEF Number
<1>8. f[0] = 0 /\ \A m \in 1..w : f[m] = 2 * f[m - 1] + bit(m)
  <2>1. 0 \in 0..w /\ \A m \in 1..w : m \in 0..w /\ m # 0
    BY <1>0
  <2>2. \A m \in 0..w : f[m] = IF m = 0 THEN 0 ELSE 2 * f[m - 1] + bit(m)
    <3> HIDE DEF f, bit
    <3> QED  BY <1>6
  <2> HIDE DEF f, bit
  <2> QED  BY <2>1, <2>2
<1>9. f[w] = g[w]
  <2>1. f[0] = zero /\ \A m \in 1..w : f[m - 1] \in Nat => f[m] = step[m][f[m - 1]]
    <3> HIDE DEF f, bit
    <3> QED  BY <1>8
  <2>2. w \in 0..w
    BY <1>0
  <2> HIDE DEF f, step, zero
  <2> QED  BY <1>3, <2>1, <2>2 DEF Computes
<1>10. NumberFrom(g, s, v, w, n)
  <2> HIDE DEF f
  <2> QED  BY <1>4, <1>7, <1>9 DEF NumberFrom
<1> QED  BY <1>10

LEMMA NumberOfSix ==
  ASSUME NEW d \in Seq(Nat), NEW n \in Nat, n > 0
  PROVE  LET p == (n - 1) * 6
         IN  Number(d, 8, 6, n) = 32 * Bit(d, 8, p) + 16 * Bit(d, 8, p + 1) + 8 * Bit(d, 8, p + 2)
                                  + 4 * Bit(d, 8, p + 3) + 2 * Bit(d, 8, p + 4) + Bit(d, 8, p + 5)
<1> DEFINE p == (n - 1) * 6
           B(m) == Bit(d, 8, p + m)
<1>1. PICK g \in [0..6 -> Nat] : NumberFrom(g, d, 8, 6, n)
  BY NumberIs
<1>2. \A m \in 0..5 : B(m) \in Int
  <2>1. \A m \in 0..5 : p + m \in Nat
    OBVIOUS
  <2>2. \A q \in Nat : Bit(d, 8, q) \in {0, 1}
    BY BitIs
  <2>3. \A q \in Nat : Bit(d, 8, q) \in Int
    BY <2>2
  <2> QED  BY <2>1, <2>3
<1>3. ASSUME NEW m \in 1..6  PROVE g[m] = 2 * g[m - 1] + B(m - 1)
  <2>1. p + m - 1 = p + (m - 1)
    OBVIOUS
  <2> QED  BY <1>1, <2>1 DEF NumberFrom
<1> HIDE DEF B
<1>4. /\ g[1] = 2 * g[0] + B(0) /\ g[2] = 2 * g[1] + B(1) /\ g[3] = 2 * g[2] + B(2)
      /\ g[4] = 2 * g[3] + B(3) /\ g[5] = 2 * g[4] + B(4) /\ g[6] = 2 * g[5] + B(5)
  <2>1. /\ g[1] = 2 * g[1 - 1] + B(1 - 1) /\ g[2] = 2 * g[2 - 1] + B(2 - 1) /\ g[3] = 2 * g[3 - 1] + B(3 - 1)
        /\ g[4] = 2 * g[4 - 1] + B(4 - 1) /\ g[5] = 2 * g[5 - 1] + B(5 - 1) /\ g[6] = 2 * g[6 - 1] + B(6 - 1)
    BY <1>3
  <2> QED  BY <2>1
<1>5. g[0] = 0 /\ g[6] = Number(d, 8, 6, n)
  BY <1>1 DEF NumberFrom
<1>6. B(0) \in Int /\ B(1) \in Int /\ B(2) \in Int /\ B(3) \in Int /\ B(4) \in Int /\ B(5) \in Int
  BY <1>2
<1>7. Number(d, 8, 6, n) = 32 * B(0) + 16 * B(1) + 8 * B(2) + 4 * B(3) + 2 * B(4) + B(5)
  <2>1. g[0] \in Int /\ g[1] \in Int /\ g[2] \in Int /\ g[3] \in Int /\ g[4] \in Int /\ g[5] \in Int /\ g[6] \in Int
    OBVIOUS
  <2> HIDE DEF p
  <2>2. PICK b0 \in Int : b0 = B(0)
    BY <1>6
  <2>3. PICK b1 \in Int : b1 = B(1)
    BY <1>6
  <2>4. PICK b2 \in Int : b2 = B(2)
    BY <1>6
  <2>5. PICK b3 \in Int : b3 = B(3)
    BY <1>6
  <2>6. PICK b4 \in Int : b4 = B(4)
    BY <1>6
  <2>7. PICK b5 \in Int : b5 = B(5)
    BY <1>6
  <2>8. PICK a0 \in Int : a0 = g[0]
    BY <2>1
  <2>9. PICK a1 \in Int : a1 = g[1]
    BY <2>1
  <2>10. PICK a2 \in Int : a2 = g[2]
    BY <2>1
  <2>11. PICK a3 \in Int : a3 = g[3]
    BY <2>1
  <2>12. PICK a4 \in Int : a4 = g[4]
    BY <2>1
  <2>13. PICK a5 \in Int : a5 = g[5]
    BY <2>1
  <2>14. PICK a6 \in Int : a6 = g[6]
    BY <2>1
  <2>15. a1 = 2 * a0 + b0
    BY <1>4, <2>2, <2>8, <2>9
  <2>16. a2 = 2 * a1 + b1
    BY <1>4, <2>3, <2>9, <2>10
  <2>17. a3 = 2 * a2 + b2
    BY <1>4, <2>4, <2>10, <2>11
  <2>18. a4 = 2 * a3 + b3
    BY <1>4, <2>5, <2>11, <2>12
  <2>19. a5 = 2 * a4 + b4
    BY <1>4, <2>6, <2>12, <2>13
  <2>20. a6 = 2 * a5 + b5
    BY <1>4, <2>7, <2>13, <2>14
  <2>21. a6 = 32 * b0 + 16 * b1 + 8 * b2 + 4 * b3 + 2 * b4 + b5
    <3>1. a0 = 0
      BY <1>5, <2>8
    <3> QED  BY <3>1, <2>15, <2>16, <2>17, <2>18, <2>19, <2>20
  <2> QED  BY <1>5, <2>21, <2>14, <2>2, <2>3, <2>4, <2>5, <2>6, <2>7
<1>8. p + 0 = p
  OBVIOUS
<1> QED  BY <1>7, <1>8 DEF B

LEMMA NumberOfEight ==
  ASSUME NEW s \in Seq(Nat), NEW n \in Nat, n > 0
  PROVE  LET p == (n - 1) * 8
         IN  Number(s, 6, 8, n) = 128 * Bit(s, 6, p) + 64 * Bit(s, 6, p + 1) + 32 * Bit(s, 6, p + 2)
                                  + 16 * Bit(s, 6, p + 3) + 8 * Bit(s, 6, p + 4) + 4 * Bit(s, 6, p + 5)
                                  + 2 * Bit(s, 6, p + 6) + Bit(s, 6, p + 7)
<1> DEFINE p == (n - 1) * 8
           B(m) == Bit(s, 6, p + m)
<1>1. PICK g \in [0..8 -> Nat] : NumberFrom(g, s, 6, 8, n)
  BY NumberIs
<1>2. \A m \in 0..7 : B(m) \in Int
  <2>1. \A m \in 0..7 : p + m \in Nat
    OBVIOUS
  <2>2. \A q \in Nat : Bit(s, 6, q) \in {0, 1}
    BY BitIs
  <2>3. \A q \in Nat : Bit(s, 6, q) \in Int
    BY <2>2
  <2> QED  BY <2>1, <2>3
<1>3. ASSUME NEW m \in 1..8  PROVE g[m] = 2 * g[m - 1] + B(m - 1)
  <2>1. p + m - 1 = p + (m - 1)
    OBVIOUS
  <2> QED  BY <1>1, <2>1 DEF NumberFrom
<1> HIDE DEF B
<1>4. /\ g[1] = 2 * g[0] + B(0) /\ g[2] = 2 * g[1] + B(1) /\ g[3] = 2 * g[2] + B(2)
      /\ g[4] = 2 * g[3] + B(3) /\ g[5] = 2 * g[4] + B(4) /\ g[6] = 2 * g[5] + B(5)
      /\ g[7] = 2 * g[6] + B(6) /\ g[8] = 2 * g[7] + B(7)
  <2>1. /\ g[1] = 2 * g[1 - 1] + B(1 - 1) /\ g[2] = 2 * g[2 - 1] + B(2 - 1) /\ g[3] = 2 * g[3 - 1] + B(3 - 1)
        /\ g[4] = 2 * g[4 - 1] + B(4 - 1) /\ g[5] = 2 * g[5 - 1] + B(5 - 1) /\ g[6] = 2 * g[6 - 1] + B(6 - 1)
        /\ g[7] = 2 * g[7 - 1] + B(7 - 1) /\ g[8] = 2 * g[8 - 1] + B(8 - 1)
    BY <1>3
  <2> QED  BY <2>1
<1>5. g[0] = 0 /\ g[8] = Number(s, 6, 8, n)
  BY <1>1 DEF NumberFrom
<1>6. /\ B(0) \in Int /\ B(1) \in Int /\ B(2) \in Int /\ B(3) \in Int /\ B(4) \in Int /\ B(5) \in Int
      /\ B(6) \in Int /\ B(7) \in Int
  BY <1>2
<1>7. Number(s, 6, 8, n) = 128 * B(0) + 64 * B(1) + 32 * B(2) + 16 * B(3) + 8 * B(4) + 4 * B(5) + 2 * B(6) + B(7)
  <2>1. g[0] \in Int /\ g[1] \in Int /\ g[2] \in Int /\ g[3] \in Int /\ g[4] \in Int /\ g[5] \in Int /\ g[6] \in Int /\ g[7] \in Int /\ g[8] \in Int
    OBVIOUS
  <2> HIDE DEF p
  <2>2. PICK b0 \in Int : b0 = B(0)
    BY <1>6
  <2>3. PICK b1 \in Int : b1 = B(1)
    BY <1>6
  <2>4. PICK b2 \in Int : b2 = B(2)
    BY <1>6
  <2>5. PICK b3 \in Int : b3 = B(3)
    BY <1>6
  <2>6. PICK b4 \in Int : b4 = B(4)
    BY <1>6
  <2>7. PICK b5 \in Int : b5 = B(5)
    BY <1>6
  <2>8. PICK b6 \in Int : b6 = B(6)
    BY <1>6
  <2>9. PICK b7 \in Int : b7 = B(7)
    BY <1>6
  <2>10. PICK a0 \in Int : a0 = g[0]
    BY <2>1
  <2>11. PICK a1 \in Int : a1 = g[1]
    BY <2>1
  <2>12. PICK a2 \in Int : a2 = g[2]
    BY <2>1
  <2>13. PICK a3 \in Int : a3 = g[3]
    BY <2>1
  <2>14. PICK a4 \in Int : a4 = g[4]
    BY <2>1
  <2>15. PICK a5 \in Int : a5 = g[5]
    BY <2>1
  <2>16. PICK a6 \in Int : a6 = g[6]
    BY <2>1
  <2>17. PICK a7 \in Int : a7 = g[7]
    BY <2>1
  <2>18. PICK a8 \in Int : a8 = g[8]
    BY <2>1
  <2>19. a1 = 2 * a0 + b0
    BY <1>4, <2>2, <2>10, <2>11
  <2>20. a2 = 2 * a1 + b1
    BY <1>4, <2>3, <2>11, <2>12
  <2>21. a3 = 2 * a2 + b2
    BY <1>4, <2>4, <2>12, <2>13
  <2>22. a4 = 2 * a3 + b3
    BY <1>4, <2>5, <2>13, <2>14
  <2>23. a5 = 2 * a4 + b4
    BY <1>4, <2>6, <2>14, <2>15
  <2>24. a6 = 2 * a5 + b5
    BY <1>4, <2>7, <2>15, <2>16
  <2>25. a7 = 2 * a6 + b6
    BY <1>4, <2>8, <2>16, <2>17
  <2>26. a8 = 2 * a7 + b7
    BY <1>4, <2>9, <2>17, <2>18
  <2>27. a8 = 128 * b0 + 64 * b1 + 32 * b2 + 16 * b3 + 8 * b4 + 4 * b5 + 2 * b6 + b7
    <3>1. a0 = 0
      BY <1>5, <2>10
    <3> QED  BY <3>1, <2>19, <2>20, <2>21, <2>22, <2>23, <2>24, <2>25, <2>26
  <2> QED  BY <1>5, <2>27, <2>18, <2>2, <2>3, <2>4, <2>5, <2>6, <2>7, <2>8, <2>9
<1>8. p + 0 = p
  OBVIOUS
<1> QED  BY <1>7, <1>8 DEF B

LEMMA BytesAreNumbers == Seq(Byte) \subseteq Seq(Nat) /\ Seq(Digit) \subseteq Seq(Nat)
<1>1. Byte \subseteq Nat /\ Digit \subseteq Nat
  BY DEF Byte, Digit
<1>2. ASSUME NEW S \in SUBSET Nat, NEW s \in Seq(S)  PROVE s \in Seq(Nat)
  <2>1. \A m \in 1..Len(s) : s[m] \in S
    OBVIOUS
  <2>2. \A m \in 1..Len(s) : s[m] \in Nat
    BY <2>1
  <2> QED  BY <2>2
<1> QED  BY <1>1, <1>2

\* The bits of one number: how often it holds h, modulo 2.
BitOf(x, h) == (x \div h) % 2

LEMMA BitOfIs ==
  ASSUME NEW x \in Nat
  PROVE  \A h \in 1..128 : BitOf(x, h) \in Int
<1> SUFFICES ASSUME NEW h \in 1..128 PROVE BitOf(x, h) \in Int
  OBVIOUS
<1>1. x \div h \in Int
  OBVIOUS
<1> QED  BY <1>1 DEF BitOf

\* The bits of one number of a sequence.
LEMMA BitsOfData ==
  ASSUME NEW d \in Seq(Byte), NEW c \in Nat, NEW p \in Nat, p = 8 * c
  PROVE  LET x == ByteAt(d, c + 1)
         IN  /\ Bit(d, 8, p + 0) = BitOf(x, 128)
             /\ Bit(d, 8, p + 1) = BitOf(x, 64)
             /\ Bit(d, 8, p + 2) = BitOf(x, 32)
             /\ Bit(d, 8, p + 3) = BitOf(x, 16)
             /\ Bit(d, 8, p + 4) = BitOf(x, 8)
             /\ Bit(d, 8, p + 5) = BitOf(x, 4)
             /\ Bit(d, 8, p + 6) = BitOf(x, 2)
             /\ Bit(d, 8, p + 7) = BitOf(x, 1)
<1> DEFINE x == ByteAt(d, c + 1)
<1>1. \A m \in 0..7 : (p + m) \div 8 = c /\ (p + m) % 8 = m
  OBVIOUS
<1>2. c < Len(d) <=> c + 1 <= Len(d)
  <2>1. Len(d) \in Nat
    OBVIOUS
  <2> QED  BY <2>1
<1>3. \A h \in 1..128 : (0 \div h) % 2 = 0
  OBVIOUS
<1>4. ASSUME NEW m \in 0..7, NEW h \in 1..128, Weight[1 + m] = h
      PROVE  Bit(d, 8, p + m) = BitOf(x, h)
  <2>1. Bit(d, 8, p + m) = IF c < Len(d) THEN (d[c + 1] \div Weight[9 - 8 + m]) % 2 ELSE 0
    BY <1>1 DEF Bit
  <2>2. Weight[9 - 8 + m] = h
    BY <1>4
  <2> QED  BY <1>2, <1>3, <2>1, <2>2 DEF ByteAt, BitOf
<1> HIDE DEF x
<1>5. Bit(d, 8, p + 0) = BitOf(x, 128)
  BY <1>4, WeightIs
<1>6. Bit(d, 8, p + 1) = BitOf(x, 64)
  BY <1>4, WeightIs
<1>7. Bit(d, 8, p + 2) = BitOf(x, 32)
  BY <1>4, WeightIs
<1>8. Bit(d, 8, p + 3) = BitOf(x, 16)
  BY <1>4, WeightIs
<1>9. Bit(d, 8, p + 4) = BitOf(x, 8)
  BY <1>4, WeightIs
<1>10. Bit(d, 8, p + 5) = BitOf(x, 4)
  BY <1>4, WeightIs
<1>11. Bit(d, 8, p + 6) = BitOf(x, 2)
  BY <1>4, WeightIs
<1>12. Bit(d, 8, p + 7) = BitOf(x, 1)
  BY <1>4, WeightIs
<1> QED  BY <1>5, <1>6, <1>7, <1>8, <1>9, <1>10, <1>11, <1>12 DEF x

LEMMA BitsOfText ==
  ASSUME NEW s \in Seq(Digit), NEW c \in Nat, NEW p \in Nat, p = 6 * c
  PROVE  LET x == DigitAt(s, c + 1)
         IN  /\ Bit(s, 6, p + 0) = BitOf(x, 32)
             /\ Bit(s, 6, p + 1) = BitOf(x, 16)
             /\ Bit(s, 6, p + 2) = BitOf(x, 8)
             /\ Bit(s, 6, p + 3) = BitOf(x, 4)
             /\ Bit(s, 6, p + 4) = BitOf(x, 2)
             /\ Bit(s, 6, p + 5) = BitOf(x, 1)
<1> DEFINE x == DigitAt(s, c + 1)
<1>1. \A m \in 0..5 : (p + m) \div 6 = c /\ (p + m) % 6 = m
  OBVIOUS
<1>2. c < Len(s) <=> c + 1 <= Len(s)
  <2>1. Len(s) \in Nat
    OBVIOUS
  <2> QED  BY <2>1
<1>3. \A h \in 1..128 : (0 \div h) % 2 = 0
  OBVIOUS
<1>4. ASSUME NEW m \in 0..5, NEW h \in 1..128, Weight[3 + m] = h
      PROVE  Bit(s, 6, p + m) = BitOf(x, h)
  <2>1. Bit(s, 6, p + m) = IF c < Len(s) THEN (s[c + 1] \div Weight[9 - 6 + m]) % 2 ELSE 0
    BY <1>1 DEF Bit
  <2>2. Weight[9 - 6 + m] = h
    BY <1>4
  <2> QED  BY <1>2, <1>3, <2>1, <2>2 DEF DigitAt, BitOf
<1> HIDE DEF x
<1>5. Bit(s, 6, p + 0) = BitOf(x, 32)
  BY <1>4, WeightIs
<1>6. Bit(s, 6, p + 1) = BitOf(x, 16)
  BY <1>4, WeightIs
<1>7. Bit(s, 6, p + 2) = BitOf(x, 8)
  BY <1>4, WeightIs
<1>8. Bit(s, 6, p + 3) = BitOf(x, 4)
  BY <1>4, WeightIs
<1>9. Bit(s, 6, p + 4) = BitOf(x, 2)
  BY <1>4, WeightIs
<1>10. Bit(s, 6, p + 5) = BitOf(x, 1)
  BY <1>4, WeightIs
<1> QED  BY <1>5, <1>6, <1>7, <1>8, <1>9, <1>10 DEF x

\* The bits of a byte and of a digit, put together.
LEMMA BitsOfByte ==
  ASSUME NEW x \in Byte
  PROVE  LET t(h) == BitOf(x, h)
         IN  /\ x \div 4 = 32 * t(128) + 16 * t(64) + 8 * t(32) + 4 * t(16) + 2 * t(8) + t(4)
             /\ x % 4 = 2 * t(2) + t(1)
             /\ x \div 16 = 8 * t(128) + 4 * t(64) + 2 * t(32) + t(16)
             /\ x % 16 = 8 * t(8) + 4 * t(4) + 2 * t(2) + t(1)
             /\ x \div 64 = 2 * t(128) + t(64)
             /\ x % 64 = 32 * t(32) + 16 * t(16) + 8 * t(8) + 4 * t(4) + 2 * t(2) + t(1)
<1> DEFINE t(h) == BitOf(x, h)
<1>0. x \in 0..255
  BY DEF Byte
<1>1. /\ x \div 128 \in Int /\ x \div 64 \in Int /\ x \div 32 \in Int /\ x \div 16 \in Int
      /\ x \div 8 \in Int /\ x \div 4 \in Int /\ x \div 2 \in Int /\ x \div 1 = x
  BY <1>0
<1>2. t(128) = x \div 128
  BY <1>0 DEF BitOf
<1>3. t(64) = x \div 64 - 2 * (x \div 128)
  BY <1>0 DEF BitOf
<1>4. t(32) = x \div 32 - 2 * (x \div 64)
  BY <1>0 DEF BitOf
<1>5. t(16) = x \div 16 - 2 * (x \div 32)
  BY <1>0 DEF BitOf
<1>6. t(8) = x \div 8 - 2 * (x \div 16)
  BY <1>0 DEF BitOf
<1>7. t(4) = x \div 4 - 2 * (x \div 8)
  BY <1>0 DEF BitOf
<1>8. t(2) = x \div 2 - 2 * (x \div 4)
  BY <1>0 DEF BitOf
<1>9. t(1) = x - 2 * (x \div 2)
  BY <1>0 DEF BitOf
<1>10. x % 4 = x - 4 * (x \div 4) /\ x % 16 = x - 16 * (x \div 16) /\ x % 64 = x - 64 * (x \div 64)
  BY <1>0
<1>11. PICK a7 \in Int : a7 = x \div 128
  BY <1>1
<1>12. PICK a6 \in Int : a6 = x \div 64
  BY <1>1
<1>13. PICK a5 \in Int : a5 = x \div 32
  BY <1>1
<1>14. PICK a4 \in Int : a4 = x \div 16
  BY <1>1
<1>15. PICK a3 \in Int : a3 = x \div 8
  BY <1>1
<1>16. PICK a2 \in Int : a2 = x \div 4
  BY <1>1
<1>17. PICK a1 \in Int : a1 = x \div 2
  BY <1>1
<1>18. PICK a0 \in Int : a0 = x
  BY <1>0
<1> HIDE DEF t
<1>19. /\ t(128) = a7 /\ t(64) = a6 - 2 * a7 /\ t(32) = a5 - 2 * a6 /\ t(16) = a4 - 2 * a5
       /\ t(8) = a3 - 2 * a4 /\ t(4) = a2 - 2 * a3 /\ t(2) = a1 - 2 * a2 /\ t(1) = a0 - 2 * a1
  BY <1>2, <1>3, <1>4, <1>5, <1>6, <1>7, <1>8, <1>9, <1>11, <1>12, <1>13, <1>14, <1>15, <1>16, <1>17, <1>18
<1>20. /\ a2 = 32 * t(128) + 16 * t(64) + 8 * t(32) + 4 * t(16) + 2 * t(8) + t(4)
       /\ a0 - 4 * a2 = 2 * t(2) + t(1)
       /\ a4 = 8 * t(128) + 4 * t(64) + 2 * t(32) + t(16)
       /\ a0 - 16 * a4 = 8 * t(8) + 4 * t(4) + 2 * t(2) + t(1)
       /\ a6 = 2 * t(128) + t(64)
       /\ a0 - 64 * a6 = 32 * t(32) + 16 * t(16) + 8 * t(8) + 4 * t(4) + 2 * t(2) + t(1)
  BY <1>19
<1> QED  BY <1>10, <1>12, <1>14, <1>16, <1>18, <1>20 DEF t

LEMMA BitsOfDigit ==
  ASSUME NEW x \in Digit
  PROVE  LET t(h) == BitOf(x, h)
         IN  /\ x = 32 * t(32) + 16 * t(16) + 8 * t(8) + 4 * t(4) + 2 * t(2) + t(1)
             /\ x \div 16 = 2 * t(32) + t(16)
             /\ x % 16 = 8 * t(8) + 4 * t(4) + 2 * t(2) + t(1)
             /\ x \div 4 = 8 * t(32) + 4 * t(16) + 2 * t(8) + t(4)
             /\ x % 4 = 2 * t(2) + t(1)
<1> DEFINE t(h) == BitOf(x, h)
<1>1. x \in Byte /\ x \in 0..63
  BY DEF Byte, Digit
<1>2. t(128) = 0 /\ t(64) = 0 /\ x % 64 = x
  BY <1>1 DEF BitOf
<1>3. t(32) \in Int /\ t(16) \in Int /\ t(8) \in Int /\ t(4) \in Int /\ t(2) \in Int /\ t(1) \in Int
  BY <1>1 DEF BitOf
<1>4. /\ x \div 4 = 32 * t(128) + 16 * t(64) + 8 * t(32) + 4 * t(16) + 2 * t(8) + t(4)
      /\ x % 4 = 2 * t(2) + t(1)
      /\ x \div 16 = 8 * t(128) + 4 * t(64) + 2 * t(32) + t(16)
      /\ x % 16 = 8 * t(8) + 4 * t(4) + 2 * t(2) + t(1)
      /\ x % 64 = 32 * t(32) + 16 * t(16) + 8 * t(8) + 4 * t(4) + 2 * t(2) + t(1)
  BY <1>1, BitsOfByte
<1> HIDE DEF t
<1>5. x \div 16 = 2 * t(32) + t(16) /\ x \div 4 = 8 * t(32) + 4 * t(16) + 2 * t(8) + t(4)
  BY <1>2, <1>3, <1>4
<1>6. x = 32 * t(32) + 16 * t(16) + 8 * t(8) + 4 * t(4) + 2 * t(2) + t(1)
  BY <1>2, <1>4
<1> QED  BY <1>4, <1>5, <1>6 DEF t

\* A digit that the encoder writes is the number that its six bits are.
LEMMA CodedIsNumber ==
  ASSUME NEW d \in Seq(Byte), NEW n \in Nat, n > 0, n <= Digits(Len(d))
  PROVE  Number(d, 8, 6, n) = Coded(d, n)
<1>1. PICK b \in Nat, r \in 0..3 : n = 4 * b + r + 1 /\ (n - 1) \div 4 = b /\ (n - 1) % 4 = r
  BY BlockOf
<1> DEFINE x == ByteAt(d, 3 * b + 1)
           y == ByteAt(d, 3 * b + 2)
           z == ByteAt(d, 3 * b + 3)
           p == (n - 1) * 6
           e(m) == Bit(d, 8, 24 * b + m)
<1>2. x \in Byte /\ y \in Byte /\ z \in Byte
  BY ByteAtIs
<1>3. /\ Four(d, b)[1] = x \div 4
      /\ Four(d, b)[2] = (x % 4) * 16 + y \div 16
      /\ Four(d, b)[3] = (y % 16) * 4 + z \div 64
      /\ Four(d, b)[4] = z % 64
  BY <1>2, QuartetIs DEF Four
<1>4. Coded(d, n) = Four(d, b)[r + 1]
  BY <1>1 DEF Coded
<1>5. Number(d, 8, 6, n)
        = 32 * Bit(d, 8, p + 0) + 16 * Bit(d, 8, p + 1) + 8 * Bit(d, 8, p + 2)
          + 4 * Bit(d, 8, p + 3) + 2 * Bit(d, 8, p + 4) + Bit(d, 8, p + 5)
  <2>1. d \in Seq(Nat)
    BY BytesAreNumbers
  <2>2. p + 0 = p
    OBVIOUS
  <2> QED  BY <2>1, <2>2, NumberOfSix
<1>6. p = 24 * b + 6 * r
  BY <1>1
<1>7. \A v \in Byte, h \in 1..128 : BitOf(v, h) \in Int
  <2>1. \A v \in Byte : v \in Nat
    BY DEF Byte
  <2> QED  BY <2>1, BitOfIs
<1>8. /\ e(0) = BitOf(x, 128) /\ e(1) = BitOf(x, 64) /\ e(2) = BitOf(x, 32)
      /\ e(3) = BitOf(x, 16) /\ e(4) = BitOf(x, 8) /\ e(5) = BitOf(x, 4)
      /\ e(6) = BitOf(x, 2) /\ e(7) = BitOf(x, 1)
  <2>1. PICK q \in Nat : q = 24 * b + 0
    OBVIOUS
  <2>2. PICK c \in Nat : c = 3 * b + 0
    OBVIOUS
  <2>3. q = 8 * c /\ c + 1 = 3 * b + 1
    BY <2>1, <2>2
  <2> DEFINE v == ByteAt(d, c + 1)
  <2>4. /\ Bit(d, 8, q + 0) = BitOf(v, 128) /\ Bit(d, 8, q + 1) = BitOf(v, 64)
        /\ Bit(d, 8, q + 2) = BitOf(v, 32) /\ Bit(d, 8, q + 3) = BitOf(v, 16)
        /\ Bit(d, 8, q + 4) = BitOf(v, 8) /\ Bit(d, 8, q + 5) = BitOf(v, 4)
        /\ Bit(d, 8, q + 6) = BitOf(v, 2) /\ Bit(d, 8, q + 7) = BitOf(v, 1)
    BY <2>3, BitsOfData
  <2>5. /\ q + 0 = 24 * b + 0 /\ q + 1 = 24 * b + 1 /\ q + 2 = 24 * b + 2
        /\ q + 3 = 24 * b + 3 /\ q + 4 = 24 * b + 4 /\ q + 5 = 24 * b + 5
        /\ q + 6 = 24 * b + 6 /\ q + 7 = 24 * b + 7
    BY <2>1
  <2>6. v = x
    BY <2>3
  <2> HIDE DEF v, x, y, z
  <2> QED  BY <2>4, <2>5, <2>6
<1>9. /\ e(8) = BitOf(y, 128) /\ e(9) = BitOf(y, 64) /\ e(10) = BitOf(y, 32)
      /\ e(11) = BitOf(y, 16) /\ e(12) = BitOf(y, 8) /\ e(13) = BitOf(y, 4)
      /\ e(14) = BitOf(y, 2) /\ e(15) = BitOf(y, 1)
  <2>1. PICK q \in Nat : q = 24 * b + 8
    OBVIOUS
  <2>2. PICK c \in Nat : c = 3 * b + 1
    OBVIOUS
  <2>3. q = 8 * c /\ c + 1 = 3 * b + 2
    BY <2>1, <2>2
  <2> DEFINE v == ByteAt(d, c + 1)
  <2>4. /\ Bit(d, 8, q + 0) = BitOf(v, 128) /\ Bit(d, 8, q + 1) = BitOf(v, 64)
        /\ Bit(d, 8, q + 2) = BitOf(v, 32) /\ Bit(d, 8, q + 3) = BitOf(v, 16)
        /\ Bit(d, 8, q + 4) = BitOf(v, 8) /\ Bit(d, 8, q + 5) = BitOf(v, 4)
        /\ Bit(d, 8, q + 6) = BitOf(v, 2) /\ Bit(d, 8, q + 7) = BitOf(v, 1)
    BY <2>3, BitsOfData
  <2>5. /\ q + 0 = 24 * b + 8 /\ q + 1 = 24 * b + 9 /\ q + 2 = 24 * b + 10
        /\ q + 3 = 24 * b + 11 /\ q + 4 = 24 * b + 12 /\ q + 5 = 24 * b + 13
        /\ q + 6 = 24 * b + 14 /\ q + 7 = 24 * b + 15
    BY <2>1
  <2>6. v = y
    BY <2>3
  <2> HIDE DEF v, x, y, z
  <2> QED  BY <2>4, <2>5, <2>6
<1>10. /\ e(16) = BitOf(z, 128) /\ e(17) = BitOf(z, 64) /\ e(18) = BitOf(z, 32)
      /\ e(19) = BitOf(z, 16) /\ e(20) = BitOf(z, 8) /\ e(21) = BitOf(z, 4)
      /\ e(22) = BitOf(z, 2) /\ e(23) = BitOf(z, 1)
  <2>1. PICK q \in Nat : q = 24 * b + 16
    OBVIOUS
  <2>2. PICK c \in Nat : c = 3 * b + 2
    OBVIOUS
  <2>3. q = 8 * c /\ c + 1 = 3 * b + 3
    BY <2>1, <2>2
  <2> DEFINE v == ByteAt(d, c + 1)
  <2>4. /\ Bit(d, 8, q + 0) = BitOf(v, 128) /\ Bit(d, 8, q + 1) = BitOf(v, 64)
        /\ Bit(d, 8, q + 2) = BitOf(v, 32) /\ Bit(d, 8, q + 3) = BitOf(v, 16)
        /\ Bit(d, 8, q + 4) = BitOf(v, 8) /\ Bit(d, 8, q + 5) = BitOf(v, 4)
        /\ Bit(d, 8, q + 6) = BitOf(v, 2) /\ Bit(d, 8, q + 7) = BitOf(v, 1)
    BY <2>3, BitsOfData
  <2>5. /\ q + 0 = 24 * b + 16 /\ q + 1 = 24 * b + 17 /\ q + 2 = 24 * b + 18
        /\ q + 3 = 24 * b + 19 /\ q + 4 = 24 * b + 20 /\ q + 5 = 24 * b + 21
        /\ q + 6 = 24 * b + 22 /\ q + 7 = 24 * b + 23
    BY <2>1
  <2>6. v = z
    BY <2>3
  <2> HIDE DEF v, x, y, z
  <2> QED  BY <2>4, <2>5, <2>6
<1> HIDE DEF e, x, y, z
<1>11. CASE r = 0
  <2>1. /\ Bit(d, 8, p + 0) = e(0)
        /\ Bit(d, 8, p + 1) = e(1)
        /\ Bit(d, 8, p + 2) = e(2)
        /\ Bit(d, 8, p + 3) = e(3)
        /\ Bit(d, 8, p + 4) = e(4)
        /\ Bit(d, 8, p + 5) = e(5)
    <3>1. /\ p + 0 = 24 * b + 0
          /\ p + 1 = 24 * b + 1
          /\ p + 2 = 24 * b + 2
          /\ p + 3 = 24 * b + 3
          /\ p + 4 = 24 * b + 4
          /\ p + 5 = 24 * b + 5
      BY <1>6, <1>11
    <3> QED  BY <3>1 DEF e
  <2>2. Number(d, 8, 6, n)
          = 32 * BitOf(x, 128) + 16 * BitOf(x, 64) + 8 * BitOf(x, 32) + 4 * BitOf(x, 16) + 2 * BitOf(x, 8) + BitOf(x, 4)
    BY <1>5, <2>1, <1>8
  <2> HIDE DEF p
  <2>3. x \in Byte /\ \A h \in 1..128 : BitOf(x, h) \in Int
    BY <1>2, <1>7
  <2>4. x \div 4 = 32 * BitOf(x, 128) + 16 * BitOf(x, 64) + 8 * BitOf(x, 32) + 4 * BitOf(x, 16) + 2 * BitOf(x, 8) + BitOf(x, 4)
    BY <1>2, BitsOfByte
  <2>5. Number(d, 8, 6, n) = x \div 4
    <3>1. /\ BitOf(x, 128) \in Int /\ BitOf(x, 64) \in Int /\ BitOf(x, 32) \in Int
          /\ BitOf(x, 16) \in Int /\ BitOf(x, 8) \in Int /\ BitOf(x, 4) \in Int
      BY <2>3
    <3> QED  BY <2>2, <3>1, <2>4
  <2> QED  BY <1>3, <1>4, <1>11, <2>5
<1>12. CASE r = 1
  <2>1. /\ Bit(d, 8, p + 0) = e(6)
        /\ Bit(d, 8, p + 1) = e(7)
        /\ Bit(d, 8, p + 2) = e(8)
        /\ Bit(d, 8, p + 3) = e(9)
        /\ Bit(d, 8, p + 4) = e(10)
        /\ Bit(d, 8, p + 5) = e(11)
    <3>1. /\ p + 0 = 24 * b + 6
          /\ p + 1 = 24 * b + 7
          /\ p + 2 = 24 * b + 8
          /\ p + 3 = 24 * b + 9
          /\ p + 4 = 24 * b + 10
          /\ p + 5 = 24 * b + 11
      BY <1>6, <1>12
    <3> QED  BY <3>1 DEF e
  <2>2. Number(d, 8, 6, n)
          = 32 * BitOf(x, 2) + 16 * BitOf(x, 1) + 8 * BitOf(y, 128) + 4 * BitOf(y, 64) + 2 * BitOf(y, 32) + BitOf(y, 16)
    BY <1>5, <2>1, <1>8, <1>9
  <2> HIDE DEF p
  <2>3. x \in Byte /\ \A h \in 1..128 : BitOf(x, h) \in Int
    BY <1>2, <1>7
  <2>4. y \in Byte /\ \A h \in 1..128 : BitOf(y, h) \in Int
    BY <1>2, <1>7
  <2>5. /\ x % 4 = 2 * BitOf(x, 2) + BitOf(x, 1)
        /\ y \div 16 = 8 * BitOf(y, 128) + 4 * BitOf(y, 64) + 2 * BitOf(y, 32) + BitOf(y, 16)
    BY <1>2, BitsOfByte
  <2>6. Number(d, 8, 6, n) = (x % 4) * 16 + y \div 16
    <3>1. /\ BitOf(x, 2) \in Int /\ BitOf(x, 1) \in Int /\ BitOf(y, 128) \in Int
          /\ BitOf(y, 64) \in Int /\ BitOf(y, 32) \in Int /\ BitOf(y, 16) \in Int
      BY <2>3, <2>4
    <3>2. PICK c0 \in Int : c0 = BitOf(x, 2)
      BY <3>1
    <3>3. PICK c1 \in Int : c1 = BitOf(x, 1)
      BY <3>1
    <3>4. PICK c2 \in Int : c2 = BitOf(y, 128)
      BY <3>1
    <3>5. PICK c3 \in Int : c3 = BitOf(y, 64)
      BY <3>1
    <3>6. PICK c4 \in Int : c4 = BitOf(y, 32)
      BY <3>1
    <3>7. PICK c5 \in Int : c5 = BitOf(y, 16)
      BY <3>1
    <3>8. PICK m0 \in Int : m0 = x % 4
      BY <1>2, <2>3, <2>4 DEF Byte
    <3>9. PICK m1 \in Int : m1 = y \div 16
      BY <1>2, <2>3, <2>4 DEF Byte
    <3>10. m0 = 2 * c0 + c1 /\ m1 = 8 * c2 + 4 * c3 + 2 * c4 + c5
      BY <2>5, <3>2, <3>3, <3>4, <3>5, <3>6, <3>7, <3>8, <3>9
    <3>11. 32 * c0 + 16 * c1 + 8 * c2 + 4 * c3 + 2 * c4 + c5 = m0 * 16 + m1
      BY <3>10
    <3> QED  BY <2>2, <3>2, <3>3, <3>4, <3>5, <3>6, <3>7, <3>8, <3>9, <3>11
  <2> QED  BY <1>3, <1>4, <1>12, <2>6
<1>13. CASE r = 2
  <2>1. /\ Bit(d, 8, p + 0) = e(12)
        /\ Bit(d, 8, p + 1) = e(13)
        /\ Bit(d, 8, p + 2) = e(14)
        /\ Bit(d, 8, p + 3) = e(15)
        /\ Bit(d, 8, p + 4) = e(16)
        /\ Bit(d, 8, p + 5) = e(17)
    <3>1. /\ p + 0 = 24 * b + 12
          /\ p + 1 = 24 * b + 13
          /\ p + 2 = 24 * b + 14
          /\ p + 3 = 24 * b + 15
          /\ p + 4 = 24 * b + 16
          /\ p + 5 = 24 * b + 17
      BY <1>6, <1>13
    <3> QED  BY <3>1 DEF e
  <2>2. Number(d, 8, 6, n)
          = 32 * BitOf(y, 8) + 16 * BitOf(y, 4) + 8 * BitOf(y, 2) + 4 * BitOf(y, 1) + 2 * BitOf(z, 128) + BitOf(z, 64)
    BY <1>5, <2>1, <1>9, <1>10
  <2> HIDE DEF p
  <2>3. y \in Byte /\ \A h \in 1..128 : BitOf(y, h) \in Int
    BY <1>2, <1>7
  <2>4. z \in Byte /\ \A h \in 1..128 : BitOf(z, h) \in Int
    BY <1>2, <1>7
  <2>5. /\ y % 16 = 8 * BitOf(y, 8) + 4 * BitOf(y, 4) + 2 * BitOf(y, 2) + BitOf(y, 1)
        /\ z \div 64 = 2 * BitOf(z, 128) + BitOf(z, 64)
    BY <1>2, BitsOfByte
  <2>6. Number(d, 8, 6, n) = (y % 16) * 4 + z \div 64
    <3>1. /\ BitOf(y, 8) \in Int /\ BitOf(y, 4) \in Int /\ BitOf(y, 2) \in Int
          /\ BitOf(y, 1) \in Int /\ BitOf(z, 128) \in Int /\ BitOf(z, 64) \in Int
      BY <2>3, <2>4
    <3>2. PICK c0 \in Int : c0 = BitOf(y, 8)
      BY <3>1
    <3>3. PICK c1 \in Int : c1 = BitOf(y, 4)
      BY <3>1
    <3>4. PICK c2 \in Int : c2 = BitOf(y, 2)
      BY <3>1
    <3>5. PICK c3 \in Int : c3 = BitOf(y, 1)
      BY <3>1
    <3>6. PICK c4 \in Int : c4 = BitOf(z, 128)
      BY <3>1
    <3>7. PICK c5 \in Int : c5 = BitOf(z, 64)
      BY <3>1
    <3>8. PICK m0 \in Int : m0 = y % 16
      BY <1>2, <2>3, <2>4 DEF Byte
    <3>9. PICK m1 \in Int : m1 = z \div 64
      BY <1>2, <2>3, <2>4 DEF Byte
    <3>10. m0 = 8 * c0 + 4 * c1 + 2 * c2 + c3 /\ m1 = 2 * c4 + c5
      BY <2>5, <3>2, <3>3, <3>4, <3>5, <3>6, <3>7, <3>8, <3>9
    <3>11. 32 * c0 + 16 * c1 + 8 * c2 + 4 * c3 + 2 * c4 + c5 = m0 * 4 + m1
      BY <3>10
    <3> QED  BY <2>2, <3>2, <3>3, <3>4, <3>5, <3>6, <3>7, <3>8, <3>9, <3>11
  <2> QED  BY <1>3, <1>4, <1>13, <2>6
<1>14. CASE r = 3
  <2>1. /\ Bit(d, 8, p + 0) = e(18)
        /\ Bit(d, 8, p + 1) = e(19)
        /\ Bit(d, 8, p + 2) = e(20)
        /\ Bit(d, 8, p + 3) = e(21)
        /\ Bit(d, 8, p + 4) = e(22)
        /\ Bit(d, 8, p + 5) = e(23)
    <3>1. /\ p + 0 = 24 * b + 18
          /\ p + 1 = 24 * b + 19
          /\ p + 2 = 24 * b + 20
          /\ p + 3 = 24 * b + 21
          /\ p + 4 = 24 * b + 22
          /\ p + 5 = 24 * b + 23
      BY <1>6, <1>14
    <3> QED  BY <3>1 DEF e
  <2>2. Number(d, 8, 6, n)
          = 32 * BitOf(z, 32) + 16 * BitOf(z, 16) + 8 * BitOf(z, 8) + 4 * BitOf(z, 4) + 2 * BitOf(z, 2) + BitOf(z, 1)
    BY <1>5, <2>1, <1>10
  <2> HIDE DEF p
  <2>3. z \in Byte /\ \A h \in 1..128 : BitOf(z, h) \in Int
    BY <1>2, <1>7
  <2>4. z % 64 = 32 * BitOf(z, 32) + 16 * BitOf(z, 16) + 8 * BitOf(z, 8) + 4 * BitOf(z, 4) + 2 * BitOf(z, 2) + BitOf(z, 1)
    BY <1>2, BitsOfByte
  <2>5. Number(d, 8, 6, n) = z % 64
    <3>1. /\ BitOf(z, 32) \in Int /\ BitOf(z, 16) \in Int /\ BitOf(z, 8) \in Int
          /\ BitOf(z, 4) \in Int /\ BitOf(z, 2) \in Int /\ BitOf(z, 1) \in Int
      BY <2>3
    <3> QED  BY <2>2, <3>1, <2>4
  <2> QED  BY <1>3, <1>4, <1>14, <2>5
<1> QED  BY <1>11, <1>12, <1>13, <1>14

\* A byte that the decoder writes is the number that its eight bits are.
LEMMA DecodedIsNumber ==
  ASSUME NEW s \in Seq(Digit), NEW n \in Nat, n > 0
  PROVE  Number(s, 6, 8, n) = Decoded(s, n)
<1>1. PICK b \in Nat, r \in 0..2 : n = 3 * b + r + 1 /\ (n - 1) \div 3 = b /\ (n - 1) % 3 = r
  BY BlockOf
<1> DEFINE x == DigitAt(s, 4 * b + 1)
           y == DigitAt(s, 4 * b + 2)
           z == DigitAt(s, 4 * b + 3)
           u == DigitAt(s, 4 * b + 4)
           p == (n - 1) * 8
           e(m) == Bit(s, 6, 24 * b + m)
<1>2. x \in Digit /\ y \in Digit /\ z \in Digit /\ u \in Digit
  BY DigitAtIs
<1>3. /\ Three(s, b)[1] = x * 4 + y \div 16
      /\ Three(s, b)[2] = (y % 16) * 16 + z \div 4
      /\ Three(s, b)[3] = (z % 4) * 64 + u
  BY <1>2, TripletIs DEF Three
<1>4. Decoded(s, n) = Three(s, b)[r + 1]
  BY <1>1 DEF Decoded
<1>5. Number(s, 6, 8, n)
        = 128 * Bit(s, 6, p + 0) + 64 * Bit(s, 6, p + 1) + 32 * Bit(s, 6, p + 2)
          + 16 * Bit(s, 6, p + 3) + 8 * Bit(s, 6, p + 4) + 4 * Bit(s, 6, p + 5) + 2 * Bit(s, 6, p + 6) + Bit(s, 6, p + 7)
  <2>1. s \in Seq(Nat)
    BY BytesAreNumbers
  <2>2. p + 0 = p
    OBVIOUS
  <2> QED  BY <2>1, <2>2, NumberOfEight
<1>6. p = 24 * b + 8 * r
  BY <1>1
<1>7. \A v \in Digit, h \in 1..128 : BitOf(v, h) \in Int
  <2>1. \A v \in Digit : v \in Nat
    BY DEF Digit
  <2> QED  BY <2>1, BitOfIs
<1>8. /\ e(0) = BitOf(x, 32) /\ e(1) = BitOf(x, 16) /\ e(2) = BitOf(x, 8)
      /\ e(3) = BitOf(x, 4) /\ e(4) = BitOf(x, 2) /\ e(5) = BitOf(x, 1)
  <2>1. PICK q \in Nat : q = 24 * b + 0
    OBVIOUS
  <2>2. PICK c \in Nat : c = 4 * b + 0
    OBVIOUS
  <2>3. q = 6 * c /\ c + 1 = 4 * b + 1
    BY <2>1, <2>2
  <2> DEFINE v == DigitAt(s, c + 1)
  <2>4. /\ Bit(s, 6, q + 0) = BitOf(v, 32) /\ Bit(s, 6, q + 1) = BitOf(v, 16)
        /\ Bit(s, 6, q + 2) = BitOf(v, 8) /\ Bit(s, 6, q + 3) = BitOf(v, 4)
        /\ Bit(s, 6, q + 4) = BitOf(v, 2) /\ Bit(s, 6, q + 5) = BitOf(v, 1)
    BY <2>3, BitsOfText
  <2>5. /\ q + 0 = 24 * b + 0 /\ q + 1 = 24 * b + 1 /\ q + 2 = 24 * b + 2
        /\ q + 3 = 24 * b + 3 /\ q + 4 = 24 * b + 4 /\ q + 5 = 24 * b + 5
    BY <2>1
  <2>6. v = x
    BY <2>3
  <2> HIDE DEF v, x, y, z, u
  <2> QED  BY <2>4, <2>5, <2>6
<1>9. /\ e(6) = BitOf(y, 32) /\ e(7) = BitOf(y, 16) /\ e(8) = BitOf(y, 8)
      /\ e(9) = BitOf(y, 4) /\ e(10) = BitOf(y, 2) /\ e(11) = BitOf(y, 1)
  <2>1. PICK q \in Nat : q = 24 * b + 6
    OBVIOUS
  <2>2. PICK c \in Nat : c = 4 * b + 1
    OBVIOUS
  <2>3. q = 6 * c /\ c + 1 = 4 * b + 2
    BY <2>1, <2>2
  <2> DEFINE v == DigitAt(s, c + 1)
  <2>4. /\ Bit(s, 6, q + 0) = BitOf(v, 32) /\ Bit(s, 6, q + 1) = BitOf(v, 16)
        /\ Bit(s, 6, q + 2) = BitOf(v, 8) /\ Bit(s, 6, q + 3) = BitOf(v, 4)
        /\ Bit(s, 6, q + 4) = BitOf(v, 2) /\ Bit(s, 6, q + 5) = BitOf(v, 1)
    BY <2>3, BitsOfText
  <2>5. /\ q + 0 = 24 * b + 6 /\ q + 1 = 24 * b + 7 /\ q + 2 = 24 * b + 8
        /\ q + 3 = 24 * b + 9 /\ q + 4 = 24 * b + 10 /\ q + 5 = 24 * b + 11
    BY <2>1
  <2>6. v = y
    BY <2>3
  <2> HIDE DEF v, x, y, z, u
  <2> QED  BY <2>4, <2>5, <2>6
<1>10. /\ e(12) = BitOf(z, 32) /\ e(13) = BitOf(z, 16) /\ e(14) = BitOf(z, 8)
      /\ e(15) = BitOf(z, 4) /\ e(16) = BitOf(z, 2) /\ e(17) = BitOf(z, 1)
  <2>1. PICK q \in Nat : q = 24 * b + 12
    OBVIOUS
  <2>2. PICK c \in Nat : c = 4 * b + 2
    OBVIOUS
  <2>3. q = 6 * c /\ c + 1 = 4 * b + 3
    BY <2>1, <2>2
  <2> DEFINE v == DigitAt(s, c + 1)
  <2>4. /\ Bit(s, 6, q + 0) = BitOf(v, 32) /\ Bit(s, 6, q + 1) = BitOf(v, 16)
        /\ Bit(s, 6, q + 2) = BitOf(v, 8) /\ Bit(s, 6, q + 3) = BitOf(v, 4)
        /\ Bit(s, 6, q + 4) = BitOf(v, 2) /\ Bit(s, 6, q + 5) = BitOf(v, 1)
    BY <2>3, BitsOfText
  <2>5. /\ q + 0 = 24 * b + 12 /\ q + 1 = 24 * b + 13 /\ q + 2 = 24 * b + 14
        /\ q + 3 = 24 * b + 15 /\ q + 4 = 24 * b + 16 /\ q + 5 = 24 * b + 17
    BY <2>1
  <2>6. v = z
    BY <2>3
  <2> HIDE DEF v, x, y, z, u
  <2> QED  BY <2>4, <2>5, <2>6
<1>11. /\ e(18) = BitOf(u, 32) /\ e(19) = BitOf(u, 16) /\ e(20) = BitOf(u, 8)
      /\ e(21) = BitOf(u, 4) /\ e(22) = BitOf(u, 2) /\ e(23) = BitOf(u, 1)
  <2>1. PICK q \in Nat : q = 24 * b + 18
    OBVIOUS
  <2>2. PICK c \in Nat : c = 4 * b + 3
    OBVIOUS
  <2>3. q = 6 * c /\ c + 1 = 4 * b + 4
    BY <2>1, <2>2
  <2> DEFINE v == DigitAt(s, c + 1)
  <2>4. /\ Bit(s, 6, q + 0) = BitOf(v, 32) /\ Bit(s, 6, q + 1) = BitOf(v, 16)
        /\ Bit(s, 6, q + 2) = BitOf(v, 8) /\ Bit(s, 6, q + 3) = BitOf(v, 4)
        /\ Bit(s, 6, q + 4) = BitOf(v, 2) /\ Bit(s, 6, q + 5) = BitOf(v, 1)
    BY <2>3, BitsOfText
  <2>5. /\ q + 0 = 24 * b + 18 /\ q + 1 = 24 * b + 19 /\ q + 2 = 24 * b + 20
        /\ q + 3 = 24 * b + 21 /\ q + 4 = 24 * b + 22 /\ q + 5 = 24 * b + 23
    BY <2>1
  <2>6. v = u
    BY <2>3
  <2> HIDE DEF v, x, y, z, u
  <2> QED  BY <2>4, <2>5, <2>6
<1> HIDE DEF e, x, y, z, u
<1>12. CASE r = 0
  <2>1. /\ Bit(s, 6, p + 0) = e(0)
        /\ Bit(s, 6, p + 1) = e(1)
        /\ Bit(s, 6, p + 2) = e(2)
        /\ Bit(s, 6, p + 3) = e(3)
        /\ Bit(s, 6, p + 4) = e(4)
        /\ Bit(s, 6, p + 5) = e(5)
        /\ Bit(s, 6, p + 6) = e(6)
        /\ Bit(s, 6, p + 7) = e(7)
    <3>1. /\ p + 0 = 24 * b + 0
          /\ p + 1 = 24 * b + 1
          /\ p + 2 = 24 * b + 2
          /\ p + 3 = 24 * b + 3
          /\ p + 4 = 24 * b + 4
          /\ p + 5 = 24 * b + 5
          /\ p + 6 = 24 * b + 6
          /\ p + 7 = 24 * b + 7
      BY <1>6, <1>12
    <3> QED  BY <3>1 DEF e
  <2>2. Number(s, 6, 8, n)
          = 128 * BitOf(x, 32) + 64 * BitOf(x, 16) + 32 * BitOf(x, 8) + 16 * BitOf(x, 4) + 8 * BitOf(x, 2) + 4 * BitOf(x, 1) + 2 * BitOf(y, 32) + BitOf(y, 16)
    BY <1>5, <2>1, <1>8, <1>9
  <2> HIDE DEF p
  <2>3. x \in Digit /\ \A h \in 1..128 : BitOf(x, h) \in Int
    BY <1>2, <1>7
  <2>4. y \in Digit /\ \A h \in 1..128 : BitOf(y, h) \in Int
    BY <1>2, <1>7
  <2>5. /\ x = 32 * BitOf(x, 32) + 16 * BitOf(x, 16) + 8 * BitOf(x, 8) + 4 * BitOf(x, 4) + 2 * BitOf(x, 2) + BitOf(x, 1)
        /\ y \div 16 = 2 * BitOf(y, 32) + BitOf(y, 16)
    BY <1>2, BitsOfDigit
  <2>6. Number(s, 6, 8, n) = x * 4 + y \div 16
    <3>1. /\ BitOf(x, 32) \in Int /\ BitOf(x, 16) \in Int /\ BitOf(x, 8) \in Int
          /\ BitOf(x, 4) \in Int /\ BitOf(x, 2) \in Int /\ BitOf(x, 1) \in Int
          /\ BitOf(y, 32) \in Int /\ BitOf(y, 16) \in Int
      BY <2>3, <2>4
    <3>2. PICK c0 \in Int : c0 = BitOf(x, 32)
      BY <3>1
    <3>3. PICK c1 \in Int : c1 = BitOf(x, 16)
      BY <3>1
    <3>4. PICK c2 \in Int : c2 = BitOf(x, 8)
      BY <3>1
    <3>5. PICK c3 \in Int : c3 = BitOf(x, 4)
      BY <3>1
    <3>6. PICK c4 \in Int : c4 = BitOf(x, 2)
      BY <3>1
    <3>7. PICK c5 \in Int : c5 = BitOf(x, 1)
      BY <3>1
    <3>8. PICK c6 \in Int : c6 = BitOf(y, 32)
      BY <3>1
    <3>9. PICK c7 \in Int : c7 = BitOf(y, 16)
      BY <3>1
    <3>10. PICK m0 \in Int : m0 = x
      BY <1>2, <2>3, <2>4 DEF Digit
    <3>11. PICK m1 \in Int : m1 = y \div 16
      BY <1>2, <2>3, <2>4 DEF Digit
    <3>12. m0 = 32 * c0 + 16 * c1 + 8 * c2 + 4 * c3 + 2 * c4 + c5 /\ m1 = 2 * c6 + c7
      BY <2>5, <3>2, <3>3, <3>4, <3>5, <3>6, <3>7, <3>8, <3>9, <3>10, <3>11
    <3>13. 128 * c0 + 64 * c1 + 32 * c2 + 16 * c3 + 8 * c4 + 4 * c5 + 2 * c6 + c7 = m0 * 4 + m1
      BY <3>12
    <3> QED  BY <2>2, <3>2, <3>3, <3>4, <3>5, <3>6, <3>7, <3>8, <3>9, <3>10, <3>11, <3>13
  <2> QED  BY <1>3, <1>4, <1>12, <2>6
<1>13. CASE r = 1
  <2>1. /\ Bit(s, 6, p + 0) = e(8)
        /\ Bit(s, 6, p + 1) = e(9)
        /\ Bit(s, 6, p + 2) = e(10)
        /\ Bit(s, 6, p + 3) = e(11)
        /\ Bit(s, 6, p + 4) = e(12)
        /\ Bit(s, 6, p + 5) = e(13)
        /\ Bit(s, 6, p + 6) = e(14)
        /\ Bit(s, 6, p + 7) = e(15)
    <3>1. /\ p + 0 = 24 * b + 8
          /\ p + 1 = 24 * b + 9
          /\ p + 2 = 24 * b + 10
          /\ p + 3 = 24 * b + 11
          /\ p + 4 = 24 * b + 12
          /\ p + 5 = 24 * b + 13
          /\ p + 6 = 24 * b + 14
          /\ p + 7 = 24 * b + 15
      BY <1>6, <1>13
    <3> QED  BY <3>1 DEF e
  <2>2. Number(s, 6, 8, n)
          = 128 * BitOf(y, 8) + 64 * BitOf(y, 4) + 32 * BitOf(y, 2) + 16 * BitOf(y, 1) + 8 * BitOf(z, 32) + 4 * BitOf(z, 16) + 2 * BitOf(z, 8) + BitOf(z, 4)
    BY <1>5, <2>1, <1>9, <1>10
  <2> HIDE DEF p
  <2>3. y \in Digit /\ \A h \in 1..128 : BitOf(y, h) \in Int
    BY <1>2, <1>7
  <2>4. z \in Digit /\ \A h \in 1..128 : BitOf(z, h) \in Int
    BY <1>2, <1>7
  <2>5. /\ y % 16 = 8 * BitOf(y, 8) + 4 * BitOf(y, 4) + 2 * BitOf(y, 2) + BitOf(y, 1)
        /\ z \div 4 = 8 * BitOf(z, 32) + 4 * BitOf(z, 16) + 2 * BitOf(z, 8) + BitOf(z, 4)
    BY <1>2, BitsOfDigit
  <2>6. Number(s, 6, 8, n) = (y % 16) * 16 + z \div 4
    <3>1. /\ BitOf(y, 8) \in Int /\ BitOf(y, 4) \in Int /\ BitOf(y, 2) \in Int
          /\ BitOf(y, 1) \in Int /\ BitOf(z, 32) \in Int /\ BitOf(z, 16) \in Int
          /\ BitOf(z, 8) \in Int /\ BitOf(z, 4) \in Int
      BY <2>3, <2>4
    <3>2. PICK c0 \in Int : c0 = BitOf(y, 8)
      BY <3>1
    <3>3. PICK c1 \in Int : c1 = BitOf(y, 4)
      BY <3>1
    <3>4. PICK c2 \in Int : c2 = BitOf(y, 2)
      BY <3>1
    <3>5. PICK c3 \in Int : c3 = BitOf(y, 1)
      BY <3>1
    <3>6. PICK c4 \in Int : c4 = BitOf(z, 32)
      BY <3>1
    <3>7. PICK c5 \in Int : c5 = BitOf(z, 16)
      BY <3>1
    <3>8. PICK c6 \in Int : c6 = BitOf(z, 8)
      BY <3>1
    <3>9. PICK c7 \in Int : c7 = BitOf(z, 4)
      BY <3>1
    <3>10. PICK m0 \in Int : m0 = y % 16
      BY <1>2, <2>3, <2>4 DEF Digit
    <3>11. PICK m1 \in Int : m1 = z \div 4
      BY <1>2, <2>3, <2>4 DEF Digit
    <3>12. m0 = 8 * c0 + 4 * c1 + 2 * c2 + c3 /\ m1 = 8 * c4 + 4 * c5 + 2 * c6 + c7
      BY <2>5, <3>2, <3>3, <3>4, <3>5, <3>6, <3>7, <3>8, <3>9, <3>10, <3>11
    <3>13. 128 * c0 + 64 * c1 + 32 * c2 + 16 * c3 + 8 * c4 + 4 * c5 + 2 * c6 + c7 = m0 * 16 + m1
      BY <3>12
    <3> QED  BY <2>2, <3>2, <3>3, <3>4, <3>5, <3>6, <3>7, <3>8, <3>9, <3>10, <3>11, <3>13
  <2> QED  BY <1>3, <1>4, <1>13, <2>6
<1>14. CASE r = 2
  <2>1. /\ Bit(s, 6, p + 0) = e(16)
        /\ Bit(s, 6, p + 1) = e(17)
        /\ Bit(s, 6, p + 2) = e(18)
        /\ Bit(s, 6, p + 3) = e(19)
        /\ Bit(s, 6, p + 4) = e(20)
        /\ Bit(s, 6, p + 5) = e(21)
        /\ Bit(s, 6, p + 6) = e(22)
        /\ Bit(s, 6, p + 7) = e(23)
    <3>1. /\ p + 0 = 24 * b + 16
          /\ p + 1 = 24 * b + 17
          /\ p + 2 = 24 * b + 18
          /\ p + 3 = 24 * b + 19
          /\ p + 4 = 24 * b + 20
          /\ p + 5 = 24 * b + 21
          /\ p + 6 = 24 * b + 22
          /\ p + 7 = 24 * b + 23
      BY <1>6, <1>14
    <3> QED  BY <3>1 DEF e
  <2>2. Number(s, 6, 8, n)
          = 128 * BitOf(z, 2) + 64 * BitOf(z, 1) + 32 * BitOf(u, 32) + 16 * BitOf(u, 16) + 8 * BitOf(u, 8) + 4 * BitOf(u, 4) + 2 * BitOf(u, 2) + BitOf(u, 1)
    BY <1>5, <2>1, <1>10, <1>11
  <2> HIDE DEF p
  <2>3. z \in Digit /\ \A h \in 1..128 : BitOf(z, h) \in Int
    BY <1>2, <1>7
  <2>4. u \in Digit /\ \A h \in 1..128 : BitOf(u, h) \in Int
    BY <1>2, <1>7
  <2>5. /\ z % 4 = 2 * BitOf(z, 2) + BitOf(z, 1)
        /\ u = 32 * BitOf(u, 32) + 16 * BitOf(u, 16) + 8 * BitOf(u, 8) + 4 * BitOf(u, 4) + 2 * BitOf(u, 2) + BitOf(u, 1)
    BY <1>2, BitsOfDigit
  <2>6. Number(s, 6, 8, n) = (z % 4) * 64 + u
    <3>1. /\ BitOf(z, 2) \in Int /\ BitOf(z, 1) \in Int /\ BitOf(u, 32) \in Int
          /\ BitOf(u, 16) \in Int /\ BitOf(u, 8) \in Int /\ BitOf(u, 4) \in Int
          /\ BitOf(u, 2) \in Int /\ BitOf(u, 1) \in Int
      BY <2>3, <2>4
    <3>2. PICK c0 \in Int : c0 = BitOf(z, 2)
      BY <3>1
    <3>3. PICK c1 \in Int : c1 = BitOf(z, 1)
      BY <3>1
    <3>4. PICK c2 \in Int : c2 = BitOf(u, 32)
      BY <3>1
    <3>5. PICK c3 \in Int : c3 = BitOf(u, 16)
      BY <3>1
    <3>6. PICK c4 \in Int : c4 = BitOf(u, 8)
      BY <3>1
    <3>7. PICK c5 \in Int : c5 = BitOf(u, 4)
      BY <3>1
    <3>8. PICK c6 \in Int : c6 = BitOf(u, 2)
      BY <3>1
    <3>9. PICK c7 \in Int : c7 = BitOf(u, 1)
      BY <3>1
    <3>10. PICK m0 \in Int : m0 = z % 4
      BY <1>2, <2>3, <2>4 DEF Digit
    <3>11. PICK m1 \in Int : m1 = u
      BY <1>2, <2>3, <2>4 DEF Digit
    <3>12. m0 = 2 * c0 + c1 /\ m1 = 32 * c2 + 16 * c3 + 8 * c4 + 4 * c5 + 2 * c6 + c7
      BY <2>5, <3>2, <3>3, <3>4, <3>5, <3>6, <3>7, <3>8, <3>9, <3>10, <3>11
    <3>13. 128 * c0 + 64 * c1 + 32 * c2 + 16 * c3 + 8 * c4 + 4 * c5 + 2 * c6 + c7 = m0 * 64 + m1
      BY <3>12
    <3> QED  BY <2>2, <3>2, <3>3, <3>4, <3>5, <3>6, <3>7, <3>8, <3>9, <3>10, <3>11, <3>13
  <2> QED  BY <1>3, <1>4, <1>14, <2>6
<1> QED  BY <1>12, <1>13, <1>14

-----------------------------------------------------------------------------
(***************************************************************************)
(* What one turn of a loop leaves behind.                                  *)
(***************************************************************************)

LEMMA PrefixIs ==
  ASSUME NEW f, NEW n \in Nat, NEW S, \A m \in 1..n : f[m - 1] \in S
  PROVE  /\ Prefix(f, n) \in Seq(S) /\ Len(Prefix(f, n)) = n
         /\ \A m \in 1..n : Prefix(f, n)[m] = f[m - 1]
<1>1. Prefix(f, n) = [m \in 1..n |-> f[m - 1]]
  BY DEF Prefix
<1> QED  BY <1>1

LEMMA CodedInBlock ==
  ASSUME NEW d \in Seq(Byte), NEW b \in Nat, NEW m \in 1..4, 4 * b + m <= Digits(Len(d))
  PROVE  Coded(d, 4 * b + m) = Four(d, b)[m]
<1> DEFINE r == m - 1
           n == 4 * b + r + 1
<1>1. r \in 0..3 /\ n = 4 * b + m /\ r + 1 = m
  OBVIOUS
<1>2. (n - 1) \div 4 = b /\ (n - 1) % 4 = r
  BY <1>1, InBlock
<1> HIDE DEF n, r
<1> QED  BY <1>1, <1>2 DEF Coded

LEMMA CodedIsCode ==
  ASSUME NEW d \in Seq(Byte), NEW n \in Nat, n > 0
  PROVE  Coded(d, n) \in Code /\ (n <= Digits(Len(d)) => Coded(d, n) \in Digit)
<1>1. PICK b \in Nat, r \in 0..3 : n = 4 * b + r + 1 /\ (n - 1) \div 4 = b /\ (n - 1) % 4 = r
  BY BlockOf
<1>2. /\ ByteAt(d, 3 * b + 1) \in Byte /\ ByteAt(d, 3 * b + 2) \in Byte /\ ByteAt(d, 3 * b + 3) \in Byte
  BY ByteAtIs
<1>3. Four(d, b)[r + 1] \in Digit
  <2>1. r + 1 \in 1..4
    OBVIOUS
  <2> QED  BY <1>2, <2>1, QuartetIs DEF Four
<1>4. n <= Digits(Len(d)) => Coded(d, n) = Four(d, b)[r + 1]
  BY <1>1 DEF Coded
<1>5. ~(n <= Digits(Len(d))) => Coded(d, n) = Pad
  BY DEF Coded
<1>6. Digit \subseteq Code /\ Pad \in Code
  BY DEF Digit, Code, Pad
<1> QED  BY <1>3, <1>4, <1>5, <1>6

\* The places up to n of the buffer f hold the text of d.
Holds(f, d, n) == \A m \in 1..n : f[m - 1] = Coded(d, m)

LEMMA SizesOf ==
  ASSUME NEW d, NEW b \in Nat, NEW rest \in 0..2, Len(d) = 3 * b + rest
  PROVE  /\ Digits(Len(d)) = 4 * b + (IF rest = 0 THEN 0 ELSE rest + 1)
         /\ Padding(Len(d)) = IF rest = 0 THEN 0 ELSE 3 - rest
         /\ EncodedLength(Len(d)) = 4 * b + (IF rest = 0 THEN 0 ELSE 4)
<1>1. \A n : n = 3 * b + rest =>
        /\ Digits(n) = 4 * b + (IF rest = 0 THEN 0 ELSE rest + 1)
        /\ Padding(n) = IF rest = 0 THEN 0 ELSE 3 - rest
        /\ EncodedLength(n) = 4 * b + (IF rest = 0 THEN 0 ELSE 4)
  BY EncodedSizes
<1> QED  BY <1>1, Zenon

LEMMA BlockIsCoded ==
  ASSUME NEW d \in Seq(Byte), NEW b \in Nat, 3 * b + 3 <= Len(d), NEW f, Holds(f, d, 4 * b),
         DOMAIN f = 0..EncodedLength(Len(d)) - 1
  PROVE  Holds(Write(f, 4 * b, Quartet(d[3 * b + 1], d[3 * b + 2], d[3 * b + 3])), d, 4 * (b + 1))
<1> DEFINE q == Quartet(d[3 * b + 1], d[3 * b + 2], d[3 * b + 3])
           g == Write(f, 4 * b, q)
<1>1. PICK e \in Nat, rest \in 0..2 : Len(d) = 3 * e + rest
  <2>1. Len(d) \in Nat
    OBVIOUS
  <2> QED  BY <2>1, RestOf
<1>2. b + 1 <= e
  BY <1>1
<1>3. 4 * b + 4 <= Digits(Len(d)) /\ 4 * b + 4 <= EncodedLength(Len(d))
      /\ EncodedLength(Len(d)) \in Nat /\ Digits(Len(d)) \in Nat
  <2>1. /\ Digits(Len(d)) = 4 * e + (IF rest = 0 THEN 0 ELSE rest + 1)
        /\ EncodedLength(Len(d)) = 4 * e + (IF rest = 0 THEN 0 ELSE 4)
    BY <1>1, SizesOf
  <2> QED  BY <1>2, <2>1
<1>4. q = Four(d, b)
  <2>1. Len(d) \in Nat
    OBVIOUS
  <2> QED  BY <2>1 DEF Four, ByteAt
<1>5. Len(q) = 4
  BY DEF Quartet
<1> HIDE DEF q
<1>6. ASSUME NEW m \in 1..4 * (b + 1)  PROVE g[m - 1] = Coded(d, m)
  <2>1. m - 1 \in DOMAIN f
    BY <1>3
  <2>2. g[m - 1] = IF m - 1 \in 4 * b..4 * b + 4 - 1 THEN q[m - 1 - 4 * b + 1] ELSE f[m - 1]
    <3>1. g[m - 1] = IF m - 1 \in 4 * b..4 * b + Len(q) - 1 THEN q[m - 1 - 4 * b + 1] ELSE f[m - 1]
      BY <2>1 DEF Write
    <3> QED  BY <1>5, <3>1
  <2>3. CASE m <= 4 * b
    <3>1. m - 1 \notin 4 * b..4 * b + 4 - 1 /\ m \in 1..4 * b
      BY <2>3
    <3> QED  BY <2>2, <3>1 DEF Holds
  <2>4. CASE m > 4 * b
    <3>1. PICK r \in 1..4 : m = 4 * b + r
      <4>1. m - 4 * b \in 1..4 /\ m = 4 * b + (m - 4 * b)
        BY <2>4
      <4> QED  BY <4>1
    <3>2. m - 1 \in 4 * b..4 * b + 4 - 1 /\ m - 1 - 4 * b + 1 = r
      BY <3>1
    <3>3. 4 * b + r <= Digits(Len(d))
      BY <1>3
    <3>4. Coded(d, 4 * b + r) = Four(d, b)[r]
      BY <3>3, CodedInBlock
    <3> QED  BY <1>4, <2>2, <3>1, <3>2, <3>4
  <2> QED  BY <2>3, <2>4
<1>7. Holds(g, d, 4 * (b + 1))
  BY <1>6 DEF Holds
<1> QED  BY <1>7 DEF q

\* What the encoder ends with.
IsEncoded(t, d) ==
  /\ t \in Seq(Code)
  /\ Len(t) = EncodedLength(Len(d))
  /\ \A n \in 1..Len(t) : t[n] = Coded(d, n)

LEMMA RestIsCoded ==
  ASSUME NEW d \in Seq(Byte), NEW b \in Nat, NEW rest \in 0..2, Len(d) = 3 * b + rest,
         NEW f, Holds(f, d, 4 * b), DOMAIN f = 0..EncodedLength(Len(d)) - 1,
         NEW c2, rest = 2 => c2 = d[3 * b + 2], rest # 2 => c2 = 0,
         NEW g, g = IF rest = 0 THEN f ELSE Write(f, 4 * b, SubSeq(Quartet(d[3 * b + 1], c2, 0), 1, 3)),
         NEW h, h = Write(g, EncodedLength(Len(d)) - Padding(Len(d)), SubSeq(<<Pad, Pad>>, 1, Padding(Len(d))))
  PROVE  IsEncoded(Prefix(h, EncodedLength(Len(d))), d)
<1> DEFINE E == EncodedLength(Len(d))
           D == Digits(Len(d))
           p == Padding(Len(d))
           q == Quartet(d[3 * b + 1], c2, 0)
           pad == SubSeq(<<Pad, Pad>>, 1, p)
<1>1. /\ D = 4 * b + (IF rest = 0 THEN 0 ELSE rest + 1) /\ p = (IF rest = 0 THEN 0 ELSE 3 - rest)
      /\ E = 4 * b + (IF rest = 0 THEN 0 ELSE 4)
  <2> QED  BY SizesOf
<1>2. E \in Nat /\ D \in Nat /\ p \in 0..2 /\ E - p = D
  <2> HIDE DEF E, D, p
  <2> QED  BY <1>1
<1>3. Len(pad) = p /\ \A n \in 1..p : pad[n] = Pad
  <2> DEFINE two == <<Pad, Pad>>
  <2>1. two \in Seq({Pad}) /\ Len(two) = 2
    OBVIOUS
  <2>2. 1 \in 1..2 + 1 /\ p \in 1 - 1..2
    BY <1>2
  <2> HIDE DEF two, p
  <2>3. SubSeq(two, 1, p) \in Seq({Pad}) /\ Len(SubSeq(two, 1, p)) = p - 1 + 1
    <3>1. 1 \in 1..Len(two) + 1 /\ p \in 1 - 1..Len(two)
      BY <2>1, <2>2
    <3>2. Len(SubSeq(two, 1, p)) = IF 1 <= p THEN p - 1 + 1 ELSE 0
      BY <2>1, <3>1, SubSeqProperties
    <3>3. SubSeq(two, 1, p) \in Seq({Pad})
      BY <2>1, <3>1, SubSeqProperties
    <3> QED  BY <1>2, <3>2, <3>3
  <2>4. pad = SubSeq(two, 1, p) /\ p - 1 + 1 = p
    BY <1>2 DEF two, p
  <2> HIDE DEF pad
  <2> QED  BY <2>3, <2>4
<1>4. rest # 0 => q = Four(d, b)
  <2>1. rest # 0 => d[3 * b + 1] = ByteAt(d, 3 * b + 1)
    BY DEF ByteAt
  <2>2. c2 = ByteAt(d, 3 * b + 2) /\ 0 = ByteAt(d, 3 * b + 3)
    BY DEF ByteAt
  <2> QED  BY <2>1, <2>2 DEF Four
<1>5. Len(SubSeq(q, 1, 3)) = 3 /\ \A n \in 1..3 : SubSeq(q, 1, 3)[n] = q[n]
  BY DEF Quartet
<1>6. DOMAIN g = DOMAIN f /\ DOMAIN h = DOMAIN f
  <2>1. \A a, base, w : DOMAIN Write(a, base, w) = DOMAIN a
    BY DEF Write
  <2>2. DOMAIN g = DOMAIN f
    BY <2>1
  <2> QED  BY <2>1, <2>2
<1> HIDE DEF E, D, p, q, pad
<1>7. ASSUME NEW m \in 1..E  PROVE h[m - 1] = Coded(d, m)
  <2>1. m - 1 \in DOMAIN f
    BY <1>2 DEF E
  <2>2. h[m - 1] = IF m - 1 \in D..D + p - 1 THEN pad[m - 1 - D + 1] ELSE g[m - 1]
    <3>1. h = Write(g, D, pad)
      BY <1>2 DEF E, p, pad
    <3>2. h[m - 1] = IF m - 1 \in D..D + Len(pad) - 1 THEN pad[m - 1 - D + 1] ELSE g[m - 1]
      BY <1>6, <2>1, <3>1 DEF Write
    <3> QED  BY <1>3, <3>2
  <2>3. CASE m > D
    <3>1. m - 1 \in D..D + p - 1 /\ m - 1 - D + 1 \in 1..p
      BY <1>2, <2>3
    <3>2. h[m - 1] = Pad
      BY <1>3, <2>2, <3>1
    <3>3. ~(m <= Digits(Len(d)))
      BY <1>2, <2>3 DEF D
    <3> QED  BY <3>2, <3>3 DEF Coded
  <2>4. CASE m <= D
    <3>1. h[m - 1] = g[m - 1]
      BY <1>2, <2>2, <2>4
    <3>2. CASE m <= 4 * b
      <4>1. f[m - 1] = Coded(d, m)
        BY <3>2 DEF Holds
      <4>2. m - 1 \notin 4 * b..4 * b + 3 - 1
        BY <3>2
      <4>3. g[m - 1] = f[m - 1]
        <5> DEFINE w == SubSeq(q, 1, 3)
        <5>1. Len(w) = 3 /\ g = IF rest = 0 THEN f ELSE Write(f, 4 * b, w)
          BY <1>5 DEF q
        <5> HIDE DEF w
        <5>2. m - 1 \notin 4 * b..4 * b + Len(w) - 1
          BY <4>2, <5>1
        <5> QED  BY <2>1, <5>1, <5>2 DEF Write
      <4> QED  BY <3>1, <4>1, <4>3
    <3>3. CASE m > 4 * b
      <4>1. rest # 0 /\ D = 4 * b + rest + 1
        BY <1>1, <2>4, <3>3
      <4>2. PICK r \in 1..3 : m = 4 * b + r
        <5>1. m - 4 * b \in 1..3 /\ m = 4 * b + (m - 4 * b)
          BY <2>4, <3>3, <4>1
        <5> QED  BY <5>1
      <4>3. m - 1 \in 4 * b..4 * b + 3 - 1 /\ m - 1 - 4 * b + 1 = r
        BY <4>2
      <4>4. g[m - 1] = q[r]
        <5> DEFINE w == SubSeq(q, 1, 3)
        <5>1. Len(w) = 3 /\ g = Write(f, 4 * b, w) /\ w[r] = q[r]
          BY <1>5, <4>1 DEF q
        <5> HIDE DEF w
        <5>2. m - 1 \in 4 * b..4 * b + Len(w) - 1
          BY <4>3, <5>1
        <5>3. g[m - 1] = w[m - 1 - 4 * b + 1]
          BY <2>1, <5>1, <5>2 DEF Write
        <5> QED  BY <4>3, <5>1, <5>3
      <4>5. 4 * b + r <= Digits(Len(d)) /\ r \in 1..4
        BY <2>4, <4>2 DEF D
      <4>6. Coded(d, 4 * b + r) = Four(d, b)[r]
        BY <4>5, CodedInBlock
      <4> QED  BY <1>4, <3>1, <4>1, <4>2, <4>4, <4>6
    <3> QED  BY <3>2, <3>3
  <2> QED  BY <1>2, <2>3, <2>4
<1>8. \A m \in 1..E : h[m - 1] \in Code
  <2>1. \A m \in 1..E : m \in Nat /\ m > 0
    OBVIOUS
  <2> QED  BY <1>7, <2>1, CodedIsCode
<1>9. /\ Prefix(h, E) \in Seq(Code) /\ Len(Prefix(h, E)) = E
      /\ \A m \in 1..E : Prefix(h, E)[m] = h[m - 1]
  BY <1>2, <1>8, PrefixIs
<1> QED  BY <1>7, <1>9 DEF IsEncoded, E

LEMMA DecodedOfLonger ==
  ASSUME NEW s \in Seq(Digit), NEW t \in Seq(Digit), NEW q \in Nat, 4 * q <= Len(s), Len(s) <= Len(t),
         \A m \in 1..Len(s) : t[m] = s[m], NEW n \in 1..3 * q
  PROVE  Decoded(t, n) = Decoded(s, n)
<1>1. PICK b \in Nat, r \in 0..2 : n = 3 * b + r + 1 /\ (n - 1) \div 3 = b /\ (n - 1) % 3 = r
  <2>1. n \in Nat /\ n > 0
    OBVIOUS
  <2> QED  BY <2>1, BlockOf
<1>2. 4 * b + 4 <= Len(s) /\ Len(s) \in Nat /\ Len(t) \in Nat
  BY <1>1
<1>3. \A m \in 1..4 : DigitAt(t, 4 * b + m) = DigitAt(s, 4 * b + m)
  <2>1. ASSUME NEW m \in 1..4  PROVE DigitAt(t, 4 * b + m) = DigitAt(s, 4 * b + m)
    <3>1. 4 * b + m \in 1..Len(s) /\ 4 * b + m <= Len(t) /\ 4 * b + m <= Len(s)
      BY <1>2
    <3> QED  BY <3>1 DEF DigitAt
  <2> QED  BY <2>1
<1>4. Three(t, b) = Three(s, b)
  BY <1>3 DEF Three
<1> QED  BY <1>1, <1>4 DEF Decoded

\* In the characters s so far q blocks were filled, whose bytes are written, and
\* the rest of them waits.
IsRead(s, q, block, bytes) ==
  /\ Len(s) = 4 * q + Len(block)
  /\ \A m \in 1..Len(block) : block[m] = s[4 * q + m]
  /\ \A n \in 1..3 * q : bytes[n - 1] = Decoded(s, n)

LEMMA OneMore ==
  ASSUME NEW S, NEW s \in Seq(S), NEW c \in S
  PROVE  /\ Append(s, c) \in Seq(S) /\ Len(Append(s, c)) = Len(s) + 1
         /\ Append(s, c)[Len(s) + 1] = c
         /\ \A m \in 1..Len(s) : Append(s, c)[m] = s[m]
<1> QED  OBVIOUS

LEMMA ReadMore ==
  ASSUME NEW s \in Seq(Digit), NEW c \in Digit, NEW block \in Seq(Digit), NEW q \in Nat, NEW bytes,
         IsRead(s, q, block, bytes)
  PROVE  IsRead(Append(s, c), q, Append(block, c), bytes)
<1> DEFINE t == Append(s, c)
           u == Append(block, c)
<1>1. /\ t \in Seq(Digit) /\ Len(t) = Len(s) + 1 /\ t[Len(s) + 1] = c
      /\ \A m \in 1..Len(s) : t[m] = s[m]
  BY OneMore
<1>2. /\ u \in Seq(Digit) /\ Len(u) = Len(block) + 1 /\ u[Len(block) + 1] = c
      /\ \A m \in 1..Len(block) : u[m] = block[m]
  BY OneMore
<1>3. /\ Len(s) \in Nat /\ Len(block) \in Nat /\ Len(s) = 4 * q + Len(block)
      /\ \A m \in 1..Len(block) : block[m] = s[4 * q + m]
      /\ \A n \in 1..3 * q : bytes[n - 1] = Decoded(s, n)
  BY DEF IsRead
<1> HIDE DEF t, u
<1>4. Len(t) = 4 * q + Len(u)
  BY <1>1, <1>2, <1>3
<1>5. ASSUME NEW m \in 1..Len(u)  PROVE u[m] = t[4 * q + m]
  <2>1. CASE m <= Len(block)
    <3>1. m \in 1..Len(block) /\ 4 * q + m \in 1..Len(s)
      BY <1>3, <2>1
    <3> QED  BY <1>1, <1>2, <1>3, <3>1
  <2>2. CASE m = Len(block) + 1
    <3>1. 4 * q + m = Len(s) + 1
      BY <1>3, <2>2
    <3> QED  BY <1>1, <1>2, <2>2, <3>1
  <2> QED  BY <1>2, <1>3, <2>1, <2>2
<1>6. \A n \in 1..3 * q : Decoded(t, n) = Decoded(s, n)
  <2>1. 4 * q <= Len(s) /\ Len(s) <= Len(t)
    BY <1>1, <1>3
  <2> QED  BY <1>1, <2>1, DecodedOfLonger
<1>7. IsRead(t, q, u, bytes)
  BY <1>3, <1>4, <1>5, <1>6 DEF IsRead
<1> QED  BY <1>7 DEF t, u

LEMMA ReadBlock ==
  ASSUME NEW s \in Seq(Digit), NEW c \in Digit, NEW block \in Seq(Digit), NEW q \in Nat, NEW bytes,
         IsRead(s, q, block, bytes), Len(block) = 3,
         NEW size \in Nat, DOMAIN bytes = 0..size - 1, 3 * q + 3 <= size,
         NEW w, w = Write(bytes, 3 * q, Triplet(block[1], block[2], block[3], c))
  PROVE  IsRead(Append(s, c), q + 1, <<>>, w)
<1> DEFINE t == Append(s, c)
           x == Triplet(block[1], block[2], block[3], c)
<1>1. /\ t \in Seq(Digit) /\ Len(t) = Len(s) + 1 /\ t[Len(s) + 1] = c
      /\ \A m \in 1..Len(s) : t[m] = s[m]
  BY OneMore
<1>2. /\ Len(s) \in Nat /\ Len(s) = 4 * q + 3
      /\ \A m \in 1..3 : block[m] = s[4 * q + m]
      /\ \A n \in 1..3 * q : bytes[n - 1] = Decoded(s, n)
  BY DEF IsRead
<1>3. Len(x) = 3
  BY DEF Triplet
<1>4. x = Three(t, q)
  <2>1. 1 \in 1..3 /\ 2 \in 1..3 /\ 3 \in 1..3
    OBVIOUS
  <2>2. ASSUME NEW m \in 1..3  PROVE DigitAt(t, 4 * q + m) = block[m]
    <3> HIDE DEF t
    <3>1. 4 * q + m \in 1..Len(s) /\ 4 * q + m <= Len(t)
      BY <1>1, <1>2
    <3> QED  BY <1>1, <1>2, <3>1 DEF DigitAt
  <2>3. DigitAt(t, 4 * q + 4) = c
    <3>1. 4 * q + 4 = Len(s) + 1 /\ 4 * q + 4 <= Len(t)
      BY <1>1, <1>2
    <3> HIDE DEF t
    <3> QED  BY <1>1, <3>1 DEF DigitAt
  <2> HIDE DEF t
  <2> QED  BY <2>1, <2>2, <2>3 DEF Three
<1> HIDE DEF t, x
<1>8. \A n \in 1..3 * q : Decoded(t, n) = Decoded(s, n)
  <2>1. 4 * q <= Len(s) /\ Len(s) <= Len(t)
    BY <1>1, <1>2
  <2>2. \A m \in 1..Len(s) : t[m] = s[m]
    BY <1>1
  <2> QED  BY <1>1, <2>1, <2>2, DecodedOfLonger
<1>5. ASSUME NEW n \in 1..3 * (q + 1)  PROVE w[n - 1] = Decoded(t, n)
  <2>1. n - 1 \in DOMAIN bytes
    OBVIOUS
  <2>2. w[n - 1] = IF n - 1 \in 3 * q..3 * q + 3 - 1 THEN x[n - 1 - 3 * q + 1] ELSE bytes[n - 1]
    BY <1>3, <2>1 DEF Write, x
  <2>3. CASE n <= 3 * q
    <3>1. n \in 1..3 * q /\ n - 1 \notin 3 * q..3 * q + 3 - 1
      BY <2>3
    <3> QED  BY <1>2, <1>8, <2>2, <3>1
  <2>4. CASE n > 3 * q
    <3>1. PICK r \in 0..2 : n = 3 * q + r + 1
      <4>1. n - 3 * q - 1 \in 0..2 /\ n = 3 * q + (n - 3 * q - 1) + 1
        BY <2>4
      <4> QED  BY <4>1
    <3>2. n - 1 \in 3 * q..3 * q + 3 - 1 /\ n - 1 - 3 * q + 1 = r + 1
      BY <3>1
    <3>3. (n - 1) \div 3 = q /\ (n - 1) % 3 = r
      <4>1. (3 * q + r) \div 3 = q /\ (3 * q + r) % 3 = r
        OBVIOUS
      <4>2. n - 1 = 3 * q + r
        BY <3>1
      <4> QED  BY <4>1, <4>2, Zenon
    <3> QED  BY <1>4, <2>2, <3>2, <3>3 DEF Decoded
  <2> QED  BY <2>3, <2>4
<1>6. Len(t) = 4 * (q + 1) + Len(<<>>) /\ Len(<<>>) = 0
  BY <1>1, <1>2
<1>7. IsRead(t, q + 1, <<>>, w)
  BY <1>5, <1>6 DEF IsRead
<1> QED  BY <1>7 DEF t

LEMMA Small ==
  ASSUME NEW n \in Nat
  PROVE  /\ n < 4 <=> n \in 0..3
         /\ n + 1 = 4 => n = 3
<1> QED  OBVIOUS

LEMMA ShortLength ==
  ASSUME NEW S, NEW s \in Seq(S), NEW c \in S
  PROVE  /\ Len(s) < 4 <=> Len(s) \in 0..3
         /\ Len(Append(s, c)) = 4 => Len(s) = 3
<1>1. Len(s) \in Nat
  OBVIOUS
<1>2. Len(Append(s, c)) = Len(s) + 1
  OBVIOUS
<1>3. Len(s) < 4 <=> Len(s) \in 0..3
  BY <1>1, Small
<1>4. Len(s) + 1 = 4 => Len(s) = 3
  BY <1>1, Small
<1> QED  BY <1>2, <1>3, <1>4

\* The first n places of the buffer bytes hold what s decodes to.
AreDecoded(bytes, s, n) == \A m \in 1..n : bytes[m - 1] = Decoded(s, m)

\* The m bytes of a block that was not filled.
IsRest(rest, m, block) ==
  /\ Len(rest) = m
  /\ \A n \in 1..m :
       rest[n] = Triplet(DigitAt(block, 1), DigitAt(block, 2), DigitAt(block, 3), 0)[n]

\* What is written of a block that was not filled: its first j of three characters
\* give m bytes.
LEMMA RestIsRead ==
  ASSUME NEW s \in Seq(Digit), NEW block \in Seq(Digit), NEW j \in 0..3, Len(block) = j,
         NEW q \in Nat, NEW bytes, IsRead(s, q, block, bytes), NEW m \in 0..2, m <= j,
         0..3 * q + m - 1 \subseteq DOMAIN bytes, NEW rest, IsRest(rest, m, block)
  PROVE  AreDecoded(Write(bytes, 3 * q, rest), s, 3 * q + m)
<1> DEFINE x == Triplet(DigitAt(block, 1), DigitAt(block, 2), DigitAt(block, 3), 0)
<1>1. /\ Len(s) \in Nat /\ Len(s) = 4 * q + j
      /\ \A n \in 1..j : block[n] = s[4 * q + n]
      /\ \A n \in 1..3 * q : bytes[n - 1] = Decoded(s, n)
  <2>1. Len(s) \in Nat
    OBVIOUS
  <2>2. Len(s) = 4 * q + j
    BY DEF IsRead
  <2>3. \A n \in 1..j : block[n] = s[4 * q + n]
    BY DEF IsRead
  <2>4. \A n \in 1..3 * q : bytes[n - 1] = Decoded(s, n)
    BY DEF IsRead
  <2> QED  BY <2>1, <2>2, <2>3, <2>4
<1>2. x = Three(s, q)
  <2>1. ASSUME NEW n \in 1..3  PROVE DigitAt(s, 4 * q + n) = DigitAt(block, n)
    <3>1. CASE n <= j
      <4>1. 4 * q + n <= Len(s) /\ n \in 1..j
        BY <1>1, <3>1
      <4> QED  BY <1>1, <3>1, <4>1 DEF DigitAt
    <3>2. CASE ~(n <= j)
      <4>1. ~(4 * q + n <= Len(s))
        BY <1>1, <3>2
      <4> QED  BY <3>2, <4>1 DEF DigitAt
    <3> QED  BY <3>1, <3>2
  <2>2. DigitAt(s, 4 * q + 4) = 0
    <3>1. ~(4 * q + 4 <= Len(s))
      BY <1>1
    <3> QED  BY <3>1 DEF DigitAt
  <2>3. 1 \in 1..3 /\ 2 \in 1..3 /\ 3 \in 1..3
    OBVIOUS
  <2> QED  BY <2>1, <2>2, <2>3 DEF Three
<1>3. Len(rest) = m /\ \A n \in 1..m : rest[n] = Three(s, q)[n]
  BY <1>2 DEF IsRest
<1> DEFINE w == Write(bytes, 3 * q, rest)
<1>6. ASSUME NEW n \in 1..3 * q + m  PROVE w[n - 1] = Decoded(s, n)
  <2>1. n - 1 \in DOMAIN bytes
    OBVIOUS
  <2>2. w[n - 1] = IF n - 1 \in 3 * q..3 * q + m - 1 THEN rest[n - 1 - 3 * q + 1] ELSE bytes[n - 1]
    <3> HIDE DEF w
    <3>1. w = Write(bytes, 3 * q, rest)
      BY DEF w
    <3> QED  BY <1>3, <2>1, <3>1 DEF Write
  <2> HIDE DEF w
  <2>3. CASE n <= 3 * q
    <3>1. n \in 1..3 * q /\ n - 1 \notin 3 * q..3 * q + m - 1
      BY <2>3
    <3> QED  BY <1>1, <2>2, <3>1
  <2>4. CASE n > 3 * q
    <3>1. PICK r \in 0..2 : n = 3 * q + r + 1 /\ r + 1 \in 1..m
      <4>1. n - 3 * q - 1 \in 0..2 /\ n = 3 * q + (n - 3 * q - 1) + 1 /\ (n - 3 * q - 1) + 1 \in 1..m
        BY <2>4
      <4> QED  BY <4>1
    <3>2. n - 1 \in 3 * q..3 * q + m - 1 /\ n - 1 - 3 * q + 1 = r + 1
      BY <3>1
    <3>3. (n - 1) \div 3 = q /\ (n - 1) % 3 = r
      <4>1. (3 * q + r) \div 3 = q /\ (3 * q + r) % 3 = r
        OBVIOUS
      <4>2. n - 1 = 3 * q + r
        BY <3>1
      <4> QED  BY <4>1, <4>2, Zenon
    <3> QED  BY <1>3, <2>2, <3>1, <3>2, <3>3 DEF Decoded
  <2> QED  BY <2>3, <2>4
<1> QED  BY <1>6 DEF AreDecoded

\* What is left of a text that was sent, when it comes to be decoded.
IsDigits(t, d) ==
  /\ t \in Seq(Digit)
  /\ Len(t) = Digits(Len(d))
  /\ \A n \in 1..Len(t) : t[n] = Coded(d, n)

LEMMA EncodedKept ==
  ASSUME NEW d \in Seq(Byte), NEW t, IsEncoded(t, d)
  PROVE  IsDigits(Keep(t, Character \ {Pad}), d)
<1> DEFINE D == Digits(Len(d))
           S == Character \ {Pad}
<1>1. PICK b \in Nat, rest \in 0..2 : Len(d) = 3 * b + rest
  <2>1. Len(d) \in Nat
    OBVIOUS
  <2> QED  BY <2>1, RestOf
<1>2. D \in Nat /\ D <= EncodedLength(Len(d)) /\ EncodedLength(Len(d)) \in Nat
  <2>1. /\ D = 4 * b + (IF rest = 0 THEN 0 ELSE rest + 1)
        /\ EncodedLength(Len(d)) = 4 * b + (IF rest = 0 THEN 0 ELSE 4)
    BY <1>1, SizesOf
  <2> HIDE DEF D
  <2> QED  BY <2>1
<1>3. /\ t \in Seq(Code) /\ Len(t) \in Nat /\ D \in 0..Len(t)
      /\ \A n \in 1..Len(t) : t[n] = Coded(d, n)
  BY <1>2 DEF IsEncoded
<1>4. /\ Code \subseteq Character /\ Digit \subseteq S /\ S \in SUBSET Character
  BY DEF Code, Pad, Character, Foreign, Digit
<1>5. t \in Seq(Character)
  <2>1. \A n \in 1..Len(t) : t[n] \in Character
    BY <1>3, <1>4
  <2> QED  BY <1>3, <2>1
<1>6. \A n \in 1..D : n \in 1..Len(t) /\ n \in Nat /\ n > 0 /\ n <= D
  <2> HIDE DEF D
  <2> QED  BY <1>2, <1>3
<1>7. \A n \in 1..D : t[n] = Coded(d, n) /\ t[n] \in Digit
  BY <1>3, <1>6, CodedIsCode
<1>8. \A n \in D + 1..Len(t) : t[n] \notin S
  <2>1. ASSUME NEW n \in D + 1..Len(t)  PROVE t[n] = Pad
    <3>1. n \in 1..Len(t) /\ ~(n <= D)
      <4> HIDE DEF D
      <4> QED  BY <1>2, <1>3
    <3> QED  BY <1>3, <3>1 DEF Coded
  <2> QED  BY <2>1
<1>9. Keep(t, S) = SubSeq(t, 1, D)
  <2>1. \A n \in 1..D : t[n] \in S
    BY <1>4, <1>7
  <2> HIDE DEF D, S
  <2> QED  BY <1>3, <1>4, <1>5, <1>8, <2>1, KeepFront
<1>10. /\ SubSeq(t, 1, D) \in Seq(Digit) /\ Len(SubSeq(t, 1, D)) = D
       /\ \A n \in 1..D : SubSeq(t, 1, D)[n] = t[n]
  <2>1. SubSeq(t, 1, D) = [n \in 1..D |-> t[n]]
    <3> HIDE DEF D
    <3> QED  BY <1>2, <1>3
  <2>2. [n \in 1..D |-> t[n]] \in Seq(Digit) /\ Len([n \in 1..D |-> t[n]]) = D
    <3> HIDE DEF D
    <3> QED  BY <1>2, <1>7
  <2> QED  BY <2>1, <2>2
<1> QED  BY <1>7, <1>9, <1>10 DEF IsDigits

-----------------------------------------------------------------------------
(***************************************************************************)
(* The encoder: after b blocks it has read 3b bytes and written the 4b     *)
(* characters of their text.                                               *)
(***************************************************************************)

EncodedBlocks(b) ==
  /\ rawBaseIndex = 3 * b
  /\ encodingBaseIndex = 4 * b
  /\ 3 * b <= Len(objData)
  /\ Holds(encodingBytes, objData, 4 * b)

EncoderInv ==
  /\ objData \in Seq(Byte)
  /\ stage = "plain" => rawBaseIndex = 0 /\ encodingBaseIndex = 0 /\ plain \in Kinds
  /\ stage = "encode" =>
       /\ DOMAIN encodingBytes = 0..EncodedLength(Len(objData)) - 1
       /\ \E b \in Nat : EncodedBlocks(b)

LEMMA EncodedLengthFits ==
  ASSUME NEW n \in Nat, NEW b \in Nat, 3 * b <= n
  PROVE  /\ n - 3 * b >= 3 => 4 * b + 4 <= EncodedLength(n)
         /\ n - 3 * b \in {1, 2} => 4 * b + 3 <= EncodedLength(n)
         /\ Padding(n) <= EncodedLength(n)
<1>1. (n * 8) \div 24 = n \div 3
  OBVIOUS
<1>2. /\ n % 3 = 0 => Padding(n) = 0
      /\ n % 3 = 1 => Padding(n) = 2
      /\ n % 3 = 2 => Padding(n) = 1
      /\ n % 3 \in 0..2
  BY DEF Padding
<1>3. /\ n % 3 = 0 => EncodedLength(n) = 4 * (n \div 3)
      /\ n % 3 # 0 => EncodedLength(n) = 4 * (n \div 3 + 1)
  BY <1>1, <1>2 DEF EncodedLength
<1> QED  BY <1>2, <1>3

LEMMA EncoderInvIsEnough == EncoderInv => EncodeInside
<1> SUFFICES ASSUME EncoderInv, stage = "encode" PROVE EncodeInside
  BY DEF EncodeInside
<1>1. PICK b \in Nat : /\ rawBaseIndex = 3 * b
                       /\ encodingBaseIndex = 4 * b
                       /\ 3 * b <= Len(objData)
  BY DEF EncoderInv, EncodedBlocks
<1>2. Len(objData) \in Nat
  BY DEF EncoderInv
<1> QED  BY <1>1, <1>2, EncodedLengthFits DEF EncodeInside

LEMMA EncoderInit == CodecInit => EncoderInv
<1> SUFFICES ASSUME CodecInit PROVE EncoderInv
  OBVIOUS
<1>1. objData \in Seq(Byte)
  <2>1. CASE InitSend
    BY <2>1, Base64Assumption DEF InitSend
  <2>2. CASE InitEncrypt \/ InitReceive
    <3>1. objData = <<>>
      BY <2>2 DEF InitEncrypt, InitReceive
    <3> QED  BY <3>1
  <2> QED  BY <2>1, <2>2 DEF CodecInit
<1>2. /\ rawBaseIndex = 3 * 0 /\ encodingBaseIndex = 4 * 0 /\ 3 * 0 <= Len(objData)
      /\ Holds(encodingBytes, objData, 4 * 0)
  <2>1. 1..4 * 0 = {}
    OBVIOUS
  <2> QED  BY <1>1, <2>1 DEF CodecInit, Holds
<1>3. rawBaseIndex = 0 /\ encodingBaseIndex = 0
  BY DEF CodecInit
<1>4. stage = "plain" => plain \in Kinds
  BY Base64Assumption DEF CodecInit, InitEncrypt, InitSend, InitReceive
<1>5. DOMAIN encodingBytes = 0..EncodedLength(Len(objData)) - 1
  BY DEF CodecInit, Allocated
<1> QED  BY <1>1, <1>2, <1>3, <1>4, <1>5 DEF EncoderInv, EncodedBlocks

LEMMA CiphertextIsData ==
  ASSUME NEW p \in Kinds, NEW escape \in BOOLEAN
  PROVE  /\ Characters(p, escape) \in Nat
         /\ Bytes(p, escape) \in Nat
         /\ CipherLength(Bytes(p, escape)) \in Nat
<1>1. p.kept \in Nat /\ p.percent \in Nat /\ p.wide \in Nat
  BY DEF Kinds
<1>2. Characters(p, escape) \in Nat
  BY <1>1 DEF Characters
<1>3. Bytes(p, escape) \in Nat
  BY <1>1 DEF Bytes, Characters
<1>4. \A n \in Nat : CipherLength(n) \in Nat
  BY DEF CipherLength
<1> QED  BY <1>2, <1>3, <1>4

\* What the cipher leaves to be encoded.
LEMMA CipherStarts ==
  ASSUME EncoderInv, NEW escape \in BOOLEAN, DoCipher(escape)
  PROVE  /\ objData' \in Seq(Byte)
         /\ Len(objData') = CipherLength(Bytes(plain, escape))
         /\ DOMAIN encodingBytes' = 0..EncodedLength(Len(objData')) - 1
         /\ EncodedBlocks(0)'
<1>1. stage = "plain" /\ UNCHANGED <<rawBaseIndex, encodingBaseIndex>>
  BY DEF DoCipher
<1>2. rawBaseIndex = 0 /\ encodingBaseIndex = 0 /\ plain \in Kinds
  BY <1>1 DEF EncoderInv
<1>3. CipherLength(Bytes(plain, escape)) \in Nat
  BY <1>2, CiphertextIsData
<1>4. PICK b \in Fill : objData' = [n \in 1..CipherLength(Bytes(plain, escape)) |-> b]
  BY DEF DoCipher
<1>5. b \in Byte
  BY Base64Assumption
<1>6. ASSUME NEW length \in Nat
      PROVE  /\ [n \in 1..length |-> b] \in Seq(Byte)
             /\ Len([n \in 1..length |-> b]) = length
  BY <1>5
<1>7. objData' \in Seq(Byte) /\ Len(objData') = CipherLength(Bytes(plain, escape))
  BY <1>3, <1>4, <1>6
<1>8. DOMAIN encodingBytes' = 0..EncodedLength(Len(objData')) - 1
  BY <1>7 DEF DoCipher, Allocated
<1>9. EncodedBlocks(0)'
  <2>1. 1..4 * 0 = {} /\ 3 * 0 = 0 /\ 4 * 0 = 0
    OBVIOUS
  <2>2. rawBaseIndex' = 0 /\ encodingBaseIndex' = 0 /\ 0 <= Len(objData')
    BY <1>1, <1>2, <1>3, <1>7
  <2> QED  BY <2>1, <2>2 DEF EncodedBlocks, Holds
<1> QED  BY <1>7, <1>8, <1>9

LEMMA EncoderNext == EncoderInv /\ [CodecNext]_codecVars => EncoderInv'
<1> SUFFICES ASSUME EncoderInv, [CodecNext]_codecVars PROVE EncoderInv'
  OBVIOUS
<1>0. CASE NewDesEncryptStr \/ NewDesEncryptStrWithoutEncode
  <2>1. PICK escape \in BOOLEAN : DoCipher(escape)
    BY <1>0 DEF NewDesEncryptStr, NewDesEncryptStrWithoutEncode
  <2>2. stage' = "encode"
    BY <2>1 DEF DoCipher
  <2>3. 0 \in Nat
    OBVIOUS
  <2> QED  BY <2>1, <2>2, <2>3, CipherStarts DEF EncoderInv
<1>1. CASE EncodeBlock
  <2>1. PICK b \in Nat : EncodedBlocks(b)
    BY <1>1 DEF EncodeBlock, EncoderInv
  <2>2. Len(objData) \in Nat /\ objData \in Seq(Byte)
    BY DEF EncoderInv
  <2>3. /\ stage = "encode" /\ stage' = "encode" /\ objData' = objData
        /\ rawBaseIndex' = rawBaseIndex + 3 /\ encodingBaseIndex' = encodingBaseIndex + 4
        /\ Len(objData) - rawBaseIndex >= 3
        /\ encodingBytes' = Write(encodingBytes, encodingBaseIndex,
                                  Quartet(objData[rawBaseIndex + 1], objData[rawBaseIndex + 2],
                                          objData[rawBaseIndex + 3]))
    BY <1>1 DEF EncodeBlock
  <2>4. DOMAIN encodingBytes = 0..EncodedLength(Len(objData)) - 1
    BY <2>3 DEF EncoderInv
  <2>5. /\ rawBaseIndex = 3 * b /\ encodingBaseIndex = 4 * b /\ 3 * b <= Len(objData)
        /\ Holds(encodingBytes, objData, 4 * b)
    BY <2>1 DEF EncodedBlocks
  <2>6. /\ rawBaseIndex' = 3 * (b + 1)
        /\ encodingBaseIndex' = 4 * (b + 1)
        /\ 3 * b + 3 <= Len(objData) /\ 3 * (b + 1) <= Len(objData)
    BY <2>2, <2>3, <2>5
  <2>7. Holds(encodingBytes', objData, 4 * (b + 1))
    BY <2>2, <2>3, <2>4, <2>5, <2>6, BlockIsCoded
  <2>8. EncodedBlocks(b + 1)'
    BY <2>3, <2>6, <2>7 DEF EncodedBlocks, Holds
  <2>9. DOMAIN encodingBytes' = 0..EncodedLength(Len(objData')) - 1
    BY <2>3, <2>4 DEF Write
  <2>10. b + 1 \in Nat
    OBVIOUS
  <2> QED  BY <2>2, <2>3, <2>8, <2>9, <2>10 DEF EncoderInv
<1>2. CASE EncodeRest \/ EncodeSpecialUpDataCharacters \/ NewDesDecryptStr
             \/ NewNewDesDecryptStr \/ DecodeRest
  BY <1>2 DEF EncoderInv, EncodeRest, EncodeSpecialUpDataCharacters, NewDesDecryptStr,
              NewNewDesDecryptStr, StartDecoding, DecodeRest
<1>3. CASE DecodeCharacter \/ UNCHANGED codecVars
  BY <1>3 DEF EncoderInv, EncodedBlocks, Holds, DecodeCharacter, encoder, codecVars
<1> QED  BY <1>0, <1>1, <1>2, <1>3 DEF CodecNext

\* encodeBase64WithData: writes inside its buffer, whatever the data.
THEOREM EncoderStaysInside == CodecSpec => []EncodeInside
<1> QED  BY EncoderInit, EncoderNext, EncoderInvIsEnough, PTL DEF CodecSpec

CipherInv == EncoderInv /\ CiphertextFits

LEMMA BufferIsCipherLength == ASSUME NEW n \in Nat PROVE CipherLength(n) = BufferSize(n)
<1> QED  BY DEF CipherLength, BufferSize

LEMMA CipherNext == CipherInv /\ [CodecNext]_codecVars => CipherInv'
<1> SUFFICES ASSUME CipherInv, [CodecNext]_codecVars PROVE CiphertextFits'
  BY EncoderNext DEF CipherInv
<1>1. CASE NewDesEncryptStr
  <2>1. DoCipher(TRUE)
    BY <1>1 DEF NewDesEncryptStr
  <2>2. Len(objData') = CipherLength(Bytes(plain, TRUE))
    BY <2>1, CipherStarts DEF CipherInv
  <2>3. plain \in Kinds
    BY <2>1 DEF DoCipher, CipherInv, EncoderInv
  <2>4. Bytes(plain, TRUE) = Characters(plain, TRUE) /\ Characters(plain, TRUE) \in Nat
    BY <2>3, CiphertextIsData DEF Bytes
  <2>5. bufferPtrSize1' = BufferSize(Characters(plain, TRUE))
    BY <2>1 DEF DoCipher
  <2>6. Len(objData') = bufferPtrSize1' /\ Len(objData') \in Nat
    BY <2>2, <2>3, <2>4, <2>5, BufferIsCipherLength, CiphertextIsData
  <2> QED  BY <2>6 DEF CiphertextFits
<1>2. CASE NewDesEncryptStrWithoutEncode
  BY <1>2 DEF NewDesEncryptStrWithoutEncode, DoCipher, CiphertextFits
<1>3. CASE EncodeBlock \/ EncodeRest \/ EncodeSpecialUpDataCharacters
  BY <1>3 DEF EncodeBlock, EncodeRest, EncodeSpecialUpDataCharacters, cipher,
              CipherInv, CiphertextFits
<1>4. CASE NewDesDecryptStr \/ NewNewDesDecryptStr \/ DecodeCharacter \/ DecodeRest
  BY <1>4 DEF NewDesDecryptStr, NewNewDesDecryptStr, StartDecoding, DecodeCharacter,
              DecodeRest, CiphertextFits
<1>5. CASE UNCHANGED codecVars
  BY <1>5 DEF codecVars, CipherInv, CiphertextFits
<1> QED  BY <1>1, <1>2, <1>3, <1>4, <1>5 DEF CodecNext

\* The ciphertext of every escaped text fits the buffer of the cipher.
THEOREM EscapedTextFits == CodecSpec => []CiphertextFits
<1>1. CodecInit => CipherInv
  BY EncoderInit DEF CodecInit, CipherInv, CiphertextFits
<1>2. CipherInv => CiphertextFits
  BY DEF CipherInv
<1> QED  BY <1>1, <1>2, CipherNext, PTL DEF CodecSpec

-----------------------------------------------------------------------------
(***************************************************************************)
(* The text on its way: as it was encoded, with the special characters in  *)
(* place of + and /, and, when these were undone, as it was again, less    *)
(* the padding.                                                            *)
(***************************************************************************)

TextInv ==
  /\ text \in Seq(Character)
  /\ stage \notin {"decode", "decoded"} => undone = FALSE
  /\ stage = "encoded" => IsEncoded(text, objData)
  /\ stage = "wire" /\ sent => \E t : IsEncoded(t, objData) /\ text = SpecialUp(t)
  /\ stage \in {"decode", "decoded"} =>
       /\ bufferPtrSize1 \in Nat /\ Len(text) < bufferPtrSize1
       /\ sent /\ undone => IsDigits(text, objData)

LEMMA TextInit == CodecInit => TextInv
<1> SUFFICES ASSUME CodecInit PROVE TextInv
  OBVIOUS
<1>1. text \in Seq(Character)
  <2>1. CASE InitReceive
    BY <2>1, Base64Assumption DEF InitReceive
  <2>2. CASE InitEncrypt \/ InitSend
    <3>1. text = <<>>
      BY <2>2 DEF InitEncrypt, InitSend
    <3> QED  BY <3>1
  <2> QED  BY <2>1, <2>2 DEF CodecInit
<1>2. stage \in {"plain", "encode"} \/ (stage = "wire" /\ sent = FALSE)
  BY DEF CodecInit, InitEncrypt, InitSend, InitReceive
<1>3. undone = FALSE
  BY DEF CodecInit
<1> QED  BY <1>1, <1>2, <1>3 DEF TextInv

LEMMA CodeIsCharacter ==
  ASSUME NEW t \in Seq(Code)
  PROVE  t \in Seq(Character)
<1>1. Code \subseteq Character
  BY DEF Code, Pad, Character, Foreign
<1>2. \A n \in 1..Len(t) : t[n] \in Character
  BY <1>1
<1> QED  BY <1>2

LEMMA EncodeRestIsCoded ==
  ASSUME EncoderInv, EncodeRest
  PROVE  IsEncoded(text', objData')
<1>1. PICK b \in Nat : EncodedBlocks(b)
  BY DEF EncodeRest, EncoderInv
<1>2. objData \in Seq(Byte) /\ Len(objData) \in Nat
  BY DEF EncoderInv
<1>3. /\ rawBaseIndex = 3 * b /\ encodingBaseIndex = 4 * b /\ 3 * b <= Len(objData)
      /\ Holds(encodingBytes, objData, 4 * b)
  BY <1>1 DEF EncodedBlocks
<1>4. DOMAIN encodingBytes = 0..EncodedLength(Len(objData)) - 1
  BY DEF EncodeRest, EncoderInv
<1>5. PICK rest \in 0..2 : rest = Len(objData) - rawBaseIndex /\ Len(objData) = 3 * b + rest
  <2>1. Len(objData) - rawBaseIndex < 3
    BY DEF EncodeRest
  <2>2. Len(objData) - 3 * b \in 0..2 /\ Len(objData) = 3 * b + (Len(objData) - 3 * b)
    BY <1>2, <1>3, <2>1
  <2> QED  BY <1>3, <2>2
<1> DEFINE c2 == IF rest = 2 THEN objData[3 * b + 2] ELSE 0
           g == WriteRest(encodingBytes)
           h == encodingBytes'
<1>6. g = IF rest = 0 THEN encodingBytes
          ELSE Write(encodingBytes, 4 * b, SubSeq(Quartet(objData[3 * b + 1], c2, 0), 1, 3))
  <2>1. rest \in {1, 2} <=> rest # 0
    OBVIOUS
  <2>2. WriteRest(encodingBytes) =
          IF rest \in {1, 2}
            THEN Write(encodingBytes, encodingBaseIndex,
                       SubSeq(Quartet(objData[rawBaseIndex + 1],
                                      IF rest = 2 THEN objData[rawBaseIndex + 2] ELSE 0, 0), 1, 3))
            ELSE encodingBytes
    BY <1>5, Zenon DEF WriteRest
  <2> QED  BY <1>3, <2>1, <2>2
<1>7. h = Write(g, EncodedLength(Len(objData)) - Padding(Len(objData)),
                SubSeq(<<Pad, Pad>>, 1, Padding(Len(objData))))
  BY Zenon DEF EncodeRest
<1>8. text' = Prefix(h, EncodedLength(Len(objData))) /\ objData' = objData
  BY Zenon DEF EncodeRest
<1>9. (rest = 2 => c2 = objData[3 * b + 2]) /\ (rest # 2 => c2 = 0)
  OBVIOUS
<1> HIDE DEF c2, g, h
<1>10. IsEncoded(Prefix(h, EncodedLength(Len(objData))), objData)
  BY <1>2, <1>3, <1>4, <1>5, <1>6, <1>7, <1>9, RestIsCoded
<1> QED  BY <1>8, <1>10

\* What either way of decryption begins with.
LEMMA DecodingStarts ==
  ASSUME NEW s \in Seq(Character), StartDecoding(s)
  PROVE  /\ text' \in Seq(Character)
         /\ bufferPtrSize1' \in Nat /\ Len(text') < bufferPtrSize1'
<1> DEFINE S == Character \ {Pad}
<1>1. S \in SUBSET Character
  OBVIOUS
<1>2. text' = Keep(s, S) /\ bufferPtrSize1' = BufferSize(Len(s))
  BY DEF StartDecoding
<1>3. text' \in Seq(S) /\ Len(text') <= Len(s)
  <2> HIDE DEF S
  <2> QED  BY <1>1, <1>2, KeepIsShorter
<1>4. text' \in Seq(Character) /\ Len(text') \in Nat /\ Len(s) \in Nat
  <2>1. \A n \in 1..Len(text') : text'[n] \in Character
    BY <1>3
  <2> QED  BY <1>3, <2>1
<1>5. \A n \in Nat : BufferSize(n) \in Nat /\ n < BufferSize(n)
  BY DEF BufferSize
<1>6. bufferPtrSize1' \in Nat /\ Len(s) < bufferPtrSize1'
  BY <1>2, <1>4, <1>5
<1> QED  BY <1>3, <1>4, <1>6

LEMMA TextNext == EncoderInv /\ TextInv /\ [CodecNext]_codecVars => TextInv'
<1> SUFFICES ASSUME EncoderInv, TextInv, [CodecNext]_codecVars PROVE TextInv'
  OBVIOUS
<1>1. CASE NewDesEncryptStr \/ NewDesEncryptStrWithoutEncode
  <2>1. PICK escape \in BOOLEAN : DoCipher(escape)
    BY <1>1 DEF NewDesEncryptStr, NewDesEncryptStrWithoutEncode
  <2>2. stage = "plain" /\ stage' = "encode" /\ UNCHANGED <<undone, text>>
    BY <2>1 DEF DoCipher
  <2> QED  BY <2>2 DEF TextInv
<1>2. CASE EncodeBlock
  <2>1. stage = "encode" /\ stage' = "encode" /\ UNCHANGED <<undone, text>>
    BY <1>2 DEF EncodeBlock
  <2> QED  BY <2>1 DEF TextInv
<1>3. CASE EncodeRest
  <2>1. stage = "encode" /\ stage' = "encoded" /\ UNCHANGED undone
    BY <1>3 DEF EncodeRest
  <2>2. IsEncoded(text', objData')
    BY <1>3, EncodeRestIsCoded
  <2>3. text' \in Seq(Character)
    BY <2>2, CodeIsCharacter DEF IsEncoded
  <2> QED  BY <2>1, <2>2, <2>3 DEF TextInv
<1>4. CASE EncodeSpecialUpDataCharacters
  <2>1. /\ stage = "encoded" /\ stage' = "wire" /\ UNCHANGED <<undone, objData>>
        /\ text' = SpecialUp(text)
    BY <1>4 DEF EncodeSpecialUpDataCharacters
  <2>2. IsEncoded(text, objData') /\ text \in Seq(Character) /\ undone' = FALSE
    BY <2>1 DEF TextInv
  <2>3. text' \in Seq(Character)
    BY <2>1, <2>2, UpIsCharacters
  <2>4. stage' \notin {"decode", "decoded", "encoded"}
    BY <2>1
  <2> QED  BY <2>1, <2>2, <2>3, <2>4 DEF TextInv
<1>5. CASE NewDesDecryptStr
  <2> DEFINE s == SpecialDown(text)
  <2>1. StartDecoding(s) /\ undone' = TRUE
    BY <1>5 DEF NewDesDecryptStr
  <2>2. /\ stage = "wire" /\ stage' = "decode" /\ UNCHANGED <<objData, sent>>
        /\ text' = Keep(s, Character \ {Pad})
    BY <2>1 DEF StartDecoding
  <2>3. s \in Seq(Character)
    BY DownIsCharacters DEF TextInv
  <2>4. sent => IsDigits(text', objData)
    <3>1. SUFFICES ASSUME sent PROVE IsDigits(text', objData)
      OBVIOUS
    <3>2. PICK t : IsEncoded(t, objData) /\ text = SpecialUp(t)
      BY <2>2, <3>1 DEF TextInv
    <3>3. s = t
      BY <3>2, UpThenDown DEF IsEncoded
    <3>4. objData \in Seq(Byte)
      BY DEF EncoderInv
    <3> QED  BY <2>2, <3>2, <3>3, <3>4, EncodedKept
  <2> HIDE DEF s
  <2>5. text' \in Seq(Character) /\ bufferPtrSize1' \in Nat /\ Len(text') < bufferPtrSize1'
    BY <2>1, <2>3, DecodingStarts
  <2>6. stage' \notin {"encoded", "wire"}
    BY <2>2
  <2> QED  BY <2>2, <2>4, <2>5, <2>6 DEF TextInv
<1>6. CASE NewNewDesDecryptStr
  <2>1. StartDecoding(text) /\ undone' = undone /\ text \in Seq(Character)
    BY <1>6 DEF NewNewDesDecryptStr, TextInv
  <2>2. stage = "wire" /\ stage' = "decode"
    BY <2>1 DEF StartDecoding
  <2>3. undone' = FALSE
    BY <2>1, <2>2 DEF TextInv
  <2>4. text' \in Seq(Character) /\ bufferPtrSize1' \in Nat /\ Len(text') < bufferPtrSize1'
    BY <2>1, DecodingStarts
  <2> QED  BY <2>2, <2>3, <2>4 DEF TextInv
<1>7. CASE DecodeCharacter
  <2>1. stage = "decode" /\ UNCHANGED <<stage, bufferPtrSize1, objData, sent, undone, text>>
    BY <1>7 DEF DecodeCharacter, cipher
  <2> QED  BY <2>1 DEF TextInv
<1>8. CASE DecodeRest
  <2>1. /\ stage = "decode" /\ stage' = "decoded"
        /\ UNCHANGED <<bufferPtrSize1, objData, sent, undone, text>>
    BY <1>8 DEF DecodeRest, cipher
  <2> QED  BY <2>1 DEF TextInv
<1>9. CASE UNCHANGED codecVars
  BY <1>9 DEF TextInv, codecVars
<1> QED  BY <1>1, <1>2, <1>3, <1>4, <1>5, <1>6, <1>7, <1>8, <1>9 DEF CodecNext

-----------------------------------------------------------------------------
(***************************************************************************)
(* The decoder: of the characters of the alphabet among those it has read, *)
(* it has written the bytes of q blocks; the rest wait in decodingBlock.   *)
(***************************************************************************)

\* What the decoder ends with.
IsDecoded(s, n, bytes) ==
  /\ n = Bytewise(Len(s))
  /\ AreDecoded(bytes, s, n)

DecodedBlocks(q) ==
  /\ k = 3 * q
  /\ IsRead(Kept(text, Digit)[i], q, decodingBlock, decodedBytes)

DecoderInv ==
  /\ decodingBlock \in Seq(Digit)
  /\ Len(decodingBlock) < 4
  /\ stage \notin {"decode", "decoded"} => i = 0 /\ k = 0 /\ decodingBlock = <<>>
  /\ stage = "decode" =>
       /\ DOMAIN decodedBytes = 0..ExpectedDataLength(Len(text)) - 1
       /\ i \in 0..Len(text)
       /\ \E q \in Nat : DecodedBlocks(q)
  /\ stage = "decoded" => IsDecoded(Keep(text, Digit), k, decodedBytes)

CodecInv == EncoderInv /\ TextInv /\ DecoderInv

LEMMA DigitIsCharacter == Digit \in SUBSET Character
<1> QED  BY DEF Digit, Character, Foreign

LEMMA BlockIsShort == DecoderInv => decodingBlock \in Seq(Digit) /\ Len(decodingBlock) \in 0..3
<1> SUFFICES ASSUME DecoderInv PROVE decodingBlock \in Seq(Digit) /\ Len(decodingBlock) \in 0..3
  OBVIOUS
<1>1. 0 \in Digit
  BY DEF Digit
<1>2. decodingBlock \in Seq(Digit) /\ Len(decodingBlock) < 4
  BY DEF DecoderInv
<1> QED  BY <1>1, <1>2, ShortLength

LEMMA ExpectedLengthFits ==
  ASSUME NEW n \in Nat, NEW q \in Nat, NEW j \in 0..3, 4 * q + j <= n
  PROVE  /\ 4 * q + j < n /\ j = 3 => 3 * q + 3 <= ExpectedDataLength(n)
         /\ j = 3 => 3 * q + 2 <= ExpectedDataLength(n)
         /\ j = 2 => 3 * q + 1 <= ExpectedDataLength(n)
         /\ 3 * q <= ExpectedDataLength(n)
         /\ ExpectedDataLength(n) \in Nat
<1>1. (n + 3) \div 4 >= q
  OBVIOUS
<1>2. j \in {2, 3} => (n + 3) \div 4 >= q + 1
  OBVIOUS
<1>3. (n + 3) \div 4 \in Nat
  OBVIOUS
<1>4. 4 * q + j < n /\ j = 3 => (n + 3) \div 4 >= q + 1
  OBVIOUS
<1> QED  BY <1>1, <1>2, <1>3, <1>4 DEF ExpectedDataLength

\* Where the decoding loop stands.
LEMMA DecoderStands ==
  ASSUME TextInv, DecoderInv, stage = "decode"
  PROVE  \E q \in Nat, j \in 0..3 :
           /\ k = 3 * q /\ j = Len(decodingBlock)
           /\ IsRead(Kept(text, Digit)[i], q, decodingBlock, decodedBytes)
           /\ Kept(text, Digit)[i] \in Seq(Digit)
           /\ Len(Kept(text, Digit)[i]) = 4 * q + j
           /\ 4 * q + j <= i /\ i \in Nat /\ i <= Len(text) /\ Len(text) \in Nat
<1>1. PICK q \in Nat : DecodedBlocks(q)
  BY DEF DecoderInv
<1>2. PICK j \in 0..3 : j = Len(decodingBlock)
  BY BlockIsShort
<1>3. /\ k = 3 * q
      /\ IsRead(Kept(text, Digit)[i], q, decodingBlock, decodedBytes)
  BY <1>1 DEF DecodedBlocks
<1>4. i \in 0..Len(text) /\ text \in Seq(Character) /\ Len(text) \in Nat
  BY DEF DecoderInv, TextInv
<1>5. Kept(text, Digit)[i] \in Seq(Digit) /\ Len(Kept(text, Digit)[i]) <= i
  BY <1>4, DigitIsCharacter, KeptComputes
<1>6. Len(Kept(text, Digit)[i]) = 4 * q + j
  BY <1>2, <1>3 DEF IsRead
<1>7. 4 * q + j <= i /\ i \in Nat /\ i <= Len(text)
  BY <1>4, <1>5, <1>6
<1> QED  BY <1>2, <1>3, <1>4, <1>5, <1>6, <1>7

LEMMA LeftOverIs ==
  ASSUME decodingBlock \in Seq(Digit), NEW j \in 0..3, j = Len(decodingBlock)
  PROVE  \E m \in 0..2 :
           /\ IsRest(LeftOver, m, decodingBlock) /\ m <= j
           /\ j = 3 => m = 2
           /\ j = 2 => m = 1
           /\ j \notin {2, 3} => m = 0
<1> DEFINE T == Triplet(DigitAt(decodingBlock, 1), DigitAt(decodingBlock, 2),
                        DigitAt(decodingBlock, 3), 0)
<1>1. PICK m \in 0..2 : m = CASE j = 3 -> 2 [] j = 2 -> 1 [] OTHER -> 0
  OBVIOUS
<1>2. m <= j /\ (j = 3 => m = 2) /\ (j = 2 => m = 1) /\ (j \notin {2, 3} => m = 0)
  BY <1>1
<1>3. LeftOver = SubSeq(T, 1, m)
  BY <1>1 DEF LeftOver, DigitAt
<1>4. \A a, b, c : LET s == <<a, b, c>>
                   IN  /\ Len(SubSeq(s, 1, 0)) = 0
                       /\ Len(SubSeq(s, 1, 1)) = 1 /\ SubSeq(s, 1, 1)[1] = s[1]
                       /\ Len(SubSeq(s, 1, 2)) = 2 /\ SubSeq(s, 1, 2)[1] = s[1]
                       /\ SubSeq(s, 1, 2)[2] = s[2]
  OBVIOUS
<1>5. Len(SubSeq(T, 1, m)) = m /\ \A n \in 1..m : SubSeq(T, 1, m)[n] = T[n]
  BY <1>4 DEF Triplet
<1> QED  BY <1>2, <1>3, <1>5 DEF IsRest

LEMMA DecoderInvIsEnough == TextInv /\ DecoderInv => DecodeInside
<1> SUFFICES ASSUME TextInv, DecoderInv, stage = "decode" PROVE DecodeInside
  BY DEF DecodeInside
<1>1. PICK q \in Nat, j \in 0..3 :
        /\ k = 3 * q /\ j = Len(decodingBlock)
        /\ 4 * q + j <= i /\ i \in Nat /\ i <= Len(text) /\ Len(text) \in Nat
  BY DecoderStands
<1>2. PICK m \in 0..2 : /\ Len(LeftOver) = m
                        /\ j = 3 => m = 2
                        /\ j = 2 => m = 1
                        /\ j \notin {2, 3} => m = 0
  <2>1. decodingBlock \in Seq(Digit)
    BY DEF DecoderInv
  <2> QED  BY <1>1, <2>1, LeftOverIs DEF IsRest
<1>3. 4 * q + j <= Len(text) /\ (i < Len(text) => 4 * q + j < Len(text))
  BY <1>1
<1>4. /\ 4 * q + j < Len(text) /\ j = 3 => 3 * q + 3 <= ExpectedDataLength(Len(text))
      /\ j = 3 => 3 * q + 2 <= ExpectedDataLength(Len(text))
      /\ j = 2 => 3 * q + 1 <= ExpectedDataLength(Len(text))
      /\ 3 * q <= ExpectedDataLength(Len(text))
      /\ ExpectedDataLength(Len(text)) \in Nat
  BY <1>1, <1>3, ExpectedLengthFits
<1>5. i < Len(text) /\ Len(decodingBlock) = 3 => k + 3 <= ExpectedDataLength(Len(text))
  BY <1>1, <1>3, <1>4
<1>6. k + Len(LeftOver) <= ExpectedDataLength(Len(text))
  BY <1>1, <1>2, <1>4
<1> QED  BY <1>5, <1>6 DEF DecodeInside, DecoderInv

LEMMA DecoderInit == CodecInit => DecoderInv
<1> SUFFICES ASSUME CodecInit PROVE DecoderInv
  OBVIOUS
<1>1. i = 0 /\ k = 0 /\ decodingBlock = <<>>
  BY DEF CodecInit, InitDecoder
<1>2. stage \in {"plain", "encode", "wire"}
  BY DEF CodecInit, InitEncrypt, InitSend, InitReceive
<1> QED  BY <1>1, <1>2 DEF DecoderInv

LEMMA DecodingBegins ==
  ASSUME DecoderInv, TextInv', NEW s, StartDecoding(s)
  PROVE  DecoderInv'
<1>1. /\ stage = "wire" /\ stage' = "decode"
      /\ decodedBytes' = Allocated(ExpectedDataLength(Len(text')))
      /\ UNCHANGED <<i, k, decodingBlock>>
  BY DEF StartDecoding
<1>2. i = 0 /\ k = 3 * 0 /\ decodingBlock = <<>>
  BY <1>1 DEF DecoderInv
<1>3. DOMAIN decodedBytes' = 0..ExpectedDataLength(Len(text')) - 1
  BY <1>1 DEF Allocated
<1>4. i' \in 0..Len(text') /\ text' \in Seq(Character)
  BY <1>1, <1>2 DEF TextInv
<1>5. Kept(text', Digit)[0] = <<>>
  BY <1>4, DigitIsCharacter, KeptComputes DEF KeptIs
<1>6. IsRead(<<>>, 0, <<>>, decodedBytes')
  <2>1. Len(<<>>) = 4 * 0 + Len(<<>>) /\ 1..Len(<<>>) = {} /\ 1..3 * 0 = {}
    OBVIOUS
  <2> QED  BY <2>1 DEF IsRead
<1>7. DecodedBlocks(0)'
  BY <1>1, <1>2, <1>5, <1>6 DEF DecodedBlocks
<1>8. 0 \in Nat /\ decodingBlock' \in Seq(Digit) /\ Len(decodingBlock') < 4
  BY <1>1 DEF DecoderInv
<1> QED  BY <1>1, <1>3, <1>4, <1>7, <1>8 DEF DecoderInv

LEMMA DecodeCharacterReads ==
  ASSUME TextInv, DecoderInv, DecodeCharacter
  PROVE  DecoderInv'
<1> DEFINE c == text[i + 1]
           s == Kept(text, Digit)[i]
           t == Kept(text, Digit)[i + 1]
<1>1. /\ stage = "decode" /\ stage' = "decode" /\ text' = text
      /\ i' = i + 1 /\ i < Len(text)
  BY DEF DecodeCharacter
<1>2. PICK q \in Nat, j \in 0..3 :
        /\ k = 3 * q /\ j = Len(decodingBlock)
        /\ IsRead(s, q, decodingBlock, decodedBytes)
        /\ s \in Seq(Digit)
        /\ Len(s) = 4 * q + j
        /\ 4 * q + j <= i /\ i \in Nat /\ i <= Len(text) /\ Len(text) \in Nat
  BY <1>1, DecoderStands
<1>3. i' \in 0..Len(text') /\ i + 1 \in 1..Len(text) /\ (i + 1) - 1 = i
  BY <1>1, <1>2
<1>4. /\ c \notin Digit => t = s
      /\ c \in Digit => t = Append(s, c)
  <2>1. text \in Seq(Character)
    BY DEF TextInv
  <2>2. KeptIs(text, Digit, Kept(text, Digit))
    BY <2>1, DigitIsCharacter, KeptComputes
  <2> QED  BY <1>3, <2>2 DEF KeptIs
<1>5. /\ decodingBlock \in Seq(Digit) /\ Len(decodingBlock) < 4
      /\ DOMAIN decodedBytes = 0..ExpectedDataLength(Len(text)) - 1
  BY <1>1 DEF DecoderInv
<1>6. ASSUME NEW p \in Nat, k' = 3 * p, IsRead(t, p, decodingBlock', decodedBytes'),
             DOMAIN decodedBytes' = DOMAIN decodedBytes,
             decodingBlock' \in Seq(Digit), Len(decodingBlock') < 4
      PROVE  DecoderInv'
  <2>1. DecodedBlocks(p)'
    BY <1>1, <1>6 DEF DecodedBlocks
  <2> QED  BY <1>1, <1>3, <1>5, <1>6, <2>1 DEF DecoderInv
<1> HIDE DEF c, s, t
<1>7. CASE ~InTable(c)
  <2>1. UNCHANGED <<decodingBlock, decodedBytes, k>> /\ t = s
    BY <1>4, <1>7 DEF DecodeCharacter, c, InTable
  <2> QED  BY <1>2, <1>5, <1>6, <2>1
<1>8. CASE InTable(c) /\ Len(Append(decodingBlock, c)) < 4
  <2>1. decodingBlock' = Append(decodingBlock, c) /\ UNCHANGED <<decodedBytes, k>>
    BY <1>8 DEF DecodeCharacter, c
  <2>2. c \in Digit /\ t = Append(s, c)
    BY <1>4, <1>8 DEF InTable
  <2>3. decodingBlock' \in Seq(Digit) /\ Len(decodingBlock') < 4
    BY <1>5, <1>8, <2>1, <2>2
  <2>4. IsRead(t, q, decodingBlock', decodedBytes')
    BY <1>2, <1>5, <2>1, <2>2, ReadMore
  <2> QED  BY <1>2, <1>6, <2>1, <2>3, <2>4
<1>9. CASE InTable(c) /\ Len(Append(decodingBlock, c)) = 4
  <2>1. c \in Digit /\ t = Append(s, c)
    BY <1>4, <1>9 DEF InTable
  <2>2. Len(decodingBlock) = 3 /\ j = 3
    BY <1>2, <1>5, <1>9, <2>1, ShortLength
  <2> DEFINE block == Append(decodingBlock, c)
  <2>3. /\ decodingBlock' = <<>> /\ k' = k + 3
        /\ decodedBytes' = Write(decodedBytes, k, Triplet(block[1], block[2], block[3], block[4]))
    BY <1>9 DEF DecodeCharacter, c
  <2>4. /\ block[1] = decodingBlock[1] /\ block[2] = decodingBlock[2] /\ block[3] = decodingBlock[3]
        /\ block[4] = c
    <3>1. /\ block[Len(decodingBlock) + 1] = c
          /\ \A m \in 1..Len(decodingBlock) : block[m] = decodingBlock[m]
      BY <1>5, <2>1, OneMore
    <3> HIDE DEF block
    <3> QED  BY <2>2, <3>1
  <2>5. decodedBytes' = Write(decodedBytes, 3 * q,
                              Triplet(decodingBlock[1], decodingBlock[2], decodingBlock[3], c))
    BY <1>2, <2>3, <2>4
  <2>6. 3 * q + 3 <= ExpectedDataLength(Len(text)) /\ ExpectedDataLength(Len(text)) \in Nat
    <3>1. 4 * q + j < Len(text) /\ 4 * q + j <= Len(text)
      BY <1>1, <1>2
    <3> QED  BY <1>2, <2>2, <3>1, ExpectedLengthFits
  <2>7. IsRead(t, q + 1, <<>>, decodedBytes')
    BY <1>2, <1>5, <2>1, <2>2, <2>5, <2>6, ReadBlock
  <2>8. q + 1 \in Nat /\ k' = 3 * (q + 1) /\ <<>> \in Seq(Digit) /\ Len(<<>>) < 4
    BY <1>2, <2>3
  <2>9. DOMAIN decodedBytes' = DOMAIN decodedBytes
    BY <2>3 DEF Write
  <2> QED  BY <1>6, <2>3, <2>7, <2>8, <2>9
<1> QED  BY <1>7, <1>8, <1>9 DEF DecodeCharacter, c

LEMMA DecodeRestReads ==
  ASSUME TextInv, DecoderInv, DecodeRest
  PROVE  DecoderInv'
<1> DEFINE s == Keep(text, Digit)
<1>1. /\ stage = "decode" /\ stage' = "decoded" /\ text' = text /\ i = Len(text)
      /\ decodedBytes' = Write(decodedBytes, k, LeftOver) /\ k' = k + Len(LeftOver)
      /\ decodingBlock' = decodingBlock
  BY DEF DecodeRest
<1>2. PICK q \in Nat, j \in 0..3 :
        /\ k = 3 * q /\ j = Len(decodingBlock)
        /\ IsRead(s, q, decodingBlock, decodedBytes)
        /\ s \in Seq(Digit)
        /\ Len(s) = 4 * q + j
        /\ 4 * q + j <= i /\ i \in Nat /\ i <= Len(text) /\ Len(text) \in Nat
  BY <1>1, DecoderStands DEF Keep
<1>3. /\ decodingBlock \in Seq(Digit) /\ Len(decodingBlock) < 4
      /\ DOMAIN decodedBytes = 0..ExpectedDataLength(Len(text)) - 1
  BY <1>1 DEF DecoderInv
<1>4. PICK m \in 0..2 :
        /\ IsRest(LeftOver, m, decodingBlock) /\ m <= j
        /\ j = 3 => m = 2
        /\ j = 2 => m = 1
        /\ j \notin {2, 3} => m = 0
  BY <1>2, <1>3, LeftOverIs
<1> HIDE DEF s
<1>5. 3 * q + m <= ExpectedDataLength(Len(text)) /\ ExpectedDataLength(Len(text)) \in Nat
  <2>1. 4 * q + j <= Len(text)
    BY <1>1, <1>2
  <2>2. /\ j = 3 => 3 * q + 2 <= ExpectedDataLength(Len(text))
        /\ j = 2 => 3 * q + 1 <= ExpectedDataLength(Len(text))
        /\ 3 * q <= ExpectedDataLength(Len(text))
        /\ ExpectedDataLength(Len(text)) \in Nat
    BY <1>2, <2>1, ExpectedLengthFits
  <2> QED  BY <1>4, <2>2
<1>6. AreDecoded(decodedBytes', s, 3 * q + m)
  <2>1. Len(decodingBlock) = j /\ decodedBytes' = Write(decodedBytes, 3 * q, LeftOver)
    BY <1>1, <1>2
  <2>2. 0..3 * q + m - 1 \subseteq DOMAIN decodedBytes
    BY <1>3, <1>5
  <2>3. /\ s \in Seq(Digit) /\ decodingBlock \in Seq(Digit) /\ m <= j
        /\ IsRead(s, q, decodingBlock, decodedBytes) /\ IsRest(LeftOver, m, decodingBlock)
    BY <1>2, <1>3, <1>4
  <2>4. AreDecoded(Write(decodedBytes, 3 * q, LeftOver), s, 3 * q + m)
    BY <2>1, <2>2, <2>3, RestIsRead
  <2> QED  BY <2>1, <2>4
<1>7. 3 * q + m = Bytewise(Len(s))
  <2>1. Bytewise(4 * q + j) = 3 * q + (CASE j = 3 -> 2 [] j = 2 -> 1 [] OTHER -> 0)
    BY DecodedSizes
  <2>2. m = CASE j = 3 -> 2 [] j = 2 -> 1 [] OTHER -> 0
    BY <1>4
  <2> QED  BY <1>2, <2>1, <2>2
<1>8. IsDecoded(s, k', decodedBytes')
  <2>1. Len(LeftOver) = m
    BY <1>4 DEF IsRest
  <2> QED  BY <1>1, <1>2, <1>6, <1>7, <2>1 DEF IsDecoded
<1> QED  BY <1>1, <1>3, <1>8 DEF DecoderInv, s

LEMMA DecoderNext == TextInv /\ TextInv' /\ DecoderInv /\ [CodecNext]_codecVars => DecoderInv'
<1> SUFFICES ASSUME TextInv, TextInv', DecoderInv, [CodecNext]_codecVars PROVE DecoderInv'
  OBVIOUS
<1>1. CASE NewDesEncryptStr \/ NewDesEncryptStrWithoutEncode
  BY <1>1 DEF DecoderInv, NewDesEncryptStr, NewDesEncryptStrWithoutEncode, DoCipher, decoder
<1>2. CASE EncodeBlock \/ EncodeRest \/ EncodeSpecialUpDataCharacters
  BY <1>2 DEF DecoderInv, EncodeBlock, EncodeRest, EncodeSpecialUpDataCharacters, decoder
<1>3. CASE NewDesDecryptStr \/ NewNewDesDecryptStr
  BY <1>3, DecodingBegins DEF NewDesDecryptStr, NewNewDesDecryptStr
<1>4. CASE UNCHANGED codecVars
  BY <1>4 DEF DecoderInv, DecodedBlocks, codecVars
<1> QED  BY <1>1, <1>2, <1>3, <1>4, DecodeCharacterReads, DecodeRestReads DEF CodecNext

\* All of it.
LEMMA CodecInvariance == CodecSpec => []CodecInv
<1>1. CodecInit => CodecInv
  BY EncoderInit, TextInit, DecoderInit DEF CodecInv
<1>2. CodecInv /\ [CodecNext]_codecVars => CodecInv'
  BY EncoderNext, TextNext, DecoderNext DEF CodecInv
<1> QED  BY <1>1, <1>2, PTL DEF CodecSpec

-----------------------------------------------------------------------------
(***************************************************************************)
(* What follows from it.                                                   *)
(***************************************************************************)

\* decodeBase64WithString: writes inside its buffer, whatever the text.
THEOREM DecoderStaysInside == CodecSpec => []DecodeInside
<1>1. CodecInv => DecodeInside
  BY DecoderInvIsEnough DEF CodecInv
<1> QED  BY <1>1, CodecInvariance, PTL

\* Both directions do, which is the invariant of the run.
THEOREM BuffersSuffice == CodecSpec => []WritesStayInside
<1>1. EncodeInside /\ DecodeInside => WritesStayInside
  BY DEF WritesStayInside
<1> QED  BY <1>1, EncoderStaysInside, DecoderStaysInside, PTL

\* The buffers of the ciphers are large enough: that of an escaped text for its
\* ciphertext, and that of a received text for whatever its bytes decrypt to.
THEOREM CipherBuffersSuffice == CodecSpec => []CipherFits
<1>1. CodecInv => PlaintextFits
  <2>1. SUFFICES ASSUME CodecInv, stage = "decoded" PROVE k <= bufferPtrSize1
    BY DEF PlaintextFits
  <2>2. /\ text \in Seq(Character) /\ bufferPtrSize1 \in Nat /\ Len(text) < bufferPtrSize1
        /\ k = Bytewise(Len(Keep(text, Digit)))
    BY <2>1 DEF CodecInv, TextInv, DecoderInv, IsDecoded
  <2>3. Keep(text, Digit) \in Seq(Digit) /\ Len(Keep(text, Digit)) <= Len(text)
    BY <2>2, DigitIsCharacter, KeepIsShorter
  <2>4. Len(Keep(text, Digit)) \in Nat /\ Len(text) \in Nat
    BY <2>2, <2>3
  <2>5. \A n \in Nat : Bytewise(n) \in Nat /\ Bytewise(n) <= n
    BY DEF Bytewise
  <2>6. k \in Nat /\ k <= Len(Keep(text, Digit))
    BY <2>2, <2>4, <2>5
  <2> QED  BY <2>2, <2>3, <2>4, <2>6
<1>2. CiphertextFits /\ PlaintextFits => CipherFits
  BY DEF CipherFits
<1> QED  BY <1>1, <1>2, CodecInvariance, EscapedTextFits, PTL

LEMMA EncodedIsBase64 == CodecInv => EncodingIsBase64
<1>1. SUFFICES ASSUME CodecInv, stage = "encoded"
               PROVE  /\ Len(text) = 4 * ((Len(objData) + 2) \div 3)
                      /\ \A n \in 1..Len(text) :
                           text[n] = IF n <= (8 * Len(objData) + 5) \div 6
                                       THEN Number(objData, 8, 6, n) ELSE Pad
  BY DEF EncodingIsBase64
<1>2. objData \in Seq(Byte) /\ Len(objData) \in Nat /\ IsEncoded(text, objData)
  BY <1>1 DEF CodecInv, EncoderInv, TextInv
<1>3. Len(text) = 4 * ((Len(objData) + 2) \div 3)
  <2>1. ASSUME NEW n \in Nat  PROVE EncodedLength(n) = 4 * ((n + 2) \div 3)
    <3>1. PICK b \in Nat, rest \in 0..2 : n = 3 * b + rest
      BY RestOf
    <3>2. \A m : m = 3 * b + rest => EncodedLength(m) = 4 * ((m + 2) \div 3)
      BY EncodedSizes
    <3> QED  BY <3>1, <3>2, Zenon
  <2>2. Len(text) = EncodedLength(Len(objData))
    BY <1>2 DEF IsEncoded
  <2> QED  BY <1>2, <2>1, <2>2
<1>4. ASSUME NEW n \in 1..Len(text)
      PROVE  text[n] = IF n <= (8 * Len(objData) + 5) \div 6
                         THEN Number(objData, 8, 6, n) ELSE Pad
  <2>1. text[n] = Coded(objData, n)
    BY <1>2 DEF IsEncoded
  <2>2. n \in Nat /\ n > 0
    OBVIOUS
  <2>3. CASE n <= Digits(Len(objData))
    BY <1>2, <2>1, <2>2, <2>3, CodedIsNumber DEF Digits
  <2>4. CASE ~(n <= Digits(Len(objData)))
    BY <2>1, <2>4 DEF Coded, Digits
  <2> QED  BY <2>3, <2>4
<1> QED  BY <1>3, <1>4

LEMMA DecodedIsBase64 == CodecInv => DecodingIsBase64
<1> DEFINE s == Keep(text, Digit)
<1>1. SUFFICES ASSUME CodecInv, stage = "decoded"
               PROVE  Prefix(decodedBytes, k) = [n \in 1..(6 * Len(s)) \div 8 |-> Number(s, 6, 8, n)]
  BY DEF DecodingIsBase64
<1>2. k = (6 * Len(s)) \div 8 /\ \A n \in 1..k : decodedBytes[n - 1] = Decoded(s, n)
  BY <1>1 DEF CodecInv, DecoderInv, IsDecoded, AreDecoded, Bytewise
<1>3. s \in Seq(Digit) /\ Len(s) \in Nat
  <2>1. text \in Seq(Character)
    BY <1>1 DEF CodecInv, TextInv
  <2>2. s \in Seq(Digit)
    BY <2>1, DigitIsCharacter, KeepIsShorter
  <2> QED  BY <2>2
<1> HIDE DEF s
<1>4. \A n \in 1..k : decodedBytes[n - 1] = Number(s, 6, 8, n)
  <2>1. \A n \in 1..k : n \in Nat /\ n > 0
    BY <1>2, <1>3
  <2> QED  BY <1>2, <1>3, <2>1, DecodedIsNumber
<1> QED  BY <1>2, <1>4 DEF Prefix

\* What is made is the Base64 of the data, and what is decoded are the whole
\* bytes of the characters of the alphabet, of every data and every text.
THEOREM IsBase64 == CodecSpec => []FollowsBase64
<1>1. CodecInv => FollowsBase64
  BY EncodedIsBase64, DecodedIsBase64 DEF FollowsBase64
<1> QED  BY <1>1, CodecInvariance, PTL

\* Data of every length that was sent is what newDesDecryptStr: decodes.
THEOREM DataComesBack == CodecSpec => []RoundTrip
<1>1. CodecInv => RoundTrip
  <2>1. SUFFICES ASSUME CodecInv, stage = "decoded", sent, undone
                 PROVE  Prefix(decodedBytes, k) = objData
    BY DEF RoundTrip
  <2>2. /\ objData \in Seq(Byte) /\ Len(objData) \in Nat
        /\ IsDigits(text, objData) /\ IsDecoded(Keep(text, Digit), k, decodedBytes)
    BY <2>1 DEF CodecInv, EncoderInv, TextInv, DecoderInv
  <2>3. /\ text \in Seq(Digit) /\ Len(text) = Digits(Len(objData))
        /\ \A n \in 1..Len(text) : text[n] = Coded(objData, n)
    BY <2>2 DEF IsDigits
  <2>4. Keep(text, Digit) = text
    BY <2>3, DigitIsCharacter, KeepAll
  <2>5. k = Len(objData)
    <3>1. ASSUME NEW n \in Nat  PROVE Bytewise(Digits(n)) = n
      <4>1. PICK b \in Nat, rest \in 0..2 : n = 3 * b + rest
        BY RestOf
      <4>2. \A m : m = 3 * b + rest => Bytewise(Digits(m)) = m
        BY EncodedSizes
      <4> QED  BY <4>1, <4>2, Zenon
    <3> QED  BY <2>2, <2>3, <2>4, <3>1 DEF IsDecoded
  <2>6. \A n \in 1..k : decodedBytes[n - 1] = objData[n]
    <3>1. \A n \in 1..k : decodedBytes[n - 1] = Decoded(text, n)
      BY <2>2, <2>4 DEF IsDecoded, AreDecoded
    <3>2. \A n \in 1..Len(objData) : Decoded(text, n) = objData[n]
      BY <2>2, <2>3, DecodedOfCoded
    <3> QED  BY <2>5, <3>1, <3>2
  <2>7. Prefix(decodedBytes, k) = [n \in 1..Len(objData) |-> objData[n]]
    BY <2>5, <2>6 DEF Prefix
  <2> QED  BY <2>2, <2>7
<1> QED  BY <1>1, CodecInvariance, PTL
=============================================================================
