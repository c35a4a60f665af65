----------------------------- MODULE Codec_proofs ----------------------------
(***************************************************************************)
(* Theorems about CodecData: for bytes, words and addresses of any size    *)
(* and any fields, the encoders and decoders that work their offsets out   *)
(* by hand do the same as those of the library, and a decoder gives back   *)
(* what was encoded. And about SnapshotArchive: for blocks of any size and *)
(* any directory, a flaw of an archive goes no further than it must.       *)
(***************************************************************************)
EXTENDS CodecData, SnapshotArchive, SequenceTheorems, FiniteSetTheorems, TLAPS
WF == INSTANCE WellFoundedInduction

-----------------------------------------------------------------------------
(* Natural numbers and sequences.                                          *)

(* The order of the natural numbers as a relation.                         *)
Below == {p \in Nat \X Nat : p[1] < p[2]}

(* Any set of natural numbers that is not empty has a least one.           *)
LEMMA Least ==
    ASSUME NEW S \in SUBSET Nat, S # {}
    PROVE  \E n \in S : \A m \in S : n <= m
<1>1. WF!IsWellFoundedOn(Below, Nat)
  BY WF!NatLessThanWellFounded, Zenon DEF WF!OpToRel, Below
<1>2. PICK n \in S : \A m \in S : ~(<<m, n>> \in Below) BY <1>1, WF!WFMin
<1>3. ASSUME NEW m \in S PROVE n <= m
  <2>1. ~(<<m, n>> \in Below) BY <1>2
  <2>2. QED BY <2>1 DEF Below
<1>4. QED BY <1>3

(* So a set that has 0, and each successor of its elements, has all of     *)
(* them.                                                                   *)
LEMMA Induction ==
    ASSUME NEW S, 0 \in S, \A n \in Nat : n \in S => n + 1 \in S
    PROVE  Nat \subseteq S
<1>1. SUFFICES ASSUME Nat \ S # {} PROVE FALSE OBVIOUS
<1>2. PICK n \in Nat \ S : \A m \in Nat \ S : n <= m BY <1>1, Least
<1>3. n - 1 \in Nat /\ n - 1 \in S BY <1>2
<1>4. QED BY <1>2, <1>3

(* What FlattenSeq computes with: g[i] is the first i of ss joined.        *)
IsJoin(g, ss, n) == g = [i \in 1..n |-> IF i = 1 THEN ss[i] ELSE g[i - 1] \o ss[i]]

(* The function that FlattenSeq computes with exists, for any length.      *)
LEMMA JoinExists ==
    ASSUME NEW ss
    PROVE  \A n \in Nat : \E g : IsJoin(g, ss, n)
<1> DEFINE S == {n \in Nat : \E g : IsJoin(g, ss, n)}
<1>1. 0 \in S
  <2>1. IsJoin([i \in 1..0 |-> 0], ss, 0) BY DEF IsJoin
  <2>2. QED BY <2>1
<1>2. ASSUME NEW n \in Nat, n \in S PROVE n + 1 \in S
  <2>1. PICK g : IsJoin(g, ss, n) BY <1>2
  <2> DEFINE Step(f, i) == IF i = 1 THEN ss[i] ELSE f[i - 1] \o ss[i]
             h == [i \in 1..(n + 1) |-> IF i <= n THEN g[i] ELSE Step(g, i)]
  <2>2. \A i \in 1..n : g[i] = Step(g, i) BY <2>1 DEF IsJoin
  <2>3. \A i \in 1..(n + 1) : i # 1 => h[i - 1] = g[i - 1] OBVIOUS
  <2>4. \A i \in 1..(n + 1) : h[i] = Step(g, i) BY <2>2
  <2>5. \A i \in 1..(n + 1) : Step(g, i) = Step(h, i) BY <2>3
  <2>6. h = [i \in 1..(n + 1) |-> h[i]] OBVIOUS
  <2> HIDE DEF h
  <2>7. h = [i \in 1..(n + 1) |-> Step(h, i)]  BY <2>4, <2>5, <2>6
  <2>8. IsJoin(h, ss, n + 1) BY <2>7 DEF IsJoin
  <2>9. QED BY <2>8
<1>3. Nat \subseteq S
  <2> HIDE DEF S
  <2>1. QED BY <1>1, <1>2, Induction
<1>4. QED BY <1>3

(* FlattenSeq takes its last value.                                        *)
LEMMA FlattenIsJoin ==
    ASSUME NEW ss, Len(ss) \in Nat \ {0}
    PROVE  \E g : IsJoin(g, ss, Len(ss)) /\ FlattenSeq(ss) = g[Len(ss)]
<1> DEFINE g == CHOOSE f : IsJoin(f, ss, Len(ss))
<1>1. IsJoin(g, ss, Len(ss)) BY JoinExists
<1>2. FlattenSeq(ss) = g[Len(ss)] BY Zenon DEF FlattenSeq, IsJoin
<1>3. QED BY <1>1, <1>2

(* The block b stands in s, behind the first o elements.                   *)
At(s, o, b) ==
    /\ o \in Nat /\ o + Len(b) <= Len(s)
    /\ \A j \in 1..Len(b) : s[o + j] = b[j]

(* A block stays where it is when more is put behind, and moves when more  *)
(* is put before.                                                          *)
LEMMA AtConcat ==
    ASSUME NEW T, NEW s \in Seq(T), NEW t \in Seq(T), NEW b \in Seq(T), NEW o \in Nat
    PROVE  /\ At(s, o, b) => At(s \o t, o, b)
           /\ At(t, o, b) => At(s \o t, Len(s) + o, b)
<1>1. /\ Len(s) \in Nat /\ Len(t) \in Nat /\ Len(b) \in Nat
      /\ Len(s \o t) = Len(s) + Len(t)
      /\ \A i \in 1..(Len(s) + Len(t)) :
            (s \o t)[i] = IF i <= Len(s) THEN s[i] ELSE t[i - Len(s)]
  BY ConcatProperties, LenProperties
<1> DEFINE st == s \o t
<1> HIDE DEF st
<1>2. ASSUME At(s, o, b) PROVE At(st, o, b)
  <2>1. \A j \in 1..Len(b) : o + j <= Len(s) /\ s[o + j] = b[j] BY <1>1, <1>2 DEF At
  <2>2. \A j \in 1..Len(b) : st[o + j] = b[j] BY <1>1, <2>1 DEF st
  <2>3. o + Len(b) <= Len(st) BY <1>1, <1>2 DEF At, st
  <2>4. QED BY <2>2, <2>3 DEF At
<1>3. ASSUME At(t, o, b) PROVE At(st, Len(s) + o, b)
  <2>1. \A j \in 1..Len(b) : o + j <= Len(t) /\ t[o + j] = b[j] BY <1>1, <1>3 DEF At
  <2>2. \A j \in 1..Len(b) : st[(Len(s) + o) + j] = b[j]
    <3>1. TAKE j \in 1..Len(b)
    <3>2. (Len(s) + o) + j \in 1..(Len(s) + Len(t)) /\ ~((Len(s) + o) + j <= Len(s))
          /\ (Len(s) + o) + j - Len(s) = o + j
      BY <1>1, <2>1
    <3>3. QED BY <1>1, <2>1, <3>2 DEF st
  <2>3. (Len(s) + o) + Len(b) <= Len(st) BY <1>1, <1>3 DEF At, st
  <2>4. QED BY <1>1, <2>2, <2>3 DEF At
<1>4. QED BY <1>2, <1>3 DEF st

(* Joining is a function: two sequences of first joins are the same.      *)
LEMMA JoinUnique ==
    ASSUME NEW ss, NEW n \in Nat, NEW g, NEW h, IsJoin(g, ss, n), IsJoin(h, ss, n)
    PROVE  \A i \in 1..n : g[i] = h[i]
<1> DEFINE S == {k \in Nat : k \in 1..n => g[k] = h[k]}
<1>1. \A i \in 1..n : /\ g[i] = IF i = 1 THEN ss[i] ELSE g[i - 1] \o ss[i]
                      /\ h[i] = IF i = 1 THEN ss[i] ELSE h[i - 1] \o ss[i]
  BY DEF IsJoin
<1>2. 0 \in S OBVIOUS
<1>3. ASSUME NEW k \in Nat, k \in S PROVE k + 1 \in S
  <2>1. SUFFICES ASSUME k + 1 \in 1..n PROVE g[k + 1] = h[k + 1] OBVIOUS
  <2>2. CASE k = 0 BY <1>1, <2>1, <2>2
  <2>3. CASE k # 0
    <3>1. k \in 1..n /\ (k + 1) - 1 = k /\ k + 1 # 1 BY <2>1, <2>3
    <3>2. g[k] = h[k] BY <1>3, <3>1
    <3>3. QED BY <1>1, <2>1, <3>1, <3>2
  <2>4. QED BY <2>2, <2>3
<1>4. Nat \subseteq S
  <2> HIDE DEF S
  <2>1. QED BY <1>2, <1>3, Induction
<1>5. QED BY <1>4

(* Nothing joined is nothing; and one sequence more is put behind.         *)
LEMMA FlattenNone ==
    ASSUME NEW ss, ss = << >>
    PROVE  FlattenSeq(ss) = << >>
BY DEF FlattenSeq

LEMMA FlattenAppend ==
    ASSUME NEW T, NEW ss \in Seq(Seq(T)), NEW x \in Seq(T)
    PROVE  FlattenSeq(ss \o <<x>>) = FlattenSeq(ss) \o x
<1> DEFINE n == Len(ss)  tt == ss \o <<x>>
<1>0. <<x>> \in Seq(Seq(T)) /\ Len(<<x>>) = 1 /\ <<x>>[1] = x OBVIOUS
<1>1. /\ n \in Nat /\ Len(tt) = n + 1 /\ tt \in Seq(Seq(T))
      /\ \A i \in 1..n : tt[i] = ss[i]
      /\ tt[n + 1] = x
  <2>1. /\ tt \in Seq(Seq(T)) /\ Len(tt) = n + 1 /\ n \in Nat
        /\ \A i \in 1..(n + 1) : tt[i] = IF i <= n THEN ss[i] ELSE <<x>>[i - n]
    BY <1>0, ConcatProperties, LenProperties
  <2>2. n + 1 \in 1..(n + 1) /\ ~(n + 1 <= n) /\ (n + 1) - n = 1 BY <2>1
  <2>3. tt[n + 1] = x BY <1>0, <2>1, <2>2
  <2>4. \A i \in 1..n : tt[i] = ss[i] BY <2>1
  <2>5. QED BY <2>1, <2>3, <2>4
<1> HIDE DEF n, tt
<1>2. PICK g : IsJoin(g, tt, n + 1) /\ FlattenSeq(tt) = g[n + 1]
  <2>1. Len(tt) \in Nat \ {0} BY <1>1
  <2>2. \E g : IsJoin(g, tt, Len(tt)) /\ FlattenSeq(tt) = g[Len(tt)] BY <2>1, FlattenIsJoin
  <2>3. QED BY <1>1, <2>2
<1>3. \A i \in 1..(n + 1) : g[i] = IF i = 1 THEN tt[i] ELSE g[i - 1] \o tt[i] BY <1>2 DEF IsJoin
<1>4. CASE n = 0
  <2>1. ss = << >> BY <1>4, EmptySeq DEF n
  <2>2. FlattenSeq(ss) = << >> BY <2>1, FlattenNone
  <2>3. g[1] = x BY <1>1, <1>3, <1>4
  <2>4. << >> \o x = x BY ConcatEmptySeq
  <2>5. QED BY <1>2, <1>4, <2>2, <2>3, <2>4 DEF tt
<1>5. CASE n # 0
  <2>1. PICK h : IsJoin(h, ss, n) /\ FlattenSeq(ss) = h[n] BY <1>1, <1>5, FlattenIsJoin DEF n
  <2> DEFINE c == [i \in 1..n |-> g[i]]
             Step(f, i) == IF i = 1 THEN ss[i] ELSE f[i - 1] \o ss[i]
  <2>2. \A i \in 1..n : c[i] = Step(c, i)
    <3>1. TAKE i \in 1..n
    <3>2. i \in 1..(n + 1) /\ (i # 1 => i - 1 \in 1..n) BY <1>1
    <3>3. c[i] = g[i] /\ (i # 1 => c[i - 1] = g[i - 1]) BY <3>2
    <3>4. tt[i] = ss[i] BY <1>1
    <3>5. QED BY <1>3, <3>2, <3>3, <3>4
  <2>3. c = [i \in 1..n |-> c[i]] OBVIOUS
  <2> HIDE DEF c
  <2>4. c = [i \in 1..n |-> Step(c, i)] BY <2>2, <2>3
  <2>5. IsJoin(c, ss, n) BY <2>4 DEF IsJoin
  <2>6. n \in 1..n BY <1>1, <1>5
  <2>7. c[n] = h[n] BY <1>1, <2>1, <2>5, <2>6, JoinUnique
  <2>8. g[n] = FlattenSeq(ss) BY <2>1, <2>6, <2>7 DEF c
  <2>9. g[n + 1] = g[n] \o x
    <3>1. n + 1 \in 1..(n + 1) /\ n + 1 # 1 /\ (n + 1) - 1 = n BY <1>1, <1>5
    <3>2. QED BY <1>1, <1>3, <3>1
  <2>10. QED BY <1>2, <2>8, <2>9 DEF tt
<1>6. QED BY <1>4, <1>5

(* A set that has the empty sequence, and with a sequence each that is one *)
(* element longer, has all sequences.                                      *)
LEMMA SeqInduction ==
    ASSUME NEW A, NEW S, << >> \in S,
           \A s \in Seq(A) : \A x \in A : s \in S => s \o <<x>> \in S
    PROVE  Seq(A) \subseteq S
<1> DEFINE N == {n \in Nat : \A s \in Seq(A) : Len(s) = n => s \in S}
<1>1. 0 \in N
  <2>1. \A s \in Seq(A) : Len(s) = 0 => s = << >> BY EmptySeq
  <2>2. QED BY <2>1
<1>2. ASSUME NEW n \in Nat, n \in N PROVE n + 1 \in N
  <2>1. SUFFICES ASSUME NEW s \in Seq(A), Len(s) = n + 1 PROVE s \in S OBVIOUS
  <2> DEFINE r == SubSeq(s, 1, n)
  <2>2. r \in Seq(A) /\ Len(r) = n /\ \A i \in 1..n : r[i] = s[i]
    BY <2>1, SubSeqProperties
  <2>3. s[n + 1] \in A BY <2>1, ElementOfSeq
  <2>4. s = r \o <<s[n + 1]>>
    <3>1. s = SubSeq(s, 1, n + 1) BY <2>1, SubSeqFull
    <3>2. SubSeq(s, 1, n + 1) = Append(SubSeq(s, 1, (n + 1) - 1), s[n + 1])
      <4>1. n + 1 \in 1..Len(s) /\ 1 \in 1..(n + 1) BY <2>1
      <4>2. QED BY <2>1, <4>1, SubSeqRecursiveSecond
    <3>3. Append(r, s[n + 1]) = r \o <<s[n + 1]>> BY <2>2, <2>3, AppendIsConcat
    <3>4. (n + 1) - 1 = n OBVIOUS
    <3>5. QED BY <3>1, <3>2, <3>3, <3>4
  <2>5. r \in S BY <1>2, <2>2
  <2> HIDE DEF r
  <2>6. r \o <<s[n + 1]>> \in S BY <2>2, <2>3, <2>5
  <2>7. QED BY <2>4, <2>6
<1>3. Nat \subseteq N
  <2> HIDE DEF N
  <2>1. QED BY <1>1, <1>2, Induction
<1>4. \A s \in Seq(A) : Len(s) \in N BY <1>3, LenProperties
<1>5. QED BY <1>4

(* What is joined is a sequence, and two joined parts are one.             *)
LEMMA FlattenIsSeq ==
    ASSUME NEW T, NEW ss \in Seq(Seq(T))
    PROVE  FlattenSeq(ss) \in Seq(T)
<1> DEFINE S == {r \in Seq(Seq(T)) : FlattenSeq(r) \in Seq(T)}
<1>1. << >> \in S
  <2>1. << >> \in Seq(Seq(T)) /\ << >> \in Seq(T) BY EmptySeq
  <2>2. FlattenSeq(<< >>) = << >> BY FlattenNone
  <2>3. QED BY <2>1, <2>2
<1>2. \A s \in Seq(Seq(T)) : \A x \in Seq(T) : s \in S => s \o <<x>> \in S
  <2>0. SUFFICES ASSUME NEW s \in Seq(Seq(T)), NEW x \in Seq(T), s \in S
                 PROVE  s \o <<x>> \in S
    OBVIOUS
  <2>1. FlattenSeq(s \o <<x>>) = FlattenSeq(s) \o x BY FlattenAppend
  <2>2. FlattenSeq(s) \in Seq(T) BY <2>0
  <2>3. FlattenSeq(s) \o x \in Seq(T) BY <2>2, ConcatProperties
  <2>4. <<x>> \in Seq(Seq(T)) OBVIOUS
  <2>5. s \o <<x>> \in Seq(Seq(T)) BY <2>4, ConcatProperties
  <2>6. QED BY <2>1, <2>3, <2>5
<1>3. Seq(Seq(T)) \subseteq S
  <2> HIDE DEF S
  <2>1. QED BY <1>1, <1>2, SeqInduction
<1>4. QED BY <1>3

LEMMA FlattenConcat ==
    ASSUME NEW T, NEW ss \in Seq(Seq(T)), NEW tt \in Seq(Seq(T))
    PROVE  FlattenSeq(ss \o tt) = FlattenSeq(ss) \o FlattenSeq(tt)
<1> DEFINE S == {r \in Seq(Seq(T)) : FlattenSeq(ss \o r) = FlattenSeq(ss) \o FlattenSeq(r)}
<1>1. << >> \in S
  <2>1. << >> \in Seq(Seq(T)) BY EmptySeq
  <2>2. FlattenSeq(<< >>) = << >> BY FlattenNone
  <2>3. ss \o << >> = ss BY ConcatEmptySeq
  <2>4. FlattenSeq(ss) \o << >> = FlattenSeq(ss) BY FlattenIsSeq, ConcatEmptySeq
  <2>5. QED BY <2>1, <2>2, <2>3, <2>4
<1> HIDE DEF S
<1>2. \A t \in Seq(Seq(T)) : \A x \in Seq(T) : t \in S => t \o <<x>> \in S
  <2>0. SUFFICES ASSUME NEW t \in Seq(Seq(T)), NEW x \in Seq(T), t \in S
                 PROVE  t \o <<x>> \in S
    OBVIOUS
  <2>1. <<x>> \in Seq(Seq(T)) OBVIOUS
  <2>2. ss \o t \in Seq(Seq(T)) /\ t \o <<x>> \in Seq(Seq(T)) BY <2>1, ConcatProperties
  <2>3. ss \o (t \o <<x>>) = (ss \o t) \o <<x>> BY <2>1, ConcatAssociative
  <2>4. FlattenSeq((ss \o t) \o <<x>>) = FlattenSeq(ss \o t) \o x BY <2>2, FlattenAppend
  <2>5. FlattenSeq(t \o <<x>>) = FlattenSeq(t) \o x BY FlattenAppend
  <2>6. FlattenSeq(ss \o t) = FlattenSeq(ss) \o FlattenSeq(t) BY <2>0 DEF S
  <2>7. FlattenSeq(ss) \in Seq(T) /\ FlattenSeq(t) \in Seq(T) BY FlattenIsSeq
  <2>8. (FlattenSeq(ss) \o FlattenSeq(t)) \o x = FlattenSeq(ss) \o (FlattenSeq(t) \o x)
    BY <2>7, ConcatAssociative
  <2>9. FlattenSeq(ss \o (t \o <<x>>)) = FlattenSeq(ss) \o FlattenSeq(t \o <<x>>)
    BY <2>3, <2>4, <2>5, <2>6, <2>8
  <2>10. QED BY <2>2, <2>9 DEF S
<1>3. Seq(Seq(T)) \subseteq S BY <1>1, <1>2, SeqInduction
<1>4. QED BY <1>3 DEF S

(* ends says where each of the sequences ss begins when they are joined.   *)
Begins(ends, ss) ==
    ends[1] = 0 /\ \A k \in 1..Len(ss) : ends[k + 1] = ends[k] + Len(ss[k])

(* The sequences ss stand in s, one behind the other, and nothing else.    *)
IsLaid(s, ends, ss) ==
    Len(s) = ends[Len(ss) + 1] /\ \A k \in 1..Len(ss) : At(s, ends[k], ss[k])

(* What is joined is found where the lengths before it say.                *)
LEMMA FlattenIsLaid ==
    ASSUME NEW T, NEW ss \in Seq(Seq(T)), NEW ends, Begins(ends, ss)
    PROVE  FlattenSeq(ss) \in Seq(T) /\ IsLaid(FlattenSeq(ss), ends, ss)
<1> DEFINE P(r) == Begins(ends, r) => IsLaid(FlattenSeq(r), ends, r)
           S == {r \in Seq(Seq(T)) : P(r)}
<1>1. << >> \in S
  <2>1. << >> \in Seq(Seq(T)) /\ Len(<< >>) = 0 BY EmptySeq
  <2>2. FlattenSeq(<< >>) = << >> BY FlattenNone
  <2>3. P(<< >>) BY <2>1, <2>2 DEF Begins, IsLaid
  <2>4. QED BY <2>1, <2>3
<1>2. \A s \in Seq(Seq(T)) : \A x \in Seq(T) : s \in S => s \o <<x>> \in S
  <2>0. SUFFICES ASSUME NEW s \in Seq(Seq(T)), NEW x \in Seq(T), s \in S
                 PROVE  s \o <<x>> \in S
    OBVIOUS
  <2> DEFINE n == Len(s)  t == s \o <<x>>  f == FlattenSeq(s)
  <2>1. /\ n \in Nat /\ t \in Seq(Seq(T)) /\ Len(t) = n + 1
        /\ \A i \in 1..n : t[i] = s[i]
        /\ t[n + 1] = x
    <3>1. <<x>> \in Seq(Seq(T)) /\ Len(<<x>>) = 1 /\ <<x>>[1] = x OBVIOUS
    <3>2. /\ t \in Seq(Seq(T)) /\ Len(t) = n + 1 /\ n \in Nat
          /\ \A i \in 1..(n + 1) : t[i] = IF i <= n THEN s[i] ELSE <<x>>[i - n]
      BY <3>1, ConcatProperties, LenProperties
    <3>3. n + 1 \in 1..(n + 1) /\ ~(n + 1 <= n) /\ (n + 1) - n = 1 BY <3>2
    <3>4. t[n + 1] = x BY <3>1, <3>2, <3>3
    <3>5. \A i \in 1..n : t[i] = s[i] BY <3>2
    <3>6. QED BY <3>2, <3>4, <3>5
  <2>2. FlattenSeq(t) = f \o x BY FlattenAppend
  <2>3. f \in Seq(T) BY FlattenIsSeq
  <2>4. /\ Len(f) \in Nat /\ Len(x) \in Nat /\ Len(f \o x) = Len(f) + Len(x)
        /\ \A j \in 1..Len(x) : (f \o x)[Len(f) + j] = x[j]
    <3>1. /\ Len(f) \in Nat /\ Len(x) \in Nat /\ Len(f \o x) = Len(f) + Len(x)
          /\ \A i \in 1..(Len(f) + Len(x)) :
                (f \o x)[i] = IF i <= Len(f) THEN f[i] ELSE x[i - Len(f)]
      BY <2>3, ConcatProperties, LenProperties
    <3>2. \A j \in 1..Len(x) : /\ Len(f) + j \in 1..(Len(f) + Len(x))
                               /\ ~(Len(f) + j <= Len(f)) /\ (Len(f) + j) - Len(f) = j
      BY <3>1
    <3>3. QED BY <3>1, <3>2
  <2> HIDE DEF n, t, f
  <2>5. ASSUME Begins(ends, t) PROVE IsLaid(f \o x, ends, t)
    <3>1. Begins(ends, s)
      <4>1. \A k \in 1..n : k \in 1..(n + 1) BY <2>1
      <4>2. QED BY <2>1, <2>5, <4>1 DEF Begins, n
    <3>2. IsLaid(f, ends, s) BY <2>0, <3>1 DEF f
    <3>3. Len(f) = ends[n + 1] BY <3>2 DEF IsLaid, n
    <3>4. ends[(n + 1) + 1] = ends[n + 1] + Len(x)
      <4>1. n + 1 \in 1..(n + 1) BY <2>1
      <4>2. QED BY <2>1, <2>5, <4>1 DEF Begins
    <3>5. Len(f \o x) = ends[Len(t) + 1] BY <2>1, <2>4, <3>3, <3>4
    <3>6. At(f \o x, ends[n + 1], t[n + 1])
      <4>1. At(f \o x, Len(f), x) BY <2>4 DEF At
      <4>2. QED BY <2>1, <3>3, <4>1
    <3>7. ASSUME NEW k \in 1..n PROVE At(f \o x, ends[k], t[k])
      <4>1. At(f, ends[k], s[k]) BY <3>2, <3>7 DEF IsLaid, n
      <4>2. s[k] \in Seq(T)
        <5>1. k \in 1..Len(s) BY DEF n
        <5>2. QED BY <5>1, ElementOfSeq
      <4>3. ends[k] \in Nat BY <4>1 DEF At
      <4>4. At(f \o x, ends[k], s[k]) BY <2>3, <4>1, <4>2, <4>3, AtConcat
      <4>5. QED BY <2>1, <4>4
    <3>8. \A k \in 1..(n + 1) : At(f \o x, ends[k], t[k])
      <4>1. \A k \in 1..(n + 1) : k = n + 1 \/ k \in 1..n BY <2>1
      <4>2. QED BY <3>6, <3>7, <4>1
    <3>9. QED BY <2>1, <3>5, <3>8 DEF IsLaid
  <2>6. P(t) BY <2>2, <2>5
  <2>7. QED BY <2>1, <2>6 DEF t
<1>3. Seq(Seq(T)) \subseteq S
  <2> HIDE DEF S
  <2>1. QED BY <1>1, <1>2, SeqInduction
<1>4. QED BY <1>3, FlattenIsSeq

-----------------------------------------------------------------------------
(* Numbers and their bytes.                                                *)

Byte == 0..(Radix - 1)

(* What division does, and what a quotient divided again is.               *)
LEMMA Division ==
    ASSUME NEW n \in Nat, NEW p \in Nat \ {0}
    PROVE  /\ n \div p \in Nat /\ n % p \in 0..(p - 1)
           /\ n = p * (n \div p) + (n % p)
<1>1. n \div p \in Nat OBVIOUS
<1>2. n % p \in 0..(p - 1) OBVIOUS
<1>3. n = p * (n \div p) + (n % p) OBVIOUS
<1>4. QED BY <1>1, <1>2, <1>3

LEMMA ProductOrder ==
    ASSUME NEW a \in Nat, NEW b \in Nat, NEW c \in Nat, a <= b
    PROVE  c * a \in Nat /\ c * b \in Nat /\ c * a <= c * b
<1>1. PICK d \in Nat : b = a + d
  <2>1. b - a \in Nat /\ b = a + (b - a) OBVIOUS
  <2>2. QED BY <2>1
<1>2. c * b = c * a + c * d BY <1>1
<1>3. c * d \in Nat /\ c * a \in Nat OBVIOUS
<1>4. QED BY <1>2, <1>3

LEMMA Quotient ==
    ASSUME NEW n \in Nat, NEW p \in Nat \ {0}, NEW q \in Nat, NEW r \in 0..(p - 1),
           n = p * q + r
    PROVE  n \div p = q
<1> DEFINE c == n \div p  d == n % p
<1>1. c \in Nat /\ d \in 0..(p - 1) /\ n = p * c + d BY Division
<1> HIDE DEF c, d
<1>2. ~(c < q)
  <2>1. SUFFICES ASSUME c < q PROVE FALSE OBVIOUS
  <2>2. p * (c + 1) <= p * q BY <1>1, <2>1, ProductOrder
  <2>3. p * (c + 1) = p * c + p BY <1>1
  <2>4. p * c \in Nat /\ p * q \in Nat BY <1>1
  <2>5. QED BY <1>1, <2>2, <2>3, <2>4
<1>3. ~(q < c)
  <2>1. SUFFICES ASSUME q < c PROVE FALSE OBVIOUS
  <2>2. p * (q + 1) <= p * c BY <1>1, <2>1, ProductOrder
  <2>3. p * (q + 1) = p * q + p OBVIOUS
  <2>4. p * c \in Nat /\ p * q \in Nat BY <1>1
  <2>5. QED BY <1>1, <2>2, <2>3, <2>4
<1>4. QED BY <1>1, <1>2, <1>3 DEF c

LEMMA DivideTwice ==
    ASSUME NEW n \in Nat, NEW p \in Nat \ {0}, NEW r \in Nat \ {0}
    PROVE  n \div p = r * (n \div (r * p)) + ((n \div p) % r)
<1> DEFINE q == n \div p  u == n % p  s == q \div r  t == q % r
<1>1. q \in Nat /\ u \in 0..(p - 1) /\ n = p * q + u BY Division
<1> HIDE DEF q, u
<1>2. s \in Nat /\ t \in 0..(r - 1) /\ q = r * s + t BY <1>1, Division
<1> HIDE DEF s, t
<1>3. r * p \in Nat \ {0}
  <2>1. r * 1 <= r * p /\ r * p \in Nat BY ProductOrder
  <2>2. r * 1 = r OBVIOUS
  <2>3. QED BY <2>1, <2>2
<1>4. p * t + u \in 0..(r * p - 1)
  <2>1. p * (t + 1) <= p * r BY <1>2, ProductOrder
  <2>2. p * (t + 1) = p * t + p /\ p * t \in Nat BY <1>2
  <2>3. p * r = r * p OBVIOUS
  <2>4. QED BY <1>1, <2>1, <2>2, <2>3
<1>5. n = (r * p) * s + (p * t + u)
  <2>1. p * q = p * (r * s) + p * t
    <3>1. r * s \in Nat /\ t \in Nat BY <1>2
    <3>2. p * (r * s + t) = p * (r * s) + p * t BY <3>1
    <3>3. QED BY <1>2, <3>2
  <2>2. p * (r * s) = (r * p) * s BY <1>2
  <2>3. (r * p) * s \in Nat /\ p * t \in Nat BY <1>2
  <2>4. n = ((r * p) * s + p * t) + u BY <1>1, <2>1, <2>2
  <2>5. QED BY <1>1, <2>3, <2>4
<1>6. n \div (r * p) = s
  <2> DEFINE rp == r * p  d == p * t + u
  <2>1. rp \in Nat \ {0} /\ d \in 0..(rp - 1) /\ n = rp * s + d BY <1>3, <1>4, <1>5
  <2> HIDE DEF rp, d
  <2>2. n \div rp = s BY <1>2, <2>1, Quotient
  <2>3. QED BY <2>2 DEF rp
<1>7. q = r * (n \div (r * p)) + (q % r)
  <2>1. q = r * s + (q % r) BY <1>2 DEF t
  <2>2. QED BY <1>6, <2>1
<1>8. QED BY <1>7 DEF q

(* The powers of the radix and the number of bytes are what their          *)
(* recursions say.                                                         *)
IsPower(g, n) == g = [k \in 0..n |-> IF k = 0 THEN 1 ELSE Radix * g[k - 1]]

LEMMA PowerExists ==
    \A n \in Nat : \E g : IsPower(g, n)
<1> DEFINE S == {n \in Nat : \E g : IsPower(g, n)}
<1>1. 0 \in S
  <2>1. IsPower([k \in 0..0 |-> 1], 0) BY DEF IsPower
  <2>2. QED BY <2>1
<1>2. ASSUME NEW n \in Nat, n \in S PROVE n + 1 \in S
  <2>1. PICK g : IsPower(g, n) BY <1>2
  <2> DEFINE Step(f, k) == IF k = 0 THEN 1 ELSE Radix * f[k - 1]
             h == [k \in 0..(n + 1) |-> IF k <= n THEN g[k] ELSE Step(g, k)]
  <2>2. \A k \in 0..n : g[k] = Step(g, k) BY <2>1 DEF IsPower
  <2>3. \A k \in 0..(n + 1) : k # 0 => h[k - 1] = g[k - 1] OBVIOUS
  <2>4. \A k \in 0..(n + 1) : h[k] = Step(g, k) BY <2>2
  <2>5. \A k \in 0..(n + 1) : Step(g, k) = Step(h, k) BY <2>3
  <2>6. h = [k \in 0..(n + 1) |-> h[k]] OBVIOUS
  <2> HIDE DEF h
  <2>7. h = [k \in 0..(n + 1) |-> Step(h, k)] BY <2>4, <2>5, <2>6
  <2>8. IsPower(h, n + 1) BY <2>7 DEF IsPower
  <2>9. QED BY <2>8
<1>3. Nat \subseteq S
  <2> HIDE DEF S
  <2>1. QED BY <1>1, <1>2, Induction
<1>4. QED BY <1>3

LEMMA Powers ==
    /\ Power[0] = 1
    /\ \A k \in 1..Word : Power[k] = Radix * Power[k - 1]
    /\ \A k \in 0..Word : Power[k] \in Nat \ {0}
<1>1. Word \in Nat /\ Radix \in Nat \ {0} BY SizesAssumption
<1>2. IsPower(Power, Word)
  <2>1. \E g : IsPower(g, Word) BY <1>1, PowerExists
  <2>2. Power = CHOOSE g : IsPower(g, Word) BY Zenon DEF Power, IsPower
  <2>3. QED BY <2>1, <2>2
<1>3. \A k \in 0..Word : Power[k] = IF k = 0 THEN 1 ELSE Radix * Power[k - 1]
  BY <1>2 DEF IsPower
<1> HIDE DEF Power
<1>4. Power[0] = 1 BY <1>1, <1>3
<1>5. \A k \in 1..Word : Power[k] = Radix * Power[k - 1]
  <2>1. \A k \in 1..Word : k \in 0..Word /\ k # 0 BY <1>1
  <2>2. QED BY <1>3, <2>1
<1> DEFINE S == {k \in Nat : k \in 0..Word => Power[k] \in Nat \ {0}}
<1>6. 0 \in S BY <1>4
<1>7. ASSUME NEW k \in Nat, k \in S PROVE k + 1 \in S
  <2>1. SUFFICES ASSUME k + 1 \in 0..Word PROVE Power[k + 1] \in Nat \ {0} OBVIOUS
  <2>2. k \in 0..Word /\ k + 1 \in 1..Word /\ (k + 1) - 1 = k BY <1>1, <2>1
  <2>3. Power[k + 1] = Radix * Power[k] BY <1>5, <2>2
  <2>4. Power[k] \in Nat \ {0} BY <1>7, <2>2
  <2> DEFINE q == Power[k]
  <2>5. q \in Nat \ {0} BY <2>4
  <2> HIDE DEF q
  <2>6. Radix * 1 <= Radix * q /\ Radix * q \in Nat BY <1>1, <2>5, ProductOrder
  <2>7. Radix * q \in Nat \ {0} BY <1>1, <2>6
  <2>8. QED BY <2>3, <2>7 DEF q
<1>8. Nat \subseteq S
  <2> HIDE DEF S
  <2>1. QED BY <1>6, <1>7, Induction
<1>9. QED BY <1>4, <1>5, <1>8

IsNumber(g, bytes, n) ==
    g = [k \in 0..n |-> IF k = 0 THEN 0 ELSE Radix * g[k - 1] + bytes[k]]

LEMMA NumberExists ==
    ASSUME NEW bytes
    PROVE  \A n \in Nat : \E g : IsNumber(g, bytes, n)
<1> DEFINE S == {n \in Nat : \E g : IsNumber(g, bytes, n)}
<1>1. 0 \in S
  <2>1. IsNumber([k \in 0..0 |-> 0], bytes, 0) BY DEF IsNumber
  <2>2. QED BY <2>1
<1>2. ASSUME NEW n \in Nat, n \in S PROVE n + 1 \in S
  <2>1. PICK g : IsNumber(g, bytes, n) BY <1>2
  <2> DEFINE Step(f, k) == IF k = 0 THEN 0 ELSE Radix * f[k - 1] + bytes[k]
             h == [k \in 0..(n + 1) |-> IF k <= n THEN g[k] ELSE Step(g, k)]
  <2>2. \A k \in 0..n : g[k] = Step(g, k) BY <2>1 DEF IsNumber
  <2>3. \A k \in 0..(n + 1) : k # 0 => h[k - 1] = g[k - 1] OBVIOUS
  <2>4. \A k \in 0..(n + 1) : h[k] = Step(g, k) BY <2>2
  <2>5. \A k \in 0..(n + 1) : Step(g, k) = Step(h, k) BY <2>3
  <2>6. h = [k \in 0..(n + 1) |-> h[k]] OBVIOUS
  <2> HIDE DEF h
  <2>7. h = [k \in 0..(n + 1) |-> Step(h, k)] BY <2>4, <2>5, <2>6
  <2>8. IsNumber(h, bytes, n + 1) BY <2>7 DEF IsNumber
  <2>9. QED BY <2>8
<1>3. Nat \subseteq S
  <2> HIDE DEF S
  <2>1. QED BY <1>1, <1>2, Induction
<1>4. QED BY <1>3

LEMMA NumberIsLast ==
    ASSUME NEW bytes, Len(bytes) \in Nat
    PROVE  \E g : /\ g[0] = 0
                  /\ \A k \in 1..Len(bytes) : g[k] = Radix * g[k - 1] + bytes[k]
                  /\ NumberOf(bytes) = g[Len(bytes)]
<1> DEFINE g == CHOOSE f : IsNumber(f, bytes, Len(bytes))
<1>1. IsNumber(g, bytes, Len(bytes)) BY NumberExists
<1>2. NumberOf(bytes) = g[Len(bytes)] BY Zenon DEF NumberOf, IsNumber
<1> HIDE DEF g
<1>3. \A k \in 0..Len(bytes) : g[k] = IF k = 0 THEN 0 ELSE Radix * g[k - 1] + bytes[k]
  BY <1>1 DEF IsNumber
<1>4. g[0] = 0 BY <1>3
<1>5. ASSUME NEW k \in 1..Len(bytes) PROVE g[k] = Radix * g[k - 1] + bytes[k]
  <2>1. k \in 0..Len(bytes) /\ k # 0 OBVIOUS
  <2>2. QED BY <1>3, <2>1
<1>6. QED BY <1>2, <1>4, <1>5

(* Bytes are the bytes of a number.                                        *)
LEMMA NumberIsNat ==
    ASSUME NEW bytes \in Seq(Byte)
    PROVE  NumberOf(bytes) \in Nat
<1>1. Len(bytes) \in Nat BY LenProperties
<1>2. PICK g : /\ g[0] = 0
               /\ \A k \in 1..Len(bytes) : g[k] = Radix * g[k - 1] + bytes[k]
               /\ NumberOf(bytes) = g[Len(bytes)]
  BY <1>1, NumberIsLast
<1> DEFINE S == {k \in Nat : k <= Len(bytes) => g[k] \in Nat}
<1>3. 0 \in S BY <1>2
<1>4. ASSUME NEW k \in Nat, k \in S PROVE k + 1 \in S
  <2>1. SUFFICES ASSUME k + 1 <= Len(bytes) PROVE g[k + 1] \in Nat OBVIOUS
  <2>2. k + 1 \in 1..Len(bytes) /\ (k + 1) - 1 = k /\ k <= Len(bytes) BY <1>1, <2>1
  <2>3. g[k + 1] = Radix * g[k] + bytes[k + 1] BY <1>2, <2>2
  <2>4. g[k] \in Nat BY <1>4, <2>2
  <2>5. bytes[k + 1] \in Nat
    <3>1. bytes[k + 1] \in Byte BY <2>2, ElementOfSeq
    <3>2. QED BY <3>1, SizesAssumption DEF Byte
  <2>6. Radix * g[k] \in Nat BY <2>4, SizesAssumption
  <2>7. QED BY <2>3, <2>5, <2>6
<1>5. Nat \subseteq S
  <2> HIDE DEF S
  <2>1. QED BY <1>3, <1>4, Induction
<1>6. QED BY <1>1, <1>2, <1>5

(* A number is written in a word of bytes, and read back.                  *)
LEMMA Uint256IsWord ==
    ASSUME NEW n \in Nat
    PROVE  /\ Uint256(n) \in Seq(Byte) /\ Len(Uint256(n)) = Word
           /\ \A i \in 1..Word : Uint256(n)[i] = (n \div Power[Word - i]) % Radix
<1>1. Word \in Nat /\ Radix \in Nat \ {0} BY SizesAssumption
<1>2. ASSUME NEW i \in 1..Word PROVE (n \div Power[Word - i]) % Radix \in Byte
  <2> DEFINE p == Power[Word - i]  q == n \div p
  <2>1. Word - i \in 0..Word BY <1>1
  <2>2. p \in Nat \ {0} BY <2>1, Powers
  <2> HIDE DEF p
  <2>3. q \in Nat BY <2>2, Division
  <2> HIDE DEF q
  <2>4. q % Radix \in Byte BY <1>1, <2>3, Division DEF Byte
  <2>5. QED BY <2>4 DEF p, q
<1> DEFINE w == [i \in 1..Word |-> (n \div Power[Word - i]) % Radix]
<1>3. w \in [1..Word -> Byte] BY <1>2
<1>4. \A i \in 1..Word : w[i] = (n \div Power[Word - i]) % Radix OBVIOUS
<1> HIDE DEF w
<1>5. w \in Seq(Byte) /\ Len(w) = Word BY <1>1, <1>3
<1>6. Uint256(n) = w BY DEF Uint256, w
<1>7. QED BY <1>4, <1>5, <1>6

LEMMA NumberOfUint256 ==
    ASSUME NEW n \in Nat, Writable(n)
    PROVE  NumberOf(Uint256(n)) = n
<1> DEFINE w == Uint256(n)
<1>1. /\ Word \in Nat /\ Radix \in Nat \ {0} /\ Len(w) = Word
      /\ \A i \in 1..Word : w[i] = (n \div Power[Word - i]) % Radix
  BY SizesAssumption, Uint256IsWord
<1> HIDE DEF w
<1>2. PICK g : /\ g[0] = 0
               /\ \A k \in 1..Word : g[k] = Radix * g[k - 1] + w[k]
               /\ NumberOf(w) = g[Word]
  <2>1. Len(w) \in Nat BY <1>1
  <2>2. \E g : /\ g[0] = 0
               /\ \A k \in 1..Len(w) : g[k] = Radix * g[k - 1] + w[k]
               /\ NumberOf(w) = g[Len(w)]
    BY <2>1, NumberIsLast
  <2>3. QED BY <1>1, <2>2
<1> DEFINE S == {k \in Nat : k <= Word => g[k] = n \div Power[Word - k]}
<1>3. 0 \in S
  <2> DEFINE p == Power[Word]
  <2>1. p \in Nat \ {0} /\ n < p
    <3>1. Word \in 0..Word BY <1>1
    <3>2. QED BY <3>1, Powers DEF Writable
  <2> HIDE DEF p
  <2>2. n = p * 0 + n /\ n \in 0..(p - 1) BY <2>1
  <2>3. n \div p = 0 BY <2>1, <2>2, Quotient
  <2>4. Word - 0 = Word BY <1>1
  <2>5. QED BY <1>2, <2>3, <2>4 DEF p
<1>4. ASSUME NEW k \in Nat, k \in S PROVE k + 1 \in S
  <2>1. SUFFICES ASSUME k + 1 <= Word PROVE g[k + 1] = n \div Power[Word - (k + 1)] OBVIOUS
  <2> DEFINE i == Word - (k + 1)  p == Power[i]
  <2>2. /\ k + 1 \in 1..Word /\ (k + 1) - 1 = k /\ k <= Word
        /\ Word - k \in 1..Word /\ (Word - k) - 1 = i /\ i \in 0..Word
    BY <1>1, <2>1
  <2>3. p \in Nat \ {0} BY <2>2, Powers
  <2>4. Power[Word - k] = Radix * p BY <2>2, Powers
  <2>5. g[k] = n \div (Radix * p) BY <1>4, <2>2, <2>4
  <2>6. w[k + 1] = (n \div p) % Radix BY <1>1, <2>2
  <2>7. g[k + 1] = Radix * g[k] + w[k + 1] BY <1>2, <2>2
  <2> HIDE DEF p
  <2>8. n \div p = Radix * (n \div (Radix * p)) + ((n \div p) % Radix)
    BY <1>1, <2>3, DivideTwice
  <2>9. g[k + 1] = n \div p BY <2>5, <2>6, <2>7, <2>8
  <2>10. QED BY <2>9 DEF p
<1>5. Nat \subseteq S
  <2> HIDE DEF S
  <2>1. QED BY <1>3, <1>4, Induction
<1>6. g[Word] = n \div Power[Word - Word] BY <1>1, <1>5
<1>7. Power[Word - Word] = 1
  <2>1. Word - Word = 0 BY <1>1
  <2>2. QED BY <2>1, Powers
<1>8. n \div 1 = n
  <2>1. n = 1 * n + 0 /\ 0 \in 0..(1 - 1) OBVIOUS
  <2>2. 1 \in Nat \ {0} OBVIOUS
  <2>3. QED BY <2>1, <2>2, Quotient
<1>9. NumberOf(w) = n BY <1>2, <1>6, <1>7, <1>8
<1>10. QED BY <1>9 DEF w

-----------------------------------------------------------------------------
(* The readers.                                                            *)

(* Where a block stands it is read; and a block that goes past the end is  *)
(* refused.                                                                *)
LEMMA ReadIs ==
    ASSUME NEW d \in Seq(Byte), NEW o \in Nat, NEW n \in Nat
    PROVE  /\ o + n > Len(d) => Read(d, o, n) = Refused
           /\ o + n <= Len(d) =>
                 /\ Read(d, o, n) = << SubSeq(d, o + 1, o + n) >>
                 /\ SubSeq(d, o + 1, o + n) \in Seq(Byte)
                 /\ Len(SubSeq(d, o + 1, o + n)) = n
                 /\ \A i \in 1..n : SubSeq(d, o + 1, o + n)[i] = d[o + i]
<1>1. Len(d) \in Nat BY LenProperties
<1>2. CASE o + n > Len(d) BY <1>1, <1>2 DEF Read
<1>3. CASE o + n <= Len(d)
  <2>1. Read(d, o, n) = << SubSeq(d, o + 1, o + n) >> BY <1>1, <1>3 DEF Read
  <2>2. /\ SubSeq(d, o + 1, o + n) \in Seq(Byte)
        /\ Len(SubSeq(d, o + 1, o + n)) = n
        /\ \A i \in 1..n : SubSeq(d, o + 1, o + n)[i] = d[o + i]
    <3>1. \A i \in (o + 1)..(o + n) : d[i] \in Byte
      <4>1. \A i \in (o + 1)..(o + n) : i \in 1..Len(d) BY <1>1, <1>3
      <4>2. QED BY <4>1, ElementOfSeq
    <3>2. o + 1 \in Int /\ o + n \in Int OBVIOUS
    <3> DEFINE s == SubSeq(d, o + 1, o + n)
    <3>3. /\ s \in Seq(Byte)
          /\ Len(s) = IF o + 1 <= o + n THEN (o + n) - (o + 1) + 1 ELSE 0
          /\ \A i \in 1..((o + n) - (o + 1) + 1) : s[i] = d[(o + 1) + i - 1]
      BY <3>1, <3>2, SubSeqProperties
    <3> HIDE DEF s
    <3>4. (o + n) - (o + 1) + 1 = n /\ \A i \in 1..n : (o + 1) + i - 1 = o + i OBVIOUS
    <3>5. Len(s) = n BY <3>3
    <3>6. \A i \in 1..n : s[i] = d[o + i] BY <3>3, <3>4
    <3>7. QED BY <3>3, <3>5, <3>6 DEF s
  <2>3. ~(o + n > Len(d))
    <3> DEFINE l == Len(d)
    <3>1. l \in Nat /\ o + n <= l BY <1>1, <1>3
    <3> HIDE DEF l
    <3>2. ~(o + n > l) BY <3>1
    <3>3. QED BY <3>2 DEF l
  <2>4. QED BY <2>1, <2>2, <2>3, Zenon
<1>4. ~(o + n > Len(d)) => o + n <= Len(d) BY <1>1
<1>5. QED BY <1>2, <1>3, <1>4

LEMMA ReadBlock ==
    ASSUME NEW d \in Seq(Byte), NEW o, NEW b \in Seq(Byte), At(d, o, b)
    PROVE  Read(d, o, Len(b)) = << b >>
<1> DEFINE n == Len(b)  s == SubSeq(d, o + 1, o + n)
<1>1. o \in Nat /\ n \in Nat /\ o + n <= Len(d) /\ \A j \in 1..n : d[o + j] = b[j]
  BY LenProperties DEF At
<1>2. Read(d, o, n) = << s >> /\ s \in Seq(Byte) /\ Len(s) = n /\ \A i \in 1..n : s[i] = d[o + i]
  <2> HIDE DEF n
  <2>1. Len(d) \in Nat BY LenProperties
  <2>2. QED BY <1>1, <2>1, ReadIs
<1> HIDE DEF s
<1>3. s = b BY <1>1, <1>2, SeqEqual
<1>4. QED BY <1>2, <1>3

LEMMA WordIs ==
    ASSUME NEW d \in Seq(Byte), NEW o \in Nat
    PROVE  /\ o + Word > Len(d) => readUint256(d, o) = Refused
           /\ o + Word <= Len(d) =>
                 \E n \in Nat : /\ readUint256(d, o) = << n >>
                                /\ readSize(d, o) = IF n > MaxSafeInteger THEN Refused ELSE << n >>
           /\ o + Word > Len(d) => readSize(d, o) = Refused
<1>1. Word \in Nat /\ Len(d) \in Nat BY SizesAssumption, LenProperties
<1>2. CASE o + Word > Len(d)
  <2>1. Read(d, o, Word) = Refused BY <1>1, <1>2, ReadIs
  <2>2. readUint256(d, o) = Refused BY <2>1 DEF readUint256, Then
  <2>3. readSize(d, o) = Refused BY <2>2 DEF readSize, Then
  <2>4. QED BY <1>1, <1>2, <2>2, <2>3
<1>3. CASE o + Word <= Len(d)
  <2> DEFINE s == SubSeq(d, o + 1, o + Word)  n == NumberOf(s)
  <2>1. Read(d, o, Word) = << s >> /\ s \in Seq(Byte) BY <1>1, <1>3, ReadIs
  <2> HIDE DEF s
  <2>2. n \in Nat BY <2>1, NumberIsNat
  <2>3. << s >> # Refused /\ << s >>[1] = s BY DEF Refused
  <2>4. readUint256(d, o) = << n >> BY <2>1, <2>3 DEF readUint256, Then
  <2> HIDE DEF n
  <2>5. << n >> # Refused /\ << n >>[1] = n BY DEF Refused
  <2>6. readSize(d, o) = IF n > MaxSafeInteger THEN Refused ELSE << n >>
    BY <2>4, <2>5 DEF readSize, Then
  <2>7. QED BY <1>1, <1>3, <2>2, <2>4, <2>6
<1>4. QED BY <1>1, <1>2, <1>3

(* All of what there is, and nothing if one is missing.                    *)
LEMMA AllGiven ==
    ASSUME NEW options, NEW values, NEW n \in Nat, values = [i \in 1..n |-> values[i]],
           DOMAIN options = 1..n, \A i \in 1..n : options[i] = << values[i] >>
    PROVE  All(options) = << values >>
<1>1. \A i \in 1..n : options[i] # Refused /\ options[i][1] = values[i]
  <2>1. \A v : << v >> # << >> /\ << v >>[1] = v OBVIOUS
  <2>2. QED BY <2>1 DEF Refused
<1>2. [i \in DOMAIN options |-> options[i][1]] = [i \in 1..n |-> values[i]] BY <1>1
<1>3. All(options) = << [i \in DOMAIN options |-> options[i][1]] >> BY <1>1 DEF All
<1>4. QED BY <1>2, <1>3

LEMMA AllRefused ==
    ASSUME NEW options, NEW i \in DOMAIN options, options[i] = Refused
    PROVE  All(options) = Refused
BY DEF All

(* A word is read as the number it was written for, if one fits.           *)
LEMMA WordAt ==
    ASSUME NEW d \in Seq(Byte), NEW o, NEW n \in Nat, Writable(n), At(d, o, Uint256(n))
    PROVE  /\ readUint256(d, o) = << n >>
           /\ n <= MaxSafeInteger => readSize(d, o) = << n >>
<1>1. o \in Nat BY DEF At
<1>2. Uint256(n) \in Seq(Byte) /\ Len(Uint256(n)) = Word BY Uint256IsWord
<1>3. Read(d, o, Word) = << Uint256(n) >>
  <2>1. Read(d, o, Len(Uint256(n))) = << Uint256(n) >> BY <1>2, ReadBlock
  <2>2. QED BY <1>2, <2>1
<1>4. \A v : << v >> # Refused /\ << v >>[1] = v BY DEF Refused
<1>5. readUint256(d, o) = << n >> BY <1>3, <1>4, NumberOfUint256 DEF readUint256, Then
<1>6. ASSUME n <= MaxSafeInteger PROVE readSize(d, o) = << n >>
  <2>1. ~(n > MaxSafeInteger) BY <1>6, SizesAssumption
  <2>2. QED BY <1>4, <1>5, <2>1 DEF readSize, Then
<1>7. QED BY <1>5, <1>6

(* Sizes fit in a word.                                                    *)
LEMMA SizeIsWritable ==
    ASSUME NEW n \in Nat, n <= MaxSafeInteger
    PROVE  Writable(n)
<1>1. Word \in 0..Word BY SizesAssumption
<1>2. Power[Word] \in Nat BY <1>1, Powers
<1>3. MaxSafeInteger \in 1..(Power[Word] - 1) BY SizesAssumption
<1>4. QED BY <1>2, <1>3 DEF Writable

(* An address stands at the right end of its word.                         *)
Address == [1..AddressSize -> Byte]

LEMMA AddressIsSeq ==
    ASSUME NEW a \in Address
    PROVE  a \in Seq(Byte) /\ Len(a) = AddressSize
<1>1. AddressSize \in Nat BY SizesAssumption
<1>2. QED BY <1>1 DEF Address

LEMMA ZerosAre ==
    ASSUME NEW n \in Nat
    PROVE  Zeros(n) \in Seq(Byte) /\ Len(Zeros(n)) = n
<1>1. 0 \in Byte BY SizesAssumption DEF Byte
<1>2. Zeros(n) \in [1..n -> Byte] BY <1>1 DEF Zeros
<1>3. QED BY <1>2

LEMMA AddressWordIs ==
    ASSUME NEW a \in Address
    PROVE  /\ AddressWord(a) \in Seq(Byte) /\ Len(AddressWord(a)) = Word
           /\ \A i \in 1..AddressSize : AddressWord(a)[(Word - AddressSize) + i] = a[i]
<1> DEFINE z == Zeros(Word - AddressSize)
<1>1. Word \in Nat /\ AddressSize \in Nat /\ Word - AddressSize \in Nat BY SizesAssumption
<1>2. z \in Seq(Byte) /\ Len(z) = Word - AddressSize BY <1>1, ZerosAre
<1>3. a \in Seq(Byte) /\ Len(a) = AddressSize BY AddressIsSeq
<1> HIDE DEF z
<1>4. /\ z \o a \in Seq(Byte) /\ Len(z \o a) = Len(z) + Len(a)
      /\ \A i \in 1..(Len(z) + Len(a)) :
            (z \o a)[i] = IF i <= Len(z) THEN z[i] ELSE a[i - Len(z)]
  BY <1>2, <1>3, ConcatProperties
<1>5. ASSUME NEW i \in 1..AddressSize PROVE (z \o a)[(Word - AddressSize) + i] = a[i]
  <2>1. /\ (Word - AddressSize) + i \in 1..(Len(z) + Len(a))
        /\ ~((Word - AddressSize) + i <= Len(z))
        /\ ((Word - AddressSize) + i) - Len(z) = i
    BY <1>1, <1>2, <1>3
  <2>2. QED BY <1>4, <2>1
<1>6. (Word - AddressSize) + AddressSize = Word BY <1>1
<1>7. AddressWord(a) = z \o a BY DEF AddressWord, z
<1>8. QED BY <1>2, <1>3, <1>4, <1>5, <1>6, <1>7

LEMMA AddressAt ==
    ASSUME NEW d \in Seq(Byte), NEW o, NEW a \in Address, At(d, o, AddressWord(a))
    PROVE  readAddressWord(d, o) = << a >>
<1> DEFINE p == o + (Word - AddressSize)
<1>1. o \in Nat /\ Word \in Nat /\ AddressSize \in Nat /\ Word - AddressSize \in Nat
  BY SizesAssumption DEF At
<1>2. At(d, p, a)
  <2>1. Len(a) = AddressSize BY AddressIsSeq
  <2>2. /\ Len(AddressWord(a)) = Word
        /\ \A i \in 1..AddressSize : AddressWord(a)[(Word - AddressSize) + i] = a[i]
    BY AddressWordIs
  <2>3. o + Word <= Len(d) /\ \A j \in 1..Word : d[o + j] = AddressWord(a)[j] BY <2>2 DEF At
  <2>4. p + AddressSize <= Len(d) /\ p \in Nat
    <3>1. p + AddressSize = o + Word BY <1>1
    <3>2. QED BY <1>1, <2>3, <3>1
  <2>5. ASSUME NEW i \in 1..AddressSize PROVE d[p + i] = a[i]
    <3>1. (Word - AddressSize) + i \in 1..Word /\ p + i = o + ((Word - AddressSize) + i) BY <1>1
    <3>2. QED BY <2>2, <2>3, <3>1
  <2>6. QED BY <2>1, <2>4, <2>5 DEF At
<1>3. a \in Seq(Byte) /\ Len(a) = AddressSize BY AddressIsSeq
<1> HIDE DEF p
<1>4. Read(d, p, Len(a)) = << a >> BY <1>2, <1>3, ReadBlock
<1>5. o + Word - AddressSize = p BY <1>1 DEF p
<1>6. QED BY <1>3, <1>4, <1>5 DEF readAddressWord, readAddress

(* Bytes with their length before them, found where a word at the pointer  *)
(* says, counted from base.                                                *)
HasBytes(d, base, pointer, v) ==
    \E offset \in 0..MaxSafeInteger :
        /\ At(d, pointer, Uint256(offset))
        /\ At(d, base + offset, Uint256(Len(v)))
        /\ At(d, base + offset + Word, v)

LEMMA BytesAt ==
    ASSUME NEW d \in Seq(Byte), NEW base \in Nat, NEW pointer, NEW v \in Seq(Byte),
           Len(v) <= MaxSafeInteger, HasBytes(d, base, pointer, v)
    PROVE  readAbiBytes(d, base, pointer) = << v >>
<1>1. PICK offset \in 0..MaxSafeInteger :
          /\ At(d, pointer, Uint256(offset))
          /\ At(d, base + offset, Uint256(Len(v)))
          /\ At(d, base + offset + Word, v)
  BY DEF HasBytes
<1>2. offset \in Nat /\ offset <= MaxSafeInteger /\ Len(v) \in Nat
  BY SizesAssumption, LenProperties
<1>3. readSize(d, pointer) = << offset >> BY <1>1, <1>2, SizeIsWritable, WordAt
<1>4. readSize(d, base + offset) = << Len(v) >>  BY <1>1, <1>2, SizeIsWritable, WordAt
<1>5. Read(d, base + offset + Word, Len(v)) = << v >> BY <1>1, ReadBlock
<1>6. \A x : << x >> # Refused /\ << x >>[1] = x BY DEF Refused
<1>7. QED BY <1>3, <1>4, <1>5, <1>6 DEF readAbiBytes, Then

(* A list of numbers, each in a word, likewise.                            *)
HasList(d, base, pointer, list) ==
    \E offset \in 0..MaxSafeInteger :
        /\ At(d, pointer, Uint256(offset))
        /\ At(d, base + offset, Uint256(Len(list)))
        /\ base + offset + Word * (1 + Len(list)) <= Len(d)
        /\ \A i \in 1..Len(list) : At(d, base + offset + Word * i, Uint256(list[i]))

LEMMA ListAt ==
    ASSUME NEW d \in Seq(Byte), NEW base \in Nat, NEW pointer, NEW list \in Seq(Nat),
           Len(list) <= MaxSafeInteger, \A i \in 1..Len(list) : Writable(list[i]),
           HasList(d, base, pointer, list)
    PROVE  readAbiUint256Array(d, base, pointer) = << list >>
<1> DEFINE n == Len(list)
<1>1. PICK offset \in 0..MaxSafeInteger :
          /\ At(d, pointer, Uint256(offset))
          /\ At(d, base + offset, Uint256(n))
          /\ base + offset + Word * (1 + n) <= Len(d)
          /\ \A i \in 1..n : At(d, base + offset + Word * i, Uint256(list[i]))
  BY DEF HasList
<1>2. /\ offset \in Nat /\ offset <= MaxSafeInteger /\ n \in Nat /\ n <= MaxSafeInteger
      /\ Word \in Nat /\ Len(d) \in Nat
      /\ \A i \in 1..n : list[i] \in Nat
      /\ list = [i \in 1..n |-> list[i]]
  BY SizesAssumption, LenProperties, ElementOfSeq
<1> HIDE DEF n
<1>3. readSize(d, pointer) = << offset >> BY <1>1, <1>2, SizeIsWritable, WordAt
<1>4. readSize(d, base + offset) = << n >> BY <1>1, <1>2, SizeIsWritable, WordAt
<1> DEFINE words == [i \in 1..n |-> readUint256(d, base + offset + Word * i)]
<1>5. \A i \in 1..n : words[i] = << list[i] >>
  <2>1. TAKE i \in 1..n
  <2>2. At(d, base + offset + Word * i, Uint256(list[i])) BY <1>1
  <2>3. list[i] \in Nat /\ Writable(list[i]) BY <1>2 DEF n
  <2>4. readUint256(d, base + offset + Word * i) = << list[i] >> BY <2>2, <2>3, WordAt
  <2>5. QED BY <2>4
<1>6. DOMAIN words = 1..n OBVIOUS
<1> HIDE DEF words
<1>7. All(words) = << list >> BY <1>2, <1>5, <1>6, AllGiven
<1>8. Word * (1 + n) \in Nat BY <1>2
<1>9. ~(base + offset + Word * (1 + n) > Len(d))
  <2> DEFINE size == Word * (1 + n)  end == base + offset + size
  <2>1. end \in Nat
    <3>1. size \in Nat BY <1>8
    <3> HIDE DEF size
    <3>2. QED BY <1>2, <3>1
  <2>2. end <= Len(d) BY <1>1
  <2> HIDE DEF end
  <2>3. ~(end > Len(d)) BY <1>2, <2>1, <2>2
  <2>4. QED BY <2>3 DEF end
<1>10. \A x : << x >> # Refused /\ << x >>[1] = x BY DEF Refused
<1>11. QED BY <1>3, <1>4, <1>7, <1>9, <1>10 DEF readAbiUint256Array, Then, words

(* The first m bytes of d are read as in d, or not at all.                 *)
LEMMA ReadOfPrefix ==
    ASSUME NEW d \in Seq(Byte), NEW m \in 0..Len(d), NEW o \in Nat, NEW n \in Nat
    PROVE  /\ SubSeq(d, 1, m) \in Seq(Byte) /\ Len(SubSeq(d, 1, m)) = m
           /\ \/ Read(SubSeq(d, 1, m), o, n) = Refused
              \/ Read(SubSeq(d, 1, m), o, n) = Read(d, o, n)
<1> DEFINE s == SubSeq(d, 1, m)
<1>1. Len(d) \in Nat /\ m \in Nat BY LenProperties
<1>2. s \in Seq(Byte) /\ Len(s) = m /\ \A i \in 1..m : s[i] = d[i]
  <2>1. /\ SubSeq(d, 0 + 1, 0 + m) \in Seq(Byte) /\ Len(SubSeq(d, 0 + 1, 0 + m)) = m
        /\ \A i \in 1..m : SubSeq(d, 0 + 1, 0 + m)[i] = d[0 + i]
    BY <1>1, ReadIs
  <2>2. 0 + 1 = 1 /\ 0 + m = m /\ \A i \in 1..m : 0 + i = i BY <1>1
  <2>3. QED BY <2>1, <2>2
<1> HIDE DEF s
<1>3. CASE o + n > m BY <1>1, <1>2, <1>3, ReadIs DEF s
<1>4. CASE o + n <= m
  <2> DEFINE b == SubSeq(s, o + 1, o + n)  c == SubSeq(d, o + 1, o + n)
  <2>1. Read(s, o, n) = << b >> /\ b \in Seq(Byte) /\ Len(b) = n /\ \A i \in 1..n : b[i] = s[o + i]
    BY <1>2, <1>4, ReadIs
  <2>2. Read(d, o, n) = << c >> /\ c \in Seq(Byte) /\ Len(c) = n /\ \A i \in 1..n : c[i] = d[o + i]
    <3>1. o + n <= Len(d) BY <1>1, <1>4
    <3>2. QED BY <3>1, ReadIs
  <2> HIDE DEF b, c
  <2>3. \A i \in 1..n : o + i \in 1..m BY <1>1, <1>4
  <2>4. \A i \in 1..n : b[i] = c[i] BY <1>2, <2>1, <2>2, <2>3
  <2>5. b = c BY <2>1, <2>2, <2>4, SeqEqual
  <2>6. QED BY <1>2, <2>1, <2>2, <2>5 DEF s
<1>5. QED BY <1>1, <1>3, <1>4

LEMMA SizeOfPrefix ==
    ASSUME NEW d \in Seq(Byte), NEW m \in 0..Len(d), NEW o \in Nat
    PROVE  \/ readSize(SubSeq(d, 1, m), o) = Refused
           \/ readSize(SubSeq(d, 1, m), o) = readSize(d, o)
<1>1. Word \in Nat BY SizesAssumption
<1>2. \/ Read(SubSeq(d, 1, m), o, Word) = Refused
      \/ Read(SubSeq(d, 1, m), o, Word) = Read(d, o, Word)
  BY <1>1, ReadOfPrefix
<1>3. QED BY <1>2 DEF readSize, readUint256, Then

(* If d lost some of the bytes they are not read.                          *)
LEMMA BytesMissing ==
    ASSUME NEW d \in Seq(Byte), NEW base \in Nat, NEW pointer \in Nat, NEW v \in Seq(Byte),
           NEW offset \in 0..MaxSafeInteger, Len(v) <= MaxSafeInteger,
           At(d, pointer, Uint256(offset)), At(d, base + offset, Uint256(Len(v))),
           NEW m \in 0..Len(d), m < base + offset + Word + Len(v)
    PROVE  readAbiBytes(SubSeq(d, 1, m), base, pointer) = Refused
<1> DEFINE s == SubSeq(d, 1, m)
<1>1. /\ offset \in Nat /\ offset <= MaxSafeInteger /\ Len(v) \in Nat /\ Word \in Nat
      /\ Len(d) \in Nat /\ m \in Nat
  BY SizesAssumption, LenProperties
<1>2. readSize(d, pointer) = << offset >> BY <1>1, SizeIsWritable, WordAt
<1>3. readSize(d, base + offset) = << Len(v) >>  BY <1>1, SizeIsWritable, WordAt
<1>4. readSize(s, pointer) \in {Refused, << offset >>} BY <1>2, SizeOfPrefix
<1>5. readSize(s, base + offset) \in {Refused, << Len(v) >>} BY <1>1, <1>3, SizeOfPrefix
<1>6. Read(s, base + offset + Word, Len(v)) = Refused
  <2>1. s \in Seq(Byte) /\ Len(s) = m BY <1>1, ReadOfPrefix
  <2> HIDE DEF s
  <2>2. QED BY <1>1, <2>1, ReadIs
<1> HIDE DEF s
<1>7. \A x : << x >> # Refused /\ << x >>[1] = x BY DEF Refused
<1>8. readAbiBytes(s, base, pointer) = Refused
  BY <1>4, <1>5, <1>6, <1>7 DEF readAbiBytes, Then
<1>9. QED BY <1>8 DEF s

(* What follows the first base bytes of d is read as in d.                 *)
LEMMA ReadOfRest ==
    ASSUME NEW d \in Seq(Byte), NEW base \in 0..Len(d), NEW o \in Nat, NEW n \in Nat
    PROVE  /\ sliceFrom(d, base) \in Seq(Byte) /\ Len(sliceFrom(d, base)) = Len(d) - base
           /\ Read(sliceFrom(d, base), o, n) = Read(d, base + o, n)
<1> DEFINE t == sliceFrom(d, base)  k == Len(d) - base
<1>1. Len(d) \in Nat /\ base \in Nat /\ k \in Nat /\ base + k = Len(d) BY LenProperties
<1>2. t \in Seq(Byte) /\ Len(t) = k /\ \A i \in 1..k : t[i] = d[base + i]
  <2> HIDE DEF k
  <2>1. /\ SubSeq(d, base + 1, base + k) \in Seq(Byte) /\ Len(SubSeq(d, base + 1, base + k)) = k
        /\ \A i \in 1..k : SubSeq(d, base + 1, base + k)[i] = d[base + i]
    <3>1. base + k <= Len(d) BY <1>1
    <3>2. QED BY <1>1, <3>1, ReadIs
  <2>2. t = SubSeq(d, base + 1, base + k) BY <1>1 DEF sliceFrom
  <2>3. QED BY <2>1, <2>2
<1> HIDE DEF t
<1>3. CASE o + n > k
  <2>1. base + o + n > Len(d) BY <1>1, <1>3
  <2>2. Read(d, base + o, n) = Refused BY <1>1, <2>1, ReadIs
  <2>3. Read(t, o, n) = Refused BY <1>2, <1>3, ReadIs
  <2>4. QED BY <1>2, <2>2, <2>3 DEF t
<1>4. CASE o + n <= k
  <2> DEFINE b == SubSeq(t, o + 1, o + n)  c == SubSeq(d, (base + o) + 1, (base + o) + n)
  <2>1. Read(t, o, n) = << b >> /\ b \in Seq(Byte) /\ Len(b) = n /\ \A i \in 1..n : b[i] = t[o + i]
    BY <1>2, <1>4, ReadIs
  <2>2. Read(d, base + o, n) = << c >> /\ c \in Seq(Byte) /\ Len(c) = n
        /\ \A i \in 1..n : c[i] = d[(base + o) + i]
    <3>1. base + o \in Nat /\ (base + o) + n <= Len(d) BY <1>1, <1>4
    <3>2. QED BY <3>1, ReadIs
  <2> HIDE DEF b, c
  <2>3. \A i \in 1..n : o + i \in 1..k /\ base + (o + i) = (base + o) + i BY <1>1, <1>4
  <2>4. \A i \in 1..n : b[i] = c[i]
    <3>1. TAKE i \in 1..n
    <3>2. b[i] = t[o + i] /\ t[o + i] = d[base + (o + i)] BY <1>2, <2>1, <2>3
    <3>3. c[i] = d[(base + o) + i] BY <2>2
    <3>4. QED BY <2>3, <3>2, <3>3
  <2>5. b = c BY <2>1, <2>2, <2>4, SeqEqual
  <2>6. QED BY <1>2, <2>1, <2>2, <2>5 DEF t
<1>5. o + n > k \/ o + n <= k BY <1>1
<1>6. QED BY <1>2, <1>3, <1>4, <1>5 DEF t

LEMMA WordOfRest ==
    ASSUME NEW d \in Seq(Byte), NEW base \in 0..Len(d), NEW o \in Nat
    PROVE  readUint256(sliceFrom(d, base), o) = readUint256(d, base + o)
<1>1. Word \in Nat BY SizesAssumption
<1>2. Read(sliceFrom(d, base), o, Word) = Read(d, base + o, Word) BY <1>1, ReadOfRest
<1>3. QED BY <1>2 DEF readUint256, Then

-----------------------------------------------------------------------------
(* Both decoders.                                                          *)

(* What the library reads of one field.                                    *)
AbiBytesOf(t, o) ==
    Then(readUint256(t, o), LAMBDA offset :
        Then(readUint256(t, offset), LAMBDA length : Read(t, offset + Word, length)))

AbiListOf(t, o) ==
    Then(readUint256(t, o), LAMBDA offset :
        Then(readUint256(t, offset), LAMBDA length :
            All([k \in 1..length |-> readUint256(t, offset + Word + Word * (k - 1))])))

AbiField(type, t, o) ==
    CASE type = "uint256" -> readUint256(t, o)
      [] type = "address" -> readAddressWord(t, o)
      [] type = "bytes" -> AbiBytesOf(t, o)
      [] type = "uint256[]" -> AbiListOf(t, o)

Types == {"uint256", "address", "bytes", "uint256[]"}

LEMMA AbiFieldsAre ==
    ASSUME NEW types, NEW t, NEW n \in Nat, DOMAIN types = 1..n, \A i \in 1..n : types[i] \in Types
    PROVE  AbiDecode(types, t) = [i \in 1..n |-> AbiField(types[i], t, Word * (i - 1))]
<1> DEFINE field(i) ==
             CASE types[i] = "uint256" -> readUint256(t, Word * (i - 1))
               [] types[i] = "address" -> Read(t, Word * i - AddressSize, AddressSize)
               [] types[i] = "bytes" -> AbiBytesOf(t, Word * (i - 1))
               [] types[i] = "uint256[]" -> AbiListOf(t, Word * (i - 1))
<1>1. AbiDecode(types, t) = [i \in DOMAIN types |-> field(i)]
  BY DEF AbiDecode, AbiBytesOf, AbiListOf, readUint256, Then
<1>2. ASSUME NEW i \in 1..n PROVE field(i) = AbiField(types[i], t, Word * (i - 1))
  <2>1. CASE types[i] = "address"
    <3>1. Word * i - AddressSize = Word * (i - 1) + Word - AddressSize BY SizesAssumption
    <3>2. QED BY <2>1, <3>1 DEF AbiField, readAddressWord, readAddress
  <2>2. CASE types[i] # "address" BY <2>2 DEF AbiField, Types
  <2>3. QED BY <2>1, <2>2
<1> HIDE DEF field
<1>3. QED BY <1>1, <1>2

(* What is done by hand instead, in data whose fields begin at base.       *)
FieldByHand(type, d, base, o) ==
    CASE type = "uint256" -> readUint256(d, base + o)
      [] type = "address" -> readAddressWord(d, base + o)
      [] type = "bytes" -> readAbiBytes(d, base, base + o)
      [] type = "uint256[]" -> readAbiUint256Array(d, base, base + o)

(* A word is a number, or is not there.                                    *)
LEMMA WordCases ==
    ASSUME NEW d \in Seq(Byte), NEW o \in Nat
    PROVE  \/ readUint256(d, o) = Refused /\ readSize(d, o) = Refused /\ o + Word > Len(d)
           \/ /\ o + Word <= Len(d)
              /\ \E n \in Nat : /\ readUint256(d, o) = << n >>
                                /\ readSize(d, o) = IF n > MaxSafeInteger THEN Refused ELSE << n >>
<1>1. Len(d) \in Nat /\ Word \in Nat BY SizesAssumption, LenProperties
<1>2. o + Word > Len(d) \/ o + Word <= Len(d) BY <1>1
<1>3. QED BY <1>2, WordIs

LEMMA BytesOfRest ==
    ASSUME NEW d \in Seq(Byte), Len(d) <= MaxSafeInteger, NEW base \in 0..Len(d), NEW o \in Nat
    PROVE  AbiBytesOf(sliceFrom(d, base), o) = readAbiBytes(d, base, base + o)
<1> DEFINE t == sliceFrom(d, base)
<1>1. /\ Len(d) \in Nat /\ Word \in Nat \ {0} /\ base \in Nat /\ base + o \in Nat
      /\ MaxSafeInteger \in Nat
  BY SizesAssumption, LenProperties
<1>2. t \in Seq(Byte) /\ Len(t) = Len(d) - base BY <1>1, ReadOfRest
<1>3. \A p \in Nat : readUint256(t, p) = readUint256(d, base + p) BY WordOfRest
<1>4. \A p \in Nat : \A n \in Nat : Read(t, p, n) = Read(d, base + p, n) BY ReadOfRest
<1> HIDE DEF t
<1>5. \A x : << x >> # Refused /\ << x >>[1] = x BY DEF Refused
<1>6. CASE readUint256(d, base + o) = Refused
  <2>1. readSize(d, base + o) = Refused BY <1>6 DEF readSize, Then
  <2>2. readAbiBytes(d, base, base + o) = Refused BY <2>1 DEF readAbiBytes, Then
  <2>3. AbiBytesOf(t, o) = Refused BY <1>3, <1>6 DEF AbiBytesOf, Then
  <2>4. QED BY <2>2, <2>3 DEF t
<1>7. ASSUME NEW p \in Nat, readUint256(d, base + o) = << p >>,
             readSize(d, base + o) = IF p > MaxSafeInteger THEN Refused ELSE << p >>
      PROVE  AbiBytesOf(t, o) = readAbiBytes(d, base, base + o)
  <2>1. readUint256(t, o) = << p >> BY <1>3, <1>7
  <2>2. CASE p > MaxSafeInteger
    <3>1. readAbiBytes(d, base, base + o) = Refused BY <1>7, <2>2 DEF readAbiBytes, Then
    <3>2. p + Word > Len(t) BY <1>1, <1>2, <2>2
    <3>3. readUint256(t, p) = Refused BY <1>2, <3>2, WordIs
    <3>4. AbiBytesOf(t, o) = Refused BY <1>5, <2>1, <3>3 DEF AbiBytesOf, Then
    <3>5. QED BY <3>1, <3>4
  <2>3. CASE ~(p > MaxSafeInteger)
    <3>1. readSize(d, base + o) = << p >> BY <1>7, <2>3
    <3>2. base + p \in Nat BY <1>1
    <3>3. readUint256(t, p) = readUint256(d, base + p) BY <1>3
    <3>4. CASE readUint256(d, base + p) = Refused
      <4>1. readSize(d, base + p) = Refused BY <3>4 DEF readSize, Then
      <4>2. readAbiBytes(d, base, base + o) = Refused
        BY <1>5, <3>1, <4>1 DEF readAbiBytes, Then
      <4>3. AbiBytesOf(t, o) = Refused BY <1>5, <2>1, <3>3, <3>4 DEF AbiBytesOf, Then
      <4>4. QED BY <4>2, <4>3
    <3>5. ASSUME NEW n \in Nat, readUint256(d, base + p) = << n >>,
                 readSize(d, base + p) = IF n > MaxSafeInteger THEN Refused ELSE << n >>
          PROVE  AbiBytesOf(t, o) = readAbiBytes(d, base, base + o)
      <4>1. AbiBytesOf(t, o) = Read(t, p + Word, n)
        BY <1>5, <2>1, <3>3, <3>5 DEF AbiBytesOf, Then
      <4>2. CASE n > MaxSafeInteger
        <5>1. readAbiBytes(d, base, base + o) = Refused
          BY <1>5, <3>1, <3>5, <4>2 DEF readAbiBytes, Then
        <5>2. p + Word \in Nat /\ p + Word + n > Len(t) BY <1>1, <1>2, <4>2
        <5>3. Read(t, p + Word, n) = Refused BY <1>2, <5>2, ReadIs
        <5>4. QED BY <4>1, <5>1, <5>3
      <4>3. CASE ~(n > MaxSafeInteger)
        <5>1. readAbiBytes(d, base, base + o) = Read(d, base + p + Word, n)
          BY <1>5, <3>1, <3>5, <4>3 DEF readAbiBytes, Then
        <5>2. p + Word \in Nat /\ base + (p + Word) = base + p + Word BY <1>1
        <5>3. Read(t, p + Word, n) = Read(d, base + (p + Word), n) BY <1>4, <5>2
        <5>4. QED BY <4>1, <5>1, <5>2, <5>3
      <4>4. QED BY <4>2, <4>3
    <3>6. QED BY <3>2, <3>4, <3>5, WordCases
  <2>4. QED BY <2>2, <2>3
<1>8. QED BY <1>1, <1>6, <1>7, WordCases DEF t

LEMMA ListOfRest ==
    ASSUME NEW d \in Seq(Byte), Len(d) <= MaxSafeInteger, NEW base \in 0..Len(d), NEW o \in Nat
    PROVE  AbiListOf(sliceFrom(d, base), o) = readAbiUint256Array(d, base, base + o)
<1> DEFINE t == sliceFrom(d, base)
<1>1. /\ Len(d) \in Nat /\ Word \in Nat \ {0} /\ base \in Nat /\ base + o \in Nat
      /\ MaxSafeInteger \in Nat
  BY SizesAssumption, LenProperties
<1>2. t \in Seq(Byte) /\ Len(t) = Len(d) - base BY <1>1, ReadOfRest
<1>3. \A p \in Nat : readUint256(t, p) = readUint256(d, base + p) BY WordOfRest
<1> HIDE DEF t
<1>5. \A x : << x >> # Refused /\ << x >>[1] = x BY DEF Refused
<1>6. CASE readUint256(d, base + o) = Refused
  <2>1. readSize(d, base + o) = Refused BY <1>6 DEF readSize, Then
  <2>2. readAbiUint256Array(d, base, base + o) = Refused
    BY <2>1 DEF readAbiUint256Array, Then
  <2>3. AbiListOf(t, o) = Refused BY <1>3, <1>6 DEF AbiListOf, Then
  <2>4. QED BY <2>2, <2>3 DEF t
<1>7. ASSUME NEW p \in Nat, readUint256(d, base + o) = << p >>,
             readSize(d, base + o) = IF p > MaxSafeInteger THEN Refused ELSE << p >>
      PROVE  AbiListOf(t, o) = readAbiUint256Array(d, base, base + o)
  <2>1. readUint256(t, o) = << p >> BY <1>3, <1>7
  <2>2. CASE p > MaxSafeInteger
    <3>1. readAbiUint256Array(d, base, base + o) = Refused
      BY <1>7, <2>2 DEF readAbiUint256Array, Then
    <3>2. p + Word > Len(t) BY <1>1, <1>2, <2>2
    <3>3. readUint256(t, p) = Refused BY <1>2, <3>2, WordIs
    <3>4. AbiListOf(t, o) = Refused BY <1>5, <2>1, <3>3 DEF AbiListOf, Then
    <3>5. QED BY <3>1, <3>4
  <2>3. CASE ~(p > MaxSafeInteger)
    <3>1. readSize(d, base + o) = << p >> BY <1>7, <2>3
    <3>2. base + p \in Nat BY <1>1
    <3>3. readUint256(t, p) = readUint256(d, base + p) BY <1>3
    <3>4. CASE readUint256(d, base + p) = Refused
      <4>1. readSize(d, base + p) = Refused BY <3>4 DEF readSize, Then
      <4>2. readAbiUint256Array(d, base, base + o) = Refused
        BY <1>5, <3>1, <4>1 DEF readAbiUint256Array, Then
      <4>3. AbiListOf(t, o) = Refused BY <1>5, <2>1, <3>3, <3>4 DEF AbiListOf, Then
      <4>4. QED BY <4>2, <4>3
    <3>5. ASSUME NEW n \in Nat, base + p + Word <= Len(d), readUint256(d, base + p) = << n >>,
                 readSize(d, base + p) = IF n > MaxSafeInteger THEN Refused ELSE << n >>
          PROVE  AbiListOf(t, o) = readAbiUint256Array(d, base, base + o)
      <4> DEFINE ws == [k \in 1..n |-> readUint256(t, p + Word + Word * (k - 1))]
                 vs == [k \in 1..n |-> readUint256(d, base + p + Word * k)]
                 size == Word * (1 + n)
                 last == p + Word + Word * (n - 1)
      <4>1. AbiListOf(t, o) = All(ws)
        BY <1>5, <2>1, <3>3, <3>5 DEF AbiListOf, Then
      <4>2. size \in Nat /\ size = Word + Word * n BY <1>1
      <4>3. ASSUME n > MaxSafeInteger \/ base + p + size > Len(d)
            PROVE  All(ws) = Refused
        <5>1. n # 0
          <6>1. SUFFICES ASSUME n = 0 PROVE FALSE OBVIOUS
          <6>2. size = Word BY <1>1, <6>1
          <6> HIDE DEF size
          <6>3. QED BY <1>1, <3>5, <4>3, <6>1, <6>2
        <5>2. n - 1 \in Nat /\ n \in 1..n BY <5>1
        <5>3. Word * (n - 1) \in Nat /\ Word * (n - 1) + Word = Word * n BY <1>1, <5>2
        <5>4. Word * n >= n
          <6>1. n * 1 <= n * Word /\ n * Word \in Nat BY <1>1, ProductOrder
          <6>2. n * Word = Word * n /\ n * 1 = n BY <1>1
          <6>3. QED BY <6>1, <6>2
        <5>5. last \in Nat /\ last + Word > Len(t)
          <6> DEFINE u == Word * (n - 1)  w == Word * n
          <6>1. /\ u \in Nat /\ w \in Nat /\ u + Word = w /\ size = Word + w /\ last = p + Word + u
                /\ w >= n
            BY <1>1, <4>2, <5>3, <5>4
          <6> HIDE DEF u, w, size, last
          <6>2. QED BY <1>1, <1>2, <4>3, <6>1
        <5>6. readUint256(t, last) = Refused BY <1>2, <5>5, WordIs
        <5>7. n \in DOMAIN ws /\ ws[n] = Refused BY <5>2, <5>6
        <5> HIDE DEF ws
        <5>8. QED BY <5>7, AllRefused
      <4>4. ws = vs
        <5>1. ASSUME NEW k \in 1..n
              PROVE  readUint256(t, p + Word + Word * (k - 1)) = readUint256(d, base + p + Word * k)
          <6> DEFINE u == Word * (k - 1)  w == Word * k
          <6>1. k - 1 \in Nat OBVIOUS
          <6>2. u \in Nat /\ w \in Nat /\ u + Word = w BY <1>1, <6>1
          <6> HIDE DEF u, w
          <6>3. p + Word + u \in Nat /\ base + (p + Word + u) = base + p + w BY <1>1, <6>2
          <6>4. readUint256(t, p + Word + u) = readUint256(d, base + (p + Word + u))
            BY <1>3, <6>3
          <6>5. readUint256(t, p + Word + u) = readUint256(d, base + p + w) BY <6>3, <6>4
          <6>6. QED BY <6>5 DEF u, w
        <5>2. QED BY <5>1
      <4>5. CASE n > MaxSafeInteger
        <5>1. readAbiUint256Array(d, base, base + o) = Refused
          BY <1>5, <3>1, <3>5, <4>5 DEF readAbiUint256Array, Then
        <5>2. QED BY <4>1, <4>3, <4>5, <5>1
      <4>6. CASE ~(n > MaxSafeInteger)
        <5>1. readAbiUint256Array(d, base, base + o) =
                IF base + p + size > Len(d) THEN Refused ELSE All(vs)
          BY <1>5, <3>1, <3>5, <4>6 DEF readAbiUint256Array, Then
        <5> HIDE DEF size, ws, vs
        <5>2. QED BY <4>1, <4>3, <4>4, <5>1
      <4>7. QED BY <4>5, <4>6
    <3>6. QED BY <3>2, <3>4, <3>5, WordCases
  <2>4. QED BY <2>2, <2>3
<1>8. QED BY <1>1, <1>6, <1>7, WordCases DEF t

(* So the fields are the same, for any data.                               *)
LEMMA FieldsAgree ==
    ASSUME NEW d \in Seq(Byte), Len(d) <= MaxSafeInteger, NEW base \in 0..Len(d), NEW o \in Nat,
           NEW type \in Types
    PROVE  AbiField(type, sliceFrom(d, base), o) = FieldByHand(type, d, base, o)
<1> DEFINE t == sliceFrom(d, base)
<1>1. base \in Nat BY LenProperties
<1>2. CASE type = "uint256" BY <1>2, WordOfRest DEF AbiField, FieldByHand
<1>3. CASE type = "address"
  <2> DEFINE p == o + (Word - AddressSize)
  <2>1. AddressSize \in Nat /\ Word \in Nat /\ p \in Nat BY SizesAssumption
  <2>2. base + o + Word - AddressSize = base + p /\ o + Word - AddressSize = p BY <1>1, <2>1
  <2> HIDE DEF p
  <2>3. Read(t, p, AddressSize) = Read(d, base + p, AddressSize) BY <2>1, ReadOfRest
  <2>4. QED BY <1>3, <2>2, <2>3 DEF AbiField, FieldByHand, readAddressWord, readAddress
<1>4. CASE type = "bytes" BY <1>4, BytesOfRest DEF AbiField, FieldByHand
<1>5. CASE type = "uint256[]" BY <1>5, ListOfRest DEF AbiField, FieldByHand
<1>6. QED BY <1>2, <1>3, <1>4, <1>5 DEF Types

AreByHand(read, types, n, d, base) ==
    /\ DOMAIN types = 1..n /\ \A i \in 1..n : types[i] \in Types
    /\ read = [i \in 1..n |-> read[i]]
    /\ \A i \in 1..n : read[i] = FieldByHand(types[i], d, base, Word * (i - 1))

LEMMA AllFieldsAgree ==
    ASSUME NEW d \in Seq(Byte), Len(d) <= MaxSafeInteger, NEW base \in 0..Len(d),
           NEW types, NEW n \in Nat, NEW byHand, AreByHand(byHand, types, n, d, base)
    PROVE  AbiDecode(types, sliceFrom(d, base)) = byHand
<1> USE DEF AreByHand
<1> DEFINE t == sliceFrom(d, base)
<1>1. AbiDecode(types, t) = [i \in 1..n |-> AbiField(types[i], t, Word * (i - 1))]
  BY AbiFieldsAre
<1>2. ASSUME NEW i \in 1..n PROVE AbiField(types[i], t, Word * (i - 1)) = byHand[i]
  <2>1. Word * (i - 1) \in Nat
    <3>1. Word \in Nat /\ i - 1 \in Nat BY SizesAssumption
    <3>2. QED BY <3>1
  <2>2. QED BY <2>1, FieldsAgree
<1>3. QED BY <1>1, <1>2

(* The places of the words in a head.                                      *)
LEMMA Places ==
    /\ Word \in Nat \ {0} /\ AddressSize \in Nat
    /\ Word * (1 - 1) = 0 /\ Word * (2 - 1) = Word /\ Word * (3 - 1) = 2 * Word
    /\ Word * (4 - 1) = 3 * Word /\ Word * (5 - 1) = 4 * Word /\ Word * (6 - 1) = 5 * Word
    /\ Word * (7 - 1) = 6 * Word /\ Word * (8 - 1) = 7 * Word
BY SizesAssumption

LEMMA FunctionIsSeq ==
    ASSUME NEW S, NEW n \in Nat, NEW s \in [1..n -> S]
    PROVE  s \in Seq(S) /\ Len(s) = n
OBVIOUS

(* Data begins with a selector if its first four bytes are those.          *)
LEMMA SelectorIs ==
    ASSUME NEW f \in {"EvmAdvance"} \cup Outputs
    PROVE  Selector[f] \in Seq(Byte) /\ Len(Selector[f]) = 4
<1> DEFINE s == Selector[f]
<1>1. s \in [1..4 -> Byte] BY NamesAssumption DEF Byte
<1> HIDE DEF s
<1>2. s \in Seq(Byte) /\ Len(s) = 4 BY <1>1, FunctionIsSeq
<1>3. QED BY <1>2 DEF s

LEMMA PrefixIs ==
    ASSUME NEW f \in {"EvmAdvance"} \cup Outputs, NEW d \in Seq(Byte)
    PROVE  hasSelector(d, Selector[f]) <=> Len(d) >= 4 /\ Selector[f] = SubSeq(d, 1, 4)
<1>1. Selector[f] \in Seq(Byte) /\ Len(Selector[f]) = 4 /\ Len(d) \in Nat
  BY SelectorIs, LenProperties
<1>2. SubSeq(Selector[f], 1, 4) = Selector[f] BY <1>1, SubSeqFull
<1>3. QED BY <1>1, <1>2 DEF hasSelector, IsPrefix

LEMMA OneSelector ==
    ASSUME NEW f \in Outputs, NEW g \in Outputs, NEW d \in Seq(Byte),
           hasSelector(d, Selector[f]), hasSelector(d, Selector[g])
    PROVE  f = g
<1>1. Selector[f] = Selector[g] BY PrefixIs
<1>2. \A h, k \in Outputs : Selector[h] = Selector[k] => h = k BY NamesAssumption
<1>3. QED BY <1>1, <1>2

(* Both decoders of inputs.                                                *)
LEMMA InputDecodersAgree ==
    ASSUME NEW d \in Seq(Byte), Len(d) <= MaxSafeInteger
    PROVE  decodeInputHex(d) = decodeInputBytes(d)
<1> DEFINE byHand == << readUint256(d, 4),
                        readAddressWord(d, 4 + Word), readAddressWord(d, 4 + 2 * Word),
                        readUint256(d, 4 + 3 * Word), readUint256(d, 4 + 4 * Word),
                        readUint256(d, 4 + 5 * Word), readUint256(d, 4 + 6 * Word),
                        readAbiBytes(d, 4, 4 + 7 * Word) >>
<1>1. CASE ~hasSelector(d, Selector["EvmAdvance"])
  BY <1>1 DEF decodeInputHex, decodeInputBytes, hasSelector
<1>2. CASE hasSelector(d, Selector["EvmAdvance"])
  <2>1. Len(d) >= 4 BY <1>2, PrefixIs
  <2>2. 4 \in 0..Len(d) BY <2>1, LenProperties
  <2>3. DOMAIN evmAdvance = 1..8 /\ \A i \in 1..8 : evmAdvance[i] \in Types
    BY DEF evmAdvance, Types
  <2>4. byHand = [i \in 1..8 |-> byHand[i]] OBVIOUS
  <2>5. ASSUME NEW i \in 1..8
        PROVE  byHand[i] = FieldByHand(evmAdvance[i], d, 4, Word * (i - 1))
    <3>1. CASE i = 1 BY <3>1, Places DEF FieldByHand, evmAdvance
    <3>2. CASE i = 2 BY <3>2, Places DEF FieldByHand, evmAdvance
    <3>3. CASE i = 3 BY <3>3, Places DEF FieldByHand, evmAdvance
    <3>4. CASE i = 4 BY <3>4, Places DEF FieldByHand, evmAdvance
    <3>5. CASE i = 5 BY <3>5, Places DEF FieldByHand, evmAdvance
    <3>6. CASE i = 6 BY <3>6, Places DEF FieldByHand, evmAdvance
    <3>7. CASE i = 7 BY <3>7, Places DEF FieldByHand, evmAdvance
    <3>8. CASE i = 8 BY <3>8, Places DEF FieldByHand, evmAdvance
    <3>9. QED BY <3>1, <3>2, <3>3, <3>4, <3>5, <3>6, <3>7, <3>8
  <2>6. decodeInputBytes(d) = All(byHand) BY <1>2 DEF decodeInputBytes
  <2>7. decodeInputHex(d) = All(AbiDecode(evmAdvance, sliceFrom(d, 4)))
    BY <1>2 DEF decodeInputHex, hasSelector, sliceFrom
  <2> HIDE DEF byHand
  <2>8. AbiDecode(evmAdvance, sliceFrom(d, 4)) = byHand
    <3>1. AreByHand(byHand, evmAdvance, 8, d, 4) BY <2>3, <2>4, <2>5 DEF AreByHand
    <3>2. QED BY <2>2, <3>1, AllFieldsAgree
  <2>9. QED BY <2>6, <2>7, <2>8
<1>3. QED BY <1>1, <1>2

(* Both decoders of outputs.                                               *)
LEMMA OutputDecodersAgree ==
    ASSUME NEW d \in Seq(Byte), Len(d) <= MaxSafeInteger
    PROVE  decodeOutputHex(d) = decodeOutputBytes(d)
<1> DEFINE notice == << readAbiBytes(d, 4, 4) >>
           voucher == << readAddressWord(d, 4), readUint256(d, 4 + Word),
                         readAbiBytes(d, 4, 4 + 2 * Word) >>
           delegate == << readAddressWord(d, 4), readAbiBytes(d, 4, 4 + Word) >>
<1>1. ASSUME NEW f \in Outputs, hasSelector(d, Selector[f])
      PROVE  /\ 4 \in 0..Len(d) /\ \A g \in Outputs : hasSelector(d, Selector[g]) => g = f
             /\ decodeOutputHex(d) = Typed(f, All(AbiDecode(outputAbi[f], sliceFrom(d, 4))))
  <2>1. Len(d) >= 4 BY <1>1, PrefixIs
  <2>2. 4 \in 0..Len(d) BY <2>1, LenProperties
  <2>3. \A g \in Outputs : hasSelector(d, Selector[g]) => g = f BY <1>1, OneSelector
  <2>4. (CHOOSE g \in Outputs : IsPrefix(Selector[g], d)) = f
    BY <1>1, <2>3 DEF hasSelector
  <2>5. decodeOutputHex(d) = Typed(f, All(AbiDecode(outputAbi[f], sliceFrom(d, 4))))
    <3>1. \E g \in Outputs : IsPrefix(Selector[g], d) BY <1>1 DEF hasSelector
    <3> DEFINE result(g) == Typed(g, All(AbiDecode(outputAbi[g], SubSeq(d, 5, Len(d)))))
               found == CHOOSE g \in Outputs : IsPrefix(Selector[g], d)
    <3>2. decodeOutputHex(d) = result(found) BY <3>1, Zenon DEF decodeOutputHex
    <3>3. found = f BY <2>4
    <3> HIDE DEF found
    <3>4. SubSeq(d, 5, Len(d)) = sliceFrom(d, 4) BY DEF sliceFrom
    <3>5. QED BY <3>2, <3>3, <3>4
  <2>6. QED BY <2>2, <2>3, <2>5
<1>2. CASE hasSelector(d, Selector["Notice"])
  <2> DEFINE types == << "bytes" >>
  <2>1. /\ 4 \in 0..Len(d)
        /\ ~hasSelector(d, Selector["Voucher"]) /\ ~hasSelector(d, Selector["DelegateCallVoucher"])
        /\ decodeOutputHex(d) = Typed("Notice", All(AbiDecode(types, sliceFrom(d, 4))))
    <3>1. /\ "Notice" \in Outputs /\ "Voucher" \in Outputs /\ "DelegateCallVoucher" \in Outputs
          /\ outputAbi["Notice"] = types
      BY DEF Outputs, outputAbi
    <3>2. QED BY <1>1, <1>2, <3>1
  <2>2. notice = [i \in 1..1 |-> notice[i]] OBVIOUS
  <2>3. ASSUME NEW i \in 1..1
        PROVE  notice[i] = FieldByHand(types[i], d, 4, Word * (i - 1))
    <3>1. CASE i = 1 BY <3>1, Places DEF FieldByHand
    <3>2. QED BY <3>1
  <2>4. decodeOutputBytes(d) = Typed("Notice", All(notice))
    BY <1>2, <2>1 DEF decodeOutputBytes
  <2>5. DOMAIN types = 1..1 /\ \A i \in 1..1 : types[i] \in Types BY DEF Types
  <2> HIDE DEF notice, types
  <2>6. AreByHand(notice, types, 1, d, 4) BY <2>2, <2>3, <2>5 DEF AreByHand
  <2>7. AbiDecode(types, sliceFrom(d, 4)) = notice BY <2>1, <2>6, AllFieldsAgree
  <2>8. QED BY <2>1, <2>4, <2>7
<1>3. CASE hasSelector(d, Selector["Voucher"])
  <2> DEFINE types == << "address", "uint256", "bytes" >>
  <2>1. /\ 4 \in 0..Len(d)
        /\ ~hasSelector(d, Selector["Notice"]) /\ ~hasSelector(d, Selector["DelegateCallVoucher"])
        /\ decodeOutputHex(d) = Typed("Voucher", All(AbiDecode(types, sliceFrom(d, 4))))
    <3>1. /\ "Notice" \in Outputs /\ "Voucher" \in Outputs /\ "DelegateCallVoucher" \in Outputs
          /\ outputAbi["Voucher"] = types
      BY DEF Outputs, outputAbi
    <3>2. QED BY <1>1, <1>3, <3>1
  <2>2. voucher = [i \in 1..3 |-> voucher[i]] OBVIOUS
  <2>3. ASSUME NEW i \in 1..3
        PROVE  voucher[i] = FieldByHand(types[i], d, 4, Word * (i - 1))
    <3>1. CASE i = 1 BY <3>1, Places DEF FieldByHand
    <3>2. CASE i = 2 BY <3>2, Places DEF FieldByHand
    <3>3. CASE i = 3 BY <3>3, Places DEF FieldByHand
    <3>4. QED BY <3>1, <3>2, <3>3
  <2>4. decodeOutputBytes(d) = Typed("Voucher", All(voucher))
    BY <1>3, <2>1 DEF decodeOutputBytes
  <2>5. DOMAIN types = 1..3 /\ \A i \in 1..3 : types[i] \in Types BY DEF Types
  <2> HIDE DEF voucher, types
  <2>6. AreByHand(voucher, types, 3, d, 4) BY <2>2, <2>3, <2>5 DEF AreByHand
  <2>7. AbiDecode(types, sliceFrom(d, 4)) = voucher BY <2>1, <2>6, AllFieldsAgree
  <2>8. QED BY <2>1, <2>4, <2>7
<1>4. CASE hasSelector(d, Selector["DelegateCallVoucher"])
  <2> DEFINE types == << "address", "bytes" >>
  <2>1. /\ 4 \in 0..Len(d)
        /\ ~hasSelector(d, Selector["Notice"]) /\ ~hasSelector(d, Selector["Voucher"])
        /\ decodeOutputHex(d) = Typed("DelegateCallVoucher", All(AbiDecode(types, sliceFrom(d, 4))))
    <3>1. /\ "Notice" \in Outputs /\ "Voucher" \in Outputs /\ "DelegateCallVoucher" \in Outputs
          /\ outputAbi["DelegateCallVoucher"] = types
      BY DEF Outputs, outputAbi
    <3>2. QED BY <1>1, <1>4, <3>1
  <2>2. delegate = [i \in 1..2 |-> delegate[i]] OBVIOUS
  <2>3. ASSUME NEW i \in 1..2
        PROVE  delegate[i] = FieldByHand(types[i], d, 4, Word * (i - 1))
    <3>1. CASE i = 1 BY <3>1, Places DEF FieldByHand
    <3>2. CASE i = 2 BY <3>2, Places DEF FieldByHand
    <3>3. QED BY <3>1, <3>2
  <2>4. decodeOutputBytes(d) = Typed("DelegateCallVoucher", All(delegate))
    BY <1>4, <2>1 DEF decodeOutputBytes
  <2>5. DOMAIN types = 1..2 /\ \A i \in 1..2 : types[i] \in Types BY DEF Types
  <2> HIDE DEF delegate, types
  <2>6. AreByHand(delegate, types, 2, d, 4) BY <2>2, <2>3, <2>5 DEF AreByHand
  <2>7. AbiDecode(types, sliceFrom(d, 4)) = delegate BY <2>1, <2>6, AllFieldsAgree
  <2>8. QED BY <2>1, <2>4, <2>7
<1>5. CASE \A f \in Outputs : ~hasSelector(d, Selector[f])
  BY <1>5 DEF decodeOutputHex, decodeOutputBytes, Outputs, hasSelector
<1>6. QED BY <1>2, <1>3, <1>4, <1>5 DEF Outputs

(* Both decoders of the tails of deposits.                                 *)
LEMMA DataTailsAgree ==
    ASSUME NEW d \in Seq(Byte), Len(d) <= MaxSafeInteger, NEW base \in 0..Len(d)
    PROVE  AbiDecode(dataAbi, sliceFrom(d, base)) =
               << readAbiBytes(d, base, base), readAbiBytes(d, base, base + Word) >>
<1> DEFINE byHand == << readAbiBytes(d, base, base), readAbiBytes(d, base, base + Word) >>
<1>1. base + 0 = base BY LenProperties
<1>2. DOMAIN dataAbi = 1..2 /\ \A i \in 1..2 : dataAbi[i] \in Types BY DEF dataAbi, Types
<1>3. byHand = [i \in 1..2 |-> byHand[i]] OBVIOUS
<1>4. ASSUME NEW i \in 1..2
      PROVE  byHand[i] = FieldByHand(dataAbi[i], d, base, Word * (i - 1))
  <2>1. CASE i = 1 BY <1>1, <2>1, Places DEF FieldByHand, dataAbi
  <2>2. CASE i = 2 BY <2>2, Places DEF FieldByHand, dataAbi
  <2>3. QED BY <2>1, <2>2
<1> HIDE DEF byHand
<1>5. AreByHand(byHand, dataAbi, 2, d, base) BY <1>2, <1>3, <1>4 DEF AreByHand
<1>6. AbiDecode(dataAbi, sliceFrom(d, base)) = byHand BY <1>5, AllFieldsAgree
<1>7. QED BY <1>6 DEF byHand

LEMMA BatchTailsAgree ==
    ASSUME NEW d \in Seq(Byte), Len(d) <= MaxSafeInteger, NEW base \in 0..Len(d)
    PROVE  AbiDecode(batchDataAbi, sliceFrom(d, base)) =
               << readAbiUint256Array(d, base, base),
                  readAbiUint256Array(d, base, base + Word),
                  readAbiBytes(d, base, base + 2 * Word),
                  readAbiBytes(d, base, base + 3 * Word) >>
<1> DEFINE byHand == << readAbiUint256Array(d, base, base),
                        readAbiUint256Array(d, base, base + Word),
                        readAbiBytes(d, base, base + 2 * Word),
                        readAbiBytes(d, base, base + 3 * Word) >>
<1>1. base + 0 = base BY LenProperties
<1>2. DOMAIN batchDataAbi = 1..4 /\ \A i \in 1..4 : batchDataAbi[i] \in Types
  BY DEF batchDataAbi, Types
<1>3. byHand = [i \in 1..4 |-> byHand[i]] OBVIOUS
<1>4. ASSUME NEW i \in 1..4
      PROVE  byHand[i] = FieldByHand(batchDataAbi[i], d, base, Word * (i - 1))
  <2>1. CASE i = 1 BY <1>1, <2>1, Places DEF FieldByHand, batchDataAbi
  <2>2. CASE i = 2 BY <2>2, Places DEF FieldByHand, batchDataAbi
  <2>3. CASE i = 3 BY <2>3, Places DEF FieldByHand, batchDataAbi
  <2>4. CASE i = 4 BY <2>4, Places DEF FieldByHand, batchDataAbi
  <2>5. QED BY <2>1, <2>2, <2>3, <2>4
<1> HIDE DEF byHand
<1>5. AreByHand(byHand, batchDataAbi, 4, d, base) BY <1>2, <1>3, <1>4 DEF AreByHand
<1>6. AbiDecode(batchDataAbi, sliceFrom(d, base)) = byHand BY <1>5, AllFieldsAgree
<1>7. QED BY <1>6 DEF byHand

(* Both decoders of everything, for whatever data arrives.                 *)
LEMMA DecodersAgree ==
    ASSUME NEW f \in Formats, NEW d \in Seq(Byte), Len(d) <= MaxSafeInteger
    PROVE  Decode(f, d, "hex") = Decode(f, d, "bytes")
<1>0. /\ Len(d) \in Nat /\ Word \in Nat /\ AddressSize \in Nat
      /\ 2 * AddressSize + Word \in Nat /\ 2 * AddressSize + 2 * Word \in Nat
      /\ 2 * AddressSize \in Nat
  BY LenProperties, SizesAssumption
<1>1. CASE f = "EvmAdvance"
  <2>1. decodeInput(d, "hex") = decodeInput(d, "bytes") BY InputDecodersAgree DEF decodeInput
  <2>2. f \notin Outputs /\ f \notin Deposits BY <1>1 DEF Outputs, Deposits
  <2>3. QED BY <1>1, <2>1, <2>2 DEF Decode
<1>2. CASE f \in Outputs
  <2>1. decodeOutput(d, "hex") = decodeOutput(d, "bytes")
    BY OutputDecodersAgree DEF decodeOutput
  <2>2. f # "EvmAdvance" /\ f \notin Deposits BY <1>2 DEF Outputs, Deposits
  <2>3. QED BY <1>2, <2>1, <2>2 DEF Decode
<1>3. CASE f \in Deposits
  <2>1. decodeEtherDeposit(d, "hex") = decodeEtherDeposit(d, "bytes") BY DEF decodeEtherDeposit
  <2>2. decodeErc20Deposit(d, "hex") = decodeErc20Deposit(d, "bytes") BY DEF decodeErc20Deposit
  <2>3. decodeErc721Deposit(d, "hex") = decodeErc721Deposit(d, "bytes")
    <3> DEFINE fixed == 2 * AddressSize + Word
    <3>1. CASE Len(d) < fixed BY <3>1 DEF decodeErc721Deposit
    <3>2. CASE ~(Len(d) < fixed)
      <4>1. fixed \in 0..Len(d) BY <1>0, <3>2
      <4>2. AbiDecode(dataAbi, sliceFrom(d, fixed)) =
                << readAbiBytes(d, fixed, fixed), readAbiBytes(d, fixed, fixed + Word) >>
        BY <4>1, DataTailsAgree
      <4>3. QED BY <4>2 DEF decodeErc721Deposit
    <3>3. QED BY <3>1, <3>2
  <2>4. decodeErc1155SingleDeposit(d, "hex") = decodeErc1155SingleDeposit(d, "bytes")
    <3> DEFINE fixed == 2 * AddressSize + 2 * Word
    <3>1. CASE Len(d) < fixed BY <3>1 DEF decodeErc1155SingleDeposit
    <3>2. CASE ~(Len(d) < fixed)
      <4>1. fixed \in 0..Len(d) BY <1>0, <3>2
      <4>2. AbiDecode(dataAbi, sliceFrom(d, fixed)) =
                << readAbiBytes(d, fixed, fixed), readAbiBytes(d, fixed, fixed + Word) >>
        BY <4>1, DataTailsAgree
      <4>3. QED BY <4>2 DEF decodeErc1155SingleDeposit
    <3>3. QED BY <3>1, <3>2
  <2>5. decodeErc1155BatchDeposit(d, "hex") = decodeErc1155BatchDeposit(d, "bytes")
    <3> DEFINE fixed == 2 * AddressSize
    <3>1. CASE Len(d) < fixed BY <3>1 DEF decodeErc1155BatchDeposit
    <3>2. CASE ~(Len(d) < fixed)
      <4>1. fixed \in 0..Len(d) BY <1>0, <3>2
      <4>2. AbiDecode(batchDataAbi, sliceFrom(d, fixed)) =
                << readAbiUint256Array(d, fixed, fixed),
                   readAbiUint256Array(d, fixed, fixed + Word),
                   readAbiBytes(d, fixed, fixed + 2 * Word),
                   readAbiBytes(d, fixed, fixed + 3 * Word) >>
        BY <4>1, BatchTailsAgree
      <4>3. QED BY <4>2 DEF decodeErc1155BatchDeposit
    <3>3. QED BY <3>1, <3>2
  <2>6. decodeDeposit(Portal[f], d, "hex") = decodeDeposit(Portal[f], d, "bytes")
    BY <2>1, <2>2, <2>3, <2>4, <2>5 DEF decodeDeposit
  <2>7. f # "EvmAdvance" /\ f \notin Outputs BY <1>3 DEF Outputs, Deposits
  <2>8. QED BY <1>3, <2>6, <2>7 DEF Decode
<1>4. QED BY <1>1, <1>2, <1>3 DEF Formats

-----------------------------------------------------------------------------
(* The encoders.                                                           *)

(* What is written of one field.                                           *)
LEMMA CeilWordIs ==
    ASSUME NEW n \in Nat
    PROVE  ceilWord(n) \in Nat /\ n <= ceilWord(n)
<1>1. Word \in Nat \ {0} BY SizesAssumption
<1> DEFINE q == (n + Word - 1) \div Word  r == (n + Word - 1) % Word
<1>2. n + Word - 1 \in Nat BY <1>1
<1>3. q \in Nat /\ r \in 0..(Word - 1) /\ n + Word - 1 = Word * q + r BY <1>1, <1>2, Division
<1> HIDE DEF q, r
<1>4. Word * q \in Nat BY <1>1, <1>3
<1>5. n <= Word * q BY <1>1, <1>3, <1>4
<1>6. q * Word = Word * q BY <1>1, <1>3
<1>7. ceilWord(n) = q * Word BY DEF ceilWord, q
<1>8. QED BY <1>4, <1>5, <1>6, <1>7

Pad(v) == Zeros(ceilWord(Len(v)) - Len(v))

LEMMA AbiBytesIs ==
    ASSUME NEW v \in Seq(Byte)
    PROVE  /\ Len(v) \in Nat /\ Pad(v) \in Seq(Byte)
           /\ Len(Pad(v)) = ceilWord(Len(v)) - Len(v)
           /\ Uint256(Len(v)) \in Seq(Byte) /\ Len(Uint256(Len(v))) = Word
           /\ AbiBytes(v) = (Uint256(Len(v)) \o v) \o Pad(v)
           /\ AbiBytes(v) \in Seq(Byte) /\ Len(AbiBytes(v)) = abiBytesSize(v)
           /\ abiBytesSize(v) \in Nat /\ Word + Len(v) <= abiBytesSize(v)
<1> DEFINE n == Len(v)  w == Uint256(n)  p == Pad(v)  c == ceilWord(n)
<1>1. n \in Nat /\ Word \in Nat BY SizesAssumption, LenProperties
<1>2. w \in Seq(Byte) /\ Len(w) = Word BY <1>1, Uint256IsWord
<1>3. c \in Nat /\ n <= c BY <1>1, CeilWordIs
<1>4. p \in Seq(Byte) /\ Len(p) = c - n
  <2>1. c - n \in Nat BY <1>1, <1>3
  <2>2. QED BY <2>1, ZerosAre DEF Pad
<1>5. AbiBytes(v) = w \o (v \o p) BY DEF AbiBytes, PaddedBytes, Pad
<1>6. abiBytesSize(v) = Word + c BY DEF abiBytesSize
<1> HIDE DEF n, w, p, c
<1>7. w \o (v \o p) = (w \o v) \o p BY <1>2, <1>4, ConcatAssociative
<1>8. /\ w \o v \in Seq(Byte) /\ Len(w \o v) = Word + n
  BY <1>2, ConcatProperties DEF n
<1>9. (w \o v) \o p \in Seq(Byte) /\ Len((w \o v) \o p) = Word + n + (c - n)
  <2> DEFINE x == w \o v
  <2>1. x \in Seq(Byte) /\ Len(x) = Word + n BY <1>8
  <2> HIDE DEF x
  <2>2. x \o p \in Seq(Byte) /\ Len(x \o p) = Len(x) + Len(p) BY <1>4, <2>1, ConcatProperties
  <2>3. Len(x \o p) = Word + n + (c - n) BY <1>4, <2>1, <2>2
  <2>4. QED BY <2>2, <2>3 DEF x
<1>10. Word + n + (c - n) = Word + c BY <1>1, <1>3
<1>11. /\ n \in Nat /\ p \in Seq(Byte) /\ Len(p) = c - n /\ w \in Seq(Byte) /\ Len(w) = Word
       /\ AbiBytes(v) = (w \o v) \o p
       /\ AbiBytes(v) \in Seq(Byte) /\ Len(AbiBytes(v)) = abiBytesSize(v)
       /\ abiBytesSize(v) \in Nat /\ Word + n <= abiBytesSize(v)
  BY <1>1, <1>2, <1>3, <1>4, <1>5, <1>6, <1>7, <1>9, <1>10
<1>12. QED BY <1>11 DEF n, w, p, c

(* Blocks of a block.                                                      *)
LEMMA AtParts ==
    ASSUME NEW s \in Seq(Byte), NEW o, NEW a \in Seq(Byte), NEW b \in Seq(Byte),
           At(s, o, a \o b)
    PROVE  At(s, o, a) /\ At(s, o + Len(a), b)
<1>1. /\ Len(a) \in Nat /\ Len(b) \in Nat /\ Len(a \o b) = Len(a) + Len(b) /\ Len(s) \in Nat
      /\ \A i \in 1..(Len(a) + Len(b)) :
            (a \o b)[i] = IF i <= Len(a) THEN a[i] ELSE b[i - Len(a)]
  BY ConcatProperties, LenProperties
<1>2. o \in Nat /\ o + (Len(a) + Len(b)) <= Len(s)
      /\ \A j \in 1..(Len(a) + Len(b)) : s[o + j] = (a \o b)[j]
  BY <1>1 DEF At
<1>3. At(s, o, a)
  <2>1. \A j \in 1..Len(a) : j \in 1..(Len(a) + Len(b)) /\ j <= Len(a) BY <1>1
  <2>2. \A j \in 1..Len(a) : s[o + j] = a[j] BY <1>1, <1>2, <2>1
  <2>3. QED BY <1>1, <1>2, <2>2 DEF At
<1>4. At(s, o + Len(a), b)
  <2>1. ASSUME NEW j \in 1..Len(b) PROVE s[(o + Len(a)) + j] = b[j]
    <3>1. /\ Len(a) + j \in 1..(Len(a) + Len(b)) /\ ~(Len(a) + j <= Len(a))
          /\ (Len(a) + j) - Len(a) = j /\ (o + Len(a)) + j = o + (Len(a) + j)
      BY <1>1, <1>2
    <3>2. QED BY <1>1, <1>2, <3>1
  <2>2. QED BY <1>1, <1>2, <2>1 DEF At
<1>5. QED BY <1>3, <1>4

LEMMA BytesStand ==
    ASSUME NEW s \in Seq(Byte), NEW base \in Nat, NEW pointer, NEW v \in Seq(Byte),
           NEW offset \in 0..MaxSafeInteger,
           At(s, pointer, Uint256(offset)), At(s, base + offset, AbiBytes(v))
    PROVE  HasBytes(s, base, pointer, v)
<1> DEFINE w == Uint256(Len(v))
<1>1. /\ w \in Seq(Byte) /\ Len(w) = Word /\ Pad(v) \in Seq(Byte)
      /\ AbiBytes(v) = (w \o v) \o Pad(v)
  BY AbiBytesIs
<1> HIDE DEF w
<1>2. w \o v \in Seq(Byte) BY <1>1, ConcatProperties
<1>3. At(s, base + offset, w \o v) BY <1>1, <1>2, AtParts
<1>4. At(s, base + offset, w) /\ At(s, base + offset + Word, v) BY <1>1, <1>3, AtParts
<1>5. QED BY <1>4 DEF HasBytes, w

LEMMA AbiListIs ==
    ASSUME NEW list \in Seq(Nat)
    PROVE  /\ Len(list) \in Nat
           /\ AbiUint256Array(list) \in Seq(Byte)
           /\ Len(AbiUint256Array(list)) = abiUint256ArraySize(list)
           /\ abiUint256ArraySize(list) \in Nat /\ Len(list) <= abiUint256ArraySize(list)
           /\ \A s \in Seq(Byte) : \A o \in Nat : At(s, o, AbiUint256Array(list)) =>
                 /\ At(s, o, Uint256(Len(list)))
                 /\ \A i \in 1..Len(list) : At(s, o + Word * i, Uint256(list[i]))
                 /\ o + Word * (1 + Len(list)) <= Len(s)
<1> DEFINE n == Len(list)  w == Uint256(n)
           words == [i \in DOMAIN list |-> Uint256(list[i])]
           ends == [i \in 1..(n + 1) |-> Word * (i - 1)]
           rest == FlattenSeq(words)
<1>1. /\ n \in Nat /\ Word \in Nat \ {0} /\ DOMAIN list = 1..n
      /\ \A i \in 1..n : list[i] \in Nat
  BY SizesAssumption, LenProperties, ElementOfSeq
<1>2. w \in Seq(Byte) /\ Len(w) = Word BY <1>1, Uint256IsWord
<1>3. \A i \in 1..n : Uint256(list[i]) \in Seq(Byte) /\ Len(Uint256(list[i])) = Word
  BY <1>1, Uint256IsWord
<1>4. words \in [1..n -> Seq(Byte)] BY <1>1, <1>3
<1>5. \A i \in 1..n : words[i] = Uint256(list[i]) BY <1>1
<1>6. words \in Seq(Seq(Byte)) /\ Len(words) = n
  <2> HIDE DEF words, n
  <2>1. QED BY <1>1, <1>4, FunctionIsSeq
<1>7. Begins(ends, words)
  <2>1. ends[1] = 0 BY <1>1
  <2>2. ASSUME NEW k \in 1..n PROVE ends[k + 1] = ends[k] + Len(words[k])
    <3>1. k \in 1..(n + 1) /\ k + 1 \in 1..(n + 1) /\ (k + 1) - 1 = k /\ k - 1 \in Nat BY <1>1
    <3>2. ends[k] = Word * (k - 1) /\ ends[k + 1] = Word * k BY <3>1
    <3>3. Word * k = Word * (k - 1) + Word BY <1>1, <3>1
    <3>4. Len(words[k]) = Word BY <1>3, <1>5
    <3> HIDE DEF ends, words
    <3>5. QED BY <3>2, <3>3, <3>4
  <2> HIDE DEF ends, words, n
  <2>3. QED BY <1>6, <2>1, <2>2 DEF Begins
<1>8. ends[n + 1] = Word * n /\ \A k \in 1..n : ends[k] = Word * (k - 1)
  <2>1. n + 1 \in 1..(n + 1) /\ (n + 1) - 1 = n /\ \A k \in 1..n : k \in 1..(n + 1) BY <1>1
  <2>2. QED BY <2>1
<1> HIDE DEF words, ends, n, w
<1>9. rest \in Seq(Byte) /\ IsLaid(rest, ends, words) BY <1>6, <1>7, FlattenIsLaid
<1> HIDE DEF rest
<1>10. AbiUint256Array(list) = w \o rest BY DEF AbiUint256Array, w, n, rest, words
<1>11. Len(rest) = Word * n /\ \A k \in 1..n : At(rest, Word * (k - 1), Uint256(list[k]))
  BY <1>5, <1>6, <1>8, <1>9 DEF IsLaid
<1>12. w \o rest \in Seq(Byte) /\ Len(w \o rest) = Word + Word * n
  BY <1>2, <1>9, <1>11, ConcatProperties
<1>13. abiUint256ArraySize(list) = Word + Word * n
  <2>1. Word * (1 + n) = Word + Word * n BY <1>1
  <2>2. QED BY <2>1 DEF abiUint256ArraySize, n
<1>14. Word * n \in Nat /\ n <= Word * n
  <2>1. n * 1 <= n * Word /\ n * Word \in Nat BY <1>1, ProductOrder
  <2>2. n * Word = Word * n /\ n * 1 = n BY <1>1
  <2>3. QED BY <2>1, <2>2
<1>15. ASSUME NEW s \in Seq(Byte), NEW o \in Nat, At(s, o, w \o rest)
       PROVE  /\ At(s, o, w)
              /\ \A i \in 1..n : At(s, o + Word * i, Uint256(list[i]))
              /\ o + Word * (1 + n) <= Len(s)
  <2>1. At(s, o, w) /\ At(s, o + Word, rest) BY <1>2, <1>9, <1>15, AtParts
  <2>2. ASSUME NEW i \in 1..n PROVE At(s, o + Word * i, Uint256(list[i]))
    <3> DEFINE u == Word * (i - 1)  b == Uint256(list[i])
    <3>1. i - 1 \in Nat BY <1>1
    <3>2. u \in Nat /\ Word * i = u + Word BY <1>1, <3>1
    <3>3. At(rest, u, b) BY <1>11
    <3>4. b \in Seq(Byte) /\ Len(b) \in Nat BY <1>1, <1>3
    <3> HIDE DEF u, b
    <3>5. At(s, (o + Word) + u, b)
      <4>1. /\ Len(rest) \in Nat /\ Len(s) \in Nat
            /\ (o + Word) + Len(rest) <= Len(s)
            /\ \A j \in 1..Len(rest) : s[(o + Word) + j] = rest[j]
        BY <1>9, <2>1, LenProperties DEF At
      <4>2. u + Len(b) <= Len(rest) /\ \A j \in 1..Len(b) : rest[u + j] = b[j] BY <3>3 DEF At
      <4>3. (o + Word) + u \in Nat /\ ((o + Word) + u) + Len(b) <= Len(s)
        BY <1>1, <3>2, <3>4, <4>1, <4>2
      <4>4. ASSUME NEW j \in 1..Len(b) PROVE s[((o + Word) + u) + j] = b[j]
        <5>1. j \in Nat /\ j <= Len(b) /\ 1 <= j BY <3>4
        <5>2. ((o + Word) + u) + j = (o + Word) + (u + j) BY <1>1, <3>2, <5>1
        <5>3. u + j \in Nat /\ 1 <= u + j BY <3>2, <5>1
        <5>4. u + j <= Len(rest) BY <3>2, <3>4, <4>1, <4>2, <5>1
        <5>5. u + j \in 1..Len(rest) BY <4>1, <5>3, <5>4
        <5>6. s[(o + Word) + (u + j)] = rest[u + j] BY <4>1, <5>5
        <5>7. rest[u + j] = b[j] BY <4>2
        <5>8. QED BY <5>2, <5>6, <5>7
      <4>5. QED BY <4>3, <4>4 DEF At
    <3>6. (o + Word) + u = o + Word * i BY <1>1, <3>2
    <3>7. QED BY <3>5, <3>6 DEF b
  <2>3. o + Word * (1 + n) <= Len(s)
    <3>1. (o + Word) + Len(rest) <= Len(s) BY <2>1 DEF At
    <3> DEFINE m == Word * n
    <3>2. Word * (1 + n) = Word + m BY <1>1
    <3>3. (o + Word) + m <= Len(s) /\ m \in Nat BY <1>11, <1>14, <3>1
    <3> HIDE DEF m
    <3>4. o + (Word + m) <= Len(s) BY <1>1, <3>3, LenProperties
    <3>5. QED BY <3>2, <3>4
  <2>4. QED BY <2>1, <2>2, <2>3
<1>16. QED BY <1>1, <1>10, <1>12, <1>13, <1>14, <1>15 DEF n, w

LEMMA ListStands ==
    ASSUME NEW s \in Seq(Byte), NEW base \in Nat, NEW pointer, NEW list \in Seq(Nat),
           NEW offset \in 0..MaxSafeInteger,
           At(s, pointer, Uint256(offset)), At(s, base + offset, AbiUint256Array(list))
    PROVE  HasList(s, base, pointer, list)
<1>1. base + offset \in Nat BY SizesAssumption
<1>2. /\ At(s, base + offset, Uint256(Len(list)))
      /\ \A i \in 1..Len(list) : At(s, base + offset + Word * i, Uint256(list[i]))
      /\ base + offset + Word * (1 + Len(list)) <= Len(s)
  BY <1>1, AbiListIs
<1>3. QED BY <1>2 DEF HasList

-----------------------------------------------------------------------------
(* The library's encoder, for any types: a head of a word for each field,  *)
(* and the tails behind the heads.                                         *)
Tails(types, fs) == [i \in DOMAIN types |->
                        CASE types[i] = "bytes" -> AbiBytes(fs[i])
                          [] types[i] = "uint256[]" -> AbiUint256Array(fs[i])
                          [] OTHER -> << >>]

\* Where the tail of a field begins.
TailAt(types, fs, i) == Len(types) * Word + Len(FlattenSeq(SubSeq(Tails(types, fs), 1, i - 1)))

HeadOf(types, fs, i) == CASE types[i] = "uint256" -> Uint256(fs[i])
                          [] types[i] = "address" -> AddressWord(fs[i])
                          [] OTHER -> Uint256(TailAt(types, fs, i))
Heads(types, fs) == [i \in DOMAIN types |-> HeadOf(types, fs, i)]

LEMMA AbiEncodeIs ==
    ASSUME NEW types, NEW fs
    PROVE  AbiEncode(types, fs) = FlattenSeq(Heads(types, fs)) \o FlattenSeq(Tails(types, fs))
BY DEF AbiEncode, Heads, HeadOf, TailAt, Tails

\* What the field of a type may be, if it is to be written.
WrittenAs(type, x) ==
    /\ type = "uint256" => x \in Nat /\ Writable(x)
    /\ type = "address" => x \in Address
    /\ type = "bytes" => x \in Seq(Byte)
    /\ type = "uint256[]" => x \in Seq(Nat) /\ \A k \in 1..Len(x) : Writable(x[k])

WellTyped(types, fs, n) ==
    /\ n \in Nat /\ types \in [1..n -> Types]
    /\ \A i \in 1..n : WrittenAs(types[i], fs[i])

(* How much there is before each of the sequences.                         *)
Starts(ss) == [k \in 1..(Len(ss) + 1) |-> Len(FlattenSeq(SubSeq(ss, 1, k - 1)))]

LEMMA StartsBegin ==
    ASSUME NEW T, NEW ss \in Seq(Seq(T))
    PROVE  /\ Begins(Starts(ss), ss)
           /\ \A k \in 1..(Len(ss) + 1) : Starts(ss)[k] \in Nat
<1> DEFINE n == Len(ss)  ends == Starts(ss)
<1>1. n \in Nat /\ \A k \in 1..n : ss[k] \in Seq(T) BY LenProperties, ElementOfSeq
<1>2. \A k \in 0..n : SubSeq(ss, 1, k) \in Seq(Seq(T)) BY <1>1, SubSeqProperties
<1>3. ASSUME NEW k \in 1..n
      PROVE  Len(FlattenSeq(SubSeq(ss, 1, k))) =
                 Len(FlattenSeq(SubSeq(ss, 1, k - 1))) + Len(ss[k])
  <2> DEFINE s == SubSeq(ss, 1, k - 1)
  <2>1. 1 \in 1..Len(ss) /\ k \in 1..Len(ss) /\ k - 1 \in 0..n BY <1>1
  <2>2. SubSeq(ss, 1, k) = s \o << ss[k] >> BY <2>1, SubSeqRecursiveSecond
  <2>3. s \in Seq(Seq(T)) BY <1>2, <2>1
  <2> HIDE DEF s
  <2>4. FlattenSeq(s \o << ss[k] >>) = FlattenSeq(s) \o ss[k] BY <1>1, <2>3, FlattenAppend
  <2>5. FlattenSeq(s) \in Seq(T) BY <2>3, FlattenIsSeq
  <2>6. Len(FlattenSeq(s) \o ss[k]) = Len(FlattenSeq(s)) + Len(ss[k])
    BY <1>1, <2>5, ConcatProperties
  <2>7. QED BY <2>2, <2>4, <2>6 DEF s
<1>4. \A k \in 1..n : k \in 1..(n + 1) /\ k + 1 \in 1..(n + 1) /\ (k + 1) - 1 = k BY <1>1
<1>5. \A k \in 1..n : /\ ends[k] = Len(FlattenSeq(SubSeq(ss, 1, k - 1)))
                      /\ ends[k + 1] = Len(FlattenSeq(SubSeq(ss, 1, k)))
  BY <1>4 DEF Starts
<1>6. ends[1] = 0
  <2>1. 1 \in 1..(n + 1) /\ 1 - 1 = 0 BY <1>1
  <2>2. SubSeq(ss, 1, 0) = << >> BY SubSeqEmpty
  <2>3. FlattenSeq(SubSeq(ss, 1, 0)) = << >> BY <2>2, FlattenNone
  <2>4. Len(<< >>) = 0 BY EmptySeq
  <2>5. QED BY <2>1, <2>3, <2>4 DEF Starts
<1>7. ASSUME NEW k \in 1..(n + 1) PROVE ends[k] \in Nat
  <2>1. k - 1 \in 0..n BY <1>1
  <2>2. FlattenSeq(SubSeq(ss, 1, k - 1)) \in Seq(T) BY <1>2, <2>1, FlattenIsSeq
  <2>3. QED BY <2>2, LenProperties DEF Starts
<1> HIDE DEF ends
<1>8. Begins(ends, ss) BY <1>3, <1>5, <1>6 DEF Begins
<1>9. QED BY <1>7, <1>8 DEF ends

(* Each of some sequences begins behind those before it.                   *)
LEMMA FlattenBegins ==
    ASSUME NEW T, NEW ss \in Seq(Seq(T))
    PROVE  \A k \in 1..Len(ss) :
              /\ At(FlattenSeq(ss), Len(FlattenSeq(SubSeq(ss, 1, k - 1))), ss[k])
              /\ k = Len(ss) => Len(FlattenSeq(ss)) =
                                   Len(FlattenSeq(SubSeq(ss, 1, k - 1))) + Len(ss[k])
<1> DEFINE n == Len(ss)  ends == Starts(ss)
<1>1. n \in Nat BY LenProperties
<1>2. \A k \in 1..n : k \in 1..(n + 1) BY <1>1
<1>3. \A k \in 1..n : ends[k] = Len(FlattenSeq(SubSeq(ss, 1, k - 1))) BY <1>2 DEF Starts
<1> HIDE DEF ends
<1>4. Begins(ends, ss) BY StartsBegin DEF ends
<1>5. IsLaid(FlattenSeq(ss), ends, ss) BY <1>4, FlattenIsLaid
<1>6. ASSUME NEW k \in 1..n
      PROVE  At(FlattenSeq(ss), Len(FlattenSeq(SubSeq(ss, 1, k - 1))), ss[k])
  BY <1>3, <1>5 DEF IsLaid
<1>7. ASSUME n > 0
      PROVE  Len(FlattenSeq(ss)) = Len(FlattenSeq(SubSeq(ss, 1, n - 1))) + Len(ss[n])
  <2>1. n \in 1..n BY <1>1, <1>7
  <2>2. Len(FlattenSeq(ss)) = ends[n + 1] BY <1>5 DEF IsLaid
  <2>3. ends[n + 1] = ends[n] + Len(ss[n]) BY <1>4, <2>1 DEF Begins
  <2>4. QED BY <1>3, <2>1, <2>2, <2>3
<1>8. \A k \in 1..n : k = n => n > 0 BY <1>1
<1>9. QED BY <1>6, <1>7, <1>8

(* What the library writes stands where its offsets say.                   *)
LEMMA TailsAre ==
    ASSUME NEW types, NEW fs, NEW n, WellTyped(types, fs, n)
    PROVE  /\ Tails(types, fs) \in Seq(Seq(Byte)) /\ Len(Tails(types, fs)) = n
           /\ Len(types) = n /\ DOMAIN types = 1..n
<1> DEFINE t == Tails(types, fs)
<1>1. n \in Nat /\ types \in [1..n -> Types] /\ \A i \in 1..n : WrittenAs(types[i], fs[i])
  BY DEF WellTyped
<1>2. Len(types) = n /\ DOMAIN types = 1..n BY <1>1, FunctionIsSeq
<1>3. \A i \in 1..n : t[i] \in Seq(Byte)
  <2>1. ASSUME NEW i \in 1..n, types[i] = "bytes" PROVE t[i] \in Seq(Byte)
    <3>1. fs[i] \in Seq(Byte) BY <1>1, <2>1 DEF WrittenAs
    <3>2. t[i] = AbiBytes(fs[i]) BY <1>2, <2>1 DEF Tails
    <3>3. QED BY <3>1, <3>2, AbiBytesIs
  <2>2. ASSUME NEW i \in 1..n, types[i] = "uint256[]" PROVE t[i] \in Seq(Byte)
    <3>1. fs[i] \in Seq(Nat) BY <1>1, <2>2 DEF WrittenAs
    <3>2. t[i] = AbiUint256Array(fs[i]) BY <1>2, <2>2 DEF Tails
    <3>3. QED BY <3>1, <3>2, AbiListIs
  <2>3. ASSUME NEW i \in 1..n, types[i] # "bytes", types[i] # "uint256[]" PROVE t[i] \in Seq(Byte)
    <3>1. t[i] = << >> BY <1>2, <2>3 DEF Tails
    <3>2. QED BY <3>1, EmptySeq
  <2>4. QED BY <2>1, <2>2, <2>3
<1>4. t = [i \in 1..n |-> t[i]] BY <1>2 DEF Tails
<1> HIDE DEF t
<1>5. t \in [1..n -> Seq(Byte)] BY <1>3, <1>4
<1>6. t \in Seq(Seq(Byte)) /\ Len(t) = n BY <1>1, <1>5, FunctionIsSeq
<1>7. QED BY <1>2, <1>6 DEF t

LEMMA HeadsAre ==
    ASSUME NEW types, NEW fs, NEW n, WellTyped(types, fs, n)
    PROVE  /\ Heads(types, fs) \in Seq(Seq(Byte)) /\ Len(Heads(types, fs)) = n
           /\ \A i \in 1..n : /\ TailAt(types, fs, i) \in Nat
                              /\ Heads(types, fs)[i] = HeadOf(types, fs, i)
                              /\ HeadOf(types, fs, i) \in Seq(Byte)
                              /\ Len(HeadOf(types, fs, i)) = Word
<1> DEFINE h == Heads(types, fs)  t == Tails(types, fs)
<1>1. n \in Nat /\ types \in [1..n -> Types] /\ \A i \in 1..n : WrittenAs(types[i], fs[i])
  BY DEF WellTyped
<1>2. Len(types) = n /\ DOMAIN types = 1..n /\ t \in Seq(Seq(Byte)) /\ Len(t) = n BY TailsAre
<1>3. ASSUME NEW i \in 1..n PROVE TailAt(types, fs, i) \in Nat
  <2> HIDE DEF t
  <2>1. \A k \in 1..(i - 1) : t[k] \in Seq(Byte) BY <1>2, ElementOfSeq
  <2>2. SubSeq(t, 1, i - 1) \in Seq(Seq(Byte)) BY <2>1, SubSeqProperties
  <2>3. Len(FlattenSeq(SubSeq(t, 1, i - 1))) \in Nat BY <2>2, FlattenIsSeq, LenProperties
  <2>4. n * Word \in Nat BY <1>1, SizesAssumption
  <2>5. QED BY <1>2, <2>3, <2>4 DEF TailAt, t
<1>4. ASSUME NEW i \in 1..n
      PROVE  HeadOf(types, fs, i) \in Seq(Byte) /\ Len(HeadOf(types, fs, i)) = Word
  <2>1. ASSUME types[i] = "uint256" PROVE <1>4!2
    <3>1. fs[i] \in Nat BY <1>1, <2>1 DEF WrittenAs
    <3>2. HeadOf(types, fs, i) = Uint256(fs[i]) BY <2>1 DEF HeadOf
    <3>3. QED BY <3>1, <3>2, Uint256IsWord
  <2>2. ASSUME types[i] = "address" PROVE <1>4!2
    <3>1. fs[i] \in Address BY <1>1, <2>2 DEF WrittenAs
    <3>2. HeadOf(types, fs, i) = AddressWord(fs[i]) BY <2>2 DEF HeadOf
    <3>3. QED BY <3>1, <3>2, AddressWordIs
  <2>3. ASSUME types[i] # "uint256", types[i] # "address" PROVE <1>4!2
    <3>1. HeadOf(types, fs, i) = Uint256(TailAt(types, fs, i)) BY <2>3 DEF HeadOf
    <3>2. QED BY <1>3, <3>1, Uint256IsWord
  <2>4. QED BY <2>1, <2>2, <2>3
<1>5. h = [i \in 1..n |-> HeadOf(types, fs, i)] BY <1>2 DEF Heads
<1> HIDE DEF h, t
<1>6. h \in [1..n -> Seq(Byte)] BY <1>4, <1>5
<1>7. h \in Seq(Seq(Byte)) /\ Len(h) = n BY <1>1, <1>6, FunctionIsSeq
<1>8. QED BY <1>3, <1>4, <1>5, <1>7 DEF h
LEMMA BytesAssociative ==
    \A a, b, c \in Seq(Byte) : (a \o b) \o c = a \o (b \o c)
BY ConcatAssociative

LEMMA PrefixOfPrefix ==
    ASSUME NEW T, NEW s \in Seq(T), NEW m \in 0..Len(s), NEW k \in 0..m
    PROVE  SubSeq(SubSeq(s, 1, m), 1, k) = SubSeq(s, 1, k)
<1>1. Len(s) \in Nat /\ m \in Nat /\ k \in Nat /\ k <= m /\ m <= Len(s) BY LenProperties
<1>2. \A i \in 1..m : s[i] \in T BY <1>1, ElementOfSeq
<1> DEFINE t == SubSeq(s, 1, m)
<1>3. t \in Seq(T) /\ Len(t) = m /\ \A i \in 1..m : t[i] = s[i] BY <1>1, <1>2, SubSeqProperties
<1> HIDE DEF t
<1>4. \A i \in 1..k : t[i] \in T /\ s[i] \in T /\ t[i] = s[i] BY <1>1, <1>2, <1>3
<1>5. /\ SubSeq(t, 1, k) \in Seq(T) /\ Len(SubSeq(t, 1, k)) = k
      /\ \A i \in 1..k : SubSeq(t, 1, k)[i] = t[i]
  BY <1>1, <1>4, SubSeqProperties
<1>6. /\ SubSeq(s, 1, k) \in Seq(T) /\ Len(SubSeq(s, 1, k)) = k
      /\ \A i \in 1..k : SubSeq(s, 1, k)[i] = s[i]
  BY <1>1, <1>4, SubSeqProperties
<1>7. SubSeq(t, 1, k) = SubSeq(s, 1, k) BY <1>4, <1>5, <1>6, SeqEqual
<1>8. QED BY <1>7 DEF t

LEMMA HeadsStand ==
    ASSUME NEW types, NEW fs, NEW n, WellTyped(types, fs, n)
    PROVE  /\ FlattenSeq(Heads(types, fs)) \in Seq(Byte)
           /\ Len(FlattenSeq(Heads(types, fs))) = n * Word
           /\ \A i \in 1..n :
                 At(FlattenSeq(Heads(types, fs)), Word * (i - 1), HeadOf(types, fs, i))
<1> DEFINE h == Heads(types, fs)  ends == [i \in 1..(n + 1) |-> Word * (i - 1)]
<1>1. n \in Nat /\ Word \in Nat BY SizesAssumption DEF WellTyped
<1>2. /\ h \in Seq(Seq(Byte)) /\ Len(h) = n
      /\ \A i \in 1..n : h[i] = HeadOf(types, fs, i) /\ Len(h[i]) = Word
  BY HeadsAre
<1>3. /\ \A i \in 1..n : ends[i] = Word * (i - 1) /\ ends[i + 1] = Word * (i - 1) + Word
      /\ ends[1] = 0 /\ ends[n + 1] = n * Word
  <2>1. ASSUME NEW i \in 1..n
        PROVE  ends[i] = Word * (i - 1) /\ ends[i + 1] = Word * (i - 1) + Word
    <3>1. i \in 1..(n + 1) /\ i + 1 \in 1..(n + 1) /\ (i + 1) - 1 = i BY <1>1
    <3>2. Word * i = Word * (i - 1) + Word BY <1>1
    <3>3. QED BY <3>1, <3>2
  <2>2. 1 \in 1..(n + 1) /\ n + 1 \in 1..(n + 1) /\ (n + 1) - 1 = n /\ 1 - 1 = 0 BY <1>1
  <2>3. Word * n = n * Word /\ Word * 0 = 0 BY <1>1
  <2>4. QED BY <2>1, <2>2, <2>3
<1> HIDE DEF h, ends
<1>4. Begins(ends, h) BY <1>2, <1>3 DEF Begins
<1>5. FlattenSeq(h) \in Seq(Byte) /\ IsLaid(FlattenSeq(h), ends, h)
  BY <1>2, <1>4, FlattenIsLaid
<1>6. QED BY <1>2, <1>3, <1>5 DEF IsLaid, h

(* A last field of bytes: all that is read again, and padding behind it.   *)
IsFront(front, types, fs, n) ==
    /\ front \in Seq(Byte) /\ Len(front) = TailAt(types, fs, n)
    /\ \A i \in 1..n : At(front, Word * (i - 1), HeadOf(types, fs, i))
    /\ \A i \in 1..(n - 1) : At(front, TailAt(types, fs, i), Tails(types, fs)[i])

LEMMA EncodedAs ==
    ASSUME NEW types, NEW fs, NEW n \in Nat \ {0}, WellTyped(types, fs, n)
    PROVE  \E front : /\ IsFront(front, types, fs, n)
                      /\ AbiEncode(types, fs) = front \o Tails(types, fs)[n]
<1> DEFINE h == FlattenSeq(Heads(types, fs))  t == Tails(types, fs)
           s == SubSeq(t, 1, n - 1)  front == h \o FlattenSeq(s)
<1>1. n \in Nat /\ Word \in Nat /\ n - 1 \in Nat /\ n \in 1..n BY SizesAssumption
<1>2. /\ h \in Seq(Byte) /\ Len(h) = n * Word /\ n * Word \in Nat
      /\ \A i \in 1..n : At(h, Word * (i - 1), HeadOf(types, fs, i))
  BY <1>1, HeadsStand
<1>3. t \in Seq(Seq(Byte)) /\ Len(t) = n /\ Len(types) = n BY TailsAre
<1>4. \A i \in 1..n : TailAt(types, fs, i) = n * Word + Len(FlattenSeq(SubSeq(t, 1, i - 1)))
  BY <1>3 DEF TailAt
<1> HIDE DEF h, t
<1>5. \A k \in 1..n : t[k] \in Seq(Byte) BY <1>3, ElementOfSeq
<1>6. s \in Seq(Seq(Byte)) /\ Len(s) = n - 1 /\ \A k \in 1..(n - 1) : s[k] = t[k]
  <2>1. \A k \in 1..(n - 1) : t[k] \in Seq(Byte) BY <1>1, <1>5
  <2>2. QED BY <1>1, <2>1, SubSeqProperties
<1>7. \A k \in 1..(n - 1) : SubSeq(s, 1, k - 1) = SubSeq(t, 1, k - 1)
  <2>1. TAKE k \in 1..(n - 1)
  <2>2. n - 1 \in 0..Len(t) /\ k - 1 \in 0..(n - 1) BY <1>1, <1>3
  <2>3. QED BY <1>3, <2>2, PrefixOfPrefix
<1>8. t = s \o << t[n] >>
  <2>1. 1 \in 1..Len(t) /\ n \in 1..Len(t) BY <1>1, <1>3
  <2>2. SubSeq(t, 1, n) = SubSeq(t, 1, n - 1) \o << t[n] >> BY <1>3, <2>1, SubSeqRecursiveSecond
  <2>3. SubSeq(t, 1, n) = t BY <1>3, SubSeqFull
  <2>4. QED BY <2>2, <2>3
<1>9. s = SubSeq(t, 1, n - 1) OBVIOUS
<1> HIDE DEF s
<1>10. FlattenSeq(s) \in Seq(Byte) BY <1>6, FlattenIsSeq
<1>11. FlattenSeq(t) = FlattenSeq(s) \o t[n] BY <1>1, <1>5, <1>6, <1>8, FlattenAppend
<1>12. AbiEncode(types, fs) = h \o FlattenSeq(t) BY AbiEncodeIs DEF h, t
<1>13. h \o (FlattenSeq(s) \o t[n]) = (h \o FlattenSeq(s)) \o t[n]
  <2> DEFINE x == FlattenSeq(s)  y == t[n]
  <2>1. x \in Seq(Byte) /\ y \in Seq(Byte) /\ h \in Seq(Byte)
    BY <1>1, <1>2, <1>5, <1>10
  <2> HIDE DEF x, y
  <2>2. h \o (x \o y) = (h \o x) \o y BY <2>1, BytesAssociative
  <2>3. QED BY <2>2 DEF x, y
<1>14. front \in Seq(Byte) /\ Len(front) = n * Word + Len(FlattenSeq(s))
  BY <1>2, <1>10, ConcatProperties
<1>15. ASSUME NEW i \in 1..n PROVE At(front, Word * (i - 1), HeadOf(types, fs, i))
  <2>1. At(h, Word * (i - 1), HeadOf(types, fs, i)) BY <1>2
  <2>2. Word * (i - 1) \in Nat BY <2>1 DEF At
  <2>3. HeadOf(types, fs, i) \in Seq(Byte) BY HeadsAre
  <2>4. QED BY <1>2, <1>10, <2>1, <2>2, <2>3, AtConcat
<1>16. ASSUME NEW i \in 1..(n - 1) PROVE At(front, TailAt(types, fs, i), t[i])
  <2> DEFINE o == Len(FlattenSeq(SubSeq(t, 1, i - 1)))
  <2>1. i \in 1..Len(s) BY <1>6
  <2>2. At(FlattenSeq(s), o, s[i]) BY <1>6, <1>7, <2>1, FlattenBegins
  <2>3. o \in Nat BY <2>2 DEF At
  <2>4. s[i] = t[i] /\ i \in 1..n BY <1>1, <1>6
  <2>5. t[i] \in Seq(Byte) BY <1>5, <2>4
  <2>6. TailAt(types, fs, i) = Len(h) + o BY <1>2, <1>4, <2>4
  <2> HIDE DEF o
  <2>7. At(h \o FlattenSeq(s), Len(h) + o, t[i]) BY <1>2, <1>10, <2>2, <2>3, <2>4, <2>5, AtConcat
  <2>8. QED BY <2>6, <2>7
<1>17. TailAt(types, fs, n) = n * Word + Len(FlattenSeq(s)) BY <1>1, <1>4, <1>9
<1> HIDE DEF front
<1>18. IsFront(front, types, fs, n) BY <1>14, <1>15, <1>16, <1>17 DEF IsFront, t
<1>19. AbiEncode(types, fs) = front \o t[n] BY <1>11, <1>12, <1>13 DEF front
<1>20. QED BY <1>18, <1>19 DEF t
LEMMA BytesConcat ==
    \A a, b \in Seq(Byte) : a \o b \in Seq(Byte) /\ Len(a \o b) = Len(a) + Len(b)
BY ConcatProperties

LEMMA SliceAll ==
    ASSUME NEW d \in Seq(Byte)
    PROVE  sliceFrom(d, 0) = d
<1>1. sliceFrom(d, 0) = SubSeq(d, 1, Len(d)) BY DEF sliceFrom
<1>2. QED BY <1>1, SubSeqFull

\* A tail, whole or not, in a larger space.
LEMMA Within ==
    ASSUME NEW a \in Nat, NEW b \in Nat, NEW c \in Nat, NEW x \in Nat, NEW y \in Nat,
           a + b <= c, c <= x, y <= b
    PROVE  y <= x
OBVIOUS

\* What the library wrote up to its padding, and something behind it.
IsWhole(types, fs, n, front, rest, d) ==
    /\ n \in Nat \ {0} /\ WellTyped(types, fs, n) /\ types[n] = "bytes"
    /\ IsFront(front, types, fs, n) /\ rest \in Seq(Byte) /\ Len(d) <= MaxSafeInteger
    /\ d = (front \o (Uint256(Len(fs[n])) \o fs[n])) \o rest

(* What the library wrote, all that is read of it followed by anything, is *)
(* read as the fields.                                                     *)
LEMMA ReadsBack ==
    ASSUME NEW types, NEW fs, NEW n, NEW front, NEW rest, NEW d,
           IsWhole(types, fs, n, front, rest, d)
    PROVE  AbiDecode(types, d) = [i \in 1..n |-> << fs[i] >>]
<1> USE DEF IsWhole
<1> DEFINE v == fs[n]  w == Uint256(Len(v))
<1>1. /\ n \in Nat /\ Word \in Nat \ {0} /\ AddressSize \in Nat /\ MaxSafeInteger \in Nat
      /\ n \in 1..n /\ types \in [1..n -> Types]
  BY SizesAssumption DEF WellTyped
<1>2. \A i \in 1..n : WrittenAs(types[i], fs[i]) BY DEF WellTyped
<1>3. v \in Seq(Byte) /\ Len(v) \in Nat BY <1>1, <1>2, LenProperties DEF WrittenAs
<1>4. w \in Seq(Byte) /\ Len(w) = Word BY <1>3, Uint256IsWord
<1>5. /\ front \in Seq(Byte) /\ Len(front) = TailAt(types, fs, n)
      /\ \A i \in 1..n : At(front, Word * (i - 1), HeadOf(types, fs, i))
      /\ \A i \in 1..(n - 1) : At(front, TailAt(types, fs, i), Tails(types, fs)[i])
  BY DEF IsFront
<1> HIDE DEF v, w
<1>6. w \o v \in Seq(Byte) /\ Len(w \o v) = Word + Len(v) BY <1>3, <1>4, ConcatProperties
<1> DEFINE b == w \o v  e == front \o b
<1>7. d = e \o rest BY DEF v, w
<1>8. b \in Seq(Byte) /\ Len(b) = Word + Len(v) BY <1>6
<1>9. At(b, 0, w) /\ At(b, Word, v)
  <2>1. At(w, 0, w) /\ At(v, 0, v) BY <1>3, <1>4, LenProperties DEF At
  <2>2. At(w \o v, 0, w) /\ At(w \o v, Len(w) + 0, v) BY <1>3, <1>4, <2>1, AtConcat
  <2>3. Len(w) + 0 = Word BY <1>1, <1>4
  <2>4. QED BY <2>2, <2>3
<1> HIDE DEF b
<1>10. e \in Seq(Byte) /\ Len(e) = Len(front) + Len(b) BY <1>5, <1>8, ConcatProperties
<1> HIDE DEF e
<1>11. d \in Seq(Byte) /\ Len(d) = Len(e) + Len(rest) /\ Len(d) \in Nat /\ Len(rest) \in Nat
       /\ Len(front) \in Nat
  BY <1>5, <1>7, <1>10, ConcatProperties, LenProperties
<1>12. ASSUME NEW o \in Nat, NEW x \in Seq(Byte), At(front, o, x) PROVE At(d, o, x)
  <2>1. At(e, o, x) BY <1>5, <1>8, <1>12, AtConcat DEF e
  <2>2. QED BY <1>7, <1>10, <2>1, AtConcat
<1>13. ASSUME NEW o \in Nat, NEW x \in Seq(Byte), At(b, o, x) PROVE At(d, Len(front) + o, x)
  <2>1. At(e, Len(front) + o, x) BY <1>5, <1>8, <1>13, AtConcat DEF e
  <2>2. Len(front) + o \in Nat BY <1>11
  <2>3. QED BY <1>7, <1>10, <2>1, <2>2, AtConcat
<1>14. ASSUME NEW i \in 1..n
       PROVE  Word * (i - 1) \in Nat /\ At(d, Word * (i - 1), HeadOf(types, fs, i))
  <2>1. At(front, Word * (i - 1), HeadOf(types, fs, i)) BY <1>5
  <2>2. Word * (i - 1) \in Nat BY <2>1 DEF At
  <2>3. HeadOf(types, fs, i) \in Seq(Byte) BY HeadsAre
  <2>4. QED BY <1>12, <2>1, <2>2, <2>3
<1>15. ASSUME NEW i \in 1..n PROVE TailAt(types, fs, i) \in 0..MaxSafeInteger
  <2>1. TailAt(types, fs, i) \in Nat BY HeadsAre
  <2>2. TailAt(types, fs, i) <= Len(front)
    <3>1. CASE i = n BY <1>5, <1>11, <3>1
    <3>2. CASE i # n
      <4>1. i \in 1..(n - 1) BY <1>1, <3>2
      <4>2. At(front, TailAt(types, fs, i), Tails(types, fs)[i]) BY <1>5, <4>1
      <4>3. Tails(types, fs)[i] \in Seq(Byte) BY TailsAre, ElementOfSeq
      <4>4. Len(Tails(types, fs)[i]) \in Nat BY <4>3, LenProperties
      <4>5. TailAt(types, fs, i) + Len(Tails(types, fs)[i]) <= Len(front) BY <4>2 DEF At
      <4> DEFINE x == TailAt(types, fs, i)  y == Len(Tails(types, fs)[i])  z == Len(front)
      <4>6. x \in Nat /\ y \in Nat /\ z \in Nat /\ x + y <= z BY <1>11, <2>1, <4>4, <4>5
      <4> HIDE DEF x, y, z
      <4>7. x <= z BY <4>6
      <4>8. QED BY <4>7 DEF x, z
    <3>3. QED BY <3>1, <3>2
  <2>3. Len(front) <= Len(d) BY <1>3, <1>8, <1>10, <1>11, <1>1
  <2>4. QED BY <1>1, <1>11, <2>1, <2>2, <2>3
<1>16. /\ At(d, TailAt(types, fs, n), w) /\ At(d, TailAt(types, fs, n) + Word, v)
       /\ Len(v) <= MaxSafeInteger
  <2>1. At(d, Len(front) + 0, w) /\ At(d, Len(front) + Word, v)
    BY <1>1, <1>3, <1>4, <1>9, <1>13
  <2>2. Len(front) + 0 = Len(front) BY <1>11
  <2>3. Len(v) <= Len(d) BY <1>1, <1>3, <1>8, <1>10, <1>11
  <2>4. QED BY <1>1, <1>3, <1>5, <1>11, <2>1, <2>2, <2>3
<1>17. ASSUME NEW i \in 1..n PROVE AbiField(types[i], d, Word * (i - 1)) = << fs[i] >>
  <2> DEFINE o == Word * (i - 1)  head == HeadOf(types, fs, i)  at == TailAt(types, fs, i)
  <2>1. o \in Nat /\ At(d, o, head) BY <1>14
  <2>2. at \in 0..MaxSafeInteger /\ at \in Nat /\ 0 + at = at /\ 0 + o = o
    BY <1>1, <1>15, <2>1
  <2>3. sliceFrom(d, 0) = d BY <1>11, SliceAll
  <2>4. 0 \in 0..Len(d) BY <1>11
  <2>5. types[i] \in Types BY <1>1
  <2>6. WrittenAs(types[i], fs[i]) BY <1>2
  <2> HIDE DEF o
  <2>7. AbiField(types[i], d, o) = FieldByHand(types[i], d, 0, o)
    <3> DEFINE type == types[i]
    <3>1. d \in Seq(Byte) /\ Len(d) <= MaxSafeInteger /\ o \in Nat /\ type \in Types
      BY <1>11, <2>1, <2>5
    <3> HIDE DEF type
    <3>2. AbiField(type, sliceFrom(d, 0), o) = FieldByHand(type, d, 0, o)
      BY <2>4, <3>1, FieldsAgree
    <3>3. QED BY <2>3, <3>2 DEF type
  <2>8. CASE types[i] = "uint256"
    <3>1. head = Uint256(fs[i]) BY <2>8 DEF HeadOf
    <3>2. fs[i] \in Nat /\ Writable(fs[i]) BY <2>6, <2>8 DEF WrittenAs
    <3>3. readUint256(d, o) = << fs[i] >> BY <1>11, <2>1, <3>1, <3>2, WordAt
    <3>4. FieldByHand(types[i], d, 0, o) = readUint256(d, 0 + o) BY <2>8 DEF FieldByHand
    <3>5. QED BY <2>2, <2>7, <3>3, <3>4 DEF o
  <2>9. CASE types[i] = "address"
    <3>1. head = AddressWord(fs[i]) BY <2>9 DEF HeadOf
    <3>2. fs[i] \in Address BY <2>6, <2>9 DEF WrittenAs
    <3>3. readAddressWord(d, o) = << fs[i] >> BY <1>11, <2>1, <3>1, <3>2, AddressAt
    <3>4. FieldByHand(types[i], d, 0, o) = readAddressWord(d, 0 + o) BY <2>9 DEF FieldByHand
    <3>5. QED BY <2>2, <2>7, <3>3, <3>4 DEF o
  <2>10. CASE types[i] = "bytes"
    <3>1. head = Uint256(at) BY <2>10 DEF HeadOf
    <3>2. fs[i] \in Seq(Byte) BY <2>6, <2>10 DEF WrittenAs
    <3>3. FieldByHand(types[i], d, 0, o) = readAbiBytes(d, 0, 0 + o) BY <2>10 DEF FieldByHand
    <3>4. HasBytes(d, 0, o, fs[i]) /\ Len(fs[i]) <= MaxSafeInteger
      <4>1. CASE i = n
        <5>1. /\ At(d, 0 + at, Uint256(Len(fs[i]))) /\ At(d, 0 + at + Word, fs[i])
              /\ Len(fs[i]) <= MaxSafeInteger
          BY <1>16, <2>2, <4>1 DEF v, w
        <5>2. QED BY <2>1, <2>2, <3>1, <5>1 DEF HasBytes
      <4>2. CASE i # n
        <5>1. i \in 1..(n - 1) /\ DOMAIN types = 1..n BY <1>1, <4>2
        <5>2. At(front, at, Tails(types, fs)[i]) BY <1>5, <5>1
        <5>3. Tails(types, fs)[i] = AbiBytes(fs[i]) BY <2>10, <5>1 DEF Tails
        <5>4. /\ AbiBytes(fs[i]) \in Seq(Byte) /\ Len(AbiBytes(fs[i])) = abiBytesSize(fs[i])
              /\ abiBytesSize(fs[i]) \in Nat /\ Word + Len(fs[i]) <= abiBytesSize(fs[i])
              /\ Len(fs[i]) \in Nat
          BY <3>2, AbiBytesIs
        <5>5. At(d, 0 + at, AbiBytes(fs[i])) BY <1>12, <2>2, <5>2, <5>3, <5>4
        <5>6. HasBytes(d, 0, o, fs[i]) BY <1>11, <2>1, <2>2, <3>1, <3>2, <5>5, BytesStand
        <5>7. Len(fs[i]) <= MaxSafeInteger
          <6>1. at + abiBytesSize(fs[i]) <= Len(d) BY <2>2, <5>4, <5>5 DEF At
          <6>2. Len(fs[i]) <= abiBytesSize(fs[i])
            <7> DEFINE x == Len(fs[i])  y == abiBytesSize(fs[i])
            <7>1. x \in Nat /\ y \in Nat /\ Word + x <= y BY <5>4
            <7> HIDE DEF x, y
            <7>2. x <= y BY <1>1, <7>1
            <7>3. QED BY <7>2 DEF x, y
          <6> HIDE DEF at
          <6>3. QED BY <1>1, <1>11, <2>2, <5>4, <6>1, <6>2, Within
        <5>8. QED BY <5>6, <5>7
      <4>3. QED BY <4>1, <4>2
    <3>5. readAbiBytes(d, 0, o) = << fs[i] >> BY <1>11, <3>2, <3>4, BytesAt
    <3>6. QED BY <2>2, <2>7, <3>3, <3>5 DEF o
  <2>11. CASE types[i] = "uint256[]"
    <3>1. head = Uint256(at) BY <2>11 DEF HeadOf
    <3>2. fs[i] \in Seq(Nat) /\ \A k \in 1..Len(fs[i]) : Writable(fs[i][k])
      BY <2>6, <2>11 DEF WrittenAs
    <3>3. FieldByHand(types[i], d, 0, o) = readAbiUint256Array(d, 0, 0 + o)
      BY <2>11 DEF FieldByHand
    <3>4. i # n BY <2>11
    <3>5. i \in 1..(n - 1) /\ DOMAIN types = 1..n BY <1>1, <3>4
    <3>6. At(front, at, Tails(types, fs)[i]) BY <1>5, <3>5
    <3>7. Tails(types, fs)[i] = AbiUint256Array(fs[i]) BY <2>11, <3>5 DEF Tails
    <3>8. /\ AbiUint256Array(fs[i]) \in Seq(Byte)
          /\ Len(AbiUint256Array(fs[i])) = abiUint256ArraySize(fs[i])
          /\ abiUint256ArraySize(fs[i]) \in Nat
          /\ Len(fs[i]) <= abiUint256ArraySize(fs[i]) /\ Len(fs[i]) \in Nat
      BY <3>2, AbiListIs
    <3>9. At(d, 0 + at, AbiUint256Array(fs[i])) BY <1>12, <2>2, <3>6, <3>7, <3>8
    <3>10. HasList(d, 0, o, fs[i]) BY <1>11, <2>1, <2>2, <3>1, <3>2, <3>9, ListStands
    <3>11. Len(fs[i]) <= MaxSafeInteger
      <4>1. at + abiUint256ArraySize(fs[i]) <= Len(d) BY <2>2, <3>8, <3>9 DEF At
      <4> HIDE DEF at
      <4>2. QED BY <1>1, <1>11, <2>2, <3>8, <4>1, Within
    <3>12. readAbiUint256Array(d, 0, o) = << fs[i] >> BY <1>11, <3>2, <3>10, <3>11, ListAt
    <3>13. QED BY <2>2, <2>7, <3>3, <3>12 DEF o
  <2>12. QED BY <2>5, <2>8, <2>9, <2>10, <2>11 DEF Types
<1>18. AbiDecode(types, d) = [i \in 1..n |-> AbiField(types[i], d, Word * (i - 1))]
  <2>1. DOMAIN types = 1..n /\ \A i \in 1..n : types[i] \in Types BY <1>1
  <2>2. QED BY <1>1, <2>1, AbiFieldsAre
<1>19. QED BY <1>17, <1>18

\* The first m bytes of d do not hold all of v.
IsShort(d, base, pointer, v, offset, m) ==
    /\ d \in Seq(Byte) /\ base \in Nat /\ pointer \in Nat /\ v \in Seq(Byte)
    /\ offset \in 0..MaxSafeInteger /\ Len(v) <= MaxSafeInteger
    /\ At(d, pointer, Uint256(offset)) /\ At(d, base + offset, Uint256(Len(v)))
    /\ m \in 0..Len(d) /\ m < base + offset + Word + Len(v)

LEMMA ShortIsRefused ==
    ASSUME NEW d, NEW base, NEW pointer, NEW v, NEW offset, NEW m,
           IsShort(d, base, pointer, v, offset, m)
    PROVE  readAbiBytes(SubSeq(d, 1, m), base, pointer) = Refused
BY BytesMissing DEF IsShort

(* What has lost some of its last field is not read.                       *)
LEMMA CutIsNotRead ==
    ASSUME NEW types, NEW fs, NEW n \in Nat \ {0}, WellTyped(types, fs, n), types[n] = "bytes",
           NEW front, IsFront(front, types, fs, n), NEW d,
           d = front \o AbiBytes(fs[n]), Len(d) <= MaxSafeInteger,
           NEW m \in 0..Len(d), m < Len(front) + Word + Len(fs[n])
    PROVE  AbiDecode(types, SubSeq(d, 1, m))[n] = Refused
<1> DEFINE v == fs[n]  w == Uint256(Len(v))  t == SubSeq(d, 1, m)  p == Word * (n - 1)
           a == AbiBytes(v)
<1>1. /\ n \in Nat /\ Word \in Nat \ {0} /\ MaxSafeInteger \in Nat
      /\ n \in 1..n /\ types \in [1..n -> Types] /\ DOMAIN types = 1..n
  BY SizesAssumption DEF WellTyped
<1>2. v \in Seq(Byte) BY <1>1 DEF WellTyped, WrittenAs
<1>3. /\ front \in Seq(Byte) /\ Len(front) = TailAt(types, fs, n)
      /\ At(front, p, HeadOf(types, fs, n))
  BY <1>1 DEF IsFront
<1>4. p \in Nat /\ Len(front) \in Nat BY <1>3, LenProperties DEF At
<1>5. /\ a \in Seq(Byte) /\ w \in Seq(Byte) /\ Len(v) \in Nat /\ Pad(v) \in Seq(Byte)
      /\ Len(a) \in Nat /\ Word + Len(v) <= Len(a) /\ a = (w \o v) \o Pad(v)
  BY <1>2, AbiBytesIs
<1>6. HeadOf(types, fs, n) = Uint256(TailAt(types, fs, n)) BY DEF HeadOf
<1>7. HeadOf(types, fs, n) \in Seq(Byte) BY <1>1, HeadsAre
<1> HIDE DEF p, a, w
<1>8. d \in Seq(Byte) /\ Len(d) = Len(front) + Len(a)
  <2>1. front \o a \in Seq(Byte) /\ Len(front \o a) = Len(front) + Len(a)
    BY <1>3, <1>5, BytesConcat
  <2>2. QED BY <2>1 DEF a
<1>9. At(d, p, Uint256(Len(front)))
  <2>1. At(front \o a, p, HeadOf(types, fs, n)) BY <1>3, <1>4, <1>5, <1>7, AtConcat
  <2>2. QED BY <1>3, <1>6, <2>1 DEF a
<1>10. At(d, Len(front), w)
  <2>1. At(a, 0, a) BY <1>5 DEF At
  <2>2. At(front \o a, Len(front) + 0, a) BY <1>3, <1>5, <2>1, AtConcat
  <2>3. Len(front) + 0 = Len(front) BY <1>4
  <2>4. At(d, Len(front), (w \o v) \o Pad(v)) BY <1>5, <2>2, <2>3 DEF a
  <2>5. w \o v \in Seq(Byte) BY <1>2, <1>5, ConcatProperties
  <2>6. At(d, Len(front), w \o v) BY <1>5, <1>8, <2>4, <2>5, AtParts
  <2>7. QED BY <1>2, <1>5, <1>8, <2>6, AtParts
<1>11. /\ Len(front) \in 0..MaxSafeInteger /\ Len(v) <= MaxSafeInteger /\ 0 + Len(front) = Len(front)
       /\ 0 + p = p
  <2>1. Len(front) + Len(a) <= MaxSafeInteger BY <1>8
  <2> DEFINE x == Len(front)  y == Len(a)  z == Len(v)
  <2>2. x \in Nat /\ y \in Nat /\ z \in Nat /\ Word + z <= y /\ x + y <= MaxSafeInteger
    BY <1>4, <1>5, <2>1
  <2> HIDE DEF x, y, z
  <2>3. x \in 0..MaxSafeInteger /\ z <= MaxSafeInteger /\ 0 + x = x /\ 0 + p = p
    BY <1>1, <1>4, <2>2
  <2>4. QED BY <2>3 DEF x, z
<1>12. readAbiBytes(t, 0, p) = Refused
  <2>1. At(d, 0 + Len(front), Uint256(Len(v))) /\ m < 0 + Len(front) + Word + Len(v)
    BY <1>10, <1>11 DEF w
  <2> DEFINE x == Len(front)  base == 0
  <2>2. IsShort(d, base, p, v, x, m)
    BY <1>2, <1>4, <1>8, <1>9, <1>11, <2>1 DEF IsShort
  <2> HIDE DEF v, t, x, base
  <2>3. readAbiBytes(SubSeq(d, 1, m), base, p) = Refused BY <2>2, ShortIsRefused
  <2>4. QED BY <2>3 DEF t, base
<1>13. t \in Seq(Byte) /\ Len(t) = m BY <1>8, ReadOfPrefix
<1>14. AbiField("bytes", t, p) = readAbiBytes(t, 0, p)
  <2>1. sliceFrom(t, 0) = t BY <1>13, SliceAll
  <2>2. Len(t) <= MaxSafeInteger /\ 0 \in 0..Len(t) /\ "bytes" \in Types
    <3>1. Len(d) \in Nat /\ m \in Nat /\ m <= Len(d) BY <1>8, LenProperties
    <3>2. m <= MaxSafeInteger BY <1>1, <3>1
    <3>3. Len(t) = m BY <1>13
    <3> HIDE DEF t
    <3>4. QED BY <3>1, <3>2, <3>3 DEF Types
  <2> HIDE DEF t
  <2>3. AbiField("bytes", sliceFrom(t, 0), p) = FieldByHand("bytes", t, 0, p)
    BY <1>4, <1>13, <2>2, FieldsAgree
  <2>4. FieldByHand("bytes", t, 0, p) = readAbiBytes(t, 0, 0 + p) BY DEF FieldByHand
  <2>5. QED BY <1>11, <2>1, <2>3, <2>4
<1>15. AbiDecode(types, t) = [i \in 1..n |-> AbiField(types[i], t, Word * (i - 1))]
  <2>1. \A i \in 1..n : types[i] \in Types BY <1>1
  <2>2. QED BY <1>1, <2>1, AbiFieldsAre
<1>16. QED BY <1>1, <1>12, <1>14, <1>15 DEF p
-----------------------------------------------------------------------------
(* The encoders that work out every offset by hand write what the library  *)
(* writes.                                                                 *)

(* How tuples are joined.                                                  *)
IsConcat(S, s, t, r) ==
    /\ s \in Seq(S) /\ t \in Seq(S) /\ r \in Seq(S) /\ Len(r) = Len(s) + Len(t)
    /\ \A i \in 1..Len(s) : r[i] = s[i]
    /\ \A i \in 1..Len(t) : r[Len(s) + i] = t[i]

LEMMA ConcatIs ==
    ASSUME NEW S, NEW s, NEW t, NEW r, IsConcat(S, s, t, r)
    PROVE  s \o t = r
<1> DEFINE m == Len(s)  n == Len(t)
<1>0. s \in Seq(S) /\ t \in Seq(S) /\ r \in Seq(S) /\ Len(r) = m + n BY DEF IsConcat
<1>1. m \in Nat /\ n \in Nat BY <1>0, LenProperties
<1>2. /\ s \o t \in Seq(S) /\ Len(s \o t) = m + n
      /\ \A i \in 1..(m + n) : (s \o t)[i] = IF i <= m THEN s[i] ELSE t[i - m]
  BY <1>0, ConcatProperties
<1> DEFINE st == s \o t
<1> HIDE DEF st, m, n
<1>3. ASSUME NEW i \in 1..(m + n) PROVE st[i] = r[i]
  <2>1. CASE i <= m BY <1>1, <1>2, <2>1 DEF st, IsConcat, m
  <2>2. CASE ~(i <= m)
    <3>1. i - m \in 1..n /\ m + (i - m) = i BY <1>1, <2>2
    <3>2. r[m + (i - m)] = t[i - m] BY <3>1 DEF IsConcat, m, n
    <3>3. st[i] = t[i - m] BY <1>2, <2>2 DEF st
    <3>4. QED BY <3>1, <3>2, <3>3
  <2>3. QED BY <2>1, <2>2
<1>4. st = r BY <1>0, <1>2, <1>3, SeqEqual DEF st
<1>5. QED BY <1>4 DEF st

TuplesJoin(a, b, c, d) ==
    /\ <<a>> \o <<b>> = <<a, b>> /\ <<a, b>> \o <<c>> = <<a, b, c>>
    /\ <<a, b, c>> \o <<d>> = <<a, b, c, d>> /\ <<a, b>> \o <<c, d>> = <<a, b, c, d>>
    /\ <<a>> \o <<b, c>> = <<a, b, c>> /\ <<a>> \o <<b, c, d>> = <<a, b, c, d>>

LEMMA ShortTuples ==
    ASSUME NEW S, NEW a \in S, NEW b \in S, NEW c \in S, NEW d \in S
    PROVE  TuplesJoin(a, b, c, d)
<1>1. IsConcat(S, <<a>>, <<b>>, <<a, b>>)
  <2>1. <<a>> \in Seq(S) /\ <<b>> \in Seq(S) /\ <<a, b>> \in Seq(S) OBVIOUS
  <2>2. Len(<<a, b>>) = Len(<<a>>) + Len(<<b>>) OBVIOUS
  <2>3. \A i \in 1..Len(<<a>>) : <<a, b>>[i] = <<a>>[i] OBVIOUS
  <2>4. \A i \in 1..Len(<<b>>) : <<a, b>>[Len(<<a>>) + i] = <<b>>[i] OBVIOUS
  <2>5. QED BY ONLY <2>1, <2>2, <2>3, <2>4 DEF IsConcat
<1>2. IsConcat(S, <<a, b>>, <<c>>, <<a, b, c>>) BY DEF IsConcat
<1>3. IsConcat(S, <<a, b, c>>, <<d>>, <<a, b, c, d>>) BY DEF IsConcat
<1>4. IsConcat(S, <<a, b>>, <<c, d>>, <<a, b, c, d>>) BY DEF IsConcat
<1>5. IsConcat(S, <<a>>, <<b, c>>, <<a, b, c>>) BY DEF IsConcat
<1>6. IsConcat(S, <<a>>, <<b, c, d>>, <<a, b, c, d>>) BY DEF IsConcat
<1>7. QED BY <1>1, <1>2, <1>3, <1>4, <1>5, <1>6, ConcatIs DEF TuplesJoin

FiveJoin(a, b, c, d, e) == <<a, b, c, d>> \o <<e>> = <<a, b, c, d, e>>

LEMMA FiveTuples ==
    ASSUME NEW S, NEW a \in S, NEW b \in S, NEW c \in S, NEW d \in S, NEW e \in S
    PROVE  FiveJoin(a, b, c, d, e)
<1>1. IsConcat(S, <<a, b, c, d>>, <<e>>, <<a, b, c, d, e>>) BY DEF IsConcat
<1>2. QED BY <1>1, ConcatIs DEF FiveJoin

LongTuplesJoin(a, b, c, d, e, f, g, h, k, l) ==
    /\ <<a>> \o <<b, c, d, e>> = <<a, b, c, d, e>>
    /\ <<a, b, c, d>> \o <<e, f, g, h>> = <<a, b, c, d, e, f, g, h>>
    /\ <<a, b, c, d, e, f, g, h>> \o <<k>> = <<a, b, c, d, e, f, g, h, k>>
    /\ <<a>> \o <<b, c, d, e, f, g, h, k, l>> = <<a, b, c, d, e, f, g, h, k, l>>

LEMMA LongTuples ==
    ASSUME NEW S, NEW a \in S, NEW b \in S, NEW c \in S, NEW d \in S, NEW e \in S,
           NEW f \in S, NEW g \in S, NEW h \in S, NEW k \in S, NEW l \in S
    PROVE  LongTuplesJoin(a, b, c, d, e, f, g, h, k, l)
<1>1. IsConcat(S, <<a>>, <<b, c, d, e>>, <<a, b, c, d, e>>) BY DEF IsConcat
<1>2. IsConcat(S, <<a, b, c, d>>, <<e, f, g, h>>, <<a, b, c, d, e, f, g, h>>) BY DEF IsConcat
<1>3. IsConcat(S, <<a, b, c, d, e, f, g, h>>, <<k>>, <<a, b, c, d, e, f, g, h, k>>)
  BY DEF IsConcat
<1>4. IsConcat(S, <<a>>, <<b, c, d, e, f, g, h, k, l>>, <<a, b, c, d, e, f, g, h, k, l>>)
  BY DEF IsConcat
<1>5. QED BY <1>1, <1>2, <1>3, <1>4, ConcatIs DEF LongTuplesJoin

(* A few blocks, joined.                                                   *)
FewJoined(a, b, c, d) ==
    /\ <<a>> \in Seq(Seq(Byte)) /\ <<a, b>> \in Seq(Seq(Byte))
    /\ <<a, b, c>> \in Seq(Seq(Byte)) /\ <<a, b, c, d>> \in Seq(Seq(Byte))
    /\ FlattenSeq(<<a>>) = a /\ FlattenSeq(<<a, b>>) = a \o b
    /\ FlattenSeq(<<a, b, c>>) = (a \o b) \o c
    /\ FlattenSeq(<<a, b, c, d>>) = ((a \o b) \o c) \o d
    /\ Len(FlattenSeq(<<a, b>>)) = Len(a) + Len(b)
    /\ Len(FlattenSeq(<<a, b, c>>)) = Len(a) + Len(b) + Len(c)
    /\ Len(FlattenSeq(<<a, b, c, d>>)) = Len(a) + Len(b) + Len(c) + Len(d)

LEMMA FlattenFew ==
    ASSUME NEW a \in Seq(Byte), NEW b \in Seq(Byte), NEW c \in Seq(Byte), NEW d \in Seq(Byte)
    PROVE  FewJoined(a, b, c, d)
<1> DEFINE S == Seq(Byte)
<1>1. a \in S /\ b \in S /\ c \in S /\ d \in S OBVIOUS
<1> HIDE DEF S
<1>2. /\ << >> \in Seq(S) /\ <<a>> \in Seq(S) /\ <<a, b>> \in Seq(S)
      /\ <<a, b, c>> \in Seq(S) /\ <<a, b, c, d>> \in Seq(S)
  BY <1>1
<1>3. /\ <<a>> = << >> \o <<a>> /\ <<a, b>> = <<a>> \o <<b>>
      /\ <<a, b, c>> = <<a, b>> \o <<c>> /\ <<a, b, c, d>> = <<a, b, c>> \o <<d>>
  <2>1. <<a>> = << >> \o <<a>> BY <1>2, ConcatEmptySeq
  <2>2. <<a, b>> = <<a>> \o <<b>> /\ <<a, b, c>> = <<a, b>> \o <<c>>
        /\ <<a, b, c, d>> = <<a, b, c>> \o <<d>>
    <3>1. TuplesJoin(a, b, c, d) BY <1>1, ShortTuples
    <3>2. QED BY <3>1 DEF TuplesJoin
  <2>3. QED BY <2>1, <2>2
<1>4. ASSUME NEW s \in Seq(S), NEW x \in S
      PROVE  FlattenSeq(s \o <<x>>) = FlattenSeq(s) \o x
  <2>1. s \in Seq(Seq(Byte)) /\ x \in Seq(Byte) BY DEF S
  <2>2. QED BY <2>1, FlattenAppend
<1>5. FlattenSeq(<< >>) = << >> /\ << >> \o a = a BY FlattenNone, ConcatEmptySeq
<1>6. FlattenSeq(<<a>>) = a BY <1>1, <1>2, <1>3, <1>4, <1>5
<1>7. FlattenSeq(<<a, b>>) = a \o b BY <1>1, <1>2, <1>3, <1>4, <1>6
<1>8. FlattenSeq(<<a, b, c>>) = (a \o b) \o c BY <1>1, <1>2, <1>3, <1>4, <1>7
<1>9. FlattenSeq(<<a, b, c, d>>) = ((a \o b) \o c) \o d BY <1>1, <1>2, <1>3, <1>4, <1>8
<1>10. a \o b \in S /\ Len(a \o b) = Len(a) + Len(b) BY BytesConcat DEF S
<1>11. (a \o b) \o c \in S /\ Len((a \o b) \o c) = Len(a) + Len(b) + Len(c)
  BY <1>10, BytesConcat DEF S
<1>12. Len(((a \o b) \o c) \o d) = Len(a) + Len(b) + Len(c) + Len(d)
  BY <1>11, BytesConcat DEF S
<1>13. QED BY <1>2, <1>6, <1>7, <1>8, <1>9, <1>10, <1>11, <1>12 DEF S, FewJoined

(* A buffer that is exactly as large as what is written to it.             *)
IsSizeOf(size, front, heads, tails) ==
    size = Len(FlattenSeq(front)) + (Len(FlattenSeq(heads)) + Len(FlattenSeq(tails)))

LEMMA FilledIs ==
    ASSUME NEW front \in Seq(Seq(Byte)), NEW heads \in Seq(Seq(Byte)),
           NEW tails \in Seq(Seq(Byte)), NEW size, IsSizeOf(size, front, heads, tails)
    PROVE  Filled(size, front \o (heads \o tails)) =
               << FlattenSeq(front) \o (FlattenSeq(heads) \o FlattenSeq(tails)) >>
<1> DEFINE f == FlattenSeq(front)  h == FlattenSeq(heads)  t == FlattenSeq(tails)
           whole == f \o (h \o t)
<1>1. f \in Seq(Byte) /\ h \in Seq(Byte) /\ t \in Seq(Byte) BY FlattenIsSeq
<1>2. heads \o tails \in Seq(Seq(Byte)) BY ConcatProperties
<1>3. FlattenSeq(heads \o tails) = h \o t BY FlattenConcat
<1>4. FlattenSeq(front \o (heads \o tails)) = f \o FlattenSeq(heads \o tails)
  BY <1>2, FlattenConcat
<1>5. size = Len(f) + (Len(h) + Len(t)) BY DEF IsSizeOf
<1> HIDE DEF f, h, t
<1>6. h \o t \in Seq(Byte) /\ Len(h \o t) = Len(h) + Len(t) BY <1>1, BytesConcat
<1>7. whole \in Seq(Byte) /\ Len(whole) = Len(f) + Len(h \o t) BY <1>1, <1>6, BytesConcat
<1>8. Len(whole) = size BY <1>5, <1>6, <1>7
<1>9. FlattenSeq(front \o (heads \o tails)) = whole BY <1>3, <1>4
<1> HIDE DEF whole
<1>10. Len(whole) \in Nat BY <1>7, LenProperties
<1>11. ~(Len(whole) > size) /\ size - Len(whole) = 0 BY <1>8, <1>10
<1>12. Zeros(0) = << >>
  <2>1. Zeros(0) \in Seq(Byte) /\ Len(Zeros(0)) = 0 BY ZerosAre
  <2>2. QED BY <2>1, EmptySeq
<1>13. whole \o << >> = whole BY <1>7, ConcatEmptySeq
<1>14. Filled(size, front \o (heads \o tails)) = << whole >>
  BY <1>9, <1>11, <1>12, <1>13 DEF Filled
<1>15. QED BY <1>14 DEF whole, f, h, t

LEMMA PrefixOfConcat ==
    ASSUME NEW T, NEW s \in Seq(T), NEW t \in Seq(T)
    PROVE  SubSeq(s \o t, 1, Len(s)) = s
<1>1. Len(s) \in Nat /\ DOMAIN s = 1..Len(s) /\ s = [i \in 1..Len(s) |-> s[i]] BY LenProperties
<1>2. /\ s \o t \in Seq(T) /\ Len(t) \in Nat
      /\ \A i \in 1..(Len(s) + Len(t)) :
            (s \o t)[i] = IF i <= Len(s) THEN s[i] ELSE t[i - Len(s)]
  BY ConcatProperties, LenProperties
<1> DEFINE st == s \o t
<1>3. \A i \in 1..Len(s) : st[i] = s[i] /\ s[i] \in T BY <1>1, <1>2, ElementOfSeq
<1> HIDE DEF st
<1>4. /\ SubSeq(st, 1, Len(s)) \in Seq(T) /\ Len(SubSeq(st, 1, Len(s))) = Len(s)
      /\ \A i \in 1..Len(s) : SubSeq(st, 1, Len(s))[i] = st[i]
  BY <1>1, <1>3, SubSeqProperties
<1>5. SubSeq(st, 1, Len(s)) = s BY <1>3, <1>4, SeqEqual
<1>6. QED BY <1>5 DEF st

(* Where only the last field is longer than a word.                        *)
HasOneTail(types, n) ==
    /\ n \in Nat \ {0} /\ types[n] = "bytes"
    /\ \A i \in 1..(n - 1) : types[i] # "bytes" /\ types[i] # "uint256[]"

LEMMA OneTail ==
    ASSUME NEW types, NEW fs, NEW n, WellTyped(types, fs, n), HasOneTail(types, n)
    PROVE  /\ FlattenSeq(Tails(types, fs)) = AbiBytes(fs[n])
           /\ TailAt(types, fs, n) = n * Word
<1> DEFINE t == Tails(types, fs)  s == SubSeq(t, 1, n - 1)  ends == [i \in 1..n |-> 0]
<1>1. n \in Nat /\ Word \in Nat /\ n - 1 \in Nat /\ n \in 1..n BY SizesAssumption DEF HasOneTail
<1>2. t \in Seq(Seq(Byte)) /\ Len(t) = n /\ Len(types) = n /\ DOMAIN types = 1..n BY TailsAre
<1>3. t[n] = AbiBytes(fs[n]) BY <1>1, <1>2 DEF Tails, HasOneTail
<1>4. \A i \in 1..(n - 1) : t[i] = << >>
  <2>1. \A i \in 1..(n - 1) : i \in DOMAIN types BY <1>1, <1>2
  <2>2. QED BY <2>1 DEF Tails, HasOneTail
<1>5. TailAt(types, fs, n) = n * Word + Len(FlattenSeq(s)) BY <1>2 DEF TailAt
<1> HIDE DEF t
<1>6. \A k \in 1..n : t[k] \in Seq(Byte) BY <1>2, ElementOfSeq
<1>7. s \in Seq(Seq(Byte)) /\ Len(s) = n - 1 /\ \A k \in 1..(n - 1) : s[k] = t[k]
  <2>1. \A k \in 1..(n - 1) : t[k] \in Seq(Byte) BY <1>1, <1>6
  <2>2. QED BY <1>1, <2>1, SubSeqProperties
<1>8. t = s \o << t[n] >>
  <2>1. 1 \in 1..Len(t) /\ n \in 1..Len(t) BY <1>1, <1>2
  <2>2. SubSeq(t, 1, n) = SubSeq(t, 1, n - 1) \o << t[n] >> BY <1>2, <2>1, SubSeqRecursiveSecond
  <2>3. SubSeq(t, 1, n) = t BY <1>2, SubSeqFull
  <2>4. QED BY <2>2, <2>3
<1> HIDE DEF s
<1>9. Begins(ends, s)
  <2>1. \A k \in 1..(n - 1) : Len(s[k]) = 0 BY <1>4, <1>7, EmptySeq
  <2>2. /\ ends[1] = 0 /\ (n - 1) + 1 = n
        /\ \A k \in 1..(n - 1) : ends[k] = 0 /\ ends[k + 1] = 0
    BY <1>1
  <2> HIDE DEF ends
  <2>3. QED BY <1>7, <2>1, <2>2 DEF Begins
<1>10. ends[n] = 0 BY <1>1
<1> HIDE DEF ends
<1>11. FlattenSeq(s) \in Seq(Byte) /\ IsLaid(FlattenSeq(s), ends, s) BY <1>7, <1>9, FlattenIsLaid
<1>12. Len(FlattenSeq(s)) = 0
  <2>1. (n - 1) + 1 = n BY <1>1
  <2>2. QED BY <1>7, <1>10, <1>11, <2>1 DEF IsLaid
<1>13. FlattenSeq(s) = << >> BY <1>11, <1>12, EmptySeq
<1>14. t[n] \in Seq(Byte) BY <1>1, <1>6
<1>15. FlattenSeq(t) = FlattenSeq(s) \o t[n] BY <1>7, <1>8, <1>14, FlattenAppend
<1>16. << >> \o t[n] = t[n] BY <1>14, ConcatEmptySeq
<1>17. n * Word + 0 = n * Word BY <1>1
<1>18. QED BY <1>3, <1>5, <1>12, <1>13, <1>15, <1>16, <1>17 DEF t
IsSizeWith(size, sel, n, last) == size = Len(sel) + (n * Word + abiBytesSize(last))

LEMMA OneTailFilled ==
    ASSUME NEW types, NEW fs, NEW n, WellTyped(types, fs, n), HasOneTail(types, n),
           NEW sel \in Seq(Byte), NEW size, IsSizeWith(size, sel, n, fs[n])
    PROVE  Filled(size, <<sel>> \o (Heads(types, fs) \o << AbiBytes(fs[n]) >>)) =
               << sel \o AbiEncode(types, fs) >>
<1> DEFINE heads == Heads(types, fs)  a == AbiBytes(fs[n])
<1>1. heads \in Seq(Seq(Byte)) BY HeadsAre
<1>2. Len(FlattenSeq(heads)) = n * Word BY HeadsStand
<1>3. fs[n] \in Seq(Byte)
  <2>1. n \in 1..n /\ types[n] = "bytes" BY DEF HasOneTail
  <2>2. QED BY <2>1 DEF WellTyped, WrittenAs
<1>4. a \in Seq(Byte) /\ Len(a) = abiBytesSize(fs[n]) BY <1>3, AbiBytesIs
<1>5. FlattenSeq(Tails(types, fs)) = a BY OneTail
<1>6. AbiEncode(types, fs) = FlattenSeq(heads) \o a BY <1>5, AbiEncodeIs
<1> HIDE DEF heads, a
<1>7. <<sel>> \in Seq(Seq(Byte)) /\ FlattenSeq(<<sel>>) = sel BY FlattenFew DEF FewJoined
<1>8. <<a>> \in Seq(Seq(Byte)) /\ FlattenSeq(<<a>>) = a BY <1>4, FlattenFew DEF FewJoined
<1> DEFINE front == <<sel>>  tails == <<a>>
<1>9. IsSizeOf(size, front, heads, tails)
  BY <1>2, <1>4, <1>7, <1>8 DEF IsSizeOf, IsSizeWith
<1>10. front \in Seq(Seq(Byte)) /\ tails \in Seq(Seq(Byte)) BY <1>7, <1>8
<1> HIDE DEF front, tails
<1>11. Filled(size, front \o (heads \o tails)) =
           << FlattenSeq(front) \o (FlattenSeq(heads) \o FlattenSeq(tails)) >>
  BY <1>1, <1>9, <1>10, FilledIs
<1>12. FlattenSeq(front) = sel /\ FlattenSeq(tails) = a BY <1>7, <1>8 DEF front, tails
<1>13. QED BY <1>6, <1>11, <1>12 DEF heads, a, front, tails

LEMMA NoticeEncodersAgree ==
    ASSUME NEW v, WellTyped(outputAbi["Notice"], v, 1)
    PROVE  encodeNoticeBytes(v) = << Selector["Notice"] \o AbiEncode(outputAbi["Notice"], v) >>
<1> DEFINE types == <<"bytes">>  sel == Selector["Notice"]  a == AbiBytes(v[1])
           size == 4 + 2 * Word + ceilWord(Len(v[1]))
<1>1. outputAbi["Notice"] = types BY DEF outputAbi
<1>2. sel \in Seq(Byte) /\ Len(sel) = 4 BY SelectorIs DEF Outputs
<1>3. WellTyped(types, v, 1) BY <1>1
<1>4. types[1] = "bytes" /\ Len(types) = 1 /\ DOMAIN types = 1..1 OBVIOUS
<1>5. HasOneTail(types, 1) /\ v[1] \in Seq(Byte)
  BY <1>3, <1>4 DEF HasOneTail, WellTyped, WrittenAs
<1> HIDE DEF types, sel
<1>6. TailAt(types, v, 1) = 1 * Word
  <2>1. QED BY <1>3, <1>5, OneTail
<1>7. Heads(types, v) = << Uint256(Word) >>
  <2>1. HeadOf(types, v, 1) = Uint256(1 * Word) BY <1>4, <1>6 DEF HeadOf
  <2>2. 1 * Word = Word BY SizesAssumption
  <2>3. Heads(types, v) = [i \in 1..1 |-> HeadOf(types, v, i)] BY <1>4 DEF Heads
  <2>4. QED BY <2>1, <2>2, <2>3
<1>8. a \in Seq(Byte) /\ Uint256(Word) \in Seq(Byte)
  BY <1>5, AbiBytesIs, Uint256IsWord, SizesAssumption
<1>9. IsSizeWith(size, sel, 1, v[1])
  <2>1. Word \in Nat /\ ceilWord(Len(v[1])) \in Nat
    BY <1>5, CeilWordIs, LenProperties, SizesAssumption
  <2>2. QED BY <1>2, <2>1 DEF abiBytesSize, IsSizeWith
<1> HIDE DEF size, a
<1>10. Filled(size, <<sel>> \o (<< Uint256(Word) >> \o <<a>>)) = << sel \o AbiEncode(types, v) >>
  <2>2. Filled(size, <<sel>> \o (Heads(types, v) \o << AbiBytes(v[1]) >>)) =
            << sel \o AbiEncode(types, v) >>
    BY <1>2, <1>3, <1>5, <1>9, OneTailFilled
  <2>3. QED BY <1>7, <2>2 DEF a
<1>11. <<sel>> \o (<< Uint256(Word) >> \o <<a>>) = <<sel, Uint256(Word), a>>
  <2> DEFINE u == Uint256(Word)
  <2>1. TuplesJoin(u, a, a, a) /\ TuplesJoin(sel, u, a, a) BY <1>2, <1>8, ShortTuples
  <2> HIDE DEF u
  <2>2. <<u>> \o <<a>> = <<u, a>> /\ <<sel>> \o <<u, a>> = <<sel, u, a>> BY <2>1 DEF TuplesJoin
  <2>3. QED BY <2>2 DEF u
<1>12. encodeNoticeBytes(v) = Filled(size, <<sel, Uint256(Word), a>>)
  BY DEF encodeNoticeBytes, size, sel, a
<1>13. QED BY <1>1, <1>10, <1>11, <1>12 DEF sel
LEMMA DelegateCallVoucherEncodersAgree ==
    ASSUME NEW v, WellTyped(outputAbi["DelegateCallVoucher"], v, 2)
    PROVE  encodeDelegateCallVoucherBytes(v) =
               << Selector["DelegateCallVoucher"] \o AbiEncode(outputAbi["DelegateCallVoucher"], v) >>
<1> DEFINE types == <<"address", "bytes">>  sel == Selector["DelegateCallVoucher"]
           a == AbiBytes(v[2])  h1 == AddressWord(v[1])  h2 == Uint256(2 * Word)
           size == 4 + 3 * Word + ceilWord(Len(v[2]))
<1>1. outputAbi["DelegateCallVoucher"] = types BY DEF outputAbi
<1>2. sel \in Seq(Byte) /\ Len(sel) = 4 BY SelectorIs DEF Outputs
<1>3. WellTyped(types, v, 2) BY <1>1
<1>4. /\ types[1] = "address" /\ types[2] = "bytes"
      /\ Len(types) = 2 /\ DOMAIN types = 1..2
  OBVIOUS
<1>5. HasOneTail(types, 2) /\ v[1] \in Address /\ v[2] \in Seq(Byte)
  BY <1>3, <1>4 DEF HasOneTail, WellTyped, WrittenAs
<1> HIDE DEF types, sel
<1>6. TailAt(types, v, 2) = 2 * Word BY <1>3, <1>5, OneTail
<1>7. Heads(types, v) = <<h1, h2>>
  <2>1. HeadOf(types, v, 1) = h1 /\ HeadOf(types, v, 2) = h2 BY <1>4, <1>6 DEF HeadOf
  <2>2. Heads(types, v) = [i \in 1..2 |-> HeadOf(types, v, i)] BY <1>4 DEF Heads
  <2> HIDE DEF h1, h2
  <2>3. QED BY <2>1, <2>2
<1>8. a \in Seq(Byte) /\ h1 \in Seq(Byte) /\ h2 \in Seq(Byte)
  <2>1. 2 * Word \in Nat BY SizesAssumption
  <2>2. a \in Seq(Byte) BY <1>5, AbiBytesIs
  <2>3. h1 \in Seq(Byte) BY <1>5, AddressWordIs
  <2>4. h2 \in Seq(Byte)
    BY <1>5, <2>1, Uint256IsWord
  <2>5. QED BY <2>2, <2>3, <2>4
<1>9. IsSizeWith(size, sel, 2, v[2])
  <2>1. Word \in Nat /\ ceilWord(Len(v[2])) \in Nat
    BY <1>5, CeilWordIs, LenProperties, SizesAssumption
  <2>2. QED BY <1>2, <2>1 DEF abiBytesSize, IsSizeWith
<1> HIDE DEF size, a, h1, h2
<1>10. Filled(size, <<sel>> \o (<<h1, h2>> \o <<a>>)) = << sel \o AbiEncode(types, v) >>
  <2>1. Filled(size, <<sel>> \o (Heads(types, v) \o << AbiBytes(v[2]) >>)) =
            << sel \o AbiEncode(types, v) >>
    BY <1>2, <1>3, <1>5, <1>9, OneTailFilled
  <2>2. QED BY <1>7, <2>1 DEF a
<1>11. <<sel>> \o (<<h1, h2>> \o <<a>>) = <<sel, h1, h2, a>>
  <2>1. TuplesJoin(h1, h2, a, a) /\ TuplesJoin(sel, h1, h2, a) BY <1>2, <1>8, ShortTuples
  <2>2. QED BY <2>1 DEF TuplesJoin
<1>12. encodeDelegateCallVoucherBytes(v) = Filled(size, <<sel, h1, h2, a>>)
  BY DEF encodeDelegateCallVoucherBytes, size, sel, a, h1, h2
<1>13. QED BY <1>1, <1>10, <1>11, <1>12 DEF sel

LEMMA VoucherEncodersAgree ==
    ASSUME NEW v, WellTyped(outputAbi["Voucher"], v, 3)
    PROVE  encodeVoucherBytes(v) = << Selector["Voucher"] \o AbiEncode(outputAbi["Voucher"], v) >>
<1> DEFINE types == <<"address", "uint256", "bytes">>  sel == Selector["Voucher"]
           a == AbiBytes(v[3])  h1 == AddressWord(v[1])  h2 == Uint256(v[2])
           h3 == Uint256(3 * Word)  size == 4 + 4 * Word + ceilWord(Len(v[3]))
<1>1. outputAbi["Voucher"] = types BY DEF outputAbi
<1>2. sel \in Seq(Byte) /\ Len(sel) = 4 BY SelectorIs DEF Outputs
<1>3. WellTyped(types, v, 3) BY <1>1
<1>4. /\ types[1] = "address" /\ types[2] = "uint256" /\ types[3] = "bytes"
      /\ Len(types) = 3 /\ DOMAIN types = 1..3
  OBVIOUS
<1>5. HasOneTail(types, 3) /\ v[1] \in Address /\ v[2] \in Nat /\ v[3] \in Seq(Byte)
  BY <1>3, <1>4 DEF HasOneTail, WellTyped, WrittenAs
<1> HIDE DEF types, sel
<1>6. TailAt(types, v, 3) = 3 * Word BY <1>3, <1>5, OneTail
<1>7. Heads(types, v) = <<h1, h2, h3>>
  <2>1. HeadOf(types, v, 1) = h1 /\ HeadOf(types, v, 2) = h2 /\ HeadOf(types, v, 3) = h3
    BY <1>4, <1>6 DEF HeadOf
  <2>2. Heads(types, v) = [i \in 1..3 |-> HeadOf(types, v, i)] BY <1>4 DEF Heads
  <2> HIDE DEF h1, h2, h3
  <2>3. QED BY <2>1, <2>2
<1>8. a \in Seq(Byte) /\ h1 \in Seq(Byte) /\ h2 \in Seq(Byte) /\ h3 \in Seq(Byte)
  <2>1. 3 * Word \in Nat BY SizesAssumption
  <2>2. a \in Seq(Byte) BY <1>5, AbiBytesIs
  <2>3. h1 \in Seq(Byte) BY <1>5, AddressWordIs
  <2>4. h2 \in Seq(Byte) /\ h3 \in Seq(Byte)
    BY <1>5, <2>1, Uint256IsWord
  <2>5. QED BY <2>2, <2>3, <2>4
<1>9. IsSizeWith(size, sel, 3, v[3])
  <2>1. Word \in Nat /\ ceilWord(Len(v[3])) \in Nat
    BY <1>5, CeilWordIs, LenProperties, SizesAssumption
  <2>2. QED BY <1>2, <2>1 DEF abiBytesSize, IsSizeWith
<1> HIDE DEF size, a, h1, h2, h3
<1>10. Filled(size, <<sel>> \o (<<h1, h2, h3>> \o <<a>>)) = << sel \o AbiEncode(types, v) >>
  <2>1. Filled(size, <<sel>> \o (Heads(types, v) \o << AbiBytes(v[3]) >>)) =
            << sel \o AbiEncode(types, v) >>
    BY <1>2, <1>3, <1>5, <1>9, OneTailFilled
  <2>2. QED BY <1>7, <2>1 DEF a
<1>11. <<sel>> \o (<<h1, h2, h3>> \o <<a>>) = <<sel, h1, h2, h3, a>>
  <2>1. TuplesJoin(h1, h2, h3, a) BY <1>8, ShortTuples
  <2>2. LongTuplesJoin(sel, h1, h2, h3, a, a, a, a, a, a) BY <1>2, <1>8, LongTuples
  <2>3. QED BY <2>1, <2>2 DEF TuplesJoin, LongTuplesJoin
<1>12. encodeVoucherBytes(v) = Filled(size, <<sel, h1, h2, h3, a>>)
  BY DEF encodeVoucherBytes, size, sel, a, h1, h2, h3
<1>13. QED BY <1>1, <1>10, <1>11, <1>12 DEF sel

LEMMA InputEncodersAgree ==
    ASSUME NEW v, WellTyped(evmAdvance, v, 8)
    PROVE  encodeInputBytes(v) = << Selector["EvmAdvance"] \o AbiEncode(evmAdvance, v) >>
<1> DEFINE types == evmAdvance  sel == Selector["EvmAdvance"]
           a == AbiBytes(v[8])  h1 == Uint256(v[1])  h2 == AddressWord(v[2])
           h3 == AddressWord(v[3])  h4 == Uint256(v[4])  h5 == Uint256(v[5])
           h6 == Uint256(v[6])  h7 == Uint256(v[7])  h8 == Uint256(8 * Word)
           size == 4 + 9 * Word + ceilWord(Len(v[8]))
<1>2. sel \in Seq(Byte) /\ Len(sel) = 4 BY SelectorIs
<1>3. WellTyped(types, v, 8) OBVIOUS
<1>4. /\ types[1] = "uint256" /\ types[2] = "address" /\ types[3] = "address"
      /\ types[4] = "uint256" /\ types[5] = "uint256" /\ types[6] = "uint256"
      /\ types[7] = "uint256" /\ types[8] = "bytes" /\ Len(types) = 8 /\ DOMAIN types = 1..8
  BY DEF evmAdvance
<1> HIDE DEF types, sel
<1>5. /\ v[1] \in Nat /\ v[2] \in Address /\ v[3] \in Address /\ v[4] \in Nat /\ v[5] \in Nat
      /\ v[6] \in Nat /\ v[7] \in Nat /\ v[8] \in Seq(Byte)
  <2>1. \A i \in 1..8 : WrittenAs(types[i], v[i]) BY <1>3 DEF WellTyped
  <2>2. QED BY <1>4, <2>1 DEF WrittenAs
<1>55. HasOneTail(types, 8)
  <2>1. \A i \in 1..(8 - 1) : types[i] # "bytes" /\ types[i] # "uint256[]" BY <1>4
  <2>2. QED BY <1>4, <2>1 DEF HasOneTail
<1>6. TailAt(types, v, 8) = 8 * Word BY <1>3, <1>55, OneTail
<1>7. Heads(types, v) = <<h1, h2, h3, h4, h5, h6, h7, h8>>
  <2>1. /\ HeadOf(types, v, 1) = h1 /\ HeadOf(types, v, 2) = h2 /\ HeadOf(types, v, 3) = h3
        /\ HeadOf(types, v, 4) = h4 /\ HeadOf(types, v, 5) = h5 /\ HeadOf(types, v, 6) = h6
        /\ HeadOf(types, v, 7) = h7 /\ HeadOf(types, v, 8) = h8
    BY <1>4, <1>6 DEF HeadOf
  <2>2. Heads(types, v) = [i \in 1..8 |-> HeadOf(types, v, i)] BY <1>4 DEF Heads
  <2> HIDE DEF h1, h2, h3, h4, h5, h6, h7, h8
  <2>3. QED BY <2>1, <2>2
<1>8. /\ a \in Seq(Byte) /\ h1 \in Seq(Byte) /\ h2 \in Seq(Byte) /\ h3 \in Seq(Byte)
      /\ h4 \in Seq(Byte) /\ h5 \in Seq(Byte) /\ h6 \in Seq(Byte) /\ h7 \in Seq(Byte)
      /\ h8 \in Seq(Byte)
  <2>1. 8 * Word \in Nat BY SizesAssumption
  <2>2. a \in Seq(Byte) BY <1>5, AbiBytesIs
  <2>3. h2 \in Seq(Byte) /\ h3 \in Seq(Byte) BY <1>5, AddressWordIs
  <2>4. h1 \in Seq(Byte) /\ h4 \in Seq(Byte) /\ h5 \in Seq(Byte) /\ h6 \in Seq(Byte) /\ h7 \in Seq(Byte) /\ h8 \in Seq(Byte)
    BY <1>5, <2>1, Uint256IsWord
  <2>5. QED BY <2>2, <2>3, <2>4
<1>9. IsSizeWith(size, sel, 8, v[8])
  <2>1. Word \in Nat /\ ceilWord(Len(v[8])) \in Nat
    BY <1>5, CeilWordIs, LenProperties, SizesAssumption
  <2>2. QED BY <1>2, <2>1 DEF abiBytesSize, IsSizeWith
<1> HIDE DEF size, a, h1, h2, h3, h4, h5, h6, h7, h8
<1>10. Filled(size, <<sel>> \o (<<h1, h2, h3, h4, h5, h6, h7, h8>> \o <<a>>)) =
           << sel \o AbiEncode(types, v) >>
  <2>1. Filled(size, <<sel>> \o (Heads(types, v) \o << AbiBytes(v[8]) >>)) =
            << sel \o AbiEncode(types, v) >>
    BY <1>2, <1>3, <1>55, <1>9, OneTailFilled
  <2>2. QED BY <1>7, <2>1 DEF a
<1>11. <<sel>> \o (<<h1, h2, h3, h4, h5, h6, h7, h8>> \o <<a>>) =
           <<sel, h1, h2, h3, h4, h5, h6, h7, h8, a>>
  <2>1. LongTuplesJoin(h1, h2, h3, h4, h5, h6, h7, h8, a, a) BY <1>8, LongTuples
  <2>2. LongTuplesJoin(sel, h1, h2, h3, h4, h5, h6, h7, h8, a) BY <1>2, <1>8, LongTuples
  <2>3. QED BY <2>1, <2>2 DEF LongTuplesJoin
<1>12. encodeInputBytes(v) = Filled(size, <<sel, h1, h2, h3, h4, h5, h6, h7, h8, a>>)
  BY DEF encodeInputBytes, size, sel, a, h1, h2, h3, h4, h5, h6, h7, h8
<1>13. QED BY <1>10, <1>11, <1>12 DEF sel, types
(* The tails of deposits.                                                  *)
LEMMA DataTailIs ==
    ASSUME NEW b \in Seq(Byte), NEW e \in Seq(Byte), NEW fs, fs[1] = b, fs[2] = e
    PROVE  /\ WellTyped(dataAbi, fs, 2)
           /\ DataTail(b, e) = Heads(dataAbi, fs) \o Tails(dataAbi, fs)
           /\ dataTailSize(b, e) =
                 Len(FlattenSeq(Heads(dataAbi, fs))) + Len(FlattenSeq(Tails(dataAbi, fs)))
           /\ dataTailSize(b, e) \in Nat
<1> DEFINE types == dataAbi  t1 == AbiBytes(b)  t2 == AbiBytes(e)
           h1 == Uint256(2 * Word)  h2 == Uint256(2 * Word + abiBytesSize(b))
<1>1. /\ types[1] = "bytes" /\ types[2] = "bytes" /\ Len(types) = 2 /\ DOMAIN types = 1..2
      /\ types \in [1..2 -> Types]
  BY DEF dataAbi, Types
<1> HIDE DEF types
<1>2. WellTyped(types, fs, 2) BY <1>1 DEF WellTyped, WrittenAs
<1>3. /\ t1 \in Seq(Byte) /\ Len(t1) = abiBytesSize(b) /\ abiBytesSize(b) \in Nat
      /\ t2 \in Seq(Byte) /\ Len(t2) = abiBytesSize(e) /\ abiBytesSize(e) \in Nat
  BY AbiBytesIs
<1>4. Tails(types, fs) = <<t1, t2>>
  <2> DEFINE t == Tails(types, fs)
  <2>1. t[1] = t1 /\ t[2] = t2 BY <1>1 DEF Tails
  <2>2. t = [i \in 1..2 |-> t[i]] BY <1>1 DEF Tails
  <2> HIDE DEF t, t1, t2
  <2>3. t = <<t1, t2>> BY <2>1, <2>2
  <2>4. QED BY <2>3 DEF t
<1>5. /\ 2 * Word \in Nat /\ 2 * Word + abiBytesSize(b) \in Nat /\ 2 * Word + 0 = 2 * Word
  <2> DEFINE n == abiBytesSize(b)  w == 2 * Word
  <2>1. n \in Nat /\ w \in Nat BY <1>3, SizesAssumption
  <2> HIDE DEF n, w
  <2>2. w + n \in Nat /\ w + 0 = w BY <2>1
  <2>3. QED BY <2>1, <2>2 DEF n, w
<1>6. h1 \in Seq(Byte) /\ h2 \in Seq(Byte) BY <1>5, Uint256IsWord
<1>65. /\ SubSeq(<<t1, t2>>, 1, 0) = << >> /\ SubSeq(<<t1, t2>>, 1, 1) = <<t1>>
       /\ FlattenSeq(<<t1>>) = t1 /\ Len(FlattenSeq(<<t1, t2>>)) = Len(t1) + Len(t2)
       /\ FlattenSeq(<< >>) = << >> /\ Len(<< >>) = 0
  <2> HIDE DEF t1, t2
  <2>1. TuplesJoin(t1, t2, t2, t2) BY <1>3, ShortTuples
  <2>2. <<t1>> \in Seq(Seq(Byte)) /\ <<t2>> \in Seq(Seq(Byte)) BY <1>3, FlattenFew DEF FewJoined
  <2>3. Len(<<t1>>) = 1 OBVIOUS
  <2>4. SubSeq(<<t1>> \o <<t2>>, 1, Len(<<t1>>)) = <<t1>> BY <2>2, PrefixOfConcat
  <2>5. SubSeq(<<t1, t2>>, 1, 1) = <<t1>> BY <2>1, <2>3, <2>4 DEF TuplesJoin
  <2>6. SubSeq(<<t1, t2>>, 1, 0) = << >> BY SubSeqEmpty
  <2>7. FlattenSeq(<<t1>>) = t1 /\ Len(FlattenSeq(<<t1, t2>>)) = Len(t1) + Len(t2)
    BY <1>3, FlattenFew DEF FewJoined
  <2>8. FlattenSeq(<< >>) = << >> /\ Len(<< >>) = 0 BY FlattenNone, EmptySeq
  <2>9. QED BY <2>5, <2>6, <2>7, <2>8
<1> HIDE DEF t1, t2
<1>7. TailAt(types, fs, 1) = 2 * Word
  <2>1. 1 - 1 = 0 OBVIOUS
  <2>2. QED BY <1>1, <1>4, <1>5, <1>65, <2>1 DEF TailAt
<1>8. TailAt(types, fs, 2) = 2 * Word + abiBytesSize(b)
  <2>1. 2 - 1 = 1 OBVIOUS
  <2>2. QED BY <1>1, <1>3, <1>4, <1>65, <2>1 DEF TailAt
<1>9. Heads(types, fs) = <<h1, h2>>
  <2>1. HeadOf(types, fs, 1) = h1 /\ HeadOf(types, fs, 2) = h2 BY <1>1, <1>7, <1>8 DEF HeadOf
  <2>2. Heads(types, fs) = [i \in 1..2 |-> HeadOf(types, fs, i)] BY <1>1 DEF Heads
  <2> HIDE DEF h1, h2
  <2>3. QED BY <2>1, <2>2
<1>10. DataTail(b, e) = <<h1, h2, t1, t2>> BY DEF DataTail, h1, h2, t1, t2
<1> HIDE DEF h1, h2
<1>11. <<h1, h2>> \o <<t1, t2>> = <<h1, h2, t1, t2>>
  <2>1. TuplesJoin(h1, h2, t1, t2) BY <1>3, <1>6, ShortTuples
  <2>2. QED BY <2>1 DEF TuplesJoin
<1>12. Len(FlattenSeq(Heads(types, fs))) = 2 * Word BY <1>2, HeadsStand
<1>13. Len(FlattenSeq(Tails(types, fs))) = abiBytesSize(b) + abiBytesSize(e) BY <1>3, <1>4, <1>65
<1>14. /\ dataTailSize(b, e) \in Nat
       /\ dataTailSize(b, e) = 2 * Word + (abiBytesSize(b) + abiBytesSize(e))
  <2> DEFINE n == abiBytesSize(b)  m == abiBytesSize(e)  w == 2 * Word
  <2>1. n \in Nat /\ m \in Nat /\ w \in Nat BY <1>3, SizesAssumption
  <2>2. dataTailSize(b, e) = w + n + m BY DEF dataTailSize
  <2> HIDE DEF n, m, w
  <2>3. w + n + m \in Nat /\ w + n + m = w + (n + m) BY <2>1
  <2>4. QED BY <2>2, <2>3 DEF n, m, w
<1>15. QED BY <1>2, <1>4, <1>9, <1>10, <1>11, <1>12, <1>13, <1>14 DEF types

BatchFields(fs, ids, values, b, e) ==
    /\ fs[1] = ids /\ fs[2] = values /\ fs[3] = b /\ fs[4] = e
    /\ WrittenAs("uint256[]", ids) /\ WrittenAs("uint256[]", values)
    /\ WrittenAs("bytes", b) /\ WrittenAs("bytes", e)

LEMMA BatchDataTailIs ==
    ASSUME NEW fs, NEW ids, NEW values, NEW b, NEW e, BatchFields(fs, ids, values, b, e)
    PROVE  /\ WellTyped(batchDataAbi, fs, 4)
           /\ BatchDataTail(ids, values, b, e) = Heads(batchDataAbi, fs) \o Tails(batchDataAbi, fs)
           /\ batchDataTailSize(ids, values, b, e) =
                 Len(FlattenSeq(Heads(batchDataAbi, fs)))
                   + Len(FlattenSeq(Tails(batchDataAbi, fs)))
           /\ batchDataTailSize(ids, values, b, e) \in Nat
<1> DEFINE types == batchDataAbi  t1 == AbiUint256Array(ids)  t2 == AbiUint256Array(values)
           t3 == AbiBytes(b)  t4 == AbiBytes(e)
           n1 == abiUint256ArraySize(ids)  n2 == abiUint256ArraySize(values)
           n3 == abiBytesSize(b)  n4 == abiBytesSize(e)  w == 4 * Word
           h1 == Uint256(w)  h2 == Uint256(w + n1)
           h3 == Uint256(w + n1 + n2)  h4 == Uint256(w + n1 + n2 + n3)
<1>0. /\ ids \in Seq(Nat) /\ values \in Seq(Nat) /\ b \in Seq(Byte) /\ e \in Seq(Byte)
      /\ fs[1] = ids /\ fs[2] = values /\ fs[3] = b /\ fs[4] = e
  BY DEF BatchFields, WrittenAs
<1>1. /\ types[1] = "uint256[]" /\ types[2] = "uint256[]" /\ types[3] = "bytes" /\ types[4] = "bytes"
      /\ Len(types) = 4 /\ DOMAIN types = 1..4 /\ types \in [1..4 -> Types]
  BY DEF batchDataAbi, Types
<1> HIDE DEF types
<1>2. WellTyped(types, fs, 4)
  <2>0. /\ WrittenAs("uint256[]", ids) /\ WrittenAs("uint256[]", values)
        /\ WrittenAs("bytes", b) /\ WrittenAs("bytes", e)
    BY DEF BatchFields
  <2>1. \A i \in 1..4 : WrittenAs(types[i], fs[i])
    <3>1. /\ WrittenAs(types[1], fs[1]) /\ WrittenAs(types[2], fs[2])
          /\ WrittenAs(types[3], fs[3]) /\ WrittenAs(types[4], fs[4])
      BY <1>0, <1>1, <2>0
    <3>2. \A i \in 1..4 : i = 1 \/ i = 2 \/ i = 3 \/ i = 4 OBVIOUS
    <3>3. QED BY <3>1, <3>2
  <2>2. QED BY <1>1, <2>1 DEF WellTyped
<1>3. /\ t1 \in Seq(Byte) /\ Len(t1) = n1 /\ n1 \in Nat
      /\ t2 \in Seq(Byte) /\ Len(t2) = n2 /\ n2 \in Nat
      /\ t3 \in Seq(Byte) /\ Len(t3) = n3 /\ n3 \in Nat
      /\ t4 \in Seq(Byte) /\ Len(t4) = n4 /\ n4 \in Nat
  BY <1>0, AbiBytesIs, AbiListIs
<1>4. Tails(types, fs) = <<t1, t2, t3, t4>>
  <2> DEFINE t == Tails(types, fs)
  <2>1. t[1] = t1 /\ t[2] = t2 /\ t[3] = t3 /\ t[4] = t4 BY <1>0, <1>1 DEF Tails
  <2>2. t = [i \in 1..4 |-> t[i]] BY <1>1 DEF Tails
  <2> HIDE DEF t, t1, t2, t3, t4
  <2>3. t = <<t1, t2, t3, t4>> BY <2>1, <2>2
  <2>4. QED BY <2>3 DEF t
<1>5. w \in Nat /\ w + 0 = w BY SizesAssumption
<1>6. abiUint256ArraySize(ids) = n1 /\ abiUint256ArraySize(values) = n2
      /\ abiBytesSize(b) = n3 /\ abiBytesSize(e) = n4 /\ 4 * Word = w
  OBVIOUS
<1>7. BatchDataTail(ids, values, b, e) = <<h1, h2, h3, h4, t1, t2, t3, t4>>
  BY DEF BatchDataTail
<1> HIDE DEF t1, t2, t3, t4, n1, n2, n3, n4, w
<1>8. h1 \in Seq(Byte) /\ h2 \in Seq(Byte) /\ h3 \in Seq(Byte) /\ h4 \in Seq(Byte)
  <2>1. w + n1 \in Nat /\ w + n1 + n2 \in Nat /\ w + n1 + n2 + n3 \in Nat BY <1>3, <1>5
  <2>2. QED BY <1>5, <2>1, Uint256IsWord
<1>9. /\ SubSeq(<<t1, t2, t3, t4>>, 1, 0) = << >> /\ SubSeq(<<t1, t2, t3, t4>>, 1, 1) = <<t1>>
      /\ SubSeq(<<t1, t2, t3, t4>>, 1, 2) = <<t1, t2>>
      /\ SubSeq(<<t1, t2, t3, t4>>, 1, 3) = <<t1, t2, t3>>
  <2>1. TuplesJoin(t1, t2, t3, t4) BY <1>3, ShortTuples
  <2>2. /\ <<t1>> \in Seq(Seq(Byte)) /\ <<t2, t3, t4>> \in Seq(Seq(Byte))
        /\ <<t1, t2>> \in Seq(Seq(Byte)) /\ <<t3, t4>> \in Seq(Seq(Byte))
        /\ <<t1, t2, t3>> \in Seq(Seq(Byte)) /\ <<t4>> \in Seq(Seq(Byte))
    BY <1>3, FlattenFew DEF FewJoined
  <2>3. Len(<<t1>>) = 1 /\ Len(<<t1, t2>>) = 2 /\ Len(<<t1, t2, t3>>) = 3 OBVIOUS
  <2>4. /\ SubSeq(<<t1>> \o <<t2, t3, t4>>, 1, Len(<<t1>>)) = <<t1>>
        /\ SubSeq(<<t1, t2>> \o <<t3, t4>>, 1, Len(<<t1, t2>>)) = <<t1, t2>>
        /\ SubSeq(<<t1, t2, t3>> \o <<t4>>, 1, Len(<<t1, t2, t3>>)) = <<t1, t2, t3>>
    BY <2>2, PrefixOfConcat
  <2>5. SubSeq(<<t1, t2, t3, t4>>, 1, 0) = << >> BY SubSeqEmpty
  <2>6. QED BY <2>1, <2>3, <2>4, <2>5 DEF TuplesJoin
<1>10. /\ Len(FlattenSeq(<< >>)) = 0 /\ Len(FlattenSeq(<<t1>>)) = n1
       /\ Len(FlattenSeq(<<t1, t2>>)) = n1 + n2
       /\ Len(FlattenSeq(<<t1, t2, t3>>)) = n1 + n2 + n3
       /\ Len(FlattenSeq(<<t1, t2, t3, t4>>)) = n1 + n2 + n3 + n4
  <2>1. FlattenSeq(<< >>) = << >> /\ Len(<< >>) = 0 BY FlattenNone, EmptySeq
  <2>2. /\ FlattenSeq(<<t1>>) = t1 /\ Len(FlattenSeq(<<t1, t2>>)) = Len(t1) + Len(t2)
        /\ Len(FlattenSeq(<<t1, t2, t3>>)) = Len(t1) + Len(t2) + Len(t3)
        /\ Len(FlattenSeq(<<t1, t2, t3, t4>>)) = Len(t1) + Len(t2) + Len(t3) + Len(t4)
    <3>1. FewJoined(t1, t2, t3, t4) BY <1>3, FlattenFew
    <3>2. QED BY <3>1 DEF FewJoined
  <2>3. QED BY <1>3, <2>1, <2>2
<1>11. /\ TailAt(types, fs, 1) = w /\ TailAt(types, fs, 2) = w + n1
       /\ TailAt(types, fs, 3) = w + n1 + n2 /\ TailAt(types, fs, 4) = w + n1 + n2 + n3
  <2>1. 1 - 1 = 0 /\ 2 - 1 = 1 /\ 3 - 1 = 2 /\ 4 - 1 = 3 OBVIOUS
  <2>2. \A i : TailAt(types, fs, i) = w + Len(FlattenSeq(SubSeq(<<t1, t2, t3, t4>>, 1, i - 1)))
    BY <1>1, <1>4, <1>6 DEF TailAt
  <2>3. /\ TailAt(types, fs, 1) = w + 0 /\ TailAt(types, fs, 2) = w + n1
        /\ TailAt(types, fs, 3) = w + (n1 + n2) /\ TailAt(types, fs, 4) = w + (n1 + n2 + n3)
    <3>1. /\ TailAt(types, fs, 1) = w + Len(FlattenSeq(SubSeq(<<t1, t2, t3, t4>>, 1, 1 - 1)))
          /\ TailAt(types, fs, 2) = w + Len(FlattenSeq(SubSeq(<<t1, t2, t3, t4>>, 1, 2 - 1)))
          /\ TailAt(types, fs, 3) = w + Len(FlattenSeq(SubSeq(<<t1, t2, t3, t4>>, 1, 3 - 1)))
          /\ TailAt(types, fs, 4) = w + Len(FlattenSeq(SubSeq(<<t1, t2, t3, t4>>, 1, 4 - 1)))
      BY ONLY <2>2, Zenon
    <3>2. /\ TailAt(types, fs, 1) = w + Len(FlattenSeq(<< >>))
          /\ TailAt(types, fs, 2) = w + Len(FlattenSeq(<<t1>>))
          /\ TailAt(types, fs, 3) = w + Len(FlattenSeq(<<t1, t2>>))
          /\ TailAt(types, fs, 4) = w + Len(FlattenSeq(<<t1, t2, t3>>))
      BY ONLY <1>9, <2>1, <3>1, Zenon
    <3>5. QED BY ONLY <1>10, <3>2, Zenon
  <2>4. QED BY <1>3, <1>5, <2>3
<1>12. Heads(types, fs) = <<h1, h2, h3, h4>>
  <2>1. /\ HeadOf(types, fs, 1) = h1 /\ HeadOf(types, fs, 2) = h2
        /\ HeadOf(types, fs, 3) = h3 /\ HeadOf(types, fs, 4) = h4
    BY <1>1, <1>11 DEF HeadOf
  <2>2. Heads(types, fs) = [i \in 1..4 |-> HeadOf(types, fs, i)] BY <1>1 DEF Heads
  <2> HIDE DEF h1, h2, h3, h4
  <2>3. QED BY <2>1, <2>2
<1> HIDE DEF h1, h2, h3, h4
<1>13. <<h1, h2, h3, h4>> \o <<t1, t2, t3, t4>> = <<h1, h2, h3, h4, t1, t2, t3, t4>>
  <2>1. LongTuplesJoin(h1, h2, h3, h4, t1, t2, t3, t4, t1, t1) BY <1>3, <1>8, LongTuples
  <2>2. QED BY <2>1 DEF LongTuplesJoin
<1>14. Len(FlattenSeq(Heads(types, fs))) = w BY <1>2, <1>6, HeadsStand
<1>15. Len(FlattenSeq(Tails(types, fs))) = n1 + n2 + n3 + n4 BY <1>4, <1>10
<1>16. batchDataTailSize(ids, values, b, e) = w + n1 + n2 + n3 + n4
  BY <1>6 DEF batchDataTailSize
<1>17. w + n1 + n2 + n3 + n4 = w + (n1 + n2 + n3 + n4) /\ w + n1 + n2 + n3 + n4 \in Nat
  BY <1>3, <1>5
<1>18. BatchDataTail(ids, values, b, e) = Heads(types, fs) \o Tails(types, fs)
  BY <1>4, <1>7, <1>12, <1>13 DEF h1, h2, h3, h4
<1>19. QED BY <1>2, <1>14, <1>15, <1>16, <1>17, <1>18 DEF types
LEMMA TailFilled ==
    ASSUME NEW front \in Seq(Seq(Byte)), NEW types, NEW fs, NEW n, WellTyped(types, fs, n),
           NEW size, IsSizeOf(size, front, Heads(types, fs), Tails(types, fs))
    PROVE  Filled(size, front \o (Heads(types, fs) \o Tails(types, fs))) =
               << FlattenSeq(front) \o AbiEncode(types, fs) >>
<1>1. Heads(types, fs) \in Seq(Seq(Byte)) /\ Tails(types, fs) \in Seq(Seq(Byte))
  BY HeadsAre, TailsAre
<1>2. QED BY <1>1, FilledIs, AbiEncodeIs

IsPlainSize(size, front, last) == size = Len(FlattenSeq(front)) + Len(last)

LEMMA PlainFilled ==
    ASSUME NEW front \in Seq(Seq(Byte)), NEW last \in Seq(Byte), NEW size,
           IsPlainSize(size, front, last)
    PROVE  Filled(size, front \o <<last>>) = << FlattenSeq(front) \o last >>
<1> DEFINE none == << >>  tails == <<last>>
<1>1. none \in Seq(Seq(Byte)) BY EmptySeq
<1>2. tails \in Seq(Seq(Byte)) /\ FlattenSeq(tails) = last BY FlattenFew DEF FewJoined
<1>3. FlattenSeq(none) = << >> /\ Len(FlattenSeq(none)) = 0 BY FlattenNone, EmptySeq
<1>4. none \o tails = tails BY <1>2, ConcatEmptySeq
<1>5. << >> \o last = last BY ConcatEmptySeq
<1> HIDE DEF none, tails
<1>6. IsSizeOf(size, front, none, tails)
  <2>1. Len(last) \in Nat /\ 0 + Len(last) = Len(last) BY LenProperties
  <2>2. QED BY <1>2, <1>3, <2>1 DEF IsSizeOf, IsPlainSize
<1>7. Filled(size, front \o (none \o tails)) =
          << FlattenSeq(front) \o (FlattenSeq(none) \o FlattenSeq(tails)) >>
  <2>1. front \in Seq(Seq(Byte)) /\ none \in Seq(Seq(Byte)) /\ tails \in Seq(Seq(Byte))
    BY <1>1, <1>2
  <2>2. QED BY ONLY <1>6, <2>1, FilledIs
<1>8. QED BY <1>2, <1>3, <1>4, <1>5, <1>7 DEF tails

(* encodePacked, field by field.                                           *)
LEMMA PackedIs ==
    ASSUME NEW d
    PROVE  /\ Packed(<<"address", "uint256", "bytes">>, d) =
                 FlattenSeq(<< d[1], Uint256(d[2]), d[3] >>)
           /\ Packed(<<"address", "address", "bytes">>, d) = FlattenSeq(<< d[1], d[2], d[3] >>)
           /\ Packed(<<"address", "address", "uint256", "bytes">>, d) =
                 FlattenSeq(<< d[1], d[2], Uint256(d[3]), d[4] >>)
           /\ Packed(<<"address", "address", "uint256", "uint256", "bytes">>, d) =
                 FlattenSeq(<< d[1], d[2], Uint256(d[3]), Uint256(d[4]), d[5] >>)
<1> DEFINE part(types, i) == IF types[i] = "uint256" THEN Uint256(d[i]) ELSE d[i]
           t1 == <<"address", "uint256", "bytes">>  t2 == <<"address", "address", "bytes">>
           t3 == <<"address", "address", "uint256", "bytes">>
           t4 == <<"address", "address", "uint256", "uint256", "bytes">>
<1>1. Packed(t1, d) = FlattenSeq(<< d[1], Uint256(d[2]), d[3] >>)
  <2> DEFINE u == Uint256(d[2])
  <2>1. /\ t1[1] # "uint256" /\ t1[2] = "uint256" /\ t1[3] # "uint256" /\ DOMAIN t1 = 1..3
    OBVIOUS
  <2> HIDE DEF t1
  <2>2. part(t1, 1) = d[1] /\ part(t1, 2) = u /\ part(t1, 3) = d[3] BY <2>1
  <2>3. Packed(t1, d) = FlattenSeq([i \in 1..3 |-> part(t1, i)]) BY <2>1 DEF Packed
  <2> HIDE DEF part, u
  <2>4. [i \in 1..3 |-> part(t1, i)] = << d[1], u, d[3] >> BY <2>2
  <2>5. QED BY <2>3, <2>4 DEF u
<1>2. Packed(t2, d) = FlattenSeq(<< d[1], d[2], d[3] >>)
  <2>1. t2[1] # "uint256" /\ t2[2] # "uint256" /\ t2[3] # "uint256" /\ DOMAIN t2 = 1..3
    OBVIOUS
  <2> HIDE DEF t2
  <2>2. part(t2, 1) = d[1] /\ part(t2, 2) = d[2] /\ part(t2, 3) = d[3] BY <2>1
  <2>3. Packed(t2, d) = FlattenSeq([i \in 1..3 |-> part(t2, i)]) BY <2>1 DEF Packed
  <2> HIDE DEF part
  <2>4. [i \in 1..3 |-> part(t2, i)] = << d[1], d[2], d[3] >> BY <2>2
  <2>5. QED BY <2>3, <2>4
<1>3. Packed(t3, d) = FlattenSeq(<< d[1], d[2], Uint256(d[3]), d[4] >>)
  <2> DEFINE u == Uint256(d[3])
  <2>1. /\ t3[1] # "uint256" /\ t3[2] # "uint256" /\ t3[3] = "uint256" /\ t3[4] # "uint256"
        /\ DOMAIN t3 = 1..4
    OBVIOUS
  <2> HIDE DEF t3
  <2>2. part(t3, 1) = d[1] /\ part(t3, 2) = d[2] /\ part(t3, 3) = u /\ part(t3, 4) = d[4]
    BY <2>1
  <2>3. Packed(t3, d) = FlattenSeq([i \in 1..4 |-> part(t3, i)]) BY <2>1 DEF Packed
  <2> HIDE DEF part, u
  <2>4. [i \in 1..4 |-> part(t3, i)] = << d[1], d[2], u, d[4] >> BY <2>2
  <2>5. QED BY <2>3, <2>4 DEF u
<1>4. Packed(t4, d) = FlattenSeq(<< d[1], d[2], Uint256(d[3]), Uint256(d[4]), d[5] >>)
  <2> DEFINE u == Uint256(d[3])  w == Uint256(d[4])
  <2>1. /\ t4[1] # "uint256" /\ t4[2] # "uint256" /\ t4[3] = "uint256" /\ t4[4] = "uint256"
        /\ t4[5] # "uint256" /\ DOMAIN t4 = 1..5
    OBVIOUS
  <2> HIDE DEF t4
  <2>2. /\ part(t4, 1) = d[1] /\ part(t4, 2) = d[2] /\ part(t4, 3) = u /\ part(t4, 4) = w
        /\ part(t4, 5) = d[5]
    BY <2>1
  <2>3. Packed(t4, d) = FlattenSeq([i \in 1..5 |-> part(t4, i)]) BY <2>1 DEF Packed
  <2> HIDE DEF part, u, w
  <2>4. [i \in 1..5 |-> part(t4, i)] = << d[1], d[2], u, w, d[5] >> BY <2>2
  <2>5. QED BY <2>3, <2>4 DEF u, w
<1>5. QED BY <1>1, <1>2, <1>3, <1>4

\* What stands in front of the tail of a deposit.
FrontParts(f, d) ==
    CASE f = "EtherDeposit" -> << d[1], Uint256(d[2]) >>
      [] f \in {"Erc20Deposit", "Erc721Deposit"} -> << d[1], d[2], Uint256(d[3]) >>
      [] f = "Erc1155SingleDeposit" -> << d[1], d[2], Uint256(d[3]), Uint256(d[4]) >>
      [] f = "Erc1155BatchDeposit" -> << d[1], d[2] >>
LEMMA EtherEncodersAgree ==
    ASSUME NEW d, d[1] \in Address, d[2] \in Nat, d[3] \in Seq(Byte)
    PROVE  \A r \in Representations :
              encodeEtherDeposit(d, r) = << FlattenSeq(FrontParts("EtherDeposit", d)) \o d[3] >>
<1> DEFINE a == d[1]  u == Uint256(d[2])  last == d[3]
           size == AddressSize + Word + Len(last)  front == <<a, u>>
<1>1. /\ a \in Seq(Byte) /\ Len(a) = AddressSize
      /\ u \in Seq(Byte) /\ Len(u) = Word /\ last \in Seq(Byte)
  BY AddressIsSeq, Uint256IsWord
<1>2. /\ encodeEtherDeposit(d, "bytes") = Filled(size, <<a, u, last>>)
      /\ encodeEtherDeposit(d, "hex") = << FlattenSeq(<<a, u, last>>) >>
      /\ FrontParts("EtherDeposit", d) = front
  <2>1. encodeEtherDeposit(d, "bytes") = Filled(size, <<a, u, last>>) BY DEF encodeEtherDeposit
  <2>2. encodeEtherDeposit(d, "hex") = << FlattenSeq(<<a, u, last>>) >> BY PackedIs DEF encodeEtherDeposit
  <2>3. FrontParts("EtherDeposit", d) = front BY DEF FrontParts
  <2>4. QED BY <2>1, <2>2, <2>3
<1>3. Len(last) \in Nat /\ AddressSize \in Nat /\ Word \in Nat
  BY LenProperties, SizesAssumption
<1>4. d[3] = last /\ size = AddressSize + Word + Len(last) OBVIOUS
<1> HIDE DEF a, u, last, size
<1>5. TuplesJoin(a, u, last, last) /\ FewJoined(a, u, last, last)
  BY <1>1, ShortTuples, FlattenFew
<1>6. /\ <<a, u, last>> = front \o <<last>> /\ front \in Seq(Seq(Byte))
      /\ FlattenSeq(<<a, u, last>>) = FlattenSeq(front) \o last
  BY <1>5 DEF TuplesJoin, FewJoined
<1>7. Len(FlattenSeq(front)) = Len(a) + Len(u) BY <1>5 DEF FewJoined
<1> HIDE DEF front
<1>8. IsPlainSize(size, front, last) BY <1>1, <1>3, <1>4, <1>7 DEF IsPlainSize
<1>9. Filled(size, front \o <<last>>) = << FlattenSeq(front) \o last >>
  BY <1>1, <1>6, <1>8, PlainFilled
<1>10. QED BY <1>2, <1>4, <1>6, <1>9 DEF Representations

LEMMA Erc20EncodersAgree ==
    ASSUME NEW d, d[1] \in Address, d[2] \in Address, d[3] \in Nat, d[4] \in Seq(Byte)
    PROVE  \A r \in Representations :
              encodeErc20Deposit(d, r) = << FlattenSeq(FrontParts("Erc20Deposit", d)) \o d[4] >>
<1> DEFINE a == d[1]  b == d[2]  u == Uint256(d[3])  last == d[4]
           size == 2 * AddressSize + Word + Len(last)  front == <<a, b, u>>
<1>1. /\ a \in Seq(Byte) /\ Len(a) = AddressSize /\ b \in Seq(Byte) /\ Len(b) = AddressSize
      /\ u \in Seq(Byte) /\ Len(u) = Word /\ last \in Seq(Byte)
  BY AddressIsSeq, Uint256IsWord
<1>2. /\ encodeErc20Deposit(d, "bytes") = Filled(size, <<a, b, u, last>>)
      /\ encodeErc20Deposit(d, "hex") = << FlattenSeq(<<a, b, u, last>>) >>
      /\ FrontParts("Erc20Deposit", d) = front
  <2>1. encodeErc20Deposit(d, "bytes") = Filled(size, <<a, b, u, last>>) BY DEF encodeErc20Deposit
  <2>2. encodeErc20Deposit(d, "hex") = << FlattenSeq(<<a, b, u, last>>) >> BY PackedIs DEF encodeErc20Deposit
  <2>3. FrontParts("Erc20Deposit", d) = front BY DEF FrontParts
  <2>4. QED BY <2>1, <2>2, <2>3
<1>3. Len(last) \in Nat /\ AddressSize \in Nat /\ Word \in Nat
  BY LenProperties, SizesAssumption
<1>4. d[4] = last /\ size = 2 * AddressSize + Word + Len(last) OBVIOUS
<1> HIDE DEF a, b, u, last, size
<1>5. TuplesJoin(a, b, u, last) /\ FewJoined(a, b, u, last)
  BY <1>1, ShortTuples, FlattenFew
<1>6. /\ <<a, b, u, last>> = front \o <<last>> /\ front \in Seq(Seq(Byte))
      /\ FlattenSeq(<<a, b, u, last>>) = FlattenSeq(front) \o last
  BY <1>5 DEF TuplesJoin, FewJoined
<1>7. Len(FlattenSeq(front)) = Len(a) + Len(b) + Len(u) BY <1>5 DEF FewJoined
<1> HIDE DEF front
<1>8. IsPlainSize(size, front, last) BY <1>1, <1>3, <1>4, <1>7 DEF IsPlainSize
<1>9. Filled(size, front \o <<last>>) = << FlattenSeq(front) \o last >>
  BY <1>1, <1>6, <1>8, PlainFilled
<1>10. QED BY <1>2, <1>4, <1>6, <1>9 DEF Representations

LEMMA Erc721EncodersAgree ==
    ASSUME NEW d, d[1] \in Address, d[2] \in Address, d[3] \in Nat,
           d[4] \in Seq(Byte), d[5] \in Seq(Byte)
    PROVE  \A r \in Representations :
              encodeErc721Deposit(d, r) =
                 << FlattenSeq(FrontParts("Erc721Deposit", d)) \o AbiEncode(dataAbi, << d[4], d[5] >>) >>
<1> DEFINE a == d[1]  b == d[2]  u == Uint256(d[3])
           fs == << d[4], d[5] >>  e == AbiEncode(dataAbi, fs)  front == <<a, b, u>>
           size == 2 * AddressSize + Word + dataTailSize(d[4], d[5])
<1>1. /\ a \in Seq(Byte) /\ Len(a) = AddressSize /\ b \in Seq(Byte) /\ Len(b) = AddressSize
      /\ u \in Seq(Byte) /\ Len(u) = Word
  BY AddressIsSeq, Uint256IsWord
<1>2. /\ WellTyped(dataAbi, fs, 2)
      /\ DataTail(d[4], d[5]) = Heads(dataAbi, fs) \o Tails(dataAbi, fs)
      /\ dataTailSize(d[4], d[5]) =
            Len(FlattenSeq(Heads(dataAbi, fs))) + Len(FlattenSeq(Tails(dataAbi, fs)))
      /\ dataTailSize(d[4], d[5]) \in Nat
  <2>1. fs[1] = d[4] /\ fs[2] = d[5] OBVIOUS
  <2> HIDE DEF fs
  <2>2. QED BY <2>1, DataTailIs
<1>3. /\ encodeErc721Deposit(d, "bytes") = Filled(size, front \o DataTail(d[4], d[5]))
      /\ encodeErc721Deposit(d, "hex") = << FlattenSeq(<<a, b, u, e>>) >>
      /\ FrontParts("Erc721Deposit", d) = front
  <2>1. encodeErc721Deposit(d, "bytes") = Filled(size, front \o DataTail(d[4], d[5]))
    BY DEF encodeErc721Deposit
  <2>2. encodeErc721Deposit(d, "hex") = << FlattenSeq(<<a, b, u, e>>) >>
    <3> DEFINE x == << d[1], d[2], d[3], e >>
    <3>1. x[1] = d[1] /\ x[2] = d[2] /\ x[3] = d[3] /\ x[4] = e OBVIOUS
    <3>2. encodeErc721Deposit(d, "hex") = << Packed(<<"address", "address", "uint256", "bytes">>, x) >>
      BY DEF encodeErc721Deposit
    <3> HIDE DEF x, e
    <3>3. Packed(<<"address", "address", "uint256", "bytes">>, x) = FlattenSeq(<< x[1], x[2], Uint256(x[3]), x[4] >>)
      BY PackedIs
    <3>4. QED BY <3>1, <3>2, <3>3
  <2>3. FrontParts("Erc721Deposit", d) = front BY DEF FrontParts
  <2>4. QED BY <2>1, <2>2, <2>3
<1>4. e \in Seq(Byte)
  <2> HIDE DEF fs
  <2>1. QED BY <1>2, AbiEncodeIs, HeadsAre, TailsAre, FlattenIsSeq, BytesConcat
<1>5. size = 2 * AddressSize + Word + dataTailSize(d[4], d[5]) OBVIOUS
<1>6. AddressSize \in Nat /\ Word \in Nat BY SizesAssumption
<1> HIDE DEF a, b, u, e, fs, size
<1>7. TuplesJoin(a, b, u, e) /\ FewJoined(a, b, u, e) BY <1>1, <1>4, ShortTuples, FlattenFew
<1>8. front \in Seq(Seq(Byte)) /\ Len(FlattenSeq(front)) = Len(a) + Len(b) + Len(u)
  BY <1>7 DEF FewJoined
<1>9. FlattenSeq(<<a, b, u, e>>) = FlattenSeq(front) \o e
  BY <1>7 DEF FewJoined
<1> HIDE DEF front
<1>10. IsSizeOf(size, front, Heads(dataAbi, fs), Tails(dataAbi, fs))
  BY <1>1, <1>2, <1>5, <1>6, <1>8 DEF IsSizeOf
<1>11. Filled(size, front \o DataTail(d[4], d[5])) = << FlattenSeq(front) \o e >>
  BY <1>2, <1>8, <1>10, TailFilled DEF e
<1>12. QED BY <1>3, <1>9, <1>11 DEF Representations, e, fs

LEMMA Erc1155SingleEncodersAgree ==
    ASSUME NEW d, d[1] \in Address, d[2] \in Address, d[3] \in Nat, d[4] \in Nat,
           d[5] \in Seq(Byte), d[6] \in Seq(Byte)
    PROVE  \A r \in Representations :
              encodeErc1155SingleDeposit(d, r) =
                 << FlattenSeq(FrontParts("Erc1155SingleDeposit", d)) \o AbiEncode(dataAbi, << d[5], d[6] >>) >>
<1> DEFINE a == d[1]  b == d[2]  u == Uint256(d[3])  w == Uint256(d[4])
           fs == << d[5], d[6] >>  e == AbiEncode(dataAbi, fs)  front == <<a, b, u, w>>
           size == 2 * AddressSize + 2 * Word + dataTailSize(d[5], d[6])
<1>1. /\ a \in Seq(Byte) /\ Len(a) = AddressSize /\ b \in Seq(Byte) /\ Len(b) = AddressSize
      /\ u \in Seq(Byte) /\ Len(u) = Word
      /\ w \in Seq(Byte) /\ Len(w) = Word
  BY AddressIsSeq, Uint256IsWord
<1>2. /\ WellTyped(dataAbi, fs, 2)
      /\ DataTail(d[5], d[6]) = Heads(dataAbi, fs) \o Tails(dataAbi, fs)
      /\ dataTailSize(d[5], d[6]) =
            Len(FlattenSeq(Heads(dataAbi, fs))) + Len(FlattenSeq(Tails(dataAbi, fs)))
      /\ dataTailSize(d[5], d[6]) \in Nat
  <2>1. fs[1] = d[5] /\ fs[2] = d[6] OBVIOUS
  <2> HIDE DEF fs
  <2>2. QED BY <2>1, DataTailIs
<1>3. /\ encodeErc1155SingleDeposit(d, "bytes") = Filled(size, front \o DataTail(d[5], d[6]))
      /\ encodeErc1155SingleDeposit(d, "hex") = << FlattenSeq(<<a, b, u, w, e>>) >>
      /\ FrontParts("Erc1155SingleDeposit", d) = front
  <2>1. encodeErc1155SingleDeposit(d, "bytes") = Filled(size, front \o DataTail(d[5], d[6]))
    BY DEF encodeErc1155SingleDeposit
  <2>2. encodeErc1155SingleDeposit(d, "hex") = << FlattenSeq(<<a, b, u, w, e>>) >>
    <3> DEFINE x == << d[1], d[2], d[3], d[4], e >>
    <3>1. x[1] = d[1] /\ x[2] = d[2] /\ x[3] = d[3] /\ x[4] = d[4] /\ x[5] = e OBVIOUS
    <3>2. encodeErc1155SingleDeposit(d, "hex") = << Packed(<<"address", "address", "uint256", "uint256", "bytes">>, x) >>
      BY DEF encodeErc1155SingleDeposit
    <3> HIDE DEF x, e
    <3>3. Packed(<<"address", "address", "uint256", "uint256", "bytes">>, x) = FlattenSeq(<< x[1], x[2], Uint256(x[3]), Uint256(x[4]), x[5] >>)
      BY PackedIs
    <3>4. QED BY <3>1, <3>2, <3>3
  <2>3. FrontParts("Erc1155SingleDeposit", d) = front BY DEF FrontParts
  <2>4. QED BY <2>1, <2>2, <2>3
<1>4. e \in Seq(Byte)
  <2> HIDE DEF fs
  <2>1. QED BY <1>2, AbiEncodeIs, HeadsAre, TailsAre, FlattenIsSeq, BytesConcat
<1>5. size = 2 * AddressSize + 2 * Word + dataTailSize(d[5], d[6]) OBVIOUS
<1>6. AddressSize \in Nat /\ Word \in Nat BY SizesAssumption
<1> HIDE DEF a, b, u, w, e, fs, size
<1>7. TuplesJoin(a, b, u, w) /\ FewJoined(a, b, u, w) BY <1>1, <1>4, ShortTuples, FlattenFew
<1>8. front \in Seq(Seq(Byte)) /\ Len(FlattenSeq(front)) = Len(a) + Len(b) + Len(u) + Len(w)
  BY <1>7 DEF FewJoined
<1>9. FlattenSeq(<<a, b, u, w, e>>) = FlattenSeq(front) \o e
  <2>1. FiveJoin(a, b, u, w, e) BY <1>1, <1>4, FiveTuples
  <2>2. <<a, b, u, w>> \o <<e>> = <<a, b, u, w, e>> BY ONLY <2>1 DEF FiveJoin
  <2>3. front = <<a, b, u, w>> OBVIOUS
  <2> HIDE DEF front
  <2>4. FlattenSeq(front \o <<e>>) = FlattenSeq(front) \o e BY <1>4, <1>8, FlattenAppend
  <2>5. front \o <<e>> = <<a, b, u, w, e>> BY ONLY <2>2, <2>3, Zenon
  <2>6. QED BY ONLY <2>4, <2>5, <2>3, Zenon
<1> HIDE DEF front
<1>10. IsSizeOf(size, front, Heads(dataAbi, fs), Tails(dataAbi, fs))
  BY <1>1, <1>2, <1>5, <1>6, <1>8 DEF IsSizeOf
<1>11. Filled(size, front \o DataTail(d[5], d[6])) = << FlattenSeq(front) \o e >>
  BY <1>2, <1>8, <1>10, TailFilled DEF e
<1>12. QED BY <1>3, <1>9, <1>11 DEF Representations, e, fs

LEMMA Erc1155BatchEncodersAgree ==
    ASSUME NEW d, d[1] \in Address, d[2] \in Address,
           WrittenAs("uint256[]", d[3]), WrittenAs("uint256[]", d[4]),
           WrittenAs("bytes", d[5]), WrittenAs("bytes", d[6])
    PROVE  \A r \in Representations :
              encodeErc1155BatchDeposit(d, r) =
                 << FlattenSeq(FrontParts("Erc1155BatchDeposit", d)) \o AbiEncode(batchDataAbi, SubSeq(d, 3, 6)) >>
<1> DEFINE a == d[1]  b == d[2]
           fs == SubSeq(d, 3, 6)  e == AbiEncode(batchDataAbi, fs)  front == <<a, b>>
           size == 2 * AddressSize + batchDataTailSize(d[3], d[4], d[5], d[6])
<1>1. /\ a \in Seq(Byte) /\ Len(a) = AddressSize /\ b \in Seq(Byte) /\ Len(b) = AddressSize
  BY AddressIsSeq, Uint256IsWord
<1>2. /\ WellTyped(batchDataAbi, fs, 4)
      /\ BatchDataTail(d[3], d[4], d[5], d[6]) = Heads(batchDataAbi, fs) \o Tails(batchDataAbi, fs)
      /\ batchDataTailSize(d[3], d[4], d[5], d[6]) =
            Len(FlattenSeq(Heads(batchDataAbi, fs))) + Len(FlattenSeq(Tails(batchDataAbi, fs)))
      /\ batchDataTailSize(d[3], d[4], d[5], d[6]) \in Nat
  <2>1. fs[1] = d[3] /\ fs[2] = d[4] /\ fs[3] = d[5] /\ fs[4] = d[6]
    <3>1. \A i \in 3..6 : d[i] \in {d[3], d[4], d[5], d[6]} OBVIOUS
    <3>2. \A i \in 1..(6 - 3 + 1) : SubSeq(d, 3, 6)[i] = d[3 + i - 1] BY <3>1, SubSeqProperties
    <3>3. QED BY <3>2
  <2> HIDE DEF fs
  <2>2. BatchFields(fs, d[3], d[4], d[5], d[6]) BY <2>1 DEF BatchFields
  <2>3. QED BY <2>2, BatchDataTailIs
<1>3. /\ encodeErc1155BatchDeposit(d, "bytes") = Filled(size, front \o BatchDataTail(d[3], d[4], d[5], d[6]))
      /\ encodeErc1155BatchDeposit(d, "hex") = << FlattenSeq(<<a, b, e>>) >>
      /\ FrontParts("Erc1155BatchDeposit", d) = front
  <2>1. encodeErc1155BatchDeposit(d, "bytes") = Filled(size, front \o BatchDataTail(d[3], d[4], d[5], d[6]))
    BY DEF encodeErc1155BatchDeposit
  <2>2. encodeErc1155BatchDeposit(d, "hex") = << FlattenSeq(<<a, b, e>>) >>
    <3> DEFINE x == << d[1], d[2], e >>
    <3>1. x[1] = d[1] /\ x[2] = d[2] /\ x[3] = e OBVIOUS
    <3>2. encodeErc1155BatchDeposit(d, "hex") = << Packed(<<"address", "address", "bytes">>, x) >>
      BY DEF encodeErc1155BatchDeposit
    <3> HIDE DEF x, e
    <3>3. Packed(<<"address", "address", "bytes">>, x) = FlattenSeq(<< x[1], x[2], x[3] >>)
      BY PackedIs
    <3>4. QED BY <3>1, <3>2, <3>3
  <2>3. FrontParts("Erc1155BatchDeposit", d) = front BY DEF FrontParts
  <2>4. QED BY <2>1, <2>2, <2>3
<1>4. e \in Seq(Byte)
  <2> HIDE DEF fs
  <2>1. QED BY <1>2, AbiEncodeIs, HeadsAre, TailsAre, FlattenIsSeq, BytesConcat
<1>5. size = 2 * AddressSize + batchDataTailSize(d[3], d[4], d[5], d[6]) OBVIOUS
<1>6. AddressSize \in Nat /\ Word \in Nat BY SizesAssumption
<1> HIDE DEF a, b, e, fs, size
<1>7. TuplesJoin(a, b, e, e) /\ FewJoined(a, b, e, e) BY <1>1, <1>4, ShortTuples, FlattenFew
<1>8. front \in Seq(Seq(Byte)) /\ Len(FlattenSeq(front)) = Len(a) + Len(b)
  BY <1>7 DEF FewJoined
<1>9. FlattenSeq(<<a, b, e>>) = FlattenSeq(front) \o e
  BY <1>7 DEF FewJoined
<1> HIDE DEF front
<1>10. IsSizeOf(size, front, Heads(batchDataAbi, fs), Tails(batchDataAbi, fs))
  BY <1>1, <1>2, <1>5, <1>6, <1>8 DEF IsSizeOf
<1>11. Filled(size, front \o BatchDataTail(d[3], d[4], d[5], d[6])) = << FlattenSeq(front) \o e >>
  BY <1>2, <1>8, <1>10, TailFilled DEF e
<1>12. QED BY <1>3, <1>9, <1>11 DEF Representations, e, fs
-----------------------------------------------------------------------------
(* The fields of each format.                                              *)
FieldTypes(f) ==
    CASE f = "EvmAdvance" -> << "uint256", "address", "address", "uint256", "uint256",
                                "uint256", "uint256", "bytes" >>
      [] f = "Notice" -> << "bytes" >>
      [] f = "Voucher" -> << "address", "uint256", "bytes" >>
      [] f = "DelegateCallVoucher" -> << "address", "bytes" >>
      [] f = "EtherDeposit" -> << "address", "uint256", "bytes" >>
      [] f = "Erc20Deposit" -> << "address", "address", "uint256", "bytes" >>
      [] f = "Erc721Deposit" -> << "address", "address", "uint256", "bytes", "bytes" >>
      [] f = "Erc1155SingleDeposit" ->
            << "address", "address", "uint256", "uint256", "bytes", "bytes" >>
      [] f = "Erc1155BatchDeposit" ->
            << "address", "address", "uint256[]", "uint256[]", "bytes", "bytes" >>

Sizes == [EvmAdvance |-> 8, Notice |-> 1, Voucher |-> 3, DelegateCallVoucher |-> 2,
          EtherDeposit |-> 3, Erc20Deposit |-> 4, Erc721Deposit |-> 5,
          Erc1155SingleDeposit |-> 6, Erc1155BatchDeposit |-> 6]

DepositTypesJoin ==
    /\ <<"address", "address", "uint256">> \o <<"bytes", "bytes">> =
          <<"address", "address", "uint256", "bytes", "bytes">>
    /\ <<"address", "address", "uint256", "uint256">> \o <<"bytes", "bytes">> =
          <<"address", "address", "uint256", "uint256", "bytes", "bytes">>
    /\ <<"address", "address">> \o <<"uint256[]", "uint256[]", "bytes", "bytes">> =
          <<"address", "address", "uint256[]", "uint256[]", "bytes", "bytes">>

LEMMA DepositTypes == DepositTypesJoin
<1>1. IsConcat(Types, <<"address", "address", "uint256">>, <<"bytes", "bytes">>,
               <<"address", "address", "uint256", "bytes", "bytes">>)
  BY DEF IsConcat, Types
<1>2. IsConcat(Types, <<"address", "address", "uint256", "uint256">>, <<"bytes", "bytes">>,
               <<"address", "address", "uint256", "uint256", "bytes", "bytes">>)
  BY DEF IsConcat, Types
<1>3. IsConcat(Types, <<"address", "address">>, <<"uint256[]", "uint256[]", "bytes", "bytes">>,
               <<"address", "address", "uint256[]", "uint256[]", "bytes", "bytes">>)
  BY DEF IsConcat, Types
<1>4. QED BY <1>1, <1>2, <1>3, ConcatIs DEF DepositTypesJoin

LEMMA TypesAre ==
    ASSUME NEW f \in Formats
    PROVE  TypesOf(f) = FieldTypes(f)
<1>1. CASE f = "EvmAdvance" BY <1>1 DEF TypesOf, FieldTypes, evmAdvance
<1>2. CASE f \in Outputs BY <1>2 DEF TypesOf, FieldTypes, Outputs, outputAbi
<1>3. CASE f \in Deposits
  <2>1. f \notin Outputs BY <1>3 DEF Outputs, Deposits
  <2>2. CASE f = "EtherDeposit" BY <2>1, <2>2 DEF TypesOf, FieldTypes
  <2>3. CASE f = "Erc20Deposit" BY <2>1, <2>3 DEF TypesOf, FieldTypes
  <2>4. CASE f = "Erc721Deposit"
    <3>1. TypesOf(f) = <<"address", "address", "uint256">> \o <<"bytes", "bytes">>
      BY <2>1, <2>4 DEF TypesOf, dataAbi
    <3>2. FieldTypes(f) = <<"address", "address", "uint256", "bytes", "bytes">>
      BY <2>4 DEF FieldTypes
    <3>3. QED BY <3>1, <3>2, DepositTypes DEF DepositTypesJoin
  <2>5. CASE f = "Erc1155SingleDeposit"
    <3>1. TypesOf(f) = <<"address", "address", "uint256", "uint256">> \o <<"bytes", "bytes">>
      BY <2>1, <2>5 DEF TypesOf, dataAbi
    <3>2. FieldTypes(f) = <<"address", "address", "uint256", "uint256", "bytes", "bytes">>
      BY <2>5 DEF FieldTypes
    <3>3. QED BY <3>1, <3>2, DepositTypes DEF DepositTypesJoin
  <2>6. CASE f = "Erc1155BatchDeposit"
    <3>1. TypesOf(f) = <<"address", "address">> \o <<"uint256[]", "uint256[]", "bytes", "bytes">>
      BY <2>1, <2>6 DEF TypesOf, batchDataAbi
    <3>2. FieldTypes(f) = <<"address", "address", "uint256[]", "uint256[]", "bytes", "bytes">>
      BY <2>6 DEF FieldTypes
    <3>3. QED BY <3>1, <3>2, DepositTypes DEF DepositTypesJoin
  <2>7. QED BY <1>3, <2>2, <2>3, <2>4, <2>5, <2>6 DEF Deposits
<1>4. QED BY <1>1, <1>2, <1>3 DEF Formats

\* What a field of each type is taken from.
ValuesOf(type) ==
    CASE type = "uint256" -> Numbers
      [] type = "address" -> Addresses
      [] type = "bytes" -> ByteStrings
      [] type = "uint256[]" -> Lists

(* A tuple of fields.                                                      *)
LEMMA TupleOfFields ==
    ASSUME NEW f \in Formats, NEW v \in FieldsOf(f)
    PROVE  /\ Sizes[f] \in Nat \ {0} /\ v = [i \in 1..Sizes[f] |-> v[i]] /\ Len(v) = Sizes[f]
           /\ FieldTypes(f) \in [1..Sizes[f] -> Types] /\ FieldTypes(f)[Sizes[f]] = "bytes"
           /\ \A i \in 1..Sizes[f] : v[i] \in ValuesOf(FieldTypes(f)[i])
<1>1. CASE f = "EvmAdvance"
  <2>1. v \in Numbers \X Addresses \X Addresses \X Numbers \X Numbers
                             \X Numbers \X Numbers \X ByteStrings
    BY <1>1 DEF FieldsOf
  <2>2. /\ v = [i \in 1..8 |-> v[i]] /\ Len(v) = 8 /\ DOMAIN v = 1..8
        /\ v[1] \in Numbers /\ v[2] \in Addresses /\ v[3] \in Addresses /\ v[4] \in Numbers
        /\ v[5] \in Numbers /\ v[6] \in Numbers /\ v[7] \in Numbers /\ v[8] \in ByteStrings
    BY <2>1
  <2>3. Sizes[f] = 8 BY <1>1 DEF Sizes
  <2>4. FieldTypes(f) = << "uint256", "address", "address", "uint256", "uint256",
                           "uint256", "uint256", "bytes" >>
    BY <1>1 DEF FieldTypes
  <2>5. /\ ValuesOf("uint256") = Numbers /\ ValuesOf("address") = Addresses
        /\ ValuesOf("bytes") = ByteStrings
    BY DEF ValuesOf
  <2>6. \A i \in 1..8 : v[i] \in ValuesOf(FieldTypes(f)[i])
    <3> DEFINE t == FieldTypes(f)
    <3>1. /\ t[1] = "uint256" /\ t[2] = "address" /\ t[3] = "address" /\ t[4] = "uint256"
          /\ t[5] = "uint256" /\ t[6] = "uint256" /\ t[7] = "uint256" /\ t[8] = "bytes"
      BY <2>4
    <3> HIDE DEF t
    <3>2. /\ v[1] \in ValuesOf(t[1]) /\ v[2] \in ValuesOf(t[2]) /\ v[3] \in ValuesOf(t[3])
          /\ v[4] \in ValuesOf(t[4]) /\ v[5] \in ValuesOf(t[5]) /\ v[6] \in ValuesOf(t[6])
          /\ v[7] \in ValuesOf(t[7]) /\ v[8] \in ValuesOf(t[8])
      BY <2>2, <2>5, <3>1
    <3>3. \A i \in 1..8 : i \in {1, 2, 3, 4, 5, 6, 7, 8} OBVIOUS
    <3>4. QED BY <3>2, <3>3 DEF t
  <2>7. FieldTypes(f) \in [1..8 -> Types] /\ FieldTypes(f)[8] = "bytes" BY <2>4 DEF Types
  <2>8. QED BY <2>2, <2>3, <2>6, <2>7
<1>2. CASE f = "Notice"
  <2>1. v \in {<<payload>> : payload \in ByteStrings} BY <1>2 DEF FieldsOf
  <2>2. v = [i \in 1..1 |-> v[i]] /\ Len(v) = 1 /\ v[1] \in ByteStrings BY <2>1
  <2>3. Sizes[f] = 1 BY <1>2 DEF Sizes
  <2>4. FieldTypes(f) = << "bytes" >> BY <1>2 DEF FieldTypes
  <2>5. ValuesOf("bytes") = ByteStrings BY DEF ValuesOf
  <2>6. FieldTypes(f) \in [1..1 -> Types] /\ FieldTypes(f)[1] = "bytes" BY <2>4 DEF Types
  <2>7. QED BY <2>2, <2>3, <2>5, <2>6
<1>3. CASE f = "Voucher"
  <2>1. v \in Addresses \X Numbers \X ByteStrings BY <1>3 DEF FieldsOf
  <2>2. /\ v = [i \in 1..3 |-> v[i]] /\ Len(v) = 3
        /\ v[1] \in Addresses /\ v[2] \in Numbers /\ v[3] \in ByteStrings
    BY <2>1
  <2>3. Sizes[f] = 3 BY <1>3 DEF Sizes
  <2>4. FieldTypes(f) = << "address", "uint256", "bytes" >> BY <1>3 DEF FieldTypes
  <2>5. /\ ValuesOf("uint256") = Numbers /\ ValuesOf("address") = Addresses
        /\ ValuesOf("bytes") = ByteStrings
    BY DEF ValuesOf
  <2>6. FieldTypes(f) \in [1..3 -> Types] /\ FieldTypes(f)[3] = "bytes" BY <2>4 DEF Types
  <2>7. \A i \in 1..3 : v[i] \in ValuesOf(FieldTypes(f)[i]) BY <2>2, <2>4, <2>5
  <2>8. QED BY <2>2, <2>3, <2>6, <2>7
<1>4. CASE f = "DelegateCallVoucher"
  <2>1. v \in Addresses \X ByteStrings
    BY <1>4 DEF FieldsOf
  <2>2. /\ v = [i \in 1..2 |-> v[i]] /\ Len(v) = 2 /\ v[1] \in Addresses
        /\ v[2] \in ByteStrings
    BY <2>1
  <2>3. Sizes[f] = 2 BY <1>4 DEF Sizes
  <2>4. FieldTypes(f) = << "address", "bytes" >>
    BY <1>4 DEF FieldTypes
  <2>5. /\ ValuesOf("address") = Addresses /\ ValuesOf("bytes") = ByteStrings
    BY DEF ValuesOf
  <2>6. \A i \in 1..2 : v[i] \in ValuesOf(FieldTypes(f)[i])
    <3> DEFINE t == FieldTypes(f)
    <3>1. /\ t[1] = "address" /\ t[2] = "bytes"
      BY <2>4
    <3> HIDE DEF t
    <3>2. /\ v[1] \in ValuesOf(t[1]) /\ v[2] \in ValuesOf(t[2])
      BY <2>2, <2>5, <3>1
    <3>3. \A i \in 1..2 : i \in {1, 2} OBVIOUS
    <3>4. QED BY <3>2, <3>3 DEF t
  <2>7. FieldTypes(f) \in [1..2 -> Types] /\ FieldTypes(f)[2] = "bytes" BY <2>4 DEF Types
  <2>8. QED BY <2>2, <2>3, <2>6, <2>7
<1>5. CASE f = "EtherDeposit"
  <2>1. v \in Addresses \X Numbers \X ByteStrings
    BY <1>5 DEF FieldsOf
  <2>2. /\ v = [i \in 1..3 |-> v[i]] /\ Len(v) = 3 /\ v[1] \in Addresses /\ v[2] \in Numbers
        /\ v[3] \in ByteStrings
    BY <2>1
  <2>3. Sizes[f] = 3 BY <1>5 DEF Sizes
  <2>4. FieldTypes(f) = << "address", "uint256", "bytes" >>
    BY <1>5 DEF FieldTypes
  <2>5. /\ ValuesOf("address") = Addresses /\ ValuesOf("bytes") = ByteStrings
        /\ ValuesOf("uint256") = Numbers
    BY DEF ValuesOf
  <2>6. \A i \in 1..3 : v[i] \in ValuesOf(FieldTypes(f)[i])
    <3> DEFINE t == FieldTypes(f)
    <3>1. /\ t[1] = "address" /\ t[2] = "uint256" /\ t[3] = "bytes"
      BY <2>4
    <3> HIDE DEF t
    <3>2. /\ v[1] \in ValuesOf(t[1]) /\ v[2] \in ValuesOf(t[2]) /\ v[3] \in ValuesOf(t[3])
      BY <2>2, <2>5, <3>1
    <3>3. \A i \in 1..3 : i \in {1, 2, 3} OBVIOUS
    <3>4. QED BY <3>2, <3>3 DEF t
  <2>7. FieldTypes(f) \in [1..3 -> Types] /\ FieldTypes(f)[3] = "bytes" BY <2>4 DEF Types
  <2>8. QED BY <2>2, <2>3, <2>6, <2>7
<1>6. CASE f = "Erc20Deposit"
  <2>1. v \in Addresses \X Addresses \X Numbers \X ByteStrings
    BY <1>6 DEF FieldsOf
  <2>2. /\ v = [i \in 1..4 |-> v[i]] /\ Len(v) = 4 /\ v[1] \in Addresses
        /\ v[2] \in Addresses /\ v[3] \in Numbers /\ v[4] \in ByteStrings
    BY <2>1
  <2>3. Sizes[f] = 4 BY <1>6 DEF Sizes
  <2>4. FieldTypes(f) = << "address", "address", "uint256", "bytes" >>
    BY <1>6 DEF FieldTypes
  <2>5. /\ ValuesOf("address") = Addresses /\ ValuesOf("bytes") = ByteStrings
        /\ ValuesOf("uint256") = Numbers
    BY DEF ValuesOf
  <2>6. \A i \in 1..4 : v[i] \in ValuesOf(FieldTypes(f)[i])
    <3> DEFINE t == FieldTypes(f)
    <3>1. /\ t[1] = "address" /\ t[2] = "address" /\ t[3] = "uint256" /\ t[4] = "bytes"
      BY <2>4
    <3> HIDE DEF t
    <3>2. /\ v[1] \in ValuesOf(t[1]) /\ v[2] \in ValuesOf(t[2]) /\ v[3] \in ValuesOf(t[3])
          /\ v[4] \in ValuesOf(t[4])
      BY <2>2, <2>5, <3>1
    <3>3. \A i \in 1..4 : i \in {1, 2, 3, 4} OBVIOUS
    <3>4. QED BY <3>2, <3>3 DEF t
  <2>7. FieldTypes(f) \in [1..4 -> Types] /\ FieldTypes(f)[4] = "bytes" BY <2>4 DEF Types
  <2>8. QED BY <2>2, <2>3, <2>6, <2>7
<1>7. CASE f = "Erc721Deposit"
  <2>1. v \in Addresses \X Addresses \X Numbers \X ByteStrings \X ByteStrings
    BY <1>7 DEF FieldsOf
  <2>2. /\ v = [i \in 1..5 |-> v[i]] /\ Len(v) = 5 /\ v[1] \in Addresses
        /\ v[2] \in Addresses /\ v[3] \in Numbers /\ v[4] \in ByteStrings
        /\ v[5] \in ByteStrings
    BY <2>1
  <2>3. Sizes[f] = 5 BY <1>7 DEF Sizes
  <2>4. FieldTypes(f) = << "address", "address", "uint256", "bytes", "bytes" >>
    BY <1>7 DEF FieldTypes
  <2>5. /\ ValuesOf("address") = Addresses /\ ValuesOf("bytes") = ByteStrings
        /\ ValuesOf("uint256") = Numbers
    BY DEF ValuesOf
  <2>6. \A i \in 1..5 : v[i] \in ValuesOf(FieldTypes(f)[i])
    <3> DEFINE t == FieldTypes(f)
    <3>1. /\ t[1] = "address" /\ t[2] = "address" /\ t[3] = "uint256" /\ t[4] = "bytes"
          /\ t[5] = "bytes"
      BY <2>4
    <3> HIDE DEF t
    <3>2. /\ v[1] \in ValuesOf(t[1]) /\ v[2] \in ValuesOf(t[2]) /\ v[3] \in ValuesOf(t[3])
          /\ v[4] \in ValuesOf(t[4]) /\ v[5] \in ValuesOf(t[5])
      BY <2>2, <2>5, <3>1
    <3>3. \A i \in 1..5 : i \in {1, 2, 3, 4, 5} OBVIOUS
    <3>4. QED BY <3>2, <3>3 DEF t
  <2>7. FieldTypes(f) \in [1..5 -> Types] /\ FieldTypes(f)[5] = "bytes" BY <2>4 DEF Types
  <2>8. QED BY <2>2, <2>3, <2>6, <2>7
<1>8. CASE f = "Erc1155SingleDeposit"
  <2>1. v \in Addresses \X Addresses \X Numbers \X Numbers \X ByteStrings \X ByteStrings
    BY <1>8 DEF FieldsOf
  <2>2. /\ v = [i \in 1..6 |-> v[i]] /\ Len(v) = 6 /\ v[1] \in Addresses
        /\ v[2] \in Addresses /\ v[3] \in Numbers /\ v[4] \in Numbers
        /\ v[5] \in ByteStrings /\ v[6] \in ByteStrings
    BY <2>1
  <2>3. Sizes[f] = 6 BY <1>8 DEF Sizes
  <2>4. FieldTypes(f) = << "address", "address", "uint256", "uint256", "bytes", "bytes" >>
    BY <1>8 DEF FieldTypes
  <2>5. /\ ValuesOf("address") = Addresses /\ ValuesOf("bytes") = ByteStrings
        /\ ValuesOf("uint256") = Numbers
    BY DEF ValuesOf
  <2>6. \A i \in 1..6 : v[i] \in ValuesOf(FieldTypes(f)[i])
    <3> DEFINE t == FieldTypes(f)
    <3>1. /\ t[1] = "address" /\ t[2] = "address" /\ t[3] = "uint256" /\ t[4] = "uint256"
          /\ t[5] = "bytes" /\ t[6] = "bytes"
      BY <2>4
    <3> HIDE DEF t
    <3>2. /\ v[1] \in ValuesOf(t[1]) /\ v[2] \in ValuesOf(t[2]) /\ v[3] \in ValuesOf(t[3])
          /\ v[4] \in ValuesOf(t[4]) /\ v[5] \in ValuesOf(t[5]) /\ v[6] \in ValuesOf(t[6])
      BY <2>2, <2>5, <3>1
    <3>3. \A i \in 1..6 : i \in {1, 2, 3, 4, 5, 6} OBVIOUS
    <3>4. QED BY <3>2, <3>3 DEF t
  <2>7. FieldTypes(f) \in [1..6 -> Types] /\ FieldTypes(f)[6] = "bytes" BY <2>4 DEF Types
  <2>8. QED BY <2>2, <2>3, <2>6, <2>7
<1>9. CASE f = "Erc1155BatchDeposit"
  <2>1. v \in Addresses \X Addresses \X Lists \X Lists \X ByteStrings \X ByteStrings
    BY <1>9 DEF FieldsOf
  <2>2. /\ v = [i \in 1..6 |-> v[i]] /\ Len(v) = 6 /\ v[1] \in Addresses
        /\ v[2] \in Addresses /\ v[3] \in Lists /\ v[4] \in Lists /\ v[5] \in ByteStrings
        /\ v[6] \in ByteStrings
    BY <2>1
  <2>3. Sizes[f] = 6 BY <1>9 DEF Sizes
  <2>4. FieldTypes(f) = << "address", "address", "uint256[]", "uint256[]", "bytes", "bytes" >>
    BY <1>9 DEF FieldTypes
  <2>5. /\ ValuesOf("address") = Addresses /\ ValuesOf("bytes") = ByteStrings
        /\ ValuesOf("uint256[]") = Lists
    BY DEF ValuesOf
  <2>6. \A i \in 1..6 : v[i] \in ValuesOf(FieldTypes(f)[i])
    <3> DEFINE t == FieldTypes(f)
    <3>1. /\ t[1] = "address" /\ t[2] = "address" /\ t[3] = "uint256[]"
          /\ t[4] = "uint256[]" /\ t[5] = "bytes" /\ t[6] = "bytes"
      BY <2>4
    <3> HIDE DEF t
    <3>2. /\ v[1] \in ValuesOf(t[1]) /\ v[2] \in ValuesOf(t[2]) /\ v[3] \in ValuesOf(t[3])
          /\ v[4] \in ValuesOf(t[4]) /\ v[5] \in ValuesOf(t[5]) /\ v[6] \in ValuesOf(t[6])
      BY <2>2, <2>5, <3>1
    <3>3. \A i \in 1..6 : i \in {1, 2, 3, 4, 5, 6} OBVIOUS
    <3>4. QED BY <3>2, <3>3 DEF t
  <2>7. FieldTypes(f) \in [1..6 -> Types] /\ FieldTypes(f)[6] = "bytes" BY <2>4 DEF Types
  <2>8. QED BY <2>2, <2>3, <2>6, <2>7
<1>10. QED
  BY <1>1, <1>2, <1>3, <1>4, <1>5, <1>6, <1>7, <1>8, <1>9 DEF Formats, Outputs, Deposits

(* What the fields are, when they are all in range: ready to be written.   *)
LEMMA FieldsAreTyped ==
    ASSUME NEW f \in Formats, NEW v \in FieldsOf(f), InRange(f, v)
    PROVE  WellTyped(FieldTypes(f), v, Sizes[f])
<1> DEFINE n == Sizes[f]  t == FieldTypes(f)
<1>1. /\ n \in Nat \ {0} /\ v = [i \in 1..n |-> v[i]] /\ t \in [1..n -> Types]
      /\ \A i \in 1..n : v[i] \in ValuesOf(t[i])
  BY TupleOfFields
<1>2. DOMAIN v = 1..n
  <2> HIDE DEF n
  <2>1. QED BY <1>1
<1>3. TypesOf(f) = t BY TypesAre
<1> HIDE DEF n, t
<1>4. \A i \in 1..n : /\ t[i] = "uint256" => Writable(v[i])
                      /\ t[i] = "uint256[]" => \A k \in DOMAIN v[i] : Writable(v[i][k])
  BY <1>2, <1>3 DEF InRange
<1>5. ASSUME NEW i \in 1..n PROVE WrittenAs(t[i], v[i])
  <2>1. CASE t[i] = "uint256"
    <3>1. v[i] \in Nat BY <1>1, <2>1, DataAssumption DEF ValuesOf
    <3>2. Writable(v[i]) BY <1>4, <2>1
    <3>3. QED BY <2>1, <3>1, <3>2 DEF WrittenAs
  <2>2. CASE t[i] = "address"
    <3>1. v[i] \in Address BY <1>1, <2>2, DataAssumption DEF ValuesOf, Address, Byte
    <3>2. QED BY <2>2, <3>1 DEF WrittenAs
  <2>3. CASE t[i] = "bytes"
    <3>1. v[i] \in Seq(Byte) BY <1>1, <2>3, DataAssumption DEF ValuesOf, Byte
    <3>2. QED BY <2>3, <3>1 DEF WrittenAs
  <2>4. CASE t[i] = "uint256[]"
    <3>1. v[i] \in Seq(Nat) BY <1>1, <2>4, DataAssumption DEF ValuesOf
    <3>2. DOMAIN v[i] = 1..Len(v[i]) BY <3>1, LenProperties
    <3>3. QED BY <1>4, <2>4, <3>1, <3>2 DEF WrittenAs
  <2>5. t[i] \in Types BY <1>1
  <2>6. QED BY <2>1, <2>2, <2>3, <2>4, <2>5 DEF Types
<1>6. WellTyped(t, v, n) BY <1>1, <1>5 DEF WellTyped
<1>7. QED BY <1>6 DEF n, t

-----------------------------------------------------------------------------
(* What is written of a value: a front of fixed size, and a body that ends *)
(* in the last field.  As many fields as Lead says stand in the front.     *)
Reaching == {"EtherDeposit", "Erc20Deposit"}

Lead == [EvmAdvance |-> 0, Notice |-> 0, Voucher |-> 0, DelegateCallVoucher |-> 0,
         EtherDeposit |-> 2, Erc20Deposit |-> 3, Erc721Deposit |-> 3,
         Erc1155SingleDeposit |-> 4, Erc1155BatchDeposit |-> 2]

Fixed(f, v) == IF f \in Deposits THEN FlattenSeq(FrontParts(f, v)) ELSE Selector[f]

FrontSize(f) ==
    CASE f = "EtherDeposit" -> AddressSize + Word
      [] f \in {"Erc20Deposit", "Erc721Deposit"} -> 2 * AddressSize + Word
      [] f = "Erc1155SingleDeposit" -> 2 * AddressSize + 2 * Word
      [] f = "Erc1155BatchDeposit" -> 2 * AddressSize
      [] OTHER -> 4

BodyTypes(f) ==
    CASE f = "EvmAdvance" -> evmAdvance
      [] f \in Outputs -> outputAbi[f]
      [] f = "Erc1155BatchDeposit" -> batchDataAbi
      [] OTHER -> dataAbi

BodyFields(f, v) ==
    CASE f = "Erc721Deposit" -> << v[4], v[5] >>
      [] f = "Erc1155SingleDeposit" -> << v[5], v[6] >>
      [] f = "Erc1155BatchDeposit" -> SubSeq(v, 3, 6)
      [] OTHER -> v

BodyOf(f, v) ==
    IF f \in Reaching THEN v[Sizes[f]] ELSE AbiEncode(BodyTypes(f), BodyFields(f, v))

IsWritten(f, v) ==
    /\ Fixed(f, v) \in Seq(Byte) /\ Len(Fixed(f, v)) = FrontSize(f)
    /\ BodyOf(f, v) \in Seq(Byte)
    /\ \A r \in Representations : Encode(f, v, r) = << Fixed(f, v) \o BodyOf(f, v) >>

HasBody(f, v) ==
    LET n == Sizes[f] - Lead[f]
    IN /\ n \in Nat \ {0} /\ BodyTypes(f)[n] = "bytes"
       /\ WellTyped(BodyTypes(f), BodyFields(f, v), n)
       /\ \A i \in 1..n : BodyFields(f, v)[i] = v[Lead[f] + i]

HasRoom(f, v) ==
    \A junk \in Junk \cup {<< >>} :
        Len(Fixed(f, v)) + Len(BodyOf(f, v)) + Len(junk) <= MaxSafeInteger

(* How many bytes there may be.                                            *)
LEMMA RoomForTwo ==
    ASSUME NEW base \in ByteStrings, NEW exec \in ByteStrings, NEW junk \in Junk \cup {<< >>}
    PROVE  /\ abiBytesSize(base) \in Nat /\ abiBytesSize(exec) \in Nat /\ Len(junk) \in Nat
           /\ 4 + 2 * AddressSize + 8 * Word + abiBytesSize(base) + abiBytesSize(exec) + Len(junk)
                 <= MaxSafeInteger
           /\ 4 + 2 * AddressSize + 8 * Word + abiBytesSize(exec) + Len(junk) <= MaxSafeInteger
<1> DEFINE none == << >>  x == abiBytesSize(base)  y == abiBytesSize(exec)
           a == abiUint256ArraySize(none)  b == Len(junk)  w == 4 + 2 * AddressSize + 8 * Word
<1>1. base \in Seq(Byte) /\ exec \in Seq(Byte) BY DataAssumption DEF Byte
<1>2. x \in Nat /\ y \in Nat BY <1>1, AbiBytesIs
<1>3. b \in Nat
  <2>1. junk \in Seq(Byte)
    <3>1. CASE junk = << >> BY <3>1
    <3>2. CASE junk \in Junk BY <3>2, DataAssumption DEF Byte
    <3>3. QED BY <3>1, <3>2
  <2>2. QED BY <2>1, LenProperties
<1>4. a \in Nat
  <2>1. Len(none) = 0 BY EmptySeq
  <2>2. a = Word * (1 + 0) BY <2>1 DEF abiUint256ArraySize
  <2>3. QED BY <2>2, SizesAssumption
<1>5. w \in Nat /\ MaxSafeInteger \in Nat BY SizesAssumption
<1>6. w + a + a + x + y + b <= MaxSafeInteger
  <2>1. none \in Lists \cup {<< >>} OBVIOUS
  <2>2. base \in ByteStrings \cup {<< >>} /\ exec \in ByteStrings \cup {<< >>} OBVIOUS
  <2> HIDE DEF none
  <2>3. 4 + 2 * AddressSize + 8 * Word + abiUint256ArraySize(none) + abiUint256ArraySize(none)
            + abiBytesSize(base) + abiBytesSize(exec) + Len(junk) <= MaxSafeInteger
    BY <2>1, <2>2, DataAssumption
  <2>4. QED BY <2>3
<1> HIDE DEF none, a, x, y, b, w
<1>7. w + x + y + b <= MaxSafeInteger /\ w + y + b <= MaxSafeInteger
  BY <1>2, <1>3, <1>4, <1>5, <1>6
<1>8. QED BY <1>2, <1>3, <1>7 DEF x, y, b, w

LEMMA RoomForLists ==
    ASSUME NEW base \in ByteStrings, NEW exec \in ByteStrings, NEW junk \in Junk \cup {<< >>},
           NEW ids \in Lists, NEW values \in Lists
    PROVE  4 + 2 * AddressSize + 8 * Word + abiUint256ArraySize(ids) + abiUint256ArraySize(values)
             + abiBytesSize(base) + abiBytesSize(exec) + Len(junk) <= MaxSafeInteger
<1>1. /\ base \in ByteStrings \cup {<< >>} /\ exec \in ByteStrings \cup {<< >>}
      /\ ids \in Lists \cup {<< >>} /\ values \in Lists \cup {<< >>}
  OBVIOUS
<1>2. QED BY <1>1, DataAssumption

LEMMA BodyWithOneTail ==
    ASSUME NEW types, NEW fs, NEW n, WellTyped(types, fs, n), HasOneTail(types, n)
    PROVE  /\ AbiEncode(types, fs) \in Seq(Byte)
           /\ Len(AbiEncode(types, fs)) = n * Word + abiBytesSize(fs[n])
<1> DEFINE h == FlattenSeq(Heads(types, fs))  a == AbiBytes(fs[n])
<1>1. h \in Seq(Byte) /\ Len(h) = n * Word BY HeadsStand
<1>2. fs[n] \in Seq(Byte)
  <2>1. n \in 1..n /\ types[n] = "bytes" BY DEF HasOneTail
  <2>2. QED BY <2>1 DEF WellTyped, WrittenAs
<1>3. a \in Seq(Byte) /\ Len(a) = abiBytesSize(fs[n]) BY <1>2, AbiBytesIs
<1>4. AbiEncode(types, fs) = h \o a BY OneTail, AbiEncodeIs
<1> HIDE DEF h, a
<1>5. QED BY <1>1, <1>3, <1>4, BytesConcat

Announced == {"EvmAdvance"} \cup Outputs

\* The formats that a selector announces, by what they are made of.
AnnouncedFormat(f) ==
    /\ f \in Announced /\ f \notin Deposits /\ f \notin Reaching /\ f \in Formats
    /\ Lead[f] = 0 /\ Sizes[f] \in {1, 2, 3, 8} /\ FrontSize(f) = 4
    /\ BodyTypes(f) = FieldTypes(f) /\ HasOneTail(FieldTypes(f), Sizes[f])

LEMMA AnnouncedFormats ==
    ASSUME NEW f \in Announced
    PROVE  AnnouncedFormat(f)
<1>1. CASE f = "EvmAdvance"
  <2>1. BodyTypes(f) = FieldTypes(f) BY <1>1 DEF BodyTypes, FieldTypes, evmAdvance, Outputs
  <2>2. Sizes[f] = 8 /\ Lead[f] = 0 BY <1>1 DEF Sizes, Lead
  <2>3. FieldTypes(f) = << "uint256", "address", "address", "uint256", "uint256",
                           "uint256", "uint256", "bytes" >> BY <1>1 DEF FieldTypes
  <2>4. HasOneTail(FieldTypes(f), 8)
    <3>1. \A i \in 1..(8 - 1) : FieldTypes(f)[i] # "bytes" /\ FieldTypes(f)[i] # "uint256[]"
      BY <2>3
    <3>2. QED BY <2>3, <3>1 DEF HasOneTail
  <2>5. FrontSize(f) = 4 BY <1>1 DEF FrontSize
  <2>6. QED
    BY <1>1, <2>1, <2>2, <2>4, <2>5 DEF AnnouncedFormat, Announced, Deposits, Reaching, Formats
<1>2. CASE f \in Outputs
  <2>1. CASE f = "Notice"
    <3>1. /\ FieldTypes(f) = << "bytes" >> /\ Sizes[f] = 1 /\ Lead[f] = 0 /\ FrontSize(f) = 4
          /\ BodyTypes(f) = << "bytes" >>
      BY <1>2, <2>1 DEF FieldTypes, Sizes, Lead, FrontSize, BodyTypes, outputAbi
    <3>2. HasOneTail(FieldTypes(f), 1) BY <3>1 DEF HasOneTail
    <3>3. QED BY <2>1, <3>1, <3>2 DEF AnnouncedFormat, Announced, Deposits, Reaching, Formats, Outputs
  <2>2. CASE f = "Voucher"
    <3>1. /\ FieldTypes(f) = << "address", "uint256", "bytes" >> /\ Sizes[f] = 3 /\ Lead[f] = 0
          /\ FrontSize(f) = 4 /\ BodyTypes(f) = << "address", "uint256", "bytes" >>
      BY <1>2, <2>2 DEF FieldTypes, Sizes, Lead, FrontSize, BodyTypes, outputAbi
    <3>2. HasOneTail(FieldTypes(f), 3) BY <3>1 DEF HasOneTail
    <3>3. QED BY <2>2, <3>1, <3>2 DEF AnnouncedFormat, Announced, Deposits, Reaching, Formats, Outputs
  <2>3. CASE f = "DelegateCallVoucher"
    <3>1. /\ FieldTypes(f) = << "address", "bytes" >> /\ Sizes[f] = 2 /\ Lead[f] = 0
          /\ FrontSize(f) = 4 /\ BodyTypes(f) = << "address", "bytes" >>
      BY <1>2, <2>3 DEF FieldTypes, Sizes, Lead, FrontSize, BodyTypes, outputAbi
    <3>2. HasOneTail(FieldTypes(f), 2) BY <3>1 DEF HasOneTail
    <3>3. QED BY <2>3, <3>1, <3>2 DEF AnnouncedFormat, Announced, Deposits, Reaching, Formats, Outputs
  <2>4. QED BY <1>2, <2>1, <2>2, <2>3 DEF Outputs
<1>3. QED BY <1>1, <1>2 DEF Announced

LEMMA AnnouncedAreWritten ==
    ASSUME NEW f \in Announced, NEW v \in FieldsOf(f), InRange(f, v)
    PROVE  IsWritten(f, v) /\ HasBody(f, v) /\ HasRoom(f, v)
<1> DEFINE n == Sizes[f]  types == FieldTypes(f)  sel == Selector[f]  e == AbiEncode(types, v)
<1>1. AnnouncedFormat(f) BY AnnouncedFormats
<1>2. /\ f \in Formats /\ f \notin Deposits /\ f \notin Reaching /\ Lead[f] = 0
      /\ n \in {1, 2, 3, 8} /\ FrontSize(f) = 4 /\ BodyTypes(f) = types /\ HasOneTail(types, n)
  BY <1>1 DEF AnnouncedFormat
<1>3. WellTyped(types, v, n) /\ types[n] = "bytes" /\ v[n] \in ValuesOf("bytes")
  BY <1>2, FieldsAreTyped, TupleOfFields
<1>4. v[n] \in ByteStrings BY <1>3 DEF ValuesOf
<1>5. sel \in Seq(Byte) /\ Len(sel) = 4 BY SelectorIs DEF Announced
<1>6. e \in Seq(Byte) /\ Len(e) = n * Word + abiBytesSize(v[n])
  BY <1>2, <1>3, BodyWithOneTail
<1>7. BodyFields(f, v) = v BY <1>2 DEF BodyFields, Deposits
<1>8. Fixed(f, v) = sel /\ BodyOf(f, v) = e BY <1>2, <1>7 DEF Fixed, BodyOf
<1>9. Encode(f, v, "hex") = << sel \o e >> /\ Encode(f, v, "bytes") = << sel \o e >>
  <2>1. CASE f = "EvmAdvance"
    <3>1. types = evmAdvance /\ n = 8 BY <1>2, <2>1 DEF BodyTypes, Sizes, Outputs
    <3>2. encodeInputBytes(v) = << sel \o e >> BY <1>3, <2>1, <3>1, InputEncodersAgree
    <3>3. \A r : Encode(f, v, r) = encodeInput(v, r) BY <2>1 DEF Encode, Outputs
    <3>4. encodeInput(v, "hex") = << sel \o e >> BY <2>1, <3>1 DEF encodeInput
    <3>5. encodeInput(v, "bytes") = << sel \o e >> BY <3>2 DEF encodeInput
    <3>6. QED BY <3>3, <3>4, <3>5
  <2>2. CASE f \in Outputs
    <3>1. types = outputAbi[f] BY <1>2, <2>2 DEF BodyTypes, Outputs
    <3>2. \A r : Encode(f, v, r) = encodeOutput(f, v, r) BY <2>2 DEF Encode, Outputs
    <3>3. encodeOutput(f, v, "hex") = << sel \o e >> BY <3>1 DEF encodeOutput
    <3>4. encodeOutput(f, v, "bytes") = << sel \o e >>
      <4>1. CASE f = "Notice"
        <5>1. n = 1 BY <4>1 DEF Sizes
        <5>2. encodeNoticeBytes(v) = << sel \o e >> BY <1>3, <3>1, <4>1, <5>1, NoticeEncodersAgree
        <5>3. QED BY <4>1, <5>2 DEF encodeOutput
      <4>2. CASE f = "Voucher"
        <5>1. n = 3 BY <4>2 DEF Sizes
        <5>2. encodeVoucherBytes(v) = << sel \o e >> BY <1>3, <3>1, <4>2, <5>1, VoucherEncodersAgree
        <5>3. QED BY <4>2, <5>2 DEF encodeOutput
      <4>3. CASE f = "DelegateCallVoucher"
        <5>1. n = 2 BY <4>3 DEF Sizes
        <5>2. encodeDelegateCallVoucherBytes(v) = << sel \o e >>
          BY <1>3, <3>1, <4>3, <5>1, DelegateCallVoucherEncodersAgree
        <5>3. QED BY <4>3, <5>2 DEF encodeOutput
      <4>4. QED BY <2>2, <4>1, <4>2, <4>3 DEF Outputs
    <3>5. QED BY <3>2, <3>3, <3>4
  <2>3. QED BY <2>1, <2>2 DEF Announced
<1> HIDE DEF n, types, sel, e
<1>10. IsWritten(f, v) BY <1>2, <1>5, <1>6, <1>8, <1>9 DEF IsWritten, Representations
<1>11. HasBody(f, v)
  <2>1. n - 0 = n /\ n \in Nat \ {0} /\ \A i \in 1..n : 0 + i = i BY <1>2
  <2>2. Sizes[f] - Lead[f] = n BY <1>2, <2>1 DEF n
  <2>3. \A i \in 1..n : BodyFields(f, v)[i] = v[Lead[f] + i] BY <1>2, <1>7, <2>1
  <2>4. QED BY <1>2, <1>3, <1>7, <2>1, <2>2, <2>3 DEF HasBody
<1>12. HasRoom(f, v)
  <2>1. ASSUME NEW junk \in Junk \cup {<< >>} PROVE Len(sel) + Len(e) + Len(junk) <= MaxSafeInteger
    <3> DEFINE x == abiBytesSize(v[n])  y == Len(junk)
    <3>1. /\ x \in Nat /\ y \in Nat
          /\ 4 + 2 * AddressSize + 8 * Word + x + y <= MaxSafeInteger
      BY <1>4, RoomForTwo
    <3>2. Len(e) = n * Word + x BY <1>6
    <3>3. Word \in Nat /\ AddressSize \in Nat /\ MaxSafeInteger \in Nat BY SizesAssumption
    <3> HIDE DEF x, y
    <3>4. n * Word \in Nat /\ n * Word <= 8 * Word BY <1>2, <3>3
    <3> DEFINE p == n * Word
    <3> HIDE DEF p
    <3>5. p \in Nat /\ p <= 8 * Word /\ Len(e) = p + x /\ Len(sel) = 4 BY <1>5, <3>2, <3>4 DEF p
    <3>6. Len(sel) + Len(e) + y <= MaxSafeInteger BY <3>1, <3>3, <3>5
    <3>7. QED BY <3>6 DEF y
  <2>2. QED BY <1>8, <2>1 DEF HasRoom
<1>13. QED BY <1>10, <1>11, <1>12

(* What stands in front of the last fields of a deposit.                   *)
LEMMA DepositFields ==
    ASSUME NEW f \in Deposits, NEW v \in FieldsOf(f), InRange(f, v)
    PROVE  /\ \A i \in 1..Sizes[f] : WrittenAs(FieldTypes(f)[i], v[i])
           /\ \A i \in 1..Sizes[f] : FieldTypes(f)[i] = "bytes" => v[i] \in ByteStrings
           /\ \A i \in 1..Sizes[f] : FieldTypes(f)[i] = "uint256[]" => v[i] \in Lists
<1>1. f \in Formats BY DEF Formats
<1>2. \A i \in 1..Sizes[f] : WrittenAs(FieldTypes(f)[i], v[i])
  BY <1>1, FieldsAreTyped DEF WellTyped
<1>3. \A i \in 1..Sizes[f] : v[i] \in ValuesOf(FieldTypes(f)[i]) BY <1>1, TupleOfFields
<1>4. ValuesOf("bytes") = ByteStrings /\ ValuesOf("uint256[]") = Lists BY DEF ValuesOf
<1>5. QED BY <1>2, <1>3, <1>4

LEMMA DepositFronts ==
    ASSUME NEW f \in Deposits, NEW v \in FieldsOf(f), InRange(f, v)
    PROVE  Fixed(f, v) \in Seq(Byte) /\ Len(Fixed(f, v)) = FrontSize(f)
<1>1. \A i \in 1..Sizes[f] : WrittenAs(FieldTypes(f)[i], v[i]) BY DepositFields
<1>2. Fixed(f, v) = FlattenSeq(FrontParts(f, v)) BY DEF Fixed
<1>3. AddressSize \in Nat /\ Word \in Nat BY SizesAssumption
<1>4. CASE f = "EtherDeposit"
  <2> DEFINE a == v[1]  u == Uint256(v[2])
  <2>1. v[1] \in Address /\ v[2] \in Nat
    BY <1>1, <1>4 DEF FieldTypes, Sizes, WrittenAs
  <2>2. a \in Seq(Byte) /\ Len(a) = AddressSize /\ u \in Seq(Byte) /\ Len(u) = Word
    BY <2>1, AddressIsSeq, Uint256IsWord
  <2>3. FrontParts(f, v) = <<a, u>> BY <1>4 DEF FrontParts
  <2> HIDE DEF a, u
  <2>4. FewJoined(a, u, u, u) BY <2>2, FlattenFew
  <2>5. <<a, u>> \in Seq(Seq(Byte)) /\ Len(FlattenSeq(<<a, u>>)) = Len(a) + Len(u)
    BY <2>4 DEF FewJoined
  <2>6. FrontSize(f) = AddressSize + Word BY <1>4 DEF FrontSize
  <2>7. QED BY <1>2, <2>2, <2>3, <2>5, <2>6, FlattenIsSeq
<1>5. CASE f \in {"Erc20Deposit", "Erc721Deposit"}
  <2> DEFINE a == v[1]  b == v[2]  u == Uint256(v[3])
  <2>1. v[1] \in Address /\ v[2] \in Address /\ v[3] \in Nat
    <3>1. CASE f = "Erc20Deposit"
      <4>1. FieldTypes(f) = << "address", "address", "uint256", "bytes" >> /\ Sizes[f] = 4
        BY <3>1 DEF FieldTypes, Sizes
      <4>2. QED BY <1>1, <4>1 DEF WrittenAs
    <3>2. CASE f = "Erc721Deposit" BY <1>1, <3>2 DEF FieldTypes, Sizes, WrittenAs
    <3>3. QED BY <1>5, <3>1, <3>2
  <2>2. /\ a \in Seq(Byte) /\ Len(a) = AddressSize /\ b \in Seq(Byte) /\ Len(b) = AddressSize
        /\ u \in Seq(Byte) /\ Len(u) = Word
    BY <2>1, AddressIsSeq, Uint256IsWord
  <2>3. FrontParts(f, v) = <<a, b, u>> BY <1>5 DEF FrontParts
  <2> HIDE DEF a, b, u
  <2>4. FewJoined(a, b, u, u) BY <2>2, FlattenFew
  <2>5. <<a, b, u>> \in Seq(Seq(Byte)) /\ Len(FlattenSeq(<<a, b, u>>)) = Len(a) + Len(b) + Len(u)
    BY <2>4 DEF FewJoined
  <2>6. FrontSize(f) = 2 * AddressSize + Word BY <1>5 DEF FrontSize
  <2>7. Len(a) + Len(b) + Len(u) = 2 * AddressSize + Word BY <1>3, <2>2
  <2>8. QED BY <1>2, <2>3, <2>5, <2>6, <2>7, FlattenIsSeq
<1>6. CASE f = "Erc1155SingleDeposit"
  <2> DEFINE a == v[1]  b == v[2]  u == Uint256(v[3])  w == Uint256(v[4])
  <2>1. v[1] \in Address /\ v[2] \in Address /\ v[3] \in Nat /\ v[4] \in Nat
    BY <1>1, <1>6 DEF FieldTypes, Sizes, WrittenAs
  <2>2. /\ a \in Seq(Byte) /\ Len(a) = AddressSize /\ b \in Seq(Byte) /\ Len(b) = AddressSize
        /\ u \in Seq(Byte) /\ Len(u) = Word /\ w \in Seq(Byte) /\ Len(w) = Word
    BY <2>1, AddressIsSeq, Uint256IsWord
  <2>3. FrontParts(f, v) = <<a, b, u, w>> BY <1>6 DEF FrontParts
  <2> HIDE DEF a, b, u, w
  <2>4. FewJoined(a, b, u, w) BY <2>2, FlattenFew
  <2>5. /\ <<a, b, u, w>> \in Seq(Seq(Byte))
        /\ Len(FlattenSeq(<<a, b, u, w>>)) = Len(a) + Len(b) + Len(u) + Len(w)
    BY <2>4 DEF FewJoined
  <2>6. FrontSize(f) = 2 * AddressSize + 2 * Word BY <1>6 DEF FrontSize
  <2>7. Len(a) + Len(b) + Len(u) + Len(w) = 2 * AddressSize + 2 * Word BY <1>3, <2>2
  <2>8. QED BY <1>2, <2>3, <2>5, <2>6, <2>7, FlattenIsSeq
<1>7. CASE f = "Erc1155BatchDeposit"
  <2> DEFINE a == v[1]  b == v[2]
  <2>1. v[1] \in Address /\ v[2] \in Address
    <3>1. /\ FieldTypes(f) =
                << "address", "address", "uint256[]", "uint256[]", "bytes", "bytes" >>
          /\ Sizes[f] = 6
      BY <1>7 DEF FieldTypes, Sizes
    <3>2. QED BY <1>1, <3>1 DEF WrittenAs
  <2>2. a \in Seq(Byte) /\ Len(a) = AddressSize /\ b \in Seq(Byte) /\ Len(b) = AddressSize
    BY <2>1, AddressIsSeq
  <2>3. FrontParts(f, v) = <<a, b>> BY <1>7 DEF FrontParts
  <2> HIDE DEF a, b
  <2>4. FewJoined(a, b, b, b) BY <2>2, FlattenFew
  <2>5. <<a, b>> \in Seq(Seq(Byte)) /\ Len(FlattenSeq(<<a, b>>)) = Len(a) + Len(b)
    BY <2>4 DEF FewJoined
  <2>6. FrontSize(f) = 2 * AddressSize BY <1>7 DEF FrontSize
  <2>7. Len(a) + Len(b) = 2 * AddressSize BY <1>3, <2>2
  <2>8. QED BY <1>2, <2>3, <2>5, <2>6, <2>7, FlattenIsSeq
<1>8. QED BY <1>4, <1>5, <1>6, <1>7 DEF Deposits

LEMMA ReachingAreWritten ==
    ASSUME NEW f \in Reaching, NEW v \in FieldsOf(f), InRange(f, v)
    PROVE  IsWritten(f, v) /\ HasRoom(f, v)
<1>0. f \in Deposits /\ f \notin Outputs /\ f # "EvmAdvance"
  BY DEF Reaching, Deposits, Outputs
<1>1. Fixed(f, v) \in Seq(Byte) /\ Len(Fixed(f, v)) = FrontSize(f) BY <1>0, DepositFronts
<1>2. \A i \in 1..Sizes[f] : WrittenAs(FieldTypes(f)[i], v[i]) BY <1>0, DepositFields
<1> DEFINE last == v[Sizes[f]]
<1>3. BodyOf(f, v) = last BY DEF BodyOf
<1>4. last \in ByteStrings
  <2>1. Sizes[f] \in Nat \ {0} /\ FieldTypes(f)[Sizes[f]] = "bytes"
    BY DEF Reaching, Sizes, FieldTypes
  <2>2. \A i \in 1..Sizes[f] : FieldTypes(f)[i] = "bytes" => v[i] \in ByteStrings
    BY <1>0, DepositFields
  <2>3. Sizes[f] \in 1..Sizes[f] BY <2>1
  <2>4. QED BY <2>1, <2>2, <2>3
<1>5. last \in Seq(Byte) BY <1>4, DataAssumption DEF Byte
<1>6. Fixed(f, v) = FlattenSeq(FrontParts(f, v)) BY <1>0 DEF Fixed
<1>7. \A r \in Representations : Encode(f, v, r) = << Fixed(f, v) \o last >>
  <2>1. CASE f = "EtherDeposit"
    <3>1. v[1] \in Address /\ v[2] \in Nat /\ v[3] \in Seq(Byte)
      BY <1>2, <2>1 DEF FieldTypes, Sizes, WrittenAs
    <3>2. \A r \in Representations :
             encodeEtherDeposit(v, r) = << FlattenSeq(FrontParts("EtherDeposit", v)) \o v[3] >>
      BY <3>1, EtherEncodersAgree
    <3>3. \A r : Encode(f, v, r) = encodeEtherDeposit(v, r) BY <1>0, <2>1 DEF Encode
    <3>4. Sizes[f] = 3 BY <2>1 DEF Sizes
    <3>5. QED BY <1>6, <2>1, <3>2, <3>3, <3>4
  <2>2. CASE f = "Erc20Deposit"
    <3>1. v[1] \in Address /\ v[2] \in Address /\ v[3] \in Nat /\ v[4] \in Seq(Byte)
      <4>1. FieldTypes(f) = << "address", "address", "uint256", "bytes" >> /\ Sizes[f] = 4
        BY <2>2 DEF FieldTypes, Sizes
      <4>2. QED BY <1>2, <4>1 DEF WrittenAs
    <3>2. \A r \in Representations :
             encodeErc20Deposit(v, r) = << FlattenSeq(FrontParts("Erc20Deposit", v)) \o v[4] >>
      BY <3>1, Erc20EncodersAgree
    <3>3. \A r : Encode(f, v, r) = encodeErc20Deposit(v, r) BY <1>0, <2>2 DEF Encode
    <3>4. Sizes[f] = 4 BY <2>2 DEF Sizes
    <3>5. QED BY <1>6, <2>2, <3>2, <3>3, <3>4
  <2>3. QED BY <2>1, <2>2 DEF Reaching
<1>8. FrontSize(f) \in Nat /\ FrontSize(f) <= 2 * AddressSize + Word
  BY SizesAssumption DEF FrontSize, Reaching
<1> HIDE DEF last
<1>9. HasRoom(f, v)
  <2>1. ASSUME NEW junk \in Junk \cup {<< >>}
        PROVE  Len(Fixed(f, v)) + Len(last) + Len(junk) <= MaxSafeInteger
    <3> DEFINE x == abiBytesSize(last)  y == Len(junk)  z == Len(last)  s == FrontSize(f)
    <3>1. /\ x \in Nat /\ y \in Nat
          /\ 4 + 2 * AddressSize + 8 * Word + x + y <= MaxSafeInteger
      BY <1>4, RoomForTwo
    <3>2. z \in Nat /\ Word + z <= x BY <1>5, AbiBytesIs
    <3>3. Word \in Nat /\ AddressSize \in Nat /\ MaxSafeInteger \in Nat BY SizesAssumption
    <3>4. s \in Nat /\ s <= 2 * AddressSize + Word BY <1>8
    <3> HIDE DEF x, y, z, s
    <3>5. s + z + y <= MaxSafeInteger BY <3>1, <3>2, <3>3, <3>4
    <3>6. QED BY <1>1, <3>5 DEF s, y, z
  <2>2. QED BY <1>3, <2>1 DEF HasRoom
<1>10. IsWritten(f, v) BY <1>1, <1>3, <1>5, <1>7 DEF IsWritten
<1>11. QED BY <1>9, <1>10

\* A deposit whose body is encoded by the ABI, from n fields.
TailIsWritten(f, v, n, size) ==
    /\ n = Sizes[f] - Lead[f] /\ n \in Nat \ {0} /\ BodyTypes(f)[n] = "bytes"
    /\ WellTyped(BodyTypes(f), BodyFields(f, v), n)
    /\ \A i \in 1..n : BodyFields(f, v)[i] = v[Lead[f] + i]
    /\ \A r \in Representations :
          Encode(f, v, r) = << Fixed(f, v) \o AbiEncode(BodyTypes(f), BodyFields(f, v)) >>
    /\ size = Len(FlattenSeq(Heads(BodyTypes(f), BodyFields(f, v))))
                 + Len(FlattenSeq(Tails(BodyTypes(f), BodyFields(f, v))))

LEMMA Erc721IsWritten ==
    ASSUME NEW v \in FieldsOf("Erc721Deposit"), InRange("Erc721Deposit", v)
    PROVE  /\ TailIsWritten("Erc721Deposit", v, 2, dataTailSize(v[4], v[5]))
           /\ v[4] \in ByteStrings /\ v[5] \in ByteStrings
<1> DEFINE f == "Erc721Deposit"
<1>0. f \in Deposits /\ f \notin Outputs /\ f # "EvmAdvance" /\ f \notin Reaching
  BY DEF Reaching, Deposits, Outputs
<1>1. /\ FieldTypes(f) = << "address", "address", "uint256", "bytes", "bytes" >> /\ Sizes[f] = 5
      /\ Lead[f] = 3 /\ BodyTypes(f) = dataAbi /\ BodyFields(f, v) = << v[4], v[5] >>
  BY <1>0 DEF FieldTypes, Sizes, Lead, BodyTypes, BodyFields
<1>2. /\ \A i \in 1..5 : WrittenAs(FieldTypes(f)[i], v[i])
      /\ \A i \in 1..5 : FieldTypes(f)[i] = "bytes" => v[i] \in ByteStrings
  BY <1>0, <1>1, DepositFields
<1>3. /\ v[1] \in Address /\ v[2] \in Address /\ v[3] \in Nat
      /\ v[4] \in Seq(Byte) /\ v[5] \in Seq(Byte) /\ v[4] \in ByteStrings /\ v[5] \in ByteStrings
  BY <1>1, <1>2 DEF WrittenAs
<1>4. \A r \in Representations :
         encodeErc721Deposit(v, r) =
            << FlattenSeq(FrontParts(f, v)) \o AbiEncode(dataAbi, << v[4], v[5] >>) >>
  BY <1>3, Erc721EncodersAgree
<1>5. \A r : Encode(f, v, r) = encodeErc721Deposit(v, r) BY <1>0 DEF Encode
<1>6. Fixed(f, v) = FlattenSeq(FrontParts(f, v)) BY <1>0 DEF Fixed
<1> DEFINE fs == << v[4], v[5] >>
<1>7. fs[1] = v[4] /\ fs[2] = v[5] OBVIOUS
<1>8. dataAbi[2] = "bytes" BY DEF dataAbi
<1>9. /\ 3 + 1 = 4 /\ 3 + 2 = 5 /\ 5 - 3 = 2 /\ \A i \in 1..2 : i = 1 \/ i = 2 OBVIOUS
<1> HIDE DEF f, fs
<1>10. /\ WellTyped(dataAbi, fs, 2)
       /\ dataTailSize(v[4], v[5]) =
             Len(FlattenSeq(Heads(dataAbi, fs))) + Len(FlattenSeq(Tails(dataAbi, fs)))
  BY <1>3, <1>7, DataTailIs
<1>11. BodyFields(f, v) = fs BY <1>1 DEF fs
<1>12. \A i \in 1..2 : fs[i] = v[3 + i] BY <1>7, <1>9
<1>13. \A r \in Representations : Encode(f, v, r) = << Fixed(f, v) \o AbiEncode(dataAbi, fs) >>
  BY <1>4, <1>5, <1>6 DEF fs
<1>14. TailIsWritten(f, v, 2, dataTailSize(v[4], v[5]))
  <2>1. 2 = Sizes[f] - Lead[f] /\ 2 \in Nat \ {0} BY <1>1, <1>9
  <2>2. BodyTypes(f)[2] = "bytes" BY <1>1, <1>8
  <2>3. WellTyped(BodyTypes(f), BodyFields(f, v), 2) BY <1>1, <1>10, <1>11
  <2>4. \A i \in 1..2 : BodyFields(f, v)[i] = v[Lead[f] + i] BY <1>1, <1>11, <1>12
  <2>5. \A r \in Representations :
           Encode(f, v, r) = << Fixed(f, v) \o AbiEncode(BodyTypes(f), BodyFields(f, v)) >>
    BY <1>1, <1>11, <1>13
  <2>6. dataTailSize(v[4], v[5]) =
            Len(FlattenSeq(Heads(BodyTypes(f), BodyFields(f, v))))
              + Len(FlattenSeq(Tails(BodyTypes(f), BodyFields(f, v))))
    BY <1>1, <1>10, <1>11
  <2>7. QED BY <2>1, <2>2, <2>3, <2>4, <2>5, <2>6 DEF TailIsWritten
<1>15. QED BY <1>3, <1>14 DEF f

LEMMA Erc1155SingleIsWritten ==
    ASSUME NEW v \in FieldsOf("Erc1155SingleDeposit"), InRange("Erc1155SingleDeposit", v)
    PROVE  /\ TailIsWritten("Erc1155SingleDeposit", v, 2, dataTailSize(v[5], v[6]))
           /\ v[5] \in ByteStrings /\ v[6] \in ByteStrings
<1> DEFINE f == "Erc1155SingleDeposit"
<1>0. f \in Deposits /\ f \notin Outputs /\ f # "EvmAdvance" /\ f \notin Reaching
  BY DEF Reaching, Deposits, Outputs
<1>1. /\ FieldTypes(f) = << "address", "address", "uint256", "uint256", "bytes", "bytes" >>
      /\ Sizes[f] = 6
      /\ Lead[f] = 4 /\ BodyTypes(f) = dataAbi /\ BodyFields(f, v) = << v[5], v[6] >>
  BY <1>0 DEF FieldTypes, Sizes, Lead, BodyTypes, BodyFields
<1>2. /\ \A i \in 1..6 : WrittenAs(FieldTypes(f)[i], v[i])
      /\ \A i \in 1..6 : FieldTypes(f)[i] = "bytes" => v[i] \in ByteStrings
  BY <1>0, <1>1, DepositFields
<1>3. /\ v[1] \in Address /\ v[2] \in Address /\ v[3] \in Nat /\ v[4] \in Nat
      /\ v[5] \in Seq(Byte) /\ v[6] \in Seq(Byte) /\ v[5] \in ByteStrings /\ v[6] \in ByteStrings
  BY <1>1, <1>2 DEF WrittenAs
<1>4. \A r \in Representations :
         encodeErc1155SingleDeposit(v, r) =
            << FlattenSeq(FrontParts(f, v)) \o AbiEncode(dataAbi, << v[5], v[6] >>) >>
  BY <1>3, Erc1155SingleEncodersAgree
<1>5. \A r : Encode(f, v, r) = encodeErc1155SingleDeposit(v, r) BY <1>0 DEF Encode
<1>6. Fixed(f, v) = FlattenSeq(FrontParts(f, v)) BY <1>0 DEF Fixed
<1> DEFINE fs == << v[5], v[6] >>
<1>7. fs[1] = v[5] /\ fs[2] = v[6] OBVIOUS
<1>8. dataAbi[2] = "bytes" BY DEF dataAbi
<1>9. /\ 4 + 1 = 5 /\ 4 + 2 = 6 /\ 6 - 4 = 2 /\ \A i \in 1..2 : i = 1 \/ i = 2 OBVIOUS
<1> HIDE DEF f, fs
<1>10. /\ WellTyped(dataAbi, fs, 2)
       /\ dataTailSize(v[5], v[6]) =
             Len(FlattenSeq(Heads(dataAbi, fs))) + Len(FlattenSeq(Tails(dataAbi, fs)))
  BY <1>3, <1>7, DataTailIs
<1>11. BodyFields(f, v) = fs BY <1>1 DEF fs
<1>12. \A i \in 1..2 : fs[i] = v[4 + i] BY <1>7, <1>9
<1>13. \A r \in Representations : Encode(f, v, r) = << Fixed(f, v) \o AbiEncode(dataAbi, fs) >>
  BY <1>4, <1>5, <1>6 DEF fs
<1>14. TailIsWritten(f, v, 2, dataTailSize(v[5], v[6]))
  <2>1. 2 = Sizes[f] - Lead[f] /\ 2 \in Nat \ {0} BY <1>1, <1>9
  <2>2. BodyTypes(f)[2] = "bytes" BY <1>1, <1>8
  <2>3. WellTyped(BodyTypes(f), BodyFields(f, v), 2) BY <1>1, <1>10, <1>11
  <2>4. \A i \in 1..2 : BodyFields(f, v)[i] = v[Lead[f] + i] BY <1>1, <1>11, <1>12
  <2>5. \A r \in Representations :
           Encode(f, v, r) = << Fixed(f, v) \o AbiEncode(BodyTypes(f), BodyFields(f, v)) >>
    BY <1>1, <1>11, <1>13
  <2>6. dataTailSize(v[5], v[6]) =
            Len(FlattenSeq(Heads(BodyTypes(f), BodyFields(f, v))))
              + Len(FlattenSeq(Tails(BodyTypes(f), BodyFields(f, v))))
    BY <1>1, <1>10, <1>11
  <2>7. QED BY <2>1, <2>2, <2>3, <2>4, <2>5, <2>6 DEF TailIsWritten
<1>15. QED BY <1>3, <1>14 DEF f

LEMMA Erc1155BatchIsWritten ==
    ASSUME NEW v \in FieldsOf("Erc1155BatchDeposit"), InRange("Erc1155BatchDeposit", v)
    PROVE  /\ TailIsWritten("Erc1155BatchDeposit", v, 4, batchDataTailSize(v[3], v[4], v[5], v[6]))
           /\ v[3] \in Lists /\ v[4] \in Lists /\ v[5] \in ByteStrings /\ v[6] \in ByteStrings
<1> DEFINE f == "Erc1155BatchDeposit"
<1>0. f \in Deposits /\ f \notin Outputs /\ f # "EvmAdvance" /\ f \notin Reaching
  BY DEF Reaching, Deposits, Outputs
<1>1. /\ FieldTypes(f) = << "address", "address", "uint256[]", "uint256[]", "bytes", "bytes" >>
      /\ Sizes[f] = 6
      /\ Lead[f] = 2 /\ BodyTypes(f) = batchDataAbi /\ BodyFields(f, v) = SubSeq(v, 3, 6)
  BY <1>0 DEF FieldTypes, Sizes, Lead, BodyTypes, BodyFields
<1>2. /\ \A i \in 1..6 : WrittenAs(FieldTypes(f)[i], v[i])
      /\ \A i \in 1..6 : FieldTypes(f)[i] = "bytes" => v[i] \in ByteStrings
      /\ \A i \in 1..6 : FieldTypes(f)[i] = "uint256[]" => v[i] \in Lists
  BY <1>0, <1>1, DepositFields
<1>3. /\ v[1] \in Address /\ v[2] \in Address
      /\ WrittenAs("uint256[]", v[3]) /\ WrittenAs("uint256[]", v[4])
      /\ WrittenAs("bytes", v[5]) /\ WrittenAs("bytes", v[6])
      /\ v[3] \in Lists /\ v[4] \in Lists /\ v[5] \in ByteStrings /\ v[6] \in ByteStrings
  <2>1. WrittenAs("address", v[1]) /\ WrittenAs("address", v[2]) BY <1>1, <1>2
  <2>2. v[1] \in Address /\ v[2] \in Address BY <2>1 DEF WrittenAs
  <2>3. QED BY <1>1, <1>2, <2>2
<1>4. \A r \in Representations :
         encodeErc1155BatchDeposit(v, r) =
            << FlattenSeq(FrontParts(f, v)) \o AbiEncode(batchDataAbi, SubSeq(v, 3, 6)) >>
  BY <1>3, Erc1155BatchEncodersAgree
<1>5. \A r : Encode(f, v, r) = encodeErc1155BatchDeposit(v, r) BY <1>0 DEF Encode
<1>6. Fixed(f, v) = FlattenSeq(FrontParts(f, v)) BY <1>0 DEF Fixed
<1> DEFINE fs == SubSeq(v, 3, 6)
<1>7. fs[1] = v[3] /\ fs[2] = v[4] /\ fs[3] = v[5] /\ fs[4] = v[6]
  <2>1. \A i \in 3..6 : v[i] \in {v[3], v[4], v[5], v[6]} OBVIOUS
  <2>2. \A i \in 1..(6 - 3 + 1) : SubSeq(v, 3, 6)[i] = v[3 + i - 1] BY <2>1, SubSeqProperties
  <2>3. QED BY <2>2
<1>8. batchDataAbi[4] = "bytes" BY DEF batchDataAbi
<1>9. /\ 2 + 1 = 3 /\ 2 + 2 = 4 /\ 2 + 3 = 5 /\ 2 + 4 = 6 /\ 6 - 2 = 4
      /\ \A i \in 1..4 : i = 1 \/ i = 2 \/ i = 3 \/ i = 4
  OBVIOUS
<1> HIDE DEF f, fs
<1>10. /\ WellTyped(batchDataAbi, fs, 4)
       /\ batchDataTailSize(v[3], v[4], v[5], v[6]) =
             Len(FlattenSeq(Heads(batchDataAbi, fs))) + Len(FlattenSeq(Tails(batchDataAbi, fs)))
  <2>1. BatchFields(fs, v[3], v[4], v[5], v[6]) BY <1>3, <1>7 DEF BatchFields
  <2>2. QED BY <2>1, BatchDataTailIs
<1>11. BodyFields(f, v) = fs BY <1>1 DEF fs
<1>12. \A i \in 1..4 : fs[i] = v[2 + i] BY <1>7, <1>9
<1>13. \A r \in Representations : Encode(f, v, r) = << Fixed(f, v) \o AbiEncode(batchDataAbi, fs) >>
  BY <1>4, <1>5, <1>6 DEF fs
<1>14. TailIsWritten(f, v, 4, batchDataTailSize(v[3], v[4], v[5], v[6]))
  <2>1. 4 = Sizes[f] - Lead[f] /\ 4 \in Nat \ {0} BY <1>1, <1>9
  <2>2. BodyTypes(f)[4] = "bytes" BY <1>1, <1>8
  <2>3. WellTyped(BodyTypes(f), BodyFields(f, v), 4) BY <1>1, <1>10, <1>11
  <2>4. \A i \in 1..4 : BodyFields(f, v)[i] = v[Lead[f] + i] BY <1>1, <1>11, <1>12
  <2>5. \A r \in Representations :
           Encode(f, v, r) = << Fixed(f, v) \o AbiEncode(BodyTypes(f), BodyFields(f, v)) >>
    BY <1>1, <1>11, <1>13
  <2>6. batchDataTailSize(v[3], v[4], v[5], v[6]) =
            Len(FlattenSeq(Heads(BodyTypes(f), BodyFields(f, v))))
              + Len(FlattenSeq(Tails(BodyTypes(f), BodyFields(f, v))))
    BY <1>1, <1>10, <1>11
  <2>7. QED BY <2>1, <2>2, <2>3, <2>4, <2>5, <2>6 DEF TailIsWritten
<1>15. QED BY <1>3, <1>14 DEF f

LEMMA TailsAreWritten ==
    ASSUME NEW f \in Deposits \ Reaching, NEW v \in FieldsOf(f), InRange(f, v),
           NEW n, NEW size, TailIsWritten(f, v, n, size)
    PROVE  IsWritten(f, v) /\ HasBody(f, v) /\ Len(BodyOf(f, v)) = size
<1> DEFINE types == BodyTypes(f)  fs == BodyFields(f, v)
           h == FlattenSeq(Heads(types, fs))  t == FlattenSeq(Tails(types, fs))
<1>1. Fixed(f, v) \in Seq(Byte) /\ Len(Fixed(f, v)) = FrontSize(f) BY DepositFronts
<1>2. BodyOf(f, v) = AbiEncode(types, fs) BY DEF BodyOf
<1>3. WellTyped(types, fs, n) /\ size = Len(h) + Len(t) BY DEF TailIsWritten
<1>4. \A r \in Representations : Encode(f, v, r) = << Fixed(f, v) \o BodyOf(f, v) >>
  BY <1>2 DEF TailIsWritten
<1> HIDE DEF types, fs
<1>5. h \in Seq(Byte) /\ t \in Seq(Byte) BY <1>3, HeadsAre, TailsAre, FlattenIsSeq
<1>6. AbiEncode(types, fs) = h \o t BY AbiEncodeIs
<1> HIDE DEF h, t
<1>7. BodyOf(f, v) \in Seq(Byte) /\ Len(BodyOf(f, v)) = size BY <1>2, <1>3, <1>5, <1>6, BytesConcat
<1>8. IsWritten(f, v) BY <1>1, <1>4, <1>7 DEF IsWritten
<1>9. HasBody(f, v) BY DEF HasBody, TailIsWritten
<1>10. QED BY <1>7, <1>8, <1>9

(* Every format, for fields in range: both encoders write the same, and it *)
(* is not too long.                                                        *)
LEMMA AllAreWritten ==
    ASSUME NEW f \in Formats, NEW v \in FieldsOf(f), InRange(f, v)
    PROVE  IsWritten(f, v) /\ HasRoom(f, v) /\ (f \notin Reaching => HasBody(f, v))
<1>0. Word \in Nat /\ AddressSize \in Nat /\ MaxSafeInteger \in Nat BY SizesAssumption
<1>1. CASE f \in Announced BY <1>1, AnnouncedAreWritten
<1>2. CASE f \in Reaching BY <1>2, ReachingAreWritten
<1>3. CASE f = "Erc721Deposit"
  <2> DEFINE size == dataTailSize(v[4], v[5])
  <2>1. f \in Deposits \ Reaching BY <1>3 DEF Deposits, Reaching
  <2>2. TailIsWritten(f, v, 2, size) /\ v[4] \in ByteStrings /\ v[5] \in ByteStrings
    BY <1>3, Erc721IsWritten
  <2>3. size = 2 * Word + abiBytesSize(v[4]) + abiBytesSize(v[5]) BY DEF dataTailSize
  <2> HIDE DEF size
  <2>4. IsWritten(f, v) /\ HasBody(f, v) /\ Len(BodyOf(f, v)) = size BY <2>1, <2>2, TailsAreWritten
  <2>5. Len(Fixed(f, v)) = 2 * AddressSize + Word
    <3>1. FrontSize(f) = 2 * AddressSize + Word BY <1>3 DEF FrontSize
    <3>2. QED BY <2>4, <3>1 DEF IsWritten
  <2>6. HasRoom(f, v)
    <3>1. ASSUME NEW junk \in Junk \cup {<< >>}
          PROVE  Len(Fixed(f, v)) + Len(BodyOf(f, v)) + Len(junk) <= MaxSafeInteger
      <4> DEFINE x == abiBytesSize(v[4])  y == abiBytesSize(v[5])  z == Len(junk)
      <4>1. /\ x \in Nat /\ y \in Nat /\ z \in Nat
            /\ 4 + 2 * AddressSize + 8 * Word + x + y + z <= MaxSafeInteger
        BY <2>2, RoomForTwo
      <4> HIDE DEF x, y, z
      <4>2. size = 2 * Word + x + y BY <2>3 DEF x, y
      <4>3. (2 * AddressSize + Word) + size + z <= MaxSafeInteger BY <1>0, <4>1, <4>2
      <4>4. QED BY <2>4, <2>5, <4>3 DEF z
    <3>2. QED BY <3>1 DEF HasRoom
  <2>7. QED BY <2>4, <2>6
<1>4. CASE f = "Erc1155SingleDeposit"
  <2> DEFINE size == dataTailSize(v[5], v[6])
  <2>1. f \in Deposits \ Reaching BY <1>4 DEF Deposits, Reaching
  <2>2. TailIsWritten(f, v, 2, size) /\ v[5] \in ByteStrings /\ v[6] \in ByteStrings
    BY <1>4, Erc1155SingleIsWritten
  <2>3. size = 2 * Word + abiBytesSize(v[5]) + abiBytesSize(v[6]) BY DEF dataTailSize
  <2> HIDE DEF size
  <2>4. IsWritten(f, v) /\ HasBody(f, v) /\ Len(BodyOf(f, v)) = size BY <2>1, <2>2, TailsAreWritten
  <2>5. Len(Fixed(f, v)) = 2 * AddressSize + 2 * Word
    <3>1. FrontSize(f) = 2 * AddressSize + 2 * Word BY <1>4 DEF FrontSize
    <3>2. QED BY <2>4, <3>1 DEF IsWritten
  <2>6. HasRoom(f, v)
    <3>1. ASSUME NEW junk \in Junk \cup {<< >>}
          PROVE  Len(Fixed(f, v)) + Len(BodyOf(f, v)) + Len(junk) <= MaxSafeInteger
      <4> DEFINE x == abiBytesSize(v[5])  y == abiBytesSize(v[6])  z == Len(junk)
      <4>1. /\ x \in Nat /\ y \in Nat /\ z \in Nat
            /\ 4 + 2 * AddressSize + 8 * Word + x + y + z <= MaxSafeInteger
        BY <2>2, RoomForTwo
      <4> HIDE DEF x, y, z
      <4>2. size = 2 * Word + x + y BY <2>3 DEF x, y
      <4>3. (2 * AddressSize + 2 * Word) + size + z <= MaxSafeInteger BY <1>0, <4>1, <4>2
      <4>4. QED BY <2>4, <2>5, <4>3 DEF z
    <3>2. QED BY <3>1 DEF HasRoom
  <2>7. QED BY <2>4, <2>6
<1>5. CASE f = "Erc1155BatchDeposit"
  <2> DEFINE size == batchDataTailSize(v[3], v[4], v[5], v[6])
  <2>1. f \in Deposits \ Reaching BY <1>5 DEF Deposits, Reaching
  <2>2. /\ TailIsWritten(f, v, 4, size) /\ v[3] \in Lists /\ v[4] \in Lists
        /\ v[5] \in ByteStrings /\ v[6] \in ByteStrings
    BY <1>5, Erc1155BatchIsWritten
  <2>3. size = 4 * Word + abiUint256ArraySize(v[3]) + abiUint256ArraySize(v[4])
                 + abiBytesSize(v[5]) + abiBytesSize(v[6])
    BY DEF batchDataTailSize
  <2> HIDE DEF size
  <2>4. IsWritten(f, v) /\ HasBody(f, v) /\ Len(BodyOf(f, v)) = size BY <2>1, <2>2, TailsAreWritten
  <2>5. Len(Fixed(f, v)) = 2 * AddressSize
    <3>1. FrontSize(f) = 2 * AddressSize BY <1>5 DEF FrontSize
    <3>2. QED BY <2>4, <3>1 DEF IsWritten
  <2>6. HasRoom(f, v)
    <3>1. ASSUME NEW junk \in Junk \cup {<< >>}
          PROVE  Len(Fixed(f, v)) + Len(BodyOf(f, v)) + Len(junk) <= MaxSafeInteger
      <4> DEFINE x == abiBytesSize(v[5])  y == abiBytesSize(v[6])  z == Len(junk)
                 a == abiUint256ArraySize(v[3])  b == abiUint256ArraySize(v[4])
      <4>1. x \in Nat /\ y \in Nat /\ z \in Nat BY <2>2, RoomForTwo
      <4>2. a \in Nat /\ b \in Nat
        <5>1. \A k \in Nat : Word * (1 + k) \in Nat BY <1>0
        <5>2. Len(v[3]) \in Nat /\ Len(v[4]) \in Nat BY <2>2, DataAssumption, LenProperties
        <5>3. QED BY <5>1, <5>2 DEF abiUint256ArraySize
      <4>3. 4 + 2 * AddressSize + 8 * Word + a + b + x + y + z <= MaxSafeInteger
        BY <2>2, RoomForLists
      <4> HIDE DEF x, y, z, a, b
      <4>4. size = 4 * Word + a + b + x + y BY <2>3 DEF a, b, x, y
      <4>5. (2 * AddressSize) + size + z <= MaxSafeInteger BY <1>0, <4>1, <4>2, <4>3, <4>4
      <4>6. QED BY <2>4, <2>5, <4>5 DEF z
    <3>2. QED BY <3>1 DEF HasRoom
  <2>7. QED BY <2>4, <2>6
<1>6. QED BY <1>1, <1>2, <1>3, <1>4, <1>5 DEF Formats, Announced, Deposits, Reaching

-----------------------------------------------------------------------------
(* What is read of what was written.                                       *)

\* The last of some fields may be anything; the first are those of v.
TailOptions(f, t) == IF f \in Reaching THEN << << t >> >> ELSE AbiDecode(BodyTypes(f), t)

Options(f, v, t) ==
    [i \in 1..Sizes[f] |-> IF i <= Lead[f] THEN << v[i] >> ELSE TailOptions(f, t)[i - Lead[f]]]

LEMMA OptionsJoin ==
    ASSUME NEW k \in Nat, NEW n \in Nat, NEW a, a = [i \in 1..k |-> a[i]],
           NEW b, b = [i \in 1..n |-> b[i]]
    PROVE  a \o b = [i \in 1..(k + n) |-> IF i <= k THEN a[i] ELSE b[i - k]]
<1> DEFINE S == {a[i] : i \in 1..k} \cup {b[i] : i \in 1..n}
<1>1. a \in [1..k -> S] /\ b \in [1..n -> S] OBVIOUS
<1> HIDE DEF S
<1>2. a \in Seq(S) /\ Len(a) = k /\ b \in Seq(S) /\ Len(b) = n BY <1>1, FunctionIsSeq
<1>3. /\ a \o b \in Seq(S) /\ Len(a \o b) = k + n
      /\ \A i \in 1..(k + n) : (a \o b)[i] = IF i <= k THEN a[i] ELSE b[i - k]
  BY <1>2, ConcatProperties
<1> DEFINE c == a \o b
<1> HIDE DEF c
<1>4. c = [i \in 1..(k + n) |-> c[i]] BY <1>3, LenProperties DEF c
<1>5. QED BY <1>3, <1>4 DEF c

LEMMA SliceOfConcat ==
    ASSUME NEW s \in Seq(Byte), NEW t \in Seq(Byte)
    PROVE  /\ sliceFrom(s \o t, Len(s)) = t /\ s \o t \in Seq(Byte)
           /\ Len(s \o t) = Len(s) + Len(t) /\ Len(s) \in 0..Len(s \o t)
<1> DEFINE d == s \o t  m == Len(s)  n == Len(t)
<1>1. /\ m \in Nat /\ n \in Nat /\ d \in Seq(Byte) /\ Len(d) = m + n
      /\ \A i \in 1..(m + n) : d[i] = IF i <= m THEN s[i] ELSE t[i - m]
  BY ConcatProperties, LenProperties
<1> HIDE DEF d, m, n
<1>2. m + n <= Len(d) /\ m \in 0..Len(d) BY <1>1
<1>3. /\ SubSeq(d, m + 1, m + n) \in Seq(Byte) /\ Len(SubSeq(d, m + 1, m + n)) = n
      /\ \A i \in 1..n : SubSeq(d, m + 1, m + n)[i] = d[m + i]
  BY <1>1, <1>2, ReadIs
<1>4. \A i \in 1..n : d[m + i] = t[i]
  <2>1. TAKE i \in 1..n
  <2>2. m + i \in 1..(m + n) /\ ~(m + i <= m) /\ (m + i) - m = i BY <1>1
  <2>3. QED BY <1>1, <2>2
<1>5. SubSeq(d, m + 1, m + n) = t
  <2> DEFINE b == SubSeq(d, m + 1, m + n)
  <2>1. b \in Seq(Byte) /\ Len(b) = n /\ \A i \in 1..n : b[i] = t[i] BY <1>3, <1>4
  <2>2. t \in Seq(Byte) /\ Len(t) = n BY DEF n
  <2> HIDE DEF b
  <2>3. b = t BY <1>1, <2>1, <2>2, SeqEqual
  <2>4. QED BY <2>3 DEF b
<1>6. sliceFrom(d, m) = t BY <1>1, <1>5 DEF sliceFrom
<1>7. QED BY <1>1, <1>2, <1>6 DEF d, m, n

\* Parts of a front that stand where the lengths before them say.
StandTogether(d, a, b, c, w) ==
    /\ At(d, 0, a) /\ At(d, Len(a), b) /\ At(d, Len(a) + Len(b), c)
    /\ At(d, Len(a) + Len(b) + Len(c), w)

LEMMA PartsStand ==
    ASSUME NEW a \in Seq(Byte), NEW b \in Seq(Byte), NEW c \in Seq(Byte), NEW w \in Seq(Byte)
    PROVE  StandTogether(((a \o b) \o c) \o w, a, b, c, w)
<1> DEFINE x == a \o b  y == x \o c  d == y \o w
<1>1. /\ x \in Seq(Byte) /\ Len(x) = Len(a) + Len(b)
      /\ y \in Seq(Byte) /\ Len(y) = Len(x) + Len(c) /\ d \in Seq(Byte)
  <2>1. x \in Seq(Byte) /\ Len(x) = Len(a) + Len(b) BY BytesConcat
  <2> HIDE DEF x
  <2>2. y \in Seq(Byte) /\ Len(y) = Len(x) + Len(c) BY <2>1, BytesConcat
  <2> HIDE DEF y
  <2>3. QED BY <2>1, <2>2, BytesConcat
<1>2. At(d, 0, y \o w)
  <2>1. Len(d) \in Nat BY <1>1, LenProperties
  <2> HIDE DEF y
  <2>2. QED BY <2>1 DEF At
<1> HIDE DEF d
<1>3. At(d, 0, y) /\ At(d, 0 + Len(y), w)
  <2> HIDE DEF y
  <2>1. QED BY <1>1, <1>2, AtParts
<1>4. At(d, 0, x) /\ At(d, 0 + Len(x), c)
  <2> HIDE DEF x
  <2>1. QED BY <1>1, <1>3, AtParts
<1>5. At(d, 0, a) /\ At(d, 0 + Len(a), b) BY <1>1, <1>4, AtParts
<1> HIDE DEF x, y
<1>6. Len(a) \in Nat /\ Len(b) \in Nat /\ Len(c) \in Nat BY LenProperties
<1>7. /\ 0 + Len(a) = Len(a) /\ 0 + Len(x) = Len(a) + Len(b)
      /\ 0 + Len(y) = Len(a) + Len(b) + Len(c)
  BY <1>1, <1>6
<1>8. StandTogether(d, a, b, c, w) BY <1>3, <1>4, <1>5, <1>7 DEF StandTogether
<1>9. QED BY <1>8 DEF d, x, y

LEMMA StandingAddress ==
    ASSUME NEW d \in Seq(Byte), NEW o, NEW a \in Address, At(d, o, a)
    PROVE  readAddress(d, o) = << a >>
<1>1. a \in Seq(Byte) /\ Len(a) = AddressSize BY AddressIsSeq
<1>2. Read(d, o, Len(a)) = << a >> BY <1>1, ReadBlock
<1>3. QED BY <1>1, <1>2 DEF readAddress

\* The decoder of each deposit is chosen by its portal.
DecodersOfDeposits(d, r) ==
    /\ Decode("EtherDeposit", d, r) = Typed("EtherDeposit", decodeEtherDeposit(d, r))
    /\ Decode("Erc20Deposit", d, r) = Typed("Erc20Deposit", decodeErc20Deposit(d, r))
    /\ Decode("Erc721Deposit", d, r) = Typed("Erc721Deposit", decodeErc721Deposit(d, r))
    /\ Decode("Erc1155SingleDeposit", d, r) =
          Typed("Erc1155SingleDeposit", decodeErc1155SingleDeposit(d, r))
    /\ Decode("Erc1155BatchDeposit", d, r) =
          Typed("Erc1155BatchDeposit", decodeErc1155BatchDeposit(d, r))

LEMMA DepositsAreChosen ==
    ASSUME NEW d, NEW r
    PROVE  DecodersOfDeposits(d, r)
<1>1. \A f \in Deposits : f # "EvmAdvance" /\ f \notin Outputs BY DEF Deposits, Outputs
<1>2. \A f \in Deposits : Decode(f, d, r) = decodeDeposit(Portal[f], d, r) BY <1>1 DEF Decode
<1>3. \A f, g \in Deposits : Portal[f] = Portal[g] => f = g BY NamesAssumption
<1>4. /\ "EtherDeposit" \in Deposits /\ "Erc20Deposit" \in Deposits /\ "Erc721Deposit" \in Deposits
      /\ "Erc1155SingleDeposit" \in Deposits /\ "Erc1155BatchDeposit" \in Deposits
  BY DEF Deposits
<1> DEFINE p1 == Portal["EtherDeposit"]  p2 == Portal["Erc20Deposit"]  p3 == Portal["Erc721Deposit"]
           p4 == Portal["Erc1155SingleDeposit"]  p5 == Portal["Erc1155BatchDeposit"]
<1>5. /\ p1 # p2 /\ p1 # p3 /\ p1 # p4 /\ p1 # p5 /\ p2 # p3 /\ p2 # p4 /\ p2 # p5
      /\ p3 # p4 /\ p3 # p5 /\ p4 # p5
  BY <1>3, <1>4
<1>6. decodeDeposit(p1, d, r) = Typed("EtherDeposit", decodeEtherDeposit(d, r))
  BY <1>5 DEF decodeDeposit
<1>7. decodeDeposit(p2, d, r) = Typed("Erc20Deposit", decodeErc20Deposit(d, r))
  BY <1>5 DEF decodeDeposit
<1>8. decodeDeposit(p3, d, r) = Typed("Erc721Deposit", decodeErc721Deposit(d, r))
  BY <1>5 DEF decodeDeposit
<1>9. decodeDeposit(p4, d, r) = Typed("Erc1155SingleDeposit", decodeErc1155SingleDeposit(d, r))
  BY <1>5 DEF decodeDeposit
<1>10. decodeDeposit(p5, d, r) = Typed("Erc1155BatchDeposit", decodeErc1155BatchDeposit(d, r))
  BY <1>5 DEF decodeDeposit
<1>11. QED BY <1>2, <1>4, <1>6, <1>7, <1>8, <1>9, <1>10 DEF DecodersOfDeposits

\* What is refused is refused under any type.
LEMMA TypedRefused == \A type : Typed(type, Refused) = Refused
BY DEF Typed, Then

(* What is shorter than the front is refused.                              *)
LEMMA ShorterThanFront ==
    ASSUME NEW f \in Formats, NEW d \in Seq(Byte), Len(d) < FrontSize(f)
    PROVE  Decode(f, d, "hex") = Refused
<1>0. Len(d) \in Nat /\ AddressSize \in Nat /\ Word \in Nat BY LenProperties, SizesAssumption
<1>1. CASE f \in Announced
  <2>1. Len(d) < 4
    <3>1. FrontSize(f) = 4 BY <1>1, AnnouncedFormats DEF AnnouncedFormat
    <3>2. QED BY <3>1
  <2>2. \A g \in Announced : ~hasSelector(d, Selector[g])
    BY <1>0, <2>1, PrefixIs DEF Announced
  <2>3. CASE f = "EvmAdvance"
    <3>1. decodeInput(d, "hex") = Refused
      BY <2>2 DEF decodeInput, decodeInputHex, hasSelector, Announced
    <3>2. Decode(f, d, "hex") = Typed(f, decodeInput(d, "hex")) BY <2>3 DEF Decode, Outputs, Deposits
    <3>3. QED BY <3>1, <3>2, TypedRefused
  <2>4. CASE f \in Outputs
    <3>1. decodeOutput(d, "hex") = Refused
      BY <2>2 DEF decodeOutput, decodeOutputHex, hasSelector, Announced
    <3>2. f # "EvmAdvance" /\ f \notin Deposits BY <2>4 DEF Outputs, Deposits
    <3>3. Decode(f, d, "hex") = decodeOutput(d, "hex") BY <2>4, <3>2 DEF Decode
    <3>4. QED BY <3>1, <3>3
  <2>5. QED BY <1>1, <2>3, <2>4 DEF Announced
<1>2. CASE f \in Deposits
  <2>1. DecodersOfDeposits(d, "hex") BY DepositsAreChosen
  <2>2. CASE f = "EtherDeposit"
    <3>1. FrontSize(f) = AddressSize + Word BY <2>2 DEF FrontSize
    <3>2. decodeEtherDeposit(d, "hex") = Refused BY <3>1 DEF decodeEtherDeposit
    <3>3. QED BY <2>1, <2>2, <3>2, TypedRefused DEF DecodersOfDeposits
  <2>3. CASE f = "Erc20Deposit"
    <3>1. FrontSize(f) = 2 * AddressSize + Word BY <2>3 DEF FrontSize
    <3>2. decodeErc20Deposit(d, "hex") = Refused BY <3>1 DEF decodeErc20Deposit
    <3>3. QED BY <2>1, <2>3, <3>2, TypedRefused DEF DecodersOfDeposits
  <2>4. CASE f = "Erc721Deposit"
    <3>1. FrontSize(f) = 2 * AddressSize + Word BY <2>4 DEF FrontSize
    <3>2. decodeErc721Deposit(d, "hex") = Refused BY <3>1 DEF decodeErc721Deposit
    <3>3. QED BY <2>1, <2>4, <3>2, TypedRefused DEF DecodersOfDeposits
  <2>5. CASE f = "Erc1155SingleDeposit"
    <3>1. FrontSize(f) = 2 * AddressSize + 2 * Word BY <2>5 DEF FrontSize
    <3>2. decodeErc1155SingleDeposit(d, "hex") = Refused BY <3>1 DEF decodeErc1155SingleDeposit
    <3>3. QED BY <2>1, <2>5, <3>2, TypedRefused DEF DecodersOfDeposits
  <2>6. CASE f = "Erc1155BatchDeposit"
    <3>1. FrontSize(f) = 2 * AddressSize BY <2>6 DEF FrontSize
    <3>2. decodeErc1155BatchDeposit(d, "hex") = Refused BY <3>1 DEF decodeErc1155BatchDeposit
    <3>3. QED BY <2>1, <2>6, <3>2, TypedRefused DEF DecodersOfDeposits
  <2>7. QED BY <1>2, <2>2, <2>3, <2>4, <2>5, <2>6 DEF Deposits
<1>3. QED BY <1>1, <1>2 DEF Formats, Announced

LEMMA DecodesToFunction ==
    ASSUME NEW types, NEW n \in Nat, types \in [1..n -> Types], NEW t
    PROVE  AbiDecode(types, t) = [i \in 1..n |-> AbiDecode(types, t)[i]]
<1>1. DOMAIN types = 1..n /\ \A i \in 1..n : types[i] \in Types OBVIOUS
<1>2. AbiDecode(types, t) = [i \in 1..n |-> AbiField(types[i], t, Word * (i - 1))]
  BY <1>1, AbiFieldsAre
<1> DEFINE d == AbiDecode(types, t)  field(i) == AbiField(types[i], t, Word * (i - 1))
<1>3. d = [i \in 1..n |-> field(i)] BY <1>2
<1> HIDE DEF d, field
<1>4. d = [i \in 1..n |-> d[i]] BY <1>3
<1>5. QED BY <1>4 DEF d

\* The decoder of f reads what follows the front of v.
ReadsFront(f, v) ==
    \A t \in Seq(Byte) :
        Decode(f, Fixed(f, v) \o t, "hex") = Typed(f, All(Options(f, v, t)))

LEMMA AnnouncedReadFront ==
    ASSUME NEW f \in Announced, NEW v \in FieldsOf(f), InRange(f, v)
    PROVE  ReadsFront(f, v)
<1>1. SUFFICES ASSUME NEW t \in Seq(Byte)
               PROVE  Decode(f, Fixed(f, v) \o t, "hex") = Typed(f, All(Options(f, v, t)))
  BY DEF ReadsFront
<1> DEFINE sel == Selector[f]  d == sel \o t  types == BodyTypes(f)  n == Sizes[f]
<1>2. AnnouncedFormat(f) BY AnnouncedFormats
<1>3. /\ f \in Formats /\ f \notin Deposits /\ f \notin Reaching /\ Lead[f] = 0
      /\ n \in Nat \ {0} /\ BodyTypes(f) = FieldTypes(f)
  BY <1>2 DEF AnnouncedFormat
<1>4. types \in [1..n -> Types] BY <1>3, TupleOfFields
<1>5. Fixed(f, v) = sel BY <1>3 DEF Fixed
<1>6. sel \in Seq(Byte) /\ Len(sel) = 4 BY SelectorIs DEF Announced
<1>7. sliceFrom(d, 4) = t /\ d \in Seq(Byte) /\ Len(d) = 4 + Len(t) /\ SubSeq(d, 1, 4) = sel
  <2> HIDE DEF sel
  <2>1. sliceFrom(d, Len(sel)) = t /\ d \in Seq(Byte) /\ Len(d) = Len(sel) + Len(t)
    BY <1>6, SliceOfConcat
  <2>2. SubSeq(d, 1, Len(sel)) = sel BY <1>6, PrefixOfConcat
  <2>3. QED BY <1>6, <2>1, <2>2
<1>8. hasSelector(d, sel)
  <2>1. Len(d) >= 4
    <3>1. Len(t) \in Nat BY LenProperties
    <3>2. QED BY <1>7, <3>1
  <2>2. QED BY <1>7, <2>1, PrefixIs DEF Announced
<1>9. SubSeq(d, 5, Len(d)) = t
  <2> HIDE DEF d
  <2>1. sliceFrom(d, 4) = SubSeq(d, 5, Len(d)) BY DEF sliceFrom
  <2>2. QED BY <1>7, <2>1
<1>10. Options(f, v, t) = AbiDecode(types, t)
  <2>1. \A i \in 1..n : ~(i <= 0) /\ i - 0 = i BY <1>3
  <2>2. TailOptions(f, t) = AbiDecode(types, t) BY <1>3 DEF TailOptions
  <2>3. AbiDecode(types, t) = [i \in 1..n |-> AbiDecode(types, t)[i]]
    BY <1>3, <1>4, DecodesToFunction
  <2>4. Options(f, v, t) =
            [i \in 1..n |-> IF i <= 0 THEN << v[i] >> ELSE TailOptions(f, t)[i - 0]]
    BY <1>3 DEF Options
  <2> DEFINE x == AbiDecode(types, t)
  <2> HIDE DEF x, n
  <2>5. Options(f, v, t) = [i \in 1..n |-> IF i <= 0 THEN << v[i] >> ELSE x[i - 0]]
    BY <2>2, <2>4 DEF n, x
  <2>6. \A i \in 1..n : (IF i <= 0 THEN << v[i] >> ELSE x[i - 0]) = x[i] BY <2>1 DEF n
  <2>7. Options(f, v, t) = [i \in 1..n |-> x[i]] BY <2>5, <2>6
  <2>8. QED BY <2>3, <2>7 DEF n, x
<1>11. CASE f = "EvmAdvance"
  <2>1. types = evmAdvance BY <1>11 DEF BodyTypes, Outputs
  <2>2. decodeInput(d, "hex") = All(AbiDecode(types, t))
    <3> HIDE DEF types
    <3>1. IsPrefix(Selector["EvmAdvance"], d) BY <1>8, <1>11 DEF hasSelector
    <3> HIDE DEF d
    <3>2. decodeInputHex(d) = All(AbiDecode(evmAdvance, SubSeq(d, 5, Len(d))))
      BY <3>1 DEF decodeInputHex
    <3>3. QED BY <1>9, <2>1, <3>2 DEF decodeInput
  <2> HIDE DEF d, types, sel
  <2>3. Decode(f, d, "hex") = Typed(f, decodeInput(d, "hex"))
    BY <1>11 DEF Decode, Outputs, Deposits
  <2>4. QED BY <1>5, <1>10, <2>2, <2>3 DEF d
<1>12. CASE f \in Outputs
  <2>1. types = outputAbi[f] BY <1>12 DEF BodyTypes, Outputs
  <2>2. \A g \in Outputs : IsPrefix(Selector[g], d) => g = f
    BY <1>7, <1>8, <1>12, OneSelector DEF hasSelector
  <2>3. IsPrefix(Selector[f], d) BY <1>8 DEF hasSelector
  <2> HIDE DEF d, types, sel
  <2> DEFINE found == CHOOSE g \in Outputs : IsPrefix(Selector[g], d)
             result(g) == Typed(g, All(AbiDecode(outputAbi[g], SubSeq(d, 5, Len(d)))))
  <2>4. decodeOutputHex(d) = result(found) BY <1>12, <2>3, Zenon DEF decodeOutputHex
  <2>5. found = f BY <1>12, <2>2, <2>3
  <2> HIDE DEF found
  <2>6. decodeOutputHex(d) = Typed(f, All(AbiDecode(types, t))) BY <1>9, <2>1, <2>4, <2>5
  <2>7. Decode(f, d, "hex") = decodeOutput(d, "hex")
    <3>1. f # "EvmAdvance" /\ f \notin Deposits BY <1>3, <1>12 DEF Outputs
    <3>2. QED BY <1>12, <3>1 DEF Decode
  <2>8. QED BY <1>5, <1>10, <2>6, <2>7 DEF decodeOutput, d
<1>13. QED BY <1>11, <1>12 DEF Announced

\* A front of a deposit's fields, and what follows it.
FrontIs(f, v, d, t) ==
    /\ d = Fixed(f, v) \o t /\ d \in Seq(Byte) /\ sliceFrom(d, FrontSize(f)) = t
    /\ ~(Len(d) < FrontSize(f)) /\ Fixed(f, v) = FlattenSeq(FrontParts(f, v))

LEMMA FrontsAre ==
    ASSUME NEW f \in Deposits, NEW v \in FieldsOf(f), InRange(f, v), NEW t \in Seq(Byte)
    PROVE  FrontIs(f, v, Fixed(f, v) \o t, t)
<1> DEFINE s == Fixed(f, v)  d == s \o t
<1>1. s \in Seq(Byte) /\ Len(s) = FrontSize(f) BY DepositFronts
<1>2. s = FlattenSeq(FrontParts(f, v)) BY DEF Fixed
<1> HIDE DEF s
<1>3. /\ sliceFrom(d, Len(s)) = t /\ d \in Seq(Byte)
      /\ Len(d) = Len(s) + Len(t) /\ Len(s) \in 0..Len(d)
  BY <1>1, SliceOfConcat
<1> HIDE DEF d
<1>4. ~(Len(d) < Len(s))
  <2>1. Len(d) \in Nat BY <1>3, LenProperties
  <2>2. QED BY <1>3, <2>1
<1>5. FrontIs(f, v, d, t) BY <1>1, <1>2, <1>3, <1>4 DEF FrontIs, d, s
<1>6. QED BY <1>5 DEF d, s

LEMMA TwoInFront ==
    ASSUME NEW a \in Seq(Byte), NEW b \in Seq(Byte), NEW t \in Seq(Byte)
    PROVE  /\ At(FlattenSeq(<<a, b>>) \o t, 0, a)
           /\ At(FlattenSeq(<<a, b>>) \o t, Len(a), b)
<1> DEFINE none == << >>  s == (a \o b) \o t
<1>1. FlattenSeq(<<a, b>>) = a \o b BY FlattenFew DEF FewJoined
<1>2. none \in Seq(Byte) BY EmptySeq
<1>3. s \in Seq(Byte)
  <2>1. a \o b \in Seq(Byte) BY BytesConcat
  <2>2. QED BY <2>1, BytesConcat
<1>4. s \o none = s BY <1>3, ConcatEmptySeq
<1> HIDE DEF none
<1>5. StandTogether(s \o none, a, b, t, none) BY <1>2, PartsStand
<1>6. QED BY <1>1, <1>4, <1>5 DEF StandTogether

LEMMA ThreeInFront ==
    ASSUME NEW a \in Seq(Byte), NEW b \in Seq(Byte), NEW c \in Seq(Byte), NEW t \in Seq(Byte)
    PROVE  /\ At(FlattenSeq(<<a, b, c>>) \o t, 0, a)
           /\ At(FlattenSeq(<<a, b, c>>) \o t, Len(a), b)
           /\ At(FlattenSeq(<<a, b, c>>) \o t, Len(a) + Len(b), c)
<1>1. FlattenSeq(<<a, b, c>>) = (a \o b) \o c
  <2>1. FewJoined(a, b, c, c) BY FlattenFew
  <2>2. QED BY <2>1 DEF FewJoined
<1>2. StandTogether(((a \o b) \o c) \o t, a, b, c, t) BY PartsStand
<1>3. QED BY <1>1, <1>2 DEF StandTogether

LEMMA FourInFront ==
    ASSUME NEW a \in Seq(Byte), NEW b \in Seq(Byte), NEW c \in Seq(Byte), NEW w \in Seq(Byte),
           NEW t \in Seq(Byte)
    PROVE  StandTogether(FlattenSeq(<<a, b, c, w>>) \o t, a, b, c, w)
<1> DEFINE s == ((a \o b) \o c) \o w
<1>1. FlattenSeq(<<a, b, c, w>>) = s
  <2>1. FewJoined(a, b, c, w) BY FlattenFew
  <2>2. QED BY <2>1 DEF FewJoined
<1>2. StandTogether(s, a, b, c, w) BY PartsStand
<1>3. s \in Seq(Byte)
  <2>1. a \o b \in Seq(Byte) BY BytesConcat
  <2>2. (a \o b) \o c \in Seq(Byte) BY <2>1, BytesConcat
  <2>3. QED BY <2>2, BytesConcat
<1> HIDE DEF s
<1>4. \A o \in Nat : \A x \in Seq(Byte) : At(s, o, x) => At(s \o t, o, x)
  <2>1. ASSUME NEW o \in Nat, NEW x \in Seq(Byte) PROVE At(s, o, x) => At(s \o t, o, x)
    BY <1>3, AtConcat
  <2>2. QED BY <2>1
<1>5. /\ 0 \in Nat /\ Len(a) \in Nat /\ Len(a) + Len(b) \in Nat
      /\ Len(a) + Len(b) + Len(c) \in Nat
  <2>1. Len(a) \in Nat /\ Len(b) \in Nat /\ Len(c) \in Nat BY LenProperties
  <2>2. QED BY <2>1
<1>6. StandTogether(s \o t, a, b, c, w) BY <1>2, <1>4, <1>5 DEF StandTogether
<1>7. QED BY <1>1, <1>6

LEMMA EtherReadsFront ==
    ASSUME NEW v \in FieldsOf("EtherDeposit"), InRange("EtherDeposit", v)
    PROVE  ReadsFront("EtherDeposit", v)
<1> DEFINE f == "EtherDeposit"  fixed == AddressSize + Word
<1>0. f \in Deposits BY DEF Deposits
<1>1. SUFFICES ASSUME NEW t \in Seq(Byte)
               PROVE  Decode(f, Fixed(f, v) \o t, "hex") = Typed(f, All(Options(f, v, t)))
  BY DEF ReadsFront
<1> DEFINE d == Fixed(f, v) \o t  a == v[1]  b == Uint256(v[2])
<1>2. /\ FieldTypes(f) = << "address", "uint256", "bytes" >>
      /\ Sizes[f] = 3 /\ Lead[f] = 2 /\ FrontSize(f) = fixed
  BY DEF FieldTypes, Sizes, Lead, FrontSize
<1>3. FrontIs(f, v, d, t) BY <1>0, FrontsAre
<1>4. v[1] \in Address /\ v[2] \in Nat /\ Writable(v[2])
  <2>1. \A i \in 1..3 : WrittenAs(FieldTypes(f)[i], v[i]) BY <1>0, <1>2, DepositFields
  <2>2. QED BY <1>2, <2>1 DEF WrittenAs
<1>5. FrontParts(f, v) = <<a, b>> BY DEF FrontParts
<1>6. /\ a \in Seq(Byte) /\ Len(a) = AddressSize
      /\ b \in Seq(Byte) /\ Len(b) = Word
  BY <1>4, AddressIsSeq, Uint256IsWord
<1>7. /\ d \in Seq(Byte) /\ sliceFrom(d, fixed) = t /\ ~(Len(d) < fixed)
      /\ d = FlattenSeq(<<a, b>>) \o t
  BY <1>2, <1>3, <1>5 DEF FrontIs
<1>8. Word \in Nat /\ AddressSize \in Nat BY SizesAssumption
<1> HIDE DEF d
<1>9. /\ At(d, 0, a)
      /\ At(d, AddressSize, b)
  <2> HIDE DEF a, b
  <2>1. /\ At(FlattenSeq(<<a, b>>) \o t, 0, a)
        /\ At(FlattenSeq(<<a, b>>) \o t, Len(a), b)
    BY <1>6, TwoInFront
  <2>2. Len(a) = AddressSize BY <1>6, <1>8
  <2>3. QED BY <1>7, <2>1, <2>2
<1>10. /\ readAddress(d, 0) = << v[1] >>
       /\ readUint256(d, AddressSize) = << v[2] >>
  <2>1. readAddress(d, 0) = << v[1] >>
    BY <1>4, <1>7, <1>9, StandingAddress
  <2>2. readUint256(d, AddressSize) = << v[2] >>
    BY <1>4, <1>7, <1>9, WordAt
  <2>3. QED BY <2>1, <2>2
<1> HIDE DEF a, b
<1>11. decodeEtherDeposit(d, "hex") = All(<< << v[1] >>, << v[2] >>, << t >> >>)
  <2>1. decodeEtherDeposit(d, "hex") =
            All(<< readAddress(d, 0), readUint256(d, AddressSize), << sliceFrom(d, fixed) >> >>)
    BY <1>7 DEF decodeEtherDeposit
  <2>2. QED BY <1>7, <1>10, <2>1
<1>12. Options(f, v, t) = << << v[1] >>, << v[2] >>, << t >> >>
  <2> DEFINE x == TailOptions(f, t)
  <2>1. x[1] = << t >> BY DEF TailOptions, Reaching
  <2>2. Options(f, v, t) = [i \in 1..3 |-> IF i <= 2 THEN << v[i] >> ELSE x[i - 2]]
    BY <1>2 DEF Options
  <2> HIDE DEF x
  <2> DEFINE y == Options(f, v, t)
  <2>3. y = [i \in 1..3 |-> IF i <= 2 THEN << v[i] >> ELSE x[i - 2]] BY <2>2
  <2> HIDE DEF y
  <2>4. y[1] = << v[1] >> /\ y[2] = << v[2] >> /\ y[3] = << t >>
    <3>1. 3 - 2 = 1 OBVIOUS
    <3>2. QED BY <2>1, <2>3, <3>1
  <2>5. y = [i \in 1..3 |-> y[i]] BY <2>3
  <2>6. y = << y[1], y[2], y[3] >> BY <2>5
  <2>7. QED BY <2>4, <2>6 DEF y
<1>13. Decode(f, d, "hex") = Typed(f, decodeEtherDeposit(d, "hex"))
  BY DepositsAreChosen DEF DecodersOfDeposits
<1>14. QED BY <1>11, <1>12, <1>13 DEF d

LEMMA Erc20ReadsFront ==
    ASSUME NEW v \in FieldsOf("Erc20Deposit"), InRange("Erc20Deposit", v)
    PROVE  ReadsFront("Erc20Deposit", v)
<1> DEFINE f == "Erc20Deposit"  fixed == 2 * AddressSize + Word
<1>0. f \in Deposits BY DEF Deposits
<1>1. SUFFICES ASSUME NEW t \in Seq(Byte)
               PROVE  Decode(f, Fixed(f, v) \o t, "hex") = Typed(f, All(Options(f, v, t)))
  BY DEF ReadsFront
<1> DEFINE d == Fixed(f, v) \o t  a == v[1]  b == v[2]  c == Uint256(v[3])
<1>2. /\ FieldTypes(f) = << "address", "address", "uint256", "bytes" >>
      /\ Sizes[f] = 4 /\ Lead[f] = 3 /\ FrontSize(f) = fixed
  BY DEF FieldTypes, Sizes, Lead, FrontSize
<1>3. FrontIs(f, v, d, t) BY <1>0, FrontsAre
<1>4. v[1] \in Address /\ v[2] \in Address /\ v[3] \in Nat /\ Writable(v[3])
  <2>1. \A i \in 1..4 : WrittenAs(FieldTypes(f)[i], v[i]) BY <1>0, <1>2, DepositFields
  <2>2. QED BY <1>2, <2>1 DEF WrittenAs
<1>5. FrontParts(f, v) = <<a, b, c>> BY DEF FrontParts
<1>6. /\ a \in Seq(Byte) /\ Len(a) = AddressSize
      /\ b \in Seq(Byte) /\ Len(b) = AddressSize
      /\ c \in Seq(Byte) /\ Len(c) = Word
  BY <1>4, AddressIsSeq, Uint256IsWord
<1>7. /\ d \in Seq(Byte) /\ sliceFrom(d, fixed) = t /\ ~(Len(d) < fixed)
      /\ d = FlattenSeq(<<a, b, c>>) \o t
  BY <1>2, <1>3, <1>5 DEF FrontIs
<1>8. Word \in Nat /\ AddressSize \in Nat BY SizesAssumption
<1> HIDE DEF d
<1>9. /\ At(d, 0, a)
      /\ At(d, AddressSize, b)
      /\ At(d, 2 * AddressSize, c)
  <2> HIDE DEF a, b, c
  <2>1. /\ At(FlattenSeq(<<a, b, c>>) \o t, 0, a)
        /\ At(FlattenSeq(<<a, b, c>>) \o t, Len(a), b)
        /\ At(FlattenSeq(<<a, b, c>>) \o t, Len(a) + Len(b), c)
    BY <1>6, ThreeInFront
  <2>2. Len(a) = AddressSize /\ Len(a) + Len(b) = 2 * AddressSize BY <1>6, <1>8
  <2>3. QED BY <1>7, <2>1, <2>2
<1>10. /\ readAddress(d, 0) = << v[1] >>
       /\ readAddress(d, AddressSize) = << v[2] >>
       /\ readUint256(d, 2 * AddressSize) = << v[3] >>
  <2>1. readAddress(d, 0) = << v[1] >> /\ readAddress(d, AddressSize) = << v[2] >>
    BY <1>4, <1>7, <1>9, StandingAddress
  <2>2. readUint256(d, 2 * AddressSize) = << v[3] >>
    BY <1>4, <1>7, <1>9, WordAt
  <2>3. QED BY <2>1, <2>2
<1> HIDE DEF a, b, c
<1>11. decodeErc20Deposit(d, "hex") = All(<< << v[1] >>, << v[2] >>, << v[3] >>, << t >> >>)
  <2>1. decodeErc20Deposit(d, "hex") =
            All(<< readAddress(d, 0), readAddress(d, AddressSize), readUint256(d, 2 * AddressSize), << sliceFrom(d, fixed) >> >>)
    BY <1>7 DEF decodeErc20Deposit
  <2>2. QED BY <1>7, <1>10, <2>1
<1>12. Options(f, v, t) = << << v[1] >>, << v[2] >>, << v[3] >>, << t >> >>
  <2> DEFINE x == TailOptions(f, t)
  <2>1. x[1] = << t >> BY DEF TailOptions, Reaching
  <2>2. Options(f, v, t) = [i \in 1..4 |-> IF i <= 3 THEN << v[i] >> ELSE x[i - 3]]
    BY <1>2 DEF Options
  <2> HIDE DEF x
  <2> DEFINE y == Options(f, v, t)
  <2>3. y = [i \in 1..4 |-> IF i <= 3 THEN << v[i] >> ELSE x[i - 3]] BY <2>2
  <2> HIDE DEF y
  <2>4. y[1] = << v[1] >> /\ y[2] = << v[2] >> /\ y[3] = << v[3] >> /\ y[4] = << t >>
    <3>1. 4 - 3 = 1 OBVIOUS
    <3>2. QED BY <2>1, <2>3, <3>1
  <2>5. y = [i \in 1..4 |-> y[i]] BY <2>3
  <2>6. y = << y[1], y[2], y[3], y[4] >> BY <2>5
  <2>7. QED BY <2>4, <2>6 DEF y
<1>13. Decode(f, d, "hex") = Typed(f, decodeErc20Deposit(d, "hex"))
  BY DepositsAreChosen DEF DecodersOfDeposits
<1>14. QED BY <1>11, <1>12, <1>13 DEF d

LEMMA Erc721ReadsFront ==
    ASSUME NEW v \in FieldsOf("Erc721Deposit"), InRange("Erc721Deposit", v)
    PROVE  ReadsFront("Erc721Deposit", v)
<1> DEFINE f == "Erc721Deposit"  fixed == 2 * AddressSize + Word
<1>0. f \in Deposits BY DEF Deposits
<1>1. SUFFICES ASSUME NEW t \in Seq(Byte)
               PROVE  Decode(f, Fixed(f, v) \o t, "hex") = Typed(f, All(Options(f, v, t)))
  BY DEF ReadsFront
<1> DEFINE d == Fixed(f, v) \o t  a == v[1]  b == v[2]  c == Uint256(v[3])
<1>2. /\ FieldTypes(f) = << "address", "address", "uint256", "bytes", "bytes" >>
      /\ Sizes[f] = 5 /\ Lead[f] = 3 /\ FrontSize(f) = fixed
  BY DEF FieldTypes, Sizes, Lead, FrontSize
<1>3. FrontIs(f, v, d, t) BY <1>0, FrontsAre
<1>4. v[1] \in Address /\ v[2] \in Address /\ v[3] \in Nat /\ Writable(v[3])
  <2>1. \A i \in 1..5 : WrittenAs(FieldTypes(f)[i], v[i]) BY <1>0, <1>2, DepositFields
  <2>2. QED BY <1>2, <2>1 DEF WrittenAs
<1>5. FrontParts(f, v) = <<a, b, c>> BY DEF FrontParts
<1>6. /\ a \in Seq(Byte) /\ Len(a) = AddressSize
      /\ b \in Seq(Byte) /\ Len(b) = AddressSize
      /\ c \in Seq(Byte) /\ Len(c) = Word
  BY <1>4, AddressIsSeq, Uint256IsWord
<1>7. /\ d \in Seq(Byte) /\ sliceFrom(d, fixed) = t /\ ~(Len(d) < fixed)
      /\ d = FlattenSeq(<<a, b, c>>) \o t
  BY <1>2, <1>3, <1>5 DEF FrontIs
<1>8. Word \in Nat /\ AddressSize \in Nat BY SizesAssumption
<1> HIDE DEF d
<1>9. /\ At(d, 0, a)
      /\ At(d, AddressSize, b)
      /\ At(d, 2 * AddressSize, c)
  <2> HIDE DEF a, b, c
  <2>1. /\ At(FlattenSeq(<<a, b, c>>) \o t, 0, a)
        /\ At(FlattenSeq(<<a, b, c>>) \o t, Len(a), b)
        /\ At(FlattenSeq(<<a, b, c>>) \o t, Len(a) + Len(b), c)
    BY <1>6, ThreeInFront
  <2>2. Len(a) = AddressSize /\ Len(a) + Len(b) = 2 * AddressSize BY <1>6, <1>8
  <2>3. QED BY <1>7, <2>1, <2>2
<1>10. /\ readAddress(d, 0) = << v[1] >>
       /\ readAddress(d, AddressSize) = << v[2] >>
       /\ readUint256(d, 2 * AddressSize) = << v[3] >>
  <2>1. readAddress(d, 0) = << v[1] >> /\ readAddress(d, AddressSize) = << v[2] >>
    BY <1>4, <1>7, <1>9, StandingAddress
  <2>2. readUint256(d, 2 * AddressSize) = << v[3] >>
    BY <1>4, <1>7, <1>9, WordAt
  <2>3. QED BY <2>1, <2>2
<1> HIDE DEF a, b, c
<1> DEFINE x == AbiDecode(dataAbi, t)  p == << << v[1] >>, << v[2] >>, << v[3] >> >>
<1>11. decodeErc721Deposit(d, "hex") = All(p \o x)
  <2>1. decodeErc721Deposit(d, "hex") =
            All(<< readAddress(d, 0), readAddress(d, AddressSize), readUint256(d, 2 * AddressSize) >> \o AbiDecode(dataAbi, sliceFrom(d, fixed)))
    BY <1>7 DEF decodeErc721Deposit
  <2>2. QED BY <1>7, <1>10, <2>1
<1>12. Options(f, v, t) = p \o x
  <2>1. x = [i \in 1..2 |-> x[i]]
    <3>1. dataAbi \in [1..2 -> Types] BY DEF dataAbi, Types
    <3>2. QED BY <3>1, DecodesToFunction
  <2>2. TailOptions(f, t) = x BY DEF TailOptions, BodyTypes, Reaching, Outputs
  <2>3. p = [i \in 1..3 |-> p[i]] /\ \A i \in 1..3 : p[i] = << v[i] >>
    <3> DEFINE q == << v[1] >>
    <3>1. \A i \in 1..3 : i = 1 \/ i = 2 \/ i = 3 OBVIOUS
    <3>2. p[1] = << v[1] >> /\ p[2] = << v[2] >> /\ p[3] = << v[3] >> OBVIOUS
    <3>3. p = [i \in 1..3 |-> p[i]] OBVIOUS
    <3>4. QED BY <3>1, <3>2, <3>3
  <2> HIDE DEF p, x
  <2>4. p \o x = [i \in 1..(3 + 2) |-> IF i <= 3 THEN p[i] ELSE x[i - 3]]
    <3>1. 3 \in Nat /\ 2 \in Nat OBVIOUS
    <3>2. QED BY <2>1, <2>3, <3>1, OptionsJoin
  <2>5. 3 + 2 = 5 OBVIOUS
  <2>6. Options(f, v, t) = [i \in 1..5 |-> IF i <= 3 THEN << v[i] >> ELSE x[i - 3]]
    BY <1>2, <2>2 DEF Options
  <2>7. \A i \in 1..5 : i <= 3 => i \in 1..3 OBVIOUS
  <2>8. \A i \in 1..5 : (IF i <= 3 THEN << v[i] >> ELSE x[i - 3]) =
                            (IF i <= 3 THEN p[i] ELSE x[i - 3])
    BY <2>3, <2>7
  <2>9. QED BY <2>4, <2>5, <2>6, <2>8
<1>13. Decode(f, d, "hex") = Typed(f, decodeErc721Deposit(d, "hex"))
  BY DepositsAreChosen DEF DecodersOfDeposits
<1>14. QED BY <1>11, <1>12, <1>13 DEF d

LEMMA Erc1155SingleReadsFront ==
    ASSUME NEW v \in FieldsOf("Erc1155SingleDeposit"), InRange("Erc1155SingleDeposit", v)
    PROVE  ReadsFront("Erc1155SingleDeposit", v)
<1> DEFINE f == "Erc1155SingleDeposit"  fixed == 2 * AddressSize + 2 * Word
<1>0. f \in Deposits BY DEF Deposits
<1>1. SUFFICES ASSUME NEW t \in Seq(Byte)
               PROVE  Decode(f, Fixed(f, v) \o t, "hex") = Typed(f, All(Options(f, v, t)))
  BY DEF ReadsFront
<1> DEFINE d == Fixed(f, v) \o t  a == v[1]  b == v[2]  c == Uint256(v[3])  w == Uint256(v[4])
<1>2. /\ FieldTypes(f) = << "address", "address", "uint256", "uint256", "bytes", "bytes" >>
      /\ Sizes[f] = 6 /\ Lead[f] = 4 /\ FrontSize(f) = fixed
  BY DEF FieldTypes, Sizes, Lead, FrontSize
<1>3. FrontIs(f, v, d, t) BY <1>0, FrontsAre
<1>4. v[1] \in Address /\ v[2] \in Address /\ v[3] \in Nat /\ v[4] \in Nat /\ Writable(v[3]) /\ Writable(v[4])
  <2>1. \A i \in 1..6 : WrittenAs(FieldTypes(f)[i], v[i]) BY <1>0, <1>2, DepositFields
  <2>2. QED BY <1>2, <2>1 DEF WrittenAs
<1>5. FrontParts(f, v) = <<a, b, c, w>> BY DEF FrontParts
<1>6. /\ a \in Seq(Byte) /\ Len(a) = AddressSize
      /\ b \in Seq(Byte) /\ Len(b) = AddressSize
      /\ c \in Seq(Byte) /\ Len(c) = Word
      /\ w \in Seq(Byte) /\ Len(w) = Word
  BY <1>4, AddressIsSeq, Uint256IsWord
<1>7. /\ d \in Seq(Byte) /\ sliceFrom(d, fixed) = t /\ ~(Len(d) < fixed)
      /\ d = FlattenSeq(<<a, b, c, w>>) \o t
  BY <1>2, <1>3, <1>5 DEF FrontIs
<1>8. Word \in Nat /\ AddressSize \in Nat BY SizesAssumption
<1> HIDE DEF d
<1>9. /\ At(d, 0, a)
      /\ At(d, AddressSize, b)
      /\ At(d, 2 * AddressSize, c)
      /\ At(d, 2 * AddressSize + Word, w)
  <2> HIDE DEF a, b, c, w
  <2>1. StandTogether(FlattenSeq(<<a, b, c, w>>) \o t, a, b, c, w) BY <1>6, FourInFront
  <2>2. /\ Len(a) = AddressSize /\ Len(a) + Len(b) = 2 * AddressSize
        /\ Len(a) + Len(b) + Len(c) = 2 * AddressSize + Word
    BY <1>6, <1>8
  <2>3. QED BY <1>7, <2>1, <2>2 DEF StandTogether
<1>10. /\ readAddress(d, 0) = << v[1] >>
       /\ readAddress(d, AddressSize) = << v[2] >>
       /\ readUint256(d, 2 * AddressSize) = << v[3] >>
       /\ readUint256(d, 2 * AddressSize + Word) = << v[4] >>
  <2>1. readAddress(d, 0) = << v[1] >> /\ readAddress(d, AddressSize) = << v[2] >>
    BY <1>4, <1>7, <1>9, StandingAddress
  <2>2. readUint256(d, 2 * AddressSize) = << v[3] >> /\ readUint256(d, 2 * AddressSize + Word) = << v[4] >>
    BY <1>4, <1>7, <1>9, WordAt
  <2>3. QED BY <2>1, <2>2
<1> HIDE DEF a, b, c, w
<1> DEFINE x == AbiDecode(dataAbi, t)  p == << << v[1] >>, << v[2] >>, << v[3] >>, << v[4] >> >>
<1>11. decodeErc1155SingleDeposit(d, "hex") = All(p \o x)
  <2>1. decodeErc1155SingleDeposit(d, "hex") =
            All(<< readAddress(d, 0), readAddress(d, AddressSize), readUint256(d, 2 * AddressSize), readUint256(d, 2 * AddressSize + Word) >> \o AbiDecode(dataAbi, sliceFrom(d, fixed)))
    BY <1>7 DEF decodeErc1155SingleDeposit
  <2>2. QED BY <1>7, <1>10, <2>1
<1>12. Options(f, v, t) = p \o x
  <2>1. x = [i \in 1..2 |-> x[i]]
    <3>1. dataAbi \in [1..2 -> Types] BY DEF dataAbi, Types
    <3>2. QED BY <3>1, DecodesToFunction
  <2>2. TailOptions(f, t) = x BY DEF TailOptions, BodyTypes, Reaching, Outputs
  <2>3. p = [i \in 1..4 |-> p[i]] /\ \A i \in 1..4 : p[i] = << v[i] >>
    <3> DEFINE q == << v[1] >>
    <3>1. \A i \in 1..4 : i = 1 \/ i = 2 \/ i = 3 \/ i = 4 OBVIOUS
    <3>2. p[1] = << v[1] >> /\ p[2] = << v[2] >> /\ p[3] = << v[3] >> /\ p[4] = << v[4] >> OBVIOUS
    <3>3. p = [i \in 1..4 |-> p[i]] OBVIOUS
    <3>4. QED BY <3>1, <3>2, <3>3
  <2> HIDE DEF p, x
  <2>4. p \o x = [i \in 1..(4 + 2) |-> IF i <= 4 THEN p[i] ELSE x[i - 4]]
    <3>1. 4 \in Nat /\ 2 \in Nat OBVIOUS
    <3>2. QED BY <2>1, <2>3, <3>1, OptionsJoin
  <2>5. 4 + 2 = 6 OBVIOUS
  <2>6. Options(f, v, t) = [i \in 1..6 |-> IF i <= 4 THEN << v[i] >> ELSE x[i - 4]]
    BY <1>2, <2>2 DEF Options
  <2>7. \A i \in 1..6 : i <= 4 => i \in 1..4 OBVIOUS
  <2>8. \A i \in 1..6 : (IF i <= 4 THEN << v[i] >> ELSE x[i - 4]) =
                            (IF i <= 4 THEN p[i] ELSE x[i - 4])
    BY <2>3, <2>7
  <2>9. QED BY <2>4, <2>5, <2>6, <2>8
<1>13. Decode(f, d, "hex") = Typed(f, decodeErc1155SingleDeposit(d, "hex"))
  BY DepositsAreChosen DEF DecodersOfDeposits
<1>14. QED BY <1>11, <1>12, <1>13 DEF d

LEMMA Erc1155BatchReadsFront ==
    ASSUME NEW v \in FieldsOf("Erc1155BatchDeposit"), InRange("Erc1155BatchDeposit", v)
    PROVE  ReadsFront("Erc1155BatchDeposit", v)
<1> DEFINE f == "Erc1155BatchDeposit"  fixed == 2 * AddressSize
<1>0. f \in Deposits BY DEF Deposits
<1>1. SUFFICES ASSUME NEW t \in Seq(Byte)
               PROVE  Decode(f, Fixed(f, v) \o t, "hex") = Typed(f, All(Options(f, v, t)))
  BY DEF ReadsFront
<1> DEFINE d == Fixed(f, v) \o t  a == v[1]  b == v[2]
<1>2. /\ FieldTypes(f) = << "address", "address", "uint256[]", "uint256[]", "bytes", "bytes" >>
      /\ Sizes[f] = 6 /\ Lead[f] = 2 /\ FrontSize(f) = fixed
  BY DEF FieldTypes, Sizes, Lead, FrontSize
<1>3. FrontIs(f, v, d, t) BY <1>0, FrontsAre
<1>4. v[1] \in Address /\ v[2] \in Address
  <2>1. \A i \in 1..6 : WrittenAs(FieldTypes(f)[i], v[i]) BY <1>0, <1>2, DepositFields
  <2>2. WrittenAs("address", v[1]) /\ WrittenAs("address", v[2])
    <3>1. FieldTypes(f)[1] = "address" /\ FieldTypes(f)[2] = "address" BY <1>2
    <3>2. 1 \in 1..6 /\ 2 \in 1..6 OBVIOUS
    <3>3. QED BY <2>1, <3>1, <3>2
  <2>3. QED BY <2>2 DEF WrittenAs
<1>5. FrontParts(f, v) = <<a, b>> BY DEF FrontParts
<1>6. /\ a \in Seq(Byte) /\ Len(a) = AddressSize
      /\ b \in Seq(Byte) /\ Len(b) = AddressSize
  BY <1>4, AddressIsSeq, Uint256IsWord
<1>7. /\ d \in Seq(Byte) /\ sliceFrom(d, fixed) = t /\ ~(Len(d) < fixed)
      /\ d = FlattenSeq(<<a, b>>) \o t
  BY <1>2, <1>3, <1>5 DEF FrontIs
<1>8. Word \in Nat /\ AddressSize \in Nat BY SizesAssumption
<1> HIDE DEF d
<1>9. /\ At(d, 0, a)
      /\ At(d, AddressSize, b)
  <2> HIDE DEF a, b
  <2>1. /\ At(FlattenSeq(<<a, b>>) \o t, 0, a)
        /\ At(FlattenSeq(<<a, b>>) \o t, Len(a), b)
    BY <1>6, TwoInFront
  <2>2. Len(a) = AddressSize BY <1>6, <1>8
  <2>3. QED BY <1>7, <2>1, <2>2
<1>10. /\ readAddress(d, 0) = << v[1] >>
       /\ readAddress(d, AddressSize) = << v[2] >>
  <2>1. readAddress(d, 0) = << v[1] >> /\ readAddress(d, AddressSize) = << v[2] >>
    BY <1>4, <1>7, <1>9, StandingAddress
  <2>2. QED BY <2>1
<1> HIDE DEF a, b
<1> DEFINE x == AbiDecode(batchDataAbi, t)  p == << << v[1] >>, << v[2] >> >>
<1>11. decodeErc1155BatchDeposit(d, "hex") = All(p \o x)
  <2>1. decodeErc1155BatchDeposit(d, "hex") =
            All(<< readAddress(d, 0), readAddress(d, AddressSize) >> \o AbiDecode(batchDataAbi, sliceFrom(d, fixed)))
    BY <1>7 DEF decodeErc1155BatchDeposit
  <2>2. QED BY <1>7, <1>10, <2>1
<1>12. Options(f, v, t) = p \o x
  <2>1. x = [i \in 1..4 |-> x[i]]
    <3>1. batchDataAbi \in [1..4 -> Types] BY DEF batchDataAbi, Types
    <3>2. QED BY <3>1, DecodesToFunction
  <2>2. TailOptions(f, t) = x BY DEF TailOptions, BodyTypes, Reaching, Outputs
  <2>3. p = [i \in 1..2 |-> p[i]] /\ \A i \in 1..2 : p[i] = << v[i] >>
    <3> DEFINE q == << v[1] >>
    <3>1. \A i \in 1..2 : i = 1 \/ i = 2 OBVIOUS
    <3>2. p[1] = << v[1] >> /\ p[2] = << v[2] >> OBVIOUS
    <3>3. p = [i \in 1..2 |-> p[i]] OBVIOUS
    <3>4. QED BY <3>1, <3>2, <3>3
  <2> HIDE DEF p, x
  <2>4. p \o x = [i \in 1..(2 + 4) |-> IF i <= 2 THEN p[i] ELSE x[i - 2]]
    <3>1. 2 \in Nat /\ 4 \in Nat OBVIOUS
    <3>2. QED BY <2>1, <2>3, <3>1, OptionsJoin
  <2>5. 2 + 4 = 6 OBVIOUS
  <2>6. Options(f, v, t) = [i \in 1..6 |-> IF i <= 2 THEN << v[i] >> ELSE x[i - 2]]
    BY <1>2, <2>2 DEF Options
  <2>7. \A i \in 1..6 : i <= 2 => i \in 1..2 OBVIOUS
  <2>8. \A i \in 1..6 : (IF i <= 2 THEN << v[i] >> ELSE x[i - 2]) =
                            (IF i <= 2 THEN p[i] ELSE x[i - 2])
    BY <2>3, <2>7
  <2>9. QED BY <2>4, <2>5, <2>6, <2>8
<1>13. Decode(f, d, "hex") = Typed(f, decodeErc1155BatchDeposit(d, "hex"))
  BY DepositsAreChosen DEF DecodersOfDeposits
<1>14. QED BY <1>11, <1>12, <1>13 DEF d

\* What a decoder answers with.
Answer(f, v) == << [type |-> f, fields |-> v] >>

LEMMA AllReadFront ==
    ASSUME NEW f \in Formats, NEW v \in FieldsOf(f), InRange(f, v)
    PROVE  ReadsFront(f, v)
<1>1. CASE f \in Announced BY <1>1, AnnouncedReadFront
<1>2. CASE f = "EtherDeposit" BY <1>2, EtherReadsFront
<1>3. CASE f = "Erc20Deposit" BY <1>3, Erc20ReadsFront
<1>4. CASE f = "Erc721Deposit" BY <1>4, Erc721ReadsFront
<1>5. CASE f = "Erc1155SingleDeposit" BY <1>5, Erc1155SingleReadsFront
<1>6. CASE f = "Erc1155BatchDeposit" BY <1>6, Erc1155BatchReadsFront
<1>7. QED BY <1>1, <1>2, <1>3, <1>4, <1>5, <1>6 DEF Formats, Announced, Deposits

LEMMA TypedAnswer == \A f, v : Typed(f, << v >>) = Answer(f, v)
<1>1. \A v : << v >> # Refused /\ << v >>[1] = v BY DEF Refused
<1>2. QED BY <1>1 DEF Typed, Then, Answer

\* A cut behind the first of two parts.
LEMMA CutBehind ==
    ASSUME NEW s \in Seq(Byte), NEW t \in Seq(Byte), NEW k \in 0..Len(t)
    PROVE  /\ SubSeq(s \o t, 1, Len(s) + k) = s \o SubSeq(t, 1, k)
           /\ SubSeq(t, 1, k) \in Seq(Byte) /\ Len(SubSeq(t, 1, k)) = k
<1> DEFINE d == s \o t  m == Len(s)  n == Len(t)  u == SubSeq(t, 1, k)  x == s \o u
<1>1. /\ m \in Nat /\ n \in Nat /\ d \in Seq(Byte) /\ Len(d) = m + n
      /\ \A i \in 1..(m + n) : d[i] = IF i <= m THEN s[i] ELSE t[i - m]
  BY ConcatProperties, LenProperties
<1>2. k \in Nat /\ k <= n BY <1>1
<1>3. u \in Seq(Byte) /\ Len(u) = k BY <1>2, ReadOfPrefix
<1>4. \A i \in 1..k : u[i] = t[i]
  <2>1. \A i \in 1..n : t[i] \in Byte BY ElementOfSeq
  <2>2. \A i \in 1..k : t[i] \in Byte BY <1>1, <1>2, <2>1
  <2>3. /\ SubSeq(t, 1, k) \in Seq(Byte)
        /\ \A i \in 1..(k - 1 + 1) : SubSeq(t, 1, k)[i] = t[1 + i - 1]
    BY <1>2, <2>2, SubSeqProperties
  <2>4. k - 1 + 1 = k /\ \A i \in 1..k : 1 + i - 1 = i BY <1>2
  <2>5. QED BY <2>3, <2>4
<1> HIDE DEF u, m
<1>5. /\ x \in Seq(Byte) /\ Len(x) = m + k
      /\ \A i \in 1..(m + k) : x[i] = IF i <= m THEN s[i] ELSE u[i - m]
  <2>1. /\ s \o u \in Seq(Byte) /\ Len(s \o u) = Len(s) + Len(u)
        /\ \A i \in 1..(Len(s) + Len(u)) : (s \o u)[i] = IF i <= Len(s) THEN s[i] ELSE u[i - Len(s)]
    BY <1>3, ConcatProperties
  <2>2. QED BY <1>3, <2>1 DEF m
<1> HIDE DEF d, x, n
<1>6. m + k \in 0..Len(d) BY <1>1, <1>2
<1> DEFINE y == SubSeq(d, 1, m + k)
<1>7. y \in Seq(Byte) /\ Len(y) = m + k BY <1>1, <1>2, <1>6, ReadOfPrefix
<1>8. \A i \in 1..(m + k) : y[i] = d[i]
  <2> DEFINE j == m + k
  <2>0. j \in Nat /\ j <= Len(d) /\ Len(d) \in Nat BY <1>1, <1>2
  <2> HIDE DEF j
  <2>1. \A i \in 1..Len(d) : d[i] \in Byte BY <1>1, ElementOfSeq
  <2>2. \A i \in 1..j : d[i] \in Byte BY <2>0, <2>1
  <2>3. \A i \in 1..(j - 1 + 1) : SubSeq(d, 1, j)[i] = d[1 + i - 1]
    BY <2>0, <2>2, SubSeqProperties
  <2>4. j - 1 + 1 = j /\ \A i \in 1..j : 1 + i - 1 = i BY <2>0
  <2>5. QED BY <2>3, <2>4 DEF j
<1> HIDE DEF y
<1>9. \A i \in 1..(m + k) : x[i] = y[i]
  <2>1. ASSUME NEW i \in 1..(m + k) PROVE x[i] = y[i]
    <3>1. i \in 1..(m + n) BY <1>1, <1>2
    <3>2. CASE i <= m BY <1>1, <1>5, <1>8, <3>1, <3>2
    <3>3. CASE ~(i <= m)
      <4>1. i - m \in 1..k BY <1>1, <1>2, <3>3
      <4>2. x[i] = u[i - m] BY <1>5, <3>3
      <4>3. y[i] = t[i - m] BY <1>1, <1>8, <3>1, <3>3
      <4>4. QED BY <1>4, <4>1, <4>2, <4>3
    <3>4. QED BY <3>2, <3>3
  <2>2. QED BY <2>1
<1>10. x = y BY <1>5, <1>7, <1>9, SeqEqual
<1>11. QED BY <1>3, <1>10 DEF x, y, d, u, m

(* The part g of what was written of v that is read: whatever follows it,  *)
(* the answer is v; and there is none if any of it is missing.             *)
IsEssence(f, v, g) ==
    /\ g \in Seq(Byte) /\ Fixed(f, v) \o BodyOf(f, v) = g \o Pad(v[Sizes[f]])
    /\ \A rest \in Seq(Byte) :
          Len(g \o rest) <= MaxSafeInteger => Decode(f, g \o rest, "hex") = Answer(f, v)
    /\ \A m \in 0..Len(Fixed(f, v) \o BodyOf(f, v)) :
          m < Len(g) => Decode(f, SubSeq(Fixed(f, v) \o BodyOf(f, v), 1, m), "hex") = Refused

\* What has lost some of its last field.
IsCut(types, fs, n, front, d, m) ==
    /\ n \in Nat \ {0} /\ WellTyped(types, fs, n) /\ types[n] = "bytes"
    /\ IsFront(front, types, fs, n) /\ d = front \o AbiBytes(fs[n])
    /\ Len(d) <= MaxSafeInteger /\ m \in 0..Len(d) /\ m < Len(front) + Word + Len(fs[n])

LEMMA CutIsRefused ==
    ASSUME NEW types, NEW fs, NEW n, NEW front, NEW d, NEW m, IsCut(types, fs, n, front, d, m)
    PROVE  AbiDecode(types, SubSeq(d, 1, m))[n] = Refused
BY CutIsNotRead DEF IsCut

LEMMA EssenceExists ==
    ASSUME NEW f \in Formats \ Reaching, NEW v \in FieldsOf(f), InRange(f, v)
    PROVE  \E g : IsEssence(f, v, g)
<1> DEFINE size == Sizes[f]  k == Lead[f]  n == size - k  types == BodyTypes(f)
           fs == BodyFields(f, v)  last == v[size]  F == Fixed(f, v)  B == BodyOf(f, v)
           w == Uint256(Len(last))  b == w \o last
<1>1. IsWritten(f, v) /\ HasRoom(f, v) /\ HasBody(f, v) /\ ReadsFront(f, v)
  BY AllAreWritten, AllReadFront
<1>2. /\ n \in Nat \ {0} /\ types[n] = "bytes" /\ WellTyped(types, fs, n)
      /\ \A i \in 1..n : fs[i] = v[k + i]
  BY <1>1 DEF HasBody
<1>3. /\ F \in Seq(Byte) /\ Len(F) = FrontSize(f) /\ B \in Seq(Byte) BY <1>1 DEF IsWritten
<1>4. B = AbiEncode(types, fs) BY DEF BodyOf
<1>5. k \in Nat /\ size \in Nat /\ k + n = size /\ v = [i \in 1..size |-> v[i]]
  <2>1. k \in Nat BY DEF Lead, Formats, Outputs, Deposits
  <2>2. size \in Nat \ {0} /\ v = [i \in 1..size |-> v[i]] BY TupleOfFields
  <2> HIDE DEF k, size
  <2>3. k + (size - k) = size BY <2>1, <2>2
  <2>4. QED BY <2>1, <2>2, <2>3
<1>6. fs[n] = last
  <2>1. n \in 1..n BY <1>2
  <2> HIDE DEF n
  <2>2. fs[n] = v[k + n] BY <1>2, <2>1
  <2>3. QED BY <1>5, <2>2
<1>7. TailOptions(f, B) = AbiDecode(types, B)
      /\ \A t : TailOptions(f, t) = AbiDecode(types, t)
  BY DEF TailOptions
<1>8. Len(F) + Len(B) <= MaxSafeInteger
  <2> DEFINE none == << >>
  <2>1. none \in Junk \cup {<< >>} /\ Len(none) = 0 BY EmptySeq
  <2> HIDE DEF none
  <2>2. Len(F) + Len(B) + Len(none) <= MaxSafeInteger BY <1>1, <2>1 DEF HasRoom
  <2>3. Len(F) \in Nat /\ Len(B) \in Nat BY <1>3, LenProperties
  <2> HIDE DEF F, B
  <2>4. QED BY <2>1, <2>2, <2>3, SizesAssumption
<1>9. \A t : Options(f, v, t) =
                [i \in 1..size |-> IF i <= k THEN << v[i] >> ELSE AbiDecode(types, t)[i - k]]
  BY <1>7 DEF Options
<1>10. ReadsFront(f, v) BY <1>1
<1>105. \A t \in Seq(Byte) : Decode(f, F \o t, "hex") = Typed(f, All(Options(f, v, t)))
  BY <1>10 DEF ReadsFront
<1>11. last \in Seq(Byte) /\ types[n] = "bytes"
  <2>1. WrittenAs(types[n], fs[n])
    <3>1. n \in 1..n BY <1>2
    <3>2. QED BY <1>2, <3>1 DEF WellTyped
  <2>2. QED BY <1>2, <1>6, <2>1 DEF WrittenAs
<1> HIDE DEF size, k, n, types, fs, last, F, B
<1>12. /\ w \in Seq(Byte) /\ Len(w) = Word /\ Len(last) \in Nat /\ Pad(last) \in Seq(Byte)
       /\ AbiBytes(last) = b \o Pad(last)
  BY <1>11, AbiBytesIs
<1>13. b \in Seq(Byte) /\ Len(b) = Word + Len(last) BY <1>11, <1>12, BytesConcat
<1>14. PICK front : IsFront(front, types, fs, n) /\ AbiEncode(types, fs) = front \o Tails(types, fs)[n]
  BY <1>2, EncodedAs
<1>15. Tails(types, fs)[n] = AbiBytes(last)
  <2>1. n \in 1..n /\ DOMAIN types = 1..n BY <1>2, TailsAre
  <2>2. QED BY <1>6, <1>11, <2>1 DEF Tails
<1>16. front \in Seq(Byte) BY <1>14 DEF IsFront
<1> HIDE DEF b
<1> DEFINE x == front \o b  g == F \o x
<1>17. x \in Seq(Byte) /\ Len(x) = Len(front) + Len(b) BY <1>13, <1>16, BytesConcat
<1>18. B = x \o Pad(last)
  <2>1. B = front \o (b \o Pad(last)) BY <1>4, <1>12, <1>14, <1>15
  <2>2. QED BY <1>12, <1>13, <1>16, <2>1, BytesAssociative
<1> HIDE DEF x
<1>19. g \in Seq(Byte) /\ Len(g) = Len(F) + Len(x) BY <1>3, <1>17, BytesConcat
<1>20. F \o B = g \o Pad(last)
  <2>1. (F \o x) \o Pad(last) = F \o (x \o Pad(last)) BY <1>3, <1>12, <1>17, BytesAssociative
  <2>2. QED BY <1>18, <2>1
<1>21. ASSUME NEW rest \in Seq(Byte), Len(g \o rest) <= MaxSafeInteger
       PROVE  Decode(f, g \o rest, "hex") = Answer(f, v)
  <2> DEFINE t == x \o rest
  <2>1. t \in Seq(Byte) BY <1>17, BytesConcat
  <2>2. g \o rest = F \o t BY <1>3, <1>17, BytesAssociative
  <2>3. Len(t) <= MaxSafeInteger
    <3>1. Len(F \o t) = Len(F) + Len(t) BY <1>3, <2>1, BytesConcat
    <3>2. Len(F) \in Nat /\ Len(t) \in Nat BY <1>3, <2>1, LenProperties
    <3> HIDE DEF t, g
    <3>3. Len(F) + Len(t) <= MaxSafeInteger BY <1>21, <2>2, <3>1
    <3> DEFINE p == Len(F)  q == Len(t)
    <3> HIDE DEF p, q
    <3>4. p \in Nat /\ q \in Nat /\ p + q <= MaxSafeInteger BY <3>2, <3>3 DEF p, q
    <3>5. q <= MaxSafeInteger BY <3>4, SizesAssumption
    <3>6. QED BY <3>5 DEF q
  <2>4. t = (front \o (Uint256(Len(fs[n])) \o fs[n])) \o rest BY <1>6 DEF x, b, w
  <2> HIDE DEF t
  <2>5. AbiDecode(types, t) = [i \in 1..n |-> << fs[i] >>]
    <3>1. IsWhole(types, fs, n, front, rest, t) BY <1>2, <1>14, <2>1, <2>3, <2>4 DEF IsWhole
    <3>2. QED BY <3>1, ReadsBack
  <2> DEFINE o == Options(f, v, t)  a == AbiDecode(types, t)
  <2>6. o = [i \in 1..size |-> IF i <= k THEN << v[i] >> ELSE a[i - k]] BY <1>9
  <2> HIDE DEF o, a
  <2>7. \A i \in 1..size : o[i] = << v[i] >>
    <3>1. ASSUME NEW i \in 1..size, ~(i <= k) PROVE o[i] = << v[i] >>
      <4>1. i - k \in 1..n /\ k + (i - k) = i BY <1>2, <1>5, <3>1
      <4>2. a[i - k] = << fs[i - k] >> BY <2>5, <4>1 DEF a
      <4>3. fs[i - k] = v[k + (i - k)] BY <1>2, <4>1
      <4>4. QED BY <2>6, <3>1, <4>1, <4>2, <4>3
    <3>2. QED BY <2>6, <3>1
  <2>8. DOMAIN o = 1..size BY <2>6
  <2>9. All(o) = << v >> BY <1>5, <2>7, <2>8, AllGiven
  <2>10. Decode(f, F \o t, "hex") = Typed(f, << v >>) BY <1>105, <2>1, <2>9 DEF o, t
  <2>11. QED BY <2>2, <2>10, TypedAnswer DEF t
<1>22. ASSUME NEW m \in 0..Len(F \o B), m < Len(g)
       PROVE  Decode(f, SubSeq(F \o B, 1, m), "hex") = Refused
  <2> DEFINE d == F \o B
  <2>1. d \in Seq(Byte) /\ Len(d) = Len(F) + Len(B) /\ Len(F) \in Nat /\ Len(B) \in Nat
    BY <1>3, BytesConcat, LenProperties
  <2> HIDE DEF d, g
  <2>2. CASE m < Len(F)
    <3>1. SubSeq(d, 1, m) \in Seq(Byte) /\ Len(SubSeq(d, 1, m)) = m
      BY <1>22, <2>1, ReadOfPrefix DEF d
    <3>2. QED BY <1>3, <2>2, <3>1, ShorterThanFront DEF d
  <2>3. CASE ~(m < Len(F))
    <3> DEFINE j == m - Len(F)
    <3>1. /\ m \in Nat /\ m <= Len(F) + Len(B) BY <1>22, <2>1 DEF d
    <3>2. j \in 0..Len(B) /\ Len(F) + j = m BY <2>1, <2>3, <3>1
    <3>3. j < Len(front) + Word + Len(last)
      <4> DEFINE p == Len(F)  q == Len(front)  z == Len(last)
      <4>1. p \in Nat /\ q \in Nat /\ z \in Nat /\ Word \in Nat
        BY <1>12, <1>16, <2>1, LenProperties, SizesAssumption
      <4>2. m < p + (q + (Word + z)) BY <1>13, <1>17, <1>19, <1>22 DEF g
      <4>3. j = m - p OBVIOUS
      <4> HIDE DEF p, q, z, j
      <4>4. j < q + Word + z BY <3>1, <4>1, <4>2, <4>3
      <4>5. QED BY <4>4 DEF q, z
    <3> HIDE DEF j
    <3> DEFINE t == SubSeq(B, 1, j)
    <3>4. SubSeq(F \o B, 1, Len(F) + j) = F \o t /\ t \in Seq(Byte)
      BY <1>3, <3>2, CutBehind
    <3>5. B = front \o AbiBytes(fs[n]) BY <1>4, <1>6, <1>14, <1>15
    <3>6. Len(B) <= MaxSafeInteger
      <4> DEFINE p == Len(F)  q == Len(B)
      <4>1. p \in Nat /\ q \in Nat /\ p + q <= MaxSafeInteger BY <1>8, <2>1
      <4> HIDE DEF p, q
      <4>2. q <= MaxSafeInteger BY <4>1, SizesAssumption
      <4>3. QED BY <4>2 DEF q
    <3>7. AbiDecode(types, t)[n] = Refused
      <4>1. IsCut(types, fs, n, front, B, j)
        BY <1>2, <1>6, <1>14, <3>2, <3>3, <3>5, <3>6 DEF IsCut
      <4>2. QED BY <4>1, CutIsRefused
    <3> HIDE DEF t
    <3> DEFINE o == Options(f, v, t)  a == AbiDecode(types, t)
    <3>8. o = [i \in 1..size |-> IF i <= k THEN << v[i] >> ELSE a[i - k]] BY <1>9
    <3> HIDE DEF o, a
    <3>9. size \in 1..size /\ ~(size <= k) /\ size - k = n BY <1>2, <1>5
    <3>10. o[size] = Refused /\ size \in DOMAIN o BY <3>7, <3>8, <3>9 DEF a
    <3>11. All(o) = Refused BY <3>10, AllRefused
    <3>12. Decode(f, F \o t, "hex") = Typed(f, Refused) BY <1>105, <3>4, <3>11 DEF o, t
    <3>13. QED BY <3>2, <3>4, <3>12, TypedRefused
  <2>4. QED BY <2>2, <2>3
<1>23. IsEssence(f, v, g) BY <1>19, <1>20, <1>21, <1>22 DEF IsEssence, last, size, F, B
<1>24. QED BY <1>23

\* A value with something else for its last field.
WithLast(v, t) == [v EXCEPT ![Len(v)] = t]

LEMMA ReachingDecodes ==
    ASSUME NEW f \in Reaching, NEW v \in FieldsOf(f), InRange(f, v), NEW t \in Seq(Byte)
    PROVE  Decode(f, Fixed(f, v) \o t, "hex") = Answer(f, WithLast(v, t))
<1> DEFINE n == Sizes[f]  k == Lead[f]  o == Options(f, v, t)  u == WithLast(v, t)
<1>0. f \in Formats BY DEF Reaching, Formats, Deposits
<1>1. n \in Nat \ {0} /\ v = [i \in 1..n |-> v[i]] /\ Len(v) = n BY <1>0, TupleOfFields
<1>2. k \in Nat /\ k + 1 = n BY DEF Reaching, Lead, Sizes
<1>3. TailOptions(f, t) = << << t >> >> BY DEF TailOptions
<1>4. << << t >> >>[1] = << t >> OBVIOUS
<1>5. o = [i \in 1..n |-> IF i <= k THEN << v[i] >> ELSE TailOptions(f, t)[i - k]]
  BY DEF Options
<1>6. Decode(f, Fixed(f, v) \o t, "hex") = Typed(f, All(o)) BY <1>0, AllReadFront DEF ReadsFront
<1> HIDE DEF n, k, o
<1>7. u = [i \in 1..n |-> IF i = n THEN t ELSE v[i]]
  <2>1. DOMAIN v = 1..n BY <1>1
  <2>2. u = [i \in DOMAIN v |-> IF i = n THEN t ELSE v[i]] BY <1>1 DEF WithLast
  <2>3. QED BY <2>1, <2>2
<1> HIDE DEF u
<1>8. \A i \in 1..n : o[i] = << u[i] >>
  <2>1. ASSUME NEW i \in 1..n PROVE o[i] = << u[i] >>
    <3>1. CASE i = n
      <4>1. ~(i <= k) /\ i - k = 1 BY <1>2, <3>1
      <4>2. QED BY <1>3, <1>4, <1>5, <1>7, <3>1, <4>1
    <3>2. CASE i # n
      <4>1. i <= k BY <1>1, <1>2, <3>2
      <4>2. QED BY <1>5, <1>7, <3>2, <4>1
    <3>3. QED BY <3>1, <3>2
  <2>2. QED BY <2>1
<1>9. DOMAIN o = 1..n /\ u = [i \in 1..n |-> u[i]] BY <1>5, <1>7
<1>10. All(o) = << u >>
  <2>1. n \in Nat BY <1>1
  <2>2. QED BY ONLY <1>8, <1>9, <2>1, AllGiven
<1>11. QED BY <1>6, <1>10, TypedAnswer DEF u

\* What was written, as one sequence.
Sent(f, v) == Fixed(f, v) \o BodyOf(f, v)

LEMMA SentIs ==
    ASSUME NEW f \in Formats, NEW v \in FieldsOf(f), InRange(f, v)
    PROVE  /\ \A r \in Representations : Encode(f, v, r) = << Sent(f, v) >>
           /\ Sent(f, v) \in Seq(Byte)
           /\ \A junk \in Junk \cup {<< >>} :
                 /\ junk \in Seq(Byte) /\ Sent(f, v) \o junk \in Seq(Byte)
                 /\ Len(Sent(f, v) \o junk) <= MaxSafeInteger
           /\ Len(Sent(f, v)) <= MaxSafeInteger
           /\ v[Len(v)] = v[Sizes[f]] /\ v[Sizes[f]] \in Seq(Byte)
<1> DEFINE F == Fixed(f, v)  B == BodyOf(f, v)  d == Sent(f, v)
<1>1. IsWritten(f, v) /\ HasRoom(f, v) BY AllAreWritten
<1>2. F \in Seq(Byte) /\ B \in Seq(Byte) BY <1>1 DEF IsWritten
<1>3. \A r \in Representations : Encode(f, v, r) = << d >> BY <1>1 DEF IsWritten, Sent
<1>4. \A junk \in Junk \cup {<< >>} : Len(F) + Len(B) + Len(junk) <= MaxSafeInteger
  BY <1>1 DEF HasRoom
<1>5. d = F \o B BY DEF Sent
<1> HIDE DEF F, B, d
<1>6. d \in Seq(Byte) /\ Len(d) = Len(F) + Len(B) /\ Len(d) \in Nat
  BY <1>2, <1>5, BytesConcat, LenProperties
<1>7. ASSUME NEW junk \in Junk \cup {<< >>}
      PROVE  junk \in Seq(Byte) /\ d \o junk \in Seq(Byte) /\ Len(d \o junk) <= MaxSafeInteger
  <2>1. junk \in Seq(Byte)
    <3>1. CASE junk = << >> BY <3>1
    <3>2. CASE junk \in Junk BY <3>2, DataAssumption DEF Byte
    <3>3. QED BY <3>1, <3>2
  <2>2. d \o junk \in Seq(Byte) /\ Len(d \o junk) = Len(d) + Len(junk)
    BY <1>6, <2>1, BytesConcat
  <2>3. Len(F) + Len(B) + Len(junk) <= MaxSafeInteger BY <1>4
  <2>4. QED BY <1>6, <2>1, <2>2, <2>3
<1>8. Len(d) <= MaxSafeInteger
  <2> DEFINE none == << >>
  <2>1. none \in Junk \cup {<< >>} /\ Len(none) = 0 BY EmptySeq
  <2> HIDE DEF none
  <2>2. Len(F) + Len(B) + Len(none) <= MaxSafeInteger BY <1>4, <2>1
  <2>3. Len(F) \in Nat /\ Len(B) \in Nat BY <1>2, LenProperties
  <2>4. QED BY <1>6, <2>1, <2>2, <2>3, SizesAssumption
<1>9. v[Len(v)] = v[Sizes[f]] /\ v[Sizes[f]] \in Seq(Byte)
  <2> DEFINE n == Sizes[f]
  <2>1. /\ n \in Nat \ {0} /\ Len(v) = n /\ FieldTypes(f)[n] = "bytes"
        /\ \A i \in 1..n : v[i] \in ValuesOf(FieldTypes(f)[i])
    BY TupleOfFields
  <2>2. n \in 1..n BY <2>1
  <2>3. v[n] \in ByteStrings BY <2>1, <2>2 DEF ValuesOf
  <2>4. QED BY <2>1, <2>3, DataAssumption DEF Byte
<1>10. QED BY <1>3, <1>6, <1>7, <1>8, <1>9 DEF d

(* What becomes of all of it with something behind.                        *)
LEMMA ExtendedAnswer ==
    ASSUME NEW f \in Formats, NEW v \in FieldsOf(f), InRange(f, v), NEW junk \in Junk \cup {<< >>}
    PROVE  Decode(f, Sent(f, v) \o junk, "hex") =
               IF f \in Reaching THEN Answer(f, WithLast(v, v[Len(v)] \o junk)) ELSE Answer(f, v)
<1> DEFINE F == Fixed(f, v)  B == BodyOf(f, v)  last == v[Sizes[f]]
<1>1. F \in Seq(Byte) /\ B \in Seq(Byte) BY AllAreWritten DEF IsWritten
<1>2. /\ junk \in Seq(Byte) /\ last \in Seq(Byte) /\ last = v[Len(v)]
      /\ Len(Sent(f, v) \o junk) <= MaxSafeInteger
  BY SentIs
<1>3. CASE f \in Reaching
  <2>1. B = last BY <1>3 DEF BodyOf
  <2> HIDE DEF F, last, B
  <2>2. last \o junk \in Seq(Byte) BY <1>2, BytesConcat
  <2>3. Sent(f, v) \o junk = F \o (last \o junk)
    <3>1. (F \o last) \o junk = F \o (last \o junk) BY <1>1, <1>2, BytesAssociative
    <3>2. QED BY <2>1, <3>1 DEF Sent, F, B
  <2>4. Decode(f, F \o (last \o junk), "hex") = Answer(f, WithLast(v, last \o junk))
    BY <1>3, <2>2, ReachingDecodes DEF F
  <2>5. QED BY <1>2, <1>3, <2>3, <2>4
<1>4. CASE f \notin Reaching
  <2>1. PICK g : IsEssence(f, v, g) BY <1>4, EssenceExists
  <2>2. /\ g \in Seq(Byte) /\ Sent(f, v) = g \o Pad(last)
        /\ \A rest \in Seq(Byte) :
              Len(g \o rest) <= MaxSafeInteger => Decode(f, g \o rest, "hex") = Answer(f, v)
    BY <2>1 DEF IsEssence, Sent
  <2> HIDE DEF last
  <2>3. Pad(last) \in Seq(Byte) BY <1>2, AbiBytesIs
  <2>4. Pad(last) \o junk \in Seq(Byte) BY <1>2, <2>3, BytesConcat
  <2>5. Sent(f, v) \o junk = g \o (Pad(last) \o junk)
    <3>1. (g \o Pad(last)) \o junk = g \o (Pad(last) \o junk)
      BY <1>2, <2>2, <2>3, BytesAssociative
    <3>2. QED BY <2>2, <3>1
  <2>6. QED BY <1>2, <1>4, <2>2, <2>4, <2>5
<1>5. QED BY <1>3, <1>4

(* What becomes of all of it but the last bytes.                           *)
LEMMA CutAnswer ==
    ASSUME NEW f \in Formats, NEW v \in FieldsOf(f), InRange(f, v), NEW n \in 1..Len(Sent(f, v))
    PROVE  /\ SubSeq(Sent(f, v), 1, Len(Sent(f, v)) - n) \in Seq(Byte)
           /\ Len(SubSeq(Sent(f, v), 1, Len(Sent(f, v)) - n)) <= MaxSafeInteger
           /\ Decode(f, SubSeq(Sent(f, v), 1, Len(Sent(f, v)) - n), "hex") =
                 IF f \in Reaching
                 THEN IF n > Len(v[Len(v)]) THEN Refused
                      ELSE Answer(f, WithLast(v, SubSeq(v[Len(v)], 1, Len(v[Len(v)]) - n)))
                 ELSE IF n > Len(Pad(v[Len(v)])) THEN Refused ELSE Answer(f, v)
<1> DEFINE F == Fixed(f, v)  B == BodyOf(f, v)  last == v[Len(v)]  e == Sent(f, v)
           m == Len(e) - n  s == SubSeq(e, 1, m)
<1>1. F \in Seq(Byte) /\ Len(F) = FrontSize(f) /\ B \in Seq(Byte) BY AllAreWritten DEF IsWritten
<1>2. /\ last \in Seq(Byte) /\ last = v[Sizes[f]] /\ e \in Seq(Byte) /\ Len(e) <= MaxSafeInteger
  BY SentIs
<1>3. e = F \o B BY DEF Sent
<1>4. /\ Len(e) \in Nat /\ Len(F) \in Nat /\ Len(B) \in Nat /\ Len(last) \in Nat
      /\ n \in Nat /\ n >= 1 /\ n <= Len(e)
  BY <1>1, <1>2, LenProperties
<1> HIDE DEF F, B, last, e
<1>5. Len(e) = Len(F) + Len(B) BY <1>1, <1>3, BytesConcat
<1>6. m \in 0..Len(e) /\ m \in Nat /\ m + n = Len(e) BY <1>4
<1> HIDE DEF m
<1>7. s \in Seq(Byte) /\ Len(s) = m BY <1>2, <1>6, ReadOfPrefix
<1>8. Len(s) <= MaxSafeInteger BY <1>2, <1>4, <1>6, <1>7, SizesAssumption
<1>9. ASSUME f \in Reaching
      PROVE  Decode(f, s, "hex") =
                IF n > Len(last) THEN Refused
                ELSE Answer(f, WithLast(v, SubSeq(last, 1, Len(last) - n)))
  <2>1. B = last BY <1>2, <1>9 DEF B, BodyOf
  <2>2. CASE n > Len(last)
    <3>1. m < Len(F) BY <1>4, <1>5, <1>6, <2>1, <2>2
    <3> HIDE DEF s
    <3>2. Decode(f, s, "hex") = Refused BY <1>1, <1>7, <3>1, ShorterThanFront
    <3>3. QED BY <2>2, <3>2
  <2>3. CASE ~(n > Len(last))
    <3> DEFINE j == Len(last) - n
    <3>1. j \in 0..Len(last) /\ Len(F) + j = m BY <1>4, <1>5, <1>6, <2>1, <2>3
    <3> HIDE DEF j
    <3>2. /\ SubSeq(F \o last, 1, Len(F) + j) = F \o SubSeq(last, 1, j)
          /\ SubSeq(last, 1, j) \in Seq(Byte)
      BY <1>1, <1>2, <3>1, CutBehind
    <3>3. s = F \o SubSeq(last, 1, j) BY <1>3, <2>1, <3>1, <3>2
    <3>4. Decode(f, F \o SubSeq(last, 1, j), "hex") = Answer(f, WithLast(v, SubSeq(last, 1, j)))
      BY <1>9, <3>2, ReachingDecodes DEF F
    <3>5. QED BY <2>3, <3>3, <3>4 DEF j
  <2>4. QED BY <2>2, <2>3
<1>10. ASSUME f \notin Reaching
       PROVE  Decode(f, s, "hex") = IF n > Len(Pad(last)) THEN Refused ELSE Answer(f, v)
  <2>1. PICK g : IsEssence(f, v, g) BY <1>10, EssenceExists
  <2>2. /\ g \in Seq(Byte) /\ e = g \o Pad(last)
        /\ \A rest \in Seq(Byte) :
              Len(g \o rest) <= MaxSafeInteger => Decode(f, g \o rest, "hex") = Answer(f, v)
        /\ \A i \in 0..Len(e) : i < Len(g) => Decode(f, SubSeq(e, 1, i), "hex") = Refused
    BY <1>2, <2>1 DEF IsEssence, Sent, e
  <2>3. Pad(last) \in Seq(Byte) BY <1>2, AbiBytesIs
  <2> DEFINE p == Pad(last)
  <2>4. /\ p \in Seq(Byte) /\ Len(p) \in Nat /\ Len(g) \in Nat /\ Len(e) = Len(g) + Len(p)
        /\ e = g \o p
    <3>1. p \in Seq(Byte) /\ e = g \o p BY <2>2, <2>3
    <3> HIDE DEF p
    <3>2. QED BY <2>2, <3>1, BytesConcat, LenProperties
  <2> HIDE DEF p
  <2>5. CASE n > Len(p)
    <3>1. m < Len(g) BY <1>4, <1>6, <2>4, <2>5
    <3>2. Decode(f, s, "hex") = Refused BY <1>6, <2>2, <3>1
    <3>3. QED BY <2>5, <3>2 DEF p
  <2>6. CASE ~(n > Len(p))
    <3> DEFINE j == Len(p) - n
    <3>1. j \in 0..Len(p) /\ Len(g) + j = m
      <4> DEFINE x == Len(p)  y == Len(g)  z == Len(e)
      <4>1. x \in Nat /\ y \in Nat /\ z = y + x /\ m + n = z /\ ~(n > x) /\ n \in Nat /\ m \in Nat
        BY <1>4, <1>6, <2>4, <2>6
      <4>2. j = x - n OBVIOUS
      <4> HIDE DEF x, y, z, j
      <4>3. j \in 0..x /\ y + j = m BY <4>1, <4>2
      <4>4. QED BY <4>3 DEF x, y
    <3> HIDE DEF j
    <3>2. SubSeq(g \o p, 1, Len(g) + j) = g \o SubSeq(p, 1, j) /\ SubSeq(p, 1, j) \in Seq(Byte)
      BY <2>2, <2>4, <3>1, CutBehind
    <3>3. s = g \o SubSeq(p, 1, j) BY <2>4, <3>1, <3>2
    <3> HIDE DEF s
    <3>4. Len(g \o SubSeq(p, 1, j)) <= MaxSafeInteger BY <1>8, <3>3
    <3>5. Decode(f, s, "hex") = Answer(f, v) BY <2>2, <3>2, <3>3, <3>4
    <3>6. QED BY <2>6, <3>5 DEF p
  <2>7. QED BY <2>5, <2>6
<1>11. QED BY <1>7, <1>8, <1>9, <1>10 DEF s, m, e, last

-----------------------------------------------------------------------------
(* The states of CodecData.                                                *)

(* What arrives is what was sent, cut short or with bytes behind it; what  *)
(* does not fit is not sent.                                               *)
CutShort ==
    /\ lost \in 1..Len(Sent(format, fields)) /\ added = << >>
    /\ data = << SubSeq(Sent(format, fields), 1, Len(Sent(format, fields)) - lost) >>
Continued ==
    /\ lost = 0 /\ added \in Junk \cup {<< >>}
    /\ data = << Sent(format, fields) \o added >>
NotSent == data = Refused /\ lost = 0 /\ added = << >>
Arrives ==
    /\ format \in Formats
    /\ fields \in FieldsOf(format)
    /\ IF InRange(format, fields) THEN CutShort \/ Continued ELSE NotSent

LEMMA NothingBehind ==
    ASSUME NEW s \in Seq(Byte)
    PROVE  s \o << >> = s
BY ConcatEmptySeq

LEMMA InitArrives == Init => Arrives
<1> SUFFICES ASSUME Init PROVE Arrives OBVIOUS
<1>1. /\ format \in Formats /\ fields \in FieldsOf(format) /\ lost = 0 /\ added = << >>
      /\ data = Encode(format, fields, "bytes")
  BY DEF Init
<1>2. CASE InRange(format, fields)
  <2>1. data = << Sent(format, fields) >> /\ Sent(format, fields) \in Seq(Byte)
    BY <1>1, <1>2, SentIs DEF Representations
  <2>2. Sent(format, fields) \o << >> = Sent(format, fields) BY <2>1, NothingBehind
  <2>3. Continued BY <1>1, <2>1, <2>2 DEF Continued
  <2>4. QED BY <1>1, <1>2, <2>3 DEF Arrives
<1>3. CASE ~InRange(format, fields)
  <2>1. data = Refused BY <1>1, <1>3 DEF Encode
  <2>2. QED BY <1>1, <1>3, <2>1 DEF Arrives, NotSent
<1>4. QED BY <1>2, <1>3

(* Only what is as it was sent is damaged.                                 *)
LEMMA IntactIsSent ==
    ASSUME Arrives, Intact
    PROVE  /\ InRange(format, fields) /\ data = << Sent(format, fields) >>
           /\ Sent(format, fields) \in Seq(Byte)
<1>1. format \in Formats /\ fields \in FieldsOf(format) BY DEF Arrives
<1>2. data # Refused /\ lost = 0 /\ added = << >> BY DEF Intact
<1>3. InRange(format, fields) /\ (CutShort \/ Continued) BY <1>2 DEF Arrives, NotSent
<1>4. Sent(format, fields) \in Seq(Byte) BY <1>1, <1>3, SentIs
<1>5. ~CutShort
  <2>1. 0 \notin 1..Len(Sent(format, fields)) BY <1>4, LenProperties
  <2>2. QED BY <1>2, <2>1 DEF CutShort
<1>6. data = << Sent(format, fields) \o << >> >> BY <1>2, <1>3, <1>5 DEF Continued
<1>7. QED BY <1>3, <1>4, <1>6, NothingBehind

LEMMA NextArrives == Arrives /\ [Next]_vars => Arrives'
<1> SUFFICES ASSUME Arrives, [Next]_vars PROVE Arrives' OBVIOUS
<1>1. CASE Cut
  <2>1. Intact /\ UNCHANGED <<format, fields, added>> BY <1>1 DEF Cut
  <2>2. InRange(format, fields) /\ data = << Sent(format, fields) >> BY <2>1, IntactIsSent
  <2>3. PICK n \in DOMAIN data[1] :
           data' = << SubSeq(data[1], 1, Len(data[1]) - n) >> /\ lost' = n
    BY <1>1 DEF Cut
  <2>4. data[1] = Sent(format, fields) /\ Sent(format, fields) \in Seq(Byte)
    BY <2>1, <2>2, IntactIsSent
  <2>5. DOMAIN data[1] = 1..Len(Sent(format, fields)) BY <2>4, LenProperties
  <2>6. CutShort' BY <2>1, <2>3, <2>4, <2>5 DEF CutShort, Intact
  <2>7. InRange(format, fields)' BY <2>1, <2>2
  <2>8. QED BY <2>1, <2>6, <2>7 DEF Arrives
<1>2. CASE Extend
  <2>1. Intact /\ UNCHANGED <<format, fields, lost>> BY <1>2 DEF Extend
  <2>2. InRange(format, fields) /\ data[1] = Sent(format, fields) BY <2>1, IntactIsSent
  <2>3. PICK junk \in Junk : data' = << data[1] \o junk >> /\ added' = junk
    BY <1>2 DEF Extend
  <2>4. Continued' BY <2>1, <2>2, <2>3 DEF Continued, Intact
  <2>5. InRange(format, fields)' BY <2>1, <2>2
  <2>6. QED BY <2>1, <2>4, <2>5 DEF Arrives
<1>3. CASE UNCHANGED vars
  BY <1>3 DEF vars, Arrives, CutShort, Continued, NotSent
<1>4. QED BY <1>1, <1>2, <1>3 DEF Next

LEMMA AlwaysArrives == Spec => []Arrives
BY InitArrives, NextArrives, PTL DEF Spec

(* What is decoded of it, and that both implementations decode it.         *)
LEMMA ContinuedIs ==
    ASSUME Arrives, InRange(format, fields), Continued
    PROVE  /\ data # Refused /\ data[1] \in Seq(Byte) /\ Len(data[1]) <= MaxSafeInteger
           /\ added \in Seq(Byte) /\ LastField \in Seq(Byte)
           /\ Decode(format, data[1], "hex") =
                 IF format \in Reaching
                 THEN Answer(format, WithLast(fields, LastField \o added))
                 ELSE Answer(format, fields)
<1>1. format \in Formats /\ fields \in FieldsOf(format) BY DEF Arrives
<1>2. added \in Junk \cup {<< >>} /\ data = << Sent(format, fields) \o added >> BY DEF Continued
<1>3. data # Refused /\ data[1] = Sent(format, fields) \o added BY <1>2 DEF Refused
<1>4. /\ added \in Seq(Byte) /\ Sent(format, fields) \o added \in Seq(Byte)
      /\ Len(Sent(format, fields) \o added) <= MaxSafeInteger /\ LastField \in Seq(Byte)
  BY <1>1, <1>2, SentIs DEF LastField
<1>5. Decode(format, Sent(format, fields) \o added, "hex") =
         IF format \in Reaching
         THEN Answer(format, WithLast(fields, LastField \o added))
         ELSE Answer(format, fields)
  BY <1>1, <1>2, ExtendedAnswer DEF LastField
<1>6. QED BY <1>3, <1>4, <1>5

LEMMA CutShortIs ==
    ASSUME Arrives, InRange(format, fields), CutShort
    PROVE  /\ data # Refused /\ data[1] \in Seq(Byte) /\ Len(data[1]) <= MaxSafeInteger
           /\ LastField \in Seq(Byte) /\ lost \in Nat \ {0} /\ added = << >>
           /\ Decode(format, data[1], "hex") =
                 IF format \in Reaching
                 THEN IF lost > Len(LastField) THEN Refused
                      ELSE Answer(format, WithLast(fields, SubSeq(LastField, 1, Len(LastField) - lost)))
                 ELSE IF lost > Len(Pad(LastField)) THEN Refused ELSE Answer(format, fields)
<1> DEFINE s == SubSeq(Sent(format, fields), 1, Len(Sent(format, fields)) - lost)
<1>1. format \in Formats /\ fields \in FieldsOf(format) BY DEF Arrives
<1>2. lost \in 1..Len(Sent(format, fields)) /\ added = << >> /\ data = << s >> BY DEF CutShort
<1>3. /\ s \in Seq(Byte) /\ Len(s) <= MaxSafeInteger
      /\ Decode(format, s, "hex") =
            IF format \in Reaching
            THEN IF lost > Len(LastField) THEN Refused
                 ELSE Answer(format, WithLast(fields, SubSeq(LastField, 1, Len(LastField) - lost)))
            ELSE IF lost > Len(Pad(LastField)) THEN Refused ELSE Answer(format, fields)
  BY <1>1, <1>2, CutAnswer DEF LastField
<1>4. LastField \in Seq(Byte) /\ Sent(format, fields) \in Seq(Byte) BY <1>1, SentIs DEF LastField
<1>5. lost \in Nat \ {0} BY <1>2, <1>4, LenProperties
<1> HIDE DEF s
<1>6. data # Refused /\ data[1] = s BY <1>2 DEF Refused
<1>7. QED BY <1>2, <1>3, <1>4, <1>5, <1>6

LEMMA ArrivesIsDecoded ==
    ASSUME Arrives, data # Refused
    PROVE  /\ InRange(format, fields)
           /\ Decode(format, data[1], "hex") = Decode(format, data[1], "bytes")
<1>1. format \in Formats BY DEF Arrives
<1>2. InRange(format, fields) /\ (CutShort \/ Continued) BY DEF Arrives, NotSent
<1>3. data[1] \in Seq(Byte) /\ Len(data[1]) <= MaxSafeInteger
  BY <1>2, CutShortIs, ContinuedIs
<1>4. QED BY <1>1, <1>2, <1>3, DecodersAgree

(* Fields with the last one put in its own place are the same.             *)
LEMMA SameLast ==
    ASSUME NEW f \in Formats, NEW v \in FieldsOf(f)
    PROVE  WithLast(v, v[Len(v)]) = v
<1>1. v = [i \in 1..Sizes[f] |-> v[i]] BY TupleOfFields
<1> DEFINE n == Sizes[f]
<1> HIDE DEF n
<1>2. v = [i \in 1..n |-> v[i]] BY <1>1 DEF n
<1>3. QED BY <1>2 DEF WithLast

(* Theorem: whatever the sizes of words and addresses, the selectors, and  *)
(* the values given to the encoders, decoding the encoding gives back the  *)
(* value under its own type, in either representation, and the encoder     *)
(* refuses exactly what does not fit.                                      *)
THEOREM RoundTrips == Spec => []RoundTrip
<1>1. Arrives => RoundTrip
  <2> SUFFICES ASSUME Arrives PROVE RoundTrip OBVIOUS
  <2>1. data = Refused <=> ~InRange(format, fields)
    BY CutShortIs, ContinuedIs DEF Arrives, NotSent
  <2>2. ASSUME Intact, NEW r \in Representations PROVE Decode(format, data[1], r) = Value
    <3>1. format \in Formats /\ fields \in FieldsOf(format) BY DEF Arrives
    <3>2. InRange(format, fields) /\ data = << Sent(format, fields) >>
          /\ Sent(format, fields) \in Seq(Byte)
      BY <2>2, IntactIsSent
    <3>3. lost = 0 /\ added = << >> /\ data # Refused BY <2>2 DEF Intact
    <3>4. Continued BY <3>2, <3>3, NothingBehind DEF Continued
    <3>5. LastField \in Seq(Byte) BY <3>2, <3>4, ContinuedIs
    <3>6. LastField \o << >> = LastField BY <3>5, NothingBehind
    <3>7. WithLast(fields, LastField) = fields BY <3>1, SameLast DEF LastField
    <3>8. Decode(format, data[1], "hex") = Answer(format, fields)
      BY <3>2, <3>3, <3>4, <3>6, <3>7, ContinuedIs
    <3>9. Decode(format, data[1], "hex") = Decode(format, data[1], "bytes")
      BY <3>3, ArrivesIsDecoded
    <3>10. r = "hex" \/ r = "bytes" BY <2>2 DEF Representations
    <3>11. QED BY <3>8, <3>9, <3>10 DEF Answer, Value
  <2>3. QED BY <2>1, <2>2 DEF RoundTrip
<1>2. QED BY <1>1, AlwaysArrives, PTL

(* Theorem: for every value both implementations write the same bytes,     *)
(* although one works out all sizes and offsets by hand, and they make the *)
(* same of whatever arrives.                                               *)
THEOREM PathsAlwaysAgree == Spec => []PathsAgree
<1>1. Arrives => PathsAgree
  <2> SUFFICES ASSUME Arrives PROVE PathsAgree OBVIOUS
  <2>1. ASSUME Intact PROVE Encode(format, fields, "hex") = data
    <3>1. format \in Formats /\ fields \in FieldsOf(format) BY DEF Arrives
    <3>2. InRange(format, fields) /\ data = << Sent(format, fields) >> BY <2>1, IntactIsSent
    <3>3. QED BY <3>1, <3>2, SentIs DEF Representations
  <2>2. QED BY <2>1, ArrivesIsDecoded DEF PathsAgree
<1>2. QED BY <1>1, AlwaysArrives, PTL

(* Theorem: for every value and every number of bytes lost or added, the   *)
(* mistake is refused, or harmless, or in the one field that reaches to    *)
(* the end of the payload.                                                 *)
THEOREM LengthsMatter == Spec => []LengthMistakes
<1>1. Arrives => LengthMistakes
  <2> SUFFICES ASSUME Arrives, data # Refused
               PROVE  IF ReachesTheEnd
                      THEN Decode(format, data[1], "bytes") =
                              IF lost > Len(LastField) THEN Refused
                              ELSE Answer(format, WithLast(fields,
                                      SubSeq(LastField, 1, Len(LastField) - lost) \o added))
                      ELSE Decode(format, data[1], "bytes") =
                              IF lost > ceilWord(Len(LastField)) - Len(LastField) THEN Refused
                              ELSE Answer(format, fields)
    BY DEF LengthMistakes, Answer, WithLast, Value
  <2>1. /\ InRange(format, fields) /\ (CutShort \/ Continued)
        /\ Decode(format, data[1], "hex") = Decode(format, data[1], "bytes")
    BY ArrivesIsDecoded DEF Arrives
  <2>2. ReachesTheEnd <=> format \in Reaching BY DEF ReachesTheEnd, Reaching
  <2>3. LastField \in Seq(Byte) BY <2>1, CutShortIs, ContinuedIs
  <2>4. /\ Len(Pad(LastField)) = ceilWord(Len(LastField)) - Len(LastField)
        /\ Len(Pad(LastField)) \in Nat /\ Len(LastField) \in Nat
    BY <2>3, AbiBytesIs, LenProperties
  <2>5. CASE CutShort
    <3> DEFINE s == SubSeq(LastField, 1, Len(LastField) - lost)
    <3>1. lost \in Nat \ {0} /\ added = << >> BY <2>1, <2>5, CutShortIs
    <3>2. ASSUME ~(lost > Len(LastField)) PROVE s \o added = s
      <4>1. Len(LastField) - lost \in 0..Len(LastField) BY <2>4, <3>1, <3>2
      <4>2. s \in Seq(Byte) BY <2>3, <4>1, ReadOfPrefix, 0 \in Nat
      <4>3. QED BY <3>1, <4>2, NothingBehind
    <3>3. Decode(format, data[1], "hex") =
             IF format \in Reaching
             THEN IF lost > Len(LastField) THEN Refused ELSE Answer(format, WithLast(fields, s))
             ELSE IF lost > Len(Pad(LastField)) THEN Refused ELSE Answer(format, fields)
      BY <2>1, <2>5, CutShortIs
    <3> HIDE DEF s
    <3>4. QED BY <2>1, <2>2, <2>4, <3>2, <3>3 DEF s
  <2>6. CASE Continued
    <3>1. lost = 0 BY <2>6 DEF Continued
    <3>2. ~(lost > Len(LastField)) /\ ~(lost > Len(Pad(LastField))) BY <2>4, <3>1
    <3>3. SubSeq(LastField, 1, Len(LastField) - lost) = LastField
      <4>1. Len(LastField) - lost = Len(LastField) BY <2>4, <3>1
      <4>2. QED BY <2>3, <4>1, SubSeqFull
    <3>4. Decode(format, data[1], "hex") =
             IF format \in Reaching
             THEN Answer(format, WithLast(fields, LastField \o added))
             ELSE Answer(format, fields)
      BY <2>1, <2>6, ContinuedIs
    <3>5. QED BY <2>1, <2>2, <2>4, <3>2, <3>3, <3>4
  <2>7. QED BY <2>1, <2>5, <2>6
<1>2. QED BY <1>1, AlwaysArrives, PTL

-----------------------------------------------------------------------------
(* Snapshot archives.                                                      *)

(* What can be read from a header, and the cells of an archive.            *)
ArchivedEntry == [path : Seq(DOMAIN Width), kind : {"dir", "file"}, data : Seq(Nat)]
HeaderRecord == [path : Seq(DOMAIN Width), kind : {"dir", "file"}, size : Nat]
Cell == [byte : Nat] \cup [header : HeaderRecord, at : Nat]

(* Blocks are as long as what they hold, or longer.                        *)
LEMMA BlocksForIs ==
    ASSUME NEW n \in Nat
    PROVE  blocksFor(n) \in Nat /\ n <= blocksFor(n)
<1>1. BlockSize \in Nat \ {0} BY ListingsAssumption
<1> DEFINE q == (n + BlockSize - 1) \div BlockSize  r == (n + BlockSize - 1) % BlockSize
<1>2. n + BlockSize - 1 \in Nat BY <1>1
<1>3. q \in Nat /\ r \in 0..(BlockSize - 1) /\ n + BlockSize - 1 = BlockSize * q + r
  BY <1>1, <1>2, Division
<1> HIDE DEF q, r
<1>4. BlockSize * q \in Nat BY <1>1, <1>3
<1>5. n <= BlockSize * q BY <1>1, <1>3, <1>4
<1>6. q * BlockSize = BlockSize * q BY <1>1, <1>3
<1>7. blocksFor(n) = q * BlockSize BY DEF blocksFor, q
<1>8. QED BY <1>4, <1>5, <1>6, <1>7

(* The block at an offset, the header that it may be, and what is behind.  *)
BlockAt(cells, o) == SubSeq(cells, o + 1, o + BlockSize)
HeadAt(cells, o) == BlockAt(cells, o)[1].header
Behind(cells, o) == o + BlockSize + blocksFor(HeadAt(cells, o).size)
DataAt(cells, o) == Clip(cells, o + BlockSize + 1, o + BlockSize + HeadAt(cells, o).size)
EntryAt(cells, o) ==
    Entry(HeadAt(cells, o).path, HeadAt(cells, o).kind,
          [i \in DOMAIN DataAt(cells, o) |-> DataAt(cells, o)[i].byte])
EndsAt(cells, o) == o + BlockSize > Len(cells) \/ BlockAt(cells, o) = Padding(BlockSize)

LEMMA UnpackIs ==
    ASSUME NEW cells, NEW o, NEW g
    PROVE  Unpack(cells, o, g) =
               IF EndsAt(cells, o) THEN [placed |-> << >>, threw |-> FALSE]
               ELSE IF ~ChecksumFits(BlockAt(cells, o)) THEN [placed |-> << >>, threw |-> TRUE]
               ELSE [placed |-> << EntryAt(cells, o) >> \o g[Behind(cells, o)].placed,
                     threw |-> g[Behind(cells, o)].threw]
BY DEF Unpack, EndsAt, BlockAt, HeadAt, Behind, DataAt, EntryAt

(* A cell with a header is a cell of a header.                             *)
LEMMA HeaderCells ==
    ASSUME NEW c \in Cell, "header" \in DOMAIN c
    PROVE  c.header \in HeaderRecord
<1>1. c \notin [byte : Nat] OBVIOUS
<1>2. c \in [header : HeaderRecord, at : Nat] BY <1>1 DEF Cell
<1>3. QED BY <1>2

LEMMA BlockIs ==
    ASSUME NEW cells \in Seq(Cell), NEW o \in Nat, o + BlockSize <= Len(cells)
    PROVE  /\ BlockAt(cells, o) \in Seq(Cell) /\ Len(BlockAt(cells, o)) = BlockSize
           /\ \A i \in 1..BlockSize : BlockAt(cells, o)[i] = cells[o + i]
<1>1. /\ Len(cells) \in Nat /\ BlockSize \in Nat BY LenProperties, ListingsAssumption
<1>2. o + 1 \in 1..(Len(cells) + 1) /\ o + BlockSize \in o..Len(cells) BY <1>1
<1>3. QED BY <1>1, <1>2, SubSeqProperties DEF BlockAt

(* Reading goes forward.                                                   *)
LEMMA BehindIsLater ==
    ASSUME NEW cells \in Seq(Cell), NEW o \in Nat,
           ~EndsAt(cells, o), ChecksumFits(BlockAt(cells, o))
    PROVE  Behind(cells, o) \in Nat /\ Behind(cells, o) > o
<1>1. Len(cells) \in Nat /\ BlockSize \in Nat /\ BlockSize >= 2
  BY LenProperties, ListingsAssumption
<1>2. o + BlockSize <= Len(cells) BY <1>1 DEF EndsAt
<1>3. BlockAt(cells, o) \in Seq(Cell) /\ Len(BlockAt(cells, o)) = BlockSize
  BY <1>2, BlockIs
<1>4. BlockAt(cells, o)[1] \in Cell
  <2>1. 1 \in 1..BlockSize BY <1>1
  <2>2. QED BY <1>3, <2>1, ElementOfSeq
<1>5. HeadAt(cells, o) \in HeaderRecord BY <1>4, HeaderCells DEF ChecksumFits, HeadAt
<1>6. HeadAt(cells, o).size \in Nat BY <1>5 DEF HeaderRecord
<1>7. blocksFor(HeadAt(cells, o).size) \in Nat BY <1>6, BlocksForIs
<1>8. QED BY <1>1, <1>7 DEF Behind

(* What is unpacked from an offset on depends on the later ones only.      *)
LEMMA UnpackLooksAhead ==
    ASSUME NEW cells \in Seq(Cell), NEW o \in Nat, NEW g, NEW h, \A p \in Nat : p > o => g[p] = h[p]
    PROVE  Unpack(cells, o, g) = Unpack(cells, o, h)
<1>1. CASE EndsAt(cells, o) BY <1>1, UnpackIs
<1>2. CASE ~EndsAt(cells, o) /\ ~ChecksumFits(BlockAt(cells, o)) BY <1>2, UnpackIs
<1>3. CASE ~EndsAt(cells, o) /\ ChecksumFits(BlockAt(cells, o))
  <2>1. g[Behind(cells, o)] = h[Behind(cells, o)] BY <1>3, BehindIsLater
  <2>2. QED BY <2>1, UnpackIs
<1>4. QED BY <1>1, <1>2, <1>3

(* So there is a function that unpacks from each offset on.                *)
UnpackedFrom(g, cells, n) ==
    /\ g = [o \in Nat |-> g[o]]
    /\ \A o \in Nat : o + n > Len(cells) => g[o] = Unpack(cells, o, g)

LEMMA UnpackExists ==
    ASSUME NEW cells \in Seq(Cell)
    PROVE  \E g : g = [o \in Nat |-> Unpack(cells, o, g)]
<1> DEFINE S == {n \in Nat : \E g : UnpackedFrom(g, cells, n)}
<1>0. Len(cells) \in Nat /\ BlockSize \in Nat BY LenProperties, ListingsAssumption
<1>1. 0 \in S
  <2> DEFINE e == [placed |-> << >>, threw |-> FALSE]  g == [o \in Nat |-> e]
  <2> HIDE DEF e
  <2>1. ASSUME NEW o \in Nat, o + 0 > Len(cells) PROVE g[o] = Unpack(cells, o, g)
    <3>1. EndsAt(cells, o) BY <1>0, <2>1 DEF EndsAt
    <3>2. Unpack(cells, o, g) = e BY <3>1, UnpackIs DEF e
    <3>3. QED BY <3>2
  <2>2. g = [o \in Nat |-> g[o]] OBVIOUS
  <2>3. UnpackedFrom(g, cells, 0) BY <2>1, <2>2 DEF UnpackedFrom
  <2>4. QED BY <2>3
<1>2. ASSUME NEW n \in Nat, n \in S PROVE n + 1 \in S
  <2>1. PICK g : UnpackedFrom(g, cells, n) BY <1>2
  <2> DEFINE h == [o \in Nat |-> IF o + n = Len(cells) THEN Unpack(cells, o, g) ELSE g[o]]
  <2>2. ASSUME NEW o \in Nat, o + (n + 1) > Len(cells) PROVE h[o] = Unpack(cells, o, h)
    <3>1. \A p \in Nat : p > o => h[p] = g[p] BY <1>0, <1>2, <2>2
    <3>2. Unpack(cells, o, h) = Unpack(cells, o, g)
      <4> HIDE DEF h
      <4>1. QED BY <3>1, UnpackLooksAhead
    <3>3. CASE o + n = Len(cells) BY <3>2, <3>3
    <3>4. CASE o + n # Len(cells)
      <4>1. o + n > Len(cells) BY <1>0, <1>2, <2>2, <3>4
      <4>2. g[o] = Unpack(cells, o, g) BY <2>1, <4>1 DEF UnpackedFrom
      <4>3. QED BY <3>2, <3>4, <4>2
    <3>5. QED BY <3>3, <3>4
  <2>3. h = [o \in Nat |-> h[o]] OBVIOUS
  <2> HIDE DEF h
  <2>4. UnpackedFrom(h, cells, n + 1) BY <2>2, <2>3 DEF UnpackedFrom
  <2>5. QED BY <2>4
<1>3. Nat \subseteq S
  <2> HIDE DEF S
  <2>1. QED BY <1>1, <1>2, Induction
<1>4. Len(cells) + 1 \in Nat BY <1>0
<1>5. PICK g : UnpackedFrom(g, cells, Len(cells) + 1) BY <1>3, <1>4
<1>6. \A o \in Nat : o + (Len(cells) + 1) > Len(cells) BY <1>0
<1>7. \A o \in Nat : g[o] = Unpack(cells, o, g) BY <1>5, <1>6 DEF UnpackedFrom
<1>8. g = [o \in Nat |-> g[o]] BY <1>5 DEF UnpackedFrom
<1>9. g = [o \in Nat |-> Unpack(cells, o, g)] BY <1>7, <1>8
<1>10. QED BY <1>9

LEMMA SnapshotIsUnpacked ==
    ASSUME NEW cells \in Seq(Cell)
    PROVE  \E g : /\ \A o \in Nat : g[o] = Unpack(cells, o, g)
                  /\ writeSnapshot(cells) = g[0]
<1> DEFINE g == CHOOSE f : f = [o \in Nat |-> Unpack(cells, o, f)]
<1>1. g = [o \in Nat |-> Unpack(cells, o, g)] BY UnpackExists
<1>2. writeSnapshot(cells) = g[0] BY Zenon DEF writeSnapshot
<1> HIDE DEF g
<1>3. \A o \in Nat : g[o] = Unpack(cells, o, g) BY <1>1
<1>4. QED BY <1>2, <1>3

(* What is packed of an entry: a header, and the data in whole blocks.     *)
LEMMA PackedEntryIs ==
    ASSUME NEW a \in ArchivedEntry
    PROVE  /\ PackedEntry(a) \in Seq(Cell) /\ Header(a) \in HeaderRecord
           /\ Len(a.data) \in Nat
           /\ Len(PackedEntry(a)) = BlockSize + blocksFor(Len(a.data))
           /\ \A j \in 1..BlockSize : PackedEntry(a)[j] = [header |-> Header(a), at |-> j]
           /\ \A j \in 1..Len(a.data) : PackedEntry(a)[BlockSize + j] = [byte |-> a.data[j]]
<1> DEFINE n == Len(a.data)  c == blocksFor(n)  h == header(Header(a))  d == Data(a.data)
           z == Padding(c - n)
<1>1. /\ a.data \in Seq(Nat) /\ a.path \in Seq(DOMAIN Width) /\ a.kind \in {"dir", "file"}
  BY DEF ArchivedEntry
<1>2. /\ n \in Nat /\ BlockSize \in Nat /\ DOMAIN a.data = 1..n /\ \A j \in 1..n : a.data[j] \in Nat
  BY <1>1, LenProperties, ElementOfSeq, ListingsAssumption
<1>3. c \in Nat /\ n <= c BY <1>2, BlocksForIs
<1>4. Header(a) \in HeaderRecord BY <1>1, <1>2 DEF Header, HeaderRecord
<1>5. h \in Seq(Cell) /\ Len(h) = BlockSize /\ \A j \in 1..BlockSize : h[j] = [header |-> Header(a), at |-> j]
  <2>1. h \in [1..BlockSize -> Cell] BY <1>2, <1>4 DEF header, Cell
  <2>2. \A j \in 1..BlockSize : h[j] = [header |-> Header(a), at |-> j] BY DEF header
  <2> HIDE DEF h
  <2>3. QED BY <1>2, <2>1, <2>2, SeqDef, LenProperties
<1>6. d \in Seq(Cell) /\ Len(d) = n /\ \A j \in 1..n : d[j] = [byte |-> a.data[j]]
  <2>1. d \in [1..n -> Cell] BY <1>2 DEF Data, Cell
  <2>2. \A j \in 1..n : d[j] = [byte |-> a.data[j]] BY <1>2 DEF Data
  <2> HIDE DEF d
  <2>3. QED BY <1>2, <2>1, <2>2, SeqDef, LenProperties
<1>7. z \in Seq(Cell) /\ Len(z) = c - n
  <2>1. c - n \in Nat BY <1>2, <1>3
  <2>2. z \in [1..(c - n) -> Cell] BY <2>1 DEF Padding, Zero, Cell
  <2> HIDE DEF z
  <2>3. QED BY <2>1, <2>2, SeqDef, LenProperties
<1>8. PackedEntry(a) = (h \o d) \o z BY DEF PackedEntry
<1> HIDE DEF h, d, z, c, n
<1>9. /\ h \o d \in Seq(Cell) /\ Len(h \o d) = BlockSize + n
      /\ \A j \in 1..(BlockSize + n) : (h \o d)[j] = IF j <= BlockSize THEN h[j] ELSE d[j - BlockSize]
  BY <1>2, <1>5, <1>6, ConcatProperties
<1> DEFINE hd == h \o d
<1> HIDE DEF hd
<1>10. hd \in Seq(Cell) /\ Len(hd) = BlockSize + n BY <1>9 DEF hd
<1>11. /\ hd \o z \in Seq(Cell) /\ Len(hd \o z) = (BlockSize + n) + (c - n)
       /\ \A j \in 1..(BlockSize + n) : (hd \o z)[j] = hd[j]
  <2>1. /\ hd \o z \in Seq(Cell) /\ Len(hd \o z) = Len(hd) + Len(z)
        /\ \A j \in 1..(Len(hd) + Len(z)) : (hd \o z)[j] = IF j <= Len(hd) THEN hd[j] ELSE z[j - Len(hd)]
    BY <1>7, <1>10, ConcatProperties
  <2>2. \A j \in 1..(BlockSize + n) : j \in 1..(Len(hd) + Len(z)) /\ j <= Len(hd)
    <3>1. /\ n \in Nat /\ c \in Nat /\ n <= c /\ BlockSize \in Nat
          /\ Len(z) = c - n /\ Len(hd) = BlockSize + n
      BY <1>2, <1>3, <1>7, <1>10
    <3>2. QED BY ONLY <3>1
  <2>3. QED BY <1>7, <1>10, <2>1, <2>2
<1>12. ASSUME NEW j \in 1..BlockSize PROVE (hd \o z)[j] = [header |-> Header(a), at |-> j]
  <2>1. j \in 1..(BlockSize + n) /\ j <= BlockSize BY <1>2
  <2>2. hd[j] = h[j] BY <1>9, <2>1 DEF hd
  <2>3. QED BY <1>5, <1>11, <2>1, <2>2
<1>13. ASSUME NEW j \in 1..n PROVE (hd \o z)[BlockSize + j] = [byte |-> a.data[j]]
  <2>1. /\ BlockSize + j \in 1..(BlockSize + n) /\ ~(BlockSize + j <= BlockSize)
        /\ (BlockSize + j) - BlockSize = j
    BY <1>2
  <2>2. hd[BlockSize + j] = d[j] BY <1>9, <2>1 DEF hd
  <2>3. QED BY <1>6, <1>11, <2>1, <2>2
<1>14. (BlockSize + n) + (c - n) = BlockSize + c BY <1>2, <1>3
<1>15. PackedEntry(a) = hd \o z BY <1>8 DEF hd
<1>16. QED BY <1>2, <1>4, <1>11, <1>12, <1>13, <1>14, <1>15 DEF n, c

(* Where an archive has its entries: each header at e[i], the data behind  *)
(* it, and zeros behind the last.                                          *)
IsArchive(A, e, all) ==
    /\ A \in Seq(Cell)
    /\ e[1] = 0
    /\ \A i \in 1..(Len(all) + 1) : e[i] \in Nat
    /\ Len(A) = e[Len(all) + 1] + 2 * BlockSize
    /\ \A i \in 1..Len(all) :
          /\ e[i + 1] = e[i] + (BlockSize + blocksFor(Len(all[i].data)))
          /\ e[i + 1] <= e[Len(all) + 1]
          /\ \A j \in 1..BlockSize : A[e[i] + j] = [header |-> Header(all[i]), at |-> j]
          /\ \A j \in 1..Len(all[i].data) :
                A[(e[i] + BlockSize) + j] = [byte |-> all[i].data[j]]
    /\ \A j \in 1..(2 * BlockSize) : A[e[Len(all) + 1] + j] = Zero

Blocks(all) == [i \in DOMAIN all |-> PackedEntry(all[i])]

LEMMA BlocksAre ==
    ASSUME NEW all \in Seq(ArchivedEntry)
    PROVE  /\ Blocks(all) \in Seq(Seq(Cell)) /\ Len(Blocks(all)) = Len(all)
           /\ \A i \in 1..Len(all) : Blocks(all)[i] = PackedEntry(all[i])
<1>1. DOMAIN all = 1..Len(all) /\ Len(all) \in Nat BY LenProperties
<1>2. ASSUME NEW i \in 1..Len(all) PROVE PackedEntry(all[i]) \in Seq(Cell)
  <2>1. all[i] \in ArchivedEntry BY ElementOfSeq
  <2>2. QED BY <2>1, PackedEntryIs
<1>3. Blocks(all) \in [1..Len(all) -> Seq(Cell)] BY <1>1, <1>2 DEF Blocks
<1>4. \A i \in 1..Len(all) : Blocks(all)[i] = PackedEntry(all[i]) BY <1>1 DEF Blocks
<1>5. QED BY <1>1, <1>3, <1>4, SeqDef, LenProperties

LEMMA EndIs ==
    /\ End \in Seq(Cell) /\ Len(End) = 2 * BlockSize
    /\ \A j \in 1..(2 * BlockSize) : End[j] = Zero
<1>1. 2 * BlockSize \in Nat BY ListingsAssumption
<1>2. End = [j \in 1..(2 * BlockSize) |-> Zero] BY DEF End, Padding
<1>3. Zero \in Cell BY DEF Zero, Cell
<1>4. End \in [1..(2 * BlockSize) -> Cell] BY <1>2, <1>3
<1>5. QED BY <1>1, <1>2, <1>4, SeqDef, LenProperties

(* What readSnapshot packs is such an archive.                             *)
LEMMA PackedIsArchive ==
    ASSUME NEW all \in Seq(ArchivedEntry)
    PROVE  \E e : IsArchive(FlattenSeq(Blocks(all)) \o End, e, all)
<1> DEFINE n == Len(all)  f == FlattenSeq(Blocks(all))  A == f \o End  e == Starts(Blocks(all))
<1>0. n \in Nat /\ BlockSize \in Nat BY LenProperties, ListingsAssumption
<1>1. /\ Blocks(all) \in Seq(Seq(Cell)) /\ Len(Blocks(all)) = n
      /\ \A i \in 1..n : Blocks(all)[i] = PackedEntry(all[i])
  BY BlocksAre
<1>2. /\ Begins(e, Blocks(all)) /\ \A k \in 1..(n + 1) : e[k] \in Nat
  BY <1>1, StartsBegin
<1> HIDE DEF e
<1>3. f \in Seq(Cell) /\ IsLaid(f, e, Blocks(all)) BY <1>1, <1>2, FlattenIsLaid
<1> HIDE DEF f
<1>4. Len(f) = e[n + 1] /\ Len(f) \in Nat /\ \A k \in 1..n : At(f, e[k], PackedEntry(all[k]))
  BY <1>1, <1>3, LenProperties DEF IsLaid
<1>5. /\ A \in Seq(Cell) /\ Len(A) = Len(f) + 2 * BlockSize
      /\ \A i \in 1..Len(f) : A[i] = f[i]
      /\ \A j \in 1..(2 * BlockSize) : A[Len(f) + j] = Zero
  <2> DEFINE w == 2 * BlockSize
  <2>1. w \in Nat BY <1>0
  <2>2. End \in Seq(Cell) /\ Len(End) = w /\ \A j \in 1..w : End[j] = Zero BY EndIs
  <2> HIDE DEF w
  <2>3. /\ A \in Seq(Cell) /\ Len(A) = Len(f) + w
        /\ \A i \in 1..(Len(f) + w) : A[i] = IF i <= Len(f) THEN f[i] ELSE End[i - Len(f)]
    BY <1>3, <2>2, ConcatProperties
  <2>4. \A i \in 1..Len(f) : i \in 1..(Len(f) + w) /\ i <= Len(f) BY <1>4, <2>1
  <2>5. \A j \in 1..w : /\ Len(f) + j \in 1..(Len(f) + w) /\ ~(Len(f) + j <= Len(f))
                        /\ (Len(f) + j) - Len(f) = j
    BY <1>4, <2>1
  <2> HIDE DEF A
  <2>6. /\ \A i \in 1..Len(f) : A[i] = f[i]
        /\ \A j \in 1..w : A[Len(f) + j] = Zero
    BY <2>2, <2>3, <2>4, <2>5
  <2>7. QED BY <2>3, <2>6 DEF w
<1> HIDE DEF A
<1>6. ASSUME NEW i \in 1..n
      PROVE  /\ e[i + 1] = e[i] + (BlockSize + blocksFor(Len(all[i].data)))
             /\ e[i + 1] <= e[n + 1]
             /\ \A j \in 1..BlockSize : A[e[i] + j] = [header |-> Header(all[i]), at |-> j]
             /\ \A j \in 1..Len(all[i].data) :
                   A[(e[i] + BlockSize) + j] = [byte |-> all[i].data[j]]
  <2> DEFINE x == PackedEntry(all[i])  m == Len(all[i].data)  c == blocksFor(Len(all[i].data))
  <2>1. all[i] \in ArchivedEntry BY ElementOfSeq
  <2>2. /\ m \in Nat /\ Len(x) = BlockSize + c
        /\ \A j \in 1..BlockSize : x[j] = [header |-> Header(all[i]), at |-> j]
        /\ \A j \in 1..m : x[BlockSize + j] = [byte |-> all[i].data[j]]
    BY <2>1, PackedEntryIs
  <2>3. c \in Nat /\ m <= c BY <2>2, BlocksForIs
  <2>4. e[i] \in Nat /\ e[i] + Len(x) <= Len(f) /\ \A j \in 1..Len(x) : f[e[i] + j] = x[j]
    BY <1>4 DEF At
  <2>5. e[i + 1] = e[i] + Len(x) BY <1>1, <1>2 DEF Begins
  <2> HIDE DEF x, m, c
  <2>6. \A j \in 1..(BlockSize + c) : A[e[i] + j] = x[j]
    <3>1. \A j \in 1..(BlockSize + c) : j \in 1..Len(x) /\ e[i] + j \in 1..Len(f)
      BY <1>0, <1>4, <2>2, <2>3, <2>4
    <3>2. QED BY <1>5, <2>4, <3>1
  <2>7. \A j \in 1..BlockSize : j \in 1..(BlockSize + c) BY <1>0, <2>3
  <2>8. \A j \in 1..m : /\ BlockSize + j \in 1..(BlockSize + c)
                        /\ e[i] + (BlockSize + j) = (e[i] + BlockSize) + j
    BY <1>0, <2>2, <2>3, <2>4
  <2>9. \A j \in 1..BlockSize : A[e[i] + j] = [header |-> Header(all[i]), at |-> j]
    BY <2>2, <2>6, <2>7
  <2>10. \A j \in 1..m : A[(e[i] + BlockSize) + j] = [byte |-> all[i].data[j]]
    <3>1. SUFFICES ASSUME NEW j \in 1..m
                   PROVE  A[(e[i] + BlockSize) + j] = [byte |-> all[i].data[j]]
      OBVIOUS
    <3>2. A[e[i] + (BlockSize + j)] = x[BlockSize + j] BY <2>6, <2>8
    <3>3. QED BY <2>2, <2>8, <3>2
  <2>11. e[i + 1] = e[i] + (BlockSize + c) /\ e[i + 1] <= e[n + 1]
    BY <1>4, <2>2, <2>4, <2>5
  <2>12. QED BY <2>9, <2>10, <2>11 DEF m, c
<1>7. e[1] = 0 BY <1>2 DEF Begins
<1>8. Len(A) = e[n + 1] + 2 * BlockSize BY <1>4, <1>5
<1>9. \A j \in 1..(2 * BlockSize) : A[e[n + 1] + j] = Zero BY <1>4, <1>5
<1>10. IsArchive(A, e, all) BY <1>2, <1>5, <1>6, <1>7, <1>8, <1>9 DEF IsArchive
<1>11. QED BY <1>10 DEF A, f

(* The cells of C are those of an archive A, or of a first part of it, and *)
(* the one at p has changed; p is 0 if none has.                           *)
Arrived(C, A, p) ==
    /\ C \in Seq(Cell) /\ A \in Seq(Cell) /\ p \in Nat
    /\ Len(C) <= Len(A)
    /\ \A k \in 1..Len(C) : C[k] = A[k] \/ (k = p /\ C[k] \in Changed)
    /\ p # 0 => Len(C) = Len(A)

(* A changed cell is neither a cell of a header nor a zero.                *)
LEMMA ChangedIs ==
    ASSUME NEW c \in Changed
    PROVE  c \in Cell /\ "header" \notin DOMAIN c /\ c # Zero
<1>1. c = [byte |-> 32] \/ c = [byte |-> 255] BY DEF Changed, Blank
<1>2. c \in [byte : Nat] BY <1>1
<1>3. c # [byte |-> 0]
  <2>1. c.byte # 0 BY <1>1
  <2>2. QED BY <2>1
<1>4. DOMAIN c = {"byte"} BY <1>1
<1>5. QED BY <1>2, <1>3, <1>4 DEF Cell, Zero

(* A header arrives, or its checksum does not fit.                         *)
LEMMA HeaderArrives ==
    ASSUME NEW A, NEW C, NEW p, Arrived(C, A, p), NEW o \in Nat, NEW h,
           o + BlockSize <= Len(C),
           \A j \in 1..BlockSize : A[o + j] = [header |-> h, at |-> j]
    PROVE  /\ ~EndsAt(C, o)
           /\ ChecksumFits(BlockAt(C, o)) => HeadAt(C, o) = h
           /\ p = 0 => ChecksumFits(BlockAt(C, o))
<1> DEFINE B == BlockAt(C, o)
<1>1. C \in Seq(Cell) /\ Len(C) \in Nat /\ BlockSize \in Nat /\ BlockSize >= 2
  BY LenProperties, ListingsAssumption DEF Arrived
<1>2. 1 \in 1..BlockSize /\ \A j \in 1..BlockSize : o + j \in 1..Len(C) BY <1>1
<1>3. \A j \in 1..BlockSize : B[j] = C[o + j] BY <1>1, BlockIs
<1> HIDE DEF B
<1>4. \A j \in 1..BlockSize :
         B[j] = [header |-> h, at |-> j] \/ (o + j = p /\ B[j] \in Changed)
  BY <1>2, <1>3 DEF Arrived
<1>5. \A j \in 1..BlockSize : [header |-> h, at |-> j] # Zero
  <2>1. \A j : DOMAIN [header |-> h, at |-> j] = {"header", "at"} OBVIOUS
  <2>2. DOMAIN Zero = {"byte"} BY DEF Zero
  <2>3. "header" \notin {"byte"} OBVIOUS
  <2>4. QED BY <2>1, <2>2, <2>3
<1>6. B[1] # Zero BY <1>2, <1>4, <1>5, ChangedIs
<1>7. B # Padding(BlockSize) BY <1>2, <1>6 DEF Padding
<1>8. ~EndsAt(C, o)
  <2>1. ~(o + BlockSize > Len(C)) BY <1>1
  <2>2. QED BY <1>7, <2>1 DEF EndsAt, B
<1>9. ASSUME ChecksumFits(B) PROVE B[1].header = h
  <2>1. "header" \in DOMAIN B[1] BY <1>9 DEF ChecksumFits
  <2>2. B[1] = [header |-> h, at |-> 1] BY <1>2, <1>4, <2>1, ChangedIs
  <2>3. QED BY <2>2
<1>10. ASSUME p = 0 PROVE ChecksumFits(B)
  <2>1. \A j \in 1..BlockSize : o + j # 0 BY <1>1
  <2>2. \A j \in 1..BlockSize : B[j] = [header |-> h, at |-> j] BY <1>4, <1>10, <2>1
  <2>3. B[1] = [header |-> h, at |-> 1] BY <1>2, <2>2
  <2>4. "header" \in DOMAIN B[1] /\ B[1].header = h BY <2>3
  <2>5. \A j \in 1..BlockSize : B[j] = header(h)[j] BY <2>2 DEF header
  <2>6. QED BY <2>4, <2>5 DEF ChecksumFits
<1>11. QED BY <1>8, <1>9, <1>10 DEF B, HeadAt

(* So does a block of zeros; what it has become is no header.              *)
LEMMA ZerosArrive ==
    ASSUME NEW A, NEW C, NEW p, Arrived(C, A, p), NEW o \in Nat,
           \A j \in 1..BlockSize : A[o + j] = Zero
    PROVE  EndsAt(C, o) \/ (~ChecksumFits(BlockAt(C, o)) /\ p # 0)
<1> DEFINE B == BlockAt(C, o)
<1>0. SUFFICES ASSUME o + BlockSize <= Len(C)
               PROVE  B = Padding(BlockSize) \/ (~ChecksumFits(B) /\ p # 0)
  <2>1. Len(C) \in Nat /\ BlockSize \in Nat BY LenProperties, ListingsAssumption DEF Arrived
  <2>2. o + BlockSize <= Len(C) \/ o + BlockSize > Len(C) BY <2>1
  <2>3. QED BY <2>2 DEF EndsAt, B
<1>1. C \in Seq(Cell) /\ Len(C) \in Nat /\ BlockSize \in Nat /\ BlockSize >= 2
  BY LenProperties, ListingsAssumption DEF Arrived
<1>2. 1 \in 1..BlockSize /\ \A j \in 1..BlockSize : o + j \in 1..Len(C) BY <1>0, <1>1
<1>3. B \in Seq(Cell) /\ Len(B) = BlockSize /\ \A j \in 1..BlockSize : B[j] = C[o + j]
  BY <1>0, <1>1, BlockIs
<1> HIDE DEF B
<1>4. \A j \in 1..BlockSize : B[j] = Zero \/ (o + j = p /\ B[j] \in Changed)
  BY <1>2, <1>3 DEF Arrived
<1>5. ~ChecksumFits(B)
  <2>1. "header" \notin DOMAIN B[1]
    <3>1. "header" \notin DOMAIN Zero BY DEF Zero
    <3>2. QED BY <1>2, <1>4, <3>1, ChangedIs
  <2>2. QED BY <2>1 DEF ChecksumFits
<1>6. ASSUME p = 0 PROVE B = Padding(BlockSize)
  <2>1. \A j \in 1..BlockSize : o + j # 0 BY <1>1
  <2>2. \A j \in 1..BlockSize : B[j] = Zero BY <1>4, <1>6, <2>1
  <2>3. B = [j \in 1..BlockSize |-> B[j]] BY <1>1, <1>3, LenProperties
  <2>4. QED BY <2>2, <2>3 DEF Padding
<1>7. QED BY <1>5, <1>6

(* Of the data behind a header arrives what stands in the archive, with no *)
(* other byte changed than the one at p, and all of it unless C is too     *)
(* short for it.                                                           *)
BytesArrived(C, o) == [i \in DOMAIN DataAt(C, o) |-> DataAt(C, o)[i].byte]

LEMMA DataArrives ==
    ASSUME NEW A, NEW C, NEW p, Arrived(C, A, p), NEW o \in Nat, NEW d \in Seq(Nat),
           o + BlockSize <= Len(C), HeadAt(C, o).size = Len(d),
           \A j \in 1..Len(d) : A[(o + BlockSize) + j] = [byte |-> d[j]]
    PROVE  /\ BytesArrived(C, o) \in Seq(Nat)
           /\ Len(BytesArrived(C, o)) <= Len(d)
           /\ \A j \in 1..Len(BytesArrived(C, o)) :
                 BytesArrived(C, o)[j] # d[j] => p = (o + BlockSize) + j
           /\ Len(BytesArrived(C, o)) < Len(d) => Len(C) < (o + BlockSize) + Len(d)
<1> DEFINE f == o + BlockSize  n == Len(d)  D == DataAt(C, o)  x == BytesArrived(C, o)
           t == IF f + n < Len(C) THEN f + n ELSE Len(C)
<1>1. /\ C \in Seq(Cell) /\ Len(C) \in Nat /\ BlockSize \in Nat /\ n \in Nat
      /\ \A j \in 1..n : d[j] \in Nat
  BY LenProperties, ElementOfSeq, ListingsAssumption DEF Arrived
<1>2. D = SubSeq(C, f + 1, t) BY DEF DataAt, Clip
<1> HIDE DEF D, x
<1>3. f \in Nat /\ t \in Nat /\ f <= t /\ t <= Len(C) /\ t - f <= n /\ t - f \in Nat
      /\ (t - f < n => Len(C) < f + n)
  BY <1>1
<1> DEFINE m == t - f
<1>4. Len(D) = m /\ DOMAIN D = 1..m /\ \A j \in 1..m : D[j] = C[f + j]
  <2> HIDE DEF f, t
  <2>1. \A i \in (f + 1)..t : C[i] \in Cell
    <3>1. \A i \in (f + 1)..t : i \in 1..Len(C) BY <1>1, <1>3
    <3>2. QED BY <1>1, <3>1, ElementOfSeq
  <2>2. f + 1 \in Int /\ t \in Int BY <1>3
  <2>3. /\ D \in Seq(Cell) /\ Len(D) = (IF f + 1 <= t THEN t - (f + 1) + 1 ELSE 0)
        /\ \A i \in 1..(t - (f + 1) + 1) : D[i] = C[(f + 1) + i - 1]
    BY <1>2, <2>1, <2>2, SubSeqProperties
  <2>4. (IF f + 1 <= t THEN t - (f + 1) + 1 ELSE 0) = t - f /\ t - (f + 1) + 1 = t - f BY <1>3
  <2>5. \A i \in 1..(t - f) : (f + 1) + i - 1 = f + i BY <1>3
  <2>6. Len(D) = t - f BY <2>3, <2>4
  <2>7. \A i \in 1..(t - f) : D[i] = C[f + i] BY <2>3, <2>4, <2>5
  <2>8. QED BY <2>3, <2>6, <2>7, LenProperties
<1> HIDE DEF t
<1>5. \A j \in 1..m : /\ f + j \in 1..Len(C) /\ j \in 1..n
  <2>1. /\ f \in Nat /\ t \in Nat /\ f <= t /\ t <= Len(C) /\ t - f <= n
        /\ n \in Nat /\ Len(C) \in Nat
    BY <1>1, <1>3
  <2> HIDE DEF f
  <2>2. QED BY ONLY <2>1
<1>6. ASSUME NEW j \in 1..m
      PROVE  D[j].byte \in Nat /\ (D[j].byte # d[j] => p = f + j)
  <2>1. C[f + j] = A[f + j] \/ (f + j = p /\ C[f + j] \in Changed) BY <1>5 DEF Arrived
  <2>2. A[f + j] = [byte |-> d[j]] BY <1>5
  <2>3. D[j] = [byte |-> d[j]] \/ (f + j = p /\ D[j] \in Changed) BY <1>4, <2>1, <2>2
  <2>4. \A c \in Changed : c.byte \in Nat BY DEF Changed, Blank
  <2>5. d[j] \in Nat BY <1>1, <1>5
  <2>6. QED BY <2>3, <2>4, <2>5
<1>7. x = [i \in 1..m |-> D[i].byte] BY <1>4 DEF x, D, BytesArrived
<1> HIDE DEF m
<1>8. m \in Nat BY <1>3 DEF m
<1>9. x \in [1..m -> Nat] BY <1>6, <1>7
<1>10. x \in Seq(Nat) /\ Len(x) = m BY <1>8, <1>9, SeqDef, LenProperties
<1>11. \A j \in 1..m : x[j] # d[j] => p = f + j BY <1>6, <1>7
<1>12. m <= n /\ (m < n => Len(C) < f + n) BY <1>3 DEF m
<1>13. QED BY <1>10, <1>11, <1>12 DEF x

(* An entry x stands for a, whose data begin at from + 1.                  *)
Standing(x, a, from, p) ==
    /\ x \in ArchivedEntry /\ x.path = a.path /\ x.kind = a.kind
    /\ Len(x.data) <= Len(a.data)
    /\ \A j \in 1..Len(x.data) : x.data[j] # a.data[j] => p = from + j

(* What must be true of what is unpacked behind the first i entries.       *)
Unpacked(r, all, e, i, C, A, p) ==
    /\ r.threw \in BOOLEAN /\ (r.threw => p # 0)
    /\ r.placed \in Seq(ArchivedEntry) /\ Len(r.placed) <= Len(all) - i
    /\ \A k \in 1..Len(r.placed) :
          /\ Standing(r.placed[k], all[i + k], e[i + k] + BlockSize, p)
          /\ Len(r.placed[k].data) < Len(all[i + k].data) =>
                k = Len(r.placed) /\ Len(C) < Len(A)
    /\ ~r.threw /\ Len(C) = Len(A) => Len(r.placed) = Len(all) - i

LEMMA UnpackedBefore ==
    ASSUME NEW r, NEW all, NEW e, NEW i \in Nat, NEW C, NEW A, NEW p, NEW x,
           Len(all) \in Nat,
           Unpacked(r, all, e, i + 1, C, A, p),
           Standing(x, all[i + 1], e[i + 1] + BlockSize, p),
           Len(x.data) < Len(all[i + 1].data) => r.placed = << >> /\ Len(C) < Len(A)
    PROVE  Unpacked([placed |-> <<x>> \o r.placed, threw |-> r.threw], all, e, i, C, A, p)
<1> DEFINE q == r.placed  m == Len(r.placed)  s == <<x>> \o q
<1>1. q \in Seq(ArchivedEntry) /\ m \in Nat /\ m <= Len(all) - (i + 1)
  BY LenProperties DEF Unpacked
<1>2. x \in ArchivedEntry BY DEF Standing
<1> HIDE DEF q
<1>3. /\ s \in Seq(ArchivedEntry) /\ Len(s) = 1 + m
      /\ s[1] = x /\ \A k \in 1..m : s[1 + k] = q[k]
  <2>0. m = Len(q) BY DEF q
  <2> HIDE DEF m
  <2>1. <<x>> \in Seq(ArchivedEntry) /\ Len(<<x>>) = 1 /\ <<x>>[1] = x BY <1>2
  <2>2. /\ s \in Seq(ArchivedEntry) /\ Len(s) = 1 + m
        /\ \A k \in 1..(1 + m) : s[k] = IF k <= 1 THEN <<x>>[k] ELSE q[k - 1]
    BY <1>1, <2>0, <2>1, ConcatProperties
  <2>3. /\ 1 \in 1..(1 + m)
        /\ \A k \in 1..m : 1 + k \in 1..(1 + m) /\ ~(1 + k <= 1) /\ (1 + k) - 1 = k
    BY <1>1
  <2> HIDE DEF s
  <2>4. s[1] = x BY <2>1, <2>2, <2>3
  <2>5. \A k \in 1..m : s[1 + k] = q[k] BY <2>2, <2>3
  <2>6. QED BY <2>2, <2>4, <2>5
<1> HIDE DEF s, m
<1>4. ASSUME NEW k \in 1..(1 + m)
      PROVE  /\ Standing(s[k], all[i + k], e[i + k] + BlockSize, p)
             /\ Len(s[k].data) < Len(all[i + k].data) => k = 1 + m /\ Len(C) < Len(A)
  <2>1. CASE k = 1
    <3>1. s[k] = x /\ i + k = i + 1 BY <1>3, <2>1
    <3>2. Standing(s[k], all[i + k], e[i + k] + BlockSize, p) BY <3>1
    <3>3. ASSUME Len(s[k].data) < Len(all[i + k].data) PROVE k = 1 + m /\ Len(C) < Len(A)
      <4>1. r.placed = << >> /\ Len(C) < Len(A) BY <3>1, <3>3
      <4>2. m = 0 BY <4>1, EmptySeq DEF m
      <4>3. QED BY <2>1, <4>1, <4>2
    <3>4. QED BY <3>2, <3>3
  <2>2. CASE k # 1
    <3> DEFINE l == k - 1
    <3>1. l \in 1..m /\ k = 1 + l /\ i + k = (i + 1) + l BY <1>1, <2>2
    <3> HIDE DEF l
    <3>2. s[k] = q[l] BY <1>3, <3>1
    <3>3. /\ Standing(q[l], all[(i + 1) + l], e[(i + 1) + l] + BlockSize, p)
          /\ Len(q[l].data) < Len(all[(i + 1) + l].data) => l = m /\ Len(C) < Len(A)
      BY <3>1 DEF Unpacked, q, m
    <3>4. QED BY <3>1, <3>2, <3>3
  <2>3. QED BY <2>1, <2>2
<1>5. 1 + m <= Len(all) - i BY <1>1
<1>6. ASSUME ~r.threw, Len(C) = Len(A) PROVE 1 + m = Len(all) - i
  <2>1. m = Len(all) - (i + 1) BY <1>6 DEF Unpacked, m
  <2>2. QED BY <1>1, <2>1
<1>7. r.threw \in BOOLEAN /\ (r.threw => p # 0) BY DEF Unpacked
<1> DEFINE w == [placed |-> s, threw |-> r.threw]
<1>8. w.placed = s /\ w.threw = r.threw OBVIOUS
<1> HIDE DEF w
<1>9. Unpacked(w, all, e, i, C, A, p) BY <1>3, <1>4, <1>5, <1>6, <1>7, <1>8 DEF Unpacked
<1>10. QED BY <1>9 DEF w, s, q

(* Nothing is unpacked where the archive has lost what follows, and where  *)
(* the checksum of a changed header does not fit.                          *)
LEMMA NoneUnpacked ==
    ASSUME NEW all \in Seq(ArchivedEntry), NEW e, NEW i \in 0..Len(all), NEW C, NEW A, NEW p,
           NEW threw \in BOOLEAN, threw => p # 0,
           threw \/ Len(C) # Len(A) \/ i = Len(all)
    PROVE  Unpacked([placed |-> << >>, threw |-> threw], all, e, i, C, A, p)
<1> DEFINE r == [placed |-> << >>, threw |-> threw]
<1>1. r.placed = << >> /\ r.threw = threw OBVIOUS
<1> HIDE DEF r
<1>2. << >> \in Seq(ArchivedEntry) /\ Len(<< >>) = 0 BY EmptySeq
<1>3. Len(all) \in Nat BY LenProperties
<1>4. 0 <= Len(all) - i /\ (i = Len(all) => 0 = Len(all) - i) BY <1>3
<1>5. \A k \in 1..0 : FALSE OBVIOUS
<1>6. r.threw \in BOOLEAN /\ (r.threw => p # 0) BY <1>1
<1>7. ~r.threw /\ Len(C) = Len(A) => Len(r.placed) = Len(all) - i BY <1>1, <1>2, <1>4
<1>8. Unpacked(r, all, e, i, C, A, p)
  BY <1>1, <1>2, <1>4, <1>5, <1>6, <1>7 DEF Unpacked
<1>9. QED BY <1>8 DEF r

LEMMA UnpackedStep ==
    ASSUME NEW all \in Seq(ArchivedEntry), NEW e, NEW A, NEW C, NEW p, NEW g,
           IsArchive(A, e, all), Arrived(C, A, p), \A o \in Nat : g[o] = Unpack(C, o, g),
           NEW i \in Nat, i + 1 <= Len(all),
           Unpacked(g[e[(i + 1) + 1]], all, e, i + 1, C, A, p)
    PROVE  Unpacked(g[e[i + 1]], all, e, i, C, A, p)
<1> DEFINE n == Len(all)  l == i + 1  a == all[l]  o == e[l]  d == a.data  c == blocksFor(Len(d))
           r == g[e[l + 1]]
<1>0. /\ n \in Nat /\ BlockSize \in Nat /\ BlockSize >= 2
      /\ Len(C) \in Nat /\ Len(A) \in Nat /\ Len(C) <= Len(A)
  BY LenProperties, ListingsAssumption DEF Arrived
<1>1. l \in 1..n /\ l \in 1..(n + 1) /\ n + 1 \in 1..(n + 1) /\ i \in 0..n BY <1>0
<1>2. a \in ArchivedEntry BY <1>1, ElementOfSeq
<1>3. /\ d \in Seq(Nat) /\ a.path \in Seq(DOMAIN Width) /\ a.kind \in {"dir", "file"}
  BY <1>2 DEF ArchivedEntry
<1>4. Len(d) \in Nat /\ c \in Nat /\ Len(d) <= c BY <1>3, LenProperties, BlocksForIs
<1>5. /\ o \in Nat /\ e[n + 1] \in Nat
      /\ Len(A) = e[n + 1] + 2 * BlockSize
      /\ e[l + 1] = o + (BlockSize + c)
      /\ e[l + 1] <= e[n + 1]
      /\ \A j \in 1..BlockSize : A[o + j] = [header |-> Header(a), at |-> j]
      /\ \A j \in 1..Len(d) : A[(o + BlockSize) + j] = [byte |-> d[j]]
  BY <1>1 DEF IsArchive
<1>6. Unpacked(r, all, e, l, C, A, p) OBVIOUS
<1>7. Header(a).size = Len(d) /\ Header(a).path = a.path /\ Header(a).kind = a.kind
  BY DEF Header
<1>8. g[o] = Unpack(C, o, g) BY <1>5
<1> HIDE DEF a, d, c, n, o
<1>9. /\ o + BlockSize <= Len(A) /\ (o + BlockSize) + Len(d) <= Len(A)
      /\ (o + BlockSize) + Len(d) <= e[l + 1]
  <2> DEFINE u == e[l + 1]  v == e[n + 1]
  <2>1. /\ o \in Nat /\ v \in Nat /\ Len(A) = v + 2 * BlockSize
        /\ u = o + (BlockSize + c) /\ u <= v
        /\ BlockSize \in Nat /\ c \in Nat /\ Len(d) \in Nat /\ Len(d) <= c
    BY <1>0, <1>4, <1>5
  <2> HIDE DEF u, v, l
  <2>2. o + BlockSize <= Len(A) /\ (o + BlockSize) + Len(d) <= Len(A) BY ONLY <2>1
  <2>3. (o + BlockSize) + Len(d) <= u BY ONLY <2>1
  <2>4. QED BY <2>2, <2>3 DEF u
<1>10. CASE ~(o + BlockSize <= Len(C))
  <2>1. o + BlockSize > Len(C) /\ Len(C) # Len(A)
    <3> HIDE DEF l
    <3>1. QED BY <1>0, <1>5, <1>9, <1>10
  <2>2. EndsAt(C, o) BY <2>1 DEF EndsAt
  <2>3. g[o] = [placed |-> << >>, threw |-> FALSE] BY <1>8, <2>2, UnpackIs
  <2>4. Unpacked([placed |-> << >>, threw |-> FALSE], all, e, i, C, A, p)
    BY <1>1, <2>1, NoneUnpacked DEF n
  <2>5. QED BY <2>3, <2>4 DEF o
<1>11. CASE o + BlockSize <= Len(C)
  <2>1. /\ ~EndsAt(C, o)
        /\ ChecksumFits(BlockAt(C, o)) => HeadAt(C, o) = Header(a)
        /\ p = 0 => ChecksumFits(BlockAt(C, o))
    BY <1>5, <1>11, HeaderArrives
  <2>2. CASE ~ChecksumFits(BlockAt(C, o))
    <3>1. g[o] = [placed |-> << >>, threw |-> TRUE] BY <1>8, <2>1, <2>2, UnpackIs
    <3>2. p # 0 BY <2>1, <2>2
    <3>3. Unpacked([placed |-> << >>, threw |-> TRUE], all, e, i, C, A, p)
      BY <1>1, <3>2, NoneUnpacked DEF n
    <3>4. QED BY <3>1, <3>3 DEF o
  <2>3. CASE ChecksumFits(BlockAt(C, o))
    <3> DEFINE x == EntryAt(C, o)
    <3>1. HeadAt(C, o) = Header(a) BY <2>1, <2>3
    <3>2. Behind(C, o) = e[l + 1]
      <4>1. Behind(C, o) = o + BlockSize + c BY <1>7, <3>1 DEF Behind, c
      <4>2. o + BlockSize + c = o + (BlockSize + c)
        <5> HIDE DEF l
        <5>1. QED BY <1>0, <1>4, <1>5
      <4>3. QED BY <1>5, <4>1, <4>2
    <3>3. g[o] = [placed |-> << x >> \o r.placed, threw |-> r.threw]
      BY <1>8, <2>1, <2>3, <3>2, UnpackIs
    <3>4. /\ BytesArrived(C, o) \in Seq(Nat)
          /\ Len(BytesArrived(C, o)) <= Len(d)
          /\ \A j \in 1..Len(BytesArrived(C, o)) : BytesArrived(C, o)[j] # d[j] => p = (o + BlockSize) + j
          /\ Len(BytesArrived(C, o)) < Len(d) => Len(C) < (o + BlockSize) + Len(d)
      <4>1. HeadAt(C, o).size = Len(d) BY <1>7, <3>1
      <4>2. o \in Nat /\ d \in Seq(Nat) /\ o + BlockSize <= Len(C) BY <1>3, <1>5, <1>11
      <4>3. \A j \in 1..Len(d) : A[(o + BlockSize) + j] = [byte |-> d[j]] BY <1>5
      <4>4. QED BY <4>1, <4>2, <4>3, DataArrives
    <3>5. x = [path |-> a.path, kind |-> a.kind, data |-> BytesArrived(C, o)]
      BY <1>7, <3>1 DEF EntryAt, Entry, BytesArrived
    <3> HIDE DEF x
    <3>6. x.path = a.path /\ x.kind = a.kind /\ x.data = BytesArrived(C, o) /\ x \in ArchivedEntry
      BY <1>3, <3>4, <3>5 DEF ArchivedEntry
    <3>7. Standing(x, a, o + BlockSize, p) BY <3>4, <3>6 DEF Standing, d
    <3>8. ASSUME Len(x.data) < Len(d) PROVE r.placed = << >> /\ Len(C) < Len(A)
      <4>1. Len(C) < (o + BlockSize) + Len(d) BY <3>4, <3>6, <3>8
      <4>2. /\ Len(C) < Len(A) /\ e[l + 1] + BlockSize > Len(C) /\ e[l + 1] \in Nat
        <5> HIDE DEF l
        <5>1. QED BY <1>0, <1>4, <1>5, <1>9, <4>1
      <4>3. EndsAt(C, e[l + 1]) BY <4>2 DEF EndsAt
      <4>4. r = [placed |-> << >>, threw |-> FALSE] BY <4>2, <4>3, UnpackIs
      <4>5. QED BY <4>2, <4>4
    <3>9. Len(x.data) < Len(all[i + 1].data) => r.placed = << >> /\ Len(C) < Len(A)
      BY <3>8 DEF a, d
    <3>10. Standing(x, all[i + 1], e[i + 1] + BlockSize, p) BY <3>7 DEF a, o
    <3>11. Unpacked([placed |-> <<x>> \o r.placed, threw |-> r.threw], all, e, i, C, A, p)
      <4> HIDE DEF r
      <4>1. Unpacked(r, all, e, i + 1, C, A, p) BY <1>6
      <4>2. QED BY <1>0, <3>9, <3>10, <4>1, UnpackedBefore DEF n
    <3>12. QED BY <3>3, <3>11 DEF o
  <2>4. QED BY <2>2, <2>3
<1>12. QED BY <1>10, <1>11

(* All of it: from the front.                                              *)
LEMMA UnpackedAll ==
    ASSUME NEW all \in Seq(ArchivedEntry), NEW e, NEW A, NEW C, NEW p,
           IsArchive(A, e, all), Arrived(C, A, p)
    PROVE  Unpacked(writeSnapshot(C), all, e, 0, C, A, p)
<1> DEFINE n == Len(all)
<1>0. n \in Nat /\ BlockSize \in Nat /\ BlockSize >= 2 BY LenProperties, ListingsAssumption
<1>1. PICK g : (\A o \in Nat : g[o] = Unpack(C, o, g)) /\ writeSnapshot(C) = g[0]
  BY SnapshotIsUnpacked DEF Arrived
<1> DEFINE S == {d \in Nat : d <= n => Unpacked(g[e[(n - d) + 1]], all, e, n - d, C, A, p)}
<1>2. 0 \in S
  <2> DEFINE o == e[n + 1]
  <2>1. n + 1 \in 1..(n + 1) /\ n \in 0..n /\ n - 0 = n BY <1>0
  <2>2. o \in Nat /\ \A j \in 1..(2 * BlockSize) : A[o + j] = Zero BY <2>1 DEF IsArchive
  <2>3. \A j \in 1..BlockSize : j \in 1..(2 * BlockSize) BY <1>0
  <2>4. EndsAt(C, o) \/ (~ChecksumFits(BlockAt(C, o)) /\ p # 0) BY <2>2, <2>3, ZerosArrive
  <2>5. g[o] = Unpack(C, o, g) BY <1>1, <2>2
  <2>6. Unpacked(g[o], all, e, n, C, A, p)
    <3>1. CASE EndsAt(C, o)
      <4>1. g[o] = [placed |-> << >>, threw |-> FALSE] BY <2>5, <3>1, UnpackIs
      <4>2. Unpacked([placed |-> << >>, threw |-> FALSE], all, e, n, C, A, p)
        BY <2>1, NoneUnpacked
      <4>3. QED BY <4>1, <4>2
    <3>2. CASE ~EndsAt(C, o)
      <4>1. g[o] = [placed |-> << >>, threw |-> TRUE] BY <2>4, <2>5, <3>2, UnpackIs
      <4>2. Unpacked([placed |-> << >>, threw |-> TRUE], all, e, n, C, A, p)
        BY <2>1, <2>4, <3>2, NoneUnpacked
      <4>3. QED BY <4>1, <4>2
    <3>3. QED BY <3>1, <3>2
  <2>7. QED BY <2>1, <2>6
<1>3. ASSUME NEW d \in Nat, d \in S PROVE d + 1 \in S
  <2>1. SUFFICES ASSUME d + 1 <= n
                 PROVE  Unpacked(g[e[(n - (d + 1)) + 1]], all, e, n - (d + 1), C, A, p)
    OBVIOUS
  <2> DEFINE i == n - (d + 1)
  <2>2. i \in Nat /\ i + 1 <= n /\ n - d = i + 1 /\ d <= n BY <1>0, <2>1
  <2>3. Unpacked(g[e[(n - d) + 1]], all, e, n - d, C, A, p) BY <1>3, <2>2
  <2> HIDE DEF i
  <2>4. Unpacked(g[e[(i + 1) + 1]], all, e, i + 1, C, A, p) BY <2>2, <2>3
  <2>5. Unpacked(g[e[i + 1]], all, e, i, C, A, p) BY <1>1, <2>2, <2>4, UnpackedStep
  <2>6. QED BY <2>5 DEF i
<1>4. n \in S
  <2> HIDE DEF S
  <2>1. QED BY <1>0, <1>2, <1>3, Induction
<1>5. n <= n /\ n - n = 0 /\ 0 + 1 = 1 BY <1>0
<1>6. Unpacked(g[e[1]], all, e, 0, C, A, p) BY <1>4, <1>5
<1>7. e[1] = 0 BY DEF IsArchive
<1>8. QED BY <1>1, <1>6, <1>7

(* Each entry of an archive ends before the next begins.                   *)
LEMMA EntriesApart ==
    ASSUME NEW all \in Seq(ArchivedEntry), NEW A, NEW e, IsArchive(A, e, all),
           NEW i \in 1..Len(all), NEW k \in 1..Len(all), i < k
    PROVE  e[i + 1] <= e[k]
<1> DEFINE n == Len(all)  S == {d \in Nat : (i + 1) + d <= n => e[i + 1] <= e[(i + 1) + d]}
<1>1. n \in Nat /\ BlockSize \in Nat BY LenProperties, ListingsAssumption
<1>2. \A j \in 1..n : e[j] \in Nat /\ e[j + 1] \in Nat /\ e[j] <= e[j + 1]
  <2>1. SUFFICES ASSUME NEW j \in 1..n
                 PROVE  e[j] \in Nat /\ e[j + 1] \in Nat /\ e[j] <= e[j + 1]
    OBVIOUS
  <2> DEFINE c == blocksFor(Len(all[j].data))
  <2>2. j \in 1..(n + 1) /\ j + 1 \in 1..(n + 1) BY <1>1
  <2>3. e[j] \in Nat /\ e[j + 1] \in Nat /\ e[j + 1] = e[j] + (BlockSize + c)
    BY <2>2 DEF IsArchive
  <2>4. c \in Nat
    <3>1. all[j] \in ArchivedEntry BY ElementOfSeq
    <3>2. Len(all[j].data) \in Nat BY <3>1, PackedEntryIs
    <3>3. QED BY <3>2, BlocksForIs
  <2> HIDE DEF c
  <2>5. QED BY <1>1, <2>3, <2>4
<1>3. 0 \in S
  <2>1. i \in 1..n /\ (i + 1) + 0 = i + 1 BY <1>1
  <2>2. e[i + 1] \in Nat BY <1>2
  <2>3. e[i + 1] <= e[(i + 1) + 0] BY <2>1, <2>2
  <2>4. QED BY <2>3
<1>4. ASSUME NEW d \in Nat, d \in S PROVE d + 1 \in S
  <2>1. SUFFICES ASSUME (i + 1) + (d + 1) <= n PROVE e[i + 1] <= e[(i + 1) + (d + 1)] OBVIOUS
  <2> DEFINE j == (i + 1) + d
  <2>2. j \in 1..n /\ (i + 1) + (d + 1) = j + 1 /\ j <= n BY <1>1, <2>1
  <2>3. e[i + 1] <= e[j] BY <1>4, <2>2
  <2> HIDE DEF j
  <2>4. e[j] \in Nat /\ e[j + 1] \in Nat /\ e[j] <= e[j + 1] /\ e[i + 1] \in Nat BY <1>2, <2>2
  <2>5. e[i + 1] <= e[j + 1] BY <2>3, <2>4
  <2>6. QED BY <2>2, <2>5
<1> DEFINE d == k - (i + 1)
<1>5. d \in Nat /\ (i + 1) + d = k /\ k <= n BY <1>1
<1>6. d \in S
  <2> HIDE DEF S, d
  <2>1. QED BY <1>3, <1>4, <1>5, Induction
<1>7. QED BY <1>5, <1>6

(* What an entry may differ in from the one that it stands for.            *)
LEMMA StandingIs ==
    ASSUME NEW a \in ArchivedEntry, NEW x, NEW from, NEW p, Standing(x, a, from, p)
    PROVE  /\ x = [a EXCEPT !.data = x.data]
           /\ x.data \in Seq(Nat) /\ a.data \in Seq(Nat)
           /\ Len(x.data) = Len(a.data) /\ x # a =>
                 \E j \in 1..Len(a.data) : x.data[j] # a.data[j]
           /\ Len(x.data) < Len(a.data) /\ (\A j \in 1..Len(x.data) : x.data[j] = a.data[j]) =>
                 IsStrictPrefix(x.data, a.data)
<1> DEFINE d == x.data  b == a.data
<1>1. x \in ArchivedEntry /\ x.path = a.path /\ x.kind = a.kind BY DEF Standing
<1>2. x = [a EXCEPT !.data = x.data] BY <1>1 DEF ArchivedEntry
<1>3. d \in Seq(Nat) /\ b \in Seq(Nat) BY <1>1 DEF ArchivedEntry
<1>4. Len(d) \in Nat /\ Len(b) \in Nat BY <1>3, LenProperties
<1>5. d = b => x = a
  <2>1. x = [path |-> x.path, kind |-> x.kind, data |-> d] BY <1>1 DEF ArchivedEntry
  <2>2. a = [path |-> a.path, kind |-> a.kind, data |-> b] BY DEF ArchivedEntry
  <2> HIDE DEF d, b
  <2>3. QED BY <1>1, <2>1, <2>2
<1> HIDE DEF d, b
<1>6. Len(d) = Len(b) /\ x # a => \E j \in 1..Len(b) : d[j] # b[j]
  <2>1. SUFFICES ASSUME Len(d) = Len(b), \A j \in 1..Len(b) : d[j] = b[j] PROVE d = b
    BY <1>5
  <2>2. QED BY <1>3, <2>1, SeqEqual
<1>7. ASSUME Len(d) < Len(b), \A j \in 1..Len(d) : d[j] = b[j] PROVE IsStrictPrefix(d, b)
  <2> DEFINE m == Len(d)
  <2>1. /\ 1 \in Int /\ m \in Int /\ m \in Nat /\ \A j \in 1..m : d[j] \in Nat /\ b[j] \in Nat
        /\ (IF 1 <= m THEN m - 1 + 1 ELSE 0) = m /\ m - 1 + 1 = m
        /\ \A j \in 1..m : 1 + j - 1 = j
    <3>1. m \in Nat /\ \A j \in 1..m : j \in 1..Len(d) /\ j \in 1..Len(b) BY <1>4, <1>7
    <3>2. \A j \in 1..m : d[j] \in Nat /\ b[j] \in Nat BY <1>3, <3>1, ElementOfSeq
    <3> HIDE DEF m
    <3>3. /\ 1 \in Int /\ m \in Int
          /\ (IF 1 <= m THEN m - 1 + 1 ELSE 0) = m /\ m - 1 + 1 = m
          /\ \A j \in 1..m : 1 + j - 1 = j
      BY ONLY <3>1
    <3>4. QED BY <3>1, <3>2, <3>3
  <2>2. /\ SubSeq(d, 1, m) \in Seq(Nat) /\ Len(SubSeq(d, 1, m)) = m
        /\ \A j \in 1..m : SubSeq(d, 1, m)[j] = d[j]
    BY <2>1, SubSeqProperties
  <2>3. /\ SubSeq(b, 1, m) \in Seq(Nat) /\ Len(SubSeq(b, 1, m)) = m
        /\ \A j \in 1..m : SubSeq(b, 1, m)[j] = b[j]
    BY <2>1, SubSeqProperties
  <2>4. SubSeq(d, 1, m) = SubSeq(b, 1, m) BY <1>7, <2>2, <2>3, SeqEqual
  <2>5. Len(d) <= Len(b) /\ d # b BY <1>4, <1>7
  <2>6. QED BY <2>4, <2>5 DEF IsStrictPrefix, IsPrefix
<1>8. QED BY <1>2, <1>3, <1>6, <1>7 DEF d, b

Wrong(got, all) == {i \in DOMAIN got.placed : got.placed[i] # all[i]}

(* What unpacking an archive as it arrived gives, entry for entry.         *)
LEMMA EntriesStand ==
    ASSUME NEW all \in Seq(ArchivedEntry), NEW e, NEW A, NEW C, NEW p, NEW got,
           IsArchive(A, e, all), Unpacked(got, all, e, 0, C, A, p)
    PROVE  /\ got.placed \in Seq(ArchivedEntry) /\ Len(got.placed) \in Nat
           /\ Len(got.placed) <= Len(all)
           /\ ~got.threw /\ Len(C) = Len(A) => Len(got.placed) = Len(all)
           /\ DOMAIN got.placed = 1..Len(got.placed)
           /\ \A k \in 1..Len(got.placed) :
                 /\ k \in 1..Len(all) /\ all[k] \in ArchivedEntry
                 /\ e[k] + BlockSize \in Nat
                 /\ Standing(got.placed[k], all[k], e[k] + BlockSize, p)
                 /\ Len(got.placed[k].data) < Len(all[k].data) =>
                       k = Len(got.placed) /\ Len(C) < Len(A)
<1> DEFINE m == Len(got.placed)  n == Len(all)
<1>1. n \in Nat /\ BlockSize \in Nat /\ n - 0 = n BY LenProperties, ListingsAssumption
<1>2. got.placed \in Seq(ArchivedEntry) /\ m <= n /\ (~got.threw /\ Len(C) = Len(A) => m = n)
  BY <1>1 DEF Unpacked
<1>3. m \in Nat /\ DOMAIN got.placed = 1..m BY <1>2, LenProperties
<1>4. ASSUME NEW k \in 1..m
      PROVE  /\ k \in 1..n /\ all[k] \in ArchivedEntry
             /\ e[k] + BlockSize \in Nat
             /\ Standing(got.placed[k], all[k], e[k] + BlockSize, p)
             /\ Len(got.placed[k].data) < Len(all[k].data) => k = m /\ Len(C) < Len(A)
  <2>1. k \in 1..n /\ k \in 1..(n + 1) /\ 0 + k = k
    <3> HIDE DEF m, n
    <3>1. QED BY <1>1, <1>2, <1>3
  <2>2. all[k] \in ArchivedEntry BY <2>1, ElementOfSeq
  <2>3. e[k] + BlockSize \in Nat
    <3>1. e[k] \in Nat BY <2>1 DEF IsArchive
    <3>2. QED BY <1>1, <3>1
  <2>4. /\ Standing(got.placed[0 + k], all[0 + k], e[0 + k] + BlockSize, p)
        /\ Len(got.placed[0 + k].data) < Len(all[0 + k].data) => 0 + k = m /\ Len(C) < Len(A)
    <3>1. k \in 1..Len(got.placed) OBVIOUS
    <3>2. \A q \in 1..Len(got.placed) :
             /\ Standing(got.placed[q], all[0 + q], e[0 + q] + BlockSize, p)
             /\ Len(got.placed[q].data) < Len(all[0 + q].data) =>
                   q = Len(got.placed) /\ Len(C) < Len(A)
      BY DEF Unpacked
    <3>3. QED BY <2>1, <3>1, <3>2
  <2>5. /\ Standing(got.placed[k], all[k], e[k] + BlockSize, p)
        /\ Len(got.placed[k].data) < Len(all[k].data) => k = m /\ Len(C) < Len(A)
    <3>1. 0 + k = k BY <2>1
    <3>2. QED BY <2>4, <3>1, Zenon
  <2>6. QED BY <2>1, <2>2, <2>3, <2>5
<1>5. QED BY <1>2, <1>3, <1>4

(* Whatever happened to the archive, what is unpacked are the first        *)
(* entries, but for their data.                                            *)
LEMMA FirstEntriesSurvive ==
    ASSUME NEW all \in Seq(ArchivedEntry), NEW e, NEW A, NEW C, NEW p, NEW got,
           IsArchive(A, e, all), Unpacked(got, all, e, 0, C, A, p)
    PROVE  /\ Len(got.placed) <= Len(all)
           /\ \A i \in Wrong(got, all) : got.placed[i] = [all[i] EXCEPT !.data = got.placed[i].data]
<1>1. ASSUME NEW i \in Wrong(got, all)
      PROVE  got.placed[i] = [all[i] EXCEPT !.data = got.placed[i].data]
  <2>1. i \in 1..Len(got.placed) BY EntriesStand DEF Wrong
  <2>2. all[i] \in ArchivedEntry /\ Standing(got.placed[i], all[i], e[i] + BlockSize, p)
    BY <2>1, EntriesStand
  <2>3. QED BY <2>2, StandingIs
<1>2. QED BY <1>1, EntriesStand

(* With no byte changed only the last is short, and only if the archive    *)
(* is.                                                                     *)
LEMMA UnchangedSurvive ==
    ASSUME NEW all \in Seq(ArchivedEntry), NEW e, NEW A, NEW C, NEW got,
           IsArchive(A, e, all), Unpacked(got, all, e, 0, C, A, 0)
    PROVE  /\ ~got.threw /\ Wrong(got, all) \subseteq {Len(got.placed)}
           /\ \A i \in Wrong(got, all) : IsStrictPrefix(got.placed[i].data, all[i].data)
           /\ Len(C) = Len(A) => got.placed = all
<1>1. ~got.threw BY DEF Unpacked
<1>2. ASSUME NEW i \in 1..Len(got.placed), got.placed[i] # all[i]
      PROVE  /\ i = Len(got.placed) /\ Len(C) < Len(A)
             /\ IsStrictPrefix(got.placed[i].data, all[i].data)
  <2> DEFINE x == got.placed[i]  a == all[i]  from == e[i] + BlockSize
  <2>1. /\ a \in ArchivedEntry /\ from \in Nat /\ Standing(x, a, from, 0)
        /\ Len(x.data) < Len(a.data) => i = Len(got.placed) /\ Len(C) < Len(A)
    BY EntriesStand
  <2> HIDE DEF x, a, from
  <2>2. Len(x.data) <= Len(a.data) /\ \A j \in 1..Len(x.data) : x.data[j] # a.data[j] => 0 = from + j
    BY <2>1 DEF Standing
  <2>3. /\ x.data \in Seq(Nat) /\ a.data \in Seq(Nat)
        /\ Len(x.data) = Len(a.data) /\ x # a =>
              \E j \in 1..Len(a.data) : x.data[j] # a.data[j]
        /\ Len(x.data) < Len(a.data) /\ (\A j \in 1..Len(x.data) : x.data[j] = a.data[j]) =>
              IsStrictPrefix(x.data, a.data)
    BY <2>1, StandingIs
  <2>4. Len(x.data) \in Nat /\ Len(a.data) \in Nat BY <2>3, LenProperties
  <2>5. \A j \in 1..Len(x.data) : x.data[j] = a.data[j]
    <3>1. \A j \in 1..Len(x.data) : 0 # from + j BY <2>1, <2>4
    <3>2. QED BY <2>2, <3>1
  <2>6. x # a BY <1>2 DEF x, a
  <2>7. Len(x.data) # Len(a.data) BY <2>3, <2>5, <2>6
  <2>8. Len(x.data) < Len(a.data) BY <2>2, <2>4, <2>7
  <2>9. QED BY <2>1, <2>3, <2>5, <2>8 DEF x, a
<1>3. DOMAIN got.placed = 1..Len(got.placed) BY EntriesStand
<1>4. ASSUME Len(C) = Len(A) PROVE got.placed = all
  <2>1. Len(got.placed) = Len(all) /\ got.placed \in Seq(ArchivedEntry) BY <1>1, <1>4, EntriesStand
  <2>2. \A i \in 1..Len(got.placed) : got.placed[i] = all[i]
    <3>1. Len(A) \in Nat BY LenProperties DEF IsArchive
    <3>2. ~(Len(C) < Len(A)) BY <1>4, <3>1
    <3>3. QED BY <1>2, <3>2
  <2>3. QED BY <2>1, <2>2, SeqEqual
<1>5. QED BY <1>1, <1>2, <1>3, <1>4 DEF Wrong

(* With one byte changed one byte of one entry is.                         *)
LEMMA ChangedSurvive ==
    ASSUME NEW all \in Seq(ArchivedEntry), NEW e, NEW A, NEW C, NEW p, NEW got,
           IsArchive(A, e, all), Arrived(C, A, p), Unpacked(got, all, e, 0, C, A, p),
           Len(C) = Len(A)
    PROVE  /\ \A i, j \in Wrong(got, all) : i = j
           /\ \A i \in Wrong(got, all) :
                 /\ Len(got.placed[i].data) = Len(all[i].data)
                 /\ Cardinality({k \in DOMAIN all[i].data :
                                   got.placed[i].data[k] # all[i].data[k]}) = 1
           /\ ~got.threw => Len(got.placed) = Len(all)
<1> DEFINE x(i) == got.placed[i].data  b(i) == all[i].data  from(i) == e[i] + BlockSize
<1>0. BlockSize \in Nat /\ Len(A) \in Nat /\ p \in Nat /\ Len(all) \in Nat
  BY LenProperties, ListingsAssumption DEF Arrived
<1>1. ASSUME NEW i \in Wrong(got, all)
      PROVE  /\ i \in 1..Len(all) /\ from(i) \in Nat
             /\ b(i) \in Seq(Nat) /\ Len(x(i)) = Len(b(i))
             /\ \A j \in 1..Len(b(i)) : x(i)[j] # b(i)[j] => p = from(i) + j
             /\ \E j \in 1..Len(b(i)) : x(i)[j] # b(i)[j]
  <2>1. i \in 1..Len(got.placed) /\ got.placed[i] # all[i] BY EntriesStand DEF Wrong
  <2>2. /\ i \in 1..Len(all) /\ all[i] \in ArchivedEntry /\ e[i] + BlockSize \in Nat
        /\ Standing(got.placed[i], all[i], e[i] + BlockSize, p)
        /\ Len(got.placed[i].data) < Len(all[i].data) => Len(C) < Len(A)
    BY <2>1, EntriesStand
  <2>3. /\ x(i) \in Seq(Nat) /\ b(i) \in Seq(Nat)
        /\ Len(x(i)) = Len(b(i)) /\ got.placed[i] # all[i] =>
              \E j \in 1..Len(b(i)) : x(i)[j] # b(i)[j]
    BY <2>2, StandingIs
  <2>4. /\ Len(x(i)) <= Len(b(i))
        /\ \A j \in 1..Len(x(i)) : x(i)[j] # b(i)[j] => p = from(i) + j
    BY <2>2 DEF Standing
  <2>5. Len(x(i)) = Len(b(i))
    <3>1. Len(x(i)) \in Nat /\ Len(b(i)) \in Nat BY <2>3, LenProperties
    <3>2. ~(Len(x(i)) < Len(b(i))) BY <1>0, <2>2
    <3> DEFINE u == Len(x(i))  v == Len(b(i))
    <3>3. u \in Nat /\ v \in Nat /\ ~(u < v) /\ u <= v BY <2>4, <3>1, <3>2
    <3> HIDE DEF u, v
    <3>4. u = v BY <3>3
    <3>5. QED BY <3>4 DEF u, v
  <2>6. QED BY <2>1, <2>2, <2>3, <2>4, <2>5
<1>2. ASSUME NEW i \in Wrong(got, all), NEW j \in Wrong(got, all), i < j PROVE FALSE
  <2>1. PICK k \in 1..Len(b(i)) : p = from(i) + k BY <1>1
  <2>2. PICK l \in 1..Len(b(j)) : p = from(j) + l BY <1>1
  <2>3. e[i + 1] <= e[j] BY <1>1, <1>2, EntriesApart
  <2> DEFINE c == blocksFor(Len(all[i].data))  n == Len(b(i))
  <2>4. e[i + 1] = e[i] + (BlockSize + c) /\ e[i] \in Nat /\ e[j] \in Nat
    <3> DEFINE m == Len(all)
    <3>1. i \in 1..m /\ j \in 1..m /\ m \in Nat BY <1>0, <1>1
    <3> HIDE DEF m
    <3>2. i \in 1..(m + 1) /\ j \in 1..(m + 1) BY ONLY <3>1
    <3>3. e[i] \in Nat /\ e[j] \in Nat BY <3>2 DEF IsArchive, m
    <3>4. e[i + 1] = e[i] + (BlockSize + c) BY <3>1 DEF IsArchive, m
    <3>5. QED BY <3>3, <3>4
  <2>5. n \in Nat /\ c \in Nat /\ n <= c BY <1>1, LenProperties, BlocksForIs
  <2>6. p = (e[i] + BlockSize) + k /\ p = (e[j] + BlockSize) + l /\ k \in 1..n /\ l \in Nat /\ l >= 1
    <3>1. Len(b(j)) \in Nat BY <1>1, LenProperties
    <3>2. QED BY <2>1, <2>2, <3>1
  <2> HIDE DEF c, n
  <2>7. k \in Nat /\ k <= c BY <2>5, <2>6
  <2> DEFINE u == e[i]  v == e[j]  w == e[i + 1]
  <2>8. /\ u \in Nat /\ v \in Nat /\ c \in Nat /\ BlockSize \in Nat /\ k \in Nat /\ l \in Nat
        /\ w <= v /\ w = u + (BlockSize + c) /\ k <= c /\ l >= 1
        /\ (u + BlockSize) + k = (v + BlockSize) + l
    BY <1>0, <2>3, <2>4, <2>5, <2>6, <2>7
  <2> HIDE DEF u, v, w
  <2>9. QED BY ONLY <2>8
<1>3. \A i, j \in Wrong(got, all) : i = j
  <2>1. SUFFICES ASSUME NEW i \in Wrong(got, all), NEW j \in Wrong(got, all) PROVE i = j OBVIOUS
  <2>2. i \in Int /\ j \in Int BY <1>0, <1>1
  <2>3. i < j \/ j < i \/ i = j BY <2>2
  <2>4. QED BY <1>2, <2>3
<1>4. ASSUME NEW i \in Wrong(got, all)
      PROVE  Cardinality({k \in DOMAIN b(i) : x(i)[k] # b(i)[k]}) = 1
  <2>1. PICK k \in 1..Len(b(i)) : x(i)[k] # b(i)[k] BY <1>1
  <2>2. DOMAIN b(i) = 1..Len(b(i)) /\ Len(b(i)) \in Nat /\ from(i) \in Nat BY <1>1, LenProperties
  <2>3. \A l \in 1..Len(b(i)) : x(i)[l] # b(i)[l] => l = k
    <3>1. SUFFICES ASSUME NEW l \in 1..Len(b(i)), x(i)[l] # b(i)[l] PROVE l = k OBVIOUS
    <3>2. p = from(i) + k /\ p = from(i) + l BY <1>1, <2>1, <3>1
    <3> DEFINE f == from(i)  n == Len(b(i))
    <3>3. p = f + k /\ p = f + l /\ f \in Nat /\ n \in Nat /\ k \in 1..n /\ l \in 1..n
      BY <2>2, <3>2
    <3> HIDE DEF f, n
    <3>4. QED BY ONLY <3>3
  <2>4. {l \in DOMAIN b(i) : x(i)[l] # b(i)[l]} = {k} BY <2>1, <2>2, <2>3
  <2>5. Cardinality({k}) = 1 BY FS_Singleton
  <2>6. QED BY <2>4, <2>5
<1>5. ~got.threw => Len(got.placed) = Len(all) BY EntriesStand
<1>6. QED BY <1>1, <1>3, <1>4, <1>5

(* An archive is as it was packed, or the first part of that, or that with *)
(* one byte changed: inductive, and all that the rest needs.               *)
Travelled ==
    LET A == readSnapshot(listing)
    IN  /\ listing \in Listings
        /\ \/ flaw = "sound" /\ archive = A
           \/ /\ flaw = "cut" /\ A # NoArchive
              /\ \E n \in 0..(Len(A) - 1) : archive = SubSeq(A, 1, n)
           \/ /\ flaw = "changed" /\ A # NoArchive
              /\ \E n \in DOMAIN A, byte \in Changed : archive = [A EXCEPT ![n] = byte]

LEMMA TravelledInit == SnapshotInit => Travelled
BY DEF SnapshotInit, Travelled

LEMMA TravelledNext == Travelled /\ [SnapshotNext]_snapshotVars => Travelled'
<1> SUFFICES ASSUME Travelled, [SnapshotNext]_snapshotVars PROVE Travelled' OBVIOUS
<1>1. CASE Truncate
  <2>1. flaw = "sound" /\ archive = readSnapshot(listing) /\ archive # NoArchive
    BY <1>1 DEF Truncate, Travelled
  <2>2. listing' = listing /\ listing \in Listings /\ flaw' = "cut"
    BY <1>1 DEF Truncate, Travelled
  <2>3. \E n \in 0..(Len(archive) - 1) : archive' = SubSeq(archive, 1, n)
    BY <1>1 DEF Truncate
  <2>4. QED BY <2>1, <2>2, <2>3 DEF Travelled
<1>2. CASE Damage
  <2>1. flaw = "sound" /\ archive = readSnapshot(listing) /\ archive # NoArchive
    BY <1>2 DEF Damage, Travelled
  <2>2. listing' = listing /\ listing \in Listings /\ flaw' = "changed"
    BY <1>2 DEF Damage, Travelled
  <2>3. \E n \in DOMAIN archive, byte \in Changed : archive' = [archive EXCEPT ![n] = byte]
    BY <1>2 DEF Damage
  <2>4. QED BY <2>1, <2>2, <2>3 DEF Travelled
<1>3. CASE UNCHANGED snapshotVars BY <1>3 DEF snapshotVars, Travelled
<1>4. QED BY <1>1, <1>2, <1>3 DEF SnapshotNext

(* What an archive has become has the form that its entries are read from. *)
LEMMA TravelledIs ==
    ASSUME Travelled, archive # NoArchive
    PROVE  /\ listing \in Seq(ArchivedEntry)
           /\ \E A, e, p :
                 /\ IsArchive(A, e, listing) /\ Arrived(archive, A, p)
                 /\ \/ flaw = "sound" /\ p = 0 /\ Len(archive) = Len(A)
                    \/ flaw = "cut" /\ p = 0
                    \/ flaw = "changed" /\ Len(archive) = Len(A)
<1> DEFINE A == readSnapshot(listing)  n == Len(A)
<1>1. listing \in Seq(ArchivedEntry) BY ListingsAssumption DEF Travelled, ArchivedEntry
<1>2. A # NoArchive BY DEF Travelled
<1>3. A = FlattenSeq(Blocks(listing)) \o End BY <1>2 DEF readSnapshot, Blocks
<1>4. PICK e : IsArchive(A, e, listing) BY <1>1, <1>3, PackedIsArchive
<1>5. A \in Seq(Cell) /\ n \in Nat /\ DOMAIN A = 1..n BY <1>4, LenProperties DEF IsArchive
<1>6. CASE flaw = "sound" /\ archive = A
  <2>1. Arrived(archive, A, 0) BY <1>5, <1>6 DEF Arrived
  <2>2. QED BY <1>1, <1>4, <1>6, <2>1
<1>7. CASE flaw = "cut" /\ \E m \in 0..(n - 1) : archive = SubSeq(A, 1, m)
  <2>1. PICK m \in 0..(n - 1) : archive = SubSeq(A, 1, m) BY <1>7
  <2> HIDE DEF A
  <2>2. /\ m \in Nat /\ m \in Int /\ 1 \in Int /\ m <= n
        /\ (IF 1 <= m THEN m - 1 + 1 ELSE 0) = m /\ m - 1 + 1 = m
        /\ \A k \in 1..m : 1 + k - 1 = k /\ k \in 1..n
    <3> HIDE DEF n
    <3>1. QED BY <1>5, <2>1
  <2>3. \A k \in 1..m : A[k] \in Cell BY <1>5, <2>2, ElementOfSeq
  <2>4. /\ archive \in Seq(Cell) /\ Len(archive) = m
        /\ \A k \in 1..m : archive[k] = A[k]
    <3>1. /\ SubSeq(A, 1, m) \in Seq(Cell)
          /\ Len(SubSeq(A, 1, m)) = (IF 1 <= m THEN m - 1 + 1 ELSE 0)
          /\ \A k \in 1..(m - 1 + 1) : SubSeq(A, 1, m)[k] = A[1 + k - 1]
      BY <2>2, <2>3, SubSeqProperties
    <3>2. QED BY <2>1, <2>2, <3>1
  <2>5. Arrived(archive, A, 0) BY <1>5, <2>2, <2>4 DEF Arrived
  <2>6. QED BY <1>1, <1>4, <1>7, <2>5
<1>8. CASE flaw = "changed" /\ \E p \in DOMAIN A, byte \in Changed : archive = [A EXCEPT ![p] = byte]
  <2>1. PICK p \in DOMAIN A, byte \in Changed : archive = [A EXCEPT ![p] = byte] BY <1>8
  <2> HIDE DEF A
  <2>2. byte \in Cell BY ChangedIs
  <2>3. A \in [1..n -> Cell] BY <1>5, LenProperties, ElementOfSeq
  <2>4. archive \in [1..n -> Cell] BY <1>5, <2>1, <2>2, <2>3
  <2>5. archive \in Seq(Cell) /\ Len(archive) = n BY <1>5, <2>4, SeqDef, LenProperties
  <2>6. \A k \in 1..n : archive[k] = A[k] \/ (k = p /\ archive[k] \in Changed)
    BY <1>5, <2>1, <2>3
  <2>7. p \in Nat BY <1>5, <2>1
  <2>8. Arrived(archive, A, p) BY <1>5, <2>5, <2>6, <2>7 DEF Arrived
  <2>9. QED BY <1>1, <1>4, <1>8, <2>5, <2>8
<1>9. QED BY <1>6, <1>7, <1>8 DEF Travelled

LEMMA TravelledSurvives == Travelled => SnapshotsSurvive
<1> SUFFICES ASSUME Travelled, archive # NoArchive PROVE SnapshotsSurvive
  BY DEF SnapshotsSurvive
<1> DEFINE got == writeSnapshot(archive)
<1>1. listing \in Seq(ArchivedEntry) BY TravelledIs
<1>2. PICK A, e, p :
        /\ IsArchive(A, e, listing) /\ Arrived(archive, A, p)
        /\ \/ flaw = "sound" /\ p = 0 /\ Len(archive) = Len(A)
           \/ flaw = "cut" /\ p = 0
           \/ flaw = "changed" /\ Len(archive) = Len(A)
  BY TravelledIs
<1>3. Unpacked(got, listing, e, 0, archive, A, p) BY <1>1, <1>2, UnpackedAll
<1> HIDE DEF got
<1>4. /\ Len(got.placed) <= Len(listing)
      /\ \A i \in Wrong(got, listing) : got.placed[i] = [listing[i] EXCEPT !.data = got.placed[i].data]
  BY <1>1, <1>2, <1>3, FirstEntriesSurvive
<1>5. flaw = "sound" => got.placed = listing /\ ~got.threw
  BY <1>1, <1>2, <1>3, UnchangedSurvive
<1>6. flaw = "cut" =>
        /\ ~got.threw /\ Wrong(got, listing) \subseteq {Len(got.placed)}
        /\ \A i \in Wrong(got, listing) : IsStrictPrefix(got.placed[i].data, listing[i].data)
  BY <1>1, <1>2, <1>3, UnchangedSurvive
<1>7. flaw = "changed" =>
        /\ \A i, j \in Wrong(got, listing) : i = j
        /\ \A i \in Wrong(got, listing) :
              /\ Len(got.placed[i].data) = Len(listing[i].data)
              /\ Cardinality({k \in DOMAIN listing[i].data :
                                got.placed[i].data[k] # listing[i].data[k]}) = 1
        /\ ~got.threw => Len(got.placed) = Len(listing)
  BY <1>1, <1>2, <1>3, ChangedSurvive
<1>8. QED BY <1>4, <1>5, <1>6, <1>7 DEF SnapshotsSurvive, Wrong, got

(* Whatever is in the directories, however large the blocks and however    *)
(* long the names: an archive unpacks to what was packed, and a flaw goes  *)
(* no further than the last entry or the byte that it is in, although      *)
(* there is no checksum on data.                                           *)
THEOREM SnapshotsArrive == SnapshotSpec => []SnapshotsSurvive
<1>1. Travelled => SnapshotsSurvive BY TravelledSurvives
<1>2. QED BY TravelledInit, TravelledNext, <1>1, PTL DEF SnapshotSpec
=============================================================================
