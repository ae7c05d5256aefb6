---------------------------- MODULE SequenceFacts ----------------------------
(***************************************************************************)
(* Facts about sequences that several proofs share.  First, what           *)
(* move_to_end and popitem(last=False) do to the entries of an OrderedDict *)
(* that is kept as a sequence, the one used last at the end (the store     *)
(* cache and the public handles).  Then, what the operators of Rows return *)
(* (the lookups of a question): the entries they keep, whatever the order. *)
(*                                                                         *)
(* The provers know no induction over an operator; the least number that   *)
(* has not a property (WFMin) stands for it.                               *)
(***************************************************************************)
EXTENDS Rows, SequenceTheorems, FiniteSetTheorems, WellFoundedInduction, TLAPS

\* Taking an entry out: the places of the others.
LEMMA Removed ==
    ASSUME NEW S, NEW s \in Seq(S), NEW i \in DOMAIN s
    PROVE  /\ RemoveAt(s, i) \in Seq(S) /\ Len(RemoveAt(s, i)) = Len(s) - 1
           /\ s[i] \in S
           /\ \A j \in 1 .. Len(s) - 1 : RemoveAt(s, i)[j] = IF j < i THEN s[j] ELSE s[j + 1]
<1>1. i \in 1 .. Len(s) /\ s[i] \in S /\ Len(s) \in Nat
      BY LenProperties, ElementOfSeq
<1> DEFINE before == SubSeq(s, 1, i - 1)
           after == SubSeq(s, i + 1, Len(s))
<1>2. /\ before \in Seq(S) /\ Len(before) = i - 1
      /\ \A j \in 1 .. i - 1 : before[j] = s[j]
      BY <1>1, SubSeqProperties
<1>3. /\ after \in Seq(S) /\ Len(after) = Len(s) - i
      /\ \A j \in 1 .. Len(s) - i : after[j] = s[i + j]
      BY <1>1, SubSeqProperties
<1> HIDE DEF before, after
<1>4. /\ before \o after \in Seq(S) /\ Len(before \o after) = Len(s) - 1
      /\ \A j \in 1 .. Len(s) - 1 :
            (before \o after)[j] = IF j <= i - 1 THEN before[j] ELSE after[j - (i - 1)]
  <2>1. /\ before \o after \in Seq(S) /\ Len(before \o after) = Len(before) + Len(after)
        /\ \A j \in 1 .. Len(before) + Len(after) : (before \o after)[j] =
               IF j <= Len(before) THEN before[j] ELSE after[j - Len(before)]
        BY <1>2, <1>3, ConcatProperties
  <2>2. Len(before) = i - 1 /\ Len(before) + Len(after) = Len(s) - 1 BY <1>1, <1>2, <1>3
  <2> QED BY <2>1, <2>2
<1>5. ASSUME NEW j \in 1 .. Len(s) - 1
      PROVE  (before \o after)[j] = IF j < i THEN s[j] ELSE s[j + 1]
  <2>1. CASE j < i BY <1>1, <1>2, <1>4, <2>1
  <2>2. CASE ~(j < i)
    <3>1. j - (i - 1) \in 1 .. Len(s) - i /\ i + (j - (i - 1)) = j + 1 BY <1>1, <2>2
    <3>2. after[j - (i - 1)] = s[j + 1] BY <1>3, <3>1
    <3>3. (before \o after)[j] = after[j - (i - 1)] BY <1>1, <1>4, <2>2
    <3> QED BY <2>2, <3>2, <3>3
  <2> QED BY <2>1, <2>2
<1> QED BY <1>1, <1>4, <1>5 DEF RemoveAt, before, after

\* move_to_end: the entry goes last, and the set of entries is the same.
LEMMA MovedToEnd ==
    ASSUME NEW S, NEW s \in Seq(S), NEW i \in DOMAIN s
    PROVE  /\ Append(RemoveAt(s, i), s[i]) \in Seq(S)
           /\ Len(Append(RemoveAt(s, i), s[i])) = Len(s)
           /\ \A j \in 1 .. Len(s) : Append(RemoveAt(s, i), s[i])[j] =
                  IF j = Len(s) THEN s[i] ELSE IF j < i THEN s[j] ELSE s[j + 1]
<1>1. i \in 1 .. Len(s) /\ Len(s) \in Nat BY LenProperties
<1>2. /\ RemoveAt(s, i) \in Seq(S) /\ Len(RemoveAt(s, i)) = Len(s) - 1 /\ s[i] \in S
      /\ \A j \in 1 .. Len(s) - 1 : RemoveAt(s, i)[j] = IF j < i THEN s[j] ELSE s[j + 1]
      BY Removed
<1> HIDE DEF RemoveAt
<1> DEFINE r == RemoveAt(s, i)
<1>3. /\ Append(r, s[i]) \in Seq(S) /\ Len(Append(r, s[i])) = Len(r) + 1
      /\ \A j \in 1 .. Len(r) : Append(r, s[i])[j] = r[j]
      /\ Append(r, s[i])[Len(r) + 1] = s[i]
      BY <1>2, AppendProperties
<1> QED BY <1>1, <1>2, <1>3

-----------------------------------------------------------------------------
(* Lists *)

\* A set of numbers that is not empty has a least element.
LEMMA LeastNumber ==
    ASSUME NEW T, T \subseteq Nat, T # {}
    PROVE  \E x \in T : \A y \in T : x <= y
<1> DEFINE R == {ss \in Nat \X Nat : ss[1] < ss[2]}
<1>1. IsWellFoundedOn(R, Nat) BY NatLessThanWellFounded DEF OpToRel
<1>2. \E x \in T : \A y \in T : ~(<<y, x>> \in R)
  <2> HIDE DEF R
  <2> QED BY WFMin, <1>1
<1>3. PICK x \in T : \A y \in T : ~(<<y, x>> \in R) BY <1>2
<1>4. ASSUME NEW y \in T PROVE x <= y
  <2>1. ~(<<y, x>> \in R) /\ x \in Nat /\ y \in Nat BY <1>3
  <2>2. ~(y < x) BY <2>1
  <2> QED BY <2>1, <2>2
<1> QED BY <1>4

\* A set that holds 0, and each number up to N that follows one of its own, holds
\* them all: the least one it lacked would follow one it has.
LEMMA ClimbTo ==
    ASSUME NEW N \in Nat, NEW P, 0 \in P,
           \A n \in 1 .. N : n - 1 \in P => n \in P
    PROVE  0 .. N \subseteq P
<1> DEFINE T == (0 .. N) \ P
<1> SUFFICES ASSUME T # {} PROVE FALSE OBVIOUS
<1>1. T \subseteq Nat OBVIOUS
<1>2. PICK x \in T : \A y \in T : x <= y BY <1>1, LeastNumber
<1>3. x \in 1 .. N /\ x - 1 \in 0 .. N OBVIOUS
<1>4. x - 1 \notin T BY <1>2, <1>3
<1> QED BY <1>3, <1>4

\* A function defined by recursion on the numbers up to N exists, if each step has
\* its value in V.
IsRecursion(f, N, V, start, step) ==
    f \in [0 .. N -> V] /\ f[0] = start /\ \A n \in 1 .. N : f[n] = step[n][f[n - 1]]
LEMMA RecursionExists ==
    ASSUME NEW N \in Nat, NEW V, NEW start \in V, NEW step \in [1 .. N -> [V -> V]]
    PROVE  \E f : IsRecursion(f, N, V, start, step)
<1> DEFINE Fits(m, f) == IsRecursion(f, m, V, start, step)
           P == {m \in 0 .. N : \E f : Fits(m, f)}
<1>1. 0 \in P
  <2>1. Fits(0, [n \in 0 .. 0 |-> start]) /\ 0 \in 0 .. N BY DEF IsRecursion
  <2> HIDE DEF Fits
  <2> QED BY <2>1
<1>2. ASSUME NEW m \in 1 .. N, m - 1 \in P PROVE m \in P
  <2>0. PICK f : Fits(m - 1, f) BY <1>2
  <2>1. /\ f \in [0 .. m - 1 -> V] /\ f[0] = start
        /\ \A n \in 1 .. m - 1 : f[n] = step[n][f[n - 1]]
        BY <2>0 DEF IsRecursion
  <2> DEFINE g == [n \in 0 .. m |-> IF n = m THEN step[m][f[m - 1]] ELSE f[n]]
  <2>2. m - 1 \in 0 .. m - 1 /\ f[m - 1] \in V BY <2>1
  <2>3. step[m][f[m - 1]] \in V BY <2>2
  <2>4. ASSUME NEW n \in 0 .. m, n # m PROVE n \in 0 .. m - 1 /\ g[n] = f[n] /\ g[n] \in V
        BY <2>1, <2>4
  <2>5. g \in [0 .. m -> V] BY <2>3, <2>4
  <2>6. g[0] = start BY <2>1, <2>4
  <2>7. g[m] = step[m][f[m - 1]] OBVIOUS
  <2> HIDE DEF g
  <2>8. ASSUME NEW n \in 1 .. m PROVE g[n] = step[n][g[n - 1]]
    <3>1. n - 1 \in 0 .. m /\ n - 1 # m OBVIOUS
    <3>2. g[n - 1] = f[n - 1] BY <3>1, <2>4
    <3>3. CASE n = m BY <2>7, <3>2, <3>3
    <3>4. CASE n # m
      <4>1. n \in 1 .. m - 1 /\ n \in 0 .. m BY <3>4
      <4>2. f[n] = step[n][f[n - 1]] BY <2>1, <4>1
      <4>3. g[n] = f[n] BY <2>4, <3>4, <4>1
      <4> QED BY <3>2, <4>2, <4>3
    <3> QED BY <3>3, <3>4
  <2>9. Fits(m, g) BY <2>5, <2>6, <2>8 DEF IsRecursion
  <2> HIDE DEF Fits
  <2> QED BY <2>9
<1>3. 0 .. N \subseteq P
  <2> HIDE DEF P
  <2> QED BY <1>1, <1>2, ClimbTo
<1> HIDE DEF Fits
<1>4. \E f : Fits(N, f) BY <1>3
<1> QED BY <1>4 DEF Fits

\* Any sequence is a list, and what it contains is among what it is made of.
LEMMA InSeq ==
    ASSUME NEW S, NEW s \in Seq(S)
    PROVE  IsSeq(s) /\ ToSet(s) \subseteq S
<1>1. Len(s) \in Nat /\ s \in [1 .. Len(s) -> S] /\ DOMAIN s = 1 .. Len(s) BY LenProperties
<1>2. s \in [1 .. Len(s) -> ToSet(s)] BY <1>1 DEF ToSet
<1>3. s \in Seq(ToSet(s)) BY <1>1, <1>2, SeqDef
<1> QED BY <1>1, <1>3 DEF IsSeq, ToSet

LEMMA ListFacts ==
    ASSUME NEW s, IsSeq(s)
    PROVE  /\ Len(s) \in Nat /\ DOMAIN s = 1 .. Len(s)
           /\ s = <<>> <=> ToSet(s) = {}
           /\ s = <<>> <=> Len(s) = 0
           /\ s # <<>> => s[1] \in ToSet(s) /\ s[Len(s)] \in ToSet(s) /\ Len(s) >= 1
           /\ \A i \in 1 .. Len(s) : s[i] \in ToSet(s)
           /\ s = [i \in DOMAIN s |-> s[i]]
<1>1. /\ s \in Seq(ToSet(s)) /\ Len(s) \in Nat /\ DOMAIN s = 1 .. Len(s)
      /\ s \in [1 .. Len(s) -> ToSet(s)]
      BY LenProperties DEF IsSeq
<1>2. \A i \in 1 .. Len(s) : s[i] \in ToSet(s) BY <1>1 DEF ToSet
<1>3. s = <<>> <=> Len(s) = 0 BY <1>1, EmptySeq
<1>4. s = <<>> => ToSet(s) = {} BY <1>1, <1>3 DEF ToSet
<1>5. s # <<>> => Len(s) >= 1 BY <1>1, <1>3
<1>6. s # <<>> => 1 \in 1 .. Len(s) /\ Len(s) \in 1 .. Len(s) BY <1>1, <1>5
<1> QED BY <1>1, <1>2, <1>3, <1>4, <1>5, <1>6

\* The empty list, and a list of one entry.
LEMMA ShortLists ==
    /\ IsSeq(<<>>) /\ ToSet(<<>>) = {} /\ Len(<<>>) = 0
    /\ \A x : IsSeq(<<x>>) /\ ToSet(<<x>>) = {x} /\ Len(<<x>>) = 1 /\ <<x>> # <<>>
<1>1. IsSeq(<<>>) BY EmptySeq, InSeq
<1>2. ToSet(<<>>) = {} /\ Len(<<>>) = 0 BY <1>1, ListFacts
<1>3. ASSUME NEW x PROVE IsSeq(<<x>>) /\ ToSet(<<x>>) = {x} /\ Len(<<x>>) = 1 /\ <<x>> # <<>>
  <2>1. <<x>> \in Seq({x}) /\ Len(<<x>>) = 1 /\ <<x>>[1] = x OBVIOUS
  <2>2. IsSeq(<<x>>) /\ ToSet(<<x>>) \subseteq {x} BY <2>1, InSeq
  <2>3. <<x>> # <<>> BY <2>1, <2>2, ListFacts
  <2> QED BY <2>1, <2>2, <2>3, ListFacts
<1> QED BY <1>1, <1>2, <1>3

\* A function of the places of a list is a list.
LEMMA Mapped ==
    ASSUME NEW s, IsSeq(s), NEW f, f = [i \in DOMAIN s |-> f[i]]
    PROVE  /\ IsSeq(f) /\ Len(f) = Len(s) /\ DOMAIN f = DOMAIN s
           /\ ToSet(f) = {f[i] : i \in DOMAIN s}
<1>1. Len(s) \in Nat /\ DOMAIN s = 1 .. Len(s) BY ListFacts
<1>2. DOMAIN f = 1 .. Len(s) /\ f \in [1 .. Len(s) -> ToSet(f)] BY <1>1 DEF ToSet
<1>3. f \in Seq(ToSet(f)) BY <1>1, <1>2, SeqDef
<1>4. DOMAIN f = 1 .. Len(f) /\ Len(f) \in Nat BY <1>3, LenProperties
<1>5. Len(f) = Len(s) BY <1>1, <1>2, <1>4
<1> QED BY <1>1, <1>2, <1>3, <1>5 DEF IsSeq, ToSet

\* A function of the numbers up to n is a list.
LEMMA ListOfPlaces ==
    ASSUME NEW n \in Nat, NEW f, f = [k \in 1 .. n |-> f[k]]
    PROVE  IsSeq(f) /\ DOMAIN f = 1 .. n
<1>1. DOMAIN f = 1 .. n /\ f \in [1 .. n -> ToSet(f)] BY DEF ToSet
<1>2. f \in Seq(ToSet(f)) BY <1>1, SeqDef
<1> QED BY <1>1, <1>2 DEF IsSeq

\* The entries at some places of a list are a list.
LEMMA AtPlacesFacts ==
    ASSUME NEW s, IsSeq(s), NEW I, I \subseteq DOMAIN s
    PROVE  IsSeq(AtPlaces(s, I))
<1> DEFINE at(k) == s[CHOOSE i \in I : Cardinality({j \in I : j < i}) = k - 1]
           f == AtPlaces(s, I)
<1>1. Len(s) \in Nat /\ DOMAIN s = 1 .. Len(s) BY ListFacts
<1>2. Cardinality(I) \in Nat
  <2>1. IsFiniteSet(DOMAIN s) BY <1>1, FS_Interval
  <2>2. IsFiniteSet(I) BY <2>1, FS_Subset
  <2> QED BY <2>2, FS_CardinalityType
<1>3. f = [k \in 1 .. Cardinality(I) |-> at(k)] BY DEF AtPlaces
<1> HIDE DEF at, f
<1>4. f = [k \in 1 .. Cardinality(I) |-> f[k]] BY <1>3
<1>5. IsSeq(f) BY <1>2, <1>4, ListOfPlaces
<1> QED BY <1>5 DEF f

LEMMA Joined ==
    ASSUME NEW s, NEW t, IsSeq(s), IsSeq(t)
    PROVE  /\ IsSeq(s \o t) /\ ToSet(s \o t) = ToSet(s) \cup ToSet(t)
           /\ Len(s \o t) = Len(s) + Len(t)
<1> DEFINE S == ToSet(s) \cup ToSet(t)
<1>1. s \in Seq(S) /\ t \in Seq(S) BY SeqMonotonic DEF IsSeq
<1>2. /\ s \o t \in Seq(S) /\ Len(s \o t) = Len(s) + Len(t)
      /\ \A i \in 1 .. Len(s) + Len(t) :
            (s \o t)[i] = IF i <= Len(s) THEN s[i] ELSE t[i - Len(s)]
      BY <1>1, ConcatProperties
<1>3. IsSeq(s \o t) /\ ToSet(s \o t) \subseteq S BY <1>2, InSeq
<1>4. /\ Len(s) \in Nat /\ Len(t) \in Nat
      /\ DOMAIN s = 1 .. Len(s) /\ DOMAIN t = 1 .. Len(t)
      /\ DOMAIN (s \o t) = 1 .. Len(s) + Len(t)
      BY <1>2, <1>3, ListFacts
<1>5. ASSUME NEW x \in ToSet(s) PROVE x \in ToSet(s \o t)
  <2>1. PICK i \in 1 .. Len(s) : x = s[i] BY <1>4 DEF ToSet
  <2>2. i \in 1 .. Len(s) + Len(t) /\ (s \o t)[i] = x BY <1>2, <1>4, <2>1
  <2> QED BY <1>4, <2>2 DEF ToSet
<1>6. ASSUME NEW x \in ToSet(t) PROVE x \in ToSet(s \o t)
  <2>1. PICK i \in 1 .. Len(t) : x = t[i] BY <1>4 DEF ToSet
  <2>2. /\ Len(s) + i \in 1 .. Len(s) + Len(t) /\ ~(Len(s) + i <= Len(s))
        /\ (Len(s) + i) - Len(s) = i
        BY <1>4, <2>1
  <2>3. (s \o t)[Len(s) + i] = x BY <1>2, <2>1, <2>2
  <2> QED BY <1>4, <2>2, <2>3 DEF ToSet
<1> QED BY <1>2, <1>3, <1>5, <1>6

\* A list has finitely many entries.
LEMMA FiniteList ==
    ASSUME NEW s, IsSeq(s)
    PROVE  IsFiniteSet(ToSet(s))
<1>1. Len(s) \in Nat /\ DOMAIN s = 1 .. Len(s) BY ListFacts
<1>2. IsFiniteSet(1 .. Len(s)) BY <1>1, FS_Interval
<1>3. s \in [1 .. Len(s) -> ToSet(s)] BY <1>1, ListFacts
<1>4. s \in Surjection(1 .. Len(s), ToSet(s)) BY <1>1, <1>3 DEF Surjection, ToSet
<1> QED BY <1>2, <1>4, FS_Surjection

-----------------------------------------------------------------------------
(* The operators of Rows *)

\* A choice among the entries of a list is made one entry after the other.
KeepsAlong(f, s, T) ==
    /\ f \in [0 .. Len(s) -> Seq(ToSet(s))] /\ f[0] = <<>>
    /\ \A n \in 1 .. Len(s) : f[n] = IF s[n] \in T THEN Append(f[n - 1], s[n]) ELSE f[n - 1]
LEMMA Keeping ==
    ASSUME NEW s, IsSeq(s), NEW T
    PROVE  \E f : KeepsAlong(f, s, T) /\ Kept(s, T) = f[Len(s)]
<1> DEFINE N == Len(s)
           V == Seq(ToSet(s))
           Next(n, p) == IF s[n] \in T THEN Append(p, s[n]) ELSE p
           step == [n \in 1 .. N |-> [p \in V |-> Next(n, p)]]
           Body(f) == [n \in 0 .. N |-> IF n = 0 THEN <<>>
                        ELSE IF s[n] \in T THEN Append(f[n - 1], s[n]) ELSE f[n - 1]]
<1>1. N \in Nat /\ DOMAIN s = 1 .. N /\ \A i \in 1 .. N : s[i] \in ToSet(s) BY ListFacts
<1>2. <<>> \in V BY EmptySeq
<1>3. \A n \in 1 .. N, p \in V : Next(n, p) \in V BY <1>1, AppendProperties
<1>4. step \in [1 .. N -> [V -> V]] BY <1>3
<1>5. \A n \in 1 .. N, p \in V : step[n][p] = Next(n, p) OBVIOUS
<1>a. PICK g : IsRecursion(g, N, V, <<>>, step)
  <2>1. N \in Nat /\ <<>> \in V /\ step \in [1 .. N -> [V -> V]] BY <1>1, <1>2, <1>4
  <2> HIDE DEF step, V, N
  <2> QED BY <2>1, RecursionExists
<1>6. g \in [0 .. N -> V] /\ g[0] = <<>> /\ \A n \in 1 .. N : g[n] = step[n][g[n - 1]]
      BY <1>a DEF IsRecursion
<1>7. g = Body(g)
  <2>1. ASSUME NEW n \in 1 .. N PROVE g[n] = Next(n, g[n - 1])
    <3>1. n - 1 \in 0 .. N BY <1>1
    <3>2. g[n - 1] \in V BY <1>6, <3>1
    <3> QED BY <1>5, <1>6, <3>2
  <2>2. 0 \in 0 .. N /\ \A n \in 0 .. N : n # 0 => n \in 1 .. N BY <1>1
  <2>3. ASSUME NEW n \in 0 .. N PROVE g[n] = Body(g)[n]
        BY <1>6, <2>1, <2>2
  <2>4. DOMAIN g = 0 .. N /\ g = [n \in 0 .. N |-> g[n]] BY <1>6
  <2> QED BY <2>3, <2>4
<1> DEFINE f == CHOOSE h : h = Body(h)
<1>8. f = Body(f) BY <1>7
<1>9. Kept(s, T) = f[N] BY DEF Kept
<1> HIDE DEF f
<1> DEFINE P == {n \in 0 .. N : f[n] \in V}
<1>10. f[0] = <<>> /\ \A n \in 1 .. N : f[n] = Next(n, f[n - 1])
  <2>1. 0 \in 0 .. N /\ \A n \in 1 .. N : n \in 0 .. N /\ n # 0 BY <1>1
  <2>2. \A n \in 0 .. N : f[n] = Body(f)[n] BY <1>8
  <2> QED BY <2>1, <2>2
<1>11. 0 .. N \subseteq P
  <2>1. 0 \in P
    <3>1. f[0] \in V BY <1>2, <1>10
    <3>2. 0 \in 0 .. N BY <1>1
    <3> HIDE DEF V
    <3> QED BY <3>1, <3>2
  <2>2. ASSUME NEW n \in 1 .. N, n - 1 \in P PROVE n \in P
    <3>1. f[n - 1] \in V /\ n \in 0 .. N BY <1>1, <2>2
    <3> HIDE DEF V, Next
    <3> QED BY <1>3, <1>10, <3>1
  <2> HIDE DEF P, N
  <2> QED BY <1>1, <2>1, <2>2, ClimbTo
<1>12. f \in [0 .. N -> V]
  <2>1. f = [n \in 0 .. N |-> f[n]] BY <1>8
  <2>2. \A n \in 0 .. N : f[n] \in V BY <1>11
  <2> HIDE DEF V, N
  <2> QED BY <2>1, <2>2
<1>13. KeepsAlong(f, s, T) BY <1>10, <1>12 DEF KeepsAlong
<1> QED BY <1>9, <1>13

\* A choice among the entries of a list has those entries that are chosen; if all are,
\* it is the list.
LEMMA KeptFacts ==
    ASSUME NEW s, IsSeq(s), NEW T
    PROVE  /\ IsSeq(Kept(s, T)) /\ ToSet(Kept(s, T)) = ToSet(s) \cap T
           /\ ToSet(s) \subseteq T => Kept(s, T) = s
<1> DEFINE N == Len(s)
           V == Seq(ToSet(s))
<1>1. N \in Nat /\ DOMAIN s = 1 .. N /\ \A i \in 1 .. N : s[i] \in ToSet(s) BY ListFacts
<1>2. <<>> \in V BY EmptySeq
<1>3. PICK f : KeepsAlong(f, s, T) /\ Kept(s, T) = f[Len(s)] BY Keeping
<1>4. /\ f \in [0 .. N -> V] /\ f[0] = <<>>
      /\ \A n \in 1 .. N : f[n] = IF s[n] \in T THEN Append(f[n - 1], s[n]) ELSE f[n - 1]
      BY <1>3 DEF KeepsAlong
<1>9. Kept(s, T) = f[N] BY <1>3
<1> DEFINE P == {n \in 0 .. N : /\ f[n] \in V
                                /\ ToSet(f[n]) = {s[i] : i \in 1 .. n} \cap T
                                /\ ToSet(s) \subseteq T => f[n] = SubSeq(s, 1, n)}
<1>10. 0 \in P
  <2>1. f[0] = <<>> BY <1>4
  <2>2. {s[i] : i \in 1 .. 0} = {} OBVIOUS
  <2>3. SubSeq(s, 1, 0) = <<>> BY SubSeqEmpty
  <2>4. f[0] \in V /\ ToSet(f[0]) = {} BY <1>2, <2>1, ShortLists
  <2>5. 0 \in 0 .. N BY <1>1
  <2> HIDE DEF V
  <2> QED BY <2>1, <2>2, <2>3, <2>4, <2>5
<1>11. ASSUME NEW n \in 1 .. N, n - 1 \in P PROVE n \in P
  <2> DEFINE p == f[n - 1]
  <2>1. /\ p \in V /\ ToSet(p) = {s[i] : i \in 1 .. n - 1} \cap T
        /\ ToSet(s) \subseteq T => p = SubSeq(s, 1, n - 1)
        BY <1>11
  <2>2. f[n] = IF s[n] \in T THEN Append(p, s[n]) ELSE p BY <1>4
  <2>3. {s[i] : i \in 1 .. n} = {s[i] : i \in 1 .. n - 1} \cup {s[n]} BY <1>1
  <2>4. s[n] \in ToSet(s) BY <1>1
  <2>5. IsSeq(p) BY <2>1, InSeq
  <2> HIDE DEF p
  <2>6. CASE s[n] \in T
    <3>1. f[n] = Append(p, s[n]) BY <2>2, <2>6
    <3>2. Append(p, s[n]) \in V BY <2>1, <2>4, AppendProperties
    <3>3. Append(p, s[n]) = p \o <<s[n]>> BY <2>1, <2>4, AppendIsConcat
    <3>4. ToSet(f[n]) = ToSet(p) \cup {s[n]} BY <2>5, <3>1, <3>3, Joined, ShortLists
    <3>5. ASSUME ToSet(s) \subseteq T PROVE f[n] = SubSeq(s, 1, n)
      <4>1. s \in Seq(ToSet(s)) /\ 1 \in 1 .. Len(s) /\ n \in 1 .. Len(s) BY <1>1 DEF IsSeq
      <4>2. SubSeq(s, 1, n) = SubSeq(s, 1, n - 1) \o <<s[n]>> BY <4>1, SubSeqRecursiveSecond
      <4> QED BY <2>1, <3>1, <3>3, <3>5, <4>2
    <3>6. ToSet(f[n]) = {s[i] : i \in 1 .. n} \cap T BY <2>1, <2>3, <2>6, <3>4
    <3>7. f[n] \in V /\ n \in 0 .. N BY <3>1, <3>2
    <3> QED BY <3>5, <3>6, <3>7
  <2>7. CASE s[n] \notin T BY <2>1, <2>2, <2>3, <2>4, <2>7
  <2> QED BY <2>6, <2>7
<1>12. N \in P
  <2>1. 0 .. N \subseteq P
    <3> HIDE DEF P, N
    <3> QED BY <1>1, <1>10, <1>11, ClimbTo
  <2>2. N \in 0 .. N BY <1>1
  <2> QED BY <2>1, <2>2
<1>13. {s[i] : i \in 1 .. N} = ToSet(s) BY <1>1 DEF ToSet
<1>14. SubSeq(s, 1, N) = s BY SubSeqFull DEF IsSeq
<1> QED BY <1>9, <1>12, <1>13, <1>14, InSeq

\* A list of lists is laid out one list after the other (FlattenSeq).
Flattens(f, seqs) ==
    /\ f \in [0 .. Len(seqs) -> Seq(UNION {ToSet(seqs[i]) : i \in DOMAIN seqs})] /\ f[0] = <<>>
    /\ \A n \in 1 .. Len(seqs) : f[n] = f[n - 1] \o seqs[n]
LEMMA Flattening ==
    ASSUME NEW seqs, AreLists(seqs)
    PROVE  \E f : Flattens(f, seqs) /\ FlattenSeq(seqs) = f[Len(seqs)]
<1> DEFINE N == Len(seqs)
           U == UNION {ToSet(seqs[i]) : i \in DOMAIN seqs}
           V == Seq(U)
           step == [n \in 1 .. N - 1 |-> [p \in V |-> p \o seqs[n + 1]]]
           Body(f) == [i \in 1 .. N |-> IF i = 1 THEN seqs[i] ELSE f[i - 1] \o seqs[i]]
<1>1. N \in Nat /\ DOMAIN seqs = 1 .. N BY ListFacts DEF AreLists
<1>2. ASSUME NEW i \in 1 .. N PROVE seqs[i] \in V
  <2>1. seqs[i] \in Seq(ToSet(seqs[i])) /\ ToSet(seqs[i]) \subseteq U BY <1>1 DEF IsSeq, AreLists
  <2> QED BY <2>1, SeqMonotonic
<1>3. CASE N = 0
  <2> DEFINE g == [n \in 0 .. N |-> <<>>]
  <2>1. seqs = <<>> /\ FlattenSeq(seqs) = seqs BY <1>3, ListFacts DEF FlattenSeq
  <2>2. <<>> \in V BY EmptySeq
  <2>3. g \in [0 .. N -> V] /\ g[0] = <<>> /\ g[N] = <<>> BY <1>3, <2>2
  <2>4. 1 .. N = {} BY <1>3
  <2>5. Flattens(g, seqs) BY <2>3, <2>4 DEF Flattens
  <2> QED BY <2>1, <2>3, <2>5
<1>4. CASE N # 0
  <2>1. N - 1 \in Nat /\ 1 \in 1 .. N /\ N \in 1 .. N BY <1>1, <1>4
  <2>2. ASSUME NEW n \in 1 .. N - 1, NEW p \in V PROVE p \o seqs[n + 1] \in V
    <3>1. n + 1 \in 1 .. N BY <1>1
    <3> QED BY <1>2, <3>1, ConcatProperties
  <2>3. step \in [1 .. N - 1 -> [V -> V]]
    <3> HIDE DEF V
    <3> QED BY <2>2
  <2>4. \A n \in 1 .. N - 1, p \in V : step[n][p] = p \o seqs[n + 1] OBVIOUS
  <2>5. seqs[1] \in V BY <1>2, <2>1
  <2>6. PICK g : IsRecursion(g, N - 1, V, seqs[1], step)
    <3> HIDE DEF N, V, step
    <3> QED BY <2>1, <2>3, <2>5, RecursionExists
  <2>7. /\ g \in [0 .. N - 1 -> V] /\ g[0] = seqs[1]
        /\ \A n \in 1 .. N - 1 : g[n] = step[n][g[n - 1]]
        BY <2>6 DEF IsRecursion
  <2> HIDE DEF step
  <2> DEFINE h == [i \in 1 .. N |-> g[i - 1]]
  <2>8. ASSUME NEW i \in 1 .. N PROVE h[i] = Body(h)[i]
    <3>1. CASE i = 1 BY <2>7, <3>1
    <3>2. CASE i # 1
      <4>1. i - 1 \in 1 .. N - 1 /\ (i - 1) + 1 = i /\ (i - 1) - 1 \in 0 .. N - 1
            /\ i - 1 \in 1 .. N
            BY <1>1, <3>2
      <4>2. g[(i - 1) - 1] \in V BY <2>7, <4>1
      <4>3. g[i - 1] = g[(i - 1) - 1] \o seqs[i] BY <2>4, <2>7, <4>1, <4>2
      <4>4. h[i - 1] = g[(i - 1) - 1] BY <4>1
      <4> QED BY <3>2, <4>3, <4>4
    <3> QED BY <3>1, <3>2
  <2>9. h = Body(h) BY <2>8
  <2> DEFINE f == CHOOSE e : e = Body(e)
  <2>10. f = Body(f) BY <2>9
  <2>11. FlattenSeq(seqs) = f[N] BY <1>4 DEF FlattenSeq
  <2> HIDE DEF f, h
  <2> DEFINE e == [n \in 0 .. N |-> IF n = 0 THEN <<>> ELSE f[n]]
             P == {m \in 0 .. N - 1 : f[m + 1] \in V}
  <2>12. f[1] = seqs[1] /\ \A n \in 2 .. N : f[n] = f[n - 1] \o seqs[n]
    <3>1. \A n \in 1 .. N : f[n] = Body(f)[n] BY <2>10
    <3>2. \A n \in 2 .. N : n \in 1 .. N /\ n # 1 BY <1>1
    <3> QED BY <2>1, <3>1, <3>2
  <2>13. 0 .. N - 1 \subseteq P
    <3>1. 0 \in P BY <2>1, <2>5, <2>12
    <3>2. ASSUME NEW m \in 1 .. N - 1, m - 1 \in P PROVE m \in P
      <4>1. m + 1 \in 2 .. N /\ m + 1 \in 1 .. N /\ (m + 1) - 1 = m /\ (m - 1) + 1 = m /\ m \in 0 .. N - 1
            BY <1>1
      <4>2. f[m] \in V BY <3>2, <4>1
      <4>3. f[m + 1] = f[m] \o seqs[m + 1] BY <2>12, <4>1
      <4>4. f[m + 1] \in V BY <1>2, <4>1, <4>2, <4>3, ConcatProperties
      <4> QED BY <4>1, <4>4
    <3> HIDE DEF P, N
    <3> QED BY <2>1, <3>1, <3>2, ClimbTo
  <2>14. \A n \in 1 .. N : f[n] \in V
    <3> TAKE n \in 1 .. N
    <3>1. n - 1 \in 0 .. N - 1 /\ (n - 1) + 1 = n BY <1>1
    <3> QED BY <2>13, <3>1
  <2>15. e \in [0 .. N -> V]
    <3>1. <<>> \in V BY EmptySeq
    <3> HIDE DEF V
    <3> QED BY <1>1, <2>14, <3>1
  <2>16. e[0] = <<>> /\ \A n \in 1 .. N : e[n] = f[n] BY <1>1
  <2>17. ASSUME NEW n \in 1 .. N PROVE e[n] = e[n - 1] \o seqs[n]
    <3>1. CASE n = 1
      <4>1. <<>> \o seqs[1] = seqs[1] BY <1>2, <2>1, ConcatEmptySeq
      <4> HIDE DEF e
      <4>2. e[1] = seqs[1] /\ e[0] = <<>> BY <2>1, <2>12, <2>16
      <4>3. n - 1 = 0 BY <3>1
      <4>4. e[n] = seqs[1] /\ e[n - 1] = <<>> /\ seqs[n] = seqs[1] BY <3>1, <4>2, <4>3
      <4> QED BY <4>1, <4>4
    <3>2. CASE n # 1
      <4>1. n \in 2 .. N /\ n - 1 \in 1 .. N BY <1>1, <3>2
      <4> HIDE DEF e
      <4> QED BY <2>12, <2>16, <4>1
    <3> QED BY <3>1, <3>2
  <2> HIDE DEF e
  <2>18. Flattens(e, seqs) BY <2>15, <2>16, <2>17 DEF Flattens
  <2> QED BY <2>1, <2>11, <2>16, <2>18
<1> QED BY <1>3, <1>4

\* A list of lists, one after the other (FlattenSeq), has the entries of all.
LEMMA Flattened ==
    ASSUME NEW seqs, AreLists(seqs)
    PROVE  /\ IsSeq(FlattenSeq(seqs))
           /\ ToSet(FlattenSeq(seqs)) = UNION {ToSet(seqs[i]) : i \in DOMAIN seqs}
<1> DEFINE N == Len(seqs)
           U == UNION {ToSet(seqs[i]) : i \in DOMAIN seqs}
<1>1. N \in Nat /\ DOMAIN seqs = 1 .. N BY ListFacts DEF AreLists
<1>2. PICK f : Flattens(f, seqs) /\ FlattenSeq(seqs) = f[N] BY Flattening
<1>3. /\ f \in [0 .. N -> Seq(U)] /\ f[0] = <<>>
      /\ \A n \in 1 .. N : f[n] = f[n - 1] \o seqs[n]
      BY <1>2 DEF Flattens
<1> DEFINE P == {m \in 0 .. N : ToSet(f[m]) = UNION {ToSet(seqs[i]) : i \in 1 .. m}}
<1>4. 0 \in P BY <1>1, <1>3, ShortLists
<1>5. ASSUME NEW m \in 1 .. N, m - 1 \in P PROVE m \in P
  <2>1. m - 1 \in 0 .. N /\ m \in 0 .. N BY <1>1
  <2>2. IsSeq(f[m - 1]) /\ IsSeq(seqs[m])
    <3>1. f[m - 1] \in Seq(U) BY <1>3, <2>1
    <3>2. IsSeq(f[m - 1])
      <4> HIDE DEF U
      <4> QED BY <3>1, InSeq
    <3> QED BY <1>1, <3>2 DEF AreLists
  <2>3. ToSet(f[m]) = ToSet(f[m - 1]) \cup ToSet(seqs[m]) BY <1>3, <2>2, Joined
  <2>4. 1 .. m = (1 .. m - 1) \cup {m} BY <1>1
  <2>5. UNION {ToSet(seqs[i]) : i \in 1 .. m}
            = (UNION {ToSet(seqs[i]) : i \in 1 .. m - 1}) \cup ToSet(seqs[m])
        BY <2>4
  <2> QED BY <1>5, <2>1, <2>3, <2>5
<1>6. 0 .. N \subseteq P
  <2>1. N \in Nat BY <1>1
  <2> HIDE DEF P, N
  <2> QED BY <2>1, <1>4, <1>5, ClimbTo
<1>7. N \in P BY <1>1, <1>6
<1>8. IsSeq(f[N])
  <2>1. f[N] \in Seq(U) BY <1>1, <1>3
  <2> HIDE DEF U, N
  <2> QED BY <2>1, InSeq
<1> QED BY <1>1, <1>2, <1>7, <1>8

\* Lists laid end to end: how many lists they come in does not matter.
LEMMA EndToEnd ==
    ASSUME NEW s, NEW t, NEW v, IsSeq(s), IsSeq(t), IsSeq(v)
    PROVE  (s \o t) \o v = s \o (t \o v) /\ s \o <<>> = s /\ <<>> \o s = s
<1> DEFINE S == ToSet(s) \cup ToSet(t) \cup ToSet(v)
<1>1. s \in Seq(S) /\ t \in Seq(S) /\ v \in Seq(S) BY SeqMonotonic DEF IsSeq
<1> HIDE DEF S
<1> QED BY <1>1, ConcatAssociative, ConcatEmptySeq

\* An entry at the end of a list.
LEMMA Appended ==
    ASSUME NEW s, IsSeq(s), NEW x
    PROVE  /\ IsSeq(Append(s, x)) /\ Len(Append(s, x)) = Len(s) + 1
           /\ \A i \in 1 .. Len(s) : Append(s, x)[i] = s[i]
           /\ Append(s, x)[Len(s) + 1] = x /\ ToSet(Append(s, x)) = ToSet(s) \cup {x}
           /\ Append(s, x) = s \o <<x>>
<1> DEFINE S == ToSet(s) \cup {x}
<1>1. s \in Seq(S) /\ x \in S BY SeqMonotonic DEF IsSeq
<1> HIDE DEF S
<1>2. /\ Append(s, x) \in Seq(S) /\ Len(Append(s, x)) = Len(s) + 1
      /\ \A i \in 1 .. Len(s) : Append(s, x)[i] = s[i]
      /\ Append(s, x)[Len(s) + 1] = x
      BY <1>1, AppendProperties
<1>3. Append(s, x) = s \o <<x>> BY <1>1, AppendIsConcat
<1>4. ToSet(s \o <<x>>) = ToSet(s) \cup {x} BY Joined, ShortLists
<1> QED BY <1>2, <1>3, <1>4, InSeq

\* What is laid out in some way is laid out as FlattenSeq does it.
LEMMA LaidOut ==
    ASSUME NEW seqs, AreLists(seqs), NEW h, h[0] = <<>>, \A n \in 1 .. Len(seqs) : h[n] = h[n - 1] \o seqs[n]
    PROVE  FlattenSeq(seqs) = h[Len(seqs)]
<1> DEFINE N == Len(seqs)
<1>1. N \in Nat BY ListFacts DEF AreLists
<1>2. PICK f : Flattens(f, seqs) /\ FlattenSeq(seqs) = f[N] BY Flattening
<1>3. f[0] = <<>> /\ \A n \in 1 .. N : f[n] = f[n - 1] \o seqs[n] BY <1>2 DEF Flattens
<1> HIDE DEF N
<1> DEFINE P == {n \in 0 .. N : f[n] = h[n]}
<1>4. 0 \in P BY <1>1, <1>3
<1>5. ASSUME NEW n \in 1 .. N, n - 1 \in P PROVE n \in P
  <2>1. h[n] = h[n - 1] \o seqs[n] BY DEF N
  <2>2. f[n] = f[n - 1] \o seqs[n] /\ f[n - 1] = h[n - 1] BY <1>3, <1>5
  <2>3. n \in 0 .. N BY <1>1
  <2>4. f[n] = h[n] BY <2>1, <2>2
  <2> QED BY <2>3, <2>4
<1>6. 0 .. N \subseteq P
  <2> HIDE DEF P
  <2> QED BY <1>1, <1>4, <1>5, ClimbTo
<1>7. f[N] = h[N] BY <1>1, <1>6
<1> QED BY <1>2, <1>7 DEF N

\* Laying out no list, one list, one list more, and the lists of two lists of them.
LEMMA FlatOfOne ==
    /\ FlattenSeq(<<>>) = <<>>
    /\ \A x : IsSeq(x) => AreLists(<<x>>) /\ FlattenSeq(<<x>>) = x
<1>1. FlattenSeq(<<>>) = <<>> BY ShortLists DEF FlattenSeq
<1>2. ASSUME NEW x, IsSeq(x) PROVE AreLists(<<x>>) /\ FlattenSeq(<<x>>) = x
  <2>1. IsSeq(<<x>>) /\ Len(<<x>>) = 1 /\ <<x>>[1] = x /\ DOMAIN <<x>> = {1} BY ShortLists
  <2>2. AreLists(<<x>>) BY <1>2, <2>1 DEF AreLists
  <2> DEFINE h == [n \in 0 .. 1 |-> IF n = 0 THEN <<>> ELSE x]
  <2>3. h[0] = <<>> /\ h[1] = x OBVIOUS
  <2>4. <<>> \o x = x BY <1>2, EndToEnd
  <2>5. \A n \in 1 .. 1 : h[n] = h[n - 1] \o <<x>>[n]
    <3> HIDE DEF h
    <3> TAKE n \in 1 .. 1
    <3>1. n = 1 /\ n - 1 = 0 OBVIOUS
    <3>2. h[n] = x /\ h[n - 1] = <<>> /\ <<x>>[n] = x BY <2>1, <2>3, <3>1
    <3> QED BY <2>4, <3>2
  <2> HIDE DEF h
  <2>6. FlattenSeq(<<x>>) = h[1] BY <2>1, <2>2, <2>3, <2>5, LaidOut
  <2> QED BY <2>2, <2>3, <2>6
<1> QED BY <1>1, <1>2

LEMMA FlatAppended ==
    ASSUME NEW s, AreLists(s), NEW x, IsSeq(x)
    PROVE  AreLists(Append(s, x)) /\ FlattenSeq(Append(s, x)) = FlattenSeq(s) \o x
<1> DEFINE t == Append(s, x)
           N == Len(s)
<1>1. IsSeq(s) /\ N \in Nat /\ DOMAIN s = 1 .. N BY ListFacts DEF AreLists
<1>2. IsSeq(t) /\ Len(t) = N + 1 /\ (\A i \in 1 .. N : t[i] = s[i]) /\ t[N + 1] = x
  <2>1. /\ IsSeq(Append(s, x)) /\ Len(Append(s, x)) = N + 1 /\ Append(s, x)[N + 1] = x
        /\ \A i \in 1 .. N : Append(s, x)[i] = s[i]
    <3> HIDE DEF t
    <3> QED BY <1>1, Appended
  <2> HIDE DEF N
  <2> QED BY <2>1
<1> HIDE DEF t
<1>3. DOMAIN t = 1 .. N + 1 BY <1>2, ListFacts
<1>4. AreLists(t)
  <2>1. ASSUME NEW i \in 1 .. N + 1 PROVE IsSeq(t[i])
    <3>1. CASE i = N + 1 BY <1>2, <3>1
    <3>2. CASE i # N + 1
      <4>1. i \in 1 .. N BY <1>1, <3>2
      <4> QED BY <1>1, <1>2, <4>1 DEF AreLists
    <3> QED BY <3>1, <3>2
  <2> QED BY <1>2, <1>3, <2>1 DEF AreLists
<1>5. PICK f : Flattens(f, t) /\ FlattenSeq(t) = f[N + 1] BY <1>2, <1>4, Flattening
<1>6. f[0] = <<>> /\ \A n \in 1 .. N + 1 : f[n] = f[n - 1] \o t[n] BY <1>2, <1>5 DEF Flattens
<1>7. ASSUME NEW n \in 1 .. N PROVE f[n] = f[n - 1] \o s[n]
  <2>1. n \in 1 .. N + 1 BY <1>1
  <2>2. f[n] = f[n - 1] \o t[n] /\ t[n] = s[n] BY <1>2, <1>6, <2>1
  <2> QED BY <2>2
<1>8. FlattenSeq(s) = f[N] BY <1>6, <1>7, LaidOut
<1>9. N + 1 \in 1 .. N + 1 /\ (N + 1) - 1 = N BY <1>1
<1>10. f[N + 1] = f[N] \o x BY <1>2, <1>6, <1>9
<1> QED BY <1>4, <1>5, <1>8, <1>10 DEF t

LEMMA FlatJoined ==
    ASSUME NEW s, NEW t, AreLists(s), AreLists(t)
    PROVE  AreLists(s \o t) /\ FlattenSeq(s \o t) = FlattenSeq(s) \o FlattenSeq(t)
<1> DEFINE N == Len(s)
           M == Len(t)
<1>1. /\ IsSeq(s) /\ N \in Nat /\ DOMAIN s = 1 .. N
      /\ IsSeq(t) /\ M \in Nat /\ DOMAIN t = 1 .. M
      BY ListFacts DEF AreLists
<1>2. /\ IsSeq(s \o t) /\ Len(s \o t) = N + M /\ DOMAIN (s \o t) = 1 .. N + M
      /\ \A i \in 1 .. N : (s \o t)[i] = s[i]
      /\ \A i \in 1 .. M : (s \o t)[N + i] = t[i]
  <2> DEFINE S == ToSet(s) \cup ToSet(t)
  <2>1. s \in Seq(S) /\ t \in Seq(S) BY <1>1, SeqMonotonic DEF IsSeq
  <2> HIDE DEF S
  <2>2. \A i \in 1 .. N + M : (s \o t)[i] = IF i <= N THEN s[i] ELSE t[i - N] BY <2>1, ConcatProperties
  <2>3. IsSeq(s \o t) /\ Len(s \o t) = N + M BY <1>1, Joined
  <2>4. DOMAIN (s \o t) = 1 .. N + M BY <2>3, ListFacts
  <2> HIDE DEF N, M
  <2>5. \A i \in 1 .. N : (s \o t)[i] = s[i] BY <1>1, <2>2
  <2>6. ASSUME NEW i \in 1 .. M PROVE (s \o t)[N + i] = t[i]
    <3>1. N + i \in 1 .. N + M /\ ~(N + i <= N) /\ (N + i) - N = i BY <1>1
    <3> QED BY <2>2, <3>1
  <2> QED BY <2>3, <2>4, <2>5, <2>6 DEF N, M
<1> DEFINE w == s \o t
<1> HIDE DEF w, N, M
<1>3. AreLists(w)
  <2>1. ASSUME NEW i \in 1 .. N + M PROVE IsSeq(w[i])
    <3>1. CASE i \in 1 .. N BY <1>1, <1>2, <3>1 DEF AreLists, w
    <3>2. CASE i \notin 1 .. N
      <4>1. i - N \in 1 .. M /\ N + (i - N) = i BY <1>1, <3>2
      <4>2. w[i] = t[i - N] BY <1>2, <4>1 DEF w
      <4> QED BY <1>1, <4>1, <4>2 DEF AreLists
    <3> QED BY <3>1, <3>2
  <2> QED BY <1>2, <2>1 DEF AreLists, w
<1>4. PICK f : Flattens(f, w) /\ FlattenSeq(w) = f[N + M] BY <1>2, <1>3, Flattening DEF w
<1>5. f[0] = <<>> /\ \A n \in 1 .. N + M : f[n] = f[n - 1] \o w[n] BY <1>2, <1>4 DEF Flattens, w
<1>6. FlattenSeq(s) = f[N]
  <2>1. ASSUME NEW n \in 1 .. N PROVE f[n] = f[n - 1] \o s[n]
    <3>1. n \in 1 .. N + M BY <1>1
    <3>2. w[n] = s[n] BY <1>2 DEF w
    <3>3. f[n] = f[n - 1] \o w[n] BY <1>5, <3>1
    <3> QED BY <3>2, <3>3
  <2> QED BY <1>5, <2>1, LaidOut DEF N
<1>7. PICK g : Flattens(g, t) /\ FlattenSeq(t) = g[M] BY Flattening DEF M
<1>8. g[0] = <<>> /\ (\A n \in 1 .. M : g[n] = g[n - 1] \o t[n]) /\ \A n \in 0 .. M : IsSeq(g[n])
  <2> DEFINE U == UNION {ToSet(t[i]) : i \in DOMAIN t}
  <2>1. g \in [0 .. M -> Seq(U)] BY <1>7 DEF Flattens, M
  <2>2. ASSUME NEW n \in 0 .. M PROVE IsSeq(g[n])
    <3>1. g[n] \in Seq(U) BY <2>1
    <3> HIDE DEF U
    <3> QED BY <3>1, InSeq
  <2> QED BY <1>7, <2>2 DEF Flattens, M
<1> DEFINE a == f[N]
           P == {n \in 0 .. M : f[N + n] = a \o g[n]}
<1>9. IsSeq(a) BY <1>6, Flattened
<1>10. 0 \in P
  <2>1. N + 0 = N /\ a \o <<>> = a /\ 0 \in 0 .. M BY <1>1, <1>9, EndToEnd
  <2> QED BY <1>8, <2>1
<1>11. ASSUME NEW n \in 1 .. M, n - 1 \in P PROVE n \in P
  <2>1. N + n \in 1 .. N + M /\ (N + n) - 1 = N + (n - 1) /\ n - 1 \in 0 .. M /\ n \in 0 .. M BY <1>1
  <2>2. f[N + n] = f[N + (n - 1)] \o t[n] BY <1>2, <1>5, <2>1 DEF w
  <2>3. f[N + (n - 1)] = a \o g[n - 1] BY <1>11
  <2>4. IsSeq(t[n]) /\ IsSeq(g[n - 1]) BY <1>1, <1>8, <2>1 DEF AreLists
  <2>5. (a \o g[n - 1]) \o t[n] = a \o (g[n - 1] \o t[n])
    <3>1. IsSeq(a) BY <1>9
    <3> DEFINE b == g[n - 1]
               c == t[n]
    <3>2. IsSeq(b) /\ IsSeq(c) BY <2>4
    <3> HIDE DEF a, b, c
    <3>3. (a \o b) \o c = a \o (b \o c) BY <3>1, <3>2, EndToEnd
    <3> QED BY <3>3 DEF b, c
  <2>6. g[n] = g[n - 1] \o t[n] BY <1>8
  <2>7. f[N + n] = a \o g[n] BY <2>2, <2>3, <2>5, <2>6
  <2> QED BY <2>1, <2>7
<1>12. M \in P
  <2>1. 0 .. M \subseteq P
    <3> HIDE DEF P
    <3> QED BY <1>1, <1>10, <1>11, ClimbTo
  <2>2. M \in 0 .. M BY <1>1
  <2> HIDE DEF P
  <2> QED BY <2>1, <2>2
<1> QED BY <1>3, <1>4, <1>6, <1>7, <1>12 DEF w

\* Lists without an entry are skipped when lists are laid out.
LEMMA FlatSkips ==
    ASSUME NEW s, AreLists(s)
    PROVE  /\ AreLists(Select(s, LAMBDA x : x # <<>>))
           /\ FlattenSeq(Select(s, LAMBDA x : x # <<>>)) = FlattenSeq(s)
<1> DEFINE N == Len(s)
           T == {x \in ToSet(s) : x # <<>>}
<1>1. IsSeq(s) /\ N \in Nat /\ DOMAIN s = 1 .. N /\ \A i \in 1 .. N : s[i] \in ToSet(s) /\ IsSeq(s[i])
      BY ListFacts DEF AreLists
<1>2. Select(s, LAMBDA x : x # <<>>) = Kept(s, T) BY DEF Select
<1>3. PICK f : KeepsAlong(f, s, T) /\ Kept(s, T) = f[N] BY <1>1, Keeping
<1>4. f[0] = <<>> /\ \A n \in 1 .. N : f[n] = IF s[n] # <<>> THEN Append(f[n - 1], s[n]) ELSE f[n - 1]
      BY <1>1, <1>3 DEF KeepsAlong
<1> HIDE DEF T
<1>5. PICK g : Flattens(g, s) /\ FlattenSeq(s) = g[N] BY Flattening
<1>6. g[0] = <<>> /\ \A n \in 1 .. N : g[n] = g[n - 1] \o s[n] BY <1>5 DEF Flattens
<1> HIDE DEF N
<1> DEFINE P == {n \in 0 .. N : AreLists(f[n]) /\ FlattenSeq(f[n]) = g[n]}
<1>7. 0 \in P
  <2>1. AreLists(<<>>) BY ShortLists DEF AreLists
  <2> QED BY <1>1, <1>4, <1>6, <2>1, FlatOfOne
<1>8. ASSUME NEW n \in 1 .. N, n - 1 \in P PROVE n \in P
  <2>1. n \in 0 .. N /\ IsSeq(s[n]) BY <1>1
  <2>2. AreLists(f[n - 1]) /\ FlattenSeq(f[n - 1]) = g[n - 1] BY <1>8
  <2>3. CASE s[n] # <<>>
    <3>1. f[n] = Append(f[n - 1], s[n]) BY <1>4, <2>3
    <3> QED BY <1>6, <2>1, <2>2, <3>1, FlatAppended
  <2>4. CASE s[n] = <<>>
    <3>1. f[n] = f[n - 1] BY <1>4, <2>4
    <3>2. IsSeq(g[n - 1]) BY <2>2, Flattened
    <3>3. g[n - 1] \o s[n] = g[n - 1] BY <2>4, <3>2, EndToEnd
    <3> QED BY <1>6, <2>1, <2>2, <3>1, <3>3
  <2> QED BY <2>3, <2>4
<1>9. N \in P
  <2>1. 0 .. N \subseteq P
    <3> HIDE DEF P
    <3> QED BY <1>1, <1>7, <1>8, ClimbTo
  <2> QED BY <1>1, <2>1
<1> QED BY <1>2, <1>3, <1>5, <1>9 DEF N

\* A list whose entries are lists.
LEMMA ListsOf ==
    ASSUME NEW S, NEW s \in Seq(S), \A x \in S : IsSeq(x)
    PROVE  AreLists(s)
<1>1. IsSeq(s) /\ ToSet(s) \subseteq S BY InSeq
<1>2. \A i \in DOMAIN s : s[i] \in S BY <1>1 DEF ToSet
<1> QED BY <1>1, <1>2 DEF AreLists

\* A part of a list of lists.
LEMMA Sliced ==
    ASSUME NEW s, AreLists(s), NEW a \in Int, NEW b \in Int, a >= 1, b <= Len(s)
    PROVE  AreLists(SubSeq(s, a, b))
<1>1. IsSeq(s) /\ DOMAIN s = 1 .. Len(s) /\ Len(s) \in Nat /\ \A i \in 1 .. Len(s) : s[i] \in ToSet(s)
      BY ListFacts DEF AreLists
<1>2. \A i \in a .. b : s[i] \in ToSet(s) BY <1>1
<1>3. SubSeq(s, a, b) \in Seq(ToSet(s)) BY <1>2, SubSeqProperties
<1>4. \A x \in ToSet(s) : IsSeq(x) BY DEF AreLists, ToSet
<1> QED BY <1>3, <1>4, ListsOf

\* A part that is not empty begins where it is cut.
LEMMA SliceBegins ==
    ASSUME NEW s, AreLists(s), NEW a \in Int, NEW b \in Int, a >= 1, b <= Len(s), a <= b
    PROVE  1 \in DOMAIN SubSeq(s, a, b) /\ SubSeq(s, a, b)[1] = s[a]
<1>1. IsSeq(s) /\ DOMAIN s = 1 .. Len(s) /\ Len(s) \in Nat /\ \A i \in 1 .. Len(s) : s[i] \in ToSet(s)
      BY ListFacts DEF AreLists
<1>2. \A i \in a .. b : s[i] \in ToSet(s) BY <1>1
<1>3. /\ SubSeq(s, a, b) \in Seq(ToSet(s)) /\ Len(SubSeq(s, a, b)) = b - a + 1
      /\ \A k \in 1 .. b - a + 1 : SubSeq(s, a, b)[k] = s[a + k - 1]
      BY <1>2, SubSeqProperties
<1>4. 1 \in 1 .. b - a + 1 OBVIOUS
<1>5. DOMAIN SubSeq(s, a, b) = 1 .. b - a + 1 BY <1>3, LenProperties
<1>6. SubSeq(s, a, b)[1] = s[a + 1 - 1] /\ a + 1 - 1 = a BY <1>3, <1>4
<1> QED BY <1>4, <1>5, <1>6

\* The first entries of a list.
LEMMA Prefix ==
    ASSUME NEW s, IsSeq(s), NEW n \in 0 .. Len(s)
    PROVE  /\ IsSeq(SubSeq(s, 1, n)) /\ Len(SubSeq(s, 1, n)) = n
           /\ ToSet(SubSeq(s, 1, n)) \subseteq ToSet(s)
<1>1. \A i \in 1 .. n : s[i] \in ToSet(s) BY ListFacts
<1>2. SubSeq(s, 1, n) \in Seq(ToSet(s)) /\ Len(SubSeq(s, 1, n)) = IF 1 <= n THEN n - 1 + 1 ELSE 0
      BY <1>1, SubSeqProperties
<1>3. Len(s) \in Nat BY ListFacts
<1>4. (IF 1 <= n THEN n - 1 + 1 ELSE 0) = n BY <1>3
<1> DEFINE t == SubSeq(s, 1, n)
<1>5. t \in Seq(ToSet(s)) /\ Len(t) = n BY <1>2, <1>4
<1> HIDE DEF t
<1>6. IsSeq(t) /\ ToSet(t) \subseteq ToSet(s) BY <1>5, InSeq
<1> QED BY <1>5, <1>6 DEF t

LEMMA UptoFacts ==
    ASSUME NEW s, IsSeq(s), NEW n \in Nat
    PROVE  /\ IsSeq(Upto(n, s)) /\ ToSet(Upto(n, s)) \subseteq ToSet(s)
           /\ n > 0 /\ s # <<>> => Upto(n, s) # <<>>
<1>1. Len(s) \in Nat /\ (s # <<>> => Len(s) >= 1) BY ListFacts
<1>2. CASE Len(s) <= n BY <1>2 DEF Upto
<1>3. CASE ~(Len(s) <= n)
  <2>1. n \in 0 .. Len(s) BY <1>1, <1>3
  <2>2. IsSeq(SubSeq(s, 1, n)) /\ Len(SubSeq(s, 1, n)) = n /\ ToSet(SubSeq(s, 1, n)) \subseteq ToSet(s)
        BY <2>1, Prefix
  <2>3. SubSeq(s, 1, n) = <<>> <=> n = 0 BY <2>2, ListFacts
  <2> QED BY <1>3, <2>2, <2>3 DEF Upto
<1> QED BY <1>2, <1>3

\* The entries before i are fewer than those before any entry that comes after i, so
\* that each number of entries is that of one.
LEMMA RankTaken ==
    ASSUME NEW n \in Nat, NEW place \in [1 .. n -> Int], NEW k \in 1 .. n
    PROVE  \E i \in 1 .. n : Cardinality(Ahead(place, i)) = k - 1
<1> DEFINE D == 1 .. n
           rank == [i \in D |-> Cardinality(Ahead(place, i))]
           Before(i, j) == place[i] < place[j] \/ (place[i] = place[j] /\ i < j)
<1>1. IsFiniteSet(D) /\ Cardinality(D) = n BY FS_Interval
<1>2. DOMAIN place = D OBVIOUS
<1>3. ASSUME NEW i \in D
      PROVE  /\ IsFiniteSet(Ahead(place, i)) /\ Cardinality(Ahead(place, i)) \in Nat
             /\ Cardinality(Ahead(place, i)) < n
  <2>1. Ahead(place, i) \in SUBSET D BY <1>2 DEF Ahead
  <2>2. i \notin Ahead(place, i) BY DEF Ahead
  <2>3. /\ IsFiniteSet(Ahead(place, i)) /\ Cardinality(Ahead(place, i)) <= Cardinality(D)
        /\ (Cardinality(D) = Cardinality(Ahead(place, i)) => D = Ahead(place, i))
        BY <1>1, <2>1, FS_Subset
  <2>4. Cardinality(Ahead(place, i)) \in Nat BY <2>3, FS_CardinalityType
  <2>5. Cardinality(Ahead(place, i)) # n BY <1>1, <2>2, <2>3
  <2> QED BY <1>1, <2>3, <2>4, <2>5
<1>4. ASSUME NEW i \in D, NEW j \in D, Before(i, j)
      PROVE  Cardinality(Ahead(place, i)) < Cardinality(Ahead(place, j))
  <2>1. Ahead(place, i) \subseteq Ahead(place, j)
    <3>1. ASSUME NEW x \in Ahead(place, i) PROVE x \in Ahead(place, j)
      <4>1. x \in D /\ Before(x, i) BY <1>2 DEF Ahead
      <4>2. place[x] \in Int /\ place[i] \in Int /\ place[j] \in Int BY <4>1
      <4>3. Before(x, j) BY <1>4, <4>1, <4>2
      <4> QED BY <1>2, <4>1, <4>3 DEF Ahead
    <3> QED BY <3>1
  <2>2. i \in Ahead(place, j) BY <1>2, <1>4 DEF Ahead
  <2>3. i \notin Ahead(place, i) BY DEF Ahead
  <2>4. Ahead(place, i) # Ahead(place, j) BY <2>2, <2>3
  <2>5. /\ Cardinality(Ahead(place, i)) <= Cardinality(Ahead(place, j))
        /\ Cardinality(Ahead(place, i)) # Cardinality(Ahead(place, j))
        BY <1>3, <2>1, <2>4, FS_Subset
  <2> QED BY <1>3, <2>5
<1>5. rank \in [D -> 0 .. n - 1] BY <1>3
<1>6. ASSUME NEW i \in D, NEW j \in D, i # j PROVE rank[i] # rank[j]
  <2>1. place[i] \in Int /\ place[j] \in Int OBVIOUS
  <2>2. Before(i, j) \/ Before(j, i) BY <1>6, <2>1
  <2> QED BY <1>3, <1>4, <2>2
<1>7. rank \in Injection(D, 0 .. n - 1)
  <2>1. DOMAIN rank = D OBVIOUS
  <2> HIDE DEF rank, D
  <2> QED BY <1>5, <1>6, <2>1 DEF Injection, IsInjective
<1>8. IsFiniteSet(0 .. n - 1) /\ Cardinality(0 .. n - 1) = n BY FS_Interval
<1>9. rank \in Surjection(D, 0 .. n - 1)
  <2> HIDE DEF rank, D
  <2> QED BY <1>1, <1>7, <1>8, FS_Injection
<1>10. k - 1 \in 0 .. n - 1 OBVIOUS
<1>11. \E i \in D : rank[i] = k - 1
  <2> HIDE DEF rank, D
  <2> QED BY <1>9, <1>10 DEF Surjection
<1> QED BY <1>11

\* Of the members of a finite set that differ by a number, one has k - 1 below it, for every k.
LEMMA RankedPlaces ==
    ASSUME NEW S, IsFiniteSet(S), NEW key \in [S -> Int], \A x, y \in S : key[x] = key[y] => x = y
    PROVE  /\ Cardinality(S) \in Nat
           /\ \A k \in 1 .. Cardinality(S) : \E x \in S : Cardinality({y \in S : key[y] < key[x]}) = k - 1
<1> DEFINE n == Cardinality(S)
           Below(x) == {y \in S : key[y] < key[x]}
<1>1. n \in Nat /\ ExistsBijection(1 .. n, S) BY FS_CardinalityType
<1>2. PICK b : b \in Bijection(1 .. n, S) BY <1>1 DEF ExistsBijection
<1> HIDE DEF n
<1>3. /\ b \in [1 .. n -> S] /\ DOMAIN b = 1 .. n
      /\ \A i, j \in 1 .. n : b[i] = b[j] => i = j
      /\ \A x \in S : \E i \in 1 .. n : b[i] = x
      BY <1>2 DEF Bijection, Injection, Surjection, IsInjective
<1> DEFINE place == [i \in 1 .. n |-> key[b[i]]]
<1>4. place \in [1 .. n -> Int] BY <1>3
<1>5. \A i, j \in 1 .. n : place[i] = place[j] => i = j BY <1>3
<1>6. ASSUME NEW k \in 1 .. n PROVE \E x \in S : Cardinality(Below(x)) = k - 1
  <2>1. PICK i \in 1 .. n : Cardinality(Ahead(place, i)) = k - 1
    <3> HIDE DEF place
    <3> QED BY <1>1, <1>4, RankTaken
  <2> DEFINE A == Ahead(place, i)
             g == [j \in A |-> b[j]]
  <2>2. A = {j \in 1 .. n : place[j] < place[i]}
    <3> HIDE DEF place
    <3>1. DOMAIN place = 1 .. n /\ \A j \in 1 .. n : place[j] \in Int /\ place[i] \in Int BY <1>4
    <3>2. \A j \in 1 .. n : place[j] = place[i] => ~(j < i) BY <1>1, <1>5
    <3> QED BY <3>1, <3>2 DEF Ahead
  <2>3. A = {j \in 1 .. n : key[b[j]] < key[b[i]]} BY <2>2
  <2>4. A \in SUBSET (1 .. n) BY <2>3
  <2> HIDE DEF place
  <2>5. IsFiniteSet(A)
    <3>1. IsFiniteSet(1 .. n) BY <1>1, FS_Interval
    <3> HIDE DEF A
    <3> QED BY <2>4, <3>1, FS_Subset
  <2>6. g \in Bijection(A, Below(b[i]))
    <3>1. g \in [A -> Below(b[i])] BY <1>3, <2>3
    <3>2. \A j, l \in A : g[j] = g[l] => j = l BY <1>3, <2>4
    <3>3. \A x \in Below(b[i]) : \E j \in A : g[j] = x BY <1>3, <2>3
    <3> HIDE DEF g, A, Below
    <3>4. DOMAIN g = A BY <3>1
    <3> QED BY <3>1, <3>2, <3>3, <3>4 DEF Bijection, Injection, Surjection, IsInjective
  <2>7. Cardinality(Below(b[i])) = Cardinality(A)
    <3>1. ExistsBijection(A, Below(b[i])) BY <2>6 DEF ExistsBijection
    <3> HIDE DEF A, Below
    <3> QED BY <2>5, <3>1, FS_Bijection
  <2>8. b[i] \in S /\ Cardinality(Below(b[i])) = k - 1 BY <1>3, <2>1, <2>7
  <2> HIDE DEF Below
  <2> QED BY <2>8
<1> QED BY <1>1, <1>6 DEF n

\* Sorting a list loses no entry's place and adds none.
LEMMA SortedFacts ==
    ASSUME NEW s, IsSeq(s), NEW place \in [DOMAIN s -> Int]
    PROVE  /\ IsSeq(Sorted(s, place)) /\ ToSet(Sorted(s, place)) \subseteq ToSet(s)
           /\ Len(Sorted(s, place)) = Len(s) /\ (s # <<>> => Sorted(s, place) # <<>>)
<1> DEFINE at(k) == CHOOSE i \in DOMAIN s : Cardinality(Ahead(place, i)) = k - 1
           t == Sorted(s, place)
<1>1. Len(s) \in Nat /\ DOMAIN s = 1 .. Len(s) BY ListFacts
<1>2. t = [k \in DOMAIN s |-> s[at(k)]] BY DEF Sorted
<1>3. ASSUME NEW k \in DOMAIN s PROVE t[k] \in ToSet(s)
  <2>1. \E i \in DOMAIN s : Cardinality(Ahead(place, i)) = k - 1 BY <1>1, RankTaken
  <2>2. at(k) \in DOMAIN s BY <2>1
  <2> HIDE DEF at
  <2> QED BY <1>2, <2>2 DEF ToSet
<1>4. t = [k \in DOMAIN s |-> t[k]] BY <1>2
<1> HIDE DEF t
<1>5. IsSeq(t) /\ Len(t) = Len(s) /\ ToSet(t) = {t[k] : k \in DOMAIN s} BY <1>4, Mapped
<1>6. s # <<>> => t # <<>> BY <1>5, ListFacts
<1> QED BY <1>3, <1>5, <1>6 DEF t

\* A finite set as a list of as many entries (SetToSeq).
LEMMA SetListed ==
    ASSUME NEW S, IsFiniteSet(S)
    PROVE  /\ IsSeq(SetToSeq(S)) /\ ToSet(SetToSeq(S)) \subseteq S
           /\ Len(SetToSeq(S)) = Cardinality(S)
<1> DEFINE n == Cardinality(S)
<1>1. n \in Nat /\ ExistsBijection(1 .. n, S) BY FS_CardinalityType
<1>2. PICK b : b \in Bijection(1 .. n, S) BY <1>1 DEF ExistsBijection
<1>3. b \in [1 .. n -> S] /\ IsInjective(b)
      BY <1>2 DEF Bijection, Injection, IsInjective
<1>4. SetToSeq(S) = CHOOSE f \in [1 .. n -> S] : IsInjective(f) BY DEF SetToSeq
<1>5. SetToSeq(S) \in [1 .. n -> S] BY <1>3, <1>4
<1> HIDE DEF n
<1>6. SetToSeq(S) \in Seq(S) BY <1>1, <1>5, SeqDef
<1>7. Len(SetToSeq(S)) \in Nat /\ DOMAIN SetToSeq(S) = 1 .. Len(SetToSeq(S)) BY <1>6, LenProperties
<1>8. Len(SetToSeq(S)) = n BY <1>1, <1>5, <1>7
<1> QED BY <1>6, <1>8, InSeq DEF n
=============================================================================
