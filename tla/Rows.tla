---------------------------------- MODULE Rows ----------------------------------
(***************************************************************************)
(* Rows in file order: what the lookups of a corpus do with the lists they *)
(* read.  A comprehension over a list is written as a choice by a set, and *)
(* a sort by the places it gives, so that both are defined in first-order  *)
(* terms and can be reasoned about.                                        *)
(***************************************************************************)
EXTENDS Naturals, FiniteSets, SequencesExt

\* a list: what every row of the store keeps its lists in
IsSeq(s) == s \in Seq(ToSet(s))
\* a list of lists
AreLists(t) == IsSeq(t) /\ \A i \in DOMAIN t : IsSeq(t[i])

\* {**row, ...}: the row with those columns new or changed
With(columns, row) ==
    [c \in DOMAIN columns \cup DOMAIN row |-> IF c \in DOMAIN columns THEN columns[c] ELSE row[c]]

\* the entries of s that are in T, in their order
Kept(s, T) ==
    LET kept[n \in 0 .. Len(s)] ==
            IF n = 0 THEN <<>>
            ELSE IF s[n] \in T THEN Append(kept[n - 1], s[n]) ELSE kept[n - 1]
    IN  kept[Len(s)]

\* [row for row in s if Test(row)]
Select(s, Test(_)) == Kept(s, {x \in ToSet(s) : Test(x)})

\* the entries of s at the places of I, in their order
AtPlaces(s, I) ==
    [k \in 1 .. Cardinality(I) |-> s[CHOOSE i \in I : Cardinality({j \in I : j < i}) = k - 1]]

\* seq[:n]
Upto(n, seq) == IF Len(seq) <= n THEN seq ELSE SubSeq(seq, 1, n)

\* the entries of s by their place, those of one place in the order they have
Ahead(place, i) == {j \in DOMAIN place : place[j] < place[i] \/ (place[j] = place[i] /\ j < i)}
Sorted(s, place) ==
    [k \in DOMAIN s |-> s[CHOOSE i \in DOMAIN s : Cardinality(Ahead(place, i)) = k - 1]]
=============================================================================
