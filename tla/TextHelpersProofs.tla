--------------------------- MODULE TextHelpersProofs ---------------------------
(* What strip and split return for texts of every length.                   *)
EXTENDS MCHost, FiniteSetTheorems, SequenceTheorems, TLAPS

(* The place of an element of a finite set of numbers in its order.         *)
Rank(S, k) == Cardinality({j \in S : j <= k})

(* Ranks run from 1 to the size of the set and grow with the element.       *)
LEMMA RankGrows ==
    ASSUME NEW S \in SUBSET Int, IsFiniteSet(S)
    PROVE  /\ Cardinality(S) \in Nat
           /\ \A k \in S : Rank(S, k) \in 1 .. Cardinality(S)
           /\ \A k, l \in S : k < l => Rank(S, k) < Rank(S, l)
<1> DEFINE upTo(k) == {j \in S : j <= k}
<1>1. ASSUME NEW k \in S
      PROVE  /\ IsFiniteSet(upTo(k))
             /\ Cardinality(upTo(k)) \in Nat
             /\ Cardinality(upTo(k)) <= Cardinality(S)
             /\ Cardinality(upTo(k)) # 0
    <2>1. upTo(k) \in SUBSET S /\ k \in upTo(k)
        OBVIOUS
    <2> QED
        BY <2>1, FS_Subset, FS_CardinalityType, FS_EmptySet
<1>2. ASSUME NEW k \in S, NEW l \in S, k < l
      PROVE  Cardinality(upTo(k)) < Cardinality(upTo(l))
    <2>1. /\ upTo(k) \in SUBSET upTo(l)
          /\ l \in upTo(l) /\ l \notin upTo(k)
        <3>1. k \in Int /\ l \in Int /\ \A j \in S : j \in Int
            OBVIOUS
        <3>2. \A j \in S : j <= k => j <= l
            BY <1>2, <3>1
        <3>3. l <= l /\ ~(l <= k)
            BY <1>2, <3>1
        <3> QED
            BY <3>2, <3>3
    <2>2. upTo(k) # upTo(l)
        BY <2>1
    <2> QED
        BY <1>1, <2>1, <2>2, FS_Subset
<1> QED
    BY <1>1, <1>2, FS_CardinalityType DEF Rank

(* Every rank is taken: ranks differ, and there are as many as elements.    *)
LEMMA RankTaken ==
    ASSUME NEW S \in SUBSET Int, IsFiniteSet(S), NEW n \in 1 .. Cardinality(S)
    PROVE  \E k \in S : Rank(S, k) = n
<1> DEFINE ranks == 1 .. Cardinality(S)
           rank  == [k \in S |-> Rank(S, k)]
<1>1. rank \in Injection(S, ranks)
    <2>1. rank \in [S -> ranks]
        BY RankGrows
    <2>2. ASSUME NEW k \in S, NEW l \in S, rank[k] = rank[l]
          PROVE  k = l
        <3>1. Rank(S, k) = Rank(S, l) /\ Rank(S, k) \in Int
            BY <2>2, RankGrows
        <3>2. ~(k < l) /\ ~(l < k)
            BY <3>1, RankGrows
        <3> QED
            BY <3>2
    <2> QED
        BY <2>1, <2>2 DEF Injection, IsInjective
<1>2. IsFiniteSet(ranks) /\ Cardinality(ranks) = Cardinality(S)
    BY FS_Interval, FS_CardinalityType
<1>3. rank \in Surjection(S, ranks)
    BY <1>1, <1>2, FS_Injection
<1> QED
    BY <1>3 DEF Surjection

(* A finite set of numbers has a least and a greatest element.              *)
LEMMA MinIsLeast ==
    ASSUME NEW S \in SUBSET Int, IsFiniteSet(S), S # {}
    PROVE  Min(S) \in S /\ \A k \in S : Min(S) <= k
<1>1. Cardinality(S) \in Nat /\ Cardinality(S) # 0
    BY FS_CardinalityType, FS_EmptySet
<1>2. PICK k \in S : Rank(S, k) = 1
    BY <1>1, RankTaken
<1>3. \A l \in S : k <= l
    <2> SUFFICES ASSUME NEW l \in S, l < k PROVE FALSE
        OBVIOUS
    <2> QED
        BY <1>2, RankGrows
<1> QED
    BY <1>3 DEF Min

LEMMA MaxIsGreatest ==
    ASSUME NEW S \in SUBSET Int, IsFiniteSet(S), S # {}
    PROVE  Max(S) \in S /\ \A k \in S : k <= Max(S)
<1>1. Cardinality(S) \in Nat /\ Cardinality(S) # 0
    BY FS_CardinalityType, FS_EmptySet
<1>2. PICK k \in S : Rank(S, k) = Cardinality(S)
    BY <1>1, RankTaken
<1>3. \A l \in S : k >= l
    <2> SUFFICES ASSUME NEW l \in S, k < l PROVE FALSE
        OBVIOUS
    <2> QED
        BY <1>2, RankGrows
<1> QED
    BY <1>3 DEF Max

(* They are known by these two properties.                                  *)
LEMMA MinIs ==
    ASSUME NEW S \in SUBSET Int, NEW m \in S, \A k \in S : m <= k
    PROVE  Min(S) = m
<1>1. Min(S) \in S /\ \A k \in S : Min(S) <= k
    BY DEF Min
<1>2. m \in Int /\ Min(S) \in Int
    BY <1>1
<1> QED
    BY <1>1, <1>2

LEMMA MaxIs ==
    ASSUME NEW S \in SUBSET Int, NEW m \in S, \A k \in S : k <= m
    PROVE  Max(S) = m
<1>1. Max(S) \in S /\ \A k \in S : Max(S) >= k
    BY DEF Max
<1>2. m \in Int /\ Max(S) \in Int
    BY <1>1
<1> QED
    BY <1>1, <1>2

-----------------------------------------------------------------------------
(* strip.                                                                   *)

(* The positions to keep, if there are any, have a first and a last one.    *)
LEMMA KeptEnds ==
    ASSUME NEW C, NEW s \in Seq(C), NEW chars, Kept(s, chars) # {}
    PROVE  /\ Min(Kept(s, chars)) \in Kept(s, chars)
           /\ Max(Kept(s, chars)) \in Kept(s, chars)
           /\ \A k \in Kept(s, chars) :
                Min(Kept(s, chars)) <= k /\ k <= Max(Kept(s, chars))
<1>1. Kept(s, chars) \in SUBSET (1 .. Len(s)) /\ Len(s) \in Nat
    BY DEF Kept
<1>2. IsFiniteSet(1 .. Len(s))
    BY <1>1, FS_Interval
<1>3. IsFiniteSet(Kept(s, chars)) /\ Kept(s, chars) \in SUBSET Int
    BY <1>1, <1>2, FS_Subset
<1> QED
    BY <1>3, MinIsLeast, MaxIsGreatest

(* Where the loop from the left stops.                                      *)
LEMMA LeftEndIs ==
    ASSUME NEW C, NEW s \in Seq(C), s # <<>>, NEW chars, NEW sides
    PROVE  LeftEnd(s, sides, chars) =
             IF "left" \notin sides THEN 0
             ELSE IF Kept(s, chars) = {} THEN Len(s)
             ELSE Min(Kept(s, chars)) - 1
<1> DEFINE stops == {Len(s)} \cup {k \in 0 .. Len(s) - 1 : s[k + 1] \notin chars}
           kept  == Kept(s, chars)
<1>1. Len(s) \in Nat /\ Len(s) # 0 /\ DOMAIN s = 1 .. Len(s)
    BY EmptySeq
<1>2. stops \in SUBSET Int
    BY <1>1
<1>3. CASE kept = {}
    <2>1. stops = {Len(s)}
        BY <1>1, <1>3 DEF Kept
    <2>2. Len(s) \in stops /\ \A k \in stops : Len(s) <= k
        BY <1>1, <2>1
    <2>3. Min(stops) = Len(s)
        BY <1>2, <2>2, MinIs
    <2> QED
        BY <1>3, <2>3 DEF LeftEnd
<1>4. CASE kept # {}
    <2>1. /\ Min(kept) \in kept /\ \A k \in kept : Min(kept) <= k
        BY <1>4, KeptEnds
    <2>2. Min(kept) - 1 \in stops
        BY <1>1, <2>1 DEF Kept
    <2>3. \A j \in stops : Min(kept) - 1 <= j
        <3>1. Min(kept) \in Int /\ Min(kept) - 1 <= Len(s)
            BY <1>1, <2>1 DEF Kept
        <3>2. ASSUME NEW j \in 0 .. Len(s) - 1, s[j + 1] \notin chars
              PROVE  Min(kept) - 1 <= j
            <4>1. j + 1 \in kept
                BY <1>1, <3>2 DEF Kept
            <4> QED
                BY <2>1, <3>1, <4>1
        <3> QED
            BY <3>1, <3>2
    <2>4. Min(stops) = Min(kept) - 1
        BY <1>2, <2>2, <2>3, MinIs
    <2> QED
        BY <1>4, <2>4 DEF LeftEnd
<1> QED
    BY <1>3, <1>4

(* Where the loop from the right stops, started behind the one from the     *)
(* left or, in rstrip, at 0.                                                *)
LEMMA RightEndIs ==
    ASSUME NEW C, NEW s \in Seq(C), s # <<>>, NEW chars, Kept(s, chars) # {},
           NEW sides, "right" \in sides,
           NEW i \in 0 .. Min(Kept(s, chars)) - 1
    PROVE  RightEnd(s, i, sides, chars) =
             IF Kept(s, chars) = {1} THEN 0 ELSE Max(Kept(s, chars))
<1> DEFINE kept  == Kept(s, chars)
           stops == {0} \cup {j \in 0 .. Len(s) - 1 : j < i \/ s[j + 1] \notin chars}
           last  == Max(kept)
<1>1. Len(s) \in Nat /\ Len(s) # 0 /\ DOMAIN s = 1 .. Len(s)
    BY EmptySeq
<1>2. /\ Min(kept) \in kept /\ last \in kept
      /\ \A k \in kept : Min(kept) <= k /\ k <= last
      /\ kept \subseteq 1 .. Len(s)
    BY <1>1, KeptEnds DEF Kept
<1> HIDE DEF last
<1>3. last - 1 \in stops /\ stops \in SUBSET Int
    BY <1>1, <1>2 DEF Kept
<1>4. ASSUME NEW j \in stops PROVE j <= last - 1
    <2>1. CASE j = 0
        BY <1>1, <1>2, <2>1
    <2>2. CASE j \in 0 .. Len(s) - 1 /\ j < i
        BY <1>1, <1>2, <2>2
    <2>3. CASE j \in 0 .. Len(s) - 1 /\ s[j + 1] \notin chars
        <3>1. j + 1 \in kept
            BY <1>1, <2>3 DEF Kept
        <3> QED
            BY <1>1, <1>2, <2>3, <3>1
    <2> QED
        BY <2>1, <2>2, <2>3
<1>5. Max(stops) = last - 1
    BY <1>3, <1>4, MaxIs
<1>6. RightEnd(s, i, sides, chars) = Past(last - 1)
    BY <1>5 DEF RightEnd
<1>7. kept = {1} <=> last = 1
    <2>1. last = 1 => kept = {1}
        BY <1>1, <1>2
    <2> QED
        BY <1>2, <2>1
<1> QED
    BY <1>1, <1>2, <1>6, <1>7 DEF Past, last

(* For every text: strip and rstrip take what is at the ends, and a text    *)
(* whose only character to keep is its first; lstrip takes what is at the   *)
(* beginning.                                                               *)
THEOREM StripIsRight ==
    ASSUME NEW C, NEW s \in Seq(C), NEW chars
    PROVE  StripOf(s, chars)
<1> SUFFICES ASSUME s # <<>> PROVE StripOf(s, chars)
    BY DEF StripOf
<1> DEFINE kept  == Kept(s, chars)
           first == Min(kept)
           last  == Max(kept)
           both  == {"left", "right"}
<1>1. Len(s) \in Nat /\ Len(s) # 0 /\ DOMAIN s = 1 .. Len(s)
    BY EmptySeq
<1>2. CASE kept = {}
    <2>1. /\ LeftEnd(s, both, chars) = Len(s)
          /\ LeftEnd(s, {"left"}, chars) = Len(s)
          /\ LeftEnd(s, {"right"}, chars) = 0
        BY <1>2, LeftEndIs
    <2>2. strip(s, chars) = <<>> /\ lstrip(s, chars) = <<>>
        <3> DEFINE stops == {0} \cup {j \in 0 .. Len(s) - 1 :
                                       j < Len(s) \/ s[j + 1] \notin chars}
        <3>1. /\ stops \in SUBSET Int /\ Len(s) - 1 \in stops
              /\ \A j \in stops : j <= Len(s) - 1
            BY <1>1
        <3>2. Max(stops) = Len(s) - 1
            BY <3>1, MaxIs
        <3>3. RightEnd(s, Len(s), both, chars) \in {0, Len(s)}
            BY <1>1, <3>2 DEF RightEnd, Past
        <3>4. SubSeq(s, Len(s) + 1, Len(s)) = <<>>
            BY <1>1, SubSeqEmpty
        <3>5. RightEnd(s, Len(s), {"left"}, chars) = Len(s)
            BY DEF RightEnd
        <3> QED
            BY <1>1, <2>1, <3>3, <3>4, <3>5 DEF strip, lstrip, do_strip
    <2>3. rstrip(s, chars) = <<>>
        <3>1. {j \in 0 .. Len(s) - 1 : j < 0 \/ s[j + 1] \notin chars} = {}
            BY <1>1, <1>2 DEF Kept
        <3>2. Max({0}) = 0
            BY MaxIs
        <3>3. RightEnd(s, 0, {"right"}, chars) = 0
            BY <3>1, <3>2 DEF RightEnd, Past
        <3>4. SubSeq(s, 0 + 1, 0) = <<>>
            BY SubSeqEmpty
        <3> QED
            BY <2>1, <3>3, <3>4 DEF rstrip, do_strip
    <2> QED
        BY <1>2, <2>2, <2>3 DEF StripOf, Trimmed
<1>3. CASE kept # {}
    <2>1. /\ LeftEnd(s, both, chars) = first - 1
          /\ LeftEnd(s, {"left"}, chars) = first - 1
          /\ LeftEnd(s, {"right"}, chars) = 0
        BY <1>3, LeftEndIs
    <2>2. first \in 1 .. Len(s) /\ last \in first .. Len(s)
        <3>1. first \in kept /\ last \in kept /\ first <= last
            BY <1>3, KeptEnds
        <3>2. first \in DOMAIN s /\ last \in DOMAIN s
            BY <3>1 DEF Kept
        <3> HIDE DEF first, last
        <3> QED
            BY <1>1, <3>1, <3>2
    <2>3. /\ RightEnd(s, first - 1, both, chars) = IF kept = {1} THEN 0 ELSE last
          /\ RightEnd(s, 0, {"right"}, chars) = IF kept = {1} THEN 0 ELSE last
          /\ RightEnd(s, first - 1, {"left"}, chars) = Len(s)
        <3>1. first - 1 \in 0 .. first - 1 /\ 0 \in 0 .. first - 1
            BY <1>1, <2>2
        <3> QED
            BY <1>3, <3>1, RightEndIs DEF RightEnd
    <2>4. kept = {1} => first = 1
        <3>1. first \in kept
            BY <1>3, KeptEnds
        <3> QED
            BY <3>1
    <2>5. lstrip(s, chars) = SubSeq(s, first, Len(s))
        BY <1>1, <2>1, <2>2, <2>3 DEF lstrip, do_strip
    <2>6. rstrip(s, chars) = IF kept = {1} THEN <<>> ELSE SubSeq(s, 1, last)
        <3>1. SubSeq(s, 1, 0) = <<>>
            BY SubSeqEmpty
        <3> QED
            BY <1>1, <2>1, <2>2, <2>3, <3>1 DEF rstrip, do_strip
    <2>7. strip(s, chars) = IF kept = {1} THEN <<>> ELSE SubSeq(s, first, last)
        <3>1. SubSeq(s, 1, 0) = <<>>
            BY SubSeqEmpty
        <3> QED
            BY <1>1, <2>1, <2>2, <2>3, <2>4, <3>1 DEF strip, do_strip
    <2> QED
        BY <1>3, <2>5, <2>6, <2>7 DEF StripOf, Trimmed
<1> QED
    BY <1>2, <1>3

-----------------------------------------------------------------------------
(* split.                                                                   *)

(* A function on 1 .. n is a sequence of length n.                          *)
LEMMA FunctionIsSeq ==
    ASSUME NEW S, NEW n \in Nat, NEW f \in [1 .. n -> S]
    PROVE  f \in Seq(S) /\ Len(f) = n
<1>1. f \in Seq(S)
    BY SeqDef
<1>2. Len(f) \in Nat /\ DOMAIN f = 1 .. Len(f) /\ DOMAIN f = 1 .. n
    BY <1>1, LenProperties
<1>3. Len(f) = n
    <2>1. \A k \in Int : k \in 1 .. Len(f) <=> k \in 1 .. n
        BY <1>2
    <2> QED
        BY <1>2, <2>1
<1> QED
    BY <1>1, <1>3

(* FlattenSeq is the only function that joins step by step.                 *)
LEMMA FlattenIs ==
    ASSUME NEW n \in Nat \ {0}, NEW seqs, Len(seqs) = n,
           NEW W, \A i \in 1 .. n :
                     W[i] = IF i = 1 THEN seqs[i] ELSE W[i - 1] \o seqs[i]
    PROVE  FlattenSeq(seqs) = W[n]
<1> DEFINE Joins(g) == g = [i \in 1 .. Len(seqs) |->
                              IF i = 1 THEN seqs[i] ELSE g[i - 1] \o seqs[i]]
           f   == CHOOSE g : Joins(g)
           bad == {i \in 1 .. n : f[i] # W[i]}
<1>1. FlattenSeq(seqs) = f[n]
    BY DEF FlattenSeq
<1>2. Joins(f)
    <2>1. Joins([i \in 1 .. n |-> W[i]])
        OBVIOUS
    <2> HIDE DEF Joins
    <2> QED
        BY <2>1
<1> HIDE DEF f
<1>3. bad = {}
    <2> SUFFICES ASSUME bad # {} PROVE FALSE
        OBVIOUS
    <2>1. IsFiniteSet(1 .. n)
        BY FS_Interval
    <2>2. bad \in SUBSET (1 .. n) /\ bad \in SUBSET Int
        OBVIOUS
    <2> HIDE DEF bad
    <2>3. IsFiniteSet(bad)
        BY <2>1, <2>2, FS_Subset
    <2>4. PICK m \in bad : \A i \in bad : m <= i
        BY <2>2, <2>3, MinIsLeast
    <2>5. m \in 1 .. n /\ f[m] # W[m]
        BY DEF bad
    <2>6. CASE m = 1
        BY <1>2, <2>5, <2>6
    <2>7. CASE m # 1
        <3>1. m - 1 \in 1 .. n /\ m - 1 \notin bad
            BY <2>2, <2>4, <2>5, <2>7
        <3>2. f[m - 1] = W[m - 1]
            BY <3>1 DEF bad
        <3>3. f[m] = f[m - 1] \o seqs[m] /\ W[m] = W[m - 1] \o seqs[m]
            BY <1>2, <2>5, <2>7
        <3> QED
            BY <2>5, <3>2, <3>3
    <2> QED
        BY <2>6, <2>7
<1>4. n \in 1 .. n
    OBVIOUS
<1> QED
    BY <1>1, <1>3, <1>4

(* The ends of the pieces in their order: one more than separators, the     *)
(* last behind the text, and none between two neighbours.                   *)
LEMMA EndsInOrder ==
    ASSUME NEW C, NEW s \in Seq(C), NEW sep,
           NEW N, N = Cardinality(EndsOfPieces(s, sep))
    PROVE  /\ N = Cardinality({k \in DOMAIN s : s[k] = sep}) + 1
           /\ N \in Nat \ {0}
           /\ \A n \in 1 .. N : NthEnd(s, sep, n) \in EndsOfPieces(s, sep)
           /\ \A m, n \in 1 .. N : m < n => NthEnd(s, sep, m) < NthEnd(s, sep, n)
           /\ NthEnd(s, sep, N) = Len(s) + 1
           /\ \A n \in 1 .. N : \A k \in EndsOfPieces(s, sep) :
                k < NthEnd(s, sep, n) => n # 1 /\ k <= NthEnd(s, sep, n - 1)
<1> DEFINE ends == EndsOfPieces(s, sep)
           seps == {k \in DOMAIN s : s[k] = sep}
           e(n) == NthEnd(s, sep, n)
<1>1. Len(s) \in Nat /\ DOMAIN s = 1 .. Len(s)
    BY LenProperties
<1>2. ends = seps \cup {Len(s) + 1} /\ seps \in SUBSET (1 .. Len(s))
    BY <1>1 DEF EndsOfPieces
<1>3. IsFiniteSet(seps) /\ Len(s) + 1 \notin seps
    <2>1. IsFiniteSet(1 .. Len(s))
        BY <1>1, FS_Interval
    <2> QED
        BY <1>1, <1>2, <2>1, FS_Subset
<1>4. IsFiniteSet(ends) /\ N = Cardinality(seps) + 1 /\ N \in Nat \ {0}
    <2> HIDE DEF seps, ends
    <2>1. Cardinality(seps) \in Nat
        BY <1>3, FS_CardinalityType
    <2>2. IsFiniteSet(ends) /\ Cardinality(ends) = Cardinality(seps) + 1
        BY <1>2, <1>3, FS_AddElement
    <2> QED
        BY <2>1, <2>2 DEF ends
<1>5. ends \in SUBSET Int
    BY <1>1, <1>2
<1>6. ASSUME NEW n \in 1 .. N PROVE e(n) \in ends /\ Rank(ends, e(n)) = n
    <2>1. \E k \in ends : Rank(ends, k) = n
        BY <1>4, <1>5, RankTaken
    <2>2. NthEnd(s, sep, n) = CHOOSE k \in ends : Rank(ends, k) = n
        BY DEF NthEnd, Rank
    <2> HIDE DEF ends
    <2> QED
        BY <2>1, <2>2
<1> HIDE DEF ends, e
<1>7. ASSUME NEW m \in 1 .. N, NEW n \in 1 .. N, m < n PROVE e(m) < e(n)
    <2>1. e(m) \in Int /\ e(n) \in Int
        BY <1>5, <1>6
    <2>2. CASE e(m) = e(n)
        BY <1>6, <1>7, <2>2
    <2>3. CASE e(n) < e(m)
        <3>1. Rank(ends, e(n)) < Rank(ends, e(m))
            BY <1>4, <1>5, <1>6, <2>3, RankGrows
        <3> QED
            BY <1>6, <1>7, <3>1
    <2> QED
        BY <2>1, <2>2, <2>3
<1>8. ASSUME NEW k \in ends PROVE \E n \in 1 .. N : k = e(n)
    <2>1. N = Cardinality(ends)
        BY DEF ends
    <2>2. PICK n \in 1 .. N : n = Rank(ends, k)
        BY <1>4, <1>5, <2>1, RankGrows
    <2>3. e(n) \in ends /\ Rank(ends, e(n)) = n
        BY <1>6
    <2>4. k \in Int /\ e(n) \in Int
        BY <1>5, <2>3
    <2>5. ~(k < e(n)) /\ ~(e(n) < k)
        <3>1. /\ k < e(n) => Rank(ends, k) < Rank(ends, e(n))
              /\ e(n) < k => Rank(ends, e(n)) < Rank(ends, k)
            BY <1>4, <1>5, <2>3, RankGrows
        <3>2. Rank(ends, k) = n /\ Rank(ends, e(n)) = n /\ n \in Int
            BY <2>2, <2>3
        <3> QED
            BY <3>1, <3>2
    <2> QED
        BY <2>4, <2>5
<1>9. e(N) = Len(s) + 1
    <2>1. PICK n \in 1 .. N : Len(s) + 1 = e(n)
        BY <1>2, <1>8
    <2>2. N \in 1 .. N
        BY <1>4
    <2>3. e(N) \in Int /\ e(N) <= Len(s) + 1
        <3>1. e(N) \in ends
            BY <1>6, <2>2
        <3> QED
            BY <1>1, <1>2, <3>1
    <2>4. CASE n = N
        BY <2>1, <2>4
    <2>5. CASE n < N
        <3>1. e(n) < e(N)
            BY <1>7, <2>2, <2>5
        <3> QED
            BY <1>1, <2>1, <2>3, <3>1
    <2> QED
        BY <1>4, <2>4, <2>5
<1>10. ASSUME NEW n \in 1 .. N, NEW k \in ends, k < e(n)
       PROVE  n # 1 /\ k <= e(n - 1)
    <2>1. PICK m \in 1 .. N : k = e(m)
        BY <1>8
    <2>2. e(m) \in Int /\ e(n) \in Int
        BY <1>5, <1>6
    <2>3. m < n
        <3>1. ~(n < m) /\ n # m
            BY <1>7, <1>10, <2>1, <2>2
        <3> QED
            BY <1>4, <3>1
    <2>4. n - 1 \in 1 .. N /\ (m = n - 1 \/ m < n - 1)
        BY <1>4, <2>3
    <2>5. e(n - 1) \in Int
        BY <1>5, <1>6, <2>4
    <2>6. m < n - 1 => e(m) < e(n - 1)
        BY <1>7, <2>4
    <2>7. e(m) <= e(n - 1)
        BY <2>2, <2>4, <2>5, <2>6
    <2> QED
        BY <1>4, <2>1, <2>3, <2>7
<1> QED
    BY <1>4, <1>6, <1>7, <1>9, <1>10 DEF ends, e

(* For every text and separator: split loses nothing, no piece holds a      *)
(* separator, and there is one piece more than separators.                  *)
THEOREM SplitIsRight ==
    ASSUME NEW C, NEW s \in Seq(C), NEW sep
    PROVE  SplitOf(s, sep)
<1> SUFFICES ASSUME s # <<>> PROVE SplitOf(s, sep)
    BY DEF SplitOf
<1> DEFINE ends     == EndsOfPieces(s, sep)
           N        == Cardinality(ends)
           e(n)     == NthEnd(s, sep, n)
           start(n) == IF n = 1 THEN 1 ELSE e(n - 1) + 1
           pieces   == split(s, sep)
           D        == C \cup {sep}
           whole    == Append(s, sep)
           joined   == [n \in 1 .. N |-> Append(pieces[n], sep)]
           upTo     == [n \in 1 .. N |-> SubSeq(whole, 1, e(n))]
<1>1. /\ Len(s) \in Nat /\ DOMAIN s = 1 .. Len(s) /\ s \in Seq(D)
      /\ \A k \in 1 .. Len(s) : s[k] \in D
    BY LenProperties, SeqMonotonic
<1>2. /\ whole \in Seq(D) /\ Len(whole) = Len(s) + 1
      /\ whole[Len(s) + 1] = sep
      /\ \A k \in 1 .. Len(s) : whole[k] = s[k]
    BY <1>1, AppendProperties
<1>3. pieces = [n \in 1 .. N |-> SubSeq(s, start(n), e(n) - 1)]
    BY DEF split
<1>4. N \in Nat \ {0} /\ N = Cardinality({k \in DOMAIN s : s[k] = sep}) + 1
    BY EndsInOrder
<1>5. \A k \in Int : k \in ends <=> k \in 1 .. Len(s) + 1 /\ whole[k] = sep
    BY <1>1, <1>2 DEF EndsOfPieces
<1>6. ASSUME NEW n \in 1 .. N
      PROVE  /\ e(n) \in 1 .. Len(s) + 1 /\ whole[e(n)] = sep
             /\ n # 1 => n - 1 \in 1 .. N /\ e(n - 1) \in 1 .. Len(s) + 1
             /\ start(n) \in 1 .. e(n)
             /\ \A k \in start(n) .. e(n) - 1 : whole[k] # sep
    <2>1. /\ e(n) \in ends
          /\ \A k \in ends : k < e(n) => n # 1 /\ k <= e(n - 1)
        BY EndsInOrder
    <2>2. n # 1 => /\ n - 1 \in 1 .. N /\ e(n - 1) \in ends
                   /\ e(n - 1) < e(n)
        <3> SUFFICES ASSUME n # 1
                     PROVE  /\ n - 1 \in 1 .. N /\ e(n - 1) \in ends
                            /\ e(n - 1) < e(n)
            OBVIOUS
        <3>1. n - 1 \in 1 .. N /\ n - 1 < n
            BY <1>4
        <3> QED
            BY <3>1, EndsInOrder
    <2> HIDE DEF e, N, whole, ends, pieces
    <2>3. \A k \in ends : k \in 1 .. Len(s) + 1 /\ whole[k] = sep
        BY <1>1, <1>5 DEF ends, EndsOfPieces
    <2>4. start(n) \in 1 .. e(n)
        BY <1>1, <2>1, <2>2, <2>3
    <2>5. ASSUME NEW k \in start(n) .. e(n) - 1 PROVE whole[k] # sep
        <3> SUFFICES ASSUME whole[k] = sep PROVE FALSE
            OBVIOUS
        <3>1. e(n) \in 1 .. Len(s) + 1 /\ k \in Int /\ k < e(n)
            BY <1>1, <2>1, <2>3, <2>4
        <3>2. k \in 1 .. Len(s) + 1
            BY <1>1, <2>4, <3>1
        <3>3. n # 1 /\ k <= e(n - 1)
            BY <1>5, <2>1, <3>1, <3>2
        <3> QED
            BY <1>1, <2>2, <2>3, <3>1, <3>3
    <2> QED
        BY <2>1, <2>2, <2>3, <2>4, <2>5
<1> HIDE DEF e, N, whole, ends, pieces
<1>7. ASSUME NEW n \in 1 .. N
      PROVE  /\ pieces[n] \in Seq(D)
             /\ Len(pieces[n]) = e(n) - start(n)
             /\ \A k \in 1 .. e(n) - start(n) :
                  pieces[n][k] = whole[start(n) + k - 1] /\ pieces[n][k] # sep
    <2>1. e(n) \in 1 .. Len(s) + 1 /\ start(n) \in 1 .. e(n)
        BY <1>6
    <2>2. PICK a \in Nat, b \in Int : a = start(n) /\ b = e(n) - 1
        BY <1>1, <2>1
    <2>3. 1 <= a /\ a <= b + 1 /\ b <= Len(s)
        BY <1>1, <2>1, <2>2
    <2>4. \A k \in a .. b : k \in 1 .. Len(s) /\ s[k] \in D /\ whole[k] = s[k]
        BY <1>1, <1>2, <2>3
    <2>5. pieces[n] = SubSeq(s, a, b)
        BY <1>3, <2>2
    <2>6. /\ SubSeq(s, a, b) \in Seq(D)
          /\ Len(SubSeq(s, a, b)) = b - a + 1
          /\ \A k \in 1 .. b - a + 1 : SubSeq(s, a, b)[k] = s[a + k - 1]
        BY <2>3, <2>4, SubSeqProperties
    <2>7. \A k \in 1 .. b - a + 1 :
            a + k - 1 \in a .. b /\ SubSeq(s, a, b)[k] = whole[a + k - 1]
        BY <2>3, <2>4, <2>6
    <2>8. \A k \in a .. b : whole[k] # sep
        BY <1>6, <2>2
    <2>9. e(n) - start(n) = b - a + 1
        BY <1>1, <2>1, <2>2
    <2>10. \A k \in 1 .. b - a + 1 :
             pieces[n][k] = whole[a + k - 1] /\ pieces[n][k] # sep
        BY <2>5, <2>7, <2>8
    <2> HIDE DEF start
    <2> QED
        BY <2>2, <2>5, <2>6, <2>9, <2>10
<1>8. ASSUME NEW n \in 1 .. N
      PROVE  joined[n] = SubSeq(whole, start(n), e(n))
    <2>1. /\ e(n) \in 1 .. Len(s) + 1 /\ start(n) \in 1 .. e(n)
          /\ whole[e(n)] = sep
        BY <1>6
    <2>2. PICK a \in Nat, b \in Nat : a = start(n) /\ b = e(n)
        BY <1>1, <2>1
    <2>3. 1 <= a /\ a <= b /\ b <= Len(s) + 1
        BY <1>1, <2>1, <2>2
    <2>4. \A k \in a .. b : whole[k] \in D
        BY <1>1, <1>2, <2>3
    <2>5. /\ SubSeq(whole, a, b) \in Seq(D)
          /\ Len(SubSeq(whole, a, b)) = b - a + 1
          /\ \A k \in 1 .. b - a + 1 : SubSeq(whole, a, b)[k] = whole[a + k - 1]
        BY <2>3, <2>4, SubSeqProperties
    <2>6. /\ pieces[n] \in Seq(D) /\ Len(pieces[n]) = b - a
          /\ \A k \in 1 .. b - a : pieces[n][k] = whole[a + k - 1]
        BY <1>7, <2>2
    <2>7. /\ Append(pieces[n], sep) \in Seq(D)
          /\ Len(Append(pieces[n], sep)) = b - a + 1
          /\ \A k \in 1 .. b - a : Append(pieces[n], sep)[k] = pieces[n][k]
          /\ Append(pieces[n], sep)[b - a + 1] = sep
        BY <2>6, AppendProperties
    <2>8. ASSUME NEW k \in 1 .. b - a + 1
          PROVE  Append(pieces[n], sep)[k] = SubSeq(whole, a, b)[k]
        <3>1. CASE k = b - a + 1
            <4>1. a + k - 1 = b
                BY <3>1
            <4> QED
                BY <2>1, <2>2, <2>5, <2>7, <3>1, <4>1
        <3>2. CASE k \in 1 .. b - a
            BY <2>5, <2>6, <2>7, <3>2
        <3>3. k = b - a + 1 \/ k \in 1 .. b - a
            BY <2>3
        <3> QED
            BY <3>1, <3>2, <3>3
    <2>9. Append(pieces[n], sep) = SubSeq(whole, a, b)
        BY <2>5, <2>7, <2>8, SeqEqual
    <2> QED
        BY <2>2, <2>9
<1>9. ASSUME NEW n \in 1 .. N
      PROVE  upTo[n] = IF n = 1 THEN joined[n] ELSE upTo[n - 1] \o joined[n]
    <2>1. CASE n = 1
        BY <1>8, <2>1
    <2>2. CASE n # 1
        <3>1. PICK k \in Nat, b \in Nat : k = e(n - 1) /\ b = e(n)
            BY <1>1, <1>6, <2>2
        <3>2. k \in 0 .. Len(whole) /\ b \in k .. Len(whole) /\ n - 1 \in 1 .. N
            BY <1>1, <1>2, <1>6, <2>2, <3>1
        <3>3. SubSeq(whole, 1, k) \o SubSeq(whole, k + 1, b) = SubSeq(whole, 1, b)
            <4>1. 1 \in 1 .. Len(whole) + 1 /\ k \in 1 - 1 .. Len(whole)
                BY <1>1, <1>2, <3>2
            <4> QED
                BY <1>2, <3>2, <4>1, ConcatAdjacentSubSeq
        <3>4. joined[n] = SubSeq(whole, k + 1, b)
            BY <1>8, <2>2, <3>1
        <3> QED
            BY <2>2, <3>1, <3>2, <3>3, <3>4
    <2> QED
        BY <2>1, <2>2
<1>10. FlattenSeq(joined) = whole
    <2>1. joined \in [1 .. N -> Seq(D)]
        <3>1. ASSUME NEW n \in 1 .. N PROVE Append(pieces[n], sep) \in Seq(D)
            BY <1>7, AppendProperties
        <3> QED
            BY <3>1
    <2>2. Len(joined) = N
        BY <1>4, <2>1, FunctionIsSeq
    <2>3. FlattenSeq(joined) = upTo[N]
        <3> HIDE DEF joined, upTo
        <3> QED
            BY <1>4, <1>9, <2>2, FlattenIs
    <2>4. e(N) = Len(s) + 1
        BY EndsInOrder DEF N, e, ends
    <2>5. N \in 1 .. N
        BY <1>4
    <2>6. upTo[N] = SubSeq(whole, 1, Len(whole))
        BY <1>2, <2>4, <2>5
    <2> QED
        BY <1>2, <2>3, <2>6, SubSeqFull
<1>11. DOMAIN pieces = 1 .. N /\ Len(pieces) = N
    <2>1. pieces \in [1 .. N -> Seq(D)]
        BY <1>3, <1>7
    <2> QED
        BY <1>4, <2>1, FunctionIsSeq
<1>12. ASSUME NEW n \in 1 .. N, NEW k \in DOMAIN pieces[n]
       PROVE  pieces[n][k] # sep
    BY <1>7, LenProperties
<1> QED
    BY <1>4, <1>10, <1>11, <1>12 DEF SplitOf, pieces, whole

-----------------------------------------------------------------------------
(* What the run looks at one text at a time.                                *)

TextOK == text \in Texts

LEMMA TextStays == Spec => []TextOK
<1>1. Init => TextOK
    BY DEF Init, TextOK
<1>2. TextOK /\ [Next /\ UNCHANGED <<part, text>>]_<<part, text, timer, ports, settings>>
        => TextOK'
    BY DEF TextOK
<1> QED
    BY <1>1, <1>2, PTL DEF Spec

LEMMA TextIsSeq == TextOK => text \in Seq({"a", " ", "n"})
<1> SUFFICES ASSUME TextOK PROVE text \in Seq({"a", " ", "n"})
    OBVIOUS
<1>1. PICK n \in 0 .. 5 : text \in [1 .. n -> {"a", " ", "n"}]
    BY DEF TextOK, Texts
<1>2. \A S, m, f : m \in Nat /\ f \in [1 .. m -> S] => f \in Seq(S)
    BY FunctionIsSeq
<1>3. n \in Nat
    OBVIOUS
<1> QED
    BY <1>1, <1>2, <1>3, Zenon

(* strip, lstrip and rstrip take exactly what is at the ends, but for a     *)
(* text whose only character to keep is its first.                          *)
THEOREM StripHasKept == Spec => []StripKeeps
<1>1. TextOK => StripKeeps
    BY TextIsSeq, StripIsRight DEF StripKeeps
<1> QED
    BY <1>1, TextStays, PTL

(* split loses nothing of the text.                                         *)
THEOREM SplitHasJoined == Spec => []SplitJoins
<1>1. TextOK => SplitJoins
    BY TextIsSeq, SplitIsRight DEF SplitJoins
<1> QED
    BY <1>1, TextStays, PTL
===============================================================================
