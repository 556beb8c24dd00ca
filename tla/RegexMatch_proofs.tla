------------------------- MODULE RegexMatch_proofs -------------------------
(***************************************************************************)
(* Proofs about match, remove and replace of XXRegex, for inputs of any     *)
(* length and any number of matches.  A vector of intervals is the merge    *)
(* of a set of matches by four facts that do not mention how it was made    *)
(* (Merges) and that no other vector has (OneMerge); the loop of            *)
(* Hyperscan's callback keeps them, and so does the sweep of std::regex.    *)
(* (The operators of RegexMatch are written Regex!...)                      *)
(***************************************************************************)
EXTENDS MCText, LineDiff_proofs

-----------------------------------------------------------------------------
(* Recursion and sorting *)

\* g begins with first and goes on as F says.
Follows(g, n, first, F) == g[0] = first /\ \A k \in 1 .. n : g[k] = F[<<k, g[k - 1]>>]

\* A loop over 1 .. n has its values.
LEMMA Recursion ==
    ASSUME NEW n \in Nat, NEW A, NEW first \in A, NEW F \in [(1 .. n) \X A -> A]
    PROVE  \E g \in [0 .. n -> A] : Follows(g, n, first, F)
<1> DEFINE S == {m \in Nat : m <= n => \E g \in [0 .. m -> A] : Follows(g, m, first, F)}
<1>1. 0 \in S
  <2> DEFINE g == [k \in 0 .. 0 |-> first]
  <2>1. g \in [0 .. 0 -> A] /\ Follows(g, 0, first, F)
    BY DEF Follows
  <2> QED  BY <2>1
<1>2. ASSUME NEW m \in Nat, m \in S PROVE m + 1 \in S
  <2> SUFFICES ASSUME m + 1 <= n
               PROVE  \E h \in [0 .. m + 1 -> A] : Follows(h, m + 1, first, F)
    OBVIOUS
  <2>1. PICK g \in [0 .. m -> A] : Follows(g, m, first, F)
    BY <1>2
  <2> DEFINE h == [k \in 0 .. m + 1 |-> IF k <= m THEN g[k] ELSE F[<<m + 1, g[m]>>]]
  <2>2. g[m] \in A /\ m + 1 \in 1 .. n /\ F[<<m + 1, g[m]>>] \in A
    BY <2>1
  <2>3. h \in [0 .. m + 1 -> A]
    BY <2>1, <2>2
  <2>4. ASSUME NEW k \in 1 .. m + 1 PROVE h[k] = F[<<k, h[k - 1]>>]
    <3>1. k \in 0 .. m + 1 /\ k - 1 \in 0 .. m + 1 /\ k - 1 <= m
      OBVIOUS
    <3>2. CASE k <= m
      BY <2>1, <3>1, <3>2 DEF Follows
    <3>3. CASE k = m + 1
      BY <3>1, <3>3
    <3> QED  BY <3>2, <3>3
  <2>5. h[0] = first
    BY <2>1 DEF Follows
  <2> HIDE DEF h
  <2>6. Follows(h, m + 1, first, F)
    BY <2>4, <2>5 DEF Follows
  <2> QED  BY <2>3, <2>6
<1>3. Nat \subseteq S
  <2> HIDE DEF S
  <2> QED  BY <1>1, <1>2, Inductive
<1> QED  BY <1>3

\* R compares any two members of S, strictly.
Orders(R, S) ==
    /\ \A x \in S : <<x, x>> \notin R
    /\ \A x, y, z \in S : <<x, y>> \in R /\ <<y, z>> \in R => <<x, z>> \in R
    /\ \A x, y \in S : x = y \/ <<x, y>> \in R \/ <<y, x>> \in R

Under(R, S, x) == {y \in S : <<y, x>> \in R}
Rank(R, S, x) == Cardinality(Under(R, S, x))

\* Ranks are ordered as the members are.
LEMMA RankOrder ==
    ASSUME NEW S, IsFiniteSet(S), NEW R, Orders(R, S)
    PROVE  /\ \A x \in S : Rank(R, S, x) \in 0 .. Cardinality(S) - 1
           /\ \A x, y \in S : <<x, y>> \in R => Rank(R, S, x) < Rank(R, S, y)
<1>0. Cardinality(S) \in Nat
  BY FS_CardinalityType
<1>1. ASSUME NEW x \in S
      PROVE  /\ IsFiniteSet(Under(R, S, x)) /\ Rank(R, S, x) \in Nat
             /\ Under(R, S, x) \in SUBSET S /\ x \notin Under(R, S, x)
             /\ Rank(R, S, x) <= Cardinality(S) /\ Rank(R, S, x) # Cardinality(S)
  <2>1. Under(R, S, x) \in SUBSET S /\ x \notin Under(R, S, x)
    BY DEF Under, Orders
  <2>2. IsFiniteSet(Under(R, S, x)) /\ Rank(R, S, x) <= Cardinality(S)
        /\ (Cardinality(S) = Rank(R, S, x) => S = Under(R, S, x))
    BY <2>1, FS_Subset DEF Rank
  <2>3. Rank(R, S, x) \in Nat
    BY <2>2, FS_CardinalityType DEF Rank
  <2> QED  BY <2>1, <2>2, <2>3
<1>2. ASSUME NEW x \in S, NEW y \in S, <<x, y>> \in R PROVE Rank(R, S, x) < Rank(R, S, y)
  <2>1. Under(R, S, x) \in SUBSET Under(R, S, y)
    BY <1>2 DEF Under, Orders
  <2>2. x \in Under(R, S, y)
    BY <1>2 DEF Under
  <2>3. Rank(R, S, x) <= Rank(R, S, y)
        /\ (Rank(R, S, y) = Rank(R, S, x) => Under(R, S, y) = Under(R, S, x))
    BY <1>1, <2>1, FS_Subset DEF Rank
  <2> QED  BY <1>1, <2>2, <2>3
<1> QED  BY <1>0, <1>1, <1>2

\* Every rank is somebody's.
LEMMA RankTaken ==
    ASSUME NEW S, IsFiniteSet(S), NEW R, Orders(R, S), NEW n \in 0 .. Cardinality(S) - 1
    PROVE  \E x \in S : Rank(R, S, x) = n
<1> DEFINE N == Cardinality(S)
           T == 0 .. N - 1
           c == [x \in S |-> Rank(R, S, x)]
<1>1. N \in Nat
  BY FS_CardinalityType
<1>2. IsFiniteSet(T) /\ Cardinality(T) = N
  <2> HIDE DEF N
  <2>1. 0 \in Int /\ N - 1 \in Int /\ (IF 0 > N - 1 THEN 0 ELSE N - 1 - 0 + 1) = N
    BY <1>1
  <2> QED  BY <2>1, FS_Interval
<1>3. c \in [S -> T]
  BY RankOrder
<1>4. \A x, y \in S : c[x] = c[y] => x = y
  <2> SUFFICES ASSUME NEW x \in S, NEW y \in S, Rank(R, S, x) = Rank(R, S, y) PROVE x = y
    OBVIOUS
  <2>1. Rank(R, S, x) \in Int /\ Rank(R, S, y) \in Int
    BY RankOrder
  <2>2. <<x, y>> \notin R /\ <<y, x>> \notin R
    BY <2>1, RankOrder
  <2> QED  BY <2>2 DEF Orders
<1> HIDE DEF c, T
<1>5. c \in Injection(S, T)
  BY <1>3, <1>4 DEF Injection, IsInjective
<1>6. c \in Surjection(S, T)
  BY <1>2, <1>5, FS_Injection DEF N
<1>7. n \in T
  BY DEF T
<1>8. \E x \in S : c[x] = n
  BY <1>6, <1>7 DEF Surjection
<1> QED  BY <1>8 DEF c

\* s has the members of S by rank.
ByRank(R, S, s) ==
    /\ s = [k \in 1 .. Cardinality(S) |-> s[k]]
    /\ \A k \in 1 .. Cardinality(S) : s[k] \in S /\ Rank(R, S, s[k]) = k - 1

LEMMA SortsByRank ==
    ASSUME NEW S, IsFiniteSet(S), NEW R, Orders(R, S), NEW s,
           s = [k \in 1 .. Cardinality(S) |-> CHOOSE x \in S : Rank(R, S, x) = k - 1]
    PROVE  ByRank(R, S, s)
<1>1. ASSUME NEW k \in 1 .. Cardinality(S) PROVE s[k] \in S /\ Rank(R, S, s[k]) = k - 1
  <2>1. k - 1 \in 0 .. Cardinality(S) - 1
    BY FS_CardinalityType
  <2>2. \E x \in S : Rank(R, S, x) = k - 1
    BY <2>1, RankTaken
  <2> QED  BY <2>2
<1>2. s = [k \in 1 .. Cardinality(S) |-> s[k]]
  OBVIOUS
<1> QED  BY <1>1, <1>2 DEF ByRank

\* What sorting gives.
LEMMA SortIs ==
    ASSUME NEW S, IsFiniteSet(S), NEW R, Orders(R, S), NEW s, ByRank(R, S, s)
    PROVE  /\ s \in Seq(S) /\ Len(s) = Cardinality(S)
           /\ \A k, l \in 1 .. Len(s) : k < l => <<s[k], s[l]>> \in R
           /\ \A x \in S : \E k \in 1 .. Len(s) : s[k] = x
<1>1. Cardinality(S) \in Nat
  BY FS_CardinalityType
<1>2. /\ s = [k \in 1 .. Cardinality(S) |-> s[k]]
      /\ \A k \in 1 .. Cardinality(S) : s[k] \in S /\ Rank(R, S, s[k]) = k - 1
  BY DEF ByRank
<1>3. s \in Seq(S) /\ Len(s) = Cardinality(S)
  <2> DEFINE N == Cardinality(S)
  <2>1. N \in Nat /\ \A k \in 1 .. N : s[k] \in S
    BY <1>1, <1>2
  <2>2. s = [k \in 1 .. N |-> s[k]]
    BY <1>2
  <2> HIDE DEF N
  <2>3. s \in [1 .. N -> S]
    BY <2>1, <2>2
  <2>4. s \in Seq(S)
    BY <2>1, <2>3, SeqDef
  <2>5. Len(s) = N
    <3>1. 1 .. N = 1 .. Len(s) /\ Len(s) \in Nat
      BY <2>3, <2>4, LenProperties
    <3>2. (N = 0 \/ N \in 1 .. N) /\ (Len(s) = 0 \/ Len(s) \in 1 .. Len(s))
      BY <2>1, <3>1
    <3>3. (N = 0 \/ N \in 1 .. Len(s)) /\ (Len(s) = 0 \/ Len(s) \in 1 .. N)
      BY <3>1, <3>2
    <3> QED  BY <2>1, <3>1, <3>3
  <2> QED  BY <2>4, <2>5 DEF N
<1>4. ASSUME NEW k \in 1 .. Len(s), NEW l \in 1 .. Len(s), k < l PROVE <<s[k], s[l]>> \in R
  <2>1. /\ s[k] \in S /\ Rank(R, S, s[k]) = k - 1
        /\ s[l] \in S /\ Rank(R, S, s[l]) = l - 1
    BY <1>2, <1>3
  <2>2. s[k] # s[l]
    BY <1>4, <2>1
  <2>3. <<s[l], s[k]>> \in R => l - 1 < k - 1
    BY <2>1, RankOrder
  <2>4. ~(l - 1 < k - 1)
    BY <1>1, <1>3, <1>4
  <2> QED  BY <2>1, <2>2, <2>3, <2>4 DEF Orders
<1>5. ASSUME NEW x \in S PROVE \E k \in 1 .. Len(s) : s[k] = x
  <2> DEFINE k == Rank(R, S, x) + 1
  <2>0. Rank(R, S, x) \in 0 .. Cardinality(S) - 1
    BY RankOrder
  <2>1. k \in 1 .. Cardinality(S) /\ Rank(R, S, x) = k - 1
    BY <1>1, <2>0
  <2> HIDE DEF k
  <2>2. s[k] \in S /\ Rank(R, S, s[k]) = Rank(R, S, x)
    BY <1>2, <2>1
  <2>3. Rank(R, S, x) \in Int
    BY RankOrder
  <2>4. <<s[k], x>> \notin R /\ <<x, s[k]>> \notin R
    <3>1. \A a, b \in S : <<a, b>> \in R => Rank(R, S, a) < Rank(R, S, b)
      BY RankOrder
    <3> QED  BY <2>2, <2>3, <3>1
  <2> QED  BY <1>3, <2>1, <2>2, <2>4 DEF Orders
<1> QED  BY <1>3, <1>4, <1>5

-----------------------------------------------------------------------------
(* Intervals that are the merge of a set of matches *)

\* R is in order without overlap; it covers the matches S; its intervals begin and end
\* where matches do, and every point inside one is inside a match.
InPlace(R) == \A k, l \in 1 .. Len(R) : k < l => R[k][2] <= R[l][1]
Covers(R, S) == \A m \in S : \E k \in 1 .. Len(R) : R[k][1] <= m[1] /\ m[2] <= R[k][2]
Made(r, S) ==
    /\ \E m \in S : m[1] = r[1]
    /\ \E m \in S : m[2] = r[2]
    /\ \A p \in Int : r[1] < p /\ p < r[2] => \E m \in S : m[1] < p /\ p < m[2]
Merges(R, S) ==
    /\ R \in Seq(Regex!Intervals) /\ InPlace(R) /\ Covers(R, S)
    /\ \A k \in 1 .. Len(R) : Made(R[k], S)

LEMMA IntervalIs ==
    /\ \A m \in Regex!Intervals : /\ m[1] \in 0 .. Length /\ m[2] \in 0 .. Length
                                  /\ m[1] \in Nat /\ m[2] \in Nat
                                  /\ m[1] < m[2] /\ m = <<m[1], m[2]>>
    /\ \A a, b \in 0 .. Length : a < b => <<a, b>> \in Regex!Intervals
<1>1. Length \in Nat
  BY ScanAssumption
<1>2. ASSUME NEW m \in Regex!Intervals
      PROVE  /\ m[1] \in 0 .. Length /\ m[2] \in 0 .. Length /\ m[1] \in Nat /\ m[2] \in Nat
             /\ m[1] < m[2] /\ m = <<m[1], m[2]>>
  BY <1>1 DEF Regex!Intervals
<1>3. \A a, b \in 0 .. Length : a < b => <<a, b>> \in Regex!Intervals
  BY DEF Regex!Intervals
<1> QED  BY <1>2, <1>3

LEMMA MemberIs ==
    ASSUME NEW R \in Seq(Regex!Intervals), NEW k \in 1 .. Len(R)
    PROVE  R[k] \in Regex!Intervals /\ R[k][1] \in Nat /\ R[k][2] \in Nat /\ R[k][1] < R[k][2]
<1>1. R[k] \in Regex!Intervals
  OBVIOUS
<1> QED  BY <1>1, IntervalIs

StartsAt(R, h) == \E k \in 1 .. Len(R) : R[k][1] = h
EndsAt(R, h) == \E k \in 1 .. Len(R) : R[k][2] = h
Across(S, h) == \E m \in S : m[1] < h /\ h < m[2]
HeadAt(S, h) == (\E m \in S : m[1] = h) /\ ~Across(S, h)
TailAt(S, h) == (\E m \in S : m[2] = h) /\ ~Across(S, h)

\* Merged intervals begin where a match does that no other reaches across, and end so.
LEMMA MergedEnds ==
    ASSUME NEW S, S \subseteq Regex!Intervals, NEW R, Merges(R, S), NEW h \in Nat
    PROVE  (StartsAt(R, h) <=> HeadAt(S, h)) /\ (EndsAt(R, h) <=> TailAt(S, h))
<1>0. /\ R \in Seq(Regex!Intervals) /\ InPlace(R) /\ Covers(R, S) /\ Len(R) \in Nat
      /\ \A k \in 1 .. Len(R) : Made(R[k], S)
  BY DEF Merges
<1>1. \A m \in S : m[1] \in Nat /\ m[2] \in Nat /\ m[1] < m[2]
  BY IntervalIs
<1>2. \A k \in 1 .. Len(R) : R[k][1] \in Nat /\ R[k][2] \in Nat /\ R[k][1] < R[k][2]
  BY <1>0, MemberIs
<1>3. ASSUME NEW k \in 1 .. Len(R), NEW p \in Nat, p = R[k][1] \/ p = R[k][2],
             NEW m \in S, m[1] < p, p < m[2]
      PROVE  FALSE
  <2>1. PICK l \in 1 .. Len(R) : R[l][1] <= m[1] /\ m[2] <= R[l][2]
    BY <1>0 DEF Covers
  <2>2. R[l][1] < p /\ p < R[l][2]
    BY <1>1, <1>2, <1>3, <2>1
  <2>3. k # l
    BY <1>2, <1>3, <2>2
  <2>4. CASE k < l
    <3>1. R[k][2] <= R[l][1]
      BY <1>0, <2>4 DEF InPlace
    <3> QED  BY <1>2, <1>3, <2>2, <3>1
  <2>5. CASE l < k
    <3>1. R[l][2] <= R[k][1]
      BY <1>0, <2>5 DEF InPlace
    <3> QED  BY <1>2, <1>3, <2>2, <3>1
  <2> QED  BY <2>3, <2>4, <2>5
<1>4. ASSUME NEW m \in S, NEW p \in Nat, p = m[1] \/ p = m[2],
             ~\E n \in S : n[1] < p /\ p < n[2]
      PROVE  \E k \in 1 .. Len(R) : /\ p = m[1] => R[k][1] = p
                                    /\ p = m[2] => R[k][2] = p
  <2>1. PICK k \in 1 .. Len(R) : R[k][1] <= m[1] /\ m[2] <= R[k][2]
    BY <1>0 DEF Covers
  <2>2. ~(R[k][1] < p /\ p < R[k][2])
    BY <1>0, <1>4 DEF Made
  <2>3. R[k][1] <= p /\ p <= R[k][2]
    BY <1>1, <1>2, <1>4, <2>1
  <2> QED  BY <1>1, <1>2, <1>4, <2>1, <2>2, <2>3
<1>5. (\E k \in 1 .. Len(R) : R[k][1] = h) =>
         (\E m \in S : m[1] = h) /\ ~\E m \in S : m[1] < h /\ h < m[2]
  <2> SUFFICES ASSUME NEW k \in 1 .. Len(R), R[k][1] = h
               PROVE  (\E m \in S : m[1] = h) /\ ~\E m \in S : m[1] < h /\ h < m[2]
    OBVIOUS
  <2>1. \E m \in S : m[1] = h
    BY <1>0 DEF Made
  <2> QED  BY <1>3, <2>1
<1>6. (\E k \in 1 .. Len(R) : R[k][2] = h) =>
         (\E m \in S : m[2] = h) /\ ~\E m \in S : m[1] < h /\ h < m[2]
  <2> SUFFICES ASSUME NEW k \in 1 .. Len(R), R[k][2] = h
               PROVE  (\E m \in S : m[2] = h) /\ ~\E m \in S : m[1] < h /\ h < m[2]
    OBVIOUS
  <2>1. \E m \in S : m[2] = h
    BY <1>0 DEF Made
  <2> QED  BY <1>3, <2>1
<1> QED  BY <1>4, <1>5, <1>6 DEF StartsAt, EndsAt, HeadAt, TailAt, Across

\* Sequences that ascend through the same numbers are the same.
Ascends(f, n) == \A k, l \in 1 .. n : k < l => f[k] < f[l]
Numbered(f, n) == \A k \in 1 .. n : f[k] \in Nat
Through(f, n, h) == \E k \in 1 .. n : f[k] = h
SameValues(f, n, g, l) == \A h \in Nat : Through(f, n, h) <=> Through(g, l, h)

LEMMA SameAscent ==
    ASSUME NEW n \in Nat, NEW l \in Nat, NEW f, NEW g, Numbered(f, n), Numbered(g, l),
           Ascends(f, n), Ascends(g, l),
           SameValues(f, n, g, l)
    PROVE  n <= l /\ \A k \in 1 .. n : f[k] = g[k]
<1> DEFINE S == {k \in Nat : \A q \in 1 .. k : q <= n => q <= l /\ f[q] = g[q]}
<1>1. 0 \in S
  OBVIOUS
<1>2. ASSUME NEW k \in Nat, k \in S PROVE k + 1 \in S
  <2> SUFFICES ASSUME k + 1 <= n PROVE k + 1 <= l /\ f[k + 1] = g[k + 1]
    BY <1>2
  <2>0. /\ k + 1 \in 1 .. n
        /\ \A q \in 1 .. k : q \in 1 .. n /\ q \in 1 .. l /\ f[q] = g[q] /\ q < k + 1
    BY <1>2
  <2>1. f[k + 1] \in Nat /\ \A q \in 1 .. k : f[q] \in Nat /\ f[q] < f[k + 1]
    BY <2>0 DEF Ascends, Numbered
  <2>2. PICK q \in 1 .. l : g[q] = f[k + 1]
    BY <2>0, <2>1 DEF SameValues, Through
  <2>3. q \notin 1 .. k
    BY <2>0, <2>1, <2>2
  <2>4. k + 1 <= q /\ k + 1 \in 1 .. l
    BY <2>3
  <2>5. g[k + 1] \in Nat /\ g[k + 1] <= g[q]
    BY <2>2, <2>4 DEF Ascends, Numbered
  <2>6. PICK r \in 1 .. n : f[r] = g[k + 1]
    BY <2>4, <2>5 DEF SameValues, Through
  <2>7. r \notin 1 .. k
    <3> SUFFICES ASSUME r \in 1 .. k PROVE FALSE
      OBVIOUS
    <3>1. g[r] = g[k + 1] /\ g[r] < g[k + 1]
      BY <2>0, <2>4, <2>6 DEF Ascends
    <3> QED  BY <2>5, <3>1
  <2>8. f[k + 1] <= f[r] /\ f[r] \in Nat
    BY <2>0, <2>1, <2>7 DEF Ascends, Numbered
  <2> QED  BY <2>1, <2>2, <2>4, <2>5, <2>6, <2>8
<1>3. Nat \subseteq S
  <2> HIDE DEF S
  <2> QED  BY <1>1, <1>2, Inductive
<1>4. n \in S
  BY <1>3
<1> QED  BY <1>4

\* There is only one merge of a set of matches.
LEMMA OneMerge ==
    ASSUME NEW S, S \subseteq Regex!Intervals, NEW R, Merges(R, S), NEW Q, Merges(Q, S)
    PROVE  R = Q
<1> DEFINE Starts(P) == [k \in 1 .. Len(P) |-> P[k][1]]
           Ends(P) == [k \in 1 .. Len(P) |-> P[k][2]]
<1>1. ASSUME NEW P, Merges(P, S)
      PROVE  /\ P \in Seq(Regex!Intervals) /\ Len(P) \in Nat
             /\ Numbered(Starts(P), Len(P)) /\ Numbered(Ends(P), Len(P))
             /\ Ascends(Starts(P), Len(P)) /\ Ascends(Ends(P), Len(P))
  <2>1. P \in Seq(Regex!Intervals) /\ Len(P) \in Nat
    BY <1>1 DEF Merges
  <2>2. \A k \in 1 .. Len(P) : P[k][1] \in Nat /\ P[k][2] \in Nat /\ P[k][1] < P[k][2]
    BY <2>1, MemberIs
  <2>3. \A k, l \in 1 .. Len(P) : k < l => P[k][1] < P[l][1] /\ P[k][2] < P[l][2]
    BY <1>1, <2>2 DEF Merges, InPlace
  <2> QED  BY <2>1, <2>2, <2>3 DEF Numbered, Ascends
<1>2. ASSUME NEW P, Merges(P, S), NEW T, Merges(T, S)
      PROVE  /\ Len(P) <= Len(T)
             /\ \A k \in 1 .. Len(P) : P[k][1] = T[k][1] /\ P[k][2] = T[k][2]
  <2>1. \A h \in Nat : /\ StartsAt(P, h) <=> StartsAt(T, h)
                       /\ EndsAt(P, h) <=> EndsAt(T, h)
    BY <1>2, MergedEnds
  <2>2. \A U, h : /\ Through(Starts(U), Len(U), h) <=> StartsAt(U, h)
                  /\ Through(Ends(U), Len(U), h) <=> EndsAt(U, h)
    BY DEF Through, StartsAt, EndsAt
  <2>3. Len(P) \in Nat /\ Len(T) \in Nat
    BY <1>1, <1>2
  <2>4. \A k \in 1 .. Len(P) :
           k \in 1 .. Len(T) => /\ Starts(P)[k] = P[k][1] /\ Ends(P)[k] = P[k][2]
                                /\ Starts(T)[k] = T[k][1] /\ Ends(T)[k] = T[k][2]
    OBVIOUS
  <2> HIDE DEF Starts, Ends
  <2>8. /\ SameValues(Starts(P), Len(P), Starts(T), Len(T))
        /\ SameValues(Ends(P), Len(P), Ends(T), Len(T))
    BY <2>1, <2>2 DEF SameValues
  <2>5. Len(P) <= Len(T) /\ \A k \in 1 .. Len(P) : Starts(P)[k] = Starts(T)[k]
    BY <1>1, <1>2, <2>3, <2>8, SameAscent
  <2>6. \A k \in 1 .. Len(P) : Ends(P)[k] = Ends(T)[k]
    BY <1>1, <1>2, <2>3, <2>8, SameAscent
  <2>7. \A k \in 1 .. Len(P) : k \in 1 .. Len(T)
    BY <2>3, <2>5
  <2> QED  BY <2>4, <2>5, <2>6, <2>7
<1> HIDE DEF Starts, Ends
<1>3. R \in Seq(Regex!Intervals) /\ Q \in Seq(Regex!Intervals) /\ Len(R) = Len(Q)
  <2>1. Len(R) <= Len(Q) /\ Len(Q) <= Len(R)
    BY <1>2
  <2> QED  BY <1>1, <2>1
<1>4. ASSUME NEW k \in 1 .. Len(R) PROVE R[k] = Q[k]
  <2>1. R[k][1] = Q[k][1] /\ R[k][2] = Q[k][2]
    BY <1>2
  <2>2. R[k] = <<R[k][1], R[k][2]>> /\ Q[k] = <<Q[k][1], Q[k][2]>>
    BY <1>3, MemberIs, IntervalIs
  <2> QED  BY <2>1, <2>2
<1> QED  BY <1>3, <1>4, SeqEqual

-----------------------------------------------------------------------------
(* The loop of Hyperscan's callback *)

Accs == [new : Regex!Intervals, kept : Seq(Regex!Intervals)]

LEMMA SwallowIs ==
    ASSUME NEW acc \in Accs, NEW r \in Regex!Intervals
    PROVE  /\ Regex!Swallow(acc, r) \in Accs
           /\ Regex!Overlap(r, acc.new) =>
                 /\ Regex!Swallow(acc, r).kept = acc.kept
                 /\ Regex!Swallow(acc, r).new = <<Regex!Lesser(acc.new[1], r[1]),
                                                  Regex!Greater(acc.new[2], r[2])>>
           /\ ~Regex!Overlap(r, acc.new) =>
                 /\ Regex!Swallow(acc, r).kept = Append(acc.kept, r)
                 /\ Regex!Swallow(acc, r).new = acc.new
<1> DEFINE both == <<Regex!Lesser(acc.new[1], r[1]), Regex!Greater(acc.new[2], r[2])>>
<1>1. acc.new \in Regex!Intervals /\ acc.kept \in Seq(Regex!Intervals)
      /\ acc = [new |-> acc.new, kept |-> acc.kept]
  BY DEF Accs
<1>2. both \in Regex!Intervals
  <2>1. /\ acc.new[1] \in 0 .. Length /\ acc.new[2] \in 0 .. Length /\ acc.new[1] < acc.new[2]
        /\ r[1] \in 0 .. Length /\ r[2] \in 0 .. Length /\ r[1] < r[2]
    BY <1>1, IntervalIs
  <2>2. /\ Regex!Lesser(acc.new[1], r[1]) \in 0 .. Length
        /\ Regex!Greater(acc.new[2], r[2]) \in 0 .. Length
        /\ Regex!Lesser(acc.new[1], r[1]) < Regex!Greater(acc.new[2], r[2])
    BY <2>1, ScanAssumption DEF Regex!Lesser, Regex!Greater
  <2> QED  BY <2>2, IntervalIs
<1>3. CASE Regex!Overlap(r, acc.new)
  <2>1. Regex!Swallow(acc, r) = [new |-> both, kept |-> acc.kept]
    BY <1>1, <1>3 DEF Regex!Swallow
  <2> HIDE DEF both
  <2>2. Regex!Swallow(acc, r) \in Accs /\ Regex!Swallow(acc, r).kept = acc.kept
        /\ Regex!Swallow(acc, r).new = both
    BY <1>1, <1>2, <2>1 DEF Accs
  <2> QED  BY <1>3, <2>2 DEF both
<1>4. CASE ~Regex!Overlap(r, acc.new)
  <2>1. Regex!Swallow(acc, r) = [new |-> acc.new, kept |-> Append(acc.kept, r)]
    BY <1>1, <1>4 DEF Regex!Swallow
  <2>2. Append(acc.kept, r) \in Seq(Regex!Intervals)
    BY <1>1
  <2> QED  BY <1>1, <1>4, <2>1, <2>2 DEF Accs
<1> QED  BY <1>3, <1>4

LEMMA SwallowingIs ==
    ASSUME results \in Seq(Regex!Intervals), NEW m \in Regex!Intervals
    PROVE  /\ Regex!Swallowing(m)[0] = [new |-> m, kept |-> <<>>]
           /\ \A k \in 1 .. Len(results) :
                 Regex!Swallowing(m)[k] = Regex!Swallow(Regex!Swallowing(m)[k - 1], results[k])
<1> DEFINE n == Len(results)
           first == [new |-> m, kept |-> <<>>]
           T == Regex!Swallowing(m)
           F == [x \in (1 .. n) \X Accs |-> Regex!Swallow(x[2], results[x[1]])]
           Rule(f) == [k \in 0 .. n |-> IF k = 0 THEN first
                                        ELSE Regex!Swallow(f[k - 1], results[k])]
<1>1. n \in Nat /\ first \in Accs /\ \A k \in 1 .. n : results[k] \in Regex!Intervals
  BY DEF Accs
<1>2. F \in [(1 .. n) \X Accs -> Accs]
        /\ \A k \in 1 .. n, a \in Accs : F[<<k, a>>] = Regex!Swallow(a, results[k])
  BY <1>1, SwallowIs
<1> HIDE DEF first
<1>3. T = CHOOSE at : at = Rule(at)
  BY DEF Regex!Swallowing, first
<1> HIDE DEF n, T, F
<1>4. PICK g \in [0 .. n -> Accs] : Follows(g, n, first, F)
  BY <1>1, <1>2, Recursion
<1>5. g[0] = first /\ \A k \in 1 .. n : g[k] = Regex!Swallow(g[k - 1], results[k])
  <2>1. \A k \in 1 .. n : k - 1 \in 0 .. n
    BY <1>1
  <2> QED  BY <1>2, <1>4, <2>1 DEF Follows
<1>6. g = Rule(g)
  <2>1. \A k \in 0 .. n : k # 0 => k \in 1 .. n
    BY <1>1
  <2> QED  BY <1>4, <1>5, <2>1
<1>7. T = Rule(T)
  <2> HIDE DEF Rule
  <2> QED  BY <1>3, <1>6
<1>8. 0 \in 0 .. n /\ \A k \in 1 .. n : k \in 0 .. n /\ k # 0
  BY <1>1
<1>9. T[0] = first /\ \A k \in 1 .. n : T[k] = Regex!Swallow(T[k - 1], results[k])
  BY <1>7, <1>8
<1> QED  BY <1>9 DEF T, n, first

\* What the loop has made of the first k intervals: the first c are kept, and from there on
\* they are swallowed.
Swallowed(acc, m, c, k) ==
    /\ acc.kept = SubSeq(results, 1, c)
    /\ acc.new[2] = m[2]
    /\ c = k => acc.new[1] = m[1]
    /\ c < k => m[1] < results[c + 1][2]
                /\ acc.new[1] = Regex!Lesser(m[1], results[c + 1][1])
    /\ \A q \in 1 .. c : results[q][2] <= m[1]

LEMMA SwallowsTheRest ==
    ASSUME results \in Seq(Regex!Intervals), InPlace(results), NEW m \in Regex!Intervals,
           \A q \in 1 .. Len(results) : results[q][2] <= m[2]
    PROVE  \E c \in 0 .. Len(results) :
              /\ Swallowed(Regex!Swallowing(m)[Len(results)], m, c, Len(results))
              /\ Regex!Swallowing(m)[Len(results)] \in Accs
<1> DEFINE n == Len(results)
           T == Regex!Swallowing(m)
           S == {k \in Nat : k <= n => T[k] \in Accs /\ \E c \in 0 .. k : Swallowed(T[k], m, c, k)}
<1>0. n \in Nat /\ m[1] \in Nat /\ m[2] \in Nat /\ m[1] < m[2]
  BY IntervalIs
<1>1. T[0] = [new |-> m, kept |-> <<>>]
      /\ \A k \in 1 .. n : T[k] = Regex!Swallow(T[k - 1], results[k])
  BY SwallowingIs
<1>2. \A q \in 1 .. n : /\ results[q] \in Regex!Intervals /\ results[q][2] <= m[2]
                        /\ results[q][1] \in Nat /\ results[q][2] \in Nat
                        /\ results[q][1] < results[q][2]
  BY MemberIs
<1>3. \A k, l \in 1 .. n : k < l => results[k][2] <= results[l][1]
  BY DEF InPlace
<1>r. results \in Seq(Regex!Intervals) /\ m \in Regex!Intervals
  OBVIOUS
<1> HIDE DEF T
<1>4. 0 \in S
  <2>1. SubSeq(results, 1, 0) = <<>>
    BY <1>r
  <2>2. T[0] \in Accs
    BY <1>1 DEF Accs
  <2>3. Swallowed(T[0], m, 0, 0)
    BY <1>0, <1>1, <2>1 DEF Swallowed
  <2>4. 0 \in 0 .. 0
    OBVIOUS
  <2> QED  BY <2>2, <2>3, <2>4
<1>5. ASSUME NEW k \in Nat, k \in S PROVE k + 1 \in S
  <2> SUFFICES ASSUME k + 1 <= n
               PROVE  T[k + 1] \in Accs /\ \E c \in 0 .. k + 1 : Swallowed(T[k + 1], m, c, k + 1)
    OBVIOUS
  <2> DEFINE acc == T[k]
             r == results[k + 1]
  <2>1. acc \in Accs /\ k + 1 \in 1 .. n /\ k \in 0 .. n
    BY <1>0, <1>5
  <2>2. PICK c \in 0 .. k : Swallowed(acc, m, c, k)
    BY <1>0, <1>5
  <2>3. T[k + 1] = Regex!Swallow(acc, r)
    BY <1>1, <2>1
  <2>4. r \in Regex!Intervals /\ r[1] \in Nat /\ r[2] \in Nat /\ r[1] < r[2] /\ r[2] <= m[2]
    BY <1>2, <2>1
  <2>5. acc.new[1] \in Nat /\ acc.new[2] = m[2]
    BY <2>1, <2>2, IntervalIs DEF Accs, Swallowed
  <2>6. acc.kept = SubSeq(results, 1, c) /\ \A q \in 1 .. c : results[q][2] <= m[1]
    BY <2>2 DEF Swallowed
  <2>7. T[k + 1] \in Accs
    BY <2>1, <2>3, <2>4, SwallowIs
  <2>8. Regex!Overlap(r, acc.new) <=> acc.new[1] < r[2]
    BY <1>0, <2>4, <2>5 DEF Regex!Overlap
  <2>9. c = k => acc.new[1] = m[1]
    BY <2>2 DEF Swallowed
  <2>10. c < k => m[1] < results[c + 1][2] /\ acc.new[1] = Regex!Lesser(m[1], results[c + 1][1])
    BY <2>2 DEF Swallowed
  <2>e. T[k + 1] = Regex!Swallow(acc, r) /\ r = results[k + 1]
    BY <2>3
  <2> HIDE DEF acc, r
  <2>s. /\ Regex!Overlap(r, acc.new) =>
              /\ T[k + 1].kept = acc.kept
              /\ T[k + 1].new = <<Regex!Lesser(acc.new[1], r[1]),
                                  Regex!Greater(acc.new[2], r[2])>>
        /\ ~Regex!Overlap(r, acc.new) =>
              /\ T[k + 1].kept = Append(acc.kept, r)
              /\ T[k + 1].new = acc.new
    <3>1. acc \in Accs /\ r \in Regex!Intervals
      BY <2>1, <2>4
    <3>2. /\ Regex!Overlap(r, acc.new) =>
                /\ Regex!Swallow(acc, r).kept = acc.kept
                /\ Regex!Swallow(acc, r).new = <<Regex!Lesser(acc.new[1], r[1]),
                                                 Regex!Greater(acc.new[2], r[2])>>
          /\ ~Regex!Overlap(r, acc.new) =>
                /\ Regex!Swallow(acc, r).kept = Append(acc.kept, r)
                /\ Regex!Swallow(acc, r).new = acc.new
      BY <3>1, SwallowIs
    <3> QED  BY <2>e, <3>2
  <2>11. CASE c = k /\ ~Regex!Overlap(r, acc.new)
    <3>1. T[k + 1].kept = Append(SubSeq(results, 1, k), r) /\ T[k + 1].new = acc.new
      BY <2>6, <2>11, <2>s
    <3>2. Append(SubSeq(results, 1, k), r) = SubSeq(results, 1, k + 1)
      BY <1>0, <1>r, <2>1, <2>e
    <3>3. r[2] <= m[1]
      BY <1>0, <2>4, <2>5, <2>8, <2>9, <2>11
    <3>4. \A q \in 1 .. k + 1 : results[q][2] <= m[1]
      BY <2>6, <2>11, <2>e, <3>3
    <3>5. Swallowed(T[k + 1], m, k + 1, k + 1)
      BY <2>5, <2>9, <2>11, <3>1, <3>2, <3>4 DEF Swallowed
    <3> QED  BY <2>7, <3>5
  <2>12. CASE c = k /\ Regex!Overlap(r, acc.new)
    <3>1. T[k + 1].kept = SubSeq(results, 1, k)
          /\ T[k + 1].new = <<Regex!Lesser(m[1], r[1]), Regex!Greater(m[2], r[2])>>
      BY <2>5, <2>6, <2>9, <2>12, <2>s
    <3>2. Regex!Greater(m[2], r[2]) = m[2]
      BY <1>0, <2>4 DEF Regex!Greater
    <3>3. m[1] < r[2]
      BY <2>8, <2>9, <2>12
    <3>4. Swallowed(T[k + 1], m, k, k + 1)
      BY <2>6, <2>12, <2>e, <3>1, <3>2, <3>3 DEF Swallowed
    <3> QED  BY <2>7, <3>4
  <2>13. CASE c < k
    <3>1. c + 1 \in 1 .. n /\ c + 1 < k + 1
      BY <1>0, <2>1, <2>13
    <3>2. results[c + 1][2] <= r[1] /\ results[c + 1][1] < results[c + 1][2]
          /\ results[c + 1][1] \in Nat /\ results[c + 1][2] \in Nat
      BY <1>2, <1>3, <2>1, <2>e, <3>1
    <3>3. acc.new[1] <= m[1] /\ acc.new[1] <= r[1] /\ acc.new[1] < r[2]
      <4> DEFINE a == results[c + 1][1]
                 b == results[c + 1][2]
      <4>1. /\ a \in Nat /\ b \in Nat /\ a < b /\ b <= r[1] /\ r[1] \in Nat /\ r[2] \in Nat
            /\ r[1] < r[2] /\ m[1] \in Nat
        BY <1>0, <2>4, <3>2
      <4>2. acc.new[1] = Regex!Lesser(m[1], a)
        BY <2>10, <2>13
      <4> HIDE DEF a, b
      <4>3. acc.new[1] \in Nat /\ acc.new[1] <= m[1] /\ acc.new[1] <= a
        BY <4>1, <4>2 DEF Regex!Lesser
      <4> QED  BY <4>1, <4>3
    <3>4. Regex!Lesser(acc.new[1], r[1]) = acc.new[1] /\ Regex!Greater(m[2], r[2]) = m[2]
      BY <1>0, <2>4, <2>5, <3>3 DEF Regex!Lesser, Regex!Greater
    <3>5. T[k + 1].kept = SubSeq(results, 1, c) /\ T[k + 1].new = <<acc.new[1], m[2]>>
      BY <2>5, <2>6, <2>8, <2>s, <3>3, <3>4
    <3>6. Swallowed(T[k + 1], m, c, k + 1)
      BY <2>6, <2>10, <2>13, <3>1, <3>5 DEF Swallowed
    <3>7. c \in 0 .. k + 1
      OBVIOUS
    <3> QED  BY <2>7, <3>6, <3>7
  <2> QED  BY <2>11, <2>12, <2>13
<1>6. Nat \subseteq S
  <2> HIDE DEF S
  <2> QED  BY <1>4, <1>5, Inductive
<1>7. n \in S
  BY <1>0, <1>6
<1> QED  BY <1>0, <1>7 DEF T

\* So the callback leaves the merge of the matches so far.
LEMMA CallbackMerges ==
    ASSUME raw \subseteq Regex!Intervals, Merges(results, raw), NEW m \in Regex!Intervals,
           \A r \in raw : r[2] <= m[2]
    PROVE  Merges(Append(Regex!Merged(m).kept, Regex!Merged(m).new), raw \cup {m})
<1> DEFINE n == Len(results)
           acc == Regex!Merged(m)
           s == acc.new[1]
           All == raw \cup {m}
<1>1. /\ results \in Seq(Regex!Intervals) /\ InPlace(results) /\ Covers(results, raw)
      /\ \A k \in 1 .. n : Made(results[k], raw)
      /\ n \in Nat /\ m[1] \in Nat /\ m[2] \in Nat /\ m[1] < m[2]
  BY IntervalIs DEF Merges
<1>2. \A q \in 1 .. n : /\ results[q] \in Regex!Intervals /\ results[q][2] <= m[2]
                        /\ results[q][1] \in Nat /\ results[q][2] \in Nat
                        /\ results[q][1] < results[q][2]
  BY <1>1, MemberIs DEF Made
<1>3. acc \in Accs /\ \E c \in 0 .. n : Swallowed(acc, m, c, n)
  BY <1>1, <1>2, SwallowsTheRest DEF Regex!Merged
<1> HIDE DEF acc
<1>4. PICK c \in 0 .. n : Swallowed(acc, m, c, n)
  BY <1>3
<1>5. /\ acc.kept = SubSeq(results, 1, c) /\ acc.new = <<s, m[2]>> /\ s \in Nat /\ s < m[2]
      /\ acc.new \in Regex!Intervals
  BY <1>3, <1>4, IntervalIs DEF Accs, Swallowed
<1>6. /\ c = n => s = m[1]
      /\ c < n => m[1] < results[c + 1][2] /\ s = Regex!Lesser(m[1], results[c + 1][1])
      /\ \A q \in 1 .. c : results[q][2] <= m[1]
  BY <1>4 DEF Swallowed
<1> DEFINE Q == Append(SubSeq(results, 1, c), acc.new)
<1>7. /\ Q \in Seq(Regex!Intervals) /\ Len(Q) = c + 1
      /\ Q[c + 1] = acc.new
      /\ \A q \in 1 .. c : q \in 1 .. n /\ Q[q] = results[q]
  <2>1. SubSeq(results, 1, c) \in Seq(Regex!Intervals) /\ Len(SubSeq(results, 1, c)) = c
        /\ \A q \in 1 .. c : q \in 1 .. n /\ SubSeq(results, 1, c)[q] = results[q]
    BY <1>1
  <2> QED  BY <1>5, <2>1
<1>8. s <= m[1] /\ \A q \in 1 .. c : results[q][2] <= s
  <2>1. CASE c = n
    BY <1>1, <1>6, <2>1
  <2>2. CASE c < n
    <3>1. c + 1 \in 1 .. n /\ \A q \in 1 .. c : q \in 1 .. n /\ q < c + 1
      BY <1>1, <2>2
    <3>2. \A q \in 1 .. c : results[q][2] <= results[c + 1][1] /\ results[q][2] <= m[1]
      BY <1>1, <1>6, <3>1 DEF InPlace
    <3> QED  BY <1>1, <1>2, <1>6, <2>2, <3>1, <3>2 DEF Regex!Lesser
  <2> QED  BY <2>1, <2>2
<1> HIDE DEF Q
<1>9. \A k \in 1 .. Len(Q) : k \in 1 .. c \/ k = c + 1
  BY <1>7
<1>10. InPlace(Q)
  <2> SUFFICES ASSUME NEW k \in 1 .. Len(Q), NEW l \in 1 .. Len(Q), k < l
               PROVE  Q[k][2] <= Q[l][1]
    BY DEF InPlace
  <2>1. k \in 1 .. c
    BY <1>7
  <2>2. CASE l \in 1 .. c
    BY <1>1, <1>7, <2>1, <2>2 DEF InPlace
  <2>3. CASE l = c + 1
    BY <1>5, <1>7, <1>8, <2>1, <2>3
  <2> QED  BY <1>9, <2>2, <2>3
<1>11. Covers(Q, All)
  <2>1. c + 1 \in 1 .. Len(Q) /\ \A q \in 1 .. c : q \in 1 .. Len(Q)
    BY <1>7
  <2>2. Q[c + 1][1] = s /\ Q[c + 1][2] = m[2]
    BY <1>5, <1>7
  <2>3. ASSUME NEW x \in raw
        PROVE  \E k \in 1 .. Len(Q) : Q[k][1] <= x[1] /\ x[2] <= Q[k][2]
    <3>0. x[1] \in Nat /\ x[2] \in Nat /\ x[2] <= m[2]
      BY IntervalIs
    <3>1. PICK k \in 1 .. n : results[k][1] <= x[1] /\ x[2] <= results[k][2]
      BY <1>1 DEF Covers
    <3>2. CASE k \in 1 .. c
      BY <1>7, <2>1, <3>1, <3>2
    <3>3. CASE k \notin 1 .. c
      <4>1. c < n /\ c + 1 \in 1 .. n /\ (c + 1 = k \/ c + 1 < k)
        BY <1>1, <3>3
      <4>2. results[c + 1][1] <= results[k][1]
        BY <1>1, <1>2, <4>1 DEF InPlace
      <4>3. s <= results[c + 1][1]
        BY <1>1, <1>2, <1>6, <4>1 DEF Regex!Lesser
      <4>4. s <= x[1]
        <5>1. /\ results[c + 1][1] \in Nat /\ results[k][1] \in Nat /\ s \in Nat
              /\ x[1] \in Nat /\ results[k][1] <= x[1]
          BY <1>2, <1>5, <3>0, <3>1, <4>1
        <5> QED  BY <4>2, <4>3, <5>1
      <4> QED  BY <2>1, <2>2, <3>0, <4>4
    <3> QED  BY <3>2, <3>3
  <2>4. \E k \in 1 .. Len(Q) : Q[k][1] <= m[1] /\ m[2] <= Q[k][2]
    BY <1>1, <1>8, <2>1, <2>2
  <2> QED  BY <2>3, <2>4 DEF Covers
<1>12. \A k \in 1 .. c : Made(Q[k], All)
  <2> SUFFICES ASSUME NEW k \in 1 .. c PROVE Made(Q[k], All)
    OBVIOUS
  <2>1. Made(results[k], raw) /\ Q[k] = results[k]
    BY <1>1, <1>7
  <2> QED  BY <2>1 DEF Made
<1>13. Made(acc.new, All)
  <2>1. acc.new[1] = s /\ acc.new[2] = m[2]
    BY <1>5
  <2>2. CASE c = n
    BY <1>1, <1>6, <2>1, <2>2 DEF Made
  <2>3. CASE c < n
    <3>1. c + 1 \in 1 .. n
      BY <1>1, <2>3
    <3>2. Made(results[c + 1], raw) /\ results[c + 1][1] \in Nat /\ results[c + 1][2] \in Nat
      BY <1>1, <1>2, <3>1
    <3>3. (s = m[1] /\ m[1] <= results[c + 1][1]) \/ s = results[c + 1][1]
      BY <1>1, <1>6, <2>3, <3>2 DEF Regex!Lesser
    <3>4. \E x \in All : x[1] = s
      BY <3>2, <3>3 DEF Made
    <3>5. ASSUME NEW p \in Int, s < p, p < m[2] PROVE \E x \in All : x[1] < p /\ p < x[2]
      <4>1. CASE m[1] < p
        BY <3>5, <4>1
      <4>2. CASE p <= m[1]
        <5>1. s = results[c + 1][1] /\ p < results[c + 1][2]
          BY <1>1, <1>5, <1>6, <2>3, <3>2, <3>3, <3>5, <4>2
        <5> QED  BY <3>2, <3>5, <5>1 DEF Made
      <4> QED  BY <1>1, <4>1, <4>2
    <3> QED  BY <2>1, <3>4, <3>5 DEF Made
  <2> QED  BY <2>2, <2>3
<1>14. \A k \in 1 .. Len(Q) : Made(Q[k], All)
  BY <1>7, <1>9, <1>12, <1>13
<1> QED  BY <1>5, <1>7, <1>10, <1>11, <1>14 DEF Merges, Q, acc

-----------------------------------------------------------------------------
(* The sweep of std::regex's back end *)

\* The instance has its own name for Cardinality.
LEMMA SameCardinality == \A S : Regex!Cardinality(S) = Cardinality(S)
  BY DEF Cardinality, Regex!Cardinality

Before == {p \in Regex!Intervals \X Regex!Intervals : Regex!Precedes(p[1], p[2])}

\* Sorting has the matches one by one, by their starts.
LEMMA SortedIs ==
    ASSUME NEW S, S \subseteq Regex!Intervals, IsFiniteSet(S)
    PROVE  /\ Regex!Sorted(S) \in Seq(S) /\ Len(Regex!Sorted(S)) = Cardinality(S)
           /\ \A k, l \in 1 .. Cardinality(S) :
                 k < l => Regex!Sorted(S)[k][1] <= Regex!Sorted(S)[l][1]
           /\ \A x \in S : \E k \in 1 .. Cardinality(S) : Regex!Sorted(S)[k] = x
<1>1. \A x, y \in S : <<x, y>> \in Before <=> Regex!Precedes(x, y)
  BY DEF Before
<1>2. \A x \in S : x[1] \in Nat /\ x[2] \in Nat /\ x = <<x[1], x[2]>>
  BY IntervalIs
<1>3. Orders(Before, S)
  <2>1. \A x \in S : <<x, x>> \notin Before
    BY <1>1, <1>2 DEF Regex!Precedes
  <2>2. \A x, y, z \in S : <<x, y>> \in Before /\ <<y, z>> \in Before => <<x, z>> \in Before
    BY <1>1, <1>2 DEF Regex!Precedes
  <2>3. \A x, y \in S : x = y \/ <<x, y>> \in Before \/ <<y, x>> \in Before
    <3> SUFFICES ASSUME NEW x \in S, NEW y \in S, <<x, y>> \notin Before, <<y, x>> \notin Before
                 PROVE  x = y
      OBVIOUS
    <3>1. x[1] = y[1] /\ x[2] = y[2]
      BY <1>1, <1>2 DEF Regex!Precedes
    <3> QED  BY <1>2, <3>1
  <2> QED  BY <2>1, <2>2, <2>3 DEF Orders
<1> DEFINE T == Regex!Sorted(S)
           Smaller(x) == {y \in S : Regex!Precedes(y, x)}
<1>4. T = [k \in 1 .. Regex!Cardinality(S) |->
              CHOOSE x \in S : Regex!Cardinality(Smaller(x)) = k - 1]
  BY DEF Regex!Sorted
<1>5. \A x \in S : Regex!Cardinality(Smaller(x)) = Rank(Before, S, x)
  <2> SUFFICES ASSUME NEW x \in S PROVE Regex!Cardinality(Smaller(x)) = Rank(Before, S, x)
    OBVIOUS
  <2>1. Smaller(x) = Under(Before, S, x)
    BY <1>1 DEF Under
  <2> HIDE DEF Smaller
  <2> QED  BY <2>1, SameCardinality DEF Rank
<1> HIDE DEF T, Smaller
<1>6. T = [k \in 1 .. Cardinality(S) |-> CHOOSE x \in S : Rank(Before, S, x) = k - 1]
  BY <1>4, <1>5, SameCardinality
<1>7. ByRank(Before, S, T)
  BY <1>3, <1>6, SortsByRank
<1>8. /\ T \in Seq(S) /\ Len(T) = Cardinality(S)
      /\ \A k, l \in 1 .. Len(T) : k < l => <<T[k], T[l]>> \in Before
      /\ \A x \in S : \E k \in 1 .. Len(T) : T[k] = x
  BY <1>3, <1>7, SortIs
<1>9. ASSUME NEW k \in 1 .. Cardinality(S), NEW l \in 1 .. Cardinality(S), k < l
      PROVE  T[k][1] <= T[l][1]
  <2>1. T[k] \in S /\ T[l] \in S /\ <<T[k], T[l]>> \in Before
    BY <1>8, <1>9
  <2>2. Regex!Precedes(T[k], T[l])
    BY <1>1, <2>1
  <2> QED  BY <1>2, <2>1, <2>2 DEF Regex!Precedes
<1> QED  BY <1>8, <1>9 DEF T

LEMMA ExtendIs ==
    ASSUME NEW Q \in Seq(Regex!Intervals), NEW m \in Regex!Intervals
    PROVE  /\ Regex!Extend(Q, m) \in Seq(Regex!Intervals)
           /\ (Q = <<>> \/ ~(m[1] < Q[Len(Q)][2])) => Regex!Extend(Q, m) = Append(Q, m)
           /\ (Q # <<>> /\ m[1] < Q[Len(Q)][2]) =>
                 /\ Len(Regex!Extend(Q, m)) = Len(Q)
                 /\ \A k \in 1 .. Len(Q) : k # Len(Q) => Regex!Extend(Q, m)[k] = Q[k]
                 /\ Regex!Extend(Q, m)[Len(Q)] =
                       <<Q[Len(Q)][1], Regex!Greater(Q[Len(Q)][2], m[2])>>
<1> DEFINE l == Len(Q)
           both == <<Q[l][1], Regex!Greater(Q[l][2], m[2])>>
           more == [Q EXCEPT ![l] = both]
<1>1. l \in Nat /\ Append(Q, m) \in Seq(Regex!Intervals) /\ (Q # <<>> => l \in 1 .. l)
      /\ Regex!Last(Q) = Q[l]
  BY DEF Regex!Last
<1>2. (Q = <<>> \/ ~(m[1] < Q[l][2])) => Regex!Extend(Q, m) = Append(Q, m)
  BY <1>1 DEF Regex!Extend
<1>3. CASE Q # <<>> /\ m[1] < Q[l][2]
  <2>1. Regex!Extend(Q, m) = more
    BY <1>1, <1>3 DEF Regex!Extend
  <2>2. l \in 1 .. l /\ Q[l] \in Regex!Intervals
    BY <1>1, <1>3
  <2>3. /\ Q[l][1] \in 0 .. Length /\ Q[l][2] \in 0 .. Length /\ Q[l][1] < Q[l][2]
        /\ m[1] \in 0 .. Length /\ m[2] \in 0 .. Length
    BY <2>2, IntervalIs
  <2>4. Regex!Greater(Q[l][2], m[2]) \in 0 .. Length /\ Q[l][1] < Regex!Greater(Q[l][2], m[2])
    BY <2>3, ScanAssumption DEF Regex!Greater
  <2>5. both \in Regex!Intervals
    BY <2>3, <2>4, IntervalIs
  <2> HIDE DEF both
  <2>6. more \in Seq(Regex!Intervals) /\ Len(more) = l
        /\ more[l] = both /\ \A k \in 1 .. l : k # l => more[k] = Q[k]
    BY <2>2, <2>5
  <2> QED  BY <1>3, <2>1, <2>6 DEF both
<1> QED  BY <1>1, <1>2, <1>3

LEMMA SweepingIs ==
    ASSUME NEW s \in Seq(Regex!Intervals)
    PROVE  /\ Regex!Sweeping(s)[0] = <<>>
           /\ \A k \in 1 .. Len(s) :
                 Regex!Sweeping(s)[k] = Regex!Extend(Regex!Sweeping(s)[k - 1], s[k])
<1> DEFINE n == Len(s)
           A == Seq(Regex!Intervals)
           T == Regex!Sweeping(s)
           F == [x \in (1 .. n) \X A |-> Regex!Extend(x[2], s[x[1]])]
           Rule(f) == [k \in 0 .. n |-> IF k = 0 THEN <<>> ELSE Regex!Extend(f[k - 1], s[k])]
<1>1. n \in Nat /\ <<>> \in A /\ \A k \in 1 .. n : s[k] \in Regex!Intervals
  OBVIOUS
<1>2. F \in [(1 .. n) \X A -> A] /\ \A k \in 1 .. n, a \in A : F[<<k, a>>] = Regex!Extend(a, s[k])
  BY <1>1, ExtendIs
<1>3. T = CHOOSE at : at = Rule(at)
  BY DEF Regex!Sweeping
<1> HIDE DEF n, T, F, A
<1>4. PICK g \in [0 .. n -> A] : Follows(g, n, <<>>, F)
  BY <1>1, <1>2, Recursion
<1>5. g[0] = <<>> /\ \A k \in 1 .. n : g[k] = Regex!Extend(g[k - 1], s[k])
  <2>1. \A k \in 1 .. n : k - 1 \in 0 .. n
    BY <1>1
  <2> QED  BY <1>2, <1>4, <2>1 DEF Follows
<1>6. g = Rule(g)
  <2>1. \A k \in 0 .. n : k # 0 => k \in 1 .. n
    BY <1>1
  <2> QED  BY <1>4, <1>5, <2>1
<1>7. T = Rule(T)
  <2> HIDE DEF Rule
  <2> QED  BY <1>3, <1>6
<1>8. 0 \in 0 .. n /\ \A k \in 1 .. n : k \in 0 .. n /\ k # 0
  BY <1>1
<1>9. T[0] = <<>> /\ \A k \in 1 .. n : T[k] = Regex!Extend(T[k - 1], s[k])
  BY <1>7, <1>8
<1> QED  BY <1>9 DEF T, n

\* One more match, that begins after the others do, keeps the merge.
LEMMA ExtendMerges ==
    ASSUME NEW S, S \subseteq Regex!Intervals, NEW Q, Merges(Q, S), NEW m \in Regex!Intervals,
           \A r \in S : r[1] <= m[1]
    PROVE  Merges(Regex!Extend(Q, m), S \cup {m})
<1> DEFINE l == Len(Q)
           E == Regex!Extend(Q, m)
           All == S \cup {m}
<1>1. /\ Q \in Seq(Regex!Intervals) /\ InPlace(Q) /\ Covers(Q, S)
      /\ \A k \in 1 .. l : Made(Q[k], S)
      /\ l \in Nat /\ m[1] \in Nat /\ m[2] \in Nat /\ m[1] < m[2]
  BY IntervalIs DEF Merges
<1>2. \A k \in 1 .. l : /\ Q[k][1] \in Nat /\ Q[k][2] \in Nat /\ Q[k][1] < Q[k][2]
                        /\ Q[k][1] <= m[1]
  BY <1>1, MemberIs DEF Made
<1>3. E \in Seq(Regex!Intervals)
  BY <1>1, ExtendIs
<1>4. CASE Q = <<>> \/ ~(m[1] < Q[l][2])
  <2>1. E = Append(Q, m)
    BY <1>1, <1>4, ExtendIs
  <2>2. /\ Len(E) = l + 1 /\ E[l + 1] = m /\ l + 1 \in 1 .. Len(E)
        /\ \A k \in 1 .. l : E[k] = Q[k] /\ k \in 1 .. Len(E)
        /\ \A k \in 1 .. Len(E) : k \in 1 .. l \/ k = l + 1
    BY <1>1, <2>1
  <2> HIDE DEF E
  <2>3. \A k \in 1 .. l : Q[k][2] <= m[1]
    <3> SUFFICES ASSUME NEW k \in 1 .. l PROVE Q[k][2] <= m[1]
      OBVIOUS
    <3>1. l \in 1 .. l /\ Q # <<>>
      BY <1>1
    <3>2. Q[l][2] <= m[1]
      BY <1>1, <1>2, <1>4, <3>1
    <3>3. k # l => Q[k][2] <= Q[l][1]
      BY <1>1, <3>1 DEF InPlace
    <3> QED  BY <1>1, <1>2, <3>1, <3>2, <3>3
  <2>4. InPlace(E)
    <3> SUFFICES ASSUME NEW k \in 1 .. Len(E), NEW q \in 1 .. Len(E), k < q
                 PROVE  E[k][2] <= E[q][1]
      BY DEF InPlace
    <3>1. k \in 1 .. l
      BY <1>1, <2>2
    <3> QED  BY <1>1, <2>2, <2>3, <3>1 DEF InPlace
  <2>5. Covers(E, All)
    <3>1. ASSUME NEW x \in S PROVE \E k \in 1 .. Len(E) : E[k][1] <= x[1] /\ x[2] <= E[k][2]
      BY <1>1, <2>2 DEF Covers
    <3>2. \E k \in 1 .. Len(E) : E[k][1] <= m[1] /\ m[2] <= E[k][2]
      BY <1>1, <2>2
    <3> QED  BY <3>1, <3>2 DEF Covers
  <2>6. \A k \in 1 .. Len(E) : Made(E[k], All)
    <3>1. Made(m, All)
      BY DEF Made
    <3>2. \A k \in 1 .. l : Made(Q[k], All)
      BY <1>1 DEF Made
    <3> QED  BY <2>2, <3>1, <3>2
  <2> QED  BY <1>3, <2>4, <2>5, <2>6 DEF Merges, E
<1>5. CASE Q # <<>> /\ m[1] < Q[l][2]
  <2> DEFINE e == Regex!Greater(Q[l][2], m[2])
  <2>0. /\ Len(E) = l /\ E[l] = <<Q[l][1], e>>
        /\ \A k \in 1 .. l : k # l => E[k] = Q[k]
    BY <1>1, <1>5, ExtendIs
  <2>1. /\ Len(E) = l /\ E[l] = <<Q[l][1], e>> /\ l \in 1 .. l
        /\ \A k \in 1 .. l : k # l => E[k] = Q[k]
    <3>1. l # 0
      BY <1>1, <1>5
    <3> QED  BY <1>1, <2>0, <3>1
  <2>2. e \in Nat /\ Q[l][2] <= e /\ m[2] <= e /\ (e = Q[l][2] \/ e = m[2])
    BY <1>1, <1>2, <2>1 DEF Regex!Greater
  <2> HIDE DEF E, e
  <2>3. \A k \in 1 .. l : E[k][1] = Q[k][1] /\ Q[k][2] <= E[k][2] /\ E[k][2] \in Nat
    BY <1>2, <2>1, <2>2
  <2>4. InPlace(E)
    <3> SUFFICES ASSUME NEW k \in 1 .. l, NEW q \in 1 .. l, k < q
                 PROVE  E[k][2] <= E[q][1]
      BY <2>1 DEF InPlace
    <3>1. k # l
      BY <1>1
    <3>2. E[k] = Q[k] /\ E[q][1] = Q[q][1]
      BY <2>1, <2>3, <3>1
    <3> QED  BY <1>1, <3>2 DEF InPlace
  <2>5. Covers(E, All)
    <3>1. ASSUME NEW x \in S PROVE \E k \in 1 .. Len(E) : E[k][1] <= x[1] /\ x[2] <= E[k][2]
      <4>1. PICK k \in 1 .. l : Q[k][1] <= x[1] /\ x[2] <= Q[k][2]
        BY <1>1 DEF Covers
      <4>2. x[2] \in Nat
        BY IntervalIs
      <4>3. x[2] <= E[k][2] /\ E[k][1] <= x[1]
        BY <1>2, <2>3, <4>1, <4>2
      <4> QED  BY <2>1, <4>3
    <3>2. \E k \in 1 .. Len(E) : E[k][1] <= m[1] /\ m[2] <= E[k][2]
      BY <1>2, <2>1, <2>2
    <3> QED  BY <3>1, <3>2 DEF Covers
  <2>6. Made(E[l], All)
    <3>1. E[l][1] = Q[l][1] /\ E[l][2] = e /\ Made(Q[l], S)
      BY <1>1, <2>1
    <3>2. (\E x \in All : x[1] = Q[l][1]) /\ \E x \in All : x[2] = e
      BY <2>2, <3>1 DEF Made
    <3>3. ASSUME NEW p \in Int, Q[l][1] < p, p < e PROVE \E x \in All : x[1] < p /\ p < x[2]
      <4>1. CASE p < Q[l][2]
        BY <3>1, <3>3, <4>1 DEF Made
      <4>2. CASE Q[l][2] <= p
        <5>1. m[1] < p /\ p < m[2]
          BY <1>1, <1>2, <1>5, <2>1, <2>2, <3>3, <4>2
        <5> QED  BY <5>1
      <4> QED  BY <1>2, <2>1, <4>1, <4>2
    <3> QED  BY <3>1, <3>2, <3>3 DEF Made
  <2>7. \A k \in 1 .. l : k # l => Made(E[k], All)
    BY <1>1, <2>1 DEF Made
  <2> QED  BY <1>3, <2>1, <2>4, <2>5, <2>6, <2>7 DEF Merges, E
<1> QED  BY <1>4, <1>5

LEMMA MergesNothing == Merges(<<>>, {})
<1>1. <<>> \in Seq(Regex!Intervals) /\ Len(<<>>) = 0
  OBVIOUS
<1>2. InPlace(<<>>) /\ Covers(<<>>, {})
  BY <1>1 DEF InPlace, Covers
<1> QED  BY <1>1, <1>2 DEF Merges

\* The sweep makes the merge of the matches.
LEMMA SweepMerges ==
    ASSUME NEW S, S \subseteq Regex!Intervals, IsFiniteSet(S)
    PROVE  Merges(Regex!Sweep(S), S)
<1> DEFINE s == Regex!Sorted(S)
           n == Cardinality(S)
           T == Regex!Sweeping(s)
           First(k) == {s[q] : q \in 1 .. k}
           P == {k \in Nat : k <= n => Merges(T[k], First(k))}
<1>1. /\ s \in Seq(S) /\ s \in Seq(Regex!Intervals) /\ Len(s) = n /\ n \in Nat
      /\ \A k, l \in 1 .. n : k < l => s[k][1] <= s[l][1]
      /\ \A x \in S : \E k \in 1 .. n : s[k] = x
  <2>1. Regex!Sorted(S) \in Seq(S) /\ Len(Regex!Sorted(S)) = Cardinality(S)
    BY SortedIs
  <2>2. Regex!Sorted(S) \in Seq(Regex!Intervals) /\ Cardinality(S) \in Nat
    BY <2>1, FS_CardinalityType
  <2>3. /\ \A k, l \in 1 .. Cardinality(S) :
               k < l => Regex!Sorted(S)[k][1] <= Regex!Sorted(S)[l][1]
        /\ \A x \in S : \E k \in 1 .. Cardinality(S) : Regex!Sorted(S)[k] = x
    BY SortedIs
  <2> QED  BY <2>1, <2>2, <2>3
<1> HIDE DEF s, n
<1>2. T[0] = <<>> /\ \A k \in 1 .. n : T[k] = Regex!Extend(T[k - 1], s[k])
  BY <1>1, SweepingIs
<1> HIDE DEF T
<1>3. 0 \in P
  <2>1. First(0) = {}
    OBVIOUS
  <2> QED  BY <1>2, <2>1, MergesNothing
<1>4. ASSUME NEW k \in Nat, k \in P PROVE k + 1 \in P
  <2> SUFFICES ASSUME k + 1 <= n PROVE Merges(T[k + 1], First(k + 1))
    OBVIOUS
  <2>1. k + 1 \in 1 .. n /\ Merges(T[k], First(k)) /\ T[k + 1] = Regex!Extend(T[k], s[k + 1])
    BY <1>1, <1>2, <1>4
  <2>2. s[k + 1] \in Regex!Intervals /\ First(k) \subseteq Regex!Intervals
    BY <1>1, <2>1
  <2>3. \A r \in First(k) : r[1] <= s[k + 1][1]
    BY <1>1, <2>1
  <2>4. First(k + 1) = First(k) \cup {s[k + 1]}
    <3>1. \A q \in 1 .. k + 1 : q \in 1 .. k \/ q = k + 1
      OBVIOUS
    <3>2. k + 1 \in 1 .. k + 1 /\ \A q \in 1 .. k : q \in 1 .. k + 1
      OBVIOUS
    <3> QED  BY <3>1, <3>2
  <2> HIDE DEF First
  <2> QED  BY <2>1, <2>2, <2>3, <2>4, ExtendMerges
<1>5. Nat \subseteq P
  <2> HIDE DEF P
  <2> QED  BY <1>3, <1>4, Inductive
<1>6. Merges(T[n], First(n))
  <2>1. n \in P
    BY <1>1, <1>5
  <2> HIDE DEF First
  <2> QED  BY <1>1, <2>1
<1>7. First(n) = S
  BY <1>1
<1>8. T[n] = Regex!Sweep(S)
  BY SameCardinality DEF Regex!Sweep, T, s, n
<1> QED  BY <1>6, <1>7, <1>8

-----------------------------------------------------------------------------
(* Cutting the matches out of the input *)

Texts == Seq(0 .. Length)
Ends == [result : Texts, index : 0 .. Length]

\* A run of the input, behind what is copied already.
LEMMA RunIs ==
    ASSUME NEW out \in Texts, NEW x \in 0 .. Length, NEW y \in 0 .. Length
    PROVE  /\ out \o SubSeq(Regex!Input, x + 1, y) \in Texts
           /\ x <= y =>
                 /\ Len(out \o SubSeq(Regex!Input, x + 1, y)) = Len(out) + (y - x)
                 /\ \A p \in 1 .. Len(out) + (y - x) :
                       (out \o SubSeq(Regex!Input, x + 1, y))[p] =
                          IF p <= Len(out) THEN out[p] ELSE x + (p - Len(out))
<1> DEFINE I == Regex!Input
           s == SubSeq(I, x + 1, y)
<1>1. Length \in Nat /\ x \in Int /\ y \in Int /\ x + 1 \in Int
  BY ScanAssumption
<1>2. \A k \in x + 1 .. y : k \in 1 .. Length /\ k \in 0 .. Length
  BY <1>1
<1>3. \A k \in 1 .. Length : I[k] = k
  BY DEF Regex!Input
<1> HIDE DEF I
<1>4. \A k \in x + 1 .. y : I[k] \in 0 .. Length
  BY <1>2, <1>3
<1>5. /\ s \in Texts
      /\ Len(s) = IF x + 1 <= y THEN y - (x + 1) + 1 ELSE 0
      /\ \A k \in 1 .. y - (x + 1) + 1 : s[k] = I[x + 1 + k - 1]
  BY <1>1, <1>4, SubSeqProperties DEF Texts
<1> HIDE DEF s
<1>6. /\ out \o s \in Texts
      /\ Len(out \o s) = Len(out) + Len(s)
      /\ \A p \in 1 .. Len(out) + Len(s) :
            (out \o s)[p] = IF p <= Len(out) THEN out[p] ELSE s[p - Len(out)]
  BY <1>5, ConcatProperties DEF Texts
<1>7. Len(out) \in Nat
  BY DEF Texts
<1>8. ASSUME x <= y
      PROVE  Len(s) = y - x /\ \A k \in 1 .. y - x : s[k] = x + k
  <2>1. Len(s) = y - x
    BY <1>1, <1>5, <1>8
  <2>2. ASSUME NEW k \in 1 .. y - x PROVE s[k] = x + k
    <3>1. k \in 1 .. y - (x + 1) + 1 /\ x + 1 + k - 1 = x + k /\ x + k \in x + 1 .. y
      BY <1>1
    <3>2. x + k \in 1 .. Length
      BY <1>2, <3>1
    <3> QED  BY <1>3, <1>5, <3>1, <3>2
  <2> QED  BY <2>1, <2>2
<1>9. ASSUME x <= y, NEW p \in 1 .. Len(out) + (y - x)
      PROVE  (out \o s)[p] = IF p <= Len(out) THEN out[p] ELSE x + (p - Len(out))
  <2>1. Len(s) = y - x /\ \A k \in 1 .. y - x : s[k] = x + k
    BY <1>8, <1>9
  <2>2. (out \o s)[p] = IF p <= Len(out) THEN out[p] ELSE s[p - Len(out)]
    BY <1>6, <2>1
  <2>3. ~(p <= Len(out)) => p - Len(out) \in 1 .. y - x
    BY <1>1, <1>7
  <2> QED  BY <2>1, <2>2, <2>3
<1> QED  BY <1>6, <1>8, <1>9 DEF s, I

LEMMA CutIs ==
    ASSUME NEW acc \in Ends, NEW m \in Regex!Intervals, NEW target \in Texts
    PROVE  /\ Regex!Cut(acc, m, target) \in Ends
           /\ Regex!Cut(acc, m, target).result =
                 (acc.result \o SubSeq(Regex!Input, acc.index + 1, m[1])) \o target
           /\ Regex!Cut(acc, m, target).index = m[2]
<1> DEFINE run == acc.result \o SubSeq(Regex!Input, acc.index + 1, m[1])
<1>1. /\ acc.result \in Texts /\ acc.index \in 0 .. Length
      /\ m[1] \in 0 .. Length /\ m[2] \in 0 .. Length
  BY IntervalIs DEF Ends
<1>2. run \in Texts
  BY <1>1, RunIs
<1>3. Regex!Cut(acc, m, target) = [result |-> run \o target, index |-> m[2]]
  BY DEF Regex!Cut
<1> HIDE DEF run
<1>4. run \o target \in Texts
  BY <1>2, ConcatProperties DEF Texts
<1>5. /\ Regex!Cut(acc, m, target) \in Ends
      /\ Regex!Cut(acc, m, target).result = run \o target
      /\ Regex!Cut(acc, m, target).index = m[2]
  BY <1>1, <1>3, <1>4 DEF Ends
<1> QED  BY <1>5 DEF run

LEMMA CuttingIs ==
    ASSUME results \in Seq(Regex!Intervals), NEW target \in Texts
    PROVE  /\ Regex!Cutting(target)[0] = [result |-> <<>>, index |-> 0]
           /\ \A k \in 1 .. Len(results) :
                 Regex!Cutting(target)[k] =
                    Regex!Cut(Regex!Cutting(target)[k - 1], results[k], target)
           /\ \A k \in 0 .. Len(results) : Regex!Cutting(target)[k] \in Ends
<1> DEFINE n == Len(results)
           first == [result |-> <<>>, index |-> 0]
           T == Regex!Cutting(target)
           F == [x \in (1 .. n) \X Ends |-> Regex!Cut(x[2], results[x[1]], target)]
           Rule(f) == [k \in 0 .. n |-> IF k = 0 THEN first
                                        ELSE Regex!Cut(f[k - 1], results[k], target)]
<1>1. n \in Nat /\ first \in Ends /\ \A k \in 1 .. n : results[k] \in Regex!Intervals
  BY ScanAssumption DEF Ends, Texts
<1>2. F \in [(1 .. n) \X Ends -> Ends]
        /\ \A k \in 1 .. n, a \in Ends : F[<<k, a>>] = Regex!Cut(a, results[k], target)
  BY <1>1, CutIs
<1> HIDE DEF first
<1>3. T = CHOOSE at : at = Rule(at)
  BY DEF Regex!Cutting, first
<1> HIDE DEF n, T, F
<1>4. PICK g \in [0 .. n -> Ends] : Follows(g, n, first, F)
  BY <1>1, <1>2, Recursion
<1>5. g[0] = first /\ \A k \in 1 .. n : g[k] = Regex!Cut(g[k - 1], results[k], target)
  <2>1. \A k \in 1 .. n : k - 1 \in 0 .. n
    BY <1>1
  <2> QED  BY <1>2, <1>4, <2>1 DEF Follows
<1>6. g = Rule(g)
  <2>1. \A k \in 0 .. n : k # 0 => k \in 1 .. n
    BY <1>1
  <2> QED  BY <1>4, <1>5, <2>1
<1>7. T = Rule(T)
  <2> HIDE DEF Rule
  <2> QED  BY <1>3, <1>6
<1>8. 0 \in 0 .. n /\ \A k \in 1 .. n : k \in 0 .. n /\ k # 0
  BY <1>1
<1>9. T[0] = first /\ \A k \in 1 .. n : T[k] = Regex!Cut(T[k - 1], results[k], target)
  BY <1>7, <1>8
<1>10. \A k \in 0 .. n : T[k] \in Ends
  <2> DEFINE S == {k \in Nat : k <= n => T[k] \in Ends}
  <2>1. 0 \in S
    BY <1>1, <1>9
  <2>2. ASSUME NEW k \in Nat, k \in S PROVE k + 1 \in S
    <3> SUFFICES ASSUME k + 1 <= n PROVE T[k + 1] \in Ends
      OBVIOUS
    <3>1. k + 1 \in 1 .. n /\ T[k] \in Ends /\ k + 1 - 1 = k
      BY <1>1, <2>2
    <3>2. T[k + 1] = Regex!Cut(T[k], results[k + 1], target)
      BY <1>9, <3>1
    <3>3. Regex!Cut(T[k], results[k + 1], target) \in Ends
      BY <1>1, <3>1, CutIs
    <3> QED  BY <3>2, <3>3
  <2>3. Nat \subseteq S
    <3> HIDE DEF S
    <3> QED  BY <2>1, <2>2, Inductive
  <2> QED  BY <1>1, <2>3
<1> QED  BY <1>9, <1>10 DEF T, n, first

\* A position outside every interval of the vector.
Free(q) == \A k \in 1 .. Len(results) : ~(results[k][1] < q /\ q <= results[k][2])

\* What is made of the input up to x, c intervals cut: a copy of position q has label 2q, the
\* target of an interval that starts at h has label 2h + 1, and the labels ascend.
LabelsFit(out, L, x, c) ==
    \A p \in 1 .. Len(out) :
       /\ L[p] \in Nat /\ out[p] \in Nat /\ L[p] <= 2 * x
       /\ out[p] # 0 => L[p] = 2 * out[p] /\ Free(out[p])
       /\ out[p] = 0 => \E l \in 1 .. c : L[p] = 2 * results[l][1] + 1
HasFree(out, x) == \A q \in 1 .. x : Free(q) => \E p \in 1 .. Len(out) : out[p] = q
HasTargets(out, L, c) ==
    \A l \in 1 .. c : \E p \in 1 .. Len(out) : out[p] = 0 /\ L[p] = 2 * results[l][1] + 1
Labelled(out, L, x, c, target) ==
    /\ LabelsFit(out, L, x, c)
    /\ Ascends(L, Len(out))
    /\ HasFree(out, x)
    /\ IF target = <<>> THEN \A p \in 1 .. Len(out) : out[p] # 0 ELSE HasTargets(out, L, c)

\* Copying a run that no interval touches.
LEMMA RunLabelled ==
    ASSUME NEW out \in Texts, NEW x \in 0 .. Length, NEW y \in x .. Length, NEW c \in Nat,
           NEW L, NEW target, Labelled(out, L, x, c, target),
           \A q \in x + 1 .. y : Free(q)
    PROVE  \E M : Labelled(out \o SubSeq(Regex!Input, x + 1, y), M, y, c, target)
<1> DEFINE n == Len(out)
           more == out \o SubSeq(Regex!Input, x + 1, y)
           M == [p \in 1 .. n + (y - x) |-> IF p <= n THEN L[p] ELSE 2 * (x + (p - n))]
<1>1. Length \in Nat /\ x \in Nat /\ y \in Nat /\ x <= y /\ y \in 0 .. Length /\ n \in Nat
  BY ScanAssumption DEF Texts
<1>2. Len(more) = n + (y - x) /\ \A p \in 1 .. n + (y - x) :
         more[p] = IF p <= n THEN out[p] ELSE x + (p - n)
  BY <1>1, RunIs
<1>3. \A p \in 1 .. n : p \in 1 .. n + (y - x) /\ more[p] = out[p] /\ M[p] = L[p]
  BY <1>1, <1>2
<1>4. \A p \in 1 .. n + (y - x) : p \notin 1 .. n =>
         more[p] = x + (p - n) /\ M[p] = 2 * more[p] /\ more[p] \in x + 1 .. y
  BY <1>1, <1>2
<1> HIDE DEF more, M
<1>5. LabelsFit(more, M, y, c)
  <2> SUFFICES ASSUME NEW p \in 1 .. n + (y - x)
               PROVE  /\ M[p] \in Nat /\ more[p] \in Nat /\ M[p] <= 2 * y
                      /\ more[p] # 0 => M[p] = 2 * more[p] /\ Free(more[p])
                      /\ more[p] = 0 => \E l \in 1 .. c : M[p] = 2 * results[l][1] + 1
    BY <1>2 DEF LabelsFit
  <2>1. CASE p \in 1 .. n
    <3>1. /\ L[p] \in Nat /\ out[p] \in Nat /\ L[p] <= 2 * x
          /\ out[p] # 0 => L[p] = 2 * out[p] /\ Free(out[p])
          /\ out[p] = 0 => \E l \in 1 .. c : L[p] = 2 * results[l][1] + 1
      BY <2>1 DEF Labelled, LabelsFit
    <3>2. 2 * x <= 2 * y
      BY <1>1
    <3>3. L[p] <= 2 * y
      BY <1>1, <3>1, <3>2
    <3>4. more[p] = out[p] /\ M[p] = L[p]
      BY <1>3, <2>1
    <3> QED  BY <3>1, <3>3, <3>4
  <2>2. CASE p \notin 1 .. n
    <3>1. M[p] = 2 * more[p] /\ more[p] \in x + 1 .. y
      BY <1>4, <2>2
    <3>2. more[p] \in Nat /\ more[p] # 0 /\ M[p] <= 2 * y /\ M[p] \in Nat
      BY <1>1, <3>1
    <3> QED  BY <3>1, <3>2
  <2> QED  BY <2>1, <2>2
<1>6. Ascends(M, Len(more))
  <2> SUFFICES ASSUME NEW p \in 1 .. n + (y - x), NEW q \in 1 .. n + (y - x), p < q
               PROVE  M[p] < M[q]
    BY <1>2 DEF Ascends
  <2>1. CASE q \in 1 .. n
    <3>1. p \in 1 .. n
      BY <2>1
    <3> QED  BY <1>3, <2>1, <3>1 DEF Labelled, Ascends
  <2>2. CASE q \notin 1 .. n
    <3>1. M[q] = 2 * (x + (q - n)) /\ x + (q - n) \in x + 1 .. y
      BY <1>4, <2>2
    <3>2. CASE p \in 1 .. n
      <4>1. L[p] \in Nat /\ L[p] <= 2 * x
        BY <3>2 DEF Labelled, LabelsFit
      <4> QED  BY <1>1, <1>3, <3>1, <3>2, <4>1
    <3>3. CASE p \notin 1 .. n
      <4>1. M[p] = 2 * (x + (p - n))
        BY <1>4, <3>3
      <4> QED  BY <1>1, <3>1, <4>1
    <3> QED  BY <3>2, <3>3
  <2> QED  BY <2>1, <2>2
<1>7. HasFree(more, y)
  <2> SUFFICES ASSUME NEW q \in 1 .. y, Free(q) PROVE \E p \in 1 .. Len(more) : more[p] = q
    BY DEF HasFree
  <2>1. CASE q \in 1 .. x
    <3>1. PICK p \in 1 .. n : out[p] = q
      BY <2>1 DEF Labelled, HasFree
    <3> QED  BY <1>2, <1>3, <3>1
  <2>2. CASE q \notin 1 .. x
    <3> DEFINE p == n + (q - x)
    <3>1. p \in 1 .. n + (y - x) /\ p \notin 1 .. n /\ x + (p - n) = q
      BY <1>1, <2>2
    <3> HIDE DEF p
    <3> QED  BY <1>2, <1>4, <3>1
  <2> QED  BY <2>1, <2>2
<1>8. CASE target = <<>>
  <2>1. \A p \in 1 .. n : out[p] # 0
    BY <1>8 DEF Labelled
  <2>2. \A p \in 1 .. n + (y - x) : more[p] # 0
    BY <1>1, <1>3, <1>4, <2>1
  <2> QED  BY <1>2, <1>5, <1>6, <1>7, <1>8, <2>2 DEF Labelled, more
<1>9. CASE target # <<>>
  <2>1. HasTargets(out, L, c)
    BY <1>9 DEF Labelled
  <2>2. HasTargets(more, M, c)
    BY <1>2, <1>3, <2>1 DEF HasTargets
  <2> QED  BY <1>5, <1>6, <1>7, <1>9, <2>2 DEF Labelled, more
<1> QED  BY <1>8, <1>9

\* Passing over an interval, with the target in its place.
LEMMA IntervalLabelled ==
    ASSUME results \in Seq(Regex!Intervals), NEW out \in Texts, NEW c \in Nat,
           c + 1 \in 1 .. Len(results), NEW L, NEW target \in {<<>>, << 0 >>},
           Labelled(out, L, results[c + 1][1], c, target)
    PROVE  \E M : Labelled(out \o target, M, results[c + 1][2], c + 1, target)
<1> DEFINE n == Len(out)
           y == results[c + 1][1]
           z == results[c + 1][2]
<1>1. n \in Nat /\ y \in Nat /\ z \in Nat /\ y < z
  BY MemberIs DEF Texts
<1>2. \A q \in 1 .. z : Free(q) => q \in 1 .. y
  <2> SUFFICES ASSUME NEW q \in 1 .. z, Free(q) PROVE q \in 1 .. y
    OBVIOUS
  <2>1. ~(y < q /\ q <= z)
    BY DEF Free
  <2> QED  BY <1>1, <2>1
<1>3. \A l \in 1 .. c : l \in 1 .. c + 1
  OBVIOUS
<1>4. \A p \in 1 .. n :
         /\ L[p] \in Nat /\ out[p] \in Nat /\ L[p] <= 2 * y
         /\ out[p] # 0 => L[p] = 2 * out[p] /\ Free(out[p])
         /\ out[p] = 0 => \E l \in 1 .. c : L[p] = 2 * results[l][1] + 1
  BY DEF Labelled, LabelsFit
<1>5. \A p \in 1 .. n :
         /\ L[p] \in Nat /\ out[p] \in Nat /\ L[p] <= 2 * z
         /\ out[p] # 0 => L[p] = 2 * out[p] /\ Free(out[p])
         /\ out[p] = 0 => \E l \in 1 .. c + 1 : L[p] = 2 * results[l][1] + 1
  <2>1. 2 * y <= 2 * z
    BY <1>1
  <2>2. \A p \in 1 .. n : L[p] <= 2 * z
    BY <1>1, <1>4, <2>1
  <2> QED  BY <1>3, <1>4, <2>2
<1>6. CASE target = <<>>
  <2>1. out \o target = out
    BY <1>6, ConcatEmptySeq DEF Texts
  <2>2. LabelsFit(out, L, z, c + 1)
    BY <1>5 DEF LabelsFit
  <2>3. HasFree(out, z)
    BY <1>2 DEF Labelled, HasFree
  <2>4. Labelled(out, L, z, c + 1, target)
    BY <1>6, <2>2, <2>3 DEF Labelled
  <2> QED  BY <2>1, <2>4
<1>7. CASE target = <<0>>
  <2> DEFINE more == Append(out, 0)
             M == [p \in 1 .. n + 1 |-> IF p <= n THEN L[p] ELSE 2 * y + 1]
  <2>1. out \o target = more
    BY <1>7 DEF Texts
  <2>2. /\ Len(more) = n + 1 /\ more[n + 1] = 0 /\ M[n + 1] = 2 * y + 1
        /\ n + 1 \in 1 .. n + 1
        /\ \A p \in 1 .. n : p \in 1 .. n + 1 /\ more[p] = out[p] /\ M[p] = L[p]
        /\ \A p \in 1 .. n + 1 : p \in 1 .. n \/ p = n + 1
    BY <1>1 DEF Texts
  <2> HIDE DEF more, M
  <2>3. LabelsFit(more, M, z, c + 1)
    <3>1. 2 * y + 1 \in Nat /\ 2 * y + 1 <= 2 * z /\ c + 1 \in 1 .. c + 1
      BY <1>1
    <3> SUFFICES ASSUME NEW p \in 1 .. n + 1
                 PROVE  /\ M[p] \in Nat /\ more[p] \in Nat /\ M[p] <= 2 * z
                        /\ more[p] # 0 => M[p] = 2 * more[p] /\ Free(more[p])
                        /\ more[p] = 0 => \E l \in 1 .. c + 1 : M[p] = 2 * results[l][1] + 1
      BY <2>2 DEF LabelsFit
    <3>2. CASE p \in 1 .. n
      BY <1>5, <2>2, <3>2
    <3>3. CASE p = n + 1
      BY <2>2, <3>1, <3>3
    <3> QED  BY <2>2, <3>2, <3>3
  <2>4. Ascends(M, n + 1)
    <3> SUFFICES ASSUME NEW p \in 1 .. n + 1, NEW q \in 1 .. n + 1, p < q PROVE M[p] < M[q]
      BY DEF Ascends
    <3>1. p \in 1 .. n
      BY <1>1
    <3>2. CASE q \in 1 .. n
      BY <2>2, <3>1, <3>2 DEF Labelled, Ascends
    <3>3. CASE q = n + 1
      <4>1. M[p] = L[p] /\ L[p] \in Nat /\ L[p] <= 2 * y
        BY <1>4, <2>2, <3>1
      <4>2. M[q] = 2 * y + 1
        BY <2>2, <3>3
      <4> HIDE DEF y
      <4> QED  BY <1>1, <4>1, <4>2
    <3> QED  BY <2>2, <3>2, <3>3
  <2>5. HasFree(more, z)
    <3> SUFFICES ASSUME NEW q \in 1 .. z, Free(q) PROVE \E p \in 1 .. n + 1 : more[p] = q
      BY <2>2 DEF HasFree
    <3>1. PICK p \in 1 .. n : out[p] = q
      BY <1>2 DEF Labelled, HasFree
    <3> QED  BY <2>2, <3>1
  <2>6. HasTargets(more, M, c + 1)
    <3> SUFFICES ASSUME NEW l \in 1 .. c + 1
                 PROVE  \E p \in 1 .. n + 1 : more[p] = 0 /\ M[p] = 2 * results[l][1] + 1
      BY <2>2 DEF HasTargets
    <3>1. CASE l \in 1 .. c
      <4>1. PICK p \in 1 .. n : out[p] = 0 /\ L[p] = 2 * results[l][1] + 1
        BY <1>7, <3>1 DEF Labelled, HasTargets
      <4> QED  BY <2>2, <4>1
    <3>2. CASE l = c + 1
      BY <2>2, <3>2
    <3> QED  BY <3>1, <3>2
  <2>7. target # <<>>
    BY <1>7
  <2>8. Labelled(more, M, z, c + 1, target)
    BY <2>2, <2>3, <2>4, <2>5, <2>6, <2>7 DEF Labelled
  <2> QED  BY <2>1, <2>8
<1> QED  BY <1>6, <1>7

\* The whole input.
LEMMA SplicedLabelled ==
    ASSUME results \in Seq(Regex!Intervals), InPlace(results), ~valid => results = <<>>,
           scan # "failed", NEW target \in {<<>>, << 0 >>}
    PROVE  /\ Regex!Spliced(target) \in Texts
           /\ \E L : Labelled(Regex!Spliced(target), L, Length, Len(results), target)
<1> DEFINE n == Len(results)
           T == Regex!Cutting(target)
           At(k) == IF k = 0 THEN 0 ELSE results[k][2]
           S == {k \in Nat : k <= n => /\ T[k].index = At(k)
                                       /\ \E L : Labelled(T[k].result, L, At(k), k, target)}
<1>0. target \in Texts /\ n \in Nat /\ Length \in Nat
  <2>1. n \in Nat /\ Length \in Nat /\ 0 \in 0 .. Length
    BY ScanAssumption
  <2>2. <<>> \in Texts /\ <<0>> \in Texts
    BY <2>1 DEF Texts
  <2> QED  BY <2>1, <2>2
<1>1. /\ T[0] = [result |-> <<>>, index |-> 0]
      /\ \A k \in 1 .. n : T[k] = Regex!Cut(T[k - 1], results[k], target)
      /\ \A k \in 0 .. n : T[k] \in Ends /\ T[k].result \in Texts /\ T[k].index \in 0 .. Length
  BY <1>0, CuttingIs DEF Ends
<1>2. \A k \in 1 .. n : /\ results[k] \in Regex!Intervals
                        /\ results[k][1] \in Nat /\ results[k][2] \in Nat
                        /\ results[k][1] < results[k][2]
                        /\ results[k][1] \in 0 .. Length /\ results[k][2] \in 0 .. Length
  BY MemberIs, IntervalIs
<1>3. \A k, l \in 1 .. n : k < l => results[k][2] <= results[l][1]
  BY DEF InPlace
<1> HIDE DEF T
<1>4. \A k \in 0 .. n, q \in Nat :
         (At(k) < q /\ (k + 1 <= n => q <= results[k + 1][1])) => Free(q)
  <2> SUFFICES ASSUME NEW k \in 0 .. n, NEW q \in Nat, At(k) < q,
                      k + 1 <= n => q <= results[k + 1][1],
                      NEW l \in 1 .. n, results[l][1] < q, q <= results[l][2]
               PROVE  FALSE
    BY DEF Free
  <2>1. CASE l <= k
    <3>1. k \in 1 .. n /\ k # 0 /\ At(k) = results[k][2]
      BY <1>0, <2>1
    <3>2. results[l][2] <= results[k][2]
      BY <1>2, <1>3, <2>1, <3>1
    <3> QED  BY <1>2, <3>1, <3>2
  <2>2. CASE k < l
    <3>1. k + 1 \in 1 .. n /\ (l = k + 1 \/ k + 1 < l)
      BY <1>0, <2>2
    <3>2. results[k + 1][1] <= results[l][1]
      BY <1>2, <1>3, <3>1
    <3> QED  BY <1>2, <3>1, <3>2
  <2> QED  BY <1>0, <2>1, <2>2
<1>5. 0 \in S
  <2> DEFINE L == <<>>
  <2>1. T[0].index = 0 /\ T[0].result = <<>> /\ Len(<<>>) = 0
    BY <1>1
  <2>2. Labelled(<<>>, L, 0, 0, target)
    BY <2>1 DEF Labelled, LabelsFit, Ascends, HasFree, HasTargets
  <2> QED  BY <2>1, <2>2
<1>6. ASSUME NEW k \in Nat, k \in S PROVE k + 1 \in S
  <2> SUFFICES ASSUME k + 1 <= n
               PROVE  /\ T[k + 1].index = At(k + 1)
                      /\ \E L : Labelled(T[k + 1].result, L, At(k + 1), k + 1, target)
    OBVIOUS
  <2> DEFINE out == T[k].result
             x == At(k)
             y == results[k + 1][1]
             run == out \o SubSeq(Regex!Input, x + 1, y)
  <2>1. k \in 0 .. n /\ k + 1 \in 1 .. n /\ k + 1 - 1 = k /\ k + 1 # 0
    BY <1>0
  <2>2. out \in Texts /\ T[k] \in Ends /\ T[k].index = x /\ x \in 0 .. Length
    BY <1>1, <1>6, <2>1
  <2>3. PICK L : Labelled(out, L, x, k, target)
    BY <1>6, <2>1
  <2>4. T[k + 1] = Regex!Cut(T[k], results[k + 1], target)
    BY <1>1, <2>1
  <2>5. T[k + 1].result = run \o target /\ T[k + 1].index = results[k + 1][2]
    <3> DEFINE c == Regex!Cut(T[k], results[k + 1], target)
    <3>1. /\ c.result = (T[k].result \o SubSeq(Regex!Input, T[k].index + 1, results[k + 1][1]))
                         \o target
          /\ c.index = results[k + 1][2]
      BY <1>0, <1>2, <2>1, <2>2, CutIs
    <3> HIDE DEF c
    <3>2. T[k + 1] = c
      BY <2>4 DEF c
    <3> QED  BY <2>2, <3>1, <3>2
  <2>6. y \in 0 .. Length /\ y \in x .. Length
    <3>1. CASE k = 0
      BY <1>2, <2>1, <3>1
    <3>2. CASE k # 0
      <4>1. k \in 1 .. n /\ k < k + 1 /\ x = results[k][2]
        BY <2>1, <3>2
      <4> QED  BY <1>2, <1>3, <2>1, <4>1
    <3> QED  BY <3>1, <3>2
  <2>7. \A q \in x + 1 .. y : Free(q)
    BY <1>0, <1>4, <2>1, <2>2, <2>6
  <2> HIDE DEF At
  <2>8. run \in Texts
    BY <2>2, <2>6, RunIs
  <2> HIDE DEF out, x, run
  <2>9. PICK M : Labelled(run, M, y, k, target)
    BY <2>2, <2>3, <2>6, <2>7, RunLabelled DEF run
  <2>10. \E N : Labelled(run \o target, N, results[k + 1][2], k + 1, target)
    BY <2>1, <2>8, <2>9, IntervalLabelled
  <2> QED  BY <2>1, <2>5, <2>10 DEF At
<1>7. Nat \subseteq S
  <2> HIDE DEF S
  <2> QED  BY <1>5, <1>6, Inductive
<1>8. T[n].index = At(n) /\ \E L : Labelled(T[n].result, L, At(n), n, target)
  BY <1>0, <1>7
<1>9. T[n].result \in Texts /\ At(n) \in 0 .. Length /\ n \in 0 .. n
  BY <1>0, <1>1, <1>8
<1>10. \A q \in At(n) + 1 .. Length : Free(q)
  BY <1>0, <1>4, <1>9
<1>11. Regex!Spliced(target) = T[n].result \o SubSeq(Regex!Input, At(n) + 1, Length)
  <2>1. CASE results # <<>>
    <3>1. Regex!Matched
      BY <2>1 DEF Regex!Matched
    <3>2. Regex!Spliced(target) = T[n].result \o SubSeq(Regex!Input, T[n].index + 1, Length)
      BY <3>1 DEF Regex!Spliced, T
    <3> QED  BY <1>8, <3>2
  <2>2. CASE results = <<>>
    <3>1. n = 0 /\ At(n) = 0 /\ T[n].result = <<>>
      BY <1>1, <2>2
    <3>2. Regex!Spliced(target) = Regex!Input
      BY <2>2 DEF Regex!Spliced, Regex!Matched
    <3>3. Regex!Input \in Texts /\ Len(Regex!Input) = Length
      BY <1>0 DEF Regex!Input, Texts
    <3>4. SubSeq(Regex!Input, 1, Length) = Regex!Input
      BY <3>3, SubSeqFull DEF Texts
    <3>5. <<>> \o Regex!Input = Regex!Input
      BY <3>3, ConcatEmptySeq DEF Texts
    <3> QED  BY <3>1, <3>2, <3>4, <3>5
  <2> QED  BY <2>1, <2>2
<1> HIDE DEF At
<1>12. PICK L : Labelled(T[n].result, L, At(n), n, target)
  BY <1>8
<1>13. Length \in At(n) .. Length /\ Length \in 0 .. Length
  BY <1>0, <1>9
<1>14. T[n].result \o SubSeq(Regex!Input, At(n) + 1, Length) \in Texts
  BY <1>9, <1>13, RunIs
<1>15. \E M : Labelled(T[n].result \o SubSeq(Regex!Input, At(n) + 1, Length), M, Length, n, target)
  BY <1>0, <1>9, <1>10, <1>12, <1>13, RunLabelled
<1> QED  BY <1>11, <1>14, <1>15

\* The vector leaves free what the matches leave free.
LEMMA FreeIs ==
    ASSUME raw \subseteq Regex!Intervals, Merges(results, raw), NEW q \in Nat
    PROVE  Free(q) <=> ~\E m \in raw : m[1] < q /\ q <= m[2]
<1>1. /\ Covers(results, raw) /\ results \in Seq(Regex!Intervals)
      /\ \A k \in 1 .. Len(results) : Made(results[k], raw)
  BY DEF Merges
<1>2. \A m \in raw : m[1] \in Nat /\ m[2] \in Nat /\ m[1] < m[2]
  BY IntervalIs
<1>3. \A k \in 1 .. Len(results) : /\ results[k][1] \in Nat /\ results[k][2] \in Nat
                                   /\ results[k][1] < results[k][2]
  BY <1>1, MemberIs
<1>4. ASSUME NEW m \in raw, m[1] < q, q <= m[2] PROVE ~Free(q)
  <2>1. PICK k \in 1 .. Len(results) : results[k][1] <= m[1] /\ m[2] <= results[k][2]
    BY <1>1 DEF Covers
  <2>2. results[k][1] < q /\ q <= results[k][2]
    BY <1>2, <1>3, <1>4, <2>1
  <2> QED  BY <2>2 DEF Free
<1>5. ASSUME ~Free(q) PROVE \E m \in raw : m[1] < q /\ q <= m[2]
  <2>1. PICK k \in 1 .. Len(results) : results[k][1] < q /\ q <= results[k][2]
    BY <1>5 DEF Free
  <2>2. CASE q < results[k][2]
    <3>1. \E m \in raw : m[1] < q /\ q < m[2]
      BY <1>1, <2>1, <2>2 DEF Made
    <3> QED  BY <1>2, <3>1
  <2>3. CASE q = results[k][2]
    <3>1. PICK m \in raw : m[2] = q
      BY <1>1, <2>3 DEF Made
    <3> QED  BY <1>2, <3>1
  <2> QED  BY <1>3, <2>1, <2>2, <2>3
<1> QED  BY <1>4, <1>5

LEMMA LabelledCopies ==
    ASSUME raw \subseteq Regex!Intervals, Merges(results, raw), NEW out \in Texts, NEW L,
           NEW target, Labelled(out, L, Length, Len(results), target)
    PROVE  Regex!Copies(out, Regex!Rest)
<1>1. DOMAIN out = 1 .. Len(out) /\ Len(out) \in Nat /\ Length \in Nat
  BY ScanAssumption DEF Texts
<1>2. \A p \in 1 .. Len(out) :
         /\ out[p] \in 0 .. Length /\ L[p] \in Nat
         /\ out[p] # 0 => L[p] = 2 * out[p] /\ Free(out[p])
  <2>1. \A p \in 1 .. Len(out) : out[p] \in 0 .. Length
    <3> SUFFICES ASSUME NEW p \in 1 .. Len(out) PROVE out[p] \in 0 .. Length
      OBVIOUS
    <3>1. out \in Seq(0 .. Length)
      BY DEF Texts
    <3> QED  BY <3>1, ElementOfSeq
  <2>2. \A p \in 1 .. Len(out) :
           L[p] \in Nat /\ (out[p] # 0 => L[p] = 2 * out[p] /\ Free(out[p]))
    BY DEF Labelled, LabelsFit
  <2> QED  BY <2>1, <2>2
<1>3. \A q \in 1 .. Length : Free(q) <=> q \in Regex!Rest
  BY FreeIs DEF Regex!Rest
<1>4. Regex!Rest \subseteq 1 .. Length
  BY DEF Regex!Rest
<1>5. \A p \in 1 .. Len(out) : out[p] # 0 => out[p] \in Regex!Rest
  <2> SUFFICES ASSUME NEW p \in 1 .. Len(out), out[p] # 0 PROVE out[p] \in Regex!Rest
    OBVIOUS
  <2>1. out[p] \in 1 .. Length /\ Free(out[p])
    BY <1>1, <1>2
  <2> QED  BY <1>3, <2>1
<1>6. \A q \in Regex!Rest : q # 0 /\ \E p \in 1 .. Len(out) : out[p] = q
  BY <1>1, <1>3, <1>4 DEF Labelled, HasFree
<1>7. {out[p] : p \in DOMAIN out} \ {0} = Regex!Rest
  BY <1>1, <1>5, <1>6
<1>8. ASSUME NEW p \in DOMAIN out, NEW q \in DOMAIN out, p < q, out[p] # 0, out[q] # 0
      PROVE  out[p] < out[q]
  <2>1. L[p] < L[q] /\ L[p] = 2 * out[p] /\ L[q] = 2 * out[q]
    BY <1>1, <1>2, <1>8 DEF Labelled, Ascends
  <2>2. out[p] \in Nat /\ out[q] \in Nat
    BY <1>1, <1>2
  <2> QED  BY <2>1, <2>2
<1> QED  BY <1>7, <1>8 DEF Regex!Copies

LEMMA LabelledTargets ==
    ASSUME raw \subseteq Regex!Intervals, Merges(results, raw), NEW out \in Texts, NEW L,
           NEW target, target # <<>>, Labelled(out, L, Length, Len(results), target)
    PROVE  \E at \in [Regex!Heads -> DOMAIN out] : Regex!Targets(out, Regex!Heads, at)
<1> DEFINE H == Regex!Heads
           D == DOMAIN out
           at == [h \in H |-> CHOOSE p \in D : out[p] = 0 /\ L[p] = 2 * h + 1]
<1>1. D = 1 .. Len(out) /\ Len(out) \in Nat /\ Length \in Nat
  BY ScanAssumption DEF Texts
<1>2. \A p \in D :
         /\ out[p] \in Nat /\ L[p] \in Nat
         /\ out[p] # 0 => L[p] = 2 * out[p]
         /\ out[p] = 0 => \E l \in 1 .. Len(results) : L[p] = 2 * results[l][1] + 1
  BY <1>1 DEF Labelled, LabelsFit
<1>3. \A p, q \in D : p < q => L[p] < L[q]
  BY <1>1 DEF Labelled, Ascends
<1>4. results \in Seq(Regex!Intervals)
  BY DEF Merges
<1>5. \A h \in 0 .. Length : h \in H <=> StartsAt(results, h)
  <2>1. \A h \in 0 .. Length : h \in H <=> HeadAt(raw, h)
    BY DEF Regex!Heads, HeadAt, Across
  <2>2. \A h \in 0 .. Length : h \in Nat
    BY <1>1
  <2> QED  BY <2>1, <2>2, MergedEnds
<1>6. H \subseteq 0 .. Length
  BY DEF Regex!Heads
<1> HIDE DEF H, D
<1>7. \A h \in H : at[h] \in D /\ out[at[h]] = 0 /\ L[at[h]] = 2 * h + 1
  <2> SUFFICES ASSUME NEW h \in H PROVE at[h] \in D /\ out[at[h]] = 0 /\ L[at[h]] = 2 * h + 1
    OBVIOUS
  <2>1. PICK l \in 1 .. Len(results) : results[l][1] = h
    BY <1>5, <1>6 DEF StartsAt
  <2>2. \E p \in D : out[p] = 0 /\ L[p] = 2 * h + 1
    BY <1>1, <2>1 DEF Labelled, HasTargets
  <2> QED  BY <2>2
<1>8. at \in [H -> D]
  BY <1>7
<1> HIDE DEF at
<1>9. \A p \in D : out[p] = 0 => \E h \in H : at[h] = p
  <2> SUFFICES ASSUME NEW p \in D, out[p] = 0 PROVE \E h \in H : at[h] = p
    OBVIOUS
  <2>1. PICK l \in 1 .. Len(results) : L[p] = 2 * results[l][1] + 1
    BY <1>2
  <2> DEFINE h == results[l][1]
  <2>2. h \in 0 .. Length /\ StartsAt(results, h)
    BY <1>4, MemberIs, IntervalIs DEF StartsAt
  <2>3. h \in H
    BY <1>5, <2>2
  <2>4. L[at[h]] = L[p] /\ at[h] \in D
    BY <1>7, <2>1, <2>3
  <2> HIDE DEF h
  <2>5. p \in Nat /\ at[h] \in Nat /\ L[p] \in Nat
    BY <1>1, <1>2, <2>4
  <2>6. ~(p < at[h]) /\ ~(at[h] < p)
    <3>1. \A a, b \in Nat : a < b => a # b
      OBVIOUS
    <3> QED  BY <1>3, <2>4, <2>5, <3>1
  <2>7. at[h] = p
    BY <2>5, <2>6
  <2> QED  BY <2>3, <2>7
<1>10. {p \in D : out[p] = 0} = {at[h] : h \in H}
  BY <1>7, <1>9
<1>11. ASSUME NEW g \in H, NEW h \in H, g < h PROVE at[g] < at[h]
  <2>1. g \in Nat /\ h \in Nat
    BY <1>1, <1>6
  <2>2. L[at[g]] < L[at[h]] /\ at[g] \in D /\ at[h] \in D
    BY <1>7, <1>11, <2>1
  <2>3. at[g] \in Nat /\ at[h] \in Nat /\ L[at[g]] \in Nat /\ L[at[h]] \in Nat
    BY <1>1, <1>2, <2>2
  <2>4. ~(at[h] < at[g]) /\ at[h] # at[g]
    BY <1>3, <2>2, <2>3
  <2> QED  BY <2>3, <2>4
<1>12. ASSUME NEW h \in H, NEW p \in D, out[p] # 0 PROVE p < at[h] <=> out[p] <= h
  <2>1. h \in Nat /\ p \in Nat /\ at[h] \in Nat /\ at[h] \in D
    BY <1>1, <1>6, <1>7
  <2>2. L[p] = 2 * out[p] /\ L[at[h]] = 2 * h + 1 /\ out[p] \in Nat
    BY <1>2, <1>7, <1>12
  <2>3. p # at[h]
    BY <1>7, <1>12
  <2>4. p < at[h] => L[p] < L[at[h]]
    BY <1>3, <2>1
  <2>5. at[h] < p => L[at[h]] < L[p]
    BY <1>3, <2>1
  <2> QED  BY <2>1, <2>2, <2>3, <2>4, <2>5
<1>13. Regex!Targets(out, H, at)
  BY <1>10, <1>11, <1>12 DEF Regex!Targets, D
<1> QED  BY <1>8, <1>13 DEF H, D

\* remove and replace cut what the matches cover.
LEMMA CutsExactly ==
    ASSUME raw \subseteq Regex!Intervals, Merges(results, raw), ~valid => results = <<>>,
           scan # "failed"
    PROVE  /\ Regex!Copies(Regex!remove, Regex!Rest) /\ Regex!Targets(Regex!remove, {}, <<>>)
           /\ Regex!Copies(Regex!replace, Regex!Rest)
           /\ \E at \in [Regex!Heads -> DOMAIN Regex!replace] :
                Regex!Targets(Regex!replace, Regex!Heads, at)
<1>1. results \in Seq(Regex!Intervals) /\ InPlace(results)
  BY DEF Merges
<1>2. Regex!Copies(Regex!remove, Regex!Rest) /\ Regex!Targets(Regex!remove, {}, <<>>)
  <2>1. Regex!remove \in Texts /\ \E L : Labelled(Regex!remove, L, Length, Len(results), <<>>)
    BY <1>1, SplicedLabelled DEF Regex!remove
  <2>2. PICK L : Labelled(Regex!remove, L, Length, Len(results), <<>>)
    BY <2>1
  <2> DEFINE out == Regex!remove
  <2>3. \A p \in DOMAIN out : out[p] # 0
    BY <2>1, <2>2 DEF Labelled, Texts
  <2>4. Regex!Copies(out, Regex!Rest)
    BY <2>1, <2>2, LabelledCopies
  <2> HIDE DEF out
  <2>5. Regex!Targets(out, {}, <<>>)
    BY <2>3 DEF Regex!Targets
  <2> QED  BY <2>4, <2>5 DEF out
<1>3. /\ Regex!Copies(Regex!replace, Regex!Rest)
      /\ \E at \in [Regex!Heads -> DOMAIN Regex!replace] :
            Regex!Targets(Regex!replace, Regex!Heads, at)
  <2>1. Regex!replace \in Texts /\ \E L : Labelled(Regex!replace, L, Length, Len(results), <<0>>)
    BY <1>1, SplicedLabelled DEF Regex!replace
  <2>2. PICK L : Labelled(Regex!replace, L, Length, Len(results), <<0>>)
    BY <2>1
  <2>3. <<0>> # <<>>
    OBVIOUS
  <2> QED  BY <2>1, <2>2, <2>3, LabelledCopies, LabelledTargets
<1> QED  BY <1>2, <1>3

LEMMA Cuts ==
    ASSUME raw \subseteq Regex!Intervals, Merges(results, raw), ~valid => results = <<>>
    PROVE  Regex!CutsTheMatches
<1>1. scan = "failed" => Regex!remove = Regex!Input /\ Regex!replace = Regex!Input
  BY DEF Regex!remove, Regex!replace, Regex!Spliced, Regex!Matched
<1>2. scan = "done" => scan # "failed"
  OBVIOUS
<1> QED  BY <1>1, <1>2, CutsExactly DEF Regex!CutsTheMatches

-----------------------------------------------------------------------------
(* A scan *)

RegexInv ==
    /\ Regex!TypeOK
    /\ Merges(results, raw)
    /\ ~valid => results = <<>> /\ scan = "done"

LEMMA FinitelyMany == \A S : S \subseteq Regex!Intervals => IsFiniteSet(S)
<1>1. IsFiniteSet(0 .. Length)
  BY FS_Interval, ScanAssumption
<1>2. IsFiniteSet((0 .. Length) \X (0 .. Length))
  BY <1>1, FS_Product
<1>3. Regex!Intervals \in SUBSET ((0 .. Length) \X (0 .. Length))
  BY DEF Regex!Intervals
<1> QED  BY <1>2, <1>3, FS_Subset

LEMMA ScanInit == Regex!Init => RegexInv
<1> SUFFICES ASSUME Regex!Init PROVE RegexInv
  OBVIOUS
<1>1. raw = {} /\ results = <<>> /\ valid \in BOOLEAN /\ scan = IF valid THEN "scan" ELSE "done"
  BY DEF Regex!Init
<1>2. Regex!Cardinality(raw) = 0 /\ 0 <= MaxMatches
  BY <1>1, SameCardinality, FS_EmptySet, ScanAssumption
<1>3. Regex!TypeOK
  BY <1>1, <1>2 DEF Regex!TypeOK
<1> QED  BY <1>1, <1>3, MergesNothing DEF RegexInv

LEMMA ScanStep == RegexInv /\ Regex!Next => RegexInv'
<1> SUFFICES ASSUME RegexInv, Regex!Next PROVE RegexInv'
  OBVIOUS
<1>1. /\ raw \subseteq Regex!Intervals /\ Merges(results, raw) /\ results \in Seq(Regex!Intervals)
      /\ valid \in BOOLEAN /\ Regex!Cardinality(raw) <= MaxMatches
      /\ ~valid => results = <<>> /\ scan = "done"
  BY DEF RegexInv, Regex!TypeOK
<1>2. CASE Regex!ScanReturns \/ Regex!ScanFails
  <2>1. scan' \in {"done", "failed"} /\ scan = "scan" /\ valid' = valid /\ raw' = raw /\ results' = results
    BY <1>2 DEF Regex!ScanReturns, Regex!ScanFails
  <2>2. Regex!TypeOK'
    BY <1>1, <2>1, SameCardinality DEF Regex!TypeOK
  <2> QED  BY <1>1, <2>1, <2>2 DEF RegexInv
<1>3. ASSUME NEW m \in Regex!Intervals, Regex!xxregexMatchCallback(m) PROVE RegexInv'
  <2>1. /\ scan = "scan" /\ m \notin raw /\ Regex!Cardinality(raw) < MaxMatches
        /\ \A r \in raw : r[2] <= m[2]
        /\ raw' = raw \cup {m} /\ results' = Append(Regex!Merged(m).kept, Regex!Merged(m).new)
        /\ valid' = valid /\ scan' = scan
    BY <1>3 DEF Regex!xxregexMatchCallback
  <2>2. Merges(results', raw')
    BY <1>1, <2>1, CallbackMerges
  <2>3. IsFiniteSet(raw) /\ raw' \subseteq Regex!Intervals
    BY <1>1, <2>1, FinitelyMany
  <2>4. Regex!Cardinality(raw') <= MaxMatches
    <3>1. Cardinality(raw) \in Nat /\ Cardinality(raw') = Cardinality(raw) + 1
      BY <2>1, <2>3, FS_CardinalityType, FS_AddElement
    <3>2. Cardinality(raw) < MaxMatches
      BY <2>1, SameCardinality
    <3>3. Cardinality(raw') <= MaxMatches
      BY <3>1, <3>2, ScanAssumption
    <3> QED  BY <3>3, SameCardinality
  <2>5. results' \in Seq(Regex!Intervals)
    BY <2>2 DEF Merges
  <2>6. Regex!TypeOK'
    BY <1>1, <2>1, <2>3, <2>4, <2>5 DEF Regex!TypeOK
  <2>7. valid'
    BY <1>1, <2>1
  <2> QED  BY <2>2, <2>6, <2>7 DEF RegexInv
<1> QED  BY <1>2, <1>3 DEF Regex!Next

\* Of a text of any length and any number of matches, Hyperscan's callback and the sweep of
\* std::regex make the same intervals, and remove and replace cut out exactly what they
\* cover, in order, with one target for each; after a scan that failed they cut nothing.
THEOREM ScansAreExact == TextSpec => []ScanIsExact
<1> DEFINE Inv == tool = "regex" => RegexInv
<1>1. TextInit => Inv
  BY ScanInit DEF TextInit
<1>2. Inv /\ [TextNext]_textVars => Inv'
  <2> SUFFICES ASSUME Inv, [TextNext]_textVars PROVE Inv'
    OBVIOUS
  <2>1. CASE tool = "regex" /\ Regex!Next /\ UNCHANGED tool
    BY <2>1, ScanStep
  <2>2. CASE tool # "regex" /\ UNCHANGED tool
    BY <2>2
  <2>3. CASE UNCHANGED <<tool, regexVars>>
    BY <2>3 DEF regexVars, RegexInv, Regex!TypeOK, Merges, InPlace, Covers, Made
  <2> QED  BY <2>1, <2>2, <2>3 DEF TextNext, textVars
<1>3. Inv => ScanIsExact
  <2> SUFFICES ASSUME RegexInv
               PROVE  Regex!TypeOK /\ Regex!BackEndsAgree /\ Regex!CutsTheMatches
    BY DEF ScanIsExact
  <2>1. /\ Regex!TypeOK /\ raw \subseteq Regex!Intervals /\ Merges(results, raw)
        /\ ~valid => results = <<>>
    BY DEF RegexInv, Regex!TypeOK
  <2>2. Merges(Regex!Sweep(raw), raw)
    BY <2>1, FinitelyMany, SweepMerges
  <2>3. results = Regex!Sweep(raw)
    BY <2>1, <2>2, OneMerge
  <2> QED  BY <2>1, <2>3, Cuts DEF Regex!BackEndsAgree
<1> QED  BY <1>1, <1>2, <1>3, PTL DEF TextSpec
=============================================================================
