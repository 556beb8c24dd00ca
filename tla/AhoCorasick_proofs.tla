------------------------ MODULE AhoCorasick_proofs ------------------------
(***************************************************************************)
(* Proofs about AhoCorasick, for any patterns, texts and character folding. *)
(* A fail pointer leads to a suffix of its node; after build() to the       *)
(* longest one in the trie, so that the node the search is at is the        *)
(* longest suffix of what it has read that is in the trie, and every        *)
(* pattern that ends there is among its outputs.                            *)
(* (The operators of AhoCorasick are written Aho!...)                       *)
(***************************************************************************)
EXTENDS RegexMatch_proofs

-----------------------------------------------------------------------------
(* Suffixes *)

Strs == Seq(DOMAIN Fold)

\* m is the end of s.
Suffix(m, s) ==
    Len(m) <= Len(s) /\ \A k \in 1 .. Len(m) : m[k] = s[k + (Len(s) - Len(m))]

LEMMA SuffixOrder ==
    ASSUME NEW A, NEW a \in Seq(A), NEW b \in Seq(A), NEW s \in Seq(A)
    PROVE  /\ Suffix(s, s) /\ Suffix(<<>>, s)
           /\ Suffix(a, b) /\ Suffix(b, s) => Suffix(a, s)
           /\ Suffix(a, s) /\ Suffix(b, s) /\ Len(a) <= Len(b) => Suffix(a, b)
           /\ Suffix(a, s) /\ Len(a) = Len(s) => a = s
<1>0. Len(a) \in Nat /\ Len(b) \in Nat /\ Len(s) \in Nat /\ Len(<<>>) = 0
  OBVIOUS
<1>1. Suffix(s, s) /\ Suffix(<<>>, s)
  BY <1>0 DEF Suffix
<1>2. ASSUME Suffix(a, b), Suffix(b, s) PROVE Suffix(a, s)
  <2>1. Len(a) <= Len(b) /\ Len(b) <= Len(s)
    BY <1>2 DEF Suffix
  <2>2. ASSUME NEW k \in 1 .. Len(a) PROVE a[k] = s[k + (Len(s) - Len(a))]
    <3> DEFINE l == k + (Len(b) - Len(a))
    <3>1. l \in 1 .. Len(b) /\ l + (Len(s) - Len(b)) = k + (Len(s) - Len(a))
      BY <1>0, <2>1
    <3>2. a[k] = b[l]
      BY <1>2 DEF Suffix
    <3> HIDE DEF l
    <3>3. b[l] = s[l + (Len(s) - Len(b))]
      BY <1>2, <3>1 DEF Suffix
    <3> QED  BY <3>1, <3>2, <3>3
  <2> QED  BY <1>0, <2>1, <2>2 DEF Suffix
<1>3. ASSUME Suffix(a, s), Suffix(b, s), Len(a) <= Len(b) PROVE Suffix(a, b)
  <2>1. ASSUME NEW k \in 1 .. Len(a) PROVE a[k] = b[k + (Len(b) - Len(a))]
    <3> DEFINE l == k + (Len(b) - Len(a))
    <3>1. l \in 1 .. Len(b) /\ l + (Len(s) - Len(b)) = k + (Len(s) - Len(a))
      BY <1>0, <1>3
    <3>2. a[k] = s[k + (Len(s) - Len(a))]
      BY <1>3 DEF Suffix
    <3> HIDE DEF l
    <3>3. b[l] = s[l + (Len(s) - Len(b))]
      BY <1>3, <3>1 DEF Suffix
    <3> QED  BY <3>1, <3>2, <3>3 DEF l
  <2> QED  BY <1>3, <2>1 DEF Suffix
<1>4. ASSUME Suffix(a, s), Len(a) = Len(s) PROVE a = s
  <2>1. \A k \in 1 .. Len(a) : a[k] = s[k]
    BY <1>0, <1>4 DEF Suffix
  <2> QED  BY <1>4, <2>1, SeqEqual
<1> QED  BY <1>1, <1>2, <1>3, <1>4

\* The suffixes of Append(s, c) that are not empty are those of s with c after them.
LEMMA SuffixAppend ==
    ASSUME NEW A, NEW a \in Seq(A), NEW s \in Seq(A), NEW c \in A, NEW d \in A
    PROVE  Suffix(Append(a, c), Append(s, d)) <=> Suffix(a, s) /\ c = d
<1> DEFINE m == Append(a, c)
           t == Append(s, d)
<1>1. /\ Len(a) \in Nat /\ Len(s) \in Nat /\ Len(m) = Len(a) + 1 /\ Len(t) = Len(s) + 1
      /\ \A k \in 1 .. Len(a) : m[k] = a[k]
      /\ \A k \in 1 .. Len(s) : t[k] = s[k]
      /\ m[Len(a) + 1] = c /\ t[Len(s) + 1] = d
  OBVIOUS
<1> HIDE DEF m, t
<1>2. ASSUME Suffix(m, t) PROVE Suffix(a, s) /\ c = d
  <2>1. Len(a) <= Len(s) /\ Len(t) - Len(m) = Len(s) - Len(a)
    BY <1>1, <1>2 DEF Suffix
  <2>2. ASSUME NEW k \in 1 .. Len(a) PROVE a[k] = s[k + (Len(s) - Len(a))]
    <3>1. k \in 1 .. Len(m) /\ k + (Len(s) - Len(a)) \in 1 .. Len(s)
      BY <1>1, <2>1
    <3>2. m[k] = t[k + (Len(t) - Len(m))]
      BY <1>2, <3>1 DEF Suffix
    <3> QED  BY <1>1, <2>1, <3>1, <3>2
  <2>3. c = d
    <3>1. Len(a) + 1 \in 1 .. Len(m) /\ Len(a) + 1 + (Len(t) - Len(m)) = Len(s) + 1
      BY <1>1
    <3>2. m[Len(a) + 1] = t[Len(a) + 1 + (Len(t) - Len(m))]
      BY <1>2, <3>1 DEF Suffix
    <3> QED  BY <1>1, <3>1, <3>2
  <2> QED  BY <2>1, <2>2, <2>3 DEF Suffix
<1>3. ASSUME Suffix(a, s), c = d PROVE Suffix(m, t)
  <2>1. Len(m) <= Len(t) /\ Len(t) - Len(m) = Len(s) - Len(a) /\ Len(a) <= Len(s)
    BY <1>1, <1>3 DEF Suffix
  <2>2. ASSUME NEW k \in 1 .. Len(m) PROVE m[k] = t[k + (Len(t) - Len(m))]
    <3>1. CASE k = Len(a) + 1
      BY <1>1, <1>3, <2>1, <3>1
    <3>2. CASE k # Len(a) + 1
      <4>1. k \in 1 .. Len(a) /\ k + (Len(s) - Len(a)) \in 1 .. Len(s)
        BY <1>1, <2>1, <3>2
      <4>2. a[k] = s[k + (Len(s) - Len(a))]
        BY <1>3, <4>1 DEF Suffix
      <4> QED  BY <1>1, <2>1, <4>1, <4>2
    <3> QED  BY <3>1, <3>2
  <2> QED  BY <2>1, <2>2 DEF Suffix
<1> QED  BY <1>2, <1>3 DEF m, t

\* A string that is not empty ends in its last character.
LEMMA LastOf ==
    ASSUME NEW A, NEW s \in Seq(A), s # <<>>
    PROVE  /\ Aho!Front(s) \in Seq(A) /\ Aho!Last(s) \in A
           /\ s = Append(Aho!Front(s), Aho!Last(s)) /\ Len(Aho!Front(s)) = Len(s) - 1
           /\ Len(s) \in Nat \ {0}
<1> DEFINE f == SubSeq(s, 1, Len(s) - 1)
<1>1. Aho!Front(s) = f /\ Aho!Last(s) = s[Len(s)]
  BY DEF Aho!Front, Aho!Last
<1>2. Len(s) \in Nat \ {0}
  BY EmptySeq
<1>3. f \in Seq(A) /\ Len(f) = Len(s) - 1 /\ s[Len(s)] \in A
      /\ \A k \in 1 .. Len(f) : f[k] = s[k]
  <2> DEFINE n == Len(s) - 1
  <2>1. n \in Nat /\ n \in Int /\ 1 \in Int /\ \A k \in 1 .. n : s[k] \in A
    BY <1>2
  <2> HIDE DEF n
  <2>2. /\ SubSeq(s, 1, n) \in Seq(A)
        /\ Len(SubSeq(s, 1, n)) = IF 1 <= n THEN n - 1 + 1 ELSE 0
        /\ \A k \in 1 .. n - 1 + 1 : SubSeq(s, 1, n)[k] = s[1 + k - 1]
    BY <2>1, SubSeqProperties
  <2>3. Len(SubSeq(s, 1, n)) = n /\ \A k \in 1 .. n : SubSeq(s, 1, n)[k] = s[k]
    BY <2>1, <2>2
  <2>4. s[Len(s)] \in A
    BY <1>2
  <2> QED  BY <2>2, <2>3, <2>4 DEF n
<1> HIDE DEF f
<1>4. s = Append(f, s[Len(s)])
  <2> DEFINE t == Append(f, s[Len(s)])
  <2>1. t \in Seq(A) /\ Len(t) = Len(s) /\ t[Len(s)] = s[Len(s)]
        /\ \A k \in 1 .. Len(f) : t[k] = s[k]
    BY <1>2, <1>3
  <2> HIDE DEF t
  <2>2. \A k \in 1 .. Len(s) : t[k] = s[k]
    BY <1>2, <1>3, <2>1
  <2> QED  BY <2>1, <2>2, SeqEqual DEF t
<1> QED  BY <1>1, <1>2, <1>3, <1>4

-----------------------------------------------------------------------------
(* Recursion along pointers to smaller things *)

\* f leads from each member of N outside base to a smaller one.
Descends(N, size, f, base) ==
    /\ size \in [N -> Nat]
    /\ \A n \in N : n \notin base => f[n] \in N /\ size[f[n]] < size[n]

\* The value at n, from the value at f[n].
Rule(h, f, base, start, F, n) == IF n \in base THEN start[n] ELSE F[<<n, h[f[n]]>>]
Computes(h, N, f, base, start, F) == \A n \in N : h[n] = Rule(h, f, base, start, F, n)
RightBelow(h, N, A, size, f, base, start, F, m) ==
    h \in [N -> A] /\ \A n \in N : size[n] < m => h[n] = Rule(h, f, base, start, F, n)

LEMMA Descent ==
    ASSUME NEW N, NEW size, NEW f, NEW base, Descends(N, size, f, base),
           NEW A, NEW start \in [N -> A], NEW F \in [N \X A -> A]
    PROVE  \E h \in [N -> A] : Computes(h, N, f, base, start, F)
<1> USE DEF Descends
<1> DEFINE Ok(h, m) == RightBelow(h, N, A, size, f, base, start, F, m)
           R(h, n) == Rule(h, f, base, start, F, n)
<1>1. \A h, m : Ok(h, m) <=> h \in [N -> A] /\ \A n \in N : size[n] < m => h[n] = R(h, n)
  BY DEF RightBelow
<1>2. \A h \in [N -> A], n \in N : R(h, n) \in A
  BY DEF Rule
<1>3. \A g, h, n : n \in base \/ g[f[n]] = h[f[n]] => R(g, n) = R(h, n)
  BY DEF Rule
<1>4. \A n \in N : size[n] \in Nat
  OBVIOUS
<1> HIDE DEF Ok, R
\* Two functions that are right below m agree there.
<1> DEFINE Agree == {m \in Nat : \A g, h : Ok(g, m) /\ Ok(h, m) =>
                        \A n \in N : size[n] < m => g[n] = h[n]}
<1>5. Nat \subseteq Agree
  <2>1. 0 \in Agree
    BY <1>4
  <2>2. ASSUME NEW m \in Nat, m \in Agree PROVE m + 1 \in Agree
    <3> SUFFICES ASSUME NEW g, NEW h, Ok(g, m + 1), Ok(h, m + 1), NEW n \in N, size[n] < m + 1
                 PROVE  g[n] = h[n]
      BY <2>2
    <3>1. Ok(g, m) /\ Ok(h, m)
      <4>1. \A k \in N : size[k] < m => size[k] < m + 1
        BY <1>4
      <4> QED  BY <1>1, <4>1
    <3>2. \A k \in N : size[k] < m => g[k] = h[k]
      BY <2>2, <3>1
    <3>3. n \in base \/ g[f[n]] = h[f[n]]
      <4> SUFFICES ASSUME n \notin base PROVE g[f[n]] = h[f[n]]
        OBVIOUS
      <4>1. f[n] \in N /\ size[f[n]] < size[n]
        OBVIOUS
      <4>2. size[f[n]] < m
        BY <1>4, <4>1
      <4> QED  BY <3>2, <4>1, <4>2
    <3>4. g[n] = R(g, n) /\ h[n] = R(h, n)
      BY <1>1
    <3>5. R(g, n) = R(h, n)
      BY <1>3, <3>3
    <3> QED  BY <3>4, <3>5
  <2> HIDE DEF Agree
  <2> QED  BY <2>1, <2>2, Inductive
\* For each m there is a function that is right below m.
<1> DEFINE Exists == {m \in Nat : \E h : Ok(h, m)}
<1>6. Nat \subseteq Exists
  <2>1. 0 \in Exists
    <3>1. Ok(start, 0)
      BY <1>1, <1>4
    <3> QED  BY <3>1
  <2>2. ASSUME NEW m \in Nat, m \in Exists PROVE m + 1 \in Exists
    <3>1. PICK h : Ok(h, m)
      BY <2>2
    <3> DEFINE g == [n \in N |-> R(h, n)]
    <3>2. g \in [N -> A] /\ \A n \in N : g[n] = R(h, n)
      BY <1>1, <1>2, <3>1
    <3> HIDE DEF g
    <3>3. \A n \in N : size[n] < m => g[n] = h[n]
      BY <1>1, <3>1, <3>2
    <3>4. ASSUME NEW n \in N, size[n] < m + 1 PROVE g[n] = R(g, n)
      <4>1. n \in base \/ g[f[n]] = h[f[n]]
        <5> SUFFICES ASSUME n \notin base PROVE g[f[n]] = h[f[n]]
          OBVIOUS
        <5>1. f[n] \in N /\ size[f[n]] < size[n]
          OBVIOUS
        <5>2. size[f[n]] < m
          BY <1>4, <3>4, <5>1
        <5> QED  BY <3>3, <5>1, <5>2
      <4>2. R(g, n) = R(h, n)
        BY <1>3, <4>1
      <4> QED  BY <3>2, <4>2
    <3>5. Ok(g, m + 1)
      BY <1>1, <3>2, <3>4
    <3> QED  BY <3>5
  <2> HIDE DEF Exists
  <2> QED  BY <2>1, <2>2, Inductive
<1> DEFINE H(m) == CHOOSE h : Ok(h, m)
           g == [n \in N |-> H(size[n] + 1)[n]]
<1>7. \A m \in Nat : Ok(H(m), m)
  BY <1>6
<1> HIDE DEF H, Exists
<1>8. g \in [N -> A]
  <2>1. \A n \in N : size[n] + 1 \in Nat
    BY <1>4
  <2>2. \A n \in N : H(size[n] + 1) \in [N -> A]
    BY <1>1, <1>7, <2>1
  <2>3. \A n \in N : H(size[n] + 1)[n] \in A
    BY <2>2
  <2> QED  BY <2>3
<1>9. \A n \in N : g[n] = H(size[n] + 1)[n]
  OBVIOUS
<1> HIDE DEF g
<1>10. ASSUME NEW n \in N PROVE g[n] = R(g, n)
  <2> DEFINE h == H(size[n] + 1)
  <2>1. size[n] + 1 \in Nat /\ size[n] < size[n] + 1
    BY <1>4
  <2>2. Ok(h, size[n] + 1)
    BY <1>7, <2>1
  <2>3. g[n] = R(h, n)
    BY <1>1, <1>9, <2>1, <2>2
  <2>4. n \in base \/ g[f[n]] = h[f[n]]
    <3> SUFFICES ASSUME n \notin base PROVE g[f[n]] = h[f[n]]
      OBVIOUS
    <3> DEFINE k == f[n]
    <3>1. k \in N /\ size[k] < size[n]
      OBVIOUS
    <3> HIDE DEF k, h
    <3>2. size[k] + 1 \in Nat /\ size[k] < size[k] + 1
          /\ \A l \in N : size[l] < size[k] + 1 => size[l] < size[n] + 1
      BY <1>4, <3>1
    <3>3. Ok(H(size[k] + 1), size[k] + 1)
      BY <1>7, <3>2
    <3>4. Ok(h, size[k] + 1)
      BY <1>1, <2>2, <3>2
    <3>5. H(size[k] + 1)[k] = h[k]
      BY <1>5, <3>1, <3>2, <3>3, <3>4
    <3>6. g[k] = h[k]
      BY <1>9, <3>1, <3>5
    <3> QED  BY <3>6 DEF k
  <2>5. R(g, n) = R(h, n)
    BY <1>3, <2>4
  <2> QED  BY <2>3, <2>5
<1> QED  BY <1>8, <1>10 DEF R, Computes

-----------------------------------------------------------------------------
(* The trie *)

Trie(S) ==
    /\ S \subseteq Strs /\ <<>> \in S
    /\ \A s \in Strs, c \in DOMAIN Fold : Append(s, c) \in S => s \in S

LEMMA FoldedIs ==
    ASSUME NEW s \in Strs
    PROVE  /\ Aho!onCharCode(s) \in Strs /\ Len(Aho!onCharCode(s)) = Len(s)
           /\ \A k \in 1 .. Len(s) : Aho!onCharCode(s)[k] = Fold[s[k]]
<1> DEFINE n == Len(s)
           t == [k \in 1 .. n |-> Fold[s[k]]]
<1>1. n \in Nat /\ DOMAIN s = 1 .. n /\ \A k \in 1 .. n : s[k] \in DOMAIN Fold
  BY DEF Strs
<1>2. Aho!onCharCode(s) = t
  BY <1>1 DEF Aho!onCharCode
<1> HIDE DEF n
<1>3. \A k \in 1 .. n : Fold[s[k]] \in DOMAIN Fold
  BY <1>1, SearchAssumption
<1>4. t \in Seq(DOMAIN Fold) /\ Len(t) = n /\ \A k \in 1 .. n : t[k] = Fold[s[k]]
  BY <1>1, <1>3
<1> QED  BY <1>2, <1>4 DEF Strs, n

Paths(P) == {Aho!Root} \cup UNION {Aho!PathTo(Aho!onCharCode(w)) : w \in P}

\* What is read along the paths to some strings is a trie.
LEMMA PathsTrie ==
    ASSUME NEW P, P \subseteq Words
    PROVE  Trie(Paths(P)) /\ \A w \in P : Aho!onCharCode(w) \in Paths(P)
<1>1. \A w \in P : w \in Strs /\ Aho!onCharCode(w) \in Strs
  BY SearchAssumption, FoldedIs DEF Strs
<1>2. Aho!Root = <<>>
  BY DEF Aho!Root
<1>3. ASSUME NEW f \in Strs
      PROVE  /\ \A k \in 0 .. Len(f) : SubSeq(f, 1, k) \in Strs /\ Len(SubSeq(f, 1, k)) = k
             /\ \A k \in 0 .. Len(f) : \A x \in 1 .. k : SubSeq(f, 1, k)[x] = f[x]
             /\ SubSeq(f, 1, Len(f)) = f /\ Len(f) \in Nat
  <2>1. f \in Seq(DOMAIN Fold) /\ Len(f) \in Nat
    BY DEF Strs
  <2>2. ASSUME NEW k \in 0 .. Len(f)
        PROVE  /\ SubSeq(f, 1, k) \in Strs /\ Len(SubSeq(f, 1, k)) = k
               /\ \A x \in 1 .. k : SubSeq(f, 1, k)[x] = f[x]
    <3>1. k \in Int /\ 1 \in Int /\ \A x \in 1 .. k : f[x] \in DOMAIN Fold
      BY <2>1
    <3>2. /\ SubSeq(f, 1, k) \in Seq(DOMAIN Fold)
          /\ Len(SubSeq(f, 1, k)) = IF 1 <= k THEN k - 1 + 1 ELSE 0
          /\ \A x \in 1 .. k - 1 + 1 : SubSeq(f, 1, k)[x] = f[1 + x - 1]
      BY <3>1, SubSeqProperties
    <3>3. Len(SubSeq(f, 1, k)) = k /\ \A x \in 1 .. k : SubSeq(f, 1, k)[x] = f[x]
      BY <2>1, <3>2
    <3> QED  BY <3>2, <3>3 DEF Strs
  <2>3. SubSeq(f, 1, Len(f)) = f
    BY <2>1, SubSeqFull
  <2> QED  BY <2>1, <2>2, <2>3
<1>p. ASSUME NEW f \in Strs, NEW s \in Strs, NEW c \in DOMAIN Fold, NEW k \in 0 .. Len(f),
             Append(s, c) = SubSeq(f, 1, k)
      PROVE  k - 1 \in 0 .. Len(f) /\ s = SubSeq(f, 1, k - 1)
  <2>1. s \in Seq(DOMAIN Fold) /\ Len(s) \in Nat /\ Len(Append(s, c)) = Len(s) + 1
        /\ \A x \in 1 .. Len(s) : Append(s, c)[x] = s[x]
    BY DEF Strs
  <2>2. k = Len(s) + 1 /\ k - 1 \in 0 .. Len(f) /\ k - 1 = Len(s)
    BY <1>3, <1>p, <2>1
  <2>3. \A x \in 1 .. Len(s) : SubSeq(f, 1, k)[x] = f[x] /\ SubSeq(f, 1, k - 1)[x] = f[x]
    BY <1>3, <2>1, <2>2
  <2>4. SubSeq(f, 1, k - 1) \in Seq(DOMAIN Fold) /\ Len(SubSeq(f, 1, k - 1)) = Len(s)
    BY <1>3, <2>2 DEF Strs
  <2>5. \A x \in 1 .. Len(s) : SubSeq(f, 1, k - 1)[x] = s[x]
    BY <1>p, <2>1, <2>3
  <2> QED  BY <2>1, <2>2, <2>4, <2>5, SeqEqual
<1>4. Paths(P) \subseteq Strs
  <2>1. <<>> \in Strs
    BY DEF Strs
  <2>2. \A w \in P : Aho!PathTo(Aho!onCharCode(w)) \subseteq Strs
    <3> SUFFICES ASSUME NEW w \in P, NEW k \in 0 .. Len(Aho!onCharCode(w))
                 PROVE  SubSeq(Aho!onCharCode(w), 1, k) \in Strs
      BY DEF Aho!PathTo
    <3> DEFINE f == Aho!onCharCode(w)
    <3>1. f \in Strs /\ k \in 0 .. Len(f)
      BY <1>1
    <3> HIDE DEF f
    <3>2. SubSeq(f, 1, k) \in Strs
      BY <1>3, <3>1
    <3> QED  BY <3>2 DEF f
  <2> QED  BY <1>2, <2>1, <2>2 DEF Paths
<1>5. <<>> \in Paths(P)
  BY <1>2 DEF Paths
<1>6. ASSUME NEW s \in Strs, NEW c \in DOMAIN Fold, Append(s, c) \in Paths(P)
      PROVE  s \in Paths(P)
  <2>1. Append(s, c) # <<>>
    <3> DEFINE t == Append(s, c)
    <3>1. s \in Seq(DOMAIN Fold)
      BY DEF Strs
    <3>2. Len(t) = Len(s) + 1 /\ Len(s) \in Nat
      BY <3>1
    <3> HIDE DEF t
    <3>3. t # <<>>
      BY <3>2
    <3> QED  BY <3>3 DEF t
  <2>2. PICK w \in P : Append(s, c) \in Aho!PathTo(Aho!onCharCode(w))
    BY <1>2, <1>6, <2>1 DEF Paths
  <2> DEFINE f == Aho!onCharCode(w)
  <2>3. PICK k \in 0 .. Len(f) : Append(s, c) = SubSeq(f, 1, k)
    BY <2>2 DEF Aho!PathTo
  <2>4. f \in Strs
    BY <1>1
  <2> HIDE DEF f
  <2>5. k - 1 \in 0 .. Len(f) /\ s = SubSeq(f, 1, k - 1)
    BY <1>p, <2>3, <2>4
  <2>6. s \in Aho!PathTo(f)
    BY <2>5 DEF Aho!PathTo
  <2> QED  BY <2>6 DEF Paths, f
<1>7. ASSUME NEW w \in P PROVE Aho!onCharCode(w) \in Paths(P)
  <2> DEFINE f == Aho!onCharCode(w)
  <2>1. f \in Strs
    BY <1>1
  <2> HIDE DEF f
  <2>2. SubSeq(f, 1, Len(f)) = f /\ Len(f) \in 0 .. Len(f)
    BY <1>3, <2>1
  <2>3. f \in Aho!PathTo(f)
    BY <2>2 DEF Aho!PathTo
  <2> QED  BY <2>3 DEF Paths, f
<1> QED  BY <1>4, <1>5, <1>6, <1>7 DEF Trie

-----------------------------------------------------------------------------
(* A step *)

\* Up to length l, a pointer of f leads to a suffix of its node that is shorter, in the
\* trie; to the longest one.
Links(f, l) ==
    \A k \in nodes : k # <<>> /\ Len(k) <= l =>
        f[k] \in nodes /\ Suffix(f[k], k) /\ Len(f[k]) < Len(k)
Tight(f, l) ==
    \A k \in nodes : k # <<>> /\ Len(k) <= l =>
        \A q \in nodes : Suffix(q, k) /\ q # k => Suffix(q, f[k])

\* Of the suffixes of s in the trie, m is the longest.
Longest(m, s) ==
    m \in nodes /\ Suffix(m, s) /\ \A q \in nodes : Suffix(q, s) => Suffix(q, m)

\* The search for a node with a child.
LEMMA UpRule ==
    ASSUME Trie(nodes), NEW f, NEW n \in nodes, NEW c \in DOMAIN Fold, Links(f, Len(n))
    PROVE  LET up == Aho!Up(f, n, c)
           IN  \A k \in nodes : Len(k) <= Len(n) =>
                  up[k] = IF k = <<>> \/ Append(k, c) \in nodes THEN k ELSE up[f[k]]
<1> DEFINE N == {m \in nodes : Len(m) <= Len(n)}
           base == {k \in N : k = <<>> \/ Append(k, c) \in nodes}
           size == [k \in N |-> Len(k)]
           start == [k \in N |-> k]
           F == [x \in N \X N |-> x[2]]
           up == Aho!Up(f, n, c)
           Table(h) == [k \in N |-> IF k = <<>> \/ Append(k, c) \in nodes THEN k ELSE h[f[k]]]
<1>1. \A k \in nodes : Len(k) \in Nat
  BY DEF Trie, Strs
<1>2. size \in [N -> Nat] /\ start \in [N -> N] /\ F \in [N \X N -> N]
  BY <1>1
<1>3. \A k \in N : k \notin base => f[k] \in N /\ size[f[k]] < size[k]
  <2> SUFFICES ASSUME NEW k \in N, k \notin base PROVE f[k] \in N /\ size[f[k]] < size[k]
    OBVIOUS
  <2>1. k \in nodes /\ Len(k) <= Len(n) /\ k # <<>>
    OBVIOUS
  <2>2. f[k] \in nodes /\ Len(f[k]) < Len(k)
    BY <2>1 DEF Links
  <2>3. f[k] \in N
    BY <1>1, <2>1, <2>2
  <2> QED  BY <2>2, <2>3
<1>4. \A k \in N : (k \in base => start[k] = k) /\ (k \notin base => \A a \in N : F[<<k, a>>] = a)
  OBVIOUS
<1>5. \A k \in N : k \in base <=> k = <<>> \/ Append(k, c) \in nodes
  OBVIOUS
<1>6. up = CHOOSE h : h = Table(h)
  BY DEF Aho!Up, Aho!Root
<1> HIDE DEF size, start, F, base, up
<1>7. PICK h \in [N -> N] : \A k \in N : h[k] = Rule(h, f, base, start, F, k)
  <2> HIDE DEF N, Table
  <2>1. Descends(N, size, f, base)
    BY <1>2, <1>3 DEF Descends
  <2>2. \E h \in [N -> N] : Computes(h, N, f, base, start, F)
    BY <1>2, <2>1, Descent
  <2> QED  BY <2>2 DEF Computes
<1>8. h = Table(h)
  <2>1. ASSUME NEW k \in N
        PROVE  h[k] = IF k = <<>> \/ Append(k, c) \in nodes THEN k ELSE h[f[k]]
    <3>1. CASE k \in base
      BY <1>4, <1>5, <1>7, <3>1 DEF Rule
    <3>2. CASE k \notin base
      <4>1. h[f[k]] \in N
        BY <1>3, <1>7, <3>2
      <4>2. h[k] = F[<<k, h[f[k]]>>]
        BY <1>7, <3>2 DEF Rule
      <4>3. h[k] = h[f[k]]
        BY <1>4, <3>2, <4>1, <4>2
      <4> QED  BY <1>5, <3>2, <4>3
    <3> QED  BY <3>1, <3>2
  <2> HIDE DEF N
  <2> QED  BY <2>1
<1>9. up = Table(up)
  <2> HIDE DEF Table
  <2> QED  BY <1>6, <1>8
<1>10. \A k \in N : up[k] = IF k = <<>> \/ Append(k, c) \in nodes THEN k ELSE up[f[k]]
  <2> HIDE DEF N
  <2> QED  BY <1>9
<1> QED  BY <1>10 DEF up

LEMMA UpIs ==
    ASSUME Trie(nodes), NEW f, NEW n \in nodes, NEW c \in DOMAIN Fold, Links(f, Len(n))
    PROVE  LET u == Aho!Up(f, n, c)[n]
           IN  /\ u \in nodes /\ Suffix(u, n) /\ (u = <<>> \/ Append(u, c) \in nodes)
               /\ Tight(f, Len(n)) =>
                     \A q \in nodes : Suffix(q, n) /\ Append(q, c) \in nodes => Suffix(q, u)
<1> DEFINE up == Aho!Up(f, n, c)
           Good(k) ==
              /\ up[k] \in nodes /\ Suffix(up[k], k)
              /\ up[k] = <<>> \/ Append(up[k], c) \in nodes
              /\ Tight(f, Len(n)) =>
                    \A q \in nodes : Suffix(q, k) /\ Append(q, c) \in nodes => Suffix(q, up[k])
           S == {m \in Nat : \A k \in nodes : Len(k) < m /\ Len(k) <= Len(n) => Good(k)}
<1>0. /\ \A k \in nodes : Len(k) \in Nat /\ k \in Seq(DOMAIN Fold)
      /\ \A k \in nodes : Len(k) <= Len(n) =>
            up[k] = IF k = <<>> \/ Append(k, c) \in nodes THEN k ELSE up[f[k]]
  BY UpRule DEF Trie, Strs
<1> HIDE DEF up
<1>1. 0 \in S
  BY <1>0
<1>2. ASSUME NEW m \in Nat, m \in S PROVE m + 1 \in S
  <2> SUFFICES ASSUME NEW k \in nodes, Len(k) < m + 1, Len(k) <= Len(n) PROVE Good(k)
    OBVIOUS
  <2>1. CASE k = <<>> \/ Append(k, c) \in nodes
    <3>1. up[k] = k
      BY <1>0, <2>1
    <3>2. Suffix(k, k)
      BY <1>0, SuffixOrder
    <3> QED  BY <2>1, <3>1, <3>2
  <2>2. CASE k # <<>> /\ Append(k, c) \notin nodes
    <3>1. up[k] = up[f[k]]
      BY <1>0, <2>2
    <3>2. f[k] \in nodes /\ Suffix(f[k], k) /\ Len(f[k]) < Len(k)
      BY <2>2 DEF Links
    <3>3. Len(f[k]) < m /\ Len(f[k]) <= Len(n)
      BY <1>0, <3>2
    <3>4. Good(f[k])
      BY <1>2, <3>2, <3>3
    <3>5. Suffix(up[k], k)
      <4>1. up[k] \in nodes /\ Suffix(up[k], f[k])
        BY <3>1, <3>4
      <4> HIDE DEF Good
      <4> QED  BY <1>0, <3>2, <4>1, SuffixOrder
    <3>6. ASSUME Tight(f, Len(n)), NEW q \in nodes, Suffix(q, k), Append(q, c) \in nodes
          PROVE  Suffix(q, up[k])
      <4>1. q # k
        BY <2>2, <3>6
      <4>2. Suffix(q, f[k])
        BY <2>2, <3>6, <4>1 DEF Tight
      <4> QED  BY <3>1, <3>4, <3>6, <4>2
    <3>7. up[k] \in nodes /\ (up[k] = <<>> \/ Append(up[k], c) \in nodes)
      BY <3>1, <3>4
    <3> QED  BY <3>5, <3>6, <3>7
  <2> QED  BY <2>1, <2>2
<1>3. Len(n) + 1 \in S
  <2>1. Len(n) + 1 \in Nat
    BY <1>0
  <2> HIDE DEF S
  <2> QED  BY <1>1, <1>2, <2>1, Inductive
<1>4. Good(n)
  <2>1. Len(n) < Len(n) + 1 /\ Len(n) <= Len(n)
    BY <1>0
  <2> HIDE DEF Good
  <2> QED  BY <1>3, <2>1
<1> QED  BY <1>4 DEF up

\* A string in the trie that is not empty, its last character and what is before it.
LEMMA NodeIs ==
    ASSUME Trie(nodes), NEW n \in nodes
    PROVE  /\ n \in Seq(DOMAIN Fold) /\ n \in Strs /\ Len(n) \in Nat
           /\ (Len(n) = 0 <=> n = <<>>)
           /\ n # <<>> => /\ Aho!Front(n) \in nodes /\ Aho!Last(n) \in DOMAIN Fold
                          /\ n = Append(Aho!Front(n), Aho!Last(n))
                          /\ Len(Aho!Front(n)) = Len(n) - 1
<1>1. n \in Seq(DOMAIN Fold) /\ n \in Strs
  BY DEF Trie, Strs
<1>2. Len(n) \in Nat /\ (Len(n) = 0 <=> n = <<>>)
  BY <1>1, EmptySeq
<1>3. n # <<>> => /\ Aho!Front(n) \in nodes /\ Aho!Last(n) \in DOMAIN Fold
                  /\ n = Append(Aho!Front(n), Aho!Last(n))
                  /\ Len(Aho!Front(n)) = Len(n) - 1
  <2> SUFFICES ASSUME n # <<>>
               PROVE  /\ Aho!Front(n) \in nodes /\ Aho!Last(n) \in DOMAIN Fold
                      /\ n = Append(Aho!Front(n), Aho!Last(n))
                      /\ Len(Aho!Front(n)) = Len(n) - 1
    OBVIOUS
  <2>1. /\ Aho!Front(n) \in Strs /\ Aho!Last(n) \in DOMAIN Fold
        /\ n = Append(Aho!Front(n), Aho!Last(n))
        /\ Len(Aho!Front(n)) = Len(n) - 1
    BY <1>1, LastOf DEF Strs
  <2>2. Aho!Front(n) \in nodes
    BY <2>1 DEF Trie
  <2> QED  BY <2>1, <2>2
<1> QED  BY <1>1, <1>2, <1>3

LEMMA StepIs ==
    ASSUME Trie(nodes), NEW f, NEW n \in nodes, NEW c \in DOMAIN Fold, Links(f, Len(n))
    PROVE  LET m == Aho!Step(f, n, c)
           IN  /\ m \in nodes /\ Suffix(m, Append(n, c))
               /\ Tight(f, Len(n)) => Longest(m, Append(n, c))
<1> DEFINE C == DOMAIN Fold
           u == Aho!Up(f, n, c)[n]
           m == Aho!Step(f, n, c)
           t == Append(n, c)
<1>1. /\ u \in nodes /\ Suffix(u, n) /\ (u = <<>> \/ Append(u, c) \in nodes)
      /\ Tight(f, Len(n)) =>
            \A q \in nodes : Suffix(q, n) /\ Append(q, c) \in nodes => Suffix(q, u)
  BY UpIs
<1>2. m = IF Append(u, c) \in nodes THEN Append(u, c) ELSE <<>>
  BY DEF Aho!Step, Aho!Root
<1> HIDE DEF u, m
<1>3. <<>> \in nodes /\ \A k \in nodes : k \in Seq(C)
  BY DEF Trie, Strs
<1>4. t \in Seq(C) /\ Suffix(<<>>, t) /\ \A k \in nodes : Suffix(<<>>, k)
  <2>1. t \in Seq(C)
    BY <1>3
  <2> HIDE DEF t
  <2> QED  BY <1>3, <2>1, SuffixOrder
<1>5. Suffix(Append(u, c), t)
  BY <1>1, <1>3, SuffixAppend
\* Another suffix in the trie is a suffix of n with c after it.
<1>6. ASSUME NEW q \in nodes, Suffix(q, t), q # <<>>
      PROVE  \E b \in nodes : q = Append(b, c) /\ Suffix(b, n)
  <2> DEFINE a == Aho!Front(q)
             d == Aho!Last(q)
  <2>1. a \in nodes /\ d \in C /\ q = Append(a, d)
    BY <1>6, NodeIs
  <2> HIDE DEF a, d
  <2>2. a \in Seq(C) /\ n \in Seq(C)
    BY <1>3, <2>1
  <2>3. Suffix(Append(a, d), Append(n, c))
    BY <1>6, <2>1
  <2>4. Suffix(a, n) /\ d = c
    BY <2>1, <2>2, <2>3, SuffixAppend
  <2> QED  BY <2>1, <2>4
<1>7. CASE Append(u, c) \in nodes
  <2>1. m = Append(u, c)
    BY <1>2, <1>7
  <2>2. ASSUME Tight(f, Len(n)), NEW q \in nodes, Suffix(q, t) PROVE Suffix(q, m)
    <3>1. CASE q = <<>>
      BY <1>4, <1>7, <2>1, <3>1
    <3>2. CASE q # <<>>
      <4>1. PICK a \in nodes : q = Append(a, c) /\ Suffix(a, n)
        BY <1>6, <2>2, <3>2
      <4>2. Suffix(a, u)
        BY <1>1, <2>2, <4>1
      <4>3. a \in Seq(C) /\ u \in Seq(C)
        BY <1>1, <1>3
      <4>4. Suffix(Append(a, c), Append(u, c))
        BY <4>2, <4>3, SuffixAppend
      <4> QED  BY <2>1, <4>1, <4>4
    <3> QED  BY <3>1, <3>2
  <2> HIDE DEF t
  <2> QED  BY <1>5, <1>7, <2>1, <2>2 DEF Longest, t, m
<1>8. CASE Append(u, c) \notin nodes
  <2>1. m = <<>> /\ u = <<>>
    BY <1>1, <1>2, <1>8
  <2>2. ASSUME Tight(f, Len(n)), NEW q \in nodes, Suffix(q, t) PROVE Suffix(q, m)
    <3>1. CASE q = <<>>
      BY <1>3, <1>4, <2>1, <3>1
    <3>2. CASE q # <<>>
      <4>1. PICK a \in nodes : q = Append(a, c) /\ Suffix(a, n)
        BY <1>6, <2>2, <3>2
      <4>2. Suffix(a, <<>>)
        BY <1>1, <2>1, <2>2, <4>1
      <4>3. a = <<>>
        <5>1. Len(a) <= 0 /\ Len(a) \in Nat /\ (Len(a) = 0 <=> a = <<>>)
          BY <4>2, NodeIs DEF Suffix
        <5> QED  BY <5>1
      <4> QED  BY <1>8, <2>1, <4>1, <4>3
    <3> QED  BY <3>1, <3>2
  <2> HIDE DEF t
  <2> QED  BY <1>3, <1>4, <2>1, <2>2 DEF Longest, t, m
<1> QED  BY <1>7, <1>8

\* Reading one more character after s.
LEMMA LongestAppend ==
    ASSUME Trie(nodes), NEW s \in Strs, NEW c \in DOMAIN Fold, NEW n \in nodes, NEW m \in nodes
    PROVE  /\ Suffix(n, s) /\ Suffix(m, Append(n, c)) => Suffix(m, Append(s, c))
           /\ Longest(n, s) /\ Longest(m, Append(n, c)) => Longest(m, Append(s, c))
<1> DEFINE C == DOMAIN Fold
           sc == Append(s, c)
           nc == Append(n, c)
<1>1. /\ \A k \in nodes : k \in Seq(C)
      /\ n \in Seq(C) /\ m \in Seq(C) /\ s \in Seq(C) /\ sc \in Seq(C) /\ nc \in Seq(C)
  BY DEF Trie, Strs
<1>2. ASSUME Suffix(n, s), Suffix(m, nc) PROVE Suffix(m, sc)
  <2>1. Suffix(nc, sc)
    BY <1>1, <1>2, SuffixAppend
  <2> HIDE DEF nc, sc
  <2> QED  BY <1>1, <1>2, <2>1, SuffixOrder
<1>3. ASSUME Longest(n, s), Longest(m, nc) PROVE Longest(m, sc)
  <2>1. Suffix(m, sc)
    BY <1>2, <1>3 DEF Longest
  <2>2. ASSUME NEW q \in nodes, Suffix(q, sc) PROVE Suffix(q, m)
    <3>1. CASE q = <<>>
      BY <1>1, <3>1, SuffixOrder
    <3>2. CASE q # <<>>
      <4> DEFINE a == Aho!Front(q)
                 d == Aho!Last(q)
      <4>1. a \in nodes /\ d \in C /\ q = Append(a, d)
        BY <3>2, NodeIs
      <4> HIDE DEF a, d
      <4>2. a \in Seq(C)
        BY <1>1, <4>1
      <4>3. Suffix(a, s) /\ d = c
        <5>1. Suffix(Append(a, d), Append(s, c))
          BY <2>2, <4>1
        <5> QED  BY <1>1, <4>1, <4>2, <5>1, SuffixAppend
      <4>4. Suffix(a, n)
        BY <1>3, <4>1, <4>3 DEF Longest
      <4>5. Suffix(q, nc)
        <5>1. Suffix(Append(a, c), Append(n, c))
          BY <1>1, <4>2, <4>4, SuffixAppend
        <5> QED  BY <4>1, <4>3, <5>1
      <4> HIDE DEF nc
      <4> QED  BY <1>3, <4>5 DEF Longest
    <3> QED  BY <3>1, <3>2
  <2> HIDE DEF sc
  <2> QED  BY <2>1, <2>2 DEF Longest
<1> QED  BY <1>2, <1>3

-----------------------------------------------------------------------------
(* Building *)

\* Of the suffixes of n in the trie other than n, m is the longest.
LongestBelow(m, n) ==
    /\ m \in nodes /\ Suffix(m, n) /\ m # n
    /\ \A q \in nodes : Suffix(q, n) /\ q # n => Suffix(q, m)

LEMMA BelowIs ==
    ASSUME Trie(nodes), NEW n \in nodes, n # <<>>
    PROVE  /\ \E m : LongestBelow(m, n)
           /\ \A m, k : LongestBelow(m, n) /\ LongestBelow(k, n) => m = k
           /\ \A m : LongestBelow(m, n) => Len(m) < Len(n)
<1> DEFINE D == {d \in Nat : \E m \in nodes : Suffix(m, n) /\ m # n /\ d = Len(n) - Len(m)}
<1>1. /\ \A k \in nodes : k \in Seq(DOMAIN Fold) /\ Len(k) \in Nat
      /\ <<>> \in nodes /\ Suffix(<<>>, n) /\ Len(<<>>) = 0
  BY NodeIs, SuffixOrder DEF Trie
<1>2. \A m \in nodes : Suffix(m, n) /\ m # n => Len(m) < Len(n)
  <2> SUFFICES ASSUME NEW m \in nodes, Suffix(m, n), m # n PROVE Len(m) < Len(n)
    OBVIOUS
  <2>1. Len(m) # Len(n)
    BY <1>1, SuffixOrder
  <2> QED  BY <1>1, <2>1 DEF Suffix
<1>3. \E m : LongestBelow(m, n)
  <2>1. Len(n) - 0 \in D
    BY <1>1
  <2>2. PICK e \in D : \A d \in D : e <= d
    <3> HIDE DEF D
    <3>1. D \subseteq Nat
      BY DEF D
    <3> QED  BY <2>1, <3>1, Least
  <2>3. PICK m \in nodes : Suffix(m, n) /\ m # n /\ e = Len(n) - Len(m)
    OBVIOUS
  <2>4. ASSUME NEW q \in nodes, Suffix(q, n), q # n PROVE Suffix(q, m)
    <3>1. Len(n) - Len(q) \in Nat
      BY <1>1, <1>2, <2>4
    <3>2. Len(n) - Len(q) \in D
      BY <2>4, <3>1
    <3>3. Len(q) <= Len(m)
      <4>1. e <= Len(n) - Len(q)
        BY <2>2, <3>2
      <4> QED  BY <1>1, <2>3, <4>1
    <3> QED  BY <1>1, <2>3, <2>4, <3>3, SuffixOrder
  <2> QED  BY <2>3, <2>4 DEF LongestBelow
<1>4. ASSUME NEW m, NEW k, LongestBelow(m, n), LongestBelow(k, n) PROVE m = k
  <2>1. m \in nodes /\ k \in nodes /\ Suffix(m, k) /\ Suffix(k, m)
    BY <1>4 DEF LongestBelow
  <2>2. Len(m) = Len(k)
    BY <1>1, <2>1 DEF Suffix
  <2> QED  BY <1>1, <2>1, <2>2, SuffixOrder
<1> QED  BY <1>2, <1>3, <1>4 DEF LongestBelow

\* If f has the longest suffixes of all shorter nodes, a step from the pointer of what is
\* before the last character leads to that of the node.
LEMMA FailStep ==
    ASSUME Trie(nodes), NEW f, NEW n \in nodes, Len(n) > 1,
           \A k \in nodes : k # <<>> /\ Len(k) < Len(n) => LongestBelow(f[k], k)
    PROVE  LongestBelow(Aho!Step(f, f[Aho!Front(n)], Aho!Last(n)), n)
<1> DEFINE C == DOMAIN Fold
           x == Aho!Front(n)
           c == Aho!Last(n)
           g == f[x]
           m == Aho!Step(f, g, c)
<1>1. n # <<>> /\ \A k \in nodes : k \in Seq(C) /\ Len(k) \in Nat /\ (Len(k) = 0 <=> k = <<>>)
  BY NodeIs
<1>2. x \in nodes /\ c \in C /\ n = Append(x, c) /\ Len(x) = Len(n) - 1
  BY <1>1, NodeIs
<1> HIDE DEF x, c
<1>3. x # <<>> /\ LongestBelow(g, x) /\ Len(g) < Len(x)
  <2>1. x # <<>> /\ Len(x) < Len(n)
    BY <1>1, <1>2
  <2>2. LongestBelow(g, x)
    BY <1>2, <2>1
  <2> QED  BY <1>2, <2>1, <2>2, BelowIs
<1> HIDE DEF g
<1>4. g \in nodes /\ Suffix(g, x)
  BY <1>3 DEF LongestBelow
<1>5. Links(f, Len(g)) /\ Tight(f, Len(g))
  <2> SUFFICES ASSUME NEW k \in nodes, k # <<>>, Len(k) <= Len(g)
               PROVE  /\ f[k] \in nodes /\ Suffix(f[k], k) /\ Len(f[k]) < Len(k)
                      /\ \A q \in nodes : Suffix(q, k) /\ q # k => Suffix(q, f[k])
    BY DEF Links, Tight
  <2>1. Len(k) < Len(n)
    BY <1>1, <1>2, <1>3, <1>4
  <2>2. LongestBelow(f[k], k)
    BY <2>1
  <2> QED  BY <2>2, BelowIs DEF LongestBelow
<1>6. m \in nodes /\ Suffix(m, Append(g, c)) /\ Longest(m, Append(g, c))
  BY <1>2, <1>4, <1>5, StepIs
<1> HIDE DEF m
<1>7. g \in Seq(C) /\ x \in Seq(C) /\ x \in Strs /\ m \in Seq(C)
  BY <1>1, <1>2, <1>4, <1>6 DEF Strs
<1>8. Suffix(m, n)
  BY <1>2, <1>4, <1>6, <1>7, LongestAppend
<1>9. m # n
  <2>1. Len(Append(g, c)) = Len(g) + 1 /\ Len(m) <= Len(Append(g, c))
    BY <1>2, <1>6, <1>7 DEF Suffix
  <2>2. Len(m) <= Len(g) + 1 /\ Len(m) \in Nat /\ Len(n) \in Nat /\ Len(g) \in Nat
    BY <1>1, <1>4, <1>6, <2>1
  <2> QED  BY <1>2, <1>3, <2>2
<1>10. ASSUME NEW q \in nodes, Suffix(q, n), q # n PROVE Suffix(q, m)
  <2>1. CASE q = <<>>
    BY <1>7, <2>1, SuffixOrder
  <2>2. CASE q # <<>>
    <3> DEFINE a == Aho!Front(q)
               d == Aho!Last(q)
    <3>1. a \in nodes /\ d \in C /\ q = Append(a, d)
      BY <2>2, NodeIs
    <3> HIDE DEF a, d
    <3>2. a \in Seq(C)
      BY <1>1, <3>1
    <3>3. Suffix(a, x) /\ d = c
      <4>1. Suffix(Append(a, d), Append(x, c))
        BY <1>2, <1>10, <3>1
      <4> QED  BY <1>2, <1>7, <3>1, <3>2, <4>1, SuffixAppend
    <3>4. a # x
      BY <1>2, <1>10, <3>1, <3>3
    <3>5. Suffix(a, g)
      BY <1>3, <3>1, <3>3, <3>4 DEF LongestBelow
    <3>6. Suffix(Append(a, c), Append(g, c))
      BY <1>2, <1>7, <3>2, <3>5, SuffixAppend
    <3> QED  BY <1>6, <3>1, <3>3, <3>6 DEF Longest
  <2> QED  BY <2>1, <2>2
<1> QED  BY <1>6, <1>8, <1>9, <1>10 DEF LongestBelow, m, g, x, c

\* build() finds the longest suffixes.
LEMMA FailPointersAre ==
    ASSUME Trie(nodes)
    PROVE  LET f == Aho!FailPointers
           IN  /\ f \in [nodes -> nodes] /\ f[<<>>] = <<>>
               /\ \A n \in nodes : n # <<>> => LongestBelow(f[n], n)
<1> DEFINE F == Aho!FailPointers
           Table(f) == [n \in nodes |-> IF Len(n) <= 1 THEN <<>>
                                        ELSE Aho!Step(f, f[Aho!Front(n)], Aho!Last(n))]
           h == [n \in nodes |-> IF n = <<>> THEN <<>> ELSE CHOOSE m : LongestBelow(m, n)]
<1>1. F = CHOOSE f : f = Table(f)
  BY DEF Aho!FailPointers, Aho!Root
<1> HIDE DEF F
<1>2. <<>> \in nodes /\ \A n \in nodes : Len(n) \in Nat /\ (Len(n) = 0 <=> n = <<>>)
  BY NodeIs DEF Trie
<1>3. \A n \in nodes : (n = <<>> => h[n] = <<>>) /\ (n # <<>> => LongestBelow(h[n], n))
  BY BelowIs
<1>4. ASSUME NEW m, NEW n \in nodes, Len(n) = 1, LongestBelow(m, n) PROVE m = <<>>
  <2>1. m \in nodes
    BY <1>4 DEF LongestBelow
  <2>2. Len(m) < Len(n)
    <3>1. n # <<>>
      BY <1>2, <1>4
    <3> QED  BY <1>4, <3>1, BelowIs
  <2>3. Len(m) = 0
    BY <1>2, <1>4, <2>1, <2>2
  <2> QED  BY <1>2, <2>1, <2>3
<1>5. ASSUME NEW n \in nodes, Len(n) = 1 PROVE LongestBelow(<<>>, n)
  <2>1. LongestBelow(h[n], n)
    BY <1>2, <1>3, <1>5
  <2> HIDE DEF h
  <2> QED  BY <1>4, <1>5, <2>1
<1>6. h = Table(h)
  <2>1. ASSUME NEW n \in nodes
        PROVE  h[n] = IF Len(n) <= 1 THEN <<>> ELSE Aho!Step(h, h[Aho!Front(n)], Aho!Last(n))
    <3> HIDE DEF h
    <3>1. CASE Len(n) = 0
      BY <1>2, <1>3, <3>1
    <3>2. CASE Len(n) = 1
      <4>1. h[n] = <<>>
        BY <1>2, <1>3, <1>4, <3>2
      <4> QED  BY <3>2, <4>1
    <3>3. CASE Len(n) > 1
      <4>1. LongestBelow(Aho!Step(h, h[Aho!Front(n)], Aho!Last(n)), n)
        BY <1>3, <3>3, FailStep
      <4>2. n # <<>> /\ LongestBelow(h[n], n)
        BY <1>2, <1>3, <3>3
      <4>3. h[n] = Aho!Step(h, h[Aho!Front(n)], Aho!Last(n))
        BY <4>1, <4>2, BelowIs
      <4> QED  BY <1>2, <3>3, <4>3
    <3> QED  BY <1>2, <3>1, <3>2, <3>3
  <2>2. h = [n \in nodes |-> h[n]]
    OBVIOUS
  <2> HIDE DEF h
  <2> QED  BY <2>1, <2>2
<1> HIDE DEF h
<1>7. F = Table(F)
  <2> HIDE DEF Table
  <2> QED  BY <1>1, <1>6
<1>8. \A n \in nodes : F[n] = IF Len(n) <= 1 THEN <<>>
                              ELSE Aho!Step(F, F[Aho!Front(n)], Aho!Last(n))
  BY <1>7
<1> DEFINE S == {m \in Nat : \A n \in nodes : n # <<>> /\ Len(n) < m => LongestBelow(F[n], n)}
<1>9. 0 \in S
  BY <1>2
<1>10. ASSUME NEW m \in Nat, m \in S PROVE m + 1 \in S
  <2> SUFFICES ASSUME NEW n \in nodes, n # <<>>, Len(n) < m + 1 PROVE LongestBelow(F[n], n)
    OBVIOUS
  <2>1. CASE Len(n) = 1
    <3>0. Len(n) <= 1
      BY <2>1
    <3>1. F[n] = <<>>
      BY <1>8, <3>0
    <3> QED  BY <1>5, <2>1, <3>1
  <2>2. CASE Len(n) > 1
    <3>1. F[n] = Aho!Step(F, F[Aho!Front(n)], Aho!Last(n))
      BY <1>2, <1>8, <2>2
    <3>2. \A k \in nodes : k # <<>> /\ Len(k) < Len(n) => LongestBelow(F[k], k)
      <4>1. \A k \in nodes : Len(k) < Len(n) => Len(k) < m
        BY <1>2
      <4> QED  BY <1>10, <4>1
    <3>3. LongestBelow(Aho!Step(F, F[Aho!Front(n)], Aho!Last(n)), n)
      BY <2>2, <3>2, FailStep
    <3> QED  BY <3>1, <3>3
  <2>3. Len(n) = 1 \/ Len(n) > 1
    <3>1. Len(n) \in Nat
      BY <1>2
    <3>2. Len(n) # 0
      BY <1>2, Zenon
    <3>3. \A l \in Nat : l # 0 => l = 1 \/ l > 1
      OBVIOUS
    <3> QED  BY <3>1, <3>2, <3>3
  <2> QED  BY <2>1, <2>2, <2>3
<1>11. \A n \in nodes : n # <<>> => LongestBelow(F[n], n)
  <2>1. Nat \subseteq S
    <3> HIDE DEF S
    <3> QED  BY <1>9, <1>10, Inductive
  <2> SUFFICES ASSUME NEW n \in nodes, n # <<>> PROVE LongestBelow(F[n], n)
    OBVIOUS
  <2>2. Len(n) + 1 \in S /\ Len(n) < Len(n) + 1
    BY <1>2, <2>1
  <2> QED  BY <2>2
<1>12. F[<<>>] = <<>>
  <2>1. Len(<<>>) <= 1
    BY <1>2
  <2> QED  BY <1>2, <1>8, <2>1
<1>13. F \in [nodes -> nodes]
  <2>1. \A n \in nodes : F[n] \in nodes
    BY <1>2, <1>11, <1>12 DEF LongestBelow
  <2>2. F = [n \in nodes |-> F[n]]
    BY <1>7
  <2> QED  BY <2>1, <2>2
<1> QED  BY <1>11, <1>12, <1>13 DEF F

\* What is reported at a node ends there; each pattern is reported at the end of its path.
Reported(P, N, out) ==
    /\ out \in [N -> SUBSET P]
    /\ \A n \in N : \A w \in out[n] : Suffix(Aho!onCharCode(w), n)
    /\ \A w \in P : w \in out[Aho!onCharCode(w)]
\* Every pattern that is not empty and ends at a node is reported there.
AllReported(P, N, out) ==
    \A n \in N, w \in P : w # <<>> /\ Suffix(Aho!onCharCode(w), n) => w \in out[n]

LEMMA MergedRule ==
    ASSUME Trie(nodes), outputs \in [nodes -> SUBSET patterns],
           NEW f, \A n \in nodes : n # <<>> => LongestBelow(f[n], n)
    PROVE  LET o == Aho!MergedOutputs(f)
           IN  /\ o = [n \in nodes |-> o[n]]
               /\ \A n \in nodes : o[n] = outputs[n] \cup (IF Len(n) <= 1 THEN {} ELSE o[f[n]])
<1> DEFINE A == SUBSET patterns
           size == [n \in nodes |-> Len(n)]
           base == {n \in nodes : Len(n) <= 1}
           F == [x \in nodes \X A |-> outputs[x[1]] \cup x[2]]
           o == Aho!MergedOutputs(f)
           Table(h) == [n \in nodes |-> outputs[n] \cup (IF Len(n) <= 1 THEN {} ELSE h[f[n]])]
<1>1. o = CHOOSE h : h = Table(h)
  BY DEF Aho!MergedOutputs
<1> HIDE DEF o
<1>2. \A n \in nodes : Len(n) \in Nat /\ (Len(n) = 0 <=> n = <<>>)
  BY NodeIs
<1>3. Descends(nodes, size, f, base)
  <2>1. size \in [nodes -> Nat]
    BY <1>2
  <2>2. ASSUME NEW n \in nodes, n \notin base PROVE f[n] \in nodes /\ size[f[n]] < size[n]
    <3>1. n # <<>>
      <4>1. Len(n) \in Nat /\ ~(Len(n) <= 1)
        BY <1>2, <2>2
      <4>2. Len(n) # 0
        BY <4>1
      <4> QED  BY <1>2, <4>2
    <3>2. f[n] \in nodes /\ Len(f[n]) < Len(n)
      BY <3>1, BelowIs DEF LongestBelow
    <3> QED  BY <3>2
  <2> HIDE DEF size, base
  <2> QED  BY <2>1, <2>2 DEF Descends
<1>4. F \in [nodes \X A -> A] /\ \A n \in nodes, a \in A : F[<<n, a>>] = outputs[n] \cup a
  OBVIOUS
<1>5. outputs \in [nodes -> A] /\ \A n \in nodes : n \in base <=> Len(n) <= 1
  OBVIOUS
<1>6. \A n \in nodes : n \notin base => f[n] \in nodes
  BY <1>3 DEF Descends
<1> HIDE DEF F, base, size, A
<1>7. PICK h \in [nodes -> A] : Computes(h, nodes, f, base, outputs, F)
  BY <1>3, <1>4, <1>5, Descent
<1>8. h = Table(h)
  <2>1. ASSUME NEW n \in nodes
        PROVE  h[n] = outputs[n] \cup (IF Len(n) <= 1 THEN {} ELSE h[f[n]])
    <3>1. h[n] = Rule(h, f, base, outputs, F, n)
      BY <1>7 DEF Computes
    <3>2. CASE n \in base
      BY <1>5, <3>1, <3>2 DEF Rule
    <3>3. CASE n \notin base
      <4>1. h[f[n]] \in A
        BY <1>6, <1>7, <3>3
      <4>2. h[n] = F[<<n, h[f[n]]>>]
        BY <3>1, <3>3 DEF Rule
      <4>3. h[n] = outputs[n] \cup h[f[n]]
        BY <1>4, <4>1, <4>2
      <4> QED  BY <1>5, <3>3, <4>3
    <3> QED  BY <3>2, <3>3
  <2>2. h = [n \in nodes |-> h[n]]
    OBVIOUS
  <2> QED  BY <2>1, <2>2
<1>9. o = Table(o)
  <2> HIDE DEF Table
  <2> QED  BY <1>1, <1>8
<1>10. \A n \in nodes : o[n] = outputs[n] \cup (IF Len(n) <= 1 THEN {} ELSE o[f[n]])
  BY <1>9
<1>11. o = [n \in nodes |-> o[n]]
  BY <1>9
<1> QED  BY <1>10, <1>11 DEF o

\* build() reports at each node every pattern that ends there.
LEMMA MergedOutputsAre ==
    ASSUME Trie(nodes), patterns \subseteq Words,
           \A w \in patterns : Aho!onCharCode(w) \in nodes,
           Reported(patterns, nodes, outputs),
           NEW f, \A n \in nodes : n # <<>> => LongestBelow(f[n], n)
    PROVE  /\ Reported(patterns, nodes, Aho!MergedOutputs(f))
           /\ AllReported(patterns, nodes, Aho!MergedOutputs(f))
<1> DEFINE o == Aho!MergedOutputs(f)
           EndHere(n) == {w \in patterns : Suffix(Aho!onCharCode(w), n)}
           Good(n) == o[n] \subseteq EndHere(n) /\ \A w \in EndHere(n) : w # <<>> => w \in o[n]
           S == {m \in Nat : \A n \in nodes : Len(n) < m => Good(n)}
<1>1. /\ outputs \in [nodes -> SUBSET patterns]
      /\ \A n \in nodes : outputs[n] \subseteq EndHere(n)
      /\ \A w \in patterns : w \in outputs[Aho!onCharCode(w)]
  BY DEF Reported
<1>2. /\ o = [n \in nodes |-> o[n]]
      /\ \A n \in nodes : o[n] = outputs[n] \cup (IF Len(n) <= 1 THEN {} ELSE o[f[n]])
  BY <1>1, MergedRule
<1> HIDE DEF o
<1>3. \A n \in nodes : n \in Seq(DOMAIN Fold) /\ Len(n) \in Nat /\ (Len(n) = 0 <=> n = <<>>)
  BY NodeIs
<1>4. ASSUME NEW w \in patterns
      PROVE  /\ Aho!onCharCode(w) \in nodes /\ Aho!onCharCode(w) \in Seq(DOMAIN Fold)
             /\ Len(Aho!onCharCode(w)) \in Nat
             /\ (w # <<>> => Len(Aho!onCharCode(w)) # 0)
  <2>1. w \in Strs /\ w \in Seq(DOMAIN Fold)
    BY SearchAssumption DEF Strs
  <2>2. Len(Aho!onCharCode(w)) = Len(w) /\ Aho!onCharCode(w) \in Seq(DOMAIN Fold)
    BY <2>1, FoldedIs DEF Strs
  <2>3. w # <<>> => Len(w) \in Nat \ {0}
    BY <2>1, EmptySeq
  <2>4. Len(w) \in Nat
    BY <2>1
  <2> QED  BY <2>2, <2>3, <2>4
<1>5. 0 \in S
  BY <1>3
<1>6. ASSUME NEW m \in Nat, m \in S PROVE m + 1 \in S
  <2> SUFFICES ASSUME NEW n \in nodes, Len(n) < m + 1 PROVE Good(n)
    OBVIOUS
  <2>1. CASE Len(n) <= 1
    <3>1. o[n] = outputs[n]
      BY <1>2, <2>1
    <3>2. ASSUME NEW w \in EndHere(n), w # <<>> PROVE w \in o[n]
      <4> DEFINE u == Aho!onCharCode(w)
      <4>1. u \in nodes /\ u \in Seq(DOMAIN Fold) /\ Len(u) \in Nat /\ Len(u) # 0 /\ Suffix(u, n)
        BY <1>4, <3>2
      <4>2. w \in outputs[u]
        BY <1>1
      <4> HIDE DEF u
      <4>3. Len(u) = Len(n)
        <5>1. Len(u) <= Len(n) /\ Len(n) \in Nat
          BY <1>3, <4>1 DEF Suffix
        <5> QED  BY <2>1, <4>1, <5>1
      <4>4. u = n
        BY <1>3, <4>1, <4>3, SuffixOrder
      <4> QED  BY <3>1, <4>2, <4>4
    <3> QED  BY <1>1, <3>1, <3>2
  <2>2. CASE ~(Len(n) <= 1)
    <3>1. o[n] = outputs[n] \cup o[f[n]]
      BY <1>2, <2>2
    <3>2. n # <<>>
      <4>1. Len(n) # 0
        BY <1>3, <2>2
      <4> QED  BY <1>3, <4>1
    <3>3. LongestBelow(f[n], n) /\ Len(f[n]) < Len(n) /\ f[n] \in nodes /\ Suffix(f[n], n)
      BY <3>2, BelowIs DEF LongestBelow
    <3>4. Good(f[n])
      <4>1. Len(f[n]) < m
        BY <1>3, <3>3
      <4> QED  BY <1>6, <3>3, <4>1
    <3>5. ASSUME NEW w \in o[f[n]] PROVE w \in EndHere(n)
      <4> DEFINE u == Aho!onCharCode(w)
      <4>1. w \in patterns /\ Suffix(u, f[n])
        BY <3>4, <3>5
      <4>2. u \in Seq(DOMAIN Fold) /\ f[n] \in Seq(DOMAIN Fold) /\ n \in Seq(DOMAIN Fold)
        BY <1>3, <1>4, <3>3, <4>1
      <4> HIDE DEF u
      <4>3. Suffix(u, n)
        BY <3>3, <4>1, <4>2, SuffixOrder
      <4> QED  BY <4>1, <4>3 DEF u
    <3>6. ASSUME NEW w \in EndHere(n), w # <<>> PROVE w \in o[n]
      <4> DEFINE u == Aho!onCharCode(w)
      <4>1. u \in nodes /\ Suffix(u, n) /\ w \in outputs[u]
        BY <1>1, <1>4
      <4>2. CASE u = n
        BY <3>1, <4>1, <4>2
      <4>3. CASE u # n
        <5>1. Suffix(u, f[n])
          BY <3>3, <4>1, <4>3 DEF LongestBelow
        <5>2. w \in EndHere(f[n])
          BY <5>1
        <5> QED  BY <3>1, <3>4, <3>6, <5>2
      <4> QED  BY <4>2, <4>3
    <3>7. o[n] \subseteq EndHere(n)
      BY <1>1, <3>1, <3>5
    <3> QED  BY <3>6, <3>7
  <2> QED  BY <2>1, <2>2
<1>7. \A n \in nodes : Good(n)
  <2>1. Nat \subseteq S
    <3> HIDE DEF S
    <3> QED  BY <1>5, <1>6, Inductive
  <2> SUFFICES ASSUME NEW n \in nodes PROVE Good(n)
    OBVIOUS
  <2>2. Len(n) + 1 \in Nat /\ Len(n) < Len(n) + 1
    BY <1>3
  <2> HIDE DEF Good
  <2> QED  BY <2>1, <2>2
<1>8. o \in [nodes -> SUBSET patterns]
  <2>1. \A n \in nodes : o[n] \in SUBSET patterns
    BY <1>7
  <2> QED  BY <1>2, <2>1
<1>9. \A w \in patterns : w \in o[Aho!onCharCode(w)]
  BY <1>1, <1>2, <1>4
<1>10. Reported(patterns, nodes, o)
  BY <1>7, <1>8, <1>9 DEF Reported
<1>11. AllReported(patterns, nodes, o)
  BY <1>7 DEF AllReported
<1> QED  BY <1>10, <1>11 DEF o

-----------------------------------------------------------------------------
(* The trie, its pointers and its outputs, at any time *)

Linked(N, f) ==
    /\ f \in [N -> N] /\ f[<<>>] = <<>>
    /\ \A n \in N : n # <<>> => Suffix(f[n], n) /\ Len(f[n]) < Len(n)

AhoInv ==
    /\ patterns \subseteq Words /\ built \in BOOLEAN
    /\ nodes = Paths(patterns)
    /\ Linked(nodes, fail)
    /\ Reported(patterns, nodes, outputs)
    /\ built => /\ \A n \in nodes : n # <<>> => LongestBelow(fail[n], n)
                /\ AllReported(patterns, nodes, outputs)

LEMMA AhoType == AhoInv => Aho!TypeOK
  BY DEF AhoInv, Linked, Reported, Aho!TypeOK, Paths, Aho!Root

LEMMA AhoTrie ==
    ASSUME AhoInv
    PROVE  Trie(nodes) /\ \A w \in patterns : Aho!onCharCode(w) \in nodes
  BY PathsTrie DEF AhoInv

LEMMA AhoInit == Aho!Init => AhoInv
<1> SUFFICES ASSUME Aho!Init PROVE AhoInv
  OBVIOUS
<1>1. /\ patterns = {} /\ nodes = {<<>>} /\ built = TRUE
      /\ fail = [n \in {<<>>} |-> <<>>] /\ outputs = [n \in {<<>>} |-> {}]
  BY DEF Aho!Init, Aho!Root
<1>2. nodes = Paths(patterns)
  BY <1>1 DEF Paths, Aho!Root
<1>3. Linked(nodes, fail)
  BY <1>1 DEF Linked
<1>4. Reported(patterns, nodes, outputs) /\ AllReported(patterns, nodes, outputs)
  BY <1>1 DEF Reported, AllReported
<1>5. \A n \in nodes : n = <<>>
  BY <1>1
<1> QED  BY <1>1, <1>2, <1>3, <1>4, <1>5 DEF AhoInv

\* A new node points to the root, and the new pattern is reported at the end of its path.
LEMMA AddKeeps ==
    ASSUME AhoInv, NEW w \in Words, Aho!addPattern(w)
    PROVE  AhoInv'
<1> DEFINE u == Aho!onCharCode(w)
           all == nodes \cup Aho!PathTo(u)
<1>1. /\ patterns \subseteq Words /\ nodes = Paths(patterns)
      /\ Linked(nodes, fail) /\ Reported(patterns, nodes, outputs)
  BY DEF AhoInv
<1>2. /\ patterns' = patterns \cup {w} /\ nodes' = all /\ built' = FALSE
      /\ fail' = [n \in all |-> IF n \in nodes THEN fail[n] ELSE <<>>]
      /\ outputs' = [n \in all |-> (IF n \in nodes THEN outputs[n] ELSE {})
                                     \cup (IF n = u THEN {w} ELSE {})]
  BY DEF Aho!addPattern, Aho!Root
<1>3. all = Paths(patterns \cup {w})
  BY <1>1 DEF Paths
<1>4. Trie(all) /\ \A v \in patterns \cup {w} : Aho!onCharCode(v) \in all
  <2>1. patterns \cup {w} \subseteq Words
    BY <1>1
  <2> HIDE DEF all
  <2> QED  BY <1>3, <2>1, PathsTrie
<1>5. <<>> \in nodes /\ \A v \in patterns : Aho!onCharCode(v) \in nodes
  BY <1>1, PathsTrie DEF Trie
<1>6. nodes \subseteq all
  OBVIOUS
<1>7. \A n \in all : n \in Seq(DOMAIN Fold) /\ (n # <<>> => Len(n) > 0)
  <2> HIDE DEF all
  <2>1. \A n \in all : n \in Seq(DOMAIN Fold)
    BY <1>4 DEF Trie, Strs
  <2> QED  BY <2>1, EmptySeq
<1> HIDE DEF all, u
<1>8. Linked(all, fail')
  <2>1. \A n \in all : fail'[n] = IF n \in nodes THEN fail[n] ELSE <<>>
    BY <1>2
  <2>2. fail' \in [all -> all]
    <3>1. \A n \in all : (IF n \in nodes THEN fail[n] ELSE <<>>) \in all
      BY <1>1, <1>5, <1>6 DEF Linked
    <3> QED  BY <1>2, <3>1
  <2>3. fail'[<<>>] = <<>>
    BY <1>1, <1>5, <1>6, <2>1 DEF Linked
  <2>4. ASSUME NEW n \in all, n # <<>> PROVE Suffix(fail'[n], n) /\ Len(fail'[n]) < Len(n)
    <3>1. CASE n \in nodes
      BY <1>1, <2>1, <2>4, <3>1 DEF Linked
    <3>2. CASE n \notin nodes
      <4>1. fail'[n] = <<>> /\ Len(<<>>) = 0
        BY <2>1, <3>2
      <4> QED  BY <1>7, <2>4, <4>1, SuffixOrder
    <3> QED  BY <3>1, <3>2
  <2> QED  BY <2>2, <2>3, <2>4 DEF Linked
<1>9. Reported(patterns \cup {w}, all, outputs')
  <2>1. \A n \in all : outputs'[n] = (IF n \in nodes THEN outputs[n] ELSE {})
                                       \cup (IF n = u THEN {w} ELSE {})
    BY <1>2
  <2>2. outputs' \in [all -> SUBSET (patterns \cup {w})]
    <3>1. \A n \in all : (IF n \in nodes THEN outputs[n] ELSE {})
                            \cup (IF n = u THEN {w} ELSE {}) \in SUBSET (patterns \cup {w})
      BY <1>1 DEF Reported
    <3> QED  BY <1>2, <3>1
  <2>3. ASSUME NEW n \in all, NEW v \in outputs'[n] PROVE Suffix(Aho!onCharCode(v), n)
    <3>1. CASE n \in nodes /\ v \in outputs[n]
      BY <1>1, <3>1 DEF Reported
    <3>2. CASE n = u /\ v = w
      BY <1>7, <3>2, SuffixOrder DEF u
    <3> QED  BY <2>1, <2>3, <3>1, <3>2
  <2>4. ASSUME NEW v \in patterns \cup {w} PROVE v \in outputs'[Aho!onCharCode(v)]
    <3>1. CASE v \in patterns
      BY <1>1, <1>5, <1>6, <2>1, <3>1 DEF Reported
    <3>2. CASE v = w
      BY <1>4, <2>1, <3>2 DEF u
    <3> QED  BY <3>1, <3>2
  <2> QED  BY <2>2, <2>3, <2>4 DEF Reported
<1>10. (patterns \subseteq Words)' /\ (nodes = Paths(patterns))'
  BY <1>1, <1>2, <1>3
<1>11. Linked(nodes, fail)' /\ Reported(patterns, nodes, outputs)'
  BY <1>2, <1>8, <1>9
<1> QED  BY <1>2, <1>10, <1>11 DEF AhoInv

LEMMA BuildKeeps ==
    ASSUME AhoInv, Aho!build
    PROVE  AhoInv'
<1> DEFINE f == Aho!FailPointers
           o == Aho!MergedOutputs(f)
<1>1. /\ patterns \subseteq Words /\ nodes = Paths(patterns) /\ Reported(patterns, nodes, outputs)
      /\ Trie(nodes) /\ \A w \in patterns : Aho!onCharCode(w) \in nodes
  BY AhoTrie DEF AhoInv
<1>2. fail' = f /\ outputs' = o /\ built' = TRUE /\ patterns' = patterns /\ nodes' = nodes
  BY DEF Aho!build
<1>3. /\ f \in [nodes -> nodes] /\ f[<<>>] = <<>>
      /\ \A n \in nodes : n # <<>> => LongestBelow(f[n], n)
  BY <1>1, FailPointersAre
<1> HIDE DEF f
<1>4. Reported(patterns, nodes, o) /\ AllReported(patterns, nodes, o)
  BY <1>1, <1>3, MergedOutputsAre
<1> HIDE DEF o
<1>5. Linked(nodes, f)
  <2>1. \A n \in nodes : n # <<>> => Suffix(f[n], n) /\ Len(f[n]) < Len(n)
    BY <1>1, <1>3, BelowIs DEF LongestBelow
  <2> QED  BY <1>3, <2>1 DEF Linked
<1>6. (\A n \in nodes : n # <<>> => LongestBelow(fail[n], n))'
  BY <1>2, <1>3 DEF LongestBelow
<1>7. (patterns \subseteq Words /\ nodes = Paths(patterns))'
  BY <1>1, <1>2
<1>8. (Linked(nodes, fail) /\ Reported(patterns, nodes, outputs)
       /\ AllReported(patterns, nodes, outputs))'
  BY <1>2, <1>4, <1>5
<1> QED  BY <1>2, <1>6, <1>7, <1>8 DEF AhoInv

LEMMA AhoStep == AhoInv /\ Aho!Next => AhoInv'
  BY AddKeeps, BuildKeeps DEF Aho!Next

-----------------------------------------------------------------------------
(* Searching: the node after each character *)

\* What the search has read after k characters.
Read(text, k) == Aho!onCharCode(SubSeq(text, 1, k))

LEMMA ReadIs ==
    ASSUME NEW text \in Strs
    PROVE  /\ Len(text) \in Nat
           /\ \A k \in 0 .. Len(text) :
                 /\ Read(text, k) \in Strs /\ Len(Read(text, k)) = k
                 /\ \A x \in 1 .. k : Read(text, k)[x] = Fold[text[x]]
           /\ Read(text, 0) = <<>>
           /\ \A k \in 1 .. Len(text) : /\ Fold[text[k]] \in DOMAIN Fold
                                        /\ Read(text, k) = Append(Read(text, k - 1), Fold[text[k]])
<1>1. text \in Seq(DOMAIN Fold) /\ Len(text) \in Nat
  BY DEF Strs
<1>2. ASSUME NEW k \in 0 .. Len(text)
      PROVE  /\ Read(text, k) \in Strs /\ Len(Read(text, k)) = k
             /\ \A x \in 1 .. k : Read(text, k)[x] = Fold[text[x]]
  <2> DEFINE s == SubSeq(text, 1, k)
  <2>1. k \in Int /\ 1 \in Int /\ \A x \in 1 .. k : text[x] \in DOMAIN Fold
    BY <1>1
  <2>2. /\ s \in Seq(DOMAIN Fold) /\ Len(s) = IF 1 <= k THEN k - 1 + 1 ELSE 0
        /\ \A x \in 1 .. k - 1 + 1 : s[x] = text[1 + x - 1]
    BY <2>1, SubSeqProperties
  <2>3. Len(s) = k /\ \A x \in 1 .. k : s[x] = text[x]
    BY <1>1, <2>2
  <2> HIDE DEF s
  <2>4. /\ Aho!onCharCode(s) \in Strs /\ Len(Aho!onCharCode(s)) = Len(s)
        /\ \A x \in 1 .. Len(s) : Aho!onCharCode(s)[x] = Fold[s[x]]
    BY <2>2, FoldedIs DEF Strs
  <2>5. Read(text, k) = Aho!onCharCode(s)
    BY DEF Read, s
  <2> QED  BY <2>3, <2>4, <2>5
<1>3. Read(text, 0) = <<>>
  <2>1. 0 \in 0 .. Len(text)
    BY <1>1
  <2>2. Read(text, 0) \in Seq(DOMAIN Fold) /\ Len(Read(text, 0)) = 0
    BY <1>2, <2>1 DEF Strs
  <2> QED  BY <2>2, EmptySeq
<1>4. ASSUME NEW k \in 1 .. Len(text)
      PROVE  /\ Fold[text[k]] \in DOMAIN Fold
             /\ Read(text, k) = Append(Read(text, k - 1), Fold[text[k]])
  <2> DEFINE c == Fold[text[k]]
             s == Read(text, k - 1)
             t == Read(text, k)
  <2>1. k \in 0 .. Len(text) /\ k - 1 \in 0 .. Len(text) /\ text[k] \in DOMAIN Fold
    BY <1>1
  <2>2. c \in DOMAIN Fold
    BY <2>1, SearchAssumption
  <2>3. /\ s \in Seq(DOMAIN Fold) /\ Len(s) = k - 1 /\ t \in Seq(DOMAIN Fold) /\ Len(t) = k
        /\ \A x \in 1 .. k - 1 : s[x] = Fold[text[x]]
        /\ \A x \in 1 .. k : t[x] = Fold[text[x]]
    BY <1>2, <2>1 DEF Strs
  <2>4. t[k] = c
    BY <2>3
  <2> HIDE DEF c, s, t
  <2>5. Append(s, c) \in Seq(DOMAIN Fold) /\ Len(Append(s, c)) = k
        /\ \A x \in 1 .. k - 1 : Append(s, c)[x] = s[x]
        /\ Append(s, c)[k] = c
    BY <2>2, <2>3
  <2>6. \A x \in 1 .. k : t[x] = Append(s, c)[x]
    <3> SUFFICES ASSUME NEW x \in 1 .. k PROVE t[x] = Append(s, c)[x]
      OBVIOUS
    <3>1. CASE x = k
      BY <2>4, <2>5, <3>1
    <3>2. CASE x # k
      <4>1. x \in 1 .. k - 1
        BY <3>2
      <4> QED  BY <2>3, <2>5, <4>1
    <3> QED  BY <3>1, <3>2
  <2>7. t = Append(s, c)
    BY <2>3, <2>5, <2>6, SeqEqual
  <2> QED  BY <2>2, <2>7 DEF c, s, t
<1> QED  BY <1>1, <1>2, <1>3, <1>4

LEMMA LinksOf ==
    ASSUME AhoInv
    PROVE  \A n \in nodes : Links(fail, Len(n)) /\ (built => Tight(fail, Len(n)))
<1>1. Linked(nodes, fail) /\ (built => \A n \in nodes : n # <<>> => LongestBelow(fail[n], n))
  BY DEF AhoInv
<1>2. \A n \in nodes : Links(fail, Len(n))
  BY <1>1 DEF Linked, Links
<1>3. built => \A n \in nodes : Tight(fail, Len(n))
  BY <1>1 DEF LongestBelow, Tight
<1> QED  BY <1>2, <1>3

\* After each character the search is at a suffix of what it has read; after build() at the
\* longest that is in the trie.
LEMMA WalkIs ==
    ASSUME AhoInv, NEW text \in Strs
    PROVE  \A k \in 0 .. Len(text) :
              /\ Aho!Walk(text)[k] \in nodes /\ Suffix(Aho!Walk(text)[k], Read(text, k))
              /\ built => Longest(Aho!Walk(text)[k], Read(text, k))
<1> DEFINE N == Len(text)
           F == [x \in (1 .. N) \X nodes |-> Aho!Step(fail, x[2], Fold[text[x[1]]])]
           at == Aho!Walk(text)
           Table(h) == [k \in 0 .. N |-> IF k = 0 THEN <<>>
                                         ELSE Aho!Step(fail, h[k - 1], Fold[text[k]])]
<1>1. Trie(nodes) /\ <<>> \in nodes
  BY AhoTrie DEF Trie
<1>2. N \in Nat /\ \A k \in 1 .. N : Fold[text[k]] \in DOMAIN Fold
  BY ReadIs
<1>3. \A n \in nodes, k \in 1 .. N :
         LET m == Aho!Step(fail, n, Fold[text[k]])
         IN  /\ m \in nodes /\ Suffix(m, Append(n, Fold[text[k]]))
             /\ built => Longest(m, Append(n, Fold[text[k]]))
  BY <1>1, <1>2, LinksOf, StepIs
<1>4. F \in [(1 .. N) \X nodes -> nodes]
  BY <1>3
<1>5. \A k \in 1 .. N, n \in nodes : F[<<k, n>>] = Aho!Step(fail, n, Fold[text[k]])
  OBVIOUS
<1>6. at = CHOOSE h : h = Table(h)
  BY DEF Aho!Walk, Aho!Root
<1> HIDE DEF F, at, N
<1>7. PICK g \in [0 .. N -> nodes] : Follows(g, N, <<>>, F)
  BY <1>1, <1>2, <1>4, Recursion
<1>8. g = Table(g)
  <2>1. ASSUME NEW k \in 0 .. N
        PROVE  g[k] = IF k = 0 THEN <<>> ELSE Aho!Step(fail, g[k - 1], Fold[text[k]])
    <3>1. CASE k = 0
      BY <1>7, <3>1 DEF Follows
    <3>2. CASE k # 0
      <4>1. k \in 1 .. N /\ k - 1 \in 0 .. N
        BY <1>2, <3>2
      <4>2. g[k] = F[<<k, g[k - 1]>>] /\ g[k - 1] \in nodes
        BY <1>7, <4>1 DEF Follows
      <4> QED  BY <1>5, <3>2, <4>1, <4>2
    <3> QED  BY <3>1, <3>2
  <2>2. g = [k \in 0 .. N |-> g[k]]
    OBVIOUS
  <2> QED  BY <2>1, <2>2
<1>9. at = Table(at)
  <2> HIDE DEF Table
  <2> QED  BY <1>6, <1>8
<1>10. at[0] = <<>> /\ \A k \in 1 .. N : at[k] = Aho!Step(fail, at[k - 1], Fold[text[k]])
  <2>1. 0 \in 0 .. N /\ \A k \in 1 .. N : k \in 0 .. N /\ k # 0
    BY <1>2
  <2> QED  BY <1>9, <2>1
<1> DEFINE Good(k) == /\ at[k] \in nodes /\ Suffix(at[k], Read(text, k))
                      /\ built => Longest(at[k], Read(text, k))
           S == {k \in Nat : k <= N => Good(k)}
<1> HIDE DEF Table
<1>11. 0 \in S
  <2>1. at[0] = <<>> /\ Read(text, 0) = <<>>
    BY <1>10, ReadIs
  <2>2. Suffix(<<>>, <<>>)
    <3>1. <<>> \in Seq(DOMAIN Fold)
      OBVIOUS
    <3> QED  BY <3>1, SuffixOrder
  <2>3. Good(0)
    BY <1>1, <2>1, <2>2 DEF Longest
  <2> QED  BY <2>3
<1>12. ASSUME NEW k \in Nat, k \in S PROVE k + 1 \in S
  <2> SUFFICES ASSUME k + 1 <= N PROVE Good(k + 1)
    OBVIOUS
  <2> DEFINE c == Fold[text[k + 1]]
  <2>1. k <= N /\ k + 1 \in 1 .. N /\ k + 1 - 1 = k /\ k \in 0 .. N
    BY <1>2
  <2>2. Good(k)
    BY <1>12, <2>1
  <2>3. at[k + 1] = Aho!Step(fail, at[k], c) /\ c \in DOMAIN Fold
    BY <1>2, <1>10, <2>1
  <2>4. /\ at[k + 1] \in nodes /\ Suffix(at[k + 1], Append(at[k], c))
        /\ built => Longest(at[k + 1], Append(at[k], c))
    BY <1>3, <2>1, <2>2, <2>3
  <2>5. Read(text, k) \in Strs /\ Read(text, k + 1) = Append(Read(text, k), c)
    BY <2>1, ReadIs DEF N
  <2> HIDE DEF c
  <2>6. Suffix(at[k + 1], Read(text, k + 1))
    BY <1>1, <2>2, <2>3, <2>4, <2>5, LongestAppend
  <2>7. built => Longest(at[k + 1], Read(text, k + 1))
    BY <1>1, <2>2, <2>3, <2>4, <2>5, LongestAppend
  <2> QED  BY <2>4, <2>6, <2>7
<1>13. Nat \subseteq S
  <2> HIDE DEF S
  <2> QED  BY <1>11, <1>12, Inductive
<1>14. \A k \in 0 .. N : Good(k)
  <2> SUFFICES ASSUME NEW k \in 0 .. N PROVE Good(k)
    OBVIOUS
  <2>1. k \in Nat /\ k <= N
    BY <1>2
  <2> HIDE DEF Good
  <2> QED  BY <1>13, <2>1
<1> QED  BY <1>14 DEF N, at

-----------------------------------------------------------------------------
(* Searching: the matches *)

Pairs(text) == (0 .. Len(text)) \X (0 .. Len(text))

LEMMA PairIs ==
    ASSUME NEW text \in Strs, NEW m \in Pairs(text)
    PROVE  m[1] \in 0 .. Len(text) /\ m[2] \in 0 .. Len(text) /\ m[1] \in Nat /\ m[2] \in Nat
           /\ m = <<m[1], m[2]>>
  BY DEF Pairs, Strs

\* A pattern ends after k characters where its folded characters are the last ones read.
LEMMA OccursIs ==
    ASSUME NEW text \in Strs, NEW w \in Strs, NEW k \in 0 .. Len(text), Len(w) <= k
    PROVE  Suffix(Aho!onCharCode(w), Read(text, k)) <=>
              Aho!onCharCode(w) = Aho!onCharCode(SubSeq(text, (k - Len(w)) + 1, k))
<1> DEFINE d == k - Len(w)
           s == SubSeq(text, d + 1, k)
           u == Aho!onCharCode(w)
           v == Aho!onCharCode(s)
           r == Read(text, k)
<1>1. /\ text \in Seq(DOMAIN Fold) /\ Len(text) \in Nat /\ Len(w) \in Nat
      /\ d \in Nat /\ k \in Nat /\ k - d = Len(w)
  BY DEF Strs
<1> HIDE DEF d
<1>2. s \in Strs /\ Len(s) = Len(w) /\ \A x \in 1 .. Len(w) : s[x] = text[x + d]
  <2>1. d + 1 \in Int /\ k \in Int /\ \A x \in d + 1 .. k : text[x] \in DOMAIN Fold
    BY <1>1
  <2>2. /\ s \in Seq(DOMAIN Fold) /\ Len(s) = IF d + 1 <= k THEN k - (d + 1) + 1 ELSE 0
        /\ \A x \in 1 .. k - (d + 1) + 1 : s[x] = text[d + 1 + x - 1]
    BY <2>1, SubSeqProperties
  <2>3. Len(s) = Len(w)
    BY <1>1, <2>2
  <2>4. ASSUME NEW x \in 1 .. Len(w) PROVE s[x] = text[x + d]
    <3>1. x \in 1 .. k - (d + 1) + 1 /\ d + 1 + x - 1 = x + d
      BY <1>1
    <3> QED  BY <2>2, <3>1
  <2> QED  BY <2>2, <2>3, <2>4 DEF Strs
<1> HIDE DEF s
<1>3. /\ u \in Seq(DOMAIN Fold) /\ Len(u) = Len(w)
      /\ v \in Seq(DOMAIN Fold) /\ Len(v) = Len(w)
      /\ \A x \in 1 .. Len(w) : v[x] = Fold[text[x + d]]
  BY <1>2, FoldedIs DEF Strs
<1>4. Len(r) = k /\ \A x \in 1 .. k : r[x] = Fold[text[x]]
  BY ReadIs
<1> HIDE DEF u, v, r
<1>5. Suffix(u, r) <=> \A x \in 1 .. Len(w) : u[x] = r[x + d]
  <2>1. Len(r) - Len(u) = d /\ Len(u) <= Len(r)
    BY <1>1, <1>3, <1>4 DEF d
  <2> QED  BY <1>3, <2>1 DEF Suffix
<1>6. \A x \in 1 .. Len(w) : r[x + d] = v[x]
  <2> SUFFICES ASSUME NEW x \in 1 .. Len(w) PROVE r[x + d] = v[x]
    OBVIOUS
  <2>1. x + d \in 1 .. k
    BY <1>1
  <2> QED  BY <1>3, <1>4, <2>1
<1>7. u = v <=> \A x \in 1 .. Len(w) : u[x] = v[x]
  BY <1>3, SeqEqual
<1> QED  BY <1>5, <1>6, <1>7 DEF u, v, r, s, d

LEMMA EndingIs ==
    ASSUME AhoInv, NEW text \in Strs, NEW k \in 1 .. Len(text)
    PROVE  /\ \A w \in Aho!Ending(text, k) :
                 /\ w \in patterns /\ Len(w) \in 0 .. k
                 /\ Suffix(Aho!onCharCode(w), Read(text, k))
           /\ built => \A w \in patterns :
                 w # <<>> /\ Len(w) <= k /\ Suffix(Aho!onCharCode(w), Read(text, k)) =>
                    w \in Aho!Ending(text, k)
<1> DEFINE n == Aho!Walk(text)[k]
<1>1. k \in 0 .. Len(text) /\ k \in Nat
  BY ReadIs
<1>2. n \in nodes /\ Suffix(n, Read(text, k)) /\ (built => Longest(n, Read(text, k)))
  BY <1>1, WalkIs
<1>3. Aho!Ending(text, k) = {w \in outputs[n] : Len(w) <= k}
  BY DEF Aho!Ending
<1> HIDE DEF n
<1>4. Reported(patterns, nodes, outputs) /\ (built => AllReported(patterns, nodes, outputs))
      /\ patterns \subseteq Words
  BY DEF AhoInv
<1>5. n \in Seq(DOMAIN Fold) /\ Read(text, k) \in Seq(DOMAIN Fold)
  BY <1>1, <1>2, AhoTrie, NodeIs, ReadIs DEF Strs
<1>6. \A w \in patterns : /\ w \in Strs /\ Len(w) \in Nat
                          /\ Aho!onCharCode(w) \in nodes /\ Aho!onCharCode(w) \in Seq(DOMAIN Fold)
  BY <1>4, AhoTrie, SearchAssumption, FoldedIs DEF Strs
<1>7. ASSUME NEW w \in Aho!Ending(text, k)
      PROVE  /\ w \in patterns /\ Len(w) \in 0 .. k
             /\ Suffix(Aho!onCharCode(w), Read(text, k))
  <2>1. w \in outputs[n] /\ Len(w) <= k
    BY <1>3
  <2>2. w \in patterns /\ Suffix(Aho!onCharCode(w), n)
    BY <1>2, <1>4, <2>1 DEF Reported
  <2> QED  BY <1>1, <1>2, <1>5, <1>6, <2>1, <2>2, SuffixOrder
<1>8. ASSUME built, NEW w \in patterns, w # <<>>, Len(w) <= k,
             Suffix(Aho!onCharCode(w), Read(text, k))
      PROVE  w \in Aho!Ending(text, k)
  <2>1. Suffix(Aho!onCharCode(w), n)
    BY <1>2, <1>6, <1>8 DEF Longest
  <2>2. w \in outputs[n]
    BY <1>2, <1>4, <1>8, <2>1 DEF AllReported
  <2> QED  BY <1>3, <1>8, <2>2
<1> QED  BY <1>7, <1>8

LEMMA MatchesAre ==
    ASSUME AhoInv, NEW text \in Strs
    PROVE  /\ Aho!Matches(text) \subseteq Pairs(text)
           /\ \A m \in Aho!Matches(text) : m[1] <= m[2]
           /\ \A m \in Aho!Matches(text) : Aho!NotEmpty(m) => m \in Aho!Occurrences(text)
           /\ built => Aho!Occurrences(text) \subseteq Aho!Matches(text)
           /\ Aho!contains(text) <=> Aho!Matches(text) # {}
<1> DEFINE M == Aho!Matches(text)
           N == Len(text)
<1>1. N \in Nat
  BY ReadIs
<1>2. \A m : m \in M <=> \E k \in 1 .. N : \E w \in Aho!Ending(text, k) : m = <<k - Len(w), k>>
  BY DEF Aho!Matches
<1> HIDE DEF M
<1>3. ASSUME NEW w \in patterns
      PROVE  w \in Strs /\ Len(w) \in Nat /\ Len(Aho!onCharCode(w)) = Len(w)
  <2>1. w \in Strs
    BY SearchAssumption DEF AhoInv, Strs
  <2> QED  BY <2>1, FoldedIs DEF Strs
<1>4. ASSUME NEW m \in M
      PROVE  /\ m \in Pairs(text) /\ m[1] <= m[2]
             /\ Aho!NotEmpty(m) => m \in Aho!Occurrences(text)
  <2>0. PICK k \in 1 .. N : \E w \in Aho!Ending(text, k) : m = <<k - Len(w), k>>
    BY <1>2
  <2>1. PICK w \in Aho!Ending(text, k) : m = <<k - Len(w), k>>
    BY <2>0
  <2>2. w \in patterns /\ Len(w) \in 0 .. k /\ Suffix(Aho!onCharCode(w), Read(text, k))
    BY <2>1, EndingIs
  <2>3. /\ m[1] = k - Len(w) /\ m[2] = k /\ k \in 0 .. N /\ k - Len(w) \in 0 .. N
        /\ k - Len(w) <= k /\ Len(w) <= k
    BY <1>1, <2>1, <2>2
  <2>4. m \in Pairs(text)
    BY <2>1, <2>3 DEF Pairs
  <2>5. Aho!onCharCode(w) = Aho!onCharCode(SubSeq(text, m[1] + 1, m[2]))
    BY <1>3, <2>2, <2>3, OccursIs
  <2>6. Aho!NotEmpty(m) => m \in Aho!Occurrences(text)
    BY <2>2, <2>4, <2>5 DEF Aho!NotEmpty, Aho!Occurrences, Pairs
  <2> QED  BY <2>3, <2>4, <2>6
<1>5. ASSUME built, NEW o \in Aho!Occurrences(text) PROVE o \in M
  <2>1. /\ o \in Pairs(text) /\ o[1] < o[2]
        /\ \E w \in patterns :
              Aho!onCharCode(w) = Aho!onCharCode(SubSeq(text, o[1] + 1, o[2]))
    BY DEF Aho!Occurrences, Pairs
  <2>2. PICK w \in patterns :
              Aho!onCharCode(w) = Aho!onCharCode(SubSeq(text, o[1] + 1, o[2]))
    BY <2>1
  <2> DEFINE s == SubSeq(text, o[1] + 1, o[2])
  <2>3. /\ o[2] \in 0 .. N /\ o[1] \in 0 .. N /\ o = <<o[1], o[2]>> /\ o[1] < o[2]
        /\ o[1] \in Nat /\ o[2] \in Nat
    BY <1>1, <2>1, PairIs
  <2>4. s \in Strs /\ Len(s) = o[2] - o[1]
    <3>1. /\ o[1] + 1 \in Int /\ o[2] \in Int /\ o[1] + 1 <= o[2]
          /\ \A x \in o[1] + 1 .. o[2] : text[x] \in DOMAIN Fold
      BY <1>1, <2>3 DEF Strs
    <3>2. s \in Seq(DOMAIN Fold) /\ Len(s) = o[2] - (o[1] + 1) + 1
      BY <3>1, SubSeqProperties
    <3> QED  BY <2>3, <3>2 DEF Strs
  <2> HIDE DEF s
  <2>5. Len(w) = o[2] - o[1]
    <3>1. Len(Aho!onCharCode(s)) = Len(s)
      BY <2>4, FoldedIs
    <3> QED  BY <1>3, <2>2, <2>4, <3>1 DEF s
  <2>6. Len(w) <= o[2] /\ o[2] - Len(w) = o[1] /\ o[2] \in 1 .. N /\ Len(w) # 0
    BY <1>1, <2>3, <2>5
  <2>7. Suffix(Aho!onCharCode(w), Read(text, o[2]))
    BY <1>3, <2>2, <2>3, <2>6, OccursIs
  <2>8. w # <<>>
    BY <2>6
  <2>9. w \in Aho!Ending(text, o[2])
    BY <1>5, <2>6, <2>7, <2>8, EndingIs
  <2> QED  BY <1>2, <2>3, <2>6, <2>9
<1>6. Aho!contains(text) <=> M # {}
  <2>1. Aho!contains(text) <=> \E k \in 1 .. N : \E w : w \in Aho!Ending(text, k)
    BY DEF Aho!contains
  <2> QED  BY <1>2, <2>1
<1> QED  BY <1>4, <1>5, <1>6 DEF M

LEMMA FinitelyManyPairs ==
    ASSUME NEW text \in Strs, NEW S, S \subseteq Pairs(text)
    PROVE  IsFiniteSet(S)
<1>1. IsFiniteSet(0 .. Len(text))
  BY FS_Interval DEF Strs
<1>2. IsFiniteSet(Pairs(text))
  BY <1>1, FS_Product DEF Pairs
<1> QED  BY <1>2, FS_Subset

-----------------------------------------------------------------------------
(* Sorting *)

\* The instance has its own name for Cardinality.
LEMMA SameAhoCardinality == \A S : Aho!Cardinality(S) = Cardinality(S)
  BY DEF Cardinality, Aho!Cardinality

\* s has all members of S and no others.
Lists(s, S) == s \in Seq(S) /\ \A x \in S : \E k \in 1 .. Len(s) : s[k] = x

LEMMA InOrderIs ==
    ASSUME NEW S, IsFiniteSet(S), NEW R, Orders(R, S), NEW s, s = Aho!InOrder(S, R)
    PROVE  Lists(s, S) /\ \A k, l \in 1 .. Len(s) : k < l => <<s[k], s[l]>> \in R
<1> DEFINE Smaller(x) == {y \in S : <<y, x>> \in R}
<1>0. s = [k \in 1 .. Aho!Cardinality(S) |->
              CHOOSE x \in S : Aho!Cardinality(Smaller(x)) = k - 1]
  BY DEF Aho!InOrder
<1>a. \A x \in S : Aho!Cardinality(Smaller(x)) = Rank(R, S, x)
  BY SameAhoCardinality DEF Rank, Under
<1> HIDE DEF Smaller
<1>1. s = [k \in 1 .. Cardinality(S) |-> CHOOSE x \in S : Rank(R, S, x) = k - 1]
  BY <1>0, <1>a, SameAhoCardinality
<1>2. ByRank(R, S, s)
  BY <1>1, SortsByRank
<1> QED  BY <1>2, SortIs DEF Lists

\* The matches one by one, by operator<.
LEMMA MatchesSorted ==
    ASSUME NEW text \in Strs, NEW S, S \subseteq Pairs(text), NEW s, s = Aho!Sorted(S)
    PROVE  Lists(s, S) /\ \A k, l \in 1 .. Len(s) : k < l => Aho!Before(s[k], s[l])
<1> DEFINE R == {p \in S \X S : Aho!Before(p[1], p[2])}
<1>1. \A x, y \in S : <<x, y>> \in R <=> Aho!Before(x, y)
  OBVIOUS
<1>2. \A x \in S : x[1] \in Nat /\ x[2] \in Nat /\ x = <<x[1], x[2]>>
  BY PairIs
<1>3. IsFiniteSet(S) /\ s = Aho!InOrder(S, R)
  BY FinitelyManyPairs DEF Aho!Sorted
<1> HIDE DEF R
<1>4. Orders(R, S)
  <2>1. \A x \in S : <<x, x>> \notin R
    BY <1>1, <1>2 DEF Aho!Before
  <2>2. \A x, y, z \in S : <<x, y>> \in R /\ <<y, z>> \in R => <<x, z>> \in R
    BY <1>1, <1>2 DEF Aho!Before
  <2>3. \A x, y \in S : x = y \/ <<x, y>> \in R \/ <<y, x>> \in R
    <3> SUFFICES ASSUME NEW x \in S, NEW y \in S, <<x, y>> \notin R, <<y, x>> \notin R
                 PROVE  x = y
      OBVIOUS
    <3>1. x[1] = y[1] /\ x[2] = y[2]
      BY <1>1, <1>2 DEF Aho!Before
    <3> QED  BY <1>2, <3>1
  <2> QED  BY <2>1, <2>2, <2>3 DEF Orders
<1>5. Lists(s, S) /\ \A k, l \in 1 .. Len(s) : k < l => <<s[k], s[l]>> \in R
  BY <1>3, <1>4, InOrderIs
<1>6. ASSUME NEW k \in 1 .. Len(s), NEW l \in 1 .. Len(s), k < l
      PROVE  Aho!Before(s[k], s[l])
  <2>1. s[k] \in S /\ s[l] \in S /\ <<s[k], s[l]>> \in R
    BY <1>5, <1>6 DEF Lists
  <2> QED  BY <1>1, <2>1
<1> QED  BY <1>5, <1>6

LEMMA NumbersSorted ==
    ASSUME NEW n \in Nat, NEW S \in SUBSET (1 .. n), NEW s, s = Aho!Ascending(S)
    PROVE  Lists(s, S) /\ Ascends(s, Len(s))
<1> DEFINE R == {p \in S \X S : p[1] < p[2]}
<1>1. \A x, y \in S : <<x, y>> \in R <=> x < y
  OBVIOUS
<1>2. \A x \in S : x \in Nat
  OBVIOUS
<1>3. IsFiniteSet(S) /\ s = Aho!InOrder(S, R)
  <2>1. IsFiniteSet(1 .. n)
    BY FS_Interval
  <2> QED  BY <2>1, FS_Subset DEF Aho!Ascending
<1> HIDE DEF R
<1>4. Orders(R, S)
  BY <1>1, <1>2 DEF Orders
<1>5. Lists(s, S) /\ \A k, l \in 1 .. Len(s) : k < l => <<s[k], s[l]>> \in R
  BY <1>3, <1>4, InOrderIs
<1>6. ASSUME NEW k \in 1 .. Len(s), NEW l \in 1 .. Len(s), k < l PROVE s[k] < s[l]
  <2>1. s[k] \in S /\ s[l] \in S /\ <<s[k], s[l]>> \in R
    BY <1>5, <1>6 DEF Lists
  <2> QED  BY <1>1, <2>1
<1> QED  BY <1>5, <1>6 DEF Ascends

-----------------------------------------------------------------------------
(* Searching: the sweep *)

Sweeps(P) == [result : Seq(P), lastEnd : Nat]

LEMMA KeepIs ==
    ASSUME NEW P, \A m \in P : m[1] \in Nat /\ m[2] \in Nat,
           NEW acc \in Sweeps(P), NEW m \in P
    PROVE  /\ Aho!Keep(acc, m) \in Sweeps(P)
           /\ m[1] >= acc.lastEnd =>
                 /\ Aho!Keep(acc, m).result = Append(acc.result, m)
                 /\ Aho!Keep(acc, m).lastEnd = m[2]
           /\ ~(m[1] >= acc.lastEnd) => Aho!Keep(acc, m) = acc
<1>1. acc.result \in Seq(P) /\ acc.lastEnd \in Nat /\ Append(acc.result, m) \in Seq(P)
  BY DEF Sweeps
<1>2. CASE m[1] >= acc.lastEnd
  <2>1. Aho!Keep(acc, m) = [result |-> Append(acc.result, m), lastEnd |-> m[2]]
    BY <1>2 DEF Aho!Keep
  <2> QED  BY <1>1, <1>2, <2>1 DEF Sweeps
<1>3. CASE ~(m[1] >= acc.lastEnd)
  BY <1>3 DEF Aho!Keep
<1> QED  BY <1>2, <1>3

LEMMA KeepingIs ==
    ASSUME NEW P, \A m \in P : m[1] \in Nat /\ m[2] \in Nat, NEW s \in Seq(P)
    PROVE  /\ Aho!Keeping(s)[0] = [result |-> <<>>, lastEnd |-> 0]
           /\ \A k \in 1 .. Len(s) :
                 Aho!Keeping(s)[k] = Aho!Keep(Aho!Keeping(s)[k - 1], s[k])
<1> DEFINE n == Len(s)
           A == Sweeps(P)
           none == [result |-> <<>>, lastEnd |-> 0]
           T == Aho!Keeping(s)
           F == [x \in (1 .. n) \X A |-> Aho!Keep(x[2], s[x[1]])]
           Loop(f) == [k \in 0 .. n |-> IF k = 0 THEN none ELSE Aho!Keep(f[k - 1], s[k])]
<1>1. n \in Nat /\ none \in A /\ \A k \in 1 .. n : s[k] \in P
  BY DEF Sweeps
<1>2. F \in [(1 .. n) \X A -> A] /\ \A k \in 1 .. n, a \in A : F[<<k, a>>] = Aho!Keep(a, s[k])
  BY <1>1, KeepIs
<1>3. T = CHOOSE at : at = Loop(at)
  BY DEF Aho!Keeping
<1> HIDE DEF n, T, F, A, none
<1>4. PICK g \in [0 .. n -> A] : Follows(g, n, none, F)
  BY <1>1, <1>2, Recursion
<1>5. g[0] = none /\ \A k \in 1 .. n : g[k] = Aho!Keep(g[k - 1], s[k])
  <2>1. \A k \in 1 .. n : k - 1 \in 0 .. n
    BY <1>1
  <2> QED  BY <1>2, <1>4, <2>1 DEF Follows
<1>6. g = Loop(g)
  <2>1. \A k \in 0 .. n : k # 0 => k \in 1 .. n
    BY <1>1
  <2> QED  BY <1>4, <1>5, <2>1
<1>7. T = Loop(T)
  <2> HIDE DEF Loop
  <2> QED  BY <1>3, <1>6
<1>8. 0 \in 0 .. n /\ \A k \in 1 .. n : k \in 0 .. n /\ k # 0
  BY <1>1
<1>9. T[0] = none /\ \A k \in 1 .. n : T[k] = Aho!Keep(T[k - 1], s[k])
  BY <1>7, <1>8
<1> QED  BY <1>9 DEF T, n, none

\* m is in R, or a member of R that comes before it reaches past its beginning.
KeptOrHidden(R, m) ==
    \/ \E x \in 1 .. Len(R) : R[x] = m
    \/ \E x \in 1 .. Len(R) : Aho!Before(R[x], m) /\ m[1] < R[x][2]

\* After k of the sorted matches.
SweptTo(acc, s, k) ==
    /\ InPlace(acc.result)
    /\ \A x \in 1 .. Len(acc.result) : \E q \in 1 .. k : acc.result[x] = s[q]
    /\ \A x \in 1 .. Len(acc.result) : acc.result[x][2] <= acc.lastEnd
    /\ acc.lastEnd = 0 \/ \E x \in 1 .. Len(acc.result) : acc.result[x][2] = acc.lastEnd
    /\ \A q \in 1 .. k : KeptOrHidden(acc.result, s[q])

LEMMA KeepSweeps ==
    ASSUME NEW P, \A m \in P : m[1] \in Nat /\ m[2] \in Nat /\ m[1] <= m[2],
           NEW s \in Seq(P), \A k, l \in 1 .. Len(s) : k < l => Aho!Before(s[k], s[l]),
           NEW k \in Nat, k + 1 <= Len(s),
           NEW acc \in Sweeps(P), SweptTo(acc, s, k)
    PROVE  SweptTo(Aho!Keep(acc, s[k + 1]), s, k + 1)
<1> DEFINE m == s[k + 1]
           R == acc.result
           next == Aho!Keep(acc, m)
           Q == next.result
<1>1. m \in P /\ m[1] \in Nat /\ m[2] \in Nat /\ m[1] <= m[2] /\ k + 1 \in 1 .. Len(s)
  OBVIOUS
<1>2. R \in Seq(P) /\ Len(R) \in Nat /\ acc.lastEnd \in Nat
      /\ \A x \in 1 .. Len(R) : R[x] \in P /\ R[x][1] \in Nat /\ R[x][2] \in Nat
  BY DEF Sweeps
<1>3. /\ InPlace(R)
      /\ \A x \in 1 .. Len(R) : \E q \in 1 .. k : R[x] = s[q]
      /\ \A x \in 1 .. Len(R) : R[x][2] <= acc.lastEnd
      /\ acc.lastEnd = 0 \/ \E x \in 1 .. Len(R) : R[x][2] = acc.lastEnd
      /\ \A q \in 1 .. k : KeptOrHidden(R, s[q])
  BY DEF SweptTo
<1>4. \A q \in 1 .. k + 1 : q \in 1 .. k \/ q = k + 1
  OBVIOUS
<1>k. /\ m[1] >= acc.lastEnd => Q = Append(R, m) /\ next.lastEnd = m[2]
      /\ ~(m[1] >= acc.lastEnd) => next = acc
  <2> HIDE DEF m
  <2>1. \A x \in P : x[1] \in Nat /\ x[2] \in Nat
    OBVIOUS
  <2>2. m \in P /\ acc \in Sweeps(P)
    BY <1>1
  <2>3. /\ m[1] >= acc.lastEnd => /\ Aho!Keep(acc, m).result = Append(acc.result, m)
                                 /\ Aho!Keep(acc, m).lastEnd = m[2]
        /\ ~(m[1] >= acc.lastEnd) => Aho!Keep(acc, m) = acc
    BY ONLY <2>1, <2>2, KeepIs
  <2> QED  BY <2>3
<1>5. CASE m[1] >= acc.lastEnd
  <2>1. Q = Append(R, m) /\ next.lastEnd = m[2]
    BY <1>5, <1>k
  <2> HIDE DEF next, R, m
  <2>2. /\ Len(Q) = Len(R) + 1 /\ Q[Len(R) + 1] = m
        /\ \A x \in 1 .. Len(R) : Q[x] = R[x] /\ x \in 1 .. Len(Q)
    BY <1>1, <1>2, <2>1
  <2> HIDE DEF Q
  <2>3. \A x \in 1 .. Len(Q) : x \in 1 .. Len(R) \/ x = Len(R) + 1
    BY <1>2, <2>2
  <2>4. InPlace(Q)
    <3> SUFFICES ASSUME NEW x \in 1 .. Len(Q), NEW y \in 1 .. Len(Q), x < y
                 PROVE  Q[x][2] <= Q[y][1]
      BY DEF InPlace
    <3>1. x \in 1 .. Len(R)
      BY <1>2, <2>2, <2>3
    <3>2. CASE y \in 1 .. Len(R)
      <4>1. R[x][2] <= R[y][1]
        BY <1>3, <3>1, <3>2 DEF InPlace
      <4> QED  BY <2>2, <3>1, <3>2, <4>1
    <3>3. CASE y = Len(R) + 1
      <4>1. Q[x][2] = R[x][2] /\ R[x][2] \in Nat /\ R[x][2] <= acc.lastEnd /\ Q[y] = m
        BY <1>2, <1>3, <2>2, <3>1, <3>3
      <4>2. acc.lastEnd <= m[1] /\ acc.lastEnd \in Nat /\ m[1] \in Nat
        BY <1>1, <1>2, <1>5
      <4> QED  BY ONLY <4>1, <4>2
    <3> QED  BY <2>3, <3>2, <3>3
  <2>5. \A x \in 1 .. Len(Q) : \E q \in 1 .. k + 1 : Q[x] = s[q]
    <3>1. k + 1 \in 1 .. k + 1 /\ \A q \in 1 .. k : q \in 1 .. k + 1
      OBVIOUS
    <3> QED  BY <1>3, <2>2, <2>3, <3>1 DEF m
  <2>6. ASSUME NEW x \in 1 .. Len(Q) PROVE Q[x][2] <= next.lastEnd
    <3>1. CASE x \in 1 .. Len(R)
      <4>1. Q[x][2] = R[x][2] /\ R[x][2] \in Nat /\ R[x][2] <= acc.lastEnd
        BY <1>2, <1>3, <2>2, <3>1
      <4>2. acc.lastEnd <= m[1] /\ next.lastEnd = m[2] /\ acc.lastEnd \in Nat
        BY <1>1, <1>2, <1>5, <2>1
      <4>3. m[1] \in Nat /\ m[2] \in Nat /\ m[1] <= m[2]
        BY <1>1
      <4> HIDE DEF m
      <4> QED  BY ONLY <4>1, <4>2, <4>3
    <3>2. CASE x = Len(R) + 1
      BY <1>1, <2>1, <2>2, <3>2
    <3> QED  BY <2>3, <3>1, <3>2
  <2>7. \E x \in 1 .. Len(Q) : Q[x][2] = next.lastEnd
    <3>1. Len(R) + 1 \in 1 .. Len(Q)
      BY <1>2, <2>2
    <3> QED  BY <2>1, <2>2, <3>1
  <2>8. ASSUME NEW q \in 1 .. k + 1 PROVE KeptOrHidden(Q, s[q])
    <3>1. CASE q \in 1 .. k
      <4>1. KeptOrHidden(R, s[q])
        BY <1>3, <3>1
      <4>2. CASE \E x \in 1 .. Len(R) : R[x] = s[q]
        BY <2>2, <4>2 DEF KeptOrHidden
      <4>3. CASE \E x \in 1 .. Len(R) : Aho!Before(R[x], s[q]) /\ s[q][1] < R[x][2]
        BY <2>2, <4>3 DEF KeptOrHidden
      <4> QED  BY <4>1, <4>2, <4>3 DEF KeptOrHidden
    <3>2. CASE q = k + 1
      <4>1. Len(R) + 1 \in 1 .. Len(Q)
        BY <1>2, <2>2
      <4> QED  BY <2>2, <3>2, <4>1 DEF KeptOrHidden, m
    <3> QED  BY <1>4, <3>1, <3>2
  <2> QED  BY <2>4, <2>5, <2>6, <2>7, <2>8 DEF SweptTo, Q, next, m
<1>6. CASE ~(m[1] >= acc.lastEnd)
  <2>1. next = acc
    BY <1>6, <1>k
  <2> HIDE DEF next
  <2>2. acc.lastEnd # 0 /\ m[1] < acc.lastEnd
    BY <1>1, <1>2, <1>6
  <2>3. PICK x \in 1 .. Len(R) : R[x][2] = acc.lastEnd
    BY <1>3, <2>2
  <2>4. PICK q \in 1 .. k : R[x] = s[q]
    BY <1>3
  <2>5. Aho!Before(s[q], m)
    <3>1. q \in 1 .. Len(s) /\ q < k + 1
      OBVIOUS
    <3> QED  BY <1>1, <3>1
  <2>6. KeptOrHidden(R, m)
    <3> HIDE DEF m
    <3> QED  BY <2>2, <2>3, <2>4, <2>5 DEF KeptOrHidden
  <2>7. \A r \in 1 .. k + 1 : KeptOrHidden(R, s[r])
    BY <1>3, <1>4, <2>6
  <2>8. \A y \in 1 .. Len(R) : \E r \in 1 .. k + 1 : R[y] = s[r]
    <3>1. \A r \in 1 .. k : r \in 1 .. k + 1
      OBVIOUS
    <3> QED  BY <1>3, <3>1
  <2> QED  BY <1>3, <2>1, <2>7, <2>8 DEF SweptTo, next
<1> QED  BY <1>5, <1>6

\* search() keeps some of the matches, in order without overlap, and hides the others.
LEMMA SearchKeeps ==
    ASSUME AhoInv, NEW text \in Strs
    PROVE  /\ Aho!search(text) \in Seq(Aho!Matches(text)) /\ InPlace(Aho!search(text))
           /\ \A m \in Aho!Matches(text) : KeptOrHidden(Aho!search(text), m)
<1> DEFINE P == Aho!Matches(text)
           s == Aho!Sorted(P)
           T == Aho!Keeping(s)
           A == Sweeps(P)
           n == Len(s)
           S == {k \in Nat : k <= n => T[k] \in A /\ SweptTo(T[k], s, k)}
<1>0. Aho!search(text) = T[n].result
  BY DEF Aho!search
<1>1. P \subseteq Pairs(text) /\ \A m \in P : m[1] \in Nat /\ m[2] \in Nat /\ m[1] <= m[2]
  BY MatchesAre, PairIs
<1> HIDE DEF P
<1>2. /\ s \in Seq(P) /\ \A k, l \in 1 .. Len(s) : k < l => Aho!Before(s[k], s[l])
      /\ \A x \in P : \E k \in 1 .. Len(s) : s[k] = x
  <2>1. s = Aho!Sorted(P)
    OBVIOUS
  <2> HIDE DEF s, A, T, S, n
  <2>2. Lists(s, P) /\ \A k, l \in 1 .. Len(s) : k < l => Aho!Before(s[k], s[l])
    BY <1>1, <2>1, MatchesSorted
  <2> QED  BY <2>2 DEF Lists
<1> HIDE DEF s
<1>3. /\ T[0] = [result |-> <<>>, lastEnd |-> 0]
      /\ \A k \in 1 .. n : T[k] = Aho!Keep(T[k - 1], s[k])
      /\ n \in Nat
  BY <1>1, <1>2, KeepingIs
<1> HIDE DEF T, n
<1>4. 0 \in S
  <2>1. T[0] \in A
    BY <1>3 DEF Sweeps
  <2>2. T[0].result = <<>> /\ T[0].lastEnd = 0 /\ Len(T[0].result) = 0
    BY <1>3
  <2>3. SweptTo(T[0], s, 0)
    BY <2>2 DEF SweptTo, InPlace
  <2> QED  BY <2>1, <2>3
<1>5. ASSUME NEW k \in Nat, k \in S PROVE k + 1 \in S
  <2> SUFFICES ASSUME k + 1 <= n PROVE T[k + 1] \in A /\ SweptTo(T[k + 1], s, k + 1)
    OBVIOUS
  <2>1. T[k] \in A /\ SweptTo(T[k], s, k) /\ k + 1 \in 1 .. n /\ k + 1 - 1 = k
    BY <1>3, <1>5
  <2>2. T[k + 1] = Aho!Keep(T[k], s[k + 1]) /\ s[k + 1] \in P
    BY <1>2, <1>3, <2>1 DEF n
  <2>3. Aho!Keep(T[k], s[k + 1]) \in A
    BY <1>1, <2>1, <2>2, KeepIs
  <2>4. SweptTo(Aho!Keep(T[k], s[k + 1]), s, k + 1)
    BY <1>1, <1>2, <2>1, KeepSweeps DEF n
  <2> QED  BY <2>2, <2>3, <2>4
<1>6. Nat \subseteq S
  <2> HIDE DEF S
  <2> QED  BY <1>4, <1>5, Inductive
<1>7. T[n] \in A /\ SweptTo(T[n], s, n)
  BY <1>3, <1>6
<1>8. T[n].result \in Seq(P) /\ InPlace(T[n].result)
      /\ \A k \in 1 .. n : KeptOrHidden(T[n].result, s[k])
  BY <1>7 DEF SweptTo, Sweeps
<1>9. \A m \in P : KeptOrHidden(T[n].result, m)
  BY <1>2, <1>8 DEF n
<1> QED  BY <1>0, <1>8, <1>9 DEF P

\* What is reported stands in order without overlap, each an occurrence or empty.
LEMMA SearchIs ==
    ASSUME AhoInv, NEW text \in Strs
    PROVE  /\ Aho!search(text) \in Seq(Pairs(text)) /\ InPlace(Aho!search(text))
           /\ \A x \in 1 .. Len(Aho!search(text)) :
                 /\ Aho!search(text)[x][1] <= Aho!search(text)[x][2]
                 /\ Aho!NotEmpty(Aho!search(text)[x]) =>
                       Aho!search(text)[x] \in Aho!Occurrences(text)
           /\ Aho!contains(text) <=> Aho!search(text) # <<>>
<1> DEFINE R == Aho!search(text)
           M == Aho!Matches(text)
<1>1. R \in Seq(M) /\ InPlace(R) /\ \A m \in M : KeptOrHidden(R, m)
  BY SearchKeeps
<1>2. /\ M \subseteq Pairs(text)
      /\ \A m \in M : m[1] <= m[2] /\ (Aho!NotEmpty(m) => m \in Aho!Occurrences(text))
      /\ Aho!contains(text) <=> M # {}
  BY MatchesAre
<1> HIDE DEF R, M
<1>3. R \in Seq(Pairs(text)) /\ \A x \in 1 .. Len(R) : R[x] \in M
  BY <1>1, <1>2
<1>4. R # <<>> => M # {}
  <2>1. R # <<>> => 1 \in 1 .. Len(R)
    BY <1>1
  <2> QED  BY <1>3, <2>1
<1>5. M # {} => R # <<>>
  BY <1>1 DEF KeptOrHidden
<1> QED  BY <1>1, <1>2, <1>3, <1>4, <1>5 DEF R

LEMMA LeftmostLongestIs ==
    ASSUME AhoInv, built, NEW text \in Strs
    PROVE  Aho!LeftmostLongest({m \in Aho!Range(Aho!search(text)) : Aho!NotEmpty(m)}, text)
<1> DEFINE R == Aho!search(text)
           M == Aho!Matches(text)
           Occ == Aho!Occurrences(text)
           K == {m \in Aho!Range(R) : Aho!NotEmpty(m)}
<1>1. R \in Seq(M) /\ InPlace(R) /\ \A m \in M : KeptOrHidden(R, m)
  BY SearchKeeps
<1>2. /\ M \subseteq Pairs(text) /\ Occ \subseteq M
      /\ \A m \in M : Aho!NotEmpty(m) => m \in Occ
  BY MatchesAre
<1>3. \A m \in M : m[1] \in Nat /\ m[2] \in Nat
  BY <1>2, PairIs
<1>4. \A o \in Occ : Aho!NotEmpty(o)
  BY DEF Aho!Occurrences, Aho!NotEmpty
<1> HIDE DEF R, M, Occ
<1>5. \A m : m \in K <=> Aho!NotEmpty(m) /\ \E x \in 1 .. Len(R) : m = R[x]
  BY <1>1 DEF Aho!Range
<1> HIDE DEF K
<1>6. ASSUME NEW m \in K
      PROVE  m \in Occ /\ ~\E n \in K : Aho!Before(n, m) /\ m[1] < n[2]
  <2>1. PICK y \in 1 .. Len(R) : m = R[y]
    BY <1>5
  <2>2. m \in M /\ m[1] < m[2] /\ m \in Occ
    BY <1>1, <1>2, <1>5, <2>1 DEF Aho!NotEmpty
  <2>3. ASSUME NEW n \in K, Aho!Before(n, m), m[1] < n[2] PROVE FALSE
    <3>1. PICK x \in 1 .. Len(R) : n = R[x]
      BY <1>5
    <3>2. n \in M /\ n[1] \in Nat /\ n[2] \in Nat /\ m[1] \in Nat /\ m[2] \in Nat
      BY <1>1, <1>3, <2>2, <3>1
    <3>3. CASE x < y
      <4>1. n[2] <= m[1]
        BY <1>1, <2>1, <3>1, <3>3 DEF InPlace
      <4> QED  BY <2>3, <3>2, <4>1
    <3>4. CASE y < x
      <4>1. m[2] <= n[1]
        BY <1>1, <2>1, <3>1, <3>4 DEF InPlace
      <4> QED  BY <2>2, <2>3, <3>2, <4>1 DEF Aho!Before
    <3>5. CASE x = y
      BY <2>1, <2>3, <3>1, <3>2, <3>5 DEF Aho!Before
    <3> QED  BY <1>1, <3>3, <3>4, <3>5
  <2> QED  BY <2>2, <2>3
<1>7. ASSUME NEW o \in Occ, ~\E n \in K : Aho!Before(n, o) /\ o[1] < n[2]
      PROVE  o \in K
  <2>1. KeptOrHidden(R, o) /\ o \in M
    BY <1>1, <1>2
  <2>2. ASSUME NEW x \in 1 .. Len(R), Aho!Before(R[x], o), o[1] < R[x][2] PROVE FALSE
    <3>1. R[x] \in M /\ R[x][1] \in Nat /\ R[x][2] \in Nat /\ o[1] \in Nat /\ o[2] \in Nat
      BY <1>1, <1>3, <2>1
    <3>2. R[x][1] < R[x][2]
      BY <2>2, <3>1 DEF Aho!Before
    <3>3. R[x] \in K
      BY <1>5, <3>2 DEF Aho!NotEmpty
    <3> QED  BY <1>7, <2>2, <3>3
  <2> QED  BY <1>4, <1>5, <2>1, <2>2 DEF KeptOrHidden
<1>8. K = {o \in Occ : ~\E m \in K : Aho!Before(m, o) /\ o[1] < m[2]}
  BY <1>6, <1>7
<1> QED  BY <1>8 DEF Aho!LeftmostLongest, K, R, Occ

-----------------------------------------------------------------------------
(* What removeAll() leaves *)

\* A stretch of the text, behind what is copied already.
LEMMA StretchIs ==
    ASSUME NEW text \in Strs, NEW out \in Strs, NEW x \in Nat, NEW y \in 0 .. Len(text)
    PROVE  /\ out \o SubSeq(text, x + 1, y) \in Strs
           /\ x >= y => out \o SubSeq(text, x + 1, y) = out
           /\ x <= y =>
                 /\ Len(out \o SubSeq(text, x + 1, y)) = Len(out) + (y - x)
                 /\ \A p \in 1 .. Len(out) + (y - x) :
                       (out \o SubSeq(text, x + 1, y))[p] =
                          IF p <= Len(out) THEN out[p] ELSE text[x + (p - Len(out))]
<1> DEFINE s == SubSeq(text, x + 1, y)
           C == DOMAIN Fold
<1>1. /\ text \in Seq(C) /\ out \in Seq(C) /\ Len(text) \in Nat /\ Len(out) \in Nat
      /\ x + 1 \in Int /\ y \in Int /\ y \in Nat
  BY DEF Strs
<1>2. \A k \in x + 1 .. y : k \in 1 .. Len(text)
  BY <1>1
<1>3. \A k \in x + 1 .. y : text[k] \in C
  BY <1>1, <1>2
<1> HIDE DEF C
<1>4. /\ s \in Seq(C)
      /\ Len(s) = IF x + 1 <= y THEN y - (x + 1) + 1 ELSE 0
      /\ \A k \in 1 .. y - (x + 1) + 1 : s[k] = text[x + 1 + k - 1]
  BY <1>1, <1>3, SubSeqProperties
<1> HIDE DEF s
<1>5. /\ out \o s \in Seq(C)
      /\ Len(out \o s) = Len(out) + Len(s)
      /\ \A p \in 1 .. Len(out) + Len(s) :
            (out \o s)[p] = IF p <= Len(out) THEN out[p] ELSE s[p - Len(out)]
  BY <1>1, <1>4, ConcatProperties
<1>6. ASSUME x >= y PROVE out \o s = out
  <2>1. Len(s) = 0
    BY <1>1, <1>4, <1>6
  <2>2. s = <<>>
    BY <1>4, <2>1, EmptySeq
  <2> QED  BY <1>1, <2>2, ConcatEmptySeq
<1>7. ASSUME x <= y
      PROVE  Len(s) = y - x /\ \A k \in 1 .. y - x : s[k] = text[x + k]
  <2>1. Len(s) = y - x
    BY <1>1, <1>4, <1>7
  <2>2. ASSUME NEW k \in 1 .. y - x PROVE s[k] = text[x + k]
    <3>1. k \in 1 .. y - (x + 1) + 1 /\ x + 1 + k - 1 = x + k
      BY <1>1
    <3> QED  BY <1>4, <3>1
  <2> QED  BY <2>1, <2>2
<1>8. ASSUME x <= y, NEW p \in 1 .. Len(out) + (y - x)
      PROVE  (out \o s)[p] = IF p <= Len(out) THEN out[p] ELSE text[x + (p - Len(out))]
  <2>1. Len(s) = y - x /\ \A k \in 1 .. y - x : s[k] = text[x + k]
    BY <1>7, <1>8
  <2>2. (out \o s)[p] = IF p <= Len(out) THEN out[p] ELSE s[p - Len(out)]
    BY <1>5, <2>1
  <2>3. ~(p <= Len(out)) => p - Len(out) \in 1 .. y - x
    BY <1>1
  <2> QED  BY <2>1, <2>2, <2>3
<1> QED  BY <1>5, <1>6, <1>7, <1>8 DEF s, C, Strs

Remains == [result : Strs, index : Nat]

LEMMA AhoCutIs ==
    ASSUME NEW text \in Strs, NEW acc \in Remains, NEW m \in Pairs(text)
    PROVE  /\ Aho!Cut(acc, m, text) \in Remains
           /\ Aho!Cut(acc, m, text).result =
                 acc.result \o SubSeq(text, acc.index + 1, m[1])
           /\ m[2] >= acc.index => Aho!Cut(acc, m, text).index = m[2]
<1> DEFINE more == acc.result \o SubSeq(text, acc.index + 1, m[1])
           next == Aho!Cut(acc, m, text)
           end == IF m[2] > acc.index THEN m[2] ELSE acc.index
<1>1. acc.result \in Strs /\ acc.index \in Nat
  BY DEF Remains
<1>2. m[1] \in 0 .. Len(text) /\ m[1] \in Nat /\ m[2] \in Nat
  BY PairIs
<1>3. more \in Strs /\ (acc.index >= m[1] => more = acc.result)
  <2> DEFINE out == acc.result
             x == acc.index
             y == m[1]
  <2>1. out \in Strs /\ x \in Nat /\ y \in 0 .. Len(text)
    BY <1>1, <1>2
  <2> HIDE DEF out, x, y
  <2>2. out \o SubSeq(text, x + 1, y) \in Strs
        /\ (x >= y => out \o SubSeq(text, x + 1, y) = out)
    BY <2>1, StretchIs
  <2> QED  BY <2>2 DEF out, x, y
<1>4. next = [result |-> IF m[1] > acc.index THEN more ELSE acc.result, index |-> end]
  BY DEF Aho!Cut
<1>5. end \in Nat /\ (m[2] >= acc.index => end = m[2])
  BY <1>1, <1>2
<1> HIDE DEF more, next, end
<1>6. (IF m[1] > acc.index THEN more ELSE acc.result) = more
  BY <1>1, <1>2, <1>3
<1>7. next = [result |-> more, index |-> end]
  BY <1>4, <1>6
<1>8. next \in Remains /\ next.result = more /\ next.index = end
  BY <1>3, <1>5, <1>7 DEF Remains
<1> QED  BY <1>5, <1>8 DEF next, more

LEMMA AhoCuttingIs ==
    ASSUME NEW text \in Strs, NEW R \in Seq(Pairs(text))
    PROVE  /\ Aho!Cutting(R, text)[0] = [result |-> <<>>, index |-> 0]
           /\ \A k \in 1 .. Len(R) :
                 Aho!Cutting(R, text)[k] = Aho!Cut(Aho!Cutting(R, text)[k - 1], R[k], text)
<1> DEFINE n == Len(R)
           none == [result |-> <<>>, index |-> 0]
           T == Aho!Cutting(R, text)
           F == [x \in (1 .. n) \X Remains |-> Aho!Cut(x[2], R[x[1]], text)]
           Loop(f) == [k \in 0 .. n |-> IF k = 0 THEN none ELSE Aho!Cut(f[k - 1], R[k], text)]
<1>1. n \in Nat /\ none \in Remains /\ \A k \in 1 .. n : R[k] \in Pairs(text)
  BY DEF Remains, Strs
<1>2. /\ F \in [(1 .. n) \X Remains -> Remains]
      /\ \A k \in 1 .. n, a \in Remains : F[<<k, a>>] = Aho!Cut(a, R[k], text)
  BY <1>1, AhoCutIs
<1>3. T = CHOOSE at : at = Loop(at)
  BY DEF Aho!Cutting
<1> HIDE DEF n, T, F, none
<1>4. PICK g \in [0 .. n -> Remains] : Follows(g, n, none, F)
  BY <1>1, <1>2, Recursion
<1>5. g[0] = none /\ \A k \in 1 .. n : g[k] = Aho!Cut(g[k - 1], R[k], text)
  <2>1. \A k \in 1 .. n : k - 1 \in 0 .. n
    BY <1>1
  <2> QED  BY <1>2, <1>4, <2>1 DEF Follows
<1>6. g = Loop(g)
  <2>1. \A k \in 0 .. n : k # 0 => k \in 1 .. n
    BY <1>1
  <2> QED  BY <1>4, <1>5, <2>1
<1>7. T = Loop(T)
  <2> HIDE DEF Loop
  <2> QED  BY <1>3, <1>6
<1>8. 0 \in 0 .. n /\ \A k \in 1 .. n : k \in 0 .. n /\ k # 0
  BY <1>1
<1>9. T[0] = none /\ \A k \in 1 .. n : T[k] = Aho!Cut(T[k - 1], R[k], text)
  BY <1>7, <1>8
<1> QED  BY <1>9 DEF T, n, none

\* A position that no interval of R covers.
Left(R, q) == \A k \in 1 .. Len(R) : ~(R[k][1] < q /\ q <= R[k][2])

\* Of the first x characters of the text, out has those that are left, L their positions.
Picks(out, L, x, R, text) ==
    /\ \A p \in 1 .. Len(out) : L[p] \in 1 .. x /\ Left(R, L[p]) /\ out[p] = text[L[p]]
    /\ Ascends(L, Len(out))
    /\ \A q \in 1 .. x : Left(R, q) => \E p \in 1 .. Len(out) : L[p] = q

LEMMA StretchPicks ==
    ASSUME NEW text \in Strs, NEW out \in Strs, NEW x \in Nat, NEW y \in 0 .. Len(text),
           x <= y, NEW R, NEW L, Picks(out, L, x, R, text), \A q \in x + 1 .. y : Left(R, q)
    PROVE  \E M : Picks(out \o SubSeq(text, x + 1, y), M, y, R, text)
<1> DEFINE n == Len(out)
           more == out \o SubSeq(text, x + 1, y)
           l == n + (y - x)
           M == [p \in 1 .. l |-> IF p <= n THEN L[p] ELSE x + (p - n)]
<1>1. n \in Nat /\ y \in Nat
  BY DEF Strs
<1>2. Len(more) = l /\ \A p \in 1 .. l : more[p] = IF p <= n THEN out[p] ELSE text[x + (p - n)]
  BY StretchIs
<1>3. /\ \A p \in 1 .. n : L[p] \in 1 .. x /\ Left(R, L[p]) /\ out[p] = text[L[p]]
      /\ Ascends(L, n)
      /\ \A q \in 1 .. x : Left(R, q) => \E p \in 1 .. n : L[p] = q
  BY DEF Picks
<1>4. \A p \in 1 .. n : p \in 1 .. l /\ more[p] = out[p] /\ M[p] = L[p]
  BY <1>1, <1>2
<1>5. \A p \in 1 .. l : p \notin 1 .. n =>
         M[p] = x + (p - n) /\ more[p] = text[M[p]] /\ M[p] \in x + 1 .. y
  BY <1>1, <1>2
<1> HIDE DEF more, M
<1>6. ASSUME NEW p \in 1 .. l
      PROVE  M[p] \in 1 .. y /\ Left(R, M[p]) /\ more[p] = text[M[p]]
  <2>1. CASE p \in 1 .. n
    <3>1. L[p] \in 1 .. x /\ M[p] = L[p]
      BY <1>3, <1>4, <2>1
    <3>2. M[p] \in 1 .. y
      BY <1>1, <3>1
    <3> QED  BY <1>3, <1>4, <2>1, <3>2
  <2>2. CASE p \notin 1 .. n
    <3>1. M[p] \in x + 1 .. y /\ more[p] = text[M[p]]
      BY <1>5, <2>2
    <3>2. M[p] \in 1 .. y
      BY <1>1, <3>1
    <3> QED  BY <3>1, <3>2
  <2> QED  BY <2>1, <2>2
<1>7. Ascends(M, l)
  <2> SUFFICES ASSUME NEW p \in 1 .. l, NEW q \in 1 .. l, p < q PROVE M[p] < M[q]
    BY DEF Ascends
  <2>1. CASE q \in 1 .. n
    <3>1. p \in 1 .. n
      BY <2>1
    <3>2. L[p] < L[q]
      BY <1>3, <2>1, <3>1 DEF Ascends
    <3> QED  BY <1>4, <2>1, <3>1, <3>2
  <2>2. CASE q \notin 1 .. n
    <3>1. M[q] = x + (q - n) /\ M[q] \in x + 1 .. y
      BY <1>5, <2>2
    <3>2. CASE p \in 1 .. n
      <4>1. L[p] \in 1 .. x /\ M[p] = L[p]
        BY <1>3, <1>4, <3>2
      <4> QED  BY <1>1, <3>1, <4>1
    <3>3. CASE p \notin 1 .. n
      <4>1. M[p] = x + (p - n)
        BY <1>5, <3>3
      <4> QED  BY <1>1, <3>1, <4>1
    <3> QED  BY <3>2, <3>3
  <2> QED  BY <2>1, <2>2
<1>8. ASSUME NEW q \in 1 .. y, Left(R, q) PROVE \E p \in 1 .. l : M[p] = q
  <2>1. CASE q \in 1 .. x
    <3>1. PICK p \in 1 .. n : L[p] = q
      BY <1>3, <1>8, <2>1
    <3> QED  BY <1>4, <3>1
  <2>2. CASE q \notin 1 .. x
    <3> DEFINE p == n + (q - x)
    <3>1. p \in 1 .. l /\ p \notin 1 .. n /\ x + (p - n) = q
      BY <1>1, <2>2
    <3> HIDE DEF p
    <3> QED  BY <1>5, <3>1
  <2> QED  BY <2>1, <2>2
<1>9. Picks(more, M, y, R, text)
  BY <1>2, <1>6, <1>7, <1>8 DEF Picks
<1> QED  BY <1>9 DEF more

\* An interval is passed over.
LEMMA IntervalPicks ==
    ASSUME NEW out, NEW x \in Nat, NEW y \in Nat, x <= y, NEW R, NEW L, NEW text,
           Picks(out, L, x, R, text), \A q \in x + 1 .. y : ~Left(R, q)
    PROVE  Picks(out, L, y, R, text)
<1>1. \A q \in 1 .. x : q \in 1 .. y
  OBVIOUS
<1>2. \A q \in 1 .. y : Left(R, q) => q \in 1 .. x
  OBVIOUS
<1> QED  BY <1>1, <1>2 DEF Picks

LEMMA RemovePicks ==
    ASSUME AhoInv, NEW text \in Strs
    PROVE  /\ Aho!removeAll(text) \in Strs
           /\ \E L : Picks(Aho!removeAll(text), L, Len(text), Aho!search(text), text)
<1> DEFINE R == Aho!search(text)
           n == Len(R)
           N == Len(text)
           T == Aho!Cutting(R, text)
           At(k) == IF k = 0 THEN 0 ELSE R[k][2]
           S == {k \in Nat : k <= n => /\ T[k] \in Remains /\ T[k].index = At(k)
                                       /\ \E L : Picks(T[k].result, L, At(k), R, text)}
<1>0. Aho!removeAll(text) = T[n].result \o SubSeq(text, T[n].index + 1, N)
  BY DEF Aho!removeAll
<1>1. /\ R \in Seq(Pairs(text)) /\ n \in Nat /\ N \in Nat
      /\ \A k, l \in 1 .. n : k < l => R[k][2] <= R[l][1]
      /\ \A k \in 1 .. n : R[k][1] <= R[k][2]
  BY SearchIs DEF InPlace, Strs
<1> HIDE DEF R
<1>2. \A k \in 1 .. n : /\ R[k] \in Pairs(text) /\ R[k][1] \in Nat /\ R[k][2] \in Nat
                        /\ R[k][1] \in 0 .. N /\ R[k][2] \in 0 .. N
  BY <1>1, PairIs
<1>3. /\ T[0] = [result |-> <<>>, index |-> 0]
      /\ \A k \in 1 .. n : T[k] = Aho!Cut(T[k - 1], R[k], text)
  BY <1>1, AhoCuttingIs
<1> HIDE DEF T, n, N
<1>m. ASSUME NEW k \in 1 .. n, NEW l \in 1 .. n, k <= l
      PROVE  R[k][1] <= R[l][1] /\ R[k][2] <= R[l][2]
  <2>1. CASE k = l
    BY <1>2, <2>1
  <2>2. CASE k < l
    <3>1. R[k][2] <= R[l][1] /\ R[k][1] <= R[k][2] /\ R[l][1] <= R[l][2]
      BY <1>1, <2>2
    <3>2. R[k][1] \in Nat /\ R[k][2] \in Nat /\ R[l][1] \in Nat /\ R[l][2] \in Nat
      BY <1>2
    <3> QED  BY <3>1, <3>2
  <2> QED  BY <1>m, <2>1, <2>2
<1>4. \A k \in 0 .. n, q \in Nat :
         (At(k) < q /\ (k + 1 <= n => q <= R[k + 1][1])) => Left(R, q)
  <2> SUFFICES ASSUME NEW k \in 0 .. n, NEW q \in Nat, At(k) < q,
                      k + 1 <= n => q <= R[k + 1][1],
                      NEW l \in 1 .. n, R[l][1] < q, q <= R[l][2]
               PROVE  FALSE
    BY DEF Left, n
  <2>1. CASE l <= k
    <3>1. k \in 1 .. n /\ k # 0 /\ At(k) = R[k][2]
      BY <1>1, <2>1
    <3>2. R[l][2] <= R[k][2]
      BY <1>m, <2>1, <3>1
    <3> QED  BY <1>2, <3>1, <3>2
  <2>2. CASE k < l
    <3>1. k + 1 \in 1 .. n /\ k + 1 <= l
      BY <1>1, <2>2
    <3>2. R[k + 1][1] <= R[l][1]
      BY <1>m, <3>1
    <3> QED  BY <1>2, <3>1, <3>2
  <2> QED  BY <1>1, <2>1, <2>2
<1>5. 0 \in S
  <2> DEFINE L == <<>>
  <2>1. T[0].index = 0 /\ T[0].result = <<>> /\ Len(<<>>) = 0 /\ T[0] \in Remains
    BY <1>3 DEF Remains, Strs
  <2>2. Picks(<<>>, L, 0, R, text)
    BY <2>1 DEF Picks, Ascends
  <2> QED  BY <2>1, <2>2
<1>6. ASSUME NEW k \in Nat, k \in S PROVE k + 1 \in S
  <2> SUFFICES ASSUME k + 1 <= n
               PROVE  /\ T[k + 1] \in Remains /\ T[k + 1].index = At(k + 1)
                      /\ \E L : Picks(T[k + 1].result, L, At(k + 1), R, text)
    OBVIOUS
  <2> DEFINE out == T[k].result
             x == At(k)
             m == R[k + 1]
             y == m[1]
             z == m[2]
             more == out \o SubSeq(text, x + 1, y)
             next == Aho!Cut(T[k], m, text)
  <2>1. k \in 0 .. n /\ k + 1 \in 1 .. n /\ k + 1 - 1 = k /\ k + 1 # 0 /\ At(k + 1) = z
    BY <1>1
  <2>2. T[k] \in Remains /\ T[k].index = x /\ out \in Strs /\ x \in Nat
    BY <1>6, <2>1 DEF Remains
  <2>3. PICK L : Picks(out, L, x, R, text)
    BY <1>6, <2>1
  <2>4. T[k + 1] = next
    BY <1>3, <2>1
  <2>5. m \in Pairs(text) /\ y \in 0 .. N /\ y \in Nat /\ z \in Nat /\ y <= z
    BY <1>1, <1>2, <2>1
  <2>6. x <= y
    <3>1. CASE k = 0
      BY <2>5, <3>1
    <3>2. CASE k # 0
      <4>1. k \in 1 .. n /\ k < k + 1 /\ x = R[k][2]
        BY <2>1, <3>2
      <4> QED  BY <1>1, <2>1, <4>1
    <3> QED  BY <3>1, <3>2
  <2>7. \A q \in x + 1 .. y : Left(R, q)
    BY <1>1, <1>4, <2>1, <2>2, <2>5
  <2>8. \A q \in y + 1 .. z : ~Left(R, q)
    <3> SUFFICES ASSUME NEW q \in y + 1 .. z PROVE ~Left(R, q)
      OBVIOUS
    <3>1. y < q /\ q <= z
      BY <2>5
    <3> QED  BY <2>1, <3>1 DEF Left, n
  <2> HIDE DEF At, x, y, z, m, next
  <2>9. next \in Remains /\ next.index = z /\ next.result = more
    <3>1. /\ next \in Remains
          /\ next.result = T[k].result \o SubSeq(text, T[k].index + 1, m[1])
          /\ m[2] >= T[k].index => next.index = m[2]
      BY <2>2, <2>5, AhoCutIs DEF next
    <3>2. m[2] = z /\ m[1] = y /\ T[k].index = x /\ z >= x
      BY <2>2, <2>5, <2>6 DEF y, z
    <3> QED  BY <3>1, <3>2
  <2> HIDE DEF out, more
  <2>10. PICK M : Picks(more, M, y, R, text)
    BY <2>2, <2>3, <2>5, <2>6, <2>7, StretchPicks DEF more, N
  <2>11. Picks(more, M, z, R, text)
    BY <2>5, <2>8, <2>10, IntervalPicks
  <2> QED  BY <2>1, <2>4, <2>9, <2>11
<1>7. Nat \subseteq S
  <2> HIDE DEF S
  <2> QED  BY <1>5, <1>6, Inductive
<1>8. T[n] \in Remains /\ T[n].index = At(n) /\ \E L : Picks(T[n].result, L, At(n), R, text)
  BY <1>1, <1>7
<1> DEFINE out == T[n].result
           x == At(n)
           all == out \o SubSeq(text, x + 1, N)
<1>9. out \in Strs /\ x \in Nat /\ x <= N
  <2>1. n \in 1 .. n \/ n = 0
    BY <1>1
  <2>2. x \in Nat /\ x <= N
    BY <1>1, <1>2, <2>1
  <2> QED  BY <1>8, <2>2 DEF Remains
<1>10. \A q \in x + 1 .. N : Left(R, q)
  BY <1>1, <1>4, <1>9
<1>11. PICK L : Picks(out, L, x, R, text)
  BY <1>8
<1>12. Aho!removeAll(text) = all
  BY <1>0, <1>8
<1> HIDE DEF out, x, At
<1>13. N \in 0 .. Len(text)
  BY <1>1 DEF N
<1>14. all \in Strs
  BY <1>9, <1>13, StretchIs
<1>15. \E M : Picks(all, M, N, R, text)
  BY <1>9, <1>10, <1>11, <1>13, StretchPicks
<1> HIDE DEF all
<1> QED  BY <1>12, <1>14, <1>15 DEF R, N

\* removeAll() leaves the characters at the positions that are left, in their order.
LEMMA RemoveIs ==
    ASSUME AhoInv, NEW text \in Strs, NEW K,
           \A q : q \in K <=> q \in 1 .. Len(text) /\ Left(Aho!search(text), q)
    PROVE  Aho!removeAll(text) =
              [k \in 1 .. Len(Aho!Ascending(K)) |-> text[Aho!Ascending(K)[k]]]
<1> DEFINE R == Aho!search(text)
           out == Aho!removeAll(text)
           s == Aho!Ascending(K)
           n == Len(out)
           l == Len(s)
<1>1. out \in Strs /\ \E L : Picks(out, L, Len(text), R, text)
  BY RemovePicks
<1>2. Len(text) \in Nat /\ K \subseteq 1 .. Len(text) /\ n \in Nat
      /\ out = [k \in 1 .. n |-> out[k]]
  BY <1>1 DEF Strs
<1>3. /\ s \in Seq(K) /\ Ascends(s, Len(s))
      /\ \A q \in K : \E k \in 1 .. Len(s) : s[k] = q
  <2> DEFINE N == Len(text)
  <2>1. N \in Nat /\ K \in SUBSET (1 .. N)
    BY <1>2
  <2> HIDE DEF N, s
  <2>2. Lists(s, K) /\ Ascends(s, Len(s))
    BY <2>1, NumbersSorted DEF s
  <2> QED  BY <2>2 DEF Lists
<1> HIDE DEF s, out, R
<1>4. PICK L : Picks(out, L, Len(text), R, text)
  BY <1>1
<1>5. /\ \A p \in 1 .. n : L[p] \in 1 .. Len(text) /\ Left(R, L[p]) /\ out[p] = text[L[p]]
      /\ Ascends(L, n)
      /\ \A q \in 1 .. Len(text) : Left(R, q) => \E p \in 1 .. n : L[p] = q
  BY <1>4 DEF Picks
<1>6. \A q : q \in K <=> q \in 1 .. Len(text) /\ Left(R, q)
  BY DEF R
<1>7. Numbered(L, n) /\ Ascends(L, n) /\ Numbered(s, l) /\ Ascends(s, l) /\ l \in Nat
  <2>1. \A p \in 1 .. n : L[p] \in Nat
    BY <1>2, <1>5
  <2>2. \A k \in 1 .. l : s[k] \in K
    BY <1>3
  <2>3. \A k \in 1 .. l : s[k] \in Nat
    BY <1>2, <2>2
  <2> QED  BY <1>3, <1>5, <2>1, <2>3 DEF Numbered, Ascends
<1>8. \A h : Through(L, n, h) <=> h \in K
  BY <1>5, <1>6 DEF Through
<1>9. \A h : Through(s, l, h) <=> h \in K
  <2>1. \A k \in 1 .. l : s[k] \in K
    BY <1>3
  <2> QED  BY <1>3, <2>1 DEF Through
<1>10. SameValues(L, n, s, l) /\ SameValues(s, l, L, n)
  BY <1>8, <1>9 DEF SameValues
<1> HIDE DEF n, l
<1>11. n <= l /\ \A k \in 1 .. n : L[k] = s[k]
  BY <1>2, <1>7, <1>10, SameAscent
<1>12. l <= n
  BY <1>2, <1>7, <1>10, SameAscent
<1>13. n = l
  BY <1>2, <1>7, <1>11, <1>12
<1>14. \A k \in 1 .. n : out[k] = text[s[k]]
  BY <1>5, <1>11
<1>15. out = [k \in 1 .. l |-> text[s[k]]]
  BY <1>2, <1>13, <1>14
<1> QED  BY <1>15 DEF out, s, l

-----------------------------------------------------------------------------
(* The theorem *)

LEMMA AhoSearches == AhoInv => Aho!FindsLeftmostLongest
<1> SUFFICES ASSUME AhoInv, built, NEW t \in Haystacks
             PROVE  Aho!LeftmostLongest({m \in Aho!Range(Aho!search(t)) : Aho!NotEmpty(m)}, t)
  BY DEF Aho!FindsLeftmostLongest
<1>1. t \in Strs
  BY SearchAssumption DEF Strs
<1> QED  BY <1>1, LeftmostLongestIs

LEMMA AhoSound == AhoInv => Aho!SoundAtAnyTime
<1> SUFFICES ASSUME AhoInv PROVE Aho!SoundAtAnyTime
  OBVIOUS
<1> DEFINE Gone(t) == {k \in 1 .. Len(t) : \E x \in DOMAIN Aho!search(t) :
                          Aho!search(t)[x][1] < k /\ k <= Aho!search(t)[x][2]}
           K(t) == (1 .. Len(t)) \ Gone(t)
<1>1. ASSUME NEW t \in Haystacks
      PROVE  /\ \A x \in DOMAIN Aho!search(t) : Aho!NotEmpty(Aho!search(t)[x]) =>
                   Aho!search(t)[x] \in Aho!Occurrences(t)
             /\ \A x, y \in DOMAIN Aho!search(t) :
                   x < y => Aho!search(t)[x][2] <= Aho!search(t)[y][1]
             /\ Aho!contains(t) <=> Aho!search(t) # <<>>
             /\ Aho!removeAll(t) =
                   [k \in 1 .. Len(Aho!Ascending(K(t))) |-> t[Aho!Ascending(K(t))[k]]]
  <2> DEFINE R == Aho!search(t)
  <2>1. t \in Strs
    BY SearchAssumption DEF Strs
  <2>2. /\ R \in Seq(Pairs(t)) /\ InPlace(R)
        /\ \A x \in 1 .. Len(R) : Aho!NotEmpty(R[x]) => R[x] \in Aho!Occurrences(t)
        /\ Aho!contains(t) <=> R # <<>>
    BY <2>1, SearchIs
  <2>3. DOMAIN R = 1 .. Len(R)
    BY <2>2
  <2>4. \A x, y \in DOMAIN R : x < y => R[x][2] <= R[y][1]
    BY <2>2, <2>3 DEF InPlace
  <2>5. \A q : q \in K(t) <=> q \in 1 .. Len(t) /\ Left(R, q)
    BY <2>3 DEF Left
  <2> HIDE DEF K
  <2>6. Aho!removeAll(t) =
           [k \in 1 .. Len(Aho!Ascending(K(t))) |-> t[Aho!Ascending(K(t))[k]]]
    BY <2>1, <2>5, RemoveIs
  <2> QED  BY <2>2, <2>3, <2>4, <2>6
<1> QED  BY <1>1 DEF Aho!SoundAtAnyTime

\* With any patterns, over any alphabet and any way to fold it, added and built in any order:
\* after build() the search finds, in any text, the leftmost-longest choice among all the
\* occurrences of all patterns; at any moment what it reports stands in the text, in order
\* without overlap, contains() agrees with it, and removeAll() leaves what it does not report.
THEOREM SearchesAreExact == TextSpec => []SearchIsExact
<1> DEFINE Inv == tool = "aho" => AhoInv
<1>1. TextInit => Inv
  BY AhoInit DEF TextInit
<1>2. Inv /\ [TextNext]_textVars => Inv'
  <2> SUFFICES ASSUME Inv, [TextNext]_textVars PROVE Inv'
    OBVIOUS
  <2>1. CASE tool = "aho" /\ Aho!Next /\ UNCHANGED tool
    BY <2>1, AhoStep
  <2>2. CASE tool # "aho" /\ UNCHANGED tool
    BY <2>2
  <2>3. CASE UNCHANGED <<tool, ahoVars>>
    <3>1. /\ tool' = tool /\ patterns' = patterns /\ nodes' = nodes /\ fail' = fail
          /\ outputs' = outputs /\ built' = built
      BY <2>3 DEF ahoVars
    <3> QED  BY <3>1 DEF AhoInv, LongestBelow
  <2> QED  BY <2>1, <2>2, <2>3 DEF TextNext, textVars
<1>3. Inv => SearchIsExact
  BY AhoType, AhoSearches, AhoSound DEF SearchIsExact
<1> QED  BY <1>1, <1>2, <1>3, PTL DEF TextSpec
=============================================================================
