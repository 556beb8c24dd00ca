---------------------------- MODULE Serve_proofs ----------------------------
(***************************************************************************)
(* Proofs about Serve and XXRouter, for every set of routes, queries,       *)
(* methods and requests, every capacity of the cache and every number of    *)
(* requests to a connection, as long as prefix_fallback is not used.        *)
(*                                                                         *)
(* The router's invariant, RouterInv, and a connection's, ConnectionInv,    *)
(* are inductive apart; ServeInv is both, with DispatchInv, which rests on  *)
(* them.  A connection's says, for every place in serve(), what the last    *)
(* token on the wire may be and how many answers are out; all steps but a   *)
(* few append a token or two.  DispatchInv says what the lookups made for a *)
(* request have shown, as long as the routes stay as they are.              *)
(***************************************************************************)
EXTENDS Serve, FiniteSetTheorems, SequenceTheorems, TLAPS

(* The router *)

\* HttpServer::serve() leaves prefix_fallback at its default.
NoFallback == Fallbacks \subseteq {FALSE}

\* The uncached lookup returns a node of the tree or nothing.
LEMMA LookupInTree ==
    ASSUME NEW p, getTreepNocache(p, FALSE) # NoNode
    PROVE  getTreepNocache(p, FALSE) \in tree
BY DEF getTreepNocache

\* What makes the cache coherent is inductive as it stands, with its domain.
Coherent == DOMAIN cache = Queries /\ CacheCoherent

LEMMA InitCoherent == Init => Coherent
BY DEF Init, Coherent, CacheCoherent, Cached, EmptyCache

\* A put() of what the lookup finds keeps the entries coherent.
LEMMA PutCoherent ==
    ASSUME Coherent, NEW q \in Queries, put(q, getTreepNocache(q, FALSE)),
           getTreepNocache(q, FALSE) # NoNode, UNCHANGED tree
    PROVE  Coherent'
<1> DEFINE n == getTreepNocache(q, FALSE)
<1>1. PICK kept \in SUBSET (Cached \ {q}) :
        cache' = [p \in Queries |-> IF p = q THEN n
                                    ELSE IF p \in kept THEN cache[p] ELSE NoNode]
  BY DEF put
<1>2. \A p : getTreepNocache(p, FALSE)' = getTreepNocache(p, FALSE)
  BY DEF getTreepNocache, Depth
<1>3. ASSUME NEW p \in Queries, cache'[p] # NoNode
      PROVE  cache'[p] \in tree /\ cache'[p] = getTreepNocache(p, FALSE)
  <2>1. CASE p = q
    BY <1>1, <2>1, LookupInTree
  <2>2. CASE p # q
    <3>1. p \in kept /\ cache'[p] = cache[p]
      BY <1>1, <1>3, <2>2
    <3>2. QED
      BY <1>3, <3>1 DEF Coherent, CacheCoherent, Cached
  <2>3. QED
    BY <2>1, <2>2
<1>4. DOMAIN cache' = Queries
  BY <1>1
<1>5. QED
  BY <1>2, <1>3, <1>4 DEF Coherent, CacheCoherent, Cached

\* The node a get() works with is the one the descent finds.
LEMMA NodeIsLookup ==
    ASSUME Coherent, NEW q \in Queries
    PROVE  (IF cache[q] # NoNode THEN cache[q] ELSE getTreepNocache(q, FALSE))
             = getTreepNocache(q, FALSE)
BY DEF Coherent, CacheCoherent, Cached

\* A get() leaves the entries coherent.
LEMMA GetCoherent ==
    ASSUME Coherent, NEW q \in Queries, NEW m, get(q, m, FALSE)
    PROVE  Coherent'
<1> DEFINE n == getTreepNocache(q, FALSE)
<1>1. UNCHANGED tree /\ (IF n # NoNode /\ Has(n, m) THEN put(q, n) ELSE UNCHANGED cache)
  BY NodeIsLookup DEF get
<1>2. CASE n # NoNode /\ Has(n, m)
  BY <1>1, <1>2, PutCoherent
<1>3. CASE UNCHANGED cache
  <2>1. \A p : getTreepNocache(p, FALSE)' = getTreepNocache(p, FALSE)
    BY <1>1 DEF getTreepNocache, Depth
  <2> QED  BY <1>1, <1>3, <2>1 DEF Coherent, CacheCoherent, Cached
<1> QED  BY <1>1, <1>2, <1>3

LEMMA StepCoherent == ASSUME NoFallback, Coherent, [Next]_vars PROVE Coherent'
<1>1. CASE UNCHANGED vars
  BY <1>1 DEF Coherent, CacheCoherent, Cached, getTreepNocache, Depth, vars
<1>2. CASE cache' = EmptyCache
  BY <1>2 DEF Coherent, CacheCoherent, Cached, EmptyCache
<1>3. ASSUME NEW q \in Queries, NEW m \in Methods, get(q, m, FALSE)
      PROVE  Coherent'
  BY <1>3, GetCoherent
<1> QED
  BY <1>1, <1>2, <1>3 DEF Next, add, remove, clear, clearCache, NoFallback

\* A path is a prefix of itself, and the prefixes of a prefix are prefixes.
LEMMA PrefixesAre ==
    ASSUME NEW p \in Seq(Segments)
    PROVE  /\ p \in Prefixes(p)
           /\ \A n \in Prefixes(p) : Prefixes(n) \subseteq Prefixes(p)
<1>1. p \in Prefixes(p)
  <2>1. Prefix(p, Len(p)) = p /\ Len(p) \in 0 .. Len(p)
    BY SubSeqFull DEF Prefix
  <2> QED  BY <2>1 DEF Prefixes
<1>2. ASSUME NEW k \in 0 .. Len(p), NEW j \in 0 .. k
      PROVE  /\ Prefix(p, k) \in Seq(Segments) /\ Len(Prefix(p, k)) = k
             /\ Prefix(Prefix(p, k), j) = Prefix(p, j)
  <2>1. \A i \in 1 .. k : p[i] \in Segments
    OBVIOUS
  <2> DEFINE s == SubSeq(p, 1, k)
             t == SubSeq(s, 1, j)
             u == SubSeq(p, 1, j)
  <2>2. s \in Seq(Segments) /\ Len(s) = k /\ \A i \in 1 .. k : s[i] = p[i]
    BY <2>1, SubSeqProperties
  <2> HIDE DEF s
  <2>3. \A i \in 1 .. j : s[i] \in Segments /\ p[i] \in Segments
    BY <2>1, <2>2
  <2>4. t \in Seq(Segments) /\ Len(t) = j /\ \A i \in 1 .. j : t[i] = s[i]
    BY <2>3, SubSeqProperties
  <2>5. u \in Seq(Segments) /\ Len(u) = j /\ \A i \in 1 .. j : u[i] = p[i]
    BY <2>3, SubSeqProperties
  <2>6. Len(t) = Len(u) /\ \A i \in 1 .. Len(t) : t[i] = u[i]
    BY <2>2, <2>4, <2>5
  <2> HIDE DEF t, u
  <2>7. t = u
    BY <2>4, <2>5, <2>6, SeqEqual
  <2> QED  BY <2>2, <2>7 DEF s, t, u, Prefix
<1>3. \A n \in Prefixes(p) : Prefixes(n) \subseteq Prefixes(p)
  <2> SUFFICES ASSUME NEW k \in 0 .. Len(p), NEW j \in 0 .. Len(Prefix(p, k))
               PROVE  Prefix(Prefix(p, k), j) \in Prefixes(p)
    BY DEF Prefixes
  <2>1. Len(Prefix(p, k)) = k
    BY <1>2
  <2>2. j \in 0 .. k /\ j \in 0 .. Len(p)
    BY <2>1
  <2> QED  BY <1>2, <2>2 DEF Prefixes
<1> QED  BY <1>1, <1>3

LEMMA RootIs == Root \in Nodes /\ Prefixes(Root) = {Root}
<1>1. Root \in Seq(Segments) /\ Len(Root) = 0
  BY DEF Root
<1>2. Root \in Prefixes(Root)
  BY <1>1, PrefixesAre
<1>3. Prefix(Root, 0) = Root
  BY SubSeqEmpty DEF Prefix, Root
<1> QED  BY <1>1, <1>2, <1>3 DEF Nodes, Prefixes

\* What makes the router's types an invariant: the cache is coherent and finite.
RouterInv == TypeOK /\ Coherent /\ IsFiniteSet(Cached)

LEMMA EmptyCacheIs ==
    ASSUME cache' = EmptyCache
    PROVE  /\ cache' \in [Queries -> Nodes \cup {NoNode}]
           /\ IsFiniteSet(Cached') /\ Cardinality(Cached') <= Capacity
<1>1. Cached' = {}
  BY DEF Cached, EmptyCache
<1>2. cache' \in [Queries -> Nodes \cup {NoNode}]
  BY DEF EmptyCache
<1> QED  BY <1>1, <1>2, FS_EmptySet, RouterAssumption

LEMMA InitRouter == Init => RouterInv
<1> SUFFICES ASSUME Init PROVE RouterInv
  OBVIOUS
<1>1. Cached = {}
  BY DEF Init, Cached, EmptyCache
<1>2. IsFiniteSet(Cached) /\ Cardinality(Cached) <= Capacity
  BY <1>1, FS_EmptySet, RouterAssumption
<1>3. cache \in [Queries -> Nodes \cup {NoNode}]
  BY DEF Init, EmptyCache
<1> QED  BY <1>2, <1>3, RootIs, InitCoherent DEF Init, RouterInv, TypeOK

\* A get() keeps the bound of the cache, evicting what it must.
LEMMA GetRouter ==
    ASSUME RouterInv, NEW q \in Queries, NEW m, get(q, m, FALSE)
    PROVE  RouterInv'
<1> DEFINE n == getTreepNocache(q, FALSE)
<1>1. /\ UNCHANGED <<tree, handles>> /\ found' = Handler(n, m, FALSE)
      /\ IF n # NoNode /\ Has(n, m) THEN put(q, n) ELSE UNCHANGED cache
  BY NodeIsLookup DEF get, RouterInv
<1>2. n \in tree \cup {NoNode} /\ tree \subseteq Nodes
  BY LookupInTree DEF RouterInv, TypeOK
<1>3. found' \in Nodes \cup {NoNode}
  BY <1>1, <1>2 DEF Handler
<1>4. Coherent'
  BY GetCoherent DEF RouterInv
<1>5. /\ cache' \in [Queries -> Nodes \cup {NoNode}]
      /\ IsFiniteSet(Cached') /\ Cardinality(Cached') <= Capacity
  <2>1. CASE UNCHANGED cache
    BY <2>1 DEF RouterInv, TypeOK, Cached
  <2>2. CASE n # NoNode /\ put(q, n)
    <3>1. PICK kept \in SUBSET (Cached \ {q}) :
            /\ Cardinality(kept) < Capacity
            /\ cache' = [p \in Queries |-> IF p = q THEN n
                                           ELSE IF p \in kept THEN cache[p] ELSE NoNode]
      BY <2>2 DEF put
    <3>2. cache' \in [Queries -> Nodes \cup {NoNode}]
      BY <1>2, <3>1 DEF RouterInv, TypeOK
    <3>3. Cached' \in SUBSET (kept \cup {q})
      BY <3>1 DEF Cached
    <3>4. IsFiniteSet(kept)
      <4>1. kept \in SUBSET Cached /\ IsFiniteSet(Cached)
        BY <3>1 DEF RouterInv
      <4> QED  BY <4>1, FS_Subset
    <3>5. /\ IsFiniteSet(kept \cup {q}) /\ Cardinality(kept) \in Nat
          /\ Cardinality(kept \cup {q}) <= Cardinality(kept) + 1
      BY <3>4, FS_AddElement, FS_CardinalityType
    <3>6. /\ IsFiniteSet(Cached') /\ Cardinality(Cached') \in Nat
          /\ Cardinality(Cached') <= Cardinality(kept \cup {q})
          /\ Cardinality(kept \cup {q}) \in Nat
      BY <3>3, <3>5, FS_Subset, FS_CardinalityType
    <3>7. Cardinality(Cached') <= Capacity
      BY <3>1, <3>5, <3>6, RouterAssumption
    <3> QED  BY <3>2, <3>6, <3>7
  <2> QED  BY <1>1, <2>1, <2>2
<1> QED  BY <1>1, <1>3, <1>4, <1>5 DEF RouterInv, TypeOK

LEMMA StepRouter == ASSUME NoFallback, RouterInv, [Next]_vars PROVE RouterInv'
<1>0. Coherent'
  BY StepCoherent DEF RouterInv
<1>1. CASE UNCHANGED vars
  BY <1>0, <1>1 DEF RouterInv, TypeOK, Cached, vars
<1>2. ASSUME NEW q \in Queries, NEW m \in Methods, get(q, m, FALSE) PROVE RouterInv'
  BY <1>2, GetRouter
<1>3. ASSUME NEW r \in Routes, NEW m \in Methods, add(r, m) PROVE RouterInv'
  <2>1. r \in Seq(Segments) /\ Prefixes(r) \subseteq Nodes
    BY RouterAssumption DEF Nodes
  <2>2. tree' = tree \cup Prefixes(r) /\ handles' = handles \cup {<<r, m>>}
        /\ cache' = EmptyCache /\ UNCHANGED found
    BY <1>3 DEF add
  <2>3. r \in Prefixes(r) /\ \A n \in Prefixes(r) : Prefixes(n) \subseteq Prefixes(r)
    BY <2>1, PrefixesAre
  <2>4. tree' \subseteq Nodes /\ Root \in tree' /\ \A n \in tree' : Prefixes(n) \subseteq tree'
    BY <2>1, <2>2, <2>3 DEF RouterInv, TypeOK
  <2>5. handles' \subseteq tree' \X Methods
    BY <2>2, <2>3 DEF RouterInv, TypeOK
  <2> QED  BY <1>0, <2>2, <2>4, <2>5, EmptyCacheIs DEF RouterInv, TypeOK
<1>4. ASSUME NEW r \in Routes, NEW m \in Methods, remove(r, m) PROVE RouterInv'
  <2>1. handles' \subseteq handles /\ cache' = EmptyCache /\ UNCHANGED <<tree, found>>
    BY <1>4 DEF remove
  <2> QED  BY <1>0, <2>1, EmptyCacheIs DEF RouterInv, TypeOK
<1>5. CASE clear
  <2>1. tree' = {Root} /\ handles' = {h \in handles : h[1] = Root} /\ cache' = EmptyCache
        /\ UNCHANGED found
    BY <1>5 DEF clear
  <2>2. handles' \subseteq {Root} \X Methods
    <3>1. handles \subseteq tree \X Methods
      BY DEF RouterInv, TypeOK
    <3> QED  BY <2>1, <3>1
  <2> QED  BY <1>0, <2>1, <2>2, RootIs, EmptyCacheIs DEF RouterInv, TypeOK
<1>6. CASE clearCache
  BY <1>0, <1>6, EmptyCacheIs DEF clearCache, RouterInv, TypeOK
<1> QED  BY <1>1, <1>2, <1>3, <1>4, <1>5, <1>6 DEF Next, NoFallback

\* get() returns what getNocache() would.
THEOREM CacheIsTransparent == ASSUME NoFallback PROVE Spec => GetIsNocache
<1>1. Init => Coherent
  BY InitCoherent
<1>2. Coherent /\ [Next]_vars => Coherent'
  BY StepCoherent
<1> DEFINE A == \A q \in Queries, m \in Methods, fallback \in Fallbacks :
                  get(q, m, fallback) => found' = getNocache(q, m, fallback)
<1>3. Coherent => A
  <2> SUFFICES ASSUME Coherent, NEW q \in Queries, NEW m \in Methods, get(q, m, FALSE)
               PROVE  found' = getNocache(q, m, FALSE)
    BY DEF NoFallback
  <2>1. found' = Handler(getTreepNocache(q, FALSE), m, FALSE)
    BY NodeIsLookup DEF get
  <2>2. QED
    BY <2>1 DEF getNocache
<1>4. QED
  BY <1>1, <1>2, <1>3, PTL DEF Spec, GetIsNocache

-----------------------------------------------------------------------------
(* The wire *)

CountIn(w, S) == Cardinality({k \in DOMAIN w : w[k] \in S})

\* What the next token comes after; a connection begins as after a response.
LastOf(w) == IF w = <<>> THEN "response" ELSE w[Len(w)]

\* What follows a token, one of a write given up included.
Follows(t, next) == MayFollow(t, next) \/ StillSent(t, next)

\* HttpUntilCut, of any wire.
HttpWire(w) ==
    /\ w # <<>> => Follows("response", w[1])
    /\ \A k \in 1 .. Len(w) - 1 : Follows(w[k], w[k + 1])

\* The shutdown is the last token.
Ended(w) == CountIn(w, {"fin"}) > 0 <=> LastOf(w) = "fin"

Sound(w) == w \in Seq(Tokens) /\ HttpWire(w) /\ Ended(w)

\* Nothing but whole responses, and calls for the bodies of requests.
Clean(w) == \A k \in DOMAIN w : w[k] \in {"continue", "response"}

LEMMA CountIsNat ==
    ASSUME NEW w \in Seq(Tokens), NEW S
    PROVE  /\ IsFiniteSet({k \in DOMAIN w : w[k] \in S})
           /\ CountIn(w, S) \in Nat
<1> DEFINE D == {k \in DOMAIN w : w[k] \in S}
<1>1. IsFiniteSet(1 .. Len(w))
  BY FS_Interval
<1>2. D \in SUBSET (1 .. Len(w))
  OBVIOUS
<1>3. IsFiniteSet(D)
  BY <1>1, <1>2, FS_Subset
<1> QED  BY <1>3, FS_CardinalityType DEF CountIn

LEMMA AppendIs ==
    ASSUME NEW w \in Seq(Tokens), NEW t \in Tokens
    PROVE  /\ Append(w, t) \in Seq(Tokens) /\ Append(w, t) # <<>>
           /\ Len(Append(w, t)) = Len(w) + 1 /\ Len(w) \in Nat
           /\ DOMAIN Append(w, t) = DOMAIN w \cup {Len(w) + 1}
           /\ \A k \in DOMAIN w : Append(w, t)[k] = w[k]
           /\ Append(w, t)[Len(w) + 1] = t
           /\ LastOf(Append(w, t)) = t
           /\ DOMAIN w = 1 .. Len(w)
BY DEF LastOf

\* One token more is counted if it is of the kind that is counted.
LEMMA CountAppend ==
    ASSUME NEW w \in Seq(Tokens), NEW t \in Tokens, NEW S
    PROVE  CountIn(Append(w, t), S) = CountIn(w, S) + IF t \in S THEN 1 ELSE 0
<1> DEFINE D == {k \in DOMAIN w : w[k] \in S}
           E == {k \in DOMAIN Append(w, t) : Append(w, t)[k] \in S}
<1>1. E = IF t \in S THEN D \cup {Len(w) + 1} ELSE D
  <2>1. Len(w) + 1 \notin DOMAIN w
    BY AppendIs
  <2> QED  BY <2>1, AppendIs
<1>2. IsFiniteSet(D)
  BY CountIsNat
<1>3. Cardinality(D) \in Nat
  BY <1>2, FS_CardinalityType
<1>4. Len(w) + 1 \notin D
  BY AppendIs
<1>5. CountIn(w, S) = Cardinality(D) /\ CountIn(Append(w, t), S) = Cardinality(E)
  BY DEF CountIn
<1> HIDE DEF D, E
<1>6. Cardinality(D \cup {Len(w) + 1}) = Cardinality(D) + 1
  BY <1>2, <1>4, FS_AddElement
<1> QED  BY <1>1, <1>3, <1>5, <1>6

\* A sound wire stays sound with a token that may follow.
LEMMA Grows ==
    ASSUME NEW w, Sound(w), NEW t \in Tokens, Follows(LastOf(w), t)
    PROVE  /\ Sound(Append(w, t)) /\ LastOf(Append(w, t)) = t
           /\ Clean(w) /\ t \in {"continue", "response"} => Clean(Append(w, t))
<1>1. w \in Seq(Tokens) /\ HttpWire(w)
  BY DEF Sound
<1>2. HttpWire(Append(w, t))
  <2>1. CASE w = <<>>
    <3>1. Len(Append(w, t)) = 1 /\ Append(w, t)[1] = t
      BY <2>1, <1>1, AppendIs
    <3> QED  BY <2>1, <3>1 DEF HttpWire, LastOf
  <2>2. CASE w # <<>>
    <3>1. Len(w) \in Nat \ {0} /\ LastOf(w) = w[Len(w)]
      BY <2>2, <1>1 DEF LastOf
    <3>2. Append(w, t)[1] = w[1]
      BY <3>1, <1>1, AppendIs
    <3>3. ASSUME NEW k \in 1 .. Len(w) PROVE Follows(Append(w, t)[k], Append(w, t)[k + 1])
      <4>1. CASE k = Len(w)
        BY <4>1, <3>1, <1>1, AppendIs
      <4>2. CASE k # Len(w)
        <5>1. k \in DOMAIN w /\ k + 1 \in DOMAIN w /\ k \in 1 .. Len(w) - 1
          BY <4>2, <1>1, <3>1
        <5>2. Append(w, t)[k] = w[k] /\ Append(w, t)[k + 1] = w[k + 1]
          BY <5>1, <1>1, AppendIs
        <5> QED  BY <5>1, <5>2, <1>1 DEF HttpWire
      <4> QED  BY <4>1, <4>2
    <3>4. Len(Append(w, t)) - 1 = Len(w)
      BY <1>1, <3>1, AppendIs
    <3> QED  BY <1>1, <2>2, <3>2, <3>3, <3>4 DEF HttpWire
  <2> QED  BY <2>1, <2>2
<1>3. LastOf(Append(w, t)) = t
  BY <1>1, AppendIs
<1>4. Ended(Append(w, t))
  <2>1. LastOf(w) # "fin"
    BY DEF MayFollow, StillSent, Follows, Answers
  <2>2. CountIn(w, {"fin"}) = 0
    <3>1. CountIn(w, {"fin"}) \in Nat
      BY <1>1, CountIsNat
    <3>2. ~(CountIn(w, {"fin"}) > 0)
      BY <2>1 DEF Sound, Ended
    <3> QED  BY <3>1, <3>2
  <2>3. CountIn(Append(w, t), {"fin"}) = IF t = "fin" THEN 1 ELSE 0
    BY <1>1, <2>2, CountAppend
  <2> QED  BY <1>3, <2>3 DEF Ended
<1>5. Append(w, t) \in Seq(Tokens)
  BY <1>1, AppendIs
<1>6. ASSUME Clean(w), t \in {"continue", "response"} PROVE Clean(Append(w, t))
  BY <1>1, <1>6, AppendIs DEF Clean
<1> QED  BY <1>2, <1>3, <1>4, <1>5, <1>6 DEF Sound

\* Nothing of a kind is on a wire that has none of it.
LEMMA CleanCounts ==
    ASSUME NEW w, Clean(w), NEW S, "continue" \notin S, "response" \notin S
    PROVE  CountIn(w, S) = 0
<1>1. {k \in DOMAIN w : w[k] \in S} = {}
  BY DEF Clean
<1> QED  BY <1>1, FS_EmptySet DEF CountIn

LEMMA CleanLast ==
    ASSUME NEW w, w \in Seq(Tokens), Clean(w)
    PROVE  LastOf(w) \in {"continue", "response"}
<1>1. w = <<>> \/ Len(w) \in DOMAIN w
  OBVIOUS
<1> QED  BY <1>1 DEF Clean, LastOf

LEMMA ClosedIsLast == ASSUME Sound(wire) PROVE Closed <=> LastOf(wire) = "fin"
BY DEF Sound, Ended, Closed, Count, CountIn

-----------------------------------------------------------------------------
(* Writes *)

\* A sequence of one or two tokens, and its beginnings.
LEMMA Short ==
    ASSUME NEW w \in Seq(Tokens), NEW a \in Tokens, NEW b \in Tokens
    PROVE  /\ w \o <<a>> = Append(w, a)
           /\ w \o <<a, b>> = Append(Append(w, a), b)
           /\ SubSeq(<<a>>, 1, 0) = <<>> /\ SubSeq(<<a, b>>, 1, 0) = <<>>
           /\ SubSeq(<<a, b>>, 1, 1) = <<a>>
           /\ Len(<<a>>) = 1 /\ Len(<<a, b>>) = 2
<1>1. <<a>> \in Seq(Tokens) /\ <<b>> \in Seq(Tokens) /\ <<a, b>> \in Seq(Tokens)
  OBVIOUS
<1>2. Len(<<a>>) = 1 /\ Len(<<a, b>>) = 2
  OBVIOUS
<1>3. w \o <<a>> = Append(w, a)
  <2>1. /\ w \o <<a>> \in Seq(Tokens) /\ Len(w \o <<a>>) = Len(w) + 1
        /\ \A i \in 1 .. Len(w) + 1 : (w \o <<a>>)[i] = IF i <= Len(w) THEN w[i] ELSE a
    BY <1>1, <1>2, ConcatProperties
  <2> QED  BY <2>1, AppendIs, SeqEqual
<1>4. w \o <<a, b>> = Append(Append(w, a), b)
  <2> DEFINE v == Append(w, a)
  <2>1. v \in Seq(Tokens) /\ Len(v) = Len(w) + 1 /\ Len(w) \in Nat
    BY AppendIs
  <2>2. /\ w \o <<a, b>> \in Seq(Tokens) /\ Len(w \o <<a, b>>) = Len(w) + 2
        /\ \A i \in 1 .. Len(w) + 2 :
             (w \o <<a, b>>)[i] = IF i <= Len(w) THEN w[i] ELSE <<a, b>>[i - Len(w)]
    BY <1>1, <1>2, ConcatProperties
  <2>3. /\ Append(v, b) \in Seq(Tokens) /\ Len(Append(v, b)) = Len(w) + 2
        /\ \A i \in 1 .. Len(w) + 2 :
             Append(v, b)[i] = IF i <= Len(w) THEN w[i] ELSE <<a, b>>[i - Len(w)]
    <3>1. /\ Append(v, b) \in Seq(Tokens) /\ Len(Append(v, b)) = Len(w) + 2
          /\ Append(v, b)[Len(w) + 2] = b
      BY <2>1, AppendIs
    <3>2. v[Len(w) + 1] = a /\ \A i \in 1 .. Len(w) : v[i] = w[i]
      BY AppendIs
    <3>3. \A i \in 1 .. Len(w) + 1 : Append(v, b)[i] = v[i]
      BY <2>1, AppendIs
    <3> QED  BY <2>1, <3>1, <3>2, <3>3
  <2> QED  BY <2>2, <2>3, SeqEqual
<1>5. SubSeq(<<a>>, 1, 0) = <<>> /\ SubSeq(<<a, b>>, 1, 0) = <<>>
  BY SubSeqEmpty
<1>6. SubSeq(<<a, b>>, 1, 1) = <<a>>
  <2>1. \A i \in 1 .. 1 : <<a, b>>[i] \in Tokens
    OBVIOUS
  <2>2. /\ SubSeq(<<a, b>>, 1, 1) \in Seq(Tokens) /\ Len(SubSeq(<<a, b>>, 1, 1)) = 1
        /\ SubSeq(<<a, b>>, 1, 1)[1] = a
    BY <2>1, SubSeqProperties
  <2>3. <<a>>[1] = a
    OBVIOUS
  <2> DEFINE s == SubSeq(<<a, b>>, 1, 1)
             r == <<a>>
  <2>4. s \in Seq(Tokens) /\ r \in Seq(Tokens) /\ Len(s) = Len(r) /\ Len(s) = 1 /\ s[1] = r[1]
    BY <1>1, <1>2, <2>2, <2>3
  <2>5. \A i \in 1 .. Len(s) : s[i] = r[i]
    BY <2>4
  <2> HIDE DEF s, r
  <2>6. s = r
    BY <2>4, <2>5, SeqEqual
  <2> QED  BY <2>6 DEF s, r
<1> QED  BY <1>2, <1>3, <1>4, <1>5, <1>6

LEMMA PartsOfOne ==
    ASSUME wire \in Seq(Tokens), NEW t \in Tokens
    PROVE  Parts(<<t>>) = {Append(wire, "cut")}
<1>1. "cut" \in Tokens
  BY DEF Tokens
<1>2. 0 .. Len(<<t>>) - 1 = {0}
  BY Short
<1>3. wire \o SubSeq(<<t>>, 1, 0) \o <<"cut">> = Append(wire, "cut")
  BY <1>1, Short, ConcatEmptySeq
<1> QED  BY <1>2, <1>3 DEF Parts

LEMMA PartsOfTwo ==
    ASSUME wire \in Seq(Tokens), NEW a \in Tokens, NEW b \in Tokens
    PROVE  Parts(<<a, b>>) = {Append(wire, "cut"), Append(Append(wire, a), "cut")}
<1>1. "cut" \in Tokens /\ Append(wire, a) \in Seq(Tokens)
  BY AppendIs DEF Tokens
<1>2. 0 .. Len(<<a, b>>) - 1 = {0, 1}
  BY Short
<1>3. wire \o SubSeq(<<a, b>>, 1, 0) \o <<"cut">> = Append(wire, "cut")
  BY <1>1, Short, ConcatEmptySeq
<1>4. wire \o SubSeq(<<a, b>>, 1, 1) \o <<"cut">> = Append(Append(wire, a), "cut")
  <2>1. SubSeq(<<a, b>>, 1, 1) = <<a>>
    BY Short
  <2>2. wire \o <<a>> = Append(wire, a)
    BY Short
  <2>3. Append(wire, a) \o <<"cut">> = Append(Append(wire, a), "cut")
    BY <1>1, Short
  <2> QED  BY <2>1, <2>2, <2>3
<1> QED  BY <1>2, <1>3, <1>4 DEF Parts

LEMMA TokenKinds ==
    /\ Answers \subseteq Tokens /\ "fin" \notin Answers /\ "cut" \notin Answers
    /\ {"continue", "chunk", "end", "cut", "fin"} \subseteq Tokens
    /\ "continue" \notin Answers /\ "chunk" \notin Answers /\ "end" \notin Answers
    /\ {"response", "closing", "head", "upgrade"} = Answers
BY DEF Answers, Tokens

\* A wire that is not shut down can be.
LEMMA FinFollows ==
    ASSUME NEW w, Sound(w), LastOf(w) # "fin"
    PROVE  /\ Sound(Append(w, "fin")) /\ LastOf(Append(w, "fin")) = "fin"
           /\ \A S : "fin" \notin S => CountIn(Append(w, "fin"), S) = CountIn(w, S)
<1>1. w \in Seq(Tokens) /\ "fin" \in Tokens /\ Follows(LastOf(w), "fin")
  BY TokenKinds DEF Sound, MayFollow, StillSent, Follows
<1>2. ASSUME NEW S, "fin" \notin S PROVE CountIn(Append(w, "fin"), S) = CountIn(w, S)
  <2>1. CountIn(w, S) \in Nat
    BY <1>1, CountIsNat
  <2> QED  BY <1>1, <1>2, <2>1, CountAppend
<1> QED  BY <1>1, <1>2, Grows

LEMMA CutFollows ==
    ASSUME NEW w, Sound(w), Follows(LastOf(w), "cut")
    PROVE  /\ Sound(Append(w, "cut")) /\ LastOf(Append(w, "cut")) = "cut"
           /\ \A S : "cut" \notin S => CountIn(Append(w, "cut"), S) = CountIn(w, S)
<1>1. w \in Seq(Tokens) /\ "cut" \in Tokens
  BY TokenKinds DEF Sound
<1>2. ASSUME NEW S, "cut" \notin S PROVE CountIn(Append(w, "cut"), S) = CountIn(w, S)
  <2>1. CountIn(w, S) \in Nat
    BY <1>1, CountIsNat
  <2> QED  BY <1>1, <1>2, <2>1, CountAppend
<1> QED  BY <1>1, <1>2, Grows

\* One token is written.
LEMMA SentOne ==
    ASSUME Sound(wire), NEW t \in Tokens, Follows(LastOf(wire), t), Sent(<<t>>)
    PROVE  /\ wire' = Append(wire, t) /\ Sound(wire') /\ LastOf(wire') = t
           /\ LastOf(wire) # "fin"
           /\ Clean(wire) /\ t \in {"continue", "response"} => Clean(wire')
           /\ \A S : CountIn(wire', S) = CountIn(wire, S) + IF t \in S THEN 1 ELSE 0
<1>1. wire \in Seq(Tokens)
  BY DEF Sound
<1>2. wire' = Append(wire, t)
  BY <1>1, Short DEF Sent
<1>3. LastOf(wire) # "fin"
  BY ClosedIsLast DEF Sent
<1> QED  BY <1>1, <1>2, <1>3, Grows, CountAppend

\* A write of one token is given up, with the connection or without it.
LEMMA GivenUp ==
    ASSUME Sound(wire), NEW t \in Tokens, Closed \/ Follows(LastOf(wire), "cut"),
           TimedOut(<<t>>) \/ Broken(<<t>>)
    PROVE  /\ Sound(wire') /\ LastOf(wire') \in {"cut", "fin"}
           /\ Broken(<<t>>) => LastOf(wire') = "fin"
           /\ \A S : "cut" \notin S /\ "fin" \notin S => CountIn(wire', S) = CountIn(wire, S)
<1>1. wire \in Seq(Tokens)
  BY DEF Sound
<1>2. Closed <=> LastOf(wire) = "fin"
  BY ClosedIsLast
<1> DEFINE c == Append(wire, "cut")
<1>3. Parts(<<t>>) = {c}
  BY <1>1, PartsOfOne
<1>4. CASE Broken(<<t>>) /\ Closed
  BY <1>2, <1>4 DEF Broken
<1>5. CASE ~(Broken(<<t>>) /\ Closed)
  <2>1. ~Closed
    BY <1>5 DEF TimedOut
  <2>2. /\ Sound(c) /\ LastOf(c) = "cut"
        /\ \A S : "cut" \notin S => CountIn(c, S) = CountIn(wire, S)
    BY <2>1, CutFollows
  <2>3. Broken(<<t>>) => wire' = Append(c, "fin")
    BY <2>1, <1>3 DEF Broken
  <2>4. TimedOut(<<t>>) => wire' = c
    BY <1>3 DEF TimedOut
  <2>5. /\ Sound(Append(c, "fin")) /\ LastOf(Append(c, "fin")) = "fin"
        /\ \A S : "fin" \notin S => CountIn(Append(c, "fin"), S) = CountIn(c, S)
    BY <2>2, FinFollows
  <2> HIDE DEF c
  <2>6. CASE Broken(<<t>>)
    BY <2>2, <2>3, <2>5, <2>6
  <2>7. CASE ~Broken(<<t>>)
    BY <2>2, <2>4, <2>7
  <2> QED  BY <2>6, <2>7
<1> QED  BY <1>4, <1>5

LEMMA Shuts ==
    ASSUME Sound(wire), Shutdown
    PROVE  /\ Sound(wire') /\ LastOf(wire') = "fin"
           /\ \A S : "fin" \notin S => CountIn(wire', S) = CountIn(wire, S)
<1>1. Closed <=> LastOf(wire) = "fin"
  BY ClosedIsLast
<1>2. CASE Closed
  BY <1>1, <1>2 DEF Shutdown
<1>3. CASE ~Closed
  BY <1>1, <1>3, FinFollows DEF Shutdown
<1> QED  BY <1>2, <1>3

\* The first event of a stream goes out behind the header.
LEMMA SentHeadChunk ==
    ASSUME Sound(wire), LastOf(wire) \in {"continue", "response"}, Sent(<<"head", "chunk">>)
    PROVE  /\ Sound(wire') /\ LastOf(wire') = "chunk"
           /\ CountIn(wire', Answers) = CountIn(wire, Answers) + 1
           /\ CountIn(wire', {"chunk"}) = CountIn(wire, {"chunk"}) + 1
<1>1. wire \in Seq(Tokens) /\ "head" \in Tokens /\ "chunk" \in Tokens
  BY TokenKinds DEF Sound
<1> DEFINE h == Append(wire, "head")
<1>2. wire' = Append(h, "chunk")
  BY <1>1, Short DEF Sent
<1>3. Follows(LastOf(wire), "head") /\ Follows("head", "chunk")
  BY TokenKinds DEF MayFollow, StillSent, Follows
<1>4. Sound(h) /\ LastOf(h) = "head" /\ h \in Seq(Tokens)
  BY <1>1, <1>3, Grows, AppendIs
<1>5. CountIn(h, Answers) = CountIn(wire, Answers) + 1
  BY <1>1, CountAppend, TokenKinds
<1>6. CountIn(h, {"chunk"}) = CountIn(wire, {"chunk"})
  <2>1. CountIn(wire, {"chunk"}) \in Nat
    BY <1>1, CountIsNat
  <2>2. CountIn(h, {"chunk"}) = CountIn(wire, {"chunk"}) + IF "head" \in {"chunk"} THEN 1 ELSE 0
    BY <1>1, CountAppend
  <2> QED  BY <2>1, <2>2
<1>7. CountIn(h, Answers) \in Nat /\ CountIn(h, {"chunk"}) \in Nat
  BY <1>4, CountIsNat
<1> HIDE DEF h
<1>8. Sound(wire') /\ LastOf(wire') = "chunk"
  BY <1>1, <1>2, <1>3, <1>4, Grows
<1>9. CountIn(wire', Answers) = CountIn(h, Answers)
  BY <1>1, <1>2, <1>4, <1>7, CountAppend, TokenKinds
<1>10. CountIn(wire', {"chunk"}) = CountIn(h, {"chunk"}) + 1
  BY <1>1, <1>2, <1>4, CountAppend
<1> QED  BY <1>5, <1>6, <1>8, <1>9, <1>10

\* The first event is given up, before, in or after the header.
LEMMA GivenUpHeadChunk ==
    ASSUME Sound(wire), Closed \/ LastOf(wire) \in {"continue", "response"},
           TimedOut(<<"head", "chunk">>) \/ Broken(<<"head", "chunk">>)
    PROVE  /\ Sound(wire') /\ LastOf(wire') \in {"cut", "fin"}
           /\ \/ CountIn(wire', Answers) = CountIn(wire, Answers)
              \/ ~Closed /\ CountIn(wire', Answers) = CountIn(wire, Answers) + 1
           /\ CountIn(wire', {"chunk"}) = CountIn(wire, {"chunk"})
<1>1. wire \in Seq(Tokens) /\ "head" \in Tokens /\ "chunk" \in Tokens
  BY TokenKinds DEF Sound
<1>2. Closed <=> LastOf(wire) = "fin"
  BY ClosedIsLast
<1> DEFINE h == Append(wire, "head")
           Cut(w) == Append(w, "cut")
<1>3. Parts(<<"head", "chunk">>) = {Cut(wire), Cut(h)}
  BY <1>1, PartsOfTwo
<1>4. CASE Closed
  BY <1>2, <1>4 DEF Broken, TimedOut
<1>5. CASE ~Closed
  <2>1. PICK v \in {wire, h} : wire' \in {Cut(v), Append(Cut(v), "fin")}
    BY <1>3, <1>5 DEF Broken, TimedOut
  <2>2. Follows(LastOf(wire), "head") /\ Follows("head", "cut") /\ Follows(LastOf(wire), "cut")
    BY <1>2, <1>5, TokenKinds DEF MayFollow, StillSent, Follows
  <2>3. Sound(h) /\ LastOf(h) = "head"
    BY <1>1, <2>2, Grows
  <2>4. CountIn(h, Answers) = CountIn(wire, Answers) + 1
    BY <1>1, CountAppend, TokenKinds
  <2>5. CountIn(h, {"chunk"}) = CountIn(wire, {"chunk"})
    <3>1. CountIn(wire, {"chunk"}) \in Nat
      BY <1>1, CountIsNat
    <3>2. CountIn(h, {"chunk"}) = CountIn(wire, {"chunk"}) + IF "head" \in {"chunk"} THEN 1 ELSE 0
      BY <1>1, CountAppend
    <3> QED  BY <3>1, <3>2
  <2>6. Sound(v) /\ Follows(LastOf(v), "cut")
    BY <2>1, <2>2, <2>3
  <2>7. /\ Sound(Cut(v)) /\ LastOf(Cut(v)) = "cut"
        /\ \A S : "cut" \notin S => CountIn(Cut(v), S) = CountIn(v, S)
    BY <2>6, CutFollows
  <2>8. /\ Sound(Append(Cut(v), "fin")) /\ LastOf(Append(Cut(v), "fin")) = "fin"
        /\ \A S : "fin" \notin S => CountIn(Append(Cut(v), "fin"), S) = CountIn(Cut(v), S)
    BY <2>7, FinFollows
  <2>9. CountIn(v, Answers) = CountIn(wire, Answers)
        \/ CountIn(v, Answers) = CountIn(wire, Answers) + 1
    BY <2>1, <2>4
  <2>10. CountIn(v, {"chunk"}) = CountIn(wire, {"chunk"})
    BY <2>1, <2>5
  <2> HIDE DEF Cut, h
  <2>11. /\ Sound(wire') /\ LastOf(wire') \in {"cut", "fin"}
         /\ CountIn(wire', Answers) = CountIn(v, Answers)
         /\ CountIn(wire', {"chunk"}) = CountIn(v, {"chunk"})
    BY <2>1, <2>7, <2>8, TokenKinds
  <2> QED  BY <1>5, <2>9, <2>10, <2>11
<1> QED  BY <1>4, <1>5

-----------------------------------------------------------------------------
(* The inductive invariant of a connection *)

\* ServeTypeOK without the router and the wire.
Typed ==
    /\ pc \in {"loop", "header", "continue", "body", "bad", "dispatch", "sse", "ws",
               "fallback", "refuse", "handler", "respond", "write", "end", "over"}
    /\ requestCount \in Nat /\ (MaxRequests > 0 => requestCount <= MaxRequests)
    /\ req \in Requests \cup {NoRequest}
    /\ resp \in [status : {0, 200, 404, 405, 500}, keepAlive : BOOLEAN, allow : SUBSET Methods]
    /\ stopped \in BOOLEAN
    /\ writer \in [headerSent : BOOLEAN, responseSent : BOOLEAN]
    /\ CountIn(wire, {"chunk"}) <= MaxEvents

\* A request has been read, or is being read, and nothing of its answer is out.
Unanswered == Clean(wire) /\ CountIn(wire, Answers) = requestCount - 1

\* Where the connection is and what is on the wire.
Progress ==
    /\ CountIn(wire, Answers) <= requestCount
    /\ pc = "loop" => /\ Clean(wire) /\ LastOf(wire) = "response"
                      /\ CountIn(wire, Answers) = requestCount
    /\ pc \in {"header", "continue"} => Unanswered /\ LastOf(wire) = "response"
    /\ pc \in {"body", "dispatch", "fallback", "refuse", "handler", "respond", "write"} =>
         Unanswered
    /\ pc = "bad" => CountIn(wire, Answers) = requestCount - 1 /\ (Clean(wire) \/ LastOf(wire) = "fin")
    /\ pc = "ws" => \/ Unanswered
                    \/ LastOf(wire) = "upgrade" /\ CountIn(wire, {"upgrade"}) = 1

\* What an SSE handler's writer knows of the wire.
Stream ==
    /\ ~(writer.headerSent /\ writer.responseSent)
    /\ writer.headerSent => LastOf(wire) \in {"chunk", "cut", "fin"}
    /\ writer.responseSent => LastOf(wire) \in {"closing", "cut", "fin"}
    /\ ~writer.headerSent /\ ~writer.responseSent => Unanswered \/ LastOf(wire) = "fin"

Handed ==
    /\ pc = "sse" => Stream
    /\ pc \notin {"sse", "end", "over"} => writer = Unwritten
    /\ pc \in {"dispatch", "fallback", "refuse"} => req \in Requests
    /\ pc \in {"dispatch", "fallback"} => resp = NoResponse
    /\ pc = "fallback" => ~Streams(req) /\ ~Upgrades(req)

ConnectionInv == Typed /\ Sound(wire) /\ Progress /\ Handed

LEMMA BlankTypes ==
    /\ NoResponse \in [status : {0, 200, 404, 405, 500}, keepAlive : BOOLEAN,
                       allow : SUBSET Methods]
    /\ Unwritten \in [headerSent : BOOLEAN, responseSent : BOOLEAN]
<1>1. {} \in SUBSET Methods
  OBVIOUS
<1> QED  BY <1>1 DEF NoResponse, Unwritten

LEMMA InitConnection == ServeInit => ConnectionInv
<1> SUFFICES ASSUME ServeInit PROVE ConnectionInv
  OBVIOUS
<1>1. wire = <<>> /\ Clean(wire) /\ wire \in Seq(Tokens)
  BY DEF ServeInit, Clean
<1>2. \A S : "continue" \notin S /\ "response" \notin S => CountIn(wire, S) = 0
  BY <1>1, CleanCounts
<1>3. CountIn(wire, Answers) = 0
  <2>1. {k \in DOMAIN wire : wire[k] \in Answers} = {}
    BY <1>1
  <2> QED  BY <2>1, FS_EmptySet DEF CountIn
<1>4. Sound(wire) /\ LastOf(wire) = "response"
  <2>1. CountIn(wire, {"fin"}) = 0
    BY <1>2
  <2> QED  BY <1>1, <2>1 DEF Sound, HttpWire, Ended, LastOf
<1>5. Typed
  <2>1. CountIn(wire, {"chunk"}) = 0
    BY <1>2
  <2>2. CountIn(wire, {"chunk"}) <= MaxEvents /\ (MaxRequests > 0 => 0 <= MaxRequests)
    BY <2>1, ServeAssumption
  <2>3. /\ pc = "loop" /\ requestCount = 0 /\ req = NoRequest /\ resp = NoResponse
        /\ stopped = FALSE /\ writer = Unwritten
    BY DEF ServeInit
  <2>4. resp \in [status : {0, 200, 404, 405, 500}, keepAlive : BOOLEAN, allow : SUBSET Methods]
    BY <2>3, BlankTypes
  <2>5. writer \in [headerSent : BOOLEAN, responseSent : BOOLEAN]
    BY <2>3, BlankTypes
  <2>6. requestCount \in Nat /\ (MaxRequests > 0 => requestCount <= MaxRequests)
    BY <2>2, <2>3
  <2> QED  BY <2>2, <2>3, <2>4, <2>5, <2>6 DEF Typed
<1> QED  BY <1>1, <1>3, <1>4, <1>5 DEF ServeInit, ConnectionInv, Progress, Handed

\* The steps that write nothing.
LEMMA QuietStep ==
    ASSUME ConnectionInv,
           \/ LoopHead \/ ReadHeader \/ ReadBody \/ ReadFails \/ Dispatch
           \/ Route \/ RouteAsGet \/ AskForAllow \/ Refuse \/ HandlerEnds
           \/ Respond \/ SseReturns \/ stop \/ UNCHANGED connVars
    PROVE  ConnectionInv'
<1>0. wire' = wire /\ Sound(wire) /\ Sound(wire')
  BY DEF ConnectionInv, LoopHead, ReadHeader, ReadBody, ReadFails, Dispatch, Route, RouteAsGet,
     AskForAllow, Refuse, Routing, HandlerEnds, Respond, SseReturns, stop, connVars
<1>a. wire \in Seq(Tokens) /\ CountIn(wire, Answers) \in Nat
  BY <1>0, CountIsNat DEF Sound
<1> USE DEF ConnectionInv, Progress, Handed, Unanswered
<1>1. CASE LoopHead
  <2>1. Typed'
    BY <1>1, ServeAssumption DEF LoopHead, AnotherAllowed, Typed
  <2>2. CASE pc' = "header"
    <3>1. requestCount \in Nat /\ requestCount' = requestCount + 1
      BY <1>1, <2>2 DEF LoopHead, Typed
    <3>2. CountIn(wire, Answers) = requestCount /\ Clean(wire) /\ LastOf(wire) = "response"
      BY <1>1 DEF LoopHead
    <3>3. CountIn(wire', Answers) = requestCount' - 1 /\ CountIn(wire', Answers) <= requestCount'
      BY <1>0, <3>1, <3>2
    <3> QED  BY <1>0, <1>1, <2>1, <2>2, <3>2, <3>3 DEF LoopHead
  <2>3. CASE pc' = "end"
    BY <1>0, <1>1, <2>1, <2>3 DEF LoopHead
  <2> QED  BY <1>1, <2>2, <2>3 DEF LoopHead
<1>2. CASE ReadHeader
  BY <1>0, <1>2 DEF ReadHeader, Typed
<1>3. CASE ReadBody
  BY <1>0, <1>3 DEF ReadBody, Typed, NoResponse
<1>4. CASE ReadFails
  BY <1>0, <1>4 DEF ReadFails, Typed
<1>5. CASE Dispatch
  <2>1. Typed'
    BY <1>5 DEF Dispatch, Typed, Unwritten
  <2>2. pc = "dispatch" /\ pc' \in {"sse", "ws"} /\ UNCHANGED requestCount /\ UNCHANGED writer
    BY <1>5 DEF Dispatch
  <2>3. writer = Unwritten /\ Unanswered /\ UNCHANGED <<req, wire>>
    BY <1>5 DEF Dispatch
  <2>4. Unanswered'
    BY <2>2, <2>3
  <2>5. Progress'
    <3>1. CountIn(wire', Answers) <= requestCount'
      BY <2>2, <2>3
    <3> QED  BY <2>2, <2>4, <3>1
  <2>6. Handed'
    BY <2>2, <2>3, <2>4 DEF Stream, Unwritten
  <2> QED  BY <1>0, <2>1, <2>5, <2>6
<1>6. CASE Route \/ RouteAsGet
  <2>1. UNCHANGED <<requestCount, req, stopped, writer, wire, resp>>
    BY <1>6 DEF Route, RouteAsGet, Routing
  <2>2. pc' \in {"handler", "fallback", "refuse"} /\ pc \in {"dispatch", "fallback"}
    BY <1>6 DEF Route, RouteAsGet, After
  <2>3. pc' = "fallback" => ~Streams(req) /\ ~Upgrades(req)
    BY <1>6 DEF Route, RouteAsGet, After
  <2>4. Typed'
    BY <2>1, <2>2 DEF Typed
  <2>5. Progress'
    BY <1>6, <2>1, <2>2
  <2>6. req \in Requests /\ resp = NoResponse /\ writer = Unwritten
    BY <2>2
  <2>7. Handed'
    BY <2>1, <2>2, <2>3, <2>6
  <2> QED  BY <1>0, <2>4, <2>5, <2>7
<1>12. CASE AskForAllow \/ Refuse
  <2>1. UNCHANGED <<requestCount, req, stopped, writer, wire>>
    BY <1>12 DEF AskForAllow, Refuse, Routing
  <2>2. pc' \in {"respond", "refuse"} /\ pc = "refuse"
    BY <1>12 DEF AskForAllow, Refuse
  <2>3. resp' \in [status : {0, 200, 404, 405, 500}, keepAlive : BOOLEAN, allow : SUBSET Methods]
    <3>1. resp \in [status : {0, 200, 404, 405, 500}, keepAlive : BOOLEAN, allow : SUBSET Methods]
      BY DEF Typed
    <3>2. CASE AskForAllow
      <4>1. PICK m \in Methods : resp' \in {resp, [resp EXCEPT !.allow = @ \cup {m}]}
        BY <3>2 DEF AskForAllow
      <4> QED  BY <3>1, <4>1
    <3>3. CASE Refuse
      <4>1. \/ resp' = [resp EXCEPT !.status = 404, !.keepAlive = FALSE]
            \/ resp' = [resp EXCEPT !.status = 405, !.keepAlive = FALSE]
        BY <3>3 DEF Refuse
      <4>2. PICK n \in {404, 405}, b \in BOOLEAN :
              resp' = [resp EXCEPT !.status = n, !.keepAlive = b]
        BY <4>1
      <4> DEFINE r == [resp EXCEPT !.status = n]
                 T == [status : {0, 200, 404, 405, 500}, keepAlive : BOOLEAN,
                       allow : SUBSET Methods]
      <4>3. r \in T
        BY <3>1
      <4>4. resp' = [r EXCEPT !.keepAlive = b]
        BY <3>1, <4>2
      <4> HIDE DEF r
      <4>5. [r EXCEPT !.keepAlive = b] \in T
        BY <4>3
      <4> QED  BY <4>4, <4>5
    <3> QED  BY <1>12, <3>2, <3>3
  <2>4. Typed'
    BY <2>1, <2>2, <2>3 DEF Typed
  <2>5. Progress'
    BY <2>1, <2>2
  <2>6. Handed'
    BY <2>1, <2>2
  <2> QED  BY <1>0, <2>4, <2>5, <2>6
<1>7. CASE HandlerEnds
  <2>1. resp' \in [status : {0, 200, 404, 405, 500}, keepAlive : BOOLEAN, allow : SUBSET Methods]
    <3>1. {} \in SUBSET Methods
      OBVIOUS
    <3>2. CASE resp' \in [status : {200}, keepAlive : BOOLEAN, allow : {{}}]
      BY <3>1, <3>2
    <3>3. CASE resp' = [status |-> 500, keepAlive |-> FALSE, allow |-> {}]
      BY <3>1, <3>3
    <3> QED  BY <1>7, <3>2, <3>3 DEF HandlerEnds
  <2> QED  BY <1>0, <1>7, <2>1 DEF HandlerEnds, Typed
<1>8. CASE Respond
  <2>1. PICK b \in BOOLEAN : resp' = [resp EXCEPT !.keepAlive = b]
    BY <1>8 DEF Respond
  <2>2. resp' \in [status : {0, 200, 404, 405, 500}, keepAlive : BOOLEAN, allow : SUBSET Methods]
    BY <2>1 DEF Typed
  <2> QED  BY <1>0, <1>8, <2>2 DEF Respond, Typed
<1>9. CASE SseReturns
  BY <1>0, <1>9 DEF SseReturns, Typed
<1>10. CASE stop
  BY <1>0, <1>10 DEF stop, Typed, Stream
<1>11. CASE UNCHANGED connVars
  BY <1>0, <1>11 DEF connVars, Typed, Stream
<1> QED  BY <1>1, <1>2, <1>3, <1>4, <1>5, <1>6, <1>7, <1>8, <1>9, <1>10, <1>11, <1>12

\* A step that leaves the connection over, or about to be shut down.
LEMMA Leaves ==
    ASSUME ConnectionInv, Sound(wire'), CountIn(wire', Answers) <= requestCount,
           CountIn(wire', {"chunk"}) <= MaxEvents,
           UNCHANGED <<requestCount, stopped>>,
           Over \/ (pc' = "end" /\ UNCHANGED <<req, resp>>
                    /\ writer' \in [headerSent : BOOLEAN, responseSent : BOOLEAN])
    PROVE  ConnectionInv'
<1>1. Typed'
  BY BlankTypes DEF ConnectionInv, Typed, Over
<1> QED  BY <1>1 DEF ConnectionInv, Progress, Handed, Over

LEMMA WritingStep ==
    ASSUME ConnectionInv,
           \/ SendContinue \/ AnswerBadRequest \/ HandlerCancelled \/ Written \/ WriteFails
           \/ ShutdownSend \/ Accept \/ WsEnds
    PROVE  ConnectionInv'
<1>0. Sound(wire) /\ wire \in Seq(Tokens) /\ (Closed <=> LastOf(wire) = "fin")
  BY ClosedIsLast DEF ConnectionInv, Sound
<1>1. CountIn(wire, Answers) \in Nat /\ CountIn(wire, {"chunk"}) \in Nat
      /\ CountIn(wire, {"upgrade"}) \in Nat
  BY <1>0, CountIsNat
<1>2. Clean(wire) => LastOf(wire) \in {"continue", "response"}
  BY <1>0, CleanLast
<1>3. requestCount \in Nat /\ CountIn(wire, Answers) <= requestCount
      /\ CountIn(wire, {"chunk"}) <= MaxEvents
  BY DEF ConnectionInv, Typed, Progress
<1>4. ASSUME Shutdown, Over, UNCHANGED <<requestCount, stopped>> PROVE ConnectionInv'
  BY <1>0, <1>3, <1>4, Shuts, Leaves, TokenKinds
<1>5. CASE SendContinue
  <2>1. Unanswered /\ LastOf(wire) = "response" /\ writer = Unwritten /\ pc = "continue"
    BY <1>5 DEF ConnectionInv, Progress, Handed, SendContinue
  <2>2. "continue" \in Tokens /\ Follows(LastOf(wire), "continue") /\ Follows(LastOf(wire), "cut")
    BY <2>1, TokenKinds DEF MayFollow, StillSent, Follows
  <2>3. CASE Sent(<<"continue">>) /\ pc' = "body"
    <3>1. Sound(wire') /\ Clean(wire') /\ CountIn(wire', Answers) = CountIn(wire, Answers)
          /\ CountIn(wire', {"chunk"}) = CountIn(wire, {"chunk"})
      BY <1>0, <1>1, <2>1, <2>2, <2>3, SentOne, TokenKinds DEF Unanswered
    <3> QED  BY <1>3, <1>5, <2>1, <2>3, <3>1
             DEF SendContinue, ConnectionInv, Typed, Progress, Handed, Unanswered
  <2>4. CASE TimedOut(<<"continue">>) /\ pc' = "end"
    <3>1. Sound(wire') /\ CountIn(wire', Answers) = CountIn(wire, Answers)
          /\ CountIn(wire', {"chunk"}) = CountIn(wire, {"chunk"})
      BY <1>0, <2>2, <2>4, GivenUp, TokenKinds
    <3>2. writer' \in [headerSent : BOOLEAN, responseSent : BOOLEAN]
      BY <1>5 DEF SendContinue, ConnectionInv, Typed
    <3> QED  BY <1>3, <1>5, <2>4, <3>1, <3>2, Leaves DEF SendContinue
  <2>5. CASE Broken(<<"continue">>) /\ pc' = "bad"
    <3>1. Sound(wire') /\ CountIn(wire', Answers) = CountIn(wire, Answers)
          /\ LastOf(wire') = "fin" /\ CountIn(wire', {"chunk"}) = CountIn(wire, {"chunk"})
      BY <1>0, <2>2, <2>5, GivenUp, TokenKinds
    <3> QED  BY <1>3, <1>5, <2>1, <2>5, <3>1
             DEF SendContinue, ConnectionInv, Typed, Progress, Handed, Unanswered
  <2> QED  BY <1>5, <2>3, <2>4, <2>5 DEF SendContinue
<1>6. CASE AnswerBadRequest
  <2>1. CountIn(wire, Answers) = requestCount - 1 /\ (Clean(wire) \/ LastOf(wire) = "fin")
    BY <1>6 DEF ConnectionInv, Progress, AnswerBadRequest
  <2>2. "closing" \in Tokens /\ "closing" \in Answers
    BY TokenKinds
  <2>3. LastOf(wire) # "fin" => Follows(LastOf(wire), "closing") /\ Follows(LastOf(wire), "cut")
    BY <1>2, <2>1, <2>2 DEF MayFollow, StillSent, Follows
  <2>4. CASE Sent(<<"closing">>) /\ pc' = "end" /\ UNCHANGED <<req, resp, writer>>
    <3>1. LastOf(wire) # "fin"
      BY <1>0, <2>4 DEF Sent
    <3>2. Sound(wire') /\ CountIn(wire', Answers) = CountIn(wire, Answers) + 1
          /\ CountIn(wire', {"chunk"}) = CountIn(wire, {"chunk"})
      BY <1>0, <1>1, <2>2, <2>3, <2>4, <3>1, SentOne
    <3>3. writer' \in [headerSent : BOOLEAN, responseSent : BOOLEAN]
      BY <2>4 DEF ConnectionInv, Typed
    <3> QED  BY <1>3, <1>6, <2>1, <2>4, <3>2, <3>3, Leaves DEF AnswerBadRequest
  <2>5. CASE Broken(<<"closing">>) /\ Over
    <3>1. Sound(wire') /\ CountIn(wire', Answers) = CountIn(wire, Answers)
          /\ CountIn(wire', {"chunk"}) = CountIn(wire, {"chunk"})
      BY <1>0, <2>2, <2>3, <2>5, GivenUp, TokenKinds
    <3> QED  BY <1>3, <1>6, <2>5, <3>1, Leaves DEF AnswerBadRequest
  <2> QED  BY <1>6, <2>4, <2>5 DEF AnswerBadRequest
<1>7. CASE HandlerCancelled
  BY <1>4, <1>7 DEF HandlerCancelled
<1>8. CASE ShutdownSend
  BY <1>4, <1>8 DEF ShutdownSend
<1>9. ASSUME pc = "write"
      PROVE  /\ Unanswered /\ writer = Unwritten
             /\ \A t \in {"response", "closing", "cut"} : t \in Tokens /\ Follows(LastOf(wire), t)
             /\ "response" \in Answers /\ "closing" \in Answers
  <2>1. Unanswered /\ writer = Unwritten
    BY <1>9 DEF ConnectionInv, Progress, Handed
  <2> QED  BY <1>2, <2>1, TokenKinds DEF MayFollow, StillSent, Follows, Unanswered
<1>10. CASE Written
  <2>1. PICK t \in {"response", "closing"} :
          Sent(<<t>>) /\ (t = "response" <=> resp.keepAlive)
    BY <1>10 DEF Written
  <2>2. pc = "write"
    BY <1>10 DEF Written
  <2>3. /\ Sound(wire') /\ LastOf(wire') = t /\ (t = "response" => Clean(wire'))
        /\ CountIn(wire', Answers) = CountIn(wire, Answers) + 1
        /\ CountIn(wire', {"chunk"}) = CountIn(wire, {"chunk"})
    BY <1>0, <1>1, <1>9, <2>1, <2>2, SentOne DEF Unanswered
  <2>4. CountIn(wire', Answers) = requestCount
    BY <1>1, <1>3, <1>9, <2>2, <2>3 DEF Unanswered
  <2>5. Typed'
    BY <1>10, <2>3 DEF Written, ConnectionInv, Typed, NoResponse
  <2> QED  BY <1>3, <1>9, <1>10, <2>1, <2>2, <2>3, <2>4, <2>5
           DEF Written, ConnectionInv, Progress, Handed
<1>11. CASE WriteFails
  <2>1. PICK t \in {"response", "closing"} : Broken(<<t>>)
    BY <1>11 DEF WriteFails
  <2>2. pc = "write"
    BY <1>11 DEF WriteFails
  <2>3. Sound(wire') /\ CountIn(wire', Answers) = CountIn(wire, Answers)
        /\ CountIn(wire', {"chunk"}) = CountIn(wire, {"chunk"})
    BY <1>0, <1>9, <2>1, <2>2, GivenUp, TokenKinds
  <2> QED  BY <1>3, <1>11, <2>3, Leaves DEF WriteFails
<1>12. Count({"upgrade"}) = CountIn(wire, {"upgrade"})
  BY DEF Count, CountIn
<1>13. ASSUME pc = "ws", CountIn(wire, {"upgrade"}) # 1
       PROVE  /\ Unanswered
              /\ \A t \in {"upgrade", "closing", "cut"} : t \in Tokens /\ Follows(LastOf(wire), t)
  <2>1. Unanswered
    BY <1>13 DEF ConnectionInv, Progress
  <2> QED  BY <1>2, <2>1, TokenKinds DEF MayFollow, StillSent, Follows, Unanswered
<1>14. CASE Accept
  <2>1. pc = "ws" /\ CountIn(wire, {"upgrade"}) = 0 /\ writer = Unwritten
    BY <1>12, <1>14 DEF Accept, ConnectionInv, Handed
  <2>2. /\ Sound(wire') /\ LastOf(wire') = "upgrade"
        /\ CountIn(wire', Answers) = CountIn(wire, Answers) + 1
        /\ CountIn(wire', {"upgrade"}) = CountIn(wire, {"upgrade"}) + 1
        /\ CountIn(wire', {"chunk"}) = CountIn(wire, {"chunk"})
    <3>1. "upgrade" \in Answers
      BY TokenKinds
    <3> QED  BY <1>0, <1>1, <1>13, <1>14, <2>1, <3>1, SentOne DEF Accept
  <2>3. Typed'
    BY <1>14, <2>2 DEF Accept, ConnectionInv, Typed
  <2> QED  BY <1>1, <1>3, <1>13, <1>14, <2>1, <2>2, <2>3
           DEF Accept, ConnectionInv, Progress, Handed, Unanswered
<1>15. CASE WsEnds
  <2>1. CASE Count({"upgrade"}) = 1
    BY <1>4, <1>15, <2>1 DEF WsEnds
  <2>2. CASE Count({"upgrade"}) # 1 /\ Broken(<<"upgrade">>)
    <3>1. Sound(wire') /\ CountIn(wire', Answers) = CountIn(wire, Answers)
          /\ CountIn(wire', {"chunk"}) = CountIn(wire, {"chunk"})
      <4>1. "upgrade" \in Tokens /\ Follows(LastOf(wire), "cut")
        BY <1>12, <1>13, <1>15, <2>2 DEF WsEnds
      <4> QED  BY <1>0, <2>2, <4>1, GivenUp, TokenKinds
    <3> QED  BY <1>3, <1>15, <2>2, <3>1, Leaves DEF WsEnds
  <2>3. CASE Count({"upgrade"}) # 1 /\ wire' = wire \o <<"closing", "fin">>
    <3>1. Unanswered /\ "closing" \in Tokens /\ "fin" \in Tokens /\ Follows(LastOf(wire), "closing")
      BY <1>12, <1>13, <1>15, <2>3, TokenKinds DEF WsEnds
    <3>2. wire' = Append(Append(wire, "closing"), "fin")
      BY <1>0, <2>3, <3>1, Short
    <3> DEFINE c == Append(wire, "closing")
    <3>3. /\ Sound(c) /\ LastOf(c) = "closing"
          /\ CountIn(c, Answers) = CountIn(wire, Answers) + 1
          /\ CountIn(c, {"chunk"}) = CountIn(wire, {"chunk"})
      <4>1. "closing" \in Answers
        BY TokenKinds
      <4> QED  BY <1>0, <1>1, <3>1, <4>1, Grows, CountAppend
    <3> HIDE DEF c
    <3>4. /\ Sound(Append(c, "fin")) /\ CountIn(Append(c, "fin"), Answers) = CountIn(c, Answers)
          /\ CountIn(Append(c, "fin"), {"chunk"}) = CountIn(c, {"chunk"})
      BY <3>3, FinFollows, TokenKinds
    <3>5. wire' = Append(c, "fin")
      BY <3>2 DEF c
    <3>6. CountIn(wire', Answers) <= requestCount
      BY <1>1, <1>3, <3>1, <3>3, <3>4, <3>5 DEF Unanswered
    <3> QED  BY <1>3, <1>15, <3>3, <3>4, <3>5, <3>6, Leaves DEF WsEnds
  <2> QED  BY <1>15, <2>1, <2>2, <2>3 DEF WsEnds
<1> QED  BY <1>5, <1>6, <1>7, <1>8, <1>10, <1>11, <1>14, <1>15

\* writeResponse() and serve()'s own answer to an exception.
LEMMA RespondWholeStep ==
    ASSUME ConnectionInv, pc = "sse", NEW ok \in BOOLEAN, RespondWhole(ok)
    PROVE  /\ Sound(wire') /\ CountIn(wire', Answers) <= requestCount
           /\ CountIn(wire', {"chunk"}) = CountIn(wire, {"chunk"})
           /\ \/ UNCHANGED <<writer, wire>>
              \/ /\ writer' = [writer EXCEPT !.responseSent = TRUE]
                 /\ ~writer.headerSent /\ ~writer.responseSent
                 /\ LastOf(wire') \in IF ok THEN {"closing"} ELSE {"cut", "fin"}
<1>0. Sound(wire) /\ wire \in Seq(Tokens) /\ (Closed <=> LastOf(wire) = "fin") /\ Stream
  BY ClosedIsLast DEF ConnectionInv, Sound, Handed
<1>1. CountIn(wire, Answers) \in Nat /\ CountIn(wire, {"chunk"}) \in Nat
  BY <1>0, CountIsNat
<1>2. requestCount \in Nat /\ CountIn(wire, Answers) <= requestCount
  BY DEF ConnectionInv, Typed, Progress
<1>3. CASE ~MayRespond
  BY <1>0, <1>2, <1>3 DEF RespondWhole
<1>4. CASE MayRespond
  <2>1. /\ Write(<<"closing">>, ok) /\ ~writer.headerSent /\ ~writer.responseSent
        /\ writer' = [writer EXCEPT !.responseSent = TRUE]
    BY <1>4 DEF RespondWhole, MayRespond
  <2>2. ~Closed => /\ Unanswered
                   /\ \A t \in {"closing", "cut"} : t \in Tokens /\ Follows(LastOf(wire), t)
    <3>1. ~Closed => Unanswered
      BY <1>0, <2>1 DEF Stream
    <3>2. Unanswered => LastOf(wire) \in {"continue", "response"}
      BY <1>0, CleanLast DEF Unanswered
    <3> QED  BY <3>1, <3>2, TokenKinds DEF MayFollow, StillSent, Follows
  <2>3. CASE ok
    <3>1. Sent(<<"closing">>) /\ ~Closed
      BY <2>1, <2>3 DEF Write, Sent
    <3>2. "closing" \in Answers
      BY TokenKinds
    <3>3. /\ Sound(wire') /\ LastOf(wire') = "closing"
          /\ CountIn(wire', Answers) = CountIn(wire, Answers) + 1
          /\ CountIn(wire', {"chunk"}) = CountIn(wire, {"chunk"})
      BY <1>0, <1>1, <2>2, <3>1, <3>2, SentOne
    <3> QED  BY <1>1, <1>2, <2>1, <2>2, <2>3, <3>1, <3>3 DEF Unanswered
  <2>4. CASE ~ok
    <3>1. TimedOut(<<"closing">>) \/ Broken(<<"closing">>)
      BY <2>1, <2>4 DEF Write
    <3>2. "closing" \in Tokens
      BY TokenKinds
    <3>3. /\ Sound(wire') /\ LastOf(wire') \in {"cut", "fin"}
          /\ CountIn(wire', Answers) = CountIn(wire, Answers)
          /\ CountIn(wire', {"chunk"}) = CountIn(wire, {"chunk"})
      BY <1>0, <2>2, <3>1, <3>2, GivenUp, TokenKinds
    <3> QED  BY <1>2, <2>1, <2>4, <3>3
  <2> QED  BY <2>3, <2>4
<1> QED  BY <1>3, <1>4

LEMMA doWriteStep == ASSUME ConnectionInv, doWrite PROVE ConnectionInv'
<1>0. /\ Sound(wire) /\ wire \in Seq(Tokens) /\ (Closed <=> LastOf(wire) = "fin") /\ Stream
      /\ pc = "sse" /\ ~writer.responseSent
  BY ClosedIsLast DEF ConnectionInv, Sound, Handed, doWrite, MayUse
<1>1. /\ CountIn(wire, Answers) \in Nat /\ CountIn(wire, {"chunk"}) \in Nat
      /\ requestCount \in Nat /\ CountIn(wire, Answers) <= requestCount
      /\ CountIn(wire, {"chunk"}) < MaxEvents /\ MaxEvents \in Nat
  <2>1. Count({"chunk"}) = CountIn(wire, {"chunk"})
    BY DEF Count, CountIn
  <2>2. Count({"chunk"}) < MaxEvents
    BY DEF doWrite
  <2>3. CountIn(wire, Answers) \in Nat /\ CountIn(wire, {"chunk"}) \in Nat
    BY <1>0, CountIsNat
  <2>4. requestCount \in Nat /\ CountIn(wire, Answers) <= requestCount
    BY DEF ConnectionInv, Typed, Progress
  <2>5. MaxEvents \in Nat
    BY ServeAssumption
  <2> QED  BY <2>1, <2>2, <2>3, <2>4, <2>5
<1>2. PICK ok \in BOOLEAN :
         /\ Write(IF writer.headerSent THEN <<"chunk">> ELSE <<"head", "chunk">>, ok)
         /\ writer' = [writer EXCEPT !.headerSent = TRUE]
  BY DEF doWrite
<1>3. writer \in [headerSent : BOOLEAN, responseSent : BOOLEAN]
  BY DEF ConnectionInv, Typed
<1>4. /\ writer' \in [headerSent : BOOLEAN, responseSent : BOOLEAN]
      /\ writer'.headerSent /\ ~writer'.responseSent
  BY <1>0, <1>2, <1>3
<1>5. /\ Sound(wire') /\ CountIn(wire', Answers) <= requestCount
      /\ CountIn(wire', {"chunk"}) <= MaxEvents
      /\ LastOf(wire') \in IF ok THEN {"chunk"} ELSE {"cut", "fin"}
  <2>1. CASE writer.headerSent
    <3>1. LastOf(wire) \in {"chunk", "cut", "fin"}
      BY <1>0, <2>1 DEF Stream
    <3>2. "chunk" \in Tokens /\ "chunk" \notin Answers
          /\ \A t \in {"chunk", "cut"} : Follows(t, "chunk") /\ Follows(t, "cut")
      BY TokenKinds DEF MayFollow, StillSent, Follows
    <3>3. CASE ok
      <4>1. Sent(<<"chunk">>) /\ ~Closed
        BY <1>2, <2>1, <3>3 DEF Write, Sent
      <4>2. /\ Sound(wire') /\ LastOf(wire') = "chunk"
            /\ CountIn(wire', Answers) = CountIn(wire, Answers)
            /\ CountIn(wire', {"chunk"}) = CountIn(wire, {"chunk"}) + 1
        BY <1>0, <1>1, <3>1, <3>2, <4>1, SentOne
      <4> QED  BY <1>1, <3>3, <4>2
    <3>4. CASE ~ok
      <4>1. TimedOut(<<"chunk">>) \/ Broken(<<"chunk">>)
        BY <1>2, <2>1, <3>4 DEF Write
      <4>2. /\ Sound(wire') /\ LastOf(wire') \in {"cut", "fin"}
            /\ CountIn(wire', Answers) = CountIn(wire, Answers)
            /\ CountIn(wire', {"chunk"}) = CountIn(wire, {"chunk"})
        BY <1>0, <3>1, <3>2, <4>1, GivenUp, TokenKinds
      <4> QED  BY <1>1, <3>4, <4>2
    <3> QED  BY <3>3, <3>4
  <2>2. CASE ~writer.headerSent
    <3>1. Closed \/ LastOf(wire) \in {"continue", "response"}
      BY <1>0, <2>2, CleanLast DEF Stream, Unanswered
    <3>2. ~Closed => CountIn(wire, Answers) = requestCount - 1
      BY <1>0, <2>2 DEF Stream, Unanswered
    <3>3. CASE ok
      <4>1. Sent(<<"head", "chunk">>) /\ ~Closed
        BY <1>2, <2>2, <3>3 DEF Write, Sent
      <4> QED  BY <1>0, <1>1, <3>1, <3>2, <3>3, <4>1, SentHeadChunk
    <3>4. CASE ~ok
      <4>1. TimedOut(<<"head", "chunk">>) \/ Broken(<<"head", "chunk">>)
        BY <1>2, <2>2, <3>4 DEF Write
      <4> QED  BY <1>0, <1>1, <3>1, <3>2, <3>4, <4>1, GivenUpHeadChunk
    <3> QED  BY <3>3, <3>4
  <2> QED  BY <2>1, <2>2
<1>6. Typed'
  BY <1>4, <1>5 DEF doWrite, ConnectionInv, Typed
<1>7. Stream'
  BY <1>4, <1>5 DEF Stream
<1> QED  BY <1>0, <1>5, <1>6, <1>7 DEF doWrite, ConnectionInv, Progress, Handed

LEMMA writeResponseStep == ASSUME ConnectionInv, writeResponse PROVE ConnectionInv'
<1>0. /\ pc = "sse" /\ ~writer.responseSent
      /\ UNCHANGED <<pc, requestCount, req, resp, stopped>>
  BY DEF writeResponse, MayUse
<1>1. PICK ok \in BOOLEAN : RespondWhole(ok)
  BY DEF writeResponse
<1>2. /\ Sound(wire') /\ CountIn(wire', Answers) <= requestCount
      /\ CountIn(wire', {"chunk"}) = CountIn(wire, {"chunk"})
      /\ \/ UNCHANGED <<writer, wire>>
         \/ /\ writer' = [writer EXCEPT !.responseSent = TRUE]
            /\ ~writer.headerSent /\ ~writer.responseSent
            /\ LastOf(wire') \in IF ok THEN {"closing"} ELSE {"cut", "fin"}
  BY <1>0, <1>1, RespondWholeStep
<1>3. CASE UNCHANGED <<writer, wire>>
  BY <1>0, <1>2, <1>3 DEF ConnectionInv, Typed, Progress, Handed, Stream, Unanswered
<1>4. CASE /\ writer' = [writer EXCEPT !.responseSent = TRUE]
           /\ ~writer.headerSent /\ ~writer.responseSent
           /\ LastOf(wire') \in IF ok THEN {"closing"} ELSE {"cut", "fin"}
  <2>1. writer \in [headerSent : BOOLEAN, responseSent : BOOLEAN]
    BY DEF ConnectionInv, Typed
  <2>2. /\ writer' \in [headerSent : BOOLEAN, responseSent : BOOLEAN]
        /\ ~writer'.headerSent /\ writer'.responseSent
    BY <1>4, <2>1
  <2>3. Stream'
    BY <1>4, <2>2 DEF Stream
  <2>4. Typed'
    BY <1>0, <1>2, <2>2 DEF ConnectionInv, Typed
  <2> QED  BY <1>0, <1>2, <2>3, <2>4 DEF ConnectionInv, Progress, Handed
<1> QED  BY <1>2, <1>3, <1>4

LEMMA closeStep == ASSUME ConnectionInv, close PROVE ConnectionInv'
<1>0. /\ Sound(wire) /\ wire \in Seq(Tokens) /\ (Closed <=> LastOf(wire) = "fin") /\ Stream
      /\ UNCHANGED <<pc, requestCount, req, resp, stopped, writer>> /\ pc = "sse"
  BY ClosedIsLast DEF ConnectionInv, Sound, Handed, close
<1>1. CountIn(wire, Answers) \in Nat /\ CountIn(wire, {"chunk"}) \in Nat
  BY <1>0, CountIsNat
<1>2. CASE UNCHANGED wire
  BY <1>0, <1>2 DEF ConnectionInv, Typed, Progress, Handed, Stream, Unanswered
<1>3. CASE ~Closed
  <2> DEFINE begun == writer.headerSent /\ ~writer.responseSent
  <2>1. PICK v : /\ wire' = Append(v, "fin")
                 /\ v = wire \/ (begun /\ v \in {Append(wire, "end"), Append(wire, "cut")})
    <3>1. Parts(<<"end">>) = {Append(wire, "cut")}
      BY <1>0, PartsOfOne, TokenKinds
    <3> QED  BY <1>3, <3>1 DEF close
  <2>2. /\ Sound(v) /\ LastOf(v) # "fin" /\ CountIn(v, Answers) = CountIn(wire, Answers)
        /\ CountIn(v, {"chunk"}) = CountIn(wire, {"chunk"})
    <3>1. CASE v = wire
      BY <1>0, <1>3, <3>1
    <3>2. CASE begun /\ v \in {Append(wire, "end"), Append(wire, "cut")}
      <4>1. LastOf(wire) \in {"chunk", "cut"}
        BY <1>0, <1>3, <3>2 DEF Stream
      <4>2. PICK t \in {"end", "cut"} : v = Append(wire, t)
        BY <3>2
      <4>3. t \in Tokens /\ Follows(LastOf(wire), t) /\ t \notin Answers
        BY <4>1, TokenKinds DEF MayFollow, StillSent, Follows
      <4> QED  BY <1>0, <1>1, <4>2, <4>3, Grows, CountAppend
    <3> QED  BY <2>1, <3>1, <3>2
  <2>3. /\ Sound(wire') /\ LastOf(wire') = "fin" /\ CountIn(wire', Answers) = CountIn(wire, Answers)
        /\ CountIn(wire', {"chunk"}) = CountIn(wire, {"chunk"})
    BY <2>1, <2>2, FinFollows, TokenKinds
  <2> QED  BY <1>0, <2>3 DEF ConnectionInv, Typed, Progress, Handed, Stream
<1> QED  BY <1>2, <1>3 DEF close

LEMMA SseThrowsStep == ASSUME ConnectionInv, SseThrows PROVE ConnectionInv'
<1>0. pc = "sse" /\ pc' = "end" /\ UNCHANGED <<requestCount, req, resp, stopped>>
  BY DEF SseThrows
<1>1. PICK ok \in BOOLEAN : RespondWhole(ok)
  BY DEF SseThrows
<1>2. /\ Sound(wire') /\ CountIn(wire', Answers) <= requestCount
      /\ CountIn(wire', {"chunk"}) = CountIn(wire, {"chunk"})
      /\ \/ UNCHANGED <<writer, wire>>
         \/ writer' = [writer EXCEPT !.responseSent = TRUE]
  BY <1>0, <1>1, RespondWholeStep
<1>3. writer \in [headerSent : BOOLEAN, responseSent : BOOLEAN]
      /\ CountIn(wire, {"chunk"}) <= MaxEvents
  BY DEF ConnectionInv, Typed
<1>4. writer' \in [headerSent : BOOLEAN, responseSent : BOOLEAN]
  BY <1>2, <1>3
<1> QED  BY <1>0, <1>2, <1>3, <1>4, Leaves

LEMMA StepConnection == ASSUME ConnectionInv, [ServeNext]_allVars PROVE ConnectionInv'
<1>1. RouterChanges \/ UNCHANGED allVars => UNCHANGED connVars
  BY DEF RouterChanges, allVars, serveVars
<1> QED
  BY <1>1, QuietStep, WritingStep, doWriteStep, writeResponseStep, closeStep, SseThrowsStep
  DEF ServeNext, Reading, Answering, Streaming

-----------------------------------------------------------------------------
(* The dispatch *)

\* While a request is dispatched, and the routes have not changed meanwhile: what the
\* first lookup has shown, and how far the refusal has got.
Known ==
    /\ pc = "fallback" => req.method = "HEAD" /\ "HEAD" \notin Registered
    /\ pc = "refuse" =>
         /\ ~(Decisive \in Registered
              /\ Callable(getNocache(req.path, Decisive, FALSE), Decisive))
         /\ resp.allow = Registered \cap asked

DispatchInv ==
    /\ asked \subseteq Methods /\ changed \in BOOLEAN
    /\ pc # "refuse" => asked = {}
    /\ ~changed => Known

ServeInv == RouterInv /\ ConnectionInv /\ DispatchInv

\* A lookup finds what getNocache() would, for a method that is registered then.
LEMMA LookupIs ==
    ASSUME RouterInv, NEW q \in Queries, NEW m, get(q, m, FALSE)
    PROVE  /\ found' = getNocache(q, m, FALSE)
           /\ found' # NoNode => m \in Methods
<1> DEFINE n == getTreepNocache(q, FALSE)
<1>1. found' = Handler(n, m, FALSE)
  BY NodeIsLookup DEF get, RouterInv
<1>2. found' # NoNode => Has(n, m)
  BY <1>1 DEF Handler
<1>3. Has(n, m) => m \in Methods
  BY DEF Has, RouterInv, TypeOK
<1> QED  BY <1>1, <1>2, <1>3 DEF getNocache

\* The lookups depend on the tree and its handlers alone.
LEMMA RoutesAre ==
    ASSUME UNCHANGED <<tree, handles>>
    PROVE  \A q, m : getNocache(q, m, FALSE)' = getNocache(q, m, FALSE)
BY DEF getNocache, getTreepNocache, Depth, Handler, Has

LEMMA KnownStays ==
    ASSUME Known, UNCHANGED <<tree, handles, pc, req, resp, asked>>
    PROVE  Known'
<1>1. Registered' = Registered
  BY RoutesAre DEF Registered
<1>2. Decisive' = Decisive
  BY <1>1 DEF Decisive
<1>3. \A m : getNocache(req.path, m, FALSE)' = getNocache(req.path, m, FALSE)
  BY RoutesAre
<1> QED  BY <1>1, <1>2, <1>3 DEF Known, Callable

\* The path of a request that is routed is one that can be looked up.
LEMMA PathIsQuery ==
    ASSUME ConnectionInv, Route \/ RouteAsGet
    PROVE  req.path \in Queries /\ resp = NoResponse
BY ServeAssumption DEF ConnectionInv, Handed, Route, RouteAsGet

\* What the routes say of a request whose first lookup finds node.
LEMMA FirstLookup ==
    ASSUME req.method \in Methods,
           NEW node, node = getNocache(req.path, req.method, FALSE)
    PROVE  /\ node # NoNode => req.method \in Registered /\ Decisive = req.method
           /\ node = NoNode => req.method \notin Registered
           /\ node = NoNode /\ req.method # "HEAD" => Decisive = req.method
BY DEF Registered, Decisive

\* The conclusions of a lookup.
RouteKnows ==
    /\ pc' = "handler" => Decisive \in Registered
                            /\ Callable(getNocache(req.path, Decisive, FALSE), Decisive)
    /\ pc' = "fallback" => req.method = "HEAD" /\ "HEAD" \notin Registered
    /\ pc' = "refuse" => ~(Decisive \in Registered
                            /\ Callable(getNocache(req.path, Decisive, FALSE), Decisive))

LEMMA RouteStep == ASSUME ServeInv, Route PROVE RouteKnows
<1>1. req.path \in Queries
  BY PathIsQuery DEF ServeInv
<1>2. CASE req.method \in Methods /\ get(req.path, req.method, FALSE)
           /\ pc' = After(found', req.method, FallsBack(req.method))
  <2>1. found' = getNocache(req.path, req.method, FALSE)
    BY <1>1, <1>2, LookupIs DEF ServeInv
  <2>2. CASE found' # NoNode
    <3>1. req.method \in Registered /\ Decisive = req.method
      BY <1>2, <2>1, <2>2, FirstLookup
    <3> QED  BY <1>2, <2>1, <2>2, <3>1 DEF After, RouteKnows
  <2>3. CASE found' = NoNode
    <3>1. req.method \notin Registered /\ (req.method # "HEAD" => Decisive = req.method)
      BY <1>2, <2>1, <2>3, FirstLookup
    <3> QED  BY <1>2, <2>3, <3>1 DEF After, Callable, FallsBack, RouteKnows
  <2> QED  BY <2>2, <2>3
<1>3. CASE req.method \notin Methods /\ pc' = "refuse"
  <2>1. Decisive = req.method /\ req.method \notin Registered
    BY <1>3, ServeAssumption DEF Decisive, Registered
  <2> QED  BY <1>3, <2>1 DEF RouteKnows
<1> QED  BY <1>2, <1>3 DEF Route

LEMMA RouteAsGetStep ==
    ASSUME ServeInv, RouteAsGet, ~changed
    PROVE  RouteKnows
<1>1. req.path \in Queries /\ get(req.path, "GET", FALSE) /\ pc' = After(found', "GET", FALSE)
  BY PathIsQuery DEF ServeInv, RouteAsGet
<1>2. found' = getNocache(req.path, "GET", FALSE)
  BY <1>1, LookupIs DEF ServeInv
<1>3. Decisive = "GET"
  BY DEF ServeInv, DispatchInv, Known, RouteAsGet, Decisive
<1>4. "GET" \in Registered <=> found' # NoNode
  BY <1>2, ServeAssumption DEF Registered
<1>5. pc' # "fallback"
  BY <1>1 DEF After
<1>6. CASE Callable(found', "GET")
  BY <1>1, <1>2, <1>3, <1>4, <1>5, <1>6 DEF After, Callable, RouteKnows
<1>7. CASE ~Callable(found', "GET")
  BY <1>1, <1>2, <1>3, <1>5, <1>7 DEF After, RouteKnows
<1> QED  BY <1>6, <1>7

\* The routes are what they were.
LEMMA LookedUp ==
    ASSUME ServeInv, Route \/ RouteAsGet, ~changed
    PROVE  Known'
<1>1. RouteKnows
  BY RouteStep, RouteAsGetStep
<1>2. /\ UNCHANGED <<tree, handles, req, resp, asked>> /\ asked = {} /\ resp = NoResponse
      /\ pc' \in {"handler", "fallback", "refuse"}
  <2>1. pc \in {"dispatch", "fallback"} /\ asked = {} /\ resp = NoResponse
    BY PathIsQuery DEF ServeInv, DispatchInv, Route, RouteAsGet
  <2> QED  BY <2>1 DEF Route, RouteAsGet, Routing, get, routerVars, After
<1>3. Registered' = Registered
  BY <1>2, RoutesAre DEF Registered
<1>4. Decisive' = Decisive
  BY <1>2, <1>3 DEF Decisive
<1>5. Callable(getNocache(req.path, Decisive, FALSE), Decisive)'
        = Callable(getNocache(req.path, Decisive, FALSE), Decisive)
  <2>1. getNocache(req.path, Decisive, FALSE)' = getNocache(req.path, Decisive, FALSE)
    BY <1>2, <1>4, RoutesAre
  <2> QED  BY <1>4, <2>1 DEF Callable
<1>6. resp'.allow = {} /\ asked' = {}
  BY <1>2 DEF NoResponse
<1> QED  BY <1>1, <1>2, <1>3, <1>4, <1>5, <1>6 DEF Known, RouteKnows

LEMMA AskStep ==
    ASSUME ServeInv, AskForAllow, ~changed
    PROVE  Known'
<1>1. PICK m \in Methods \ asked :
        /\ asked' = asked \cup {m}
        /\ resp' = IF getNocache(req.path, m, FALSE) = NoNode THEN resp
                   ELSE [resp EXCEPT !.allow = @ \cup {m}]
  BY DEF AskForAllow
<1>2. Known /\ pc = "refuse" /\ UNCHANGED <<tree, handles, pc, req>>
  BY DEF ServeInv, DispatchInv, AskForAllow, Routing, routerVars
<1>3. Registered' = Registered
  BY <1>2, RoutesAre DEF Registered
<1>4. Decisive' = Decisive
  BY <1>2, <1>3 DEF Decisive
<1>5. Callable(getNocache(req.path, Decisive, FALSE), Decisive)'
        = Callable(getNocache(req.path, Decisive, FALSE), Decisive)
  <2>1. getNocache(req.path, Decisive, FALSE)' = getNocache(req.path, Decisive, FALSE)
    BY <1>2, <1>4, RoutesAre
  <2> QED  BY <1>4, <2>1 DEF Callable
<1>6. resp'.allow = Registered \cap asked'
  <2>1. m \in Registered <=> getNocache(req.path, m, FALSE) # NoNode
    BY DEF Registered
  <2>2. resp.allow = Registered \cap asked
    BY <1>2 DEF Known
  <2>3. resp \in [status : {0, 200, 404, 405, 500}, keepAlive : BOOLEAN, allow : SUBSET Methods]
    BY DEF ServeInv, ConnectionInv, Typed
  <2>4. resp'.allow = IF m \in Registered THEN resp.allow \cup {m} ELSE resp.allow
    BY <1>1, <2>1, <2>3
  <2> QED  BY <1>1, <2>2, <2>4
<1> QED  BY <1>2, <1>3, <1>4, <1>5, <1>6 DEF Known

\* The steps that neither dispatch nor change the routes.
Elsewhere == Reading \/ Dispatch \/ Answering \/ Streaming \/ Accept \/ WsEnds \/ stop

LEMMA ElsewhereIs ==
    ASSUME Elsewhere
    PROVE  \/ stop
           \/ /\ pc \notin {"fallback", "refuse"}
              /\ pc' \notin {"fallback", "refuse"}
BY DEF Elsewhere, Reading, Answering, Streaming, LoopHead, ReadHeader, SendContinue, ReadBody,
   ReadFails, AnswerBadRequest, Dispatch, HandlerEnds, HandlerCancelled, Respond, Written,
   WriteFails, ShutdownSend, doWrite, writeResponse, close, SseReturns, SseThrows, Accept,
   WsEnds, MayUse, Over

LEMMA StepDispatch == ASSUME ServeInv, [ServeNext]_allVars PROVE DispatchInv'
<1>0. DispatchInv /\ asked \subseteq Methods
  BY DEF ServeInv, DispatchInv
<1>1. CASE Elsewhere /\ changed' = (changed /\ pc' \in {"dispatch", "fallback", "refuse"})
           /\ UNCHANGED <<routerVars, asked>>
  <2>1. changed' \in BOOLEAN
    BY <1>1
  <2>2. CASE stop
    <3>1. UNCHANGED <<tree, handles, pc, req, resp, asked>>
      BY <1>1, <2>2 DEF stop, routerVars
    <3>2. ~changed' => Known
      <4>1. changed /\ pc' \in {"dispatch", "fallback", "refuse"} => changed'
        BY <1>1
      <4> QED  BY <1>0, <3>1, <4>1 DEF DispatchInv, Known
    <3>3. ~changed' => Known'
      BY <3>1, <3>2, KnownStays
    <3> QED  BY <1>0, <2>1, <3>1, <3>3 DEF DispatchInv
  <2>3. CASE pc \notin {"fallback", "refuse"} /\ pc' \notin {"fallback", "refuse"}
    <3>1. asked' = {}
      BY <1>0, <1>1, <2>3 DEF DispatchInv
    <3>2. Known'
      BY <2>3 DEF Known
    <3> QED  BY <2>1, <3>1, <3>2 DEF DispatchInv
  <2> QED  BY <1>1, <2>2, <2>3, ElsewhereIs
<1>2. CASE Route \/ RouteAsGet
  <2>1. UNCHANGED <<changed, asked>> /\ asked = {}
    <3>1. pc \in {"dispatch", "fallback"} /\ UNCHANGED <<changed, asked>>
      BY <1>2 DEF Route, RouteAsGet, Routing
    <3> QED  BY <1>0, <3>1 DEF DispatchInv
  <2>2. ~changed => Known'
    BY <1>2, LookedUp
  <2> QED  BY <1>0, <2>1, <2>2 DEF DispatchInv
<1>3. CASE AskForAllow
  <2>1. UNCHANGED <<changed, pc>> /\ pc = "refuse" /\ asked' \subseteq Methods
    BY <1>0, <1>3 DEF AskForAllow, Routing
  <2>2. ~changed => Known'
    BY <1>3, AskStep
  <2> QED  BY <1>0, <2>1, <2>2 DEF DispatchInv
<1>4. CASE Refuse
  <2>1. UNCHANGED changed /\ asked' = {} /\ pc' = "respond"
    BY <1>4 DEF Refuse, Routing
  <2> QED  BY <1>0, <2>1 DEF DispatchInv, Known
<1>5. CASE RouterChanges
  <2>1. UNCHANGED <<pc, req, resp, asked>>
    BY <1>5 DEF RouterChanges, connVars
  <2>2. changed' = (changed \/ (pc \in {"dispatch", "fallback", "refuse"}
                                /\ <<tree', handles'>> # <<tree, handles>>))
    BY <1>5 DEF RouterChanges
  <2>3. changed' \in BOOLEAN /\ (changed => changed')
    BY <2>2
  <2>4. CASE pc \in {"dispatch", "fallback", "refuse"}
    <3>1. ~changed' => UNCHANGED <<tree, handles>>
      BY <2>2, <2>4
    <3>2. ~changed' => Known'
      BY <1>0, <2>1, <2>3, <3>1, KnownStays DEF DispatchInv
    <3> QED  BY <1>0, <2>1, <2>3, <3>2 DEF DispatchInv
  <2>5. CASE pc \notin {"dispatch", "fallback", "refuse"}
    <3>1. Known'
      BY <2>1, <2>5 DEF Known
    <3> QED  BY <1>0, <2>1, <2>3, <3>1 DEF DispatchInv
  <2> QED  BY <2>4, <2>5
<1>6. CASE UNCHANGED allVars
  <2>1. UNCHANGED <<tree, handles, pc, req, resp, asked>> /\ UNCHANGED changed
    BY <1>6 DEF allVars, serveVars, connVars, refusalVars, routerVars
  <2> QED  BY <1>0, <2>1, KnownStays DEF DispatchInv
<1> QED  BY <1>1, <1>2, <1>3, <1>4, <1>5, <1>6 DEF ServeNext, Elsewhere

-----------------------------------------------------------------------------
(* The server *)

LEMMA InitServe == ServeInit => ServeInv
<1>1. ServeInit => DispatchInv
  BY DEF ServeInit, DispatchInv, Known
<1> QED  BY <1>1, InitRouter, InitConnection DEF ServeInit, ServeInv

LEMMA StepServe == ASSUME NoFallback, ServeInv, [ServeNext]_allVars PROVE ServeInv'
<1>1. ConnectionInv' /\ DispatchInv'
  BY StepConnection, StepDispatch DEF ServeInv
<1>2. CASE UNCHANGED routerVars
  <2>1. [Next]_vars
    BY <1>2 DEF routerVars, vars
  <2> QED  BY <1>1, <2>1, StepRouter DEF ServeInv
<1>3. CASE RouterChanges
  <2>1. [Next]_vars
    BY <1>3 DEF RouterChanges
  <2> QED  BY <1>1, <2>1, StepRouter DEF ServeInv
<1>4. ASSUME Route \/ RouteAsGet, NEW m, get(req.path, m, FALSE) PROVE ServeInv'
  <2>1. req.path \in Queries
    BY <1>4, PathIsQuery DEF ServeInv
  <2> QED  BY <1>1, <1>4, <2>1, GetRouter DEF ServeInv
<1>5. CASE Route \/ RouteAsGet
  BY <1>2, <1>4, <1>5 DEF Route, RouteAsGet
<1>6. CASE AskForAllow \/ Refuse \/ UNCHANGED allVars
  BY <1>2, <1>6 DEF AskForAllow, Refuse, allVars
<1> QED  BY <1>2, <1>3, <1>5, <1>6 DEF ServeNext

LEMMA ServeInvHolds == ASSUME NoFallback PROVE ServeSpec => []ServeInv
<1>1. ServeInv /\ [ServeNext]_allVars => ServeInv'
  BY StepServe
<1> QED  BY <1>1, InitServe, PTL DEF ServeSpec

\* What goes over the connection does not rest on the router.
LEMMA ConnectionInvHolds == ServeSpec => []ConnectionInv
<1>1. ConnectionInv /\ [ServeNext]_allVars => ConnectionInv'
  BY StepConnection
<1>2. ServeInit => ConnectionInv
  BY InitConnection
<1> QED  BY <1>1, <1>2, PTL DEF ServeSpec

LEMMA CountIs == \A S : Count(S) = CountIn(wire, S)
BY DEF Count, CountIn

\* The types, the bound of the cache and that of the requests of a connection, whatever
\* the routes, the requests and the configured numbers are.
THEOREM ServeTypeCorrect == ASSUME NoFallback PROVE ServeSpec => []ServeTypeOK
<1>1. ServeInv => ServeTypeOK
  BY CountIs DEF ServeInv, RouterInv, ConnectionInv, DispatchInv, Typed, Sound, ServeTypeOK
<1> QED  BY <1>1, ServeInvHolds, PTL

\* No entry of the cache dangles or is out of date, whatever is added, removed, cleared
\* and looked up, and on behalf of which connection.
THEOREM CacheIsCoherent == ASSUME NoFallback PROVE ServeSpec => []CacheCoherent
<1>1. ServeInv => CacheCoherent
  BY DEF ServeInv, RouterInv, Coherent
<1> QED  BY <1>1, ServeInvHolds, PTL

\* What a connection carries is HTTP up to the first write that is given up, and behind
\* it nothing begins, however writes fail, whatever handlers write then and however they
\* end.
THEOREM WireIsHttpUntilCut == ServeSpec => []HttpUntilCut
<1>1. ConnectionInv => HttpUntilCut
  BY DEF ConnectionInv, Sound, HttpWire, Follows, StillSent, HttpUntilCut
<1> QED  BY <1>1, ConnectionInvHolds, PTL

\* One answer to every request, and none to a later one before it.
THEOREM AnswersMatchRequests == ServeSpec => []OneAnswerEach
<1>1. ConnectionInv => OneAnswerEach
  <2> SUFFICES ASSUME ConnectionInv PROVE OneAnswerEach
    OBVIOUS
  <2>1. Clean(wire) => CountIn(wire, {"cut", "chunk", "fin"}) = 0
    BY CleanCounts
  <2> QED  BY <2>1, CountIs DEF ConnectionInv, Progress, Unanswered, OneAnswerEach
<1> QED  BY <1>1, ConnectionInvHolds, PTL

\* A request is called or refused as the routes say, Allow and status included, whatever
\* became of routes and cache before and as long as the routes do not change meanwhile.
THEOREM RefusalsAreTruthful == ASSUME NoFallback PROVE ServeSpec => RefusalIsTruthful
<1> DEFINE served == /\ Decisive \in Registered
                     /\ Callable(getNocache(req.path, Decisive, FALSE), Decisive)
           Truthful == /\ pc' = "handler" <=> served
                       /\ pc' = "respond" =>
                            /\ resp'.allow = Registered
                            /\ resp'.status = IF Registered = {} THEN 404 ELSE 405
<1>1. ASSUME ServeInv, [ServeNext]_allVars, Decided, ~changed PROVE Truthful
  <2>1. pc \in {"dispatch", "fallback", "refuse"} /\ pc' \in {"handler", "respond"}
    BY <1>1 DEF Decided
  <2>2. CASE Route \/ RouteAsGet
    <3>1. RouteKnows
      BY <1>1, <2>2, RouteStep, RouteAsGetStep
    <3>2. pc' = "handler"
      BY <2>1, <2>2 DEF Route, RouteAsGet, After
    <3> QED  BY <3>1, <3>2 DEF RouteKnows
  <2>3. CASE Refuse
    <3>1. Known /\ pc = "refuse" /\ pc' = "respond" /\ asked = Methods
          /\ resp' = [resp EXCEPT !.status = IF resp.allow # {} THEN 405 ELSE 404,
                                  !.keepAlive = FALSE]
      BY <1>1, <2>3 DEF Refuse, ServeInv, DispatchInv
    <3>2. ~served
      BY <3>1 DEF Known
    <3>3. resp.allow = Registered
      BY <3>1 DEF Known, Registered
    <3>4. resp \in [status : {0, 200, 404, 405, 500}, keepAlive : BOOLEAN,
                    allow : SUBSET Methods]
      BY <1>1 DEF ServeInv, ConnectionInv, Typed
    <3>5. resp'.allow = Registered /\ resp'.status = IF Registered = {} THEN 404 ELSE 405
      BY <3>1, <3>3, <3>4
    <3> QED  BY <3>1, <3>2, <3>5
  <2>4. CASE Elsewhere
    <3>1. pc = "dispatch"
      BY <2>1, <2>4, ElsewhereIs DEF stop
    <3> QED  BY <2>1, <2>4, <3>1 DEF Elsewhere, Reading, Answering, Streaming, LoopHead,
               ReadHeader, SendContinue, ReadBody, ReadFails, AnswerBadRequest, Dispatch,
               HandlerEnds, HandlerCancelled, Respond, Written, WriteFails, ShutdownSend,
               doWrite, writeResponse, close, SseReturns, SseThrows, Accept, WsEnds, MayUse,
               stop
  <2>5. CASE AskForAllow \/ RouterChanges \/ UNCHANGED allVars
    <3>1. UNCHANGED pc
      BY <2>5 DEF AskForAllow, RouterChanges, allVars, serveVars, connVars
    <3> QED  BY <2>1, <3>1
  <2> QED  BY <1>1, <2>2, <2>3, <2>4, <2>5 DEF ServeNext, Elsewhere
<1>2. ServeInv /\ [ServeNext]_allVars => (Decided /\ ~changed => Truthful)
  BY <1>1
<1> QED  BY <1>2, ServeInvHolds, PTL DEF ServeSpec, RefusalIsTruthful
=============================================================================
