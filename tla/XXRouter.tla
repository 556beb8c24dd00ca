------------------------------- MODULE XXRouter -------------------------------
(***************************************************************************)
(* The routing tree and its lookup cache (src/include/utilxx/router.h).     *)
(*                                                                         *)
(* A path is the sequence of its segments: repeated and trailing slashes    *)
(* mean nothing to the tree.  The tree is the set of the paths of its       *)
(* nodes, closed under prefixes; a handler is the node and method it is set *)
(* for.  NoNode is nullptr.                                                *)
(*                                                                         *)
(* The cache (LruCache of cxx_utilxx_base) keeps at most Capacity entries;  *)
(* which one it evicts is left open.                                       *)
(***************************************************************************)
EXTENDS Integers, Sequences, FiniteSets

CONSTANTS
    Segments,   \* path segments, the wildcard "*" among them
    Routes,     \* paths the program registers and removes
    Queries,    \* paths that are looked up
    Methods,
    Fallbacks,  \* values of prefix_fallback: HttpServer uses {FALSE}
    Capacity,   \* routerCacheCapacity
    NoNode

ASSUME RouterAssumption ==
    /\ "*" \in Segments
    /\ Routes \subseteq Seq(Segments) /\ Queries \subseteq Seq(Segments)
    /\ Fallbacks \subseteq BOOLEAN
    /\ Capacity \in Nat \ {0} /\ NoNode \notin Seq(Segments)

VARIABLES
    tree,     \* the nodes
    handles,  \* the pairs <<node, method>> that have a handler
    cache,    \* [Queries -> node or NoNode]
    found     \* owner of the handler the last get() returned, or NoNode

vars == <<tree, handles, cache, found>>

Root == <<>>
Prefix(p, k) == SubSeq(p, 1, k)
Prefixes(p) == {Prefix(p, k) : k \in 0 .. Len(p)}
Nodes == UNION {Prefixes(r) : r \in Routes \cup {Root}}   \* those there can be
Cached == {q \in Queries : cache[q] # NoNode}

TypeOK ==
    /\ tree \subseteq Nodes
    /\ Root \in tree /\ \A n \in tree : Prefixes(n) \subseteq tree
    /\ handles \subseteq tree \X Methods
    /\ cache \in [Queries -> Nodes \cup {NoNode}]
    /\ Cardinality(Cached) <= Capacity
    /\ found \in Nodes \cup {NoNode}

EmptyCache == [q \in Queries |-> NoNode]

Init == tree = {Root} /\ handles = {} /\ cache = EmptyCache /\ found = NoNode

-----------------------------------------------------------------------------
(* getChild: the descent *)

\* Length of the longest prefix of p that is a node: no step back from it.
Depth(p) == CHOOSE k \in 0 .. Len(p) :
                /\ Prefix(p, k) \in tree
                /\ \A j \in k + 1 .. Len(p) : Prefix(p, j) \notin tree

\* A wildcard matches all the rest of the path; loose stops at the last node.
getTreepNocache(p, loose) ==
    LET node == Prefix(p, Depth(p))
        wild == Append(node, "*")
    IN  IF p \in tree THEN p
        ELSE IF wild \in tree THEN wild
        ELSE IF loose THEN node ELSE NoNode

Has(n, m) == <<n, m>> \in handles

\* The nearest ancestor of n with a handler, for prefix_fallback.
Ancestor(n, m) ==
    LET owners == {k \in 0 .. Len(n) - 1 : Has(Prefix(n, k), m)}
    IN  IF owners = {} THEN NoNode
        ELSE Prefix(n, CHOOSE k \in owners : \A j \in owners : j <= k)

\* The owner of the handler for node n.
Handler(n, m, fallback) ==
    IF n = NoNode THEN NoNode
    ELSE IF Has(n, m) THEN n
    ELSE IF fallback THEN Ancestor(n, m) ELSE NoNode

getNocache(p, m, fallback) == Handler(getTreepNocache(p, fallback), m, fallback)

-----------------------------------------------------------------------------
(* The operations *)

add(r, m) ==
    /\ tree' = tree \cup Prefixes(r)
    /\ handles' = handles \cup {<<r, m>>}
    /\ cache' = EmptyCache
    /\ UNCHANGED found

\* A bug: nothing is evicted.
PutUnbounded(q, n) == cache' = [cache EXCEPT ![q] = n]

put(q, n) ==
    \E kept \in SUBSET (Cached \ {q}) :
        /\ Cardinality(kept) < Capacity
        /\ Cardinality(kept) < Capacity - 1 => kept = Cached \ {q}
        /\ cache' = [p \in Queries |-> IF p = q THEN n
                                       ELSE IF p \in kept THEN cache[p] ELSE NoNode]

get(q, m, fallback) ==
    LET node == IF cache[q] # NoNode THEN cache[q] ELSE getTreepNocache(q, fallback)
    IN  /\ found' = Handler(node, m, fallback)
        /\ IF node # NoNode /\ Has(node, m) THEN put(q, node) ELSE UNCHANGED cache
        /\ UNCHANGED <<tree, handles>>

\* The path is looked up like any other: a wildcard may stand in for it.
remove(r, m) ==
    LET node == getTreepNocache(r, FALSE)
    IN  /\ node # NoNode
        /\ handles' = handles \ {<<node, m>>}
        /\ cache' = EmptyCache
        /\ UNCHANGED <<tree, found>>

clearCache == cache' = EmptyCache /\ UNCHANGED <<tree, handles, found>>

\* A bug: the cache is not cleared.
ClearTreeOnly ==
    /\ tree' = {Root} /\ handles' = {h \in handles : h[1] = Root}
    /\ UNCHANGED <<cache, found>>

\* The children go; the handlers of the root stay.
clear ==
    /\ tree' = {Root} /\ handles' = {h \in handles : h[1] = Root}
    /\ cache' = EmptyCache
    /\ UNCHANGED found

Next ==
    \/ \E r \in Routes, m \in Methods : add(r, m) \/ remove(r, m)
    \/ \E q \in Queries, m \in Methods, fallback \in Fallbacks : get(q, m, fallback)
    \/ clear \/ clearCache

Spec == Init /\ [][Next]_vars

-----------------------------------------------------------------------------
(* Properties *)

\* A cache entry is a live node of the tree, and the one the descent would find now:
\* no sequence of add, remove and clear leaves a pointer to a node that is gone, or
\* one that a newer, more specific route has overtaken.
CacheCoherent == \A q \in Cached : cache[q] \in tree /\ cache[q] = getTreepNocache(q, FALSE)

\* get() and getNocache() agree: the cache cannot be observed.
GetIsNocache ==
    [][\A q \in Queries, m \in Methods, fallback \in Fallbacks :
         get(q, m, fallback) => found' = getNocache(q, m, fallback)]_vars
=============================================================================
