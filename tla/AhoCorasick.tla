----------------------------- MODULE AhoCorasick -----------------------------
(***************************************************************************)
(* Search for several patterns at once (src/include/utilxx/aho_corasick.h). *)
(*                                                                         *)
(* A node of the trie is the string that leads to it from the root, after   *)
(* case folding; children are its one-character extensions in the trie.     *)
(* A match is its interval <<start, end>>: two patterns that differ only    *)
(* in case, or one pattern added twice, give the same interval, and which   *)
(* of their ids std::sort leaves first is not kept.                        *)
(***************************************************************************)
EXTENDS Integers, Sequences, FiniteSets, SequencesExt

CONSTANTS
    Fold,      \* onCharCode: the lower case of each character, or itself
    Words,     \* patterns that may be added
    Texts      \* texts that are searched

VARIABLES
    patterns,  \* the set of patterns added
    nodes,     \* the trie
    fail,      \* fail pointer of each node
    outputs,   \* patterns reported at each node
    built      \* no pattern was added after the last build()

vars == <<patterns, nodes, fail, outputs, built>>

Root == <<>>
onCharCode(s) == [k \in DOMAIN s |-> Fold[s[k]]]
PathTo(s) == {SubSeq(s, 1, k) : k \in 0 .. Len(s)}

TypeOK ==
    /\ patterns \subseteq Words /\ built \in BOOLEAN
    /\ nodes = {Root} \cup UNION {PathTo(onCharCode(w)) : w \in patterns}
    /\ fail \in [nodes -> nodes]
    /\ outputs \in [nodes -> SUBSET patterns]

Init ==
    /\ patterns = {} /\ nodes = {Root} /\ built = TRUE
    /\ fail = [n \in {Root} |-> Root]
    /\ outputs = [n \in {Root} |-> {}]

-----------------------------------------------------------------------------
(* Building *)

\* A new node has the root as its fail pointer and no outputs until build().
addPattern(w) ==
    LET all == nodes \cup PathTo(onCharCode(w))
    IN  /\ patterns' = patterns \cup {w}
        /\ nodes' = all
        /\ fail' = [n \in all |-> IF n \in nodes THEN fail[n] ELSE Root]
        /\ outputs' = [n \in all |-> (IF n \in nodes THEN outputs[n] ELSE {})
                                       \cup (IF n = onCharCode(w) THEN {w} ELSE {})]
        /\ built' = FALSE

\* From n, follow fail pointers f up to a node with a child c, or to the root: each is
\* shorter than its node.
Up(f, n, c) ==
    LET up[k \in {m \in nodes : Len(m) <= Len(n)}] ==
            IF k = Root \/ Append(k, c) \in nodes THEN k ELSE up[f[k]]
    IN  up
Step(f, n, c) ==
    LET child == Append(Up(f, n, c)[n], c)
    IN  IF child \in nodes THEN child ELSE Root

\* Breadth first: the fail pointer of a shorter node, and its outputs, are final when a
\* node is reached.
FailPointers ==
    LET f[n \in nodes] == IF Len(n) <= 1 THEN Root ELSE Step(f, f[Front(n)], Last(n))
    IN  f

\* A bug: only the node's own patterns are reported.
NothingMerged(f) == outputs

\* The outputs of the root are not merged into its children.
MergedOutputs(f) ==
    LET o[n \in nodes] == outputs[n] \cup (IF Len(n) <= 1 THEN {} ELSE o[f[n]])
    IN  o

build ==
    /\ fail' = FailPointers
    /\ outputs' = MergedOutputs(FailPointers)
    /\ built' = TRUE
    /\ UNCHANGED <<patterns, nodes>>

Next == build \/ \E w \in Words : addPattern(w)

Spec == Init /\ [][Next]_vars

-----------------------------------------------------------------------------
(* Searching *)

\* The node after each character of the text.
Walk(text) ==
    LET at[i \in 0 .. Len(text)] == IF i = 0 THEN Root ELSE Step(fail, at[i - 1], Fold[text[i]])
    IN  at

\* The patterns found when i characters have been read.
Ending(text, i) == {w \in outputs[Walk(text)[i]] : Len(w) <= i}

Matches(text) ==
    UNION {{<<i - Len(w), i>> : w \in Ending(text, i)} : i \in 1 .. Len(text)}

\* AhoCorasickMatchInfo::operator<
Before(a, b) == a[1] < b[1] \/ (a[1] = b[1] /\ a[2] > b[2])

\* A finite set as a sequence, sorted by a strict order, given as a set of pairs.
InOrder(S, Less) ==
    [k \in 1 .. Cardinality(S) |->
        CHOOSE x \in S : Cardinality({y \in S : <<y, x>> \in Less}) = k - 1]
Sorted(M) == InOrder(M, {p \in M \X M : Before(p[1], p[2])})
Ascending(K) == InOrder(K, {p \in K \X K : p[1] < p[2]})

\* The sweep over the sorted matches: one that begins before lastEnd is skipped.
Keep(acc, m) ==
    IF m[1] >= acc.lastEnd THEN [result |-> Append(acc.result, m), lastEnd |-> m[2]] ELSE acc
Keeping(s) ==
    LET at[k \in 0 .. Len(s)] ==
            IF k = 0 THEN [result |-> <<>>, lastEnd |-> 0] ELSE Keep(at[k - 1], s[k])
    IN  at
search(text) ==
    LET sorted == Sorted(Matches(text))
    IN  Keeping(sorted)[Len(sorted)].result

\* search() with onlyContains returns at the first output.
contains(text) == \E i \in 1 .. Len(text) : Ending(text, i) # {}

\* What stands between the matches is copied.
Cut(acc, m, text) ==
    [result |-> IF m[1] > acc.index
                THEN acc.result \o SubSeq(text, acc.index + 1, m[1]) ELSE acc.result,
     index |-> IF m[2] > acc.index THEN m[2] ELSE acc.index]
Cutting(found, text) ==
    LET at[k \in 0 .. Len(found)] ==
            IF k = 0 THEN [result |-> <<>>, index |-> 0] ELSE Cut(at[k - 1], found[k], text)
    IN  at
removeAll(text) ==
    LET found == search(text)
        end == Cutting(found, text)[Len(found)]
    IN  end.result \o SubSeq(text, end.index + 1, Len(text))

-----------------------------------------------------------------------------
(* Properties *)

\* The places where a pattern that is not empty stands in the text, by definition.
Occurrences(text) ==
    {o \in (0 .. Len(text)) \X (0 .. Len(text)) :
        /\ o[1] < o[2]
        /\ \E w \in patterns : onCharCode(w) = onCharCode(SubSeq(text, o[1] + 1, o[2]))}

\* From the left, and of those that begin together the longest first, an occurrence is
\* chosen unless a choice before it reaches past its beginning.
LeftmostLongest(chosen, text) ==
    chosen = {o \in Occurrences(text) : ~\E m \in chosen : Before(m, o) /\ o[1] < m[2]}

NotEmpty(m) == m[1] < m[2]

\* After build() search() reports the leftmost-longest choice among all occurrences of
\* all patterns, whatever was added and built before: no occurrence of a pattern is
\* missed because the pattern is a suffix or a middle of another one, and only a chosen
\* occurrence that comes before it and overlaps it hides one.  (An empty pattern is
\* reported at some positions only; such matches take nothing away from the others.)
FindsLeftmostLongest ==
    built => \A t \in Texts : LeftmostLongest({m \in Range(search(t)) : NotEmpty(m)}, t)

\* At any moment, between addPattern() and build() too, what search() reports does stand
\* in the text, in order without overlap, contains() says whether it reports anything, and
\* removeAll() leaves exactly the characters it did not report.
SoundAtAnyTime ==
    \A t \in Texts :
        LET found == search(t)
            gone == {k \in 1 .. Len(t) :
                        \E x \in DOMAIN found : found[x][1] < k /\ k <= found[x][2]}
            left == Ascending((1 .. Len(t)) \ gone)
        IN  /\ \A x \in DOMAIN found : NotEmpty(found[x]) => found[x] \in Occurrences(t)
            /\ \A x, y \in DOMAIN found : x < y => found[x][2] <= found[y][1]
            /\ contains(t) <=> found # <<>>
            /\ removeAll(t) = [k \in 1 .. Len(left) |-> t[left[k]]]
=============================================================================
