----------------------------- MODULE RegexMatch -----------------------------
(***************************************************************************)
(* Match, remove and replace of the two regular-expression back ends        *)
(* (src/src/regex.cpp).  The engines are external: Hyperscan delivers each   *)
(* match by a callback, in the order of its end (of matches with one end in *)
(* any order), and std::regex gives a list that is sorted afterwards.        *)
(* Hyperscan compiles no pattern that matches the empty string; std::regex    *)
(* does, and its empty matches are left out here.                           *)
(*                                                                         *)
(* A match is the interval <<start, end>>, the text a number of positions.  *)
(***************************************************************************)
EXTENDS Integers, Sequences, FiniteSets, SequencesExt

CONSTANTS
    Length,      \* length of the input
    MaxMatches   \* bound: matches delivered in one scan

VARIABLES
    valid,    \* the pattern compiled: hs_db, hs_scratch, or valid_
    raw,      \* the matches the engine has found
    results,  \* the vector the callback works on
    phase     \* "scan", "done", "failed"

vars == <<valid, raw, results, phase>>

Intervals == {m \in (0 .. Length) \X (0 .. Length) : m[1] < m[2]}

TypeOK ==
    /\ valid \in BOOLEAN /\ phase \in {"scan", "done", "failed"}
    /\ raw \subseteq Intervals /\ Cardinality(raw) <= MaxMatches
    /\ results \in Seq(Intervals)

\* match() clears the results and gives up at once if the pattern is invalid.
Init ==
    /\ valid \in BOOLEAN
    /\ raw = {} /\ results = <<>>
    /\ phase = IF valid THEN "scan" ELSE "done"

Lesser(a, b) == IF a < b THEN a ELSE b
Greater(a, b) == IF a > b THEN a ELSE b

Overlap(m, n) == m[1] < n[2] /\ n[1] < m[2]

\* A bug: only the last interval is compared.
MergedIntoLast(m) ==
    IF results # <<>> /\ Overlap(Last(results), m)
    THEN [new |-> <<Lesser(m[1], Last(results)[1]), Greater(m[2], Last(results)[2])>>,
          kept |-> Front(results)]
    ELSE [new |-> m, kept |-> results]

\* The loop of the callback: each interval in turn is swallowed or kept.
Swallow(acc, r) ==
    IF Overlap(r, acc.new)
    THEN [acc EXCEPT !.new = <<Lesser(@[1], r[1]), Greater(@[2], r[2])>>]
    ELSE [acc EXCEPT !.kept = Append(@, r)]
Swallowing(m) ==
    LET at[k \in 0 .. Len(results)] ==
            IF k = 0 THEN [new |-> m, kept |-> <<>>] ELSE Swallow(at[k - 1], results[k])
    IN  at
Merged(m) == Swallowing(m)[Len(results)]

xxregexMatchCallback(m) ==
    /\ phase = "scan" /\ m \notin raw /\ Cardinality(raw) < MaxMatches
    /\ \A r \in raw : r[2] <= m[2]
    /\ raw' = raw \cup {m}
    /\ results' = Append(Merged(m).kept, Merged(m).new)
    /\ UNCHANGED <<valid, phase>>

ScanReturns == phase = "scan" /\ phase' = "done" /\ UNCHANGED <<valid, raw, results>>

\* hs_scan() returns an error; what it has delivered stays in the results.
ScanFails == phase = "scan" /\ phase' = "failed" /\ UNCHANGED <<valid, raw, results>>

Next == ScanReturns \/ ScanFails \/ \E m \in Intervals : xxregexMatchCallback(m)

Spec == Init /\ [][Next]_vars

-----------------------------------------------------------------------------
(* What is done with the matches *)

\* Matches as a sequence, sorted by start and then by end.
Precedes(a, b) == a[1] < b[1] \/ (a[1] = b[1] /\ a[2] < b[2])
Sorted(S) ==
    [k \in 1 .. Cardinality(S) |->
        CHOOSE x \in S : Cardinality({y \in S : Precedes(y, x)}) = k - 1]

\* XXRegexStdRegex::match: one sweep over the sorted matches.
Extend(acc, m) ==
    IF acc # <<>> /\ m[1] < Last(acc)[2]
    THEN [acc EXCEPT ![Len(acc)] = <<@[1], Greater(@[2], m[2])>>]
    ELSE Append(acc, m)
Sweeping(s) ==
    LET at[k \in 0 .. Len(s)] == IF k = 0 THEN <<>> ELSE Extend(at[k - 1], s[k])
    IN  at
Sweep(S) == Sweeping(Sorted(S))[Cardinality(S)]

\* match() returns this.
Matched == valid /\ phase # "failed" /\ results # <<>>

Input == [k \in 1 .. Length |-> k]

\* The positions of the input that are copied, with target in place of each match.
Cut(acc, m, target) ==
    [result |-> acc.result \o SubSeq(Input, acc.index + 1, m[1]) \o target, index |-> m[2]]
Cutting(target) ==
    LET at[k \in 0 .. Len(results)] ==
            IF k = 0 THEN [result |-> <<>>, index |-> 0] ELSE Cut(at[k - 1], results[k], target)
    IN  at
Spliced(target) ==
    LET end == Cutting(target)[Len(results)]
    IN  IF Matched THEN end.result \o SubSeq(Input, end.index + 1, Length) ELSE Input

remove == Spliced(<<>>)
replace == Spliced(<<0>>)   \* the target counts as position 0

-----------------------------------------------------------------------------
(* Properties *)

\* The vector that Hyperscan's callback merges step by step, in the order of the ends, is
\* what std::regex's back end makes of the same matches in one sweep by their starts.
BackEndsAgree == phase = "done" => results = Sweep(raw)

\* The positions no match covers, and those where a merged match begins: no other match
\* reaches across.
Rest == {k \in 1 .. Length : ~\E m \in raw : m[1] < k /\ k <= m[2]}
Heads == {k \in 0 .. Length : /\ \E m \in raw : m[1] = k
                             /\ ~\E m \in raw : m[1] < k /\ k < m[2]}

\* Exactly the positions of S are copied, once each and in order.
Copies(out, S) ==
    /\ {out[p] : p \in DOMAIN out} \ {0} = S
    /\ \A p, q \in DOMAIN out : p < q /\ out[p] # 0 /\ out[q] # 0 => out[p] < out[q]

\* The targets are those at[h], one for each h of H, between what precedes h and what
\* follows.
Targets(out, H, at) ==
    /\ {p \in DOMAIN out : out[p] = 0} = {at[h] : h \in H}
    /\ \A g, h \in H : g < h => at[g] < at[h]
    /\ \A h \in H, p \in DOMAIN out : out[p] # 0 => (p < at[h] <=> out[p] <= h)

\* remove() takes away the matched positions and no other; replace() moreover puts one
\* target where each merged match began, and touching matches stay two.  After a scan
\* that failed midway both give back the whole input.
CutsTheMatches ==
    /\ phase = "done" =>
        /\ Copies(remove, Rest) /\ Targets(remove, {}, <<>>)
        /\ Copies(replace, Rest)
        /\ \E at \in [Heads -> DOMAIN replace] : Targets(replace, Heads, at)
    /\ phase = "failed" => remove = Input /\ replace = Input
=============================================================================
