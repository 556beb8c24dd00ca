------------------------------ MODULE LineDiff ------------------------------
(***************************************************************************)
(* The line diff of two texts (src/include/utilxx/diff_util.h).             *)
(*                                                                         *)
(* A text is a sequence of characters, EOL among them; a line is what       *)
(* splitDiffLines cuts out of it.  computeLineDiff walks from the ends of    *)
(* both texts to their beginnings, one line of the diff a step, guided by   *)
(* the table of LCS lengths, or gives everything up as deleted and added    *)
(* when the table would be too large.                                      *)
(***************************************************************************)
EXTENDS Integers, Sequences, FiniteSets, SequencesExt

CONSTANTS
    Chars,
    OldTexts, NewTexts,  \* the texts compared
    EOL,                 \* '\n'
    MaxDpCells           \* kMaxDpCells

ASSUME DiffAssumption == OldTexts \cup NewTexts \subseteq Seq(Chars)

VARIABLES
    oldText, newText,  \* the arguments
    old, new,          \* their lines
    i, j,              \* lines not yet in the diff
    result,            \* the diff, last line first until it is reversed
    phase              \* "walk", "done"

vars == <<oldText, newText, old, new, i, j, result, phase>>

\* A bug: what stands behind the last newline is lost.
NewlinesOnly(text) == {k \in 1 .. Len(text) : text[k] = EOL}

\* Where lines end: at each newline, and at the end of the text if it has none there.
LineEnds(text) ==
    {k \in 1 .. Len(text) : text[k] = EOL}
    \cup (IF text # <<>> /\ text[Len(text)] # EOL THEN {Len(text) + 1} ELSE {})

\* The n-th of them, 0 for n = 0.
LineEnd(text, n) ==
    IF n = 0 THEN 0
    ELSE CHOOSE e \in LineEnds(text) : Cardinality({d \in LineEnds(text) : d < e}) = n - 1

splitDiffLines(text) ==
    [n \in 1 .. Cardinality(LineEnds(text)) |->
        SubSeq(text, LineEnd(text, n - 1) + 1, LineEnd(text, n) - 1)]

Context(p, q) == [type |-> "Context", text |-> old[p], oldLineNo |-> p, newLineNo |-> q]
Add(q) == [type |-> "Add", text |-> new[q], oldLineNo |-> 0, newLineNo |-> q]
Delete(p) == [type |-> "Delete", text |-> old[p], oldLineNo |-> p, newLineNo |-> 0]

Init ==
    /\ oldText \in OldTexts /\ newText \in NewTexts
    /\ old = splitDiffLines(oldText) /\ new = splitDiffLines(newText)
    /\ i = Len(old) /\ j = Len(new)
    /\ result = <<>> /\ phase = "walk"

TooLarge == Len(old) + 1 > MaxDpCells \div (Len(new) + 1)

\* dp[p][q]: length of a longest common subsequence of p old and q new lines.
dp[pq \in (0 .. Len(old)) \X (0 .. Len(new))] ==
    LET p == pq[1]
        q == pq[2]
    IN  IF p = 0 \/ q = 0 THEN 0
        ELSE IF old[p] = new[q] THEN dp[<<p - 1, q - 1>>] + 1
        ELSE IF dp[<<p - 1, q>>] >= dp[<<p, q - 1>>] THEN dp[<<p - 1, q>>] ELSE dp[<<p, q - 1>>]

\* All deleted, all added.
Naive ==
    /\ phase = "walk" /\ TooLarge
    /\ result' = [k \in 1 .. Len(old) + Len(new) |->
                     IF k <= Len(old) THEN Delete(k) ELSE Add(k - Len(old))]
    /\ i' = 0 /\ j' = 0 /\ phase' = "done"
    /\ UNCHANGED <<oldText, newText, old, new>>

Walking == phase = "walk" /\ ~TooLarge

Same == i > 0 /\ j > 0 /\ old[i] = new[j]

\* A bug: the table is read the other way round.
PrefersOther == j > 0 /\ (i > 0 => dp[<<i, j - 1>>] <= dp[<<i - 1, j>>])

PrefersAdd == j > 0 /\ (i > 0 => dp[<<i, j - 1>>] >= dp[<<i - 1, j>>])

WalkContext ==
    /\ Walking /\ Same
    /\ result' = Append(result, Context(i, j))
    /\ i' = i - 1 /\ j' = j - 1
    /\ UNCHANGED <<oldText, newText, old, new, phase>>

WalkAdd ==
    /\ Walking /\ ~Same /\ PrefersAdd
    /\ result' = Append(result, Add(j))
    /\ j' = j - 1
    /\ UNCHANGED <<oldText, newText, old, new, i, phase>>

WalkDelete ==
    /\ Walking /\ ~Same /\ ~PrefersAdd /\ i > 0
    /\ result' = Append(result, Delete(i))
    /\ i' = i - 1
    /\ UNCHANGED <<oldText, newText, old, new, j, phase>>

ReverseAndReturn ==
    /\ Walking /\ i = 0 /\ j = 0
    /\ result' = [k \in 1 .. Len(result) |-> result[Len(result) + 1 - k]]
    /\ phase' = "done"
    /\ UNCHANGED <<oldText, newText, old, new, i, j>>

Next == Naive \/ WalkContext \/ WalkAdd \/ WalkDelete \/ ReverseAndReturn

Spec == Init /\ [][Next]_vars

-----------------------------------------------------------------------------
(* Properties *)

\* The lines of the two texts.
Line == {old[n] : n \in DOMAIN old} \cup {new[n] : n \in DOMAIN new}
DiffLine == [type : {"Context", "Add", "Delete"}, text : Line, oldLineNo : Nat, newLineNo : Nat]
TypeOK ==
    /\ old \in Seq(Line) /\ new \in Seq(Line)
    /\ i \in 0 .. Len(old) /\ j \in 0 .. Len(new)
    /\ result \in Seq(DiffLine) /\ phase \in {"walk", "done"}

\* The lines of the diff that carry a number of one text (not 0) are that text: each of
\* its lines once, in order, with its words.
Carries(no, diff, lines) ==
    /\ \A k \in DOMAIN diff : no[k] # 0 => no[k] \in DOMAIN lines /\ diff[k].text = lines[no[k]]
    /\ \A n \in DOMAIN lines : \E k \in DOMAIN diff : no[k] = n
    /\ \A k, l \in DOMAIN diff : k < l /\ no[k] # 0 /\ no[l] # 0 => no[k] < no[l]

OldNos(diff) == [k \in DOMAIN diff |-> diff[k].oldLineNo]
NewNos(diff) == [k \in DOMAIN diff |-> diff[k].newLineNo]

\* A line has no old number if it is added, no new one if it is deleted.
Typed(diff) ==
    \A k \in DOMAIN diff : /\ diff[k].type = "Add" <=> diff[k].oldLineNo = 0
                           /\ diff[k].type = "Delete" <=> diff[k].newLineNo = 0

\* Reading context and deleted lines gives the old text, context and added lines the
\* new one: the diff turns the one into the other, in the fallback too, and a reader
\* can trust its line numbers.
DiffTransforms ==
    phase = "done" =>
        /\ Carries(OldNos(result), result, old)
        /\ Carries(NewNos(result), result, new)
        /\ Typed(result)

\* makeUnifiedDiff: the hunk header, which says "-1,... +1,..." of any texts, and the body.
makeUnifiedDiff ==
    [oldStart |-> 1, oldCount |-> Len(old), newStart |-> 1, newCount |-> Len(new),
     body |-> [k \in DOMAIN result |-> [mark |-> result[k].type, text |-> result[k].text]]]

\* What a patch tool does with a line of the hunk: a context or deleted line must be the
\* next one of the old text; a context or added line goes to the output.
Take(acc, line) ==
    LET fits == line.mark = "Add" \/ (acc.rest # <<>> /\ Head(acc.rest) = line.text)
    IN  [ok |-> acc.ok /\ fits,
         rest |-> IF line.mark = "Add" \/ ~fits THEN acc.rest ELSE Tail(acc.rest),
         out |-> IF line.mark = "Delete" \/ ~fits THEN acc.out ELSE Append(acc.out, line.text)]

\* The state of the tool after each line of the body.
Taken(lines, body) ==
    LET at[k \in 0 .. Len(body)] ==
            IF k = 0 THEN [ok |-> TRUE, rest |-> lines, out |-> <<>>] ELSE Take(at[k - 1], body[k])
    IN  at

\* A range of the header covers count lines from the first one on; one without lines is
\* said to begin at line 0.
Spans(from, lines, count) == lines = count /\ from = IF count = 0 THEN 0 ELSE 1

\* What becomes of the text, and whether the ranges of the header are those of the hunk.
Patched(lines, hunk) ==
    LET end == Taken(lines, hunk.body)[Len(hunk.body)]
    IN  [ok |-> end.ok /\ end.rest = <<>>,
         oldFits |-> Spans(hunk.oldStart, hunk.oldCount, Len(lines)),
         newFits |-> Spans(hunk.newStart, hunk.newCount, Len(end.out)),
         out |-> end.out]

\* The text up to and with each of its lines.
Joined(lines) ==
    LET text[n \in 0 .. Len(lines)] ==
            IF n = 0 THEN <<>> ELSE text[n - 1] \o lines[n] \o <<EOL>>
    IN  text

\* The old lines P stand in the new text in the same order, p at f[p].
CommonLines(P, f) == \A p, q \in P : old[p] = new[f[p]] /\ (p < q => f[p] < f[q])

Kept == {k \in DOMAIN result : result[k].type = "Context"}

\* Unless the table was too large, no diff has more context.
KeepsMost ==
    phase = "done" /\ ~TooLarge =>
        \A P \in SUBSET DOMAIN old :
            (\E f \in [P -> DOMAIN new] : CommonLines(P, f)) => Cardinality(P) <= Cardinality(Kept)

\* It deletes and adds no more than is needed.
DiffIsSmallest == DiffTransforms /\ KeepsMost

Patch == Patched(splitDiffLines(oldText), makeUnifiedDiff)

\* The hunk applies to the old text and gives the new one, but for a missing newline at
\* the end; its header fits on both sides but for one that has no lines.
PatchIsExact ==
    phase = "done" =>
        /\ Patch.ok /\ Joined(Patch.out)[Len(Patch.out)] \in {newText, Append(newText, EOL)}
        /\ oldText # <<>> => Patch.oldFits
        /\ newText # <<>> => Patch.newFits

\* The diff of two texts that differ is a git-style unified diff (diff_util.h:106), also
\* if one of them is empty.
HeaderIsGitStyle == phase = "done" /\ oldText # newText => Patch.oldFits /\ Patch.newFits
=============================================================================
