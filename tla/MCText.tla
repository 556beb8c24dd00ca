------------------------------- MODULE MCText -------------------------------
(***************************************************************************)
(* The three text tools for TLC.  They share nothing: each behaviour        *)
(* exercises one of them, and the other two rest in one state.              *)
(***************************************************************************)
EXTENDS LineDiff

CONSTANTS
    Fold, Words, Haystacks,   \* AhoCorasick
    Length, MaxMatches        \* RegexMatch

ASSUME SearchAssumption ==
    /\ Fold \in [DOMAIN Fold -> DOMAIN Fold]
    /\ Words \subseteq Seq(DOMAIN Fold) /\ Haystacks \subseteq Seq(DOMAIN Fold)
ASSUME ScanAssumption == Length \in Nat /\ MaxMatches \in Nat

VARIABLES
    tool,
    patterns, nodes, fail, outputs, built,   \* AhoCorasick
    valid, raw, results, scan                \* RegexMatch

ahoVars == <<patterns, nodes, fail, outputs, built>>
regexVars == <<valid, raw, results, scan>>
textVars == <<tool, ahoVars, regexVars, vars>>

Strings(chars, n) == UNION {[1 .. k -> chars] : k \in 0 .. n}

Aho == INSTANCE AhoCorasick WITH Texts <- Haystacks
Regex == INSTANCE RegexMatch WITH phase <- scan

\* Two letters, and the capital of one of them.
Lower == [c \in {"a", "b", "B"} |-> IF c = "B" THEN "b" ELSE c]
\* A suffix, a prefix, a middle, an overlap of others, the empty pattern, a capital.
SomeWords == {<<>>, <<"b">>, <<"a", "b">>, <<"B", "a">>, <<"a", "b", "a">>, <<"b", "b", "a">>,
              <<"a", "b", "b", "a">>}
Searched == Strings({"a", "b"}, 6) \cup {<<"a", "B", "a">>, <<"B", "b", "a">>}

\* Both texts of the diff.
SomeTexts == Strings({"x", "y", "eol"}, 3) \cup
         {<<"x", "eol", "y", "eol", "x">>, <<"y", "eol", "x", "eol", "x", "eol">>,
          <<"x", "eol", "x", "eol", "y", "eol", "x">>}

RestAho == Aho!Init
RestRegex == valid = FALSE /\ raw = {} /\ results = <<>> /\ scan = "done"
RestDiff ==
    /\ oldText = <<>> /\ newText = <<>> /\ old = <<>> /\ new = <<>>
    /\ i = 0 /\ j = 0 /\ result = <<>> /\ phase = "done"

TextInit ==
    \/ tool = "aho" /\ Aho!Init /\ RestRegex /\ RestDiff
    \/ tool = "regex" /\ Regex!Init /\ RestAho /\ RestDiff
    \/ tool = "diff" /\ Init /\ RestAho /\ RestRegex

TextNext ==
    /\ UNCHANGED tool
    /\ \/ tool = "aho" /\ Aho!Next /\ UNCHANGED <<regexVars, vars>>
       \/ tool = "regex" /\ Regex!Next /\ UNCHANGED <<ahoVars, vars>>
       \/ tool = "diff" /\ Next /\ UNCHANGED <<ahoVars, regexVars>>

TextSpec == TextInit /\ [][TextNext]_textVars

\* AhoCorasick: after build() the search finds the leftmost-longest matches; at any
\* moment search, contains and removeAll agree with each other and with the text.
SearchIsExact == tool = "aho" => Aho!TypeOK /\ Aho!FindsLeftmostLongest /\ Aho!SoundAtAnyTime

\* XXRegex: both back ends merge the same matches to the same intervals, and remove and
\* replace cut exactly those.
ScanIsExact == tool = "regex" => Regex!TypeOK /\ Regex!BackEndsAgree /\ Regex!CutsTheMatches
=============================================================================
