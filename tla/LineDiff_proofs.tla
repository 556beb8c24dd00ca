--------------------------- MODULE LineDiff_proofs ---------------------------
(***************************************************************************)
(* Proof that computeLineDiff returns a diff of its two texts, whatever the *)
(* texts, the table of LCS lengths and its limit are: the table decides     *)
(* only which of the diffs it is.  And that, where the table is used, it is *)
(* a smallest one: the table bounds every common subsequence, and the walk  *)
(* keeps as many lines as it says.  And that a patch tool can read the      *)
(* unified diff made of it.                                                *)
(***************************************************************************)
EXTENDS LineDiff, FiniteSetTheorems, SequenceTheorems, WellFoundedInduction, TLAPS

\* The numbers of one text, while the walk has `left' lines of it before it: the lines
\* behind are all there, last one first.
Behind(no, diff, lines, left) ==
    /\ \A k \in DOMAIN diff :
          no[k] # 0 => no[k] \in left + 1 .. Len(lines) /\ diff[k].text = lines[no[k]]
    /\ \A n \in left + 1 .. Len(lines) : \E k \in DOMAIN diff : no[k] = n
    /\ \A k, l \in DOMAIN diff : k < l /\ no[k] # 0 /\ no[l] # 0 => no[k] > no[l]

WalkInv ==
    phase = "walk" => /\ Behind(OldNos(result), result, old, i)
                      /\ Behind(NewNos(result), result, new, j)
                      /\ Typed(result)

IInv == TypeOK /\ WalkInv /\ DiffTransforms

-----------------------------------------------------------------------------
(* Pushing a line *)

\* A line that carries the number of the next line of the text.
LEMMA PushNext ==
    ASSUME NEW diff \in Seq(DiffLine), NEW line \in DiffLine, NEW lines \in Seq(Line),
           NEW left \in 1 .. Len(lines), NEW no, NEW no2,
           \A k \in 1 .. Len(diff) : no[k] \in Nat /\ no2[k] = no[k],
           no2[Len(diff) + 1] = left, line.text = lines[left],
           Behind(no, diff, lines, left)
    PROVE  Behind(no2, Append(diff, line), lines, left - 1)
<1> DEFINE more == Append(diff, line)
<1>1. DOMAIN diff = 1 .. Len(diff) /\ Len(diff) \in Nat /\ Len(lines) \in Nat
  OBVIOUS
<1>2. /\ DOMAIN more = 1 .. Len(diff) + 1
      /\ \A k \in 1 .. Len(diff) : more[k] = diff[k]
      /\ more[Len(diff) + 1] = line
  BY <1>1
<1>3. \A k \in DOMAIN more : k \in DOMAIN diff \/ k = Len(diff) + 1
  BY <1>1, <1>2
<1>4. \A k \in DOMAIN more :
         no2[k] # 0 => no2[k] \in left - 1 + 1 .. Len(lines) /\ more[k].text = lines[no2[k]]
  <2> SUFFICES ASSUME NEW k \in DOMAIN more, no2[k] # 0
               PROVE  no2[k] \in left - 1 + 1 .. Len(lines) /\ more[k].text = lines[no2[k]]
    OBVIOUS
  <2>1. CASE k \in DOMAIN diff
    BY <2>1, <1>1, <1>2 DEF Behind
  <2>2. CASE k = Len(diff) + 1
    BY <2>2, <1>1, <1>2
  <2> QED  BY <2>1, <2>2, <1>3
<1>5. \A n \in left - 1 + 1 .. Len(lines) : \E k \in DOMAIN more : no2[k] = n
  <2> SUFFICES ASSUME NEW n \in left - 1 + 1 .. Len(lines)
               PROVE  \E k \in DOMAIN more : no2[k] = n
    OBVIOUS
  <2>1. CASE n = left
    BY <2>1, <1>1, <1>2
  <2>2. CASE n # left
    <3>1. PICK k \in DOMAIN diff : no[k] = n
      BY <2>2, <1>1 DEF Behind
    <3> QED  BY <3>1, <1>1, <1>2
  <2> QED  BY <2>1, <2>2
<1>6. \A k, l \in DOMAIN more : k < l /\ no2[k] # 0 /\ no2[l] # 0 => no2[k] > no2[l]
  <2> SUFFICES ASSUME NEW k \in DOMAIN more, NEW l \in DOMAIN more, k < l,
                      no2[k] # 0, no2[l] # 0
               PROVE  no2[k] > no2[l]
    OBVIOUS
  <2>1. k \in DOMAIN diff
    BY <1>1, <1>2
  <2>2. CASE l \in DOMAIN diff
    BY <2>1, <2>2, <1>1 DEF Behind
  <2>3. CASE l = Len(diff) + 1
    <3>1. no[k] \in left + 1 .. Len(lines)
      BY <2>1, <1>1 DEF Behind
    <3> QED  BY <2>1, <2>3, <3>1, <1>1
  <2> QED  BY <2>2, <2>3, <1>3
<1> QED  BY <1>4, <1>5, <1>6 DEF Behind

\* A line without a number of the text.
LEMMA PushOther ==
    ASSUME NEW diff \in Seq(DiffLine), NEW line \in DiffLine, NEW lines \in Seq(Line),
           NEW left \in 0 .. Len(lines), NEW no, NEW no2,
           \A k \in 1 .. Len(diff) : no[k] \in Nat /\ no2[k] = no[k],
           no2[Len(diff) + 1] = 0,
           Behind(no, diff, lines, left)
    PROVE  Behind(no2, Append(diff, line), lines, left)
<1> DEFINE more == Append(diff, line)
<1>1. DOMAIN diff = 1 .. Len(diff) /\ Len(diff) \in Nat /\ Len(lines) \in Nat
  OBVIOUS
<1>2. /\ DOMAIN more = 1 .. Len(diff) + 1
      /\ \A k \in 1 .. Len(diff) : more[k] = diff[k]
  BY <1>1
<1>3. \A k \in DOMAIN more : no2[k] # 0 => k \in DOMAIN diff
  BY <1>1, <1>2
<1>4. \A k \in DOMAIN more :
         no2[k] # 0 => no2[k] \in left + 1 .. Len(lines) /\ more[k].text = lines[no2[k]]
  BY <1>1, <1>2, <1>3 DEF Behind
<1>5. \A n \in left + 1 .. Len(lines) : \E k \in DOMAIN more : no2[k] = n
  <2> SUFFICES ASSUME NEW n \in left + 1 .. Len(lines)
               PROVE  \E k \in DOMAIN more : no2[k] = n
    OBVIOUS
  <2>1. PICK k \in DOMAIN diff : no[k] = n
    BY DEF Behind
  <2> QED  BY <2>1, <1>1, <1>2
<1>6. \A k, l \in DOMAIN more : k < l /\ no2[k] # 0 /\ no2[l] # 0 => no2[k] > no2[l]
  BY <1>1, <1>2, <1>3 DEF Behind
<1> QED  BY <1>4, <1>5, <1>6 DEF Behind

\* The numbers of a longer diff.
LEMMA PushNos ==
    ASSUME NEW diff \in Seq(DiffLine), NEW line \in DiffLine
    PROVE  /\ \A k \in 1 .. Len(diff) :
                 /\ OldNos(diff)[k] \in Nat
                 /\ OldNos(Append(diff, line))[k] = OldNos(diff)[k]
                 /\ NewNos(diff)[k] \in Nat
                 /\ NewNos(Append(diff, line))[k] = NewNos(diff)[k]
           /\ OldNos(Append(diff, line))[Len(diff) + 1] = line.oldLineNo
           /\ NewNos(Append(diff, line))[Len(diff) + 1] = line.newLineNo
           /\ Append(diff, line) \in Seq(DiffLine)
<1>1. /\ DOMAIN diff = 1 .. Len(diff) /\ Len(diff) \in Nat
      /\ Append(diff, line) \in Seq(DiffLine)
      /\ DOMAIN Append(diff, line) = 1 .. Len(diff) + 1
      /\ \A k \in 1 .. Len(diff) : Append(diff, line)[k] = diff[k]
      /\ Append(diff, line)[Len(diff) + 1] = line
  OBVIOUS
<1>2. \A k \in 1 .. Len(diff) : diff[k] \in DiffLine
  BY <1>1
<1> QED  BY <1>1, <1>2 DEF OldNos, NewNos, DiffLine

LEMMA PushTyped ==
    ASSUME NEW diff \in Seq(DiffLine), NEW line \in DiffLine, Typed(diff),
           line.type = "Add" <=> line.oldLineNo = 0,
           line.type = "Delete" <=> line.newLineNo = 0
    PROVE  Typed(Append(diff, line))
<1>1. /\ DOMAIN diff = 1 .. Len(diff) /\ Len(diff) \in Nat
      /\ DOMAIN Append(diff, line) = 1 .. Len(diff) + 1
      /\ \A k \in 1 .. Len(diff) : Append(diff, line)[k] = diff[k]
      /\ Append(diff, line)[Len(diff) + 1] = line
  OBVIOUS
<1> QED  BY <1>1 DEF Typed

-----------------------------------------------------------------------------
(* Reversing the diff when nothing is left *)

LEMMA Reversed ==
    ASSUME NEW diff \in Seq(DiffLine), NEW lines \in Seq(Line), NEW no, NEW no2, NEW rev,
           \A k \in 1 .. Len(diff) : no[k] \in Nat,
           rev = [k \in 1 .. Len(diff) |-> diff[Len(diff) + 1 - k]],
           \A k \in 1 .. Len(diff) : no2[k] = no[Len(diff) + 1 - k],
           Behind(no, diff, lines, 0)
    PROVE  Carries(no2, rev, lines)
<1>1. DOMAIN diff = 1 .. Len(diff) /\ Len(diff) \in Nat /\ DOMAIN rev = 1 .. Len(diff)
  OBVIOUS
<1>2. DOMAIN lines = 1 .. Len(lines) /\ Len(lines) \in Nat
  OBVIOUS
<1>3. \A k \in 1 .. Len(diff) : Len(diff) + 1 - k \in 1 .. Len(diff)
  BY <1>1
<1>4. \A k \in DOMAIN rev : no2[k] # 0 => no2[k] \in DOMAIN lines /\ rev[k].text = lines[no2[k]]
  BY <1>1, <1>2, <1>3 DEF Behind
<1>5. \A n \in DOMAIN lines : \E k \in DOMAIN rev : no2[k] = n
  <2> SUFFICES ASSUME NEW n \in DOMAIN lines  PROVE \E k \in DOMAIN rev : no2[k] = n
    OBVIOUS
  <2>1. PICK k \in DOMAIN diff : no[k] = n
    BY <1>2 DEF Behind
  <2>2. /\ Len(diff) + 1 - k \in DOMAIN rev
        /\ Len(diff) + 1 - (Len(diff) + 1 - k) = k
    BY <1>1
  <2> QED  BY <2>1, <2>2, <1>1
<1>6. \A k, l \in DOMAIN rev : k < l /\ no2[k] # 0 /\ no2[l] # 0 => no2[k] < no2[l]
  <2> SUFFICES ASSUME NEW k \in DOMAIN rev, NEW l \in DOMAIN rev, k < l, no2[k] # 0, no2[l] # 0
               PROVE  no2[k] < no2[l]
    OBVIOUS
  <2> DEFINE kk == Len(diff) + 1 - k
             ll == Len(diff) + 1 - l
  <2>1. kk \in DOMAIN diff /\ ll \in DOMAIN diff /\ ll < kk
    BY <1>1
  <2>2. no2[k] = no[kk] /\ no2[l] = no[ll] /\ no[kk] \in Nat /\ no[ll] \in Nat
    BY <1>1, <1>3
  <2>3. no[ll] > no[kk]
    BY <2>1, <2>2 DEF Behind
  <2> QED  BY <2>2, <2>3
<1> QED  BY <1>4, <1>5, <1>6 DEF Carries

-----------------------------------------------------------------------------
(* The two texts *)

\* A text has finitely many lines.
LEMMA SplitType ==
    ASSUME NEW text \in Seq(Chars)
    PROVE  \E n \in Nat : splitDiffLines(text) = [k \in 1 .. n |-> splitDiffLines(text)[k]]
<1> DEFINE ends == LineEnds(text)
<1>1. ends \subseteq 1 .. Len(text) + 1 /\ Len(text) + 1 \in Int
  BY DEF LineEnds
<1>2. IsFiniteSet(1 .. Len(text) + 1)
  BY <1>1, FS_Interval
<1>3. IsFiniteSet(ends)
  BY <1>1, <1>2, FS_Subset
<1>4. Cardinality(ends) \in Nat
  BY <1>3, FS_CardinalityType
<1>5. splitDiffLines(text) = [k \in 1 .. Cardinality(ends) |-> splitDiffLines(text)[k]]
  BY DEF splitDiffLines
<1> HIDE DEF ends
<1> QED  BY <1>4, <1>5

\* The lines that the diff may hold.
LEMMA DiffLineTypes ==
    ASSUME old \in Seq(Line), new \in Seq(Line)
    PROVE  /\ \A p \in 1 .. Len(old), q \in 1 .. Len(new) : Context(p, q) \in DiffLine
           /\ \A p \in 1 .. Len(old) : Delete(p) \in DiffLine
           /\ \A q \in 1 .. Len(new) : Add(q) \in DiffLine
<1>1. /\ \A p \in 1 .. Len(old) : old[p] \in Line
      /\ \A q \in 1 .. Len(new) : new[q] \in Line
  OBVIOUS
<1> QED  BY <1>1 DEF Context, Delete, Add, DiffLine

LEMMA InitInv == Init => IInv
<1> SUFFICES ASSUME Init  PROVE IInv
  OBVIOUS
<1>1. old \in Seq(Line) /\ new \in Seq(Line)
  <2>1. oldText \in Seq(Chars) /\ newText \in Seq(Chars)
    BY DiffAssumption DEF Init
  <2>2. PICK n \in Nat : old = [k \in 1 .. n |-> old[k]]
    BY <2>1, SplitType DEF Init
  <2>3. PICK m \in Nat : new = [k \in 1 .. m |-> new[k]]
    BY <2>1, SplitType DEF Init
  <2>4. old \in [1 .. n -> Line]
    BY <2>2 DEF Line
  <2>5. new \in [1 .. m -> Line]
    BY <2>3 DEF Line
  <2> QED  BY <2>4, <2>5, SeqDef
<1>2. Len(old) \in Nat /\ Len(new) \in Nat
  BY <1>1
<1>3. TypeOK
  BY <1>1, <1>2 DEF Init, TypeOK
<1>4. WalkInv
  BY <1>2 DEF Init, WalkInv, Behind, OldNos, NewNos, Typed
<1> QED  BY <1>3, <1>4 DEF IInv, DiffTransforms, Init

LEMMA StepInv == IInv /\ [Next]_vars => IInv'
<1> SUFFICES ASSUME IInv, [Next]_vars  PROVE IInv'
  OBVIOUS
<1>1. /\ old \in Seq(Line) /\ new \in Seq(Line) /\ result \in Seq(DiffLine)
      /\ Len(old) \in Nat /\ Len(new) \in Nat /\ Len(result) \in Nat
      /\ i \in 0 .. Len(old) /\ j \in 0 .. Len(new) /\ phase \in {"walk", "done"}
  BY DEF IInv, TypeOK
<1> Line' = Line /\ DiffLine' = DiffLine
  <2>1. old' = old /\ new' = new
    BY DEF Next, Naive, WalkContext, WalkAdd, WalkDelete, ReverseAndReturn, vars
  <2> QED  BY <2>1 DEF Line, DiffLine
<1>2. CASE Naive
  <2> DEFINE n == Len(old)
             m == Len(new)
  <2>1. /\ result' = [k \in 1 .. n + m |-> IF k <= n THEN Delete(k) ELSE Add(k - n)]
        /\ i' = 0 /\ j' = 0 /\ phase' = "done" /\ old' = old /\ new' = new
    BY <1>2 DEF Naive
  <2>2. \A k \in 1 .. n + m : /\ k <= n => k \in 1 .. n /\ result'[k] = Delete(k)
                              /\ ~(k <= n) => k - n \in 1 .. m /\ result'[k] = Add(k - n)
    BY <1>1, <2>1
  <2>3. result' \in Seq(DiffLine) /\ DOMAIN result' = 1 .. n + m
    <3>1. \A k \in 1 .. n + m : result'[k] \in DiffLine
      BY <1>1, <2>2, DiffLineTypes
    <3> QED  BY <1>1, <2>1, <3>1
  <2>4. TypeOK'
    BY <1>1, <2>1, <2>3 DEF TypeOK
  <2>5. /\ \A k \in 1 .. n : /\ OldNos(result')[k] = k /\ NewNos(result')[k] = 0
                             /\ result'[k].text = old[k] /\ result'[k].type = "Delete"
                             /\ result'[k].oldLineNo = k /\ result'[k].newLineNo = 0
        /\ \A k \in n + 1 .. n + m : /\ OldNos(result')[k] = 0 /\ NewNos(result')[k] = k - n
                                     /\ result'[k].text = new[k - n] /\ result'[k].type = "Add"
                                     /\ result'[k].oldLineNo = 0 /\ result'[k].newLineNo = k - n
    <3>1. \A k \in 1 .. n : k \in 1 .. n + m /\ result'[k] = Delete(k)
      BY <1>1, <2>2
    <3>2. \A k \in n + 1 .. n + m : k \in 1 .. n + m /\ result'[k] = Add(k - n)
      BY <1>1, <2>2
    <3>3. \A k \in 1 .. n + m : /\ OldNos(result')[k] = result'[k].oldLineNo
                                /\ NewNos(result')[k] = result'[k].newLineNo
      BY <2>3 DEF OldNos, NewNos
    <3>4. \A k \in 1 .. n : /\ OldNos(result')[k] = k /\ NewNos(result')[k] = 0
                            /\ result'[k].text = old[k] /\ result'[k].type = "Delete"
                            /\ result'[k].oldLineNo = k /\ result'[k].newLineNo = 0
      <4>1. \A k : /\ Delete(k).oldLineNo = k /\ Delete(k).newLineNo = 0
                   /\ Delete(k).text = old[k] /\ Delete(k).type = "Delete"
        BY DEF Delete
      <4> QED  BY <3>1, <3>3, <4>1
    <3> HIDE DEF n, m
    <3>5. \A k \in n + 1 .. n + m :
             /\ OldNos(result')[k] = 0 /\ NewNos(result')[k] = k - n
             /\ result'[k].text = new[k - n] /\ result'[k].type = "Add"
             /\ result'[k].oldLineNo = 0 /\ result'[k].newLineNo = k - n
      <4>1. \A k : /\ Add(k).oldLineNo = 0 /\ Add(k).newLineNo = k
                   /\ Add(k).text = new[k] /\ Add(k).type = "Add"
        BY DEF Add
      <4> QED  BY <3>2, <3>3, <4>1
    <3> QED  BY <3>4, <3>5
  <2>6. \A k \in 1 .. n + m : k \in 1 .. n \/ k \in n + 1 .. n + m
    BY <1>1
  <2>7. Typed(result')
    BY <1>1, <2>3, <2>5, <2>6 DEF Typed
  <2>8. DOMAIN old = 1 .. n /\ DOMAIN new = 1 .. m
    BY <1>1
  <2>9. Carries(OldNos(result'), result', old)
    <3>1. n \in Nat /\ m \in Nat
      BY <1>1
    <3> HIDE DEF n, m
    <3>2. \A k \in 1 .. n + m : OldNos(result')[k] # 0 => k \in 1 .. n
      BY <2>5, <2>6
    <3>3. \A k \in DOMAIN old : k \in DOMAIN result' /\ OldNos(result')[k] = k
      BY <3>1, <2>3, <2>5, <2>8
    <3>4. \A k, l \in DOMAIN result' :
             k < l /\ OldNos(result')[k] # 0 /\ OldNos(result')[l] # 0
             => OldNos(result')[k] < OldNos(result')[l]
      BY <3>1, <3>2, <2>3, <2>5
    <3> QED  BY <2>3, <2>5, <2>8, <3>2, <3>3, <3>4 DEF Carries
  <2>10. Carries(NewNos(result'), result', new)
    <3>1. \A k \in 1 .. m : k + n \in n + 1 .. n + m /\ k + n \in 1 .. n + m /\ k + n - n = k
      BY <1>1
    <3>2. \A k \in DOMAIN new : \E l \in DOMAIN result' : NewNos(result')[l] = k
      BY <2>3, <2>5, <2>8, <3>1
    <3> QED  BY <1>1, <2>3, <2>5, <2>6, <2>8, <3>2 DEF Carries
  <2> QED  BY <2>1, <2>4, <2>7, <2>9, <2>10 DEF IInv, WalkInv, DiffTransforms
<1>3. CASE WalkContext
  <2>1. /\ result' = Append(result, Context(i, j)) /\ i' = i - 1 /\ j' = j - 1
        /\ old' = old /\ new' = new /\ phase' = "walk" /\ phase = "walk"
        /\ i \in 1 .. Len(old) /\ j \in 1 .. Len(new) /\ old[i] = new[j]
    BY <1>1, <1>3 DEF WalkContext, Walking, Same
  <2>2. Context(i, j) \in DiffLine
    BY <1>1, <2>1, DiffLineTypes
  <2>3. /\ Behind(OldNos(result), result, old, i) /\ Behind(NewNos(result), result, new, j)
        /\ Typed(result)
    BY <2>1 DEF IInv, WalkInv
  <2>4. /\ Context(i, j).oldLineNo = i /\ Context(i, j).newLineNo = j
        /\ Context(i, j).text = old[i] /\ Context(i, j).type = "Context"
    BY DEF Context
  <2>5. Behind(OldNos(result'), result', old, i - 1)
    BY <1>1, <2>1, <2>2, <2>3, <2>4, PushNos, PushNext
  <2>6. Behind(NewNos(result'), result', new, j - 1)
    BY <1>1, <2>1, <2>2, <2>3, <2>4, PushNos, PushNext
  <2>7. Typed(result')
    BY <1>1, <2>1, <2>2, <2>3, <2>4, PushTyped
  <2>8. TypeOK'
    BY <1>1, <2>1, <2>2, PushNos DEF TypeOK
  <2> QED  BY <2>1, <2>5, <2>6, <2>7, <2>8 DEF IInv, WalkInv, DiffTransforms
<1>4. CASE WalkAdd
  <2>1. /\ result' = Append(result, Add(j)) /\ i' = i /\ j' = j - 1
        /\ old' = old /\ new' = new /\ phase' = "walk" /\ phase = "walk" /\ j \in 1 .. Len(new)
    BY <1>1, <1>4 DEF WalkAdd, Walking, PrefersAdd
  <2>2. Add(j) \in DiffLine
    BY <1>1, <2>1, DiffLineTypes
  <2>3. /\ Behind(OldNos(result), result, old, i) /\ Behind(NewNos(result), result, new, j)
        /\ Typed(result)
    BY <2>1 DEF IInv, WalkInv
  <2>4. /\ Add(j).oldLineNo = 0 /\ Add(j).newLineNo = j
        /\ Add(j).text = new[j] /\ Add(j).type = "Add"
    BY DEF Add
  <2>5. Behind(OldNos(result'), result', old, i)
    BY <1>1, <2>1, <2>2, <2>3, <2>4, PushNos, PushOther
  <2>6. Behind(NewNos(result'), result', new, j - 1)
    <3> DEFINE l == Add(j)
    <3>1. result' = Append(result, l) /\ l \in DiffLine /\ l.newLineNo = j /\ l.text = new[j]
      BY <2>1, <2>2, <2>4
    <3> HIDE DEF l
    <3>2. /\ \A k \in 1 .. Len(result) : NewNos(result)[k] \in Nat
                                        /\ NewNos(result')[k] = NewNos(result)[k]
          /\ NewNos(result')[Len(result) + 1] = j
      BY <1>1, <3>1, PushNos
    <3> QED  BY <1>1, <2>1, <2>3, <3>1, <3>2, PushNext
  <2>7. Typed(result')
    BY <1>1, <2>1, <2>2, <2>3, <2>4, PushTyped
  <2>8. TypeOK'
    BY <1>1, <2>1, <2>2, PushNos DEF TypeOK
  <2> QED  BY <2>1, <2>5, <2>6, <2>7, <2>8 DEF IInv, WalkInv, DiffTransforms
<1>5. CASE WalkDelete
  <2>1. /\ result' = Append(result, Delete(i)) /\ i' = i - 1 /\ j' = j
        /\ old' = old /\ new' = new /\ phase' = "walk" /\ phase = "walk" /\ i \in 1 .. Len(old)
    BY <1>1, <1>5 DEF WalkDelete, Walking
  <2>2. Delete(i) \in DiffLine
    BY <1>1, <2>1, DiffLineTypes
  <2>3. /\ Behind(OldNos(result), result, old, i) /\ Behind(NewNos(result), result, new, j)
        /\ Typed(result)
    BY <2>1 DEF IInv, WalkInv
  <2>4. /\ Delete(i).oldLineNo = i /\ Delete(i).newLineNo = 0
        /\ Delete(i).text = old[i] /\ Delete(i).type = "Delete"
    BY DEF Delete
  <2>5. Behind(OldNos(result'), result', old, i - 1)
    BY <1>1, <2>1, <2>2, <2>3, <2>4, PushNos, PushNext
  <2>6. Behind(NewNos(result'), result', new, j)
    BY <1>1, <2>1, <2>2, <2>3, <2>4, PushNos, PushOther
  <2>7. Typed(result')
    BY <1>1, <2>1, <2>2, <2>3, <2>4, PushTyped
  <2>8. TypeOK'
    BY <1>1, <2>1, <2>2, PushNos DEF TypeOK
  <2> QED  BY <2>1, <2>5, <2>6, <2>7, <2>8 DEF IInv, WalkInv, DiffTransforms
<1>6. CASE ReverseAndReturn
  <2> DEFINE n == Len(result)
  <2>1. /\ result' = [k \in 1 .. n |-> result[n + 1 - k]] /\ i = 0 /\ j = 0 /\ i' = 0 /\ j' = 0
        /\ old' = old /\ new' = new /\ phase' = "done" /\ phase = "walk"
    BY <1>6 DEF ReverseAndReturn, Walking
  <2>2. /\ Behind(OldNos(result), result, old, 0) /\ Behind(NewNos(result), result, new, 0)
        /\ Typed(result)
    BY <2>1 DEF IInv, WalkInv
  <2>3. \A k \in 1 .. n : n + 1 - k \in 1 .. n
    BY <1>1
  <2>4. \A k \in 1 .. n : result[k] \in DiffLine
    BY <1>1
  <2>5. result' \in Seq(DiffLine) /\ DOMAIN result' = 1 .. n /\ DOMAIN result = 1 .. n
    BY <1>1, <2>1, <2>3, <2>4
  <2>6. \A k \in 1 .. n : result'[k] = result[n + 1 - k]
    BY <2>1
  <2>7. \A k \in 1 .. n : /\ OldNos(result)[k] \in Nat /\ NewNos(result)[k] \in Nat
    BY <2>4, <2>5 DEF OldNos, NewNos, DiffLine
  <2>8. \A k \in 1 .. n : /\ OldNos(result')[k] = OldNos(result)[n + 1 - k]
                          /\ NewNos(result')[k] = NewNos(result)[n + 1 - k]
    BY <2>3, <2>5, <2>6 DEF OldNos, NewNos
  <2>9. Carries(OldNos(result'), result', old)
    BY <1>1, <2>1, <2>2, <2>7, <2>8, Reversed
  <2>10. Carries(NewNos(result'), result', new)
    BY <1>1, <2>1, <2>2, <2>7, <2>8, Reversed
  <2>11. Typed(result')
    <3> HIDE DEF n
    <3>1. \A k \in 1 .. n : /\ result[k].type = "Add" <=> result[k].oldLineNo = 0
                            /\ result[k].type = "Delete" <=> result[k].newLineNo = 0
      BY <2>2, <2>5 DEF Typed
    <3> QED  BY <2>3, <2>5, <2>6, <3>1 DEF Typed
  <2>12. TypeOK'
    BY <1>1, <2>1, <2>5 DEF TypeOK
  <2> QED  BY <2>1, <2>9, <2>10, <2>11, <2>12 DEF IInv, WalkInv, DiffTransforms
<1>7. CASE UNCHANGED vars
  BY <1>7 DEF vars, IInv, TypeOK, WalkInv, DiffTransforms
<1> QED  BY <1>2, <1>3, <1>4, <1>5, <1>6, <1>7 DEF Next

\* computeLineDiff returns a diff of its arguments: the lines with an old number are the
\* old text, those with a new number the new one, for any two texts and any limit of
\* the table.
THEOREM DiffIsExact == Spec => []DiffTransforms
<1>1. Init => IInv
  BY InitInv
<1>2. IInv /\ [Next]_vars => IInv'
  BY StepInv
<1>3. IInv => DiffTransforms
  BY DEF IInv
<1> QED  BY <1>1, <1>2, <1>3, PTL DEF Spec

-----------------------------------------------------------------------------
(* The table of LCS lengths *)

\* Induction over the natural numbers, by a set.
LEMMA Inductive ==
    ASSUME NEW S, 0 \in S, \A n \in Nat : n \in S => n + 1 \in S
    PROVE  Nat \subseteq S
<1> SUFFICES ASSUME Nat \ S # {} PROVE FALSE
  OBVIOUS
<1> DEFINE R == OpToRel(<, Nat)
           T == Nat \ S
<1>1. IsWellFoundedOn(R, Nat)
  BY NatLessThanWellFounded
<1>2. \A x, y \in Nat : x < y => <<x, y>> \in R
  BY DEF OpToRel
<1>3. T \subseteq Nat /\ T # {}
  OBVIOUS
<1> HIDE DEF R, T
<1>4. PICK x \in T : \A y \in T : ~(<<y, x>> \in R)
  BY <1>1, <1>3, WFMin
<1>5. x \in Nat /\ x \notin S /\ x # 0
  BY <1>4 DEF T
<1>6. x - 1 \in Nat /\ x - 1 < x /\ x - 1 + 1 = x
  BY <1>5
<1>7. x - 1 \in T
  BY <1>5, <1>6 DEF T
<1> QED  BY <1>2, <1>4, <1>5, <1>6, <1>7

Cells == (0 .. Len(old)) \X (0 .. Len(new))

\* A cell of the table from the cells before it.
Entry(g, c) ==
    IF c[1] = 0 \/ c[2] = 0 THEN 0
    ELSE IF old[c[1]] = new[c[2]] THEN g[<<c[1] - 1, c[2] - 1>>] + 1
    ELSE IF g[<<c[1] - 1, c[2]>>] >= g[<<c[1], c[2] - 1>>] THEN g[<<c[1] - 1, c[2]>>]
                                                         ELSE g[<<c[1], c[2] - 1>>]

Lengths == old \in Seq(Line) /\ new \in Seq(Line)

LEMMA CellsAre ==
    ASSUME Lengths
    PROVE  /\ Len(old) \in Nat /\ Len(new) \in Nat
           /\ \A c \in Cells : c[1] \in 0 .. Len(old) /\ c[2] \in 0 .. Len(new) /\ c = <<c[1], c[2]>>
           /\ \A p \in 0 .. Len(old), q \in 0 .. Len(new) : <<p, q>> \in Cells
BY DEF Lengths, Cells

\* An entry depends on the cells with a smaller sum only, and is a number if they are.
LEMMA EntryIs ==
    ASSUME Lengths, NEW g, NEW h \in [Cells -> Nat], NEW c \in Cells,
           \A d \in Cells : d[1] + d[2] < c[1] + c[2] => g[d] = h[d]
    PROVE  Entry(g, c) = Entry(h, c) /\ Entry(g, c) \in Nat
<1>1. /\ c[1] \in Nat /\ c[2] \in Nat /\ c[1] <= Len(old) /\ c[2] <= Len(new)
      /\ Len(old) \in Nat /\ Len(new) \in Nat
  BY CellsAre
<1>2. CASE c[1] = 0 \/ c[2] = 0
  BY <1>2 DEF Entry
<1>3. CASE c[1] # 0 /\ c[2] # 0
  <2>1. /\ <<c[1] - 1, c[2] - 1>> \in Cells /\ <<c[1] - 1, c[2]>> \in Cells
        /\ <<c[1], c[2] - 1>> \in Cells
    <3>1. /\ c[1] - 1 \in 0 .. Len(old) /\ c[2] - 1 \in 0 .. Len(new)
          /\ c[1] \in 0 .. Len(old) /\ c[2] \in 0 .. Len(new)
      BY <1>1, <1>3
    <3> QED  BY <3>1, CellsAre
  <2>2. ASSUME NEW p, NEW q, <<p, q>> \in Cells, p + q < c[1] + c[2]
        PROVE  g[<<p, q>>] = h[<<p, q>>] /\ g[<<p, q>>] \in Nat
    <3>1. <<p, q>>[1] = p /\ <<p, q>>[2] = q
      OBVIOUS
    <3> QED  BY <2>2, <3>1
  <2>3. c[1] - 1 + (c[2] - 1) < c[1] + c[2] /\ c[1] - 1 + c[2] < c[1] + c[2]
        /\ c[1] + (c[2] - 1) < c[1] + c[2]
    BY <1>1
  <2>4. /\ g[<<c[1] - 1, c[2] - 1>>] = h[<<c[1] - 1, c[2] - 1>>]
        /\ g[<<c[1] - 1, c[2] - 1>>] \in Nat
        /\ g[<<c[1] - 1, c[2]>>] = h[<<c[1] - 1, c[2]>>] /\ g[<<c[1] - 1, c[2]>>] \in Nat
        /\ g[<<c[1], c[2] - 1>>] = h[<<c[1], c[2] - 1>>] /\ g[<<c[1], c[2] - 1>>] \in Nat
    BY <2>1, <2>2, <2>3
  <2> QED  BY <1>3, <2>4 DEF Entry
<1> QED  BY <1>2, <1>3

\* The recursive definition defines a table.
LEMMA TableExists ==
    ASSUME Lengths
    PROVE  \E g \in [Cells -> Nat] : \A c \in Cells : g[c] = Entry(g, c)
<1> DEFINE Right(g, n) == \A c \in Cells : c[1] + c[2] <= n => g[c] = Entry(g, c)
           S == {n \in Nat : \E g \in [Cells -> Nat] : Right(g, n)}
<1>1. 0 \in S
  <2> DEFINE z == [c \in Cells |-> 0]
  <2>1. ASSUME NEW c \in Cells, c[1] + c[2] <= 0 PROVE z[c] = Entry(z, c)
    <3>1. c[1] = 0 \/ c[2] = 0
      BY <2>1, CellsAre
    <3> QED  BY <3>1 DEF Entry
  <2>2. z \in [Cells -> Nat]
    OBVIOUS
  <2> HIDE DEF z
  <2>3. Right(z, 0)
    BY <2>1
  <2> QED  BY <2>2, <2>3
<1>2. ASSUME NEW n \in Nat, n \in S PROVE n + 1 \in S
  <2>1. PICK g \in [Cells -> Nat] : Right(g, n)
    BY <1>2
  <2> DEFINE h == [c \in Cells |-> IF c[1] + c[2] = n + 1 THEN Entry(g, c) ELSE g[c]]
  <2>2. \A c \in Cells : Entry(g, c) \in Nat
    BY EntryIs
  <2>3. h \in [Cells -> Nat]
    BY <2>2
  <2>4. \A c \in Cells : h[c] = IF c[1] + c[2] = n + 1 THEN Entry(g, c) ELSE g[c]
    OBVIOUS
  <2> HIDE DEF h
  <2>5. ASSUME NEW c \in Cells, c[1] + c[2] <= n + 1 PROVE h[c] = Entry(h, c)
    <3>1. \A d \in Cells : d[1] \in Nat /\ d[2] \in Nat
      BY CellsAre
    <3>2. \A d \in Cells : d[1] + d[2] < c[1] + c[2] => h[d] = g[d]
      BY <2>4, <2>5, <3>1
    <3>3. Entry(h, c) = Entry(g, c)
      BY <2>3, <3>2, EntryIs
    <3>4. CASE c[1] + c[2] = n + 1
      BY <2>4, <3>3, <3>4
    <3>5. CASE c[1] + c[2] # n + 1
      <4>1. c[1] + c[2] <= n
        BY <2>5, <3>1, <3>5
      <4> QED  BY <2>1, <2>4, <3>3, <3>5, <4>1
    <3> QED  BY <3>4, <3>5
  <2> QED  BY <2>3, <2>5
<1>3. Len(old) + Len(new) \in S
  <2>1. Nat \subseteq S
    <3> HIDE DEF S
    <3> QED  BY <1>1, <1>2, Inductive
  <2>2. Len(old) + Len(new) \in Nat
    BY CellsAre
  <2> QED  BY <2>1, <2>2
<1>4. PICK g \in [Cells -> Nat] : Right(g, Len(old) + Len(new))
  BY <1>3
<1>5. \A c \in Cells : c[1] + c[2] <= Len(old) + Len(new)
  BY CellsAre
<1> QED  BY <1>4, <1>5

LEMMA TableIs ==
    ASSUME Lengths
    PROVE  dp \in [Cells -> Nat] /\ \A c \in Cells : dp[c] = Entry(dp, c)
<1>1. dp = CHOOSE g : g = [c \in Cells |-> Entry(g, c)]
  BY DEF dp, Cells, Entry
<1>2. PICK g \in [Cells -> Nat] : \A c \in Cells : g[c] = Entry(g, c)
  BY TableExists
<1>3. g = [c \in Cells |-> Entry(g, c)]
  BY <1>2
<1>4. dp = [c \in Cells |-> Entry(dp, c)]
  BY <1>1, <1>3
<1>5. DOMAIN dp = Cells /\ \A c \in Cells : dp[c] = Entry(dp, c)
  BY <1>4
<1>6. \A c \in Cells : dp[c] \in Nat
  <2> DEFINE S == {n \in Nat : \A c \in Cells : c[1] + c[2] < n => dp[c] = g[c]}
  <2>0. \A c \in Cells : c[1] \in Nat /\ c[2] \in Nat
    BY CellsAre
  <2>1. 0 \in S
    BY <2>0
  <2>2. ASSUME NEW n \in Nat, n \in S PROVE n + 1 \in S
    <3>1. ASSUME NEW c \in Cells, c[1] + c[2] < n + 1 PROVE dp[c] = g[c]
      <4>1. \A d \in Cells : d[1] + d[2] < c[1] + c[2] => dp[d] = g[d]
        BY <2>0, <2>2, <3>1
      <4> QED  BY <1>2, <1>5, <4>1, EntryIs
    <3> QED  BY <3>1
  <2> HIDE DEF S
  <2>3. Nat \subseteq S
    BY <2>1, <2>2, Inductive
  <2>4. \A c \in Cells : c[1] + c[2] + 1 \in Nat /\ c[1] + c[2] < c[1] + c[2] + 1
    BY <2>0
  <2> QED  BY <1>2, <2>3, <2>4 DEF S
<1> QED  BY <1>4, <1>5, <1>6

-----------------------------------------------------------------------------
(* No common subsequence is longer than the table says *)

\* CommonLines of the first p old and the first q new lines.
CommonUpTo(p, q, P, f) ==
    /\ P \subseteq 1 .. p
    /\ \A x \in P : f[x] \in 1 .. q /\ old[x] = new[f[x]]
    /\ \A x, y \in P : x < y => f[x] < f[y]

Bounded(c) == \A P, f : CommonUpTo(c[1], c[2], P, f) => Cardinality(P) <= dp[c]

\* If the two last lines are the same, one line at most is lost without them.
LEMMA BoundSame ==
    ASSUME Lengths, NEW p \in 1 .. Len(old), NEW q \in 1 .. Len(new),
           Bounded(<<p - 1, q - 1>>), dp[<<p, q>>] = dp[<<p - 1, q - 1>>] + 1,
           dp[<<p - 1, q - 1>>] \in Nat,
           NEW P, NEW f, CommonUpTo(p, q, P, f)
    PROVE  Cardinality(P) <= dp[<<p, q>>]
<1> DEFINE L == {x \in P : x < p /\ f[x] < q}
<1>0. p \in Nat /\ q \in Nat /\ \A x \in P : x \in 1 .. p /\ f[x] \in 1 .. q
  BY DEF CommonUpTo
<1>1. CommonUpTo(p - 1, q - 1, L, f)
  <2>1. /\ \A x \in P : old[x] = new[f[x]]
        /\ \A x, y \in P : x < y => f[x] < f[y]
    BY DEF CommonUpTo
  <2>2. \A x \in L : x \in P /\ x \in 1 .. p - 1 /\ f[x] \in 1 .. q - 1
    <3> SUFFICES ASSUME NEW x \in P, x < p, f[x] < q
                 PROVE  x \in 1 .. p - 1 /\ f[x] \in 1 .. q - 1
      OBVIOUS
    <3>1. x \in 1 .. p /\ f[x] \in 1 .. q
      BY <1>0
    <3> QED  BY <1>0, <3>1
  <2> HIDE DEF L
  <2> QED  BY <2>1, <2>2 DEF CommonUpTo
<1>2. Cardinality(L) <= dp[<<p - 1, q - 1>>]
  <2>1. <<p - 1, q - 1>>[1] = p - 1 /\ <<p - 1, q - 1>>[2] = q - 1
    OBVIOUS
  <2> HIDE DEF L
  <2> QED  BY <1>1, <2>1 DEF Bounded
<1>3. IsFiniteSet(L) /\ Cardinality(L) \in Nat
  <2>1. IsFiniteSet(1 .. p) /\ L \subseteq 1 .. p
    BY <1>0, FS_Interval
  <2> HIDE DEF L
  <2> QED  BY <2>1, FS_Subset, FS_CardinalityType
<1>4. ASSUME NEW x \in P \ L, NEW y \in P \ L, x < y PROVE FALSE
  <2>1. x < p /\ f[x] < f[y] /\ f[y] <= q /\ f[x] \in Nat /\ f[y] \in Nat
    BY <1>0, <1>4 DEF CommonUpTo
  <2> QED  BY <1>4, <2>1
<1>5. \A x, y \in P \ L : x = y
  BY <1>0, <1>4
<1>6. PICK z : P = L \/ P = L \cup {z}
  <2>1. CASE P \ L = {}
    BY <2>1
  <2>2. CASE P \ L # {}
    <3>1. PICK z : z \in P \ L
      BY <2>2
    <3> QED  BY <1>5, <3>1
  <2> QED  BY <2>1, <2>2
<1> HIDE DEF L
<1>7. CASE P = L
  BY <1>2, <1>3, <1>7
<1>8. CASE P # L
  <2> DEFINE U == L \cup {z}
  <2>1. IsFiniteSet(U) /\ (Cardinality(U) = Cardinality(L) \/ Cardinality(U) = Cardinality(L) + 1)
    BY <1>3, FS_AddElement
  <2>2. P = U
    BY <1>6, <1>8
  <2> HIDE DEF U
  <2> QED  BY <1>2, <1>3, <2>1, <2>2
<1> QED  BY <1>7, <1>8

\* If they are not, they do not both belong to it.
LEMMA DropsOne ==
    ASSUME Lengths, NEW p \in 1 .. Len(old), NEW q \in 1 .. Len(new), old[p] # new[q],
           NEW P, NEW f, CommonUpTo(p, q, P, f)
    PROVE  CommonUpTo(p - 1, q, P, f) \/ CommonUpTo(p, q - 1, P, f)
<1>0. p \in Nat /\ q \in Nat /\ \A x \in P : x \in 1 .. p /\ f[x] \in 1 .. q
  BY DEF CommonUpTo
<1>1. CASE p \notin P
  <2>1. P \subseteq 1 .. p - 1
    BY <1>0, <1>1
  <2> QED  BY <2>1 DEF CommonUpTo
<1>2. CASE p \in P
  <2>1. f[p] # q /\ f[p] \in 1 .. q
    BY <1>0, <1>2 DEF CommonUpTo
  <2>2. ASSUME NEW x \in P PROVE f[x] \in 1 .. q - 1
    <3>1. x = p \/ f[x] < f[p]
      BY <1>0, <1>2 DEF CommonUpTo
    <3> QED  BY <1>0, <2>1, <3>1
  <2> QED  BY <2>2 DEF CommonUpTo
<1> QED  BY <1>1, <1>2

LEMMA NoLongerCommon == ASSUME Lengths PROVE \A c \in Cells : Bounded(c)
<1> DEFINE S == {n \in Nat : \A c \in Cells : c[1] + c[2] < n => Bounded(c)}
<1>0. \A c \in Cells : c[1] \in Nat /\ c[2] \in Nat
  BY CellsAre
<1>1. 0 \in S
  BY <1>0
<1>2. ASSUME NEW n \in Nat, n \in S PROVE n + 1 \in S
  <2> SUFFICES ASSUME NEW c \in Cells, c[1] + c[2] < n + 1 PROVE Bounded(c)
    OBVIOUS
  <2>0. \A d \in Cells : d[1] + d[2] < c[1] + c[2] => Bounded(d)
    BY <1>0, <1>2
  <2> SUFFICES ASSUME NEW P, NEW f, CommonUpTo(c[1], c[2], P, f)
               PROVE  Cardinality(P) <= dp[c]
    BY DEF Bounded
  <2> HIDE DEF S
  <2>1. PICK p \in 0 .. Len(old), q \in 0 .. Len(new) : c = <<p, q>> /\ p = c[1] /\ q = c[2]
    BY CellsAre
  <2>2. /\ dp[c] = Entry(dp, c) /\ \A d \in Cells : dp[d] \in Nat
        /\ Len(old) \in Nat /\ Len(new) \in Nat
    BY TableIs, CellsAre
  <2>3. CASE p = 0 \/ q = 0
    <3>1. P = {}
      <4>1. \A x \in P : x \in 1 .. p /\ f[x] \in 1 .. q
        BY <2>1 DEF CommonUpTo
      <4> QED  BY <2>3, <4>1
    <3>2. dp[c] = 0
      BY <2>1, <2>2, <2>3 DEF Entry
    <3> QED  BY <3>1, <3>2, FS_EmptySet
  <2>4. CASE p # 0 /\ q # 0
    <3>1. p \in 1 .. Len(old) /\ q \in 1 .. Len(new)
      BY <2>2, <2>4
    <3>2. /\ <<p - 1, q - 1>> \in Cells /\ <<p - 1, q>> \in Cells /\ <<p, q - 1>> \in Cells
      <4>1. p - 1 \in 0 .. Len(old) /\ q - 1 \in 0 .. Len(new)
        BY <3>1
      <4> QED  BY <4>1, CellsAre
    <3>3. Bounded(<<p - 1, q - 1>>) /\ Bounded(<<p - 1, q>>) /\ Bounded(<<p, q - 1>>)
      <4>1. ASSUME NEW u, NEW v, <<u, v>> \in Cells, u + v < p + q PROVE Bounded(<<u, v>>)
        <5>1. <<u, v>>[1] = u /\ <<u, v>>[2] = v
          OBVIOUS
        <5> QED  BY <2>0, <2>1, <4>1, <5>1
      <4>2. p - 1 + (q - 1) < p + q /\ p - 1 + q < p + q /\ p + (q - 1) < p + q
        BY <3>1
      <4> QED  BY <3>2, <4>1, <4>2
    <3>4. CommonUpTo(p, q, P, f)
      BY <2>1
    <3>5. CASE old[p] = new[q]
      <4>1. dp[<<p, q>>] = dp[<<p - 1, q - 1>>] + 1
        BY <2>1, <2>2, <2>4, <3>5 DEF Entry
      <4>2. dp[<<p - 1, q - 1>>] \in Nat
        BY <2>2, <3>2
      <4> QED  BY <2>1, <3>1, <3>3, <3>4, <4>1, <4>2, BoundSame
    <3>6. CASE old[p] # new[q]
      <4>1. dp[c] = IF dp[<<p - 1, q>>] >= dp[<<p, q - 1>>] THEN dp[<<p - 1, q>>]
                                                           ELSE dp[<<p, q - 1>>]
        BY <2>1, <2>2, <2>4, <3>6 DEF Entry
      <4>2. dp[<<p - 1, q>>] \in Nat /\ dp[<<p, q - 1>>] \in Nat
        BY <2>2, <3>2
      <4>3. /\ CommonUpTo(p - 1, q, P, f) => Cardinality(P) <= dp[<<p - 1, q>>]
            /\ CommonUpTo(p, q - 1, P, f) => Cardinality(P) <= dp[<<p, q - 1>>]
        <5>1. /\ <<p - 1, q>>[1] = p - 1 /\ <<p - 1, q>>[2] = q
              /\ <<p, q - 1>>[1] = p /\ <<p, q - 1>>[2] = q - 1
          OBVIOUS
        <5> QED  BY <3>3, <5>1 DEF Bounded
      <4>4. Cardinality(P) \in Nat
        <5>1. IsFiniteSet(1 .. p) /\ P \in SUBSET (1 .. p)
          BY <3>1, <3>4, FS_Interval DEF CommonUpTo
        <5> QED  BY <5>1, FS_Subset, FS_CardinalityType
      <4>5. CommonUpTo(p - 1, q, P, f) \/ CommonUpTo(p, q - 1, P, f)
        BY <3>1, <3>4, <3>6, DropsOne
      <4> QED  BY <4>1, <4>2, <4>3, <4>4, <4>5
    <3> QED  BY <3>5, <3>6
  <2> QED  BY <2>3, <2>4
<1> HIDE DEF S
<1>3. Nat \subseteq S
  BY <1>1, <1>2, Inductive
<1>4. \A c \in Cells : c[1] + c[2] + 1 \in Nat /\ c[1] + c[2] < c[1] + c[2] + 1
  BY <1>0
<1> QED  BY <1>3, <1>4 DEF S

-----------------------------------------------------------------------------
(* The walk keeps as many lines as the table promises *)

ContextOf(diff) == {k \in DOMAIN diff : diff[k].type = "Context"}

\* What was kept so far and what the table promises for the lines left add up to what
\* it promises for the whole texts.
KeptInv ==
    /\ phase = "done" => i = 0 /\ j = 0
    /\ ~TooLarge => Cardinality(Kept) + dp[<<i, j>>] = dp[<<Len(old), Len(new)>>]

LEMMA ContextCount ==
    ASSUME NEW diff \in Seq(DiffLine)
    PROVE  IsFiniteSet(ContextOf(diff)) /\ Cardinality(ContextOf(diff)) \in Nat
<1>1. DOMAIN diff = 1 .. Len(diff) /\ Len(diff) \in Int /\ 1 \in Int
  OBVIOUS
<1>2. IsFiniteSet(DOMAIN diff)
  BY <1>1, FS_Interval
<1>3. ContextOf(diff) \subseteq DOMAIN diff
  BY DEF ContextOf
<1> QED  BY <1>2, <1>3, FS_Subset, FS_CardinalityType

\* A pushed line is counted if it is context.
LEMMA ContextPushed ==
    ASSUME NEW diff \in Seq(DiffLine), NEW line \in DiffLine
    PROVE  Cardinality(ContextOf(Append(diff, line))) =
             IF line.type = "Context" THEN Cardinality(ContextOf(diff)) + 1
                                      ELSE Cardinality(ContextOf(diff))
<1> DEFINE n == Len(diff) + 1
           C == ContextOf(diff)
           D == ContextOf(Append(diff, line))
<1>1. /\ DOMAIN diff = 1 .. Len(diff) /\ Len(diff) \in Nat
      /\ DOMAIN Append(diff, line) = 1 .. n
      /\ \A k \in 1 .. Len(diff) : Append(diff, line)[k] = diff[k]
      /\ Append(diff, line)[n] = line
  OBVIOUS
<1>2. n \notin C /\ IsFiniteSet(C) /\ Cardinality(C) \in Nat
  BY <1>1, ContextCount DEF ContextOf
<1>3. CASE line.type = "Context"
  <2>1. D = C \cup {n}
    BY <1>1, <1>3 DEF ContextOf
  <2>2. Cardinality(D) = Cardinality(C) + 1
    <3> HIDE DEF C, D, n
    <3> QED  BY <1>2, <2>1, FS_AddElement
  <2> QED  BY <1>3, <2>2
<1>4. CASE line.type # "Context"
  <2>1. D = C
    BY <1>1, <1>4 DEF ContextOf
  <2> QED  BY <1>4, <2>1
<1> QED  BY <1>3, <1>4

\* Turning the diff round keeps them.
LEMMA ContextReversed ==
    ASSUME NEW diff \in Seq(DiffLine), NEW rev,
           rev = [k \in 1 .. Len(diff) |-> diff[Len(diff) + 1 - k]]
    PROVE  Cardinality(ContextOf(rev)) = Cardinality(ContextOf(diff))
<1> DEFINE n == Len(diff)
           C == ContextOf(diff)
           D == ContextOf(rev)
           f == [k \in C |-> n + 1 - k]
<1>1. n \in Nat /\ DOMAIN diff = 1 .. n /\ DOMAIN rev = 1 .. n
  OBVIOUS
<1>2. \A k \in 1 .. n : n + 1 - k \in 1 .. n /\ n + 1 - (n + 1 - k) = k /\ rev[k] = diff[n + 1 - k]
  BY <1>1
<1>3. \A k \in C : k \in 1 .. n /\ diff[k].type = "Context" /\ n + 1 - k \in D
  BY <1>1, <1>2 DEF ContextOf
<1>4. \A k \in D : n + 1 - k \in C /\ k \in 1 .. n
  BY <1>1, <1>2 DEF ContextOf
<1>5. IsFiniteSet(C)
  BY ContextCount
<1> HIDE DEF n, C, D
<1>6. f \in Bijection(C, D)
  <2>1. f \in [C -> D]
    BY <1>3
  <2>2. \A x, y \in C : f[x] = f[y] => x = y
    <3> SUFFICES ASSUME NEW x \in C, NEW y \in C, n + 1 - x = n + 1 - y PROVE x = y
      OBVIOUS
    <3> QED  BY <1>1, <1>2, <1>3
  <2>3. \A y \in D : \E x \in C : f[x] = y
    <3> SUFFICES ASSUME NEW y \in D PROVE \E x \in C : f[x] = y
      OBVIOUS
    <3>1. n + 1 - y \in C /\ f[n + 1 - y] = y
      BY <1>2, <1>4
    <3> QED  BY <3>1
  <2> HIDE DEF f
  <2> QED  BY <2>1, <2>2, <2>3 DEF Bijection, Injection, Surjection, IsInjective
<1> HIDE DEF f
<1>7. ExistsBijection(C, D)
  BY <1>6 DEF ExistsBijection
<1> QED  BY <1>5, <1>7, FS_Bijection DEF C, D

\* What a cell says of the cells the walk may go to.
LEMMA CellIs ==
    ASSUME Lengths, NEW p \in 0 .. Len(old), NEW q \in 0 .. Len(new)
    PROVE  dp[<<p, q>>] \in Nat /\ (p = 0 \/ q = 0 => dp[<<p, q>>] = 0)
<1>1. <<p, q>> \in Cells /\ <<p, q>>[1] = p /\ <<p, q>>[2] = q
  BY CellsAre
<1>2. dp[<<p, q>>] \in Nat /\ dp[<<p, q>>] = Entry(dp, <<p, q>>)
  BY <1>1, TableIs
<1> QED  BY <1>1, <1>2 DEF Entry

LEMMA CellSays ==
    ASSUME Lengths, NEW p \in 1 .. Len(old), NEW q \in 1 .. Len(new)
    PROVE  /\ dp[<<p - 1, q - 1>>] \in Nat /\ dp[<<p - 1, q>>] \in Nat /\ dp[<<p, q - 1>>] \in Nat
           /\ old[p] = new[q] => dp[<<p, q>>] = dp[<<p - 1, q - 1>>] + 1
           /\ old[p] # new[q] /\ dp[<<p, q - 1>>] < dp[<<p - 1, q>>] =>
                 dp[<<p, q>>] = dp[<<p - 1, q>>]
           /\ old[p] # new[q] /\ dp[<<p, q - 1>>] >= dp[<<p - 1, q>>] =>
                 dp[<<p, q>>] = dp[<<p, q - 1>>]
<1>0. /\ p \in 0 .. Len(old) /\ p - 1 \in 0 .. Len(old) /\ p # 0
      /\ q \in 0 .. Len(new) /\ q - 1 \in 0 .. Len(new) /\ q # 0
  BY CellsAre
<1>1. <<p, q>> \in Cells /\ <<p, q>>[1] = p /\ <<p, q>>[2] = q
  BY <1>0, CellsAre
<1>2. dp[<<p, q>>] = Entry(dp, <<p, q>>)
  BY <1>1, TableIs
<1>3. dp[<<p - 1, q - 1>>] \in Nat /\ dp[<<p - 1, q>>] \in Nat /\ dp[<<p, q - 1>>] \in Nat
  BY <1>0, CellIs
<1> QED  BY <1>0, <1>1, <1>2, <1>3 DEF Entry

LEMMA InitKept == TypeOK /\ Init => KeptInv
<1> SUFFICES ASSUME TypeOK, Init PROVE KeptInv
  OBVIOUS
<1>1. Len(old) \in Nat /\ Len(new) \in Nat /\ Lengths
  BY DEF TypeOK, Lengths
<1>2. Kept = {} /\ phase = "walk" /\ i = Len(old) /\ j = Len(new)
  BY DEF Init, Kept
<1>3. dp[<<i, j>>] \in Nat
  <2>1. i \in 0 .. Len(old) /\ j \in 0 .. Len(new)
    BY <1>1, <1>2
  <2> QED  BY <1>1, <2>1, CellIs
<1>4. Cardinality(Kept) = 0
  BY <1>2, FS_EmptySet
<1> QED  BY <1>2, <1>3, <1>4 DEF KeptInv

LEMMA StepKept == TypeOK /\ KeptInv /\ [Next]_vars => KeptInv'
<1> SUFFICES ASSUME TypeOK, KeptInv, [Next]_vars PROVE KeptInv'
  OBVIOUS
<1>0. /\ Lengths /\ result \in Seq(DiffLine)
      /\ Len(old) \in Nat /\ Len(new) \in Nat /\ Len(result) \in Nat
      /\ i \in 0 .. Len(old) /\ j \in 0 .. Len(new)
  BY DEF TypeOK, Lengths
<1>1. old' = old /\ new' = new
  BY DEF Next, Naive, WalkContext, WalkAdd, WalkDelete, ReverseAndReturn, vars
<1>2. dp' = dp /\ TooLarge' = TooLarge
  BY <1>1 DEF dp, TooLarge
<1>3. Kept = ContextOf(result) /\ Kept' = ContextOf(result')
  BY DEF Kept, ContextOf
<1>4. Cardinality(Kept) \in Nat
  BY <1>0, <1>3, ContextCount
<1>5. CASE Naive
  BY <1>2, <1>5 DEF Naive, KeptInv
<1>6. CASE WalkContext
  <2>1. /\ result' = Append(result, Context(i, j)) /\ i' = i - 1 /\ j' = j - 1 /\ ~TooLarge
        /\ phase' # "done" /\ i \in 1 .. Len(old) /\ j \in 1 .. Len(new) /\ old[i] = new[j]
    BY <1>0, <1>6 DEF WalkContext, Walking, Same
  <2>2. Context(i, j) \in DiffLine /\ Context(i, j).type = "Context"
    BY <1>0, <2>1, DiffLineTypes DEF Context, Lengths
  <2>3. Cardinality(Kept') = Cardinality(Kept) + 1
    BY <1>0, <1>3, <2>1, <2>2, ContextPushed
  <2>4. dp[<<i, j>>] = dp[<<i - 1, j - 1>>] + 1 /\ dp[<<i - 1, j - 1>>] \in Nat
    BY <1>0, <2>1, CellSays
  <2>5. Cardinality(Kept') + dp[<<i - 1, j - 1>>] = Cardinality(Kept) + dp[<<i, j>>]
    BY <1>4, <2>3, <2>4
  <2>6. Cardinality(Kept') + dp[<<i - 1, j - 1>>] = dp[<<Len(old), Len(new)>>]
    BY <2>1, <2>5 DEF KeptInv
  <2> QED  BY <1>1, <1>2, <2>1, <2>6 DEF KeptInv
<1>7. CASE WalkAdd
  <2>1. /\ result' = Append(result, Add(j)) /\ i' = i /\ j' = j - 1 /\ ~TooLarge
        /\ phase' # "done" /\ j \in 1 .. Len(new) /\ ~Same
        /\ i > 0 => dp[<<i, j - 1>>] >= dp[<<i - 1, j>>]
    BY <1>0, <1>7 DEF WalkAdd, Walking, PrefersAdd
  <2>2. Add(j) \in DiffLine /\ Add(j).type # "Context"
    BY <1>0, <2>1, DiffLineTypes DEF Add, Lengths
  <2>3. Cardinality(Kept') = Cardinality(Kept)
    BY <1>0, <1>3, <1>4, <2>1, <2>2, ContextPushed
  <2>4. dp[<<i, j>>] = dp[<<i, j - 1>>]
    <3>1. CASE i = 0
      BY <1>0, <2>1, <3>1, CellIs
    <3>2. CASE i # 0
      <4>1. i \in 1 .. Len(old) /\ old[i] # new[j]
        BY <1>0, <2>1, <3>2 DEF Same
      <4>2. dp[<<i - 1, j>>] \in Nat /\ dp[<<i, j - 1>>] \in Nat
        BY <1>0, <2>1, <4>1, CellSays
      <4>3. dp[<<i, j - 1>>] >= dp[<<i - 1, j>>]
        BY <1>0, <2>1, <4>1, <4>2
      <4> QED  BY <1>0, <2>1, <4>1, <4>2, <4>3, CellSays
    <3> QED  BY <3>1, <3>2
  <2> QED  BY <1>1, <1>2, <2>1, <2>3, <2>4 DEF KeptInv
<1>8. CASE WalkDelete
  <2>1. /\ result' = Append(result, Delete(i)) /\ i' = i - 1 /\ j' = j /\ ~TooLarge
        /\ phase' # "done" /\ i \in 1 .. Len(old) /\ ~Same
        /\ j > 0 => ~(dp[<<i, j - 1>>] >= dp[<<i - 1, j>>])
    BY <1>0, <1>8 DEF WalkDelete, Walking, PrefersAdd
  <2>2. Delete(i) \in DiffLine /\ Delete(i).type # "Context"
    BY <1>0, <2>1, DiffLineTypes DEF Delete, Lengths
  <2>3. Cardinality(Kept') = Cardinality(Kept)
    BY <1>0, <1>3, <1>4, <2>1, <2>2, ContextPushed
  <2>4. dp[<<i, j>>] = dp[<<i - 1, j>>]
    <3>1. CASE j = 0
      <4>1. Lengths /\ i \in 0 .. Len(old) /\ i - 1 \in 0 .. Len(old) /\ 0 \in 0 .. Len(new)
        BY <1>0, <2>1
      <4> QED  BY <3>1, <4>1, CellIs
    <3>2. CASE j # 0
      <4>1. j \in 1 .. Len(new) /\ old[i] # new[j]
        BY <1>0, <2>1, <3>2 DEF Same
      <4>2. dp[<<i - 1, j>>] \in Nat /\ dp[<<i, j - 1>>] \in Nat
        BY <1>0, <2>1, <4>1, CellSays
      <4>3. dp[<<i, j - 1>>] < dp[<<i - 1, j>>]
        <5>1. j > 0
          BY <4>1
        <5>2. ~(dp[<<i, j - 1>>] >= dp[<<i - 1, j>>])
          BY <2>1, <5>1
        <5> QED  BY <4>2, <5>2
      <4>4. i \in 1 .. Len(old) /\ Lengths
        BY <1>0, <2>1
      <4> QED  BY <4>1, <4>3, <4>4, CellSays
    <3> QED  BY <3>1, <3>2
  <2>5. Cardinality(Kept') + dp[<<i', j'>>] = Cardinality(Kept) + dp[<<i, j>>]
    BY <2>1, <2>3, <2>4
  <2> QED  BY <1>1, <1>2, <2>1, <2>5 DEF KeptInv
<1>9. CASE ReverseAndReturn
  <2>1. /\ result' = [k \in 1 .. Len(result) |-> result[Len(result) + 1 - k]]
        /\ i = 0 /\ j = 0 /\ i' = i /\ j' = j
    BY <1>9 DEF ReverseAndReturn
  <2>2. Cardinality(Kept') = Cardinality(Kept)
    BY <1>0, <1>3, <2>1, ContextReversed
  <2> QED  BY <1>1, <1>2, <2>1, <2>2 DEF KeptInv
<1>10. CASE UNCHANGED vars
  BY <1>1, <1>2, <1>3, <1>10 DEF vars, KeptInv
<1> QED  BY <1>5, <1>6, <1>7, <1>8, <1>9, <1>10 DEF Next

\* Unless the table was too large, no lines that stand in the same order in both texts
\* are more than the diff keeps: it deletes and adds as little as can be.
THEOREM DiffIsMinimal == Spec => []DiffIsSmallest
<1>1. Init => IInv /\ KeptInv
  BY InitInv, InitKept DEF IInv
<1>2. IInv /\ KeptInv /\ [Next]_vars => IInv' /\ KeptInv'
  BY StepInv, StepKept DEF IInv
<1>3. IInv /\ KeptInv => DiffIsSmallest
  <2> SUFFICES ASSUME TypeOK, KeptInv, phase = "done", ~TooLarge,
                      NEW P \in SUBSET DOMAIN old, NEW f \in [P -> DOMAIN new], CommonLines(P, f)
               PROVE  Cardinality(P) <= Cardinality(Kept)
    BY DEF IInv, DiffIsSmallest, KeepsMost
  <2>1. Lengths /\ Len(old) \in Nat /\ Len(new) \in Nat
        /\ DOMAIN old = 1 .. Len(old) /\ DOMAIN new = 1 .. Len(new)
    BY DEF TypeOK, Lengths
  <2>2. CommonUpTo(Len(old), Len(new), P, f)
    BY <2>1 DEF CommonLines, CommonUpTo
  <2>3. Cardinality(P) <= dp[<<Len(old), Len(new)>>]
    <3>1. <<Len(old), Len(new)>> \in Cells
      BY <2>1, CellsAre
    <3>2. Bounded(<<Len(old), Len(new)>>)
      BY <2>1, <3>1, NoLongerCommon
    <3>3. \A u, v : <<u, v>>[1] = u /\ <<u, v>>[2] = v
      OBVIOUS
    <3> QED  BY <2>2, <3>2, <3>3 DEF Bounded
  <2>4. dp[<<0, 0>>] = 0
    <3>1. 0 \in 0 .. Len(old) /\ 0 \in 0 .. Len(new)
      BY <2>1
    <3> QED  BY <2>1, <3>1, CellIs
  <2>5. Cardinality(Kept) \in Nat
    <3>1. Kept = ContextOf(result) /\ result \in Seq(DiffLine)
      BY DEF Kept, ContextOf, TypeOK
    <3> QED  BY <3>1, ContextCount
  <2> QED  BY <2>3, <2>4, <2>5 DEF KeptInv
<1> QED  BY <1>1, <1>2, <1>3, PTL DEF Spec

-----------------------------------------------------------------------------
(* A patch tool reads the diff to the end of the old text and writes the new one *)

\* p is the number of the last numbered line among the first k.
UpTo(no, n, k, p) == \A x \in 1 .. n : no[x] # 0 => (x <= k <=> no[x] <= p)

\* The numbers 1 .. len, all, in order, and some lines without one.
Numbers(no, n, len) ==
    /\ \A k \in 1 .. n : no[k] \in 0 .. len
    /\ \A m \in 1 .. len : \E k \in 1 .. n : no[k] = m
    /\ \A k, l \in 1 .. n : k < l /\ no[k] # 0 /\ no[l] # 0 => no[k] < no[l]

Counts(g, no, n, len) ==
    /\ g \in [0 .. n -> 0 .. len] /\ g[0] = 0 /\ g[n] = len
    /\ \A k \in 1 .. n : IF no[k] = 0 THEN g[k] = g[k - 1]
                                      ELSE g[k] = no[k] /\ g[k - 1] = no[k] - 1

\* How many of them the first k lines hold.
LEMMA Counted ==
    ASSUME NEW n \in Nat, NEW len \in Nat, NEW no, Numbers(no, n, len)
    PROVE  \E g : Counts(g, no, n, len)
<1> USE DEF Numbers
<1> DEFINE S == {k \in Nat : k <= n => \E p \in 0 .. len : UpTo(no, n, k, p)}
<1>1. 0 \in S
  BY DEF UpTo
<1>2. ASSUME NEW k \in 1 .. n, no[k] # 0
      PROVE  UpTo(no, n, k, no[k]) /\ UpTo(no, n, k - 1, no[k] - 1)
  <2> SUFFICES ASSUME NEW x \in 1 .. n, no[x] # 0
               PROVE  (x <= k <=> no[x] <= no[k]) /\ (x <= k - 1 <=> no[x] <= no[k] - 1)
    BY DEF UpTo
  <2>1. no[x] \in Nat /\ no[k] \in Nat /\ x \in Nat /\ k \in Nat
    OBVIOUS
  <2>2. (x < k => no[x] < no[k]) /\ (k < x => no[k] < no[x])
    BY <1>2
  <2> QED  BY <2>1, <2>2
<1>3. ASSUME NEW k \in Nat, k \in S PROVE k + 1 \in S
  <2> SUFFICES ASSUME k + 1 <= n PROVE \E p \in 0 .. len : UpTo(no, n, k + 1, p)
    OBVIOUS
  <2>1. PICK p \in 0 .. len : UpTo(no, n, k, p)
    BY <1>3
  <2>2. k + 1 \in 1 .. n /\ no[k + 1] \in 0 .. len
    OBVIOUS
  <2>3. CASE no[k + 1] = 0
    BY <2>1, <2>2, <2>3 DEF UpTo
  <2>4. CASE no[k + 1] # 0
    BY <1>2, <2>2, <2>4
  <2> QED  BY <2>3, <2>4
<1>4. Nat \subseteq S
  <2> HIDE DEF S
  <2> QED  BY <1>1, <1>3, Inductive
<1> DEFINE g == [k \in 0 .. n |-> CHOOSE p \in 0 .. len : UpTo(no, n, k, p)]
<1>5. \A k \in 0 .. n : g[k] \in 0 .. len /\ UpTo(no, n, k, g[k])
  <2> SUFFICES ASSUME NEW k \in 0 .. n PROVE g[k] \in 0 .. len /\ UpTo(no, n, k, g[k])
    OBVIOUS
  <2>1. \E p \in 0 .. len : UpTo(no, n, k, p)
    BY <1>4
  <2> QED  BY <2>1
<1>6. g \in [0 .. n -> 0 .. len]
  BY <1>5
<1> HIDE DEF g, S
<1>7. ASSUME NEW k \in 0 .. n, NEW p \in 0 .. len, UpTo(no, n, k, p) PROVE g[k] = p
  <2>1. ASSUME NEW a \in 0 .. len, NEW b \in 0 .. len, a < b,
               UpTo(no, n, k, a), UpTo(no, n, k, b)
        PROVE  FALSE
    <3>1. a + 1 \in 1 .. len /\ ~(a + 1 <= a) /\ a + 1 <= b /\ a + 1 # 0
      BY <2>1
    <3>2. PICK x \in 1 .. n : no[x] = a + 1
      BY <3>1
    <3> QED  BY <2>1, <3>1, <3>2 DEF UpTo
  <2>2. g[k] \in 0 .. len /\ UpTo(no, n, k, g[k])
    BY <1>5
  <2>3. ~(g[k] < p) /\ ~(p < g[k])
    BY <1>7, <2>1, <2>2
  <2> QED  BY <2>2, <2>3
<1>8. g[0] = 0
  <2>1. UpTo(no, n, 0, 0)
    BY DEF UpTo
  <2> QED  BY <1>7, <2>1
<1>9. g[n] = len
  <2>1. UpTo(no, n, n, len)
    BY DEF UpTo
  <2> QED  BY <1>7, <2>1
<1>10. ASSUME NEW k \in 1 .. n
       PROVE  IF no[k] = 0 THEN g[k] = g[k - 1] ELSE g[k] = no[k] /\ g[k - 1] = no[k] - 1
  <2>0. k \in 0 .. n /\ k - 1 \in 0 .. n
    OBVIOUS
  <2>1. CASE no[k] = 0
    <3>1. UpTo(no, n, k - 1, g[k - 1]) /\ g[k - 1] \in 0 .. len
      BY <1>5, <2>0
    <3>2. UpTo(no, n, k, g[k - 1])
      BY <2>1, <3>1 DEF UpTo
    <3> QED  BY <1>7, <2>0, <2>1, <3>1, <3>2
  <2>2. CASE no[k] # 0
    <3>1. no[k] \in 0 .. len /\ no[k] - 1 \in 0 .. len
      BY <2>2
    <3> QED  BY <1>2, <1>7, <2>0, <2>2, <3>1
  <2> QED  BY <2>1, <2>2
<1> QED  BY <1>6, <1>8, <1>9, <1>10 DEF Counts

\* Two functions that begin with the same value and go on alike are the same.
Alike(f, g, n) == f[0] = g[0] /\ \A k \in 1 .. n : f[k - 1] = g[k - 1] => f[k] = g[k]

LEMMA SameRun ==
    ASSUME NEW n \in Nat, NEW f, NEW g, Alike(f, g, n)
    PROVE  \A k \in 0 .. n : f[k] = g[k]
<1> DEFINE S == {k \in Nat : k <= n => f[k] = g[k]}
<1>1. 0 \in S
  BY DEF Alike
<1>2. ASSUME NEW k \in Nat, k \in S PROVE k + 1 \in S
  <2> SUFFICES ASSUME k + 1 <= n PROVE f[k + 1] = g[k + 1]
    OBVIOUS
  <2>1. k + 1 \in 1 .. n /\ k + 1 - 1 = k /\ f[k] = g[k]
    BY <1>2
  <2> QED  BY <2>1 DEF Alike
<1>3. Nat \subseteq S
  <2> HIDE DEF S
  <2> QED  BY <1>1, <1>2, Inductive
<1> QED  BY <1>3

\* The states of the patch tool are the ones that follow each other.
Run(lines, body, g) ==
    /\ g = [k \in 0 .. Len(body) |-> g[k]]
    /\ g[0] = [ok |-> TRUE, rest |-> lines, out |-> <<>>]
    /\ \A k \in 1 .. Len(body) : g[k] = Take(g[k - 1], body[k])

LEMMA TakenIs ==
    ASSUME NEW lines, NEW body, Len(body) \in Nat, NEW g, Run(lines, body, g)
    PROVE  Taken(lines, body) = g
<1> DEFINE n == Len(body)
           first == [ok |-> TRUE, rest |-> lines, out |-> <<>>]
           T == Taken(lines, body)
           Rule(f) == [k \in 0 .. n |-> IF k = 0 THEN first ELSE Take(f[k - 1], body[k])]
<1> HIDE DEF first
<1>1. T = CHOOSE at : at = Rule(at)
  BY DEF Taken, first
<1>2. g[0] = first /\ \A k \in 1 .. n : g[k] = Take(g[k - 1], body[k])
  BY DEF Run, first
<1>3. n \in Nat /\ g = [k \in 0 .. n |-> g[k]]
  BY DEF Run
<1> HIDE DEF n, T
<1>4. g = Rule(g)
  <2>1. \A k \in 0 .. n : k # 0 => k \in 1 .. n
    BY <1>3
  <2> QED  BY <1>2, <1>3, <2>1
<1>5. T = Rule(T)
  <2> HIDE DEF Rule
  <2> QED  BY <1>1, <1>4
<1>6. T[0] = first /\ \A k \in 1 .. n : T[k] = Take(T[k - 1], body[k])
  <2>1. 0 \in 0 .. n /\ \A k \in 1 .. n : k \in 0 .. n /\ k # 0
    BY <1>3
  <2> QED  BY <1>5, <2>1
<1>7. Alike(T, g, n)
  BY <1>2, <1>6 DEF Alike
<1>8. \A k \in 0 .. n : T[k] = g[k]
  BY <1>3, <1>7, SameRun
<1> QED  BY <1>3, <1>5, <1>8 DEF T

\* The next of the lines that are left, and one line more of those that are written.
LEMMA NextLine ==
    ASSUME NEW E, NEW s \in Seq(E), NEW p \in 1 .. Len(s)
    PROVE  /\ SubSeq(s, p, Len(s)) # <<>> /\ Head(SubSeq(s, p, Len(s))) = s[p]
           /\ Tail(SubSeq(s, p, Len(s))) = SubSeq(s, p + 1, Len(s))
           /\ Append(SubSeq(s, 1, p - 1), s[p]) = SubSeq(s, 1, p)
<1>1. Len(s) \in p .. Len(s) /\ Len(s) \in Nat /\ p \in Int /\ Len(s) \in Int
  OBVIOUS
<1>2. \A x \in p .. Len(s) : s[x] \in E
  OBVIOUS
<1>3. Len(SubSeq(s, p, Len(s))) # 0
  BY <1>1, <1>2, SubSeqProperties
<1>4. SubSeq(s, p, Len(s)) # <<>>
  <2>1. ASSUME NEW r, Len(r) # 0 PROVE r # <<>>
    BY <2>1
  <2> QED  BY <1>3, <2>1
<1>5. /\ Head(SubSeq(s, p, Len(s))) = s[p]
      /\ Tail(SubSeq(s, p, Len(s))) = SubSeq(s, p + 1, Len(s))
  BY <1>1, HeadTailOfSubSeq
<1>6. Append(SubSeq(s, 1, p - 1), s[p]) = SubSeq(s, 1, p)
  <2>1. SubSeq(s, 1, p) = SubSeq(s, 1, p - 1) \o <<s[p]>>
    <3>1. 1 \in 1 .. Len(s) /\ p \in 1 .. Len(s)
      BY <1>1
    <3> QED  BY <3>1, SubSeqRecursiveSecond
  <2>2. SubSeq(s, 1, p - 1) \in Seq(E)
    <3>1. \A x \in 1 .. p - 1 : s[x] \in E
      BY <1>1
    <3> QED  BY <1>1, <3>1, SubSeqProperties
  <2>3. s[p] \in E
    OBVIOUS
  <2> QED  BY <2>1, <2>2, <2>3
<1> QED  BY <1>4, <1>5, <1>6

\* The tool when it has read p old lines and written q new ones.
Tool(p, q) == [ok |-> TRUE, rest |-> SubSeq(old, p + 1, Len(old)), out |-> SubSeq(new, 1, q)]

\* The line takes the tool from a old and b new lines to p and q of them.
IsNext(line, a, p, b, q) ==
    /\ IF line.mark = "Add" THEN a = p
                            ELSE p \in 1 .. Len(old) /\ line.text = old[p] /\ a = p - 1
    /\ IF line.mark = "Delete" THEN b = q
                               ELSE q \in 1 .. Len(new) /\ line.text = new[q] /\ b = q - 1

\* What the tool does with one line that is next in its text.
LEMMA TakesNext ==
    ASSUME NEW a, NEW b, NEW p \in Nat, NEW q \in Nat, NEW line,
           old \in Seq(Line), new \in Seq(Line),
           line.mark \in {"Context", "Add", "Delete"},
           IsNext(line, a, p, b, q)
    PROVE  Take(Tool(a, b), line) = Tool(p, q)
<1> USE DEF IsNext
<1> DEFINE rest == SubSeq(old, a + 1, Len(old))
           out == SubSeq(new, 1, b)
<1>1. line.mark # "Add" =>
         rest # <<>> /\ Head(rest) = line.text /\ Tail(rest) = SubSeq(old, p + 1, Len(old))
  <2> SUFFICES ASSUME line.mark # "Add"
               PROVE  rest # <<>> /\ Head(rest) = line.text
                        /\ Tail(rest) = SubSeq(old, p + 1, Len(old))
    OBVIOUS
  <2>1. a + 1 = p
    OBVIOUS
  <2> QED  BY <2>1, NextLine
<1>2. line.mark # "Delete" => Append(out, line.text) = SubSeq(new, 1, q)
  BY NextLine
<1>3. line.mark = "Add" => rest = SubSeq(old, p + 1, Len(old))
  OBVIOUS
<1>4. line.mark = "Delete" => out = SubSeq(new, 1, q)
  OBVIOUS
<1> HIDE DEF rest, out
<1>5. Take([ok |-> TRUE, rest |-> rest, out |-> out], line)
        = [ok |-> TRUE, rest |-> SubSeq(old, p + 1, Len(old)), out |-> SubSeq(new, 1, q)]
  BY <1>1, <1>2, <1>3, <1>4 DEF Take
<1> QED  BY <1>5 DEF rest, out, Tool

LEMMA PatchReads ==
    ASSUME old \in Seq(Line), new \in Seq(Line), result \in Seq(DiffLine),
           Carries(OldNos(result), result, old), Carries(NewNos(result), result, new),
           Typed(result)
    PROVE  /\ Len(makeUnifiedDiff.body) = Len(result)
           /\ Taken(old, makeUnifiedDiff.body)[Len(result)] = [ok |-> TRUE, rest |-> <<>>, out |-> new]
<1> DEFINE n == Len(result)
           body == makeUnifiedDiff.body
           ono == OldNos(result)
           nno == NewNos(result)
<1>1. /\ n \in Nat /\ DOMAIN result = 1 .. n /\ Len(old) \in Nat /\ Len(new) \in Nat
      /\ DOMAIN old = 1 .. Len(old) /\ DOMAIN new = 1 .. Len(new)
      /\ \A k \in 1 .. n : result[k] \in DiffLine
  OBVIOUS
<1>2. \A k \in 1 .. n : /\ ono[k] = result[k].oldLineNo /\ nno[k] = result[k].newLineNo
                        /\ ono[k] \in Nat /\ nno[k] \in Nat
                        /\ result[k].type \in {"Context", "Add", "Delete"}
  BY <1>1 DEF OldNos, NewNos, DiffLine
<1>3. body = [k \in 1 .. n |-> [mark |-> result[k].type, text |-> result[k].text]]
  BY <1>1 DEF makeUnifiedDiff
<1>4. Len(body) = n /\ \A k \in 1 .. n : body[k].mark = result[k].type /\ body[k].text = result[k].text
  <2> HIDE DEF n, body
  <2> QED  BY <1>1, <1>3
<1>5. \A k \in 1 .. n : /\ ono[k] \in 0 .. Len(old) /\ nno[k] \in 0 .. Len(new)
                        /\ ono[k] # 0 => result[k].text = old[ono[k]]
                        /\ nno[k] # 0 => result[k].text = new[nno[k]]
                        /\ ono[k] = 0 <=> result[k].type = "Add"
                        /\ nno[k] = 0 <=> result[k].type = "Delete"
  <2>1. \A k \in 1 .. n : ono[k] # 0 => ono[k] \in 1 .. Len(old) /\ result[k].text = old[ono[k]]
    BY <1>1 DEF Carries
  <2>2. \A k \in 1 .. n : nno[k] # 0 => nno[k] \in 1 .. Len(new) /\ result[k].text = new[nno[k]]
    BY <1>1 DEF Carries
  <2>3. \A k \in 1 .. n : /\ ono[k] = 0 <=> result[k].type = "Add"
                          /\ nno[k] = 0 <=> result[k].type = "Delete"
    <3> HIDE DEF ono, nno
    <3> QED  BY <1>1, <1>2 DEF Typed
  <2> HIDE DEF ono, nno, n
  <2> QED  BY <1>1, <1>2, <2>1, <2>2, <2>3
<1>6. /\ \A m \in 1 .. Len(old) : \E k \in 1 .. n : ono[k] = m
      /\ \A m \in 1 .. Len(new) : \E k \in 1 .. n : nno[k] = m
      /\ \A k, l \in 1 .. n : k < l /\ ono[k] # 0 /\ ono[l] # 0 => ono[k] < ono[l]
      /\ \A k, l \in 1 .. n : k < l /\ nno[k] # 0 /\ nno[l] # 0 => nno[k] < nno[l]
  BY <1>1 DEF Carries
<1> HIDE DEF n, body, ono, nno
<1>14. Numbers(ono, n, Len(old)) /\ Numbers(nno, n, Len(new))
  BY <1>5, <1>6 DEF Numbers
<1>7. PICK g : Counts(g, ono, n, Len(old))
  BY <1>1, <1>14, Counted
<1>8. PICK h : Counts(h, nno, n, Len(new))
  BY <1>1, <1>14, Counted
<1> DEFINE at == [k \in 0 .. n |-> Tool(g[k], h[k])]
<1>17. \A k \in 0 .. n : at[k] = Tool(g[k], h[k])
  OBVIOUS
<1>9. at[0] = [ok |-> TRUE, rest |-> old, out |-> <<>>]
  <2>1. 0 \in 0 .. n /\ g[0] = 0 /\ h[0] = 0
    BY <1>1, <1>7, <1>8 DEF Counts
  <2>2. at[0] = Tool(0, 0)
    BY <1>17, <2>1
  <2>3. SubSeq(old, 0 + 1, Len(old)) = old /\ SubSeq(new, 1, 0) = <<>>
    BY SubSeqFull, SubSeqEmpty
  <2> QED  BY <2>2, <2>3 DEF Tool
<1>10. ASSUME NEW k \in 1 .. n PROVE at[k] = Take(at[k - 1], body[k])
  <2>1. k \in 0 .. n /\ k - 1 \in 0 .. n
    BY <1>1
  <2>2. at[k] = Tool(g[k], h[k]) /\ at[k - 1] = Tool(g[k - 1], h[k - 1])
    BY <1>17, <2>1
  <2>3. /\ body[k].mark \in {"Context", "Add", "Delete"}
        /\ body[k].mark = "Add" <=> ono[k] = 0
        /\ body[k].mark = "Delete" <=> nno[k] = 0
        /\ ono[k] # 0 => body[k].text = old[ono[k]]
        /\ nno[k] # 0 => body[k].text = new[nno[k]]
        /\ ono[k] \in 0 .. Len(old) /\ nno[k] \in 0 .. Len(new)
    <3>1. body[k].mark = result[k].type /\ body[k].text = result[k].text
      BY <1>4
    <3>2. result[k].type \in {"Context", "Add", "Delete"}
      BY <1>2
    <3> HIDE DEF at
    <3> QED  BY <1>5, <3>1, <3>2
  <2>4. /\ g[k] \in Nat /\ h[k] \in Nat
        /\ ono[k] = 0 => g[k - 1] = g[k]
        /\ ono[k] # 0 => g[k] = ono[k] /\ g[k - 1] = ono[k] - 1
        /\ nno[k] = 0 => h[k - 1] = h[k]
        /\ nno[k] # 0 => h[k] = nno[k] /\ h[k - 1] = nno[k] - 1
    BY <1>1, <1>7, <1>8, <2>1 DEF Counts
  <2>5. /\ ono[k] # 0 => ono[k] \in 1 .. Len(old)
        /\ nno[k] # 0 => nno[k] \in 1 .. Len(new)
    BY <1>1, <2>3
  <2> HIDE DEF at
  <2>6. IsNext(body[k], g[k - 1], g[k], h[k - 1], h[k])
    BY <2>3, <2>4, <2>5 DEF IsNext
  <2>7. body[k].mark \in {"Context", "Add", "Delete"} /\ g[k] \in Nat /\ h[k] \in Nat
    BY <2>3, <2>4
  <2> QED  BY <2>2, <2>6, <2>7, TakesNext
<1>11. Taken(old, body) = at
  <2>1. at = [k \in 0 .. n |-> at[k]]
    OBVIOUS
  <2> HIDE DEF at
  <2>2. Run(old, body, at)
    BY <1>4, <1>9, <1>10, <2>1 DEF Run
  <2> QED  BY <1>1, <1>4, <2>2, TakenIs
<1>12. at[n] = Tool(Len(old), Len(new))
  <2>1. n \in 0 .. n
    BY <1>1
  <2> HIDE DEF at
  <2> QED  BY <1>7, <1>8, <1>17, <2>1 DEF Counts
<1>13. SubSeq(old, Len(old) + 1, Len(old)) = <<>> /\ SubSeq(new, 1, Len(new)) = new
  <2>1. Len(old) + 1 \in Int /\ Len(old) \in Int /\ Len(old) < Len(old) + 1
    BY <1>1
  <2> QED  BY <2>1, SubSeqFull, SubSeqEmpty
<1> HIDE DEF at
<1> QED  BY <1>4, <1>11, <1>12, <1>13 DEF n, body, Tool

-----------------------------------------------------------------------------
(* The lines of a text, joined, are the text *)

LEMMA Least ==
    ASSUME NEW T, T \subseteq Nat, T # {}
    PROVE  \E e \in T : \A d \in T : e <= d
<1> DEFINE R == OpToRel(<, Nat)
<1>1. IsWellFoundedOn(R, Nat)
  BY NatLessThanWellFounded
<1>2. \A x, y \in Nat : x < y => <<x, y>> \in R
  BY DEF OpToRel
<1> HIDE DEF R
<1>3. PICK e \in T : \A d \in T : ~(<<d, e>> \in R)
  BY <1>1, WFMin
<1> SUFFICES ASSUME NEW d \in T PROVE e <= d
  BY <1>3
<1>4. d \in Nat /\ e \in Nat /\ ~(d < e)
  BY <1>2, <1>3
<1> QED  BY <1>4

Below(S, e) == {d \in S : d < e}

\* A finite set of numbers has an n-th one.
LEMMA Ranked ==
    ASSUME NEW S, S \subseteq Nat, IsFiniteSet(S)
    PROVE  \A n \in 1 .. Cardinality(S) : \E e \in S : Cardinality(Below(S, e)) = n - 1
<1> DEFINE Z == {n \in Nat : n < Cardinality(S) => \E e \in S : Cardinality(Below(S, e)) = n}
<1>0. /\ Cardinality(S) \in Nat
      /\ \A T : T \subseteq S => /\ IsFiniteSet(T) /\ Cardinality(T) \in Nat
                                 /\ (Cardinality(T) = Cardinality(S) => T = S)
  <2>1. Cardinality(S) \in Nat
    BY FS_CardinalityType
  <2>2. ASSUME NEW T \in SUBSET S
        PROVE  /\ IsFiniteSet(T) /\ Cardinality(T) \in Nat
               /\ (Cardinality(T) = Cardinality(S) => T = S)
    BY <2>2, FS_Subset, FS_CardinalityType
  <2> QED  BY <2>1, <2>2
<1>1. 0 \in Z
  <2> SUFFICES ASSUME 0 < Cardinality(S) PROVE \E e \in S : Cardinality(Below(S, e)) = 0
    OBVIOUS
  <2>1. S # {}
    BY FS_EmptySet
  <2>2. PICK e \in S : \A d \in S : e <= d
    BY <2>1, Least
  <2>3. Below(S, e) = {}
    <3>1. \A d \in S : d \in Nat /\ e \in Nat /\ e <= d
      BY <2>2
    <3>2. \A d \in S : ~(d < e)
      BY <3>1
    <3> QED  BY <3>2 DEF Below
  <2> QED  BY <2>3, FS_EmptySet
<1>2. ASSUME NEW n \in Nat, n \in Z PROVE n + 1 \in Z
  <2> SUFFICES ASSUME n + 1 < Cardinality(S) PROVE \E e \in S : Cardinality(Below(S, e)) = n + 1
    OBVIOUS
  <2>1. PICK e \in S : Cardinality(Below(S, e)) = n
    BY <1>0, <1>2
  <2> DEFINE B == Below(S, e)
             D == B \cup {e}
  <2>2. B \subseteq S /\ e \notin B
    BY DEF Below
  <2>3. IsFiniteSet(B)
    BY <1>0, <2>2
  <2>4. Cardinality(D) = n + 1
    <3> HIDE DEF B
    <3>1. Cardinality(B) = n
      BY <2>1 DEF B
    <3> QED  BY <2>2, <2>3, <3>1, FS_AddElement
  <2>5. D \subseteq S /\ D # S
    <3>1. Cardinality(D) # Cardinality(S)
      BY <1>0, <2>4
    <3> HIDE DEF D
    <3>2. D # S
      BY <3>1
    <3> QED  BY <2>2, <3>2 DEF D
  <2>6. S \ D \subseteq Nat /\ S \ D # {}
    BY <2>5
  <2> HIDE DEF D
  <2>7. PICK f \in S \ D : \A d \in S \ D : f <= d
    BY <2>6, Least
  <2>8. Below(S, f) = D
    <3>1. \A d \in S : d \in D <=> d <= e
      BY DEF D, Below
    <3>2. f \in Nat /\ e \in Nat /\ e < f
      BY <2>7, <3>1
    <3>3. \A d \in S : d \in D <=> d < f
      <4> SUFFICES ASSUME NEW d \in S PROVE d \in D <=> d < f
        OBVIOUS
      <4>1. d \in Nat
        OBVIOUS
      <4>2. d \notin D => f <= d
        BY <2>7
      <4>3. d \in D => d <= e
        BY <3>1
      <4> QED  BY <3>2, <4>1, <4>2, <4>3
    <3> QED  BY <2>5, <3>3 DEF Below
  <2> QED  BY <2>4, <2>7, <2>8
<1>3. Nat \subseteq Z
  <2> HIDE DEF Z
  <2> QED  BY <1>1, <1>2, Inductive
<1> SUFFICES ASSUME NEW n \in 1 .. Cardinality(S) PROVE \E e \in S : Cardinality(Below(S, e)) = n - 1
  OBVIOUS
<1>4. n - 1 \in Nat /\ n - 1 < Cardinality(S)
  BY <1>0
<1> QED  BY <1>3, <1>4

\* The ends of the lines of a text, in their order: from nothing to the last.
LEMMA EndsInOrder ==
    ASSUME NEW text \in Seq(Chars)
    PROVE  LET N == Cardinality(LineEnds(text))
           IN  /\ N \in Nat
               /\ \A n \in 0 .. N : LineEnd(text, n) \in 0 .. Len(text) + 1
               /\ \A n \in 1 .. N : /\ LineEnd(text, n) \in LineEnds(text)
                                    /\ LineEnd(text, n - 1) < LineEnd(text, n)
               /\ \A e \in LineEnds(text) : e <= LineEnd(text, N)
<1> DEFINE S == LineEnds(text)
           N == Cardinality(S)
           E(n) == LineEnd(text, n)
<1>1. S \subseteq 1 .. Len(text) + 1 /\ S \subseteq Nat /\ Len(text) \in Nat
  BY DEF LineEnds
<1>2. IsFiniteSet(S)
  <2>1. IsFiniteSet(1 .. Len(text) + 1)
    BY <1>1, FS_Interval
  <2> HIDE DEF S
  <2> QED  BY <1>1, <2>1, FS_Subset
<1>3. N \in Nat
  BY <1>2, FS_CardinalityType
<1>4. \A n \in 1 .. N : E(n) \in S /\ Cardinality(Below(S, E(n))) = n - 1
  <2> SUFFICES ASSUME NEW n \in 1 .. N PROVE E(n) \in S /\ Cardinality(Below(S, E(n))) = n - 1
    OBVIOUS
  <2>1. \E e \in S : Cardinality(Below(S, e)) = n - 1
    <3> HIDE DEF S
    <3> QED  BY <1>1, <1>2, Ranked
  <2>2. E(n) = CHOOSE e \in S : Cardinality(Below(S, e)) = n - 1
    <3>1. n # 0
      BY <1>3
    <3>2. E(n) = CHOOSE e \in S : Cardinality({d \in S : d < e}) = n - 1
      BY <3>1 DEF LineEnd
    <3> HIDE DEF S, E
    <3> QED  BY <3>2 DEF Below
  <2> HIDE DEF S, E
  <2> QED  BY <2>1, <2>2
<1>5. E(0) = 0
  BY DEF LineEnd
<1> HIDE DEF S, E, N
<1>9. \A d \in S : d \in Nat /\ d \in 1 .. Len(text) + 1
  BY <1>1
<1>6. ASSUME NEW n \in 1 .. N PROVE E(n - 1) < E(n)
  <2>1. CASE n = 1
    <3>1. E(n) \in 1 .. Len(text) + 1 /\ n - 1 = 0
      BY <1>3, <1>4, <1>9, <2>1
    <3> QED  BY <1>1, <1>5, <3>1
  <2>2. CASE n # 1
    <3>0. n - 1 \in 1 .. N
      BY <1>3, <2>2
    <3>1. E(n - 1) \in Nat /\ E(n) \in Nat
      BY <1>1, <1>4, <3>0
    <3>2. CASE E(n) <= E(n - 1)
      <4>1. Below(S, E(n)) \in SUBSET Below(S, E(n - 1))
        <5>1. \A d \in S : d < E(n) => d < E(n - 1)
          BY <1>9, <3>1, <3>2
        <5> QED  BY <5>1 DEF Below
      <4>2. IsFiniteSet(Below(S, E(n - 1)))
        <5>1. Below(S, E(n - 1)) \in SUBSET S
          BY DEF Below
        <5> QED  BY <1>2, <5>1, FS_Subset
      <4>3. Cardinality(Below(S, E(n))) <= Cardinality(Below(S, E(n - 1)))
        BY <4>1, <4>2, FS_Subset
      <4> QED  BY <1>3, <1>4, <3>0, <4>3
    <3> QED  BY <3>1, <3>2
  <2> QED  BY <2>1, <2>2
<1>7. ASSUME NEW e \in S PROVE e <= E(N)
  <2>1. N # 0
    BY <1>2, FS_EmptySet DEF N
  <2>2. N \in 1 .. N
    BY <1>3, <2>1
  <2> DEFINE B == Below(S, E(N))
             D == B \cup {E(N)}
  <2>3. E(N) \in S /\ Cardinality(B) = N - 1
    BY <1>4, <2>2
  <2>4. B \in SUBSET S /\ E(N) \notin B
    <3>1. ~(E(N) < E(N))
      BY <1>9, <2>3
    <3> QED  BY <3>1 DEF Below
  <2>5. IsFiniteSet(B)
    BY <1>2, <2>4, FS_Subset
  <2> HIDE DEF B
  <2>6. Cardinality(D) = N
    <3>1. Cardinality(D) = Cardinality(B) + 1
      BY <2>4, <2>5, FS_AddElement
    <3> QED  BY <1>3, <2>3, <3>1
  <2>7. D \in SUBSET S
    BY <2>3, <2>4
  <2> HIDE DEF D
  <2>8. S = D
    BY <1>2, <2>6, <2>7, FS_Subset DEF N
  <2>9. \A d \in B : d < E(N)
    BY DEF B, Below
  <2>10. e \in B \/ e = E(N)
    BY <2>8 DEF D
  <2> QED  BY <1>9, <2>3, <2>9, <2>10
<1>8. \A n \in 0 .. N : E(n) \in 0 .. Len(text) + 1
  <2> SUFFICES ASSUME NEW n \in 0 .. N PROVE E(n) \in 0 .. Len(text) + 1
    OBVIOUS
  <2>1. CASE n = 0
    BY <1>1, <1>5, <2>1
  <2>2. CASE n # 0
    <3>1. n \in 1 .. N
      BY <1>3, <2>2
    <3>2. E(n) \in 1 .. Len(text) + 1
      BY <1>4, <1>9, <3>1
    <3> QED  BY <1>1, <3>2
  <2> QED  BY <2>1, <2>2
<1> QED  BY <1>3, <1>4, <1>6, <1>7, <1>8 DEF S, E, N

\* The beginnings of a text that end with its lines.
LEMMA JoinedIs ==
    ASSUME NEW text \in Seq(Chars)
    PROVE  LET lines == splitDiffLines(text)
           IN  /\ Len(lines) = Cardinality(LineEnds(text))
               /\ Joined(lines)[Len(lines)]
                    = SubSeq(Append(text, EOL), 1, LineEnd(text, Len(lines)))
<1> DEFINE lines == splitDiffLines(text)
           N == Cardinality(LineEnds(text))
           T == Append(text, EOL)
           E(n) == LineEnd(text, n)
           J == Joined(lines)
           g == [n \in 0 .. N |-> SubSeq(T, 1, E(n))]
           Rule(f) == [n \in 0 .. N |-> IF n = 0 THEN <<>> ELSE f[n - 1] \o lines[n] \o <<EOL>>]
<1>1. lines = [n \in 1 .. N |-> SubSeq(text, E(n - 1) + 1, E(n) - 1)]
  BY DEF splitDiffLines
<1>2. /\ N \in Nat /\ \A n \in 0 .. N : E(n) \in 0 .. Len(text) + 1
      /\ \A n \in 1 .. N : E(n) \in LineEnds(text) /\ E(n - 1) < E(n)
  BY EndsInOrder
<1>3. E(0) = 0
  BY DEF LineEnd
<1>4. /\ T \in Seq(Chars \cup {EOL}) /\ Len(T) = Len(text) + 1 /\ Len(text) \in Nat
      /\ T[Len(text) + 1] = EOL /\ \A x \in 1 .. Len(text) : T[x] = text[x]
  OBVIOUS
<1>5. \A e \in LineEnds(text) : e \in 1 .. Len(T) /\ T[e] = EOL
  BY <1>4 DEF LineEnds
<1> HIDE DEF lines, N, E
<1>6. Len(lines) = N
  BY <1>1, <1>2
<1>7. J = CHOOSE f : f = Rule(f)
  BY <1>6 DEF Joined
<1> HIDE DEF J, T
<1>8. ASSUME NEW n \in 1 .. N PROVE SubSeq(T, 1, E(n)) = SubSeq(T, 1, E(n - 1)) \o lines[n] \o <<EOL>>
  <2>1. n \in 0 .. N /\ n - 1 \in 0 .. N
    BY <1>2
  <2>2. /\ E(n) \in 1 .. Len(T) /\ T[E(n)] = EOL
        /\ E(n - 1) \in 0 .. Len(T) /\ E(n - 1) < E(n) /\ Len(T) \in Nat
    BY <1>2, <1>4, <1>5, <2>1
  <2>3. lines[n] = SubSeq(text, E(n - 1) + 1, E(n) - 1)
    BY <1>1
  <2>4. lines[n] = SubSeq(T, E(n - 1) + 1, E(n) - 1)
    <3>1. CASE E(n - 1) + 1 > E(n) - 1
      <4>1. /\ E(n - 1) + 1 \in Int /\ E(n) - 1 \in Int /\ E(n) - 1 < E(n - 1) + 1
        BY <2>2, <3>1
      <4> QED  BY <2>3, <4>1, SubSeqEmpty
    <3>2. CASE E(n - 1) + 1 <= E(n) - 1
      <4>1. E(n - 1) + 1 \in 1 .. Len(text) /\ E(n) - 1 \in 1 .. Len(text)
        BY <1>4, <2>2, <3>2
      <4>2. text \in Seq(Chars \cup {EOL}) /\ <<EOL>> \in Seq(Chars \cup {EOL}) /\ T = text \o <<EOL>>
        BY DEF T
      <4> QED  BY <2>3, <4>1, <4>2, SubSeqOfConcat1
    <3> QED  BY <2>2, <3>1, <3>2
  <2>5. SubSeq(T, 1, E(n - 1)) \o SubSeq(T, E(n - 1) + 1, E(n) - 1) = SubSeq(T, 1, E(n) - 1)
    <3>1. 1 \in 1 .. Len(T) + 1 /\ E(n - 1) \in 1 - 1 .. Len(T) /\ E(n) - 1 \in E(n - 1) .. Len(T)
      BY <2>2
    <3> QED  BY <1>4, <3>1, ConcatAdjacentSubSeq
  <2>6. SubSeq(T, 1, E(n)) = SubSeq(T, 1, E(n) - 1) \o <<T[E(n)]>>
    <3>1. 1 \in 1 .. Len(T) /\ E(n) \in 1 .. Len(T)
      BY <2>2
    <3> QED  BY <1>4, <3>1, SubSeqRecursiveSecond
  <2> QED  BY <2>2, <2>4, <2>5, <2>6
<1>9. g[0] = <<>> /\ \A n \in 1 .. N : g[n] = g[n - 1] \o lines[n] \o <<EOL>>
  <2>1. 0 \in 0 .. N /\ \A n \in 1 .. N : n \in 0 .. N /\ n - 1 \in 0 .. N
    BY <1>2
  <2>2. SubSeq(T, 1, 0) = <<>>
    BY SubSeqEmpty
  <2> QED  BY <1>3, <1>8, <2>1, <2>2
<1>10. g = [n \in 0 .. N |-> g[n]]
  OBVIOUS
<1>11. g[N] = SubSeq(T, 1, E(N))
  BY <1>2
<1> HIDE DEF g
<1>12. g = Rule(g)
  <2>1. \A n \in 0 .. N : n # 0 => n \in 1 .. N
    BY <1>2
  <2> QED  BY <1>9, <1>10, <2>1
<1>13. J = Rule(J)
  <2> HIDE DEF Rule
  <2> QED  BY <1>7, <1>12
<1>14. J[0] = <<>> /\ \A n \in 1 .. N : J[n] = J[n - 1] \o lines[n] \o <<EOL>>
  <2>1. 0 \in 0 .. N /\ \A n \in 1 .. N : n \in 0 .. N /\ n # 0
    BY <1>2
  <2> QED  BY <1>13, <2>1
<1>15. Alike(J, g, N)
  BY <1>9, <1>14 DEF Alike
<1>16. J[N] = g[N]
  <2>1. N \in 0 .. N
    BY <1>2
  <2> QED  BY <1>2, <1>15, <2>1, SameRun
<1> QED  BY <1>6, <1>11, <1>16 DEF lines, N, E, J, T

LEMMA JoinedIsText ==
    ASSUME NEW text \in Seq(Chars)
    PROVE  LET lines == splitDiffLines(text)
           IN  Joined(lines)[Len(lines)] \in {text, Append(text, EOL)}
<1> DEFINE N == Cardinality(LineEnds(text))
           T == Append(text, EOL)
           e == LineEnd(text, N)
<1>1. Len(splitDiffLines(text)) = N /\ Joined(splitDiffLines(text))[N] = SubSeq(T, 1, e)
  BY JoinedIs
<1>2. /\ N \in Nat /\ e \in 0 .. Len(text) + 1 /\ (N # 0 => e \in LineEnds(text))
      /\ \A d \in LineEnds(text) : d <= e
  <2>1. N \in 0 .. N /\ (N # 0 => N \in 1 .. N)
    BY EndsInOrder
  <2> HIDE DEF N
  <2> QED  BY <2>1, EndsInOrder DEF N
<1>3. T \in Seq(Chars \cup {EOL}) /\ Len(T) = Len(text) + 1 /\ Len(text) \in Nat /\ T = text \o <<EOL>>
  OBVIOUS
<1>4. text # <<>> => e \in {Len(text), Len(text) + 1}
  <2>1. text # <<>> => Len(text) \in LineEnds(text) \/ Len(text) + 1 \in LineEnds(text)
    BY <1>3 DEF LineEnds
  <2> HIDE DEF e
  <2> QED  BY <1>2, <1>3, <2>1
<1>5. text = <<>> => e = 0
  <2>1. text = <<>> => LineEnds(text) = {}
    BY DEF LineEnds
  <2>2. text = <<>> => N = 0
    BY <2>1, FS_EmptySet
  <2> QED  BY <2>2 DEF LineEnd
<1> HIDE DEF N, T, e
<1>6. CASE e = Len(text)
  <2>1. SubSeq(T, 1, e) = text
    <3>1. CASE text = <<>>
      BY <1>5, <3>1, SubSeqEmpty
    <3>2. CASE text # <<>>
      <4>1. 1 \in 1 .. Len(text) /\ Len(text) \in 1 .. Len(text)
        BY <1>3, <3>2
      <4>2. text \in Seq(Chars \cup {EOL}) /\ <<EOL>> \in Seq(Chars \cup {EOL})
        OBVIOUS
      <4> QED  BY <1>3, <1>6, <4>1, <4>2, SubSeqOfConcat1, SubSeqFull
    <3> QED  BY <3>1, <3>2
  <2> QED  BY <1>1, <2>1
<1>7. CASE e = Len(text) + 1
  <2>1. SubSeq(T, 1, e) = T
    BY <1>3, <1>7, SubSeqFull
  <2> QED  BY <1>1, <2>1 DEF T
<1>8. e = Len(text) \/ e = Len(text) + 1
  <2>1. text = <<>> => Len(text) = 0
    OBVIOUS
  <2> QED  BY <1>4, <1>5, <2>1
<1> QED  BY <1>6, <1>7, <1>8

\* A text that is not empty has lines.
LEMMA HasLines ==
    ASSUME NEW text \in Seq(Chars), text # <<>>
    PROVE  Len(splitDiffLines(text)) # 0
<1> DEFINE N == Cardinality(LineEnds(text))
<1>1. Len(splitDiffLines(text)) = N
  BY JoinedIs
<1>2. Len(text) \in LineEnds(text) \/ Len(text) + 1 \in LineEnds(text)
  BY DEF LineEnds
<1>3. \A e \in LineEnds(text) : e <= LineEnd(text, N)
  BY EndsInOrder
<1>4. Len(text) \in Nat \ {0}
  OBVIOUS
<1>5. N = 0 => LineEnd(text, N) = 0
  BY DEF LineEnd
<1> HIDE DEF N
<1> QED  BY <1>1, <1>2, <1>3, <1>4, <1>5

\* The lines are those of the arguments.
SplitInv ==
    /\ oldText \in Seq(Chars) /\ newText \in Seq(Chars)
    /\ old = splitDiffLines(oldText) /\ new = splitDiffLines(newText)

\* makeUnifiedDiff: a patch tool that reads the hunk finds each context and deleted line
\* where it expects it, comes to the end of the old text, and has written the new text, with
\* a newline at its end; of a side that has lines, the header names the first and their
\* number.
THEOREM PatchApplies == Spec => []PatchIsExact
<1>1. Init => IInv /\ SplitInv
  BY InitInv, DiffAssumption DEF Init, SplitInv
<1>2. IInv /\ SplitInv /\ [Next]_vars => IInv' /\ SplitInv'
  <2>1. [Next]_vars => UNCHANGED <<oldText, newText, old, new>>
    BY DEF Next, Naive, WalkContext, WalkAdd, WalkDelete, ReverseAndReturn, vars
  <2>2. SplitInv /\ UNCHANGED <<oldText, newText, old, new>> => SplitInv'
    BY DEF SplitInv, splitDiffLines, LineEnds, LineEnd
  <2> QED  BY <2>1, <2>2, StepInv
<1>3. IInv /\ SplitInv => PatchIsExact
  <2> SUFFICES ASSUME IInv, SplitInv, phase = "done"
               PROVE  /\ Patch.ok
                      /\ Joined(Patch.out)[Len(Patch.out)] \in {newText, Append(newText, EOL)}
                      /\ oldText # <<>> => Patch.oldFits
                      /\ newText # <<>> => Patch.newFits
    BY DEF PatchIsExact
  <2> DEFINE end == Taken(old, makeUnifiedDiff.body)[Len(makeUnifiedDiff.body)]
             oldFits == Spans(1, Len(old), Len(old))
             newFits == Spans(1, Len(new), Len(end.out))
  <2>1. /\ old \in Seq(Line) /\ new \in Seq(Line) /\ result \in Seq(DiffLine)
        /\ Carries(OldNos(result), result, old) /\ Carries(NewNos(result), result, new)
        /\ Typed(result)
    BY DEF IInv, TypeOK, DiffTransforms
  <2>2. end = [ok |-> TRUE, rest |-> <<>>, out |-> new]
    BY <2>1, PatchReads
  <2>3. /\ makeUnifiedDiff.oldStart = 1 /\ makeUnifiedDiff.oldCount = Len(old)
        /\ makeUnifiedDiff.newStart = 1 /\ makeUnifiedDiff.newCount = Len(new)
    BY DEF makeUnifiedDiff
  <2>4. Patch = [ok |-> end.ok /\ end.rest = <<>>, oldFits |-> oldFits, newFits |-> newFits,
                 out |-> end.out]
    BY <2>3 DEF Patched, Patch, SplitInv
  <2> HIDE DEF end
  <2>5. Patch.out = new /\ end.ok = TRUE /\ end.rest = <<>> /\ end.out = new
    BY <2>2, <2>4
  <2>6. oldText # <<>> => oldFits
    BY HasLines DEF SplitInv, Spans
  <2>7. newText # <<>> => newFits
    BY <2>5, HasLines DEF SplitInv, Spans
  <2> HIDE DEF oldFits, newFits
  <2>8. Patch.ok /\ Patch.oldFits = oldFits /\ Patch.newFits = newFits
    BY <2>4, <2>5
  <2>9. Joined(new)[Len(new)] \in {newText, Append(newText, EOL)}
    BY JoinedIsText DEF SplitInv
  <2> QED  BY <2>5, <2>6, <2>7, <2>8, <2>9
<1> QED  BY <1>1, <1>2, <1>3, PTL DEF Spec
=============================================================================
