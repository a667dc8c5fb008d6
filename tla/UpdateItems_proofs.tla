-------------------------- MODULE UpdateItems_proofs --------------------------
(***************************************************************************)
(* What holds of updateItems for every list, every memory and every set of *)
(* tables.                                                                 *)
(***************************************************************************)
EXTENDS UpdateItems, SequenceTheorems, TLAPS

-----------------------------------------------------------------------------
(* Sequences: where the rows are after an insertion, a move and a cut. *)

\* A row inserted pushes those from its place on one row down.
LEMMA InsertAtRows ==
    ASSUME NEW S, NEW s \in Seq(S), NEW i \in 1 .. Len(s) + 1, NEW e \in S
    PROVE  /\ InsertAt(s, i, e) \in Seq(S)
           /\ Len(InsertAt(s, i, e)) = Len(s) + 1
           /\ \A j \in 1 .. Len(s) + 1 :
                 InsertAt(s, i, e)[j] = IF j < i THEN s[j]
                                        ELSE IF j = i THEN e ELSE s[j - 1]
  <1> DEFINE u == SubSeq(s, 1, i - 1)
             w == SubSeq(s, i, Len(s))
  <1>1. /\ u \in Seq(S) /\ Len(u) = i - 1
        /\ \A j \in 1 .. i - 1 : u[j] = s[j]
    OBVIOUS
  <1>2. /\ w \in Seq(S) /\ Len(w) = Len(s) - i + 1
        /\ \A j \in 1 .. Len(s) - i + 1 : w[j] = s[i + j - 1]
    OBVIOUS
  <1> HIDE DEF u, w
  <1>3. /\ u \o <<e>> \in Seq(S) /\ Len(u \o <<e>>) = i
        /\ \A j \in 1 .. i : (u \o <<e>>)[j] = IF j < i THEN s[j] ELSE e
    BY <1>1
  <1> DEFINE v == u \o <<e>>
  <1> HIDE DEF v
  <1>4. /\ v \in Seq(S) /\ Len(v) = i
        /\ \A j \in 1 .. i : v[j] = IF j < i THEN s[j] ELSE e
    BY <1>3 DEF v
  <1>5. /\ v \o w \in Seq(S) /\ Len(v \o w) = Len(v) + Len(w)
        /\ \A j \in 1 .. Len(v) + Len(w) :
              (v \o w)[j] = IF j <= Len(v) THEN v[j] ELSE w[j - Len(v)]
    BY <1>2, <1>4, ConcatProperties
  <1>6. InsertAt(s, i, e) = v \o w
    BY DEF InsertAt, u, v, w
  <1>7. Len(s) \in Nat /\ i \in Nat /\ Len(v) + Len(w) = Len(s) + 1
    BY <1>2, <1>4
  <1>8. ASSUME NEW j \in 1 .. Len(s) + 1
        PROVE  (v \o w)[j] = IF j < i THEN s[j]
                              ELSE IF j = i THEN e ELSE s[j - 1]
    <2>1. CASE j <= i
      BY <1>4, <1>5, <1>7, <2>1
    <2>2. CASE j > i
      <3>1. (v \o w)[j] = w[j - i] /\ j - i \in 1 .. Len(s) - i + 1
        BY <1>4, <1>5, <1>7, <2>2
      <3>2. w[j - i] = s[i + (j - i) - 1]
        BY <1>2, <3>1
      <3> QED
        BY <1>7, <2>2, <3>1, <3>2
    <2> QED
      BY <1>7, <2>1, <2>2
  <1> QED
    BY <1>5, <1>6, <1>7, <1>8

\* A row removed pulls those after it one row up.
LEMMA RemoveAtRows ==
    ASSUME NEW S, NEW s \in Seq(S), NEW i \in 1 .. Len(s)
    PROVE  /\ RemoveAt(s, i) \in Seq(S)
           /\ Len(RemoveAt(s, i)) = Len(s) - 1
           /\ \A j \in 1 .. Len(s) - 1 :
                 RemoveAt(s, i)[j] = IF j < i THEN s[j] ELSE s[j + 1]
  <1> DEFINE u == SubSeq(s, 1, i - 1)
             w == SubSeq(s, i + 1, Len(s))
  <1>1. /\ u \in Seq(S) /\ Len(u) = i - 1
        /\ \A j \in 1 .. i - 1 : u[j] = s[j]
    OBVIOUS
  <1>2. /\ w \in Seq(S) /\ Len(w) = Len(s) - i
        /\ \A j \in 1 .. Len(s) - i : w[j] = s[i + j]
    OBVIOUS
  <1>3. RemoveAt(s, i) = u \o w
    BY DEF RemoveAt
  <1> HIDE DEF u, w
  <1>4. /\ u \o w \in Seq(S) /\ Len(u \o w) = Len(u) + Len(w)
        /\ \A j \in 1 .. Len(u) + Len(w) :
              (u \o w)[j] = IF j <= Len(u) THEN u[j] ELSE w[j - Len(u)]
    BY <1>1, <1>2, ConcatProperties
  <1>5. Len(s) \in Nat /\ i \in Nat /\ Len(u) + Len(w) = Len(s) - 1
    BY <1>1, <1>2
  <1>6. ASSUME NEW j \in 1 .. Len(s) - 1
        PROVE  (u \o w)[j] = IF j < i THEN s[j] ELSE s[j + 1]
    <2>1. CASE j < i
      BY <1>1, <1>4, <1>5, <2>1
    <2>2. CASE j >= i
      <3>1. /\ (u \o w)[j] = w[j - (i - 1)]
            /\ j - (i - 1) \in 1 .. Len(s) - i
        BY <1>1, <1>4, <1>5, <2>2
      <3>2. w[j - (i - 1)] = s[i + (j - (i - 1))]
        BY <1>2, <3>1
      <3>3. i + (j - (i - 1)) = j + 1 /\ ~(j < i)
        BY <1>5, <2>2
      <3> QED
        BY ONLY <3>1, <3>2, <3>3
    <2> QED
      BY <1>5, <2>1, <2>2
  <1> QED
    BY <1>3, <1>4, <1>5, <1>6

\* A row moved up changes the places between its old one and its new one.
LEMMA MoveToRows ==
    ASSUME NEW S, NEW s \in Seq(S), NEW from \in 1 .. Len(s),
           NEW to \in 1 .. Len(s), to < from
    PROVE  /\ MoveTo(s, from, to) \in Seq(S)
           /\ Len(MoveTo(s, from, to)) = Len(s)
           /\ \A j \in 1 .. Len(s) :
                 MoveTo(s, from, to)[j] = IF j < to \/ j > from THEN s[j]
                                          ELSE IF j = to THEN s[from]
                                          ELSE s[j - 1]
  <1> DEFINE r == RemoveAt(s, from)
  <1>1. /\ r \in Seq(S)
        /\ Len(r) = Len(s) - 1
        /\ \A j \in 1 .. Len(s) - 1 :
              r[j] = IF j < from THEN s[j] ELSE s[j + 1]
    BY RemoveAtRows
  <1> DEFINE x == s[from]
  <1>2. x \in S /\ to \in 1 .. Len(r) + 1 /\ Len(r) \in Nat
    BY <1>1
  <1> HIDE DEF r, x
  <1>3. /\ InsertAt(r, to, x) \in Seq(S)
        /\ Len(InsertAt(r, to, x)) = Len(r) + 1
        /\ \A j \in 1 .. Len(r) + 1 :
              InsertAt(r, to, x)[j] =
                IF j < to THEN r[j] ELSE IF j = to THEN x ELSE r[j - 1]
    <2>1. r \in Seq(S)
      BY <1>1
    <2> QED
      BY <1>2, <2>1, InsertAtRows
  <1>4. MoveTo(s, from, to) = InsertAt(r, to, x)
    BY DEF MoveTo, r, x
  <1>5. Len(s) \in Nat /\ from \in Nat /\ to \in Nat /\ Len(r) + 1 = Len(s)
    BY <1>1
  <1>6. ASSUME NEW j \in 1 .. Len(s)
        PROVE  InsertAt(r, to, x)[j] = IF j < to \/ j > from THEN s[j]
                                       ELSE IF j = to THEN s[from]
                                       ELSE s[j - 1]
    <2>1. CASE j < to
      <3>1. InsertAt(r, to, x)[j] = r[j] /\ j \in 1 .. Len(s) - 1 /\ j < from
        BY <1>3, <1>5, <2>1
      <3>2. r[j] = s[j]
        BY <1>1, <3>1
      <3> QED
        BY <2>1, <3>1, <3>2
    <2>2. CASE j = to
      BY <1>3, <1>5, <2>2 DEF x
    <2>3. CASE j > to
      <3>1. InsertAt(r, to, x)[j] = r[j - 1] /\ j - 1 \in 1 .. Len(s) - 1
        BY <1>3, <1>5, <2>3
      <3>2. r[j - 1] = IF j - 1 < from THEN s[j - 1] ELSE s[(j - 1) + 1]
        BY <1>1, <3>1
      <3> QED
        BY <1>5, <2>3, <3>1, <3>2
    <2> QED
      BY <1>5, <2>1, <2>2, <2>3
  <1> QED
    BY <1>3, <1>4, <1>5, <1>6

-----------------------------------------------------------------------------
(* The inductive invariant. *)

\* The first n rows have the ids of the reply, as far as there are rows.
Matched(n) ==
    \A i \in 1 .. n : i <= Len(items) => items[i].id = reply[i].id

IdsInv ==
    pc = "ids" =>
        /\ row <= Len(reply) + 1
        /\ Matched(row - 1)
        /\ before \subseteq IdsOf(items)

DataInv ==
    pc = "data" =>
        /\ Len(items) <= Len(reply)
        /\ row <= Len(items) + 1
        /\ Matched(Len(items))
        /\ \A i \in 1 .. row - 1 : items[i] = reply[i]
        /\ Len(items) < Len(reply) => before \subseteq IdsOf(items)

IInv ==
    /\ UpdateTypeOK
    /\ ViewFollows
    /\ Unique(items)
    /\ IdsInv
    /\ DataInv
    /\ FailsOnlyOnGrowth

\* No list of the server names a table twice, nor does newItems.
LEMMA ReplyUnique ==
    ASSUME UpdateTypeOK
    PROVE  reply \in Seq(Row) /\ Len(reply) \in Nat /\ Unique(reply)
  <1>1. CASE reply \in Lists
    BY <1>1, UpdateAssumption
  <1>2. CASE reply = << >>
    BY <1>2 DEF Unique
  <1> QED
    BY <1>1, <1>2 DEF UpdateTypeOK

\* The ids of a list are tables', and what is left past a cut is ids.
LEMMA RowIds ==
    ASSUME NEW list \in Seq(Row)
    PROVE  /\ \A i \in 1 .. Len(list) : list[i].id \in Ids
           /\ IdsOf(list) \subseteq Ids
  <1>1. ASSUME NEW i \in 1 .. Len(list) PROVE list[i].id \in Ids
    <2>1. list[i] \in Row
      OBVIOUS
    <2> QED
      BY <2>1 DEF Row
  <1> QED
    BY <1>1 DEF IdsOf

LEMMA UncoveredIds ==
    ASSUME items \in Seq(Row), past \in Seq(Ids), NEW n \in 0 .. Len(items)
    PROVE  Uncovered(n) \in Seq(Ids)
  <1> DEFINE k == Len(items) - n
             cut == [i \in 1 .. k |-> items[n + i].id]
  <1>1. k \in Nat
    OBVIOUS
  <1>2. ASSUME NEW i \in 1 .. k PROVE items[n + i].id \in Ids
    <2>1. n + i \in 1 .. Len(items)
      OBVIOUS
    <2> QED
      BY <2>1, RowIds
  <1> HIDE DEF k
  <1>3. cut \in [1 .. k -> Ids]
    BY <1>2
  <1>4. cut \in Seq(Ids)
    <2> HIDE DEF cut
    <2> QED
      BY ONLY <1>1, <1>3, SeqDef
  <1>5. Uncovered(n) = cut \o past
    BY DEF Uncovered, k
  <1> HIDE DEF cut
  <1> QED
    BY <1>4, <1>5, ConcatProperties

LEMMA CoveredIds ==
    ASSUME past \in Seq(Ids), NEW n \in Nat
    PROVE  Covered(n) \in Seq(Ids)
  BY DEF Covered

\* A table that is looked for and found elsewhere is below the row.
LEMMA FoundBelow ==
    ASSUME IInv, pc = "ids", row <= Len(reply), Read # {Target},
           NEW from \in Found
    PROVE  /\ from \in 1 .. Len(items) /\ row \in 1 .. Len(items)
           /\ row < from /\ items[from].id = reply[row].id
  <1>1. /\ items \in Seq(Row) /\ row \in Nat \ {0}
        /\ from \in 1 .. Len(items) /\ items[from].id = reply[row].id
    BY DEF IInv, UpdateTypeOK, Found, Target
  <1>2. reply \in Seq(Row) /\ Len(reply) \in Nat /\ Unique(reply)
    BY ReplyUnique DEF IInv
  <1>3. ASSUME from < row PROVE FALSE
    <2>1. items[from].id = reply[from].id
      BY <1>1, <1>3 DEF IInv, IdsInv, Matched
    <2>2. from \in 1 .. Len(reply) /\ row \in 1 .. Len(reply)
      BY <1>1, <1>2, <1>3
    <2>3. reply[from].id = reply[row].id => from = row
      BY <1>2, <2>2 DEF Unique
    <2> QED
      BY <1>1, <1>3, <2>1, <2>3
  <1>4. ASSUME from = row PROVE FALSE
    BY <1>1, <1>4 DEF Read, Target
  <1> QED
    BY <1>1, <1>3, <1>4

LEMMA InitIInv == Init => IInv
  BY DEF Init, IInv, UpdateTypeOK, ViewFollows, Unique, IdsInv, DataInv,
         FailsOnlyOnGrowth, IdsOf

\* What an update does first.
LEMMA BeginInv == IInv /\ updateData => IInv'
  <1> SUFFICES ASSUME IInv, NEW list \in Lists,
                      Reset(list) \/ RemoveAll(list) \/ Compare(list)
               PROVE  IInv'
    BY DEF updateData
  <1>1. /\ items \in Seq(Row) /\ Unique(items) /\ view = items
        /\ past \in Seq(Ids)
        /\ pc = "idle" /\ reply' = list /\ before' = IdsOf(items) /\ row' = 1
    BY DEF IInv, UpdateTypeOK, ViewFollows, Reset, RemoveAll, Compare, Begin
  <1>2. list \in Seq(Row) /\ Unique(list) /\ Len(list) \in Nat
    BY UpdateAssumption
  <1>3. IdsOf(items) \subseteq Ids
    BY <1>1, RowIds
  <1>4. CASE Reset(list)
    <2>1. items' = list /\ view' = list /\ pc' = "ids" /\ past' \in Seq(Ids)
      BY <1>1, <1>2, <1>4, CoveredIds DEF Reset
    <2>2. before' = {}
      BY <1>1, <1>4 DEF Reset, IdsOf
    <2> QED
      BY <1>1, <1>2, <2>1, <2>2 DEF IInv, UpdateTypeOK, ViewFollows, Unique,
         IdsInv, DataInv, FailsOnlyOnGrowth, Matched
  <1>5. CASE RemoveAll(list)
    <2>1. items' = << >> /\ view' = << >> /\ pc' = "idle"
      BY <1>1, <1>5 DEF RemoveAll
    <2>2. past' \in Seq(Ids)
      <3>1. 0 \in 0 .. Len(items)
        BY <1>1
      <3> QED
        BY <1>1, <1>5, <3>1, UncoveredIds DEF RemoveAll
    <2> QED
      BY <1>1, <1>2, <1>3, <2>1, <2>2 DEF IInv, UpdateTypeOK, ViewFollows,
         Unique, IdsInv, DataInv, FailsOnlyOnGrowth
  <1>6. CASE Compare(list)
    <2>1. UNCHANGED <<items, past, view>> /\ pc' = "ids"
      BY <1>6 DEF Compare
    <2> QED
      BY <1>1, <1>2, <1>3, <2>1 DEF IInv, UpdateTypeOK, ViewFollows, Unique,
         IdsInv, DataInv, FailsOnlyOnGrowth, Matched, IdsOf
  <1> QED
    BY <1>4, <1>5, <1>6

\* A row is inserted where the reply has it.
LEMMA InsertInv ==
    ASSUME IInv, pc = "ids", row <= Len(reply), Insert,
           row' = row + 1, UNCHANGED <<reply, before>>
    PROVE  IInv' /\ IdsOf(items) \subseteq IdsOf(items')
  <1>1. /\ items \in Seq(Row) /\ Len(items) \in Nat /\ Unique(items)
        /\ view = items /\ past \in Seq(Ids)
        /\ row \in 1 .. Len(items) + 1
    BY DEF IInv, UpdateTypeOK, ViewFollows, Insert
  <1>2. reply \in Seq(Row) /\ Len(reply) \in Nat /\ Unique(reply)
    BY ReplyUnique DEF IInv
  <1>3. row \in 1 .. Len(reply) /\ reply[row] \in Row
    BY <1>1, <1>2
  <1>4. /\ items' \in Seq(Row) /\ Len(items') = Len(items) + 1
        /\ \A j \in 1 .. Len(items) + 1 :
              items'[j] = IF j < row THEN items[j]
                          ELSE IF j = row THEN reply[row] ELSE items[j - 1]
    <2> DEFINE x == reply[row]
    <2>1. items' = InsertAt(items, row, x) /\ x \in Row
      BY <1>3 DEF Insert
    <2> HIDE DEF x
    <2>2. items \in Seq(Row) /\ row \in 1 .. Len(items) + 1 /\ x \in Row
      BY <1>1, <2>1
    <2>3. /\ InsertAt(items, row, x) \in Seq(Row)
          /\ Len(InsertAt(items, row, x)) = Len(items) + 1
          /\ \A j \in 1 .. Len(items) + 1 :
                InsertAt(items, row, x)[j] =
                  IF j < row THEN items[j]
                  ELSE IF j = row THEN x ELSE items[j - 1]
      BY ONLY <2>2, InsertAtRows
    <2> QED
      BY <2>1, <2>3 DEF x
  <1>5. view' = items' /\ pc' = "ids" /\ past' \in Seq(Ids)
    <2>1. items'[row] = reply[row]
      BY <1>1, <1>4
    <2>2. past' = Covered(1) /\ pc' = pc
      BY DEF Insert
    <2>3. past' \in Seq(Ids)
      BY <1>1, <2>2, CoveredIds
    <2> QED
      BY <1>1, <2>1, <2>2, <2>3 DEF Insert
  <1>6. \A i \in 1 .. Len(items) : items[i].id # reply[row].id
    BY DEF Insert, Found, Target
  <1>7. Unique(items')
    <2> SUFFICES ASSUME NEW i \in 1 .. Len(items'), NEW j \in 1 .. Len(items'),
                        items'[i].id = items'[j].id
                 PROVE  i = j
      BY DEF Unique
    <2> DEFINE old(k) == IF k < row THEN k ELSE k - 1
    <2>1. ASSUME NEW k \in 1 .. Len(items'), k # row
          PROVE  old(k) \in 1 .. Len(items) /\ items'[k] = items[old(k)]
      BY <1>1, <1>4, <2>1
    <2>2. items'[row] = reply[row] /\ row \in 1 .. Len(items')
      BY <1>1, <1>4
    <2>3. CASE i = row \/ j = row
      <3>1. ASSUME NEW k \in 1 .. Len(items'), k # row
            PROVE  items'[k].id # items'[row].id
        <4>1. items'[k] = items[old(k)] /\ old(k) \in 1 .. Len(items)
          BY <2>1, <3>1
        <4> HIDE DEF old
        <4> QED
          BY ONLY <1>6, <2>2, <4>1
      <3> HIDE DEF old
      <3> QED
        BY <2>2, <2>3, <3>1
    <2>4. CASE i # row /\ j # row
      <3>1. /\ old(i) \in 1 .. Len(items) /\ items'[i] = items[old(i)]
            /\ old(j) \in 1 .. Len(items) /\ items'[j] = items[old(j)]
        BY <2>1, <2>4
      <3>2. old(i) = old(j)
        <4> HIDE DEF old
        <4> QED
          BY <1>1, <3>1 DEF Unique
      <3> QED
        BY <1>1, <1>4, <2>4, <3>2
    <2> QED
      BY <2>3, <2>4
  <1>8. IdsOf(items) \subseteq IdsOf(items')
    <2> SUFFICES ASSUME NEW i \in 1 .. Len(items)
                 PROVE  items[i].id \in IdsOf(items')
      BY DEF IdsOf
    <2> DEFINE new == IF i < row THEN i ELSE i + 1
    <2>1. new \in 1 .. Len(items') /\ items'[new] = items[i]
      BY <1>1, <1>4
    <2> QED
      BY <2>1 DEF IdsOf
  <1>9. ASSUME NEW i \in 1 .. row, i <= Len(items')
        PROVE  items'[i].id = reply[i].id
    <2>1. CASE i = row
      BY <1>1, <1>4, <2>1
    <2>2. CASE i < row
      <3>1. i \in 1 .. row - 1 /\ i <= Len(items) /\ items'[i] = items[i]
        BY <1>1, <1>4, <2>2
      <3> QED
        BY <3>1 DEF IInv, IdsInv, Matched
    <2> QED
      BY <1>1, <2>1, <2>2
  <1>10. IdsInv'
    <2>1. before' \subseteq IdsOf(items')
      BY <1>8 DEF IInv, IdsInv
    <2>2. row' <= Len(reply') + 1 /\ row' - 1 = row
      BY <1>1, <1>2
    <2> QED
      BY <1>9, <2>1, <2>2 DEF IdsInv, Matched
  <1> QED
    BY <1>1, <1>2, <1>4, <1>5, <1>7, <1>8, <1>10
       DEF IInv, UpdateTypeOK, ViewFollows, DataInv, FailsOnlyOnGrowth

\* A row is moved up to where the reply has it.
LEMMA MoveInv ==
    ASSUME IInv, pc = "ids", row <= Len(reply), Move,
           row' = row + 1, UNCHANGED <<reply, before>>
    PROVE  IInv' /\ IdsOf(items) \subseteq IdsOf(items')
  <1>1. /\ items \in Seq(Row) /\ Len(items) \in Nat /\ Unique(items)
        /\ view = items /\ past \in Seq(Ids)
        /\ UNCHANGED <<past, pc>>
    BY DEF IInv, UpdateTypeOK, ViewFollows, Move
  <1>2. reply \in Seq(Row) /\ Len(reply) \in Nat /\ Unique(reply)
    BY ReplyUnique DEF IInv
  <1>3. PICK from \in Found :
           items' = MoveTo(items, from, row) /\ view' = MoveTo(view, from, row)
    BY DEF Move
  <1>4. /\ from \in 1 .. Len(items) /\ row \in 1 .. Len(items)
        /\ row < from /\ items[from].id = reply[row].id
    BY FoundBelow DEF Move
  <1>5. /\ items' \in Seq(Row) /\ Len(items') = Len(items)
        /\ \A j \in 1 .. Len(items) :
              items'[j] = IF j < row \/ j > from THEN items[j]
                          ELSE IF j = row THEN items[from] ELSE items[j - 1]
    <2>1. items \in Seq(Row) /\ from \in 1 .. Len(items)
          /\ row \in 1 .. Len(items) /\ row < from
      BY <1>1, <1>4
    <2>2. /\ MoveTo(items, from, row) \in Seq(Row)
          /\ Len(MoveTo(items, from, row)) = Len(items)
          /\ \A j \in 1 .. Len(items) :
                MoveTo(items, from, row)[j] =
                  IF j < row \/ j > from THEN items[j]
                  ELSE IF j = row THEN items[from] ELSE items[j - 1]
      BY ONLY <2>1, MoveToRows
    <2> QED
      BY <1>3, <2>2
  <1>6. view' = items'
    BY <1>1, <1>3
  <1>7. ASSUME NEW k \in 1 .. Len(items)
        PROVE  \E o \in 1 .. Len(items) :
                  /\ items'[k] = items[o]
                  /\ o = IF k < row \/ k > from THEN k
                         ELSE IF k = row THEN from ELSE k - 1
    <2>1. CASE k < row \/ k > from
      BY <1>1, <1>4, <1>5, <2>1
    <2>2. CASE k = row
      BY <1>1, <1>4, <1>5, <2>2
    <2>3. CASE k > row /\ k <= from
      <3>1. k - 1 \in 1 .. Len(items) /\ items'[k] = items[k - 1]
        BY <1>1, <1>4, <1>5, <2>3
      <3> QED
        BY <1>1, <1>4, <2>3, <3>1
    <2> QED
      BY <1>1, <1>4, <2>1, <2>2, <2>3
  <1>8. Unique(items')
    <2> SUFFICES ASSUME NEW i \in 1 .. Len(items), NEW j \in 1 .. Len(items),
                        items'[i].id = items'[j].id
                 PROVE  i = j
      BY <1>5 DEF Unique
    <2>1. PICK o \in 1 .. Len(items) :
             /\ items'[i] = items[o]
             /\ o = IF i < row \/ i > from THEN i
                    ELSE IF i = row THEN from ELSE i - 1
      BY <1>7
    <2>2. PICK p \in 1 .. Len(items) :
             /\ items'[j] = items[p]
             /\ p = IF j < row \/ j > from THEN j
                    ELSE IF j = row THEN from ELSE j - 1
      BY <1>7
    <2>3. o = p
      BY <1>1, <2>1, <2>2 DEF Unique
    <2> QED
      BY <1>1, <1>4, <2>1, <2>2, <2>3
  <1>9. IdsOf(items) \subseteq IdsOf(items')
    <2> SUFFICES ASSUME NEW k \in 1 .. Len(items)
                 PROVE  items[k].id \in IdsOf(items')
      BY DEF IdsOf
    <2>1. PICK n \in 1 .. Len(items') : items'[n] = items[k]
      <3>1. CASE k < row \/ k > from
        BY <1>1, <1>4, <1>5, <3>1
      <3>2. CASE k = from
        BY <1>1, <1>4, <1>5, <3>2
      <3>3. CASE row <= k /\ k < from
        <4>1. k + 1 \in 1 .. Len(items') /\ items'[k + 1] = items[k]
          BY <1>1, <1>4, <1>5, <3>3
        <4> QED
          BY <4>1
      <3> QED
        BY <1>1, <1>4, <3>1, <3>2, <3>3
    <2> QED
      BY <2>1 DEF IdsOf
  <1>10. ASSUME NEW i \in 1 .. row, i <= Len(items')
         PROVE  items'[i].id = reply[i].id
    <2>1. CASE i = row
      BY <1>1, <1>4, <1>5, <2>1
    <2>2. CASE i < row
      <3>1. i \in 1 .. row - 1 /\ i <= Len(items) /\ items'[i] = items[i]
        BY <1>1, <1>4, <1>5, <2>2
      <3> QED
        BY <3>1 DEF IInv, IdsInv, Matched
    <2> QED
      BY <1>1, <1>4, <2>1, <2>2
  <1>11. IdsInv'
    <2>1. before' \subseteq IdsOf(items')
      BY <1>9 DEF IInv, IdsInv
    <2>2. row' <= Len(reply') + 1 /\ row' - 1 = row
      BY <1>2, <1>4
    <2> QED
      BY <1>10, <2>1, <2>2 DEF IdsInv, Matched
  <1> QED
    BY <1>1, <1>2, <1>4, <1>5, <1>6, <1>8, <1>9, <1>11
       DEF IInv, UpdateTypeOK, ViewFollows, DataInv, FailsOnlyOnGrowth

\* A row that seems to have its id is passed: either it has, or it is past
\* the end and nothing is said of it.
LEMMA SameInv ==
    ASSUME IInv, pc = "ids", row <= Len(reply), Same,
           row' = row + 1, UNCHANGED <<reply, before>>
    PROVE  IInv'
  <1>1. /\ items \in Seq(Row) /\ Len(items) \in Nat /\ row \in Nat \ {0}
        /\ UNCHANGED <<items, past, view, pc>>
    BY DEF IInv, UpdateTypeOK, Same
  <1>2. row <= Len(items) => items[row].id = reply[row].id
    BY <1>1 DEF Same, Read, Target
  <1>3. ASSUME NEW i \in 1 .. row, i <= Len(items)
        PROVE  items[i].id = reply[i].id
    <2>1. CASE i = row
      BY <1>2, <1>3, <2>1
    <2>2. CASE i < row
      <3>1. i \in 1 .. row - 1
        BY <1>1, <2>2
      <3> QED
        BY <1>3, <3>1 DEF IInv, IdsInv, Matched
    <2> QED
      BY <1>1, <2>1, <2>2
  <1>4. IdsInv'
    <2>1. Len(reply) \in Nat
      BY ReplyUnique DEF IInv
    <2>2. row' <= Len(reply') + 1 /\ row' - 1 = row
      BY <1>1, <2>1
    <2> QED
      BY <1>1, <1>3, <2>2 DEF IInv, IdsInv, Matched, IdsOf
  <1> QED
    BY <1>1, <1>4
       DEF IInv, UpdateTypeOK, ViewFollows, Unique, DataInv, FailsOnlyOnGrowth

\* Rows that all have their ids, with a table of the reply that none has:
\* the update adds to what was shown.
LEMMA Growth ==
    ASSUME UpdateTypeOK, Len(items) <= Len(reply), Matched(Len(items)),
           before \subseteq IdsOf(items),
           NEW k \in 1 .. Len(reply), reply[k].id \notin IdsOf(items)
    PROVE  before \subseteq IdsOf(reply) /\ ~ IdsOf(reply) \subseteq before
  <1>1. Len(items) \in Nat /\ Len(reply) \in Nat
    BY ReplyUnique DEF UpdateTypeOK
  <1>2. IdsOf(items) \subseteq IdsOf(reply)
    BY <1>1 DEF Matched, IdsOf
  <1>3. reply[k].id \in IdsOf(reply)
    BY DEF IdsOf
  <1> QED
    BY <1>2, <1>3

LEMMA InsertNowhereInv ==
    ASSUME IInv, pc = "ids", row <= Len(reply), InsertNowhere,
           row' = row + 1, UNCHANGED <<reply, before>>
    PROVE  IInv'
  <1>1. /\ Len(items) \in Nat /\ row \in 1 .. Len(reply) /\ Len(reply) \in Nat
        /\ UNCHANGED <<items, past, view>> /\ pc' = "undefined"
        /\ Len(items) <= row - 1
    BY ReplyUnique DEF IInv, UpdateTypeOK, InsertNowhere
  <1>2. Matched(Len(items)) /\ before \subseteq IdsOf(items)
    BY <1>1 DEF IInv, IdsInv, Matched
  <1>3. reply[row].id \notin IdsOf(items)
    BY DEF InsertNowhere, Found, Target, IdsOf
  <1>4. before \subseteq IdsOf(reply) /\ ~ IdsOf(reply) \subseteq before
    BY <1>1, <1>2, <1>3, Growth DEF IInv
  <1> QED
    BY <1>1, <1>4
       DEF IInv, UpdateTypeOK, ViewFollows, Unique, IdsInv, DataInv,
           FailsOnlyOnGrowth, IdsOf

LEMMA MatchRowInv == IInv /\ MatchRow => IInv'
  BY InsertInv, MoveInv, SameInv, InsertNowhereInv DEF MatchRow

\* The rows past those of the reply are cut off; the others have their ids.
LEMMA RemoveRestInv == IInv /\ RemoveRest => IInv'
  <1> SUFFICES ASSUME IInv, RemoveRest
               PROVE  IInv'
    OBVIOUS
  <1>1. /\ items \in Seq(Row) /\ Len(items) \in Nat /\ Unique(items)
        /\ view = items /\ past \in Seq(Ids) /\ pc = "ids"
        /\ pc' = "data" /\ row' = 1 /\ UNCHANGED <<reply, before>>
    BY DEF IInv, UpdateTypeOK, ViewFollows, RemoveRest
  <1>2. Len(reply) \in Nat
    BY ReplyUnique DEF IInv
  <1>3. /\ row - 1 = Len(reply) /\ before \subseteq IdsOf(items)
        /\ \A i \in 1 .. Len(reply) :
              i <= Len(items) => items[i].id = reply[i].id
    BY <1>1, <1>2 DEF IInv, UpdateTypeOK, IdsInv, Matched, RemoveRest
  <1>4. CASE Len(items) <= Len(reply)
    <2>1. UNCHANGED <<items, past, view>>
      BY <1>1, <1>2, <1>4 DEF RemoveRest, Trim
    <2> QED
      BY <1>1, <1>2, <1>3, <1>4, <2>1
         DEF IInv, UpdateTypeOK, ViewFollows, Unique, IdsInv, DataInv, Matched,
             FailsOnlyOnGrowth, IdsOf
  <1>5. CASE Len(items) > Len(reply)
    <2>1. /\ items' = SubSeq(items, 1, Len(reply)) /\ view' = items'
          /\ past' = Uncovered(Len(reply))
      BY <1>1, <1>5 DEF RemoveRest, Trim
    <2>2. /\ items' \in Seq(Row) /\ Len(items') = Len(reply)
          /\ \A i \in 1 .. Len(reply) : items'[i] = items[i]
      BY <1>1, <1>2, <1>5, <2>1
    <2>3. past' \in Seq(Ids)
      <3>1. Len(reply) \in 0 .. Len(items)
        BY <1>1, <1>2, <1>5
      <3> QED
        BY <1>1, <2>1, <3>1, UncoveredIds
    <2>4. Unique(items')
      BY <1>1, <1>2, <1>5, <2>2 DEF Unique
    <2>5. DataInv'
      <3>1. \A i \in 1 .. Len(reply) : items'[i].id = reply[i].id
        <4>1. ASSUME NEW i \in 1 .. Len(reply)
              PROVE  items'[i] = items[i] /\ items[i].id = reply[i].id
          <5>1. i <= Len(items)
            BY <1>1, <1>2, <1>5
          <5> QED
            BY ONLY <1>3, <2>2, <5>1
        <4> QED
          BY <4>1
      <3>2. /\ row' = 1 /\ reply' = reply /\ Len(items') = Len(reply)
            /\ Len(reply) \in Nat
        BY <1>1, <1>2, <2>2
      <3> QED
        BY ONLY <3>1, <3>2 DEF DataInv, Matched
    <2> QED
      BY <1>1, <2>1, <2>2, <2>3, <2>4, <2>5
         DEF IInv, UpdateTypeOK, ViewFollows, IdsInv, FailsOnlyOnGrowth
  <1> QED
    BY <1>1, <1>2, <1>4, <1>5

\* A row's data is the reply's: its id was so already.
LEMMA updateRowDataInv == IInv /\ updateRowData => IInv'
  <1> SUFFICES ASSUME IInv, updateRowData
               PROVE  IInv'
    OBVIOUS
  <1>1. /\ items \in Seq(Row) /\ Len(items) \in Nat /\ Unique(items)
        /\ view = items /\ pc = "data" /\ row' = row + 1
        /\ row \in 1 .. Len(items) /\ row \in 1 .. Len(reply)
        /\ UNCHANGED <<past, reply, pc, before>>
    BY ReplyUnique DEF IInv, UpdateTypeOK, ViewFollows, updateRowData
  <1>2. reply \in Seq(Row) /\ Len(reply) \in Nat
    BY ReplyUnique DEF IInv
  <1>3. /\ items' = [items EXCEPT ![row] = reply[row]]
        /\ view' = items'
    BY <1>1 DEF updateRowData, ReplaceAt
  <1>4. reply[row] \in Row
    BY <1>1, <1>2
  <1>5. items' \in Seq(Row) /\ Len(items') = Len(items)
    BY <1>1, <1>3, <1>4
  <1>6. items'[row] = reply[row]
    BY <1>1, <1>3
  <1>7. ASSUME NEW i \in 1 .. Len(items)
        PROVE  /\ items'[i].id = items[i].id
               /\ i # row => items'[i] = items[i]
    <2>1. reply[row].id = items[row].id
      BY <1>1 DEF IInv, DataInv, Matched
    <2> QED
      BY <1>1, <1>3, <1>6, <2>1
  <1>8. Unique(items') /\ IdsOf(items') = IdsOf(items)
    BY <1>1, <1>5, <1>7 DEF Unique, IdsOf
  <1>9. DataInv'
    <2>1. ASSUME NEW i \in 1 .. row PROVE items'[i] = reply[i]
      <3>1. CASE i = row
        BY <1>6, <3>1
      <3>2. CASE i < row
        BY <1>1, <1>7, <3>2 DEF IInv, DataInv
      <3> QED
        BY <1>1, <3>1, <3>2
    <2>2. \A i \in 1 .. Len(items) : items'[i].id = reply[i].id
      BY <1>1, <1>7 DEF IInv, DataInv, Matched
    <2>3. row' - 1 = row /\ row' <= Len(items') + 1
      BY <1>1, <1>5
    <2> QED
      BY <1>1, <1>5, <1>8, <2>1, <2>2, <2>3 DEF IInv, DataInv, Matched
  <1> QED
    BY <1>1, <1>3, <1>5, <1>8, <1>9
       DEF IInv, UpdateTypeOK, ViewFollows, IdsInv, FailsOnlyOnGrowth

\* A row too few throws, and only growth leaves a row too few.
LEMMA ThrowInv == IInv /\ Throw => IInv'
  <1> SUFFICES ASSUME IInv, Throw
               PROVE  IInv'
    OBVIOUS
  <1>1. /\ Len(items) \in Nat /\ Len(reply) \in Nat
        /\ row \in 1 .. Len(reply) /\ row > Len(items)
        /\ pc = "data" /\ pc' = "thrown"
        /\ UNCHANGED <<items, past, view, reply, row, before>>
    BY ReplyUnique DEF IInv, UpdateTypeOK, Throw
  <1>2. /\ Matched(Len(items)) /\ before \subseteq IdsOf(items)
        /\ \A i \in 1 .. Len(items) : items[i].id = reply[i].id
    BY <1>1 DEF IInv, DataInv, Matched
  <1>3. reply[row].id \notin IdsOf(items)
    <2>1. Unique(reply)
      BY ReplyUnique DEF IInv
    <2> QED
      BY <1>1, <1>2, <2>1 DEF Unique, IdsOf
  <1>4. before \subseteq IdsOf(reply) /\ ~ IdsOf(reply) \subseteq before
    BY <1>1, <1>2, <1>3, Growth DEF IInv
  <1> QED
    BY <1>1, <1>4
       DEF IInv, UpdateTypeOK, ViewFollows, Unique, IdsInv, DataInv,
           FailsOnlyOnGrowth, IdsOf

\* Between two updates nothing is asked of the rows but their ids.
LEMMA BetweenInv == IInv /\ (Return \/ Reconnect \/ setData) => IInv'
  <1> SUFFICES ASSUME IInv, Return \/ Reconnect \/ setData
               PROVE  IInv'
    OBVIOUS
  <1>1. CASE Return \/ Reconnect
    BY <1>1 DEF Return, Reconnect, IInv, UpdateTypeOK, ViewFollows, Unique,
       IdsInv, DataInv, FailsOnlyOnGrowth
  <1>2. CASE setData
    <2>1. PICK k \in 1 .. Len(items), v \in Versions :
             /\ items' = [items EXCEPT ![k] = [items[k] EXCEPT !.ver = v]]
             /\ view' = [view EXCEPT ![k] = items'[k]]
      BY <1>2 DEF setData, ReplaceAt
    <2>2. /\ items \in Seq(Row) /\ Len(items) \in Nat /\ Unique(items)
          /\ view = items /\ pc = "idle"
          /\ UNCHANGED <<past, reply, row, pc, before>>
      BY <1>2 DEF setData, IInv, UpdateTypeOK, ViewFollows
    <2> DEFINE x == [items[k] EXCEPT !.ver = v]
    <2>3. x \in Row /\ x.id = items[k].id
      <3>1. items[k] \in Row
        BY <2>2
      <3> QED
        BY <3>1 DEF Row
    <2>4. items' = [items EXCEPT ![k] = x]
      BY <2>1
    <2> HIDE DEF x
    <2>5. items' \in Seq(Row) /\ Len(items') = Len(items)
      BY <2>2, <2>3, <2>4
    <2>6. \A i \in 1 .. Len(items) : items'[i].id = items[i].id
      BY <2>2, <2>3, <2>4
    <2>7. Unique(items')
      BY <2>2, <2>5, <2>6 DEF Unique
    <2>8. view' = items'
      BY <2>1, <2>2, <2>4
    <2> QED
      BY <2>2, <2>5, <2>7, <2>8
         DEF IInv, UpdateTypeOK, ViewFollows, IdsInv, DataInv, FailsOnlyOnGrowth
  <1> QED
    BY <1>1, <1>2

-----------------------------------------------------------------------------
(* The theorems. *)

LEMMA StepIInv == IInv /\ [Next]_vars => IInv'
  <1>1. IInv /\ UNCHANGED vars => IInv'
    BY DEF vars, IInv, UpdateTypeOK, ViewFollows, Unique, IdsInv, DataInv,
       Matched, FailsOnlyOnGrowth, IdsOf
  <1> QED
    BY <1>1, BeginInv, MatchRowInv, RemoveRestInv, updateRowDataInv, ThrowInv,
       BetweenInv DEF Next

LEMMA Invariance == Spec => []IInv
  BY InitIInv, StepIInv, PTL DEF Spec

\* The rows are rows of tables, the memory past them holds tables' ids, and
\* newItems is a list of the server's.
THEOREM TypeCorrect == Spec => []UpdateTypeOK
  <1>1. IInv => UpdateTypeOK
    BY DEF IInv
  <1> QED
    BY <1>1, Invariance, PTL

\* Whatever the server sends and memory holds, the signals of updateItems tell
\* the views the rows the model has.
THEOREM ViewFollowsCorrect == Spec => []ViewFollows
  <1>1. IInv => ViewFollows
    BY DEF IInv
  <1> QED
    BY <1>1, Invariance, PTL

\* The loop that swaps a row up always starts below the row it goes to.
THEOREM MovesUpCorrect == Spec => []MovesUp
  <1>1. IInv => MovesUp
    <2> SUFFICES ASSUME IInv, pc = "ids", row <= Len(reply), Read # {Target},
                        NEW from \in Found
                 PROVE  from > row
      BY DEF MovesUp
    <2>1. row < from /\ from \in 1 .. Len(items) /\ row \in 1 .. Len(items)
      BY FoundBelow
    <2>2. Len(items) \in Nat
      BY DEF IInv, UpdateTypeOK
    <2> QED
      BY <2>1, <2>2
  <1> QED
    BY <1>1, Invariance, PTL

\* An update that throws, or writes past the end, is one that keeps every
\* table shown and brings a new one.
THEOREM FailsOnlyOnGrowthCorrect == Spec => []FailsOnlyOnGrowth
  <1>1. IInv => FailsOnlyOnGrowth
    BY DEF IInv
  <1> QED
    BY <1>1, Invariance, PTL

\* An update that returns leaves the server's list in the views.
THEOREM ReturnShowsReplyCorrect == Spec => ReturnShowsReply
  <1>1. IInv => [Return => view' = reply]_vars
    <2> SUFFICES ASSUME IInv, Return
                 PROVE  view' = reply
      OBVIOUS
    <2>1. /\ items \in Seq(Row) /\ reply \in Seq(Row) /\ view' = items
          /\ Len(items) \in Nat /\ Len(reply) \in Nat /\ row \in Nat
          /\ pc = "data" /\ row > Len(reply)
      BY ReplyUnique DEF IInv, UpdateTypeOK, ViewFollows, Return
    <2>2. Len(items) = Len(reply) /\ row - 1 = Len(reply)
      BY <2>1 DEF IInv, DataInv
    <2>3. \A i \in 1 .. Len(reply) : items[i] = reply[i]
      BY <2>1, <2>2 DEF IInv, DataInv
    <2> QED
      BY <2>1, <2>2, <2>3, SeqEqual
  <1> QED
    BY <1>1, Invariance, PTL DEF ReturnShowsReply

\* A table in the list shown and in the list sent keeps its row throughout.
THEOREM KeptRowsStayCorrect == Spec => KeptRowsStay
  <1> DEFINE Stay == \A id \in IdsOf(items) \cap IdsOf(reply') :
                        id \in IdsOf(items')
  <1>1. IInv /\ [Next]_vars => [Stay]_vars
    <2> SUFFICES ASSUME IInv, Next
                 PROVE  Stay
      OBVIOUS
    <2>1. CASE updateData
      <3>1. items = << >> => IdsOf(items) = {}
        BY DEF IdsOf
      <3>2. reply' = << >> => IdsOf(reply') = {}
        BY DEF IdsOf
      <3> QED
        BY <2>1, <3>1, <3>2 DEF updateData, Reset, RemoveAll, Compare, Begin,
           IdsOf
    <2>2. CASE MatchRow
      <3>1. IdsOf(items) \subseteq IdsOf(items')
        BY <2>2, InsertInv, MoveInv DEF MatchRow, Same, InsertNowhere, IdsOf
      <3> QED
        BY <3>1
    <2>3. CASE RemoveRest
      <3>1. /\ items \in Seq(Row) /\ Len(items) \in Nat /\ Len(reply) \in Nat
            /\ reply' = reply /\ pc = "ids" /\ row > Len(reply)
            /\ row \in Nat
        BY <2>3, ReplyUnique DEF IInv, UpdateTypeOK, RemoveRest
      <3>2. CASE Len(items) <= Len(reply)
        BY <2>3, <3>1, <3>2 DEF RemoveRest, Trim, IdsOf
      <3>3. CASE Len(items) > Len(reply)
        <4>1. /\ Len(items') = Len(reply)
              /\ \A i \in 1 .. Len(reply) : items'[i] = items[i]
          BY <2>3, <3>1, <3>3 DEF RemoveRest, Trim
        <4>2. \A i \in 1 .. Len(reply) : items[i].id = reply[i].id
          BY <3>1, <3>3 DEF IInv, IdsInv, Matched
        <4> QED
          BY <3>1, <4>1, <4>2 DEF IdsOf
      <3> QED
        BY <3>1, <3>2, <3>3
    <2>4. CASE updateRowData
      <3>1. /\ items \in Seq(Row) /\ Len(items) \in Nat /\ pc = "data"
            /\ row \in 1 .. Len(items)
            /\ items' = [items EXCEPT ![row] = reply[row]]
            /\ items[row].id = reply[row].id
        BY <2>4 DEF IInv, UpdateTypeOK, DataInv, Matched, updateRowData,
           ReplaceAt
      <3>2. /\ Len(items') = Len(items)
            /\ \A i \in 1 .. Len(items) : items'[i].id = items[i].id
        BY <3>1
      <3> QED
        BY <3>2 DEF IdsOf
    <2>5. CASE Throw \/ Return \/ Reconnect
      BY <2>5 DEF Throw, Return, Reconnect, IdsOf
    <2>6. CASE setData
      <3>1. PICK k \in 1 .. Len(items), v \in Versions :
               items' = [items EXCEPT ![k] = [items[k] EXCEPT !.ver = v]]
        BY <2>6 DEF setData, ReplaceAt
      <3>2. items \in Seq(Row) /\ items[k] \in Row
        BY DEF IInv, UpdateTypeOK
      <3>3. /\ Len(items') = Len(items)
            /\ \A i \in 1 .. Len(items) : items'[i].id = items[i].id
        BY <3>1, <3>2 DEF Row
      <3> QED
        BY <3>3 DEF IdsOf
    <2> QED
      BY <2>1, <2>2, <2>3, <2>4, <2>5, <2>6 DEF Next
  <1> QED
    BY <1>1, Invariance, PTL DEF Spec, KeptRowsStay
=============================================================================
