----------------------------- MODULE UpdateItems -----------------------------
(***************************************************************************)
(* The lobby's lists of tables: ns_model::ApiBase::updateItems turns the   *)
(* rows a model has into those of the list the server has just sent,       *)
(* telling the views of every step (model_apibase.hpp).  A step of the     *)
(* module is one turn of one of its loops: what is between a begin signal  *)
(* and its end signal, with the views' answer to it.                       *)
(*                                                                         *)
(* The first loop reads oldItems[row] without asking for the size.  Once   *)
(* the list has shrunk, what lies past its end is what lay there before:   *)
(* the ids of the rows removed (`past'), or whatever the memory held.      *)
(* Both are outcomes of the same build, so a read past the end returns the *)
(* id that is known to be there, or else any of `Memory'.                  *)
(*                                                                         *)
(* An exception thrown here ends in netio, which closes the session; the   *)
(* next session asks for the list again.                                   *)
(***************************************************************************)
EXTENDS Naturals, SequencesExt

CONSTANTS
    Ids,      \* the tables
    Memory,   \* the ids that memory no row has lain in may seem to hold
    Versions, \* what is shown of a table beside its id
    Lists     \* the lists the server may send

Row == [id: Ids, ver: Versions]

IdsOf(list) == {list[i].id : i \in 1 .. Len(list)}

\* No list names a table twice.
Unique(list) ==
    \A i, j \in 1 .. Len(list) : list[i].id = list[j].id => i = j

ASSUME UpdateAssumption ==
    /\ Memory # {}
    /\ Lists \subseteq Seq(Row)
    /\ \A list \in Lists : Unique(list)

VARIABLES
    items,  \* m_data of the model, oldItems of updateItems
    past,   \* the ids that are known to lie past the end of m_data
    view,   \* what a view that heeds the signals shows
    reply,  \* newItems
    row,    \* the row a loop has come to
    pc,     \* where updateItems is
    before  \* the tables shown when the update began (for the properties)

vars == <<items, past, view, reply, row, pc, before>>

UpdateTypeOK ==
    /\ items \in Seq(Row)
    /\ past \in Seq(Ids)
    /\ view \in Seq(Row)
    /\ reply \in Lists \cup {<< >>}
    /\ row \in Nat \ {0}
    /\ pc \in {"idle", "ids", "data", "thrown", "undefined"}
    /\ before \subseteq Ids

-----------------------------------------------------------------------------
(* Memory *)

\* The ids oldItems[row] may have.
Read ==
    IF row <= Len(items) THEN {items[row].id}
    ELSE IF row - Len(items) <= Len(past) THEN {past[row - Len(items)]}
    ELSE Memory

\* `n' more rows in the same memory: the first ids past the end are gone.
Covered(n) ==
    IF n <= Len(past) THEN SubSeq(past, n + 1, Len(past)) ELSE << >>

\* Only the first n rows are left: the others' ids stay where they were.
Uncovered(n) ==
    [i \in 1 .. Len(items) - n |-> items[n + i].id] \o past

Target == reply[row].id

\* find_id: the rows that have the id looked for.
Found == {i \in 1 .. Len(items) : items[i].id = Target}

-----------------------------------------------------------------------------
(* updateItems *)

\* Mutant: rows are counted from one here, from nought there.
BeginAtZero(list) ==
    /\ pc = "idle"
    /\ reply' = list
    /\ before' = IdsOf(items)
    /\ row' = 0

Begin(list) ==
    /\ pc = "idle"
    /\ reply' = list
    /\ before' = IdsOf(items)
    /\ row' = 1

\* The first rows of an empty model: the model is reset.
Reset(list) ==
    /\ Begin(list)
    /\ items = << >>
    /\ list # << >>
    /\ items' = list
    /\ past' = Covered(Len(list))
    /\ view' = items'
    /\ pc' = "ids"

\* An empty list: all rows are removed at once.
RemoveAll(list) ==
    /\ Begin(list)
    /\ items # << >>
    /\ list = << >>
    /\ items' = << >>
    /\ past' = Uncovered(0)
    /\ view' = << >>
    /\ UNCHANGED pc

Compare(list) ==
    /\ Begin(list)
    /\ items # << >>
    /\ list # << >>
    /\ pc' = "ids"
    /\ UNCHANGED <<items, past, view>>

\* games_statistic has arrived.
updateData ==
    \E list \in Lists : Reset(list) \/ RemoveAll(list) \/ Compare(list)

\* The row has its id already.
Same ==
    /\ Target \in Read
    /\ UNCHANGED <<items, past, view, pc>>

\* A table the model does not have is inserted at its row.
Insert ==
    /\ Read # {Target}
    /\ Found = {}
    /\ row <= Len(items) + 1
    /\ items' = InsertAt(items, row, reply[row])
    /\ past' = Covered(1)
    /\ view' = InsertAt(view, row, items'[row])
    /\ UNCHANGED pc

\* An insertion further out than the end: no telling what happens.
InsertNowhere ==
    /\ Read # {Target}
    /\ Found = {}
    /\ row > Len(items) + 1
    /\ pc' = "undefined"
    /\ UNCHANGED <<items, past, view>>

MoveTo(list, from, to) == InsertAt(RemoveAt(list, from), to, list[from])

\* Mutant: the row a move goes to is taken for the row it goes behind.
MoveBehind ==
    /\ Read # {Target}
    /\ \E from \in Found :
          /\ items' = MoveTo(items, from, row + 1)
          /\ view' = MoveTo(view, from, row + 1)
    /\ UNCHANGED <<past, pc>>

\* Mutant: the two rows change places, while the signal says one moves.
MoveSwaps ==
    /\ Read # {Target}
    /\ \E from \in Found :
          /\ items' = [items EXCEPT ![row] = items[from],
                                    ![from] = items[row]]
          /\ view' = MoveTo(view, from, row)
    /\ UNCHANGED <<past, pc>>

\* A table found elsewhere is swapped up, row by row, until it is there.
Move ==
    /\ Read # {Target}
    /\ \E from \in Found :
          /\ items' = MoveTo(items, from, row)
          /\ view' = MoveTo(view, from, row)
    /\ UNCHANGED <<past, pc>>

\* One turn of the loop over the ids.
MatchRow ==
    /\ pc = "ids"
    /\ row <= Len(reply)
    /\ Same \/ Insert \/ InsertNowhere \/ Move
    /\ row' = row + 1
    /\ UNCHANGED <<reply, before>>

\* Mutant: one row too many is removed.
TrimTooMuch ==
    LET n == Len(reply)
    IN IF Len(items) > n
       THEN /\ items' = SubSeq(items, 1, n - 1)
            /\ past' = Uncovered(n - 1)
            /\ view' = SubSeq(view, 1, n - 1)
       ELSE UNCHANGED <<items, past, view>>

\* Mutant: one row too many is kept.
TrimTooLittle ==
    LET n == Len(reply) + 1
    IN IF Len(items) > n
       THEN /\ items' = SubSeq(items, 1, n)
            /\ past' = Uncovered(n)
            /\ view' = SubSeq(view, 1, n)
       ELSE UNCHANGED <<items, past, view>>

\* The rows left after those of the reply are removed.
Trim ==
    LET n == Len(reply)
    IN IF Len(items) > n
       THEN /\ items' = SubSeq(items, 1, n)
            /\ past' = Uncovered(n)
            /\ view' = SubSeq(view, 1, n)
       ELSE UNCHANGED <<items, past, view>>

RemoveRest ==
    /\ pc = "ids"
    /\ row > Len(reply)
    /\ Trim
    /\ row' = 1
    /\ pc' = "data"
    /\ UNCHANGED <<reply, before>>

\* updateRowData: the fields that differ are copied, the views read the row.
updateRowData ==
    /\ pc = "data"
    /\ row <= Len(reply)
    /\ row <= Len(items)
    /\ items' = ReplaceAt(items, row, reply[row])
    /\ view' = ReplaceAt(view, row, items'[row])
    /\ row' = row + 1
    /\ UNCHANGED <<past, reply, pc, before>>

\* target.at(row) throws; netio closes the session.
Throw ==
    /\ pc = "data"
    /\ row <= Len(reply)
    /\ row > Len(items)
    /\ pc' = "thrown"
    /\ UNCHANGED <<items, past, view, reply, row, before>>

Return ==
    /\ pc = "data"
    /\ row > Len(reply)
    /\ pc' = "idle"
    /\ UNCHANGED <<items, past, view, reply, row, before>>

-----------------------------------------------------------------------------
(* Between two updates *)

\* The client is connected again and will ask for the list.
Reconnect ==
    /\ pc = "thrown"
    /\ pc' = "idle"
    /\ UNCHANGED <<items, past, view, reply, row, before>>

\* UpdateWaiters::updateStatistic: the client counts a waiter on its own.
setData ==
    /\ pc = "idle"
    /\ \E i \in 1 .. Len(items), v \in Versions :
          /\ items[i].ver # v
          /\ items' = ReplaceAt(items, i, [items[i] EXCEPT !.ver = v])
          /\ view' = ReplaceAt(view, i, items'[i])
    /\ UNCHANGED <<past, reply, row, pc, before>>

Init ==
    /\ items = << >>
    /\ past = << >>
    /\ view = << >>
    /\ reply = << >>
    /\ row = 1
    /\ pc = "idle"
    /\ before = {}

Next ==
    \/ updateData \/ MatchRow \/ RemoveRest
    \/ updateRowData \/ Throw \/ Return
    \/ Reconnect \/ setData

Spec == Init /\ [][Next]_vars

-----------------------------------------------------------------------------
(* Properties *)

\* The signals tell the whole truth: a view that does what they say shows
\* the rows of the model after each of them, also half-way through an update
\* and after one that has thrown.
ViewFollows == view = items

\* A table that has to be moved is found below the row it moves to, so that
\* `while (sourceRow != row)', which counts down, comes to its end.
MovesUp ==
    pc = "ids" /\ row <= Len(reply) /\ Read # {Target} =>
        \A from \in Found : from > row

\* No update of the lobby fails but one that keeps every table that is shown
\* and brings new ones: lists that lose a table, or only change their order,
\* are always shown, whatever memory holds.
FailsOnlyOnGrowth ==
    pc \in {"thrown", "undefined"} =>
        before \subseteq IdsOf(reply) /\ ~ IdsOf(reply) \subseteq before

\* An update that returns has brought the views to the server's list: its
\* tables in its order, and what it says of each.
ReturnShowsReply == [][Return => view' = reply]_vars

\* A table in both lists is never taken out on the way from one to the other:
\* what a view keeps for it (the selected table) outlives the update.
KeptRowsStay ==
    [][\A id \in IdsOf(items) \cap IdsOf(reply') : id \in IdsOf(items')]_vars

\* What updateRowItem asserts, and updateRowData in its place relies on: once
\* the rows are matched, the two lists have one size.
SizesAgree == pc = "data" => Len(items) = Len(reply)
=============================================================================
