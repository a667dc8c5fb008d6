---------------------------- MODULE MCUpdateItems ----------------------------
(* Instances of UpdateItems for TLC: see the .cfg files. *)
EXTENDS UpdateItems

CONSTANTS a, b, c, d, NoId, MaxRows

FourIds == {a, b, c, d}
AnyMemory == FourIds \cup {NoId}
CleanMemory == {NoId}
AnyId == Permutations(FourIds)

\* A list says the same of all its tables: two lists still tell an old row
\* from a new one.
ListsOf(ids) ==
    {list \in UNION {[1 .. n -> [id: ids, ver: {0, 1}]] : n \in 0 .. MaxRows} :
        /\ Unique(list)
        /\ \A i \in DOMAIN list : list[i].ver = list[1].ver}

FourLists == ListsOf(FourIds)
=============================================================================
