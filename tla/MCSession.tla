------------------------------ MODULE MCSession ------------------------------
(* Instances of Session for TLC: see the .cfg files. *)
EXTENDS Session, TLC

AnyDialog == Permutations(Dialogs)

\* More than one message is followed only with no password being recovered:
\* every dialog is on its first page and waits for a login, if anything.
Bounds ==
    \/ Len(up) + Len(down) <= 1
    \/ /\ \A d \in Dialogs : page[d] = 0
       /\ \A p \in Calls \ {"login"} : Waits(p) = {}
=============================================================================
