------------------------------ MODULE Outbox ------------------------------
(***************************************************************************)
(* What the write side of netio promises, whatever happens to the socket:  *)
(* packets are accepted in order and their bytes leave in that order, each *)
(* byte at most once; when bytes are lost, the whole queue is lost with    *)
(* them, so nothing accepted before a loss can leave after it.             *)
(***************************************************************************)
EXTENDS Naturals, Sequences

CONSTANTS Size,      \* bytes of a packet
          MaxSend    \* bound: packets accepted

VARIABLES queue,     \* what is accepted and still to leave: [pkt, left]
          out,       \* the chunks that left: [pkt, from, n]
          accepted   \* how many packets were handed over, refused ones included

boxVars == <<queue, out, accepted>>

BoxInit == queue = <<>> /\ out = <<>> /\ accepted = 0

Accept ==
    /\ accepted < MaxSend
    /\ accepted' = accepted + 1
    /\ queue' = Append(queue, [pkt |-> accepted', left |-> Size])
    /\ UNCHANGED out

Refuse ==
    /\ accepted < MaxSend
    /\ accepted' = accepted + 1
    /\ UNCHANGED <<queue, out>>

\* The next 1 to `left' bytes of the oldest packet leave.
Emit ==
    /\ queue # <<>>
    /\ \E n \in 1 .. Head(queue).left :
         /\ out' = Append(out, [pkt |-> Head(queue).pkt,
                                from |-> Head(queue).left, n |-> n])
         /\ queue' = IF n = Head(queue).left
                     THEN Tail(queue)
                     ELSE <<[Head(queue) EXCEPT !.left = @ - n]>> \o Tail(queue)
    /\ UNCHANGED accepted

Drop == queue' = <<>> /\ UNCHANGED <<out, accepted>>

BoxNext == Accept \/ Refuse \/ Emit \/ Drop

BoxSpec == BoxInit /\ [][BoxNext]_boxVars
=============================================================================
