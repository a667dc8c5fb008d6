------------------------ MODULE Netio_stream_proofs ------------------------
(***************************************************************************)
(* TLAPS proofs about what the write side of Netio puts on the wire, for   *)
(* every program: netio implements the Outbox, and a packet that was cut   *)
(* short on a connection is not followed by another one there.             *)
(*                                                                         *)
(* Both rest on what a step may do to the packet that is leaving and to    *)
(* those that wait behind it (StreamCases).                                *)
(***************************************************************************)
EXTENDS Netio_proofs

\* What is left of a write, for the writes of some operations S and of the
\* completions s: the packet that is leaving.
Rest == [pkt : Nat, left : Nat \ {0}]
IsRest(r, o) == o.kind = "write" /\ o.pkt = r.pkt /\ o.left = r.left
RestsOf(S, s) == { r \in Rest : \/ \E o \in S : IsRest(r, o)
                                \/ \E i \in DOMAIN s : IsRest(r, s[i]) }
Rests == RestsOf(ops, ready)

\* The packet that a single write leaves behind.
RestOf(o) == IF o.left = 0 THEN {} ELSE {[pkt |-> o.pkt, left |-> o.left]}

LEMMA RestIs ==
    ASSUME NEW o \in Op
    PROVE  /\ RestOf(o) \in SUBSET Rest
           /\ o.kind = "write" => RestOf(o) = { r \in Rest : IsRest(r, o) }
           /\ o.kind # "write" => {} = { r \in Rest : IsRest(r, o) }
<1>1. o.pkt \in Nat /\ o.left \in Nat
  BY DEF Op
<1>2. RestOf(o) \in SUBSET Rest
  BY <1>1 DEF RestOf, Rest
<1>3. ASSUME o.kind = "write" PROVE RestOf(o) = { r \in Rest : IsRest(r, o) }
  <2>1. \A r \in Rest : r = [pkt |-> r.pkt, left |-> r.left] /\ r.left # 0
    BY DEF Rest
  <2>2. \A r \in Rest : IsRest(r, o) <=> r \in RestOf(o)
    BY <1>1, <1>3, <2>1 DEF IsRest, RestOf
  <2> QED BY <1>2, <2>2
<1>4. o.kind # "write" => {} = { r \in Rest : IsRest(r, o) }
  BY DEF IsRest
<1> QED BY <1>2, <1>3, <1>4

LEMMA RestAdd ==
    ASSUME NEW S, NEW s, NEW o \in Op
    PROVE  /\ o.kind = "write" => RestsOf(S \cup {o}, s) = RestsOf(S, s) \cup RestOf(o)
           /\ o.kind # "write" => RestsOf(S \cup {o}, s) = RestsOf(S, s)
<1>1. RestsOf(S \cup {o}, s) = RestsOf(S, s) \cup { r \in Rest : IsRest(r, o) }
  BY DEF RestsOf
<1> QED BY <1>1, RestIs

LEMMA RestAppend ==
    ASSUME NEW S, NEW s \in Seq(Op), NEW e \in Op
    PROVE  /\ e.kind = "write" => RestsOf(S, Append(s, e)) = RestsOf(S, s) \cup RestOf(e)
           /\ e.kind # "write" => RestsOf(S, Append(s, e)) = RestsOf(S, s)
<1>1. \A r : (\E i \in DOMAIN Append(s, e) : IsRest(r, Append(s, e)[i]))
                <=> (\E i \in DOMAIN s : IsRest(r, s[i])) \/ IsRest(r, e)
  BY AppendAt
<1>2. RestsOf(S, Append(s, e)) = RestsOf(S, s) \cup { r \in Rest : IsRest(r, e) }
  BY <1>1 DEF RestsOf
<1> QED BY <1>2, RestIs

LEMMA RestCancel ==
    ASSUME NEW S, S \subseteq Op, NEW s
    PROVE  RestsOf(Cancelled(S), s) = RestsOf(S, s)
<1> DEFINE C(o) == IF o.ec = "pending" THEN [o EXCEPT !.ec = "aborted"] ELSE o
<1>1. \A r : \A o \in S : IsRest(r, C(o)) <=> IsRest(r, o)
  BY DEF Op, IsRest
<1>2. Cancelled(S) = { C(o) : o \in S }
  BY DEF Cancelled
<1> HIDE DEF C
<1> QED BY <1>1, <1>2 DEF RestsOf

LEMMA RestTail ==
    ASSUME NEW S, NEW s \in Seq(Op), s # <<>>
    PROVE  /\ Head(s).kind = "write" => RestsOf(S, s) = RestsOf(S, Tail(s)) \cup RestOf(Head(s))
           /\ Head(s).kind # "write" => RestsOf(S, s) = RestsOf(S, Tail(s))
<1>1. \A r : (\E i \in DOMAIN s : IsRest(r, s[i]))
                <=> (\E i \in DOMAIN Tail(s) : IsRest(r, Tail(s)[i])) \/ IsRest(r, Head(s))
  BY TailAt
<1>2. RestsOf(S, s) = RestsOf(S, Tail(s)) \cup { r \in Rest : IsRest(r, Head(s)) }
  BY <1>1 DEF RestsOf
<1>3. Head(s) \in Op
  BY HeadTail
<1> QED BY <1>2, <1>3, RestIs

LEMMA RestNone ==
    ASSUME NEW S, NEW s, ~HoldsIn({"write"}, S, s)
    PROVE  RestsOf(S, s) = {}
BY DEF HoldsIn, RestsOf, IsRest

\* Without the only write nothing is left.
LEMMA RestRemove ==
    ASSUME NEW S, S \subseteq Op, NEW s, NEW o \in S
    PROVE  /\ o.kind # "write" => RestsOf(S \ {o}, s) = RestsOf(S, s)
           /\ o.kind = "write" => RestsOf(S, s) = RestsOf(S \ {o}, s) \cup RestOf(o)
           /\ o.kind = "write" /\ Alone({"write"}, S, s) => RestsOf(S \ {o}, s) = {}
<1>1. S = (S \ {o}) \cup {o} /\ o \in Op
  OBVIOUS
<1>2. o.kind = "write" /\ Alone({"write"}, S, s) => ~HoldsIn({"write"}, S \ {o}, s)
  BY DEF Alone, HoldsIn
<1> QED BY <1>1, <1>2, RestAdd, RestNone

-----------------------------------------------------------------------------
(* The same, said of the steps of the program.                             *)

LEMMA LaunchRest ==
    ASSUME SocketTypeOK, NEW kind \in OpKinds, NEW pkt \in Nat, NEW left \in Nat,
           Launch(kind, pkt, left), NEW s
    PROVE  /\ kind = "write" /\ left # 0 =>
                RestsOf(ops', s) = RestsOf(ops, s) \cup {[pkt |-> pkt, left |-> left]}
           /\ kind # "write" => RestsOf(ops', s) = RestsOf(ops, s)
<1>1. PICK o \in Started(kind, pkt, left) : ops' = ops \cup {o}
  BY DEF Launch
<1>2. o.kind = kind /\ o.pkt = pkt /\ o.left = left /\ o \in Op
  BY StartedType DEF Started, SocketTypeOK
<1> QED BY <1>1, <1>2, RestAdd DEF RestOf

LEMMA DropRest ==
    ASSUME SocketTypeOK, DropSession, NEW s
    PROVE  RestsOf(ops', s) = RestsOf(ops, s)
BY RestCancel DEF DropSession, close_or_realloc_socket, SocketTypeOK

LEMMA ConnectRest ==
    ASSUME SocketTypeOK, async_connect, NEW s
    PROVE  RestsOf(ops', s) = RestsOf(ops, s)
<1> DEFINE c == [kind |-> "connect", conn |-> conn, pkt |-> 0, left |-> 0, ec |-> "pending"]
<1>1. c.kind = "connect" /\ c \in Op
  BY DEF SocketTypeOK, Op, OpKinds, Codes
<1>2. ops' = Cancelled(ops) \cup {c} /\ ops \subseteq Op
  BY DEF async_connect, SocketTypeOK
<1> HIDE DEF c
<1> QED BY <1>1, <1>2, RestCancel, RestAdd

LEMMA PollRest ==
    ASSUME SocketTypeOK, NEW kind, Poll(kind), kind # "write", NEW S
    PROVE  RestsOf(S, ready') = RestsOf(S, ready)
BY RestTail DEF Poll, SocketTypeOK

-----------------------------------------------------------------------------
(* What a step does to what is to be written.                              *)

\* Nothing, as far as the stream can tell.
Keeps == Rests' = Rests /\ UNCHANGED <<m_buffers, wire, sends>>

\* Bytes of the packet that is leaving leave.
Emits(p, l, n) ==
    /\ Rests = {[pkt |-> p, left |-> l]}
    /\ Rests' = IF n = l THEN {} ELSE {[pkt |-> p, left |-> l - n]}
    /\ wire' = Append(wire, [pkt |-> p, from |-> l, n |-> n, conn |-> conn,
                             secure |-> m_handshake_finished])
    /\ link = "connected" /\ UNCHANGED <<link, conn, m_buffers, sends>>

\* The oldest packet that waits is the next to leave.
Starts ==
    /\ Rests = {} /\ m_buffers # <<>>
    /\ Rests' = {[pkt |-> Head(m_buffers), left |-> Size]}
    /\ m_buffers' = Tail(m_buffers)
    /\ UNCHANGED <<wire, sends>>

\* Everything that was to be written is lost, with the connection.
Loses ==
    /\ Rests' = {} /\ m_buffers' = <<>>
    /\ link' = "closed" /\ UNCHANGED <<wire, sends>>

\* A packet is handed over: it waits, or leaves at once, or is refused.
Queues ==
    /\ sends < MaxSend /\ sends' = sends + 1
    /\ Rests' = Rests /\ m_buffers' = Append(m_buffers, sends + 1)
    /\ UNCHANGED wire
Begins ==
    /\ sends < MaxSend /\ sends' = sends + 1
    /\ Rests = {} /\ m_buffers = <<>>
    /\ Rests' = {[pkt |-> sends + 1, left |-> Size]} /\ m_buffers' = <<>>
    /\ UNCHANGED wire
Refuses ==
    /\ sends < MaxSend /\ sends' = sends + 1
    /\ Rests' = Rests /\ UNCHANGED <<m_buffers, wire>>

LEMMA MovedRest ==
    ASSUME SocketTypeOK, NEW o \in ops, NEW e \in Op, e.kind = o.kind,
           e.pkt = o.pkt, o.kind = "write" => e.left = o.left
    PROVE  RestsOf(ops \ {o}, Append(ready, e)) = Rests
<1>1. ops \subseteq Op /\ ready \in Seq(Op)
  BY DEF SocketTypeOK
<1>2. CASE o.kind = "write"
  <2>1. RestOf(e) = RestOf(o)
    BY <1>2 DEF RestOf
  <2>2. RestsOf(ops \ {o}, Append(ready, e)) = RestsOf(ops \ {o}, ready) \cup RestOf(e)
    BY <1>1, <1>2, RestAppend
  <2>3. Rests = RestsOf(ops \ {o}, ready) \cup RestOf(o)
    BY <1>1, <1>2, RestRemove DEF Rests
  <2> QED BY <2>1, <2>2, <2>3
<1>3. CASE o.kind # "write"
  <2>1. RestsOf(ops \ {o}, Append(ready, e)) = RestsOf(ops \ {o}, ready)
    BY <1>1, <1>3, RestAppend
  <2>2. RestsOf(ops \ {o}, ready) = RestsOf(ops, ready)
    BY <1>1, <1>3, RestRemove
  <2> QED BY <2>1, <2>2 DEF Rests
<1> QED BY <1>2, <1>3

\* A completion is queued: only a write that moves bytes is seen.
LEMMA StreamSystem ==
    ASSUME SocketTypeOK, QueueInv, System
    PROVE  \/ Keeps
           \/ \E p \in Nat, l \in Nat \ {0} : \E n \in 1 .. l : Emits(p, l, n)
<1>0. ops \subseteq Op /\ ready \in Seq(Op)
  BY DEF SocketTypeOK
<1>1. CASE Post
  <2>1. PICK o \in ops : ops' = ops \ {o} /\ ready' = Append(ready, o)
    BY <1>1 DEF Post
  <2> QED BY <1>0, <1>1, <2>1, MovedRest DEF Post, Keeps, Rests, writeVars
<1>2. CASE ConnectDone
  <2>1. PICK o \in ops : /\ o.kind = "connect" /\ ops' = ops \ {o}
                         /\ \E c \in {"ok", "refused", "error"} :
                              ready' = Append(ready, [o EXCEPT !.ec = c])
    BY <1>2 DEF ConnectDone
  <2>2. PICK e \in Op : /\ ready' = Append(ready, e)
                        /\ e.kind = o.kind /\ e.pkt = o.pkt /\ e.left = o.left
    <3>1. PICK c \in {"ok", "refused", "error"} : ready' = Append(ready, [o EXCEPT !.ec = c])
      BY <2>1
    <3>2. [o EXCEPT !.ec = c] \in Op
      BY <1>0 DEF Op, Codes
    <3> QED BY <1>0, <3>1, <3>2 DEF Op
  <2>3. Rests' = Rests
    BY <2>1, <2>2, MovedRest DEF Rests
  <2> QED BY <1>2, <2>3 DEF ConnectDone, Keeps, writeVars
<1>3. CASE TransferFails
  <2>1. PICK o \in ops : ops' = ops \ {o} /\ ready' = Append(ready, [o EXCEPT !.ec = "error"])
    BY <1>3 DEF TransferFails
  <2>2. PICK e \in Op : /\ ready' = Append(ready, e)
                        /\ e.kind = o.kind /\ e.pkt = o.pkt /\ e.left = o.left
    <3>1. [o EXCEPT !.ec = "error"] \in Op
      BY <1>0 DEF Op, Codes
    <3> QED BY <1>0, <2>1, <3>1 DEF Op
  <2>3. Rests' = Rests
    BY <2>1, <2>2, MovedRest DEF Rests
  <2> QED BY <1>3, <2>3 DEF TransferFails, Keeps, writeVars
<1>4. CASE TimerFires
  <2> DEFINE e == [kind |-> "timer", conn |-> conn, pkt |-> 0, left |-> 0, ec |-> "ok"]
  <2>1. e \in Op /\ e.kind = "timer"
    BY DEF SocketTypeOK, Op, OpKinds, Codes
  <2>2. ready' = Append(ready, e) /\ ops' = ops
    BY <1>4 DEF TimerFires
  <2> HIDE DEF e
  <2>3. Rests' = Rests
    BY <1>0, <2>1, <2>2, RestAppend DEF Rests
  <2> QED BY <1>4, <2>3 DEF TimerFires, Keeps, writeVars
<1>5. CASE Transfer
  <2>a. PICK o \in ops : \E n \in 1 .. o.left :
           /\ ops' = ops \ {o}
           /\ ready' = Append(ready, [o EXCEPT !.ec = "ok", !.left = @ - n])
           /\ wire' = IF o.kind = "write"
                      THEN Append(wire, [pkt |-> o.pkt, from |-> o.left,
                                         n |-> n, conn |-> conn,
                                         secure |-> m_handshake_finished])
                      ELSE wire
    BY <1>5 DEF Transfer, Moved
  <2>1. PICK n \in 1 .. o.left :
           /\ ops' = ops \ {o}
           /\ ready' = Append(ready, [o EXCEPT !.ec = "ok", !.left = @ - n])
           /\ wire' = IF o.kind = "write"
                      THEN Append(wire, [pkt |-> o.pkt, from |-> o.left,
                                         n |-> n, conn |-> conn,
                                         secure |-> m_handshake_finished])
                      ELSE wire
    BY <2>a
  <2>2. o \in Op /\ o.left \in Nat /\ o.pkt \in Nat /\ n \in Nat /\ o.left - n \in Nat
        /\ o.left # 0
    BY <1>0, <2>a, <2>1 DEF Op
  <2>3. PICK e \in Op : /\ ready' = Append(ready, e)
                        /\ e.kind = o.kind /\ e.pkt = o.pkt /\ e.left = o.left - n
    <3>1. [o EXCEPT !.ec = "ok", !.left = @ - n] \in Op
      BY <2>2 DEF Op, Codes
    <3> QED BY <2>1, <2>2, <3>1 DEF Op
  <2>4. UNCHANGED <<link, conn, m_buffers, sends>> /\ link = "connected"
    BY <1>5 DEF Transfer, writeVars
  <2>5. CASE o.kind # "write"
    <3>1. Rests' = Rests
      BY <2>1, <2>3, <2>5, MovedRest DEF Rests
    <3> QED BY <2>1, <2>4, <2>5, <3>1 DEF Keeps
  <2>6. CASE o.kind = "write"
    <3>1. RestsOf(ops \ {o}, ready) = {}
      BY <1>0, <2>6, RestRemove DEF QueueInv
    <3>2. Rests = RestOf(o)
      <4>1. Rests = RestsOf(ops \ {o}, ready) \cup RestOf(o)
        BY <1>0, <2>6, RestRemove DEF Rests
      <4> QED BY <3>1, <4>1
    <3>3. Rests' = RestOf(e)
      <4>1. RestsOf(ops \ {o}, Append(ready, e)) = RestsOf(ops \ {o}, ready) \cup RestOf(e)
        BY <1>0, <2>3, <2>6, RestAppend
      <4>2. ops' = ops \ {o} /\ ready' = Append(ready, e)
        BY <2>1, <2>3
      <4> QED BY <3>1, <4>1, <4>2 DEF Rests
    <3>4. Emits(o.pkt, o.left, n)
      <4>1. Rests = {[pkt |-> o.pkt, left |-> o.left]}
        BY <2>2, <3>2 DEF RestOf
      <4>2. Rests' = IF n = o.left THEN {} ELSE {[pkt |-> o.pkt, left |-> o.left - n]}
        BY <2>2, <2>3, <3>3 DEF RestOf
      <4> QED BY <2>1, <2>4, <2>6, <4>1, <4>2 DEF Emits
    <3> QED BY <2>1, <2>2, <3>4
  <2> QED BY <2>5, <2>6
<1> QED BY <1>1, <1>2, <1>3, <1>4, <1>5 DEF System

\* What leaves the write queue alone, and starts no write, is not seen.
LEMMA StreamKept ==
    ASSUME SocketTypeOK, UNCHANGED <<m_buffers, wire, sends>>,
           \/ ready' = ready
           \/ \E kind \in OpKinds \ {"write"} : Poll(kind),
           \/ ops' = ops
           \/ DropSession
           \/ async_connect
           \/ \E k \in OpKinds \ {"write"}, l \in Nat : Launch(k, 0, l)
    PROVE  Keeps
<1>1. RestsOf(ops', ready) = Rests
  <2>1. CASE ops' = ops
    BY <2>1 DEF Rests
  <2>2. CASE DropSession
    BY <2>2, DropRest DEF Rests
  <2>3. CASE async_connect
    BY <2>3, ConnectRest DEF Rests
  <2>4. CASE \E k \in OpKinds \ {"write"}, l \in Nat : Launch(k, 0, l)
    BY <2>4, LaunchRest, LoopKindsOf DEF Rests
  <2> QED BY <2>1, <2>2, <2>3, <2>4
<1>2. RestsOf(ops', ready') = RestsOf(ops', ready)
  <2>1. CASE ready' = ready
    BY <2>1
  <2>2. CASE \E kind \in OpKinds \ {"write"} : Poll(kind)
    BY <2>2, PollRest
  <2> QED BY <2>1, <2>2
<1>3. Rests' = Rests
  BY <1>1, <1>2 DEF Rests
<1> QED BY <1>3 DEF Keeps

\* The handler of a write goes on with it, is done with it and starts the
\* next, or loses everything.
LEMMA StreamSent ==
    ASSUME SocketTypeOK, QueueInv, sent
    PROVE  Keeps \/ Starts \/ Loses
<1> DEFINE w == Head(ready)
<1>1. /\ w \in Op /\ w.kind = "write" /\ ready' = Tail(ready)
      /\ ready # <<>> /\ ready \in Seq(Op)
  BY PollType DEF sent, Poll, SocketTypeOK
<1>2. UNCHANGED <<sends, wire>>
  BY DEF sent
<1>3. RestsOf(ops, ready') = {}
  <2>1. ~HoldsIn({"write"}, ops, ready')
    BY PollOne DEF sent, QueueInv
  <2> QED BY <2>1, RestNone
<1>4. Rests = RestOf(w)
  <2>1. Rests = RestsOf(ops, ready') \cup RestOf(w)
    BY <1>1, RestTail DEF Rests
  <2> QED BY <1>3, <2>1
<1>5. w.pkt \in Nat /\ w.left \in Nat
  BY <1>1 DEF Op
<1>6. CASE w.ec = "ok" /\ w.left > 0 /\ Launch("write", w.pkt, w.left) /\ UNCHANGED m_buffers
  <2>1. RestsOf(ops', ready') = RestsOf(ops, ready') \cup {[pkt |-> w.pkt, left |-> w.left]}
    BY <1>5, <1>6, LaunchRest DEF OpKinds
  <2>2. Rests' = Rests
    BY <1>3, <1>4, <1>5, <1>6, <2>1 DEF Rests, RestOf
  <2> QED BY <1>2, <1>6, <2>2 DEF Keeps
<1>7. CASE w.ec = "ok" /\ w.left = 0 /\ UNCHANGED <<socketVars, m_buffers>>
  <2>1. Rests' = Rests
    BY <1>3, <1>4, <1>7 DEF Rests, RestOf, socketVars
  <2> QED BY <1>2, <1>7, <2>1 DEF Keeps
<1>8. CASE w.ec = "ok" /\ w.left = 0 /\ m_buffers # <<>> /\ StartNext
  <2>1. Head(m_buffers) \in Nat /\ Size \in Nat /\ Size # 0 /\ "write" \in OpKinds
    BY <1>8, HeadTail, NetioAssumption DEF SocketTypeOK, OpKinds
  <2>2. RestsOf(ops', ready') = RestsOf(ops, ready')
                                  \cup {[pkt |-> Head(m_buffers), left |-> Size]}
    BY <1>8, <2>1, LaunchRest DEF StartNext
  <2>3. Rests = {} /\ Rests' = {[pkt |-> Head(m_buffers), left |-> Size]}
    BY <1>3, <1>4, <1>8, <2>2 DEF Rests, RestOf
  <2> QED BY <1>2, <1>8, <2>3 DEF Starts, StartNext
<1>9. CASE WriteFails
  <2>1. RestsOf(ops', ready') = {} /\ link' = "closed"
    BY <1>3, <1>9, DropRest DEF WriteFails, DropSession, close_or_realloc_socket
  <2> QED BY <1>2, <1>9, <2>1 DEF Loses, Rests, WriteFails
<1> QED BY <1>6, <1>7, <1>8, <1>9 DEF sent

LEMMA StreamHandler ==
    ASSUME SocketTypeOK, QueueInv, Handler \/ async_handshake
    PROVE  Keeps \/ Starts \/ Loses
<1>1. CASE on_connected \/ on_retry
  BY <1>1, StreamKept, LoopKindsOf DEF on_connected, on_retry, writeVars
<1>2. CASE async_as_client_handshake_writen
  BY <1>2, StreamKept, LoopKindsOf
     DEF async_as_client_handshake_writen, HandshakeFails, writeVars
<1>3. CASE async_as_client_handshake_readed
  BY <1>3, StreamKept, LoopKindsOf
     DEF async_as_client_handshake_readed, HandshakeFails, writeVars, socketVars
<1>4. CASE header_readed \/ body_readed
  <2>1. PICK kind \in {"header", "body"} : Poll(kind)
    BY <1>4 DEF header_readed, body_readed
  <2>2. Head(ready).left \in Nat
    BY <2>1, PollType DEF Op
  <2>3. \/ ops' = ops
        \/ DropSession
        \/ \E k \in OpKinds \ {"write"}, l \in Nat : Launch(k, 0, l)
    BY <1>4, <2>2, LoopKindsOf
       DEF header_readed, body_readed, Dispatch, ReadFails, BadPacket, socketVars
  <2>4. UNCHANGED <<m_buffers, wire, sends>>
    BY <1>4 DEF header_readed, body_readed, writeVars
  <2>5. kind \in OpKinds \ {"write"}
    BY <2>1, LoopKindsOf
  <2> QED BY <2>1, <2>3, <2>4, <2>5, StreamKept
<1>5. CASE read_header \/ async_handshake
  BY <1>5, StreamKept, LoopKindsOf DEF read_header, async_handshake, writeVars
<1>6. CASE sent
  BY <1>6, StreamSent
<1>7. CASE stop_after_error
  BY <1>7, StreamKept DEF stop_after_error, StopEffect, writeVars
<1> QED BY <1>1, <1>2, <1>3, <1>4, <1>5, <1>6, <1>7 DEF Handler

\* impl::send: behind the write in process, or, as nothing can be stranded
\* in m_buffers, the only packet there is.
LEMMA StreamSend ==
    ASSUME SocketTypeOK, QueueInv, StartOrQueue(sends + 1), UNCHANGED <<ready, wire>>,
           sends < MaxSend, sends' = sends + 1
    PROVE  Queues \/ Begins
<1>1. CASE m_write_in_process
  BY <1>1 DEF StartOrQueue, Queues, Rests
<1>2. CASE ~m_write_in_process
  <2>1. Rests = {} /\ m_buffers = <<>>
    BY <1>2, RestNone DEF QueueInv, NothingStranded, Rests
  <2>2. sends + 1 \in Nat /\ Size \in Nat /\ Size # 0 /\ "write" \in OpKinds
    BY NetioAssumption DEF SocketTypeOK, OpKinds
  <2>3. Launch("write", sends + 1, Size) /\ UNCHANGED m_buffers
    BY <1>2 DEF StartOrQueue
  <2>4. RestsOf(ops', ready) = RestsOf(ops, ready) \cup {[pkt |-> sends + 1, left |-> Size]}
    BY <2>2, <2>3, LaunchRest
  <2>5. Rests' = {[pkt |-> sends + 1, left |-> Size]}
    BY <2>1, <2>4 DEF Rests
  <2> QED BY <2>1, <2>3, <2>5 DEF Begins
<1> QED BY <1>1, <1>2

LEMMA StreamProgram ==
    ASSUME SocketTypeOK, QueueInv, Program
    PROVE  Keeps \/ Starts \/ Loses \/ Queues \/ Begins \/ Refuses
<1>1. CASE Dial
  BY <1>1, StreamKept DEF Dial, writeVars
<1>2. CASE stop
  BY <1>2, StreamKept DEF stop, StopEffect, writeVars
<1>3. CASE send_packet
  <2>1. CASE StartOrQueue(sends + 1)
    BY <1>3, <2>1, StreamSend DEF send_packet
  <2>2. CASE UNCHANGED <<ops, m_write_in_process, m_buffers>>
    BY <1>3, <2>2 DEF send_packet, Refuses, Rests
  <2> QED BY <1>3, <2>1, <2>2 DEF send_packet
<1>4. CASE async_handshake
  BY <1>4, StreamHandler
<1>5. CASE start
  BY <1>5, StreamKept, LoopKindsOf DEF start, writeVars
<1>6. CASE Return
  BY <1>6, StreamKept DEF Return, socketVars, writeVars
<1> QED BY <1>1, <1>2, <1>3, <1>4, <1>5, <1>6 DEF Program

-----------------------------------------------------------------------------
(* A packet that was cut short is the last one on its connection.          *)

Torn(c) == c.n < c.from

\* The inductive invariant: if the last chunk cut its packet short on the
\* connection that is still up, then what is leaving is that packet.
StreamInv ==
    /\ \A i \in DOMAIN wire : wire[i].conn <= conn
    /\ wire # <<>> =>
         LET last == wire[Len(wire)] IN
         Torn(last) /\ last.conn = conn /\ link = "connected"
           => \E r \in Rests : r.pkt = last.pkt
    /\ TornOnlyAtTheEnd

\* A connection that comes up is a new one.
LEMMA FreshConnection ==
    ASSUME SocketTypeOK, Next
    PROVE  \/ conn' = conn /\ (link' = "connected" => link = "connected")
           \/ conn' = conn + 1 /\ UNCHANGED <<Rests, m_buffers, wire, sends>>
<1>1. CASE System
  <2>1. CASE ConnectDone
    <3>1. UNCHANGED <<m_buffers, wire, sends>>
      BY <2>1 DEF ConnectDone, writeVars
    <3>2. PICK o \in ops, c \in {"ok", "refused", "error"} :
             o.kind = "connect" /\ ops' = ops \ {o} /\ ready' = Append(ready, [o EXCEPT !.ec = c])
      BY <2>1 DEF ConnectDone
    <3>3. o \in Op
      BY DEF SocketTypeOK
    <3>4. /\ [o EXCEPT !.ec = c] \in Op /\ [o EXCEPT !.ec = c].kind = o.kind
          /\ [o EXCEPT !.ec = c].pkt = o.pkt /\ [o EXCEPT !.ec = c].left = o.left
      BY <3>3 DEF Op, Codes
    <3>5. RestsOf(ops \ {o}, Append(ready, [o EXCEPT !.ec = c])) = Rests
      BY <3>4, MovedRest
    <3>6. Rests' = Rests
      BY <3>2, <3>5 DEF Rests
    <3>7. conn' = conn + 1 \/ (conn' = conn /\ link' = link)
      BY <2>1 DEF ConnectDone
    <3> QED BY <3>1, <3>6, <3>7
  <2> QED BY <1>1, <2>1 DEF System, Post, Transfer, TransferFails, TimerFires
<1>2. CASE Handler
  <2>1. CASE on_connected \/ on_retry \/ read_header \/ stop_after_error
    BY <2>1 DEF on_connected, on_retry, read_header, stop_after_error,
         async_connect, StopEffect, DropSession, close_or_realloc_socket
  <2>2. CASE async_as_client_handshake_writen \/ async_as_client_handshake_readed
    BY <2>2 DEF async_as_client_handshake_writen, async_as_client_handshake_readed,
         HandshakeFails, DropSession, close_or_realloc_socket, socketVars
  <2>3. CASE header_readed
    BY <2>3 DEF header_readed, ReadFails, BadPacket, DropSession, close_or_realloc_socket
  <2>4. CASE body_readed
    BY <2>4 DEF body_readed, ReadFails, BadPacket, Dispatch, DropSession,
         close_or_realloc_socket, socketVars
  <2>5. CASE sent
    BY <2>5 DEF sent, WriteFails, DropSession, close_or_realloc_socket, socketVars
  <2> QED BY <1>2, <2>1, <2>2, <2>3, <2>4, <2>5 DEF Handler
<1>3. CASE Program
  BY <1>3 DEF Program, Dial, stop, send_packet, async_handshake, start, Return,
       async_connect, StopEffect, DropSession, close_or_realloc_socket, socketVars
<1> QED BY <1>1, <1>2, <1>3 DEF Next

LEMMA StreamCases ==
    ASSUME SocketTypeOK, QueueInv, Next
    PROVE  \/ Keeps \/ Starts \/ Loses \/ Queues \/ Begins \/ Refuses
           \/ \E p \in Nat, l \in Nat \ {0} : \E n \in 1 .. l : Emits(p, l, n)
BY StreamSystem, StreamHandler, StreamProgram DEF Next

\* A step that writes nothing keeps StreamInv if it keeps the packet that is
\* leaving, if any, or closes the socket.
LEMMA TornKept ==
    ASSUME SocketTypeOK, StreamInv, UNCHANGED wire, Rests \subseteq Rests' \/ link' = "closed",
           \/ conn' = conn /\ (link' = "connected" => link = "connected")
           \/ conn' = conn + 1
    PROVE  StreamInv'
<1>1. conn \in Nat /\ \A i \in DOMAIN wire : wire[i].conn \in Nat
  <2>1. \A i \in DOMAIN wire : wire[i] \in Chunk
    BY DEF SocketTypeOK
  <2>2. \A c \in Chunk : c.conn \in Nat
    BY DEF Chunk
  <2> QED BY <2>1, <2>2 DEF SocketTypeOK
<1>2. \A i \in DOMAIN wire' : wire'[i].conn <= conn'
  BY <1>1 DEF StreamInv
<1>3. ASSUME wire # <<>>
      PROVE  LET last == wire[Len(wire)] IN
             Torn(last) /\ last.conn = conn' /\ link' = "connected"
               => \E r \in Rests' : r.pkt = last.pkt
  <2>1. Len(wire) \in DOMAIN wire
    BY <1>3 DEF SocketTypeOK
  <2>2. CASE conn' = conn + 1
    BY <1>1, <2>1, <2>2 DEF StreamInv
  <2>3. CASE conn' = conn /\ (link' = "connected" => link = "connected")
    BY <1>3, <2>3 DEF StreamInv
  <2> QED BY <2>2, <2>3
<1>4. TornOnlyAtTheEnd'
  BY DEF StreamInv, TornOnlyAtTheEnd
<1> QED BY <1>2, <1>3, <1>4 DEF StreamInv

LEMMA WireAppend ==
    ASSUME NEW s \in Seq(Chunk), NEW c \in Chunk
    PROVE  /\ DOMAIN Append(s, c) = DOMAIN s \cup {Len(s) + 1}
           /\ Len(Append(s, c)) = Len(s) + 1 /\ Append(s, c) # <<>>
           /\ \A i \in DOMAIN s : Append(s, c)[i] = s[i]
           /\ Append(s, c)[Len(s) + 1] = c
           /\ DOMAIN s = 1 .. Len(s) /\ Len(s) \in Nat
           /\ s # <<>> <=> Len(s) # 0
OBVIOUS

\* What is written next is the rest of the packet that was cut short, or it
\* goes to another connection.
LEMMA TornEmits ==
    ASSUME SocketTypeOK, StreamInv, NEW p \in Nat, NEW l \in Nat \ {0}, NEW n \in 1 .. l,
           Emits(p, l, n)
    PROVE  StreamInv'
<1> DEFINE c == [pkt |-> p, from |-> l, n |-> n, conn |-> conn, secure |-> m_handshake_finished]
<1>1. c \in Chunk /\ wire \in Seq(Chunk) /\ conn \in Nat
  BY DEF SocketTypeOK, Chunk
<1>2. wire' = Append(wire, c) /\ link' = "connected" /\ link = "connected" /\ conn' = conn
  BY DEF Emits
<1>3. c.pkt = p /\ c.from = l /\ c.n = n /\ c.conn = conn
  OBVIOUS
<1> HIDE DEF c
<1>4. \A i \in DOMAIN wire' : wire'[i].conn <= conn'
  BY <1>1, <1>2, <1>3, WireAppend DEF StreamInv
<1>5. wire'[Len(wire')] = c
  BY <1>1, <1>2, WireAppend
<1>6. Torn(c) => \E r \in Rests' : r.pkt = c.pkt
  <2>1. ASSUME Torn(c) PROVE Rests' = {[pkt |-> p, left |-> l - n]}
    <3>1. n # l
      BY <1>3, <2>1 DEF Torn
    <3> QED BY <3>1 DEF Emits
  <2>2. [pkt |-> p, left |-> l - n].pkt = c.pkt
    BY <1>3
  <2> QED BY <2>1, <2>2
<1>7. TornOnlyAtTheEnd'
  <2>0. Len(wire') - 1 = Len(wire)
    BY <1>1, <1>2, WireAppend
  <2> SUFFICES ASSUME NEW i \in 1 .. Len(wire), wire'[i].n < wire'[i].from,
                      wire'[i + 1].pkt # wire'[i].pkt
               PROVE  wire'[i + 1].conn # wire'[i].conn
    BY <2>0 DEF TornOnlyAtTheEnd
  <2>1. wire'[i] = wire[i] /\ i \in Nat /\ i \in DOMAIN wire /\ wire # <<>>
    BY <1>1, <1>2, WireAppend
  <2>2. CASE i < Len(wire)
    <3>1. wire'[i + 1] = wire[i + 1] /\ i \in 1 .. Len(wire) - 1
      BY <1>1, <1>2, <2>1, <2>2, WireAppend
    <3> QED BY <2>1, <3>1 DEF StreamInv, TornOnlyAtTheEnd
  <2>3. CASE i = Len(wire)
    <3>1. wire'[i + 1] = c
      BY <1>1, <1>2, <2>3, WireAppend
    <3>2. Rests = {[pkt |-> p, left |-> l]}
      BY DEF Emits
    <3>3. ~ \E r \in Rests : r.pkt = wire[i].pkt
      BY <1>3, <2>1, <3>1, <3>2
    <3>4. wire[i].conn # conn
      BY <1>2, <2>1, <2>3, <3>3 DEF StreamInv, Torn
    <3> QED BY <1>3, <2>1, <3>1, <3>4
  <2>4. i < Len(wire) \/ i = Len(wire)
    BY <1>1
  <2> QED BY <2>2, <2>3, <2>4
<1> QED BY <1>4, <1>5, <1>6, <1>7 DEF StreamInv

LEMMA StreamStep ==
    ASSUME SocketTypeOK, QueueInv, StreamInv, Next
    PROVE  StreamInv'
<1>1. CASE \E p \in Nat, l \in Nat \ {0} : \E n \in 1 .. l : Emits(p, l, n)
  BY <1>1, TornEmits
<1>2. CASE Keeps \/ Starts \/ Loses \/ Queues \/ Begins \/ Refuses
  <2>1. UNCHANGED wire /\ (Rests \subseteq Rests' \/ link' = "closed")
    BY <1>2 DEF Keeps, Starts, Loses, Queues, Begins, Refuses
  <2> QED BY <2>1, FreshConnection, TornKept
<1> QED BY <1>1, <1>2, StreamCases

LEMMA StreamInit == Init => StreamInv
<1> SUFFICES ASSUME Init PROVE StreamInv
  OBVIOUS
<1>1. DOMAIN wire = {} /\ wire = <<>> /\ 1 .. Len(wire) - 1 = {}
  BY DEF Init
<1> QED BY <1>1 DEF StreamInv, TornOnlyAtTheEnd

THEOREM StreamInvariant == Spec => [](WriteInv /\ StreamInv)
<1>1. Init => WriteInv /\ StreamInv
  BY WriteInit, StreamInit
<1>2. WriteInv /\ StreamInv /\ [Next]_vars => (WriteInv /\ StreamInv)'
  <2> SUFFICES ASSUME WriteInv, StreamInv, [Next]_vars PROVE WriteInv' /\ StreamInv'
    OBVIOUS
  <2>1. SocketTypeOK /\ QueueInv
    BY TypeParts DEF WriteInv
  <2>2. WriteInv'
    BY WriteStep
  <2>3. CASE Next
    BY <2>1, <2>2, <2>3, StreamStep
  <2>4. CASE UNCHANGED vars
    <3>1. Rests \subseteq Rests' /\ UNCHANGED <<wire, conn, link>>
      BY <2>4 DEF vars, Rests
    <3> QED BY <2>1, <2>2, <3>1, TornKept
  <2> QED BY <2>3, <2>4
<1> QED BY <1>1, <1>2, PTL DEF Spec

(* A packet that was cut short on a connection is never followed by another
   packet on that same connection (sent 1301-1392 closes the socket whenever
   it gives a packet up), so the peer can always frame what it receives. *)
THEOREM TornOnlyAtTheEndCorrect == Spec => []TornOnlyAtTheEnd
<1>1. StreamInv => TornOnlyAtTheEnd
  BY DEF StreamInv
<1> QED BY <1>1, StreamInvariant, PTL

-----------------------------------------------------------------------------
(* netio implements the Outbox.                                            *)

Front(R)   == IF R = {} THEN <<>> ELSE <<CHOOSE r \in R : TRUE>>
Waiting(b) == [i \in DOMAIN b |-> [pkt |-> b[i], left |-> Size]]

LEMMA QueuedIs ==
    ASSUME SocketTypeOK, QueueInv
    PROVE  Queued = Front(Rests) \o Waiting(m_buffers)
<1> DEFINE front == { w \in InProcess : w.left > 0 }
           F == IF front = {} THEN <<>>
                ELSE LET w == CHOOSE w \in front : TRUE
                     IN  <<[pkt |-> w.pkt, left |-> w.left]>>
<1>1. ops \subseteq Op /\ (\A i \in DOMAIN ready : ready[i] \in Op)
  BY DEF SocketTypeOK
<1>2. \A w \in InProcess : w \in Op /\ w.kind = "write"
  BY <1>1 DEF InProcess, DoneOps
<1>3. \A w \in front : Rests = {[pkt |-> w.pkt, left |-> w.left]}
  <2> SUFFICES ASSUME NEW w \in front PROVE Rests = {[pkt |-> w.pkt, left |-> w.left]}
    OBVIOUS
  <2>1. w \in Op /\ w.kind = "write" /\ w.left > 0 /\ w \in InProcess
    BY <1>2
  <2>2. w.pkt \in Nat /\ w.left \in Nat \ {0}
    BY <2>1 DEF Op
  <2>3. \A o \in ops : o.kind = "write" => o = w
    BY <2>1 DEF InProcess, DoneOps, QueueInv, Alone
  <2>4. \A i \in DOMAIN ready : ready[i].kind = "write" => ready[i] = w
    BY <2>1 DEF InProcess, DoneOps, QueueInv, Alone
  <2>5. w \in ops \/ \E i \in DOMAIN ready : ready[i] = w
    BY <2>1 DEF InProcess, DoneOps
  <2>6. \A r \in Rest : (\/ \E o \in ops : IsRest(r, o)
                         \/ \E i \in DOMAIN ready : IsRest(r, ready[i])) <=> IsRest(r, w)
    BY <2>3, <2>4, <2>5 DEF IsRest
  <2>7. Rests = { r \in Rest : IsRest(r, w) }
    BY <2>6 DEF Rests, RestsOf
  <2>8. RestOf(w) = {[pkt |-> w.pkt, left |-> w.left]}
    BY <2>2 DEF RestOf
  <2> QED BY <2>1, <2>7, <2>8, RestIs
<1>4. front = {} => Rests = {}
  <2> SUFFICES ASSUME NEW r \in Rests PROVE front # {}
    OBVIOUS
  <2>1. r.left \in Nat \ {0} /\ (\/ \E o \in ops : IsRest(r, o)
                                 \/ \E i \in DOMAIN ready : IsRest(r, ready[i]))
    BY DEF Rests, RestsOf, Rest
  <2>2. \E w \in InProcess : w.left = r.left
    BY <2>1 DEF IsRest, InProcess, DoneOps
  <2> QED BY <2>1, <2>2
<1>5. F = Front(Rests)
  <2>1. CASE front = {}
    BY <1>4, <2>1 DEF Front
  <2>2. CASE front # {}
    <3>1. PICK w \in front : w = CHOOSE x \in front : TRUE
      BY <2>2
    <3>2. Rests = {[pkt |-> w.pkt, left |-> w.left]}
      BY <1>3
    <3>3. F = <<[pkt |-> w.pkt, left |-> w.left]>>
      BY <2>2, <3>1
    <3> QED BY <3>2, <3>3 DEF Front
  <2> QED BY <2>1, <2>2
<1> QED BY <1>5 DEF Queued, Waiting

LEMMA SameSeq ==
    ASSUME NEW S, NEW s \in Seq(S), NEW t \in Seq(S), Len(s) = Len(t),
           \A i \in 1 .. Len(s) : s[i] = t[i]
    PROVE  s = t
OBVIOUS

\* The operators of the queue, on what the steps do to it.
LEMMA FrontIs ==
    /\ Front({}) = <<>>
    /\ \A r : Front({r}) = <<r>>
BY DEF Front

LEMMA WaitingIs ==
    ASSUME NEW b \in Seq(Nat)
    PROVE  /\ Waiting(b) \in Seq([pkt : Nat, left : Nat])
           /\ Waiting(b) = <<>> <=> b = <<>>
           /\ \A p \in Nat : Waiting(Append(b, p)) = Append(Waiting(b), [pkt |-> p, left |-> Size])
           /\ b # <<>> => /\ Head(Waiting(b)) = [pkt |-> Head(b), left |-> Size]
                          /\ Waiting(Tail(b)) = Tail(Waiting(b))
<1>1. Size \in Nat
  BY NetioAssumption
<1>2. DOMAIN b = 1 .. Len(b) /\ Len(b) \in Nat /\ \A i \in DOMAIN b : b[i] \in Nat
  OBVIOUS
<1>3. Waiting(b) \in Seq([pkt : Nat, left : Nat]) /\ Len(Waiting(b)) = Len(b)
      /\ \A i \in 1 .. Len(b) : Waiting(b)[i] = [pkt |-> b[i], left |-> Size]
  BY <1>1, <1>2 DEF Waiting
<1>4. Waiting(b) = <<>> <=> b = <<>>
  BY <1>3
<1>5. ASSUME NEW p \in Nat
      PROVE  Waiting(Append(b, p)) = Append(Waiting(b), [pkt |-> p, left |-> Size])
  <2> DEFINE E(q) == [pkt |-> q, left |-> Size]
             R    == [pkt : Nat, left : Nat]
  <2>1. Append(b, p) \in Seq(Nat) /\ Len(Append(b, p)) = Len(b) + 1
    OBVIOUS
  <2>4. /\ Waiting(Append(b, p)) \in Seq(R)
        /\ Len(Waiting(Append(b, p))) = Len(b) + 1
        /\ \A i \in 1 .. Len(b) + 1 : Waiting(Append(b, p))[i] = E(Append(b, p)[i])
    BY <1>1, <2>1 DEF Waiting
  <2>5. E(p) \in R /\ Waiting(b) \in Seq(R) /\ Len(Waiting(b)) = Len(b)
        /\ \A i \in 1 .. Len(b) : Waiting(b)[i] = E(b[i])
    BY <1>1, <1>3
  <2> HIDE DEF E, R
  <2>2. /\ Append(Waiting(b), E(p)) \in Seq(R)
        /\ Len(Append(Waiting(b), E(p))) = Len(b) + 1
        /\ \A i \in 1 .. Len(b) + 1 : Append(Waiting(b), E(p))[i] = E(Append(b, p)[i])
    BY <2>5
  <2>3. Waiting(Append(b, p)) = Append(Waiting(b), E(p))
    BY <2>2, <2>4, SameSeq
  <2> QED BY <2>3 DEF E
<1>6. ASSUME b # <<>>
      PROVE  /\ Head(Waiting(b)) = [pkt |-> Head(b), left |-> Size]
             /\ Waiting(Tail(b)) = Tail(Waiting(b))
  <2>1. Len(b) > 0 /\ Tail(b) \in Seq(Nat) /\ Len(Tail(b)) = Len(b) - 1
        /\ \A i \in 1 .. Len(b) - 1 : Tail(b)[i] = b[i + 1]
    BY <1>6
  <2>2. Head(Waiting(b)) = [pkt |-> Head(b), left |-> Size]
    <3>1. Head(b) = b[1] /\ Head(Waiting(b)) = Waiting(b)[1] /\ 1 \in 1 .. Len(b)
      BY <1>3, <1>6, <2>1
    <3> QED BY <1>3, <3>1
  <2>3. /\ Tail(Waiting(b)) \in Seq([pkt : Nat, left : Nat])
        /\ Len(Tail(Waiting(b))) = Len(b) - 1
        /\ \A i \in 1 .. Len(b) - 1 : Tail(Waiting(b))[i] = [pkt |-> b[i + 1], left |-> Size]
    BY <1>2, <1>3, <2>1
  <2>4. /\ Waiting(Tail(b)) \in Seq([pkt : Nat, left : Nat])
        /\ Len(Waiting(Tail(b))) = Len(b) - 1
        /\ \A i \in 1 .. Len(b) - 1 : Waiting(Tail(b))[i] = [pkt |-> b[i + 1], left |-> Size]
    BY <1>1, <2>1 DEF Waiting
  <2>5. Waiting(Tail(b)) = Tail(Waiting(b))
    BY <2>3, <2>4, SameSeq
  <2> QED BY <2>2, <2>5
<1> QED BY <1>3, <1>4, <1>5, <1>6

LEMMA LeftAppend ==
    ASSUME NEW c \in Chunk, wire \in Seq(Chunk), wire' = Append(wire, c)
    PROVE  Left' = Append(Left, [pkt |-> c.pkt, from |-> c.from, n |-> c.n])
<1> DEFINE L == [pkt : Nat, from : Nat, n : Nat]
           P(k) == [pkt |-> k.pkt, from |-> k.from, n |-> k.n]
<1>1. \A k \in Chunk : P(k) \in L
  BY DEF Chunk
<1>2. Left = [i \in DOMAIN wire |-> P(wire[i])] /\ Left' = [i \in DOMAIN wire' |-> P(wire'[i])]
  BY DEF Left
<1> SUFFICES Left' = Append(Left, P(c))
  OBVIOUS
<1> HIDE DEF L, P
<1>3. /\ DOMAIN wire = 1 .. Len(wire) /\ Len(wire) \in Nat
      /\ DOMAIN wire' = 1 .. Len(wire) + 1
      /\ \A i \in 1 .. Len(wire) : wire'[i] = wire[i] /\ wire[i] \in Chunk
      /\ wire'[Len(wire) + 1] = c
  <2>1. Len(wire') = Len(wire) + 1 /\ wire' \in Seq(Chunk)
    OBVIOUS
  <2> QED BY <2>1, WireAppend
<1>4. Left \in Seq(L) /\ Len(Left) = Len(wire)
      /\ \A i \in 1 .. Len(wire) : Left[i] = P(wire[i])
  <2>1. \A i \in 1 .. Len(wire) : P(wire[i]) \in L
    BY <1>1, <1>3
  <2> QED BY <1>2, <1>3, <2>1
<1>5. Left' \in Seq(L) /\ Len(Left') = Len(wire) + 1
      /\ \A i \in 1 .. Len(wire) + 1 : Left'[i] = P(wire'[i])
  <2>1. \A i \in 1 .. Len(wire) + 1 : P(wire'[i]) \in L
    <3>1. \A i \in 1 .. Len(wire) + 1 : i \in 1 .. Len(wire) \/ i = Len(wire) + 1
      BY <1>3
    <3> QED BY <1>1, <1>3, <3>1
  <2> QED BY <1>2, <1>3, <2>1
<1>6. Append(Left, P(c)) \in Seq(L) /\ Len(Append(Left, P(c))) = Len(wire) + 1
      /\ \A i \in 1 .. Len(wire) : Append(Left, P(c))[i] = Left[i]
      /\ Append(Left, P(c))[Len(wire) + 1] = P(c)
  BY <1>1, <1>4
<1>7. \A i \in 1 .. Len(wire) + 1 : Left'[i] = Append(Left, P(c))[i]
  <2>1. \A i \in 1 .. Len(wire) + 1 : i \in 1 .. Len(wire) \/ i = Len(wire) + 1
    BY <1>3
  <2> QED BY <1>3, <1>4, <1>5, <1>6, <2>1
<1> QED BY <1>5, <1>6, <1>7

\* At most one packet is leaving.
LEMMA OneRest ==
    ASSUME SocketTypeOK, QueueInv
    PROVE  Rests = {} \/ \E r \in Rest : Rests = {r}
<1> SUFFICES ASSUME NEW r \in Rests, NEW q \in Rests PROVE r = q
  BY DEF Rests, RestsOf
<1>1. /\ r \in Rest /\ q \in Rest
      /\ (\E o \in ops : IsRest(r, o)) \/ (\E i \in DOMAIN ready : IsRest(r, ready[i]))
      /\ (\E o \in ops : IsRest(q, o)) \/ (\E i \in DOMAIN ready : IsRest(q, ready[i]))
  BY DEF Rests, RestsOf
<1>2. r.pkt = q.pkt /\ r.left = q.left
  BY <1>1 DEF IsRest, QueueInv, Alone
<1>3. r = [pkt |-> r.pkt, left |-> r.left] /\ q = [pkt |-> q.pkt, left |-> q.left]
  BY <1>1 DEF Rest
<1> QED BY <1>2, <1>3

\* What is queued, seen from what is left of the write.
QueuedShape ==
    /\ Rests = {} \/ \E r \in Rest : Rests = {r}
    /\ Rests = {} => Queued = Waiting(m_buffers)
    /\ \A r \in Rest : Rests = {r} => Queued = <<r>> \o Waiting(m_buffers)
    /\ Waiting(m_buffers) \in Seq([pkt : Nat, left : Nat])
    /\ Queued \in Seq([pkt : Nat, left : Nat])

LEMMA QueuedIsShaped == SocketTypeOK /\ QueueInv => QueuedShape
<1> SUFFICES ASSUME SocketTypeOK, QueueInv PROVE QueuedShape
  OBVIOUS
<1> DEFINE R == [pkt : Nat, left : Nat]
<1>1. Waiting(m_buffers) \in Seq(R)
  BY WaitingIs DEF SocketTypeOK
<1>2. Rests = {} => Queued = <<>> \o Waiting(m_buffers)
  BY QueuedIs, FrontIs
<1>3. \A r \in Rest : Rests = {r} => Queued = <<r>> \o Waiting(m_buffers)
  BY QueuedIs, FrontIs
<1>4. \A r \in Rest : r \in R
  BY DEF Rest
<1> HIDE DEF R
<1>5. \A w \in Seq(R) : <<>> \o w = w
  OBVIOUS
<1>6. \A w \in Seq(R), r \in R : <<r>> \o w \in Seq(R)
  OBVIOUS
<1>7. Rests = {} => Queued = Waiting(m_buffers)
  BY <1>1, <1>2, <1>5
<1>8. Queued \in Seq(R)
  BY <1>1, <1>3, <1>4, <1>6, <1>7, OneRest
<1> QED BY <1>1, <1>3, <1>7, <1>8, OneRest DEF R, QueuedShape

LEMMA SeqFacts ==
    ASSUME NEW S, NEW r \in S, NEW w \in Seq(S)
    PROVE  /\ <<r>> \o w # <<>> /\ Head(<<r>> \o w) = r /\ Tail(<<r>> \o w) = w
           /\ w # <<>> => w = <<Head(w)>> \o Tail(w)
           /\ <<>> \o <<r>> = <<r>> /\ Append(<<>>, r) = <<r>> /\ <<r>> \o <<>> = <<r>>
OBVIOUS

LEMMA AppendFront ==
    ASSUME NEW S, NEW r \in S, NEW w \in Seq(S), NEW q \in S
    PROVE  Append(<<r>> \o w, q) = <<r>> \o Append(w, q)
OBVIOUS

\* Each case of StreamCases is a step of the Outbox, or none.
LEMMA BoxStep ==
    ASSUME SocketTypeOK, QueueInv, SocketTypeOK', QueueInv', Next
    PROVE  [Box!BoxNext]_(Box!boxVars)
<1> DEFINE R == [pkt : Nat, left : Nat]
           B == Waiting(m_buffers)
<1>1. QueuedShape /\ QueuedShape'
  BY QueuedIsShaped, PTL
<1>2. /\ m_buffers \in Seq(Nat) /\ sends + 1 \in Nat /\ Size \in Nat \ {0}
      /\ \A p \in Nat, l \in Nat : [pkt |-> p, left |-> l] \in R
      /\ \A p \in Nat, l \in Nat \ {0} : [pkt |-> p, left |-> l] \in Rest
      /\ B \in Seq(R) /\ B' \in Seq(R)
  <2>1. m_buffers \in Seq(Nat) /\ sends + 1 \in Nat /\ Size \in Nat \ {0}
    BY NetioAssumption DEF SocketTypeOK
  <2>2. /\ \A p \in Nat, l \in Nat : [pkt |-> p, left |-> l] \in R
        /\ \A p \in Nat, l \in Nat \ {0} : [pkt |-> p, left |-> l] \in Rest
    BY DEF Rest
  <2>3. B \in Seq(R) /\ B' \in Seq(R)
    BY <1>1 DEF QueuedShape
  <2> QED BY <2>1, <2>2, <2>3
<1>a. UNCHANGED wire => UNCHANGED Left
  BY DEF Left
<1>b. UNCHANGED m_buffers => UNCHANGED B
  OBVIOUS
<1>c. Rests' = Rests /\ UNCHANGED m_buffers => UNCHANGED Queued
  <2> SUFFICES ASSUME Rests' = Rests, UNCHANGED m_buffers PROVE Queued' = Queued
    OBVIOUS
  <2>1. B' = B
    BY <1>b
  <2>2. CASE Rests = {}
    BY <1>1, <2>1, <2>2 DEF QueuedShape
  <2>3. ASSUME NEW r \in Rest, Rests = {r} PROVE Queued' = Queued
    BY <1>1, <2>1, <2>3 DEF QueuedShape
  <2> QED BY <1>1, <2>2, <2>3 DEF QueuedShape
<1>3. CASE Keeps
  BY <1>3, <1>a, <1>c DEF Keeps, Box!boxVars
<1>4. CASE Starts
  <2>1. B # <<>> /\ Head(B) = [pkt |-> Head(m_buffers), left |-> Size] /\ B' = Tail(B)
    BY <1>2, <1>4, WaitingIs DEF Starts
  <2>2. B = <<Head(B)>> \o Tail(B)
    <3>1. Head(B) \in R
      BY <1>2, <2>1
    <3> HIDE DEF R, B
    <3> QED BY <1>2, <2>1, <3>1, SeqFacts
  <2>3. Queued = B /\ Queued' = <<Head(B)>> \o B'
    <3>1. Head(m_buffers) \in Nat
      BY <1>2, <1>4 DEF Starts
    <3> QED BY <1>1, <1>2, <1>4, <2>1, <3>1 DEF Starts, QueuedShape
  <2> QED BY <1>4, <1>a, <2>1, <2>2, <2>3 DEF Starts, Box!boxVars
<1>5. CASE Loses
  <2>1. Queued' = <<>>
    <3>1. B' = <<>>
      BY <1>5, WaitingIs, EmptySeqType DEF Loses
    <3> QED BY <1>1, <1>5, <3>1 DEF Loses, QueuedShape
  <2> QED BY <1>5, <1>a, <2>1 DEF Loses, Box!Drop, Box!BoxNext
<1>6. CASE Refuses
  BY <1>6, <1>a, <1>c DEF Refuses, Box!Refuse, Box!BoxNext
<1>7. CASE Queues
  <2> DEFINE q == [pkt |-> sends + 1, left |-> Size]
  <2>1. B' = Append(B, q) /\ q \in R
    BY <1>2, <1>7, WaitingIs DEF Queues
  <2>2. Queued' = Append(Queued, q)
    <3> HIDE DEF R, B, q
    <3>1. CASE Rests = {}
      BY <1>1, <1>7, <2>1, <3>1 DEF Queues, QueuedShape, B
    <3>2. ASSUME NEW r \in Rest, Rests = {r} PROVE Queued' = Append(Queued, q)
      <4>1. r \in R /\ Queued = <<r>> \o B /\ Queued' = <<r>> \o B'
        <5>1. r \in R
          BY DEF R, Rest
        <5>2. Rests' = {r}
          BY <1>7, <3>2 DEF Queues
        <5> QED BY <1>1, <3>2, <5>1, <5>2 DEF QueuedShape, B
      <4>2. B \in Seq(R)
        BY <1>2
      <4>3. Append(<<r>> \o B, q) = <<r>> \o Append(B, q)
        BY <2>1, <4>1, <4>2, AppendFront
      <4> QED BY <2>1, <4>1, <4>3
    <3> QED BY <1>1, <3>1, <3>2 DEF QueuedShape
  <2> QED BY <1>7, <1>a, <2>2 DEF Queues, Box!Accept, Box!BoxNext
<1>8. CASE Begins
  <2> DEFINE q == [pkt |-> sends + 1, left |-> Size]
  <2>1. B = <<>> /\ B' = <<>> /\ q \in Rest /\ q \in R
    BY <1>2, <1>8, WaitingIs, EmptySeqType DEF Begins
  <2>2. Queued = <<>> /\ Queued' = <<q>> \o <<>>
    BY <1>1, <1>8, <2>1 DEF Begins, QueuedShape
  <2>3. Queued' = Append(Queued, q)
    <3> HIDE DEF q, R
    <3> QED BY <2>1, <2>2, SeqFacts, EmptySeqType
  <2> QED BY <1>8, <1>a, <2>3 DEF Begins, Box!Accept, Box!BoxNext
<1>9. ASSUME NEW p \in Nat, NEW l \in Nat \ {0}, NEW n \in 1 .. l, Emits(p, l, n)
      PROVE  Box!Emit
  <2> DEFINE r == [pkt |-> p, left |-> l]
             q == [pkt |-> p, left |-> l - n]
             c == [pkt |-> p, from |-> l, n |-> n, conn |-> conn, secure |-> m_handshake_finished]
  <2>1. r \in R /\ Queued = <<r>> \o B /\ B' = B
    BY <1>1, <1>2, <1>9, <1>b DEF Emits, QueuedShape
  <2>2. Queued # <<>> /\ Head(Queued) = r /\ Tail(Queued) = B
    <3> HIDE DEF r, R, B
    <3> QED BY <1>2, <2>1, SeqFacts
  <2>3. Queued' = IF n = l THEN B ELSE <<q>> \o B
    <3>1. n # l => l - n \in Nat \ {0}
      OBVIOUS
    <3> QED BY <1>1, <1>2, <1>9, <2>1, <3>1 DEF Emits, QueuedShape
  <2>4. Left' = Append(Left, [pkt |-> p, from |-> l, n |-> n])
    <3>1. c \in Chunk /\ wire \in Seq(Chunk)
      BY DEF SocketTypeOK, Chunk
    <3>2. wire' = Append(wire, c)
      BY <1>9 DEF Emits
    <3>3. [pkt |-> c.pkt, from |-> c.from, n |-> c.n] = [pkt |-> p, from |-> l, n |-> n]
      OBVIOUS
    <3> HIDE DEF c
    <3> QED BY <3>1, <3>2, <3>3, LeftAppend
  <2>5. r.pkt = p /\ r.left = l /\ [r EXCEPT !.left = @ - n] = q
    OBVIOUS
  <2> HIDE DEF r, q
  <2> QED BY <1>9, <2>2, <2>3, <2>4, <2>5 DEF Emits, Box!Emit
<1> QED BY <1>3, <1>4, <1>5, <1>6, <1>7, <1>8, <1>9, StreamCases DEF Box!BoxNext

(* netio implements the Outbox, under any use the program makes of it: what
   is accepted leaves in order, every byte at most once, through partial
   writes, stop() and reconnections; and when bytes are lost the whole queue
   is lost with them (send 1283-1299, sent 1301-1392). *)
THEOREM OutboxCorrect == Spec => ImplementsOutbox
<1>1. Init => Box!BoxInit
  <2> SUFFICES ASSUME Init PROVE Box!BoxInit
    OBVIOUS
  <2>1. SocketTypeOK /\ QueueInv
    BY WriteInit, TypeParts DEF WriteInv
  <2>2. QueuedShape /\ m_buffers = <<>> /\ wire = <<>> /\ sends = 0
    BY <2>1, QueuedIsShaped DEF Init
  <2>3. Rests = {}
    <3>1. ops = {} /\ DOMAIN ready = {}
      BY DEF Init
    <3> QED BY <3>1 DEF Rests, RestsOf
  <2>4. Queued = <<>>
    BY <2>2, <2>3, WaitingIs, EmptySeqType DEF QueuedShape
  <2>5. Left = <<>>
    BY <2>2 DEF Left
  <2> QED BY <2>2, <2>4, <2>5 DEF Box!BoxInit
<1>2. WriteInv /\ WriteInv' /\ [Next]_vars => [Box!BoxNext]_(Box!boxVars)
  <2> SUFFICES ASSUME WriteInv, WriteInv', [Next]_vars
               PROVE  [Box!BoxNext]_(Box!boxVars)
    OBVIOUS
  <2>1. SocketTypeOK /\ QueueInv /\ SocketTypeOK' /\ QueueInv'
    BY DEF WriteInv, TypeOK, SocketTypeOK
  <2>2. CASE Next
    BY <2>1, <2>2, BoxStep
  <2>3. CASE UNCHANGED vars
    <3>1. UNCHANGED <<ops, ready, m_buffers, wire, sends>>
      BY <2>3 DEF vars
    <3>2. UNCHANGED Queued /\ UNCHANGED Left
      BY <3>1 DEF Queued, InProcess, DoneOps, Left
    <3> QED BY <3>1, <3>2 DEF Box!boxVars
  <2> QED BY <2>2, <2>3
<1> QED BY <1>1, <1>2, WriteInvariant, PTL DEF Spec, ImplementsOutbox, Box!BoxSpec
=============================================================================
