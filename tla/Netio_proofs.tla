---------------------------- MODULE Netio_proofs ----------------------------
(***************************************************************************)
(* TLAPS proofs about Netio: the type invariant, and the invariant that    *)
(* ties the write queue to the one outstanding write, for every number of  *)
(* connections, packets and bytes, every fault, and a program that may     *)
(* dial, stop and send at any moment.                                      *)
(*                                                                         *)
(* The lemmas are about single actions and need no more types than those   *)
(* actions do, so that the proofs about the programs on top of Netio can   *)
(* cite them too.                                                          *)
(***************************************************************************)
EXTENDS Netio, TLAPS

\* TypeOK but for the calls that are due, which a program may add to.
SocketTypeOK ==
    /\ link \in {"closed", "open", "connected"}
    /\ conn \in Nat
    /\ ops \subseteq Op
    /\ retries \in Nat
    /\ ready \in Seq(Op)
    /\ m_handshake_finished \in BOOLEAN
    /\ m_write_in_process \in BOOLEAN
    /\ m_stop_requested \in BOOLEAN
    /\ m_buffers \in Seq(Nat)
    /\ sends \in Nat
    /\ wire \in Seq(Chunk)

LEMMA CancelledType ==
    ASSUME NEW S, S \subseteq Op
    PROVE  Cancelled(S) \subseteq Op
BY DEF Cancelled, Op, Codes

LEMMA StartedType ==
    ASSUME conn \in Nat, NEW kind \in OpKinds, NEW pkt \in Nat, NEW left \in Nat
    PROVE  Started(kind, pkt, left) \subseteq Op
BY DEF Started, Op, Codes

LEMMA LaunchType ==
    ASSUME SocketTypeOK, NEW kind \in OpKinds, NEW pkt \in Nat, NEW left \in Nat,
           Launch(kind, pkt, left)
    PROVE  ops' \subseteq Op
BY StartedType DEF Launch, SocketTypeOK

LEMMA HeadTail ==
    ASSUME NEW S, NEW s \in Seq(S), s # <<>>
    PROVE  Head(s) \in S /\ Tail(s) \in Seq(S)
OBVIOUS

Calls == Callbacks \cup Continuations

LEMMA CallsType ==
    {"connected", "connect_failed", "handshaked", "handshake_failed", "error",
     "stopped", "invoke", "read_header", "stop"} = Calls
BY DEF Calls, Callbacks, Continuations

LEMMA EmptySeqType == \A S : <<>> \in Seq(S)
OBVIOUS

LEMMA PollType ==
    ASSUME SocketTypeOK, NEW kind, Poll(kind)
    PROVE  Head(ready) \in Op /\ Head(ready).kind = kind /\ ready' \in Seq(Op)
BY HeadTail DEF Poll, SocketTypeOK

LEMMA DropType ==
    ASSUME SocketTypeOK, DropSession
    PROVE  /\ link' \in {"closed", "open", "connected"} /\ conn' \in Nat
           /\ ops' \subseteq Op /\ retries' \in Nat
           /\ m_handshake_finished' \in BOOLEAN
BY CancelledType DEF DropSession, close_or_realloc_socket, SocketTypeOK

LEMMA ConnectType ==
    ASSUME SocketTypeOK, async_connect
    PROVE  link' = "open" /\ ops' \subseteq Op
<1>1. [kind |-> "connect", conn |-> conn, pkt |-> 0, left |-> 0, ec |-> "pending"] \in Op
  BY DEF SocketTypeOK, Op, OpKinds, Codes
<1> QED BY <1>1, CancelledType DEF async_connect, SocketTypeOK

\* impl::send on a packet that has a number.
LEMMA SendType ==
    ASSUME SocketTypeOK, NEW pkt \in Nat, StartOrQueue(pkt)
    PROVE  /\ ops' \subseteq Op /\ m_write_in_process' \in BOOLEAN
           /\ m_buffers' \in Seq(Nat)
<1>1. CASE m_write_in_process
  <2>1. m_buffers' = Append(m_buffers, pkt) /\ UNCHANGED <<m_write_in_process, ops>>
    BY <1>1 DEF StartOrQueue
  <2> QED BY <2>1 DEF SocketTypeOK
<1>2. CASE ~m_write_in_process
  <2>1. ops' \subseteq Op
    BY <1>2, LaunchType, NetioAssumption DEF StartOrQueue, OpKinds
  <2> QED BY <1>2, <2>1 DEF StartOrQueue, SocketTypeOK
<1> QED BY <1>1, <1>2

-----------------------------------------------------------------------------
(* Types. *)

LEMMA TypeInit == Init => TypeOK
<1>1. /\ <<>> \in Seq(Op) /\ <<>> \in Seq(Callbacks \cup Continuations)
      /\ <<>> \in Seq(Nat) /\ <<>> \in Seq(Chunk)
  BY EmptySeqType
<1>2. 0 \in Nat /\ {} \subseteq Op
  OBVIOUS
<1> QED BY <1>1, <1>2 DEF Init, TypeOK

\* A completion queued: what System does to the socket.
LEMMA SystemType == SocketTypeOK /\ System => SocketTypeOK'
<1> SUFFICES ASSUME SocketTypeOK, System PROVE SocketTypeOK'
  OBVIOUS
<1>1. CASE Post
  BY <1>1 DEF Post, SocketTypeOK, flagVars, writeVars
<1>2. CASE ConnectDone
  <2>1. PICK o \in ops : o.kind = "connect" /\ ops' = ops \ {o}
                         /\ ready' \in {Append(ready, [o EXCEPT !.ec = c]) : c \in Codes}
                         /\ link' \in {link, "connected"} /\ conn' \in {conn, conn + 1}
    BY <1>2 DEF ConnectDone, Codes
  <2>2. \A c \in Codes : [o EXCEPT !.ec = c] \in Op
    BY <2>1 DEF SocketTypeOK, Op
  <2>3. ready' \in Seq(Op)
    <3>1. PICK c \in Codes : ready' = Append(ready, [o EXCEPT !.ec = c])
      BY <2>1
    <3> QED BY <3>1, <2>2 DEF SocketTypeOK
  <2> QED BY <1>2, <2>1, <2>3 DEF ConnectDone, SocketTypeOK, flagVars, writeVars
<1>3. CASE Transfer
  <2>1. PICK o \in ops : \E n \in 1 .. o.left :
           /\ ops' = ops \ {o}
           /\ ready' = Append(ready, [o EXCEPT !.ec = "ok", !.left = @ - n])
           /\ wire' = IF o.kind = "write"
                      THEN Append(wire, [pkt |-> o.pkt, from |-> o.left,
                                         n |-> n, conn |-> conn,
                                         secure |-> m_handshake_finished])
                      ELSE wire
    BY <1>3 DEF Transfer, Moved
  <2>a. PICK n \in 1 .. o.left :
           /\ ops' = ops \ {o}
           /\ ready' = Append(ready, [o EXCEPT !.ec = "ok", !.left = @ - n])
           /\ wire' = IF o.kind = "write"
                      THEN Append(wire, [pkt |-> o.pkt, from |-> o.left,
                                         n |-> n, conn |-> conn,
                                         secure |-> m_handshake_finished])
                      ELSE wire
    BY <2>1
  <2>2. o \in Op /\ o.left \in Nat /\ n \in Nat /\ o.left - n \in Nat
    BY <2>a DEF SocketTypeOK, Op
  <2>3. [o EXCEPT !.ec = "ok", !.left = @ - n] \in Op
    BY <2>2 DEF Op, Codes
  <2>4. ready' \in Seq(Op)
    BY <2>a, <2>3 DEF SocketTypeOK
  <2>5. [pkt |-> o.pkt, from |-> o.left, n |-> n, conn |-> conn,
         secure |-> m_handshake_finished] \in Chunk
    BY <2>2 DEF SocketTypeOK, Op, Chunk
  <2>6. wire' \in Seq(Chunk)
    BY <2>a, <2>5 DEF SocketTypeOK
  <2> QED BY <1>3, <2>a, <2>4, <2>6 DEF Transfer, SocketTypeOK, flagVars, writeVars
<1>4. CASE TransferFails
  <2>1. PICK o \in ops : /\ ops' = ops \ {o}
                         /\ ready' = Append(ready, [o EXCEPT !.ec = "error"])
    BY <1>4 DEF TransferFails
  <2>2. [o EXCEPT !.ec = "error"] \in Op
    BY <2>1 DEF SocketTypeOK, Op, Codes
  <2> QED BY <1>4, <2>1, <2>2 DEF TransferFails, SocketTypeOK, flagVars, writeVars
<1>5. CASE TimerFires
  <2>1. [kind |-> "timer", conn |-> conn, pkt |-> 0, left |-> 0, ec |-> "ok"] \in Op
    BY DEF SocketTypeOK, Op, OpKinds, Codes
  <2> QED BY <1>5, <2>1 DEF TimerFires, SocketTypeOK, flagVars, writeVars
<1> QED BY <1>1, <1>2, <1>3, <1>4, <1>5 DEF System

\* What the handlers do to the socket and the write queue.
LEMMA HandlerType == SocketTypeOK /\ Handler => SocketTypeOK'
<1> SUFFICES ASSUME SocketTypeOK, Handler PROVE SocketTypeOK'
  OBVIOUS
<1> USE NetioAssumption
<1>1. CASE on_connected
  <2>1. ready' \in Seq(Op)
    BY <1>1, PollType DEF on_connected
  <2>2. retries' \in Nat
    BY <1>1 DEF on_connected, SocketTypeOK
  <2> QED BY <1>1, <2>1, <2>2 DEF on_connected, SocketTypeOK, flagVars, writeVars
<1>2. CASE on_retry
  <2>1. ready' \in Seq(Op)
    BY <1>2, PollType DEF on_retry
  <2> QED BY <1>2, <2>1, ConnectType DEF on_retry, SocketTypeOK, flagVars, writeVars
<1>3. CASE async_as_client_handshake_writen
  <2>1. ready' \in Seq(Op)
    BY <1>3, PollType DEF async_as_client_handshake_writen
  <2>2. CASE HandshakeFails
    BY <1>3, <2>1, <2>2, DropType
       DEF async_as_client_handshake_writen, HandshakeFails, SocketTypeOK, writeVars
  <2>3. CASE Launch("hsread", 0, 1) /\ UNCHANGED <<link, conn, retries, due, m_handshake_finished>>
    BY <1>3, <2>1, <2>3, LaunchType
       DEF async_as_client_handshake_writen, SocketTypeOK, writeVars, OpKinds, ReadKinds
  <2> QED BY <1>3, <2>2, <2>3 DEF async_as_client_handshake_writen
<1>4. CASE async_as_client_handshake_readed
  <2>1. ready' \in Seq(Op)
    BY <1>4, PollType DEF async_as_client_handshake_readed
  <2>2. CASE HandshakeFails
    BY <1>4, <2>1, <2>2, DropType
       DEF async_as_client_handshake_readed, HandshakeFails, SocketTypeOK, writeVars
  <2>3. CASE ~HandshakeFails
    BY <1>4, <2>1, <2>3
       DEF async_as_client_handshake_readed, SocketTypeOK, socketVars, writeVars
  <2> QED BY <2>2, <2>3
<1>5. CASE header_readed \/ body_readed
  <2>1. PICK kind \in {"header", "body"} : Poll(kind)
    BY <1>5 DEF header_readed, body_readed
  <2>2. Head(ready) \in Op /\ ready' \in Seq(Op) /\ Head(ready).left \in Nat
    BY <2>1, PollType DEF Op
  <2>3. UNCHANGED <<wire, writeVars>>
    BY <1>5 DEF header_readed, body_readed
  <2>4. CASE ReadFails \/ BadPacket
    <3>1. DropSession /\ m_stop_requested' \in BOOLEAN
      BY <2>4 DEF ReadFails, BadPacket, SocketTypeOK
    <3> QED BY <2>2, <2>3, <3>1, DropType DEF SocketTypeOK, writeVars
  <2>5. CASE \E k \in {"header", "body"}, l \in {ReadSize, Head(ready).left} :
               Launch(k, 0, l) /\ UNCHANGED <<link, conn, retries, due, flagVars>>
    <3>1. ops' \subseteq Op
      BY <2>2, <2>5, LaunchType DEF OpKinds, ReadKinds
    <3> QED BY <2>2, <2>3, <2>5, <3>1 DEF SocketTypeOK, flagVars, writeVars
  <2>6. CASE UNCHANGED <<socketVars, flagVars>>
    BY <2>2, <2>3, <2>6 DEF SocketTypeOK, socketVars, flagVars, writeVars
  <2>7. CASE header_readed
    BY <2>4, <2>5, <2>7 DEF header_readed, flagVars
  <2>8. CASE body_readed
    BY <2>4, <2>5, <2>6, <2>8 DEF body_readed, Dispatch, flagVars
  <2> QED BY <1>5, <2>7, <2>8
<1>6. CASE read_header
  <2>1. ops' \subseteq Op
    BY <1>6, LaunchType DEF read_header, OpKinds, ReadKinds
  <2> QED BY <1>6, <2>1 DEF read_header, SocketTypeOK, flagVars, writeVars
<1>7. CASE sent
  <2>1. Head(ready) \in Op /\ ready' \in Seq(Op)
        /\ Head(ready).left \in Nat /\ Head(ready).pkt \in Nat
    BY <1>7, PollType DEF sent, Op
  <2>2. CASE WriteFails
    BY <1>7, <2>1, <2>2, DropType, EmptySeqType DEF sent, WriteFails, SocketTypeOK
  <2>3. CASE /\ Launch("write", Head(ready).pkt, Head(ready).left)
             /\ UNCHANGED <<link, conn, retries, due, m_handshake_finished,
                            m_write_in_process, m_buffers>>
    BY <1>7, <2>1, <2>3, LaunchType DEF sent, SocketTypeOK, OpKinds
  <2>4. CASE /\ m_write_in_process' = FALSE /\ UNCHANGED socketVars
             /\ UNCHANGED <<due, m_handshake_finished, m_buffers>>
    BY <1>7, <2>1, <2>4 DEF sent, SocketTypeOK, socketVars
  <2>5. CASE /\ m_buffers # <<>> /\ StartNext
             /\ UNCHANGED <<link, conn, retries, due, m_handshake_finished>>
    <3>1. Head(m_buffers) \in Nat /\ m_buffers' \in Seq(Nat)
      BY <2>5, HeadTail DEF SocketTypeOK, StartNext
    <3>2. ops' \subseteq Op
      BY <2>5, <3>1, LaunchType DEF OpKinds, StartNext
    <3> QED BY <1>7, <2>1, <2>5, <3>1, <3>2 DEF sent, SocketTypeOK, StartNext
  <2> QED BY <1>7, <2>2, <2>3, <2>4, <2>5 DEF sent
<1>8. CASE stop_after_error
  BY <1>8, DropType DEF stop_after_error, StopEffect, SocketTypeOK, writeVars
<1> QED
  BY <1>1, <1>2, <1>3, <1>4, <1>5, <1>6, <1>7, <1>8 DEF Handler

\* What a program that keeps to Netio's own calls does to them.
LEMMA ProgramType == SocketTypeOK /\ Program => SocketTypeOK'
<1> SUFFICES ASSUME SocketTypeOK, Program PROVE SocketTypeOK'
  OBVIOUS
<1> USE NetioAssumption
<1>1. CASE Dial
  BY <1>1, ConnectType DEF Dial, SocketTypeOK, flagVars, writeVars
<1>2. CASE stop
  BY <1>2, DropType DEF stop, StopEffect, SocketTypeOK, writeVars
<1>3. CASE send_packet
  <2>1. sends' \in Nat /\ sends + 1 \in Nat
    BY <1>3 DEF send_packet, SocketTypeOK
  <2>2. CASE StartOrQueue(sends + 1)
    BY <1>3, <2>1, <2>2, SendType DEF send_packet, SocketTypeOK, flagVars
  <2>3. CASE UNCHANGED <<ops, m_write_in_process, m_buffers>>
    BY <1>3, <2>1, <2>3 DEF send_packet, SocketTypeOK, flagVars
  <2> QED BY <1>3, <2>2, <2>3 DEF send_packet
<1>4. CASE async_handshake
  <2>1. ops' \subseteq Op
    BY <1>4, LaunchType DEF async_handshake, OpKinds
  <2> QED BY <1>4, <2>1 DEF async_handshake, SocketTypeOK, flagVars, writeVars
<1>5. CASE start
  <2>1. ops' \subseteq Op
    BY <1>5, LaunchType DEF start, OpKinds, ReadKinds, SocketTypeOK
  <2> QED BY <1>5, <2>1 DEF start, SocketTypeOK, writeVars
<1>6. CASE Return
  BY <1>6 DEF Return, SocketTypeOK, socketVars, flagVars, writeVars
<1> QED BY <1>1, <1>2, <1>3, <1>4, <1>5, <1>6 DEF Program

\* What is due is called by somebody: every step keeps to a set of calls
\* that has Netio's own among them.
LEMMA DueType ==
    ASSUME NEW C, Calls \subseteq C, due \in Seq(C), Next
    PROVE  due' \in Seq(C)
<1>1. /\ <<>> \in Seq(C)
      /\ \A c \in Calls : <<c>> \in Seq(C)
      /\ \A c, d \in Calls : <<c, d>> \in Seq(C)
  OBVIOUS
<1>2. due # <<>> => Tail(due) \in Seq(C)
  BY HeadTail
<1>3. \A c \in Calls : \A s \in Seq(C) : <<c>> \o s \in Seq(C)
  OBVIOUS
<1>4. \A c, d \in Calls : \A s \in Seq(C) : <<c, d>> \o s \in Seq(C)
  OBVIOUS
<1>5. CASE System
  BY <1>5 DEF System, Post, ConnectDone, Transfer, TransferFails, TimerFires
<1>6. CASE Handler
  <2>1. \/ due' = due
        \/ due # <<>> /\ due' = Tail(due)
        \/ \E c \in Calls : due' = <<c>>
        \/ \E c, d \in Calls : due' = <<c, d>>
    <3>1. CASE on_connected \/ on_retry
      BY <3>1, CallsType DEF on_connected, on_retry
    <3>2. CASE async_as_client_handshake_writen \/ async_as_client_handshake_readed
      BY <3>2, CallsType DEF async_as_client_handshake_writen,
           async_as_client_handshake_readed, HandshakeFails
    <3>3. CASE header_readed
      BY <3>3, CallsType DEF header_readed, ReadFails, BadPacket
    <3>4. CASE body_readed
      BY <3>4, CallsType DEF body_readed, ReadFails, BadPacket, Dispatch
    <3>5. CASE read_header \/ stop_after_error
      BY <3>5 DEF read_header, stop_after_error
    <3>6. CASE sent
      BY <3>6, CallsType DEF sent, StartNext, WriteFails
    <3> QED BY <1>6, <3>1, <3>2, <3>3, <3>4, <3>5, <3>6 DEF Handler
  <2> QED BY <1>1, <1>2, <2>1
<1>7. CASE Program
  <2>1. \/ due' = due
        \/ due # <<>> /\ due' = Tail(due)
        \/ due # <<>> /\ due' = <<"error">> \o Tail(due)
        \/ due' = <<"error", "stop">> \o due
        \/ due' = <<"error">> \o due
    BY <1>7 DEF Program, Dial, stop, send_packet, async_handshake, start, Return,
                InCallback
  <2>2. "error" \in Calls /\ "stop" \in Calls
    BY CallsType
  <2>3. CASE due # <<>> /\ due' = <<"error">> \o Tail(due)
    BY <1>2, <1>3, <2>2, <2>3
  <2>4. CASE due' = <<"error", "stop">> \o due
    BY <1>4, <2>2, <2>4
  <2>5. CASE due' = <<"error">> \o due
    BY <1>3, <2>2, <2>5
  <2> QED BY <1>2, <2>1, <2>3, <2>4, <2>5
<1> QED BY <1>5, <1>6, <1>7 DEF Next

LEMMA TypeParts == TypeOK <=> SocketTypeOK /\ due \in Seq(Calls)
BY DEF TypeOK, SocketTypeOK, Calls

LEMMA TypeStep == TypeOK /\ [Next]_vars => TypeOK'
<1> SUFFICES ASSUME TypeOK, [Next]_vars PROVE TypeOK'
  OBVIOUS
<1>1. SocketTypeOK /\ due \in Seq(Calls)
  BY TypeParts
<1>2. CASE Next
  <2>1. SocketTypeOK'
    BY <1>1, <1>2, SystemType, HandlerType, ProgramType DEF Next
  <2>2. due' \in Seq(Calls)
    BY <1>1, <1>2, DueType
  <2> QED BY <2>1, <2>2 DEF TypeOK, SocketTypeOK, Calls
<1>3. CASE UNCHANGED vars
  BY <1>3 DEF TypeOK, vars
<1> QED BY <1>2, <1>3

(* Every variable keeps its type: in particular no handler leaves a call
   that nobody makes in `due', nor an operation nobody handles. *)
THEOREM TypeCorrect == Spec => []TypeOK
BY TypeInit, TypeStep, PTL DEF Spec

-----------------------------------------------------------------------------
(* Operations of some kinds, in a set of operations and a queue of their     *)
(* completions: what the few things the code does to such a pair (queue a    *)
(* completion, run the oldest handler, cancel, start) do to them.            *)

HoldsIn(K, S, s) ==
    \/ \E o \in S : o.kind \in K
    \/ \E i \in DOMAIN s : s[i].kind \in K

\* At most one operation of these kinds.
Alone(K, S, s) ==
    /\ \/ \A o \in S : o.kind \notin K
       \/ \A i \in DOMAIN s : s[i].kind \notin K
    /\ \A o1, o2 \in S : o1.kind \in K /\ o2.kind \in K => o1 = o2
    /\ \A i, j \in DOMAIN s : s[i].kind \in K /\ s[j].kind \in K => i = j

LEMMA AppendAt ==
    ASSUME NEW s \in Seq(Op), NEW e \in Op
    PROVE  /\ DOMAIN Append(s, e) = DOMAIN s \cup {Len(s) + 1}
           /\ \A i \in DOMAIN s : Append(s, e)[i] = s[i]
           /\ Append(s, e)[Len(s) + 1] = e
           /\ Len(s) + 1 \notin DOMAIN s
OBVIOUS

LEMMA TailAt ==
    ASSUME NEW s \in Seq(Op), s # <<>>
    PROVE  /\ 1 \in DOMAIN s /\ Head(s) = s[1]
           /\ \A i \in DOMAIN Tail(s) : i + 1 \in DOMAIN s /\ Tail(s)[i] = s[i + 1] /\ i \in Nat
           /\ \A i \in DOMAIN s : i = 1 \/ (i - 1 \in DOMAIN Tail(s) /\ Tail(s)[i - 1] = s[i])
<1>1. DOMAIN s = 1 .. Len(s) /\ Len(s) \in Nat /\ Len(s) > 0 /\ Head(s) = s[1]
  OBVIOUS
<1>2. DOMAIN Tail(s) = 1 .. Len(s) - 1
  OBVIOUS
<1>3. \A i \in 1 .. Len(s) - 1 : Tail(s)[i] = s[i + 1]
  OBVIOUS
<1> QED BY <1>1, <1>2, <1>3

LEMMA AppendOne ==
    ASSUME NEW K, NEW S, NEW s \in Seq(Op), NEW e \in Op
    PROVE  /\ HoldsIn(K, S, Append(s, e)) <=> HoldsIn(K, S, s) \/ e.kind \in K
           /\ Alone(K, S, s) /\ (e.kind \in K => ~HoldsIn(K, S, s))
                => Alone(K, S, Append(s, e))
BY AppendAt DEF HoldsIn, Alone

LEMMA MoveOne ==
    ASSUME NEW K, NEW S, NEW s \in Seq(Op), NEW o \in S, NEW e \in Op, e.kind = o.kind
    PROVE  /\ HoldsIn(K, S \ {o}, Append(s, e)) <=> HoldsIn(K, S, s)
           /\ Alone(K, S, s) => Alone(K, S \ {o}, Append(s, e))
<1>1. HoldsIn(K, S \ {o}, Append(s, e)) <=> HoldsIn(K, S, s)
  BY AppendAt DEF HoldsIn
<1>2. ASSUME Alone(K, S, s) PROVE Alone(K, S \ {o}, Append(s, e))
  <2>1. CASE e.kind \in K
    <3>1. \A i \in DOMAIN s : s[i].kind \notin K
      BY <1>2, <2>1 DEF Alone
    <3>2. \A p \in S \ {o} : p.kind \notin K
      BY <1>2, <2>1 DEF Alone
    <3> QED BY <3>1, <3>2, AppendAt DEF Alone
  <2>2. CASE e.kind \notin K
    BY <1>2, <2>2, AppendAt DEF Alone
  <2> QED BY <2>1, <2>2
<1> QED BY <1>1, <1>2

LEMMA CancelOne ==
    ASSUME NEW K, NEW S, S \subseteq Op, NEW s
    PROVE  /\ HoldsIn(K, Cancelled(S), s) <=> HoldsIn(K, S, s)
           /\ Alone(K, S, s) => Alone(K, Cancelled(S), s)
<1> DEFINE C(o) == IF o.ec = "pending" THEN [o EXCEPT !.ec = "aborted"] ELSE o
<1>1. \A o \in S : C(o).kind = o.kind
  BY DEF Op
<1>2. Cancelled(S) = { C(o) : o \in S }
  BY DEF Cancelled
<1> HIDE DEF C
<1>3. HoldsIn(K, Cancelled(S), s) <=> HoldsIn(K, S, s)
  BY <1>1, <1>2 DEF HoldsIn
<1>4. Alone(K, S, s) => Alone(K, Cancelled(S), s)
  BY <1>1, <1>2 DEF Alone
<1> QED BY <1>3, <1>4

LEMMA TailOne ==
    ASSUME NEW K, NEW S, NEW s \in Seq(Op), s # <<>>
    PROVE  /\ HoldsIn(K, S, s) <=> HoldsIn(K, S, Tail(s)) \/ Head(s).kind \in K
           /\ Alone(K, S, s) => /\ Alone(K, S, Tail(s))
                                /\ Head(s).kind \in K => ~HoldsIn(K, S, Tail(s))
<1>1. HoldsIn(K, S, s) <=> HoldsIn(K, S, Tail(s)) \/ Head(s).kind \in K
  BY TailAt DEF HoldsIn
<1>2. ASSUME Alone(K, S, s) PROVE Alone(K, S, Tail(s))
  <2>1. \A i, j \in DOMAIN Tail(s) :
            Tail(s)[i].kind \in K /\ Tail(s)[j].kind \in K => i = j
    BY <1>2, TailAt DEF Alone
  <2> QED BY <1>2, <2>1, TailAt DEF Alone
<1>3. ASSUME Alone(K, S, s), Head(s).kind \in K PROVE ~HoldsIn(K, S, Tail(s))
  <2>1. \A i \in DOMAIN s : s[i].kind \in K => i = 1
    BY <1>3, TailAt DEF Alone
  <2>2. \A i \in DOMAIN Tail(s) : Tail(s)[i].kind \notin K
    BY <2>1, TailAt
  <2>3. \A o \in S : o.kind \notin K
    BY <1>3, TailAt DEF Alone
  <2> QED BY <2>2, <2>3 DEF HoldsIn
<1> QED BY <1>1, <1>2, <1>3

LEMMA AddOne ==
    ASSUME NEW K, NEW S, NEW s, NEW o
    PROVE  /\ HoldsIn(K, S \cup {o}, s) <=> HoldsIn(K, S, s) \/ o.kind \in K
           /\ Alone(K, S, s) /\ (o.kind \in K => ~HoldsIn(K, S, s))
                => Alone(K, S \cup {o}, s)
<1>1. HoldsIn(K, S \cup {o}, s) <=> HoldsIn(K, S, s) \/ o.kind \in K
  BY DEF HoldsIn
<1>2. Alone(K, S, s) /\ (o.kind \in K => ~HoldsIn(K, S, s)) => Alone(K, S \cup {o}, s)
  BY DEF HoldsIn, Alone
<1> QED BY <1>1, <1>2

\* The same, said of the steps of the program.

LEMMA LaunchOne ==
    ASSUME NEW K, NEW kind, NEW pkt, NEW left, Launch(kind, pkt, left), NEW s
    PROVE  /\ HoldsIn(K, ops', s) <=> HoldsIn(K, ops, s) \/ kind \in K
           /\ Alone(K, ops, s) /\ (kind \in K => ~HoldsIn(K, ops, s))
                => Alone(K, ops', s)
<1>1. PICK o \in Started(kind, pkt, left) : ops' = ops \cup {o}
  BY DEF Launch
<1>2. o.kind = kind
  BY DEF Started
<1> QED BY <1>1, <1>2, AddOne

LEMMA PollOne ==
    ASSUME SocketTypeOK, NEW K, NEW kind, Poll(kind), NEW S
    PROVE  /\ HoldsIn(K, S, ready) <=> HoldsIn(K, S, ready') \/ kind \in K
           /\ Alone(K, S, ready) => /\ Alone(K, S, ready')
                                    /\ kind \in K => ~HoldsIn(K, S, ready')
<1>1. ready \in Seq(Op) /\ ready # <<>>
  BY DEF Poll, SocketTypeOK
<1>2. Head(ready).kind = kind /\ ready' = Tail(ready)
  BY DEF Poll
<1> QED BY <1>1, <1>2, TailOne

LEMMA DropOne ==
    ASSUME SocketTypeOK, DropSession, NEW K, NEW s
    PROVE  /\ HoldsIn(K, ops', s) <=> HoldsIn(K, ops, s)
           /\ Alone(K, ops, s) => Alone(K, ops', s)
BY CancelOne DEF DropSession, close_or_realloc_socket, SocketTypeOK

LEMMA ConnectOne ==
    ASSUME SocketTypeOK, async_connect, NEW K, NEW s
    PROVE  /\ HoldsIn(K, ops', s) <=> HoldsIn(K, ops, s) \/ "connect" \in K
           /\ Alone(K, ops, s) /\ ("connect" \in K => ~HoldsIn(K, ops, s))
                => Alone(K, ops', s)
<1> DEFINE c == [kind |-> "connect", conn |-> conn, pkt |-> 0, left |-> 0, ec |-> "pending"]
<1>1. c.kind = "connect"
  OBVIOUS
<1>2. ops' = Cancelled(ops) \cup {c} /\ ops \subseteq Op
  BY DEF async_connect, SocketTypeOK
<1> HIDE DEF c
<1>3. /\ HoldsIn(K, Cancelled(ops), s) <=> HoldsIn(K, ops, s)
      /\ Alone(K, ops, s) => Alone(K, Cancelled(ops), s)
  BY <1>2, CancelOne
<1>4. /\ HoldsIn(K, Cancelled(ops) \cup {c}, s) <=> HoldsIn(K, Cancelled(ops), s) \/ c.kind \in K
      /\ Alone(K, Cancelled(ops), s) /\ (c.kind \in K => ~HoldsIn(K, Cancelled(ops), s))
           => Alone(K, Cancelled(ops) \cup {c}, s)
  BY AddOne
<1> QED BY <1>1, <1>2, <1>3, <1>4

\* An operation completes in the operating system, a timer by itself.
LEMMA CompleteOne ==
    ASSUME SocketTypeOK, System, NEW K
    PROVE  \/ /\ HoldsIn(K, ops', ready') <=> HoldsIn(K, ops, ready)
              /\ Alone(K, ops, ready) => Alone(K, ops', ready')
              /\ UNCHANGED retries
           \/ /\ TimerFires
              /\ HoldsIn(K, ops', ready') <=> HoldsIn(K, ops, ready) \/ "timer" \in K
              /\ Alone(K, ops, ready) /\ ("timer" \in K => ~HoldsIn(K, ops, ready))
                   => Alone(K, ops', ready')
<1>0. ready \in Seq(Op) /\ ops \subseteq Op
  BY DEF SocketTypeOK
<1>1. CASE TimerFires
  <2> DEFINE e == [kind |-> "timer", conn |-> conn, pkt |-> 0, left |-> 0, ec |-> "ok"]
  <2>1. e \in Op /\ e.kind = "timer"
    BY DEF SocketTypeOK, Op, OpKinds, Codes
  <2>2. ready' = Append(ready, e) /\ ops' = ops
    BY <1>1 DEF TimerFires
  <2> HIDE DEF e
  <2> QED BY <1>0, <1>1, <2>1, <2>2, AppendOne
<1>2. CASE Post \/ ConnectDone \/ TransferFails \/ Transfer
  <2>1. PICK o \in ops, e \in Op : e.kind = o.kind /\ ops' = ops \ {o} /\ ready' = Append(ready, e)
    <3>1. CASE Post
      BY <1>0, <3>1 DEF Post
    <3>2. CASE ConnectDone
      <4>1. PICK o \in ops : /\ ops' = ops \ {o}
                             /\ \E c \in {"ok", "refused", "error"} :
                                  ready' = Append(ready, [o EXCEPT !.ec = c])
        BY <3>2 DEF ConnectDone
      <4>2. \A c \in {"ok", "refused", "error"} :
               [o EXCEPT !.ec = c] \in Op /\ [o EXCEPT !.ec = c].kind = o.kind
        BY <1>0 DEF Op, Codes
      <4> QED BY <4>1, <4>2
    <3>3. CASE TransferFails
      <4>1. PICK o \in ops : ops' = ops \ {o} /\ ready' = Append(ready, [o EXCEPT !.ec = "error"])
        BY <3>3 DEF TransferFails
      <4>2. [o EXCEPT !.ec = "error"] \in Op /\ [o EXCEPT !.ec = "error"].kind = o.kind
        BY <1>0 DEF Op, Codes
      <4> QED BY <4>1, <4>2
    <3>4. CASE Transfer
      <4>1. PICK o \in ops : /\ ops' = ops \ {o}
                             /\ \E n \in 1 .. o.left :
                                  ready' = Append(ready, [o EXCEPT !.ec = "ok", !.left = @ - n])
        BY <3>4 DEF Transfer, Moved
      <4>2. \A n \in 1 .. o.left :
               /\ [o EXCEPT !.ec = "ok", !.left = @ - n] \in Op
               /\ [o EXCEPT !.ec = "ok", !.left = @ - n].kind = o.kind
        <5>1. o \in Op /\ o.left \in Nat
          BY <1>0 DEF Op
        <5>2. \A n \in 1 .. o.left : o.left - n \in Nat
          BY <5>1
        <5> QED BY <5>1, <5>2 DEF Op, Codes
      <4> QED BY <4>1, <4>2
    <3> QED BY <1>2, <3>1, <3>2, <3>3, <3>4
  <2>2. UNCHANGED retries
    BY <1>2 DEF Post, ConnectDone, TransferFails, Transfer
  <2> QED BY <1>0, <2>1, <2>2, MoveOne
<1> QED BY <1>1, <1>2 DEF System

-----------------------------------------------------------------------------
(* The write in process.                                                   *)

\* The inductive invariant: m_write_in_process is what `sent' and `send'
\* agree on, and m_buffers is only filled while it is set.
QueueInv ==
    /\ Alone({"write"}, ops, ready)
    /\ m_write_in_process <=> HoldsIn({"write"}, ops, ready)
    /\ NothingStranded

LEMMA OneWriterParts ==
    OneWriter <=> /\ Alone({"write"}, ops, ready)
                  /\ m_write_in_process <=> HoldsIn({"write"}, ops, ready)
BY DEF OneWriter, Alone, HoldsIn, PendingOps, DoneOps

\* What leaves the writes and the write queue alone keeps it.
LEMMA QueueKept ==
    ASSUME SocketTypeOK, QueueInv, UNCHANGED <<m_write_in_process, m_buffers>>,
           \/ ready' = ready
           \/ \E kind \in OpKinds \ {"write"} : Poll(kind),
           \/ ops' = ops
           \/ DropSession
           \/ async_connect
           \/ \E k \in OpKinds \ {"write"}, l \in Nat : Launch(k, 0, l)
    PROVE  QueueInv'
<1> DEFINE W == {"write"}
<1>1. /\ Alone(W, ops, ready') /\ (HoldsIn(W, ops, ready') <=> HoldsIn(W, ops, ready))
  BY PollOne DEF QueueInv
<1>2. /\ Alone(W, ops', ready') /\ (HoldsIn(W, ops', ready') <=> HoldsIn(W, ops, ready'))
  <2>1. CASE DropSession
    BY <1>1, <2>1, DropOne
  <2>2. CASE async_connect
    BY <1>1, <2>2, ConnectOne
  <2>3. CASE \E k \in OpKinds \ {"write"}, l \in Nat : Launch(k, 0, l)
    BY <1>1, <2>3, LaunchOne
  <2> QED BY <1>1, <2>1, <2>2, <2>3
<1> QED BY <1>1, <1>2 DEF QueueInv, NothingStranded

\* The packet handed to impl::send is the write in process or waits for it.
LEMMA QueueSend ==
    ASSUME QueueInv, NEW pkt, StartOrQueue(pkt), UNCHANGED ready
    PROVE  QueueInv'
<1>1. CASE m_write_in_process
  BY <1>1 DEF QueueInv, StartOrQueue, NothingStranded
<1>2. CASE ~m_write_in_process
  <2>1. /\ Launch("write", pkt, Size) /\ ready' = ready
        /\ m_write_in_process' = TRUE /\ ~HoldsIn({"write"}, ops, ready)
        /\ Alone({"write"}, ops, ready)
    BY <1>2 DEF QueueInv, StartOrQueue
  <2>2. Alone({"write"}, ops', ready') /\ HoldsIn({"write"}, ops', ready')
    BY <2>1, LaunchOne
  <2> QED BY <2>1, <2>2 DEF QueueInv, NothingStranded
<1> QED BY <1>1, <1>2

\* The handler of a write clears the flag or starts the next write.
LEMMA QueueSent ==
    ASSUME SocketTypeOK, QueueInv, sent
    PROVE  QueueInv'
<1> DEFINE W == {"write"}
<1>1. m_write_in_process /\ Alone(W, ops, ready') /\ ~HoldsIn(W, ops, ready')
  BY PollOne DEF sent, QueueInv
<1>2. CASE \E pkt, left : Launch("write", pkt, left) /\ m_write_in_process' = TRUE
  <2>1. Alone(W, ops', ready') /\ HoldsIn(W, ops', ready')
    BY <1>1, <1>2, LaunchOne
  <2> QED BY <1>2, <2>1 DEF QueueInv, NothingStranded
<1>3. CASE m_write_in_process' = FALSE /\ m_buffers' = <<>> /\ ops' = ops
  BY <1>1, <1>3 DEF QueueInv, NothingStranded
<1>4. CASE m_write_in_process' = FALSE /\ m_buffers' = <<>> /\ DropSession
  <2>1. Alone(W, ops', ready') /\ ~HoldsIn(W, ops', ready')
    BY <1>1, <1>4, DropOne
  <2> QED BY <1>4, <2>1 DEF QueueInv, NothingStranded
<1>5. \/ \E pkt, left : Launch("write", pkt, left) /\ m_write_in_process' = TRUE
      \/ m_write_in_process' = FALSE /\ m_buffers' = <<>> /\ ops' = ops
      \/ m_write_in_process' = FALSE /\ m_buffers' = <<>> /\ DropSession
  <2>1. CASE m_write_in_process' = m_write_in_process
    BY <1>1, <2>1 DEF sent, StartNext, WriteFails, socketVars
  <2> QED BY <1>1, <2>1 DEF sent, StartNext, WriteFails, socketVars
<1> QED BY <1>2, <1>3, <1>4, <1>5

LEMMA QueueSystem ==
    ASSUME SocketTypeOK, QueueInv, System
    PROVE  QueueInv'
<1>1. UNCHANGED <<m_write_in_process, m_buffers>>
  BY DEF System, Post, ConnectDone, Transfer, TransferFails, TimerFires, writeVars
<1>2. /\ HoldsIn({"write"}, ops', ready') <=> HoldsIn({"write"}, ops, ready)
      /\ Alone({"write"}, ops', ready')
  BY CompleteOne DEF QueueInv
<1> QED BY <1>1, <1>2 DEF QueueInv, NothingStranded

LEMMA LoopKindsOf ==
    /\ {"hsread", "header", "body", "connect", "hswrite", "timer"} = OpKinds \ {"write"}
    /\ ReadSize \in Nat /\ Size \in Nat /\ 0 \in Nat /\ 1 \in Nat
BY NetioAssumption DEF OpKinds, ReadKinds

LEMMA QueueHandler ==
    ASSUME SocketTypeOK, QueueInv, Handler \/ async_handshake
    PROVE  QueueInv'
<1>1. CASE on_connected \/ on_retry
  BY <1>1, QueueKept, LoopKindsOf DEF on_connected, on_retry, writeVars
<1>2. CASE async_as_client_handshake_writen
  BY <1>2, QueueKept, LoopKindsOf
     DEF async_as_client_handshake_writen, HandshakeFails, writeVars
<1>3. CASE async_as_client_handshake_readed
  BY <1>3, QueueKept, LoopKindsOf
     DEF async_as_client_handshake_readed, HandshakeFails, writeVars, socketVars
<1>4. CASE header_readed \/ body_readed
  <2>1. PICK kind \in {"header", "body"} : Poll(kind)
    BY <1>4 DEF header_readed, body_readed
  <2>2. Head(ready).left \in Nat
    BY <2>1, PollType DEF Op
  <2>3. \/ ops' = ops
        \/ DropSession
        \/ \E k \in OpKinds \ {"write"}, l \in Nat : Launch(k, 0, l)
    BY <1>4, <2>2, LoopKindsOf
       DEF header_readed, body_readed, Dispatch, ReadFails, BadPacket, socketVars
  <2>4. UNCHANGED <<m_write_in_process, m_buffers>>
    BY <1>4 DEF header_readed, body_readed, writeVars
  <2>5. kind \in OpKinds \ {"write"}
    BY <2>1, LoopKindsOf
  <2> QED BY <2>1, <2>3, <2>4, <2>5, QueueKept
<1>5. CASE read_header \/ async_handshake
  BY <1>5, QueueKept, LoopKindsOf DEF read_header, async_handshake, writeVars
<1>6. CASE sent
  BY <1>6, QueueSent
<1>7. CASE stop_after_error
  BY <1>7, QueueKept DEF stop_after_error, StopEffect, writeVars
<1> QED BY <1>1, <1>2, <1>3, <1>4, <1>5, <1>6, <1>7 DEF Handler

LEMMA QueueProgram ==
    ASSUME SocketTypeOK, QueueInv, Program
    PROVE  QueueInv'
<1>1. CASE Dial
  BY <1>1, QueueKept DEF Dial, writeVars
<1>2. CASE stop
  BY <1>2, QueueKept DEF stop, StopEffect, writeVars
<1>3. CASE send_packet
  <2>1. CASE StartOrQueue(sends + 1)
    BY <1>3, <2>1, QueueSend DEF send_packet
  <2>2. CASE UNCHANGED <<ops, m_write_in_process, m_buffers>>
    BY <1>3, <2>2, QueueKept DEF send_packet
  <2> QED BY <1>3, <2>1, <2>2 DEF send_packet
<1>4. CASE async_handshake
  BY <1>4, QueueHandler
<1>5. CASE start
  BY <1>5, QueueKept, LoopKindsOf DEF start, writeVars
<1>6. CASE Return
  BY <1>6, QueueKept DEF Return, socketVars, writeVars
<1> QED BY <1>1, <1>2, <1>3, <1>4, <1>5, <1>6 DEF Program

WriteInv == TypeOK /\ QueueInv

LEMMA WriteInit == Init => WriteInv
<1> SUFFICES ASSUME Init PROVE WriteInv
  OBVIOUS
<1>1. TypeOK
  BY TypeInit
<1>2. DOMAIN ready = {}
  BY DEF Init
<1> QED BY <1>1, <1>2 DEF WriteInv, QueueInv, Init, HoldsIn, Alone, NothingStranded

LEMMA WriteStep == WriteInv /\ [Next]_vars => WriteInv'
<1> SUFFICES ASSUME WriteInv, [Next]_vars PROVE WriteInv'
  OBVIOUS
<1>1. TypeOK' /\ SocketTypeOK /\ QueueInv
  BY TypeStep, TypeParts DEF WriteInv
<1>2. CASE Next
  BY <1>1, <1>2, QueueSystem, QueueHandler, QueueProgram DEF Next, WriteInv
<1>3. CASE UNCHANGED vars
  BY <1>1, <1>3 DEF vars, WriteInv, QueueInv, NothingStranded
<1> QED BY <1>2, <1>3

THEOREM WriteInvariant == Spec => []WriteInv
BY WriteInit, WriteStep, PTL DEF Spec

(* There is never more than one write of the program's packets under way,
   through stop(), errors and reconnections (send 1283-1299, sent 1301-1392). *)
THEOREM OneWriterCorrect == Spec => []OneWriter
<1>1. WriteInv => OneWriter
  BY OneWriterParts DEF WriteInv, QueueInv
<1> QED BY <1>1, WriteInvariant, PTL

(* No packet waits in m_buffers without a write whose completion starts it. *)
THEOREM NothingStrandedCorrect == Spec => []NothingStranded
<1>1. WriteInv => NothingStranded
  BY DEF WriteInv, QueueInv
<1> QED BY <1>1, WriteInvariant, PTL

-----------------------------------------------------------------------------
(* A thread of operations: among the operations of some kinds at most one,   *)
(* whose handler starts the next.  Token says which kind it is of.           *)

Token(K, k, S, s) ==
    /\ Alone(K, S, s)
    /\ \A L \in SUBSET K : HoldsIn(L, S, s) <=> k \in L

LEMMA TokenOfAlone ==
    ASSUME NEW K, NEW S, NEW s, Alone(K, S, s), "none" \notin K
    PROVE  \E k \in K \cup {"none"} : Token(K, k, S, s)
<1>1. CASE \E o \in S : o.kind \in K
  <2>1. PICK o \in S : o.kind \in K
    BY <1>1
  <2>2. \A p \in S : p.kind \in K => p = o
    BY <2>1 DEF Alone
  <2>3. \A i \in DOMAIN s : s[i].kind \notin K
    BY <2>1 DEF Alone
  <2>4. \A L \in SUBSET K : HoldsIn(L, S, s) <=> o.kind \in L
    BY <2>1, <2>2, <2>3 DEF HoldsIn
  <2> QED BY <2>1, <2>4 DEF Token
<1>2. CASE \E i \in DOMAIN s : s[i].kind \in K
  <2>1. PICK i \in DOMAIN s : s[i].kind \in K
    BY <1>2
  <2>2. \A j \in DOMAIN s : s[j].kind \in K => i = j
    BY <2>1 DEF Alone
  <2>3. \A o \in S : o.kind \notin K
    BY <2>1 DEF Alone
  <2>4. \A L \in SUBSET K : HoldsIn(L, S, s) <=> s[i].kind \in L
    BY <2>1, <2>2, <2>3 DEF HoldsIn
  <2> QED BY <2>1, <2>4 DEF Token
<1>3. CASE ~HoldsIn(K, S, s)
  <2>1. \A L \in SUBSET K : ~HoldsIn(L, S, s)
    BY <1>3 DEF HoldsIn
  <2> QED BY <2>1 DEF Token
<1> QED BY <1>1, <1>2, <1>3 DEF HoldsIn

\* The handler that runs is the token's, if it is of these kinds.
LEMMA PollToken ==
    ASSUME SocketTypeOK, NEW K, NEW k, Token(K, k, ops, ready), NEW kind, Poll(kind),
           "none" \notin K
    PROVE  /\ kind \in K => k = kind /\ Token(K, "none", ops, ready')
           /\ kind \notin K => Token(K, k, ops, ready')
<1>1. Alone(K, ops, ready')
  BY PollOne DEF Token
<1>2. \A L \in SUBSET K : HoldsIn(L, ops, ready) <=> HoldsIn(L, ops, ready') \/ kind \in L
  BY PollOne
<1>3. ASSUME kind \in K PROVE k = kind /\ Token(K, "none", ops, ready')
  <2>1. HoldsIn({kind}, ops, ready)
    BY <1>2, <1>3
  <2>2. k = kind
    BY <1>3, <2>1 DEF Token
  <2>3. ~HoldsIn(K, ops, ready')
    BY <1>3, PollOne DEF Token
  <2>4. \A L \in SUBSET K : ~HoldsIn(L, ops, ready')
    BY <2>3 DEF HoldsIn
  <2> QED BY <1>1, <2>2, <2>4 DEF Token
<1>4. ASSUME kind \notin K PROVE Token(K, k, ops, ready')
  BY <1>1, <1>2, <1>4 DEF Token
<1> QED BY <1>3, <1>4

LEMMA LaunchToken ==
    ASSUME NEW K, NEW k, NEW s, Token(K, k, ops, s), NEW kind, NEW pkt, NEW left,
           Launch(kind, pkt, left), "none" \notin K
    PROVE  /\ kind \in K /\ k = "none" => Token(K, kind, ops', s)
           /\ kind \notin K => Token(K, k, ops', s)
<1>1. \A L \in SUBSET K : HoldsIn(L, ops', s) <=> HoldsIn(L, ops, s) \/ kind \in L
  BY LaunchOne
<1>2. k = "none" => ~HoldsIn(K, ops, s)
  BY DEF Token
<1>3. (kind \in K /\ k = "none") \/ kind \notin K => Alone(K, ops', s)
  BY <1>2, LaunchOne DEF Token
<1> QED BY <1>1, <1>3 DEF Token

LEMMA DropToken ==
    ASSUME SocketTypeOK, DropSession, NEW K, NEW k, NEW s, Token(K, k, ops, s)
    PROVE  Token(K, k, ops', s)
BY DropOne DEF Token

LEMMA ConnectToken ==
    ASSUME SocketTypeOK, async_connect, NEW K, "connect" \in K, "none" \notin K,
           NEW s, Token(K, "none", ops, s)
    PROVE  Token(K, "connect", ops', s)
<1>1. \A L \in SUBSET K : HoldsIn(L, ops', s) <=> HoldsIn(L, ops, s) \/ "connect" \in L
  BY ConnectOne
<1>2. ~HoldsIn(K, ops, s)
  BY DEF Token
<1>3. Alone(K, ops', s)
  BY <1>2, ConnectOne DEF Token
<1> QED BY <1>1, <1>3 DEF Token

\* What completes keeps its kind; a timer that fires becomes the token.
LEMMA SystemToken ==
    ASSUME SocketTypeOK, System, NEW K, "timer" \in K, "none" \notin K,
           NEW k, Token(K, k, ops, ready)
    PROVE  \/ Token(K, k, ops', ready') /\ UNCHANGED retries
           \/ TimerFires /\ (k = "none" => Token(K, "timer", ops', ready'))
<1>1. CASE TimerFires
  <2>0. ASSUME k = "none" PROVE Token(K, "timer", ops', ready')
    <3> DEFINE e == [kind |-> "timer", conn |-> conn, pkt |-> 0, left |-> 0, ec |-> "ok"]
    <3>1. e \in Op /\ e.kind = "timer"
      BY DEF SocketTypeOK, Op, OpKinds, Codes
    <3>2. ready' = Append(ready, e) /\ ops' = ops /\ ready \in Seq(Op)
      BY <1>1 DEF TimerFires, SocketTypeOK
    <3> HIDE DEF e
    <3>3. ASSUME NEW L
          PROVE  HoldsIn(L, ops', ready') <=> HoldsIn(L, ops, ready) \/ "timer" \in L
      <4>1. HoldsIn(L, ops, Append(ready, e)) <=> HoldsIn(L, ops, ready) \/ e.kind \in L
        BY <3>1, <3>2, AppendOne
      <4> QED BY <3>1, <3>2, <4>1
    <3>4. ~HoldsIn(K, ops, ready)
      BY <2>0 DEF Token
    <3>5. Alone(K, ops', ready')
      BY <2>0, <3>1, <3>2, <3>4, AppendOne DEF Token
    <3> QED BY <2>0, <3>3, <3>5 DEF Token
  <2> QED BY <1>1, <2>0
<1>2. CASE ~TimerFires
  <2>1. \A L : HoldsIn(L, ops', ready') <=> HoldsIn(L, ops, ready)
    BY <1>2, CompleteOne
  <2>2. Alone(K, ops', ready') /\ UNCHANGED retries
    BY <1>2, CompleteOne DEF Token
  <2> QED BY <2>1, <2>2 DEF Token
<1> QED BY <1>1, <1>2
=============================================================================
