------------------------ MODULE NetworkClient_proofs ------------------------
(***************************************************************************)
(* TLAPS proofs about NetworkClient, which does not keep to the discipline *)
(* of Patient: types; that there is never more than one attempt at a       *)
(* session, whatever errors are reported on top of each other; and what    *)
(* follows for the dialog, for started() and for a session that is up.     *)
(*                                                                         *)
(* An attempt is an operation of connecting or of the handshake, a retry   *)
(* timer, or the callback that goes on with it, which is always the last   *)
(* of the calls that are due: what is reported on top of it returns to it. *)
(***************************************************************************)
EXTENDS NetworkClient, Netio_stream_proofs, FiniteSetTheorems

AllCalls == Calls \cup ClientFrames

\* The operations of an attempt, and the others.
DialKinds  == {"connect", "timer", "hswrite", "hsread"}
OtherKinds == {"header", "body", "write"}

\* A connection attempt that has succeeded finds its socket connected.
Decided ==
    /\ \A o \in ops : o.ec # "ok"
    /\ \A i \in DOMAIN ready :
         ready[i].kind = "connect" /\ ready[i].ec = "ok" => link = "connected"

\* The calls that go on with an attempt.
Frames == {"connected", "handshaked", "session_up"}

FramedIn(d)  == \E i \in DOMAIN d : d[i] \in Frames
LastOnly(d)  == \A i \in DOMAIN d : d[i] \in Frames => i = Len(d)
Awaited(d)   == \E i \in DOMAIN d : d[i] = "connected"

ClientTypes ==
    /\ SocketTypeOK
    /\ due \in Seq(AllCalls)
    /\ m_buffers \in Seq(1 .. MaxSend)
    /\ sends <= MaxSend
    /\ m_connected \in BOOLEAN
    /\ m_reconnectDialog \in BOOLEAN
    /\ dialog \in {"none", "shown", "dismissed"}
    /\ crash \in BOOLEAN

\* Whatever else goes on there is one attempt, of a client that is not
\* connected: an operation or completion of kind k, a retry timer, or a call.
AttemptShape(k) ==
    /\ retries \in {0, 1} /\ LastOnly(due)
    /\ k # "none" => retries = 0 /\ ~FramedIn(due)
    /\ retries = 1 => ~FramedIn(due)
    /\ (k # "none" \/ retries = 1 \/ Awaited(due)) => ~m_handshake_finished
    /\ (k # "none" \/ retries = 1 \/ FramedIn(due)) => ~m_connected
    /\ m_reconnectDialog => ~m_connected

\* Before the first session, and before the first error is reported, there is
\* the first attempt, and nothing else.
FirstShape(k) ==
    /\ \/ due = <<>> /\ (k # "none" \/ retries = 1)
       \/ due = <<"connected">>
       \/ due = <<"handshaked">> /\ m_handshake_finished
       \/ /\ due \in {<<"connect_failed">>, <<"error", "handshake_failed">>}
          /\ k = "none" /\ retries = 0
    /\ (k \in {"hswrite", "hsread"} \/ due \in {<<"connected">>, <<"handshaked">>})
         => link = "connected"
    /\ Decided
    /\ ~HoldsIn(OtherKinds, ops, ready)

FirstLife == ~m_connected /\ ~m_reconnectDialog

ShapedAt(k) == Token(DialKinds, k, ops, ready) /\ AttemptShape(k)
Shaped      == \E k \in DialKinds \cup {"none"} : ShapedAt(k)

FirstAt(k) == Token(DialKinds, k, ops, ready) /\ FirstShape(k)
FirstInv   ==
    FirstLife => \/ due = <<"session_up">>
                 \/ \E k \in DialKinds \cup {"none"} : FirstAt(k)

NoTimerOps == \A o \in ops : o.kind # "timer"

ClientInv ==
    /\ ClientTypes
    /\ NoTimerOps
    /\ Shaped
    /\ FirstInv

-----------------------------------------------------------------------------
(* Calls that are due.                                                     *)

LEMMA AllCallsType ==
    {"connected", "connect_failed", "handshaked", "handshake_failed", "error",
     "stopped", "invoke", "read_header", "stop", "session_up", "emit_connected",
     "server_not_available"}
      = AllCalls
BY CallsType DEF AllCalls, ClientFrames

LEMMA FrameNone ==
    /\ ~FramedIn(<<>>) /\ LastOnly(<<>>) /\ ~Awaited(<<>>)
    /\ \A x : /\ FramedIn(<<x>>) <=> x \in Frames
              /\ LastOnly(<<x>>)
              /\ Awaited(<<x>>) <=> x = "connected"
BY DEF FramedIn, LastOnly, Awaited

LEMMA FrameTwo ==
    ASSUME NEW x, NEW y, x \notin Frames
    PROVE  /\ FramedIn(<<x, y>>) <=> y \in Frames
           /\ LastOnly(<<x, y>>)
           /\ Awaited(<<x, y>>) <=> y = "connected"
<1>1. "connected" \in Frames
  BY DEF Frames
<1>2. DOMAIN <<x, y>> = {1, 2} /\ <<x, y>>[1] = x /\ <<x, y>>[2] = y /\ Len(<<x, y>>) = 2
  OBVIOUS
<1> QED BY <1>1, <1>2 DEF FramedIn, LastOnly, Awaited

LEMMA FrameTail ==
    ASSUME NEW d \in Seq(AllCalls), d # <<>>, LastOnly(d)
    PROVE  /\ LastOnly(Tail(d))
           /\ FramedIn(d) <=> Head(d) \in Frames \/ FramedIn(Tail(d))
           /\ Awaited(Tail(d)) => Awaited(d)
           /\ Head(d) \in Frames => d = <<Head(d)>> /\ Tail(d) = <<>>
<1>1. DOMAIN d = 1 .. Len(d) /\ Len(d) \in Nat /\ Len(d) > 0 /\ Head(d) = d[1]
  OBVIOUS
<1>2. /\ DOMAIN Tail(d) = 1 .. Len(d) - 1 /\ Len(Tail(d)) = Len(d) - 1
      /\ \A i \in 1 .. Len(d) - 1 : Tail(d)[i] = d[i + 1]
  OBVIOUS
<1>3. LastOnly(Tail(d))
  BY <1>1, <1>2 DEF LastOnly
<1>4. \A i \in DOMAIN Tail(d) : i + 1 \in DOMAIN d /\ Tail(d)[i] = d[i + 1]
  BY <1>1, <1>2
<1>5. \A i \in DOMAIN d : i = 1 \/ (i - 1 \in DOMAIN Tail(d) /\ Tail(d)[i - 1] = d[i])
  BY <1>1, <1>2
<1>6. FramedIn(d) <=> Head(d) \in Frames \/ FramedIn(Tail(d))
  BY <1>1, <1>4, <1>5 DEF FramedIn
<1>7. Awaited(Tail(d)) => Awaited(d)
  BY <1>4 DEF Awaited
<1>8. ASSUME Head(d) \in Frames PROVE d = <<Head(d)>> /\ Tail(d) = <<>>
  <2>1. Len(d) = 1
    BY <1>1, <1>8 DEF LastOnly
  <2>2. /\ <<d[1]>> \in Seq(AllCalls) /\ Len(<<d[1]>>) = 1
        /\ \A i \in 1 .. 1 : d[i] = <<d[1]>>[i]
    BY <1>1
  <2>3. d = <<d[1]>>
    BY <2>1, <2>2, SameSeq
  <2>4. Tail(<<d[1]>>) = <<>>
    OBVIOUS
  <2> QED BY <1>1, <2>3, <2>4
<1> QED BY <1>3, <1>6, <1>7, <1>8

LEMMA FramePush ==
    ASSUME NEW d \in Seq(AllCalls), LastOnly(d), NEW x \in AllCalls, x \notin Frames
    PROVE  /\ LastOnly(<<x>> \o d)
           /\ FramedIn(<<x>> \o d) <=> FramedIn(d)
           /\ Awaited(<<x>> \o d) <=> Awaited(d)
<1> DEFINE e == <<x>> \o d
<1>1. DOMAIN d = 1 .. Len(d) /\ Len(d) \in Nat
  OBVIOUS
<1>2. DOMAIN e = 1 .. Len(d) + 1 /\ Len(e) = Len(d) + 1 /\ e[1] = x
      /\ \A i \in 1 .. Len(d) : e[i + 1] = d[i]
  OBVIOUS
<1> HIDE DEF e
<1>3. \A i \in DOMAIN d : i + 1 \in DOMAIN e /\ e[i + 1] = d[i]
  BY <1>1, <1>2
<1>4. \A i \in DOMAIN e : i = 1 \/ (i - 1 \in DOMAIN d /\ e[i] = d[i - 1])
  BY <1>1, <1>2
<1>5. "connected" \in Frames /\ x # "connected"
  BY DEF Frames
<1>6. LastOnly(e)
  BY <1>1, <1>2, <1>4 DEF LastOnly
<1>7. (FramedIn(e) <=> FramedIn(d)) /\ (Awaited(e) <=> Awaited(d))
  BY <1>2, <1>3, <1>4, <1>5 DEF FramedIn, Awaited
<1> QED BY <1>6, <1>7 DEF e

\* An error is reported, and what follows it is due.
LEMMA FrameError ==
    ASSUME NEW d \in Seq(AllCalls), LastOnly(d),
           NEW e \in {<<"error">> \o d, <<"error", "stop">> \o d}
    PROVE  /\ e \in Seq(AllCalls) /\ LastOnly(e)
           /\ FramedIn(e) <=> FramedIn(d)
           /\ Awaited(e) <=> Awaited(d)
<1>1. "error" \in AllCalls \ Frames /\ "stop" \in AllCalls \ Frames
  BY AllCallsType DEF Frames
<1>2. CASE e = <<"error">> \o d
  <2>1. <<"error">> \o d \in Seq(AllCalls)
    BY <1>1
  <2> QED BY <1>1, <1>2, <2>1, FramePush
<1>3. CASE e = <<"error", "stop">> \o d
  <2>1. <<"stop">> \o d \in Seq(AllCalls)
    BY <1>1
  <2>2. e = <<"error">> \o (<<"stop">> \o d)
    BY <1>3
  <2>3. <<"error">> \o (<<"stop">> \o d) \in Seq(AllCalls)
    BY <1>1, <2>1
  <2> QED BY <1>1, <2>1, <2>2, <2>3, FramePush
<1> QED BY <1>2, <1>3

-----------------------------------------------------------------------------
(* What decides a connection attempt. *)

LEMMA CancelledEc ==
    ASSUME NEW S, S \subseteq Op
    PROVE  \A o \in Cancelled(S) : \E p \in S : o.ec \in {p.ec, "aborted"}
<1> DEFINE C(p) == IF p.ec = "pending" THEN [p EXCEPT !.ec = "aborted"] ELSE p
<1>1. \A p \in S : C(p).ec \in {p.ec, "aborted"}
  BY DEF Op
<1>2. Cancelled(S) = { C(p) : p \in S }
  BY DEF Cancelled
<1> HIDE DEF C
<1> QED BY <1>1, <1>2

\* The socket is only closed when no attempt has succeeded unheard.
LEMMA DecidedKept ==
    ASSUME SocketTypeOK, Decided,
           \/ ready' = ready
           \/ \E kind : Poll(kind),
           \/ ops' = ops
           \/ DropSession
           \/ async_connect
           \/ \E kind, pkt, left : Launch(kind, pkt, left),
           \/ link' = link
           \/ \E S : ~HoldsIn({"connect"}, S, ready')
    PROVE  Decided'
<1>1. \A o \in ops' : o.ec # "ok"
  <2>1. CASE DropSession
    BY <2>1, CancelledEc DEF Decided, DropSession, close_or_realloc_socket, SocketTypeOK
  <2>2. CASE async_connect
    <3>1. \A o \in Cancelled(ops) : o.ec # "ok"
      BY CancelledEc DEF Decided, SocketTypeOK
    <3> QED BY <2>2, <3>1 DEF async_connect
  <2>3. CASE \E kind, pkt, left : Launch(kind, pkt, left)
    <3>1. PICK kind, pkt, left : \E o \in Started(kind, pkt, left) : ops' = ops \cup {o}
      BY <2>3 DEF Launch
    <3>2. \A o \in Started(kind, pkt, left) : o.ec # "ok"
      BY DEF Started
    <3> QED BY <3>1, <3>2 DEF Decided
  <2> QED BY <2>1, <2>2, <2>3 DEF Decided
<1>2. \A i \in DOMAIN ready' : \E j \in DOMAIN ready : ready'[i] = ready[j]
  <2>1. CASE \E kind : Poll(kind)
    BY <2>1, TailAt DEF Poll, SocketTypeOK
  <2> QED BY <2>1
<1>3. \A i \in DOMAIN ready' :
         ready'[i].kind = "connect" /\ ready'[i].ec = "ok" => link' = "connected"
  <2>1. CASE link' = link
    BY <1>2, <2>1 DEF Decided
  <2>2. CASE \E S : ~HoldsIn({"connect"}, S, ready')
    BY <2>2 DEF HoldsIn
  <2> QED BY <2>1, <2>2
<1> QED BY <1>1, <1>3 DEF Decided

LEMMA DecidedSystem ==
    ASSUME SocketTypeOK, Decided, System
    PROVE  Decided'
<1>0. ops \subseteq Op /\ ready \in Seq(Op)
  BY DEF SocketTypeOK
<1>1. ops' \subseteq ops /\ (link = "connected" => link' = "connected")
  BY DEF System, Post, ConnectDone, Transfer, TransferFails, TimerFires
<1>2. PICK e \in Op : /\ ready' = Append(ready, e)
                      /\ e.kind = "connect" /\ e.ec = "ok" => link' = "connected"
  <2>1. CASE Post
    BY <1>0, <2>1 DEF Post, Decided
  <2>2. CASE ConnectDone
    <3>1. PICK o \in ops, c \in {"ok", "refused", "error"} :
             /\ ready' = Append(ready, [o EXCEPT !.ec = c])
             /\ c = "ok" => link' = "connected"
      BY <2>2 DEF ConnectDone
    <3>2. [o EXCEPT !.ec = c] \in Op /\ [o EXCEPT !.ec = c].ec = c
      BY <1>0 DEF Op, Codes
    <3> QED BY <3>1, <3>2
  <2>3. CASE Transfer
    <3>1. PICK o \in ops : /\ o.kind # "connect"
                           /\ \E n \in 1 .. o.left :
                                ready' = Append(ready, [o EXCEPT !.ec = "ok", !.left = @ - n])
      BY <2>3 DEF Transfer, Moved
    <3>2. PICK n \in 1 .. o.left : ready' = Append(ready, [o EXCEPT !.ec = "ok", !.left = @ - n])
      BY <3>1
    <3>3. o.left - n \in Nat
      BY <1>0 DEF Op
    <3>4. /\ [o EXCEPT !.ec = "ok", !.left = @ - n] \in Op
          /\ [o EXCEPT !.ec = "ok", !.left = @ - n].kind = o.kind
      BY <1>0, <3>3 DEF Op, Codes
    <3> QED BY <3>1, <3>2, <3>4
  <2>4. CASE TransferFails
    <3>1. PICK o \in ops : ready' = Append(ready, [o EXCEPT !.ec = "error"])
      BY <2>4 DEF TransferFails
    <3>2. [o EXCEPT !.ec = "error"] \in Op /\ [o EXCEPT !.ec = "error"].ec = "error"
      BY <1>0 DEF Op, Codes
    <3> QED BY <3>1, <3>2
  <2>5. CASE TimerFires
    <3> DEFINE t == [kind |-> "timer", conn |-> conn, pkt |-> 0, left |-> 0, ec |-> "ok"]
    <3>1. t \in Op /\ t.kind = "timer" /\ ready' = Append(ready, t)
      BY <2>5 DEF SocketTypeOK, Op, OpKinds, Codes, TimerFires
    <3> HIDE DEF t
    <3> QED BY <3>1
  <2> QED BY <2>1, <2>2, <2>3, <2>4, <2>5 DEF System
<1>3. \A i \in DOMAIN ready' :
         (i \in DOMAIN ready /\ ready'[i] = ready[i]) \/ ready'[i] = e
  BY <1>0, <1>2, AppendAt
<1> QED BY <1>1, <1>2, <1>3 DEF Decided

-----------------------------------------------------------------------------
(* Types. *)

LEMMA NetioKeepsQueue ==
    ASSUME NetioStep
    PROVE  /\ sends' = sends
           /\ m_buffers' = m_buffers \/ m_buffers' = <<>>
                \/ (m_buffers # <<>> /\ m_buffers' = Tail(m_buffers))
<1>1. CASE System
  BY <1>1 DEF System, Post, ConnectDone, Transfer, TransferFails, TimerFires, writeVars
<1>2. CASE sent
  BY <1>2 DEF sent, StartNext, WriteFails
<1>3. CASE Handler /\ ~sent
  BY <1>3 DEF Handler, on_connected, on_retry, async_as_client_handshake_writen,
       async_as_client_handshake_readed, header_readed, body_readed, read_header,
       stop_after_error, writeVars
<1>4. CASE async_handshake
  BY <1>4 DEF async_handshake, writeVars
<1> QED BY <1>1, <1>2, <1>3, <1>4 DEF NetioStep

LEMMA NetioClientTypes ==
    ASSUME ClientTypes, NetioStep
    PROVE  ClientTypes'
<1>1. System \/ Handler \/ Program
  BY DEF NetioStep, Program
<1>2. SocketTypeOK'
  BY <1>1, SystemType, HandlerType, ProgramType DEF ClientTypes
<1>3. due' \in Seq(AllCalls)
  <2>1. Next /\ Calls \subseteq AllCalls
    BY <1>1 DEF Next, AllCalls
  <2> QED BY <2>1, DueType DEF ClientTypes
<1>4. m_buffers' \in Seq(1 .. MaxSend) /\ sends' <= MaxSend
  <2>1. m_buffers # <<>> => Tail(m_buffers) \in Seq(1 .. MaxSend)
    BY HeadTail DEF ClientTypes
  <2>2. <<>> \in Seq(1 .. MaxSend)
    OBVIOUS
  <2> QED BY <2>1, <2>2, NetioKeepsQueue DEF ClientTypes
<1>5. UNCHANGED clientVars
  BY DEF NetioStep
<1> QED BY <1>2, <1>3, <1>4, <1>5 DEF ClientTypes, clientVars

\* init() after an error, and what it leaves alone.
LEMMA InitTypes ==
    ASSUME ClientTypes, init, due # <<>>
    PROVE  /\ link' \in {"closed", "open", "connected"} /\ ops' \subseteq Op
           /\ m_stop_requested' \in BOOLEAN /\ m_handshake_finished' \in BOOLEAN
           /\ due' \in Seq(AllCalls)
<1>1. Tail(due) \in Seq(AllCalls)
  BY HeadTail DEF ClientTypes
<1>2. <<"server_not_available">> \o Tail(due) \in Seq(AllCalls)
  BY <1>1, AllCallsType
<1>3. SocketTypeOK /\ link \in {"closed", "open", "connected"} /\ ops \subseteq Op
      /\ m_stop_requested \in BOOLEAN /\ m_handshake_finished \in BOOLEAN
  BY DEF ClientTypes, SocketTypeOK
<1> QED BY <1>1, <1>2, <1>3, ConnectType DEF init

\* A request, whatever it returns to.
LEMMA RequestTypes ==
    ASSUME ClientTypes, NEW rest \in Seq(AllCalls), LastOnly(rest), Request(rest)
    PROVE  /\ ops' \subseteq Op /\ m_write_in_process' \in BOOLEAN
           /\ m_buffers' \in Seq(Nat) /\ m_buffers' \in Seq(1 .. MaxSend)
           /\ sends' \in Nat /\ sends' <= MaxSend
           /\ due' \in Seq(AllCalls) /\ LastOnly(due')
           /\ FramedIn(due') <=> FramedIn(rest)
           /\ Awaited(due') <=> Awaited(rest)
<1>1. SocketTypeOK /\ sends \in Nat /\ m_buffers \in Seq(1 .. MaxSend) /\ m_buffers \in Seq(Nat)
      /\ ops \subseteq Op /\ m_write_in_process \in BOOLEAN /\ sends <= MaxSend
  BY DEF ClientTypes, SocketTypeOK
<1>2. CASE /\ sends < MaxSend /\ sends' = sends + 1
           /\ StartOrQueue(sends + 1) /\ due' = rest
  <2>1. sends' \in Nat /\ sends' <= MaxSend /\ sends + 1 \in Nat /\ sends + 1 \in 1 .. MaxSend
    BY <1>1, <1>2, NetioAssumption
  <2>2. /\ ops' \subseteq Op /\ m_write_in_process' \in BOOLEAN
        /\ m_buffers' \in Seq(Nat)
    BY <1>1, <1>2, <2>1, SendType
  <2>3. m_buffers' = m_buffers \/ m_buffers' = Append(m_buffers, sends + 1)
    BY <1>2 DEF StartOrQueue
  <2>4. Append(m_buffers, sends + 1) \in Seq(1 .. MaxSend)
    BY <1>1, <2>1
  <2> QED BY <1>1, <1>2, <2>1, <2>2, <2>3, <2>4
<1>3. CASE /\ due' \in {<<"error">> \o rest, <<"error", "stop">> \o rest}
           /\ UNCHANGED ops /\ UNCHANGED writeVars
  BY <1>1, <1>3, FrameError DEF writeVars
<1> QED BY <1>2, <1>3 DEF Request

LEMMA ClientTypesStep ==
    ASSUME ClientTypes, LastOnly(due), Callback \/ call_server \/ dismiss
    PROVE  ClientTypes'
<1>1. due # <<>> => Tail(due) \in Seq(AllCalls) /\ LastOnly(Tail(due))
  BY HeadTail, FrameTail DEF ClientTypes
<1>2. CASE onError
  <2>1. due # <<>> /\ UNCHANGED <<conn, retries, ready, wire>> /\ UNCHANGED writeVars
    BY <1>2 DEF onError, InCallback
  <2>2. /\ m_connected' \in BOOLEAN /\ m_reconnectDialog' \in BOOLEAN
        /\ dialog' \in {"none", "shown", "dismissed"} /\ crash' \in BOOLEAN
    BY <1>2 DEF onError, ClientTypes
  <2>3. /\ link' \in {"closed", "open", "connected"} /\ ops' \subseteq Op
        /\ m_stop_requested' \in BOOLEAN /\ m_handshake_finished' \in BOOLEAN
        /\ due' \in Seq(AllCalls)
    <3>1. CASE m_reconnectDialog
      BY <1>1, <1>2, <2>1, <3>1 DEF onError, flagVars, ClientTypes, SocketTypeOK
    <3>2. CASE ~m_reconnectDialog
      BY <1>2, <2>1, <3>2, InitTypes DEF onError
    <3> QED BY <3>1, <3>2
  <2> QED BY <2>1, <2>2, <2>3 DEF ClientTypes, SocketTypeOK, writeVars
<1>3. CASE start_netio
  <2>1. due # <<>>
    BY <1>3 DEF start_netio, InCallback
  <2>2. due' \in Seq(AllCalls)
    <3>1. \A d \in Seq(AllCalls) : /\ <<"session_up">> \o d \in Seq(AllCalls)
                                   /\ <<"error", "session_up">> \o d \in Seq(AllCalls)
      BY AllCallsType
    <3> QED BY <1>1, <1>3, <2>1, <3>1 DEF start_netio
  <2>3. ops' \subseteq Op /\ m_stop_requested' \in BOOLEAN
    <3>1. SocketTypeOK
      BY DEF ClientTypes
    <3>2. CASE Launch("header", 0, ReadSize) /\ m_stop_requested' = FALSE
      BY <3>1, <3>2, LaunchType, LoopKindsOf
    <3>3. CASE UNCHANGED <<ops, m_stop_requested>>
      BY <3>1, <3>3 DEF SocketTypeOK
    <3> QED BY <1>3, <3>2, <3>3 DEF start_netio
  <2> QED BY <1>3, <2>2, <2>3 DEF start_netio, ClientTypes, SocketTypeOK, writeVars, clientVars
<1>4. CASE session_up
  <2> DEFINE rest == <<"emit_connected">> \o Tail(due)
  <2>1. /\ due # <<>> /\ UNCHANGED <<link, conn, retries, ready, wire>> /\ UNCHANGED flagVars
        /\ m_connected' \in BOOLEAN /\ m_reconnectDialog' \in BOOLEAN
        /\ dialog' \in {"none", "shown", "dismissed"} /\ crash' \in BOOLEAN
    BY <1>4 DEF session_up, InCallback, ClientTypes
  <2>2. rest \in Seq(AllCalls) /\ LastOnly(rest)
    <3>1. "emit_connected" \in AllCalls \ Frames
      BY AllCallsType DEF Frames
    <3>2. <<"emit_connected">> \o Tail(due) \in Seq(AllCalls)
      BY <1>1, <2>1, <3>1
    <3> QED BY <1>1, <2>1, <3>1, <3>2, FramePush
  <2>3. Request(rest) \/ (due' = rest /\ UNCHANGED ops /\ UNCHANGED writeVars)
    BY <1>4 DEF session_up
  <2> HIDE DEF rest
  <2>4. CASE Request(rest)
    BY <2>1, <2>2, <2>4, RequestTypes DEF ClientTypes, SocketTypeOK, flagVars
  <2>5. CASE due' = rest /\ UNCHANGED ops /\ UNCHANGED writeVars
    BY <2>1, <2>2, <2>5 DEF ClientTypes, SocketTypeOK, flagVars, writeVars
  <2> QED BY <2>3, <2>4, <2>5
<1>5. CASE return \/ emit_connected
  <2>1. /\ due # <<>> /\ due' = Tail(due) /\ UNCHANGED socketVars /\ UNCHANGED <<ready, wire>>
        /\ UNCHANGED flagVars /\ UNCHANGED writeVars
        /\ UNCHANGED <<m_connected, m_reconnectDialog, crash>>
        /\ dialog' \in {"none", dialog}
    BY <1>5 DEF return, emit_connected, InCallback, clientVars
  <2> QED BY <1>1, <2>1 DEF ClientTypes, SocketTypeOK, socketVars, flagVars, writeVars
<1>6. CASE call_server
  <2>1. /\ Request(due) /\ UNCHANGED <<link, conn, retries, ready, wire>>
        /\ UNCHANGED flagVars /\ UNCHANGED clientVars
    BY <1>6 DEF call_server
  <2>2. due \in Seq(AllCalls)
    BY DEF ClientTypes
  <2> QED BY <2>1, <2>2, RequestTypes DEF ClientTypes, SocketTypeOK, flagVars, clientVars
<1>7. CASE session_up_crashes \/ dismiss
  BY <1>7 DEF session_up_crashes, dismiss, vars, ClientTypes, SocketTypeOK
<1> QED BY <1>2, <1>3, <1>4, <1>5, <1>6, <1>7 DEF Callback

-----------------------------------------------------------------------------
(* The steps of netio keep to one attempt.                                 *)

LEMMA DialKindsOf ==
    /\ "none" \notin DialKinds /\ OtherKinds \cap DialKinds = {}
    /\ DialKinds = {"connect", "timer", "hswrite", "hsread"}
    /\ OtherKinds = {"header", "body", "write"}
BY DEF DialKinds, OtherKinds

\* Retry timers are not operations.
LEMMA TimersKept ==
    ASSUME SocketTypeOK, NoTimerOps,
           \/ ops' \subseteq ops
           \/ DropSession
           \/ async_connect
           \/ \E kind, pkt, left : kind # "timer" /\ Launch(kind, pkt, left)
    PROVE  NoTimerOps'
<1>1. ~HoldsIn({"timer"}, ops, <<>>)
  BY DEF NoTimerOps, HoldsIn
<1>2. ~HoldsIn({"timer"}, ops', <<>>) \/ ops' \subseteq ops
  <2>1. CASE DropSession
    BY <1>1, <2>1, DropOne
  <2>2. CASE async_connect
    BY <1>1, <2>2, ConnectOne
  <2>3. CASE \E kind, pkt, left : kind # "timer" /\ Launch(kind, pkt, left)
    <3>1. PICK kind, pkt, left : kind # "timer" /\ Launch(kind, pkt, left)
      BY <2>3
    <3>2. kind \notin {"timer"}
      BY <3>1
    <3> QED BY <1>1, <3>1, <3>2, LaunchOne
  <2> QED BY <2>1, <2>2, <2>3
<1> QED BY <1>2 DEF NoTimerOps, HoldsIn

LEMMA TimersStep ==
    ASSUME SocketTypeOK, NoTimerOps, NetioStep
    PROVE  NoTimerOps'
<1>1. CASE System
  <2>1. ops' \subseteq ops
    BY <1>1 DEF System, Post, ConnectDone, Transfer, TransferFails, TimerFires
  <2> QED BY <2>1, TimersKept
<1>2. CASE Handler \/ async_handshake
  <2>1. \/ ops' \subseteq ops \/ DropSession \/ async_connect
        \/ \E kind, pkt, left : kind # "timer" /\ Launch(kind, pkt, left)
    <3>1. CASE on_connected \/ on_retry \/ read_header \/ stop_after_error \/ async_handshake
      BY <3>1 DEF on_connected, on_retry, read_header, stop_after_error, async_handshake, StopEffect
    <3>2. CASE async_as_client_handshake_writen \/ async_as_client_handshake_readed
      BY <3>2 DEF async_as_client_handshake_writen, async_as_client_handshake_readed,
           HandshakeFails, socketVars
    <3>3. CASE header_readed
      BY <3>3 DEF header_readed, ReadFails, BadPacket
    <3>4. CASE body_readed
      BY <3>4 DEF body_readed, ReadFails, BadPacket, Dispatch, socketVars
    <3>5. CASE sent
      BY <3>5 DEF sent, StartNext, WriteFails, socketVars
    <3> QED BY <1>2, <3>1, <3>2, <3>3, <3>4, <3>5 DEF Handler
  <2> QED BY <2>1, TimersKept
<1> QED BY <1>1, <1>2 DEF NetioStep

\* What does not further the attempt leaves it, or ends it.
LEMMA ShapeKept ==
    ASSUME NEW k, AttemptShape(k), NEW j \in {k, "none"},
           UNCHANGED <<retries, m_connected, m_reconnectDialog>>,
           m_handshake_finished' => m_handshake_finished,
           LastOnly(due'), FramedIn(due') => FramedIn(due), Awaited(due') => Awaited(due)
    PROVE  AttemptShape(j)'
BY DEF AttemptShape

LEMMA ShapedSystem ==
    ASSUME ClientTypes, NEW k \in DialKinds \cup {"none"}, ShapedAt(k), System,
           UNCHANGED clientVars
    PROVE  Shaped'
<1>1. SocketTypeOK /\ UNCHANGED <<due, m_handshake_finished>>
  BY DEF ClientTypes, System, Post, ConnectDone, Transfer, TransferFails, TimerFires, flagVars
<1>2. CASE Token(DialKinds, k, ops', ready') /\ UNCHANGED retries
  <2>1. AttemptShape(k)'
    <3>1. LastOnly(due)
      BY DEF ShapedAt, AttemptShape
    <3> QED BY <1>1, <1>2, <3>1, ShapeKept DEF ShapedAt, clientVars
  <2> QED BY <1>2, <2>1 DEF Shaped, ShapedAt
<1>3. CASE TimerFires /\ (k = "none" => Token(DialKinds, "timer", ops', ready'))
  <2>1. retries = 1 /\ retries' = 0
    BY <1>3 DEF TimerFires, ShapedAt, AttemptShape
  <2>2. k = "none"
    BY <2>1 DEF ShapedAt, AttemptShape
  <2>3. AttemptShape("timer")'
    BY <1>1, <2>1 DEF ShapedAt, AttemptShape, clientVars
  <2> QED BY <1>3, <2>2, <2>3, DialKindsOf DEF Shaped, ShapedAt
<1> QED BY <1>1, <1>2, <1>3, SystemToken, DialKindsOf DEF ShapedAt

\* The handler of the attempt's operation runs: it is nowhere else.
LEMMA AttemptPolled ==
    ASSUME ClientTypes, NEW k, ShapedAt(k), NEW kind \in DialKinds, Poll(kind)
    PROVE  /\ k = kind /\ Token(DialKinds, "none", ops, ready')
           /\ retries = 0 /\ due = <<>> /\ ~m_connected /\ ~m_handshake_finished
<1>1. k = kind /\ Token(DialKinds, "none", ops, ready')
  BY PollToken, DialKindsOf DEF ShapedAt, ClientTypes
<1> QED BY <1>1, DialKindsOf DEF ShapedAt, AttemptShape, Poll

LEMMA ShapedDial ==
    ASSUME ClientTypes, NEW k, ShapedAt(k), UNCHANGED clientVars,
           \/ on_connected \/ on_retry
           \/ async_as_client_handshake_writen \/ async_as_client_handshake_readed
    PROVE  Shaped'
<1>0. SocketTypeOK /\ "none" \notin Frames
  BY DEF ClientTypes, Frames
<1>1. CASE on_connected
  <2>1. /\ Token(DialKinds, "none", ops, ready') /\ retries = 0 /\ due = <<>>
        /\ ~m_connected /\ ~m_handshake_finished
    BY <1>1, AttemptPolled, DialKindsOf DEF on_connected
  <2>2. UNCHANGED <<ops, m_handshake_finished>>
    BY <1>1 DEF on_connected, flagVars
  <2>3. \/ retries' = 1 /\ due' = <<>>
        \/ retries' = 0 /\ due' \in {<<"connected">>, <<"connect_failed">>}
    BY <1>1, <2>1 DEF on_connected
  <2>4. AttemptShape("none")'
    <3>1. LastOnly(due') /\ (retries' = 1 => ~FramedIn(due'))
      BY <2>3, FrameNone
    <3> QED BY <2>1, <2>2, <2>3, <3>1 DEF ShapedAt, AttemptShape, clientVars
  <2> QED BY <2>1, <2>2, <2>4 DEF Shaped, ShapedAt
<1>2. CASE on_retry
  <2>1. /\ Token(DialKinds, "none", ops, ready') /\ retries = 0 /\ due = <<>>
        /\ ~m_connected /\ ~m_handshake_finished
    BY <1>2, AttemptPolled, DialKindsOf DEF on_retry
  <2>2. Token(DialKinds, "connect", ops', ready')
    BY <1>0, <1>2, <2>1, ConnectToken, DialKindsOf DEF on_retry
  <2>3. UNCHANGED <<retries, due, m_handshake_finished>>
    BY <1>2 DEF on_retry, flagVars
  <2>4. AttemptShape("connect")'
    BY <2>1, <2>3, FrameNone DEF ShapedAt, AttemptShape, clientVars
  <2> QED BY <2>2, <2>4, DialKindsOf DEF Shaped, ShapedAt
<1>3. CASE async_as_client_handshake_writen \/ async_as_client_handshake_readed
  <2>1. /\ Token(DialKinds, "none", ops, ready') /\ retries = 0 /\ due = <<>>
        /\ ~m_connected /\ ~m_handshake_finished
    BY <1>3, AttemptPolled, DialKindsOf
       DEF async_as_client_handshake_writen, async_as_client_handshake_readed
  <2>2. CASE HandshakeFails
    <3>1. Token(DialKinds, "none", ops', ready')
      BY <1>0, <2>1, <2>2, DropToken DEF HandshakeFails
    <3>2. retries' = 0 /\ ~m_handshake_finished' /\ due' = <<"error", "handshake_failed">>
      BY <2>1, <2>2 DEF HandshakeFails, DropSession, close_or_realloc_socket
    <3>3. LastOnly(due') /\ ~FramedIn(due') /\ ~Awaited(due')
      BY <3>2, FrameTwo DEF Frames
    <3>4. AttemptShape("none")'
      BY <3>2, <3>3 DEF ShapedAt, AttemptShape, clientVars
    <3> QED BY <3>1, <3>4 DEF Shaped, ShapedAt
  <2>3. CASE Launch("hsread", 0, 1) /\ UNCHANGED <<link, conn, retries, due, m_handshake_finished>>
    <3>1. Token(DialKinds, "hsread", ops', ready')
      BY <2>1, <2>3, LaunchToken, DialKindsOf
    <3>2. AttemptShape("hsread")'
      BY <2>1, <2>3, FrameNone DEF ShapedAt, AttemptShape, clientVars
    <3> QED BY <3>1, <3>2, DialKindsOf DEF Shaped, ShapedAt
  <2>4. CASE m_handshake_finished' = TRUE /\ due' = <<"handshaked">> /\ UNCHANGED socketVars
    <3>1. LastOnly(due') /\ FramedIn(due') /\ ~Awaited(due')
      BY <2>4, FrameNone DEF Frames
    <3>2. AttemptShape("none")'
      BY <2>1, <2>4, <3>1 DEF ShapedAt, AttemptShape, clientVars, socketVars
    <3> QED BY <2>1, <2>4, <3>2 DEF Shaped, ShapedAt, socketVars
  <2> QED BY <1>3, <2>2, <2>3, <2>4
          DEF async_as_client_handshake_writen, async_as_client_handshake_readed
<1> QED BY <1>1, <1>2, <1>3

\* The callback that goes on with an attempt is all of it.
LEMMA ShapedHandshake ==
    ASSUME ClientTypes, NEW k, ShapedAt(k), UNCHANGED clientVars, async_handshake
    PROVE  Shaped' /\ due = <<"connected">>
<1>1. due # <<>> /\ Head(due) = "connected" /\ LastOnly(due) /\ due \in Seq(AllCalls)
  BY DEF async_handshake, InCallback, ShapedAt, AttemptShape, ClientTypes
<1>2. due = <<"connected">> /\ due' = <<>>
  BY <1>1, FrameTail DEF Frames, async_handshake
<1>3. FramedIn(due) /\ Awaited(due)
  BY <1>2, FrameNone DEF Frames
<1>4. k = "none" /\ retries = 0 /\ ~m_handshake_finished /\ ~m_connected
  BY <1>3 DEF ShapedAt, AttemptShape
<1>5. Launch("hswrite", 0, 1) /\ UNCHANGED <<retries, ready, m_handshake_finished>>
  BY DEF async_handshake, flagVars
<1>6. Token(DialKinds, "hswrite", ops', ready')
  BY <1>4, <1>5, LaunchToken, DialKindsOf DEF ShapedAt
<1>7. AttemptShape("hswrite")'
  BY <1>2, <1>4, <1>5, FrameNone DEF ShapedAt, AttemptShape, clientVars
<1> QED BY <1>2, <1>6, <1>7, DialKindsOf DEF Shaped, ShapedAt

\* The reads, the writes and stop() are none of the attempt's business, but
\* for the socket they may close under it.
LEMMA ShapedOther ==
    ASSUME ClientTypes, NEW k \in DialKinds \cup {"none"}, ShapedAt(k), UNCHANGED clientVars,
           header_readed \/ body_readed \/ read_header \/ sent \/ stop_after_error
    PROVE  Shaped'
<1>0. SocketTypeOK /\ due \in Seq(AllCalls) /\ LastOnly(due)
  BY DEF ClientTypes, ShapedAt, AttemptShape
<1>1. Token(DialKinds, k, ops, ready')
  <2>1. CASE \E kind \in OtherKinds : Poll(kind)
    BY <1>0, <2>1, PollToken, DialKindsOf DEF ShapedAt
  <2>2. CASE ready' = ready
    BY <2>2 DEF ShapedAt
  <2> QED BY <2>1, <2>2, DialKindsOf
          DEF header_readed, body_readed, read_header, sent, stop_after_error
<1>2. \/ ops' = ops \/ DropSession
      \/ \E kind \in OtherKinds : \E pkt, left : Launch(kind, pkt, left)
  <2>1. CASE header_readed
    BY <2>1, DialKindsOf DEF header_readed, ReadFails, BadPacket
  <2>2. CASE body_readed
    BY <2>2, DialKindsOf DEF body_readed, ReadFails, BadPacket, Dispatch, socketVars
  <2>3. CASE sent
    BY <2>3, DialKindsOf DEF sent, StartNext, WriteFails, socketVars
  <2>4. CASE read_header \/ stop_after_error
    BY <2>4, DialKindsOf DEF read_header, stop_after_error, StopEffect
  <2> QED BY <2>1, <2>2, <2>3, <2>4
<1>3. Token(DialKinds, k, ops', ready')
  <2>1. CASE DropSession
    BY <1>0, <1>1, <2>1, DropToken
  <2>2. CASE \E kind \in OtherKinds : \E pkt, left : Launch(kind, pkt, left)
    <3>1. PICK kind \in OtherKinds : \E pkt, left : Launch(kind, pkt, left)
      BY <2>2
    <3>2. kind \notin DialKinds
      BY DialKindsOf
    <3> QED BY <1>1, <3>1, <3>2, LaunchToken, DialKindsOf
  <2> QED BY <1>1, <1>2, <2>1, <2>2
<1>4. UNCHANGED retries /\ (m_handshake_finished' => m_handshake_finished)
  <2>1. CASE header_readed \/ body_readed
    BY <2>1 DEF header_readed, body_readed, ReadFails, BadPacket, Dispatch, DropSession,
         close_or_realloc_socket, socketVars, flagVars
  <2>2. CASE sent
    BY <2>2 DEF sent, WriteFails, DropSession, close_or_realloc_socket, socketVars
  <2>3. CASE read_header \/ stop_after_error
    BY <2>3 DEF read_header, stop_after_error, StopEffect, DropSession,
         close_or_realloc_socket, flagVars
  <2> QED BY <2>1, <2>2, <2>3
<1>5. \/ due' = due
      \/ due # <<>> /\ due' = Tail(due)
      \/ due' \in {<<"error">>, <<"stopped">>, <<"invoke", "read_header">>}
  BY DEF header_readed, body_readed, read_header, sent, stop_after_error, ReadFails,
         BadPacket, Dispatch, StartNext, WriteFails
<1>6. LastOnly(due') /\ (FramedIn(due') => FramedIn(due)) /\ (Awaited(due') => Awaited(due))
  <2>1. CASE due # <<>> /\ due' = Tail(due)
    BY <1>0, <2>1, FrameTail
  <2>2. CASE due' \in {<<"error">>, <<"stopped">>}
    BY <2>2, FrameNone DEF Frames
  <2>3. CASE due' = <<"invoke", "read_header">>
    BY <2>3, FrameTwo DEF Frames
  <2> QED BY <1>0, <1>5, <2>1, <2>2, <2>3
<1>7. AttemptShape(k)'
  BY <1>4, <1>6, ShapeKept DEF ShapedAt, clientVars
<1> QED BY <1>3, <1>7 DEF Shaped, ShapedAt

LEMMA ShapedNetio ==
    ASSUME ClientTypes, Shaped, NetioStep
    PROVE  Shaped'
<1>1. PICK k \in DialKinds \cup {"none"} : ShapedAt(k)
  BY DEF Shaped
<1> QED BY <1>1, ShapedSystem, ShapedDial, ShapedHandshake, ShapedOther DEF NetioStep, Handler

-----------------------------------------------------------------------------
(* So do the client's: what it starts is its first, or follows a loss.       *)

LEMMA TokenUnique ==
    ASSUME NEW K, "none" \notin K, NEW S, NEW s,
           NEW j \in K \cup {"none"}, NEW k \in K \cup {"none"},
           Token(K, j, S, s), Token(K, k, S, s)
    PROVE  j = k
<1>1. \A x \in K : HoldsIn({x}, S, s) <=> j = x
  BY DEF Token
<1>2. \A x \in K : HoldsIn({x}, S, s) <=> k = x
  BY DEF Token
<1> QED BY <1>1, <1>2

\* An error that dials finds no attempt.
LEMMA NoneToDial ==
    ASSUME ClientTypes, NEW k \in DialKinds \cup {"none"}, ShapedAt(k), FirstInv,
           due # <<>>, Head(due) \in ErrorCalls, ~m_reconnectDialog
    PROVE  k = "none" /\ retries = 0 /\ ~FramedIn(due)
<1>1. CASE m_connected
  BY <1>1 DEF ShapedAt, AttemptShape
<1>2. CASE ~m_connected
  <2>1. due # <<"session_up">>
    <3>1. Head(<<"session_up">>) = "session_up"
      OBVIOUS
    <3> QED BY <3>1 DEF ErrorCalls
  <2>2. PICK j \in DialKinds \cup {"none"} : FirstAt(j)
    BY <1>2, <2>1 DEF FirstInv, FirstLife
  <2>3. /\ due # <<"connected">> /\ due # <<"handshaked">>
    <3>1. Head(<<"connected">>) = "connected" /\ Head(<<"handshaked">>) = "handshaked"
      OBVIOUS
    <3> QED BY <3>1 DEF ErrorCalls
  <2>4. /\ due \in {<<"connect_failed">>, <<"error", "handshake_failed">>}
        /\ j = "none" /\ retries = 0
    BY <2>2, <2>3 DEF FirstAt, FirstShape
  <2>5. k = "none"
    BY <2>2, <2>4, TokenUnique, DialKindsOf DEF FirstAt, ShapedAt
  <2>6. ~FramedIn(due)
    BY <2>4, FrameNone, FrameTwo DEF Frames
  <2> QED BY <2>4, <2>5, <2>6
<1> QED BY <1>1, <1>2

LEMMA ShapedOnError ==
    ASSUME ClientTypes, NoTimerOps, NEW k \in DialKinds \cup {"none"}, ShapedAt(k), FirstInv,
           onError
    PROVE  Shaped' /\ NoTimerOps'
<1>1. /\ due # <<>> /\ Head(due) \in ErrorCalls /\ due \in Seq(AllCalls)
      /\ UNCHANGED <<ready, retries>> /\ m_connected' = FALSE
      /\ SocketTypeOK /\ LastOnly(due)
  BY DEF onError, InCallback, ClientTypes, ShapedAt, AttemptShape
<1>2. /\ LastOnly(Tail(due)) /\ Tail(due) \in Seq(AllCalls)
      /\ FramedIn(Tail(due)) => FramedIn(due)
      /\ Awaited(Tail(due)) => Awaited(due)
  BY <1>1, FrameTail, HeadTail
<1>3. CASE m_reconnectDialog
  <2>1. due' = Tail(due) /\ UNCHANGED <<ops, m_reconnectDialog, m_handshake_finished>>
    BY <1>3 DEF onError, flagVars
  <2>2. AttemptShape(k)'
    BY <1>1, <1>2, <2>1 DEF ShapedAt, AttemptShape
  <2> QED BY <1>1, <2>1, <2>2 DEF Shaped, ShapedAt, NoTimerOps
<1>4. CASE ~m_reconnectDialog
  <2>1. k = "none" /\ retries = 0 /\ ~FramedIn(due)
    BY <1>1, <1>4, NoneToDial
  <2>2. init
    BY <1>4 DEF onError
  <2>3. CASE m_handshake_finished' = FALSE /\ async_connect /\ due' = Tail(due)
    <3>1. Token(DialKinds, "connect", ops', ready')
      BY <1>1, <2>1, <2>3, ConnectToken, DialKindsOf DEF ShapedAt
    <3>2. AttemptShape("connect")'
      BY <1>1, <1>2, <2>1, <2>3 DEF AttemptShape
    <3> QED BY <1>1, <2>3, <3>1, <3>2, TimersKept, DialKindsOf DEF Shaped, ShapedAt
  <2>4. CASE /\ due' = <<"server_not_available">> \o Tail(due)
             /\ UNCHANGED <<ops, m_handshake_finished>>
    <3>1. "server_not_available" \in AllCalls \ Frames
      BY AllCallsType DEF Frames
    <3>2. /\ LastOnly(due') /\ ~FramedIn(due')
          /\ Awaited(due') => Awaited(due)
      BY <1>2, <2>1, <2>4, <3>1, FramePush
    <3>3. AttemptShape("none")'
      BY <1>1, <2>1, <2>4, <3>2 DEF ShapedAt, AttemptShape
    <3> QED BY <1>1, <2>1, <2>4, <3>3 DEF Shaped, ShapedAt, NoTimerOps
  <2> QED BY <2>2, <2>3, <2>4 DEF init
<1> QED BY <1>3, <1>4

\* start() of a client: the session comes up whatever netio::start reports.
LEMMA ShapedStart ==
    ASSUME ClientTypes, NoTimerOps, NEW k, ShapedAt(k), start_netio
    PROVE  Shaped' /\ NoTimerOps' /\ due = <<"handshaked">>
<1>1. due # <<>> /\ Head(due) = "handshaked" /\ LastOnly(due) /\ due \in Seq(AllCalls)
  BY DEF start_netio, InCallback, ShapedAt, AttemptShape, ClientTypes
<1>2. due = <<"handshaked">> /\ Tail(due) = <<>>
  BY <1>1, FrameTail DEF Frames
<1>3. FramedIn(due)
  BY <1>2, FrameNone DEF Frames
<1>4. k = "none" /\ retries = 0 /\ ~m_connected
  BY <1>3 DEF ShapedAt, AttemptShape
<1>5. UNCHANGED <<ready, retries, m_handshake_finished, m_connected, m_reconnectDialog>>
  BY DEF start_netio, clientVars
<1>6. due' \in {<<"session_up">>, <<"error", "session_up">>}
  <2>1. <<"session_up">> \o <<>> = <<"session_up">>
        /\ <<"error", "session_up">> \o <<>> = <<"error", "session_up">>
    OBVIOUS
  <2> QED BY <1>2, <2>1 DEF start_netio
<1>7. LastOnly(due') /\ ~Awaited(due')
  BY <1>6, FrameNone, FrameTwo DEF Frames
<1>8. AttemptShape("none")'
  BY <1>4, <1>5, <1>7 DEF AttemptShape, ShapedAt
<1>9. Token(DialKinds, "none", ops', ready') /\ NoTimerOps'
  <2>1. CASE Launch("header", 0, ReadSize)
    <3>1. "header" \notin DialKinds /\ "header" # "timer"
      BY DEF DialKinds
    <3> QED BY <1>4, <1>5, <2>1, <3>1, LaunchToken, DialKindsOf, TimersKept DEF ShapedAt, ClientTypes
  <2>2. CASE ops' = ops
    BY <1>4, <1>5, <2>2 DEF ShapedAt, NoTimerOps
  <2> QED BY <2>1, <2>2 DEF start_netio
<1> QED BY <1>2, <1>8, <1>9 DEF Shaped, ShapedAt

\* A request starts a write, or nothing.
LEMMA RequestStarts ==
    ASSUME SocketTypeOK, NoTimerOps, NEW k, Token(DialKinds, k, ops, ready), NEW rest,
           Request(rest), UNCHANGED ready
    PROVE  Token(DialKinds, k, ops', ready') /\ NoTimerOps'
<1>1. CASE Launch("write", sends + 1, Size)
  <2>1. "write" \notin DialKinds /\ "write" # "timer"
    BY DEF DialKinds
  <2> QED BY <1>1, <2>1, LaunchToken, DialKindsOf, TimersKept
<1>2. CASE ops' = ops
  BY <1>2 DEF NoTimerOps
<1> QED BY <1>1, <1>2 DEF Request, StartOrQueue

LEMMA ShapedUp ==
    ASSUME ClientTypes, NoTimerOps, NEW k, ShapedAt(k), session_up
    PROVE  Shaped' /\ NoTimerOps'
<1>1. due # <<>> /\ Head(due) = "session_up" /\ LastOnly(due) /\ due \in Seq(AllCalls)
  BY DEF session_up, InCallback, ShapedAt, AttemptShape, ClientTypes
<1>2. due = <<"session_up">> /\ Tail(due) = <<>>
  BY <1>1, FrameTail DEF Frames
<1>3. FramedIn(due)
  BY <1>2, FrameNone DEF Frames
<1>4. k = "none" /\ retries = 0
  BY <1>3 DEF ShapedAt, AttemptShape
<1>5. /\ UNCHANGED <<ready, retries, m_handshake_finished>>
      /\ m_connected' = TRUE /\ m_reconnectDialog' = FALSE
  BY DEF session_up, flagVars
<1>6. \/ Request(<<"emit_connected">>)
      \/ due' = <<"emit_connected">> /\ UNCHANGED ops
  <2>1. <<"emit_connected">> \o <<>> = <<"emit_connected">>
    OBVIOUS
  <2> QED BY <1>2, <2>1 DEF session_up
<1>7. LastOnly(due') /\ ~FramedIn(due') /\ ~Awaited(due')
  <2>1. /\ <<"emit_connected">> \in Seq(AllCalls) /\ LastOnly(<<"emit_connected">>)
        /\ ~FramedIn(<<"emit_connected">>) /\ ~Awaited(<<"emit_connected">>)
    BY AllCallsType, FrameNone DEF Frames
  <2> QED BY <1>6, <2>1, RequestTypes
<1>8. AttemptShape("none")'
  BY <1>4, <1>5, <1>7 DEF AttemptShape
<1>9. Token(DialKinds, "none", ops', ready') /\ NoTimerOps'
  <2>1. CASE Request(<<"emit_connected">>)
    BY <1>4, <1>5, <2>1, RequestStarts DEF ShapedAt, ClientTypes
  <2>2. CASE ops' = ops
    BY <1>4, <1>5, <2>2 DEF ShapedAt, NoTimerOps
  <2> QED BY <1>6, <2>1, <2>2
<1> QED BY <1>8, <1>9 DEF Shaped, ShapedAt

LEMMA ShapedReturn ==
    ASSUME ClientTypes, NoTimerOps, NEW k \in DialKinds \cup {"none"}, ShapedAt(k),
           \/ return \/ emit_connected \/ session_up_crashes \/ dismiss
    PROVE  Shaped' /\ NoTimerOps'
<1>1. /\ due \in Seq(AllCalls) /\ LastOnly(due)
      /\ due' = due \/ (due # <<>> /\ due' = Tail(due))
  BY DEF return, emit_connected, session_up_crashes, dismiss, InCallback, vars, ShapedAt,
     AttemptShape, ClientTypes
<1>2. /\ LastOnly(due')
      /\ FramedIn(due') => FramedIn(due)
      /\ Awaited(due') => Awaited(due)
  BY <1>1, FrameTail
<1>3. UNCHANGED <<ops, ready, retries, m_handshake_finished, m_connected, m_reconnectDialog>>
  BY DEF return, emit_connected, session_up_crashes, dismiss, vars, socketVars, flagVars,
     clientVars
<1>4. AttemptShape(k)'
  BY <1>2, <1>3, ShapeKept DEF ShapedAt
<1> QED BY <1>3, <1>4 DEF Shaped, ShapedAt, NoTimerOps

LEMMA ShapedCall ==
    ASSUME ClientTypes, NoTimerOps, NEW k \in DialKinds \cup {"none"}, ShapedAt(k), call_server
    PROVE  Shaped' /\ NoTimerOps'
<1>1. /\ Request(due) /\ SocketTypeOK
      /\ due \in Seq(AllCalls) /\ LastOnly(due)
      /\ UNCHANGED <<ready, retries, m_handshake_finished, m_connected, m_reconnectDialog>>
  BY DEF call_server, flagVars, clientVars, ShapedAt, AttemptShape, ClientTypes
<1>2. /\ LastOnly(due')
      /\ FramedIn(due') <=> FramedIn(due)
      /\ Awaited(due') <=> Awaited(due)
  BY <1>1, RequestTypes
<1>3. AttemptShape(k)'
  BY <1>1, <1>2, ShapeKept DEF ShapedAt
<1> QED BY <1>1, <1>3, RequestStarts DEF Shaped, ShapedAt

LEMMA ShapedStep ==
    ASSUME ClientInv, ClientNext
    PROVE  ClientTypes' /\ Shaped' /\ NoTimerOps'
<1>1. PICK k \in DialKinds \cup {"none"} : ShapedAt(k)
  BY DEF ClientInv, Shaped
<1>2. LastOnly(due) /\ SocketTypeOK
  BY <1>1 DEF ShapedAt, AttemptShape, ClientInv, ClientTypes
<1>3. CASE NetioStep
  BY <1>2, <1>3, NetioClientTypes, ShapedNetio, TimersStep DEF ClientInv
<1>4. CASE Callback \/ call_server \/ dismiss
  <2>1. ClientTypes'
    BY <1>2, <1>4, ClientTypesStep DEF ClientInv
  <2> QED BY <1>1, <1>4, <2>1, ShapedOnError, ShapedStart, ShapedUp, ShapedReturn, ShapedCall
          DEF ClientInv, Callback
<1> QED BY <1>3, <1>4 DEF ClientNext

-----------------------------------------------------------------------------
(* Until something is reported the first attempt goes on.                    *)

LEMMA FirstSystem ==
    ASSUME ClientTypes, NEW k \in DialKinds \cup {"none"}, ShapedAt(k), FirstShape(k), System
    PROVE  \E j \in DialKinds \cup {"none"} : FirstAt(j)'
<1>1. /\ SocketTypeOK /\ UNCHANGED <<due, m_handshake_finished>>
      /\ link' \in {link, "connected"}
  BY DEF ClientTypes, System, Post, ConnectDone, Transfer, TransferFails, TimerFires, flagVars
<1>2. Decided'
  BY <1>1, DecidedSystem DEF FirstShape
<1>3. ~HoldsIn(OtherKinds, ops', ready')
  BY <1>1, CompleteOne, DialKindsOf DEF FirstShape
<1>4. CASE Token(DialKinds, k, ops', ready') /\ UNCHANGED retries
  <2>1. FirstShape(k)'
    BY <1>1, <1>2, <1>3, <1>4 DEF FirstShape
  <2> QED BY <1>4, <2>1 DEF FirstAt
<1>5. CASE TimerFires /\ (k = "none" => Token(DialKinds, "timer", ops', ready'))
  <2>1. retries = 1
    BY <1>5 DEF TimerFires, ShapedAt, AttemptShape
  <2>2. k = "none"
    BY <2>1 DEF ShapedAt, AttemptShape
  <2>3. FirstShape("timer")'
    BY <1>1, <1>2, <1>3, <2>1 DEF FirstShape
  <2> QED BY <1>5, <2>2, <2>3, DialKindsOf DEF FirstAt
<1> QED BY <1>1, <1>4, <1>5, SystemToken, DialKindsOf DEF ShapedAt

\* Nothing but the attempt is queued.
LEMMA FirstPolled ==
    ASSUME ClientTypes, NEW k, ShapedAt(k), FirstShape(k), NEW kind \in OpKinds, Poll(kind)
    PROVE  /\ kind \in DialKinds /\ k = kind /\ Token(DialKinds, "none", ops, ready')
           /\ retries = 0 /\ due = <<>>
           /\ ~HoldsIn(OtherKinds, ops, ready')
           /\ \E S : ~HoldsIn({"connect"}, S, ready')
<1>1. ~HoldsIn(OtherKinds, ops, ready') /\ kind \notin OtherKinds
  BY PollOne DEF FirstShape, ClientTypes
<1>2. kind \in DialKinds
  BY <1>1 DEF OpKinds, ReadKinds, DialKinds, OtherKinds
<1>3. k = kind /\ Token(DialKinds, "none", ops, ready') /\ retries = 0 /\ due = <<>>
  BY <1>2, AttemptPolled
<1>4. ~HoldsIn({"connect"}, ops, ready')
  <2>1. {"connect"} \in SUBSET DialKinds
    BY DEF DialKinds
  <2> QED BY <1>3, <2>1 DEF Token
<1> QED BY <1>1, <1>2, <1>3, <1>4

LEMMA FirstDial ==
    ASSUME ClientTypes, NEW k, ShapedAt(k), FirstShape(k),
           \/ on_connected \/ on_retry
           \/ async_as_client_handshake_writen \/ async_as_client_handshake_readed
    PROVE  \E j \in DialKinds \cup {"none"} : FirstAt(j)'
<1>0. SocketTypeOK /\ Decided
  BY DEF ClientTypes, FirstShape
<1>1. CASE on_connected
  <2>1. /\ Poll("connect") /\ "connect" \in OpKinds
        /\ UNCHANGED <<link, ops, m_handshake_finished>>
    BY <1>1 DEF on_connected, flagVars, OpKinds
  <2>2. /\ Token(DialKinds, "none", ops, ready') /\ retries = 0 /\ due = <<>>
        /\ ~HoldsIn(OtherKinds, ops, ready')
    BY <2>1, FirstPolled
  <2>3. Decided'
    BY <1>0, <2>1, DecidedKept
  <2>4. Head(ready).ec = "ok" => link = "connected"
    <3>1. 1 \in DOMAIN ready /\ Head(ready) = ready[1]
      BY <1>0, <2>1, TailAt DEF Poll, SocketTypeOK
    <3> QED BY <1>0, <2>1, <3>1 DEF Decided, Poll
  <2>5. \/ retries' = 1 /\ due' = <<>>
        \/ retries' = 0 /\ due' = <<"connected">> /\ link = "connected"
        \/ retries' = 0 /\ due' = <<"connect_failed">>
    BY <1>1, <2>2, <2>4 DEF on_connected
  <2>6. FirstShape("none")'
    BY <2>1, <2>2, <2>3, <2>5 DEF FirstShape
  <2> QED BY <2>1, <2>2, <2>6 DEF FirstAt
<1>2. CASE on_retry
  <2>1. /\ Poll("timer") /\ "timer" \in OpKinds /\ async_connect
        /\ UNCHANGED <<retries, due, m_handshake_finished>>
    BY <1>2 DEF on_retry, flagVars, OpKinds
  <2>2. /\ Token(DialKinds, "none", ops, ready') /\ retries = 0 /\ due = <<>>
        /\ ~HoldsIn(OtherKinds, ops, ready')
        /\ \E S : ~HoldsIn({"connect"}, S, ready')
    BY <2>1, FirstPolled
  <2>3. Decided'
    BY <1>0, <2>1, <2>2, DecidedKept
  <2>4. ~HoldsIn(OtherKinds, ops', ready')
    BY <1>0, <2>1, <2>2, ConnectOne, DialKindsOf
  <2>5. Token(DialKinds, "connect", ops', ready')
    BY <1>0, <2>1, <2>2, ConnectToken, DialKindsOf
  <2>6. FirstShape("connect")'
    BY <2>1, <2>2, <2>3, <2>4 DEF FirstShape
  <2> QED BY <2>5, <2>6, DialKindsOf DEF FirstAt
<1>3. CASE async_as_client_handshake_writen \/ async_as_client_handshake_readed
  <2>1. \E kind \in {"hswrite", "hsread"} : Poll(kind)
    BY <1>3 DEF async_as_client_handshake_writen, async_as_client_handshake_readed
  <2>2. PICK kind \in {"hswrite", "hsread"} : Poll(kind)
    BY <2>1
  <2>3. /\ k = kind /\ Token(DialKinds, "none", ops, ready') /\ retries = 0 /\ due = <<>>
        /\ ~HoldsIn(OtherKinds, ops, ready')
        /\ \E S : ~HoldsIn({"connect"}, S, ready')
    BY <1>0, <2>2, FirstPolled DEF OpKinds, ReadKinds
  <2>4. link = "connected"
    BY <2>3, <2>2 DEF FirstShape
  <2>5. CASE HandshakeFails
    <3>1. Token(DialKinds, "none", ops', ready') /\ ~HoldsIn(OtherKinds, ops', ready')
      BY <1>0, <2>3, <2>5, DropToken, DropOne DEF HandshakeFails
    <3>2. retries' = 0 /\ due' = <<"error", "handshake_failed">>
      BY <2>3, <2>5 DEF HandshakeFails, DropSession, close_or_realloc_socket
    <3>3. Decided'
      BY <1>0, <2>2, <2>3, <2>5, DecidedKept DEF HandshakeFails
    <3>4. <<"error", "handshake_failed">> \notin {<<"connected">>, <<"handshaked">>}
      OBVIOUS
    <3>5. FirstShape("none")'
      BY <3>1, <3>2, <3>3, <3>4 DEF FirstShape
    <3> QED BY <3>1, <3>5 DEF FirstAt
  <2>6. CASE Launch("hsread", 0, 1) /\ UNCHANGED <<link, conn, retries, due, m_handshake_finished>>
    <3>1. Token(DialKinds, "hsread", ops', ready')
      BY <2>3, <2>6, LaunchToken, DialKindsOf
    <3>2. ~HoldsIn(OtherKinds, ops', ready')
      BY <2>3, <2>6, LaunchOne, DialKindsOf
    <3>3. Decided'
      BY <1>0, <2>2, <2>6, DecidedKept
    <3>4. FirstShape("hsread")'
      BY <2>3, <2>4, <2>6, <3>2, <3>3 DEF FirstShape
    <3> QED BY <3>1, <3>4, DialKindsOf DEF FirstAt
  <2>7. CASE m_handshake_finished' = TRUE /\ due' = <<"handshaked">> /\ UNCHANGED socketVars
    <3>1. Token(DialKinds, "none", ops', ready') /\ ~HoldsIn(OtherKinds, ops', ready')
      BY <2>3, <2>7 DEF socketVars
    <3>2. Decided'
      BY <1>0, <2>2, <2>7, DecidedKept DEF socketVars
    <3>3. FirstShape("none")'
      BY <2>3, <2>4, <2>7, <3>1, <3>2 DEF FirstShape, socketVars
    <3> QED BY <3>1, <3>3 DEF FirstAt
  <2> QED BY <1>3, <2>5, <2>6, <2>7
          DEF async_as_client_handshake_writen, async_as_client_handshake_readed
<1> QED BY <1>1, <1>2, <1>3

LEMMA FirstHandshake ==
    ASSUME ClientTypes, NEW k, ShapedAt(k), FirstShape(k), async_handshake,
           due = <<"connected">>
    PROVE  \E j \in DialKinds \cup {"none"} : FirstAt(j)'
<1>1. /\ SocketTypeOK /\ Launch("hswrite", 0, 1) /\ due' = <<>>
      /\ UNCHANGED <<link, retries, ready, m_handshake_finished>>
  <2>1. Tail(<<"connected">>) = <<>>
    OBVIOUS
  <2> QED BY <2>1 DEF async_handshake, flagVars, ClientTypes
<1>2. FramedIn(due)
  BY FrameNone DEF Frames
<1>3. k = "none" /\ link = "connected"
  BY <1>2 DEF ShapedAt, AttemptShape, FirstShape
<1>4. Token(DialKinds, "hswrite", ops', ready')
  BY <1>1, <1>3, LaunchToken, DialKindsOf DEF ShapedAt
<1>5. ~HoldsIn(OtherKinds, ops', ready')
  BY <1>1, LaunchOne, DialKindsOf DEF FirstShape
<1>6. Decided'
  BY <1>1, DecidedKept DEF FirstShape
<1>7. FirstShape("hswrite")'
  BY <1>1, <1>3, <1>5, <1>6 DEF FirstShape
<1> QED BY <1>4, <1>7, DialKindsOf DEF FirstAt

\* The calls due in the first life, and what they exclude.
LEMMA FirstCalls ==
    ASSUME FirstLife, FirstInv
    PROVE  due = <<>> \/ Head(due) \in {"connected", "handshaked", "connect_failed",
                                        "error", "session_up"}
<1>1. /\ Head(<<"connected">>) = "connected" /\ Head(<<"handshaked">>) = "handshaked"
      /\ Head(<<"connect_failed">>) = "connect_failed"
      /\ Head(<<"session_up">>) = "session_up"
      /\ Head(<<"error", "handshake_failed">>) = "error"
  OBVIOUS
<1> QED BY <1>1 DEF FirstInv, FirstAt, FirstShape

LEMMA FirstStep ==
    ASSUME ClientInv, ClientNext
    PROVE  FirstInv'
<1> SUFFICES ASSUME FirstLife'
             PROVE  \/ due' = <<"session_up">>
                    \/ \E j \in DialKinds \cup {"none"} : FirstAt(j)'
  BY DEF FirstInv
<1>1. UNCHANGED <<m_connected, m_reconnectDialog>> /\ ~onError /\ ~session_up
  BY DEF ClientNext, Callback, NetioStep, onError, init, start_netio, session_up,
         session_up_crashes, emit_connected, return, call_server, dismiss, clientVars, FirstLife
<1>2. FirstLife /\ ClientTypes
  BY <1>1 DEF FirstLife, ClientInv
<1>3. due = <<>> \/ Head(due) \in {"connected", "handshaked", "connect_failed",
                                   "error", "session_up"}
  BY <1>2, FirstCalls DEF ClientInv
<1>4. PICK k \in DialKinds \cup {"none"} : ShapedAt(k)
  BY DEF ClientInv, Shaped
<1>5. CASE due = <<"session_up">>
  <2>1. Head(due) = "session_up" /\ due # <<>>
    BY <1>5
  <2>2. System \/ UNCHANGED vars
    BY <1>1, <1>2, <2>1 DEF ClientNext, NetioStep, Handler, on_connected, on_retry,
         async_as_client_handshake_writen, async_as_client_handshake_readed, header_readed,
         body_readed, sent, Poll, read_header, stop_after_error, async_handshake, InCallback,
         Callback, start_netio, session_up_crashes, emit_connected, return, call_server,
         dismiss, FirstLife
  <2> QED BY <1>5, <2>2 DEF System, Post, ConnectDone, Transfer, TransferFails, TimerFires, vars
<1>6. CASE FirstShape(k) /\ due # <<"session_up">>
  <2>1. CASE System
    BY <1>2, <1>4, <1>6, <2>1, FirstSystem
  <2>2. CASE \/ on_connected \/ on_retry
             \/ async_as_client_handshake_writen \/ async_as_client_handshake_readed
    BY <1>2, <1>4, <1>6, <2>2, FirstDial
  <2>3. CASE header_readed \/ body_readed \/ sent
    <3>1. \E kind \in OtherKinds \cap OpKinds : Poll(kind)
      BY <2>3 DEF header_readed, body_readed, sent, OtherKinds, OpKinds, ReadKinds
    <3> QED BY <1>2, <1>4, <1>6, <3>1, FirstPolled, DialKindsOf
  <2>4. CASE async_handshake /\ UNCHANGED clientVars
    BY <1>2, <1>4, <1>6, <2>4, ShapedHandshake, FirstHandshake
  <2>5. CASE start_netio
    <3>1. due = <<"handshaked">>
      BY <1>2, <1>4, <2>5, ShapedStart DEF ClientInv
    <3>2. m_handshake_finished /\ link = "connected"
      BY <1>6, <3>1 DEF FirstShape
    <3>3. <<"session_up">> \o Tail(<<"handshaked">>) = <<"session_up">>
      OBVIOUS
    <3> QED BY <2>5, <3>1, <3>2, <3>3 DEF start_netio, is_started
  <2>6. CASE dismiss
    BY <1>4, <1>6, <2>6 DEF dismiss, vars, ShapedAt, FirstAt, FirstShape, Decided
  <2> QED BY <1>1, <1>2, <1>3, <2>1, <2>2, <2>3, <2>4, <2>5, <2>6
          DEF ClientNext, NetioStep, Handler, Callback, read_header, stop_after_error,
              session_up_crashes, emit_connected, InCallback, return, call_server, FirstLife
<1>7. FirstShape(k) \/ due = <<"session_up">>
  <2>1. due = <<"session_up">> \/ \E j \in DialKinds \cup {"none"} : FirstAt(j)
    BY <1>2 DEF FirstInv, ClientInv
  <2> QED BY <1>4, <2>1, TokenUnique, DialKindsOf DEF FirstAt, ShapedAt
<1> QED BY <1>5, <1>6, <1>7

-----------------------------------------------------------------------------

LEMMA ClientInvInit == ClientInit => ClientInv
<1> SUFFICES ASSUME ClientInit PROVE ClientInv
  OBVIOUS
<1> DEFINE c == [kind |-> "connect", conn |-> 0, pkt |-> 0, left |-> 0, ec |-> "pending"]
<1>1. c \in Op /\ c.kind = "connect" /\ c.ec = "pending"
  BY DEF Op, OpKinds, Codes
<1>2. ops = {c} /\ ready = <<>> /\ due = <<>> /\ retries = 0
  BY DEF ClientInit
<1> HIDE DEF c
<1>3. ClientTypes
  <2>1. /\ <<>> \in Seq(Op) /\ <<>> \in Seq(AllCalls) /\ <<>> \in Seq(Nat)
        /\ <<>> \in Seq(1 .. MaxSend) /\ <<>> \in Seq(Chunk)
    BY EmptySeqType
  <2>2. ops \subseteq Op /\ ready \in Seq(Op) /\ due \in Seq(AllCalls)
    BY <1>1, <1>2, <2>1
  <2>3. m_buffers \in Seq(Nat) /\ m_buffers \in Seq(1 .. MaxSend) /\ wire \in Seq(Chunk)
    BY <2>1 DEF ClientInit
  <2>4. sends = 0 /\ 0 <= MaxSend /\ 0 \in Nat
    BY NetioAssumption DEF ClientInit
  <2>5. /\ link = "open" /\ conn = 0 /\ m_handshake_finished = FALSE
        /\ m_write_in_process = FALSE /\ m_stop_requested = TRUE
        /\ m_connected = FALSE /\ m_reconnectDialog = FALSE
        /\ dialog = "none" /\ crash = FALSE
    BY DEF ClientInit
  <2> QED BY <1>2, <2>2, <2>3, <2>4, <2>5 DEF ClientTypes, SocketTypeOK
<1>4. \A K : HoldsIn(K, ops, ready) <=> "connect" \in K
  BY <1>1, <1>2 DEF HoldsIn
<1>5. Token(DialKinds, "connect", ops, ready)
  <2>1. DOMAIN ready = {} /\ \A o1, o2 \in ops : o1 = o2
    BY <1>2
  <2>2. Alone(DialKinds, ops, ready)
    BY <2>1 DEF Alone
  <2> QED BY <1>4, <2>2 DEF Token
<1>6. AttemptShape("connect")
  BY <1>2, FrameNone DEF AttemptShape, ClientInit
<1>7. FirstShape("connect")
  <2>1. <<>> \notin {<<"connected">>, <<"handshaked">>}
    OBVIOUS
  <2>2. Decided
    BY <1>1, <1>2 DEF Decided
  <2> QED BY <1>2, <1>4, <2>1, <2>2, DialKindsOf DEF FirstShape
<1>8. NoTimerOps
  BY <1>1, <1>2 DEF NoTimerOps
<1> QED BY <1>3, <1>5, <1>6, <1>7, <1>8, DialKindsOf
        DEF ClientInv, Shaped, ShapedAt, FirstInv, FirstAt

LEMMA ClientInvStep == ClientInv /\ [ClientNext]_allVars => ClientInv'
<1> SUFFICES ASSUME ClientInv, [ClientNext]_allVars PROVE ClientInv'
  OBVIOUS
<1>1. CASE ClientNext
  BY <1>1, ShapedStep, FirstStep DEF ClientInv
<1>2. CASE UNCHANGED allVars
  BY <1>2 DEF allVars, vars, clientVars, ClientInv, ClientTypes, SocketTypeOK, NoTimerOps,
     Shaped, ShapedAt, AttemptShape, FirstInv, FirstAt, FirstShape, FirstLife, Decided
<1> QED BY <1>1, <1>2

(* The invariant the client's theorems rest on: whatever errors pile up while
   handlers run, there is at most one attempt at a session, of a client that
   is not connected (network_client.cpp: onError 449-473, init 274-309, start 348-385). *)
THEOREM ClientInvariant == ClientSpec => []ClientInv
BY ClientInvInit, ClientInvStep, PTL DEF ClientSpec

(* Every variable of the client and of the netio below it has its type. *)
THEOREM ClientTypeCorrect == ClientSpec => []ClientTypeOK
<1>1. ClientInv => ClientTypeOK
  BY DEF ClientInv, ClientTypes, SocketTypeOK, ClientTypeOK, AllCalls, Calls
<1> QED BY <1>1, ClientInvariant, PTL

(* A retry timer, armed or fired, is the only attempt, on a netio that is not
   started: the close() of its handler tears down nothing (on_connected
   netio.cpp:251-266 armed it; nothing cancels it). *)
THEOREM RetryNeverKillsSessionCorrect == ClientSpec => []RetryNeverKillsSession
<1>1. ASSUME ClientInv PROVE RetryNeverKillsSession
  <2> SUFFICES ASSUME retries > 0 \/ DoneOps("timer") # {}
               PROVE  /\ ~is_started /\ PendingOps("connect") = {}
                      /\ retries + Cardinality(DoneOps("timer")) = 1
    BY DEF RetryNeverKillsSession
  <2>1. PICK k \in DialKinds \cup {"none"} : ShapedAt(k)
    BY <1>1 DEF ClientInv, Shaped
  <2>2. /\ Alone(DialKinds, ops, ready)
        /\ \A x \in DialKinds : HoldsIn({x}, ops, ready) <=> k = x
    BY <2>1 DEF ShapedAt, Token
  <2>3. /\ DoneOps("timer") # {} => HoldsIn({"timer"}, ops, ready)
        /\ PendingOps("connect") # {} => HoldsIn({"connect"}, ops, ready)
    BY DEF DoneOps, PendingOps, HoldsIn
  <2>4. DoneOps("timer") # {} => k = "timer"
    BY <2>2, <2>3, DialKindsOf
  <2>5. retries = 1 \/ k = "timer"
    BY <2>1, <2>4 DEF ShapedAt, AttemptShape
  <2>6. k # "connect" /\ ~m_handshake_finished
    BY <2>1, <2>5 DEF ShapedAt, AttemptShape
  <2>7. CASE retries = 1
    <3>1. k # "timer"
      BY <2>1, <2>7 DEF ShapedAt, AttemptShape
    <3>2. DoneOps("timer") = {}
      BY <2>4, <3>1
    <3> QED BY <2>2, <2>3, <2>6, <2>7, <3>2, FS_EmptySet, DialKindsOf DEF is_started
  <2>8. CASE retries # 1
    <3>1. retries = 0 /\ k = "timer"
      BY <2>1, <2>5, <2>8 DEF ShapedAt, AttemptShape
    <3>2. PICK i : i \in DoneOps("timer")
      <4>1. HoldsIn({"timer"}, ops, ready) /\ NoTimerOps
        BY <1>1, <2>2, <3>1, DialKindsOf DEF ClientInv
      <4> QED BY <4>1 DEF HoldsIn, NoTimerOps, DoneOps
    <3>3. \A a, b \in DoneOps("timer") : a = b
      BY <2>2, DialKindsOf DEF DoneOps, Alone
    <3>4. DoneOps("timer") = {i}
      BY <3>2, <3>3
    <3>5. Cardinality(DoneOps("timer")) = 1
      BY <3>4, FS_Singleton
    <3> QED BY <2>2, <2>3, <2>6, <3>1, <3>5, DialKindsOf DEF is_started
  <2> QED BY <2>7, <2>8, <2>5
<1> QED BY <1>1, ClientInvariant, PTL

(* What started() promises of the connection holds for this client whatever it
   dials over: while netio is started, no connection is being made and no
   handshake is under way (netio.hpp:191 started(); init 274-309 stops what it
   dials over). *)
THEOREM StartedMeansSecureCorrect == ClientSpec => []StartedMeansSecure
<1>1. ASSUME ClientInv PROVE StartedMeansSecure
  <2> SUFFICES ASSUME is_started, NEW o \in ops, o.kind \in {"connect", "hswrite", "hsread"}
               PROVE  FALSE
    BY DEF StartedMeansSecure
  <2>1. PICK k \in DialKinds \cup {"none"} : ShapedAt(k)
    BY <1>1 DEF ClientInv, Shaped
  <2>2. HoldsIn({o.kind}, ops, ready) /\ o.kind \in DialKinds
    BY DEF HoldsIn, DialKinds
  <2>3. k = o.kind
    BY <2>1, <2>2 DEF ShapedAt, Token
  <2> QED BY <2>1, <2>2, <2>3, DialKindsOf DEF ShapedAt, AttemptShape, is_started
<1> QED BY <1>1, ClientInvariant, PTL

-----------------------------------------------------------------------------
(* The dialog and the pointer to it.                                         *)

LEMMA PointsInit == ClientInit => PointsAtDialog
BY DEF ClientInit, PointsAtDialog

LEMMA PointsStep == ClientInv /\ PointsAtDialog /\ [ClientNext]_allVars => PointsAtDialog'
<1> SUFFICES ASSUME ClientInv, PointsAtDialog, [ClientNext]_allVars PROVE PointsAtDialog'
  OBVIOUS
<1>1. dialog \in {"none", "shown", "dismissed"} /\ (m_reconnectDialog => ~m_connected)
  BY DEF ClientInv, ClientTypes, Shaped, ShapedAt, AttemptShape
<1>2. CASE ClientNext /\ (onError \/ session_up \/ session_up_crashes \/ emit_connected \/ dismiss)
  BY <1>1, <1>2 DEF ClientNext, onError, session_up, session_up_crashes, emit_connected,
     dismiss, PointsAtDialog
<1>3. CASE UNCHANGED clientVars
  BY <1>3 DEF clientVars, PointsAtDialog
<1> QED BY <1>2, <1>3 DEF ClientNext, NetioStep, Callback, start_netio, return, call_server,
        allVars

(* m_reconnectDialog is set as long as there is a dialog, through every order of
   losses, retries, sessions and of the user's Esc; it dangles, and is used, only
   after that Esc (onError 455-463, start 377-381; dialog_onerror.cpp:55-66). *)
THEOREM PointsAtDialogCorrect == ClientSpec => []PointsAtDialog
BY PointsInit, PointsStep, ClientInvariant, PTL DEF ClientSpec

(* Whenever the user can do something there is a session, an attempt, or the
   dialog, shown or dismissed: the very first attempt, of the constructor
   (226-256), does not die in silence either. *)
THEOREM LossIsShownCorrect == ClientSpec => []LossIsShown
<1>1. ASSUME ClientInv, PointsAtDialog PROVE LossIsShown
  <2> SUFFICES ASSUME EventLoop, ~m_connected, dialog = "none" PROVE Connecting
    BY DEF LossIsShown
  <2>1. FirstLife /\ due = <<>>
    <3>1. FirstLife
      BY <1>1 DEF PointsAtDialog, FirstLife
    <3> QED BY <1>1, <3>1, FirstCalls DEF ClientInv, EventLoop
  <2>2. PICK k \in DialKinds \cup {"none"} : FirstAt(k)
    <3>1. <<>> # <<"session_up">>
      OBVIOUS
    <3> QED BY <1>1, <2>1, <3>1 DEF ClientInv, FirstInv
  <2>3. k # "none" \/ retries = 1
    <3>1. <<>> \notin {<<"connected">>, <<"handshaked">>, <<"connect_failed">>,
                     <<"error", "handshake_failed">>}
      OBVIOUS
    <3> QED BY <2>1, <2>2, <3>1 DEF FirstAt, FirstShape
  <2>4. CASE k # "none"
    <3>1. HoldsIn({k}, ops, ready)
      BY <2>2, <2>4 DEF FirstAt, Token
    <3>2. k \in AttemptKinds \cup {"timer"}
      BY <2>4, DialKindsOf DEF AttemptKinds
    <3>3. \A o \in ops : o.kind = k => k \in AttemptKinds
      BY <1>1, <3>2 DEF ClientInv, NoTimerOps
    <3> QED BY <3>1, <3>2, <3>3 DEF HoldsIn, Connecting
  <2>5. CASE retries = 1
    BY <2>5 DEF Connecting
  <2> QED BY <2>3, <2>4, <2>5
<1> QED BY <1>1, ClientInvariant, PointsAtDialogCorrect, PTL

-----------------------------------------------------------------------------
(* A session that is up reads.                                               *)

HasCall(c, d) == \E i \in DOMAIN d : d[i] = c
Reads         == HoldsIn({"header", "body"}, ops, ready)
Failing       == due # <<>> /\ Head(due) = "error"
Listening     == /\ is_started /\ ~m_stop_requested
                 /\ Reads \/ HasCall("read_header", due)

\* A session that is up reads, or its error is being reported; a session that
\* comes up reads, or is not started and will say so.
UpInv ==
    /\ m_connected => Failing \/ (Listening /\ ~HasCall("stop", due))
    /\ HasCall("session_up", due) =>
         \/ due = <<"session_up">> /\ (is_started => ~m_stop_requested /\ Reads)
         \/ due = <<"error", "session_up">> /\ ~is_started /\ m_reconnectDialog

LEMMA CallShort ==
    /\ \A c : ~HasCall(c, <<>>)
    /\ \A c, x : HasCall(c, <<x>>) <=> c = x
    /\ \A c, x, y : HasCall(c, <<x, y>>) <=> c \in {x, y}
<1>1. \A x, y : DOMAIN <<x, y>> = {1, 2} /\ <<x, y>>[1] = x /\ <<x, y>>[2] = y
  OBVIOUS
<1>2. \A x : DOMAIN <<x>> = {1} /\ <<x>>[1] = x
  OBVIOUS
<1> QED BY <1>1, <1>2 DEF HasCall

LEMMA CallTail ==
    ASSUME NEW d \in Seq(AllCalls), d # <<>>, NEW c
    PROVE  HasCall(c, d) <=> Head(d) = c \/ HasCall(c, Tail(d))
<1>1. /\ 1 \in DOMAIN d /\ Head(d) = d[1]
      /\ \A i \in DOMAIN Tail(d) : i + 1 \in DOMAIN d /\ Tail(d)[i] = d[i + 1]
      /\ \A i \in DOMAIN d : i = 1 \/ (i - 1 \in DOMAIN Tail(d) /\ Tail(d)[i - 1] = d[i])
  <2>1. DOMAIN d = 1 .. Len(d) /\ Len(d) \in Nat /\ Len(d) > 0 /\ Head(d) = d[1]
    OBVIOUS
  <2>2. DOMAIN Tail(d) = 1 .. Len(d) - 1 /\ \A i \in 1 .. Len(d) - 1 : Tail(d)[i] = d[i + 1]
    OBVIOUS
  <2> QED BY <2>1, <2>2
<1> QED BY <1>1 DEF HasCall

LEMMA CallPush ==
    ASSUME NEW d \in Seq(AllCalls), NEW c, NEW x \in AllCalls
    PROVE  HasCall(c, <<x>> \o d) <=> c = x \/ HasCall(c, d)
<1> DEFINE e == <<x>> \o d
<1>1. e \in Seq(AllCalls) /\ e # <<>> /\ Head(e) = x /\ Tail(e) = d
  OBVIOUS
<1> HIDE DEF e
<1>2. HasCall(c, e) <=> Head(e) = c \/ HasCall(c, Tail(e))
  BY <1>1, CallTail
<1> QED BY <1>1, <1>2 DEF e

\* Unless an error or the session's coming up is next, no session comes up.
LEMMA NoneComesUp ==
    ASSUME ClientTypes, UpInv, due # <<>> => Head(due) \notin {"session_up", "error"}
    PROVE  /\ ~HasCall("session_up", due)
           /\ due # <<>> => ~HasCall("session_up", Tail(due))
<1>1. Head(<<"session_up">>) = "session_up" /\ Head(<<"error", "session_up">>) = "error"
      /\ <<"session_up">> # <<>> /\ <<"error", "session_up">> # <<>>
  OBVIOUS
<1>2. ~HasCall("session_up", due)
  BY <1>1 DEF UpInv
<1> QED BY <1>2, CallTail DEF ClientTypes

\* No attempt is under way beside a session, or one that comes up.
LEMMA NoAttempt ==
    ASSUME ClientInv, m_connected \/ HasCall("session_up", due)
    PROVE  ~HoldsIn(DialKinds, ops, ready)
<1>1. PICK k \in DialKinds \cup {"none"} : ShapedAt(k)
  BY DEF ClientInv, Shaped
<1>2. m_connected \/ FramedIn(due)
  BY DEF FramedIn, HasCall, Frames
<1>3. k = "none"
  BY <1>1, <1>2 DEF ShapedAt, AttemptShape
<1> QED BY <1>1, <1>3, DialKindsOf DEF ShapedAt, Token

LEMMA UpSystem ==
    ASSUME ClientInv, UpInv, System, UNCHANGED clientVars
    PROVE  UpInv'
<1>1. SocketTypeOK /\ Reads' <=> Reads
  BY CompleteOne DEF ClientInv, ClientTypes, Reads
<1>2. UNCHANGED <<due, m_handshake_finished, m_stop_requested, m_connected, m_reconnectDialog>>
  BY DEF System, Post, ConnectDone, Transfer, TransferFails, TimerFires, flagVars, clientVars
<1>3. m_connected \/ HasCall("session_up", due) => UNCHANGED link
  <2>1. ASSUME ~HoldsIn(DialKinds, ops, ready) PROVE ~ConnectDone
    BY <2>1 DEF ConnectDone, HoldsIn, DialKinds
  <2> QED BY <2>1, NoAttempt DEF System, Post, Transfer, TransferFails, TimerFires
<1> QED BY <1>1, <1>2, <1>3 DEF UpInv, Failing, Listening, is_started

LEMMA UpRead ==
    ASSUME ClientInv, UpInv, UNCHANGED clientVars, header_readed \/ body_readed
    PROVE  UpInv'
<1>1. due = <<>> /\ ~HasCall("session_up", due')
  <2>1. due = <<>>
    BY DEF header_readed, body_readed, Poll
  <2>2. due' \in {<<>>, <<"error">>, <<"stopped">>, <<"invoke", "read_header">>}
    BY <2>1 DEF header_readed, body_readed, ReadFails, BadPacket, Dispatch
  <2> QED BY <2>1, <2>2, CallShort
<1>2. ASSUME m_connected PROVE Failing' \/ (Listening' /\ ~HasCall("stop", due'))
  <2>1. Listening
    BY <1>1, <1>2 DEF UpInv, Failing
  <2>2. CASE BadPacket \/ ReadFails
    <3>1. due' = <<"error">>
      BY <2>1, <2>2 DEF BadPacket, ReadFails, Listening
    <3> QED BY <3>1 DEF Failing
  <2>3. CASE /\ \E kind \in {"header", "body"} : \E left : Launch(kind, 0, left)
             /\ UNCHANGED <<link, due>> /\ UNCHANGED flagVars
    <3>1. Reads'
      BY <2>3, LaunchOne DEF Reads
    <3> QED BY <1>1, <2>1, <2>3, <3>1, CallShort DEF Listening, is_started, flagVars
  <2>4. CASE Dispatch /\ UNCHANGED flagVars
    BY <2>1, <2>4, CallShort DEF Dispatch, Listening, is_started, flagVars, socketVars
  <2> QED BY <2>2, <2>3, <2>4 DEF header_readed, body_readed
<1> QED BY <1>1, <1>2 DEF UpInv, clientVars

LEMMA UpSent ==
    ASSUME ClientInv, UpInv, UNCHANGED clientVars, sent
    PROVE  UpInv'
<1>0. SocketTypeOK
  BY DEF ClientInv, ClientTypes
<1>1. due = <<>> /\ ~HasCall("session_up", due')
  <2>1. due = <<>> /\ due' \in {<<>>, <<"error">>}
    BY DEF sent, Poll, StartNext, WriteFails
  <2> QED BY <2>1, CallShort
<1>2. ASSUME m_connected PROVE Failing' \/ (Listening' /\ ~HasCall("stop", due'))
  <2>1. Listening
    BY <1>1, <1>2 DEF UpInv, Failing
  <2>2. CASE WriteFails
    BY <2>2 DEF WriteFails, Failing
  <2>3. CASE ~WriteFails
    <3>1. UNCHANGED <<link, due, m_handshake_finished, m_stop_requested>>
      BY <2>3 DEF sent, StartNext, socketVars
    <3>2. HoldsIn({"header", "body"}, ops, ready') <=> Reads
      BY <1>0, PollOne DEF sent, Reads
    <3>3. ops' = ops \/ \E pkt, left : Launch("write", pkt, left)
      BY <2>3 DEF sent, StartNext, socketVars
    <3>4. Reads' <=> HoldsIn({"header", "body"}, ops, ready')
      <4>1. "write" \notin {"header", "body"}
        OBVIOUS
      <4>2. HoldsIn({"header", "body"}, ops', ready') <=> HoldsIn({"header", "body"}, ops, ready')
        BY <3>3, <4>1, LaunchOne
      <4> QED BY <4>2 DEF Reads
    <3> QED BY <1>1, <2>1, <3>1, <3>2, <3>4, CallShort DEF Listening, is_started
  <2> QED BY <2>2, <2>3
<1> QED BY <1>1, <1>2 DEF UpInv, clientVars

LEMMA UpDial ==
    ASSUME ClientInv, UpInv, UNCHANGED clientVars,
           \/ on_connected \/ on_retry
           \/ async_as_client_handshake_writen \/ async_as_client_handshake_readed
    PROVE  UpInv'
<1>1. PICK kind \in DialKinds : Poll(kind)
  BY DEF on_connected, on_retry, async_as_client_handshake_writen,
     async_as_client_handshake_readed, DialKinds
<1>2. PICK k \in DialKinds \cup {"none"} : ShapedAt(k)
  BY DEF ClientInv, Shaped
<1>3. ~m_connected /\ due = <<>>
  BY <1>1, <1>2, AttemptPolled DEF ClientInv
<1>4. due' \in {<<>>, <<"connected">>, <<"connect_failed">>, <<"handshaked">>,
                <<"error", "handshake_failed">>}
  BY <1>3 DEF on_connected, on_retry, async_as_client_handshake_writen,
     async_as_client_handshake_readed, HandshakeFails
<1>5. ~HasCall("session_up", due')
  BY <1>4, CallShort
<1> QED BY <1>3, <1>5 DEF UpInv, clientVars

\* A call that is due is made, by netio or by the client.
LEMMA UpCalled ==
    ASSUME ClientInv, UpInv,
           \/ (read_header \/ stop_after_error \/ async_handshake) /\ UNCHANGED clientVars
           \/ return \/ emit_connected
    PROVE  UpInv'
<1>1. /\ due # <<>> /\ due' = Tail(due) /\ due \in Seq(AllCalls)
      /\ Head(due) \in {"read_header", "stop", "connected", "emit_connected", "invoke",
                        "stopped", "server_not_available"}
      /\ UNCHANGED m_connected
  BY DEF read_header, stop_after_error, async_handshake, InCallback, return, emit_connected,
     clientVars, ClientInv, ClientTypes
<1>2. ~HasCall("session_up", due')
  BY <1>1, NoneComesUp DEF ClientInv
<1>3. ASSUME m_connected PROVE Listening' /\ ~HasCall("stop", due')
  <2>1. Listening /\ ~HasCall("stop", due)
    BY <1>1, <1>3 DEF UpInv, Failing
  <2>2. Head(due) # "stop" /\ ~HasCall("stop", due')
    BY <1>1, <2>1, CallTail
  <2>3. Head(due) # "connected"
    <3>1. PICK k \in DialKinds \cup {"none"} : ShapedAt(k)
      BY DEF ClientInv, Shaped
    <3>2. ~FramedIn(due) /\ LastOnly(due)
      BY <1>3, <3>1 DEF ShapedAt, AttemptShape
    <3> QED BY <1>1, <3>2, FrameTail DEF Frames
  <2>4. CASE read_header
    <3>1. Reads'
      BY <2>4, LaunchOne DEF read_header, Reads
    <3> QED BY <2>1, <2>2, <2>4, <3>1 DEF read_header, Listening, is_started, flagVars
  <2>5. CASE return \/ emit_connected
    <3>1. Head(due) # "read_header" /\ UNCHANGED <<ops, ready, link>> /\ UNCHANGED flagVars
      BY <2>5 DEF return, emit_connected, InCallback, socketVars
    <3>2. HasCall("read_header", due) => HasCall("read_header", due')
      BY <1>1, <3>1, CallTail
    <3> QED BY <2>1, <2>2, <3>1, <3>2 DEF Listening, Reads, is_started, flagVars
  <2> QED BY <2>2, <2>3, <2>4, <2>5 DEF stop_after_error, async_handshake, InCallback
<1> QED BY <1>1, <1>2, <1>3 DEF UpInv

LEMMA UpOnError ==
    ASSUME ClientInv, UpInv, onError
    PROVE  UpInv'
<1>1. /\ due # <<>> /\ Head(due) \in ErrorCalls /\ due \in Seq(AllCalls) /\ m_connected' = FALSE
      /\ Tail(due) \in Seq(AllCalls)
  BY HeadTail DEF onError, InCallback, ClientInv, ClientTypes
<1>2. CASE HasCall("session_up", due)
  <2>1. due = <<"error", "session_up">> /\ ~is_started /\ m_reconnectDialog
    <3>1. Head(<<"session_up">>) = "session_up"
      OBVIOUS
    <3> QED BY <1>1, <1>2, <3>1 DEF UpInv, ErrorCalls
  <2>2. Tail(<<"error", "session_up">>) = <<"session_up">>
    OBVIOUS
  <2>3. due' = <<"session_up">> /\ UNCHANGED link /\ UNCHANGED flagVars
    BY <2>1, <2>2 DEF onError
  <2> QED BY <1>1, <2>1, <2>3 DEF UpInv, is_started, flagVars
<1>3. CASE ~HasCall("session_up", due)
  <2>1. ~HasCall("session_up", Tail(due))
    BY <1>1, <1>3, CallTail
  <2>2. "server_not_available" \in AllCalls
    BY AllCallsType
  <2>3. ~HasCall("session_up", <<"server_not_available">> \o Tail(due))
    BY <1>1, <2>1, <2>2, CallPush
  <2>4. due' \in {Tail(due), <<"server_not_available">> \o Tail(due)}
    BY DEF onError, init
  <2> QED BY <1>1, <2>1, <2>3, <2>4 DEF UpInv
<1> QED BY <1>2, <1>3

LEMMA UpStart ==
    ASSUME ClientInv, UpInv, start_netio
    PROVE  UpInv'
<1>1. PICK k \in DialKinds \cup {"none"} : ShapedAt(k)
  BY DEF ClientInv, Shaped
<1>2. due = <<"handshaked">> /\ ~m_connected /\ UNCHANGED clientVars
  <2>1. due = <<"handshaked">>
    BY <1>1, ShapedStart DEF ClientInv
  <2>2. FramedIn(<<"handshaked">>)
    BY FrameNone DEF Frames
  <2> QED BY <1>1, <2>1, <2>2 DEF ShapedAt, AttemptShape, start_netio
<1>3. Tail(<<"handshaked">>) = <<>> /\ <<"session_up">> \o <<>> = <<"session_up">>
      /\ <<"error", "session_up">> \o <<>> = <<"error", "session_up">>
  OBVIOUS
<1>4. CASE is_started
  <2>1. due' = <<"session_up">> /\ m_stop_requested' = FALSE /\ Launch("header", 0, ReadSize)
    BY <1>2, <1>3, <1>4 DEF start_netio
  <2>2. Reads'
    BY <2>1, LaunchOne DEF Reads
  <2> QED BY <1>2, <2>1, <2>2 DEF UpInv, clientVars
<1>5. CASE ~is_started
  <2>1. due' = <<"error", "session_up">>
    BY <1>2, <1>3, <1>5 DEF start_netio
  <2>2. ~is_started'
    BY <1>5 DEF start_netio, is_started
  <2>3. m_reconnectDialog
    <3>1. SUFFICES ASSUME FirstLife PROVE FALSE
      BY <1>2 DEF FirstLife
    <3>2. <<"handshaked">> # <<"session_up">> /\ <<"handshaked">> # <<>>
          /\ <<"handshaked">> # <<"connected">> /\ <<"handshaked">> # <<"connect_failed">>
          /\ <<"handshaked">> # <<"error", "handshake_failed">>
      OBVIOUS
    <3>3. PICK j : FirstShape(j)
      BY <1>2, <3>1, <3>2 DEF ClientInv, FirstInv, FirstAt
    <3>4. m_handshake_finished /\ link = "connected"
      BY <1>2, <3>2, <3>3 DEF FirstShape
    <3> QED BY <1>5, <3>4 DEF is_started
  <2> QED BY <1>2, <2>1, <2>2, <2>3 DEF UpInv, clientVars
<1> QED BY <1>4, <1>5

\* A request keeps the reads going, or its error is next.
LEMMA UpRequest ==
    ASSUME NEW rest \in Seq(AllCalls), Request(rest), UNCHANGED <<link, ready>>,
           UNCHANGED flagVars, ~HasCall("session_up", rest)
    PROVE  /\ ~HasCall("session_up", due')
           /\ Failing' \/ (/\ due' = rest /\ is_started' /\ (Reads => Reads')
                           /\ m_stop_requested' = m_stop_requested)
<1>1. CASE is_started /\ StartOrQueue(sends + 1) /\ due' = rest
  <2>1. Reads => Reads'
    BY <1>1, LaunchOne DEF StartOrQueue, Reads
  <2> QED BY <1>1, <2>1 DEF is_started, flagVars
<1>2. CASE due' = <<"error">> \o rest
  <2>1. ~HasCall("session_up", <<"error">> \o rest)
    BY CallPush, AllCallsType
  <2>2. Head(<<"error">> \o rest) = "error" /\ <<"error">> \o rest # <<>>
    OBVIOUS
  <2> QED BY <1>2, <2>1, <2>2 DEF Failing
<1>3. CASE due' = <<"error", "stop">> \o rest
  <2>1. <<"stop">> \o rest \in Seq(AllCalls)
        /\ <<"error", "stop">> \o rest = <<"error">> \o (<<"stop">> \o rest)
    BY AllCallsType
  <2>2. ~HasCall("session_up", <<"error", "stop">> \o rest)
    BY <2>1, CallPush, AllCallsType
  <2>3. Head(<<"error", "stop">> \o rest) = "error" /\ <<"error", "stop">> \o rest # <<>>
    OBVIOUS
  <2> QED BY <1>3, <2>2, <2>3 DEF Failing
<1> QED BY <1>1, <1>2, <1>3 DEF Request

LEMMA UpUp ==
    ASSUME ClientInv, UpInv, session_up
    PROVE  UpInv'
<1>1. due # <<>> /\ Head(due) = "session_up" /\ due \in Seq(AllCalls)
      /\ UNCHANGED <<link, ready>> /\ UNCHANGED flagVars
  BY DEF session_up, InCallback, ClientInv, ClientTypes
<1>2. due = <<"session_up">> /\ (is_started => ~m_stop_requested /\ Reads)
  <2>1. HasCall("session_up", due)
    BY <1>1, CallTail
  <2>2. Head(<<"error", "session_up">>) = "error"
    OBVIOUS
  <2> QED BY <1>1, <2>1, <2>2 DEF UpInv
<1>3. \/ Request(<<"emit_connected">>)
      \/ is_started /\ due' = <<"emit_connected">> /\ UNCHANGED ops
  <2>1. Tail(<<"session_up">>) = <<>> /\ <<"emit_connected">> \o <<>> = <<"emit_connected">>
    OBVIOUS
  <2> QED BY <1>2, <2>1 DEF session_up
<1>4. /\ <<"emit_connected">> \in Seq(AllCalls)
      /\ ~HasCall("session_up", <<"emit_connected">>) /\ ~HasCall("stop", <<"emit_connected">>)
  BY AllCallsType, CallShort
<1>5. CASE Request(<<"emit_connected">>)
  <2>1. /\ ~HasCall("session_up", due')
        /\ Failing' \/ (/\ due' = <<"emit_connected">> /\ is_started' /\ (Reads => Reads')
                        /\ m_stop_requested' = m_stop_requested)
    BY <1>1, <1>4, <1>5, UpRequest
  <2>2. is_started' => is_started
    BY <1>1 DEF is_started, flagVars
  <2> QED BY <1>2, <1>4, <2>1, <2>2 DEF UpInv, Listening
<1>6. CASE is_started /\ due' = <<"emit_connected">> /\ UNCHANGED ops
  BY <1>1, <1>2, <1>4, <1>6 DEF UpInv, Listening, Reads, is_started, flagVars
<1> QED BY <1>3, <1>5, <1>6

LEMMA UpCall ==
    ASSUME ClientInv, UpInv, call_server
    PROVE  UpInv'
<1>1. /\ m_connected /\ due \in Seq(AllCalls) /\ Request(due)
      /\ due # <<>> => Head(due) = "invoke"
      /\ UNCHANGED <<link, ready>> /\ UNCHANGED flagVars /\ UNCHANGED clientVars
  BY DEF call_server, ClientInv, ClientTypes
<1>2. Listening /\ ~HasCall("stop", due) /\ ~HasCall("session_up", due)
  BY <1>1, NoneComesUp DEF UpInv, Failing, ClientInv
<1>3. /\ ~HasCall("session_up", due')
      /\ Failing' \/ (/\ due' = due /\ is_started' /\ (Reads => Reads')
                      /\ m_stop_requested' = m_stop_requested)
  BY <1>1, <1>2, UpRequest
<1> QED BY <1>2, <1>3 DEF UpInv, Listening

LEMMA UpInit == ClientInit => UpInv
BY CallShort DEF ClientInit, UpInv

LEMMA UpStep == ClientInv /\ UpInv /\ [ClientNext]_allVars => UpInv'
<1> SUFFICES ASSUME ClientInv, UpInv, [ClientNext]_allVars PROVE UpInv'
  OBVIOUS
<1>1. CASE NetioStep
  BY <1>1, UpSystem, UpRead, UpSent, UpDial, UpCalled DEF NetioStep, Handler
<1>2. CASE Callback \/ call_server
  <2>1. CASE session_up_crashes
    BY <2>1 DEF session_up_crashes, vars, UpInv, Failing, Listening, Reads, is_started
  <2> QED BY <1>2, <2>1, UpOnError, UpStart, UpUp, UpCalled, UpCall DEF Callback
<1>3. CASE dismiss \/ UNCHANGED allVars
  BY <1>3 DEF dismiss, allVars, vars, clientVars, UpInv, Failing, Listening, Reads, is_started
<1> QED BY <1>1, <1>2, <1>3 DEF ClientNext

(* A client that is connected has a netio that is started and reads, whenever
   the program can make a request: whatever an earlier session left behind,
   late completions, a stop() after an error, m_stop_requested, never leaves
   a session that is deaf (start 346-385, network_client.cpp; header_readed and
   body_readed 1394-1630, netio.cpp). *)
THEOREM ConnectedMeansListeningCorrect == ClientSpec => []ConnectedMeansListening
<1>1. ASSUME UpInv PROVE ConnectedMeansListening
  <2> SUFFICES ASSUME EventLoop, m_connected
               PROVE  /\ is_started
                      /\ \/ \E kind \in {"header", "body"} :
                               PendingOps(kind) # {} \/ DoneOps(kind) # {}
                         \/ \E i \in DOMAIN due : due[i] = "read_header"
    BY DEF ConnectedMeansListening
  <2>1. Listening
    BY <1>1 DEF UpInv, Failing, EventLoop
  <2>2. Reads => \E kind \in {"header", "body"} : PendingOps(kind) # {} \/ DoneOps(kind) # {}
    BY DEF Reads, HoldsIn, PendingOps, DoneOps
  <2> QED BY <2>1, <2>2 DEF Listening, HasCall
<1>2. UpInv /\ ClientInv /\ [ClientNext]_allVars => UpInv'
  BY UpStep
<1> QED BY <1>1, <1>2, UpInit, ClientInvariant, PTL DEF ClientSpec
=============================================================================
