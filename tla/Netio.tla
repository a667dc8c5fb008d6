------------------------------- MODULE Netio -------------------------------
(***************************************************************************)
(* The transport of the poker client: struct netio::impl of                *)
(* common/netio/src/netio.cpp on top of the asio socket and the one-shot   *)
(* timer of common/netio/src/qt_netio.cpp, client side, encrypted.         *)
(*                                                                         *)
(* Asynchronous operations are started on the current socket, complete in  *)
(* the operating system, and wait in the io_service until the 5 ms QTimer  *)
(* of the worker runs ONE completion handler (poll_one) in the GUI thread. *)
(* Between the completion of an operation and its handler anything else    *)
(* the program does may happen: that gap is what this module is about.     *)
(*                                                                         *)
(* A handler that calls back into the program leaves the calls it still    *)
(* has to make, in order, in `due'; while `due' is not empty no other      *)
(* handler runs.  The program (the user of netio) acts between handlers    *)
(* and inside its callbacks.                                               *)
(***************************************************************************)
EXTENDS Naturals, Sequences, FiniteSets

CONSTANTS
    MaxConn,     \* bound: TCP connections established in a behaviour
    MaxSend,     \* bound: packets the program sends in a behaviour
    MaxPending,  \* bound: completions and retry timers pending when dialling
    Size,        \* bytes of a packet sent: a write may be partial
    ReadSize,    \* bytes of a header or a body received: so may a read
    Faults,      \* what may go wrong outside the program
    Patient      \* TRUE: the program sends to and stops only a started
                 \* session, and dials again only when netio is quiet

FaultKinds == {"refused", "io", "packet", "key", "pack"}

ASSUME NetioAssumption ==
    /\ MaxConn \in Nat
    /\ MaxSend \in Nat
    /\ MaxPending \in Nat
    /\ Size \in Nat \ {0}
    /\ ReadSize \in Nat \ {0}
    /\ Faults \subseteq FaultKinds
    /\ Patient \in BOOLEAN

VARIABLES
    link,                   \* m_sock: "closed", "open" (not connected) or "connected"
    conn,                   \* how many TCP connections have been established
    ops,                    \* operations started and not yet completed
    retries,                \* armed one-shot timers of on_connected
    ready,                  \* completions the io_service holds, oldest first
    due,                    \* calls the running handler still has to make
    m_handshake_finished,
    m_write_in_process,
    m_stop_requested,
    m_buffers,              \* packets waiting behind the write in process
    sends,                  \* packets handed to send_packet so far
    wire                    \* history: chunks of packets the kernel accepted

socketVars == <<link, conn, ops, retries>>
flagVars   == <<m_handshake_finished, m_stop_requested>>
writeVars  == <<m_write_in_process, m_buffers, sends>>
vars == <<link, conn, ops, retries, ready, due, m_handshake_finished,
          m_write_in_process, m_stop_requested, m_buffers, sends, wire>>

Packets   == 1 .. MaxSend
ReadKinds == {"hsread", "header", "body"}
OpKinds   == ReadKinds \cup {"connect", "hswrite", "write", "timer"}
Codes     == {"pending", "ok", "refused", "error", "aborted"}
Op        == [kind : OpKinds, conn : Nat, pkt : Nat, left : Nat, ec : Codes]
Chunk     == [pkt : Nat, from : Nat, n : Nat, conn : Nat, secure : BOOLEAN]

\* Calls of the program's callbacks, and the rest of a handler after one.
Callbacks     == {"connected", "connect_failed", "handshaked",
                  "handshake_failed", "error", "stopped", "invoke"}
Continuations == {"read_header", "stop"}

TypeOK ==
    /\ link \in {"closed", "open", "connected"}
    /\ conn \in Nat
    /\ ops \subseteq Op
    /\ retries \in Nat
    /\ ready \in Seq(Op)
    /\ due \in Seq(Callbacks \cup Continuations)
    /\ m_handshake_finished \in BOOLEAN
    /\ m_write_in_process \in BOOLEAN
    /\ m_stop_requested \in BOOLEAN
    /\ m_buffers \in Seq(Nat)
    /\ sends \in Nat
    /\ wire \in Seq(Chunk)

-----------------------------------------------------------------------------
(* The socket.                                                             *)

\* Starting an operation on a closed socket completes it at once with an
\* error; on a socket that is still connecting it fails or waits, as the
\* platform has it.
Started(kind, pkt, left) ==
    { o \in [kind : {kind}, conn : {conn}, pkt : {pkt}, left : {left},
             ec : {"pending", "error"}] :
        /\ link = "connected" => o.ec = "pending"
        /\ link = "closed"    => o.ec = "error" }

Launch(kind, pkt, left) ==
    \E o \in Started(kind, pkt, left) : ops' = ops \cup {o}

\* close() or a new socket: either way every operation of the old socket is
\* cancelled and completes with operation_aborted.
Cancelled(S) ==
    { IF o.ec = "pending" THEN [o EXCEPT !.ec = "aborted"] ELSE o : o \in S }

close_or_realloc_socket ==
    /\ link' = "closed"
    /\ ops' = Cancelled(ops)
    /\ UNCHANGED <<conn, retries>>

\* The calls in which asio decides an operation also queue its completion.
Settled == \A o \in ops : o.ec = "pending"

\* external: asio queues a completion that is already decided
Post ==
    /\ \E o \in ops :
         /\ o.ec # "pending"
         /\ ops' = ops \ {o}
         /\ ready' = Append(ready, o)
    /\ UNCHANGED <<link, conn, retries, due, wire>>
    /\ UNCHANGED flagVars
    /\ UNCHANGED writeVars

\* external: the outcome of a connection attempt
ConnectDone ==
    /\ Settled
    /\ \E o \in ops :
         /\ o.kind = "connect"
         /\ ops' = ops \ {o}
         /\ \/ /\ conn < MaxConn
               /\ link' = "connected"
               /\ conn' = conn + 1
               /\ ready' = Append(ready, [o EXCEPT !.ec = "ok"])
            \/ /\ "refused" \in Faults
               /\ ready' = Append(ready, [o EXCEPT !.ec = "refused"])
               /\ UNCHANGED <<link, conn>>
            \/ /\ "io" \in Faults
               /\ ready' = Append(ready, [o EXCEPT !.ec = "error"])
               /\ UNCHANGED <<link, conn>>
    /\ UNCHANGED <<retries, due, wire>>
    /\ UNCHANGED flagVars
    /\ UNCHANGED writeVars

\* Mutant: the buffer is handed over with a byte too many.
MovedPastTheEnd(o) == 1 .. o.left + 1

\* How much one async_read_some or async_write_some may move: the buffer it
\* is given is what is left of the header, of the body or of the packet.
Moved(o) == 1 .. o.left

\* external: a read or a write moves some bytes
Transfer ==
    /\ Settled
    /\ link = "connected"
    /\ \E o \in ops :
         /\ o.kind # "connect"
         /\ ops' = ops \ {o}
         /\ \E n \in Moved(o) :
              /\ ready' = Append(ready, [o EXCEPT !.ec = "ok", !.left = @ - n])
              /\ wire' = IF o.kind = "write"
                         THEN Append(wire, [pkt |-> o.pkt, from |-> o.left,
                                            n |-> n, conn |-> conn,
                                            secure |-> m_handshake_finished])
                         ELSE wire
    /\ UNCHANGED <<link, conn, retries, due>>
    /\ UNCHANGED flagVars
    /\ UNCHANGED writeVars

\* external: a read or a write fails (end of file, reset, broken pipe)
TransferFails ==
    /\ Settled
    /\ "io" \in Faults
    /\ link # "closed"
    /\ \E o \in ops :
         /\ o.kind # "connect"
         /\ ops' = ops \ {o}
         /\ ready' = Append(ready, [o EXCEPT !.ec = "error"])
    /\ UNCHANGED <<link, conn, retries, due, wire>>
    /\ UNCHANGED flagVars
    /\ UNCHANGED writeVars

\* external: a connect-retry timer expires
TimerFires ==
    /\ Settled
    /\ retries > 0
    /\ retries' = retries - 1
    /\ ready' = Append(ready, [kind |-> "timer", conn |-> conn, pkt |-> 0,
                               left |-> 0, ec |-> "ok"])
    /\ UNCHANGED <<link, conn, ops, due, wire>>
    /\ UNCHANGED flagVars
    /\ UNCHANGED writeVars

-----------------------------------------------------------------------------
(* Connecting and the client's handshake.                                  *)

\* close an open socket, then m_sock->async_connect
async_connect ==
    /\ link' = "open"
    /\ ops' = Cancelled(ops) \cup {[kind |-> "connect", conn |-> conn,
                                    pkt |-> 0, left |-> 0, ec |-> "pending"]}

\* poll_one: the handler of the oldest completion, if it is of this kind
Poll(kind) ==
    /\ Settled
    /\ due = <<>>
    /\ ready # <<>>
    /\ Head(ready).kind = kind
    /\ ready' = Tail(ready)

\* stop_services(); m_handshake_finished = false; close_or_realloc_socket()
DropSession ==
    /\ m_handshake_finished' = FALSE
    /\ close_or_realloc_socket

\* Only a refused (or unreachable) attempt is retried, one second later.
on_connected ==
    /\ Poll("connect")
    /\ \/ /\ Head(ready).ec = "refused"
          /\ retries' = retries + 1
          /\ UNCHANGED due
       \/ /\ Head(ready).ec = "ok"
          /\ due' = <<"connected">>
          /\ UNCHANGED retries
       \/ /\ Head(ready).ec \notin {"refused", "ok"}
          /\ due' = <<"connect_failed">>
          /\ UNCHANGED retries
    /\ UNCHANGED <<link, conn, ops, wire>>
    /\ UNCHANGED flagVars
    /\ UNCHANGED writeVars

on_retry ==
    /\ Poll("timer")
    /\ async_connect
    /\ UNCHANGED <<conn, retries, due, wire>>
    /\ UNCHANGED flagVars
    /\ UNCHANGED writeVars

HandshakeFails ==
    /\ DropSession
    /\ due' = <<"error", "handshake_failed">>

async_as_client_handshake_writen ==
    /\ Poll("hswrite")
    /\ \/ /\ Head(ready).ec = "ok"
          /\ Launch("hsread", 0, 1)
          /\ UNCHANGED <<link, conn, retries, due, m_handshake_finished>>
       \/ /\ Head(ready).ec # "ok"
          /\ HandshakeFails
    /\ UNCHANGED <<m_stop_requested, wire>>
    /\ UNCHANGED writeVars

async_as_client_handshake_readed ==
    /\ Poll("hsread")
    /\ \/ /\ Head(ready).ec = "ok"
          /\ m_handshake_finished' = TRUE
          /\ due' = <<"handshaked">>
          /\ UNCHANGED socketVars
       \/ /\ Head(ready).ec # "ok" \/ "key" \in Faults
          /\ HandshakeFails
    /\ UNCHANGED <<m_stop_requested, wire>>
    /\ UNCHANGED writeVars

-----------------------------------------------------------------------------
(* The read loop: header, body, dispatch, header...                        *)

\* Mutant: a read that fails because of stop() is swallowed.
ReadFailsSilently ==
    /\ DropSession
    /\ m_stop_requested' = FALSE
    /\ due' = IF m_stop_requested THEN <<>> ELSE <<"error">>

\* What header_readed and body_readed do with a failed read: an error is
\* reported unless stop() was called, in which case the stop handler runs.
ReadFails ==
    /\ DropSession
    /\ m_stop_requested' = FALSE
    /\ due' = IF m_stop_requested THEN <<"stopped">> ELSE <<"error">>

\* An answer of the peer the code refuses: too long a header, a body that
\* cannot be unpacked or parsed, an API that cannot be invoked.
BadPacket ==
    /\ "packet" \in Faults
    /\ DropSession
    /\ due' = <<"error">>
    /\ UNCHANGED m_stop_requested

header_readed ==
    /\ Poll("header")
    /\ \/ /\ Head(ready).ec = "ok" /\ Head(ready).left > 0
          /\ Launch("header", 0, Head(ready).left)
          /\ UNCHANGED <<link, conn, retries, due>>
          /\ UNCHANGED flagVars
       \/ /\ Head(ready).ec = "ok" /\ Head(ready).left = 0
          /\ Launch("body", 0, ReadSize)
          /\ UNCHANGED <<link, conn, retries, due>>
          /\ UNCHANGED flagVars
       \/ /\ Head(ready).ec = "ok" /\ Head(ready).left = 0
          /\ BadPacket
       \/ /\ Head(ready).ec # "ok"
          /\ ReadFails
    /\ UNCHANGED wire
    /\ UNCHANGED writeVars

\* Mutants: the next header is not read, or read before the dispatch too.
DispatchOnly == due' = <<"invoke">> /\ UNCHANGED socketVars

DispatchAndRead ==
    /\ due' = <<"invoke", "read_header">>
    /\ Launch("header", 0, ReadSize)
    /\ UNCHANGED <<link, conn, retries>>

\* A whole packet: the handler it names is invoked, then the next is read.
Dispatch == due' = <<"invoke", "read_header">> /\ UNCHANGED socketVars

body_readed ==
    /\ Poll("body")
    /\ \/ /\ Head(ready).ec = "ok" /\ Head(ready).left > 0
          /\ Launch("body", 0, Head(ready).left)
          /\ UNCHANGED <<link, conn, retries, due>>
          /\ UNCHANGED flagVars
       \/ /\ Head(ready).ec = "ok" /\ Head(ready).left = 0
          /\ Dispatch
          /\ UNCHANGED flagVars
       \/ /\ Head(ready).ec = "ok" /\ Head(ready).left = 0
          /\ BadPacket
       \/ /\ Head(ready).ec # "ok"
          /\ ReadFails
    /\ UNCHANGED wire
    /\ UNCHANGED writeVars

\* The tail of body_readed, after the invoked handler has returned: the
\* next header is read whatever that handler did to the socket.
read_header ==
    /\ Settled
    /\ due # <<>> /\ Head(due) = "read_header"
    /\ due' = Tail(due)
    /\ Launch("header", 0, ReadSize)
    /\ UNCHANGED <<link, conn, retries, ready, wire>>
    /\ UNCHANGED flagVars
    /\ UNCHANGED writeVars

-----------------------------------------------------------------------------
(* The write queue.                                                        *)

is_started == m_handshake_finished /\ link # "closed"

\* impl::send on the packet `pkt'
StartOrQueue(pkt) ==
    IF m_write_in_process
    THEN /\ m_buffers' = Append(m_buffers, pkt)
         /\ UNCHANGED <<m_write_in_process, ops>>
    ELSE /\ m_write_in_process' = TRUE
         /\ Launch("write", pkt, Size)
         /\ UNCHANGED m_buffers

\* Mutant: the packet that is started stays in the queue.
StartNextTwice ==
    /\ m_write_in_process' = TRUE
    /\ Launch("write", Head(m_buffers), Size)
    /\ UNCHANGED m_buffers

StartNext ==
    /\ m_write_in_process' = TRUE
    /\ Launch("write", Head(m_buffers), Size)
    /\ m_buffers' = Tail(m_buffers)

\* Mutants: the queue, or the session, survives a failed write.
WriteFailsKeepsQueue ==
    /\ m_write_in_process' = FALSE
    /\ DropSession
    /\ due' = <<"error">>
    /\ UNCHANGED m_buffers

WriteFailsKeepsSession ==
    /\ m_write_in_process' = FALSE
    /\ m_buffers' = <<>>
    /\ due' = <<"error">>
    /\ UNCHANGED socketVars
    /\ UNCHANGED m_handshake_finished

WriteFails ==
    /\ m_write_in_process' = FALSE
    /\ m_buffers' = <<>>
    /\ DropSession
    /\ due' = <<"error">>

\* A partial write goes on with the rest of the buffer; an error drops the
\* session and the queue; a whole packet lets the next one start.
sent ==
    /\ Poll("write")
    /\ LET w == Head(ready) IN
       \/ /\ w.ec = "ok" /\ w.left > 0
          /\ Launch("write", w.pkt, w.left)
          /\ UNCHANGED <<link, conn, retries, due, m_handshake_finished,
                         m_write_in_process, m_buffers>>
       \/ /\ w.ec = "ok" /\ w.left = 0 /\ m_buffers = <<>>
          /\ m_write_in_process' = FALSE
          /\ UNCHANGED socketVars
          /\ UNCHANGED <<due, m_handshake_finished, m_buffers>>
       \/ /\ w.ec = "ok" /\ w.left = 0 /\ m_buffers # <<>>
          /\ StartNext
          /\ UNCHANGED <<link, conn, retries, due, m_handshake_finished>>
       \/ /\ w.ec # "ok"
          /\ WriteFails
    /\ UNCHANGED <<m_stop_requested, sends, wire>>

-----------------------------------------------------------------------------
(* What the program calls, between handlers or inside a callback.          *)

UserCode == Settled /\ (due # <<>> => Head(due) \in Callbacks)

Quiet == ops = {} /\ ready = <<>> /\ retries = 0 /\ due = <<>>

\* netio::async_connect
Dial ==
    /\ UserCode
    /\ Patient => Quiet
    /\ retries + Len(ready) < MaxPending
    /\ async_connect
    /\ UNCHANGED <<conn, retries, ready, due, wire>>
    /\ UNCHANGED flagVars
    /\ UNCHANGED writeVars

\* netio::stop: neither the write queue nor a retry timer is touched
StopEffect ==
    /\ m_stop_requested' = TRUE
    /\ DropSession

\* Mutant: stop() also resets the write queue, under a write's feet.
stopResetsWrites ==
    /\ UserCode
    /\ Patient => is_started
    /\ StopEffect
    /\ m_write_in_process' = FALSE
    /\ m_buffers' = <<>>
    /\ UNCHANGED <<ready, due, sends, wire>>

stop ==
    /\ UserCode
    /\ Patient => is_started
    /\ StopEffect
    /\ UNCHANGED <<ready, due, wire>>
    /\ UNCHANGED writeVars

\* netio::send_packet; on a netio that is not started it reports an error
\* and, when the error handler has returned, stops; a packet that cannot be
\* encrypted is reported and dropped.
send_packet ==
    /\ UserCode
    /\ Patient => is_started
    /\ sends < MaxSend
    /\ sends' = sends + 1
    /\ \/ /\ is_started
          /\ StartOrQueue(sends + 1)
          /\ UNCHANGED due
       \/ /\ ~is_started
          /\ due' = <<"error", "stop">> \o due
          /\ UNCHANGED <<ops, m_write_in_process, m_buffers>>
       \/ /\ is_started /\ "pack" \in Faults
          /\ due' = <<"error">> \o due
          /\ UNCHANGED <<ops, m_write_in_process, m_buffers>>
    /\ UNCHANGED <<link, conn, retries, ready, wire>>
    /\ UNCHANGED flagVars

stop_after_error ==
    /\ Settled
    /\ due # <<>> /\ Head(due) = "stop"
    /\ due' = Tail(due)
    /\ StopEffect
    /\ UNCHANGED <<ready, wire>>
    /\ UNCHANGED writeVars

InCallback(cb) == Settled /\ due # <<>> /\ Head(due) = cb

\* The program starts the handshake as soon as it is connected.
async_handshake ==
    /\ InCallback("connected")
    /\ due' = Tail(due)
    /\ Launch("hswrite", 0, 1)
    /\ UNCHANGED <<link, conn, retries, ready, wire>>
    /\ UNCHANGED flagVars
    /\ UNCHANGED writeVars

\* The program starts netio as soon as the handshake has finished.
start ==
    /\ InCallback("handshaked")
    /\ \/ /\ is_started
          /\ due' = Tail(due)
          /\ m_stop_requested' = FALSE
          /\ Launch("header", 0, ReadSize)
       \/ /\ ~is_started
          /\ due' = <<"error">> \o Tail(due)
          /\ UNCHANGED <<ops, m_stop_requested>>
    /\ UNCHANGED <<link, conn, retries, ready, m_handshake_finished, wire>>
    /\ UNCHANGED writeVars

\* The other callbacks return without touching netio.
Return ==
    /\ Settled
    /\ due # <<>> /\ Head(due) \in Callbacks \ {"connected", "handshaked"}
    /\ due' = Tail(due)
    /\ UNCHANGED socketVars
    /\ UNCHANGED <<ready, wire>>
    /\ UNCHANGED flagVars
    /\ UNCHANGED writeVars

-----------------------------------------------------------------------------

Init ==
    /\ link = "closed" /\ conn = 0 /\ ops = {} /\ retries = 0
    /\ ready = <<>> /\ due = <<>>
    /\ m_handshake_finished = FALSE
    /\ m_write_in_process = FALSE
    /\ m_stop_requested = FALSE
    /\ m_buffers = <<>> /\ sends = 0 /\ wire = <<>>

System  == Post \/ ConnectDone \/ Transfer \/ TransferFails \/ TimerFires
Handler == \/ on_connected \/ on_retry
           \/ async_as_client_handshake_writen
           \/ async_as_client_handshake_readed
           \/ header_readed \/ body_readed \/ read_header
           \/ sent \/ stop_after_error
Program == Dial \/ stop \/ send_packet \/ async_handshake \/ start \/ Return

Next == System \/ Handler \/ Program

Spec == Init /\ [][Next]_vars

\* The io_service queues what is decided, the QTimer runs what is queued,
\* and callbacks return.  Nothing is assumed of the network or of the user.
Fairness ==
    /\ WF_vars(Post)
    /\ WF_vars(Handler)
    /\ WF_vars(async_handshake \/ start \/ Return)

FairSpec == Spec /\ Fairness

-----------------------------------------------------------------------------
(* Properties.                                                             *)

PendingOps(kind) == { o \in ops : o.kind = kind }
DoneOps(kind)    == { i \in DOMAIN ready : ready[i].kind = kind }

(* At most one async_write_some of send/sent is outstanding, in the kernel
   or in the io_service, and m_write_in_process says exactly when there is
   one, across stop(), errors and reconnections (the flag is cleared by the
   completion handler alone). *)
OneWriter ==
    /\ m_write_in_process <=> (PendingOps("write") \cup DoneOps("write") # {})
    /\ PendingOps("write") = {} \/ DoneOps("write") = {}
    /\ \A o1, o2 \in PendingOps("write") : o1 = o2
    /\ \A i, j \in DoneOps("write") : i = j

(* A packet waits in m_buffers only behind a write whose completion will
   start it: no packet is stranded in the queue. *)
NothingStranded == m_buffers # <<>> => m_write_in_process

(* A packet that was cut short on a connection is never followed by another
   packet on that same connection: the peer can always frame the stream. *)
TornOnlyAtTheEnd ==
    \A i \in 1 .. Len(wire) - 1 :
        /\ wire[i].n < wire[i].from
        /\ wire[i+1].pkt # wire[i].pkt
        => wire[i+1].conn # wire[i].conn

(* What netio.hpp:191 says of started(): "is the socket open + is the
   handshake finished".  The flag must be about the connection at hand. *)
StartedMeansSecure ==
    is_started => \A o \in ops : o.kind \notin {"connect", "hswrite", "hsread"}

(* A netio that started() reports as started and whose start() was called
   always has a read outstanding or a handler about to start one: a session
   cannot go deaf while it looks alive. *)
NeverDeaf ==
    is_started =>
        \/ \E kind \in {"header", "body"} :
               PendingOps(kind) # {} \/ DoneOps(kind) # {}
        \/ \E i \in DOMAIN due : due[i] \in {"handshaked", "read_header"}

(* When the program dials again only once netio is quiet, a connection
   carries whole packets of its own session only: nothing is written before
   its handshake, and no packet is continued from an earlier connection. *)
SessionsSeparate ==
    \A i \in DOMAIN wire :
        /\ wire[i].secure
        /\ wire[i].from < Size =>
              /\ i > 1
              /\ wire[i-1].pkt = wire[i].pkt
              /\ wire[i-1].conn = wire[i].conn

(* With the same discipline two reads never compete for the bytes of a
   connection (m_header and m_body_buf are shared by all of them). *)
OneReader ==
    /\ Cardinality({ o \in ops : o.kind \in ReadKinds })
         + Cardinality({ i \in DOMAIN ready : ready[i].kind \in ReadKinds }) <= 1
    /\ due # <<>> /\ Head(due) = "read_header" =>
         \A o \in ops : o.kind \notin ReadKinds

(* stop() on a running session is always answered: the stop handler runs, or
   an error that was already under way is reported. *)
StopAnswered ==
    (m_stop_requested /\ \E kind \in {"header", "body"} :
                            PendingOps(kind) \cup DoneOps(kind) # {})
        ~> (due # <<>> /\ Head(due) \in {"stopped", "error"})

\* The write side as an Outbox: the write in process, then m_buffers.
InProcess ==
    { o \in ops : o.kind = "write" }
      \cup { ready[i] : i \in DoneOps("write") }
Queued ==
    LET front == { w \in InProcess : w.left > 0 }
    IN  (IF front = {} THEN <<>>
         ELSE LET w == CHOOSE w \in front : TRUE
              IN  <<[pkt |-> w.pkt, left |-> w.left]>>)
        \o [i \in DOMAIN m_buffers |-> [pkt |-> m_buffers[i], left |-> Size]]
Left == [i \in DOMAIN wire |-> [pkt |-> wire[i].pkt, from |-> wire[i].from,
                                n |-> wire[i].n]]

Box == INSTANCE Outbox WITH queue <- Queued, out <- Left, accepted <- sends

(* netio implements the Outbox: FIFO, no duplicate, no hole, and all or
   nothing after a loss, through partial writes, stop() and reconnection. *)
ImplementsOutbox == Box!BoxSpec
=============================================================================
