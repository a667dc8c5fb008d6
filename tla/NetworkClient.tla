--------------------------- MODULE NetworkClient ---------------------------
(***************************************************************************)
(* The client's session: class NetworkClient of                            *)
(* poker_client/src/rpc/network_client.cpp as the program on top of Netio. *)
(*                                                                         *)
(* It dials at start-up, shakes hands when connected, starts netio when    *)
(* the handshake is done, and on any error shows the modal reconnection    *)
(* dialog (OnError) and dials again.  The callbacks netio owes it are the  *)
(* frames of `due'; its own nested work adds the frames of ClientFrames.   *)
(*                                                                         *)
(* This module does not assume the discipline of Netio's constant Patient: *)
(* it shows how much of it the client really keeps.                        *)
(***************************************************************************)
EXTENDS Netio

CONSTANT ProbeMayFail    \* may the blocking connect of init() fail?

ASSUME ProbeAssumption == ProbeMayFail \in BOOLEAN

VARIABLES m_connected,         \* the session is up, as the program sees it
          m_reconnectDialog,   \* the pointer to the OnError dialog is set
          dialog,              \* the dialog itself; "dismissed" by the user
          crash                \* a dialog that is gone has been used

clientVars == <<m_connected, m_reconnectDialog, dialog, crash>>
allVars    == <<vars, clientVars>>

\* The rest of start() after netio::start, in two parts, and
\* DialogServerNotAvailable, whose exec() keeps the worker from polling.
ClientFrames == {"session_up", "emit_connected", "server_not_available"}
ErrorCalls   == {"error", "connect_failed", "handshake_failed"}

ClientTypeOK ==
    /\ m_connected \in BOOLEAN
    /\ m_reconnectDialog \in BOOLEAN
    /\ dialog \in {"none", "shown", "dismissed"}
    /\ crash \in BOOLEAN
    /\ due \in Seq(Callbacks \cup Continuations \cup ClientFrames)
    /\ m_buffers \in Seq(1 .. MaxSend)
    /\ ops \subseteq Op
    /\ ready \in Seq(Op)

-----------------------------------------------------------------------------

\* Mutant: the old session is not stopped.
initOverSession ==
    \/ /\ link # "connected"
       /\ async_connect
       /\ due' = Tail(due)
       /\ UNCHANGED flagVars
    \/ /\ ProbeMayFail \/ link = "connected"
       /\ link' = IF link = "closed" THEN "open" ELSE link
       /\ due' = <<"server_not_available">> \o Tail(due)
       /\ UNCHANGED ops
       /\ UNCHANGED flagVars

\* init(): a blocking connect as a probe; if the server answers, stop() and
\* async_connect, if not the user is told and nothing is retried.
init ==
    \/ /\ link # "connected"
       /\ m_stop_requested' = TRUE
       /\ m_handshake_finished' = FALSE
       /\ async_connect
       /\ due' = Tail(due)
    \/ /\ ProbeMayFail \/ link = "connected"
       /\ link' = IF link = "closed" THEN "open" ELSE link
       /\ due' = <<"server_not_available">> \o Tail(due)
       /\ UNCHANGED <<ops, m_stop_requested, m_handshake_finished>>

\* Mutant: the dialog is shown, and nobody dials.
onErrorNoDial ==
    /\ \E cb \in ErrorCalls : InCallback(cb)
    /\ m_connected' = FALSE
    /\ m_reconnectDialog' = TRUE
    /\ dialog' = "shown"
    /\ due' = Tail(due)
    /\ UNCHANGED <<link, conn, retries, ops, ready, wire, crash>>
    /\ UNCHANGED flagVars
    /\ UNCHANGED writeVars

\* Mutant: every error dials.
onErrorDialsAlways ==
    /\ \E cb \in ErrorCalls : InCallback(cb)
    /\ m_connected' = FALSE
    /\ m_reconnectDialog' = TRUE
    /\ dialog' = "shown"
    /\ init
    /\ UNCHANGED <<conn, retries, ready, wire, crash>>
    /\ UNCHANGED writeVars

\* Mutant: the dialog is made when the probe has succeeded.
onErrorShowsLate ==
    /\ \E cb \in ErrorCalls : InCallback(cb)
    /\ m_connected' = FALSE
    /\ IF m_reconnectDialog
       THEN /\ due' = Tail(due)
            /\ UNCHANGED <<link, ops, m_reconnectDialog, dialog>>
            /\ UNCHANGED flagVars
       ELSE /\ init
            /\ IF link' = "open" /\ due' = Tail(due)
               THEN m_reconnectDialog' = TRUE /\ dialog' = "shown"
               ELSE UNCHANGED <<m_reconnectDialog, dialog>>
    /\ UNCHANGED <<conn, retries, ready, wire, crash>>
    /\ UNCHANGED writeVars

\* Only the error that opens the dialog dials.
onError ==
    /\ \E cb \in ErrorCalls : InCallback(cb)
    /\ m_connected' = FALSE
    /\ IF m_reconnectDialog
       THEN /\ due' = Tail(due)
            /\ UNCHANGED <<link, ops, m_reconnectDialog, dialog>>
            /\ UNCHANGED flagVars
       ELSE /\ m_reconnectDialog' = TRUE
            /\ dialog' = "shown"
            /\ init
    /\ UNCHANGED <<conn, retries, ready, wire, crash>>
    /\ UNCHANGED writeVars

\* Esc: the dialog deletes itself, and m_reconnectDialog is not told.  (A
\* DialogServerNotAvailable is in front of it while there is one.)
dismiss ==
    /\ Settled
    /\ due # <<>> => Head(due) = "invoke"
    /\ dialog = "shown"
    /\ dialog' = "dismissed"
    /\ UNCHANGED vars
    /\ UNCHANGED <<m_connected, m_reconnectDialog, crash>>

\* start(): netio::start, which may report an error first...
start_netio ==
    /\ InCallback("handshaked")
    /\ \/ /\ is_started
          /\ due' = <<"session_up">> \o Tail(due)
          /\ m_stop_requested' = FALSE
          /\ Launch("header", 0, ReadSize)
       \/ /\ ~is_started
          /\ due' = <<"error", "session_up">> \o Tail(due)
          /\ UNCHANGED <<ops, m_stop_requested>>
    /\ UNCHANGED <<link, conn, retries, ready, m_handshake_finished, wire>>
    /\ UNCHANGED writeVars
    /\ UNCHANGED clientVars

\* A request of the program on the session; `rest' is what it returns to.
Request(rest) ==
    \/ /\ is_started
       /\ sends < MaxSend
       /\ sends' = sends + 1
       /\ StartOrQueue(sends + 1)
       /\ due' = rest
    \/ /\ ~is_started
       /\ due' = <<"error", "stop">> \o rest
       /\ UNCHANGED ops
       /\ UNCHANGED writeVars
    \/ /\ is_started /\ "pack" \in Faults
       /\ due' = <<"error">> \o rest
       /\ UNCHANGED ops
       /\ UNCHANGED writeVars

\* ... and then, whatever it reported, the session counts as connected, the
\* dialog goes and the statistics of the games are asked for.  (At the bound
\* on what is sent a request that a session would take is left out.)
session_up ==
    /\ InCallback("session_up")
    /\ m_connected' = TRUE
    /\ m_reconnectDialog' = FALSE
    /\ dialog' = "none"
    /\ LET rest == <<"emit_connected">> \o Tail(due)
       IN  \/ Request(rest)
           \/ /\ is_started /\ sends = MaxSend
              /\ due' = rest
              /\ UNCHANGED ops
              /\ UNCHANGED writeVars
    /\ UNCHANGED <<link, conn, retries, ready, wire, crash>>
    /\ UNCHANGED flagVars

\* deleteLater() on a dialog that is gone: undefined, session_up if it does
\* no harm at once, or the end.
session_up_crashes ==
    /\ InCallback("session_up")
    /\ m_reconnectDialog /\ dialog # "shown"
    /\ crash' = TRUE
    /\ UNCHANGED vars
    /\ UNCHANGED <<m_connected, m_reconnectDialog, dialog>>

\* Mutant: the dialog does not ask whether there is a session.
emit_connected_unasked ==
    /\ InCallback("emit_connected")
    /\ due' = Tail(due)
    /\ dialog' = "none"
    /\ UNCHANGED <<m_connected, m_reconnectDialog, crash>>
    /\ UNCHANGED socketVars
    /\ UNCHANGED <<ready, wire>>
    /\ UNCHANGED flagVars
    /\ UNCHANGED writeVars

\* OnError::accept: a dialog made while the statistics were asked for closes
\* only if there is a session.
emit_connected ==
    /\ InCallback("emit_connected")
    /\ due' = Tail(due)
    /\ dialog' = IF m_connected THEN "none" ELSE dialog
    /\ UNCHANGED <<m_connected, m_reconnectDialog, crash>>
    /\ UNCHANGED socketVars
    /\ UNCHANGED <<ready, wire>>
    /\ UNCHANGED flagVars
    /\ UNCHANGED writeVars

\* The user, a timer, or the handler of a packet makes a request.
call_server ==
    /\ Settled
    /\ due # <<>> => Head(due) = "invoke"
    /\ m_connected
    /\ Request(due)
    /\ UNCHANGED <<link, conn, retries, ready, wire>>
    /\ UNCHANGED flagVars
    /\ UNCHANGED clientVars

\* The stop handler and the rpc handlers return, the user closes the modal
\* DialogServerNotAvailable.
return ==
    /\ Settled
    /\ due # <<>> /\ Head(due) \in {"invoke", "stopped", "server_not_available"}
    /\ due' = Tail(due)
    /\ UNCHANGED socketVars
    /\ UNCHANGED <<ready, wire>>
    /\ UNCHANGED flagVars
    /\ UNCHANGED writeVars
    /\ UNCHANGED clientVars

-----------------------------------------------------------------------------

\* The state in which PokerApplication::initData leaves the client: init()
\* has probed and dialled.  (If the probe fails the application does not run.)
ClientInit ==
    /\ link = "open" /\ conn = 0 /\ retries = 0
    /\ ops = {[kind |-> "connect", conn |-> 0, pkt |-> 0, left |-> 0, ec |-> "pending"]}
    /\ ready = <<>> /\ due = <<>>
    /\ m_handshake_finished = FALSE
    /\ m_write_in_process = FALSE
    /\ m_stop_requested = TRUE
    /\ m_buffers = <<>> /\ sends = 0 /\ wire = <<>>
    /\ m_connected = FALSE
    /\ m_reconnectDialog = FALSE
    /\ dialog = "none"
    /\ crash = FALSE

NetioStep == (System \/ Handler \/ async_handshake) /\ UNCHANGED clientVars
Callback  == \/ onError \/ start_netio \/ session_up \/ session_up_crashes
             \/ emit_connected \/ return

ClientNext == ~crash /\ (NetioStep \/ Callback \/ call_server \/ dismiss)

ClientSpec == ClientInit /\ [][ClientNext]_allVars

\* Handlers run, callbacks return, and the server is reachable again and
\* again: a connection attempt that is renewed for ever succeeds, a
\* handshake that is under way for long enough gets its bytes.
ClientFairness ==
    /\ WF_allVars(~crash /\ Post /\ UNCHANGED clientVars)
    /\ WF_allVars(~crash /\ (Handler \/ async_handshake) /\ UNCHANGED clientVars)
    /\ WF_allVars(~crash /\ Callback)
    /\ WF_allVars(~crash /\ TimerFires /\ UNCHANGED clientVars)
    /\ SF_allVars(~crash /\ ConnectDone /\ link' = "connected" /\ UNCHANGED clientVars)
    /\ WF_allVars(~crash /\ (Transfer \/ TransferFails) /\ UNCHANGED clientVars)

ClientFairSpec == ClientSpec /\ ClientFairness

-----------------------------------------------------------------------------
(* Properties.                                                             *)

AttemptKinds == {"connect", "hswrite", "hsread"}

\* Something that may still end in a session: an attempt in the kernel or in
\* the io_service, or a retry timer.
Connecting ==
    \/ retries > 0
    \/ \E o \in ops : o.kind \in AttemptKinds
    \/ \E i \in DOMAIN ready : ready[i].kind \in AttemptKinds \cup {"timer"}

\* The event loop of the program runs, or one inside a handler.
EventLoop == due # <<>> => Head(due) \in {"invoke", "server_not_available"}

(* Whenever the user can do something there is a session, or an attempt under
   way, or the dialog, unless the user has dismissed it: no loss goes by in
   silence, the failure of the very first attempt included. *)
LossIsShown ==
    EventLoop => m_connected \/ dialog # "none" \/ Connecting

(* m_reconnectDialog is set while there is a dialog; it points at a dialog
   that is gone only when the user has dismissed it. *)
PointsAtDialog ==
    /\ dialog # "none" => m_reconnectDialog
    /\ m_reconnectDialog => dialog # "none"
    /\ crash => dialog = "dismissed"


(* stop() does not cancel a retry timer, and the timer's handler closes
   whatever socket there is: a retry must never be pending beside another
   attempt or a session it would tear down. *)
RetryNeverKillsSession ==
    (retries > 0 \/ DoneOps("timer") # {}) =>
        /\ ~is_started
        /\ PendingOps("connect") = {}
        /\ retries + Cardinality(DoneOps("timer")) = 1

(* "Netio initialized succsessfully!!" (network_client.cpp:375): what
   m_connected promises to every request of the program.  Whatever became of
   start(), and of what an earlier session left behind, netio is started and
   reads whenever the user, or the handler of a packet, makes a request. *)
ConnectedMeansListening ==
    EventLoop /\ m_connected =>
        /\ is_started
        /\ \/ \E kind \in {"header", "body"} :
                  PendingOps(kind) # {} \/ DoneOps(kind) # {}
           \/ \E i \in DOMAIN due : due[i] = "read_header"

\* The client dials: an error that finds no dialog.
Dials == due # <<>> /\ Head(due) \in ErrorCalls /\ ~m_reconnectDialog

\* No operation of the old session that succeeded is still to be handled when
\* the client dials; those that failed or were cancelled may be.
NothingDoneAtDial == Dials => \A i \in DOMAIN ready : ready[i].ec # "ok"

(* Sessions are kept apart, unless a client dials while a completed read or
   write of the old session waits for its handler: whole packets on the
   connection they were sent on and after its handshake, and one read at a
   time, although the errors of the old session are handled beside the new
   one. *)
FreshSessionsSeparate ==
    []NothingDoneAtDial => [](SessionsSeparate /\ OneReader)

\* Nothing of the old session is outstanding at a dial, every loss is reported
\* once, and the probe succeeds.
CleanLoss ==
    /\ Dials => ops = {} /\ ready = <<>>
    /\ due # <<>> /\ Head(due) \in ErrorCalls => ~m_reconnectDialog
    /\ ~InCallback("server_not_available")

(* After a clean loss the client reconnects by itself, and comes to the end of
   start() but for a dialog that was dismissed. *)
ReconnectsAfterCleanLoss ==
    []CleanLoss =>
        (m_reconnectDialog ~> (m_connected \/ conn = MaxConn
                                 \/ (crash /\ dialog = "dismissed")))
=============================================================================
