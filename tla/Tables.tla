------------------------------- MODULE Tables -------------------------------
(***************************************************************************)
(* The tables the client has open: GameManager's windows and handler       *)
(* groups, the queues of actions that open them (JoinCash, WatchCash,      *)
(* UserJoiningQueue), the replies these wait for and the dialogs they      *)
(* show.  One GUI thread runs all of it; an action is what one event of    *)
(* its loop does (a zero timer, a packet, a click).                        *)
(*                                                                         *)
(* A reply is matched to its request by procedure and table alone          *)
(* (rpcbase_table.cpp): one reply answers every callback that waits for    *)
(* it, and a callback whose request was lost with its connection goes on   *)
(* waiting for somebody else's reply.                                      *)
(*                                                                         *)
(* A dialog is exec()'d inside the event that shows it, so the dialogs     *)
(* form a stack: only the one on top returns.  A dialog shown by a packet  *)
(* (recharge) blocks the timer that polls the network until it returns.    *)
(*                                                                         *)
(* The server and the connection are the environment.  `seat' is what the  *)
(* server knows this session as at each table.  The user is the            *)
(* environment as well, and so is the login: LoginRequired may fail.       *)
(***************************************************************************)
EXTENDS Naturals, Sequences, FiniteSets

CONSTANTS
    Tables,      \* the cash tables
    Kinds,       \* the queues of actions the user may start
    ServerSends, \* the calls the server makes on its own
    Serial,      \* TRUE: the user waits for the last request about a table
    MaxChains,   \* bound: queues of actions started in a behaviour
    MaxEvents,   \* bound: calls made by the server
    MaxDrops,    \* bound: connections lost
    MaxClose     \* bound: callbacks of close_table waiting for one table

\* The actions each queue runs, in order.
Scripts ==
    [JoinCash |-> <<"LoginRequired", "InitTableWindow", "InitPlayerControls",
                    "FetchSitOnTableInfo", "OpenGameTable", "CashBuyIn">>,
     WatchCash |-> <<"AddViewer", "InitTableWindow", "InitViewerControls",
                     "OpenGameTable">>,
     UserJoiningQueue |-> <<"LoginRequired", "AddWaiter", "UpdateWaiters">>]

ServerCalls == {"set_table_state", "close_table", "show_recharge_message"}

ASSUME TablesAssumption ==
    /\ Kinds \subseteq DOMAIN Scripts
    /\ ServerSends \subseteq ServerCalls
    /\ Serial \in BOOLEAN
    /\ {MaxChains, MaxEvents, MaxDrops, MaxClose} \subseteq Nat

VARIABLES
    m_gameTables, \* the tables that have a window
    shown,        \* the windows that open() has shown
    m_handlers,   \* the tables that have a handler group
    updaters,     \* TableDataUpdaters in the group of each table
    chains,       \* the queues of actions, in the order they were started
    closing,      \* callbacks of close_table waiting, for each table
    modals,       \* the stack of exec()'d dialogs, the top first
    connected,    \* the session is up, as the program sees it
    up,           \* requests on their way to the server
    down,         \* replies and calls on their way to the client
    seat,         \* what the server knows this session as
    events,       \* calls made by the server so far
    drops,        \* connections lost so far
    crash         \* what stopped the program: "none" while it runs

windowVars == <<m_gameTables, shown, m_handlers, updaters>>
serverVars == <<seat, events, drops>>
vars == <<windowVars, chains, closing, modals, connected, up, down,
          serverVars, crash>>

Requests == {"sit_on_table", "add_viewer", "add_waiter", "close_table",
             "sit_on_table_canceled", "set_sit_money"}

\* `chain' tells whose request a message is; the program does not send it.
Request == [proc: Requests, table: Tables, chain: 0 .. MaxChains]
Reply   == [proc: Requests, table: Tables, chain: 0 .. MaxChains, ok: BOOLEAN]
Call    == [proc: ServerCalls, table: Tables]

Stages == {"scheduled", "waiting", "lost", "dialog", "done", "failed"}
Ended  == {"done", "failed"}

Chain == [kind: DOMAIN Scripts, table: Tables, pos: 1 .. 6, at: Stages,
          own: BOOLEAN]
Modal == [kind: {"question", "buyin", "recharge"}, table: Tables,
          chain: 0 .. MaxChains, alive: BOOLEAN]

TablesTypeOK ==
    /\ m_gameTables \subseteq Tables
    /\ shown \subseteq m_gameTables
    /\ m_handlers \subseteq Tables
    /\ updaters \in [Tables -> Nat]
    /\ chains \in Seq(Chain)
    /\ \A c \in DOMAIN chains : chains[c].pos <= Len(Scripts[chains[c].kind])
    /\ closing \in [Tables -> 0 .. MaxClose]
    /\ modals \in Seq(Modal)
    /\ connected \in BOOLEAN
    /\ up \in Seq(Request)
    /\ down \in Seq(Reply \cup Call)
    /\ seat \in [Tables -> {"none", "viewer", "reserved", "player"}]
    /\ events \in 0 .. MaxEvents
    /\ drops \in 0 .. MaxDrops
    /\ crash \in {"none", "assert", "null", "freed"}

-----------------------------------------------------------------------------
(* Requests and queues of actions *)

running == crash = "none"

\* call_server: what is requested without a session is not sent.
Sent(queue, proc, t, c) ==
    IF connected
    THEN Append(queue, [proc |-> proc, table |-> t, chain |-> c])
    ELSE queue

request(proc, t, c) == up' = Sent(up, proc, t, c)

\* The current action of queue c, and that its zero timer may fire.
Current(c) == Scripts[chains[c].kind][chains[c].pos]
Due(c, action) == running /\ chains[c].at = "scheduled" /\ Current(c) = action

\* Mutant: the end of the queue is not noticed.
on_action_done_no_end(ch, status) ==
    IF status THEN [ch EXCEPT !.at = "scheduled", !.pos = @ + 1]
              ELSE [ch EXCEPT !.at = "failed"]

\* The queue after its current action has emitted done(status).
on_action_done(ch, status) ==
    CASE ~status -> [ch EXCEPT !.at = "failed"]
      [] status /\ ch.pos < Len(Scripts[ch.kind]) ->
            [ch EXCEPT !.at = "scheduled", !.pos = @ + 1]
      [] OTHER -> [ch EXCEPT !.at = "done"]

done(c, status) == chains' = [chains EXCEPT ![c] = on_action_done(@, status)]

\* The procedures whose replies the actions wait for.
Asks == [FetchSitOnTableInfo |-> "sit_on_table", AddViewer |-> "add_viewer",
         AddWaiter |-> "add_waiter"]

\* The callback of queue c is called by a reply to proc about t.
Waits(c, proc, t) ==
    /\ chains[c].at \in {"waiting", "lost"}
    /\ chains[c].table = t
    /\ Asks[Current(c)] = proc

-----------------------------------------------------------------------------
(* GameManager *)

\* initGame: a window, and a TableDataUpdater pushed to the group's handlers.
initGame(t) ==
    /\ m_gameTables' = m_gameTables \cup {t}
    /\ m_handlers' = m_handlers \cup {t}
    /\ updaters' = [updaters EXCEPT ![t] = @ + 1]

\* What deleting a window does to the dialogs that are its children.
Orphaned(T) ==
    [i \in DOMAIN modals |->
        [modals[i] EXCEPT !.alive = @ /\ modals[i].table \notin T]]

\* Mutant: the handler group outlives its window.
removeGameKeepsGroup(T) ==
    /\ m_gameTables' = m_gameTables \ T
    /\ shown' = shown \ T
    /\ modals' = Orphaned(T)
    /\ crash' = IF T \subseteq m_gameTables THEN crash ELSE "null"
    /\ UNCHANGED <<m_handlers, updaters>>

\* removeGame for each table of T: a missing window is dereferenced, and the
\* question dialog, which lives on the stack, is deleted with its parent.
removeGame(T) ==
    /\ m_gameTables' = m_gameTables \ T
    /\ shown' = shown \ T
    /\ m_handlers' = m_handlers \ T
    /\ updaters' = [t \in Tables |-> IF t \in T THEN 0 ELSE updaters[t]]
    /\ modals' = Orphaned(T)
    /\ crash' = CASE ~(T \subseteq m_gameTables) -> "null"
                  [] \E i \in DOMAIN modals :
                        modals[i].kind = "question" /\ modals[i].table \in T
                     -> "freed"
                  [] OTHER -> crash

\* getGameTable(t): asserts that there is a window.
getGameTable(t) == crash' = IF t \in m_gameTables THEN crash ELSE "assert"

-----------------------------------------------------------------------------
(* The actions of a queue *)

\* LoginRequired: the user is logged in, or the login is refused.
LoginRequired(c) ==
    /\ Due(c, "LoginRequired")
    /\ \E status \in BOOLEAN : done(c, status)
    /\ UNCHANGED <<windowVars, closing, modals, connected, up, down,
                   serverVars, crash>>

\* InitTableWindow: the window is initialised by the time initGame returns.
InitTableWindow(c) ==
    /\ Due(c, "InitTableWindow")
    /\ IF chains[c].table \in m_gameTables
       THEN UNCHANGED windowVars
       ELSE initGame(chains[c].table) /\ UNCHANGED shown
    /\ done(c, TRUE)
    /\ UNCHANGED <<closing, modals, connected, up, down, serverVars, crash>>

\* InitPlayerControls and InitViewerControls do nothing yet.
InitControls(c) ==
    /\ Due(c, "InitPlayerControls") \/ Due(c, "InitViewerControls")
    /\ done(c, TRUE)
    /\ UNCHANGED <<windowVars, closing, modals, connected, up, down,
                   serverVars, crash>>

\* UpdateWaiters writes to the models and fails when they have no such row.
UpdateWaiters(c) ==
    /\ Due(c, "UpdateWaiters")
    /\ \E status \in BOOLEAN : done(c, status)
    /\ UNCHANGED <<windowVars, closing, modals, connected, up, down,
                   serverVars, crash>>

\* FetchSitOnTableInfo, AddViewer and AddWaiter: the callback waits whether
\* or not the request could be sent.
Ask(c) ==
    /\ \E action \in DOMAIN Asks :
          Due(c, action) /\ request(Asks[action], chains[c].table, c)
    /\ chains' = [chains EXCEPT ![c].at = IF connected THEN "waiting"
                                                       ELSE "lost"]
    /\ UNCHANGED <<windowVars, closing, modals, connected, down, serverVars,
                   crash>>

\* AddWaiter where a seat is free: nothing is asked.
AddWaiterRefused(c) ==
    /\ Due(c, "AddWaiter")
    /\ done(c, FALSE)
    /\ UNCHANGED <<windowVars, closing, modals, connected, up, down,
                   serverVars, crash>>

\* OpenGameTable: open() shows the window.
OpenGameTable(c) ==
    /\ Due(c, "OpenGameTable")
    /\ getGameTable(chains[c].table)
    /\ IF crash' = "none"
       THEN /\ shown' = shown \cup {chains[c].table}
            /\ done(c, TRUE)
       ELSE UNCHANGED <<shown, chains>>
    /\ UNCHANGED <<m_gameTables, m_handlers, updaters, closing, modals,
                   connected, up, down, serverVars>>

\* The exec() of a buy-in dialog, a child of the table's window.
exec(kind, t, c) ==
    /\ getGameTable(t)
    /\ modals' = IF crash' = "none"
                 THEN <<[kind |-> kind, table |-> t, chain |-> c,
                         alive |-> TRUE]>> \o modals
                 ELSE modals

\* CashBuyIn: the queue waits for its dialog.
CashBuyIn(c) ==
    /\ Due(c, "CashBuyIn")
    /\ exec("buyin", chains[c].table, c)
    /\ chains' = IF crash' = "none" THEN [chains EXCEPT ![c].at = "dialog"]
                                    ELSE chains
    /\ UNCHANGED <<windowVars, closing, connected, up, down, serverVars>>

-----------------------------------------------------------------------------
(* Dialogs return.  Only the one on top can, and the user reaches it only  *)
(* with a session: without one the reconnection dialog is in front.        *)

Asked(kind) ==
    /\ running
    /\ modals # <<>>
    /\ Head(modals).kind = kind
    /\ Head(modals).alive
    /\ connected

\* Mutant: the dialog is accepted and the server is not told.
AcceptBuyInUntold ==
    /\ Asked("buyin")
    /\ done(Head(modals).chain, TRUE)
    /\ modals' = Tail(modals)
    /\ UNCHANGED <<windowVars, closing, connected, up, down, serverVars, crash>>

\* accept(): the player's stack goes to the server.
AcceptBuyIn ==
    LET top == Head(modals)
    IN  /\ Asked("buyin")
        /\ request("set_sit_money", top.table, top.chain)
        /\ done(top.chain, TRUE)
        /\ modals' = Tail(modals)
        /\ UNCHANGED <<windowVars, closing, connected, down, serverVars,
                       crash>>

\* Mutant: a rejected buy-in is not told to the server.
CancelledUntold(top) == up

\* The dialog cancels in reject(), the action after exec().
Cancelled(top) ==
    Sent(Sent(up, "sit_on_table_canceled", top.table, top.chain),
         "sit_on_table_canceled", top.table, top.chain)

RejectBuyIn ==
    /\ Asked("buyin")
    /\ up' = Cancelled(Head(modals))
    /\ done(Head(modals).chain, FALSE)
    /\ modals' = Tail(modals)
    /\ UNCHANGED <<windowVars, closing, connected, down, serverVars, crash>>

\* Mutant: the action forgets done(false).
BuyInGoneSilently ==
    /\ running
    /\ modals # <<>>
    /\ Head(modals).kind = "buyin" /\ ~Head(modals).alive
    /\ request("sit_on_table_canceled", Head(modals).table, 0)
    /\ modals' = Tail(modals)
    /\ UNCHANGED <<windowVars, chains, closing, connected, down, serverVars,
                   crash>>

\* The dialog was deleted with its window: exec() returns without reject().
BuyInGone ==
    LET top == Head(modals)
    IN  /\ running
        /\ modals # <<>>
        /\ top.kind = "buyin" /\ ~top.alive
        /\ request("sit_on_table_canceled", top.table, top.chain)
        /\ done(top.chain, FALSE)
        /\ modals' = Tail(modals)
        /\ UNCHANGED <<windowVars, closing, connected, down, serverVars,
                       crash>>

\* The buy-in dialog of a seated player: accept() adds money to the stack,
\* which changes nothing here; reject() cancels a seat all the same.
AnswerRecharge ==
    /\ Asked("recharge")
    /\ \/ up' = up
       \/ up' = Cancelled(Head(modals))
    /\ modals' = Tail(modals)
    /\ UNCHANGED <<windowVars, chains, closing, connected, down, serverVars,
                   crash>>

\* UserClosingTable: Close asks the server, Ignore and Cancel keep the table.
AnswerQuestion ==
    LET t == Head(modals).table
    IN  /\ Asked("question")
        /\ \/ /\ request("close_table", t, 0)
              /\ closing' = [closing EXCEPT ![t] = @ + 1]
           \/ UNCHANGED <<up, closing>>
        /\ modals' = Tail(modals)
        /\ UNCHANGED <<windowVars, chains, connected, down, serverVars, crash>>

-----------------------------------------------------------------------------
(* The user *)

IsReply(msg) == "ok" \in DOMAIN msg

InFlight(t, proc) ==
    \/ \E i \in DOMAIN up : up[i].table = t /\ up[i].proc = proc
    \/ \E i \in DOMAIN down :
          IsReply(down[i]) /\ down[i].table = t /\ down[i].proc = proc

InProgress(t) ==
    \E c \in DOMAIN chains :
        chains[c].table = t /\ chains[c].at \notin Ended \cup {"lost"}

MayClick(t) ==
    /\ running /\ connected
    /\ modals = <<>>
    /\ Serial => ~InProgress(t) /\ ~InFlight(t, "close_table")

\* A button of the lobby: every click starts a queue of its own.
Click(kind, t) ==
    /\ MayClick(t)
    /\ Len(chains) < MaxChains
    /\ chains' = Append(chains, [kind |-> kind, table |-> t, pos |-> 1,
                                 at |-> "scheduled", own |-> TRUE])
    /\ UNCHANGED <<windowVars, closing, modals, connected, up, down,
                   serverVars, crash>>

\* The window's close button: the window stays while the user is asked.
closeEvent(t) ==
    /\ MayClick(t)
    /\ t \in shown
    /\ closing[t] < MaxClose
    /\ modals' = <<[kind |-> "question", table |-> t, chain |-> 0,
                    alive |-> TRUE]>>
    /\ UNCHANGED <<windowVars, chains, closing, connected, up, down,
                   serverVars, crash>>
-----------------------------------------------------------------------------
(* The server *)

\* The seat after a request is served, and whether it is granted.  What the
\* server refuses is left open; a seat taken by this session is not given
\* to it again.
Verdicts(proc, old) ==
    CASE proc = "sit_on_table" ->
            {<<old, FALSE>>} \cup
            IF old \in {"none", "viewer"} THEN {<<"reserved", TRUE>>} ELSE {}
      [] proc = "add_viewer" ->
            {<<old, FALSE>>, <<IF old = "none" THEN "viewer" ELSE old, TRUE>>}
      [] proc = "add_waiter" -> {<<old, FALSE>>, <<old, TRUE>>}
      [] proc = "close_table" -> {<<old, FALSE>>, <<"none", TRUE>>}
      [] proc = "sit_on_table_canceled" ->
            {<<IF old = "reserved" THEN "none" ELSE old, TRUE>>}
      [] proc = "set_sit_money" ->
            {<<IF old = "reserved" THEN "player" ELSE old, TRUE>>}

\* The reply to set_sit_money only moves money between models; there is no
\* callback for sit_on_table_canceled.
Answered == {"sit_on_table", "add_viewer", "add_waiter", "close_table"}

Serve ==
    LET msg == Head(up)
    IN  /\ running /\ up # <<>>
        /\ \E v \in Verdicts(msg.proc, seat[msg.table]) :
              /\ seat' = [seat EXCEPT ![msg.table] = v[1]]
              /\ down' = IF msg.proc \in Answered
                         THEN Append(down, [proc |-> msg.proc,
                                            table |-> msg.table,
                                            chain |-> msg.chain,
                                            ok |-> v[2]])
                         ELSE down
        /\ up' = Tail(up)
        /\ UNCHANGED <<windowVars, chains, closing, modals, connected, events,
                       drops, crash>>

\* The server calls a session it knows at the table.
ServerCall(proc, t) ==
    /\ running /\ connected
    /\ events < MaxEvents
    /\ seat[t] # "none"
    /\ proc = "show_recharge_message" => seat[t] = "player"
    /\ seat' = IF proc = "close_table" THEN [seat EXCEPT ![t] = "none"]
                                       ELSE seat
    /\ down' = Append(down, [proc |-> proc, table |-> t])
    /\ events' = events + 1
    /\ UNCHANGED <<windowVars, chains, closing, modals, connected, up, drops,
                   crash>>

-----------------------------------------------------------------------------
(* What arrives.  Nothing does while a dialog holds the poll timer. *)

Polling == running /\ \A i \in DOMAIN modals : modals[i].kind # "recharge"

Arrives(proc) ==
    /\ Polling
    /\ down # <<>>
    /\ Head(down).proc = proc
    /\ down' = Tail(down)

\* Mutant: a refusal is not reported to the queue.
DeliverReplyGrantsOnly(proc) ==
    LET msg == Head(down)
    IN  /\ Arrives(proc)
        /\ IsReply(msg)
        /\ chains' = [c \in DOMAIN chains |->
                        IF Waits(c, proc, msg.table) /\ msg.ok
                        THEN on_action_done(chains[c], TRUE)
                        ELSE chains[c]]
        /\ UNCHANGED <<windowVars, closing, modals, connected, up, serverVars,
                       crash>>

\* Every callback that waits for this procedure and table is called.
DeliverReply(proc) ==
    LET msg == Head(down)
    IN  /\ Arrives(proc)
        /\ IsReply(msg)
        /\ chains' = [c \in DOMAIN chains |->
                        IF Waits(c, proc, msg.table)
                        THEN [on_action_done(chains[c], msg.ok)
                                EXCEPT !.own = msg.chain = c \/ chains[c].at = "lost"]
                        ELSE chains[c]]
        /\ UNCHANGED <<windowVars, closing, modals, connected, up, serverVars,
                       crash>>

\* The callbacks of UserClosingTable: each removes the table when granted.
DeliverCloseReply ==
    LET msg == Head(down)
    IN  /\ Arrives("close_table")
        /\ IsReply(msg)
        /\ closing' = [closing EXCEPT ![msg.table] = 0]
        /\ \/ /\ msg.ok /\ closing[msg.table] = 1
              /\ removeGame({msg.table})
           \/ /\ msg.ok /\ closing[msg.table] > 1
              /\ crash' = "null"
              /\ UNCHANGED <<windowVars, modals>>
           \/ /\ ~msg.ok \/ closing[msg.table] = 0
              /\ UNCHANGED <<windowVars, modals, crash>>
        /\ UNCHANGED <<chains, connected, up, serverVars>>

\* set_table_state: handlers() makes the group when there is none.
set_table_state ==
    /\ Arrives("set_table_state")
    /\ m_handlers' = m_handlers \cup {Head(down).table}
    /\ UNCHANGED <<m_gameTables, shown, updaters, chains, closing, modals,
                   connected, up, serverVars, crash>>

close_table ==
    /\ Arrives("close_table")
    /\ ~IsReply(Head(down))
    /\ removeGame({Head(down).table})
    /\ UNCHANGED <<chains, closing, connected, up, serverVars>>

show_recharge_message ==
    /\ Arrives("show_recharge_message")
    /\ exec("recharge", Head(down).table, 0)
    /\ UNCHANGED <<windowVars, chains, closing, connected, up, serverVars>>

-----------------------------------------------------------------------------
(* The connection *)

\* Mutant: what was received of the old session is still delivered.
onDisconnectedLate ==
    /\ connected /\ Polling
    /\ drops < MaxDrops
    /\ drops' = drops + 1
    /\ connected' = FALSE
    /\ up' = <<>>
    /\ down' = SelectSeq(down, IsReply)
    /\ seat' = [t \in Tables |-> "none"]
    /\ chains' = [c \in DOMAIN chains |->
                    IF chains[c].at = "waiting"
                    THEN [chains[c] EXCEPT !.at = "lost"]
                    ELSE chains[c]]
    /\ removeGame(m_handlers)
    /\ UNCHANGED <<closing, events>>

\* What was under way is lost, with the seats; the waiting callbacks stay.
onDisconnected ==
    /\ connected /\ Polling
    /\ drops < MaxDrops
    /\ drops' = drops + 1
    /\ connected' = FALSE
    /\ up' = <<>>
    /\ down' = <<>>
    /\ seat' = [t \in Tables |-> "none"]
    /\ chains' = [c \in DOMAIN chains |->
                    IF chains[c].at = "waiting"
                    THEN [chains[c] EXCEPT !.at = "lost"]
                    ELSE chains[c]]
    /\ removeGame(m_handlers)
    /\ UNCHANGED <<closing, events>>

Reconnect ==
    /\ ~connected /\ Polling
    /\ connected' = TRUE
    /\ UNCHANGED <<windowVars, chains, closing, modals, up, down, serverVars,
                   crash>>

-----------------------------------------------------------------------------

Init ==
    /\ m_gameTables = {} /\ shown = {} /\ m_handlers = {}
    /\ updaters = [t \in Tables |-> 0]
    /\ chains = <<>>
    /\ closing = [t \in Tables |-> 0]
    /\ modals = <<>>
    /\ connected = TRUE
    /\ up = <<>> /\ down = <<>>
    /\ seat = [t \in Tables |-> "none"]
    /\ events = 0 /\ drops = 0
    /\ crash = "none"

Step(c) ==
    \/ LoginRequired(c) \/ InitTableWindow(c) \/ InitControls(c)
    \/ UpdateWaiters(c) \/ Ask(c) \/ AddWaiterRefused(c)
    \/ OpenGameTable(c) \/ CashBuyIn(c)

Answer == AcceptBuyIn \/ RejectBuyIn \/ AnswerRecharge \/ AnswerQuestion

Deliver ==
    \/ \E proc \in {"sit_on_table", "add_viewer", "add_waiter"} :
          DeliverReply(proc)
    \/ DeliverCloseReply \/ set_table_state \/ close_table
    \/ show_recharge_message

Next ==
    \/ \E c \in DOMAIN chains : Step(c)
    \/ Answer
    \/ BuyInGone
    \/ \E kind \in Kinds, t \in Tables : Click(kind, t)
    \/ \E t \in Tables : closeEvent(t)
    \/ Serve
    \/ \E proc \in ServerSends, t \in Tables : ServerCall(proc, t)
    \/ Deliver
    \/ onDisconnected
    \/ Reconnect

Spec == Init /\ [][Next]_vars

\* The event loop runs its timers and polls; the server serves; the user
\* answers the dialogs in front; a lost connection comes back.
FairSpec ==
    /\ Spec
    /\ \A c \in 1 .. MaxChains :
          WF_vars(c \in DOMAIN chains /\ Step(c))
    /\ WF_vars(Answer) /\ WF_vars(BuyInGone)
    /\ WF_vars(Serve) /\ WF_vars(Deliver) /\ WF_vars(Reconnect)

-----------------------------------------------------------------------------
(* Properties *)

\* A window has a handler group with exactly one TableDataUpdater, and a group
\* without a window, made by a call of the server for a table that is not
\* open, has none: initGame never meets the remains of an earlier game.
OneUpdater ==
    \A t \in Tables :
        /\ t \in m_gameTables => t \in m_handlers
        /\ updaters[t] = IF t \in m_gameTables THEN 1 ELSE 0

\* Nothing is under way about the table.
Quiet(t) ==
    /\ ~InProgress(t)
    /\ \A i \in DOMAIN up : up[i].table # t
    /\ \A i \in DOMAIN down : down[i].table # t

\* When all is said about a table, what the server knows the session as is
\* what the user sees: a viewer or a player has the table on the screen, and
\* no seat stays reserved for a buy-in nobody will make.
SeatHasWindow ==
    \A t \in Tables :
        running /\ Quiet(t) /\ seat[t] # "none"
            => t \in shown /\ seat[t] # "reserved"

\* A buy-in dialog stands for one queue that waits in it, and every queue in
\* a dialog has one: none is answered twice and none is forgotten.
DialogsMatchQueues ==
    running =>
        \A c \in DOMAIN chains :
            Cardinality({i \in DOMAIN modals :
                            modals[i].kind = "buyin" /\ modals[i].chain = c})
                = IF chains[c].at = "dialog" THEN 1 ELSE 0

\* With a serial user, a server that closes no table and a connection that
\* holds, a queue of actions that is started ends, with done(true) or
\* done(false), and nothing it asks a window of stops the program before.
ChainsEnd ==
    \A c \in 1 .. MaxChains :
        (c \in DOMAIN chains)
            ~> (c \in DOMAIN chains /\ chains[c].at \in Ended)

\* With a serial user a queue goes on or ends by the reply to its own request,
\* although replies carry nothing but procedure and table and the callbacks of
\* lost requests stay: what a queue whose request was lost takes is another's
\* reply, but it takes none from the queue that asked.
OwnReply == \A c \in DOMAIN chains : chains[c].own

\* Under the same conditions a reserved seat is taken, given up or closed.
SeatResolved ==
    \A t \in Tables :
        (seat[t] = "reserved") ~> (seat[t] # "reserved")

-----------------------------------------------------------------------------
(* What the code and its comments say, and the runs refute *)

\* getGameTable asserts that there is a window, removeGame takes it for
\* granted: whoever opens or closes a table finds one.
WindowFound == crash \notin {"assert", "null"}
=============================================================================
