# Verification of the Ultima Poker client

This directory holds TLA+ models of the poker client (`poker_client/`) and of
the network library it is built on (`common/netio/`), the TLC configurations
that check them on small instances, and proofs for every value of the
constants, checked by TLAPS. The reference is the C++ source; every definition
that stands for code is listed in `PROJECT.json` under `map` with its lines.

## The system

A Qt desktop client of an online poker room. One GUI thread runs everything
but the jobs that ask for statistics: concurrency is mostly what happens
between two turns of the event loop, and two threads inside netio's `send`.
Messages to and from the server are named calls (`object.function(args)`) in
encrypted, length-prefixed packets over one TCP connection.

| part | state it keeps | operations | talks to |
|---|---|---|---|
| `netio` (`netio.cpp`) | socket, handshake/write/stop flags, queue of packets | async_connect (with retry), async_handshake, start, stop, send_packet, the completion handlers | the socket below, the program's callbacks above |
| Qt transport (`qt_netio.cpp`) | asio socket, one-shot timers, io_service | one completion handler per 5 ms tick of a QTimer | netio |
| `NetworkClient` (`rpc/network_client.cpp`) | `m_connected`, the OnError dialog | init (probe and dial), onConnected, start, onError, call_server | netio; emits connected/disconnected |
| distributor, object registry | name -> handler | create_registry, invoke | filled at start-up, invoked by netio's read loop |
| rpc layer (`rpc/*`, `common/rpcbase`) | emitters, callbacks waiting for a reply | request, reply, server request | call_server below, actions and GameManager above |
| `GameManager` (`game/GameManager.cpp`) | handler groups and table windows per game id | initGame, removeGame, createGameTable, server events, onDisconnected | rpc events, actions, dialogs |
| actions (`game/actions/*`, `tools/sequentalactionqueue`) | a queue of actions, the current one | append, execute, on_action_done | rpc requests, dialogs, GameManager |
| login (`dialog_authorization.cpp`, `modeldatabase.cpp`, `MainWindow.cpp`, `rpcbase_lobby.cpp`) | `user_info_t`, pages and callbacks of the dialog, pop-ups | login, logout, three steps of password recovery, LoginRequired | rpc requests, models, main window |
| lists of the lobby (`model_apibase.hpp`, `model_cash_stat_t.cpp`) | rows of a list | updateItems, updateRowData, setData | statistics replies above, views below |
| statistics jobs (`network_client.cpp`) | naps, `m_statRequestJob` | one job per session, `~NetworkClient` | netio, from a thread of their own |
| game handlers (`game/*handler*`, `tabledataupdater`) | cards, pots, players, timers of a table | one slot per server event | GameManager's groups |
| settings and picture database, pages, widgets, rendering | settings, pictures | display | rpc replies |

What is hard in it:

* a completed operation waits in the io_service until its turn: its handler
  runs after whatever the program did meanwhile (stop, a new connection);
* callbacks are called from inside the handlers and call back into netio;
* netio reuses one socket object and one set of flags for every connection;
* the reconnection depends on which error arrived first and how many follow,
  and the user may dismiss the dialog that stands for it;
* a chain of actions waits for replies that a disconnection loses, while the
  server and the user close the table it is about;
* a reply names no request: it runs every callback waiting for its procedure,
  also those of a dialog that is gone or of a session that was lost;
* what the client knows of its user outlives the connection, the server's
  session does not;
* a list is changed in place, step by step, under the eyes of its views, by a
  loop that may read past its end;
* each session starts a job in a pool of threads that sends on, and stops, the
  same netio without a lock, and the destructor waits for one of them.

`PROJECT.json` lists these under `hazards`, each at its line.

## Modules

| module | stands for | state |
|---|---|---|
| `Netio` | `struct netio::impl` and `qt_netio.cpp`, encrypted client | socket, operations, completions, flags, write queue |
| `Outbox` | what the write side of netio promises | queue, chunks that left, count accepted |
| `Netio_proofs` | theorems about `Netio`: types and the write queue | |
| `Netio_stream_proofs` | theorems about what `Netio` puts on the wire, and that it implements `Outbox` | |
| `NetworkClient` | `NetworkClient` as the program on top of `Netio` (EXTENDS it) | `m_connected`, `m_reconnectDialog` and the dialog it points at |
| `NetworkClient_proofs` | theorems about `NetworkClient` | |
| `Tables` | `GameManager`'s windows and groups, the queues of actions, reply correlation, the dialogs | windows, groups, queues, dialogs, messages, seats |
| `Tables_proofs` | theorems about `Tables` | |
| `Session` | who is logged in, the login dialog, its calls and callbacks | user, pop-up, dialogs, pages, callbacks, messages, the server's user |
| `Session_proofs` | theorems about `Session` | |
| `UpdateItems` | `ApiBase::updateItems`, step by step | rows, what lies past them, what a view shows |
| `UpdateItems_proofs` | theorems about `UpdateItems` | |
| `StatJobs` | the statistics jobs beside the GUI thread | where each thread is, netio's flags and queue |
| `StatJobs_proofs` | theorems about `StatJobs` | |
| `MCNetio`, `MCNetworkClient`, `MCTables`, `MCSession`, `MCUpdateItems`, `MCStatJobs` | instances for TLC | |

### Netio

`link` is the socket (`closed`, `open`: not connected, `connected`), `conn`
numbers the TCP connections. An asynchronous operation is a record in `ops`
(kind, connection, packet, bytes left, error code). It completes in the
operating system (`ConnectDone`, `Transfer`, `TransferFails`) or is cancelled
by a close; its completion is queued in `ready`, and `Poll` takes the oldest
one, as the QTimer's `poll_one` does, to run its handler (`on_connected`,
`header_readed`, `body_readed`, `sent`, ...). A handler that calls the program
leaves the calls in `due`: the program's own calls (`Dial`, `stop`,
`send_packet`) are interleaved with them, so re-entrancy is covered. What
follows a callback in the same handler (`read_header` at the end of
`body_readed`, `stop` at the end of `send_packet`) is a continuation in `due`.

Packets and headers are abstracted to their number and the bytes left, so that
a read or a write may be partial. `Faults` says what the environment may do
(refuse a connection, fail a read or write, send a bad packet, send a bad
key) and whether a packet may fail to be packed, which is reported like an
error of the connection and leaves the session as it is. `Patient` restricts
the *program* to the discipline in which netio works as documented: it sends
to and stops only a started session and dials only when nothing is
outstanding. Both values are checked: with `FALSE` for the properties that
hold of any program, with `TRUE` for what netio promises to a program that
keeps to it. The client of this repository does not; what then is left of
these promises is a matter of `NetworkClient`.

### NetworkClient

The program of this repository. It reuses the socket, handler and write-queue
actions of `Netio` and replaces the abstract program by `init`, `onError`,
`start_netio`, `session_up`, `call_server` and `return`; its initial state is
the one `PokerApplication::initData` leaves (probe done, dialling). It does
not assume `Patient`: it dials from the error handler, with operations of the
old connection outstanding.

`dialog` is the reconnection dialog itself, beside the pointer to it. Esc
dismisses it (`dismiss`): the dialog deletes itself and `m_reconnectDialog` is
not told. What `session_up` then does through the pointer is undefined; the
model has both outcomes, that nothing happens and that the program ends
(`session_up_crashes`). `NothingDoneAtDial` and `CleanLoss` are conditions on a
whole behaviour under which two of the properties are stated.

### Tables

The program above the session: what a click in the lobby sets going. A queue
of actions (`chains`) runs one action per zero timer (`Due`); an action does
its work and emits done, which `on_action_done` turns into the next action,
done(true) or done(false). `FetchSitOnTableInfo`, `AddViewer` and `AddWaiter`
(`Ask`) wait for a reply; `DeliverReply` calls **every** callback waiting for
that procedure and table, as the lambdas of `rpcbase_table.cpp` do. A queue
whose request was lost is `lost`, not ended: its callback stays connected.

`m_gameTables`, `m_handlers` and `updaters` are GameManager's two maps and the
TableDataUpdaters in each group. Dialogs are exec()'d, so they form the stack
`modals`: only the top one returns, one that was deleted with its window
(`alive` is false) returns by itself. A dialog exec()'d by a packet (recharge)
stops the polling of the network (`Polling`). `crash` names what ended the
program: the assertion in `getGameTable`, the null window in `removeGame`, the
question box deleted while it is on the stack.

The environment is external: the server serves requests in order, may refuse
any (`Verdicts`) and may call the client at any table it knows the session at
(`ServerSends`). `seat` is what it knows *this session* as; a lost connection
forgets it. A message under way is matched by `chain`, which the program does
not send: it only serves `OwnReply`, which asks of a reply that ends a queue
whether it was that queue's. (A queue whose request was lost has no reply of
its own any more, and is ended by the next one about its table.) The login and the number of free
seats are nondeterministic, money and the replies to `set_sit_money` and
`add_game_money` (which only move it between models) are left out. `Serial` is
the discipline of a *user*: nothing is clicked at a table while the last
request about it is under way.

### Session

`stack` holds the login dialogs in the order they were opened: each lives on
the stack of the function that exec()s it, so `Return` takes the last one, and
only when it is `closed`. `page` is its `stackOfContent`, `controls` its
`stackOfControls`: on a page that a callback has turned to, the back button
goes by the latter. `waiting[p][d]` says how many callbacks of dialog `d` are
connected to the reply of procedure `p`. `Answer` runs them all, as the
lambdas of `rpcbase_lobby.cpp` do: one page on for each, and a crash when the
dialog of one is gone. `user` stands for `user_info_t`, `vip_system_info`, the
page of the main screen and the four pop-ups, which the slots of one signal
change together; `popup` is `m_currentPopUp`, which a logout leaves pointing
at a deleted pop-up, and `canceled` is `m_authorize_canceled`, which keeps the
other buttons of the bar from doing anything. A queue of actions that wants a
user is counted in `asked`: `LoginRequired` runs from a timer, whatever is on
the screen, and opens a second dialog above the first.

The server is external: one session has one user, a lost connection
(`onError`) takes the session and all messages; a request without a connection
is not sent, and its callback waits all the same. The user may click again,
dismiss a dialog and log out at any moment. Three variables are written for
the properties and read by no action: `outlived` (a connection was lost with a
user logged in), `left` (something was closed with a callback or a pointer
left behind that refers to it) and `repeated` (the dialogs a call of whose met
another unanswered one of its procedure).

### UpdateItems

One turn of a loop is one step: a begin signal, the change and the end signal,
with the view's answer to it. `view` follows the signals alone (it inserts,
moves, removes and reads the rows it is told to). `past` holds the ids that
are known to lie behind the last row, left there by the rows removed; a read
further on may return any of `Memory`. What shows of a table beside its id is
one of `Versions`. `thrown` is the exception of `target.at(row)`, which ends
in netio and costs the session; `undefined` is an insertion behind the end,
where the modelling stops.

The same function keeps other lists in step with a reply, which the model covers
as they are lists too, each taken alone: the players of a table
(`helper_get_set_data.cpp:762`) and the users of a tournament
(`model_tournament_stat_t.cpp:668`).

### StatJobs

A step is what a thread does between two looks at what the other may change:
`finish`, `test`, `rest`, `call` of the job's loop, `pack`, `flag`, and `set`
or `push` of a request, `next` of a completed write. A request that finds
netio not started ends in `error` and `stop`, in the thread that made it: the
error handler, then netio::stop(), which asks for a stop, closes the socket
and leaves an aborted read to be handled. `Flag` counts in `races` how often a
thread finds the write flag clear while another has found it clear and not set
it yet, `Start` notes in `quick` that a session came up while a job of an
earlier one was still there. The connection is abstracted to `started`, which
a failing read or write clears; Netio and NetworkClient say what it goes
through. `~NetworkClient` is `Quit` and `Join`; a job that makes a step after
it meets freed memory (`Dangles`). The accesses of the threads are taken to
happen in the order of the steps: a compiler or processor that reorders them
is not modelled.

## Runs

| run | question | result |
|---|---|---|
| `Netio_any` | write queue under any program, 2 connections, 2 packets of 2 bytes, I/O and packing errors | passes |
| `Netio_patient` | sessions under a disciplined program, 3 packets, all faults, fairness | passes |
| `NetworkClient_any` | the client under all faults, 3 connections, 2 packets, fairness, a user who may dismiss the dialog: are losses shown, is netio there for every request, are lost sessions replaced? | passes |
| `NetworkClient_dialog` | is something connecting while the dialog says so? | violated: the late error of a second operation closes the socket of the new attempt, and nobody dials again |
| `Tables_serial` | do the server's seats and the user's windows agree, does a queue take a reply that was not for it, is a dialog or a group left over? any server, one lost connection, 3 queues | passes for a serial user |
| `Tables_live` | do queues end, are reservations resolved, does nothing stop the program? 2 tables | passes for a serial user, no table closed by the server, no connection lost |
| `Tables_window` | is the window there that `getGameTable` asserts and `removeGame` dereferences? | violated: the table closes before `OpenGameTable`, or before it has a window |
| `Session_any` | do client and server agree on the user? what does it take for a callback or a button to use something that is gone, or to announce a change of password that was not made? 2 dialogs, any loss | passes, each until what it names has happened |
| `Session_nobody` | is nobody logged in for the client when nobody is for the server? | violated: the user survives a lost connection |
| `UpdateItems_any` | lists of up to 4 of 4 tables, one after another, any memory | passes |
| `UpdateItems_sizes` | have the two lists one size when their rows are compared? lists of up to 3 | violated: a table that comes back at the end of the list |
| `StatJobs_any` | 2 jobs, 1 nap, 2 packets, 2 races, the end of the program at any moment: how much do the threads hurt each other, and does the end come? | passes |

`SeatHasWindow` needs the serial user: with two queues for one table the reply
that refuses the first also ends the second, whose seat the server then
reserves with no dialog to give it up.

The findings in words:

* Two operations of a session fail, as a read and a write do. The first error
  opens the reconnection dialog and dials; the handler of the second closes
  whatever socket there is, which is the new one, and `onError` does not dial
  because there is a dialog. "Connecting...", says the dialog, for ever
  (`NetworkClient_dialog`). `ReconnectsAfterCleanLoss` says that a loss
  reported once, by the last operation, does end in a new session.
* The table closes before or while a queue of actions opens it
  (`Tables_window`). In `Tables_live`, without such a close or a loss and with a
  user who waits, nothing stops the program (`ChainsEnd`).
* A table removed from the end of a list comes back (`UpdateItems_sizes`).
* The user outlives the connection (`Session_nobody`); until then
  `AgreeOnUser` holds.

The models also reach the following, which no run of its own states: a write
that moved some bytes before the loss, and is handled after the next dial,
goes on with the rest on the new connection, where the middle of a packet is
the first thing the server reads (`FreshSessionsSeparate` says that it takes
an operation that has succeeded and was not handled yet; those that failed do
no harm there); two clicks of OK on the key's page and one granted key bring
the recovery dialog to "your password has been successfully changed" though no
new password was sent (`ChangedUnlessRepeated` says that it takes a repeated
call); a stop() during the connect or the handshake is answered by the error
handlers, not by the stop handler; a reconnection dialog that was dismissed is deleted again
when the session is up (`PointsAtDialog` says that nothing else leads there);
a rejected buy-in is cancelled twice, by the dialog and by the action; the
state the server sends right after `add_viewer` is handled before
`InitTableWindow` and dropped; after a reconnection one reply also ends the
queues whose requests were lost with the old one; a question box whose table
is removed is deleted on the stack; after a failed probe the dialog says
"Connecting..." although nothing connects any more; a request for a waiter
whose connection is lost never reports done, there is no timeout; two jobs, or
a job and the GUI thread, start two writes at a time (`OneWritePerRace` says
that each race costs one, and nothing else does). Outside the models:
`ControlsHandler::onLogout` asserts about `m_userID`, which nothing
initialises or sets, so a logout with a table open depends on what the memory
held.

Bounds of `Tables`. Two queues are what one reply can confuse; a third
(`Tables_serial`) starts after them. Two calls of the server suffice for a
state and a close, or two closes; one lost connection for callbacks that
outlive it; two waiting callbacks of close_table for a table removed twice.
Tables interact only through the stack of dialogs and the message queues:
`Tables_live` has two. A user who does not wait is what `OneUpdaterCorrect` and
`DialogsMatchQueuesCorrect` are proved for as well.

Bounds of `Netio` and `NetworkClient`. Two connections are what it takes for
an operation to outlive its connection; a third one (`NetworkClient_any`)
lets a reconnection fail and be renewed. Two bytes are the smallest packet
that can be torn, two packets the smallest queue behind a write, three
(`Netio_patient`) one more in the queue. `MaxPending` bounds the completions
and retry timers alive when the abstract program dials; the client's dials are
bounded by its connections. The violations use the smallest values that show
them.

Bounds of `Session`. Two dialogs are what LoginRequired can stack, one queue
of actions is enough to stack it, two callbacks are the least that one reply
can run twice, and three messages are a login behind a logout behind a login.
All of it at once is too much for a run: the CONSTRAINT `Bounds` follows more
than one message in flight only while no dialog recovers a password, which is
where they decide something (`AgreeOnUser`, `FatalOnlyWhenOutlived`). The
proofs need no bound.

Bounds of `UpdateItems`. The order of up to four tables has every case: rows
before, at and behind the one that moves, is inserted or removed; `MaxRows`
and the ids bound the lists, two versions tell whether a row was copied. The
proofs need no bound.

Bounds of `StatJobs`. Two jobs are what a quick reconnection leaves, three
threads with the GUI's, so that two races can follow each other. Two packets
are a write and one behind it, or two writes; with a request on its way
(`Room` is asked when it sets out) there may be more. The thirty naps of a job
are one.

All runs say `CHECK_DEADLOCK FALSE`: the program may do nothing more (it ends,
or crashes, or has reached what the models do not follow), and at the bounds
it does.

Fairness. Weak fairness of the handlers is the 5 ms QTimer; of the callbacks,
that a C++ function returns; of `Post`, that asio queues a decided operation.
Nothing is assumed of the network in `Netio`. `NetworkClient_any` assumes
besides that the retry timer fires, that bytes under way arrive or fail, and
(strong fairness) that a server dialled again and again accepts; without the
last one no client can reconnect. `Tables` assumes that zero timers fire, that
the poll timer runs, that the server serves what it gets, that a user answers
the dialog in front, and that a lost connection comes back. `StatJobs` assumes
that a thread that can go on does (the operating system schedules threads, a
handler of the GUI returns) and nothing of the user or the network.
`Session` and `UpdateItems` have safety properties only.

## Proofs

`Netio_proofs` proves for every value of the constants allowed by
`NetioAssumption`:

* `TypeCorrect`: `Spec => []TypeOK`;
* `OneWriterCorrect`, `NothingStrandedCorrect` from `WriteInvariant`, whose
  invariant `WriteInv` is inductive: the type invariant, one write outstanding
  exactly while `m_write_in_process`, and nothing in `m_buffers` without it.
  `OneWriter` alone is not inductive without the types (the queue of
  completions must be a sequence for `Head` and `Tail` to keep its other
  elements apart), and `NothingStranded` needs it in `sent`. The argument is
  made once about a pair (ops, ready) with the lemmas `AppendOne`, `MoveOne`,
  `CancelOne`, `TailOne`, `AddOne`: what each of the few things the code does
  to that pair (queue a completion, cancel, take the head, start) keeps.

The type of the calls that are due is split from the rest (`SocketTypeOK`), and
each action has its lemma, so that `NetworkClient`, which leaves other calls
due, can use them. The last lemmas of the module (`Token`) are about a thread
of operations, of which one is outstanding at a time and whose handler starts
the next; they serve the client's proofs.

`Netio_stream_proofs` says what the write side puts on the wire, for every
program. `Rests` is the packet that is leaving with the bytes it has left,
`StreamCases` that a step does one of a few things with it and the queue
behind it: nothing, emits some bytes, begins the next packet, accepts one,
loses all. From these cases follow

* `TornOnlyAtTheEndCorrect`: `StreamInv` adds that if the last chunk cut its
  packet short on the connection that is up, then what is leaving is the rest
  of that packet;
* `OutboxCorrect`: `Spec => ImplementsOutbox`. Each case is a step of `Outbox`
  under the refinement mapping or leaves the mapped variables alone
  (`BoxStep`); `QueuedIsShaped` unfolds the mapping.

`NetworkClient_proofs` proves the six safety properties of `NetworkClient_any`
for the client as it is, which dials with operations of the old connection
outstanding, and for every fault and bound. `ClientInv` says that there
is one attempt at a session at a time, of a client that is not connected
(`Shaped`): an operation of connecting or of the handshake, a retry timer, or
the callback that goes on with it, which is the last of the calls that are due
whatever is reported on top of it (`LastOnly`); and that before the first
session and the first error there is that attempt and nothing else
(`FirstInv`), which is what `LossIsShown` needs at the start. Reads, writes and
errors can pile up beside the attempt, but none of them starts another one.

* `ClientTypeCorrect`, and `RetryNeverKillsSessionCorrect` and
  `StartedMeansSecureCorrect` from `Shaped`: a started session leaves no place
  for an attempt, so no retry timer and no handshake is there to end it or to
  contradict the flag.
* `PointsAtDialogCorrect` is inductive with the order of the calls due.
  `LossIsShownCorrect` combines it with `FirstInv`: once an error has been
  reported there is a dialog, until it is dismissed or a session is up.
* `ConnectedMeansListeningCorrect` from `UpInv`: whoever is connected has a
  read outstanding or due, or an error of its session is the next thing to be
  reported; and a session that comes up after a `netio::start` that failed has
  its error due before anybody can use it.

`Tables_proofs` proves five properties for any set of tables, server and
connection: the first three for any user, the last two for a serial one.

* `OneUpdaterCorrect`: `UpdaterInv` adds the type of `updaters`, without which
  counting up says nothing. Three lemmas say what `initGame`, `removeGame` and
  everything else keep; the step lemma sorts the actions into these. It is
  inductive because groups and windows are erased together, and a group made
  by a server call is empty.
* `TablesTypeCorrect`: the types are not inductive alone. That `close_table`
  has at most `MaxClose` callbacks rests on there being one question at most
  on the stack of dialogs, asked where there was room for its callback
  (`QuestionInv`): answering it is the only thing that adds one. The lemmas
  before it say once what each operation does to the queues of actions
  (`DoneChains`, `StageChains`, `ClickChains`, `ReplyChains`, `LostChains`) and
  to the stack (`PushAt`, `PopAt`, `OrphanedAt`).
* `DialogsMatchQueuesCorrect`: the count is reached through a pairing
  (`DialogInv`): a buy-in dialog belongs to a queue in a dialog, no two to the
  same, and every such queue has one. The steps that touch it are one that
  shows a dialog (`DialogShown`) and one by which the dialog on top returns
  (`DialogAnswered`); all others keep which queues are in a dialog
  (`SameDialogs`, `DialogKept`), deleting windows under the dialogs included.
* `SeatHasWindowCorrect`, as `Serial => (Spec => []SeatHasWindow)`; a click is
  the only step that uses `Serial`. `SeatHasWindow` speaks of the moments when
  nothing is under way; what it rests on is said of all others, in four layers,
  each from those before it. `QueuesInv`: one queue at most has yet to get its
  answer about a table, each script asks once, and a buy-in dialog is about its
  queue's table. `Offline`: without a session nothing is under way and no seat
  is held, so that losing the connection settles everything here. `AsksInv`: one question of a queue at most is under way about
  a table, and its queue waits for it, so a grant is always taken by a queue
  that goes on to open a window. `SeatsInv`: for a seat, either a grant is on
  the way in front of every message that closes the window, or no such message
  is on the way and the window is shown or a queue about to show it; for a
  reservation, either the grant is on the way, or a queue is on its way to the
  buy-in or in it, or its answer is on the way to the server. What a step does
  to this is sorted by what it does to the two wires, the queues and the
  windows (`DownKept`, `UpKept`, `QueuesKept`, `ShownKept`); `SeatCarry` puts
  these together.
* `OwnReplyCorrect`, as `Serial => (Spec => []OwnReply)`, connections lost and
  the callbacks they leave behind included. A reply runs every callback that
  waits for its procedure and table; with `QueuesInv` one of the queues they
  belong to at most is waiting with its request alive, and with `AsksInv` the
  reply under way is the one to that request (`ReplyToItsQueue`). The queues
  of lost requests that it also ends are not spoken of: theirs are gone.

`UpdateItems_proofs` proves the five properties of `UpdateItems_any` for any
tables, lists, versions and memory, and that a table of both lists stays in the
model throughout (`KeptRowsStay`). The lemmas `InsertAtRows` and the like say where
the rows are after an insertion, a move and a cut. The invariant `IInv` adds
to the types that no id occurs twice in the model and says what the loops have
done so far: while the ids are matched (`IdsInv`) the rows before `row` have
the reply's ids, as far as there are rows, and every table shown at the
beginning is still there; while the data is copied (`DataInv`) the rows before
`row` are the reply's, and if rows are missing then every table shown at the
beginning is still there. From the last clause `FailsOnlyOnGrowth` follows: a
row that is missing belongs to a table that was not shown. `MovesUp` follows
from uniqueness: an id still looked for is not among the rows matched.

`Session_proofs` proves the five properties of `Session_any`, for any user,
network, dialogs and bounds. `AgreeInv` adds to `AgreeOnUser` and
`FatalOnlyWhenOutlived` that a login names a user and a logout none
(`MessagesFit`), and that the replies in flight that decide alternate: each
finds the user the one before it leaves, the first one `user_info_t`
(`Alternate`). `FreedOnlyIfLeft` rests on `Kept`: until something is left
behind, every callback that waits has a dialog that is open, and the pointer
to the pop-up is not to a deleted one. `ChangedUnlessRepeated` is about one
dialog at a time that has not repeated a call. An unanswered call to turn its
page has the procedure to itself, one callback and no message but its own
(`Own`), so that the reply it gets is the reply to it; and a dialog that is
further than its call was in a page before (`Ahead`), which the way back and
forth makes possible, has had its password changed there. That no dialog is
twice on the stack (`NoTwice`) and one that is gone begins anew (`GoneBlank`)
keeps the dialogs apart.

`StatJobs_proofs` proves the five safety properties of its run for any number
of jobs. `OneJob`: without a quick session the job started last is the only
one, and none is left once the client is gone. `AtLoss`: a job that meets the
loss of its session before the dialog is there finds the GUI thread on its way
to it. `Stops`: who has asked for a stop, and that it has not been taken for a
later session's; it carries `ConnectedMeansStarted` and, because a job's own
stop() closes sockets too, `WorkerErrorsAtLossOnly`. `OneWritePerRace` needs
`Pending`, which counts a thread between test and set as the write it will
start; it holds of every order of the threads, races included.

Only model-checked: the liveness properties (fairness and ENABLED are out of
the prover's reach); `FreshSessionsSeparate`, whose hypothesis is about the
whole behaviour; and `NeverDeaf` and `OneReader` under `Patient`, which are
netio's promises to another program than this client.

## Plan

Done: `Netio` with `Outbox`, `NetworkClient`, `Tables`, `UpdateItems`,
`Session` and `StatJobs`, with the proofs of the safety properties above. What
is left, in this order:

1. Users and tables together: a logout or a lost session with tables open.
2. Windows when the server closes tables: one is only missed by a queue that
   was on its way when the table closed.
3. Nested lists (`updateItems` below a row) and `updatePrimitives`.

## Not modelled

The server side of netio (this program is a client), the blocking calls except
the probe of `init`, cryptography and serialization (their failures are the
faults `key` and `packet`), RestoreCash and RemoveWaiter (nothing starts
them), tournaments, no_crypt, the inactivity timer (the client does not ask
for it, and with it nothing stops or restarts a timer).

The handlers of a table's state: those of the server's calls that are still
wired write single fields into what is shown, most bodies are commented out,
and nothing constructs the TimelineHandler or wires the user controls. There
is nothing in them that one step could get wrong for another.

The settings and picture database: single SQL statements without transactions
on one connection of the GUI thread. Registration, cashier, notes and the
other forms: one request with one callback each, the pattern of `Session`.

Money, conversions, wire types, and everything that only displays: pure
functions without state, or widgets. Vendored code (`yas`, `hostinfo`,
`SMTPEmail`), designers and the files under `game/garbage` are not part of the
program's logic; they and the generated item models are most of the lines of
the repository.
