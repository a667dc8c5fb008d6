------------------------------- MODULE Session -------------------------------
(***************************************************************************)
(* Who is logged in, as the client and the server see it, and the dialog   *)
(* that logs a user in or recovers a password (dialog_authorization.cpp).  *)
(*                                                                         *)
(* The dialog lives on the stack of the function that opens it, which      *)
(* exec()s it: it exists while that function runs, and the functions nest  *)
(* (`stack').  Its calls to the server leave callbacks behind which hold   *)
(* it by `this'; a reply names no call, so it is given to every callback   *)
(* that waits for its procedure (rpcbase_lobby.cpp), of this dialog or of  *)
(* another, of this session or of one that was lost.                       *)
(*                                                                         *)
(* The server and the network are external: requests are served in order,  *)
(* one session has one user, and a lost connection takes the session and   *)
(* everything in flight with it.  What the client knows of its user        *)
(* survives: nothing resets user_info_t when the connection is lost.       *)
(*                                                                         *)
(* user_info_t, vip_system_info, the shown page of MainScreen and the four *)
(* pop-up dialogs of MainWindow change together, in the slots of one       *)
(* signal: `user' stands for all of them.                                  *)
(***************************************************************************)
EXTENDS Naturals, Sequences, FiniteSets

CONSTANTS
    Users, Nobody,
    Dialogs,   \* the dialogs there can be at a time
    MaxFlight, \* bound on the messages in flight
    MaxCalls,  \* bound on the callbacks that wait
    MaxAsked   \* bound on the queues of actions that wait to ask for a login

ASSUME SessionAssumption ==
    /\ Nobody \notin Users
    /\ MaxFlight \in Nat /\ MaxCalls \in Nat /\ MaxAsked \in Nat

\* The calls of the dialog, and the last of its pages.
Calls == {"login", "step1", "step2", "step3"}
Turning == {"step2", "step3"} \* the calls whose reply turns to the next page
LastPage == 4

VARIABLES
    user,      \* user_info_t of the models
    popup,     \* m_currentPopUp: one of the four dialogs, or what they have been
    canceled,  \* m_authorize_canceled
    asked,     \* the queues whose next action is LoginRequired
    stack,     \* the dialogs, in the order they were opened
    page,      \* stackOfContent of each
    controls,  \* stackOfControls: the way to register, back and OK, or finish
    forPopUp,  \* the dialogs opened by the button of a pop-up
    closed,    \* the dialogs whose exec() is about to return
    accepted,  \* those of them that a login has closed
    waiting,   \* how many callbacks of a dialog wait for a procedure
    crash,     \* how the program ended
    connected, \* m_connected
    up, down,  \* requests and replies in flight; only a new password needs
               \* the dialog it came from
    account,   \* the server's user of this session
    changed,   \* the dialogs whose step3 the server has granted
    outlived,  \* (for the properties) a connection was lost with a user logged in
    left,      \* (for the properties) something has been closed with a callback
               \* or a pointer left behind that refers to it
    repeated   \* (for the properties) the dialogs that made a call to turn the
               \* page while one was unanswered, or whose call met such a one

clientVars == <<user, popup, canceled, asked>>
pageVars   == <<page, controls>>
dialogVars == <<stack, pageVars, forPopUp, closed, accepted, waiting>>
serverVars == <<account, changed>>
netVars    == <<connected, up, down>>
history    == <<outlived, left, repeated>>
vars == <<clientVars, dialogVars, serverVars, netVars, history, crash>>

Request ==
    [proc: Calls \cup {"logout"}, user: Users \cup {Nobody}, from: Dialogs \cup {Nobody}]
Reply   == [proc: Calls \cup {"logout"}, user: Users \cup {Nobody}, ok: BOOLEAN]

SessionTypeOK ==
    /\ user \in Users \cup {Nobody} /\ account \in Users \cup {Nobody}
    /\ popup \in {"none", "live", "freed"} /\ canceled \in BOOLEAN
    /\ asked \in 0 .. MaxAsked
    /\ stack \in Seq(Dialogs)
    /\ page \in [Dialogs -> 0 .. LastPage] /\ controls \in [Dialogs -> 0 .. 2]
    /\ forPopUp \subseteq Dialogs /\ closed \subseteq Dialogs
    /\ accepted \subseteq Dialogs /\ changed \subseteq Dialogs
    /\ waiting \in [Calls -> [Dialogs -> Nat]]
    /\ crash \in {"none", "fatal", "freed"}
    /\ connected \in BOOLEAN
    /\ outlived \in BOOLEAN /\ left \in BOOLEAN /\ repeated \subseteq Dialogs
    /\ up \in Seq(Request) /\ down \in Seq(Reply)

-----------------------------------------------------------------------------
(* Dialogs and calls *)

Alive == {stack[i] : i \in 1 .. Len(stack)}
Waits(p) == {d \in Dialogs : waiting[p][d] > 0}
Callbacks == {c \in Calls \X Dialogs \X (1 .. MaxCalls) : c[3] <= waiting[c[1]][c[2]]}
Quiet == up = << >> /\ down = << >>

Running == crash = "none"

\* A call of p is unanswered, or an answer to one is still due.
Busy(p) ==
    \/ Waits(p) # {}
    \/ \E i \in 1 .. Len(up) : up[i].proc = p
    \/ \E i \in 1 .. Len(down) : down[i].proc = p

\* The dialog on top is modal: the others get no input.
Top(d) == stack # << >> /\ stack[Len(stack)] = d /\ d \notin closed

\* The next dialog takes none of the names that something still refers to.
Fresh(d) ==
    /\ d \notin Alive
    /\ \A p \in Calls : d \notin Waits(p)
    /\ \A i \in 1 .. Len(up) : up[i].from # d

openAuthorizationDialog(d) ==
    /\ Fresh(d)
    /\ stack' = Append(stack, d)

\* NetworkClient::call_server sends nothing while there is no connection.
Send(request) ==
    /\ Len(up) + Len(down) < MaxFlight
    /\ up' = IF connected THEN Append(up, request) ELSE up

\* The callback is connected before the request is sent, or not sent.
Call(d, p, u) ==
    /\ Cardinality(Callbacks) < MaxCalls
    /\ waiting' = [waiting EXCEPT ![p][d] = @ + 1]
    /\ Send([proc |-> p,
             user |-> IF p = "login" THEN u ELSE Nobody,
             from |-> IF p = "step3" THEN d ELSE Nobody])
    /\ repeated' = IF p \in Turning /\ Busy(p)
                  THEN repeated \cup (Waits(p) \cap Alive) \cup {d}
                  ELSE repeated

-----------------------------------------------------------------------------
(* The user *)

\* A button that needs a user opens the dialog itself...
ClickLogin(d) ==
    /\ Running /\ stack = << >> /\ user = Nobody
    /\ openAuthorizationDialog(d)
    /\ UNCHANGED <<clientVars, pageVars, forPopUp, closed, accepted, waiting, serverVars,
                   netVars, history, crash>>

\* ...or starts a queue of actions, which asks for a login in its own time.
ClickJoin ==
    /\ Running /\ stack = << >> /\ asked < MaxAsked
    /\ asked' = asked + 1
    /\ UNCHANGED <<user, popup, canceled, dialogVars, serverVars, netVars, history, crash>>

\* The pop-up shown is folded, if it still exists, and `next' unfolds.
Swap(next) ==
    IF popup = "freed" THEN crash' = "freed" /\ UNCHANGED popup
    ELSE popup' = next /\ UNCHANGED crash

\* triggerPopUp for a button whose pop-up is always there, or for none
triggerPopUp ==
    /\ Running /\ stack = << >>
    /\ IF canceled THEN UNCHANGED <<popup, crash>> ELSE Swap("none")
    /\ UNCHANGED <<user, canceled, asked, dialogVars, serverVars, netVars, history>>

\* openAccountDialog and the three like it, and triggerPopUp: with a user the
\* pop-up unfolds...
ClickPopUp ==
    /\ Running /\ stack = << >> /\ user # Nobody
    /\ canceled' = FALSE
    /\ Swap("live")
    /\ UNCHANGED <<user, asked, dialogVars, serverVars, netVars, history>>

\* ...without one a login comes first (what follows it is in Return).
ClickPopUpFirst(d) ==
    /\ Running /\ stack = << >> /\ user = Nobody
    /\ canceled' = FALSE
    /\ openAuthorizationDialog(d)
    /\ forPopUp' = forPopUp \cup {d}
    /\ UNCHANGED <<user, popup, asked, pageVars, closed, accepted, waiting, serverVars,
                   netVars, history, crash>>

\* Where a call can be made from: the login page, the OK button of a page, or
\* the button that asks for the key again
Pressable(d, p) ==
    CASE p = "login" -> page[d] = 0
      [] p = "step1" -> page[d] = 2 \/ (page[d] = 1 /\ controls[d] = 1)
      [] p = "step2" -> page[d] = 2 /\ controls[d] = 1
      [] p = "step3" -> page[d] = 3 /\ controls[d] = 1

\* accept(), on_bttn_OK_clicked(), requestLogin(), on_bttn_resend_clicked()
PressOK(d, p, u) ==
    /\ Running /\ Top(d) /\ Pressable(d, p)
    /\ Call(d, p, u)
    /\ UNCHANGED <<clientVars, stack, pageVars, forPopUp, closed, accepted, serverVars,
                   connected, down, outlived, left, crash>>

TurnTo(d, n, c) ==
    /\ page' = [page EXCEPT ![d] = n]
    /\ controls' = [controls EXCEPT ![d] = c]
    /\ UNCHANGED <<clientVars, stack, forPopUp, closed, accepted, waiting, serverVars,
                   netVars, history, crash>>

showRecoveryPage(d) ==
    /\ Running /\ Top(d) /\ page[d] = 0
    /\ TurnTo(d, 1, 1)

\* on_bttn_back_clicked(): the button, or Esc on a page in between
Back(d) ==
    /\ Running /\ Top(d)
    /\ \/ page[d] \in 1 .. LastPage - 1
       \/ page[d] = LastPage /\ controls[d] = 1
    /\ TurnTo(d, page[d] - 1, IF page[d] = 1 THEN 0 ELSE 1)

\* bttn_finish
showHomepage(d) ==
    /\ Running /\ Top(d) /\ controls[d] = 2
    /\ TurnTo(d, 0, 0)

\* reject(), closeEvent(), and hide() when the user goes to the registration
Dismiss(d) ==
    /\ Running /\ Top(d)
    /\ closed' = closed \cup {d}
    /\ left' = (left \/ \E p \in Calls : d \in Waits(p))
    /\ UNCHANGED <<clientVars, stack, pageVars, forPopUp, accepted, waiting, serverVars,
                   netVars, outlived, repeated, crash>>

\* Mutant: the user is forgotten before the reply.
ClickLogoutAtOnce ==
    /\ Running /\ stack = << >> /\ user # Nobody
    /\ user' = Nobody
    /\ Send([proc |-> "logout", user |-> Nobody, from |-> Nobody])
    /\ UNCHANGED <<popup, canceled, asked, dialogVars, serverVars, connected, down, history, crash>>

\* actionLogout of the main screen
ClickLogout ==
    /\ Running /\ stack = << >> /\ user # Nobody
    /\ Send([proc |-> "logout", user |-> Nobody, from |-> Nobody])
    /\ UNCHANGED <<clientVars, dialogVars, serverVars, connected, down, history, crash>>

-----------------------------------------------------------------------------
(* The client *)

\* LoginRequired::execute, from a timer: whatever is on the screen then
LoginRequired ==
    /\ Running
    /\ asked > 0
    /\ asked' = asked - 1
    /\ IF user # Nobody THEN UNCHANGED stack
       ELSE \E d \in Dialogs : openAuthorizationDialog(d)
    /\ UNCHANGED <<user, popup, canceled, pageVars, forPopUp, closed, accepted, waiting,
                   serverVars, netVars, history, crash>>

\* exec() returns to the function that has the dialog on its stack; the button
\* of a pop-up goes on with the pop-up, or else folds what is shown and lets no
\* button of the bar do anything until one of the four is clicked again.
Return ==
    /\ Running
    /\ stack # << >> /\ stack[Len(stack)] \in closed
    /\ LET d == stack[Len(stack)] IN
       /\ stack' = SubSeq(stack, 1, Len(stack) - 1)
       /\ forPopUp' = forPopUp \ {d}
       /\ closed' = closed \ {d} /\ accepted' = accepted \ {d}
       /\ page' = [page EXCEPT ![d] = 0] /\ controls' = [controls EXCEPT ![d] = 0]
       /\ changed' = changed \ {d} /\ repeated' = repeated \ {d}
       /\ \/ d \notin forPopUp /\ UNCHANGED <<popup, canceled, crash>>
          \/ /\ d \in forPopUp /\ d \in accepted
             /\ Swap(IF user # Nobody THEN "live" ELSE "none")
             /\ UNCHANGED canceled
          \/ /\ d \in forPopUp /\ d \notin accepted
             /\ Swap("none")
             /\ canceled' = TRUE
    /\ UNCHANGED <<user, asked, waiting, account, netVars, outlived, left>>

\* Mutant: a page past the last one is not refused.
LandsPastTheEnd(p, at, n) ==
    IF n = 0 \/ p = "login" THEN at ELSE IF p = "step1" THEN 2 ELSE at + n

\* Where a reply takes a dialog that has n callbacks waiting for it
Lands(p, at, n) ==
    IF n = 0 \/ p = "login" THEN at
    ELSE IF p = "step1" THEN 2
    ELSE IF at + n <= LastPage THEN at + n ELSE LastPage

\* Mutant: the result is not looked at.
LandingUnchecked(p, ok, at, n) ==
    Lands(p, at, n)
Landing(p, ok, at, n) == IF ok THEN Lands(p, at, n) ELSE at

\* Mutant: the callbacks stay connected.
AnswerAgain(p, ok) ==
    /\ page' = [d \in Dialogs |-> Landing(p, ok, page[d], waiting[p][d])]
    /\ controls' = controls
    /\ closed' = IF p = "login" /\ ok THEN closed \cup Waits(p) ELSE closed
    /\ accepted' = IF p = "login" /\ ok THEN accepted \cup Waits(p) ELSE accepted
    /\ waiting' = waiting
    /\ crash' = IF Waits(p) \subseteq Alive THEN crash ELSE "freed"

\* Every callback that waits for p runs, and waits no more.
Answer(p, ok) ==
    /\ page' = [d \in Dialogs |-> Landing(p, ok, page[d], waiting[p][d])]
    /\ controls' = [d \in Dialogs |->
                        IF p = "step3" /\ ok /\ d \in Waits(p) THEN 2 ELSE controls[d]]
    /\ closed' = IF p = "login" /\ ok THEN closed \cup Waits(p) ELSE closed
    /\ accepted' = IF p = "login" /\ ok THEN accepted \cup Waits(p) ELSE accepted
    /\ waiting' = [waiting EXCEPT ![p] = [d \in Dialogs |-> 0]]
    /\ crash' = IF Waits(p) \subseteq Alive THEN crash ELSE "freed"

\* The models' slot comes first, and insists on the user it expects.
Fatal(reply) ==
    \/ reply.proc = "login" /\ reply.ok /\ user # Nobody
    \/ reply.proc = "logout" /\ reply.ok /\ user = Nobody

\* Mutant: the result is not looked at.
UserAfterUnchecked(reply) ==
    IF reply.proc \in {"login", "logout"} THEN reply.user ELSE user

\* The models' user once a reply to login or logout has been heard
UserAfter(reply) ==
    IF reply.proc \in {"login", "logout"} /\ reply.ok THEN reply.user ELSE user

\* A granted login closes a dialog with another call unanswered, a granted
\* logout the pop-up that is shown.
Leaves(reply) ==
    /\ reply.ok
    /\ \/ /\ reply.proc = "login"
          /\ \E p \in Calls \ {"login"} : Waits(p) \cap Waits("login") # {}
       \/ reply.proc = "logout" /\ popup = "live"

\* A reply that arrives: the slots of its signal, then the callbacks.
Deliver ==
    /\ Running
    /\ down # << >>
    /\ LET reply == Head(down) IN
       /\ down' = Tail(down)
       /\ IF Fatal(reply)
          THEN crash' = "fatal" /\ UNCHANGED <<clientVars, dialogVars, left>>
          ELSE /\ user' = UserAfter(reply)
               /\ popup' = IF reply.proc = "logout" /\ reply.ok /\ popup = "live"
                           THEN "freed" ELSE popup
               /\ IF reply.proc \in Calls THEN Answer(reply.proc, reply.ok)
                  ELSE UNCHANGED <<pageVars, closed, accepted, waiting, crash>>
               /\ left' = (left \/ Leaves(reply))
               /\ UNCHANGED <<canceled, asked, stack, forPopUp>>
    /\ UNCHANGED <<serverVars, connected, up, outlived, repeated>>

-----------------------------------------------------------------------------
(* The server and the network *)

\* A session has one user: it is logged in once, and out again.
Verdicts(request) ==
    CASE request.proc = "login"  -> IF account = Nobody THEN BOOLEAN ELSE {FALSE}
      [] request.proc = "logout" -> {account # Nobody}
      [] OTHER -> BOOLEAN

Serve ==
    /\ Running
    /\ up # << >>
    /\ up' = Tail(up)
    /\ LET request == Head(up) IN
       \E ok \in Verdicts(request) :
          /\ down' = Append(down, [proc |-> request.proc, user |-> request.user, ok |-> ok])
          /\ account' = IF ok /\ request.proc \in {"login", "logout"}
                        THEN request.user ELSE account
          /\ changed' = IF ok /\ request.proc = "step3"
                        THEN changed \cup ({request.from} \cap Alive) ELSE changed
    /\ UNCHANGED <<clientVars, dialogVars, connected, history, crash>>

onError ==
    /\ Running
    /\ connected
    /\ connected' = FALSE
    /\ up' = << >> /\ down' = << >> /\ account' = Nobody
    /\ outlived' = (outlived \/ user # Nobody)
    /\ UNCHANGED <<clientVars, dialogVars, changed, left, repeated, crash>>

Reconnect ==
    /\ Running
    /\ ~connected
    /\ connected' = TRUE
    /\ UNCHANGED <<clientVars, dialogVars, serverVars, up, down, history, crash>>

-----------------------------------------------------------------------------
Init ==
    /\ user = Nobody /\ popup = "none" /\ canceled = FALSE /\ asked = 0
    /\ stack = << >> /\ forPopUp = {} /\ closed = {} /\ accepted = {}
    /\ page = [d \in Dialogs |-> 0] /\ controls = [d \in Dialogs |-> 0]
    /\ waiting = [p \in Calls |-> [d \in Dialogs |-> 0]]
    /\ crash = "none"
    /\ connected = TRUE /\ up = << >> /\ down = << >>
    /\ account = Nobody /\ changed = {}
    /\ outlived = FALSE /\ left = FALSE /\ repeated = {}

Next ==
    \/ ClickJoin \/ ClickLogout \/ ClickPopUp \/ triggerPopUp
    \/ \E d \in Dialogs :
        \/ ClickLogin(d) \/ ClickPopUpFirst(d)
        \/ showRecoveryPage(d) \/ Back(d) \/ showHomepage(d) \/ Dismiss(d)
        \/ \E p \in Calls, u \in Users : PressOK(d, p, u)
    \/ LoginRequired \/ Return \/ Deliver
    \/ Serve \/ onError \/ Reconnect

Spec == Init /\ [][Next]_vars

-----------------------------------------------------------------------------
(* Properties *)

\* The replies that say who is logged in: logins and logouts granted
Decides(reply) == reply.ok /\ reply.proc \in {"login", "logout"}

\* No reply in flight after the first n decides.
Settled(n) == \A j \in n + 1 .. Len(down) : ~Decides(down[j])

\* Client and server agree on who is logged in, replies in flight included,
\* until a user outlives the connection it was logged in on: the last reply in
\* flight that decides, or else user_info_t, is the server's user
\* (modeldatabase.cpp:174-206, network_client.cpp:449-473).
AgreeOnUser ==
    crash = "none" /\ ~outlived =>
        /\ Settled(0) => user = account
        /\ \A i \in 1 .. Len(down) :
              Decides(down[i]) /\ Settled(i) => down[i].user = account

\* The models' qFatal (modeldatabase.cpp:177,197) ends the program only after
\* a user has outlived a connection: no order of clicks, dialogs and replies
\* of one session does.
FatalOnlyWhenOutlived == crash = "fatal" => outlived

\* No callback runs in a dialog that is gone, and no pop-up is used that is
\* gone, unless a dialog was closed with a call of its own unanswered, by its
\* user or by a login granted meanwhile, or a pop-up was shown when its user
\* was logged out: lost connections, repeated clicks, stacked dialogs and
\* replies to other dialogs do not do it (dialog_authorization.cpp:248,
\* MainWindow.cpp:404).
FreedOnlyIfLeft == crash = "freed" => left

\* The last page says that the password has been changed (recovery_final).  A
\* dialog shows it to a user whose password was not changed only if one of
\* its calls met another unanswered call of the same procedure: no dismissal,
\* lost connection or way back and forth does it
\* (dialog_authorization.cpp:204,231).
ChangedUnlessRepeated ==
    \A d \in Alive : page[d] = LastPage => d \in changed \/ d \in repeated

\* What the models take for granted: once everything is answered, nobody is
\* logged in for the client if nobody is for the server.
NobodyLoggedIn == Quiet /\ connected /\ account = Nobody => user = Nobody
=============================================================================
