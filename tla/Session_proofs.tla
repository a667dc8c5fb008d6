---------------------------- MODULE Session_proofs ----------------------------
(***************************************************************************)
(* That client and server agree on who is logged in, and that nothing      *)
(* freed is used and no change of password made up as long as nothing is   *)
(* left behind and no call repeated, for any users, dialogs and bounds.    *)
(*                                                                         *)
(* AgreeOnUser speaks of the last reply in flight that decides.  It is     *)
(* inductive with what is known of the others (Alternate): each of them    *)
(* finds the user that the one before it has left, which is also why the   *)
(* models never see a login too many.  That nothing freed is used rests on *)
(* every callback that waits having an open dialog (Kept); that the last   *)
(* page tells the truth, on an unrepeated call having its procedure to     *)
(* itself, so that the reply it gets is its own (Own), and on a dialog     *)
(* that is a page ahead of its call having been there before (Ahead).      *)
(***************************************************************************)
EXTENDS Session, SequenceTheorems, TLAPS

\* A message about a user: a login names one, a logout names none.
Fits(m) ==
    /\ m.proc = "login" => m.user \in Users
    /\ m.proc = "logout" => m.user = Nobody

\* A reply that decides finds user u: a login finds nobody, a logout somebody.
Finds(m, u) == (m.proc = "login") <=> (u = Nobody)

\* No reply after the i-th and before the k-th decides.
Adjacent(i, k) == \A j \in 1 .. Len(down) : i < j /\ j < k => ~Decides(down[j])

Alternate ==
    crash = "none" /\ ~outlived =>
        \A k \in 1 .. Len(down) : Decides(down[k]) =>
            /\ Adjacent(0, k) => Finds(down[k], user)
            /\ \A i \in 1 .. Len(down) :
                  i < k /\ Decides(down[i]) /\ Adjacent(i, k) => Finds(down[k], down[i].user)

MessagesFit ==
    /\ \A i \in 1 .. Len(up) : Fits(up[i])
    /\ \A i \in 1 .. Len(down) : Fits(down[i])

AgreeInv ==
    /\ MessagesFit
    /\ Alternate
    /\ AgreeOnUser
    /\ FatalOnlyWhenOutlived

\* Every callback that waits has a dialog, and one that is still open.
Kept ==
    ~left =>
        /\ popup # "freed" /\ crash # "freed"
        /\ \A p \in Calls, d \in Dialogs : waiting[p][d] > 0 => d \in Alive /\ d \notin closed

\* d has p to itself: one callback, and no message of p but from d's call.
Own(p, d) ==
    /\ waiting[p][d] = 1
    /\ \A e \in Dialogs : e # d => waiting[p][e] = 0
    /\ p = "step3" =>
          /\ \A i \in 1 .. Len(up) : up[i].proc = p => up[i].from = d
          /\ \A i \in 1 .. Len(down) : down[i].proc = p /\ down[i].ok => d \in changed

\* A dialog that waits for step2 with the next page on top, or shows the last
\* page, has had its password changed before.
Ahead(d) ==
    /\ page[d] = LastPage => d \in changed
    /\ page[d] = LastPage - 1 /\ waiting["step2"][d] > 0 => d \in changed

NoTwice == \A i, j \in 1 .. Len(stack) : stack[i] = stack[j] => i = j

GoneBlank == crash # "freed" => \A d \in Dialogs \ Alive : page[d] = 0

Unrepeated ==
    \A d \in Alive \ repeated :
        /\ \A p \in Turning : waiting[p][d] > 0 => Own(p, d)
        /\ Ahead(d)

PageInv == NoTwice /\ GoneBlank /\ Unrepeated

IInv == SessionTypeOK /\ AgreeInv /\ Kept /\ PageInv

-----------------------------------------------------------------------------
(* The types *)

LEMMA OpenTypes ==
    ASSUME SessionTypeOK, NEW d \in Dialogs, openAuthorizationDialog(d)
    PROVE  stack' \in Seq(Dialogs)
BY DEF SessionTypeOK, openAuthorizationDialog

LEMMA TurnTypes ==
    ASSUME SessionTypeOK, NEW d \in Dialogs, NEW n \in 0 .. LastPage, NEW c \in 0 .. 2,
           TurnTo(d, n, c)
    PROVE  SessionTypeOK'
<1>1. page' \in [Dialogs -> 0 .. LastPage] /\ controls' \in [Dialogs -> 0 .. 2]
  BY DEF SessionTypeOK, TurnTo
<1>2. UNCHANGED <<clientVars, stack, forPopUp, closed, accepted, waiting, serverVars, netVars,
                  history, crash>>
  BY DEF TurnTo
<1> QED BY <1>1, <1>2 DEF SessionTypeOK, clientVars, serverVars, netVars, history

LEMMA SwapTypes ==
    ASSUME SessionTypeOK, NEW n \in {"none", "live"}, Swap(n)
    PROVE  /\ popup' \in {"none", "live", "freed"}
           /\ crash' \in {"none", "fatal", "freed"}
           /\ crash' = crash \/ crash' = "freed"
BY DEF SessionTypeOK, Swap

LEMMA SendTypes ==
    ASSUME SessionTypeOK, NEW r \in Request, Send(r)
    PROVE  up' \in Seq(Request)
BY DEF SessionTypeOK, Send

LEMMA LandingTypes ==
    ASSUME NEW p \in Calls, NEW ok \in BOOLEAN, NEW at \in 0 .. LastPage, NEW n \in Nat
    PROVE  Landing(p, ok, at, n) \in 0 .. LastPage
BY DEF Landing, Lands, LastPage

LEMMA AnswerTypes ==
    ASSUME SessionTypeOK, NEW p \in Calls, NEW ok \in BOOLEAN, Answer(p, ok)
    PROVE  /\ page' \in [Dialogs -> 0 .. LastPage] /\ controls' \in [Dialogs -> 0 .. 2]
           /\ closed' \subseteq Dialogs /\ accepted' \subseteq Dialogs
           /\ waiting' \in [Calls -> [Dialogs -> Nat]]
           /\ crash' \in {"none", "fatal", "freed"}
<1>1. \A d \in Dialogs : Landing(p, ok, page[d], waiting[p][d]) \in 0 .. LastPage
  <2> TAKE d \in Dialogs
  <2>1. page[d] \in 0 .. LastPage /\ waiting[p][d] \in Nat
    BY DEF SessionTypeOK
  <2> QED BY <2>1, LandingTypes
<1>2. page' \in [Dialogs -> 0 .. LastPage]
  BY <1>1 DEF Answer
<1>3. closed' \subseteq Dialogs /\ accepted' \subseteq Dialogs /\ crash' \in {"none", "fatal", "freed"}
  BY DEF Answer, SessionTypeOK, Waits
<1>4. waiting' \in [Calls -> [Dialogs -> Nat]]
  BY DEF Answer, SessionTypeOK
<1>5. controls' \in [Dialogs -> 0 .. 2]
  BY DEF Answer, SessionTypeOK
<1> QED BY <1>2, <1>3, <1>4, <1>5

LEMMA TypeStep ==
    ASSUME SessionTypeOK, [Next]_vars
    PROVE  SessionTypeOK'
<1> USE SessionAssumption DEF Running, clientVars, pageVars, dialogVars, serverVars, netVars, history
<1>1. CASE ClickJoin
  BY <1>1 DEF ClickJoin, SessionTypeOK
<1>2. CASE ClickLogout
  <2>1. up' \in Seq(Request)
    BY <1>2, SendTypes DEF ClickLogout, Request
  <2> QED BY <1>2, <2>1 DEF ClickLogout, SessionTypeOK
<1>3. CASE triggerPopUp
  <2>1. popup' \in {"none", "live", "freed"} /\ crash' \in {"none", "fatal", "freed"}
    BY <1>3, SwapTypes DEF triggerPopUp, SessionTypeOK
  <2> QED BY <1>3, <2>1 DEF triggerPopUp, SessionTypeOK
<1>15. CASE ClickPopUp
  <2>1. popup' \in {"none", "live", "freed"} /\ crash' \in {"none", "fatal", "freed"}
    BY <1>15, SwapTypes DEF ClickPopUp
  <2> QED BY <1>15, <2>1 DEF ClickPopUp, SessionTypeOK
<1>4. ASSUME NEW d \in Dialogs, ClickLogin(d) PROVE SessionTypeOK'
  BY <1>4, OpenTypes DEF ClickLogin, SessionTypeOK
<1>16. ASSUME NEW d \in Dialogs, ClickPopUpFirst(d) PROVE SessionTypeOK'
  BY <1>16, OpenTypes DEF ClickPopUpFirst, SessionTypeOK
<1>5. ASSUME NEW d \in Dialogs, showRecoveryPage(d) \/ Back(d) \/ showHomepage(d)
      PROVE  SessionTypeOK'
  <2>1. page[d] \in 0 .. LastPage
    BY DEF SessionTypeOK
  <2>2. PICK n \in 0 .. LastPage, c \in 0 .. 2 : TurnTo(d, n, c)
    BY <1>5, <2>1 DEF showRecoveryPage, Back, showHomepage, LastPage
  <2> QED BY <2>2, TurnTypes
<1>6. ASSUME NEW d \in Dialogs, Dismiss(d) PROVE SessionTypeOK'
  BY <1>6 DEF Dismiss, SessionTypeOK
<1>7. ASSUME NEW d \in Dialogs, NEW p \in Calls, NEW u \in Users, PressOK(d, p, u)
      PROVE  SessionTypeOK'
  <2> DEFINE r == [proc |-> p, user |-> IF p = "login" THEN u ELSE Nobody,
                    from |-> IF p = "step3" THEN d ELSE Nobody]
  <2>1. r \in Request /\ Send(r)
    BY <1>7 DEF PressOK, Call, Request
  <2>2. up' \in Seq(Request)
    BY <2>1, SendTypes
  <2>3. waiting' \in [Calls -> [Dialogs -> Nat]]
    BY <1>7 DEF PressOK, Call, SessionTypeOK
  <2>4. repeated' \subseteq Dialogs
    BY <1>7 DEF PressOK, Call, Waits, SessionTypeOK
  <2> QED BY <1>7, <2>2, <2>3, <2>4 DEF PressOK, SessionTypeOK
<1>8. CASE LoginRequired
  <2>1. stack' \in Seq(Dialogs)
    BY <1>8, OpenTypes DEF LoginRequired, SessionTypeOK
  <2> QED BY <1>8, <2>1 DEF LoginRequired, SessionTypeOK
<1>9. CASE Return
  <2> DEFINE d == stack[Len(stack)]
  <2>1. stack' \in Seq(Dialogs)
    BY <1>9, SubSeqProperties DEF Return, SessionTypeOK
  <2>2. page' = [page EXCEPT ![d] = 0] /\ controls' = [controls EXCEPT ![d] = 0]
    BY <1>9 DEF Return
  <2>3. page' \in [Dialogs -> 0 .. LastPage] /\ controls' \in [Dialogs -> 0 .. 2]
    <3>1. d \in Dialogs
      BY <1>9 DEF Return, SessionTypeOK
    <3> HIDE DEF d
    <3> QED BY <2>2, <3>1 DEF SessionTypeOK, LastPage
  <2>4. /\ popup' \in {"none", "live", "freed"} /\ crash' \in {"none", "fatal", "freed"}
        /\ canceled' \in BOOLEAN
    BY <1>9, SwapTypes DEF Return, SessionTypeOK
  <2>5. /\ forPopUp' \subseteq Dialogs /\ closed' \subseteq Dialogs /\ accepted' \subseteq Dialogs
        /\ changed' \subseteq Dialogs /\ repeated' \subseteq Dialogs
    BY <1>9 DEF Return, SessionTypeOK
  <2> QED BY <1>9, <2>1, <2>3, <2>4, <2>5 DEF Return, SessionTypeOK
<1>10. CASE Deliver
  <2> DEFINE reply == Head(down)
  <2>1. reply \in Reply /\ down' \in Seq(Reply)
    BY <1>10 DEF Deliver, SessionTypeOK
  <2>2. CASE Fatal(reply)
    BY <1>10, <2>1, <2>2 DEF Deliver, SessionTypeOK
  <2>3. CASE ~Fatal(reply)
    <3>1. /\ page' \in [Dialogs -> 0 .. LastPage] /\ controls' \in [Dialogs -> 0 .. 2]
          /\ closed' \subseteq Dialogs /\ accepted' \subseteq Dialogs
          /\ waiting' \in [Calls -> [Dialogs -> Nat]]
          /\ crash' \in {"none", "fatal", "freed"}
      <4>1. CASE reply.proc \in Calls
        <5>1. reply.ok \in BOOLEAN /\ Answer(reply.proc, reply.ok)
          BY <1>10, <2>1, <2>3, <4>1 DEF Deliver, Reply
        <5> QED BY <4>1, <5>1, AnswerTypes
      <4>2. CASE reply.proc \notin Calls
        BY <1>10, <2>3, <4>2 DEF Deliver, SessionTypeOK
      <4> QED BY <4>1, <4>2
    <3>2. user' \in Users \cup {Nobody} /\ popup' \in {"none", "live", "freed"}
      BY <1>10, <2>1, <2>3 DEF Deliver, SessionTypeOK, UserAfter, Reply
    <3>3. left' \in BOOLEAN
      BY <1>10, <2>3 DEF Deliver, SessionTypeOK
    <3> QED BY <1>10, <2>1, <2>3, <3>1, <3>2, <3>3 DEF Deliver, SessionTypeOK
  <2> QED BY <2>2, <2>3
<1>11. CASE Serve
  <2> DEFINE request == Head(up)
  <2>1. request \in Request /\ up' \in Seq(Request)
    BY <1>11 DEF Serve, SessionTypeOK
  <2>2. PICK ok \in Verdicts(request) :
          /\ down' = Append(down, [proc |-> request.proc, user |-> request.user, ok |-> ok])
          /\ account' = IF ok /\ request.proc \in {"login", "logout"}
                        THEN request.user ELSE account
          /\ changed' = IF ok /\ request.proc = "step3"
                        THEN changed \cup ({request.from} \cap Alive) ELSE changed
    BY <1>11 DEF Serve
  <2>3. ok \in BOOLEAN
    BY DEF Verdicts
  <2>4. down' \in Seq(Reply)
    BY <2>1, <2>2, <2>3 DEF SessionTypeOK, Request, Reply
  <2>5. account' \in Users \cup {Nobody}
    BY <2>1, <2>2 DEF SessionTypeOK, Request
  <2>6. changed' \subseteq Dialogs
    BY <2>2 DEF SessionTypeOK, Alive
  <2> QED BY <1>11, <2>1, <2>4, <2>5, <2>6 DEF Serve, SessionTypeOK
<1>12. CASE onError
  <2>1. outlived' \in BOOLEAN
    BY <1>12 DEF onError
  <2>2. /\ up' = << >> /\ down' = << >> /\ account' = Nobody /\ connected' = FALSE
        /\ UNCHANGED <<clientVars, dialogVars, changed, left, repeated, crash>>
    BY <1>12 DEF onError
  <2>3. up' \in Seq(Request) /\ down' \in Seq(Reply)
    BY <2>2
  <2>4. user' \in Users \cup {Nobody} /\ account' \in Users \cup {Nobody} /\ connected' \in BOOLEAN
    BY <2>2 DEF SessionTypeOK
  <2> QED BY <2>1, <2>2, <2>3, <2>4 DEF SessionTypeOK
<1>13. CASE Reconnect
  BY <1>13 DEF Reconnect, SessionTypeOK
<1>14. CASE UNCHANGED vars
  BY <1>14 DEF vars, SessionTypeOK
<1> QED BY <1>1, <1>2, <1>3, <1>4, <1>5, <1>6, <1>7, <1>8, <1>9, <1>10, <1>11, <1>12,
           <1>13, <1>14, <1>15, <1>16 DEF Next

LEMMA TypeInit ==
    ASSUME Init PROVE SessionTypeOK
<1>1. up \in Seq(Request) /\ down \in Seq(Reply) /\ stack \in Seq(Dialogs)
  BY DEF Init
<1>2. /\ canceled \in BOOLEAN /\ connected \in BOOLEAN
      /\ outlived \in BOOLEAN /\ left \in BOOLEAN
  BY DEF Init
<1> QED BY SessionAssumption, <1>1, <1>2 DEF Init, SessionTypeOK, LastPage

\* The session's variables keep their types (SessionTypeOK).
THEOREM TypeCorrect == Spec => []SessionTypeOK
BY TypeInit, TypeStep, PTL DEF Spec

-----------------------------------------------------------------------------
(* Who is logged in *)

\* What neither delivers nor answers anything keeps the agreement.
LEMMA AgreeFrame ==
    ASSUME AgreeInv, UNCHANGED <<down, user, account, outlived>>,
           crash' = crash \/ crash' = "freed",
           \A i \in 1 .. Len(up') : Fits(up'[i])
    PROVE  AgreeInv'
<1>1. MessagesFit'
  BY DEF AgreeInv, MessagesFit, Fits
<1>2. Alternate'
  BY DEF AgreeInv, Alternate, Adjacent, Finds, Decides
<1>3. AgreeOnUser'
  BY DEF AgreeInv, AgreeOnUser, Settled, Decides
<1>4. FatalOnlyWhenOutlived'
  BY DEF AgreeInv, FatalOnlyWhenOutlived
<1> QED BY <1>1, <1>2, <1>3, <1>4 DEF AgreeInv

LEMMA SendFits ==
    ASSUME SessionTypeOK, MessagesFit, NEW r \in Request, Fits(r), Send(r)
    PROVE  \A i \in 1 .. Len(up') : Fits(up'[i])
BY DEF SessionTypeOK, MessagesFit, Send

\* What the delivery of a reply makes of the sequence of replies.
LEMMA DeliverShifts ==
    ASSUME SessionTypeOK, Deliver
    PROVE  /\ Len(down') \in Nat /\ Len(down) = Len(down') + 1
           /\ Head(down) = down[1] /\ down[1] \in Reply
           /\ \A i \in 1 .. Len(down') : down'[i] = down[i + 1]
           /\ up' = up /\ account' = account /\ outlived' = outlived
BY DEF SessionTypeOK, Deliver, serverVars, history

\* A reply that the models refuse needs a user who has outlived a connection.
LEMMA FatalNeedsLoss ==
    ASSUME SessionTypeOK, AgreeInv, Deliver, Fatal(Head(down))
    PROVE  outlived
<1>1. Len(down) \in Nat /\ 1 \in 1 .. Len(down) /\ Head(down) = down[1]
  BY DeliverShifts
<1>2. Decides(down[1]) /\ ~Finds(down[1], user)
  BY <1>1 DEF Fatal, Decides, Finds
<1>3. Adjacent(0, 1)
  BY <1>1 DEF Adjacent
<1> QED BY <1>1, <1>2, <1>3 DEF AgreeInv, Alternate, Deliver, Running

LEMMA DeliverAgrees ==
    ASSUME SessionTypeOK, AgreeInv, Deliver
    PROVE  AgreeInv'
<1> DEFINE m == down[1]
           n == Len(down')
<1>1. /\ n \in Nat /\ Len(down) = n + 1 /\ Head(down) = m /\ m \in Reply
      /\ \A i \in 1 .. n : down'[i] = down[i + 1]
      /\ up' = up /\ account' = account /\ outlived' = outlived
  BY DeliverShifts
<1>2. crash = "none"
  BY DEF Deliver, Running
<1>3. MessagesFit'
  BY <1>1 DEF AgreeInv, MessagesFit, Fits
<1>4. FatalOnlyWhenOutlived'
  <2>1. CASE Fatal(Head(down))
    BY <1>1, <2>1, FatalNeedsLoss DEF FatalOnlyWhenOutlived
  <2>2. CASE ~Fatal(Head(down))
    BY <1>1, <1>2, <2>2 DEF Deliver, Answer, FatalOnlyWhenOutlived
  <2> QED BY <2>1, <2>2
<1>5. ASSUME crash' = "none", ~outlived'
      PROVE  AgreeOnUser' /\ Alternate'
  <2>1. ~outlived /\ ~Fatal(m)
    BY <1>1, <1>5, FatalNeedsLoss
  <2>2. user' = IF Decides(m) THEN m.user ELSE user
    BY <1>1, <2>1 DEF Deliver, UserAfter, Decides
  <2>3. /\ Settled(0) => user = account
        /\ \A i \in 1 .. Len(down) : Decides(down[i]) /\ Settled(i) => down[i].user = account
    BY <1>2, <2>1 DEF AgreeInv, AgreeOnUser
  <2>4. \A k \in 1 .. Len(down) : Decides(down[k]) =>
            /\ Adjacent(0, k) => Finds(down[k], user)
            /\ \A i \in 1 .. Len(down) :
                  i < k /\ Decides(down[i]) /\ Adjacent(i, k) => Finds(down[k], down[i].user)
    BY <1>2, <2>1 DEF AgreeInv, Alternate
  <2>5. ASSUME NEW i \in 0 .. n, Settled(i)'
        PROVE  Settled(i + 1)
    <3> SUFFICES ASSUME NEW j \in (i + 1) + 1 .. Len(down)
                 PROVE  ~Decides(down[j])
      BY DEF Settled
    <3>1. j - 1 \in i + 1 .. n /\ down'[j - 1] = down[j]
      BY <1>1
    <3> QED BY <2>5, <3>1 DEF Settled, Decides
  <2>6. ASSUME NEW i \in 0 .. n, NEW k \in 1 .. n, Adjacent(i, k)'
        PROVE  Adjacent(i + 1, k + 1)
    <3> SUFFICES ASSUME NEW j \in 1 .. Len(down), i + 1 < j, j < k + 1
                 PROVE  ~Decides(down[j])
      BY DEF Adjacent
    <3>1. j - 1 \in 1 .. n /\ down'[j - 1] = down[j] /\ i < j - 1 /\ j - 1 < k
      BY <1>1
    <3> QED BY <2>6, <3>1 DEF Adjacent, Decides
  <2>7. AgreeOnUser'
    <3>1. ASSUME Settled(0)' PROVE user' = account
      <4>1. Settled(1)
        BY <1>1, <2>5, <3>1
      <4>2. CASE Decides(m)
        BY <1>1, <2>2, <2>3, <4>1, <4>2
      <4>3. CASE ~Decides(m)
        <5>1. Settled(0)
          BY <1>1, <4>1, <4>3 DEF Settled
        <5> QED BY <2>2, <2>3, <4>3, <5>1
      <4> QED BY <4>2, <4>3
    <3>2. ASSUME NEW i \in 1 .. n, Decides(down'[i]), Settled(i)'
          PROVE  down'[i].user = account
      <4>1. i + 1 \in 1 .. Len(down) /\ down'[i] = down[i + 1] /\ Settled(i + 1)
        BY <1>1, <2>5, <3>2
      <4> QED BY <2>3, <3>2, <4>1
    <3> QED BY <1>1, <3>1, <3>2 DEF AgreeOnUser, Decides
  <2>8. Alternate'
    <3>1. ASSUME NEW k \in 1 .. n, Decides(down'[k]), Adjacent(0, k)'
          PROVE  Finds(down'[k], user')
      <4>1. k + 1 \in 1 .. Len(down) /\ down'[k] = down[k + 1] /\ Adjacent(1, k + 1)
        BY <1>1, <2>6, <3>1
      <4>2. CASE Decides(m)
        <5>1. 1 \in 1 .. Len(down) /\ 1 < k + 1
          BY <1>1
        <5> QED BY <2>2, <2>4, <3>1, <4>1, <4>2, <5>1
      <4>3. CASE ~Decides(m)
        <5>1. Adjacent(0, k + 1)
          BY <1>1, <4>1, <4>3 DEF Adjacent
        <5> QED BY <2>2, <2>4, <3>1, <4>1, <4>3, <5>1
      <4> QED BY <4>2, <4>3
    <3>2. ASSUME NEW k \in 1 .. n, Decides(down'[k]), NEW i \in 1 .. n, i < k,
                 Decides(down'[i]), Adjacent(i, k)'
          PROVE  Finds(down'[k], down'[i].user)
      <4>1. /\ k + 1 \in 1 .. Len(down) /\ down'[k] = down[k + 1]
            /\ i + 1 \in 1 .. Len(down) /\ down'[i] = down[i + 1]
            /\ i + 1 < k + 1 /\ Adjacent(i + 1, k + 1)
        BY <1>1, <2>6, <3>2
      <4> QED BY <2>4, <3>2, <4>1
    <3> QED BY <1>1, <3>1, <3>2 DEF Alternate, Decides, Finds
  <2> QED BY <2>7, <2>8
<1>6. AgreeOnUser' /\ Alternate'
  BY <1>5 DEF AgreeOnUser, Alternate
<1> QED BY <1>3, <1>4, <1>6 DEF AgreeInv

\* What the server's answer makes of the sequence of replies.
LEMMA ServeAppends ==
    ASSUME SessionTypeOK, MessagesFit, Serve
    PROVE  \E m \in Reply :
             /\ Fits(m) /\ down' = Append(down, m) /\ Len(down) \in Nat
             /\ account' = IF Decides(m) THEN m.user ELSE account
             /\ Decides(m) => Finds(m, account)
             /\ up # << >> /\ up' = Tail(up) /\ m.proc = up[1].proc
             /\ changed' = IF m.ok /\ m.proc = "step3"
                            THEN changed \cup ({up[1].from} \cap Alive) ELSE changed
<1> DEFINE r == Head(up)
<1>1. up # << >> /\ r = up[1] /\ r \in Request /\ Fits(r) /\ up' = Tail(up)
  BY DEF SessionTypeOK, MessagesFit, Serve
<1>2. PICK ok \in Verdicts(r) :
        /\ down' = Append(down, [proc |-> r.proc, user |-> r.user, ok |-> ok])
        /\ account' = IF ok /\ r.proc \in {"login", "logout"} THEN r.user ELSE account
        /\ changed' = IF ok /\ r.proc = "step3" THEN changed \cup ({r.from} \cap Alive) ELSE changed
  BY DEF Serve
<1> DEFINE m == [proc |-> r.proc, user |-> r.user, ok |-> ok]
<1>3. ok \in BOOLEAN
  BY DEF Verdicts
<1>4. m \in Reply /\ Fits(m)
  BY <1>1, <1>3 DEF Request, Reply, Fits
<1>5. Decides(m) => Finds(m, account)
  <2> SUFFICES ASSUME Decides(m) PROVE Finds(m, account)
    OBVIOUS
  <2>1. CASE r.proc = "login"
    BY <1>2, <2>1 DEF Verdicts, Finds, Decides
  <2>2. CASE r.proc = "logout"
    BY <1>2, <2>2 DEF Verdicts, Finds, Decides
  <2> QED BY <2>1, <2>2 DEF Decides
<1>6. account' = IF Decides(m) THEN m.user ELSE account
  BY <1>2 DEF Decides
<1>7. changed' = IF m.ok /\ m.proc = "step3"
                 THEN changed \cup ({up[1].from} \cap Alive) ELSE changed
  BY <1>1, <1>2
<1>8. Len(down) \in Nat
  BY DEF SessionTypeOK
<1> QED BY <1>1, <1>2, <1>4, <1>5, <1>6, <1>7, <1>8

LEMMA ServeAgrees ==
    ASSUME SessionTypeOK, AgreeInv, Serve
    PROVE  AgreeInv'
<1>1. PICK m \in Reply :
        /\ Fits(m) /\ down' = Append(down, m) /\ Len(down) \in Nat
        /\ account' = IF Decides(m) THEN m.user ELSE account
        /\ Decides(m) => Finds(m, account)
        /\ up # << >> /\ up' = Tail(up)
  BY ServeAppends DEF AgreeInv
<1> DEFINE n == Len(down)
<1>2. /\ n \in Nat /\ Len(down') = n + 1 /\ down'[n + 1] = m
      /\ \A i \in 1 .. n : down'[i] = down[i]
  BY <1>1 DEF SessionTypeOK
<1>3. user' = user /\ outlived' = outlived /\ crash' = crash
  BY DEF Serve, clientVars, history
<1>4. MessagesFit'
  <2>1. \A i \in 1 .. Len(up') : up'[i] = up[i + 1] /\ i + 1 \in 1 .. Len(up)
    BY <1>1 DEF SessionTypeOK
  <2>2. \A i \in 1 .. Len(up') : Fits(up'[i])
    BY <2>1 DEF AgreeInv, MessagesFit
  <2>3. \A i \in 1 .. Len(down') : Fits(down'[i])
    BY <1>1, <1>2 DEF AgreeInv, MessagesFit
  <2> QED BY <2>2, <2>3 DEF MessagesFit, Fits
<1>5. FatalOnlyWhenOutlived'
  BY <1>3 DEF AgreeInv, FatalOnlyWhenOutlived
<1>6. ASSUME crash' = "none", ~outlived'
      PROVE  AgreeOnUser' /\ Alternate'
  <2>1. /\ Settled(0) => user = account
        /\ \A i \in 1 .. n : Decides(down[i]) /\ Settled(i) => down[i].user = account
    BY <1>3, <1>6 DEF AgreeInv, AgreeOnUser
  <2>2. \A k \in 1 .. n : Decides(down[k]) =>
            /\ Adjacent(0, k) => Finds(down[k], user)
            /\ \A i \in 1 .. n :
                  i < k /\ Decides(down[i]) /\ Adjacent(i, k) => Finds(down[k], down[i].user)
    BY <1>3, <1>6 DEF AgreeInv, Alternate
  <2>3. ASSUME NEW i \in 0 .. n, Settled(i)'
        PROVE  Settled(i) /\ ~Decides(m)
    <3>1. n + 1 \in i + 1 .. Len(down')
      BY <1>2
    <3>2. \A j \in i + 1 .. n : j \in i + 1 .. Len(down') /\ down'[j] = down[j]
      BY <1>2
    <3> QED BY <1>2, <2>3, <3>1, <3>2 DEF Settled, Decides
  <2>4. ASSUME NEW i \in 0 .. n, NEW k \in 1 .. n, Adjacent(i, k)'
        PROVE  Adjacent(i, k)
    BY <1>2, <2>4 DEF Adjacent, Decides
  <2>5. ASSUME NEW i \in 0 .. n, NEW k \in 1 .. n + 1, k = n + 1, Adjacent(i, k)'
        PROVE  Settled(i)
    BY <1>2, <2>5 DEF Adjacent, Settled, Decides
  <2>6. AgreeOnUser'
    <3>1. ASSUME Settled(0)' PROVE user = account'
      BY <1>1, <1>2, <2>1, <2>3, <3>1
    <3>2. ASSUME NEW i \in 1 .. n + 1, Decides(down'[i]), Settled(i)'
          PROVE  down'[i].user = account'
      <4>1. CASE i = n + 1
        BY <1>1, <1>2, <3>2, <4>1
      <4>2. CASE i \in 1 .. n
        <5>1. down'[i] = down[i] /\ Settled(i) /\ ~Decides(m)
          BY <1>2, <2>3, <3>2, <4>2
        <5> QED BY <1>1, <2>1, <3>2, <4>2, <5>1
      <4> QED BY <1>2, <4>1, <4>2
    <3> QED BY <1>2, <1>3, <3>1, <3>2 DEF AgreeOnUser, Decides
  <2>7. Alternate'
    <3>1. ASSUME NEW k \in 1 .. n + 1, Decides(down'[k]), Adjacent(0, k)'
          PROVE  Finds(down'[k], user)
      <4>1. CASE k = n + 1
        <5>1. Settled(0)
          BY <1>2, <2>5, <3>1, <4>1
        <5> QED BY <1>1, <1>2, <2>1, <3>1, <4>1, <5>1
      <4>2. CASE k \in 1 .. n
        <5>1. down'[k] = down[k] /\ Adjacent(0, k)
          BY <1>2, <2>4, <3>1, <4>2
        <5> QED BY <2>2, <3>1, <4>2, <5>1
      <4> QED BY <1>2, <4>1, <4>2
    <3>2. ASSUME NEW k \in 1 .. n + 1, Decides(down'[k]), NEW i \in 1 .. n + 1, i < k,
                 Decides(down'[i]), Adjacent(i, k)'
          PROVE  Finds(down'[k], down'[i].user)
      <4>0. i \in 1 .. n /\ down'[i] = down[i]
        BY <1>2, <3>2
      <4>1. CASE k = n + 1
        <5>1. Settled(i)
          BY <1>2, <2>5, <3>2, <4>0, <4>1
        <5> QED BY <1>1, <1>2, <2>1, <3>2, <4>0, <4>1, <5>1
      <4>2. CASE k \in 1 .. n
        <5>1. down'[k] = down[k] /\ Adjacent(i, k)
          BY <1>2, <2>4, <3>2, <4>0, <4>2
        <5> QED BY <2>2, <3>2, <4>0, <4>2, <5>1
      <4> QED BY <1>2, <4>1, <4>2
    <3> QED BY <1>2, <1>3, <3>1, <3>2 DEF Alternate, Decides, Finds
  <2> QED BY <2>6, <2>7
<1>7. AgreeOnUser' /\ Alternate'
  BY <1>6 DEF AgreeOnUser, Alternate
<1> QED BY <1>4, <1>5, <1>7 DEF AgreeInv

LEMMA AgreeStep ==
    ASSUME SessionTypeOK, AgreeInv, [Next]_vars
    PROVE  AgreeInv'
<1> USE DEF Running, clientVars, pageVars, dialogVars, serverVars, netVars, history
<1>0. MessagesFit
  BY DEF AgreeInv
<1>1. CASE ClickJoin
  BY <1>0, <1>1, AgreeFrame DEF ClickJoin, MessagesFit
<1>2. CASE ClickLogout
  <2>1. \A i \in 1 .. Len(up') : Fits(up'[i])
    BY <1>0, <1>2, SendFits DEF ClickLogout, Request, Fits
  <2> QED BY <1>2, <2>1, AgreeFrame DEF ClickLogout
<1>3. CASE triggerPopUp
  <2>1. crash' = crash \/ crash' = "freed"
    BY <1>3 DEF triggerPopUp, Swap
  <2> QED BY <1>0, <1>3, <2>1, AgreeFrame DEF triggerPopUp, MessagesFit
<1>15. CASE ClickPopUp
  <2>1. crash' = crash \/ crash' = "freed"
    BY <1>15 DEF ClickPopUp, Swap
  <2> QED BY <1>0, <1>15, <2>1, AgreeFrame DEF ClickPopUp, MessagesFit
<1>4. ASSUME NEW d \in Dialogs, ClickLogin(d) PROVE AgreeInv'
  BY <1>0, <1>4, AgreeFrame DEF ClickLogin, MessagesFit
<1>16. ASSUME NEW d \in Dialogs, ClickPopUpFirst(d) PROVE AgreeInv'
  BY <1>0, <1>16, AgreeFrame DEF ClickPopUpFirst, MessagesFit
<1>5. ASSUME NEW d \in Dialogs, showRecoveryPage(d) \/ Back(d) \/ showHomepage(d)
      PROVE  AgreeInv'
  <2>1. UNCHANGED <<clientVars, serverVars, netVars, history, crash>>
    BY <1>5 DEF showRecoveryPage, Back, showHomepage, TurnTo
  <2> QED BY <1>0, <2>1, AgreeFrame DEF MessagesFit
<1>6. ASSUME NEW d \in Dialogs, Dismiss(d) PROVE AgreeInv'
  BY <1>0, <1>6, AgreeFrame DEF Dismiss, MessagesFit
<1>7. ASSUME NEW d \in Dialogs, NEW p \in Calls, NEW u \in Users, PressOK(d, p, u)
      PROVE  AgreeInv'
  <2> DEFINE r == [proc |-> p, user |-> IF p = "login" THEN u ELSE Nobody,
                    from |-> IF p = "step3" THEN d ELSE Nobody]
  <2>1. r \in Request /\ Send(r) /\ Fits(r)
    BY <1>7 DEF PressOK, Call, Request, Fits, Calls
  <2>2. \A i \in 1 .. Len(up') : Fits(up'[i])
    BY <1>0, <2>1, SendFits
  <2> QED BY <1>7, <2>2, AgreeFrame DEF PressOK
<1>8. CASE LoginRequired
  BY <1>0, <1>8, AgreeFrame DEF LoginRequired, MessagesFit
<1>9. CASE Return
  <2>1. crash' = crash \/ crash' = "freed"
    BY <1>9 DEF Return, Swap
  <2> QED BY <1>0, <1>9, <2>1, AgreeFrame DEF Return, MessagesFit
<1>10. CASE Deliver
  BY <1>10, DeliverAgrees
<1>11. CASE Serve
  BY <1>11, ServeAgrees
<1>12. CASE onError
  <2>1. /\ up' = << >> /\ down' = << >> /\ account' = Nobody /\ user' = user /\ crash' = crash
        /\ ~outlived' => ~outlived /\ user = Nobody
    BY <1>12 DEF onError
  <2>2. MessagesFit' /\ AgreeOnUser' /\ Alternate'
    BY <2>1 DEF MessagesFit, AgreeOnUser, Alternate
  <2>3. FatalOnlyWhenOutlived'
    BY <2>1 DEF AgreeInv, FatalOnlyWhenOutlived
  <2> QED BY <2>2, <2>3 DEF AgreeInv
<1>13. CASE Reconnect
  BY <1>0, <1>13, AgreeFrame DEF Reconnect, MessagesFit
<1>14. CASE UNCHANGED vars
  BY <1>0, <1>14, AgreeFrame DEF vars, MessagesFit
<1> QED BY <1>1, <1>2, <1>3, <1>4, <1>5, <1>6, <1>7, <1>8, <1>9, <1>10, <1>11, <1>12,
           <1>13, <1>14, <1>15, <1>16 DEF Next

LEMMA AgreeInit ==
    ASSUME Init PROVE AgreeInv
BY DEF Init, AgreeInv, MessagesFit, Alternate, AgreeOnUser, FatalOnlyWhenOutlived

LEMMA Agreement == Spec => [](SessionTypeOK /\ AgreeInv)
<1>1. Init => SessionTypeOK /\ AgreeInv
  BY TypeInit, AgreeInit
<1>2. (SessionTypeOK /\ AgreeInv) /\ [Next]_vars => (SessionTypeOK /\ AgreeInv)'
  BY TypeStep, AgreeStep
<1> QED BY <1>1, <1>2, PTL DEF Spec

\* While no user has outlived a connection, the replies in flight lead the
\* client to the user the server has (AgreeOnUser), for any users and dialogs.
THEOREM AgreeOnUserCorrect == Spec => []AgreeOnUser
BY Agreement, PTL DEF AgreeInv

\* Nor does the models' qFatal end the program before that.
THEOREM FatalOnlyWhenOutlivedCorrect == Spec => []FatalOnlyWhenOutlived
BY Agreement, PTL DEF AgreeInv

-----------------------------------------------------------------------------
(* Nothing freed *)

LEMMA OpenKeeps ==
    ASSUME SessionTypeOK, NEW d \in Dialogs, openAuthorizationDialog(d)
    PROVE  /\ Alive' = Alive \cup {d} /\ d \notin Alive
           /\ NoTwice => NoTwice'
           /\ \A p \in Calls : waiting[p][d] = 0
<1> DEFINE n == Len(stack)
<1>1. n \in Nat /\ Len(stack') = n + 1 /\ stack'[n + 1] = d
      /\ \A i \in 1 .. n : stack'[i] = stack[i]
  BY DEF SessionTypeOK, openAuthorizationDialog
<1>2. d \notin Alive
  BY DEF openAuthorizationDialog, Fresh
<1>3. Alive' = Alive \cup {d}
  BY <1>1 DEF Alive
<1>4. ASSUME NoTwice PROVE NoTwice'
  BY <1>1, <1>2, <1>4 DEF NoTwice, Alive
<1>5. \A p \in Calls : waiting[p][d] = 0
  BY DEF SessionTypeOK, openAuthorizationDialog, Fresh, Waits
<1> QED BY <1>2, <1>3, <1>4, <1>5

\* The dialog on top goes, and is the only one that can.
LEMMA ReturnKeeps ==
    ASSUME SessionTypeOK, Return
    PROVE  LET d == stack[Len(stack)] IN
           /\ d \in Dialogs /\ d \in closed
           /\ \A e \in Alive : e # d => e \in Alive'
           /\ Alive' \subseteq Alive
           /\ NoTwice => NoTwice' /\ d \notin Alive'
<1> DEFINE n == Len(stack)
<1>1. n \in Nat /\ n # 0 /\ stack[n] \in Dialogs /\ stack[n] \in closed
  BY DEF SessionTypeOK, Return
<1>2. stack' = SubSeq(stack, 1, n - 1)
  BY DEF Return
<1>3. Len(stack') = n - 1 /\ \A i \in 1 .. n - 1 : stack'[i] = stack[i]
  <2>1. \A i \in 1 .. n - 1 : stack[i] \in Dialogs
    BY <1>1 DEF SessionTypeOK
  <2>2. /\ Len(SubSeq(stack, 1, n - 1)) = IF 1 <= n - 1 THEN n - 1 - 1 + 1 ELSE 0
        /\ \A i \in 1 .. n - 1 - 1 + 1 : SubSeq(stack, 1, n - 1)[i] = stack[1 + i - 1]
    BY <1>1, <2>1, SubSeqProperties
  <2>3. \A i \in 1 .. n - 1 : i \in 1 .. n - 1 - 1 + 1 /\ 1 + i - 1 = i
    BY <1>1
  <2> HIDE DEF n
  <2>4. (IF 1 <= n - 1 THEN n - 1 - 1 + 1 ELSE 0) = n - 1
    <3>1. n \in Nat /\ n >= 1
      BY <1>1
    <3> QED BY <3>1
  <2> QED BY <1>2, <2>2, <2>3, <2>4
<1>4. \A e \in Alive : e # stack[n] => e \in Alive'
  BY <1>1, <1>3 DEF Alive
<1>5. Alive' \subseteq Alive
  BY <1>1, <1>3 DEF Alive
<1>6. ASSUME NoTwice PROVE NoTwice' /\ stack[n] \notin Alive'
  BY <1>1, <1>3, <1>6 DEF NoTwice, Alive
<1> QED BY <1>1, <1>4, <1>5, <1>6

LEMMA SwapKeeps ==
    ASSUME popup # "freed", NEW n \in {"none", "live"}, Swap(n)
    PROVE  popup' # "freed" /\ crash' = crash
BY DEF Swap

LEMMA KeptStep ==
    ASSUME SessionTypeOK, Kept, [Next]_vars
    PROVE  Kept'
<1> USE DEF Running, clientVars, pageVars, dialogVars, serverVars, netVars, history
<1> SUFFICES ASSUME ~left'
             PROVE  /\ popup' # "freed" /\ crash' # "freed"
                    /\ \A p \in Calls, d \in Dialogs :
                          waiting'[p][d] > 0 => d \in Alive' /\ d \notin closed'
  BY DEF Kept
<1>0. ASSUME ~left
      PROVE  /\ popup # "freed" /\ crash # "freed"
             /\ \A p \in Calls, d \in Dialogs :
                   waiting[p][d] > 0 => d \in Alive /\ d \notin closed
  BY <1>0 DEF Kept
<1>1. CASE ClickJoin \/ ClickLogout \/ Reconnect \/ UNCHANGED vars
  BY <1>0, <1>1 DEF ClickJoin, ClickLogout, Reconnect, vars, Alive
<1>2. CASE triggerPopUp \/ ClickPopUp
  BY <1>0, <1>2, SwapKeeps DEF triggerPopUp, ClickPopUp, Alive
<1>3. ASSUME NEW d \in Dialogs, ClickLogin(d) \/ ClickPopUpFirst(d)
      PROVE  Kept'
  <2>1. openAuthorizationDialog(d) /\ UNCHANGED <<popup, closed, waiting, left, crash>>
    BY <1>3 DEF ClickLogin, ClickPopUpFirst
  <2> QED BY <1>0, <2>1, OpenKeeps DEF Kept
<1>4. ASSUME NEW d \in Dialogs, showRecoveryPage(d) \/ Back(d) \/ showHomepage(d)
      PROVE  Kept'
  <2>1. UNCHANGED <<popup, stack, closed, waiting, left, crash>>
    BY <1>4 DEF showRecoveryPage, Back, showHomepage, TurnTo
  <2> QED BY <1>0, <2>1 DEF Kept, Alive
<1>5. ASSUME NEW d \in Dialogs, Dismiss(d)
      PROVE  Kept'
  <2>1. /\ UNCHANGED <<popup, stack, waiting, crash>> /\ closed' = closed \cup {d}
        /\ left' = (left \/ \E p \in Calls : d \in Waits(p))
    BY <1>5 DEF Dismiss
  <2>2. ~left /\ \A p \in Calls : ~(waiting[p][d] > 0)
    BY <2>1 DEF Waits
  <2> QED BY <1>0, <2>1, <2>2 DEF Kept, Alive
<1>6. ASSUME NEW d \in Dialogs, NEW p \in Calls, NEW u \in Users, PressOK(d, p, u)
      PROVE  Kept'
  <2>1. /\ UNCHANGED <<popup, stack, closed, left, crash>>
        /\ waiting' = [waiting EXCEPT ![p][d] = @ + 1]
        /\ d \in Alive /\ d \notin closed
    BY <1>6 DEF PressOK, Call, Top, Alive, SessionTypeOK
  <2>2. \A q \in Calls, e \in Dialogs : waiting'[q][e] > 0 => waiting[q][e] > 0 \/ e = d
    BY <2>1 DEF SessionTypeOK
  <2> QED BY <1>0, <2>1, <2>2 DEF Kept, Alive
<1>7. CASE LoginRequired
  <2>1. UNCHANGED <<popup, closed, waiting, left, crash>>
    BY <1>7 DEF LoginRequired
  <2>2. Alive \subseteq Alive'
    BY <1>7, OpenKeeps DEF LoginRequired, Alive
  <2> QED BY <1>0, <2>1, <2>2
<1>8. CASE Return
  <2> DEFINE d == stack[Len(stack)]
  <2>1. UNCHANGED <<waiting, left>> /\ closed' = closed \ {d}
    BY <1>8 DEF Return
  <2>2. popup' # "freed" /\ crash' = crash
    BY <1>0, <1>8, <2>1, SwapKeeps DEF Return
  <2>3. d \in closed /\ \A e \in Alive : e # d => e \in Alive'
    BY <1>8, ReturnKeeps
  <2> QED BY <1>0, <2>1, <2>2, <2>3
<1>9. CASE Deliver
  <2> DEFINE m == Head(down)
  <2>1. ~left
    BY <1>9 DEF Deliver
  <2>2. CASE Fatal(m)
    BY <1>0, <1>9, <2>1, <2>2 DEF Deliver, Alive
  <2>3. CASE ~Fatal(m)
    <3>1. /\ popup' = IF m.proc = "logout" /\ m.ok /\ popup = "live" THEN "freed" ELSE popup
          /\ ~Leaves(m) /\ stack' = stack
      BY <1>9, <2>3 DEF Deliver
    <3>2. popup' # "freed"
      BY <1>0, <2>1, <3>1 DEF Leaves
    <3>3. CASE m.proc \notin Calls
      BY <1>0, <1>9, <2>1, <2>3, <3>1, <3>2, <3>3 DEF Deliver, Alive
    <3>4. CASE m.proc \in Calls
      <4>1. Answer(m.proc, m.ok)
        BY <1>9, <2>3, <3>4 DEF Deliver
      <4>2. \A q \in Calls, e \in Dialogs :
               waiting'[q][e] > 0 => q # m.proc /\ waiting[q][e] > 0
        BY <3>4, <4>1 DEF Answer, SessionTypeOK
      <4>3. Waits(m.proc) \subseteq Alive
        BY <1>0, <2>1, <3>4 DEF Waits
      <4>4. crash' # "freed"
        BY <1>0, <2>1, <4>1, <4>3 DEF Answer
      <4>5. ASSUME NEW q \in Calls, NEW e \in Dialogs, waiting'[q][e] > 0
            PROVE  e \notin closed'
        <5>1. e \notin closed /\ q # m.proc /\ e \in Waits(q)
          BY <1>0, <2>1, <4>2, <4>5 DEF Waits
        <5>2. m.proc = "login" /\ m.ok => e \notin Waits("login")
          BY <3>1, <5>1 DEF Leaves
        <5> QED BY <4>1, <5>1, <5>2 DEF Answer
      <4> QED BY <1>0, <2>1, <3>1, <3>2, <4>2, <4>4, <4>5 DEF Alive
    <3> QED BY <3>3, <3>4
  <2> QED BY <2>2, <2>3
<1>10. CASE Serve
  BY <1>0, <1>10 DEF Serve, Alive
<1>11. CASE onError
  <2>1. UNCHANGED <<popup, stack, closed, waiting, left, crash>>
    BY <1>11 DEF onError
  <2> QED BY <1>0, <2>1 DEF Alive
<1>12. Kept' => /\ popup' # "freed" /\ crash' # "freed"
                /\ \A p \in Calls, d \in Dialogs :
                      waiting'[p][d] > 0 => d \in Alive' /\ d \notin closed'
  BY DEF Kept
<1> QED BY <1>1, <1>2, <1>3, <1>4, <1>5, <1>6, <1>7, <1>8, <1>9, <1>10, <1>11, <1>12 DEF Next

-----------------------------------------------------------------------------
(* No change of password made up *)

\* What turns no page, hears no reply and makes no call of a page
LEMMA PageFrame ==
    ASSUME SessionTypeOK, PageInv, Alive' = Alive, NoTwice',
           crash' = crash \/ crash' = "freed",
           UNCHANGED <<page, waiting, changed, repeated, down>>,
           \A i \in 1 .. Len(up') : up'[i].proc = "step3" =>
              \E j \in 1 .. Len(up) : up[j] = up'[i]
    PROVE  PageInv'
<1>1. GoneBlank'
  BY DEF PageInv, GoneBlank
<1>2. ASSUME NEW p \in Turning, NEW d \in Dialogs, Own(p, d)
      PROVE  Own(p, d)'
  BY <1>2 DEF Own
<1>3. Alive \subseteq Dialogs
  BY DEF Alive, SessionTypeOK
<1>4. Unrepeated'
  BY <1>2, <1>3 DEF PageInv, Unrepeated, Ahead
<1> QED BY <1>1, <1>4 DEF PageInv

\* A new dialog starts on the first page, and waits for nothing.
LEMMA OpenPages ==
    ASSUME SessionTypeOK, PageInv, crash # "freed", NEW d \in Dialogs,
           openAuthorizationDialog(d), crash' = crash,
           UNCHANGED <<page, waiting, changed, repeated, up, down>>
    PROVE  PageInv'
<1>1. /\ Alive' = Alive \cup {d} /\ d \notin Alive /\ NoTwice'
      /\ \A p \in Calls : waiting[p][d] = 0
  BY OpenKeeps DEF PageInv
<1>2. page[d] = 0
  BY <1>1 DEF PageInv, GoneBlank
<1>3. GoneBlank'
  BY <1>1 DEF PageInv, GoneBlank
<1>4. Ahead(d)'
  BY <1>2 DEF Ahead, LastPage
<1>5. Unrepeated'
  BY <1>1, <1>4 DEF PageInv, Unrepeated, Own, Ahead, Turning, Calls
<1> QED BY <1>1, <1>3, <1>5 DEF PageInv

\* A page is turned back, or to the first of the recovery.
LEMMA TurnPages ==
    ASSUME SessionTypeOK, PageInv, NEW d \in Dialogs, Top(d),
           showRecoveryPage(d) \/ Back(d) \/ showHomepage(d)
    PROVE  PageInv'
<1>1. PICK n \in 0 .. LastPage, c \in 0 .. 2 : TurnTo(d, n, c) /\ (n < page[d] \/ n < 2)
      /\ (n = LastPage - 1 => page[d] = LastPage)
  <2>1. page[d] \in 0 .. LastPage
    BY DEF SessionTypeOK
  <2>2. CASE showRecoveryPage(d)
    BY <2>2 DEF showRecoveryPage, LastPage
  <2>3. CASE Back(d)
    BY <2>1, <2>3 DEF Back, LastPage
  <2>4. CASE showHomepage(d)
    BY <2>4 DEF showHomepage, LastPage
  <2> QED BY <2>2, <2>3, <2>4
<1>2. /\ UNCHANGED <<stack, waiting, changed, repeated, up, down, crash>>
      /\ page' = [page EXCEPT ![d] = n]
  BY <1>1 DEF TurnTo, serverVars, netVars, history
<1>3. Alive' = Alive /\ d \in Alive /\ Alive \subseteq Dialogs
  BY <1>2 DEF Alive, Top, SessionTypeOK
<1>4. NoTwice' /\ GoneBlank'
  BY <1>2, <1>3 DEF PageInv, NoTwice, GoneBlank, SessionTypeOK
<1>5. ASSUME NEW e \in Alive, e \notin repeated
      PROVE  /\ \A p \in Turning : waiting[p][e] > 0 => Own(p, e)'
             /\ Ahead(e)'
  <2>1. \A p \in Turning : waiting[p][e] > 0 => Own(p, e)
    BY <1>5 DEF PageInv, Unrepeated
  <2>2. Ahead(e)
    BY <1>5 DEF PageInv, Unrepeated
  <2>3. \A p \in Turning : waiting[p][e] > 0 => Own(p, e)'
    BY <1>2, <2>1 DEF Own
  <2>4. page[d] \in 0 .. LastPage
    BY DEF SessionTypeOK
  <2>5. CASE e = d
    BY <1>1, <1>2, <2>2, <2>3, <2>4, <2>5 DEF Ahead, LastPage, SessionTypeOK
  <2>6. CASE e # d
    BY <1>2, <1>3, <2>2, <2>3, <2>6 DEF Ahead, SessionTypeOK
  <2> QED BY <2>3, <2>5, <2>6
<1>6. Unrepeated'
  BY <1>2, <1>3, <1>5 DEF Unrepeated
<1> QED BY <1>4, <1>6 DEF PageInv

\* A call that meets none of its procedure has it to itself.
LEMMA PressPages ==
    ASSUME SessionTypeOK, PageInv, NEW d \in Dialogs, NEW p \in Calls, NEW u \in Users,
           PressOK(d, p, u)
    PROVE  PageInv'
<1> DEFINE r == [proc |-> p, user |-> IF p = "login" THEN u ELSE Nobody,
                 from |-> IF p = "step3" THEN d ELSE Nobody]
<1>1. /\ UNCHANGED <<stack, page, changed, down, crash>>
      /\ waiting' = [waiting EXCEPT ![p][d] = @ + 1]
      /\ repeated' = IF p \in Turning /\ Busy(p)
                     THEN repeated \cup (Waits(p) \cap Alive) \cup {d} ELSE repeated
      /\ up' = Append(up, r) \/ up' = up
      /\ d \in Alive /\ Pressable(d, p)
  BY DEF PressOK, Call, Send, Top, Alive, SessionTypeOK, pageVars, serverVars
<1>2. Alive' = Alive /\ Alive \subseteq Dialogs
  BY <1>1 DEF Alive, SessionTypeOK
<1>3. NoTwice' /\ GoneBlank'
  BY <1>1, <1>2 DEF PageInv, NoTwice, GoneBlank
<1>4. \A q \in Calls, e \in Dialogs :
        waiting'[q][e] = IF q = p /\ e = d THEN waiting[q][e] + 1 ELSE waiting[q][e]
  BY <1>1 DEF SessionTypeOK
<1>5. \A i \in 1 .. Len(up') : up'[i] = r \/ \E j \in 1 .. Len(up) : up[j] = up'[i]
  <2>1. CASE up' = up
    BY <2>1
  <2>2. CASE up' = Append(up, r)
    <3>1. /\ Len(up) \in Nat /\ Len(up') = Len(up) + 1 /\ up'[Len(up) + 1] = r
          /\ \A i \in 1 .. Len(up) : up'[i] = up[i]
      BY <2>2 DEF SessionTypeOK
    <3> QED BY <3>1
  <2> QED BY <1>1, <2>1, <2>2
<1>6. ASSUME NEW e \in Alive, e \notin repeated'
      PROVE  /\ \A q \in Turning : waiting'[q][e] > 0 => Own(q, e)'
             /\ Ahead(e)'
  <2>1. e \notin repeated /\ e \in Dialogs
    BY <1>1, <1>2, <1>6
  <2>2. Ahead(e) /\ \A q \in Turning : waiting[q][e] > 0 => Own(q, e)
    BY <1>6, <2>1 DEF PageInv, Unrepeated
  <2>3. ASSUME NEW q \in Turning, waiting'[q][e] > 0
        PROVE  Own(q, e)'
    <3>0. q \in Calls
      BY DEF Turning, Calls
    <3>1. CASE q # p
      <4>1. waiting'[q] = waiting[q]
        BY <1>1, <3>0, <3>1 DEF SessionTypeOK
      <4>2. Own(q, e)
        BY <2>2, <2>3, <4>1
      <4>3. \A i \in 1 .. Len(up') : up'[i].proc = q => \E j \in 1 .. Len(up) : up[j] = up'[i]
        BY <1>5, <3>1
      <4> QED BY <1>1, <4>1, <4>2, <4>3 DEF Own
    <3>2. CASE q = p /\ e = d
      <4>1. ~Busy(p)
        BY <1>1, <1>6, <3>2
      <4>2. \A f \in Dialogs : waiting[p][f] = 0
        BY <4>1 DEF Busy, Waits, SessionTypeOK
      <4>3. /\ \A i \in 1 .. Len(up) : up[i].proc # p
            /\ \A i \in 1 .. Len(down) : down[i].proc # p
        BY <4>1 DEF Busy
      <4>4. waiting'[p][d] = 1 /\ \A f \in Dialogs : f # d => waiting'[p][f] = 0
        BY <1>4, <4>2
      <4>5. p = "step3" => \A i \in 1 .. Len(up') : up'[i].proc = p => up'[i].from = d
        BY <1>5, <4>3
      <4> QED BY <1>1, <3>2, <4>3, <4>4, <4>5 DEF Own
    <3>3. CASE q = p /\ e # d
      <4>1. e \in Waits(p)
        BY <1>4, <2>1, <2>3, <3>0, <3>3 DEF Waits
      <4>2. Busy(p)
        BY <4>1 DEF Busy
      <4> QED BY <1>1, <1>6, <3>3, <4>1, <4>2
    <3> QED BY <3>1, <3>2, <3>3
  <2>4. Ahead(e)'
    <3>1. CASE p = "step2" /\ e = d
      <4>1. page[d] = 2
        BY <1>1, <3>1 DEF Pressable
      <4> QED BY <1>1, <3>1, <4>1 DEF Ahead, LastPage
    <3>2. CASE ~(p = "step2" /\ e = d)
      <4>1. waiting'["step2"][e] = waiting["step2"][e]
        BY <1>4, <2>1, <3>2 DEF Calls
      <4> QED BY <1>1, <2>2, <4>1 DEF Ahead
    <3> QED BY <3>1, <3>2
  <2> QED BY <2>3, <2>4
<1>7. Unrepeated'
  BY <1>2, <1>6 DEF Unrepeated
<1> QED BY <1>3, <1>7 DEF PageInv

\* A dialog that is gone takes its calls, its page and its password along.
LEMMA ReturnPages ==
    ASSUME SessionTypeOK, PageInv, Return
    PROVE  PageInv'
<1> DEFINE d == stack[Len(stack)]
<1>1. /\ d \in Dialogs /\ NoTwice' /\ d \notin Alive'
      /\ \A e \in Alive : e # d => e \in Alive'
      /\ Alive' \subseteq Alive
  BY ReturnKeeps DEF PageInv
<1>2. /\ page' = [page EXCEPT ![d] = 0]
      /\ changed' = changed \ {d} /\ repeated' = repeated \ {d}
      /\ UNCHANGED <<waiting, up, down>>
      /\ crash = "none"
  BY DEF Return, netVars, Running
<1> HIDE DEF d
<1>3. GoneBlank'
  BY <1>1, <1>2 DEF PageInv, GoneBlank, SessionTypeOK
<1>4. ASSUME NEW e \in Alive', e \notin repeated'
      PROVE  /\ \A p \in Turning : waiting[p][e] > 0 => Own(p, e)'
             /\ Ahead(e)'
  <2>0. Alive \subseteq Dialogs
    BY DEF Alive, SessionTypeOK
  <2>1. e \in Alive /\ e # d /\ e \notin repeated /\ e \in Dialogs
    BY <1>1, <1>2, <1>4, <2>0
  <2>2. Ahead(e) /\ \A p \in Turning : waiting[p][e] > 0 => Own(p, e)
    BY <2>1 DEF PageInv, Unrepeated
  <2>3. \A p \in Turning : waiting[p][e] > 0 => Own(p, e)'
    BY <1>2, <2>1, <2>2 DEF Own
  <2>4. Ahead(e)'
    BY <1>2, <2>1, <2>2 DEF Ahead, SessionTypeOK
  <2> QED BY <2>3, <2>4
<1>5. Unrepeated'
  BY <1>2, <1>4 DEF Unrepeated
<1> QED BY <1>1, <1>3, <1>5 DEF PageInv

\* A reply reaches an unrepeated dialog only as the reply to its own call.
LEMMA DeliverPages ==
    ASSUME SessionTypeOK, PageInv, Deliver
    PROVE  PageInv'
<1> DEFINE m == down[1]
<1>1. /\ Head(down) = m /\ m \in Reply /\ Len(down) \in Nat /\ 1 \in 1 .. Len(down)
      /\ \A i \in 1 .. Len(down') : down'[i] = down[i + 1] /\ i + 1 \in 1 .. Len(down)
      /\ up' = up
  BY DeliverShifts
<1>2. stack' = stack /\ changed' = changed /\ repeated' = repeated /\ crash = "none"
  BY DEF Deliver, Running, dialogVars, serverVars
<1>3. Alive' = Alive /\ Alive \subseteq Dialogs /\ NoTwice'
  BY <1>2 DEF Alive, SessionTypeOK, PageInv, NoTwice
<1>4. ASSUME NEW p \in Turning, NEW d \in Dialogs, Own(p, d), waiting'[p] = waiting[p]
      PROVE  Own(p, d)'
  BY <1>1, <1>2, <1>4 DEF Own
<1>5. CASE UNCHANGED <<page, waiting>>
  <2>1. GoneBlank'
    BY <1>2, <1>3, <1>5 DEF PageInv, GoneBlank
  <2>2. Unrepeated'
    BY <1>2, <1>3, <1>4, <1>5 DEF PageInv, Unrepeated, Ahead
  <2> QED BY <1>3, <2>1, <2>2 DEF PageInv
<1>6. CASE m.proc \in Calls /\ Answer(m.proc, m.ok)
  <2> DEFINE p == m.proc
  <2>1. /\ \A d \in Dialogs : page'[d] = Landing(p, m.ok, page[d], waiting[p][d])
        /\ \A d \in Dialogs : waiting'[p][d] = 0
        /\ \A q \in Calls : q # p => waiting'[q] = waiting[q]
    BY <1>6 DEF Answer, SessionTypeOK
  <2>2. GoneBlank'
    <3> SUFFICES ASSUME crash' # "freed", NEW d \in Dialogs, d \notin Alive
                 PROVE  page'[d] = 0
      BY <1>3 DEF GoneBlank
    <3>1. Waits(p) \subseteq Alive
      BY <1>6 DEF Answer
    <3>2. waiting[p][d] = 0
      BY <1>6, <3>1 DEF Waits, SessionTypeOK
    <3>3. page[d] = 0
      BY <1>2 DEF PageInv, GoneBlank
    <3> QED BY <2>1, <3>2, <3>3 DEF Landing, Lands
  <2>3. ASSUME NEW d \in Alive, d \notin repeated
        PROVE  /\ \A q \in Turning : waiting'[q][d] > 0 => Own(q, d)'
               /\ Ahead(d)'
    <3>1. d \in Dialogs /\ Ahead(d) /\ \A q \in Turning : waiting[q][d] > 0 => Own(q, d)
      BY <1>3, <2>3 DEF PageInv, Unrepeated
    <3>2. \A q \in Turning : waiting'[q][d] > 0 => Own(q, d)'
      <4> SUFFICES ASSUME NEW q \in Turning, waiting'[q][d] > 0 PROVE Own(q, d)'
        OBVIOUS
      <4>1. q # p /\ waiting'[q] = waiting[q]
        BY <2>1, <3>1 DEF Turning, Calls
      <4> QED BY <1>4, <3>1, <4>1
    <3>3. page[d] \in 0 .. LastPage /\ waiting[p][d] \in Nat /\ waiting["step2"][d] \in Nat
      BY <1>6, <3>1 DEF SessionTypeOK, Calls
    <3>4. waiting'["step2"][d] > 0 => p # "step2" /\ waiting["step2"][d] > 0
      BY <2>1, <3>1 DEF Calls
    <3>5. ASSUME page'[d] = page[d] PROVE Ahead(d)'
      BY <1>2, <3>1, <3>4, <3>5 DEF Ahead
    <3>6. ASSUME page'[d] # page[d] PROVE Ahead(d)'
      <4>1. m.ok /\ waiting[p][d] > 0 /\ p # "login" /\ page'[d] = Lands(p, page[d], waiting[p][d])
        BY <2>1, <3>1, <3>3, <3>6 DEF Landing, Lands
      <4>2. CASE p = "step1"
        BY <4>1, <4>2 DEF Lands, Ahead, LastPage
      <4>3. CASE p = "step3"
        <5>1. Own(p, d)
          BY <3>1, <4>1, <4>3 DEF Turning
        <5>2. d \in changed
          BY <1>1, <4>1, <4>3, <5>1 DEF Own
        <5> QED BY <1>2, <5>2 DEF Ahead
      <4>4. CASE p = "step2"
        <5>1. waiting[p][d] = 1
          BY <3>1, <4>1, <4>4 DEF Turning, Own
        <5>2. page'[d] = IF page[d] + 1 <= LastPage THEN page[d] + 1 ELSE LastPage
          BY <4>1, <4>4, <5>1 DEF Lands
        <5>3. page'[d] = LastPage => page[d] = LastPage - 1
          BY <3>3, <3>6, <5>2 DEF LastPage
        <5>4. page'[d] = LastPage => d \in changed
          BY <3>1, <4>1, <4>4, <5>3 DEF Ahead
        <5> QED BY <1>2, <3>4, <4>4, <5>4 DEF Ahead
      <4> QED BY <1>6, <4>1, <4>2, <4>3, <4>4 DEF Calls
    <3> QED BY <3>2, <3>5, <3>6
  <2>4. Unrepeated'
    BY <1>2, <1>3, <2>3 DEF Unrepeated
  <2> QED BY <1>3, <2>2, <2>4 DEF PageInv
<1>7. UNCHANGED <<page, waiting>> \/ (m.proc \in Calls /\ Answer(m.proc, m.ok))
  BY <1>1 DEF Deliver, dialogVars, pageVars
<1> QED BY <1>5, <1>6, <1>7

\* The server changes the password of the dialog that asked.
LEMMA ServePages ==
    ASSUME SessionTypeOK, MessagesFit, PageInv, Serve
    PROVE  PageInv'
<1>1. PICK m \in Reply :
        /\ down' = Append(down, m)
        /\ up # << >> /\ up' = Tail(up) /\ m.proc = up[1].proc
        /\ changed' = IF m.ok /\ m.proc = "step3"
                       THEN changed \cup ({up[1].from} \cap Alive) ELSE changed
  BY ServeAppends
<1>2. UNCHANGED <<stack, page, waiting, repeated, crash>>
  BY DEF Serve, dialogVars, pageVars, history
<1>3. Alive' = Alive /\ Alive \subseteq Dialogs
  BY <1>2 DEF Alive, SessionTypeOK
<1>4. NoTwice' /\ GoneBlank'
  BY <1>2, <1>3 DEF PageInv, NoTwice, GoneBlank
<1>5. /\ \A i \in 1 .. Len(up') : up'[i] = up[i + 1] /\ i + 1 \in 1 .. Len(up)
      /\ 1 \in 1 .. Len(up)
  BY <1>1 DEF SessionTypeOK
<1>6. /\ Len(down) \in Nat /\ Len(down') = Len(down) + 1 /\ down'[Len(down) + 1] = m
      /\ \A i \in 1 .. Len(down) : down'[i] = down[i]
  BY <1>1 DEF SessionTypeOK
<1>7. ASSUME NEW p \in Turning, NEW d \in Alive, Own(p, d)
      PROVE  Own(p, d)'
  <2>1. CASE p = "step3"
    <3>1. \A i \in 1 .. Len(up') : up'[i].proc = p => up'[i].from = d
      BY <1>5, <1>7, <2>1 DEF Own
    <3>2. \A i \in 1 .. Len(down) : down[i].proc = p /\ down[i].ok => d \in changed'
      BY <1>1, <1>7, <2>1 DEF Own
    <3>3. m.proc = p /\ m.ok => d \in changed'
      BY <1>1, <1>5, <1>7, <2>1 DEF Own
    <3>4. \A i \in 1 .. Len(down') : down'[i].proc = p /\ down'[i].ok => d \in changed'
      BY <1>6, <3>2, <3>3
    <3> QED BY <1>2, <1>7, <3>1, <3>4 DEF Own
  <2>2. CASE p # "step3"
    BY <1>2, <1>7, <2>2 DEF Own
  <2> QED BY <2>1, <2>2
<1>8. \A d \in Dialogs : Ahead(d) => Ahead(d)'
  BY <1>1, <1>2 DEF Ahead
<1>9. Unrepeated'
  BY <1>2, <1>3, <1>7, <1>8 DEF PageInv, Unrepeated
<1> QED BY <1>4, <1>9 DEF PageInv

LEMMA PageStep ==
    ASSUME SessionTypeOK, MessagesFit, PageInv, [Next]_vars
    PROVE  PageInv'
<1> USE DEF Running, clientVars, pageVars, dialogVars, serverVars, netVars, history
<1>1. CASE ClickJoin \/ Reconnect \/ UNCHANGED vars
  BY <1>1, PageFrame DEF ClickJoin, Reconnect, vars, Alive, PageInv, NoTwice
<1>2. CASE ClickLogout
  <2> DEFINE r == [proc |-> "logout", user |-> Nobody, from |-> Nobody]
  <2>1. up' = up \/ up' = Append(up, r)
    BY <1>2 DEF ClickLogout, Send
  <2>2. \A i \in 1 .. Len(up') : up'[i].proc = "step3" => \E j \in 1 .. Len(up) : up[j] = up'[i]
    <3>1. CASE up' = up
      BY <3>1
    <3>2. CASE up' = Append(up, r)
      <4>1. /\ Len(up) \in Nat /\ Len(up') = Len(up) + 1 /\ up'[Len(up) + 1] = r
            /\ \A i \in 1 .. Len(up) : up'[i] = up[i]
        BY <3>2 DEF SessionTypeOK
      <4> QED BY <4>1
    <3> QED BY <2>1, <3>1, <3>2
  <2>3. UNCHANGED <<stack, page, waiting, changed, repeated, down, crash>>
    BY <1>2 DEF ClickLogout
  <2> QED BY <2>2, <2>3, PageFrame DEF Alive, PageInv, NoTwice
<1>3. CASE triggerPopUp \/ ClickPopUp
  <2>1. crash' = crash \/ crash' = "freed"
    BY <1>3 DEF triggerPopUp, ClickPopUp, Swap
  <2>2. UNCHANGED <<stack, page, waiting, changed, repeated, up, down>>
    BY <1>3 DEF triggerPopUp, ClickPopUp
  <2> QED BY <2>1, <2>2, PageFrame DEF Alive, PageInv, NoTwice
<1>4. ASSUME NEW d \in Dialogs, ClickLogin(d) \/ ClickPopUpFirst(d)
      PROVE  PageInv'
  BY <1>4, OpenPages DEF ClickLogin, ClickPopUpFirst
<1>5. ASSUME NEW d \in Dialogs, showRecoveryPage(d) \/ Back(d) \/ showHomepage(d)
      PROVE  PageInv'
  <2>1. Top(d)
    BY <1>5 DEF showRecoveryPage, Back, showHomepage
  <2> QED BY <1>5, <2>1, TurnPages
<1>6. ASSUME NEW d \in Dialogs, Dismiss(d)
      PROVE  PageInv'
  BY <1>6, PageFrame DEF Dismiss, Alive, PageInv, NoTwice
<1>7. ASSUME NEW d \in Dialogs, NEW p \in Calls, NEW u \in Users, PressOK(d, p, u)
      PROVE  PageInv'
  BY <1>7, PressPages
<1>8. CASE LoginRequired
  <2>1. UNCHANGED <<page, waiting, changed, repeated, up, down, crash>> /\ crash = "none"
    BY <1>8 DEF LoginRequired
  <2>2. CASE user # Nobody
    BY <1>8, <2>1, <2>2, PageFrame DEF LoginRequired, Alive, PageInv, NoTwice
  <2>3. CASE user = Nobody
    BY <1>8, <2>1, <2>3, OpenPages DEF LoginRequired
  <2> QED BY <2>2, <2>3
<1>9. CASE Return \/ Deliver \/ Serve
  BY <1>9, ReturnPages, DeliverPages, ServePages
<1>10. CASE onError
  <2>1. UNCHANGED <<stack, page, waiting, changed, repeated, crash>> /\ up' = << >> /\ down' = << >>
    BY <1>10 DEF onError
  <2>2. Alive' = Alive /\ Alive \subseteq Dialogs /\ NoTwice' /\ GoneBlank'
    BY <2>1 DEF Alive, SessionTypeOK, PageInv, NoTwice, GoneBlank
  <2>3. \A p \in Turning, d \in Dialogs : Own(p, d) => Own(p, d)'
    BY <2>1 DEF Own
  <2>4. Unrepeated'
    BY <2>1, <2>2, <2>3 DEF PageInv, Unrepeated, Ahead
  <2> QED BY <2>2, <2>4 DEF PageInv
<1> QED BY <1>1, <1>2, <1>3, <1>4, <1>5, <1>6, <1>7, <1>8, <1>9, <1>10 DEF Next

LEMMA PageInit ==
    ASSUME Init PROVE Kept /\ PageInv
BY DEF Init, Kept, PageInv, NoTwice, GoneBlank, Unrepeated, Alive

LEMMA Invariance == Spec => []IInv
<1>1. Init => IInv
  BY TypeInit, AgreeInit, PageInit DEF IInv
<1>2. IInv /\ [Next]_vars => IInv'
  BY TypeStep, AgreeStep, KeptStep, PageStep DEF IInv, AgreeInv
<1> QED BY <1>1, <1>2, PTL DEF Spec

\* As long as no dialog is closed with a call unanswered, and no pop-up is on
\* the screen at a logout, nothing freed is used (FreedOnlyIfLeft).
THEOREM FreedOnlyIfLeftCorrect == Spec => []FreedOnlyIfLeft
<1>1. IInv => FreedOnlyIfLeft
  BY DEF IInv, Kept, FreedOnlyIfLeft
<1> QED BY <1>1, Invariance, PTL

\* A dialog none of whose calls met another of its procedure tells the truth
\* on its last page (ChangedUnlessRepeated).
THEOREM ChangedUnlessRepeatedCorrect == Spec => []ChangedUnlessRepeated
<1>1. IInv => ChangedUnlessRepeated
  BY DEF IInv, PageInv, Unrepeated, Ahead, ChangedUnlessRepeated
<1> QED BY <1>1, Invariance, PTL

=============================================================================
