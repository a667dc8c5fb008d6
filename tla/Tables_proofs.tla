---------------------------- MODULE Tables_proofs ----------------------------
(***************************************************************************)
(* Theorems about Tables, for every value of its constants.                *)
(***************************************************************************)
EXTENDS Tables, FiniteSetTheorems, SequenceTheorems, TLAPS

\* OneUpdater with what it needs to be inductive: updaters counts for every
\* table.
UpdaterInv ==
    /\ updaters \in [Tables -> Nat]
    /\ OneUpdater

\* What initGame keeps, called where there is no window.
LEMMA InitGameKeeps ==
    ASSUME NEW t, UpdaterInv, initGame(t), t \notin m_gameTables
    PROVE  UpdaterInv'
<1>1. updaters' \in [Tables -> Nat]
    <2>1. t \in Tables => updaters[t] + 1 \in Nat
        BY DEF UpdaterInv
    <2> QED BY <2>1 DEF UpdaterInv, initGame
<1>2. ASSUME NEW u \in Tables
      PROVE  /\ u \in m_gameTables' => u \in m_handlers'
             /\ updaters'[u] = IF u \in m_gameTables' THEN 1 ELSE 0
    <2>1. CASE u = t
        BY <2>1 DEF UpdaterInv, OneUpdater, initGame
    <2>2. CASE u # t
        BY <2>2 DEF UpdaterInv, OneUpdater, initGame
    <2> QED BY <2>1, <2>2
<1> QED BY <1>1, <1>2 DEF UpdaterInv, OneUpdater

\* What removeGame keeps, for whatever tables it is called.
LEMMA RemoveGameKeeps ==
    ASSUME NEW T, UpdaterInv, removeGame(T)
    PROVE  UpdaterInv'
BY DEF UpdaterInv, OneUpdater, removeGame

\* What any step that leaves the windows and the groups alone keeps.
LEMMA UntouchedKeeps ==
    ASSUME UpdaterInv, UNCHANGED <<m_gameTables, updaters>>,
           m_handlers \subseteq m_handlers'
    PROVE  UpdaterInv'
BY DEF UpdaterInv, OneUpdater

\* The groups are made and erased with the windows by every step.
LEMMA UpdaterStep ==
    ASSUME UpdaterInv, [Next]_vars
    PROVE  UpdaterInv'
<1>1. ASSUME NEW c \in DOMAIN chains, Step(c)  PROVE UpdaterInv'
    <2>1. CASE LoginRequired(c)
        BY <2>1, UntouchedKeeps DEF LoginRequired, windowVars
    <2>2. CASE InitTableWindow(c)
        <3>1. CASE chains[c].table \in m_gameTables
            BY <2>2, <3>1, UntouchedKeeps DEF InitTableWindow, windowVars
        <3>2. CASE chains[c].table \notin m_gameTables
            BY <2>2, <3>2, InitGameKeeps DEF InitTableWindow
        <3> QED BY <3>1, <3>2
    <2>3. CASE InitControls(c)
        BY <2>3, UntouchedKeeps DEF InitControls, windowVars
    <2>4. CASE UpdateWaiters(c)
        BY <2>4, UntouchedKeeps DEF UpdateWaiters, windowVars
    <2>5. CASE Ask(c)
        BY <2>5, UntouchedKeeps DEF Ask, windowVars
    <2>6. CASE AddWaiterRefused(c)
        BY <2>6, UntouchedKeeps DEF AddWaiterRefused, windowVars
    <2>7. CASE OpenGameTable(c)
        BY <2>7, UntouchedKeeps DEF OpenGameTable
    <2>8. CASE CashBuyIn(c)
        BY <2>8, UntouchedKeeps DEF CashBuyIn, windowVars
    <2> QED
        BY <1>1, <2>1, <2>2, <2>3, <2>4, <2>5, <2>6, <2>7, <2>8 DEF Step
<1>2. CASE Answer
    BY <1>2, UntouchedKeeps
       DEF Answer, AcceptBuyIn, RejectBuyIn, AnswerRecharge, AnswerQuestion,
           windowVars
<1>3. CASE BuyInGone
    BY <1>3, UntouchedKeeps DEF BuyInGone, windowVars
<1>4. ASSUME NEW kind \in Kinds, NEW t \in Tables, Click(kind, t)
      PROVE  UpdaterInv'
    BY <1>4, UntouchedKeeps DEF Click, windowVars
<1>5. ASSUME NEW t \in Tables, closeEvent(t)  PROVE UpdaterInv'
    BY <1>5, UntouchedKeeps DEF closeEvent, windowVars
<1>6. CASE Serve
    BY <1>6, UntouchedKeeps DEF Serve, windowVars
<1>7. ASSUME NEW proc \in ServerSends, NEW t \in Tables, ServerCall(proc, t)
      PROVE  UpdaterInv'
    BY <1>7, UntouchedKeeps DEF ServerCall, windowVars
<1>8. CASE Deliver
    <2>1. ASSUME NEW proc, DeliverReply(proc)  PROVE UpdaterInv'
        BY <2>1, UntouchedKeeps DEF DeliverReply, windowVars
    <2>2. CASE DeliverCloseReply
        <3>1. CASE removeGame({Head(down).table})
            BY <3>1, RemoveGameKeeps
        <3>2. CASE UNCHANGED windowVars
            BY <3>2, UntouchedKeeps DEF windowVars
        <3> QED BY <2>2, <3>1, <3>2 DEF DeliverCloseReply
    <2>3. CASE set_table_state
        BY <2>3, UntouchedKeeps DEF set_table_state
    <2>4. CASE close_table
        BY <2>4, RemoveGameKeeps DEF close_table
    <2>5. CASE show_recharge_message
        BY <2>5, UntouchedKeeps DEF show_recharge_message, windowVars
    <2> QED BY <1>8, <2>1, <2>2, <2>3, <2>4, <2>5 DEF Deliver
<1>9. CASE onDisconnected
    BY <1>9, RemoveGameKeeps DEF onDisconnected
<1>10. CASE Reconnect
    BY <1>10, UntouchedKeeps DEF Reconnect, windowVars
<1>11. CASE UNCHANGED vars
    BY <1>11, UntouchedKeeps DEF vars, windowVars
<1> QED
    BY <1>1, <1>2, <1>3, <1>4, <1>5, <1>6, <1>7, <1>8, <1>9, <1>10, <1>11
       DEF Next

\* For every set of tables and every behaviour of the server, the user and the
\* connection, initGame never pushes a second TableDataUpdater into a group.
THEOREM OneUpdaterCorrect == Spec => []OneUpdater
<1>1. Init => UpdaterInv
    BY DEF Init, UpdaterInv, OneUpdater
<1>2. UpdaterInv /\ [Next]_vars => UpdaterInv'
    BY UpdaterStep
<1>3. UpdaterInv => OneUpdater
    BY DEF UpdaterInv
<1> QED BY <1>1, <1>2, <1>3, PTL DEF Spec

-----------------------------------------------------------------------------
(* Types.                                                                    *)

\* A queue of actions that is where its script says it may be.
GoodChain == { ch \in Chain : ch.pos <= Len(Scripts[ch.kind]) }

\* A stack of dialogs holds at most one question, about a table that has room
\* for the callback of a Close.
QuestionInv ==
    /\ \A i \in DOMAIN modals :
          modals[i].kind = "question" => closing[modals[i].table] < MaxClose
    /\ \A i, j \in DOMAIN modals :
          modals[i].kind = "question" /\ modals[j].kind = "question" => i = j

TablesInv ==
    /\ TablesTypeOK
    /\ Len(chains) <= MaxChains
    /\ QuestionInv

LEMMA ScriptsType ==
    /\ DOMAIN Scripts = {"JoinCash", "WatchCash", "UserJoiningQueue"}
    /\ \A k \in DOMAIN Scripts : Len(Scripts[k]) \in 3 .. 6
<1>1. /\ Len(Scripts["JoinCash"]) = 6 /\ Len(Scripts["WatchCash"]) = 4
      /\ Len(Scripts["UserJoiningQueue"]) = 3
    BY DEF Scripts
<1>2. DOMAIN Scripts = {"JoinCash", "WatchCash", "UserJoiningQueue"}
    BY DEF Scripts
<1> QED BY <1>1, <1>2

LEMMA FunctionSeq ==
    ASSUME NEW S, NEW T, NEW s \in Seq(S), NEW f, f = [i \in DOMAIN s |-> f[i]],
           \A i \in DOMAIN s : f[i] \in T
    PROVE  f \in Seq(T) /\ Len(f) = Len(s) /\ DOMAIN f = DOMAIN s
<1>1. Len(s) \in Nat /\ DOMAIN s = 1 .. Len(s)
    OBVIOUS
<1>2. f \in [1 .. Len(s) -> T]
    BY <1>1
<1>3. f \in Seq(T)
    BY <1>1, <1>2, SeqDef
<1> QED BY <1>1, <1>2, <1>3

LEMMA GoodSeq ==
    ASSUME NEW s
    PROVE  s \in Seq(GoodChain) <=>
              /\ s \in Seq(Chain)
              /\ \A c \in DOMAIN s : s[c].pos <= Len(Scripts[s[c].kind])
<1>1. ASSUME s \in Seq(GoodChain)
      PROVE  /\ s \in Seq(Chain)
             /\ \A c \in DOMAIN s : s[c].pos <= Len(Scripts[s[c].kind])
    <2>1. \A c \in DOMAIN s : s[c] \in GoodChain
        BY <1>1
    <2>2. GoodChain \subseteq Chain
        BY DEF GoodChain
    <2>3. s = [i \in DOMAIN s |-> s[i]]
        BY <1>1
    <2> QED BY <1>1, <2>1, <2>2, <2>3, FunctionSeq DEF GoodChain
<1>2. ASSUME s \in Seq(Chain), \A c \in DOMAIN s : s[c].pos <= Len(Scripts[s[c].kind])
      PROVE  s \in Seq(GoodChain)
    <2>1. \A c \in DOMAIN s : s[c] \in GoodChain
        BY <1>2 DEF GoodChain
    <2>2. s = [i \in DOMAIN s |-> s[i]]
        BY <1>2
    <2> QED BY <1>2, <2>1, <2>2, FunctionSeq
<1> QED BY <1>1, <1>2

LEMMA GoodChains ==
    TablesTypeOK <=>
        /\ m_gameTables \subseteq Tables /\ shown \subseteq m_gameTables
        /\ m_handlers \subseteq Tables /\ updaters \in [Tables -> Nat]
        /\ chains \in Seq(GoodChain)
        /\ closing \in [Tables -> 0 .. MaxClose] /\ modals \in Seq(Modal)
        /\ connected \in BOOLEAN
        /\ up \in Seq(Request) /\ down \in Seq(Reply \cup Call)
        /\ seat \in [Tables -> {"none", "viewer", "reserved", "player"}]
        /\ events \in 0 .. MaxEvents /\ drops \in 0 .. MaxDrops
        /\ crash \in {"none", "assert", "null", "freed"}
BY GoodSeq DEF TablesTypeOK

\* What a queue is after an action of its is done.
LEMMA DoneType ==
    ASSUME NEW ch \in GoodChain, NEW status \in BOOLEAN
    PROVE  /\ on_action_done(ch, status) \in GoodChain
           /\ on_action_done(ch, status).at \in {"scheduled", "done", "failed"}
           /\ on_action_done(ch, status).kind = ch.kind
           /\ on_action_done(ch, status).table = ch.table
           /\ on_action_done(ch, status).own = ch.own
           /\ on_action_done(ch, status).pos \in {ch.pos, ch.pos + 1}
<1>1. Len(Scripts[ch.kind]) \in 3 .. 6 /\ ch \in Chain
    BY ScriptsType DEF GoodChain, Chain
<1>2. CASE ~status
    BY <1>1, <1>2 DEF on_action_done, GoodChain, Chain, Stages
<1>3. CASE status /\ ch.pos < Len(Scripts[ch.kind])
    <2>1. on_action_done(ch, status) = [ch EXCEPT !.at = "scheduled", !.pos = @ + 1]
        BY <1>3 DEF on_action_done
    <2>2. ch.pos + 1 \in 1 .. 6 /\ ch.pos + 1 <= Len(Scripts[ch.kind])
        <3>1. \A p \in 1 .. 6, l \in 3 .. 6 : p < l => p + 1 \in 1 .. 6 /\ p + 1 <= l
            OBVIOUS
        <3>2. ch.pos \in 1 .. 6
            BY <1>1 DEF Chain
        <3> QED BY <1>1, <1>3, <3>1, <3>2
    <2>3. ASSUME NEW n \in 1 .. 6
          PROVE  /\ [ch EXCEPT !.at = "scheduled", !.pos = n] \in Chain
                 /\ [ch EXCEPT !.at = "scheduled", !.pos = n].pos = n
                 /\ [ch EXCEPT !.at = "scheduled", !.pos = n].kind = ch.kind
                 /\ [ch EXCEPT !.at = "scheduled", !.pos = n].table = ch.table
                 /\ [ch EXCEPT !.at = "scheduled", !.pos = n].own = ch.own
                 /\ [ch EXCEPT !.at = "scheduled", !.pos = n].at = "scheduled"
        BY <1>1 DEF Chain, Stages
    <2> DEFINE n == ch.pos + 1
    <2> DEFINE new == [ch EXCEPT !.at = "scheduled", !.pos = n]
    <2>4. /\ new \in Chain /\ new.pos = n /\ new.kind = ch.kind
          /\ new.table = ch.table /\ new.own = ch.own /\ new.at = "scheduled"
        BY <2>2, <2>3
    <2>5. on_action_done(ch, status) = new /\ n <= Len(Scripts[ch.kind])
        BY <2>1, <2>2
    <2> HIDE DEF new
    <2> QED BY <2>4, <2>5 DEF GoodChain
<1>4. CASE status /\ ~(ch.pos < Len(Scripts[ch.kind]))
    BY <1>1, <1>4 DEF on_action_done, GoodChain, Chain, Stages
<1> QED BY <1>2, <1>3, <1>4

LEMMA ChainSet ==
    ASSUME chains \in Seq(GoodChain), NEW c, NEW x, c \in DOMAIN chains => x \in GoodChain
    PROVE  /\ [chains EXCEPT ![c] = x] \in Seq(GoodChain)
           /\ Len([chains EXCEPT ![c] = x]) = Len(chains)
           /\ DOMAIN [chains EXCEPT ![c] = x] = DOMAIN chains
           /\ \A d \in DOMAIN chains :
                  [chains EXCEPT ![c] = x][d] = IF d = c THEN x ELSE chains[d]
<1> DEFINE f == [chains EXCEPT ![c] = x]
<1>1. f = [i \in DOMAIN chains |-> f[i]]
    OBVIOUS
<1>2. \A d \in DOMAIN chains : f[d] = IF d = c THEN x ELSE chains[d]
    OBVIOUS
<1>3. \A d \in DOMAIN chains : chains[d] \in GoodChain
    OBVIOUS
<1> HIDE DEF f
<1>4. \A d \in DOMAIN chains : f[d] \in GoodChain
    BY <1>2, <1>3
<1>5. f \in Seq(GoodChain) /\ Len(f) = Len(chains) /\ DOMAIN f = DOMAIN chains
    BY <1>1, <1>4, FunctionSeq
<1> QED BY <1>2, <1>5 DEF f

\* A queue goes to another stage in the same action.
LEMMA StageType ==
    ASSUME NEW ch \in GoodChain, NEW s \in Stages
    PROVE  /\ [ch EXCEPT !.at = s] \in GoodChain
           /\ [ch EXCEPT !.at = s].at = s /\ [ch EXCEPT !.at = s].own = ch.own
           /\ [ch EXCEPT !.at = s].kind = ch.kind /\ [ch EXCEPT !.at = s].table = ch.table
           /\ [ch EXCEPT !.at = s].pos = ch.pos
BY DEF GoodChain, Chain

LEMMA OwnType ==
    ASSUME NEW ch \in GoodChain, NEW b \in BOOLEAN
    PROVE  /\ [ch EXCEPT !.own = b] \in GoodChain
           /\ [ch EXCEPT !.own = b].own = b /\ [ch EXCEPT !.own = b].at = ch.at
           /\ [ch EXCEPT !.own = b].kind = ch.kind /\ [ch EXCEPT !.own = b].table = ch.table
           /\ [ch EXCEPT !.own = b].pos = ch.pos
BY DEF GoodChain, Chain

\* What done() does to a queue of those there are, and to those there are not.
LEMMA DoneChains ==
    ASSUME chains \in Seq(GoodChain), NEW c, NEW status \in BOOLEAN, done(c, status)
    PROVE  /\ chains' \in Seq(GoodChain) /\ Len(chains') = Len(chains)
           /\ DOMAIN chains' = DOMAIN chains
           /\ \A d \in DOMAIN chains :
                  chains'[d] = IF d = c THEN on_action_done(chains[c], status) ELSE chains[d]
<1>1. c \in DOMAIN chains => on_action_done(chains[c], status) \in GoodChain
    BY DoneType
<1> QED BY <1>1, ChainSet DEF done

LEMMA StageChains ==
    ASSUME chains \in Seq(GoodChain), NEW c, NEW s \in Stages,
           chains' = [chains EXCEPT ![c].at = s]
    PROVE  /\ chains' \in Seq(GoodChain) /\ Len(chains') = Len(chains)
           /\ DOMAIN chains' = DOMAIN chains
           /\ \A d \in DOMAIN chains :
                  chains'[d] = IF d = c THEN [chains[c] EXCEPT !.at = s] ELSE chains[d]
<1>1. c \in DOMAIN chains => [chains[c] EXCEPT !.at = s] \in GoodChain
    BY StageType
<1> QED BY <1>1, ChainSet

LEMMA AppendSeq ==
    ASSUME NEW S, NEW s \in Seq(S), NEW x \in S
    PROVE  /\ Append(s, x) \in Seq(S) /\ Len(Append(s, x)) = Len(s) + 1
           /\ DOMAIN Append(s, x) = DOMAIN s \cup {Len(s) + 1}
           /\ \A d \in DOMAIN s : Append(s, x)[d] = s[d]
           /\ Append(s, x)[Len(s) + 1] = x
           /\ Len(s) + 1 \notin DOMAIN s
OBVIOUS

LEMMA ClickChains ==
    ASSUME chains \in Seq(GoodChain), NEW kind \in Kinds, NEW t \in Tables, Click(kind, t)
    PROVE  /\ chains' \in Seq(GoodChain) /\ Len(chains') = Len(chains) + 1
           /\ DOMAIN chains' = DOMAIN chains \cup {Len(chains) + 1}
           /\ \A d \in DOMAIN chains : chains'[d] = chains[d]
           /\ Len(chains) + 1 \notin DOMAIN chains
           /\ chains'[Len(chains) + 1] = [kind |-> kind, table |-> t, pos |-> 1,
                                         at |-> "scheduled", own |-> TRUE]
<1> DEFINE new == [kind |-> kind, table |-> t, pos |-> 1, at |-> "scheduled", own |-> TRUE]
<1>1. kind \in DOMAIN Scripts
    BY TablesAssumption
<1>2. Len(Scripts[kind]) \in 3 .. 6
    BY <1>1, ScriptsType
<1>3. new \in Chain /\ new.pos <= Len(Scripts[new.kind])
    <2>1. new \in Chain /\ new.pos = 1 /\ new.kind = kind
        BY <1>1 DEF Chain, Stages
    <2>2. \A l \in 3 .. 6 : 1 <= l
        OBVIOUS
    <2> HIDE DEF new
    <2> QED BY <1>2, <2>1, <2>2
<1>4. chains' = Append(chains, new) /\ new \in GoodChain
    BY <1>3 DEF Click, GoodChain
<1> HIDE DEF new
<1>5. /\ chains' \in Seq(GoodChain) /\ Len(chains') = Len(chains) + 1
      /\ DOMAIN chains' = DOMAIN chains \cup {Len(chains) + 1}
      /\ \A d \in DOMAIN chains : chains'[d] = chains[d]
      /\ chains'[Len(chains) + 1] = new
      /\ Len(chains) + 1 \notin DOMAIN chains
    BY <1>4, AppendSeq
<1> QED BY <1>5 DEF new

LEMMA ReplyChains ==
    ASSUME TablesInv, NEW proc, DeliverReply(proc)
    PROVE  /\ chains' \in Seq(GoodChain) /\ Len(chains') = Len(chains)
           /\ DOMAIN chains' = DOMAIN chains
           /\ Head(down) \in Reply
           /\ \A d \in DOMAIN chains :
                  IF Waits(d, proc, Head(down).table)
                  THEN /\ chains'[d].at \in {"scheduled", "done", "failed"}
                       /\ chains'[d].kind = chains[d].kind
                       /\ chains'[d].table = chains[d].table
                       /\ chains'[d].pos \in {chains[d].pos, chains[d].pos + 1}
                       /\ chains'[d].own <=>
                             Head(down).chain = d \/ chains[d].at = "lost"
                  ELSE chains'[d] = chains[d]
<1> DEFINE msg == Head(down)
           b(d) == msg.chain = d \/ chains[d].at = "lost"
           new(d) == [on_action_done(chains[d], msg.ok) EXCEPT !.own = b(d)]
<1>1. chains \in Seq(GoodChain) /\ down \in Seq(Reply \cup Call)
    BY GoodChains DEF TablesInv
<1>2. msg \in Reply
    <2>1. msg \in Reply \cup Call /\ "ok" \in DOMAIN msg
        BY <1>1 DEF DeliverReply, Arrives, IsReply
    <2>2. \A m \in Call : "ok" \notin DOMAIN m
        BY DEF Call
    <2> QED BY <2>1, <2>2
<1>3. msg.ok \in BOOLEAN
    BY <1>2 DEF Reply
<1>4. chains' = [c \in DOMAIN chains |-> IF Waits(c, proc, msg.table) THEN new(c) ELSE chains[c]]
    BY DEF DeliverReply
<1>5. ASSUME NEW d \in DOMAIN chains
      PROVE  /\ new(d) \in GoodChain
             /\ new(d).at \in {"scheduled", "done", "failed"}
             /\ new(d).kind = chains[d].kind /\ new(d).table = chains[d].table
             /\ new(d).pos \in {chains[d].pos, chains[d].pos + 1}
             /\ new(d).own <=> b(d)
    <2>1. chains[d] \in GoodChain
        BY <1>1
    <2> DEFINE ch == on_action_done(chains[d], msg.ok)
    <2>2. /\ ch \in GoodChain /\ ch.at \in {"scheduled", "done", "failed"}
          /\ ch.kind = chains[d].kind /\ ch.table = chains[d].table
          /\ ch.pos \in {chains[d].pos, chains[d].pos + 1}
        BY <1>3, <2>1, DoneType
    <2> HIDE DEF ch
    <2>3. b(d) \in BOOLEAN
        OBVIOUS
    <2>4. \A x \in BOOLEAN :
             /\ [ch EXCEPT !.own = x] \in GoodChain
             /\ [ch EXCEPT !.own = x].own = x /\ [ch EXCEPT !.own = x].at = ch.at
             /\ [ch EXCEPT !.own = x].kind = ch.kind /\ [ch EXCEPT !.own = x].table = ch.table
             /\ [ch EXCEPT !.own = x].pos = ch.pos
        BY <2>2, OwnType
    <2> QED BY <2>2, <2>3, <2>4 DEF ch
<1> HIDE DEF new
<1>6. /\ \A d \in DOMAIN chains : chains[d] \in GoodChain /\ chains'[d] \in GoodChain
      /\ chains' = [i \in DOMAIN chains |-> chains'[i]]
    BY <1>1, <1>4, <1>5
<1>7. chains' \in Seq(GoodChain) /\ Len(chains') = Len(chains) /\ DOMAIN chains' = DOMAIN chains
    BY <1>1, <1>6, FunctionSeq
<1> QED BY <1>2, <1>4, <1>5, <1>7

LEMMA LostChains ==
    ASSUME chains \in Seq(GoodChain), onDisconnected
    PROVE  /\ chains' \in Seq(GoodChain) /\ Len(chains') = Len(chains)
           /\ DOMAIN chains' = DOMAIN chains
           /\ \A d \in DOMAIN chains :
                  IF chains[d].at = "waiting"
                  THEN chains'[d] = [chains[d] EXCEPT !.at = "lost"]
                  ELSE chains'[d] = chains[d]
<1>1. chains' = [c \in DOMAIN chains |-> IF chains[c].at = "waiting"
                                       THEN [chains[c] EXCEPT !.at = "lost"] ELSE chains[c]]
    BY DEF onDisconnected
<1>2. "lost" \in Stages
    BY DEF Stages
<1>3. /\ \A d \in DOMAIN chains : chains[d] \in GoodChain /\ chains'[d] \in GoodChain
      /\ chains' = [i \in DOMAIN chains |-> chains'[i]]
    BY <1>1, <1>2, StageType
<1> QED BY <1>1, <1>3, FunctionSeq

\* The queues, after any step.
LEMMA ChainsTypes ==
    ASSUME TablesInv, Next
    PROVE  chains' \in Seq(GoodChain) /\ Len(chains') <= MaxChains
<1>1. chains \in Seq(GoodChain) /\ Len(chains) <= MaxChains /\ MaxChains \in Nat
    BY GoodChains, TablesAssumption DEF TablesInv
<1>2. CASE \E c : \E status \in BOOLEAN : done(c, status)
    BY <1>1, <1>2, DoneChains
<1>3. CASE \E c : \E s \in Stages : chains' = [chains EXCEPT ![c].at = s]
    BY <1>1, <1>3, StageChains
<1>4. CASE \E kind \in Kinds, t \in Tables : Click(kind, t)
    <2>1. Len(chains) < MaxChains /\ Len(chains) \in Nat
        BY <1>1, <1>4 DEF Click
    <2>2. \A l \in Nat : l < MaxChains => l + 1 <= MaxChains
        BY <1>1
    <2> QED BY <1>1, <1>4, <2>1, <2>2, ClickChains
<1>5. CASE \E proc : DeliverReply(proc)
    BY <1>1, <1>5, ReplyChains
<1>6. CASE onDisconnected
    BY <1>1, <1>6, LostChains
<1>7. CASE UNCHANGED chains
    BY <1>1, <1>7
<1>8. ASSUME NEW c \in DOMAIN chains, Step(c)
      PROVE  chains' \in Seq(GoodChain) /\ Len(chains') <= MaxChains
    <2>1. CASE LoginRequired(c) \/ InitTableWindow(c) \/ InitControls(c)
        <3>1. \E status \in BOOLEAN : done(c, status)
            BY <2>1 DEF LoginRequired, InitTableWindow, InitControls
        <3> QED BY <1>2, <3>1
    <2>2. CASE UpdateWaiters(c) \/ AddWaiterRefused(c) \/ OpenGameTable(c)
        <3>1. UNCHANGED chains \/ \E status \in BOOLEAN : done(c, status)
            BY <2>2 DEF UpdateWaiters, AddWaiterRefused, OpenGameTable
        <3> QED BY <1>2, <1>7, <3>1
    <2>3. CASE Ask(c) \/ CashBuyIn(c)
        <3>1. UNCHANGED chains \/ \E s \in Stages : chains' = [chains EXCEPT ![c].at = s]
            BY <2>3 DEF Ask, CashBuyIn, Stages
        <3> QED BY <1>3, <1>7, <3>1
    <2> QED BY <1>8, <2>1, <2>2, <2>3 DEF Step
<1>9. CASE Answer \/ BuyInGone
    <2>1. UNCHANGED chains \/ \E status \in BOOLEAN : done(Head(modals).chain, status)
        BY <1>9
           DEF Answer, AcceptBuyIn, RejectBuyIn, AnswerRecharge, AnswerQuestion, BuyInGone
    <2> QED BY <1>2, <1>7, <2>1
<1>10. CASE Deliver
    BY <1>5, <1>7, <1>10
       DEF Deliver, DeliverCloseReply, set_table_state, close_table, show_recharge_message
<1>11. CASE Serve \/ Reconnect \/ \E t \in Tables : closeEvent(t)
    BY <1>7, <1>11 DEF Serve, Reconnect, closeEvent
<1>12. CASE \E proc \in ServerSends, t \in Tables : ServerCall(proc, t)
    BY <1>7, <1>12 DEF ServerCall
<1> QED BY <1>2, <1>3, <1>4, <1>6, <1>7, <1>8, <1>9, <1>10, <1>11, <1>12 DEF Next

\* The windows, the groups and what stops the program.
LEMMA WindowTypes ==
    ASSUME TablesInv, Next
    PROVE  /\ m_gameTables' \subseteq Tables /\ shown' \subseteq m_gameTables'
           /\ m_handlers' \subseteq Tables /\ updaters' \in [Tables -> Nat]
           /\ crash' \in {"none", "assert", "null", "freed"}
<1> DEFINE Types == /\ m_gameTables' \subseteq Tables /\ shown' \subseteq m_gameTables'
                    /\ m_handlers' \subseteq Tables /\ updaters' \in [Tables -> Nat]
                    /\ crash' \in {"none", "assert", "null", "freed"}
<1>1. /\ m_gameTables \subseteq Tables /\ shown \subseteq m_gameTables
      /\ m_handlers \subseteq Tables /\ updaters \in [Tables -> Nat]
      /\ crash \in {"none", "assert", "null", "freed"}
      /\ chains \in Seq(GoodChain) /\ down \in Seq(Reply \cup Call)
    BY GoodChains DEF TablesInv
<1>2. ASSUME NEW T, removeGame(T) PROVE Types
    <2>1. \A t \in Tables : (IF t \in T THEN 0 ELSE updaters[t]) \in Nat
        BY <1>1
    <2> QED BY <1>1, <1>2, <2>1 DEF removeGame
<1>3. ASSUME UNCHANGED windowVars,
             crash' = crash \/ crash' \in {"none", "assert", "null", "freed"}
      PROVE  Types
    BY <1>1, <1>3 DEF windowVars
<1>4. ASSUME NEW c \in DOMAIN chains, Step(c) PROVE Types
    <2>1. chains[c].table \in Tables
        <3>1. chains[c] \in GoodChain
            BY <1>1
        <3> QED BY <3>1 DEF GoodChain, Chain
    <2>2. CASE InitTableWindow(c) /\ initGame(chains[c].table) /\ UNCHANGED <<shown, crash>>
        BY <1>1, <2>1, <2>2 DEF initGame
    <2>3. CASE OpenGameTable(c)
        BY <1>1, <2>3 DEF OpenGameTable, getGameTable
    <2>4. CASE UNCHANGED windowVars
        BY <1>1, <1>4, <2>4, <1>3
           DEF Step, LoginRequired, InitTableWindow, InitControls, UpdateWaiters, Ask,
               AddWaiterRefused, CashBuyIn, exec, getGameTable, OpenGameTable
    <2> QED BY <1>4, <2>2, <2>3, <2>4
            DEF Step, LoginRequired, InitTableWindow, InitControls, UpdateWaiters, Ask,
                AddWaiterRefused, CashBuyIn
<1>5. CASE Deliver
    <2>1. CASE set_table_state
        <3>1. Head(down).table \in Tables
            <4>1. Head(down) \in Reply \cup Call
                BY <1>1, <2>1 DEF set_table_state, Arrives
            <4> QED BY <4>1 DEF Reply, Call
        <3> QED BY <1>1, <2>1, <3>1 DEF set_table_state
    <2>2. CASE DeliverCloseReply \/ close_table
        BY <1>2, <1>3, <2>2 DEF DeliverCloseReply, close_table
    <2>3. CASE show_recharge_message \/ \E proc : DeliverReply(proc)
        BY <1>1, <1>3, <2>3 DEF show_recharge_message, DeliverReply, exec, getGameTable
    <2> QED BY <1>5, <2>1, <2>2, <2>3 DEF Deliver
<1>6. CASE Answer \/ BuyInGone
    BY <1>3, <1>6
       DEF Answer, AcceptBuyIn, RejectBuyIn, AnswerRecharge, AnswerQuestion, BuyInGone
<1>7. CASE Serve \/ Reconnect \/ \E t \in Tables : closeEvent(t)
    BY <1>3, <1>7 DEF Serve, Reconnect, closeEvent
<1>8. CASE \E proc \in ServerSends, t \in Tables : ServerCall(proc, t)
    BY <1>3, <1>8 DEF ServerCall
<1>9. CASE \E kind \in Kinds, t \in Tables : Click(kind, t)
    BY <1>3, <1>9 DEF Click
<1>10. CASE onDisconnected
    BY <1>2, <1>10 DEF onDisconnected
<1> QED BY <1>4, <1>5, <1>6, <1>7, <1>8, <1>9, <1>10 DEF Next

LEMMA SentType ==
    ASSUME NEW queue \in Seq(Request), NEW proc \in Requests, NEW t \in Tables,
           NEW c \in 0 .. MaxChains
    PROVE  Sent(queue, proc, t, c) \in Seq(Request)
<1>1. [proc |-> proc, table |-> t, chain |-> c] \in Request
    BY DEF Request
<1> QED BY <1>1 DEF Sent

LEMMA FirstOut ==
    ASSUME NEW S, NEW s \in Seq(S), s # <<>>
    PROVE  Head(s) \in S /\ Tail(s) \in Seq(S) /\ 1 \in DOMAIN s /\ Head(s) = s[1]
OBVIOUS

\* The procedure a queue asks for.
LEMMA AsksType == DOMAIN Asks = {"FetchSitOnTableInfo", "AddViewer", "AddWaiter"}
                  /\ \A action \in DOMAIN Asks : Asks[action] \in Requests
BY DEF Asks, Requests

\* What is on its way to the server, after any step.
LEMMA UpTypes ==
    ASSUME TablesInv, Next
    PROVE  up' \in Seq(Request)
<1>1. /\ up \in Seq(Request) /\ modals \in Seq(Modal) /\ chains \in Seq(GoodChain)
      /\ Len(chains) <= MaxChains /\ MaxChains \in Nat
    BY GoodChains, TablesAssumption DEF TablesInv
<1>2. modals # <<>> => Head(modals).table \in Tables /\ Head(modals).chain \in 0 .. MaxChains
    <2>1. modals # <<>> => Head(modals) \in Modal
        BY <1>1, FirstOut
    <2> QED BY <2>1 DEF Modal
<1>3. /\ "set_sit_money" \in Requests /\ "sit_on_table_canceled" \in Requests
      /\ "close_table" \in Requests /\ 0 \in 0 .. MaxChains
    BY <1>1 DEF Requests
<1>4. CASE UNCHANGED up
    BY <1>1, <1>4
<1>5. ASSUME NEW c \in DOMAIN chains, Step(c) PROVE up' \in Seq(Request)
    <2>1. CASE Ask(c)
        <3>1. PICK action \in DOMAIN Asks : request(Asks[action], chains[c].table, c)
            BY <2>1 DEF Ask
        <3>2. chains[c].table \in Tables
            <4>1. chains[c] \in GoodChain
                BY <1>1
            <4> QED BY <4>1 DEF GoodChain, Chain
        <3>3. c \in 0 .. MaxChains
            BY <1>1
        <3> QED BY <1>1, <3>1, <3>2, <3>3, AsksType, SentType DEF request
    <2> QED BY <1>4, <1>5, <2>1
            DEF Step, LoginRequired, InitTableWindow, InitControls, UpdateWaiters,
                AddWaiterRefused, OpenGameTable, CashBuyIn
<1>6. ASSUME modals # <<>>, up' = Cancelled(Head(modals)) PROVE up' \in Seq(Request)
    <2>1. Sent(up, "sit_on_table_canceled", Head(modals).table, Head(modals).chain)
            \in Seq(Request)
        BY <1>1, <1>2, <1>3, <1>6, SentType
    <2> QED BY <1>2, <1>3, <1>6, <2>1, SentType DEF Cancelled
<1>7. ASSUME modals # <<>>, NEW proc \in Requests,
             NEW c \in {0, Head(modals).chain}, request(proc, Head(modals).table, c)
      PROVE  up' \in Seq(Request)
    BY <1>1, <1>2, <1>3, <1>7, SentType DEF request
<1>8. CASE Answer \/ BuyInGone
    <2>1. modals # <<>>
        BY <1>8 DEF Answer, AcceptBuyIn, RejectBuyIn, AnswerRecharge, AnswerQuestion,
                    BuyInGone, Asked
    <2>2. \/ UNCHANGED up
          \/ up' = Cancelled(Head(modals))
          \/ request("set_sit_money", Head(modals).table, Head(modals).chain)
          \/ request("sit_on_table_canceled", Head(modals).table, Head(modals).chain)
          \/ request("close_table", Head(modals).table, 0)
        BY <1>8 DEF Answer, AcceptBuyIn, RejectBuyIn, AnswerRecharge, AnswerQuestion,
                    BuyInGone
    <2> QED BY <1>3, <1>4, <1>6, <1>7, <2>1, <2>2
<1>9. CASE Serve
    BY <1>1, <1>9, FirstOut DEF Serve
<1>10. CASE onDisconnected
    BY <1>10 DEF onDisconnected
<1>11. CASE Deliver
    BY <1>4, <1>11 DEF Deliver, DeliverReply, DeliverCloseReply, set_table_state,
                       close_table, show_recharge_message
<1>12. CASE Reconnect \/ (\E t \in Tables : closeEvent(t))
            \/ (\E kind \in Kinds, t \in Tables : Click(kind, t))
            \/ (\E proc \in ServerSends, t \in Tables : ServerCall(proc, t))
    BY <1>4, <1>12 DEF Reconnect, closeEvent, Click, ServerCall
<1> QED BY <1>5, <1>8, <1>9, <1>10, <1>11, <1>12 DEF Next

SeatKinds == {"none", "viewer", "reserved", "player"}

LEMMA VerdictsType ==
    ASSUME NEW proc \in Requests, NEW old \in SeatKinds, NEW v \in Verdicts(proc, old)
    PROVE  v[1] \in SeatKinds /\ v[2] \in BOOLEAN
<1>1. \A w \in SeatKinds : /\ <<w, TRUE>>[1] = w /\ <<w, TRUE>>[2] = TRUE
                           /\ <<w, FALSE>>[1] = w /\ <<w, FALSE>>[2] = FALSE
    OBVIOUS
<1>2. \E w \in SeatKinds : v = <<w, TRUE>> \/ v = <<w, FALSE>>
    <2>0. "none" \in SeatKinds /\ "viewer" \in SeatKinds /\ "reserved" \in SeatKinds
          /\ "player" \in SeatKinds
        BY DEF SeatKinds
    <2>1. CASE proc = "sit_on_table"
        <3>1. v = <<old, FALSE>> \/ v = <<"reserved", TRUE>>
            BY <2>1 DEF Verdicts
        <3> QED BY <2>0, <3>1
    <2>2. CASE proc = "add_viewer"
        <3>1. v = <<old, FALSE>> \/ v = <<IF old = "none" THEN "viewer" ELSE old, TRUE>>
            BY <2>2 DEF Verdicts
        <3> QED BY <2>0, <3>1
    <2>3. CASE proc = "add_waiter"
        BY <2>3 DEF Verdicts
    <2>4. CASE proc = "close_table"
        <3>1. v = <<old, FALSE>> \/ v = <<"none", TRUE>>
            BY <2>4 DEF Verdicts
        <3> QED BY <2>0, <3>1
    <2>5. CASE proc = "sit_on_table_canceled"
        <3>1. v = <<IF old = "reserved" THEN "none" ELSE old, TRUE>>
            BY <2>5 DEF Verdicts
        <3> QED BY <2>0, <3>1
    <2>6. CASE proc = "set_sit_money"
        <3>1. v = <<IF old = "reserved" THEN "player" ELSE old, TRUE>>
            BY <2>6 DEF Verdicts
        <3> QED BY <2>0, <3>1
    <2> QED BY <2>1, <2>2, <2>3, <2>4, <2>5, <2>6 DEF Requests
<1> QED BY <1>1, <1>2

\* The request the server takes up, and what comes of it.
LEMMA ServeTypes ==
    ASSUME TablesInv, Serve
    PROVE  /\ Head(up) \in Request
           /\ seat' \in [Tables -> SeatKinds]
           /\ down' \in Seq(Reply \cup Call)
<1>1. /\ up \in Seq(Request) /\ down \in Seq(Reply \cup Call) /\ seat \in [Tables -> SeatKinds]
    BY GoodChains DEF TablesInv, SeatKinds
<1>2. Head(up) \in Request
    BY <1>1, FirstOut DEF Serve
<1> DEFINE msg == Head(up)
<1>3. /\ msg.proc \in Requests /\ msg.table \in Tables /\ msg.chain \in 0 .. MaxChains
      /\ seat[msg.table] \in SeatKinds
    BY <1>1, <1>2 DEF Request
<1>4. PICK v \in Verdicts(msg.proc, seat[msg.table]) :
          /\ seat' = [seat EXCEPT ![msg.table] = v[1]]
          /\ down' = IF msg.proc \in Answered
                     THEN Append(down, [proc |-> msg.proc, table |-> msg.table,
                                        chain |-> msg.chain, ok |-> v[2]])
                     ELSE down
    BY DEF Serve
<1> HIDE DEF msg
<1>5. v[1] \in SeatKinds /\ v[2] \in BOOLEAN
    BY <1>3, VerdictsType
<1>6. [proc |-> msg.proc, table |-> msg.table, chain |-> msg.chain, ok |-> v[2]] \in Reply
    BY <1>3, <1>5 DEF Reply
<1>7. down' \in Seq(Reply \cup Call)
    BY <1>1, <1>4, <1>6
<1> QED BY <1>1, <1>2, <1>4, <1>5, <1>7

LEMMA ServerTypes ==
    ASSUME TablesInv, Next
    PROVE  /\ down' \in Seq(Reply \cup Call) /\ seat' \in [Tables -> SeatKinds]
           /\ events' \in 0 .. MaxEvents /\ drops' \in 0 .. MaxDrops
           /\ connected' \in BOOLEAN
<1>1. /\ down \in Seq(Reply \cup Call) /\ seat \in [Tables -> SeatKinds]
      /\ events \in 0 .. MaxEvents /\ drops \in 0 .. MaxDrops /\ connected \in BOOLEAN
      /\ MaxEvents \in Nat /\ MaxDrops \in Nat
    BY GoodChains, TablesAssumption DEF TablesInv, SeatKinds
<1>2. CASE UNCHANGED <<down, serverVars, connected>>
    BY <1>1, <1>2 DEF serverVars
<1>3. CASE Serve
    BY <1>1, <1>3, ServeTypes DEF Serve
<1>4. ASSUME NEW proc \in ServerSends, NEW t \in Tables, ServerCall(proc, t)
      PROVE  /\ down' \in Seq(Reply \cup Call) /\ seat' \in [Tables -> SeatKinds]
             /\ events' \in 0 .. MaxEvents /\ drops' \in 0 .. MaxDrops
             /\ connected' \in BOOLEAN
    <2>1. [proc |-> proc, table |-> t] \in Call
        BY TablesAssumption DEF Call
    <2>2. down' \in Seq(Reply \cup Call)
        BY <1>1, <1>4, <2>1 DEF ServerCall
    <2>3. seat' \in [Tables -> SeatKinds]
        BY <1>1, <1>4 DEF ServerCall, SeatKinds
    <2>4. events' \in 0 .. MaxEvents
        <3>1. events < MaxEvents /\ events' = events + 1
            BY <1>4 DEF ServerCall
        <3> QED BY <1>1, <3>1
    <2>5. UNCHANGED <<drops, connected>>
        BY <1>4 DEF ServerCall
    <2> QED BY <1>1, <2>2, <2>3, <2>4, <2>5
<1>5. CASE onDisconnected
    <2>1. "none" \in SeatKinds
        BY DEF SeatKinds
    <2>2. /\ down' = <<>> /\ seat' = [t \in Tables |-> "none"] /\ UNCHANGED events
          /\ drops < MaxDrops /\ drops' = drops + 1 /\ connected' = FALSE
        BY <1>5 DEF onDisconnected
    <2>3. drops' \in 0 .. MaxDrops
        BY <1>1, <2>2
    <2>4. seat' \in [Tables -> SeatKinds] /\ down' \in Seq(Reply \cup Call)
        BY <2>1, <2>2
    <2> QED BY <1>1, <2>2, <2>3, <2>4
<1>6. CASE Reconnect
    BY <1>1, <1>6 DEF Reconnect, serverVars
<1>7. CASE down # <<>> /\ down' = Tail(down) /\ UNCHANGED <<serverVars, connected>>
    BY <1>1, <1>7, FirstOut DEF serverVars
<1>8. CASE Deliver
    BY <1>7, <1>8 DEF Deliver, DeliverReply, DeliverCloseReply, set_table_state,
                      close_table, show_recharge_message, Arrives
<1>9. CASE Answer \/ BuyInGone
    BY <1>2, <1>9 DEF Answer, AcceptBuyIn, RejectBuyIn, AnswerRecharge, AnswerQuestion,
                      BuyInGone
<1>10. CASE (\E t \in Tables : closeEvent(t))
            \/ (\E kind \in Kinds, t \in Tables : Click(kind, t))
    BY <1>2, <1>10 DEF closeEvent, Click
<1>11. CASE \E c \in DOMAIN chains : Step(c)
    BY <1>2, <1>11
       DEF Step, LoginRequired, InitTableWindow, InitControls, UpdateWaiters, Ask,
           AddWaiterRefused, OpenGameTable, CashBuyIn
<1> QED BY <1>3, <1>4, <1>5, <1>6, <1>8, <1>9, <1>10, <1>11 DEF Next

-----------------------------------------------------------------------------
(* The stack of dialogs.                                                     *)

\* A dialog is put on top.
LEMMA PushAt ==
    ASSUME NEW s \in Seq(Modal), NEW m \in Modal
    PROVE  /\ <<m>> \o s \in Seq(Modal)
           /\ 1 \in DOMAIN (<<m>> \o s) /\ (<<m>> \o s)[1] = m
           /\ \A i \in DOMAIN s : i + 1 \in DOMAIN (<<m>> \o s) /\ (<<m>> \o s)[i + 1] = s[i]
           /\ \A i \in DOMAIN (<<m>> \o s) :
                  i = 1 \/ (i - 1 \in DOMAIN s /\ (<<m>> \o s)[i] = s[i - 1])
           /\ DOMAIN s \subseteq Nat /\ DOMAIN (<<m>> \o s) \subseteq Nat
<1>1. DOMAIN s = 1 .. Len(s) /\ Len(s) \in Nat
    OBVIOUS
<1>2. /\ DOMAIN (<<m>> \o s) = 1 .. Len(s) + 1 /\ (<<m>> \o s)[1] = m
      /\ \A i \in 1 .. Len(s) : (<<m>> \o s)[i + 1] = s[i]
    OBVIOUS
<1>3. <<m>> \o s \in Seq(Modal)
    OBVIOUS
<1>4. \A i \in 1 .. Len(s) + 1 : i = 1 \/ (i - 1 \in 1 .. Len(s) /\ (i - 1) + 1 = i)
    BY <1>1
<1> QED BY <1>1, <1>2, <1>3, <1>4

\* The dialog on top returns.
LEMMA PopAt ==
    ASSUME NEW s \in Seq(Modal), s # <<>>
    PROVE  /\ 1 \in DOMAIN s /\ Head(s) = s[1] /\ Head(s) \in Modal
           /\ Tail(s) \in Seq(Modal)
           /\ \A i \in DOMAIN Tail(s) :
                 i + 1 \in DOMAIN s /\ Tail(s)[i] = s[i + 1] /\ i \in Nat \ {0}
           /\ \A i \in DOMAIN s : i = 1 \/ (i - 1 \in DOMAIN Tail(s) /\ Tail(s)[i - 1] = s[i])
           /\ DOMAIN s \subseteq Nat \ {0}
<1>1. DOMAIN s = 1 .. Len(s) /\ Len(s) \in Nat /\ Len(s) > 0 /\ Head(s) = s[1]
    OBVIOUS
<1>2. DOMAIN Tail(s) = 1 .. Len(s) - 1 /\ \A i \in 1 .. Len(s) - 1 : Tail(s)[i] = s[i + 1]
    OBVIOUS
<1>3. Tail(s) \in Seq(Modal) /\ Head(s) \in Modal
    OBVIOUS
<1>4. \A i \in 1 .. Len(s) : i = 1 \/ (i - 1 \in 1 .. Len(s) - 1 /\ (i - 1) + 1 = i)
    BY <1>1
<1>5. 1 \in DOMAIN s /\ DOMAIN s \subseteq Nat \ {0}
    BY <1>1
<1>6. \A i \in DOMAIN Tail(s) : i + 1 \in DOMAIN s /\ Tail(s)[i] = s[i + 1] /\ i \in Nat \ {0}
    BY <1>1, <1>2
<1>7. \A i \in DOMAIN s : i = 1 \/ (i - 1 \in DOMAIN Tail(s) /\ Tail(s)[i - 1] = s[i])
    BY <1>1, <1>2, <1>4
<1> QED BY <1>1, <1>3, <1>5, <1>6, <1>7

\* Dialogs of deleted windows stay where they are.
LEMMA OrphanedAt ==
    ASSUME modals \in Seq(Modal), NEW T
    PROVE  /\ Orphaned(T) \in Seq(Modal) /\ DOMAIN Orphaned(T) = DOMAIN modals
           /\ \A i \in DOMAIN modals :
                  /\ Orphaned(T)[i].kind = modals[i].kind
                  /\ Orphaned(T)[i].table = modals[i].table
                  /\ Orphaned(T)[i].chain = modals[i].chain
                  /\ Orphaned(T)[i].alive <=> modals[i].alive /\ modals[i].table \notin T
<1>1. ASSUME NEW m \in Modal, NEW b \in BOOLEAN
      PROVE  /\ [m EXCEPT !.alive = b] \in Modal /\ [m EXCEPT !.alive = b].kind = m.kind
             /\ [m EXCEPT !.alive = b].table = m.table /\ [m EXCEPT !.alive = b].chain = m.chain
             /\ [m EXCEPT !.alive = b].alive = b
    BY DEF Modal
<1> DEFINE f == Orphaned(T)
           alive(i) == modals[i].alive /\ modals[i].table \notin T
<1>2. f = [i \in DOMAIN modals |-> [modals[i] EXCEPT !.alive = alive(i)]]
    BY DEF Orphaned
<1>3. \A i \in DOMAIN modals : alive(i) \in BOOLEAN
    OBVIOUS
<1>4. \A i \in DOMAIN modals : modals[i] \in Modal
    OBVIOUS
<1> HIDE DEF f, alive
<1>5. \A i \in DOMAIN modals :
         /\ f[i] \in Modal /\ f[i].kind = modals[i].kind /\ f[i].table = modals[i].table
         /\ f[i].chain = modals[i].chain /\ f[i].alive = alive(i)
    BY <1>1, <1>2, <1>3, <1>4
<1>6. f = [i \in DOMAIN modals |-> f[i]]
    BY <1>2
<1>7. f \in Seq(Modal) /\ DOMAIN f = DOMAIN modals
    BY <1>5, <1>6, FunctionSeq
<1>8. \A i \in DOMAIN modals : f[i].alive <=> modals[i].alive /\ modals[i].table \notin T
    BY <1>5 DEF alive
<1> QED BY <1>5, <1>7, <1>8 DEF f

\* A buy-in dialog is about the table of its queue.
OfItsQueue(m) ==
    m.kind = "buyin" => m.chain \in DOMAIN chains /\ chains[m.chain].table = m.table

\* What a step does to the stack of dialogs.
LEMMA StackCases ==
    ASSUME TablesInv, Next
    PROVE  \/ UNCHANGED modals
           \/ modals # <<>> /\ modals' = Tail(modals)
           \/ \E m \in Modal : /\ m.kind \in {"buyin", "recharge"} /\ OfItsQueue(m)
                              /\ modals' = <<m>> \o modals
           \/ \E t \in Tables : closeEvent(t)
           \/ \E T : modals' = Orphaned(T)
<1>1. /\ modals \in Seq(Modal) /\ chains \in Seq(GoodChain) /\ down \in Seq(Reply \cup Call)
      /\ Len(chains) <= MaxChains /\ MaxChains \in Nat /\ 0 \in 0 .. MaxChains
    BY GoodChains, TablesAssumption DEF TablesInv
<1>2. ASSUME NEW c \in DOMAIN chains, Step(c)
      PROVE  \/ UNCHANGED modals
             \/ \E m \in Modal : /\ m.kind \in {"buyin", "recharge"} /\ OfItsQueue(m)
                              /\ modals' = <<m>> \o modals
    <2>1. CASE CashBuyIn(c)
        <3>1. c \in 0 .. MaxChains /\ chains[c] \in GoodChain
            BY <1>1
        <3>2. chains[c].table \in Tables
            BY <3>1 DEF GoodChain, Chain
        <3>3. exec("buyin", chains[c].table, c)
            BY <2>1 DEF CashBuyIn
        <3>4. PICK m \in Modal : /\ m.kind = "buyin" /\ m.table = chains[c].table /\ m.chain = c
                                 /\ m = [kind |-> "buyin", table |-> chains[c].table,
                                         chain |-> c, alive |-> TRUE]
            BY <3>1, <3>2 DEF Modal
        <3>5. modals' = modals \/ modals' = <<m>> \o modals
            BY <3>3, <3>4 DEF exec
        <3>6. OfItsQueue(m)
            BY <3>4 DEF OfItsQueue
        <3> QED BY <3>4, <3>5, <3>6
    <2> QED BY <1>2, <2>1
            DEF Step, LoginRequired, InitTableWindow, InitControls, UpdateWaiters, Ask,
                AddWaiterRefused, OpenGameTable
<1>3. CASE Deliver
    <2>1. CASE show_recharge_message
        <3>1. down # <<>> /\ exec("recharge", Head(down).table, 0)
            BY <2>1 DEF show_recharge_message, Arrives
        <3>2. Head(down) \in Reply \cup Call
            BY <1>1, <3>1, FirstOut
        <3>3. Head(down).table \in Tables
            BY <3>2 DEF Reply, Call
        <3>4. PICK m \in Modal : m = [kind |-> "recharge", table |-> Head(down).table,
                                     chain |-> 0, alive |-> TRUE]
            BY <1>1, <3>3 DEF Modal
        <3>5. modals' = modals \/ modals' = <<m>> \o modals
            BY <3>1, <3>4 DEF exec
        <3>6. m.kind = "recharge" /\ OfItsQueue(m)
            BY <3>4 DEF OfItsQueue
        <3> QED BY <3>4, <3>5, <3>6
    <2>2. CASE DeliverCloseReply \/ close_table
        BY <2>2 DEF DeliverCloseReply, close_table, removeGame
    <2> QED BY <1>3, <2>1, <2>2 DEF Deliver, DeliverReply, set_table_state
<1>4. CASE Answer \/ BuyInGone
    BY <1>4 DEF Answer, AcceptBuyIn, RejectBuyIn, AnswerRecharge, AnswerQuestion, BuyInGone,
                Asked
<1>5. CASE onDisconnected
    BY <1>5 DEF onDisconnected, removeGame
<1>6. CASE Serve \/ Reconnect \/ (\E kind \in Kinds, t \in Tables : Click(kind, t))
            \/ (\E proc \in ServerSends, t \in Tables : ServerCall(proc, t))
    BY <1>6 DEF Serve, Reconnect, Click, ServerCall
<1> QED BY <1>2, <1>3, <1>4, <1>5, <1>6 DEF Next

LEMMA StackTypes ==
    ASSUME TablesInv, Next
    PROVE  modals' \in Seq(Modal)
<1>1. modals \in Seq(Modal) /\ 0 \in 0 .. MaxChains
    BY GoodChains, TablesAssumption DEF TablesInv
<1>2. ASSUME NEW t \in Tables, closeEvent(t) PROVE modals' \in Seq(Modal)
    <2>1. [kind |-> "question", table |-> t, chain |-> 0, alive |-> TRUE] \in Modal
        BY <1>1 DEF Modal
    <2> QED BY <1>2, <2>1 DEF closeEvent
<1>3. CASE modals # <<>> /\ modals' = Tail(modals)
    BY <1>1, <1>3, PopAt
<1>4. CASE \E m \in Modal : m.kind \in {"buyin", "recharge"} /\ modals' = <<m>> \o modals
    BY <1>1, <1>4, PushAt
<1>5. CASE \E T : modals' = Orphaned(T)
    BY <1>1, <1>5, OrphanedAt
<1> QED BY <1>1, <1>2, <1>3, <1>4, <1>5, StackCases

\* What a step does to the callbacks that wait for the reply to a Close.
LEMMA ClosingCases ==
    ASSUME TablesInv, Next
    PROVE  \/ UNCHANGED closing
           \/ /\ DeliverCloseReply /\ Head(down) \in Reply
              /\ closing' = [closing EXCEPT ![Head(down).table] = 0]
           \/ /\ AnswerQuestion /\ modals # <<>> /\ Head(modals).kind = "question"
              /\ closing' = [closing EXCEPT ![Head(modals).table] = @ + 1]
<1>1. ASSUME NEW c \in DOMAIN chains, Step(c) PROVE UNCHANGED closing
    BY <1>1 DEF Step, LoginRequired, InitTableWindow, InitControls, UpdateWaiters, Ask,
                AddWaiterRefused, OpenGameTable, CashBuyIn
<1>2. CASE Deliver
    <2>1. ASSUME DeliverCloseReply PROVE Head(down) \in Reply
        <3>1. down # <<>> /\ "ok" \in DOMAIN Head(down)
            BY <2>1 DEF DeliverCloseReply, Arrives, IsReply
        <3>2. Head(down) \in Reply \cup Call
            BY <3>1, GoodChains, FirstOut DEF TablesInv
        <3>3. \A m \in Call : "ok" \notin DOMAIN m
            BY DEF Call
        <3> QED BY <3>1, <3>2, <3>3
    <2> QED BY <1>2, <2>1
            DEF Deliver, DeliverReply, DeliverCloseReply, set_table_state, close_table,
                show_recharge_message
<1>3. CASE Answer \/ BuyInGone
    BY <1>3 DEF Answer, AcceptBuyIn, RejectBuyIn, AnswerRecharge, AnswerQuestion, BuyInGone,
                Asked
<1>4. CASE Serve \/ Reconnect \/ onDisconnected
            \/ (\E t \in Tables : closeEvent(t))
            \/ (\E kind \in Kinds, t \in Tables : Click(kind, t))
            \/ (\E proc \in ServerSends, t \in Tables : ServerCall(proc, t))
    BY <1>4 DEF Serve, Reconnect, onDisconnected, closeEvent, Click, ServerCall
<1> QED BY <1>1, <1>2, <1>3, <1>4 DEF Next

\* A table that is asked about twice has room for both answers.
LEMMA QuestionStep ==
    ASSUME TablesInv, Next
    PROVE  closing' \in [Tables -> 0 .. MaxClose] /\ QuestionInv'
<1>1. /\ closing \in [Tables -> 0 .. MaxClose] /\ modals \in Seq(Modal) /\ QuestionInv
      /\ MaxClose \in Nat
    BY GoodChains, TablesAssumption DEF TablesInv
<1>2. \A i \in DOMAIN modals : modals[i].table \in Tables
    <2>1. \A i \in DOMAIN modals : modals[i] \in Modal
        BY <1>1
    <2> QED BY <2>1 DEF Modal
<1>3. ASSUME modals # <<>>, Head(modals).kind = "question"
      PROVE  \A i \in DOMAIN Tail(modals) : Tail(modals)[i].kind # "question"
    <2> SUFFICES ASSUME NEW i \in DOMAIN Tail(modals), Tail(modals)[i].kind = "question"
                 PROVE  FALSE
        OBVIOUS
    <2>1. i + 1 \in DOMAIN modals /\ modals[i + 1].kind = "question" /\ i \in Nat
        BY <1>1, <1>3, PopAt
    <2>2. 1 \in DOMAIN modals /\ modals[1].kind = "question"
        BY <1>1, <1>3, PopAt
    <2>3. i \in Nat \ {0}
        BY <1>1, <1>3, PopAt
    <2>4. i + 1 = 1
        BY <1>1, <2>1, <2>2 DEF QuestionInv
    <2> QED BY <2>1, <2>3, <2>4
<1>4. CASE AnswerQuestion /\ closing' = [closing EXCEPT ![Head(modals).table] = @ + 1]
           /\ modals # <<>> /\ Head(modals).kind = "question"
    <2>1. 1 \in DOMAIN modals /\ Head(modals) = modals[1]
        BY <1>1, <1>4, PopAt
    <2>2. closing[Head(modals).table] < MaxClose /\ Head(modals).table \in Tables
        BY <1>1, <1>2, <1>4, <2>1 DEF QuestionInv
    <2>3. closing' \in [Tables -> 0 .. MaxClose]
        BY <1>1, <1>4, <2>2
    <2>4. modals' = Tail(modals)
        BY <1>4 DEF AnswerQuestion
    <2> QED BY <1>3, <1>4, <2>3, <2>4 DEF QuestionInv
<1>5. CASE DeliverCloseReply /\ Head(down) \in Reply
           /\ closing' = [closing EXCEPT ![Head(down).table] = 0]
    <2>1. closing' \in [Tables -> 0 .. MaxClose]
        <3>1. 0 \in 0 .. MaxClose
            BY <1>1
        <3> QED BY <1>1, <1>5, <3>1
    <2>2. \A t \in Tables : closing'[t] <= closing[t] /\ closing[t] \in Nat /\ closing'[t] \in Nat
        <3>1. \A t \in Tables : closing[t] \in Nat /\ closing'[t] \in {0, closing[t]}
            BY <1>1, <1>5
        <3>2. \A a \in Nat : 0 <= a /\ a <= a
            OBVIOUS
        <3> QED BY <3>1, <3>2
    <2>3. UNCHANGED modals \/ \E T : modals' = Orphaned(T)
        BY <1>5 DEF DeliverCloseReply, removeGame
    <2>4. /\ DOMAIN modals' = DOMAIN modals
          /\ \A i \in DOMAIN modals : /\ modals'[i].kind = modals[i].kind
                                     /\ modals'[i].table = modals[i].table
        BY <1>1, <2>3, OrphanedAt
    <2>5. \A a, b \in Nat : a <= b /\ b < MaxClose => a < MaxClose
        BY <1>1
    <2> QED BY <1>1, <1>2, <2>1, <2>2, <2>4, <2>5 DEF QuestionInv
<1>6. CASE UNCHANGED closing
    <2>1. CASE UNCHANGED modals
        BY <1>1, <1>6, <2>1 DEF QuestionInv
    <2>2. CASE modals # <<>> /\ modals' = Tail(modals)
        <3>1. \A i \in DOMAIN modals' :
                 i + 1 \in DOMAIN modals /\ modals'[i] = modals[i + 1] /\ i \in Nat
            BY <1>1, <2>2, PopAt
        <3>2. \A i, j \in Nat : i + 1 = j + 1 => i = j
            OBVIOUS
        <3> QED BY <1>1, <1>6, <3>1, <3>2 DEF QuestionInv
    <2>3. CASE \E m \in Modal : m.kind \in {"buyin", "recharge"} /\ modals' = <<m>> \o modals
        <3>1. PICK m \in Modal : m.kind \in {"buyin", "recharge"} /\ modals' = <<m>> \o modals
            BY <2>3
        <3>2. \A i \in DOMAIN modals' :
                 /\ i \in Nat
                 /\ i = 1 \/ (i - 1 \in DOMAIN modals /\ modals'[i] = modals[i - 1])
            BY <1>1, <3>1, PushAt
        <3>3. modals'[1] = m
            BY <1>1, <3>1, PushAt
        <3>4. \A i \in DOMAIN modals' : modals'[i].kind = "question" =>
                 i - 1 \in DOMAIN modals /\ modals'[i] = modals[i - 1] /\ i \in Nat
            BY <3>1, <3>2, <3>3
        <3>5. \A i, j \in Nat : i - 1 = j - 1 => i = j
            OBVIOUS
        <3> QED BY <1>1, <1>6, <3>4, <3>5 DEF QuestionInv
    <2>4. CASE \E t \in Tables : closeEvent(t)
        <3>1. PICK t \in Tables : closeEvent(t)
            BY <2>4
        <3>2. /\ modals' = <<[kind |-> "question", table |-> t, chain |-> 0, alive |-> TRUE]>>
              /\ closing[t] < MaxClose
            BY <3>1 DEF closeEvent
        <3>3. \A i \in DOMAIN modals' : i = 1 /\ modals'[i].table = t
            BY <3>2
        <3> QED BY <1>1, <1>6, <3>2, <3>3 DEF QuestionInv
    <2>5. CASE \E T : modals' = Orphaned(T)
        <3>1. /\ DOMAIN modals' = DOMAIN modals
              /\ \A i \in DOMAIN modals : /\ modals'[i].kind = modals[i].kind
                                         /\ modals'[i].table = modals[i].table
            BY <1>1, <2>5, OrphanedAt
        <3> QED BY <1>1, <1>6, <3>1 DEF QuestionInv
    <2> QED BY <1>1, <1>6, <2>1, <2>2, <2>3, <2>4, <2>5, StackCases
<1> QED BY <1>4, <1>5, <1>6, ClosingCases

LEMMA TablesInit == Init => TablesInv
<1> SUFFICES ASSUME Init PROVE TablesInv
    OBVIOUS
<1>1. /\ <<>> \in Seq(GoodChain) /\ <<>> \in Seq(Modal) /\ <<>> \in Seq(Request)
      /\ <<>> \in Seq(Reply \cup Call) /\ DOMAIN <<>> = {} /\ Len(<<>>) = 0
    OBVIOUS
<1>2. MaxChains \in Nat /\ MaxEvents \in Nat /\ MaxDrops \in Nat /\ MaxClose \in Nat
    BY TablesAssumption
<1>3. /\ chains = <<>> /\ modals = <<>> /\ up = <<>> /\ down = <<>> /\ connected = TRUE
      /\ m_gameTables = {} /\ shown = {} /\ m_handlers = {} /\ crash = "none"
      /\ events = 0 /\ drops = 0
    BY DEF Init
<1>4. /\ updaters \in [Tables -> Nat] /\ closing \in [Tables -> 0 .. MaxClose]
      /\ seat \in [Tables -> {"none", "viewer", "reserved", "player"}]
    BY <1>2 DEF Init
<1>5. events \in 0 .. MaxEvents /\ drops \in 0 .. MaxDrops /\ 0 <= MaxChains
    BY <1>2, <1>3
<1>6. QuestionInv
    BY <1>1, <1>3 DEF QuestionInv
<1>7. TablesTypeOK
    BY <1>1, <1>3, <1>4, <1>5, GoodChains
<1> QED BY <1>1, <1>3, <1>5, <1>6, <1>7 DEF TablesInv

LEMMA TablesStep == TablesInv /\ [Next]_vars => TablesInv'
<1> SUFFICES ASSUME TablesInv, [Next]_vars PROVE TablesInv'
    OBVIOUS
<1>1. CASE Next
    <2>1. /\ m_gameTables' \subseteq Tables /\ shown' \subseteq m_gameTables'
          /\ m_handlers' \subseteq Tables /\ updaters' \in [Tables -> Nat]
          /\ crash' \in {"none", "assert", "null", "freed"}
        BY <1>1, WindowTypes
    <2>2. chains' \in Seq(GoodChain) /\ Len(chains') <= MaxChains
        BY <1>1, ChainsTypes
    <2>3. modals' \in Seq(Modal) /\ closing' \in [Tables -> 0 .. MaxClose] /\ QuestionInv'
        BY <1>1, StackTypes, QuestionStep
    <2>4. up' \in Seq(Request)
        BY <1>1, UpTypes
    <2>5. /\ down' \in Seq(Reply \cup Call) /\ connected' \in BOOLEAN
          /\ seat' \in [Tables -> {"none", "viewer", "reserved", "player"}]
          /\ events' \in 0 .. MaxEvents /\ drops' \in 0 .. MaxDrops
        BY <1>1, ServerTypes DEF SeatKinds
    <2>6. TablesTypeOK'
        BY <2>1, <2>2, <2>3, <2>4, <2>5, GoodSeq DEF TablesTypeOK
    <2> QED BY <2>2, <2>3, <2>6 DEF TablesInv
<1>2. CASE UNCHANGED vars
    BY <1>2 DEF vars, windowVars, serverVars, TablesInv, TablesTypeOK, QuestionInv
<1> QED BY <1>1, <1>2

(* Windows, groups, queues, dialogs and messages keep their types for every
   set of tables, every server and every user; in particular a question about
   a table is never asked when its callbacks are as many as the model lets
   wait, whatever other dialogs are shown on top of it. *)
THEOREM TablesTypeCorrect == Spec => []TablesTypeOK
<1>1. TablesInv => TablesTypeOK
    BY DEF TablesInv
<1> QED BY <1>1, TablesInit, TablesStep, PTL DEF Spec

-----------------------------------------------------------------------------
(* Buy-in dialogs and the queues that wait in them.                          *)

\* Every buy-in dialog is of a queue that waits in it, no two are of the same,
\* and every queue in a dialog has one.
DialogInv ==
    /\ \A i \in DOMAIN modals : modals[i].kind = "buyin" =>
          /\ modals[i].chain \in DOMAIN chains
          /\ chains[modals[i].chain].at = "dialog"
    /\ \A i, j \in DOMAIN modals :
          /\ modals[i].kind = "buyin" /\ modals[j].kind = "buyin"
          /\ modals[i].chain = modals[j].chain
          => i = j
    /\ \A c \in DOMAIN chains : chains[c].at = "dialog" =>
          \E i \in DOMAIN modals : modals[i].kind = "buyin" /\ modals[i].chain = c

\* The queues in a dialog stay in it, and no others get there.
SameDialogs ==
    /\ DOMAIN chains \subseteq DOMAIN chains'
    /\ \A c \in DOMAIN chains' :
          chains'[c].at = "dialog" <=> c \in DOMAIN chains /\ chains[c].at = "dialog"

\* Other dialogs come and go, windows are deleted under the dialogs.
LEMMA DialogKept ==
    ASSUME modals \in Seq(Modal), DialogInv, SameDialogs,
           \/ UNCHANGED modals
           \/ modals # <<>> /\ Head(modals).kind # "buyin" /\ modals' = Tail(modals)
           \/ \E m \in Modal : m.kind # "buyin" /\ modals' = <<m>> \o modals
           \/ \E T : modals' = Orphaned(T)
    PROVE  DialogInv'
<1>1. CASE UNCHANGED modals
    BY <1>1 DEF DialogInv, SameDialogs
<1>2. CASE modals # <<>> /\ Head(modals).kind # "buyin" /\ modals' = Tail(modals)
    <2>1. \A i \in DOMAIN modals' :
             i + 1 \in DOMAIN modals /\ modals'[i] = modals[i + 1] /\ i \in Nat
        BY <1>2, PopAt
    <2>2. \A i \in DOMAIN modals : modals[i].kind = "buyin" =>
             i - 1 \in DOMAIN modals' /\ modals'[i - 1] = modals[i]
        BY <1>2, PopAt
    <2>3. \A i, j \in Nat : i + 1 = j + 1 => i = j
        OBVIOUS
    <2>4. \A i \in DOMAIN modals' : modals'[i].kind = "buyin" =>
             modals'[i].chain \in DOMAIN chains' /\ chains'[modals'[i].chain].at = "dialog"
        BY <2>1 DEF DialogInv, SameDialogs
    <2>5. \A i, j \in DOMAIN modals' :
             /\ modals'[i].kind = "buyin" /\ modals'[j].kind = "buyin"
             /\ modals'[i].chain = modals'[j].chain
             => i = j
        BY <2>1, <2>3 DEF DialogInv
    <2>6. \A c \in DOMAIN chains' : chains'[c].at = "dialog" =>
             \E i \in DOMAIN modals' : modals'[i].kind = "buyin" /\ modals'[i].chain = c
        BY <2>2 DEF DialogInv, SameDialogs
    <2> QED BY <2>4, <2>5, <2>6 DEF DialogInv
<1>3. CASE \E m \in Modal : m.kind # "buyin" /\ modals' = <<m>> \o modals
    <2>1. PICK m \in Modal : m.kind # "buyin" /\ modals' = <<m>> \o modals
        BY <1>3
    <2>2. modals'[1] = m
        BY <2>1, PushAt
    <2>3. \A i \in DOMAIN modals' : modals'[i].kind = "buyin" =>
             i - 1 \in DOMAIN modals /\ modals'[i] = modals[i - 1] /\ i \in Nat
        BY <2>1, <2>2, PushAt
    <2>4. \A i \in DOMAIN modals : i + 1 \in DOMAIN modals' /\ modals'[i + 1] = modals[i]
        BY <2>1, PushAt
    <2>5. \A i, j \in Nat : i - 1 = j - 1 => i = j
        OBVIOUS
    <2>6. \A i \in DOMAIN modals' : modals'[i].kind = "buyin" =>
             modals'[i].chain \in DOMAIN chains' /\ chains'[modals'[i].chain].at = "dialog"
        BY <2>3 DEF DialogInv, SameDialogs
    <2>7. \A i, j \in DOMAIN modals' :
             /\ modals'[i].kind = "buyin" /\ modals'[j].kind = "buyin"
             /\ modals'[i].chain = modals'[j].chain
             => i = j
        BY <2>3, <2>5 DEF DialogInv
    <2>8. ASSUME NEW c \in DOMAIN chains', chains'[c].at = "dialog"
          PROVE  \E i \in DOMAIN modals' : modals'[i].kind = "buyin" /\ modals'[i].chain = c
        <3>1. c \in DOMAIN chains /\ chains[c].at = "dialog"
            BY <2>8 DEF SameDialogs
        <3>2. PICK i \in DOMAIN modals : modals[i].kind = "buyin" /\ modals[i].chain = c
            BY <3>1 DEF DialogInv
        <3> QED BY <2>4, <3>2
    <2> QED BY <2>6, <2>7, <2>8 DEF DialogInv
<1>4. CASE \E T : modals' = Orphaned(T)
    <2>1. /\ DOMAIN modals' = DOMAIN modals
          /\ \A i \in DOMAIN modals : /\ modals'[i].kind = modals[i].kind
                                     /\ modals'[i].chain = modals[i].chain
        BY <1>4, OrphanedAt
    <2> QED BY <2>1 DEF DialogInv, SameDialogs
<1> QED BY <1>1, <1>2, <1>3, <1>4

\* A queue that is in no dialog goes on, or another starts.
LEMMA SameAfterDone ==
    ASSUME chains \in Seq(GoodChain), NEW c, NEW status \in BOOLEAN, done(c, status),
           c \in DOMAIN chains => chains[c].at # "dialog"
    PROVE  SameDialogs
<1>1. /\ DOMAIN chains' = DOMAIN chains
      /\ \A d \in DOMAIN chains :
             chains'[d] = IF d = c THEN on_action_done(chains[c], status) ELSE chains[d]
    BY DoneChains
<1>2. c \in DOMAIN chains => on_action_done(chains[c], status).at # "dialog"
    BY DoneType
<1> QED BY <1>1, <1>2 DEF SameDialogs

LEMMA SameAfterStage ==
    ASSUME chains \in Seq(GoodChain), NEW c, NEW s \in Stages,
           chains' = [chains EXCEPT ![c].at = s], s # "dialog",
           c \in DOMAIN chains => chains[c].at # "dialog"
    PROVE  SameDialogs
<1>1. /\ DOMAIN chains' = DOMAIN chains
      /\ \A d \in DOMAIN chains :
             chains'[d] = IF d = c THEN [chains[c] EXCEPT !.at = s] ELSE chains[d]
    BY StageChains
<1>2. c \in DOMAIN chains => [chains[c] EXCEPT !.at = s].at # "dialog"
    BY StageType
<1> QED BY <1>1, <1>2 DEF SameDialogs

\* The buy-in on top returns, and its queue goes on or ends.
LEMMA DialogAnswered ==
    ASSUME TablesInv, DialogInv, modals # <<>>, Head(modals).kind = "buyin",
           modals' = Tail(modals), NEW status \in BOOLEAN, done(Head(modals).chain, status)
    PROVE  DialogInv'
<1> DEFINE c == Head(modals).chain
<1>1. modals \in Seq(Modal) /\ chains \in Seq(GoodChain)
    BY GoodChains DEF TablesInv
<1>2. 1 \in DOMAIN modals /\ Head(modals) = modals[1]
    BY <1>1, PopAt
<1>3. c \in DOMAIN chains
    BY <1>2 DEF DialogInv
<1>4. /\ DOMAIN chains' = DOMAIN chains
      /\ \A d \in DOMAIN chains :
             chains'[d] = IF d = c THEN on_action_done(chains[c], status) ELSE chains[d]
    BY <1>1, DoneChains
<1>5. on_action_done(chains[c], status).at # "dialog"
    BY <1>1, <1>3, DoneType
<1>6. \A i \in DOMAIN modals' :
         i + 1 \in DOMAIN modals /\ modals'[i] = modals[i + 1] /\ i \in Nat \ {0}
    BY <1>1, PopAt
<1>7. \A i \in DOMAIN modals : i = 1 \/ (i - 1 \in DOMAIN modals' /\ modals'[i - 1] = modals[i])
    BY <1>1, PopAt
<1>8. \A i, j \in Nat \ {0} : i + 1 # 1 /\ (i + 1 = j + 1 => i = j)
    OBVIOUS
<1> HIDE DEF c
<1>9. \A i \in DOMAIN modals' : modals'[i].kind = "buyin" => modals'[i].chain # c
    BY <1>2, <1>6, <1>8 DEF DialogInv, c
<1>10. \A i \in DOMAIN modals' : modals'[i].kind = "buyin" =>
          modals'[i].chain \in DOMAIN chains' /\ chains'[modals'[i].chain].at = "dialog"
    BY <1>4, <1>6, <1>9 DEF DialogInv
<1>11. \A i, j \in DOMAIN modals' :
          /\ modals'[i].kind = "buyin" /\ modals'[j].kind = "buyin"
          /\ modals'[i].chain = modals'[j].chain
          => i = j
    BY <1>6, <1>8 DEF DialogInv
<1>12. ASSUME NEW d \in DOMAIN chains', chains'[d].at = "dialog"
       PROVE  \E i \in DOMAIN modals' : modals'[i].kind = "buyin" /\ modals'[i].chain = d
    <2>1. d \in DOMAIN chains /\ d # c /\ chains[d].at = "dialog"
        BY <1>4, <1>5, <1>12
    <2>2. PICK i \in DOMAIN modals : modals[i].kind = "buyin" /\ modals[i].chain = d
        BY <2>1 DEF DialogInv
    <2>3. i # 1
        BY <1>2, <2>1, <2>2 DEF c
    <2> QED BY <1>7, <2>2, <2>3
<1> QED BY <1>10, <1>11, <1>12 DEF DialogInv

\* CashBuyIn shows a dialog for a queue that was in none.
LEMMA DialogShown ==
    ASSUME TablesInv, DialogInv, NEW c \in DOMAIN chains, CashBuyIn(c)
    PROVE  DialogInv'
<1>1. /\ modals \in Seq(Modal) /\ chains \in Seq(GoodChain)
      /\ Len(chains) <= MaxChains /\ MaxChains \in Nat
    BY GoodChains, TablesAssumption DEF TablesInv
<1>2. c \in 0 .. MaxChains /\ chains[c] \in GoodChain /\ chains[c].at = "scheduled"
    BY <1>1 DEF CashBuyIn, Due
<1>3. chains[c].table \in Tables /\ exec("buyin", chains[c].table, c)
    BY <1>2 DEF GoodChain, Chain, CashBuyIn
<1>4. CASE crash' # "none" /\ modals' = modals
    BY <1>4 DEF CashBuyIn, DialogInv
<1>5. CASE crash' = "none" /\ \E m \in Modal : /\ m.kind = "buyin" /\ m.chain = c
                                              /\ modals' = <<m>> \o modals
    <2>1. PICK m \in Modal : m.kind = "buyin" /\ m.chain = c /\ modals' = <<m>> \o modals
        BY <1>5
    <2>2. /\ 1 \in DOMAIN modals' /\ modals'[1] = m
          /\ \A i \in DOMAIN modals : i + 1 \in DOMAIN modals' /\ modals'[i + 1] = modals[i]
          /\ \A i \in DOMAIN modals' :
                 /\ i \in Nat
                 /\ i = 1 \/ (i - 1 \in DOMAIN modals /\ modals'[i] = modals[i - 1])
        BY <1>1, <2>1, PushAt
    <2>3. chains' = [chains EXCEPT ![c].at = "dialog"] /\ "dialog" \in Stages
        BY <1>5 DEF CashBuyIn, Stages
    <2>4. /\ DOMAIN chains' = DOMAIN chains
          /\ \A d \in DOMAIN chains :
                 chains'[d] = IF d = c THEN [chains[c] EXCEPT !.at = "dialog"] ELSE chains[d]
        BY <1>1, <2>3, StageChains
    <2>5. [chains[c] EXCEPT !.at = "dialog"].at = "dialog"
        BY <1>2, <2>3, StageType
    <2>6. \A d \in DOMAIN chains : chains'[d].at = "dialog" <=> d = c \/ chains[d].at = "dialog"
        BY <2>4, <2>5
    <2>7. \A i \in DOMAIN modals : modals[i].kind = "buyin" => modals[i].chain # c
        BY <1>2 DEF DialogInv
    <2>8. \A i, j \in Nat : i - 1 = j - 1 => i = j
        OBVIOUS
    <2>9. \A i \in DOMAIN modals' : modals'[i].kind = "buyin" =>
             modals'[i].chain \in DOMAIN chains' /\ chains'[modals'[i].chain].at = "dialog"
        BY <2>1, <2>2, <2>4, <2>6 DEF DialogInv
    <2>10. \A i, j \in DOMAIN modals' :
              /\ modals'[i].kind = "buyin" /\ modals'[j].kind = "buyin"
              /\ modals'[i].chain = modals'[j].chain
              => i = j
        BY <2>1, <2>2, <2>7, <2>8 DEF DialogInv
    <2>11. ASSUME NEW d \in DOMAIN chains', chains'[d].at = "dialog"
           PROVE  \E i \in DOMAIN modals' : modals'[i].kind = "buyin" /\ modals'[i].chain = d
        <3>1. CASE d = c
            BY <2>1, <2>2, <3>1
        <3>2. CASE d # c
            <4>1. d \in DOMAIN chains /\ chains[d].at = "dialog"
                BY <2>4, <2>6, <2>11, <3>2
            <4>2. PICK i \in DOMAIN modals : modals[i].kind = "buyin" /\ modals[i].chain = d
                BY <4>1 DEF DialogInv
            <4> QED BY <2>2, <4>2
        <3> QED BY <3>1, <3>2
    <2> QED BY <2>9, <2>10, <2>11 DEF DialogInv
<1>6. \/ crash' # "none" /\ modals' = modals
      \/ crash' = "none" /\ \E m \in Modal : /\ m.kind = "buyin" /\ m.chain = c
                                             /\ modals' = <<m>> \o modals
    <2> DEFINE t == chains[c].table
               new == [kind |-> "buyin", table |-> t, chain |-> c, alive |-> TRUE]
    <2>1. new \in Modal /\ new.kind = "buyin" /\ new.chain = c
        BY <1>2, <1>3 DEF Modal
    <2>2. modals' = IF crash' = "none" THEN <<new>> \o modals ELSE modals
        BY <1>3 DEF exec
    <2> HIDE DEF new
    <2> QED BY <2>1, <2>2
<1> QED BY <1>4, <1>5, <1>6

\* Every step keeps the dialogs and the queues together.
LEMMA DialogStep ==
    ASSUME TablesInv, DialogInv, [Next]_vars
    PROVE  DialogInv'
<1>1. /\ modals \in Seq(Modal) /\ chains \in Seq(GoodChain) /\ down \in Seq(Reply \cup Call)
      /\ MaxChains \in Nat
    BY GoodChains, TablesAssumption DEF TablesInv
<1>2. UNCHANGED chains => SameDialogs
    BY DEF SameDialogs
<1>3. ASSUME NEW c \in DOMAIN chains, Step(c) PROVE DialogInv'
    <2>1. CASE CashBuyIn(c)
        BY <2>1, DialogShown
    <2>2. CASE OpenGameTable(c)
        <3>1. UNCHANGED modals /\ chains[c].at # "dialog"
            BY <2>2 DEF OpenGameTable, Due
        <3>2. UNCHANGED chains \/ done(c, TRUE)
            BY <2>2 DEF OpenGameTable
        <3>3. SameDialogs
            BY <1>1, <1>2, <3>1, <3>2, SameAfterDone
        <3> QED BY <1>1, <3>1, <3>3, DialogKept
    <2>3. CASE Ask(c)
        <3>1. UNCHANGED modals /\ chains[c].at # "dialog"
            BY <2>3 DEF Ask, Due
        <3>2. PICK s \in {"waiting", "lost"} : chains' = [chains EXCEPT ![c].at = s]
            BY <2>3 DEF Ask
        <3>3. s \in Stages /\ s # "dialog"
            BY DEF Stages
        <3>4. SameDialogs
            BY <1>1, <3>1, <3>2, <3>3, SameAfterStage
        <3> QED BY <1>1, <3>1, <3>4, DialogKept
    <2>4. CASE LoginRequired(c) \/ InitTableWindow(c) \/ InitControls(c)
               \/ UpdateWaiters(c) \/ AddWaiterRefused(c)
        <3>1. UNCHANGED modals /\ chains[c].at # "dialog"
            BY <2>4 DEF LoginRequired, InitTableWindow, InitControls, UpdateWaiters,
                        AddWaiterRefused, Due
        <3>2. PICK status \in BOOLEAN : done(c, status)
            BY <2>4 DEF LoginRequired, InitTableWindow, InitControls, UpdateWaiters,
                        AddWaiterRefused
        <3>3. SameDialogs
            BY <1>1, <3>1, <3>2, SameAfterDone
        <3> QED BY <1>1, <3>1, <3>3, DialogKept
    <2> QED BY <1>3, <2>1, <2>2, <2>3, <2>4 DEF Step
<1>4. CASE AcceptBuyIn
    BY <1>4, DialogAnswered DEF AcceptBuyIn, Asked
<1>5. CASE RejectBuyIn
    BY <1>5, DialogAnswered DEF RejectBuyIn, Asked
<1>6. CASE BuyInGone
    BY <1>6, DialogAnswered DEF BuyInGone
<1>7. CASE AnswerRecharge \/ AnswerQuestion
    <2>1. modals # <<>> /\ Head(modals).kind # "buyin" /\ modals' = Tail(modals)
        BY <1>7 DEF AnswerRecharge, AnswerQuestion, Asked
    <2>2. UNCHANGED chains
        BY <1>7 DEF AnswerRecharge, AnswerQuestion
    <2> QED BY <1>1, <1>2, <2>1, <2>2, DialogKept
<1>8. ASSUME NEW kind \in Kinds, NEW t \in Tables, Click(kind, t) PROVE DialogInv'
    <2> DEFINE n == Len(chains) + 1
    <2>1. /\ DOMAIN chains' = DOMAIN chains \cup {n} /\ n \notin DOMAIN chains
          /\ \A d \in DOMAIN chains : chains'[d] = chains[d]
          /\ chains'[n].at = "scheduled"
        <3> DEFINE new == [kind |-> kind, table |-> t, pos |-> 1, at |-> "scheduled",
                           own |-> TRUE]
        <3>1. new.at = "scheduled"
            OBVIOUS
        <3>2. /\ DOMAIN chains' = DOMAIN chains \cup {n} /\ n \notin DOMAIN chains
              /\ \A d \in DOMAIN chains : chains'[d] = chains[d]
              /\ chains'[n] = new
            BY <1>1, <1>8, ClickChains
        <3> HIDE DEF new, n
        <3> QED BY <3>1, <3>2
    <2> HIDE DEF n
    <2>2. SameDialogs
        BY <2>1 DEF SameDialogs
    <2>3. UNCHANGED modals
        BY <1>8 DEF Click
    <2> QED BY <1>1, <2>2, <2>3, DialogKept
<1>9. ASSUME NEW t \in Tables, closeEvent(t) PROVE DialogInv'
    <2> DEFINE m == [kind |-> "question", table |-> t, chain |-> 0, alive |-> TRUE]
    <2>1. modals = <<>> /\ modals' = <<m>> /\ UNCHANGED chains
        BY <1>9 DEF closeEvent, MayClick
    <2>2. m.kind # "buyin"
        OBVIOUS
    <2> HIDE DEF m
    <2>3. DOMAIN <<m>> = {1} /\ <<m>>[1] = m /\ DOMAIN modals = {}
        BY <2>1
    <2>4. \A c \in DOMAIN chains : chains[c].at # "dialog"
        BY <2>3 DEF DialogInv
    <2>5. \A i \in DOMAIN modals' : modals'[i].kind # "buyin"
        BY <2>1, <2>2, <2>3
    <2> QED BY <2>1, <2>4, <2>5 DEF DialogInv
<1>10. CASE Serve \/ Reconnect \/ (\E proc \in ServerSends, t \in Tables : ServerCall(proc, t))
    <2>1. UNCHANGED modals /\ UNCHANGED chains
        BY <1>10 DEF Serve, Reconnect, ServerCall
    <2> QED BY <1>1, <1>2, <2>1, DialogKept
<1>11. CASE Deliver
    <2>1. ASSUME NEW proc, DeliverReply(proc) PROVE DialogInv'
        <3>1. /\ DOMAIN chains' = DOMAIN chains
              /\ \A d \in DOMAIN chains :
                     IF Waits(d, proc, Head(down).table)
                     THEN chains'[d].at \in {"scheduled", "done", "failed"}
                     ELSE chains'[d] = chains[d]
            BY <2>1, ReplyChains
        <3>2. \A d : Waits(d, proc, Head(down).table) => chains[d].at # "dialog"
            BY DEF Waits
        <3>3. SameDialogs
            BY <3>1, <3>2 DEF SameDialogs
        <3>4. UNCHANGED modals
            BY <2>1 DEF DeliverReply
        <3> QED BY <1>1, <3>3, <3>4, DialogKept
    <2>2. CASE DeliverCloseReply \/ close_table
        <3>1. UNCHANGED chains
            BY <2>2 DEF DeliverCloseReply, close_table
        <3>2. UNCHANGED modals \/ \E T : modals' = Orphaned(T)
            BY <2>2 DEF DeliverCloseReply, close_table, removeGame
        <3> QED BY <1>1, <1>2, <3>1, <3>2, DialogKept
    <2>3. CASE set_table_state
        <3>1. UNCHANGED modals /\ UNCHANGED chains
            BY <2>3 DEF set_table_state
        <3> QED BY <1>1, <1>2, <3>1, DialogKept
    <2>4. CASE show_recharge_message
        <3>1. down # <<>> /\ exec("recharge", Head(down).table, 0) /\ UNCHANGED chains
            BY <2>4 DEF show_recharge_message, Arrives
        <3>2. Head(down) \in Reply \cup Call /\ 0 \in 0 .. MaxChains
            BY <1>1, <3>1, FirstOut
        <3>3. Head(down).table \in Tables
            BY <3>2 DEF Reply, Call
        <3> DEFINE new == [kind |-> "recharge", table |-> Head(down).table, chain |-> 0,
                           alive |-> TRUE]
        <3>4. new \in Modal /\ new.kind # "buyin"
            BY <3>2, <3>3 DEF Modal
        <3>5. modals' = IF crash' = "none" THEN <<new>> \o modals ELSE modals
            BY <3>1 DEF exec
        <3> HIDE DEF new
        <3>6. UNCHANGED modals
              \/ \E m \in Modal : m.kind # "buyin" /\ modals' = <<m>> \o modals
            BY <3>4, <3>5
        <3> QED BY <1>1, <1>2, <3>1, <3>6, DialogKept
    <2> QED BY <1>11, <2>1, <2>2, <2>3, <2>4 DEF Deliver
<1>12. CASE onDisconnected
    <2>1. /\ DOMAIN chains' = DOMAIN chains
          /\ \A d \in DOMAIN chains :
                 IF chains[d].at = "waiting"
                 THEN chains'[d] = [chains[d] EXCEPT !.at = "lost"]
                 ELSE chains'[d] = chains[d]
        BY <1>1, <1>12, LostChains
    <2>2. \A d \in DOMAIN chains : [chains[d] EXCEPT !.at = "lost"].at = "lost"
        <3>1. \A d \in DOMAIN chains : chains[d] \in GoodChain
            BY <1>1
        <3> QED BY <3>1, StageType DEF Stages
    <2>3. SameDialogs
        BY <2>1, <2>2 DEF SameDialogs
    <2>4. modals' = Orphaned(m_handlers)
        BY <1>12 DEF onDisconnected, removeGame
    <2> QED BY <1>1, <2>3, <2>4, DialogKept
<1>13. CASE UNCHANGED vars
    BY <1>1, <1>2, <1>13, DialogKept DEF vars
<1> QED BY <1>3, <1>4, <1>5, <1>6, <1>7, <1>8, <1>9, <1>10, <1>11, <1>12, <1>13
        DEF Next, Answer

\* The pairing of DialogInv, counted.
LEMMA DialogCount == DialogInv => DialogsMatchQueues
<1> SUFFICES ASSUME DialogInv, NEW c \in DOMAIN chains
             PROVE  Cardinality({i \in DOMAIN modals :
                                    modals[i].kind = "buyin" /\ modals[i].chain = c})
                        = IF chains[c].at = "dialog" THEN 1 ELSE 0
    BY DEF DialogsMatchQueues
<1> DEFINE D == {i \in DOMAIN modals : modals[i].kind = "buyin" /\ modals[i].chain = c}
<1>1. CASE chains[c].at = "dialog"
    <2>1. PICK i \in DOMAIN modals : modals[i].kind = "buyin" /\ modals[i].chain = c
        BY <1>1 DEF DialogInv
    <2>2. D = {i}
        BY <2>1 DEF DialogInv
    <2>3. Cardinality({i}) = 1
        BY FS_Singleton
    <2> QED BY <1>1, <2>2, <2>3
<1>2. CASE chains[c].at # "dialog"
    <2>1. D = {}
        BY <1>2 DEF DialogInv
    <2>2. Cardinality({}) = 0
        BY FS_EmptySet
    <2> QED BY <1>2, <2>1, <2>2
<1> QED BY <1>1, <1>2

LEMMA DialogInit == Init => DialogInv
<1>1. DOMAIN <<>> = {}
    OBVIOUS
<1> QED BY <1>1 DEF Init, DialogInv

\* Whatever the user clicks, the server refuses or calls and the connection
\* loses, each queue that waits in CashBuyIn::exec has one buy-in dialog on the
\* stack and each such dialog one queue: the return of exec answers it once.
THEOREM DialogsMatchQueuesCorrect == Spec => []DialogsMatchQueues
<1>1. (TablesInv /\ DialogInv) /\ [Next]_vars => (TablesInv /\ DialogInv)'
    BY TablesStep, DialogStep
<1>2. TablesInv /\ DialogInv => DialogsMatchQueues
    BY DialogCount
<1> QED BY <1>1, <1>2, TablesInit, DialogInit, PTL DEF Spec

-----------------------------------------------------------------------------
(* Messages of a kind in the two directions.                                 *)

\* Messages of a kind K in a queue, and in both directions.
Has(K, s)  == \E i \in DOMAIN s : s[i] \in K
Once(K, s) == \A i, j \in DOMAIN s : s[i] \in K /\ s[j] \in K => i = j
NoneBefore(G, R, s) == \A i, j \in DOMAIN s : j < i /\ s[i] \in R => s[j] \notin G

Flying(K, u, d) == Has(K, u) \/ Has(K, d)
Single(K, u, d) == Once(K, u) /\ Once(K, d) /\ ~(Has(K, u) /\ Has(K, d))

LEMMA HasAppend ==
    ASSUME NEW S, NEW s \in Seq(S), NEW x \in S, NEW K
    PROVE  /\ Has(K, Append(s, x)) <=> Has(K, s) \/ x \in K
           /\ Once(K, s) /\ (x \in K => ~Has(K, s)) => Once(K, Append(s, x))
<1> DEFINE a == Append(s, x)
           n == Len(s) + 1
<1>1. /\ DOMAIN a = DOMAIN s \cup {n} /\ n \notin DOMAIN s /\ a[n] = x
      /\ \A i \in DOMAIN s : a[i] = s[i]
    BY AppendSeq
<1> HIDE DEF a, n
<1>2. Has(K, a) <=> Has(K, s) \/ x \in K
    BY <1>1 DEF Has
<1>3. Once(K, s) /\ (x \in K => ~Has(K, s)) => Once(K, a)
    BY <1>1 DEF Has, Once
<1> QED BY <1>2, <1>3 DEF a

LEMMA TailAt ==
    ASSUME NEW S, NEW s \in Seq(S), s # <<>>
    PROVE  /\ 1 \in DOMAIN s /\ Head(s) = s[1] /\ DOMAIN s \subseteq Nat \ {0}
           /\ \A i \in DOMAIN Tail(s) :
                 i \in Nat /\ i + 1 \in DOMAIN s /\ i + 1 # 1 /\ 1 < i + 1 /\ Tail(s)[i] = s[i + 1]
           /\ \A i \in DOMAIN s : i = 1 \/ (i - 1 \in DOMAIN Tail(s) /\ Tail(s)[i - 1] = s[i])
           /\ \A i, j \in DOMAIN Tail(s) : /\ (i + 1 = j + 1 => i = j)
                                           /\ (j < i => j + 1 < i + 1)
<1>1. DOMAIN s = 1 .. Len(s) /\ Len(s) \in Nat /\ Len(s) > 0 /\ Head(s) = s[1]
    OBVIOUS
<1>2. DOMAIN Tail(s) = 1 .. Len(s) - 1 /\ \A i \in 1 .. Len(s) - 1 : Tail(s)[i] = s[i + 1]
    OBVIOUS
<1>3. \A i \in 1 .. Len(s) : i = 1 \/ (i - 1 \in 1 .. Len(s) - 1 /\ (i - 1) + 1 = i)
    BY <1>1
<1>4. \A i \in 1 .. Len(s) - 1 : i \in Nat /\ i + 1 \in 1 .. Len(s) /\ i + 1 # 1 /\ 1 < i + 1
    BY <1>1
<1>5. \A i, j \in Nat : (i + 1 = j + 1 => i = j) /\ (j < i => j + 1 < i + 1)
    OBVIOUS
<1>6. 1 \in 1 .. Len(s) /\ 1 .. Len(s) \subseteq Nat \ {0}
    BY <1>1
<1>7. \A i \in DOMAIN s : i = 1 \/ (i - 1 \in DOMAIN Tail(s) /\ Tail(s)[i - 1] = s[i])
    BY <1>1, <1>2, <1>3
<1>8. \A i, j \in DOMAIN Tail(s) : (i + 1 = j + 1 => i = j) /\ (j < i => j + 1 < i + 1)
    BY <1>2, <1>4, <1>5
<1>9. \A i \in DOMAIN Tail(s) :
         i \in Nat /\ i + 1 \in DOMAIN s /\ i + 1 # 1 /\ 1 < i + 1 /\ Tail(s)[i] = s[i + 1]
    BY <1>1, <1>2, <1>4
<1> QED BY <1>1, <1>6, <1>7, <1>8, <1>9

LEMMA HasTail ==
    ASSUME NEW S, NEW s \in Seq(S), s # <<>>, NEW K
    PROVE  /\ Has(K, s) <=> Head(s) \in K \/ Has(K, Tail(s))
           /\ Once(K, s) => Once(K, Tail(s)) /\ (Head(s) \in K => ~Has(K, Tail(s)))
<1> DEFINE t == Tail(s)
<1>1. /\ 1 \in DOMAIN s /\ Head(s) = s[1]
      /\ \A i \in DOMAIN t : i + 1 \in DOMAIN s /\ i + 1 # 1 /\ t[i] = s[i + 1]
      /\ \A i \in DOMAIN s : i = 1 \/ (i - 1 \in DOMAIN t /\ t[i - 1] = s[i])
      /\ \A i, j \in DOMAIN t : i + 1 = j + 1 => i = j
    BY TailAt
<1> HIDE DEF t
<1>2. Has(K, s) <=> Head(s) \in K \/ Has(K, t)
    BY <1>1 DEF Has
<1>3. Once(K, s) => Once(K, t)
    BY <1>1 DEF Once
<1>4. Once(K, s) /\ Head(s) \in K => ~Has(K, t)
    BY <1>1 DEF Once, Has
<1> QED BY <1>2, <1>3, <1>4 DEF t

LEMMA BeforeAppend ==
    ASSUME NEW S, NEW s \in Seq(S), NEW x \in S, NEW G, NEW R,
           NoneBefore(G, R, s), x \in R => ~Has(G, s)
    PROVE  NoneBefore(G, R, Append(s, x))
<1> DEFINE a == Append(s, x)
           n == Len(s) + 1
<1>1. /\ DOMAIN a = DOMAIN s \cup {n} /\ n \notin DOMAIN s /\ a[n] = x
      /\ \A i \in DOMAIN s : a[i] = s[i]
    BY AppendSeq
<1>2. \A i \in DOMAIN a : ~(n < i)
    <2>1. DOMAIN s = 1 .. Len(s) /\ Len(s) \in Nat
        OBVIOUS
    <2>2. \A i \in 1 .. Len(s) \cup {n} : ~(n < i)
        BY <2>1
    <2> QED BY <1>1, <2>1, <2>2
<1> HIDE DEF a, n
<1>3. ASSUME NEW i \in DOMAIN a, NEW j \in DOMAIN a, j < i, a[i] \in R
      PROVE  a[j] \notin G
    <2>1. j \in DOMAIN s /\ a[j] = s[j]
        BY <1>1, <1>2, <1>3
    <2>2. CASE i = n
        BY <1>1, <1>3, <2>1, <2>2 DEF Has
    <2>3. CASE i # n
        BY <1>1, <1>3, <2>1, <2>3 DEF NoneBefore
    <2> QED BY <2>2, <2>3
<1> QED BY <1>3 DEF NoneBefore, a

LEMMA BeforeTail ==
    ASSUME NEW S, NEW s \in Seq(S), s # <<>>, NEW G, NEW R, NoneBefore(G, R, s)
    PROVE  /\ NoneBefore(G, R, Tail(s))
           /\ Head(s) \in G => ~Has(R, Tail(s))
<1> DEFINE t == Tail(s)
<1>1. /\ 1 \in DOMAIN s /\ Head(s) = s[1]
      /\ \A i \in DOMAIN t : i + 1 \in DOMAIN s /\ 1 < i + 1 /\ t[i] = s[i + 1]
      /\ \A i, j \in DOMAIN t : j < i => j + 1 < i + 1
    BY TailAt
<1> HIDE DEF t
<1>2. NoneBefore(G, R, t)
    BY <1>1 DEF NoneBefore
<1>3. Head(s) \in G => ~Has(R, t)
    BY <1>1 DEF NoneBefore, Has
<1> QED BY <1>2, <1>3 DEF t

-----------------------------------------------------------------------------
(* Kinds of messages: what is asked for a queue, and what a window's Close   *)
(* asks.  A reply is of the kind of its request.                             *)

AskProcs == {"sit_on_table", "add_viewer", "add_waiter"}
ReplyTo(m, ok) == [proc |-> m.proc, table |-> m.table, chain |-> m.chain, ok |-> ok]

AskOf(c)          == {m \in Request \cup Reply : m.proc \in AskProcs /\ m.chain = c}
AskAbout(c, t, p) == {m \in AskOf(c) : m.table = t /\ m.proc = p}
CloseOf(t)        == {m \in Request \cup Reply : m.proc = "close_table" /\ m.table = t}
CloseCalls        == {m \in Call : m.proc = "close_table"}
GrantOf(t)        == {m \in Reply : m.proc = "close_table" /\ m.table = t /\ m.ok}
Tracked(K) ==
    /\ \A m \in K : m.proc \in Answered
    /\ \A m \in Request : \A ok \in BOOLEAN : ReplyTo(m, ok) \in K <=> m \in K

LEMMA ReplyToIs ==
    ASSUME NEW m \in Request, NEW ok \in BOOLEAN
    PROVE  /\ ReplyTo(m, ok) \in Reply
           /\ ReplyTo(m, ok).proc = m.proc /\ ReplyTo(m, ok).table = m.table
           /\ ReplyTo(m, ok).chain = m.chain /\ ReplyTo(m, ok).ok = ok
BY DEF ReplyTo, Request, Reply

LEMMA CallsApart ==
    ASSUME NEW m
    PROVE  /\ m \in Call => m \notin Request /\ m \notin Reply /\ "ok" \notin DOMAIN m
           /\ m \in Reply => "ok" \in DOMAIN m /\ m \notin Request
BY DEF Call, Request, Reply

LEMMA TrackedAre ==
    /\ \A c : Tracked(AskOf(c))
    /\ \A c, t : \A p \in AskProcs : Tracked(AskAbout(c, t, p))
    /\ \A t : Tracked(CloseOf(t))
    /\ Tracked(CloseCalls)
<1>1. ASSUME NEW c PROVE Tracked(AskOf(c))
    BY ReplyToIs DEF Tracked, AskOf, AskProcs, Answered
<1>2. ASSUME NEW c, NEW t, NEW p \in AskProcs PROVE Tracked(AskAbout(c, t, p))
    BY ReplyToIs DEF Tracked, AskAbout, AskOf, AskProcs, Answered
<1>3. ASSUME NEW t PROVE Tracked(CloseOf(t))
    BY ReplyToIs DEF Tracked, CloseOf, Answered
<1>4. Tracked(CloseCalls)
    BY ReplyToIs, CallsApart DEF Tracked, CloseCalls, Answered
<1> QED BY <1>1, <1>2, <1>3, <1>4

\* Nothing is asked, and at most the server answers.
MessagesKept ==
    \A K : Tracked(K) => /\ Flying(K, up', down') <=> Flying(K, up, down)
                         /\ Single(K, up, down) => Single(K, up', down')

LEMMA MessagesSame ==
    ASSUME UNCHANGED <<up, down>>
    PROVE  MessagesKept
BY DEF MessagesKept

LEMMA PushPlain ==
    ASSUME NEW S, NEW s \in Seq(S), NEW x \in S, NEW K, x \notin K,
           NEW r, r = Append(s, x) \/ r = s
    PROVE  /\ Has(K, r) <=> Has(K, s)
           /\ Once(K, s) => Once(K, r)
<1>1. /\ Has(K, Append(s, x)) <=> Has(K, s)
      /\ Once(K, s) => Once(K, Append(s, x))
    BY HasAppend
<1>2. CASE r = Append(s, x)
    BY <1>1, <1>2
<1>3. CASE r = s
    BY <1>3
<1> QED BY <1>2, <1>3

LEMMA PlainNotTracked ==
    ASSUME NEW K, Tracked(K), NEW m, m.proc \notin Answered
    PROVE  m \notin K
BY DEF Tracked

\* reject() cancels twice.
LEMMA MessagesCancelled ==
    ASSUME up \in Seq(Request), NEW top, top.table \in Tables, top.chain \in 0 .. MaxChains,
           up' = Cancelled(top), UNCHANGED down
    PROVE  MessagesKept
<1> DEFINE p == "sit_on_table_canceled"
           u == Sent(up, p, top.table, top.chain)
           x == [proc |-> p, table |-> top.table, chain |-> top.chain]
<1>1. x \in Request /\ x.proc \notin Answered
    BY DEF Request, Requests, Answered
<1>2. (u = Append(up, x) \/ u = up) /\ (up' = Append(u, x) \/ up' = u)
    BY DEF Cancelled, Sent
<1> HIDE DEF x, u
<1>3. u \in Seq(Request)
    BY <1>1, <1>2
<1>4. ASSUME NEW K, Tracked(K)
      PROVE  /\ Flying(K, up', down') <=> Flying(K, up, down)
             /\ Single(K, up, down) => Single(K, up', down')
    <2>1. x \notin K
        BY <1>1, <1>4, PlainNotTracked
    <2>2. /\ Has(K, u) <=> Has(K, up)
          /\ Once(K, up) => Once(K, u)
        BY <1>1, <1>2, <2>1, PushPlain
    <2>3. /\ Has(K, up') <=> Has(K, u)
          /\ Once(K, u) => Once(K, up')
        BY <1>1, <1>2, <1>3, <2>1, PushPlain
    <2> QED BY <2>2, <2>3 DEF Flying, Single
<1> QED BY <1>4 DEF MessagesKept

\* A request is served: what was on its way to the server is on its way back.
LEMMA MessagesServe ==
    ASSUME TablesInv, Serve
    PROVE  MessagesKept
<1>1. up \in Seq(Request) /\ down \in Seq(Reply \cup Call) /\ up # <<>> /\ up' = Tail(up)
    BY GoodChains DEF TablesInv, Serve
<1>2. Head(up) \in Request
    BY <1>1, FirstOut
<1>3. \/ Head(up).proc \notin Answered /\ down' = down
      \/ \E ok \in BOOLEAN : down' = Append(down, ReplyTo(Head(up), ok))
    <2> DEFINE msg == Head(up)
    <2>1. msg.proc \in Requests /\ msg.table \in Tables /\ seat[msg.table] \in SeatKinds
        BY <1>2, GoodChains DEF Request, TablesInv, SeatKinds
    <2>2. PICK v \in Verdicts(msg.proc, seat[msg.table]) :
              down' = IF msg.proc \in Answered
                      THEN Append(down, [proc |-> msg.proc, table |-> msg.table,
                                         chain |-> msg.chain, ok |-> v[2]])
                      ELSE down
        BY DEF Serve
    <2>3. v[2] \in BOOLEAN
        BY <2>1, VerdictsType
    <2> QED BY <2>2, <2>3 DEF ReplyTo
<1>4. ASSUME NEW K, Tracked(K)
      PROVE  /\ Flying(K, up', down') <=> Flying(K, up, down)
             /\ Single(K, up, down) => Single(K, up', down')
    <2>1. /\ Has(K, up) <=> Head(up) \in K \/ Has(K, up')
          /\ Once(K, up) => Once(K, up') /\ (Head(up) \in K => ~Has(K, up'))
        BY <1>1, HasTail
    <2>2. CASE Head(up).proc \notin Answered /\ down' = down
        <3>1. Head(up) \notin K
            BY <1>4, <2>2, PlainNotTracked
        <3> QED BY <2>1, <2>2, <3>1 DEF Flying, Single
    <2>3. ASSUME NEW ok \in BOOLEAN, down' = Append(down, ReplyTo(Head(up), ok))
          PROVE  /\ Flying(K, up', down') <=> Flying(K, up, down)
                 /\ Single(K, up, down) => Single(K, up', down')
        <3> DEFINE x == ReplyTo(Head(up), ok)
        <3>1. x \in Reply \cup Call /\ (x \in K <=> Head(up) \in K)
            BY <1>2, <1>4, ReplyToIs DEF Tracked
        <3>2. down' = Append(down, x)
            BY <2>3
        <3> HIDE DEF x
        <3>3. /\ Has(K, down') <=> Has(K, down) \/ x \in K
              /\ Once(K, down) /\ (x \in K => ~Has(K, down)) => Once(K, down')
            BY <1>1, <3>1, <3>2, HasAppend
        <3> QED BY <2>1, <3>1, <3>3 DEF Flying, Single
    <2> QED BY <1>3, <2>2, <2>3
<1> QED BY <1>4 DEF MessagesKept

\* What is asked for queue c is what it waits for.
Fits(c, t, p) ==
    /\ c \in DOMAIN chains
    /\ chains[c].at = "waiting" /\ chains[c].table = t
    /\ Current(c) \in DOMAIN Asks /\ Asks[Current(c)] = p

WaitersWait == \A c \in DOMAIN chains : chains[c].at = "waiting" => chains'[c] = chains[c]

-----------------------------------------------------------------------------
(* Seats and windows, with a serial user and any server and connection.      *)

\* Where a queue asks, and whether it has yet to get its answer.
AskPos == [JoinCash |-> 4, WatchCash |-> 1, UserJoiningQueue |-> 2]

Asking(ch) ==
    \/ ch.at = "waiting"
    \/ ch.at = "scheduled" /\ ch.pos <= AskPos[ch.kind]

Shaped(ch) ==
    /\ ch.at \in {"waiting", "lost"} => ch.pos = AskPos[ch.kind]
    /\ ch.at = "dialog" => ch.kind = "JoinCash" /\ ch.pos = 6

\* One queue at a time has yet to get its answer about a table, and a buy-in
\* dialog is a dialog of its queue's table.
QueuesInv ==
    /\ \A c \in DOMAIN chains : Shaped(chains[c])
    /\ \A c, d \in DOMAIN chains :
          /\ Asking(chains[c]) /\ Asking(chains[d])
          /\ chains[c].table = chains[d].table
          => c = d
    /\ \A i \in DOMAIN modals : OfItsQueue(modals[i])

AskAt(t) == {m \in Request \cup Reply : m.proc \in AskProcs /\ m.table = t}

\* Without a session nothing is under way and the server knows nobody.
Offline ==
    ~connected => up = <<>> /\ down = <<>> /\ \A t \in Tables : seat[t] = "none"

\* So one request of the kind that is answered to a queue is under way about a
\* table, and its queue waits for it.
AsksInv ==
    /\ \A t : Single(AskAt(t), up, down)
    /\ \A c, t : \A p \in AskProcs : Flying(AskAbout(c, t, p), up, down) => Fits(c, t, p)

\* What opens a window for a seat, what takes a window away, what seats a
\* player at the buy-in, and what ends the reservation.
OpensOf(t)  == {m \in Reply : m.proc \in {"sit_on_table", "add_viewer"} /\ m.table = t /\ m.ok}
SeatsOf(t)  == {m \in Reply : m.proc = "sit_on_table" /\ m.table = t /\ m.ok}
ClosersOf(t) == GrantOf(t) \cup {m \in CloseCalls : m.table = t}
BuyInOf(t) ==
    {m \in Request : m.proc \in {"sit_on_table_canceled", "set_sit_money"} /\ m.table = t}

Opening(ch) ==
    /\ ch.at = "scheduled"
    /\ \/ ch.kind = "WatchCash" /\ ch.pos \in 2 .. 4
       \/ ch.kind = "JoinCash" /\ ch.pos = 5

BuyingIn(ch) == ch.kind = "JoinCash" /\ ch.pos \in {5, 6} /\ ch.at \in {"scheduled", "dialog"}

GrantComes(t) == Has(OpensOf(t), down) /\ NoneBefore(OpensOf(t), ClosersOf(t), down)

Shows(t) ==
    \/ GrantComes(t)
    \/ /\ ~Has(ClosersOf(t), down)
       /\ \/ t \in shown
          \/ \E c \in DOMAIN chains : chains[c].table = t /\ Opening(chains[c])

Resolves(t) ==
    \/ Has(SeatsOf(t), down)
    \/ \E c \in DOMAIN chains : chains[c].table = t /\ BuyingIn(chains[c])
    \/ Has(BuyInOf(t), up)

SeatsInv ==
    running => \A t \in Tables :
                  /\ seat[t] # "none" => Shows(t)
                  /\ seat[t] = "reserved" => Resolves(t)

-----------------------------------------------------------------------------
(* The queues.                                                               *)

\* Which action is where in the scripts.
LEMMA ScriptIs ==
    ASSUME NEW ch \in GoodChain, NEW a, a = Scripts[ch.kind][ch.pos]
    PROVE  /\ a \in DOMAIN Asks <=> ch.pos = AskPos[ch.kind]
           /\ a = "FetchSitOnTableInfo" => ch.kind = "JoinCash" /\ ch.pos = 4
           /\ a = "AddViewer" => ch.kind = "WatchCash" /\ ch.pos = 1
           /\ a = "AddWaiter" => ch.kind = "UserJoiningQueue" /\ ch.pos = 2
           /\ a = "CashBuyIn" => ch.kind = "JoinCash" /\ ch.pos = 6
           /\ a = "InitTableWindow" => ch.pos = 2
           /\ a = "OpenGameTable" <=> \/ ch.kind = "JoinCash" /\ ch.pos = 5
                                      \/ ch.kind = "WatchCash" /\ ch.pos = 4
<1>1. ch.kind \in {"JoinCash", "WatchCash", "UserJoiningQueue"} /\ ch.pos \in 1 .. 6
      /\ ch.pos <= Len(Scripts[ch.kind])
    BY ScriptsType DEF GoodChain, Chain
<1>2. CASE ch.kind = "JoinCash"
    <2>1. /\ Scripts[ch.kind][1] = "LoginRequired" /\ Scripts[ch.kind][2] = "InitTableWindow"
          /\ Scripts[ch.kind][3] = "InitPlayerControls"
          /\ Scripts[ch.kind][4] = "FetchSitOnTableInfo"
          /\ Scripts[ch.kind][5] = "OpenGameTable" /\ Scripts[ch.kind][6] = "CashBuyIn"
        BY <1>2 DEF Scripts
    <2>2. ch.pos \in {1, 2, 3, 4, 5, 6} /\ AskPos[ch.kind] = 4
        BY <1>1, <1>2 DEF AskPos
    <2> QED BY <1>2, <2>1, <2>2, AsksType
<1>3. CASE ch.kind = "WatchCash"
    <2>1. /\ Scripts[ch.kind][1] = "AddViewer" /\ Scripts[ch.kind][2] = "InitTableWindow"
          /\ Scripts[ch.kind][3] = "InitViewerControls"
          /\ Scripts[ch.kind][4] = "OpenGameTable" /\ Len(Scripts[ch.kind]) = 4
        BY <1>3 DEF Scripts
    <2>2. ch.pos \in {1, 2, 3, 4} /\ AskPos[ch.kind] = 1
        BY <1>1, <1>3, <2>1 DEF AskPos
    <2> QED BY <1>3, <2>1, <2>2, AsksType
<1>4. CASE ch.kind = "UserJoiningQueue"
    <2>1. /\ Scripts[ch.kind][1] = "LoginRequired" /\ Scripts[ch.kind][2] = "AddWaiter"
          /\ Scripts[ch.kind][3] = "UpdateWaiters" /\ Len(Scripts[ch.kind]) = 3
        BY <1>4 DEF Scripts
    <2>2. ch.pos \in {1, 2, 3} /\ AskPos[ch.kind] = 2
        BY <1>1, <1>4, <2>1 DEF AskPos
    <2> QED BY <1>4, <2>1, <2>2, AsksType
<1> QED BY <1>1, <1>2, <1>3, <1>4

\* Every script asks at one of its first four steps.
LEMMA AskPosType == \A k \in DOMAIN Scripts : AskPos[k] \in 1 .. 4
BY ScriptsType DEF AskPos

\* What emitting done makes of a queue: past its answer it stays past it.
LEMMA DoneShape ==
    ASSUME NEW ch \in GoodChain, Shaped(ch), ch.at \notin Ended, NEW status \in BOOLEAN
    PROVE  /\ Shaped(on_action_done(ch, status))
           /\ Asking(on_action_done(ch, status)) => Asking(ch)
           /\ on_action_done(ch, status).at = "scheduled" =>
                 status = TRUE /\ on_action_done(ch, status).pos = ch.pos + 1
<1> DEFINE new == on_action_done(ch, status)
<1>1. /\ new.at \in {"scheduled", "done", "failed"} /\ new.kind = ch.kind
      /\ new \in GoodChain
    BY DoneType
<1>2. new.at = "scheduled" => status = TRUE /\ new.pos = ch.pos + 1
    BY DEF on_action_done, GoodChain, Chain
<1>3. /\ ch.kind \in DOMAIN Scripts /\ ch.pos \in 1 .. 6 /\ ch.at \in Stages
      /\ AskPos[ch.kind] \in 1 .. 4
    BY AskPosType DEF GoodChain, Chain
<1> HIDE DEF new
<1>4. Shaped(new)
    BY <1>1 DEF Shaped
<1>5. ASSUME new.at = "scheduled", new.pos <= AskPos[new.kind]
      PROVE  Asking(ch)
    <2>1. ch.pos + 1 <= AskPos[ch.kind]
        BY <1>1, <1>2, <1>5
    <2>2. ch.pos <= AskPos[ch.kind] /\ ch.pos # AskPos[ch.kind]
        BY <1>3, <2>1
    <2>3. ~(ch.kind = "JoinCash" /\ ch.pos = 6)
        BY <1>3, <2>2 DEF AskPos
    <2>4. ch.at = "scheduled"
        BY <1>3, <2>2, <2>3 DEF Shaped, Stages, Ended
    <2> QED BY <2>2, <2>4 DEF Asking
<1> QED BY <1>1, <1>2, <1>4, <1>5 DEF Asking, new

\* Queue c stays what it is and does not come to ask again.
GoesOn(c) ==
    /\ chains'[c].kind = chains[c].kind /\ chains'[c].table = chains[c].table
    /\ Shaped(chains'[c])
    /\ Asking(chains'[c]) => Asking(chains[c])

AllGoOn == DOMAIN chains' = DOMAIN chains /\ \A c \in DOMAIN chains : GoesOn(c)

\* Queues that do not move go on as they are.
LEMMA StandStill ==
    ASSUME QueuesInv, UNCHANGED chains
    PROVE  AllGoOn
BY DEF AllGoOn, GoesOn, QueuesInv

\* A queue whose step is over goes on with the same script and table.
LEMMA DoneGoesOn ==
    ASSUME chains \in Seq(GoodChain), QueuesInv, NEW c, NEW status \in BOOLEAN, done(c, status),
           c \in DOMAIN chains => chains[c].at \notin Ended
    PROVE  AllGoOn
<1>1. /\ DOMAIN chains' = DOMAIN chains
      /\ \A d \in DOMAIN chains :
             chains'[d] = IF d = c THEN on_action_done(chains[c], status) ELSE chains[d]
    BY DoneChains
<1>2. ASSUME NEW d \in DOMAIN chains PROVE GoesOn(d)
    <2>1. chains[d] \in GoodChain /\ Shaped(chains[d])
        BY DEF QueuesInv
    <2>2. CASE d = c
        <3>1. chains'[c] = on_action_done(chains[c], status)
            BY <1>1, <2>2
        <3>2. /\ on_action_done(chains[c], status).kind = chains[c].kind
              /\ on_action_done(chains[c], status).table = chains[c].table
            BY <2>1, <2>2, DoneType
        <3>3. /\ Shaped(on_action_done(chains[c], status))
              /\ Asking(on_action_done(chains[c], status)) => Asking(chains[c])
            BY <2>1, <2>2, DoneShape
        <3> QED BY <2>2, <3>1, <3>2, <3>3 DEF GoesOn
    <2>3. CASE d # c
        BY <1>1, <2>1, <2>3 DEF GoesOn
    <2> QED BY <2>2, <2>3
<1> QED BY <1>1, <1>2 DEF AllGoOn

\* A queue that goes to another stage in its action.
LEMMA StageGoesOn ==
    ASSUME chains \in Seq(GoodChain), QueuesInv, NEW c \in DOMAIN chains, NEW s \in Stages,
           chains' = [chains EXCEPT ![c].at = s], chains[c].at = "scheduled",
           \/ s \in {"waiting", "lost"} /\ Current(c) \in DOMAIN Asks
           \/ s = "dialog" /\ Current(c) = "CashBuyIn"
    PROVE  AllGoOn
<1>1. /\ DOMAIN chains' = DOMAIN chains
      /\ \A d \in DOMAIN chains :
             chains'[d] = IF d = c THEN [chains[c] EXCEPT !.at = s] ELSE chains[d]
    BY StageChains
<1>2. chains[c] \in GoodChain
    OBVIOUS
<1> DEFINE new == [chains[c] EXCEPT !.at = s]
<1>3. /\ new.kind = chains[c].kind /\ new.table = chains[c].table /\ new.pos = chains[c].pos
      /\ new.at = s
    BY <1>2, StageType
<1>4. /\ Current(c) \in DOMAIN Asks <=> chains[c].pos = AskPos[chains[c].kind]
      /\ Current(c) = "CashBuyIn" => chains[c].kind = "JoinCash" /\ chains[c].pos = 6
    BY <1>2, ScriptIs DEF Current
<1>5. chains'[c] = new
    BY <1>1
<1>6. AskPos[chains[c].kind] \in 1 .. 4
    BY <1>2, AskPosType DEF GoodChain, Chain
<1> HIDE DEF new
<1>7. Shaped(new) /\ (Asking(new) => Asking(chains[c]))
    BY <1>3, <1>4, <1>6 DEF Shaped, Asking
<1>8. GoesOn(c)
    BY <1>3, <1>5, <1>7 DEF GoesOn
<1>9. \A d \in DOMAIN chains : d # c => GoesOn(d)
    BY <1>1 DEF GoesOn, QueuesInv
<1> QED BY <1>1, <1>8, <1>9 DEF AllGoOn

\* Who waits has asked, and about this table.
LEMMA WaitsIs ==
    ASSUME chains \in Seq(GoodChain), QueuesInv, NEW c \in DOMAIN chains, NEW proc, NEW t,
           Waits(c, proc, t)
    PROVE  /\ chains[c].at \in {"waiting", "lost"} /\ chains[c].table = t
           /\ chains[c].pos = AskPos[chains[c].kind]
           /\ Current(c) \in DOMAIN Asks /\ Asks[Current(c)] = proc
<1>1. chains[c] \in GoodChain /\ Shaped(chains[c])
    BY DEF QueuesInv
<1>2. chains[c].at \in {"waiting", "lost"} /\ chains[c].table = t /\ Asks[Current(c)] = proc
    BY DEF Waits
<1>3. chains[c].pos = AskPos[chains[c].kind]
    BY <1>1, <1>2 DEF Shaped
<1>4. Current(c) \in DOMAIN Asks
    BY <1>1, <1>3, ScriptIs DEF Current
<1> QED BY <1>2, <1>3, <1>4

\* What a reply does to the queues that wait for it.
LEMMA ReplyGoesOn ==
    ASSUME TablesInv, QueuesInv, NEW proc, DeliverReply(proc)
    PROVE  /\ DOMAIN chains' = DOMAIN chains
           /\ \A c \in DOMAIN chains :
                  IF Waits(c, proc, Head(down).table)
                  THEN /\ GoesOn(c)
                       /\ ~Asking(chains'[c])
                       /\ Head(down).ok /\ chains[c].pos < Len(Scripts[chains[c].kind]) =>
                             chains'[c].at = "scheduled" /\ chains'[c].pos = chains[c].pos + 1
                  ELSE chains'[c] = chains[c]
<1> DEFINE msg == Head(down)
<1>1. chains \in Seq(GoodChain) /\ DOMAIN chains' = DOMAIN chains /\ msg \in Reply
    BY GoodChains, ReplyChains DEF TablesInv
<1>2. msg.ok \in BOOLEAN
    BY <1>1 DEF Reply
<1>3. chains' = [c \in DOMAIN chains |->
                   IF Waits(c, proc, msg.table)
                   THEN [on_action_done(chains[c], msg.ok)
                           EXCEPT !.own = msg.chain = c \/ chains[c].at = "lost"]
                   ELSE chains[c]]
    BY DEF DeliverReply
<1> HIDE DEF msg
<1>4. ASSUME NEW c \in DOMAIN chains, Waits(c, proc, msg.table)
      PROVE  /\ GoesOn(c)
             /\ ~Asking(chains'[c])
             /\ msg.ok /\ chains[c].pos < Len(Scripts[chains[c].kind]) =>
                   chains'[c].at = "scheduled" /\ chains'[c].pos = chains[c].pos + 1
    <2>1. chains[c] \in GoodChain /\ Shaped(chains[c])
        BY <1>1 DEF QueuesInv
    <2>2. /\ chains[c].at \in {"waiting", "lost"}
          /\ chains[c].pos = AskPos[chains[c].kind]
        BY <1>1, <1>4, WaitsIs
    <2> DEFINE new == on_action_done(chains[c], msg.ok)
               b == msg.chain = c \/ chains[c].at = "lost"
    <2>3. /\ new \in GoodChain /\ new.kind = chains[c].kind /\ new.table = chains[c].table
          /\ new.at \in {"scheduled", "done", "failed"}
        BY <1>2, <2>1, DoneType
    <2>4. /\ Shaped(new)
          /\ new.at = "scheduled" => new.pos = chains[c].pos + 1
        BY <1>2, <2>1, <2>2, DoneShape DEF Ended
    <2>5. msg.ok /\ chains[c].pos < Len(Scripts[chains[c].kind]) => new.at = "scheduled"
        BY <2>1 DEF on_action_done, GoodChain, Chain
    <2>6. chains'[c] = [new EXCEPT !.own = b] /\ b \in BOOLEAN
        BY <1>3, <1>4
    <2> HIDE DEF new, b
    <2>7. /\ chains'[c].kind = new.kind /\ chains'[c].table = new.table
          /\ chains'[c].at = new.at /\ chains'[c].pos = new.pos
        BY <2>3, <2>6, OwnType
    <2>8. AskPos[chains[c].kind] \in 1 .. 4
        BY <2>1, AskPosType DEF GoodChain, Chain
    <2>9. ~Asking(chains'[c])
        BY <2>2, <2>3, <2>4, <2>7, <2>8 DEF Asking
    <2>10. GoesOn(c)
        BY <2>3, <2>4, <2>7, <2>9 DEF GoesOn, Shaped
    <2> QED BY <2>4, <2>5, <2>7, <2>9, <2>10
<1>5. \A c \in DOMAIN chains : ~Waits(c, proc, msg.table) => chains'[c] = chains[c]
    BY <1>3
<1> QED BY <1>1, <1>4, <1>5 DEF msg

\* Every step lets the queues go on, a click adds one.
LEMMA QueuesGoOn ==
    ASSUME TablesInv, DialogInv, QueuesInv, Next
    PROVE  AllGoOn \/ \E kind \in Kinds, t \in Tables : Click(kind, t)
<1>1. chains \in Seq(GoodChain)
    BY GoodChains DEF TablesInv
<1>2. ASSUME NEW c \in DOMAIN chains, Step(c) PROVE AllGoOn
    <2>1. CASE CashBuyIn(c)
        <3>1. chains[c].at = "scheduled" /\ Current(c) = "CashBuyIn" /\ "dialog" \in Stages
            BY <2>1 DEF CashBuyIn, Due, Stages
        <3>2. UNCHANGED chains \/ chains' = [chains EXCEPT ![c].at = "dialog"]
            BY <2>1 DEF CashBuyIn
        <3> QED BY <1>1, <3>1, <3>2, StandStill, StageGoesOn
    <2>2. CASE Ask(c)
        <3>1. chains[c].at = "scheduled" /\ Current(c) \in DOMAIN Asks
            BY <2>2 DEF Ask, Due
        <3>2. PICK s \in {"waiting", "lost"} : chains' = [chains EXCEPT ![c].at = s]
            BY <2>2 DEF Ask
        <3>3. s \in Stages
            BY DEF Stages
        <3> QED BY <1>1, <3>1, <3>2, <3>3, StageGoesOn
    <2>3. CASE LoginRequired(c) \/ InitTableWindow(c) \/ InitControls(c)
               \/ UpdateWaiters(c) \/ AddWaiterRefused(c) \/ OpenGameTable(c)
        <3>1. chains[c].at \notin Ended
            BY <2>3 DEF LoginRequired, InitTableWindow, InitControls, UpdateWaiters,
                        AddWaiterRefused, OpenGameTable, Due, Ended
        <3>2. UNCHANGED chains \/ \E status \in BOOLEAN : done(c, status)
            BY <2>3 DEF LoginRequired, InitTableWindow, InitControls, UpdateWaiters,
                        AddWaiterRefused, OpenGameTable
        <3> QED BY <1>1, <3>1, <3>2, StandStill, DoneGoesOn
    <2> QED BY <1>2, <2>1, <2>2, <2>3 DEF Step
<1>3. CASE AcceptBuyIn \/ RejectBuyIn \/ BuyInGone
    <2>1. modals # <<>> /\ Head(modals).kind = "buyin"
        BY <1>3 DEF AcceptBuyIn, RejectBuyIn, BuyInGone, Asked
    <2>2. \E status \in BOOLEAN : done(Head(modals).chain, status)
        BY <1>3 DEF AcceptBuyIn, RejectBuyIn, BuyInGone
    <2>3. modals \in Seq(Modal)
        BY DEF TablesInv, TablesTypeOK
    <2>4. 1 \in DOMAIN modals /\ Head(modals) = modals[1]
        BY <2>1, <2>3, PopAt
    <2>5. chains[Head(modals).chain].at = "dialog"
        BY <2>1, <2>4 DEF DialogInv
    <2> QED BY <1>1, <2>2, <2>5, DoneGoesOn DEF Ended
<1>4. ASSUME NEW proc, DeliverReply(proc) PROVE AllGoOn
    <2>1. /\ DOMAIN chains' = DOMAIN chains
          /\ \A c \in DOMAIN chains : GoesOn(c) \/ chains'[c] = chains[c]
        BY <1>4, ReplyGoesOn
    <2> QED BY <2>1 DEF AllGoOn, GoesOn, QueuesInv
<1>5. CASE onDisconnected
    <2>1. /\ DOMAIN chains' = DOMAIN chains
          /\ \A c \in DOMAIN chains :
                 IF chains[c].at = "waiting"
                 THEN chains'[c] = [chains[c] EXCEPT !.at = "lost"]
                 ELSE chains'[c] = chains[c]
        BY <1>1, <1>5, LostChains
    <2>2. ASSUME NEW c \in DOMAIN chains, chains[c].at = "waiting" PROVE GoesOn(c)
        <3> DEFINE new == [chains[c] EXCEPT !.at = "lost"]
        <3>1. chains[c] \in GoodChain /\ Shaped(chains[c])
            BY <1>1 DEF QueuesInv
        <3>2. /\ new.kind = chains[c].kind /\ new.table = chains[c].table
              /\ new.pos = chains[c].pos /\ new.at = "lost"
            BY <3>1, StageType DEF Stages
        <3>3. chains'[c] = new
            BY <2>1, <2>2
        <3> HIDE DEF new
        <3> QED BY <2>2, <3>1, <3>2, <3>3 DEF GoesOn, Shaped, Asking
    <2>3. \A c \in DOMAIN chains : chains[c].at # "waiting" => GoesOn(c)
        BY <2>1 DEF GoesOn, QueuesInv
    <2> QED BY <2>1, <2>2, <2>3 DEF AllGoOn
<1>6. CASE \/ AnswerRecharge \/ AnswerQuestion \/ Serve \/ Reconnect
           \/ DeliverCloseReply \/ set_table_state \/ close_table \/ show_recharge_message
           \/ (\E t \in Tables : closeEvent(t))
           \/ (\E proc \in ServerSends, t \in Tables : ServerCall(proc, t))
    BY <1>6, StandStill
       DEF AnswerRecharge, AnswerQuestion, Serve, Reconnect, DeliverCloseReply,
           set_table_state, close_table, show_recharge_message, closeEvent, ServerCall
<1> QED BY <1>2, <1>3, <1>4, <1>5, <1>6 DEF Next, Answer, Deliver

\* A serial user clicks only where no queue has yet to get its answer.
LEMMA QueuesClick ==
    ASSUME TablesInv, QueuesInv, Serial, NEW kind \in Kinds, NEW t \in Tables, Click(kind, t)
    PROVE  QueuesInv'
<1> DEFINE n == Len(chains) + 1
           new == [kind |-> kind, table |-> t, pos |-> 1, at |-> "scheduled", own |-> TRUE]
<1>1. /\ DOMAIN chains' = DOMAIN chains \cup {n} /\ n \notin DOMAIN chains
      /\ \A c \in DOMAIN chains : chains'[c] = chains[c]
      /\ chains'[n] = new
    BY GoodChains, ClickChains DEF TablesInv
<1>2. new.table = t /\ new.at = "scheduled"
    OBVIOUS
<1>3. ~InProgress(t)
    BY DEF Click, MayClick
<1> HIDE DEF n, new
<1>4. \A c \in DOMAIN chains : Asking(chains[c]) => chains[c].table # t
    BY <1>3 DEF InProgress, Asking, Ended
<1>5. \A c \in DOMAIN chains' : Shaped(chains'[c])
    BY <1>1, <1>2 DEF QueuesInv, Shaped
<1>6. \A c, d \in DOMAIN chains' :
         Asking(chains'[c]) /\ Asking(chains'[d]) /\ chains'[c].table = chains'[d].table => c = d
    BY <1>1, <1>2, <1>4 DEF QueuesInv
<1>7. \A i \in DOMAIN modals' : OfItsQueue(modals[i])'
    BY <1>1 DEF Click, OfItsQueue, QueuesInv
<1> QED BY <1>5, <1>6, <1>7 DEF QueuesInv

\* Every step keeps what is said of the queues.
LEMMA QueuesStep ==
    ASSUME Serial, TablesInv, DialogInv, QueuesInv, [Next]_vars
    PROVE  QueuesInv'
<1>1. CASE UNCHANGED vars
    BY <1>1 DEF vars, QueuesInv, OfItsQueue
<1>2. CASE Next /\ AllGoOn
    <2>1. \A c \in DOMAIN chains' : Shaped(chains'[c])
        BY <1>2 DEF AllGoOn, GoesOn
    <2>2. \A c, d \in DOMAIN chains' :
             /\ Asking(chains'[c]) /\ Asking(chains'[d])
             /\ chains'[c].table = chains'[d].table
             => c = d
        BY <1>2 DEF AllGoOn, GoesOn, QueuesInv
    <2>3. ASSUME NEW m, OfItsQueue(m) PROVE OfItsQueue(m)'
        BY <1>2, <2>3 DEF AllGoOn, GoesOn, OfItsQueue
    <2>4. modals \in Seq(Modal)
        BY DEF TablesInv, TablesTypeOK
    <2>5. \A i \in DOMAIN modals' : OfItsQueue(modals'[i])
        <3>1. CASE UNCHANGED modals
            BY <3>1 DEF QueuesInv
        <3>2. CASE modals # <<>> /\ modals' = Tail(modals)
            BY <2>4, <3>2, PopAt DEF QueuesInv
        <3>3. CASE \E m \in Modal : /\ m.kind \in {"buyin", "recharge"} /\ OfItsQueue(m)
                                    /\ modals' = <<m>> \o modals
            BY <2>4, <3>3, PushAt DEF QueuesInv
        <3>4. ASSUME NEW t \in Tables, closeEvent(t)
              PROVE  \A i \in DOMAIN modals' : OfItsQueue(modals'[i])
            <4> DEFINE m == [kind |-> "question", table |-> t, chain |-> 0, alive |-> TRUE]
            <4>1. m.kind = "question" /\ modals' = <<m>>
                BY <3>4 DEF closeEvent
            <4> HIDE DEF m
            <4> QED BY <4>1 DEF OfItsQueue
        <3>5. CASE \E T : modals' = Orphaned(T)
            <4>1. PICK T : modals' = Orphaned(T)
                BY <3>5
            <4> QED BY <2>4, <4>1, OrphanedAt DEF QueuesInv, OfItsQueue
        <3> QED BY <1>2, <3>1, <3>2, <3>3, <3>4, <3>5, StackCases
    <2> QED BY <2>1, <2>2, <2>3, <2>5 DEF QueuesInv
<1> QED BY <1>1, <1>2, QueuesGoOn, QueuesClick

-----------------------------------------------------------------------------
(* What is asked.                                                            *)

\* With the session go the messages under way and the seats.
LEMMA OfflineStep ==
    ASSUME Offline, [Next]_vars
    PROVE  Offline'
<1>1. ASSUME NEW c \in DOMAIN chains, Step(c) PROVE Offline'
    BY <1>1 DEF Offline, Step, LoginRequired, InitTableWindow, InitControls, UpdateWaiters, Ask,
                AddWaiterRefused, OpenGameTable, CashBuyIn, request, Sent, serverVars
<1>2. CASE Answer \/ BuyInGone
    BY <1>2 DEF Offline, Answer, AcceptBuyIn, RejectBuyIn, AnswerRecharge, AnswerQuestion,
                BuyInGone, Asked, request, Sent, serverVars
<1>3. CASE Serve
    BY <1>3 DEF Offline, Serve
<1>4. CASE Deliver
    BY <1>4 DEF Offline, Deliver, DeliverReply, DeliverCloseReply, set_table_state, close_table,
                show_recharge_message, Arrives, serverVars
<1>5. CASE onDisconnected
    BY <1>5 DEF Offline, onDisconnected
<1>6. CASE \/ Reconnect
           \/ (\E kind \in Kinds, t \in Tables : Click(kind, t))
           \/ (\E t \in Tables : closeEvent(t))
           \/ (\E proc \in ServerSends, t \in Tables : ServerCall(proc, t))
    BY <1>6 DEF Offline, Reconnect, Click, closeEvent, ServerCall, serverVars
<1>7. CASE UNCHANGED vars
    BY <1>7 DEF Offline, vars, serverVars
<1> QED BY <1>1, <1>2, <1>3, <1>4, <1>5, <1>6, <1>7 DEF Next

AskMessages == {m \in Request \cup Reply : m.proc \in AskProcs}

\* No request of this kind is sent; replies may arrive.
AsksKept ==
    \A K : Tracked(K) /\ K \subseteq AskMessages =>
              /\ Flying(K, up', down') => Flying(K, up, down)
              /\ Single(K, up, down) => Single(K, up', down')

\* The messages of a question are followed from the wire up to the wire down.
LEMMA AsksTracked ==
    /\ \A c, t : \A p \in AskProcs :
          Tracked(AskAbout(c, t, p)) /\ AskAbout(c, t, p) \subseteq AskMessages
    /\ \A t : Tracked(AskAt(t)) /\ AskAt(t) \subseteq AskMessages
<1>1. ASSUME NEW t PROVE Tracked(AskAt(t))
    BY ReplyToIs DEF Tracked, AskAt, AskProcs, Answered
<1>2. \A t : AskAt(t) \subseteq AskMessages
    BY DEF AskAt, AskMessages
<1>3. \A c, t : \A p \in AskProcs : AskAbout(c, t, p) \subseteq AskMessages
    BY DEF AskAbout, AskOf, AskMessages
<1> QED BY <1>1, <1>2, <1>3, TrackedAre

\* A question about a table is a question of some queue about it.
LEMMA AskAtIs ==
    ASSUME NEW t, NEW u, NEW d, Flying(AskAt(t), u, d)
    PROVE  \E c : \E p \in AskProcs : Flying(AskAbout(c, t, p), u, d)
<1>1. \A m \in AskAt(t) : m.proc \in AskProcs /\ m \in AskAbout(m.chain, t, m.proc)
    BY DEF AskAt, AskAbout, AskOf
<1> QED BY <1>1 DEF Flying, Has

\* No question is added by sending or taking anything else.
LEMMA AsksKeptBy ==
    ASSUME up \in Seq(Request), down \in Seq(Reply \cup Call),
           \/ UNCHANGED up
           \/ \E x \in Request : x.proc \notin AskProcs /\ up' = Append(up, x),
           \/ UNCHANGED down
           \/ down # <<>> /\ down' = Tail(down)
           \/ \E x \in Reply \cup Call : x.proc \notin AskProcs /\ down' = Append(down, x)
    PROVE  AsksKept
<1> SUFFICES ASSUME NEW K, K \subseteq AskMessages
             PROVE  /\ Flying(K, up', down') => Flying(K, up, down)
                    /\ Single(K, up, down) => Single(K, up', down')
    BY DEF AsksKept
<1>1. \A m : m.proc \notin AskProcs => m \notin K
    BY DEF AskMessages
<1>2. (Has(K, up') => Has(K, up)) /\ (Once(K, up) => Once(K, up'))
    BY <1>1, PushPlain
<1>3. (Has(K, down') => Has(K, down)) /\ (Once(K, down) => Once(K, down'))
    <2>1. CASE down # <<>> /\ down' = Tail(down)
        BY <2>1, HasTail
    <2>2. CASE UNCHANGED down
        BY <2>2
    <2>3. CASE \E x \in Reply \cup Call : x.proc \notin AskProcs /\ down' = Append(down, x)
        BY <1>1, <2>3, PushPlain
    <2> QED BY <2>1, <2>2, <2>3
<1> QED BY <1>2, <1>3 DEF Flying, Single

\* A step that adds no question and moves no waiting queue keeps AsksInv.
LEMMA AsksCarry ==
    ASSUME AsksInv, AsksKept, WaitersWait, DOMAIN chains \subseteq DOMAIN chains'
    PROVE  AsksInv'
<1>1. \A t : Single(AskAt(t), up', down')
    BY AsksTracked DEF AsksInv, AsksKept
<1>2. ASSUME NEW c, NEW t, NEW p \in AskProcs, Flying(AskAbout(c, t, p), up', down')
      PROVE  Fits(c, t, p)'
    <2>1. Flying(AskAbout(c, t, p), up, down)
        BY <1>2, AsksTracked DEF AsksKept
    <2>2. Fits(c, t, p)
        BY <2>1 DEF AsksInv
    <2>3. chains'[c] = chains[c] /\ c \in DOMAIN chains'
        BY <2>2 DEF Fits, WaitersWait
    <2> QED BY <2>2, <2>3 DEF Fits, Current
<1> QED BY <1>1, <1>2 DEF AsksInv

\* The end of a step of a queue does not move the queues that wait.
LEMMA DoneWaits ==
    ASSUME chains \in Seq(GoodChain), NEW c, NEW status \in BOOLEAN, done(c, status),
           c \in DOMAIN chains => chains[c].at # "waiting"
    PROVE  WaitersWait
BY DoneChains DEF WaitersWait

\* Only a reply and a loss touch a queue that waits.
LEMMA WaitersStep ==
    ASSUME TablesInv, DialogInv, Next
    PROVE  WaitersWait \/ onDisconnected \/ \E proc \in AskProcs : DeliverReply(proc)
<1>1. chains \in Seq(GoodChain) /\ modals \in Seq(Modal)
    BY GoodChains DEF TablesInv
<1>2. ASSUME NEW c \in DOMAIN chains, Step(c) PROVE WaitersWait
    <2>1. chains[c].at # "waiting"
        BY <1>2 DEF Step, LoginRequired, InitTableWindow, InitControls, UpdateWaiters, Ask,
                    AddWaiterRefused, OpenGameTable, CashBuyIn, Due
    <2>2. CASE CashBuyIn(c) \/ Ask(c)
        <3>1. UNCHANGED chains \/ \E s \in Stages : chains' = [chains EXCEPT ![c].at = s]
            BY <2>2 DEF CashBuyIn, Ask, Stages
        <3> QED BY <1>1, <2>1, <3>1, StageChains DEF WaitersWait
    <2>3. CASE LoginRequired(c) \/ InitTableWindow(c) \/ InitControls(c)
               \/ UpdateWaiters(c) \/ AddWaiterRefused(c) \/ OpenGameTable(c)
        <3>1. UNCHANGED chains \/ \E status \in BOOLEAN : done(c, status)
            BY <2>3 DEF LoginRequired, InitTableWindow, InitControls, UpdateWaiters,
                        AddWaiterRefused, OpenGameTable
        <3> QED BY <1>1, <2>1, <3>1, DoneWaits DEF WaitersWait
    <2> QED BY <1>2, <2>2, <2>3 DEF Step
<1>3. CASE AcceptBuyIn \/ RejectBuyIn \/ BuyInGone
    <2>1. modals # <<>> /\ Head(modals).kind = "buyin"
        BY <1>3 DEF AcceptBuyIn, RejectBuyIn, BuyInGone, Asked
    <2>2. \E status \in BOOLEAN : done(Head(modals).chain, status)
        BY <1>3 DEF AcceptBuyIn, RejectBuyIn, BuyInGone
    <2>3. chains[Head(modals).chain].at = "dialog"
        BY <1>1, <2>1, PopAt DEF DialogInv
    <2> QED BY <1>1, <2>2, <2>3, DoneWaits
<1>4. ASSUME NEW kind \in Kinds, NEW t \in Tables, Click(kind, t) PROVE WaitersWait
    BY <1>1, <1>4, ClickChains DEF WaitersWait
<1>5. CASE \/ AnswerRecharge \/ AnswerQuestion \/ Serve \/ Reconnect
           \/ DeliverCloseReply \/ set_table_state \/ close_table \/ show_recharge_message
           \/ (\E t \in Tables : closeEvent(t))
           \/ (\E proc \in ServerSends, t \in Tables : ServerCall(proc, t))
    BY <1>5 DEF AnswerRecharge, AnswerQuestion, Serve, Reconnect, DeliverCloseReply,
                set_table_state, close_table, show_recharge_message, closeEvent, ServerCall,
                WaitersWait
<1> QED BY <1>2, <1>3, <1>4, <1>5 DEF Next, Answer, Deliver, AskProcs

\* A queue that asks is then the only one with a question about its table.
LEMMA AsksAsk ==
    ASSUME TablesInv, QueuesInv, AsksInv, NEW c \in DOMAIN chains, Ask(c)
    PROVE  AsksInv'
<1>1. /\ chains \in Seq(GoodChain) /\ up \in Seq(Request) /\ down \in Seq(Reply \cup Call)
      /\ Len(chains) <= MaxChains /\ MaxChains \in Nat
    BY GoodChains, TablesAssumption DEF TablesInv
<1>2. chains[c] \in GoodChain /\ c \in 0 .. MaxChains
    BY <1>1
<1>3. chains[c].at = "scheduled"
    BY DEF Ask, Due
<1>4. PICK action \in DOMAIN Asks :
          Current(c) = action /\ request(Asks[action], chains[c].table, c)
    BY DEF Ask, Due
<1>5. PICK s \in {"waiting", "lost"} : /\ chains' = [chains EXCEPT ![c].at = s]
                                       /\ connected => s = "waiting"
    BY DEF Ask
<1>6. s \in Stages
    BY DEF Stages
<1>7. /\ DOMAIN chains' = DOMAIN chains
      /\ \A d \in DOMAIN chains :
             chains'[d] = IF d = c THEN [chains[c] EXCEPT !.at = s] ELSE chains[d]
    BY <1>1, <1>5, <1>6, StageChains
<1>8. WaitersWait
    BY <1>3, <1>7 DEF WaitersWait
<1>9. UNCHANGED down
    BY DEF Ask
<1>10. CASE ~connected
    <2>1. UNCHANGED up
        BY <1>4, <1>10 DEF request, Sent
    <2>2. AsksKept
        BY <1>1, <1>9, <2>1, AsksKeptBy
    <2> QED BY <1>7, <1>8, <2>2, AsksCarry
<1>11. CASE connected
    <2>1. PICK t \in Tables : t = chains[c].table
        BY <1>2 DEF GoodChain, Chain
    <2> DEFINE p == Asks[action]
               x == [proc |-> p, table |-> t, chain |-> c]
    <2>2. p \in AskProcs /\ x \in Request /\ x.proc = p /\ x.chain = c /\ x.table = t
        BY <1>2 DEF Request, Asks, AskProcs, Requests
    <2>3. up' = Append(up, x)
        BY <1>4, <1>11, <2>1 DEF request, Sent
    <2>4. chains'[c] = [chains[c] EXCEPT !.at = "waiting"]
        BY <1>5, <1>7, <1>11
    <2>5. /\ chains'[c].at = "waiting" /\ chains'[c].table = t
          /\ chains'[c].kind = chains[c].kind /\ chains'[c].pos = chains[c].pos
        BY <1>2, <2>1, <2>4, StageType DEF Stages
    <2> HIDE DEF p, x
    <2>6. Fits(c, t, p)'
        BY <1>4, <1>7, <2>5 DEF Fits, Current, p
    <2>7. Asking(chains[c])
        <3>1. chains[c].pos = AskPos[chains[c].kind]
            BY <1>2, <1>4, ScriptIs DEF Current
        <3>2. AskPos[chains[c].kind] \in 1 .. 4
            BY <1>2, AskPosType DEF GoodChain, Chain
        <3> QED BY <1>3, <3>1, <3>2 DEF Asking
    <2>8. ~Flying(AskAt(t), up, down)
        <3> SUFFICES ASSUME Flying(AskAt(t), up, down) PROVE FALSE
            OBVIOUS
        <3>1. PICK d : \E q \in AskProcs : Flying(AskAbout(d, t, q), up, down)
            BY AskAtIs
        <3>2. d \in DOMAIN chains /\ chains[d].at = "waiting" /\ chains[d].table = t
            BY <3>1 DEF AsksInv, Fits
        <3>3. d = c
            BY <2>1, <2>7, <3>2 DEF QueuesInv, Asking
        <3> QED BY <1>3, <3>2, <3>3
    <2>9. \A K : /\ Has(K, up') <=> Has(K, up) \/ x \in K
                 /\ Once(K, up) /\ (x \in K => ~Has(K, up)) => Once(K, up')
        BY <1>1, <2>2, <2>3, HasAppend
    <2>10. ASSUME NEW u PROVE Single(AskAt(u), up', down')
        <3>1. x \in AskAt(u) => u = t
            BY <2>2 DEF AskAt
        <3> QED BY <1>9, <2>8, <2>9, <3>1 DEF AsksInv, Single, Flying
    <2>11. ASSUME NEW d, NEW u, NEW q \in AskProcs, Flying(AskAbout(d, u, q), up', down')
           PROVE  Fits(d, u, q)'
        <3>1. CASE x \in AskAbout(d, u, q)
            <4>1. d = c /\ u = t /\ q = p
                BY <2>2, <3>1 DEF AskAbout, AskOf
            <4> QED BY <2>6, <4>1
        <3>2. CASE x \notin AskAbout(d, u, q)
            <4>1. Fits(d, u, q)
                BY <1>9, <2>9, <2>11, <3>2 DEF AsksInv, Flying
            <4>2. d \in DOMAIN chains' /\ chains'[d] = chains[d]
                BY <1>7, <1>8, <4>1 DEF Fits, WaitersWait
            <4> QED BY <4>1, <4>2 DEF Fits, Current
        <3> QED BY <3>1, <3>2
    <2> QED BY <2>10, <2>11 DEF AsksInv
<1> QED BY <1>10, <1>11

\* Taking a reply ends the question it answers.
LEMMA AsksReply ==
    ASSUME TablesInv, QueuesInv, AsksInv, NEW proc \in AskProcs, DeliverReply(proc)
    PROVE  AsksInv'
<1> DEFINE msg == Head(down)
<1>1. /\ chains \in Seq(GoodChain) /\ up \in Seq(Request) /\ down \in Seq(Reply \cup Call)
    BY GoodChains DEF TablesInv
<1>2. /\ msg \in Reply /\ msg.proc = proc /\ down # <<>> /\ down' = Tail(down) /\ UNCHANGED up
    BY ReplyChains DEF DeliverReply, Arrives
<1>3. AsksKept
    BY <1>1, <1>2, AsksKeptBy
<1>4. /\ DOMAIN chains' = DOMAIN chains
      /\ \A d \in DOMAIN chains : ~Waits(d, proc, msg.table) => chains'[d] = chains[d]
    BY ReplyGoesOn
<1>5. ~Flying(AskAt(msg.table), up', down')
    <2>1. msg \in AskAt(msg.table)
        BY <1>2 DEF AskAt
    <2>2. /\ Has(AskAt(msg.table), down)
          /\ Once(AskAt(msg.table), down) => ~Has(AskAt(msg.table), down')
        BY <1>1, <1>2, <2>1, HasTail
    <2> QED BY <1>2, <2>2 DEF AsksInv, Single, Flying
<1> HIDE DEF msg
<1>6. \A t : Single(AskAt(t), up', down')
    BY <1>3, AsksTracked DEF AsksInv, AsksKept
<1>7. ASSUME NEW d, NEW t, NEW p \in AskProcs, Flying(AskAbout(d, t, p), up', down')
      PROVE  Fits(d, t, p)'
    <2>1. Flying(AskAbout(d, t, p), up, down)
        BY <1>3, <1>7, AsksTracked DEF AsksKept
    <2>2. Fits(d, t, p)
        BY <2>1 DEF AsksInv
    <2>3. t # msg.table
        <3>1. Flying(AskAt(t), up', down')
            BY <1>7 DEF Flying, Has, AskAbout, AskOf, AskAt
        <3> QED BY <1>5, <3>1
    <2>4. d \in DOMAIN chains /\ ~Waits(d, proc, msg.table)
        BY <2>2, <2>3 DEF Fits, Waits
    <2> QED BY <1>4, <2>2, <2>4 DEF Fits, Current
<1> QED BY <1>6, <1>7 DEF AsksInv

\* A request is sent, or nothing is.
LEMMA SentCases ==
    ASSUME NEW proc \in Requests, NEW t \in Tables, NEW c \in 0 .. MaxChains,
           request(proc, t, c)
    PROVE  UNCHANGED up \/ \E x \in Request : x.proc = proc /\ up' = Append(up, x)
<1>1. [proc |-> proc, table |-> t, chain |-> c] \in Request
    BY DEF Request
<1> QED BY <1>1 DEF request, Sent

\* Nothing but Ask sends a request of this kind.
LEMMA AsksKeptStep ==
    ASSUME TablesInv, Next
    PROVE  AsksKept \/ onDisconnected \/ \E c \in DOMAIN chains : Ask(c)
<1>1. /\ up \in Seq(Request) /\ down \in Seq(Reply \cup Call) /\ modals \in Seq(Modal)
      /\ 0 \in 0 .. MaxChains
    BY GoodChains, TablesAssumption DEF TablesInv
<1>2. modals # <<>> => /\ Head(modals) \in Modal /\ Head(modals).table \in Tables
                       /\ Head(modals).chain \in 0 .. MaxChains
    BY <1>1, PopAt DEF Modal
<1>3. MessagesKept => AsksKept
    BY DEF MessagesKept, AsksKept
<1>4. UNCHANGED <<up, down>> => AsksKept
    BY <1>3, MessagesSame
<1>5. ASSUME NEW c \in DOMAIN chains, Step(c), ~Ask(c) PROVE AsksKept
    BY <1>4, <1>5 DEF Step, LoginRequired, InitTableWindow, InitControls, UpdateWaiters,
                      AddWaiterRefused, OpenGameTable, CashBuyIn
<1>6. CASE AcceptBuyIn \/ BuyInGone
    <2>1. modals # <<>> /\ UNCHANGED down
        BY <1>6 DEF AcceptBuyIn, BuyInGone, Asked
    <2>2. \E proc \in {"set_sit_money", "sit_on_table_canceled"} :
             request(proc, Head(modals).table, Head(modals).chain)
        BY <1>6 DEF AcceptBuyIn, BuyInGone
    <2>3. UNCHANGED up \/ \E x \in Request : x.proc \notin AskProcs /\ up' = Append(up, x)
        BY <1>2, <2>1, <2>2, SentCases DEF Requests, AskProcs
    <2> QED BY <1>1, <2>1, <2>3, AsksKeptBy
<1>7. CASE RejectBuyIn \/ AnswerRecharge
    <2>1. modals # <<>> /\ UNCHANGED down
        BY <1>7 DEF RejectBuyIn, AnswerRecharge, Asked
    <2>2. UNCHANGED up \/ up' = Cancelled(Head(modals))
        BY <1>7 DEF RejectBuyIn, AnswerRecharge
    <2> QED BY <1>1, <1>2, <1>3, <1>4, <2>1, <2>2, MessagesCancelled
<1>8. CASE AnswerQuestion
    <2>1. modals # <<>> /\ UNCHANGED down
        BY <1>8 DEF AnswerQuestion, Asked
    <2>2. UNCHANGED up \/ request("close_table", Head(modals).table, 0)
        BY <1>8 DEF AnswerQuestion
    <2>3. UNCHANGED up \/ \E x \in Request : x.proc \notin AskProcs /\ up' = Append(up, x)
        BY <1>1, <1>2, <2>1, <2>2, SentCases DEF Requests, AskProcs
    <2> QED BY <1>1, <2>1, <2>3, AsksKeptBy
<1>9. CASE Serve
    BY <1>3, <1>9, MessagesServe
<1>10. CASE Deliver
    BY <1>1, <1>10, AsksKeptBy
       DEF Deliver, DeliverReply, DeliverCloseReply, set_table_state, close_table,
           show_recharge_message, Arrives
<1>11. ASSUME NEW proc \in ServerSends, NEW t \in Tables, ServerCall(proc, t) PROVE AsksKept
    <2> DEFINE x == [proc |-> proc, table |-> t]
    <2>1. proc \in ServerCalls /\ proc \notin AskProcs
        BY TablesAssumption DEF ServerCalls, AskProcs
    <2>2. x \in Reply \cup Call /\ x.proc \notin AskProcs
        BY <2>1 DEF Call
    <2>3. down' = Append(down, x) /\ UNCHANGED up
        BY <1>11 DEF ServerCall
    <2> HIDE DEF x
    <2> QED BY <1>1, <2>2, <2>3, AsksKeptBy
<1>12. CASE \/ Reconnect
            \/ (\E kind \in Kinds, t \in Tables : Click(kind, t))
            \/ (\E t \in Tables : closeEvent(t))
    BY <1>4, <1>12 DEF Reconnect, Click, closeEvent
<1> QED BY <1>5, <1>6, <1>7, <1>8, <1>9, <1>10, <1>11, <1>12 DEF Next, Answer

\* Every step keeps what is said of the questions.
LEMMA AsksStep ==
    ASSUME TablesInv, DialogInv, QueuesInv, AsksInv, [Next]_vars
    PROVE  AsksInv'
<1>1. CASE UNCHANGED vars
    <2>1. UNCHANGED <<chains, up, down>>
        BY <1>1 DEF vars
    <2> QED BY <2>1 DEF AsksInv, Fits, Current
<1>2. CASE onDisconnected
    <2>1. up' = <<>> /\ down' = <<>>
        BY <1>2 DEF onDisconnected
    <2>2. \A K : ~Has(K, up') /\ ~Has(K, down') /\ Once(K, up') /\ Once(K, down')
        BY <2>1 DEF Has, Once
    <2> QED BY <2>2 DEF AsksInv, Flying, Single
<1>3. CASE Next /\ ~onDisconnected
    <2>1. chains \in Seq(GoodChain)
        BY GoodChains DEF TablesInv
    <2>2. DOMAIN chains \subseteq DOMAIN chains'
        BY <1>3, <2>1, QueuesGoOn, ClickChains DEF AllGoOn
    <2>3. \/ AsksKept /\ WaitersWait
          \/ \E c \in DOMAIN chains : Ask(c)
          \/ \E proc \in AskProcs : DeliverReply(proc)
        BY <1>3, AsksKeptStep, WaitersStep
    <2> QED BY <2>2, <2>3, AsksCarry, AsksAsk, AsksReply
<1> QED BY <1>1, <1>2, <1>3

-----------------------------------------------------------------------------
(* The seats.                                                                *)

\* What is on its way about table t stays; what leaves the front is neither a
\* grant that opens its window nor a reply that seats somebody at the buy-in.
DownKept(t) ==
    /\ GrantComes(t) => GrantComes(t)'
    /\ Has(SeatsOf(t), down) => Has(SeatsOf(t), down')
    /\ ~Has(ClosersOf(t), down) => ~Has(ClosersOf(t), down')

UpKept(t) == Has(BuyInOf(t), up) => Has(BuyInOf(t), up')

ShownKept(t) == t \in shown /\ ~Has(ClosersOf(t), down) => t \in shown'

SomeOpening(t)  == \E c \in DOMAIN chains : chains[c].table = t /\ Opening(chains[c])
SomeBuyingIn(t) == \E c \in DOMAIN chains : chains[c].table = t /\ BuyingIn(chains[c])

QueuesKept(t) ==
    /\ SomeOpening(t) => SomeOpening(t)' \/ t \in shown'
    /\ SomeBuyingIn(t) => SomeBuyingIn(t)' \/ Has(BuyInOf(t), up')

\* A seat keeps its window, and its way out of a reservation, while what they rest on stays.
LEMMA SeatCarry ==
    ASSUME NEW t, DownKept(t), QueuesKept(t), ShownKept(t)
    PROVE  /\ Shows(t) => Shows(t)'
           /\ UpKept(t) /\ Resolves(t) => Resolves(t)'
BY DEF Shows, Resolves, DownKept, QueuesKept, ShownKept, UpKept, SomeOpening, SomeBuyingIn

\* A step that raises no seat.
LEMMA SeatsCarry ==
    ASSUME SeatsInv, running,
           \A t \in Tables :
              \/ seat'[t] = "none"
              \/ /\ seat'[t] = seat[t]
                 /\ DownKept(t) /\ QueuesKept(t) /\ ShownKept(t) /\ UpKept(t)
    PROVE  SeatsInv'
<1> SUFFICES ASSUME NEW t \in Tables
             PROVE  /\ seat'[t] # "none" => Shows(t)'
                    /\ seat'[t] = "reserved" => Resolves(t)'
    BY DEF SeatsInv
<1> QED BY SeatCarry DEF SeatsInv

\* Nothing moves on the wire down.
LEMMA DownSame ==
    ASSUME NEW t, UNCHANGED down
    PROVE  DownKept(t)
BY DEF DownKept, GrantComes

\* A message that closes no window is put behind those under way.
LEMMA DownMore ==
    ASSUME NEW t, down \in Seq(Reply \cup Call), NEW x \in Reply \cup Call,
           down' = Append(down, x), x \notin ClosersOf(t)
    PROVE  DownKept(t)
<1>1. \A K : Has(K, down') <=> Has(K, down) \/ x \in K
    BY HasAppend
<1>2. NoneBefore(OpensOf(t), ClosersOf(t), down)
      => NoneBefore(OpensOf(t), ClosersOf(t), down')
    BY BeforeAppend
<1> QED BY <1>1, <1>2 DEF DownKept, GrantComes

\* A message that opens no window is taken.
LEMMA DownLess ==
    ASSUME NEW t, down \in Seq(Reply \cup Call), down # <<>>, down' = Tail(down),
           Head(down) \notin OpensOf(t)
    PROVE  DownKept(t)
<1>1. \A K : Has(K, down) <=> Head(down) \in K \/ Has(K, down')
    BY HasTail
<1>2. NoneBefore(OpensOf(t), ClosersOf(t), down)
      => NoneBefore(OpensOf(t), ClosersOf(t), down')
    BY BeforeTail
<1>3. Head(down) \notin SeatsOf(t)
    BY DEF SeatsOf, OpensOf
<1> QED BY <1>1, <1>2, <1>3 DEF DownKept, GrantComes

\* A step in which queue c may go on, the others stay.
LEMMA QueuesKeptBy ==
    ASSUME NEW c, DOMAIN chains \subseteq DOMAIN chains',
           \A d \in DOMAIN chains : d # c => chains'[d] = chains[d],
           c \in DOMAIN chains =>
              /\ chains'[c].table = chains[c].table
              /\ Opening(chains[c]) => Opening(chains'[c]) \/ chains[c].table \in shown'
              /\ BuyingIn(chains[c]) => \/ BuyingIn(chains'[c])
                                        \/ Has(BuyInOf(chains[c].table), up')
    PROVE  \A t : QueuesKept(t)
<1> SUFFICES ASSUME NEW t PROVE QueuesKept(t)
    OBVIOUS
<1>1. SomeOpening(t) => SomeOpening(t)' \/ t \in shown'
    BY DEF SomeOpening
<1>2. SomeBuyingIn(t) => SomeBuyingIn(t)' \/ Has(BuyInOf(t), up')
    BY DEF SomeBuyingIn
<1> QED BY <1>1, <1>2 DEF QueuesKept

\* Queues that do not move still open their windows and buy in.
LEMMA QueuesSame ==
    ASSUME UNCHANGED chains
    PROVE  \A t : QueuesKept(t)
BY DEF QueuesKept, SomeOpening, SomeBuyingIn

\* Where a queue stands that opens its window or buys in.
LEMMA OpeningIs ==
    ASSUME NEW ch \in GoodChain, NEW a, a = Scripts[ch.kind][ch.pos]
    PROVE  /\ Opening(ch) => \/ a = "OpenGameTable"
                             \/ /\ ch.kind = "WatchCash" /\ ch.pos \in {2, 3}
                                /\ a \in {"InitTableWindow", "InitViewerControls"}
                                /\ ch.pos < Len(Scripts[ch.kind])
           /\ BuyingIn(ch) => \/ a = "OpenGameTable" /\ ch.pos = 5
                                 /\ ch.pos < Len(Scripts[ch.kind])
                              \/ a = "CashBuyIn" /\ ch.pos = 6
<1>1. Len(Scripts["JoinCash"]) = 6 /\ Len(Scripts["WatchCash"]) = 4
    BY DEF Scripts
<1>2. CASE ch.kind = "JoinCash"
    <2>1. Scripts[ch.kind][5] = "OpenGameTable" /\ Scripts[ch.kind][6] = "CashBuyIn"
        BY <1>2 DEF Scripts
    <2> QED BY <1>1, <1>2, <2>1 DEF Opening, BuyingIn
<1>3. CASE ch.kind = "WatchCash"
    <2>1. /\ Scripts[ch.kind][2] = "InitTableWindow" /\ Scripts[ch.kind][3] = "InitViewerControls"
          /\ Scripts[ch.kind][4] = "OpenGameTable"
        BY <1>3 DEF Scripts
    <2>2. ch.pos \in 2 .. 4 => ch.pos \in {2, 3, 4}
        OBVIOUS
    <2> QED BY <1>1, <1>3, <2>1, <2>2 DEF Opening, BuyingIn
<1>4. CASE ch.kind \notin {"JoinCash", "WatchCash"}
    BY <1>4 DEF Opening, BuyingIn
<1> QED BY <1>2, <1>3, <1>4

\* A queue that got its answer is not at the end of its script.
LEMMA NotTheLast ==
    ASSUME NEW ch,
           \/ ch.kind = "JoinCash" /\ ch.pos = 4
           \/ ch.kind = "WatchCash" /\ ch.pos = 1
    PROVE  ch.pos < Len(Scripts[ch.kind])
<1>1. Len(Scripts["JoinCash"]) = 6 /\ Len(Scripts["WatchCash"]) = 4
    BY DEF Scripts
<1>2. Len(Scripts[ch.kind]) \in {4, 6} /\ (ch.kind = "JoinCash" => Len(Scripts[ch.kind]) = 6)
    BY <1>1
<1>3. ch.pos \in {1, 4} /\ (ch.pos = 4 => Len(Scripts[ch.kind]) = 6)
    BY <1>1, <1>2
<1>4. \A p \in {1, 4}, n \in {4, 6} : (p = 4 => n = 6) => p < n
    OBVIOUS
<1> QED BY <1>2, <1>3, <1>4

\* A request is put behind those under way.
LEMMA UpMore ==
    ASSUME TablesInv, NEW c \in DOMAIN chains,
           \E proc \in Requests : request(proc, chains[c].table, c)
    PROVE  \A t \in Tables : UpKept(t)
<1>1. /\ chains \in Seq(GoodChain) /\ up \in Seq(Request)
      /\ Len(chains) <= MaxChains /\ MaxChains \in Nat
    BY GoodChains, TablesAssumption DEF TablesInv
<1>2. chains[c] \in GoodChain /\ c \in 0 .. MaxChains
    BY <1>1
<1>3. chains[c].table \in Tables
    BY <1>2 DEF GoodChain, Chain
<1>4. UNCHANGED up \/ \E x \in Request : up' = Append(up, x)
    BY <1>2, <1>3, SentCases
<1>5. \A K : Has(K, up) => Has(K, up')
    BY <1>1, <1>4, HasAppend
<1> QED BY <1>5 DEF UpKept

\* Nothing is said of a client that has crashed.
LEMMA Crashed ==
    ASSUME crash' # "none"
    PROVE  SeatsInv'
BY DEF SeatsInv, running

\* An action of queue c.
LEMMA SeatsAction ==
    ASSUME TablesInv, SeatsInv, NEW c \in DOMAIN chains, Step(c)
    PROVE  SeatsInv'
<1>1. chains \in Seq(GoodChain)
    BY GoodChains DEF TablesInv
<1>2. chains[c] \in GoodChain
    BY <1>1
<1>3. running /\ chains[c].at = "scheduled"
    BY DEF Step, LoginRequired, InitTableWindow, InitControls, UpdateWaiters, Ask,
           AddWaiterRefused, OpenGameTable, CashBuyIn, Due
<1>4. UNCHANGED <<down, seat>>
    BY DEF Step, LoginRequired, InitTableWindow, InitControls, UpdateWaiters, Ask,
           AddWaiterRefused, OpenGameTable, CashBuyIn, serverVars
<1>5. shown \subseteq shown'
    BY DEF Step, LoginRequired, InitTableWindow, InitControls, UpdateWaiters, Ask,
           AddWaiterRefused, OpenGameTable, CashBuyIn, windowVars
<1>6. ASSUME \A t : QueuesKept(t), \A t \in Tables : UpKept(t)
      PROVE  SeatsInv'
    <2>1. \A t : DownKept(t)
        BY <1>4, DownSame
    <2>2. \A t : ShownKept(t)
        BY <1>5 DEF ShownKept
    <2>3. \A t \in Tables : seat'[t] = seat[t]
        BY <1>4
    <2> QED BY <1>3, <1>6, <2>1, <2>2, <2>3, SeatsCarry
<1>7. UNCHANGED up => \A t \in Tables : UpKept(t)
    BY DEF UpKept
<1>8. ASSUME NEW status \in BOOLEAN, done(c, status)
      PROVE  /\ DOMAIN chains' = DOMAIN chains
             /\ \A d \in DOMAIN chains : d # c => chains'[d] = chains[d]
             /\ chains'[c].kind = chains[c].kind /\ chains'[c].table = chains[c].table
             /\ status = TRUE /\ chains[c].pos < Len(Scripts[chains[c].kind]) =>
                   chains'[c].at = "scheduled" /\ chains'[c].pos = chains[c].pos + 1
    <2>1. /\ DOMAIN chains' = DOMAIN chains
          /\ \A d \in DOMAIN chains :
                 chains'[d] = IF d = c THEN on_action_done(chains[c], status) ELSE chains[d]
        BY <1>1, <1>8, DoneChains
    <2>2. /\ on_action_done(chains[c], status).kind = chains[c].kind
          /\ on_action_done(chains[c], status).table = chains[c].table
        BY <1>2, DoneType
    <2>3. status = TRUE /\ chains[c].pos < Len(Scripts[chains[c].kind]) =>
             /\ on_action_done(chains[c], status).at = "scheduled"
             /\ on_action_done(chains[c], status).pos = chains[c].pos + 1
        BY <1>2 DEF on_action_done, GoodChain, Chain
    <2> QED BY <2>1, <2>2, <2>3
<1>9. /\ Opening(chains[c]) => \/ Current(c) = "OpenGameTable"
                               \/ /\ chains[c].kind = "WatchCash" /\ chains[c].pos \in {2, 3}
                                  /\ Current(c) \in {"InitTableWindow", "InitViewerControls"}
                                  /\ chains[c].pos < Len(Scripts[chains[c].kind])
      /\ BuyingIn(chains[c]) => \/ Current(c) = "OpenGameTable" /\ chains[c].pos = 5
                                   /\ chains[c].pos < Len(Scripts[chains[c].kind])
                                \/ Current(c) = "CashBuyIn" /\ chains[c].pos = 6
    BY <1>2, OpeningIs DEF Current
<1>10. CASE LoginRequired(c) \/ UpdateWaiters(c) \/ AddWaiterRefused(c)
    <2>1. PICK status \in BOOLEAN : done(c, status)
        BY <1>10 DEF LoginRequired, UpdateWaiters, AddWaiterRefused
    <2>2. UNCHANGED up /\ Current(c) \in {"LoginRequired", "UpdateWaiters", "AddWaiter"}
        BY <1>10 DEF LoginRequired, UpdateWaiters, AddWaiterRefused, Due
    <2>3. ~Opening(chains[c]) /\ ~BuyingIn(chains[c])
        BY <1>9, <2>2
    <2>4. \A t : QueuesKept(t)
        BY <1>8, <2>1, <2>3, QueuesKeptBy
    <2> QED BY <1>6, <1>7, <2>2, <2>4
<1>11. CASE InitTableWindow(c) \/ InitControls(c)
    <2>1. done(c, TRUE) /\ UNCHANGED up
        BY <1>11 DEF InitTableWindow, InitControls
    <2>2. Current(c) \in {"InitTableWindow", "InitPlayerControls", "InitViewerControls"}
        BY <1>11 DEF InitTableWindow, InitControls, Due
    <2>3. Opening(chains[c]) => Opening(chains'[c])
        <3> SUFFICES ASSUME Opening(chains[c]) PROVE Opening(chains'[c])
            OBVIOUS
        <3>1. /\ chains[c].kind = "WatchCash" /\ chains[c].pos \in {2, 3}
              /\ chains[c].pos < Len(Scripts[chains[c].kind])
            BY <1>9, <2>2
        <3>2. /\ chains'[c].kind = "WatchCash" /\ chains'[c].at = "scheduled"
              /\ chains'[c].pos = chains[c].pos + 1
            BY <1>8, <2>1, <3>1
        <3>3. chains'[c].pos \in 2 .. 4
            BY <3>1, <3>2
        <3> QED BY <3>2, <3>3 DEF Opening
    <2>4. ~BuyingIn(chains[c])
        BY <1>9, <2>2
    <2>5. \A t : QueuesKept(t)
        BY <1>8, <2>1, <2>3, <2>4, QueuesKeptBy
    <2> QED BY <1>6, <1>7, <2>1, <2>5
<1>12. CASE OpenGameTable(c)
    <2>1. CASE crash' # "none"
        BY <2>1, Crashed
    <2>2. CASE crash' = "none"
        <3>1. chains[c].table \in shown' /\ done(c, TRUE) /\ UNCHANGED up
            BY <1>12, <2>2 DEF OpenGameTable
        <3>2. Current(c) = "OpenGameTable"
            BY <1>12 DEF OpenGameTable, Due
        <3>3. BuyingIn(chains[c]) => BuyingIn(chains'[c])
            <4> SUFFICES ASSUME BuyingIn(chains[c]) PROVE BuyingIn(chains'[c])
                OBVIOUS
            <4>1. chains[c].pos = 5 /\ chains[c].pos < Len(Scripts[chains[c].kind])
                BY <1>9, <3>2
            <4>2. /\ chains'[c].kind = chains[c].kind /\ chains'[c].at = "scheduled"
                  /\ chains'[c].pos = chains[c].pos + 1
                BY <1>8, <3>1, <4>1
            <4>3. chains'[c].pos = 6
                BY <4>1, <4>2
            <4> QED BY <4>2, <4>3 DEF BuyingIn
        <3>4. \A t : QueuesKept(t)
            BY <1>8, <3>1, <3>3, QueuesKeptBy
        <3> QED BY <1>6, <1>7, <3>1, <3>4
    <2> QED BY <2>1, <2>2
<1>13. CASE CashBuyIn(c) \/ Ask(c)
    <2> DEFINE To(s) == chains' = [chains EXCEPT ![c].at = s] /\ (CashBuyIn(c) => s = "dialog")
    <2>1. (UNCHANGED chains /\ CashBuyIn(c)) \/ \E s \in Stages : To(s)
        <3>1. Current(c) = "CashBuyIn" => Current(c) \notin DOMAIN Asks
            BY AsksType
        <3> QED BY <1>13, <3>1 DEF CashBuyIn, Ask, Stages, Due
    <2>2. CASE UNCHANGED chains /\ CashBuyIn(c)
        <3>1. \A t : QueuesKept(t)
            BY <2>2, QueuesSame
        <3> QED BY <1>6, <1>7, <2>2, <3>1 DEF CashBuyIn
    <2>3. CASE \E s \in Stages : To(s)
        <3> PICK s \in Stages : To(s)
            BY <2>3
        <3>1. /\ DOMAIN chains' = DOMAIN chains
              /\ \A d \in DOMAIN chains :
                     chains'[d] = IF d = c THEN [chains[c] EXCEPT !.at = s] ELSE chains[d]
            BY <1>1, StageChains
        <3>2. /\ [chains[c] EXCEPT !.at = s].kind = chains[c].kind
              /\ [chains[c] EXCEPT !.at = s].table = chains[c].table
              /\ [chains[c] EXCEPT !.at = s].pos = chains[c].pos
              /\ [chains[c] EXCEPT !.at = s].at = s
            BY <1>2, StageType
        <3>3. /\ chains'[c].kind = chains[c].kind /\ chains'[c].table = chains[c].table
              /\ chains'[c].pos = chains[c].pos /\ chains'[c].at = s
            BY <3>1, <3>2
        <3>4. \/ CashBuyIn(c) /\ Current(c) = "CashBuyIn"
              \/ Ask(c) /\ Current(c) \in DOMAIN Asks
            BY <1>13 DEF CashBuyIn, Ask, Due
        <3>5. ~Opening(chains[c]) /\ (BuyingIn(chains[c]) => BuyingIn(chains'[c]))
            BY <1>9, <3>3, <3>4, AsksType DEF BuyingIn
        <3>6. \A t : QueuesKept(t)
            BY <3>1, <3>3, <3>5, QueuesKeptBy
        <3>7. \A t \in Tables : UpKept(t)
            <4>1. CASE CashBuyIn(c)
                BY <1>7, <4>1 DEF CashBuyIn
            <4>2. CASE Ask(c)
                <5>1. \E proc \in Requests : request(proc, chains[c].table, c)
                    BY <4>2, AsksType DEF Ask
                <5> QED BY <1>1, <1>2, <5>1, UpMore
            <4> QED BY <1>13, <4>1, <4>2
        <3> QED BY <1>6, <3>6, <3>7
    <2> HIDE DEF To
    <2> QED BY <2>1, <2>2, <2>3
<1> QED BY <1>10, <1>11, <1>12, <1>13 DEF Step

\* What a dialog that returns sends.
LEMMA CancelledUp ==
    ASSUME up \in Seq(Request), NEW t \in Tables, NEW c \in 0 .. MaxChains,
           \/ up' = Sent(Sent(up, "sit_on_table_canceled", t, c), "sit_on_table_canceled", t, c)
           \/ request("sit_on_table_canceled", t, c)
           \/ request("set_sit_money", t, c)
    PROVE  /\ \A K : Has(K, up) => Has(K, up')
           /\ connected => Has(BuyInOf(t), up')
<1>1. CASE ~connected
    BY <1>1 DEF request, Sent
<1>2. CASE connected
    <2> DEFINE x(proc) == [proc |-> proc, table |-> t, chain |-> c]
    <2>1. \A proc \in {"sit_on_table_canceled", "set_sit_money"} :
             x(proc) \in Request /\ x(proc) \in BuyInOf(t)
        BY DEF Request, Requests, BuyInOf
    <2>2. \/ \E proc \in {"sit_on_table_canceled", "set_sit_money"} : up' = Append(up, x(proc))
          \/ up' = Append(Append(up, x("sit_on_table_canceled")), x("sit_on_table_canceled"))
        BY <1>2 DEF request, Sent
    <2> HIDE DEF x
    <2>3. ASSUME NEW proc \in {"sit_on_table_canceled", "set_sit_money"},
                 NEW s \in Seq(Request)
          PROVE  /\ Append(s, x(proc)) \in Seq(Request)
                 /\ \A K : Has(K, Append(s, x(proc))) <=> Has(K, s) \/ x(proc) \in K
        <3>1. x(proc) \in Request
            BY <2>1
        <3> QED BY <3>1, HasAppend, AppendSeq
    <2> QED BY <2>1, <2>2, <2>3
<1> QED BY <1>1, <1>2

\* A buy-in dialog returns: the server is told, unless it has forgotten.
LEMMA SeatsBuyIn ==
    ASSUME TablesInv, DialogInv, QueuesInv, Offline, SeatsInv,
           AcceptBuyIn \/ RejectBuyIn \/ BuyInGone
    PROVE  SeatsInv'
<1> DEFINE top == Head(modals)
           k == top.chain
           t == top.table
<1>1. /\ chains \in Seq(GoodChain) /\ modals \in Seq(Modal) /\ up \in Seq(Request)
    BY GoodChains DEF TablesInv
<1>2. running /\ modals # <<>> /\ top.kind = "buyin" /\ UNCHANGED <<shown, down, seat>>
    BY DEF AcceptBuyIn, RejectBuyIn, BuyInGone, Asked, windowVars, serverVars
<1>3. /\ 1 \in DOMAIN modals /\ top = modals[1] /\ top \in Modal
    BY <1>1, <1>2, PopAt
<1>4. t \in Tables /\ k \in 0 .. MaxChains
    BY <1>3 DEF Modal
<1>5. /\ k \in DOMAIN chains /\ chains[k].at = "dialog"
    BY <1>2, <1>3 DEF DialogInv
<1>6. chains[k].table = t
    BY <1>2, <1>3 DEF QueuesInv, OfItsQueue
<1>7. \/ up' = Sent(Sent(up, "sit_on_table_canceled", t, k), "sit_on_table_canceled", t, k)
      \/ request("sit_on_table_canceled", t, k)
      \/ request("set_sit_money", t, k)
    BY DEF AcceptBuyIn, RejectBuyIn, BuyInGone, Cancelled
<1>8. PICK status \in BOOLEAN : done(k, status)
    BY DEF AcceptBuyIn, RejectBuyIn, BuyInGone
<1> HIDE DEF top, k, t
<1>9. (\A K : Has(K, up) => Has(K, up')) /\ (connected => Has(BuyInOf(t), up'))
    BY <1>1, <1>4, <1>7, CancelledUp
<1>10. CASE connected
    <2>1. /\ DOMAIN chains' = DOMAIN chains
          /\ \A d \in DOMAIN chains : d # k => chains'[d] = chains[d]
          /\ chains'[k].table = chains[k].table
        <3>1. chains[k] \in GoodChain
            BY <1>1, <1>5
        <3> QED BY <1>1, <1>5, <1>8, <3>1, DoneChains, DoneType
    <2>2. ~Opening(chains[k])
        BY <1>5 DEF Opening
    <2>3. \A u : QueuesKept(u)
        BY <1>6, <1>9, <1>10, <2>1, <2>2, QueuesKeptBy
    <2>4. \A u \in Tables : DownKept(u) /\ ShownKept(u) /\ UpKept(u) /\ seat'[u] = seat[u]
        BY <1>2, <1>9, DownSame DEF ShownKept, UpKept
    <2> QED BY <1>2, <2>3, <2>4, SeatsCarry
<1>11. CASE ~connected
    <2>1. \A u \in Tables : seat'[u] = "none"
        BY <1>2, <1>11 DEF Offline
    <2> QED BY <1>2, <2>1, SeatsCarry
<1> QED BY <1>10, <1>11

\* The other dialogs.
LEMMA SeatsAnswer ==
    ASSUME TablesInv, SeatsInv, AnswerRecharge \/ AnswerQuestion
    PROVE  SeatsInv'
<1> DEFINE top == Head(modals)
<1>1. up \in Seq(Request) /\ modals \in Seq(Modal) /\ 0 \in 0 .. MaxChains
    BY TablesAssumption DEF TablesInv, TablesTypeOK
<1>2. running /\ modals # <<>> /\ UNCHANGED <<shown, chains, down, seat>>
    BY DEF AnswerRecharge, AnswerQuestion, Asked, windowVars, serverVars
<1>3. top.table \in Tables /\ top.chain \in 0 .. MaxChains
    BY <1>1, <1>2, PopAt DEF Modal
<1>4. \/ UNCHANGED up
      \/ up' = Cancelled(top)
      \/ request("close_table", top.table, 0)
    BY DEF AnswerRecharge, AnswerQuestion
<1> HIDE DEF top
<1>5. \A K : Has(K, up) => Has(K, up')
    <2>1. CASE UNCHANGED up
        BY <2>1
    <2>2. CASE up' = Cancelled(top)
        BY <1>1, <1>3, <2>2, CancelledUp DEF Cancelled
    <2>3. CASE request("close_table", top.table, 0)
        <3>1. UNCHANGED up \/ \E x \in Request : up' = Append(up, x)
            BY <1>1, <1>3, <2>3, SentCases DEF Requests
        <3> QED BY <1>1, <3>1, HasAppend
    <2> QED BY <1>4, <2>1, <2>2, <2>3
<1>6. \A u \in Tables : DownKept(u) /\ ShownKept(u) /\ UpKept(u) /\ seat'[u] = seat[u]
    BY <1>2, <1>5, DownSame DEF ShownKept, UpKept
<1>7. \A u : QueuesKept(u)
    BY <1>2, QueuesSame
<1> QED BY <1>2, <1>6, <1>7, SeatsCarry

\* Clicks, the close button and a new connection.
LEMMA SeatsUser ==
    ASSUME TablesInv, SeatsInv,
           \/ \E kind \in Kinds, t \in Tables : Click(kind, t)
           \/ \E t \in Tables : closeEvent(t)
           \/ Reconnect
    PROVE  SeatsInv'
<1>1. running /\ UNCHANGED <<shown, up, down, seat>>
    BY DEF Click, closeEvent, MayClick, Reconnect, Polling, windowVars, serverVars
<1>2. \A u \in Tables : DownKept(u) /\ ShownKept(u) /\ UpKept(u) /\ seat'[u] = seat[u]
    BY <1>1, DownSame DEF ShownKept, UpKept
<1>3. chains \in Seq(GoodChain)
    BY GoodChains DEF TablesInv
<1>4. ASSUME NEW kind \in Kinds, NEW t \in Tables, Click(kind, t)
      PROVE  \A u : QueuesKept(u)
    <2>1. /\ DOMAIN chains \subseteq DOMAIN chains'
          /\ \A d \in DOMAIN chains : chains'[d] = chains[d]
        BY <1>3, <1>4, ClickChains
    <2> QED BY <2>1, QueuesKeptBy
<1>5. ASSUME Reconnect \/ \E t \in Tables : closeEvent(t)
      PROVE  \A u : QueuesKept(u)
    BY <1>5, QueuesSame DEF Reconnect, closeEvent
<1> QED BY <1>1, <1>2, <1>4, <1>5, SeatsCarry

\* A lost connection takes the seats along.
LEMMA SeatsLost ==
    ASSUME SeatsInv, onDisconnected
    PROVE  SeatsInv'
<1>1. running /\ \A t \in Tables : seat'[t] = "none"
    BY DEF onDisconnected, Polling
<1> QED BY <1>1, SeatsCarry

\* What the server makes of a seat: whoever gets one is answered, and so is
\* who gets one reserved.
Served(proc, old, v) ==
    /\ v[1] \in SeatKinds /\ v[2] \in BOOLEAN
    /\ v[1] # "none" =>
          old # "none" \/ (proc \in {"sit_on_table", "add_viewer"} /\ v[2] = TRUE)
    /\ v[1] = "reserved" =>
          \/ old = "reserved" /\ proc \notin {"sit_on_table_canceled", "set_sit_money"}
          \/ proc = "sit_on_table" /\ v[2] = TRUE
    /\ proc = "close_table" /\ v[2] = TRUE => v[1] = "none"

\* The verdict of the server on a request changes a seat as Served says.
LEMMA VerdictRaises ==
    ASSUME NEW proc \in Requests, NEW old \in SeatKinds, NEW v \in Verdicts(proc, old)
    PROVE  Served(proc, old, v)
<1>1. v[1] \in SeatKinds /\ v[2] \in BOOLEAN
    BY VerdictsType
<1>2. \A w : /\ <<w, TRUE>>[1] = w /\ <<w, TRUE>>[2] = TRUE
             /\ <<w, FALSE>>[1] = w /\ <<w, FALSE>>[2] = FALSE
    OBVIOUS
<1>3. CASE proc = "sit_on_table"
    <2>1. v = <<old, FALSE>> \/ v = <<"reserved", TRUE>>
        BY <1>3 DEF Verdicts
    <2>2. v[1] = old \/ (v[1] = "reserved" /\ v[2] = TRUE)
        BY <1>2, <2>1
    <2> QED BY <1>1, <1>3, <2>2 DEF Served
<1>4. CASE proc = "add_viewer"
    <2>1. v = <<old, FALSE>> \/ v = <<IF old = "none" THEN "viewer" ELSE old, TRUE>>
        BY <1>4 DEF Verdicts
    <2>2. v[1] = old \/ (v[1] = "viewer" /\ v[2] = TRUE)
        BY <1>2, <2>1
    <2> QED BY <1>1, <1>4, <2>2 DEF Served
<1>5. CASE proc = "add_waiter"
    <2>1. v = <<old, FALSE>> \/ v = <<old, TRUE>>
        BY <1>5 DEF Verdicts
    <2>2. v[1] = old
        BY <1>2, <2>1
    <2> QED BY <1>1, <1>5, <2>2 DEF Served
<1>6. CASE proc = "close_table"
    <2>1. v = <<old, FALSE>> \/ v = <<"none", TRUE>>
        BY <1>6 DEF Verdicts
    <2>2. (v[1] = old /\ v[2] = FALSE) \/ v[1] = "none"
        BY <1>2, <2>1
    <2> QED BY <1>1, <1>6, <2>2 DEF Served
<1>7. CASE proc = "sit_on_table_canceled"
    <2>1. v = <<IF old = "reserved" THEN "none" ELSE old, TRUE>>
        BY <1>7 DEF Verdicts
    <2>2. v[1] = IF old = "reserved" THEN "none" ELSE old
        BY <1>2, <2>1
    <2> QED BY <1>1, <1>7, <2>2 DEF Served
<1>8. CASE proc = "set_sit_money"
    <2>1. v = <<IF old = "reserved" THEN "player" ELSE old, TRUE>>
        BY <1>8 DEF Verdicts
    <2>2. v[1] = IF old = "reserved" THEN "player" ELSE old
        BY <1>2, <2>1
    <2> QED BY <1>1, <1>8, <2>2 DEF Served
<1> QED BY <1>1, <1>3, <1>4, <1>5, <1>6, <1>7, <1>8 DEF Requests

\* The server serves: a seat that is given is told of in the reply.
LEMMA SeatsServe ==
    ASSUME TablesInv, AsksInv, SeatsInv, Serve
    PROVE  SeatsInv'
<1>1. /\ up \in Seq(Request) /\ down \in Seq(Reply \cup Call) /\ seat \in [Tables -> SeatKinds]
    BY DEF TablesInv, TablesTypeOK, SeatKinds
<1>2. running /\ up # <<>> /\ up' = Tail(up) /\ UNCHANGED <<chains, shown>>
    BY DEF Serve, windowVars
<1> PICK msg \in Request : msg = Head(up)
    BY <1>1, <1>2, FirstOut
<1> DEFINE t == msg.table
<1>3. \A K : Has(K, up) <=> msg \in K \/ Has(K, up')
    BY <1>1, <1>2, HasTail
<1>4. msg.proc \in Requests /\ t \in Tables /\ seat[t] \in SeatKinds
    BY <1>1 DEF Request
<1>5. PICK v \in Verdicts(msg.proc, seat[t]) :
          /\ seat' = [seat EXCEPT ![t] = v[1]]
          /\ down' = IF msg.proc \in Answered
                     THEN Append(down, [proc |-> msg.proc, table |-> t, chain |-> msg.chain,
                                        ok |-> v[2]])
                     ELSE down
    BY DEF Serve
<1>6. Served(msg.proc, seat[t], v)
    BY <1>4, VerdictRaises
<1>7. ReplyTo(msg, v[2]) \in Reply
      /\ ReplyTo(msg, v[2]).proc = msg.proc /\ ReplyTo(msg, v[2]).table = t
      /\ ReplyTo(msg, v[2]).ok = v[2]
    BY <1>6, ReplyToIs DEF Served
<1>8. down' = IF msg.proc \in Answered THEN Append(down, ReplyTo(msg, v[2])) ELSE down
    BY <1>5 DEF ReplyTo
<1>9. seat'[t] = v[1] /\ \A u \in Tables : u # t => seat'[u] = seat[u]
    BY <1>1, <1>4, <1>5
<1> HIDE DEF t
<1>10. ASSUME NEW u \in Tables, u = t => v[1] # "none"
       PROVE  DownKept(u)
    <2>1. ReplyTo(msg, v[2]) \notin ClosersOf(u)
        <3>1. ReplyTo(msg, v[2]) \notin Call
            BY <1>7, CallsApart
        <3>2. ASSUME ReplyTo(msg, v[2]) \in GrantOf(u) PROVE FALSE
            <4>1. msg.proc = "close_table" /\ t = u /\ v[2] = TRUE
                BY <1>6, <1>7, <3>2 DEF GrantOf, Served
            <4> QED BY <1>6, <1>10, <4>1 DEF Served
        <3> QED BY <3>1, <3>2 DEF ClosersOf, CloseCalls
    <2> QED BY <1>1, <1>7, <1>8, <2>1, DownSame, DownMore
<1>11. ASSUME NEW u \in Tables, u = t => v[1] # "none"
       PROVE  /\ Shows(u) => Shows(u)'
              /\ UpKept(u) /\ Resolves(u) => Resolves(u)'
    BY <1>2, <1>10, <1>11, QueuesSame, SeatCarry DEF ShownKept
<1>12. ASSUME NEW u \in Tables, u = t => msg.proc \notin {"sit_on_table_canceled", "set_sit_money"}
       PROVE  UpKept(u)
    <2>1. msg \notin BuyInOf(u)
        BY <1>12 DEF BuyInOf, t
    <2> QED BY <1>3, <2>1 DEF UpKept
<1>13. ASSUME msg.proc \in {"sit_on_table", "add_viewer"}, v[2] = TRUE
       PROVE  GrantComes(t)' /\ (msg.proc = "sit_on_table" => Has(SeatsOf(t), down'))
    <2> DEFINE x == ReplyTo(msg, v[2])
    <2>1. /\ x \in Reply \cup Call /\ x \in OpensOf(t) /\ x \notin ClosersOf(t)
          /\ msg.proc = "sit_on_table" => x \in SeatsOf(t)
        BY <1>7, <1>13, CallsApart DEF OpensOf, ClosersOf, GrantOf, CloseCalls, SeatsOf
    <2>2. down' = Append(down, x)
        BY <1>8, <1>13 DEF Answered
    <2> HIDE DEF x
    <2>3. \A K : Has(K, down') <=> Has(K, down) \/ x \in K
        BY <1>1, <2>1, <2>2, HasAppend
    <2>4. ~Has(OpensOf(t), down)
        <3>1. msg \in AskAt(t)
            BY <1>3, <1>13 DEF AskAt, AskProcs, t
        <3>2. ~Has(AskAt(t), down)
            BY <1>3, <3>1 DEF AsksInv, Single
        <3>3. OpensOf(t) \subseteq AskAt(t)
            BY DEF OpensOf, AskAt, AskProcs
        <3> QED BY <3>2, <3>3 DEF Has
    <2>5. NoneBefore(OpensOf(t), ClosersOf(t), down)
        BY <2>4 DEF NoneBefore, Has
    <2>6. NoneBefore(OpensOf(t), ClosersOf(t), down')
        BY <1>1, <2>1, <2>2, <2>5, BeforeAppend
    <2> QED BY <2>1, <2>3, <2>6 DEF GrantComes
<1> SUFFICES ASSUME NEW u \in Tables
             PROVE  /\ seat'[u] # "none" => Shows(u)'
                    /\ seat'[u] = "reserved" => Resolves(u)'
    BY DEF SeatsInv
<1>14. CASE u # t
    BY <1>2, <1>9, <1>11, <1>12, <1>14 DEF SeatsInv
<1>15. CASE u = t
    <2>1. ASSUME v[1] # "none" PROVE Shows(t)'
        BY <1>2, <1>4, <1>6, <1>11, <1>13, <2>1 DEF SeatsInv, Shows, Served, t
    <2>2. ASSUME v[1] = "reserved" PROVE Resolves(t)'
        BY <1>2, <1>4, <1>6, <1>11, <1>12, <1>13, <2>2 DEF SeatsInv, Resolves, Served, t
    <2> QED BY <1>9, <1>15, <2>1, <2>2
<1> QED BY <1>14, <1>15

\* The server calls: who closes a table leaves no seat at it.
LEMMA SeatsServerCall ==
    ASSUME TablesInv, SeatsInv, NEW proc \in ServerSends, NEW t \in Tables, ServerCall(proc, t)
    PROVE  SeatsInv'
<1> DEFINE x == [proc |-> proc, table |-> t]
<1>1. down \in Seq(Reply \cup Call) /\ seat \in [Tables -> SeatKinds]
    BY DEF TablesInv, TablesTypeOK, SeatKinds
<1>2. running /\ down' = Append(down, x) /\ UNCHANGED <<chains, shown, up>>
    BY DEF ServerCall, windowVars
<1>3. /\ \A u \in Tables : u # t => seat'[u] = seat[u]
      /\ proc = "close_table" => seat'[t] = "none"
      /\ proc # "close_table" => seat'[t] = seat[t]
    BY <1>1 DEF ServerCall
<1>4. x \in Call /\ x.proc = proc /\ x.table = t
    BY TablesAssumption DEF Call
<1> HIDE DEF x
<1>5. ASSUME NEW u \in Tables, u = t => proc # "close_table" PROVE DownKept(u)
    <2>1. x \notin ClosersOf(u)
        BY <1>4, <1>5, CallsApart DEF ClosersOf, GrantOf, CloseCalls
    <2> QED BY <1>1, <1>2, <1>4, <2>1, DownMore
<1>6. \A u \in Tables : QueuesKept(u) /\ ShownKept(u) /\ UpKept(u)
    BY <1>2, QueuesSame DEF ShownKept, UpKept
<1> QED BY <1>2, <1>3, <1>5, <1>6, SeatsCarry

\* A reply arrives.  A grant for a seat makes its queue go on to open the
\* window, and to the buy-in if there is one.
LEMMA SeatsReply ==
    ASSUME TablesInv, QueuesInv, AsksInv, SeatsInv, NEW proc \in AskProcs, DeliverReply(proc)
    PROVE  SeatsInv'
<1>1. /\ chains \in Seq(GoodChain) /\ down \in Seq(Reply \cup Call)
    BY GoodChains DEF TablesInv
<1>2. /\ running /\ down # <<>> /\ Head(down).proc = proc /\ down' = Tail(down)
      /\ UNCHANGED <<shown, up, seat>>
    BY DEF DeliverReply, Arrives, Polling, windowVars, serverVars
<1> PICK msg \in Reply : msg = Head(down)
    BY ReplyChains
<1> DEFINE t == msg.table
           k == msg.chain
<1>3. /\ DOMAIN chains' = DOMAIN chains
      /\ \A c \in DOMAIN chains :
             IF Waits(c, proc, t)
             THEN /\ GoesOn(c)
                  /\ msg.ok /\ chains[c].pos < Len(Scripts[chains[c].kind]) =>
                        chains'[c].at = "scheduled" /\ chains'[c].pos = chains[c].pos + 1
             ELSE chains'[c] = chains[c]
    BY ReplyGoesOn
<1>4. t \in Tables
    BY DEF Reply
<1>5. \A u : QueuesKept(u)
    <2>1. \A c \in DOMAIN chains : /\ chains'[c].table = chains[c].table
                                   /\ Opening(chains[c]) => Opening(chains'[c])
                                   /\ BuyingIn(chains[c]) => BuyingIn(chains'[c])
        <3>1. \A c \in DOMAIN chains : Waits(c, proc, t) =>
                 ~Opening(chains[c]) /\ ~BuyingIn(chains[c])
            BY DEF Waits, Opening, BuyingIn
        <3> QED BY <1>3, <3>1 DEF GoesOn
    <2> QED BY <1>3, <2>1 DEF QueuesKept, SomeOpening, SomeBuyingIn
<1>6. \A u \in Tables : ShownKept(u) /\ UpKept(u)
    BY <1>2 DEF ShownKept, UpKept
<1>7. ASSUME NEW u \in Tables, msg \notin OpensOf(u)
      PROVE  /\ seat'[u] # "none" => Shows(u)'
             /\ seat'[u] = "reserved" => Resolves(u)'
    <2>1. DownKept(u)
        BY <1>1, <1>2, <1>7, DownLess
    <2> QED BY <1>2, <1>5, <1>6, <2>1, SeatCarry DEF SeatsInv
<1>8. ASSUME msg \in OpensOf(t)
      PROVE  /\ seat'[t] # "none" => Shows(t)'
             /\ seat'[t] = "reserved" => Resolves(t)'
    <2>1. proc \in {"sit_on_table", "add_viewer"} /\ msg.proc = proc /\ msg.ok = TRUE
        BY <1>2, <1>8 DEF OpensOf, Reply
    <2>2. \A K : Has(K, down) <=> msg \in K \/ Has(K, down')
        BY <1>1, <1>2, HasTail
    <2>3. Fits(k, t, proc)
        <3>1. msg \in AskAbout(k, t, proc)
            BY <2>1 DEF AskAbout, AskOf
        <3> QED BY <2>2, <3>1 DEF AsksInv, Flying
    <2>4. /\ k \in DOMAIN chains /\ chains[k].table = t /\ Waits(k, proc, t)
          /\ Current(k) \in DOMAIN Asks /\ Asks[Current(k)] = proc /\ chains[k] \in GoodChain
        BY <1>1, <2>3 DEF Fits, Waits
    <2>5. \/ proc = "sit_on_table" /\ chains[k].kind = "JoinCash" /\ chains[k].pos = 4
          \/ proc = "add_viewer" /\ chains[k].kind = "WatchCash" /\ chains[k].pos = 1
        <3>1. \/ proc = "sit_on_table" /\ Current(k) = "FetchSitOnTableInfo"
              \/ proc = "add_viewer" /\ Current(k) = "AddViewer"
            BY <2>1, <2>4 DEF Asks
        <3> QED BY <2>4, <3>1, ScriptIs DEF Current
    <2>6. chains[k].pos < Len(Scripts[chains[k].kind])
        BY <2>5, NotTheLast
    <2>7. /\ chains'[k].at = "scheduled" /\ chains'[k].pos = chains[k].pos + 1
          /\ chains'[k].kind = chains[k].kind /\ chains'[k].table = t
        BY <1>3, <2>1, <2>4, <2>6 DEF GoesOn
    <2>8. Opening(chains'[k]) /\ (proc = "sit_on_table" => BuyingIn(chains'[k]))
        BY <2>5, <2>7 DEF Opening, BuyingIn
    <2>9. ASSUME seat'[t] # "none" PROVE Shows(t)'
        <3>1. Shows(t)
            BY <1>2, <1>4, <2>9 DEF SeatsInv
        <3>2. GrantComes(t) \/ ~Has(ClosersOf(t), down)
            BY <3>1 DEF Shows
        <3>3. ~Has(ClosersOf(t), down')
            BY <1>1, <1>2, <1>8, <2>2, <3>2, BeforeTail DEF GrantComes
        <3> QED BY <1>3, <2>4, <2>7, <2>8, <3>3 DEF Shows
    <2>10. ASSUME seat'[t] = "reserved" PROVE Resolves(t)'
        <3>1. CASE proc = "sit_on_table"
            BY <1>3, <2>4, <2>7, <2>8, <3>1 DEF Resolves
        <3>2. CASE proc # "sit_on_table"
            <4>1. Resolves(t)
                BY <1>2, <1>4, <2>10 DEF SeatsInv
            <4>2. Has(SeatsOf(t), down) => Has(SeatsOf(t), down')
                BY <2>1, <2>2, <3>2 DEF SeatsOf
            <4> QED BY <1>5, <1>6, <1>4, <4>1, <4>2
                    DEF Resolves, QueuesKept, SomeBuyingIn, UpKept
        <3> QED BY <3>1, <3>2
    <2> QED BY <2>9, <2>10
<1>9. \A u : msg \in OpensOf(u) => u = t
    BY DEF OpensOf
<1> QED BY <1>7, <1>8, <1>9 DEF SeatsInv

\* A window is taken away: by what the seat was given up for, or before the
\* grant that opens it again.
LEMMA SeatsClosed ==
    ASSUME TablesInv, SeatsInv, DeliverCloseReply \/ close_table
    PROVE  SeatsInv'
<1>1. down \in Seq(Reply \cup Call)
    BY DEF TablesInv, TablesTypeOK
<1>2. /\ running /\ down # <<>> /\ Head(down).proc = "close_table" /\ down' = Tail(down)
      /\ UNCHANGED <<chains, up, seat>>
    BY DEF DeliverCloseReply, close_table, Arrives, Polling, serverVars
<1> PICK msg \in Reply \cup Call : msg = Head(down)
    BY <1>1, <1>2, FirstOut
<1>3. CASE crash' # "none"
    BY <1>3, Crashed
<1>4. CASE crash' = "none"
    <2>1. \/ UNCHANGED shown
          \/ msg \in ClosersOf(msg.table) /\ shown' = shown \ {msg.table}
        <3>1. CASE close_table
            <4>1. msg \in Call
                BY <3>1 DEF close_table, IsReply, Reply
            <4> QED BY <1>2, <3>1, <4>1 DEF close_table, removeGame, ClosersOf, CloseCalls
        <3>2. CASE DeliverCloseReply
            <4>1. msg \in Reply
                BY <3>2, CallsApart DEF DeliverCloseReply, IsReply
            <4>2. UNCHANGED shown \/ (msg.ok /\ removeGame({msg.table}))
                BY <1>4, <3>2 DEF DeliverCloseReply, windowVars
            <4> QED BY <1>2, <4>1, <4>2 DEF removeGame, ClosersOf, GrantOf
        <3> QED BY <3>1, <3>2
    <2>2. ASSUME NEW u \in Tables PROVE ShownKept(u)
        <3>1. msg \in ClosersOf(msg.table) => Has(ClosersOf(msg.table), down)
            BY <1>1, <1>2, HasTail
        <3> QED BY <2>1, <3>1 DEF ShownKept
    <2>3. \A u : DownKept(u)
        BY <1>1, <1>2, DownLess DEF OpensOf
    <2>4. \A u \in Tables : QueuesKept(u) /\ UpKept(u) /\ seat'[u] = seat[u]
        BY <1>2, QueuesSame DEF UpKept
    <2> QED BY <1>2, <2>2, <2>3, <2>4, SeatsCarry
<1> QED BY <1>3, <1>4

\* A call of the server that closes no window changes no seat.
LEMMA SeatsCalled ==
    ASSUME TablesInv, SeatsInv, set_table_state \/ show_recharge_message
    PROVE  SeatsInv'
<1>1. down \in Seq(Reply \cup Call)
    BY DEF TablesInv, TablesTypeOK
<1>2. /\ running /\ down # <<>> /\ down' = Tail(down) /\ UNCHANGED <<chains, up, seat, shown>>
      /\ Head(down).proc \in {"set_table_state", "show_recharge_message"}
    BY DEF set_table_state, show_recharge_message, Arrives, Polling, serverVars, windowVars
<1>3. \A u : DownKept(u)
    BY <1>1, <1>2, DownLess DEF OpensOf
<1>4. \A u \in Tables : QueuesKept(u) /\ ShownKept(u) /\ UpKept(u) /\ seat'[u] = seat[u]
    BY <1>2, QueuesSame DEF ShownKept, UpKept
<1> QED BY <1>2, <1>3, <1>4, SeatsCarry

\* Every step keeps what is said of the seats.
LEMMA SeatsStep ==
    ASSUME TablesInv, DialogInv, QueuesInv, Offline, AsksInv, SeatsInv, [Next]_vars
    PROVE  SeatsInv'
<1>1. CASE UNCHANGED vars
    BY <1>1 DEF vars, serverVars, windowVars, SeatsInv, Shows, Resolves, GrantComes, running
<1>2. CASE Next
    <2>1. \A c \in DOMAIN chains : Step(c) => SeatsInv'
        BY SeatsAction
    <2>2. \A proc \in ServerSends, t \in Tables : ServerCall(proc, t) => SeatsInv'
        BY SeatsServerCall
    <2>3. Deliver => SeatsInv'
        BY SeatsReply, SeatsClosed, SeatsCalled DEF Deliver, AskProcs
    <2>4. Answer \/ BuyInGone => SeatsInv'
        BY SeatsBuyIn, SeatsAnswer DEF Answer
    <2> QED BY <1>2, <2>1, <2>2, <2>3, <2>4, SeatsUser, SeatsLost, SeatsServe DEF Next
<1> QED BY <1>1, <1>2

\* At the start there is no queue, no message and no seat.
LEMMA SeatsInit == Init => QueuesInv /\ Offline /\ AsksInv /\ SeatsInv
<1> SUFFICES ASSUME Init PROVE QueuesInv /\ Offline /\ AsksInv /\ SeatsInv
    OBVIOUS
<1>1. DOMAIN <<>> = {}
    OBVIOUS
<1>2. chains = <<>> /\ modals = <<>> /\ up = <<>> /\ down = <<>> /\ connected = TRUE
      /\ \A t \in Tables : seat[t] = "none"
    BY DEF Init
<1>3. QueuesInv
    BY <1>1, <1>2 DEF QueuesInv
<1>4. Offline /\ SeatsInv
    BY <1>2 DEF Offline, SeatsInv
<1>5. AsksInv
    BY <1>1, <1>2 DEF AsksInv, Single, Flying, Once, Has
<1> QED BY <1>3, <1>4, <1>5

\* A seat the server holds, about which all is said, has its window on the
\* screen and is not reserved for a buy-in nobody will make: whatever the
\* server does and however often the connection is lost, if the user waits for
\* the last request about a table before the next.
THEOREM SeatHasWindowCorrect == Serial => (Spec => []SeatHasWindow)
<1> SUFFICES ASSUME Serial PROVE Spec => []SeatHasWindow
    OBVIOUS
<1> DEFINE Inv == TablesInv /\ DialogInv /\ QueuesInv /\ Offline /\ AsksInv /\ SeatsInv
<1>1. Init => Inv
    BY TablesInit, DialogInit, SeatsInit
<1>2. Inv /\ [Next]_vars => Inv'
    BY TablesStep, DialogStep, QueuesStep, OfflineStep, AsksStep, SeatsStep
<1>3. Inv => SeatHasWindow
    <2> SUFFICES ASSUME TablesInv, AsksInv, SeatsInv, NEW t \in Tables, running, Quiet(t),
                        seat[t] # "none"
                 PROVE  t \in shown /\ seat[t] # "reserved"
        BY DEF SeatHasWindow
    <2>1. /\ \A i \in DOMAIN down : down[i].table # t
          /\ \A i \in DOMAIN up : up[i].table # t
        BY DEF Quiet
    <2>2. /\ ~Has(OpensOf(t), down) /\ ~Has(SeatsOf(t), down) /\ ~Has(BuyInOf(t), up)
        BY <2>1 DEF Has, OpensOf, SeatsOf, BuyInOf
    <2>3. \A c \in DOMAIN chains : chains[c].table = t =>
             ~Opening(chains[c]) /\ ~BuyingIn(chains[c])
        BY DEF Quiet, InProgress, Opening, BuyingIn, Ended
    <2> QED BY <2>2, <2>3 DEF SeatsInv, Shows, Resolves, GrantComes
<1> HIDE DEF Inv
<1> QED BY <1>1, <1>2, <1>3, PTL DEF Spec
-----------------------------------------------------------------------------
(* Whose reply a queue takes.                                                *)

\* A step that is no reply changes no queue's mark.
OwnKept == /\ DOMAIN chains' = DOMAIN chains
           /\ \A d \in DOMAIN chains : chains'[d].own = chains[d].own

LEMMA OwnAfter ==
    ASSUME chains \in Seq(GoodChain), NEW c,
           \/ UNCHANGED chains
           \/ \E status \in BOOLEAN : done(c, status)
           \/ \E s \in Stages : chains' = [chains EXCEPT ![c].at = s]
    PROVE  OwnKept
<1>1. \A d \in DOMAIN chains : chains[d] \in GoodChain
    OBVIOUS
<1>2. CASE UNCHANGED chains
    BY <1>2 DEF OwnKept
<1>3. ASSUME NEW status \in BOOLEAN, done(c, status) PROVE OwnKept
    BY <1>1, <1>3, DoneChains, DoneType DEF OwnKept
<1>4. ASSUME NEW s \in Stages, chains' = [chains EXCEPT ![c].at = s] PROVE OwnKept
    BY <1>1, <1>4, StageChains, StageType DEF OwnKept
<1> QED BY <1>2, <1>3, <1>4

LEMMA OwnOthers ==
    ASSUME TablesInv, Next
    PROVE  \/ OwnKept
           \/ \E kind \in Kinds, t \in Tables : Click(kind, t)
           \/ \E proc \in AskProcs : DeliverReply(proc)
<1>1. chains \in Seq(GoodChain)
    BY GoodChains DEF TablesInv
<1>2. ASSUME NEW c \in DOMAIN chains, Step(c) PROVE OwnKept
    <2>1. \/ UNCHANGED chains
          \/ \E status \in BOOLEAN : done(c, status)
          \/ \E s \in Stages : chains' = [chains EXCEPT ![c].at = s]
        BY <1>2 DEF Step, LoginRequired, InitTableWindow, InitControls, UpdateWaiters, Ask,
                    AddWaiterRefused, OpenGameTable, CashBuyIn, Stages
    <2> QED BY <1>1, <2>1, OwnAfter
<1>3. CASE Answer \/ BuyInGone
    <2>1. UNCHANGED chains \/ \E status \in BOOLEAN : done(Head(modals).chain, status)
        BY <1>3
           DEF Answer, AcceptBuyIn, RejectBuyIn, AnswerRecharge, AnswerQuestion, BuyInGone
    <2> QED BY <1>1, <2>1, OwnAfter
<1>4. CASE onDisconnected
    <2>1. \A d \in DOMAIN chains : chains[d] \in GoodChain
        BY <1>1
    <2>2. "lost" \in Stages
        BY DEF Stages
    <2>3. ASSUME NEW d \in DOMAIN chains PROVE chains'[d].own = chains[d].own
        <3>1. [chains[d] EXCEPT !.at = "lost"].own = chains[d].own
            BY <2>1, <2>2, StageType
        <3> QED BY <1>1, <1>4, <3>1, LostChains
    <2>4. DOMAIN chains' = DOMAIN chains
        BY <1>1, <1>4, LostChains
    <2> QED BY <2>3, <2>4 DEF OwnKept
<1>5. CASE \/ Serve \/ Reconnect
           \/ DeliverCloseReply \/ set_table_state \/ close_table \/ show_recharge_message
           \/ (\E t \in Tables : closeEvent(t))
           \/ (\E proc \in ServerSends, t \in Tables : ServerCall(proc, t))
    BY <1>5 DEF Serve, Reconnect, DeliverCloseReply, set_table_state, close_table,
                show_recharge_message, closeEvent, ServerCall, OwnKept
<1> QED BY <1>2, <1>3, <1>4, <1>5 DEF Next, Deliver, AskProcs

\* The reply at the head of the wire is to a queue that waits for it; another
\* that would take it was left by a lost session.
LEMMA ReplyToItsQueue ==
    ASSUME TablesInv, QueuesInv, AsksInv, NEW proc \in AskProcs, DeliverReply(proc),
           NEW c \in DOMAIN chains, Waits(c, proc, Head(down).table)
    PROVE  Head(down).chain = c \/ chains[c].at = "lost"
<1> DEFINE msg == Head(down)
           a == msg.chain
           t == msg.table
<1>1. msg \in Reply /\ msg.proc = proc /\ down # <<>> /\ down \in Seq(Reply \cup Call)
    BY ReplyChains, GoodChains DEF DeliverReply, Arrives, TablesInv
<1>2. Has(AskAbout(a, t, proc), down)
    <2>1. msg \in AskAbout(a, t, proc)
        BY <1>1 DEF AskAbout, AskOf
    <2>2. 1 \in DOMAIN down /\ down[1] = msg
        BY <1>1
    <2> QED BY <2>1, <2>2 DEF Has
<1>3. Fits(a, t, proc)
    BY <1>2 DEF AsksInv, Flying
<1>4. a \in DOMAIN chains /\ Asking(chains[a]) /\ chains[a].table = t
    BY <1>3 DEF Fits, Asking
<1>5. chains[c].at \in {"waiting", "lost"} /\ chains[c].table = t
    BY DEF Waits
<1>6. CASE chains[c].at = "waiting"
    BY <1>4, <1>5, <1>6 DEF QueuesInv, Asking
<1> QED BY <1>5, <1>6

LEMMA OwnStep ==
    ASSUME TablesInv, QueuesInv, AsksInv, OwnReply, [Next]_vars
    PROVE  OwnReply'
<1>1. chains \in Seq(GoodChain)
    BY GoodChains DEF TablesInv
<1>2. CASE OwnKept
    BY <1>2 DEF OwnKept, OwnReply
<1>3. ASSUME NEW kind \in Kinds, NEW t \in Tables, Click(kind, t) PROVE OwnReply'
    <2>1. \A k, u : [kind |-> k, table |-> u, pos |-> 1, at |-> "scheduled", own |-> TRUE].own
        OBVIOUS
    <2> QED BY <1>1, <1>3, <2>1, ClickChains DEF OwnReply
<1>4. ASSUME NEW proc \in AskProcs, DeliverReply(proc) PROVE OwnReply'
    <2>1. /\ DOMAIN chains' = DOMAIN chains
          /\ \A d \in DOMAIN chains :
                 /\ Waits(d, proc, Head(down).table) =>
                       (chains'[d].own <=> Head(down).chain = d \/ chains[d].at = "lost")
                 /\ ~Waits(d, proc, Head(down).table) => chains'[d] = chains[d]
        BY <1>4, ReplyChains
    <2>2. \A d \in DOMAIN chains : Waits(d, proc, Head(down).table) =>
             Head(down).chain = d \/ chains[d].at = "lost"
        BY <1>4, ReplyToItsQueue
    <2> QED BY <2>1, <2>2 DEF OwnReply
<1>5. CASE UNCHANGED vars
    BY <1>5 DEF vars, OwnReply
<1> QED BY <1>2, <1>3, <1>4, <1>5, OwnOthers

\* A reply carries nothing but its procedure and table, and the callbacks of
\* requests lost with their connection stay: still, with a serial user, a queue
\* that waits for a reply takes none but its own, over any number of lost
\* connections and whatever the server does.
THEOREM OwnReplyCorrect == Serial => (Spec => []OwnReply)
<1> SUFFICES ASSUME Serial PROVE Spec => []OwnReply
    OBVIOUS
<1> DEFINE Inv == TablesInv /\ DialogInv /\ QueuesInv /\ AsksInv /\ OwnReply
<1>1. Init => Inv
    <2>1. Init => OwnReply
        <3>1. DOMAIN <<>> = {}
            OBVIOUS
        <3> QED BY <3>1 DEF Init, OwnReply
    <2> QED BY <2>1, TablesInit, DialogInit, SeatsInit
<1>2. Inv /\ [Next]_vars => Inv'
    BY TablesStep, DialogStep, QueuesStep, AsksStep, OwnStep
<1>3. Inv => OwnReply
    OBVIOUS
<1> HIDE DEF Inv
<1> QED BY <1>1, <1>2, <1>3, PTL DEF Spec
=============================================================================
