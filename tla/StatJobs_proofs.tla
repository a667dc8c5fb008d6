--------------------------- MODULE StatJobs_proofs ---------------------------
(***************************************************************************)
(* What the jobs and the GUI thread never do to each other, for any jobs,  *)
(* any nap count and any bound.                                            *)
(*                                                                         *)
(* FreedOnlyWhenQuick, WorkerErrorsAtLossOnly and ConnectedMeansStarted    *)
(* rest on there being one job, the one ~NetworkClient waits for, as long  *)
(* as no session has come up too quickly (OneJob), on where that job and   *)
(* the GUI thread can be once its session is lost (AtLoss), and on who     *)
(* stops netio and when (Stops).  OneWritePerRace rests on what a thread   *)
(* between test and set stands for: a write that is as good as started     *)
(* (Pending).                                                              *)
(***************************************************************************)
EXTENDS StatJobs, FiniteSetTheorems, TLAPS

\* Unless a session has found a job of an earlier one, only the job started
\* last runs, and none once the client is gone.
OneJob == ~quick => \A j \in Jobs : ~Ended(j) => j = last /\ pc[Gui] # "gone"

\* A job that has met the loss of its session, or will, without a dialog: the
\* GUI thread is at the error.
AtLoss ==
    ~quick /\ ~dialog =>
        \A j \in Jobs :
            pc[j] = "error" \/ (~Ended(j) /\ ~started) => pc[Gui] = "lost"

\* A job stops what is not started, the GUI thread nothing; no session begins
\* with a stop() behind it, and none ends without an error under way.
Stops ==
    ~quick =>
        /\ \A j \in Jobs : pc[j] \in {"error", "stop"} => ~started
        /\ started => ~stopping
        /\ connected /\ pc[Gui] \notin {"lost", "gone"} => started
        /\ pc[Gui] = "pack" => started
        /\ pc[Gui] \notin {"error", "stop"}

JobsInv ==
    /\ OneJob
    /\ AtLoss
    /\ Stops
    /\ FreedOnlyWhenQuick
    /\ WorkerErrorsAtLossOnly
    /\ ConnectedMeansStarted

\* The threads that have found the flag clear and not set it yet
Setting == {t \in Threads : pc[t] = "set"}

\* A thread between test and set counts as the write it will start: one of
\* them, or one outstanding write, needs no race.
Pending ==
    writes + Cardinality(Setting) <=
        races + (IF writing \/ Setting # {} THEN 1 ELSE 0)

\* What the inductive steps below have to go through, action by action.
Step ==
    \/ \E t \in Threads : Pack(t) \/ Flag(t) \/ Take(t) \/ Push(t) \/ Error(t) \/ Stop(t)
    \/ \E j \in Jobs : Finish(j) \/ Test(j) \/ Rest(j) \/ Call(j) \/ Dangles(j)
    \/ SendNext \/ Join
    \/ Start \/ Request \/ ReadFails \/ WriteFails \/ Written \/ Quit

LEMMA NextSteps == Next => Step
  BY DEF Next, Step, JobStep, GuiGoesOn, Sends, Threads

-----------------------------------------------------------------------------
(* Types *)

LEMMA TypeInit == Init => JobsTypeOK
<1> SUFFICES ASSUME Init PROVE JobsTypeOK
  OBVIOUS
<1> USE JobsAssumption DEF Init, Threads, GuiPlaces, JobPlaces
<1>1. pc \in [Threads -> GuiPlaces \cup JobPlaces]
  OBVIOUS
<1>2. pc[Gui] \in GuiPlaces /\ \A j \in Jobs : pc[j] \in JobPlaces
  OBVIOUS
<1>3. naps \in [Jobs -> 0 .. Ticks]
  OBVIOUS
<1>4. races \in 0 .. MaxRaces
  OBVIOUS
<1> QED
  BY <1>1, <1>2, <1>3, <1>4 DEF JobsTypeOK

LEMMA TypeStep == JobsTypeOK /\ [Next]_vars => JobsTypeOK'
<1> SUFFICES ASSUME JobsTypeOK, [Next]_vars PROVE JobsTypeOK'
  OBVIOUS
<1> USE JobsAssumption DEF JobsTypeOK, GuiPlaces, JobPlaces, SendPlaces, At, Go, Back, Threads
<1>1. ASSUME NEW t \in Threads, Pack(t) PROVE JobsTypeOK'
  BY <1>1 DEF Pack, netioVars, clientVars, writeVars
<1>2. ASSUME NEW t \in Threads, Flag(t) PROVE JobsTypeOK'
  BY <1>2 DEF Flag, netioVars, clientVars
<1>3. ASSUME NEW t \in Threads, Take(t) PROVE JobsTypeOK'
  BY <1>3 DEF Take, netioVars, clientVars
<1>4. ASSUME NEW t \in Threads, Push(t) PROVE JobsTypeOK'
  BY <1>4 DEF Push, netioVars, clientVars
<1>5. ASSUME NEW t \in Threads, Error(t) PROVE JobsTypeOK'
  <2>1. /\ pc' \in [Threads -> GuiPlaces \cup JobPlaces]
        /\ pc'[Gui] \in GuiPlaces /\ \A j \in Jobs : pc'[j] \in JobPlaces
    BY <1>5 DEF Error
  <2>2. /\ UNCHANGED <<naps, started, aborted, last, finished, quick>>
        /\ UNCHANGED <<writing, writes, queued, races>>
    BY <1>5 DEF Error, writeVars
  <2>3. onError(t)
    BY <1>5 DEF Error
  <2>4. connected' \in BOOLEAN /\ dialog' \in BOOLEAN
    BY <2>3, Zenon DEF onError
  <2>5. stopping' \in BOOLEAN
    BY <2>3, Zenon DEF onError
  <2>6. crash' \in {"none", "freed", "thread", "unpacked"}
    BY <2>3 DEF onError
  <2> QED
    BY <2>1, <2>2, <2>4, <2>5, <2>6
<1>6. ASSUME NEW t \in Threads, Stop(t) PROVE JobsTypeOK'
  BY <1>6 DEF Stop, netio_stop, clientVars, writeVars
<1>7. ASSUME NEW j \in Jobs, Finish(j) PROVE JobsTypeOK'
  BY <1>7 DEF Finish, netioVars, clientVars, writeVars
<1>8. ASSUME NEW j \in Jobs, Test(j) PROVE JobsTypeOK'
  BY <1>8 DEF Test, netioVars, clientVars, writeVars
<1>9. ASSUME NEW j \in Jobs, Rest(j) PROVE JobsTypeOK'
  BY <1>9 DEF Rest, netioVars, clientVars, writeVars
<1>10. ASSUME NEW j \in Jobs, Call(j) PROVE JobsTypeOK'
  BY <1>10 DEF Call, netioVars, clientVars, writeVars
<1>11. ASSUME NEW j \in Jobs, Dangles(j) PROVE JobsTypeOK'
  BY <1>11 DEF Dangles, netioVars, clientVars, writeVars
<1>12. CASE SendNext
  BY <1>12 DEF SendNext, netioVars, clientVars
<1>13. CASE Join
  BY <1>13 DEF Join, netio_stop, netioVars, clientVars, writeVars
<1>14. CASE Start
  <2>1. PICK j \in Jobs :
           /\ pc' = [pc EXCEPT ![j] = "finish", ![Gui] = "pack"]
           /\ naps' = [naps EXCEPT ![j] = 0]
           /\ last' = j
    BY <1>14 DEF Start
  <2>2. pc' \in [Threads -> GuiPlaces \cup JobPlaces]
    BY <2>1
  <2>3. pc'[Gui] \in GuiPlaces /\ \A k \in Jobs : pc'[k] \in JobPlaces
    BY <2>1
  <2>4. quick' \in BOOLEAN
    BY <1>14 DEF Start
  <2>5. naps' \in [Jobs -> 0 .. Ticks] /\ last' \in Jobs
    BY <2>1
  <2>6. /\ started' \in BOOLEAN /\ stopping' \in BOOLEAN
        /\ connected' \in BOOLEAN /\ dialog' \in BOOLEAN
        /\ UNCHANGED <<aborted, finished, writing, writes, queued, races, crash>>
    BY <1>14 DEF Start, SessionUp, writeVars
  <2> QED
    BY <2>2, <2>3, <2>4, <2>5, <2>6
<1>15. CASE Request
  BY <1>15 DEF Request, netioVars, clientVars, writeVars
<1>16. CASE ReadFails
  BY <1>16 DEF ReadFails, clientVars, writeVars
<1>17. CASE WriteFails
  <2>1. writes' \in Nat /\ queued' \in Nat
    BY <1>17 DEF WriteFails, netioVars
  <2> QED
    BY <1>17, <2>1 DEF WriteFails, netioVars, clientVars
<1>18. CASE Written
  <2>1. writes' \in Nat /\ queued' \in Nat
    BY <1>18 DEF Written, netioVars
  <2> QED
    BY <1>18, <2>1 DEF Written, netioVars, clientVars
<1>19. CASE Quit
  BY <1>19 DEF Quit, netioVars, writeVars
<1>20. CASE UNCHANGED vars
  BY <1>20 DEF vars, netioVars, clientVars, writeVars
<1>21. Step \/ UNCHANGED vars
  BY NextSteps
<1> QED
  BY <1>1, <1>2, <1>3, <1>4, <1>5, <1>6, <1>7, <1>8, <1>9, <1>10, <1>11, <1>12,
     <1>13, <1>14, <1>15, <1>16, <1>17, <1>18, <1>19, <1>20, <1>21 DEF Step

\* Every variable keeps its type: no thread is where its code does not take
\* it, no job counts more naps than it takes between two requests.
THEOREM TypeCorrect == Spec => []JobsTypeOK
<1>1. Init => JobsTypeOK
  BY TypeInit
<1>2. JobsTypeOK /\ [Next]_vars => JobsTypeOK'
  BY TypeStep
<1> QED
  BY <1>1, <1>2, PTL DEF Spec

-----------------------------------------------------------------------------
(* The jobs, the stops and the client's end *)

LEMMA JobsInit == Init => JobsInv
<1> SUFFICES ASSUME Init PROVE JobsInv
  OBVIOUS
<1>1. (\A j \in Jobs : pc[j] = "none") /\ pc[Gui] = "idle" /\ crash = "none"
  BY JobsAssumption DEF Init, Threads
<1>2. ~started /\ ~connected
  BY DEF Init
<1> QED
  BY <1>1, <1>2 DEF JobsInv, OneJob, AtLoss, Stops, FreedOnlyWhenQuick,
     WorkerErrorsAtLossOnly, ConnectedMeansStarted, Ended

LEMMA JobsStep == JobsTypeOK /\ JobsInv /\ [Next]_vars => JobsInv'
<1> SUFFICES ASSUME JobsTypeOK, JobsInv, [Next]_vars PROVE JobsInv'
  OBVIOUS
<1> USE JobsAssumption DEF JobsTypeOK, JobsInv, OneJob, AtLoss, Stops, FreedOnlyWhenQuick,
      WorkerErrorsAtLossOnly, ConnectedMeansStarted, Ended, At, Go, Back, Threads
<1>1. ASSUME NEW t \in Threads, Pack(t) PROVE JobsInv'
  BY <1>1 DEF Pack, netioVars, clientVars, writeVars
<1>2. ASSUME NEW t \in Threads, Flag(t) PROVE JobsInv'
  BY <1>2 DEF Flag, netioVars, clientVars, writeVars
<1>3. ASSUME NEW t \in Threads, Take(t) PROVE JobsInv'
  BY <1>3 DEF Take, netioVars, clientVars, writeVars
<1>4. ASSUME NEW t \in Threads, Push(t) PROVE JobsInv'
  BY <1>4 DEF Push, netioVars, clientVars, writeVars
<1>5. ASSUME NEW t \in Threads, Error(t) PROVE JobsInv'
  BY <1>5 DEF Error, onError, writeVars, netioVars, clientVars
<1>6. ASSUME NEW t \in Threads, Stop(t) PROVE JobsInv'
  BY <1>6 DEF Stop, netio_stop, clientVars, writeVars, netioVars
<1>7. ASSUME NEW j \in Jobs, Finish(j) PROVE JobsInv'
  BY <1>7 DEF Finish, netioVars, clientVars, writeVars
<1>8. ASSUME NEW j \in Jobs, Test(j) PROVE JobsInv'
  BY <1>8 DEF Test, netioVars, clientVars, writeVars
<1>9. ASSUME NEW j \in Jobs, Rest(j) PROVE JobsInv'
  BY <1>9 DEF Rest, netioVars, clientVars, writeVars
<1>10. ASSUME NEW j \in Jobs, Call(j) PROVE JobsInv'
  BY <1>10 DEF Call, netioVars, clientVars, writeVars
<1>11. ASSUME NEW j \in Jobs, Dangles(j) PROVE JobsInv'
  BY <1>11 DEF Dangles, netioVars, clientVars, writeVars
<1>12. CASE SendNext
  BY <1>12 DEF SendNext, netioVars, clientVars, writeVars
<1>13. CASE Join
  BY <1>13 DEF Join, netio_stop, netioVars, clientVars, writeVars
<1>14. CASE Start
  <2>1. PICK j \in Jobs :
           Ended(j) /\ pc' = [pc EXCEPT ![j] = "finish", ![Gui] = "pack"] /\ last' = j
    BY <1>14 DEF Start
  <2>2. pc'[j] = "finish" /\ pc'[Gui] = "pack" /\ \A k \in Jobs \ {j} : pc'[k] = pc[k]
    BY <2>1
  <2>3. ~quick' => ~quick /\ \A k \in Jobs : Ended(k)
    BY <1>14 DEF Start
  <2>4. crash' = "none" /\ started' /\ ~stopping'
    BY <1>14 DEF Start, SessionUp
  <2> QED
    BY <2>1, <2>2, <2>3, <2>4
<1>15. CASE Request
  BY <1>15 DEF Request, netioVars, clientVars, writeVars
<1>16. CASE ReadFails
  BY <1>16 DEF ReadFails, clientVars, writeVars, netioVars
<1>17. CASE WriteFails
  BY <1>17 DEF WriteFails, clientVars, netioVars, writeVars
<1>18. CASE Written
  BY <1>18 DEF Written, netioVars, clientVars, writeVars
<1>19. CASE Quit
  BY <1>19 DEF Quit, netioVars, writeVars, clientVars
<1>20. CASE UNCHANGED vars
  BY <1>20 DEF vars, netioVars, clientVars, writeVars
<1>21. Step \/ UNCHANGED vars
  BY NextSteps
<1> QED
  BY <1>1, <1>2, <1>3, <1>4, <1>5, <1>6, <1>7, <1>8, <1>9, <1>10, <1>11, <1>12,
     <1>13, <1>14, <1>15, <1>16, <1>17, <1>18, <1>19, <1>20, <1>21 DEF Step

LEMMA JobsInvariant == Spec => []JobsInv
<1>1. JobsTypeOK /\ JobsInv /\ [Next]_vars => JobsInv'
  BY JobsStep
<1> QED
  BY <1>1, JobsInit, TypeCorrect, PTL DEF Spec

\* Waiting for one job is enough, whatever the order of the threads' steps,
\* unless a session has come up too quickly.
THEOREM FreedOnlyWhenQuickCorrect == Spec => []FreedOnlyWhenQuick
<1>1. JobsInv => FreedOnlyWhenQuick
  BY DEF JobsInv
<1> QED
  BY <1>1, JobsInvariant, PTL

\* A job builds a widget only between the two halves of the GUI thread's
\* handling of a loss, or in a session that came up too quickly; the stop()
\* that follows a job's error included.
THEOREM WorkerErrorsAtLossOnlyCorrect == Spec => []WorkerErrorsAtLossOnly
<1>1. JobsInv => WorkerErrorsAtLossOnly
  BY DEF JobsInv
<1> QED
  BY <1>1, JobsInvariant, PTL

\* No stop() of a job's, nor of the dial's, reaches a later session, unless it
\* came up too quickly: no session ends unnoticed.
THEOREM ConnectedMeansStartedCorrect == Spec => []ConnectedMeansStarted
<1>1. JobsInv => ConnectedMeansStarted
  BY DEF JobsInv
<1> QED
  BY <1>1, JobsInvariant, PTL

-----------------------------------------------------------------------------
(* The flag *)

LEMMA SettingFinite == IsFiniteSet(Setting) /\ Cardinality(Setting) \in Nat
<1>1. IsFiniteSet(Threads)
  BY JobsAssumption, FS_AddElement DEF Threads
<1>2. IsFiniteSet(Setting)
  BY <1>1, FS_Subset DEF Setting
<1> QED
  BY <1>2, FS_CardinalityType

LEMMA PendingInit == Init => Pending
<1> SUFFICES ASSUME Init PROVE Pending
  OBVIOUS
<1>1. Setting = {}
  BY DEF Init, Setting, Threads
<1>2. Cardinality(Setting) = 0
  BY <1>1, FS_EmptySet
<1> QED
  BY <1>1, <1>2 DEF Init, Pending

\* The steps that leave the threads between test and set as they are
LEMMA SettingSame ==
  ASSUME JobsTypeOK, NEW t \in Threads, NEW place,
         pc' = [pc EXCEPT ![t] = place], pc[t] # "set", place # "set"
  PROVE  Setting' = Setting
  BY DEF JobsTypeOK, Setting

LEMMA PendingStep == JobsTypeOK /\ Pending /\ [Next]_vars => Pending'
<1> SUFFICES ASSUME JobsTypeOK, Pending, [Next]_vars PROVE Pending'
  OBVIOUS
<1> DEFINE n == Cardinality(Setting)
<1>0. /\ n \in Nat /\ writes \in Nat /\ races \in Nat /\ writing \in BOOLEAN
      /\ (n = 0 <=> Setting = {})
  BY SettingFinite, JobsAssumption, FS_EmptySet DEF JobsTypeOK
<1> USE JobsAssumption
<1>1. ASSUME NEW t \in Threads, Flag(t) PROVE Pending'
  <2>1. CASE writing
    <3>1. Setting' = Setting
      BY <1>1, <2>1, SettingSame DEF Flag, At, Go
    <3> QED
      BY <1>1, <2>1, <3>1 DEF Flag, Pending
  <2>2. CASE ~writing
    <3>1. pc[t] = "flag" /\ pc' = [pc EXCEPT ![t] = "set"]
      BY <1>1, <2>2 DEF Flag, At, Go
    <3>2. Setting' = Setting \cup {t} /\ t \notin Setting
      BY <3>1 DEF JobsTypeOK, Setting
    <3>3. Cardinality(Setting') = n + 1
      BY <3>2, SettingFinite, FS_AddElement
    <3>4. UNCHANGED <<writing, writes>>
      BY <1>1, <2>2 DEF Flag
    <3>5. races' = IF Setting # {} THEN races + 1 ELSE races
      <4>1. (\E s \in Threads \ {t} : pc[s] = "set") <=> Setting # {}
        BY <3>1 DEF Setting
      <4> QED
        BY <1>1, <2>2, <4>1 DEF Flag
    <3>6. Setting' # {}
      BY <3>2
    <3>7. writes + n <= races + (IF Setting # {} THEN 1 ELSE 0)
      BY <2>2 DEF Pending
    <3>8. writes' + Cardinality(Setting') <= races' + 1
      BY <1>0, <3>3, <3>4, <3>5, <3>7
    <3> QED
      BY <3>6, <3>8 DEF Pending
  <2> QED
    BY <2>1, <2>2
<1>2. ASSUME NEW t \in Threads, Take(t) PROVE Pending'
  <2>1. pc[t] = "set" /\ pc' = [pc EXCEPT ![t] = Back(t)] /\ Back(t) # "set"
    BY <1>2 DEF Take, At, Go, Back
  <2>2. Setting' = Setting \ {t} /\ t \in Setting
    BY <2>1 DEF JobsTypeOK, Setting
  <2>3. Cardinality(Setting') = n - 1
    BY <2>2, SettingFinite, FS_RemoveElement
  <2>4. writing' /\ writes' = writes + 1 /\ races' = races
    BY <1>2 DEF Take
  <2>5. writes + n <= races + 1
    BY <2>2 DEF Pending
  <2>6. writes' + Cardinality(Setting') <= races' + 1
    BY <1>0, <2>3, <2>4, <2>5
  <2> QED
    BY <2>4, <2>6 DEF Pending
<1>3. ASSUME Setting' = Setting, UNCHANGED <<writing, writes, races>> PROVE Pending'
  BY <1>3 DEF Pending
<1>4. ASSUME Setting' = Setting, writes > 0, writes' = writes - 1, UNCHANGED races,
             writing' = FALSE
      PROVE  Pending'
  BY <1>0, <1>4 DEF Pending
<1> USE SettingSame DEF At, Go, Back, Threads
<1>5. ASSUME NEW t \in Threads, Pack(t) \/ Push(t) \/ Error(t) \/ Stop(t) PROVE Pending'
  BY <1>3, <1>5 DEF Pack, Push, Error, Stop, writeVars
<1>6. ASSUME NEW j \in Jobs, Finish(j) \/ Test(j) \/ Rest(j) \/ Call(j) PROVE Pending'
  BY <1>3, <1>6 DEF Finish, Test, Rest, Call, writeVars
<1>7. ASSUME NEW j \in Jobs, Dangles(j) PROVE Pending'
  BY <1>3, <1>7 DEF Dangles, writeVars, Setting
<1>8. CASE SendNext \/ Join \/ Request \/ Quit
  BY <1>3, <1>8 DEF SendNext, Join, Request, Quit, writeVars
<1>9. CASE Start
  <2>1. PICK j \in Jobs :
           Ended(j) /\ pc' = [pc EXCEPT ![j] = "finish", ![Gui] = "pack"]
    BY <1>9 DEF Start
  <2>2. pc[Gui] = "idle" /\ pc[j] = "none"
    BY <1>9, <2>1 DEF Start, Ended
  <2>3. Setting' = Setting
    BY <2>1, <2>2 DEF JobsTypeOK, Setting
  <2> QED
    BY <1>3, <1>9, <2>3 DEF Start, writeVars
<1>10. CASE ReadFails
  <2>1. Setting' = Setting
    BY <1>10 DEF ReadFails, Setting
  <2> QED
    BY <1>3, <1>10, <2>1 DEF ReadFails, writeVars
<1>11. CASE WriteFails \/ Written
  BY <1>4, <1>11 DEF WriteFails, Written
<1>12. CASE UNCHANGED vars
  BY <1>3, <1>12 DEF vars, writeVars, Setting
<1>13. Step \/ UNCHANGED vars
  BY NextSteps
<1> QED
  BY <1>1, <1>2, <1>5, <1>6, <1>7, <1>8, <1>9, <1>10, <1>11, <1>12, <1>13 DEF Step

\* For any number of jobs and races: each meeting of two threads between test
\* and set costs one write more at most.
THEOREM OneWritePerRaceCorrect == Spec => []OneWritePerRace
<1>1. JobsTypeOK /\ Pending /\ [Next]_vars => Pending'
  BY PendingStep
<1>2. JobsTypeOK /\ Pending => OneWritePerRace
  BY SettingFinite DEF JobsTypeOK, Pending, OneWritePerRace
<1> QED
  BY <1>1, <1>2, PendingInit, TypeCorrect, PTL DEF Spec
=============================================================================
