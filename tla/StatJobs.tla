------------------------------ MODULE StatJobs -------------------------------
(***************************************************************************)
(* The thread that asks for the statistics of the lobby every few seconds  *)
(* (NetworkClient::start) beside the GUI thread, which owns the client and *)
(* its netio.  Every session starts a job of its own, in a pool of         *)
(* threads; a job ends when it sees that the program ends or that netio is *)
(* not started; ~NetworkClient waits for the job started last.             *)
(*                                                                         *)
(* Both threads call call_server and end in netio's send, which has no     *)
(* lock: it tests m_write_in_process and then either takes the flag and    *)
(* writes, or pushes the packet.  When netio is not started the call runs  *)
(* the error handler and then stop(), in the calling thread.  A step of    *)
(* the module is what a thread does between two looks at what the other    *)
(* may change; the order of the threads' memory accesses is taken to be    *)
(* that of the steps.                                                      *)
(*                                                                         *)
(* What becomes of a connection is in Netio and NetworkClient; here it is  *)
(* started, in use, or lost, by a failing read, a failing write or stop(). *)
(***************************************************************************)
EXTENDS Naturals, FiniteSets

CONSTANTS
    Jobs,      \* the jobs there can be at a time
    Gui,       \* the thread of the event loop
    NoJob,
    Ticks,     \* the naps between two requests of a job
    MaxPackets, \* bound on the packets that wait or are written
    MaxRaces   \* bound on races

ASSUME JobsAssumption ==
    /\ Gui \notin Jobs /\ NoJob \notin Jobs
    /\ IsFiniteSet(Jobs)
    /\ Ticks \in Nat /\ MaxPackets \in Nat /\ MaxRaces \in Nat

Threads == Jobs \cup {Gui}

VARIABLES
    pc,        \* where each thread is
    naps,      \* msleep_counter of each job
    last,      \* m_statRequestJob
    started,   \* m_netio.started(); a read is outstanding
    aborted,   \* a read the socket's end has aborted has not been handled yet
    stopping,  \* m_stop_requested
    connected, \* m_connected
    finished,  \* m_finished
    dialog,    \* m_reconnectDialog is set
    writing,   \* m_write_in_process
    writes,    \* the writes of the socket that are outstanding
    queued,    \* how many packets m_buffers holds
    crash,     \* how the program ended
    quick,     \* (for the properties) a session found a job of an earlier one
    races      \* (for the properties) how often a thread has found the flag
               \* clear while another had found it clear and not set it yet

clientVars == <<last, connected, finished, dialog>>
netioVars  == <<started, aborted, stopping>>
writeVars  == <<writing, writes, queued, races>>
vars == <<pc, naps, netioVars, clientVars, writeVars, crash, quick>>

SendPlaces == {"pack", "flag", "set", "push", "error", "stop", "lost"}
GuiPlaces == {"idle", "next", "wait", "gone"} \cup SendPlaces
JobPlaces == {"none", "finish", "test", "rest", "call"} \cup SendPlaces

JobsTypeOK ==
    /\ pc \in [Threads -> GuiPlaces \cup JobPlaces]
    /\ pc[Gui] \in GuiPlaces
    /\ \A j \in Jobs : pc[j] \in JobPlaces
    /\ naps \in [Jobs -> 0 .. Ticks]
    /\ last \in Jobs \cup {NoJob}
    /\ started \in BOOLEAN /\ aborted \in BOOLEAN /\ stopping \in BOOLEAN
    /\ connected \in BOOLEAN /\ finished \in BOOLEAN
    /\ dialog \in BOOLEAN /\ writing \in BOOLEAN
    /\ writes \in Nat /\ queued \in Nat /\ races \in 0 .. MaxRaces
    /\ crash \in {"none", "freed", "thread", "unpacked"}
    /\ quick \in BOOLEAN

-----------------------------------------------------------------------------
Ended(j) == pc[j] = "none"
Room == writes + queued < MaxPackets

\* The threads run while the client exists; what a job does after that is
\* Dangles below.
At(t, place) == crash = "none" /\ pc[Gui] # "gone" /\ pc[t] = place

Go(t, place) == pc' = [pc EXCEPT ![t] = place]

Back(t) == IF t = Gui THEN "idle" ELSE "finish"

-----------------------------------------------------------------------------
(* A call, by any thread *)

\* netio::send_packet: started and packed, or the error handler
Pack(t) ==
    /\ At(t, "pack")
    /\ \/ started /\ Go(t, "flag")
       \/ started /\ Go(t, "lost")     \* pack_packet throws
       \/ ~started /\ Go(t, "error")
    /\ UNCHANGED <<naps, netioVars, clientVars, writeVars, crash, quick>>

\* netio::impl::send: the test...
Flag(t) ==
    /\ At(t, "flag")
    /\ IF writing
       THEN Go(t, "push") /\ UNCHANGED races
       ELSE /\ Go(t, "set")
            /\ IF \E s \in Threads \ {t} : pc[s] = "set"
               THEN races < MaxRaces /\ races' = races + 1
               ELSE UNCHANGED races
    /\ UNCHANGED <<naps, netioVars, clientVars, writing, writes, queued, crash, quick>>

\* ...and what follows from it
Take(t) ==
    /\ At(t, "set")
    /\ writing' = TRUE
    /\ writes' = writes + 1
    /\ Go(t, Back(t))
    /\ UNCHANGED <<naps, netioVars, clientVars, queued, races, crash, quick>>

Push(t) ==
    /\ At(t, "push")
    /\ queued' = queued + 1
    /\ Go(t, Back(t))
    /\ UNCHANGED <<naps, netioVars, clientVars, writing, writes, races, crash, quick>>

\* Mutant: the dialog is not remembered.
onErrorForgets(t) ==
    /\ connected' = FALSE
    /\ IF t # Gui /\ ~dialog
       THEN crash' = IF pc[t] = "error" THEN "thread" ELSE "unpacked"
       ELSE crash' = crash
    /\ UNCHANGED <<dialog, stopping>>

\* NetworkClient::onError makes a dialog unless there is one: a job must not.
\* The GUI thread then dials, with a stop() first if the server answers, which
\* a socket still in use never lets it see.
onError(t) ==
    /\ connected' = FALSE
    /\ IF dialog THEN UNCHANGED <<dialog, crash, stopping>>
       ELSE IF t = Gui
       THEN /\ dialog' = TRUE
            /\ \/ UNCHANGED stopping
               \/ ~started /\ stopping' = TRUE
            /\ UNCHANGED crash
       ELSE /\ crash' = IF pc[t] = "error" THEN "thread" ELSE "unpacked"
            /\ UNCHANGED <<dialog, stopping>>

\* The error handler, out of send_packet, a failed read or a failed write
Error(t) ==
    /\ \/ At(t, "error") /\ Go(t, "stop")
       \/ At(t, "lost") /\ Go(t, Back(t))
    /\ onError(t)
    /\ UNCHANGED <<naps, started, aborted, last, finished, writeVars, quick>>

\* netio::stop: the socket is closed, its read aborted
netio_stop ==
    /\ stopping' = TRUE
    /\ started' = FALSE
    /\ aborted' = (aborted \/ started)

\* The end of send_packet without a session, in whatever thread
Stop(t) ==
    /\ At(t, "stop")
    /\ netio_stop
    /\ Go(t, Back(t))
    /\ UNCHANGED <<naps, clientVars, writeVars, crash, quick>>

Sends(t) == Pack(t) \/ Flag(t) \/ Take(t) \/ Push(t) \/ Error(t) \/ Stop(t)

-----------------------------------------------------------------------------
(* A job *)

\* Mutant: the job does not ask whether the program ends.
FinishNever(j) ==
    /\ At(j, "finish")
    /\ Go(j, "test")
    /\ UNCHANGED <<naps, netioVars, clientVars, writeVars, crash, quick>>

Finish(j) ==
    /\ At(j, "finish")
    /\ Go(j, IF finished THEN "none" ELSE "test")
    /\ UNCHANGED <<naps, netioVars, clientVars, writeVars, crash, quick>>

\* Mutant: the job does not ask whether netio is started.
TestNever(j) ==
    /\ At(j, "test")
    /\ Go(j, "rest")
    /\ UNCHANGED <<naps, netioVars, clientVars, writeVars, crash, quick>>

Test(j) ==
    /\ At(j, "test")
    /\ Go(j, IF started THEN "rest" ELSE "none")
    /\ UNCHANGED <<naps, netioVars, clientVars, writeVars, crash, quick>>

\* Mutant: the count of the naps is not reset.
RestOn(j) ==
    /\ At(j, "rest")
    /\ naps' = [naps EXCEPT ![j] = @ + 1]
    /\ Go(j, IF naps[j] < Ticks THEN "finish" ELSE "call")
    /\ UNCHANGED <<netioVars, clientVars, writeVars, crash, quick>>

\* A nap, or else games_statistic(); without room for one more packet the
\* request is left out.
Rest(j) ==
    /\ At(j, "rest")
    /\ IF naps[j] < Ticks
       THEN naps' = [naps EXCEPT ![j] = @ + 1] /\ Go(j, "finish")
       ELSE naps' = [naps EXCEPT ![j] = 0] /\ Go(j, IF Room THEN "call" ELSE "finish")
    /\ UNCHANGED <<netioVars, clientVars, writeVars, crash, quick>>

\* NetworkClient::call_server
Call(j) ==
    /\ At(j, "call")
    /\ Go(j, IF connected /\ ~finished THEN "pack" ELSE "finish")
    /\ UNCHANGED <<naps, netioVars, clientVars, writeVars, crash, quick>>

\* The job goes on although the client is gone.
Dangles(j) ==
    /\ crash = "none" /\ pc[Gui] = "gone" /\ ~Ended(j)
    /\ crash' = "freed"
    /\ UNCHANGED <<pc, naps, netioVars, clientVars, writeVars, quick>>

JobStep(j) == Finish(j) \/ Test(j) \/ Rest(j) \/ Call(j) \/ Dangles(j) \/ Sends(j)

-----------------------------------------------------------------------------
(* The GUI thread *)

\* Mutant: a stop() of the last connection's is remembered.
SessionUpStopping == started' = TRUE /\ UNCHANGED <<aborted, stopping>>

\* netio::start
SessionUp == started' = TRUE /\ stopping' = FALSE /\ UNCHANGED aborted

\* The session is up, its connection being made after the socket's queue has
\* handled what was left of the last one: a job is started, and the first
\* request is sent.
Start ==
    /\ At(Gui, "idle")
    /\ ~started /\ ~aborted /\ Room
    /\ SessionUp
    /\ connected' = TRUE /\ dialog' = FALSE
    /\ \E j \in Jobs :
          /\ Ended(j)
          /\ pc' = [pc EXCEPT ![j] = "finish", ![Gui] = "pack"]
          /\ naps' = [naps EXCEPT ![j] = 0]
          /\ last' = j
    /\ quick' = (quick \/ \E j \in Jobs : ~Ended(j))
    /\ UNCHANGED <<finished, writeVars, crash>>

\* A request of the user's
Request ==
    /\ At(Gui, "idle")
    /\ connected /\ Room
    /\ Go(Gui, "pack")
    /\ UNCHANGED <<naps, netioVars, clientVars, writeVars, crash, quick>>

\* A read has failed, or been aborted: the socket is closed, then the error is
\* handled, or else the stop, by a handler that does nothing.
ReadFails ==
    /\ At(Gui, "idle")
    /\ started \/ aborted
    /\ started' = FALSE /\ aborted' = FALSE /\ stopping' = FALSE
    /\ IF stopping THEN UNCHANGED pc ELSE Go(Gui, "lost")
    /\ UNCHANGED <<naps, clientVars, writeVars, crash, quick>>

\* A write has failed, if only because the connection is lost.
WriteFails ==
    /\ At(Gui, "idle")
    /\ writes > 0
    /\ writes' = writes - 1 /\ writing' = FALSE /\ queued' = 0
    /\ started' = FALSE /\ aborted' = (aborted \/ started)
    /\ Go(Gui, "lost")
    /\ UNCHANGED <<naps, stopping, clientVars, races, crash, quick>>

\* A write is done...
Written ==
    /\ At(Gui, "idle")
    /\ writes > 0
    /\ writes' = writes - 1 /\ writing' = FALSE
    /\ Go(Gui, "next")
    /\ UNCHANGED <<naps, netioVars, clientVars, queued, races, crash, quick>>

\* Mutant: the next packet is written without a look at the flag.
NextAtOnce ==
    /\ At(Gui, "next")
    /\ IF queued > 0
       THEN queued' = queued - 1 /\ writes' = writes + 1
       ELSE UNCHANGED <<queued, writes>>
    /\ Go(Gui, "idle")
    /\ UNCHANGED <<naps, netioVars, clientVars, writing, races, crash, quick>>

\* ...and the next packet is sent.
SendNext ==
    /\ At(Gui, "next")
    /\ IF queued > 0 THEN queued' = queued - 1 /\ Go(Gui, "flag")
       ELSE UNCHANGED queued /\ Go(Gui, "idle")
    /\ UNCHANGED <<naps, netioVars, clientVars, writing, writes, races, crash, quick>>

\* ~NetworkClient
Quit ==
    /\ At(Gui, "idle")
    /\ finished' = TRUE
    /\ Go(Gui, "wait")
    /\ UNCHANGED <<naps, netioVars, last, connected, dialog, writeVars, crash, quick>>

\* Mutant: nobody is waited for.
JoinNobody ==
    /\ At(Gui, "wait")
    /\ IF started THEN netio_stop ELSE UNCHANGED netioVars
    /\ Go(Gui, "gone")
    /\ UNCHANGED <<naps, clientVars, writeVars, crash, quick>>

Join ==
    /\ At(Gui, "wait")
    /\ last \in Jobs => Ended(last)
    /\ IF started THEN netio_stop ELSE UNCHANGED netioVars
    /\ Go(Gui, "gone")
    /\ UNCHANGED <<naps, clientVars, writeVars, crash, quick>>

GuiGoesOn == Sends(Gui) \/ SendNext \/ Join

-----------------------------------------------------------------------------
Init ==
    /\ pc = [t \in Threads |-> IF t = Gui THEN "idle" ELSE "none"]
    /\ naps = [j \in Jobs |-> 0] /\ last = NoJob
    /\ started = FALSE /\ aborted = FALSE /\ stopping = FALSE
    /\ connected = FALSE /\ finished = FALSE /\ dialog = FALSE
    /\ writing = FALSE /\ writes = 0 /\ queued = 0 /\ races = 0
    /\ crash = "none" /\ quick = FALSE

Next ==
    \/ \E j \in Jobs : JobStep(j)
    \/ GuiGoesOn
    \/ Start \/ Request \/ ReadFails \/ WriteFails \/ Written \/ Quit

Spec == Init /\ [][Next]_vars

\* A thread that can go on does, a pool's as well as the GUI's; the user and
\* the network owe nothing.
FairSpec == Spec /\ WF_vars(GuiGoesOn) /\ \A j \in Jobs : WF_vars(JobStep(j))

-----------------------------------------------------------------------------
(* Properties *)

\* ~NetworkClient waits for one job only (network_client.cpp:263-266): that is
\* enough, no job meets the freed client, unless a session has come up while a
\* job of an earlier one had not yet noticed its end.
FreedOnlyWhenQuick == crash = "freed" => quick

\* netio's flag is tested and set by two threads without a lock
\* (netio.cpp:1284-1285): each time two of them meet between the two there may
\* be one write more than the one at a time that netio is made for, and never
\* more than that, whatever the writes' ends and the queue do afterwards.
OneWritePerRace == writes <= 1 + races

\* A job that finds netio not started would build a widget of the GUI, but for
\* the dialog that is there: only at the very moment when the GUI thread has
\* closed the socket and has not handled its error yet (netio.cpp:1700,
\* network_client.cpp:456), or in a session that came up too quickly.
WorkerErrorsAtLossOnly == crash = "thread" => pc[Gui] = "lost" \/ quick

\* The stop() that follows a job's error, in the job's thread (netio.cpp:1712),
\* ends no later session and silences the loss of none, unless that session
\* came up too quickly: where the client takes itself for connected, with no
\* error under way, it is.
ConnectedMeansStarted ==
    connected /\ pc[Gui] = "idle" => started \/ quick

\* The destructor does not hang: it ends, whatever the jobs are at, unless the
\* program has crashed.
DestructorReturns == finished ~> (pc[Gui] = "gone" \/ crash # "none")

\* Jobs do not pile up: once no session comes up any more, all of them end.
JobsEndAfterLoss == <>[](~started /\ crash = "none") => <>[](\A j \in Jobs : Ended(j))
=============================================================================
