------------------------------ MODULE WebServer ------------------------------
(***************************************************************************)
(* The life of the backend process: main, StartServer, the goroutine that  *)
(* serves HTTP, the loops updateClusterStatus and cleanCache, the handlers *)
(* that operate on the cluster, and Server.Stop, called by main and by     *)
(* anyone else who holds the server (backend/web/server.go, handler.go,    *)
(* cmd/backend-web-server/main.go).  The cluster is that of MemberOps.     *)
(*                                                                         *)
(* A panic outside the handlers ends the process, and nothing moves after  *)
(* that.  The user cache is abstracted to whether anybody is in it.        *)
(***************************************************************************)
EXTENDS MemberOps

CONSTANTS Others    \* goroutines besides main that call Server.Stop

ASSUME OthersAssumption == "main" \notin Others

Stopper == {"main"} \cup Others

VARIABLES
    proc,       \* whether the process runs, or how it ended
    main,       \* where main is
    serve,      \* where the goroutine that serves HTTP is
    stopc,      \* whether Server.stopc is closed
    donec,      \* whether Server.donec is closed
    srvMu,      \* Server.mu
    stop,       \* where each caller of Server.Stop is
    global,     \* whether globalCluster is not nil
    inside,     \* handlers that serve a request
    users,      \* whether anybody is in the user cache
    loop,       \* where updateClusterStatus is
    clean       \* whether cleanCache runs

webVars == <<proc, main, serve, stopc, donec, srvMu, stop, global, inside,
             users, loop, clean>>
wvars   == <<vars, webVars>>

WInit ==
    /\ Init
    /\ proc = "runs"
    /\ main = "starting"
    /\ serve = "off"
    /\ stopc = FALSE
    /\ donec = FALSE
    /\ srvMu = FALSE
    /\ stop = [p \in Stopper |-> "idle"]
    /\ global = FALSE
    /\ inside = {}
    /\ users = FALSE
    /\ loop = "off"
    /\ clean = FALSE

Dies(how) ==
    /\ proc' = how
    /\ UNCHANGED <<vars, main, serve, stopc, donec, srvMu, stop, global, inside,
                   users, loop, clean>>

-----------------------------------------------------------------------------
(* main and StartServer.  When the cluster does not start, main panics;    *)
(* when ListenAndServe fails, because the port is taken or later in        *)
(* Accept, lg.Fatal exits.                                                 *)

StartServer ==
    /\ main = "starting"
    /\ main' = "serving"
    /\ global' = TRUE
    /\ serve' = "starting"
    /\ loop' = "select"
    /\ clean' = TRUE
    /\ UNCHANGED <<vars, proc, stopc, donec, srvMu, stop, inside, users>>

StartServerFails == main = "starting" /\ Dies("no cluster")

Listen ==
    /\ serve = "starting"
    /\ serve' = "listening"
    /\ UNCHANGED <<vars, proc, main, stopc, donec, srvMu, stop, global, inside, users, loop,
                   clean>>

ListenFails == serve \in {"starting", "listening"} /\ Dies("no listener")

(* A signal, or StopNotify, makes main return: it calls Stop on the way.   *)
MainStops ==
    /\ main = "serving"
    /\ main' = "returning"
    /\ stop' = [stop EXCEPT !["main"] = "lock"]
    /\ UNCHANGED <<vars, proc, serve, stopc, donec, srvMu, global, inside, users,
                   loop, clean>>

OtherStops(p) ==
    /\ main # "starting"
    /\ stop[p] = "idle"
    /\ stop' = [stop EXCEPT ![p] = "lock"]
    /\ UNCHANGED <<vars, proc, main, serve, stopc, donec, srvMu, global, inside,
                   users, loop, clean>>

MainReturns == stop["main"] = "returned" /\ Dies("exit")

-----------------------------------------------------------------------------
(* Server.Stop: under mu close stopc and the HTTP server and wait for      *)
(* donec; then shut the cluster down, which the goroutine that serves has  *)
(* canceled already, and forget it.                                        *)

StopGoto(p, from, to) ==
    /\ stop[p] = from
    /\ stop' = [stop EXCEPT ![p] = to]
    /\ UNCHANGED <<proc, main, donec, inside, users, loop, clean>>

StopBeginUnlocked(p) ==
    /\ ~srvMu /\ ~stopc
    /\ StopGoto(p, "lock", "close")
    /\ stopc' = TRUE
    /\ UNCHANGED <<vars, srvMu, serve, global>>

StopBegin(p) ==
    /\ ~srvMu /\ ~stopc
    /\ StopGoto(p, "lock", "close")
    /\ srvMu' = TRUE
    /\ stopc' = TRUE
    /\ UNCHANGED <<vars, serve, global>>

(* httpServer is never set to nil: a second Stop closes stopc again.       *)
StopAgainReturns(p) ==
    /\ ~srvMu /\ stopc
    /\ StopGoto(p, "lock", "returned")
    /\ UNCHANGED <<vars, srvMu, stopc, serve, global>>

StopAgain(p) ==
    /\ ~srvMu /\ stopc
    /\ stop[p] = "lock"
    /\ Dies("closed twice")

(* Close acts on the listener there is.  One that ListenAndServe makes     *)
(* later is not closed any more, with the Go 1.10 of the Dockerfile.       *)
StopListening(p) ==
    /\ StopGoto(p, "close", "await")
    /\ serve' = IF serve = "listening" THEN "closed" ELSE serve
    /\ UNCHANGED <<vars, srvMu, stopc, global>>

StopAwaitsLocked(p) ==
    /\ donec
    /\ StopGoto(p, "await", "shutdown")
    /\ UNCHANGED <<vars, srvMu, stopc, serve, global>>

StopAwaits(p) ==
    /\ donec
    /\ StopGoto(p, "await", "shutdown")
    /\ srvMu' = FALSE
    /\ UNCHANGED <<vars, stopc, serve, global>>

StopShutsEarly(p) ==
    /\ stop[p] \in {"close", "await", "shutdown"}
    /\ Shutdown
    /\ UNCHANGED webVars

StopShuts(p) ==
    /\ stop[p] = "shutdown"
    /\ Shutdown
    /\ UNCHANGED webVars

StopForgets(p) ==
    /\ shut = "done"
    /\ StopGoto(p, "shutdown", "returned")
    /\ global' = FALSE
    /\ UNCHANGED <<vars, srvMu, stopc, serve>>

(* ListenAndServe returns once the server is closed; then rootCancel and   *)
(* close(donec).                                                           *)
ServeReturnsQuietly ==
    /\ serve = "closed" /\ ~donec
    /\ rootDone' = TRUE
    /\ UNCHANGED <<state, serving, routine, opLock, pc, whom, mmu, fetch, got, faults, shut>>
    /\ UNCHANGED webVars

ServeReturns ==
    /\ serve = "closed" /\ ~donec
    /\ donec' = TRUE
    /\ rootDone' = TRUE
    /\ UNCHANGED <<state, serving, routine, opLock, pc, whom, mmu, fetch, got, faults, shut>>
    /\ UNCHANGED <<proc, main, serve, stopc, srvMu, stop, global, inside, users,
                   loop, clean>>

-----------------------------------------------------------------------------
(* Handlers.  A request puts its user into the cache and may operate on a  *)
(* member; with globalCluster gone it panics, and net/http recovers it.    *)

Receive(c) ==
    /\ serve = "listening" /\ c \notin inside
    /\ inside' = inside \cup {c}
    /\ users' = TRUE
    /\ UNCHANGED <<vars, proc, main, serve, stopc, donec, srvMu, stop, global, loop, clean>>

Operate(c) ==
    /\ c \in inside /\ global
    /\ \E m \in Member : Call(c, m, "Stop") \/ Call(c, m, "Restart")
    /\ UNCHANGED webVars

Respond(c) ==
    /\ c \in inside /\ pc[c] = "idle"
    /\ inside' = inside \ {c}
    /\ UNCHANGED <<vars, proc, main, serve, stopc, donec, srvMu, stop, global, users,
                   loop, clean>>

(* The last user disconnects, or cleanCache removes the last one.          *)
Emptied ==
    /\ users
    /\ inside # {} \/ clean
    /\ users' = FALSE
    /\ UNCHANGED <<vars, proc, main, serve, stopc, donec, srvMu, stop, global, inside,
                   loop, clean>>

CleanStops ==
    /\ clean /\ stopc
    /\ clean' = FALSE
    /\ UNCHANGED <<vars, proc, main, serve, stopc, donec, srvMu, stop, global, inside,
                   users, loop>>

-----------------------------------------------------------------------------
(* updateClusterStatus.  When stopc is closed and the timer has fired, the *)
(* select may take either.  The call on a nil cluster panics, outside of   *)
(* the goroutines that recover.                                            *)

LoopGoto(from, to) ==
    /\ loop = from
    /\ loop' = to
    /\ UNCHANGED <<proc, main, serve, stopc, donec, srvMu, stop, global, inside,
                   users, clean>>

LoopTick == LoopGoto("select", "look") /\ UNCHANGED vars
LoopEnds == stopc /\ LoopGoto("select", "ended") /\ UNCHANGED vars

LoopIdleEnds == ~users /\ LoopGoto("look", "ended") /\ UNCHANGED vars

LoopIdle == ~users /\ LoopGoto("look", "select") /\ UNCHANGED vars
LoopCall == users /\ global /\ LoopGoto("look", "lock") /\ UNCHANGED vars
LoopNil  == loop = "look" /\ users /\ ~global /\ Dies("nil cluster")
LoopLock == LoopGoto("lock", "update") /\ UpdateStart
LoopBack == LoopGoto("update", "select") /\ UpdateEnd

-----------------------------------------------------------------------------
(* The cluster goes on by itself, as long as the process does.             *)
InCluster(A) == proc = "runs" /\ A /\ UNCHANGED webVars

StatusLoop == LoopTick \/ LoopIdle \/ LoopCall \/ LoopNil \/ LoopLock \/ LoopBack

ServerStop(p) ==
    \/ StopBegin(p) \/ StopAgain(p) \/ StopListening(p) \/ StopAwaits(p)
    \/ StopShuts(p) \/ StopForgets(p)

Process ==
    \/ StartServer \/ StartServerFails \/ Listen \/ ListenFails \/ MainStops \/ MainReturns
    \/ \E p \in Others : OtherStops(p)
    \/ \E p \in Stopper : ServerStop(p)
    \/ ServeReturns
    \/ \E c \in Caller : Receive(c) \/ Operate(c) \/ Respond(c)
    \/ Emptied \/ CleanStops
    \/ StatusLoop \/ LoopEnds

WNext ==
    \/ proc = "runs" /\ Process
    \/ \E c \in Caller : InCluster(StopOf(c) \/ RestartOf(c)) \/ InCluster(Leave(c))
    \/ \E m \in Member : InCluster(Routine(m)) \/ InCluster(FetchMemberStatus(m))

WSpec == WInit /\ [][WNext]_wvars

(***************************************************************************)
(* Goroutines that can run do; a mutex is handed to whoever has waited     *)
(* long enough, and a select that finds stopc closed again and again takes *)
(* that branch at last.  Nobody has to send a request or a signal.         *)
(***************************************************************************)
Runs(A) == proc = "runs" /\ A

WFairness ==
    /\ \A c \in Caller : SF_wvars(InCluster(StopOf(c) \/ RestartOf(c)))
    /\ \A c \in Caller : WF_wvars(InCluster(Leave(c)))
    /\ \A m \in Member : WF_wvars(InCluster(Routine(m)))
    /\ \A m \in Member : WF_wvars(InCluster(FetchMemberStatus(m)))
    /\ \A p \in Stopper : SF_wvars(Runs(ServerStop(p)))
    /\ WF_wvars(Runs(StatusLoop)) /\ SF_wvars(Runs(LoopEnds))
    /\ WF_wvars(Runs(ServeReturns)) /\ WF_wvars(Runs(CleanStops))
    /\ WF_wvars(Runs(MainReturns))

WFairSpec == WSpec /\ WFairness

-----------------------------------------------------------------------------
(* The variables of the server, without those of the cluster.              *)
WebTypes ==
    /\ proc \in {"runs", "exit", "no cluster", "no listener", "closed twice", "nil cluster"}
    /\ main \in {"starting", "serving", "returning"}
    /\ {stopc, donec, srvMu, global, users, clean} \subseteq BOOLEAN
    /\ serve \in {"off", "starting", "listening", "closed"}
    /\ stop \in [Stopper -> {"idle", "lock", "close", "await", "shutdown", "returned"}]
    /\ inside \subseteq Caller
    /\ loop \in {"off", "select", "look", "lock", "update", "ended"}

(* Every variable of the server and of its cluster keeps its type.         *)
WTypeOK == TypeOK /\ WebTypes

(***************************************************************************)
(* As long as requests are accepted the cluster is there for them: it is   *)
(* set before the server listens, and neither canceled nor shut down nor   *)
(* forgotten before the server has stopped listening (StartServer, Stop).  *)
(***************************************************************************)
ServedByCluster ==
    serve = "listening" => global /\ ~rootDone /\ shut = "no"

(***************************************************************************)
(* main returns only when the cluster is shut down and its data deleted.   *)
(* Where another goroutine has called Stop before, the one main defers     *)
(* panics, perhaps in the middle of that Shutdown: main then does not      *)
(* return, and this says nothing of it (server.go:161, main.go).           *)
(***************************************************************************)
ExitIsClean == proc = "exit" => shut = "done" /\ ~global

(***************************************************************************)
(* Every lock that is taken has one holder who is still there to release   *)
(* it: opLock a Stop, a Restart or the Shutdown, mmu the status update,    *)
(* Server.mu the first Stop, until donec (cluster.go:29, server.go:163).   *)
(***************************************************************************)
LocksOwned ==
    /\ opLock <=> shut = "stopping" \/ \E c \in Caller : pc[c] = "locked"
    /\ mmu <=> loop = "update"
    /\ srvMu <=> \E p \in Stopper : stop[p] \in {"close", "await"}
    /\ \A p, q \in Stopper : {stop[p], stop[q]} \subseteq {"close", "await"} => p = q

(***************************************************************************)
(* The two panics that end the process come late: the second close of      *)
(* stopc when the server is closed and rootCtx canceled, the status update *)
(* on a nil cluster when the cluster is shut down (server.go:169,          *)
(* updateClusterStatus).                                                   *)
(***************************************************************************)
CrashIsLate ==
    /\ proc \in {"closed twice", "nil cluster"} => serve = "closed" /\ donec /\ rootDone
    /\ proc = "nil cluster" => shut = "done"

(***************************************************************************)
(* Server.Stop, called when the server listens and nobody has called it    *)
(* before, returns or the process ends: nobody waits for mu, donec, opLock *)
(* and the servers in a circle.  Both loops end once stopc is closed.      *)
(***************************************************************************)
StopEnds ==
    /\ \A p \in Stopper :
          stop[p] = "lock" /\ serve = "listening" /\ ~stopc
             ~> stop[p] = "returned" \/ proc # "runs"
    /\ stopc ~> (loop = "ended" /\ ~clean) \/ proc # "runs"

(***************************************************************************)
(* Every Stop and Restart a handler has called returns, or the process     *)
(* ends: no chain of handlers, routines, fetches and Server.Stop waits for *)
(* itself, with Shutdown competing for opLock (cluster.go:390).            *)
(***************************************************************************)
OpsReturn ==
    \A c \in Caller : pc[c] # "idle" ~> pc[c] = "idle" \/ proc # "runs"

(***************************************************************************)
(* As long as there are users, the statuses come to agree with the servers *)
(* once the operations are over, however the fetches overlapped them: the  *)
(* loop that idles without users wakes up with them (updateClusterStatus,  *)
(* handler.go:56).                                                         *)
(***************************************************************************)
WatchedConverges ==
    <>[](users /\ ~stopc /\ proc = "runs" /\ \A c \in Caller : pc[c] = "idle")
        => <>[](\A m \in Member : Agrees(m))
=============================================================================
