--------------------------- MODULE WebServer_proofs ---------------------------
(***************************************************************************)
(* Theorems about WebServer, for every cluster behind it, any number of    *)
(* handlers and any number of goroutines that call Server.Stop: requests   *)
(* are served by a running cluster only, main returns only after a         *)
(* finished Shutdown, locks have holders, crashes come late, and what is   *)
(* proved of MemberOps holds of the cluster behind the server.             *)
(***************************************************************************)
EXTENDS WebServer, MemberOps_proofs

(* The inductive invariant of the server's life: how far Stop has come,    *)
(* and what has happened by then.                                          *)
LifeInv ==
    /\ stop \in [Stopper -> {"idle", "lock", "close", "await", "shutdown", "returned"}]
    /\ main = "starting" => serve = "off" /\ \A p \in Stopper : stop[p] = "idle"
    /\ main # "returning" => stop["main"] = "idle"
    /\ main # "starting" /\ ~global => shut = "done"
    /\ serve # "closed" => ~donec /\ ~rootDone /\ shut = "no"
    /\ serve \in {"starting", "listening"} => global
    /\ donec => rootDone
    /\ shut # "no" => donec
    /\ \A p \in Stopper : stop[p] \in {"shutdown", "returned"} => donec
    /\ \A p \in Stopper : stop[p] = "returned" => shut = "done" /\ ~global
    /\ stopc /\ ~srvMu => donec
    /\ proc = "exit" => stop["main"] = "returned"
    /\ proc = "closed twice" => donec
    /\ proc = "nil cluster" => shut = "done"

(* Server.mu is held by one Stop at a time, up to the end of its wait.     *)
Holds(p) == stop[p] \in {"close", "await"}

MuInv ==
    /\ srvMu <=> \E p \in Stopper : Holds(p)
    /\ \A p, q \in Stopper : Holds(p) /\ Holds(q) => p = q

(* mmu is held by the status update alone, which StartServer begins.       *)
LoopInv ==
    /\ main = "starting" => loop = "off"
    /\ mmu <=> loop = "update"

(* The cluster by itself neither cancels rootCtx nor is shut down, both    *)
(* are up to the goroutine that serves and to Server.Stop; and mmu is      *)
(* taken by the status update only.                                        *)
LEMMA ClusterFrame ==
    ASSUME \/ \E c \in Caller : StopOf(c) \/ RestartOf(c) \/ Leave(c)
           \/ \E m \in Member : Routine(m) \/ FetchMemberStatus(m)
           \/ \E c \in Caller, m \in Member : Call(c, m, "Stop") \/ Call(c, m, "Restart")
           \/ UpdateStart \/ UpdateEnd
    PROVE  UNCHANGED <<rootDone, shut>> /\ (UpdateStart \/ UpdateEnd \/ UNCHANGED mmu)
<1>1. ASSUME NEW c \in Caller, StopOf(c) \/ RestartOf(c) \/ Leave(c)
      PROVE  UNCHANGED <<rootDone, shut, mmu>>
  BY <1>1 DEF StopOf, RestartOf, Enter, Leave
<1>2. ASSUME NEW m \in Member, Routine(m)
      PROVE  UNCHANGED <<rootDone, shut, mmu>>
  BY <1>2 DEF Routine, StopCheck, StopMark, StopClose, RestartCheck, RestartStart,
     RestartError, RestartMark, Goto
<1>3. ASSUME NEW m \in Member, FetchMemberStatus(m)
      PROVE  UNCHANGED <<rootDone, shut, mmu>>
  BY <1>3 DEF FetchMemberStatus, FetchStatus, FetchStatusFails, FetchNoClient,
     FetchHash, FetchHashFails, FetchStore, FetchGoto
<1>4. ASSUME NEW c \in Caller, NEW m \in Member, Call(c, m, "Stop") \/ Call(c, m, "Restart")
      PROVE  UNCHANGED <<rootDone, shut, mmu>>
  BY <1>4 DEF Call
<1>5. ASSUME UpdateStart \/ UpdateEnd
      PROVE  UNCHANGED <<rootDone, shut>>
  BY <1>5 DEF UpdateStart, UpdateEnd
<1> QED
  BY <1>1, <1>2, <1>3, <1>4, <1>5

(* A step that leaves alone what LifeInv speaks of keeps it.               *)
LEMMA LifeFrame ==
    ASSUME LifeInv,
           UNCHANGED <<proc, main, serve, stopc, donec, srvMu, stop, global, rootDone, shut>>
    PROVE  LifeInv'
  BY DEF LifeInv

(* A step that ends the process keeps it, if main ends it after its Stop   *)
(* and a panic comes late enough.                                          *)
LEMMA DiesFrame ==
    ASSUME LifeInv, NEW how, Dies(how),
           how = "exit" => stop["main"] = "returned",
           how = "closed twice" => donec,
           how = "nil cluster" => shut = "done"
    PROVE  LifeInv'
  BY DEF LifeInv, Dies, vars

(* Server.Stop goes from one place to the next in the order of its code.   *)
LEMMA StopStep ==
    ASSUME LifeInv, proc = "runs", NEW p \in Stopper, ServerStop(p)
    PROVE  LifeInv'
<1>0. /\ stop \in [Stopper -> {"idle", "lock", "close", "await", "shutdown", "returned"}]
      /\ main = "starting" => stop[p] = "idle"
      /\ main # "returning" => stop["main"] = "idle"
      /\ stop[p] \in {"shutdown", "returned"} => donec
      /\ donec => serve = "closed"
  BY DEF LifeInv
<1>1. CASE StopBegin(p)
  BY <1>0, <1>1 DEF StopBegin, StopGoto, LifeInv, vars
<1>2. CASE StopAgain(p)
  <2>1. donec
    BY <1>2 DEF StopAgain, LifeInv
  <2> QED
    BY <1>2, <2>1, DiesFrame DEF StopAgain
<1>3. CASE StopListening(p)
  BY <1>0, <1>3 DEF StopListening, StopGoto, LifeInv, vars
<1>4. CASE StopAwaits(p)
  BY <1>0, <1>4 DEF StopAwaits, StopGoto, LifeInv, vars
<1>5. CASE StopShuts(p)
  <2>1. /\ UNCHANGED <<proc, main, serve, stopc, donec, srvMu, stop, global>>
        /\ serve = "closed" /\ main # "starting" /\ stop[p] = "shutdown" /\ donec
    BY <1>0, <1>5 DEF StopShuts, webVars
  <2>2. (shut = "done" => shut' = "done") /\ (rootDone => rootDone')
    BY <1>5 DEF StopShuts, Shutdown, ShutdownCancel, ShutdownEnter, ShutdownLeave
  <2> QED
    BY <2>1, <2>2 DEF LifeInv
<1>6. CASE StopForgets(p)
  <2>1. /\ stop[p] = "shutdown" /\ shut = "done" /\ global' = FALSE
        /\ stop' = [stop EXCEPT ![p] = "returned"]
        /\ UNCHANGED <<proc, main, serve, stopc, donec, srvMu, rootDone, shut>>
    BY <1>6 DEF StopForgets, StopGoto, vars
  <2> QED
    BY <1>0, <2>1 DEF LifeInv
<1> QED
  BY <1>1, <1>2, <1>3, <1>4, <1>5, <1>6 DEF ServerStop

(* Every step of the process keeps the invariant.                          *)
LEMMA LifeStep == LifeInv /\ LoopInv /\ [WNext]_wvars => LifeInv'
<1> SUFFICES ASSUME LifeInv, LoopInv, [WNext]_wvars PROVE LifeInv'
  OBVIOUS
<1>0. stop \in [Stopper -> {"idle", "lock", "close", "await", "shutdown", "returned"}]
      /\ "main" \in Stopper
  BY DEF LifeInv, Stopper
<1>1. CASE proc = "runs" /\ (StartServer \/ Listen)
  <2>1. /\ main' # "starting" /\ serve # "closed" /\ serve' \in {"starting", "listening"}
        /\ global' = TRUE \/ (global /\ UNCHANGED global)
        /\ stop["main"] = "idle" \/ UNCHANGED main
        /\ UNCHANGED <<proc, stopc, donec, srvMu, stop, rootDone, shut>>
    BY <1>1 DEF StartServer, Listen, LifeInv, vars
  <2> QED
    BY <1>1, <2>1 DEF LifeInv
<1>2. CASE StartServerFails \/ ListenFails \/ MainReturns \/ LoopNil
  <2>1. LoopNil => shut = "done"
    BY DEF LoopNil, LoopInv, LifeInv
  <2> QED
    BY <1>2, <2>1, DiesFrame DEF StartServerFails, ListenFails, MainReturns, LoopNil
<1>3. CASE proc = "runs" /\ MainStops
  <2>1. main = "serving" /\ main' = "returning" /\ stop' = [stop EXCEPT !["main"] = "lock"]
        /\ UNCHANGED <<proc, serve, stopc, donec, srvMu, global, rootDone, shut>>
    BY <1>3 DEF MainStops, vars
  <2> QED
    BY <1>0, <1>3, <2>1 DEF LifeInv
<1>4. ASSUME NEW p \in Others, proc = "runs", OtherStops(p)
      PROVE  LifeInv'
  BY <1>0, <1>4, OthersAssumption DEF OtherStops, LifeInv, Stopper, vars
<1>5. ASSUME NEW p \in Stopper, proc = "runs", ServerStop(p)
      PROVE  LifeInv'
  BY <1>5, StopStep
<1>6. CASE proc = "runs" /\ ServeReturns
  BY <1>6 DEF ServeReturns, LifeInv
<1>7. ASSUME NEW c \in Caller, Receive(c) \/ Operate(c) \/ Respond(c)
      PROVE  LifeInv'
  <2>1. CASE Operate(c)
    BY <2>1, ClusterFrame, LifeFrame DEF Operate, webVars
  <2> QED
    BY <1>7, <2>1, LifeFrame DEF Receive, Respond, vars
<1>8. CASE Emptied \/ CleanStops
  BY <1>8, LifeFrame DEF Emptied, CleanStops, vars
<1>9. CASE LoopTick \/ LoopIdle \/ LoopCall \/ LoopEnds
  BY <1>9, LifeFrame DEF LoopTick, LoopIdle, LoopCall, LoopEnds, LoopGoto, vars
<1>10. CASE LoopLock \/ LoopBack
  BY <1>10, ClusterFrame, LifeFrame DEF LoopLock, LoopBack, LoopGoto
<1>11. ASSUME NEW c \in Caller, InCluster(StopOf(c) \/ RestartOf(c)) \/ InCluster(Leave(c))
       PROVE  LifeInv'
  BY <1>11, ClusterFrame, LifeFrame DEF InCluster, webVars
<1>12. ASSUME NEW m \in Member, InCluster(Routine(m)) \/ InCluster(FetchMemberStatus(m))
       PROVE  LifeInv'
  BY <1>12, ClusterFrame, LifeFrame DEF InCluster, webVars
<1>13. CASE UNCHANGED wvars
  BY <1>13, LifeFrame DEF wvars, vars, webVars
<1>14. CASE proc = "runs" /\ Process
  BY <1>1, <1>2, <1>3, <1>4, <1>5, <1>6, <1>7, <1>8, <1>9, <1>10, <1>14
     DEF Process, StatusLoop
<1> QED
  BY <1>11, <1>12, <1>13, <1>14 DEF WNext

(* Only the loop of updateClusterStatus takes mmu and releases it.         *)
LEMMA LoopStep == LoopInv /\ [WNext]_wvars => LoopInv'
<1> SUFFICES ASSUME LoopInv, [WNext]_wvars PROVE LoopInv'
  OBVIOUS
<1>0. ASSUME UNCHANGED <<main, loop, mmu>> PROVE LoopInv'
  BY <1>0 DEF LoopInv
<1>1. CASE StartServer \/ MainStops
  BY <1>1 DEF StartServer, MainStops, LoopInv, vars
<1>2. ASSUME NEW how, Dies(how) PROVE LoopInv'
  BY <1>0, <1>2 DEF Dies, vars
<1>3. CASE StartServerFails \/ ListenFails \/ MainReturns \/ LoopNil
  BY <1>2, <1>3 DEF StartServerFails, ListenFails, MainReturns, LoopNil
<1>4. CASE Listen \/ ServeReturns \/ Emptied \/ CleanStops
  BY <1>0, <1>4 DEF Listen, ServeReturns, Emptied, CleanStops, vars
<1>5. ASSUME NEW p \in Others, OtherStops(p) PROVE LoopInv'
  BY <1>0, <1>5 DEF OtherStops, vars
<1>6. ASSUME NEW p \in Stopper, ServerStop(p) PROVE LoopInv'
  <2>1. CASE StopShuts(p)
    BY <1>0, <2>1 DEF StopShuts, webVars, Shutdown, ShutdownCancel, ShutdownEnter, ShutdownLeave
  <2>2. CASE StopAgain(p)
    BY <1>2, <2>2 DEF StopAgain
  <2> QED
    BY <1>0, <1>6, <2>1, <2>2 DEF ServerStop, StopBegin, StopListening, StopAwaits, StopForgets,
       StopGoto, vars
<1>7. ASSUME NEW c \in Caller, Receive(c) \/ Operate(c) \/ Respond(c) PROVE LoopInv'
  BY <1>0, <1>7 DEF Receive, Operate, Respond, Call, vars, webVars
<1>8. CASE LoopTick \/ LoopIdle \/ LoopCall \/ LoopEnds
  BY <1>8 DEF LoopTick, LoopIdle, LoopCall, LoopEnds, LoopGoto, LoopInv, vars
<1>9. CASE LoopLock \/ LoopBack
  BY <1>9 DEF LoopLock, LoopBack, LoopGoto, UpdateStart, UpdateEnd, LoopInv
<1>10. ASSUME NEW c \in Caller, InCluster(StopOf(c) \/ RestartOf(c)) \/ InCluster(Leave(c))
       PROVE  LoopInv'
  BY <1>0, <1>10 DEF InCluster, webVars, StopOf, RestartOf, Enter, Leave
<1>11. ASSUME NEW m \in Member, InCluster(Routine(m)) \/ InCluster(FetchMemberStatus(m))
       PROVE  LoopInv'
  <2>1. UNCHANGED mmu
    BY <1>11 DEF InCluster, Routine, StopCheck, StopMark, StopClose, RestartCheck, RestartStart,
       RestartError, RestartMark, Goto, FetchMemberStatus, FetchStatus, FetchStatusFails,
       FetchNoClient, FetchHash, FetchHashFails, FetchStore, FetchGoto
  <2> QED
    BY <1>0, <1>11, <2>1 DEF InCluster, webVars
<1>12. CASE UNCHANGED wvars
  BY <1>0, <1>12 DEF wvars, vars, webVars
<1>13. CASE Process
  BY <1>1, <1>3, <1>4, <1>5, <1>6, <1>7, <1>8, <1>9, <1>13 DEF Process, StatusLoop
<1> QED
  BY <1>10, <1>11, <1>12, <1>13 DEF WNext

(* Only Server.Stop takes Server.mu and releases it.                       *)
LEMMA MuStep == LifeInv /\ MuInv /\ [WNext]_wvars => MuInv'
<1> SUFFICES ASSUME LifeInv, MuInv, [WNext]_wvars PROVE MuInv'
  OBVIOUS
<1> USE DEF MuInv, Holds
<1>0. /\ stop \in [Stopper -> {"idle", "lock", "close", "await", "shutdown", "returned"}]
      /\ main # "returning" => stop["main"] = "idle"
      /\ "main" \in Stopper
  BY DEF LifeInv, Stopper
<1>1. ASSUME UNCHANGED <<stop, srvMu>> PROVE MuInv'
  BY <1>1
<1>2. ASSUME NEW how, Dies(how) PROVE MuInv'
  BY <1>1, <1>2 DEF Dies
<1>3. CASE StartServerFails \/ ListenFails \/ MainReturns \/ LoopNil
  BY <1>2, <1>3 DEF StartServerFails, ListenFails, MainReturns, LoopNil
<1>4. CASE StartServer \/ Listen \/ ServeReturns \/ Emptied \/ CleanStops \/ UNCHANGED webVars
  BY <1>1, <1>4 DEF StartServer, Listen, ServeReturns, Emptied, CleanStops, webVars
<1>5. ASSUME NEW c \in Caller, Receive(c) \/ Operate(c) \/ Respond(c) PROVE MuInv'
  BY <1>1, <1>5 DEF Receive, Operate, Respond, webVars
<1>6. CASE StatusLoop \/ LoopEnds
  BY <1>1, <1>3, <1>6 DEF StatusLoop, LoopTick, LoopIdle, LoopCall, LoopEnds, LoopLock, LoopBack, LoopGoto
<1>7. CASE MainStops
  BY <1>0, <1>7 DEF MainStops
<1>8. ASSUME NEW p \in Others, OtherStops(p) PROVE MuInv'
  BY <1>0, <1>8 DEF OtherStops, Stopper
<1>9. ASSUME NEW p \in Stopper, ServerStop(p) PROVE MuInv'
  <2>1. CASE StopShuts(p) \/ StopAgain(p)
    BY <1>2, <1>4, <2>1 DEF StopShuts, StopAgain
  <2>2. CASE StopBegin(p)
    BY <1>0, <2>2 DEF StopBegin, StopGoto
  <2>3. CASE StopListening(p)
    BY <1>0, <2>3 DEF StopListening, StopGoto
  <2>4. CASE StopAwaits(p)
    BY <1>0, <2>4 DEF StopAwaits, StopGoto
  <2>5. CASE StopForgets(p)
    BY <1>0, <2>5 DEF StopForgets, StopGoto
  <2> QED
    BY <1>9, <2>1, <2>2, <2>3, <2>4, <2>5 DEF ServerStop
<1>10. CASE Process
  BY <1>3, <1>4, <1>5, <1>6, <1>7, <1>8, <1>9, <1>10 DEF Process
<1>11. CASE UNCHANGED wvars
  BY <1>4, <1>11 DEF wvars
<1> QED
  BY <1>4, <1>10, <1>11 DEF WNext, InCluster

(* How far Server.Stop has come tells what has happened by then.           *)
LEMMA LifeInvariant == WSpec => [](LifeInv /\ LoopInv /\ MuInv)
<1>1. WInit => LifeInv /\ LoopInv /\ MuInv
  <2> SUFFICES ASSUME WInit PROVE LifeInv /\ LoopInv /\ MuInv
    OBVIOUS
  <2>1. LifeInv
    BY DEF WInit, Init, LifeInv, Stopper
  <2>2. LoopInv
    BY DEF WInit, Init, LoopInv
  <2>3. MuInv
    BY DEF WInit, MuInv, Holds
  <2> QED
    BY <2>1, <2>2, <2>3
<1> QED
  BY <1>1, LifeStep, LoopStep, MuStep, PTL DEF WSpec

(* A request that is accepted finds the cluster: Stop closes the HTTP      *)
(* server before it touches anything else.                                 *)
THEOREM RequestsFindCluster == WSpec => []ServedByCluster
<1>1. LifeInv => ServedByCluster
  BY DEF LifeInv, ServedByCluster
<1> QED
  BY <1>1, LifeInvariant, PTL

(* main returns only after the cluster is shut down, whoever else calls    *)
(* Stop and whenever; it may also panic in the Stop it defers.             *)
THEOREM MainReturnsClean == WSpec => []ExitIsClean
<1>1. LifeInv => ExitIsClean
  BY DEF LifeInv, ExitIsClean, Stopper
<1> QED
  BY <1>1, LifeInvariant, PTL

-----------------------------------------------------------------------------
(* A step of the process is a step of the cluster or leaves it alone.      *)
LEMMA ImplementStep == TypeOK /\ [WNext]_wvars => [Next]_vars
<1> SUFFICES ASSUME TypeOK, [WNext]_wvars PROVE [Next]_vars
  OBVIOUS
<1>3. ASSUME ServeReturns PROVE Next \/ UNCHANGED vars
  <2>1. CASE rootDone
    <3>1. rootDone = TRUE
      BY <2>1, Zenon DEF TypeOK
    <3> QED
      BY <1>3, <3>1 DEF ServeReturns, vars
  <2>2. CASE ~rootDone
    BY <1>3, <2>2 DEF ServeReturns, RootCancel, Next, ClusterStep
  <2> QED
    BY <2>1, <2>2
<1>4. ASSUME NEW how, Dies(how)
      PROVE  UNCHANGED vars
  BY <1>4 DEF Dies
<1>5. ASSUME NEW p \in Stopper, ServerStop(p)
      PROVE  Next \/ UNCHANGED vars
  <2>1. CASE StopShuts(p)
    BY <2>1 DEF StopShuts, Next, ClusterStep
  <2>2. CASE StopAgain(p)
    BY <1>4, <2>2 DEF StopAgain
  <2> QED
    BY <1>5, <2>1, <2>2 DEF ServerStop, StopBegin, StopListening, StopAwaits, StopForgets
<1>6. ASSUME NEW c \in Caller, Receive(c) \/ Operate(c) \/ Respond(c)
      PROVE  Next \/ UNCHANGED vars
  BY <1>6 DEF Receive, Operate, Respond, Next
<1>7. ASSUME StatusLoop \/ LoopEnds
      PROVE  Next \/ UNCHANGED vars
  <2>1. CASE LoopNil
    BY <1>4, <2>1 DEF LoopNil
  <2> QED
    BY <1>7, <2>1 DEF StatusLoop, LoopTick, LoopIdle, LoopCall, LoopEnds, LoopLock, LoopBack,
       Next, ClusterStep
<1>8. ASSUME StartServerFails \/ ListenFails \/ MainReturns
      PROVE  UNCHANGED vars
  BY <1>4, <1>8 DEF StartServerFails, ListenFails, MainReturns
<1>9. ASSUME NEW p \in Others, OtherStops(p)
      PROVE  UNCHANGED vars
  BY <1>9 DEF OtherStops
<1>10. ASSUME StartServer \/ Listen \/ MainStops \/ Emptied \/ CleanStops
       PROVE  UNCHANGED vars
  BY <1>10 DEF StartServer, Listen, MainStops, Emptied, CleanStops
<1>11. CASE Process
  BY <1>3, <1>5, <1>6, <1>7, <1>8, <1>9, <1>10, <1>11 DEF Process
<1>12. ASSUME NEW c \in Caller, InCluster(StopOf(c) \/ RestartOf(c)) \/ InCluster(Leave(c))
       PROVE  Next
  BY <1>12 DEF InCluster, Next, ClusterStep
<1>13. ASSUME NEW m \in Member, InCluster(Routine(m)) \/ InCluster(FetchMemberStatus(m))
       PROVE  Next
  BY <1>13 DEF InCluster, Next, ClusterStep
<1> QED
  BY <1>11, <1>12, <1>13 DEF WNext, wvars

LEMMA ClusterTypes == WSpec => []TypeOK
<1>1. WInit => TypeOK
  BY TypeInit DEF WInit
<1> QED
  BY <1>1, ImplementStep, TypeStep, PTL DEF WSpec

(* The cluster behind the server is that of MemberOps, whose callers are   *)
(* the handlers and whose context the serving goroutine cancels: all that  *)
(* is proved of MemberOps holds of it.                                     *)
THEOREM ServerImplements == WSpec => Spec
<1>1. WInit => Init
  BY DEF WInit
<1> QED
  BY <1>1, ImplementStep, ClusterTypes, PTL DEF WSpec, Spec

(* The promise of ClusterService holds for the handlers of the server,     *)
(* whenever it is stopped.                                                 *)
THEOREM ServerKeepsPromise == WSpec => KeepsPromise
  BY ServerImplements, PromiseKept, PTL

(* Every lock of the server and of its cluster has one holder.             *)
THEOREM LocksAreOwned == WSpec => []LocksOwned
<1>1. LockInv /\ LoopInv /\ MuInv => LocksOwned
  <2> SUFFICES ASSUME LockInv, LoopInv, MuInv PROVE LocksOwned
    OBVIOUS
  <2>1. opLock <=> shut = "stopping" \/ \E c \in Caller : pc[c] = "locked"
    BY DEF LockInv
  <2> QED
    BY <2>1 DEF LoopInv, MuInv, Holds, LocksOwned
<1>2. WSpec => []LockInv
  BY ServerImplements, LockInvariant, PTL
<1> QED
  BY <1>1, <1>2, LifeInvariant, PTL

(* The process panics by a second Stop only when it serves nobody, and by  *)
(* a status update on a nil cluster only after the shutdown.               *)
THEOREM CrashesAreLate == WSpec => []CrashIsLate
<1>1. LifeInv => CrashIsLate
  BY DEF LifeInv, CrashIsLate
<1> QED
  BY <1>1, LifeInvariant, PTL

(* No step of the process takes a variable of the server out of its type.  *)
LEMMA WebTypesStep == WebTypes /\ [WNext]_wvars => WebTypes'
<1> SUFFICES ASSUME WebTypes, [WNext]_wvars PROVE WebTypes'
  OBVIOUS
<1> USE DEF WebTypes
<1>1. CASE UNCHANGED webVars
  BY <1>1 DEF webVars
<1>2. ASSUME NEW how \in {"exit", "no cluster", "no listener", "closed twice", "nil cluster"}, Dies(how)
      PROVE  WebTypes'
  BY <1>2 DEF Dies
<1>3. ASSUME NEW p \in Stopper, ServerStop(p)
      PROVE  WebTypes'
  <2>1. CASE StopAgain(p)
    BY <1>2, <2>1 DEF StopAgain
  <2>2. CASE StopShuts(p)
    BY <1>1, <2>2 DEF StopShuts
  <2> QED
    BY <1>3, <2>1, <2>2 DEF ServerStop, StopBegin, StopListening, StopAwaits, StopForgets, StopGoto
<1>4. ASSUME NEW c \in Caller, Receive(c) \/ Operate(c) \/ Respond(c)
      PROVE  WebTypes'
  BY <1>1, <1>4 DEF Receive, Operate, Respond
<1>5. ASSUME StatusLoop \/ LoopEnds
      PROVE  WebTypes'
  <2>1. CASE LoopNil
    BY <1>2, <2>1 DEF LoopNil
  <2> QED
    BY <1>5, <2>1 DEF StatusLoop, LoopTick, LoopIdle, LoopCall, LoopEnds, LoopLock, LoopBack, LoopGoto
<1>6. ASSUME StartServerFails \/ ListenFails \/ MainReturns
      PROVE  WebTypes'
  BY <1>2, <1>6 DEF StartServerFails, ListenFails, MainReturns
<1>7. ASSUME NEW p \in Others, OtherStops(p)
      PROVE  WebTypes'
  BY <1>7 DEF OtherStops, Stopper
<1>8. ASSUME StartServer \/ Listen \/ MainStops \/ ServeReturns \/ Emptied \/ CleanStops
      PROVE  WebTypes'
  BY <1>8 DEF StartServer, Listen, MainStops, ServeReturns, Emptied, CleanStops, Stopper
<1>9. CASE Process
  BY <1>3, <1>4, <1>5, <1>6, <1>7, <1>8, <1>9 DEF Process
<1> QED
  BY <1>1, <1>9 DEF WNext, InCluster, wvars

(* Every variable of the server and of its cluster keeps its type.         *)
THEOREM ServerTypes == WSpec => []WTypeOK
<1>1. WInit => WebTypes
  BY DEF WInit, WebTypes
<1> QED
  BY <1>1, ClusterTypes, WebTypesStep, PTL DEF WSpec, WTypeOK
=============================================================================
