------------------------------ MODULE MemberOps ------------------------------
(***************************************************************************)
(* The operations of a running cluster on its members: Cluster.Stop,       *)
(* Cluster.Restart and Cluster.Shutdown, serialized by opLock, beside      *)
(* UpdateMemberStatus, which is serialized by mmu only and whose           *)
(* FetchMemberStatus goroutines write the same status the operations       *)
(* decide by (cluster/cluster.go, cluster/member.go).                      *)
(*                                                                         *)
(* A member has two faces: the embedded etcd server it holds ("serving")   *)
(* and the State field of its status ("state").  State is abstracted to    *)
(* "Stopped" or "Started" (Follower or Leader): no operation here tells    *)
(* the last two apart.  Every section under statusLock is one step; what   *)
(* the code does between two sections is another.                          *)
(***************************************************************************)
EXTENDS Naturals

CONSTANTS
    Member,         \* the members of the cluster, fixed once it has started
    Caller,         \* goroutines that call Stop and Restart
    EmbeddedClient, \* Config.EmbeddedClient: Status bypasses the sockets
    MaxFaults       \* bound: fetches that fail although the server is up

ASSUME ConfigAssumption ==
    /\ Member # {}
    /\ EmbeddedClient \in BOOLEAN
    /\ MaxFaults \in Nat

VARIABLES
    state,      \* Member.status.State
    serving,    \* whether the embedded server m.srv is up
    routine,    \* where Member.Stop or Member.Restart is, for each member
    opLock,     \* Cluster.opLock
    pc, whom,   \* where each caller is, and the member it operates on
    mmu,        \* Cluster.mmu, write-locked by UpdateMemberStatus
    fetch, got, \* where each FetchMemberStatus is, and what it will store
    faults,     \* fetches that failed for no reason of the cluster's
    rootDone,   \* whether rootCtx has been canceled
    shut        \* progress of Shutdown

vars == <<state, serving, routine, opLock, pc, whom, mmu, fetch, got,
          faults, rootDone, shut>>

States   == {"Stopped", "Started"}
Routines == {"idle", "stopCheck", "stopMark", "stopClose",
             "restartCheck", "restartStart", "restartMark"}

(***************************************************************************)
(* The members are constructed and started by Start before anyone can call *)
(* an operation: every server is up and every status says so.              *)
(***************************************************************************)
Init ==
    /\ state = [m \in Member |-> "Started"]
    /\ serving = [m \in Member |-> "up"]
    /\ routine = [m \in Member |-> "idle"]
    /\ opLock = FALSE
    /\ pc = [c \in Caller |-> "idle"]
    /\ whom = [c \in Caller |-> CHOOSE m \in Member : TRUE]
    /\ mmu = FALSE
    /\ fetch = [m \in Member |-> "idle"]
    /\ got = [m \in Member |-> "Stopped"]
    /\ faults = 0
    /\ rootDone = FALSE
    /\ shut = "no"

-----------------------------------------------------------------------------
(* Cluster.Stop(i) and Cluster.Restart(i): take opLock, run the member's   *)
(* routine, release opLock on return.                                      *)

Call(c, m, op) ==
    /\ pc[c] = "idle"
    /\ pc' = [pc EXCEPT ![c] = op]
    /\ whom' = [whom EXCEPT ![c] = m]
    /\ UNCHANGED <<state, serving, routine, opLock, mmu, fetch, got, faults,
                   rootDone, shut>>

EnterUnlocked(c, op, first) ==
    /\ pc[c] = op
    /\ opLock' = TRUE
    /\ pc' = [pc EXCEPT ![c] = "locked"]
    /\ routine' = [routine EXCEPT ![whom[c]] = first]
    /\ UNCHANGED <<state, serving, whom, mmu, fetch, got, faults, rootDone, shut>>

Enter(c, op, first) ==
    /\ pc[c] = op
    /\ ~opLock
    /\ opLock' = TRUE
    /\ pc' = [pc EXCEPT ![c] = "locked"]
    /\ routine' = [routine EXCEPT ![whom[c]] = first]
    /\ UNCHANGED <<state, serving, whom, mmu, fetch, got, faults, rootDone, shut>>

LeaveStillLocked(c) ==
    /\ pc[c] = "locked"
    /\ routine[whom[c]] = "idle"
    /\ pc' = [pc EXCEPT ![c] = "idle"]
    /\ UNCHANGED <<state, serving, routine, opLock, whom, mmu, fetch, got,
                   faults, rootDone, shut>>

Leave(c) ==
    /\ pc[c] = "locked"
    /\ routine[whom[c]] = "idle"
    /\ pc' = [pc EXCEPT ![c] = "idle"]
    /\ opLock' = FALSE
    /\ UNCHANGED <<state, serving, routine, whom, mmu, fetch, got, faults,
                   rootDone, shut>>

Goto(m, from, to) ==
    /\ routine[m] = from
    /\ routine' = [routine EXCEPT ![m] = to]
    /\ UNCHANGED <<opLock, pc, whom, mmu, fetch, got, faults, rootDone, shut>>

-----------------------------------------------------------------------------
(* Member.Stop: return if the status says "Stopped"; otherwise say         *)
(* "Stopped" first and close the server after that.                        *)

StopCheck(m) ==
    /\ Goto(m, "stopCheck", IF state[m] = "Stopped" THEN "idle" ELSE "stopMark")
    /\ UNCHANGED <<state, serving>>

StopMarkZero(m) ==
    /\ Goto(m, "stopMark", "stopClose")
    /\ state' = [state EXCEPT ![m] = ""]
    /\ UNCHANGED serving

StopMark(m) ==
    /\ Goto(m, "stopMark", "stopClose")
    /\ state' = [state EXCEPT ![m] = "Stopped"]
    /\ UNCHANGED serving

StopClose(m) ==
    /\ Goto(m, "stopClose", "idle")
    /\ serving' = [serving EXCEPT ![m] = "down"]
    /\ UNCHANGED state

-----------------------------------------------------------------------------
(* Member.Restart: return if the status says anything but "Stopped".       *)
(* embed.StartEtcd fails while a server of the member holds its ports.     *)
(* Once Shutdown has deleted the data directories it has to learn the      *)
(* cluster from another server that is up.  It may always fail.            *)

RestartCheck(m) ==
    /\ Goto(m, "restartCheck", IF state[m] = "Stopped" THEN "restartStart" ELSE "idle")
    /\ UNCHANGED <<state, serving>>

RestartStart(m) ==
    /\ serving[m] = "down"
    /\ shut = "done" => \E n \in Member : serving[n] = "up"
    /\ Goto(m, "restartStart", "restartMark")
    /\ serving' = [serving EXCEPT ![m] = "up"]
    /\ UNCHANGED state

RestartError(m) ==
    /\ Goto(m, "restartStart", "idle")
    /\ UNCHANGED <<state, serving>>

RestartSilent(m) ==
    /\ Goto(m, "restartMark", "idle")
    /\ UNCHANGED <<state, serving>>

RestartMark(m) ==
    /\ Goto(m, "restartMark", "idle")
    /\ state' = [state EXCEPT ![m] = "Started"]
    /\ UNCHANGED serving

-----------------------------------------------------------------------------
(* UpdateMemberStatus: holding mmu, one FetchMemberStatus goroutine per    *)
(* member.  It returns when all of them have: the operand wf() of its      *)
(* select is evaluated, hence wg.Wait() returns, before stopc is looked at.*)

UpdateStart ==
    /\ ~mmu
    /\ mmu' = TRUE
    /\ fetch' = [m \in Member |-> "status"]
    /\ UNCHANGED <<state, serving, routine, opLock, pc, whom, got, faults,
                   rootDone, shut>>

UpdateEnd ==
    /\ mmu
    /\ \A m \in Member : fetch[m] = "idle"
    /\ mmu' = FALSE
    /\ UNCHANGED <<state, serving, routine, opLock, pc, whom, fetch, got,
                   faults, rootDone, shut>>

(* A goroutine moves on with the value it will store at the end.           *)
FetchGoto(m, from, to, value) ==
    /\ fetch[m] = from
    /\ fetch' = [fetch EXCEPT ![m] = to]
    /\ got' = [got EXCEPT ![m] = value]
    /\ UNCHANGED <<serving, routine, opLock, pc, whom, mmu, rootDone, shut>>

(* An RPC fails because the server is down or rootCtx is canceled, or, at  *)
(* most MaxFaults times, for a reason outside the cluster (a timeout).     *)
RpcFails(m) ==
    \/ (serving[m] = "down" \/ rootDone) /\ UNCHANGED faults
    \/ faults < MaxFaults /\ faults' = faults + 1

(* The embedded client calls the server in process: Status answers for a   *)
(* closed server too, and ignores the context.                             *)
FetchStatus(m) ==
    /\ EmbeddedClient \/ (serving[m] = "up" /\ ~rootDone)
    /\ FetchGoto(m, "status", "hash", "Started")
    /\ UNCHANGED <<state, faults>>

FetchStatusFails(m) ==
    /\ ~EmbeddedClient
    /\ RpcFails(m)
    /\ FetchGoto(m, "status", "store", "Stopped")
    /\ UNCHANGED state

(* Member.Client returned an error, or the goroutine panicked and was      *)
(* recovered: the status stays what it was.                                *)
FetchNoClient(m) ==
    /\ faults < MaxFaults
    /\ faults' = faults + 1
    /\ FetchGoto(m, "status", "idle", "Stopped")
    /\ UNCHANGED state

(* The hash always travels through the member's client port.               *)
FetchHash(m) ==
    /\ serving[m] = "up"
    /\ ~rootDone
    /\ FetchGoto(m, "hash", "store", "Started")
    /\ UNCHANGED <<state, faults>>

FetchHashFails(m) ==
    /\ RpcFails(m)
    /\ FetchGoto(m, "hash", "store", "Stopped")
    /\ UNCHANGED state

FetchStore(m) ==
    /\ FetchGoto(m, "store", "idle", "Stopped")
    /\ state' = [state EXCEPT ![m] = got[m]]
    /\ UNCHANGED faults

-----------------------------------------------------------------------------
(* The context is the caller's: the web server cancels it by itself when   *)
(* it has stopped serving, before it calls Shutdown.                       *)
RootCancel ==
    /\ ~rootDone
    /\ rootDone' = TRUE
    /\ UNCHANGED <<state, serving, routine, opLock, pc, whom, mmu, fetch, got,
                   faults, shut>>

(* Shutdown: cancel rootCtx and close stopc, then, under opLock, stop all  *)
(* members at once and delete the root directory.                          *)

ShutdownCancel ==
    /\ shut = "no"
    /\ rootDone' = TRUE
    /\ shut' = "locking"
    /\ UNCHANGED <<state, serving, routine, opLock, pc, whom, mmu, fetch, got,
                   faults>>

ShutdownEnter ==
    /\ shut = "locking"
    /\ ~opLock
    /\ opLock' = TRUE
    /\ shut' = "stopping"
    /\ routine' = [m \in Member |-> "stopCheck"]
    /\ UNCHANGED <<state, serving, pc, whom, mmu, fetch, got, faults, rootDone>>

ShutdownLeaveEarly ==
    /\ shut = "stopping"
    /\ \E m \in Member : routine[m] = "idle"
    /\ opLock' = FALSE
    /\ shut' = "done"
    /\ UNCHANGED <<state, serving, routine, pc, whom, mmu, fetch, got, faults,
                   rootDone>>

ShutdownLeave ==
    /\ shut = "stopping"
    /\ \A m \in Member : routine[m] = "idle"
    /\ opLock' = FALSE
    /\ shut' = "done"
    /\ UNCHANGED <<state, serving, routine, pc, whom, mmu, fetch, got, faults,
                   rootDone>>

-----------------------------------------------------------------------------
StopOf(c)    == Enter(c, "Stop", "stopCheck")
RestartOf(c) == Enter(c, "Restart", "restartCheck")

Routine(m) ==
    \/ StopCheck(m)    \/ StopMark(m)     \/ StopClose(m)
    \/ RestartCheck(m) \/ RestartStart(m) \/ RestartError(m) \/ RestartMark(m)

FetchMemberStatus(m) ==
    \/ FetchStatus(m) \/ FetchStatusFails(m) \/ FetchNoClient(m)
    \/ FetchHash(m)   \/ FetchHashFails(m)   \/ FetchStore(m)

Shutdown == ShutdownCancel \/ ShutdownEnter \/ ShutdownLeave

(* All the cluster does by itself once it has been called.                 *)
ClusterStep ==
    \/ \E c \in Caller : StopOf(c) \/ RestartOf(c) \/ Leave(c)
    \/ \E m \in Member : Routine(m) \/ FetchMemberStatus(m)
    \/ UpdateStart \/ UpdateEnd
    \/ RootCancel \/ Shutdown

Next ==
    \/ \E c \in Caller, m \in Member : Call(c, m, "Stop") \/ Call(c, m, "Restart")
    \/ ClusterStep

Spec == Init /\ [][Next]_vars

-----------------------------------------------------------------------------
(* Every variable keeps its type.                                          *)
TypeOK ==
    /\ state \in [Member -> States]
    /\ serving \in [Member -> {"up", "down"}]
    /\ routine \in [Member -> Routines]
    /\ opLock \in BOOLEAN
    /\ pc \in [Caller -> {"idle", "Stop", "Restart", "locked"}]
    /\ whom \in [Caller -> Member]
    /\ mmu \in BOOLEAN
    /\ fetch \in [Member -> {"idle", "status", "hash", "store"}]
    /\ got \in [Member -> States]
    /\ faults \in 0 .. MaxFaults
    /\ rootDone \in BOOLEAN
    /\ shut \in {"no", "locking", "stopping", "done"}

(* What the status says of a member is what its server is.                 *)
Agrees(m) == state[m] = "Stopped" <=> serving[m] = "down"

(***************************************************************************)
(* opLock "blocks Stop, Restart, Shutdown" (cluster.go:29): two of them    *)
(* are never inside at once, and no member's routine runs for a caller     *)
(* that has returned.                                                      *)
(***************************************************************************)
OpExclusion ==
    /\ \A c, d \in Caller : pc[c] = "locked" /\ pc[d] = "locked" => c = d
    /\ \A c \in Caller : pc[c] = "locked" => shut # "stopping"
    /\ \A m \in Member : routine[m] # "idle" =>
          shut = "stopping" \/ \E c \in Caller : pc[c] = "locked" /\ whom[c] = m

(***************************************************************************)
(* "Shutdown stops all Members and deletes all data directories"           *)
(* (cluster.go:385).                                                       *)
(***************************************************************************)
ShutdownStopsAll ==
    shut = "done" => \A m \in Member : serving[m] = "down"

-----------------------------------------------------------------------------
(* What a caller has asked for and not yet got: Stop until the server is   *)
(* closed, Restart until one is started, or until it turns out that there  *)
(* is nothing to do.                                                       *)
Pending(c) ==
    CASE pc[c] = "idle" -> "nothing"
      [] pc[c] \in {"Stop", "Restart"} -> pc[c]
      [] pc[c] = "locked" ->
            CASE routine[whom[c]] \in {"stopCheck", "stopMark", "stopClose"} -> "Stop"
              [] routine[whom[c]] \in {"restartCheck", "restartStart"} -> "Restart"
              [] OTHER -> "done"

Service == INSTANCE ClusterService WITH
    ask      <- [c \in Caller |-> Pending(c)],
    on       <- whom,
    shutdown <- IF shut \in {"locking", "stopping"} THEN "called" ELSE shut

(***************************************************************************)
(* The cluster keeps the promise of ClusterService: opLock makes every     *)
(* Stop and Restart take effect at one instant of its call, at most once,  *)
(* and nothing else starts or closes a server (cluster.go:29, Member.Stop, *)
(* Member.Restart).                                                        *)
(***************************************************************************)
KeepsPromise == Service!Spec
=============================================================================
