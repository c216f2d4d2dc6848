----------------------------- MODULE Playground -----------------------------
(***************************************************************************)
(* clientRequestHandler (backend/web/handler.go) over the cluster of       *)
(* MemberOps: every POST to /client-request runs in a goroutine of its     *)
(* own, which is a caller there.  The handler passes the limiters, looks   *)
(* at statuses through accessors that wait for mmu, and only then calls    *)
(* Stop or Restart: what it looked at may have changed by then.            *)
(*                                                                         *)
(* Keys and values are left out; etcd either applies a request or does     *)
(* not.  The limiters may admit or reject any request: RequestLimiter has  *)
(* what they promise, which does not keep overlapping requests apart.      *)
(***************************************************************************)
EXTENDS StatusTrust, FiniteSets

CONSTANT
    Asked           \* bound: the actions that clients ask for

KeyActions  == {"write", "stress", "delete", "get"}
NodeActions == {"stop-node", "restart-node"}
Actions     == KeyActions \cup NodeActions \cup {"unknown"}

ASSUME AskedAssumption == Asked \subseteq Actions

ASSUME FiniteAssumption == IsFiniteSet(Member)  \* Cluster.Members is a slice

VARIABLES
    hpc,            \* where each handler is
    action, target, \* its ClientRequest: Action, and the index FindIndex gave
    counted, live,  \* the members its ActiveNodeN has looked at, and found active
    rerr,           \* whether its Restart returned an error
    sound,          \* history: no status its ActiveNodeN looked at was suspect
    overtaken       \* history: those of a sound live whose server was closed since

handlerVars == <<hpc, action, target, counted, live, rerr, sound, overtaken>>
pvars == <<hvars, handlerVars>>

SomeMember == CHOOSE m \in Member : TRUE

PInit ==
    /\ HInit
    /\ hpc = [c \in Caller |-> "idle"]
    /\ action = [c \in Caller |-> "unknown"]
    /\ target = [c \in Caller |-> SomeMember]
    /\ counted = [c \in Caller |-> {}]
    /\ live = [c \in Caller |-> {}]
    /\ rerr = [c \in Caller |-> FALSE]
    /\ sound = [c \in Caller |-> FALSE]
    /\ overtaken = [c \in Caller |-> {}]

(* cluster_other.go, under mmu for reading.                                *)
Quorum         == Cardinality(Member) \div 2 + 1
ActiveNodeN(c) == Cardinality(live[c])
IsStopped(m)   == state[m] = "Stopped"

UpN == Cardinality({m \in Member : serving[m] = "up"})

-----------------------------------------------------------------------------
HandlerGoto(c, a, b) ==
    /\ hpc[c] = a
    /\ hpc' = [hpc EXCEPT ![c] = b]
    /\ UNCHANGED <<action, target, counted, live>>

(* The handler returns: with a response, with none for an unknown action,  *)
(* or by a panic, which net/http turns into a closed connection.           *)
Answer(c, a) ==
    /\ hpc[c] = a
    /\ hpc' = [hpc EXCEPT ![c] = "idle"]
    /\ action' = [action EXCEPT ![c] = "unknown"]
    /\ target' = [target EXCEPT ![c] = SomeMember]
    /\ counted' = [counted EXCEPT ![c] = {}]
    /\ live' = [live EXCEPT ![c] = {}]
    /\ rerr' = [rerr EXCEPT ![c] = FALSE]
    /\ sound' = [sound EXCEPT ![c] = FALSE]
    /\ overtaken' = [overtaken EXCEPT ![c] = {}]

ReceiveNowhere(c, a, m) ==
    /\ hpc[c] = "idle"
    /\ hpc' = [hpc EXCEPT ![c] = "check"]
    /\ action' = [action EXCEPT ![c] = a]
    /\ target' = [target EXCEPT ![c] = "nowhere"]
    /\ UNCHANGED <<hvars, counted, live, rerr, sound, overtaken>>

Receive(c, a, m) ==
    /\ hpc[c] = "idle"
    /\ hpc' = [hpc EXCEPT ![c] = "check"]
    /\ action' = [action EXCEPT ![c] = a]
    /\ target' = [target EXCEPT ![c] = m]
    /\ UNCHANGED <<hvars, counted, live, rerr, sound, overtaken>>

(* The client limiter, a body that is no ClientRequest, no endpoint, one   *)
(* that is not the cluster's, an empty key, or the other limiter.          *)
Refuse(c) ==
    /\ Answer(c, "check")
    /\ UNCHANGED hvars

Unknown(c) ==
    /\ action[c] = "unknown"
    /\ Answer(c, "check")
    /\ UNCHANGED hvars

(* Where the handler goes once nothing is wrong with the request.          *)
Branch(a) == IF a \in KeyActions THEN "etcd" ELSE IF a = "stop-node" THEN "gate" ELSE "look"

Admit(c) ==
    /\ action[c] # "unknown"
    /\ HandlerGoto(c, "check", Branch(action[c]))
    /\ UNCHANGED <<hvars, rerr, sound, overtaken>>

(* Once Shutdown has returned the server forgets the cluster, and whoever  *)
(* uses it next panics.                                                    *)
Vanished(c) ==
    /\ shut = "done"
    /\ \E a \in {"check", "etcd", "gate", "look"} : Answer(c, a)
    /\ UNCHANGED hvars

(* etcd applies a request while a quorum is up: the client may have been   *)
(* given several endpoints, any of which will do.                          *)
KeyDone(c) ==
    /\ UpN >= Quorum
    /\ ~rootDone
    /\ Answer(c, "etcd")
    /\ UNCHANGED hvars

KeyFailsNoTimeout(c) ==
    /\ serving[target[c]] = "up"
    /\ Answer(c, "etcd")
    /\ UNCHANGED hvars

(* Client failed, or the request did, at the latest after three seconds:   *)
(* write and stress say so, delete and get panic on the nil response.      *)
KeyFails(c) ==
    /\ Answer(c, "etcd")
    /\ UNCHANGED hvars

-----------------------------------------------------------------------------
(* stop-node and restart-node, past the second limiter.                    *)

(* ActiveNodeN reads the statuses one by one while it holds mmu, which     *)
(* keeps out the fetches but not the operations.                           *)
Counting(c) == counted[c] # {} /\ counted[c] # Member

CountAll(c, m) ==
    /\ hpc[c] = "gate"
    /\ ~mmu
    /\ m \in Member \ counted[c]
    /\ counted' = [counted EXCEPT ![c] = @ \cup {m}]
    /\ live' = [live EXCEPT ![c] = @ \cup {m}]
    /\ sound' = [sound EXCEPT ![c] = (counted[c] = {} \/ @) /\ m \notin suspect]
    /\ UNCHANGED <<hvars, hpc, action, target, rerr, overtaken>>

Count(c, m) ==
    /\ hpc[c] = "gate"
    /\ ~mmu
    /\ m \in Member \ counted[c]
    /\ counted' = [counted EXCEPT ![c] = @ \cup {m}]
    /\ live' = [live EXCEPT ![c] = IF IsStopped(m) THEN @ ELSE @ \cup {m}]
    /\ sound' = [sound EXCEPT ![c] = (counted[c] = {} \/ @) /\ m \notin suspect]
    /\ UNCHANGED <<hvars, hpc, action, target, rerr, overtaken>>

QuorumLost(c) == ActiveNodeN(c) < Quorum

GateRefuses(c) ==
    /\ ~mmu
    /\ counted[c] = Member
    /\ QuorumLost(c)
    /\ Answer(c, "gate")
    /\ UNCHANGED hvars

GatePasses(c) ==
    /\ ~mmu
    /\ counted[c] = Member
    /\ ~QuorumLost(c)
    /\ HandlerGoto(c, "gate", "look")
    /\ UNCHANGED <<hvars, rerr, sound, overtaken>>

(* The node is in the state it is asked to be in already.                  *)
NodeAlready(c) ==
    /\ ~mmu
    /\ IsStopped(target[c]) <=> action[c] = "stop-node"
    /\ Answer(c, "look")
    /\ UNCHANGED hvars

(* Otherwise the handler calls Stop or Restart.                            *)
NodeCall(c) ==
    /\ ~mmu
    /\ IsStopped(target[c]) <=> action[c] = "restart-node"
    /\ HandlerGoto(c, "look", "call")
    /\ Call(c, target[c], IF action[c] = "stop-node" THEN "Stop" ELSE "Restart")
    /\ Track
    /\ UNCHANGED <<rerr, sound, overtaken>>

NodeDone(c) ==
    /\ pc[c] = "idle"
    /\ Answer(c, "call")
    /\ UNCHANGED hvars

(* Restart returns an error where Member.Restart has met one.              *)
IgnoresError(c) == FALSE
ReturnsError(c) ==
    /\ pc[c] = "locked"
    /\ routine[whom[c]] = "restartStart"
    /\ routine'[whom[c]] = "idle"

Closes(m) == serving[m] = "up" /\ serving'[m] = "down"

Cluster ==
    /\ ClusterStep
    /\ Track
    /\ mmu' /\ ~mmu => \A c \in Caller : ~Counting(c)
    /\ rerr' = [c \in Caller |-> rerr[c] \/ ReturnsError(c)]
    /\ overtaken' = [c \in Caller |-> overtaken[c] \cup {m \in live[c] : sound[c] /\ Closes(m)}]
    /\ UNCHANGED <<hpc, action, target, counted, live, sound>>

-----------------------------------------------------------------------------
KeyRequest(c) == KeyDone(c) \/ KeyFails(c)

NodeRequest(c) ==
    \/ (\E m \in Member : Count(c, m))
    \/ GateRefuses(c) \/ GatePasses(c)
    \/ NodeAlready(c) \/ NodeCall(c) \/ NodeDone(c)

Handler(c) ==
    \/ Refuse(c) \/ Unknown(c) \/ Admit(c) \/ Vanished(c)
    \/ KeyRequest(c) \/ NodeRequest(c)

PNext ==
    \/ \E c \in Caller, a \in Asked, m \in Member : Receive(c, a, m)
    \/ \E c \in Caller : Handler(c)
    \/ Cluster

PSpec == PInit /\ [][PNext]_pvars

(* The goroutine of a request, which is in the handler or in the cluster.  *)
Goroutine(c) == Handler(c) \/ ((StopOf(c) \/ RestartOf(c) \/ Leave(c)) /\ Cluster)

(* Goroutines that can run do.  A sync.RWMutex lets the readers that wait  *)
(* for it in before the next writer, so a handler that waits for mmu gets  *)
(* it.  Shutdown need not begin or get opLock, but it goes on once it has. *)
PFairness ==
    /\ \A c \in Caller : SF_pvars(Goroutine(c))
    /\ \A m \in Member :
         WF_pvars(Routine(m) /\ Cluster) /\ WF_pvars(FetchMemberStatus(m) /\ Cluster)
    /\ WF_pvars(UpdateEnd /\ Cluster)
    /\ WF_pvars(ShutdownLeave /\ Cluster)

PFairSpec == PSpec /\ PFairness

-----------------------------------------------------------------------------
(* Every variable of the handlers keeps its type.                          *)
HandlerTypeOK ==
    /\ hpc \in [Caller -> {"idle", "check", "etcd", "gate", "look", "call"}]
    /\ action \in [Caller -> Actions]
    /\ target \in [Caller -> Member]
    /\ counted \in [Caller -> SUBSET Member]
    /\ live \in [Caller -> SUBSET Member]
    /\ rerr \in [Caller -> BOOLEAN]
    /\ sound \in [Caller -> BOOLEAN]
    /\ overtaken \in [Caller -> SUBSET Member]

(***************************************************************************)
(* A response with Success is true: when the Member.Stop of a stop-node    *)
(* request returns the server is down, and when the Member.Restart of a    *)
(* restart-node request returns no error it is up, whatever other          *)
(* requests, fetches and the shutdown did since the handler looked, unless *)
(* the status it decided by is the work of a disturbed fetch               *)
(* (clientRequestHandler, Member.Stop, Member.Restart).                    *)
(***************************************************************************)
AnswersTrue ==
    [][\A c \in Caller :
         /\ pc[c] = "locked"
         /\ routine[target[c]] # "idle" /\ routine'[target[c]] = "idle"
         /\ target[c] \notin suspect
         => /\ action[c] = "stop-node" => serving'[target[c]] = "down"
            /\ action[c] = "restart-node" /\ ~rerr'[c] => serving'[target[c]] = "up"]_pvars

(* The stop-node request of c closes the server it was asked to stop.      *)
StopsNode(c) ==
    /\ hpc[c] = "call" /\ pc[c] = "locked" /\ action[c] = "stop-node"
    /\ Closes(target[c])

(***************************************************************************)
(* "'stop-node' request rejected (already quorum lost!)" (handler.go:490): *)
(* no stop-node request closes a server once the quorum is lost, if none   *)
(* of the statuses it was let through by was suspect when it was read.     *)
(***************************************************************************)
GateHolds ==
    [][\A c \in Caller : StopsNode(c) /\ sound[c] /\ ~rootDone => UpN >= Quorum]_pvars

(***************************************************************************)
(* What ActiveNodeN does give the gate: a member it counted as active is   *)
(* up, or its server was closed since it was counted, unless the count met *)
(* a suspect status.  It reads the statuses while operations go on, so     *)
(* this takes the order of status and server in Member.Stop and            *)
(* Member.Restart (cluster_other.go:122, handler.go:488).                  *)
(***************************************************************************)
CountIsTrue ==
    \A c \in Caller : sound[c] =>
        \A m \in live[c] : serving[m] = "up" \/ m \in overtaken[c]

(***************************************************************************)
(* Every request comes to an end, however it waits for mmu, for opLock, or *)
(* for an etcd that has lost its quorum.                                   *)
(***************************************************************************)
RequestsEnd == \A c \in Caller : hpc[c] # "idle" ~> hpc[c] = "idle"
=============================================================================
