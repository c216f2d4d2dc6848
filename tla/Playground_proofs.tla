-------------------------- MODULE Playground_proofs --------------------------
(***************************************************************************)
(* Theorems about Playground, for any members, handlers and actions asked  *)
(* for: the handlers keep to what MemberOps allows callers, so what is     *)
(* proved of it carries over; responses with Success are true; and what    *)
(* the quorum gate of stop-node is worth.                                  *)
(***************************************************************************)
EXTENDS Playground, StatusTrust_proofs, FiniteSetTheorems

RestartPlaces == {"idle", "restartCheck", "restartStart", "restartMark"}

(* Where a handler is, and where its call is.                              *)
CallOf(c) ==
    /\ hpc[c] \in {"gate", "look"} => action[c] \in NodeActions
    /\ pc[c] # "idle" => hpc[c] = "call" /\ whom[c] = target[c]
    /\ pc[c] = "Stop" => action[c] = "stop-node"
    /\ pc[c] = "Restart" => action[c] = "restart-node"
    /\ pc[c] = "locked" /\ action[c] = "stop-node" => routine[target[c]] \in StopPlaces
    /\ pc[c] = "locked" /\ action[c] = "restart-node" => routine[target[c]] \in RestartPlaces

CallInv == \A c \in Caller : CallOf(c)

LEMMA SomeMemberType == SomeMember \in Member
  BY ConfigAssumption DEF SomeMember

(* Every step of a handler keeps the types; none of them but NodeCall      *)
(* touches the cluster.                                                    *)
LEMMA HandlerStep ==
    ASSUME HandlerTypeOK, NEW c \in Caller, Handler(c)
    PROVE  HandlerTypeOK' /\ (UNCHANGED hvars \/ NodeCall(c))
<1> USE SomeMemberType
<1>1. ASSUME NEW a, Answer(c, a)
      PROVE  HandlerTypeOK'
  BY <1>1 DEF HandlerTypeOK, Answer, Actions
<1>2. CASE Refuse(c) \/ Unknown(c) \/ Vanished(c) \/ KeyRequest(c) \/ GateRefuses(c)
           \/ NodeAlready(c) \/ NodeDone(c)
  BY <1>1, <1>2 DEF Refuse, Unknown, Vanished, KeyRequest, KeyDone, KeyFails, GateRefuses,
                    NodeAlready, NodeDone
<1>3. CASE Admit(c)
  BY <1>3 DEF HandlerTypeOK, Admit, HandlerGoto, Branch
<1>4. CASE GatePasses(c)
  BY <1>4 DEF HandlerTypeOK, GatePasses, HandlerGoto
<1>5. ASSUME NEW m \in Member, Count(c, m)
      PROVE  HandlerTypeOK'
  <2>1. sound' \in [Caller -> BOOLEAN]
    <3>1. ((counted[c] = {} \/ sound[c]) /\ m \notin suspect) \in BOOLEAN
      OBVIOUS
    <3> QED
      BY <1>5, <3>1, Zenon DEF HandlerTypeOK, Count
  <2> QED
    BY <1>5, <2>1 DEF HandlerTypeOK, Count
<1>6. CASE NodeCall(c)
  BY <1>6 DEF HandlerTypeOK, NodeCall, HandlerGoto
<1> QED
  BY <1>2, <1>3, <1>4, <1>5, <1>6
     DEF Handler, NodeRequest, Refuse, Unknown, Vanished, KeyRequest, KeyDone, KeyFails, Admit,
         Count, GateRefuses, GatePasses, NodeAlready, NodeDone

(* A call by a handler is a call MemberOps allows.                         *)
LEMMA CallStep ==
    ASSUME HandlerTypeOK, NEW c \in Caller, NodeCall(c)
    PROVE  HNext
<1>1. target[c] \in Member
  BY DEF HandlerTypeOK
<1>2. Call(c, target[c], "Stop") \/ Call(c, target[c], "Restart")
  BY DEF NodeCall
<1> QED
  BY <1>1, <1>2 DEF NodeCall, HNext, Next

LEMMA TypesStep == HandlerTypeOK /\ [PNext]_pvars => HandlerTypeOK'
<1> SUFFICES ASSUME HandlerTypeOK, [PNext]_pvars PROVE HandlerTypeOK'
  OBVIOUS
<1>1. ASSUME NEW c \in Caller, NEW a \in Asked, NEW m \in Member, Receive(c, a, m)
      PROVE  HandlerTypeOK'
  BY <1>1, AskedAssumption DEF HandlerTypeOK, Receive
<1>2. ASSUME NEW c \in Caller, Handler(c)
      PROVE  HandlerTypeOK'
  BY <1>2, HandlerStep
<1>3. CASE Cluster
  <2>1. \A c \in Caller : (rerr[c] \/ ReturnsError(c)) \in BOOLEAN
    OBVIOUS
  <2>2. rerr' \in [Caller -> BOOLEAN]
    BY <1>3, <2>1, Zenon DEF Cluster
  <2>3. overtaken' \in [Caller -> SUBSET Member]
    BY <1>3 DEF HandlerTypeOK, Cluster
  <2> QED
    BY <1>3, <2>2, <2>3 DEF HandlerTypeOK, Cluster
<1>4. CASE UNCHANGED pvars
  BY <1>4 DEF HandlerTypeOK, pvars, handlerVars
<1> QED
  BY <1>1, <1>2, <1>3, <1>4 DEF PNext

(* Every step is one of the cluster's or leaves the cluster alone.         *)
LEMMA ImplementStep == HandlerTypeOK /\ [PNext]_pvars => [HNext]_hvars
<1> SUFFICES ASSUME HandlerTypeOK, [PNext]_pvars PROVE [HNext]_hvars
  OBVIOUS
<1>1. ASSUME NEW c \in Caller, Handler(c)
      PROVE  [HNext]_hvars
  BY <1>1, HandlerStep, CallStep
<1>2. CASE Cluster
  BY <1>2 DEF Cluster, HNext, Next
<1> QED
  BY <1>1, <1>2 DEF PNext, Receive, pvars

LEMMA TypesInit == PInit => HandlerTypeOK
  BY SomeMemberType DEF PInit, HandlerTypeOK, Actions

(* Every variable of the handlers keeps its type.                          *)
THEOREM HandlerTypes == PSpec => []HandlerTypeOK
  BY TypesInit, TypesStep, PTL DEF PSpec

(* The handlers are callers of the cluster of StatusTrust: all that is     *)
(* proved of it holds with them in front.                                  *)
THEOREM HandlersImplement == PSpec => HSpec
<1>1. PInit => HInit
  BY DEF PInit
<1> QED
  BY <1>1, ImplementStep, HandlerTypes, PTL DEF PSpec, HSpec

-----------------------------------------------------------------------------
(* The cluster moves: what it does to a call in progress.                  *)
LEMMA CallInvCluster ==
    ASSUME IndInv, HandlerTypeOK, CallInv, Cluster, NEW c \in Caller
    PROVE  CallOf(c)'
<1>0. /\ TypeOK /\ LockInv /\ CallOf(c) /\ ClusterStep
      /\ UNCHANGED <<hpc, action, target>> /\ target[c] \in Member
  BY DEF IndInv, HTypeOK, CallInv, Cluster, HandlerTypeOK
<1>1. ASSUME NEW d \in Caller, StopOf(d) \/ RestartOf(d)
      PROVE  CallOf(c)'
  <2>1. /\ ~opLock /\ pc' = [pc EXCEPT ![d] = "locked"] /\ UNCHANGED whom
        /\ \/ pc[d] = "Stop" /\ routine' = [routine EXCEPT ![whom[d]] = "stopCheck"]
           \/ pc[d] = "Restart" /\ routine' = [routine EXCEPT ![whom[d]] = "restartCheck"]
    BY <1>1 DEF StopOf, RestartOf, Enter
  <2>2. CASE c = d
    <3>1. whom[c] = target[c] /\ hpc[c] = "call" /\ routine \in [Member -> Routines]
          /\ pc \in [Caller -> {"idle", "Stop", "Restart", "locked"}]
      BY <1>0, <2>1, <2>2 DEF CallOf, TypeOK
    <3>2. /\ pc'[c] = "locked"
          /\ \/ pc[c] = "Stop" /\ routine'[target[c]] = "stopCheck"
             \/ pc[c] = "Restart" /\ routine'[target[c]] = "restartCheck"
      BY <1>0, <2>1, <2>2, <3>1
    <3> QED
      BY <1>0, <2>1, <3>1, <3>2 DEF CallOf, StopPlaces, RestartPlaces
  <2>3. CASE c # d
    <3>1. pc'[c] = pc[c] /\ pc[c] # "locked"
      BY <1>0, <2>1, <2>3 DEF LockInv, TypeOK
    <3> QED
      BY <1>0, <2>1, <3>1 DEF CallOf
  <2> QED
    BY <2>2, <2>3
<1>2. ASSUME NEW d \in Caller, Leave(d)
      PROVE  CallOf(c)'
  <2>1. UNCHANGED <<routine, whom>> /\ pc'[c] \in {pc[c], "idle"}
    BY <1>0, <1>2 DEF Leave, TypeOK
  <2> QED
    BY <1>0, <2>1 DEF CallOf
<1>3. ASSUME NEW m \in Member, Routine(m)
      PROVE  CallOf(c)'
  <2>1. UNCHANGED <<pc, whom>> /\ \A n \in Member : n # m => routine'[n] = routine[n]
    BY <1>0, <1>3 DEF Routine, StopCheck, StopMark, StopClose, RestartCheck, RestartStart,
                      RestartError, RestartMark, Goto, TypeOK
  <2>2. /\ routine[m] \in StopPlaces => routine'[m] \in StopPlaces
        /\ routine[m] \in RestartPlaces => routine'[m] \in RestartPlaces
    BY <1>0, <1>3 DEF Routine, StopCheck, StopMark, StopClose, RestartCheck, RestartStart,
                      RestartError, RestartMark, Goto, TypeOK, StopPlaces, RestartPlaces
  <2> QED
    BY <1>0, <2>1, <2>2 DEF CallOf
<1>4. CASE ShutdownEnter
  <2>1. pc[c] # "locked" /\ UNCHANGED <<pc, whom>>
    BY <1>0, <1>4 DEF ShutdownEnter, LockInv
  <2> QED
    BY <1>0, <2>1 DEF CallOf
<1>5. CASE UNCHANGED <<pc, whom, routine>>
  BY <1>0, <1>5 DEF CallOf
<1>6. ASSUME NEW m \in Member, FetchMemberStatus(m)
      PROVE  UNCHANGED <<pc, whom, routine>>
  BY <1>6 DEF FetchMemberStatus, FetchStatus, FetchStatusFails, FetchNoClient, FetchHash,
              FetchHashFails, FetchStore, FetchGoto
<1>7. UpdateStart \/ UpdateEnd \/ RootCancel \/ ShutdownCancel \/ ShutdownLeave
        => UNCHANGED <<pc, whom, routine>>
  BY DEF UpdateStart, UpdateEnd, RootCancel, ShutdownCancel, ShutdownLeave
<1> QED
  BY <1>0, <1>1, <1>2, <1>3, <1>4, <1>5, <1>6, <1>7 DEF ClusterStep, Shutdown

(* A handler moves: it leaves no call behind.                              *)
LEMMA CallInvHandler ==
    ASSUME IndInv, HandlerTypeOK, CallInv, NEW d \in Caller, Handler(d), NEW c \in Caller
    PROVE  CallOf(c)'
<1>0. TypeOK /\ CallOf(c) /\ CallOf(d) /\ target[d] \in Member
  BY DEF IndInv, HTypeOK, CallInv, HandlerTypeOK
<1>1. \A b \in Caller : b # d => hpc'[b] = hpc[b] /\ action'[b] = action[b] /\ target'[b] = target[b]
  BY DEF HandlerTypeOK, Handler, KeyRequest, NodeRequest, Refuse, Unknown, Vanished, KeyDone, KeyFails,
         Admit, Count, GateRefuses, GatePasses, NodeAlready, NodeCall, NodeDone, Answer, HandlerGoto
<1>2. CASE NodeCall(d)
  <2>1. /\ UNCHANGED <<routine, action, target>> /\ hpc'[d] = "call"
        /\ pc[d] = "idle" /\ whom'[d] = target[d]
        /\ \A b \in Caller : b # d => pc'[b] = pc[b] /\ whom'[b] = whom[b]
    BY <1>0, <1>2 DEF NodeCall, Call, HandlerGoto, TypeOK, HandlerTypeOK
  <2>2. pc'[d] = IF action[d] = "stop-node" THEN "Stop" ELSE "Restart"
    BY <1>0, <1>2 DEF NodeCall, Call, TypeOK
  <2>3. action[d] = "stop-node" \/ action[d] = "restart-node"
    BY <1>0, <1>2 DEF NodeCall, HandlerGoto, CallOf, NodeActions
  <2>4. CASE c = d
    BY <2>1, <2>2, <2>3, <2>4 DEF CallOf
  <2>5. CASE c # d
    BY <1>0, <1>1, <2>1, <2>5 DEF CallOf
  <2> QED
    BY <2>4, <2>5
<1>3. CASE ~NodeCall(d)
  <2>1. UNCHANGED hvars
    BY <1>3, HandlerStep
  <2>2. hpc[d] # "call" \/ pc[d] = "idle"
    BY <1>3 DEF Handler, KeyRequest, NodeRequest, Refuse, Unknown, Vanished, KeyDone, KeyFails,
         Admit, Count, GateRefuses, GatePasses, NodeAlready, NodeDone, Answer, HandlerGoto
  <2>3. UNCHANGED <<pc, whom, routine>>
    BY <2>1 DEF hvars
  <2>4. pc[d] = "idle"
    BY <1>0, <2>2 DEF CallOf
  <2>5. hpc'[d] \in {"gate", "look"} => action'[d] \in NodeActions
    BY <1>0, <1>3 DEF Handler, KeyRequest, NodeRequest, Refuse, Unknown, Vanished, KeyDone, KeyFails,
         Admit, Count, GateRefuses, GatePasses, NodeAlready, NodeDone, Answer, HandlerGoto, CallOf, HandlerTypeOK,
         Branch, Actions, NodeActions
  <2>6. CASE c = d
    BY <2>3, <2>4, <2>5, <2>6 DEF CallOf
  <2>7. CASE c # d
    BY <1>0, <1>1, <2>3, <2>7 DEF CallOf
  <2> QED
    BY <2>6, <2>7
<1> QED
  BY <1>2, <1>3

(* A new request has no call in progress yet.                              *)
LEMMA CallInvStep == IndInv /\ HandlerTypeOK /\ CallInv /\ [PNext]_pvars => CallInv'
<1> SUFFICES ASSUME IndInv, HandlerTypeOK, CallInv, [PNext]_pvars, NEW c \in Caller
             PROVE  CallOf(c)'
  BY DEF CallInv
<1>0. CallOf(c)
  BY DEF CallInv
<1>1. ASSUME NEW d \in Caller, NEW a \in Asked, NEW m \in Member, Receive(d, a, m)
      PROVE  CallOf(c)'
  <2>1. hpc[d] = "idle" /\ hpc'[d] = "check" /\ UNCHANGED <<pc, whom, routine>>
    BY <1>1 DEF Receive, hvars, HandlerTypeOK
  <2>2. CASE c = d
    BY <1>0, <2>1, <2>2 DEF CallOf
  <2>3. CASE c # d
    <3>1. hpc'[c] = hpc[c] /\ action'[c] = action[c] /\ target'[c] = target[c]
      BY <1>1, <2>3 DEF Receive, HandlerTypeOK
    <3> QED
      BY <1>0, <2>1, <3>1 DEF CallOf
  <2> QED
    BY <2>2, <2>3
<1>2. CASE UNCHANGED pvars
  BY <1>0, <1>2 DEF CallOf, pvars, hvars, handlerVars
<1> QED
  BY <1>1, <1>2, CallInvCluster, CallInvHandler DEF PNext

(* The handlers' invariant rests on the cluster's, which they inherit.     *)
LEMMA CallInvHolds == PSpec => []CallInv
<1>1. PInit => CallInv
  BY DEF PInit, HInit, Init, CallInv, CallOf
<1>2. PSpec => []IndInv
  BY HandlersImplement, IndInvariant, PTL
<1> QED
  BY <1>1, <1>2, CallInvStep, HandlerTypes, PTL DEF PSpec

(* One step: the call of c returns.                                        *)
LEMMA AnswerStep ==
    ASSUME IndInv, HandlerTypeOK, CallInv, [PNext]_pvars, NEW c \in Caller,
           pc[c] = "locked", routine[target[c]] # "idle", routine'[target[c]] = "idle",
           target[c] \notin suspect
    PROVE  /\ action[c] = "stop-node" => serving'[target[c]] = "down"
           /\ action[c] = "restart-node" /\ ~rerr'[c] => serving'[target[c]] = "up"
<1> DEFINE m == target[c]
<1>0. /\ TypeOK /\ LockInv /\ StatusInv /\ CallOf(c) /\ m \in Member /\ whom[c] = m
  BY DEF IndInv, HTypeOK, CallInv, HandlerTypeOK, CallOf
<1>1. Cluster
  BY HandlerStep DEF PNext, Receive, NodeCall, Call, hvars, pvars
<1>2. PICK n \in Member : Routine(n)
  <2>1. ASSUME NEW n \in Member, FetchMemberStatus(n)
        PROVE  UNCHANGED routine
    BY <1>0, <2>1, FetchFrame
  <2> QED
    BY <1>0, <1>1, <2>1, OtherFrame DEF Cluster, Next
<1>3. n = m
  BY <1>0, <1>2, RoutineFrame
<1>4. \/ StopCheck(m) \/ StopClose(m) \/ RestartCheck(m) \/ RestartError(m) \/ RestartMark(m)
  BY <1>0, <1>2, <1>3 DEF Routine, StopMark, RestartStart, Goto, TypeOK
<1>5. CASE StopCheck(m)
  BY <1>0, <1>5 DEF StopCheck, Goto, StatusInv, Agrees, CallOf, RestartPlaces, TypeOK
<1>6. CASE StopClose(m)
  BY <1>0, <1>6 DEF StopClose, Goto, CallOf, RestartPlaces, TypeOK
<1>7. CASE RestartCheck(m)
  BY <1>0, <1>7 DEF RestartCheck, Goto, StatusInv, Agrees, CallOf, StopPlaces, TypeOK
<1>8. CASE RestartError(m)
  <2>1. ReturnsError(c)
    BY <1>0, <1>8 DEF RestartError, Goto, ReturnsError
  <2>2. rerr'[c]
    BY <1>1, <2>1 DEF Cluster
  <2> QED
    BY <1>0, <1>8, <2>2 DEF RestartError, Goto, CallOf, StopPlaces
<1>9. CASE RestartMark(m)
  BY <1>0, <1>9 DEF RestartMark, Goto, StatusInv, CallOf, StopPlaces, TypeOK
<1> QED
  BY <1>4, <1>5, <1>6, <1>7, <1>8, <1>9

(* A response with Success is true unless it rests on a suspect status,    *)
(* however many members there are and requests overlap.                    *)
THEOREM AnswersAreTrue == PSpec => AnswersTrue
<1>1. IndInv /\ HandlerTypeOK /\ CallInv /\ [PNext]_pvars =>
        [\A c \in Caller :
         /\ pc[c] = "locked"
         /\ routine[target[c]] # "idle" /\ routine'[target[c]] = "idle"
         /\ target[c] \notin suspect
         => /\ action[c] = "stop-node" => serving'[target[c]] = "down"
            /\ action[c] = "restart-node" /\ ~rerr'[c] => serving'[target[c]] = "up"]_pvars
  BY AnswerStep
<1>2. PSpec => []IndInv
  BY HandlersImplement, IndInvariant, PTL
<1> QED
  BY <1>1, <1>2, HandlerTypes, CallInvHolds, PTL DEF PSpec, AnswersTrue

-----------------------------------------------------------------------------
(* What a handler has counted, and that it has passed the gate: the        *)
(* invariant behind CountIsTrue and GateOvertaken.                         *)
CountOf(c) ==
    /\ live[c] \subseteq counted[c]
    /\ sound[c] => \A m \in live[c] : serving[m] = "up" \/ m \in overtaken[c]
    /\ hpc[c] \in {"look", "call"} /\ action[c] = "stop-node" => ~QuorumLost(c)

CountInv == \A c \in Caller : CountOf(c)

(* A status that is not suspect says "Started" of servers that are up      *)
(* only, also while an operation is under way.                             *)
LEMMA ActiveIsUp ==
    ASSUME IndInv, NEW m \in Member, m \notin suspect, ~IsStopped(m)
    PROVE  serving[m] = "up"
  BY DEF IndInv, HTypeOK, TypeOK, StatusInv, Agrees, IsStopped

(* Whoever closes a server that was counted overtakes the count.           *)
LEMMA CountCluster ==
    ASSUME IndInv, HandlerTypeOK, CountInv, Cluster, NEW c \in Caller
    PROVE  CountOf(c)'
<1>1. CountOf(c) /\ live[c] \subseteq Member
  BY DEF CountInv, HandlerTypeOK
<1>2. serving \in [Member -> {"up", "down"}] /\ serving' \in [Member -> {"up", "down"}]
  BY TypeStep DEF IndInv, HTypeOK, TypeOK, Cluster, Next
<1>3. overtaken'[c] = overtaken[c] \cup {m \in live[c] : sound[c] /\ Closes(m)}
  BY DEF Cluster
<1>4. UNCHANGED <<hpc, action, counted, live, sound>>
  BY DEF Cluster
<1>5. ASSUME sound[c], NEW m \in live[c]
      PROVE  serving'[m] = "up" \/ m \in overtaken'[c]
  <2>1. serving[m] \in {"up", "down"} /\ serving'[m] \in {"up", "down"}
    BY <1>1, <1>2
  <2> QED
    BY <1>1, <1>3, <1>5, <2>1 DEF CountOf, Closes
<1> QED
  BY <1>1, <1>4, <1>5 DEF CountOf, QuorumLost, ActiveNodeN

(* A handler moves: it counts a member, passes the gate, or is done.       *)
LEMMA CountHandler ==
    ASSUME IndInv, HandlerTypeOK, CountInv, NEW d \in Caller, Handler(d), NEW c \in Caller
    PROVE  CountOf(c)'
<1>0. CountOf(c) /\ CountOf(d)
  BY DEF CountInv
<1>1. UNCHANGED serving
  <2>1. CASE NodeCall(d)
    BY <2>1 DEF NodeCall, Call
  <2> QED
    BY <2>1, HandlerStep DEF hvars
<1>2. CASE c # d
  <2>1. /\ hpc'[c] = hpc[c] /\ action'[c] = action[c] /\ counted'[c] = counted[c]
        /\ live'[c] = live[c] /\ sound'[c] = sound[c] /\ overtaken'[c] = overtaken[c]
    BY <1>2 DEF HandlerTypeOK, Handler, KeyRequest, NodeRequest, Refuse, Unknown, Vanished, KeyDone,
       KeyFails, Admit, Count, GateRefuses, GatePasses, NodeAlready, NodeCall, NodeDone, Answer,
       HandlerGoto
  <2> QED
    BY <1>0, <1>1, <2>1 DEF CountOf, QuorumLost, ActiveNodeN
<1>3. CASE c = d
  <2>1. ASSUME NEW a, Answer(c, a) PROVE CountOf(c)'
    <3>1. live'[c] = {} /\ hpc'[c] = "idle"
      BY <2>1 DEF Answer, HandlerTypeOK
    <3> QED
      BY <3>1 DEF CountOf
  <2>2. CASE Refuse(c) \/ Unknown(c) \/ Vanished(c) \/ KeyRequest(c) \/ GateRefuses(c)
             \/ NodeAlready(c) \/ NodeDone(c)
    BY <2>1, <2>2 DEF Refuse, Unknown, Vanished, KeyRequest, KeyDone, KeyFails, GateRefuses,
                      NodeAlready, NodeDone
  <2>3. CASE Admit(c)
    <3>1. hpc'[c] = Branch(action[c])
          /\ UNCHANGED <<action, counted, live, sound, overtaken>>
      BY <2>3 DEF Admit, HandlerGoto, HandlerTypeOK
    <3> QED
      BY <1>0, <1>1, <3>1 DEF CountOf, Branch, KeyActions
  <2>4. CASE GatePasses(c)
    <3>1. ~QuorumLost(c) /\ UNCHANGED <<action, counted, live, sound, overtaken>>
      BY <2>4 DEF GatePasses, HandlerGoto
    <3> QED
      BY <1>0, <1>1, <3>1 DEF CountOf, QuorumLost, ActiveNodeN
  <2>5. CASE NodeCall(c)
    <3>1. hpc[c] = "look" /\ UNCHANGED <<action, counted, live, sound, overtaken>>
      BY <2>5 DEF NodeCall, HandlerGoto
    <3> QED
      BY <1>0, <1>1, <3>1 DEF CountOf, QuorumLost, ActiveNodeN
  <2>6. ASSUME NEW m \in Member, Count(c, m)
        PROVE  CountOf(c)'
    <3>1. /\ hpc[c] = "gate" /\ UNCHANGED <<hpc, overtaken>>
          /\ counted'[c] = counted[c] \cup {m}
          /\ live'[c] = IF IsStopped(m) THEN live[c] ELSE live[c] \cup {m}
      BY <2>6 DEF Count, HandlerTypeOK
    <3>2. sound'[c] => (counted[c] = {} \/ sound[c]) /\ m \notin suspect
      BY <2>6, Zenon DEF Count, HandlerTypeOK
    <3>3. ASSUME sound'[c], NEW n \in live'[c]
          PROVE  serving'[n] = "up" \/ n \in overtaken'[c]
      BY <1>0, <1>1, <3>1, <3>2, <3>3, ActiveIsUp DEF CountOf
    <3> QED
      BY <1>0, <3>1, <3>3 DEF CountOf
  <2> QED
    BY <1>3, <2>2, <2>3, <2>4, <2>5, <2>6 DEF Handler, NodeRequest
<1> QED
  BY <1>2, <1>3

LEMMA CountStep == IndInv /\ HandlerTypeOK /\ CountInv /\ [PNext]_pvars => CountInv'
<1> SUFFICES ASSUME IndInv, HandlerTypeOK, CountInv, [PNext]_pvars, NEW c \in Caller
             PROVE  CountOf(c)'
  BY DEF CountInv
<1>0. CountOf(c)
  BY DEF CountInv
<1>1. ASSUME NEW d \in Caller, NEW a \in Asked, NEW m \in Member, Receive(d, a, m)
      PROVE  CountOf(c)'
  <2>1. /\ UNCHANGED <<serving, counted, live, sound, overtaken>>
        /\ hpc'[c] = "check" \/ (hpc'[c] = hpc[c] /\ action'[c] = action[c])
    BY <1>1 DEF Receive, hvars, HandlerTypeOK
  <2> QED
    BY <1>0, <2>1 DEF CountOf, QuorumLost, ActiveNodeN
<1>2. CASE UNCHANGED pvars
  BY <1>0, <1>2 DEF CountOf, QuorumLost, ActiveNodeN, pvars, hvars, handlerVars
<1> QED
  BY <1>1, <1>2, CountCluster, CountHandler DEF PNext

LEMMA CountInvHolds == PSpec => []CountInv
<1>1. PInit => CountInv
  BY DEF PInit, CountInv, CountOf
<1>2. PSpec => []IndInv
  BY HandlersImplement, IndInvariant, PTL
<1> QED
  BY <1>1, <1>2, CountStep, HandlerTypes, PTL DEF PSpec

(* What ActiveNodeN counted as active was up when it was counted, however  *)
(* many operations ran beside it.                                          *)
THEOREM CountsAreTrue == PSpec => []CountIsTrue
<1>1. CountInv => CountIsTrue
  BY DEF CountInv, CountOf, CountIsTrue
<1> QED
  BY <1>1, CountInvHolds, PTL

(***************************************************************************)
(* What the gate does give: the servers that are up, with those that were  *)
(* closed since the request counted them, make a quorum whenever a         *)
(* stop-node request closes a server, if no status it counted was suspect. *)
(* Only servers closed between the count and the Stop, by requests that    *)
(* were let through as well or by the shutdown, let the quorum be lost     *)
(* (handler.go:488, ActiveNodeN).                                          *)
(***************************************************************************)
GateOvertaken ==
    [][\A c \in Caller :
         StopsNode(c) /\ sound[c] => UpN + Cardinality(overtaken[c]) >= Quorum]_pvars

(* One step: the request of c closes a server.                             *)
LEMMA GateStep ==
    ASSUME HandlerTypeOK, CountInv, NEW c \in Caller, StopsNode(c), sound[c]
    PROVE  UpN + Cardinality(overtaken[c]) >= Quorum
<1> DEFINE Up == {m \in Member : serving[m] = "up"}
<1>0. IsFiniteSet(Member) /\ live[c] \subseteq Member /\ overtaken[c] \subseteq Member
  BY FiniteAssumption DEF HandlerTypeOK
<1>1. IsFiniteSet(Up) /\ IsFiniteSet(overtaken[c]) /\ IsFiniteSet(live[c])
  BY <1>0, FS_Subset
<1>2. live[c] \subseteq Up \cup overtaken[c]
  BY <1>0 DEF CountInv, CountOf
<1>3. /\ IsFiniteSet(Up \cup overtaken[c])
      /\ Cardinality(Up \cup overtaken[c])
           = Cardinality(Up) + Cardinality(overtaken[c]) - Cardinality(Up \cap overtaken[c])
  BY <1>1, FS_Union
<1>4. Cardinality(live[c]) <= Cardinality(Up \cup overtaken[c])
  BY <1>2, <1>3, FS_Subset
<1>5. IsFiniteSet(Up \cap overtaken[c])
  BY <1>1, FS_Subset
<1>6. /\ Cardinality(Up) \in Nat /\ Cardinality(overtaken[c]) \in Nat
      /\ Cardinality(live[c]) \in Nat /\ Cardinality(Up \cup overtaken[c]) \in Nat
      /\ Cardinality(Up \cap overtaken[c]) \in Nat /\ Cardinality(Member) \in Nat
  BY <1>0, <1>1, <1>3, <1>5, FS_CardinalityType
<1>7. Quorum \in Nat
  BY <1>6 DEF Quorum
<1>8. ~(Cardinality(live[c]) < Quorum)
  BY DEF CountInv, CountOf, StopsNode, QuorumLost, ActiveNodeN
<1>9. UpN = Cardinality(Up)
  BY DEF UpN
<1> HIDE DEF Up
<1> QED
  BY <1>3, <1>4, <1>6, <1>7, <1>8, <1>9

(* A stop-node request that was let through by sound statuses leaves the   *)
(* cluster short of a quorum by no more servers than overtook it.          *)
THEOREM GateIsOvertaken == PSpec => GateOvertaken
<1>1. HandlerTypeOK /\ CountInv /\ [PNext]_pvars =>
        [\A c \in Caller :
           StopsNode(c) /\ sound[c] => UpN + Cardinality(overtaken[c]) >= Quorum]_pvars
  BY GateStep
<1> QED
  BY <1>1, HandlerTypes, CountInvHolds, PTL DEF PSpec, GateOvertaken

(* The promise of ClusterService holds for the handlers.                   *)
THEOREM HandlersKeepPromise == PSpec => KeepsPromise
  BY HandlersImplement, HistoryOnly, PromiseKept, PTL
=============================================================================
