--------------------------- MODULE MemberOps_proofs ---------------------------
(***************************************************************************)
(* Theorems about MemberOps, for every set of members and callers, with    *)
(* and without the embedded client, and however many fetches fail: its     *)
(* types, the exclusion opLock and mmu give, and that the cluster keeps    *)
(* the promise of ClusterService.  The proofs about the modules that       *)
(* extend MemberOps begin here.                                            *)
(***************************************************************************)
EXTENDS MemberOps, TLAPS

(* The variables of MemberOps keep their types in every step: every action *)
(* writes the names of the code's states and no others.                    *)
LEMMA TypeStep == TypeOK /\ [Next]_vars => TypeOK'
<1> SUFFICES ASSUME TypeOK, [Next]_vars PROVE TypeOK'
  OBVIOUS
<1> USE DEF TypeOK, States, Routines
<1>1. ASSUME NEW c \in Caller, NEW m \in Member, Call(c, m, "Stop") \/ Call(c, m, "Restart")
      PROVE  TypeOK'
  BY <1>1 DEF Call
<1>2. ASSUME NEW c \in Caller, StopOf(c) \/ RestartOf(c)
      PROVE  TypeOK'
  <2>1. PICK op \in {"Stop", "Restart"}, first \in {"stopCheck", "restartCheck"} :
             Enter(c, op, first)
    BY <1>2 DEF StopOf, RestartOf
  <2> QED
    BY <2>1 DEF Enter
<1>3. ASSUME NEW c \in Caller, Leave(c)
      PROVE  TypeOK'
  BY <1>3 DEF Leave
<1>4. ASSUME NEW m \in Member, Routine(m)
      PROVE  TypeOK'
  BY <1>4 DEF Routine, StopCheck, StopMark, StopClose, RestartCheck,
              RestartStart, RestartError, RestartMark, Goto
<1>5. ASSUME NEW m \in Member, FetchMemberStatus(m)
      PROVE  TypeOK'
  <2>1. faults' \in 0 .. MaxFaults
    BY <1>5, ConfigAssumption DEF FetchMemberStatus, FetchStatus, FetchStatusFails,
       FetchNoClient, FetchHash, FetchHashFails, FetchStore, RpcFails
  <2>2. state' \in [Member -> States]
    BY <1>5 DEF FetchMemberStatus, FetchStatus, FetchStatusFails,
       FetchNoClient, FetchHash, FetchHashFails, FetchStore
  <2>3. PICK from \in {"status", "hash", "store"}, to \in {"idle", "hash", "store"},
             value \in States : FetchGoto(m, from, to, value)
    BY <1>5 DEF FetchMemberStatus, FetchStatus, FetchStatusFails,
       FetchNoClient, FetchHash, FetchHashFails, FetchStore
  <2> QED
    BY <2>1, <2>2, <2>3 DEF FetchGoto
<1>6. CASE UpdateStart \/ UpdateEnd
  <2>1. [m \in Member |-> "status"] \in [Member -> {"idle", "status", "hash", "store"}]
    OBVIOUS
  <2> QED
    BY <1>6, <2>1 DEF UpdateStart, UpdateEnd
<1>7. CASE Shutdown
  <2>1. [m \in Member |-> "stopCheck"] \in [Member -> Routines]
    OBVIOUS
  <2> QED
    BY <1>7, <2>1 DEF Shutdown, ShutdownCancel, ShutdownEnter, ShutdownLeave
<1>8. CASE RootCancel
  BY <1>8 DEF RootCancel
<1>9. CASE UNCHANGED vars
  BY <1>9 DEF vars
<1> QED
  BY <1>1, <1>2, <1>3, <1>4, <1>5, <1>6, <1>7, <1>8, <1>9 DEF Next, ClusterStep

(* The initial values have their types.                                    *)
LEMMA TypeInit == Init => TypeOK
<1> SUFFICES ASSUME Init PROVE TypeOK
  OBVIOUS
<1>1. (CHOOSE m \in Member : TRUE) \in Member
  BY ConfigAssumption
<1>2. whom \in [Caller -> Member]
  BY <1>1 DEF Init
<1>3. state \in [Member -> States] /\ got \in [Member -> States]
  BY DEF Init, States
<1>4. routine \in [Member -> Routines]
  BY DEF Init, Routines
<1>5. serving \in [Member -> {"up", "down"}] /\ fetch \in [Member -> {"idle", "status", "hash", "store"}]
  BY DEF Init
<1>6. pc \in [Caller -> {"idle", "Stop", "Restart", "locked"}] /\ faults \in 0 .. MaxFaults
  BY ConfigAssumption DEF Init
<1> QED
  BY <1>2, <1>3, <1>4, <1>5, <1>6 DEF Init, TypeOK

(* Every variable keeps its type, for every number of members and callers. *)
THEOREM TypeCorrect == Spec => []TypeOK
  BY TypeInit, TypeStep, PTL DEF Spec

-----------------------------------------------------------------------------
StopPlaces == {"idle", "stopCheck", "stopMark", "stopClose"}

(* The inductive invariant of the locks: who is inside opLock, whose       *)
(* routine runs, and that fetches run under mmu only.                      *)
LockInv ==
    /\ \A m \in Member : routine[m] # "idle" =>
          opLock /\ (shut = "stopping" \/ \E c \in Caller : pc[c] = "locked" /\ whom[c] = m)
    /\ \A c \in Caller : pc[c] = "locked" => opLock /\ shut # "stopping"
    /\ \A c, d \in Caller : pc[c] = "locked" /\ pc[d] = "locked" => c = d
    /\ opLock => shut = "stopping" \/ \E c \in Caller : pc[c] = "locked"
    /\ shut = "stopping" => opLock /\ \A m \in Member : routine[m] \in StopPlaces
    /\ \A m \in Member : fetch[m] # "idle" => mmu

(* Only Enter, Leave and Shutdown touch opLock, and a routine that runs    *)
(* belongs to the one inside; only UpdateStart begins a fetch.             *)
LEMMA LockStep == TypeOK /\ LockInv /\ [Next]_vars => LockInv'
<1> SUFFICES ASSUME TypeOK, LockInv, [Next]_vars PROVE LockInv'
  OBVIOUS
<1> USE DEF LockInv, StopPlaces
<1>1. ASSUME NEW c \in Caller, NEW m \in Member, Call(c, m, "Stop") \/ Call(c, m, "Restart")
      PROVE  LockInv'
  BY <1>1 DEF Call, TypeOK
<1>2. ASSUME NEW c \in Caller, StopOf(c) \/ RestartOf(c)
      PROVE  LockInv'
  <2>1. PICK op \in {"Stop", "Restart"}, first \in {"stopCheck", "restartCheck"} :
             Enter(c, op, first)
    BY <1>2 DEF StopOf, RestartOf
  <2> QED
    BY <2>1 DEF Enter, TypeOK
<1>3. ASSUME NEW c \in Caller, Leave(c)
      PROVE  LockInv'
  BY <1>3 DEF Leave, TypeOK
<1>4. ASSUME NEW m \in Member, Routine(m)
      PROVE  LockInv'
  <2>1. routine[m] # "idle" /\ UNCHANGED <<opLock, pc, whom, mmu, fetch, shut>>
    BY <1>4 DEF Routine, StopCheck, StopMark, StopClose, RestartCheck,
                RestartStart, RestartError, RestartMark, Goto
  <2>2. \A n \in Member : routine'[n] # "idle" => routine[n] # "idle"
    BY <1>4 DEF Routine, StopCheck, StopMark, StopClose, RestartCheck,
                RestartStart, RestartError, RestartMark, Goto, TypeOK
  <2>3. \A n \in Member : routine[n] \in StopPlaces => routine'[n] \in StopPlaces
    BY <1>4 DEF Routine, StopCheck, StopMark, StopClose, RestartCheck,
                RestartStart, RestartError, RestartMark, Goto, TypeOK
  <2> QED
    BY <2>1, <2>2, <2>3
<1>5. ASSUME NEW m \in Member, FetchMemberStatus(m)
      PROVE  LockInv'
  <2>1. fetch[m] # "idle" /\ UNCHANGED <<routine, opLock, pc, whom, mmu, shut>>
    BY <1>5 DEF FetchMemberStatus, FetchStatus, FetchStatusFails,
       FetchNoClient, FetchHash, FetchHashFails, FetchStore, FetchGoto
  <2> QED
    BY <2>1
<1>6. CASE UpdateStart \/ UpdateEnd
  BY <1>6 DEF UpdateStart, UpdateEnd
<1>7. CASE Shutdown
  BY <1>7 DEF Shutdown, ShutdownCancel, ShutdownEnter, ShutdownLeave, TypeOK
<1>8. CASE RootCancel
  BY <1>8 DEF RootCancel
<1>9. CASE UNCHANGED vars
  BY <1>9 DEF vars
<1> QED
  BY <1>1, <1>2, <1>3, <1>4, <1>5, <1>6, <1>7, <1>8, <1>9 DEF Next, ClusterStep

LEMMA LockInit == Init => LockInv
  BY DEF Init, LockInv

LEMMA LockInvariant == Spec => []LockInv
  BY LockInit, TypeCorrect, LockStep, PTL DEF Spec

(* opLock keeps Stop, Restart and Shutdown apart, for every number of      *)
(* members and callers.                                                    *)
THEOREM Exclusion == Spec => []OpExclusion
<1>1. LockInv => OpExclusion
  BY DEF LockInv, OpExclusion
<1> QED
  BY <1>1, LockInvariant, PTL

-----------------------------------------------------------------------------
(* A step of a member's routine changes its own member only, and leaves    *)
(* the fetches, the lock and Shutdown alone.                               *)
LEMMA RoutineFrame ==
    ASSUME TypeOK, NEW m \in Member, Routine(m)
    PROVE  /\ UNCHANGED <<opLock, fetch, got, faults, rootDone, shut>>
           /\ \A n \in Member \ {m} : /\ state'[n] = state[n]
                                      /\ serving'[n] = serving[n]
                                      /\ routine'[n] = routine[n]
           /\ routine[m] # "idle"
  BY DEF TypeOK, Routine, StopCheck, StopMark, StopClose, RestartCheck,
         RestartStart, RestartError, RestartMark, Goto

(* A step of a member's fetch changes its own member only, and leaves the  *)
(* servers, the routines and Shutdown alone.                               *)
LEMMA FetchFrame ==
    ASSUME TypeOK, NEW m \in Member, FetchMemberStatus(m)
    PROVE  /\ UNCHANGED <<serving, routine, opLock, rootDone, shut>>
           /\ \A n \in Member \ {m} : /\ state'[n] = state[n]
                                      /\ fetch'[n] = fetch[n]
                                      /\ got'[n] = got[n]
           /\ fetch[m] # "idle" /\ fetch'[m] # fetch[m]
  BY DEF TypeOK, FetchMemberStatus, FetchStatus, FetchStatusFails,
         FetchNoClient, FetchHash, FetchHashFails, FetchStore, FetchGoto

(* A step of anyone else writes no status, starts and closes no server,    *)
(* and begins a routine only when none is running.                         *)
LEMMA OtherFrame ==
    ASSUME TypeOK, LockInv, Next,
           \A m \in Member : ~Routine(m) /\ ~FetchMemberStatus(m)
    PROVE  /\ UNCHANGED <<state, serving, got, faults>>
           /\ \A n \in Member : fetch'[n] \in {fetch[n], "status"}
           /\ \A n \in Member : routine'[n] # routine[n] =>
                   routine[n] = "idle" /\ routine'[n] \in {"stopCheck", "restartCheck"}
<1>1. ASSUME NEW c \in Caller, NEW m \in Member, Call(c, m, "Stop") \/ Call(c, m, "Restart")
      PROVE  UNCHANGED <<state, serving, got, faults, fetch, routine>>
  BY <1>1 DEF Call
<1>2. ASSUME NEW c \in Caller, StopOf(c) \/ RestartOf(c)
      PROVE  /\ UNCHANGED <<state, serving, got, faults, fetch>>
             /\ \A n \in Member : routine'[n] # routine[n] =>
                   routine[n] = "idle" /\ routine'[n] \in {"stopCheck", "restartCheck"}
  BY <1>2 DEF StopOf, RestartOf, Enter, TypeOK, LockInv
<1>3. ASSUME NEW c \in Caller, Leave(c)
      PROVE  UNCHANGED <<state, serving, got, faults, fetch, routine>>
  BY <1>3 DEF Leave
<1>4. CASE UpdateStart \/ UpdateEnd
  BY <1>4 DEF UpdateStart, UpdateEnd
<1>5. CASE RootCancel \/ Shutdown
  BY <1>5 DEF RootCancel, Shutdown, ShutdownCancel, ShutdownEnter, ShutdownLeave, LockInv
<1> QED
  BY <1>1, <1>2, <1>3, <1>4, <1>5 DEF Next, ClusterStep

-----------------------------------------------------------------------------
(* A caller is asking for something else only after a step of its own, or  *)
(* of the routine it has begun.                                            *)
LEMMA PendingFrame ==
    ASSUME TypeOK, NEW c \in Caller, pc'[c] = pc[c], whom'[c] = whom[c],
           pc[c] = "locked" => routine'[whom[c]] = routine[whom[c]]
    PROVE  Pending(c)' = Pending(c)
  BY DEF Pending, TypeOK

(* Every step of Stop and Restart is a step of the promise, or hidden: the *)
(* call takes effect when the server is closed or started, or when there   *)
(* is found to be nothing to do.                                           *)
LEMMA RoutinePromise ==
    ASSUME TypeOK, LockInv, NEW m \in Member, Routine(m)
    PROVE  Service!Next \/ UNCHANGED Service!vars
<1> DEFINE ask == [c \in Caller |-> Pending(c)]
<1>0. routine[m] # "idle" /\ UNCHANGED <<pc, whom, shut>>
      /\ \A n \in Member \ {m} : routine'[n] = routine[n]
  BY DEF TypeOK, Routine, StopCheck, StopMark, StopClose, RestartCheck,
         RestartStart, RestartError, RestartMark, Goto
<1>1. CASE shut = "stopping"
  <2>1. \A c \in Caller : Pending(c)' = Pending(c)
    BY <1>0, <1>1, PendingFrame DEF LockInv
  <2>2. ask' = ask
    BY <2>1
  <2>3. CASE StopClose(m)
    <3>1. serving' = [serving EXCEPT ![m] = "down"]
      BY <2>3 DEF StopClose
    <3>2. Service!ShutdownEffect(m)
      BY <1>0, <1>1, <2>2, <3>1 DEF Service!ShutdownEffect
    <3> QED
      BY <3>2 DEF Service!Next
  <2>4. CASE ~StopClose(m)
    <3>1. serving' = serving
      BY <1>1, <2>4 DEF LockInv, StopPlaces, Routine, StopCheck, StopMark, RestartCheck, RestartStart,
         RestartError, RestartMark, Goto
    <3> QED
      BY <1>0, <2>2, <3>1 DEF Service!vars
  <2> QED
    BY <2>3, <2>4
<1>2. CASE shut # "stopping"
  <2>1. PICK c \in Caller : pc[c] = "locked" /\ whom[c] = m
    BY <1>0, <1>2 DEF LockInv
  <2>2. \A d \in Caller \ {c} : Pending(d)' = Pending(d)
    BY <1>0, <2>1, PendingFrame DEF LockInv
  <2>3. ASSUME Pending(c)' = Pending(c), serving' = serving
        PROVE  UNCHANGED Service!vars
    <3>1. ask' = ask
      BY <2>2, <2>3
    <3> QED
      BY <1>0, <2>3, <3>1 DEF Service!vars
  <2>4. ASSUME NEW what \in {"Stop", "Restart"}, Pending(c) = what, Pending(c)' = "done"
        PROVE  Service!Settle(c, what)
    <3>1. ask' = [ask EXCEPT ![c] = "done"] /\ ask[c] = what
      BY <2>2, <2>4
    <3> QED
      BY <1>0, <3>1 DEF Service!Settle
  <2>5. CASE StopMark(m) \/ RestartMark(m)
    BY <1>0, <2>1, <2>3, <2>5 DEF StopMark, RestartMark, Goto, Pending, TypeOK
  <2>6. CASE StopClose(m)
    <3>1. Pending(c) = "Stop" /\ Pending(c)' = "done"
      BY <1>0, <2>1, <2>6 DEF StopClose, Goto, Pending, TypeOK
    <3>2. serving' = [serving EXCEPT ![whom[c]] = "down"]
      BY <2>1, <2>6 DEF StopClose
    <3>3. Service!StopEffect(c)
      BY <2>4, <3>1, <3>2 DEF Service!StopEffect
    <3> QED
      BY <3>3 DEF Service!Next
  <2>7. CASE RestartStart(m)
    <3>1. Pending(c) = "Restart" /\ Pending(c)' = "done"
      BY <1>0, <2>1, <2>7 DEF RestartStart, Goto, Pending, TypeOK
    <3>2. serving[whom[c]] = "down" /\ serving' = [serving EXCEPT ![whom[c]] = "up"]
      BY <2>1, <2>7 DEF RestartStart
    <3>3. Service!RestartEffect(c)
      BY <2>4, <3>1, <3>2 DEF Service!RestartEffect
    <3> QED
      BY <3>3 DEF Service!Next
  <2>8. CASE StopCheck(m) \/ RestartCheck(m) \/ RestartError(m)
    <3>1. serving' = serving
      BY <2>8 DEF StopCheck, RestartCheck, RestartError
    <3>2. \/ Pending(c)' = Pending(c)
          \/ Pending(c) \in {"Stop", "Restart"} /\ Pending(c)' = "done"
      BY <1>0, <2>1, <2>8 DEF StopCheck, RestartCheck, RestartError, Goto, Pending, TypeOK
    <3>3. CASE Pending(c)' = Pending(c)
      BY <2>3, <3>1, <3>3
    <3>4. CASE Pending(c) \in {"Stop", "Restart"} /\ Pending(c)' = "done"
      <4>1. Service!NoEffect(c)
        BY <2>4, <3>1, <3>4 DEF Service!NoEffect
      <4> QED
        BY <4>1 DEF Service!Next
    <3> QED
      BY <3>2, <3>3, <3>4
  <2> QED
    BY <2>5, <2>6, <2>7, <2>8 DEF Routine
<1> QED
  BY <1>1, <1>2

(* Every step of the cluster is one of the promise, or hidden.             *)
LEMMA PromiseStep == TypeOK /\ LockInv /\ Next => Service!Next \/ UNCHANGED Service!vars
<1> SUFFICES ASSUME TypeOK, LockInv, Next PROVE Service!Next \/ UNCHANGED Service!vars
  OBVIOUS
<1> DEFINE ask == [c \in Caller |-> Pending(c)]
<1>1. ASSUME NEW c \in Caller, NEW m \in Member, NEW op \in {"Stop", "Restart"}, Call(c, m, op)
      PROVE  Service!Invoke(c, m, op)
  <2>1. Pending(c) = "nothing" /\ Pending(c)' = op
    BY <1>1 DEF Call, Pending, TypeOK
  <2>2. \A d \in Caller \ {c} : Pending(d)' = Pending(d)
    BY <1>1, PendingFrame DEF Call, TypeOK
  <2>3. ask[c] = "nothing" /\ ask' = [ask EXCEPT ![c] = op]
    BY <2>1, <2>2
  <2> QED
    BY <1>1, <2>3 DEF Call, Service!Invoke
<1>2. ASSUME NEW c \in Caller, StopOf(c) \/ RestartOf(c)
      PROVE  UNCHANGED Service!vars
  <2>1. Pending(c)' = Pending(c)
    BY <1>2 DEF StopOf, RestartOf, Enter, Pending, TypeOK
  <2>2. \A d \in Caller \ {c} : Pending(d)' = Pending(d)
    BY <1>2, PendingFrame DEF StopOf, RestartOf, Enter, LockInv, TypeOK
  <2>3. ask' = ask
    BY <2>1, <2>2
  <2> QED
    BY <1>2, <2>3 DEF StopOf, RestartOf, Enter, Service!vars
<1>3. ASSUME NEW c \in Caller, Leave(c)
      PROVE  Service!Return(c)
  <2>1. Pending(c) = "done" /\ Pending(c)' = "nothing"
    BY <1>3 DEF Leave, Pending, TypeOK
  <2>2. \A d \in Caller \ {c} : Pending(d)' = Pending(d)
    BY <1>3, PendingFrame DEF Leave, TypeOK
  <2>3. ask[c] = "done" /\ ask' = [ask EXCEPT ![c] = "nothing"]
    BY <2>1, <2>2
  <2> QED
    BY <1>3, <2>3 DEF Leave, Service!Return
<1>4. ASSUME NEW m \in Member, Routine(m)
      PROVE  Service!Next \/ UNCHANGED Service!vars
  BY <1>4, RoutinePromise
<1>5. ASSUME UNCHANGED <<pc, whom>>, \A c \in Caller : pc[c] = "locked" => UNCHANGED routine
      PROVE  ask' = ask
  <2>1. \A c \in Caller : Pending(c)' = Pending(c)
    BY <1>5, PendingFrame
  <2> QED
    BY <2>1
<1>6. ASSUME NEW m \in Member, FetchMemberStatus(m)
      PROVE  UNCHANGED Service!vars
  <2>1. UNCHANGED <<serving, routine, pc, whom, shut>>
    BY <1>6 DEF FetchMemberStatus, FetchStatus, FetchStatusFails, FetchNoClient,
       FetchHash, FetchHashFails, FetchStore, FetchGoto
  <2> QED
    BY <1>5, <2>1 DEF Service!vars
<1>7. CASE UpdateStart \/ UpdateEnd \/ RootCancel
  BY <1>5, <1>7 DEF UpdateStart, UpdateEnd, RootCancel, Service!vars
<1>8. CASE ShutdownCancel
  <2>1. Service!ShutdownInvoke
    BY <1>5, <1>8 DEF ShutdownCancel, Service!ShutdownInvoke
  <2> QED
    BY <2>1 DEF Service!Next
<1>9. CASE ShutdownEnter
  <2>1. ask' = ask
    BY <1>5, <1>9 DEF ShutdownEnter, LockInv
  <2> QED
    BY <1>9, <2>1 DEF ShutdownEnter, Service!vars
<1>10. CASE ShutdownLeave
  <2>1. Service!ShutdownReturn
    BY <1>5, <1>10 DEF ShutdownLeave, Service!ShutdownReturn
  <2> QED
    BY <2>1 DEF Service!Next
<1> QED
  BY <1>1, <1>2, <1>3, <1>4, <1>6, <1>7, <1>8, <1>9, <1>10
     DEF Next, ClusterStep, Shutdown, Service!Next

(* The cluster implements ClusterService, for every set of members and     *)
(* callers: its calls take effect at one instant, at most once, and status *)
(* updates never touch a server.                                           *)
THEOREM PromiseKept == Spec => KeepsPromise
<1>1. Init => Service!Init
  <2> SUFFICES ASSUME Init PROVE Service!Init
    OBVIOUS
  <2>1. whom \in [Caller -> Member]
    BY TypeInit DEF TypeOK
  <2>2. [c \in Caller |-> Pending(c)] = [c \in Caller |-> "nothing"]
    BY DEF Init, Pending
  <2> QED
    BY <2>1, <2>2 DEF Init, Service!Init
<1>2. TypeOK /\ LockInv /\ [Next]_vars => [Service!Next]_(Service!vars)
  <2>1. UNCHANGED vars => UNCHANGED Service!vars
    BY DEF vars, Service!vars, Pending
  <2> QED
    BY <2>1, PromiseStep
<1> QED
  BY <1>1, <1>2, TypeCorrect, LockInvariant, PTL DEF Spec, KeepsPromise, Service!Spec
=============================================================================
