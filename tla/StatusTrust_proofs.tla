-------------------------- MODULE StatusTrust_proofs --------------------------
(***************************************************************************)
(* Theorems about StatusTrust, for every set of members and callers, with  *)
(* and without the embedded client, and however many fetches fail: what a  *)
(* status that is not suspect says of its server, and what Shutdown        *)
(* closes.                                                                 *)
(***************************************************************************)
EXTENDS StatusTrust, MemberOps_proofs

(* The inductive invariant behind the two, in named parts, beside LockInv. *)

HTypeOK == TypeOK /\ overlap \subseteq Member /\ suspect \subseteq Member

(* What the status of a member says at each point of its routine.          *)
StatusInv ==
    \A m \in Member :
        /\ routine[m] = "restartMark" => serving[m] = "up"
        /\ m \notin suspect =>
              /\ routine[m] = "stopClose" => state[m] = "Stopped"
              /\ routine[m] \notin {"stopClose", "restartMark"} => Agrees(m)

(* A clean fetch knows the truth about its member.                         *)
CleanFetch ==
    \A m \in Member \ overlap : fetch[m] # "idle" =>
        /\ routine[m] = "idle"
        /\ ~rootDone
        /\ fetch[m] = "store" => (got[m] = "Stopped" <=> serving[m] = "down")

(* The members Shutdown is done with are closed.                           *)
ShutdownInv ==
    /\ shut # "no" => rootDone
    /\ shut = "stopping" => \A m \in Member \ suspect :
          routine[m] = "idle" => serving[m] = "down"

IndInv == HTypeOK /\ LockInv /\ StatusInv /\ CleanFetch /\ ShutdownInv

-----------------------------------------------------------------------------
(* What the history variables record of one member.                        *)
LEMMA TrackAt ==
    ASSUME Track, NEW n \in Member
    PROVE  /\ n \in overlap' <=> fetch'[n] # "idle" /\ (n \in overlap \/ Disturbed(n))
           /\ n \in suspect' <=> IF FetchWrites(n) THEN n \in overlap
                                                 ELSE n \in suspect /\ ~OpWrites(n)
  BY DEF Track

(* The steps that matter to a status: an operation's, on the member it     *)
(* operates on; the store of a fetch; and those that begin a routine.      *)
LEMMA StatusStep == IndInv /\ HNext => StatusInv'
<1> SUFFICES ASSUME IndInv, Next, Track, NEW n \in Member PROVE
        /\ routine'[n] = "restartMark" => serving'[n] = "up"
        /\ n \notin suspect' =>
              /\ routine'[n] = "stopClose" => state'[n] = "Stopped"
              /\ routine'[n] \notin {"stopClose", "restartMark"} => Agrees(n)'
  BY DEF HNext, StatusInv, Agrees
<1> USE DEF Agrees
<1>0. TypeOK /\ LockInv /\ StatusInv /\ CleanFetch
  BY DEF IndInv, HTypeOK
<1>1. n \in suspect' <=> IF FetchWrites(n) THEN n \in overlap
                                          ELSE n \in suspect /\ ~OpWrites(n)
  BY TrackAt
<1> DEFINE Goal ==
        /\ routine'[n] = "restartMark" => serving'[n] = "up"
        /\ n \notin suspect' =>
              /\ routine'[n] = "stopClose" => state'[n] = "Stopped"
              /\ routine'[n] \notin {"stopClose", "restartMark"} => Agrees(n)'
<1>2. ASSUME NEW m \in Member, Routine(m)
      PROVE  Goal
  <2>1. CASE m # n
    BY <1>0, <1>1, <1>2, <2>1, RoutineFrame DEF StatusInv, FetchWrites, OpWrites
  <2>2. CASE m = n
    <3>1. ~FetchWrites(n) /\ (n \in suspect' <=> n \in suspect /\ ~OpWrites(n))
      BY <1>0, <1>1, <1>2, <2>2, RoutineFrame DEF FetchWrites
    <3>2. CASE StopCheck(n) \/ RestartCheck(n) \/ RestartError(n)
      BY <1>0, <3>1, <3>2 DEF StopCheck, RestartCheck, RestartError, Goto, OpWrites, StatusInv, TypeOK
    <3>3. CASE StopMark(n) \/ RestartMark(n)
      BY <1>0, <3>1, <3>3 DEF StopMark, RestartMark, Goto, OpWrites, StatusInv, TypeOK
    <3>4. CASE StopClose(n) \/ RestartStart(n)
      BY <1>0, <3>1, <3>4 DEF StopClose, RestartStart, Goto, OpWrites, StatusInv, TypeOK
    <3> QED
      BY <1>2, <2>2, <3>2, <3>3, <3>4 DEF Routine
  <2> QED
    BY <2>1, <2>2
<1>3. ASSUME NEW m \in Member, FetchMemberStatus(m)
      PROVE  Goal
  <2>1. routine'[n] = routine[n] /\ serving'[n] = serving[n] /\ ~OpWrites(n)
    BY <1>0, <1>3, FetchFrame DEF OpWrites
  <2>2. CASE ~FetchWrites(n)
    <3>1. state'[n] = state[n]
      BY <1>0, <1>3, <2>2, FetchFrame DEF FetchWrites, TypeOK, FetchMemberStatus, FetchStatus,
         FetchStatusFails, FetchNoClient, FetchHash, FetchHashFails, FetchStore, FetchGoto
    <3> QED
      BY <1>0, <1>1, <2>1, <2>2, <3>1 DEF StatusInv
  <2>3. CASE FetchWrites(n)
    <3>1. state'[n] = got[n]
      BY <1>0, <1>3, <2>3, FetchFrame DEF FetchWrites, TypeOK, FetchMemberStatus, FetchStatus,
         FetchStatusFails, FetchNoClient, FetchHash, FetchHashFails, FetchStore, FetchGoto
    <3>2. n \notin suspect' => routine[n] = "idle" /\ (got[n] = "Stopped" <=> serving[n] = "down")
      BY <1>0, <1>1, <2>3 DEF CleanFetch, FetchWrites
    <3> QED
      BY <1>0, <2>1, <3>1, <3>2 DEF StatusInv
  <2> QED
    BY <2>2, <2>3
<1>4. CASE \A m \in Member : ~Routine(m) /\ ~FetchMemberStatus(m)
  <2>1. ~FetchWrites(n) /\ ~OpWrites(n)
    BY <1>0, <1>4, OtherFrame DEF FetchWrites, OpWrites
  <2> QED
    BY <1>0, <1>1, <1>4, <2>1, OtherFrame DEF StatusInv
<1> QED
  BY <1>2, <1>3, <1>4

(* A fetch that stays clean sees no operation, no shutdown and no fault,   *)
(* so what it learnt of the server is still true when it stores.           *)
LEMMA CleanFetchStep == IndInv /\ HNext => CleanFetch'
<1> SUFFICES ASSUME IndInv, Next, Track, NEW n \in Member, n \notin overlap', fetch'[n] # "idle"
             PROVE  /\ routine'[n] = "idle"
                    /\ ~rootDone'
                    /\ fetch'[n] = "store" => (got'[n] = "Stopped" <=> serving'[n] = "down")
  BY DEF HNext, CleanFetch
<1>0. TypeOK /\ LockInv /\ CleanFetch
  BY DEF IndInv, HTypeOK
<1>1. n \notin overlap /\ ~Disturbed(n)
  BY TrackAt
<1>2. routine[n] = "idle" /\ routine'[n] = "idle" /\ ~rootDone'
      /\ (faults' = faults \/ fetch'[n] = fetch[n])
  BY <1>1 DEF Disturbed
<1>3. ASSUME fetch'[n] = "store" PROVE got'[n] = "Stopped" <=> serving'[n] = "down"
  <2>1. ASSUME NEW m \in Member, Routine(m)
        PROVE  m # n /\ UNCHANGED <<fetch, got>> /\ serving'[n] = serving[n]
    BY <1>0, <1>2, <2>1, RoutineFrame
  <2>2. ASSUME NEW m \in Member, FetchMemberStatus(m), m # n
        PROVE  fetch'[n] = fetch[n] /\ got'[n] = got[n] /\ serving'[n] = serving[n]
    BY <1>0, <2>2, FetchFrame
  <2>3. CASE FetchMemberStatus(n)
    <3>1. CASE FetchStatusFails(n) \/ FetchHashFails(n)
      <4>1. faults' # faults + 1
        BY <1>0, <1>2, <3>1, FetchFrame, ConfigAssumption DEF FetchMemberStatus, TypeOK
      <4>2. UNCHANGED rootDone
        BY <1>0, <2>3, FetchFrame
      <4> QED
        BY <1>0, <1>2, <3>1, <4>1, <4>2
           DEF FetchStatusFails, FetchHashFails, RpcFails, FetchGoto, TypeOK
    <3>2. CASE FetchHash(n)
      BY <1>0, <3>2 DEF FetchHash, FetchGoto, TypeOK
    <3> QED
      BY <1>0, <1>3, <2>3, <3>1, <3>2 DEF FetchMemberStatus, FetchStatus, FetchNoClient,
         FetchStore, FetchGoto, TypeOK
  <2>4. CASE \A m \in Member : ~Routine(m) /\ ~FetchMemberStatus(m)
    BY <1>0, <1>1, <1>3, <2>4, OtherFrame DEF CleanFetch
  <2> QED
    BY <1>0, <1>1, <1>3, <2>1, <2>2, <2>3, <2>4 DEF CleanFetch
<1> QED
  BY <1>2, <1>3

(* While Shutdown stops the members, only Member.Stop runs on them, and a  *)
(* fetch that writes a status is not a clean one: rootCtx is canceled.     *)
LEMMA ShutdownStep == IndInv /\ HNext => ShutdownInv'
<1> SUFFICES ASSUME IndInv, Next, Track PROVE ShutdownInv'
  BY DEF HNext
<1>0. TypeOK /\ LockInv /\ StatusInv /\ CleanFetch /\ ShutdownInv
  BY DEF IndInv, HTypeOK
<1>1. shut' # "no" => rootDone'
  <2>1. ASSUME NEW m \in Member, Routine(m) \/ FetchMemberStatus(m)
        PROVE  UNCHANGED <<shut, rootDone>>
    BY <1>0, <2>1, RoutineFrame, FetchFrame
  <2> QED
    BY <1>0, <2>1 DEF ShutdownInv, Next, ClusterStep, Call, StopOf, RestartOf, Enter, Leave, UpdateStart, UpdateEnd, RootCancel,
       Shutdown, ShutdownCancel, ShutdownEnter, ShutdownLeave
<1>2. ASSUME shut' = "stopping", NEW n \in Member
      PROVE  n \notin suspect' /\ routine'[n] = "idle" => serving'[n] = "down"
  <2>0. n \in suspect' <=> IF FetchWrites(n) THEN n \in overlap
                                            ELSE n \in suspect /\ ~OpWrites(n)
    BY TrackAt
  <2>1. ASSUME NEW m \in Member, Routine(m), m # n
        PROVE  shut = "stopping" /\ routine'[n] = routine[n] /\ serving'[n] = serving[n]
               /\ ~FetchWrites(n) /\ ~OpWrites(n)
    BY <1>0, <1>2, <2>1, RoutineFrame DEF FetchWrites, OpWrites
  <2>2. CASE Routine(n)
    <3>1. shut = "stopping" /\ ~FetchWrites(n)
      BY <1>0, <1>2, <2>2, RoutineFrame DEF FetchWrites
    <3>2. routine[n] \in StopPlaces
      BY <1>0, <3>1 DEF LockInv
    <3>3. CASE StopCheck(n)
      BY <1>0, <2>0, <3>1, <3>3 DEF StopCheck, Goto, TypeOK, StatusInv, Agrees, OpWrites
    <3>4. CASE StopMark(n) \/ StopClose(n)
      BY <1>0, <3>4 DEF StopMark, StopClose, Goto, TypeOK
    <3> QED
      BY <2>2, <3>2, <3>3, <3>4 DEF StopPlaces, Routine, RestartCheck, RestartStart, RestartError, RestartMark, Goto
  <2>3. ASSUME NEW m \in Member, FetchMemberStatus(m)
        PROVE  /\ shut = "stopping" /\ routine'[n] = routine[n] /\ serving'[n] = serving[n]
               /\ ~OpWrites(n)
               /\ FetchWrites(n) => n \in overlap
    <3>1. shut = "stopping" /\ routine'[n] = routine[n] /\ serving'[n] = serving[n] /\ ~OpWrites(n)
      BY <1>0, <1>2, <2>3, FetchFrame DEF OpWrites
    <3>2. rootDone
      BY <1>0, <3>1 DEF ShutdownInv
    <3> QED
      BY <1>0, <3>1, <3>2 DEF CleanFetch, FetchWrites
  <2>4. CASE ShutdownEnter
    BY <1>0, <2>4 DEF ShutdownEnter
  <2>5. CASE /\ \A m \in Member : ~Routine(m) /\ ~FetchMemberStatus(m)
             /\ ~ShutdownEnter
    <3>1. UNCHANGED <<serving, routine>> /\ shut = "stopping"
      BY <1>0, <1>2, <2>5 DEF Next, ClusterStep, Call, StopOf, RestartOf, Enter, Leave, UpdateStart, UpdateEnd, RootCancel,
         Shutdown, ShutdownCancel, ShutdownLeave, LockInv
    <3>2. ~FetchWrites(n) /\ ~OpWrites(n)
      BY <1>0, <2>5, <3>1, OtherFrame DEF FetchWrites, OpWrites
    <3> QED
      BY <1>0, <2>0, <3>1, <3>2 DEF ShutdownInv
  <2> QED
    BY <1>0, <2>0, <2>1, <2>2, <2>3, <2>4, <2>5 DEF ShutdownInv
<1> QED
  BY <1>1, <1>2 DEF ShutdownInv

-----------------------------------------------------------------------------
(* The history variables only watch.                                       *)
LEMMA HistoryOnly == HSpec => Spec
<1>1. HInit => Init
  BY DEF HInit
<1>2. [HNext]_hvars => [Next]_vars
  BY DEF HNext, hvars, vars
<1> QED
  BY <1>1, <1>2, PTL DEF HSpec, Spec

(* IndInv is an invariant of the specification with history.               *)
LEMMA IndInvariant == HSpec => []IndInv
<1>1. HInit => IndInv
  <2>1. Init => TypeOK /\ LockInv
    BY TypeInit, LockInit
  <2> QED
    BY <2>1 DEF HInit, Init, IndInv, HTypeOK, StatusInv, Agrees, CleanFetch, ShutdownInv
<1>2. IndInv /\ HNext => IndInv'
  <2> SUFFICES ASSUME IndInv, HNext PROVE IndInv'
    OBVIOUS
  <2>1. TypeOK' /\ LockInv'
    BY TypeStep, LockStep DEF IndInv, HTypeOK, HNext
  <2>2. overlap' \subseteq Member /\ suspect' \subseteq Member
    BY DEF HNext, Track
  <2> QED
    BY <2>1, <2>2, StatusStep, CleanFetchStep, ShutdownStep DEF IndInv, HTypeOK
<1>3. IndInv /\ UNCHANGED hvars => IndInv'
  BY DEF hvars, IndInv, HTypeOK, TypeOK, LockInv, StatusInv, Agrees, CleanFetch, ShutdownInv
<1> QED
  BY <1>1, <1>2, <1>3, PTL DEF HSpec

(* A status that no disturbed fetch wrote is right whenever no operation   *)
(* runs on its member.                                                     *)
THEOREM StatusIsTrusted == HSpec => []TrustedStatus
<1>1. IndInv => TrustedStatus
  BY DEF IndInv, StatusInv, TrustedStatus
<1> QED
  BY <1>1, IndInvariant, PTL

(* Shutdown closes the server of every member that is not suspect.         *)
THEOREM ShutdownCloses == HSpec => ShutdownClosesTrusted
<1>1. IndInv /\ [HNext]_hvars =>
        [shut = "stopping" /\ shut' = "done" =>
           \A m \in Member \ suspect : serving[m] = "down"]_hvars
  <2> SUFFICES ASSUME IndInv, Next, shut = "stopping", shut' = "done",
                      NEW m \in Member \ suspect
               PROVE  serving[m] = "down"
    BY DEF HNext
  <2>1. ASSUME NEW n \in Member, Routine(n) \/ FetchMemberStatus(n)
        PROVE  shut' = shut
    BY <2>1, RoutineFrame, FetchFrame DEF IndInv, HTypeOK
  <2>2. ShutdownLeave
    BY <2>1 DEF Next, ClusterStep, Call, StopOf, RestartOf, Enter, Leave, UpdateStart, UpdateEnd, RootCancel,
       Shutdown, ShutdownCancel, ShutdownEnter
  <2> QED
    BY <2>2 DEF ShutdownLeave, IndInv, ShutdownInv
<1> QED
  BY <1>1, IndInvariant, PTL DEF HSpec, ShutdownClosesTrusted
=============================================================================
