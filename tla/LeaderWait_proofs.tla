-------------------------- MODULE LeaderWait_proofs --------------------------
(***************************************************************************)
(* Proofs about Start and WaitForLeader, for any number of members, any    *)
(* kind of client and any bounds on faults and elections.                  *)
(***************************************************************************)
EXTENDS LeaderWait, TLAPS

(* The inductive invariant behind LeadIsRecent and WaitNamesLeader.  Which *)
(* goroutines run when, and what a server that leads, or merely runs, says *)
(* of itself.                                                              *)
PhaseInv ==
    /\ cpc = "starting" => \A m \in Member :
          /\ wpc[m] \in {"start", "ready", "done"}
          /\ wpc[m] = "done" => werr \/ state[m] # "Stopped"
    /\ cpc = "wait" => \A m \in Member : wpc[m] \in {"check", "get", "poll", "ask", "done"}
    /\ cpc \in {"idle", "failed"} => Joined
    /\ cpc \in {"idle", "wait"} => \A m \in Member : up[m] => state[m] # "Stopped"
    /\ lead # None => up[lead] /\ view[lead] = lead

(* What has been learned since the wait began is not older than the wait.  *)
RecentInv ==
    cpc = "wait" =>
        /\ lead \in led
        /\ \A m \in Member :
              /\ wpc[m] \in {"poll", "ask"} => view[m] \in led \cup {None}
              /\ wpc[m] = "done" /\ ~werr /\ state[m] = "Leader" => m \in led
              /\ wpc[m] = "done" /\ ~werr /\ led = {m} => state[m] = "Leader"

IndInv == TypeOK /\ PhaseInv /\ RecentInv

(* Every step keeps the types.                                             *)
LEMMA TypeStep == TypeOK /\ [Next]_vars => TypeOK'
<1> SUFFICES ASSUME TypeOK, [Next]_vars PROVE TypeOK'
    OBVIOUS
<1> USE LeaderAssumption DEF TypeOK, Leads
<1>1. ASSUME NEW m \in Member, StartEtcd(m) PROVE TypeOK'
    BY <1>1 DEF StartEtcd, raftVars, callVars
<1>2. ASSUME NEW m \in Member, StartFails(m) PROVE TypeOK'
  <2>1. CASE Closes(m)
    BY <1>2, <2>1 DEF StartFails, Fault, Closes, NewLead, callVars
  <2>2. CASE UNCHANGED up /\ UNCHANGED raftVars
    BY <1>2, <2>2 DEF StartFails, Fault, raftVars, callVars
  <2> QED
    BY <1>2, <2>1, <2>2 DEF StartFails
<1>3. ASSUME NEW m \in Member, Ready(m) PROVE TypeOK'
    BY <1>3 DEF Ready, Reaches, raftVars, callVars
<1>4. ASSUME NEW m \in Member, WaitCheck(m) PROVE TypeOK'
    BY <1>4 DEF WaitCheck, WaitGoto, raftVars, callVars
<1>5. ASSUME NEW m \in Member, WaitNoClient(m) PROVE TypeOK'
    BY <1>5 DEF WaitNoClient, WaitGoto, Fault, raftVars, callVars
<1>6. ASSUME NEW m \in Member, WaitGet(m) PROVE TypeOK'
    BY <1>6 DEF WaitGet, WaitGoto, Reaches, raftVars, callVars
<1>7. ASSUME NEW m \in Member, WaitPoll(m) PROVE TypeOK'
    BY <1>7 DEF WaitPoll, WaitGoto, raftVars, callVars
<1>8. ASSUME NEW m \in Member, WaitStatus(m) PROVE TypeOK'
    BY <1>8 DEF WaitStatus, WaitGoto, raftVars, callVars
<1>9. ASSUME NEW m \in Member, WaitStatusFails(m) PROVE TypeOK'
    BY <1>9 DEF WaitStatusFails, WaitGoto, Fault, raftVars, callVars
<1>10. ASSUME NEW m \in Member, Elect(m) PROVE TypeOK'
    BY <1>10 DEF Elect, NewLead, callVars, waitVars
<1>11. ASSUME NEW m \in Member, Learn(m) PROVE TypeOK'
    BY <1>11 DEF Learn, callVars, waitVars
<1>12. ASSUME NEW m \in Member, GiveUp(m) PROVE TypeOK'
    BY <1>12 DEF GiveUp, NewLead, callVars, waitVars
<1>13. ASSUME NEW m \in Member, ServerDies(m) PROVE TypeOK'
    BY <1>13 DEF ServerDies, Fault, Closes, NewLead, callVars, waitVars
<1>14. ASSUME NEW m \in Member, Stop(m) PROVE TypeOK'
    BY <1>14 DEF Stop, Closes, NewLead, callVars, waitVars
<1>15. ASSUME NEW m \in Member, Restart(m) PROVE TypeOK'
    BY <1>15 DEF Restart, callVars, waitVars
<1>16. CASE StartReturnsError
    BY <1>16 DEF StartReturnsError, raftVars, waitVars
<1>17. CASE WaitBegin
    BY <1>17 DEF WaitBegin
<1>18. CASE WaitError
    BY <1>18 DEF WaitError, WaitReturn
<1>19. CASE WaitScan
    BY <1>19 DEF WaitScan, WaitReturn, Claims
<1>20. CASE Cancel
    BY <1>20 DEF Cancel, Fault, raftVars, callVars, waitVars
<1>21. CASE UNCHANGED vars
    BY <1>21 DEF vars
<1> QED
    BY <1>1, <1>2, <1>3, <1>4, <1>5, <1>6, <1>7, <1>8, <1>9, <1>10, <1>11, <1>12, <1>13, <1>14, <1>15, <1>16, <1>17, <1>18, <1>19, <1>20, <1>21 DEF Next, Goroutine, Return, Server

(* Every step keeps the phases of Start and of the wait apart.             *)
LEMMA PhaseStep == TypeOK /\ PhaseInv /\ [Next]_vars => PhaseInv'
<1> SUFFICES ASSUME TypeOK, PhaseInv, [Next]_vars PROVE PhaseInv'
    OBVIOUS
<1> USE LeaderAssumption DEF TypeOK, Leads, PhaseInv, Joined
<1>1. ASSUME NEW m \in Member, StartEtcd(m) PROVE PhaseInv'
    BY <1>1 DEF StartEtcd, raftVars, callVars
<1>2. ASSUME NEW m \in Member, StartFails(m) PROVE PhaseInv'
    BY <1>2 DEF StartFails, Fault, Closes, NewLead, raftVars, callVars
<1>3. ASSUME NEW m \in Member, Ready(m) PROVE PhaseInv'
    BY <1>3 DEF Ready, Reaches, raftVars, callVars
<1>4. ASSUME NEW m \in Member, WaitCheck(m) PROVE PhaseInv'
    BY <1>4 DEF WaitCheck, WaitGoto, raftVars, callVars
<1>5. ASSUME NEW m \in Member, WaitNoClient(m) PROVE PhaseInv'
    BY <1>5 DEF WaitNoClient, WaitGoto, Fault, raftVars, callVars
<1>6. ASSUME NEW m \in Member, WaitGet(m) PROVE PhaseInv'
    BY <1>6 DEF WaitGet, WaitGoto, Reaches, raftVars, callVars
<1>7. ASSUME NEW m \in Member, WaitPoll(m) PROVE PhaseInv'
    BY <1>7 DEF WaitPoll, WaitGoto, raftVars, callVars
<1>8. ASSUME NEW m \in Member, WaitStatus(m) PROVE PhaseInv'
    BY <1>8 DEF WaitStatus, WaitGoto, raftVars, callVars
<1>9. ASSUME NEW m \in Member, WaitStatusFails(m) PROVE PhaseInv'
    BY <1>9 DEF WaitStatusFails, WaitGoto, Fault, raftVars, callVars
<1>10. ASSUME NEW m \in Member, Elect(m) PROVE PhaseInv'
    BY <1>10 DEF Elect, NewLead, callVars, waitVars
<1>11. ASSUME NEW m \in Member, Learn(m) PROVE PhaseInv'
    BY <1>11 DEF Learn, callVars, waitVars
<1>12. ASSUME NEW m \in Member, GiveUp(m) PROVE PhaseInv'
    BY <1>12 DEF GiveUp, NewLead, callVars, waitVars
<1>13. ASSUME NEW m \in Member, ServerDies(m) PROVE PhaseInv'
    BY <1>13 DEF ServerDies, Fault, Closes, NewLead, callVars, waitVars
<1>14. ASSUME NEW m \in Member, Stop(m) PROVE PhaseInv'
    BY <1>14 DEF Stop, Closes, NewLead, callVars, waitVars
<1>15. ASSUME NEW m \in Member, Restart(m) PROVE PhaseInv'
    BY <1>15 DEF Restart, callVars, waitVars
<1>16. CASE StartReturnsError
    BY <1>16 DEF StartReturnsError, raftVars, waitVars
<1>17. CASE WaitBegin
    BY <1>17 DEF WaitBegin
<1>18. CASE WaitError
    BY <1>18 DEF WaitError, WaitReturn
<1>19. CASE WaitScan
    BY <1>19 DEF WaitScan, WaitReturn, Claims
<1>20. CASE Cancel
    BY <1>20 DEF Cancel, Fault, raftVars, callVars, waitVars
<1>21. CASE UNCHANGED vars
    BY <1>21 DEF vars
<1> QED
    BY <1>1, <1>2, <1>3, <1>4, <1>5, <1>6, <1>7, <1>8, <1>9, <1>10, <1>11, <1>12, <1>13, <1>14, <1>15, <1>16, <1>17, <1>18, <1>19, <1>20, <1>21 DEF Next, Goroutine, Return, Server

(* No step makes a goroutine that has passed its Get older than the wait.  *)
LEMMA RecentStep == IndInv /\ [Next]_vars => RecentInv'
<1> SUFFICES ASSUME IndInv, [Next]_vars PROVE RecentInv'
    OBVIOUS
<1> USE LeaderAssumption DEF IndInv, TypeOK, Leads, PhaseInv, RecentInv, Joined
<1>1. ASSUME NEW m \in Member, StartEtcd(m) PROVE RecentInv'
    BY <1>1 DEF StartEtcd, raftVars, callVars
<1>2. ASSUME NEW m \in Member, StartFails(m) PROVE RecentInv'
    BY <1>2 DEF StartFails, Fault, Closes, NewLead, raftVars, callVars
<1>3. ASSUME NEW m \in Member, Ready(m) PROVE RecentInv'
    BY <1>3 DEF Ready, Reaches, raftVars, callVars
<1>4. ASSUME NEW m \in Member, WaitCheck(m) PROVE RecentInv'
    BY <1>4 DEF WaitCheck, WaitGoto, raftVars, callVars
<1>5. ASSUME NEW m \in Member, WaitNoClient(m) PROVE RecentInv'
    BY <1>5 DEF WaitNoClient, WaitGoto, Fault, raftVars, callVars
<1>6. ASSUME NEW m \in Member, WaitGet(m) PROVE RecentInv'
    BY <1>6 DEF WaitGet, WaitGoto, Reaches, raftVars, callVars
<1>7. ASSUME NEW m \in Member, WaitPoll(m) PROVE RecentInv'
    BY <1>7 DEF WaitPoll, WaitGoto, raftVars, callVars
<1>8. ASSUME NEW m \in Member, WaitStatus(m) PROVE RecentInv'
    BY <1>8 DEF WaitStatus, WaitGoto, raftVars, callVars
<1>9. ASSUME NEW m \in Member, WaitStatusFails(m) PROVE RecentInv'
    BY <1>9 DEF WaitStatusFails, WaitGoto, Fault, raftVars, callVars
<1>10. ASSUME NEW m \in Member, Elect(m) PROVE RecentInv'
    BY <1>10 DEF Elect, NewLead, callVars, waitVars
<1>11. ASSUME NEW m \in Member, Learn(m) PROVE RecentInv'
    BY <1>11 DEF Learn, callVars, waitVars
<1>12. ASSUME NEW m \in Member, GiveUp(m) PROVE RecentInv'
    BY <1>12 DEF GiveUp, NewLead, callVars, waitVars
<1>13. ASSUME NEW m \in Member, ServerDies(m) PROVE RecentInv'
    BY <1>13 DEF ServerDies, Fault, Closes, NewLead, callVars, waitVars
<1>14. ASSUME NEW m \in Member, Stop(m) PROVE RecentInv'
    BY <1>14 DEF Stop, Closes, NewLead, callVars, waitVars
<1>15. ASSUME NEW m \in Member, Restart(m) PROVE RecentInv'
    BY <1>15 DEF Restart, callVars, waitVars
<1>16. CASE StartReturnsError
    BY <1>16 DEF StartReturnsError, raftVars, waitVars
<1>17. CASE WaitBegin
    BY <1>17 DEF WaitBegin
<1>18. CASE WaitError
    BY <1>18 DEF WaitError, WaitReturn
<1>19. CASE WaitScan
    BY <1>19 DEF WaitScan, WaitReturn, Claims
<1>20. CASE Cancel
    BY <1>20 DEF Cancel, Fault, raftVars, callVars, waitVars
<1>21. CASE UNCHANGED vars
    BY <1>21 DEF vars
<1> QED
    BY <1>1, <1>2, <1>3, <1>4, <1>5, <1>6, <1>7, <1>8, <1>9, <1>10, <1>11, <1>12, <1>13, <1>14, <1>15, <1>16, <1>17, <1>18, <1>19, <1>20, <1>21 DEF Next, Goroutine, Return, Server

(* The parts together.                                                     *)
LEMMA Inductive == IndInv /\ [Next]_vars => IndInv'
  BY TypeStep, PhaseStep, RecentStep DEF IndInv

LEMMA Initially == Init => IndInv
<1> SUFFICES ASSUME Init PROVE IndInv
    OBVIOUS
<1>1. First \in Member
  BY LeaderAssumption DEF First
<1>2. TypeOK
  <2>1. term \in 0 .. MaxElections /\ faults \in 0 .. MaxFaults
    BY LeaderAssumption DEF Init
  <2>2. up \in [Member -> BOOLEAN] /\ rootDone \in BOOLEAN /\ werr \in BOOLEAN
    BY DEF Init
  <2>3. state \in [Member -> {"Stopped", "Follower", "Leader"}]
    BY DEF Init
  <2>4. wpc \in [Member -> {"start", "ready", "check", "get", "poll", "ask", "done"}]
    BY DEF Init
  <2>5. view \in [Member -> Leads] /\ saw \in [Member -> Leads] /\ lead \in Leads
    BY DEF Init, Leads
  <2> QED
    BY <1>1, <2>1, <2>2, <2>3, <2>4, <2>5 DEF Init, TypeOK
<1>3. PhaseInv /\ RecentInv
  BY DEF Init, PhaseInv, RecentInv
<1> QED
  BY <1>2, <1>3 DEF IndInv

(***************************************************************************)
(* The inductive invariant holds of Start and of every wait after it.      *)
(***************************************************************************)
THEOREM IndInvHolds == Spec => []IndInv
  BY Initially, Inductive, PTL DEF Spec

(***************************************************************************)
(* The variables of Start and WaitForLeader keep their types.              *)
(***************************************************************************)
THEOREM TypesHold == Spec => []TypeOK
<1>1. IndInv => TypeOK
  BY DEF IndInv
<1> QED
  BY <1>1, IndInvHolds, PTL

(* A step that ends a wait is its scan, or reports an error and leaves     *)
(* LeadIdx alone.                                                          *)
LEMMA WaitOver ==
    ASSUME IndInv, [Next]_vars, cpc = "wait", cpc' = "idle"
    PROVE  WaitScan \/ WaitError
<1> USE DEF IndInv, TypeOK
<1>1. ASSUME NEW m \in Member, Goroutine(m) \/ Server(m) \/ Stop(m) \/ Restart(m) PROVE FALSE
  <2>1. cpc' = cpc
    <3>1. CASE Goroutine(m)
      BY <3>1 DEF Goroutine, callVars, StartEtcd, StartFails, Ready, WaitCheck, WaitNoClient,
                  WaitGet, WaitPoll, WaitStatus, WaitStatusFails, WaitGoto
    <3>2. CASE Server(m)
      BY <3>2 DEF Server, callVars, Elect, Learn, GiveUp, ServerDies
    <3> QED
      BY <1>1, <3>1, <3>2 DEF callVars, Stop, Restart
  <2> QED
    BY <2>1
<1>2. ~StartReturnsError /\ ~WaitBegin /\ ~Cancel /\ ~UNCHANGED vars
  BY DEF StartReturnsError, WaitBegin, Cancel, vars, callVars
<1> QED
  BY <1>1, <1>2 DEF Next, Return

(***************************************************************************)
(* Whoever a wait names led while it waited: a deposed leader that does    *)
(* not know it yet is never taken for the leader, with any number of       *)
(* members and elections (Member.WaitForLeader, Cluster.WaitForLeader).    *)
(***************************************************************************)
THEOREM LeadIsRecentHolds == Spec => LeadIsRecent
<1>1. ASSUME IndInv, [Next]_vars, cpc = "wait", cpc' = "idle", leadIdx' # leadIdx
      PROVE  leadIdx' \in led
  <2>1. WaitScan
    BY <1>1, WaitOver DEF WaitError, WaitReturn
  <2>2. PICK m \in Claims : leadIdx' = m
    BY <1>1, <2>1 DEF WaitScan, WaitReturn
  <2> QED
    BY <1>1, <2>1, <2>2 DEF WaitScan, WaitReturn, Claims, Joined, IndInv, RecentInv
<1>2. IndInv /\ [Next]_vars =>
        [cpc = "wait" /\ cpc' = "idle" /\ leadIdx' # leadIdx => leadIdx' \in led]_vars
  BY <1>1
<1> QED
  BY <1>2, IndInvHolds, PTL DEF Spec, LeadIsRecent

(***************************************************************************)
(* A wait during which the leader stayed the same names it and reports no  *)
(* duplicate (Cluster.WaitForLeader).                                      *)
(***************************************************************************)
THEOREM WaitNamesLeaderHolds == Spec => WaitNamesLeader
<1>1. ASSUME IndInv, [Next]_vars, cpc = "wait", cpc' = "idle", result' # "error",
             led = {lead}, lead # None
      PROVE  result' = "ok" /\ leadIdx' = lead
  <2>1. WaitScan
    BY <1>1, WaitOver DEF WaitError, WaitReturn
  <2>2. ~werr /\ Joined
    BY <2>1 DEF WaitScan, WaitReturn
  <2>3. lead \in Member
    BY <1>1 DEF IndInv, TypeOK, Leads
  <2>4. Claims = {lead}
    BY <1>1, <2>2, <2>3 DEF Claims, Joined, IndInv, RecentInv
  <2> QED
    BY <2>1, <2>4 DEF WaitScan, WaitReturn
<1>2. IndInv /\ [Next]_vars =>
        [cpc = "wait" /\ cpc' = "idle" /\ result' # "error" /\ led = {lead} /\ lead # None
           => result' = "ok" /\ leadIdx' = lead]_vars
  BY <1>1
<1> QED
  BY <1>2, IndInvHolds, PTL DEF Spec, WaitNamesLeader
=============================================================================
