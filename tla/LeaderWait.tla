----------------------------- MODULE LeaderWait -----------------------------
(***************************************************************************)
(* How a cluster comes up and how it waits for a leader: Start with one    *)
(* Member.Start per member, and Cluster.WaitForLeader with one             *)
(* Member.WaitForLeader per member, with which Start ends and which the    *)
(* holder of the cluster calls again after a Stop or a Restart, as the     *)
(* tests do (cluster/cluster.go, cluster/member.go, cluster_test.go).      *)
(* Elections, servers that fail and the cancellation of rootCtx fall       *)
(* between any two steps of the wait.                                      *)
(*                                                                         *)
(* Raft is external: "lead" is the leader of the latest term, or None, and *)
(* "view" what each server takes for the leader, which may lag behind.     *)
(* The list of members is fixed: possibleLead holds all of them.  Every    *)
(* write of a status sets IsLeader exactly when it sets State to "Leader", *)
(* so State stands for both.                                               *)
(***************************************************************************)
EXTENDS Naturals, FiniteSets

CONSTANTS
    Member,         \* the members of the cluster
    None,           \* no leader: the identifier 0
    EmbeddedClient, \* Config.EmbeddedClient: Status bypasses the sockets
    MaxFaults,      \* bound: failures of servers and clients, cancellation
    MaxElections    \* bound: elections of a leader

ASSUME LeaderAssumption ==
    /\ IsFiniteSet(Member) /\ Member # {}
    /\ None \notin Member
    /\ EmbeddedClient \in BOOLEAN
    /\ MaxFaults \in Nat /\ MaxElections \in Nat

VARIABLES
    up,         \* whether the embedded server of each member runs
    state,      \* Member.status.State, and IsLeader with it
    lead, view, \* the leader, and what each server takes for it
    term,       \* how often a leader was elected
    rootDone,   \* whether rootCtx has been canceled
    cpc,        \* where the holder is: in Start, idle, in WaitForLeader
    result,     \* what the latest WaitForLeader returned
    leadIdx,    \* Cluster.LeadIdx
    wpc,        \* where the goroutine of each member is
    werr,       \* whether a goroutine returned an error
    saw,        \* what Lead() said to each goroutine
    faults,     \* how often something went wrong
    led         \* history: who led, None included, since the wait began

raftVars == <<lead, view, term, led>>
callVars == <<cpc, result, leadIdx>>
waitVars == <<wpc, werr, saw>>
vars == <<up, state, lead, view, term, rootDone, cpc, result, leadIdx, wpc,
          werr, saw, faults, led>>

Leads    == Member \cup {None}
Majority == 2 * Cardinality({m \in Member : up[m]}) > Cardinality(Member)

First == CHOOSE m \in Member : TRUE

(* Start has built the list: every status says Stopped, no server runs,    *)
(* LeadIdx is zero and names the first.                                    *)
Init ==
    /\ up = [m \in Member |-> FALSE]
    /\ state = [m \in Member |-> "Stopped"]
    /\ lead = None
    /\ view = [m \in Member |-> None]
    /\ term = 0
    /\ rootDone = FALSE
    /\ cpc = "starting"
    /\ result = "ok"
    /\ leadIdx = First
    /\ wpc = [m \in Member |-> "start"]
    /\ werr = FALSE
    /\ saw = [m \in Member |-> None]
    /\ faults = 0
    /\ led = {}

-----------------------------------------------------------------------------
(* Raft.  A majority of running servers may elect one of them at any time; *)
(* a server learns of the leader, or gives up on the one it follows; a     *)
(* leader that steps down, or whose server closes, leaves nobody.          *)

NewLead(l) ==
    /\ lead' = l
    /\ led' = IF cpc = "wait" THEN led \cup {l} ELSE {}

Elect(m) ==
    /\ up[m] /\ Majority /\ lead # m
    /\ term < MaxElections
    /\ term' = term + 1
    /\ NewLead(m)
    /\ view' = [view EXCEPT ![m] = m]
    /\ UNCHANGED <<up, state, rootDone, faults>>
    /\ UNCHANGED callVars /\ UNCHANGED waitVars

Learn(m) ==
    /\ up[m] /\ lead # None /\ view[m] # lead
    /\ view' = [view EXCEPT ![m] = lead]
    /\ UNCHANGED <<up, state, lead, term, led, rootDone, faults>>
    /\ UNCHANGED callVars /\ UNCHANGED waitVars

GiveUp(m) ==
    /\ up[m] /\ view[m] # None
    /\ view' = [view EXCEPT ![m] = None]
    /\ NewLead(IF lead = m THEN None ELSE lead)
    /\ UNCHANGED <<up, state, term, rootDone, faults>>
    /\ UNCHANGED callVars /\ UNCHANGED waitVars

(* The server of m runs no more.  What it last took for the leader stays   *)
(* readable.                                                               *)
Closes(m) ==
    /\ up' = [up EXCEPT ![m] = FALSE]
    /\ NewLead(IF lead = m THEN None ELSE lead)
    /\ UNCHANGED <<view, term>>

(* Something goes wrong, at most MaxFaults times.                          *)
Fault == faults < MaxFaults /\ faults' = faults + 1

(* A server stops by itself: the status goes on saying what it said.       *)
ServerDies(m) ==
    /\ up[m] /\ cpc # "starting"
    /\ Fault
    /\ Closes(m)
    /\ UNCHANGED <<state, rootDone>>
    /\ UNCHANGED callVars /\ UNCHANGED waitVars

-----------------------------------------------------------------------------
(* Member.Start: the server runs, or not, and is ready once it has         *)
(* published itself through a leader; until then it may fail or stop.      *)

StartEtcd(m) ==
    /\ wpc[m] = "start"
    /\ up' = [up EXCEPT ![m] = TRUE]
    /\ wpc' = [wpc EXCEPT ![m] = "ready"]
    /\ UNCHANGED <<state, rootDone, werr, saw, faults>>
    /\ UNCHANGED raftVars /\ UNCHANGED callVars

(* StartEtcd returns an error, or srv.Err and StopNotify come first: with  *)
(* srv.Err the server may run on.                                          *)
StartFails(m) ==
    /\ wpc[m] \in {"start", "ready"}
    /\ wpc' = [wpc EXCEPT ![m] = "done"]
    /\ werr' = TRUE
    /\ Fault
    /\ Closes(m) \/ (UNCHANGED up /\ UNCHANGED raftVars)
    /\ UNCHANGED <<state, rootDone, saw>>
    /\ UNCHANGED callVars

(* The server reaches the leader, and the leader a majority.               *)
Reaches(m) == up[m] /\ lead # None /\ view[m] = lead /\ Majority

Ready(m) ==
    /\ wpc[m] = "ready"
    /\ Reaches(m)
    /\ wpc' = [wpc EXCEPT ![m] = "done"]
    /\ state' = [state EXCEPT ![m] = "Follower"]
    /\ UNCHANGED <<up, rootDone, werr, saw, faults>>
    /\ UNCHANGED raftVars /\ UNCHANGED callVars

(* All goroutines of the holder's call have returned.                      *)
JoinedAny == \E m \in Member : wpc[m] = "done"

Joined == \A m \in Member : wpc[m] = "done"

(* Start returns nil and the error: nobody holds the cluster any more.     *)
StartReturnsError ==
    /\ cpc = "starting" /\ Joined /\ werr
    /\ cpc' = "failed"
    /\ UNCHANGED <<up, state, rootDone, result, leadIdx, faults>>
    /\ UNCHANGED raftVars /\ UNCHANGED waitVars

-----------------------------------------------------------------------------
(* Cluster.WaitForLeader: one goroutine per member, then a scan of the     *)
(* statuses under mmu.                                                     *)

WaitBegin ==
    /\ (cpc = "starting" /\ ~werr) \/ cpc = "idle"
    /\ Joined
    /\ cpc' = "wait"
    /\ result' = "ok"
    /\ wpc' = [m \in Member |-> "check"]
    /\ led' = {lead}
    /\ UNCHANGED <<up, state, lead, view, term, rootDone, leadIdx, werr, saw, faults>>

(* The goroutine of m moves on, with what Lead() said.                     *)
WaitGoto(m, from, to, l) ==
    /\ wpc[m] = from
    /\ wpc' = [wpc EXCEPT ![m] = to]
    /\ saw' = [saw EXCEPT ![m] = l]
    /\ UNCHANGED <<up, rootDone>>
    /\ UNCHANGED raftVars /\ UNCHANGED callVars

(* A stopped member is not waited for.                                     *)
WaitCheckAll(m) ==
    /\ WaitGoto(m, "check", "get", None)
    /\ UNCHANGED <<state, werr, faults>>

WaitCheck(m) ==
    /\ WaitGoto(m, "check", IF state[m] = "Stopped" THEN "done" ELSE "get", None)
    /\ UNCHANGED <<state, werr, faults>>

WaitNoClient(m) ==
    /\ state[m] # "Stopped"
    /\ WaitGoto(m, "check", "done", None)
    /\ Fault
    /\ werr' = TRUE
    /\ UNCHANGED state

(* The linearizable Get is repeated until it succeeds.                     *)
WaitGetLocal(m) ==
    /\ up[m] /\ ~rootDone
    /\ WaitGoto(m, "get", "poll", None)
    /\ UNCHANGED <<state, werr, faults>>

WaitGet(m) ==
    /\ Reaches(m) /\ ~rootDone
    /\ WaitGoto(m, "get", "poll", None)
    /\ UNCHANGED <<state, werr, faults>>

(* Lead() is asked until it names a member, of a server that runs.         *)
WaitPoll(m) ==
    /\ up[m] /\ view[m] # None
    /\ WaitGoto(m, "poll", "ask", view[m])
    /\ UNCHANGED <<state, werr, faults>>

(* Status answers, in process from a closed server too, and what it says   *)
(* of the leader becomes the status.  The wait ends when Lead() had said   *)
(* the same.                                                               *)
WaitStatus(m) ==
    /\ EmbeddedClient \/ (up[m] /\ ~rootDone)
    /\ WaitGoto(m, "ask", IF view[m] = saw[m] THEN "done" ELSE "poll", None)
    /\ state' = [state EXCEPT ![m] = IF view[m] = m THEN "Leader" ELSE "Follower"]
    /\ UNCHANGED <<werr, faults>>

(* Over the sockets it fails with the server or rootCtx, or for a fault.   *)
WaitStatusFails(m) ==
    /\ ~EmbeddedClient
    /\ WaitGoto(m, "ask", "poll", None)
    /\ ((~up[m] \/ rootDone) /\ UNCHANGED faults) \/ Fault
    /\ UNCHANGED <<state, werr>>

WaitReturn(r, i) ==
    /\ cpc = "wait" /\ Joined
    /\ cpc' = "idle"
    /\ result' = r
    /\ leadIdx' = i
    /\ werr' = FALSE
    /\ led' = {}
    /\ UNCHANGED <<up, state, lead, view, term, rootDone, wpc, saw, faults>>

WaitError == werr /\ WaitReturn("error", leadIdx)

Claims == {m \in Member : state[m] = "Leader"}

(* Whoever claims to lead is the leader; with no claim LeadIdx stays what  *)
(* it was; with two it names the first of them and an error is returned.   *)
WaitScanRaft == ~werr /\ WaitReturn("ok", lead)

WaitScan ==
    /\ ~werr
    /\ \/ Claims = {} /\ WaitReturn("ok", leadIdx)
       \/ \E m \in Claims :
             WaitReturn(IF Claims = {m} THEN "ok" ELSE "duplicate", m)

-----------------------------------------------------------------------------
(* The holder's Stop and Restart, and the cancellation of rootCtx.         *)

Stop(m) ==
    /\ cpc = "idle" /\ state[m] # "Stopped"
    /\ state' = [state EXCEPT ![m] = "Stopped"]
    /\ Closes(m)
    /\ UNCHANGED <<rootDone, faults>>
    /\ UNCHANGED callVars /\ UNCHANGED waitVars

Restart(m) ==
    /\ cpc = "idle" /\ state[m] = "Stopped"
    /\ up' = [up EXCEPT ![m] = TRUE]
    /\ state' = [state EXCEPT ![m] = "Follower"]
    /\ view' = [view EXCEPT ![m] = None]
    /\ UNCHANGED <<lead, term, led, rootDone, faults>>
    /\ UNCHANGED callVars /\ UNCHANGED waitVars

Cancel ==
    /\ ~rootDone
    /\ Fault
    /\ rootDone' = TRUE
    /\ UNCHANGED <<up, state>>
    /\ UNCHANGED raftVars /\ UNCHANGED callVars /\ UNCHANGED waitVars

-----------------------------------------------------------------------------
Goroutine(m) ==
    \/ StartEtcd(m) \/ StartFails(m)   \/ Ready(m)
    \/ WaitCheck(m) \/ WaitNoClient(m) \/ WaitGet(m) \/ WaitPoll(m)
    \/ WaitStatus(m) \/ WaitStatusFails(m)

(* What Start and WaitForLeader do when their goroutines have returned.    *)
Return == StartReturnsError \/ (cpc = "starting" /\ WaitBegin) \/ WaitError \/ WaitScan

(* What happens to the servers from outside the cluster's code.            *)
Server(m) == Elect(m) \/ Learn(m) \/ GiveUp(m) \/ ServerDies(m)

Next ==
    \/ \E m \in Member : Goroutine(m) \/ Server(m)
    \/ \E m \in Member : Stop(m) \/ Restart(m)
    \/ Return \/ WaitBegin \/ Cancel

Spec == Init /\ [][Next]_vars

(***************************************************************************)
(* Every goroutine that can run does.  Nobody has to call or cancel        *)
(* anything, and what raft does is left open.                              *)
(***************************************************************************)
Fairness ==
    /\ \A m \in Member : WF_vars(Goroutine(m))
    /\ WF_vars(Return)

FairSpec == Spec /\ Fairness

-----------------------------------------------------------------------------
(* Every variable keeps its type.                                          *)
TypeOK ==
    /\ up \in [Member -> BOOLEAN]
    /\ state \in [Member -> {"Stopped", "Follower", "Leader"}]
    /\ lead \in Leads
    /\ view \in [Member -> Leads]
    /\ term \in 0 .. MaxElections
    /\ rootDone \in BOOLEAN
    /\ cpc \in {"starting", "failed", "idle", "wait"}
    /\ result \in {"ok", "duplicate", "error"}
    /\ leadIdx \in Member
    /\ wpc \in [Member -> {"start", "ready", "check", "get", "poll", "ask", "done"}]
    /\ werr \in BOOLEAN
    /\ saw \in [Member -> Leads]
    /\ faults \in 0 .. MaxFaults
    /\ led \subseteq Leads

(***************************************************************************)
(* A wait that finds a leader finds one that was in office while it        *)
(* waited, however late the servers learned of elections: a deposed leader *)
(* that does not know it yet is never named, for the linearizable Get of   *)
(* every member comes before its answers are believed                      *)
(* (Member.WaitForLeader, Cluster.WaitForLeader).                          *)
(***************************************************************************)
LeadIsRecent ==
    [][cpc = "wait" /\ cpc' = "idle" /\ leadIdx' # leadIdx => leadIdx' \in led]_vars

(***************************************************************************)
(* A wait during which the leader did not change names that leader, and    *)
(* does not report a duplicate: LeadIdx is left from before only when      *)
(* there was an election, or nobody in office, meanwhile                   *)
(* (Cluster.WaitForLeader).                                                *)
(***************************************************************************)
WaitNamesLeader ==
    [][cpc = "wait" /\ cpc' = "idle" /\ result' # "error" /\ led = {lead} /\ lead # None
         => result' = "ok" /\ leadIdx' = lead]_vars

(* All that a wait needs to end: a leader every running server knows, and  *)
(* a running server for every member that is not stopped.                  *)
Settled ==
    /\ ~rootDone
    /\ Majority /\ lead # None
    /\ \A m \in Member : up[m] => view[m] = lead
    /\ \A m \in Member : state[m] # "Stopped" => up[m]

(***************************************************************************)
(* Once a leader is settled on, Start and WaitForLeader return, with or    *)
(* without an error, also when other members failed to start: a majority   *)
(* is all that Member.Start needs to be ready (cluster.go:213,             *)
(* cluster.go:419).                                                        *)
(***************************************************************************)
WaitEnds == <>[]Settled => []<>(cpc \in {"idle", "failed"})
=============================================================================
