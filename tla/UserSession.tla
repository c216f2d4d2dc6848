----------------------------- MODULE UserSession -----------------------------
(***************************************************************************)
(* Who is using the playground: the user cache of the web server           *)
(* (backend/web/handler.go) and the pages that connect, poll the server    *)
(* status and disconnect (frontend/app/play/play.component.ts).            *)
(*                                                                         *)
(* A user is what generateUserID makes of an address and a browser, so     *)
(* several pages may belong to one user.  Requests travel on connections   *)
(* of their own: they overtake each other, and they or their answers may   *)
(* be lost.  Every handler runs in a goroutine of its own and takes the    *)
(* lock of the cache once in withCache and again later, with anything in   *)
(* between.  Time is counted in ticks; requests take any number of them.   *)
(***************************************************************************)
EXTENDS Integers

CONSTANTS
    Page, User, UserOf,     \* the pages, the users, and whose each page is
    Slot,                   \* bound: requests under way at once
    Idle,                   \* cleanCache drops who is silent for longer
    SweepEvery              \* the period of cleanCache

ASSUME SessionAssumption ==
    /\ Page # {}
    /\ UserOf \in [Page -> User]
    /\ Idle \in Nat
    /\ SweepEvery \in Nat \ {0}

VARIABLES
    idle,               \* globalUserCache: ticks since lastActive, or Absent
    sinceSweep,         \* ticks since cleanCache swept
    page,               \* whether the component lives
    active, connected,  \* its playgroundActive and connected
    timers, handle,     \* its intervals, and whether serverStatusHandler is one
    stage, kind, from,  \* where each request is, what it asks and for whom
    says                \* PlaygroundActive in its answer

serverVars == <<idle, sinceSweep>>
pageVars   == <<page, active, connected, timers, handle>>
reqVars    == <<stage, kind, from, says>>
vars       == <<serverVars, pageVars, reqVars>>

Absent == -1
Cached == {u \in User : idle[u] # Absent}
Owner(s) == UserOf[from[s]]

Init ==
    /\ idle = [u \in User |-> Absent]
    /\ sinceSweep = 0
    /\ page = [p \in Page |-> "new"]
    /\ active = [p \in Page |-> FALSE]
    /\ connected = [p \in Page |-> FALSE]
    /\ timers = [p \in Page |-> 0]
    /\ handle = [p \in Page |-> FALSE]
    /\ stage = [s \in Slot |-> "free"]
    /\ kind = [s \in Slot |-> "status"]
    /\ from = [s \in Slot |-> CHOOSE p \in Page : TRUE]
    /\ says = [s \in Slot |-> FALSE]

-----------------------------------------------------------------------------
(* Requests and intervals of a page.                                       *)

Send(s, p, k) ==
    /\ stage' = [stage EXCEPT ![s] = "sent"]
    /\ kind' = [kind EXCEPT ![s] = k]
    /\ from' = [from EXCEPT ![s] = p]
    /\ says' = [says EXCEPT ![s] = FALSE]

Free(s) ==
    /\ stage' = [stage EXCEPT ![s] = "free"]
    /\ kind' = [kind EXCEPT ![s] = "status"]
    /\ from' = [from EXCEPT ![s] = CHOOSE p \in Page : TRUE]
    /\ says' = [says EXCEPT ![s] = FALSE]

ClearBlindly(p) ==
    /\ timers' = [timers EXCEPT ![p] = @ - 1]
    /\ handle' = [handle EXCEPT ![p] = FALSE]

(* clearInterval(this.serverStatusHandler) does nothing the second time.   *)
ClearInterval(p) ==
    /\ timers' = [timers EXCEPT ![p] = IF handle[p] THEN @ - 1 ELSE @]
    /\ handle' = [handle EXCEPT ![p] = FALSE]

(* clickConnect past its early return.  The interval of a handle that is   *)
(* overwritten runs on.                                                    *)
Connect(p, s) ==
    /\ stage[s] = "free"
    /\ ~active[p]
    /\ active' = [active EXCEPT ![p] = TRUE]
    /\ connected' = [connected EXCEPT ![p] = TRUE]
    /\ timers' = [timers EXCEPT ![p] = @ + 1]
    /\ handle' = [handle EXCEPT ![p] = TRUE]
    /\ Send(s, p, "connect")

-----------------------------------------------------------------------------
(* The page.  Its buttons are shown by "connected", its handlers go by     *)
(* "playgroundActive".                                                     *)

Open(p, s) ==
    /\ page[p] = "new"
    /\ Connect(p, s)
    /\ page' = [page EXCEPT ![p] = "open"]
    /\ UNCHANGED serverVars

ClickConnect(p, s) ==
    /\ page[p] = "open"
    /\ ~connected[p]
    /\ Connect(p, s)
    /\ UNCHANGED <<serverVars, page>>

ClickDisconnect(p, s) ==
    /\ page[p] = "open"
    /\ connected[p]
    /\ active[p]
    /\ stage[s] = "free"
    /\ active' = [active EXCEPT ![p] = FALSE]
    /\ connected' = [connected EXCEPT ![p] = FALSE]
    /\ ClearInterval(p)
    /\ Send(s, p, "disconnect")
    /\ UNCHANGED <<serverVars, page>>

LeaveTimerOn(p, s) ==
    /\ page[p] = "open"
    /\ stage[s] = "free"
    /\ page' = [page EXCEPT ![p] = "left"]
    /\ Send(s, p, "disconnect")
    /\ UNCHANGED <<serverVars, active, connected, timers, handle>>

(* ngOnDestroy.  Answers still under way will find the component all the   *)
(* same: nothing unsubscribes it.                                          *)
Leave(p, s) ==
    /\ page[p] = "open"
    /\ stage[s] = "free"
    /\ page' = [page EXCEPT ![p] = "left"]
    /\ ClearInterval(p)
    /\ Send(s, p, "disconnect")
    /\ UNCHANGED <<serverVars, active, connected>>

(* An interval fires: getServerStatus.                                     *)
Poll(p, s) ==
    /\ timers[p] > 0
    /\ stage[s] = "free"
    /\ Send(s, p, "status")
    /\ UNCHANGED <<serverVars, pageVars>>

(* processClientRequest past its early return.                             *)
Submit(p, s) ==
    /\ page[p] = "open"
    /\ active[p]
    /\ stage[s] = "free"
    /\ Send(s, p, "client")
    /\ UNCHANGED <<serverVars, pageVars>>

ReplyTimerOn(s) ==
    /\ stage[s] = "answered"
    /\ kind[s] = "status"
    /\ active' = [active EXCEPT ![from[s]] = says[s]]
    /\ IF says[s] THEN Free(s) ELSE Send(s, from[s], "disconnect")
    /\ UNCHANGED <<serverVars, page, connected, timers, handle>>

(* processServerStatusResponse; the request it may send takes the place of *)
(* the one that is over.                                                   *)
StatusReply(s) ==
    /\ stage[s] = "answered"
    /\ kind[s] = "status"
    /\ active' = [active EXCEPT ![from[s]] = says[s]]
    /\ IF says[s]
       THEN Free(s) /\ UNCHANGED <<timers, handle>>
       ELSE Send(s, from[s], "disconnect") /\ ClearInterval(from[s])
    /\ UNCHANGED <<serverVars, page, connected>>

(* The answers to the other requests change nothing told apart here.       *)
OtherReply(s) ==
    /\ stage[s] = "answered"
    /\ kind[s] # "status"
    /\ Free(s)
    /\ UNCHANGED <<serverVars, pageVars>>

(* A request or an answer is lost: the page notes the error and no more.   *)
Lose(s) ==
    /\ stage[s] \in {"sent", "answered"}
    /\ Free(s)
    /\ UNCHANGED <<serverVars, pageVars>>

-----------------------------------------------------------------------------
(* The server.                                                             *)

ToStage(s, a, b) ==
    /\ stage[s] = a
    /\ stage' = [stage EXCEPT ![s] = b]
    /\ UNCHANGED <<sinceSweep, pageVars, kind, from>>

WithCache(s) ==
    /\ ToStage(s, "sent", "cached")
    /\ idle' = [idle EXCEPT ![Owner(s)] = IF @ = Absent THEN 0 ELSE @]
    /\ UNCHANGED says

(* connectHandler, for GET and for DELETE, and clientRequestHandler, which *)
(* leaves the cache alone.                                                 *)
HandleConnect(s) ==
    /\ kind[s] \in {"connect", "client"}
    /\ ToStage(s, "cached", "answered")
    /\ UNCHANGED <<idle, says>>

HandleDisconnect(s) ==
    /\ kind[s] = "disconnect"
    /\ ToStage(s, "cached", "answered")
    /\ idle' = [idle EXCEPT ![Owner(s)] = Absent]
    /\ UNCHANGED says

(* serverStatusHandler.  The rest of the response is left out.             *)
HandleStatus(s) ==
    /\ kind[s] = "status"
    /\ ToStage(s, "cached", "answered")
    /\ says' = [says EXCEPT ![s] = Owner(s) \in Cached]
    /\ idle' = [idle EXCEPT ![Owner(s)] = IF @ = Absent THEN @ ELSE 0]

ExpiredLate(t) == t > Idle + 1

Expired(t) == t > Idle

(* cleanCache.                                                             *)
Sweep ==
    /\ sinceSweep = SweepEvery
    /\ sinceSweep' = 0
    /\ idle' = [u \in User |-> IF Expired(idle[u]) THEN Absent ELSE idle[u]]
    /\ UNCHANGED <<pageVars, reqVars>>

(* Time passes; the sweep is never late.                                   *)
Tick ==
    /\ sinceSweep < SweepEvery
    /\ sinceSweep' = sinceSweep + 1
    /\ idle' = [u \in User |-> IF idle[u] = Absent THEN Absent ELSE idle[u] + 1]
    /\ UNCHANGED <<pageVars, reqVars>>

-----------------------------------------------------------------------------
Click(p, s) ==
    \/ Open(p, s) \/ ClickConnect(p, s) \/ ClickDisconnect(p, s) \/ Leave(p, s)
    \/ Submit(p, s)

Handle(s) ==
    \/ WithCache(s) \/ HandleConnect(s) \/ HandleDisconnect(s) \/ HandleStatus(s)

Reply(s) == StatusReply(s) \/ OtherReply(s) \/ Lose(s)

Next ==
    \/ \E p \in Page, s \in Slot : Click(p, s) \/ Poll(p, s)
    \/ \E s \in Slot : Handle(s) \/ Reply(s)
    \/ Sweep \/ Tick

Spec == Init /\ [][Next]_vars

(* Nobody has to use a page.  Handlers run, answers arrive or are lost,    *)
(* time passes, and cleanCache goes on until the server stops.             *)
Fairness ==
    /\ \A s \in Slot : WF_vars(Handle(s)) /\ WF_vars(Reply(s))
    /\ WF_vars(Sweep) /\ WF_vars(Tick)

FairSpec == Spec /\ Fairness

-----------------------------------------------------------------------------
(* Every variable keeps its type.                                          *)
TypeOK ==
    /\ idle \in [User -> Nat \cup {Absent}]
    /\ sinceSweep \in 0 .. SweepEvery
    /\ page \in [Page -> {"new", "open", "left"}]
    /\ active \in [Page -> BOOLEAN]
    /\ connected \in [Page -> BOOLEAN]
    /\ timers \in [Page -> Nat]
    /\ handle \in [Page -> BOOLEAN]
    /\ stage \in [Slot -> {"free", "sent", "cached", "answered"}]
    /\ kind \in [Slot -> {"connect", "disconnect", "status", "client"}]
    /\ from \in [Slot -> Page]
    /\ says \in [Slot -> BOOLEAN]

(***************************************************************************)
(* A page never loses hold of an interval: it has at most one, which       *)
(* serverStatusHandler can clear, and none unless it lives and believes to *)
(* be connected.  Answers to polls of an earlier connection, arriving late *)
(* and in any order, make and break connections too (clickConnect,         *)
(* clickDisconnect, processServerStatusResponse, ngOnDestroy).             *)
(***************************************************************************)
NoOrphanTimer ==
    \A p \in Page :
        /\ timers[p] = IF handle[p] THEN 1 ELSE 0
        /\ handle[p] => active[p] /\ page[p] = "open"

(***************************************************************************)
(* No user stays in the cache for longer than the idle time and one period *)
(* of the sweep without a status request being served (withCache,          *)
(* serverStatusHandler, cleanCache).                                       *)
(***************************************************************************)
StaleBound == \A u \in User : idle[u] <= Idle + SweepEvery

(***************************************************************************)
(* A user whose pages are all gone leaves the cache for good, even if a    *)
(* poll that was overtaken by the DELETE put the user back (withCache,     *)
(* connectHandler, cleanCache, ngOnDestroy).                               *)
(***************************************************************************)
GhostsLeave ==
    \A u \in User :
        <>[](\A p \in Page : UserOf[p] = u => page[p] # "open") => <>[](idle[u] = Absent)

-----------------------------------------------------------------------------
(***************************************************************************)
(* clickConnect says 'Already connected to cluster!'                       *)
(* (play.component.ts:257) only to a page that polls the cluster's status. *)
(***************************************************************************)
AlreadyConnected ==
    \A p \in Page : page[p] = "open" /\ ~connected[p] /\ active[p] => timers[p] > 0
=============================================================================
