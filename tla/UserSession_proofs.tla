-------------------------- MODULE UserSession_proofs --------------------------
(***************************************************************************)
(* Theorems about UserSession, for any pages, users and number of requests *)
(* under way, and any idle time and period of the sweep.                   *)
(***************************************************************************)
EXTENDS UserSession, TLAPS

(* Between sweeps the cache is as much staler as time has passed.          *)
StaleInv == \A u \in User : idle[u] <= Idle + sinceSweep

Inv == TypeOK /\ NoOrphanTimer /\ StaleInv

(* A page that is asked for exists: it owns the requests under way.        *)
LEMMA SomePage ==
    ASSUME NEW p \in Page
    PROVE  (CHOOSE q \in Page : TRUE) \in Page
  OBVIOUS

(* Sending a request, or being done with one, keeps the types of requests. *)
LEMMA RequestTypes ==
    ASSUME TypeOK, NEW s \in Slot, NEW p \in Page,
           NEW k \in {"connect", "disconnect", "status", "client"},
           Send(s, p, k) \/ Free(s)
    PROVE  /\ stage' \in [Slot -> {"free", "sent", "cached", "answered"}]
           /\ kind' \in [Slot -> {"connect", "disconnect", "status", "client"}]
           /\ from' \in [Slot -> Page]
           /\ says' \in [Slot -> BOOLEAN]
          
<1>1. CASE Send(s, p, k)
  BY <1>1 DEF TypeOK, Send
<1>2. CASE Free(s)
  BY <1>2, SomePage DEF TypeOK, Free
<1> QED
  BY <1>1, <1>2

(* clearInterval takes the only interval there may be.                     *)
LEMMA ClearStep ==
    ASSUME TypeOK, NoOrphanTimer, NEW p \in Page, ClearInterval(p)
    PROVE  /\ timers' \in [Page -> Nat] /\ handle' \in [Page -> BOOLEAN]
           /\ timers'[p] = 0 /\ ~handle'[p]
           /\ \A q \in Page : q # p => timers'[q] = timers[q] /\ handle'[q] = handle[q]
  BY DEF TypeOK, NoOrphanTimer, ClearInterval

(* clickConnect makes one only where there is none.                        *)
LEMMA ConnectStep ==
    ASSUME Inv, NEW p \in Page, NEW s \in Slot, Connect(p, s), UNCHANGED serverVars,
           page' \in [Page -> {"new", "open", "left"}], page'[p] = "open",
           \A q \in Page : q # p => page'[q] = page[q]
    PROVE  Inv'
<1>1. TypeOK /\ NoOrphanTimer /\ StaleInv
  BY DEF Inv
<1>2. TypeOK'
  <2>1. Send(s, p, "connect")
    BY DEF Connect
  <2>2. /\ stage' \in [Slot -> {"free", "sent", "cached", "answered"}]
        /\ kind' \in [Slot -> {"connect", "disconnect", "status", "client"}]
        /\ from' \in [Slot -> Page] /\ says' \in [Slot -> BOOLEAN]
    BY <1>1, <2>1, RequestTypes
  <2> QED
    BY <1>1, <2>2 DEF TypeOK, Connect, serverVars
<1>3. NoOrphanTimer'
  BY <1>1 DEF TypeOK, NoOrphanTimer, Connect
<1>4. StaleInv'
  BY <1>1 DEF StaleInv, serverVars
<1> QED
  BY <1>2, <1>3, <1>4 DEF Inv

(* What a person does at a page.                                           *)
LEMMA ClickStep ==
    ASSUME Inv, NEW p \in Page, NEW s \in Slot, Click(p, s) \/ Poll(p, s)
    PROVE  Inv'
<1>0. TypeOK /\ NoOrphanTimer /\ StaleInv
  BY DEF Inv
<1>1. CASE Open(p, s) \/ ClickConnect(p, s)
  BY <1>0, <1>1, ConnectStep DEF Open, ClickConnect, TypeOK
<1>2. CASE ClickDisconnect(p, s) \/ Leave(p, s)
  <2>1. Send(s, p, "disconnect") /\ ClearInterval(p) /\ UNCHANGED serverVars
    BY <1>2 DEF ClickDisconnect, Leave
  <2>2. /\ active' \in [Page -> BOOLEAN] /\ connected' \in [Page -> BOOLEAN]
        /\ page' \in [Page -> {"new", "open", "left"}]
        /\ \A q \in Page : q # p => active'[q] = active[q] /\ page'[q] = page[q]
    BY <1>0, <1>2 DEF ClickDisconnect, Leave, TypeOK
  <2>3. /\ stage' \in [Slot -> {"free", "sent", "cached", "answered"}]
        /\ kind' \in [Slot -> {"connect", "disconnect", "status", "client"}]
        /\ from' \in [Slot -> Page] /\ says' \in [Slot -> BOOLEAN]
    BY <1>0, <2>1, RequestTypes
  <2>4. /\ timers' \in [Page -> Nat] /\ handle' \in [Page -> BOOLEAN]
        /\ timers'[p] = 0 /\ ~handle'[p]
        /\ \A q \in Page : q # p => timers'[q] = timers[q] /\ handle'[q] = handle[q]
    BY <1>0, <2>1, ClearStep
  <2>5. TypeOK'
    BY <1>0, <2>1, <2>2, <2>3, <2>4 DEF TypeOK, serverVars
  <2>6. NoOrphanTimer'
    BY <1>0, <2>2, <2>4 DEF NoOrphanTimer
  <2> QED
    BY <1>0, <2>1, <2>5, <2>6 DEF Inv, StaleInv, serverVars
<1>3. CASE Submit(p, s) \/ Poll(p, s)
  <2>1. (Send(s, p, "client") \/ Send(s, p, "status")) /\ UNCHANGED <<serverVars, pageVars>>
    BY <1>3 DEF Submit, Poll
  <2>2. /\ stage' \in [Slot -> {"free", "sent", "cached", "answered"}]
        /\ kind' \in [Slot -> {"connect", "disconnect", "status", "client"}]
        /\ from' \in [Slot -> Page] /\ says' \in [Slot -> BOOLEAN]
    BY <1>0, <2>1, RequestTypes
  <2> QED
    BY <1>0, <2>1, <2>2 DEF Inv, TypeOK, NoOrphanTimer, StaleInv, serverVars, pageVars
<1> QED
  BY <1>1, <1>2, <1>3 DEF Click

(* An answer arrives at a page, or is lost.                                *)
LEMMA ReplyStep ==
    ASSUME Inv, NEW s \in Slot, Reply(s)
    PROVE  Inv'
<1>0. TypeOK /\ NoOrphanTimer /\ StaleInv /\ from[s] \in Page
  BY DEF Inv, TypeOK
<1>1. CASE OtherReply(s) \/ Lose(s)
  <2>1. Free(s) /\ UNCHANGED <<serverVars, pageVars>>
    BY <1>1 DEF OtherReply, Lose
  <2>2. /\ stage' \in [Slot -> {"free", "sent", "cached", "answered"}]
        /\ kind' \in [Slot -> {"connect", "disconnect", "status", "client"}]
        /\ from' \in [Slot -> Page] /\ says' \in [Slot -> BOOLEAN]
    BY <1>0, <2>1, RequestTypes
  <2> QED
    BY <1>0, <2>1, <2>2 DEF Inv, TypeOK, NoOrphanTimer, StaleInv, serverVars, pageVars
<1>2. CASE StatusReply(s)
  <2>1. /\ active' = [active EXCEPT ![from[s]] = says[s]] /\ UNCHANGED <<serverVars, page, connected>>
        /\ says[s] \in BOOLEAN
    BY <1>0, <1>2 DEF StatusReply, TypeOK
  <2>2. active' \in [Page -> BOOLEAN] /\ active'[from[s]] = says[s]
        /\ \A q \in Page : q # from[s] => active'[q] = active[q]
    BY <1>0, <2>1 DEF TypeOK
  <2>3. /\ stage' \in [Slot -> {"free", "sent", "cached", "answered"}]
        /\ kind' \in [Slot -> {"connect", "disconnect", "status", "client"}]
        /\ from' \in [Slot -> Page] /\ says' \in [Slot -> BOOLEAN]
    BY <1>0, <1>2, RequestTypes DEF StatusReply
  <2>4. CASE says[s]
    <3>1. UNCHANGED <<timers, handle>>
      BY <1>2, <2>4 DEF StatusReply
    <3>2. TypeOK'
      BY <1>0, <2>1, <2>2, <2>3, <3>1 DEF TypeOK, serverVars
    <3>3. NoOrphanTimer'
      BY <1>0, <2>1, <2>2, <2>4, <3>1 DEF NoOrphanTimer
    <3> QED
      BY <1>0, <2>1, <3>2, <3>3 DEF Inv, StaleInv, serverVars
  <2>5. CASE ~says[s]
    <3>1. ClearInterval(from[s])
      BY <1>2, <2>5 DEF StatusReply
    <3>2. /\ timers' \in [Page -> Nat] /\ handle' \in [Page -> BOOLEAN]
          /\ timers'[from[s]] = 0 /\ ~handle'[from[s]]
          /\ \A q \in Page : q # from[s] => timers'[q] = timers[q] /\ handle'[q] = handle[q]
      BY <1>0, <3>1, ClearStep
    <3>3. TypeOK'
      BY <1>0, <2>1, <2>2, <2>3, <3>2 DEF TypeOK, serverVars
    <3>4. NoOrphanTimer'
      BY <1>0, <2>1, <2>2, <3>2 DEF NoOrphanTimer
    <3> QED
      BY <1>0, <2>1, <3>3, <3>4 DEF Inv, StaleInv, serverVars
  <2> QED
    BY <2>1, <2>4, <2>5
<1> QED
  BY <1>1, <1>2 DEF Reply

(* The handlers write nothing staler than what is there.                   *)
LEMMA HandleStep ==
    ASSUME Inv, NEW s \in Slot, Handle(s)
    PROVE  Inv'
<1> USE SessionAssumption
<1>0. TypeOK /\ NoOrphanTimer /\ StaleInv /\ Owner(s) \in User
  BY DEF Inv, TypeOK, Owner
<1>1. /\ stage' \in [Slot -> {"free", "sent", "cached", "answered"}]
      /\ UNCHANGED <<sinceSweep, pageVars, kind, from>>
  BY <1>0 DEF Handle, WithCache, HandleConnect, HandleDisconnect, HandleStatus,
              ToStage, TypeOK
<1>2. \/ idle' = idle
      \/ \E t \in {Absent, 0, idle[Owner(s)]} : idle' = [idle EXCEPT ![Owner(s)] = t]
  BY DEF Handle, WithCache, HandleConnect, HandleDisconnect, HandleStatus
<1>3. idle' \in [User -> Nat \cup {Absent}] /\ \A u \in User : idle'[u] \in {idle[u], Absent, 0}
  BY <1>0, <1>2 DEF TypeOK
<1>4. says' \in [Slot -> BOOLEAN]
  <2>1. says' = says \/ says' = [says EXCEPT ![s] = Owner(s) \in Cached]
    BY DEF Handle, WithCache, HandleConnect, HandleDisconnect, HandleStatus
  <2>2. (Owner(s) \in Cached) \in BOOLEAN
    OBVIOUS
  <2> QED
    BY <1>0, <2>1, <2>2, Zenon DEF TypeOK
<1>5. TypeOK'
  BY <1>0, <1>1, <1>3, <1>4 DEF TypeOK, pageVars
<1>6. NoOrphanTimer'
  BY <1>0, <1>1 DEF NoOrphanTimer, pageVars
<1>7. StaleInv'
  BY <1>0, <1>1, <1>3 DEF StaleInv, TypeOK, Absent
<1> QED
  BY <1>5, <1>6, <1>7 DEF Inv

(* The sweep makes up for the time that has passed.                        *)
LEMMA TimeStep == Inv /\ (Sweep \/ Tick) => Inv'
<1> SUFFICES ASSUME Inv, Sweep \/ Tick PROVE Inv'
  OBVIOUS
<1> USE SessionAssumption
<1>0. TypeOK /\ NoOrphanTimer /\ StaleInv /\ UNCHANGED <<pageVars, reqVars>>
  BY DEF Inv, Sweep, Tick
<1>1. NoOrphanTimer'
  BY <1>0 DEF NoOrphanTimer, pageVars
<1>2. /\ idle' \in [User -> Nat \cup {Absent}] /\ sinceSweep' \in 0 .. SweepEvery
      /\ \A u \in User : idle'[u] <= Idle + sinceSweep'
  <2>1. CASE Sweep
    BY <1>0, <2>1 DEF TypeOK, StaleInv, Sweep, Expired, Absent
  <2>2. CASE Tick
    BY <1>0, <2>2 DEF TypeOK, StaleInv, Tick, Absent
  <2> QED
    BY <2>1, <2>2
<1> QED
  BY <1>0, <1>1, <1>2 DEF Inv, TypeOK, StaleInv, pageVars, reqVars

LEMMA NextStep == Inv /\ [Next]_vars => Inv'
<1> SUFFICES ASSUME Inv, [Next]_vars PROVE Inv'
  OBVIOUS
<1>1. CASE \E p \in Page, s \in Slot : Click(p, s) \/ Poll(p, s)
  BY <1>1, ClickStep
<1>2. CASE \E s \in Slot : Handle(s) \/ Reply(s)
  BY <1>2, HandleStep, ReplyStep
<1>3. CASE Sweep \/ Tick
  BY <1>3, TimeStep
<1>4. CASE UNCHANGED vars
  BY <1>4 DEF Inv, TypeOK, NoOrphanTimer, StaleInv, vars, serverVars, pageVars, reqVars
<1> QED
  BY <1>1, <1>2, <1>3, <1>4 DEF Next

LEMMA InitInv == Init => Inv
<1> SUFFICES ASSUME Init PROVE Inv
  OBVIOUS
<1>1. TypeOK
  <2>1. (CHOOSE p \in Page : TRUE) \in Page
    BY SessionAssumption, SomePage
  <2>2. idle \in [User -> Nat \cup {Absent}] /\ sinceSweep \in 0 .. SweepEvery
    BY SessionAssumption DEF Init
  <2>3. /\ page \in [Page -> {"new", "open", "left"}]
        /\ active \in [Page -> BOOLEAN] /\ connected \in [Page -> BOOLEAN]
        /\ timers \in [Page -> Nat] /\ handle \in [Page -> BOOLEAN]
    BY DEF Init
  <2>4. /\ stage \in [Slot -> {"free", "sent", "cached", "answered"}]
        /\ kind \in [Slot -> {"connect", "disconnect", "status", "client"}]
        /\ from \in [Slot -> Page] /\ says \in [Slot -> BOOLEAN]
    BY <2>1 DEF Init
  <2> QED
    BY <2>2, <2>3, <2>4 DEF TypeOK
<1>2. NoOrphanTimer /\ StaleInv
  BY SessionAssumption DEF Init, NoOrphanTimer, StaleInv, Absent
<1> QED
  BY <1>1, <1>2 DEF Inv

LEMMA Invariance == Spec => []Inv
  BY InitInv, NextStep, PTL DEF Spec

(* Every variable of UserSession keeps its type.                           *)
THEOREM SessionTypes == Spec => []TypeOK
<1>1. Inv => TypeOK
  BY DEF Inv
<1> QED
  BY <1>1, Invariance, PTL

(* However late and in whichever order status answers arrive, a page has   *)
(* at most one interval, can clear it, and has none when it is gone.       *)
THEOREM TimersAreHeld == Spec => []NoOrphanTimer
<1>1. Inv => NoOrphanTimer
  BY DEF Inv
<1> QED
  BY <1>1, Invariance, PTL

(* The cache forgets whoever has not been served for the idle time and one *)
(* period of the sweep.                                                    *)
THEOREM CacheForgets == Spec => []StaleBound
<1>1. Inv => StaleBound
  BY SessionAssumption DEF Inv, TypeOK, StaleInv, StaleBound, Absent
<1> QED
  BY <1>1, Invariance, PTL
=============================================================================
