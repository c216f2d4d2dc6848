---------------------------- MODULE RequestLimiter ----------------------------
(***************************************************************************)
(* requestLimiter (pkg/ratelimit/ratelimit.go): the limiter in front of    *)
(* the client requests and the stop-node and restart-node requests.  Check *)
(* starts a goroutine that waits for a token of a rate.Limiter with one    *)
(* token per interval, gives it a few milliseconds, and otherwise lets     *)
(* the time since the last request decide.  Every HTTP handler runs in a   *)
(* goroutine of its own, so any number of Checks overlap; a slot is one    *)
(* Check with its goroutine.                                               *)
(*                                                                         *)
(* Time is counted in ticks.  A token is worth Interval ticks, so tokens   *)
(* are kept in ticks too: rate.Limiter gains one per tick, up to Interval, *)
(* and a reservation costs Interval of them.  The goroutine reads the      *)
(* clock before it takes the lock of rate.Limiter, so a later reading may  *)
(* overtake it on the way, and the limiter's own clock be set back.        *)
(***************************************************************************)
EXTENDS Integers, FiniteSets

CONSTANTS
    Slot,       \* Checks that may be under way at once
    Interval,   \* requestLimiter.interval
    Grace,      \* what Check waits for a token, 5ms
    Prompt,     \* TRUE: no goroutine that can run lets time pass
    MaxTime     \* bound: the last instant

ASSUME TimeAssumption ==
    /\ Interval \in Nat \ {0}
    /\ Grace \in Nat \ {0}
    /\ Prompt \in BOOLEAN
    /\ MaxTime \in Nat

ASSUME SlotAssumption == IsFiniteSet(Slot)

VARIABLES
    now,                        \* the clock
    rootDone,                   \* whether rootCtx has been canceled
    tokens, last, lastEvent,    \* the rate.Limiter
    lastRequest,                \* requestLimiter.lastRequest
    call,                       \* where each Check is; idle also once it has
                                \* returned one of its error messages
    at,                         \* when it began or returned OK
    waiter, act,                \* where its goroutine is, and its reservation
    mark,                       \* its reading of the clock, or, while it waits,
                                \* when its timer fires
    granted,                    \* history: the latest reservation granted
    overtaken,                  \* history: last was set back
    lost                        \* history: reservations canceled when others
                                \* had been made after them

vars == <<now, rootDone, tokens, last, lastEvent, lastRequest, call, at,
          waiter, act, mark, granted, overtaken, lost>>
limiterVars == <<tokens, last, lastEvent, overtaken, lost>>
checkVars   == <<now, rootDone, lastRequest, call, at>>

Ended    == {"none", "granted", "canceled"}
Running  == {"start", "clock", "reserve", "wait", "cancel"}

Least(a, b) == IF a < b THEN a ELSE b

(* NewRequestLimiter: both clocks start far in the past.                   *)
Init ==
    /\ now = 0
    /\ rootDone = FALSE
    /\ tokens = Interval
    /\ last = 0
    /\ lastEvent = -Interval
    /\ lastRequest = -Interval
    /\ call = [c \in Slot |-> "idle"]
    /\ at = [c \in Slot |-> 0]
    /\ waiter = [c \in Slot |-> "none"]
    /\ act = [c \in Slot |-> 0]
    /\ mark = [c \in Slot |-> 0]
    /\ granted = -Interval
    /\ overtaken = FALSE
    /\ lost = 0

-----------------------------------------------------------------------------
(* rate.Limiter: the time since its last use, as of a reading of the clock *)
(* that may be older, and the tokens of that instant (advance).            *)
Elapsed(t) == IF t < last THEN 0 ELSE t - last

TokensUncapped(t) == tokens + Elapsed(t)
TokensNow(t)      == Least(Interval, tokens + Elapsed(t))

(* lim.last becomes the reading, also when that sets it back.              *)
AdvanceTo(t) == last' = t /\ overtaken' = (overtaken \/ t < last)

(* reserveN for one token, with no limit on the wait, and the timer that   *)
(* is set for the rest of it, counted from the reading.                    *)
Reserve(c) ==
    LET left == TokensNow(mark[c]) - Interval
        wait == IF left < 0 THEN -left ELSE 0
    IN  /\ tokens' = left
        /\ AdvanceTo(mark[c])
        /\ lastEvent' = mark[c] + wait
        /\ act' = [act EXCEPT ![c] = mark[c] + wait]
        /\ mark' = [mark EXCEPT ![c] = now + wait]
        /\ UNCHANGED lost

(* What Reservation.CancelAt gives back: the token, less what has been     *)
(* reserved after it.                                                      *)
RestoredAll(c) == Interval
Restored(c)    == Interval - (lastEvent - act[c])

(* Nothing is given back once the reservation is over.                     *)
CancelAt(c, t) ==
    /\ IF act[c] < t \/ Restored(c) <= 0
       THEN UNCHANGED <<tokens, last, lastEvent, overtaken>>
       ELSE /\ tokens' = Least(Interval, TokensNow(t) + Restored(c))
            /\ AdvanceTo(t)
            /\ lastEvent' = IF act[c] = lastEvent /\ act[c] - Interval >= t
                            THEN act[c] - Interval ELSE lastEvent
    /\ lost' = IF act[c] >= t /\ lastEvent > act[c] THEN lost + 1 ELSE lost

-----------------------------------------------------------------------------
(* Check's goroutine.  Its context is done once Check has chosen a branch  *)
(* of its select or rootCtx is canceled.                                   *)
SubDone(c) == rootDone \/ call[c] # "select"

WaitGoto(c, from, to) ==
    /\ waiter[c] = from
    /\ waiter' = [waiter EXCEPT ![c] = to]
    /\ UNCHANGED checkVars

(* waitN: a look at the context, a reading of the clock, and reserveN.     *)
WaitBeginOrVanish(c) ==
    /\ ~SubDone(c)
    /\ WaitGoto(c, "start", "clock")
    /\ UNCHANGED <<limiterVars, act, mark, granted>>

WaitBegin(c) ==
    /\ WaitGoto(c, "start", IF SubDone(c) THEN "canceled" ELSE "clock")
    /\ UNCHANGED <<limiterVars, act, mark, granted>>

WaitClock(c) ==
    /\ WaitGoto(c, "clock", "reserve")
    /\ mark' = [mark EXCEPT ![c] = now]
    /\ UNCHANGED <<limiterVars, act, granted>>

WaitReserve(c) ==
    /\ WaitGoto(c, "reserve", "wait")
    /\ Reserve(c)
    /\ UNCHANGED granted

(* Then the timer or the context.                                          *)
WaitGrant(c) ==
    /\ now >= mark[c]
    /\ WaitGoto(c, "wait", "granted")
    /\ granted' = act[c]
    /\ act' = [act EXCEPT ![c] = 0]
    /\ mark' = [mark EXCEPT ![c] = 0]
    /\ UNCHANGED limiterVars

(* Cancel reads the clock before CancelAt takes the lock.                  *)
WaitQuit(c) ==
    /\ SubDone(c)
    /\ WaitGoto(c, "wait", "cancel")
    /\ mark' = [mark EXCEPT ![c] = now]
    /\ UNCHANGED <<limiterVars, act, granted>>

WaitLeave(c) ==
    /\ WaitGoto(c, "cancel", "canceled")
    /\ act' = [act EXCEPT ![c] = 0]
    /\ mark' = [mark EXCEPT ![c] = 0]
    /\ UNCHANGED granted

WaitCancelNothing(c) == WaitLeave(c) /\ UNCHANGED limiterVars
WaitCancel(c)        == WaitLeave(c) /\ CancelAt(c, mark[c])

-----------------------------------------------------------------------------
(* Check, and Advance as the handlers call it: after a Check that returned *)
(* OK, reading the clock again.                                            *)

CheckStart(c) ==
    /\ call[c] = "idle"
    /\ waiter[c] \in Ended
    /\ now + Grace <= MaxTime
    /\ call' = [call EXCEPT ![c] = "select"]
    /\ at' = [at EXCEPT ![c] = now]
    /\ waiter' = [waiter EXCEPT ![c] = "start"]
    /\ UNCHANGED <<now, rootDone, limiterVars, lastRequest, act, mark, granted>>

Return(c, result) ==
    /\ call' = [call EXCEPT ![c] = result]
    /\ at' = [at EXCEPT ![c] = IF result = "ok" THEN now ELSE 0]
    /\ UNCHANGED <<now, rootDone, limiterVars, lastRequest, waiter, act, mark, granted>>

(* The branches of the select; when several are ready any one is taken.    *)
SelectRoot(c) ==
    /\ call[c] = "select"
    /\ rootDone
    /\ Return(c, "drain")

SelectWc(c) ==
    /\ call[c] = "select"
    /\ waiter[c] \in Ended
    /\ Return(c, IF waiter[c] = "granted" THEN "ok" ELSE "idle")

SelectTimeout(c) ==
    /\ call[c] = "select"
    /\ now >= at[c] + Grace
    /\ Return(c, IF Interval - (now - lastRequest) > 0 THEN "idle" ELSE "ok")

Drained(c) ==
    /\ call[c] = "drain"
    /\ waiter[c] \in Ended
    /\ Return(c, "idle")

(* No two readings of the clock are the same: the one Advance stores is    *)
(* later than the one that admitted the request.                           *)
MayAdvance(c) == call[c] = "ok" /\ (now > at[c] \/ now = MaxTime)

Advance(c) ==
    /\ MayAdvance(c)
    /\ lastRequest' = now
    /\ call' = [call EXCEPT ![c] = "idle"]
    /\ at' = [at EXCEPT ![c] = 0]
    /\ UNCHANGED <<now, rootDone, limiterVars, waiter, act, mark, granted>>

-----------------------------------------------------------------------------
RootCancel ==
    /\ ~rootDone
    /\ rootDone' = TRUE
    /\ UNCHANGED <<now, limiterVars, lastRequest, call, at, waiter, act, mark, granted>>

(* Some goroutine has something to do at this instant.                     *)
Urgent ==
    \E c \in Slot :
        \/ waiter[c] \in {"start", "clock", "reserve", "cancel"}
        \/ waiter[c] = "wait" /\ (now >= mark[c] \/ SubDone(c))
        \/ call[c] = "select" /\ (waiter[c] \in Ended \/ now >= at[c] + Grace \/ rootDone)
        \/ call[c] = "drain" /\ waiter[c] \in Ended
        \/ MayAdvance(c)

Tick ==
    /\ now < MaxTime
    /\ Prompt => ~Urgent
    /\ now' = now + 1
    /\ UNCHANGED <<rootDone, limiterVars, lastRequest, call, at, waiter, act, mark, granted>>

Waiter(c) ==
    \/ WaitBegin(c) \/ WaitClock(c) \/ WaitReserve(c)
    \/ WaitGrant(c) \/ WaitQuit(c) \/ WaitCancel(c)

Check(c) == SelectRoot(c) \/ SelectWc(c) \/ SelectTimeout(c) \/ Drained(c)

Next ==
    \/ \E c \in Slot : CheckStart(c) \/ Check(c) \/ Waiter(c) \/ Advance(c)
    \/ RootCancel
    \/ Tick

Spec == Init /\ [][Next]_vars

(* Goroutines that can run do, and time passes.  Nobody has to make a      *)
(* request or cancel the context.                                          *)
Fairness ==
    /\ \A c \in Slot : WF_vars(Check(c)) /\ WF_vars(Waiter(c))
    /\ WF_vars(Tick)

FairSpec == Spec /\ Fairness

-----------------------------------------------------------------------------
(* Every variable keeps its type; the bucket never holds more than its     *)
(* burst of one token.                                                     *)
TypeOK ==
    /\ now \in 0 .. MaxTime
    /\ rootDone \in BOOLEAN
    /\ tokens \in Int /\ tokens <= Interval
    /\ last \in 0 .. now
    /\ lastEvent \in Int
    /\ lastRequest \in Int /\ lastRequest <= now
    /\ call \in [Slot -> {"idle", "select", "drain", "ok"}]
    /\ at \in [Slot -> 0 .. now]
    /\ waiter \in [Slot -> Ended \cup Running]
    /\ act \in [Slot -> Nat]
    /\ mark \in [Slot -> Nat]
    /\ \A c \in Slot : waiter[c] \in {"reserve", "cancel"} => mark[c] <= now
    /\ granted \in Int
    /\ overtaken \in BOOLEAN
    /\ lost \in Nat

(***************************************************************************)
(* The tokens granted are for instants an interval apart, however many     *)
(* goroutines wait, give up and return their reservations in whichever     *)
(* order, as long as no reading of the clock is overtaken on its way to    *)
(* the lock by a later one (waitN, reserveN and CancelAt as Check uses     *)
(* them).  After that, time counts twice: see the README.                  *)
(***************************************************************************)
GrantSpacing ==
    [][\A c \in Slot : waiter[c] = "wait" /\ waiter'[c] = "granted" /\ ~overtaken =>
         act[c] - granted >= Interval \/ granted - act[c] >= Interval]_vars

(***************************************************************************)
(* No token is lost but by overlapping: the next one is due an interval    *)
(* after now at the latest, and one interval more for each reservation to  *)
(* come that a goroutine still holds, and for each that was canceled when  *)
(* others had been reserved after it (Cancel, CancelAt).                   *)
(***************************************************************************)
NextAt == last + Interval - tokens

Holding == {c \in Slot : waiter[c] \in {"wait", "cancel"}}

DebtBounded ==
    NextAt <= now + Interval * (1 + Cardinality({c \in Holding : act[c] > now}) + lost)

(***************************************************************************)
(* Every Check returns, and its goroutine ends too, also when the context  *)
(* is canceled while it waits for a token or before it began to: a slot is *)
(* free again and again (Check and the goroutine it starts).               *)
(***************************************************************************)
UnderWay(c) == call[c] \in {"select", "drain"} \/ waiter[c] \in Running

CheckReturns == \A c \in Slot : []<>~UnderWay(c)
=============================================================================
