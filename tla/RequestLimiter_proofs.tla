------------------------ MODULE RequestLimiter_proofs ------------------------
(***************************************************************************)
(* Theorems about RequestLimiter, for every finite number of overlapping   *)
(* Checks, every interval and grace, and any scheduling: the types, with   *)
(* the burst of the bucket, that tokens are granted an interval apart      *)
(* while no reading of the clock is overtaken, and that the bucket is in   *)
(* debt only for reservations still held and those lost by overlapping.    *)
(***************************************************************************)
EXTENDS RequestLimiter, FiniteSetTheorems, TLAPS

(* What the bucket holds at a reading of the clock: never more than its    *)
(* burst, and the next token is then due an interval less than that later. *)
LEMMA TokensThen ==
    ASSUME TypeOK, NEW t \in Nat
    PROVE  /\ TokensNow(t) \in Int /\ TokensNow(t) <= Interval
           /\ TokensNow(t) = Interval \/ t + Interval - TokensNow(t) <= NextAt
           /\ t >= last => TokensNow(t) = Least(Interval, t + Interval - NextAt)
<1>1. tokens \in Int /\ last \in Int /\ Interval \in Nat
  BY TimeAssumption DEF TypeOK
<1> QED
  BY <1>1 DEF TokensNow, Elapsed, Least, NextAt

(* reserveN: the reservation is for the reading or for the next token that *)
(* is due, and the next one is an interval later.                          *)
LEMMA Reserved ==
    ASSUME TypeOK, NEW c \in Slot, waiter[c] = "reserve", Reserve(c)
    PROVE  /\ mark[c] \in Nat /\ mark[c] <= now /\ act[c]' \in Nat /\ act[c]' >= mark[c]
           /\ act' = [act EXCEPT ![c] = act[c]'] /\ lastEvent' = act[c]'
           /\ mark' = [mark EXCEPT ![c] = mark[c]'] /\ mark[c]' \in Nat /\ mark[c]' >= act[c]'
           /\ tokens' \in Int /\ tokens' <= Interval /\ last' = mark[c] /\ lost' = lost
           /\ overtaken' = (overtaken \/ mark[c] < last)
           /\ NextAt' = act[c]' + Interval
           /\ act[c]' = mark[c] \/ act[c]' <= NextAt
           /\ mark[c] >= last => act[c]' = IF NextAt <= mark[c] THEN mark[c] ELSE NextAt
<1> USE TimeAssumption
<1>1. /\ now \in Nat /\ mark[c] \in Nat /\ mark[c] <= now /\ last \in Int /\ tokens \in Int
      /\ act \in [Slot -> Nat] /\ mark \in [Slot -> Nat] /\ NextAt \in Int
  BY DEF TypeOK, NextAt
<1> DEFINE left == TokensNow(mark[c]) - Interval
<1>2. left \in Int /\ left <= 0
  BY <1>1, TokensThen
<1>3. (IF left < 0 THEN -left ELSE 0) = -left
  BY <1>2
<1>4. /\ tokens' = left /\ AdvanceTo(mark[c]) /\ lastEvent' = mark[c] + (-left) /\ lost' = lost
      /\ act' = [act EXCEPT ![c] = mark[c] + (-left)]
      /\ mark' = [mark EXCEPT ![c] = now + (-left)]
  BY <1>3 DEF Reserve
<1>5. left = 0 \/ mark[c] - left <= NextAt
  BY <1>1, TokensThen
<1>6. mark[c] >= last => mark[c] - left = IF NextAt <= mark[c] THEN mark[c] ELSE NextAt
  BY <1>1, TokensThen DEF Least
<1> HIDE DEF left
<1>7. act[c]' = mark[c] - left /\ mark[c]' = now - left
  BY <1>1, <1>2, <1>4
<1>8. NextAt' = act[c]' + Interval
  BY <1>1, <1>2, <1>4, <1>7 DEF NextAt, AdvanceTo
<1> QED
  BY <1>1, <1>2, <1>4, <1>5, <1>6, <1>7, <1>8 DEF AdvanceTo

(* CancelAt: the bucket is left alone, or its next token is due earlier by *)
(* what is given back, or at the reading.                                  *)
LEMMA Canceled ==
    ASSUME TypeOK, NEW c \in Slot, waiter[c] = "cancel", CancelAt(c, mark[c])
    PROVE  /\ mark[c] \in Nat /\ mark[c] <= now /\ act[c] \in Nat /\ Restored(c) \in Int
           /\ tokens' \in Int /\ tokens' <= Interval /\ last' \in 0 .. now /\ lastEvent' \in Int
           /\ overtaken' \in BOOLEAN
           /\ lost' = IF act[c] >= mark[c] /\ lastEvent > act[c] THEN lost + 1 ELSE lost
           /\ \/ /\ act[c] < mark[c] \/ Restored(c) <= 0
                 /\ UNCHANGED <<tokens, last, lastEvent, overtaken>>
              \/ /\ act[c] >= mark[c] /\ Restored(c) > 0
                 /\ tokens' = Least(Interval, TokensNow(mark[c]) + Restored(c))
                 /\ last' = mark[c]
                 /\ overtaken' = (overtaken \/ mark[c] < last)
                 /\ lastEvent' = IF act[c] = lastEvent /\ act[c] - Interval >= mark[c]
                                 THEN act[c] - Interval ELSE lastEvent
                 /\ NextAt' = mark[c] \/ NextAt' <= NextAt - Restored(c)
<1> USE TimeAssumption
<1>1. /\ now \in Nat /\ mark[c] \in Nat /\ mark[c] <= now /\ last \in 0 .. now /\ tokens \in Int
      /\ tokens <= Interval /\ act[c] \in Nat /\ lastEvent \in Int /\ NextAt \in Int
      /\ overtaken \in BOOLEAN
  BY DEF TypeOK, NextAt
<1>2. Restored(c) \in Int
  BY <1>1 DEF Restored
<1>3. lost' = IF act[c] >= mark[c] /\ lastEvent > act[c] THEN lost + 1 ELSE lost
  BY DEF CancelAt
<1>4. CASE act[c] < mark[c] \/ Restored(c) <= 0
  BY <1>1, <1>2, <1>3, <1>4 DEF CancelAt
<1>5. CASE ~(act[c] < mark[c] \/ Restored(c) <= 0)
  <2>1. /\ tokens' = Least(Interval, TokensNow(mark[c]) + Restored(c))
        /\ last' = mark[c] /\ overtaken' = (overtaken \/ mark[c] < last)
        /\ lastEvent' = IF act[c] = lastEvent /\ act[c] - Interval >= mark[c]
                        THEN act[c] - Interval ELSE lastEvent
    BY <1>5 DEF CancelAt, AdvanceTo
  <2>2. tokens' \in Int /\ tokens' <= Interval /\ lastEvent' \in Int
    BY <1>1, <1>2, <2>1, TokensThen DEF Least
  <2>3. NextAt' = mark[c] \/ NextAt' <= NextAt - Restored(c)
    BY <1>1, <1>2, <1>5, <2>1, TokensThen DEF Least, NextAt
  <2>4. act[c] >= mark[c] /\ Restored(c) > 0
    BY <1>1, <1>2, <1>5
  <2>5. overtaken' \in BOOLEAN
    BY <2>1
  <2> QED
    BY <1>1, <1>2, <1>3, <2>1, <2>2, <2>3, <2>4, <2>5
<1> QED
  BY <1>4, <1>5

(* The steps of the goroutine that waits.                                  *)
LEMMA WaiterTypes ==
    ASSUME TypeOK, NEW c \in Slot, Waiter(c)
    PROVE  TypeOK'
<1> USE TimeAssumption
<1>0. /\ now \in 0 .. MaxTime /\ now \in Nat /\ act \in [Slot -> Nat] /\ mark \in [Slot -> Nat]
      /\ waiter \in [Slot -> Ended \cup Running] /\ overtaken \in BOOLEAN /\ lost \in Nat
  BY DEF TypeOK
<1>1. ASSUME NEW from, NEW to \in Ended \cup Running, WaitGoto(c, from, to),
             UNCHANGED limiterVars,
             act' \in [Slot -> Nat], mark' \in [Slot -> Nat], granted' \in Int,
             \A d \in Slot : waiter'[d] \in {"reserve", "cancel"} => mark'[d] <= now
      PROVE  TypeOK'
  BY <1>0, <1>1 DEF WaitGoto, checkVars, limiterVars, TypeOK
<1>2. CASE WaitBegin(c)
  BY <1>0, <1>1, <1>2 DEF WaitBegin, WaitGoto, Ended, Running, TypeOK
<1>3. CASE WaitClock(c)
  BY <1>0, <1>1, <1>3 DEF WaitClock, WaitGoto, Ended, Running, TypeOK
<1>4. CASE WaitReserve(c)
  <2>1. Reserve(c) /\ waiter[c] = "reserve" /\ granted' = granted
        /\ waiter' = [waiter EXCEPT ![c] = "wait"] /\ UNCHANGED checkVars
    BY <1>4 DEF WaitReserve, WaitGoto
  <2>2. waiter' \in [Slot -> Ended \cup Running]
    BY <1>0, <2>1 DEF Running
  <2>3. /\ act' \in [Slot -> Nat] /\ mark' \in [Slot -> Nat] /\ tokens' \in Int
        /\ tokens' <= Interval /\ last' \in 0 .. now /\ lastEvent' \in Int /\ lost' \in Nat
    BY <1>0, <2>1, Reserved
  <2>5. overtaken' = (overtaken \/ mark[c] < last)
    BY <2>1, Reserved
  <2>6. overtaken' \in BOOLEAN
    BY <2>5
  <2>4. \A d \in Slot : waiter'[d] \in {"reserve", "cancel"} => mark'[d] <= now
    <3>1. \A d \in Slot : d # c => mark'[d] = mark[d] /\ waiter'[d] = waiter[d]
      BY <1>0, <2>1, Reserved
    <3>2. waiter'[c] = "wait"
      BY <1>0, <2>1
    <3> QED
      BY <3>1, <3>2 DEF TypeOK
  <2> QED
    BY <2>1, <2>2, <2>3, <2>4, <2>6 DEF checkVars, TypeOK
<1>5. CASE WaitGrant(c)
  BY <1>0, <1>1, <1>5 DEF WaitGrant, WaitGoto, Ended, Running, TypeOK
<1>6. CASE WaitQuit(c)
  BY <1>0, <1>1, <1>6 DEF WaitQuit, WaitGoto, Ended, Running, TypeOK
<1>7. CASE WaitCancel(c)
  <2>1. /\ CancelAt(c, mark[c]) /\ waiter[c] = "cancel" /\ granted' = granted
        /\ waiter' = [waiter EXCEPT ![c] = "canceled"] /\ UNCHANGED checkVars
        /\ act' = [act EXCEPT ![c] = 0] /\ mark' = [mark EXCEPT ![c] = 0]
    BY <1>7 DEF WaitCancel, WaitLeave, WaitGoto
  <2>2. /\ tokens' \in Int /\ tokens' <= Interval /\ last' \in 0 .. now /\ lastEvent' \in Int
        /\ overtaken' \in BOOLEAN /\ lost' \in Nat
    BY <1>0, <2>1, Canceled
  <2>3. waiter' \in [Slot -> Ended \cup Running] /\ act' \in [Slot -> Nat] /\ mark' \in [Slot -> Nat]
    BY <1>0, <2>1 DEF Ended
  <2>4. \A d \in Slot : waiter'[d] \in {"reserve", "cancel"} => mark'[d] <= now
    BY <1>0, <2>1 DEF TypeOK
  <2> QED
    BY <2>1, <2>2, <2>3, <2>4 DEF checkVars, TypeOK
<1> QED
  BY <1>2, <1>3, <1>4, <1>5, <1>6, <1>7 DEF Waiter

(* The steps of Check and Advance.                                         *)
LEMMA CheckTypes ==
    ASSUME TypeOK, NEW c \in Slot, CheckStart(c) \/ Check(c) \/ Advance(c)
    PROVE  TypeOK'
<1> USE TimeAssumption DEF TypeOK, limiterVars
<1>1. CASE CheckStart(c)
  BY <1>1 DEF CheckStart, Running
<1>2. CASE Check(c)
  <2>1. PICK result \in {"drain", "ok", "idle"} : Return(c, result)
    BY <1>2 DEF Check, SelectRoot, SelectWc, SelectTimeout, Drained
  <2> QED
    BY <2>1 DEF Return
<1>3. CASE Advance(c)
  BY <1>3 DEF Advance
<1> QED
  BY <1>1, <1>2, <1>3

(* Every step keeps the types.                                             *)
LEMMA TypeStep == TypeOK /\ [Next]_vars => TypeOK'
<1> SUFFICES ASSUME TypeOK, [Next]_vars PROVE TypeOK'
  OBVIOUS
<1>1. ASSUME NEW c \in Slot, CheckStart(c) \/ Check(c) \/ Waiter(c) \/ Advance(c)
      PROVE  TypeOK'
  BY <1>1, WaiterTypes, CheckTypes
<1>2. CASE RootCancel
  BY <1>2 DEF RootCancel, TypeOK, limiterVars
<1>3. CASE Tick
  BY <1>3, TimeAssumption DEF Tick, TypeOK, limiterVars
<1>4. CASE UNCHANGED vars
  BY <1>4 DEF vars, TypeOK
<1> QED
  BY <1>1, <1>2, <1>3, <1>4 DEF Next

(* Every variable keeps its type, and the bucket never holds more than one *)
(* token, however the Checks that share it give theirs back.               *)
THEOREM LimiterTypes == Spec => []TypeOK
<1>1. Init => TypeOK
  <2> SUFFICES ASSUME Init PROVE TypeOK
    OBVIOUS
  <2>1. now \in 0 .. MaxTime /\ now = 0 /\ tokens \in Int /\ tokens <= Interval /\ last \in 0 .. now
    BY TimeAssumption DEF Init
  <2>2. lastEvent \in Int /\ lastRequest \in Int /\ lastRequest <= now /\ granted \in Int
    BY TimeAssumption DEF Init
  <2>3. /\ call \in [Slot -> {"idle", "select", "drain", "ok"}] /\ at \in [Slot -> 0 .. now]
        /\ waiter \in [Slot -> Ended \cup Running] /\ act \in [Slot -> Nat] /\ mark \in [Slot -> Nat]
    BY DEF Init, Ended
  <2> QED
    BY <2>1, <2>2, <2>3 DEF Init, TypeOK
<1> QED
  BY <1>1, TypeStep, PTL DEF Spec

-----------------------------------------------------------------------------
(***************************************************************************)
(* The inductive invariant behind GrantSpacing, for as long as no reading  *)
(* has been overtaken.  NextAt is the instant for which the bucket would   *)
(* grant its next token, if it is not over yet.  Every reservation made,   *)
(* and the latest granted, are an interval before it and apart from each   *)
(* other; those not before the bucket's own clock, the only ones that can  *)
(* still be given back, lie on a grid that ends at lastEvent, an interval  *)
(* before NextAt: that is why CancelAt restores a whole token or nothing.  *)
(***************************************************************************)
Apart(a, b) == a + Interval <= b \/ b + Interval <= a

OnGrid(a) ==
    /\ NextAt = lastEvent + Interval
    /\ \E k \in Nat : lastEvent = a + k * Interval

SpacingInv ==
    /\ granted <= lastEvent /\ granted + Interval <= NextAt
    /\ \A c \in Holding :
          /\ act[c] + Interval <= NextAt
          /\ act[c] <= lastEvent
          /\ Apart(act[c], granted)
          /\ act[c] >= last => OnGrid(act[c])
    /\ \A c, d \in Holding : c # d => Apart(act[c], act[d])

Spaced == ~overtaken => SpacingInv

(* What the grid needs of multiplication.                                  *)
LEMMA Multiples ==
    ASSUME NEW k \in Nat
    PROVE  /\ k * Interval \in Nat
           /\ k * Interval = 0 \/ (k - 1 \in Nat /\ k * Interval = (k - 1) * Interval + Interval)
           /\ (k + 1) * Interval = k * Interval + Interval
<1> USE TimeAssumption
<1>1. CASE k = 0
  BY <1>1
<1>2. CASE k # 0
  BY <1>2
<1> QED
  BY <1>1, <1>2

(* A step that leaves the bucket alone, and adds no reservation.           *)
LEMMA SpacingFrame ==
    ASSUME SpacingInv, UNCHANGED <<tokens, last, lastEvent, granted>>,
           Holding' \subseteq Holding, \A c \in Holding' : act'[c] = act[c]
    PROVE  SpacingInv'
BY DEF SpacingInv, NextAt, Apart, OnGrid

(* reserveN takes the next token: for its reading of the clock, or an      *)
(* interval after the latest reservation that is not over.                 *)
LEMMA ReserveSpaced ==
    ASSUME TypeOK, SpacingInv, NEW c \in Slot, WaitReserve(c), mark[c] >= last
    PROVE  SpacingInv'
<1> USE TimeAssumption
<1>0. /\ tokens \in Int /\ last \in Int /\ lastEvent \in Int /\ granted \in Int /\ NextAt \in Int
      /\ \A d \in Slot : act[d] \in Int
      /\ act \in [Slot -> Nat] /\ waiter \in [Slot -> Ended \cup Running]
  BY DEF TypeOK, NextAt
<1>1. waiter[c] = "reserve" /\ Reserve(c) /\ waiter' = [waiter EXCEPT ![c] = "wait"]
      /\ granted' = granted
  BY DEF WaitReserve, WaitGoto
<1> DEFINE when == IF NextAt <= mark[c] THEN mark[c] ELSE NextAt
<1>2. /\ act' = [act EXCEPT ![c] = when] /\ lastEvent' = when /\ last' = mark[c]
      /\ mark[c] \in Int /\ NextAt' = when + Interval
  BY <1>1, Reserved
<1>3. when \in Int /\ when >= mark[c] /\ when >= NextAt /\ (when > mark[c] => when = NextAt)
  BY <1>0, <1>2
<1> HIDE DEF when
<1>4. /\ Holding' = Holding \cup {c} /\ c \notin Holding
      /\ act'[c] = when /\ \A d \in Holding : act'[d] = act[d]
  BY <1>0, <1>1, <1>2 DEF Holding
<1>5. \A d \in Holding : act[d] \in Int /\ act[d] + Interval <= NextAt
  BY <1>0 DEF SpacingInv, Holding
<1>6. granted' <= lastEvent' /\ granted' + Interval <= NextAt'
  BY <1>0, <1>1, <1>2, <1>3 DEF SpacingInv
<1>7. ASSUME NEW d \in Holding'
      PROVE  /\ act'[d] + Interval <= NextAt'
             /\ act'[d] <= lastEvent'
             /\ Apart(act'[d], granted')
             /\ act'[d] >= last' =>
                   /\ NextAt' = lastEvent' + Interval
                   /\ \E k \in Nat : lastEvent' = act'[d] + k * Interval
  <2>1. CASE d = c
    <3>1. lastEvent' = act'[d] + 0 * Interval
      BY <1>2, <1>3, <1>4, <2>1
    <3> QED
      BY <1>0, <1>1, <1>2, <1>3, <1>4, <2>1, <3>1 DEF Apart, SpacingInv
  <2>2. CASE d # c
    <3>1. d \in Holding /\ act'[d] = act[d] /\ act[d] \in Int /\ act[d] + Interval <= NextAt
      BY <1>4, <1>5, <2>2
    <3>2. Apart(act'[d], granted')
      BY <1>1, <3>1 DEF SpacingInv, Apart
    <3>3. ASSUME act'[d] >= last'
          PROVE  \E k \in Nat : lastEvent' = act'[d] + k * Interval
      <4>1. OnGrid(act[d])
        BY <1>0, <1>2, <3>1, <3>3 DEF SpacingInv
      <4>2. PICK k \in Nat : lastEvent = act[d] + k * Interval
        BY <4>1 DEF OnGrid
      <4>3. when = NextAt /\ NextAt = lastEvent + Interval
        BY <1>0, <1>2, <1>3, <3>1, <3>3, <4>1 DEF OnGrid
      <4>4. k * Interval \in Nat /\ (k + 1) * Interval = k * Interval + Interval
        BY Multiples
      <4>5. lastEvent' = act'[d] + (k + 1) * Interval
        BY <1>0, <1>2, <3>1, <4>2, <4>3, <4>4
      <4>6. k + 1 \in Nat
        OBVIOUS
      <4> WITNESS k + 1 \in Nat
      <4> QED
        BY <4>5
    <3> QED
      BY <1>0, <1>2, <1>3, <3>1, <3>2, <3>3
  <2> QED
    BY <2>1, <2>2
<1>8. ASSUME NEW d \in Holding', NEW e \in Holding', d # e
      PROVE  Apart(act'[d], act'[e])
  <2>1. CASE d = c
    BY <1>0, <1>3, <1>4, <1>5, <1>8, <2>1 DEF Apart
  <2>2. CASE e = c
    BY <1>0, <1>3, <1>4, <1>5, <1>8, <2>2 DEF Apart
  <2>3. CASE d # c /\ e # c
    BY <1>4, <1>8, <2>3 DEF SpacingInv
  <2> QED
    BY <2>1, <2>2, <2>3
<1> QED
  BY <1>6, <1>7, <1>8 DEF SpacingInv, OnGrid, Apart

(* CancelAt: a reservation that is not over and that no other followed     *)
(* gives its instant back; any other gives nothing.                        *)
LEMMA CancelSpaced ==
    ASSUME TypeOK, SpacingInv, NEW c \in Slot, WaitCancel(c), ~overtaken'
    PROVE  SpacingInv'
<1> USE TimeAssumption
<1>0. /\ tokens \in Int /\ last \in Int /\ lastEvent \in Int /\ granted \in Int /\ NextAt \in Int
      /\ \A d \in Slot : act[d] \in Int
      /\ act \in [Slot -> Nat] /\ waiter \in [Slot -> Ended \cup Running]
  BY DEF TypeOK, NextAt
<1>1. waiter[c] = "cancel" /\ CancelAt(c, mark[c]) /\ granted' = granted
      /\ waiter' = [waiter EXCEPT ![c] = "canceled"] /\ act' = [act EXCEPT ![c] = 0]
  BY DEF WaitCancel, WaitLeave, WaitGoto
<1>2. /\ c \in Holding /\ Holding' = Holding \ {c} /\ \A d \in Holding' : act'[d] = act[d]
  BY <1>0, <1>1 DEF Holding
<1>3. CASE UNCHANGED <<tokens, last, lastEvent>>
  BY <1>1, <1>2, <1>3, SpacingFrame
<1>4. CASE ~UNCHANGED <<tokens, last, lastEvent>>
  <2>1. /\ act[c] >= mark[c] /\ Restored(c) > 0 /\ mark[c] \in Nat
        /\ tokens' = Least(Interval, TokensNow(mark[c]) + Restored(c)) /\ last' = mark[c]
        /\ overtaken' = (overtaken \/ mark[c] < last)
        /\ lastEvent' = IF act[c] = lastEvent /\ act[c] - Interval >= mark[c]
                        THEN act[c] - Interval ELSE lastEvent
    BY <1>1, <1>4, Canceled
  <2>2. mark[c] >= last
    <3>1. ~(mark[c] < last)
      BY <2>1
    <3> QED
      BY <1>0, <2>1, <3>1
  <2>3. OnGrid(act[c])
    BY <1>0, <1>2, <2>1, <2>2 DEF SpacingInv
  <2>4. lastEvent = act[c]
    <3>1. PICK k \in Nat : lastEvent = act[c] + k * Interval
      BY <2>3 DEF OnGrid
    <3>2. k * Interval = 0 \/ k * Interval >= Interval
      BY Multiples
    <3>3. Interval - (lastEvent - act[c]) > 0
      BY <2>1 DEF Restored
    <3> QED
      BY <1>0, <3>1, <3>2, <3>3, Multiples
  <2>5. NextAt = act[c] + Interval
    BY <2>3, <2>4 DEF OnGrid
  <2>6. tokens' = Interval + mark[c] - act[c]
    <3>1. Restored(c) = Interval
      BY <1>0, <2>4 DEF Restored
    <3>2. TokensNow(mark[c]) = mark[c] - act[c]
      BY <1>0, <2>1, <2>2, <2>5, TokensThen DEF Least
    <3> QED
      BY <1>0, <2>1, <3>1, <3>2 DEF Least
  <2>7. NextAt' = act[c]
    BY <1>0, <2>1, <2>6 DEF NextAt
  <2>8. lastEvent' = IF act[c] - Interval >= mark[c] THEN act[c] - Interval ELSE act[c]
    BY <2>1, <2>4
  <2>9. granted' <= lastEvent' /\ granted' + Interval <= NextAt'
    BY <1>0, <1>1, <1>2, <2>4, <2>7, <2>8 DEF SpacingInv, Apart
  <2>10. \A d \in Holding' : act[d] \in Int /\ d \in Holding /\ act[d] + Interval <= act[c]
    BY <1>0, <1>2, <2>4 DEF SpacingInv, Apart, Holding
  <2>11. ASSUME NEW d \in Holding'
         PROVE  /\ act'[d] + Interval <= NextAt'
                /\ act'[d] <= lastEvent'
                /\ Apart(act'[d], granted')
                /\ act'[d] >= last' =>
                      /\ NextAt' = lastEvent' + Interval
                      /\ \E k \in Nat : lastEvent' = act'[d] + k * Interval
    <3>1. act'[d] = act[d] /\ d \in Holding /\ act[d] \in Int /\ act[d] + Interval <= act[c]
      BY <1>2, <2>10
    <3>2. Apart(act'[d], granted')
      BY <1>1, <3>1 DEF SpacingInv
    <3>3. ASSUME act'[d] >= last'
          PROVE  /\ NextAt' = lastEvent' + Interval
                 /\ \E k \in Nat : lastEvent' = act'[d] + k * Interval
      <4>1. act[c] - Interval >= mark[c] /\ lastEvent' = act[c] - Interval
        BY <1>0, <2>1, <2>8, <3>1, <3>3
      <4>2. PICK k \in Nat : lastEvent = act[d] + k * Interval
        <5>1. OnGrid(act[d])
          BY <1>0, <2>1, <2>2, <3>1, <3>3 DEF SpacingInv
        <5> QED
          BY <5>1 DEF OnGrid
      <4>3. k * Interval # 0
        BY <1>0, <2>4, <3>1, <4>2
      <4>4. k - 1 \in Nat /\ k * Interval = (k - 1) * Interval + Interval
            /\ (k - 1) * Interval \in Nat
        BY <4>3, Multiples
      <4>5. lastEvent' = act'[d] + (k - 1) * Interval
        BY <1>0, <2>4, <3>1, <4>1, <4>2, <4>4
      <4>6. \E j \in Nat : lastEvent' = act'[d] + j * Interval
        <5>1. k - 1 \in Nat
          BY <4>4
        <5> WITNESS k - 1 \in Nat
        <5> QED
          BY <4>5
      <4>7. NextAt' = lastEvent' + Interval
        BY <1>0, <2>7, <4>1
      <4> QED
        BY <4>6, <4>7
    <3> QED
      BY <1>0, <2>7, <2>8, <3>1, <3>2, <3>3
  <2>12. \A d, e \in Holding' : d # e => Apart(act'[d], act'[e])
    BY <1>2 DEF SpacingInv
  <2> QED
    BY <2>9, <2>11, <2>12 DEF SpacingInv, OnGrid, Apart
<1> QED
  BY <1>3, <1>4

(* What a step that is none of WaitReserve, WaitGrant and WaitCancel does. *)
LEMMA OtherSteps ==
    ASSUME TypeOK, [Next]_vars,
           \A c \in Slot : ~WaitReserve(c) /\ ~WaitGrant(c) /\ ~WaitCancel(c)
    PROVE  UNCHANGED <<limiterVars, act, granted, Holding>>
<1>0. waiter \in [Slot -> Ended \cup Running]
  BY DEF TypeOK
<1>1. ASSUME NEW c \in Slot, CheckStart(c) \/ Check(c) \/ Advance(c)
      PROVE  UNCHANGED <<limiterVars, act, granted, Holding>>
  BY <1>0, <1>1 DEF CheckStart, Check, SelectRoot, SelectWc, SelectTimeout, Drained, Return,
     Advance, Holding, Ended
<1>2. ASSUME NEW c \in Slot, WaitBegin(c) \/ WaitClock(c) \/ WaitQuit(c)
      PROVE  UNCHANGED <<limiterVars, act, granted, Holding>>
  BY <1>0, <1>2 DEF WaitBegin, WaitClock, WaitQuit, WaitGoto, Holding
<1>3. CASE RootCancel \/ Tick \/ UNCHANGED vars
  BY <1>3 DEF RootCancel, Tick, vars, limiterVars, Holding
<1> QED
  BY <1>1, <1>2, <1>3 DEF Next, Waiter

(* A token is granted when the timer has fired: the reservation is gone.   *)
LEMMA Granted ==
    ASSUME TypeOK, NEW c \in Slot, WaitGrant(c)
    PROVE  /\ UNCHANGED <<now, tokens, last, lastEvent, overtaken, lost>> /\ granted' = act[c]
           /\ waiter[c] = "wait" /\ mark[c] <= now
           /\ c \in Holding /\ Holding' = Holding \ {c} /\ \A d \in Holding' : act'[d] = act[d]
BY DEF WaitGrant, WaitGoto, checkVars, limiterVars, Holding, TypeOK

(* Every step keeps the reservations apart.                                *)
LEMMA SpacingStep == TypeOK /\ Spaced /\ [Next]_vars => Spaced'
<1> SUFFICES ASSUME TypeOK, Spaced, [Next]_vars, ~overtaken' PROVE SpacingInv'
  BY DEF Spaced
<1>1. ASSUME NEW c \in Slot, WaitReserve(c)
      PROVE  SpacingInv'
  <2>1. overtaken' = (overtaken \/ mark[c] < last) /\ mark[c] \in Nat /\ last \in Int
    BY <1>1, Reserved DEF WaitReserve, WaitGoto, TypeOK
  <2>2. ~overtaken /\ ~(mark[c] < last)
    BY <2>1
  <2>3. SpacingInv /\ mark[c] >= last
    BY <2>1, <2>2 DEF Spaced
  <2> QED
    BY <1>1, <2>3, ReserveSpaced
<1>2. ASSUME NEW c \in Slot, WaitGrant(c)
      PROVE  SpacingInv'
  <2>1. SpacingInv
    BY <1>2, Granted DEF Spaced
  <2> QED
    BY <1>2, <2>1, Granted DEF SpacingInv, NextAt, Apart, OnGrid
<1>3. ASSUME NEW c \in Slot, WaitCancel(c)
      PROVE  SpacingInv'
  <2>1. ~overtaken
    <3>1. overtaken' = overtaken \/ overtaken' = (overtaken \/ mark[c] < last)
      BY <1>3, Canceled DEF WaitCancel, WaitLeave, WaitGoto
    <3> QED
      BY <3>1
  <2> QED
    BY <1>3, <2>1, CancelSpaced DEF Spaced
<1>4. CASE \A c \in Slot : ~WaitReserve(c) /\ ~WaitGrant(c) /\ ~WaitCancel(c)
  <2>1. UNCHANGED <<tokens, last, lastEvent, overtaken, act, granted, Holding>>
    BY <1>4, OtherSteps DEF limiterVars
  <2> QED
    BY <2>1, SpacingFrame DEF Spaced
<1> QED
  BY <1>1, <1>2, <1>3, <1>4

(* Tokens are granted for instants an interval apart, for any number of    *)
(* goroutines that wait, give up and give their tokens back in any order,  *)
(* until one uses a reading of the clock that a later one has overtaken.   *)
THEOREM GrantsAreSpaced == Spec => GrantSpacing
<1>1. Init => Spaced
  BY TimeAssumption DEF Init, Spaced, SpacingInv, NextAt, Holding
<1>2. TypeOK /\ Spaced /\ [Next]_vars =>
        [\A c \in Slot : waiter[c] = "wait" /\ waiter'[c] = "granted" /\ ~overtaken =>
           act[c] - granted >= Interval \/ granted - act[c] >= Interval]_vars
  <2> SUFFICES ASSUME TypeOK, Spaced, NEW c \in Slot, waiter[c] = "wait", ~overtaken
               PROVE  act[c] - granted >= Interval \/ granted - act[c] >= Interval
    OBVIOUS
  <2>1. Apart(act[c], granted)
    BY DEF Spaced, SpacingInv, Holding
  <2> QED
    BY <2>1, TimeAssumption DEF Apart, TypeOK
<1> QED
  BY <1>1, <1>2, LimiterTypes, SpacingStep, PTL DEF Spec, GrantSpacing

-----------------------------------------------------------------------------
(***************************************************************************)
(* The inductive invariant behind DebtBounded: the bound holds of every    *)
(* instant from now on, with only the reservations after that instant      *)
(* counted, and a timer never fires before the instant reserved.           *)
(***************************************************************************)
After(t) == {c \in Holding : act[c] > t}

Debtors(t) == 1 + Cardinality(After(t)) + lost

DebtInv ==
    /\ \A c \in Slot : waiter[c] = "wait" => act[c] <= mark[c]
    /\ \A t \in Nat : t >= now => NextAt <= t + Interval * Debtors(t)

(* The reservations held are finitely many.                                *)
LEMMA AfterFinite ==
    ASSUME TypeOK, TypeOK', NEW t
    PROVE  /\ IsFiniteSet(After(t)) /\ Cardinality(After(t)) \in Nat /\ Debtors(t) \in Nat \ {0}
           /\ Cardinality(After(t)') \in Nat /\ Debtors(t)' \in Nat \ {0}
<1>1. After(t) \subseteq Slot /\ After(t)' \subseteq Slot
  BY DEF After, Holding
<1>2. /\ IsFiniteSet(After(t)) /\ Cardinality(After(t)) \in Nat
      /\ Cardinality(After(t)') \in Nat
  BY <1>1, SlotAssumption, FS_Subset, FS_CardinalityType
<1> QED
  BY <1>2 DEF Debtors, TypeOK

(* The bound follows the next token: m debtors now, n before.              *)
LEMMA DebtKept ==
    ASSUME NEW m \in Nat \ {0}, NEW n \in Nat \ {0}, NEW next \in Int, NEW before \in Int,
           NEW t \in Nat, before <= t + Interval * n,
           \/ next <= t + Interval
           \/ next <= before /\ m >= n
           \/ next <= before + Interval /\ m >= n + 1
           \/ next <= before - Interval /\ m >= n - 1
    PROVE  next <= t + Interval * m
<1> USE TimeAssumption
<1>1. Interval * m \in Nat /\ Interval * n \in Nat /\ Interval * (n + 1) = Interval * n + Interval
      /\ Interval * (n - 1) = Interval * n - Interval
  OBVIOUS
<1>2. Interval * m >= Interval
  OBVIOUS
<1>3. /\ m >= n => Interval * m >= Interval * n
      /\ m >= n + 1 => Interval * m >= Interval * (n + 1)
      /\ m >= n - 1 => Interval * m >= Interval * (n - 1)
  OBVIOUS
<1> QED
  BY <1>1, <1>2, <1>3

(* The bucket is left alone, no time passes back, and whoever no longer    *)
(* holds a reservation either let it pass or is counted as lost.           *)
LEMMA DebtFrame ==
    ASSUME TypeOK, TypeOK', DebtInv, UNCHANGED <<tokens, last>>, NEW t \in Nat, t >= now,
           Debtors(t)' >= Debtors(t)
    PROVE  NextAt' <= t + Interval * Debtors(t)'
<1>1. NextAt' <= NextAt /\ NextAt' \in Int /\ NextAt \in Int
      /\ NextAt <= t + Interval * Debtors(t)
  BY TimeAssumption DEF NextAt, TypeOK, DebtInv
<1>2. Debtors(t) \in Nat \ {0}
  BY AfterFinite
<1>3. Debtors(t)' \in Nat \ {0}
  BY AfterFinite
<1> QED
  BY <1>1, <1>2, <1>3, DebtKept

(* reserveN: one more reservation is held, unless it is for the reading.   *)
LEMMA ReserveDebt ==
    ASSUME TypeOK, TypeOK', DebtInv, NEW c \in Slot, WaitReserve(c), NEW t \in Nat, t >= now
    PROVE  NextAt' <= t + Interval * Debtors(t)'
<1> USE TimeAssumption
<1>1. waiter[c] = "reserve" /\ Reserve(c) /\ waiter' = [waiter EXCEPT ![c] = "wait"]
  BY DEF WaitReserve, WaitGoto
<1>2. /\ now \in Nat /\ mark[c] \in Nat /\ mark[c] <= now /\ act[c]' \in Nat
      /\ act' = [act EXCEPT ![c] = act[c]'] /\ lost' = lost /\ NextAt' = act[c]' + Interval
      /\ act[c]' = mark[c] \/ act[c]' <= NextAt
  BY <1>1, Reserved DEF TypeOK
<1>3. NextAt \in Int /\ NextAt <= t + Interval * Debtors(t)
  BY DEF NextAt, TypeOK, DebtInv
<1>4. Debtors(t) \in Nat \ {0} /\ IsFiniteSet(After(t)) /\ Cardinality(After(t)) \in Nat
  BY AfterFinite
<1>5. Debtors(t)' \in Nat \ {0}
  BY AfterFinite
<1>6. CASE act[c]' <= t
  <2>1. NextAt' \in Int /\ NextAt' <= t + Interval
    BY <1>2, <1>6
  <2> QED
    BY <1>3, <1>4, <1>5, <2>1, DebtKept
<1>7. CASE ~(act[c]' <= t)
  <2>1. After(t)' = After(t) \cup {c} /\ c \notin After(t)
    BY <1>1, <1>2, <1>7 DEF After, Holding, TypeOK
  <2>2. Cardinality(After(t)') = Cardinality(After(t)) + 1
    BY <1>4, <2>1, FS_AddElement
  <2>3. Debtors(t)' = Debtors(t) + 1
    BY <1>2, <1>4, <2>2 DEF Debtors, TypeOK
  <2>4. NextAt' <= NextAt + Interval
    BY <1>2, <1>3, <1>7
  <2>5. NextAt' \in Int /\ Debtors(t)' >= Debtors(t) + 1
    BY <1>2, <1>4, <2>3
  <2> QED
    BY <1>3, <1>4, <1>5, <2>4, <2>5, DebtKept
<1> QED
  BY <1>6, <1>7

(* CancelAt: the reservation given back was over, or it was the last one   *)
(* and its token is back, or it is lost.                                   *)
LEMMA CancelDebt ==
    ASSUME TypeOK, TypeOK', DebtInv, NEW c \in Slot, WaitCancel(c), NEW t \in Nat, t >= now
    PROVE  NextAt' <= t + Interval * Debtors(t)'
<1> USE TimeAssumption
<1>1. waiter[c] = "cancel" /\ CancelAt(c, mark[c])
      /\ waiter' = [waiter EXCEPT ![c] = "canceled"] /\ act' = [act EXCEPT ![c] = 0]
  BY DEF WaitCancel, WaitLeave, WaitGoto
<1>2. /\ now \in Nat /\ mark[c] \in Nat /\ mark[c] <= now /\ act[c] \in Nat /\ Restored(c) \in Int
      /\ lost' = IF act[c] >= mark[c] /\ lastEvent > act[c] THEN lost + 1 ELSE lost
      /\ lost \in Nat /\ lastEvent \in Int
  BY <1>1, Canceled DEF TypeOK
<1>3. /\ NextAt \in Int /\ NextAt <= t + Interval * Debtors(t)
  BY DEF NextAt, TypeOK, DebtInv
<1>4. NextAt' \in Int
  BY DEF NextAt, TypeOK
<1>5. Debtors(t) \in Nat \ {0} /\ IsFiniteSet(After(t)) /\ Cardinality(After(t)) \in Nat
  BY AfterFinite
<1>6. Debtors(t)' \in Nat \ {0} /\ Cardinality(After(t)') \in Nat
  BY AfterFinite
<1>7. /\ After(t)' = After(t) \ {c}
      /\ c \in After(t) <=> act[c] > t
  BY <1>1 DEF After, Holding, TypeOK
<1>8. /\ act[c] > t => Cardinality(After(t)') = Cardinality(After(t)) - 1
      /\ act[c] <= t => Cardinality(After(t)') = Cardinality(After(t))
  <2>1. CASE act[c] > t
    <3>1. Cardinality(After(t) \ {c}) = Cardinality(After(t)) - 1
      BY <1>5, <1>7, <2>1, FS_RemoveElement
    <3> QED
      BY <1>2, <1>7, <2>1, <3>1
  <2>2. CASE ~(act[c] > t)
    BY <1>2, <1>7, <2>2
  <2> QED
    BY <1>2, <2>1, <2>2
<1>9. CASE /\ act[c] < mark[c] \/ Restored(c) <= 0
           /\ UNCHANGED <<tokens, last, lastEvent, overtaken>>
  <2>1. Debtors(t)' >= Debtors(t)
    <3>1. CASE act[c] < mark[c]
      BY <1>2, <1>5, <1>6, <1>8, <3>1 DEF Debtors
    <3>2. CASE ~(act[c] < mark[c])
      <4>1. lost' = lost + 1
        BY <1>2, <1>9, <3>2 DEF Restored
      <4> QED
        BY <1>2, <1>5, <1>6, <1>8, <4>1 DEF Debtors
    <3> QED
      BY <3>1, <3>2
  <2> QED
    BY <1>9, <2>1, DebtFrame
<1>10. CASE /\ act[c] >= mark[c] /\ Restored(c) > 0
            /\ NextAt' = mark[c] \/ NextAt' <= NextAt - Restored(c)
  <2>1. CASE NextAt' = mark[c]
    <3>1. NextAt' <= t + Interval
      BY <1>2, <2>1
    <3> QED
      BY <1>3, <1>4, <1>5, <1>6, <3>1, DebtKept
  <2>2. CASE NextAt' <= NextAt - Restored(c) /\ lastEvent > act[c]
    <3>1. Debtors(t)' >= Debtors(t)
      BY <1>2, <1>5, <1>6, <1>8, <1>10, <2>2 DEF Debtors
    <3>2. NextAt' <= NextAt
      BY <1>2, <1>3, <1>4, <1>10, <2>2
    <3> QED
      BY <1>3, <1>4, <1>5, <1>6, <3>1, <3>2, DebtKept
  <2>3. CASE NextAt' <= NextAt - Restored(c) /\ ~(lastEvent > act[c])
    <3>1. Debtors(t)' >= Debtors(t) - 1
      BY <1>2, <1>5, <1>6, <1>8, <2>3 DEF Debtors
    <3>2. NextAt' <= NextAt - Interval
      BY <1>2, <1>3, <1>4, <2>3 DEF Restored
    <3> QED
      BY <1>3, <1>4, <1>5, <1>6, <3>1, <3>2, DebtKept
  <2> QED
    BY <1>10, <2>1, <2>2, <2>3
<1> QED
  BY <1>1, <1>9, <1>10, Canceled

(* Every step keeps the debt bounded.                                      *)
LEMMA DebtStep == TypeOK /\ DebtInv /\ [Next]_vars => DebtInv'
<1> SUFFICES ASSUME TypeOK, DebtInv, [Next]_vars PROVE DebtInv'
  OBVIOUS
<1>0. TypeOK'
  BY TypeStep
<1>1. now' >= now /\ now \in Nat /\ now' \in Nat
  BY <1>0 DEF TypeOK, Next, vars, CheckStart, Check, SelectRoot, SelectWc, SelectTimeout, Drained,
     Return, Advance, Waiter, WaitBegin, WaitClock, WaitReserve, WaitGrant, WaitQuit, WaitCancel,
     WaitLeave, WaitGoto, checkVars, RootCancel, Tick
<1>2. \A c \in Slot : waiter'[c] = "wait" => act'[c] <= mark'[c]
  <2> SUFFICES ASSUME NEW c \in Slot, waiter'[c] = "wait" PROVE act'[c] <= mark'[c]
    OBVIOUS
  <2>1. CASE UNCHANGED <<waiter[c], act[c], mark[c]>>
    BY <2>1 DEF DebtInv
  <2>2. CASE WaitReserve(c)
    BY <2>2, Reserved, <1>0 DEF WaitReserve, WaitGoto, TypeOK
  <2> QED
    BY <2>1, <2>2 DEF TypeOK, Next, vars, CheckStart, Check, SelectRoot, SelectWc, SelectTimeout,
       Drained, Return, Advance, Waiter, WaitBegin, WaitClock, WaitReserve, WaitGrant, WaitQuit,
       WaitCancel, WaitLeave, WaitGoto, Reserve, RootCancel, Tick
<1>3. ASSUME NEW t \in Nat, t >= now'
      PROVE  NextAt' <= t + Interval * Debtors(t)'
  <2>0. t >= now
    BY <1>1, <1>3
  <2>1. ASSUME NEW c \in Slot, WaitReserve(c)
        PROVE  NextAt' <= t + Interval * Debtors(t)'
    BY <1>0, <2>0, <2>1, ReserveDebt
  <2>2. ASSUME NEW c \in Slot, WaitGrant(c)
        PROVE  NextAt' <= t + Interval * Debtors(t)'
    <3>1. act[c] <= t
      BY <1>1, <2>0, <2>2, Granted DEF DebtInv, TypeOK
    <3>2. After(t)' = After(t) /\ UNCHANGED <<tokens, last, lost>>
      BY <1>1, <2>2, <3>1, Granted DEF After, TypeOK
    <3>3. Debtors(t)' = Debtors(t)
      BY <3>2 DEF Debtors
    <3>4. Debtors(t) \in Nat
      BY <1>0, AfterFinite
    <3>5. Debtors(t)' >= Debtors(t)
      BY <3>3, <3>4
    <3> QED
      BY <1>0, <2>0, <3>2, <3>5, DebtFrame
  <2>3. ASSUME NEW c \in Slot, WaitCancel(c)
        PROVE  NextAt' <= t + Interval * Debtors(t)'
    BY <1>0, <2>0, <2>3, CancelDebt
  <2>4. CASE \A c \in Slot : ~WaitReserve(c) /\ ~WaitGrant(c) /\ ~WaitCancel(c)
    <3>1. UNCHANGED <<tokens, last, lost, act, Holding>>
      BY <2>4, OtherSteps DEF limiterVars
    <3>2. Debtors(t)' = Debtors(t)
      BY <3>1 DEF Debtors, After
    <3>3. Debtors(t) \in Nat
      BY <1>0, AfterFinite
    <3>4. Debtors(t)' >= Debtors(t)
      BY <3>2, <3>3
    <3> QED
      BY <1>0, <2>0, <3>1, <3>4, DebtFrame
  <2> QED
    BY <2>1, <2>2, <2>3, <2>4
<1> QED
  BY <1>2, <1>3 DEF DebtInv

(* The bucket is never in debt for more than the reservations still held   *)
(* and those lost when others had been made after them, whatever readings  *)
(* of the clock are overtaken: no token disappears in any other way.       *)
THEOREM DebtsAreBounded == Spec => []DebtBounded
<1>1. Init => DebtInv
  <2> SUFFICES ASSUME Init PROVE DebtInv
    OBVIOUS
  <2>1. NextAt = 0 /\ \A t : After(t) = {}
    BY TimeAssumption DEF Init, NextAt, After, Holding
  <2>2. \A t : Debtors(t) = 1
    BY <2>1, FS_EmptySet DEF Debtors, Init
  <2> QED
    BY <2>1, <2>2, TimeAssumption DEF Init, DebtInv
<1>2. TypeOK /\ DebtInv => DebtBounded
  <2> SUFFICES ASSUME TypeOK, DebtInv PROVE DebtBounded
    OBVIOUS
  <2>1. now \in Nat /\ now >= now
    BY DEF TypeOK
  <2> QED
    BY <2>1 DEF DebtInv, DebtBounded, Debtors, After
<1> QED
  BY <1>1, <1>2, LimiterTypes, DebtStep, PTL DEF Spec

=============================================================================
