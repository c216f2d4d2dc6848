--------------------------- MODULE ClusterService ---------------------------
(***************************************************************************)
(* What a cluster promises of Stop, Restart and Shutdown, whatever runs    *)
(* beside them: a call takes effect on the server of the member it names,  *)
(* at one instant between its invocation and its return, and at most once; *)
(* Shutdown only ever closes servers; nothing else touches a server, the   *)
(* status updates least of all.  A call may return without effect: the     *)
(* member's status said there was nothing to do, or an error was returned. *)
(* Locks, statuses and fetches are no part of the promise.                 *)
(***************************************************************************)
CONSTANTS Member, Caller

VARIABLES
    serving,    \* whether the server of each member is up
    ask, on,    \* what each caller has asked for, and of which member
    shutdown    \* whether Shutdown has been called and has returned

vars == <<serving, ask, on, shutdown>>

Init ==
    /\ serving = [m \in Member |-> "up"]
    /\ ask = [c \in Caller |-> "nothing"]
    /\ on \in [Caller -> Member]
    /\ shutdown = "no"

Invoke(c, m, what) ==
    /\ ask[c] = "nothing"
    /\ ask' = [ask EXCEPT ![c] = what]
    /\ on' = [on EXCEPT ![c] = m]
    /\ UNCHANGED <<serving, shutdown>>

(* The call is over, but for its return.                                   *)
Settle(c, what) ==
    /\ ask[c] = what
    /\ ask' = [ask EXCEPT ![c] = "done"]
    /\ UNCHANGED <<on, shutdown>>

StopEffect(c) ==
    /\ Settle(c, "Stop")
    /\ serving' = [serving EXCEPT ![on[c]] = "down"]

RestartEffect(c) ==
    /\ Settle(c, "Restart")
    /\ serving[on[c]] = "down"
    /\ serving' = [serving EXCEPT ![on[c]] = "up"]

NoEffect(c) ==
    /\ Settle(c, "Stop") \/ Settle(c, "Restart")
    /\ UNCHANGED serving

Return(c) ==
    /\ ask[c] = "done"
    /\ ask' = [ask EXCEPT ![c] = "nothing"]
    /\ UNCHANGED <<serving, on, shutdown>>

ShutdownInvoke ==
    /\ shutdown = "no"
    /\ shutdown' = "called"
    /\ UNCHANGED <<serving, ask, on>>

ShutdownEffect(m) ==
    /\ shutdown = "called"
    /\ serving' = [serving EXCEPT ![m] = "down"]
    /\ UNCHANGED <<ask, on, shutdown>>

ShutdownReturn ==
    /\ shutdown = "called"
    /\ shutdown' = "done"
    /\ UNCHANGED <<serving, ask, on>>

Next ==
    \/ \E c \in Caller, m \in Member : Invoke(c, m, "Stop") \/ Invoke(c, m, "Restart")
    \/ \E c \in Caller : StopEffect(c) \/ RestartEffect(c) \/ NoEffect(c) \/ Return(c)
    \/ \E m \in Member : ShutdownEffect(m)
    \/ ShutdownInvoke \/ ShutdownReturn

Spec == Init /\ [][Next]_vars
=============================================================================
