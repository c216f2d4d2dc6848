----------------------------- MODULE StatusTrust -----------------------------
(***************************************************************************)
(* When can the status of a member be wrong?  MemberOps with two history   *)
(* variables that no action reads.  A fetch is in "overlap" when an        *)
(* operation ran on its member at any time since the fetch began, when     *)
(* rootCtx was canceled, or when the fetch met a fault; a member is        *)
(* "suspect" from the moment such a fetch wrote its status until an        *)
(* operation or a clean fetch writes it again.                             *)
(***************************************************************************)
EXTENDS MemberOps

VARIABLES
    overlap,    \* members whose fetch in flight is not a clean one
    suspect     \* members whose status such a fetch wrote last

hvars == <<state, serving, routine, opLock, pc, whom, mmu, fetch, got,
           faults, rootDone, shut, overlap, suspect>>

HInit == Init /\ overlap = {} /\ suspect = {}

(* The fetch of m is or becomes unclean in this step.                      *)
Disturbed(m) ==
    \/ routine[m] # "idle"
    \/ routine'[m] # "idle"
    \/ rootDone'
    \/ faults' # faults /\ fetch'[m] # fetch[m]

(* FetchMemberStatus, respectively an operation, writes the status of m.   *)
FetchWrites(m) == fetch[m] = "store" /\ fetch'[m] = "idle"
OpWrites(m)    == routine[m] \in {"stopMark", "restartMark"} /\ routine'[m] # routine[m]

Track ==
    /\ overlap' = {m \in Member : fetch'[m] # "idle" /\ (m \in overlap \/ Disturbed(m))}
    /\ suspect' = {m \in Member :
                     IF FetchWrites(m) THEN m \in overlap
                                       ELSE m \in suspect /\ ~OpWrites(m)}

HNext == Next /\ Track

HSpec == HInit /\ [][HNext]_hvars

-----------------------------------------------------------------------------
(***************************************************************************)
(* While no operation runs on a member, its status and its server agree,   *)
(* unless the last to write the status was a fetch that overlapped an      *)
(* operation on that same member, the shutdown or a fault.  Stop marks the *)
(* status before it closes the server and Restart after it started one, so *)
(* this takes the order of the steps of Member.Stop, Member.Restart and    *)
(* FetchMemberStatus, and that opLock keeps two operations apart.          *)
(***************************************************************************)
TrustedStatus ==
    \A m \in Member \ suspect : routine[m] = "idle" => Agrees(m)

(***************************************************************************)
(* What Shutdown does guarantee: when it returns, every server is closed   *)
(* but those of suspect members, whom a fetch cut short by rootCancel may  *)
(* have marked Stopped before Member.Stop looked (Shutdown, Member.Stop).  *)
(***************************************************************************)
ShutdownClosesTrusted ==
    [][shut = "stopping" /\ shut' = "done" =>
         \A m \in Member \ suspect : serving[m] = "down"]_hvars

=============================================================================
