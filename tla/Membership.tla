------------------------------ MODULE Membership ------------------------------
(***************************************************************************)
(* The list of members of a cluster: Start builds it, Add appends to it,   *)
(* Remove takes out of it, and clientHostToIndex maps client hosts to      *)
(* indexes into it (cluster/cluster.go).  Add and Remove hold opLock and   *)
(* mmu from beginning to end, Stop, Restart and Shutdown hold opLock, so   *)
(* each of them is one step here; MemberOps has the steps inside Stop,     *)
(* Restart and Shutdown.  Of a member's status only this is kept: whether  *)
(* it says Stopped of a server that is up.                                 *)
(*                                                                         *)
(* A member is identified by its client port; its peer port is the next.   *)
(* The port is all that is left of its URLs, and the number in its name,   *)
(* "node<k>", all that is left of its data directory's path.               *)
(***************************************************************************)
EXTENDS Naturals, FiniteSets

CONSTANTS
    Size,           \* Config.Size
    RootPort,       \* Config.RootPort
    EmbeddedClient, \* Config.EmbeddedClient
    MaxAdds         \* bound: calls of Add

ASSUME ClusterAssumption ==
    /\ Size \in Nat \ {0}
    /\ RootPort \in Nat \ {0}
    /\ EmbeddedClient \in BOOLEAN
    /\ MaxAdds \in Nat

VARIABLES
    size,       \* Cluster.size
    members,    \* Cluster.Members, from index to port
    basePort,   \* Cluster.basePort, the next client port
    hostIdx,    \* Cluster.clientHostToIndex
    node,       \* the number in cfg.Name, of every member ever made
    srv,        \* Member.srv, likewise: "none" (nil), "up", "down" (closed),
                \* or "stray", up although the status says Stopped
    dir,        \* whose data each directory holds, 0 if it is gone
    raft,       \* the members etcd itself knows (external)
    phase       \* "running", "shut", or "crashed" by a panic

Servers == {"none", "up", "down", "stray"}

vars == <<size, members, basePort, hostIdx, node, srv, dir, raft, phase>>

Nodes == 1 .. Size + MaxAdds

OnePort == 1

(* The ports a member takes: one for clients, one for peers.               *)
PortsPerMember == 2

Listed == {members[j] : j \in 0 .. size - 1}

Put(f, x, v) == [y \in DOMAIN f \cup {x} |-> IF y = x THEN v ELSE f[y]]

(* Start, once it has returned without error.                              *)
Init ==
    /\ size = Size
    /\ members = [j \in 0 .. Size - 1 |-> RootPort + PortsPerMember * j]
    /\ basePort = RootPort + PortsPerMember * Size
    /\ hostIdx = [p \in Listed |-> CHOOSE j \in 0 .. Size - 1 : members[j] = p]
    /\ node = [p \in Listed |-> hostIdx[p] + 1]
    /\ srv = [p \in Listed |-> "up"]
    /\ dir = [k \in Nodes |-> IF k <= Size THEN members[k - 1] ELSE 0]
    /\ raft = Listed
    /\ phase = "running"

-----------------------------------------------------------------------------
(* etcd accepts a change of membership through a member of it that is up,  *)
(* while a quorum is up.                                                   *)
RaftAccepts(via) ==
    /\ via \in raft
    /\ srv[via] \in {"up", "stray"}
    /\ 2 * Cardinality({p \in raft : srv[p] \in {"up", "stray"}}) > Cardinality(raft)

(* Member.Client dereferences the server when the client is embedded.      *)
ClientPanics(via) == EmbeddedClient /\ srv[via] = "none"

(* Add names the new member after the size the cluster will have.          *)
NewNode == size + 1

(* What Add does before it asks etcd: all of it stays if a later step      *)
(* fails.  The new member's server is what the call ends with.             *)
Grow(server) ==
    /\ phase = "running"
    /\ size < Size + MaxAdds
    /\ basePort < RootPort + PortsPerMember * (Size + MaxAdds)
    /\ node' = Put(node, basePort, NewNode)
    /\ size' = size + 1
    /\ basePort' = basePort + PortsPerMember
    /\ members' = Put(members, size, basePort)
    /\ hostIdx' = Put(hostIdx, basePort, size)
    /\ srv' = Put(srv, basePort, server)
    /\ dir' = [dir EXCEPT ![NewNode] = IF server = "none" THEN 0 ELSE basePort]

(* No client, or MemberAdd failed; it may have been applied all the same.  *)
(* Members[0].Client does not panic: AddFindsServer.                       *)
AddFails ==
    /\ Grow("none")
    /\ raft' = raft \/ (RaftAccepts(members[0]) /\ raft' = raft \cup {basePort})
    /\ UNCHANGED phase

(* MemberAdd succeeded; Member.Start may fail before it has a server, or   *)
(* with one that stopped or that runs on without being ready.              *)
AddJoins ==
    /\ RaftAccepts(members[0])
    /\ \E server \in Servers : Grow(server)
    /\ raft' = raft \cup {basePort}
    /\ UNCHANGED phase

-----------------------------------------------------------------------------
ViaBefore(i) == members[(i + size - 1) % size]

(* The member Remove talks to: the one behind the one that goes.           *)
Via(i) == members[(i + 1) % size]

RemovePanics(i) ==
    /\ phase = "running"
    /\ ClientPanics(Via(i)) \/ srv[members[i]] = "none"
    /\ phase' = "crashed"
    /\ UNCHANGED <<size, members, basePort, hostIdx, node, srv, dir, raft>>

CanRemove(i) ==
    /\ phase = "running"
    /\ ~ClientPanics(Via(i))
    /\ srv[members[i]] # "none"

(* etcd never lets the last member go.                                     *)
RaftRemoves(i) ==
    /\ RaftAccepts(Via(i))
    /\ members[i] \in raft
    /\ raft # {members[i]}

Drop(f, i, n) == [j \in 0 .. n - 2 |-> IF j < i THEN f[j] ELSE f[j + 1]]

RemoveFailsLate(i) ==
    /\ CanRemove(i)
    /\ size > 1
    /\ size' = size - 1
    /\ members' = Drop(members, i, size)
    /\ hostIdx' = [p \in DOMAIN hostIdx |->
                     IF \E j \in 0 .. size' - 1 : members'[j] = p
                     THEN CHOOSE j \in 0 .. size' - 1 : members'[j] = p ELSE hostIdx[p]]
    /\ UNCHANGED <<basePort, node, srv, dir, raft, phase>>

(* No client, which comes before the server that goes is looked at, or     *)
(* MemberRemove failed; it may have been applied.                          *)
RemoveFails(i) ==
    /\ phase = "running"
    /\ ~ClientPanics(Via(i))
    /\ raft' = raft \/ (CanRemove(i) /\ RaftRemoves(i) /\ raft' = raft \ {members[i]})
    /\ UNCHANGED <<size, members, basePort, hostIdx, node, srv, dir, phase>>

ReindexNone(ms, n) == hostIdx

(* The hosts of the members that stay get their new indexes.  The host of  *)
(* the member that goes keeps its entry.                                   *)
Reindex(ms, n) ==
    [p \in DOMAIN hostIdx |->
        IF \E j \in 0 .. n - 1 : ms[j] = p
        THEN CHOOSE j \in 0 .. n - 1 : ms[j] = p
        ELSE hostIdx[p]]

(* Member.Stop does nothing to a server whose status says Stopped.         *)
Closed(server) == IF server = "up" THEN "down" ELSE server

SizeKept(i)    == size
SizeWithout(i) == size - 1

(* MemberRemove succeeded.  Members[i] is read again after the list has    *)
(* shrunk: it is the next member that is stopped and loses its data.       *)
RemoveDone(i) ==
    /\ CanRemove(i)
    /\ RaftRemoves(i)
    /\ size' = SizeWithout(i)
    /\ members' = Drop(members, i, size)
    /\ hostIdx' = Reindex(members', size - 1)
    /\ raft' = raft \ {members[i]}
    /\ IF i < size - 1 /\ srv[members[i + 1]] # "none"
       THEN /\ srv' = [srv EXCEPT ![members[i + 1]] = Closed(@)]
            /\ dir' = [dir EXCEPT ![node[members[i + 1]]] = 0]
            /\ UNCHANGED phase
       ELSE phase' = "crashed" /\ UNCHANGED <<srv, dir>>
    /\ UNCHANGED <<basePort, node>>

-----------------------------------------------------------------------------
(* Stop, Restart and Shutdown name the server before they look at anything *)
(* else, and panic on a member that has none.                              *)
OpPanics(some) ==
    /\ phase = "running"
    /\ \E j \in some : srv[members[j]] = "none"
    /\ phase' = "crashed"
    /\ UNCHANGED <<size, members, basePort, hostIdx, node, srv, dir, raft>>

Stop(i) ==
    /\ phase = "running"
    /\ srv[members[i]] # "none"
    /\ srv' = [srv EXCEPT ![members[i]] = Closed(@)]
    /\ UNCHANGED <<size, members, basePort, hostIdx, node, dir, raft, phase>>

(* embed.StartEtcd makes the data directory if it is gone.  It may fail,   *)
(* and does when the old server still has the ports.                       *)
Restart(i) ==
    /\ phase = "running"
    /\ srv[members[i]] = "down"
    /\ srv' = [srv EXCEPT ![members[i]] = "up"]
    /\ dir' = [dir EXCEPT ![node[members[i]]] = IF @ = 0 THEN members[i] ELSE @]
    /\ UNCHANGED <<size, members, basePort, hostIdx, node, raft, phase>>

Shutdown ==
    /\ phase = "running"
    /\ \A p \in Listed : srv[p] # "none"
    /\ srv' = [p \in DOMAIN srv |-> IF p \in Listed THEN Closed(srv[p]) ELSE srv[p]]
    /\ dir' = [k \in Nodes |-> 0]
    /\ phase' = "shut"
    /\ UNCHANGED <<size, members, basePort, hostIdx, node, raft>>

(* A fetch of UpdateMemberStatus: one that fails makes the status of a     *)
(* server that is up say Stopped, one that succeeds makes it right again.  *)
FetchMemberStatus(i) ==
    /\ phase = "running"
    /\ srv[members[i]] \in {"up", "stray"}
    /\ srv' = [srv EXCEPT ![members[i]] = IF @ = "up" THEN "stray" ELSE "up"]
    /\ UNCHANGED <<size, members, basePort, hostIdx, node, dir, raft, phase>>

Add == AddFails \/ AddJoins

Remove(i) == RemovePanics(i) \/ RemoveFails(i) \/ RemoveDone(i)

Next ==
    \/ Add
    \/ \E i \in 0 .. size - 1 :
          Remove(i) \/ Stop(i) \/ Restart(i) \/ OpPanics({i}) \/ FetchMemberStatus(i)
    \/ Shutdown \/ OpPanics(0 .. size - 1)

Spec == Init /\ [][Next]_vars

-----------------------------------------------------------------------------
(* Every variable keeps its type; Members and size go together, whichever  *)
(* step of Add or Remove failed.                                           *)
TypeOK ==
    /\ size \in 1 .. Size + MaxAdds
    /\ basePort \in Nat
    /\ members \in [0 .. size - 1 -> DOMAIN srv]
    /\ DOMAIN srv \subseteq 1 .. basePort - 1
    /\ hostIdx \in [DOMAIN srv -> Nat]
    /\ node \in [DOMAIN srv -> Nodes]
    /\ srv \in [DOMAIN srv -> Servers]
    /\ dir \in [Nodes -> Nat]
    /\ raft \subseteq DOMAIN srv
    /\ phase \in {"running", "shut", "crashed"}

(***************************************************************************)
(* Client and FindIndex, given the client host of a member of the cluster, *)
(* lead to that member, after any sequence of Add and Remove and whichever *)
(* of their steps failed (clientHostToIndex in Start, Add and Remove).     *)
(***************************************************************************)
IndexExact == \A j \in 0 .. size - 1 : hostIdx[members[j]] = j

(***************************************************************************)
(* No two members ever made share a client or a peer port, so a new member *)
(* can listen even beside removed ones nobody closed (basePort in Start    *)
(* and Add).                                                               *)
(***************************************************************************)
PortsDisjoint ==
    \A p, q \in DOMAIN srv : p # q => {p, p + 1} \cap {q, q + 1} = {}

(***************************************************************************)
(* Whatever step of Add or Remove fails, etcd counts no member towards its *)
(* quorum that the cluster does not list any more or does not list yet     *)
(* (the order of MemberAdd and MemberRemove and the changes of Members).   *)
(***************************************************************************)
RaftKnown == raft \subseteq Listed

(***************************************************************************)
(* Add calls Client of Members[0], which dereferences its server when the  *)
(* client is embedded: there always is one, although a failed Add leaves a *)
(* member without a server in the list and Remove moves members to the     *)
(* front (Remove talks to the member that would be next at the front).     *)
(***************************************************************************)
AddFindsServer == ~ClientPanics(members[0])

-----------------------------------------------------------------------------
(* "Remove removes the member and its data" (cluster.go:339): no data of a *)
(* member is left that the cluster does not list.                          *)
RemovedDataDeleted ==
    phase = "running" => \A p \in DOMAIN srv \ Listed : dir[node[p]] # p
=============================================================================
