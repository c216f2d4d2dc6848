--------------------------- MODULE Membership_proofs ---------------------------
(***************************************************************************)
(* Theorems about Membership, for every size of the cluster, every root    *)
(* port and every number of calls of Add: the types, the index of hosts,   *)
(* the ports, what etcd knows against what the cluster lists, and the      *)
(* server Add talks to.                                                    *)
(***************************************************************************)
EXTENDS Membership, TLAPS

(* Every port is taken for good, with the one above it.                    *)
PortInv ==
    /\ \A p \in DOMAIN srv : p + 2 <= basePort
    /\ \A p, q \in DOMAIN srv : p < q => p + 2 <= q

Inv == TypeOK /\ IndexExact /\ PortInv /\ RaftKnown /\ AddFindsServer

(* The list is without repetition: the index tells its entries apart.      *)
LEMMA Distinct ==
    ASSUME IndexExact, NEW j \in 0 .. size - 1, NEW k \in 0 .. size - 1, members[j] = members[k]
    PROVE  j = k
  BY DEF IndexExact

(* The list is never empty.                                                *)
LEMMA FrontListed ==
    ASSUME TypeOK
    PROVE  0 \in 0 .. size - 1 /\ members[0] \in DOMAIN srv /\ members[0] \in Listed
<1>1. size \in Nat /\ size >= 1
  BY ClusterAssumption DEF TypeOK
<1>2. 0 \in 0 .. size - 1
  BY <1>1
<1> QED
  BY <1>2 DEF TypeOK, Listed

(* What Add has changed by the time it asks etcd keeps the list in order.  *)
LEMMA GrowStep ==
    ASSUME Inv, NEW server \in Servers, Grow(server),
           raft' \subseteq raft \cup {basePort}, phase' \in {"running", "shut", "crashed"}
    PROVE  Inv'
<1> USE ClusterAssumption
<1>0. /\ size \in Nat /\ basePort \in Nat /\ size + 1 \in Nodes
      /\ members \in [0 .. size - 1 -> DOMAIN srv]
  BY DEF Inv, TypeOK, Grow, Nodes
<1>1. /\ DOMAIN srv' = DOMAIN srv \cup {basePort}
      /\ \A p \in DOMAIN srv : srv'[p] = srv[p] /\ p # basePort
      /\ srv'[basePort] = server
  BY DEF Inv, PortInv, TypeOK, Grow, Put
<1>2. /\ DOMAIN members' = 0 .. size'  - 1
      /\ \A j \in 0 .. size - 1 : members'[j] = members[j]
      /\ members'[size] = basePort
  BY <1>0 DEF Grow, Put
<1>3. /\ DOMAIN hostIdx' = DOMAIN srv'
      /\ \A p \in DOMAIN srv : hostIdx'[p] = hostIdx[p]
      /\ hostIdx'[basePort] = size
  BY <1>0, <1>1 DEF Inv, TypeOK, Grow, Put
<1>4. size' = size + 1 /\ basePort' = basePort + 2 /\ DOMAIN srv \subseteq 1 .. basePort - 1
      /\ \A p \in DOMAIN srv : p \in Nat /\ p + 2 <= basePort
  BY <1>0 DEF Inv, PortInv, TypeOK, Grow, PortsPerMember
<1>5. basePort > 0
  BY <1>0, <1>4 DEF Inv, TypeOK
<1>6. TypeOK'
  <2>1. size' \in 1 .. Size + MaxAdds /\ basePort' \in Nat /\ DOMAIN srv' \subseteq 1 .. basePort' - 1
    BY <1>0, <1>1, <1>4, <1>5 DEF Inv, TypeOK, Grow
  <2>2. members' \in [0 .. size' - 1 -> DOMAIN srv']
    BY <1>0, <1>1 DEF Inv, TypeOK, Grow, Put
  <2>3. hostIdx' \in [DOMAIN srv' -> Nat] /\ node' \in [DOMAIN srv' -> Nodes]
    BY <1>0, <1>1 DEF Inv, TypeOK, Grow, Put, NewNode
  <2>4. srv' \in [DOMAIN srv' -> Servers]
    BY <1>1 DEF Inv, TypeOK, Grow, Put
  <2>5. dir' \in [Nodes -> Nat] /\ raft' \subseteq DOMAIN srv'
    BY <1>0, <1>1 DEF Inv, TypeOK, Grow, NewNode
  <2> QED
    BY <2>1, <2>2, <2>3, <2>4, <2>5 DEF TypeOK
<1>7. IndexExact'
  BY <1>0, <1>2, <1>3 DEF Inv, IndexExact, Grow
<1>8. PortInv'
  BY <1>0, <1>1, <1>4 DEF Inv, PortInv
<1>9. RaftKnown'
  <2>1. Listed \cup {basePort} \subseteq Listed'
    BY <1>0, <1>2 DEF Listed, Grow
  <2> QED
    BY <2>1 DEF Inv, RaftKnown
<1>10. AddFindsServer'
  <2>1. members'[0] = members[0] /\ members[0] \in DOMAIN srv
    BY <1>2, FrontListed DEF Inv
  <2> QED
    BY <1>1, <2>1 DEF Inv, AddFindsServer, ClientPanics
<1> QED
  BY <1>6, <1>7, <1>8, <1>9, <1>10 DEF Inv

(* A call of Add that returns, at whichever step.                          *)
LEMMA AddStep == Inv /\ Add => Inv'
<1> SUFFICES ASSUME Inv, Add PROVE Inv'
  OBVIOUS
<1>0. raft \subseteq raft \cup {basePort} /\ phase \in {"running", "shut", "crashed"}
  BY DEF Inv, TypeOK
<1>1. CASE AddFails
  BY <1>0, <1>1, GrowStep DEF AddFails, Servers
<1>2. CASE AddJoins
  BY <1>0, <1>2, GrowStep DEF AddJoins
<1> QED
  BY <1>1, <1>2 DEF Add

(* Remove shifts the members behind the one that goes, and their indexes   *)
(* with them; etcd has let it go before, so it leaves no other behind.     *)
LEMMA RemoveDoneStep ==
    ASSUME Inv, NEW i \in 0 .. size - 1, RemoveDone(i)
    PROVE  Inv'
<1> USE ClusterAssumption
<1> DEFINE ms == Drop(members, i, size)
<1>0. /\ size \in Nat /\ size >= 1
      /\ members \in [0 .. size - 1 -> DOMAIN srv]
      /\ hostIdx \in [DOMAIN srv -> Nat]
      /\ size' = size - 1 /\ members' = ms
      /\ \A j \in 0 .. size - 1 : hostIdx[members[j]] = j
  <2>1. size' = size - 1 /\ members' = ms
    BY DEF RemoveDone, SizeWithout
  <2> QED
    BY <2>1 DEF Inv, TypeOK, IndexExact
<1>1. size > 1
  <2>1. PICK q \in raft : q # members[i]
    BY DEF RemoveDone, RaftRemoves
  <2>2. PICK j \in 0 .. size - 1 : members[j] = q
    BY <2>1 DEF Inv, RaftKnown, Listed
  <2> QED
    BY <1>0, <2>1, <2>2
<1>2. /\ DOMAIN ms = 0 .. size' - 1
      /\ \A j \in 0 .. size' - 1 : ms[j] = IF j < i THEN members[j] ELSE members[j + 1]
  BY <1>0, <1>1 DEF Drop
<1>3. \A j, k \in 0 .. size' - 1 : ms[j] = ms[k] => j = k
  <2> SUFFICES ASSUME NEW j \in 0 .. size' - 1, NEW k \in 0 .. size' - 1, ms[j] = ms[k] PROVE j = k
    OBVIOUS
  <2>1. hostIdx[ms[j]] = (IF j < i THEN j ELSE j + 1) /\ hostIdx[ms[k]] = (IF k < i THEN k ELSE k + 1)
    BY <1>0, <1>1, <1>2
  <2> QED
    BY <1>0, <1>1, <2>1
<1>4. \A j \in 0 .. size' - 1 : ms[j] \in DOMAIN srv
  BY <1>0, <1>1, <1>2
<1>5. members' \in [0 .. size' - 1 -> DOMAIN srv]
  BY <1>0, <1>1, <1>4 DEF Drop
<1>6. hostIdx' = [p \in DOMAIN srv |->
                    IF \E j \in 0 .. size' - 1 : ms[j] = p
                    THEN CHOOSE j \in 0 .. size' - 1 : ms[j] = p
                    ELSE hostIdx[p]]
  BY <1>0 DEF RemoveDone, Reindex
<1>7. hostIdx' \in [DOMAIN srv -> Nat]
  <2> SUFFICES ASSUME NEW p \in DOMAIN srv PROVE hostIdx'[p] \in Nat
    BY <1>6
  <2>1. CASE \E j \in 0 .. size' - 1 : ms[j] = p
    <3>1. (CHOOSE j \in 0 .. size' - 1 : ms[j] = p) \in 0 .. size' - 1
      BY <2>1
    <3> QED
      BY <1>6, <2>1, <3>1
  <2>2. CASE ~\E j \in 0 .. size' - 1 : ms[j] = p
    BY <1>0, <1>6, <2>2
  <2> QED
    BY <2>1, <2>2
<1>8. IndexExact'
  <2> SUFFICES ASSUME NEW j \in 0 .. size' - 1 PROVE hostIdx'[members'[j]] = j
    BY DEF IndexExact
  <2>1. hostIdx'[ms[j]] = CHOOSE k \in 0 .. size' - 1 : ms[k] = ms[j]
    BY <1>4, <1>6
  <2>2. (CHOOSE k \in 0 .. size' - 1 : ms[k] = ms[j]) \in {k \in 0 .. size' - 1 : ms[k] = ms[j]}
    OBVIOUS
  <2> QED
    BY <1>0, <1>3, <2>1, <2>2
<1>9. DOMAIN srv' = DOMAIN srv /\ srv' \in [DOMAIN srv -> Servers]
      /\ dir' \in [Nodes -> Nat] /\ phase' \in {"running", "shut", "crashed"}
      /\ UNCHANGED <<basePort, node>> /\ raft' = raft \ {members[i]}
  <2>1. raft' = raft \ {members[i]} /\ UNCHANGED <<basePort, node>>
    BY DEF RemoveDone
  <2>2. CASE i < size - 1 /\ srv[members[i + 1]] # "none"
    <3>1. /\ srv' = [srv EXCEPT ![members[i + 1]] = Closed(@)]
          /\ dir' = [dir EXCEPT ![node[members[i + 1]]] = 0]
          /\ UNCHANGED phase
      BY <2>2 DEF RemoveDone, Closed
    <3> QED
      BY <2>1, <3>1 DEF Inv, TypeOK, Servers, Closed
  <2>3. CASE ~(i < size - 1 /\ srv[members[i + 1]] # "none")
    <3>1. phase' = "crashed" /\ UNCHANGED <<srv, dir>>
      BY <2>3 DEF RemoveDone
    <3> QED
      BY <2>1, <3>1 DEF Inv, TypeOK
  <2> QED
    BY <2>2, <2>3
<1>10. TypeOK'
  <2>1. size' \in 1 .. Size + MaxAdds
    BY <1>0, <1>1 DEF Inv, TypeOK
  <2> QED
    BY <1>5, <1>7, <1>9, <2>1 DEF Inv, TypeOK
<1>11. PortInv'
  BY <1>9 DEF Inv, PortInv
<1>12. RaftKnown'
  <2> SUFFICES ASSUME NEW q \in raft, q # members[i] PROVE q \in Listed'
    BY <1>9 DEF RaftKnown
  <2>1. PICK j \in 0 .. size - 1 : members[j] = q
    BY DEF Inv, RaftKnown, Listed
  <2>2. j # i
    BY <2>1
  <2>3. CASE j < i
    BY <1>0, <1>2, <2>1, <2>3 DEF Listed
  <2>4. CASE j > i
    <3>1. j - 1 \in 0 .. size' - 1 /\ ms[j - 1] = q
      BY <1>0, <1>1, <1>2, <2>1, <2>4
    <3> QED
      BY <1>0, <3>1 DEF Listed
  <2> QED
    BY <1>0, <2>2, <2>3, <2>4
<1>13. AddFindsServer'
  <2>1. members'[0] = IF i = 0 THEN members[1] ELSE members[0]
    BY <1>0, <1>1, <1>2
  <2>2. members'[0] \in DOMAIN srv /\ ~ClientPanics(members'[0])
    <3>1. CASE i = 0
      <4>1. Via(i) = members[1]
        BY <1>0, <1>1, <3>1 DEF Via
      <4> QED
        BY <1>0, <1>1, <2>1, <3>1, <4>1 DEF RemoveDone, CanRemove
    <3>2. CASE i # 0
      BY <1>0, <2>1, <3>2 DEF Inv, AddFindsServer
    <3> QED
      BY <3>1, <3>2
  <2>3. \A p \in DOMAIN srv : srv'[p] = "none" => srv[p] = "none"
    BY DEF RemoveDone, Inv, TypeOK, Closed
  <2> QED
    BY <2>2, <2>3 DEF AddFindsServer, ClientPanics
<1> QED
  BY <1>8, <1>10, <1>11, <1>12, <1>13 DEF Inv

(* The steps that change neither the list nor the index.                   *)
LEMMA FrameStep ==
    ASSUME Inv, UNCHANGED <<size, members, basePort, hostIdx, node>>,
           DOMAIN srv' = DOMAIN srv, srv' \in [DOMAIN srv -> Servers],
           \A p \in Listed : srv'[p] = "none" => srv[p] = "none",
           dir' \in [Nodes -> Nat], raft' \subseteq raft, phase' \in {"running", "shut", "crashed"}
    PROVE  Inv'
<1>1. TypeOK' /\ IndexExact' /\ PortInv' /\ RaftKnown'
  BY DEF Inv, TypeOK, IndexExact, PortInv, RaftKnown, Listed
<1>2. AddFindsServer'
  <2>1. members[0] \in Listed
    BY FrontListed DEF Inv
  <2> QED
    BY <2>1 DEF Inv, AddFindsServer, ClientPanics
<1> QED
  BY <1>1, <1>2 DEF Inv

(* Every step of the cluster keeps the invariant.                          *)
LEMMA NextStep == Inv /\ [Next]_vars => Inv'
<1> SUFFICES ASSUME Inv, [Next]_vars PROVE Inv'
  OBVIOUS
<1>0. TypeOK
  BY DEF Inv
<1>1. CASE Add
  BY <1>1, AddStep
<1>2. ASSUME NEW i \in 0 .. size - 1, RemoveDone(i)
      PROVE  Inv'
  BY <1>2, RemoveDoneStep
<1>3. ASSUME NEW i \in 0 .. size - 1, RemovePanics(i) \/ RemoveFails(i)
      PROVE  Inv'
  BY <1>0, <1>3, FrameStep DEF RemovePanics, RemoveFails, TypeOK
<1>4. ASSUME NEW i \in 0 .. size - 1, Stop(i) \/ Restart(i) \/ FetchMemberStatus(i)
      PROVE  Inv'
  <2>1. members[i] \in DOMAIN srv /\ members[i] \in Nat /\ node[members[i]] \in Nodes
    BY <1>0 DEF TypeOK
  <2>2. DOMAIN srv' = DOMAIN srv /\ srv' \in [DOMAIN srv -> Servers]
    BY <1>0, <1>4, <2>1 DEF Stop, Restart, FetchMemberStatus, TypeOK, Closed, Servers
  <2>3. dir' \in [Nodes -> Nat]
    BY <1>0, <1>4, <2>1 DEF Stop, Restart, FetchMemberStatus, TypeOK
  <2>4. UNCHANGED <<size, members, basePort, hostIdx, node, raft, phase>>
    BY <1>4 DEF Stop, Restart, FetchMemberStatus
  <2>5. \A p \in DOMAIN srv : srv'[p] = "none" => srv[p] = "none"
    BY <1>0, <1>4, <2>1 DEF Stop, Restart, FetchMemberStatus, TypeOK, Closed
  <2>6. Listed \subseteq DOMAIN srv
    BY <1>0 DEF Listed, TypeOK
  <2> QED
    BY <1>0, <2>2, <2>3, <2>4, <2>5, <2>6, FrameStep DEF TypeOK
<1>5. ASSUME NEW some \in SUBSET (0 .. size - 1), OpPanics(some)
      PROVE  Inv'
  BY <1>0, <1>5, FrameStep DEF OpPanics, TypeOK
<1>6. CASE Shutdown
  <2>1. srv' \in [DOMAIN srv -> Servers] /\ DOMAIN srv' = DOMAIN srv
        /\ \A p \in Listed : srv'[p] = "none" => srv[p] = "none"
    BY <1>0, <1>6 DEF Shutdown, TypeOK, Listed, Closed, Servers
  <2>2. dir' \in [Nodes -> Nat]
    BY <1>6 DEF Shutdown
  <2> QED
    BY <1>6, <2>1, <2>2, FrameStep DEF Shutdown
<1>7. CASE UNCHANGED vars
  BY <1>0, <1>7, FrameStep DEF vars, TypeOK
<1> QED
  BY <1>1, <1>2, <1>3, <1>4, <1>5, <1>6, <1>7 DEF Next, Remove

(* What Start leaves behind satisfies it.                                  *)
LEMMA InitInv == Init => Inv
<1> SUFFICES ASSUME Init PROVE Inv
  OBVIOUS
<1> USE ClusterAssumption DEF PortsPerMember
<1>1. /\ size = Size /\ DOMAIN members = 0 .. Size - 1
      /\ \A j \in 0 .. Size - 1 : members[j] = RootPort + 2 * j
      /\ basePort = RootPort + 2 * Size
  BY DEF Init
<1>2. /\ DOMAIN srv = Listed /\ DOMAIN hostIdx = Listed /\ raft = Listed
      /\ srv \in [Listed -> Servers]
  BY DEF Init, Servers
<1>3. \A p \in Listed : \E j \in 0 .. Size - 1 : p = RootPort + 2 * j
  BY <1>1 DEF Listed
<1>4. \A p \in Listed : hostIdx[p] \in 0 .. Size - 1 /\ members[hostIdx[p]] = p
  <2> SUFFICES ASSUME NEW p \in Listed PROVE hostIdx[p] \in 0 .. Size - 1 /\ members[hostIdx[p]] = p
    OBVIOUS
  <2>1. \E j \in 0 .. Size - 1 : members[j] = p
    BY <1>1 DEF Listed
  <2>2. hostIdx[p] = CHOOSE j \in 0 .. Size - 1 : members[j] = p
    BY DEF Init
  <2> QED
    BY <2>1, <2>2
<1>5. \A j \in 0 .. Size - 1 : members[j] \in Listed
  BY <1>1 DEF Listed
<1>6. IndexExact
  <2> SUFFICES ASSUME NEW j \in 0 .. Size - 1 PROVE hostIdx[members[j]] = j
    BY <1>1 DEF IndexExact
  <2>1. /\ hostIdx[members[j]] \in 0 .. Size - 1
        /\ RootPort + 2 * hostIdx[members[j]] = RootPort + 2 * j
    BY <1>1, <1>4, <1>5
  <2> QED
    BY <2>1
<1>7. PortInv
  <2>1. ASSUME NEW p \in Listed, NEW q \in Listed
        PROVE  p + 2 <= basePort /\ (p < q => p + 2 <= q)
    <3>1. PICK j \in 0 .. Size - 1 : p = RootPort + 2 * j
      BY <1>3
    <3>2. PICK k \in 0 .. Size - 1 : q = RootPort + 2 * k
      BY <1>3
    <3> QED
      BY <1>1, <3>1, <3>2
  <2> QED
    BY <1>2, <2>1 DEF PortInv
<1>8. TypeOK
  <2>1. members \in [0 .. size - 1 -> DOMAIN srv] /\ basePort \in Nat /\ size \in 1 .. Size + MaxAdds
    BY <1>1, <1>2, <1>5 DEF Init
  <2>2. DOMAIN srv \subseteq 1 .. basePort - 1
    <3> SUFFICES ASSUME NEW p \in Listed PROVE p \in 1 .. basePort - 1
      BY <1>2
    <3>1. PICK j \in 0 .. Size - 1 : p = RootPort + 2 * j
      BY <1>3
    <3> QED
      BY <1>1, <3>1
  <2>3. hostIdx \in [DOMAIN srv -> Nat]
    <3> DEFINE at(p) == CHOOSE j \in 0 .. Size - 1 : members[j] = p
    <3>1. hostIdx = [p \in Listed |-> at(p)]
      BY Zenon DEF Init
    <3>2. \A p \in Listed : at(p) \in Nat
      BY <1>4, <3>1
    <3> HIDE DEF at
    <3> QED
      BY <1>2, <3>1, <3>2
  <2>4. node \in [DOMAIN srv -> Nodes]
    <3>1. \A p \in Listed : hostIdx[p] + 1 \in Nodes
      BY <1>4 DEF Nodes
    <3> QED
      BY <1>2, <3>1 DEF Init
  <2>5. dir \in [Nodes -> Nat]
    <3>1. \A k \in Nodes : k <= Size => members[k - 1] \in Nat
      BY <1>1 DEF Nodes
    <3> QED
      BY <3>1 DEF Init
  <2> QED
    BY <1>2, <2>1, <2>2, <2>3, <2>4, <2>5 DEF TypeOK, Init
<1>9. AddFindsServer
  <2>1. members[0] \in Listed
    BY <1>8, FrontListed
  <2>2. \A p \in Listed : srv[p] = "up"
    BY DEF Init
  <2> QED
    BY <2>1, <2>2 DEF AddFindsServer, ClientPanics
<1> QED
  BY <1>2, <1>6, <1>7, <1>8, <1>9 DEF Inv, RaftKnown

(* Hence it always holds.                                                  *)
LEMMA Invariance == Spec => []Inv
  BY InitInv, NextStep, PTL DEF Spec

(* Members, size and the tables keyed by member stay in step with each     *)
(* other, whichever step of Add or Remove fails.                           *)
THEOREM MembershipTypes == Spec => []TypeOK
<1>1. Inv => TypeOK
  BY DEF Inv
<1> QED
  BY <1>1, Invariance, PTL

(* The host of every listed member leads to it.                            *)
THEOREM HostsLeadHome == Spec => []IndexExact
<1>1. Inv => IndexExact
  BY DEF Inv
<1> QED
  BY <1>1, Invariance, PTL

(* No two members ever made share a port.                                  *)
THEOREM PortsNeverShared == Spec => []PortsDisjoint
<1>1. Inv => PortsDisjoint
  <2> SUFFICES ASSUME Inv, NEW p \in DOMAIN srv, NEW q \in DOMAIN srv, p # q
               PROVE  {p, p + 1} \cap {q, q + 1} = {}
    BY DEF PortsDisjoint
  <2>1. p \in Nat /\ q \in Nat /\ (p < q => p + 2 <= q) /\ (q < p => q + 2 <= p)
    BY DEF Inv, TypeOK, PortInv
  <2> QED
    BY <2>1
<1> QED
  BY <1>1, Invariance, PTL

(* etcd counts no member the cluster does not list.                        *)
THEOREM RaftIsListed == Spec => []RaftKnown
<1>1. Inv => RaftKnown
  BY DEF Inv
<1> QED
  BY <1>1, Invariance, PTL

(* Add never dereferences the server of a member that has none.            *)
THEOREM AddNeverPanics == Spec => []AddFindsServer
<1>1. Inv => AddFindsServer
  BY DEF Inv
<1> QED
  BY <1>1, Invariance, PTL
=============================================================================
