------------------------ MODULE ProxyDirectoryProofs ------------------------
(***************************************************************************)
(* Proofs about ProxyDirectory, for any number of nodes, requests and        *)
(* faults.  The inductive invariant says what a goroutine that is done has   *)
(* left behind, and how much room the goroutines still at work have.         *)
(***************************************************************************)
EXTENDS ProxyDirectory, TLAPS

States == {"probe", "found", "check", "append", "mark", "done"}

\* The types but for the bound on list.
Types ==
    /\ records \subseteq Nodes
    /\ http \in [Requests -> {"none", "list", "probing", "fetching"} \cup Ended]
    /\ job \in [Requests \X Keys -> States]
    /\ list \in [Requests \X Nodes -> Nat]
    /\ seen \in [Requests -> SUBSET Nodes]
    /\ sure \in [Requests -> SUBSET Nodes]
    /\ faults \in 0 .. MaxFaults

\* 1 for a goroutine that may still append its node.
Pending(q, k) == IF job[<<q, k>>] \in {"mark", "done"} THEN 0 ELSE 1

Room ==
    \A q \in Requests :
        /\ \A n \in Nodes \ {Self} : list[<<q, n>>] + Pending(q, <<n, 1>>) <= 1
        /\ list[<<q, Self>>] + Pending(q, <<Self, 1>>) + Pending(q, <<Self, 2>>) <= 2

Begun ==
    \A q \in Requests :
        /\ http[q] \in {"none", "list"} => \A k \in Keys : job[<<q, k>>] = "probe"
        /\ http[q] = "done" => \A k \in Keys : job[<<q, k>>] = "done"

Present == \A q \in Requests : sure[q] \subseteq records

\* A goroutine marks its node after it appended it.
Listed ==
    \A q \in Requests :
        /\ \A n \in seen[q] : list[<<q, n>>] > 0
        /\ \A k \in Keys : job[<<q, k>>] = "mark" => list[<<q, Peer(k)>>] > 0

\* A goroutine is done with a node that was there only when it is listed.
Covered ==
    \A q \in Requests, k \in Keys :
        http[q] # "crashed" /\ Peer(k) \in sure[q] /\ job[<<q, k>>] = "done" => list[<<q, Peer(k)>>] > 0

IInv == Types /\ Room /\ Begun /\ Present /\ Listed /\ Covered

USE DirectoryAssumption

\* Every node has one key, and the node itself a second.
LEMMA KeyFacts ==
    /\ \A n \in Nodes : <<n, 1>> \in Keys
    /\ <<Self, 2>> \in Keys
    /\ \A k \in Keys : Peer(k) \in Nodes
    /\ \A k \in Keys : k = <<Peer(k), 1>> \/ k = <<Self, 2>>
    /\ \A n \in Nodes : Peer(<<n, 1>>) = n
    /\ Peer(<<Self, 2>>) = Self
  BY DEF Keys, Peer

\* Initially no goroutine has begun.
LEMMA InvInit == Init => IInv
<1> SUFFICES ASSUME Init PROVE IInv
  OBVIOUS
<1>1. Types
  BY DEF Init, Types, States, Ended
<1>2. Room
  BY KeyFacts DEF Init, Room, Pending
<1>3. Begun /\ Present /\ Listed /\ Covered
  BY KeyFacts DEF Init, Begun, Present, Listed, Covered
<1> QED
  BY <1>1, <1>2, <1>3 DEF IInv

\* Steps of a request that touch none of its goroutines.
LEMMA HandlerStep ==
    ASSUME IInv, NEW q \in Requests,
           Save(q) \/ SaveFails(q) \/ Get(q) \/ List(q) \/ Launch(q) \/ Answer(q)
    PROVE  IInv'
<1> USE DEF Save, SaveFails, Get, List, Launch, Answer, Fault
<1>1. Types'
  BY DEF IInv, Types, Ended
<1>2. UNCHANGED <<job, list, seen>>
  OBVIOUS
<1>3. Room'
  BY <1>2 DEF IInv, Room, Pending
<1>4. Begun'
  BY <1>2 DEF IInv, Types, Begun
<1>5. Present'
  BY DEF IInv, Types, Present
<1>6. Listed'
  BY <1>2 DEF IInv, Listed
<1>7. Covered'
  BY <1>2 DEF IInv, Types, Begun, Covered
<1> QED
  BY <1>1, <1>3, <1>4, <1>5, <1>6, <1>7 DEF IInv

\* Records that come and go.
LEMMA NodeStep ==
    ASSUME IInv, NEW n \in Nodes, Announce(n) \/ Expire(n) PROVE IInv'
<1> USE DEF Announce, Expire, Fault
<1>1. Types'
  BY DEF IInv, Types
<1>2. UNCHANGED <<http, job, list, seen>> /\ \A q \in Requests : sure'[q] \subseteq sure[q]
  OBVIOUS
<1>3. Room' /\ Begun' /\ Listed'
  BY <1>2 DEF IInv, Room, Pending, Begun, Listed
<1>4. Present'
  BY DEF IInv, Present
<1>5. Covered'
  BY <1>2 DEF IInv, Covered
<1> QED
  BY <1>1, <1>3, <1>4, <1>5 DEF IInv

\* What a step of one goroutine changes in job.
LEMMA StepFacts ==
    ASSUME Types, NEW q \in Requests, NEW k \in Keys, NEW state \in States, Step(q, k, state)
    PROVE  /\ job' \in [Requests \X Keys -> States]
           /\ job'[<<q, k>>] = state
           /\ \A p \in Requests, j \in Keys : p # q \/ j # k => job'[<<p, j>>] = job[<<p, j>>]
  BY DEF Types, Step

\* Goroutines that do not append keep the room of the others.
LEMMA RoomKept ==
    ASSUME IInv, UNCHANGED list,
           \A p \in Requests, j \in Keys :
               job[<<p, j>>] \in {"mark", "done"} => job'[<<p, j>>] \in {"mark", "done"}
    PROVE  Room'
<1>1. \A p \in Requests, j \in Keys : Pending(p, j)' \in {0, Pending(p, j)}
  BY DEF Pending
<1>2. \A p \in Requests, j \in Keys : Pending(p, j) \in {0, 1}
  BY DEF Pending
<1>3. \A p \in Requests, n \in Nodes : list[<<p, n>>] \in Nat
  BY DEF IInv, Types
<1>4. ASSUME NEW p \in Requests, NEW n \in Nodes \ {Self}
      PROVE  list'[<<p, n>>] + Pending(p, <<n, 1>>)' <= 1
  <2>1. list[<<p, n>>] + Pending(p, <<n, 1>>) <= 1
    BY DEF IInv, Room
  <2> QED
    BY <1>1, <1>2, <1>3, <2>1, KeyFacts
<1>5. ASSUME NEW p \in Requests
      PROVE  list'[<<p, Self>>] + Pending(p, <<Self, 1>>)' + Pending(p, <<Self, 2>>)' <= 2
  <2>1. list[<<p, Self>>] + Pending(p, <<Self, 1>>) + Pending(p, <<Self, 2>>) <= 2
    BY DEF IInv, Room
  <2> QED
    BY <1>1, <1>2, <1>3, <2>1, KeyFacts
<1> QED
  BY <1>4, <1>5 DEF Room

\* A query: a goroutine gives up only on a node that is not sure.
LEMMA QueryStep ==
    ASSUME IInv, NEW q \in Requests, NEW k \in Keys, Probe(q, k) \/ Fetch(q, k) PROVE IInv'
<1>1. PICK state \in {"found", "check", "done"} : Step(q, k, state)
  BY DEF Probe, Fetch
<1>2. /\ job' \in [Requests \X Keys -> States]
      /\ job'[<<q, k>>] = state
      /\ \A p \in Requests, j \in Keys : p # q \/ j # k => job'[<<p, j>>] = job[<<p, j>>]
  BY <1>1, StepFacts DEF IInv, States
<1>3. UNCHANGED <<records, http, list, seen>> /\ job[<<q, k>>] \in {"probe", "found"}
  BY DEF Probe, Fetch
<1>4. /\ \A p \in Requests : sure'[p] \subseteq sure[p]
      /\ state = "done" => Peer(k) \notin sure'[q]
  BY <1>1, <1>2 DEF Probe, Fetch, Step, Miss, IInv, Types, Present
<1>5. Types'
  BY <1>2, <1>3 DEF Probe, Fetch, Miss, Fault, IInv, Types
<1>6. Room'
  <2>1. ASSUME NEW p \in Requests, NEW j \in Keys, job[<<p, j>>] \in {"mark", "done"}
        PROVE  job'[<<p, j>>] \in {"mark", "done"}
    <3>1. p # q \/ j # k
      BY <1>3, <2>1
    <3> QED
      BY <1>2, <2>1, <3>1
  <2> QED
    BY <1>3, <2>1, RoomKept
<1>7. Begun'
  BY <1>2, <1>3 DEF IInv, Begun, Probe, Fetch
<1>8. Present'
  BY <1>3, <1>4 DEF IInv, Present
<1>9. Listed'
  BY <1>2, <1>3 DEF IInv, Listed
<1>10. Covered'
  BY <1>2, <1>3, <1>4 DEF IInv, Covered
<1> QED
  BY <1>5, <1>6, <1>7, <1>8, <1>9, <1>10 DEF IInv

\* A look at the map: a goroutine leaves a node that is listed.
LEMMA CheckStep ==
    ASSUME IInv, NEW q \in Requests, NEW k \in Keys, Check(q, k) PROVE IInv'
<1>1. PICK state \in {"append", "done"} : Step(q, k, state)
  BY DEF Check
<1>2. /\ job' \in [Requests \X Keys -> States]
      /\ job'[<<q, k>>] = state
      /\ \A p \in Requests, j \in Keys : p # q \/ j # k => job'[<<p, j>>] = job[<<p, j>>]
  BY <1>1, StepFacts DEF IInv, States
<1>3. UNCHANGED <<records, http, list, seen, sure, faults>> /\ job[<<q, k>>] = "check"
  BY DEF Check
<1>4. state = "done" => list[<<q, Peer(k)>>] > 0
  BY <1>1, <1>2 DEF Check, Step, IInv, Types, Listed
<1>5. Types'
  BY <1>2, <1>3 DEF IInv, Types
<1>6. Room'
  <2>1. ASSUME NEW p \in Requests, NEW j \in Keys, job[<<p, j>>] \in {"mark", "done"}
        PROVE  job'[<<p, j>>] \in {"mark", "done"}
    <3>1. p # q \/ j # k
      BY <1>3, <2>1
    <3> QED
      BY <1>2, <2>1, <3>1
  <2> QED
    BY <1>3, <2>1, RoomKept
<1>7. Begun'
  BY <1>2, <1>3 DEF IInv, Begun
<1>8. Present'
  BY <1>3 DEF IInv, Present
<1>9. Listed'
  BY <1>2, <1>3 DEF IInv, Listed
<1>10. Covered'
  BY <1>2, <1>3, <1>4 DEF IInv, Covered
<1> QED
  BY <1>5, <1>6, <1>7, <1>8, <1>9, <1>10 DEF IInv

\* The node is appended by a goroutine that had room for it.
LEMMA AppendStep ==
    ASSUME IInv, NEW q \in Requests, NEW k \in Keys, Append(q, k) PROVE IInv'
<1>1. /\ job' \in [Requests \X Keys -> States]
      /\ job'[<<q, k>>] = "mark"
      /\ \A p \in Requests, j \in Keys : p # q \/ j # k => job'[<<p, j>>] = job[<<p, j>>]
  BY StepFacts DEF IInv, States, Append
<1>2. UNCHANGED <<records, http, seen, sure, faults>> /\ job[<<q, k>>] = "append"
  BY DEF Append
<1>3. /\ list' \in [Requests \X Nodes -> Nat]
      /\ list'[<<q, Peer(k)>>] = list[<<q, Peer(k)>>] + 1
      /\ \A p \in Requests, n \in Nodes :
            p # q \/ n # Peer(k) => list'[<<p, n>>] = list[<<p, n>>]
  BY KeyFacts DEF IInv, Types, Append
<1>4. ASSUME NEW p \in Requests, NEW n \in Nodes
      PROVE  list[<<p, n>>] \in Nat /\ list'[<<p, n>>] \in {list[<<p, n>>], list[<<p, n>>] + 1}
  BY <1>3 DEF IInv, Types
<1>5. Types'
  BY <1>1, <1>2, <1>3 DEF IInv, Types
<1>6. Room'
  <2>1. /\ Pending(q, k) = 1 /\ Pending(q, k)' = 0
        /\ \A p \in Requests, j \in Keys : p # q \/ j # k => Pending(p, j)' = Pending(p, j)
    BY <1>1, <1>2 DEF Pending
  <2>2. \A p \in Requests, j \in Keys : Pending(p, j) \in {0, 1}
    BY DEF Pending
  <2>3. ASSUME NEW p \in Requests, NEW n \in Nodes \ {Self}
        PROVE  list'[<<p, n>>] + Pending(p, <<n, 1>>)' <= 1
    <3>1. <<n, 1>> \in Keys /\ (<<n, 1>> = k <=> Peer(k) = n)
      BY KeyFacts
    <3>2. list[<<p, n>>] + Pending(p, <<n, 1>>) <= 1
      BY DEF IInv, Room
    <3> QED
      BY <1>3, <1>4, <2>1, <2>2, <3>1, <3>2
  <2>4. ASSUME NEW p \in Requests
        PROVE  list'[<<p, Self>>] + Pending(p, <<Self, 1>>)' + Pending(p, <<Self, 2>>)' <= 2
    <3>1. /\ <<Self, 1>> \in Keys /\ <<Self, 2>> \in Keys /\ <<Self, 1>> # <<Self, 2>>
          /\ Peer(k) = Self <=> k \in {<<Self, 1>>, <<Self, 2>>}
      BY KeyFacts
    <3>2. list[<<p, Self>>] + Pending(p, <<Self, 1>>) + Pending(p, <<Self, 2>>) <= 2
      BY DEF IInv, Room
    <3> QED
      BY <1>3, <1>4, <2>1, <2>2, <3>1, <3>2
  <2> QED
    BY <2>3, <2>4 DEF Room
<1>7. Begun'
  BY <1>1, <1>2 DEF IInv, Begun
<1>8. Present'
  BY <1>2 DEF IInv, Present
<1>9. Listed'
  <2>1. ASSUME NEW p \in Requests, NEW n \in seen'[p] PROVE list'[<<p, n>>] > 0
    <3>1. n \in Nodes /\ list[<<p, n>>] > 0
      BY <1>2, <2>1 DEF IInv, Types, Listed
    <3> QED
      BY <1>4, <3>1
  <2>2. ASSUME NEW p \in Requests, NEW j \in Keys, job'[<<p, j>>] = "mark"
        PROVE  list'[<<p, Peer(j)>>] > 0
    BY <1>1, <1>3, <1>4, <2>2, KeyFacts DEF IInv, Listed
  <2> QED
    BY <2>1, <2>2 DEF Listed
<1>10. ASSUME NEW p \in Requests, NEW j \in Keys,
              http'[p] # "crashed", Peer(j) \in sure'[p], job'[<<p, j>>] = "done"
       PROVE  list'[<<p, Peer(j)>>] > 0
  <2>1. list[<<p, Peer(j)>>] > 0
    BY <1>1, <1>2, <1>10 DEF IInv, Covered
  <2> QED
    BY <1>4, <2>1, KeyFacts
<1> QED
  BY <1>5, <1>6, <1>7, <1>8, <1>9, <1>10 DEF IInv, Covered

\* A node is marked, and left, by a goroutine that listed it.
LEMMA MarkStep ==
    ASSUME IInv, NEW q \in Requests, NEW k \in Keys, Mark(q, k) PROVE IInv'
<1>1. /\ job' \in [Requests \X Keys -> States]
      /\ job'[<<q, k>>] = "done"
      /\ \A p \in Requests, j \in Keys : p # q \/ j # k => job'[<<p, j>>] = job[<<p, j>>]
  BY StepFacts DEF IInv, States, Mark
<1>2. UNCHANGED <<records, http, list, sure, faults>> /\ job[<<q, k>>] = "mark"
  BY DEF Mark
<1>3. /\ seen' \in [Requests -> SUBSET Nodes]
      /\ \A p \in Requests : \A n \in seen'[p] : n \in seen[p] \/ (p = q /\ n = Peer(k))
  BY KeyFacts DEF IInv, Types, Mark
<1>4. list[<<q, Peer(k)>>] > 0
  BY <1>2 DEF IInv, Listed
<1>5. Types'
  BY <1>1, <1>2, <1>3 DEF IInv, Types
<1>6. Room'
  <2>1. ASSUME NEW p \in Requests, NEW j \in Keys, job[<<p, j>>] \in {"mark", "done"}
        PROVE  job'[<<p, j>>] \in {"mark", "done"}
    BY <1>1, <2>1
  <2> QED
    BY <1>2, <2>1, RoomKept
<1>7. Begun'
  BY <1>1, <1>2 DEF IInv, Begun
<1>8. Present'
  BY <1>2 DEF IInv, Present
<1>9. Listed'
  BY <1>1, <1>2, <1>3, <1>4 DEF IInv, Listed
<1>10. Covered'
  BY <1>1, <1>2, <1>4 DEF IInv, Covered
<1> QED
  BY <1>5, <1>6, <1>7, <1>8, <1>9, <1>10 DEF IInv

\* The end of the process ends every request that is under way.
LEMMA FaultStep ==
    ASSUME IInv, NEW q \in Requests, NEW k \in Keys, ConcurrentMapFault(q, k) PROVE IInv'
<1>1. UNCHANGED <<records, list, seen, sure, faults>>
  BY DEF ConcurrentMapFault
<1>2. /\ job' \in [Requests \X Keys -> States]
      /\ \A p \in Requests, j \in Keys :
            job'[<<p, j>>] = IF http[p] \in Ended \cup {"none"} THEN job[<<p, j>>] ELSE "done"
  BY DEF ConcurrentMapFault, IInv, Types, States
<1>3. \A p \in Requests :
        http'[p] = IF http[p] \in Ended \cup {"none"} THEN http[p] ELSE "crashed"
  BY DEF ConcurrentMapFault
<1>4. Types'
  <2>1. http' \in [Requests -> {"none", "list", "probing", "fetching"} \cup Ended]
    BY DEF ConcurrentMapFault, IInv, Types, Ended
  <2> QED
    BY <1>1, <1>2, <2>1 DEF IInv, Types
<1>5. Room'
  <2>1. ASSUME NEW p \in Requests, NEW j \in Keys, job[<<p, j>>] \in {"mark", "done"}
        PROVE  job'[<<p, j>>] \in {"mark", "done"}
    BY <1>2, <2>1
  <2> QED
    BY <1>1, <2>1, RoomKept
<1>6. Begun'
  BY <1>2, <1>3 DEF IInv, Begun, Ended
<1>7. Present'
  BY <1>1 DEF IInv, Present
<1>8. Listed'
  BY <1>1, <1>2 DEF IInv, Listed
<1>9. Covered'
  BY <1>1, <1>2, <1>3 DEF IInv, Covered
<1> QED
  BY <1>4, <1>5, <1>6, <1>7, <1>8, <1>9 DEF IInv

\* The invariant is inductive.
LEMMA InvStep == IInv /\ [Next]_vars => IInv'
<1> SUFFICES ASSUME IInv, [Next]_vars PROVE IInv'
  OBVIOUS
<1>1. ASSUME NEW n \in Nodes, Announce(n) \/ Expire(n) PROVE IInv'
  BY <1>1, NodeStep
<1>2. ASSUME NEW q \in Requests,
             Save(q) \/ SaveFails(q) \/ Get(q) \/ List(q) \/ Launch(q) \/ Answer(q)
      PROVE  IInv'
  BY <1>2, HandlerStep
<1>3. ASSUME NEW q \in Requests, NEW k \in Keys, Job(q, k) \/ ConcurrentMapFault(q, k)
      PROVE  IInv'
  BY <1>3, QueryStep, CheckStep, AppendStep, MarkStep, FaultStep DEF Job
<1>4. CASE UNCHANGED vars
  BY <1>4 DEF vars, IInv, Types, Room, Pending, Begun, Present, Listed, Covered
<1> QED
  BY <1>1, <1>2, <1>3, <1>4 DEF Next

\* It holds throughout.
LEMMA Invariance == Spec => []IInv
  BY InvInit, InvStep, PTL DEF Spec

-----------------------------------------------------------------------------
(* The theorems.                                                            *)

\* Types, and no node listed more often than it has keys.
THEOREM TypeCorrect == Spec => []TypeOK
<1>1. ASSUME IInv PROVE TypeOK
  <2>1. ASSUME NEW q \in Requests, NEW n \in Nodes PROVE list[<<q, n>>] \in 0 .. 2
    <3>1. list[<<q, n>>] \in Nat
      BY <1>1 DEF IInv, Types
    <3>2. Room
      BY <1>1 DEF IInv
    <3>3. \A k \in Keys : Pending(q, k) \in {0, 1}
      BY DEF Pending
    <3>4. CASE n = Self
      <4>1. list[<<q, n>>] + Pending(q, <<Self, 1>>) + Pending(q, <<Self, 2>>) <= 2
        BY <3>2, <3>4 DEF Room
      <4> QED
        BY <3>1, <3>3, <4>1, KeyFacts
    <3>5. CASE n # Self
      <4>1. list[<<q, n>>] + Pending(q, <<n, 1>>) <= 1
        BY <3>2, <3>5 DEF Room
      <4> QED
        BY <3>1, <3>3, <4>1, KeyFacts
    <3> QED
      BY <3>4, <3>5
  <2>2. list \in [Requests \X Nodes -> 0 .. 2]
    BY <1>1, <2>1 DEF IInv, Types
  <2> QED
    BY <1>1, <2>2 DEF IInv, Types, TypeOK, States
<1> QED
  BY <1>1, Invariance, PTL

\* getAllProxiesFromDHT misses no proxy that was there all the time, however
\* many peers the node knows and however the goroutines interleave.
THEOREM AnswersComplete == Spec => []Complete
<1>1. ASSUME IInv, NEW q \in Requests, http[q] = "done", NEW n \in sure[q]
      PROVE  list[<<q, n>>] > 0
  <2>1. n \in Nodes /\ <<n, 1>> \in Keys /\ Peer(<<n, 1>>) = n
    BY <1>1, KeyFacts DEF IInv, Types
  <2>2. job[<<q, <<n, 1>>>>] = "done"
    BY <1>1, <2>1 DEF IInv, Begun
  <2> QED
    BY <1>1, <2>1, <2>2 DEF IInv, Covered
<1>2. IInv => Complete
  BY <1>1 DEF Complete
<1> QED
  BY <1>2, Invariance, PTL

\* It lists no node but its own twice, though the map of the nodes it has seen
\* is read without the mutex.
THEOREM OthersListedOnce == Spec => []OthersOnce
<1>1. ASSUME IInv, NEW q \in Requests, NEW n \in Nodes \ {Self} PROVE list[<<q, n>>] <= 1
  <2>1. list[<<q, n>>] \in Nat
    BY <1>1 DEF IInv, Types
  <2>2. Room
    BY <1>1 DEF IInv
  <2>3. Pending(q, <<n, 1>>) \in {0, 1}
    BY DEF Pending
  <2>4. list[<<q, n>>] + Pending(q, <<n, 1>>) <= 1
    BY <2>2 DEF Room
  <2> QED
    BY <2>1, <2>3, <2>4
<1>2. IInv => OthersOnce
  BY <1>1 DEF OthersOnce
<1> QED
  BY <1>2, Invariance, PTL
=============================================================================
