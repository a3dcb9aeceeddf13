-------------------------- MODULE ProxyDirectory --------------------------
(***************************************************************************)
(* The directory of proxies, as one node sees it.  A host announces itself   *)
(* by a record of its own in the DHT (saveProxyToDHT); a POST or a GET of    *)
(* /proxy-data/ is answered with the list of all of them that the node can   *)
(* find (getAllProxiesFromDHT): it queries the key of every peer it knows,   *)
(* and then again those it found, in a goroutine each, which share a map of  *)
(* the peers already listed.  The map is written under a mutex and read      *)
(* without it.                                                              *)
(*                                                                         *)
(* The peerstore of a node contains the node itself, and getKnownProxyKeys   *)
(* appends it once more: its key has two goroutines.  A record is abstracted *)
(* to whether it is there.                                                  *)
(***************************************************************************)
EXTENDS Naturals, FiniteSets

CONSTANTS
    Nodes,     \* the nodes of the network, all known to this one
    Self,      \* the node
    Requests,  \* its requests, POST or GET
    MaxFaults  \* bound: failed calls of the DHT, and records that expire

ASSUME DirectoryAssumption ==
    /\ Self \in Nodes
    /\ MaxFaults \in Nat

VARIABLES
    records,  \* the nodes that have a record in the DHT
    http,     \* the handler of each request
    job,      \* the state of each key of a request
    list,     \* how often the answer lists a node
    seen,     \* seenProxies of the request
    sure,     \* history: the nodes that had a record all the time, and no failed query
    faults

vars == <<records, http, job, list, seen, sure, faults>>

\* Mutant: the node is appended for every pass of a loop.
KeysAgain == (Nodes \X {1}) \cup {<<Self, 2>>, <<Self, 3>>}

\* Mutant: every peer is appended twice.
KeysTwice == Nodes \X {1, 2}

\* The peers of getKnownProxyKeys: those of the peerstore, and the node.
Keys == (Nodes \X {1}) \cup {<<Self, 2>>}

Ended == {"done", "refused", "crashed"}

Peer(k) == k[1]

Fault == faults < MaxFaults /\ faults' = faults + 1

\* The goroutine that holds the mutex of request q.
Marking(q) == {k \in Keys : job[<<q, k>>] = "mark"}

Init ==
    /\ records \in SUBSET Nodes
    /\ http = [q \in Requests |-> "none"]
    /\ job = [j \in Requests \X Keys |-> "probe"]
    /\ list = [l \in Requests \X Nodes |-> 0]
    /\ seen = [q \in Requests |-> {}]
    /\ sure = [q \in Requests |-> {}]
    /\ faults = 0

Step(q, k, state) == job' = [job EXCEPT ![<<q, k>>] = state]
Miss(q, k)        == sure' = [sure EXCEPT ![q] = @ \ {Peer(k)}]

-----------------------------------------------------------------------------
(* Announcing.                                                              *)

\* saveProxyToDHT: whether it found a record or not, it puts one.
Save(q) ==
    /\ http[q] = "none"
    /\ records' = records \cup {Self}
    /\ http' = [http EXCEPT ![q] = "list"]
    /\ UNCHANGED <<job, list, seen, sure, faults>>

\* The body does not decode (400), or the put fails (500).
SaveFails(q) ==
    /\ http[q] = "none" /\ Fault
    /\ http' = [http EXCEPT ![q] = "refused"]
    /\ UNCHANGED <<records, job, list, seen, sure>>

\* Another node announces itself.
Announce(n) ==
    /\ n \notin records /\ n # Self
    /\ records' = records \cup {n}
    /\ UNCHANGED <<http, job, list, seen, sure, faults>>

\* A record is not republished.
Expire(n) ==
    /\ n \in records /\ Fault
    /\ records' = records \ {n}
    /\ sure' = [q \in Requests |-> sure[q] \ {n}]
    /\ UNCHANGED <<http, job, list, seen>>

-----------------------------------------------------------------------------
(* getKnownProxyKeys and getAllProxiesFromDHT.                              *)

\* GET: getAdjacentNodeProxiesMetadata asks for a protocol no node serves and
\* writes an empty answer first.
Get(q) ==
    /\ http[q] = "none"
    /\ http' = [http EXCEPT ![q] = "list"]
    /\ UNCHANGED <<records, job, list, seen, sure, faults>>

List(q) ==
    /\ http[q] = "list"
    /\ sure' = [sure EXCEPT ![q] = records]
    /\ http' = [http EXCEPT ![q] = "probing"]
    /\ UNCHANGED <<records, job, list, seen, faults>>

\* One key of getKnownProxyKeys.
Probe(q, k) ==
    /\ http[q] = "probing" /\ job[<<q, k>>] = "probe"
    /\ \/ /\ Step(q, k, IF Peer(k) \in records THEN "found" ELSE "done")
          /\ UNCHANGED <<sure, faults>>
       \/ Fault /\ Step(q, k, "done") /\ Miss(q, k)
    /\ UNCHANGED <<records, http, list, seen>>

\* The goroutines start when all keys are known.
Launch(q) ==
    /\ http[q] = "probing" /\ \A k \in Keys : job[<<q, k>>] # "probe"
    /\ http' = [http EXCEPT ![q] = "fetching"]
    /\ UNCHANGED <<records, job, list, seen, sure, faults>>

Fetch(q, k) ==
    /\ http[q] = "fetching" /\ job[<<q, k>>] = "found"
    /\ \/ /\ Step(q, k, IF Peer(k) \in records THEN "check" ELSE "done")
          /\ UNCHANGED <<sure, faults>>
       \/ Fault /\ Step(q, k, "done") /\ Miss(q, k)
    /\ UNCHANGED <<records, http, list, seen>>

\* "Avoid duplicates by checking the PeerID", before the lock.
Check(q, k) ==
    /\ job[<<q, k>>] = "check"
    /\ Step(q, k, IF Peer(k) \in seen[q] THEN "done" ELSE "append")
    /\ UNCHANGED <<records, http, list, seen, sure, faults>>

\* Mutant: a goroutine that does not get the mutex gives up.
TryAppend(q, k) ==
    /\ job[<<q, k>>] = "append"
    /\ IF Marking(q) = {}
       THEN list' = [list EXCEPT ![<<q, Peer(k)>>] = @ + 1] /\ Step(q, k, "mark")
       ELSE Step(q, k, "done") /\ UNCHANGED list
    /\ UNCHANGED <<records, http, seen, sure, faults>>

\* mu.Lock, and the first of two statements under it.
Append(q, k) ==
    /\ job[<<q, k>>] = "append" /\ Marking(q) = {}
    /\ list' = [list EXCEPT ![<<q, Peer(k)>>] = @ + 1]
    /\ Step(q, k, "mark")
    /\ UNCHANGED <<records, http, seen, sure, faults>>

\* Mutant: the mutex is not released.
MarkLocked(q, k) ==
    /\ job[<<q, k>>] = "mark"
    /\ seen' = [seen EXCEPT ![q] = @ \cup {Peer(k)}]
    /\ UNCHANGED <<records, http, job, list, sure, faults>>

Mark(q, k) ==
    /\ job[<<q, k>>] = "mark"
    /\ seen' = [seen EXCEPT ![q] = @ \cup {Peer(k)}]
    /\ Step(q, k, "done")
    /\ UNCHANGED <<records, http, list, sure, faults>>

\* wg.Wait.
Answer(q) ==
    /\ http[q] = "fetching" /\ \A k \in Keys : job[<<q, k>>] = "done"
    /\ http' = [http EXCEPT ![q] = "done"]
    /\ UNCHANGED <<records, job, list, seen, sure, faults>>

\* The runtime may catch the read of a map that is being written, which ends
\* the process and every request in it.
ConcurrentMapFault(q, k) ==
    /\ job[<<q, k>>] = "check" /\ Marking(q) # {}
    /\ http' = [p \in Requests |-> IF http[p] \in Ended \cup {"none"} THEN http[p] ELSE "crashed"]
    /\ job' = [j \in Requests \X Keys |->
                  IF http[j[1]] \in Ended \cup {"none"} THEN job[j] ELSE "done"]
    /\ UNCHANGED <<records, list, seen, sure, faults>>

-----------------------------------------------------------------------------
Job(q, k) == Probe(q, k) \/ Fetch(q, k) \/ Check(q, k) \/ Append(q, k) \/ Mark(q, k)

Next ==
    \/ \E n \in Nodes : Announce(n) \/ Expire(n)
    \/ \E q \in Requests : \/ Save(q) \/ SaveFails(q) \/ Get(q)
                           \/ List(q) \/ Launch(q) \/ Answer(q)
    \/ \E q \in Requests, k \in Keys : Job(q, k) \/ ConcurrentMapFault(q, k)

Spec == Init /\ [][Next]_vars

\* Queries end, goroutines run on, and one that waits for the mutex gets it.
FairSpec ==
    /\ Spec
    /\ \A q \in Requests : WF_vars(List(q) \/ Launch(q) \/ Answer(q))
    /\ \A q \in Requests, k \in Keys : SF_vars(Job(q, k))

-----------------------------------------------------------------------------
(* Properties.                                                              *)

\* Types; no node is listed more often than it has keys.
TypeOK ==
    /\ records \subseteq Nodes
    /\ http \in [Requests -> {"none", "list", "probing", "fetching"} \cup Ended]
    /\ job \in [Requests \X Keys -> {"probe", "found", "check", "append", "mark", "done"}]
    /\ list \in [Requests \X Nodes -> 0 .. 2]
    /\ seen \in [Requests -> SUBSET Nodes]
    /\ sure \in [Requests -> SUBSET Nodes]
    /\ faults \in 0 .. MaxFaults

\* No proxy is missing: an answer of handleProxyData lists every node whose
\* record was there from before the first query and whose queries succeeded,
\* however the goroutines interleave; after a POST that is the node itself.
Complete ==
    \A q \in Requests : http[q] = "done" => \A n \in sure[q] : list[<<q, n>>] > 0

\* "Track seen PeerIDs to avoid duplicates": only the node itself, whose key is
\* queried by two goroutines that may both look before either marks, can be
\* listed twice; no other node is.
OthersOnce ==
    \A q \in Requests, n \in Nodes \ {Self} : list[<<q, n>>] <= 1

\* Every request is answered, unless the process dies of a concurrent map
\* access: wg counts all goroutines down, and none keeps the mutex.
RequestsAnswered ==
    \A q \in Requests : http[q] = "list" ~> http[q] \in Ended
=============================================================================
