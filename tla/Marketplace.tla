---------------------------- MODULE Marketplace ----------------------------
(***************************************************************************)
(* Refreshing the marketplace: getMarketplaceFiles asks the cloud node for   *)
(* its list of files and waits for a signal; receiveMarketplaceFiles, a      *)
(* goroutine per stream of the cloud node, stores the list it receives in    *)
(* MarketplaceFiles and sends the signal on an unbuffered channel.           *)
(*                                                                         *)
(* Nothing ties a signal to a request.  A list is abstracted to the version  *)
(* of the cloud node's list it is a copy of, 0 for nil.  It is overwritten   *)
(* in place under a mutex, and read without it: the two parts of the slice   *)
(* are stored, and encoded, one after the other.                            *)
(***************************************************************************)
EXTENDS Naturals, FiniteSets

CONSTANTS
    Refreshes,   \* the HTTP requests for /files/refresh
    MaxVersion,  \* bound: versions of the cloud node's list
    MaxFaults    \* bound: lost messages and crashes

ASSUME MarketplaceAssumption ==
    /\ MaxVersion \in Nat \ {0}
    /\ MaxFaults \in Nat

ASSUME FinitelyMany == IsFiniteSet(Refreshes)

VARIABLES
    cloud,             \* version of the list at the cloud node
    MarketplaceFiles,  \* the versions of the two parts of the slice
    http,              \* the handler of each request
    answer,            \* what it answered, a list for status 200
    asked,             \* history: cloud when the request was sent
    alone,             \* history: nothing was outstanding at that time
    stream,            \* the request at the cloud node and its answer's goroutine
    sent,              \* the version in that answer
    faults

vars == <<cloud, MarketplaceFiles, http, answer, asked, alone, stream, sent, faults>>

Versions == 0 .. MaxVersion
Lists    == [1 .. 2 -> Versions]
Nil      == [i \in 1 .. 2 |-> 0]
Answers  == [status : {"none", "error", "timeout", "crashed", "ok"}, list : Lists]

NoAnswer(status) == [status |-> status, list |-> Nil]

Handling == {"waiting", "encoding", "encoded"}

Outstanding == {q \in Refreshes : stream[q] \in {"asked", "answered", "storing", "blocked"}}

Init ==
    /\ cloud = 1
    /\ MarketplaceFiles = Nil
    /\ http = [q \in Refreshes |-> "none"]
    /\ answer = [q \in Refreshes |-> NoAnswer("none")]
    /\ asked = [q \in Refreshes |-> 0]
    /\ alone = [q \in Refreshes |-> FALSE]
    /\ stream = [q \in Refreshes |-> "none"]
    /\ sent = [q \in Refreshes |-> 0]
    /\ faults = 0

Fault == faults < MaxFaults /\ faults' = faults + 1

-----------------------------------------------------------------------------
(* getMarketplaceFiles.                                                     *)

\* The page's first request is answered from memory once there is a list.
InitialFetch(q) ==
    /\ http[q] = "none"
    /\ MarketplaceFiles # Nil
    /\ http' = [http EXCEPT ![q] = "encoding"]
    /\ UNCHANGED <<cloud, MarketplaceFiles, answer, asked, alone, stream, sent, faults>>

SendMarketFilesRequest(q) ==
    /\ http[q] = "none"
    /\ http' = [http EXCEPT ![q] = "waiting"]
    /\ stream' = [stream EXCEPT ![q] = "asked"]
    /\ asked' = [asked EXCEPT ![q] = cloud]
    /\ alone' = [alone EXCEPT ![q] = Outstanding = {}]
    /\ UNCHANGED <<cloud, MarketplaceFiles, answer, sent, faults>>

SendFails(q) ==
    /\ http[q] = "none" /\ Fault
    /\ http' = [http EXCEPT ![q] = "done"]
    /\ answer' = [answer EXCEPT ![q] = NoAnswer("error")]
    /\ UNCHANGED <<cloud, MarketplaceFiles, asked, alone, stream, sent>>

\* Mutant: the signal is sent when the answer comes, before it is stored.
SignalEarly(r, q) ==
    /\ stream[r] = "answered" /\ http[q] = "waiting"
    /\ stream' = [stream EXCEPT ![r] = "done"]
    /\ http' = [http EXCEPT ![q] = "encoding"]
    /\ UNCHANGED <<cloud, MarketplaceFiles, answer, asked, alone, sent, faults>>

\* Mutant: the goroutine goes on sending after a handler took the signal.
SignalRepeated(r, q) ==
    /\ stream[r] = "blocked" /\ http[q] = "waiting"
    /\ http' = [http EXCEPT ![q] = "encoding"]
    /\ UNCHANGED <<cloud, MarketplaceFiles, answer, asked, alone, stream, sent, faults>>

\* A send of the goroutine of r on MarketplaceFilesSignal meets the select of q.
Signal(r, q) ==
    /\ stream[r] = "blocked" /\ http[q] = "waiting"
    /\ stream' = [stream EXCEPT ![r] = "done"]
    /\ http' = [http EXCEPT ![q] = "encoding"]
    /\ UNCHANGED <<cloud, MarketplaceFiles, answer, asked, alone, sent, faults>>

\* The handler encodes what MarketplaceFiles holds now, part by part.
Encode(q) ==
    /\ \/ /\ http[q] = "encoding"
          /\ http' = [http EXCEPT ![q] = "encoded"]
          /\ answer' = [answer EXCEPT ![q] =
                [status |-> "none", list |-> [Nil EXCEPT ![1] = MarketplaceFiles[1]]]]
       \/ /\ http[q] = "encoded"
          /\ http' = [http EXCEPT ![q] = "done"]
          /\ answer' = [answer EXCEPT ![q] =
                [status |-> "ok", list |-> [answer[q].list EXCEPT ![2] = MarketplaceFiles[2]]]]
    /\ UNCHANGED <<cloud, MarketplaceFiles, asked, alone, stream, sent, faults>>

\* Mutant: the timer does not end the wait.
TimeoutIgnored(q) == http[q] = "waiting" /\ UNCHANGED vars

\* "Timeout to avoid blocking indefinitely".
Timeout(q) ==
    /\ http[q] = "waiting"
    /\ http' = [http EXCEPT ![q] = "done"]
    /\ answer' = [answer EXCEPT ![q] = NoAnswer("timeout")]
    /\ UNCHANGED <<cloud, MarketplaceFiles, asked, alone, stream, sent, faults>>

-----------------------------------------------------------------------------
(* The cloud node, and receiveMarketplaceFiles.                             *)

Publish ==
    /\ cloud < MaxVersion
    /\ cloud' = cloud + 1
    /\ UNCHANGED <<MarketplaceFiles, http, answer, asked, alone, stream, sent, faults>>

CloudAnswers(q) ==
    /\ stream[q] = "asked"
    /\ stream' = [stream EXCEPT ![q] = "answered"]
    /\ sent' = [sent EXCEPT ![q] = cloud]
    /\ UNCHANGED <<cloud, MarketplaceFiles, http, answer, asked, alone, faults>>

Lose(q) ==
    /\ stream[q] \in {"asked", "answered"} /\ Fault
    /\ stream' = [stream EXCEPT ![q] = "done"]
    /\ UNCHANGED <<cloud, MarketplaceFiles, http, answer, asked, alone, sent>>

\* Mutant: the list received is appended to the one there is.
StoreAppended(q) ==
    /\ stream[q] = "answered"
    /\ \A r \in Refreshes : stream[r] # "storing"
    /\ MarketplaceFiles' = [i \in 1 .. 3 |-> IF i = 3 THEN sent[q] ELSE MarketplaceFiles[i]]
    /\ stream' = [stream EXCEPT ![q] = "storing"]
    /\ UNCHANGED <<cloud, http, answer, asked, alone, sent, faults>>

\* Between Mutex.Lock and Unlock, the first part.
StoreBegin(q) ==
    /\ stream[q] = "answered"
    /\ \A r \in Refreshes : stream[r] # "storing"
    /\ MarketplaceFiles' = [MarketplaceFiles EXCEPT ![1] = sent[q]]
    /\ stream' = [stream EXCEPT ![q] = "storing"]
    /\ UNCHANGED <<cloud, http, answer, asked, alone, sent, faults>>

\* The second part; from here the goroutine waits for a handler to signal.
StoreEnd(q) ==
    /\ stream[q] = "storing"
    /\ MarketplaceFiles' = [MarketplaceFiles EXCEPT ![2] = sent[q]]
    /\ stream' = [stream EXCEPT ![q] = "blocked"]
    /\ UNCHANGED <<cloud, http, answer, asked, alone, sent, faults>>

\* log.Fatalf on a read error or a list that does not parse: the node exits,
\* with every request and goroutine, and is started again.
Fatal(q) ==
    /\ stream[q] = "answered" /\ Fault
    /\ MarketplaceFiles' = Nil
    /\ stream' = [r \in Refreshes |-> IF r \in Outstanding THEN "done" ELSE stream[r]]
    /\ http' = [r \in Refreshes |-> IF http[r] \in Handling THEN "done" ELSE http[r]]
    /\ answer' = [r \in Refreshes |->
           IF http[r] \in Handling THEN NoAnswer("crashed") ELSE answer[r]]
    /\ UNCHANGED <<cloud, asked, alone, sent>>

Handle(q) == Encode(q) \/ Timeout(q) \/ \E r \in Refreshes : Signal(r, q)

Next ==
    \/ Publish
    \/ \E q \in Refreshes :
          \/ InitialFetch(q) \/ SendMarketFilesRequest(q) \/ SendFails(q) \/ Handle(q)
          \/ CloudAnswers(q) \/ Lose(q) \/ StoreBegin(q) \/ StoreEnd(q) \/ Fatal(q)

Spec == Init /\ [][Next]_vars

\* A handler is scheduled, and its timer fires.  The cloud node may stay silent.
FairSpec == Spec /\ \A q \in Refreshes : WF_vars(Handle(q))

-----------------------------------------------------------------------------
TypeOK ==
    /\ cloud \in Versions
    /\ MarketplaceFiles \in Lists
    /\ http \in [Refreshes -> {"none", "waiting", "encoding", "encoded", "done"}]
    /\ answer \in [Refreshes -> Answers]
    /\ asked \in [Refreshes -> Versions]
    /\ alone \in [Refreshes -> BOOLEAN]
    /\ stream \in [Refreshes -> {"none", "asked", "answered", "storing", "blocked", "done"}]
    /\ sent \in [Refreshes -> Versions]
    /\ faults \in 0 .. MaxFaults

\* A refresh that was asked for while no earlier answer was outstanding is
\* answered with a list at least as new as the request.  (An answer that comes
\* after its request timed out stays outstanding, and the next refresh gets it.)
FreshIfAlone ==
    \A q \in Refreshes :
        answer[q].status = "ok" /\ alone[q] => \A i \in 1 .. 2 : answer[q].list[i] >= asked[q]

\* Goroutines pile up on the channel only behind requests that timed out or
\* still wait.
BlockedBounded ==
    Cardinality({q \in Refreshes : stream[q] = "blocked"}) <=
        Cardinality({q \in Refreshes : answer[q].status = "timeout" \/ http[q] = "waiting"})

\* Every refresh is answered, whatever the cloud node does.
RefreshAnswered == \A q \in Refreshes : http[q] = "waiting" ~> http[q] = "done"
=============================================================================
