------------------------- MODULE MarketplaceProofs -------------------------
(***************************************************************************)
(* Proofs about Marketplace, for any set of requests and any bounds.         *)
(***************************************************************************)
EXTENDS Marketplace, FiniteSetTheorems, TLAPS

\* The marketplace refresh (getMarketplaceFiles, receiveMarketplaceFiles) is
\* type correct.
THEOREM TypeCorrect == Spec => []TypeOK
<1> USE MarketplaceAssumption DEF Versions, Lists, Nil, Answers, NoAnswer
<1>1. Init => TypeOK
  BY DEF Init, TypeOK
<1>2. TypeOK /\ [Next]_vars => TypeOK'
  <2> SUFFICES ASSUME TypeOK, [Next]_vars PROVE TypeOK'
    OBVIOUS
  <2> USE DEF TypeOK
  <2>1. CASE Publish
    BY <2>1 DEF Publish
  <2>2. CASE UNCHANGED vars
    BY <2>2 DEF vars
  <2>3. ASSUME NEW q \in Refreshes, InitialFetch(q) PROVE TypeOK'
    BY <2>3 DEF InitialFetch
  <2>4. ASSUME NEW q \in Refreshes, SendMarketFilesRequest(q) PROVE TypeOK'
    BY <2>4 DEF SendMarketFilesRequest
  <2>5. ASSUME NEW q \in Refreshes, SendFails(q) PROVE TypeOK'
    BY <2>5 DEF SendFails, Fault
  <2>6. ASSUME NEW q \in Refreshes, Encode(q) PROVE TypeOK'
    <3>1. CASE http[q] = "encoding"
      <4> DEFINE l == [Nil EXCEPT ![1] = MarketplaceFiles[1]]
      <4>1. l \in Lists
        OBVIOUS
      <4>2. answer' = [answer EXCEPT ![q] = [status |-> "none", list |-> l]]
        BY <2>6, <3>1 DEF Encode
      <4> HIDE DEF l
      <4>3. answer' \in [Refreshes -> Answers]
        BY <4>1, <4>2
      <4> QED
        BY <2>6, <3>1, <4>3 DEF Encode
    <3>2. CASE http[q] = "encoded"
      <4> DEFINE l == [answer[q].list EXCEPT ![2] = MarketplaceFiles[2]]
      <4>1. l \in Lists
        OBVIOUS
      <4>2. answer' = [answer EXCEPT ![q] = [status |-> "ok", list |-> l]]
        BY <2>6, <3>2 DEF Encode
      <4> HIDE DEF l
      <4>3. answer' \in [Refreshes -> Answers]
        BY <4>1, <4>2
      <4> QED
        BY <2>6, <3>2, <4>3 DEF Encode
    <3> QED
      BY <2>6, <3>1, <3>2 DEF Encode
  <2>7. ASSUME NEW q \in Refreshes, Timeout(q) PROVE TypeOK'
    BY <2>7 DEF Timeout
  <2>8. ASSUME NEW q \in Refreshes, NEW r \in Refreshes, Signal(r, q) PROVE TypeOK'
    BY <2>8 DEF Signal
  <2>9. ASSUME NEW q \in Refreshes, CloudAnswers(q) PROVE TypeOK'
    BY <2>9 DEF CloudAnswers
  <2>10. ASSUME NEW q \in Refreshes, Lose(q) PROVE TypeOK'
    BY <2>10 DEF Lose, Fault
  <2>11. ASSUME NEW q \in Refreshes, StoreBegin(q) PROVE TypeOK'
    BY <2>11 DEF StoreBegin
  <2>12. ASSUME NEW q \in Refreshes, StoreEnd(q) PROVE TypeOK'
    BY <2>12 DEF StoreEnd
  <2>13. ASSUME NEW q \in Refreshes, Fatal(q) PROVE TypeOK'
    BY <2>13 DEF Fatal, Fault
  <2> QED
    BY <2>1, <2>2, <2>3, <2>4, <2>5, <2>6, <2>7, <2>8, <2>9, <2>10, <2>11, <2>12, <2>13
    DEF Next, Handle
<1> QED
  BY <1>1, <1>2, PTL DEF Spec

-----------------------------------------------------------------------------
(***************************************************************************)
(* FreshIfAlone is not inductive: it says nothing of a request that is still *)
(* being handled.  For one that was alone when it asked, every outstanding   *)
(* answer was asked for no earlier, so whatever is stored from then on is    *)
(* new enough; and a goroutine that can signal has stored both parts.        *)
(***************************************************************************)
NewEnough(v) == \A i \in 1 .. 2 : MarketplaceFiles[i] >= v

AnswersAfterRequests ==
    \A r \in Refreshes :
        /\ asked[r] <= cloud
        /\ stream[r] \in {"answered", "storing", "blocked"} => sent[r] >= asked[r]

Unanswered ==
    \A q \in Refreshes :
        /\ http[q] = "none" => ~alone[q]
        /\ http[q] # "done" => answer[q].status = "none"

AloneHandled ==
    \A q \in Refreshes : alone[q] /\ http[q] \in Handling =>
        /\ \A r \in Outstanding : asked[r] >= asked[q]
        /\ \A r \in Refreshes : stream[r] = "storing" => MarketplaceFiles[1] >= asked[q]
        /\ \A r \in Refreshes : stream[r] = "blocked" => NewEnough(asked[q])
        /\ http[q] # "waiting" => NewEnough(asked[q])
        /\ http[q] = "encoded" => answer[q].list[1] >= asked[q]

FreshInv == AnswersAfterRequests /\ Unanswered /\ AloneHandled /\ FreshIfAlone

\* A refresh asked for while no answer was outstanding is answered by
\* getMarketplaceFiles with a list at least as new as the request, however its
\* signal, its encoding and later answers interleave.
THEOREM AloneIsFresh == Spec => []FreshIfAlone
<1> USE MarketplaceAssumption DEF Handling, Outstanding, NewEnough
<1>1. Init => FreshInv
  BY DEF Init, FreshInv, AnswersAfterRequests, Unanswered, AloneHandled, FreshIfAlone, Nil, NoAnswer
<1>2. TypeOK /\ FreshInv /\ [Next]_vars => FreshInv'
  <2> SUFFICES ASSUME TypeOK, FreshInv, [Next]_vars PROVE FreshInv'
    OBVIOUS
  <2> USE DEF TypeOK, Versions, Lists, Answers, FreshInv
  <2>1. CASE Publish
    BY <2>1 DEF Publish, AnswersAfterRequests, Unanswered, AloneHandled, FreshIfAlone
  <2>2. CASE UNCHANGED vars
    BY <2>2 DEF vars, AnswersAfterRequests, Unanswered, AloneHandled, FreshIfAlone
  <2>3. ASSUME NEW q \in Refreshes, InitialFetch(q) PROVE FreshInv'
    <3>1. AnswersAfterRequests'
      BY <2>3 DEF InitialFetch, AnswersAfterRequests
    <3>2. Unanswered'
      BY <2>3 DEF InitialFetch, Unanswered
    <3>3. AloneHandled'
      BY <2>3 DEF InitialFetch, AloneHandled, Unanswered, AnswersAfterRequests
    <3>4. FreshIfAlone'
      BY <2>3 DEF InitialFetch, FreshIfAlone, Unanswered, AloneHandled
    <3> QED
      BY <3>1, <3>2, <3>3, <3>4
  <2>4. ASSUME NEW q \in Refreshes, SendMarketFilesRequest(q) PROVE FreshInv'
    <3>1. AnswersAfterRequests'
      BY <2>4 DEF SendMarketFilesRequest, AnswersAfterRequests
    <3>2. Unanswered'
      BY <2>4 DEF SendMarketFilesRequest, Unanswered
    <3>3. AloneHandled'
      BY <2>4 DEF SendMarketFilesRequest, AloneHandled, Unanswered, AnswersAfterRequests
    <3>4. FreshIfAlone'
      BY <2>4 DEF SendMarketFilesRequest, FreshIfAlone, Unanswered, AloneHandled
    <3> QED
      BY <3>1, <3>2, <3>3, <3>4
  <2>5. ASSUME NEW q \in Refreshes, SendFails(q) PROVE FreshInv'
    <3>1. AnswersAfterRequests'
      BY <2>5 DEF SendFails, NoAnswer, AnswersAfterRequests
    <3>2. Unanswered'
      BY <2>5 DEF SendFails, NoAnswer, Unanswered
    <3>3. AloneHandled'
      BY <2>5 DEF SendFails, NoAnswer, AloneHandled, Unanswered, AnswersAfterRequests
    <3>4. FreshIfAlone'
      BY <2>5 DEF SendFails, NoAnswer, FreshIfAlone, Unanswered, AloneHandled
    <3> QED
      BY <3>1, <3>2, <3>3, <3>4
  <2>6. ASSUME NEW q \in Refreshes, Encode(q) PROVE FreshInv'
    <3>1. AnswersAfterRequests'
      BY <2>6 DEF Encode, AnswersAfterRequests
    <3>2. Unanswered'
      BY <2>6 DEF Encode, Unanswered
    <3>3. CASE http[q] = "encoding"
      <4>1. answer'[q].status = "none" /\ answer'[q].list[1] = MarketplaceFiles[1]
        BY <2>6, <3>3 DEF Encode, Nil
      <4>2. \A p \in Refreshes \ {q} : answer'[p] = answer[p] /\ http'[p] = http[p]
        BY <2>6 DEF Encode
      <4>3. http'[q] = "encoded"
        BY <2>6, <3>3 DEF Encode
      <4>4. UNCHANGED <<MarketplaceFiles, asked, alone, stream>>
        BY <2>6 DEF Encode
      <4>5. AloneHandled'
        BY <3>3, <4>1, <4>2, <4>3, <4>4 DEF AloneHandled
      <4>6. FreshIfAlone'
        BY <4>1, <4>2, <4>4 DEF FreshIfAlone
      <4> QED
        BY <3>1, <3>2, <4>5, <4>6
    <3>4. CASE http[q] = "encoded"
      <4>1. /\ answer'[q].list[1] = answer[q].list[1]
            /\ answer'[q].list[2] = MarketplaceFiles[2]
        BY <2>6, <3>4 DEF Encode
      <4>2. \A p \in Refreshes \ {q} : answer'[p] = answer[p] /\ http'[p] = http[p]
        BY <2>6 DEF Encode
      <4>3. http'[q] = "done"
        BY <2>6, <3>4 DEF Encode
      <4>4. UNCHANGED <<MarketplaceFiles, asked, alone, stream>>
        BY <2>6 DEF Encode
      <4>5. AloneHandled'
        BY <3>4, <4>1, <4>2, <4>3, <4>4 DEF AloneHandled
      <4>6. FreshIfAlone'
        BY <3>4, <4>1, <4>2, <4>4 DEF FreshIfAlone, AloneHandled
      <4> QED
        BY <3>1, <3>2, <4>5, <4>6
    <3> QED
      BY <2>6, <3>3, <3>4 DEF Encode
  <2>7. ASSUME NEW q \in Refreshes, Timeout(q) PROVE FreshInv'
    <3>1. AnswersAfterRequests'
      BY <2>7 DEF Timeout, NoAnswer, AnswersAfterRequests
    <3>2. Unanswered'
      BY <2>7 DEF Timeout, NoAnswer, Unanswered
    <3>3. AloneHandled'
      BY <2>7 DEF Timeout, NoAnswer, AloneHandled, Unanswered, AnswersAfterRequests
    <3>4. FreshIfAlone'
      BY <2>7 DEF Timeout, NoAnswer, FreshIfAlone, Unanswered, AloneHandled
    <3> QED
      BY <3>1, <3>2, <3>3, <3>4
  <2>8. ASSUME NEW q \in Refreshes, NEW r \in Refreshes, Signal(r, q) PROVE FreshInv'
    <3>1. AnswersAfterRequests'
      BY <2>8 DEF Signal, AnswersAfterRequests
    <3>2. Unanswered'
      BY <2>8 DEF Signal, Unanswered
    <3>3. AloneHandled'
      BY <2>8 DEF Signal, AloneHandled, Unanswered, AnswersAfterRequests
    <3>4. FreshIfAlone'
      BY <2>8 DEF Signal, FreshIfAlone, Unanswered, AloneHandled
    <3> QED
      BY <3>1, <3>2, <3>3, <3>4
  <2>9. ASSUME NEW q \in Refreshes, CloudAnswers(q) PROVE FreshInv'
    <3>1. AnswersAfterRequests'
      BY <2>9 DEF CloudAnswers, AnswersAfterRequests
    <3>2. Unanswered'
      BY <2>9 DEF CloudAnswers, Unanswered
    <3>3. AloneHandled'
      BY <2>9 DEF CloudAnswers, AloneHandled, Unanswered, AnswersAfterRequests
    <3>4. FreshIfAlone'
      BY <2>9 DEF CloudAnswers, FreshIfAlone, Unanswered, AloneHandled
    <3> QED
      BY <3>1, <3>2, <3>3, <3>4
  <2>10. ASSUME NEW q \in Refreshes, Lose(q) PROVE FreshInv'
    <3>1. AnswersAfterRequests'
      BY <2>10 DEF Lose, AnswersAfterRequests
    <3>2. Unanswered'
      BY <2>10 DEF Lose, Unanswered
    <3>3. AloneHandled'
      BY <2>10 DEF Lose, AloneHandled, Unanswered, AnswersAfterRequests
    <3>4. FreshIfAlone'
      BY <2>10 DEF Lose, FreshIfAlone, Unanswered, AloneHandled
    <3> QED
      BY <3>1, <3>2, <3>3, <3>4
  <2>11. ASSUME NEW q \in Refreshes, StoreBegin(q) PROVE FreshInv'
    <3>1. AnswersAfterRequests'
      BY <2>11 DEF StoreBegin, AnswersAfterRequests
    <3>2. Unanswered'
      BY <2>11 DEF StoreBegin, Unanswered
    <3>3. AloneHandled'
      BY <2>11 DEF StoreBegin, AloneHandled, Unanswered, AnswersAfterRequests
    <3>4. FreshIfAlone'
      BY <2>11 DEF StoreBegin, FreshIfAlone, Unanswered, AloneHandled
    <3> QED
      BY <3>1, <3>2, <3>3, <3>4
  <2>12. ASSUME NEW q \in Refreshes, StoreEnd(q) PROVE FreshInv'
    <3>1. AnswersAfterRequests'
      BY <2>12 DEF StoreEnd, AnswersAfterRequests
    <3>2. Unanswered'
      BY <2>12 DEF StoreEnd, Unanswered
    <3>3. AloneHandled'
      BY <2>12 DEF StoreEnd, AloneHandled, Unanswered, AnswersAfterRequests
    <3>4. FreshIfAlone'
      BY <2>12 DEF StoreEnd, FreshIfAlone, Unanswered, AloneHandled
    <3> QED
      BY <3>1, <3>2, <3>3, <3>4
  <2>13. ASSUME NEW q \in Refreshes, Fatal(q) PROVE FreshInv'
    <3>1. AnswersAfterRequests'
      BY <2>13 DEF Fatal, NoAnswer, AnswersAfterRequests
    <3>2. Unanswered'
      BY <2>13 DEF Fatal, NoAnswer, Unanswered
    <3>3. AloneHandled'
      BY <2>13 DEF Fatal, NoAnswer, AloneHandled, Unanswered, AnswersAfterRequests
    <3>4. FreshIfAlone'
      BY <2>13 DEF Fatal, NoAnswer, FreshIfAlone, Unanswered, AloneHandled
    <3> QED
      BY <3>1, <3>2, <3>3, <3>4
  <2> QED
    BY <2>1, <2>2, <2>3, <2>4, <2>5, <2>6, <2>7, <2>8, <2>9, <2>10, <2>11, <2>12, <2>13 DEF Next, Handle
<1>3. FreshInv => FreshIfAlone
  BY DEF FreshInv
<1> QED
  BY <1>1, <1>2, <1>3, TypeCorrect, PTL DEF Spec

-----------------------------------------------------------------------------
(***************************************************************************)
(* BlockedBounded is not inductive either: an answer that is not yet blocked *)
(* will be.  A request that is sent adds one to the outstanding answers and   *)
(* one to the requests that wait or have timed out; a signal takes one from   *)
(* each.                                                                     *)
(***************************************************************************)
Owing == {q \in Refreshes : answer[q].status = "timeout" \/ http[q] = "waiting"}

BoundInv ==
    /\ Unanswered
    /\ Cardinality(Outstanding) <= Cardinality(Owing)

\* The sets that are counted are finite.
LEMMA CountedFinite ==
    /\ IsFiniteSet(Outstanding) /\ Cardinality(Outstanding) \in Nat
    /\ IsFiniteSet(Owing) /\ Cardinality(Owing) \in Nat
<1>1. Outstanding \in SUBSET Refreshes /\ Owing \in SUBSET Refreshes
  BY DEF Outstanding, Owing
<1> QED
  BY <1>1, FinitelyMany, FS_Subset, FS_CardinalityType

\* The goroutines of receiveMarketplaceFiles that wait on the channel are no
\* more than the requests of getMarketplaceFiles that wait or timed out, for
\* any number of requests.
THEOREM BlockedAlwaysBounded == Spec => []BlockedBounded
<1>1. Init => BoundInv
  <2> SUFFICES ASSUME Init PROVE BoundInv
    OBVIOUS
  <2>1. Unanswered /\ Outstanding = {}
    BY DEF Init, Unanswered, Outstanding, NoAnswer
  <2> QED
    BY <2>1, CountedFinite, FS_EmptySet DEF BoundInv
<1>2. TypeOK /\ BoundInv /\ [Next]_vars => BoundInv'
  <2> SUFFICES ASSUME TypeOK, BoundInv, [Next]_vars PROVE BoundInv'
    OBVIOUS
  <2> USE DEF TypeOK, Answers
  <2>1. ASSUME Outstanding' \subseteq Outstanding, Owing' = Owing
        PROVE  Cardinality(Outstanding') <= Cardinality(Owing')
    BY <2>1, CountedFinite, FS_Subset, FS_CardinalityType DEF BoundInv
  <2>2. CASE Publish \/ UNCHANGED vars
    <3>1. Unanswered' /\ Outstanding' = Outstanding /\ Owing' = Owing
      BY <2>2 DEF Publish, vars, BoundInv, Unanswered, Outstanding, Owing
    <3> QED
      BY <2>1, <3>1 DEF BoundInv
  <2>3. ASSUME NEW q \in Refreshes, InitialFetch(q) PROVE BoundInv'
    <3>1. Unanswered' /\ Outstanding' = Outstanding /\ Owing' = Owing
      BY <2>3 DEF InitialFetch, BoundInv, Unanswered, Outstanding, Owing
    <3> QED
      BY <2>1, <3>1 DEF BoundInv
  <2>4. ASSUME NEW q \in Refreshes, SendFails(q) \/ Timeout(q) PROVE BoundInv'
    <3>1. Unanswered' /\ Outstanding' = Outstanding
      BY <2>4 DEF SendFails, Timeout, NoAnswer, BoundInv, Unanswered, Outstanding
    <3>2. Owing' = Owing
      BY <2>4 DEF SendFails, Timeout, NoAnswer, BoundInv, Unanswered, Owing
    <3> QED
      BY <2>1, <3>1, <3>2 DEF BoundInv
  <2>5. ASSUME NEW q \in Refreshes, Encode(q) PROVE BoundInv'
    <3>1. /\ http[q] \in {"encoding", "encoded"} /\ answer[q].status = "none"
          /\ http'[q] \in {"encoded", "done"} /\ answer'[q].status \in {"none", "ok"}
          /\ http'[q] = "encoded" => answer'[q].status = "none"
      BY <2>5 DEF Encode, BoundInv, Unanswered
    <3>2. \A p \in Refreshes \ {q} : answer'[p] = answer[p] /\ http'[p] = http[p]
      BY <2>5 DEF Encode
    <3>3. UNCHANGED <<alone, stream>>
      BY <2>5 DEF Encode
    <3>4. Unanswered' /\ Outstanding' = Outstanding
      BY <3>1, <3>2, <3>3 DEF BoundInv, Unanswered, Outstanding
    <3>5. Owing' = Owing
      BY <3>1, <3>2 DEF Owing
    <3> QED
      BY <2>1, <3>4, <3>5 DEF BoundInv
  <2>6. ASSUME NEW q \in Refreshes, SendMarketFilesRequest(q) PROVE BoundInv'
    <3>1. Unanswered'
      BY <2>6 DEF SendMarketFilesRequest, BoundInv, Unanswered
    <3>2. Outstanding' = Outstanding \cup {q}
      BY <2>6 DEF SendMarketFilesRequest, Outstanding
    <3>3. q \notin Owing /\ Owing' = Owing \cup {q}
      BY <2>6 DEF SendMarketFilesRequest, Owing, BoundInv, Unanswered
    <3>4. Cardinality(Outstanding \cup {q}) \in {Cardinality(Outstanding), Cardinality(Outstanding) + 1}
      BY CountedFinite, FS_AddElement
    <3>5. Cardinality(Owing \cup {q}) = Cardinality(Owing) + 1
      BY <3>3, CountedFinite, FS_AddElement
    <3>6. Cardinality(Outstanding) <= Cardinality(Owing)
      BY DEF BoundInv
    <3>7. Cardinality(Outstanding \cup {q}) <= Cardinality(Owing \cup {q})
      BY <3>4, <3>5, <3>6, CountedFinite
    <3> QED
      BY <3>1, <3>2, <3>3, <3>7 DEF BoundInv
  <2>7. ASSUME NEW q \in Refreshes, NEW r \in Refreshes, Signal(r, q) PROVE BoundInv'
    <3>1. Unanswered'
      BY <2>7 DEF Signal, BoundInv, Unanswered
    <3>2. r \in Outstanding /\ Outstanding' = Outstanding \ {r}
      BY <2>7 DEF Signal, Outstanding
    <3>3. q \in Owing /\ Owing' = Owing \ {q}
      BY <2>7 DEF Signal, Owing, BoundInv, Unanswered
    <3>4. /\ Cardinality(Outstanding \ {r}) = Cardinality(Outstanding) - 1
          /\ Cardinality(Owing \ {q}) = Cardinality(Owing) - 1
      BY <3>2, <3>3, CountedFinite, FS_RemoveElement
    <3> QED
      BY <3>1, <3>2, <3>3, <3>4, CountedFinite DEF BoundInv
  <2>8. ASSUME NEW q \in Refreshes, CloudAnswers(q) \/ Lose(q) \/ StoreBegin(q) \/ StoreEnd(q)
        PROVE  BoundInv'
    <3>1. Unanswered' /\ Owing' = Owing
      BY <2>8 DEF CloudAnswers, Lose, StoreBegin, StoreEnd, BoundInv, Unanswered, Owing
    <3>2. Outstanding' \subseteq Outstanding
      BY <2>8 DEF CloudAnswers, Lose, StoreBegin, StoreEnd, Outstanding
    <3> QED
      BY <2>1, <3>1, <3>2 DEF BoundInv
  <2>9. ASSUME NEW q \in Refreshes, Fatal(q) PROVE BoundInv'
    <3>1. Unanswered'
      BY <2>9 DEF Fatal, NoAnswer, Handling, BoundInv, Unanswered
    <3>2. Outstanding' = {}
      BY <2>9 DEF Fatal, Outstanding
    <3>3. Cardinality(Owing') \in Nat
      <4>1. Owing' \in SUBSET Refreshes
        BY DEF Owing
      <4> QED
        BY <4>1, FinitelyMany, FS_Subset, FS_CardinalityType
    <3> QED
      BY <3>1, <3>2, <3>3, FS_EmptySet DEF BoundInv
  <2> QED
    BY <2>2, <2>3, <2>4, <2>5, <2>6, <2>7, <2>8, <2>9 DEF Next, Handle
<1>3. BoundInv => BlockedBounded
  <2> SUFFICES ASSUME BoundInv PROVE BlockedBounded
    OBVIOUS
  <2> DEFINE blocked == {q \in Refreshes : stream[q] = "blocked"}
  <2>1. blocked \in SUBSET Outstanding
    BY DEF Outstanding
  <2>2. Cardinality(blocked) <= Cardinality(Outstanding) /\ Cardinality(blocked) \in Nat
    BY <2>1, CountedFinite, FS_Subset, FS_CardinalityType
  <2>3. Cardinality(blocked) <= Cardinality(Owing)
    BY <2>2, CountedFinite DEF BoundInv
  <2> QED
    BY <2>3 DEF BlockedBounded, Owing
<1> QED
  BY <1>1, <1>2, <1>3, TypeCorrect, PTL DEF Spec
=============================================================================
