-------------------------- MODULE ProxyRelayProofs --------------------------
(***************************************************************************)
(* Proofs about ProxyRelay, for any number of host loops and connect         *)
(* requests.  The inductive invariant says what "not mixed up" keeps: one    *)
(* relay at a time works with the pair of globals, the context in it is its  *)
(* own, and every context belongs to the tars of one kind.                   *)
(***************************************************************************)
EXTENDS ProxyRelay, TLAPS

\* The contexts that tars of a kind watch or have cancelled.
Owned(k) == tars[k] \cup cancelled[k]

Numbered ==
    /\ globalCtxC <= made /\ contextCancel <= made
    /\ \A k \in Kinds : \A x \in Owned(k) : x <= made
    /\ \A r \in Relays : mine[r] <= made /\ under[r] <= made

Alone == \A r, s \in Relays : Reading(r) /\ Reading(s) => r = s

\* The context of a relay that has no tar yet is in nobody's hands.
Stored ==
    \A r \in Relays :
        pc[r] \in {"keep", "watch"} =>
            /\ pc[r] = "keep" => mine[r] = globalCtxC
            /\ pc[r] = "watch" => contextCancel = globalCtxC
            /\ \A k \in Kinds : globalCtxC \notin Owned(k)
            /\ \A s \in Relays : child[s] # "none" => under[s] # globalCtxC

OwnedBy(k, x) == \A j \in Kinds : x \in Owned(j) <=> j = k

Ready ==
    \A r \in Relays :
        Reading(r) /\ pc[r] \in {"python", "python3"} => OwnedBy(Kind(r), globalCtxC)

Ran == \A r \in Relays : child[r] # "none" => OwnedBy(Kind(r), under[r])

Unmixed == Alone /\ Stored /\ Ready /\ Ran

IInv == TypeOK /\ Numbered /\ (~mixed => Unmixed)
USE RelayAssumption DEF Kinds, Contexts, Relays

-----------------------------------------------------------------------------
(* Types.                                                                   *)

\* Every step keeps the types, and the wait of a goroutine for its command.
LEMMA TypeStep == TypeOK /\ [Next]_vars => TypeOK'
<1> SUFFICES ASSUME TypeOK, [Next]_vars PROVE TypeOK'
  OBVIOUS
<1>1. ASSUME HandleProxyDataPost PROVE TypeOK'
  <2>1. calls' \in 0 .. MaxCalls
    BY <1>1 DEF HandleProxyDataPost, Call, TypeOK
  <2>2. hosting' \in BOOLEAN /\ clientconnect' \in BOOLEAN
    BY <1>1, Zenon DEF HandleProxyDataPost, TypeOK
  <2> QED
    BY <1>1, <2>1, <2>2 DEF HandleProxyDataPost, TypeOK, pairVars, httpVars
<1>2. ASSUME StopHosting PROVE TypeOK'
  <2>1. calls' \in 0 .. MaxCalls
    BY <1>2 DEF StopHosting, Call, TypeOK
  <2>2. hosting' \in BOOLEAN /\ clientconnect' \in BOOLEAN
    BY <1>2, Zenon DEF StopHosting, TypeOK
  <2> QED
    BY <1>2, <2>1, <2>2 DEF StopHosting, TypeOK, pairVars, httpVars
<1>3. ASSUME HandleDisconnectFromProxy PROVE TypeOK'
  <2>1. calls' \in 0 .. MaxCalls
    BY <1>3 DEF HandleDisconnectFromProxy, Call, TypeOK
  <2>2. hosting' \in BOOLEAN /\ clientconnect' \in BOOLEAN
    BY <1>3, Zenon DEF HandleDisconnectFromProxy, TypeOK
  <2> QED
    BY <1>3, <2>1, <2>2 DEF HandleDisconnectFromProxy, TypeOK, pairVars, httpVars
<1>4. ASSUME NEW h \in Hosts, HandleProxyDataGet(h) PROVE TypeOK'
  BY <1>4 DEF HandleProxyDataGet, TypeOK, flagVars, pairVars, httpVars
<1>5. ASSUME NEW h \in Hosts, HttpHostToClient(h) PROVE TypeOK'
  BY <1>5 DEF HttpHostToClient, TypeOK, flagVars, pairVars, httpVars
<1>6. ASSUME NEW c \in Clients, Reject(c) PROVE TypeOK'
  BY <1>6 DEF Reject, TypeOK, flagVars, pairVars, relayVars
<1>7. ASSUME NEW c \in Clients, HandleConnectMethod(c) PROVE TypeOK'
  BY <1>7 DEF HandleConnectMethod, TypeOK, flagVars, pairVars, relayVars
<1>8. ASSUME NEW c \in Clients, PollAsClient(c) PROVE TypeOK'
  BY <1>8 DEF PollAsClient, TypeOK, pairVars, httpVars
<1>9. ASSUME NEW c \in Clients, LockHistory(c) PROVE TypeOK'
  BY <1>9 DEF LockHistory, TypeOK, flagVars, pairVars, relayVars
<1>10. ASSUME NEW c \in Clients, AnswerConnected(c) PROVE TypeOK'
  BY <1>10 DEF AnswerConnected, TypeOK, pairVars, relayVars
<1>11. ASSUME NEW c \in Clients, Pay(c) PROVE TypeOK'
  BY <1>11 DEF Pay, TypeOK, flagVars, pairVars, relayVars
<1>12. ASSUME NEW c \in Clients, Refuse(c) PROVE TypeOK'
  BY <1>12 DEF Refuse, TypeOK, flagVars, pairVars, relayVars, Fault
<1>13. ASSUME NEW r \in Relays, StoreContext(r) PROVE TypeOK'
  BY <1>13 DEF StoreContext, TypeOK, flagVars, httpVars
<1>14. ASSUME NEW r \in Relays, StoreCancel(r) PROVE TypeOK'
  BY <1>14 DEF StoreCancel, TypeOK, flagVars, httpVars
<1>15. ASSUME NEW r \in Relays, StartTar(r) PROVE TypeOK'
  BY <1>15 DEF StartTar, TypeOK, Kind, flagVars, pairVars, httpVars
<1>16. ASSUME NEW r \in Relays, RunCommand(r) PROVE TypeOK'
  BY <1>16 DEF RunCommand, TypeOK, flagVars, pairVars, httpVars
<1>17. ASSUME NEW r \in Relays, RunFails(r) PROVE TypeOK'
  BY <1>17 DEF RunFails, TypeOK, Over, Failed, flagVars, pairVars, httpVars
<1>18. ASSUME NEW r \in Relays, Bind(r) PROVE TypeOK'
  BY <1>18 DEF Bind, TypeOK, End, Over, flagVars, pairVars, httpVars
<1>19. ASSUME NEW r \in Relays, Kill(r) PROVE TypeOK'
  BY <1>19 DEF Kill, TypeOK, End, Over, Failed, flagVars, pairVars, httpVars
<1>20. ASSUME NEW r \in Relays, CommandEnds(r) PROVE TypeOK'
  BY <1>20 DEF CommandEnds, TypeOK, End, Over, Failed, flagVars, pairVars, httpVars, Fault
<1>21. ASSUME NEW k \in Kinds, NEW x \in Contexts, Tar(k, x) PROVE TypeOK'
  BY <1>21 DEF Tar, TypeOK, flagVars, pairVars, httpVars
<1>22. CASE UNCHANGED vars
  BY <1>22 DEF vars, flagVars, pairVars, httpVars, TypeOK
<1> QED
  BY <1>1, <1>2, <1>3, <1>4, <1>5, <1>6, <1>7, <1>8, <1>9, <1>10, <1>11,
     <1>12, <1>13, <1>14, <1>15, <1>16, <1>17, <1>18, <1>19, <1>20, <1>21, <1>22
  DEF Next, Relay, Handler

-----------------------------------------------------------------------------
(* The pair of globals.                                                     *)

\* What only changes flags, requests and counters keeps the invariant.
LEMMA OtherStep ==
    ASSUME IInv, TypeOK', UNCHANGED <<relayVars, pc>> PROVE IInv'
<1>1. Numbered'
  BY DEF IInv, Numbered, Owned, relayVars, pairVars
<1>2. (~mixed => Unmixed)'
  BY DEF IInv, Unmixed, Alone, Stored, Ready, Ran, Reading, OwnedBy, Owned, relayVars, pairVars
<1> QED
  BY <1>1, <1>2 DEF IInv

\* A step of one relay that leaves the pair, the tars and the other relays alone
\* keeps the invariant if it begins no use of the pair and runs no command.
LEMMA QuietStep ==
    ASSUME IInv, TypeOK', NEW r \in Relays,
           UNCHANGED <<pairVars, cancelled, tars, mine>>,
           \A s \in Relays \ {r} : pc'[s] = pc[s] /\ child'[s] = child[s] /\ under'[s] = under[s],
           pc'[r] \notin {"keep", "watch"},
           Reading(r)' => Reading(r) /\ pc[r] \in {"python", "python3"},
           child'[r] # "none" => child[r] # "none" /\ under'[r] = under[r],
           under'[r] <= made
    PROVE  IInv'
<1>1. Numbered'
  BY DEF IInv, Numbered, Owned, pairVars
<1>2. ASSUME ~mixed PROVE Unmixed'
  <2> USE <1>2
  <2>1. \A s \in Relays : Reading(s)' => Reading(s)
    BY DEF Reading
  <2>2. Alone'
    BY <2>1 DEF IInv, Unmixed, Alone
  <2>3. Stored'
    BY DEF IInv, Unmixed, Stored, Owned, pairVars
  <2>4. Ready'
    BY <2>1 DEF IInv, Unmixed, Ready, OwnedBy, Owned, pairVars
  <2>5. Ran'
    BY DEF IInv, Unmixed, Ran, OwnedBy, Owned
  <2> QED
    BY <2>2, <2>3, <2>4, <2>5 DEF Unmixed
<1> QED
  BY <1>1, <1>2 DEF IInv, pairVars
\* The new context is nobody's; if another relay has still to read the pair,
\* it is mixed up from here on.
LEMMA StoreContextStep ==
    ASSUME IInv, TypeOK', NEW r \in Relays, StoreContext(r) PROVE IInv'
<1> USE DEF StoreContext
<1>1. made \in Nat /\ made' = made + 1 /\ globalCtxC' = made + 1
  BY DEF IInv, TypeOK
<1>2. contextCancel \in Nat /\ \A s \in Relays : mine[s] \in Nat /\ under[s] \in Nat
  BY DEF IInv, TypeOK
<1>3. \A k \in Kinds : Owned(k) \subseteq Nat /\ Owned(k)' = Owned(k)
  BY DEF IInv, TypeOK, Owned
<1>4. Numbered'
  <2>1. \A s \in Relays : mine'[s] \in {made', mine[s]}
    BY DEF IInv, TypeOK
  <2> QED
    BY <1>1, <1>2, <1>3, <2>1 DEF IInv, Numbered
<1>5. ASSUME ~mixed' PROVE Unmixed'
  <2>1. ~mixed /\ \A s \in Relays \ {r} : ~Reading(s)
    BY <1>5
  <2>2. \A s \in Relays \ {r} : pc'[s] = pc[s]
    BY DEF IInv, TypeOK
  <2>3. pc'[r] = "keep" /\ mine'[r] = globalCtxC'
    BY DEF IInv, TypeOK
  <2>4. \A s \in Relays \ {r} : ~Reading(s)'
    BY <2>1, <2>2 DEF Reading
  <2>5. Alone'
    BY <2>4 DEF Alone
  <2>6. (\A k \in Kinds : globalCtxC \notin Owned(k))'
    BY <1>1, <1>3 DEF IInv, Numbered
  <2>7. \A s \in Relays : under'[s] # globalCtxC'
    BY <1>1, <1>2 DEF IInv, Numbered
  <2>8. Stored'
    BY <2>3, <2>4, <2>6, <2>7 DEF Stored, Reading
  <2>9. Ready'
    BY <2>3, <2>4 DEF Ready
  <2>10. Ran'
    BY <1>3, <2>1 DEF IInv, Unmixed, Ran, OwnedBy
  <2> QED
    BY <2>5, <2>8, <2>9, <2>10 DEF Unmixed
<1> QED
  BY <1>4, <1>5 DEF IInv

\* The cancel function that is stored is the one of the context stored before,
\* or the pair is mixed up.
LEMMA StoreCancelStep ==
    ASSUME IInv, TypeOK', NEW r \in Relays, StoreCancel(r) PROVE IInv'
<1> USE DEF StoreCancel
<1>1. Numbered'
  <2>1. \A s \in Relays : mine'[s] \in {0, mine[s]}
    BY DEF IInv, TypeOK
  <2> QED
    BY <2>1 DEF IInv, TypeOK, Numbered, Owned
<1>2. ASSUME ~mixed PROVE Unmixed'
  <2> USE <1>2
  <2>1. /\ pc'[r] = "watch"
        /\ \A s \in Relays \ {r} : pc'[s] = pc[s] /\ mine'[s] = mine[s]
    BY DEF IInv, TypeOK
  <2>2. \A s \in Relays : Reading(s)' <=> Reading(s)
    BY <2>1 DEF Reading
  <2>3. \A s \in Relays \ {r} : ~Reading(s)
    BY DEF IInv, Unmixed, Alone, Reading
  <2>4. Alone'
    BY <2>2 DEF IInv, Unmixed, Alone
  <2>5. contextCancel' = globalCtxC'
    BY DEF IInv, Unmixed, Stored
  <2>6. Stored'
    BY <2>1, <2>2, <2>3, <2>5 DEF IInv, Unmixed, Stored, Owned, Reading
  <2>7. Ready'
    BY <2>1, <2>2, <2>3 DEF Ready
  <2>8. Ran'
    BY DEF IInv, Unmixed, Ran, OwnedBy, Owned
  <2> QED
    BY <2>4, <2>6, <2>7, <2>8 DEF Unmixed
<1> QED
  BY <1>1, <1>2 DEF IInv

\* The context that was nobody's becomes that of the relay's kind.
LEMMA StartTarStep ==
    ASSUME IInv, TypeOK', NEW r \in Relays, StartTar(r) PROVE IInv'
<1> USE DEF StartTar
<1>1. Kind(r) \in Kinds
  BY DEF Kind
<1>2. /\ Owned(Kind(r))' = Owned(Kind(r)) \cup {contextCancel}
      /\ \A k \in Kinds \ {Kind(r)} : Owned(k)' = Owned(k)
  BY <1>1 DEF IInv, TypeOK, Owned
<1>3. Numbered'
  BY <1>1, <1>2 DEF IInv, Numbered, pairVars
<1>4. ASSUME ~mixed PROVE Unmixed'
  <2> USE <1>4
  <2>1. pc'[r] = "python" /\ \A s \in Relays \ {r} : pc'[s] = pc[s]
    BY DEF IInv, TypeOK
  <2>2. \A s \in Relays : Reading(s)' <=> Reading(s)
    BY <2>1 DEF Reading
  <2>3. \A s \in Relays \ {r} : ~Reading(s)
    BY DEF IInv, Unmixed, Alone, Reading
  <2>4. /\ contextCancel = globalCtxC
        /\ \A k \in Kinds : globalCtxC \notin Owned(k)
        /\ \A s \in Relays : child[s] # "none" => under[s] # globalCtxC
    BY DEF IInv, Unmixed, Stored
  <2>5. Alone'
    BY <2>2 DEF IInv, Unmixed, Alone
  <2>6. Stored'
    BY <2>1, <2>2, <2>3 DEF Stored, Reading
  <2>7. OwnedBy(Kind(r), globalCtxC)'
    BY <1>1, <1>2, <2>4 DEF OwnedBy, pairVars, Kind
  <2>8. Ready'
    BY <2>2, <2>3, <2>7 DEF Ready, Kind
  <2>9. ASSUME NEW s \in Relays, child'[s] # "none" PROVE OwnedBy(Kind(s), under[s])'
    <3>1. OwnedBy(Kind(s), under[s])
      BY <2>9 DEF IInv, Unmixed, Ran
    <3> QED
      BY <1>1, <1>2, <2>4, <2>9, <3>1 DEF OwnedBy, Kind
  <2> QED
    BY <2>5, <2>6, <2>8, <2>9 DEF Unmixed, Ran
<1> QED
  BY <1>3, <1>4 DEF IInv, pairVars

\* A command runs under the context its own relay has a tar for.
LEMMA RunCommandStep ==
    ASSUME IInv, TypeOK', NEW r \in Relays, RunCommand(r) PROVE IInv'
<1> USE DEF RunCommand
<1>1. /\ child'[r] = "starting" /\ under'[r] = globalCtxC
      /\ \A s \in Relays \ {r} : child'[s] = child[s] /\ under'[s] = under[s]
  BY DEF IInv, TypeOK
<1>2. Numbered'
  BY <1>1 DEF IInv, Numbered, Owned, pairVars
<1>3. ASSUME ~mixed PROVE Unmixed'
  <2> USE <1>3
  <2>1. Reading(r) /\ \A s \in Relays : Reading(s)' => Reading(s)
    BY <1>1 DEF Reading
  <2>2. \A s \in Relays \ {r} : ~Reading(s)
    BY <2>1 DEF IInv, Unmixed, Alone
  <2>3. Alone'
    BY <2>1 DEF IInv, Unmixed, Alone
  <2>4. Stored'
    BY <2>2 DEF Stored, Reading
  <2>5. Ready'
    BY <2>1 DEF IInv, Unmixed, Ready, OwnedBy, Owned, pairVars
  <2>6. OwnedBy(Kind(r), globalCtxC)
    BY <2>1 DEF IInv, Unmixed, Ready
  <2>7. Ran'
    BY <1>1, <2>6 DEF IInv, Unmixed, Ran, OwnedBy, Owned
  <2> QED
    BY <2>3, <2>4, <2>5, <2>7 DEF Unmixed
<1> QED
  BY <1>2, <1>3 DEF IInv, pairVars

\* A context that is cancelled stays with the kind that watched it.
LEMMA TarStep ==
    ASSUME IInv, TypeOK', NEW k \in Kinds, NEW x \in Contexts, Tar(k, x) PROVE IInv'
<1> USE DEF Tar
<1>1. \A j \in Kinds : Owned(j)' = Owned(j)
  BY DEF IInv, TypeOK, Owned
<1>2. Numbered'
  BY <1>1 DEF IInv, Numbered, pairVars
<1>3. ASSUME ~mixed PROVE Unmixed'
  BY <1>1, <1>3 DEF IInv, Unmixed, Alone, Stored, Ready, Ran, Reading, OwnedBy, pairVars
<1> QED
  BY <1>2, <1>3 DEF IInv, pairVars

\* Every action of the relays, the requests and the flags keeps the invariant.
LEMMA InvStep == IInv /\ [Next]_vars => IInv'
<1> SUFFICES ASSUME IInv, [Next]_vars PROVE IInv'
  OBVIOUS
<1>t. TypeOK'
  BY TypeStep DEF IInv
<1>1. CASE HandleProxyDataPost \/ StopHosting \/ HandleDisconnectFromProxy
  BY <1>1, <1>t, OtherStep
     DEF HandleProxyDataPost, StopHosting, HandleDisconnectFromProxy, relayVars
<1>2. ASSUME NEW c \in Clients,
             Reject(c) \/ LockHistory(c) \/ AnswerConnected(c) \/ Pay(c) \/ Refuse(c)
      PROVE  IInv'
  BY <1>2, <1>t, OtherStep DEF Reject, LockHistory, AnswerConnected, Pay, Refuse
<1>3. ASSUME NEW h \in Hosts, HandleProxyDataGet(h) \/ HttpHostToClient(h) PROVE IInv'
  <2>1. UNCHANGED <<pairVars, cancelled, tars, mine, child, under>>
    BY <1>3 DEF HandleProxyDataGet, HttpHostToClient
  <2>2. pc'[h] \in {"loop", "make"} /\ \A s \in Relays \ {h} : pc'[s] = pc[s]
    BY <1>3 DEF HandleProxyDataGet, HttpHostToClient, IInv, TypeOK
  <2> QED
    BY <1>t, <2>1, <2>2, QuietStep DEF Reading, IInv, Numbered
<1>4. ASSUME NEW c \in Clients, HandleConnectMethod(c) \/ PollAsClient(c) PROVE IInv'
  <2>1. UNCHANGED <<pairVars, cancelled, tars, mine, child, under>>
    BY <1>4 DEF HandleConnectMethod, PollAsClient, relayVars
  <2>2. pc'[c] \in {"start", "make"} /\ \A s \in Relays \ {c} : pc'[s] = pc[s]
    BY <1>4 DEF HandleConnectMethod, PollAsClient, IInv, TypeOK
  <2> QED
    BY <1>t, <2>1, <2>2, QuietStep DEF Reading, IInv, Numbered
<1>5. ASSUME NEW r \in Relays, RunFails(r) \/ Bind(r) \/ Kill(r) \/ CommandEnds(r) PROVE IInv'
  <2>1. UNCHANGED <<pairVars, cancelled, tars, mine>>
    BY <1>5 DEF RunFails, Bind, Kill, CommandEnds
  <2>2. pc[r] \in {"python", "python3"}
    BY <1>5 DEF RunFails, Bind, Kill, CommandEnds, IInv, TypeOK
  <2>3. pc[r] = "python3" => child[r] # "none" \/ RunFails(r)
    BY <1>5 DEF Bind, Kill, CommandEnds
  <2>4. \A s \in Relays \ {r} : pc'[s] = pc[s] /\ child'[s] = child[s] /\ under'[s] = under[s]
    BY <1>5 DEF RunFails, Bind, Kill, CommandEnds, End, IInv, TypeOK
  <2>5. child'[r] # "none" => child[r] # "none" /\ under'[r] = under[r]
    BY <1>5 DEF RunFails, Bind, Kill, CommandEnds, End, IInv, TypeOK
  <2>6. under'[r] \in {0, under[r]}
    BY <1>5 DEF RunFails, Bind, Kill, CommandEnds, End, IInv, TypeOK
  <2>7. pc'[r] \in {pc[r], Failed(r), Over(r)}
    BY <1>5 DEF RunFails, Bind, Kill, CommandEnds, End, IInv, TypeOK
  <2>8. pc'[r] = pc[r] => child'[r] # "none"
    BY <1>5 DEF RunFails, Bind, Kill, CommandEnds, End, Failed, Over, IInv, TypeOK
  <2>9. under'[r] <= made
    BY <2>6 DEF IInv, TypeOK, Numbered
  <2>10. Reading(r)' => Reading(r)
    BY <2>2, <2>7, <2>8 DEF Reading, Failed, Over
  <2>11. pc'[r] \notin {"keep", "watch"}
    BY <2>2, <2>7 DEF Failed, Over
  <2> QED
    BY <1>t, <2>1, <2>2, <2>4, <2>5, <2>9, <2>10, <2>11, QuietStep
<1>6. ASSUME NEW r \in Relays, StoreContext(r) \/ StoreCancel(r) \/ StartTar(r) \/ RunCommand(r)
      PROVE  IInv'
  BY <1>6, <1>t, StoreContextStep, StoreCancelStep, StartTarStep, RunCommandStep
<1>7. ASSUME NEW k \in Kinds, NEW x \in Contexts, Tar(k, x) PROVE IInv'
  BY <1>7, <1>t, TarStep
<1>8. CASE UNCHANGED vars
  BY <1>8, <1>t, OtherStep DEF vars, relayVars
<1> QED
  BY <1>1, <1>2, <1>3, <1>4, <1>5, <1>6, <1>7, <1>8 DEF Next, Relay, Handler

\* No relay runs before the first request.
LEMMA InvInit == Init => IInv
<1> SUFFICES ASSUME Init PROVE IInv
  OBVIOUS
<1>1. TypeOK
  <2>1. 0 \in Contexts /\ 0 \in 0 .. MaxCalls /\ 0 \in 0 .. MaxFaults
    OBVIOUS
  <2>2. hosting \in BOOLEAN /\ clientconnect \in BOOLEAN /\ mixed \in BOOLEAN
    BY Zenon DEF Init
  <2>3. cancelled \in [Kinds -> SUBSET Contexts] /\ tars \in [Kinds -> SUBSET Contexts]
    BY DEF Init
  <2> QED
    BY <2>1, <2>2, <2>3 DEF Init, TypeOK
<1>2. Numbered
  BY DEF Init, Numbered, Owned
<1>3. Unmixed
  BY DEF Init, Unmixed, Alone, Stored, Ready, Ran, Reading
<1> QED
  BY <1>1, <1>2, <1>3 DEF IInv

\* The invariant holds throughout.
LEMMA Invariance == Spec => []IInv
  BY InvInit, InvStep, PTL DEF Spec

-----------------------------------------------------------------------------
(* The theorems.                                                            *)

\* Types, and goroutines that wait for the command they run, for any number of
\* host loops, connect requests, contexts, calls and faults.
THEOREM TypeCorrect == Spec => []TypeOK
  BY Invariance, PTL DEF IInv

\* httpHostToClient and pollPeerAddresses keep the means to stop their command
\* as long as no other goroutine replaces the pair of globals while they use it,
\* however many of them run.
THEOREM CommandsWatched == Spec => []Watched
<1>1. IInv => Watched
  BY DEF IInv, Watched, Unmixed, Ran, OwnedBy, Owned, IsCancelled, Kind
<1> QED
  BY <1>1, Invariance, PTL

\* stopHosting never ends a client, nor handleDisconnectFromProxy a server,
\* under the same condition.
THEOREM KindsIndependent == Spec => []Independent
<1>1. IInv => Independent
  BY DEF IInv, Independent, Unmixed, Ran, OwnedBy, Owned
<1> QED
  BY <1>1, Invariance, PTL
=============================================================================
