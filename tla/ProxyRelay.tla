---------------------------- MODULE ProxyRelay ----------------------------
(***************************************************************************)
(* The relays of a proxy node.  GET /proxy-data/ starts a goroutine that     *)
(* runs server.py whenever hosting is set and the port is free, for ever;    *)
(* POST /connect-proxy/ starts one that runs client.py once, and pays the    *)
(* host.  Both keep the context of the command they start, and the function  *)
(* that cancels it, in the same two global variables, which they read again  *)
(* when they start the goroutine tar and when they run python and python3.   *)
(* A tar cancels its context when it finds its kind's flag lowered.          *)
(*                                                                         *)
(* A context is a number, 0 before the first.  A tar is the pair of its kind *)
(* and its context: two that are equal do the same.                         *)
(***************************************************************************)
EXTENDS Naturals

CONSTANTS
    Hosts,        \* GET requests, each with the loop it starts
    Clients,      \* connect requests, each with the goroutine it starts
    MaxContexts,  \* bound: contexts made
    MaxCalls,     \* bound: calls that raise or lower a flag
    MaxFaults     \* bound: failing commands, messages and wallet calls

ASSUME RelayAssumption ==
    /\ Hosts \cap Clients = {}
    /\ {MaxContexts, MaxCalls, MaxFaults} \subseteq Nat

VARIABLES
    hosting, clientconnect,
    globalCtxC, contextCancel,
    made,          \* contexts made so far
    cancelled,     \* the contexts cancelled by the tars of each kind
    tars,          \* the contexts watched by the tars of each kind
    python,        \* whether the machine has a command of that name
    pc,            \* the goroutine of each relay
    mine,          \* the context it made, 0 once it stored its cancel function
    child, under,  \* its command, and the context that ends it, 0 without
    http,          \* the handler of each connect request
    historyMutex,  \* the handlers that hold it, one at most
    mixed,         \* history: a relay replaced the pair before another had used it
    calls, faults

flagVars == <<hosting, clientconnect>>
pairVars == <<globalCtxC, contextCancel, made, mixed>>
httpVars == <<http, historyMutex>>
vars == <<flagVars, pairVars, cancelled, tars, python, pc, mine, child, under,
          httpVars, calls, faults>>

Relays   == Hosts \cup Clients
Kinds    == {"host", "client"}
Contexts == 0 .. MaxContexts

Kind(r)      == IF r \in Hosts THEN "host" ELSE "client"
Siblings(r)  == {s \in Relays : Kind(s) = Kind(r)}
Flag(k)      == IF k = "host" THEN hosting ELSE clientconnect
IsCancelled(x) == \E k \in Kinds : x \in cancelled[k]

\* Ports 19483, of the servers, and 19484, of the clients.
PortInUse(r) == \E s \in Siblings(r) : child[s] = "serving"

\* The relay has still to read the pair that it stored.
Reading(r) == \/ pc[r] \in {"keep", "watch", "python"}
              \/ pc[r] = "python3" /\ child[r] = "none"

Call  == calls < MaxCalls /\ calls' = calls + 1
Fault == faults < MaxFaults /\ faults' = faults + 1

Init ==
    /\ hosting = FALSE /\ clientconnect = FALSE
    /\ globalCtxC = 0 /\ contextCancel = 0 /\ made = 0
    /\ cancelled = [k \in Kinds |-> {}]
    /\ tars = [k \in Kinds |-> {}]
    /\ python \in BOOLEAN
    /\ pc = [r \in Relays |-> "none"]
    /\ mine = [r \in Relays |-> 0]
    /\ child = [r \in Relays |-> "none"]
    /\ under = [r \in Relays |-> 0]
    /\ http = [c \in Clients |-> "none"]
    /\ historyMutex = {}
    /\ mixed = FALSE
    /\ calls = 0 /\ faults = 0

-----------------------------------------------------------------------------
(* The handlers that change a flag.  One that finds it as it would set it     *)
(* changes nothing, and is no step.                                          *)

\* handleProxyData, POST: hosting is set before the body is decoded, and
\* stays set when decoding or saving the proxy fails.
HandleProxyDataPost ==
    /\ ~hosting /\ Call
    /\ hosting' = TRUE
    /\ UNCHANGED <<clientconnect, pairVars, cancelled, tars, python, pc, mine, child, under,
                   httpVars, faults>>

StopHosting ==
    /\ hosting /\ Call
    /\ hosting' = FALSE
    /\ UNCHANGED <<clientconnect, pairVars, cancelled, tars, python, pc, mine, child, under,
                   httpVars, faults>>

HandleDisconnectFromProxy ==
    /\ clientconnect /\ Call
    /\ clientconnect' = FALSE
    /\ UNCHANGED <<hosting, pairVars, cancelled, tars, python, pc, mine, child, under,
                   httpVars, faults>>

\* handleProxyData, GET: every one starts another loop.
HandleProxyDataGet(h) ==
    /\ pc[h] = "none"
    /\ pc' = [pc EXCEPT ![h] = "loop"]
    /\ UNCHANGED <<flagVars, pairVars, cancelled, tars, python, mine, child, under,
                   httpVars, calls, faults>>

-----------------------------------------------------------------------------
(* pollPeerAddresses and httpHostToClient.                                  *)

\* A round of the loop of a host that finds hosting set and the port free;
\* any other round changes nothing.
HttpHostToClient(h) ==
    /\ pc[h] = "loop" /\ hosting /\ ~PortInUse(h)
    /\ pc' = [pc EXCEPT ![h] = "make"]
    /\ UNCHANGED <<flagVars, pairVars, cancelled, tars, python, mine, child, under,
                   httpVars, calls, faults>>

PollAsClient(c) ==
    /\ pc[c] = "start"
    /\ clientconnect' = TRUE
    /\ pc' = [pc EXCEPT ![c] = "make"]
    /\ UNCHANGED <<hosting, pairVars, cancelled, tars, python, mine, child, under,
                   httpVars, calls, faults>>

\* globalCtxC, contextCancel = context.WithCancel(...): two stores.
StoreContext(r) ==
    /\ pc[r] = "make" /\ made < MaxContexts
    /\ made' = made + 1
    /\ globalCtxC' = made'
    /\ mine' = [mine EXCEPT ![r] = made']
    /\ mixed' = (mixed \/ \E s \in Relays \ {r} : Reading(s))
    /\ pc' = [pc EXCEPT ![r] = "keep"]
    /\ UNCHANGED <<flagVars, contextCancel, cancelled, tars, python, child, under,
                   httpVars, calls, faults>>

StoreCancel(r) ==
    /\ pc[r] = "keep"
    /\ contextCancel' = mine[r]
    /\ mine' = [mine EXCEPT ![r] = 0]
    /\ pc' = [pc EXCEPT ![r] = "watch"]
    /\ UNCHANGED <<flagVars, globalCtxC, made, mixed, cancelled, tars, python, child, under,
                   httpVars, calls, faults>>

\* Mutant: the goroutine tar is forgotten.
NoTar(r) ==
    /\ pc[r] = "watch"
    /\ pc' = [pc EXCEPT ![r] = "python"]
    /\ UNCHANGED <<flagVars, pairVars, cancelled, tars, python, mine, child, under,
                   httpVars, calls, faults>>

\* Mutant: the context is watched by the tars of both kinds.
TarOfBothKinds(r) ==
    /\ pc[r] = "watch"
    /\ tars' = [k \in Kinds |-> tars[k] \cup {contextCancel}]
    /\ pc' = [pc EXCEPT ![r] = "python"]
    /\ UNCHANGED <<flagVars, pairVars, cancelled, python, mine, child, under,
                   httpVars, calls, faults>>

\* go tar(contextCancel).
StartTar(r) ==
    /\ pc[r] = "watch"
    /\ tars' = [tars EXCEPT ![Kind(r)] = @ \cup {contextCancel}]
    /\ pc' = [pc EXCEPT ![r] = "python"]
    /\ UNCHANGED <<flagVars, pairVars, cancelled, python, mine, child, under,
                   httpVars, calls, faults>>

\* Mutant: no tar looks at clientconnect.
TarOfHosts(k, x) ==
    /\ x \in tars[k] /\ k = "host" /\ ~hosting
    /\ tars' = [tars EXCEPT ![k] = @ \ {x}]
    /\ cancelled' = [cancelled EXCEPT ![k] = @ \cup {x}]
    /\ UNCHANGED <<flagVars, pairVars, python, pc, mine, child, under, httpVars, calls, faults>>

\* A poll of tar that finds the flag lowered; any other changes nothing.
Tar(k, x) ==
    /\ x \in tars[k] /\ ~Flag(k)
    /\ tars' = [tars EXCEPT ![k] = @ \ {x}]
    /\ cancelled' = [cancelled EXCEPT ![k] = @ \cup {x}]
    /\ UNCHANGED <<flagVars, pairVars, python, pc, mine, child, under, httpVars, calls, faults>>

\* Mutant: a host does not go back to its loop.
OverForGood(r) == "done"

\* The goroutine after a command that ended well.
Over(r) == IF r \in Hosts THEN "loop" ELSE "done"

\* Mutant: python3 is tried again and again.
FailedForEver(r) == "python3"

\* The goroutine after a command that failed.
Failed(r) == IF pc[r] = "python" THEN "python3" ELSE Over(r)

\* Mutant: cmd.Start in place of cmd.Run, which waits for the command.
StartCommand(r) ==
    /\ pc[r] \in {"python", "python3"} /\ child[r] = "none"
    /\ ~IsCancelled(globalCtxC) /\ (pc[r] = "python" => python)
    /\ child' = [child EXCEPT ![r] = "starting"]
    /\ under' = [under EXCEPT ![r] = globalCtxC]
    /\ pc' = [pc EXCEPT ![r] = Over(r)]
    /\ UNCHANGED <<flagVars, pairVars, cancelled, tars, python, mine, httpVars, calls, faults>>

\* runCommand: a command does not start under a cancelled context.
RunCommand(r) ==
    /\ pc[r] \in {"python", "python3"} /\ child[r] = "none"
    /\ ~IsCancelled(globalCtxC) /\ (pc[r] = "python" => python)
    /\ child' = [child EXCEPT ![r] = "starting"]
    /\ under' = [under EXCEPT ![r] = globalCtxC]
    /\ UNCHANGED <<flagVars, pairVars, cancelled, tars, python, pc, mine, httpVars, calls, faults>>

RunFails(r) ==
    /\ pc[r] \in {"python", "python3"} /\ child[r] = "none"
    /\ IsCancelled(globalCtxC) \/ (pc[r] = "python" /\ ~python)
    /\ pc' = [pc EXCEPT ![r] = Failed(r)]
    /\ UNCHANGED <<flagVars, pairVars, cancelled, tars, python, mine, child, under,
                   httpVars, calls, faults>>

End(r, next) ==
    /\ child' = [child EXCEPT ![r] = "none"]
    /\ under' = [under EXCEPT ![r] = 0]
    /\ pc' = [pc EXCEPT ![r] = next]

\* The script binds its port, or finds it taken and exits with status 0.
Bind(r) ==
    /\ child[r] = "starting"
    /\ \/ PortInUse(r) /\ End(r, Over(r))
       \/ /\ ~PortInUse(r)
          /\ child' = [child EXCEPT ![r] = "serving"]
          /\ UNCHANGED <<pc, under>>
    /\ UNCHANGED <<flagVars, pairVars, cancelled, tars, python, mine, httpVars, calls, faults>>

\* exec.CommandContext kills the command of a cancelled context.
Kill(r) ==
    /\ child[r] # "none" /\ IsCancelled(under[r])
    /\ End(r, Failed(r))
    /\ UNCHANGED <<flagVars, pairVars, cancelled, tars, python, mine, httpVars, calls, faults>>

\* The script ends by itself: with an error, or with a status of 0.
CommandEnds(r) ==
    /\ child[r] # "none" /\ Fault
    /\ End(r, Failed(r)) \/ End(r, Over(r))
    /\ UNCHANGED <<flagVars, pairVars, cancelled, tars, python, mine, httpVars, calls>>

-----------------------------------------------------------------------------
(* handleConnectMethod.                                                     *)

relayVars == <<pairVars, cancelled, tars, python, mine, child, under>>

\* A body that does not parse, or the node's own peer ID: "Cannot connect to self."
Reject(c) ==
    /\ http[c] = "none"
    /\ http' = [http EXCEPT ![c] = "refused"]
    /\ UNCHANGED <<flagVars, relayVars, pc, historyMutex, calls, faults>>

\* The goroutine is started first.
HandleConnectMethod(c) ==
    /\ http[c] = "none"
    /\ http' = [http EXCEPT ![c] = "entry"]
    /\ pc' = [pc EXCEPT ![c] = "start"]
    /\ UNCHANGED <<flagVars, relayVars, historyMutex, calls, faults>>

\* addProxyHistoryEntry locks and unlocks historyMutex to append to a list that
\* nothing reads; then the handler locks it for the rest of the request.
LockHistory(c) ==
    /\ http[c] = "entry" /\ historyMutex = {}
    /\ historyMutex' = {c}
    /\ http' = [http EXCEPT ![c] = "ask"]
    /\ UNCHANGED <<flagVars, relayVars, pc, calls, faults>>

\* Mutant: the error paths return with the mutex held.
RefuseLocked(c) ==
    /\ http[c] = "ask" /\ Fault
    /\ http' = [http EXCEPT ![c] = "refused"]
    /\ UNCHANGED <<flagVars, relayVars, pc, historyMutex, calls>>

\* SendHistoryToHost or ListUnspent fails: status 500 or 400, and the goroutine
\* runs on.
Refuse(c) ==
    /\ http[c] = "ask" /\ Fault
    /\ http' = [http EXCEPT ![c] = "refused"]
    /\ historyMutex' = {}
    /\ UNCHANGED <<flagVars, relayVars, pc, calls>>

\* The host, which only prints what it receives, and the wallet have answered:
\* "Successfully connected to the peer."
AnswerConnected(c) ==
    /\ http[c] = "ask"
    /\ clientconnect' = TRUE
    /\ http' = [http EXCEPT ![c] = "pay"]
    /\ UNCHANGED <<hosting, relayVars, pc, historyMutex, calls, faults>>

\* Transaction, whose error is ignored; the mutex is released on return.
Pay(c) ==
    /\ http[c] = "pay"
    /\ historyMutex' = {}
    /\ http' = [http EXCEPT ![c] = "done"]
    /\ UNCHANGED <<flagVars, relayVars, pc, calls, faults>>

-----------------------------------------------------------------------------
Relay(r) ==
    \/ StoreContext(r) \/ StoreCancel(r) \/ StartTar(r)
    \/ RunCommand(r) \/ RunFails(r) \/ Bind(r) \/ Kill(r)

Handler(c) == LockHistory(c) \/ AnswerConnected(c) \/ Pay(c)

Next ==
    \/ HandleProxyDataPost \/ StopHosting \/ HandleDisconnectFromProxy
    \/ \E h \in Hosts : HandleProxyDataGet(h) \/ HttpHostToClient(h)
    \/ \E c \in Clients : \/ Reject(c) \/ HandleConnectMethod(c) \/ PollAsClient(c)
                          \/ Handler(c) \/ Refuse(c)
    \/ \E r \in Relays : Relay(r) \/ CommandEnds(r)
    \/ \E k \in Kinds, x \in Contexts : Tar(k, x)

Spec == Init /\ [][Next]_vars

\* Goroutines are scheduled, scripts start or are killed, and the calls of a
\* handler return: each step that stays possible is taken.
Fairness ==
    /\ \A h \in Hosts : WF_vars(HttpHostToClient(h))
    /\ \A c \in Clients : WF_vars(PollAsClient(c)) /\ SF_vars(Handler(c))
    /\ \A r \in Relays : WF_vars(Relay(r)) /\ WF_vars(Kill(r))
    /\ \A k \in Kinds, x \in Contexts : WF_vars(Tar(k, x))

FairSpec == Spec /\ Fairness

-----------------------------------------------------------------------------
(* Properties.                                                              *)

\* Types; a goroutine starts with its request, and waits for the command it runs.
TypeOK ==
    /\ hosting \in BOOLEAN /\ clientconnect \in BOOLEAN
    /\ globalCtxC \in Contexts /\ contextCancel \in Contexts /\ made \in Contexts
    /\ cancelled \in [Kinds -> SUBSET Contexts]
    /\ tars \in [Kinds -> SUBSET Contexts]
    /\ python \in BOOLEAN /\ mixed \in BOOLEAN
    /\ pc \in [Relays -> {"none", "loop", "start", "make", "keep", "watch",
                          "python", "python3", "done"}]
    /\ mine \in [Relays -> Contexts]
    /\ child \in [Relays -> {"none", "starting", "serving"}]
    /\ under \in [Relays -> Contexts]
    /\ http \in [Clients -> {"none", "entry", "ask", "pay", "done", "refused"}]
    /\ historyMutex \in SUBSET Clients
    /\ \A c \in Clients : http[c] = "none" => pc[c] = "none"
    /\ \A r \in Relays : child[r] # "none" => pc[r] \in {"python", "python3"}
    /\ calls \in 0 .. MaxCalls /\ faults \in 0 .. MaxFaults

\* A command that runs is watched by a tar of its own kind, or its context is
\* already cancelled: the goroutines of httpHostToClient and pollPeerAddresses
\* lose the means to stop their command only when another of them replaced the
\* pair globalCtxC, contextCancel before they had finished with it.
Watched ==
    ~mixed => \A r \in Relays :
        child[r] # "none" => under[r] \in tars[Kind(r)] \/ IsCancelled(under[r])

\* Lowering one flag never ends a command of the other kind, though both share
\* the pair: the server outlives handleDisconnectFromProxy, and the client
\* stopHosting, unless the pair was mixed up.
Independent ==
    ~mixed => \A r \in Relays, k \in Kinds :
        child[r] # "none" /\ under[r] \in cancelled[k] => k = Kind(r)

\* Only the bound on contexts keeps a relay from going on.
OutOfContexts == made = MaxContexts /\ \E r \in Relays : pc[r] = "make"

Idle(rs) == \A r \in rs : pc[r] \in {"none", "loop", "done"}

\* Once stopHosting cleared the flag, every server ends and none is started
\* until the flag is set again, unless the pair was mixed up: python3 is not
\* run in place of the python that was killed.
StopHostingStops == ~hosting ~> (Idle(Hosts) \/ hosting \/ mixed \/ OutOfContexts)

\* A disconnect that comes when no connect request is under way ends the
\* client, also that of a request which was refused; one that comes earlier
\* may be undone by the assignments of clientconnect in pollPeerAddresses and
\* at the end of handleConnectMethod.
DisconnectStops ==
    (~clientconnect /\ \A c \in Clients : http[c] \in {"none", "refused", "done"} /\ pc[c] # "start")
        ~> (Idle(Clients) \/ clientconnect \/ mixed \/ OutOfContexts)

\* While hosting stays set, a node with a host loop gets its server back after
\* every failure, and after a stop and a start that fell between two polls.
HostingServes ==
    (hosting /\ \E h \in Hosts : pc[h] # "none")
        ~> (\E h \in Hosts : child[h] = "serving") \/ ~hosting \/ mixed \/ OutOfContexts

\* Every connect request is answered and gives the historyMutex back, though
\* it is held during calls to the host and to the wallet.
ConnectsAnswered ==
    \A c \in Clients : http[c] = "entry" ~> http[c] \in {"refused", "done"} /\ c \notin historyMutex
=============================================================================
