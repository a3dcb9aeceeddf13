------------------------------- MODULE Wallet -------------------------------
(***************************************************************************)
(* The wallet service (services/btcService.go) behind its HTTP handlers     *)
(* (controllers/btcController.go): it drives btcd, btcwallet and btcctl as   *)
(* child processes and keeps the mining address in a JSON temp file.        *)
(*                                                                         *)
(* Every HTTP request runs in a goroutine of its own and nothing is locked.  *)
(* A handler is a list of steps; a step that fails continues with the       *)
(* clean-up the handler has at that place.  A step is what other handlers    *)
(* and processes can interleave with: one look at the process table, one     *)
(* start or kill of a process, one btcctl call, one read, truncation or      *)
(* write of the temp file.                                                  *)
(***************************************************************************)
EXTENDS Naturals, Sequences, FiniteSets

CONSTANTS
    Slots,        \* HTTP connections: the requests that can be in progress
    Addrs,        \* wallet addresses, non-empty strings
    Ops,          \* the operations that arrive
    Systems,      \* the operating systems, among "windows" and "darwin"
    MaxRequests,  \* bound: requests served
    MaxFaults     \* bound: failures of the machine, and crashes

\* The empty string: a value that is absent, an argument that is not used.
Blank == ""

ASSUME WalletAssumption ==
    /\ Systems \subseteq {"windows", "darwin"}
    /\ Ops \subseteq {"Init", "Signup", "Login", "Logout", "DeleteAccount", "StartMining",
                      "StopMining", "Transaction", "Balance"}
    /\ MaxRequests \in Nat
    /\ MaxFaults \in Nat
    /\ Blank \notin Addrs

VARIABLES
    os,        \* runtime.GOOS, chosen once
    procs,     \* child processes alive
    walletDB,  \* does wallet.db exist
    temp,      \* content of the temp file
    code,      \* steps left to each goroutine
    buf,       \* what a goroutine is about to write to the temp file
    last,      \* the last request of each connection and its answer
    requests,  \* requests served so far
    faults,    \* faults so far
    clean      \* history: no two goroutines overlapped, nothing failed

vars == <<os, procs, walletDB, temp, code, buf, last, requests, faults, clean>>

-----------------------------------------------------------------------------
(* The temp file holds "miningaddr" and "originalBalance", Blank if absent; *)
(* nothing reads its third key, "status".  os.WriteFile empties the file     *)
(* before it writes, and an empty file does not parse.                      *)

Initialized == [miningaddr |-> Blank, originalBalance |-> Blank]
Truncated   == [miningaddr |-> "truncated", originalBalance |-> "truncated"]

Contents == [miningaddr : Addrs \cup {Blank}, originalBalance : {Blank, "balance"}]

Routines == Slots \X {"http", "job"}

Process ==
    [kind     : {"btcd", "btcwallet", "create"},
     by       : 1 .. MaxRequests,
     addr     : Addrs \cup {Blank},
     up       : BOOLEAN,        \* FALSE: killed by a signal, not gone yet
     unlocked : BOOLEAN,
     mining   : BOOLEAN]

Up(kind) == {p \in procs : p.kind = kind /\ p.up}

-----------------------------------------------------------------------------
(* Steps and the parts handlers are made of.                                *)

Step(do, arg, fail) == <<[do |-> do, arg |-> arg, fail |-> fail]>>

Return(res) == Step("return", res, "skip")

initializeTempFile(fail) ==
    Step("initTemp", Blank, fail) \o Step("truncate", Blank, fail) \o Step("write", Blank, fail)

\* updateTempFile, and deleteFromTempFile when the value is Blank.
updateTempFile(key, value, fail) ==
    Step(key, value, fail) \o Step("truncate", Blank, fail) \o Step("write", Blank, fail)

\* Mutant: the temp file is not updated.
StartBtcdUnrecorded(addr, fail) ==
    Step("absent", "btcd", fail) \o Step("startBtcd", addr, fail) \o Step("present", "btcd", fail)

\* On failure to update the temp file the process is left running.
StartBtcd(addr, fail) ==
    Step("absent", "btcd", fail) \o Step("startBtcd", addr, fail)
        \o Step("present", "btcd", fail) \o updateTempFile("miningaddr", addr, fail)

StartBtcwallet(fail) ==
    Step("absent", "btcwallet", fail) \o Step("startBtcwallet", Blank, fail)
        \o Step("present", "btcwallet", fail)

StopBtcd(fail)      == Step("kill", "btcd", fail)
StopBtcwallet(fail) == Step("kill", "btcwallet", fail)

\* A btcctl call.  The callee is the server it needs, "both" where the code
\* looks for both processes first.
Btcctl(callee, fail) == Step("rpc", callee, fail)

BtcwalletCreate(fail) == Step("create", Blank, fail) \o Step("created", Blank, fail)

UnlockWallet(fail)       == Step("unlock", "both", fail)
LockWallet(fail)         == Step("lock", "both", fail)
GetBalance(fail)         == Btcctl("both", fail)
GetNewAddress(fail)      == Btcctl("both", fail)
ListUnspent(fail)        == Btcctl("both", fail)
signRawTransaction(fail) == Step("sign", "btcwallet", fail)
sendRawTransaction(fail) == Btcctl("btcwallet", fail)
ConnectToTAServer(fail)  == Btcctl("btcd", fail)

GetReceivedByAddress(fail) == Btcctl("both", fail)

CreateRawTransaction(fail) ==
    Step("readAddr", Blank, fail) \o ListUnspent(fail) \o Btcctl("btcwallet", fail)

\* SetupMainnetDirectoryForMac removes the block database at once.
SetupMainnetDirectory(fail) ==
    IF os = "darwin" THEN Step("removeMainnet", Blank, fail) ELSE <<>>

\* Mutant: nothing is stopped.
StopNothing == <<>>

\* Stopping a process that does not run changes nothing, so the test
\* isDirectoryInUse that guards these calls is left out.
StopRelated == StopBtcd("skip") \o StopBtcwallet("skip")

RemoveMainnet(fail) == StopRelated \o Step("removeMainnet", Blank, fail)

\* What is left to do after a failure.
CleanUp(fail) ==
    CASE fail = "return"         -> Return("error")
      [] fail = "stopBtcd"       -> StopBtcd("skip") \o Return("error")
      [] fail = "stopBtcdWallet" -> StopBtcd("skip") \o StopBtcwallet("skip") \o Return("error")
      [] fail = "stopWalletBtcd" -> StopBtcwallet("skip") \o StopBtcd("skip") \o Return("error")
      [] fail = "noRestart"      -> Return("not restarted")
      [] fail = "done"           -> Return("ok")

-----------------------------------------------------------------------------
(* The operations.                                                          *)

InitService ==
    (IF os = "darwin" THEN SetupMainnetDirectory("return") ELSE RemoveMainnet("return"))
        \o initializeTempFile("return")
        \o StartBtcd(Blank, "stopBtcdWallet")
        \o StartBtcwallet("stopBtcdWallet")
        \o ConnectToTAServer("stopBtcdWallet")
        \o Step("killIfRunning", "btcwallet", "return")
        \o Step("killIfRunning", "btcd", "return")
        \o Return("ok")

\* Mutant: btcd is left running.
CreateWalletOnly ==
    StartBtcd(Blank, "return")
        \o BtcwalletCreate("stopBtcd")
        \o StartBtcwallet("stopBtcd")
        \o GetNewAddress("stopBtcdWallet")
        \o StopBtcwallet("stopBtcd")
        \o Return("ok")

CreateWallet ==
    StartBtcd(Blank, "return")
        \o BtcwalletCreate("stopBtcd")
        \o StartBtcwallet("stopBtcd")
        \o GetNewAddress("stopBtcdWallet")
        \o StopBtcwallet("stopBtcd")
        \o StopBtcd("return")
        \o Return("ok")

Login(addr) ==
    Step("walletExists", Blank, "return")
        \o SetupMainnetDirectory("return")
        \o RemoveMainnet("return")
        \o initializeTempFile("return")
        \o StartBtcd(addr, "stopBtcd")
        \o StartBtcwallet("stopWalletBtcd")
        \o UnlockWallet("stopWalletBtcd")
        \o ConnectToTAServer("stopBtcdWallet")
        \o Return("ok")

StopAll ==
    Step("killIfRunning", "btcwallet", "return")
        \o Step("killIfRunning", "btcd", "return")
        \o updateTempFile("miningaddr", Blank, "return")
        \o updateTempFile("status", Blank, "return")

Logout == StopAll \o Return("ok")

DeleteAccount == StopAll \o Step("removeDB", Blank, "return") \o Return("ok")

StartMining ==
    Step("ifIdle", "btcwallet", "return") \o Step("generate", "btcwallet", "return")
        \o Step("generated", Blank, "return") \o Return("ok")

StopMining == Step("ifMining", "btcwallet", "return") \o Step("readAddr", "restart", "return")

\* The rest of StopMining, with the address it read.
RestartMining(addr) ==
    StopBtcwallet("return") \o StopBtcd("return")
        \o StartBtcd(addr, "noRestart") \o StartBtcwallet("noRestart") \o Return("ok")

Transaction ==
    GetBalance("return")
        \o updateTempFile("originalBalance", "balance", "return")
        \o CreateRawTransaction("return")
        \o UnlockWallet("return")
        \o signRawTransaction("return")
        \o sendRawTransaction("return")
        \o LockWallet("skip")
        \o updateTempFile("originalBalance", Blank, "done")
        \o Return("ok")

GetMiningAddressAndBalance ==
    Step("readAddr", Blank, "return") \o GetReceivedByAddress("return") \o Return("ok")

Program(op, addr) ==
    CASE op = "Init"          -> InitService
      [] op = "Login"         -> Login(addr)
      [] op = "Logout"        -> Logout
      [] op = "DeleteAccount" -> DeleteAccount
      [] op = "StartMining"   -> StartMining
      [] op = "StopMining"    -> StopMining
      [] op = "Transaction"   -> Transaction
      [] op = "Balance"       -> GetMiningAddressAndBalance
      [] op = "Signup"        -> Step("await", Blank, "skip")

-----------------------------------------------------------------------------
(* The process table.                                                       *)

\* pgrep -f and pkill -f match whole command lines: btcwallet is started with
\* --btcdusername, so on darwin it matches "btcd".
Matching(name) ==
    {p \in procs : \/ p.kind = name
                   \/ name = "btcwallet" /\ p.kind = "create"
                   \/ name = "btcd" /\ p.kind = "btcwallet" /\ os = "darwin"}

Calls == {"rpc", "unlock", "lock", "sign", "ifIdle", "ifMining", "generated"}

\* The answers isProcessRunning(name) can give.  The path of btcctl contains
\* "btcd" too, and any call of it that is in progress may be seen.
IsProcessRunning(name) ==
    CASE Matching(name) # {} -> {TRUE}
      [] OTHER -> {FALSE} \cup
           {TRUE : r \in {r \in Routines : /\ os = "darwin" /\ name = "btcd"
                                          /\ code[r] # <<>> /\ Head(code[r]).do \in Calls}}

\* StopBtcd on darwin looks with pgrep without -f: at names only.
SeenByStop(name) ==
    IF name = "btcd" THEN \E p \in procs : p.kind = "btcd"
    ELSE Matching(name) # {}

\* taskkill /F ends a process; pkill sends a signal it ends on later.
Kill(name) ==
    procs' = IF os = "windows" THEN procs \ Matching(name)
             ELSE (procs \ Matching(name)) \cup
                      {[p EXCEPT !.up = FALSE] : p \in Matching(name)}

\* Can a btcctl call reach the server it needs?
Reachable(callee) ==
    /\ \E p \in procs : p.kind = (IF callee = "btcd" THEN "btcd" ELSE "btcwallet")
    /\ callee = "both" => TRUE \in IsProcessRunning("btcd")

-----------------------------------------------------------------------------
Init ==
    /\ os \in Systems
    /\ procs = {}
    /\ walletDB \in BOOLEAN
    /\ temp = Initialized
    /\ code = [r \in Routines |-> <<>>]
    /\ buf = [r \in Routines |-> Initialized]
    /\ last = [s \in Slots |-> [op |-> "none", res |-> Blank, num |-> 0]]
    /\ requests = 0 /\ faults = 0
    /\ clean = TRUE

Fault ==
    /\ faults < MaxFaults
    /\ faults' = faults + 1
    /\ clean' = FALSE

NoFault == UNCHANGED <<faults, clean>>

Idle == \A r \in Routines : code[r] = <<>>

At(r, dos) == code[r] # <<>> /\ Head(code[r]).do \in dos

Arg(r) == Head(code[r]).arg

Goto(r, steps) == code' = [code EXCEPT ![r] = steps]

Succeed(r) == Goto(r, Tail(code[r]))

Fail(r) ==
    Goto(r, IF Head(code[r]).fail = "skip" THEN Tail(code[r]) ELSE CleanUp(Head(code[r]).fail))

\* A request arrives.  Signup runs CreateWallet in a goroutine of its own.
Arrive(s, op, addr) ==
    /\ code[<<s, "http">>] = <<>> /\ code[<<s, "job">>] = <<>>
    /\ requests < MaxRequests
    /\ requests' = requests + 1
    /\ last' = [last EXCEPT ![s] = [op |-> op, res |-> Blank, num |-> requests + 1]]
    /\ code' = [code EXCEPT ![<<s, "http">>] = Program(op, addr),
                            ![<<s, "job">>] = IF op = "Signup" THEN CreateWallet ELSE <<>>]
    /\ clean' = (clean /\ Idle)
    /\ UNCHANGED <<os, procs, walletDB, temp, buf, faults>>

\* A handler answers.
Answer(r) ==
    /\ At(r, {"return"}) /\ r[2] = "http"
    /\ last' = [last EXCEPT ![r[1]].res = Arg(r)]
    /\ Goto(r, <<>>)
    /\ UNCHANGED <<os, procs, walletDB, temp, buf, requests, faults, clean>>

\* resultCh and errorCh are unbuffered: the creating goroutine hands over its
\* result only while SignupHandler waits for it.
HandOver(s) ==
    /\ At(<<s, "job">>, {"return"}) /\ At(<<s, "http">>, {"await"})
    /\ last' = [last EXCEPT ![s].res = Arg(<<s, "job">>)]
    /\ code' = [code EXCEPT ![<<s, "http">>] = <<>>, ![<<s, "job">>] = <<>>]
    /\ UNCHANGED <<os, procs, walletDB, temp, buf, requests, faults, clean>>

\* Mutant: the timer does not end the wait.
TimeoutIgnored(s) == At(<<s, "http">>, {"await"}) /\ UNCHANGED vars

\* time.After in SignupHandler; the goroutine goes on.
Timeout(s) ==
    /\ At(<<s, "http">>, {"await"})
    /\ Goto(<<s, "http">>, StopBtcwallet("skip") \o StopBtcd("skip") \o Return("timeout"))
    /\ clean' = FALSE
    /\ UNCHANGED <<os, procs, walletDB, temp, buf, last, requests, faults>>

-----------------------------------------------------------------------------
(* Steps on the process table.                                              *)

\* The first lines of StartBtcd and StartBtcwallet.
CheckAbsent(r) ==
    /\ At(r, {"absent"})
    /\ \E running \in IsProcessRunning(Arg(r)) : IF running THEN Fail(r) ELSE Succeed(r)
    /\ UNCHANGED <<os, procs, walletDB, temp, buf, last, requests, faults, clean>>

Spawned(r, kind, addr) ==
    [kind |-> kind, by |-> last[r[1]].num, addr |-> addr,
     up |-> TRUE, unlocked |-> FALSE, mining |-> FALSE]

StartProcess(r) ==
    /\ At(r, {"startBtcd", "startBtcwallet"})
    /\ \/ /\ procs' = procs \cup
               {IF Head(code[r]).do = "startBtcd" THEN Spawned(r, "btcd", Arg(r))
                ELSE Spawned(r, "btcwallet", Blank)}
          /\ Succeed(r) /\ NoFault
       \/ Fault /\ Fail(r) /\ UNCHANGED procs
    /\ UNCHANGED <<os, walletDB, temp, buf, last, requests>>

CheckPresent(r) ==
    /\ At(r, {"present"})
    /\ \E running \in IsProcessRunning(Arg(r)) : IF running THEN Succeed(r) ELSE Fail(r)
    /\ UNCHANGED <<os, procs, walletDB, temp, buf, last, requests, faults, clean>>

\* StopBtcd and StopBtcwallet; Logout, DeleteAccount and Init call them only
\* if isProcessRunning.
StopProcess(r) ==
    /\ At(r, {"kill", "killIfRunning"})
    /\ \/ /\ Head(code[r]).do = "killIfRunning"
          /\ FALSE \in IsProcessRunning(Arg(r))
          /\ Succeed(r) /\ NoFault /\ UNCHANGED procs
       \/ /\ Head(code[r]).do = "killIfRunning" => TRUE \in IsProcessRunning(Arg(r))
          /\ IF SeenByStop(Arg(r))
             THEN \/ Kill(Arg(r)) /\ Succeed(r) /\ NoFault
                  \/ Fault /\ Fail(r) /\ UNCHANGED procs
             ELSE Fail(r) /\ NoFault /\ UNCHANGED procs
    /\ UNCHANGED <<os, walletDB, temp, buf, last, requests>>

\* btcwallet --create runs in a terminal the service types into.
CreateBegin(r) ==
    /\ At(r, {"create"})
    /\ IF walletDB THEN Fail(r) /\ UNCHANGED procs
       ELSE Succeed(r) /\ procs' = procs \cup {Spawned(r, "create", Blank)}
    /\ UNCHANGED <<os, walletDB, temp, buf, last, requests, faults, clean>>

\* It ends by itself or was killed; the script on Windows does not report that.
CreateEnd(r) ==
    /\ At(r, {"created"})
    /\ LET mine == {p \in procs : p.kind = "create" /\ p.by = last[r[1]].num}
       IN IF \E p \in mine : p.up
          THEN Succeed(r) /\ walletDB' = TRUE
          ELSE /\ IF os = "windows" THEN Succeed(r) ELSE Fail(r)
               /\ UNCHANGED walletDB
    /\ procs' = {p \in procs : ~(p.kind = "create" /\ p.by = last[r[1]].num)}
    /\ UNCHANGED <<os, temp, buf, last, requests, faults, clean>>

\* wallet.db is looked for (Login) and removed (DeleteAccount; removing it can
\* fail while a btcwallet has it open).
WalletExists(r) ==
    /\ At(r, {"walletExists"})
    /\ IF walletDB THEN Succeed(r) ELSE Fail(r)
    /\ UNCHANGED <<os, procs, walletDB, temp, buf, last, requests, faults, clean>>

RemoveWalletDB(r) ==
    /\ At(r, {"removeDB"})
    /\ \/ walletDB' = FALSE /\ Succeed(r) /\ NoFault
       \/ /\ walletDB /\ Matching("btcwallet") # {}
          /\ Fail(r) /\ NoFault /\ UNCHANGED walletDB
       \/ walletDB /\ Fault /\ Fail(r) /\ UNCHANGED walletDB
    /\ UNCHANGED <<os, procs, temp, buf, last, requests>>

\* The block database is removed, or some of its files could not be.
RemoveMainnetDirectory(r) ==
    /\ At(r, {"removeMainnet"})
    /\ Succeed(r) \/ Fail(r)
    /\ UNCHANGED <<os, procs, walletDB, temp, buf, last, requests, faults, clean>>

-----------------------------------------------------------------------------
(* Calls of btcctl.  Any of them can fail: a server that was just started    *)
(* does not answer yet.                                                     *)

CallFails(r) ==
    /\ At(r, Calls \cup {"generate"})
    /\ At(r, {"generated"}) => ~\E p \in Up("btcd") : p.mining
    /\ Fail(r)
    /\ UNCHANGED <<os, procs, walletDB, temp, buf, last, requests, faults, clean>>

SetUnlocked(unlocked) ==
    procs' = {IF p.kind = "btcwallet" THEN [p EXCEPT !.unlocked = unlocked] ELSE p : p \in procs}

Call(r) ==
    /\ At(r, {"rpc", "unlock", "lock", "sign"})
    /\ Reachable(Arg(r))
    /\ CASE Head(code[r]).do = "unlock" -> SetUnlocked(TRUE)
         [] Head(code[r]).do = "lock"   -> SetUnlocked(FALSE)
         [] Head(code[r]).do = "sign"   -> (\E p \in procs : p.unlocked) /\ UNCHANGED procs
         [] OTHER                       -> UNCHANGED procs
    /\ Succeed(r)
    /\ UNCHANGED <<os, walletDB, temp, buf, last, requests, faults, clean>>

\* GetMiningStatus: StartMining returns if btcd mines, StopMining if not.
CheckMining(r) ==
    /\ At(r, {"ifIdle", "ifMining"})
    /\ Reachable("btcwallet")
    /\ IF (\E p \in procs : p.mining) <=> At(r, {"ifMining"})
       THEN Succeed(r)
       ELSE Goto(r, Return("nothing to do"))
    /\ UNCHANGED <<os, procs, walletDB, temp, buf, last, requests, faults, clean>>

\* generate lasts until the blocks are mined, or btcd is gone.
GenerateBegin(r) ==
    /\ At(r, {"generate"})
    /\ Reachable("btcwallet")
    /\ \E p \in Up("btcd") : /\ ~p.mining
                            /\ procs' = (procs \ {p}) \cup {[p EXCEPT !.mining = TRUE]}
    /\ Succeed(r)
    /\ UNCHANGED <<os, walletDB, temp, buf, last, requests, faults, clean>>

GenerateEnd(r) ==
    /\ At(r, {"generated"})
    /\ \E p \in procs : p.mining
    /\ procs' = {[p EXCEPT !.mining = FALSE] : p \in procs}
    /\ Succeed(r)
    /\ UNCHANGED <<os, walletDB, temp, buf, last, requests, faults, clean>>

-----------------------------------------------------------------------------
(* Steps on the temp file.  Every reader and writer parses all of it, and    *)
(* every writer writes back all of what it read.                            *)

\* Mutant: the error of json.Unmarshal is ignored.
ReadUnparsed(r) ==
    /\ At(r, {"miningaddr", "originalBalance", "status"})
    /\ Succeed(r)
    /\ buf' = [buf EXCEPT ![r] = temp]
    /\ UNCHANGED <<os, procs, walletDB, temp, last, requests, faults, clean>>

ReadForUpdate(r) ==
    /\ At(r, {"miningaddr", "originalBalance", "status"})
    /\ IF temp = Truncated
       THEN Fail(r) /\ UNCHANGED buf
       ELSE /\ Succeed(r)
            /\ buf' = [buf EXCEPT ![r] =
                   CASE Head(code[r]).do = "miningaddr"      -> [temp EXCEPT !.miningaddr = Arg(r)]
                     [] Head(code[r]).do = "originalBalance" -> [temp EXCEPT !.originalBalance = Arg(r)]
                     [] OTHER                                -> temp]
    /\ UNCHANGED <<os, procs, walletDB, temp, last, requests, faults, clean>>

InitTemp(r) ==
    /\ At(r, {"initTemp"})
    /\ buf' = [buf EXCEPT ![r] = Initialized]
    /\ Succeed(r)
    /\ UNCHANGED <<os, procs, walletDB, temp, last, requests, faults, clean>>

WriteTemp(r) ==
    /\ At(r, {"truncate", "write"})
    /\ \/ /\ temp' = IF At(r, {"truncate"}) THEN Truncated ELSE buf[r]
          /\ buf' = IF At(r, {"truncate"}) THEN buf ELSE [buf EXCEPT ![r] = Initialized]
          /\ Succeed(r) /\ NoFault
       \/ /\ Fault /\ Fail(r)
          /\ buf' = [buf EXCEPT ![r] = Initialized]
          /\ UNCHANGED temp
    /\ UNCHANGED <<os, procs, walletDB, last, requests>>

\* getMiningAddressFromTemp, and the first lines of CreateRawTransaction.
ReadAddress(r) ==
    /\ At(r, {"readAddr"})
    /\ IF temp = Truncated \/ temp.miningaddr = Blank
       THEN Fail(r)
       ELSE IF Arg(r) = "restart" THEN Goto(r, RestartMining(temp.miningaddr)) ELSE Succeed(r)
    /\ UNCHANGED <<os, procs, walletDB, temp, buf, last, requests, faults, clean>>

-----------------------------------------------------------------------------
(* The processes themselves, and the machine.                               *)

\* A signalled process ends.  So does a second instance, which finds the
\* database locked, and a btcwallet without a wallet.
Exits(p) ==
    \/ ~p.up
    \/ \E q \in procs : q # p /\ q.kind = p.kind /\ p.kind # "create"
    \/ p.kind = "btcwallet" /\ ~walletDB

Exit ==
    /\ \E p \in procs : Exits(p) /\ procs' = procs \ {p}
    /\ UNCHANGED <<os, walletDB, temp, code, buf, last, requests, faults, clean>>

\* btcwallet locks itself 600 seconds after it was unlocked.
Relock ==
    /\ \E p \in procs : p.unlocked
    /\ SetUnlocked(FALSE)
    /\ UNCHANGED <<os, walletDB, temp, code, buf, last, requests, faults, clean>>

ProcessDies ==
    /\ \E p \in procs : procs' = procs \ {p}
    /\ Fault
    /\ UNCHANGED <<os, walletDB, temp, code, buf, last, requests>>

\* The service stops and is started again; its child processes live on.
Restart ==
    /\ ~Idle /\ Fault
    /\ code' = [r \in Routines |-> <<>>]
    /\ buf' = [r \in Routines |-> Initialized]
    /\ last' = [s \in Slots |-> IF code[<<s, "http">>] = <<>> THEN last[s]
                                ELSE [last[s] EXCEPT !.res = "crashed"]]
    /\ UNCHANGED <<os, procs, walletDB, temp, requests>>

RoutineStep(r) ==
    \/ Answer(r)
    \/ CheckAbsent(r) \/ StartProcess(r) \/ CheckPresent(r) \/ StopProcess(r)
    \/ CreateBegin(r) \/ WalletExists(r) \/ RemoveWalletDB(r) \/ RemoveMainnetDirectory(r)
    \/ CallFails(r) \/ Call(r) \/ CheckMining(r) \/ GenerateBegin(r) \/ GenerateEnd(r)
    \/ ReadForUpdate(r) \/ InitTemp(r) \/ WriteTemp(r) \/ ReadAddress(r)

Next ==
    \/ \E s \in Slots, op \in Ops, addr \in Addrs : Arrive(s, op, addr)
    \/ \E s \in Slots : HandOver(s) \/ Timeout(s)
    \/ \E r \in Routines : RoutineStep(r) \/ CreateEnd(r)
    \/ Exit \/ Relock \/ ProcessDies \/ Restart

Spec == Init /\ [][Next]_vars

\* The Go runtime schedules every goroutine, and the timer of Signup fires.
\* Nothing makes btcwallet --create come to an end.
FairSpec ==
    /\ Spec
    /\ \A r \in Routines : WF_vars(RoutineStep(r))
    /\ \A s \in Slots : WF_vars(HandOver(s)) /\ WF_vars(Timeout(s))

-----------------------------------------------------------------------------
\* Where a failed step goes on: with the next step, or with a clean-up.
Fails == {"skip", "return", "stopBtcd", "stopBtcdWallet", "stopWalletBtcd", "noRestart", "done"}

\* What a handler answers; Blank before it has, "crashed" when the service died.
Results == {Blank, "ok", "error", "timeout", "nothing to do", "not restarted", "crashed"}

\* What a step does, and to what.
Dos == {"return", "await", "absent", "present", "startBtcd", "startBtcwallet", "kill",
        "killIfRunning", "create", "created", "walletExists", "removeDB", "removeMainnet",
        "rpc", "unlock", "lock", "sign", "ifIdle", "ifMining", "generate", "generated",
        "initTemp", "miningaddr", "originalBalance", "status", "truncate", "write", "readAddr"}

Args == Addrs \cup Results \cup {"btcd", "btcwallet", "both", "balance", "restart"}

Steps == [do : Dos, arg : Args, fail : Fails]

\* The types: goroutines have only steps of the handlers left, the temp file holds
\* a content that parses or is empty, and every answer is one the handlers give.
TypeOK ==
    /\ os \in Systems
    /\ procs \subseteq Process
    /\ walletDB \in BOOLEAN
    /\ temp \in Contents \cup {Truncated}
    /\ buf \in [Routines -> Contents]
    /\ code \in [Routines -> Seq(Steps)]
    /\ last \in [Slots -> [op : Ops \cup {"none"}, res : Results, num : 0 .. MaxRequests]]
    /\ requests \in 0 .. MaxRequests /\ faults \in 0 .. MaxFaults
    /\ clean \in BOOLEAN

\* At rest, if requests never overlapped and nothing failed, the mining
\* address in the temp file, which payments are made from, is the one the
\* running btcd was started with.
SerialAddress ==
    clean /\ Idle =>
        /\ temp # Truncated
        /\ \A p \in Up("btcd") : p.addr = temp.miningaddr

\* At rest, again without overlap and failure: an operation that reported
\* success left the processes as it says.  Login has both running; Init,
\* Signup, Logout and DeleteAccount have stopped all.
SerialResult ==
    clean /\ Idle => \A s \in Slots :
        last[s].num = requests /\ last[s].res = "ok" =>
            /\ last[s].op = "Login" => Up("btcd") # {} /\ Up("btcwallet") # {}
            /\ last[s].op \in {"Init", "Signup", "Logout", "DeleteAccount"} =>
                   ~\E p \in procs : p.up

\* On Windows, without overlap and failure, the block database is removed only
\* while no btcd runs on it: Init and Login stop it first.  (On darwin
\* SetupMainnetDirectoryForMac removes it before they do.)
RemovedWhenStopped ==
    clean /\ os = "windows" =>
        \A r \in Routines : At(r, {"removeMainnet"}) => Up("btcd") = {}

\* Every request is answered, even if btcwallet --create never ends.
RequestsAnswered ==
    \A s \in Slots : code[<<s, "http">>] # <<>> ~> code[<<s, "http">>] = <<>>

\* When CreateWallet is about to return, no process it started is running:
\* it "ensures proper cleanup of btcd and btcwallet processes".
CreateWalletCleansUp ==
    \A s \in Slots :
        At(<<s, "job">>, {"return"}) => ~\E p \in procs : p.up /\ p.by = last[s].num

\* StopMining, which stops btcd to end its mining, has it running again when
\* it is done ("restart btcd and btcwallet with mining address").
StopMiningRestarts ==
    \A s \in Slots :
        last[s].op = "StopMining" /\ last[s].res = "not restarted" => Up("btcd") # {}
=============================================================================
