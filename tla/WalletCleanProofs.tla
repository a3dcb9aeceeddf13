-------------------------- MODULE WalletCleanProofs --------------------------
(***************************************************************************)
(* Proofs about Wallet as long as requests did not overlap and nothing     *)
(* failed: the temp file names the address btcd mines for, an operation    *)
(* that answered "ok" has done what it promises, and on Windows the block  *)
(* database is removed only when btcd is stopped.                          *)
(*                                                                         *)
(* The three say nothing while a handler is under way.  CleanInv adds what *)
(* holds then: the code a goroutine has left keeps the shape of the        *)
(* handlers (Shape, OpShape), the assertion of the step it is at holds     *)
(* (Point), and what its operation promises is true already or still to be *)
(* done by the code that is left (Serve).                                  *)
(***************************************************************************)
EXTENDS WalletProofs

\* The assertion of the step c[1], with b in the buffer, t in the temp file and
\* processes P.  Between the start of btcd and the end of updateTempFile it is
\* the address on its way to the file that btcd mines for.
Point(o, c, b, t, P) ==
    /\ c[1].do # "write" => t # Truncated
    /\ c[1].do = "write" => AddrIs(P, b.miningaddr) \/ (Len(c) > 1 /\ StopsIfRunning(c[2]))
    /\ c[1].do = "truncate" => AddrIs(P, b.miningaddr) \/ (Len(c) > 2 /\ StopsIfRunning(c[3]))
    /\ c[1].do = "startBtcd" => None(P, "btcd")
    /\ c[1].do = "startBtcwallet" => None(P, "btcwallet")
    /\ c[1].do = "present" /\ c[1].arg = "btcd" =>
           Len(c) > 1 /\ c[2].do = "miningaddr" /\ Single(P, "btcd") /\ AddrIs(P, c[2].arg)
    /\ c[1].do = "miningaddr" => AddrIs(P, c[1].arg)
    /\ \/ c[1].do \in {"write", "truncate", "startBtcd", "miningaddr"}
       \/ c[1].do = "present" /\ c[1].arg = "btcd"
       \/ AddrIs(P, t.miningaddr)
       \/ StopsIfRunning(c[1])
       \/ c[1].do = "kill" /\ c[1].arg = "btcd"
    /\ o = "windows" =>
           /\ c[1].do = "removeMainnet" => NoneUp(P, "btcd")
           /\ Len(c) > 1 /\ c[2].do = "removeMainnet" => NoneUp(P, "btcd")

\* What an answer "ok" promises.
Promise(op, P, w) ==
    /\ op = "Login" => w /\ Single(P, "btcd") /\ Single(P, "btcwallet")
    /\ op \in StopOps => \A p \in P : ~p.up

\* The code c of an operation op can go on from a state with b, t, P and w.
Runs(o, op, c, b, t, P, w) ==
    /\ Shape(o, c) /\ Ended(c) /\ c[1].do # "await"
    /\ Point(o, c, b, t, P) /\ OpShape(op, c) /\ Serve(op, c, P, w)

\* The goroutine is at work.
Busy(r) == code[r] # <<>> /\ code[r] # Await

\* The inductive invariant of runs without overlap and failure.
CleanInv ==
    clean =>
    /\ \A r \in Routines : code[r] # <<>> => last[r[1]].num = requests /\ last[r[1]].res = Blank
    /\ \A s \in Slots : code[<<s, "job">>] # <<>> => code[<<s, "http">>] = Await
    /\ \A r \in Routines : Busy(r) =>
           Runs(os, last[r[1]].op, code[r], buf[r], temp, procs, walletDB)
    /\ (\A r \in Routines : ~Busy(r)) => temp # Truncated /\ AddrIs(procs, temp.miningaddr)
    /\ \A s \in Slots : last[s].num = requests /\ last[s].res = "ok" =>
           Promise(last[s].op, procs, walletDB)

-----------------------------------------------------------------------------
(* What the processes do to the assertions.                                 *)

\* Steps that start and kill nothing.
Keeps(w, P, Q) ==
    /\ \A a : AddrIs(P, a) => AddrIs(Q, a)
    /\ \A k : None(P, k) => None(Q, k)
    /\ \A k : NoneUp(P, k) => NoneUp(Q, k)
    /\ Single(P, "btcd") => Single(Q, "btcd")
    /\ w /\ Single(P, "btcwallet") => Single(Q, "btcwallet")
    /\ (\A p \in P : ~p.up) => \A p \in Q : ~p.up

\* The same process, but for its flags.
Like(p, q) == q.kind = p.kind /\ (q.up <=> p.up) /\ q.addr = p.addr

\* Nothing changes.
LEMMA KeepsSame == \A w, P : Keeps(w, P, P)
  BY Zenon DEF Keeps

\* A flag of the processes changes.
LEMMA KeepsFlags ==
    ASSUME NEW w, NEW P, NEW g, NEW Q, \A p \in P : g[p] \in Q,
           \A q \in Q : \E p \in P : q = g[p], \A p \in P : Like(p, g[p])
    PROVE  Keeps(w, P, Q)
<1>1. ASSUME NEW q \in Q PROVE \E p \in P : q = g[p] /\ Like(p, q)
  <2>1. PICK p \in P : q = g[p]
    BY Zenon
  <2>2. Like(p, q)
    BY Zenon, <2>1
  <2> QED
    BY Zenon, <2>1, <2>2
<1>2. ASSUME NEW a, AddrIs(P, a), NEW q \in Q, q.kind = "btcd", q.up PROVE q.addr = a
  <2>1. PICK p \in P : Like(p, q)
    BY Zenon, <1>1
  <2> QED
    BY Zenon, <1>2, <2>1 DEF Like, AddrIs
<1>3. ASSUME NEW k, None(P, k), NEW q \in Q PROVE q.kind # k
  <2>1. PICK p \in P : Like(p, q)
    BY Zenon, <1>1
  <2> QED
    BY Zenon, <1>3, <2>1 DEF Like, None
<1>4. ASSUME NEW k, NoneUp(P, k), NEW q \in Q, q.kind = k PROVE ~q.up
  <2>1. PICK p \in P : Like(p, q)
    BY Zenon, <1>1
  <2> QED
    BY Zenon, <1>4, <2>1 DEF Like, NoneUp
<1>5. ASSUME \A p \in P : ~p.up, NEW q \in Q PROVE ~q.up
  BY Zenon, <1>1, <1>5 DEF Like
<1>6. ASSUME NEW k, Single(P, k) PROVE Single(Q, k)
  <2>1. PICK p \in P : p.kind = k /\ p.up /\ \A q \in P : q.kind = k => q = p
    BY Zenon, <1>6 DEF Single
  <2>2. g[p] \in Q /\ g[p].kind = k /\ g[p].up
    BY Zenon, <2>1 DEF Like
  <2>3. ASSUME NEW q \in Q, q.kind = k PROVE q = g[p]
    <3>1. PICK v \in P : q = g[v] /\ Like(v, q)
      BY Zenon, <1>1
    <3>2. v = p
      BY Zenon, <2>1, <2>3, <3>1 DEF Like
    <3> QED
      BY Zenon, <3>1, <3>2
  <2> QED
    BY Zenon, <2>2, <2>3 DEF Single
<1>7. /\ \A a : AddrIs(P, a) => AddrIs(Q, a)
      /\ \A k : None(P, k) => None(Q, k)
      /\ \A k : NoneUp(P, k) => NoneUp(Q, k)
  BY Zenon, <1>2, <1>3, <1>4 DEF AddrIs, None, NoneUp
<1> QED
  BY Zenon, <1>5, <1>6, <1>7 DEF Keeps

\* A process goes that is not the only one of its kind to be up.
LEMMA KeepsOthers ==
    ASSUME NEW w, NEW P, NEW Q, Q \subseteq P,
           \A k \in {"btcd", "btcwallet"} : \A p \in P \ Q :
               p.kind = k /\ (k = "btcwallet" => w) => ~p.up \/ \E q \in P : q # p /\ q.kind = k
    PROVE  Keeps(w, P, Q)
<1>1. /\ \A a : AddrIs(P, a) => AddrIs(Q, a)
      /\ \A k : None(P, k) => None(Q, k)
      /\ \A k : NoneUp(P, k) => NoneUp(Q, k)
      /\ (\A p \in P : ~p.up) => \A p \in Q : ~p.up
  BY Zenon DEF AddrIs, None, NoneUp
<1>2. ASSUME NEW k \in {"btcd", "btcwallet"}, k = "btcwallet" => w, Single(P, k) PROVE Single(Q, k)
  <2>1. PICK p \in P : p.kind = k /\ p.up /\ \A q \in P : q.kind = k => q = p
    BY Zenon, <1>2 DEF Single
  <2>2. p \in Q
    BY Zenon, <1>2, <2>1
  <2> QED
    BY Zenon, <2>1, <2>2 DEF Single
<1> QED
  BY Zenon, <1>1, <1>2 DEF Keeps

\* A process is started.
LEMMA Starts ==
    ASSUME NEW P, NEW q, q.up, NEW Q, Q = P \cup {q}
    PROVE  /\ None(P, q.kind) => Single(Q, q.kind)
           /\ \A k : k # q.kind /\ Single(P, k) => Single(Q, k)
           /\ \A k : k # q.kind /\ NoneUp(P, k) => NoneUp(Q, k)
           /\ q.kind # "btcd" => \A a : AddrIs(P, a) => AddrIs(Q, a)
           /\ None(P, "btcd") => AddrIs(Q, q.addr)
<1>1. None(P, q.kind) => Single(Q, q.kind)
  BY Zenon DEF None, Single
<1>2. \A k : k # q.kind /\ Single(P, k) => Single(Q, k)
  BY Zenon DEF Single
<1>3. \A k : k # q.kind /\ NoneUp(P, k) => NoneUp(Q, k)
  BY Zenon DEF NoneUp
<1>4. q.kind # "btcd" => \A a : AddrIs(P, a) => AddrIs(Q, a)
  BY Zenon DEF AddrIs
<1>5. None(P, "btcd") => AddrIs(Q, q.addr)
  BY Zenon DEF AddrIs, None
<1> QED
  BY Zenon, <1>1, <1>2, <1>3, <1>4, <1>5

\* StopBtcd and StopBtcwallet, whether or not they find a process.
Stopped(P, Q, name) ==
    /\ \A a : AddrIs(P, a) => AddrIs(Q, a)
    /\ \A k : NoneUp(P, k) => NoneUp(Q, k)
    /\ name = "btcd" => NoneUp(Q, "btcd")
    /\ name = "btcwallet" => NoneUp(Q, "btcwallet") /\ NoneUp(Q, "create")

\* Without btcd any address is its address.
LEMMA NoneAddr == \A P, a : None(P, "btcd") \/ NoneUp(P, "btcd") => AddrIs(P, a)
  BY Zenon DEF None, NoneUp, AddrIs

\* What isProcessRunning shows.
LEMMA NotRunning ==
    ASSUME NEW name, NEW x \in IsProcessRunning(name), ~x
    PROVE  Matching(name) = {} /\ None(procs, name)
<1>1. Matching(name) = {}
  BY Zenon DEF IsProcessRunning
<1> QED
  BY Zenon, <1>1 DEF Matching, None

-----------------------------------------------------------------------------
(* The code that is left after a step.                                      *)

\* The operation does not end with the step it is at.
Goes(c) == c[1].do # "return" /\ ~ToRestart(c[1])

\* Code that reports no success serves any promise.
LEMMA NoOkServes ==
    ASSUME NEW op, NEW c, Strict(c), OneReturn(c), ~Has(c, Oks)
    PROVE  OpShape(op, c) /\ \A P, w : Serve(op, c, P, w)
  BY Zenon DEF OpShape, Serve

\* What is followed by B has B after it.
LEMMA LaterHas ==
    ASSUME NEW c \in Seq(Steps), NEW X, NEW B, Later(c, X, B), Has(c, X)
    PROVE  Has(c, B)
<1>1. PICK i \in 1 .. Len(c) : c[i] \in X
  BY Zenon DEF Has
<1>2. PICK j \in i + 1 .. Len(c) : c[j] \in B
  BY Zenon, <1>1 DEF Later
<1>3. j \in 1 .. Len(c)
  BY SMT
<1> QED
  BY Zenon, <1>2, <1>3 DEF Has

\* A step that neither looks for wallet.db nor starts or stops a process.
LEMMA ServeTail ==
    ASSUME NEW op, NEW c \in Seq(Typed), c # <<>>, OpShape(op, c), NEW P, NEW w \in BOOLEAN, Serve(op, c, P, w),
           NEW Q, Keeps(w, P, Q), NEW v \in BOOLEAN, w => v \/ c[1].do = "removeDB",
           c[1].do \notin {"walletExists", "startBtcd", "startBtcwallet", "kill", "killIfRunning"}
    PROVE  Serve(op, Tail(c), Q, v)
<1> DEFINE d == Tail(c)
<1>1. c \in Seq(Steps)
  BY Zenon, TypedSteps
<1>2. \A B : Has(c, B) <=> Has(d, B) \/ c[1] \in B
  BY Zenon, <1>1, HasTail
<1>3. /\ c[1] \notin Does("walletExists") /\ c[1] \notin Does("startBtcd") /\ c[1] \notin Does("startBtcwallet")
      /\ c[1] \notin Kills("btcd") /\ c[1] \notin Kills("btcwallet")
  BY Zenon DEF Does, Kills
<1>4. c[1] \in Steps
  BY Zenon, <1>1, Popped
<1> HIDE DEF d
<1>5. /\ Has(d, Oks) => Has(c, Oks)
      /\ Has(c, Does("walletExists")) => Has(d, Does("walletExists"))
      /\ Has(c, Does("startBtcd")) => Has(d, Does("startBtcd"))
      /\ Has(c, Does("startBtcwallet")) => Has(d, Does("startBtcwallet"))
      /\ Has(c, Kills("btcd")) => Has(d, Kills("btcd"))
      /\ Has(c, Kills("btcwallet")) => Has(d, Kills("btcwallet"))
  BY Zenon, <1>2, <1>3
<1>6. ASSUME op = "Login", Has(d, Oks)
      PROVE  /\ ~Has(d, Does("walletExists")) => v
             /\ ~Has(d, Does("startBtcd")) => Single(Q, "btcd")
             /\ ~Has(d, Does("startBtcwallet")) => Single(Q, "btcwallet")
  <2>1. c[1].do # "removeDB"
    <3>1. ~Has(c, Does("removeDB"))
      BY Zenon, <1>5, <1>6 DEF OpShape
    <3> QED
      BY Zenon, <1>2, <1>4, <3>1 DEF Does
  <2>2. Has(c, Does("walletExists")) => Has(c, Does("startBtcwallet"))
    <3>1. Later(c, Does("walletExists"), Does("startBtcwallet"))
      BY Zenon, <1>5, <1>6 DEF OpShape
    <3> QED
      BY Zenon, <1>1, <3>1, LaterHas
  <2>3. /\ ~Has(c, Does("walletExists")) => w
        /\ ~Has(c, Does("startBtcd")) => Single(P, "btcd")
        /\ ~Has(c, Does("startBtcwallet")) => Single(P, "btcwallet")
    BY Zenon, <1>5, <1>6 DEF Serve
  <2>4. ~Has(d, Does("walletExists")) => v
    BY Zenon, <1>5, <2>1, <2>3
  <2>5. ~Has(d, Does("startBtcd")) => Single(Q, "btcd")
    BY Zenon, <1>5, <2>3 DEF Keeps
  <2>6. ~Has(d, Does("startBtcwallet")) => Single(Q, "btcwallet")
    BY Zenon, <1>5, <2>2, <2>3 DEF Keeps
  <2> QED
    BY Zenon, <2>4, <2>5, <2>6
<1>7. ASSUME op \in StopOps, Has(d, Oks)
      PROVE  /\ ~Has(d, Kills("btcd")) => NoneUp(Q, "btcd")
             /\ ~Has(d, Kills("btcwallet")) => NoneUp(Q, "btcwallet") /\ NoneUp(Q, "create")
  BY Zenon, <1>5, <1>7 DEF Serve, Keeps
<1> QED
  BY Zenon, <1>6, <1>7 DEF Serve, d

\* What follows the step is still to be done.
LEMMA LaterNow ==
    ASSUME NEW c \in Seq(Steps), c # <<>>, NEW X, NEW B, Later(c, X, B), c[1] \in X
    PROVE  Has(Tail(c), B)
<1>1. /\ Len(c) \in Nat \ {0} /\ Len(Tail(c)) = Len(c) - 1
      /\ \A i \in 1 .. Len(Tail(c)) : Tail(c)[i] = c[i + 1]
  BY Zenon, Popped
<1>2. 1 \in 1 .. Len(c) /\ 1 + 1 = 2
  BY SMT, <1>1
<1>3. PICK j \in 2 .. Len(c) : c[j] \in B
  BY Zenon, <1>2 DEF Later
<1>4. j - 1 \in 1 .. Len(Tail(c)) /\ j = (j - 1) + 1
  BY SMT, <1>1
<1>5. Tail(c)[j - 1] \in B
  BY Zenon, <1>1, <1>3, <1>4
<1> QED
  BY Zenon, <1>4, <1>5 DEF Has

\* Login found wallet.db.
LEMMA ServeExists ==
    ASSUME NEW op, NEW c \in Seq(Typed), c # <<>>, NEW P, Serve(op, c, P, TRUE), c[1].do = "walletExists"
    PROVE  Serve(op, Tail(c), P, TRUE)
<1> DEFINE d == Tail(c)
<1>1. c \in Seq(Steps)
  BY Zenon, TypedSteps
<1>2. \A B : Has(c, B) <=> Has(d, B) \/ c[1] \in B
  BY Zenon, <1>1, HasTail
<1>3. /\ c[1] \notin Does("startBtcd") /\ c[1] \notin Does("startBtcwallet")
      /\ c[1] \notin Kills("btcd") /\ c[1] \notin Kills("btcwallet") /\ c[1] \notin Oks
  BY Zenon DEF Does, Kills, Oks
<1> HIDE DEF d
<1> QED
  BY Zenon, <1>2, <1>3 DEF Serve, d

\* A process is started; the operations that have to stop it will do so.
Starting(x, q) ==
    \/ x.do = "startBtcd" /\ q.kind = "btcd"
    \/ x.do = "startBtcwallet" /\ q.kind = "btcwallet"
    \/ x.do = "create" /\ q.kind = "create"

\* A start brings Login nearer to its promise.
LEMMA ServeStart ==
    ASSUME NEW op, NEW c \in Seq(Typed), c # <<>>, OpShape(op, c), NEW P, NEW w, Serve(op, c, P, w),
           NEW q, q.up, Starting(c[1], q), c[1].do # "create" => None(P, q.kind), NEW Q, Q = P \cup {q}
    PROVE  Serve(op, Tail(c), Q, w)
<1> DEFINE d == Tail(c)
<1>1. c \in Seq(Steps)
  BY Zenon, TypedSteps
<1>2. \A B : Has(c, B) <=> Has(d, B) \/ c[1] \in B
  BY Zenon, <1>1, HasTail
<1>3. \A X, B : Later(c, X, B) /\ c[1] \in X => Has(d, B)
  BY Zenon, <1>1, LaterNow
<1>4. c[1] \in Steps
  BY Zenon, <1>1, Popped
<1>5. /\ None(P, q.kind) => Single(Q, q.kind)
      /\ \A k : k # q.kind /\ Single(P, k) => Single(Q, k)
      /\ \A k : k # q.kind /\ NoneUp(P, k) => NoneUp(Q, k)
  BY Zenon, Starts
<1>6. /\ c[1] \notin Does("walletExists") /\ c[1] \notin Kills("btcd") /\ c[1] \notin Kills("btcwallet")
      /\ c[1] \in Does("startBtcd") <=> q.kind = "btcd"
      /\ c[1] \in Does("startBtcwallet") <=> q.kind = "btcwallet"
      /\ c[1] \in Does("create") <=> q.kind = "create"
  BY Zenon, <1>4 DEF Does, Kills, Starting
<1>7. q.kind = "btcd" \/ q.kind = "btcwallet" => None(P, q.kind)
  BY Zenon DEF Starting
<1> HIDE DEF d
<1>8. ASSUME op = "Login", Has(d, Oks)
      PROVE  /\ ~Has(d, Does("walletExists")) => w
             /\ ~Has(d, Does("startBtcd")) => Single(Q, "btcd")
             /\ ~Has(d, Does("startBtcwallet")) => Single(Q, "btcwallet")
  <2>1. Later(c, Does("startBtcd"), Does("startBtcwallet"))
    BY Zenon, <1>2, <1>8 DEF OpShape
  <2>2. /\ ~Has(c, Does("walletExists")) => w
        /\ ~Has(c, Does("startBtcd")) => Single(P, "btcd")
        /\ ~Has(c, Does("startBtcwallet")) => Single(P, "btcwallet")
    BY Zenon, <1>2, <1>8 DEF Serve
  <2>3. ~Has(d, Does("walletExists")) => w
    BY Zenon, <1>2, <1>6, <2>2
  <2>4. ~Has(d, Does("startBtcd")) => Single(Q, "btcd")
    <3>1. CASE q.kind = "btcd"
      BY Zenon, <1>5, <1>7, <3>1
    <3>2. CASE q.kind # "btcd"
      BY Zenon, <1>2, <1>5, <1>6, <2>2, <3>2
    <3> QED
      BY Zenon, <3>1, <3>2
  <2>5. ~Has(d, Does("startBtcwallet")) => Single(Q, "btcwallet")
    <3>1. CASE q.kind = "btcwallet"
      BY Zenon, <1>5, <1>7, <3>1
    <3>2. CASE q.kind # "btcwallet"
      BY Zenon, <1>2, <1>5, <1>6, <2>2, <3>2
    <3> QED
      BY Zenon, <3>1, <3>2
  <2> QED
    BY Zenon, <2>3, <2>4, <2>5
<1>9. ASSUME op \in StopOps, Has(d, Oks)
      PROVE  /\ ~Has(d, Kills("btcd")) => NoneUp(Q, "btcd")
             /\ ~Has(d, Kills("btcwallet")) => NoneUp(Q, "btcwallet") /\ NoneUp(Q, "create")
  <2>1. /\ Later(c, Does("startBtcd"), Kills("btcd"))
        /\ Later(c, Does("startBtcwallet") \cup Does("create"), Kills("btcwallet"))
    BY Zenon, <1>2, <1>9 DEF OpShape
  <2>2. /\ ~Has(c, Kills("btcd")) => NoneUp(P, "btcd")
        /\ ~Has(c, Kills("btcwallet")) => NoneUp(P, "btcwallet") /\ NoneUp(P, "create")
    BY Zenon, <1>2, <1>9 DEF Serve
  <2>3. ~Has(d, Kills("btcd")) => q.kind # "btcd"
    BY Zenon, <1>3, <1>6, <2>1
  <2>4. ~Has(d, Kills("btcwallet")) => q.kind # "btcwallet" /\ q.kind # "create"
    BY Zenon, <1>3, <1>6, <2>1
  <2> QED
    BY Zenon, <1>2, <1>5, <1>6, <2>2, <2>3, <2>4
<1> QED
  BY Zenon, <1>8, <1>9 DEF Serve, d

\* A process was stopped; Login starts both after that.
LEMMA ServeStop ==
    ASSUME NEW op, NEW c \in Seq(Typed), c # <<>>, OpShape(op, c), NEW P, NEW w, Serve(op, c, P, w),
           c[1].do \in {"kill", "killIfRunning"}, NEW Q, Stopped(P, Q, c[1].arg)
    PROVE  Serve(op, Tail(c), Q, w)
<1> DEFINE d == Tail(c)
<1>1. c \in Seq(Steps)
  BY Zenon, TypedSteps
<1>2. \A B : Has(c, B) <=> Has(d, B) \/ c[1] \in B
  BY Zenon, <1>1, HasTail
<1>3. \A X, B : Later(c, X, B) /\ c[1] \in X => Has(d, B)
  BY Zenon, <1>1, LaterNow
<1>4. c[1] \in Steps
  BY Zenon, <1>1, Popped
<1>5. /\ c[1] \notin Does("walletExists") /\ c[1] \notin Does("startBtcd") /\ c[1] \notin Does("startBtcwallet")
      /\ c[1] \in Kills("btcd") <=> c[1].arg = "btcd"
      /\ c[1] \in Kills("btcwallet") <=> c[1].arg = "btcwallet"
  BY Zenon, <1>4 DEF Does, Kills
<1>7. c[1].arg = "btcd" \/ c[1].arg = "btcwallet"
  <2>1. c[1] \in Typed
    BY Zenon, Popped
  <2> QED
    BY Zenon, <2>1 DEF Typed
<1>6. ASSUME op = "Login", Has(d, Oks)
      PROVE  /\ ~Has(d, Does("walletExists")) => w
             /\ ~Has(d, Does("startBtcd")) => Single(Q, "btcd")
             /\ ~Has(d, Does("startBtcwallet")) => Single(Q, "btcwallet")
  <2>1. /\ Later(c, Kills("btcd") \cup Kills("btcwallet"), Does("startBtcd"))
        /\ Later(c, Does("startBtcd"), Does("startBtcwallet"))
    BY Zenon, <1>2, <1>6 DEF OpShape
  <2>2. c[1].arg = "btcd" \/ c[1].arg = "btcwallet" => Has(d, Does("startBtcd"))
    BY Zenon, <1>3, <1>5, <2>1
  <2>3. Has(d, Does("startBtcd"))
    BY Zenon, <1>7, <2>2
  <2>4. Has(d, Does("startBtcwallet"))
    <3>1. d \in Seq(Steps) /\ Later(d, Does("startBtcd"), Does("startBtcwallet"))
      BY Zenon, <1>1, <2>1, Popped, LaterTail
    <3> QED
      BY Zenon, <2>3, <3>1, LaterHas
  <2>5. ~Has(d, Does("walletExists")) => w
    BY Zenon, <1>2, <1>5, <1>6 DEF Serve
  <2> QED
    BY Zenon, <2>3, <2>4, <2>5
<1> HIDE DEF d
<1>8. ASSUME op \in StopOps, Has(d, Oks)
      PROVE  /\ ~Has(d, Kills("btcd")) => NoneUp(Q, "btcd")
             /\ ~Has(d, Kills("btcwallet")) => NoneUp(Q, "btcwallet") /\ NoneUp(Q, "create")
  <2>1. /\ ~Has(c, Kills("btcd")) => NoneUp(P, "btcd")
        /\ ~Has(c, Kills("btcwallet")) => NoneUp(P, "btcwallet") /\ NoneUp(P, "create")
    BY Zenon, <1>2, <1>8 DEF Serve
  <2>2. ~Has(d, Kills("btcd")) => NoneUp(Q, "btcd")
    BY Zenon, <1>2, <1>5, <2>1 DEF Stopped
  <2>3. ~Has(d, Kills("btcwallet")) => NoneUp(Q, "btcwallet") /\ NoneUp(Q, "create")
    BY Zenon, <1>2, <1>5, <2>1 DEF Stopped
  <2> QED
    BY Zenon, <2>2, <2>3
<1> QED
  BY Zenon, <1>6, <1>8 DEF Serve, d

-----------------------------------------------------------------------------
(* The assertion at the next step.                                          *)

\* ShapeAt, for the step a goroutine is at.
Ahead(o, c) ==
    /\ c[1].do = "startBtcd" =>
           /\ Len(c) > 2 /\ c[2].do = "present" /\ c[2].arg = "btcd"
           /\ c[3].do = "miningaddr" /\ c[3].arg = c[1].arg
    /\ c[1].do = "startBtcwallet" => c[2].do = "present" /\ c[2].arg = "btcwallet"
    /\ c[1].do \in Updates \cup {"initTemp"} => Len(c) > 2 /\ c[2].do = "truncate" /\ c[3].do = "write"
    /\ c[1].do = "truncate" => c[2].do = "write"
    /\ c[1].do = "initTemp" => Len(c) > 3 /\ StopsIfRunning(c[4])
    /\ o = "windows" =>
           /\ Len(c) > 1 /\ c[2].do = "removeMainnet" => c[1].do = "kill"
           /\ Len(c) > 2 /\ c[3].do = "removeMainnet" => c[1].do = "kill" /\ c[1].arg = "btcd"

\* A step with no assertion of its own.
Plain(d) == d[1].do \notin {"write", "truncate", "startBtcd", "startBtcwallet", "present", "miningaddr"}

\* Only the address has to be right then,
LEMMA PlainPoint ==
    ASSUME NEW o, NEW d, NEW b, NEW t, NEW P, Plain(d), t # Truncated,
           \/ AddrIs(P, t.miningaddr)
           \/ StopsIfRunning(d[1])
           \/ d[1].do = "kill" /\ d[1].arg = "btcd",
           o = "windows" /\ (d[1].do = "removeMainnet" \/ (Len(d) > 1 /\ d[2].do = "removeMainnet")) => NoneUp(P, "btcd")
    PROVE  Point(o, d, b, t, P)
  BY Zenon DEF Plain, Point

\* as at the beginning of a handler.
LEMMA FreshPoint ==
    ASSUME NEW o, NEW d \in Good(o), d # <<>>, NEW b, NEW t, NEW P, t # Truncated,
           AddrIs(P, t.miningaddr) \/ (d[1].do = "kill" /\ d[1].arg = "btcd")
    PROVE  Point(o, d, b, t, P) /\ d[1].do # "await"
<1>1. Len(d) > 0
  <2>1. d \in Seq(Typed)
    BY Zenon DEF Good
  <2>2. Len(d) \in Nat \ {0}
    BY Zenon, <2>1, Popped
  <2> QED
    BY SMT, <2>2
<1>2. Fresh(o, d)
  BY Zenon DEF Good
<1>3. Plain(d) /\ d[1].do # "await"
  BY Zenon, <1>1, <1>2 DEF Fresh, Plain
<1>4. o = "windows" => ~(d[1].do = "removeMainnet" \/ (Len(d) > 1 /\ d[2].do = "removeMainnet"))
  BY Zenon, <1>1, <1>2 DEF Fresh
<1> QED
  BY Zenon, <1>3, <1>4, PlainPoint

\* Code that goes on.
Left(o, op, c) ==
    c \in Seq(Typed) /\ c # <<>> /\ Shape(o, c) /\ Ended(c) /\ OpShape(op, c) /\ Goes(c)

\* The code that is left keeps the shape of handlers and of the operation, and
\* the step the goroutine is at says what comes next.
LEMMA LeftFacts ==
    ASSUME NEW o, NEW op, NEW c, Left(o, op, c)
    PROVE  LET d == Tail(c) IN
           /\ d # <<>> /\ Shape(o, d) /\ Ended(d) /\ OpShape(op, d) /\ Ahead(o, c)
           /\ Len(c) > 1 /\ Follows(c[1], c[2])
           /\ d[1] = c[2] /\ (Len(c) > 2 => d[2] = c[3]) /\ (Len(c) > 3 => d[3] = c[4])
           /\ (Len(d) > 1 <=> Len(c) > 2) /\ (Len(d) > 2 <=> Len(c) > 3)
<1> DEFINE d == Tail(c)
<1>1. /\ c \in Seq(Typed) /\ c \in Seq(Steps) /\ c # <<>> /\ Shape(o, c) /\ Ended(c)
      /\ OpShape(op, c) /\ Goes(c)
  BY Zenon, TypedSteps DEF Left
<1>2. /\ d \in Seq(Typed) /\ Len(c) \in Nat \ {0} /\ Len(d) = Len(c) - 1
      /\ \A i \in 1 .. Len(d) : d[i] = c[i + 1] /\ i + 1 \in 1 .. Len(c)
  BY Zenon, <1>1, Popped
<1>3. Shape(o, d)
  BY Zenon, <1>1, ShapeTail
<1>4. OpShape(op, d)
  <2>1. \A B : Has(d, B) => Has(c, B)
    BY Zenon, <1>1, HasTail
  <2>2. \A X, B : Later(c, X, B) => Later(d, X, B)
    BY Zenon, <1>1, LaterTail
  <2> HIDE DEF d
  <2>3. Strict(c) => Strict(d)
    BY Zenon, <1>2 DEF Strict
  <2>4. OneReturn(c) => OneReturn(d)
    <3>1. ASSUME OneReturn(c), NEW i \in 1 .. Len(d), d[i].do = "return" PROVE i = Len(d)
      <4>1. i + 1 = Len(c)
        BY Zenon, <1>2, <3>1 DEF OneReturn
      <4> QED
        BY SMT, <1>2, <4>1
    <3> QED
      BY Zenon, <3>1 DEF OneReturn
  <2> QED
    BY Zenon, <1>1, <2>1, <2>2, <2>3, <2>4 DEF OpShape
<1> HIDE DEF d
<1>5. Len(c) > 1
  <2>1. Len(c) # 1
    BY Zenon, <1>1 DEF Ended, Goes
  <2> QED
    BY SMT, <1>2, <2>1
<1>6. /\ d # <<>> /\ d[1] = c[2] /\ (Len(c) > 2 => d[2] = c[3]) /\ (Len(c) > 3 => d[3] = c[4])
      /\ (Len(d) > 1 <=> Len(c) > 2) /\ (Len(d) > 2 <=> Len(c) > 3) /\ d[Len(d)] = c[Len(c)]
  BY SMT, <1>2, <1>5
<1>7. Ended(d)
  BY Zenon, <1>1, <1>6 DEF Ended
<1>8. ShapeAt(o, c, 1)
  BY SMT, <1>1, <1>2 DEF Shape
<1>9. /\ 1 + 1 = 2 /\ 1 + 2 = 3 /\ 1 + 3 = 4
      /\ (1 < Len(c) <=> Len(c) > 1) /\ (2 < Len(c) <=> Len(c) > 2)
      /\ (3 <= Len(c) <=> Len(c) > 2) /\ (4 <= Len(c) <=> Len(c) > 3)
  BY SMT, <1>2
<1>10. Follows(c[1], c[2])
  BY Zenon, <1>5, <1>8, <1>9 DEF ShapeAt
<1>11. Ahead(o, c)
  BY Zenon, <1>8, <1>9 DEF Ahead, ShapeAt
<1> QED
  BY Zenon, <1>3, <1>4, <1>5, <1>6, <1>7, <1>10, <1>11 DEF d

\* After a step whose successor has no assertion of its own.
LEMMA TailPlain ==
    ASSUME NEW o, NEW op, NEW c, Left(o, op, c), NEW b, NEW t, NEW Q, t # Truncated,
           Plain(Tail(c)), AddrIs(Q, t.miningaddr) \/ StopsIfRunning(c[2]),
           o = "windows" /\ c[1].do = "kill" /\ c[1].arg = "btcd" => NoneUp(Q, "btcd"),
           o = "windows" /\ c[1].do = "kill" /\ c[2].do = "removeMainnet" => NoneUp(Q, "btcd")
    PROVE  Point(o, Tail(c), b, t, Q)
<1> DEFINE d == Tail(c)
<1>1. /\ Ahead(o, c) /\ Len(c) > 1 /\ d[1] = c[2] /\ (Len(c) > 2 => d[2] = c[3]) /\ (Len(d) > 1 <=> Len(c) > 2)
  BY Zenon, LeftFacts
<1> HIDE DEF d
<1>2. AddrIs(Q, t.miningaddr) \/ StopsIfRunning(d[1])
  BY Zenon, <1>1
<1>3. o = "windows" /\ d[1].do = "removeMainnet" => NoneUp(Q, "btcd")
  BY Zenon, <1>1 DEF Ahead
<1>4. o = "windows" /\ Len(d) > 1 /\ d[2].do = "removeMainnet" => NoneUp(Q, "btcd")
  BY Zenon, <1>1 DEF Ahead
<1> QED
  BY Zenon, <1>2, <1>3, <1>4, PlainPoint DEF d

\* Calls, looks and removals: steps that keep the processes.
Neutral == {"created", "removeDB", "removeMainnet", "rpc", "unlock", "lock", "sign", "ifIdle", "ifMining",
            "generate", "generated", "readAddr", "create", "walletExists"}

\* The code that is left can go on.
LEMMA TailRuns ==
    ASSUME NEW o, NEW op, NEW c, Left(o, op, c), NEW b, NEW t, NEW Q, NEW w,
           Point(o, Tail(c), b, t, Q), Serve(op, Tail(c), Q, w)
    PROVE  Tail(c) # <<>> /\ Runs(o, op, Tail(c), b, t, Q, w)
<1>1. /\ Tail(c) # <<>> /\ Shape(o, Tail(c)) /\ Ended(Tail(c)) /\ OpShape(op, Tail(c))
      /\ Follows(c[1], c[2]) /\ Tail(c)[1] = c[2]
  BY Zenon, LeftFacts
<1>2. Tail(c)[1].do # "await"
  BY Zenon, <1>1 DEF Follows
<1> QED
  BY Zenon, <1>1, <1>2 DEF Runs

\* The assertion after such a step.
LEMMA NeutralPoint ==
    ASSUME NEW o, NEW op, NEW c, Left(o, op, c), NEW b, NEW t, NEW P, Point(o, c, b, t, P), NEW Q,
           c[1].do \in Neutral \/ (c[1].do = "present" /\ c[1].arg # "btcd"),
           \A a : AddrIs(P, a) => AddrIs(Q, a)
    PROVE  t # Truncated /\ AddrIs(P, t.miningaddr) /\ \A b2 : Point(o, Tail(c), b2, t, Q)
<1>1. t # Truncated /\ AddrIs(P, t.miningaddr) /\ c[1].do # "kill"
  BY Zenon DEF Neutral, Point, StopsIfRunning
<1>2. Follows(c[1], c[2]) /\ Tail(c)[1] = c[2]
  BY Zenon, LeftFacts
<1>3. Plain(Tail(c))
  BY Zenon, <1>2 DEF Follows, Plain, Neutral, Updates
<1> QED
  BY Zenon, <1>1, <1>3, TailPlain

\* The operations that promise nothing.
LEMMA ServeOther == \A op : op \notin StopOps \cup {"Login"} => \A c, P, w : Serve(op, c, P, w)
  BY Zenon DEF Serve

\* What Runs says of the code that is left.
LEMMA LeftOfRuns ==
    ASSUME NEW o, NEW op, NEW c \in Seq(Typed), c # <<>>, NEW b, NEW t, NEW P, NEW w, Runs(o, op, c, b, t, P, w)
    PROVE  /\ Goes(c) => Left(o, op, c)
           /\ Point(o, c, b, t, P) /\ Serve(op, c, P, w) /\ OpShape(op, c)
  BY Zenon DEF Runs, Left

\* Such a step was taken.
LEMMA NeutralRuns ==
    ASSUME NEW o, NEW op, NEW c \in Seq(Typed), c # <<>>, Goes(c), NEW b, NEW t, NEW P, NEW w \in BOOLEAN,
           Runs(o, op, c, b, t, P, w), NEW Q, Keeps(w, P, Q), NEW v \in BOOLEAN, w => v \/ c[1].do = "removeDB",
           c[1].do \in Neutral \ {"create", "walletExists"} \/ (c[1].do = "present" /\ c[1].arg # "btcd")
    PROVE  Tail(c) # <<>> /\ Runs(o, op, Tail(c), b, t, Q, v)
<1>1. Left(o, op, c) /\ Point(o, c, b, t, P) /\ Serve(op, c, P, w) /\ OpShape(op, c)
  BY Zenon, LeftOfRuns
<1>2. Point(o, Tail(c), b, t, Q)
  <2>1. c[1].do \in Neutral \/ (c[1].do = "present" /\ c[1].arg # "btcd")
    BY Zenon
  <2>2. \A a : AddrIs(P, a) => AddrIs(Q, a)
    BY Zenon DEF Keeps
  <2> QED
    BY Zenon, <1>1, <2>1, <2>2, NeutralPoint
<1>3. c[1].do \notin {"walletExists", "startBtcd", "startBtcwallet", "kill", "killIfRunning"}
  BY Zenon DEF Neutral
<1>4. Serve(op, Tail(c), Q, v)
  BY Zenon, <1>1, <1>3, ServeTail
<1> QED
  BY Zenon, <1>1, <1>2, <1>4, TailRuns

\* Kills and an answer that is not a success.
LEMMA GivesRuns ==
    ASSUME NEW op, NEW d, Gives(d), op \in StopOps \cup {"Login"} => ~Has(d, Oks),
           NEW b, NEW t, t # Truncated, NEW Q, NEW v,
           AddrIs(Q, t.miningaddr) \/ (d[1].do = "kill" /\ d[1].arg = "btcd")
    PROVE  d # <<>> /\ Runs(os, op, d, b, t, Q, v)
<1>1. d \in Good(os) /\ Strict(d) /\ OneReturn(d) /\ Ended(d) /\ d # <<>>
  BY Zenon DEF Gives, Part
<1>2. Shape(os, d)
  BY Zenon, <1>1 DEF Good
<1>3. Point(os, d, b, t, Q) /\ d[1].do # "await"
  BY Zenon, <1>1, FreshPoint
<1>4. OpShape(op, d) /\ Serve(op, d, Q, v)
  BY Zenon, <1>1, NoOkServes DEF OpShape, Serve
<1> QED
  BY Zenon, <1>1, <1>2, <1>3, <1>4 DEF Runs

\* A step of an operation that promises something does not end it with success.
LEMMA StrictHead ==
    ASSUME NEW op \in StopOps \cup {"Login"}, NEW c \in Seq(Typed), c # <<>>, OpShape(op, c)
    PROVE  /\ c[1].fail # "done" /\ c[1].do # "readAddr"
           /\ c[1].fail = "skip" => c[1].do \in {"kill", "return"}
<1>1. Len(c) \in Nat \ {0}
  BY Zenon, Popped
<1>2. 1 \in 1 .. Len(c)
  BY SMT, <1>1
<1>3. Strict(c)
  BY Zenon DEF OpShape
<1> QED
  BY Zenon, <1>2, <1>3 DEF Strict

\* What a failed step leaves to do, CleanUp, can run.
LEMMA CleanUpRuns ==
    ASSUME NEW op, NEW c \in Seq(Typed), c # <<>>, NEW b, NEW t, NEW P, NEW w, Runs(os, op, c, b, t, P, w),
           c[1].fail # "skip", t # Truncated, NEW Q, NEW v,
           AddrIs(Q, t.miningaddr) \/ c[1].fail \in {"stopBtcd", "stopBtcdWallet"}
    PROVE  CleanUp(c[1].fail) # <<>> /\ Runs(os, op, CleanUp(c[1].fail), b, t, Q, v)
<1> DEFINE f == c[1].fail
           d == CleanUp(f)
<1>1. f \in Fails \ {"skip"}
  <2>1. c[1] \in Typed
    BY Zenon, Popped
  <2> QED
    BY SMT, <2>1 DEF Typed, Steps
<1>2. /\ Gives(d) /\ (f # "done" => ~Has(d, Oks))
      /\ f \in {"stopBtcd", "stopBtcdWallet"} => d[1].do = "kill" /\ d[1].arg = "btcd"
  BY Zenon, <1>1, HandlerCode
<1>3. op \in StopOps \cup {"Login"} => f # "done"
  BY Zenon, LeftOfRuns, StrictHead
<1> HIDE DEF d
<1>4. d # <<>> /\ Runs(os, op, d, b, t, Q, v)
  BY Zenon, <1>2, <1>3, GivesRuns
<1> QED
  BY Zenon, <1>4 DEF d

\* A failed step that is no kill and leaves the processes alone.
LEMMA FailRuns ==
    ASSUME NEW op, NEW c \in Seq(Typed), c # <<>>, NEW b, NEW t, NEW P, NEW w, Runs(os, op, c, b, t, P, w),
           c[1].do \in Neutral \/ (c[1].do = "present" /\ c[1].arg # "btcd"),
           NEW Q, \A a : AddrIs(P, a) => AddrIs(Q, a), NEW v
    PROVE  LET d == IF c[1].fail = "skip" THEN Tail(c) ELSE CleanUp(c[1].fail) IN
           d # <<>> /\ Runs(os, op, d, b, t, Q, v)
<1>1. CASE c[1].fail = "skip"
  <2>1. Goes(c)
    BY Zenon, <1>1 DEF Goes, ToRestart, Neutral
  <2>2. Left(os, op, c) /\ Point(os, c, b, t, P) /\ OpShape(op, c)
    BY Zenon, <2>1, LeftOfRuns
  <2>3. Point(os, Tail(c), b, t, Q)
    BY Zenon, <2>2, NeutralPoint
  <2>4. op \notin StopOps \cup {"Login"}
    BY Zenon, <1>1, <2>2, StrictHead DEF Neutral
  <2>5. Serve(op, Tail(c), Q, v)
    BY Zenon, <2>4, ServeOther
  <2>6. Tail(c) # <<>> /\ Runs(os, op, Tail(c), b, t, Q, v)
    BY Zenon, <2>2, <2>3, <2>5, TailRuns
  <2> QED
    BY Zenon, <1>1, <2>6
<1>2. CASE c[1].fail # "skip"
  <2>1. Point(os, c, b, t, P)
    BY Zenon, LeftOfRuns
  <2>2. t # Truncated /\ AddrIs(P, t.miningaddr)
    BY Zenon, <2>1 DEF Neutral, Point, StopsIfRunning
  <2>3. AddrIs(Q, t.miningaddr)
    BY Zenon, <2>2
  <2>4. CleanUp(c[1].fail) # <<>> /\ Runs(os, op, CleanUp(c[1].fail), b, t, Q, v)
    BY Zenon, <1>2, <2>2, <2>3, CleanUpRuns
  <2> QED
    BY Zenon, <1>2, <2>4
<1> QED
  BY Zenon, <1>1, <1>2

\* The code of a handler that has just been called can run.
LEMMA BeginRuns ==
    ASSUME NEW op, NEW d, Begins(op, d), NEW e, NEW u, u # Truncated, NEW Q, AddrIs(Q, u.miningaddr), NEW w
    PROVE  d # <<>> /\ d # Await /\ Runs(os, op, d, e, u, Q, w)
<1>1. d \in Good(os) /\ d # <<>> /\ Shape(os, d)
  BY Zenon DEF Begins, Good, Ended
<1>2. Point(os, d, e, u, Q) /\ d[1].do # "await"
  BY SMT, <1>1, FreshPoint
<1>3. d # Await
  BY Zenon, <1>2, HandlerCode
<1> QED
  BY Zenon, <1>1, <1>2, <1>3 DEF Begins, Runs

-----------------------------------------------------------------------------
(* The invariant of runs without overlap and failure.                       *)

\* The goroutine that takes a step is the one CleanInv speaks of.
LEMMA Here ==
    ASSUME TypeInv, CleanInv, clean, NEW r \in Routines, NEW D, At(r, D), "await" \notin D
    PROVE  /\ code[r] \in Seq(Typed) /\ code[r] # <<>> /\ Head(code[r]) = code[r][1] /\ code[r][1].do \in D
           /\ Runs(os, last[r[1]].op, code[r], buf[r], temp, procs, walletDB)
           /\ Busy(r) /\ walletDB \in BOOLEAN /\ procs \subseteq Process /\ Arg(r) = code[r][1].arg
<1>1. code[r] # <<>> /\ Head(code[r]).do \in D
  BY Zenon DEF At
<1>2. code[r] \in Seq(Typed) /\ Head(code[r]) = code[r][1]
  BY Zenon, <1>1, Current
<1>3. code[r][1].do # "await"
  BY Zenon, <1>1, <1>2
<1>4. Busy(r)
  BY Zenon, <1>1, <1>3, HandlerCode DEF Busy
<1>5. Runs(os, last[r[1]].op, code[r], buf[r], temp, procs, walletDB)
  BY Zenon, <1>4 DEF CleanInv
<1>6. walletDB \in BOOLEAN /\ procs \subseteq Process
  BY Zenon DEF TypeInv, TypeOK
<1>7. Arg(r) = code[r][1].arg
  BY Zenon, <1>2 DEF Arg
<1> QED
  BY Zenon, <1>1, <1>2, <1>4, <1>5, <1>6, <1>7

\* Only one request is being served.
LEMMA SameSlot ==
    ASSUME TypeInv, CleanInv, clean, NEW r \in Routines, code[r] # <<>>, NEW s \in Slots, last[s].num = requests
    PROVE  s = r[1]
<1>1. r[1] \in Slots
  BY SMT DEF Routines
<1>2. last[r[1]].num = requests /\ last[r[1]].num # 0
  BY Zenon DEF CleanInv, TypeInv
<1>3. \A s1, s2 \in Slots : last[s1].num = last[s2].num /\ last[s1].num # 0 => s1 = s2
  BY Zenon DEF TypeInv
<1> QED
  BY Zenon, <1>1, <1>2, <1>3

\* Only one goroutine is at work: SignupHandler waits while CreateWallet runs.
LEMMA OneBusy ==
    ASSUME TypeInv, CleanInv, clean, NEW r \in Routines, Busy(r), NEW q \in Routines, q # r
    PROVE  ~Busy(q)
<1> SUFFICES ASSUME Busy(q) PROVE FALSE
  BY Zenon
<1>1. code[r] # <<>> /\ code[q] # <<>> /\ code[r] # Await /\ code[q] # Await
  BY Zenon DEF Busy
<1>2. q[1] \in Slots /\ r = <<r[1], r[2]>> /\ q = <<q[1], q[2]>> /\ r[2] \in {"http", "job"} /\ q[2] \in {"http", "job"}
  BY SMT DEF Routines
<1>3. last[q[1]].num = requests
  BY Zenon, <1>1 DEF CleanInv
<1>4. q[1] = r[1]
  BY Zenon, <1>1, <1>2, <1>3, SameSlot
<1>5. PICK s \in Slots : /\ r = <<s, "http">> \/ q = <<s, "http">>
                         /\ r = <<s, "job">> \/ q = <<s, "job">>
  <2>1. q[2] # r[2]
    BY Zenon, <1>2, <1>4
  <2> QED
    BY Zenon, <1>2, <1>4, <2>1
<1>6. code[<<s, "job">>] # <<>> => code[<<s, "http">>] = Await
  BY Zenon DEF CleanInv
<1> QED
  BY Zenon, <1>1, <1>5, <1>6

\* A step of the goroutine, on to code whose assertion holds.
LEMMA Advance ==
    ASSUME TypeInv, CleanInv, clean, NEW r \in Routines, Busy(r), NEW d, d # <<>>, Goto(r, d),
           os' = os, last' = last, requests' = requests,
           Runs(os, last[r[1]].op, d, buf'[r], temp', procs', walletDB')
    PROVE  CleanInv'
<1>1. code[r] # <<>> /\ code[r] # Await
  BY Zenon DEF Busy
<1>2. code'[r] = d /\ \A q \in Routines : q # r => code'[q] = code[q]
  <2>1. code \in [Routines -> Seq(Typed)]
    BY Zenon DEF TypeInv
  <2> QED
    BY Zenon, <2>1 DEF Goto
<1>3. d # Await
  BY Zenon, HandlerCode DEF Runs
<1>4. \A q \in Routines : code'[q] # <<>> => last'[q[1]].num = requests' /\ last'[q[1]].res = Blank
  BY Zenon, <1>1, <1>2 DEF CleanInv
<1>5. ASSUME NEW s \in Slots, code'[<<s, "job">>] # <<>> PROVE code'[<<s, "http">>] = Await
  <2>1. <<s, "job">> \in Routines /\ <<s, "http">> \in Routines
    BY Zenon DEF Routines
  <2>2. code[<<s, "job">>] # <<>>
    BY Zenon, <1>1, <1>2, <1>5, <2>1
  <2>3. code[<<s, "http">>] = Await
    BY Zenon, <2>2 DEF CleanInv
  <2> QED
    BY Zenon, <1>1, <1>2, <2>1, <2>3
<1>6. ASSUME NEW q \in Routines, code'[q] # <<>>, code'[q] # Await
      PROVE  Runs(os', last'[q[1]].op, code'[q], buf'[q], temp', procs', walletDB')
  <2>1. q = r
    BY Zenon, <1>2, <1>6, OneBusy DEF Busy
  <2> QED
    BY Zenon, <1>2, <2>1
<1>7. ~(\A q \in Routines : ~(code'[q] # <<>> /\ code'[q] # Await))
  BY Zenon, <1>2, <1>3
<1>8. ASSUME NEW s \in Slots, last'[s].num = requests', last'[s].res = "ok" PROVE FALSE
  <2>1. s = r[1]
    BY Zenon, <1>1, <1>8, SameSlot
  <2>2. last[r[1]].res = Blank
    BY Zenon, <1>1 DEF CleanInv
  <2> QED
    BY Zenon, <1>8, <2>1, <2>2 DEF Blank
<1> QED
  BY Zenon, <1>4, <1>5, <1>6, <1>7, <1>8 DEF CleanInv, Busy

\* The same when only the code changes.
LEMMA AdvancePlain ==
    ASSUME TypeInv, CleanInv, clean, NEW r \in Routines, Busy(r), NEW d, Goto(r, d),
           UNCHANGED <<os, procs, walletDB, temp, buf, last, requests>>,
           d # <<>> /\ Runs(os, last[r[1]].op, d, buf[r], temp, procs, walletDB)
    PROVE  CleanInv'
<1>1. /\ os' = os /\ procs' = procs /\ walletDB' = walletDB /\ temp' = temp /\ buf' = buf
      /\ last' = last /\ requests' = requests
  BY Zenon
<1>2. Runs(os, last[r[1]].op, d, buf'[r], temp', procs', walletDB')
  BY Zenon, <1>1
<1> QED
  BY Zenon, <1>1, <1>2, Advance

\* Where Fail leads, in terms of the first step.
Failed(c) == IF c[1].fail = "skip" THEN Tail(c) ELSE CleanUp(c[1].fail)

\* It is where Fail leads.
LEMMA FailGoes == ASSUME NEW r, Head(code[r]) = code[r][1], Fail(r) PROVE Goto(r, Failed(code[r]))
  BY Zenon DEF Fail, Failed

\* The processes change without a goroutine.
LEMMA Stay ==
    ASSUME TypeInv, CleanInv, clean, UNCHANGED <<os, walletDB, temp, code, buf, last, requests, clean>>,
           Keeps(walletDB, procs, procs')
    PROVE  CleanInv'
\* The processes change by themselves.
<1>ServeKeep.
      ASSUME NEW op, NEW c \in Seq(Typed), OpShape(op, c), NEW P, NEW w, Serve(op, c, P, w), NEW Q, Keeps(w, P, Q)
      PROVE  Serve(op, c, Q, w)
  <2> USE <1>ServeKeep
  <2>1. c \in Seq(Steps)
    BY Zenon, TypedSteps
  <2>2. op = "Login" /\ Has(c, Oks) => (Has(c, Does("walletExists")) => Has(c, Does("startBtcwallet")))
    <3>1. op = "Login" /\ Has(c, Oks) => Later(c, Does("walletExists"), Does("startBtcwallet"))
      BY Zenon DEF OpShape
    <3> QED
      BY Zenon, <2>1, <3>1, LaterHas
  <2> QED
    BY Zenon, <2>2 DEF Serve, Keeps

\* The processes change by themselves.
<1>PointKeep.
      ASSUME NEW o, NEW c, NEW b, NEW t, NEW P, Point(o, c, b, t, P), NEW w, NEW Q, Keeps(w, P, Q)
      PROVE  Point(o, c, b, t, Q)
  <2> USE <1>PointKeep
  <2>1. /\ \A a : AddrIs(P, a) => AddrIs(Q, a)
        /\ \A k : None(P, k) => None(Q, k)
        /\ \A k : NoneUp(P, k) => NoneUp(Q, k)
        /\ Single(P, "btcd") => Single(Q, "btcd")
    BY Zenon DEF Keeps
  <2>2. /\ c[1].do # "write" => t # Truncated
        /\ c[1].do = "write" => AddrIs(Q, b.miningaddr) \/ (Len(c) > 1 /\ StopsIfRunning(c[2]))
        /\ c[1].do = "truncate" => AddrIs(Q, b.miningaddr) \/ (Len(c) > 2 /\ StopsIfRunning(c[3]))
    BY Zenon, <2>1 DEF Point
  <2>3. /\ c[1].do = "startBtcd" => None(Q, "btcd")
        /\ c[1].do = "startBtcwallet" => None(Q, "btcwallet")
        /\ c[1].do = "present" /\ c[1].arg = "btcd" =>
               Len(c) > 1 /\ c[2].do = "miningaddr" /\ Single(Q, "btcd") /\ AddrIs(Q, c[2].arg)
        /\ c[1].do = "miningaddr" => AddrIs(Q, c[1].arg)
    BY Zenon, <2>1 DEF Point
  <2>4. \/ c[1].do \in {"write", "truncate", "startBtcd", "miningaddr"}
        \/ c[1].do = "present" /\ c[1].arg = "btcd"
        \/ AddrIs(Q, t.miningaddr)
        \/ StopsIfRunning(c[1])
        \/ c[1].do = "kill" /\ c[1].arg = "btcd"
    BY Zenon, <2>1 DEF Point
  <2>5. o = "windows" =>
           /\ c[1].do = "removeMainnet" => NoneUp(Q, "btcd")
           /\ Len(c) > 1 /\ c[2].do = "removeMainnet" => NoneUp(Q, "btcd")
    BY Zenon, <2>1 DEF Point
  <2> QED
    BY Zenon, <2>2, <2>3, <2>4, <2>5 DEF Point

<1>1. /\ os' = os /\ walletDB' = walletDB /\ temp' = temp /\ code' = code /\ buf' = buf
      /\ last' = last /\ requests' = requests
  BY Zenon
<1>2. ASSUME NEW r \in Routines, Busy(r)
      PROVE  Runs(os, last[r[1]].op, code[r], buf[r], temp, procs', walletDB)
  <2>1. Runs(os, last[r[1]].op, code[r], buf[r], temp, procs, walletDB)
    BY Zenon, <1>2 DEF CleanInv
  <2>2. code[r] \in Seq(Typed)
    BY Zenon DEF TypeInv
  <2>3. Point(os, code[r], buf[r], temp, procs')
    BY Zenon, <2>1, <1>PointKeep DEF Runs
  <2>4. Serve(last[r[1]].op, code[r], procs', walletDB)
    BY Zenon, <2>1, <2>2, <1>ServeKeep DEF Runs
  <2> QED
    BY Zenon, <2>1, <2>3, <2>4 DEF Runs
<1>3. (\A r \in Routines : ~Busy(r)) => temp # Truncated /\ AddrIs(procs', temp.miningaddr)
  BY Zenon DEF CleanInv, Keeps
<1>4. ASSUME NEW s \in Slots, last[s].num = requests, last[s].res = "ok"
      PROVE  Promise(last[s].op, procs', walletDB)
  <2>1. Promise(last[s].op, procs, walletDB)
    BY Zenon, <1>4 DEF CleanInv
  <2> QED
    BY Zenon, <2>1 DEF Promise, Keeps
<1>5. /\ \A r \in Routines : code[r] # <<>> => last[r[1]].num = requests /\ last[r[1]].res = Blank
      /\ \A s \in Slots : code[<<s, "job">>] # <<>> => code[<<s, "http">>] = Await
  BY Zenon DEF CleanInv
<1> QED
  BY Zenon, <1>1, <1>2, <1>3, <1>4, <1>5 DEF CleanInv, Busy

-----------------------------------------------------------------------------
(* The steps of a goroutine, in a run without overlap and failure.          *)

\* isProcessRunning before a start.
LEMMA AbsentClean == ASSUME TypeInv, CleanInv, clean, NEW r \in Routines, CheckAbsent(r) PROVE CleanInv'
\* StartBtcd and StartBtcwallet found no process.
<1>AbsentRuns.
      ASSUME NEW o, NEW op, NEW c \in Seq(Typed), c # <<>>, c[1].do = "absent", NEW b, NEW t, NEW P, NEW w \in BOOLEAN,
             Runs(o, op, c, b, t, P, w), None(P, c[1].arg)
      PROVE  Tail(c) # <<>> /\ Runs(o, op, Tail(c), b, t, P, w)
  <2> USE <1>AbsentRuns
  <2>0. Goes(c) /\ c[1].do \notin {"walletExists", "startBtcd", "startBtcwallet", "kill", "killIfRunning"}
    BY Zenon DEF Goes, ToRestart
  <2>1. Left(o, op, c) /\ Point(o, c, b, t, P) /\ Serve(op, c, P, w) /\ OpShape(op, c)
    BY Zenon, <2>0, LeftOfRuns
  <2>2. Serve(op, Tail(c), P, w)
    BY Zenon, <2>0, <2>1, ServeTail, KeepsSame
  <2>3. t # Truncated /\ AddrIs(P, t.miningaddr)
    <3>1. c[1].arg = "btcd" => AddrIs(P, t.miningaddr)
      BY Zenon, NoneAddr
    <3> QED
      BY Zenon, <2>1, <3>1 DEF Point, StopsIfRunning
  <2>4. Follows(c[1], c[2]) /\ Tail(c)[1] = c[2] /\ Ahead(o, c) /\ Len(c) > 1
        /\ (Len(c) > 2 => Tail(c)[2] = c[3]) /\ (Len(Tail(c)) > 1 <=> Len(c) > 2)
    BY Zenon, <2>1, LeftFacts
  <2>5. CASE Plain(Tail(c))
    <3>1. Point(o, Tail(c), b, t, P)
      BY Zenon, <2>1, <2>3, <2>5, TailPlain
    <3> QED
      BY Zenon, <2>1, <2>2, <3>1, TailRuns
  <2>6. CASE ~Plain(Tail(c))
    <3>1. \/ Tail(c)[1].do = "startBtcd" /\ None(P, "btcd")
          \/ Tail(c)[1].do = "startBtcwallet" /\ None(P, "btcwallet")
      BY Zenon, <2>4, <2>6 DEF Plain, Follows, Updates
    <3>2. o = "windows" => ~(Len(Tail(c)) > 1 /\ Tail(c)[2].do = "removeMainnet")
      BY Zenon, <2>4 DEF Ahead
    <3>3. Point(o, Tail(c), b, t, P)
      BY Zenon, <2>3, <3>1, <3>2 DEF Point
    <3> QED
      BY Zenon, <2>1, <2>2, <3>3, TailRuns
  <2> QED
    BY Zenon, <2>5, <2>6

\* The process StartBtcd or StartBtcwallet was to start is there already.
<1>AbsentFails.
      ASSUME NEW op, NEW c \in Seq(Typed), c # <<>>, NEW b, NEW t, NEW P, NEW w \in BOOLEAN,
             Runs(os, op, c, b, t, P, w), c[1].do = "absent"
      PROVE  LET d == IF c[1].fail = "skip" THEN Tail(c) ELSE CleanUp(c[1].fail) IN
             d # <<>> /\ Runs(os, op, d, b, t, P, w)
  <2> USE <1>AbsentFails
  <2>0. Goes(c) /\ c[1].do # "kill"
    BY Zenon DEF Goes, ToRestart
  <2>1. Left(os, op, c) /\ Point(os, c, b, t, P) /\ OpShape(op, c)
    BY Zenon, <2>0, LeftOfRuns
  <2>2. t # Truncated /\ (AddrIs(P, t.miningaddr) \/ c[1].fail \in {"stopBtcd", "stopBtcdWallet"})
    BY Zenon, <2>1 DEF Point, StopsIfRunning
  <2>3. CASE c[1].fail = "skip"
    <3>1. Follows(c[1], c[2]) /\ Tail(c)[1] = c[2]
      BY Zenon, <2>1, LeftFacts
    <3>2. Plain(Tail(c))
      BY Zenon, <2>3, <3>1 DEF Plain, Follows, Updates
    <3>3. Point(os, Tail(c), b, t, P)
      BY Zenon, <2>0, <2>1, <2>2, <2>3, <3>2, TailPlain
    <3>4. op \notin StopOps \cup {"Login"}
      BY Zenon, <2>1, <2>3, StrictHead
    <3>5. Serve(op, Tail(c), P, w)
      BY Zenon, <3>4, ServeOther
    <3>6. Tail(c) # <<>> /\ Runs(os, op, Tail(c), b, t, P, w)
      BY Zenon, <2>1, <3>3, <3>5, TailRuns
    <3> QED
      BY Zenon, <2>3, <3>6
  <2>4. CASE c[1].fail # "skip"
    <3>1. CleanUp(c[1].fail) # <<>> /\ Runs(os, op, CleanUp(c[1].fail), b, t, P, w)
      BY Zenon, <2>2, <2>4, CleanUpRuns
    <3> QED
      BY Zenon, <2>4, <3>1
  <2> QED
    BY Zenon, <2>3, <2>4

<1>1. /\ At(r, {"absent"}) /\ "await" \notin {"absent"}
      /\ UNCHANGED <<os, procs, walletDB, temp, buf, last, requests>>
  BY Zenon DEF CheckAbsent
<1>2. /\ code[r] \in Seq(Typed) /\ code[r] # <<>> /\ Head(code[r]) = code[r][1] /\ code[r][1].do = "absent"
      /\ Runs(os, last[r[1]].op, code[r], buf[r], temp, procs, walletDB)
      /\ Busy(r) /\ walletDB \in BOOLEAN /\ Arg(r) = code[r][1].arg
  <2>1. code[r][1].do \in {"absent"}
    BY Zenon, <1>1, Here
  <2> QED
    BY Zenon, <1>1, <2>1, Here
<1>3. PICK running \in IsProcessRunning(Arg(r)) : IF running THEN Fail(r) ELSE Succeed(r)
  BY Zenon DEF CheckAbsent
<1>4. CASE running
  <2>1. Failed(code[r]) # <<>> /\ Runs(os, last[r[1]].op, Failed(code[r]), buf[r], temp, procs, walletDB)
    BY Zenon, <1>2, <1>AbsentFails DEF Failed
  <2>2. Goto(r, Failed(code[r]))
    BY Zenon, <1>2, <1>3, <1>4, FailGoes
  <2> QED
    BY Zenon, <1>1, <1>2, <2>1, <2>2, AdvancePlain
<1>5. CASE ~running
  <2>1. None(procs, code[r][1].arg)
    BY Zenon, <1>2, <1>5, NotRunning
  <2>2. Tail(code[r]) # <<>> /\ Runs(os, last[r[1]].op, Tail(code[r]), buf[r], temp, procs, walletDB)
    BY Zenon, <1>2, <2>1, <1>AbsentRuns
  <2>3. Goto(r, Tail(code[r]))
    BY Zenon, <1>3, <1>5 DEF Succeed
  <2> QED
    BY Zenon, <1>1, <1>2, <2>2, <2>3, AdvancePlain
<1> QED
  BY Zenon, <1>4, <1>5

\* And after it.
LEMMA PresentClean == ASSUME TypeInv, CleanInv, clean, NEW r \in Routines, CheckPresent(r) PROVE CleanInv'
\* It sees a process that is there.
<1>Running.
      ASSUME NEW name, Single(procs, name)
      PROVE  IsProcessRunning(name) = {TRUE}
  <2> USE <1>Running
  <2>1. Matching(name) # {}
    BY Zenon DEF Single, Matching
  <2> QED
    BY Zenon, <2>1 DEF IsProcessRunning

\* btcd is there, with the address that goes to the temp file next.
<1>PresentRuns.
      ASSUME NEW o, NEW op, NEW c \in Seq(Typed), c # <<>>, c[1].do = "present", c[1].arg = "btcd", NEW b, NEW t,
             NEW P, NEW w \in BOOLEAN, Runs(o, op, c, b, t, P, w)
      PROVE  Single(P, "btcd") /\ Tail(c) # <<>> /\ Runs(o, op, Tail(c), b, t, P, w)
  <2> USE <1>PresentRuns
  <2>0. Goes(c) /\ c[1].do \notin {"walletExists", "startBtcd", "startBtcwallet", "kill", "killIfRunning"}
    BY Zenon DEF Goes, ToRestart
  <2>1. Left(o, op, c) /\ Point(o, c, b, t, P) /\ Serve(op, c, P, w) /\ OpShape(op, c)
    BY Zenon, <2>0, LeftOfRuns
  <2>2. Serve(op, Tail(c), P, w)
    BY Zenon, <2>0, <2>1, ServeTail, KeepsSame
  <2>3. t # Truncated /\ c[2].do = "miningaddr" /\ Single(P, "btcd") /\ AddrIs(P, c[2].arg)
    BY Zenon, <2>1 DEF Point
  <2>4. Tail(c)[1] = c[2] /\ Ahead(o, c) /\ Len(c) > 1
        /\ (Len(c) > 2 => Tail(c)[2] = c[3]) /\ (Len(Tail(c)) > 1 <=> Len(c) > 2)
    BY Zenon, <2>1, LeftFacts
  <2>5. o = "windows" => ~(Len(Tail(c)) > 1 /\ Tail(c)[2].do = "removeMainnet")
    BY Zenon, <2>4 DEF Ahead
  <2>6. Point(o, Tail(c), b, t, P)
    BY Zenon, <2>3, <2>4, <2>5 DEF Point
  <2> QED
    BY Zenon, <2>1, <2>2, <2>3, <2>6, TailRuns

<1>1. /\ At(r, {"present"}) /\ "await" \notin {"present"}
      /\ UNCHANGED <<os, procs, walletDB, temp, buf, last, requests>>
  BY Zenon DEF CheckPresent
<1>2. /\ code[r] \in Seq(Typed) /\ code[r] # <<>> /\ Head(code[r]) = code[r][1] /\ code[r][1].do = "present"
      /\ Runs(os, last[r[1]].op, code[r], buf[r], temp, procs, walletDB)
      /\ Busy(r) /\ walletDB \in BOOLEAN /\ Arg(r) = code[r][1].arg
  <2>1. code[r][1].do \in {"present"}
    BY Zenon, <1>1, Here
  <2> QED
    BY Zenon, <1>1, <2>1, Here
<1>3. PICK running \in IsProcessRunning(Arg(r)) : IF running THEN Succeed(r) ELSE Fail(r)
  BY Zenon DEF CheckPresent
<1>4. Goes(code[r])
  BY Zenon, <1>2 DEF Goes, ToRestart
<1>5. CASE running
  <2>1. Tail(code[r]) # <<>> /\ Runs(os, last[r[1]].op, Tail(code[r]), buf[r], temp, procs, walletDB)
    <3>1. CASE code[r][1].arg = "btcd"
      BY Zenon, <1>2, <3>1, <1>PresentRuns
    <3>2. CASE code[r][1].arg # "btcd"
      BY Zenon, <1>2, <1>4, <3>2, NeutralRuns, KeepsSame
    <3> QED
      BY Zenon, <3>1, <3>2
  <2>2. Goto(r, Tail(code[r]))
    BY Zenon, <1>3, <1>5 DEF Succeed
  <2> QED
    BY Zenon, <1>1, <1>2, <2>1, <2>2, AdvancePlain
<1>6. CASE ~running
  <2>1. code[r][1].arg # "btcd"
    <3>1. SUFFICES ASSUME code[r][1].arg = "btcd" PROVE FALSE
      BY Zenon
    <3>2. Single(procs, "btcd")
      BY Zenon, <1>2, <3>1, <1>PresentRuns
    <3>3. IsProcessRunning("btcd") = {TRUE}
      BY Zenon, <3>2, <1>Running
    <3>4. Arg(r) = "btcd"
      BY Zenon, <1>2, <3>1
    <3>5. running \in {TRUE}
      BY Zenon, <3>3, <3>4
    <3> QED
      BY SMT, <1>6, <3>5
  <2>2. Failed(code[r]) # <<>> /\ Runs(os, last[r[1]].op, Failed(code[r]), buf[r], temp, procs, walletDB)
    BY Zenon, <1>2, <2>1, FailRuns DEF Failed
  <2>3. Goto(r, Failed(code[r]))
    BY Zenon, <1>2, <1>3, <1>6, FailGoes
  <2> QED
    BY Zenon, <1>1, <1>2, <2>2, <2>3, AdvancePlain
<1> QED
  BY Zenon, <1>5, <1>6

\* The process is started.
LEMMA StartClean ==
    ASSUME TypeInv, CleanInv, clean, clean', NEW r \in Routines, StartProcess(r) PROVE CleanInv'
\* The process was started.
<1>StartRuns.
      ASSUME NEW o, NEW op, NEW c \in Seq(Typed), c # <<>>, c[1].do \in {"startBtcd", "startBtcwallet"}, NEW b, NEW t,
             NEW P, NEW w, Runs(o, op, c, b, t, P, w), NEW q, q.up, Starting(c[1], q), NEW Q, Q = P \cup {q},
             c[1].do = "startBtcd" => q.addr = c[1].arg
      PROVE  Tail(c) # <<>> /\ Runs(o, op, Tail(c), b, t, Q, w)
  <2> USE <1>StartRuns
  <2>0. Goes(c) /\ c[1].do # "create"
    BY Zenon DEF Goes, ToRestart
  <2>1. Left(o, op, c) /\ Point(o, c, b, t, P) /\ Serve(op, c, P, w) /\ OpShape(op, c)
    BY Zenon, <2>0, LeftOfRuns
  <2>2. None(P, q.kind) /\ t # Truncated
    BY Zenon, <2>1 DEF Point, Starting
  <2>3. Serve(op, Tail(c), Q, w)
    BY Zenon, <2>1, <2>2, ServeStart
  <2>4. Tail(c)[1] = c[2] /\ Ahead(o, c) /\ Len(c) > 1
        /\ (Len(c) > 2 => Tail(c)[2] = c[3]) /\ (Len(Tail(c)) > 1 <=> Len(c) > 2)
    BY Zenon, <2>1, LeftFacts
  <2>5. /\ Single(Q, q.kind) /\ (q.kind # "btcd" => \A a : AddrIs(P, a) => AddrIs(Q, a))
        /\ (None(P, "btcd") => AddrIs(Q, q.addr))
    BY Zenon, <2>2, Starts
  <2>6. CASE c[1].do = "startBtcd"
    <3>1. /\ Tail(c)[1].do = "present" /\ Tail(c)[1].arg = "btcd" /\ Len(Tail(c)) > 1
          /\ Tail(c)[2].do = "miningaddr" /\ Tail(c)[2].arg = c[1].arg /\ q.kind = "btcd"
      BY Zenon, <2>4, <2>6 DEF Ahead, Starting
    <3>2. Single(Q, "btcd") /\ AddrIs(Q, Tail(c)[2].arg)
      BY Zenon, <2>2, <2>5, <2>6, <3>1
    <3>3. Point(o, Tail(c), b, t, Q)
      BY Zenon, <2>2, <3>1, <3>2 DEF Point
    <3> QED
      BY Zenon, <2>1, <2>3, <3>3, TailRuns
  <2>7. CASE c[1].do = "startBtcwallet"
    <3>1. Tail(c)[1].do = "present" /\ Tail(c)[1].arg = "btcwallet" /\ q.kind = "btcwallet"
      BY Zenon, <2>4, <2>7 DEF Ahead, Starting
    <3>2. AddrIs(P, t.miningaddr)
      BY Zenon, <2>1, <2>7 DEF Point, StopsIfRunning
    <3>3. AddrIs(Q, t.miningaddr)
      BY Zenon, <2>5, <3>1, <3>2
    <3>4. o = "windows" => ~(Len(Tail(c)) > 1 /\ Tail(c)[2].do = "removeMainnet")
      BY Zenon, <2>4, <2>7 DEF Ahead
    <3>5. Point(o, Tail(c), b, t, Q)
      BY Zenon, <2>2, <3>1, <3>3, <3>4 DEF Point
    <3> QED
      BY Zenon, <2>1, <2>3, <3>5, TailRuns
  <2> QED
    BY Zenon, <2>6, <2>7

<1> DEFINE c == code[r]
           q == IF Head(code[r]).do = "startBtcd" THEN Spawned(r, "btcd", Arg(r)) ELSE Spawned(r, "btcwallet", Blank)
<1>1. /\ At(r, {"startBtcd", "startBtcwallet"}) /\ "await" \notin {"startBtcd", "startBtcwallet"}
      /\ os' = os /\ walletDB' = walletDB /\ temp' = temp /\ buf' = buf /\ last' = last /\ requests' = requests
  BY Zenon DEF StartProcess
<1>2. procs' = procs \cup {q} /\ Goto(r, Tail(c))
  BY Zenon DEF StartProcess, Fault, Succeed
<1>3. /\ c \in Seq(Typed) /\ c # <<>> /\ Head(c) = c[1] /\ c[1].do \in {"startBtcd", "startBtcwallet"}
      /\ Runs(os, last[r[1]].op, c, buf[r], temp, procs, walletDB)
      /\ Busy(r) /\ walletDB \in BOOLEAN /\ Arg(r) = c[1].arg
  BY Zenon, <1>1, Here
<1>4. q.up /\ Starting(c[1], q) /\ (c[1].do = "startBtcd" => q.addr = c[1].arg)
  <2>1. CASE c[1].do = "startBtcd"
    <3>1. q = Spawned(r, "btcd", c[1].arg)
      BY Zenon, <1>3, <2>1
    <3> HIDE DEF q
    <3>2. q.up /\ q.kind = "btcd" /\ q.addr = c[1].arg
      BY SMT, <3>1 DEF Spawned
    <3> QED
      BY Zenon, <2>1, <3>2 DEF Starting
  <2>2. CASE c[1].do = "startBtcwallet"
    <3>1. q = Spawned(r, "btcwallet", Blank)
      BY Zenon, <1>3, <2>2
    <3> HIDE DEF q
    <3>2. q.up /\ q.kind = "btcwallet"
      BY SMT, <3>1 DEF Spawned
    <3> QED
      BY Zenon, <2>2, <3>2 DEF Starting
  <2> QED
    BY Zenon, <1>3, <2>1, <2>2
<1> HIDE DEF q, c
<1>5. Tail(c) # <<>> /\ Runs(os, last[r[1]].op, Tail(c), buf[r], temp, procs', walletDB)
  BY Zenon, <1>2, <1>3, <1>4, <1>StartRuns
<1> QED
  BY Zenon, <1>1, <1>2, <1>3, <1>5, Advance

\* StopBtcd and StopBtcwallet.
LEMMA StopClean ==
    ASSUME TypeInv, CleanInv, clean, clean', NEW r \in Routines, StopProcess(r) PROVE CleanInv'
\* A kill does,
<1>KillStops.
      ASSUME procs \subseteq Process, NEW name, Kill(name)
      PROVE  Stopped(procs, procs', name)
  <2> USE <1>KillStops
  <2>1. \A q \in procs' : \/ q \in procs /\ q \notin Matching(name)
                          \/ \E p \in procs : q = [p EXCEPT !.up = FALSE]
    BY Zenon DEF Kill, Matching
  <2>2. ASSUME NEW p \in procs PROVE LET q == [p EXCEPT !.up = FALSE] IN ~q.up
    BY SMT DEF Process
  <2>3. \A q \in procs' : q.up => q \in procs /\ q \notin Matching(name)
    BY Zenon, <2>1, <2>2
  <2>4. \A a : AddrIs(procs, a) => AddrIs(procs', a)
    BY Zenon, <2>3 DEF AddrIs
  <2>5. \A k : NoneUp(procs, k) => NoneUp(procs', k)
    BY Zenon, <2>3 DEF NoneUp
  <2>6. name = "btcd" => NoneUp(procs', "btcd")
    BY Zenon, <2>3 DEF NoneUp, Matching
  <2>7. name = "btcwallet" => NoneUp(procs', "btcwallet") /\ NoneUp(procs', "create")
    BY Zenon, <2>3 DEF NoneUp, Matching
  <2> QED
    BY Zenon, <2>4, <2>5, <2>6, <2>7 DEF Stopped

\* and so does finding none.
<1>NotSeenStopped.
      ASSUME NEW name, Matching(name) = {} \/ ~SeenByStop(name)
      PROVE  Stopped(procs, procs, name) /\ (name = "btcd" => None(procs, "btcd"))
  <2> USE <1>NotSeenStopped
  <2>1. /\ name = "btcd" => None(procs, "btcd")
        /\ name = "btcwallet" => None(procs, "btcwallet") /\ None(procs, "create")
    BY Zenon DEF SeenByStop, Matching, None
  <2>2. /\ name = "btcd" => NoneUp(procs, "btcd")
        /\ name = "btcwallet" => NoneUp(procs, "btcwallet") /\ NoneUp(procs, "create")
    BY Zenon, <2>1 DEF None, NoneUp
  <2> QED
    BY Zenon, <2>1, <2>2 DEF Stopped

\* A process was stopped, or there was none to stop.
<1>StopRuns.
      ASSUME NEW o, NEW op, NEW c \in Seq(Typed), c # <<>>, c[1].do \in {"kill", "killIfRunning"}, NEW b, NEW t,
             NEW P, NEW w, Runs(o, op, c, b, t, P, w), NEW Q, Stopped(P, Q, c[1].arg)
      PROVE  Tail(c) # <<>> /\ Runs(o, op, Tail(c), b, t, Q, w)
  <2> USE <1>StopRuns
  <2>0. Goes(c)
    BY Zenon DEF Goes, ToRestart
  <2>1. Left(o, op, c) /\ Point(o, c, b, t, P) /\ Serve(op, c, P, w) /\ OpShape(op, c)
    BY Zenon, <2>0, LeftOfRuns
  <2>2. Serve(op, Tail(c), Q, w)
    BY Zenon, <2>1, ServeStop
  <2>3. /\ c[1].arg = "btcd" => \A a : AddrIs(Q, a)
        /\ c[1].arg = "btcd" => NoneUp(Q, "btcd")
        /\ NoneUp(P, "btcd") => NoneUp(Q, "btcd")
    BY Zenon, NoneAddr DEF Stopped
  <2>4. t # Truncated /\ AddrIs(Q, t.miningaddr)
    BY Zenon, <2>1, <2>3 DEF Point, StopsIfRunning, Stopped
  <2>5. Follows(c[1], c[2]) /\ Tail(c)[1] = c[2] /\ Ahead(o, c) /\ Len(c) > 1
        /\ (Len(c) > 2 => Tail(c)[2] = c[3]) /\ (Len(Tail(c)) > 1 <=> Len(c) > 2)
    BY Zenon, <2>1, LeftFacts
  <2>6. CASE Plain(Tail(c))
    <3>1. /\ o = "windows" /\ c[1].do = "kill" /\ c[1].arg = "btcd" => NoneUp(Q, "btcd")
          /\ o = "windows" /\ c[1].do = "kill" /\ c[2].do = "removeMainnet" => NoneUp(Q, "btcd")
      BY Zenon, <2>1, <2>3, <2>5 DEF Point
    <3>2. Point(o, Tail(c), b, t, Q)
      BY Zenon, <2>1, <2>4, <2>6, <3>1, TailPlain
    <3> QED
      BY Zenon, <2>1, <2>2, <3>2, TailRuns
  <2>7. CASE ~Plain(Tail(c))
    <3>1. Tail(c)[1].do = "miningaddr" /\ c[1].do = "killIfRunning" /\ c[1].arg = "btcd"
      BY Zenon, <2>5, <2>7 DEF Plain, Follows, Updates
    <3>2. o = "windows" => ~(Len(Tail(c)) > 1 /\ Tail(c)[2].do = "removeMainnet")
      BY Zenon, <2>5, <3>1 DEF Ahead
    <3>3. Point(o, Tail(c), b, t, Q)
      BY Zenon, <2>3, <2>4, <3>1, <3>2 DEF Point
    <3> QED
      BY Zenon, <2>1, <2>2, <3>3, TailRuns
  <2> QED
    BY Zenon, <2>6, <2>7

\* There was no process to stop.
<1>StopFails.
      ASSUME NEW op, NEW c \in Seq(Typed), c # <<>>, NEW b, NEW t, NEW P, NEW w, Runs(os, op, c, b, t, P, w),
             c[1].do \in {"kill", "killIfRunning"}, Stopped(P, P, c[1].arg)
      PROVE  LET d == IF c[1].fail = "skip" THEN Tail(c) ELSE CleanUp(c[1].fail) IN
             d # <<>> /\ Runs(os, op, d, b, t, P, w)
  <2> USE <1>StopFails
  <2>1. CASE c[1].fail = "skip"
    BY Zenon, <2>1, <1>StopRuns
  <2>2. CASE c[1].fail # "skip"
    <3>1. Point(os, c, b, t, P)
      BY Zenon, LeftOfRuns
    <3>2. t # Truncated /\ AddrIs(P, t.miningaddr)
      BY Zenon, <3>1, NoneAddr DEF Point, StopsIfRunning, Stopped
    <3>3. CleanUp(c[1].fail) # <<>> /\ Runs(os, op, CleanUp(c[1].fail), b, t, P, w)
      BY Zenon, <2>2, <3>2, CleanUpRuns
    <3> QED
      BY Zenon, <2>2, <3>3
  <2> QED
    BY Zenon, <2>1, <2>2

<1> DEFINE c == code[r]
<1>1. /\ At(r, {"kill", "killIfRunning"}) /\ "await" \notin {"kill", "killIfRunning"}
      /\ os' = os /\ walletDB' = walletDB /\ temp' = temp /\ buf' = buf /\ last' = last /\ requests' = requests
  BY Zenon DEF StopProcess
<1>2. /\ c \in Seq(Typed) /\ c # <<>> /\ Head(c) = c[1] /\ c[1].do \in {"kill", "killIfRunning"}
      /\ Runs(os, last[r[1]].op, c, buf[r], temp, procs, walletDB)
      /\ Busy(r) /\ procs \subseteq Process /\ Arg(r) = c[1].arg
  BY Zenon, <1>1, Here
<1>3. \/ FALSE \in IsProcessRunning(Arg(r)) /\ Succeed(r) /\ procs' = procs
      \/ Kill(Arg(r)) /\ Succeed(r)
      \/ ~SeenByStop(Arg(r)) /\ Fail(r) /\ procs' = procs
  BY Zenon DEF StopProcess, Fault
<1>4. ASSUME Succeed(r), Stopped(procs, procs', c[1].arg) PROVE CleanInv'
  <2>1. Tail(c) # <<>> /\ Runs(os, last[r[1]].op, Tail(c), buf[r], temp, procs', walletDB)
    BY Zenon, <1>2, <1>4, <1>StopRuns
  <2>2. Goto(r, Tail(c))
    BY Zenon, <1>4 DEF Succeed
  <2> QED
    BY Zenon, <1>1, <1>2, <2>1, <2>2, Advance
<1>5. CASE FALSE \in IsProcessRunning(Arg(r)) /\ Succeed(r) /\ procs' = procs
  <2>1. Matching(Arg(r)) = {}
    BY Zenon, <1>5, NotRunning
  <2>2. Stopped(procs, procs, Arg(r))
    BY Zenon, <2>1, <1>NotSeenStopped
  <2> QED
    BY Zenon, <1>2, <1>4, <1>5, <2>2
<1>6. CASE Kill(Arg(r)) /\ Succeed(r)
  <2>1. Stopped(procs, procs', Arg(r))
    BY Zenon, <1>2, <1>6, <1>KillStops
  <2> QED
    BY Zenon, <1>2, <1>4, <1>6, <2>1
<1>7. CASE ~SeenByStop(Arg(r)) /\ Fail(r) /\ procs' = procs
  <2>1. Stopped(procs, procs, Arg(r))
    BY Zenon, <1>7, <1>NotSeenStopped
  <2>2. Failed(c) # <<>> /\ Runs(os, last[r[1]].op, Failed(c), buf[r], temp, procs, walletDB)
    BY Zenon, <1>2, <2>1, <1>StopFails DEF Failed
  <2>3. Goto(r, Failed(c))
    BY Zenon, <1>2, <1>7, FailGoes
  <2> QED
    BY Zenon, <1>1, <1>2, <1>7, <2>2, <2>3, AdvancePlain
<1> QED
  BY Zenon, <1>3, <1>5, <1>6, <1>7

\* A step that fails.
LEMMA FailClean ==
    ASSUME TypeInv, CleanInv, clean, NEW r \in Routines, NEW D, D \subseteq Neutral, At(r, D), Fail(r),
           UNCHANGED <<os, temp, buf, last, requests>>, \A a : AddrIs(procs, a) => AddrIs(procs', a)
    PROVE  CleanInv'
<1> DEFINE c == code[r]
<1>1. "await" \notin D
  BY Zenon DEF Neutral
<1>2. /\ c \in Seq(Typed) /\ c # <<>> /\ Head(c) = c[1] /\ c[1].do \in D
      /\ Runs(os, last[r[1]].op, c, buf[r], temp, procs, walletDB) /\ Busy(r)
  BY Zenon, <1>1, Here
<1>3. Goto(r, Failed(c))
  BY Zenon, <1>2, FailGoes
<1>4. Failed(c) # <<>> /\ Runs(os, last[r[1]].op, Failed(c), buf[r], temp, procs', walletDB')
  BY Zenon, <1>2, FailRuns DEF Failed
<1>5. os' = os /\ temp' = temp /\ buf' = buf /\ last' = last /\ requests' = requests
  BY Zenon
<1> HIDE DEF c
<1>6. Runs(os, last[r[1]].op, Failed(c), buf'[r], temp', procs', walletDB')
  BY Zenon, <1>4, <1>5
<1> QED
  BY Zenon, <1>2, <1>3, <1>4, <1>5, <1>6, Advance

\* A step that succeeds, and neither starts nor stops a process.
LEMMA NeutralClean ==
    ASSUME TypeInv, CleanInv, clean, NEW r \in Routines, NEW D, D \subseteq Neutral \ {"create", "walletExists"},
           At(r, D), Succeed(r), code[r][1].do = "readAddr" => code[r][1].arg # "restart",
           UNCHANGED <<os, temp, buf, last, requests>>, Keeps(walletDB, procs, procs'),
           walletDB' \in BOOLEAN, walletDB => walletDB' \/ code[r][1].do = "removeDB"
    PROVE  CleanInv'
<1> DEFINE c == code[r]
<1>1. "await" \notin D
  BY Zenon DEF Neutral
<1>2. /\ c \in Seq(Typed) /\ c # <<>> /\ Head(c) = c[1] /\ c[1].do \in D
      /\ Runs(os, last[r[1]].op, c, buf[r], temp, procs, walletDB) /\ Busy(r) /\ walletDB \in BOOLEAN
  BY Zenon, <1>1, Here
<1>3. Goto(r, Tail(c))
  BY Zenon DEF Succeed
<1>4. Tail(c) # <<>> /\ Runs(os, last[r[1]].op, Tail(c), buf[r], temp, procs', walletDB')
  <2>1. Goes(c) /\ c[1].do \in Neutral \ {"create", "walletExists"} /\ (walletDB => walletDB' \/ c[1].do = "removeDB")
    BY Zenon, <1>2 DEF Goes, ToRestart, Neutral
  <2> HIDE DEF c
  <2> QED
    BY Zenon, <1>2, <2>1, NeutralRuns
<1>5. os' = os /\ temp' = temp /\ buf' = buf /\ last' = last /\ requests' = requests
  BY Zenon
<1> HIDE DEF c
<1>6. Runs(os, last[r[1]].op, Tail(c), buf'[r], temp', procs', walletDB')
  BY Zenon, <1>4, <1>5
<1> QED
  BY Zenon, <1>2, <1>3, <1>4, <1>5, <1>6, Advance

\* The step a routine is at, with the disjunct of its action taken.
LEMMA AtHead == ASSUME TypeInv, NEW r \in Routines, NEW D, At(r, D) PROVE code[r][1].do \in D /\ Arg(r) = code[r][1].arg
<1>1. code[r] # <<>> /\ Head(code[r]).do \in D
  BY Zenon DEF At
<1>2. Head(code[r]) = code[r][1]
  BY Zenon, <1>1, Current
<1> QED
  BY Zenon, <1>1, <1>2 DEF Arg

\* btcwallet --create is started.
LEMMA CreateClean == ASSUME TypeInv, CleanInv, clean, NEW r \in Routines, CreateBegin(r) PROVE CleanInv'
\* btcwallet --create was started.
<1>CreateRuns.
      ASSUME NEW o, NEW op, NEW c \in Seq(Typed), c # <<>>, c[1].do = "create", NEW b, NEW t, NEW P, NEW w,
             Runs(o, op, c, b, t, P, w), NEW q, q.up, q.kind = "create", NEW Q, Q = P \cup {q}
      PROVE  Tail(c) # <<>> /\ Runs(o, op, Tail(c), b, t, Q, w)
  <2> USE <1>CreateRuns
  <2>0. Goes(c) /\ c[1].do \in Neutral /\ Starting(c[1], q)
    BY Zenon DEF Goes, ToRestart, Neutral, Starting
  <2>1. Left(o, op, c) /\ Point(o, c, b, t, P) /\ Serve(op, c, P, w) /\ OpShape(op, c)
    BY Zenon, <2>0, LeftOfRuns
  <2>2. \A a : AddrIs(P, a) => AddrIs(Q, a)
    BY Zenon, Starts
  <2>3. Point(o, Tail(c), b, t, Q)
    BY Zenon, <2>0, <2>1, <2>2, NeutralPoint
  <2>4. Serve(op, Tail(c), Q, w)
    BY Zenon, <2>0, <2>1, ServeStart
  <2> QED
    BY Zenon, <2>1, <2>3, <2>4, TailRuns

<1> DEFINE c == code[r]
           q == Spawned(r, "create", Blank)
           D == {"create"}
<1>1. At(r, D) /\ "await" \notin D /\ D \subseteq Neutral
  BY Zenon DEF CreateBegin, Neutral
<1>2. UNCHANGED <<os, temp, buf, last, requests>> /\ walletDB' = walletDB
  BY Zenon DEF CreateBegin
<1>3. CASE walletDB
  <2>1. Fail(r) /\ procs' = procs
    BY Zenon, <1>3 DEF CreateBegin
  <2>2. \A a : AddrIs(procs, a) => AddrIs(procs', a)
    BY Zenon, <2>1
  <2> HIDE DEF D
  <2> QED
    BY Zenon, <1>1, <1>2, <2>1, <2>2, FailClean
<1>4. CASE ~walletDB
  <2>1. Goto(r, Tail(c)) /\ procs' = procs \cup {q}
    BY Zenon, <1>4 DEF CreateBegin, Succeed
  <2>2. /\ c \in Seq(Typed) /\ c # <<>> /\ c[1].do \in D
        /\ Runs(os, last[r[1]].op, c, buf[r], temp, procs, walletDB) /\ Busy(r)
    BY Zenon, <1>1, Here
  <2>3. q.up /\ q.kind = "create"
    BY SMT DEF Spawned
  <2> HIDE DEF c, q
  <2>4. Tail(c) # <<>> /\ Runs(os, last[r[1]].op, Tail(c), buf[r], temp, procs', walletDB)
    BY Zenon, <2>1, <2>2, <2>3, <1>CreateRuns
  <2>5. os' = os /\ temp' = temp /\ buf' = buf /\ last' = last /\ requests' = requests
    BY Zenon, <1>2
  <2>6. Runs(os, last[r[1]].op, Tail(c), buf'[r], temp', procs', walletDB')
    BY Zenon, <1>2, <2>4, <2>5
  <2> QED
    BY Zenon, <2>1, <2>2, <2>4, <2>5, <2>6, Advance
<1> QED
  BY Zenon, <1>3, <1>4

\* And ends, or was killed.
LEMMA CreatedClean == ASSUME TypeInv, CleanInv, clean, NEW r \in Routines, CreateEnd(r) PROVE CleanInv'
<1> DEFINE D == {"created"}
<1>1. At(r, D) /\ D \subseteq Neutral /\ D \subseteq Neutral \ {"create", "walletExists"}
  BY Zenon DEF CreateEnd, Neutral
<1>2. UNCHANGED <<os, temp, buf, last, requests>> /\ walletDB \in BOOLEAN
  BY Zenon DEF CreateEnd, TypeInv, TypeOK
<1>3. procs' \subseteq procs /\ \A p \in procs \ procs' : p.kind = "create"
  BY Zenon DEF CreateEnd
<1>4. Keeps(walletDB, procs, procs')
  BY Zenon, <1>3, KeepsOthers
<1>5. (Succeed(r) \/ Fail(r)) /\ (walletDB' = TRUE \/ walletDB' = walletDB)
  BY Zenon DEF CreateEnd
<1>6. code[r][1].do \in D
  BY Zenon, <1>1, AtHead
<1>7. code[r][1].do # "readAddr"
  BY Zenon, <1>6
<1>8. walletDB' \in BOOLEAN /\ (walletDB => walletDB')
  <2>1. walletDB' = TRUE \/ walletDB' = walletDB
    BY Zenon, <1>5
  <2>2. CASE walletDB' = TRUE
    BY Zenon, <2>2
  <2>3. CASE walletDB' = walletDB
    BY Zenon, <1>2, <2>3
  <2> QED
    BY Zenon, <2>1, <2>2, <2>3
<1>9. \A a : AddrIs(procs, a) => AddrIs(procs', a)
  BY Zenon, <1>4 DEF Keeps
<1> HIDE DEF D
<1>10. CASE Succeed(r)
  BY Zenon, <1>1, <1>2, <1>4, <1>7, <1>8, <1>10, NeutralClean
<1>11. CASE Fail(r)
  BY Zenon, <1>1, <1>2, <1>9, <1>11, FailClean
<1> QED
  BY Zenon, <1>5, <1>10, <1>11

\* Login looks for wallet.db.
LEMMA ExistsClean == ASSUME TypeInv, CleanInv, clean, NEW r \in Routines, WalletExists(r) PROVE CleanInv'
\* Login found wallet.db.
<1>ExistsRuns.
      ASSUME NEW o, NEW op, NEW c \in Seq(Typed), c # <<>>, c[1].do = "walletExists", NEW b, NEW t, NEW P,
             Runs(o, op, c, b, t, P, TRUE)
      PROVE  Tail(c) # <<>> /\ Runs(o, op, Tail(c), b, t, P, TRUE)
  <2> USE <1>ExistsRuns
  <2>0. Goes(c) /\ c[1].do \in Neutral
    BY Zenon DEF Goes, ToRestart, Neutral
  <2>1. Left(o, op, c) /\ Point(o, c, b, t, P) /\ Serve(op, c, P, TRUE)
    BY Zenon, <2>0, LeftOfRuns
  <2>2. Point(o, Tail(c), b, t, P)
    BY Zenon, <2>0, <2>1, NeutralPoint
  <2>3. Serve(op, Tail(c), P, TRUE)
    BY Zenon, <2>1, ServeExists
  <2> QED
    BY Zenon, <2>1, <2>2, <2>3, TailRuns

<1> DEFINE c == code[r]
           D == {"walletExists"}
<1>1. At(r, D) /\ "await" \notin D /\ D \subseteq Neutral
  BY Zenon DEF WalletExists, Neutral
<1>2. UNCHANGED <<os, procs, walletDB, temp, buf, last, requests>>
  BY Zenon DEF WalletExists
<1>3. CASE walletDB
  <2>1. Goto(r, Tail(c))
    BY Zenon, <1>3 DEF WalletExists, Succeed
  <2>2. /\ c \in Seq(Typed) /\ c # <<>> /\ c[1].do \in D
        /\ Runs(os, last[r[1]].op, c, buf[r], temp, procs, walletDB) /\ Busy(r) /\ walletDB \in BOOLEAN
    BY Zenon, <1>1, Here
  <2> HIDE DEF c
  <2>3. walletDB = TRUE
    BY Zenon, <1>3, <2>2
  <2>4. Tail(c) # <<>> /\ Runs(os, last[r[1]].op, Tail(c), buf[r], temp, procs, walletDB)
    BY Zenon, <2>2, <2>3, <1>ExistsRuns
  <2> QED
    BY Zenon, <1>2, <2>1, <2>2, <2>4, AdvancePlain
<1>4. CASE ~walletDB
  <2>1. Fail(r)
    BY Zenon, <1>4 DEF WalletExists
  <2>2. \A a : AddrIs(procs, a) => AddrIs(procs', a)
    BY Zenon, <1>2
  <2>3. UNCHANGED <<os, temp, buf, last, requests>>
    BY Zenon, <1>2
  <2> HIDE DEF D
  <2> QED
    BY Zenon, <1>1, <2>1, <2>2, <2>3, FailClean
<1> QED
  BY Zenon, <1>3, <1>4

\* wallet.db and the block database are removed.
LEMMA RemoveClean ==
    ASSUME TypeInv, CleanInv, clean, clean', NEW r \in Routines, RemoveWalletDB(r) \/ RemoveMainnetDirectory(r)
    PROVE  CleanInv'
<1> DEFINE D == {"removeDB", "removeMainnet"}
<1>1. At(r, D) /\ D \subseteq Neutral /\ D \subseteq Neutral \ {"create", "walletExists"}
  BY Zenon DEF RemoveWalletDB, RemoveMainnetDirectory, Neutral, At
<1>2. UNCHANGED <<os, temp, buf, last, requests>> /\ procs' = procs /\ walletDB \in BOOLEAN
  BY Zenon DEF RemoveWalletDB, RemoveMainnetDirectory, TypeInv, TypeOK
<1>3. \/ Succeed(r) /\ walletDB' = FALSE /\ code[r][1].do = "removeDB"
      \/ (Succeed(r) \/ Fail(r)) /\ walletDB' = walletDB
  <2>1. CASE RemoveWalletDB(r)
    <3>1. At(r, {"removeDB"})
      BY Zenon, <2>1 DEF RemoveWalletDB
    <3>2. code[r][1].do \in {"removeDB"}
      BY Zenon, <3>1, AtHead
    <3> QED
      BY Zenon, <2>1, <3>2 DEF RemoveWalletDB, Fault
  <2>2. CASE RemoveMainnetDirectory(r)
    BY Zenon, <2>2 DEF RemoveMainnetDirectory
  <2> QED
    BY Zenon, <2>1, <2>2
<1>4. Keeps(walletDB, procs, procs') /\ \A a : AddrIs(procs, a) => AddrIs(procs', a)
  BY Zenon, <1>2, KeepsSame
<1>5. code[r][1].do \in D
  BY Zenon, <1>1, AtHead
<1>6. code[r][1].do # "readAddr"
  BY Zenon, <1>5
<1>7. /\ walletDB' \in BOOLEAN
      /\ Succeed(r) /\ ~Fail(r) /\ walletDB => walletDB' \/ code[r][1].do = "removeDB"
  BY Zenon, <1>2, <1>3
<1> HIDE DEF D
<1>8. CASE Succeed(r) /\ ~Fail(r)
  BY Zenon, <1>1, <1>2, <1>4, <1>6, <1>7, <1>8, NeutralClean
<1>9. CASE Fail(r)
  BY Zenon, <1>1, <1>2, <1>4, <1>9, FailClean
<1> QED
  BY Zenon, <1>3, <1>8, <1>9

\* Calls that only change a flag of the processes.
LEMMA UnlockKeeps ==
    ASSUME procs \subseteq Process, NEW u \in BOOLEAN, SetUnlocked(u)
    PROVE  \A w : Keeps(w, procs, procs')
<1> DEFINE g == [p \in procs |-> IF p.kind = "btcwallet" THEN [p EXCEPT !.unlocked = u] ELSE p]
<1>1. ASSUME NEW p \in procs PROVE Like(p, g[p])
  <2>1. p \in Process
    BY Zenon
  <2>2. CASE p.kind = "btcwallet"
    <3>1. g[p] = [p EXCEPT !.unlocked = u]
      BY Zenon, <2>2
    <3> HIDE DEF g
    <3> QED
      BY SMT, <2>1, <3>1 DEF Like, Process
  <2>3. CASE p.kind # "btcwallet"
    <3>1. g[p] = p
      BY Zenon, <2>3
    <3> QED
      BY Zenon, <3>1 DEF Like
  <2> QED
    BY Zenon, <2>2, <2>3
<1>2. (\A p \in procs : g[p] \in procs') /\ \A q \in procs' : \E p \in procs : q = g[p]
  BY Zenon DEF SetUnlocked
<1> HIDE DEF g
<1> QED
  BY Zenon, <1>1, <1>2, KeepsFlags

\* Calls of btcctl.
LEMMA CallClean ==
    ASSUME TypeInv, CleanInv, clean, NEW r \in Routines,
           CallFails(r) \/ Call(r) \/ GenerateBegin(r) \/ GenerateEnd(r)
    PROVE  CleanInv'
\* btcd begins and ends to mine.
<1>MiningKeeps.
      ASSUME procs \subseteq Process, NEW X, X \subseteq procs, NEW u \in BOOLEAN,
             procs' = (procs \ X) \cup {[p EXCEPT !.mining = u] : p \in X}
      PROVE  \A w : Keeps(w, procs, procs')
  <2> USE <1>MiningKeeps
  <2> DEFINE g == [p \in procs |-> IF p \in X THEN [p EXCEPT !.mining = u] ELSE p]
  <2>1. ASSUME NEW p \in procs PROVE Like(p, g[p])
    <3>1. p \in Process
      BY Zenon
    <3>2. CASE p \in X
      <4>1. g[p] = [p EXCEPT !.mining = u]
        BY Zenon, <3>2
      <4> HIDE DEF g
      <4> QED
        BY SMT, <3>1, <4>1 DEF Like, Process
    <3>3. CASE p \notin X
      <4>1. g[p] = p
        BY Zenon, <3>3
      <4> QED
        BY Zenon, <4>1 DEF Like
    <3> QED
      BY Zenon, <3>2, <3>3
  <2>2. ASSUME NEW p \in procs PROVE g[p] \in procs'
    BY Zenon
  <2>3. ASSUME NEW q \in procs' PROVE \E p \in procs : q = g[p]
    BY Zenon
  <2> HIDE DEF g
  <2> QED
    BY Zenon, <2>1, <2>2, <2>3, KeepsFlags

<1> DEFINE D == Calls \cup {"generate"}
<1>1. At(r, D) /\ D \subseteq Neutral /\ D \subseteq Neutral \ {"create", "walletExists"}
  BY Zenon DEF CallFails, Call, GenerateBegin, GenerateEnd, Calls, Neutral, At
<1>2. UNCHANGED <<os, temp, buf, last, requests>> /\ walletDB' = walletDB
  BY Zenon DEF CallFails, Call, GenerateBegin, GenerateEnd
<1>3. procs \subseteq Process /\ walletDB \in BOOLEAN
  BY Zenon DEF TypeInv, TypeOK
<1>4. walletDB' \in BOOLEAN /\ (walletDB => walletDB')
  BY Zenon, <1>2, <1>3
<1>5. code[r][1].do # "readAddr"
  <2>1. code[r][1].do \in D
    BY Zenon, <1>1, AtHead
  <2> QED
    BY Zenon, <2>1 DEF Calls
<1> HIDE DEF D
<1>6. ASSUME Succeed(r), Keeps(walletDB, procs, procs') PROVE CleanInv'
  BY Zenon, <1>1, <1>2, <1>4, <1>5, <1>6, NeutralClean
<1>7. CASE CallFails(r)
  <2>1. Fail(r) /\ procs' = procs
    BY Zenon, <1>7 DEF CallFails
  <2>2. \A a : AddrIs(procs, a) => AddrIs(procs', a)
    BY Zenon, <2>1
  <2> QED
    BY Zenon, <1>1, <1>2, <2>1, <2>2, FailClean
<1>8. CASE Call(r)
  <2>1. Succeed(r) /\ (SetUnlocked(TRUE) \/ SetUnlocked(FALSE) \/ procs' = procs)
    BY Zenon, <1>8 DEF Call
  <2>2. Keeps(walletDB, procs, procs')
    BY Zenon, <1>3, <2>1, UnlockKeeps, KeepsSame
  <2> QED
    BY Zenon, <1>6, <2>1, <2>2
<1>9. CASE GenerateBegin(r)
  <2>1. PICK p \in Up("btcd") : procs' = (procs \ {p}) \cup {[p EXCEPT !.mining = TRUE]}
    BY Zenon, <1>9 DEF GenerateBegin
  <2>2. {p} \subseteq procs
    BY Zenon DEF Up
  <2>3. procs' = (procs \ {p}) \cup {[q EXCEPT !.mining = TRUE] : q \in {p}}
    BY Zenon, <2>1
  <2>4. Keeps(walletDB, procs, procs')
    BY Zenon, <1>3, <2>2, <2>3, <1>MiningKeeps
  <2>5. Succeed(r)
    BY Zenon, <1>9 DEF GenerateBegin
  <2> QED
    BY Zenon, <1>6, <2>4, <2>5
<1>10. CASE GenerateEnd(r)
  <2>1. procs' = {[p EXCEPT !.mining = FALSE] : p \in procs} /\ Succeed(r)
    BY Zenon, <1>10 DEF GenerateEnd
  <2>2. procs' = (procs \ procs) \cup {[p EXCEPT !.mining = FALSE] : p \in procs}
    BY Zenon, <2>1
  <2>3. procs \subseteq procs
    BY Zenon
  <2>4. Keeps(walletDB, procs, procs')
    BY Zenon, <1>3, <2>2, <2>3, <1>MiningKeeps
  <2> QED
    BY Zenon, <1>6, <2>1, <2>4
<1> QED
  BY Zenon, <1>7, <1>8, <1>9, <1>10

\* GetMiningStatus.
LEMMA MiningClean == ASSUME TypeInv, CleanInv, clean, NEW r \in Routines, CheckMining(r) PROVE CleanInv'
\* StartMining and StopMining find nothing to do.
<1>NothingRuns.
      ASSUME NEW op, NEW c \in Seq(Typed), c # <<>>, NEW b, NEW t, NEW P, NEW w, Runs(os, op, c, b, t, P, w),
             c[1].do \in {"ifIdle", "ifMining"}
      PROVE  Return("nothing to do") # <<>> /\ Runs(os, op, Return("nothing to do"), b, t, P, w)
  <2> USE <1>NothingRuns
  <2> DEFINE d == Return("nothing to do")
  <2>1. "nothing to do" \in Results /\ "nothing to do" # "ok"
    BY Zenon DEF Results
  <2>2. Gives(d) /\ ~Has(d, Oks)
    BY Zenon, <2>1, HandlerCode
  <2> HIDE DEF d
  <2>3. Point(os, c, b, t, P)
    BY Zenon, LeftOfRuns
  <2>4. t # Truncated /\ AddrIs(P, t.miningaddr)
    BY Zenon, <2>3 DEF Point, StopsIfRunning
  <2>5. d # <<>> /\ Runs(os, op, d, b, t, P, w)
    BY Zenon, <2>2, <2>4, GivesRuns
  <2> QED
    BY Zenon, <2>5 DEF d

<1> DEFINE D == {"ifIdle", "ifMining"}
           c == code[r]
<1>1. At(r, D) /\ "await" \notin D /\ D \subseteq Neutral \ {"create", "walletExists"}
  BY Zenon DEF CheckMining, Neutral
<1>2. UNCHANGED <<os, procs, walletDB, temp, buf, last, requests>>
  BY Zenon DEF CheckMining
<1>3. /\ c \in Seq(Typed) /\ c # <<>> /\ c[1].do \in D
      /\ Runs(os, last[r[1]].op, c, buf[r], temp, procs, walletDB) /\ Busy(r) /\ walletDB \in BOOLEAN
  BY Zenon, <1>1, Here
<1>4. CASE Succeed(r)
  <2>1. /\ UNCHANGED <<os, temp, buf, last, requests>> /\ Keeps(walletDB, procs, procs')
        /\ walletDB' \in BOOLEAN /\ (walletDB => walletDB')
    BY Zenon, <1>2, <1>3, KeepsSame
  <2>2. code[r][1].do # "readAddr"
    BY Zenon, <1>3
  <2> HIDE DEF D
  <2> QED
    BY Zenon, <1>1, <1>4, <2>1, <2>2, NeutralClean
<1>5. CASE Goto(r, Return("nothing to do"))
  <2>1. /\ Return("nothing to do") # <<>>
        /\ Runs(os, last[r[1]].op, Return("nothing to do"), buf[r], temp, procs, walletDB)
    BY Zenon, <1>3, <1>NothingRuns
  <2> QED
    BY Zenon, <1>2, <1>3, <1>5, <2>1, AdvancePlain
<1> QED
  BY Zenon, <1>4, <1>5 DEF CheckMining

-----------------------------------------------------------------------------
(* The temp file.                                                           *)

\* A file that was written is not an empty one.
LEMMA Parses == \A b \in Contents : b # Truncated
<1>1. Blank # "truncated"
  BY Zenon DEF Blank
<1> QED
  BY SMT, <1>1 DEF Contents, Truncated

\* updateTempFile reads the file.
LEMMA UpdateClean == ASSUME TypeInv, CleanInv, clean, NEW r \in Routines, ReadForUpdate(r) PROVE CleanInv'
\* updateTempFile has read the file.
<1>UpdateRuns.
      ASSUME NEW o, NEW op, NEW c \in Seq(Typed), c # <<>>, c[1].do \in Updates, NEW b, NEW t, NEW P, NEW w \in BOOLEAN,
             Runs(o, op, c, b, t, P, w), NEW e,
             IF c[1].do = "miningaddr" THEN e.miningaddr = c[1].arg ELSE e.miningaddr = t.miningaddr
      PROVE  Tail(c) # <<>> /\ Runs(o, op, Tail(c), e, t, P, w)
  <2> USE <1>UpdateRuns
  <2>0. Goes(c) /\ c[1].do \notin {"walletExists", "startBtcd", "startBtcwallet", "kill", "killIfRunning"}
    BY Zenon DEF Goes, ToRestart, Updates
  <2>1. Left(o, op, c) /\ Point(o, c, b, t, P) /\ Serve(op, c, P, w) /\ OpShape(op, c)
    BY Zenon, <2>0, LeftOfRuns
  <2>2. Serve(op, Tail(c), P, w)
    BY Zenon, <2>0, <2>1, ServeTail, KeepsSame
  <2>3. Ahead(o, c) /\ Tail(c)[1] = c[2] /\ (Len(c) > 2 => Tail(c)[2] = c[3])
    BY Zenon, <2>1, LeftFacts
  <2>4. Tail(c)[1].do = "truncate" /\ Tail(c)[2].do = "write"
    BY Zenon, <2>3 DEF Ahead
  <2>5. t # Truncated /\ AddrIs(P, e.miningaddr)
    BY Zenon, <2>1 DEF Point, Updates, StopsIfRunning
  <2>6. Point(o, Tail(c), e, t, P)
    BY Zenon, <2>4, <2>5 DEF Point
  <2> QED
    BY Zenon, <2>1, <2>2, <2>6, TailRuns

<1> DEFINE D == {"miningaddr", "originalBalance", "status"}
           c == code[r]
           e == CASE Head(code[r]).do = "miningaddr"      -> [temp EXCEPT !.miningaddr = Arg(r)]
                  [] Head(code[r]).do = "originalBalance" -> [temp EXCEPT !.originalBalance = Arg(r)]
                  [] OTHER                                -> temp
<1>1. At(r, D) /\ "await" \notin D
  BY Zenon DEF ReadForUpdate
<1>2. os' = os /\ procs' = procs /\ walletDB' = walletDB /\ temp' = temp /\ last' = last /\ requests' = requests
  BY Zenon DEF ReadForUpdate
<1>3. /\ c \in Seq(Typed) /\ c # <<>> /\ Head(c) = c[1] /\ c[1].do \in D /\ Arg(r) = c[1].arg
      /\ Runs(os, last[r[1]].op, c, buf[r], temp, procs, walletDB) /\ Busy(r) /\ walletDB \in BOOLEAN
  BY Zenon, <1>1, Here
<1>4. temp # Truncated
  <2>1. Point(os, c, buf[r], temp, procs)
    BY Zenon, <1>3 DEF Runs
  <2> QED
    BY Zenon, <1>3, <2>1 DEF Point
<1>5. Goto(r, Tail(c)) /\ buf' = [buf EXCEPT ![r] = e]
  BY Zenon, <1>4 DEF ReadForUpdate, Succeed
<1>6. temp \in Contents /\ buf \in [Routines -> Contents]
  BY Zenon, <1>4 DEF TypeInv, TypeOK
<1>7. IF c[1].do = "miningaddr" THEN e.miningaddr = c[1].arg ELSE e.miningaddr = temp.miningaddr
  <2>1. CASE c[1].do = "miningaddr"
    <3>1. e = [temp EXCEPT !.miningaddr = c[1].arg]
      BY Zenon, <1>3, <2>1
    <3> HIDE DEF e
    <3>2. e.miningaddr = c[1].arg
      BY SMT, <1>6, <3>1 DEF Contents
    <3> QED
      BY Zenon, <2>1, <3>2
  <2>2. CASE c[1].do = "originalBalance"
    <3>1. e = [temp EXCEPT !.originalBalance = c[1].arg]
      BY Zenon, <1>3, <2>2
    <3> HIDE DEF e
    <3>2. e.miningaddr = temp.miningaddr
      BY SMT, <1>6, <3>1 DEF Contents
    <3> QED
      BY Zenon, <2>2, <3>2
  <2>3. CASE c[1].do = "status"
    <3>1. e = temp
      BY Zenon, <1>3, <2>3
    <3> QED
      BY Zenon, <2>3, <3>1
  <2> QED
    BY Zenon, <1>3, <2>1, <2>2, <2>3
<1> HIDE DEF e
<1>8. buf'[r] = e
  BY Zenon, <1>5, <1>6
<1>9. Tail(c) # <<>> /\ Runs(os, last[r[1]].op, Tail(c), e, temp, procs, walletDB)
  <2>1. c[1].do \in Updates
    BY Zenon, <1>3 DEF Updates
  <2> HIDE DEF c
  <2> QED
    BY Zenon, <1>3, <1>7, <2>1, <1>UpdateRuns
<1>10. Runs(os, last[r[1]].op, Tail(c), buf'[r], temp', procs', walletDB')
  BY Zenon, <1>2, <1>8, <1>9
<1> HIDE DEF c
<1> QED
  BY Zenon, <1>2, <1>3, <1>5, <1>9, <1>10, Advance

\* initializeTempFile makes the new content.
LEMMA InitTempClean == ASSUME TypeInv, CleanInv, clean, NEW r \in Routines, InitTemp(r) PROVE CleanInv'
\* setupTempFilePath starts over with an empty file.
<1>InitTempRuns.
      ASSUME NEW o, NEW op, NEW c \in Seq(Typed), c # <<>>, c[1].do = "initTemp", NEW b, NEW t, NEW P, NEW w \in BOOLEAN,
             Runs(o, op, c, b, t, P, w), NEW e
      PROVE  Tail(c) # <<>> /\ Runs(o, op, Tail(c), e, t, P, w)
  <2> USE <1>InitTempRuns
  <2>0. Goes(c) /\ c[1].do \notin {"walletExists", "startBtcd", "startBtcwallet", "kill", "killIfRunning"}
    BY Zenon DEF Goes, ToRestart
  <2>1. Left(o, op, c) /\ Point(o, c, b, t, P) /\ Serve(op, c, P, w) /\ OpShape(op, c)
    BY Zenon, <2>0, LeftOfRuns
  <2>2. Serve(op, Tail(c), P, w)
    BY Zenon, <2>0, <2>1, ServeTail, KeepsSame
  <2>3. /\ Ahead(o, c) /\ Tail(c)[1] = c[2] /\ (Len(c) > 2 => Tail(c)[2] = c[3]) /\ (Len(c) > 3 => Tail(c)[3] = c[4])
        /\ (Len(Tail(c)) > 2 <=> Len(c) > 3)
    BY Zenon, <2>1, LeftFacts
  <2>4. /\ Tail(c)[1].do = "truncate" /\ Tail(c)[2].do = "write" /\ Len(Tail(c)) > 2 /\ StopsIfRunning(Tail(c)[3])
    BY Zenon, <2>3 DEF Ahead
  <2>5. t # Truncated
    BY Zenon, <2>1 DEF Point
  <2>6. Point(o, Tail(c), e, t, P)
    BY Zenon, <2>4, <2>5 DEF Point
  <2> QED
    BY Zenon, <2>1, <2>2, <2>6, TailRuns

<1> DEFINE D == {"initTemp"}
           c == code[r]
<1>1. At(r, D) /\ "await" \notin D
  BY Zenon DEF InitTemp
<1>2. /\ os' = os /\ procs' = procs /\ walletDB' = walletDB /\ temp' = temp /\ last' = last /\ requests' = requests
      /\ Goto(r, Tail(c))
  BY Zenon DEF InitTemp, Succeed
<1>3. /\ c \in Seq(Typed) /\ c # <<>> /\ c[1].do \in D
      /\ Runs(os, last[r[1]].op, c, buf[r], temp, procs, walletDB) /\ Busy(r) /\ walletDB \in BOOLEAN
  BY Zenon, <1>1, Here
<1> HIDE DEF c
<1>4. Tail(c) # <<>> /\ Runs(os, last[r[1]].op, Tail(c), buf'[r], temp, procs, walletDB)
  BY Zenon, <1>3, <1>InitTempRuns
<1>5. Runs(os, last[r[1]].op, Tail(c), buf'[r], temp', procs', walletDB')
  BY Zenon, <1>2, <1>4
<1> QED
  BY Zenon, <1>2, <1>3, <1>4, <1>5, Advance

\* os.WriteFile.
LEMMA WriteClean == ASSUME TypeInv, CleanInv, clean, clean', NEW r \in Routines, WriteTemp(r) PROVE CleanInv'
\* os.WriteFile truncates the file, and then writes it.
<1>TruncateRuns.
      ASSUME NEW o, NEW op, NEW c \in Seq(Typed), c # <<>>, c[1].do = "truncate", NEW b, NEW t, NEW P, NEW w \in BOOLEAN,
             Runs(o, op, c, b, t, P, w), NEW u
      PROVE  Tail(c) # <<>> /\ Runs(o, op, Tail(c), b, u, P, w)
  <2> USE <1>TruncateRuns
  <2>0. Goes(c) /\ c[1].do \notin {"walletExists", "startBtcd", "startBtcwallet", "kill", "killIfRunning"}
    BY Zenon DEF Goes, ToRestart
  <2>1. Left(o, op, c) /\ Point(o, c, b, t, P) /\ Serve(op, c, P, w) /\ OpShape(op, c)
    BY Zenon, <2>0, LeftOfRuns
  <2>2. Serve(op, Tail(c), P, w)
    BY Zenon, <2>0, <2>1, ServeTail, KeepsSame
  <2>3. /\ Ahead(o, c) /\ Tail(c)[1] = c[2] /\ (Len(c) > 2 => Tail(c)[2] = c[3])
        /\ (Len(Tail(c)) > 1 <=> Len(c) > 2)
    BY Zenon, <2>1, LeftFacts
  <2>4. /\ Tail(c)[1].do = "write"
        /\ o = "windows" => ~(Len(Tail(c)) > 1 /\ Tail(c)[2].do = "removeMainnet")
    BY Zenon, <2>3 DEF Ahead
  <2>5. AddrIs(P, b.miningaddr) \/ (Len(Tail(c)) > 1 /\ StopsIfRunning(Tail(c)[2]))
    BY Zenon, <2>1, <2>3 DEF Point
  <2>6. Point(o, Tail(c), b, u, P)
    BY Zenon, <2>4, <2>5 DEF Point
  <2> QED
    BY Zenon, <2>1, <2>2, <2>6, TailRuns

\* The file has its new content.
<1>WriteRuns.
      ASSUME NEW o, NEW op, NEW c \in Seq(Typed), c # <<>>, c[1].do = "write", NEW b, NEW t, NEW P, NEW w \in BOOLEAN,
             Runs(o, op, c, b, t, P, w), b # Truncated, NEW e
      PROVE  Tail(c) # <<>> /\ Runs(o, op, Tail(c), e, b, P, w)
  <2> USE <1>WriteRuns
  <2>0. Goes(c) /\ c[1].do \notin {"walletExists", "startBtcd", "startBtcwallet", "kill", "killIfRunning"}
    BY Zenon DEF Goes, ToRestart
  <2>1. Left(o, op, c) /\ Point(o, c, b, t, P) /\ Serve(op, c, P, w) /\ OpShape(op, c)
    BY Zenon, <2>0, LeftOfRuns
  <2>2. Serve(op, Tail(c), P, w)
    BY Zenon, <2>0, <2>1, ServeTail, KeepsSame
  <2>3. Follows(c[1], c[2]) /\ Tail(c)[1] = c[2]
    BY Zenon, <2>1, LeftFacts
  <2>4. Plain(Tail(c))
    BY Zenon, <2>3 DEF Plain, Follows, Updates
  <2>5. AddrIs(P, b.miningaddr) \/ StopsIfRunning(c[2])
    BY Zenon, <2>1 DEF Point
  <2>6. Point(o, Tail(c), e, b, P)
    BY Zenon, <2>1, <2>4, <2>5, TailPlain
  <2> QED
    BY Zenon, <2>1, <2>2, <2>6, TailRuns

<1> DEFINE D == {"truncate", "write"}
           c == code[r]
<1>1. At(r, D) /\ "await" \notin D
  BY Zenon DEF WriteTemp
<1>2. /\ os' = os /\ procs' = procs /\ walletDB' = walletDB /\ last' = last /\ requests' = requests
      /\ Goto(r, Tail(c))
      /\ temp' = IF At(r, {"truncate"}) THEN Truncated ELSE buf[r]
      /\ buf' = IF At(r, {"truncate"}) THEN buf ELSE [buf EXCEPT ![r] = Initialized]
  BY Zenon DEF WriteTemp, Succeed, Fault
<1>3. /\ c \in Seq(Typed) /\ c # <<>> /\ Head(c) = c[1] /\ c[1].do \in D
      /\ Runs(os, last[r[1]].op, c, buf[r], temp, procs, walletDB) /\ Busy(r) /\ walletDB \in BOOLEAN
  BY Zenon, <1>1, Here
<1>4. At(r, {"truncate"}) <=> c[1].do = "truncate"
  BY Zenon, <1>3 DEF At
<1>5. buf \in [Routines -> Contents]
  BY Zenon DEF TypeInv, TypeOK
<1> HIDE DEF c
<1>6. Tail(c) # <<>> /\ Runs(os, last[r[1]].op, Tail(c), buf'[r], temp', procs, walletDB)
  <2>1. CASE c[1].do = "truncate"
    <3>1. buf' = buf
      BY Zenon, <1>2, <1>4, <2>1
    <3> QED
      BY Zenon, <1>3, <2>1, <3>1, <1>TruncateRuns
  <2>2. CASE c[1].do = "write"
    <3>1. temp' = buf[r]
      BY Zenon, <1>2, <1>4, <2>2
    <3>2. buf[r] # Truncated
      BY Zenon, <1>5, Parses
    <3> QED
      BY Zenon, <1>3, <2>2, <3>1, <3>2, <1>WriteRuns
  <2> QED
    BY Zenon, <1>3, <2>1, <2>2
<1>7. Runs(os, last[r[1]].op, Tail(c), buf'[r], temp', procs', walletDB')
  BY Zenon, <1>2, <1>6
<1> QED
  BY Zenon, <1>2, <1>3, <1>6, <1>7, Advance

\* getMiningAddressFromTemp.
LEMMA AddressClean == ASSUME TypeInv, CleanInv, clean, NEW r \in Routines, ReadAddress(r) PROVE CleanInv'
\* StopMining has read the address it mines for, or GetMiningStatus has nothing to do.
<1>RestartRuns.
      ASSUME NEW op, NEW c \in Seq(Typed), c # <<>>, NEW b, NEW t, NEW P, NEW w, Runs(os, op, c, b, t, P, w),
             c[1].do = "readAddr", t.miningaddr \in Addrs
      PROVE  RestartMining(t.miningaddr) # <<>> /\ Runs(os, op, RestartMining(t.miningaddr), b, t, P, w)
  <2> USE <1>RestartRuns
  <2> DEFINE d == RestartMining(t.miningaddr)
  <2>1. Point(os, c, b, t, P) /\ OpShape(op, c)
    BY Zenon, LeftOfRuns
  <2>2. op \notin StopOps \cup {"Login"}
    BY Zenon, <2>1, StrictHead
  <2>3. Begins(op, d)
    BY Zenon, <2>2, HandlerCode
  <2> HIDE DEF d
  <2>4. t # Truncated /\ AddrIs(P, t.miningaddr)
    BY Zenon, <2>1 DEF Point, StopsIfRunning
  <2>5. d # <<>> /\ Runs(os, op, d, b, t, P, w)
    BY Zenon, <2>3, <2>4, BeginRuns
  <2> QED
    BY Zenon, <2>5 DEF d

<1> DEFINE D == {"readAddr"}
           c == code[r]
<1>1. At(r, D) /\ "await" \notin D /\ D \subseteq Neutral /\ D \subseteq Neutral \ {"create", "walletExists"}
  BY Zenon DEF ReadAddress, Neutral
<1>2. UNCHANGED <<os, procs, walletDB, temp, buf, last, requests>>
  BY Zenon DEF ReadAddress
<1>3. /\ c \in Seq(Typed) /\ c # <<>> /\ c[1].do \in D /\ Arg(r) = c[1].arg
      /\ Runs(os, last[r[1]].op, c, buf[r], temp, procs, walletDB) /\ Busy(r) /\ walletDB \in BOOLEAN
  BY Zenon, <1>1, Here
<1>4. \/ Fail(r)
      \/ temp # Truncated /\ temp.miningaddr # Blank /\ Goto(r, RestartMining(temp.miningaddr))
      \/ c[1].arg # "restart" /\ Succeed(r)
  BY Zenon, <1>3 DEF ReadAddress
<1>5. /\ UNCHANGED <<os, temp, buf, last, requests>> /\ Keeps(walletDB, procs, procs')
      /\ walletDB' \in BOOLEAN /\ (walletDB => walletDB')
      /\ \A a : AddrIs(procs, a) => AddrIs(procs', a)
  BY Zenon, <1>2, <1>3, KeepsSame
<1>6. CASE Fail(r)
  <2> HIDE DEF D
  <2> QED
    BY Zenon, <1>1, <1>5, <1>6, FailClean
<1>7. CASE temp # Truncated /\ temp.miningaddr # Blank /\ Goto(r, RestartMining(temp.miningaddr))
  <2>1. temp \in Contents
    BY Zenon, <1>7 DEF TypeInv, TypeOK
  <2>2. temp.miningaddr \in Addrs
    BY SMT, <1>7, <2>1 DEF Contents
  <2>3. c[1].do = "readAddr"
    BY Zenon, <1>3
  <2>4. /\ RestartMining(temp.miningaddr) # <<>>
        /\ Runs(os, last[r[1]].op, RestartMining(temp.miningaddr), buf[r], temp, procs, walletDB)
    BY Zenon, <1>3, <2>2, <2>3, <1>RestartRuns
  <2> QED
    BY Zenon, <1>2, <1>3, <1>7, <2>4, AdvancePlain
<1>8. CASE c[1].arg # "restart" /\ Succeed(r)
  <2> HIDE DEF D
  <2> QED
    BY Zenon, <1>1, <1>5, <1>8, NeutralClean
<1> QED
  BY Zenon, <1>4, <1>6, <1>7, <1>8

-----------------------------------------------------------------------------
(* Requests arrive and are answered.                                        *)

\* The request is answered, and no goroutine is left.
LEMMA EndClean ==
    ASSUME TypeInv, CleanInv, clean, NEW r \in Routines, At(r, {"return"}),
           \A q \in Routines : code'[q] = <<>>, last'[r[1]].res = Arg(r),
           \A t \in Slots : last'[t].op = last[t].op /\ last'[t].num = last[t].num,
           UNCHANGED <<os, procs, walletDB, temp, requests>>
    PROVE  CleanInv'
\* An operation that answers "ok" has done what it promises.
<1>ReturnPromise.
      ASSUME NEW op, NEW c \in Seq(Typed), c # <<>>, c[1].do = "return", c[1].arg = "ok", OpShape(op, c),
             NEW P, P \subseteq Process, NEW w, Serve(op, c, P, w)
      PROVE  Promise(op, P, w)
  <2> USE <1>ReturnPromise
  <2> SUFFICES ASSUME op \in StopOps \cup {"Login"} PROVE Promise(op, P, w)
    BY Zenon DEF Promise
  <2>1. Len(c) \in Nat \ {0} /\ c[1] \in Typed
    BY Zenon, Popped
  <2>2. 1 \in 1 .. Len(c)
    BY SMT, <2>1
  <2>3. Len(c) = 1
    BY Zenon, <2>2 DEF OpShape, OneReturn
  <2>4. 1 .. Len(c) = {1}
    BY SMT, <2>3
  <2>5. \A B : Has(c, B) <=> c[1] \in B
    BY Zenon, <2>4 DEF Has
  <2>6. c[1] \in Oks
    BY Zenon, <2>1 DEF Typed, Oks
  <2>7. /\ \A d : d # "return" => c[1] \notin Does(d)
        /\ \A n : c[1] \notin Kills(n)
    BY Zenon DEF Does, Kills
  <2>8. /\ Has(c, Oks) /\ ~Has(c, Does("walletExists")) /\ ~Has(c, Does("startBtcd")) /\ ~Has(c, Does("startBtcwallet"))
        /\ ~Has(c, Kills("btcd")) /\ ~Has(c, Kills("btcwallet"))
    BY Zenon, <2>5, <2>6, <2>7
  <2>9. op = "Login" => w /\ Single(P, "btcd") /\ Single(P, "btcwallet")
    BY Zenon, <2>8 DEF Serve
  <2>10. ASSUME op \in StopOps, NEW p \in P PROVE ~p.up
    <3>1. NoneUp(P, "btcd") /\ NoneUp(P, "btcwallet") /\ NoneUp(P, "create")
      BY Zenon, <2>8, <2>10 DEF Serve
    <3>2. p \in Process
      BY Zenon
    <3>3. p.kind \in {"btcd", "btcwallet", "create"}
      BY SMT, <3>2 DEF Process
    <3> QED
      BY Zenon, <3>1, <3>3 DEF NoneUp
  <2> QED
    BY Zenon, <2>9, <2>10 DEF Promise

<1> DEFINE c == code[r]
           D == {"return"}
<1>1. "await" \notin D /\ At(r, D)
  BY Zenon
<1>2. /\ c \in Seq(Typed) /\ c # <<>> /\ c[1].do \in D /\ Arg(r) = c[1].arg /\ procs \subseteq Process
      /\ Runs(os, last[r[1]].op, c, buf[r], temp, procs, walletDB)
  BY Zenon, <1>1, Here
<1>3. os' = os /\ procs' = procs /\ walletDB' = walletDB /\ temp' = temp /\ requests' = requests
  BY Zenon
<1>4. temp # Truncated /\ AddrIs(procs, temp.miningaddr)
  <2>1. Point(os, c, buf[r], temp, procs)
    BY Zenon, <1>2 DEF Runs
  <2> QED
    BY Zenon, <1>2, <2>1 DEF Point, StopsIfRunning
<1>5. ASSUME NEW s \in Slots, last'[s].num = requests', last'[s].res = "ok"
      PROVE  Promise(last'[s].op, procs', walletDB')
  <2>1. last[s].num = requests
    BY Zenon, <1>3, <1>5
  <2>2. s = r[1]
    BY Zenon, <1>2, <2>1, SameSlot
  <2>3. c[1].arg = "ok" /\ c[1].do = "return"
    BY Zenon, <1>2, <1>5, <2>2
  <2>4. OpShape(last[s].op, c) /\ Serve(last[s].op, c, procs, walletDB)
    BY Zenon, <1>2, <2>2 DEF Runs
  <2> HIDE DEF c
  <2>5. Promise(last[s].op, procs, walletDB)
    BY Zenon, <1>2, <2>3, <2>4, <1>ReturnPromise
  <2> QED
    BY Zenon, <1>3, <2>5
<1>6. \A s \in Slots : code'[<<s, "job">>] = <<>>
  BY Zenon DEF Routines
<1>7. temp' # Truncated /\ AddrIs(procs', temp'.miningaddr)
  BY Zenon, <1>3, <1>4
<1> QED
  BY Zenon, <1>5, <1>6, <1>7 DEF CleanInv, Busy

\* A handler answers.
LEMMA AnswerClean == ASSUME TypeInv, CleanInv, clean, NEW r \in Routines, Answer(r) PROVE CleanInv'
<1>1. At(r, {"return"}) /\ r[2] = "http" /\ UNCHANGED <<os, procs, walletDB, temp, requests>>
  BY Zenon DEF Answer
<1>2. /\ r[1] \in Slots /\ last'[r[1]].res = Arg(r) /\ code'[r] = <<>>
      /\ \A q \in Routines : q # r => code'[q] = code[q]
      /\ \A t \in Slots : last'[t].op = last[t].op /\ last'[t].num = last[t].num
  BY Zenon, AnswerTypes
<1>3. code[r] # <<>> /\ code[r][1].do \in {"return"}
  BY Zenon, <1>1, AtHead DEF At
<1>4. code[r] # Await
  BY Zenon, <1>3, HandlerCode
<1>5. ASSUME NEW q \in Routines, q # r PROVE code[q] = <<>>
  <2> SUFFICES ASSUME code[q] # <<>> PROVE FALSE
    BY Zenon
  <2>1. q[1] \in Slots /\ q = <<q[1], q[2]>> /\ r = <<r[1], r[2]>> /\ q[2] \in {"http", "job"}
    BY SMT DEF Routines
  <2>2. last[q[1]].num = requests
    BY Zenon DEF CleanInv
  <2>3. q[1] = r[1]
    BY Zenon, <1>3, <2>1, <2>2, SameSlot
  <2>4. q = <<r[1], "job">> /\ r = <<r[1], "http">>
    <3>1. q[2] = "job"
      BY Zenon, <1>1, <1>5, <2>1, <2>3
    <3> QED
      BY Zenon, <1>1, <2>1, <2>3, <3>1
  <2>5. code[<<r[1], "http">>] = Await
    BY Zenon, <1>2, <2>4 DEF CleanInv
  <2> QED
    BY Zenon, <1>4, <2>4, <2>5
<1>6. \A q \in Routines : code'[q] = <<>>
  BY Zenon, <1>2, <1>5
<1> QED
  BY Zenon, <1>1, <1>2, <1>6, EndClean

\* CreateWallet hands over its result to SignupHandler.
LEMMA HandOverClean == ASSUME TypeInv, CleanInv, clean, NEW s \in Slots, HandOver(s) PROVE CleanInv'
<1> DEFINE j == <<s, "job">>
<1>1. j \in Routines /\ j[1] = s
  BY Zenon DEF Routines
<1>2. At(j, {"return"}) /\ UNCHANGED <<os, procs, walletDB, temp, requests>>
  BY Zenon DEF HandOver
<1>3. /\ last'[s].res = Arg(j)
      /\ code'[<<s, "http">>] = <<>> /\ code'[j] = <<>>
      /\ \A q \in Routines : q[1] # s => code'[q] = code[q]
      /\ \A t \in Slots : last'[t].op = last[t].op /\ last'[t].num = last[t].num
  BY Zenon, HandOverTypes
<1>4. code[j] # <<>>
  BY Zenon, <1>2 DEF At
<1> HIDE DEF j
<1>5. ASSUME NEW q \in Routines PROVE code'[q] = <<>>
  <2>1. q[1] \in Slots /\ q = <<q[1], q[2]>> /\ q[2] \in {"http", "job"}
    BY SMT DEF Routines
  <2>2. CASE q[1] = s
    BY Zenon, <1>3, <2>1, <2>2 DEF j
  <2>3. CASE q[1] # s
    <3>1. code[q] = <<>>
      <4> SUFFICES ASSUME code[q] # <<>> PROVE FALSE
        BY Zenon
      <4>1. last[q[1]].num = requests
        BY Zenon DEF CleanInv
      <4> QED
        BY Zenon, <1>1, <1>4, <2>1, <2>3, <4>1, SameSlot
    <3> QED
      BY Zenon, <1>3, <2>3, <3>1
  <2> QED
    BY Zenon, <2>2, <2>3
<1>6. last'[j[1]].res = Arg(j)
  BY Zenon, <1>1, <1>3
<1> QED
  BY Zenon, <1>1, <1>2, <1>3, <1>5, <1>6, EndClean

\* A request arrives while no other is served.
LEMMA ArriveClean ==
    ASSUME TypeInv, CleanInv, clean, clean', NEW s \in Slots, NEW op \in Ops, NEW addr \in Addrs, Arrive(s, op, addr)
    PROVE  CleanInv'
<1> DEFINE h == <<s, "http">>
           j == <<s, "job">>
<1>1. /\ code'[h] = Program(op, addr)
      /\ code'[j] = IF op = "Signup" THEN CreateWallet ELSE <<>>
      /\ \A r \in Routines : r # h /\ r # j => code'[r] = code[r]
      /\ last'[s].op = op /\ last'[s].res = Blank /\ last'[s].num = requests'
      /\ \A t \in Slots : last'[t].num = requests' => t = s
  BY Zenon, ArriveTypes
<1>2. /\ os' = os /\ procs' = procs /\ walletDB' = walletDB /\ temp' = temp /\ buf' = buf
      /\ \A r \in Routines : code[r] = <<>>
  BY Zenon DEF Arrive, Idle
<1>3. temp # Truncated /\ AddrIs(procs, temp.miningaddr)
  BY Zenon, <1>2 DEF CleanInv, Busy
<1>4. h \in Routines /\ j \in Routines /\ h # j /\ h[1] = s /\ j[1] = s
  BY Zenon DEF Routines
<1>5. ASSUME NEW t \in Slots, t # s PROVE code'[<<t, "job">>] = <<>>
  <2>1. <<t, "job">> \in Routines /\ <<t, "job">> # h /\ <<t, "job">> # j
    BY Zenon, <1>5 DEF Routines
  <2> QED
    BY Zenon, <1>1, <1>2, <2>1
<1>6. op = "Signup" => code'[h] = Await
  BY Zenon, <1>1, ProgramTyped
<1>7. op # "Signup" => code'[j] = <<>>
  BY Zenon, <1>1
<1>8. op # "Signup" => /\ code'[h] # <<>> /\ code'[h] # Await
                       /\ \A b : Runs(os, op, code'[h], b, temp, procs, walletDB)
  <2>1. op # "Signup" => Begins(op, Program(op, addr))
    BY Zenon, HandlerCode
  <2> QED
    BY Zenon, <1>1, <1>3, <2>1, BeginRuns
<1>9. op = "Signup" => /\ code'[j] # <<>> /\ code'[j] # Await
                       /\ \A b : Runs(os, op, code'[j], b, temp, procs, walletDB)
  <2>1. op = "Signup" => Begins(op, CreateWallet) /\ code'[j] = CreateWallet
    BY Zenon, <1>1, HandlerCode
  <2> QED
    BY Zenon, <1>3, <2>1, BeginRuns
<1>10. \A r \in Routines : code'[r] # <<>> => r = h \/ r = j
  BY Zenon, <1>1, <1>2
<1> HIDE DEF h, j
<1>11. \A r \in Routines : code'[r] # <<>> => last'[r[1]].num = requests' /\ last'[r[1]].res = Blank
  BY Zenon, <1>1, <1>4, <1>10
<1>12. ASSUME NEW t \in Slots, code'[<<t, "job">>] # <<>> PROVE code'[<<t, "http">>] = Await
  <2>1. t = s
    BY Zenon, <1>5, <1>12
  <2> QED
    BY Zenon, <1>6, <1>7, <1>12, <2>1 DEF h, j
<1>13. ASSUME NEW r \in Routines, code'[r] # <<>>, code'[r] # Await
       PROVE  Runs(os', last'[r[1]].op, code'[r], buf'[r], temp', procs', walletDB')
  <2>1. Runs(os, op, code'[r], buf[r], temp, procs, walletDB)
    <3>1. CASE op = "Signup"
      BY Zenon, <1>6, <1>9, <1>10, <1>13, <3>1
    <3>2. CASE op # "Signup"
      BY Zenon, <1>7, <1>8, <1>10, <1>13, <3>2
    <3> QED
      BY Zenon, <3>1, <3>2
  <2>2. last'[r[1]].op = op
    BY Zenon, <1>1, <1>4, <1>10, <1>13
  <2> QED
    BY Zenon, <1>2, <2>1, <2>2
<1>14. ~(\A r \in Routines : ~(code'[r] # <<>> /\ code'[r] # Await))
  BY Zenon, <1>4, <1>8, <1>9
<1>15. ASSUME NEW t \in Slots, last'[t].num = requests', last'[t].res = "ok" PROVE FALSE
  <2>1. t = s
    BY Zenon, <1>1, <1>15
  <2> QED
    BY Zenon, <1>1, <1>15, <2>1 DEF Blank
<1> QED
  BY Zenon, <1>11, <1>12, <1>13, <1>14, <1>15 DEF CleanInv, Busy

-----------------------------------------------------------------------------
(* The processes by themselves, and the whole.                              *)

\* A killed process ends, a second instance ends, btcwallet locks itself.
LEMMA MachineClean == ASSUME TypeInv, CleanInv, clean, Exit \/ Relock PROVE CleanInv'
<1>1. UNCHANGED <<os, walletDB, temp, code, buf, last, requests, clean>>
  BY Zenon DEF Exit, Relock
<1>2. procs \subseteq Process
  BY Zenon DEF TypeInv, TypeOK
<1>3. Keeps(walletDB, procs, procs')
  <2>1. CASE Exit
    <3>1. PICK p \in procs : Exits(p) /\ procs' = procs \ {p}
      BY Zenon, <2>1 DEF Exit
    <3>2. procs' \subseteq procs /\ \A x \in procs \ procs' : x = p
      BY Zenon, <3>1
    <3>3. ASSUME NEW k \in {"btcd", "btcwallet"}, p.kind = k, k = "btcwallet" => walletDB
          PROVE  ~p.up \/ \E q \in procs : q # p /\ q.kind = k
      BY Zenon, <3>1, <3>3 DEF Exits
    <3>4. \A k \in {"btcd", "btcwallet"} : \A x \in procs \ procs' :
              x.kind = k /\ (k = "btcwallet" => walletDB) => ~x.up \/ \E q \in procs : q # x /\ q.kind = k
      BY Zenon, <3>2, <3>3
    <3> QED
      BY Zenon, <3>2, <3>4, KeepsOthers
  <2>2. CASE Relock
    BY Zenon, <1>2, <2>2, UnlockKeeps DEF Relock
  <2> QED
    BY Zenon, <2>1, <2>2
<1> QED
  BY Zenon, <1>1, <1>3, Stay

\* Once two requests overlapped or something failed, it stays so.
LEMMA CleanBefore == [Next]_vars /\ clean' => clean
<1> SUFFICES ASSUME [Next]_vars, clean' PROVE clean
  BY Zenon
<1>1. CASE UNCHANGED vars
  BY Zenon, <1>1 DEF vars
<1>2. ASSUME NEW r \in Routines, RoutineStep(r) \/ CreateEnd(r) PROVE clean
  BY Zenon, <1>2 DEF RoutineStep, Answer, CheckAbsent, StartProcess, CheckPresent, StopProcess, CreateBegin,
     CreateEnd, WalletExists, RemoveWalletDB, RemoveMainnetDirectory, CallFails, Call, CheckMining, GenerateBegin,
     GenerateEnd, ReadForUpdate, InitTemp, WriteTemp, ReadAddress, Fault, NoFault
<1>3. ASSUME NEW s \in Slots, HandOver(s) \/ Timeout(s) PROVE clean
  BY Zenon, <1>3 DEF HandOver, Timeout
<1>4. ASSUME NEW s \in Slots, NEW op \in Ops, NEW addr \in Addrs, Arrive(s, op, addr) PROVE clean
  BY Zenon, <1>4 DEF Arrive
<1>5. CASE Exit \/ Relock \/ ProcessDies \/ Restart
  BY Zenon, <1>5 DEF Exit, Relock, ProcessDies, Restart, Fault
<1> QED
  BY Zenon, <1>1, <1>2, <1>3, <1>4, <1>5 DEF Next

\* The invariant holds at the start,
LEMMA CleanInit == Init => CleanInv
<1> SUFFICES ASSUME Init PROVE CleanInv
  BY Zenon
<1>1. procs = {} /\ temp = Initialized /\ \A r \in Routines : code[r] = <<>>
  BY Zenon DEF Init
<1>2. temp # Truncated /\ AddrIs(procs, temp.miningaddr)
  BY Zenon, <1>1, RecordTypes, Parses DEF AddrIs
<1>3. ASSUME NEW s \in Slots PROVE last[s].res # "ok" /\ code[<<s, "job">>] = <<>>
  <2>1. last[s] = [op |-> "none", res |-> Blank, num |-> 0]
    BY Zenon DEF Init
  <2>2. last[s].res = Blank
    BY SMT, <2>1
  <2>3. <<s, "job">> \in Routines
    BY Zenon DEF Routines
  <2> QED
    BY Zenon, <1>1, <2>2, <2>3 DEF Blank
<1> QED
  BY Zenon, <1>1, <1>2, <1>3 DEF CleanInv, Busy

\* and every step keeps it.
LEMMA CleanStep == TypeInv /\ CleanInv /\ [Next]_vars => CleanInv'
<1> SUFFICES ASSUME TypeInv, CleanInv, [Next]_vars, clean' PROVE CleanInv'
  BY Zenon DEF CleanInv
<1>0. clean
  BY Zenon, CleanBefore
<1>1. CASE UNCHANGED vars
  <2>1. UNCHANGED <<os, walletDB, temp, code, buf, last, requests, clean>> /\ procs' = procs
    BY Zenon, <1>1 DEF vars
  <2>2. Keeps(walletDB, procs, procs')
    BY Zenon, <2>1, KeepsSame
  <2> QED
    BY Zenon, <1>0, <2>1, <2>2, Stay
<1>2. CASE \E s \in Slots, op \in Ops, addr \in Addrs : Arrive(s, op, addr)
  BY Zenon, <1>0, <1>2, ArriveClean
<1>3. CASE \E s \in Slots : HandOver(s) \/ Timeout(s)
  <2>1. \A s \in Slots : ~Timeout(s)
    BY Zenon DEF Timeout
  <2> QED
    BY Zenon, <1>0, <1>3, <2>1, HandOverClean
<1>4. ASSUME NEW r \in Routines, RoutineStep(r) \/ CreateEnd(r) PROVE CleanInv'
  <2>1. CASE Answer(r) \/ CheckAbsent(r) \/ StartProcess(r) \/ CheckPresent(r) \/ StopProcess(r)
    BY Zenon, <1>0, <2>1, AnswerClean, AbsentClean, StartClean, PresentClean, StopClean
  <2>2. CASE CreateBegin(r) \/ CreateEnd(r) \/ WalletExists(r) \/ RemoveWalletDB(r) \/ RemoveMainnetDirectory(r)
    BY Zenon, <1>0, <2>2, CreateClean, CreatedClean, ExistsClean, RemoveClean
  <2>3. CASE CallFails(r) \/ Call(r) \/ CheckMining(r) \/ GenerateBegin(r) \/ GenerateEnd(r)
    BY Zenon, <1>0, <2>3, CallClean, MiningClean
  <2>4. CASE ReadForUpdate(r) \/ InitTemp(r) \/ WriteTemp(r) \/ ReadAddress(r)
    BY Zenon, <1>0, <2>4, UpdateClean, InitTempClean, WriteClean, AddressClean
  <2> QED
    BY Zenon, <1>4, <2>1, <2>2, <2>3, <2>4 DEF RoutineStep
<1>5. CASE Exit \/ Relock \/ ProcessDies \/ Restart
  <2>1. ~ProcessDies /\ ~Restart
    BY Zenon DEF ProcessDies, Restart, Fault
  <2> QED
    BY Zenon, <1>0, <1>5, <2>1, MachineClean
<1> QED
  BY Zenon, <1>1, <1>2, <1>3, <1>4, <1>5 DEF Next

\* The inductive invariant holds in every state.
LEMMA AlwaysInv == Spec => [](TypeInv /\ CleanInv)
  BY TypeInit, TypeStep, CleanInit, CleanStep, PTL DEF Spec

\* Without overlap and failure, when no request is being served the temp file is
\* whole and holds the address the running btcd mines for: StartBtcd and Logout
\* update it whenever they change btcd, on every path that returns.
THEOREM AddressAlwaysSerial == Spec => []SerialAddress
<1>1. TypeInv /\ CleanInv => SerialAddress
  BY Zenon DEF CleanInv, SerialAddress, Idle, Busy, AddrIs, Up
<1> QED
  BY AlwaysInv, <1>1, PTL

\* Without overlap and failure, an operation that answered "ok" left what it
\* says: Login a btcd and a btcwallet that run; Init, Signup, Logout and
\* DeleteAccount no process that runs.
THEOREM ResultAlwaysSerial == Spec => []SerialResult
<1>1. TypeInv /\ CleanInv => SerialResult
  <2> SUFFICES ASSUME CleanInv, clean, NEW s \in Slots, last[s].num = requests, last[s].res = "ok"
               PROVE  /\ last[s].op = "Login" => Up("btcd") # {} /\ Up("btcwallet") # {}
                      /\ last[s].op \in {"Init", "Signup", "Logout", "DeleteAccount"} => ~\E p \in procs : p.up
    BY Zenon DEF SerialResult
  <2>1. Promise(last[s].op, procs, walletDB)
    BY Zenon DEF CleanInv
  <2> QED
    BY Zenon, <2>1 DEF Promise, StopOps, Single, Up
<1> QED
  BY AlwaysInv, <1>1, PTL

\* Without overlap and failure, RemoveMainnet on Windows removes the block
\* database only after btcd was stopped.
THEOREM AlwaysRemovedWhenStopped == Spec => []RemovedWhenStopped
<1>1. TypeInv /\ CleanInv => RemovedWhenStopped
  <2> SUFFICES ASSUME TypeInv, CleanInv, clean, os = "windows", NEW r \in Routines, At(r, {"removeMainnet"})
               PROVE  Up("btcd") = {}
    BY Zenon DEF RemovedWhenStopped
  <2>1. "await" \notin {"removeMainnet"}
    BY Zenon
  <2>2. /\ code[r][1].do \in {"removeMainnet"}
        /\ Runs(os, last[r[1]].op, code[r], buf[r], temp, procs, walletDB)
    BY Zenon, <2>1, Here
  <2>3. NoneUp(procs, "btcd")
    BY Zenon, <2>2 DEF Runs, Point
  <2> QED
    BY Zenon, <2>3 DEF NoneUp, Up
<1> QED
  BY AlwaysInv, <1>1, PTL
=============================================================================
