---------------------------- MODULE WalletProofs ----------------------------
(***************************************************************************)
(* Proofs about Wallet: the shape of the code its handlers run, and the    *)
(* types of its state, whatever overlaps and fails.                        *)
(*                                                                         *)
(* A goroutine's state is the sequence of steps it has left, so that most  *)
(* of what there is to know about a handler is a property of a sequence:   *)
(* which step follows which (Shape), what an operation that promises       *)
(* something has in its code (OpShape) and that the code does it (Serve).  *)
(* HandlerCode proves them of all handlers and of what a failure leaves to *)
(* do; its helpers are steps of its proof.  WalletCleanProofs builds on it.*)
(***************************************************************************)
EXTENDS Wallet, TLAPS

\* Steps, by what they do.
Does(do)    == {x \in Steps : x.do = do}
Kills(name) == {x \in Steps : x.do \in {"kill", "killIfRunning"} /\ x.arg = name}
Oks         == {x \in Steps : x.do = "return" /\ x.arg = "ok"}
Updates     == {"miningaddr", "originalBalance", "status"}

\* Is one of B in the code; is each of A followed by one of B.
Has(c, B)      == \E i \in 1 .. Len(c) : c[i] \in B
Later(c, A, B) == \A i \in 1 .. Len(c) : c[i] \in A => \E j \in i + 1 .. Len(c) : c[j] \in B

\* Steps with the arguments their actions expect.
Typed == {x \in Steps : /\ x.do \in {"startBtcd", "miningaddr"} => x.arg \in Addrs \cup {Blank}
                        /\ x.do = "originalBalance" => x.arg \in {Blank, "balance"}
                        /\ x.do = "return" => x.arg \in Results
                        /\ x.do \in {"kill", "killIfRunning"} => x.arg \in {"btcd", "btcwallet"}}

\* What the code of the handlers has before a step: a process is started right
\* after it was found absent, looked for right after its start, and its address
\* stored right after that or after btcd was stopped; os.WriteFile truncates
\* right after the new content is made, and writes right after that.
Follows(x, y) ==
    /\ y.do # "await"
    /\ y.do = "startBtcd" => x.do = "absent" /\ x.arg = "btcd" /\ x.fail # "skip"
    /\ y.do = "startBtcwallet" => x.do = "absent" /\ x.arg = "btcwallet" /\ x.fail # "skip"
    /\ y.do = "present" => x.do \in {"startBtcd", "startBtcwallet"}
    /\ y.do = "miningaddr" => x.do \in {"present", "killIfRunning"} /\ x.arg = "btcd"
    /\ y.do = "truncate" => x.do \in Updates \cup {"initTemp"}
    /\ y.do = "write" => x.do = "truncate"

\* The first step of a StartBtcd that stops btcd when it finds one running.
StopsIfRunning(x) == x.do = "absent" /\ x.arg = "btcd" /\ x.fail \in {"stopBtcd", "stopBtcdWallet"}

\* What the code has after a step: StartBtcd stores the address it was given;
\* the temp file is initialised only right before a StartBtcd that stops a btcd
\* it finds.  On Windows both processes are stopped before the block database
\* is removed (RemoveMainnet).
ShapeAt(o, c, i) ==
    /\ i < Len(c) => Follows(c[i], c[i + 1])
    /\ c[i].do = "startBtcd" =>
           /\ i + 2 <= Len(c)
           /\ c[i + 1].do = "present" /\ c[i + 1].arg = "btcd"
           /\ c[i + 2].do = "miningaddr" /\ c[i + 2].arg = c[i].arg
    /\ c[i].do = "startBtcwallet" =>
           i + 1 <= Len(c) /\ c[i + 1].do = "present" /\ c[i + 1].arg = "btcwallet"
    /\ c[i].do \in Updates \cup {"initTemp"} =>
           i + 2 <= Len(c) /\ c[i + 1].do = "truncate" /\ c[i + 2].do = "write"
    /\ c[i].do = "truncate" => i + 1 <= Len(c) /\ c[i + 1].do = "write"
    /\ c[i].do = "initTemp" => i + 3 <= Len(c) /\ StopsIfRunning(c[i + 3])
    /\ o = "windows" =>
           /\ i < Len(c) /\ c[i + 1].do = "removeMainnet" => c[i].do = "kill"
           /\ i + 1 < Len(c) /\ c[i + 2].do = "removeMainnet" => c[i].do = "kill" /\ c[i].arg = "btcd"

\* The same everywhere.
Shape(o, c) == \A i \in 1 .. Len(c) : ShapeAt(o, c, i)

\* Code that can begin a handler or follow any of its parts.
Fresh(o, c) ==
    /\ Len(c) > 0 => c[1].do \notin {"startBtcd", "startBtcwallet", "present", "miningaddr",
                                    "truncate", "write", "await"}
    /\ o = "windows" => /\ Len(c) > 0 => c[1].do # "removeMainnet"
                        /\ Len(c) > 1 => c[2].do # "removeMainnet"

\* The parts the handlers are made of.
Good(o) == {c \in Seq(Typed) : Shape(o, c) /\ Fresh(o, c)}

\* The step of StopMining after which it restarts both processes.
ToRestart(x) == x.do = "readAddr" /\ x.arg = "restart" /\ x.fail # "skip"

\* Code that leads to an answer.
Ended(c) == c # <<>> /\ (c[Len(c)].do = "return" \/ ToRestart(c[Len(c)]))

\* The processes: none of a kind, none of it that is not dying, exactly one;
\* and every btcd mines for the address a.
None(P, kind)   == \A p \in P : p.kind # kind
NoneUp(P, kind) == \A p \in P : p.kind = kind => ~p.up
Single(P, kind) == \E p \in P : p.kind = kind /\ p.up /\ \A q \in P : q.kind = kind => q = p
AddrIs(P, a)    == \A p \in P : p.kind = "btcd" /\ p.up => p.addr = a

\* The operations that stop all processes.
StopOps == {"Init", "Signup", "Logout", "DeleteAccount"}

\* A failed step does not count as success, and is not passed over unless it is
\* a stop that finds no process.
Strict(c) == \A i \in 1 .. Len(c) :
    /\ c[i].fail # "done" /\ c[i].do # "readAddr"
    /\ c[i].fail = "skip" => c[i].do \in {"kill", "return"}

\* The answer is the last step.
OneReturn(c) == \A i \in 1 .. Len(c) : c[i].do = "return" => i = Len(c)

\* What an operation that promises something has in its code as long as it can
\* still answer "ok": Login starts btcd and btcwallet after the last stop, and
\* does not remove the wallet; the others stop what they start.
OpShape(op, c) ==
    op \in StopOps \cup {"Login"} =>
        /\ Strict(c) /\ OneReturn(c)
        /\ op = "Login" /\ Has(c, Oks) =>
               /\ ~Has(c, Does("removeDB"))
               /\ Later(c, Kills("btcd") \cup Kills("btcwallet"), Does("startBtcd"))
               /\ Later(c, Does("startBtcd"), Does("startBtcwallet"))
               /\ Later(c, Does("walletExists"), Does("startBtcwallet"))
        /\ op \in StopOps /\ Has(c, Oks) =>
               /\ Later(c, Does("startBtcd"), Kills("btcd"))
               /\ Later(c, Does("startBtcwallet") \cup Does("create"), Kills("btcwallet"))

\* What such an operation promises is true, or its code still does it.
Serve(op, c, P, w) ==
    /\ op = "Login" /\ Has(c, Oks) =>
           /\ ~Has(c, Does("walletExists")) => w
           /\ ~Has(c, Does("startBtcd")) => Single(P, "btcd")
           /\ ~Has(c, Does("startBtcwallet")) => Single(P, "btcwallet")
    /\ op \in StopOps /\ Has(c, Oks) =>
           /\ ~Has(c, Kills("btcd")) => NoneUp(P, "btcd")
           /\ ~Has(c, Kills("btcwallet")) => NoneUp(P, "btcwallet") /\ NoneUp(P, "create")

\* SignupHandler waits for CreateWallet.
Await == Step("await", Blank, "skip")

\* The types, and which request a goroutine serves.
TypeInv ==
    /\ TypeOK
    /\ code \in [Routines -> Seq(Typed)]
    /\ \A s \in Slots : last[s].num <= requests
    /\ \A s1, s2 \in Slots : last[s1].num = last[s2].num /\ last[s1].num # 0 => s1 = s2
    /\ \A r \in Routines : code[r] # <<>> => last[r[1]].num # 0

-----------------------------------------------------------------------------
(* Code as a sequence of steps.                                             *)

\* The steps of a handler's code.
LEMMA Items ==
    ASSUME NEW S, NEW c \in Seq(S)
    PROVE  Len(c) \in Nat /\ \A i \in 1 .. Len(c) : c[i] \in S
  BY SMT

\* What Succeed leaves to do.
LEMMA Popped ==
    ASSUME NEW S, NEW c \in Seq(S), c # <<>>
    PROVE  /\ Len(c) \in Nat \ {0} /\ Head(c) = c[1] /\ c[1] \in S
           /\ Tail(c) \in Seq(S) /\ Len(Tail(c)) = Len(c) - 1
           /\ \A i \in 1 .. Len(Tail(c)) : Tail(c)[i] = c[i + 1] /\ i + 1 \in 1 .. Len(c)
  BY SMT

\* What holds of every suffix of a handler's code holds of what is left.
LEMMA ShapeTail ==
    ASSUME NEW o, NEW c \in Seq(Steps), c # <<>>, Shape(o, c)
    PROVE  Shape(o, Tail(c))
<1> SUFFICES ASSUME NEW i \in 1 .. Len(Tail(c)) PROVE ShapeAt(o, Tail(c), i)
  BY Zenon DEF Shape
<1>1. ShapeAt(o, c, i + 1)
  BY SMT, Popped DEF Shape
<1> QED
  BY SMT, <1>1, Popped DEF ShapeAt

\* So does what follows what,
LEMMA LaterTail ==
    ASSUME NEW c \in Seq(Steps), c # <<>>, NEW A, NEW B, Later(c, A, B)
    PROVE  Later(Tail(c), A, B)
  BY SMT, Popped DEF Later

\* and what is still to be done.
LEMMA HasTail ==
    ASSUME NEW c \in Seq(Steps), c # <<>>, NEW B
    PROVE  Has(c, B) <=> Has(Tail(c), B) \/ c[1] \in B
<1>1. Has(Tail(c), B) => Has(c, B)
  BY SMT, Popped DEF Has
<1>2. c[1] \in B => Has(c, B)
  BY SMT, Popped DEF Has
<1>3. ASSUME Has(c, B), c[1] \notin B PROVE Has(Tail(c), B)
  <2>1. PICK i \in 1 .. Len(c) : c[i] \in B
    BY <1>3 DEF Has
  <2>2. i - 1 \in 1 .. Len(Tail(c)) /\ Tail(c)[i - 1] \in B
    BY SMT, <1>3, <2>1, Popped
  <2> QED
    BY Zenon, <2>2 DEF Has
<1> QED
  BY Zenon, <1>1, <1>2, <1>3

\* Typed code is code.
LEMMA TypedSteps == Seq(Typed) \subseteq Seq(Steps)
<1>1. Typed \subseteq Steps
  BY DEF Typed
<1> QED
  BY SMT, <1>1

\* Parts of handlers are code.
LEMMA GoodSteps == ASSUME NEW o, NEW c \in Good(o) PROVE c \in Seq(Steps) /\ c \in Seq(Typed) /\ Shape(o, c)
  BY Zenon, TypedSteps DEF Good

-----------------------------------------------------------------------------
(* The code of the handlers.                                                *)

\* The arguments a step can have.
Takes(d, a) ==
    /\ d \in Dos /\ a \in Args
    /\ d \in {"startBtcd", "miningaddr"} => a \in Addrs \cup {Blank}
    /\ d = "originalBalance" => a \in {Blank, "balance"}
    /\ d = "return" => a \in Results
    /\ d \in {"kill", "killIfRunning"} => a \in {"btcd", "btcwallet"}

\* A step.
A(d, a, f) == [do |-> d, arg |-> a, fail |-> f]

\* Code of one step, and of three.
IsOne(v, x)         == v \in Seq(Typed) /\ Len(v) = 1 /\ v[1] = x
IsThree(v, x, y, z) == v \in Seq(Typed) /\ Len(v) = 3 /\ v[1] = x /\ v[2] = y /\ v[3] = z

\* Joined, for typed steps.
IsJoin(s, t, v) ==
    /\ v \in Seq(Typed) /\ Len(v) = Len(s) + Len(t)
    /\ \A i \in 1 .. Len(s) : v[i] = s[i]
    /\ \A i \in 1 .. Len(t) : v[Len(s) + i] = t[i]

\* Parts of the operations that promise something: a failed step ends the
\* operation, unless it is a process not found.
Part(o, X) == {c \in Good(o) : Strict(c) /\ \A i \in 1 .. Len(c) : c[i].do \in X}

\* The steps of StartBtcd, with the temp file initialised before.
BtcdDos == {"initTemp", "absent", "startBtcd", "present", "miningaddr", "truncate", "write"}

\* The steps of StartBtcwallet.
WalletDos == {"absent", "startBtcwallet", "present"}

\* What Logout and DeleteAccount have in common.
LogoutDos == {"killIfRunning", "miningaddr", "status", "truncate", "write"}

\* The code of an operation that begins.
Begins(op, c) ==
    c \in Good(os) /\ Ended(c) /\ OpShape(op, c) /\ \A P, w : Serve(op, c, P, w)

\* What a failure leaves to do.
Gives(c) ==
    /\ c \in Part(os, {"kill", "return"}) /\ Ended(c) /\ OneReturn(c) /\ c # <<>>
    /\ c[1].do \in {"kill", "return"}

\* The code each handler begins with has the shape of handlers, and the promise
\* of its operation ahead of it; so has what a failure leaves to do, up to an
\* answer that is not "ok" unless the failure is ignored; and so has what is left
\* when the timer of SignupHandler fires.
LEMMA HandlerCode ==
    /\ \A op \in Ops : \A addr \in Addrs : op # "Signup" => Begins(op, Program(op, addr))
    /\ Begins("Signup", CreateWallet)
    /\ \A op : \A addr \in Addrs : op \notin StopOps \cup {"Login"} => Begins(op, RestartMining(addr))
    /\ \A f \in Fails \ {"skip"} :
           /\ Gives(CleanUp(f))
           /\ f # "done" => ~Has(CleanUp(f), Oks)
           /\ f \in {"stopBtcd", "stopBtcdWallet"} => CleanUp(f)[1].do = "kill" /\ CleanUp(f)[1].arg = "btcd"
    /\ \A res \in Results :
           Gives(Return(res)) /\ (Has(Return(res), Oks) => res = "ok") /\ Return(res)[1].do = "return"
    /\ (StopBtcwallet("skip") \o StopBtcd("skip")) \o Return("timeout") \in Seq(Typed)
    /\ Await \in Seq(Typed) /\ Await # <<>> /\ Len(Await) = 1 /\ Await[1].do = "await"
\* The parts of a handler, one after the other.
<1>Joined.
      ASSUME NEW S, NEW s \in Seq(S), NEW t \in Seq(S)
      PROVE  /\ s \o t \in Seq(S) /\ Len(s \o t) = Len(s) + Len(t)
             /\ \A i \in 1 .. Len(s) : (s \o t)[i] = s[i]
             /\ \A i \in 1 .. Len(t) : (s \o t)[Len(s) + i] = t[i]
             /\ \A i \in 1 .. Len(s \o t) : i \in 1 .. Len(s) \/ \E j \in 1 .. Len(t) : i = Len(s) + j
  <2> USE <1>Joined
  <2>1. s \o t \in Seq(S) /\ Len(s \o t) = Len(s) + Len(t)
    BY SMT
  <2>2. \A i \in 1 .. Len(s) : (s \o t)[i] = s[i]
    BY SMT
  <2>3. \A i \in 1 .. Len(t) : (s \o t)[Len(s) + i] = t[i]
    BY SMT
  <2>4. ASSUME NEW i \in 1 .. Len(s \o t), i \notin 1 .. Len(s)
        PROVE  \E j \in 1 .. Len(t) : i = Len(s) + j
    <3>1. i - Len(s) \in 1 .. Len(t) /\ i = Len(s) + (i - Len(s))
      BY SMT, <2>1, <2>4
    <3> QED
      BY Zenon, <3>1
  <2> QED
    BY Zenon, <2>1, <2>2, <2>3, <2>4

\* The same for two parts joined.
<1>HasJoin.
      ASSUME NEW s \in Seq(Steps), NEW t \in Seq(Steps), NEW B
      PROVE  Has(s \o t, B) <=> Has(s, B) \/ Has(t, B)
  <2> USE <1>HasJoin
  <2> DEFINE u == s \o t
  <2>0. /\ u \in Seq(Steps) /\ Len(u) = Len(s) + Len(t) /\ Len(s) \in Nat /\ Len(t) \in Nat
        /\ \A i \in 1 .. Len(s) : u[i] = s[i]
        /\ \A i \in 1 .. Len(t) : u[Len(s) + i] = t[i]
        /\ \A i \in 1 .. Len(u) : i \in 1 .. Len(s) \/ \E j \in 1 .. Len(t) : i = Len(s) + j
    <3>1. Len(s) \in Nat /\ Len(t) \in Nat
      BY Zenon, Items
    <3> QED
      BY SMTT(30), <3>1, <1>Joined
  <2> HIDE DEF u
  <2>1. Has(s, B) => Has(u, B)
    BY SMT, <2>0 DEF Has
  <2>2. ASSUME NEW i \in 1 .. Len(t), t[i] \in B PROVE Has(u, B)
    <3>1. Len(s) + i \in 1 .. Len(u) /\ u[Len(s) + i] \in B
      BY SMT, <2>2, <2>0
    <3> QED
      BY Zenon, <3>1 DEF Has
  <2>3. ASSUME NEW i \in 1 .. Len(u), u[i] \in B PROVE Has(s, B) \/ Has(t, B)
    BY Zenon, <2>3, <2>0 DEF Has
  <2> QED
    BY Zenon, <2>1, <2>2, <2>3 DEF Has, u

\* What follows what, in two parts that each have it so;
<1>LaterKeep.
      ASSUME NEW s \in Seq(Steps), NEW t \in Seq(Steps), NEW X, NEW Y, Later(s, X, Y), Later(t, X, Y)
      PROVE  Later(s \o t, X, Y)
  <2> USE <1>LaterKeep
  <2> DEFINE u == s \o t
  <2>0. /\ u \in Seq(Steps) /\ Len(u) = Len(s) + Len(t) /\ Len(s) \in Nat /\ Len(t) \in Nat
        /\ \A i \in 1 .. Len(s) : u[i] = s[i]
        /\ \A i \in 1 .. Len(t) : u[Len(s) + i] = t[i]
        /\ \A i \in 1 .. Len(u) : i \in 1 .. Len(s) \/ \E j \in 1 .. Len(t) : i = Len(s) + j
    <3>1. Len(s) \in Nat /\ Len(t) \in Nat
      BY Zenon, Items
    <3> QED
      BY SMTT(30), <3>1, <1>Joined
  <2> HIDE DEF u
  <2> SUFFICES ASSUME NEW i \in 1 .. Len(u), u[i] \in X
               PROVE  \E j \in i + 1 .. Len(u) : u[j] \in Y
    BY Zenon DEF Later, u
  <2>1. CASE i \in 1 .. Len(s)
    <3>1. PICK j \in i + 1 .. Len(s) : s[j] \in Y
      BY SMT, <2>1, <2>0 DEF Later
    <3>2. j \in i + 1 .. Len(u) /\ u[j] \in Y
      BY SMT, <2>1, <3>1, <2>0
    <3> QED
      BY Zenon, <3>2
  <2>2. ASSUME NEW k \in 1 .. Len(t), i = Len(s) + k
        PROVE  \E j \in i + 1 .. Len(u) : u[j] \in Y
    <3>0. t[k] \in X
      BY Zenon, <2>2, <2>0
    <3>1. PICK j \in k + 1 .. Len(t) : t[j] \in Y
      BY Zenon, <3>0 DEF Later
    <3>2. Len(s) + j \in i + 1 .. Len(u) /\ u[Len(s) + j] \in Y
      BY SMT, <2>2, <3>1, <2>0
    <3> QED
      BY Zenon, <3>2
  <2> QED
    BY Zenon, <2>1, <2>2, <2>0

\* or when the second part has it.
<1>LaterAny.
      ASSUME NEW s \in Seq(Steps), NEW t \in Seq(Steps), NEW X, NEW Y, Later(t, X, Y), Has(t, Y)
      PROVE  Later(s \o t, X, Y)
  <2> USE <1>LaterAny
  <2> DEFINE u == s \o t
  <2>0. /\ u \in Seq(Steps) /\ Len(u) = Len(s) + Len(t) /\ Len(s) \in Nat /\ Len(t) \in Nat
        /\ \A i \in 1 .. Len(s) : u[i] = s[i]
        /\ \A i \in 1 .. Len(t) : u[Len(s) + i] = t[i]
        /\ \A i \in 1 .. Len(u) : i \in 1 .. Len(s) \/ \E j \in 1 .. Len(t) : i = Len(s) + j
    <3>1. Len(s) \in Nat /\ Len(t) \in Nat
      BY Zenon, Items
    <3> QED
      BY SMTT(30), <3>1, <1>Joined
  <2> HIDE DEF u
  <2> SUFFICES ASSUME NEW i \in 1 .. Len(u), u[i] \in X
               PROVE  \E j \in i + 1 .. Len(u) : u[j] \in Y
    BY Zenon DEF Later, u
  <2>1. CASE i \in 1 .. Len(s)
    <3>1. PICK j \in 1 .. Len(t) : t[j] \in Y
      BY Zenon DEF Has
    <3>2. Len(s) + j \in i + 1 .. Len(u) /\ u[Len(s) + j] \in Y
      BY SMT, <2>1, <3>1, <2>0
    <3> QED
      BY Zenon, <3>2
  <2>2. ASSUME NEW k \in 1 .. Len(t), i = Len(s) + k
        PROVE  \E j \in i + 1 .. Len(u) : u[j] \in Y
    <3>0. t[k] \in X
      BY Zenon, <2>2, <2>0
    <3>1. PICK j \in k + 1 .. Len(t) : t[j] \in Y
      BY Zenon, <3>0 DEF Later
    <3>2. Len(s) + j \in i + 1 .. Len(u) /\ u[Len(s) + j] \in Y
      BY SMT, <2>2, <3>1, <2>0
    <3> QED
      BY Zenon, <3>2
  <2> QED
    BY Zenon, <2>1, <2>2, <2>0

\* Strict parts make strict code,
<1>StrictJoin.
      ASSUME NEW s \in Seq(Steps), NEW t \in Seq(Steps), Strict(s), Strict(t)
      PROVE  Strict(s \o t)
  BY SMT, <1>StrictJoin, <1>Joined DEF Strict

\* code ends as its last part does,
<1>EndedJoin.
      ASSUME NEW s \in Seq(Steps), NEW t \in Seq(Steps), Ended(t)
      PROVE  Ended(s \o t)
  BY SMT, <1>EndedJoin, <1>Joined DEF Ended

\* and parts of handlers can follow each other.
<1>GoodJoin.
      ASSUME NEW o, NEW s \in Good(o), NEW t \in Good(o)
      PROVE  s \o t \in Good(o)
  <2> USE <1>GoodJoin
  <2> DEFINE u == s \o t
  <2>1. s \in Seq(Typed) /\ t \in Seq(Typed)
    BY DEF Good
  <2>2. Len(u) = Len(s) + Len(t) /\ Len(s) \in Nat /\ Len(t) \in Nat
    BY <2>1, <1>Joined, Items
  <2>c. u \in Seq(Typed)
    BY <2>1, <1>Joined
  <2>b. /\ \A i \in 1 .. Len(s) : u[i] = s[i]
        /\ \A i \in 1 .. Len(t) : u[Len(s) + i] = t[i]
        /\ \A i \in 1 .. Len(u) : i \in 1 .. Len(s) \/ \E j \in 1 .. Len(t) : i = Len(s) + j
    BY <2>1, <1>Joined, Items
  <2> HIDE DEF u
  <2>a. /\ Len(t) > 0 => u[Len(s) + 1] = t[1]
        /\ Len(t) > 1 => u[Len(s) + 2] = t[2]
    BY SMTT(20), <2>2, <2>b
  <2>3. Fresh(o, u)
    <3>1. Fresh(o, s) /\ Fresh(o, t)
      BY DEF Good
    <3>2. /\ Len(s) > 0 => u[1] = s[1]
          /\ Len(s) > 1 => u[2] = s[2]
      BY SMTT(20), <2>2, <2>b
    <3>3. /\ Len(s) = 0 /\ Len(t) > 0 => u[1] = t[1]
          /\ Len(s) = 0 /\ Len(t) > 1 => u[2] = t[2]
          /\ Len(s) = 1 /\ Len(t) > 0 => u[2] = t[1]
      <4>1. Len(s) = 0 => Len(s) + 1 = 1 /\ Len(s) + 2 = 2
        BY SMT
      <4>2. Len(s) = 1 => Len(s) + 1 = 2
        BY SMT
      <4> QED
        BY Zenon, <2>a, <4>1, <4>2
    <3>4. \/ Len(s) = 0 /\ Len(u) = Len(t)
          \/ Len(s) = 1 /\ Len(u) > 0 /\ (Len(u) > 1 <=> Len(t) > 0) /\ Len(s) > 0
          \/ Len(s) > 1 /\ Len(s) > 0 /\ Len(u) > 1 /\ Len(u) > 0
      <4>1. Len(s) = 0 \/ Len(s) = 1 \/ Len(s) > 1
        BY SMT, <2>2
      <4>2. Len(s) = 0 => Len(u) = Len(t)
        BY SMT, <2>2
      <4>3. Len(s) = 1 => Len(u) > 0 /\ (Len(u) > 1 <=> Len(t) > 0) /\ Len(s) > 0
        BY SMT, <2>2
      <4>4. Len(s) > 1 => Len(s) > 0 /\ Len(u) > 1 /\ Len(u) > 0
        BY SMT, <2>2
      <4> QED
        BY Zenon, <4>1, <4>2, <4>3, <4>4
    <3> QED
      BY Zenon, <3>1, <3>2, <3>3, <3>4 DEF Fresh
  <2>4. ASSUME NEW i \in 1 .. Len(s) PROVE ShapeAt(o, u, i)
    <3>1. ShapeAt(o, s, i) /\ Fresh(o, t)
      BY DEF Good, Shape
    <3>2. i < Len(u) => Follows(u[i], u[i + 1])
      <4>1. CASE i < Len(s)
        <5>1. u[i] = s[i] /\ u[i + 1] = s[i + 1] /\ Follows(s[i], s[i + 1])
          BY SMT, <2>2, <2>b, <3>1, <4>1 DEF ShapeAt
        <5> QED
          BY Zenon, <5>1
      <4>2. CASE i = Len(s) /\ Len(t) > 0
        <5>1. u[i + 1] = t[1]
          BY SMT, <2>2, <2>a, <4>2
        <5> QED
          BY SMT, <5>1, <4>2, <3>1 DEF Fresh, Follows
      <4> QED
        BY SMT, <2>2, <4>1, <4>2
    <3>3. /\ u[i] = s[i]
          /\ i + 1 <= Len(s) => u[i + 1] = s[i + 1]
          /\ i + 2 <= Len(s) => u[i + 2] = s[i + 2]
          /\ i + 3 <= Len(s) => u[i + 3] = s[i + 3]
      BY SMTT(20), <2>2, <2>b
    <3>4. /\ i = Len(s) /\ Len(t) > 0 => u[i + 1] = t[1]
          /\ i = Len(s) /\ Len(t) > 1 => u[i + 2] = t[2]
          /\ i + 1 = Len(s) /\ Len(t) > 0 => u[i + 2] = t[1]
      BY SMT, <2>2, <2>a
    <3>5. o = "windows" =>
            /\ i < Len(u) /\ u[i + 1].do = "removeMainnet" => u[i].do = "kill"
            /\ i + 1 < Len(u) /\ u[i + 2].do = "removeMainnet" => u[i].do = "kill" /\ u[i].arg = "btcd"
      BY SMTT(20), <2>2, <3>1, <3>3, <3>4 DEF ShapeAt, Fresh
    <3> QED
      BY SMT, <2>2, <3>1, <3>2, <3>3, <3>5 DEF ShapeAt
  <2>5. ASSUME NEW k \in 1 .. Len(t) PROVE ShapeAt(o, u, Len(s) + k)
    <3>1. ShapeAt(o, t, k)
      BY DEF Good, Shape
    <3> DEFINE i == Len(s) + k
    <3>2. /\ u[i] = t[k]
          /\ k + 1 <= Len(t) => u[Len(s) + (k + 1)] = t[k + 1]
          /\ k + 2 <= Len(t) => u[Len(s) + (k + 2)] = t[k + 2]
          /\ k + 3 <= Len(t) => u[Len(s) + (k + 3)] = t[k + 3]
      <4>1. /\ k + 1 <= Len(t) => k + 1 \in 1 .. Len(t)
            /\ k + 2 <= Len(t) => k + 2 \in 1 .. Len(t)
            /\ k + 3 <= Len(t) => k + 3 \in 1 .. Len(t)
        BY SMT, <2>2
      <4> QED
        BY Zenon, <2>b, <4>1
    <3>3. /\ i + 1 = Len(s) + (k + 1) /\ i + 2 = Len(s) + (k + 2) /\ i + 3 = Len(s) + (k + 3)
          /\ i < Len(u) <=> k < Len(t)
          /\ i + 1 < Len(u) <=> k + 1 < Len(t)
          /\ i + 1 <= Len(u) <=> k + 1 <= Len(t)
          /\ i + 2 <= Len(u) <=> k + 2 <= Len(t)
          /\ i + 3 <= Len(u) <=> k + 3 <= Len(t)
      BY SMT, <2>2
    <3> QED
      BY SMT, <2>2, <3>1, <3>2, <3>3 DEF ShapeAt
  <2>6. Shape(o, u)
    BY Zenon, <2>b, <2>4, <2>5 DEF Shape
  <2> QED
    BY Zenon, <2>c, <2>3, <2>6 DEF Good, u

\* A single step.
<1>Unit. \A d, a : \A f \in Fails : Takes(d, a) => IsOne(Step(d, a, f), A(d, a, f))
  <2> SUFFICES ASSUME NEW d, NEW a, NEW f \in Fails, Takes(d, a) PROVE IsOne(Step(d, a, f), A(d, a, f))
    BY Zenon
  <2>1. [do |-> d, arg |-> a, fail |-> f] \in Typed
    BY SMT DEF Typed, Steps, Takes
  <2> QED
    BY SMT, <2>1 DEF Step, IsOne, A

\* Typed parts make typed code.
<1>TypedJoin. \A s, t \in Seq(Typed) : IsJoin(s, t, s \o t)
  BY SMT, <1>Joined DEF IsJoin

\* How the parts are grouped does not matter.
<1>Associative. \A s, t, u \in Seq(Typed) : (s \o t) \o u = s \o (t \o u)
  BY SMT

\* Three steps.
<1>Three.
      ASSUME NEW x, NEW y, NEW z, NEW s, NEW t, NEW u, IsOne(s, x), IsOne(t, y), IsOne(u, z)
      PROVE  IsThree(s \o t \o u, x, y, z)
  <2> USE <1>Three
  <2> DEFINE v == s \o t
             w == v \o u
  <2>0. s \in Seq(Typed) /\ t \in Seq(Typed) /\ u \in Seq(Typed)
    BY DEF IsOne
  <2>1. IsJoin(s, t, v)
    BY Zenon, <2>0, <1>TypedJoin
  <2>2. Len(v) = 2 /\ v[1] = x /\ v[2] = y
    BY SMT, <2>1 DEF IsJoin, IsOne
  <2>3. v \in Seq(Typed)
    BY Zenon, <2>1 DEF IsJoin
  <2> HIDE DEF v
  <2>4. IsJoin(v, u, w)
    BY Zenon, <2>0, <2>3, <1>TypedJoin
  <2> HIDE DEF w
  <2>5. Len(w) = 3 /\ w[1] = x /\ w[2] = y /\ w[3] = z
    BY SMT, <2>2, <2>4 DEF IsJoin, IsOne
  <2>6. w \in Seq(Typed)
    BY Zenon, <2>4 DEF IsJoin
  <2> QED
    BY Zenon, <2>5, <2>6 DEF v, w, IsThree

\* A step that may stand anywhere.
<1>UnitGood.
      ASSUME NEW o, NEW d, NEW a, NEW f \in Fails, Takes(d, a),
             d \notin {"startBtcd", "startBtcwallet", "present", "truncate", "write", "await", "initTemp"},
             d \notin Updates,
             d = "removeMainnet" => o # "windows"
      PROVE  Step(d, a, f) \in Good(o)
  <2> USE <1>UnitGood
  <2> DEFINE c == Step(d, a, f)
  <2>0. IsOne(c, A(d, a, f))
    BY Zenon, <1>Unit
  <2> HIDE DEF c
  <2>1. c \in Seq(Typed) /\ Len(c) = 1 /\ c[1].do = d
    BY SMT, <2>0 DEF IsOne, A
  <2>2. Fresh(o, c)
    BY SMT, <2>1 DEF Fresh, Updates
  <2>3. ShapeAt(o, c, 1)
    BY SMT, <2>1 DEF ShapeAt
  <2>4. Shape(o, c)
    BY SMT, <2>1, <2>3 DEF Shape
  <2> QED
    BY Zenon, <2>1, <2>2, <2>4 DEF Good, c

\* updateTempFile.
<1>UpdateSteps.
      ASSUME NEW key, NEW a, NEW f \in Fails, Takes(key, a)
      PROVE  IsThree(updateTempFile(key, a, f), A(key, a, f), A("truncate", Blank, f), A("write", Blank, f))
  <2> USE <1>UpdateSteps
  <2>1. Takes("truncate", Blank) /\ Takes("write", Blank)
    BY Zenon DEF Takes, Dos, Args, Results
  <2>2. IsOne(Step(key, a, f), A(key, a, f))
    BY Zenon, <1>Unit
  <2>3. IsOne(Step("truncate", Blank, f), A("truncate", Blank, f))
    BY Zenon, <2>1, <1>Unit
  <2>4. IsOne(Step("write", Blank, f), A("write", Blank, f))
    BY Zenon, <2>1, <1>Unit
  <2> QED
    BY Zenon, <2>2, <2>3, <2>4, <1>Three DEF updateTempFile

\* It can stand anywhere when it does not store the mining address.
<1>UpdateGood.
      ASSUME NEW o, NEW key \in {"originalBalance", "status"}, NEW a \in {Blank, "balance"}, NEW f \in Fails
      PROVE  updateTempFile(key, a, f) \in Good(o)
  <2> USE <1>UpdateGood
  <2> DEFINE c == updateTempFile(key, a, f)
  <2>a. Takes(key, a)
    BY Zenon DEF Takes, Dos, Args, Results
  <2>b. IsThree(c, A(key, a, f), A("truncate", Blank, f), A("write", Blank, f))
    BY Zenon, <2>a, <1>UpdateSteps
  <2> HIDE DEF c
  <2>1. c \in Seq(Typed) /\ Len(c) = 3 /\ c[1].do = key /\ c[2].do = "truncate" /\ c[3].do = "write"
    BY SMT, <2>b DEF IsThree, A
  <2>2. Fresh(o, c)
    BY SMT, <2>1 DEF Fresh
  <2>3. ShapeAt(o, c, 1)
    BY SMT, <2>1 DEF ShapeAt, Follows, Updates
  <2>4. ShapeAt(o, c, 2)
    BY SMT, <2>1 DEF ShapeAt, Follows, Updates
  <2>5. ShapeAt(o, c, 3)
    BY SMT, <2>1 DEF ShapeAt, Updates
  <2>6. Shape(o, c)
    <3>1. 1 .. Len(c) = {1, 2, 3}
      BY SMT, <2>1
    <3> QED
      BY Zenon, <3>1, <2>3, <2>4, <2>5 DEF Shape
  <2> QED
    BY Zenon, <2>1, <2>2, <2>6 DEF Good, c

\* StartBtcd, alone and after the temp file was initialised.
<1>StartBtcdSteps.
      ASSUME NEW a \in Addrs \cup {Blank}, NEW f \in Fails
      PROVE  LET c == StartBtcd(a, f) IN
             /\ c \in Seq(Typed) /\ Len(c) = 6
             /\ c[1] = A("absent", "btcd", f) /\ c[2] = A("startBtcd", a, f) /\ c[3] = A("present", "btcd", f)
             /\ c[4] = A("miningaddr", a, f) /\ c[5] = A("truncate", Blank, f) /\ c[6] = A("write", Blank, f)
  <2> USE <1>StartBtcdSteps
  <2> DEFINE s == Step("absent", "btcd", f) \o Step("startBtcd", a, f) \o Step("present", "btcd", f)
             t == updateTempFile("miningaddr", a, f)
  <2>1. Takes("absent", "btcd") /\ Takes("startBtcd", a) /\ Takes("present", "btcd") /\ Takes("miningaddr", a)
    BY Zenon DEF Takes, Dos, Args, Results
  <2>2. IsOne(Step("absent", "btcd", f), A("absent", "btcd", f))
    BY Zenon, <2>1, <1>Unit
  <2>3. IsOne(Step("startBtcd", a, f), A("startBtcd", a, f))
    BY Zenon, <2>1, <1>Unit
  <2>4. IsOne(Step("present", "btcd", f), A("present", "btcd", f))
    BY Zenon, <2>1, <1>Unit
  <2>5. IsThree(s, A("absent", "btcd", f), A("startBtcd", a, f), A("present", "btcd", f))
    BY Zenon, <2>2, <2>3, <2>4, <1>Three
  <2>6. IsThree(t, A("miningaddr", a, f), A("truncate", Blank, f), A("write", Blank, f))
    BY Zenon, <2>1, <1>UpdateSteps
  <2>7. StartBtcd(a, f) = s \o t
    BY Zenon DEF StartBtcd
  <2> HIDE DEF s, t
  <2>8. IsJoin(s, t, s \o t) /\ Len(s) = 3 /\ Len(t) = 3
    BY Zenon, <2>5, <2>6, <1>TypedJoin DEF IsThree
  <2> DEFINE c == s \o t
  <2> HIDE DEF c
  <2>8a. IsJoin(s, t, c)
    BY Zenon, <2>8 DEF c
  <2>9. /\ Len(c) = 6 /\ c[1] = s[1] /\ c[2] = s[2] /\ c[3] = s[3]
        /\ c[4] = t[1] /\ c[5] = t[2] /\ c[6] = t[3]
    BY SMT, <2>8, <2>8a DEF IsJoin
  <2>10. c \in Seq(Typed)
    BY Zenon, <2>8 DEF IsJoin, c
  <2> QED
    BY Zenon, <2>5, <2>6, <2>7, <2>9, <2>10 DEF IsThree, c

\* It has its check, its start and the update of the temp file in order.
<1>StartBtcdGood.
      ASSUME NEW o, NEW a \in Addrs \cup {Blank}, NEW f \in Fails \ {"skip"}
      PROVE  StartBtcd(a, f) \in Good(o)
  <2> USE <1>StartBtcdGood
  <2> DEFINE c == StartBtcd(a, f)
  <2>0. /\ c \in Seq(Typed) /\ Len(c) = 6
        /\ c[1] = A("absent", "btcd", f) /\ c[2] = A("startBtcd", a, f) /\ c[3] = A("present", "btcd", f)
        /\ c[4] = A("miningaddr", a, f) /\ c[5] = A("truncate", Blank, f) /\ c[6] = A("write", Blank, f)
    BY Zenon, <1>StartBtcdSteps
  <2> HIDE DEF c
  <2>1. /\ Len(c) = 6 /\ c[1].do = "absent" /\ c[1].arg = "btcd" /\ c[1].fail # "skip"
        /\ c[2].do = "startBtcd" /\ c[2].arg = a
        /\ c[3].do = "present" /\ c[3].arg = "btcd" /\ c[4].do = "miningaddr" /\ c[4].arg = a
        /\ c[5].do = "truncate" /\ c[6].do = "write"
    BY SMT, <2>0 DEF A
  <2>2. Fresh(o, c)
    BY SMT, <2>1 DEF Fresh
  <2>3. ShapeAt(o, c, 1) /\ ShapeAt(o, c, 2) /\ ShapeAt(o, c, 3)
    BY SMT, <2>1 DEF ShapeAt, Follows, Updates
  <2>4. ShapeAt(o, c, 4) /\ ShapeAt(o, c, 5) /\ ShapeAt(o, c, 6)
    BY SMT, <2>1 DEF ShapeAt, Follows, Updates
  <2>5. 1 .. Len(c) = {1, 2, 3, 4, 5, 6}
    BY SMT, <2>1
  <2>6. Shape(o, c)
    BY Zenon, <2>3, <2>4, <2>5 DEF Shape
  <2> QED
    BY Zenon, <2>0, <2>2, <2>6 DEF Good, c

\* InitService and Login initialise the temp file before StartBtcd.
<1>InitStartGood.
      ASSUME NEW o, NEW a \in Addrs \cup {Blank}, NEW f \in Fails, NEW g \in {"stopBtcd", "stopBtcdWallet"}
      PROVE  LET c == initializeTempFile(f) \o StartBtcd(a, g) IN
             /\ c \in Good(o) /\ Len(c) = 9
             /\ c[1] = A("initTemp", Blank, f) /\ c[2] = A("truncate", Blank, f) /\ c[3] = A("write", Blank, f)
             /\ c[4] = A("absent", "btcd", g) /\ c[5] = A("startBtcd", a, g) /\ c[6] = A("present", "btcd", g)
             /\ c[7] = A("miningaddr", a, g) /\ c[8] = A("truncate", Blank, g) /\ c[9] = A("write", Blank, g)
  <2> USE <1>InitStartGood
  <2> DEFINE s == initializeTempFile(f)
             t == StartBtcd(a, g)
             c == s \o t
  <2>1. Takes("initTemp", Blank) /\ Takes("truncate", Blank) /\ Takes("write", Blank)
    BY Zenon DEF Takes, Dos, Args, Results
  <2>2. IsOne(Step("initTemp", Blank, f), A("initTemp", Blank, f))
    BY Zenon, <2>1, <1>Unit
  <2>3. IsOne(Step("truncate", Blank, f), A("truncate", Blank, f))
    BY Zenon, <2>1, <1>Unit
  <2>4. IsOne(Step("write", Blank, f), A("write", Blank, f))
    BY Zenon, <2>1, <1>Unit
  <2>5. IsThree(s, A("initTemp", Blank, f), A("truncate", Blank, f), A("write", Blank, f))
    BY Zenon, <2>2, <2>3, <2>4, <1>Three DEF initializeTempFile
  <2>6. /\ t \in Seq(Typed) /\ Len(t) = 6
        /\ t[1] = A("absent", "btcd", g) /\ t[2] = A("startBtcd", a, g) /\ t[3] = A("present", "btcd", g)
        /\ t[4] = A("miningaddr", a, g) /\ t[5] = A("truncate", Blank, g) /\ t[6] = A("write", Blank, g)
    <3>1. g \in Fails
      BY Zenon DEF Fails
    <3> QED
      BY Zenon, <3>1, <1>StartBtcdSteps
  <2> HIDE DEF s, t
  <2>7. IsJoin(s, t, c) /\ Len(s) = 3 /\ Len(t) = 6
    BY Zenon, <2>5, <2>6, <1>TypedJoin DEF IsThree
  <2> HIDE DEF c
  <2>8. /\ Len(c) = 9 /\ c[1] = s[1] /\ c[2] = s[2] /\ c[3] = s[3]
        /\ c[4] = t[1] /\ c[5] = t[2] /\ c[6] = t[3] /\ c[7] = t[4] /\ c[8] = t[5] /\ c[9] = t[6]
    BY SMT, <2>7 DEF IsJoin
  <2>9. /\ Len(c) = 9 /\ c[1].do = "initTemp" /\ c[2].do = "truncate" /\ c[3].do = "write"
        /\ c[4].do = "absent" /\ c[4].arg = "btcd" /\ c[4].fail = g /\ g # "skip" /\ c[5].do = "startBtcd" /\ c[5].arg = a
        /\ c[6].do = "present" /\ c[6].arg = "btcd" /\ c[7].do = "miningaddr" /\ c[7].arg = a
        /\ c[8].do = "truncate" /\ c[9].do = "write"
    BY SMT, <2>5, <2>6, <2>8 DEF A, IsThree
  <2>10. Fresh(o, c)
    BY SMT, <2>9 DEF Fresh
  <2>11. ShapeAt(o, c, 1) /\ ShapeAt(o, c, 2) /\ ShapeAt(o, c, 3)
    BY SMT, <2>9 DEF ShapeAt, Follows, Updates, StopsIfRunning
  <2>12. ShapeAt(o, c, 4) /\ ShapeAt(o, c, 5) /\ ShapeAt(o, c, 6)
    BY SMT, <2>9 DEF ShapeAt, Follows, Updates
  <2>13. ShapeAt(o, c, 7) /\ ShapeAt(o, c, 8) /\ ShapeAt(o, c, 9)
    BY SMT, <2>9 DEF ShapeAt, Follows, Updates
  <2>14. 1 .. Len(c) = {1, 2, 3, 4, 5, 6, 7, 8, 9}
    BY SMT, <2>9
  <2>15. Shape(o, c)
    BY Zenon, <2>11, <2>12, <2>13, <2>14 DEF Shape
  <2>16. c \in Seq(Typed)
    BY Zenon, <2>7 DEF IsJoin
  <2>17. c \in Good(o)
    BY Zenon, <2>10, <2>15, <2>16 DEF Good
  <2>18. /\ c[1] = A("initTemp", Blank, f) /\ c[2] = A("truncate", Blank, f) /\ c[3] = A("write", Blank, f)
         /\ c[4] = A("absent", "btcd", g) /\ c[5] = A("startBtcd", a, g) /\ c[6] = A("present", "btcd", g)
         /\ c[7] = A("miningaddr", a, g) /\ c[8] = A("truncate", Blank, g) /\ c[9] = A("write", Blank, g)
    BY Zenon, <2>5, <2>6, <2>8 DEF IsThree
  <2> QED
    BY Zenon, <2>9, <2>17, <2>18 DEF c, s, t

\* StartBtcwallet.
<1>StartBtcwalletGood.
      ASSUME NEW o, NEW f \in Fails \ {"skip"}
      PROVE  /\ StartBtcwallet(f) \in Good(o)
             /\ IsThree(StartBtcwallet(f), A("absent", "btcwallet", f), A("startBtcwallet", Blank, f),
                        A("present", "btcwallet", f))
  <2> USE <1>StartBtcwalletGood
  <2> DEFINE c == StartBtcwallet(f)
  <2>1. Takes("absent", "btcwallet") /\ Takes("startBtcwallet", Blank) /\ Takes("present", "btcwallet")
    BY Zenon DEF Takes, Dos, Args, Results
  <2>2. IsOne(Step("absent", "btcwallet", f), A("absent", "btcwallet", f))
    BY Zenon, <2>1, <1>Unit
  <2>3. IsOne(Step("startBtcwallet", Blank, f), A("startBtcwallet", Blank, f))
    BY Zenon, <2>1, <1>Unit
  <2>4. IsOne(Step("present", "btcwallet", f), A("present", "btcwallet", f))
    BY Zenon, <2>1, <1>Unit
  <2>5. IsThree(c, A("absent", "btcwallet", f), A("startBtcwallet", Blank, f), A("present", "btcwallet", f))
    BY Zenon, <2>2, <2>3, <2>4, <1>Three DEF StartBtcwallet
  <2> HIDE DEF c
  <2>6. /\ c \in Seq(Typed) /\ Len(c) = 3 /\ c[1].do = "absent" /\ c[1].arg = "btcwallet" /\ c[1].fail # "skip"
        /\ c[2].do = "startBtcwallet" /\ c[3].do = "present" /\ c[3].arg = "btcwallet"
    BY SMT, <2>5 DEF IsThree, A
  <2>7. Fresh(o, c)
    BY SMT, <2>6 DEF Fresh
  <2>8. ShapeAt(o, c, 1) /\ ShapeAt(o, c, 2) /\ ShapeAt(o, c, 3)
    BY SMT, <2>6 DEF ShapeAt, Follows, Updates
  <2>9. 1 .. Len(c) = {1, 2, 3}
    BY SMT, <2>6
  <2>10. Shape(o, c)
    BY Zenon, <2>8, <2>9 DEF Shape
  <2> QED
    BY Zenon, <2>5, <2>6, <2>7, <2>10 DEF Good, c

\* The block database is removed after both processes were stopped.
<1>RemoveMainnetGood.
      ASSUME NEW o
      PROVE  /\ RemoveMainnet("return") \in Good(o)
             /\ IsThree(RemoveMainnet("return"), A("kill", "btcd", "skip"), A("kill", "btcwallet", "skip"),
                        A("removeMainnet", Blank, "return"))
  <2> USE <1>RemoveMainnetGood
  <2> DEFINE c == RemoveMainnet("return")
  <2>1. Takes("kill", "btcd") /\ Takes("kill", "btcwallet") /\ Takes("removeMainnet", Blank)
    BY Zenon DEF Takes, Dos, Args, Results
  <2>0. "skip" \in Fails /\ "return" \in Fails
    BY Zenon DEF Fails
  <2>2. IsOne(Step("kill", "btcd", "skip"), A("kill", "btcd", "skip"))
    BY Zenon, <2>0, <2>1, <1>Unit
  <2>3. IsOne(Step("kill", "btcwallet", "skip"), A("kill", "btcwallet", "skip"))
    BY Zenon, <2>0, <2>1, <1>Unit
  <2>4. IsOne(Step("removeMainnet", Blank, "return"), A("removeMainnet", Blank, "return"))
    BY Zenon, <2>0, <2>1, <1>Unit
  <2>5. IsThree(c, A("kill", "btcd", "skip"), A("kill", "btcwallet", "skip"), A("removeMainnet", Blank, "return"))
    BY Zenon, <2>2, <2>3, <2>4, <1>Three DEF RemoveMainnet, StopRelated, StopBtcd, StopBtcwallet
  <2> HIDE DEF c
  <2>6. /\ c \in Seq(Typed) /\ Len(c) = 3 /\ c[1].do = "kill" /\ c[1].arg = "btcd" /\ c[2].do = "kill"
        /\ c[3].do = "removeMainnet"
    BY SMT, <2>5 DEF IsThree, A
  <2>7. Fresh(o, c)
    BY SMT, <2>6 DEF Fresh
  <2>8. ShapeAt(o, c, 1) /\ ShapeAt(o, c, 2) /\ ShapeAt(o, c, 3)
    BY SMT, <2>6 DEF ShapeAt, Follows, Updates
  <2>9. 1 .. Len(c) = {1, 2, 3}
    BY SMT, <2>6
  <2>10. Shape(o, c)
    BY Zenon, <2>8, <2>9 DEF Shape
  <2> QED
    BY Zenon, <2>5, <2>6, <2>7, <2>10 DEF Good, c

\* Logout forgets the address once it has stopped btcd.
<1>ForgetGood.
      ASSUME NEW o
      PROVE  LET c == Step("killIfRunning", "btcd", "return") \o updateTempFile("miningaddr", Blank, "return") IN
             /\ c \in Good(o) /\ Len(c) = 4
             /\ c[1] = A("killIfRunning", "btcd", "return") /\ c[2] = A("miningaddr", Blank, "return")
             /\ c[3] = A("truncate", Blank, "return") /\ c[4] = A("write", Blank, "return")
  <2> USE <1>ForgetGood
  <2> DEFINE s == Step("killIfRunning", "btcd", "return")
             t == updateTempFile("miningaddr", Blank, "return")
             c == s \o t
  <2>1. Takes("killIfRunning", "btcd") /\ Takes("miningaddr", Blank) /\ "return" \in Fails
    BY Zenon DEF Takes, Dos, Args, Results, Fails
  <2>2. IsOne(s, A("killIfRunning", "btcd", "return"))
    BY Zenon, <2>1, <1>Unit
  <2>3. IsThree(t, A("miningaddr", Blank, "return"), A("truncate", Blank, "return"), A("write", Blank, "return"))
    BY Zenon, <2>1, <1>UpdateSteps
  <2> HIDE DEF s, t
  <2>4. IsJoin(s, t, c) /\ Len(s) = 1 /\ Len(t) = 3
    BY Zenon, <2>2, <2>3, <1>TypedJoin DEF IsOne, IsThree
  <2> HIDE DEF c
  <2>5. Len(c) = 4 /\ c[1] = s[1] /\ c[2] = t[1] /\ c[3] = t[2] /\ c[4] = t[3]
    BY SMT, <2>4 DEF IsJoin
  <2>a. /\ c[1] = A("killIfRunning", "btcd", "return") /\ c[2] = A("miningaddr", Blank, "return")
        /\ c[3] = A("truncate", Blank, "return") /\ c[4] = A("write", Blank, "return")
    BY Zenon, <2>2, <2>3, <2>5 DEF IsOne, IsThree
  <2>6. /\ Len(c) = 4 /\ c[1].do = "killIfRunning" /\ c[1].arg = "btcd" /\ c[2].do = "miningaddr"
        /\ c[3].do = "truncate" /\ c[4].do = "write"
    BY SMT, <2>5, <2>a DEF A
  <2>7. Fresh(o, c)
    BY SMT, <2>6 DEF Fresh
  <2>8. ShapeAt(o, c, 1) /\ ShapeAt(o, c, 2) /\ ShapeAt(o, c, 3) /\ ShapeAt(o, c, 4)
    BY SMT, <2>6 DEF ShapeAt, Follows, Updates
  <2>9. 1 .. Len(c) = {1, 2, 3, 4}
    BY SMT, <2>6
  <2>10. Shape(o, c)
    BY Zenon, <2>8, <2>9 DEF Shape
  <2>11. c \in Seq(Typed)
    BY Zenon, <2>4 DEF IsJoin
  <2>12. c \in Good(o)
    BY Zenon, <2>7, <2>10, <2>11 DEF Good
  <2> QED
    BY Zenon, <2>5, <2>a, <2>12 DEF c, s, t

\* What a part is.
<1>PartSteps.
      ASSUME NEW o, NEW X, NEW c \in Part(o, X)
      PROVE  c \in Good(o) /\ c \in Seq(Typed) /\ c \in Seq(Steps) /\ Strict(c)
  BY Zenon, <1>PartSteps, TypedSteps DEF Part, Good

\* Parts make a part,
<1>PartJoin.
      ASSUME NEW o, NEW X, NEW s \in Part(o, X), NEW t \in Part(o, X)
      PROVE  s \o t \in Part(o, X)
  <2> USE <1>PartJoin
  <2>1. s \o t \in Good(o)
    BY Zenon, <1>GoodJoin DEF Part
  <2>2. Strict(s \o t)
    BY Zenon, <1>PartSteps, <1>StrictJoin
  <2>3. IsJoin(s, t, s \o t) /\ Len(s) \in Nat
    BY Zenon, <1>PartSteps, <1>TypedJoin, Items
  <2>4. ASSUME NEW i \in 1 .. Len(s \o t) PROVE (s \o t)[i].do \in X
    <3>1. CASE i \in 1 .. Len(s)
      BY Zenon, <2>3, <3>1 DEF IsJoin, Part
    <3>2. CASE i \notin 1 .. Len(s)
      <4>1. i - Len(s) \in 1 .. Len(t) /\ i = Len(s) + (i - Len(s))
        BY SMT, <2>3, <3>2 DEF IsJoin
      <4> QED
        BY Zenon, <2>3, <4>1 DEF IsJoin, Part
    <3> QED
      BY <3>1, <3>2
  <2> QED
    BY Zenon, <2>1, <2>2, <2>4 DEF Part

\* and only what it does counts.
<1>PartIn.
      ASSUME NEW o, NEW X, NEW Y, X \subseteq Y, NEW c \in Part(o, X)
      PROVE  c \in Part(o, Y)
  BY Zenon, <1>PartIn DEF Part

\* A part lacks the steps it does not name.
<1>Lacks.
      ASSUME NEW o, NEW X, NEW c \in Part(o, X), NEW B, \A x \in B : x.do \notin X
      PROVE  ~Has(c, B) /\ \A Z : Later(c, B, Z)
  BY Zenon, <1>Lacks DEF Part, Has, Later

\* Such a part changes nothing in what follows what,
<1>LaterAppend.
      ASSUME NEW o, NEW X, NEW s \in Seq(Steps), NEW t \in Part(o, X), NEW B, NEW Z,
             Later(s, B, Z), \A x \in B : x.do \notin X
      PROVE  Later(s \o t, B, Z)
  <2> USE <1>LaterAppend
  <2>1. t \in Seq(Steps) /\ Later(t, B, Z)
    BY Zenon, <1>PartSteps, <1>Lacks
  <2> QED
    BY Zenon, <2>1, <1>LaterKeep

\* and one that has the later step makes it so.
<1>LaterEnd.
      ASSUME NEW o, NEW X, NEW s \in Seq(Steps), NEW t \in Part(o, X), NEW B, NEW Z,
             Has(t, Z), \A x \in B : x.do \notin X
      PROVE  Later(s \o t, B, Z)
  <2> USE <1>LaterEnd
  <2>1. t \in Seq(Steps) /\ Later(t, B, Z)
    BY Zenon, <1>PartSteps, <1>Lacks
  <2> QED
    BY Zenon, <2>1, <1>LaterAny

\* A single step as a part.
<1>UnitPart.
      ASSUME NEW o, NEW d, NEW a, NEW f \in Fails \ {"done"}, Takes(d, a),
             d \notin {"startBtcd", "startBtcwallet", "present", "truncate", "write", "await", "initTemp", "readAddr"},
             d \notin Updates, d = "removeMainnet" => o # "windows",
             f = "skip" => d \in {"kill", "return"}
      PROVE  Step(d, a, f) \in Part(o, {d}) /\ IsOne(Step(d, a, f), A(d, a, f))
  <2> USE <1>UnitPart
  <2> DEFINE c == Step(d, a, f)
  <2>1. IsOne(c, A(d, a, f))
    BY Zenon, <1>Unit
  <2>2. c \in Good(o)
    BY Zenon, <1>UnitGood
  <2> HIDE DEF c
  <2>3. 1 .. Len(c) = {1} /\ c[1].do = d /\ c[1].fail = f
    BY SMT, <2>1 DEF IsOne, A
  <2>4. Strict(c)
    BY Zenon, <2>3 DEF Strict
  <2> QED
    BY Zenon, <2>1, <2>2, <2>3, <2>4 DEF Part, c

\* StartBtcd as a part of the operations that promise something.
<1>StartBtcdPart.
      ASSUME NEW o, NEW a \in Addrs \cup {Blank}, NEW f \in Fails \ {"skip", "done"}
      PROVE  StartBtcd(a, f) \in Part(o, BtcdDos)
  <2> USE <1>StartBtcdPart
  <2> DEFINE c == StartBtcd(a, f)
  <2>1. /\ c \in Seq(Typed) /\ Len(c) = 6
        /\ c[1] = A("absent", "btcd", f) /\ c[2] = A("startBtcd", a, f) /\ c[3] = A("present", "btcd", f)
        /\ c[4] = A("miningaddr", a, f) /\ c[5] = A("truncate", Blank, f) /\ c[6] = A("write", Blank, f)
    BY Zenon, <1>StartBtcdSteps
  <2>2. c \in Good(o)
    BY Zenon, <1>StartBtcdGood
  <2> HIDE DEF c
  <2>3. 1 .. Len(c) = {1, 2, 3, 4, 5, 6}
    BY SMT, <2>1
  <2>5. \A i \in {1, 2, 3, 4, 5, 6} : c[i].fail = f /\ c[i].do \in BtcdDos
    BY SMT, <2>1 DEF A, BtcdDos
  <2>6. Strict(c) /\ \A i \in 1 .. Len(c) : c[i].do \in BtcdDos
    BY Zenon, <2>3, <2>5 DEF Strict, BtcdDos
  <2> QED
    BY Zenon, <2>2, <2>6 DEF Part, c

\* With the temp file initialised before.
<1>InitStartPart.
      ASSUME NEW o, NEW a \in Addrs \cup {Blank}, NEW g \in {"stopBtcd", "stopBtcdWallet"}
      PROVE  /\ initializeTempFile("return") \o StartBtcd(a, g) \in Part(o, BtcdDos)
             /\ Has(initializeTempFile("return") \o StartBtcd(a, g), Does("startBtcd"))
  <2> USE <1>InitStartPart
  <2> DEFINE c == initializeTempFile("return") \o StartBtcd(a, g)
  <2>0. "return" \in Fails /\ g \in Fails
    BY Zenon DEF Fails
  <2>1. /\ c \in Good(o) /\ Len(c) = 9
        /\ c[1] = A("initTemp", Blank, "return") /\ c[2] = A("truncate", Blank, "return")
        /\ c[3] = A("write", Blank, "return")
        /\ c[4] = A("absent", "btcd", g) /\ c[5] = A("startBtcd", a, g) /\ c[6] = A("present", "btcd", g)
        /\ c[7] = A("miningaddr", a, g) /\ c[8] = A("truncate", Blank, g) /\ c[9] = A("write", Blank, g)
    BY Zenon, <2>0, <1>InitStartGood
  <2> HIDE DEF c
  <2>3. 1 .. Len(c) = {1, 2, 3, 4, 5, 6, 7, 8, 9}
    BY SMT, <2>1
  <2>5. \A i \in {1, 2, 3, 4, 5, 6, 7, 8, 9} : c[i].fail \in {"return", g} /\ c[i].do \in BtcdDos
    BY SMT, <2>1 DEF A, BtcdDos
  <2>6. Strict(c) /\ \A i \in 1 .. Len(c) : c[i].do \in BtcdDos
    BY Zenon, <2>3, <2>5 DEF Strict, BtcdDos
  <2>7. c[5] \in Steps /\ c[5].do = "startBtcd"
    <3>1. c \in Seq(Steps)
      BY Zenon, <2>1, TypedSteps DEF Good
    <3>3. c[5] \in Steps
      BY Zenon, <2>3, <3>1, Items
    <3>4. c[5].do = "startBtcd"
      BY SMT, <2>1 DEF A
    <3> QED
      BY <3>3, <3>4
  <2>8. Has(c, Does("startBtcd"))
    BY Zenon, <2>3, <2>7 DEF Has, Does
  <2> QED
    BY Zenon, <2>1, <2>6, <2>8 DEF Part, c

\* StartBtcwallet as such a part.
<1>StartBtcwalletPart.
      ASSUME NEW o, NEW f \in Fails \ {"skip", "done"}
      PROVE  StartBtcwallet(f) \in Part(o, WalletDos) /\ Has(StartBtcwallet(f), Does("startBtcwallet"))
  <2> USE <1>StartBtcwalletPart
  <2> DEFINE c == StartBtcwallet(f)
  <2>1. /\ c \in Good(o)
        /\ IsThree(c, A("absent", "btcwallet", f), A("startBtcwallet", Blank, f), A("present", "btcwallet", f))
    BY Zenon, <1>StartBtcwalletGood
  <2> HIDE DEF c
  <2>2. 1 .. Len(c) = {1, 2, 3}
    BY SMT, <2>1 DEF IsThree
  <2>3. \A i \in {1, 2, 3} : c[i].fail = f /\ c[i].do \in WalletDos
    BY SMT, <2>1 DEF A, WalletDos, IsThree
  <2>4. Strict(c) /\ \A i \in 1 .. Len(c) : c[i].do \in WalletDos
    BY Zenon, <2>2, <2>3 DEF Strict, WalletDos
  <2>5. c \in Seq(Steps) /\ Len(c) = 3
    BY Zenon, <2>1, TypedSteps DEF IsThree
  <2>6. c[2] \in Steps
    BY SMTT(20), <2>5
  <2>7. c[2].do = "startBtcwallet"
    BY SMT, <2>1 DEF IsThree, A
  <2>8. Has(c, Does("startBtcwallet"))
    BY Zenon, <2>2, <2>6, <2>7 DEF Has, Does
  <2> QED
    BY Zenon, <2>1, <2>4, <2>8 DEF Part, c

\* RemoveMainnet as such a part.
<1>RemoveMainnetPart. ASSUME NEW o PROVE RemoveMainnet("return") \in Part(o, {"kill", "removeMainnet"})
  <2> USE <1>RemoveMainnetPart
  <2> DEFINE c == RemoveMainnet("return")
  <2>1. /\ c \in Good(o)
        /\ IsThree(c, A("kill", "btcd", "skip"), A("kill", "btcwallet", "skip"), A("removeMainnet", Blank, "return"))
    BY Zenon, <1>RemoveMainnetGood
  <2> HIDE DEF c
  <2>2. 1 .. Len(c) = {1, 2, 3}
    BY SMT, <2>1 DEF IsThree
  <2>3. /\ c[1].do = "kill" /\ c[2].do = "kill" /\ c[3].do = "removeMainnet"
        /\ c[1].fail = "skip" /\ c[2].fail = "skip" /\ c[3].fail = "return"
    BY SMT, <2>1 DEF A, IsThree
  <2>4. Strict(c) /\ \A i \in 1 .. Len(c) : c[i].do \in {"kill", "removeMainnet"}
    BY Zenon, <2>2, <2>3 DEF Strict
  <2> QED
    BY Zenon, <2>1, <2>4 DEF Part, c

\* A step that stops a process.
<1>KillPart.
      ASSUME NEW o, NEW d \in {"kill", "killIfRunning"}, NEW n \in {"btcd", "btcwallet"}, NEW f \in Fails \ {"done"},
             f = "skip" => d = "kill"
      PROVE  Step(d, n, f) \in Part(o, {d}) /\ Has(Step(d, n, f), Kills(n))
  <2> USE <1>KillPart
  <2> DEFINE c == Step(d, n, f)
  <2>1. Takes(d, n)
    BY Zenon DEF Takes, Dos, Args
  <2>2. c \in Part(o, {d}) /\ IsOne(c, A(d, n, f))
    BY Zenon, <2>1, <1>UnitPart DEF Updates
  <2> HIDE DEF c
  <2>3. c \in Seq(Steps) /\ Len(c) = 1
    BY Zenon, <2>2, TypedSteps DEF IsOne
  <2>4. c[1] \in Steps /\ 1 \in 1 .. Len(c)
    BY SMTT(20), <2>3
  <2>5. c[1].do = d /\ c[1].arg = n
    BY SMT, <2>2 DEF IsOne, A
  <2>6. Has(c, Kills(n))
    BY Zenon, <2>4, <2>5 DEF Has, Kills
  <2> QED
    BY Zenon, <2>2, <2>6 DEF c

\* The last step.
<1>ReturnPart.
      ASSUME NEW o, NEW res \in Results
      PROVE  /\ Return(res) \in Part(o, {"return"}) /\ Ended(Return(res))
             /\ IsOne(Return(res), A("return", res, "skip"))
  <2> USE <1>ReturnPart
  <2> DEFINE c == Return(res)
  <2>1. Takes("return", res) /\ "skip" \in Fails \ {"done"}
    BY Zenon DEF Takes, Dos, Args, Fails
  <2>2. c \in Part(o, {"return"}) /\ IsOne(c, A("return", res, "skip"))
    BY Zenon, <2>1, <1>UnitPart DEF Updates, Return
  <2> HIDE DEF c
  <2>3. Ended(c)
    BY SMT, <2>2 DEF IsOne, A, Ended
  <2> QED
    BY Zenon, <2>2, <2>3 DEF c

\* It stops both processes.
<1>StopAllPart.
      ASSUME NEW o
      PROVE  /\ StopAll \in Part(o, LogoutDos)
             /\ Has(StopAll, Kills("btcd")) /\ Has(StopAll, Kills("btcwallet"))
  <2> USE <1>StopAllPart
  <2> DEFINE k == Step("killIfRunning", "btcwallet", "return")
             b == Step("killIfRunning", "btcd", "return")
             m == updateTempFile("miningaddr", Blank, "return")
             c == b \o m
             u == updateTempFile("status", Blank, "return")
  <2>0. "return" \in Fails \ {"done"} /\ "return" # "skip"
    BY Zenon DEF Fails
  <2>1. k \in Part(o, {"killIfRunning"}) /\ Has(k, Kills("btcwallet"))
    BY Zenon, <2>0, <1>KillPart
  <2>2. b \in Part(o, {"killIfRunning"}) /\ Has(b, Kills("btcd"))
    BY Zenon, <2>0, <1>KillPart
  <2>3. /\ c \in Good(o) /\ Len(c) = 4
        /\ c[1] = A("killIfRunning", "btcd", "return") /\ c[2] = A("miningaddr", Blank, "return")
        /\ c[3] = A("truncate", Blank, "return") /\ c[4] = A("write", Blank, "return")
    BY Zenon, <1>ForgetGood
  <2>4. m \in Seq(Typed)
    <3>1. Takes("miningaddr", Blank)
      BY Zenon DEF Takes, Dos, Args, Results
    <3> QED
      BY Zenon, <2>0, <3>1, <1>UpdateSteps DEF IsThree
  <2>5. Takes("status", Blank)
    BY Zenon DEF Takes, Dos, Args, Results
  <2>6. u \in Good(o) /\ IsThree(u, A("status", Blank, "return"), A("truncate", Blank, "return"), A("write", Blank, "return"))
    BY Zenon, <2>0, <2>5, <1>UpdateGood, <1>UpdateSteps
  <2>7. Has(c, Kills("btcd"))
    BY Zenon, <2>2, <2>4, <1>PartSteps, TypedSteps, <1>HasJoin
  <2>8. StopAll = (k \o c) \o u
    <3>1. (k \o b) \o m = k \o c
      <4>1. k \in Seq(Typed) /\ b \in Seq(Typed)
        BY Zenon, <2>1, <2>2, <1>PartSteps
      <4> QED
        BY Zenon, <4>1, <2>4, <1>Associative
    <3> QED
      BY Zenon, <3>1 DEF StopAll
  <2> HIDE DEF k, c, u
  <2>9. c \in Part(o, LogoutDos)
    <3>1. 1 .. Len(c) = {1, 2, 3, 4}
      BY SMT, <2>3
    <3>2. \A i \in {1, 2, 3, 4} : c[i].fail = "return" /\ c[i].do \in LogoutDos
      BY SMT, <2>3 DEF A, LogoutDos
    <3>3. Strict(c) /\ \A i \in 1 .. Len(c) : c[i].do \in LogoutDos
      BY Zenon, <3>1, <3>2 DEF Strict, LogoutDos
    <3> QED
      BY Zenon, <2>3, <3>3 DEF Part
  <2>10. u \in Part(o, LogoutDos)
    <3>1. 1 .. Len(u) = {1, 2, 3}
      BY SMT, <2>6 DEF IsThree
    <3>2. \A i \in {1, 2, 3} : u[i].fail = "return" /\ u[i].do \in LogoutDos
      BY SMT, <2>6 DEF A, LogoutDos, IsThree
    <3>3. Strict(u) /\ \A i \in 1 .. Len(u) : u[i].do \in LogoutDos
      BY Zenon, <3>1, <3>2 DEF Strict, LogoutDos
    <3> QED
      BY Zenon, <2>6, <3>3 DEF Part
  <2>11. k \in Part(o, LogoutDos)
    <3>1. {"killIfRunning"} \subseteq LogoutDos
      BY Zenon DEF LogoutDos
    <3> QED
      BY Zenon, <2>1, <3>1, <1>PartIn
  <2>12. k \o c \in Part(o, LogoutDos)
    BY Zenon, <2>9, <2>11, <1>PartJoin
  <2>13. (k \o c) \o u \in Part(o, LogoutDos)
    BY Zenon, <2>10, <2>12, <1>PartJoin
  <2>14. Has(k \o c, Kills("btcd")) /\ Has(k \o c, Kills("btcwallet"))
    BY Zenon, <2>1, <2>7, <2>9, <1>PartSteps, <1>HasJoin
  <2>15. Has((k \o c) \o u, Kills("btcd")) /\ Has((k \o c) \o u, Kills("btcwallet"))
    BY Zenon, <2>10, <2>12, <2>14, <1>PartSteps, <1>HasJoin
  <2> QED
    BY Zenon, <2>8, <2>13, <2>15

\* Login keeps its promise if it looks for the wallet and starts both processes
\* after it stopped them.
<1>PromisesLogin.
      ASSUME NEW c, c \in Good(os), Ended(c), Strict(c), OneReturn(c), ~Has(c, Does("removeDB")),
             Later(c, Kills("btcd") \cup Kills("btcwallet"), Does("startBtcd")),
             Later(c, Does("startBtcd"), Does("startBtcwallet")),
             Later(c, Does("walletExists"), Does("startBtcwallet")),
             Has(c, Does("walletExists")), Has(c, Does("startBtcd")), Has(c, Does("startBtcwallet"))
      PROVE  Begins("Login", c)
  BY Zenon, <1>PromisesLogin DEF Begins, OpShape, Serve, StopOps

\* The other operations do if they stop what they start, and both at least once.
<1>PromisesStop.
      ASSUME NEW op \in StopOps, NEW c, c \in Good(os), Ended(c), Strict(c), OneReturn(c),
             Later(c, Does("startBtcd"), Kills("btcd")),
             Later(c, Does("startBtcwallet") \cup Does("create"), Kills("btcwallet")),
             Has(c, Kills("btcd")), Has(c, Kills("btcwallet"))
      PROVE  Begins(op, c)
  BY Zenon, <1>PromisesStop DEF Begins, OpShape, Serve, StopOps

\* What the names of steps exclude.
<1>Distinct.
      /\ \A d : \A x \in Does(d) : x.do = d
      /\ \A n : \A x \in Kills(n) : x.do \in {"kill", "killIfRunning"}
  BY Zenon DEF Does, Kills

\* Nothing follows the return of an operation.
<1>OneReturnJoin.
      ASSUME NEW o, NEW X, NEW s \in Part(o, X), "return" \notin X, NEW e \in Seq(Typed), OneReturn(e)
      PROVE  OneReturn(s \o e)
  <2> USE <1>OneReturnJoin
  <2> DEFINE u == s \o e
  <2>1. IsJoin(s, e, u) /\ Len(s) \in Nat /\ Len(e) \in Nat
    BY Zenon, <1>PartSteps, <1>TypedJoin, Items
  <2> HIDE DEF u
  <2>2. Len(u) = Len(s) + Len(e)
    BY Zenon, <2>1 DEF IsJoin
  <2>3. ASSUME NEW i \in 1 .. Len(u), u[i].do = "return" PROVE i = Len(u)
    <3>1. CASE i \in 1 .. Len(s)
      BY Zenon, <2>1, <2>3, <3>1 DEF IsJoin, Part
    <3>2. CASE i \notin 1 .. Len(s)
      <4>1. i - Len(s) \in 1 .. Len(e) /\ i = Len(s) + (i - Len(s))
        BY SMT, <2>1, <2>2, <3>2
      <4>2. e[i - Len(s)].do = "return"
        BY Zenon, <2>1, <2>3, <4>1 DEF IsJoin
      <4>3. i - Len(s) = Len(e)
        BY Zenon, <4>1, <4>2 DEF OneReturn
      <4> QED
        BY SMT, <2>1, <2>2, <4>1, <4>3
    <3> QED
      BY Zenon, <3>1, <3>2
  <2> QED
    BY Zenon, <2>3 DEF u, OneReturn

\* An answer is one step.
<1>ReturnOnce. ASSUME NEW res \in Results PROVE OneReturn(Return(res))
  <2> USE <1>ReturnOnce
  <2>1. Len(Return(res)) = 1
    BY Zenon, <1>ReturnPart DEF IsOne
  <2>2. 1 .. Len(Return(res)) = {1}
    BY SMT, <2>1
  <2> QED
    BY Zenon, <2>1, <2>2 DEF OneReturn

\* A part with the answer after it.
<1>Finish.
      ASSUME NEW X, NEW s \in Part(os, X), "return" \notin X, NEW res \in Results
      PROVE  LET c == s \o Return(res) IN c \in Good(os) /\ Strict(c) /\ Ended(c) /\ OneReturn(c)
  <2> USE <1>Finish
  <2> DEFINE e == Return(res)
  <2>1. e \in Part(os, {"return"}) /\ Ended(e) /\ OneReturn(e)
    BY Zenon, <1>ReturnPart, <1>ReturnOnce
  <2> HIDE DEF e
  <2>2. e \in Good(os) /\ e \in Seq(Typed) /\ e \in Seq(Steps) /\ Strict(e)
    BY Zenon, <2>1, <1>PartSteps
  <2>3. s \in Good(os) /\ s \in Seq(Steps) /\ Strict(s)
    BY Zenon, <1>PartSteps
  <2>4. s \o e \in Good(os) /\ Strict(s \o e) /\ Ended(s \o e)
    BY Zenon, <2>1, <2>2, <2>3, <1>GoodJoin, <1>StrictJoin, <1>EndedJoin
  <2>5. OneReturn(s \o e)
    BY Zenon, <2>1, <2>2, <1>OneReturnJoin
  <2> QED
    BY Zenon, <2>4, <2>5 DEF e

\* SetupMainnetDirectory on this system.
<1>SetupPart. SetupMainnetDirectory("return") \in Part(os, {"removeMainnet"})
  <2>1. CASE os = "darwin"
    <3>1. Takes("removeMainnet", Blank) /\ "return" \in Fails \ {"done"} /\ "return" # "skip" /\ os # "windows"
      BY Zenon, <2>1 DEF Takes, Dos, Args, Results, Fails
    <3>2. Step("removeMainnet", Blank, "return") \in Part(os, {"removeMainnet"})
      BY Zenon, <3>1, <1>UnitPart DEF Updates
    <3> QED
      BY Zenon, <2>1, <3>2 DEF SetupMainnetDirectory
  <2>2. CASE os # "darwin"
    <3>1. <<>> \in Seq(Typed) /\ Len(<<>>) = 0 /\ 1 .. 0 = {}
      BY SMT
    <3>2. ~(0 > 0) /\ ~(0 > 1)
      BY SMT
    <3>3. <<>> \in Part(os, {"removeMainnet"})
      BY Zenon, <3>1, <3>2 DEF Part, Good, Shape, Fresh, Strict
    <3> QED
      BY Zenon, <2>2, <3>3 DEF SetupMainnetDirectory
  <2> QED
    BY <2>1, <2>2

\* initializeTempFile is typed.
<1>InitTempTyped. initializeTempFile("return") \in Seq(Typed)
  <2>1. Takes("initTemp", Blank) /\ Takes("truncate", Blank) /\ Takes("write", Blank) /\ "return" \in Fails
    BY Zenon DEF Takes, Dos, Args, Results, Fails
  <2>2. IsOne(Step("initTemp", Blank, "return"), A("initTemp", Blank, "return"))
    BY Zenon, <2>1, <1>Unit
  <2>3. IsOne(Step("truncate", Blank, "return"), A("truncate", Blank, "return"))
    BY Zenon, <2>1, <1>Unit
  <2>4. IsOne(Step("write", Blank, "return"), A("write", Blank, "return"))
    BY Zenon, <2>1, <1>Unit
  <2>5. IsThree(initializeTempFile("return"), A("initTemp", Blank, "return"), A("truncate", Blank, "return"),
                A("write", Blank, "return"))
    BY Zenon, <2>2, <2>3, <2>4, <1>Three DEF initializeTempFile
  <2> QED
    BY Zenon, <2>5 DEF IsThree

\* Login begins with its promise ahead of it.
<1>LoginBegins. ASSUME NEW addr \in Addrs PROVE Begins("Login", Login(addr))
  <2> USE <1>LoginBegins
  <2> DEFINE w == Step("walletExists", Blank, "return")
             s == SetupMainnetDirectory("return")
             m == RemoveMainnet("return")
             i == initializeTempFile("return")
             b == StartBtcd(addr, "stopBtcd")
             ib == i \o b
             x == StartBtcwallet("stopWalletBtcd")
             n == UnlockWallet("stopWalletBtcd")
             t == ConnectToTAServer("stopBtcdWallet")
             e == Return("ok")
             X == {"walletExists", "removeMainnet", "kill"}
             k == (w \o s) \o m
             c1 == k \o ib
             c2 == c1 \o x
             c3 == c2 \o n
             c4 == c3 \o t
             c5 == c4 \o e
             Y == X \cup BtcdDos \cup WalletDos \cup {"unlock", "rpc"}
  <2>1. /\ "return" \in Fails \ {"done"} /\ "stopWalletBtcd" \in Fails \ {"skip", "done"} /\ "return" # "skip"
        /\ "stopBtcdWallet" \in Fails \ {"skip", "done"} /\ "ok" \in Results
        /\ Takes("walletExists", Blank) /\ Takes("unlock", "both") /\ Takes("rpc", "btcd")
        /\ "stopBtcd" \in Fails /\ addr \in Addrs \cup {Blank}
    BY Zenon DEF Takes, Dos, Args, Results, Fails
  <2>2. w \in Part(os, {"walletExists"}) /\ IsOne(w, A("walletExists", Blank, "return"))
    BY Zenon, <2>1, <1>UnitPart DEF Updates
  <2>3. n \in Part(os, {"unlock"})
    BY Zenon, <2>1, <1>UnitPart DEF Updates, UnlockWallet
  <2>4. t \in Part(os, {"rpc"})
    BY Zenon, <2>1, <1>UnitPart DEF Updates, ConnectToTAServer, Btcctl
  <2>5. e \in Part(os, {"return"}) /\ Ended(e)
    BY Zenon, <2>1, <1>ReturnPart
  <2>6. x \in Part(os, WalletDos) /\ Has(x, Does("startBtcwallet"))
    BY Zenon, <2>1, <1>StartBtcwalletPart
  <2>7. ib \in Part(os, BtcdDos) /\ Has(ib, Does("startBtcd"))
    BY Zenon, <2>1, <1>InitStartPart
  <2>8. s \in Part(os, {"removeMainnet"})
    BY Zenon, <1>SetupPart
  <2>9. m \in Part(os, {"kill", "removeMainnet"})
    BY Zenon, <1>RemoveMainnetPart
  <2>10. i \in Seq(Typed) /\ b \in Seq(Typed)
    BY Zenon, <2>1, <1>InitTempTyped, <1>StartBtcdSteps
  <2>11. k \in Part(os, X)
    <3> HIDE DEF w, s, m
    <3>0. {"walletExists"} \subseteq X /\ {"removeMainnet"} \subseteq X /\ {"kill", "removeMainnet"} \subseteq X
      BY Zenon
    <3> HIDE DEF X
    <3>1. w \in Part(os, X) /\ s \in Part(os, X) /\ m \in Part(os, X)
      BY Zenon, <2>2, <2>8, <2>9, <3>0, <1>PartIn
    <3>2. w \o s \in Part(os, X)
      BY Zenon, <3>1, <1>PartJoin
    <3> QED
      BY Zenon, <3>1, <3>2, <1>PartJoin
  <2>12. Has(k, Does("walletExists"))
    <3>1. w \in Seq(Steps) /\ s \in Seq(Steps) /\ m \in Seq(Steps)
      BY Zenon, <2>2, <2>8, <2>9, <1>PartSteps
    <3>2. Has(w, Does("walletExists"))
      <4>1. Len(w) = 1 /\ w[1].do = "walletExists" /\ 1 \in 1 .. 1
        BY SMT, <2>2 DEF IsOne, A
      <4>2. w[1] \in Steps
        BY Zenon, <4>1, <3>1, Items
      <4> QED
        BY Zenon, <4>1, <4>2 DEF Has, Does
    <3> HIDE DEF w, s, m
    <3>3. w \o s \in Seq(Steps) /\ Has(w \o s, Does("walletExists"))
      BY Zenon, <3>1, <3>2, <1>HasJoin, <1>Joined
    <3> QED
      BY Zenon, <3>1, <3>3, <1>HasJoin
  <2>13. Login(addr) = c5
    <3>1. k \in Seq(Typed)
      BY Zenon, <2>11, <1>PartSteps
    <3>2. (k \o i) \o b = c1
      <4> HIDE DEF k, i, b
      <4> QED
        BY Zenon, <2>10, <3>1, <1>Associative
    <3> QED
      BY Zenon, <3>2 DEF Login
  <2> HIDE DEF k, ib, x, n, t, e
  <2>14. k \in Part(os, Y) /\ ib \in Part(os, Y) /\ x \in Part(os, Y) /\ n \in Part(os, Y)
         /\ t \in Part(os, Y)
    <3>1. /\ X \subseteq Y /\ BtcdDos \subseteq Y /\ WalletDos \subseteq Y
          /\ {"unlock"} \subseteq Y /\ {"rpc"} \subseteq Y
      BY Zenon
    <3> HIDE DEF X, Y
    <3> QED
      BY Zenon, <2>3, <2>4, <2>6, <2>7, <2>11, <3>1, <1>PartIn
  <2>15. c1 \in Part(os, Y) /\ c2 \in Part(os, Y) /\ c3 \in Part(os, Y) /\ c4 \in Part(os, Y)
    BY Zenon, <2>14, <1>PartJoin
  <2>16. c1 \in Seq(Steps) /\ c2 \in Seq(Steps) /\ c3 \in Seq(Steps) /\ c4 \in Seq(Steps) /\ k \in Seq(Steps)
    BY Zenon, <2>11, <2>15, <1>PartSteps
  <2> DEFINE K == Kills("btcd") \cup Kills("btcwallet")
             SB == Does("startBtcd")
             SW == Does("startBtcwallet")
             WE == Does("walletExists")
  <2>17. /\ \A y \in K : y.do \notin BtcdDos /\ y.do \notin WalletDos
                         /\ y.do \notin {"unlock"} /\ y.do \notin {"rpc"} /\ y.do \notin {"return"}
         /\ \A y \in SB : y.do \notin WalletDos
                         /\ y.do \notin {"unlock"} /\ y.do \notin {"rpc"} /\ y.do \notin {"return"}
         /\ \A y \in WE : y.do \notin WalletDos
                         /\ y.do \notin {"unlock"} /\ y.do \notin {"rpc"} /\ y.do \notin {"return"}
    BY Zenon, <1>Distinct DEF BtcdDos, WalletDos
  <2> HIDE DEF K, SB, SW, WE
  <2>18. Later(c1, K, SB) /\ Has(c1, SB) /\ Has(c1, WE)
    <3>1. Later(c1, K, SB)
      BY Zenon, <2>7, <2>16, <2>17, <1>LaterEnd DEF SB
    <3> QED
      BY Zenon, <3>1, <2>7, <2>12, <2>16, <1>PartSteps, <1>HasJoin DEF SB, WE
  <2>19. Later(c2, K, SB) /\ Later(c2, SB, SW) /\ Later(c2, WE, SW)
         /\ Has(c2, SB) /\ Has(c2, SW) /\ Has(c2, WE)
    <3>1. Later(c2, K, SB)
      BY Zenon, <2>6, <2>16, <2>17, <2>18, <1>LaterAppend
    <3>2. Later(c2, SB, SW) /\ Later(c2, WE, SW)
      BY Zenon, <2>6, <2>16, <2>17, <1>LaterEnd DEF SW
    <3> QED
      BY Zenon, <3>1, <3>2, <2>6, <2>16, <2>18, <1>PartSteps, <1>HasJoin DEF SW
  <2>20. Later(c3, K, SB) /\ Later(c3, SB, SW) /\ Later(c3, WE, SW)
         /\ Has(c3, SB) /\ Has(c3, SW) /\ Has(c3, WE)
    <3>1. Later(c3, K, SB) /\ Later(c3, SB, SW) /\ Later(c3, WE, SW)
      BY Zenon, <2>3, <2>16, <2>17, <2>19, <1>LaterAppend
    <3> QED
      BY Zenon, <3>1, <2>3, <2>16, <2>19, <1>PartSteps, <1>HasJoin
  <2>21. Later(c4, K, SB) /\ Later(c4, SB, SW) /\ Later(c4, WE, SW)
         /\ Has(c4, SB) /\ Has(c4, SW) /\ Has(c4, WE)
    <3>1. Later(c4, K, SB) /\ Later(c4, SB, SW) /\ Later(c4, WE, SW)
      BY Zenon, <2>4, <2>16, <2>17, <2>20, <1>LaterAppend
    <3> QED
      BY Zenon, <3>1, <2>4, <2>16, <2>20, <1>PartSteps, <1>HasJoin
  <2>22. Later(c5, K, SB) /\ Later(c5, SB, SW) /\ Later(c5, WE, SW)
         /\ Has(c5, SB) /\ Has(c5, SW) /\ Has(c5, WE)
    <3>1. Later(c5, K, SB) /\ Later(c5, SB, SW) /\ Later(c5, WE, SW)
      BY Zenon, <2>5, <2>16, <2>17, <2>21, <1>LaterAppend
    <3> QED
      BY Zenon, <3>1, <2>5, <2>16, <2>21, <1>PartSteps, <1>HasJoin
  <2>23. c5 \in Good(os) /\ Strict(c5) /\ Ended(c5) /\ OneReturn(c5)
    <3>1. "return" \notin Y /\ "ok" \in Results
      BY Zenon, <2>1 DEF BtcdDos, WalletDos
    <3> HIDE DEF Y, c4
    <3> QED
      BY Zenon, <2>15, <3>1, <1>Finish DEF e
  <2>24. ~Has(c5, Does("removeDB"))
    <3>1. \A y \in Does("removeDB") : y.do \notin Y /\ y.do \notin {"return"}
      BY Zenon, <1>Distinct DEF BtcdDos, WalletDos
    <3> HIDE DEF Y, c4
    <3>2. ~Has(c4, Does("removeDB")) /\ ~Has(e, Does("removeDB"))
      BY Zenon, <2>5, <2>15, <3>1, <1>Lacks
    <3> QED
      BY Zenon, <2>5, <2>16, <3>2, <1>PartSteps, <1>HasJoin
  <2> QED
    BY Zenon, <2>13, <2>22, <2>23, <2>24, <1>PromisesLogin DEF K, SB, SW, WE

\* Init and CreateWallet end with the stops of both processes.
<1>StopsAtEnd.
      ASSUME NEW c \in Seq(Steps), NEW d \in {"kill", "killIfRunning"},
             NEW kw \in Part(os, {d}), NEW kb \in Part(os, {d}), NEW e \in Part(os, {"return"}),
             Has(kw, Kills("btcwallet")), Has(kb, Kills("btcd"))
      PROVE  LET u == ((c \o kw) \o kb) \o e IN
             /\ Later(u, Does("startBtcd"), Kills("btcd"))
             /\ Later(u, Does("startBtcwallet") \cup Does("create"), Kills("btcwallet"))
             /\ Has(u, Kills("btcd")) /\ Has(u, Kills("btcwallet"))
  <2> USE <1>StopsAtEnd
  <2> DEFINE c1 == c \o kw
             c2 == c1 \o kb
             c3 == c2 \o e
             SB == Does("startBtcd")
             SW == Does("startBtcwallet") \cup Does("create")
  <2>1. kw \in Seq(Steps) /\ kb \in Seq(Steps) /\ e \in Seq(Steps)
    BY Zenon, <1>PartSteps
  <2>2. /\ \A y \in SB : y.do \notin {d} /\ y.do \notin {"return"}
        /\ \A y \in SW : y.do \notin {d} /\ y.do \notin {"return"}
    BY Zenon, <1>Distinct
  <2> HIDE DEF SB, SW
  <2>3. c1 \in Seq(Steps) /\ Later(c1, SW, Kills("btcwallet")) /\ Has(c1, Kills("btcwallet"))
    <3>1. c1 \in Seq(Steps)
      BY Zenon, <2>1, <1>Joined
    <3>2. Later(c1, SW, Kills("btcwallet"))
      BY Zenon, <2>2, <1>LaterEnd
    <3> QED
      BY Zenon, <3>1, <3>2, <2>1, <1>HasJoin
  <2> HIDE DEF c1
  <2>4. /\ c2 \in Seq(Steps) /\ Later(c2, SW, Kills("btcwallet")) /\ Has(c2, Kills("btcwallet"))
        /\ Later(c2, SB, Kills("btcd")) /\ Has(c2, Kills("btcd"))
    <3>1. c2 \in Seq(Steps)
      BY Zenon, <2>1, <2>3, <1>Joined
    <3>2. Later(c2, SB, Kills("btcd"))
      BY Zenon, <2>2, <2>3, <1>LaterEnd
    <3>3. Later(c2, SW, Kills("btcwallet"))
      BY Zenon, <2>2, <2>3, <1>LaterAppend
    <3> QED
      BY Zenon, <3>1, <3>2, <3>3, <2>1, <2>3, <1>HasJoin
  <2> HIDE DEF c2
  <2>5. /\ Later(c3, SW, Kills("btcwallet")) /\ Has(c3, Kills("btcwallet"))
        /\ Later(c3, SB, Kills("btcd")) /\ Has(c3, Kills("btcd"))
    <3>1. Later(c3, SW, Kills("btcwallet")) /\ Later(c3, SB, Kills("btcd"))
      BY Zenon, <2>2, <2>4, <1>LaterAppend
    <3> QED
      BY Zenon, <3>1, <2>1, <2>4, <1>HasJoin
  <2> QED
    BY Zenon, <2>5 DEF c1, c2, SB, SW

\* Init does.
<1>InitServiceBegins. Begins("Init", InitService)
  <2> DEFINE m == IF os = "darwin" THEN SetupMainnetDirectory("return") ELSE RemoveMainnet("return")
             i == initializeTempFile("return")
             b == StartBtcd(Blank, "stopBtcdWallet")
             ib == i \o b
             x == StartBtcwallet("stopBtcdWallet")
             t == ConnectToTAServer("stopBtcdWallet")
             kw == Step("killIfRunning", "btcwallet", "return")
             kb == Step("killIfRunning", "btcd", "return")
             e == Return("ok")
             c1 == m \o ib
             c2 == c1 \o x
             c3 == c2 \o t
             c4 == c3 \o kw
             c5 == c4 \o kb
             c6 == c5 \o e
             X == {"kill", "removeMainnet"}
             Z == {"killIfRunning"}
             Y == X \cup BtcdDos \cup WalletDos \cup {"rpc"} \cup Z
  <2>1. /\ "return" \in Fails \ {"done"} /\ "return" # "skip" /\ "ok" \in Results
        /\ "stopBtcdWallet" \in Fails \ {"skip", "done"} /\ Takes("rpc", "btcd")
    BY Zenon DEF Takes, Dos, Args, Results, Fails
  <2>2. m \in Part(os, X)
    <3>1. {"removeMainnet"} \subseteq X
      BY Zenon
    <3> HIDE DEF X
    <3>2. SetupMainnetDirectory("return") \in Part(os, X)
      BY Zenon, <3>1, <1>SetupPart, <1>PartIn
    <3>3. RemoveMainnet("return") \in Part(os, X)
      BY Zenon, <1>RemoveMainnetPart DEF X
    <3> QED
      BY Zenon, <3>2, <3>3
  <2>3. t \in Part(os, {"rpc"})
    BY Zenon, <2>1, <1>UnitPart DEF Updates, ConnectToTAServer, Btcctl
  <2>4. kw \in Part(os, Z) /\ Has(kw, Kills("btcwallet"))
    BY Zenon, <2>1, <1>KillPart
  <2>5. kb \in Part(os, Z) /\ Has(kb, Kills("btcd"))
    BY Zenon, <2>1, <1>KillPart
  <2>6. e \in Part(os, {"return"}) /\ Ended(e)
    BY Zenon, <2>1, <1>ReturnPart
  <2>7. x \in Part(os, WalletDos)
    BY Zenon, <2>1, <1>StartBtcwalletPart
  <2>8. ib \in Part(os, BtcdDos)
    BY Zenon, <1>InitStartPart
  <2>9. i \in Seq(Typed) /\ b \in Seq(Typed)
    BY Zenon, <2>1, <1>InitTempTyped, <1>StartBtcdSteps
  <2>10. InitService = c6
    <3>1. m \in Seq(Typed)
      BY Zenon, <2>2, <1>PartSteps
    <3>2. (m \o i) \o b = c1
      <4> HIDE DEF m, i, b
      <4> QED
        BY Zenon, <2>9, <3>1, <1>Associative
    <3> QED
      BY Zenon, <3>2 DEF InitService
  <2> HIDE DEF m, ib, x, t, kw, kb, e
  <2>11. m \in Part(os, Y) /\ ib \in Part(os, Y) /\ x \in Part(os, Y) /\ t \in Part(os, Y)
         /\ kw \in Part(os, Y) /\ kb \in Part(os, Y)
    <3>1. /\ X \subseteq Y /\ BtcdDos \subseteq Y /\ WalletDos \subseteq Y
          /\ {"rpc"} \subseteq Y /\ Z \subseteq Y
      BY Zenon
    <3> HIDE DEF X, Y, Z
    <3> QED
      BY Zenon, <2>2, <2>3, <2>4, <2>5, <2>6, <2>7, <2>8, <3>1, <1>PartIn
  <2>12. c1 \in Part(os, Y) /\ c2 \in Part(os, Y) /\ c3 \in Part(os, Y) /\ c4 \in Part(os, Y)
         /\ c5 \in Part(os, Y)
    BY Zenon, <2>11, <1>PartJoin
  <2>13. c3 \in Seq(Steps) /\ c4 \in Seq(Steps) /\ c5 \in Seq(Steps)
    BY Zenon, <2>12, <1>PartSteps
  <2>14. c6 \in Good(os) /\ Strict(c6) /\ Ended(c6) /\ OneReturn(c6)
    <3>1. "return" \notin Y /\ "ok" \in Results
      BY Zenon, <2>1 DEF BtcdDos, WalletDos
    <3> HIDE DEF Y, c5
    <3> QED
      BY Zenon, <2>12, <3>1, <1>Finish DEF e
  <2>16. /\ Later(c6, Does("startBtcd"), Kills("btcd"))
         /\ Later(c6, Does("startBtcwallet") \cup Does("create"), Kills("btcwallet"))
         /\ Has(c6, Kills("btcd")) /\ Has(c6, Kills("btcwallet"))
    BY Zenon, <2>4, <2>5, <2>6, <2>13, <1>StopsAtEnd
  <2> QED
    BY Zenon, <2>10, <2>14, <2>16, <1>PromisesStop DEF StopOps

\* CreateWallet does, for Signup.
<1>CreateWalletBegins. Begins("Signup", CreateWallet)
  <2> DEFINE b == StartBtcd(Blank, "return")
             n1 == Step("create", Blank, "stopBtcd")
             n2 == Step("created", Blank, "stopBtcd")
             n == n1 \o n2
             x == StartBtcwallet("stopBtcd")
             g == GetNewAddress("stopBtcdWallet")
             kw == StopBtcwallet("stopBtcd")
             kb == StopBtcd("return")
             e == Return("ok")
             c1 == b \o n
             c2 == c1 \o x
             c3 == c2 \o g
             c4 == c3 \o kw
             c5 == c4 \o kb
             c6 == c5 \o e
             Z == {"kill"}
             Y == BtcdDos \cup {"create"} \cup {"created"} \cup WalletDos \cup {"rpc"} \cup Z
  <2>1. /\ "return" \in Fails \ {"skip", "done"} /\ "return" # "skip" /\ "ok" \in Results
        /\ "stopBtcd" \in Fails \ {"skip", "done"} /\ "stopBtcd" # "skip" /\ "stopBtcdWallet" # "skip"
        /\ "stopBtcdWallet" \in Fails \ {"skip", "done"} /\ Takes("rpc", "both")
        /\ Takes("create", Blank) /\ Takes("created", Blank)
    BY Zenon DEF Takes, Dos, Args, Results, Fails
  <2>2. b \in Part(os, BtcdDos)
    BY Zenon, <2>1, <1>StartBtcdPart
  <2>3. g \in Part(os, {"rpc"})
    BY Zenon, <2>1, <1>UnitPart DEF Updates, GetNewAddress, Btcctl
  <2>4. kw \in Part(os, Z) /\ Has(kw, Kills("btcwallet"))
    BY Zenon, <2>1, <1>KillPart DEF StopBtcwallet
  <2>5. kb \in Part(os, Z) /\ Has(kb, Kills("btcd"))
    BY Zenon, <2>1, <1>KillPart DEF StopBtcd
  <2>6. e \in Part(os, {"return"}) /\ Ended(e)
    BY Zenon, <2>1, <1>ReturnPart
  <2>7. x \in Part(os, WalletDos)
    BY Zenon, <2>1, <1>StartBtcwalletPart
  <2>8. n1 \in Part(os, {"create"})
    BY Zenon, <2>1, <1>UnitPart DEF Updates
  <2>9. n2 \in Part(os, {"created"})
    BY Zenon, <2>1, <1>UnitPart DEF Updates
  <2>10. CreateWallet = c6
    BY Zenon DEF CreateWallet, BtcwalletCreate
  <2> HIDE DEF b, n1, n2, x, g, kw, kb, e
  <2>11. b \in Part(os, Y) /\ n1 \in Part(os, Y) /\ n2 \in Part(os, Y) /\ x \in Part(os, Y) /\ g \in Part(os, Y)
         /\ kw \in Part(os, Y) /\ kb \in Part(os, Y)
    <3>1. /\ BtcdDos \subseteq Y /\ {"create"} \subseteq Y /\ {"created"} \subseteq Y /\ WalletDos \subseteq Y
          /\ {"rpc"} \subseteq Y /\ Z \subseteq Y
      BY Zenon
    <3> HIDE DEF Y, Z
    <3> QED
      BY Zenon, <2>2, <2>3, <2>4, <2>5, <2>6, <2>7, <2>8, <2>9, <3>1, <1>PartIn
  <2>12. c1 \in Part(os, Y) /\ c2 \in Part(os, Y) /\ c3 \in Part(os, Y) /\ c4 \in Part(os, Y)
         /\ c5 \in Part(os, Y)
    BY Zenon, <2>11, <1>PartJoin
  <2>13. c3 \in Seq(Steps) /\ c4 \in Seq(Steps) /\ c5 \in Seq(Steps)
    BY Zenon, <2>12, <1>PartSteps
  <2>14. c6 \in Good(os) /\ Strict(c6) /\ Ended(c6) /\ OneReturn(c6)
    <3>1. "return" \notin Y /\ "ok" \in Results
      BY Zenon, <2>1 DEF BtcdDos, WalletDos
    <3> HIDE DEF Y, c5
    <3> QED
      BY Zenon, <2>12, <3>1, <1>Finish DEF e
  <2>16. /\ Later(c6, Does("startBtcd"), Kills("btcd"))
         /\ Later(c6, Does("startBtcwallet") \cup Does("create"), Kills("btcwallet"))
         /\ Has(c6, Kills("btcd")) /\ Has(c6, Kills("btcwallet"))
    BY Zenon, <2>4, <2>5, <2>6, <2>13, <1>StopsAtEnd
  <2> QED
    BY Zenon, <2>10, <2>14, <2>16, <1>PromisesStop DEF StopOps

\* What follows StopAll.
<1>AfterStopAll.
      ASSUME NEW X, NEW e \in Part(os, X), Ended(e), OneReturn(e), X \subseteq {"removeDB", "return"},
             NEW op \in StopOps
      PROVE  Begins(op, StopAll \o e)
  <2> USE <1>AfterStopAll
  <2> DEFINE c == StopAll \o e
             Y == LogoutDos \cup {"removeDB", "return"}
             SB == Does("startBtcd")
             SW == Does("startBtcwallet") \cup Does("create")
  <2>1. StopAll \in Part(os, Y) /\ e \in Part(os, Y)
    <3>1. LogoutDos \subseteq Y /\ X \subseteq Y
      BY Zenon
    <3> HIDE DEF Y
    <3> QED
      BY Zenon, <3>1, <1>StopAllPart, <1>PartIn
  <2>2. c \in Part(os, Y)
    BY Zenon, <2>1, <1>PartJoin
  <2>3. /\ \A y \in SB : y.do \notin Y
        /\ \A y \in SW : y.do \notin Y
    BY Zenon, <1>Distinct DEF LogoutDos
  <2>4. StopAll \in Seq(Steps) /\ e \in Seq(Steps) /\ c \in Good(os) /\ Strict(c)
    BY Zenon, <2>1, <2>2, <1>PartSteps
  <2>5. Has(c, Kills("btcd")) /\ Has(c, Kills("btcwallet"))
    BY Zenon, <2>4, <1>StopAllPart, <1>HasJoin
  <2>6. Ended(c)
    BY Zenon, <2>4, <1>EndedJoin
  <2>8. OneReturn(c)
    <3>1. "return" \notin LogoutDos /\ e \in Seq(Typed)
      BY Zenon, <1>PartSteps DEF LogoutDos
    <3> QED
      BY Zenon, <3>1, <1>StopAllPart, <1>OneReturnJoin
  <2> HIDE DEF SB, SW, Y
  <2>7. Later(c, SB, Kills("btcd")) /\ Later(c, SW, Kills("btcwallet"))
    BY Zenon, <2>2, <2>3, <1>Lacks
  <2> QED
    BY Zenon, <2>4, <2>5, <2>6, <2>7, <2>8, <1>PromisesStop DEF SB, SW

\* Logout does.
<1>LogoutBegins. Begins("Logout", Logout)
  <2>1. "ok" \in Results /\ {"return"} \subseteq {"removeDB", "return"}
    BY Zenon DEF Results
  <2> QED
    BY Zenon, <2>1, <1>ReturnPart, <1>ReturnOnce, <1>AfterStopAll DEF Logout, StopOps

\* DeleteAccount does.
<1>DeleteAccountBegins. Begins("DeleteAccount", DeleteAccount)
  <2> DEFINE X == {"removeDB", "return"}
             d == Step("removeDB", Blank, "return")
             e == Return("ok")
  <2>1. /\ "ok" \in Results /\ {"return"} \subseteq X /\ {"removeDB"} \subseteq X /\ X \subseteq {"removeDB", "return"}
        /\ Takes("removeDB", Blank) /\ "return" \in Fails \ {"done"} /\ "return" # "skip"
    BY Zenon DEF Results, Takes, Dos, Args, Fails
  <2>2. d \in Part(os, {"removeDB"})
    BY Zenon, <2>1, <1>UnitPart DEF Updates
  <2>3. e \in Part(os, {"return"}) /\ Ended(e) /\ OneReturn(e)
    BY Zenon, <2>1, <1>ReturnPart, <1>ReturnOnce
  <2>4. DeleteAccount = (StopAll \o d) \o e
    BY Zenon DEF DeleteAccount
  <2>5. StopAll \in Seq(Typed) /\ d \in Seq(Typed) /\ e \in Seq(Typed) /\ d \in Seq(Steps) /\ e \in Seq(Steps)
    BY Zenon, <2>2, <2>3, <1>StopAllPart, <1>PartSteps
  <2> HIDE DEF X, d, e
  <2>6. (StopAll \o d) \o e = StopAll \o (d \o e)
    BY Zenon, <2>5, <1>Associative
  <2>7. d \o e \in Part(os, X) /\ Ended(d \o e) /\ OneReturn(d \o e)
    <3>1. d \in Part(os, X) /\ e \in Part(os, X)
      BY Zenon, <2>1, <2>2, <2>3, <1>PartIn
    <3>2. d \o e \in Part(os, X)
      BY Zenon, <3>1, <1>PartJoin
    <3>3. Ended(d \o e)
      BY Zenon, <2>3, <2>5, <1>EndedJoin
    <3>4. "return" \notin {"removeDB"}
      BY Zenon
    <3>5. OneReturn(d \o e)
      BY Zenon, <2>2, <2>3, <2>5, <3>4, <1>OneReturnJoin
    <3> QED
      BY Zenon, <3>2, <3>3, <3>5
  <2>8. "DeleteAccount" \in StopOps
    BY Zenon DEF StopOps
  <2>9. Begins("DeleteAccount", StopAll \o (d \o e))
    BY Zenon, <2>1, <2>7, <2>8, <1>AfterStopAll
  <2> QED
    BY Zenon, <2>4, <2>6, <2>9

\* The other operations promise nothing.
<1>PromisesNothing.
      ASSUME NEW op, op \notin StopOps \cup {"Login"}, NEW c \in Good(os), Ended(c)
      PROVE  Begins(op, c)
  BY Zenon, <1>PromisesNothing DEF Begins, OpShape, Serve, StopOps

\* A step of the operations that promise nothing.
<1>AnyGood.
      ASSUME NEW d \in {"rpc", "unlock", "lock", "sign", "ifIdle", "ifMining", "generate", "generated", "readAddr", "kill"},
             NEW a \in {Blank, "btcd", "btcwallet", "both", "restart"}, NEW f \in Fails,
             d = "kill" => a \in {"btcd", "btcwallet"}
      PROVE  Step(d, a, f) \in Good(os)
  <2> USE <1>AnyGood
  <2>1. Takes(d, a) /\ d \notin Updates
    BY Zenon DEF Takes, Dos, Args, Results, Updates
  <2> QED
    BY Zenon, <2>1, <1>UnitGood

\* The answer can follow any part.
<1>ReturnGood. ASSUME NEW res \in Results PROVE Return(res) \in Good(os) /\ Ended(Return(res))
  BY Zenon, <1>ReturnGood, <1>ReturnPart, <1>PartSteps

\* StartMining can begin.
<1>StartMiningBegins. Begins("StartMining", StartMining)
  <2> DEFINE a == Step("ifIdle", "btcwallet", "return")
             b == Step("generate", "btcwallet", "return")
             c == Step("generated", Blank, "return")
             e == Return("ok")
  <2>1. "return" \in Fails /\ "ok" \in Results /\ "StartMining" \notin StopOps \cup {"Login"}
    BY Zenon DEF Fails, Results, StopOps
  <2>2. a \in Good(os) /\ b \in Good(os) /\ c \in Good(os)
    BY Zenon, <2>1, <1>AnyGood
  <2>3. e \in Good(os) /\ Ended(e)
    BY Zenon, <2>1, <1>ReturnGood
  <2>4. StartMining = ((a \o b) \o c) \o e
    BY Zenon DEF StartMining
  <2> HIDE DEF a, b, c, e
  <2>5. (a \o b) \o c \in Good(os) /\ ((a \o b) \o c) \o e \in Good(os)
    BY Zenon, <2>2, <2>3, <1>GoodJoin
  <2>6. Ended(((a \o b) \o c) \o e)
    BY Zenon, <2>3, <2>5, GoodSteps, <1>EndedJoin
  <2> QED
    BY Zenon, <2>1, <2>4, <2>5, <2>6, <1>PromisesNothing

\* StopMining can begin,
<1>StopMiningBegins. Begins("StopMining", StopMining)
  <2> DEFINE a == Step("ifMining", "btcwallet", "return")
             b == Step("readAddr", "restart", "return")
  <2>1. "return" \in Fails /\ "StopMining" \notin StopOps \cup {"Login"}
    BY Zenon DEF Fails, StopOps
  <2>2. a \in Good(os) /\ b \in Good(os)
    BY Zenon, <2>1, <1>AnyGood
  <2>3. IsOne(b, A("readAddr", "restart", "return"))
    <3>1. Takes("readAddr", "restart")
      BY Zenon DEF Takes, Dos, Args
    <3> QED
      BY Zenon, <2>1, <3>1, <1>Unit
  <2>4. StopMining = a \o b
    BY Zenon DEF StopMining
  <2> HIDE DEF a, b
  <2>5. Ended(b)
    <3>1. Len(b) = 1 /\ b[1].do = "readAddr" /\ b[1].arg = "restart" /\ b[1].fail = "return" /\ b # <<>>
      BY SMTT(20), <2>3 DEF IsOne, A
    <3> QED
      BY Zenon, <3>1 DEF Ended, ToRestart
  <2>6. a \o b \in Good(os)
    BY Zenon, <2>2, <1>GoodJoin
  <2>7. Ended(a \o b)
    BY Zenon, <2>2, <2>5, GoodSteps, <1>EndedJoin
  <2> QED
    BY Zenon, <2>1, <2>4, <2>6, <2>7, <1>PromisesNothing

\* and go on with the address it read.
<1>RestartMiningBegins.
      ASSUME NEW op, op \notin StopOps \cup {"Login"}, NEW addr \in Addrs
      PROVE  Begins(op, RestartMining(addr))
  <2> USE <1>RestartMiningBegins
  <2> DEFINE kw == StopBtcwallet("return")
             kb == StopBtcd("return")
             b == StartBtcd(addr, "noRestart")
             x == StartBtcwallet("noRestart")
             e == Return("ok")
             c == ((kw \o kb) \o b) \o x
  <2>1. "return" \in Fails /\ "noRestart" \in Fails \ {"skip"} /\ "ok" \in Results /\ addr \in Addrs \cup {Blank}
    BY Zenon DEF Fails, Results
  <2>2. kw \in Good(os) /\ kb \in Good(os)
    BY Zenon, <2>1, <1>AnyGood DEF StopBtcd, StopBtcwallet
  <2>3. b \in Good(os)
    BY Zenon, <2>1, <1>StartBtcdGood
  <2>4. x \in Good(os)
    BY Zenon, <2>1, <1>StartBtcwalletGood
  <2>5. e \in Good(os) /\ Ended(e)
    BY Zenon, <2>1, <1>ReturnGood
  <2>6. RestartMining(addr) = c \o e
    BY Zenon DEF RestartMining
  <2> HIDE DEF kw, kb, b, x, e
  <2>7. c \in Good(os)
    BY Zenon, <2>2, <2>3, <2>4, <1>GoodJoin
  <2> HIDE DEF c
  <2>8. c \o e \in Good(os)
    BY Zenon, <2>5, <2>7, <1>GoodJoin
  <2>9. Ended(c \o e)
    BY Zenon, <2>5, <2>7, GoodSteps, <1>EndedJoin
  <2> QED
    BY Zenon, <2>6, <2>8, <2>9, <1>PromisesNothing

\* Transaction can begin.
<1>TransactionBegins. Begins("Transaction", Transaction)
  <2> DEFINE g == GetBalance("return")
             u1 == updateTempFile("originalBalance", "balance", "return")
             r == CreateRawTransaction("return")
             n == UnlockWallet("return")
             s == signRawTransaction("return")
             t == sendRawTransaction("return")
             l == LockWallet("skip")
             u2 == updateTempFile("originalBalance", Blank, "done")
             e == Return("ok")
             c == ((((((g \o u1) \o r) \o n) \o s) \o t) \o l) \o u2
  <2>1. /\ "return" \in Fails /\ "skip" \in Fails /\ "done" \in Fails /\ "ok" \in Results
        /\ "Transaction" \notin StopOps \cup {"Login"}
    BY Zenon DEF Fails, Results, StopOps
  <2>2. u1 \in Good(os) /\ u2 \in Good(os)
    BY Zenon, <2>1, <1>UpdateGood
  <2>3. g \in Good(os) /\ n \in Good(os) /\ s \in Good(os) /\ t \in Good(os) /\ l \in Good(os)
    BY Zenon, <2>1, <1>AnyGood
       DEF GetBalance, UnlockWallet, signRawTransaction, sendRawTransaction, LockWallet, Btcctl
  <2>4. r \in Good(os)
    <3> DEFINE a1 == Step("readAddr", Blank, "return")
               a2 == ListUnspent("return")
               a3 == Btcctl("btcwallet", "return")
    <3>1. a1 \in Good(os) /\ a2 \in Good(os) /\ a3 \in Good(os)
      BY Zenon, <2>1, <1>AnyGood DEF ListUnspent, Btcctl
    <3>2. r = (a1 \o a2) \o a3
      BY Zenon DEF CreateRawTransaction
    <3> HIDE DEF a1, a2, a3, r
    <3>3. (a1 \o a2) \o a3 \in Good(os)
      BY Zenon, <3>1, <1>GoodJoin
    <3> QED
      BY Zenon, <3>2, <3>3
  <2>5. e \in Good(os) /\ Ended(e)
    BY Zenon, <2>1, <1>ReturnGood
  <2>6. Transaction = c \o e
    BY Zenon DEF Transaction
  <2> HIDE DEF g, u1, r, n, s, t, l, u2, e
  <2>7. c \in Good(os)
    <3>1. ((g \o u1) \o r) \o n \in Good(os)
      BY Zenon, <2>2, <2>3, <2>4, <1>GoodJoin
    <3>2. ((((g \o u1) \o r) \o n) \o s) \o t \in Good(os)
      BY Zenon, <2>3, <3>1, <1>GoodJoin
    <3> QED
      BY Zenon, <2>2, <2>3, <3>2, <1>GoodJoin
  <2> HIDE DEF c
  <2>8. c \o e \in Good(os)
    BY Zenon, <2>5, <2>7, <1>GoodJoin
  <2>9. Ended(c \o e)
    BY Zenon, <2>5, <2>7, GoodSteps, <1>EndedJoin
  <2> QED
    BY Zenon, <2>1, <2>6, <2>8, <2>9, <1>PromisesNothing

\* GetMiningAddressAndBalance can begin.
<1>BalanceBegins. Begins("Balance", GetMiningAddressAndBalance)
  <2> DEFINE a == Step("readAddr", Blank, "return")
             b == GetReceivedByAddress("return")
             e == Return("ok")
  <2>1. "return" \in Fails /\ "ok" \in Results /\ "Balance" \notin StopOps \cup {"Login"}
    BY Zenon DEF Fails, Results, StopOps
  <2>2. a \in Good(os) /\ b \in Good(os)
    BY Zenon, <2>1, <1>AnyGood DEF GetReceivedByAddress, Btcctl
  <2>3. e \in Good(os) /\ Ended(e)
    BY Zenon, <2>1, <1>ReturnGood
  <2>4. GetMiningAddressAndBalance = (a \o b) \o e
    BY Zenon DEF GetMiningAddressAndBalance
  <2> HIDE DEF a, b, e
  <2>5. a \o b \in Good(os) /\ (a \o b) \o e \in Good(os)
    BY Zenon, <2>2, <2>3, <1>GoodJoin
  <2>6. Ended((a \o b) \o e)
    BY Zenon, <2>3, <2>5, GoodSteps, <1>EndedJoin
  <2> QED
    BY Zenon, <2>1, <2>4, <2>5, <2>6, <1>PromisesNothing

\* What a request begins with.
<1>ProgramBegins.
      ASSUME NEW op \in Ops, op # "Signup", NEW addr \in Addrs
      PROVE  Begins(op, Program(op, addr))
  <2> USE <1>ProgramBegins
  <2>1. op \in {"Init", "Login", "Logout", "DeleteAccount", "StartMining", "StopMining", "Transaction", "Balance"}
    BY Zenon, WalletAssumption
  <2>2. /\ op = "Init" => Program(op, addr) = InitService
        /\ op = "Login" => Program(op, addr) = Login(addr)
        /\ op = "Logout" => Program(op, addr) = Logout
        /\ op = "DeleteAccount" => Program(op, addr) = DeleteAccount
        /\ op = "StartMining" => Program(op, addr) = StartMining
        /\ op = "StopMining" => Program(op, addr) = StopMining
        /\ op = "Transaction" => Program(op, addr) = Transaction
        /\ op = "Balance" => Program(op, addr) = GetMiningAddressAndBalance
    BY SMT DEF Program
  <2> QED
    BY Zenon, <2>1, <2>2, <1>InitServiceBegins, <1>LoginBegins, <1>LogoutBegins, <1>DeleteAccountBegins, <1>StartMiningBegins,
       <1>StopMiningBegins, <1>TransactionBegins, <1>BalanceBegins

\* A stop, and the rest.
<1>KillThen.
      ASSUME NEW n \in {"btcd", "btcwallet"}, NEW e, Gives(e)
      PROVE  LET c == Step("kill", n, "skip") \o e IN
             /\ Gives(c) /\ c[1].do = "kill" /\ c[1].arg = n
             /\ Has(c, Oks) => Has(e, Oks)
  <2> USE <1>KillThen
  <2> DEFINE k == Step("kill", n, "skip")
             c == k \o e
             X == {"kill", "return"}
  <2>1. Takes("kill", n) /\ "skip" \in Fails \ {"done"} /\ {"kill"} \subseteq X
    BY Zenon DEF Takes, Dos, Args, Fails
  <2>2. k \in Part(os, {"kill"}) /\ IsOne(k, A("kill", n, "skip"))
    BY Zenon, <2>1, <1>UnitPart DEF Updates
  <2> HIDE DEF k
  <2>3. k \in Part(os, X) /\ e \in Part(os, X)
    BY Zenon, <2>1, <2>2, <1>PartIn DEF Gives
  <2>4. c \in Part(os, X)
    BY Zenon, <2>3, <1>PartJoin
  <2>5. k \in Seq(Steps) /\ e \in Seq(Steps) /\ k \in Seq(Typed) /\ e \in Seq(Typed)
    BY Zenon, <2>3, <1>PartSteps
  <2>6. IsJoin(k, e, c)
    BY Zenon, <2>5, <1>TypedJoin
  <2>7. Ended(c)
    BY Zenon, <2>5, <1>EndedJoin DEF Gives
  <2>12. OneReturn(c)
    <3>1. "return" \notin {"kill"}
      BY Zenon
    <3> QED
      BY Zenon, <2>2, <2>5, <3>1, <1>OneReturnJoin DEF Gives
  <2> HIDE DEF c
  <2>8. c[1].do = "kill" /\ c[1].arg = n
    BY SMT, <2>2, <2>6 DEF IsOne, IsJoin, A
  <2>9. ~Has(k, Oks)
    <3>1. \A y \in Oks : y.do \notin {"kill"}
      BY Zenon DEF Oks
    <3> QED
      BY Zenon, <2>2, <3>1, <1>Lacks
  <2>10. Has(c, Oks) => Has(e, Oks)
    BY Zenon, <2>5, <2>9, <1>HasJoin DEF c
  <2>11. c # <<>>
    BY Zenon, <2>7 DEF Ended
  <2> QED
    BY Zenon, <2>4, <2>7, <2>8, <2>10, <2>11, <2>12 DEF Gives, c, k

\* The answer alone.
<1>ReturnGives.
      ASSUME NEW res \in Results
      PROVE  Gives(Return(res)) /\ (Has(Return(res), Oks) => res = "ok") /\ Return(res)[1].do = "return"
  <2> USE <1>ReturnGives
  <2> DEFINE e == Return(res)
  <2>1. e \in Part(os, {"return"}) /\ Ended(e) /\ OneReturn(e) /\ IsOne(e, A("return", res, "skip"))
    BY Zenon, <1>ReturnPart, <1>ReturnOnce
  <2> HIDE DEF e
  <2>2. e \in Part(os, {"kill", "return"})
    <3>1. {"return"} \subseteq {"kill", "return"}
      BY Zenon
    <3> QED
      BY Zenon, <2>1, <3>1, <1>PartIn
  <2>3. e[1].do = "return" /\ e[1].arg = res /\ Len(e) = 1
    BY SMT, <2>1 DEF IsOne, A
  <2>6. e # <<>>
    BY Zenon, <2>1 DEF Ended
  <2>4. 1 .. Len(e) = {1}
    BY SMT, <2>3
  <2>5. Has(e, Oks) => res = "ok"
    BY Zenon, <2>3, <2>4 DEF Has, Oks
  <2> QED
    BY Zenon, <2>1, <2>2, <2>3, <2>5, <2>6 DEF Gives, e

\* What CleanUp leaves to do ends with an answer that is not "ok", unless the
\* step was one whose failure is ignored.
<1>CleanUpCode.
      ASSUME NEW f \in Fails \ {"skip"}
      PROVE  /\ Gives(CleanUp(f))
             /\ f # "done" => ~Has(CleanUp(f), Oks)
             /\ f \in {"stopBtcd", "stopBtcdWallet"} => CleanUp(f)[1].do = "kill" /\ CleanUp(f)[1].arg = "btcd"
  <2> USE <1>CleanUpCode
  <2> DEFINE e == Return("error")
             eb == Step("kill", "btcd", "skip") \o e
             ew == Step("kill", "btcwallet", "skip") \o e
             ebw == Step("kill", "btcd", "skip") \o ew
             ewb == Step("kill", "btcwallet", "skip") \o eb
             k1 == Step("kill", "btcd", "skip")
             k2 == Step("kill", "btcwallet", "skip")
  <2>1. "error" \in Results /\ "ok" \in Results /\ "not restarted" \in Results
    BY Zenon DEF Results
  <2>2. Gives(e) /\ ~Has(e, Oks)
    BY Zenon, <2>1, <1>ReturnGives
  <2>3. Gives(Return("not restarted")) /\ ~Has(Return("not restarted"), Oks) /\ Gives(Return("ok"))
    BY Zenon, <2>1, <1>ReturnGives
  <2>4. Gives(eb) /\ ~Has(eb, Oks) /\ eb[1].do = "kill" /\ eb[1].arg = "btcd"
    <3> HIDE DEF e
    <3> QED
      BY Zenon, <2>2, <1>KillThen
  <2>5. Gives(ew) /\ ~Has(ew, Oks)
    <3> HIDE DEF e
    <3> QED
      BY Zenon, <2>2, <1>KillThen
  <2>6. Gives(ebw) /\ ~Has(ebw, Oks) /\ ebw[1].do = "kill" /\ ebw[1].arg = "btcd"
    <3> HIDE DEF ew
    <3> QED
      BY Zenon, <2>5, <1>KillThen
  <2>7. Gives(ewb) /\ ~Has(ewb, Oks)
    <3> HIDE DEF eb
    <3> QED
      BY Zenon, <2>4, <1>KillThen
  <2>8. k1 \in Seq(Typed) /\ k2 \in Seq(Typed) /\ e \in Seq(Typed)
    <3>1. "skip" \in Fails
      BY Zenon DEF Fails
    <3>2. k1 \in Good(os) /\ k2 \in Good(os) /\ e \in Good(os)
      BY Zenon, <2>1, <3>1, <1>AnyGood, <1>ReturnGood
    <3> QED
      BY Zenon, <3>2, GoodSteps
  <2>9. (k1 \o k2) \o e = ebw /\ (k2 \o k1) \o e = ewb
    <3> HIDE DEF k1, k2, e
    <3>1. (k1 \o k2) \o e = k1 \o (k2 \o e) /\ (k2 \o k1) \o e = k2 \o (k1 \o e)
      BY Zenon, <2>8, <1>Associative
    <3> QED
      BY Zenon, <3>1 DEF k1, k2
  <2>10. /\ f = "return" => CleanUp(f) = e
         /\ f = "stopBtcd" => CleanUp(f) = eb
         /\ f = "stopBtcdWallet" => CleanUp(f) = (k1 \o k2) \o e
         /\ f = "stopWalletBtcd" => CleanUp(f) = (k2 \o k1) \o e
         /\ f = "noRestart" => CleanUp(f) = Return("not restarted")
         /\ f = "done" => CleanUp(f) = Return("ok")
    BY Zenon DEF CleanUp, StopBtcd, StopBtcwallet
  <2>11. f \in {"return", "stopBtcd", "stopBtcdWallet", "stopWalletBtcd", "noRestart", "done"}
    BY Zenon DEF Fails
  <2> HIDE DEF e, eb, ew, ebw, ewb, k1, k2
  <2> QED
    BY Zenon, <2>2, <2>3, <2>4, <2>6, <2>7, <2>9, <2>10, <2>11

\* The step SignupHandler waits at.
<1>AwaitTyped. Await \in Seq(Typed) /\ Await # <<>> /\ Len(Await) = 1 /\ Await[1].do = "await"
  <2>1. Takes("await", Blank) /\ "skip" \in Fails
    BY Zenon DEF Takes, Dos, Args, Results, Fails
  <2>2. IsOne(Await, A("await", Blank, "skip"))
    BY Zenon, <2>1, <1>Unit DEF Await
  <2> HIDE DEF Await
  <2>3. Len(Await) = 1 /\ Await[1].do = "await"
    BY SMT, <2>2 DEF IsOne, A
  <2>4. Await # <<>>
    BY SMT, <2>3
  <2> QED
    BY Zenon, <2>2, <2>3, <2>4 DEF IsOne

<1>TimeoutTyped. (StopBtcwallet("skip") \o StopBtcd("skip")) \o Return("timeout") \in Seq(Typed)
  <2> DEFINE k1 == StopBtcwallet("skip")
             k2 == StopBtcd("skip")
             e == Return("timeout")
  <2>1. "skip" \in Fails /\ "timeout" \in Results
    BY Zenon DEF Fails, Results
  <2>2. k1 \in Good(os) /\ k2 \in Good(os) /\ e \in Good(os)
    BY Zenon, <2>1, <1>AnyGood, <1>ReturnGood DEF StopBtcd, StopBtcwallet
  <2> HIDE DEF k1, k2, e
  <2>3. (k1 \o k2) \o e \in Seq(Typed)
    BY Zenon, <2>2, <1>GoodJoin, GoodSteps
  <2> QED
    BY Zenon, <2>3 DEF k1, k2, e
<1> QED
  BY Zenon, <1>ProgramBegins, <1>CreateWalletBegins, <1>RestartMiningBegins, <1>CleanUpCode, <1>ReturnGives,
     <1>TimeoutTyped, <1>AwaitTyped

-----------------------------------------------------------------------------
(* The types.                                                               *)

\* The step a goroutine is at.
LEMMA Current ==
    ASSUME TypeInv, NEW r \in Routines, code[r] # <<>>
    PROVE  /\ code[r] \in Seq(Typed) /\ code[r] \in Seq(Steps)
           /\ Head(code[r]) = code[r][1] /\ Head(code[r]) \in Typed
           /\ Tail(code[r]) \in Seq(Typed)
           /\ Head(code[r]).fail \in Fails
           /\ r[1] \in Slots /\ last[r[1]].num \in 1 .. MaxRequests
<1>1. code[r] \in Seq(Typed)
  BY Zenon DEF TypeInv
<1>2. code[r] \in Seq(Steps)
  BY Zenon, <1>1, TypedSteps
<1>3. Head(code[r]) = code[r][1] /\ code[r][1] \in Typed /\ Tail(code[r]) \in Seq(Typed)
  BY Zenon, <1>1, Popped
<1>4. Head(code[r]).fail \in Fails
  BY SMT, <1>3 DEF Typed, Steps
<1>5. r[1] \in Slots
  BY SMT DEF Routines
<1>6. last[r[1]].num \in 0 .. MaxRequests
  BY SMT, <1>5 DEF TypeInv, TypeOK
<1>7. last[r[1]].num # 0
  BY Zenon DEF TypeInv
<1>8. last[r[1]].num \in 1 .. MaxRequests
  BY SMT, <1>6, <1>7, WalletAssumption
<1> QED
  BY Zenon, <1>1, <1>2, <1>3, <1>4, <1>5, <1>8

\* The values the actions compute.
LEMMA RecordTypes ==
    /\ Initialized \in Contents
    /\ \A t \in Contents : \A a \in Addrs \cup {Blank} : [t EXCEPT !.miningaddr = a] \in Contents
    /\ \A t \in Contents : \A a \in {Blank, "balance"} : [t EXCEPT !.originalBalance = a] \in Contents
    /\ \A p \in Process : \A u \in BOOLEAN : [p EXCEPT !.up = u] \in Process
    /\ \A p \in Process : \A u \in BOOLEAN : [p EXCEPT !.unlocked = u] \in Process
    /\ \A p \in Process : \A u \in BOOLEAN : [p EXCEPT !.mining = u] \in Process
<1>1. Initialized \in Contents
  BY SMT DEF Initialized, Contents
<1>2. /\ \A t \in Contents : \A a \in Addrs \cup {Blank} : [t EXCEPT !.miningaddr = a] \in Contents
      /\ \A t \in Contents : \A a \in {Blank, "balance"} : [t EXCEPT !.originalBalance = a] \in Contents
  BY SMT DEF Contents
<1>3. ASSUME NEW p \in Process, NEW u \in BOOLEAN PROVE [p EXCEPT !.up = u] \in Process
  BY SMT DEF Process
<1>4. ASSUME NEW p \in Process, NEW u \in BOOLEAN PROVE [p EXCEPT !.unlocked = u] \in Process
  BY SMT DEF Process
<1>5. ASSUME NEW p \in Process, NEW u \in BOOLEAN PROVE [p EXCEPT !.mining = u] \in Process
  BY SMT DEF Process
<1> QED
  BY Zenon, <1>1, <1>2, <1>3, <1>4, <1>5

\* A step moves its goroutine,
Moved(r) == \E d \in Seq(Typed) : code' = [code EXCEPT ![r] = d]

\* Both goroutines of a request move at once.
LEMMA TwoUpdates ==
    ASSUME NEW R, NEW T, NEW f \in [R -> T], NEW h \in R, NEW j \in R, h # j, NEW a \in T, NEW b \in T
    PROVE  LET g == [f EXCEPT ![h] = a, ![j] = b] IN
           /\ g \in [R -> T] /\ g[h] = a /\ g[j] = b
           /\ \A q \in R : q # h /\ q # j => g[q] = f[q]
  BY SMT

\* No two connections have the same request.
LEMMA SameNums ==
    ASSUME TypeInv, \A t \in Slots : last'[t].num = last[t].num, requests' = requests
    PROVE  /\ \A t \in Slots : last'[t].num <= requests'
           /\ \A t1, t2 \in Slots : last'[t1].num = last'[t2].num /\ last'[t1].num # 0 => t1 = t2
<1>1. /\ \A t \in Slots : last[t].num <= requests
      /\ \A t1, t2 \in Slots : last[t1].num = last[t2].num /\ last[t1].num # 0 => t1 = t2
  BY Zenon DEF TypeInv
<1> QED
  BY SMT, <1>1

\* The code of every handler is typed.
LEMMA ProgramTyped ==
    ASSUME NEW op \in Ops, NEW addr \in Addrs
    PROVE  Program(op, addr) \in Seq(Typed) /\ (op = "Signup" => Program(op, addr) = Await)
<1>1. op # "Signup" => Program(op, addr) \in Seq(Typed)
  BY Zenon, HandlerCode, GoodSteps DEF Begins
<1>2. op = "Signup" => Program(op, addr) = Await
  BY SMT DEF Program, Await
<1> QED
  BY Zenon, <1>1, <1>2, HandlerCode

\* A request is the last one, and its connection has it alone.
LEMMA ArriveTypes ==
    ASSUME TypeInv, NEW s \in Slots, NEW op \in Ops, NEW addr \in Addrs, Arrive(s, op, addr)
    PROVE  /\ TypeInv'
           /\ code'[<<s, "http">>] = Program(op, addr)
           /\ code'[<<s, "job">>] = IF op = "Signup" THEN CreateWallet ELSE <<>>
           /\ \A r \in Routines : r # <<s, "http">> /\ r # <<s, "job">> => code'[r] = code[r]
           /\ last'[s].op = op /\ last'[s].res = Blank /\ last'[s].num = requests'
           /\ \A t \in Slots : last'[t].num = requests' => t = s
<1> DEFINE h == <<s, "http">>
           j == <<s, "job">>
           d == IF op = "Signup" THEN CreateWallet ELSE <<>>
<1>1. Program(op, addr) \in Seq(Typed) /\ d \in Seq(Typed)
  <2>1. CreateWallet \in Seq(Typed)
    BY Zenon, HandlerCode, GoodSteps DEF Begins
  <2>2. <<>> \in Seq(Typed)
    BY SMT
  <2> QED
    BY Zenon, <2>1, <2>2, ProgramTyped
<1>2. h \in Routines /\ j \in Routines /\ h # j /\ code \in [Routines -> Seq(Typed)]
      /\ \A r \in Routines : r[1] = s => r = h \/ r = j
  BY SMT DEF Routines, TypeInv
<1>3. code' = [code EXCEPT ![h] = Program(op, addr), ![j] = d]
  BY Zenon DEF Arrive
<1> HIDE DEF h, j, d
<1>4. /\ code' \in [Routines -> Seq(Typed)] /\ code'[h] = Program(op, addr) /\ code'[j] = d
      /\ \A r \in Routines : r # h /\ r # j => code'[r] = code[r]
  BY Zenon, <1>1, <1>2, <1>3, TwoUpdates
<1>5. code' \in [Routines -> Seq(Steps)]
  BY Zenon, <1>4, TypedSteps
<1>6. /\ requests \in 0 .. MaxRequests
      /\ last \in [Slots -> [op : Ops \cup {"none"}, res : Results, num : 0 .. MaxRequests]]
      /\ \A t \in Slots : last[t].num \in 0 .. MaxRequests /\ last[t].num <= requests
  <2>1. last \in [Slots -> [op : Ops \cup {"none"}, res : Results, num : 0 .. MaxRequests]]
    BY Zenon DEF TypeInv, TypeOK
  <2>2. \A t \in Slots : last[t].num \in 0 .. MaxRequests
    BY SMT, <2>1
  <2> QED
    BY Zenon, <2>1, <2>2 DEF TypeInv, TypeOK
<1>7. requests' = requests + 1 /\ requests' \in 0 .. MaxRequests /\ requests' # 0
  BY SMT, <1>6, WalletAssumption DEF Arrive
<1>8. Blank \in Results
  BY Zenon DEF Results
<1>9. last' = [last EXCEPT ![s] = [op |-> op, res |-> Blank, num |-> requests']]
  BY Zenon, <1>7 DEF Arrive
<1>10. last' \in [Slots -> [op : Ops \cup {"none"}, res : Results, num : 0 .. MaxRequests]]
       /\ last'[s].op = op /\ last'[s].res = Blank /\ last'[s].num = requests'
       /\ \A t \in Slots : t # s => last'[t] = last[t]
  BY SMT, <1>6, <1>7, <1>8, <1>9
<1>11. \A t \in Slots : last'[t].num <= requests' /\ (t # s => last'[t].num < requests')
  BY SMT, <1>6, <1>7, <1>10, WalletAssumption
<1>12. /\ \A t1, t2 \in Slots : last'[t1].num = last'[t2].num /\ last'[t1].num # 0 => t1 = t2
       /\ \A t \in Slots : last'[t].num = requests' => t = s
  <2>1. \A t1, t2 \in Slots : last[t1].num = last[t2].num /\ last[t1].num # 0 => t1 = t2
    BY Zenon DEF TypeInv
  <2>2. requests' \in Nat
    BY SMT, <1>7, WalletAssumption
  <2>3. ~(requests' < requests')
    BY SMT, <2>2
  <2> QED
    BY Zenon, <1>10, <1>11, <2>1, <2>3
<1>13. ASSUME NEW r \in Routines, code'[r] # <<>> PROVE last'[r[1]].num # 0
  <2>1. r[1] \in Slots
    BY SMT DEF Routines
  <2>2. CASE r[1] = s
    BY Zenon, <1>7, <1>10, <2>2
  <2>3. CASE r[1] # s
    <3>1. r # h /\ r # j
      BY SMT, <2>3 DEF h, j
    <3>2. last[r[1]].num # 0
      BY Zenon, <1>4, <1>13, <3>1 DEF TypeInv
    <3> QED
      BY Zenon, <1>10, <2>1, <2>3, <3>2
  <2> QED
    BY Zenon, <2>2, <2>3
<1>14. clean' \in BOOLEAN
  BY Zenon DEF Arrive
<1>15. UNCHANGED <<os, procs, walletDB, temp, buf, faults>>
  BY Zenon DEF Arrive
<1>16. TypeOK'
  BY Zenon, <1>5, <1>7, <1>10, <1>14, <1>15 DEF TypeInv, TypeOK
<1> QED
  BY Zenon, <1>4, <1>10, <1>11, <1>12, <1>13, <1>16 DEF TypeInv, h, j, d

\* A result is stored.
LEMMA ResultTypes ==
    ASSUME TypeInv, NEW s \in Slots, NEW v \in Results, last' = [last EXCEPT ![s].res = v],
           code' \in [Routines -> Seq(Typed)], \A r \in Routines : code'[r] # <<>> => code[r] # <<>>,
           UNCHANGED <<os, procs, walletDB, temp, buf, requests, faults, clean>>
    PROVE  /\ TypeInv' /\ last'[s].res = v
           /\ \A t \in Slots : last'[t].op = last[t].op /\ last'[t].num = last[t].num
           /\ \A t \in Slots : t # s => last'[t] = last[t]
<1>1. last \in [Slots -> [op : Ops \cup {"none"}, res : Results, num : 0 .. MaxRequests]]
  BY Zenon DEF TypeInv, TypeOK
<1>2. /\ last' \in [Slots -> [op : Ops \cup {"none"}, res : Results, num : 0 .. MaxRequests]]
      /\ \A t \in Slots : last'[t].op = last[t].op /\ last'[t].num = last[t].num
      /\ last'[s].res = v /\ \A t \in Slots : t # s => last'[t] = last[t]
  BY SMT, <1>1
<1>3. code' \in [Routines -> Seq(Steps)]
  BY Zenon, TypedSteps
<1>4. TypeOK'
  BY Zenon, <1>2, <1>3 DEF TypeInv, TypeOK
<1>5. \A r \in Routines : r[1] \in Slots
  BY SMT DEF Routines
<1>7. /\ \A t \in Slots : last'[t].num <= requests'
      /\ \A t1, t2 \in Slots : last'[t1].num = last'[t2].num /\ last'[t1].num # 0 => t1 = t2
  BY Zenon, <1>2, SameNums
<1>8. \A r \in Routines : code'[r] # <<>> => last'[r[1]].num # 0
  BY Zenon, <1>2, <1>5 DEF TypeInv
<1>9. TypeInv'
  BY Zenon, <1>4, <1>7, <1>8 DEF TypeInv
<1> QED
  BY Zenon, <1>2, <1>9

\* What Answer and HandOver do to the record of the request.
LEMMA AnswerTypes ==
    ASSUME TypeInv, NEW r \in Routines, Answer(r)
    PROVE  /\ TypeInv' /\ r[1] \in Slots /\ last'[r[1]].res = Arg(r) /\ code'[r] = <<>>
           /\ \A q \in Routines : q # r => code'[q] = code[q]
           /\ \A t \in Slots : last'[t].op = last[t].op /\ last'[t].num = last[t].num
           /\ \A t \in Slots : t # r[1] => last'[t] = last[t]
<1>1. code[r] # <<>> /\ Head(code[r]).do = "return" /\ r[1] \in Slots
  BY Zenon, Current DEF Answer, At
<1>2. Arg(r) \in Results
  BY Zenon, <1>1, Current DEF Arg, Typed
<1>3. code \in [Routines -> Seq(Typed)] /\ <<>> \in Seq(Typed)
  BY SMT DEF TypeInv
<1>4. code' = [code EXCEPT ![r] = <<>>]
  BY Zenon DEF Answer, Goto
<1>5. code' \in [Routines -> Seq(Typed)] /\ code'[r] = <<>> /\ \A q \in Routines : q # r => code'[q] = code[q]
  BY Zenon, <1>3, <1>4
<1>6. last' = [last EXCEPT ![r[1]].res = Arg(r)] /\ UNCHANGED <<os, procs, walletDB, temp, buf, requests, faults, clean>>
  BY Zenon DEF Answer
<1>7. \A q \in Routines : code'[q] # <<>> => code[q] # <<>>
  BY Zenon, <1>5
<1>8. /\ TypeInv' /\ last'[r[1]].res = Arg(r)
      /\ \A t \in Slots : last'[t].op = last[t].op /\ last'[t].num = last[t].num
      /\ \A t \in Slots : t # r[1] => last'[t] = last[t]
  BY Zenon, <1>1, <1>2, <1>5, <1>6, <1>7, ResultTypes
<1> QED
  BY Zenon, <1>1, <1>5, <1>8

\* CreateWallet hands over its result.
LEMMA HandOverTypes ==
    ASSUME TypeInv, NEW s \in Slots, HandOver(s)
    PROVE  /\ TypeInv' /\ last'[s].res = Arg(<<s, "job">>)
           /\ code'[<<s, "http">>] = <<>> /\ code'[<<s, "job">>] = <<>>
           /\ \A q \in Routines : q[1] # s => code'[q] = code[q]
           /\ \A t \in Slots : last'[t].op = last[t].op /\ last'[t].num = last[t].num
           /\ \A t \in Slots : t # s => last'[t] = last[t]
<1> DEFINE h == <<s, "http">>
           j == <<s, "job">>
<1>1. h \in Routines /\ j \in Routines /\ h # j /\ \A r \in Routines : r[1] # s => r # h /\ r # j
  BY SMT DEF Routines
<1>2. code[j] # <<>> /\ Head(code[j]).do = "return"
  BY Zenon DEF HandOver, At
<1>3. code' = [code EXCEPT ![h] = <<>>, ![j] = <<>>]
  BY Zenon DEF HandOver
<1>4. last' = [last EXCEPT ![s].res = Arg(j)] /\ UNCHANGED <<os, procs, walletDB, temp, buf, requests, faults, clean>>
  BY Zenon DEF HandOver
<1> HIDE DEF h, j
<1>5. Arg(j) \in Results
  BY Zenon, <1>1, <1>2, Current DEF Arg, Typed
<1>6. code \in [Routines -> Seq(Typed)] /\ <<>> \in Seq(Typed)
  BY SMT DEF TypeInv
<1>7. /\ code' \in [Routines -> Seq(Typed)] /\ code'[h] = <<>> /\ code'[j] = <<>>
      /\ \A q \in Routines : q # h /\ q # j => code'[q] = code[q]
  BY Zenon, <1>1, <1>3, <1>6, TwoUpdates
<1>8. \A q \in Routines : code'[q] # <<>> => code[q] # <<>>
  BY Zenon, <1>7
<1>9. /\ TypeInv' /\ last'[s].res = Arg(j)
      /\ \A t \in Slots : last'[t].op = last[t].op /\ last'[t].num = last[t].num
      /\ \A t \in Slots : t # s => last'[t] = last[t]
  BY Zenon, <1>4, <1>5, <1>7, <1>8, ResultTypes
<1> QED
  BY Zenon, <1>1, <1>7, <1>9 DEF h, j

\* The types hold at the start,
LEMMA TypeInit == Init => TypeInv
<1> SUFFICES ASSUME Init PROVE TypeInv
  BY Zenon
<1>1. Blank \in Results
  BY Zenon DEF Results
<1>2. /\ last = [s \in Slots |-> [op |-> "none", res |-> Blank, num |-> 0]]
      /\ code = [r \in Routines |-> <<>>] /\ buf = [r \in Routines |-> Initialized]
      /\ requests = 0 /\ faults = 0
  BY Zenon DEF Init
<1>3. /\ last \in [Slots -> [op : Ops \cup {"none"}, res : Results, num : 0 .. MaxRequests]]
      /\ \A s \in Slots : last[s].num = 0
  BY SMT, <1>1, <1>2, WalletAssumption
<1>4. <<>> \in Seq(Typed) /\ <<>> \in Seq(Steps) /\ 0 <= 0 /\ 0 \in 0 .. MaxRequests /\ 0 \in 0 .. MaxFaults
  BY SMT, WalletAssumption
<1>5. code \in [Routines -> Seq(Typed)] /\ code \in [Routines -> Seq(Steps)] /\ \A r \in Routines : code[r] = <<>>
  BY Zenon, <1>2, <1>4
<1>6. buf \in [Routines -> Contents]
  BY Zenon, <1>2, RecordTypes
<1>7. os \in Systems /\ procs \subseteq Process /\ walletDB \in BOOLEAN /\ temp \in Contents \cup {Truncated}
      /\ clean \in BOOLEAN
  BY Zenon, RecordTypes DEF Init
<1>8. TypeOK
  BY Zenon, <1>2, <1>3, <1>4, <1>5, <1>6, <1>7 DEF TypeOK
<1> QED
  BY Zenon, <1>2, <1>3, <1>4, <1>5, <1>8 DEF TypeInv

\* and every step keeps them.
LEMMA TypeStep == TypeInv /\ [Next]_vars => TypeInv'
\* Where the step leaves the goroutine.
<1>CleanUpTyped. ASSUME NEW f \in Fails \ {"skip"} PROVE CleanUp(f) \in Seq(Typed)
  BY Zenon, <1>CleanUpTyped, HandlerCode, GoodSteps DEF Gives, Part

\* whether it succeeds or fails,
<1>Moves.
      ASSUME TypeInv, NEW r \in Routines, code[r] # <<>>, Succeed(r) \/ Fail(r)
      PROVE  Moved(r)
  <2> USE <1>Moves
  <2>1. Tail(code[r]) \in Seq(Typed) /\ Head(code[r]).fail \in Fails
    BY Zenon, Current
  <2>2. CASE Succeed(r)
    BY Zenon, <2>1, <2>2 DEF Moved, Succeed, Goto
  <2>3. CASE Fail(r)
    <3>1. CASE Head(code[r]).fail = "skip"
      BY Zenon, <2>1, <2>3, <3>1 DEF Moved, Fail, Goto
    <3>2. CASE Head(code[r]).fail # "skip"
      <4>1. CleanUp(Head(code[r]).fail) \in Seq(Typed)
        BY Zenon, <2>1, <3>2, <1>CleanUpTyped
      <4> QED
        BY Zenon, <2>3, <3>2, <4>1 DEF Moved, Fail, Goto
    <3> QED
      BY Zenon, <3>1, <3>2
  <2> QED
    BY Zenon, <2>2, <2>3

\* and keeps the types if the values it computes have theirs.
<1>TypeMove.
      ASSUME TypeInv, NEW r \in Routines, code[r] # <<>>, Moved(r),
             os' = os, last' = last, requests' = requests,
             procs' \subseteq Process, walletDB' \in BOOLEAN, temp' \in Contents \cup {Truncated},
             buf' \in [Routines -> Contents], faults' \in 0 .. MaxFaults, clean' \in BOOLEAN
      PROVE  TypeInv'
  <2> USE <1>TypeMove
  <2>1. PICK d \in Seq(Typed) : code' = [code EXCEPT ![r] = d]
    BY Zenon DEF Moved
  <2>2. code \in [Routines -> Seq(Typed)]
    BY Zenon DEF TypeInv
  <2>3. code' \in [Routines -> Seq(Typed)] /\ \A q \in Routines : code'[q] # <<>> => code[q] # <<>>
    BY Zenon, <2>1, <2>2
  <2>4. code' \in [Routines -> Seq(Steps)]
    BY Zenon, <2>3, TypedSteps
  <2>5. TypeOK'
    BY Zenon, <2>4 DEF TypeInv, TypeOK
  <2> QED
    BY Zenon, <2>3, <2>5 DEF TypeInv

\* A process that was started.
<1>SpawnedType.
      ASSUME NEW r, last[r[1]].num \in 1 .. MaxRequests, NEW kind \in {"btcd", "btcwallet", "create"},
             NEW addr \in Addrs \cup {Blank}
      PROVE  Spawned(r, kind, addr) \in Process
  BY SMT, <1>SpawnedType DEF Spawned, Process

\* Processes that were killed.
<1>KillType.
      ASSUME procs \subseteq Process, NEW name, Kill(name)
      PROVE  procs' \subseteq Process
  <2> USE <1>KillType
  <2>1. Matching(name) \subseteq procs
    BY Zenon DEF Matching
  <2> QED
    BY Zenon, <2>1, RecordTypes DEF Kill

\* Wallets that were unlocked.
<1>UnlockedType.
      ASSUME procs \subseteq Process, NEW u \in BOOLEAN, SetUnlocked(u)
      PROVE  procs' \subseteq Process
  BY Zenon, <1>UnlockedType, RecordTypes DEF SetUnlocked

\* A failure is counted.
<1>FaultType. ASSUME TypeInv, Fault PROVE faults' \in 0 .. MaxFaults /\ clean' \in BOOLEAN
  <2> USE <1>FaultType
  <2>1. faults \in 0 .. MaxFaults
    BY Zenon DEF TypeInv, TypeOK
  <2>2. faults' \in 0 .. MaxFaults
    BY SMT, <2>1, WalletAssumption DEF Fault
  <2> QED
    BY Zenon, <2>2 DEF Fault

\* Steps that change nothing but the code.
<1>TypePlain.
      ASSUME TypeInv, NEW r \in Routines, code[r] # <<>>, Moved(r),
             UNCHANGED <<os, procs, walletDB, temp, buf, last, requests, faults, clean>>
      PROVE  TypeInv'
  <2> USE <1>TypePlain
  <2>1. /\ procs' \subseteq Process /\ walletDB' \in BOOLEAN /\ temp' \in Contents \cup {Truncated}
        /\ buf' \in [Routines -> Contents] /\ faults' \in 0 .. MaxFaults /\ clean' \in BOOLEAN
    BY Zenon DEF TypeInv, TypeOK
  <2> QED
    BY Zenon, <2>1, <1>TypeMove

\* The steps that only move on, or fail.
<1>PlainTypes.
      ASSUME TypeInv, NEW r \in Routines,
             CheckAbsent(r) \/ CheckPresent(r) \/ WalletExists(r) \/ RemoveMainnetDirectory(r) \/ CallFails(r)
      PROVE  TypeInv'
  <2> USE <1>PlainTypes
  <2>1. code[r] # <<>>
    BY Zenon DEF CheckAbsent, CheckPresent, WalletExists, RemoveMainnetDirectory, CallFails, At
  <2>2. Succeed(r) \/ Fail(r)
    BY Zenon DEF CheckAbsent, CheckPresent, WalletExists, RemoveMainnetDirectory, CallFails
  <2>3. UNCHANGED <<os, procs, walletDB, temp, buf, last, requests, faults, clean>>
    BY Zenon DEF CheckAbsent, CheckPresent, WalletExists, RemoveMainnetDirectory, CallFails
  <2> QED
    BY Zenon, <2>1, <2>2, <2>3, <1>Moves, <1>TypePlain

\* The steps on the process table.
<1>ProcessTypes.
      ASSUME TypeInv, NEW r \in Routines,
             StartProcess(r) \/ StopProcess(r) \/ CreateBegin(r) \/ CreateEnd(r) \/ RemoveWalletDB(r)
      PROVE  TypeInv'
  <2> USE <1>ProcessTypes
  <2>1. code[r] # <<>>
    BY Zenon DEF StartProcess, StopProcess, CreateBegin, CreateEnd, RemoveWalletDB, At
  <2>2. Succeed(r) \/ Fail(r)
    BY Zenon DEF StartProcess, StopProcess, CreateBegin, CreateEnd, RemoveWalletDB
  <2>3. Moved(r)
    BY Zenon, <2>1, <2>2, <1>Moves
  <2>4. os' = os /\ last' = last /\ requests' = requests /\ temp' = temp /\ buf' = buf
    BY Zenon DEF StartProcess, StopProcess, CreateBegin, CreateEnd, RemoveWalletDB
  <2>5. faults' \in 0 .. MaxFaults /\ clean' \in BOOLEAN
    <3>1. Fault \/ UNCHANGED <<faults, clean>>
      BY Zenon DEF StartProcess, StopProcess, CreateBegin, CreateEnd, RemoveWalletDB, NoFault
    <3> QED
      BY Zenon, <3>1, <1>FaultType DEF TypeInv, TypeOK
  <2>6. walletDB' \in BOOLEAN
    BY Zenon DEF TypeInv, TypeOK, StartProcess, StopProcess, CreateBegin, CreateEnd, RemoveWalletDB
  <2>7. procs' \subseteq Process
    <3>1. procs \subseteq Process
      BY Zenon DEF TypeInv, TypeOK
    <3>2. last[r[1]].num \in 1 .. MaxRequests /\ Head(code[r]) \in Typed
      BY Zenon, <2>1, Current
    <3>3. CASE StartProcess(r)
      <4>1. /\ Head(code[r]).do = "startBtcd" => Arg(r) \in Addrs \cup {Blank}
            /\ Blank \in Addrs \cup {Blank}
        BY Zenon, <3>2 DEF Typed, Arg
      <4>2. /\ Head(code[r]).do = "startBtcd" => Spawned(r, "btcd", Arg(r)) \in Process
            /\ Spawned(r, "btcwallet", Blank) \in Process
        BY Zenon, <3>2, <4>1, <1>SpawnedType
      <4> QED
        BY Zenon, <3>1, <3>3, <4>2 DEF StartProcess
    <3>4. CASE StopProcess(r)
      BY Zenon, <3>1, <3>4, <1>KillType DEF StopProcess
    <3>5. CASE CreateBegin(r)
      <4>1. Spawned(r, "create", Blank) \in Process
        BY Zenon, <3>2, <1>SpawnedType
      <4> QED
        BY Zenon, <3>1, <3>5, <4>1 DEF CreateBegin
    <3>6. CASE CreateEnd(r)
      BY Zenon, <3>1, <3>6 DEF CreateEnd
    <3>7. CASE RemoveWalletDB(r)
      BY Zenon, <3>1, <3>7 DEF RemoveWalletDB
    <3> QED
      BY Zenon, <3>3, <3>4, <3>5, <3>6, <3>7
  <2>8. temp' \in Contents \cup {Truncated} /\ buf' \in [Routines -> Contents]
    BY Zenon, <2>4 DEF TypeInv, TypeOK
  <2> QED
    BY Zenon, <2>1, <2>3, <2>4, <2>5, <2>6, <2>7, <2>8, <1>TypeMove

\* The calls of btcctl.
<1>CallTypes.
      ASSUME TypeInv, NEW r \in Routines,
             Call(r) \/ CheckMining(r) \/ GenerateBegin(r) \/ GenerateEnd(r)
      PROVE  TypeInv'
  <2> USE <1>CallTypes
  <2>1. code[r] # <<>>
    BY Zenon DEF Call, CheckMining, GenerateBegin, GenerateEnd, At
  <2>2. Moved(r)
    <3>1. CASE CheckMining(r) /\ Goto(r, Return("nothing to do"))
      <4>1. "nothing to do" \in Results
        BY Zenon DEF Results
      <4>2. Return("nothing to do") \in Seq(Typed)
        BY Zenon, <4>1, HandlerCode, GoodSteps DEF Gives, Part
      <4> QED
        BY Zenon, <3>1, <4>2 DEF Moved, Goto
    <3>2. CASE Succeed(r)
      BY Zenon, <2>1, <3>2, <1>Moves
    <3> QED
      BY Zenon, <3>1, <3>2 DEF Call, CheckMining, GenerateBegin, GenerateEnd
  <2>3. UNCHANGED <<os, walletDB, temp, buf, last, requests, faults, clean>>
    BY Zenon DEF Call, CheckMining, GenerateBegin, GenerateEnd
  <2>4. procs' \subseteq Process
    <3>1. procs \subseteq Process
      BY Zenon DEF TypeInv, TypeOK
    <3>2. CASE Call(r)
      <4>1. SetUnlocked(TRUE) \/ SetUnlocked(FALSE) \/ UNCHANGED procs
        BY Zenon, <3>2 DEF Call
      <4> QED
        BY Zenon, <3>1, <4>1, <1>UnlockedType
    <3>3. CASE CheckMining(r)
      BY Zenon, <3>1, <3>3 DEF CheckMining
    <3>4. CASE GenerateBegin(r)
      <4>1. PICK p \in Up("btcd") : procs' = (procs \ {p}) \cup {[p EXCEPT !.mining = TRUE]}
        BY Zenon, <3>4 DEF GenerateBegin
      <4>2. p \in procs
        BY Zenon DEF Up
      <4> QED
        BY Zenon, <3>1, <4>1, <4>2, RecordTypes
    <3>5. CASE GenerateEnd(r)
      BY Zenon, <3>1, <3>5, RecordTypes DEF GenerateEnd
    <3> QED
      BY Zenon, <3>2, <3>3, <3>4, <3>5
  <2>5. /\ walletDB' \in BOOLEAN /\ temp' \in Contents \cup {Truncated}
        /\ buf' \in [Routines -> Contents] /\ faults' \in 0 .. MaxFaults /\ clean' \in BOOLEAN
    BY Zenon, <2>3 DEF TypeInv, TypeOK
  <2> QED
    BY Zenon, <2>1, <2>2, <2>3, <2>4, <2>5, <1>TypeMove

\* The steps on the temp file.
<1>FileTypes.
      ASSUME TypeInv, NEW r \in Routines,
             ReadForUpdate(r) \/ InitTemp(r) \/ WriteTemp(r) \/ ReadAddress(r)
      PROVE  TypeInv'
  <2> USE <1>FileTypes
  <2>1. code[r] # <<>>
    BY Zenon DEF ReadForUpdate, InitTemp, WriteTemp, ReadAddress, At
  <2>0. temp \in Contents \cup {Truncated} /\ buf \in [Routines -> Contents]
    BY Zenon DEF TypeInv, TypeOK
  <2>2. Moved(r)
    <3>1. CASE ReadAddress(r) /\ temp # Truncated /\ temp.miningaddr # Blank /\ Goto(r, RestartMining(temp.miningaddr))
      <4>1. temp.miningaddr \in Addrs
        BY SMT, <2>0, <3>1 DEF Contents
      <4>2. "none" \notin StopOps \cup {"Login"}
        BY Zenon DEF StopOps
      <4>3. RestartMining(temp.miningaddr) \in Seq(Typed)
        BY Zenon, <4>1, <4>2, HandlerCode, GoodSteps DEF Begins
      <4> QED
        BY Zenon, <3>1, <4>3 DEF Moved, Goto
    <3>2. CASE Succeed(r) \/ Fail(r)
      BY Zenon, <2>1, <3>2, <1>Moves
    <3> QED
      BY Zenon, <3>1, <3>2 DEF ReadForUpdate, InitTemp, WriteTemp, ReadAddress
  <2>3. UNCHANGED <<os, procs, walletDB, last, requests>>
    BY Zenon DEF ReadForUpdate, InitTemp, WriteTemp, ReadAddress
  <2>4. faults' \in 0 .. MaxFaults /\ clean' \in BOOLEAN
    <3>1. Fault \/ UNCHANGED <<faults, clean>>
      BY Zenon DEF ReadForUpdate, InitTemp, WriteTemp, ReadAddress, NoFault
    <3> QED
      BY Zenon, <3>1, <1>FaultType DEF TypeInv, TypeOK
  <2>5. temp' \in Contents \cup {Truncated}
    <3>1. buf[r] \in Contents
      BY Zenon, <2>0
    <3> QED
      BY Zenon, <2>0, <3>1 DEF ReadForUpdate, InitTemp, WriteTemp, ReadAddress
  <2>6. buf' \in [Routines -> Contents]
    <3>1. CASE ReadForUpdate(r) /\ temp # Truncated
      <4>1. temp \in Contents /\ Head(code[r]) \in Typed
        BY Zenon, <2>0, <2>1, <3>1, Current
      <4> DEFINE v == CASE Head(code[r]).do = "miningaddr"      -> [temp EXCEPT !.miningaddr = Arg(r)]
                        [] Head(code[r]).do = "originalBalance" -> [temp EXCEPT !.originalBalance = Arg(r)]
                        [] OTHER                                -> temp
      <4>2. /\ Head(code[r]).do = "miningaddr" => Arg(r) \in Addrs \cup {Blank}
            /\ Head(code[r]).do = "originalBalance" => Arg(r) \in {Blank, "balance"}
        BY Zenon, <4>1 DEF Typed, Arg
      <4>3. v \in Contents
        BY Zenon, <4>1, <4>2, RecordTypes
      <4>4. buf' = [buf EXCEPT ![r] = v]
        BY Zenon, <3>1 DEF ReadForUpdate
      <4> HIDE DEF v
      <4> QED
        BY Zenon, <2>0, <4>3, <4>4
    <3>2. CASE buf' = [buf EXCEPT ![r] = Initialized]
      BY Zenon, <2>0, <3>2, RecordTypes
    <3>3. CASE buf' = buf
      BY Zenon, <2>0, <3>3
    <3> QED
      BY Zenon, <3>1, <3>2, <3>3 DEF ReadForUpdate, InitTemp, WriteTemp, ReadAddress
  <2>7. procs' \subseteq Process /\ walletDB' \in BOOLEAN
    BY Zenon, <2>3 DEF TypeInv, TypeOK
  <2> QED
    BY Zenon, <2>1, <2>2, <2>3, <2>4, <2>5, <2>6, <2>7, <1>TypeMove

\* The timer of SignupHandler.
<1>TimeoutTypes. ASSUME TypeInv, NEW s \in Slots, Timeout(s) PROVE TypeInv'
  <2> USE <1>TimeoutTypes
  <2> DEFINE h == <<s, "http">>
             d == (StopBtcwallet("skip") \o StopBtcd("skip")) \o Return("timeout")
  <2>1. h \in Routines
    BY SMT DEF Routines
  <2>2. code[h] # <<>> /\ code' = [code EXCEPT ![h] = d]
    BY Zenon DEF Timeout, At, Goto
  <2>3. d \in Seq(Typed)
    BY Zenon, HandlerCode
  <2> HIDE DEF h, d
  <2>4. Moved(h)
    BY Zenon, <2>2, <2>3 DEF Moved
  <2>5. /\ os' = os /\ last' = last /\ requests' = requests /\ clean' \in BOOLEAN
        /\ procs' \subseteq Process /\ walletDB' \in BOOLEAN /\ temp' \in Contents \cup {Truncated}
        /\ buf' \in [Routines -> Contents] /\ faults' \in 0 .. MaxFaults
    BY Zenon DEF TypeInv, TypeOK, Timeout
  <2> QED
    BY Zenon, <2>1, <2>2, <2>4, <2>5, <1>TypeMove

\* The processes and the machine.
<1>MachineTypes. ASSUME TypeInv, Exit \/ Relock \/ ProcessDies PROVE TypeInv'
  <2> USE <1>MachineTypes
  <2>1. procs' \subseteq Process
    <3>1. procs \subseteq Process
      BY Zenon DEF TypeInv, TypeOK
    <3>2. CASE Relock
      BY Zenon, <3>1, <3>2, <1>UnlockedType DEF Relock
    <3> QED
      BY Zenon, <3>1, <3>2 DEF Exit, ProcessDies
  <2>2. faults' \in 0 .. MaxFaults /\ clean' \in BOOLEAN
    <3>1. Fault \/ UNCHANGED <<faults, clean>>
      BY Zenon DEF Exit, Relock, ProcessDies
    <3> QED
      BY Zenon, <3>1, <1>FaultType DEF TypeInv, TypeOK
  <2>3. UNCHANGED <<os, walletDB, temp, code, buf, last, requests>>
    BY Zenon DEF Exit, Relock, ProcessDies
  <2>4. TypeOK'
    BY Zenon, <2>1, <2>2, <2>3 DEF TypeInv, TypeOK
  <2> QED
    BY Zenon, <2>3, <2>4 DEF TypeInv

\* The service restarts.
<1>RestartTypes. ASSUME TypeInv, Restart PROVE TypeInv'
  <2> USE <1>RestartTypes
  <2>1. last \in [Slots -> [op : Ops \cup {"none"}, res : Results, num : 0 .. MaxRequests]]
    BY Zenon DEF TypeInv, TypeOK
  <2>2. "crashed" \in Results
    BY Zenon DEF Results
  <2>3. ASSUME NEW s \in Slots
        PROVE  /\ last'[s] \in [op : Ops \cup {"none"}, res : Results, num : 0 .. MaxRequests]
               /\ last'[s].num = last[s].num
    <3>1. last'[s] = last[s] \/ last'[s] = [last[s] EXCEPT !.res = "crashed"]
      BY Zenon DEF Restart
    <3>2. last[s] \in [op : Ops \cup {"none"}, res : Results, num : 0 .. MaxRequests]
      BY Zenon, <2>1
    <3> QED
      BY SMT, <2>2, <3>1, <3>2
  <2>4. last' \in [Slots -> [op : Ops \cup {"none"}, res : Results, num : 0 .. MaxRequests]]
    <3> DEFINE g(s) == IF code[<<s, "http">>] = <<>> THEN last[s] ELSE [last[s] EXCEPT !.res = "crashed"]
    <3>1. last' = [s \in Slots |-> g(s)]
      BY Zenon DEF Restart
    <3> HIDE DEF g
    <3>2. \A s \in Slots : g(s) \in [op : Ops \cup {"none"}, res : Results, num : 0 .. MaxRequests]
      BY Zenon, <2>3, <3>1
    <3> QED
      BY Zenon, <3>1, <3>2
  <2>5. code' = [r \in Routines |-> <<>>] /\ <<>> \in Seq(Typed) /\ <<>> \in Seq(Steps)
    BY SMT DEF Restart
  <2>6. code' \in [Routines -> Seq(Typed)] /\ code' \in [Routines -> Seq(Steps)] /\ \A r \in Routines : code'[r] = <<>>
    BY Zenon, <2>5
  <2>7. buf' \in [Routines -> Contents]
    BY Zenon, RecordTypes DEF Restart
  <2>8. faults' \in 0 .. MaxFaults /\ clean' \in BOOLEAN
    BY Zenon, <1>FaultType DEF Restart
  <2>9. UNCHANGED <<os, procs, walletDB, temp, requests>>
    BY Zenon DEF Restart
  <2>10. TypeOK'
    BY Zenon, <2>4, <2>6, <2>7, <2>8, <2>9 DEF TypeInv, TypeOK
  <2>11. /\ \A t \in Slots : last'[t].num <= requests'
         /\ \A t1, t2 \in Slots : last'[t1].num = last'[t2].num /\ last'[t1].num # 0 => t1 = t2
    BY Zenon, <2>3, <2>9, SameNums
  <2> QED
    BY Zenon, <2>6, <2>10, <2>11 DEF TypeInv

<1> SUFFICES ASSUME TypeInv, [Next]_vars PROVE TypeInv'
  BY Zenon
<1>1. CASE UNCHANGED vars
  <2>1. UNCHANGED <<os, procs, walletDB, temp, code, buf, last, requests, faults, clean>>
    BY Zenon, <1>1 DEF vars
  <2>2. TypeOK'
    BY Zenon, <2>1 DEF TypeInv, TypeOK
  <2> QED
    BY Zenon, <2>1, <2>2 DEF TypeInv
<1>2. CASE \E s \in Slots, op \in Ops, addr \in Addrs : Arrive(s, op, addr)
  BY Zenon, <1>2, ArriveTypes
<1>3. CASE \E s \in Slots : HandOver(s) \/ Timeout(s)
  BY Zenon, <1>3, HandOverTypes, <1>TimeoutTypes
<1>4. ASSUME NEW r \in Routines, RoutineStep(r) \/ CreateEnd(r) PROVE TypeInv'
  BY Zenon, <1>4, AnswerTypes, <1>PlainTypes, <1>ProcessTypes, <1>CallTypes, <1>FileTypes DEF RoutineStep
<1>5. CASE Exit \/ Relock \/ ProcessDies \/ Restart
  BY Zenon, <1>5, <1>MachineTypes, <1>RestartTypes
<1> QED
  BY Zenon, <1>1, <1>2, <1>3, <1>4, <1>5 DEF Next

\* Whatever the requests, their overlaps and the failures, the state of the
\* service keeps its types.
THEOREM TypeCorrect == Spec => []TypeOK
<1>1. TypeInv => TypeOK
  BY Zenon DEF TypeInv
<1> QED
  BY TypeInit, TypeStep, <1>1, PTL DEF Spec
=============================================================================
