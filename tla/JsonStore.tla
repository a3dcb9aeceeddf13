----------------------------- MODULE JsonStore ------------------------------
(***************************************************************************)
(* The JSON files a node keeps in utils/: files.json, downloadedFiles.json  *)
(* and transactionFiles.json.  HTTP and stream handlers run as goroutines  *)
(* of one process; each reads a whole file, changes the list and writes the *)
(* whole file back.  SaveOrUpdateFile does so under the fileMutex of        *)
(* package utils, updateRatingLocally under the fileMutex of package files, *)
(* AddOrUpdateTransaction and deleteFileFromJSON under none.               *)
(*                                                                         *)
(* os.WriteFile is two steps: the open truncates, then the bytes go to     *)
(* offset 0.  A read takes what is there at one moment.  Of a file's bytes *)
(* the model keeps the list they parse to, or that they parse to none, and *)
(* of a list its entries, not their order.                                 *)
(***************************************************************************)
EXTENDS Integers, FiniteSetsExt

CONSTANTS Threads,    \* goroutines
          Stores,     \* bound: which of the three files are used
          Hashes,     \* keys: file hashes, transaction ids
          Data,       \* the rest of an entry
          Entries,    \* bound: the entries that callers store
          Bulk,       \* Bulk[d]: bytes that data d takes
          MaxCalls,   \* bound: calls
          MaxFaults,  \* bound: failed writes, crashes
          None

Uploaded     == "files.json"
Downloaded   == "downloadedFiles.json"
Transactions == "transactionFiles.json"
Mutexes      == {"utils", "rating", "republish"}
NoMutex      == "none"

Entry == [key : Hashes, data : Data, voted : BOOLEAN]

ASSUME StoreAssumption ==
    /\ Stores \subseteq {Uploaded, Downloaded, Transactions}
    /\ Entries \subseteq Entry
    /\ MaxCalls \in Nat /\ MaxFaults \in Nat
    /\ None \notin Threads

Writers == {"save", "vote", "delete", "transaction"}
Readers == {"fetch", "list"}

\* Which handler works on which file.
Serves(kind, s) ==
    /\ kind = "vote" => s = Downloaded
    /\ kind \in {"transaction", "list"} <=> s = Transactions

Requests == [kind : Writers, entry : Entries] \cup [kind : Readers, entry : {None}]
NoRequest == [kind |-> "none", entry |-> None]

VARIABLES
    kind, list,    \* of each file: is there JSON in it, and the list it holds
    pc, store, request, snap,    \* of each goroutine
    mutex,
    republished,   \* files that getFiles has republished
    calls, faults,
    intact         \* history: no rivals met on the file, no write cut off

fileVars   == <<kind, list>>
threadVars == <<pc, store, request, snap>>
vars == <<fileVars, threadVars, mutex, republished, calls, faults, intact>>

\* json.MarshalIndent: the brackets, and the entries one after the other.
Bytes(l) == 2 + MapThenSumSet(LAMBDA e : Bulk[e.data] + (IF e.voted THEN 1 ELSE 0), l)

\* The process starts, on a new node or on one whose lists were emptied.
Init ==
    /\ \E k \in {"missing", "json"} : kind = [s \in Stores |-> k]
    /\ list = [s \in Stores |-> {}]
    /\ pc = [p \in Threads |-> "idle"]
    /\ store = [p \in Threads |-> None]
    /\ request = [p \in Threads |-> NoRequest]
    /\ snap = [p \in Threads |-> {}]
    /\ mutex = [m \in Mutexes |-> None]
    /\ republished = {}
    /\ calls = 0 /\ faults = 0
    /\ intact = [s \in Stores |-> TRUE]

LockOf(k) == CASE k = "save" -> "utils" [] k = "vote" -> "rating" [] OTHER -> NoMutex

Goto(p, l) == pc' = [pc EXCEPT ![p] = l]

\* Goroutine q is changing file s: from its first look at it to the last write.
InWindow(q, s) == /\ store[q] = s /\ request[q].kind \in Writers
                  /\ pc[q] \in {"create", "fill", "read", "truncate", "write"}

\* Nothing in the code keeps p and q apart on a file.
Rivals(p, q) == \/ LockOf(request[p].kind) = NoMutex
                \/ LockOf(request[p].kind) # LockOf(request[q].kind)

\* p begins its window on its file.
Enter(p) ==
    LET s == store[p]
        met == \E q \in Threads \ {p} : InWindow(q, s) /\ Rivals(p, q)
    IN  intact' = [intact EXCEPT ![s] = @ /\ ~met]

-----------------------------------------------------------------------------
(* A call, and the mutex of the handlers that have one. *)

Begin(p, s, r) ==
    /\ pc[p] = "idle" /\ calls < MaxCalls /\ Serves(r.kind, s)
    /\ store' = [store EXCEPT ![p] = s]
    /\ request' = [request EXCEPT ![p] = r]
    /\ calls' = calls + 1
    /\ Goto(p, CASE r.kind \in {"save", "vote"} -> "lock"
                 [] r.kind = "transaction"      -> "stat"
                 [] r.kind = "delete"           -> "open"
                 [] OTHER                       -> "fetch")
    /\ UNCHANGED <<fileVars, snap, mutex, republished, faults, intact>>

\* Mutant: SaveOrUpdateFile without fileMutex.
LockNothing(p) ==
    /\ pc[p] = "lock"
    /\ Goto(p, IF request[p].kind = "save" THEN "stat" ELSE "open")
    /\ UNCHANGED <<fileVars, store, request, snap, mutex, republished, calls,
                   faults, intact>>

\* fileMutex.Lock(), of package utils or of package files.
Lock(p) ==
    /\ pc[p] = "lock"
    /\ LET m == LockOf(request[p].kind)
       IN  mutex[m] = None /\ mutex' = [mutex EXCEPT ![m] = p]
    /\ Goto(p, IF request[p].kind = "save" THEN "stat" ELSE "open")
    /\ UNCHANGED <<fileVars, store, request, snap, republished, calls, faults, intact>>

\* Mutant: no deferred Unlock.
UnlockedNever(p) == mutex

\* The deferred Unlock runs when the handler returns.
Unlocked(p) == [m \in Mutexes |-> IF mutex[m] = p THEN None ELSE mutex[m]]

\* The handler returns, with or without an error.
Return(p) ==
    /\ Goto(p, "idle")
    /\ store' = [store EXCEPT ![p] = None]
    /\ request' = [request EXCEPT ![p] = NoRequest]
    /\ snap' = [snap EXCEPT ![p] = {}]
    /\ mutex' = Unlocked(p)

-----------------------------------------------------------------------------
(* The writers: os.Stat and the creation of a file that is not there. *)

\* Mutant: a file of length 0 is created as well.
StatCreatesEmpty(p) ==
    /\ pc[p] = "stat"
    /\ Goto(p, IF kind[store[p]] \in {"missing", "empty"} THEN "create" ELSE "read")
    /\ Enter(p)
    /\ UNCHANGED <<fileVars, store, request, snap, mutex, republished, calls, faults>>

Stat(p) ==
    /\ pc[p] = "stat"
    /\ Goto(p, IF kind[store[p]] = "missing" THEN "create" ELSE "read")
    /\ Enter(p)
    /\ UNCHANGED <<fileVars, store, request, snap, mutex, republished, calls, faults>>

\* Mutant: the file is opened without O_TRUNC.
TruncatedNot(s) == UNCHANGED <<kind, list>>

\* os.WriteFile opens with O_TRUNC.
Truncated(s) ==
    /\ kind' = [kind EXCEPT ![s] = "empty"]
    /\ list' = [list EXCEPT ![s] = {}]

\* Its bytes replace the first ones of what is there now: those that other
\* writers put there since the file was truncated stay behind a shorter list.
Written(s, l) ==
    IF kind[s] \in {"json", "torn"} /\ Bytes(l) < Bytes(list[s])
    THEN kind' = [kind EXCEPT ![s] = "torn"] /\ UNCHANGED list
    ELSE kind' = [kind EXCEPT ![s] = "json"] /\ list' = [list EXCEPT ![s] = l]

Create(p) ==
    /\ pc[p] = "create"
    /\ Truncated(store[p]) /\ Goto(p, "fill")
    /\ UNCHANGED <<store, request, snap, mutex, republished, calls, faults, intact>>

\* "[]".
Fill(p) ==
    /\ pc[p] = "fill"
    /\ Written(store[p], {}) /\ Goto(p, "read")
    /\ UNCHANGED <<store, request, snap, mutex, republished, calls, faults, intact>>

-----------------------------------------------------------------------------
(* What the writers do to the list. *)

Keys(l) == {e.key : e \in l}

\* The first entry with the key: the loops over the list break there.
First(l, k) == CHOOSE e \in l : e.key = k

\* Mutant: an entry is added even if its key is there.
SaveOrUpdateAppends(l, e) == l \cup {e}

SaveOrUpdate(l, e) ==
    IF e.key \in Keys(l) THEN (l \ {First(l, e.key)}) \cup {e} ELSE l \cup {e}

UpdateRating(l, k) ==
    IF k \in Keys(l)
    THEN LET e == First(l, k)
         IN  (l \ {e}) \cup {[key |-> k, data |-> e.data, voted |-> TRUE]}
    ELSE l

\* Mutant: the place of the entry stays in the list.
DeleteLeavesGap(l, k) == {IF e.key = k THEN None ELSE e : e \in l}

Delete(l, k) == {e \in l : e.key # k}

Change(l, r) == CASE r.kind = "vote"   -> UpdateRating(l, r.entry.key)
                  [] r.kind = "delete" -> Delete(l, r.entry.key)
                  [] OTHER             -> SaveOrUpdate(l, r.entry)

\* deleteFileFromJSON gives up on a key that is not there.
Refused(l, r) == r.kind = "delete" /\ r.entry.key \notin Keys(l)

\* os.ReadFile and json.Unmarshal; a file that is missing or does not parse is
\* an error.
ReadList(p) ==
    LET s == store[p] IN
    \/ /\ kind[s] = "json" /\ ~Refused(list[s], request[p])
       /\ snap' = [snap EXCEPT ![p] = Change(list[s], request[p])]
       /\ Goto(p, "truncate") /\ UNCHANGED <<store, request, mutex>>
    \/ (kind[s] # "json" \/ Refused(list[s], request[p])) /\ Return(p)

\* SaveOrUpdateFile and AddOrUpdateTransaction have looked at the file before.
ReadAfterStat(p) ==
    /\ pc[p] = "read" /\ ReadList(p)
    /\ UNCHANGED <<fileVars, republished, calls, faults, intact>>

\* updateRatingLocally and deleteFileFromJSON begin here.
OpenExisting(p) ==
    /\ pc[p] = "open" /\ ReadList(p) /\ Enter(p)
    /\ UNCHANGED <<fileVars, republished, calls, faults>>

Truncate(p) ==
    /\ pc[p] = "truncate"
    /\ Truncated(store[p]) /\ Goto(p, "write")
    /\ UNCHANGED <<store, request, snap, mutex, republished, calls, faults, intact>>

\* The write may fail (no space, an I/O error) once the old bytes are gone.
WriteList(p) ==
    /\ pc[p] = "write" /\ Return(p)
    /\ \/ Written(store[p], snap[p]) /\ UNCHANGED <<faults, intact>>
       \/ /\ faults < MaxFaults /\ faults' = faults + 1
          /\ intact' = [intact EXCEPT ![store[p]] = FALSE]
          /\ UNCHANGED fileVars
    /\ UNCHANGED <<republished, calls>>

-----------------------------------------------------------------------------
(* getTransactions, getFiles and republishFiles; the end of the process. *)

\* A file that is not there is an empty list; one that does not parse a 500.
Fetch(p) ==
    /\ pc[p] = "fetch"
    /\ IF kind[store[p]] = "json" /\ request[p].kind = "fetch"
       THEN Goto(p, "republish") /\ UNCHANGED <<store, request, snap, mutex>>
       ELSE Return(p)
    /\ UNCHANGED <<fileVars, republished, calls, faults, intact>>

\* Each fetch republishes its file until both have been republished.
Republish(p) ==
    /\ pc[p] = "republish" /\ mutex["republish"] = None
    /\ IF {Uploaded, Downloaded} \subseteq republished
       THEN Return(p)
       ELSE /\ mutex' = [mutex EXCEPT !["republish"] = p]
            /\ Goto(p, "again") /\ UNCHANGED <<store, request, snap>>
    /\ UNCHANGED <<fileVars, republished, calls, faults, intact>>

\* The process ends, and with it every goroutine and what it had in memory.
Exit ==
    /\ pc' = [p \in Threads |-> "idle"]
    /\ store' = [p \in Threads |-> None]
    /\ request' = [p \in Threads |-> NoRequest]
    /\ snap' = [p \in Threads |-> {}]
    /\ mutex' = [m \in Mutexes |-> None]
    /\ republished' = {}
    /\ intact' = [s \in Stores |-> intact[s] /\ ~\E p \in Threads :
                     store[p] = s /\ pc[p] \in {"fill", "write"}]
    /\ UNCHANGED <<fileVars, calls>>

\* republishFiles reads the file again; one that does not parse is log.Fatalf.
RepublishFiles(p) ==
    /\ pc[p] = "again"
    /\ \/ /\ kind[store[p]] \in {"missing", "json"}
          /\ republished' = republished \cup {store[p]}
          /\ Return(p)
          /\ UNCHANGED <<fileVars, calls, faults, intact>>
       \/ kind[store[p]] \in {"empty", "torn"} /\ Exit /\ UNCHANGED faults

Crash == faults < MaxFaults /\ faults' = faults + 1 /\ Exit

Step(p) ==
    \/ Lock(p) \/ Stat(p) \/ Create(p) \/ Fill(p) \/ ReadAfterStat(p) \/ OpenExisting(p)
    \/ Truncate(p) \/ WriteList(p) \/ Fetch(p) \/ Republish(p) \/ RepublishFiles(p)

Next ==
    \/ \E p \in Threads, s \in Stores, r \in Requests : Begin(p, s, r)
    \/ \E p \in Threads : Step(p)
    \/ Crash

Spec == Init /\ [][Next]_vars

\* Goroutines that can go on do; sync.Mutex hands itself to a waiting
\* goroutine after a while, so a step that is enabled again and again is taken.
Fairness == \A p \in Threads : SF_vars(Step(p))

FairSpec == Spec /\ Fairness

-----------------------------------------------------------------------------
(* Properties. *)

TypeOK ==
    /\ kind \in [Stores -> {"missing", "empty", "json", "torn"}]
    /\ list \in [Stores -> SUBSET Entry]
    /\ pc \in [Threads -> {"idle", "lock", "stat", "create", "fill", "read", "open", "truncate",
                           "write", "fetch", "republish", "again"}]
    /\ store \in [Threads -> Stores \cup {None}]
    /\ request \in [Threads -> Requests \cup {NoRequest}]
    /\ snap \in [Threads -> SUBSET Entry]
    /\ mutex \in [Mutexes -> Threads \cup {None}]
    /\ republished \subseteq Stores
    /\ calls \in 0..MaxCalls /\ faults \in 0..MaxFaults
    /\ intact \in [Stores -> BOOLEAN]

\* The state of file s as a KeyedList: a change counts from the truncation on,
\* since nobody reads the old list after it.
Changing(p, s) == store[p] = s /\ request[p].kind \in Writers

AbsList(s) ==
    IF \E p \in Threads : Changing(p, s) /\ pc[p] = "write"
    THEN snap[CHOOSE p \in Threads : Changing(p, s) /\ pc[p] = "write"]
    ELSE list[s]

AbsPhase(p, s) == IF ~Changing(p, s) THEN "idle"
                  ELSE IF pc[p] = "write" THEN "done" ELSE "called"

AbsRequest(p, s) == IF Changing(p, s) THEN request[p] ELSE NoRequest

Keyed(s) == INSTANCE KeyedList
    WITH list    <- AbsList(s),
         phase   <- [p \in Threads |-> AbsPhase(p, s)],
         request <- [p \in Threads |-> AbsRequest(p, s)],
         intact  <- intact[s]

\* Each file implements a KeyedList: calls of SaveOrUpdateFile, which one
\* mutex keeps apart, take effect one at a time and are answered for what they
\* did; and so do all others until two of them that share no mutex meet on the
\* file, or a write is cut off.
Linearizable ==
    /\ \A s \in Stores : Keyed(s)!AbsInit
    /\ [][\A s \in Stores : [Keyed(s)!AbsNext]_(Keyed(s)!absVars)]_vars

\* However updates race, no file ever holds two entries of one hash or
\* transaction id: every list written is a change of one list read.
NoDuplicates ==
    \A s \in Stores : \A d, e \in list[s] : d.key = e.key => d = e

Spoilt(s) == /\ kind[s] \in {"empty", "torn"}
             /\ \A p \in Threads : store[p] = s =>
                   pc[p] \notin {"create", "fill", "truncate", "write"}

\* A file left without valid JSON stays so: a restart does not create it
\* again, and every handler gives up on a file that it cannot parse.
SpoiltForGood == [][\A s \in Stores : Spoilt(s) => Spoilt(s)']_vars

\* While a file is intact it parses, unless a writer is about to write: an
\* answer of 500, or the log.Fatalf of republishFiles, needs such a writer.
ParsesIfIntact ==
    \A s \in Stores : intact[s] /\ kind[s] \notin {"missing", "json"} =>
        \E p \in Threads : store[p] = s /\ pc[p] \in {"fill", "write"}

\* Every call returns, whatever became of the others: the mutexes are freed on
\* every way out of a handler, and getFiles holds one while it needs no other.
CallsReturn == \A p \in Threads : pc[p] # "idle" ~> pc[p] = "idle"
=============================================================================
