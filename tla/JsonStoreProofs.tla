-------------------------- MODULE JsonStoreProofs ---------------------------
(***************************************************************************)
(* Proofs about JsonStore, for any goroutines, entries, sizes and bounds.  *)
(*                                                                         *)
(* The argument: the mutexes keep handlers of one lock out of each other's *)
(* windows, and intact records that no others met; so in an intact file    *)
(* one writer at most is between its first look and its last write, and    *)
(* what it read is still there when it truncates.                          *)
(***************************************************************************)
EXTENDS JsonStore, TLAPS

\* Where a goroutine stands goes with what it was asked to do.
Placed(p) ==
    /\ pc[p] = "idle" => store[p] = None /\ request[p] = NoRequest
    /\ pc[p] # "idle" => store[p] \in Stores /\ request[p] \in Requests
    /\ pc[p] = "lock" => request[p].kind \in {"save", "vote"}
    /\ pc[p] \in {"stat", "create", "fill", "read"} => request[p].kind \in {"save", "transaction"}
    /\ pc[p] = "open" => request[p].kind \in {"vote", "delete"}
    /\ pc[p] \in {"truncate", "write"} => request[p].kind \in Writers
    /\ pc[p] \in {"fetch", "republish", "again"} => request[p].kind \in Readers

\* A handler with a mutex has it from the Lock to its return.
Locking(p) ==
    /\ pc[p] \in {"stat", "create", "fill", "read", "open", "truncate", "write"} =>
          /\ request[p].kind = "save" => mutex["utils"] = p
          /\ request[p].kind = "vote" => mutex["rating"] = p

Distinct(l) == \A d, e \in l : d.key = e.key => d = e

Control == \A p \in Threads : Placed(p) /\ Locking(p)

Alone == \A s \in Stores : \A p, q \in Threads :
             intact[s] /\ InWindow(p, s) /\ InWindow(q, s) => p = q

Sound(p, s) ==
    /\ pc[p] = "create" => kind[s] = "missing"
    /\ pc[p] \in {"read", "truncate"} => kind[s] = "json"
    /\ pc[p] \in {"fill", "write"} => kind[s] = "empty"
    /\ pc[p] = "truncate" => /\ snap[p] = Change(list[s], request[p])
                             /\ ~Refused(list[s], request[p])

Content == \A s \in Stores : intact[s] => \A p \in Threads : InWindow(p, s) => Sound(p, s)

Blank == \A s \in Stores : kind[s] \in {"missing", "empty"} => list[s] = {}

\* No list, read or written, has a doubled key.
AllDistinct == NoDuplicates /\ \A p \in Threads : Distinct(snap[p])

IInv == TypeOK /\ Control /\ AllDistinct /\ Blank /\ Alone /\ Content /\ ParsesIfIntact

-----------------------------------------------------------------------------
(* The changes of a list. *)

\* A change of a list of entries by a writer's request is a list of entries.
LEMMA ChangeType ==
    ASSUME NEW l \in SUBSET Entry, NEW r \in Requests, r.kind \in Writers
    PROVE  Change(l, r) \in SUBSET Entry
<1>1. r.entry \in Entry
  BY StoreAssumption DEF Requests, Writers, Readers
<1>2. r.entry.key \in Hashes
  BY <1>1 DEF Entry
<1>3. ASSUME r.entry.key \in Keys(l)
      PROVE  First(l, r.entry.key) \in l
  BY <1>3 DEF Keys, First
<1>4. SaveOrUpdate(l, r.entry) \in SUBSET Entry
  BY <1>1 DEF SaveOrUpdate
<1>5. UpdateRating(l, r.entry.key) \in SUBSET Entry
  <2> DEFINE e == First(l, r.entry.key)
             marked == [key |-> r.entry.key, data |-> e.data, voted |-> TRUE]
  <2>1. CASE r.entry.key \in Keys(l)
    <3>1. marked \in Entry
      BY <1>2, <1>3, <2>1 DEF Entry
    <3>2. UpdateRating(l, r.entry.key) = (l \ {e}) \cup {marked}
      BY <2>1 DEF UpdateRating
    <3> HIDE DEF marked
    <3> QED
      BY <3>1, <3>2
  <2>2. CASE r.entry.key \notin Keys(l)
    BY <2>2 DEF UpdateRating
  <2> QED
    BY <2>1, <2>2
<1>6. Delete(l, r.entry.key) \in SUBSET Entry
  BY DEF Delete
<1> QED
  BY <1>4, <1>5, <1>6 DEF Change

\* No change doubles a key (the key is looked up before an entry is added).
LEMMA ChangeDistinct ==
    ASSUME NEW l \in SUBSET Entry, NEW r \in Requests, r.kind \in Writers, Distinct(l)
    PROVE  Distinct(Change(l, r))
<1> DEFINE k == r.entry.key
<1>1. ASSUME k \in Keys(l)
      PROVE  First(l, k) \in l /\ First(l, k).key = k
  BY <1>1 DEF Keys, First
<1>2. Distinct(SaveOrUpdate(l, r.entry))
  BY <1>1 DEF SaveOrUpdate, Distinct, Keys
<1>3. Distinct(UpdateRating(l, k))
  <2> DEFINE marked == [key |-> k, data |-> First(l, k).data, voted |-> TRUE]
  <2>1. CASE k \in Keys(l)
    <3>1. marked.key = k
      OBVIOUS
    <3>2. UpdateRating(l, k) = (l \ {First(l, k)}) \cup {marked}
      BY <2>1 DEF UpdateRating
    <3> HIDE DEF marked
    <3> QED
      BY <1>1, <2>1, <3>1, <3>2 DEF Distinct
  <2>2. CASE k \notin Keys(l)
    BY <2>2 DEF UpdateRating
  <2> QED
    BY <2>1, <2>2
<1>4. Distinct(Delete(l, k))
  BY DEF Delete, Distinct
<1> QED
  BY <1>2, <1>3, <1>4 DEF Change

\* On lists without doubled keys the loops of the code, which change the
\* first entry with the key, do what a KeyedList promises.
LEMMA ChangeIsEffect ==
    ASSUME NEW s, NEW l \in SUBSET Entry, NEW r \in Requests, r.kind \in Writers, Distinct(l)
    PROVE  Change(l, r) = Keyed(s)!Effect(l, r)
<1> DEFINE k == r.entry.key
<1>1. ASSUME k \in Keys(l)
      PROVE  First(l, k) \in l /\ First(l, k).key = k
  BY <1>1 DEF Keys, First
<1>2. l \ {e \in l : e.key # k} = IF k \in Keys(l) THEN {First(l, k)} ELSE {}
  BY <1>1 DEF Distinct, Keys
<1>3. SaveOrUpdate(l, r.entry) = {e \in l : e.key # k} \cup {r.entry}
  BY <1>1, <1>2 DEF SaveOrUpdate, Keys
<1>4. UpdateRating(l, k) = {e \in l : e.key # k} \cup
           {[key |-> k, data |-> e.data, voted |-> TRUE] : e \in l \ {d \in l : d.key # k}}
  <2>1. CASE k \in Keys(l)
    <3>1. l \ {First(l, k)} = {e \in l : e.key # k}
      BY <1>1, <1>2, <2>1
    <3>2. {[key |-> k, data |-> e.data, voted |-> TRUE] : e \in l \ {d \in l : d.key # k}}
              = {[key |-> k, data |-> First(l, k).data, voted |-> TRUE]}
      BY <1>2, <2>1
    <3> QED
      BY <2>1, <3>1, <3>2 DEF UpdateRating
  <2>2. CASE k \notin Keys(l)
    BY <1>2, <2>2 DEF UpdateRating, Keys
  <2> QED
    BY <2>1, <2>2
<1> QED
  BY <1>3, <1>4 DEF Change, Delete, Keyed!Effect, Keyed!Upserted, Keyed!Marked, Keyed!Without

-----------------------------------------------------------------------------
(* Types, and where the goroutines are. *)

ThreadType == /\ pc \in [Threads -> {"idle", "lock", "stat", "create", "fill", "read", "open",
                                     "truncate", "write", "fetch", "republish", "again"}]
              /\ store \in [Threads -> Stores \cup {None}]
              /\ request \in [Threads -> Requests \cup {NoRequest}]
              /\ snap \in [Threads -> SUBSET Entry]
              /\ mutex \in [Mutexes -> Threads \cup {None}]

\* A return leaves the goroutine idle and its mutexes free.
LEMMA ReturnType ==
    ASSUME ThreadType, NEW p \in Threads, Return(p)
    PROVE  ThreadType'
  BY DEF ThreadType, Return, Goto, Unlocked

\* Reading a file, whether it parses or not, keeps the types.
LEMMA ReadListType ==
    ASSUME TypeOK, Control, NEW p \in Threads, pc[p] \in {"read", "open"}, ReadList(p)
    PROVE  ThreadType'
<1>1. ThreadType
  BY DEF TypeOK, ThreadType
<1>2. CASE Return(p)
  BY <1>1, <1>2, ReturnType
<1>3. CASE ~Return(p)
  <2>1. store[p] \in Stores /\ request[p] \in Requests /\ request[p].kind \in Writers
    BY DEF Control, Placed, Writers
  <2>2. Change(list[store[p]], request[p]) \in SUBSET Entry
    BY <2>1, ChangeType DEF TypeOK
  <2>3. /\ snap' = [snap EXCEPT ![p] = Change(list[store[p]], request[p])]
        /\ pc' = [pc EXCEPT ![p] = "truncate"]
        /\ UNCHANGED <<store, request, mutex>>
    BY <1>3 DEF ReadList, Goto
  <2> QED
    BY <1>1, <2>2, <2>3 DEF ThreadType
<1> QED
  BY <1>2, <1>3

\* os.WriteFile leaves one of the contents a file can have.
LEMMA WrittenType ==
    ASSUME TypeOK, NEW s \in Stores, NEW l \in SUBSET Entry, Written(s, l)
    PROVE  /\ kind' \in [Stores -> {"missing", "empty", "json", "torn"}]
           /\ list' \in [Stores -> SUBSET Entry]
  BY DEF TypeOK, Written

\* The end of the process leaves every goroutine idle.
LEMMA ExitType ==
    ASSUME TypeOK, Exit
    PROVE  ThreadType' /\ republished' = {} /\ intact' \in [Stores -> BOOLEAN]
  BY DEF TypeOK, Exit, ThreadType

\* Every step of the handlers keeps the types.
LEMMA TypeStep ==
    ASSUME TypeOK, Control, [Next]_vars
    PROVE  TypeOK'
<1>1. ThreadType
  BY DEF TypeOK, ThreadType
<1>2. ASSUME NEW p \in Threads, NEW s \in Stores, NEW r \in Requests, Begin(p, s, r)
      PROVE  TypeOK'
  BY <1>2, StoreAssumption DEF Begin, TypeOK, Goto, fileVars
<1>3. ASSUME NEW p \in Threads, Lock(p)
      PROVE  TypeOK'
  <2>1. LockOf(request[p].kind) \in Mutexes
    BY <1>3 DEF Control, Placed, Lock, LockOf, Mutexes
  <2> QED
    BY <1>3, <2>1 DEF Lock, TypeOK, Goto, fileVars
<1>4. ASSUME NEW p \in Threads, Stat(p)
      PROVE  TypeOK'
  <2>1. store[p] \in Stores
    BY <1>4 DEF Control, Placed, Stat
  <2>2. intact' \in [Stores -> BOOLEAN]
    BY <1>4, <2>1 DEF Stat, TypeOK, Enter
  <2> QED
    BY <1>4, <2>1, <2>2 DEF Stat, TypeOK, Goto, fileVars
<1>5. ASSUME NEW p \in Threads, Create(p)
      PROVE  TypeOK'
  BY <1>5 DEF Create, Truncated, TypeOK, Goto
<1>6. ASSUME NEW p \in Threads, Fill(p)
      PROVE  TypeOK'
  <2>1. store[p] \in Stores
    BY <1>6 DEF Control, Placed, Fill
  <2>2. /\ kind' \in [Stores -> {"missing", "empty", "json", "torn"}]
        /\ list' \in [Stores -> SUBSET Entry]
    BY <1>6, <2>1, WrittenType DEF Fill
  <2> QED
    BY <1>6, <2>2 DEF Fill, TypeOK, Goto
<1>7. ASSUME NEW p \in Threads, ReadAfterStat(p)
      PROVE  TypeOK'
  <2>1. ThreadType'
    BY <1>7, ReadListType DEF ReadAfterStat
  <2> QED
    BY <1>7, <2>1 DEF ReadAfterStat, TypeOK, ThreadType, fileVars
<1>8. ASSUME NEW p \in Threads, OpenExisting(p)
      PROVE  TypeOK'
  <2>1. ThreadType'
    BY <1>8, ReadListType DEF OpenExisting
  <2>2. intact' \in [Stores -> BOOLEAN]
    BY <1>8 DEF OpenExisting, TypeOK, Enter
  <2> QED
    BY <1>8, <2>1, <2>2 DEF OpenExisting, TypeOK, ThreadType, fileVars
<1>9. ASSUME NEW p \in Threads, Truncate(p)
      PROVE  TypeOK'
  BY <1>9 DEF Truncate, Truncated, TypeOK, Goto
<1>10. ASSUME NEW p \in Threads, WriteList(p)
       PROVE  TypeOK'
  <2>1. store[p] \in Stores
    BY <1>10 DEF Control, Placed, WriteList
  <2>2. ThreadType'
    BY <1>1, <1>10, ReturnType DEF WriteList
  <2>3. /\ kind' \in [Stores -> {"missing", "empty", "json", "torn"}]
        /\ list' \in [Stores -> SUBSET Entry]
    <3>1. CASE Written(store[p], snap[p])
      BY <2>1, <3>1, WrittenType DEF TypeOK
    <3>2. CASE UNCHANGED fileVars
      BY <3>2 DEF fileVars, TypeOK
    <3> QED
      BY <1>10, <3>1, <3>2 DEF WriteList
  <2>4. intact' \in [Stores -> BOOLEAN]
    BY <1>10, <2>1 DEF WriteList, TypeOK
  <2>5. faults' \in 0..MaxFaults
    BY <1>10, StoreAssumption DEF WriteList, TypeOK
  <2> QED
    BY <1>10, <2>2, <2>3, <2>4, <2>5 DEF WriteList, TypeOK, ThreadType
<1>11. ASSUME NEW p \in Threads, Fetch(p)
       PROVE  TypeOK'
  <2>1. ThreadType'
    <3>1. CASE Return(p)
      BY <1>1, <3>1, ReturnType
    <3>2. CASE ~Return(p)
      BY <1>1, <1>11, <3>2 DEF Fetch, ThreadType, Goto
    <3> QED
      BY <3>1, <3>2
  <2> QED
    BY <1>11, <2>1 DEF Fetch, TypeOK, ThreadType, fileVars
<1>12. ASSUME NEW p \in Threads, Republish(p)
       PROVE  TypeOK'
  <2>1. ThreadType'
    <3>1. CASE Return(p)
      BY <1>1, <3>1, ReturnType
    <3>2. CASE ~Return(p)
      BY <1>1, <1>12, <3>2 DEF Republish, ThreadType, Goto, Mutexes
    <3> QED
      BY <3>1, <3>2
  <2> QED
    BY <1>12, <2>1 DEF Republish, TypeOK, ThreadType, fileVars
<1>13. ASSUME NEW p \in Threads, RepublishFiles(p)
       PROVE  TypeOK'
  <2>1. CASE Exit /\ UNCHANGED faults
    BY <2>1, ExitType DEF Exit, TypeOK, ThreadType, fileVars
  <2>2. CASE ~(Exit /\ UNCHANGED faults)
    <3>1. ThreadType'
      BY <1>1, <1>13, <2>2, ReturnType DEF RepublishFiles
    <3>2. store[p] \in Stores
      BY <1>13 DEF Control, Placed, RepublishFiles
    <3> QED
      BY <1>13, <2>2, <3>1, <3>2 DEF RepublishFiles, TypeOK, ThreadType, fileVars
  <2> QED
    BY <2>1, <2>2
<1>14. CASE Crash
  BY <1>14, ExitType, StoreAssumption DEF Crash, Exit, TypeOK, ThreadType, fileVars
<1>15. CASE UNCHANGED vars
  BY <1>15 DEF vars, fileVars, threadVars, TypeOK
<1> QED
  BY <1>2, <1>3, <1>4, <1>5, <1>6, <1>7, <1>8, <1>9, <1>10, <1>11, <1>12, <1>13, <1>14, <1>15
     DEF Next, Step

\* A step of goroutine p after which the process still runs.
Moves(p) == \/ \E s \in Stores, r \in Requests : Begin(p, s, r)
            \/ Step(p) /\ ~Exit

\* A step of goroutine p leaves the others where they are.
Aside(p) == \A q \in Threads \ {p} :
    /\ pc'[q] = pc[q] /\ store'[q] = store[q] /\ request'[q] = request[q] /\ snap'[q] = snap[q]
    /\ \A m \in Mutexes : mutex[m] = q => mutex'[m] = q

\* A step of one goroutine leaves what Control says of the others.
LEMMA ControlKept ==
    ASSUME Control, NEW p \in Threads, Aside(p), Placed(p)', Locking(p)'
    PROVE  Control'
<1> SUFFICES ASSUME NEW q \in Threads PROVE Placed(q)' /\ Locking(q)'
  BY DEF Control
<1>1. CASE q = p
  BY <1>1
<1>2. CASE q # p
  <2>1. Placed(q) /\ Locking(q)
    BY DEF Control
  <2> QED
    BY <1>2, <2>1 DEF Aside, Placed, Locking, Mutexes
<1> QED
  BY <1>1, <1>2

\* What a return does to the goroutines.
LEMMA ReturnControl ==
    ASSUME TypeOK, NEW p \in Threads, Return(p)
    PROVE  Aside(p) /\ Placed(p)' /\ Locking(p)' /\ pc'[p] = "idle" /\ store'[p] = None
           /\ snap'[p] = {} /\ request'[p] = NoRequest
  BY DEF TypeOK, Return, Goto, Unlocked, Aside, Placed, Locking, NoRequest

\* A handler that read a list holds the mutexes it took before.
LEMMA ReadListControl ==
    ASSUME TypeOK, Control, NEW p \in Threads, pc[p] \in {"read", "open"}, ReadList(p)
    PROVE  Aside(p) /\ Placed(p)' /\ Locking(p)'
<1>1. CASE Return(p)
  BY <1>1, ReturnControl
<1>2. CASE ~Return(p)
  <2>1. Placed(p) /\ Locking(p)
    BY DEF Control
  <2> QED
    BY <1>2, <2>1 DEF ReadList, TypeOK, Goto, Aside, Placed, Locking, Writers
<1> QED
  BY <1>1, <1>2

\* After the end of the process no mutex is held.
LEMMA ExitControl ==
    ASSUME Exit
    PROVE  Control' /\ \A p \in Threads : pc'[p] = "idle" /\ store'[p] = None /\ snap'[p] = {}
                                          /\ request'[p] = NoRequest
  BY DEF Exit, Control, Placed, Locking

\* Every step but a crash is one goroutine's own, and keeps Control.
LEMMA ControlStep ==
    ASSUME TypeOK, Control, NEW p \in Threads, Moves(p)
    PROVE  Control' /\ Aside(p)
<1>0. Placed(p) /\ Locking(p)
  BY DEF Control
<1>1. SUFFICES Aside(p) /\ Placed(p)' /\ Locking(p)'
  BY ControlKept
<1>2. ASSUME NEW s \in Stores, NEW r \in Requests, Begin(p, s, r)
      PROVE  Aside(p) /\ Placed(p)' /\ Locking(p)'
  <2>1. Aside(p)
    BY <1>2 DEF Begin, TypeOK, Goto, Aside
  <2>2. /\ store'[p] = s /\ request'[p] = r
        /\ pc'[p] = CASE r.kind \in {"save", "vote"} -> "lock"
                     [] r.kind = "transaction"      -> "stat"
                     [] r.kind = "delete"           -> "open"
                     [] OTHER                       -> "fetch"
    BY <1>2 DEF Begin, TypeOK, Goto
  <2>3. r.kind \in Writers \cup Readers
    BY DEF Requests
  <2> QED
    BY <2>1, <2>2, <2>3 DEF Placed, Locking, Writers, Readers
<1>3. CASE Lock(p)
  <2>1. LockOf(request[p].kind) = IF request[p].kind = "save" THEN "utils" ELSE "rating"
    BY <1>0, <1>3 DEF Placed, Lock, LockOf
  <2> QED
    BY <1>0, <1>3, <2>1, StoreAssumption DEF Lock, TypeOK, Goto, Aside, Placed, Locking, Mutexes
<1>4. CASE Stat(p)
  BY <1>0, <1>4 DEF Stat, TypeOK, Goto, Aside, Placed, Locking
<1>5. CASE Create(p)
  BY <1>0, <1>5 DEF Create, TypeOK, Goto, Aside, Placed, Locking
<1>6. CASE Fill(p)
  BY <1>0, <1>6 DEF Fill, TypeOK, Goto, Aside, Placed, Locking
<1>7. CASE ReadAfterStat(p)
  BY <1>7, ReadListControl DEF ReadAfterStat
<1>8. CASE OpenExisting(p)
  BY <1>8, ReadListControl DEF OpenExisting
<1>9. CASE Truncate(p)
  BY <1>0, <1>9 DEF Truncate, TypeOK, Goto, Aside, Placed, Locking, Writers
<1>10. CASE WriteList(p)
  BY <1>10, ReturnControl DEF WriteList
<1>11. CASE Fetch(p)
  <2>1. CASE Return(p)
    BY <2>1, ReturnControl
  <2>2. CASE ~Return(p)
    BY <1>0, <1>11, <2>2 DEF Fetch, TypeOK, Goto, Aside, Placed, Locking
  <2> QED
    BY <2>1, <2>2
<1>12. CASE Republish(p)
  <2>1. CASE Return(p)
    BY <2>1, ReturnControl
  <2>2. CASE ~Return(p)
    BY <1>0, <1>12, <2>2, StoreAssumption
       DEF Republish, TypeOK, Goto, Aside, Placed, Locking, Mutexes
  <2> QED
    BY <2>1, <2>2
<1>13. CASE RepublishFiles(p) /\ ~Exit
  BY <1>13, ReturnControl DEF RepublishFiles
<1> QED
  BY <1>2, <1>3, <1>4, <1>5, <1>6, <1>7, <1>8, <1>9, <1>10, <1>11, <1>12, <1>13 DEF Moves, Step

-----------------------------------------------------------------------------
(* The files. *)

\* p's step changes its own file only, and only from these places.
Confined(p) ==
    \A s \in Stores :
        ~(store[p] = s /\ pc[p] \in {"create", "fill", "truncate", "write"}) =>
            kind'[s] = kind[s] /\ list'[s] = list[s]

\* A handler changes no file but the one it is truncating or writing.
LEMMA ConfinedStep ==
    ASSUME TypeOK, NEW p \in Threads, Moves(p)
    PROVE  Confined(p)
<1>1. CASE UNCHANGED fileVars
  BY <1>1 DEF fileVars, Confined
<1>2. ASSUME pc[p] \in {"create", "truncate"}, Truncated(store[p])
      PROVE  Confined(p)
  BY <1>2 DEF Truncated, Confined, TypeOK
<1>3. ASSUME NEW l, pc[p] \in {"fill", "write"}, Written(store[p], l)
      PROVE  Confined(p)
  BY <1>3 DEF Written, Confined, TypeOK
<1> QED
  BY <1>1, <1>2, <1>3 DEF Moves, Begin, Step, Lock, Stat, Create, Fill, ReadAfterStat, OpenExisting,
     Truncate, WriteList, Fetch, Republish, RepublishFiles

\* No step doubles a key in a file or in the list a handler holds.
LEMMA DistinctStep ==
    ASSUME TypeOK, Control, AllDistinct, [Next]_vars
    PROVE  AllDistinct'
<1>0. Distinct({})
  BY DEF Distinct
<1>1. \A s \in Stores : Distinct(list[s])
  BY DEF AllDistinct, NoDuplicates, Distinct
<1>2. SUFFICES (\A s \in Stores : Distinct(list'[s])) /\ \A p \in Threads : Distinct(snap'[p])
  BY DEF AllDistinct, NoDuplicates, Distinct
<1>3. ASSUME NEW p \in Threads, Moves(p)
      PROVE  (\A s \in Stores : Distinct(list'[s])) /\ \A q \in Threads : Distinct(snap'[q])
  <2>1. Aside(p) /\ Confined(p)
    BY <1>3, ControlStep, ConfinedStep
  <2>2. ASSUME NEW s \in Stores
        PROVE  Distinct(list'[s])
    <3>1. CASE list'[s] = list[s]
      BY <1>1, <3>1
    <3>2. CASE Truncated(store[p]) /\ list'[s] # list[s]
      BY <1>0, <3>2 DEF Truncated, TypeOK
    <3>3. CASE Written(store[p], {}) /\ list'[s] # list[s]
      BY <1>0, <3>3 DEF Written, TypeOK
    <3>4. CASE Written(store[p], snap[p]) /\ list'[s] # list[s]
      BY <3>4 DEF Written, TypeOK, AllDistinct
    <3> QED
      BY <1>3, <3>1, <3>2, <3>3, <3>4 DEF Moves, Begin, Step, Lock, Stat, Create, Fill, ReadAfterStat,
         OpenExisting, Truncate, WriteList, Fetch, Republish, RepublishFiles, fileVars
  <2>3. Distinct(snap'[p])
    <3>1. CASE snap'[p] = snap[p]
      BY <3>1 DEF AllDistinct
    <3>2. CASE Return(p)
      BY <1>0, <3>2, ReturnControl
    <3>3. CASE pc[p] \in {"read", "open"} /\ ReadList(p) /\ ~Return(p)
      <4>1. /\ store[p] \in Stores /\ request[p] \in Requests
            /\ request[p].kind \in Writers
        BY <3>3 DEF Control, Placed, Writers
      <4>2. Distinct(Change(list[store[p]], request[p]))
        BY <1>1, <4>1, ChangeDistinct DEF TypeOK
      <4> QED
        BY <3>3, <4>2 DEF ReadList, TypeOK
    <3> QED
      BY <1>3, <3>1, <3>2, <3>3 DEF Moves, Begin, Step, Lock, Stat, Create, Fill, ReadAfterStat,
         OpenExisting, Truncate, WriteList, Fetch, Republish, RepublishFiles
  <2>4. ASSUME NEW q \in Threads \ {p}
        PROVE  Distinct(snap'[q])
    BY <2>1 DEF Aside, AllDistinct
  <2> QED
    BY <2>2, <2>3, <2>4
<1>4. CASE Exit
  BY <1>0, <1>1, <1>4, ExitControl DEF Exit, fileVars
<1>5. CASE UNCHANGED vars
  BY <1>1, <1>5 DEF vars, fileVars, threadVars, AllDistinct
<1> QED
  BY <1>3, <1>4, <1>5 DEF Next, Crash, Moves

\* Whoever begins a window on a file that stays intact has it alone: a rival
\* would have been noticed, and any other handler holds the same mutex.
LEMMA EnterAlone ==
    ASSUME TypeOK, Control, NEW p \in Threads, pc[p] \in {"stat", "open"}, Enter(p),
           NEW s \in Stores, store[p] = s, intact'[s], NEW q \in Threads \ {p}
    PROVE  ~InWindow(q, s)
<1> SUFFICES ASSUME InWindow(q, s) PROVE FALSE
  OBVIOUS
<1>0. Placed(p) /\ Locking(p) /\ Locking(q)
  BY DEF Control
<1>1. ~Rivals(p, q)
  BY DEF Enter, TypeOK
<1>2. /\ LockOf(request[p].kind) # NoMutex
      /\ LockOf(request[p].kind) = LockOf(request[q].kind)
  BY <1>1 DEF Rivals
<1>3. request[p].kind \in {"save", "vote"} /\ request[q].kind = request[p].kind
  BY <1>0, <1>2 DEF Placed, LockOf, NoMutex, InWindow, Writers
<1> QED
  BY <1>0, <1>3 DEF Locking, InWindow

\* What is intact after a step was so before; and where p begins its window
\* on an intact file nobody else has one.
LEMMA IntactStep ==
    ASSUME TypeOK, Control, NEW p \in Threads, Moves(p),
           NEW s \in Stores, intact'[s]
    PROVE  /\ intact[s]
           /\ InWindow(p, s)' /\ ~InWindow(p, s) => \A q \in Threads \ {p} : ~InWindow(q, s)
<1>1. intact[s]
  BY DEF TypeOK, Moves, Begin, Step, Lock, Stat, Create, Fill, ReadAfterStat, OpenExisting, Truncate,
     WriteList, Fetch, Republish, RepublishFiles, Enter
<1>2. ASSUME pc[p] \in {"stat", "open"}, Enter(p), store[p] = s
      PROVE  \A q \in Threads \ {p} : ~InWindow(q, s)
  BY <1>2, EnterAlone
<1>3. ASSUME InWindow(p, s)', ~InWindow(p, s)
      PROVE  pc[p] \in {"stat", "open"} /\ Enter(p) /\ store[p] = s
  <2>1. ~Return(p)
    BY <1>3, ReturnControl DEF InWindow
  <2>2. ASSUME NEW z \in Stores, NEW r \in Requests, Begin(p, z, r)
        PROVE  FALSE
    BY <1>3, <2>2 DEF Begin, Goto, InWindow, TypeOK
  <2>3. CASE Stat(p)
    BY <1>3, <2>3 DEF Stat, Goto, InWindow, TypeOK
  <2>4. CASE OpenExisting(p)
    BY <1>3, <2>1, <2>4 DEF OpenExisting, ReadList, Goto, InWindow, TypeOK
  <2>5. CASE ReadAfterStat(p)
    BY <1>3, <2>1, <2>5 DEF ReadAfterStat, ReadList, Goto, InWindow, TypeOK
  <2>6. CASE Lock(p)
    BY <1>3, <2>6 DEF Lock, Goto, InWindow, TypeOK
  <2>7. CASE Create(p) \/ Fill(p) \/ Truncate(p)
    BY <1>3, <2>7 DEF Create, Fill, Truncate, Goto, InWindow, TypeOK
  <2>8. CASE Fetch(p) \/ Republish(p)
    BY <1>3, <2>1, <2>8 DEF Fetch, Republish, Goto, InWindow, TypeOK
  <2> QED
    BY <2>1, <2>2, <2>3, <2>4, <2>5, <2>6, <2>7, <2>8 DEF Moves, Step, WriteList, RepublishFiles
<1> QED
  BY <1>1, <1>2, <1>3

\* An intact file has at most one handler between its read and its write.
LEMMA AloneStep ==
    ASSUME TypeOK, Control, Alone, NEW p \in Threads, Moves(p)
    PROVE  Alone'
<1> SUFFICES ASSUME NEW s \in Stores, NEW q1 \in Threads, NEW q2 \in Threads,
                    intact'[s], InWindow(q1, s)', InWindow(q2, s)'
             PROVE  q1 = q2
  BY DEF Alone
<1>1. \A q \in Threads \ {p} : InWindow(q, s)' => InWindow(q, s)
  BY ControlStep DEF Aside, InWindow
<1> QED
  BY <1>1, IntactStep DEF Alone

\* A file that is missing or empty holds no entry.
LEMMA BlankStep ==
    ASSUME TypeOK, Blank, NEW p \in Threads, Moves(p)
    PROVE  Blank'
<1>1. CASE UNCHANGED fileVars
  BY <1>1 DEF Blank, fileVars
<1>2. CASE Truncated(store[p])
  BY <1>2 DEF Blank, Truncated, TypeOK
<1>3. ASSUME NEW l, Written(store[p], l)
      PROVE  Blank'
  BY <1>3 DEF Blank, Written, TypeOK
<1> QED
  BY <1>1, <1>2, <1>3 DEF Moves, Begin, Step, Lock, Stat, Create, Fill, ReadAfterStat, OpenExisting,
     Truncate, WriteList, Fetch, Republish, RepublishFiles

\* What p's own step makes of an intact file.
LEMMA OwnContent ==
    ASSUME IInv, NEW p \in Threads, Moves(p),
           NEW s \in Stores, intact[s], intact'[s]
    PROVE  /\ InWindow(p, s)' => Sound(p, s)'
           /\ InWindow(p, s) /\ ~InWindow(p, s)' => kind'[s] \in {"missing", "json"}
           /\ pc[p] \in {"fill", "write"} /\ store[p] = s => kind'[s] \in {"missing", "json"}
<1> USE DEF IInv
<1>0. Placed(p) /\ (InWindow(p, s) => Sound(p, s))
  BY DEF Control, Content
<1>a. ASSUME Return(p), UNCHANGED fileVars, pc[p] \notin {"create", "fill", "write"}
      PROVE  /\ ~InWindow(p, s)'
             /\ InWindow(p, s) => kind'[s] \in {"missing", "json"}
  BY <1>a, <1>0, ReturnControl DEF InWindow, Sound, fileVars
<1>1. ASSUME NEW z \in Stores, NEW r \in Requests, Begin(p, z, r)
      PROVE  ~InWindow(p, s)' /\ ~InWindow(p, s) /\ pc[p] = "idle"
  BY <1>1 DEF Begin, Goto, InWindow, TypeOK
<1>2. CASE Lock(p)
  BY <1>2 DEF Lock, Goto, InWindow, TypeOK
<1>3. CASE Stat(p)
  <2>1. ASSUME store[p] = s
        PROVE  Sound(p, s)'
    <3>1. kind[s] \in {"missing", "json"}
      <4>1. \A q \in Threads \ {p} : ~InWindow(q, s)
        BY <1>0, <1>3, <2>1, IntactStep DEF Stat, Goto, InWindow, TypeOK, Placed, Writers
      <4>2. \A q \in Threads : store[q] = s => pc[q] \notin {"fill", "write"}
        BY <1>3, <4>1 DEF Control, Placed, InWindow, Stat, Writers
      <4> QED
        BY <4>2 DEF ParsesIfIntact
    <3> QED
      BY <1>3, <2>1, <3>1 DEF Stat, Goto, Sound, TypeOK, fileVars
  <2> QED
    BY <1>3, <2>1 DEF Stat, Goto, InWindow, TypeOK
<1>4. CASE Create(p)
  BY <1>4 DEF Create, Truncated, Goto, InWindow, Sound, TypeOK
<1>5. CASE Fill(p)
  <2>1. ASSUME store[p] = s
        PROVE  kind[s] = "empty" /\ kind'[s] = "json"
    BY <1>0, <1>5, <2>1 DEF Fill, Written, InWindow, Sound, TypeOK, Placed, Writers
  <2> QED
    BY <1>5, <2>1 DEF Fill, Goto, InWindow, Sound, TypeOK
<1>6. ASSUME ReadAfterStat(p) \/ OpenExisting(p)
      PROVE  /\ InWindow(p, s)' => Sound(p, s)'
             /\ InWindow(p, s) /\ ~InWindow(p, s)' => kind'[s] \in {"missing", "json"}
             /\ pc[p] \notin {"fill", "write"}
  <2>1. CASE Return(p)
    BY <1>6, <1>a, <2>1 DEF ReadAfterStat, OpenExisting
  <2>2. CASE ~Return(p)
    <3>1. store[p] = s => Sound(p, s)'
      BY <1>6, <2>2, SMTT(30) DEF ReadAfterStat, OpenExisting, ReadList, Goto, Sound, TypeOK, fileVars
    <3> QED
      BY <1>0, <1>6, <2>2, <3>1
         DEF ReadAfterStat, OpenExisting, ReadList, Goto, InWindow, TypeOK
  <2> QED
    BY <2>1, <2>2
<1>7. CASE Truncate(p)
  BY <1>7 DEF Truncate, Truncated, Goto, InWindow, Sound, TypeOK
<1>8. CASE WriteList(p)
  <2>1. ASSUME store[p] = s
        PROVE  kind'[s] = "json"
    <3>1. kind[s] = "empty"
      BY <1>0, <1>8, <2>1 DEF WriteList, InWindow, Sound, Placed
    <3> QED
      BY <1>8, <2>1, <3>1 DEF WriteList, Written, TypeOK
  <2> QED
    BY <1>8, <2>1, ReturnControl DEF WriteList, InWindow
<1>9. CASE (Fetch(p) \/ Republish(p) \/ RepublishFiles(p)) /\ ~Exit
  <2>1. ~InWindow(p, s) /\ pc[p] \notin {"fill", "write"}
    BY <1>9 DEF Fetch, Republish, RepublishFiles, InWindow
  <2>2. ~InWindow(p, s)'
    <3>1. CASE Return(p)
      BY <3>1, ReturnControl DEF InWindow
    <3>2. CASE ~Return(p)
      BY <1>9, <3>2 DEF Fetch, Republish, RepublishFiles, Goto, InWindow, TypeOK
    <3> QED
      BY <3>1, <3>2
  <2> QED
    BY <2>1, <2>2
<1> QED
  BY <1>1, <1>2, <1>3, <1>4, <1>5, <1>6, <1>7, <1>8, <1>9 DEF Moves, Step

\* An intact file holds the list its handler read, until it is written.
LEMMA ContentStep ==
    ASSUME IInv, NEW p \in Threads, Moves(p)
    PROVE  Content' /\ ParsesIfIntact'
<1>0. TypeOK /\ Control /\ Alone /\ Content /\ ParsesIfIntact
  BY DEF IInv
<1>1. Aside(p) /\ Confined(p)
  BY <1>0, ControlStep, ConfinedStep
<1> SUFFICES ASSUME NEW s \in Stores, intact'[s]
             PROVE  /\ \A q \in Threads : InWindow(q, s)' => Sound(q, s)'
                    /\ kind'[s] \notin {"missing", "json"} =>
                          \E q \in Threads : store'[q] = s /\ pc'[q] \in {"fill", "write"}
  BY DEF Content, ParsesIfIntact
<1>3. intact[s]
  BY <1>0, IntactStep
<1>4. Placed(p)
  BY <1>0 DEF Control
<1>5. ASSUME NEW q \in Threads \ {p}, InWindow(q, s)'
      PROVE  Sound(q, s)'
  <2>1. InWindow(q, s) /\ Sound(q, s)
    BY <1>0, <1>1, <1>3, <1>5 DEF Aside, InWindow, Content
  <2>2. ~InWindow(p, s)
    BY <1>0, <1>3, <2>1 DEF Alone
  <2>3. kind'[s] = kind[s] /\ list'[s] = list[s]
    BY <1>1, <1>4, <2>2 DEF Confined, InWindow, Placed, Writers
  <2> QED
    BY <1>1, <2>1, <2>3 DEF Aside, Sound
<1>6. ASSUME kind'[s] \notin {"missing", "json"}
      PROVE  \E q \in Threads : store'[q] = s /\ pc'[q] \in {"fill", "write"}
  <2>1. CASE InWindow(p, s)
    <3>1. InWindow(p, s)' /\ Sound(p, s)'
      BY <1>3, <1>6, <2>1, OwnContent
    <3> QED
      BY <1>6, <3>1 DEF InWindow, Sound
  <2>2. CASE ~InWindow(p, s)
    <3>1. kind[s] = kind'[s]
      BY <1>1, <1>4, <2>2 DEF Confined, InWindow, Placed, Writers
    <3>2. PICK q \in Threads : store[q] = s /\ pc[q] \in {"fill", "write"}
      BY <1>0, <1>3, <1>6, <3>1 DEF ParsesIfIntact
    <3>3. q # p
      BY <1>4, <2>2, <3>2 DEF InWindow, Placed, Writers
    <3> QED
      BY <1>1, <3>2, <3>3 DEF Aside
  <2> QED
    BY <2>1, <2>2
<1> QED
  BY <1>3, <1>5, <1>6, OwnContent

-----------------------------------------------------------------------------
(* The invariant, and what follows from it. *)

\* The invariant holds when the node starts.
LEMMA Initially ==
    ASSUME Init
    PROVE  IInv
<1>1. TypeOK
  BY StoreAssumption, SMTT(30) DEF Init, TypeOK, Requests, NoRequest
<1>2. Control
  BY DEF Init, Control, Placed, Locking
<1>3. AllDistinct /\ Blank
  BY DEF Init, AllDistinct, NoDuplicates, Distinct, Blank
<1>4. Alone /\ Content
  BY DEF Init, Alone, Content, InWindow
<1>5. ParsesIfIntact
  BY DEF Init, ParsesIfIntact
<1> QED
  BY <1>1, <1>2, <1>3, <1>4, <1>5 DEF IInv

\* Every step of the handlers keeps the invariant.
LEMMA Inductive ==
    ASSUME IInv, [Next]_vars
    PROVE  IInv'
<1> USE DEF IInv
<1>1. TypeOK' /\ AllDistinct'
  BY TypeStep, DistinctStep
<1>2. ASSUME NEW p \in Threads, Moves(p)
      PROVE  Control' /\ Blank' /\ Alone' /\ Content' /\ ParsesIfIntact'
  BY <1>2, ControlStep, BlankStep, AloneStep, ContentStep
<1>3. ASSUME Exit
      PROVE  Control' /\ Blank' /\ Alone' /\ Content' /\ ParsesIfIntact'
  <2>1. Control' /\ \A s \in Stores, p \in Threads : ~InWindow(p, s)'
    BY <1>3, ExitControl DEF InWindow
  <2>2. Blank' /\ ParsesIfIntact'
    BY <1>3 DEF Exit, fileVars, Blank, ParsesIfIntact, TypeOK
  <2> QED
    BY <2>1, <2>2 DEF Alone, Content
<1>4. ASSUME UNCHANGED vars
      PROVE  Control' /\ Blank' /\ Alone' /\ Content' /\ ParsesIfIntact'
  <2> USE <1>4 DEF vars, fileVars, threadVars
  <2>1. Control'
    BY DEF Control, Placed, Locking
  <2>2. Blank' /\ ParsesIfIntact'
    BY DEF Blank, ParsesIfIntact
  <2>3. \A s \in Stores, p \in Threads : InWindow(p, s)' <=> InWindow(p, s)
    BY DEF InWindow
  <2>4. Alone'
    BY <2>3 DEF Alone
  <2>5. \A s \in Stores, p \in Threads : Sound(p, s)' <=> Sound(p, s)
    BY DEF Sound
  <2>6. Content'
    BY <2>3, <2>5 DEF Content
  <2> QED
    BY <2>1, <2>2, <2>4, <2>6
<1> QED
  BY <1>1, <1>2, <1>3, <1>4 DEF Next, Crash, Moves

\* The type invariant of the JSON files and the handlers that change them.
THEOREM TypeCorrect == Spec => []TypeOK
<1>1. IInv => TypeOK
  BY DEF IInv
<1> QED
  BY <1>1, Initially, Inductive, PTL DEF Spec

\* No race between handlers, failed write or crash doubles an entry: the key
\* is looked up in the list to which the entry is added (SaveOrUpdateFile,
\* AddOrUpdateTransaction).
THEOREM NeverDoubled == Spec => []NoDuplicates
<1>1. IInv => NoDuplicates
  BY DEF IInv, AllDistinct
<1> QED
  BY <1>1, Initially, Inductive, PTL DEF Spec

\* A file that no rivals met on and no write was cut off in holds JSON, unless
\* a writer is between truncation and write (os.WriteFile).
THEOREM IntactParses == Spec => []ParsesIfIntact
<1>1. IInv => ParsesIfIntact
  BY DEF IInv
<1> QED
  BY <1>1, Initially, Inductive, PTL DEF Spec

\* A file without valid JSON is never repaired by the code.
THEOREM SpoiltStays == Spec => SpoiltForGood
<1>1. ASSUME IInv, [Next]_vars
      PROVE  \A s \in Stores : Spoilt(s) => Spoilt(s)'
  <2> SUFFICES ASSUME NEW s \in Stores, Spoilt(s) PROVE Spoilt(s)'
    OBVIOUS
  <2>0. TypeOK /\ Control
    BY <1>1 DEF IInv
  <2>1. ASSUME NEW p \in Threads, Moves(p)
        PROVE  Spoilt(s)'
    <3>1. Aside(p) /\ Confined(p)
      BY <2>0, <2>1, ControlStep, ConfinedStep
    <3>2. kind'[s] = kind[s]
      BY <3>1 DEF Spoilt, Confined
    <3>3. store'[p] = s => pc'[p] \notin {"create", "fill", "truncate", "write"}
      <4>1. CASE Return(p)
        BY <2>0, <4>1, ReturnControl
      <4>2. ASSUME NEW z \in Stores, NEW r \in Requests, Begin(p, z, r)
            PROVE  pc'[p] \notin {"create", "fill", "truncate", "write"}
        BY <2>0, <4>2 DEF Begin, Goto, TypeOK
      <4>3. CASE Step(p) /\ ~Return(p) /\ ~Exit
        BY <2>0, <4>3 DEF Step, Lock, Stat, Create, Fill, ReadAfterStat, OpenExisting, ReadList,
           Truncate, WriteList, Fetch, Republish, RepublishFiles, Goto, TypeOK, Spoilt
      <4> QED
        BY <2>1, <4>1, <4>2, <4>3 DEF Moves
    <3> QED
      BY <3>1, <3>2, <3>3 DEF Spoilt, Aside
  <2>2. CASE Exit
    BY <2>2, ExitControl DEF Exit, fileVars, Spoilt
  <2>3. CASE UNCHANGED vars
    BY <2>3 DEF vars, fileVars, threadVars, Spoilt
  <2> QED
    BY <1>1, <2>1, <2>2, <2>3 DEF Next, Crash, Moves
<1> QED
  BY <1>1, Initially, Inductive, PTL DEF Spec, SpoiltForGood

-----------------------------------------------------------------------------
(* Each file implements a KeyedList. *)

Writing(p, s) == Changing(p, s) /\ pc[p] = "write"

\* A handler that writes is between its read and the end of its write.
LEMMA WritingInWindow ==
    ASSUME NEW p \in Threads, NEW s \in Stores
    PROVE  (Writing(p, s) => InWindow(p, s)) /\ (Writing(p, s)' => InWindow(p, s)')
  BY DEF Writing, Changing, InWindow

\* The list a writer is writing is that of the KeyedList; else the file's.
LEMMA AbsListWriting ==
    ASSUME Alone, NEW s \in Stores, intact[s], NEW p \in Threads, Writing(p, s)
    PROVE  AbsList(s) = snap[p]
  BY WritingInWindow DEF Alone, AbsList, Writing

\* The same in the next state.
LEMMA AbsListWritingNext ==
    ASSUME Alone', NEW s \in Stores, intact'[s], NEW p \in Threads, Writing(p, s)'
    PROVE  AbsList(s)' = snap'[p]
  BY WritingInWindow DEF Alone, AbsList, Writing

\* A file that nobody writes holds the list of its KeyedList.
LEMMA AbsListQuiet ==
    ASSUME NEW s \in Stores
    PROVE  /\ (\A p \in Threads : ~Writing(p, s)) => AbsList(s) = list[s]
           /\ (\A p \in Threads : ~Writing(p, s)') => AbsList(s)' = list'[s]
  BY DEF AbsList, Writing

\* What p's step leaves alone for the others.
LEMMA OthersKept ==
    ASSUME NEW p \in Threads, Aside(p), NEW s \in Stores, NEW q \in Threads \ {p}
    PROVE  /\ AbsPhase(q, s)' = AbsPhase(q, s) /\ AbsRequest(q, s)' = AbsRequest(q, s)
           /\ Writing(q, s)' = Writing(q, s)
  BY DEF Aside, AbsPhase, AbsRequest, Changing, Writing

\* A step of p that keeps p's own part is no step of the KeyedList.
LEMMA Stutter ==
    ASSUME IInv, Alone', NEW p \in Threads, Aside(p), Confined(p), NEW s \in Stores,
           intact[s], intact'[s], ~Writing(p, s), ~Writing(p, s)',
           AbsPhase(p, s)' = AbsPhase(p, s), AbsRequest(p, s)' = AbsRequest(p, s),
           list'[s] = list[s]
    PROVE  UNCHANGED Keyed(s)!absVars
<1>1. AbsList(s)' = AbsList(s)
  <2>1. CASE \E q \in Threads : Writing(q, s)
    <3>1. PICK q \in Threads : Writing(q, s)
      BY <2>1
    <3>2. q # p /\ Writing(q, s)' /\ snap'[q] = snap[q]
      <4>1. q # p
        BY <3>1
      <4>2. Writing(q, s)' = Writing(q, s)
        BY <4>1, OthersKept
      <4> QED
        BY <3>1, <4>1, <4>2 DEF Aside
    <3>3. AbsList(s) = snap[q]
      BY <3>1, AbsListWriting DEF IInv
    <3>4. AbsList(s)' = snap'[q]
      BY <3>2, AbsListWritingNext
    <3> QED
      BY <3>2, <3>3, <3>4
  <2>2. CASE \A q \in Threads : ~Writing(q, s)
    BY <2>2, OthersKept, AbsListQuiet
  <2> QED
    BY <2>1, <2>2
<1>2. \A q \in Threads : AbsPhase(q, s)' = AbsPhase(q, s) /\ AbsRequest(q, s)' = AbsRequest(q, s)
  BY OthersKept
<1> QED
  BY <1>1, <1>2 DEF Keyed!absVars

\* Nobody is writing the file that p has its window on.
LEMMA Quiet ==
    ASSUME IInv, NEW s \in Stores, intact[s], NEW p \in Threads, InWindow(p, s), pc[p] # "write"
    PROVE  \A q \in Threads : ~Writing(q, s)
  BY WritingInWindow DEF IInv, Alone, Writing

\* The steps of p that count for file s, one lemma each.
LEMMA BeginIsCall ==
    ASSUME IInv, Alone', NEW p \in Threads, NEW s \in Stores, intact[s], intact'[s],
           NEW r \in Requests, r.kind \in Writers, Begin(p, s, r), Aside(p)
    PROVE  Keyed(s)!Call(p)
<1>1. /\ AbsPhase(p, s) = "idle" /\ AbsPhase(p, s)' = "called"
      /\ AbsRequest(p, s)' = r
  BY DEF IInv, Control, Placed, TypeOK, Begin, Goto, AbsPhase, AbsRequest, Changing, Writers,
     NoRequest
<1>2. AbsList(s)' = AbsList(s)
  <2>1. ~Writing(p, s) /\ ~Writing(p, s)' /\ list' = list
    BY DEF IInv, TypeOK, Begin, Goto, Writing, fileVars
  <2>2. CASE \E q \in Threads : Writing(q, s)
    <3>1. PICK q \in Threads : Writing(q, s)
      BY <2>2
    <3>2. q # p /\ Writing(q, s)' /\ snap'[q] = snap[q]
      <4>1. q # p
        BY <2>1, <3>1
      <4>2. Writing(q, s)' = Writing(q, s)
        BY <4>1, OthersKept
      <4> QED
        BY <3>1, <4>1, <4>2 DEF Aside
    <3>3. AbsList(s) = snap[q]
      BY <3>1, AbsListWriting DEF IInv
    <3>4. AbsList(s)' = snap'[q]
      BY <3>2, AbsListWritingNext
    <3> QED
      BY <3>2, <3>3, <3>4
  <2>3. CASE \A q \in Threads : ~Writing(q, s)
    BY <2>1, <2>3, OthersKept, AbsListQuiet
  <2> QED
    BY <2>2, <2>3
<1>3. \A q \in Threads \ {p} : AbsPhase(q, s)' = AbsPhase(q, s) /\ AbsRequest(q, s)' = AbsRequest(q, s)
  BY OthersKept
<1>4. intact'[s] = intact[s]
  BY DEF Begin
<1> QED
  BY <1>1, <1>2, <1>3, <1>4 DEF Keyed!Call

\* The truncation of an intact file is where the change takes effect.
LEMMA TruncateIsApply ==
    ASSUME IInv, Alone', NEW p \in Threads, NEW s \in Stores, intact[s], intact'[s],
           store[p] = s, Truncate(p), Aside(p)
    PROVE  Keyed(s)!Apply(p)
<1>1. /\ request[p] \in Requests /\ request[p].kind \in Writers /\ InWindow(p, s)
      /\ pc[p] = "truncate"
  BY DEF IInv, Control, Placed, Truncate, InWindow
<1>2. snap[p] = Change(list[s], request[p]) /\ ~Refused(list[s], request[p])
  BY <1>1 DEF IInv, Content, Sound
<1>3. AbsList(s) = list[s]
  BY <1>1, Quiet, AbsListQuiet
<1>4. Writing(p, s)' /\ snap'[p] = snap[p]
  BY <1>1 DEF IInv, TypeOK, Truncate, Goto, Writing, Changing
<1>5. AbsList(s)' = snap[p]
  BY <1>4, AbsListWritingNext
<1>6. Distinct(list[s]) /\ list[s] \in SUBSET Entry
  BY DEF IInv, AllDistinct, NoDuplicates, Distinct, TypeOK
<1>7. AbsList(s)' = Keyed(s)!Effect(AbsList(s), request[p])
  BY <1>1, <1>2, <1>3, <1>5, <1>6, ChangeIsEffect
<1>8. Keyed(s)!MayApply(AbsList(s), request[p])
  BY <1>2, <1>3 DEF Keyed!MayApply, Keyed!HasKey, Refused, Keys
<1>9. /\ AbsPhase(p, s) = "called" /\ AbsPhase(p, s)' = "done"
      /\ AbsRequest(p, s) = request[p] /\ AbsRequest(p, s)' = request[p]
  BY <1>1 DEF IInv, TypeOK, Truncate, Goto, AbsPhase, AbsRequest, Changing
<1>10. \A q \in Threads \ {p} : AbsPhase(q, s)' = AbsPhase(q, s) /\ AbsRequest(q, s)' = AbsRequest(q, s)
  BY OthersKept
<1>11. intact'[s] = intact[s]
  BY DEF Truncate
<1> QED
  BY <1>7, <1>8, <1>9, <1>10, <1>11 DEF Keyed!Apply

\* A handler that finds nothing to change is refused by the KeyedList.
LEMMA OpenIsRefuse ==
    ASSUME IInv, Alone', NEW p \in Threads, NEW s \in Stores, intact[s], intact'[s],
           store[p] = s, OpenExisting(p), Return(p), Aside(p), pc'[p] = "idle",
           \A q \in Threads \ {p} : ~InWindow(q, s)
    PROVE  Keyed(s)!Refuse(p)
<1>1. /\ request[p] \in Requests /\ request[p].kind \in {"vote", "delete"}
      /\ pc[p] = "open" /\ request[p].kind \in Writers
  BY DEF IInv, Control, Placed, OpenExisting, Writers
<1>2. \A q \in Threads : store[q] = s => pc[q] \notin {"fill", "write"}
  BY <1>1 DEF IInv, Control, Placed, InWindow, Writers
<1>3. kind[s] \in {"missing", "json"}
  BY <1>2 DEF IInv, ParsesIfIntact
<1>4. kind[s] # "json" \/ Refused(list[s], request[p])
  BY <1>1 DEF OpenExisting, ReadList, Goto, IInv, TypeOK
<1>5. \A q \in Threads : ~Writing(q, s) /\ ~Writing(q, s)'
  BY <1>2, OthersKept DEF Writing, Changing
<1>6. AbsList(s) = list[s] /\ AbsList(s)' = list[s]
  BY <1>5, AbsListQuiet DEF OpenExisting, fileVars
<1>7. Keyed(s)!MayRefuse(AbsList(s), request[p])
  <2>1. CASE kind[s] = "missing"
    BY <1>1, <1>6, <2>1 DEF IInv, Blank, Keyed!MayRefuse, Keyed!HasKey
  <2>2. CASE Refused(list[s], request[p])
    BY <1>6, <2>2 DEF Refused, Keys, Keyed!MayRefuse, Keyed!HasKey
  <2> QED
    BY <1>3, <1>4, <2>1, <2>2
<1>8. /\ AbsPhase(p, s) = "called" /\ AbsRequest(p, s) = request[p]
      /\ AbsPhase(p, s)' = "idle" /\ AbsRequest(p, s)' = NoRequest
  <2>1. store'[p] = None /\ request'[p] = NoRequest
    BY ReturnControl DEF IInv
  <2> QED
    BY <1>1, <2>1, SMTT(30) DEF AbsPhase, AbsRequest, Changing, NoRequest, Writers
<1>9. \A q \in Threads \ {p} : AbsPhase(q, s)' = AbsPhase(q, s) /\ AbsRequest(q, s)' = AbsRequest(q, s)
  BY OthersKept
<1> QED
  BY <1>6, <1>7, <1>8, <1>9 DEF Keyed!Refuse, IInv, TypeOK

\* The end of the write is the return of the call.
LEMMA WriteIsReturn ==
    ASSUME IInv, Alone', NEW p \in Threads, NEW s \in Stores, intact[s], intact'[s],
           store[p] = s, WriteList(p), Aside(p)
    PROVE  Keyed(s)!Return(p)
<1>1. Writing(p, s) /\ InWindow(p, s)
  BY DEF IInv, Control, Placed, WriteList, InWindow, Writing, Changing
<1>2. /\ store'[p] = None /\ request'[p] = NoRequest /\ pc'[p] = "idle"
  BY ReturnControl DEF IInv, WriteList
<1>3. list'[s] = snap[p]
  <2>1. kind[s] = "empty"
    BY <1>1 DEF IInv, Content, Sound, Writing
  <2> QED
    BY <2>1 DEF WriteList, Written, IInv, TypeOK
<1>4. \A q \in Threads : ~Writing(q, s)'
  <2>1. \A q \in Threads \ {p} : ~Writing(q, s)
    BY <1>1, WritingInWindow DEF IInv, Alone
  <2> QED
    BY <1>2, <2>1, OthersKept DEF Writing
<1>5. AbsList(s) = snap[p] /\ AbsList(s)' = snap[p]
  BY <1>1, <1>3, <1>4, AbsListWriting, AbsListQuiet DEF IInv
<1>6. /\ AbsPhase(p, s) = "done" /\ AbsPhase(p, s)' = "idle" /\ AbsRequest(p, s)' = NoRequest
  BY <1>1, <1>2, SMTT(30) DEF Writing, AbsPhase, AbsRequest, Changing, NoRequest, Writers
<1>7. \A q \in Threads \ {p} : AbsPhase(q, s)' = AbsPhase(q, s) /\ AbsRequest(q, s)' = AbsRequest(q, s)
  BY OthersKept
<1> QED
  BY <1>5, <1>6, <1>7 DEF Keyed!Return, IInv, TypeOK

\* A step of p maps to one of the KeyedList of s, or to none.
LEMMA MoveRefines ==
    ASSUME IInv, IInv', NEW p \in Threads, Moves(p), NEW s \in Stores
    PROVE  [Keyed(s)!AbsNext]_(Keyed(s)!absVars)
<1>0. TypeOK /\ Control /\ Alone' /\ Placed(p)
  BY DEF IInv, Control
<1>1. Aside(p) /\ Confined(p)
  BY <1>0, ControlStep, ConfinedStep
<1>2. CASE ~intact'[s]
  BY <1>2 DEF Keyed!AbsNext, Keyed!Disturbed
<1>3. CASE intact'[s]
  <2>0. intact[s]
    BY <1>0, <1>3, IntactStep
  <2>a. ASSUME ~Writing(p, s), ~Writing(p, s)', AbsPhase(p, s)' = AbsPhase(p, s),
               AbsRequest(p, s)' = AbsRequest(p, s), list'[s] = list[s]
        PROVE  UNCHANGED Keyed(s)!absVars
    BY <1>0, <1>1, <1>3, <2>0, <2>a, Stutter
  <2>b. ASSUME ~Changing(p, s), ~Changing(p, s)'
        PROVE  UNCHANGED Keyed(s)!absVars
    <3>1. list'[s] = list[s]
      BY <1>0, <1>1, <2>b DEF Confined, Changing, Placed, Writers
    <3> QED
      BY <2>a, <2>b, <3>1 DEF Writing, AbsPhase, AbsRequest
  <2>1. ASSUME NEW z \in Stores, NEW r \in Requests, Begin(p, z, r)
        PROVE  [Keyed(s)!AbsNext]_(Keyed(s)!absVars)
    <3>1. CASE z = s /\ r.kind \in Writers
      BY <1>0, <1>1, <1>3, <2>0, <2>1, <3>1, BeginIsCall DEF Keyed!AbsNext
    <3>2. CASE ~(z = s /\ r.kind \in Writers)
      <4>1. ~Changing(p, s) /\ ~Changing(p, s)'
        BY <1>0, <2>1, <3>2 DEF Begin, Placed, TypeOK, Changing, NoRequest, Writers
      <4> QED
        BY <2>b, <4>1
    <3> QED
      BY <3>1, <3>2
  <2>2. ASSUME Step(p), ~Exit, ~Changing(p, s)
        PROVE  UNCHANGED Keyed(s)!absVars
    <3>1. ~Changing(p, s)'
      <4>1. CASE Return(p)
        BY <1>0, <4>1, ReturnControl DEF Changing, NoRequest, Writers
      <4>2. CASE ~Return(p)
        BY <1>0, <2>2, <4>2 DEF Step, Lock, Stat, Create, Fill, ReadAfterStat, OpenExisting,
           ReadList, Truncate, WriteList, Fetch, Republish, RepublishFiles, Changing
      <4> QED
        BY <4>1, <4>2
    <3> QED
      BY <2>2, <2>b, <3>1
  <2>3. ASSUME Step(p), ~Exit, Changing(p, s)
        PROVE  [Keyed(s)!AbsNext]_(Keyed(s)!absVars)
    <3>0. store[p] = s /\ request[p].kind \in Writers
      BY <2>3 DEF Changing
    <3>1. CASE Lock(p) \/ Stat(p)
      BY <1>0, <2>a, <3>0, <3>1
         DEF Lock, Stat, Goto, TypeOK, fileVars, Writing, AbsPhase, AbsRequest, Changing
    <3>2. CASE Create(p)
      <4>1. kind[s] = "missing"
        BY <2>0, <3>0, <3>2 DEF Create, IInv, Content, InWindow, Sound
      <4>2. list'[s] = list[s]
        BY <3>0, <3>2, <4>1 DEF Create, Truncated, IInv, TypeOK, Blank
      <4> QED
        BY <1>0, <2>a, <3>0, <3>2, <4>2
           DEF Create, Goto, TypeOK, Writing, AbsPhase, AbsRequest, Changing
    <3>3. CASE Fill(p)
      <4>1. kind[s] = "empty"
        BY <2>0, <3>0, <3>3 DEF Fill, IInv, Content, InWindow, Sound
      <4>2. list'[s] = list[s]
        BY <3>0, <3>3, <4>1 DEF Fill, Written, IInv, TypeOK, Blank
      <4> QED
        BY <1>0, <2>a, <3>0, <3>3, <4>2
           DEF Fill, Goto, TypeOK, Writing, AbsPhase, AbsRequest, Changing
    <3>4. CASE ReadAfterStat(p) \/ (OpenExisting(p) /\ ~Return(p))
      <4>1. ASSUME ReadAfterStat(p), kind[s] # "json" \/ Refused(list[s], request[p])
            PROVE  FALSE
        <5>1. kind[s] = "json"
          BY <2>0, <3>0, <4>1 DEF ReadAfterStat, IInv, Content, InWindow, Sound
        <5> QED
          BY <1>0, <4>1, <5>1 DEF ReadAfterStat, Refused, Placed
      <4>2. /\ pc[p] \in {"read", "open"} /\ pc' = [pc EXCEPT ![p] = "truncate"]
            /\ UNCHANGED <<store, request, fileVars>>
        BY <3>0, <3>4, <4>1 DEF ReadAfterStat, OpenExisting, ReadList, Goto
      <4> QED
        BY <1>0, <2>a, <3>0, <4>2
           DEF TypeOK, fileVars, Writing, AbsPhase, AbsRequest, Changing
    <3>5. CASE OpenExisting(p) /\ Return(p)
      <4>1. \A q \in Threads \ {p} : ~InWindow(q, s)
        BY <1>0, <1>3, <3>0, <3>5, EnterAlone DEF OpenExisting
      <4>2. pc'[p] = "idle"
        BY <1>0, <3>5, ReturnControl
      <4> QED
        BY <1>0, <1>1, <1>3, <2>0, <3>0, <3>5, <4>1, <4>2, OpenIsRefuse DEF Keyed!AbsNext
    <3>6. CASE Truncate(p)
      BY <1>0, <1>1, <1>3, <2>0, <3>0, <3>6, TruncateIsApply DEF Keyed!AbsNext
    <3>7. CASE WriteList(p)
      BY <1>0, <1>1, <1>3, <2>0, <3>0, <3>7, WriteIsReturn DEF Keyed!AbsNext
    <3>8. ~(Fetch(p) \/ Republish(p) \/ RepublishFiles(p))
      BY <1>0, <3>0 DEF Fetch, Republish, RepublishFiles, Placed, Readers, Writers
    <3> QED
      BY <2>3, <3>1, <3>2, <3>3, <3>4, <3>5, <3>6, <3>7, <3>8 DEF Step
  <2> QED
    BY <2>1, <2>2, <2>3 DEF Moves
<1> QED
  BY <1>2, <1>3

\* The end of the process maps to a restart of the KeyedList, if no write to
\* the file was cut off.
LEMMA ExitRefines ==
    ASSUME IInv, Exit, NEW s \in Stores
    PROVE  Keyed(s)!AbsNext
<1>1. CASE ~intact'[s]
  BY <1>1 DEF Keyed!AbsNext, Keyed!Disturbed
<1>2. CASE intact'[s]
  <2>1. intact[s] /\ \A p \in Threads : ~Writing(p, s)
    BY <1>2 DEF Exit, Writing, Changing
  <2>2. \A p \in Threads : pc'[p] = "idle" /\ store'[p] = None /\ request'[p] = NoRequest
    BY ExitControl
  <2>3. \A p \in Threads : ~Changing(p, s)' /\ ~Writing(p, s)'
    BY <2>2 DEF Changing, Writing, NoRequest, Writers
  <2>4. AbsList(s)' = AbsList(s)
    BY <2>1, <2>3, AbsListQuiet DEF Exit, fileVars
  <2>5. \A p \in Threads : AbsPhase(p, s)' = "idle" /\ AbsRequest(p, s)' = NoRequest
    BY <2>3 DEF AbsPhase, AbsRequest
  <2>6. intact'[s] = intact[s]
    BY <1>2, <2>1 DEF IInv, TypeOK, Exit
  <2> QED
    BY <2>4, <2>5, <2>6 DEF Keyed!AbsNext, Keyed!Restart
<1> QED
  BY <1>1, <1>2

\* Every JSON file implements a KeyedList, whatever goroutines work on it:
\* updates under one mutex are atomic, and so are all others until two
\* handlers that share no mutex meet on the file or a write is cut off.
THEOREM FilesAreLinearizable == Spec => Linearizable
<1>1. Init => \A s \in Stores : Keyed(s)!AbsInit
  <2> SUFFICES ASSUME Init, NEW s \in Stores PROVE Keyed(s)!AbsInit
    OBVIOUS
  <2>1. \A p \in Threads : ~Changing(p, s) /\ ~Writing(p, s)
    BY DEF Init, Changing, Writing, NoRequest, Writers
  <2>2. AbsList(s) = {}
    BY <2>1, AbsListQuiet DEF Init
  <2> QED
    BY <2>1, <2>2 DEF Init, Keyed!AbsInit, AbsPhase, AbsRequest
<1>2. ASSUME IInv, IInv', [Next]_vars
      PROVE  \A s \in Stores : [Keyed(s)!AbsNext]_(Keyed(s)!absVars)
  <2> SUFFICES ASSUME NEW s \in Stores PROVE [Keyed(s)!AbsNext]_(Keyed(s)!absVars)
    OBVIOUS
  <2>1. ASSUME NEW p \in Threads, Moves(p)
        PROVE  [Keyed(s)!AbsNext]_(Keyed(s)!absVars)
    BY <1>2, <2>1, MoveRefines
  <2>2. CASE Exit
    BY <1>2, <2>2, ExitRefines
  <2>3. CASE UNCHANGED vars
    BY <2>3 DEF vars, fileVars, threadVars, Keyed!absVars, AbsList, AbsPhase, AbsRequest, Changing
  <2> QED
    BY <1>2, <2>1, <2>2, <2>3 DEF Next, Crash, Moves
<1> QED
  BY <1>1, <1>2, Initially, Inductive, PTL DEF Spec, Linearizable
=============================================================================
