----------------------------- MODULE KeyedList ------------------------------
(***************************************************************************)
(* What a caller expects of one JSON file of the application: a list of    *)
(* entries with distinct keys on which every call takes effect at once, at *)
(* some moment between the call and its answer.  The promise lapses (intact *)
(* becomes FALSE) when the file is disturbed: by callers that share no     *)
(* lock, or by a write that was cut off.                                   *)
(***************************************************************************)
CONSTANTS Threads,
          Requests,   \* records: a kind, and an entry with key, data and voted
          NoRequest

VARIABLES list, phase, request, intact

absVars == <<list, phase, request, intact>>

HasKey(l, k) == \E e \in l : e.key = k

Without(l, k) == {e \in l : e.key # k}

\* The entry takes the place of the one with its key, if there is one.
Upserted(l, e) == Without(l, e.key) \cup {e}

Marked(l, k) ==
    Without(l, k) \cup {[key |-> k, data |-> e.data, voted |-> TRUE] : e \in l \ Without(l, k)}

Effect(l, r) == CASE r.kind = "vote"   -> Marked(l, r.entry.key)
                  [] r.kind = "delete" -> Without(l, r.entry.key)
                  [] OTHER             -> Upserted(l, r.entry)

\* Changing an entry that is not there may be refused; deleting it must be.
MayRefuse(l, r) == r.kind \in {"vote", "delete"} /\ ~HasKey(l, r.entry.key)
MayApply(l, r)  == r.kind = "delete" => HasKey(l, r.entry.key)

AbsInit ==
    /\ list = {} /\ intact
    /\ phase = [p \in Threads |-> "idle"]
    /\ request = [p \in Threads |-> NoRequest]

Call(p) ==
    /\ phase[p] = "idle"
    /\ phase' = [phase EXCEPT ![p] = "called"]
    /\ request'[p] \in Requests
    /\ \A q \in Threads \ {p} : request'[q] = request[q]
    /\ UNCHANGED <<list, intact>>

Apply(p) ==
    /\ phase[p] = "called" /\ MayApply(list, request[p])
    /\ list' = Effect(list, request[p])
    /\ phase' = [phase EXCEPT ![p] = "done"]
    /\ UNCHANGED <<request, intact>>

\* The call returns an error and has done nothing.
Refuse(p) ==
    /\ phase[p] = "called" /\ MayRefuse(list, request[p])
    /\ phase' = [phase EXCEPT ![p] = "idle"]
    /\ request' = [request EXCEPT ![p] = NoRequest]
    /\ UNCHANGED <<list, intact>>

\* The call returns without an error.
Return(p) ==
    /\ phase[p] = "done"
    /\ phase' = [phase EXCEPT ![p] = "idle"]
    /\ request' = [request EXCEPT ![p] = NoRequest]
    /\ UNCHANGED <<list, intact>>

\* The process ends between writes: calls are forgotten, the list is kept.
Restart ==
    /\ phase' = [p \in Threads |-> "idle"]
    /\ request' = [p \in Threads |-> NoRequest]
    /\ UNCHANGED <<list, intact>>

Disturbed == ~intact'

AbsNext ==
    \/ \E p \in Threads : Call(p) \/ Apply(p) \/ Refuse(p) \/ Return(p)
    \/ Restart
    \/ Disturbed

AbsSpec == AbsInit /\ [][AbsNext]_absVars
=============================================================================
