----------------------------- MODULE FileRecord -----------------------------
(***************************************************************************)
(* The DHT record of ONE file ("/orcanet/" + hash) and the handlers of the *)
(* file server that read, change and rewrite it: upload / publish, voting, *)
(* the tail of a download, deletion and republishing at login.  A peer     *)
(* runs one goroutine per HTTP request or stream, and every update is an   *)
(* unlocked GetValue ... PutValue, so handlers of one peer and of several  *)
(* peers interleave between the two.  Handlers of other files touch other  *)
(* keys.  Fee and PeerAddr of a provider are written together with         *)
(* IsActive and are not kept.                                              *)
(*                                                                         *)
(* External: the Kademlia DHT keeps copies of the record at Replicas; the  *)
(* validator accepts everything and prefers nothing (dht/validator.go), so *)
(* GetValue may answer with any copy.                                      *)
(***************************************************************************)
EXTENDS Integers, FiniteSets

CONSTANTS Peers,       \* the nodes of the marketplace
          Uploaders,   \* the peers that hold the file in files.json; the
                       \* others hold it in downloadedFiles.json
          Handlers,    \* goroutines of the file servers
          Owner,       \* Owner[h]: the peer whose server runs handler h
          Replicas,    \* DHT nodes closest to the key
          MaxFaults,   \* bound: lost answers, expiries, restarts
          MaxRequests  \* bound: requests accepted in a behaviour

ASSUME ConstantsAssumption ==
    /\ IsFiniteSet(Peers) /\ Replicas # {}
    /\ Owner \in [Handlers -> Peers]
    /\ MaxFaults \in Nat /\ MaxRequests \in Nat

VoteTypes == {"upvote", "downvote"}
NoVote    == ""
Ratings   == VoteTypes \cup {NoVote}
Kinds     == {"uploaded", "downloaded"}
Kind(p)   == IF p \in Uploaders THEN "uploaded" ELSE "downloaded"

\* models.FileMetadata and models.DHTMetadata, reduced to what updates read.
FileMetadata == [IsPublished : BOOLEAN, VoteType : Ratings]
Provider     == [IsActive : BOOLEAN, Rating : Ratings]
DHTMetadata  == [Rating : Int, NumRaters : Int, Upvote : Int, Downvote : Int,
                 Providers : UNION {[S -> Provider] : S \in SUBSET Peers}]

NoFile == [IsPublished |-> FALSE, VoteType |-> NoVote]

VARIABLES
    store,          \* store[r]: the record held by replica r, if any
    cloud,          \* the last record sent to the cloud node
    local,          \* local[p]: p's entry of the file in its JSON file, if any
    FileHashToPath, \* the peers whose map has a path for the file
    republished,    \* republishedUploaded / republishedDownloaded of a peer
    pc, op,         \* what handler h does next, and for which request
    req, snap,      \* its request body, and the record it has computed
    faults, requests,
    asked,          \* history: the votes a peer's user has asked for
    clean, serial   \* history: no two windows overlapped; the record had
                    \* every update been atomic

vars == <<store, cloud, local, FileHashToPath, republished, pc, op, req, snap,
          faults, requests, asked, clean, serial>>

-----------------------------------------------------------------------------
(* Updates of a record, as functions of the copy that was read. *)

\* "If no existing metadata, initialize a new DHTMetadata".
NewRecord == [Rating |-> 0, NumRaters |-> 0, Upvote |-> 0, Downvote |-> 0,
              Providers |-> [p \in {} |-> [IsActive |-> FALSE, Rating |-> NoVote]]]

MapPut(f, k, v) == [x \in DOMAIN f \cup {k} |-> IF x = k THEN v ELSE f[x]]

Weight(v) == IF v = "upvote" THEN 1 ELSE -1

\* An existing provider gets a new IsActive, a new one has not voted.
SetProvider(m, p, file) ==
    LET rating == IF p \in DOMAIN m.Providers THEN m.Providers[p].Rating ELSE NoVote
    IN  [Rating |-> m.Rating, NumRaters |-> m.NumRaters,
         Upvote |-> m.Upvote, Downvote |-> m.Downvote,
         Providers |-> MapPut(m.Providers, p,
                              [IsActive |-> file.IsPublished, Rating |-> rating])]

\* Records p's vote and adds up and down to the counts of each kind.
CountVote(m, p, v, up, down) ==
    [Rating |-> m.Rating + Weight(v), NumRaters |-> m.NumRaters + 1,
     Upvote |-> m.Upvote + up, Downvote |-> m.Downvote + down,
     Providers |-> MapPut(m.Providers, p,
                          [IsActive |-> m.Providers[p].IsActive, Rating |-> v])]

\* Mutant: "user has already voted" not checked.
MayVoteAgain(m, p) == p \in DOMAIN m.Providers

MayVote(m, p) == p \in DOMAIN m.Providers /\ m.Providers[p].Rating = NoVote

\* Mutant: every vote that is not an upvote taken for a downvote.
UpdateUnvoted(m, p, file) ==
    LET listed == SetProvider(m, p, file)
    IN  IF MayVote(listed, p)
        THEN CountVote(listed, p, IF file.VoteType = "upvote" THEN "upvote" ELSE "downvote", 0, 0)
        ELSE listed

\* Counts the vote of the local entry, but neither in Upvote nor in Downvote.
UpdateFileInDHT(m, p, file) ==
    LET listed == SetProvider(m, p, file)
    IN  IF MayVote(listed, p) /\ file.VoteType \in VoteTypes
        THEN CountVote(listed, p, file.VoteType, 0, 0)
        ELSE listed

VotingHelper(m, p, v) ==
    CountVote(m, p, v, IF v = "upvote" THEN 1 ELSE 0, IF v = "downvote" THEN 1 ELSE 0)

-----------------------------------------------------------------------------
Init ==
    /\ store = [r \in {} |-> NewRecord]
    /\ cloud = NewRecord
    /\ local = [p \in {} |-> NoFile]
    /\ FileHashToPath = {}
    /\ republished = [p \in Peers |-> {}]
    /\ pc = [h \in Handlers |-> "idle"]
    /\ op = [h \in Handlers |-> "none"]
    /\ req = [h \in Handlers |-> NoFile]
    /\ snap = [h \in Handlers |-> NewRecord]
    /\ faults = 0 /\ requests = 0
    /\ asked = [p \in Peers |-> {}]
    /\ clean = TRUE /\ serial = NewRecord

Ready(h) == pc[h] \in {"idle", "ok", "error"}

Goto(h, l) == pc' = [pc EXCEPT ![h] = l]

\* A handler that answers forgets its request and its copy of the record.
Answer(h, reply) ==
    /\ Goto(h, reply)
    /\ req'  = [req  EXCEPT ![h] = NoFile]
    /\ snap' = [snap EXCEPT ![h] = NewRecord]

Accept(h, o, l) ==
    /\ Ready(h) /\ requests < MaxRequests
    /\ requests' = requests + 1
    /\ op' = [op EXCEPT ![h] = o]
    /\ Goto(h, l)

Fault == faults < MaxFaults /\ faults' = faults + 1

\* DHT.GetValue: some copy of the record ...
GetValue == {store[r] : r \in DOMAIN store}
\* ... or an error: there is none, or the query failed.
GetFails == \/ DOMAIN store = {} /\ UNCHANGED faults
            \/ DOMAIN store # {} /\ Fault

\* DHT.PutValue reaches the replicas in S.
StoreAt(S, m) == store' = [r \in DOMAIN store \cup S |-> IF r \in S THEN m ELSE store[r]]

\* nil after reaching all replicas or some, or an error that may come after
\* some were reached (a failed ProvideKey is an error that reached none).
PutValue(m, ok) ==
    \/ ok /\ StoreAt(Replicas, m) /\ UNCHANGED faults
    \/ \E S \in SUBSET Replicas :
          Fault /\ StoreAt(S, m) /\ (ok => S \notin {{}, Replicas})

Window(h) == pc[h] \in {"put", "vput"}
OpenWindow(h) == clean' = (clean /\ \A g \in Handlers \ {h} : ~Window(g))

-----------------------------------------------------------------------------
(* uploadFileHandler, PublishFile and the tail of receiveFile. *)

\* The UI uploads a new file (val=true), or sends its copy of an entry back
\* with IsPublished flipped; a copy fetched before a vote has no vote.
UploadFile(h, file) ==
    /\ Accept(h, "upload", "save")
    /\ \/ /\ Owner[h] \in Uploaders /\ file = [IsPublished |-> TRUE, VoteType |-> NoVote]
          /\ GetFails
       \/ /\ Owner[h] \in DOMAIN local
          /\ file.VoteType \in {NoVote, local[Owner[h]].VoteType}
          /\ UNCHANGED faults
    /\ req' = [req EXCEPT ![h] = file]
    /\ UNCHANGED <<store, cloud, local, FileHashToPath, republished, snap,
                   asked, clean, serial>>

\* The file arrives from a peer that has a path for it, with metadata the
\* sender read in the DHT.  It was asked for when the receiver had no path:
\* by now it may have one, from another request.
ReceiveFile(h) ==
    /\ Owner[h] \notin Uploaders
    /\ FileHashToPath \ {Owner[h]} # {} /\ GetValue # {}
    /\ Accept(h, "download", "save")
    /\ req' = [req EXCEPT ![h] = NoFile]
    /\ UNCHANGED <<store, cloud, local, FileHashToPath, republished, snap,
                   faults, asked, clean, serial>>

\* Mutant: the path set as if the file were published already.
SaveOrUpdateThenPath(h) ==
    /\ pc[h] = "save"
    /\ local' = MapPut(local, Owner[h], req[h])
    /\ Goto(h, "path")
    /\ UNCHANGED <<store, cloud, FileHashToPath, republished, op, req, snap, faults,
                   requests, asked, clean, serial>>

\* The upload handler answers 500 when the file cannot be saved; receiveFile
\* ignores the error.
SaveOrUpdateFile(h) ==
    /\ pc[h] = "save"
    /\ \/ /\ local' = MapPut(local, Owner[h], req[h])
          /\ Goto(h, IF op[h] = "download" THEN "path" ELSE "get")
          /\ UNCHANGED <<req, snap, faults>>
       \/ /\ Fault /\ UNCHANGED local
          /\ IF op[h] = "download" THEN Goto(h, "path") /\ UNCHANGED <<req, snap>>
                                  ELSE Answer(h, "error")
    /\ UNCHANGED <<store, cloud, FileHashToPath, republished, op, requests,
                   asked, clean, serial>>

\* receiveFile sets the path before UpdateFileInDHT, PublishFile after it.
SetPath(h) ==
    /\ pc[h] = "path"
    /\ FileHashToPath' = FileHashToPath \cup {Owner[h]}
    /\ Goto(h, IF op[h] = "download" THEN "get" ELSE "cloud")
    /\ UNCHANGED <<store, cloud, local, republished, op, req, snap,
                   faults, requests, asked, clean, serial>>

\* Mutant: the record read is not used.
GetForUpdateFresh(h) ==
    /\ pc[h] = "get"
    /\ snap' = [snap EXCEPT ![h] = UpdateFileInDHT(NewRecord, Owner[h], req[h])]
    /\ OpenWindow(h)
    /\ Goto(h, "put")
    /\ UNCHANGED <<store, cloud, local, FileHashToPath, republished, op, req, faults,
                   requests, asked, serial>>

\* Any GetValue error makes UpdateFileInDHT start from a new record.
GetForUpdate(h) ==
    /\ pc[h] = "get"
    /\ \E m \in GetValue \cup {NewRecord} :
          /\ \/ m \in GetValue /\ UNCHANGED faults
             \/ m = NewRecord /\ GetFails
          /\ snap' = [snap EXCEPT ![h] = UpdateFileInDHT(m, Owner[h], req[h])]
    /\ OpenWindow(h)
    /\ Goto(h, "put")
    /\ UNCHANGED <<store, cloud, local, FileHashToPath, republished, op, req,
                   requests, asked, serial>>

Republished(h) ==
    republished' = IF op[h] = "republish"
                   THEN [republished EXCEPT ![Owner[h]] = @ \cup {Kind(Owner[h])}]
                   ELSE republished

\* The upload handler answers 200 whatever PublishFile met.
PutUpdate(h) ==
    /\ pc[h] = "put"
    /\ \/ /\ PutValue(snap[h], TRUE)
          /\ Goto(h, IF op[h] = "download" THEN "cloud" ELSE "path")
          /\ serial' = UpdateFileInDHT(serial, Owner[h], req[h])
          /\ UNCHANGED <<req, snap, republished>>
       \/ /\ PutValue(snap[h], FALSE)
          /\ Answer(h, IF op[h] = "download" THEN "error" ELSE "ok")
          /\ Republished(h)
          /\ UNCHANGED serial
    /\ UNCHANGED <<cloud, local, FileHashToPath, op, requests, asked, clean>>

\* The copy sent to the cloud node may be lost; its error is only logged.
SendCloudNodeFiles(h) ==
    /\ pc[h] = "cloud"
    /\ \/ cloud' = snap[h] /\ UNCHANGED faults
       \/ Fault /\ UNCHANGED cloud
    /\ Answer(h, "ok")
    /\ Republished(h)
    /\ UNCHANGED <<store, local, FileHashToPath, op, requests, asked, clean, serial>>

-----------------------------------------------------------------------------
(* handleVote and votingHelper. *)

VotePasses(h, v) ==
    \E m \in GetValue :
        /\ MayVote(m, Owner[h])
        /\ snap' = [snap EXCEPT ![h] = VotingHelper(m, Owner[h], v)]

\* Mutant: the vote type not passed on.
HandleVoteUntyped(h, v) ==
    /\ Accept(h, "vote", "vput")
    /\ VotePasses(h, v)
    /\ asked' = [asked EXCEPT ![Owner[h]] = @ \cup {v}]
    /\ OpenWindow(h)
    /\ UNCHANGED <<store, cloud, local, FileHashToPath, republished, req, faults, serial>>

HandleVote(h, v) ==
    /\ Accept(h, "vote", "vput")
    /\ VotePasses(h, v)
    /\ req' = [req EXCEPT ![h].VoteType = v]
    /\ asked' = [asked EXCEPT ![Owner[h]] = @ \cup {v}]
    /\ OpenWindow(h)
    /\ UNCHANGED <<store, cloud, local, FileHashToPath, republished, faults, serial>>

\* A PutValue error is printed and the vote goes on.
PutVote(h) ==
    /\ pc[h] = "vput"
    /\ \/ /\ PutValue(snap[h], TRUE)
          /\ serial' = IF MayVote(serial, Owner[h])
                       THEN VotingHelper(serial, Owner[h], req[h].VoteType) ELSE serial
       \/ PutValue(snap[h], FALSE) /\ UNCHANGED serial
    /\ Goto(h, "vlocal")
    /\ UNCHANGED <<cloud, local, FileHashToPath, republished, op, req, snap,
                   requests, asked, clean>>

\* Only downloadedFiles.json is searched for the file; an error is ignored.
UpdateRatingLocally(h) ==
    /\ pc[h] = "vlocal"
    /\ \/ /\ local' = IF Owner[h] \in DOMAIN local \ Uploaders
                      THEN [local EXCEPT ![Owner[h]].VoteType = req[h].VoteType]
                      ELSE local
          /\ UNCHANGED faults
       \/ Fault /\ UNCHANGED local
    /\ Goto(h, "cloud")
    /\ UNCHANGED <<store, cloud, FileHashToPath, republished, op, req, snap,
                   requests, asked, clean, serial>>

-----------------------------------------------------------------------------
(* deleteFile: content and path, the JSON entry, then removeProvider. *)

\* Content that cannot be deleted ends the request before any change (no step).
DeleteFile(h) ==
    /\ Accept(h, "delete", "deljson")
    /\ FileHashToPath' = FileHashToPath \ {Owner[h]}
    /\ UNCHANGED <<store, cloud, local, republished, req, snap, faults,
                   asked, clean, serial>>

DeleteFileFromJSON(h) ==
    /\ pc[h] = "deljson"
    /\ \/ /\ Goto(h, IF Owner[h] \in DOMAIN local THEN "remove" ELSE "error")
          /\ local' = [p \in DOMAIN local \ {Owner[h]} |-> local[p]]
          /\ UNCHANGED faults
       \/ Fault /\ Goto(h, "error") /\ UNCHANGED local
    /\ UNCHANGED <<store, cloud, FileHashToPath, republished, op, req, snap,
                   requests, asked, clean, serial>>

\* removeProvider deletes the provider from its own copy, which it drops.
RemoveProvider(h) ==
    /\ pc[h] = "remove"
    /\ \/ GetValue # {} /\ Goto(h, "ok") /\ UNCHANGED faults
       \/ GetFails /\ Goto(h, "error")
    /\ UNCHANGED <<store, cloud, local, FileHashToPath, republished, op, req,
                   snap, requests, asked, clean, serial>>

-----------------------------------------------------------------------------
(* getFiles, and what happens to a peer and to the DHT. *)

\* Until both kinds were republished, each fetch republishes its own kind;
\* republishMutex is held all along.  A kind whose JSON file does not exist is
\* answered before its flag is set (no step); it exists if the peer ever had a
\* file of that kind, this one or another.
GetFiles(h, kind) ==
    LET p == Owner[h] IN
    /\ republished[p] # Kinds
    /\ \A g \in Handlers : Owner[g] = p /\ op[g] = "republish" => Ready(g)
    /\ IF kind = Kind(p) /\ p \in DOMAIN local
       THEN /\ Accept(h, "republish", "get")
            /\ req' = [req EXCEPT ![h] = local[p]]
            /\ UNCHANGED republished
       ELSE /\ Accept(h, "fetch", "ok")
            /\ republished' = [republished EXCEPT ![p] = @ \cup {kind}]
            /\ UNCHANGED req
    /\ UNCHANGED <<store, cloud, local, FileHashToPath, snap, faults,
                   asked, clean, serial>>

\* The server dies and starts again: the JSON files are what it keeps.
Restart(p) ==
    /\ Fault
    /\ FileHashToPath' = FileHashToPath \ {p}
    /\ republished' = [republished EXCEPT ![p] = {}]
    /\ pc'   = [h \in Handlers |-> IF Owner[h] = p THEN "idle" ELSE pc[h]]
    /\ op'   = [h \in Handlers |-> IF Owner[h] = p THEN "none" ELSE op[h]]
    /\ req'  = [h \in Handlers |-> IF Owner[h] = p THEN NoFile ELSE req[h]]
    /\ snap' = [h \in Handlers |-> IF Owner[h] = p THEN NewRecord ELSE snap[h]]
    /\ UNCHANGED <<store, cloud, local, requests, asked, clean, serial>>

\* A replica's copy passes its TTL.
Expire(r) ==
    /\ r \in DOMAIN store
    /\ Fault
    /\ store' = [s \in DOMAIN store \ {r} |-> store[s]]
    /\ UNCHANGED <<cloud, local, FileHashToPath, republished, pc, op, req, snap,
                   requests, asked, clean, serial>>

\* GetValue rewrites the copy it chose at replicas that answered another.
Correct(r, s) ==
    /\ r \in DOMAIN store /\ StoreAt({s}, store[r])
    /\ UNCHANGED <<cloud, local, FileHashToPath, republished, pc, op, req, snap,
                   faults, requests, asked, clean, serial>>

HandlerStep(h) ==
    \/ SaveOrUpdateFile(h) \/ SetPath(h) \/ GetForUpdate(h) \/ PutUpdate(h)
    \/ SendCloudNodeFiles(h) \/ PutVote(h) \/ UpdateRatingLocally(h)
    \/ DeleteFileFromJSON(h) \/ RemoveProvider(h)

Request(h) ==
    \/ \E file \in FileMetadata : UploadFile(h, file)
    \/ ReceiveFile(h)
    \/ \E v \in VoteTypes : HandleVote(h, v)
    \/ DeleteFile(h)
    \/ \E kind \in Kinds : GetFiles(h, kind)

Next ==
    \/ \E h \in Handlers : HandlerStep(h) \/ Request(h)
    \/ \E p \in Peers : Restart(p)
    \/ \E r, s \in Replicas : Correct(r, s)
    \/ \E r \in Replicas : Expire(r)

Spec == Init /\ [][Next]_vars

-----------------------------------------------------------------------------
(* Properties. *)

TypeOK ==
    /\ DOMAIN store \subseteq Replicas /\ store \in [DOMAIN store -> DHTMetadata]
    /\ cloud \in DHTMetadata /\ serial \in DHTMetadata
    /\ DOMAIN local \subseteq Peers /\ local \in [DOMAIN local -> FileMetadata]
    /\ FileHashToPath \subseteq Peers
    /\ republished \in [Peers -> SUBSET Kinds]
    /\ pc \in [Handlers -> {"idle", "ok", "error", "save", "path", "get", "put",
                            "cloud", "vput", "vlocal", "deljson", "remove"}]
    /\ op \in [Handlers -> {"none", "upload", "download", "republish", "fetch",
                            "vote", "delete"}]
    /\ req \in [Handlers -> FileMetadata]
    /\ \A h \in Handlers : pc[h] = "vput" => req[h].VoteType \in VoteTypes
    /\ snap \in [Handlers -> DHTMetadata]
    /\ faults \in Nat /\ requests \in Nat
    /\ asked \in [Peers -> SUBSET VoteTypes]
    /\ clean \in BOOLEAN

\* Every copy of the record, in the DHT, at the cloud node or in a handler.
Copies == GetValue \cup {cloud} \cup {snap[h] : h \in Handlers}

Voters(m, v) == {p \in DOMAIN m.Providers : m.Providers[p].Rating = v}

Consistent(m) ==
    LET up   == Cardinality(Voters(m, "upvote"))
        down == Cardinality(Voters(m, "downvote"))
    IN  /\ m.NumRaters = up + down
        /\ m.Rating = up - down
        /\ m.Upvote \in 0..up /\ m.Downvote \in 0..down

\* Whatever handlers interleave, expire or fail, every copy of the record has
\* the rating and the number of raters that its providers' votes add up to:
\* an update may be lost (UpdateFileInDHT and votingHelper write what they
\* computed from an old copy), but never half of one.
RatingsConsistent == \A m \in Copies : Consistent(m)

\* A vote shown for a provider is one that provider's own user asked for, also
\* after a record expired and its providers rebuilt it from their JSON files;
\* the same holds of the vote kept in a JSON file or sent in a request.
VotesAuthentic ==
    /\ \A m \in Copies : \A p \in DOMAIN m.Providers :
          m.Providers[p].Rating \in asked[p] \cup {NoVote}
    /\ \A p \in DOMAIN local : local[p].VoteType \in asked[p] \cup {NoVote}
    /\ \A h \in Handlers : req[h].VoteType \in asked[Owner[h]] \cup {NoVote}

\* Updates are lost only to overlap and to faults: as long as no handler read
\* the record between another's GetValue and PutValue and nothing failed,
\* every copy in the DHT is the result of all updates, one after another.
SerialWithoutOverlap ==
    clean /\ faults = 0 => \A r \in DOMAIN store : store[r] = serial

\* A node that would serve the file (FileHashToPath) is listed among its
\* providers, or about to be: receiveFile sets the path first.
ServersAreListed ==
    clean /\ faults = 0 => \A p \in FileHashToPath :
        \/ \E r \in DOMAIN store : p \in DOMAIN store[r].Providers
        \/ \E h \in Handlers : Owner[h] = p /\ op[h] = "download" /\ pc[h] \in {"get", "put"}

-----------------------------------------------------------------------------
(* What a comment of the code says, and the code does not do. *)

\* files/files.go:199 "deleting a file requires removing it from the json and
\* removing the node as a provider of the file".
DeleteRemovesProvider ==
    [][\A h \in Handlers : pc[h] = "remove" /\ pc'[h] = "ok" =>
          \A r \in DOMAIN store' : Owner[h] \notin DOMAIN store'[r].Providers]_vars
=============================================================================
