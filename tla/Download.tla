------------------------------ MODULE Download ------------------------------
(***************************************************************************)
(* The download of a file by one node from another: the HTTP handler that  *)
(* sends the request, the stream handler that declines it or sends the     *)
(* file, the one that receives the file, and the confirmation that goes    *)
(* back.  The three run as goroutines of two nodes, next to those of other *)
(* transactions, to the deletion and republishing of files, and to         *)
(* crashes: log.Fatalf in one goroutine ends the whole node.               *)
(*                                                                         *)
(* Content is kept per inode: os.Create truncates the inode a name already *)
(* has, an open file survives os.Remove, and a file of Chunks chunks holds *)
(* one chunk of itself at each position.  An update of a ledger            *)
(* (transactionFiles.json) is one step here.                               *)
(***************************************************************************)
EXTENDS Integers, Sequences

CONSTANTS Nodes,
          Files,      \* file hashes
          Name,       \* Name[f]: NameWithExtension of f
          Uploader,   \* Uploader[f]: the node that has f at first
          Txs,        \* transaction ids, one per request
          Chunks,     \* chunks in a file
          Deleters,   \* bound: nodes whose users delete files
          MaxFaults,  \* bound: failed calls, lost streams, crashes
          None        \* no node, file or inode

ASSUME ConstantsAssumption ==
    /\ Uploader \in [Files -> Nodes] /\ DOMAIN Name = Files
    /\ \A f, g \in Files : Uploader[f] = Uploader[g] /\ Name[f] = Name[g] => f = g
    /\ Chunks \in Nat /\ MaxFaults \in Nat
    /\ None \notin Nodes \cup Files \cup Txs

\* Inodes are named after what creates them.
ASSUME InodesDiffer == Files \cap Txs = {}

Hole     == "hole"                 \* what a write past the end leaves behind
Statuses == {"pending", "declined", "complete"}
Inodes   == Files \cup Txs         \* of the uploads and of the downloads
Pipe     == [lines : 0..2, data : Seq(Files \cup {Hole}),
             end : {"none", "open", "eof", "reset"}]

VARIABLES
    tx,               \* the Transaction as the request handler filled it in
    client, server, recv,  \* the three goroutines of a transaction
    pipe,             \* the /sendFile/p2p stream: header lines, chunks, end
    src, dst,         \* inodes that sendFile reads and receiveFile writes
    off,              \* chunks receiveFile has taken from the stream
    mail,             \* messages under way on /requestResponse/p2p
    dir, data,        \* squidcoinFiles: name -> inode, and their content
    entries,          \* files in a node's files.json and downloadedFiles.json
    FileHashToPath, PendingRequests, ledger,
    deleting,         \* where deleteFile stands
    faults,
    sound             \* history: no fault, no deletion, no truncation so far

netVars  == <<pipe, off, mail>>
diskVars == <<dir, data, entries, ledger>>
memVars  == <<FileHashToPath, PendingRequests, deleting>>
vars == <<tx, client, server, recv, netVars, src, dst, diskVars, memVars,
          faults, sound>>

R(t) == tx[t].RequesterID
T(t) == tx[t].TargetID
F(t) == tx[t].FileHash

MapPut(f, k, v) == [x \in DOMAIN f \cup {k} |-> IF x = k THEN v ELSE f[x]]
MapDel(f, k)    == [x \in DOMAIN f \ {k} |-> f[x]]

NoPipe == [lines |-> 0, data |-> <<>>, end |-> "none"]
WholeFile(f) == [i \in 1..Chunks |-> f]

Init ==
    /\ tx = [t \in Txs |-> [RequesterID |-> None, TargetID |-> None, FileHash |-> None]]
    /\ client = [t \in Txs |-> "none"]
    /\ server = [t \in Txs |-> "none"]
    /\ recv   = [t \in Txs |-> "none"]
    /\ pipe = [t \in Txs |-> NoPipe]
    /\ src = [t \in Txs |-> None] /\ dst = [t \in Txs |-> None]
    /\ off = [t \in Txs |-> 0]
    /\ mail = {}
    /\ dir = [n \in Nodes |->
                [m \in {Name[f] : f \in {g \in Files : Uploader[g] = n}} |->
                   CHOOSE f \in Files : Name[f] = m /\ Uploader[f] = n]]
    /\ data = [i \in Inodes |-> IF i \in Files THEN WholeFile(i) ELSE <<>>]
    /\ entries = [n \in Nodes |-> {f \in Files : Uploader[f] = n}]
    /\ FileHashToPath = entries
    /\ PendingRequests = [n \in Nodes |-> [f \in {} |-> None]]
    /\ ledger = [n \in Nodes |-> [t \in {} |-> "pending"]]
    /\ deleting = [n \in Nodes |-> <<"no", None>>]
    /\ faults = 0
    /\ sound = TRUE

Fault == faults < MaxFaults /\ faults' = faults + 1 /\ sound' = FALSE
NoFault == UNCHANGED <<faults, sound>>

\* Goroutine g of transaction t goes on to l.
Goto(g, t, l) == [g EXCEPT ![t] = l]

\* utils.AddOrUpdateTransaction.
AddOrUpdateTransaction(n, t, status) ==
    ledger' = [ledger EXCEPT ![n] = MapPut(@, t, status)]

-----------------------------------------------------------------------------
(* handleDownloadRequest, at the requester. *)

\* Own files and files it has a path for are refused (no step).
HandleDownloadRequest(t, r, g, f) ==
    /\ client[t] = "none"
    /\ r # g /\ f \notin FileHashToPath[r]
    /\ tx' = [tx EXCEPT ![t] = [RequesterID |-> r, TargetID |-> g, FileHash |-> f]]
    /\ client' = Goto(client, t, "send")
    /\ UNCHANGED <<server, recv, netVars, src, dst, diskVars, memVars, faults, sound>>

\* Connecting may fail (500), and what was written may still be lost.
SendDownloadRequest(t) ==
    /\ client[t] = "send"
    /\ \/ client' = Goto(client, t, "store") /\ server' = Goto(server, t, "incoming") /\ NoFault
       \/ client' = Goto(client, t, "store") /\ UNCHANGED server /\ Fault
       \/ client' = Goto(client, t, "error") /\ UNCHANGED server /\ NoFault
    /\ UNCHANGED <<tx, recv, netVars, src, dst, diskVars, memVars>>

\* The request is stored only after it was sent, under its file.
StorePending(t) ==
    /\ client[t] = "store"
    /\ PendingRequests' = [PendingRequests EXCEPT ![R(t)] = MapPut(@, F(t), t)]
    /\ client' = Goto(client, t, "ledger")
    /\ UNCHANGED <<tx, server, recv, netVars, src, dst, diskVars, FileHashToPath,
                   deleting, faults, sound>>

\* "request sent".
RecordRequest(t) ==
    /\ client[t] = "ledger"
    /\ AddOrUpdateTransaction(R(t), t, "pending")
    /\ client' = Goto(client, t, "ok")
    /\ UNCHANGED <<tx, server, recv, netVars, src, dst, dir, data, entries, memVars,
                   faults, sound>>

-----------------------------------------------------------------------------
(* receiveDownloadRequest, sendDecline and sendFile, at the target. *)

\* Without a wallet address the request is dropped.
ReceiveDownloadRequest(t) ==
    /\ server[t] = "incoming"
    /\ \/ /\ AddOrUpdateTransaction(T(t), t, "pending")
          /\ server' = Goto(server, t, "check") /\ NoFault
       \/ server' = Goto(server, t, "done") /\ UNCHANGED ledger /\ Fault
    /\ UNCHANGED <<tx, client, recv, netVars, src, dst, dir, data, entries, memVars>>

\* Mutant: nothing sent when there is no path.
CheckPathSilent(t) ==
    /\ server[t] = "check"
    /\ server' = Goto(server, t, IF F(t) \in FileHashToPath[T(t)] THEN "stat" ELSE "done")
    /\ UNCHANGED <<tx, client, recv, netVars, src, dst, diskVars, memVars, faults, sound>>

\* "send file to requester if it exists".
CheckPath(t) ==
    /\ server[t] = "check"
    /\ server' = Goto(server, t, IF F(t) \in FileHashToPath[T(t)] THEN "stat" ELSE "decline")
    /\ UNCHANGED <<tx, client, recv, netVars, src, dst, diskVars, memVars, faults, sound>>

\* Mutant: a status nobody knows.
SendDeclineMisnamed(t) ==
    /\ server[t] = "decline"
    /\ server' = Goto(server, t, "done")
    /\ mail' = mail \cup {[to |-> R(t), tx |-> t, Status |-> "rejected"]}
    /\ UNCHANGED <<tx, client, recv, pipe, off, src, dst, diskVars, memVars, faults, sound>>

SendDecline(t) ==
    /\ server[t] = "decline"
    /\ server' = Goto(server, t, "done")
    /\ \/ mail' = mail \cup {[to |-> R(t), tx |-> t, Status |-> "declined"]} /\ NoFault
       \/ UNCHANGED mail /\ Fault
    /\ UNCHANGED <<tx, client, recv, pipe, off, src, dst, diskVars, memVars>>

\* A file that is gone is reported to nobody; else the stream is opened and
\* gets the transaction as its first line.
OpenFileStream(t) ==
    /\ server[t] = "stat"
    /\ LET there == F(t) \in FileHashToPath[T(t)] /\ Name[F(t)] \in DOMAIN dir[T(t)]
       IN  \/ /\ there /\ NoFault
              /\ server' = Goto(server, t, "metadata")
              /\ pipe' = [pipe EXCEPT ![t] = [lines |-> 1, data |-> <<>>, end |-> "open"]]
           \/ ~there /\ server' = Goto(server, t, "done") /\ UNCHANGED pipe /\ NoFault
           \/ there /\ server' = Goto(server, t, "done") /\ UNCHANGED pipe /\ Fault
    /\ UNCHANGED <<tx, client, recv, off, mail, src, dst, diskVars, memVars>>

\* Whatever ends sendFile early closes the stream as its normal end does.
Close(t) ==
    /\ server' = Goto(server, t, "done")
    /\ pipe' = [pipe EXCEPT ![t] = [@ EXCEPT !.end = "eof"]]

\* The second line needs the file's record, from the DHT.
SendMetadata(t) ==
    /\ server[t] = "metadata"
    /\ \/ /\ server' = Goto(server, t, "open")
          /\ pipe' = [pipe EXCEPT ![t] = [@ EXCEPT !.lines = 2]] /\ NoFault
       \/ Close(t) /\ Fault
    /\ UNCHANGED <<tx, client, recv, off, mail, src, dst, diskVars, memVars>>

\* The path was looked up, and the file seen, before.
OpenFile(t) ==
    /\ server[t] = "open"
    /\ LET files == dir[T(t)] IN
       \/ /\ Name[F(t)] \in DOMAIN files
          /\ src' = [src EXCEPT ![t] = files[Name[F(t)]]]
          /\ server' = Goto(server, t, "copy")
          /\ UNCHANGED pipe
       \/ Name[F(t)] \notin DOMAIN files /\ Close(t) /\ UNCHANGED src
    /\ UNCHANGED <<tx, client, recv, off, mail, dst, diskVars, memVars, faults, sound>>

\* Next chunk, end of the file as it is now, or an error in the middle.
SendChunk(t) ==
    /\ server[t] = "copy"
    /\ LET content == data[src[t]]
           sent    == Len(pipe[t].data)
       IN  \/ /\ sent < Len(content) /\ NoFault
              /\ pipe' = [pipe EXCEPT ![t] = [@ EXCEPT !.data = Append(pipe[t].data, content[sent + 1])]]
              /\ UNCHANGED server
           \/ sent >= Len(content) /\ Close(t) /\ NoFault
           \/ sent < Len(content) /\ Close(t) /\ Fault
    /\ UNCHANGED <<tx, client, recv, off, mail, src, dst, diskVars, memVars>>

-----------------------------------------------------------------------------
(* receiveFile, at the requester. *)

\* What the end of node n's process takes with it.
Down(n) ==
    /\ client' = [t \in Txs |-> IF R(t) = n /\ client[t] \in {"send", "store", "ledger"}
                                THEN "error" ELSE client[t]]
    /\ server' = [t \in Txs |-> IF T(t) = n /\ server[t] # "none" THEN "done" ELSE server[t]]
    /\ recv'   = [t \in Txs |-> IF R(t) = n /\ pipe[t].end # "none" /\ recv[t] # "done"
                                THEN "failed" ELSE recv[t]]
    /\ pipe'   = [t \in Txs |-> IF T(t) = n /\ pipe[t].end = "open"
                                THEN [pipe[t] EXCEPT !.end = "reset"] ELSE pipe[t]]
    /\ mail' = {m \in mail : m.to # n}
    /\ FileHashToPath' = [FileHashToPath EXCEPT ![n] = {}]
    /\ PendingRequests' = [PendingRequests EXCEPT ![n] = [f \in {} |-> None]]
    /\ deleting' = [deleting EXCEPT ![n] = <<"no", None>>]
    /\ UNCHANGED <<tx, off, src, dst, diskVars>>

\* The header is two lines; a stream that ends earlier is fatal.
ReadMetadata(t) ==
    /\ recv[t] = "none" /\ pipe[t].end # "none"
    /\ \/ /\ pipe[t].lines = 2
          /\ recv' = Goto(recv, t, "create")
          /\ UNCHANGED <<tx, client, server, netVars, src, dst, diskVars, memVars, faults, sound>>
       \/ /\ pipe[t].lines < 2 /\ pipe[t].end \in {"eof", "reset"}
          /\ Down(R(t))
          /\ UNCHANGED <<faults, sound>>

\* Mutant: the path set when the file is created.
CreateFileSetsPath(t) ==
    /\ recv[t] = "create" /\ Name[F(t)] \notin DOMAIN dir[R(t)]
    /\ dst'  = [dst EXCEPT ![t] = t]
    /\ dir'  = [dir EXCEPT ![R(t)] = MapPut(@, Name[F(t)], t)]
    /\ FileHashToPath' = [FileHashToPath EXCEPT ![R(t)] = @ \cup {F(t)}]
    /\ recv' = Goto(recv, t, "copy")
    /\ UNCHANGED <<tx, client, server, netVars, src, data, entries, ledger,
                   PendingRequests, deleting, faults, sound>>

\* os.Create by name.
CreateFile(t) ==
    /\ recv[t] = "create"
    /\ LET files == dir[R(t)]
           old   == Name[F(t)] \in DOMAIN files
           inode == IF old THEN files[Name[F(t)]] ELSE t
       IN  /\ dst'  = [dst EXCEPT ![t] = inode]
           /\ data' = [data EXCEPT ![inode] = <<>>]
           /\ dir'  = [dir EXCEPT ![R(t)] = MapPut(@, Name[F(t)], inode)]
           /\ sound' = (sound /\ ~old)
    /\ recv' = Goto(recv, t, "copy")
    /\ UNCHANGED <<tx, client, server, netVars, src, entries, ledger, memVars, faults>>

\* file.Write at the receiver's own offset.
WriteAt(content, i, chunk) ==
    [j \in 1..(IF i > Len(content) THEN i ELSE Len(content)) |->
        IF j = i THEN chunk ELSE IF j <= Len(content) THEN content[j] ELSE Hole]

ReceiveChunk(t) ==
    /\ recv[t] = "copy"
    /\ \/ /\ off[t] < Len(pipe[t].data) /\ NoFault
          /\ data' = [data EXCEPT ![dst[t]] = WriteAt(@, off[t] + 1, pipe[t].data[off[t] + 1])]
          /\ off' = [off EXCEPT ![t] = @ + 1]
          /\ UNCHANGED recv
       \/ /\ pipe[t].end = "reset" /\ NoFault
          /\ recv' = Goto(recv, t, "failed")
          /\ UNCHANGED <<data, off>>
       \/ /\ off[t] < Len(pipe[t].data) /\ Fault
          /\ recv' = Goto(recv, t, "failed")
          /\ UNCHANGED <<data, off>>
    /\ UNCHANGED <<tx, client, server, pipe, mail, src, dst, dir, entries, ledger, memVars>>

\* Mutant: published and confirmed before the path is set.
SaveThenPublish(t) ==
    /\ recv[t] = "copy" /\ off[t] = Len(pipe[t].data) /\ pipe[t].end = "eof"
    /\ entries' = [entries EXCEPT ![R(t)] = @ \cup {F(t)}]
    /\ recv' = Goto(recv, t, "publish")
    /\ UNCHANGED <<tx, client, server, netVars, src, dst, dir, data, ledger, memVars,
                   faults, sound>>

\* io.EOF, and the entry in downloadedFiles.json (an error there is ignored).
SaveOrUpdateFile(t) ==
    /\ recv[t] = "copy" /\ off[t] = Len(pipe[t].data) /\ pipe[t].end = "eof"
    /\ \/ entries' = [entries EXCEPT ![R(t)] = @ \cup {F(t)}] /\ NoFault
       \/ UNCHANGED entries /\ Fault
    /\ recv' = Goto(recv, t, "path")
    /\ UNCHANGED <<tx, client, server, netVars, src, dst, dir, data, ledger, memVars>>

SetPath(t) ==
    /\ recv[t] = "path"
    /\ FileHashToPath' = [FileHashToPath EXCEPT ![R(t)] = @ \cup {F(t)}]
    /\ recv' = Goto(recv, t, "ledger")
    /\ UNCHANGED <<tx, client, server, netVars, src, dst, diskVars, PendingRequests,
                   deleting, faults, sound>>

RecordComplete(t) ==
    /\ recv[t] = "ledger"
    /\ AddOrUpdateTransaction(R(t), t, "complete")
    /\ recv' = Goto(recv, t, "publish")
    /\ UNCHANGED <<tx, client, server, netVars, src, dst, dir, data, entries, memVars,
                   faults, sound>>

\* Mutant: a transfer that could not be published counts as pending again.
UpdateFileInDHTReverts(t) ==
    /\ recv[t] = "publish"
    /\ \/ recv' = Goto(recv, t, "confirm") /\ NoFault /\ UNCHANGED ledger
       \/ /\ recv' = Goto(recv, t, "done") /\ Fault
          /\ AddOrUpdateTransaction(R(t), t, "pending")
    /\ UNCHANGED <<tx, client, server, netVars, src, dst, dir, data, entries, memVars>>

\* UpdateFileInDHT; if it fails the target is not told.
UpdateFileInDHT(t) ==
    /\ recv[t] = "publish"
    /\ \/ recv' = Goto(recv, t, "confirm") /\ NoFault
       \/ recv' = Goto(recv, t, "done") /\ Fault
    /\ UNCHANGED <<tx, client, server, netVars, src, dst, diskVars, memVars>>

SendMessageConfirmation(t) ==
    /\ recv[t] = "confirm"
    /\ recv' = Goto(recv, t, "done")
    /\ \/ mail' = mail \cup {[to |-> T(t), tx |-> t, Status |-> "complete"]} /\ NoFault
       \/ UNCHANGED mail /\ Fault
    /\ UNCHANGED <<tx, client, server, pipe, off, src, dst, diskVars, memVars>>

-----------------------------------------------------------------------------
(* Both nodes. *)

\* receiveMessageConfirmation is registered after receiveDecline for the same
\* protocol and replaces it: declines arrive here as well.
ReceiveMessageConfirmation(m) ==
    /\ m \in mail
    /\ mail' = mail \ {m}
    /\ AddOrUpdateTransaction(m.to, m.tx, m.Status)
    /\ UNCHANGED <<tx, client, server, recv, pipe, off, src, dst, dir, data, entries,
                   memVars, faults, sound>>

\* deleteFile: the content, then the path, then the entry.
DeleteContent(n, f) ==
    /\ n \in Deleters /\ deleting[n][1] = "no" /\ f \in entries[n] /\ Name[f] \in DOMAIN dir[n]
    /\ dir' = [dir EXCEPT ![n] = MapDel(@, Name[f])]
    /\ deleting' = [deleting EXCEPT ![n] = <<"path", f>>]
    /\ sound' = FALSE
    /\ UNCHANGED <<tx, client, server, recv, netVars, src, dst, data, entries, ledger,
                   FileHashToPath, PendingRequests, faults>>

DeletePath(n) ==
    /\ deleting[n][1] = "path"
    /\ FileHashToPath' = [FileHashToPath EXCEPT ![n] = @ \ {deleting[n][2]}]
    /\ deleting' = [deleting EXCEPT ![n] = <<"json", @[2]>>]
    /\ UNCHANGED <<tx, client, server, recv, netVars, src, dst, diskVars, PendingRequests,
                   faults, sound>>

DeleteEntry(n) ==
    /\ deleting[n][1] = "json"
    /\ entries' = [entries EXCEPT ![n] = @ \ {deleting[n][2]}]
    /\ deleting' = [deleting EXCEPT ![n] = <<"no", None>>]
    /\ UNCHANGED <<tx, client, server, recv, netVars, src, dst, dir, data, ledger,
                   FileHashToPath, PendingRequests, faults, sound>>

\* PublishFile, from the UI or for every entry at login, sets the path.
PublishFile(n, f) ==
    /\ f \in entries[n] \ FileHashToPath[n]
    /\ FileHashToPath' = [FileHashToPath EXCEPT ![n] = @ \cup {f}]
    /\ UNCHANGED <<tx, client, server, recv, netVars, src, dst, diskVars, PendingRequests,
                   deleting, faults, sound>>

\* A node's process dies and is started again.
Crash(n) == Down(n) /\ Fault

\* A connection breaks under an open stream.
ResetStream(t) ==
    /\ pipe[t].end = "open"
    /\ pipe' = [pipe EXCEPT ![t] = [@ EXCEPT !.end = "reset"]]
    /\ server' = Goto(server, t, "done")
    /\ Fault
    /\ UNCHANGED <<tx, client, recv, off, mail, src, dst, diskVars, memVars>>

ClientStep(t) == SendDownloadRequest(t) \/ StorePending(t) \/ RecordRequest(t)

ServerStep(t) ==
    \/ ReceiveDownloadRequest(t) \/ CheckPath(t) \/ SendDecline(t) \/ OpenFileStream(t)
    \/ SendMetadata(t) \/ OpenFile(t) \/ SendChunk(t)

ReceiverStep(t) ==
    \/ ReadMetadata(t) \/ CreateFile(t) \/ ReceiveChunk(t) \/ SaveOrUpdateFile(t)
    \/ SetPath(t) \/ RecordComplete(t) \/ UpdateFileInDHT(t) \/ SendMessageConfirmation(t)

Next ==
    \/ \E t \in Txs : ClientStep(t) \/ ServerStep(t) \/ ReceiverStep(t) \/ ResetStream(t)
    \/ \E t \in Txs, r, g \in Nodes, f \in Files : HandleDownloadRequest(t, r, g, f)
    \/ \E m \in mail : ReceiveMessageConfirmation(m)
    \/ \E n \in Nodes, f \in Files : DeleteContent(n, f) \/ PublishFile(n, f)
    \/ \E n \in Nodes : DeletePath(n) \/ DeleteEntry(n) \/ Crash(n)

Spec == Init /\ [][Next]_vars

\* Goroutines that can go on do; messages sent are handled.
Fairness ==
    /\ \A t \in Txs : WF_vars(ClientStep(t)) /\ WF_vars(ServerStep(t)) /\ WF_vars(ReceiverStep(t))
    /\ \A n \in Nodes, t \in Txs, s \in Statuses :
          WF_vars(ReceiveMessageConfirmation([to |-> n, tx |-> t, Status |-> s]))

FairSpec == Spec /\ Fairness

-----------------------------------------------------------------------------
(* Properties. *)

TypeOK ==
    /\ tx \in [Txs -> [RequesterID : Nodes \cup {None}, TargetID : Nodes \cup {None},
                       FileHash : Files \cup {None}]]
    /\ client \in [Txs -> {"none", "send", "store", "ledger", "ok", "error"}]
    /\ server \in [Txs -> {"none", "incoming", "check", "decline", "stat", "metadata",
                           "open", "copy", "done"}]
    /\ recv \in [Txs -> {"none", "create", "copy", "path", "ledger", "publish", "confirm",
                         "done", "failed"}]
    /\ pipe \in [Txs -> Pipe]
    /\ src \in [Txs -> Inodes \cup {None}] /\ dst \in [Txs -> Inodes \cup {None}]
    /\ off \in [Txs -> Nat]
    /\ mail \subseteq [to : Nodes, tx : Txs, Status : Statuses]
    /\ data \in [Inodes -> Seq(Files \cup {Hole})]
    /\ \A n \in Nodes :
          /\ \A m \in DOMAIN dir[n] : dir[n][m] \in Inodes
          /\ \A f \in DOMAIN PendingRequests[n] : f \in Files /\ PendingRequests[n][f] \in Txs
          /\ \A t \in DOMAIN ledger[n] : t \in Txs /\ ledger[n][t] \in Statuses
    /\ entries \in [Nodes -> SUBSET Files] /\ FileHashToPath \in [Nodes -> SUBSET Files]
    /\ deleting \in [Nodes -> {"no", "path", "json"} \X (Files \cup {None})]
    /\ faults \in 0..MaxFaults /\ sound \in BOOLEAN

Status(n, t) == IF t \in DOMAIN ledger[n] THEN ledger[n][t] ELSE "none"

Whole(n, f) == /\ Name[f] \in DOMAIN dir[n]
               /\ data[dir[n][Name[f]]] = WholeFile(f)

\* What a node would serve under a hash (FileHashToPath) is that whole file,
\* however transfers interleave, as long as nothing failed, nothing was
\* deleted and no download truncated a file of the same name.
WholeIfSound == sound => \A n \in Nodes : \A f \in FileHashToPath[n] : Whole(n, f)

\* A target that has the transaction as complete was told so by a requester
\* that has the file, its entry and its path (receiveFile confirms last).
CompleteIsStored ==
    \A t \in Txs : sound /\ client[t] # "none" /\ Status(T(t), t) = "complete" =>
        F(t) \in entries[R(t)] \cap FileHashToPath[R(t)]

\* Once complete or declined, a transaction keeps that status in both ledgers,
\* but for the one write that handleDownloadRequest makes after the send.
FinalStatus ==
    [][\A n \in Nodes, t \in Txs :
          Status(n, t) \in {"complete", "declined"} /\ Status(n, t)' # Status(n, t) =>
              n = R(t) /\ client[t] = "ledger" /\ client'[t] = "ok"]_vars

\* Every request that reaches its target is answered: the requester's ledger
\* shows complete or declined at some point, unless something failed.
RequestsAnswered ==
    \A t \in Txs : server[t] = "incoming" ~>
        \/ client[t] # "none" /\ Status(R(t), t) \in {"complete", "declined"}
        \/ ~sound

-----------------------------------------------------------------------------
(* What comments and messages say, and the code does not do. *)

\* dht/streams.go:552 logs "file received and saved", and
\* models/fileModels.go:43 FileHash is the "Unique identifier for the file": a
\* file received and complete under a hash is that file.
CompleteIsWhole ==
    \A t \in Txs : recv[t] = "done" => dst[t] # None /\ data[dst[t]] = WholeFile(F(t))
=============================================================================
