--------------------------- MODULE DownloadProofs ---------------------------
(***************************************************************************)
(* Proofs about Download.  Where a transaction stands (Control) and what   *)
(* the two ledgers say of it (Recorded) are related in every state, with   *)
(* crashes, lost messages and deletions; from that follow the types and    *)
(* FinalStatus.  What streams and files hold comes second.                 *)
(***************************************************************************)
EXTENDS Download, TLAPS

USE Zenon

Quiet   == {"none", "incoming", "check", "decline", "stat"}   \* no stream yet
Sending == {"metadata", "open", "copy"}

\* The goroutines of a transaction: the stream is open while sendFile runs,
\* and receiveFile starts with it.
Control(t) ==
    /\ client[t] = "none" => R(t) = None /\ T(t) = None
    /\ client[t] # "none" => R(t) \in Nodes /\ T(t) \in Nodes /\ F(t) \in Files /\ R(t) # T(t)
    /\ client[t] \in {"none", "send"} => server[t] = "none"
    /\ server[t] \in Quiet => pipe[t].end = "none"
    /\ server[t] \in Sending => pipe[t].end = "open"
    /\ pipe[t].end = "none" => recv[t] = "none"
    /\ server[t] = "copy" => src[t] \in Inodes
    /\ recv[t] = "copy" => dst[t] \in Inodes

\* The target answered, and not with the file.
Refused(t) == server[t] = "done" /\ pipe[t].end = "none"

\* The ledgers and the mail: a target says complete after receiveFile ended, a
\* requester says declined only if no stream was or will be opened.
Recorded(t) ==
    /\ \A n \in Nodes : Status(n, t) # "none" => client[t] # "none" /\ n \in {R(t), T(t)}
    /\ client[t] # "none" =>
          /\ Status(T(t), t) \in {"none", "pending", "complete"}
          /\ server[t] \in {"none", "incoming"} => Status(T(t), t) = "none"
          /\ Status(T(t), t) = "complete" => recv[t] = "done"
          /\ Status(R(t), t) = "complete" => pipe[t].end # "none"
          /\ Status(R(t), t) = "declined" => Refused(t)
    /\ \A m \in mail : m.tx = t =>
          /\ client[t] # "none"
          /\ \/ m.Status = "complete" /\ m.to = T(t) /\ recv[t] = "done"
             \/ m.Status = "declined" /\ m.to = R(t) /\ Refused(t)

Shape == DOMAIN dir = Nodes /\ DOMAIN ledger = Nodes /\ DOMAIN PendingRequests = Nodes

IInv == TypeOK /\ Shape /\ \A t \in Txs : Control(t) /\ Recorded(t)

-----------------------------------------------------------------------------
(* Types. *)

\* The ledgers after AddOrUpdateTransaction.
LEMMA LedgerUpdate ==
    ASSUME Shape, NEW n \in Nodes, NEW t, NEW s, AddOrUpdateTransaction(n, t, s)
    PROVE  /\ DOMAIN ledger' = Nodes
           /\ \A m \in Nodes : \A u :
                 Status(m, u)' = IF m = n /\ u = t THEN s ELSE Status(m, u)
           /\ \A m \in Nodes : \A u \in DOMAIN ledger'[m] :
                 \/ m = n /\ u = t /\ ledger'[m][u] = s
                 \/ u \in DOMAIN ledger[m] /\ ledger'[m][u] = ledger[m][u]
<1>1. /\ DOMAIN ledger' = Nodes
      /\ \A m \in Nodes : ledger'[m] = IF m = n THEN MapPut(ledger[n], t, s) ELSE ledger[m]
  BY DEF Shape, AddOrUpdateTransaction
<1>2. /\ DOMAIN MapPut(ledger[n], t, s) = DOMAIN ledger[n] \cup {t}
      /\ \A u \in DOMAIN ledger[n] \cup {t} :
            MapPut(ledger[n], t, s)[u] = IF u = t THEN s ELSE ledger[n][u]
  BY DEF MapPut
<1> QED
  BY <1>1, <1>2 DEF Status

\* The parts of TypeOK about ledgers, kept by AddOrUpdateTransaction.
LEMMA LedgerType ==
    ASSUME Shape, TypeOK, NEW n \in Nodes, NEW t \in Txs, NEW s \in Statuses,
           AddOrUpdateTransaction(n, t, s)
    PROVE  /\ DOMAIN ledger' = Nodes
           /\ \A m \in Nodes : \A u \in DOMAIN ledger'[m] : u \in Txs /\ ledger'[m][u] \in Statuses
<1>1. /\ DOMAIN ledger' = Nodes
      /\ \A m \in Nodes : \A u \in DOMAIN ledger'[m] :
            \/ m = n /\ u = t /\ ledger'[m][u] = s
            \/ u \in DOMAIN ledger[m] /\ ledger'[m][u] = ledger[m][u]
  BY SMT, LedgerUpdate
<1>2. \A m \in Nodes : \A u \in DOMAIN ledger[m] : u \in Txs /\ ledger[m][u] \in Statuses
  BY DEF TypeOK
<1> QED
  BY <1>1, <1>2

\* A stream whose end, header or content changes is a stream.
LEMMA PipeType ==
    ASSUME NEW p \in Pipe
    PROVE  /\ p.lines \in 0..2 /\ p.data \in Seq(Files \cup {Hole})
           /\ p.end \in {"none", "open", "eof", "reset"}
           /\ \A e \in {"open", "eof", "reset"} :
                 /\ [p EXCEPT !.end = e] \in Pipe /\ [p EXCEPT !.end = e].end = e
                 /\ [p EXCEPT !.end = e].data = p.data /\ [p EXCEPT !.end = e].lines = p.lines
           /\ /\ [p EXCEPT !.lines = 2] \in Pipe /\ [p EXCEPT !.lines = 2].lines = 2
              /\ [p EXCEPT !.lines = 2].data = p.data /\ [p EXCEPT !.lines = 2].end = p.end
           /\ \A d \in Seq(Files \cup {Hole}) :
                 /\ [p EXCEPT !.data = d] \in Pipe /\ [p EXCEPT !.data = d].data = d
                 /\ [p EXCEPT !.data = d].lines = p.lines /\ [p EXCEPT !.data = d].end = p.end
  BY SMT DEF Pipe

\* file.Write leaves a content.
LEMMA WriteAtType ==
    ASSUME NEW c \in Seq(Files \cup {Hole}), NEW i \in Nat \ {0}, NEW x \in Files \cup {Hole}
    PROVE  WriteAt(c, i, x) \in Seq(Files \cup {Hole})
<1> DEFINE k == IF i > Len(c) THEN i ELSE Len(c)
<1>1. k \in Nat
  BY SMT
<1>2. \A j \in 1..k : (IF j = i THEN x ELSE IF j <= Len(c) THEN c[j] ELSE Hole) \in Files \cup {Hole}
  BY SMT
<1> QED
  BY SMT, <1>1, <1>2 DEF WriteAt

\* What the first state looks like.
LEMMA InitInv ==
    ASSUME Init
    PROVE  IInv
<1> USE ConstantsAssumption
<1>1. \A n \in Nodes : \A m \in DOMAIN dir[n] : dir[n][m] \in Files
  <2> SUFFICES ASSUME NEW n \in Nodes, NEW m \in DOMAIN dir[n] PROVE dir[n][m] \in Files
    OBVIOUS
  <2>1. m \in {Name[f] : f \in {g \in Files : Uploader[g] = n}}
        /\ dir[n][m] = CHOOSE f \in Files : Name[f] = m /\ Uploader[f] = n
    BY DEF Init
  <2> QED
    BY <2>1
<1>2. \A i \in Inodes : data[i] \in Seq(Files \cup {Hole})
  <2>1. \A f \in Files : WholeFile(f) \in Seq(Files \cup {Hole})
    BY SMT DEF WholeFile
  <2> QED
    BY SMT, <2>1 DEF Init
<1>3. \A n \in Nodes, t \in Txs : Status(n, t) = "none"
  BY DEF Init, Status
<1>4. NoPipe \in Pipe /\ NoPipe.end = "none"
  BY SMT DEF NoPipe, Pipe
<1>5. TypeOK
  <2>1. /\ tx \in [Txs -> [RequesterID : Nodes \cup {None}, TargetID : Nodes \cup {None},
                           FileHash : Files \cup {None}]]
        /\ pipe \in [Txs -> Pipe] /\ off \in [Txs -> Nat]
    BY <1>4 DEF Init
  <2>2. data \in [Inodes -> Seq(Files \cup {Hole})]
    BY <1>2 DEF Init
  <2>3. \A n \in Nodes : /\ \A m \in DOMAIN dir[n] : dir[n][m] \in Inodes
                         /\ DOMAIN PendingRequests[n] = {} /\ DOMAIN ledger[n] = {}
    BY <1>1 DEF Init, Inodes
  <2>4. /\ entries \in [Nodes -> SUBSET Files] /\ FileHashToPath \in [Nodes -> SUBSET Files]
        /\ deleting \in [Nodes -> {"no", "path", "json"} \X (Files \cup {None})]
        /\ faults \in 0..MaxFaults /\ sound \in BOOLEAN /\ mail = {}
    BY SMT DEF Init
  <2>5. /\ src \in [Txs -> Inodes \cup {None}] /\ dst \in [Txs -> Inodes \cup {None}]
        /\ client = [t \in Txs |-> "none"] /\ server = [t \in Txs |-> "none"]
        /\ recv = [t \in Txs |-> "none"]
    BY DEF Init
  <2> QED
    BY <2>1, <2>2, <2>3, <2>4, <2>5 DEF TypeOK
<1>6. Shape
  BY DEF Init, Shape
<1>7. ASSUME NEW t \in Txs PROVE Control(t)
  BY <1>4 DEF Init, Control, R, T, Quiet, Sending
<1>8. ASSUME NEW t \in Txs PROVE Recorded(t)
  BY <1>3 DEF Init, Recorded
<1> QED
  BY <1>5, <1>6, <1>7, <1>8 DEF IInv

\* A transaction of which something is known has two nodes and a file.
LEMMA Live ==
    ASSUME IInv, NEW t \in Txs,
           client[t] # "none" \/ server[t] # "none" \/ pipe[t].end # "none" \/ recv[t] # "none"
    PROVE  /\ client[t] # "none" /\ R(t) \in Nodes /\ T(t) \in Nodes /\ F(t) \in Files
           /\ R(t) # T(t)
  BY DEF IInv, Control, Quiet

\* The count of failures is bounded.
LEMMA FaultType ==
    ASSUME TypeOK, Fault \/ NoFault
    PROVE  faults' \in 0..MaxFaults /\ sound' \in BOOLEAN
<1>1. faults' \in 0..MaxFaults
  BY SMT, ConstantsAssumption DEF TypeOK, Fault, NoFault
<1>2. sound' \in BOOLEAN
  BY DEF TypeOK, Fault, NoFault
<1> QED
  BY <1>1, <1>2

\* The steps of the request handler.
LEMMA ClientTypes ==
    ASSUME IInv, NEW t \in Txs,
           ClientStep(t) \/ \E r, g \in Nodes, f \in Files : HandleDownloadRequest(t, r, g, f)
    PROVE  TypeOK' /\ Shape'
<1> USE DEF IInv
<1>1. ASSUME NEW r \in Nodes, NEW g \in Nodes, NEW f \in Files, HandleDownloadRequest(t, r, g, f)
      PROVE  TypeOK' /\ Shape'
  BY <1>1 DEF HandleDownloadRequest, Goto, TypeOK, Shape, netVars, diskVars, memVars
<1>2. CASE SendDownloadRequest(t)
  <2>1. faults' \in 0..MaxFaults /\ sound' \in BOOLEAN
    BY <1>2, FaultType DEF SendDownloadRequest
  <2>2. PICK l \in {"store", "error"}, k \in {server[t], "incoming"} :
           client' = Goto(client, t, l) /\ server' = Goto(server, t, k)
    BY SMT, <1>2 DEF SendDownloadRequest, Goto, TypeOK
  <2> QED
    BY <1>2, <2>1, <2>2 DEF SendDownloadRequest, Goto, TypeOK, Shape, netVars, diskVars, memVars
<1>3. CASE StorePending(t)
  <2>1. R(t) \in Nodes /\ F(t) \in Files
    BY <1>3, Live DEF StorePending
  <2>2. /\ DOMAIN PendingRequests' = Nodes
        /\ \A n \in Nodes : \A f \in DOMAIN PendingRequests'[n] :
              f \in Files /\ PendingRequests'[n][f] \in Txs
    BY <1>3, <2>1 DEF StorePending, TypeOK, Shape, MapPut
  <2> QED
    BY <1>3, <2>2 DEF StorePending, Goto, TypeOK, Shape, netVars, diskVars
<1>4. CASE RecordRequest(t)
  <2>1. R(t) \in Nodes
    BY <1>4, Live DEF RecordRequest
  <2>2. /\ DOMAIN ledger' = Nodes
        /\ \A m \in Nodes : \A u \in DOMAIN ledger'[m] : u \in Txs /\ ledger'[m][u] \in Statuses
    BY <1>4, <2>1, LedgerType DEF RecordRequest, Statuses
  <2> QED
    BY <1>4, <2>2 DEF RecordRequest, Goto, TypeOK, Shape, netVars, memVars
<1> QED
  BY <1>1, <1>2, <1>3, <1>4 DEF ClientStep

\* The steps of receiveDownloadRequest and sendFile.
LEMMA ServerTypes ==
    ASSUME IInv, NEW t \in Txs, ServerStep(t) \/ ResetStream(t)
    PROVE  TypeOK' /\ Shape'
<1> USE DEF IInv
<1>1. R(t) \in Nodes /\ T(t) \in Nodes /\ F(t) \in Files
  <2>1. server[t] # "none" \/ pipe[t].end # "none"
    BY DEF ServerStep, ResetStream, ReceiveDownloadRequest, CheckPath, SendDecline,
       OpenFileStream, SendMetadata, OpenFile, SendChunk
  <2> QED
    BY <2>1, Live
<1>2. pipe[t] \in Pipe
  BY DEF TypeOK
<1>14. Fault \/ NoFault => faults' \in 0..MaxFaults /\ sound' \in BOOLEAN
  BY FaultType
<1>3. CASE ReceiveDownloadRequest(t)
  <2>1. /\ DOMAIN ledger' = Nodes
        /\ \A m \in Nodes : \A u \in DOMAIN ledger'[m] : u \in Txs /\ ledger'[m][u] \in Statuses
    <3>1. CASE AddOrUpdateTransaction(T(t), t, "pending")
      BY <1>1, <3>1, LedgerType DEF Statuses
    <3>2. CASE ledger' = ledger
      BY <3>2 DEF TypeOK, Shape
    <3> QED
      BY <1>3, <3>1, <3>2 DEF ReceiveDownloadRequest
  <2> QED
    BY <1>3, <1>14, <2>1 DEF ReceiveDownloadRequest, Goto, TypeOK, Shape, netVars, memVars
<1>4. CASE CheckPath(t)
  BY <1>4 DEF CheckPath, Goto, TypeOK, Shape, netVars, diskVars, memVars
<1>5. CASE SendDecline(t)
  <2>1. mail' \subseteq [to : Nodes, tx : Txs, Status : Statuses]
    BY SMT, <1>1, <1>5 DEF SendDecline, TypeOK, Statuses
  <2> QED
    BY <1>5, <1>14, <2>1 DEF SendDecline, Goto, TypeOK, Shape, diskVars, memVars
<1>6. ASSUME NEW p \in Pipe, NEW l \in {"metadata", "open", "copy", "done"},
             pipe' = [pipe EXCEPT ![t] = p], server' = Goto(server, t, l),
             NEW i \in Inodes \cup {None}, src' = [src EXCEPT ![t] = i], Fault \/ NoFault,
             UNCHANGED <<tx, client, recv, off, mail, dst, diskVars, memVars>>
      PROVE  TypeOK' /\ Shape'
  BY <1>6, <1>14 DEF Goto, TypeOK, Shape, diskVars, memVars
<1>7. pipe = [pipe EXCEPT ![t] = pipe[t]] /\ src = [src EXCEPT ![t] = src[t]]
      /\ src[t] \in Inodes \cup {None}
  BY DEF TypeOK
<1>8. CASE OpenFileStream(t)
  <2>1. [lines |-> 1, data |-> <<>>, end |-> "open"] \in Pipe
    BY SMT DEF Pipe
  <2> QED
    BY <1>2, <1>6, <1>7, <1>8, <2>1 DEF OpenFileStream
<1>9. \A e \in {"eof", "reset"} : [pipe[t] EXCEPT !.end = e] \in Pipe
  BY <1>2, PipeType
<1>10. CASE SendMetadata(t)
  <2>1. [pipe[t] EXCEPT !.lines = 2] \in Pipe
    BY <1>2, PipeType
  <2> QED
    BY <1>6, <1>7, <1>9, <1>10, <2>1 DEF SendMetadata, Close
<1>11. CASE OpenFile(t)
  <2>1. Name[F(t)] \in DOMAIN dir[T(t)] => dir[T(t)][Name[F(t)]] \in Inodes
    BY <1>1 DEF TypeOK
  <2>2. NoFault
    BY <1>11 DEF OpenFile, NoFault
  <2> QED
    BY <1>2, <1>6, <1>7, <1>9, <1>11, <2>1, <2>2 DEF OpenFile, Close
<1>12. CASE SendChunk(t)
  <2> DEFINE sent == Len(pipe[t].data)
             d == Append(pipe[t].data, data[src[t]][sent + 1])
  <2>1. sent < Len(data[src[t]]) => d \in Seq(Files \cup {Hole})
    <3>1. data[src[t]] \in Seq(Files \cup {Hole})
      BY <1>12 DEF SendChunk, Control, TypeOK
    <3>2. pipe[t].data \in Seq(Files \cup {Hole})
      BY <1>2, PipeType
    <3> QED
      BY SMT, <3>1, <3>2
  <2>2. sent < Len(data[src[t]]) => [pipe[t] EXCEPT !.data = d] \in Pipe
    <3>1. \A x \in Seq(Files \cup {Hole}) : [pipe[t] EXCEPT !.data = x] \in Pipe
      BY <1>2, PipeType
    <3> QED
      BY <2>1, <3>1
  <2>3. CASE UNCHANGED server
    <3>1. server' = Goto(server, t, "copy")
      BY <1>12, <2>3 DEF SendChunk, Goto, TypeOK
    <3>2. ~Close(t)
      BY <1>12, <2>3 DEF SendChunk, Close, Goto, TypeOK
    <3>3. sent < Len(data[src[t]]) /\ NoFault /\ pipe' = [pipe EXCEPT ![t] = [pipe[t] EXCEPT !.data = d]]
      BY <1>12, <3>2 DEF SendChunk
    <3> QED
      BY <1>6, <1>7, <1>12, <2>2, <3>1, <3>3 DEF SendChunk
  <2>4. CASE Close(t)
    BY <1>6, <1>7, <1>9, <1>12, <2>4 DEF SendChunk, Close
  <2> QED
    BY <1>12, <2>3, <2>4 DEF SendChunk
<1>13. CASE ResetStream(t)
  BY <1>6, <1>7, <1>9, <1>13 DEF ResetStream
<1> QED
  BY <1>3, <1>4, <1>5, <1>8, <1>10, <1>11, <1>12, <1>13 DEF ServerStep

\* The end of a process.
LEMMA DownTypes ==
    ASSUME IInv, NEW n \in Nodes, Down(n), faults' \in 0..MaxFaults, sound' \in BOOLEAN
    PROVE  TypeOK' /\ Shape'
<1> USE DEF IInv
<1>1. pipe' \in [Txs -> Pipe]
  <2>1. \A t \in Txs : pipe[t] \in Pipe /\ [pipe[t] EXCEPT !.end = "reset"] \in Pipe
    <3>1. \A t \in Txs : pipe[t] \in Pipe
      BY DEF TypeOK
    <3> QED
      BY <3>1, PipeType
  <2> QED
    BY <2>1 DEF Down
<1>2. /\ client' \in [Txs -> {"none", "send", "store", "ledger", "ok", "error"}]
      /\ server' \in [Txs -> {"none", "incoming", "check", "decline", "stat", "metadata",
                              "open", "copy", "done"}]
      /\ recv' \in [Txs -> {"none", "create", "copy", "path", "ledger", "publish", "confirm",
                            "done", "failed"}]
  BY DEF Down, TypeOK
<1>3. /\ mail' \subseteq [to : Nodes, tx : Txs, Status : Statuses]
      /\ FileHashToPath' \in [Nodes -> SUBSET Files]
      /\ deleting' \in [Nodes -> {"no", "path", "json"} \X (Files \cup {None})]
  BY DEF Down, TypeOK
<1>4. /\ DOMAIN PendingRequests' = Nodes
      /\ \A m \in Nodes : \A f \in DOMAIN PendingRequests'[m] :
            f \in Files /\ PendingRequests'[m][f] \in Txs
  BY DEF Down, TypeOK, Shape
<1> QED
  BY <1>1, <1>2, <1>3, <1>4 DEF Down, TypeOK, Shape, diskVars

\* The steps of receiveFile.
LEMMA ReceiverTypes ==
    ASSUME IInv, NEW t \in Txs, ReceiverStep(t)
    PROVE  TypeOK' /\ Shape'
<1> USE DEF IInv
<1>1. R(t) \in Nodes /\ T(t) \in Nodes /\ F(t) \in Files
  <2>1. recv[t] # "none" \/ pipe[t].end # "none"
    BY DEF ReceiverStep, ReadMetadata, CreateFile, ReceiveChunk, SaveOrUpdateFile, SetPath,
       RecordComplete, UpdateFileInDHT, SendMessageConfirmation
  <2> QED
    BY <2>1, Live
<1>2. Fault \/ NoFault => faults' \in 0..MaxFaults /\ sound' \in BOOLEAN
  BY FaultType
<1>3. CASE ReadMetadata(t)
  <2>1. CASE Down(R(t))
    <3>1. faults' \in 0..MaxFaults /\ sound' \in BOOLEAN
      BY <1>2, <1>3 DEF ReadMetadata, NoFault
    <3> QED
      BY <1>1, <2>1, <3>1, DownTypes
  <2>2. CASE ~Down(R(t))
    BY <1>3, <2>2 DEF ReadMetadata, Goto, TypeOK, Shape, netVars, diskVars, memVars
  <2> QED
    BY <2>1, <2>2
<1>4. CASE CreateFile(t)
  <2> DEFINE old   == Name[F(t)] \in DOMAIN dir[R(t)]
             inode == IF old THEN dir[R(t)][Name[F(t)]] ELSE t
  <2>1. inode \in Inodes
    BY <1>1 DEF TypeOK, Inodes
  <2>2. /\ dst'  = [dst EXCEPT ![t] = inode] /\ data' = [data EXCEPT ![inode] = <<>>]
        /\ dir'  = [dir EXCEPT ![R(t)] = MapPut(dir[R(t)], Name[F(t)], inode)]
        /\ sound' = (sound /\ ~old)
    BY <1>4 DEF CreateFile
  <2> HIDE DEF inode, old
  <2>3. /\ DOMAIN dir' = Nodes
        /\ \A n \in Nodes : \A m \in DOMAIN dir'[n] : dir'[n][m] \in Inodes
    BY <1>1, <2>1, <2>2 DEF TypeOK, Shape, MapPut
  <2>4. /\ dst' \in [Txs -> Inodes \cup {None}]
        /\ data' \in [Inodes -> Seq(Files \cup {Hole})]
    BY SMT, <2>1, <2>2 DEF TypeOK
  <2>5. sound' \in BOOLEAN
    BY <2>2
  <2> QED
    BY <1>4, <2>3, <2>4, <2>5 DEF CreateFile, Goto, TypeOK, Shape, netVars, memVars
<1>5. CASE ReceiveChunk(t)
  <2>1. Fault \/ NoFault
    BY <1>5 DEF ReceiveChunk
  <2>2. recv' \in [Txs -> {"none", "create", "copy", "path", "ledger", "publish", "confirm",
                           "done", "failed"}] /\ off' \in [Txs -> Nat]
    <3>1. off' = [off EXCEPT ![t] = off[t] + 1] \/ off' = off
      BY <1>5 DEF ReceiveChunk
    <3>2. recv' = [recv EXCEPT ![t] = "failed"] \/ recv' = recv
      BY <1>5 DEF ReceiveChunk, Goto
    <3>3. off \in [Txs -> Nat] /\ off[t] + 1 \in Nat
      BY SMT DEF TypeOK
    <3>4. off' \in [Txs -> Nat]
      BY <3>1, <3>3
    <3> QED
      BY <3>2, <3>4 DEF TypeOK
  <2>3. data' \in [Inodes -> Seq(Files \cup {Hole})]
    <3>1. recv[t] = "copy" /\ off[t] \in Nat /\ pipe[t] \in Pipe
      BY <1>5 DEF ReceiveChunk, TypeOK
    <3>2. dst[t] \in Inodes
      BY <3>1 DEF Control
    <3>3. /\ dst[t] \in Inodes /\ off[t] + 1 \in Nat \ {0}
          /\ data[dst[t]] \in Seq(Files \cup {Hole})
      BY SMT, <3>1, <3>2 DEF TypeOK
    <3>4. pipe[t].data \in Seq(Files \cup {Hole})
      BY <3>1, PipeType
    <3>5. off[t] < Len(pipe[t].data) =>
             WriteAt(data[dst[t]], off[t] + 1, pipe[t].data[off[t] + 1]) \in Seq(Files \cup {Hole})
      <4> HAVE off[t] < Len(pipe[t].data)
      <4>1. pipe[t].data[off[t] + 1] \in Files \cup {Hole}
        BY SMT, <3>1, <3>4
      <4> QED
        BY <3>3, <4>1, WriteAtType
    <3>6. \/ data' = data
          \/ /\ off[t] < Len(pipe[t].data)
             /\ data' = [data EXCEPT ![dst[t]] =
                            WriteAt(data[dst[t]], off[t] + 1, pipe[t].data[off[t] + 1])]
      BY <1>5 DEF ReceiveChunk
    <3> QED
      BY <3>3, <3>5, <3>6 DEF TypeOK
  <2> QED
    BY <1>2, <1>5, <2>1, <2>2, <2>3 DEF ReceiveChunk, TypeOK, Shape, memVars
<1>6. CASE SaveOrUpdateFile(t)
  <2>1. entries' \in [Nodes -> SUBSET Files] /\ (Fault \/ NoFault)
    <3>1. \/ entries' = [entries EXCEPT ![R(t)] = entries[R(t)] \cup {F(t)}] /\ NoFault
          \/ entries' = entries /\ Fault
      BY <1>6 DEF SaveOrUpdateFile
    <3>2. entries \in [Nodes -> SUBSET Files] /\ entries[R(t)] \cup {F(t)} \in SUBSET Files
      BY <1>1 DEF TypeOK
    <3> QED
      BY <3>1, <3>2
  <2> QED
    BY <1>2, <1>6, <2>1 DEF SaveOrUpdateFile, Goto, TypeOK, Shape, netVars, memVars
<1>7. CASE SetPath(t)
  BY <1>1, <1>7 DEF SetPath, Goto, TypeOK, Shape, netVars, diskVars
<1>8. CASE RecordComplete(t)
  <2>1. /\ DOMAIN ledger' = Nodes
        /\ \A m \in Nodes : \A u \in DOMAIN ledger'[m] : u \in Txs /\ ledger'[m][u] \in Statuses
    BY <1>1, <1>8, LedgerType DEF RecordComplete, Statuses
  <2> QED
    BY <1>8, <2>1 DEF RecordComplete, Goto, TypeOK, Shape, netVars, memVars
<1>9. CASE UpdateFileInDHT(t)
  <2>1. Fault \/ NoFault
    BY <1>9 DEF UpdateFileInDHT
  <2> QED
    BY <1>2, <1>9, <2>1 DEF UpdateFileInDHT, Goto, TypeOK, Shape, netVars, diskVars, memVars
<1>10. CASE SendMessageConfirmation(t)
  <2>1. mail' \subseteq [to : Nodes, tx : Txs, Status : Statuses] /\ (Fault \/ NoFault)
    BY SMT, <1>1, <1>10 DEF SendMessageConfirmation, TypeOK, Statuses
  <2> QED
    BY <1>2, <1>10, <2>1 DEF SendMessageConfirmation, Goto, TypeOK, Shape, diskVars, memVars
<1> QED
  BY <1>3, <1>4, <1>5, <1>6, <1>7, <1>8, <1>9, <1>10 DEF ReceiverStep

\* All steps keep the types.
LEMMA TypeStep ==
    ASSUME IInv, [Next]_vars
    PROVE  TypeOK' /\ Shape'
<1> USE DEF IInv
<1>1. ASSUME NEW m \in mail, ReceiveMessageConfirmation(m) PROVE TypeOK' /\ Shape'
  <2>1. m.to \in Nodes /\ m.tx \in Txs /\ m.Status \in Statuses
    BY DEF TypeOK
  <2>2. /\ DOMAIN ledger' = Nodes
        /\ \A n \in Nodes : \A u \in DOMAIN ledger'[n] : u \in Txs /\ ledger'[n][u] \in Statuses
    BY <1>1, <2>1, LedgerType DEF ReceiveMessageConfirmation
  <2>3. mail' \subseteq mail
    BY <1>1 DEF ReceiveMessageConfirmation
  <2> QED
    BY <1>1, <2>2, <2>3 DEF ReceiveMessageConfirmation, TypeOK, Shape, memVars
<1>2. ASSUME NEW n \in Nodes, NEW f \in Files, DeleteContent(n, f) PROVE TypeOK' /\ Shape'
  <2>1. /\ DOMAIN dir' = Nodes
        /\ \A k \in Nodes : \A m \in DOMAIN dir'[k] : dir'[k][m] \in Inodes
    BY <1>2 DEF DeleteContent, MapDel, TypeOK, Shape
  <2>2. deleting' \in [Nodes -> {"no", "path", "json"} \X (Files \cup {None})]
    BY <1>2 DEF DeleteContent, TypeOK
  <2>3. sound' \in BOOLEAN
    BY <1>2 DEF DeleteContent
  <2> QED
    BY <1>2, <2>1, <2>2, <2>3 DEF DeleteContent, TypeOK, Shape, netVars
<1>3. ASSUME NEW n \in Nodes, NEW f \in Files, PublishFile(n, f) PROVE TypeOK' /\ Shape'
  BY <1>3 DEF PublishFile, TypeOK, Shape, netVars, diskVars
<1>4. ASSUME NEW n \in Nodes, DeletePath(n) PROVE TypeOK' /\ Shape'
  BY <1>4 DEF DeletePath, TypeOK, Shape, netVars, diskVars
<1>5. ASSUME NEW n \in Nodes, DeleteEntry(n) PROVE TypeOK' /\ Shape'
  BY <1>5 DEF DeleteEntry, TypeOK, Shape, netVars
<1>6. ASSUME NEW n \in Nodes, Crash(n) PROVE TypeOK' /\ Shape'
  BY <1>6, DownTypes, FaultType DEF Crash
<1>7. CASE UNCHANGED vars
  BY <1>7 DEF vars, TypeOK, Shape, netVars, diskVars, memVars
<1> QED
  BY <1>1, <1>2, <1>3, <1>4, <1>5, <1>6, <1>7, ClientTypes, ServerTypes, ReceiverTypes DEF Next

-----------------------------------------------------------------------------
(* The ledgers, and the invariant as a whole.                               *)

\* A step that changes nothing of transaction u.
Kept(u) ==
    /\ tx'[u] = tx[u] /\ client'[u] = client[u] /\ server'[u] = server[u] /\ recv'[u] = recv[u]
    /\ pipe'[u] = pipe[u] /\ src'[u] = src[u] /\ dst'[u] = dst[u]
    /\ \A n \in Nodes : Status(n, u)' = Status(n, u)
    /\ \A m \in mail' : m.tx = u => m \in mail

\* Nothing changes of it, and it stays in order.
LEMMA KeptInv ==
    ASSUME NEW u \in Txs, Control(u), Recorded(u), Kept(u)
    PROVE  Control(u)' /\ Recorded(u)'
<1>1. R(u)' = R(u) /\ T(u)' = T(u) /\ F(u)' = F(u)
  BY DEF Kept, R, T, F
<1>2. Control(u)'
  BY <1>1 DEF Control, Kept
<1>3. Refused(u)' = Refused(u)
  BY DEF Refused, Kept
<1>4. client[u] # "none" => R(u) \in Nodes /\ T(u) \in Nodes
  BY DEF Control
<1>5. Recorded(u)'
  <2>1. \A n \in Nodes : Status(n, u)' # "none" => client'[u] # "none" /\ n \in {R(u)', T(u)'}
    BY <1>1 DEF Recorded, Kept
  <2>2. client'[u] # "none" =>
          /\ Status(T(u), u)' = Status(T(u), u) /\ Status(R(u), u)' = Status(R(u), u)
    BY <1>1, <1>4 DEF Kept, Status
  <2>3. client'[u] # "none" =>
          /\ Status(T(u), u)' \in {"none", "pending", "complete"}
          /\ server'[u] \in {"none", "incoming"} => Status(T(u), u)' = "none"
          /\ Status(T(u), u)' = "complete" => recv'[u] = "done"
          /\ Status(R(u), u)' = "complete" => pipe'[u].end # "none"
          /\ Status(R(u), u)' = "declined" => Refused(u)'
    BY <1>3, <2>2 DEF Recorded, Kept
  <2>4. \A m \in mail' : m.tx = u =>
          /\ client'[u] # "none"
          /\ \/ m.Status = "complete" /\ m.to = T(u)' /\ recv'[u] = "done"
             \/ m.Status = "declined" /\ m.to = R(u)' /\ Refused(u)'
    BY <1>1, <1>3 DEF Recorded, Kept
  <2> QED
    BY <2>1, <2>3, <2>4 DEF Recorded
<1> QED
  BY <1>2, <1>5

\* A step that only moves the goroutines of a transaction forward.
LEMMA RecordedStays ==
    ASSUME NEW t \in Txs, Control(t), Recorded(t), tx'[t] = tx[t],
           client[t] # "none", client'[t] # "none",
           \A n \in Nodes : Status(n, t)' = Status(n, t),
           \A m \in mail' : m.tx = t => m \in mail,
           Refused(t) => Refused(t)', recv[t] = "done" => recv'[t] = "done",
           pipe[t].end # "none" => pipe'[t].end # "none",
           server'[t] \in {"none", "incoming"} => server[t] \in {"none", "incoming"}
    PROVE  Recorded(t)'
<1>1. R(t)' = R(t) /\ T(t)' = T(t)
  BY DEF R, T
<1>2. R(t) \in Nodes /\ T(t) \in Nodes
  BY DEF Control
<1>3. \A n \in Nodes : Status(n, t)' # "none" => n \in {R(t)', T(t)'}
  BY <1>1 DEF Recorded
<1>4. Status(T(t), t)' = Status(T(t), t) /\ Status(R(t), t)' = Status(R(t), t)
  BY <1>1, <1>2 DEF Status
<1>5. /\ Status(T(t), t)' \in {"none", "pending", "complete"}
      /\ server'[t] \in {"none", "incoming"} => Status(T(t), t)' = "none"
      /\ Status(T(t), t)' = "complete" => recv'[t] = "done"
      /\ Status(R(t), t)' = "complete" => pipe'[t].end # "none"
      /\ Status(R(t), t)' = "declined" => Refused(t)'
  BY <1>4 DEF Recorded
<1>6. \A m \in mail' : m.tx = t =>
          \/ m.Status = "complete" /\ m.to = T(t)' /\ recv'[t] = "done"
          \/ m.Status = "declined" /\ m.to = R(t)' /\ Refused(t)'
  BY <1>1 DEF Recorded
<1> QED
  BY <1>3, <1>5, <1>6 DEF Recorded

\* Where the ledgers are left alone.
LEMMA SameStatus ==
    ASSUME ledger' = ledger
    PROVE  \A n, u : Status(n, u)' = Status(n, u)
  BY DEF Status

\* What the invariant says of the next state, transaction by transaction.
InOrderNext == \A u \in Txs : Control(u)' /\ Recorded(u)'

\* A step of sendFile.
LEMMA ServerMove ==
    ASSUME IInv, NEW t \in Txs, NEW p \in Pipe, NEW l \in Quiet \cup Sending \cup {"done"}, NEW i,
           pipe' = [pipe EXCEPT ![t] = p], server' = Goto(server, t, l),
           src' = [src EXCEPT ![t] = i], UNCHANGED <<tx, client, recv, dst, mail, ledger>>,
           client[t] \notin {"none", "send"}, server[t] \notin {"none", "incoming"}, ~Refused(t),
           l \notin {"none", "incoming"},
           l \in Quiet => p.end = "none", l \in Sending => p.end = "open",
           p.end = "none" => pipe[t].end = "none", l = "copy" => i \in Inodes
    PROVE  InOrderNext
<1> USE DEF IInv
<1>1. \A n, u : Status(n, u)' = Status(n, u)
  BY SameStatus
<1>2. /\ pipe'[t] = p /\ server'[t] = l /\ src'[t] = i
      /\ \A u \in Txs \ {t} : pipe'[u] = pipe[u] /\ server'[u] = server[u] /\ src'[u] = src[u]
  BY DEF TypeOK, Goto
<1>3. ASSUME NEW u \in Txs \ {t} PROVE Control(u)' /\ Recorded(u)'
  <2>1. Kept(u)
    BY <1>1, <1>2 DEF Kept
  <2> QED
    BY <2>1, KeptInv
<1>4. Control(t)'
  BY <1>2 DEF Control, R, T, F, Quiet, Sending
<1>5. Recorded(t)'
  BY <1>1, <1>2, RecordedStays
<1> QED
  BY <1>3, <1>4, <1>5 DEF InOrderNext

\* sendFile goes on with its stream open.
LEMMA ServerSends ==
    ASSUME IInv, NEW t \in Txs, NEW p \in Pipe, NEW l \in Sending, NEW i \in Inodes \cup {None},
           pipe' = [pipe EXCEPT ![t] = p], server' = Goto(server, t, l),
           src' = [src EXCEPT ![t] = i], UNCHANGED <<tx, client, recv, dst, mail, ledger>>,
           server[t] \in {"stat", "metadata", "open", "copy"}, p.end = "open",
           l = "copy" => i \in Inodes
    PROVE  InOrderNext
<1>1. client[t] \notin {"none", "send"}
  BY DEF IInv, Control
<1>2. ~Refused(t)
  BY DEF Refused
<1>3. l \notin Quiet /\ l \in Quiet \cup Sending \cup {"done"} /\ l \notin {"none", "incoming"}
  BY DEF Quiet, Sending
<1> QED
  BY <1>1, <1>2, <1>3, ServerMove

\* The stream ends, and sendFile with it.
LEMMA ServerEnds ==
    ASSUME IInv, NEW t \in Txs, NEW p \in Pipe, pipe[t].end = "open", p.end \in {"eof", "reset"},
           pipe' = [pipe EXCEPT ![t] = p], server' = Goto(server, t, "done"),
           UNCHANGED <<tx, client, recv, src, dst, mail, ledger>>
    PROVE  InOrderNext
<1>1. server[t] \notin {"none", "incoming"} /\ ~Refused(t)
  BY DEF IInv, Control, Refused, Quiet
<1>2. client[t] \notin {"none", "send"}
  BY <1>1 DEF IInv, Control
<1>3. "done" \notin Quiet /\ "done" \notin Sending /\ "done" \in Quiet \cup Sending \cup {"done"}
  BY DEF Quiet, Sending
<1>4. src' = [src EXCEPT ![t] = src[t]]
  BY DEF IInv, TypeOK
<1> QED
  BY <1>1, <1>2, <1>3, <1>4, ServerMove

\* A step of receiveFile.
LEMMA ReceiverMove ==
    ASSUME IInv, NEW t \in Txs, NEW l, NEW i,
           recv' = Goto(recv, t, l), dst' = [dst EXCEPT ![t] = i],
           UNCHANGED <<tx, client, server, pipe, src, mail, ledger>>,
           recv[t] # "done", pipe[t].end # "none", l = "copy" => i \in Inodes
    PROVE  InOrderNext
<1> USE DEF IInv
<1>1. \A n, u : Status(n, u)' = Status(n, u)
  BY SameStatus
<1>2. /\ recv'[t] = l /\ dst'[t] = i
      /\ \A u \in Txs \ {t} : recv'[u] = recv[u] /\ dst'[u] = dst[u]
  BY DEF TypeOK, Goto
<1>3. ASSUME NEW u \in Txs \ {t} PROVE Control(u)' /\ Recorded(u)'
  <2>1. Kept(u)
    BY <1>1, <1>2 DEF Kept
  <2> QED
    BY <2>1, KeptInv
<1>4. client[t] # "none"
  BY Live
<1>5. Control(t)'
  BY <1>2 DEF Control, R, T, F
<1>6. Recorded(t)'
  BY <1>1, <1>2, <1>4, RecordedStays DEF Refused
<1> QED
  BY <1>3, <1>5, <1>6 DEF InOrderNext

\* An entry of transaction t in the ledger of n, whatever becomes of its
\* goroutines, leaves the other transactions alone.
LEMMA OthersKept ==
    ASSUME IInv, NEW t \in Txs, NEW u \in Txs \ {t}, NEW n \in Nodes, NEW s,
           AddOrUpdateTransaction(n, t, s) \/ ledger' = ledger,
           tx'[u] = tx[u] /\ client'[u] = client[u] /\ server'[u] = server[u]
             /\ recv'[u] = recv[u],
           pipe'[u] = pipe[u] /\ src'[u] = src[u] /\ dst'[u] = dst[u],
           \A m \in mail' : m \in mail \/ m.tx = t
    PROVE  Control(u)' /\ Recorded(u)'
<1>1. \A m \in Nodes : Status(m, u)' = Status(m, u)
  <2>1. CASE AddOrUpdateTransaction(n, t, s)
    BY SMT, <2>1, LedgerUpdate DEF IInv
  <2>2. CASE ledger' = ledger
    BY <2>2, SameStatus
  <2> QED
    BY <2>1, <2>2
<1>2. Kept(u)
  BY <1>1 DEF Kept
<1> QED
  BY <1>2, KeptInv DEF IInv

\* The steps of the target.
LEMMA ServerOrder ==
    ASSUME IInv, NEW t \in Txs, ServerStep(t) \/ ResetStream(t)
    PROVE  InOrderNext
<1> USE DEF IInv
<1>0. /\ server[t] # "none" \/ pipe[t].end # "none"
      /\ pipe[t] \in Pipe
  BY DEF ServerStep, ResetStream, ReceiveDownloadRequest, CheckPath, SendDecline,
     OpenFileStream, SendMetadata, OpenFile, SendChunk, TypeOK
<1>1. R(t) \in Nodes /\ T(t) \in Nodes /\ F(t) \in Files /\ R(t) # T(t) /\ client[t] # "none"
  BY <1>0, Live
<1>2. client[t] \notin {"none", "send"}
  BY <1>0, <1>1 DEF Control, Quiet
<1>3. CASE ReceiveDownloadRequest(t)
  <2>1. /\ server[t] = "incoming" /\ pipe[t].end = "none"
        /\ server'[t] \in {"check", "done"} /\ \A u \in Txs \ {t} : server'[u] = server[u]
        /\ UNCHANGED <<tx, client, recv, pipe, off, mail, src, dst>>
    BY SMT, <1>3 DEF ReceiveDownloadRequest, Goto, netVars, TypeOK, Control, Quiet
  <2>2. AddOrUpdateTransaction(T(t), t, "pending") \/ ledger' = ledger
    BY <1>3 DEF ReceiveDownloadRequest
  <2>3. ASSUME NEW u \in Txs \ {t} PROVE Control(u)' /\ Recorded(u)'
    BY <1>1, <2>1, <2>2, OthersKept
  <2>4. Control(t)'
    BY <1>2, <2>1 DEF Control, R, T, F, Quiet, Sending
  <2>5. Recorded(t)'
    <3>1. \A n \in Nodes : \/ Status(n, t)' = Status(n, t)
                           \/ n = T(t) /\ Status(n, t)' = "pending"
      <4>1. CASE AddOrUpdateTransaction(T(t), t, "pending")
        BY SMT, <1>1, <4>1, LedgerUpdate
      <4>2. CASE ledger' = ledger
        BY <4>2, SameStatus
      <4> QED
        BY <2>2, <4>1, <4>2
    <3>2. R(t)' = R(t) /\ T(t)' = T(t)
      BY <2>1 DEF R, T
    <3>3. Status(T(t), t)' \in {"none", "pending"} /\ Status(R(t), t)' = Status(R(t), t)
      <4>1. Status(T(t), t) = "none"
        BY <1>1, <2>1 DEF Recorded
      <4> QED
        BY <1>1, <3>1, <3>2, <4>1 DEF Status
    <3>4. Status(R(t), t) \notin {"complete", "declined"}
      BY <1>1, <2>1 DEF Recorded, Refused
    <3>5. \A m \in mail : m.tx # t
      BY <2>1 DEF Recorded, Refused, Control
    <3>6. \A n \in Nodes : Status(n, t)' # "none" => n \in {R(t)', T(t)'}
      BY <3>1, <3>2 DEF Recorded
    <3> QED
      BY <1>1, <2>1, <3>3, <3>4, <3>5, <3>6 DEF Recorded
  <2> QED
    BY <2>3, <2>4, <2>5 DEF InOrderNext
<1>4. CASE SendDecline(t)
  <2>1. /\ server[t] = "decline" /\ pipe[t].end = "none" /\ recv[t] = "none"
        /\ server'[t] = "done" /\ \A u \in Txs \ {t} : server'[u] = server[u]
        /\ UNCHANGED <<tx, client, recv, pipe, src, dst, ledger>>
    BY <1>4 DEF SendDecline, Goto, diskVars, TypeOK, Control, Quiet
  <2>2. \A m \in mail' : \/ m \in mail
                         \/ m.tx = t /\ m.to = R(t) /\ m.Status = "declined"
    BY SMT, <1>4 DEF SendDecline
  <2>3. ASSUME NEW u \in Txs \ {t} PROVE Control(u)' /\ Recorded(u)'
    BY <1>1, <2>1, <2>2, OthersKept
  <2>4. Control(t)'
    BY <1>2, <2>1 DEF Control, R, T, F, Quiet, Sending
  <2>5. Recorded(t)'
    <3>1. Refused(t)' /\ R(t)' = R(t) /\ T(t)' = T(t)
      BY <2>1 DEF Refused, R, T
    <3>2. \A n \in Nodes : Status(n, t)' = Status(n, t)
      BY <2>1, SameStatus
    <3>3. Status(T(t), t)' = Status(T(t), t) /\ Status(R(t), t)' = Status(R(t), t)
      BY <1>1, <3>1, <3>2 DEF Status
    <3>4. \A n \in Nodes : Status(n, t)' # "none" => n \in {R(t)', T(t)'}
      BY <3>1, <3>2 DEF Recorded
    <3>5. \A m \in mail : m.tx # t
      BY <2>1 DEF Recorded, Refused
    <3> QED
      BY <1>1, <2>1, <2>2, <3>1, <3>3, <3>4, <3>5 DEF Recorded
  <2> QED
    BY <2>3, <2>4, <2>5 DEF InOrderNext
<1>5. /\ pipe = [pipe EXCEPT ![t] = pipe[t]] /\ src = [src EXCEPT ![t] = src[t]]
      /\ "metadata" \in Sending /\ "open" \in Sending /\ "copy" \in Sending
      /\ src[t] \in Inodes \cup {None}
      /\ \A e \in {"eof", "reset"} : [pipe[t] EXCEPT !.end = e] \in Pipe
                                     /\ [pipe[t] EXCEPT !.end = e].end = e
  <2>1. \A e \in {"eof", "reset"} : [pipe[t] EXCEPT !.end = e] \in Pipe
                                     /\ [pipe[t] EXCEPT !.end = e].end = e
    BY <1>0, PipeType
  <2> QED
    BY <2>1 DEF TypeOK, Sending
<1>6. ASSUME server[t] \in Sending, NEW e \in {"eof", "reset"}, server' = Goto(server, t, "done"),
             pipe' = [pipe EXCEPT ![t] = [pipe[t] EXCEPT !.end = e]],
             UNCHANGED <<tx, client, recv, mail, src, dst, ledger>>
      PROVE  InOrderNext
  <2>1. pipe[t].end = "open"
    BY <1>6 DEF Control
  <2> QED
    BY <1>5, <1>6, <2>1, ServerEnds
<1>7. CASE CheckPath(t)
  <2>1. PICK l \in {"stat", "decline"} : server' = Goto(server, t, l)
    BY <1>7 DEF CheckPath
  <2>2. /\ server[t] = "check" /\ pipe[t].end = "none" /\ pipe' = pipe /\ src' = src
        /\ UNCHANGED <<tx, client, recv, dst, mail, ledger>>
    BY <1>7 DEF CheckPath, Control, Quiet, netVars, diskVars
  <2> QED
    BY SMT, <1>0, <1>2, <1>5, <2>1, <2>2, ServerMove DEF Refused, Sending, Quiet
<1>8. CASE OpenFileStream(t)
  <2> DEFINE p == [lines |-> 1, data |-> <<>>, end |-> "open"]
  <2>1. p \in Pipe /\ p.end = "open"
    BY SMT DEF Pipe
  <2>2. /\ server[t] = "stat" /\ pipe[t].end = "none"
        /\ UNCHANGED <<tx, client, recv, dst, mail, ledger, src>>
    BY <1>8 DEF OpenFileStream, Control, Quiet, diskVars
  <2>3. \/ server' = Goto(server, t, "metadata") /\ pipe' = [pipe EXCEPT ![t] = p]
        \/ server' = Goto(server, t, "done") /\ pipe' = pipe
    BY <1>8 DEF OpenFileStream
  <2>4. CASE server' = Goto(server, t, "metadata") /\ pipe' = [pipe EXCEPT ![t] = p]
    BY <1>5, <2>1, <2>2, <2>4, ServerSends
  <2>5. CASE server' = Goto(server, t, "done") /\ pipe' = pipe
    BY SMT, <1>0, <1>2, <1>5, <2>2, <2>5, ServerMove DEF Refused, Sending, Quiet
  <2> QED
    BY <2>3, <2>4, <2>5
<1>9. CASE SendMetadata(t)
  <2>1. [pipe[t] EXCEPT !.lines = 2] \in Pipe /\ [pipe[t] EXCEPT !.lines = 2].end = pipe[t].end
    BY <1>0, PipeType
  <2>2. /\ server[t] = "metadata" /\ pipe[t].end = "open"
        /\ UNCHANGED <<tx, client, recv, dst, mail, ledger, src>>
    BY <1>9 DEF SendMetadata, Control, Sending, diskVars
  <2>3. CASE Close(t)
    BY <1>6, <2>2, <2>3 DEF Close, Sending
  <2>4. CASE server' = Goto(server, t, "open") /\ pipe' = [pipe EXCEPT ![t] = [pipe[t] EXCEPT !.lines = 2]]
    BY <1>5, <2>1, <2>2, <2>4, ServerSends
  <2> QED
    BY <1>9, <2>3, <2>4 DEF SendMetadata
<1>10. CASE OpenFile(t)
  <2>1. /\ server[t] = "open" /\ pipe[t].end = "open"
        /\ UNCHANGED <<tx, client, recv, dst, mail, ledger>>
    BY <1>10 DEF OpenFile, Control, Sending, diskVars
  <2>2. CASE Close(t) /\ UNCHANGED src
    BY <1>6, <2>1, <2>2 DEF Close, Sending
  <2>3. ASSUME NEW i \in Inodes, src' = [src EXCEPT ![t] = i], server' = Goto(server, t, "copy"),
               UNCHANGED pipe
        PROVE  InOrderNext
    BY <1>0, <1>5, <2>1, <2>3, ServerSends
  <2>4. Name[F(t)] \in DOMAIN dir[T(t)] => dir[T(t)][Name[F(t)]] \in Inodes
    BY <1>1 DEF TypeOK
  <2> QED
    BY <1>10, <2>2, <2>3, <2>4 DEF OpenFile
<1>11. CASE SendChunk(t)
  <2>1. /\ server[t] = "copy" /\ pipe[t].end = "open"
        /\ UNCHANGED <<tx, client, recv, dst, mail, ledger, src>>
    BY <1>11 DEF SendChunk, Control, Sending, diskVars
  <2>2. CASE Close(t)
    BY <1>6, <2>1, <2>2 DEF Close, Sending
  <2>3. CASE ~Close(t)
    <3>1. server' = server /\ pipe' \in [Txs -> Pipe]
          /\ \E d : pipe' = [pipe EXCEPT ![t] = [pipe[t] EXCEPT !.data = d]]
      BY <1>11, <2>3, ServerTypes DEF SendChunk, ServerStep, TypeOK
    <3>2. /\ pipe' = [pipe EXCEPT ![t] = pipe'[t]] /\ pipe'[t] \in Pipe
          /\ pipe'[t].end = pipe[t].end
      BY SMT, <1>0, <3>1 DEF TypeOK, Pipe
    <3>3. server' = Goto(server, t, "copy") /\ src[t] \in Inodes
      BY SMT, <2>1, <3>1 DEF Goto, TypeOK, Control
    <3> QED
      BY SMT, <1>2, <1>5, <2>1, <3>2, <3>3, ServerMove DEF Refused, Sending, Quiet
  <2> QED
    BY <2>2, <2>3
<1>12. CASE ResetStream(t)
  <2>1. /\ pipe[t].end = "open" /\ server' = Goto(server, t, "done")
        /\ UNCHANGED <<tx, client, recv, dst, mail, ledger, src>>
        /\ pipe' = [pipe EXCEPT ![t] = [pipe[t] EXCEPT !.end = "reset"]]
    BY <1>12 DEF ResetStream, diskVars
  <2> QED
    BY <1>5, <2>1, ServerEnds
<1> QED
  BY <1>3, <1>4, <1>7, <1>8, <1>9, <1>10, <1>11, <1>12 DEF ServerStep

\* The end of a process: what ran there is over.
LEMMA DownOrder ==
    ASSUME IInv, NEW n \in Nodes, Down(n)
    PROVE  InOrderNext
<1> USE DEF IInv
<1> SUFFICES ASSUME NEW u \in Txs PROVE Control(u)' /\ Recorded(u)'
  BY DEF InOrderNext
<1>1. tx' = tx /\ ledger' = ledger /\ src' = src /\ dst' = dst /\ mail' \subseteq mail
  BY DEF Down, diskVars
<1>2. R(u)' = R(u) /\ T(u)' = T(u) /\ F(u)' = F(u)
  BY <1>1 DEF R, T, F
<1>3. /\ client'[u] = IF R(u) = n /\ client[u] \in {"send", "store", "ledger"}
                      THEN "error" ELSE client[u]
      /\ server'[u] = IF T(u) = n /\ server[u] # "none" THEN "done" ELSE server[u]
      /\ recv'[u] = IF R(u) = n /\ pipe[u].end # "none" /\ recv[u] # "done"
                    THEN "failed" ELSE recv[u]
  BY DEF Down
<1>4. pipe'[u].end = IF T(u) = n /\ pipe[u].end = "open" THEN "reset" ELSE pipe[u].end
  <2>1. pipe[u] \in Pipe /\ [pipe[u] EXCEPT !.end = "reset"].end = "reset"
    BY SMT DEF TypeOK, Pipe
  <2> QED
    BY <2>1 DEF Down
<1>5. Control(u)'
  BY <1>1, <1>2, <1>3, <1>4 DEF Control, Quiet, Sending
<1>6. \A k \in Nodes : Status(k, u)' = Status(k, u)
  BY <1>1, SameStatus
<1>7. Recorded(u)'
  <2>1. CASE client[u] = "none"
    <3>1. /\ client'[u] = "none" /\ \A k \in Nodes : Status(k, u) = "none"
          /\ \A m \in mail' : m.tx # u
      BY <1>1, <1>3, <2>1 DEF Recorded
    <3> QED
      BY <1>6, <3>1 DEF Recorded
  <2>2. CASE client[u] # "none"
    <3>1. client'[u] # "none" /\ tx'[u] = tx[u] /\ \A m \in mail' : m.tx = u => m \in mail
      BY <1>1, <1>3, <2>2
    <3>2. /\ Refused(u) => Refused(u)'
          /\ recv[u] = "done" => recv'[u] = "done"
          /\ pipe[u].end # "none" => pipe'[u].end # "none"
          /\ server'[u] \in {"none", "incoming"} => server[u] \in {"none", "incoming"}
      BY <1>3, <1>4 DEF Refused
    <3> QED
      BY <1>6, <2>2, <3>1, <3>2, RecordedStays
  <2> QED
    BY <2>1, <2>2
<1> QED
  BY <1>5, <1>7

\* The steps of receiveFile.
LEMMA ReceiverOrder ==
    ASSUME IInv, NEW t \in Txs, ReceiverStep(t)
    PROVE  InOrderNext
<1> USE DEF IInv
<1>1. recv[t] # "done" /\ pipe[t].end # "none"
  BY DEF ReceiverStep, ReadMetadata, CreateFile, ReceiveChunk, SaveOrUpdateFile, SetPath,
     RecordComplete, UpdateFileInDHT, SendMessageConfirmation, Control
<1>2. R(t) \in Nodes /\ T(t) \in Nodes /\ F(t) \in Files /\ R(t) # T(t) /\ client[t] # "none"
  BY <1>1, Live
<1>3. dst = [dst EXCEPT ![t] = dst[t]] /\ recv = [recv EXCEPT ![t] = recv[t]]
  BY DEF TypeOK
<1>4. ASSUME NEW l, l # "copy", recv' = Goto(recv, t, l),
             UNCHANGED <<tx, client, server, pipe, src, dst, mail, ledger>>
      PROVE  InOrderNext
  BY <1>1, <1>3, <1>4, ReceiverMove
<1>5. CASE ReadMetadata(t)
  <2>1. CASE Down(R(t))
    BY <1>2, <2>1, DownOrder
  <2>2. CASE ~Down(R(t))
    BY <1>4, <1>5, <2>2 DEF ReadMetadata, netVars, diskVars
  <2> QED
    BY <2>1, <2>2
<1>6. CASE CreateFile(t)
  <2>1. dst' = [dst EXCEPT ![t] = dst'[t]] /\ dst'[t] \in Inodes
    <3>1. \E i \in Inodes : dst' = [dst EXCEPT ![t] = i]
      BY <1>2, <1>6 DEF CreateFile, TypeOK, Inodes
    <3> QED
      BY SMT, <3>1 DEF TypeOK
  <2> QED
    BY <1>1, <1>6, <2>1, ReceiverMove DEF CreateFile, netVars
<1>7. CASE ReceiveChunk(t)
  <2>1. /\ recv' = Goto(recv, t, "failed") \/ recv' = Goto(recv, t, "copy")
        /\ dst[t] \in Inodes
    BY <1>3, <1>7 DEF ReceiveChunk, Goto, Control
  <2>2. UNCHANGED <<tx, client, server, pipe, src, dst, mail, ledger>>
    BY <1>7 DEF ReceiveChunk
  <2> QED
    BY <1>1, <1>3, <1>4, <2>1, <2>2, ReceiverMove
<1>8. CASE SaveOrUpdateFile(t)
  BY <1>4, <1>8 DEF SaveOrUpdateFile, netVars
<1>9. CASE SetPath(t)
  BY <1>4, <1>9 DEF SetPath, netVars, diskVars
<1>10. CASE UpdateFileInDHT(t)
  BY <1>4, <1>10 DEF UpdateFileInDHT, netVars, diskVars
<1>11. CASE RecordComplete(t)
  <2>1. /\ recv[t] = "ledger" /\ AddOrUpdateTransaction(R(t), t, "complete")
        /\ recv'[t] = "publish" /\ \A u \in Txs \ {t} : recv'[u] = recv[u]
        /\ UNCHANGED <<tx, client, server, pipe, src, dst, mail>>
    BY <1>11 DEF RecordComplete, Goto, netVars, TypeOK
  <2>2. ASSUME NEW u \in Txs \ {t} PROVE Control(u)' /\ Recorded(u)'
    BY <1>2, <2>1, OthersKept
  <2>3. Control(t)'
    BY <1>1, <2>1 DEF Control, R, T, F
  <2>4. Recorded(t)'
    <3>1. \A k \in Nodes : Status(k, t)' = IF k = R(t) THEN "complete" ELSE Status(k, t)
      BY SMT, <1>2, <2>1, LedgerUpdate
    <3>2. R(t)' = R(t) /\ T(t)' = T(t)
      BY <2>1 DEF R, T
    <3>3. Status(R(t), t)' = "complete" /\ Status(T(t), t)' = Status(T(t), t)
      BY <1>2, <3>1, <3>2 DEF Status
    <3>4. /\ Status(T(t), t) \in {"none", "pending"}
          /\ server[t] \notin {"none", "incoming"}
          /\ \A m \in mail : m.tx # t
      BY <1>1, <1>2, <2>1 DEF Recorded, Control, Refused, Quiet
    <3>5. \A k \in Nodes : Status(k, t)' # "none" => k \in {R(t)', T(t)'}
      BY <3>1, <3>2 DEF Recorded
    <3> QED
      BY <1>1, <1>2, <2>1, <3>3, <3>4, <3>5 DEF Recorded
  <2> QED
    BY <2>2, <2>3, <2>4 DEF InOrderNext
<1>12. CASE SendMessageConfirmation(t)
  <2>1. /\ recv[t] = "confirm" /\ recv'[t] = "done" /\ \A u \in Txs \ {t} : recv'[u] = recv[u]
        /\ UNCHANGED <<tx, client, server, pipe, src, dst, ledger>>
    BY <1>12 DEF SendMessageConfirmation, Goto, diskVars, TypeOK
  <2>2. \A m \in mail' : \/ m \in mail
                         \/ m.tx = t /\ m.to = T(t) /\ m.Status = "complete"
    BY SMT, <1>12 DEF SendMessageConfirmation
  <2>3. ASSUME NEW u \in Txs \ {t} PROVE Control(u)' /\ Recorded(u)'
    BY <1>2, <2>1, <2>2, OthersKept
  <2>4. Control(t)'
    BY <1>1, <2>1 DEF Control, R, T, F
  <2>5. Recorded(t)'
    <3>1. R(t)' = R(t) /\ T(t)' = T(t)
      BY <2>1 DEF R, T
    <3>2. \A k \in Nodes : Status(k, t)' = Status(k, t)
      BY <2>1, SameStatus
    <3>3. Status(T(t), t)' = Status(T(t), t) /\ Status(R(t), t)' = Status(R(t), t)
      BY <1>2, <3>1, <3>2 DEF Status
    <3>4. /\ Status(T(t), t) \in {"none", "pending"} /\ Status(R(t), t) # "declined"
          /\ server[t] \notin {"none", "incoming"} /\ \A m \in mail : m.tx # t
      BY <1>1, <1>2, <2>1 DEF Recorded, Control, Refused, Quiet
    <3>5. \A k \in Nodes : Status(k, t)' # "none" => k \in {R(t)', T(t)'}
      BY <3>1, <3>2 DEF Recorded
    <3> QED
      BY <1>1, <1>2, <2>1, <2>2, <3>1, <3>3, <3>4, <3>5 DEF Recorded
  <2> QED
    BY <2>3, <2>4, <2>5 DEF InOrderNext
<1> QED
  BY <1>5, <1>6, <1>7, <1>8, <1>9, <1>10, <1>11, <1>12 DEF ReceiverStep

\* The steps of the request handler.
LEMMA ClientOrder ==
    ASSUME IInv, NEW t \in Txs,
           ClientStep(t) \/ \E r, g \in Nodes, f \in Files : HandleDownloadRequest(t, r, g, f)
    PROVE  InOrderNext
<1> USE DEF IInv
<1>1. ASSUME NEW r \in Nodes, NEW g \in Nodes, NEW f \in Files, HandleDownloadRequest(t, r, g, f)
      PROVE  InOrderNext
  <2>1. /\ client[t] = "none" /\ client'[t] = "send" /\ r # g
        /\ tx'[t] = [RequesterID |-> r, TargetID |-> g, FileHash |-> f]
        /\ \A u \in Txs \ {t} : client'[u] = client[u] /\ tx'[u] = tx[u]
        /\ UNCHANGED <<server, recv, pipe, src, dst, mail, ledger>>
    BY SMT, <1>1 DEF HandleDownloadRequest, Goto, netVars, diskVars, TypeOK
  <2>2. ASSUME NEW u \in Txs \ {t} PROVE Control(u)' /\ Recorded(u)'
    BY <2>1, OthersKept
  <2>3. R(t)' = r /\ T(t)' = g /\ F(t)' = f
    BY SMT, <2>1 DEF R, T, F
  <2>4. server[t] = "none" /\ pipe[t].end = "none" /\ recv[t] = "none"
    BY <2>1 DEF Control, Quiet
  <2>5. Control(t)'
    BY <2>1, <2>3, <2>4 DEF Control, Sending
  <2>6. Recorded(t)'
    <3>1. (\A k \in Nodes : Status(k, t)' = "none") /\ \A m \in mail' : m.tx # t
      BY SMT, <2>1, SameStatus DEF Recorded
    <3>2. Status(T(t), t)' = "none" /\ Status(R(t), t)' = "none"
      BY <2>3, <3>1 DEF Status
    <3> QED
      BY <3>1, <3>2 DEF Recorded
  <2> QED
    BY <2>2, <2>5, <2>6 DEF InOrderNext
<1>2. CASE SendDownloadRequest(t)
  <2>1. /\ client[t] = "send" /\ client'[t] \in {"store", "error"}
        /\ server'[t] \in {server[t], "incoming"}
        /\ \A u \in Txs \ {t} : client'[u] = client[u] /\ server'[u] = server[u]
        /\ UNCHANGED <<tx, recv, pipe, src, dst, mail, ledger>>
    BY SMT, <1>2 DEF SendDownloadRequest, Goto, netVars, diskVars, TypeOK
  <2>2. R(t) \in Nodes /\ server[t] = "none" /\ pipe[t].end = "none" /\ recv[t] = "none"
    BY <2>1 DEF Control, Quiet
  <2>3. ASSUME NEW u \in Txs \ {t} PROVE Control(u)' /\ Recorded(u)'
    BY <2>1, <2>2, OthersKept
  <2>4. Control(t)'
    BY <2>1, <2>2 DEF Control, R, T, F, Quiet, Sending
  <2>5. Recorded(t)'
    <3>1. (\A k \in Nodes : Status(k, t)' = Status(k, t)) /\ ~Refused(t)
      BY <2>1, <2>2, SameStatus DEF Refused
    <3> QED
      BY <2>1, <2>2, <3>1, RecordedStays
  <2> QED
    BY <2>3, <2>4, <2>5 DEF InOrderNext
<1>3. CASE StorePending(t)
  <2>1. /\ client[t] = "store" /\ client'[t] = "ledger"
        /\ \A u \in Txs \ {t} : client'[u] = client[u]
        /\ UNCHANGED <<tx, server, recv, pipe, src, dst, mail, ledger>>
    BY <1>3 DEF StorePending, Goto, netVars, diskVars, TypeOK
  <2>2. R(t) \in Nodes
    BY <2>1 DEF Control
  <2>3. ASSUME NEW u \in Txs \ {t} PROVE Control(u)' /\ Recorded(u)'
    BY <2>1, <2>2, OthersKept
  <2>4. Control(t)'
    BY <2>1 DEF Control, R, T, F
  <2>5. Recorded(t)'
    <3>1. (\A k \in Nodes : Status(k, t)' = Status(k, t)) /\ Refused(t)' = Refused(t)
      BY <2>1, SameStatus DEF Refused
    <3> QED
      BY <2>1, <3>1, RecordedStays
  <2> QED
    BY <2>3, <2>4, <2>5 DEF InOrderNext
<1>4. CASE RecordRequest(t)
  <2>1. /\ client[t] = "ledger" /\ client'[t] = "ok"
        /\ AddOrUpdateTransaction(R(t), t, "pending")
        /\ \A u \in Txs \ {t} : client'[u] = client[u]
        /\ UNCHANGED <<tx, server, recv, pipe, src, dst, mail>>
    BY <1>4 DEF RecordRequest, Goto, netVars, TypeOK
  <2>2. R(t) \in Nodes /\ T(t) \in Nodes /\ R(t) # T(t)
    BY <2>1 DEF Control
  <2>3. ASSUME NEW u \in Txs \ {t} PROVE Control(u)' /\ Recorded(u)'
    BY <2>1, <2>2, OthersKept
  <2>4. Control(t)'
    BY <2>1 DEF Control, R, T, F
  <2>5. Recorded(t)'
    <3>1. \A k \in Nodes : Status(k, t)' = IF k = R(t) THEN "pending" ELSE Status(k, t)
      BY SMT, <2>1, <2>2, LedgerUpdate
    <3>2. R(t)' = R(t) /\ T(t)' = T(t) /\ Refused(t)' = Refused(t)
      BY <2>1 DEF R, T, Refused
    <3>3. Status(R(t), t)' = "pending" /\ Status(T(t), t)' = Status(T(t), t)
      BY <2>2, <3>1, <3>2 DEF Status
    <3>4. \A k \in Nodes : Status(k, t)' # "none" => k \in {R(t)', T(t)'}
      BY <3>1, <3>2 DEF Recorded
    <3>5. \A m \in mail' : m.tx = t =>
             \/ m.Status = "complete" /\ m.to = T(t)' /\ recv'[t] = "done"
             \/ m.Status = "declined" /\ m.to = R(t)' /\ Refused(t)'
      BY <2>1, <3>2 DEF Recorded
    <3> QED
      BY <2>1, <3>3, <3>4, <3>5 DEF Recorded
  <2> QED
    BY <2>3, <2>4, <2>5 DEF InOrderNext
<1> QED
  BY <1>1, <1>2, <1>3, <1>4 DEF ClientStep

\* A message on /requestResponse/p2p arrives.
LEMMA MailOrder ==
    ASSUME IInv, NEW m \in mail, ReceiveMessageConfirmation(m)
    PROVE  InOrderNext
<1> USE DEF IInv
<1> DEFINE t == m.tx
<1>1. m.to \in Nodes /\ t \in Txs
  BY DEF TypeOK
<1>2. /\ AddOrUpdateTransaction(m.to, t, m.Status) /\ mail' \subseteq mail
      /\ UNCHANGED <<tx, client, server, recv, pipe, src, dst>>
  BY DEF ReceiveMessageConfirmation
<1>3. ASSUME NEW u \in Txs \ {t} PROVE Control(u)' /\ Recorded(u)'
  BY <1>1, <1>2, OthersKept
<1>4. Control(t)'
  BY <1>1, <1>2 DEF Control, R, T, F
<1>5. /\ client[t] # "none"
      /\ \/ m.Status = "complete" /\ m.to = T(t) /\ recv[t] = "done"
         \/ m.Status = "declined" /\ m.to = R(t) /\ Refused(t)
  BY <1>1 DEF Recorded
<1> HIDE DEF t
<1>6. R(t) \in Nodes /\ T(t) \in Nodes /\ R(t) # T(t)
  BY <1>1, <1>5 DEF Control
<1>7. Recorded(t)'
  <2>1. \A k \in Nodes : Status(k, t)' = IF k = m.to THEN m.Status ELSE Status(k, t)
    BY SMT, <1>1, <1>2, LedgerUpdate
  <2>2. R(t)' = R(t) /\ T(t)' = T(t) /\ Refused(t)' = Refused(t)
    BY <1>2 DEF R, T, Refused
  <2>3. /\ Status(R(t), t)' = IF R(t) = m.to THEN m.Status ELSE Status(R(t), t)
        /\ Status(T(t), t)' = IF T(t) = m.to THEN m.Status ELSE Status(T(t), t)
    BY <1>6, <2>1, <2>2 DEF Status
  <2>4. \A k \in Nodes : Status(k, t)' # "none" => k \in {R(t)', T(t)'}
    BY <1>1, <1>5, <2>1, <2>2 DEF Recorded
  <2>5. \A x \in mail' : x.tx = t =>
           \/ x.Status = "complete" /\ x.to = T(t)' /\ recv'[t] = "done"
           \/ x.Status = "declined" /\ x.to = R(t)' /\ Refused(t)'
    BY <1>1, <1>2, <2>2 DEF Recorded
  <2>6. recv[t] = "done" => server[t] \notin {"none", "incoming"}
    BY <1>1 DEF Control, Quiet
  <2>7. /\ Status(T(t), t)' \in {"none", "pending", "complete"}
        /\ server'[t] \in {"none", "incoming"} => Status(T(t), t)' = "none"
        /\ Status(T(t), t)' = "complete" => recv'[t] = "done"
        /\ Status(R(t), t)' = "complete" => pipe'[t].end # "none"
        /\ Status(R(t), t)' = "declined" => Refused(t)'
    <3>1. CASE m.Status = "complete" /\ m.to = T(t) /\ recv[t] = "done"
      BY <1>1, <1>2, <1>5, <1>6, <2>2, <2>3, <2>6, <3>1 DEF Recorded
    <3>2. CASE m.Status = "declined" /\ m.to = R(t) /\ Refused(t)
      BY <1>1, <1>2, <1>5, <1>6, <2>2, <2>3, <3>2 DEF Recorded
    <3> QED
      BY <1>5, <3>1, <3>2
  <2> QED
    BY <1>2, <1>5, <2>4, <2>5, <2>7 DEF Recorded
<1> QED
  BY <1>3, <1>4, <1>7 DEF InOrderNext

\* Every step keeps the invariant.
LEMMA Inductive ==
    ASSUME IInv, [Next]_vars
    PROVE  IInv'
<1> USE DEF IInv
<1>1. TypeOK' /\ Shape'
  BY TypeStep
<1>2. InOrderNext
  <2>1. ASSUME UNCHANGED <<tx, client, server, recv, pipe, src, dst, mail, ledger>>
        PROVE  InOrderNext
    <3>1. \A u \in Txs : Kept(u)
      BY <2>1, SameStatus DEF Kept
    <3> QED
      BY <3>1, KeptInv DEF InOrderNext
  <2>2. ASSUME NEW n \in Nodes, NEW f \in Files, DeleteContent(n, f) \/ PublishFile(n, f)
        PROVE  InOrderNext
    BY <2>1, <2>2 DEF DeleteContent, PublishFile, netVars, diskVars
  <2>3. ASSUME NEW n \in Nodes, DeletePath(n) \/ DeleteEntry(n)
        PROVE  InOrderNext
    BY <2>1, <2>3 DEF DeletePath, DeleteEntry, netVars, diskVars
  <2>4. ASSUME NEW n \in Nodes, Crash(n)
        PROVE  InOrderNext
    BY <2>4, DownOrder DEF Crash
  <2>5. CASE UNCHANGED vars
    BY <2>1, <2>5 DEF vars, netVars, diskVars
  <2> QED
    BY <2>2, <2>3, <2>4, <2>5, ClientOrder, ServerOrder, ReceiverOrder, MailOrder DEF Next
<1> QED
  BY <1>1, <1>2 DEF InOrderNext

\* The type invariant of a download's goroutines, files and ledgers.
THEOREM TypeCorrect == Spec => []TypeOK
<1>1. IInv => TypeOK
  BY DEF IInv
<1> QED
  BY <1>1, InitInv, Inductive, PTL DEF Spec

\* With crashes, lost messages and deletions, a final status is only ever
\* overwritten by handleDownloadRequest's own late "pending".
THEOREM FinalStatusKept == Spec => FinalStatus
<1>1. ASSUME IInv, Next
      PROVE  \A n \in Nodes, t \in Txs :
                Status(n, t) \in {"complete", "declined"} /\ Status(n, t)' # Status(n, t) =>
                    n = R(t) /\ client[t] = "ledger" /\ client'[t] = "ok"
  <2> SUFFICES ASSUME NEW n \in Nodes, NEW t \in Txs, Status(n, t) \in {"complete", "declined"},
                      Status(n, t)' # Status(n, t)
               PROVE  n = R(t) /\ client[t] = "ledger" /\ client'[t] = "ok"
    OBVIOUS
  <2>0. TypeOK /\ Shape /\ \A u \in Txs : Control(u) /\ Recorded(u)
    BY <1>1 DEF IInv
  <2>1. ledger' # ledger
    BY SameStatus
  <2>2. ASSUME NEW k \in Nodes, NEW u \in Txs, NEW s, AddOrUpdateTransaction(k, u, s)
        PROVE  k = n /\ u = t /\ s # Status(n, t)
    BY SMT, <2>0, <2>2, LedgerUpdate
  <2>3. ASSUME NEW u \in Txs, ReceiveDownloadRequest(u) PROVE FALSE
    <3>1. /\ server[u] = "incoming" /\ client[u] # "none" /\ T(u) \in Nodes
          /\ AddOrUpdateTransaction(T(u), u, "pending")
      BY <1>1, <2>1, <2>3, Live DEF ReceiveDownloadRequest
    <3>2. Status(T(u), u) = "none"
      BY <2>0, <3>1 DEF Recorded
    <3> QED
      BY <2>2, <3>1, <3>2
  <2>4. ASSUME NEW u \in Txs, RecordComplete(u) PROVE FALSE
    <3>1. /\ recv[u] = "ledger" /\ client[u] # "none" /\ R(u) \in Nodes
          /\ AddOrUpdateTransaction(R(u), u, "complete")
      BY <1>1, <2>4, Live DEF RecordComplete
    <3>2. u = t /\ R(u) = n /\ Status(R(u), u) = "declined"
      BY <2>2, <3>1
    <3> QED
      BY <2>0, <3>1, <3>2 DEF Recorded, Refused, Control
  <2>5. ASSUME NEW m \in mail, ReceiveMessageConfirmation(m) PROVE FALSE
    <3>1. m.to \in Nodes /\ m.tx \in Txs /\ AddOrUpdateTransaction(m.to, m.tx, m.Status)
      BY <2>0, <2>5 DEF ReceiveMessageConfirmation, TypeOK
    <3>2. m.to = n /\ m.tx = t /\ m.Status # Status(n, t)
      BY <2>2, <3>1
    <3>3. /\ client[t] # "none"
          /\ \/ m.Status = "complete" /\ n = T(t)
             \/ m.Status = "declined" /\ n = R(t) /\ Refused(t)
      BY <2>0, <3>2 DEF Recorded
    <3> QED
      BY SMT, <2>0, <3>2, <3>3 DEF Recorded, Refused
  <2>6. ASSUME NEW u \in Txs, RecordRequest(u)
        PROVE  n = R(t) /\ client[t] = "ledger" /\ client'[t] = "ok"
    <3>1. /\ client[u] = "ledger" /\ client'[u] = "ok" /\ R(u) \in Nodes
          /\ AddOrUpdateTransaction(R(u), u, "pending")
      BY <1>1, <2>0, <2>6, Live DEF RecordRequest, Goto, TypeOK
    <3> QED
      BY <2>2, <3>1
  <2>7. ASSUME NEW u \in Txs,
               ServerStep(u) \/ ReceiverStep(u) \/ ClientStep(u) \/ ResetStream(u)
        PROVE  ReceiveDownloadRequest(u) \/ RecordComplete(u) \/ RecordRequest(u)
    BY <2>1, <2>7 DEF ServerStep, ReceiverStep, ClientStep, ResetStream, CheckPath, SendDecline,
       OpenFileStream, SendMetadata, OpenFile, SendChunk, ReadMetadata, Down, CreateFile,
       ReceiveChunk, SaveOrUpdateFile, SetPath, UpdateFileInDHT, SendMessageConfirmation,
       SendDownloadRequest, StorePending, diskVars
  <2>8. ASSUME NEW k \in Nodes, NEW f \in Files, DeleteContent(k, f) \/ PublishFile(k, f)
        PROVE  FALSE
    BY <2>1, <2>8 DEF DeleteContent, PublishFile, diskVars
  <2>9. ASSUME NEW k \in Nodes, DeletePath(k) \/ DeleteEntry(k) \/ Crash(k)
        PROVE  FALSE
    BY <2>1, <2>9 DEF DeletePath, DeleteEntry, Crash, Down, diskVars
  <2>10. ASSUME NEW u \in Txs, NEW r \in Nodes, NEW g \in Nodes, NEW f \in Files,
                HandleDownloadRequest(u, r, g, f)
         PROVE  FALSE
    BY <2>1, <2>10 DEF HandleDownloadRequest, diskVars
  <2> QED
    BY <1>1, <2>3, <2>4, <2>5, <2>6, <2>7, <2>8, <2>9, <2>10 DEF Next
<1> QED
  BY <1>1, InitInv, Inductive, PTL DEF Spec, FinalStatus

-----------------------------------------------------------------------------
(* What Download delivers.  What a transaction's stream and its file hold     *)
(* (Carried) is kept as long as `sound' holds; from that and from IInv follow *)
(* WholeIfSound and CompleteIsStored.                                       *)

Copies(f, k) == [i \in 1..k |-> f]

\* What the stream of a transaction holds, as long as sound.
Sent(t) ==
    LET sent == Len(pipe[t].data) IN
    /\ pipe[t].end # "reset" /\ pipe[t].data = Copies(F(t), sent) /\ sent <= Chunks
    /\ pipe[t].end = "none" => sent = 0
    /\ server[t] \in {"open", "copy"} \/ pipe[t].end = "eof" => pipe[t].lines = 2
    /\ pipe[t].end = "eof" => sent = Chunks
    /\ server[t] \in {"metadata", "open"} => Whole(T(t), F(t))
    /\ server[t] = "copy" => data[src[t]] = WholeFile(F(t))

\* What its inode holds, and what is known of it.
Received(t) ==
    /\ off[t] <= Len(pipe[t].data)
    /\ recv[t] \in {"none", "create"} => off[t] = 0 /\ data[t] = <<>>
    /\ recv[t] = "copy" => /\ dst[t] = t /\ data[t] = Copies(F(t), off[t])
                           /\ Name[F(t)] \in DOMAIN dir[R(t)] /\ dir[R(t)][Name[F(t)]] = t
    /\ recv[t] \in {"path", "ledger", "publish", "confirm", "done"} => F(t) \in entries[R(t)]
    /\ recv[t] \in {"ledger", "publish", "confirm", "done"} => F(t) \in FileHashToPath[R(t)]

Carried(t) == Sent(t) /\ Received(t)

\* Entries and paths lead to whole files.
Stored ==
    \A n \in Nodes : /\ deleting[n][1] = "no"
                     /\ \A f \in entries[n] \cup FileHashToPath[n] : Whole(n, f)

SoundInv == sound => Stored /\ \A t \in Txs : Carried(t)

-----------------------------------------------------------------------------
(* Contents. *)

\* A stream or a file of k chunks of f.
LEMMA CopiesFacts ==
    ASSUME NEW f, NEW k \in Nat
    PROVE  /\ Copies(f, k) \in Seq({f}) /\ Len(Copies(f, k)) = k
           /\ \A i \in 1..k : Copies(f, k)[i] = f
           /\ Append(Copies(f, k), f) = Copies(f, k + 1) /\ Len(Copies(f, k + 1)) = k + 1
           /\ Copies(f, 0) = <<>>
<1>1. Copies(f, k) \in Seq({f}) /\ Len(Copies(f, k)) = k /\ \A i \in 1..k : Copies(f, k)[i] = f
  BY SMT DEF Copies
<1>2. Append(Copies(f, k), f) = Copies(f, k + 1) /\ Len(Copies(f, k + 1)) = k + 1
  BY SMT DEF Copies
<1>3. Copies(f, 0) = <<>>
  BY SMT DEF Copies
<1> QED
  BY <1>1, <1>2, <1>3

\* The next chunk, written at the end.
LEMMA WriteNext ==
    ASSUME NEW f, NEW k \in Nat
    PROVE  WriteAt(Copies(f, k), k + 1, f) = Copies(f, k + 1)
<1>1. Len(Copies(f, k)) = k /\ \A i \in 1..k : Copies(f, k)[i] = f
  BY CopiesFacts
<1>2. WriteAt(Copies(f, k), k + 1, f) =
         [j \in 1..(k + 1) |-> IF j = k + 1 THEN f ELSE IF j <= k THEN Copies(f, k)[j] ELSE Hole]
  BY SMT, <1>1 DEF WriteAt
<1>3. \A j \in 1..(k + 1) :
         (IF j = k + 1 THEN f ELSE IF j <= k THEN Copies(f, k)[j] ELSE Hole) = f
  BY SMT, <1>1
<1> QED
  BY <1>2, <1>3 DEF Copies

\* Nothing that a node stores is lost, and no whole file is written to.
Grows ==
    /\ \A n \in Nodes :
          /\ \A m \in DOMAIN dir[n] : m \in DOMAIN dir'[n] /\ dir'[n][m] = dir[n][m]
          /\ entries[n] \subseteq entries'[n] /\ FileHashToPath[n] \subseteq FileHashToPath'[n]
    /\ \A i \in Inodes : \A f \in Files : data[i] = WholeFile(f) => data'[i] = WholeFile(f)

\* A file a node has whole stays so.
LEMMA WholeStays ==
    ASSUME IInv, Grows, NEW n \in Nodes, NEW f \in Files, Whole(n, f)
    PROVE  Name[f] \in DOMAIN dir'[n] /\ data'[dir'[n][Name[f]]] = WholeFile(f)
<1>1. Name[f] \in DOMAIN dir[n] /\ data[dir[n][Name[f]]] = WholeFile(f)
  BY DEF Whole
<1>2. dir[n][Name[f]] \in Inodes
  BY <1>1 DEF IInv, TypeOK
<1>3. Name[f] \in DOMAIN dir'[n] /\ dir'[n][Name[f]] = dir[n][Name[f]]
  BY <1>1 DEF Grows
<1>4. data'[dir[n][Name[f]]] = WholeFile(f)
  BY <1>1, <1>2 DEF Grows
<1> QED
  BY <1>3, <1>4

\* The ranges in which receiveFile's steps need and add nothing.
Before == {"none", "create"}
After  == {"ledger", "publish", "confirm", "done"}

\* A stream stays as it is while nobody writes to it.
LEMMA SentStays ==
    ASSUME IInv, Grows, NEW t \in Txs, Sent(t),
           tx'[t] = tx[t], pipe'[t] = pipe[t], src'[t] = src[t],
           server'[t] = server[t] \/ server'[t] \notin Sending
    PROVE  Sent(t)'
<1>1. /\ TypeOK /\ Control(t)
      /\ server[t] # "none" => T(t) \in Nodes /\ F(t) \in Files
  <2>1. TypeOK /\ Control(t)
    BY DEF IInv
  <2> QED
    BY <2>1, Live
<1>2. T(t)' = T(t) /\ F(t)' = F(t)
  BY DEF T, F
<1>3. server'[t] \in {"metadata", "open"} =>
         /\ Name[F(t)] \in DOMAIN dir'[T(t)]
         /\ data'[dir'[T(t)][Name[F(t)]]] = WholeFile(F(t))
  BY <1>1, WholeStays DEF Sent, Sending
<1>4. server'[t] = "copy" => data'[src[t]] = WholeFile(F(t))
  BY <1>1 DEF Sent, Control, Grows, Sending
<1>5. server'[t] \in {"open", "copy"} \/ pipe[t].end = "eof" => pipe[t].lines = 2
  BY DEF Sent, Sending
<1> QED
  BY <1>2, <1>3, <1>4, <1>5 DEF Sent, Whole, WholeFile

\* So does the file while receiveFile does not write to it, its stream longer
\* or not.
LEMMA ReceivedStays ==
    ASSUME IInv, Grows, NEW t \in Txs, Received(t),
           tx'[t] = tx[t], dst'[t] = dst[t], off'[t] = off[t], data'[t] = data[t],
           off[t] <= Len(pipe'[t].data),
           \/ recv'[t] = recv[t]
           \/ recv[t] \in Before /\ recv'[t] \in Before
           \/ recv[t] \in After /\ recv'[t] \in After
    PROVE  Received(t)'
<1>1. recv[t] # "none" => R(t) \in Nodes /\ F(t) \in Files
  BY Live
<1>2. R(t)' = R(t) /\ F(t)' = F(t)
  BY DEF R, F
<1>3. recv'[t] = "copy" => Name[F(t)] \in DOMAIN dir'[R(t)] /\ dir'[R(t)][Name[F(t)]] = t
  BY <1>1 DEF Received, Grows, Before, After
<1>4. recv'[t] \in {"path", "ledger", "publish", "confirm", "done"} => F(t) \in entries'[R(t)]
  BY <1>1 DEF Received, Grows, Before, After
<1>5. recv'[t] \in {"ledger", "publish", "confirm", "done"} => F(t) \in FileHashToPath'[R(t)]
  BY <1>1 DEF Received, Grows, Before, After
<1>6. /\ recv'[t] \in {"none", "create"} => off[t] = 0 /\ data[t] = <<>>
      /\ recv'[t] = "copy" => dst[t] = t /\ data[t] = Copies(F(t), off[t])
  BY DEF Received, Before, After
<1> QED
  BY <1>2, <1>3, <1>4, <1>5, <1>6 DEF Received

\* No other transaction has a part in the step of t.
Apart(t) ==
    \A u \in Txs \ {t} :
        /\ tx'[u] = tx[u] /\ server'[u] = server[u] /\ recv'[u] = recv[u]
        /\ pipe'[u] = pipe[u] /\ src'[u] = src[u] /\ dst'[u] = dst[u]
        /\ off'[u] = off[u] /\ data'[u] = data[u]

\* What the other transactions have carried stays so.
LEMMA OthersCarried ==
    ASSUME IInv, Grows, NEW t, Apart(t), \A u \in Txs : Carried(u)
    PROVE  \A u \in Txs \ {t} : Carried(u)'
BY SMT, SentStays, ReceivedStays DEF Apart, Carried, Received

\* Entries and paths lead to whole files as long as new ones do.
LEMMA StoredStays ==
    ASSUME IInv, Grows, Stored, deleting' = deleting,
           \A n \in Nodes : \A f \in entries'[n] \cup FileHashToPath'[n] :
              \/ f \in entries[n] \cup FileHashToPath[n]
              \/ f \in Files /\ Whole(n, f)
    PROVE  Stored'
<1>1. \A n \in Nodes : \A f \in entries[n] \cup FileHashToPath[n] : f \in Files
  BY DEF IInv, TypeOK
<1>2. \A n \in Nodes : \A f \in entries'[n] \cup FileHashToPath'[n] : f \in Files /\ Whole(n, f)
  BY <1>1 DEF Stored
<1>3. \A n \in Nodes : \A f \in entries'[n] \cup FileHashToPath'[n] :
         Name[f] \in DOMAIN dir'[n] /\ data'[dir'[n][Name[f]]] = WholeFile(f)
  BY <1>2, WholeStays
<1> QED
  BY <1>3 DEF Stored, Whole

\* Files that no step touches.
LEMMA SameFiles ==
    ASSUME UNCHANGED <<dir, data, entries, FileHashToPath>>
    PROVE  Grows
BY DEF Grows

\* What a step that keeps `sound' has to show.
SoundNext == Stored' /\ \A t \in Txs : Carried(t)'

\* Entries and paths that no step touches.
LEMMA SameStored ==
    ASSUME Stored, UNCHANGED <<dir, data, entries, FileHashToPath, deleting>>
    PROVE  Stored'
BY DEF Stored, Whole, WholeFile

\* The functions that steps update at one transaction.
LEMMA Domains ==
    ASSUME IInv
    PROVE  /\ DOMAIN tx = Txs /\ DOMAIN client = Txs /\ DOMAIN server = Txs /\ DOMAIN recv = Txs
           /\ DOMAIN pipe = Txs /\ DOMAIN src = Txs /\ DOMAIN dst = Txs /\ DOMAIN off = Txs
           /\ DOMAIN data = Inodes /\ Txs \subseteq Inodes
           /\ DOMAIN dir = Nodes /\ DOMAIN entries = Nodes /\ DOMAIN FileHashToPath = Nodes
<1>1. TypeOK /\ Shape
  BY DEF IInv
<1> QED
  BY <1>1 DEF TypeOK, Shape, Inodes

\* The request handler: no stream, and no file of the transaction, before it.
LEMMA ClientSound ==
    ASSUME IInv, Stored, \A u \in Txs : Carried(u), NEW t \in Txs, sound',
           ClientStep(t) \/ \E r, g \in Nodes, f \in Files : HandleDownloadRequest(t, r, g, f)
    PROVE  SoundNext
<1>0. TypeOK /\ Control(t) /\ Carried(t)
  BY DEF IInv
<1>1. /\ UNCHANGED <<recv, pipe, off, src, dst, dir, data, entries, FileHashToPath, deleting>>
      /\ \A u \in Txs \ {t} : tx'[u] = tx[u] /\ server'[u] = server[u]
      /\ server'[t] = server[t] \/ server'[t] \notin Sending
      /\ tx'[t] = tx[t] \/ (client[t] = "none" /\ server'[t] = server[t])
  <2>1. CASE SendDownloadRequest(t)
    BY <2>1, Domains DEF SendDownloadRequest, Goto, Sending, netVars, diskVars, memVars
  <2>2. CASE StorePending(t)
    BY <2>2 DEF StorePending, netVars, diskVars
  <2>3. CASE RecordRequest(t)
    BY <2>3 DEF RecordRequest, netVars, memVars
  <2>4. CASE \E r, g \in Nodes, f \in Files : HandleDownloadRequest(t, r, g, f)
    BY <2>4, Domains DEF HandleDownloadRequest, netVars, diskVars, memVars
  <2> QED
    BY <2>1, <2>2, <2>3, <2>4 DEF ClientStep
<1>2. Grows /\ Apart(t) /\ Stored'
  BY <1>1, SameFiles, SameStored DEF Apart
<1>3. ASSUME tx'[t] = tx[t] PROVE Carried(t)'
  <2>1. off[t] <= Len(pipe'[t].data)
    BY <1>0, <1>1 DEF Carried, Received
  <2> QED
    BY <1>0, <1>1, <1>2, <1>3, <2>1, SentStays, ReceivedStays DEF Carried
<1>4. ASSUME client[t] = "none", server'[t] = server[t] PROVE Carried(t)'
  <2>1. server[t] = "none" /\ pipe[t].end = "none" /\ recv[t] = "none"
    BY <1>0, <1>4 DEF Control, Quiet
  <2>2. Len(pipe[t].data) = 0 /\ off[t] = 0 /\ data[t] = <<>> /\ pipe[t].data \in Seq(Files \cup {Hole})
    BY <1>0, <2>1 DEF Carried, Sent, Received, TypeOK, Pipe
  <2>3. pipe[t].data = <<>> /\ 0 <= Chunks
    BY SMT, <2>2, ConstantsAssumption
  <2>4. \A f : Copies(f, 0) = <<>>
    BY CopiesFacts
  <2>5. pipe[t].data = Copies(F(t)', Len(pipe[t].data))
    BY <2>2, <2>3, <2>4
  <2> QED
    BY <1>1, <1>4, <2>1, <2>2, <2>3, <2>5 DEF Carried, Sent, Received
<1> QED
  BY <1>1, <1>2, <1>3, <1>4, OthersCarried DEF SoundNext

\* The target: what it opens is the whole file, and it sends its chunks in order.
LEMMA ServerSound ==
    ASSUME IInv, Stored, \A u \in Txs : Carried(u), NEW t \in Txs, sound, sound', ServerStep(t)
    PROVE  SoundNext
<1>0. /\ TypeOK /\ Control(t) /\ Sent(t) /\ Received(t) /\ off[t] \in Nat /\ pipe[t] \in Pipe
      /\ ~Fault
  BY DEF IInv, Carried, TypeOK, Fault
<1>1. server[t] # "none"
  BY DEF ServerStep, ReceiveDownloadRequest, CheckPath, SendDecline, OpenFileStream, SendMetadata,
     OpenFile, SendChunk
<1>2. T(t) \in Nodes /\ F(t) \in Files
  BY <1>1, Live
<1>3. /\ UNCHANGED <<tx, recv, off, dst, dir, data, entries, FileHashToPath, deleting>>
      /\ \A u \in Txs \ {t} : server'[u] = server[u] /\ pipe'[u] = pipe[u] /\ src'[u] = src[u]
  BY Domains DEF ServerStep, ReceiveDownloadRequest, CheckPath, SendDecline, OpenFileStream,
     SendMetadata, OpenFile, SendChunk, Close, Goto, netVars, diskVars, memVars
<1>4. Grows /\ Apart(t) /\ Stored'
  BY <1>3, SameFiles, SameStored DEF Apart
<1>5. tx'[t] = tx[t] /\ T(t)' = T(t) /\ F(t)' = F(t)
  BY <1>3 DEF T, F
<1>6. ASSUME off[t] <= Len(pipe'[t].data), Sent(t)'
      PROVE  SoundNext
  <2>1. Received(t)'
    BY <1>0, <1>3, <1>4, <1>5, <1>6, ReceivedStays
  <2> QED
    BY <1>4, <1>6, <2>1, OthersCarried DEF SoundNext, Carried
<1>7. ASSUME pipe'[t] = pipe[t], src'[t] = src[t], server'[t] \notin Sending
      PROVE  SoundNext
  BY <1>0, <1>4, <1>5, <1>6, <1>7, SentStays DEF Received
<1>8. CASE ReceiveDownloadRequest(t) \/ CheckPath(t) \/ SendDecline(t)
  <2>1. pipe' = pipe /\ src' = src /\ server'[t] \notin Sending
    BY <1>8, Domains DEF ReceiveDownloadRequest, CheckPath, SendDecline, Goto, Sending, netVars
  <2> QED
    BY <1>7, <2>1
<1>9. CASE OpenFileStream(t)
  <2>1. CASE pipe'[t] = [lines |-> 1, data |-> <<>>, end |-> "open"]
    <3>1. /\ server[t] = "stat" /\ server'[t] = "metadata"
          /\ src' = src /\ F(t) \in FileHashToPath[T(t)]
      BY SMT, <1>0, <1>9, <2>1, Domains DEF OpenFileStream, Goto, Control, Quiet
    <3>2. pipe[t].end = "none" /\ off[t] = 0
      BY <1>0, <3>1 DEF Control, Quiet, Received
    <3>3. Whole(T(t), F(t))
      BY <1>2, <3>1 DEF Stored
    <3>4. Whole(T(t), F(t))'
      BY <1>3, <1>5, <3>3 DEF Whole, WholeFile
    <3>5. /\ pipe'[t].lines = 1 /\ pipe'[t].data = <<>> /\ pipe'[t].end = "open"
          /\ Len(pipe'[t].data) = 0 /\ Copies(F(t), 0) = <<>> /\ 0 <= Chunks
      <4>1. \A f : Copies(f, 0) = <<>>
        BY CopiesFacts
      <4>2. Len(<<>>) = 0 /\ 0 <= Chunks
        BY SMT, ConstantsAssumption
      <4> QED
        BY SMT, <2>1, <4>1, <4>2
    <3>6. Sent(t)'
      BY <1>5, <3>1, <3>4, <3>5 DEF Sent
    <3> QED
      BY SMT, <1>6, <3>2, <3>5, <3>6
  <2>2. CASE pipe' = pipe /\ src' = src /\ server'[t] \notin Sending
    BY <1>7, <2>2
  <2>3. CASE pipe' = [pipe EXCEPT ![t] = [lines |-> 1, data |-> <<>>, end |-> "open"]]
    BY <2>1, <2>3, Domains
  <2> QED
    BY <1>0, <1>9, <2>2, <2>3, Domains DEF OpenFileStream, Goto, Sending
<1>10. CASE SendMetadata(t)
  <2>1. /\ server[t] = "metadata" /\ server'[t] = "open" /\ src' = src
        /\ pipe'[t] = [pipe[t] EXCEPT !.lines = 2]
    BY <1>0, <1>10, Domains DEF SendMetadata, Goto
  <2>2. pipe'[t].lines = 2 /\ pipe'[t].data = pipe[t].data /\ pipe'[t].end = pipe[t].end
    BY <1>0, <2>1 DEF Pipe
  <2>3. Whole(T(t), F(t))
    BY <1>0, <2>1 DEF Sent
  <2>4. Whole(T(t), F(t))'
    BY <1>3, <1>5, <2>3 DEF Whole, WholeFile
  <2>5. Sent(t)'
    BY <1>0, <1>5, <2>1, <2>2, <2>4 DEF Sent
  <2> QED
    BY <1>0, <1>6, <2>2, <2>5 DEF Received
<1>11. CASE OpenFile(t)
  <2>1. server[t] = "open" /\ Whole(T(t), F(t))
    BY <1>0, <1>11 DEF OpenFile, Sent
  <2>2. /\ server'[t] = "copy" /\ src'[t] = dir[T(t)][Name[F(t)]] /\ pipe' = pipe
    BY <1>11, <2>1, Domains DEF OpenFile, Whole, Goto
  <2>3. data'[src'[t]] = WholeFile(F(t))
    BY <1>3, <2>1, <2>2 DEF Whole
  <2>4. Sent(t)'
    BY <1>0, <1>5, <2>1, <2>2, <2>3 DEF Sent, WholeFile
  <2> QED
    BY <1>0, <1>6, <2>2, <2>4 DEF Received
<1>12. CASE SendChunk(t)
  <2> DEFINE sent == Len(pipe[t].data)
  <2>1. /\ server[t] = "copy" /\ data[src[t]] = WholeFile(F(t)) /\ pipe[t].lines = 2
        /\ pipe[t].end = "open" /\ pipe[t].data = Copies(F(t), sent) /\ sent <= Chunks
    BY <1>0, <1>12 DEF SendChunk, Sent, Control, Sending
  <2>2. sent \in Nat /\ Len(data[src[t]]) = Chunks /\ \A i \in 1..Chunks : data[src[t]][i] = F(t)
    <3>1. sent \in Nat
      BY SMT, <1>0 DEF Pipe
    <3>2. /\ Len(WholeFile(F(t))) = Chunks
          /\ \A i \in 1..Chunks : WholeFile(F(t))[i] = F(t)
      BY SMT, ConstantsAssumption DEF WholeFile
    <3> QED
      BY <2>1, <3>1, <3>2
  <2>3. CASE /\ sent < Chunks /\ server' = server /\ src' = src
             /\ pipe' = [pipe EXCEPT ![t] = [@ EXCEPT !.data = Append(pipe[t].data, data[src[t]][sent + 1])]]
    <3>1. /\ pipe'[t].data = Append(Copies(F(t), sent), F(t))
          /\ pipe'[t].lines = 2 /\ pipe'[t].end = "open"
      BY SMT, <1>0, <2>1, <2>2, <2>3, Domains DEF Pipe
    <3>2. pipe'[t].data = Copies(F(t), sent + 1) /\ Len(pipe'[t].data) = sent + 1
      <4> HIDE DEF sent
      <4>1. sent \in Nat
        BY <2>2
      <4>2. \A f : Append(Copies(f, sent), f) = Copies(f, sent + 1) /\ Len(Copies(f, sent + 1)) = sent + 1
        BY <4>1, CopiesFacts
      <4> QED
        BY <3>1, <4>2
    <3>3. data'[src'[t]] = WholeFile(F(t)) /\ server'[t] = "copy" /\ sent + 1 <= Chunks
      BY SMT, <1>3, <2>1, <2>2, <2>3, ConstantsAssumption
    <3>6. Sent(t)'
      BY <1>5, <3>1, <3>2, <3>3 DEF Sent, WholeFile
    <3>4. off[t] <= Len(pipe'[t].data)
      BY SMT, <1>0, <2>2, <3>2 DEF Received
    <3> QED
      BY <1>6, <3>4, <3>6
  <2>4. CASE sent >= Chunks /\ Close(t) /\ src' = src
    <3>1. /\ server'[t] = "done" /\ pipe'[t].end = "eof"
          /\ pipe'[t].data = pipe[t].data /\ pipe'[t].lines = 2
      BY <1>0, <2>1, <2>4, Domains DEF Close, Goto, Pipe
    <3>2. sent = Chunks
      BY SMT, <2>1, <2>2, <2>4, ConstantsAssumption
    <3>3. Sent(t)'
      BY <1>5, <2>1, <3>1, <3>2 DEF Sent
    <3> QED
      BY <1>0, <1>6, <3>1, <3>3 DEF Received
  <2> QED
    BY <1>0, <1>12, <2>2, <2>3, <2>4 DEF SendChunk
<1> QED
  BY <1>8, <1>9, <1>10, <1>11, <1>12 DEF ServerStep

\* receiveFile: a new file, filled in order, becomes an entry and a path when
\* the stream has ended.
LEMMA ReceiverSound ==
    ASSUME IInv, Stored, \A u \in Txs : Carried(u), NEW t \in Txs, sound, sound', ReceiverStep(t)
    PROVE  SoundNext
<1>0. /\ Control(t) /\ Sent(t) /\ Received(t) /\ off[t] \in Nat /\ pipe[t] \in Pipe
      /\ pipe[t].end \in {"none", "open", "eof", "reset"} /\ pipe[t].lines \in 0..2
      /\ ~Fault
  BY DEF IInv, Carried, TypeOK, Fault, Pipe
<1>1. R(t) \in Nodes /\ F(t) \in Files
  BY Live DEF ReceiverStep, ReadMetadata, CreateFile, ReceiveChunk, SaveOrUpdateFile, SetPath,
     RecordComplete, UpdateFileInDHT, SendMessageConfirmation
<1>2. ASSUME UNCHANGED <<tx, server, pipe, src, dst, off, dir, data, entries, FileHashToPath, deleting>>,
             \A u \in Txs \ {t} : recv'[u] = recv[u],
             \/ recv[t] \in Before /\ recv'[t] \in Before
             \/ recv[t] \in After /\ recv'[t] \in After
      PROVE  SoundNext
  <2>1. Grows /\ Apart(t) /\ Stored'
    BY <1>2, SameFiles, SameStored DEF Apart
  <2>2. Sent(t)' /\ Received(t)'
    BY <1>0, <1>2, <2>1, SentStays, ReceivedStays DEF Received
  <2> QED
    BY <2>1, <2>2, OthersCarried DEF SoundNext, Carried
<1>3. CASE ReadMetadata(t)
  <2>1. ~(pipe[t].lines < 2 /\ pipe[t].end \in {"eof", "reset"})
    <3>1. pipe[t].end # "reset" /\ (pipe[t].end = "eof" => pipe[t].lines = 2)
      BY <1>0 DEF Sent
    <3> QED
      BY SMT, <3>1
  <2>2. recv[t] = "none" /\ recv' = Goto(recv, t, "create")
    BY <1>3, <2>1 DEF ReadMetadata
  <2>3. UNCHANGED <<tx, server, pipe, src, dst, off, dir, data, entries, FileHashToPath, deleting>>
    BY <1>3, <2>1 DEF ReadMetadata, netVars, diskVars, memVars
  <2> QED
    BY <1>2, <2>2, <2>3, Domains DEF Goto, Before
<1>4. CASE RecordComplete(t) \/ UpdateFileInDHT(t) \/ SendMessageConfirmation(t)
  <2>1. /\ recv[t] \in After
        /\ \E l \in After : recv' = Goto(recv, t, l)
    BY <1>0, <1>4 DEF RecordComplete, UpdateFileInDHT, SendMessageConfirmation, After
  <2>2. UNCHANGED <<tx, server, pipe, src, dst, off, dir, data, entries, FileHashToPath, deleting>>
    BY <1>4 DEF RecordComplete, UpdateFileInDHT, SendMessageConfirmation, netVars, diskVars, memVars
  <2> QED
    BY <1>2, <2>1, <2>2, Domains DEF Goto, After
<1>5. CASE CreateFile(t)
  <2>1. recv[t] = "create" /\ off[t] = 0 /\ data[t] = <<>>
    BY <1>0, <1>5 DEF CreateFile, Received
  <2>2. Name[F(t)] \notin DOMAIN dir[R(t)]
    BY <1>5 DEF CreateFile
  <2>3. /\ dst' = [dst EXCEPT ![t] = t] /\ data' = [data EXCEPT ![t] = <<>>]
        /\ dir' = [dir EXCEPT ![R(t)] = MapPut(@, Name[F(t)], t)]
        /\ recv' = Goto(recv, t, "copy")
        /\ UNCHANGED <<tx, server, pipe, off, src, entries, FileHashToPath, deleting>>
    BY <1>5, <2>2 DEF CreateFile, netVars, memVars
  <2>4. data' = data
    <3>1. data \in [Inodes -> Seq(Files \cup {Hole})] /\ t \in Inodes
      BY DEF IInv, TypeOK, Inodes
    <3> QED
      BY <2>1, <2>3, <3>1
  <2>5. /\ \A n \in Nodes : \A m \in DOMAIN dir[n] : m \in DOMAIN dir'[n] /\ dir'[n][m] = dir[n][m]
        /\ Name[F(t)] \in DOMAIN dir'[R(t)] /\ dir'[R(t)][Name[F(t)]] = t
    BY <1>1, <2>2, <2>3, Domains DEF MapPut
  <2>6. Grows
    BY <2>3, <2>4, <2>5 DEF Grows
  <2>7. Apart(t) /\ dst'[t] = t /\ recv'[t] = "copy" /\ server'[t] = server[t]
    BY <2>3, <2>4, Domains DEF Apart, Goto
  <2>8. Stored'
    BY <2>3, <2>6, StoredStays
  <2>9. Sent(t)'
    BY <1>0, <2>3, <2>6, SentStays
  <2>10. Copies(F(t)', 0) = <<>> /\ R(t)' = R(t) /\ F(t)' = F(t)
    <3>1. \A f : Copies(f, 0) = <<>>
      BY CopiesFacts
    <3> QED
      BY <2>3, <3>1 DEF R, F
  <2>11. off[t] <= Len(pipe'[t].data)
    BY <1>0, <2>3 DEF Received
  <2>12. Received(t)'
    BY <2>1, <2>3, <2>4, <2>5, <2>7, <2>10, <2>11 DEF Received
  <2> QED
    BY <2>6, <2>7, <2>8, <2>9, <2>12, OthersCarried DEF SoundNext, Carried
<1>6. CASE ReceiveChunk(t)
  <2>1. /\ recv[t] = "copy" /\ dst[t] = t /\ data[t] = Copies(F(t), off[t])
        /\ Name[F(t)] \in DOMAIN dir[R(t)] /\ dir[R(t)][Name[F(t)]] = t
        /\ pipe[t].end # "reset" /\ pipe[t].data = Copies(F(t), Len(pipe[t].data))
        /\ Len(pipe[t].data) <= Chunks
    BY <1>0, <1>6 DEF ReceiveChunk, Received, Sent
  <2>2. /\ off[t] < Len(pipe[t].data) /\ recv' = recv
        /\ data' = [data EXCEPT ![t] = WriteAt(data[t], off[t] + 1, pipe[t].data[off[t] + 1])]
        /\ off' = [off EXCEPT ![t] = off[t] + 1]
        /\ UNCHANGED <<tx, server, pipe, src, dst, dir, entries, FileHashToPath, deleting>>
    BY <1>0, <1>6, <2>1 DEF ReceiveChunk, memVars
  <2>3. /\ Len(pipe[t].data) \in Nat /\ off[t] \in Nat /\ Chunks \in Nat
        /\ off[t] < Len(pipe[t].data) /\ Len(pipe[t].data) <= Chunks
    <3>1. pipe[t].data \in Seq(Files \cup {Hole}) /\ off[t] \in Nat
      BY <1>0 DEF Pipe
    <3> QED
      BY SMT, <2>1, <2>2, <3>1, ConstantsAssumption
  <2>4. pipe[t].data[off[t] + 1] = F(t)
    <3>1. off[t] + 1 \in 1..Len(pipe[t].data)
      BY SMT, <2>3
    <3> QED
      BY <2>1, <3>1 DEF Copies
  <2>5. data'[t] = Copies(F(t), off[t] + 1) /\ off'[t] = off[t] + 1
    BY <1>0, <2>1, <2>2, <2>4, WriteNext, Domains
  <2>6. \A f \in Files : data[t] # WholeFile(f)
    <3>1. Len(data[t]) = off[t]
      <4>1. \A f : \A k \in Nat : Len(Copies(f, k)) = k
        BY CopiesFacts
      <4> QED
        BY <1>0, <2>1, <4>1
    <3>2. \A f \in Files : Len(WholeFile(f)) = Chunks
      BY SMT, ConstantsAssumption DEF WholeFile
    <3>3. off[t] # Chunks
      BY SMT, <2>3
    <3> QED
      BY <3>1, <3>2, <3>3
  <2>7. \A i \in Inodes \ {t} : data'[i] = data[i]
    BY <2>2, Domains
  <2>8. Grows
    BY <2>2, <2>6, <2>7 DEF Grows
  <2>9. Apart(t) /\ Stored'
    BY <2>2, <2>7, <2>8, StoredStays, Domains DEF Apart
  <2>10. Sent(t)'
    BY <1>0, <2>2, <2>8, SentStays
  <2>11. R(t)' = R(t) /\ F(t)' = F(t) /\ off[t] + 1 <= Len(pipe[t].data)
    <3>1. off[t] + 1 <= Len(pipe[t].data)
      BY SMT, <2>3
    <3> QED
      BY <2>2, <3>1 DEF R, F
  <2>12. Received(t)'
    BY <2>1, <2>2, <2>5, <2>11 DEF Received
  <2> QED
    BY <2>8, <2>9, <2>10, <2>12, OthersCarried DEF SoundNext, Carried
<1>7. CASE SaveOrUpdateFile(t)
  <2>1. /\ recv[t] = "copy" /\ off[t] = Chunks /\ data[t] = Copies(F(t), Chunks)
        /\ Name[F(t)] \in DOMAIN dir[R(t)] /\ dir[R(t)][Name[F(t)]] = t
    BY <1>0, <1>7 DEF SaveOrUpdateFile, Received, Sent
  <2>2. Whole(R(t), F(t))
    BY <2>1 DEF Whole, WholeFile, Copies
  <2>3. /\ entries' = [entries EXCEPT ![R(t)] = @ \cup {F(t)}]
        /\ recv' = Goto(recv, t, "path")
        /\ UNCHANGED <<tx, server, pipe, off, src, dst, dir, data, FileHashToPath, deleting>>
    BY <1>0, <1>7 DEF SaveOrUpdateFile, netVars, memVars
  <2>4. /\ F(t) \in entries'[R(t)] /\ recv'[t] = "path"
        /\ \A n \in Nodes : entries[n] \subseteq entries'[n]
        /\ \A n \in Nodes : \A f \in entries'[n] : f \in entries[n] \/ (n = R(t) /\ f = F(t))
    BY <1>1, <2>3, Domains DEF Goto
  <2>5. Grows /\ Apart(t)
    BY <2>3, <2>4, Domains DEF Grows, Apart, Goto
  <2>6. Stored'
    BY <1>1, <2>2, <2>3, <2>4, <2>5, StoredStays
  <2>7. Sent(t)'
    BY <1>0, <2>3, <2>5, SentStays
  <2>8. Received(t)'
    BY <1>0, <2>3, <2>4 DEF Received, R, F
  <2> QED
    BY <2>5, <2>6, <2>7, <2>8, OthersCarried DEF SoundNext, Carried
<1>8. CASE SetPath(t)
  <2>1. recv[t] = "path" /\ F(t) \in entries[R(t)]
    BY <1>0, <1>8 DEF SetPath, Received
  <2>2. Whole(R(t), F(t))
    BY <1>1, <2>1 DEF Stored
  <2>3. /\ FileHashToPath' = [FileHashToPath EXCEPT ![R(t)] = @ \cup {F(t)}]
        /\ recv' = Goto(recv, t, "ledger")
        /\ UNCHANGED <<tx, server, pipe, off, src, dst, dir, data, entries, deleting>>
    BY <1>8 DEF SetPath, netVars, diskVars
  <2>4. /\ F(t) \in FileHashToPath'[R(t)] /\ recv'[t] = "ledger"
        /\ \A n \in Nodes : FileHashToPath[n] \subseteq FileHashToPath'[n]
        /\ \A n \in Nodes : \A f \in FileHashToPath'[n] :
              f \in FileHashToPath[n] \/ (n = R(t) /\ f = F(t))
    BY <1>1, <2>3, Domains DEF Goto
  <2>5. Grows /\ Apart(t)
    BY <2>3, <2>4, Domains DEF Grows, Apart, Goto
  <2>6. Stored'
    BY <1>1, <2>2, <2>3, <2>4, <2>5, StoredStays
  <2>7. Sent(t)'
    BY <1>0, <2>3, <2>5, SentStays
  <2>8. Received(t)'
    BY <1>0, <2>1, <2>3, <2>4 DEF Received, R, F
  <2> QED
    BY <2>5, <2>6, <2>7, <2>8, OthersCarried DEF SoundNext, Carried
<1> QED
  BY <1>3, <1>4, <1>5, <1>6, <1>7, <1>8 DEF ReceiverStep

\* Uploads are whole files under names of their own.
LEMMA InitSound ==
    ASSUME Init
    PROVE  SoundInv
<1>1. ASSUME NEW t \in Txs PROVE Carried(t)
  <2>1. /\ pipe[t] = NoPipe /\ server[t] = "none" /\ recv[t] = "none" /\ off[t] = 0
        /\ data[t] = <<>>
    BY InodesDiffer DEF Init, Inodes
  <2>2. pipe[t].lines = 0 /\ pipe[t].data = <<>> /\ pipe[t].end = "none" /\ Len(pipe[t].data) = 0
    BY SMT, <2>1 DEF NoPipe
  <2>3. \A f : Copies(f, 0) = <<>>
    BY CopiesFacts
  <2>4. 0 <= Chunks
    BY SMT, ConstantsAssumption
  <2>5. Sent(t)
    BY <2>1, <2>2, <2>3, <2>4 DEF Sent
  <2>6. Received(t)
    BY SMT, <2>1, <2>2 DEF Received
  <2> QED
    BY <2>5, <2>6 DEF Carried
<1>2. ASSUME NEW n \in Nodes PROVE deleting[n][1] = "no"
  BY DEF Init
<1>3. ASSUME NEW n \in Nodes, NEW f \in entries[n] \cup FileHashToPath[n]
      PROVE  Whole(n, f)
  <2>1. f \in Files /\ Uploader[f] = n
    BY <1>3 DEF Init
  <2>2. (CHOOSE g \in Files : Name[g] = Name[f] /\ Uploader[g] = n) = f
    BY <2>1, ConstantsAssumption
  <2>3. Name[f] \in DOMAIN dir[n] /\ dir[n][Name[f]] = f
    BY <2>1, <2>2 DEF Init
  <2>4. data[f] = WholeFile(f)
    BY <2>1 DEF Init, Inodes
  <2> QED
    BY <2>3, <2>4 DEF Whole
<1> QED
  BY <1>1, <1>2, <1>3 DEF SoundInv, Stored

\* `sound' never becomes true again.
LEMMA SoundBefore ==
    ASSUME [Next]_vars, sound'
    PROVE  sound
<1>1. ~Fault /\ (NoFault => sound) /\ (UNCHANGED <<faults, sound>> => sound)
  BY DEF Fault, NoFault
<1>2. ASSUME NEW t \in Txs, ClientStep(t) PROVE sound
  BY <1>1, <1>2 DEF ClientStep, SendDownloadRequest, StorePending, RecordRequest
<1>3. ASSUME NEW t \in Txs, ServerStep(t) PROVE sound
  BY <1>1, <1>3 DEF ServerStep, ReceiveDownloadRequest, CheckPath, SendDecline, OpenFileStream,
     SendMetadata, OpenFile, SendChunk
<1>4. ASSUME NEW t \in Txs, ReceiverStep(t) PROVE sound
  BY <1>1, <1>4 DEF ReceiverStep, ReadMetadata, CreateFile, ReceiveChunk, SaveOrUpdateFile,
     SetPath, RecordComplete, UpdateFileInDHT, SendMessageConfirmation
<1>5. ASSUME NEW t \in Txs, NEW r \in Nodes, NEW g \in Nodes, NEW f \in Files,
             HandleDownloadRequest(t, r, g, f)
      PROVE  sound
  BY <1>5 DEF HandleDownloadRequest
<1>6. ASSUME NEW m \in mail, ReceiveMessageConfirmation(m) PROVE sound
  BY <1>6 DEF ReceiveMessageConfirmation
<1>7. ASSUME NEW n \in Nodes, NEW f \in Files, DeleteContent(n, f) \/ PublishFile(n, f) PROVE sound
  BY <1>7 DEF DeleteContent, PublishFile
<1>8. ASSUME NEW n \in Nodes, DeletePath(n) \/ DeleteEntry(n) \/ Crash(n) PROVE sound
  BY <1>1, <1>8 DEF DeletePath, DeleteEntry, Crash
<1>9. ASSUME NEW t \in Txs, ResetStream(t) PROVE sound
  BY <1>1, <1>9 DEF ResetStream
<1>10. CASE UNCHANGED vars
  BY <1>10 DEF vars
<1> QED
  BY <1>2, <1>3, <1>4, <1>5, <1>6, <1>7, <1>8, <1>9, <1>10 DEF Next

\* Every step that leaves `sound' true keeps what is stored and carried.
LEMMA SoundStep ==
    ASSUME IInv, SoundInv, [Next]_vars
    PROVE  SoundInv'
<1> SUFFICES ASSUME sound' PROVE SoundNext
  BY DEF SoundInv, SoundNext
<1>1. sound
  BY SoundBefore
<1>2. Stored /\ \A t \in Txs : Carried(t)
  BY <1>1 DEF SoundInv
<1>3. ASSUME UNCHANGED <<tx, server, recv, pipe, src, dst, off, dir, data, entries, deleting>>,
             \A n \in Nodes : /\ FileHashToPath[n] \subseteq FileHashToPath'[n]
                              /\ FileHashToPath'[n] \subseteq FileHashToPath[n] \cup entries[n]
      PROVE  SoundNext
  <2>1. Grows
    BY <1>3 DEF Grows
  <2>2. Stored'
    BY <1>2, <1>3, <2>1, StoredStays
  <2>3. ASSUME NEW t \in Txs PROVE Carried(t)'
    BY <1>2, <1>3, <2>1, SentStays, ReceivedStays DEF Carried, Received
  <2> QED
    BY <2>2, <2>3 DEF SoundNext
<1>4. ASSUME NEW m \in mail, ReceiveMessageConfirmation(m) PROVE SoundNext
  BY <1>3, <1>4 DEF ReceiveMessageConfirmation, memVars
<1>5. ASSUME NEW n \in Nodes, NEW f \in Files, DeleteContent(n, f) PROVE SoundNext
  BY <1>5 DEF DeleteContent
<1>6. ASSUME NEW n \in Nodes, NEW f \in Files, PublishFile(n, f) PROVE SoundNext
  <2>1. \A k \in Nodes : /\ FileHashToPath[k] \subseteq FileHashToPath'[k]
                         /\ FileHashToPath'[k] \subseteq FileHashToPath[k] \cup entries[k]
    BY <1>6, Domains DEF PublishFile
  <2> QED
    BY <1>3, <1>6, <2>1 DEF PublishFile, netVars, diskVars
<1>7. ASSUME NEW n \in Nodes, DeletePath(n) \/ DeleteEntry(n) PROVE SoundNext
  BY <1>2, <1>7 DEF DeletePath, DeleteEntry, Stored
<1>8. ASSUME NEW n \in Nodes, Crash(n) PROVE SoundNext
  BY <1>8 DEF Crash, Fault
<1>9. ASSUME NEW t \in Txs, ResetStream(t) PROVE SoundNext
  BY <1>9 DEF ResetStream, Fault
<1>10. CASE UNCHANGED vars
  BY <1>3, <1>10 DEF vars, netVars, diskVars, memVars
<1> QED
  BY <1>1, <1>2, <1>4, <1>5, <1>6, <1>7, <1>8, <1>9, <1>10, ClientSound, ServerSound,
     ReceiverSound DEF Next

-----------------------------------------------------------------------------
(* What downloads deliver. *)

\* Both invariants, in every state.
LEMMA Invariance == Spec => [](IInv /\ SoundInv)
<1>1. Init => IInv /\ SoundInv
  BY InitInv, InitSound
<1>2. IInv /\ SoundInv /\ [Next]_vars => (IInv /\ SoundInv)'
  BY Inductive, SoundStep
<1> QED
  BY <1>1, <1>2, PTL DEF Spec

\* For any nodes, files and transactions: what FileHashToPath leads to is the
\* whole file of that hash, as long as nothing failed, was deleted or truncated.
THEOREM WholeAlways == Spec => []WholeIfSound
<1>1. IInv /\ SoundInv => WholeIfSound
  BY DEF SoundInv, Stored, WholeIfSound
<1> QED
  BY <1>1, Invariance, PTL

\* For any nodes, files and transactions: a target's "complete" means that the
\* requester has stored the file and can serve it.
THEOREM CompleteAlwaysStored == Spec => []CompleteIsStored
<1>1. ASSUME IInv, SoundInv PROVE CompleteIsStored
  <2> SUFFICES ASSUME NEW t \in Txs, sound, client[t] # "none", Status(T(t), t) = "complete"
               PROVE  F(t) \in entries[R(t)] \cap FileHashToPath[R(t)]
    BY DEF CompleteIsStored
  <2>1. recv[t] = "done"
    BY <1>1 DEF IInv, Recorded
  <2>2. Received(t)
    BY <1>1 DEF SoundInv, Carried
  <2> QED
    BY <2>1, <2>2 DEF Received
<1> QED
  BY <1>1, Invariance, PTL
=============================================================================
