-------------------------- MODULE FileRecordProofs --------------------------
(***************************************************************************)
(* Proofs about FileRecord for every set of peers, handlers and replicas   *)
(* and every bound.                                                        *)
(***************************************************************************)
EXTENDS FileRecord, FiniteSetTheorems, TLAPS

-----------------------------------------------------------------------------
(* The updates of a record. *)

\* A new record is a record, and nobody has voted in it.
LEMMA NewRecordType == NewRecord \in DHTMetadata /\ Consistent(NewRecord)
<1>1. NewRecord \in DHTMetadata
  <2>1. NewRecord.Providers \in [{} -> Provider]
    BY DEF NewRecord
  <2>2. {} \in SUBSET Peers
    OBVIOUS
  <2>3. NewRecord.Providers \in UNION {[S -> Provider] : S \in SUBSET Peers}
    BY <2>1, <2>2
  <2> QED BY <2>3 DEF NewRecord, DHTMetadata
<1>2. \A v : Voters(NewRecord, v) = {}
  BY DEF NewRecord, Voters
<1>3. Cardinality({}) = 0
  BY FS_EmptySet
<1>4. /\ NewRecord.NumRaters = 0 /\ NewRecord.Rating = 0
      /\ NewRecord.Upvote = 0 /\ NewRecord.Downvote = 0
  BY DEF NewRecord
<1> QED BY <1>1, <1>2, <1>3, <1>4 DEF Consistent

\* SetProvider keeps records records, and changes nobody's vote.
LEMMA SetProviderFacts ==
  ASSUME NEW m \in DHTMetadata, NEW p \in Peers, NEW file \in FileMetadata
  PROVE  LET n == SetProvider(m, p, file) IN
         /\ n \in DHTMetadata
         /\ DOMAIN n.Providers = DOMAIN m.Providers \cup {p}
         /\ n.Rating = m.Rating /\ n.NumRaters = m.NumRaters
         /\ n.Upvote = m.Upvote /\ n.Downvote = m.Downvote
         /\ \A v \in VoteTypes : Voters(n, v) = Voters(m, v)
<1> DEFINE n == SetProvider(m, p, file)
           S == DOMAIN m.Providers
           rating == IF p \in S THEN m.Providers[p].Rating ELSE NoVote
           e == [IsActive |-> file.IsPublished, Rating |-> rating]
           f == MapPut(m.Providers, p, e)
<1>1. S \subseteq Peers /\ m.Providers \in [S -> Provider]
  BY DEF DHTMetadata
<1>2. e \in Provider
  BY <1>1 DEF Provider, FileMetadata, Ratings
<1>3. f \in [S \cup {p} -> Provider]
  BY <1>1, <1>2 DEF MapPut
<1>4. /\ n.Rating = m.Rating /\ n.NumRaters = m.NumRaters
      /\ n.Upvote = m.Upvote /\ n.Downvote = m.Downvote
      /\ n.Providers = f
      /\ n = [Rating |-> m.Rating, NumRaters |-> m.NumRaters, Upvote |-> m.Upvote,
              Downvote |-> m.Downvote, Providers |-> f]
  BY DEF SetProvider
<1>5. f \in UNION {[T -> Provider] : T \in SUBSET Peers}
  <2>1. S \cup {p} \in SUBSET Peers
    BY <1>1
  <2> QED BY <1>3, <2>1
<1>6. m.Rating \in Int /\ m.NumRaters \in Int /\ m.Upvote \in Int /\ m.Downvote \in Int
  BY DEF DHTMetadata
<1> HIDE DEF f, n
<1>7. n \in DHTMetadata
  BY <1>4, <1>5, <1>6 DEF DHTMetadata
<1>8. ASSUME NEW v \in VoteTypes PROVE Voters(n, v) = Voters(m, v)
  <2>1. \A q \in S \cup {p} : f[q] = IF q = p THEN e ELSE m.Providers[q]
    BY DEF f, MapPut
  <2>2. DOMAIN f = S \cup {p}
    BY <1>3
  <2>3. v # NoVote /\ e.Rating = rating
    BY DEF VoteTypes, NoVote
  <2> QED BY <2>1, <2>2, <2>3, <1>4 DEF Voters
<1> QED BY <1>3, <1>4, <1>7, <1>8 DEF n

\* Counting the vote of a provider without one adds it to its voters.
LEMMA CountVoteFacts ==
  ASSUME NEW m \in DHTMetadata, NEW p \in Peers, MayVote(m, p), NEW v \in VoteTypes,
         NEW up \in Int, NEW down \in Int
  PROVE  LET n == CountVote(m, p, v, up, down) IN
         /\ n \in DHTMetadata
         /\ n.Rating = m.Rating + Weight(v) /\ n.NumRaters = m.NumRaters + 1
         /\ n.Upvote = m.Upvote + up /\ n.Downvote = m.Downvote + down
         /\ \A w \in VoteTypes : Voters(n, w) = IF w = v THEN Voters(m, w) \cup {p}
                                                         ELSE Voters(m, w)
         /\ p \notin Voters(m, v)
<1> DEFINE n == CountVote(m, p, v, up, down)
           S == DOMAIN m.Providers
           e == [IsActive |-> m.Providers[p].IsActive, Rating |-> v]
           f == MapPut(m.Providers, p, e)
<1>1. S \subseteq Peers /\ m.Providers \in [S -> Provider] /\ p \in S
  BY DEF DHTMetadata, MayVote
<1>2. e \in Provider /\ e.Rating = v
  BY <1>1 DEF Provider, Ratings
<1>3. f \in [S -> Provider]
  BY <1>1, <1>2 DEF MapPut
<1>4. /\ n.Rating = m.Rating + Weight(v) /\ n.NumRaters = m.NumRaters + 1
      /\ n.Upvote = m.Upvote + up /\ n.Downvote = m.Downvote + down
      /\ n.Providers = f
      /\ n = [Rating |-> m.Rating + Weight(v), NumRaters |-> m.NumRaters + 1,
              Upvote |-> m.Upvote + up, Downvote |-> m.Downvote + down, Providers |-> f]
  BY DEF CountVote
<1>5. f \in UNION {[T -> Provider] : T \in SUBSET Peers}
  BY <1>1, <1>3
<1>6. /\ m.Rating + Weight(v) \in Int /\ m.NumRaters + 1 \in Int
      /\ m.Upvote + up \in Int /\ m.Downvote + down \in Int
  BY DEF DHTMetadata, Weight
<1> HIDE DEF f, n
<1>7. n \in DHTMetadata
  BY <1>4, <1>5, <1>6 DEF DHTMetadata
<1>8. m.Providers[p].Rating = NoVote /\ NoVote \notin VoteTypes
  BY DEF MayVote, NoVote, VoteTypes
<1>9. ASSUME NEW w \in VoteTypes
      PROVE  Voters(n, w) = IF w = v THEN Voters(m, w) \cup {p} ELSE Voters(m, w)
  <2>1. \A q \in S : f[q] = IF q = p THEN e ELSE m.Providers[q]
    BY <1>1 DEF f, MapPut
  <2>2. DOMAIN f = S
    BY <1>3
  <2> QED BY <1>1, <1>2, <1>4, <1>8, <2>1, <2>2 DEF Voters
<1>10. p \notin Voters(m, v)
  BY <1>8 DEF Voters
<1> QED BY <1>4, <1>7, <1>9, <1>10 DEF n

\* The voters of a record are finite in number.
LEMMA VotersFinite ==
  ASSUME NEW m \in DHTMetadata, NEW v
  PROVE  IsFiniteSet(Voters(m, v)) /\ Cardinality(Voters(m, v)) \in Nat
<1>1. Voters(m, v) \in SUBSET Peers
  BY DEF Voters, DHTMetadata
<1> QED BY <1>1, FS_Subset, FS_CardinalityType, ConstantsAssumption

\* Counting a vote keeps a consistent record consistent, provided the count
\* of its kind grows by one at most and the other does not.
LEMMA CountVoteConsistent ==
  ASSUME NEW m \in DHTMetadata, NEW p \in Peers, MayVote(m, p), NEW v \in VoteTypes,
         NEW up \in 0..1, NEW down \in 0..1,
         v # "upvote" => up = 0, v # "downvote" => down = 0, Consistent(m)
  PROVE  Consistent(CountVote(m, p, v, up, down))
<1> DEFINE n == CountVote(m, p, v, up, down)
           card(r, w) == Cardinality(Voters(r, w))
<1>1. /\ n.Rating = m.Rating + Weight(v) /\ n.NumRaters = m.NumRaters + 1
      /\ n.Upvote = m.Upvote + up /\ n.Downvote = m.Downvote + down
      /\ p \notin Voters(m, v)
      /\ \A w \in VoteTypes : Voters(n, w) = IF w = v THEN Voters(m, w) \cup {p}
                                                       ELSE Voters(m, w)
  BY CountVoteFacts
<1> HIDE DEF n
<1>2. \A w : IsFiniteSet(Voters(m, w)) /\ card(m, w) \in Nat
  BY VotersFinite
<1>3. card(n, v) = card(m, v) + 1
  BY <1>1, <1>2, FS_AddElement
<1>4. \A w \in VoteTypes : w # v => card(n, w) = card(m, w)
  BY <1>1
<1>5. m.Rating \in Int /\ m.NumRaters \in Int /\ m.Upvote \in Int /\ m.Downvote \in Int
  BY DEF DHTMetadata
<1>6. card(m, "upvote") \in Nat /\ card(m, "downvote") \in Nat
  BY <1>2
<1>7. /\ card(n, "upvote") = card(m, "upvote") + (IF v = "upvote" THEN 1 ELSE 0)
      /\ card(n, "downvote") = card(m, "downvote") + (IF v = "downvote" THEN 1 ELSE 0)
  BY <1>3, <1>4, <1>6 DEF VoteTypes
<1>8. /\ m.NumRaters = card(m, "upvote") + card(m, "downvote")
      /\ m.Rating = card(m, "upvote") - card(m, "downvote")
      /\ m.Upvote \in 0..card(m, "upvote") /\ m.Downvote \in 0..card(m, "downvote")
  BY DEF Consistent
<1> HIDE DEF card
<1>9. /\ n.NumRaters = card(n, "upvote") + card(n, "downvote")
      /\ n.Rating = card(n, "upvote") - card(n, "downvote")
      /\ n.Upvote \in 0..card(n, "upvote") /\ n.Downvote \in 0..card(n, "downvote")
  <2>1. CASE v = "upvote"
    BY <2>1, <1>1, <1>5, <1>6, <1>7, <1>8 DEF Weight
  <2>2. CASE v = "downvote"
    BY <2>2, <1>1, <1>5, <1>6, <1>7, <1>8 DEF Weight
  <2> QED BY <2>1, <2>2 DEF VoteTypes
<1> QED BY <1>9 DEF Consistent, card, n

\* votingHelper yields a record, consistent if the one it read was.
LEMMA VotingHelperFacts ==
  ASSUME NEW m \in DHTMetadata, NEW p \in Peers, MayVote(m, p), NEW v \in VoteTypes
  PROVE  /\ VotingHelper(m, p, v) \in DHTMetadata
         /\ Consistent(m) => Consistent(VotingHelper(m, p, v))
<1> DEFINE up == IF v = "upvote" THEN 1 ELSE 0
           down == IF v = "downvote" THEN 1 ELSE 0
<1>1. VotingHelper(m, p, v) = CountVote(m, p, v, up, down)
  BY DEF VotingHelper
<1>2. up \in 0..1 /\ down \in 0..1 /\ (v # "upvote" => up = 0) /\ (v # "downvote" => down = 0)
  OBVIOUS
<1>3. up \in Int /\ down \in Int
  OBVIOUS
<1> HIDE DEF up, down
<1> QED BY <1>1, <1>2, <1>3, CountVoteFacts, CountVoteConsistent

\* UpdateFileInDHT yields a record, consistent if the one it read was.
LEMMA UpdateFacts ==
  ASSUME NEW m \in DHTMetadata, NEW p \in Peers, NEW file \in FileMetadata
  PROVE  /\ UpdateFileInDHT(m, p, file) \in DHTMetadata
         /\ Consistent(m) => Consistent(UpdateFileInDHT(m, p, file))
<1> DEFINE l == SetProvider(m, p, file)
           u == UpdateFileInDHT(m, p, file)
<1>1. /\ l \in DHTMetadata
      /\ l.Rating = m.Rating /\ l.NumRaters = m.NumRaters
      /\ l.Upvote = m.Upvote /\ l.Downvote = m.Downvote
      /\ \A v \in VoteTypes : Voters(l, v) = Voters(m, v)
  BY SetProviderFacts
<1>2. u = IF MayVote(l, p) /\ file.VoteType \in VoteTypes
          THEN CountVote(l, p, file.VoteType, 0, 0) ELSE l
  BY DEF UpdateFileInDHT
<1> HIDE DEF l
<1>3. Consistent(m) => Consistent(l)
  BY <1>1 DEF Consistent, VoteTypes
<1>4. CASE MayVote(l, p) /\ file.VoteType \in VoteTypes
  BY <1>1, <1>2, <1>3, <1>4, CountVoteFacts, CountVoteConsistent
<1>5. CASE ~(MayVote(l, p) /\ file.VoteType \in VoteTypes)
  BY <1>1, <1>2, <1>3, <1>5
<1> QED BY <1>4, <1>5

-----------------------------------------------------------------------------
(* Type correctness. *)

\* The default request body is a FileMetadata.
LEMMA NoFileType == NoFile \in FileMetadata
BY DEF NoFile, FileMetadata, Ratings

\* A store writes one record at some replicas and leaves the others alone.
LEMMA StoreAtFacts ==
  ASSUME TypeOK, NEW m \in DHTMetadata, NEW S \in SUBSET Replicas, StoreAt(S, m)
  PROVE  /\ DOMAIN store' \subseteq Replicas /\ store' \in [DOMAIN store' -> DHTMetadata]
         /\ GetValue' \subseteq GetValue \cup {m}
<1>1. /\ DOMAIN store \subseteq Replicas
      /\ \A r \in DOMAIN store : store[r] \in DHTMetadata
  BY DEF TypeOK
<1>2. store' = [r \in DOMAIN store \cup S |-> IF r \in S THEN m ELSE store[r]]
  BY DEF StoreAt
<1> QED BY <1>1, <1>2 DEF GetValue

\* So does a PutValue, whether it succeeds or not.
LEMMA PutValueFacts ==
  ASSUME TypeOK, NEW m \in DHTMetadata, NEW ok \in BOOLEAN, PutValue(m, ok)
  PROVE  /\ DOMAIN store' \subseteq Replicas /\ store' \in [DOMAIN store' -> DHTMetadata]
         /\ GetValue' \subseteq GetValue \cup {m}
         /\ faults' \in Nat
<1>1. PICK S \in SUBSET Replicas : StoreAt(S, m)
  BY DEF PutValue
<1>2. faults' \in Nat
  BY DEF PutValue, Fault, TypeOK
<1> QED BY <1>1, <1>2, StoreAtFacts

\* What GetValue returns is a record.
LEMMA GetValueType == ASSUME TypeOK PROVE GetValue \subseteq DHTMetadata
BY DEF TypeOK, GetValue

\* Every variable keeps its type: in particular what any interleaving of
\* handlers stores in the DHT is a DHTMetadata with providers among the peers.
THEOREM TypeCorrect == Spec => []TypeOK
<1>1. Init => TypeOK
  BY NewRecordType DEF Init, TypeOK, NoFile, FileMetadata, Ratings
<1>2. TypeOK /\ [Next]_vars => TypeOK'
  <2> SUFFICES ASSUME TypeOK, [Next]_vars PROVE TypeOK'
    OBVIOUS
  <2> USE ConstantsAssumption DEF TypeOK
  <2>1. ASSUME NEW h \in Handlers, SaveOrUpdateFile(h) PROVE TypeOK'
    BY <2>1, NewRecordType, NoFileType DEF SaveOrUpdateFile, MapPut, Goto, Answer, Fault
  <2>2. ASSUME NEW h \in Handlers, SetPath(h) PROVE TypeOK'
    BY <2>2, NewRecordType, NoFileType DEF SetPath, Goto
  <2>3. ASSUME NEW h \in Handlers, GetForUpdate(h) PROVE TypeOK'
    <3>1. PICK m \in GetValue \cup {NewRecord} :
            snap' = [snap EXCEPT ![h] = UpdateFileInDHT(m, Owner[h], req[h])]
      BY <2>3 DEF GetForUpdate
    <3>2. UpdateFileInDHT(m, Owner[h], req[h]) \in DHTMetadata
      BY GetValueType, NewRecordType, UpdateFacts
    <3>3. faults' \in Nat /\ clean' \in BOOLEAN
      BY <2>3 DEF GetForUpdate, GetFails, Fault, OpenWindow
    <3> QED BY <2>3, <3>1, <3>2, <3>3 DEF GetForUpdate, Goto
  <2>4. ASSUME NEW h \in Handlers, PutUpdate(h) PROVE TypeOK'
    <3>1. /\ DOMAIN store' \subseteq Replicas /\ store' \in [DOMAIN store' -> DHTMetadata]
          /\ faults' \in Nat
      BY <2>4, PutValueFacts DEF PutUpdate
    <3>2. UpdateFileInDHT(serial, Owner[h], req[h]) \in DHTMetadata
      BY UpdateFacts
    <3>3. serial' \in DHTMetadata
      BY <2>4, <3>2 DEF PutUpdate
    <3>4. republished' \in [Peers -> SUBSET Kinds]
      <4>1. Owner[h] \in Peers /\ Kind(Owner[h]) \in Kinds
        BY DEF Kind, Kinds
      <4>2. \/ republished' = republished
            \/ republished' = [republished EXCEPT ![Owner[h]] = @ \cup {Kind(Owner[h])}]
        BY <2>4 DEF PutUpdate, Republished
      <4> QED BY <4>1, <4>2
    <3>5. req' \in [Handlers -> FileMetadata] /\ snap' \in [Handlers -> DHTMetadata]
      BY <2>4, NewRecordType, NoFileType, ZenonT(60) DEF PutUpdate, Answer
    <3>6. \E l \in {"cloud", "path", "ok", "error"} : pc' = [pc EXCEPT ![h] = l]
      BY <2>4 DEF PutUpdate, Answer, Goto
    <3>7. \A g \in Handlers : g # h => req'[g] = req[g]
      BY <2>4 DEF PutUpdate, Answer
    <3> QED BY <2>4, <3>1, <3>3, <3>4, <3>5, <3>6, <3>7 DEF PutUpdate
  <2>5. ASSUME NEW h \in Handlers, SendCloudNodeFiles(h) PROVE TypeOK'
    BY <2>5, NewRecordType, NoFileType DEF SendCloudNodeFiles, Answer, Goto, Republished, Kind, Kinds, Fault
  <2>6. ASSUME NEW h \in Handlers, PutVote(h) PROVE TypeOK'
    <3>1. /\ DOMAIN store' \subseteq Replicas /\ store' \in [DOMAIN store' -> DHTMetadata]
          /\ faults' \in Nat
      BY <2>6, PutValueFacts DEF PutVote
    <3>2. serial' \in DHTMetadata
      <4>1. Owner[h] \in Peers /\ req[h].VoteType \in VoteTypes
        BY <2>6 DEF PutVote
      <4>2. MayVote(serial, Owner[h]) =>
              VotingHelper(serial, Owner[h], req[h].VoteType) \in DHTMetadata
        BY <4>1, VotingHelperFacts
      <4>3. serial' \in {serial} \/ (MayVote(serial, Owner[h]) /\
              serial' = VotingHelper(serial, Owner[h], req[h].VoteType))
        BY <2>6 DEF PutVote
      <4> QED BY <4>2, <4>3
    <3> QED BY <2>6, <3>1, <3>2 DEF PutVote, Goto
  <2>7. ASSUME NEW h \in Handlers, UpdateRatingLocally(h) PROVE TypeOK'
    <3>1. local' \in [DOMAIN local -> FileMetadata] /\ DOMAIN local' = DOMAIN local
      BY <2>7 DEF UpdateRatingLocally, FileMetadata
    <3>2. faults' \in Nat
      BY <2>7 DEF UpdateRatingLocally, Fault
    <3> QED BY <2>7, <3>1, <3>2 DEF UpdateRatingLocally, Goto
  <2>8. ASSUME NEW h \in Handlers, DeleteFileFromJSON(h) PROVE TypeOK'
    <3>1. DOMAIN local' \subseteq Peers /\ local' \in [DOMAIN local' -> FileMetadata]
      BY <2>8 DEF DeleteFileFromJSON
    <3>2. faults' \in Nat
      BY <2>8 DEF DeleteFileFromJSON, Fault
    <3>3. \E l \in {"remove", "error"} : pc' = [pc EXCEPT ![h] = l]
      BY <2>8 DEF DeleteFileFromJSON, Goto
    <3> QED BY <2>8, <3>1, <3>2, <3>3 DEF DeleteFileFromJSON
  <2>9. ASSUME NEW h \in Handlers, RemoveProvider(h) PROVE TypeOK'
    BY <2>9, NewRecordType, NoFileType DEF RemoveProvider, Goto, GetFails, Fault
  <2>10. ASSUME NEW h \in Handlers, NEW file \in FileMetadata, UploadFile(h, file) PROVE TypeOK'
    BY <2>10, NewRecordType, NoFileType DEF UploadFile, Accept, Goto, GetFails, Fault
  <2>11. ASSUME NEW h \in Handlers, ReceiveFile(h) PROVE TypeOK'
    BY <2>11, NewRecordType, NoFileType DEF ReceiveFile, Accept, Goto
  <2>12. ASSUME NEW h \in Handlers, NEW v \in VoteTypes, HandleVote(h, v) PROVE TypeOK'
    <3>1. PICK m \in GetValue : /\ MayVote(m, Owner[h])
                               /\ snap' = [snap EXCEPT ![h] = VotingHelper(m, Owner[h], v)]
      BY <2>12 DEF HandleVote, VotePasses
    <3>2. VotingHelper(m, Owner[h], v) \in DHTMetadata
      BY <3>1, GetValueType, VotingHelperFacts
    <3>3. clean' \in BOOLEAN
      BY <2>12 DEF HandleVote, OpenWindow
    <3>4. [req EXCEPT ![h].VoteType = v] \in [Handlers -> FileMetadata]
      BY DEF FileMetadata, Ratings
    <3> QED BY <2>12, <3>1, <3>2, <3>3, <3>4 DEF HandleVote, Accept, Goto
  <2>13. ASSUME NEW h \in Handlers, DeleteFile(h) PROVE TypeOK'
    BY <2>13, NewRecordType, NoFileType DEF DeleteFile, Accept, Goto
  <2>14. ASSUME NEW h \in Handlers, NEW kind \in Kinds, GetFiles(h, kind) PROVE TypeOK'
    BY <2>14, NewRecordType, NoFileType DEF GetFiles, Accept, Goto
  <2>15. ASSUME NEW p \in Peers, Restart(p) PROVE TypeOK'
    BY <2>15, NewRecordType, NoFileType DEF Restart, Fault
  <2>16. ASSUME NEW r \in Replicas, NEW s \in Replicas, Correct(r, s) PROVE TypeOK'
    <3>1. store[r] \in DHTMetadata /\ StoreAt({s}, store[r])
      BY <2>16 DEF Correct
    <3> QED BY <2>16, <3>1, StoreAtFacts DEF Correct
  <2>17. ASSUME NEW r \in Replicas, Expire(r) PROVE TypeOK'
    BY <2>17, NewRecordType, NoFileType DEF Expire, Fault
  <2>18. CASE UNCHANGED vars
    BY <2>18 DEF vars
  <2> QED BY <2>1, <2>2, <2>3, <2>4, <2>5, <2>6, <2>7, <2>8, <2>9, <2>10, <2>11,
             <2>12, <2>13, <2>14, <2>15, <2>16, <2>17, <2>18
          DEF Next, HandlerStep, Request
<1> QED BY <1>1, <1>2, PTL DEF Spec

-----------------------------------------------------------------------------
(* Where the copies of the record come from. *)

\* Every copy that exists after a step existed before it, is new and empty, or
\* is an update of a copy that existed: an update of the acting handler's own
\* peer, with the vote its request carries or its user has just asked for.
LEMMA CopiesStep ==
  ASSUME TypeOK, [Next]_vars
  PROVE  \A n \in Copies' :
         \/ n \in Copies \cup {NewRecord}
         \/ \E h \in Handlers : \E m \in Copies \cup {NewRecord} :
               n = UpdateFileInDHT(m, Owner[h], req[h])
         \/ \E h \in Handlers : \E m \in Copies : \E v \in VoteTypes :
               /\ MayVote(m, Owner[h]) /\ n = VotingHelper(m, Owner[h], v)
               /\ v \in asked'[Owner[h]]
<1> DEFINE Goal == \A n \in Copies' :
         \/ n \in Copies \cup {NewRecord}
         \/ \E h \in Handlers : \E m \in Copies \cup {NewRecord} :
               n = UpdateFileInDHT(m, Owner[h], req[h])
         \/ \E h \in Handlers : \E m \in Copies : \E v \in VoteTypes :
               /\ MayVote(m, Owner[h]) /\ n = VotingHelper(m, Owner[h], v)
               /\ v \in asked'[Owner[h]]
<1>1. ASSUME GetValue' \subseteq Copies, cloud' \in Copies,
             \A h \in Handlers : snap'[h] \in Copies \cup {NewRecord}
      PROVE  Goal
  BY <1>1 DEF Copies
<1>2. cloud \in Copies /\ GetValue \subseteq Copies /\ \A h \in Handlers : snap[h] \in Copies
  BY DEF Copies
<1>3. ASSUME UNCHANGED <<store, cloud, snap>> PROVE Goal
  BY <1>1, <1>2, <1>3 DEF GetValue
<1>4. ASSUME NEW h \in Handlers, SaveOrUpdateFile(h) PROVE Goal
  <2>1. GetValue' = GetValue /\ cloud' = cloud
    BY <1>4 DEF SaveOrUpdateFile, GetValue
  <2>2. \A g \in Handlers : snap'[g] \in {snap[g], NewRecord}
    BY <1>4 DEF SaveOrUpdateFile, Answer, TypeOK
  <2> QED BY <1>1, <1>2, <2>1, <2>2
<1>5. ASSUME NEW h \in Handlers, SetPath(h) \/ UpdateRatingLocally(h) \/ DeleteFileFromJSON(h)
                                 \/ RemoveProvider(h) \/ ReceiveFile(h) \/ DeleteFile(h)
      PROVE Goal
  BY <1>3, <1>5 DEF SetPath, UpdateRatingLocally, DeleteFileFromJSON, RemoveProvider,
                    ReceiveFile, DeleteFile
<1>6. ASSUME NEW h \in Handlers, GetForUpdate(h) PROVE Goal
  <2>1. PICK m \in GetValue \cup {NewRecord} :
          snap' = [snap EXCEPT ![h] = UpdateFileInDHT(m, Owner[h], req[h])]
    BY <1>6 DEF GetForUpdate
  <2>2. GetValue' = GetValue /\ cloud' = cloud
    BY <1>6 DEF GetForUpdate, GetValue
  <2>3. \A g \in Handlers : snap'[g] = snap[g] \/ snap'[g] = UpdateFileInDHT(m, Owner[h], req[h])
    BY <2>1 DEF TypeOK
  <2> QED BY <1>2, <2>1, <2>2, <2>3 DEF Copies
<1>7. ASSUME NEW h \in Handlers, PutUpdate(h) \/ PutVote(h) PROVE Goal
  <2>1. snap[h] \in DHTMetadata
    BY DEF TypeOK
  <2>2. GetValue' \subseteq GetValue \cup {snap[h]}
    BY <1>7, <2>1, PutValueFacts DEF PutUpdate, PutVote
  <2>3. cloud' = cloud /\ \A g \in Handlers : snap'[g] \in {snap[g], NewRecord}
    BY <1>7 DEF PutUpdate, PutVote, Answer, TypeOK
  <2> QED BY <1>1, <1>2, <2>2, <2>3
<1>8. ASSUME NEW h \in Handlers, SendCloudNodeFiles(h) PROVE Goal
  <2>1. GetValue' = GetValue /\ cloud' \in {cloud, snap[h]}
    BY <1>8 DEF SendCloudNodeFiles, GetValue
  <2>2. \A g \in Handlers : snap'[g] \in {snap[g], NewRecord}
    BY <1>8 DEF SendCloudNodeFiles, Answer, TypeOK
  <2> QED BY <1>1, <1>2, <2>1, <2>2
<1>9. ASSUME NEW h \in Handlers, NEW file \in FileMetadata, UploadFile(h, file) PROVE Goal
  BY <1>3, <1>9 DEF UploadFile
<1>10. ASSUME NEW h \in Handlers, NEW v \in VoteTypes, HandleVote(h, v) PROVE Goal
  <2>1. PICK m \in GetValue : /\ MayVote(m, Owner[h])
                             /\ snap' = [snap EXCEPT ![h] = VotingHelper(m, Owner[h], v)]
    BY <1>10 DEF HandleVote, VotePasses
  <2>2. GetValue' = GetValue /\ cloud' = cloud
    BY <1>10 DEF HandleVote, GetValue
  <2>3. v \in asked'[Owner[h]]
    BY <1>10, ConstantsAssumption DEF HandleVote, TypeOK
  <2>4. \A g \in Handlers : snap'[g] = snap[g] \/ snap'[g] = VotingHelper(m, Owner[h], v)
    BY <2>1 DEF TypeOK
  <2> QED BY <1>2, <2>1, <2>2, <2>3, <2>4 DEF Copies
<1>11. ASSUME NEW h \in Handlers, NEW kind \in Kinds, GetFiles(h, kind) PROVE Goal
  BY <1>3, <1>11 DEF GetFiles
<1>12. ASSUME NEW p \in Peers, Restart(p) PROVE Goal
  <2>1. GetValue' = GetValue /\ cloud' = cloud
    BY <1>12 DEF Restart, GetValue
  <2>2. \A g \in Handlers : snap'[g] \in {snap[g], NewRecord}
    BY <1>12 DEF Restart
  <2> QED BY <1>1, <1>2, <2>1, <2>2
<1>13. ASSUME NEW r \in Replicas, NEW s \in Replicas, Correct(r, s) PROVE Goal
  <2>1. store[r] \in DHTMetadata /\ store[r] \in GetValue /\ StoreAt({s}, store[r])
    BY <1>13 DEF Correct, TypeOK, GetValue
  <2>2. GetValue' \subseteq GetValue
    BY <2>1, StoreAtFacts
  <2> QED BY <1>1, <1>2, <1>13, <2>2 DEF Correct
<1>14. ASSUME NEW r \in Replicas, Expire(r) PROVE Goal
  <2>1. GetValue' \subseteq GetValue
    BY <1>14 DEF Expire, GetValue
  <2> QED BY <1>1, <1>2, <1>14, <2>1 DEF Expire
<1>15. CASE UNCHANGED vars
  BY <1>3, <1>15 DEF vars
<1> QED BY <1>4, <1>5, <1>6, <1>7, <1>8, <1>9, <1>10, <1>11, <1>12, <1>13, <1>14, <1>15
        DEF Next, HandlerStep, Request

-----------------------------------------------------------------------------
(* Safety. *)

\* Every copy of every record is consistent: UpdateFileInDHT and votingHelper
\* turn consistent records into consistent ones, and write nothing else.
THEOREM RatingsAlwaysConsistent == Spec => []RatingsConsistent
<1>1. Init => RatingsConsistent
  BY NewRecordType DEF Init, RatingsConsistent, Copies, GetValue
<1>2. TypeOK /\ RatingsConsistent /\ [Next]_vars => RatingsConsistent'
  <2> SUFFICES ASSUME TypeOK, RatingsConsistent, [Next]_vars, NEW n \in Copies'
               PROVE  Consistent(n)
    BY DEF RatingsConsistent
  <2>1. \A m \in Copies \cup {NewRecord} : m \in DHTMetadata /\ Consistent(m)
    BY NewRecordType, GetValueType DEF Copies, TypeOK, RatingsConsistent
  <2>2. \A h \in Handlers : Owner[h] \in Peers /\ req[h] \in FileMetadata
    BY ConstantsAssumption DEF TypeOK
  <2>3. CASE n \in Copies \cup {NewRecord}
    BY <2>1, <2>3
  <2>4. CASE \E h \in Handlers : \E m \in Copies \cup {NewRecord} :
               n = UpdateFileInDHT(m, Owner[h], req[h])
    BY <2>1, <2>2, <2>4, UpdateFacts
  <2>5. CASE \E h \in Handlers : \E m \in Copies : \E v \in VoteTypes :
               MayVote(m, Owner[h]) /\ n = VotingHelper(m, Owner[h], v)
    BY <2>1, <2>2, <2>5, VotingHelperFacts
  <2> QED BY <2>3, <2>4, <2>5, CopiesStep
<1> QED BY <1>1, <1>2, TypeCorrect, PTL DEF Spec

\* Whose rating an update changes: only its own peer's, to the vote given.
LEMMA UpdateRatings ==
  ASSUME NEW m \in DHTMetadata, NEW p \in Peers, NEW file \in FileMetadata,
         NEW q \in DOMAIN UpdateFileInDHT(m, p, file).Providers
  PROVE  LET rating == UpdateFileInDHT(m, p, file).Providers[q].Rating IN
         \/ q \in DOMAIN m.Providers /\ rating = m.Providers[q].Rating
         \/ rating = NoVote
         \/ q = p /\ rating = file.VoteType
BY DEF UpdateFileInDHT, SetProvider, CountVote, MapPut

\* The same of votingHelper.
LEMMA VotingRatings ==
  ASSUME NEW m \in DHTMetadata, NEW p \in Peers, NEW v \in VoteTypes,
         NEW q \in DOMAIN VotingHelper(m, p, v).Providers
  PROVE  LET rating == VotingHelper(m, p, v).Providers[q].Rating IN
         \/ q \in DOMAIN m.Providers /\ rating = m.Providers[q].Rating
         \/ q = p /\ rating = v
BY DEF VotingHelper, CountVote, MapPut

\* No vote appears anywhere that its peer's user did not ask for: votes enter
\* through handleVote, and every update carries only its own peer's vote.
THEOREM VotesAlwaysAuthentic == Spec => []VotesAuthentic
<1>1. Init => VotesAuthentic
  <2> SUFFICES ASSUME Init PROVE VotesAuthentic
    OBVIOUS
  <2>1. \A m \in Copies : m = NewRecord
    BY DEF Init, Copies, GetValue
  <2>2. DOMAIN NewRecord.Providers = {}
    BY DEF NewRecord
  <2>3. \A h \in Handlers : req[h].VoteType = NoVote
    BY DEF Init, NoFile
  <2>4. DOMAIN local = {}
    BY DEF Init
  <2> QED BY <2>1, <2>2, <2>3, <2>4 DEF VotesAuthentic
<1>2. TypeOK /\ VotesAuthentic /\ [Next]_vars => VotesAuthentic'
  <2> SUFFICES ASSUME TypeOK, VotesAuthentic, [Next]_vars PROVE VotesAuthentic'
    OBVIOUS
  <2>1. \A h \in Handlers : Owner[h] \in Peers /\ req[h] \in FileMetadata
    BY ConstantsAssumption DEF TypeOK
  <2> DEFINE LocalOK == \A p \in DOMAIN local : local[p].VoteType \in asked[p] \cup {NoVote}
             ReqOK == \A h \in Handlers : req[h].VoteType \in asked[Owner[h]] \cup {NoVote}
             Goal == LocalOK' /\ ReqOK' /\ \A p \in Peers : asked[p] \subseteq asked'[p]
  <2>2. LocalOK /\ ReqOK /\ DOMAIN local \subseteq Peers
    BY DEF VotesAuthentic, TypeOK
  <2>3. Goal
    <3> USE <2>1, <2>2 DEF TypeOK
    <3>1. ASSUME UNCHANGED <<local, req, asked>> PROVE Goal
      BY <3>1
    <3>2. ASSUME NEW h \in Handlers, SaveOrUpdateFile(h) PROVE Goal
      BY <3>2 DEF SaveOrUpdateFile, Answer, MapPut, NoFile
    <3>3. ASSUME NEW h \in Handlers, SetPath(h) \/ GetForUpdate(h) \/ PutVote(h)
                                     \/ RemoveProvider(h) \/ DeleteFile(h) PROVE Goal
      BY <3>1, <3>3 DEF SetPath, GetForUpdate, PutVote, RemoveProvider, DeleteFile
    <3>4. ASSUME NEW h \in Handlers, PutUpdate(h) PROVE Goal
      <4>1. /\ local' = local /\ asked' = asked
            /\ req' = req \/ req' = [req EXCEPT ![h] = NoFile]
        BY <3>4 DEF PutUpdate, Answer
      <4> QED BY <4>1 DEF NoFile
    <3>5. ASSUME NEW h \in Handlers, SendCloudNodeFiles(h) PROVE Goal
      BY <3>5 DEF SendCloudNodeFiles, Answer, NoFile
    <3>6. ASSUME NEW h \in Handlers, UpdateRatingLocally(h) PROVE Goal
      <4>1. CASE UNCHANGED local
        BY <3>6, <4>1 DEF UpdateRatingLocally
      <4>2. CASE local' = [local EXCEPT ![Owner[h]].VoteType = req[h].VoteType]
        BY <3>6, <4>2 DEF UpdateRatingLocally, FileMetadata
      <4> QED BY <3>6, <4>1, <4>2 DEF UpdateRatingLocally
    <3>7. ASSUME NEW h \in Handlers, DeleteFileFromJSON(h) PROVE Goal
      BY <3>7 DEF DeleteFileFromJSON
    <3>8. ASSUME NEW h \in Handlers, NEW file \in FileMetadata, UploadFile(h, file) PROVE Goal
      BY <3>8 DEF UploadFile
    <3>9. ASSUME NEW h \in Handlers, ReceiveFile(h) PROVE Goal
      BY <3>9 DEF ReceiveFile, NoFile
    <3>10. ASSUME NEW h \in Handlers, NEW v \in VoteTypes, HandleVote(h, v) PROVE Goal
      <4>1. /\ asked' = [asked EXCEPT ![Owner[h]] = asked[Owner[h]] \cup {v}]
            /\ req' = [req EXCEPT ![h].VoteType = v] /\ local' = local
        BY <3>10 DEF HandleVote
      <4>2. \A p \in Peers : asked[p] \subseteq asked'[p]
        BY <4>1
      <4>3. v \in asked'[Owner[h]] /\ req'[h].VoteType = v
            /\ \A g \in Handlers : g # h => req'[g] = req[g]
        BY <4>1 DEF FileMetadata
      <4> QED BY <4>1, <4>2, <4>3
    <3>11. ASSUME NEW h \in Handlers, NEW kind \in Kinds, GetFiles(h, kind) PROVE Goal
      BY <3>11 DEF GetFiles
    <3>12. ASSUME NEW p \in Peers, Restart(p) PROVE Goal
      BY <3>12 DEF Restart, NoFile
    <3>13. ASSUME NEW r \in Replicas, NEW s \in Replicas, Correct(r, s) \/ Expire(r) PROVE Goal
      BY <3>1, <3>13 DEF Correct, Expire
    <3>14. CASE UNCHANGED vars
      BY <3>1, <3>14 DEF vars
    <3> HIDE DEF Goal
    <3> QED BY <3>2, <3>3, <3>4, <3>5, <3>6, <3>7, <3>8, <3>9, <3>10, <3>11, <3>12,
               <3>13, <3>14
            DEF Next, HandlerStep, Request
  <2>4. ASSUME NEW n \in Copies', NEW p \in DOMAIN n.Providers
        PROVE  n.Providers[p].Rating \in asked'[p] \cup {NoVote}
    <3>1. \A m \in Copies \cup {NewRecord} :
             /\ m \in DHTMetadata
             /\ \A q \in DOMAIN m.Providers :
                  q \in Peers /\ m.Providers[q].Rating \in asked'[q] \cup {NoVote}
      <4>1. ASSUME NEW m \in Copies PROVE m \in DHTMetadata /\ DOMAIN m.Providers \subseteq Peers
        BY GetValueType DEF Copies, TypeOK, DHTMetadata
      <4>2. NewRecord \in DHTMetadata /\ DOMAIN NewRecord.Providers = {}
        BY NewRecordType DEF NewRecord
      <4> QED BY <4>1, <4>2, <2>3 DEF VotesAuthentic
    <3>2. CASE n \in Copies \cup {NewRecord}
      BY <3>1, <3>2
    <3>3. CASE \E h \in Handlers : \E m \in Copies \cup {NewRecord} :
                 n = UpdateFileInDHT(m, Owner[h], req[h])
      <4>1. PICK h \in Handlers, m \in Copies \cup {NewRecord} :
                 n = UpdateFileInDHT(m, Owner[h], req[h])
        BY <3>3
      <4>2. \/ p \in DOMAIN m.Providers /\ n.Providers[p].Rating = m.Providers[p].Rating
            \/ n.Providers[p].Rating = NoVote
            \/ p = Owner[h] /\ n.Providers[p].Rating = req[h].VoteType
        BY <4>1, <3>1, <2>1, UpdateRatings, SMTT(30)
      <4> QED BY <4>2, <3>1, <2>1, <2>2, <2>3
    <3>4. CASE \E h \in Handlers : \E m \in Copies : \E v \in VoteTypes :
                 /\ MayVote(m, Owner[h]) /\ n = VotingHelper(m, Owner[h], v)
                 /\ v \in asked'[Owner[h]]
      <4>1. PICK h \in Handlers, m \in Copies, v \in VoteTypes :
                 n = VotingHelper(m, Owner[h], v) /\ v \in asked'[Owner[h]]
        BY <3>4
      <4>2. \/ p \in DOMAIN m.Providers /\ n.Providers[p].Rating = m.Providers[p].Rating
            \/ p = Owner[h] /\ n.Providers[p].Rating = v
        BY <4>1, <3>1, <2>1, VotingRatings, SMTT(30)
      <4> QED BY <4>1, <4>2, <3>1
    <3> QED BY <3>2, <3>3, <3>4, CopiesStep
  <2> QED BY <2>3, <2>4 DEF VotesAuthentic
<1> QED BY <1>1, <1>2, TypeCorrect, PTL DEF Spec

-----------------------------------------------------------------------------
(* Updates that do not overlap. *)

\* The inductive form of SerialWithoutOverlap: at most one handler is between
\* its GetValue and its PutValue, and it holds the next serial record.
SerialInv ==
    clean /\ faults = 0 =>
        /\ \A r \in DOMAIN store : store[r] = serial
        /\ DOMAIN store = {} => serial = NewRecord
        /\ \A g, h \in Handlers : Window(g) /\ Window(h) => g = h
        /\ \A h \in Handlers : pc[h] = "put" =>
              snap[h] = UpdateFileInDHT(serial, Owner[h], req[h])
        /\ \A h \in Handlers : pc[h] = "vput" =>
              /\ MayVote(serial, Owner[h])
              /\ snap[h] = VotingHelper(serial, Owner[h], req[h].VoteType)

\* SerialInv holds throughout.
LEMMA SerialInvariance == Spec => []SerialInv
<1>1. Init => SerialInv
  BY DEF Init, SerialInv, Window
<1>2. TypeOK /\ SerialInv /\ [Next]_vars => SerialInv'
  <2> SUFFICES ASSUME TypeOK, SerialInv, [Next]_vars, clean', faults' = 0 PROVE SerialInv'
    BY DEF SerialInv
  <2> USE DEF TypeOK
  <2>1. ASSUME NEW h \in Handlers, SaveOrUpdateFile(h) PROVE SerialInv'
    BY <2>1 DEF SaveOrUpdateFile, Goto, Fault, SerialInv, Window
  <2>2. ASSUME NEW h \in Handlers, SetPath(h) PROVE SerialInv'
    BY <2>2 DEF SetPath, Goto, SerialInv, Window
  <2>3. ASSUME NEW h \in Handlers, GetForUpdate(h) PROVE SerialInv'
    <3>1. clean /\ \A g \in Handlers \ {h} : ~Window(g)
      BY <2>3 DEF GetForUpdate, OpenWindow
    <3>2. faults = 0
      BY <2>3 DEF GetForUpdate, GetFails, Fault
    <3>3. snap' = [snap EXCEPT ![h] = UpdateFileInDHT(serial, Owner[h], req[h])]
      <4>1. PICK m \in GetValue \cup {NewRecord} :
              /\ m \in GetValue \/ (m = NewRecord /\ GetFails)
              /\ snap' = [snap EXCEPT ![h] = UpdateFileInDHT(m, Owner[h], req[h])]
        BY <2>3 DEF GetForUpdate
      <4>2. GetFails => DOMAIN store = {}
        BY DEF GetFails, Fault
      <4>3. m = serial
        BY <4>1, <4>2, <3>1, <3>2 DEF GetValue, SerialInv
      <4> QED BY <4>1, <4>3
    <3> QED BY <2>3, <3>1, <3>2, <3>3, SMTT(30) DEF GetForUpdate, Goto, SerialInv, Window
  <2>4. ASSUME NEW h \in Handlers, PutUpdate(h) PROVE SerialInv'
    <3>1. /\ faults = 0 /\ clean /\ StoreAt(Replicas, snap[h]) /\ pc[h] = "put"
          /\ serial' = UpdateFileInDHT(serial, Owner[h], req[h])
          /\ \E l \in {"cloud", "path"} : pc' = [pc EXCEPT ![h] = l]
      BY <2>4 DEF PutUpdate, PutValue, Fault, Goto
    <3>2. snap[h] = serial' /\ \A g \in Handlers : Window(g) => g = h
      BY <3>1 DEF SerialInv, Window
    <3>3. DOMAIN store' = Replicas /\ \A r \in Replicas : store'[r] = serial'
      BY <3>1, <3>2 DEF StoreAt
    <3>4. \A g \in Handlers : ~Window(g)'
      BY <3>1, <3>2 DEF Window
    <3> QED BY <3>3, <3>4, ConstantsAssumption DEF SerialInv, Window
  <2>5. ASSUME NEW h \in Handlers, SendCloudNodeFiles(h) PROVE SerialInv'
    BY <2>5 DEF SendCloudNodeFiles, Answer, Goto, Fault, SerialInv, Window
  <2>6. ASSUME NEW h \in Handlers, PutVote(h) PROVE SerialInv'
    <3>1. /\ faults = 0 /\ clean /\ StoreAt(Replicas, snap[h]) /\ pc[h] = "vput"
          /\ serial' = IF MayVote(serial, Owner[h])
                       THEN VotingHelper(serial, Owner[h], req[h].VoteType) ELSE serial
          /\ pc' = [pc EXCEPT ![h] = "vlocal"]
      BY <2>6 DEF PutVote, PutValue, Fault, Goto
    <3>2. snap[h] = serial' /\ \A g \in Handlers : Window(g) => g = h
      BY <3>1 DEF SerialInv, Window
    <3>3. DOMAIN store' = Replicas /\ \A r \in Replicas : store'[r] = serial'
      BY <3>1, <3>2 DEF StoreAt
    <3>4. \A g \in Handlers : ~Window(g)'
      BY <3>1, <3>2 DEF Window
    <3> QED BY <3>3, <3>4, ConstantsAssumption DEF SerialInv, Window
  <2>7. ASSUME NEW h \in Handlers, UpdateRatingLocally(h) \/ DeleteFileFromJSON(h)
                                   \/ DeleteFile(h) PROVE SerialInv'
    <3>1. UNCHANGED <<store, serial, req, snap, clean>>
      BY <2>7 DEF UpdateRatingLocally, DeleteFileFromJSON, DeleteFile
    <3>2. faults = 0
      <4>1. UNCHANGED faults \/ Fault
        BY <2>7 DEF UpdateRatingLocally, DeleteFileFromJSON, DeleteFile
      <4> QED BY <4>1 DEF Fault
    <3>3. \E l \in {"cloud", "remove", "error", "deljson"} : pc' = [pc EXCEPT ![h] = l]
      BY <2>7 DEF UpdateRatingLocally, DeleteFileFromJSON, DeleteFile, Accept, Goto
    <3> QED BY <3>1, <3>2, <3>3 DEF SerialInv, Window
  <2>8. ASSUME NEW h \in Handlers, RemoveProvider(h) PROVE SerialInv'
    BY <2>8 DEF RemoveProvider, Goto, GetFails, Fault, SerialInv, Window
  <2>9. ASSUME NEW h \in Handlers, NEW file \in FileMetadata, UploadFile(h, file)
        PROVE  SerialInv'
    BY <2>9, SMTT(30) DEF UploadFile, Accept, Ready, Goto, GetFails, Fault, SerialInv, Window
  <2>10. ASSUME NEW h \in Handlers, ReceiveFile(h) PROVE SerialInv'
    BY <2>10, SMTT(30) DEF ReceiveFile, Accept, Ready, Goto, SerialInv, Window
  <2>11. ASSUME NEW h \in Handlers, NEW v \in VoteTypes, HandleVote(h, v) PROVE SerialInv'
    <3>1. clean /\ faults = 0 /\ \A g \in Handlers \ {h} : ~Window(g)
      BY <2>11 DEF HandleVote, OpenWindow
    <3>2. /\ MayVote(serial, Owner[h])
          /\ snap' = [snap EXCEPT ![h] = VotingHelper(serial, Owner[h], v)]
      BY <2>11, <3>1 DEF HandleVote, VotePasses, GetValue, SerialInv
    <3>3. req'[h].VoteType = v
      BY <2>11 DEF HandleVote, FileMetadata
    <3> QED BY <2>11, <3>1, <3>2, <3>3 DEF HandleVote, Accept, Goto, SerialInv, Window
  <2>12. ASSUME NEW h \in Handlers, NEW kind \in Kinds, GetFiles(h, kind) PROVE SerialInv'
    BY <2>12, ZenonT(60) DEF GetFiles, Accept, Ready, Goto, SerialInv, Window
  <2>13. ASSUME NEW p \in Peers, Restart(p) PROVE SerialInv'
    BY <2>13 DEF Restart, Fault
  <2>14. ASSUME NEW r \in Replicas, NEW s \in Replicas, Correct(r, s) PROVE SerialInv'
    BY <2>14 DEF Correct, StoreAt, SerialInv, Window
  <2>15. ASSUME NEW r \in Replicas, Expire(r) PROVE SerialInv'
    BY <2>15 DEF Expire, Fault
  <2>16. CASE UNCHANGED vars
    BY <2>16 DEF vars, SerialInv, Window
  <2> QED BY <2>1, <2>2, <2>3, <2>4, <2>5, <2>6, <2>7, <2>8, <2>9, <2>10, <2>11,
             <2>12, <2>13, <2>14, <2>15, <2>16
          DEF Next, HandlerStep, Request
<1> QED BY <1>1, <1>2, TypeCorrect, PTL DEF Spec

\* Without overlap and faults no update is lost: the DHT holds the record that
\* all updates so far give one after another.
THEOREM SerialUnlessOverlap == Spec => []SerialWithoutOverlap
<1>1. SerialInv => SerialWithoutOverlap
  BY DEF SerialInv, SerialWithoutOverlap
<1> QED BY <1>1, SerialInvariance, PTL

-----------------------------------------------------------------------------
(* Nodes that serve the file. *)

\* Providers are added and never removed.
LEMMA ProvidersGrow ==
  ASSUME NEW m, NEW p
  PROVE  /\ \A file : DOMAIN UpdateFileInDHT(m, p, file).Providers = DOMAIN m.Providers \cup {p}
         /\ \A v : MayVote(m, p) =>
               DOMAIN VotingHelper(m, p, v).Providers = DOMAIN m.Providers
<1>1. \A f, v : DOMAIN MapPut(f, p, v) = DOMAIN f \cup {p}
  BY DEF MapPut
<1>2. \A file : DOMAIN SetProvider(m, p, file).Providers = DOMAIN m.Providers \cup {p}
  BY <1>1 DEF SetProvider
<1>3. \A n, v, up, down : DOMAIN CountVote(n, p, v, up, down).Providers = DOMAIN n.Providers \cup {p}
  BY <1>1 DEF CountVote
<1>4. \A file : DOMAIN UpdateFileInDHT(m, p, file).Providers = DOMAIN m.Providers \cup {p}
  BY <1>2, <1>3 DEF UpdateFileInDHT
<1>5. \A v : MayVote(m, p) => DOMAIN VotingHelper(m, p, v).Providers = DOMAIN m.Providers
  BY <1>3, ZenonT(60) DEF VotingHelper, MayVote
<1> QED BY <1>4, <1>5

\* The inductive form of ServersAreListed: PublishFile sets the path of a peer
\* that the serial record already lists.
Listing(h) == op[h] = "download" /\ pc[h] \in {"get", "put"}

ListedInv ==
    clean /\ faults = 0 =>
        /\ \A p \in FileHashToPath :
              p \in DOMAIN serial.Providers \/ \E h \in Handlers : Owner[h] = p /\ Listing(h)
        /\ \A h \in Handlers :
              pc[h] = "path" /\ op[h] # "download" => Owner[h] \in DOMAIN serial.Providers

\* Without overlap and faults every node that would serve the file is listed
\* among its providers, or receiveFile is about to list it.
THEOREM ServersAlwaysListed == Spec => []ServersAreListed
<1>1. Init => ListedInv
  BY DEF Init, ListedInv
<1>2. TypeOK /\ SerialInv /\ ListedInv /\ [Next]_vars => ListedInv'
  <2> SUFFICES ASSUME TypeOK, SerialInv, ListedInv, [Next]_vars, clean', faults' = 0
               PROVE  ListedInv'
    BY DEF ListedInv
  <2>0. ~Fault
    BY DEF Fault, TypeOK
  <2> USE DEF TypeOK
  <2>1. ASSUME NEW h \in Handlers, NEW l, NEW o, clean, faults = 0,
               pc' = [pc EXCEPT ![h] = l], op' = [op EXCEPT ![h] = o],
               FileHashToPath' \subseteq FileHashToPath, serial' = serial,
               Listing(h) => o = "download" /\ l \in {"get", "put"},
               l = "path" => o = "download"
        PROVE  ListedInv'
    <3>1. \A g \in Handlers : Listing(g) => Listing(g)'
      BY <2>1 DEF Listing
    <3> QED BY <2>1, <3>1 DEF ListedInv
  <2>2. ASSUME NEW h \in Handlers, SaveOrUpdateFile(h) PROVE ListedInv'
    <3>1. clean /\ faults = 0 /\ pc[h] = "save" /\ UNCHANGED <<FileHashToPath, serial, op>>
      BY <2>2 DEF SaveOrUpdateFile, Fault
    <3>2. PICK l \in {"path", "get"} : pc' = [pc EXCEPT ![h] = l]
                                       /\ (l = "path" => op[h] = "download")
      BY <2>2 DEF SaveOrUpdateFile, Goto, Fault
    <3>3. op' = [op EXCEPT ![h] = op[h]]
      BY <3>1
    <3> QED BY <2>1, <3>1, <3>2, <3>3 DEF Listing
  <2>3. ASSUME NEW h \in Handlers, SetPath(h) PROVE ListedInv'
    <3>1. /\ clean /\ faults = 0 /\ pc[h] = "path" /\ UNCHANGED <<op, serial>>
          /\ FileHashToPath' = FileHashToPath \cup {Owner[h]}
          /\ pc' = [pc EXCEPT ![h] = IF op[h] = "download" THEN "get" ELSE "cloud"]
      BY <2>3 DEF SetPath, Goto
    <3>2. \A g \in Handlers : Listing(g) => Listing(g)'
      BY <3>1 DEF Listing
    <3>3. Owner[h] \in DOMAIN serial.Providers \/ Listing(h)'
      BY <3>1 DEF ListedInv, Listing
    <3> QED BY <3>1, <3>2, <3>3 DEF ListedInv
  <2>4. ASSUME NEW h \in Handlers, GetForUpdate(h) PROVE ListedInv'
    <3>1. clean /\ faults = 0 /\ pc[h] = "get" /\ UNCHANGED <<FileHashToPath, serial, op>>
      BY <2>4 DEF GetForUpdate, OpenWindow, GetFails, Fault
    <3>2. pc' = [pc EXCEPT ![h] = "put"] /\ op' = [op EXCEPT ![h] = op[h]]
      BY <2>4, <3>1 DEF GetForUpdate, Goto
    <3> QED BY <2>1, <3>1, <3>2 DEF Listing
  <2>5. ASSUME NEW h \in Handlers, PutUpdate(h) PROVE ListedInv'
    <3>1. /\ faults = 0 /\ clean /\ UNCHANGED <<FileHashToPath, op>>
          /\ serial' = UpdateFileInDHT(serial, Owner[h], req[h])
          /\ pc' = [pc EXCEPT ![h] = IF op[h] = "download" THEN "cloud" ELSE "path"]
      BY <2>5 DEF PutUpdate, PutValue, Fault, Goto
    <3>2. DOMAIN serial'.Providers = DOMAIN serial.Providers \cup {Owner[h]}
      <4>1. DOMAIN UpdateFileInDHT(serial, Owner[h], req[h]).Providers
               = DOMAIN serial.Providers \cup {Owner[h]}
        BY ProvidersGrow, ZenonT(60)
      <4> QED BY <3>1, <4>1
    <3>3. \A g \in Handlers : Listing(g) => Listing(g)' \/ g = h
      BY <3>1 DEF Listing
    <3> QED BY <3>1, <3>2, <3>3 DEF ListedInv
  <2>6. ASSUME NEW h \in Handlers, PutVote(h) PROVE ListedInv'
    <3>1. /\ faults = 0 /\ clean /\ UNCHANGED <<FileHashToPath, op>> /\ pc[h] = "vput"
          /\ serial' = IF MayVote(serial, Owner[h])
                       THEN VotingHelper(serial, Owner[h], req[h].VoteType) ELSE serial
          /\ pc' = [pc EXCEPT ![h] = "vlocal"]
      BY <2>6, SMTT(30) DEF PutVote, PutValue, Fault, Goto
    <3>2. DOMAIN serial'.Providers = DOMAIN serial.Providers
      <4>1. MayVote(serial, Owner[h]) =>
               DOMAIN VotingHelper(serial, Owner[h], req[h].VoteType).Providers
                  = DOMAIN serial.Providers
        BY ProvidersGrow
      <4>2. CASE MayVote(serial, Owner[h])
        BY <3>1, <4>1, <4>2
      <4>3. CASE ~MayVote(serial, Owner[h])
        BY <3>1, <4>3
      <4> QED BY <4>2, <4>3
    <3>3. \A g \in Handlers : Listing(g) => Listing(g)'
      BY <3>1 DEF Listing
    <3> QED BY <3>1, <3>2, <3>3 DEF ListedInv
  <2>7. ASSUME NEW h \in Handlers, SendCloudNodeFiles(h) \/ UpdateRatingLocally(h)
                                   \/ DeleteFileFromJSON(h) \/ RemoveProvider(h)
        PROVE  ListedInv'
    <3>1. UNCHANGED <<FileHashToPath, serial, clean>> /\ op' = [op EXCEPT ![h] = op[h]]
      BY <2>7 DEF SendCloudNodeFiles, UpdateRatingLocally, DeleteFileFromJSON, RemoveProvider
    <3>2. faults = 0
      <4>1. UNCHANGED faults \/ Fault
        BY <2>7 DEF SendCloudNodeFiles, UpdateRatingLocally, DeleteFileFromJSON, RemoveProvider, GetFails
      <4> QED BY <4>1 DEF Fault
    <3>3. pc[h] \in {"cloud", "vlocal", "deljson", "remove"}
      BY <2>7 DEF SendCloudNodeFiles, UpdateRatingLocally, DeleteFileFromJSON, RemoveProvider
    <3>4. PICK l \in {"ok", "error", "cloud", "remove"} : pc' = [pc EXCEPT ![h] = l]
      <4>1. CASE SendCloudNodeFiles(h)
        BY <4>1 DEF SendCloudNodeFiles, Answer, Goto
      <4>2. CASE UpdateRatingLocally(h)
        BY <4>2 DEF UpdateRatingLocally, Goto
      <4>3. CASE DeleteFileFromJSON(h)
        BY <4>3 DEF DeleteFileFromJSON, Goto
      <4>4. CASE RemoveProvider(h)
        BY <4>4 DEF RemoveProvider, Goto
      <4> QED BY <2>7, <4>1, <4>2, <4>3, <4>4
    <3>5. ~Listing(h)
      BY <3>3 DEF Listing
    <3> QED BY <2>1, <3>1, <3>2, <3>4, <3>5
  <2>8. ASSUME NEW h \in Handlers, Request(h) PROVE ListedInv'
    <3>1. clean /\ serial' = serial /\ FileHashToPath' \subseteq FileHashToPath
      BY <2>8 DEF Request, UploadFile, ReceiveFile, HandleVote, DeleteFile, GetFiles, OpenWindow
    <3>2. \E o, l : /\ pc' = [pc EXCEPT ![h] = l] /\ op' = [op EXCEPT ![h] = o]
                    /\ l # "path" /\ Ready(h)
      BY <2>8 DEF Request, UploadFile, ReceiveFile, HandleVote, DeleteFile, GetFiles, Accept, Goto
    <3>3. faults = 0
      BY <2>0, <2>8 DEF Request, UploadFile, ReceiveFile, HandleVote, DeleteFile, GetFiles, GetFails
    <3> QED BY <2>1, <3>1, <3>2, <3>3 DEF Listing, Ready
  <2>9. ASSUME NEW p \in Peers, Restart(p) PROVE ListedInv'
    BY <2>9 DEF Restart, Fault
  <2>10. ASSUME NEW r \in Replicas, NEW s \in Replicas, Correct(r, s) \/ Expire(r) PROVE ListedInv'
    <3>1. ~Expire(r)
      BY <2>0 DEF Expire
    <3>2. UNCHANGED <<FileHashToPath, pc, op, faults, clean, serial>>
      BY <2>10, <3>1 DEF Correct
    <3> QED BY <3>2 DEF ListedInv, Listing
  <2>11. CASE UNCHANGED vars
    BY <2>11 DEF vars, ListedInv, Listing
  <2> QED BY <2>2, <2>3, <2>4, <2>5, <2>6, <2>7, <2>8, <2>9, <2>10, <2>11 DEF Next, HandlerStep
<1>3. SerialInv /\ ListedInv => ServersAreListed
  <2> SUFFICES ASSUME SerialInv, ListedInv, clean, faults = 0, NEW p \in FileHashToPath,
                      p \in DOMAIN serial.Providers
               PROVE  \E r \in DOMAIN store : p \in DOMAIN store[r].Providers
    BY DEF ListedInv, ServersAreListed, Listing
  <2>1. serial # NewRecord
    BY DEF NewRecord
  <2> QED BY <2>1 DEF SerialInv
<1> QED BY <1>1, <1>2, <1>3, TypeCorrect, SerialInvariance, PTL DEF Spec
=============================================================================
