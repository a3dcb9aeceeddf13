---------------------------- MODULE MCFileRecord ----------------------------
(* Instances of FileRecord: one uploader and a downloader. *)
EXTENDS FileRecord, TLC

CONSTANTS p1, p2, h1, h2

\* One goroutine per peer.
OwnerEach == h1 :> p1 @@ h2 :> p2
=============================================================================
