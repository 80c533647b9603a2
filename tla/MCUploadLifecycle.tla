------------------------- MODULE MCUploadLifecycle -------------------------
(***************************************************************************)
(* Instances of UploadLifecycle for TLC.                                   *)
(***************************************************************************)
EXTENDS UploadLifecycle, TaskKinds

CONSTANTS u1, u2, c1, c2

\* One document, or two, on the ingestion queue and its two children.
OneDocument == u1 :> "ingestion"
BothDocuments == u1 :> "ingestion" @@ u2 :> "ingestion"
IngestionPool == c1 :> "ingestion" @@ c2 :> "ingestion"

\* The children of one queue are alike.
Pool == Permutations(Children)

\* A reasoning bundle and a media file, and one child of each queue.
BundleAndMedia == u1 :> "reasoning" @@ u2 :> "media"
TwoContainers == c1 :> "reasoning" @@ c2 :> "media"

\* Different contents have different document ids; the same content, uploaded
\* twice, has one.
OneKey == u1 :> "k1"
OwnKeys == u1 :> "k1" @@ u2 :> "k2"
SameKey == u1 :> "k1" @@ u2 :> "k1"

\* The results differ in length with the stored file name they contain.
OneSize == u1 :> 2
Sizes == u1 :> 2 @@ u2 :> 1
=============================================================================
