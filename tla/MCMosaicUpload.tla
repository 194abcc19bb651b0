--------------------------- MODULE MCMosaicUpload ---------------------------
(* Instances of MosaicUpload for TLC; the last size is the user's own file. *)
EXTENDS MosaicUpload

\* A shrinking archive makes a partial oversized; equal sizes hide a revision
\* from every SIZE check.
Shrinking == <<3, 2, 2, 2>>
=============================================================================
