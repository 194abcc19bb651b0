-------------------------- MODULE MCMosaicArchive --------------------------
(* Instances of MosaicArchive for TLC. *)
EXTENDS MosaicArchive

\* Equal sizes hide a revision from every SIZE check; with a longer second
\* revision a download of the first receives more than was advertised.
EqualSizes == <<2, 2>>
Grows == <<1, 2>>
=============================================================================
