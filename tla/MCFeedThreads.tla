--------------------------- MODULE MCFeedThreads ---------------------------
(* One lane: the two are alike and share nothing but the feeding thread.   *)
EXTENDS FeedThreads

OneLane == <<"build">>
=============================================================================
