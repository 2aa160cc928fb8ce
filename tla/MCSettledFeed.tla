--------------------------- MODULE MCSettledFeed ---------------------------
(***************************************************************************)
(* SettledFeed with the values MCLiveFeed gives LiveFeed's constants.      *)
(***************************************************************************)
EXTENDS MCLiveFeed, SettledFeed

=============================================================================
