--------------------------- MODULE MCRedditClient ---------------------------
(* Instances of RedditClient for TLC. *)
EXTENDS RedditClient
=============================================================================
