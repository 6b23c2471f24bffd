----------------------------- MODULE MCListing -----------------------------
(* Instances of ListingHistory for TLC. *)
EXTENDS ListingHistory, TLC

CONSTANTS l1, l2, a1

\* Two offers of one post, and a single offer.
OnePost == (l1 :> a1 @@ l2 :> a1)
OneOffer == (l1 :> a1)
=============================================================================
