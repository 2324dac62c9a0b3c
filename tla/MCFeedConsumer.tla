--------------------------- MODULE MCFeedConsumer ---------------------------
(* Instances of FeedConsumer for TLC. *)
EXTENDS FeedConsumer, MCInventoryStore

=============================================================================
