---------------------------- MODULE MCWebClient ----------------------------
(* WebClient over runs that may stop after any frame, the last a review that asks the user. *)
EXTENDS WebClient

MCScript ==
  << [type |-> "node_start", role |-> "developer"],
     [type |-> "node_end", role |-> "reviewer", decision |-> "need_user_decision"] >>
=============================================================================
