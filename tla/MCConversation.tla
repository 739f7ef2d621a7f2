--------------------------- MODULE MCConversation ---------------------------
(***************************************************************************)
(* Conversation on small instances: two callers, replies of one or two     *)
(* frames, and faults only at the requests a run names.                    *)
(***************************************************************************)
EXTENDS Conversation
=============================================================================
