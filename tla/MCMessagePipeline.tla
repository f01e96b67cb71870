------------------------- MODULE MCMessagePipeline --------------------------
(* MessagePipeline for TLC. *)
EXTENDS MessagePipeline, TLC

\* Letters and digits of an AppID are above 32, so that they never look like padding.
MCAppId == <<5, 5>>
=============================================================================
