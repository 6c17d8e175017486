---------------------------- MODULE MCRelayForward ----------------------------
(* Two forwards compete for the only slot; the channel holds both frames, or  *)
(* a frame and a Close, and one heartbeat may fail or go unanswered.          *)
EXTENDS RelayForward
===============================================================================
