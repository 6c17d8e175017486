---------------------------- MODULE MCRelayRegistry ----------------------------
(* Three runs with room for two in the map and for one tombstone, so that mint *)
(* refuses and burying forgets; one wallet looks up one run after the other.   *)
EXTENDS RelayRegistry
===============================================================================
