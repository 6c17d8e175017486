----------------------------- MODULE MCCacheServer -----------------------------
(* Two connections and two keys with room for one row: every store evicts.      *)
EXTENDS CacheServer
===============================================================================
