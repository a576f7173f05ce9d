---------------------------- MODULE MCCacheServer ----------------------------
(***************************************************************************)
(* Constants for model-checking CacheServer.                               *)
(***************************************************************************)
EXTENDS CacheServer

SaveRestartAndStall == {"save", "restart", "stall"}
=============================================================================
