--------------------------- MODULE MCRedisStore ---------------------------
(***************************************************************************)
(* Instance of RedisStore for TLC.  Cycles and keys fall everywhere around *)
(* the windows, so a few of them are enough.                               *)
(***************************************************************************)
EXTENDS RedisStore

MCWindows == {<<6, 9>>}

=============================================================================
