-------------------------------- MODULE MCIo --------------------------------
(* Small instances of IoCache.                                             *)
EXTENDS IoCache
=============================================================================
