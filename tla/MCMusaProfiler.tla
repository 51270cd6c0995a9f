---------------------------- MODULE MCMusaProfiler ----------------------------
(* The instance of MusaProfiler for TLC: a buffer per session and one that  *)
(* stays empty.                                                            *)
EXTENDS MusaProfiler
=============================================================================
