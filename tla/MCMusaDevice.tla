------------------------------ MODULE MCMusaDevice ------------------------------
(* The instance of MusaDevice for TLC.  No symmetry: ImplementsStreams is a *)
(* property of behaviours.                                                  *)
EXTENDS MusaDevice
=============================================================================
