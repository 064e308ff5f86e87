--------------------------- MODULE MCInstaller ---------------------------
(* Installer with model values, for TLC. *)
EXTENDS Installer
=============================================================================
