---------------------------- MODULE MCFileNames ----------------------------
(* An instance of FileNames with short limits: one character of each kind. *)
EXTENDS FileNames
=============================================================================
