---------------------------- MODULE MCImportJob ----------------------------
(* Values of the constants of ImportJob for model checking: two requests     *)
(* over ranges that are reversed, empty, whole days and not, up to three     *)
(* chunks.                                                                   *)
EXTENDS ImportJob
MCImports == 1 .. 2
MCLengths == -3 .. 5
=============================================================================
