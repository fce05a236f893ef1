---------------------------- MODULE MCImportPage ----------------------------
(* Values of the constants of ImportPage for model checking: two requests,   *)
(* the page's and one that can meet it at any point.  While the page is      *)
(* shown they are over half a day; without it, ranges reach from below zero  *)
(* to more than two chunks.  Two polls overlap around one import when none   *)
(* is lost; a loss happens before the second import, so that the user can    *)
(* try again while the first one runs.                                       *)
EXTENDS ImportPage
MCImports == 1 .. 2
MCLengths == {-3, -1, 0, 1, 2, 5}
MCPageLengths == {1}
MCPolls == 1 .. 2
=============================================================================
