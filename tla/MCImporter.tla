----------------------------- MODULE MCImporter ----------------------------
(* Model checking of Importer: two files that share a bond, and a row with  *)
(* a value of the wrong type, for one importer; one file of two bonds for   *)
(* two importers.                                                           *)
EXTENDS Importer, TLC

CONSTANTS f1, f2, b1, b2

TwoFiles == f1 :> <<b1>> @@ f2 :> <<Unreadable, b1>>

OneFile == f1 :> <<b1, b2>>

=============================================================================
