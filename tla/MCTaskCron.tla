------------------------------ MODULE MCTaskCron ------------------------------
EXTENDS TaskCron

CONSTANTS n1, n2

MCNodes == {n1, n2}

(* Only n1's application calls the API (Close included); n2 runs a       *)
(* TaskCron that only watches.                                          *)
MCApiNodes == {n1}

=============================================================================
