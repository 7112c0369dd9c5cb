---------------------------- MODULE MCMigrations ----------------------------
(***************************************************************************)
(* Five releases: three that follow each other, one whose second file was  *)
(* edited after it shipped, and one whose directory has a gap.             *)
(***************************************************************************)
EXTENDS Migrations

MCFile(v, t, tx) == [version |-> v, text |-> t, transactional |-> tx]
MCOne == MCFile(1, "one", TRUE)
MCTwo == MCFile(2, "two", FALSE)
MCThree == MCFile(3, "three", TRUE)

MCFiles == [first  |-> {MCOne},
            second |-> {MCOne, MCTwo},
            third  |-> {MCOne, MCTwo, MCThree},
            edited |-> {MCOne, MCFile(2, "edited", FALSE)},
            gap    |-> {MCOne, MCThree}]
=============================================================================
