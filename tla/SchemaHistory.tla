--------------------------- MODULE SchemaHistory ---------------------------
(***************************************************************************)
(* What the migration runner promises of schema_migrations, whoever runs   *)
(* it and however often: a history that only ever grows, by the next       *)
(* version, and in which no entry is changed or removed.                   *)
(***************************************************************************)
EXTENDS Naturals

CONSTANTS Text,         \* the texts of migration files, told apart by checksum
          MaxVersion    \* bound on versions

VARIABLE recorded   \* version -> text, the rows of schema_migrations

Grow(n, t) ==
    /\ DOMAIN recorded = 1 .. n
    /\ recorded' = [v \in 1 .. n + 1 |-> IF v = n + 1 THEN t ELSE recorded[v]]

Init == DOMAIN recorded = {}
Next == \E t \in Text : \E n \in 0 .. MaxVersion : Grow(n, t)
Spec == Init /\ [][Next]_recorded
=============================================================================
