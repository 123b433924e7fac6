---------------------------- MODULE MCMigrations ----------------------------
\* Values of the constants of Migrations for TLC.
EXTENDS Migrations, SchemaHistory

\* A new database, and one of a release whose trainer may be alive: it lacks
\* columns of two tables, rows that use a column, and a table with its rows.
OldReleases == {0, 14}
=============================================================================
