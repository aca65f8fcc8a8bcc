--------------------------- MODULE MC_SqliteStore ---------------------------
\* SqliteStore with two clients, two sessions in two versions each.
EXTENDS SqliteStore
=============================================================================
