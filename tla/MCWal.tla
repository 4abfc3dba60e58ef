-------------------------------- MODULE MCWal -------------------------------
EXTENDS Wal, TLC
CONSTANTS a, b, p, q
Symmetry == Permutations(Connection) \cup Permutations(Page)
=============================================================================
