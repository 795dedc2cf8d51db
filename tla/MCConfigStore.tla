---------------------------- MODULE MCConfigStore ----------------------------
\* Values for the constants of ConfigStore.
EXTENDS ConfigStore, TLC

CONSTANTS f1, f2, f3, f4, f5, f6

\* The file of each of the two names, one per writer that may hold a file open,
\* and one to spare.
MCFiles == {f1, f2, f3, f4, f5, f6}
==============================================================================
