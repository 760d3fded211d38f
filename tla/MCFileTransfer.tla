--------------------------- MODULE MCFileTransfer ---------------------------
(* Every request, two attempts, three starts and two faults of any kind.   *)
EXTENDS FileTransfer
MCMaxAttempts == 2
MCMaxStarts == 3
MCMaxFaults == 2
MCMaxInode == 20
MCAllFaults == {"crash", "io", "user", "target", "staging"}
=============================================================================
