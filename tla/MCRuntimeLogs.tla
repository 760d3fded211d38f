---------------------------- MODULE MCRuntimeLogs ----------------------------
(* Four bytes, files and histories of two bytes, two files, small queues.  *)
EXTENDS RuntimeLogs
MCFileSize == 2
MCMaxFiles == 2
MCQueueSize == 2
MCMaxInode == 3
MCMaxPosition == 4
MCBootSize == 3
MCFollowerSize == 2
MCMaxOld == 1
MCModes == {"none", "memory", "file"}
=============================================================================
