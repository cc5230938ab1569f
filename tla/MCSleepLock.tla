---------------------------- MODULE MCSleepLock ----------------------------
(* An inode's lock, and a buffer's, acquired under it.                      *)
EXTENDS SleepLock

CONSTANTS inode, buf

MCMayNest == {<<inode, buf>>}
=============================================================================
