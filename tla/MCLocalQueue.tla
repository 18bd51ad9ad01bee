---------------------------- MODULE MCLocalQueue ----------------------------
EXTENDS LocalQueue

\* clear() is for every job, removeQueuedJobsByScope for those of a tenant.
AllOrOne == {{"a", "b"}, {"a"}}
=============================================================================
