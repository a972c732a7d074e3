----------------------------- MODULE MCJobCache -----------------------------
(* Three processes on one cache file, two names with two digests.          *)
EXTENDS JobCache
=============================================================================
