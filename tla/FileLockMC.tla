---------------------------- MODULE FileLockMC ----------------------------
(***************************************************************************)
(* The ways in which the code calls lockfile(): waiting for an exclusive   *)
(* lock (downloads, caches), for a shared one (cache.py:868), trying once  *)
(* (main.py:535, cache.py:873).  One caller, toaster.bbclass:177, waits    *)
(* without trying again; its steps are among those of the first and the    *)
(* last, and it is left out here.                                          *)
(***************************************************************************)
EXTENDS FileLock

Call3(shared, retry, block) == [shared |-> shared, retry |-> retry, block |-> block]

CodeModes ==
  {Call3(FALSE, TRUE, FALSE), Call3(TRUE, TRUE, FALSE), Call3(FALSE, FALSE, FALSE)}
=============================================================================
