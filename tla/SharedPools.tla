------------------------------ MODULE SharedPools ------------------------------
(***************************************************************************)
(* Module SharedContext with names that module ThreadPool leaves free: a   *)
(* pool of the latter looks after contexts of its own, these run one that  *)
(* is the program's.  What is checked and proved of the two kinds of pools *)
(* can so be said side by side.                                            *)
(***************************************************************************)
CONSTANTS Pools, TheirThreads, MaxQueued

VARIABLES serving, guards, inCall, at, halted, queued, host, disturbed, overtaken

Shared == INSTANCE SharedContext WITH
  Threads <- TheirThreads, running <- serving, step <- inCall, pc <- at,
  stopped <- halted

SharedSpec     == Shared!Spec
SharedFairSpec == Shared!FairSpec

-------------------------------------------------------------------------------
(* Properties *)

\* A pool on a shared context serves until another stops it: module SharedContext.
ServesUnlessStopped == Shared!ServesUnlessStopped

\* stop() on a shared context returns: module SharedContext.
StopsReturn == Shared!StopsReturn
===============================================================================
