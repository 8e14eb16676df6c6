------------------------------- MODULE MCPool -------------------------------
(***************************************************************************)
(* Pool on small instances; the .cfg files give the numbers.  MCPool.cfg   *)
(* has two requests, every kind of answer and every kind of retry under a  *)
(* limit that grows and is halved; MCPoolStop.cfg has three requests, so   *)
(* that calls run and wait when the pool is stopped.                       *)
(***************************************************************************)
EXTENDS Pool
=============================================================================
