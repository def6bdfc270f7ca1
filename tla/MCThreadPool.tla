---------------------------- MODULE MCThreadPool ----------------------------
(***************************************************************************)
(* Instances of ThreadPool for TLC: three threads, a call of               *)
(* enqueue_tail_n and a call of enqueue_head_n with two services each, so  *)
(* that two services of one call can be in the hands of two threads while  *)
(* the third sleeps; or one thread and one service, where order is all.    *)
(***************************************************************************)
EXTENDS ThreadPool, TLC

CONSTANTS tails, heads, single, a, b, c, d, e

TwoCalls == (tails :> <<a, b>>) @@ (heads :> <<c, d>>)

OneCall == single :> <<e>>
=============================================================================
