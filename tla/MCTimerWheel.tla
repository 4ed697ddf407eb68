----------------------------- MODULE MCTimerWheel -----------------------------
(***************************************************************************)
(* Two interchangeable timers on three gears of two slots, which turn      *)
(* every jiffy and every two and four jiffies.  The delay of nine jiffies  *)
(* lies beyond the last gear, whence a timer comes back through all of     *)
(* them; the interval of one makes it fire as often as it was asked to.    *)
(* The clock runs until every gear has gone round.  Callbacks act on       *)
(* either timer.                                                           *)
(***************************************************************************)
EXTENDS TimerWheel, TLC

\* A counted timer and TIMER_BEAT_FOREVER.
MCCount == {2, -1}

Symmetry == Permutations(Timer)
=============================================================================
