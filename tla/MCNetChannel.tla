----------------------------- MODULE MCNetChannel -----------------------------
(***************************************************************************)
(* NetChannel for TLC.  Channels are interchangeable, and so are           *)
(* descriptors: the safety run uses that as a symmetry, and the liveness   *)
(* run, where a symmetry would be unsound, checks one channel among the    *)
(* others.                                                                 *)
(***************************************************************************)
EXTENDS NetChannel, TLC

Symmetry == Permutations(Chan) \cup Permutations(Fd)

Observed == CHOOSE c \in Chan : TRUE

\* A connection that the peer has closed is noticed: the observed channel is destroyed.
EndNoticed == NoticesEnd(Observed)

\* What the system did not take at once is sent later: the poller gets back to the
\* observed channel.
Flushed == Flushes(Observed)
=============================================================================
