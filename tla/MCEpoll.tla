------------------------------ MODULE MCEpoll ------------------------------
(* Interests for the model checker.                                         *)
EXTENDS Epoll

Symmetry == Permutations(Threads) \cup Permutations(Files)

Mask(e, h, w) == [events |-> e, how |-> h, wake |-> w]
MCMasks     == {Mask({"in"}, "level", TRUE), Mask({"in"}, "edge", FALSE),
                Mask({"in"}, "oneshot", TRUE), Mask({}, "level", FALSE)}
MCLiveMasks == {Mask({"in"}, "level", FALSE)}
=============================================================================
