------------------------------ MODULE MCDelivery ------------------------------
(* Small instances of Delivery for TLC.                                    *)
EXTENDS Delivery, TLC

CONSTANTS j1, j2, w1, w2

OneJob     == {j1}
TwoJobs    == {j1, j2}
OneWorker  == {w1}
TwoWorkers == {w1, w2}
NoJob      == {}
SecondJob  == {j2}

(* None sent, a negative wait that cannot be read back, one above the cap. *)
SomeWaits  == {-1, -5, 3}

WorkersAlike == Permutations(Worker)

=============================================================================
