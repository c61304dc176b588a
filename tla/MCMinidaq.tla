----------------------------- MODULE MCMinidaq -----------------------------
(* One readout and two filter executors.  The ways to start the benchmark: *)
(* readout and filter at once with ready keys, the same with a filter that *)
(* counts, with an asynchronous readout, and without a device one node     *)
(* after the other.                                                        *)
EXTENDS Minidaq

Mode(async, seq, parallel, stopOnError, offloadOn) ==
    [async |-> async, seq |-> seq, parallel |-> parallel, stopOnError |-> stopOnError,
     offload |-> offloadOn]

MCModes == {Mode(FALSE, FALSE, TRUE, FALSE, TRUE), Mode(FALSE, TRUE, TRUE, TRUE, TRUE),
            Mode(TRUE, FALSE, TRUE, TRUE, TRUE), Mode(FALSE, FALSE, FALSE, TRUE, FALSE)}
=============================================================================
