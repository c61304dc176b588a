-------------------------- MODULE MCNodeLifecycle --------------------------
(***************************************************************************)
(* A node with one poller, one worker besides the server thread and one    *)
(* pool.  Its file names a single device or a JBOD of two on different     *)
(* buses, or is incomplete in one of the ways the code tells apart.        *)
(***************************************************************************)
EXTENDS NodeLifecycle

CONSTANTS pool, p1, w1

MCPciAddr == << [domain |-> 0, bus |-> 3, dev |-> 0, func |-> 0],
                [domain |-> 0, bus |-> 3, dev |-> 1, func |-> 0],
                [domain |-> 0, bus |-> 4, dev |-> 0, func |-> 0] >>

Bdev == [file |-> "ok", mode |-> Missing, dev |-> "bdev", nvme |-> TRUE, devices |-> Missing,
         mask |-> Missing,
         neighbors |-> << [ip |-> TRUE, keys |-> Missing, local |-> 1],
                          [ip |-> FALSE, keys |-> 1, local |-> Missing] >>]

MCFiles == {Bdev, [Bdev EXCEPT !.nvme = FALSE], [Bdev EXCEPT !.dev = Missing],
            [Bdev EXCEPT !.file = "io"],
            [Bdev EXCEPT !.dev = "jbod"],
            [Bdev EXCEPT !.dev = "jbod", !.devices = <<FALSE>>],
            [Bdev EXCEPT !.dev = "jbod", !.devices = <<TRUE, FALSE, TRUE>>, !.mask = 1]}
=============================================================================
