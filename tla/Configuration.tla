--------------------------- MODULE Configuration ---------------------------
(***************************************************************************)
(* readConfiguration (lib/common/Configuration.cpp): what a configuration  *)
(* file makes of the options of a node.  It fills in the options section   *)
(* by section and may leave halfway: false for the two complaints about    *)
(* the devices, an exception when the list of a JBOD is missing.  Settings *)
(* that only set a number are left out.  A file is a record of             *)
(*   file       "ok", or why libconfig refuses it: "io", "parse"           *)
(*   mode       the value of "mode"                                        *)
(*   dev        the value of "offload_dev_type"                            *)
(*   nvme       whether it has offload_nvme_addr and offload_nvme_name     *)
(*   devices    for each member of "devices" whether it has both, or       *)
(*              Missing                                                    *)
(*   mask       dht_key_mask_length, or Missing                            *)
(*   neighbors  for each member its settings: ip, keys, local; or Missing  *)
(***************************************************************************)
EXTENDS Integers, Sequences

CONSTANTS Files,     \* the configuration files
          Missing    \* a setting that the file does not have

(* The options as they are constructed (include/daqdb/Options.h).           *)
DefaultOptions ==
    [ret |-> "true", mode |-> "STORAGE", devType |-> "BDEV", devs |-> <<>>, mask |-> 0,
     neighbors |-> <<>>]

Leave(o, ret) == [o EXCEPT !.ret = ret]

Mode(f) == IF f.mode = "satellite" THEN "SATELLITE" ELSE "STORAGE"

(* The devices of a JBOD or RAID0 that have both settings, by their place.  *)
Complete(devices) == SelectSeq([i \in 1 .. Len(devices) |-> i], LAMBDA i : devices[i])

MutReadOffloadNoCheck(f, o) ==
    LET t == [o EXCEPT !.devType = CASE f.dev = "bdev" -> "BDEV" [] f.dev = "jbod" -> "JBOD"
                                     [] f.dev = "raid0" -> "RAID0" [] OTHER -> @]
    IN  IF o.mode = "SATELLITE" \/ f.dev \notin {"bdev", "jbod", "raid0"} THEN o
        ELSE CASE f.dev = "bdev" -> IF f.nvme THEN [t EXCEPT !.devs = <<1>>]
                                    ELSE Leave(t, "false")
               [] OTHER -> IF f.devices = Missing THEN Leave(t, "throw")
                           ELSE [t EXCEPT !.devs = Complete(f.devices)]

(* The offload section: nothing for a satellite, and nothing but a remark   *)
(* for a type that is not known.                                            *)
ReadOffload(f, o) ==
    LET t == [o EXCEPT !.devType = CASE f.dev = "bdev" -> "BDEV" [] f.dev = "jbod" -> "JBOD"
                                     [] f.dev = "raid0" -> "RAID0" [] OTHER -> @]
    IN  IF o.mode = "SATELLITE" \/ f.dev \notin {"bdev", "jbod", "raid0"} THEN o
        ELSE CASE f.dev = "bdev" -> IF f.nvme THEN [t EXCEPT !.devs = <<1>>]
                                    ELSE Leave(t, "false")
               [] OTHER -> IF f.devices = Missing THEN Leave(t, "throw")
                           ELSE IF Complete(f.devices) = <<>> THEN Leave(t, "false")
                           ELSE [t EXCEPT !.devs = Complete(f.devices)]

(* A neighbor with the defaults of the settings it does not have.           *)
Neighbor(n) == [keys |-> n.keys # Missing, local |-> n.local # Missing /\ n.local > 0]

(* Those before the first without an address: its exception ends the loop,  *)
(* and is taken for "no neighbors".                                         *)
ReadNeighbors(f) ==
    IF f.neighbors = Missing THEN <<>>
    ELSE LET good == {i \in 0 .. Len(f.neighbors) : \A j \in 1 .. i : f.neighbors[j].ip}
             last == CHOOSE i \in good : \A j \in good : j <= i
         IN  [i \in 1 .. last |-> Neighbor(f.neighbors[i])]

ReadDht(f, o) ==
    [o EXCEPT !.mask = IF f.mask = Missing THEN @ ELSE f.mask, !.neighbors = ReadNeighbors(f)]

readConfiguration(f) ==
    IF f.file # "ok" THEN Leave(DefaultOptions, "false")
    ELSE LET o == ReadOffload(f, [DefaultOptions EXCEPT !.mode = Mode(f)])
         IN  IF o.ret # "true" THEN o ELSE ReadDht(f, o)
=============================================================================
