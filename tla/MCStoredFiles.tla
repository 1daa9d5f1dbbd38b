--------------------------- MODULE MCStoredFiles ---------------------------
(***************************************************************************)
(* Instances of StoredFiles for TLC.  The run `files` explores four        *)
(* situations, told apart by part and by the bounds below only:            *)
(*   upload     one upload through every kind of store, its ticket         *)
(*              outliving every other step, two faults and a purge;        *)
(*   budget     two uploads of different size that together exceed the     *)
(*              byte budget; no holds, previews or trash sweeps;           *)
(*   generated  a report and an export against trash, redelivery and the   *)
(*              purge;                                                     *)
(*   exports    exports of both kinds, one of which may fail, against the  *)
(*              operator's answers and the purge; nothing leaves the trash.*)
(***************************************************************************)
EXTENDS StoredFiles

CONSTANTS u1, u2, p1, x1, x2

TwoUploads == {u1, u2}
UnevenSizes == [f \in {u1, u2} |-> IF f = u1 THEN 1 ELSE 2]

VARIABLE part

FilesIn == [upload |-> {u1}, budget |-> {u1, u2}, generated |-> {p1, x1},
            exports |-> {x1, x2}]
StoresIn == [upload |-> {"s3", "azure", "local"}, budget |-> {"azure"},
             generated |-> {"s3"}, exports |-> {"s3"}]

Within ==
    /\ \A f \in Files \ FilesIn[part] : file[f].status \in {"None", "Gone"}
    /\ part # "generated" => publish = {}
    /\ reserved \subseteq FilesIn[part]
    /\ part \in {"budget", "generated"} => faults = 0
    /\ part = "exports" => faults <= 1 /\ lapsed = {}
    /\ part = "budget" => purge = "none" /\ deriving = {} /\ lapsed = {}
    /\ part # "upload" => \A f \in Files : ~file[f].hold

PartInit == Init /\ part \in DOMAIN FilesIn /\ store \in StoresIn[part]
PartNext == Next /\ UNCHANGED part /\ Within'
PartSpec == PartInit /\ [][PartNext]_<<vars, part>>
FairPartSpec == PartSpec /\ Fairness
=============================================================================
