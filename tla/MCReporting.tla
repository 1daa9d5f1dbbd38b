---------------------------- MODULE MCReporting ----------------------------
(***************************************************************************)
(* Instances of Reporting for TLC.  Two of the runs explore two situations *)
(* each, told apart by part and by the bounds of Within only.              *)
(*   bulk     one job of two PDFs and a ZIP; a fault, a cancellation or a  *)
(*            retry anywhere;                                              *)
(*   expiry   one job of one PDF and a ZIP through retries, retention and  *)
(*            purge; runs may stall past their lease while they write;     *)
(*   quota    two jobs compete for one unit a month and one place in the   *)
(*            queue, over two months;                                      *)
(*   cleanup  one job of one PDF and a ZIP, a purge and two sweeps at a    *)
(*            time, or a fault and one sweep, against runs that write only *)
(*            under their lease;                                           *)
(*   live     one job of one PDF under fairness.                           *)
(***************************************************************************)
EXTENDS Reporting, TLC

CONSTANTS i1, i2, i3, j1, j2, Situations

OneJob == {j1}
TwoJobs == {j1, j2}
OneItem == {i1}
TwoItems == {i1, i2}
ThreeItems == {i1, i2, i3}
ItsJob == i1 :> j1
OneEach == (i1 :> j1) @@ (i2 :> j2)
OneAndTwo == (i1 :> j1) @@ (i2 :> j2) @@ (i3 :> j2)

VARIABLE part

Within ==
    /\ \A j \in Jobs : job[j].state # "None" =>
          CASE part \in {"expiry", "cleanup"} -> j = j1
            [] part = "bulk" -> j = j2
            [] part \in {"quota", "live"} -> TRUE
    /\ part # "quota" => month = 0
    /\ part = "quota" => faults = 0
    /\ part = "cleanup" => \/ faults = 0
                           \/ \A s \in Sweeps : sweep[s] = IdleSweep \/ s = CHOOSE t \in Sweeps : TRUE
    /\ part \in {"bulk", "quota"} =>
          /\ purges = 0
          /\ \A s \in Sweeps : sweep[s] = IdleSweep
          /\ \A j \in Jobs : job[j].revision < 2

PartInit == Init /\ part \in Situations
PartNext == Next /\ UNCHANGED part /\ Within'
PartSpec == PartInit /\ [][PartNext]_<<vars, part>>
FairPartSpec == PartSpec /\ Fairness
=============================================================================
