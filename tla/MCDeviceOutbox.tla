--------------------------- MODULE MCDeviceOutbox ---------------------------
(* Instances of DeviceOutbox for TLC.                                       *)
EXTENDS DeviceOutbox, TLC

CONSTANTS k1, k2

\* A form and its photo.
MCRank2  == 1 :> 0 @@ 2 :> 2
MCSize2  == 1 :> 1 @@ 2 :> 4
MCNeeds2 == 1 :> {} @@ 2 :> {1}
=============================================================================
