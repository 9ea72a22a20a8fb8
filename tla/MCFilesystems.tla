---------------------------- MODULE MCFilesystems ----------------------------
(* Fat32 and Exfat, one volume of either kind: which it is, is chosen at the   *)
(* start.  MaxChanges bounds the calls that change a directory or the FAT, and *)
(* nothing is done after one that the consistency properties except.           *)
EXTENDS Integers, TLC
CONSTANTS MaxChanges, ExfatName, NoFile, Handle
VARIABLES part, changes,
          image, vol, open, fspoilt,            \* Fat32
          disk, ctx, files, xspoilt, wild       \* Exfat

F == INSTANCE Fat32 WITH spoilt <- fspoilt, LastEntry <- 5, LastCluster <- 4, Slots <- 3,
       ClusterSize <- 1, Offset <- {0, 1}, Name <- {"d", "long"}, IsLong <- {"long"},
       Short <- "d" :> "d" @@ "long" :> "lon", StartLba <- 0
X == INSTANCE Exfat WITH spoilt <- xspoilt, LastEntry <- 6, LastCluster <- 5, Slots <- 8,
       ClusterSize <- 1, Offset <- {0, 1}, Name <- ExfatName, IsLong <- {"long"},
       Short <- [n \in ExfatName |-> IF n = "long" THEN "lon" ELSE n]

fatV == <<image, vol, open, fspoilt>>
exfatV == <<disk, ctx, files, xspoilt, wild>>

MCInit == /\ part \in {"fat", "exfat"} /\ changes = 0
          /\ F!FatInit /\ (part # "fat" => image["volume"] = F!Formatted)
          /\ X!ExfatInit

Counted(changed) == changes' = IF changed THEN changes + 1 ELSE changes

FatStep == /\ part = "fat" /\ ~fspoilt /\ F!FatNext
           /\ Counted(\/ image'["volume"].dirs # image["volume"].dirs
                      \/ F!Mounted /\ F!Mounted' /\ vol.fat # vol'.fat)
           /\ UNCHANGED exfatV
ExfatStep == /\ part = "exfat" /\ ~xspoilt /\ ~wild /\ X!ExfatNext
             /\ Counted(\/ disk.slots' # disk.slots
                        \/ X!Mounted /\ X!Mounted' /\ ctx.fat # ctx'.fat)
             /\ UNCHANGED fatV

MCNext == (FatStep \/ ExfatStep) /\ changes' <= MaxChanges /\ UNCHANGED part
------------------------------------------------------------------------------
(* Fat32: FatConsistent there, over states of the right types. *)
FatConsistent == F!FatTypeOK /\ F!FatConsistent

(* Exfat: ExfatConsistent there, over states of the right types. *)
ExfatConsistent == X!ExfatTypeOK /\ X!ExfatConsistent

(* Exfat: see UnlinkLeavesOthers there. *)
UnlinkLeavesOthers == X!UnlinkLeavesOthers
=============================================================================
