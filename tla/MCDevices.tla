----------------------------- MODULE MCDevices -----------------------------
(***************************************************************************)
(* What the console writes, on a screen that keeps its size (Console),     *)
(* what becomes of the screen when its size changes (Framebuffer), and the *)
(* transfers of a disk (BlockDrive).  part says which runs.                *)
(***************************************************************************)
EXTENDS Console, MCFramebuffer, BlockDrive

VARIABLE part

MCInit == part \in {"text", "size", "disk"} /\ Init /\ FbInit /\ DriveInit

TextPart == part = "text" /\ Next /\ UNCHANGED <<part, fbvars, drivevars>>
SizePart == part = "size" /\ FbNext /\ UNCHANGED <<part, vars, drivevars>>
DiskPart == part = "disk" /\ DriveNext /\ UNCHANGED <<part, vars, fbvars>>

MCNext == TextPart \/ SizePart \/ DiskPart

MCSpec == MCInit /\ [][MCNext]_<<part, vars, fbvars, drivevars>>
============================================================================
