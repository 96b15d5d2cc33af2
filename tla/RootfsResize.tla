----------------------------- MODULE RootfsResize -----------------------------
(***************************************************************************)
(* rootfs-resize.sh grows the root partition and its file system to the    *)
(* size of the medium, under rootfs-resize.service, which skips the script *)
(* once its marker exists.  Between any two of its steps the power may     *)
(* fail, and any of its tools may.                                         *)
(*                                                                         *)
(* Sizes are in units of a file system's block group.  The partition table *)
(* is on the medium as soon as its tool returns.  The file system's own    *)
(* size and the marker are in the same journal, which is committed some    *)
(* time later, in order; what is not committed is lost with the power.     *)
(***************************************************************************)
EXTENDS Naturals

CONSTANTS
    Image,      \* size of the image that is flashed
    Media,      \* sizes of the media it is flashed to
    MaxTrouble  \* bound on power failures, tools that fail and boots skipped

ASSUME ResizeAssumption ==
    /\ Image \in Nat \ {0} /\ Media \subseteq Nat /\ \A size \in Media : size >= Image
    /\ MaxTrouble \in Nat

VARIABLES
    step,       \* "off", "idle", or the step of the script that comes next
    disk,       \* size of the medium
    suited,     \* is the root an ext file system in the disk's last partition?
    gpt,        \* size of the disk according to its partition table
    part,       \* PART_NUM's size in the table
    kpart,      \* PART_NUM's size according to the kernel
    fs,         \* size of the file system
    marker,     \* does $MARKER exist?
    saved,      \* fs and marker as of the last commit
    trouble     \* power failures and failures of tools so far

table == <<gpt, part, kpart>>
medium == <<disk, suited>>
resizeVars == <<step, medium, table, fs, marker, saved, trouble>>

\* A medium that was just flashed, and is not in use yet.
ResizeInit ==
    /\ step = "off" /\ trouble = 0
    /\ disk \in Media /\ suited \in BOOLEAN
    /\ gpt = Image /\ part = Image /\ kpart = Image /\ fs = Image
    /\ marker = FALSE /\ saved = [fs |-> Image, marker |-> FALSE]

----------------------------------------------------------------------------
(* rootfs-resize.sh                                                        *)

\* Anything but an ext file system in the last partition is never grown.
ProbeUnsuited ==
    /\ step = "probe" /\ ~suited
    /\ step' = "mark"
    /\ UNCHANGED <<medium, table, fs, marker, saved, trouble>>

Probe ==
    /\ step = "probe" /\ suited
    /\ step' = "sgdisk"
    /\ UNCHANGED <<medium, table, fs, marker, saved, trouble>>

Sgdisk ==
    /\ step = "sgdisk"
    /\ gpt' = disk
    /\ step' = "parted"
    /\ UNCHANGED <<medium, part, kpart, fs, marker, saved, trouble>>

\* parted tells the kernel too, when the kernel lets it.
Parted ==
    /\ step = "parted"
    /\ part' = gpt /\ kpart' \in {kpart, gpt}
    /\ step' = "partx"
    /\ UNCHANGED <<medium, gpt, fs, marker, saved, trouble>>

Partx ==
    /\ step = "partx"
    /\ kpart' = part
    /\ step' = "resize"
    /\ UNCHANGED <<medium, gpt, part, fs, marker, saved, trouble>>

\* A mounted file system grows by some groups at a time, to the size of its device.
Resize2fs ==
    /\ step = "resize" /\ fs < kpart
    /\ fs' \in (fs + 1) .. kpart
    /\ UNCHANGED <<step, medium, table, marker, saved, trouble>>

Resized ==
    /\ step = "resize" /\ fs = kpart
    /\ step' = "mark"
    /\ UNCHANGED <<medium, table, fs, marker, saved, trouble>>

\* Mutant: the marker is not made.
SettleUnmarked ==
    /\ step = "mark"
    /\ step' = "idle"
    /\ UNCHANGED <<medium, table, fs, marker, saved, trouble>>

Settle ==
    /\ step = "mark"
    /\ marker' = TRUE
    /\ step' = "idle"
    /\ UNCHANGED <<medium, table, fs, saved, trouble>>

ScriptStep == ProbeUnsuited \/ Probe \/ Sgdisk \/ Parted \/ Partx \/ Resize2fs \/ Resized \/ Settle

\* Mutant: without set -e the script goes on to its end.
FailGoesOn ==
    /\ step \notin {"off", "idle"} /\ trouble < MaxTrouble
    /\ step' = "mark" /\ trouble' = trouble + 1
    /\ UNCHANGED <<medium, table, fs, marker, saved>>

\* set -e: a tool that fails ends the script (one that fails after its work looks as if
\* the next one failed); so does a device that is not there yet.
Fail ==
    /\ step \notin {"off", "idle"} /\ trouble < MaxTrouble
    /\ step' = "idle" /\ trouble' = trouble + 1
    /\ UNCHANGED <<medium, table, fs, marker, saved>>

----------------------------------------------------------------------------
(* rootfs-resize.service and the machine                                   *)

\* The kernel reads the table; the unit's ConditionPathExists=! decides.
PowerOn ==
    /\ step = "off"
    /\ step' = IF marker THEN "idle" ELSE "probe"
    /\ kpart' = part
    /\ UNCHANGED <<medium, gpt, part, fs, marker, saved, trouble>>

Commit ==
    /\ step # "off"
    /\ saved' = [fs |-> fs, marker |-> marker]
    /\ UNCHANGED <<step, medium, table, fs, marker, trouble>>

\* An orderly shutdown, for which shutdown.target waits until the script has ended.
Shutdown ==
    /\ step = "idle"
    /\ step' = "off" /\ saved' = [fs |-> fs, marker |-> marker]
    /\ UNCHANGED <<medium, table, fs, marker, trouble>>

PowerFails ==
    /\ step # "off" /\ trouble < MaxTrouble
    /\ step' = "off" /\ trouble' = trouble + 1
    /\ fs' = saved.fs /\ marker' = saved.marker
    /\ UNCHANGED <<medium, table, saved>>

\* A fresh image is written to this medium or to another one.
Flash ==
    /\ step = "off"
    /\ disk' \in Media /\ suited' \in BOOLEAN
    /\ gpt' = Image /\ part' = Image /\ kpart' = Image /\ fs' = Image
    /\ marker' = FALSE /\ saved' = [fs |-> Image, marker |-> FALSE]
    /\ UNCHANGED <<step, trouble>>

ResizeNext == ScriptStep \/ Fail \/ PowerOn \/ Commit \/ Shutdown \/ PowerFails \/ Flash

\* The script runs on.  The operator boots the device again, and shuts it down some time.
ResizeFairness == WF_resizeVars(ScriptStep) /\ WF_resizeVars(PowerOn) /\ WF_resizeVars(Shutdown)

ResizeSpec == ResizeInit /\ [][ResizeNext]_resizeVars /\ ResizeFairness

----------------------------------------------------------------------------
(* Properties                                                              *)

\* Every variable has its type.
ResizeTypeOK ==
    /\ step \in {"off", "idle", "probe", "sgdisk", "parted", "partx", "resize", "mark"}
    /\ disk \in Media /\ suited \in BOOLEAN
    /\ gpt \in Image .. disk /\ part \in Image .. disk
    /\ kpart \in Image .. disk /\ fs \in Image .. disk
    /\ marker \in BOOLEAN /\ saved \in [fs : Image .. disk, marker : BOOLEAN]
    /\ trouble \in 0 .. MaxTrouble

\* The file system, with or without what is committed, fits the partition as the
\* kernel sees it and as the next boot will see it, and the partition fits the medium.
Fits ==
    /\ saved.fs <= fs /\ fs <= part /\ part <= gpt
    /\ step # "off" => fs <= kpart /\ kpart <= part

\* The marker, which stops the script for good, is there only when there is nothing
\* left to grow; so is the one that would survive a loss of power.
MarkerMeansGrown ==
    /\ marker => ~suited \/ fs = disk
    /\ saved.marker => ~suited \/ saved.fs = disk

\* How far the script has come at each step.
Progress ==
    /\ step \in {"sgdisk", "parted", "partx", "resize"} => suited
    /\ step \in {"parted", "partx", "resize"} => gpt = disk
    /\ step \in {"partx", "resize"} => part = disk
    /\ step = "resize" => kpart = disk
    /\ step = "mark" => ~suited \/ fs = disk

\* Once there is a marker the script does not run; flashing takes the marker away.
OnceOnly == marker => step \in {"off", "idle"}

\* The inductive invariant that the others rest on.
IInv == ResizeTypeOK /\ Fits /\ Progress /\ MarkerMeansGrown /\ OnceOnly

\* A device that is not flashed any more and is booted again and again ends up grown,
\* however its first boots failed.
EventuallyGrown ==
    <>[][~Flash]_resizeVars => <>[](saved.marker /\ (suited => saved.fs = disk))

=============================================================================
