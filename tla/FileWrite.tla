----------------------------- MODULE FileWrite -----------------------------
(***************************************************************************)
(* cab::writeBytes (fileio.cpp): a temporary beside the file, its bytes,   *)
(* fsync, a rename; with disks that are full, power cuts, and a file       *)
(* system that puts names on the disk later than synced bytes.             *)
(*                                                                         *)
(* A file is Blocks blocks of one value. The temporary has one name for    *)
(* every writer of the file: with Together two may have it at once.        *)
(***************************************************************************)
EXTENDS Naturals, FiniteSets

CONSTANTS
    Writers,    \* threads, each with a value of its own to write
    Blocks,
    Together,   \* two writers may be in writeBytes for this file at once
    MaxWrites,  \* bound: writes begun
    MaxFaults   \* bound: power cuts

FileAssumption == Blocks \in Nat \ {0} /\ MaxWrites \in Nat

VARIABLES
    inodes,   \* what each inode holds: whose value, how many blocks, synced
    file,     \* the inode the file's name is of
    temp,     \* the one that .placing is of, 0 for none
    onDisk,   \* the inode the file's name is of on the disk itself
    pc,       \* where each writer is
    fd,       \* the inode each has open
    writes, faults

vars == <<inodes, file, temp, onDisk, pc, fd, writes, faults>>

\* Inode 1 is the file there was; each write makes one more.
Inodes == 1 .. MaxWrites + 1
Old    == "old"
Whole(i) == inodes[i].blocks = Blocks

Idle == pc = [w \in Writers |-> "idle"]

\* The temporary left by a run that died goes first; a new one is made.
Begin(w) ==
    /\ pc[w] = "idle" /\ (Together \/ Idle)
    /\ writes < MaxWrites /\ writes' = writes + 1
    /\ temp' = writes + 2
    /\ fd' = [fd EXCEPT ![w] = writes + 2]
    /\ inodes' = [inodes EXCEPT ![writes + 2] = [of |-> w, blocks |-> 0, synced |-> FALSE]]
    /\ pc' = [pc EXCEPT ![w] = "write"]
    /\ UNCHANGED <<file, onDisk, faults>>

\* write, until all is; a full disk stops it.
WriteBlock(w) ==
    /\ pc[w] = "write"
    /\ \/ /\ inodes' = [inodes EXCEPT ![fd[w]].blocks = @ + 1]
          /\ pc' = [pc EXCEPT ![w] = IF inodes[fd[w]].blocks + 1 = Blocks
                                     THEN "sync" ELSE "write"]
       \/ /\ pc' = [pc EXCEPT ![w] = "failed"]
          /\ UNCHANGED inodes
    /\ UNCHANGED <<file, temp, onDisk, fd, writes, faults>>

\* A write with no fsync.
Sync_None(w) ==
    /\ pc[w] = "sync"
    /\ pc' = [pc EXCEPT ![w] = "rename"]
    /\ UNCHANGED <<inodes, file, temp, onDisk, fd, writes, faults>>

\* fsync and close, or one of them fails.
Sync(w) ==
    /\ pc[w] = "sync"
    /\ \/ /\ inodes' = [inodes EXCEPT ![fd[w]].synced = TRUE]
          /\ pc' = [pc EXCEPT ![w] = "rename"]
       \/ /\ pc' = [pc EXCEPT ![w] = "failed"]
          /\ UNCHANGED inodes
    /\ UNCHANGED <<file, temp, onDisk, fd, writes, faults>>

\* rename: the name's inode is the file's now, whoever made it.
Rename(w) ==
    /\ pc[w] = "rename"
    /\ IF temp = 0
       THEN UNCHANGED <<file, temp>>
       ELSE file' = temp /\ temp' = 0
    /\ pc' = [pc EXCEPT ![w] = "idle"]
    /\ UNCHANGED <<inodes, onDisk, fd, writes, faults>>

\* A failure takes the temporary off again.
Fail(w) ==
    /\ pc[w] = "failed"
    /\ temp' = 0
    /\ pc' = [pc EXCEPT ![w] = "idle"]
    /\ UNCHANGED <<inodes, file, onDisk, fd, writes, faults>>

\* btrfs commits: the names are on the disk.
Commit ==
    /\ onDisk # file
    /\ onDisk' = file
    /\ UNCHANGED <<inodes, file, temp, pc, fd, writes, faults>>

\* A power cut: a name may be what it was, and what was not synced is cut short.
PowerCut ==
    /\ faults < MaxFaults /\ faults' = faults + 1
    /\ file' \in {file, onDisk} /\ onDisk' = file'
    /\ temp' \in {0, temp}
    /\ inodes' \in {[i \in Inodes |-> IF inodes[i].synced THEN inodes[i]
                                      ELSE [inodes[i] EXCEPT !.blocks = n[i]]]
                       : n \in {f \in [Inodes -> 0 .. Blocks] :
                                   \A i \in Inodes : f[i] <= inodes[i].blocks}}
    /\ pc' = [w \in Writers |-> "idle"]
    /\ UNCHANGED <<fd, writes>>

Init ==
    /\ inodes = [i \in Inodes |-> IF i = 1
                    THEN [of |-> Old, blocks |-> Blocks, synced |-> TRUE]
                    ELSE [of |-> Old, blocks |-> 0, synced |-> FALSE]]
    /\ file = 1 /\ temp = 0 /\ onDisk = 1
    /\ pc = [w \in Writers |-> "idle"] /\ fd = [w \in Writers |-> 1]
    /\ writes = 0 /\ faults = 0

Next ==
    \/ \E w \in Writers : Begin(w) \/ WriteBlock(w) \/ Sync(w) \/ Rename(w) \/ Fail(w)
    \/ Commit \/ PowerCut

Spec == Init /\ [][Next]_vars

-----------------------------------------------------------------------------

\* What a read gives: the value, or that it is cut short.
Read(i) == IF Whole(i) THEN inodes[i].of ELSE "cut short"

Promise == INSTANCE OneWrite WITH
    Values <- Writers \cup {Old}, value <- Read(file), past <- Read(onDisk)

\* fileio.h: "A power cut or a full disk halfway through leaves the old file,
\* never an empty or cut one": writeBytes is the one step of OneWrite.
WritesAtOnce == Promise!Spec
=============================================================================
