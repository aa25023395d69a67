------------------------------ MODULE MachineLock ------------------------------
(***************************************************************************)
(* The lock file that keeps a second daemon of the same profile from       *)
(* starting (pkg/agent/lock.go), and the daemon that takes it when it      *)
(* starts and releases it when it has shut down (cmd/daemon/main.go).  The *)
(* file is read, removed, written under another name and renamed in        *)
(* separate system calls, and nothing excludes two daemons in between.     *)
(* A daemon may be killed at any point, and another program may get its    *)
(* process id.                                                             *)
(***************************************************************************)
EXTENDS Naturals, FiniteSets

CONSTANTS
    Daemons,    \* processes that start, one after another or together
    MaxKills,   \* bound: daemons killed
    MaxReused   \* bound: process ids given to other programs

ASSUME LockConstants ==
    {MaxKills, MaxReused} \subseteq Nat /\ "none" \notin Daemons

VARIABLES
    dproc,     \* how far each daemon is
    lockFile,  \* the daemon whose record the lock file holds
    tmpFile,   \* the same for .lock.json.tmp
    reused,    \* daemons whose process id another program has now
    raced,     \* two daemons were taking the lock at the same time
    kills

lockVars == <<dproc, lockFile, tmpFile, reused, raced, kills>>

NoFile == "none"

LockInit ==
    /\ dproc = [d \in Daemons |-> "off"]
    /\ lockFile = NoFile /\ tmpFile = NoFile /\ reused = {} /\ raced = FALSE /\ kills = 0

Taking == {"starting", "stale", "free", "written"}
RunningDaemons == {d \in Daemons : dproc[d] \in {"running", "releasing"}}

LockTypeOK ==
    /\ dproc \in [Daemons -> Taking \cup {"off", "running", "releasing", "released",
                                          "refused", "killed"}]
    /\ {lockFile, tmpFile} \subseteq Daemons \cup {NoFile}
    /\ reused \subseteq Daemons

\* Signal 0 reaches the process, or whoever has its id by now.
IsProcessAlive(d) ==
    dproc[d] \notin {"off", "refused", "released", "killed"} \/ d \in reused

Steps(d, pc) == dproc' = [dproc EXCEPT ![d] = pc]

-----------------------------------------------------------------------------
(* Taking the lock.                                                        *)

Starts(d) ==
    /\ dproc[d] = "off"
    /\ Steps(d, "starting")
    /\ raced' = (raced \/ \E e \in Daemons : dproc[e] \in Taking)
    /\ UNCHANGED <<lockFile, tmpFile, reused, kills>>

ReadLockFile(d) ==
    /\ dproc[d] = "starting"
    /\ Steps(d, IF lockFile = NoFile THEN "free"
                ELSE IF IsProcessAlive(lockFile) THEN "refused" ELSE "stale")
    /\ UNCHANGED <<lockFile, tmpFile, reused, raced, kills>>

(* The stale file goes, whatever is in it by now.                          *)
RemoveStale(d) ==
    /\ dproc[d] = "stale"
    /\ lockFile' = NoFile
    /\ Steps(d, "free")
    /\ UNCHANGED <<tmpFile, reused, raced, kills>>

WriteTmp(d) ==
    /\ dproc[d] = "free"
    /\ tmpFile' = d
    /\ Steps(d, "written")
    /\ UNCHANGED <<lockFile, reused, raced, kills>>

(* The rename takes the file both write to; without it the start fails.    *)
RenameTmp(d) ==
    /\ dproc[d] = "written"
    /\ IF tmpFile = NoFile
       THEN Steps(d, "refused") /\ UNCHANGED <<lockFile, tmpFile>>
       ELSE /\ lockFile' = tmpFile /\ tmpFile' = NoFile
            /\ Steps(d, "running")
    /\ UNCHANGED <<reused, raced, kills>>

-----------------------------------------------------------------------------
(* Giving it back.                                                         *)

\* Process id and token are the daemon's own.
LockIsMine(d) == lockFile = d

ReleaseReads(d) ==
    /\ dproc[d] = "running"
    /\ Steps(d, IF LockIsMine(d) THEN "releasing" ELSE "released")
    /\ UNCHANGED <<lockFile, tmpFile, reused, raced, kills>>

ReleaseRemoves(d) ==
    /\ dproc[d] = "releasing"
    /\ lockFile' = NoFile
    /\ Steps(d, "released")
    /\ UNCHANGED <<tmpFile, reused, raced, kills>>

Killed(d) ==
    /\ dproc[d] \in Taking \cup {"running", "releasing"} /\ kills < MaxKills
    /\ Steps(d, "killed") /\ kills' = kills + 1
    /\ UNCHANGED <<lockFile, tmpFile, reused, raced>>

PidReused(d) ==
    /\ dproc[d] = "killed" /\ d \notin reused /\ Cardinality(reused) < MaxReused
    /\ reused' = reused \cup {d}
    /\ UNCHANGED <<dproc, lockFile, tmpFile, raced, kills>>

LockNext ==
    \E d \in Daemons :
        \/ Starts(d) \/ ReadLockFile(d) \/ RemoveStale(d) \/ WriteTmp(d) \/ RenameTmp(d)
        \/ ReleaseReads(d) \/ ReleaseRemoves(d) \/ Killed(d) \/ PidReused(d)

LockSpec == LockInit /\ [][LockNext]_lockVars

-----------------------------------------------------------------------------
(* Properties.                                                             *)

\* As long as no two daemons took the lock at the same time, one runs at most and
\* the file names it, whoever was killed before with the file left behind.
OneDaemon ==
    ~raced => /\ Cardinality(RunningDaemons) <= 1
              /\ \A d \in RunningDaemons : lockFile = d

\* A second daemon is kept out.
LockPromise == LockTypeOK /\ OneDaemon
===============================================================================
