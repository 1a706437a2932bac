---------------------------- MODULE AgentUpdater ----------------------------
(***************************************************************************)
(* The agent replaces its own program: internal/agent/updater.go, with the *)
(* start in cmd/nodectl-agent/main.go and the first connection of          *)
(* internal/agent/runtime.go.                                              *)
(*                                                                         *)
(* A new release is written beside the program, the program is moved to    *)
(* .bak, the release takes its place and is executed.  A release that does *)
(* not reach the panel in time, or is started maxCrashCount times, makes   *)
(* way for the .bak again and is locked.  The process may die between any  *)
(* two changes of the files; the service manager starts it again.          *)
(* Releases appear on GitHub before their files do.                        *)
(***************************************************************************)
EXTENDS Integers

CONSTANTS
  Bad,            \* releases that never complete a handshake with the panel
  None,           \* no program at a path, no version locked
  MaxCrashCount,  \* maxCrashCount (3)
  MaxVersion,     \* bound: the last release
  MaxCrash,       \* bound: deaths of the process
  MaxIOFail       \* bound: renames, removals and writes that fail

Version == 1 .. MaxVersion

ASSUME VersionAssumption ==
  /\ MaxVersion \in Nat \ {0} /\ Bad \subseteq Version \ {1}
  /\ None \notin Version

ASSUME BoundAssumption ==
  /\ MaxCrashCount \in Nat \ {0}
  /\ MaxCrash \in Nat /\ MaxIOFail \in Nat

VARIABLES
  channel,  \* GetChannel(): which releases are looked at, and how
  listed,   \* the newest release of the channel
  missing,  \* releases that lack the program or its .sha256 file
  self,     \* version of the program at selfPath, or None
  bak,      \* version of the program at selfPath.bak, or None
  disk,     \* .update_state.json: the crash count and the locked version
  mem,      \* Updater.state
  pc,       \* what the process does
  image,    \* AgentVersion of the process
  pending,  \* postUpdatePending
  upd,      \* how far checkAndUpdate, which holds Updater.mu, has come
  target,   \* targetVersion
  worked,   \* history: versions that completed a handshake
  condemned, \* history: versions whose lock was written to disk, since that
             \* file was last broken by a write
  crashes, ioFails  \* budgets

releases == <<channel, listed, missing>>
files == <<self, bak>>
budgets == <<crashes, ioFails>>
vars == <<releases, files, disk, mem, pc, image, pending, upd, target, worked, condemned,
          budgets>>

State == [crash : Nat, locked : Version \cup {None}]
Zero == [crash |-> 0, locked |-> None]

TypeOK ==
  /\ channel \in {"stable", "alpha"}
  /\ listed \in Version /\ missing \subseteq Version
  /\ self \in Version \cup {None} /\ bak \in Version \cup {None}
  /\ disk \in State /\ mem \in State
  /\ pc \in {"down", "start", "counted", "restored", "connecting", "connected", "running"}
  /\ image \in Version /\ target \in Version
  /\ pending \in BOOLEAN
  /\ upd \in {"idle", "download", "hash", "staged", "moved", "switched"}
  /\ worked \subseteq Version /\ condemned \subseteq Version
  /\ crashes \in Nat /\ ioFails \in Nat

(* The first release has been installed and runs.                           *)
Init ==
  /\ channel \in {"stable", "alpha"}
  /\ listed = 1 /\ missing = {}
  /\ self = 1 /\ bak = None
  /\ disk = Zero /\ mem = disk
  /\ pc = "running" /\ image = 1 /\ pending = FALSE
  /\ upd = "idle" /\ target = 1
  /\ worked = {1} /\ condemned = {}
  /\ crashes = 0 /\ ioFails = 0
-----------------------------------------------------------------------------
(* One more operation on the file system fails.                             *)
IOFails == ioFails < MaxIOFail /\ ioFails' = ioFails + 1

(* saveState writes st, or fails without a word: there is no temporary file, *)
(* or one that is cut short is renamed over the good one and reads as zero.  *)
SaveState(st) ==
  \/ /\ disk' = st
     /\ condemned' = condemned \cup ({st.locked} \ {None})
     /\ UNCHANGED ioFails
  \/ IOFails /\ UNCHANGED <<disk, condemned>>
  \/ IOFails /\ disk' = Zero /\ condemned' = {}

(* saveState, where the code calls it only if the crash count was positive. *)
ClearCrashCount(st) ==
  /\ mem' = [st EXCEPT !.crash = 0]
  /\ IF st.crash > 0 THEN SaveState(mem') ELSE UNCHANGED <<disk, condemned, ioFails>>

(* The service manager starts the program, if there is one.                 *)
Start ==
  /\ pc = "down" /\ self # None
  /\ pc' = "start" /\ image' = self
  /\ UNCHANGED <<releases, files, disk, mem, pending, upd, target, worked, condemned, budgets>>

(* reexec: the same process runs the program at selfPath.  That execve      *)
(* fails is a death of the process.                                         *)
Reexec == pc' = "start" /\ image' = self /\ upd' = "idle"

(* RecordStartup of a program that was not just updated.                    *)
StartNormal ==
  /\ pc = "start" /\ bak = None
  /\ ClearCrashCount(disk)
  /\ pc' = "connecting" /\ pending' = FALSE
  /\ UNCHANGED <<releases, files, image, upd, target, worked, crashes>>

(* RecordStartup after an update: the start is counted ...                  *)
StartCounted ==
  /\ pc = "start" /\ bak # None
  /\ mem' = [disk EXCEPT !.crash = IF @ > MaxCrashCount THEN @ ELSE @ + 1]
  /\ SaveState(mem')
  /\ pc' = "counted"
  /\ UNCHANGED <<releases, files, image, pending, upd, target, worked, crashes>>

(* Mutant: only the first start after an update is on the timer.            *)
IsPostUpdatePending_FirstStart == bak # None /\ mem.crash <= 1

IsPostUpdatePending == bak # None

(* ... and there were not too many of them, or the .bak cannot be restored. *)
StartPending ==
  /\ pc = "counted"
  /\ mem.crash >= MaxCrashCount => ioFails < MaxIOFail
  /\ ioFails' = IF mem.crash >= MaxCrashCount THEN ioFails + 1 ELSE ioFails
  /\ pc' = "connecting" /\ pending' = IsPostUpdatePending
  /\ UNCHANGED <<releases, files, disk, mem, image, upd, target, worked, condemned, crashes>>

(* Mutant: the .bak is copied back and stays.                               *)
RestoreBackup_Copies ==
  /\ pc' = "restored"
  /\ self' = bak /\ bak' = bak
  /\ UNCHANGED <<releases, disk, mem, image, pending, upd, target, worked, condemned, budgets>>

(* The .bak becomes the program again.                                      *)
RestoreBackup ==
  /\ pc' = "restored"
  /\ self' = bak /\ bak' = None
  /\ UNCHANGED <<releases, disk, mem, image, pending, upd, target, worked, condemned, budgets>>

(* RecordStartup counted maxCrashCount starts.                              *)
TooManyStarts == pc = "counted" /\ mem.crash >= MaxCrashCount /\ RestoreBackup

(* The first connection: Runtime.Run.                                       *)
Connect ==
  /\ pc = "connecting" /\ image \notin Bad
  /\ pc' = "connected"
  /\ worked' = worked \cup {image}
  /\ UNCHANGED <<releases, files, disk, mem, image, pending, upd, target, condemned, budgets>>

(* No handshake within healthCheckTimeout of an update: RollbackAndReexec.  *)
HealthTimeout == pc = "connecting" /\ pending /\ bak # None /\ RestoreBackup

(* RollbackAndReexec without a .bak, or with one that cannot be renamed.    *)
HealthTimeoutFails ==
  /\ pc = "connecting" /\ pending
  /\ IF bak = None THEN UNCHANGED ioFails ELSE IOFails
  /\ pc' = "down"
  /\ UNCHANGED <<releases, files, disk, mem, image, pending, upd, target, worked, condemned,
                 crashes>>

(* The state after a rollback from v.                                       *)
Locked(v) == [crash |-> 0, locked |-> v]

(* The end of both rollbacks: lock, save, execute.                          *)
LockAndReexec ==
  /\ pc = "restored"
  /\ mem' = Locked(image)
  /\ SaveState(mem')
  /\ Reexec
  /\ UNCHANGED <<releases, files, pending, target, worked, crashes>>

(* MarkHealthy, after the first connection: the update is confirmed.        *)
MarkHealthy ==
  /\ pc = "connected" /\ upd = "idle"
  /\ pc' = "running"
  /\ ClearCrashCount(mem)
  /\ bak' = None
  /\ UNCHANGED <<releases, self, image, pending, upd, target, worked, crashes>>

(* MarkHealthy, when the .bak cannot be removed.                            *)
MarkHealthyFails ==
  /\ pc = "connected" /\ upd = "idle"
  /\ pc' = "running"
  /\ mem' = [mem EXCEPT !.crash = 0]
  /\ disk' = IF mem.crash > 0 THEN mem' ELSE disk
  /\ condemned' = condemned \cup ({disk'.locked} \ {None})
  /\ IOFails
  /\ UNCHANGED <<releases, files, image, pending, upd, target, worked, crashes>>
-----------------------------------------------------------------------------
(* checkAndUpdate, by the timer or by a command of the panel.               *)

(* Mutant: an update may begin before the handshake.                        *)
MayCheck_Always == pc \in {"connecting", "connected", "running"} /\ upd = "idle"

(* Updater.Run is started after MarkHealthy, a command comes over the       *)
(* connection and so may come before it.                                    *)
MayCheck == pc \in {"connected", "running"} /\ upd = "idle"

(* The releases that have their files.                                      *)
Ready == (1 .. listed) \ missing

(* findLatestStableRelease takes the newest release and gives up when a file *)
(* is missing ...                                                           *)
StableRelease == IF listed \in missing THEN {} ELSE {listed}

(* ... findLatestAlphaRelease looks for the newest one that has its files.  *)
AlphaRelease == {v \in Ready : \A w \in Ready : w <= v}

Found == IF channel = "stable" THEN StableRelease ELSE AlphaRelease

(* There is nothing newer.                                                  *)
UpToDate ==
  /\ MayCheck
  /\ \E v \in Found : v <= image
  /\ SaveState(mem)
  /\ UNCHANGED <<releases, files, mem, pc, image, pending, upd, target, worked, crashes>>

(* Mutant: the lock is set and never looked at.                             *)
IsLocked_Never(v) == FALSE

IsLocked(v) == mem.locked = v

(* A newer version that is not locked is downloaded; an older lock is       *)
(* released.                                                                *)
Download ==
  /\ MayCheck
  /\ \E v \in Found : v > image /\ ~IsLocked(v) /\ target' = v
  /\ upd' = "download"
  /\ mem' = [mem EXCEPT !.locked = None]
  /\ IF mem.locked # None THEN SaveState(mem') ELSE UNCHANGED <<disk, condemned, ioFails>>
  /\ UNCHANGED <<releases, files, pc, image, pending, worked, crashes>>

(* First the hash of the program is downloaded ...                          *)
FetchHash ==
  /\ upd = "download"
  /\ upd' = "hash"
  /\ UNCHANGED <<releases, files, disk, mem, pc, image, pending, target, worked, condemned,
                 budgets>>

(* ... then the program, whose hash is the same.                            *)
FetchProgram ==
  /\ upd = "hash"
  /\ upd' = "staged"
  /\ UNCHANGED <<releases, files, disk, mem, pc, image, pending, target, worked, condemned,
                 budgets>>

(* A download or a check of it fails, or the new file cannot be prepared.   *)
DownloadFails ==
  /\ upd \in {"download", "hash", "staged"}
  /\ upd' = "idle"
  /\ UNCHANGED <<releases, files, disk, mem, pc, image, pending, target, worked, condemned,
                 budgets>>

(* An old .bak is removed, and the program is renamed to .bak.              *)
Backup ==
  /\ upd = "staged" /\ self # None
  /\ bak' = self /\ self' = None
  /\ upd' = "moved"
  /\ UNCHANGED <<releases, disk, mem, pc, image, pending, target, worked, condemned, budgets>>

(* The old .bak is removed, and the program cannot be renamed.              *)
BackupFails ==
  /\ upd = "staged"
  /\ IF self = None THEN UNCHANGED ioFails ELSE IOFails
  /\ bak' = None
  /\ upd' = "idle"
  /\ UNCHANGED <<releases, self, disk, mem, pc, image, pending, target, worked, condemned,
                 crashes>>

(* The release takes the place of the program.                              *)
Switch ==
  /\ upd = "moved"
  /\ self' = target
  /\ upd' = "switched"
  /\ UNCHANGED <<releases, bak, disk, mem, pc, image, pending, target, worked, condemned,
                 budgets>>

(* It cannot; the .bak is renamed back, unless that fails too.              *)
SwitchFails ==
  /\ upd = "moved"
  /\ upd' = "idle"
  /\ \/ IOFails /\ self' = bak /\ bak' = None
     \/ ioFails + 1 < MaxIOFail /\ ioFails' = ioFails + 2 /\ UNCHANGED files
  /\ UNCHANGED <<releases, disk, mem, pc, image, pending, target, worked, condemned, crashes>>

(* The new cycle begins with a crash count of zero, and the release runs.   *)
Switched ==
  /\ upd = "switched"
  /\ mem' = [mem EXCEPT !.crash = 0]
  /\ SaveState(mem')
  /\ Reexec
  /\ UNCHANGED <<releases, files, pending, target, worked, crashes>>
-----------------------------------------------------------------------------
(* A release is made; its files follow, or never do.                        *)
Publish ==
  /\ listed < MaxVersion
  /\ listed' = listed + 1
  /\ missing' = missing \cup {listed'}
  /\ UNCHANGED <<channel, files, disk, mem, pc, image, pending, upd, target, worked,
                 condemned, budgets>>

Upload(v) ==
  /\ v \in missing
  /\ missing' = missing \ {v}
  /\ UNCHANGED <<channel, listed, files, disk, mem, pc, image, pending, upd, target, worked,
                 condemned, budgets>>

(* The process dies, with all that it had in memory.                        *)
Crash ==
  /\ pc # "down" /\ crashes < MaxCrash
  /\ crashes' = crashes + 1
  /\ pc' = "down" /\ upd' = "idle"
  /\ UNCHANGED <<releases, files, disk, mem, image, pending, target, worked, condemned, ioFails>>

Rollback == TooManyStarts \/ HealthTimeout \/ HealthTimeoutFails \/ LockAndReexec
Startup == Start \/ StartNormal \/ StartCounted \/ StartPending \/ Connect
Confirm == MarkHealthy \/ MarkHealthyFails
Update ==
  \/ UpToDate \/ Download \/ FetchHash \/ FetchProgram \/ DownloadFails
  \/ Backup \/ BackupFails \/ Switch \/ SwitchFails \/ Switched

Release == Publish \/ \E v \in missing : Upload(v)

Next == Startup \/ Rollback \/ Confirm \/ Update \/ Release \/ Crash

Spec == Init /\ [][Next]_vars

(* The service manager restarts the program (Restart=always), the process    *)
(* takes its next step, and the first connection succeeds or times out.      *)
FairSpec == Spec /\ WF_vars(Startup \/ Rollback) /\ WF_vars(Switch \/ SwitchFails)
-----------------------------------------------------------------------------
(* The program at selfPath has proved itself on this machine, or the one it  *)
(* would be rolled back to has: not even two updates in a row, of which the  *)
(* first was never confirmed, leave a node with two programs that may fail;  *)
(* and no single failing operation on a file leaves it with none at all.     *)
FallbackExists ==
  /\ bak # None => bak \in worked
  /\ self # None => self \in worked \/ bak # None
  /\ self = None => bak # None \/ ioFails > 1

(* A version that was rolled back and locked is never installed again, unless *)
(* a write that fails breaks the file of the lock.                           *)
NeverReinstalled ==
  [][self' # self /\ upd = "moved" /\ upd' = "switched" => self' \notin condemned]_vars

(* A node does not stay with a release that cannot reach the panel: again    *)
(* and again it runs a program that has, unless there is no program at all.  *)
Reconnects == []<>(pc \in {"connected", "running"} \/ self = None)

(* Between Backup and Switch the node's program is the one at .bak.          *)
Promise == INSTANCE Rollout WITH
  current  <- IF self # None THEN self ELSE bak,
  fallback <- IF self # None THEN bak ELSE None,
  proven   <- worked,
  faults   <- ioFails

(* The renames and removals, cut short anywhere, keep the promise of a        *)
(* rollout: a trial begins only from a program that has proved itself, ends  *)
(* with its handshake or with the return of the old program, never with both *)
(* files swapped or the same program kept twice, and one failing operation   *)
(* never loses the program.                                                  *)
KeepsPromise == Promise!Spec
=============================================================================
