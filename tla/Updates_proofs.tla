--------------------------- MODULE Updates_proofs ---------------------------
(***************************************************************************)
(* Theorems about the two components that replace files which are in use.  *)
(* The first half is about AgentUpdater: for any releases, good or bad,    *)
(* and any number of deaths of the process and of failing operations on    *)
(* files.  The second is about AutoUpdate: for any number of goroutines,   *)
(* releases, failures and requests of users.                               *)
(***************************************************************************)
EXTENDS AgentUpdater, AutoUpdate, TLAPS

(* What the paths hold.                                                     *)
FilesOK ==
  /\ self \in Version \cup {None} /\ bak \in Version \cup {None}
  /\ worked \subseteq Version
  /\ ioFails \in Nat

ProcessOK ==
  /\ pc \in {"down", "start", "counted", "restored", "connecting", "connected", "running"}
  /\ image \in Version /\ target \in Version
  /\ listed \in Version /\ missing \subseteq Version /\ channel \in {"stable", "alpha"}
  /\ upd \in {"idle", "download", "hash", "staged", "moved", "switched"}

(* Where the running program is: at selfPath until an update moves it, then  *)
(* at .bak.  An update runs only in a program that has proved itself, so     *)
(* what it leaves at .bak has.                                               *)
WhereImageIs ==
  /\ pc \in {"start", "counted", "connecting"} => self = image
  /\ pc = "counted" => bak # None
  /\ pc = "restored" => self \in worked /\ bak = None
  /\ pc \in {"connected", "running"} => image \in worked
  /\ upd # "idle" => pc \in {"connected", "running"}
  /\ pc \in {"connected", "running"} /\ upd \notin {"moved", "switched"}
       => self \in {image, None}
  /\ pc = "connected" /\ upd = "idle" => self = image \/ self = None
  /\ upd = "moved" => bak = image /\ self = None
  /\ upd = "switched" => self = target /\ bak = image
  /\ self = None /\ upd # "moved" /\ pc # "down" => ioFails > 1

Newest(v) == v \in Ready /\ \A w \in Ready : w <= v

(* Both searches find the newest release that has its files, or none.       *)
LEMMA FoundIsNewest == ProcessOK => \A v \in Found : Newest(v) /\ v \in Version
  BY VersionAssumption DEF ProcessOK, Found, StableRelease, AlphaRelease, Newest, Ready, Version

FilesInv == FilesOK /\ ProcessOK /\ WhereImageIs /\ FallbackExists

LEMMA FilesInit == Init => FilesInv
  BY VersionAssumption
     DEF Init, FilesInv, FilesOK, ProcessOK, WhereImageIs, FallbackExists, Version

LEMMA FilesStep == FilesInv /\ [Next]_vars => FilesInv'
<1> SUFFICES ASSUME FilesInv, [Next]_vars PROVE FilesInv'
  OBVIOUS
<1> USE VersionAssumption, BoundAssumption DEF FilesInv, FilesOK, ProcessOK, WhereImageIs, FallbackExists, releases
<1>1. ASSUME Start PROVE FilesInv'
  BY <1>1 DEF Start, files, budgets
<1>2. ASSUME StartNormal \/ StartCounted \/ StartPending PROVE FilesInv'
  BY <1>2 DEF StartNormal, StartCounted, StartPending, IsPostUpdatePending, ClearCrashCount, SaveState, Zero, IOFails, files, budgets
<1>3. ASSUME Connect PROVE FilesInv'
  BY <1>3 DEF Connect, files, budgets
<1>4. ASSUME TooManyStarts \/ HealthTimeout PROVE FilesInv'
  BY <1>4 DEF TooManyStarts, HealthTimeout, RestoreBackup, budgets
<1>5. ASSUME HealthTimeoutFails PROVE FilesInv'
  BY <1>5 DEF HealthTimeoutFails, IOFails, files
<1>6. ASSUME LockAndReexec \/ Switched PROVE FilesInv'
  BY <1>6 DEF LockAndReexec, Switched, SaveState, Zero, IOFails, Reexec, files
<1>7. ASSUME MarkHealthy PROVE FilesInv'
  BY <1>7 DEF MarkHealthy, ClearCrashCount, SaveState, Zero, IOFails
<1>8. ASSUME \/ MarkHealthyFails \/ UpToDate \/ FetchHash \/ FetchProgram \/ DownloadFails
      PROVE  FilesInv'
  BY <1>8 DEF MarkHealthyFails, UpToDate, FetchHash, FetchProgram, DownloadFails, MayCheck, SaveState, Zero, IOFails, files, budgets
<1>9. ASSUME Download PROVE FilesInv'
  BY <1>9, FoundIsNewest DEF Newest, Ready, Version, Download, MayCheck, IsLocked, SaveState, Zero, IOFails, files
<1>10. ASSUME Backup \/ BackupFails PROVE FilesInv'
  BY <1>10 DEF Backup, BackupFails, IOFails, budgets
<1>11. ASSUME Switch \/ SwitchFails PROVE FilesInv'
  BY <1>11 DEF Switch, SwitchFails, IOFails, files, budgets
<1>12. ASSUME Release PROVE FilesInv'
  <2>1. listed' \in Version /\ missing' \subseteq Version
    <3>1. CASE Publish
      <4>1. listed + 1 \in Version
        BY <3>1 DEF Publish, Version
      <4> QED BY <3>1, <4>1 DEF Publish
    <3>2. ASSUME NEW v \in missing, Upload(v) PROVE listed' \in Version /\ missing' \subseteq Version
      BY <3>2 DEF Upload
    <3> QED BY <1>12, <3>1, <3>2 DEF Release
  <2>2. UNCHANGED <<channel, files, pc, image, upd, target, worked, ioFails>>
    BY <1>12 DEF Release, Publish, Upload, budgets
  <2> QED BY <2>1, <2>2 DEF files
<1>13. ASSUME Crash PROVE FilesInv'
  BY <1>13 DEF Crash, files
<1>14. ASSUME UNCHANGED vars PROVE FilesInv'
  BY <1>14 DEF vars, files, budgets
<1> QED
  BY <1>1, <1>2, <1>3, <1>4, <1>5, <1>6, <1>7, <1>8, <1>9, <1>10, <1>11, <1>12, <1>13,
     <1>14 DEF Next, Startup, Rollback, Confirm, Update

(* A node that has run one release always has a program that has proved      *)
(* itself to go back to, wherever an update, a rollback or the confirmation  *)
(* of an update was cut short.                                               *)
THEOREM FallbackAlwaysExists == Spec => []FallbackExists
<1>1. FilesInv => FallbackExists
  BY DEF FilesInv
<1> QED BY <1>1, FilesInit, FilesStep, PTL DEF Spec
-----------------------------------------------------------------------------
(* The persisted and the loaded state.                                      *)
StatesOK ==
  /\ disk \in State /\ mem \in State
  /\ condemned \subseteq Version
  /\ crashes \in Nat

LEMMA StatesInit == Init => StatesOK
  BY DEF Init, StatesOK, State, Zero

LEMMA StatesStep == FilesInv /\ StatesOK /\ [Next]_vars => StatesOK'
<1> SUFFICES ASSUME FilesInv, StatesOK, [Next]_vars PROVE StatesOK'
  OBVIOUS
<1> USE DEF StatesOK, State, FilesInv, FilesOK, ProcessOK
<1>1. ASSUME Start \/ StartNormal \/ StartCounted \/ StartPending \/ Connect PROVE StatesOK'
  BY <1>1 DEF Start, StartNormal, StartCounted, StartPending, Connect, ClearCrashCount,
              SaveState, Zero, budgets
<1>2. ASSUME TooManyStarts \/ HealthTimeout \/ HealthTimeoutFails PROVE StatesOK'
  BY <1>2 DEF TooManyStarts, HealthTimeout, HealthTimeoutFails, RestoreBackup, budgets
<1>3. ASSUME LockAndReexec PROVE StatesOK'
  BY <1>3 DEF LockAndReexec, Locked, SaveState, Zero
<1>4. ASSUME Switched PROVE StatesOK'
  BY <1>4 DEF Switched, SaveState, Zero
<1>8. ASSUME UpToDate PROVE StatesOK'
  BY <1>8 DEF UpToDate, SaveState, Zero
<1>9. ASSUME Download PROVE StatesOK'
  <2>1. mem' \in State
    BY <1>9 DEF Download
  <2> QED BY <1>9, <2>1 DEF Download, SaveState, Zero
<1>5. ASSUME MarkHealthy \/ MarkHealthyFails PROVE StatesOK'
  BY <1>5 DEF MarkHealthy, MarkHealthyFails, ClearCrashCount, SaveState, Zero
<1>6. ASSUME \/ FetchHash \/ FetchProgram \/ DownloadFails
             \/ Backup \/ BackupFails \/ Switch \/ SwitchFails \/ Release
      PROVE  StatesOK'
  BY <1>6 DEF FetchHash, FetchProgram, DownloadFails, Backup, BackupFails, Switch,
              SwitchFails, Release, Publish, Upload, budgets
<1>7. ASSUME Crash \/ UNCHANGED vars PROVE StatesOK'
  BY <1>7 DEF Crash, vars, budgets
<1> QED
  BY <1>1, <1>2, <1>3, <1>4, <1>5, <1>6, <1>7, <1>8, <1>9
     DEF Next, Startup, Rollback, Confirm, Update

PendingOK == pending \in BOOLEAN

LEMMA PendingStep == PendingOK /\ [Next]_vars => PendingOK'
  BY DEF PendingOK, IsPostUpdatePending, Next, Startup, Rollback, Confirm, Update, vars, Start, StartNormal,
     StartCounted, StartPending, Connect, TooManyStarts, HealthTimeout, RestoreBackup,
     HealthTimeoutFails, LockAndReexec, MarkHealthy, MarkHealthyFails, UpToDate, Download,
     FetchHash, FetchProgram, DownloadFails, Backup, BackupFails, Switch, SwitchFails, Switched,
     Release, Publish, Upload, Crash

UpdaterInv == FilesInv /\ StatesOK /\ PendingOK

LEMMA UpdaterInvariant == Spec => []UpdaterInv
<1>1. Init => UpdaterInv
  BY FilesInit, StatesInit DEF UpdaterInv, Init, PendingOK
<1>2. UpdaterInv /\ [Next]_vars => UpdaterInv'
  BY FilesStep, StatesStep, PendingStep DEF UpdaterInv
<1> QED BY <1>1, <1>2, PTL DEF Spec

(* Every variable keeps its type in every behaviour.                        *)
THEOREM TypeCorrect == Spec => []TypeOK
<1>1. UpdaterInv => TypeOK
  BY DEF UpdaterInv, FilesInv, FilesOK, ProcessOK, StatesOK, PendingOK, TypeOK
<1> QED BY <1>1, UpdaterInvariant, PTL
-----------------------------------------------------------------------------
(* The versions about are of releases that have their files; the lock on     *)
(* disk is of a condemned version; and once the newest release is condemned, *)
(* its lock is in place on disk and in memory.  While it is in memory no     *)
(* update or rollback is under way that could take it away.                  *)
Older ==
  /\ image \in Ready /\ target \in Ready
  /\ self # None => self \in Ready
  /\ bak # None => bak \in Ready
  /\ condemned \subseteq Ready

Loaded == pc \notin {"down", "start"}

Locks(v) == Loaded /\ mem.locked = v

LocksKnown ==
  /\ disk.locked # None => disk.locked \in condemned
  /\ Loaded /\ mem.locked # None => mem.locked \in Ready
  /\ upd # "idle" => mem.locked = None /\ target \notin condemned

NewestCondemned ==
  /\ \A v \in condemned : Newest(v) => disk.locked = v /\ (Loaded => mem.locked = v)
  /\ \A v \in Version : Newest(v) /\ (v \in condemned \/ Locks(v)) =>
       bak = None /\ upd = "idle" /\ pc \notin {"counted", "restored"}

LockInv == Older /\ LocksKnown /\ NewestCondemned

LEMMA LockInit == Init => LockInv
  BY VersionAssumption DEF Init, LockInv, Older, Ready, LocksKnown, NewestCondemned, Loaded, Locks, Zero

LEMMA LockStep == UpdaterInv /\ LockInv /\ [Next]_vars => LockInv'
<1> SUFFICES ASSUME UpdaterInv, LockInv, [Next]_vars PROVE LockInv'
  OBVIOUS
<1> USE VersionAssumption DEF LockInv, Older, LocksKnown, NewestCondemned, Loaded, Locks
<1> USE DEF UpdaterInv, FilesInv, FilesOK, ProcessOK, WhereImageIs, StatesOK, State, Version
<1>0. ASSUME UNCHANGED releases PROVE Ready' = Ready /\ \A v : Newest(v)' <=> Newest(v)
  BY <1>0 DEF releases, Ready, Newest
<1>1. ASSUME Start PROVE LockInv'
  BY <1>1, <1>0 DEF Start, files
<1>2. ASSUME StartNormal PROVE LockInv'
  BY <1>2, <1>0 DEF StartNormal, ClearCrashCount, SaveState, Zero, files
<1>3. ASSUME StartCounted PROVE LockInv'
  BY <1>3, <1>0 DEF StartCounted, SaveState, Zero, files
<1>4. ASSUME StartPending \/ Connect \/ HealthTimeoutFails PROVE LockInv'
  BY <1>4, <1>0 DEF StartPending, Connect, HealthTimeoutFails, files
<1>5. ASSUME TooManyStarts \/ HealthTimeout PROVE LockInv'
  BY <1>5, <1>0 DEF TooManyStarts, HealthTimeout, RestoreBackup
<1>6. ASSUME LockAndReexec PROVE LockInv'
  <2>1. mem' \in State /\ mem'.locked = image
    BY <1>6 DEF LockAndReexec, Locked
  <2>2. (\A v \in condemned : ~Newest(v)) /\ upd = "idle" /\ self \in Version
    BY <1>6 DEF LockAndReexec
  <2>3. condemned' \subseteq condemned \cup {image} /\ disk'.locked \in {image, disk.locked, None}
    BY <1>6, <2>1 DEF LockAndReexec, SaveState, Zero
  <2>4. image \in condemned' => disk'.locked = image \/ image \in condemned
    BY <1>6, <2>1 DEF LockAndReexec, SaveState, Zero
  <2>5. LocksKnown'
    BY <1>6, <2>1, <2>2 DEF LockAndReexec, SaveState, Zero, Reexec
  <2>6. Older'
    BY <1>0, <1>6, <2>2, <2>3 DEF LockAndReexec, Reexec, files
  <2>7. bak = None
    BY <1>6 DEF LockAndReexec
  <2> QED BY <1>0, <1>6, <2>2, <2>3, <2>4, <2>5, <2>6, <2>7 DEF LockAndReexec, Reexec, files
<1>7. ASSUME MarkHealthy \/ MarkHealthyFails PROVE LockInv'
  BY <1>7, <1>0 DEF MarkHealthy, MarkHealthyFails, ClearCrashCount, SaveState, Zero, files
<1>8. ASSUME UpToDate PROVE LockInv'
  <2>1. UNCHANGED <<self, bak, mem, pc, image, upd, target>> /\ upd = "idle" /\ Loaded
    BY <1>8 DEF UpToDate, MayCheck, files
  <2>2. \/ disk' = mem /\ condemned' = condemned \cup ({mem.locked} \ {None})
        \/ UNCHANGED <<disk, condemned>>
        \/ disk' = Zero /\ condemned' = {}
    BY <1>8 DEF UpToDate, SaveState
  <2>3. Older'
    BY <1>0, <1>8, <2>1, <2>2 DEF UpToDate
  <2>4. LocksKnown'
    BY <1>0, <1>8, <2>1, <2>2 DEF UpToDate, Zero
  <2>5. NewestCondemned'
    BY <1>0, <1>8, <2>1, <2>2 DEF UpToDate, Zero
  <2> QED BY <2>3, <2>4, <2>5
<1>9. ASSUME Download PROVE LockInv'
  <2>1. target' \in Found /\ mem.locked # target'
    BY <1>9 DEF Download, IsLocked
  <2>2. Newest(target')
    BY <2>1, FoundIsNewest
  <2>3. target' \in Ready /\ target' \notin condemned
    BY <1>9, <2>1, <2>2 DEF Newest, Download, MayCheck
  <2>4. \A v \in condemned : ~Newest(v)
    <3>1. ASSUME NEW v \in condemned, Newest(v) PROVE v = target'
      BY <2>2, <2>3, <3>1 DEF Newest, Ready
    <3> QED BY <2>3, <3>1
  <2>5. mem' \in State /\ mem'.locked = None
    BY <1>9 DEF Download
  <2>6. \/ condemned' = condemned /\ disk'.locked \in {None, disk.locked}
        \/ condemned' = {} /\ disk'.locked = None
    BY <1>9, <2>5 DEF Download, SaveState, Zero
  <2>7. Older' /\ LocksKnown'
    BY <1>0, <1>9, <2>3, <2>5, <2>6 DEF Download, files
  <2>8. NewestCondemned'
    BY <1>0, <1>9, <2>4, <2>6 DEF Download
  <2> QED BY <2>7, <2>8
<1>10. ASSUME FetchHash \/ FetchProgram \/ DownloadFails \/ Backup \/ BackupFails
       PROVE  LockInv'
  BY <1>10, <1>0 DEF FetchHash, FetchProgram, DownloadFails, Backup, BackupFails, files
<1>11. ASSUME Switch \/ SwitchFails PROVE LockInv'
  BY <1>11, <1>0 DEF Switch, SwitchFails, files
<1>12. ASSUME Switched PROVE LockInv'
  BY <1>12, <1>0 DEF Switched, SaveState, Zero, Reexec, files
<1>13. ASSUME Release PROVE LockInv'
  <2>1. Ready \subseteq Ready'
    BY <1>13 DEF Release, Publish, Upload, Ready
  <2>2. UNCHANGED <<files, disk, mem, pc, image, upd, target, condemned>>
    BY <1>13 DEF Release, Publish, Upload
  <2>3. ASSUME NEW v \in Ready, Newest(v)' PROVE Newest(v)
    BY <2>1, <2>3 DEF Newest
  <2>4. Older' /\ LocksKnown'
    BY <2>1, <2>2 DEF files
  <2>5. NewestCondemned'
    BY <2>2, <2>3 DEF files
  <2> QED BY <2>4, <2>5
<1>14. ASSUME Crash \/ UNCHANGED vars PROVE LockInv'
  BY <1>14, <1>0 DEF Crash, vars, files
<1> QED
  BY <1>1, <1>2, <1>3, <1>4, <1>5, <1>6, <1>7, <1>8, <1>9, <1>10, <1>11, <1>12, <1>13,
     <1>14 DEF Next, Startup, Rollback, Confirm, Update

(* A release that was rolled back and locked never comes back, although      *)
(* later releases release the lock.                                          *)
THEOREM LockedNeverReinstalled == Spec => NeverReinstalled
<1>1. UpdaterInv /\ LockInv /\ [Next]_vars
        => [self' # self /\ upd = "moved" /\ upd' = "switched"
              => self' \notin condemned]_vars
  <2> SUFFICES ASSUME LockInv, UpdaterInv, [Next]_vars, upd = "moved", upd' = "switched"
               PROVE  self' \notin condemned
    OBVIOUS
  <2>1. Switch
    BY VersionAssumption
       DEF UpdaterInv, FilesInv, ProcessOK, WhereImageIs, Next, Startup, Rollback, Confirm,
           Update, vars, Start, StartNormal, StartCounted, StartPending, Connect,
           TooManyStarts, HealthTimeout, RestoreBackup, HealthTimeoutFails, LockAndReexec,
           MarkHealthy, MarkHealthyFails, UpToDate, Download, FetchHash, FetchProgram,
           DownloadFails, Backup, BackupFails, SwitchFails, Switched, Reexec, Release, Publish,
           Upload, Crash
  <2> QED BY <2>1 DEF Switch, LockInv, LocksKnown
<1> QED BY <1>1, UpdaterInvariant, LockInit, LockStep, PTL DEF Spec, NeverReinstalled
-----------------------------------------------------------------------------
(* An update goes forward.                                                  *)
Forward == upd # "idle" => target > image

LEMMA ForwardStep == UpdaterInv /\ Forward /\ [Next]_vars => Forward'
<1> SUFFICES ASSUME UpdaterInv, Forward, [Next]_vars PROVE Forward'
  OBVIOUS
<1> USE DEF Forward, UpdaterInv, FilesInv, ProcessOK, WhereImageIs
<1>1. CASE Download
  BY <1>1 DEF Download
<1>2. ASSUME Startup \/ Rollback \/ Confirm \/ Release PROVE Forward'
  BY <1>2 DEF Startup, Rollback, Confirm, Start, StartNormal, StartCounted, StartPending,
     Connect, TooManyStarts, HealthTimeout, RestoreBackup, HealthTimeoutFails, LockAndReexec,
     Reexec, MarkHealthy, MarkHealthyFails, Release, Publish, Upload
<1>3. ASSUME \/ UpToDate \/ FetchHash \/ FetchProgram \/ DownloadFails \/ Backup \/ BackupFails \/ Switch \/ SwitchFails
             \/ Switched
      PROVE  Forward'
  BY <1>3 DEF UpToDate, MayCheck, FetchHash, FetchProgram, DownloadFails, Backup, BackupFails, Switch, SwitchFails,
     Switched, Reexec
<1>4. ASSUME Crash \/ UNCHANGED vars PROVE Forward'
  BY <1>4 DEF Crash, vars
<1> QED BY <1>1, <1>2, <1>3, <1>4 DEF Next, Update

(* What a step does to the two programs of the rollout, told apart by what    *)
(* it does to the files.                                                    *)
LEMMA PromiseStep == UpdaterInv /\ Forward /\ [Next]_vars => [Promise!Next]_(Promise!vars)
<1> SUFFICES ASSUME UpdaterInv, Forward, [Next]_vars PROVE Promise!Next
  BY DEF Promise!Next
<1> USE VersionAssumption DEF UpdaterInv, FilesInv, FilesOK, ProcessOK, WhereImageIs,
        FallbackExists, Promise!Next
<1>1. ASSUME UNCHANGED <<files, worked>>, ioFails' >= ioFails PROVE Promise!Next
  BY <1>1 DEF files
<1>2. CASE Connect
  BY <1>2 DEF Connect, files, budgets, Promise!Prove
<1>3. ASSUME TooManyStarts \/ HealthTimeout PROVE Promise!Next
  BY <1>3 DEF TooManyStarts, HealthTimeout, RestoreBackup, budgets, Promise!GiveUp
<1>4. CASE MarkHealthy
  BY <1>4 DEF MarkHealthy, ClearCrashCount, SaveState, Zero, IOFails, Promise!Confirm, Promise!Lose
<1>5. CASE Backup
  BY <1>5 DEF Backup, budgets, Promise!Confirm
<1>6. CASE BackupFails
  BY <1>6 DEF BackupFails, IOFails, Promise!Confirm, Promise!Lose
<1>7. CASE Switch
  BY <1>7 DEF Switch, budgets, Forward, Promise!Begin, Version
<1>8. CASE SwitchFails
  BY <1>8 DEF SwitchFails, IOFails, files
<1>9. ASSUME Start \/ StartNormal \/ StartCounted \/ StartPending
      PROVE  UNCHANGED <<files, worked>> /\ ioFails' >= ioFails
  BY <1>9 DEF Start, StartNormal, StartCounted, StartPending, ClearCrashCount, SaveState, Zero,
     IOFails, files, budgets
<1>10. ASSUME HealthTimeoutFails \/ LockAndReexec \/ MarkHealthyFails \/ Release \/ Crash
       PROVE  UNCHANGED <<files, worked>> /\ ioFails' >= ioFails
  BY <1>10 DEF HealthTimeoutFails, LockAndReexec, MarkHealthyFails, Release, Publish, Upload, Crash,
     SaveState, Zero,
     IOFails, files, budgets
<1>11. ASSUME \/ UpToDate \/ Download \/ FetchHash \/ FetchProgram \/ DownloadFails
              \/ Switched \/ UNCHANGED vars
       PROVE  UNCHANGED <<files, worked>> /\ ioFails' >= ioFails
  BY <1>11 DEF UpToDate, Download, FetchHash, FetchProgram, DownloadFails, Switched, SaveState, Zero, IOFails, files, budgets,
     vars
<1> QED
  BY <1>1, <1>2, <1>3, <1>4, <1>5, <1>6, <1>7, <1>8, <1>9, <1>10, <1>11
     DEF Next, Startup, Rollback, Confirm, Update

(* The updater implements a rollout, for any releases and any number of deaths *)
(* and failures: Begin is Switch, GiveUp is a .bak that is renamed back,       *)
(* Confirm is a .bak that is removed.                                        *)
THEOREM UpdaterKeepsPromise == Spec => KeepsPromise
<1>1. Init => Forward /\ Promise!Init
  BY VersionAssumption DEF Init, Forward, Promise!Init, Version
<1> QED
  BY <1>1, UpdaterInvariant, ForwardStep, PromiseStep, PTL DEF Spec, KeepsPromise, Promise!Spec
-----------------------------------------------------------------------------
(***************************************************************************)
(* The daily updates.                                                      *)
(***************************************************************************)
(* A worker is at a step of its component, and the file it has open exists   *)
(* under the name that it knows.                                             *)
Placed(r) ==
  /\ r.pc = "unpack" => component \in {"mihomo", "cfst"}
  /\ r.pc = "remove" => component = "mihomo"
  /\ r.pc = "replace" => component # "cfst"
  /\ r.pc = "chmod" => component = "cloudflared"
  /\ r.pc = "reload" => component = "geo"
  /\ r.pc = "save" => component # "cloudflared"
  /\ r.pc = "stalled" => component # "mihomo"
  /\ r.pc \in Updating /\ component # "cloudflared" => r.version # Nothing
  /\ r.at = "temp" => temp # Nothing
  /\ r.at = "bin" => bin # Nothing /\ component # "mihomo"
  /\ r.pc \notin Updating \cup {"stalled"} => r.at = Nothing

Alone == \A v, w \in Worker : worker[v].pc \in Updating /\ worker[w].pc \in Updating => v = w

StoreOK ==
  /\ component \in {"geo", "mihomo", "cloudflared", "cfst"} /\ zip \in BOOLEAN
  /\ late \in BOOLEAN /\ enabled \in BOOLEAN /\ checked \in BOOLEAN
  /\ release \in ReleaseNumber /\ row \in ReleaseNumber \cup {Nothing}
  /\ temp \in File \cup {Nothing} /\ bin \in File \cup {Nothing}
  /\ executable \in BOOLEAN /\ db \in BOOLEAN /\ disturbed \in BOOLEAN /\ botched \in BOOLEAN
  /\ faults \in 0 .. MaxFault /\ manuals \in 0 .. MaxManual

PlaceInv ==
  /\ StoreOK /\ worker \in [Worker -> Job]
  /\ \A w \in Worker : Placed(worker[w])
  /\ component = "mihomo" => Alone

LEMMA RestingType == Resting \in Job
  BY RetryAssumption DEF Resting, Job, Stages, Empty, File, Half

LEMMA PlaceInit == DailyInit => PlaceInv
<1> SUFFICES ASSUME DailyInit PROVE PlaceInv
  OBVIOUS
<1>1. Of(0) \in File /\ 0 \in ReleaseNumber
  BY DailyBoundAssumption DEF Of, File, Half, ReleaseNumber
<1>2. StoreOK /\ worker \in [Worker -> Job]
  <2>1. executable \in BOOLEAN /\ db \in BOOLEAN
    BY DEF DailyInit
  <2>2. worker \in [Worker -> Job]
    BY RestingType DEF DailyInit
  <2>3. row \in ReleaseNumber \cup {Nothing} /\ temp \in File \cup {Nothing} /\ bin \in File \cup {Nothing}
    BY <1>1 DEF DailyInit
  <2>4. release \in ReleaseNumber /\ faults \in 0 .. MaxFault /\ manuals \in 0 .. MaxManual
    BY <1>1, DailyBoundAssumption DEF DailyInit
  <2> QED BY <2>1, <2>2, <2>3, <2>4 DEF DailyInit, StoreOK
<1>3. \A w \in Worker : worker[w].pc = "rest" /\ worker[w].at = Nothing
  BY DEF DailyInit, Resting
<1>4. \A w \in Worker : Placed(worker[w])
  BY <1>3, NothingAssumption DEF Placed, Updating
<1> QED BY <1>2, <1>3, <1>4 DEF PlaceInv, Alone, Updating

(* One goroutine goes from one step to the next, and the files that exist    *)
(* stay.                                                                     *)
LEMMA OneMoves ==
  ASSUME PlaceInv, NEW w \in Worker, NEW r \in Job, worker' = [worker EXCEPT ![w] = r],
         UNCHANGED config, StoreOK',
         temp # Nothing => temp' # Nothing, bin # Nothing => bin' # Nothing,
         Placed(worker[w])',
         component = "mihomo" /\ r.pc \in Updating =>
           worker[w].pc \in Updating \/ \A v \in Worker : worker[v].pc \notin Updating
  PROVE  PlaceInv'
<1>1. worker' \in [Worker -> Job] /\ worker'[w] = r /\ \A v \in Worker \ {w} : worker'[v] = worker[v]
  BY DEF PlaceInv
<1>3. ASSUME NEW v \in Worker PROVE Placed(worker[v])'
  BY <1>1 DEF PlaceInv, Placed, config
<1>4. component' = "mihomo" => Alone'
  BY <1>1 DEF PlaceInv, Alone, config
<1> QED BY <1>1, <1>3, <1>4 DEF PlaceInv
-----------------------------------------------------------------------------
LEMMA FileFields ==
  /\ Empty \in File /\ \A r \in ReleaseNumber \cup {Nothing} : Of(r) \in File
  /\ \A f \in File : f[1] \in ReleaseNumber \cup {Nothing} /\ f[2] \in ReleaseNumber \cup {Nothing}
  /\ \A f, g \in File, h \in Half : [f EXCEPT ![h] = g[h]] \in File
  BY DEF Empty, File, Of, Half

(* What a job may become.                                                    *)
LEMMA JobFields ==
  ASSUME NEW r \in Job
  PROVE  /\ r.pc \in Stages /\ r.version \in ReleaseNumber \cup {Nothing} /\ r.body \in File
         /\ r.at \in {"temp", "bin", Nothing} /\ r.try \in 0 .. MaxRetries
  BY DEF Job

LEMMA PcEdit ==
  ASSUME NEW r \in Job, NEW step \in Stages, NEW q, q = [r EXCEPT !.pc = step]
  PROVE  q \in Job /\ q.pc = step /\ q.at = r.at /\ q.version = r.version /\ q.body = r.body
  BY DEF Job

LEMMA LocalType == StoreOK => Local \in ReleaseNumber \cup {Nothing}
  BY FileFields DEF StoreOK, Local, Whole

LEMMA QueuedPlaced ==
  ASSUME PlaceInv, NEW w \in Worker, Queued(w), UNCHANGED <<config, temp, bin>>, StoreOK'
  PROVE  PlaceInv'
<1> DEFINE r == [Resting EXCEPT !.pc = "queued", !.auto = TRUE, !.today = TRUE]
<1>1. r \in Job /\ r.pc = "queued" /\ r.at = Nothing /\ worker' = [worker EXCEPT ![w] = r] /\ worker'[w] = r
  BY RestingType DEF Queued, Resting, Job, Stages, PlaceInv
<1> HIDE DEF r
<1>2. Placed(worker[w])'
  BY <1>1, NothingAssumption DEF Placed, Updating
<1> QED BY <1>1, <1>2, OneMoves DEF Updating

LEMMA RestsPlaced ==
  ASSUME PlaceInv, NEW w \in Worker, Rests(w), UNCHANGED config, StoreOK',
         temp # Nothing => temp' # Nothing, bin # Nothing => bin' # Nothing
  PROVE  PlaceInv'
<1>1. Resting \in Job /\ Resting.pc = "rest" /\ Resting.at = Nothing /\ worker'[w] = Resting
  BY RestingType DEF Rests, Resting, PlaceInv
<1>2. Placed(worker[w])'
  BY <1>1, NothingAssumption DEF Placed, Updating
<1> QED BY <1>1, <1>2, OneMoves DEF Rests, Updating

(* A goroutine that goes on to a step, when it may.                         *)
LEMMA MovesPlaced ==
  ASSUME PlaceInv, NEW w \in Worker, NEW step \in Stages, Moves(w, step), UNCHANGED config, StoreOK',
         temp # Nothing => temp' # Nothing, bin # Nothing => bin' # Nothing,
         Placed([worker[w] EXCEPT !.pc = step]),
         component = "mihomo" /\ step \in Updating =>
           worker[w].pc \in Updating \/ \A v \in Worker : worker[v].pc \notin Updating
  PROVE  PlaceInv'
<1> DEFINE r == [worker[w] EXCEPT !.pc = step]
<1>1. r \in Job /\ r.pc = step /\ r.at = worker[w].at /\ worker' = [worker EXCEPT ![w] = r] /\ worker'[w] = r
  BY JobFields DEF Moves, PlaceInv, Job
<1> HIDE DEF r
<1>2. Placed(worker[w])'
  BY <1>1 DEF Placed, config, r
<1> QED BY <1>1, <1>2, OneMoves
-----------------------------------------------------------------------------
(* The files keep their types.                                               *)
LEMMA WrittenType ==
  ASSUME PlaceInv, NEW w \in Worker, Written(w, 1) \/ Written(w, 2)
  PROVE  /\ temp' \in File \cup {Nothing} /\ bin' \in File \cup {Nothing}
         /\ temp # Nothing => temp' # Nothing
         /\ bin # Nothing => bin' # Nothing
<1>1. /\ worker[w].body \in File /\ temp \in File \cup {Nothing} /\ bin \in File \cup {Nothing}
      /\ worker[w].at = "temp" => temp \in File
      /\ worker[w].at = "bin" => bin \in File
  BY DEF PlaceInv, StoreOK, Placed, Job
<1>2. PICK h \in Half : Written(w, h)
  BY DEF Half
<1>3. ASSUME NEW f \in File, NEW g \in File PROVE [f EXCEPT ![h] = g[h]] \in File
  BY <1>3 DEF File
<1>4. temp' = temp \/ temp' \in File
  BY <1>1, <1>2, <1>3 DEF Written
<1>5. bin' = bin \/ bin' \in File
  BY <1>1, <1>2, <1>3 DEF Written
<1> QED BY <1>1, <1>4, <1>5, NothingAssumption

LEMMA StoreGoes ==
  ASSUME PlaceInv, NEW w \in Worker, Goes(w) PROVE StoreOK'
<1> USE DEF config, clock, store, history, bounds
<1>1. /\ worker[w] \in Job /\ worker[w].version \in ReleaseNumber \cup {Nothing} /\ worker[w].body \in File
      /\ StoreOK
  BY DEF PlaceInv, Job
<1>2. CASE Check(w)
  <2>1. checked' \in BOOLEAN
    BY <1>1, <1>2 DEF Check, StoreOK, Job
  <2> QED BY <1>1, <1>2, <2>1 DEF Check, StoreOK
<1>3. CASE ReadLocal(w) \/ Compare(w) \/ Begin(w) \/ Save(w)
  <2>1. disturbed' \in BOOLEAN /\ botched' \in BOOLEAN
    BY <1>1, <1>3 DEF ReadLocal, Compare, Begin, Save, StoreOK
  <2>2. faults' \in 0 .. MaxFault
    BY <1>1, <1>3, DailyBoundAssumption DEF ReadLocal, Compare, Begin, Save, Fault, StoreOK
  <2> QED BY <1>1, <1>3, <2>1, <2>2 DEF ReadLocal, Compare, Begin, Save, StoreOK
<1>4. CASE Request(w)
  BY <1>1, <1>4, FileFields DEF Request, StoreOK
<1>12. CASE RemoveOld(w)
  <2>1. faults' \in 0 .. MaxFault
    BY <1>1, <1>12, DailyBoundAssumption DEF RemoveOld, Fault, StoreOK
  <2>2. bin' \in File \cup {Nothing}
    BY <1>1, <1>12 DEF RemoveOld, StoreOK
  <2> QED BY <1>1, <1>12, <2>1, <2>2 DEF RemoveOld, StoreOK
<1>5. CASE WriteFirst(w) \/ WriteSecond(w)
  <2>1. temp' \in File \cup {Nothing} /\ bin' \in File \cup {Nothing}
    <3>1. \/ Written(w, 1)
          \/ Written(w, 2)
      BY <1>5 DEF WriteFirst, WriteSecond
    <3> QED BY <1>1, <3>1, WrittenType
  <2> QED BY <1>1, <1>5, <2>1 DEF WriteFirst, WriteSecond, StoreOK
<1>6. CASE UnpackCore(w)
  <2>1. faults' \in 0 .. MaxFault
    BY <1>1, <1>6, DailyBoundAssumption DEF UnpackCore, Fault, StoreOK
  <2> QED BY <1>1, <1>6, <2>1 DEF UnpackCore, StoreOK
<1>7. CASE extractTarGz(w) \/ extractZip(w)
  <2>1. temp' \in File \cup {Nothing} /\ bin' \in File \cup {Nothing}
    BY <1>1, <1>7, FileFields DEF extractTarGz, extractZip, Opens, Abandoned, StoreOK
  <2>2. executable' \in BOOLEAN
    BY <1>1, <1>7 DEF extractTarGz, extractZip, Opens, StoreOK
  <2> QED BY <1>1, <1>7, <2>1, <2>2 DEF extractTarGz, extractZip, StoreOK
<1>8. CASE Unpacked(w)
  <2>1. temp' \in File \cup {Nothing} /\ bin' \in File \cup {Nothing}
    <3>1. bin \in File /\ 2 \in Half
      BY <1>1, <1>8 DEF Unpacked, Unpacking, StoreOK, PlaceInv, Placed, Half
    <3>2. [bin EXCEPT ![2] = worker[w].body[2]] \in File
      BY <1>1, <3>1, FileFields
    <3> QED BY <1>1, <1>8, <3>1, <3>2 DEF Unpacked, Abandoned, StoreOK
  <2> QED BY <1>1, <1>8, <2>1 DEF Unpacked, StoreOK
<1>9. CASE Replace(w)
  <2>1. db' \in BOOLEAN /\ executable' \in BOOLEAN
    BY <1>1, <1>9 DEF Replace, TakesPlace, StoreOK
  <2> QED BY <1>1, <1>9, <2>1 DEF Replace, TakesPlace, StoreOK
<1>10. CASE Chmod(w)
  BY <1>1, <1>10 DEF Chmod, StoreOK
<1>11. CASE Reload(w)
  <2>1. db' \in BOOLEAN
    BY <1>11 DEF Reload, Whole
  <2> QED BY <1>1, <1>11, <2>1 DEF Reload, StoreOK
<1> QED BY <1>2, <1>3, <1>4, <1>5, <1>6, <1>7, <1>8, <1>9, <1>10, <1>11, <1>12 DEF Goes

LEMMA StoreFails ==
  ASSUME PlaceInv, NEW w \in Worker, Fails(w) PROVE StoreOK'
<1> USE DEF config, clock, store, history, bounds
<1>1. StoreOK /\ worker[w] \in Job /\ worker[w].body \in File
  BY DEF PlaceInv, Job
<1>2. faults' \in 0 .. MaxFault /\ manuals' = manuals
  <2>1. Fault /\ manuals' = manuals
    BY DEF Fails, BeginFails, RequestFails, WriteFails, Stalls, OpenFails, RestFails, ReplaceFails,
           CoreUnrunnable, ChmodFails, ReloadFails, SaveFails
  <2> QED BY <1>1, <2>1, DailyBoundAssumption DEF Fault, StoreOK
<1>3. CASE BeginFails(w) \/ RequestFails(w) \/ WriteFails(w) \/ Stalls(w) \/ OpenFails(w)
  <2>1. temp' \in File \cup {Nothing}
    BY <1>1, <1>3 DEF BeginFails, RequestFails, WriteFails, Stalls, OpenFails, Abandoned, StoreOK
  <2>2. botched' \in BOOLEAN
    BY <1>1, <1>3 DEF BeginFails, RequestFails, WriteFails, Stalls, OpenFails, StoreOK
  <2> QED BY <1>1, <1>2, <1>3, <2>1, <2>2 DEF BeginFails, RequestFails, WriteFails, Stalls, OpenFails, StoreOK
<1>4. CASE RestFails(w)
  <2>1. bin \in File /\ 2 \in Half
    BY <1>1, <1>4 DEF RestFails, Unpacking, StoreOK, PlaceInv, Placed, Half
  <2>2. bin' \in File
    BY <1>1, <1>4, <2>1, FileFields DEF RestFails
  <2>3. temp' \in File \cup {Nothing}
    BY <1>1, <1>4 DEF RestFails, Abandoned, StoreOK
  <2> QED BY <1>1, <1>2, <1>4, <2>2, <2>3 DEF RestFails, StoreOK
<1>5. CASE ReplaceFails(w) \/ CoreUnrunnable(w) \/ ReloadFails(w)
  <2>1. db' \in BOOLEAN
    BY <1>1, <1>5 DEF ReplaceFails, CoreUnrunnable, ReloadFails, StoreOK
  <2> QED BY <1>1, <1>2, <1>5, <2>1 DEF ReplaceFails, CoreUnrunnable, ReloadFails, TakesPlace, StoreOK
<1>6. CASE ChmodFails(w) \/ SaveFails(w)
  BY <1>1, <1>2, <1>6 DEF ChmodFails, SaveFails, StoreOK
<1> QED BY <1>3, <1>4, <1>5, <1>6 DEF Fails

LEMMA StoreStep == PlaceInv /\ [DailyNext]_dailyVars => StoreOK'
<1> USE DEF config, clock, store, history, bounds
<1> SUFFICES ASSUME PlaceInv, [DailyNext]_dailyVars PROVE StoreOK'
  OBVIOUS
<1>1. StoreOK
  BY DEF PlaceInv
<1>2. CASE UNCHANGED dailyVars
  BY <1>1, <1>2 DEF dailyVars, StoreOK
<1>3. CASE ThreeOClock \/ NewDay
  BY <1>1, <1>3 DEF ThreeOClock, NewDay, StoreOK
<1>4. CASE Publishes
  <2>1. release' \in ReleaseNumber
    BY <1>1, <1>4, DailyBoundAssumption DEF Publishes, StoreOK, ReleaseNumber
  <2> QED BY <1>1, <1>4, <2>1 DEF Publishes, StoreOK
<1>5. CASE SwitchOff
  <2>1. manuals' \in 0 .. MaxManual
    BY <1>1, <1>5, DailyBoundAssumption DEF SwitchOff, StoreOK
  <2> QED BY <1>1, <1>5, <2>1 DEF SwitchOff, StoreOK
<1>6. CASE Restart
  <2>1. db' \in BOOLEAN /\ disturbed' \in BOOLEAN
    BY <1>1, <1>6 DEF Restart, StoreOK
  <2>2. faults' \in 0 .. MaxFault
    BY <1>1, <1>6, DailyBoundAssumption DEF Restart, Fault, StoreOK
  <2> QED BY <1>1, <1>6, <2>1, <2>2 DEF Restart, StoreOK
<1>7. ASSUME NEW w \in Worker, Tick(w) \/ SwitchOn(w) PROVE StoreOK'
  BY <1>1, <1>7 DEF Tick, SwitchOn, StoreOK
<1>8. ASSUME NEW w \in Worker, UserUpdates(w) \/ UserInstalls(w) PROVE StoreOK'
  <2>1. disturbed' \in BOOLEAN
    BY <1>1, <1>8 DEF UserUpdates, UserInstalls, StoreOK
  <2>2. manuals' \in 0 .. MaxManual
    BY <1>1, <1>8, DailyBoundAssumption DEF UserUpdates, UserInstalls, StoreOK
  <2> QED BY <1>1, <1>8, <2>1, <2>2 DEF UserUpdates, UserInstalls, StoreOK
<1>9. ASSUME NEW w \in Worker, Fails(w) PROVE StoreOK'
  BY <1>9, StoreFails
<1>10. ASSUME NEW w \in Worker, Goes(w) PROVE StoreOK'
  BY <1>10, StoreGoes
<1> QED BY <1>2, <1>3, <1>4, <1>5, <1>6, <1>7, <1>8, <1>9, <1>10 DEF DailyNext
-----------------------------------------------------------------------------
(* Every goroutine stays at a step of its component.                         *)
LEMMA AtStages ==
  /\ Resting.pc = "rest" /\ Resting.at = Nothing
  /\ {"queued", "local", "compare", "begin", "stalled"} \subseteq Stages
  /\ Updating \subseteq Stages
  BY DEF Resting, Stages

(* A goroutine becomes r.                                                    *)
LEMMA Becomes ==
  ASSUME PlaceInv, NEW w \in Worker, NEW r \in Job, worker' = [worker EXCEPT ![w] = r],
         UNCHANGED config, StoreOK', Placed(r)',
         temp # Nothing => temp' # Nothing, bin # Nothing => bin' # Nothing,
         component = "mihomo" /\ r.pc \in Updating =>
           worker[w].pc \in Updating \/ \A v \in Worker : worker[v].pc \notin Updating
  PROVE  PlaceInv'
<1>1. worker'[w] = r
  BY DEF PlaceInv
<1>2. Placed(worker[w])'
  BY <1>1 DEF Placed
<1> QED BY <1>2, OneMoves

LEMMA CheckPlaced ==
  ASSUME PlaceInv, NEW w \in Worker, Check(w), StoreOK' PROVE PlaceInv'
<1>1. worker[w] \in Job /\ worker[w].at = Nothing /\ Local \in ReleaseNumber \cup {Nothing}
  BY LocalType DEF PlaceInv, Placed, Check, Updating
<1>2. UNCHANGED <<config, temp, bin>>
  BY DEF Check, store
<1>3. CASE Rests(w)
  BY <1>2, <1>3, RestsPlaced
<1>4. ASSUME NEW r, r = [worker[w] EXCEPT !.pc = "local", !.today = FALSE],
             worker' = [worker EXCEPT ![w] = r]
      PROVE  PlaceInv'
  <2>1. r \in Job /\ r.pc = "local" /\ r.at = Nothing
    BY <1>1, <1>4 DEF Job, Stages
  <2>2. Placed(r)'
    BY <2>1, NothingAssumption DEF Placed, Updating
  <2> QED BY <1>2, <1>4, <2>1, <2>2, Becomes DEF Updating
<1>5. ASSUME NEW r, r = [worker[w] EXCEPT !.pc = "compare", !.today = FALSE, !.version = Local],
             worker' = [worker EXCEPT ![w] = r]
      PROVE  PlaceInv'
  <2>1. r \in Job /\ r.pc = "compare" /\ r.at = Nothing
    BY <1>1, <1>5 DEF Job, Stages
  <2>2. Placed(r)'
    BY <2>1, NothingAssumption DEF Placed, Updating
  <2> QED BY <1>2, <1>5, <2>1, <2>2, Becomes DEF Updating
<1> QED BY <1>3, <1>4, <1>5 DEF Check

LEMMA BeforePlaced ==
  ASSUME PlaceInv, NEW w \in Worker, ReadLocal(w) \/ Compare(w) \/ Begin(w), StoreOK'
  PROVE  PlaceInv'
<1>1. /\ worker[w] \in Job /\ worker[w].at = Nothing /\ Local \in ReleaseNumber \cup {Nothing}
      /\ release \in ReleaseNumber /\ release # Nothing
  BY LocalType, NothingAssumption DEF PlaceInv, Placed, ReadLocal, Compare, Begin, Updating, StoreOK
<1>2. UNCHANGED <<config, temp, bin>>
  BY DEF ReadLocal, Compare, Begin, store
<1>3. CASE Rests(w)
  BY <1>2, <1>3, RestsPlaced
<1>4. ASSUME NEW step \in {"compare", "begin"}, NEW n \in ReleaseNumber \cup {Nothing}, NEW r,
             r = [worker[w] EXCEPT !.pc = step, !.version = n], worker' = [worker EXCEPT ![w] = r]
      PROVE  PlaceInv'
  <2>1. r \in Job /\ r.pc = step /\ r.at = Nothing
    BY <1>1, <1>4 DEF Job, Stages
  <2>2. Placed(r)'
    BY <1>4, <2>1, NothingAssumption DEF Placed, Updating
  <2> QED BY <1>2, <1>4, <2>1, <2>2, Becomes DEF Updating
<1>5. ASSUME ~CoreLocked, NEW n \in ReleaseNumber \cup {Nothing}, component # "cloudflared" => n # Nothing, NEW r,
             r = [worker[w] EXCEPT !.pc = "request", !.version = n], worker' = [worker EXCEPT ![w] = r]
      PROVE  PlaceInv'
  <2>1. r \in Job /\ r.pc = "request" /\ r.at = Nothing /\ r.version = n
    BY <1>1, <1>5 DEF Job, Stages, Updating
  <2>2. Placed(r)'
    BY <1>2, <1>5, <2>1, NothingAssumption DEF Placed, Updating, config
  <2> QED BY <1>2, <1>5, <2>1, <2>2, Becomes DEF CoreLocked
<1>6. CASE ReadLocal(w)
  BY <1>1, <1>4, <1>6 DEF ReadLocal, PlaceInv
<1>7. CASE Compare(w)
  BY <1>1, <1>3, <1>4, <1>7 DEF Compare, PlaceInv
<1>8. CASE Begin(w)
  BY <1>1, <1>5, <1>8 DEF Begin, PlaceInv
<1> QED BY <1>6, <1>7, <1>8

LEMMA DetachedPlaced ==
  ASSUME PlaceInv, NEW w \in Worker, NEW r \in Job, worker' = Detached(w, r), temp' = Nothing,
         UNCHANGED config, StoreOK', Placed(r)', bin # Nothing => bin' # Nothing,
         component = "mihomo" => r.pc \notin Updating
  PROVE  PlaceInv'
<1>1. worker'[w] = r /\ worker' \in [Worker -> Job]
  BY DEF Detached, PlaceInv, Job
<1>2. ASSUME NEW v \in Worker, v # w
      PROVE  /\ worker'[v].pc = worker[v].pc /\ worker'[v].version = worker[v].version
             /\ worker'[v].at = (IF worker[v].at = "temp" THEN Nothing ELSE worker[v].at)
  BY <1>2 DEF Detached, PlaceInv, Job
<1>3. ASSUME NEW v \in Worker PROVE Placed(worker[v])'
  <2>1. CASE v = w
    BY <1>1, <2>1 DEF Placed
  <2>2. CASE v # w
    BY <1>2, <2>2, NothingAssumption DEF PlaceInv, Placed, config
  <2> QED BY <2>1, <2>2
<1>4. component' = "mihomo" => Alone'
  BY <1>1, <1>2 DEF PlaceInv, Alone, config
<1> QED BY <1>1, <1>3, <1>4 DEF PlaceInv

LEMMA NextTryType ==
  ASSUME PlaceInv, NEW w \in Worker, worker[w].pc \in Updating
  PROVE  /\ NextTry(w) \in Job /\ NextTry(w).at = Nothing
         /\ NextTry(w).pc \in {"rest", "request"}
         /\ NextTry(w).pc = "request" => component = "cfst" /\ NextTry(w).version = worker[w].version
                                           /\ worker[w].version # Nothing
<1>1. worker[w] \in Job /\ (component = "cfst" => worker[w].version # Nothing)
  BY DEF PlaceInv, Placed
<1>2. CASE component = "cfst" /\ worker[w].try \in 1 .. MaxRetries - 1
  <2>1. worker[w].try + 1 \in 0 .. MaxRetries
    BY <1>2, RetryAssumption
  <2>2. PICK q : q = NextTry(w)
    OBVIOUS
  <2>3. q = [worker[w] EXCEPT !.pc = "request", !.at = Nothing, !.body = Empty, !.try = worker[w].try + 1]
    BY <1>2, <2>2 DEF NextTry
  <2>4. q \in Job /\ q.pc = "request" /\ q.at = Nothing /\ q.version = worker[w].version
    BY <1>1, <2>1, <2>3, FileFields DEF Job, Stages, Updating
  <2> QED BY <1>1, <1>2, <2>2, <2>4
<1>3. CASE ~(component = "cfst" /\ worker[w].try \in 1 .. MaxRetries - 1)
  BY <1>3, RestingType DEF NextTry, Resting
<1> QED BY <1>2, <1>3

LEMMA AbandonedPlaced ==
  ASSUME PlaceInv, NEW w \in Worker, worker[w].pc \in Updating, Abandoned(w), UNCHANGED config,
         StoreOK', bin # Nothing => bin' # Nothing
  PROVE  PlaceInv'
<1>1. CASE component \in {"cloudflared", "cfst"}
  <2>1. PICK r : r = NextTry(w)
    OBVIOUS
  <2>2. temp' = Nothing /\ worker' = Detached(w, r)
    BY <1>1, <2>1 DEF Abandoned
  <2>3. /\ r \in Job /\ r.at = Nothing /\ r.pc \in {"rest", "request"}
        /\ r.pc = "request" => component = "cfst" /\ r.version # Nothing
    BY <2>1, NextTryType
  <2>4. Placed(r)'
    BY <2>3, NothingAssumption DEF Placed, Updating, config
  <2> QED BY <2>2, <2>3, <2>4, DetachedPlaced DEF Updating
<1>2. CASE component \notin {"cloudflared", "cfst"}
  BY <1>2, RestsPlaced DEF Abandoned, Rests
<1> QED BY <1>1, <1>2

LEMMA RequestPlaced ==
  ASSUME PlaceInv, NEW w \in Worker, Request(w), StoreOK' PROVE PlaceInv'
<1>1. PICK n : n = IF component \in {"geo", "cloudflared"} THEN release ELSE worker[w].version
  OBVIOUS
<1>2. PICK r : r = [worker[w] EXCEPT !.pc = "write1", !.at = "temp", !.body = Of(n)]
  OBVIOUS
<1>3. worker[w] \in Job /\ worker[w].pc \in Updating /\ n \in ReleaseNumber \cup {Nothing}
  BY <1>1 DEF PlaceInv, StoreOK, Request, Updating, Job
<1>4. r \in Job /\ r.pc = "write1" /\ r.at = "temp" /\ r.version = worker[w].version
  BY <1>2, <1>3, FileFields DEF Job, Stages, Updating
<1>5. worker' = [worker EXCEPT ![w] = r] /\ temp' = Empty /\ UNCHANGED <<config, bin>>
  BY <1>1, <1>2 DEF Request
<1>6. temp' # Nothing
  BY <1>5, FileFields, NothingAssumption
<1>7. Placed(r)'
  BY <1>3, <1>4, <1>5, <1>6, NothingAssumption DEF Placed, PlaceInv, config, Updating
<1> QED BY <1>3, <1>4, <1>5, <1>6, <1>7, Becomes

LEMMA WritePlaced ==
  ASSUME PlaceInv, NEW w \in Worker, WriteFirst(w) \/ WriteSecond(w), StoreOK' PROVE PlaceInv'
<1>1. worker[w] \in Job /\ worker[w].pc \in Updating /\ Placed(worker[w])
  BY DEF PlaceInv, WriteFirst, WriteSecond, Updating
<1>2. /\ temp # Nothing => temp' # Nothing
      /\ bin # Nothing => bin' # Nothing
  <2>1. \/ Written(w, 1)
        \/ Written(w, 2)
    BY DEF WriteFirst, WriteSecond
  <2> QED BY <2>1, WrittenType
<1>3. UNCHANGED config
  BY DEF WriteFirst, WriteSecond
<1>4. ASSUME NEW step \in Updating, Moves(w, step), step = "replace" => component # "cfst",
             step = "unpack" => component \in {"mihomo", "cfst"}, step \in {"write2", "replace", "unpack"}
      PROVE  PlaceInv'
  <2>q. PICK q : q = [worker[w] EXCEPT !.pc = step]
    OBVIOUS
  <2>0. step \in Stages /\ q \in Job /\ q.pc = step /\ q.at = worker[w].at /\ q.version = worker[w].version
    BY <1>1, <1>4, <2>q, AtStages, PcEdit
  <2>2. Placed(q)
    BY <1>1, <1>4, <2>0 DEF Placed, Updating
  <2>1. Placed([worker[w] EXCEPT !.pc = step])
    BY <2>2, <2>q
  <2> QED BY <1>1, <1>2, <1>3, <1>4, <2>0, <2>1, MovesPlaced
<1>5. CASE WriteFirst(w)
  BY <1>4, <1>5 DEF WriteFirst, Updating
<1>6. CASE WriteSecond(w)
  BY <1>4, <1>6 DEF WriteSecond, Updating, PlaceInv, StoreOK
<1> QED BY <1>5, <1>6

(* Moves with the name of the file kept, from one download step to another.  *)
LEMMA OnwardPlaced ==
  ASSUME PlaceInv, NEW w \in Worker, NEW step \in Updating \cup {"stalled"}, Moves(w, step),
         worker[w].pc \in Updating, UNCHANGED config, StoreOK',
         temp # Nothing => temp' # Nothing, bin # Nothing => bin' # Nothing,
         step = "unpack" => component \in {"mihomo", "cfst"}, step = "remove" => component = "mihomo",
         step = "replace" => component # "cfst", step = "chmod" => component = "cloudflared",
         step = "reload" => component = "geo", step = "save" => component # "cloudflared",
         step = "stalled" => component # "mihomo"
  PROVE  PlaceInv'
<1>1. PICK q : q = [worker[w] EXCEPT !.pc = step]
  OBVIOUS
<1>2. worker[w] \in Job /\ Placed(worker[w]) /\ step \in Stages
  BY AtStages DEF PlaceInv
<1>3. q \in Job /\ q.pc = step /\ q.at = worker[w].at /\ q.version = worker[w].version
  BY <1>1, <1>2 DEF Job
<1>4. Placed(q)
  BY <1>2, <1>3 DEF Placed, Updating
<1>5. Placed([worker[w] EXCEPT !.pc = step])
  BY <1>1, <1>4
<1> QED BY <1>2, <1>5, MovesPlaced

LEMMA UnpackPlaced ==
  ASSUME PlaceInv, NEW w \in Worker, UnpackCore(w) \/ extractTarGz(w) \/ extractZip(w) \/ OpenFails(w),
         StoreOK'
  PROVE  PlaceInv'
<1>1. /\ worker[w] \in Job /\ worker[w].pc = "unpack" /\ worker[w].pc \in Updating
      /\ Placed(worker[w]) /\ UNCHANGED config
  BY DEF PlaceInv, UnpackCore, extractTarGz, extractZip, OpenFails, Updating
<1>2. CASE Abandoned(w) /\ UNCHANGED bin
  BY <1>1, <1>2, AbandonedPlaced
<1>3. ASSUME Opens(w), temp # Nothing, component = "cfst" PROVE PlaceInv'
  <2>1. PICK r : r = [worker[w] EXCEPT !.pc = "write1", !.at = "bin", !.body = temp]
    OBVIOUS
  <2>2. temp \in File /\ bin' # Nothing
    BY <1>3, FileFields, NothingAssumption DEF PlaceInv, StoreOK, Opens
  <2>3. r \in Job /\ r.pc = "write1" /\ r.at = "bin" /\ r.version = worker[w].version
    BY <1>1, <2>1, <2>2 DEF Job, Stages, Updating
  <2>4. Placed(r)'
    BY <1>1, <1>3, <2>2, <2>3, NothingAssumption DEF Placed, Updating, config
  <2>5. worker' = [worker EXCEPT ![w] = r] /\ UNCHANGED temp
    BY <1>3, <2>1 DEF Opens
  <2> QED BY <1>1, <2>2, <2>3, <2>4, <2>5, Becomes
<1>4. CASE extractTarGz(w) \/ extractZip(w)
  BY <1>2, <1>3, <1>4 DEF extractTarGz, extractZip
<1>5. CASE OpenFails(w)
  BY <1>2, <1>5 DEF OpenFails
<1>6. CASE UnpackCore(w)
  <2>1. component = "mihomo" /\ UNCHANGED bin
    BY <1>6 DEF UnpackCore
  <2>2. CASE Moves(w, "remove") /\ UNCHANGED temp
    BY <1>1, <2>1, <2>2, OnwardPlaced DEF Updating
  <2>3. CASE Rests(w) /\ temp' = Nothing
    <3>1. \A v \in Worker : v # w => worker[v].at = Nothing
      BY <1>1, <2>1 DEF PlaceInv, Alone, Placed
    <3>2. \A v \in Worker : worker'[v].at = Nothing /\ (v # w => worker'[v] = worker[v])
      BY <2>3, <3>1, AtStages DEF Rests, PlaceInv
    <3>3. worker'[w] = Resting /\ worker' \in [Worker -> Job]
      BY <2>3, RestingType DEF Rests, PlaceInv
    <3>4. ASSUME NEW v \in Worker PROVE Placed(worker[v])'
      BY <1>1, <2>1, <3>2, <3>3, AtStages, NothingAssumption DEF PlaceInv, Placed, Updating, config
    <3> QED BY <1>1, <3>2, <3>3, <3>4, AtStages DEF PlaceInv, Alone, Updating, config
  <2> QED BY <1>6, <2>2, <2>3 DEF UnpackCore
<1> QED BY <1>4, <1>5, <1>6

LEMMA UnpackedPlaced ==
  ASSUME PlaceInv, NEW w \in Worker, Unpacked(w), StoreOK' PROVE PlaceInv'
<1>1. /\ worker[w] \in Job /\ worker[w].pc \in Updating /\ component = "cfst" /\ bin # Nothing
      /\ Placed(worker[w]) /\ UNCHANGED config
  BY DEF PlaceInv, Unpacked, Unpacking, Updating, Placed
<1>2. CASE Abandoned(w) /\ UNCHANGED bin
  BY <1>1, <1>2, AbandonedPlaced
<1>3. CASE ~(Abandoned(w) /\ UNCHANGED bin)
  <2>1. PICK r : r = [worker[w] EXCEPT !.pc = "save", !.at = Nothing]
    OBVIOUS
  <2>2. worker' = Detached(w, r) /\ temp' = Nothing /\ bin' = [bin EXCEPT ![2] = worker[w].body[2]]
    BY <1>3, <2>1 DEF Unpacked
  <2>3. bin' \in File
    BY <1>1, <2>2, FileFields DEF PlaceInv, StoreOK, Job, Half
  <2>4. r \in Job /\ r.pc = "save" /\ r.at = Nothing /\ r.version = worker[w].version
    BY <1>1, <2>1 DEF Job, Stages, Updating
  <2>5. Placed(r)'
    BY <1>1, <2>4, NothingAssumption DEF Placed, Updating, config
  <2> QED BY <1>1, <2>2, <2>3, <2>4, <2>5, DetachedPlaced, NothingAssumption
<1> QED BY <1>2, <1>3

LEMMA RemovePlaced ==
  ASSUME PlaceInv, NEW w \in Worker, RemoveOld(w), StoreOK' PROVE PlaceInv'
<1>1. /\ worker[w] \in Job /\ worker[w].pc = "remove" /\ component = "mihomo"
      /\ Placed(worker[w]) /\ UNCHANGED <<config, temp>>
  BY DEF PlaceInv, RemoveOld, Placed
<1>2. PICK r : r = [worker[w] EXCEPT !.pc = "replace"]
  OBVIOUS
<1>3. r \in Job /\ r.pc = "replace" /\ r.at = worker[w].at /\ r.version = worker[w].version
  BY <1>1, <1>2 DEF Job, Stages, Updating
<1>4. worker' \in [Worker -> Job] /\ worker'[w] = r /\ \A v \in Worker : v # w => worker'[v] = worker[v]
  BY <1>2, <1>3 DEF RemoveOld, Moves, PlaceInv
<1>5. ASSUME NEW v \in Worker PROVE Placed(worker[v])'
  BY <1>1, <1>3, <1>4 DEF PlaceInv, Placed, Updating, config
<1> QED BY <1>1, <1>3, <1>4, <1>5 DEF PlaceInv, Alone, Updating, config

LEMMA RenamedPlaced ==
  ASSUME PlaceInv, NEW w \in Worker, Replace(w) \/ CoreUnrunnable(w), StoreOK' PROVE PlaceInv'
<1>1. /\ worker[w] \in Job /\ worker[w].pc = "replace" /\ worker[w].pc \in Updating
      /\ component \in {"geo", "mihomo", "cloudflared"}
      /\ Placed(worker[w]) /\ UNCHANGED config
  BY DEF PlaceInv, StoreOK, Replace, CoreUnrunnable, Placed, Updating
<1>2. CASE temp = Nothing
  BY <1>1, <1>2, RestsPlaced DEF Replace, CoreUnrunnable
<1>3. CASE temp # Nothing
  <2>1. PICK step : step = CASE component = "geo" -> "reload"
                         [] component = "cloudflared" -> "chmod"
                         [] component = "mihomo" -> "save"
    OBVIOUS
  <2>2. worker' = Renamed(w, step) /\ bin' = temp /\ temp' = Nothing
    BY <1>3, <2>1 DEF Replace, CoreUnrunnable, TakesPlace
  <2>3. /\ step \in Updating /\ step \in Stages
        /\ component = "geo" => step = "reload"
        /\ component = "cloudflared" => step = "chmod"
        /\ component = "mihomo" => step = "save"
    BY <1>1, <2>1 DEF Updating, Stages
  <2>4. PICK r : r = [worker[w] EXCEPT !.pc = step, !.at = Nothing, !.body = Empty]
    OBVIOUS
  <2>5. r \in Job /\ r.pc = step /\ r.at = Nothing /\ r.version = worker[w].version
    BY <1>1, <2>3, <2>4, FileFields DEF Job
  <2>6. worker'[w] = r
    BY <2>2, <2>4 DEF Renamed
  <2>7. ASSUME NEW v \in Worker, v # w
        PROVE  /\ worker'[v] \in Job
               /\ worker'[v].pc = worker[v].pc /\ worker'[v].version = worker[v].version
               /\ worker'[v].at = (IF worker[v].at = "temp" THEN "bin" ELSE Nothing)
    BY <2>2, <2>7 DEF Renamed, PlaceInv, Job
  <2>8. worker' \in [Worker -> Job]
    BY <2>2, <2>5, <2>6, <2>7 DEF Renamed
  <2>9. Placed(r)'
    BY <1>1, <2>3, <2>5, NothingAssumption DEF Placed, Updating, config
  <2>10. ASSUME NEW v \in Worker PROVE Placed(worker[v])'
    <3>1. CASE v = w
      BY <2>6, <2>9, <3>1 DEF Placed
    <3>2. CASE v # w
      <4>1. component = "mihomo" => worker[v].at = Nothing
        BY <1>1, <3>2 DEF PlaceInv, Alone, Placed
      <4> QED BY <1>1, <1>3, <2>2, <2>7, <3>2, <4>1, NothingAssumption DEF PlaceInv, Placed, config
    <3> QED BY <3>1, <3>2
  <2> QED BY <1>1, <2>5, <2>6, <2>7, <2>8, <2>10 DEF PlaceInv, Alone, config
<1> QED BY <1>2, <1>3

LEMMA EndPlaced ==
  ASSUME PlaceInv, NEW w \in Worker, Chmod(w) \/ Reload(w) \/ Save(w), StoreOK' PROVE PlaceInv'
<1>1. UNCHANGED <<config, temp, bin>>
  BY DEF Chmod, Reload, Save, store
<1>2. CASE Rests(w)
  BY <1>1, <1>2, RestsPlaced
<1>3. CASE Reload(w) /\ Moves(w, "save")
  <2>1. worker[w].pc \in Updating /\ component = "geo" /\ "save" \in Updating
    BY <1>3 DEF Reload, PlaceInv, Placed, Updating
  <2> QED BY <1>1, <1>3, <2>1, OnwardPlaced
<1> QED BY <1>2, <1>3 DEF Chmod, Reload, Save

(* The rename fails.                                                         *)
LEMMA ReplaceFailsPlaced ==
  ASSUME PlaceInv, NEW w \in Worker, ReplaceFails(w), StoreOK' PROVE PlaceInv'
<1>1. /\ worker[w] \in Job /\ worker[w].pc = "replace" /\ worker[w].pc \in Updating
      /\ Rests(w) /\ UNCHANGED <<config, bin>>
  BY DEF PlaceInv, ReplaceFails, Updating
<1>2. CASE component # "mihomo"
  BY <1>1, <1>2, RestsPlaced DEF ReplaceFails
<1>3. CASE component = "mihomo"
  <2>1. \A v \in Worker : v # w => worker[v].at = Nothing
    BY <1>1, <1>3 DEF PlaceInv, Alone, Placed
  <2>2. \A v \in Worker : worker'[v].at = Nothing /\ (v # w => worker'[v] = worker[v])
    BY <1>1, <2>1, AtStages DEF Rests, PlaceInv
  <2>3. worker'[w] = Resting /\ worker' \in [Worker -> Job]
    BY <1>1, RestingType DEF Rests, PlaceInv
  <2>4. ASSUME NEW v \in Worker PROVE Placed(worker[v])'
    BY <1>1, <1>3, <2>2, <2>3, AtStages, NothingAssumption DEF PlaceInv, Placed, Updating, config
  <2> QED BY <1>1, <2>2, <2>3, <2>4, AtStages DEF PlaceInv, Alone, Updating, config
<1> QED BY <1>2, <1>3

LEMMA RestFailsPlaced ==
  ASSUME PlaceInv, NEW w \in Worker, RestFails(w), StoreOK' PROVE PlaceInv'
<1>1. /\ worker[w].pc \in Updating /\ Abandoned(w) /\ UNCHANGED config
      /\ bin \in File /\ worker[w].body \in File
  BY DEF PlaceInv, StoreOK, Placed, Job, RestFails, Unpacking, Updating
<1>2. bin' \in File
  BY <1>1, FileFields DEF RestFails, Half
<1> QED BY <1>1, <1>2, AbandonedPlaced, NothingAssumption

LEMMA FailsPlaced ==
  ASSUME PlaceInv, NEW w \in Worker, Fails(w), StoreOK' PROVE PlaceInv'
<1>2. CASE Rests(w) /\ UNCHANGED <<config, temp, bin>>
  BY <1>2, RestsPlaced
<1>3. CASE worker[w].pc \in Updating /\ Abandoned(w) /\ UNCHANGED <<config, bin>>
  BY <1>3, AbandonedPlaced
<1>4. CASE Stalls(w)
  <2>1. worker[w].pc \in Updating /\ component # "mihomo" /\ Moves(w, "stalled") /\ UNCHANGED <<config, temp, bin>>
    BY <1>4 DEF Stalls, Updating, store
  <2>2. "stalled" \notin Updating
    BY DEF Updating
  <2> QED BY <2>1, <2>2, OnwardPlaced DEF Updating
<1>5. CASE BeginFails(w) \/ ChmodFails(w) \/ ReloadFails(w) \/ SaveFails(w)
  BY <1>2, <1>5 DEF BeginFails, ChmodFails, ReloadFails, SaveFails, store
<1>6. CASE RequestFails(w) \/ WriteFails(w) \/ OpenFails(w)
  BY <1>2, <1>3, <1>6 DEF RequestFails, WriteFails, OpenFails, Updating
<1> QED BY <1>4, <1>5, <1>6, RestFailsPlaced, ReplaceFailsPlaced, RenamedPlaced DEF Fails

LEMMA UsersPlaced ==
  ASSUME PlaceInv, NEW w \in Worker, UserUpdates(w) \/ UserInstalls(w), StoreOK' PROVE PlaceInv'
<1>1. /\ worker[w] \in Job /\ worker[w].pc = "rest" /\ worker[w].at = Nothing
      /\ UNCHANGED <<config, temp, bin>>
  BY DEF PlaceInv, UserUpdates, UserInstalls, Free, Placed, Updating, store
<1>2. CASE Moves(w, "begin") \/ (component = "cloudflared" /\ Moves(w, "request"))
  <2>1. PICK step \in {"begin", "request"} :
          Moves(w, step) /\ (step = "request" => component = "cloudflared")
    BY <1>2
  <2>2. PICK r : r = [worker[w] EXCEPT !.pc = step]
    OBVIOUS
  <2>3. r \in Job /\ r.pc = step /\ r.at = Nothing
    BY <1>1, <2>1, <2>2 DEF Job, Stages, Updating
  <2>4. Placed(r)'
    BY <1>1, <2>1, <2>3, NothingAssumption DEF Placed, Updating, config
  <2>5. worker' = [worker EXCEPT ![w] = r]
    BY <2>1, <2>2 DEF Moves
  <2> QED BY <1>1, <2>1, <2>3, <2>4, <2>5, Becomes DEF Updating
<1>3. CASE component = "cfst"
           /\ worker' = [worker EXCEPT ![w] = [@ EXCEPT !.pc = "request", !.version = 0, !.try = 1]]
  <2>1. PICK r : r = [worker[w] EXCEPT !.pc = "request", !.version = 0, !.try = 1]
    OBVIOUS
  <2>2. 0 \in ReleaseNumber /\ 1 \in 0 .. MaxRetries
    BY DailyBoundAssumption, RetryAssumption DEF ReleaseNumber
  <2>3. r \in Job /\ r.pc = "request" /\ r.at = Nothing /\ r.version = 0
    BY <1>1, <2>1, <2>2 DEF Job, Stages, Updating
  <2>4. Placed(r)'
    BY <1>1, <1>3, <2>2, <2>3, NothingAssumption DEF Placed, Updating, config
  <2>5. worker' = [worker EXCEPT ![w] = r]
    BY <1>3, <2>1
  <2> QED BY <1>1, <1>3, <2>3, <2>4, <2>5, Becomes
<1> QED BY <1>2, <1>3 DEF UserUpdates, UserInstalls

LEMMA DaysPlaced ==
  ASSUME PlaceInv, ThreeOClock \/ NewDay \/ Publishes \/ SwitchOff \/ UNCHANGED dailyVars, StoreOK'
  PROVE  PlaceInv'
<1>1. UNCHANGED <<config, temp, bin>>
  BY DEF ThreeOClock, NewDay, Publishes, SwitchOff, dailyVars, store
<1>2. worker' \in [Worker -> Job]
  <2>1. \A v \in Worker : [worker[v] EXCEPT !.today = FALSE] \in Job
    BY DEF PlaceInv, Job
  <2> QED BY <2>1 DEF ThreeOClock, NewDay, Publishes, SwitchOff, dailyVars, PlaceInv
<1>3. ASSUME NEW v \in Worker
      PROVE  worker'[v].pc = worker[v].pc /\ worker'[v].version = worker[v].version
             /\ worker'[v].at = worker[v].at
  BY DEF ThreeOClock, NewDay, Publishes, SwitchOff, dailyVars, PlaceInv, Job
<1> QED BY <1>1, <1>2, <1>3 DEF PlaceInv, Placed, Alone, config

LEMMA RestartPlaced ==
  ASSUME PlaceInv, Restart, StoreOK' PROVE PlaceInv'
<1>1. UNCHANGED <<config, temp, bin>>
  BY DEF Restart
<1>2. PICK first : first = CHOOSE w \in Worker : TRUE
  OBVIOUS
<1>3. PICK again : again = [Resting EXCEPT !.pc = "begin"]
  OBVIOUS
<1>4. again \in Job /\ again.pc = "begin" /\ again.at = Nothing
  BY <1>3, RestingType DEF Resting, Job, Stages
<1>5. \A w \in Worker : worker'[w] \in {Resting, again}
  BY <1>2, <1>3 DEF Restart
<1>6. worker' \in [Worker -> Job]
  BY <1>4, <1>5, RestingType DEF Restart
<1>7. \A w \in Worker : worker'[w].pc \notin Updating \cup {"stalled"} /\ worker'[w].at = Nothing
  BY <1>4, <1>5, AtStages DEF Updating
<1> QED BY <1>1, <1>6, <1>7, NothingAssumption DEF PlaceInv, Placed, Alone, Updating, config

LEMMA PlaceStep == PlaceInv /\ [DailyNext]_dailyVars => PlaceInv'
<1> SUFFICES ASSUME PlaceInv, [DailyNext]_dailyVars PROVE PlaceInv'
  OBVIOUS
<1>1. StoreOK'
  BY StoreStep
<1>2. CASE ThreeOClock \/ NewDay \/ Publishes \/ SwitchOff \/ UNCHANGED dailyVars
  BY <1>1, <1>2, DaysPlaced
<1>3. CASE Restart
  BY <1>1, <1>3, RestartPlaced
<1>4. ASSUME NEW w \in Worker, Tick(w) \/ SwitchOn(w) PROVE PlaceInv'
  BY <1>1, <1>4, QueuedPlaced DEF Tick, SwitchOn, store
<1>5. ASSUME NEW w \in Worker, UserUpdates(w) \/ UserInstalls(w) PROVE PlaceInv'
  BY <1>1, <1>5, UsersPlaced
<1>6. ASSUME NEW w \in Worker, Goes(w) PROVE PlaceInv'
  BY <1>1, <1>6, CheckPlaced, BeforePlaced, RequestPlaced, WritePlaced, UnpackPlaced, UnpackedPlaced,
     RemovePlaced, RenamedPlaced, EndPlaced DEF Goes
<1>7. ASSUME NEW w \in Worker, Fails(w) PROVE PlaceInv'
  BY <1>1, <1>7, FailsPlaced
<1> QED BY <1>2, <1>3, <1>4, <1>5, <1>6, <1>7 DEF DailyNext
-----------------------------------------------------------------------------
(* What the record says, unless the update that changes it is at its end.    *)
Recorded ==
  bin # Nothing /\ Whole(bin) =>
    CASE component = "geo" -> /\ row # Nothing => row <= bin[1]
                              /\ botched \/ (db /\ row # Nothing)
      [] component = "cloudflared" -> botched \/ executable
      [] OTHER -> botched \/ row = bin[1]

Ending == {"chmod", "reload", "save"}

(* A whole file of the release that r has asked for, or of a later one.      *)
Proper(r, f) ==
  /\ Whole(f)
  /\ component = "geo" => r.version <= f[1]
  /\ component \in {"mihomo", "cfst"} => r.version = f[1]

(* How far the only download has come.                                       *)
Stage(r) ==
  /\ component = "geo" => r.version <= release /\ (row # Nothing => row <= r.version)
  /\ r.pc \in {"write1", "write2"} =>
       /\ Proper(r, r.body)
       /\ r.at = "temp" \/ (component = "cfst" /\ r.at = "bin" /\ bin[2] = Nothing)
  /\ r.pc = "write2" => IF r.at = "temp" THEN temp[1] = r.body[1] ELSE bin[1] = r.body[1]
  /\ r.pc \in {"unpack", "remove", "replace"} => temp # Nothing /\ Proper(r, temp)
  /\ r.pc \in Ending => bin # Nothing /\ Proper(r, bin)
  /\ r.pc = "save" /\ component = "geo" => db

(* The recorded number of the database was once the newest.                  *)
RowKnown == component = "geo" /\ row # Nothing => row <= release

OnceInv ==
  ~disturbed =>
    /\ Alone
    /\ RowKnown
    /\ \A w \in Worker : worker[w].pc \in Updating => Stage(worker[w])
    /\ Recorded \/ \E w \in Worker : worker[w].pc \in Ending

LEMMA WholeMeans ==
  \A f \in File : Whole(f) <=> f[1] \in ReleaseNumber /\ f[2] = f[1]
  BY DEF Whole, File, Of, Half

LEMMA OnceInit == DailyInit => OnceInv
<1> SUFFICES ASSUME DailyInit PROVE OnceInv
  OBVIOUS
<1>1. \A w \in Worker : worker[w].pc = "rest"
  BY DEF DailyInit, Resting
<1>2. 0 \in ReleaseNumber /\ Of(0) \in File /\ Of(0)[1] = 0
  <2>1. 0 \in ReleaseNumber
    BY DailyBoundAssumption DEF ReleaseNumber
  <2> QED BY <2>1, FileFields DEF Of, Half
<1>3. Recorded
  <2>1. CASE bin = Nothing
    BY <2>1 DEF Recorded
  <2>2. CASE bin = Of(0)
    <3>1. bin # Nothing
      BY <1>2, <2>2, NothingAssumption
    <3>2. executable /\ (component = "geo" => db)
      BY <3>1 DEF DailyInit
    <3>3. component # "cloudflared" => row = 0
      BY <2>2, <3>1 DEF DailyInit
    <3>4. 0 # Nothing /\ 0 <= 0
      BY <1>2, NothingAssumption
    <3> QED BY <1>2, <2>2, <3>2, <3>3, <3>4 DEF Recorded
  <2> QED BY <2>1, <2>2 DEF DailyInit
<1>4. RowKnown
  BY <1>2 DEF RowKnown, DailyInit
<1> QED BY <1>1, <1>3, <1>4 DEF OnceInv, Alone, Updating

(* Nothing is disturbed any more once something was.                         *)
LEMMA DisturbedStays == [DailyNext]_dailyVars /\ disturbed => disturbed'
  BY DEF DailyNext, dailyVars, ThreeOClock, NewDay, Publishes, SwitchOff, Restart, Tick, SwitchOn, UserUpdates,
         UserInstalls, Goes, Check, ReadLocal, Compare, Begin, Request, WriteFirst, WriteSecond, UnpackCore,
         extractTarGz, extractZip, Unpacked, RemoveOld, Replace, Chmod, Reload, Save, Fails, BeginFails,
         RequestFails, WriteFails, Stalls, OpenFails, RestFails, ReplaceFails, CoreUnrunnable, ChmodFails,
         ReloadFails, SaveFails, store, history

(* The record and what it is about stay, and a botched end is not forgotten. *)
LEMMA RecordedStays ==
  ASSUME Recorded, botched \in BOOLEAN, botched' \in BOOLEAN, botched => botched',
         UNCHANGED <<component, bin, row, executable>>, component = "geo" => db' = db
  PROVE  Recorded'
<1> SUFFICES ASSUME bin # Nothing, Whole(bin)
             PROVE  CASE component = "geo" -> /\ row # Nothing => row <= bin[1]
                                              /\ botched' \/ (db' /\ row # Nothing)
                      [] component = "cloudflared" -> botched' \/ executable
                      [] OTHER -> botched' \/ row = bin[1]
  BY DEF Recorded, Whole
<1> QED BY DEF Recorded

LEMMA RowStays ==
  ASSUME RowKnown, UNCHANGED <<component, row, release>>
  PROVE  RowKnown'
  BY DEF RowKnown

(* Nobody but goroutines that do not download moves.                         *)
LEMMA OnceCalm ==
  ASSUME PlaceInv, OnceInv, ~disturbed, release' \in Nat, release <= release',
         UNCHANGED <<component, temp, bin, row, executable, db, botched>>,
         \A v \in Worker :
           worker[v].pc \in Updating \/ worker'[v].pc \in Updating =>
             /\ worker'[v].pc = worker[v].pc /\ worker'[v].at = worker[v].at
             /\ worker'[v].version = worker[v].version /\ worker'[v].body = worker[v].body
  PROVE  OnceInv'
<1>1. Alone'
  BY DEF OnceInv, Alone
<1>2. Recorded => Recorded'
  BY RecordedStays DEF PlaceInv, StoreOK
<1>5. RowKnown'
  BY NothingAssumption DEF OnceInv, RowKnown, PlaceInv, StoreOK, ReleaseNumber
<1>3. ASSUME NEW v \in Worker, worker'[v].pc \in Updating PROVE Stage(worker[v])'
  <2>1. component = "geo" => worker[v].version \in Nat
    BY <1>3 DEF PlaceInv, Placed, Job, ReleaseNumber
  <2>2. Stage(worker[v])
    BY <1>3 DEF OnceInv
  <2>3. release \in Nat
    BY DEF PlaceInv, StoreOK, ReleaseNumber
  <2> QED BY <1>3, <2>1, <2>2, <2>3 DEF Stage, Proper, Ending, Whole
<1>4. \A v \in Worker : worker[v].pc \in Ending => worker'[v].pc \in Ending
  BY DEF Ending, Updating
<1> QED BY <1>1, <1>2, <1>3, <1>4, <1>5 DEF OnceInv

(* The one that downloads takes a step.                                      *)
LEMMA OnceOne ==
  ASSUME OnceInv, ~disturbed, NEW w \in Worker, worker[w].pc \in Updating,
         \A v \in Worker : v # w => worker'[v].pc = worker[v].pc,
         worker'[w].pc \in Updating => Stage(worker[w])', RowKnown',
         Recorded' \/ worker'[w].pc \in Ending
  PROVE  OnceInv'
<1>1. \A v \in Worker : v # w => worker'[v].pc \notin Updating
  BY DEF OnceInv, Alone
<1> QED BY <1>1 DEF OnceInv, Alone

LEMMA RecordedBefore ==
  ASSUME OnceInv, ~disturbed, NEW w \in Worker, worker[w].pc \in Updating, worker[w].pc \notin Ending
  PROVE  Recorded
  BY DEF OnceInv, Alone, Ending, Updating
-----------------------------------------------------------------------------
(* A download begins.                                                        *)
LEMMA OnceBegins ==
  ASSUME PlaceInv, OnceInv, NEW w \in Worker, Begin(w) \/ UserInstalls(w), ~disturbed'
  PROVE  OnceInv'
<1>1. /\ ~disturbed /\ \A v \in Worker : v # w => worker[v].pc \notin Updating /\ worker'[v] = worker[v]
      /\ UNCHANGED <<component, release, temp, bin, row, executable, db, botched>>
  BY DEF Begin, UserInstalls, Overlaps, store, config, Moves, PlaceInv
<1>2. worker[w].pc \notin Updating /\ worker[w] \in Job
  BY DEF Begin, UserInstalls, Free, Updating, PlaceInv
<1>3. /\ worker'[w].pc = "request"
      /\ component = "geo" => worker'[w].version = release
  <2>1. CASE Begin(w)
    BY <1>2, <2>1 DEF Begin, PlaceInv, Job
  <2>2. CASE UserInstalls(w)
    <3>1. PICK q, r : /\ q = [worker[w] EXCEPT !.pc = "request"]
                      /\ r = [worker[w] EXCEPT !.pc = "request", !.version = 0, !.try = 1]
      OBVIOUS
    <3>2. q.pc = "request" /\ r.pc = "request"
      BY <1>2, <3>1 DEF Job
    <3>3. worker'[w] \in {q, r} /\ component # "geo"
      BY <2>2, <3>1 DEF UserInstalls, Moves, PlaceInv
    <3> QED BY <3>2, <3>3
  <2> QED BY <2>1, <2>2
<1>4. Stage(worker[w])'
  BY <1>1, <1>3 DEF Stage, Ending, PlaceInv, StoreOK, ReleaseNumber, OnceInv, RowKnown
<1>8. RowKnown'
  BY <1>1, RowStays DEF OnceInv
<1>5. Recorded'
  <2>1. \A v \in Worker : worker[v].pc \notin Ending
    BY <1>1, <1>2 DEF Ending, Updating
  <2>2. Recorded
    BY <1>1, <2>1 DEF OnceInv
  <2> QED BY <1>1, <2>2, RecordedStays DEF PlaceInv, StoreOK
<1>6. Alone'
  BY <1>1 DEF Alone
<1>7. \A v \in Worker : worker'[v].pc \in Updating => v = w
  BY <1>1
<1> QED BY <1>4, <1>5, <1>6, <1>7, <1>8 DEF OnceInv

(* The answer comes.                                                         *)
LEMMA OnceRequests ==
  ASSUME PlaceInv, OnceInv, ~disturbed, NEW w \in Worker, Request(w)
  PROVE  OnceInv'
<1>1. PICK n : n = IF component \in {"geo", "cloudflared"} THEN release ELSE worker[w].version
  OBVIOUS
<1>2. /\ worker[w] \in Job /\ worker[w].pc = "request" /\ worker[w].pc \in Updating
      /\ Stage(worker[w]) /\ Placed(worker[w]) /\ StoreOK
  BY DEF PlaceInv, OnceInv, Request, Updating
<1>3. n \in ReleaseNumber
  BY <1>1, <1>2 DEF Placed, StoreOK, Job, Updating
<1>4. /\ worker'[w].pc = "write1" /\ worker'[w].at = "temp" /\ worker'[w].body = Of(n)
      /\ worker'[w].version = worker[w].version
      /\ \A v \in Worker : v # w => worker'[v] = worker[v]
      /\ UNCHANGED <<component, release, bin, row, executable, db, botched>>
  BY <1>1, <1>2 DEF Request, PlaceInv, Job, config, history
<1>5. Whole(Of(n)) /\ Of(n)[1] = n
  BY <1>3 DEF Whole, Of, Half
<1>6. Stage(worker[w])'
  BY <1>1, <1>2, <1>3, <1>4, <1>5 DEF Stage, Proper, Whole, Ending
<1>7. Recorded'
  <2>1. Recorded
    BY <1>2, RecordedBefore DEF Ending
  <2> QED BY <1>2, <1>4, <2>1, RecordedStays DEF StoreOK
<1>8. RowKnown'
  BY <1>4, RowStays DEF OnceInv
<1> QED BY <1>2, <1>4, <1>6, <1>7, <1>8, OnceOne

(* The body is written.                                                      *)
LEMMA OnceWritesFirst ==
  ASSUME PlaceInv, OnceInv, ~disturbed, NEW w \in Worker, WriteFirst(w)
  PROVE  OnceInv'
<1>1. /\ worker[w] \in Job /\ worker[w].pc = "write1" /\ worker[w].pc \in Updating
      /\ Stage(worker[w]) /\ Placed(worker[w]) /\ StoreOK
  BY DEF PlaceInv, OnceInv, WriteFirst, Updating
<1>2. /\ worker'[w].pc = "write2" /\ worker'[w].at = worker[w].at /\ worker'[w].body = worker[w].body
      /\ worker'[w].version = worker[w].version
      /\ \A v \in Worker : v # w => worker'[v] = worker[v]
      /\ UNCHANGED <<component, release, row, executable, db, botched>>
  BY <1>1 DEF WriteFirst, Moves, PlaceInv, Job, config, history
<1>3. Recorded
  BY <1>1, RecordedBefore DEF Ending
<1>7. RowKnown'
  BY <1>2, RowStays DEF OnceInv
<1>4. Proper(worker[w], worker[w].body)
  BY <1>1 DEF Stage
<1>5. CASE worker[w].at = "temp"
  <2>1. temp \in File /\ temp' = [temp EXCEPT ![1] = worker[w].body[1]] /\ UNCHANGED bin
    BY <1>1, <1>5 DEF WriteFirst, Written, StoreOK, Placed
  <2>2. temp'[1] = worker[w].body[1]
    BY <2>1 DEF File, Half
  <2>3. Stage(worker[w])'
    BY <1>1, <1>2, <1>4, <1>5, <2>1, <2>2 DEF Stage, Proper, Whole, Ending
  <2>4. Recorded'
    BY <1>1, <1>2, <1>3, <2>1, RecordedStays DEF StoreOK
  <2> QED BY <1>1, <1>2, <1>7, <2>3, <2>4, OnceOne
<1>6. CASE worker[w].at # "temp"
  <2>1. component = "cfst" /\ worker[w].at = "bin" /\ bin[2] = Nothing
    BY <1>1, <1>6 DEF Stage
  <2>2. bin \in File /\ bin' = [bin EXCEPT ![1] = worker[w].body[1]] /\ UNCHANGED temp
    BY <1>1, <2>1 DEF WriteFirst, Written, StoreOK, Placed
  <2>3. bin'[1] = worker[w].body[1] /\ bin'[2] = Nothing /\ bin' \in File
    BY <1>1, <2>1, <2>2, FileFields DEF File, Half, Job
  <2>4. ~Whole(bin')
    BY <2>3, WholeMeans, NothingAssumption
  <2>5. Stage(worker[w])'
    BY <1>1, <1>2, <1>4, <1>6, <2>1, <2>2, <2>3 DEF Stage, Proper, Whole, Ending
  <2>6. Recorded'
    BY <2>4 DEF Recorded, Whole
  <2> QED BY <1>1, <1>2, <1>7, <2>5, <2>6, OnceOne
<1> QED BY <1>5, <1>6

LEMMA OnceWritesSecond ==
  ASSUME PlaceInv, OnceInv, ~disturbed, NEW w \in Worker, WriteSecond(w)
  PROVE  OnceInv'
<1>1. /\ worker[w] \in Job /\ worker[w].pc = "write2" /\ worker[w].pc \in Updating
      /\ Stage(worker[w]) /\ Placed(worker[w]) /\ StoreOK
  BY DEF PlaceInv, OnceInv, WriteSecond, Updating
<1>2. /\ worker'[w].pc = (IF component \in {"geo", "cloudflared"} THEN "replace" ELSE "unpack")
      /\ worker'[w].version = worker[w].version
      /\ \A v \in Worker : v # w => worker'[v] = worker[v]
      /\ UNCHANGED <<component, release, row, executable, db, botched>>
  BY <1>1 DEF WriteSecond, Moves, PlaceInv, Job, config, history
<1>3. Recorded
  BY <1>1, RecordedBefore DEF Ending
<1>4. worker[w].at = "temp" /\ Proper(worker[w], worker[w].body) /\ temp[1] = worker[w].body[1]
  BY <1>1 DEF Stage, WriteSecond, Unpacking
<1>5. temp \in File /\ temp' = [temp EXCEPT ![2] = worker[w].body[2]] /\ UNCHANGED bin
  BY <1>1, <1>4 DEF WriteSecond, Written, StoreOK, Placed
<1>6. temp'[1] = worker[w].body[1] /\ temp'[2] = worker[w].body[2] /\ temp' \in File
  BY <1>1, <1>4, <1>5, FileFields DEF File, Half, Job
<1>7. temp' # Nothing /\ Whole(temp') /\ temp'[1] = worker[w].body[1]
  BY <1>1, <1>4, <1>6, WholeMeans, NothingAssumption DEF Proper, Job
<1>8. Stage(worker[w])'
  BY <1>1, <1>2, <1>4, <1>7 DEF Stage, Proper, Whole, Ending
<1>9. Recorded'
  BY <1>1, <1>2, <1>3, <1>5, RecordedStays DEF StoreOK
<1>10. RowKnown'
  BY <1>2, RowStays DEF OnceInv
<1> QED BY <1>1, <1>2, <1>8, <1>9, <1>10, OnceOne

(* An attempt ends, and the file in use with its row is as it was.           *)
LEMMA OnceGivesUp ==
  ASSUME PlaceInv, OnceInv, ~disturbed, NEW w \in Worker, worker[w].pc \in Updating \ Ending,
         Abandoned(w) \/ Rests(w) \/ Moves(w, "stalled"),
         UNCHANGED <<component, release, row>>, Recorded'
  PROVE  OnceInv'
<1>1. worker[w] \in Job /\ Stage(worker[w]) /\ StoreOK
  BY DEF PlaceInv, OnceInv
<1>2. RowKnown'
  BY RowStays DEF OnceInv
<1>3. ASSUME NEW v \in Worker, v # w PROVE worker'[v].pc = worker[v].pc
  BY <1>3 DEF Abandoned, Detached, Rests, Moves, PlaceInv, Job
<1>4. worker'[w] = NextTry(w) \/ worker'[w] = Resting \/ worker'[w].pc = "stalled"
  BY <1>1 DEF Abandoned, Detached, Rests, Moves, PlaceInv, Job
<1>5. worker'[w].pc \in Updating => worker'[w].pc = "request" /\ component # "geo"
  BY <1>4, NextTryType, AtStages DEF Updating
<1>6. worker'[w].pc \in Updating => Stage(worker[w])'
  BY <1>1, <1>5 DEF Stage, Ending
<1> QED BY <1>2, <1>3, <1>6, OnceOne

(* The archive is unpacked.                                                  *)
LEMMA OnceUnpacks ==
  ASSUME PlaceInv, OnceInv, ~disturbed, NEW w \in Worker,
         UnpackCore(w) \/ extractTarGz(w) \/ extractZip(w)
  PROVE  OnceInv'
<1>1. /\ worker[w] \in Job /\ worker[w].pc = "unpack" /\ worker[w].pc \in Updating \ Ending
      /\ Stage(worker[w]) /\ Placed(worker[w]) /\ StoreOK
  BY DEF PlaceInv, OnceInv, UnpackCore, extractTarGz, extractZip, Updating, Ending
<1>2. temp # Nothing /\ temp \in File /\ Proper(worker[w], temp)
  BY <1>1 DEF Stage, StoreOK
<1>3. UNCHANGED <<component, release, row, db, botched>>
  BY DEF UnpackCore, extractTarGz, extractZip, config, history
<1>7. Recorded
  BY <1>1, RecordedBefore
<1>8. RowKnown'
  BY <1>3, RowStays DEF OnceInv
<1>4. CASE (Abandoned(w) \/ Rests(w)) /\ UNCHANGED <<bin, executable>>
  <2>1. Recorded'
    BY <1>1, <1>3, <1>4, <1>7, RecordedStays DEF StoreOK
  <2> QED BY <1>1, <1>3, <1>4, <2>1, OnceGivesUp
<1>5. CASE Opens(w) /\ component = "cfst"
  <2>1. bin' = Empty /\ bin'[2] = Nothing
    BY <1>5 DEF Opens, Empty, Half
  <2>2. ~Whole(bin')
    BY <2>1, FileFields, WholeMeans, NothingAssumption
  <2>3. PICK r : r = [worker[w] EXCEPT !.pc = "write1", !.at = "bin", !.body = temp]
    OBVIOUS
  <2>4. r.pc = "write1" /\ r.at = "bin" /\ r.body = temp /\ r.version = worker[w].version
    BY <1>1, <2>3 DEF Job
  <2>5. worker'[w] = r /\ \A v \in Worker : v # w => worker'[v] = worker[v]
    BY <1>5, <2>3 DEF Opens, PlaceInv
  <2>6. Stage(worker[w])'
    BY <1>2, <1>3, <1>5, <2>1, <2>4, <2>5 DEF Stage, Proper, Whole, Ending
  <2>7. Recorded'
    BY <2>2 DEF Recorded, Whole
  <2> QED BY <1>1, <1>8, <2>5, <2>6, <2>7, OnceOne
<1>6. CASE UnpackCore(w) /\ Moves(w, "remove") /\ UNCHANGED temp
  <2>1. /\ worker'[w].pc = "remove" /\ worker'[w].version = worker[w].version
        /\ \A v \in Worker : v # w => worker'[v] = worker[v]
        /\ UNCHANGED <<bin, executable>>
    BY <1>1, <1>6 DEF UnpackCore, Moves, PlaceInv, Job
  <2>2. Stage(worker[w])'
    BY <1>1, <1>2, <1>3, <1>6, <2>1 DEF Stage, Proper, Whole, Ending
  <2>3. Recorded'
    BY <1>1, <1>3, <1>7, <2>1, RecordedStays DEF StoreOK
  <2> QED BY <1>1, <1>8, <2>1, <2>2, <2>3, OnceOne
<1> QED BY <1>4, <1>5, <1>6 DEF UnpackCore, extractTarGz, extractZip

LEMMA OnceUnpacked ==
  ASSUME PlaceInv, OnceInv, ~disturbed, NEW w \in Worker, Unpacked(w)
  PROVE  OnceInv'
<1>1. /\ worker[w] \in Job /\ worker[w].pc = "write2" /\ worker[w].pc \in Updating \ Ending
      /\ Stage(worker[w]) /\ Placed(worker[w]) /\ StoreOK /\ component = "cfst" /\ worker[w].at = "bin"
  BY DEF PlaceInv, OnceInv, Unpacked, Unpacking, Updating, Ending
<1>2. Proper(worker[w], worker[w].body) /\ bin[1] = worker[w].body[1] /\ bin \in File
  BY <1>1, NothingAssumption DEF Stage, StoreOK, Placed
<1>3. bin' = [bin EXCEPT ![2] = worker[w].body[2]] /\ UNCHANGED <<component, release, row>>
  BY <1>2 DEF Unpacked, Proper, config
<1>4. bin'[1] = worker[w].body[1] /\ bin'[2] = worker[w].body[2] /\ bin' \in File
  BY <1>1, <1>2, <1>3, FileFields DEF File, Half, Job
<1>5. bin' # Nothing /\ Whole(bin')
  BY <1>1, <1>2, <1>4, WholeMeans, NothingAssumption DEF Proper, Job
<1>6. PICK r : r = [worker[w] EXCEPT !.pc = "save", !.at = Nothing]
  OBVIOUS
<1>7. r.pc = "save" /\ r.version = worker[w].version
  BY <1>1, <1>6 DEF Job
<1>8. worker'[w] = r /\ \A v \in Worker : v # w => worker'[v].pc = worker[v].pc
  BY <1>2, <1>6 DEF Unpacked, Proper, Detached, PlaceInv, Job
<1>9. Stage(worker[w])'
  BY <1>1, <1>2, <1>3, <1>4, <1>5, <1>7, <1>8 DEF Stage, Proper, Whole, Ending
<1>10. RowKnown'
  BY <1>3, RowStays DEF OnceInv
<1> QED BY <1>1, <1>7, <1>8, <1>9, <1>10, OnceOne DEF Ending

(* The new file takes the place of the old one.                              *)
LEMMA OnceRemoves ==
  ASSUME PlaceInv, OnceInv, ~disturbed, NEW w \in Worker, RemoveOld(w)
  PROVE  OnceInv'
<1>1. /\ worker[w] \in Job /\ worker[w].pc = "remove" /\ worker[w].pc \in Updating
      /\ Stage(worker[w])
  BY DEF PlaceInv, OnceInv, RemoveOld, Updating
<1>2. /\ worker'[w].pc = "replace" /\ worker'[w].version = worker[w].version
      /\ \A v \in Worker : v # w => worker'[v] = worker[v]
      /\ UNCHANGED <<component, release, temp, row, executable, db, botched>>
      /\ bin' = Nothing \/ bin' = bin
  BY <1>1 DEF RemoveOld, Moves, PlaceInv, Job, config, history
<1>3. Stage(worker[w])'
  BY <1>1, <1>2 DEF Stage, Proper, Whole, Ending
<1>4. Recorded'
  <2>1. CASE bin' = Nothing
    BY <2>1 DEF Recorded
  <2>2. CASE bin' = bin
    <3>1. Recorded
      BY <1>1, RecordedBefore DEF Ending
    <3> QED BY <1>2, <2>2, <3>1, RecordedStays DEF PlaceInv, StoreOK
  <2> QED BY <1>2, <2>1, <2>2
<1>5. RowKnown'
  BY <1>2, RowStays DEF OnceInv
<1> QED BY <1>1, <1>2, <1>3, <1>4, <1>5, OnceOne

LEMMA OnceReplaces ==
  ASSUME PlaceInv, OnceInv, ~disturbed, NEW w \in Worker, Replace(w) \/ CoreUnrunnable(w)
  PROVE  /\ OnceInv'
         /\ bin' = temp /\ temp # Nothing /\ Whole(temp)
         /\ component = "cloudflared" => worker'[w].pc = "chmod"
<1>1. /\ worker[w] \in Job /\ worker[w].pc = "replace" /\ worker[w].pc \in Updating
      /\ Stage(worker[w]) /\ component \in {"geo", "mihomo", "cloudflared"}
  BY DEF PlaceInv, StoreOK, Placed, OnceInv, Replace, CoreUnrunnable, Updating
<1>2. temp # Nothing /\ Proper(worker[w], temp)
  BY <1>1 DEF Stage
<1>3. PICK step : step = CASE component = "geo" -> "reload"
                       [] component = "cloudflared" -> "chmod"
                       [] component = "mihomo" -> "save"
  OBVIOUS
<1>4. /\ component = "geo" => step = "reload"
      /\ component = "cloudflared" => step = "chmod"
      /\ component = "mihomo" => step = "save"
  BY <1>3
<1>5. /\ worker' = Renamed(w, step) /\ bin' = temp
      /\ UNCHANGED <<component, release, row>>
  BY <1>2, <1>3 DEF Replace, CoreUnrunnable, TakesPlace, config
<1>6. PICK r : r = [worker[w] EXCEPT !.pc = step, !.at = Nothing, !.body = Empty]
  OBVIOUS
<1>7. r.pc = step /\ r.version = worker[w].version
  BY <1>1, <1>6 DEF Job
<1>8. worker'[w] = r
  BY <1>5, <1>6 DEF Renamed
<1>9. \A v \in Worker : v # w => worker'[v].pc = worker[v].pc
  BY <1>5 DEF Renamed, PlaceInv, Job
<1>10. Stage(worker[w])'
  BY <1>1, <1>2, <1>4, <1>5, <1>7, <1>8 DEF Stage, Proper, Whole, Ending
<1>12. RowKnown'
  BY <1>5, RowStays DEF OnceInv
<1>11. OnceInv'
  BY <1>1, <1>4, <1>7, <1>8, <1>9, <1>10, <1>12, OnceOne DEF Ending
<1> QED BY <1>2, <1>4, <1>5, <1>7, <1>8, <1>11 DEF Proper

(* The update ends.                                                          *)
LEMMA OnceEnds ==
  ASSUME PlaceInv, OnceInv, ~disturbed, NEW w \in Worker, Chmod(w) \/ Reload(w) \/ Save(w)
  PROVE  OnceInv' /\ Whole(bin) /\ bin # Nothing
<1>1. /\ worker[w] \in Job /\ worker[w].pc \in Ending /\ worker[w].pc \in Updating
      /\ Stage(worker[w]) /\ Placed(worker[w]) /\ StoreOK
  BY DEF PlaceInv, OnceInv, Chmod, Reload, Save, Updating, Ending
<1>2. bin # Nothing /\ Proper(worker[w], bin) /\ UNCHANGED <<component, release, bin>>
  BY <1>1 DEF Stage, Chmod, Reload, Save, config, store
<1>3. \A v \in Worker : v # w => worker'[v] = worker[v]
  BY DEF Chmod, Reload, Save, Rests, Moves, PlaceInv
<1>4. CASE Chmod(w)
  <2>1. component = "cloudflared" /\ executable' /\ worker'[w].pc \notin Updating
    BY <1>1, <1>4, AtStages DEF Chmod, Placed, Rests, PlaceInv, Updating
  <2>2. Recorded'
    BY <1>2, <2>1 DEF Recorded
  <2>3. RowKnown'
    BY <2>1, <1>2 DEF RowKnown
  <2> QED BY <1>1, <1>2, <1>3, <2>1, <2>2, <2>3, OnceOne DEF Proper
<1>5. CASE Reload(w)
  <2>1. component = "geo" /\ db' /\ worker'[w].pc = "save" /\ worker'[w].version = worker[w].version
    BY <1>1, <1>2, <1>5 DEF Reload, Placed, Proper, Moves, PlaceInv, Job
  <2>3. row' = row
    BY <1>5 DEF Reload
  <2>2. Stage(worker[w])'
    BY <1>1, <1>2, <2>1, <2>3 DEF Stage, Proper, Whole, Ending
  <2>4. RowKnown'
    BY <1>2, <2>3, RowStays DEF OnceInv
  <2> QED BY <1>1, <1>2, <1>3, <2>1, <2>2, <2>4, OnceOne DEF Proper, Ending
<1>6. CASE Save(w)
  <2>1. component # "cloudflared" /\ row' = worker[w].version /\ worker'[w].pc \notin Updating
        /\ row' # Nothing /\ UNCHANGED db
    BY <1>1, <1>6, AtStages DEF Save, Placed, Rests, PlaceInv, Updating, Ending, store
  <2>2. component = "geo" => db
    BY <1>1, <1>6 DEF Stage, Save
  <2>3. Recorded'
    BY <1>1, <1>2, <2>1, <2>2 DEF Recorded, Proper, StoreOK
  <2>4. RowKnown'
    BY <1>1, <1>2, <2>1 DEF RowKnown, Stage
  <2> QED BY <1>1, <1>2, <1>3, <2>1, <2>3, <2>4, OnceOne DEF Proper
<1> QED BY <1>4, <1>5, <1>6

(* The end of an update fails.                                               *)
LEMMA OnceEndFails ==
  ASSUME PlaceInv, OnceInv, ~disturbed, NEW w \in Worker, ChmodFails(w) \/ ReloadFails(w) \/ SaveFails(w)
  PROVE  OnceInv' /\ UNCHANGED <<component, bin, executable>>
<1>1. /\ worker[w] \in Job /\ worker[w].pc \in Ending /\ worker[w].pc \in Updating
      /\ Stage(worker[w]) /\ Placed(worker[w]) /\ StoreOK
  BY DEF PlaceInv, OnceInv, ChmodFails, ReloadFails, SaveFails, Updating, Ending
<1>2. UNCHANGED <<component, bin, executable, row, release>> /\ botched' = TRUE /\ Rests(w)
  BY DEF ChmodFails, ReloadFails, SaveFails, store, config
<1>3. /\ \A v \in Worker : v # w => worker'[v] = worker[v]
      /\ worker'[w].pc \notin Updating
  BY <1>2, AtStages DEF Rests, PlaceInv, Updating
<1>4. component = "geo" /\ row # Nothing => row <= bin[1]
  <2>1. component = "geo" /\ row # Nothing => row <= worker[w].version /\ worker[w].version <= bin[1]
    BY <1>1 DEF Stage, Proper
  <2>2. bin \in File /\ (component = "geo" => worker[w].version \in Nat /\ bin[1] \in Nat)
    BY <1>1, WholeMeans DEF Stage, Proper, StoreOK, Placed, Job, ReleaseNumber
  <2> QED BY <1>1, <2>1, <2>2 DEF StoreOK, ReleaseNumber
<1>5. Recorded'
  BY <1>2, <1>4 DEF Recorded
<1>6. RowKnown'
  BY <1>2, RowStays DEF OnceInv
<1> QED BY <1>1, <1>2, <1>3, <1>5, <1>6, OnceOne

LEMMA OnceQuietly ==
  ASSUME PlaceInv, OnceInv, ~disturbed, NEW w \in Worker,
         Tick(w) \/ SwitchOn(w) \/ UserUpdates(w) \/ Check(w) \/ ReadLocal(w) \/ Compare(w) \/ BeginFails(w)
  PROVE  /\ OnceInv' /\ UNCHANGED <<component, bin, executable>>
         /\ worker[w].pc \notin Updating /\ \A v \in Worker : v # w => worker'[v] = worker[v]
<1>1. worker[w] \in Job /\ worker[w].pc \notin Updating /\ release \in Nat
  BY DEF Tick, SwitchOn, Queued, Free, UserUpdates, Check, ReadLocal, Compare, BeginFails, Updating,
         PlaceInv, StoreOK, ReleaseNumber
<1>2. UNCHANGED <<component, temp, bin, row, executable, db, release, botched>>
  BY DEF Tick, SwitchOn, UserUpdates, Check, ReadLocal, Compare, BeginFails, store, config, history
<1>3. \A v \in Worker : v # w => worker'[v] = worker[v]
  BY DEF Tick, SwitchOn, Queued, UserUpdates, Check, ReadLocal, Compare, BeginFails, Rests, Moves, PlaceInv
<1>4. worker'[w].pc \notin Updating
  <2>1. CASE Tick(w) \/ SwitchOn(w)
    BY <2>1 DEF Tick, SwitchOn, Queued, Resting, PlaceInv, Updating
  <2>2. CASE UserUpdates(w) \/ BeginFails(w)
    BY <1>1, <2>2, AtStages DEF UserUpdates, BeginFails, Moves, Rests, PlaceInv, Job, Updating
  <2>3. CASE Check(w)
    <3>1. PICK q, r : /\ q = [worker[w] EXCEPT !.pc = "local", !.today = FALSE]
                      /\ r = [worker[w] EXCEPT !.pc = "compare", !.today = FALSE, !.version = Local]
      OBVIOUS
    <3>2. q.pc = "local" /\ r.pc = "compare"
      BY <1>1, <3>1 DEF Job
    <3>3. worker'[w] \in {q, r, Resting}
      BY <2>3, <3>1 DEF Check, Rests, PlaceInv
    <3> QED BY <3>2, <3>3, AtStages DEF Updating
  <2>4. CASE ReadLocal(w) \/ Compare(w)
    BY <1>1, <2>4, AtStages DEF ReadLocal, Compare, Rests, PlaceInv, Job, Updating
  <2> QED BY <2>1, <2>2, <2>3, <2>4
<1>5. OnceInv'
  BY <1>1, <1>2, <1>3, <1>4, OnceCalm
<1> QED BY <1>1, <1>2, <1>3, <1>5

LEMMA OnceDays ==
  ASSUME PlaceInv, OnceInv, ~disturbed, ThreeOClock \/ NewDay \/ Publishes \/ SwitchOff \/ UNCHANGED dailyVars
  PROVE  /\ OnceInv' /\ UNCHANGED <<component, bin, executable>>
         /\ \A v \in Worker : worker'[v].pc = worker[v].pc
<1>1. UNCHANGED <<component, temp, bin, row, executable, db, botched>>
  BY DEF ThreeOClock, NewDay, Publishes, SwitchOff, dailyVars, store, config, history
<1>2. ASSUME NEW v \in Worker
      PROVE  /\ worker'[v].pc = worker[v].pc /\ worker'[v].version = worker[v].version
             /\ worker'[v].at = worker[v].at /\ worker'[v].body = worker[v].body
  BY DEF ThreeOClock, NewDay, Publishes, SwitchOff, dailyVars, PlaceInv, Job
<1>3. release \in Nat /\ release' \in Nat /\ release <= release'
  BY DEF ThreeOClock, NewDay, Publishes, SwitchOff, dailyVars, PlaceInv, StoreOK, ReleaseNumber
<1> QED BY <1>1, <1>2, <1>3, OnceCalm

LEMMA OnceRestarts ==
  ASSUME PlaceInv, OnceInv, Restart, ~disturbed'
  PROVE  /\ OnceInv' /\ ~disturbed /\ UNCHANGED <<component, bin, executable>>
         /\ \A v \in Worker : worker[v].pc \notin Updating
<1>1. /\ ~disturbed /\ \A v \in Worker : worker[v].pc \notin Updating
      /\ UNCHANGED <<component, bin, executable, row, release, botched>>
      /\ db' = (component = "geo" /\ Whole(bin))
  BY DEF Restart, config
<1>2. Recorded
  BY <1>1 DEF OnceInv, Ending, Updating
<1>3. Recorded'
  BY <1>1, <1>2 DEF Recorded, Whole
<1>4. PICK first : first = CHOOSE w \in Worker : TRUE
  OBVIOUS
<1>5. PICK again : again = [Resting EXCEPT !.pc = "begin"]
  OBVIOUS
<1>6. again.pc = "begin"
  BY <1>5 DEF Resting
<1>7. \A w \in Worker : worker'[w] \in {Resting, again}
  BY <1>4, <1>5 DEF Restart
<1>8. \A w \in Worker : worker'[w].pc \notin Updating
  BY <1>6, <1>7, AtStages DEF Updating
<1>9. RowKnown'
  BY <1>1, RowStays DEF OnceInv
<1> QED BY <1>1, <1>3, <1>8, <1>9 DEF OnceInv, Alone

LEMMA OnceFails ==
  ASSUME PlaceInv, OnceInv, ~disturbed, NEW w \in Worker,
         RequestFails(w) \/ WriteFails(w) \/ Stalls(w) \/ OpenFails(w) \/ RestFails(w) \/ ReplaceFails(w)
  PROVE  OnceInv'
<1>1. UNCHANGED <<component, release, row>> /\ worker[w].pc \in Updating \ Ending /\ StoreOK
  BY DEF RequestFails, WriteFails, Stalls, OpenFails, RestFails, ReplaceFails, config, Updating, Ending, PlaceInv
<1>2. Abandoned(w) \/ Rests(w) \/ Moves(w, "stalled")
  BY DEF RequestFails, WriteFails, Stalls, OpenFails, RestFails, ReplaceFails
<1>3. Recorded
  BY <1>1, RecordedBefore
<1>4. CASE RequestFails(w) \/ WriteFails(w) \/ Stalls(w) \/ OpenFails(w)
  <2>1. UNCHANGED <<bin, executable, db>>
    BY <1>4 DEF RequestFails, WriteFails, Stalls, OpenFails, store
  <2>2. botched' \in BOOLEAN /\ (botched => botched')
    BY <1>1, <1>4 DEF RequestFails, WriteFails, Stalls, OpenFails, history, StoreOK
  <2>3. Recorded'
    BY <1>1, <1>3, <2>1, <2>2, RecordedStays DEF StoreOK
  <2> QED BY <1>1, <1>2, <2>3, OnceGivesUp
<1>5. CASE RestFails(w)
  <2>1. component = "cfst"
    BY <1>5 DEF RestFails, Unpacking
  <2>2. botched' = TRUE
    BY <1>5 DEF RestFails
  <2>3. Recorded'
    BY <1>1, <2>1, <2>2 DEF Recorded
  <2> QED BY <1>1, <1>2, <2>3, OnceGivesUp
<1>6. CASE ReplaceFails(w)
  <2>1. UNCHANGED <<bin, executable>> /\ botched' = TRUE
    BY <1>6 DEF ReplaceFails
  <2>2. Recorded'
    BY <1>1, <1>3, <2>1 DEF Recorded, Whole
  <2> QED BY <1>1, <1>2, <2>2, OnceGivesUp
<1> QED BY <1>4, <1>5, <1>6

LEMMA OnceStep == PlaceInv /\ OnceInv /\ [DailyNext]_dailyVars => OnceInv'
<1> SUFFICES ASSUME PlaceInv, OnceInv, [DailyNext]_dailyVars, ~disturbed' PROVE OnceInv'
  BY DEF OnceInv
<1>1. ~disturbed
  BY DisturbedStays
<1>2. CASE ThreeOClock \/ NewDay \/ Publishes \/ SwitchOff \/ UNCHANGED dailyVars
  BY <1>1, <1>2, OnceDays
<1>3. CASE Restart
  BY <1>3, OnceRestarts
<1>4. ASSUME NEW w \in Worker,
             Tick(w) \/ SwitchOn(w) \/ UserUpdates(w) \/ Check(w) \/ ReadLocal(w) \/ Compare(w) \/ BeginFails(w)
      PROVE  OnceInv'
  BY <1>1, <1>4, OnceQuietly
<1>5. ASSUME NEW w \in Worker, Begin(w) \/ UserInstalls(w) PROVE OnceInv'
  BY <1>5, OnceBegins
<1>6. ASSUME NEW w \in Worker, Goes(w) PROVE OnceInv'
  BY <1>1, <1>4, <1>5, <1>6, OnceRequests, OnceWritesFirst, OnceWritesSecond, OnceUnpacks, OnceUnpacked,
     OnceRemoves, OnceReplaces, OnceEnds DEF Goes
<1>7. ASSUME NEW w \in Worker, Fails(w) PROVE OnceInv'
  BY <1>1, <1>4, <1>7, OnceFails, OnceEndFails, OnceReplaces DEF Fails
<1> QED BY <1>2, <1>3, <1>4, <1>5, <1>6, <1>7 DEF DailyNext

(* Every variable keeps its type.                                            *)
THEOREM DailyTypeCorrect == DailySpec => []DailyTypeOK
<1>1. PlaceInv => DailyTypeOK
  BY DEF PlaceInv, StoreOK, DailyTypeOK
<1> QED BY <1>1, PlaceInit, PlaceStep, PTL DEF DailySpec

(* Unless two downloads overlapped or one was cut short, the version that    *)
(* the panel goes by is that of the file it has, and the file can be used:   *)
(* only a failure at the very end of an update parts them, up to the next    *)
(* update that ends well.                                                    *)
THEOREM RecordAlwaysTrue == DailySpec => []RecordIsTrue
<1>1. PlaceInv /\ OnceInv => RecordIsTrue
  <2> SUFFICES ASSUME PlaceInv, OnceInv, Quiet, ~disturbed, bin # Nothing, Whole(bin)
               PROVE  CASE component = "geo" -> /\ row # Nothing => row <= bin[1]
                                                /\ botched \/ (db /\ row # Nothing)
                        [] component = "cloudflared" -> botched \/ executable
                        [] OTHER -> botched \/ row = bin[1]
    BY DEF RecordIsTrue
  <2>1. Recorded
    BY DEF OnceInv, Quiet, Ending, Updating
  <2> QED BY <2>1 DEF Recorded
<1>2. DailyInit => PlaceInv /\ OnceInv
  BY PlaceInit, OnceInit
<1>3. PlaceInv /\ OnceInv /\ [DailyNext]_dailyVars => (PlaceInv /\ OnceInv)'
  BY PlaceStep, OnceStep
<1> QED BY <1>1, <1>2, <1>3, PTL DEF DailySpec
-----------------------------------------------------------------------------
(* The file stays, and so do the goroutines between the two halves of a      *)
(* replacement.                                                              *)
LEMMA Untouched ==
  ASSUME Usable \/ HalfWay, UNCHANGED <<component, bin, executable>>,
         \A v \in Worker : worker[v].pc \in {"replace", "chmod"} => worker'[v].pc = worker[v].pc
  PROVE  (Usable \/ HalfWay)'
  BY DEF Usable, HalfWay, Whole

Kept == (Usable \/ HalfWay)' \/ (HalfWay /\ faults' > faults)

LEMMA KeptByWork ==
  ASSUME PlaceInv, OnceInv, NEW w \in Worker, Goes(w), ~disturbed, ~disturbed',
         component # "cfst", Usable \/ HalfWay
  PROVE  (Usable \/ HalfWay)'
<1>1. worker[w] \in Job /\ Placed(worker[w]) /\ (worker[w].pc \in Updating => Stage(worker[w]))
  BY DEF PlaceInv, OnceInv
<1>2. CASE Check(w) \/ ReadLocal(w) \/ Compare(w)
  BY <1>2, OnceQuietly, Untouched DEF Updating
<1>3. ASSUME UNCHANGED <<component, bin, executable>>, worker[w].pc \notin {"replace", "chmod"},
             \A v \in Worker : v # w => worker'[v].pc = worker[v].pc
      PROVE  (Usable \/ HalfWay)'
  BY <1>3, Untouched
<1>4. CASE Begin(w) \/ Request(w) \/ UnpackCore(w) \/ Reload(w) \/ Save(w)
  <2>1. UNCHANGED <<component, bin, executable>> /\ worker[w].pc \notin {"replace", "chmod"}
    BY <1>4 DEF Begin, Request, UnpackCore, Reload, Save, config, store
  <2>2. \A v \in Worker : v # w => worker'[v].pc = worker[v].pc
    BY <1>4 DEF Begin, Request, UnpackCore, Reload, Save, Rests, Moves, PlaceInv
  <2> QED BY <1>3, <2>1, <2>2
<1>6. CASE WriteFirst(w) \/ WriteSecond(w)
  <2>1. worker[w].at = "temp"
    BY <1>1, <1>6 DEF WriteFirst, WriteSecond, Stage, Updating
  <2>2. UNCHANGED <<component, bin, executable>> /\ worker[w].pc \notin {"replace", "chmod"}
    BY <1>6, <2>1 DEF WriteFirst, WriteSecond, Written, config
  <2>3. \A v \in Worker : v # w => worker'[v].pc = worker[v].pc
    BY <1>6 DEF WriteFirst, WriteSecond, Moves, PlaceInv
  <2> QED BY <1>3, <2>2, <2>3
<1>7. CASE RemoveOld(w)
  <2>1. component' = "mihomo" /\ worker'[w].pc = "replace"
    BY <1>1, <1>7 DEF RemoveOld, Placed, Moves, PlaceInv, Job, config
  <2> QED BY <2>1 DEF HalfWay
<1>8. CASE Replace(w)
  <2>1. component' = component /\ temp # Nothing
    BY <1>8, OnceReplaces DEF Replace, config
  <2>2. CASE component = "cloudflared"
    BY <1>8, <2>1, <2>2, OnceReplaces DEF HalfWay
  <2>3. CASE component # "cloudflared"
    <3>1. executable'
      BY <1>8, <2>1, <2>3 DEF Replace, TakesPlace
    <3> QED BY <1>8, <3>1, OnceReplaces DEF Usable, Whole
  <2> QED BY <2>2, <2>3
<1>9. CASE Chmod(w)
  BY <1>9, OnceEnds DEF Chmod, Usable, Whole
<1>10. ~(extractTarGz(w) \/ extractZip(w) \/ Unpacked(w))
  BY DEF extractTarGz, extractZip, Unpacked, Unpacking
<1> QED BY <1>2, <1>4, <1>6, <1>7, <1>8, <1>9, <1>10 DEF Goes

LEMMA KeptByFailure ==
  ASSUME PlaceInv, OnceInv, NEW w \in Worker, Fails(w), ~disturbed, ~disturbed',
         component # "cfst", Usable \/ HalfWay
  PROVE  Kept
<1>1. worker[w] \in Job /\ Placed(worker[w]) /\ (worker[w].pc \in Updating => Stage(worker[w])) /\ StoreOK
  BY DEF PlaceInv, OnceInv
<1>2. CASE BeginFails(w)
  BY <1>2, OnceQuietly, Untouched DEF Updating, Kept
<1>3. ASSUME UNCHANGED <<component, bin, executable>>, worker[w].pc \notin {"replace", "chmod"},
             \A v \in Worker : v # w => worker'[v].pc = worker[v].pc
      PROVE  Kept
  BY <1>3, Untouched DEF Kept
<1>4. CASE Stalls(w) \/ ReloadFails(w) \/ SaveFails(w)
  <2>1. UNCHANGED <<component, bin, executable>> /\ worker[w].pc \notin {"replace", "chmod"}
    BY <1>4 DEF Stalls, ReloadFails, SaveFails, config, store
  <2>2. \A v \in Worker : v # w => worker'[v].pc = worker[v].pc
    BY <1>4 DEF Stalls, ReloadFails, SaveFails, Rests, Moves, PlaceInv
  <2> QED BY <1>3, <2>1, <2>2
<1>5. CASE RequestFails(w) \/ WriteFails(w)
  <2>1. UNCHANGED <<component, bin, executable>> /\ worker[w].pc \notin {"replace", "chmod"}
    BY <1>5 DEF RequestFails, WriteFails, config
  <2>2. \A v \in Worker : v # w => worker'[v].pc = worker[v].pc
    BY <1>5 DEF RequestFails, WriteFails, Abandoned, Detached, Rests, PlaceInv, Job
  <2> QED BY <1>3, <2>1, <2>2
<1>6. CASE ChmodFails(w) \/ CoreUnrunnable(w) \/ (ReplaceFails(w) /\ component = "mihomo")
  <2>1. HalfWay
    BY <1>1, <1>6 DEF ChmodFails, CoreUnrunnable, ReplaceFails, HalfWay, Placed
  <2>2. faults' > faults
    <3>1. Fault
      BY <1>6 DEF ChmodFails, CoreUnrunnable, ReplaceFails
    <3> QED BY <1>1, <3>1, DailyBoundAssumption DEF Fault, StoreOK
  <2> QED BY <2>1, <2>2 DEF Kept
<1>7. CASE ReplaceFails(w) /\ component # "mihomo"
  <2>1. \A v \in Worker : worker[v].pc # "chmod"
    BY <1>7 DEF ReplaceFails, OnceInv, Alone, Updating
  <2>2. UNCHANGED <<component, bin, executable>> /\ ~HalfWay
    BY <1>7, <2>1 DEF ReplaceFails, HalfWay, config
  <2> QED BY <2>2 DEF Kept, Usable, Whole
<1>8. ~(OpenFails(w) \/ RestFails(w))
  BY DEF OpenFails, RestFails, Unpacking
<1> QED BY <1>2, <1>4, <1>5, <1>6, <1>7, <1>8 DEF Fails

(* An update that fails does not cost the panel the file it had, but for a   *)
(* failure half way of a replacement.                                        *)
THEOREM FileAlwaysKept == DailySpec => FailureKeepsFile
<1> DEFINE Keeps == (component # "cfst" /\ ~disturbed' /\ (Usable \/ HalfWay))
                      => (Usable \/ HalfWay)' \/ (HalfWay /\ faults' > faults)
<1>1. PlaceInv /\ OnceInv /\ [DailyNext]_dailyVars => Keeps
  <2> SUFFICES ASSUME PlaceInv, OnceInv, [DailyNext]_dailyVars, component # "cfst", ~disturbed', Usable \/ HalfWay
               PROVE  Kept
    BY DEF Kept
  <2>1. ~disturbed
    BY DisturbedStays
  <2>2. CASE ThreeOClock \/ NewDay \/ Publishes \/ SwitchOff \/ UNCHANGED dailyVars
    BY <2>1, <2>2, OnceDays, Untouched DEF Kept
  <2>3. CASE Restart
    BY <2>3, OnceRestarts, Untouched DEF Updating, Kept
  <2>4. ASSUME NEW w \in Worker, Tick(w) \/ SwitchOn(w) \/ UserUpdates(w) PROVE Kept
    BY <2>1, <2>4, OnceQuietly, Untouched DEF Updating, Kept
  <2>5. ASSUME NEW w \in Worker, UserInstalls(w) PROVE Kept
    <3>1. worker[w].pc = "rest" /\ UNCHANGED <<component, bin, executable>>
      BY <2>5 DEF UserInstalls, Free, store, config
    <3>2. \A v \in Worker : v # w => worker'[v] = worker[v]
      BY <2>5 DEF UserInstalls, Moves, PlaceInv
    <3> QED BY <3>1, <3>2, Untouched DEF Kept
  <2>6. ASSUME NEW w \in Worker, Goes(w) \/ Fails(w) PROVE Kept
    BY <2>1, <2>6, KeptByWork, KeptByFailure DEF Kept
  <2> QED BY <2>2, <2>3, <2>4, <2>5, <2>6 DEF DailyNext
<1>2. DailyInit => PlaceInv /\ OnceInv
  BY PlaceInit, OnceInit
<1>3. PlaceInv /\ OnceInv /\ [DailyNext]_dailyVars => (PlaceInv /\ OnceInv)'
  BY PlaceStep, OnceStep
<1> QED BY <1>1, <1>2, <1>3, PTL DEF DailySpec, FailureKeepsFile
=============================================================================
