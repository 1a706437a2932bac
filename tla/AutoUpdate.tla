----------------------------- MODULE AutoUpdate -----------------------------
(***************************************************************************)
(* The daily updates of the four things the panel downloads for itself:    *)
(* the GeoIP database, the Mihomo core, cloudflared and CloudflareST       *)
(* (internal/service/auto_update.go with the downloads of geo.go,          *)
(* mihomo.go, cf_tunnel.go and cf_ipopt.go), and the same downloads asked  *)
(* for by a user.                                                          *)
(*                                                                         *)
(* Each of the four has a mutex, a date and files of its own, so a         *)
(* behaviour is about one of them, chosen at the start.  A goroutine is a  *)
(* worker.  A mutex serialises the automatic checks but not the downloads  *)
(* that a user starts; only Mihomo's takes a lock of its own.  Downloads   *)
(* share one temporary file.  A file is the pair of its halves, each of    *)
(* some release or missing, and a worker that writes knows which of the    *)
(* two names its open file now has: "temp", "bin" or neither.              *)
(*                                                                         *)
(* Of a date only whether it is today's is kept.  An archive is read whole *)
(* when it is opened, and stands for what was unpacked from it where the   *)
(* code unpacks into a second temporary file (Mihomo).                     *)
(*                                                                         *)
(* Some names begin with Daily: Updates_proofs reads this module together  *)
(* with AgentUpdater.                                                      *)
(***************************************************************************)
EXTENDS Naturals, FiniteSets

CONSTANTS
  Worker,     \* bound: goroutines at the same time
  MaxRelease, \* bound: the newest release upstream will have
  MaxFault,   \* bound: failures of the network or the disk, crashes
  MaxManual,  \* bound: updates that users ask for, or switch off
  MaxRetries, \* attempts of the download of CloudflareST (3 in the code)
  Nothing     \* no file, no half of one, no version

ASSUME WorkerAssumption == Worker # {}
ASSUME DailyBoundAssumption == MaxRelease \in Nat /\ MaxFault \in Nat /\ MaxManual \in Nat
ASSUME RetryAssumption == MaxRetries \in Nat \ {0}

VARIABLES
  component,  \* which of the four
  zip,        \* the archives are zip files (the panel runs on Windows)
  late,       \* it is three o'clock or later
  enabled,    \* the row *_auto_update
  checked,    \* the row *_last_check_date is today's
  release,    \* the newest release upstream
  row,        \* the row of the version
  temp,       \* the temporary file
  bin,        \* the file in use
  executable, \* its permission to run
  db,         \* the GeoIP database is open
  worker,     \* the goroutines
  disturbed,  \* history: two downloads overlapped, or a crash left one half done
  botched,    \* history: the end of an update failed, and no update has ended well since
  faults,
  manuals

config == <<component, zip>>
clock == <<late, checked>>
store == <<temp, bin, executable, db>>
history == <<disturbed, botched>>
bounds == <<faults, manuals>>
dailyVars == <<config, clock, enabled, release, row, store, worker, history, bounds>>

ReleaseNumber == 0 .. MaxRelease
Half == {1, 2}
Empty == [h \in Half |-> Nothing]
Of(r) == [h \in Half |-> r]
File == [Half -> ReleaseNumber \cup {Nothing}]
ASSUME NothingAssumption == Nothing \notin ReleaseNumber \cup File \cup {"temp", "bin"}

Whole(f) == f \in {Of(r) : r \in ReleaseNumber}

(***************************************************************************)
(* Workers.                                                                *)
(***************************************************************************)
Resting == [pc |-> "rest", auto |-> FALSE, today |-> FALSE, version |-> Nothing,
            body |-> Empty, at |-> Nothing, try |-> 0]

\* from the request for the file to the end of the update
Updating ==
  {"request", "write1", "write2", "unpack", "remove", "replace", "chmod", "reload", "save"}
Stages == {"rest", "queued", "local", "compare", "begin", "stalled"} \cup Updating

Job == [pc : Stages, auto : BOOLEAN, today : BOOLEAN, version : ReleaseNumber \cup {Nothing},
        body : File, at : {"temp", "bin", Nothing}, try : 0 .. MaxRetries]

Free == {w \in Worker : worker[w].pc = "rest"}

\* the mutex of the automatic updates
Checking == \E w \in Worker : worker[w].auto /\ worker[w].pc \notin {"rest", "queued"}

\* MihomoService.mu, held from the start of ForceUpdate to its end
CoreLocked ==
  /\ component = "mihomo"
  /\ \E w \in Worker : worker[w].pc \in Updating

DailyTypeOK ==
  /\ component \in {"geo", "mihomo", "cloudflared", "cfst"} /\ zip \in BOOLEAN
  /\ late \in BOOLEAN /\ enabled \in BOOLEAN /\ checked \in BOOLEAN
  /\ release \in ReleaseNumber /\ row \in ReleaseNumber \cup {Nothing}
  /\ temp \in File \cup {Nothing} /\ bin \in File \cup {Nothing}
  /\ executable \in BOOLEAN /\ db \in BOOLEAN /\ disturbed \in BOOLEAN /\ botched \in BOOLEAN
  /\ worker \in [Worker -> Job]
  /\ faults \in 0 .. MaxFault /\ manuals \in 0 .. MaxManual

\* A fresh panel, or one on which the release 0 was installed before.
DailyInit ==
  /\ component \in {"geo", "mihomo", "cloudflared", "cfst"}
  /\ zip \in BOOLEAN /\ (zip => component = "cfst")
  /\ late = FALSE /\ enabled = FALSE /\ checked = FALSE
  /\ release = 0 /\ temp = Nothing
  /\ \/ bin = Of(0) /\ row = (IF component = "cloudflared" THEN Nothing ELSE 0)
     \/ bin = Nothing /\ row = Nothing
  /\ executable = (bin # Nothing) /\ db = (component = "geo" /\ bin # Nothing)
  /\ worker = [w \in Worker |-> Resting]
  /\ disturbed = FALSE /\ botched = FALSE /\ faults = 0 /\ manuals = 0

\* The version the panel believes it has, Nothing when it knows none.
Local ==
  CASE bin = Nothing -> Nothing
    [] component = "cloudflared" -> IF Whole(bin) /\ executable THEN bin[1] ELSE Nothing
    [] OTHER -> row

Moves(w, pc) == worker' = [worker EXCEPT ![w].pc = pc]
Rests(w) == worker' = [worker EXCEPT ![w] = Resting]
Fault == faults < MaxFault /\ faults' = faults + 1

(***************************************************************************)
(* Time, upstream, and the scheduler's tick.                               *)
(***************************************************************************)
ThreeOClock ==
  /\ ~late /\ late' = TRUE
  /\ UNCHANGED <<config, checked, enabled, release, row, store, worker, history, bounds>>

NewDay ==
  /\ late /\ late' = FALSE /\ checked' = FALSE
  /\ worker' = [w \in Worker |-> [worker[w] EXCEPT !.today = FALSE]]
  /\ UNCHANGED <<config, enabled, release, row, store, history, bounds>>

Publishes ==
  /\ release < MaxRelease /\ release' = release + 1
  /\ UNCHANGED <<config, clock, enabled, row, store, worker, history, bounds>>

shouldRunDailyAfterHour == late /\ ~checked

Queued(w) ==
  /\ w \in Free
  /\ worker' = [worker EXCEPT ![w] = [Resting EXCEPT !.pc = "queued", !.auto = TRUE, !.today = TRUE]]

Tick(w) ==
  /\ shouldRunDailyAfterHour /\ enabled /\ Queued(w)
  /\ UNCHANGED <<config, clock, enabled, release, row, store, history, bounds>>

\* The settings page switches the updates on, and asks for one at once.
SwitchOn(w) ==
  /\ ~enabled /\ enabled' = TRUE /\ Queued(w)
  /\ UNCHANGED <<config, clock, release, row, store, history, bounds>>

SwitchOff ==
  /\ enabled /\ enabled' = FALSE
  /\ manuals < MaxManual /\ manuals' = manuals + 1
  /\ UNCHANGED <<config, clock, release, row, store, worker, history, faults>>

(***************************************************************************)
(* runGeoAutoUpdate and its three siblings.                                *)
(***************************************************************************)
Installed == bin # Nothing

\* Under the mutex.  cloudflared and CloudflareST are left alone when they
\* are not there, and then the day is not marked.  A goroutine marks the day
\* of its tick, which may be over.
Check(w) ==
  /\ worker[w].pc = "queued" /\ ~Checking
  /\ IF enabled /\ (component \in {"geo", "mihomo"} \/ Installed)
       THEN /\ checked' = worker[w].today
            /\ worker' = [worker EXCEPT ![w] =
                 IF component \in {"geo", "mihomo"}
                   THEN [@ EXCEPT !.pc = "local", !.today = FALSE]
                   ELSE [@ EXCEPT !.pc = "compare", !.today = FALSE, !.version = Local]]
       ELSE Rests(w) /\ UNCHANGED checked
  /\ UNCHANGED <<config, late, enabled, release, row, store, history, bounds>>

\* GetLocalVersion, which waits for MihomoService.mu
ReadLocal(w) ==
  /\ worker[w].pc = "local" /\ ~CoreLocked
  /\ worker' = [worker EXCEPT ![w].pc = "compare", ![w].version = Local]
  /\ UNCHANGED <<config, clock, enabled, release, row, store, history, bounds>>

Compare(w) ==
  /\ worker[w].pc = "compare"
  /\ \/ worker[w].version = release /\ Rests(w) /\ UNCHANGED bounds
     \/ /\ worker[w].version # release /\ UNCHANGED bounds
        /\ worker' = [worker EXCEPT ![w].pc = "begin", ![w].version = Nothing]
     \/ Fault /\ Rests(w) /\ UNCHANGED manuals
  /\ UNCHANGED <<config, clock, enabled, release, row, store, history>>

(***************************************************************************)
(* ForceUpdate and the downloads.                                          *)
(***************************************************************************)
Overlaps(w) == \E v \in Worker \ {w} : worker[v].pc \in Updating

\* A user asks for an update: apiUpdateGeoIP, apiUpdateMihomo,
\* apiCFTunnelForceUpdate, apiCFIPOptForceUpdate.
UserUpdates(w) ==
  /\ w \in Free /\ manuals < MaxManual /\ manuals' = manuals + 1
  /\ Moves(w, "begin")
  /\ UNCHANGED <<config, clock, enabled, release, row, store, history, faults>>

\* A user installs cloudflared, when it is not there, or CloudflareST, at the
\* release that the panel knows of (0) and with retries.
UserInstalls(w) ==
  /\ w \in Free /\ manuals < MaxManual /\ manuals' = manuals + 1
  /\ \/ /\ component = "cloudflared" /\ ~Installed
        /\ Moves(w, "request")
     \/ /\ component = "cfst"
        /\ worker' = [worker EXCEPT ![w] = [@ EXCEPT !.pc = "request", !.version = 0, !.try = 1]]
  /\ disturbed' = (disturbed \/ Overlaps(w))
  /\ UNCHANGED <<botched, config, clock, enabled, release, row, store, faults>>

\* The newest release is asked for; cloudflared's download needs no number.
Begin(w) ==
  /\ worker[w].pc = "begin" /\ ~CoreLocked
  /\ worker' = [worker EXCEPT ![w].pc = "request",
                  ![w].version = IF component = "cloudflared" THEN Nothing ELSE release]
  /\ disturbed' = (disturbed \/ Overlaps(w))
  /\ UNCHANGED <<botched, config, clock, enabled, release, row, store, bounds>>

BeginFails(w) ==
  /\ worker[w].pc = "begin" /\ component # "cloudflared" /\ ~CoreLocked
  /\ Fault /\ Rests(w)
  /\ UNCHANGED <<config, clock, enabled, release, row, store, history, manuals>>

\* The answer is here and the temporary file is created, or cut to nothing
\* under the hands of another worker.  The addresses of the GeoIP database
\* and of cloudflared name no release: they give the newest.
Request(w) ==
  /\ worker[w].pc = "request"
  /\ temp' = Empty
  /\ worker' = [worker EXCEPT ![w] = [@ EXCEPT !.pc = "write1", !.at = "temp",
       !.body = Of(IF component \in {"geo", "cloudflared"} THEN release ELSE worker[w].version)]]
  /\ UNCHANGED <<config, clock, enabled, release, row, bin, executable, db, history, bounds>>

\* Half h of the body goes to the file the worker has open.
Written(w, h) ==
  /\ temp' = (IF worker[w].at = "temp" THEN [temp EXCEPT ![h] = worker[w].body[h]] ELSE temp)
  /\ bin' = (IF worker[w].at = "bin" THEN [bin EXCEPT ![h] = worker[w].body[h]] ELSE bin)

\* CloudflareST is unpacked over the file in use.
Unpacking(w) == component = "cfst" /\ worker[w].at = "bin"

WriteFirst(w) ==
  /\ worker[w].pc = "write1" /\ Written(w, 1) /\ Moves(w, "write2")
  /\ UNCHANGED <<config, clock, enabled, release, row, executable, db, history, bounds>>

WriteSecond(w) ==
  /\ worker[w].pc = "write2" /\ ~Unpacking(w) /\ Written(w, 2)
  /\ Moves(w, IF component \in {"geo", "cloudflared"} THEN "replace" ELSE "unpack")
  /\ UNCHANGED <<config, clock, enabled, release, row, executable, db, history, bounds>>

\* What w does when its attempt fails.
NextTry(w) ==
  IF component = "cfst" /\ worker[w].try \in 1 .. MaxRetries - 1
    THEN [worker[w] EXCEPT !.pc = "request", !.at = Nothing, !.body = Empty, !.try = @ + 1]
    ELSE Resting

\* The workers when the temporary file loses its name, w going on as r.
Detached(w, r) ==
  [v \in Worker |-> IF v = w THEN r
                    ELSE IF worker[v].at = "temp" THEN [worker[v] EXCEPT !.at = Nothing]
                    ELSE worker[v]]

\* An attempt fails.  The code for cloudflared and CloudflareST removes the
\* temporary file, by its name.
Abandoned(w) ==
  IF component \in {"cloudflared", "cfst"}
    THEN temp' = Nothing /\ worker' = Detached(w, NextTry(w))
    ELSE worker' = [worker EXCEPT ![w] = Resting] /\ UNCHANGED temp

RequestFails(w) ==
  /\ worker[w].pc = "request" /\ Fault
  /\ IF component = "cfst" THEN Abandoned(w) ELSE Rests(w) /\ UNCHANGED temp
  /\ UNCHANGED <<config, clock, enabled, release, row, bin, executable, db, history, manuals>>

\* mutant: the error of io.Copy is not looked at
WriteFails_Unseen(w) ==
  /\ worker[w].pc \in {"write1", "write2"} /\ Fault
  /\ Moves(w, IF component \in {"geo", "cloudflared"} THEN "replace" ELSE "unpack")
  /\ UNCHANGED <<config, clock, enabled, release, row, store, history, manuals>>

WriteFails(w) ==
  /\ worker[w].pc \in {"write1", "write2"} /\ Fault /\ Abandoned(w)
  /\ botched' = (botched \/ worker[w].at = "bin")
  /\ UNCHANGED <<config, clock, enabled, release, row, bin, executable, db, disturbed, manuals>>

\* http.Get has no time limit: an answer may stop coming.
Stalls(w) ==
  /\ component \in {"cloudflared", "cfst"} /\ ~Unpacking(w)
  /\ worker[w].pc \in {"request", "write1", "write2"} /\ Fault /\ Moves(w, "stalled")
  /\ UNCHANGED <<config, clock, enabled, release, row, store, history, manuals>>

(***************************************************************************)
(* Unpacking.                                                              *)
(***************************************************************************)
\* Mihomo: the archive becomes the second temporary file.
UnpackCore(w) ==
  /\ worker[w].pc = "unpack" /\ component = "mihomo"
  /\ \/ Moves(w, "remove") /\ UNCHANGED <<temp, bounds>>
     \/ Fault /\ Rests(w) /\ temp' = Nothing /\ UNCHANGED manuals
  /\ UNCHANGED <<config, clock, enabled, release, row, bin, executable, db, history>>

\* The file in use is cut to nothing and the halves of the archive follow.
Opens(w) ==
  /\ bin' = Empty /\ executable' = TRUE
  /\ worker' = [worker EXCEPT ![w] = [@ EXCEPT !.pc = "write1", !.at = "bin", !.body = temp]]
  /\ UNCHANGED temp

\* A tar file is read as it is unpacked: its first half is enough to begin.
extractTarGz(w) ==
  /\ worker[w].pc = "unpack" /\ component = "cfst" /\ ~zip
  /\ IF temp # Nothing /\ temp[1] # Nothing
       THEN Opens(w)
       ELSE Abandoned(w) /\ UNCHANGED <<bin, executable>>
  /\ UNCHANGED <<config, clock, enabled, release, row, db, history, bounds>>

\* A zip file has its directory at the end: a torn one does not open.
extractZip(w) ==
  /\ worker[w].pc = "unpack" /\ component = "cfst" /\ zip
  /\ IF temp # Nothing /\ Whole(temp)
       THEN Opens(w)
       ELSE Abandoned(w) /\ UNCHANGED <<bin, executable>>
  /\ UNCHANGED <<config, clock, enabled, release, row, db, history, bounds>>

\* The file in use cannot be opened, for one because it is running.
OpenFails(w) ==
  /\ worker[w].pc = "unpack" /\ component = "cfst" /\ Fault /\ Abandoned(w)
  /\ UNCHANGED <<config, clock, enabled, release, row, bin, executable, db, history, manuals>>

\* The program is whole, and so are the files of the archive that follow it.
\* The end of a torn archive is noticed only here.
Unpacked(w) ==
  /\ worker[w].pc = "write2" /\ Unpacking(w)
  /\ IF Whole(worker[w].body)
       THEN /\ bin' = [bin EXCEPT ![2] = worker[w].body[2]]
            /\ temp' = Nothing
            /\ worker' = Detached(w, [worker[w] EXCEPT !.pc = "save", !.at = Nothing])
       ELSE Abandoned(w) /\ UNCHANGED bin
  /\ UNCHANGED <<config, clock, enabled, release, row, executable, db, history, bounds>>

\* The program is whole, and a later file of the archive cannot be written.
RestFails(w) ==
  /\ worker[w].pc = "write2" /\ Unpacking(w) /\ Whole(worker[w].body)
  /\ bin' = [bin EXCEPT ![2] = worker[w].body[2]]
  /\ Abandoned(w) /\ Fault /\ botched' = TRUE
  /\ UNCHANGED <<config, clock, enabled, release, row, executable, db, disturbed, manuals>>

(***************************************************************************)
(* Putting the new file in place.                                          *)
(***************************************************************************)
\* Whether the core in use could be removed is not looked at.
RemoveOld(w) ==
  /\ worker[w].pc = "remove" /\ Moves(w, "replace")
  /\ \/ bin' = Nothing /\ UNCHANGED bounds
     \/ Fault /\ UNCHANGED <<bin, manuals>>
  /\ UNCHANGED <<config, clock, enabled, release, row, temp, executable, db, history>>

\* The workers when the temporary file takes the name of the file in use.
Renamed(w, pc) ==
  [v \in Worker |->
    LET at == IF worker[v].at = "temp" THEN "bin" ELSE Nothing
    IN IF v = w THEN [worker[v] EXCEPT !.pc = pc, !.at = Nothing, !.body = Empty]
                ELSE [worker[v] EXCEPT !.at = at]]

\* The new file is the one in use, may it be run or not, and w goes on at pc.
TakesPlace(w, pc, runs) ==
  bin' = temp /\ temp' = Nothing /\ executable' = runs /\ worker' = Renamed(w, pc)

\* mutant: the new database is not opened
Replace_NoReload(w) ==
  /\ worker[w].pc = "replace" /\ temp # Nothing
  /\ db' = (db /\ component # "geo")
  /\ TakesPlace(w, IF component = "cloudflared" THEN "chmod" ELSE "save", component # "cloudflared")
  /\ UNCHANGED <<config, clock, enabled, release, row, history, bounds>>

\* The GeoIP database is closed first, and stays closed when there is nothing
\* to rename.  cloudflared gets its permission to run afterwards.
Replace(w) ==
  /\ worker[w].pc = "replace"
  /\ db' = (db /\ component # "geo")
  /\ IF temp = Nothing
       THEN Rests(w) /\ UNCHANGED <<temp, bin, executable>>
       ELSE TakesPlace(w, CASE component = "geo" -> "reload"
                            [] component = "cloudflared" -> "chmod"
                            [] component = "mihomo" -> "save", component # "cloudflared")
  /\ UNCHANGED <<config, clock, enabled, release, row, history, bounds>>

\* The new file cannot be renamed.  By then the database is closed, and the
\* core removed; of the core also the archive is removed.
ReplaceFails(w) ==
  /\ worker[w].pc = "replace" /\ Fault /\ Rests(w) /\ botched' = TRUE
  /\ db' = (db /\ component # "geo")
  /\ temp' = (IF component = "mihomo" THEN Nothing ELSE temp)
  /\ UNCHANGED <<config, clock, enabled, release, row, bin, executable, disturbed, manuals>>

\* The new core got no permission to run before it is renamed, which is not
\* looked at.
CoreUnrunnable(w) ==
  /\ worker[w].pc = "replace" /\ component = "mihomo" /\ temp # Nothing
  /\ Fault /\ TakesPlace(w, "save", FALSE) /\ botched' = TRUE
  /\ UNCHANGED <<config, clock, enabled, release, row, db, disturbed, manuals>>

Chmod(w) ==
  /\ worker[w].pc = "chmod" /\ executable' = TRUE /\ Rests(w) /\ botched' = FALSE
  /\ UNCHANGED <<config, clock, enabled, release, row, temp, bin, db, disturbed, bounds>>

ChmodFails(w) ==
  /\ worker[w].pc = "chmod" /\ Fault /\ Rests(w) /\ botched' = TRUE
  /\ UNCHANGED <<config, clock, enabled, release, row, store, disturbed, manuals>>

Reload(w) ==
  /\ worker[w].pc = "reload" /\ db' = Whole(bin)
  /\ IF Whole(bin) THEN Moves(w, "save") ELSE Rests(w)
  /\ UNCHANGED <<config, clock, enabled, release, row, temp, bin, executable, history, bounds>>

ReloadFails(w) ==
  /\ worker[w].pc = "reload" /\ Fault /\ Rests(w) /\ db' = FALSE /\ botched' = TRUE
  /\ UNCHANGED <<config, clock, enabled, release, row, temp, bin, executable, disturbed, manuals>>

\* mutant: there is no row to update
Save_NoRow(w) ==
  /\ worker[w].pc = "save" /\ Rests(w) /\ botched' = ~executable
  /\ UNCHANGED <<config, clock, enabled, release, row, store, disturbed, bounds>>

\* The version goes to its row; whether that worked is not looked at.
Save(w) ==
  /\ worker[w].pc = "save" /\ row' = worker[w].version /\ Rests(w)
  /\ botched' = ~executable
  /\ UNCHANGED <<config, clock, enabled, release, store, disturbed, bounds>>

SaveFails(w) ==
  /\ worker[w].pc = "save" /\ Fault /\ Rests(w) /\ botched' = TRUE
  /\ UNCHANGED <<config, clock, enabled, release, row, store, disturbed, manuals>>

\* The panel ends and starts again: InitGeoIP opens the database or downloads
\* it in the background.
Restart ==
  /\ Fault
  /\ disturbed' = (disturbed \/ \E w \in Worker : worker[w].pc \in Updating)
  /\ db' = (component = "geo" /\ Whole(bin))
  /\ LET first == CHOOSE w \in Worker : TRUE
         downloads == component = "geo" /\ ~Whole(bin)
     IN worker' = [w \in Worker |-> IF downloads /\ w = first
                                      THEN [Resting EXCEPT !.pc = "begin"] ELSE Resting]
  /\ UNCHANGED <<config, clock, enabled, release, row, temp, bin, executable, botched, manuals>>

(***************************************************************************)
(* The system.                                                             *)
(***************************************************************************)
\* One goroutine goes on, without a failure.
Goes(w) ==
  \/ Check(w) \/ ReadLocal(w) \/ Compare(w) \/ Begin(w) \/ Request(w)
  \/ WriteFirst(w) \/ WriteSecond(w) \/ UnpackCore(w) \/ extractTarGz(w) \/ extractZip(w)
  \/ Unpacked(w) \/ RemoveOld(w) \/ Replace(w) \/ Chmod(w) \/ Reload(w) \/ Save(w)

Fails(w) ==
  \/ BeginFails(w) \/ RequestFails(w) \/ WriteFails(w) \/ Stalls(w) \/ OpenFails(w) \/ RestFails(w)
  \/ ReplaceFails(w) \/ CoreUnrunnable(w) \/ ChmodFails(w) \/ ReloadFails(w) \/ SaveFails(w)

DailyNext ==
  \/ ThreeOClock \/ NewDay \/ Publishes \/ SwitchOff \/ Restart
  \/ \E w \in Worker :
       Tick(w) \/ SwitchOn(w) \/ UserUpdates(w) \/ UserInstalls(w) \/ Goes(w) \/ Fails(w)

DailySpec == DailyInit /\ [][DailyNext]_dailyVars

\* Days pass, the ticker ticks every minute of them, and a goroutine that can
\* go on does, also when it waits for a mutex among others.
DailyFairSpec ==
  /\ DailySpec
  /\ WF_dailyVars(ThreeOClock) /\ WF_dailyVars(NewDay)
  /\ SF_dailyVars(\E w \in Worker : Tick(w))
  /\ \A w \in Worker : SF_dailyVars(Goes(w))

(***************************************************************************)
(* Properties.                                                             *)
(***************************************************************************)
Quiet == \A w \in Worker : worker[w].pc \notin Updating

\* Unless two downloads overlapped or one was cut short, the version that the
\* panel goes by is that of the file it has: of CloudflareST and Mihomo
\* exactly, of the GeoIP database the file may be newer, as its version is
\* asked for before it is downloaded.  And the database is open (geo.go:134)
\* and cloudflared may be run.  A failure in the request, the download or the
\* first file unpacked changes nothing of this.  One at the very end does: in
\* a later file of the archive (cf_ipopt.go:420, 485), the rename with the
\* database closed (geo.go:157), its opening, the permission
\* (cf_tunnel.go:486, mihomo.go:164) and the row.  What then differs agrees
\* again from the next update that ends well.
RecordIsTrue ==
  (Quiet /\ ~disturbed /\ bin # Nothing /\ Whole(bin)) =>
    CASE component = "geo" -> /\ row # Nothing => row <= bin[1]
                              /\ botched \/ (db /\ row # Nothing)
      [] component = "cloudflared" -> botched \/ executable
      [] OTHER -> botched \/ row = bin[1]

Usable == bin # Nothing /\ Whole(bin) /\ executable

\* after the removal of the core, and before the permission of cloudflared
HalfWay == \E w \in Worker :
  worker[w].pc = (CASE component = "mihomo" -> "replace" [] OTHER -> "chmod")

\* An update that fails does not cost the panel the file it had, unless two
\* overlapped or the panel died: except of CloudflareST, which is unpacked in
\* place (cf_ipopt.go:444), a file that works is replaced by one that works.
\* Two failures do cost it, both half way: the core is removed and the new one
\* cannot be renamed or run (mihomo.go:164-171), and cloudflared is renamed
\* and gets no permission to run (cf_tunnel.go:486).  The database is kept
\* whatever fails.
FailureKeepsFile ==
  [][(component # "cfst" /\ ~disturbed' /\ (Usable \/ HalfWay))
       => (Usable \/ HalfWay)' \/ (HalfWay /\ faults' > faults)]_dailyVars

\* The panel has the newest release, whole, and it may be run or is open.
Renewed ==
  /\ Local = release /\ Usable /\ bin[1] = release
  /\ component = "geo" => db

\* If updates stay switched on, for a program that is installed, and no
\* answer of the network stops half way, the panel comes to have the newest
\* release again and again, whatever failed, overlapped or died before.  The
\* daily check compares numbers (auto_update.go:112, 146, 227): a file that an
\* update spoilt under the newest number, as one that a user forces may, is
\* the one thing it does not repair before the next release.  cloudflared is
\* asked for its number itself, so that it is always repaired.
CatchesUp ==
  (/\ <>[](enabled /\ (component \in {"geo", "mihomo"} \/ Installed))
   /\ [](\A w \in Worker : worker[w].pc # "stalled"))
    => \/ []<>Renewed
       \/ /\ component # "cloudflared"
          /\ <>[](row = release /\ ~Renewed /\ (botched \/ disturbed))
=============================================================================
