------------------------------- MODULE Backup -------------------------------
(***************************************************************************)
(* The process and its backups: migrations, polling with retries, the loop *)
(* that backs up once a day and the command that does it at once.  pg_dump *)
(* is a child of the process: the event loop goes on while it runs.        *)
(***************************************************************************)
EXTENDS Naturals, FiniteSets, Sequences, SequencesExt

CONSTANTS
    Loop,        \* scheduled_backup_loop
    Commands,    \* handlers of /backup
    Keep,        \* KEEP_LAST_N
    MaxBackoff,  \* MAX_BACKOFF_SECONDS
    MaxTime,     \* bound: the clock stops here
    MaxCommits,  \* bound: committed changes of the database
    Nothing      \* no name, not a whole dump

ASSUME BackupAssumption ==
    /\ Loop \notin Commands
    /\ Keep \in Nat \ {0} /\ MaxBackoff \in Nat \ {0} /\ MaxTime \in Nat /\ MaxCommits \in Nat
    /\ Nothing \notin Nat

VARIABLES
    now,    \* the clock, in seconds
    since,  \* the second at which each version of the database was committed
    files,  \* BACKUP_DIR, the least recently written file first
    job,    \* the backups that are running
    proc    \* the process

backupVars == <<now, since, files, job, proc>>

-----------------------------------------------------------------------------
Jobs == Commands \cup {Loop}
Time == 0..MaxTime
Versions == 0..MaxCommits

Off == [pc |-> "off", name |-> Nothing, holds |-> Nothing]

BackupTypeOK ==
    /\ now \in Time
    /\ since \in [Versions -> Time \cup {Nothing}]
    /\ files \in Seq([name: Time, holds: Versions \cup {Nothing}])
    /\ job \in [Jobs -> [pc: {"off", "ready", "named", "dumped", "written", "asleep"},
                        name: Time \cup {Nothing}, holds: Versions \cup {Nothing}]]
    /\ proc \in [pc: {"down", "starting", "polling", "sleeping", "stopped"},
                 backoff: 1..MaxBackoff]

BackupInit ==
    /\ now = 0
    /\ since = [v \in Versions |-> IF v = 0 THEN 0 ELSE Nothing]
    /\ files = <<>>
    /\ job = [j \in Jobs |-> Off]
    /\ proc = [pc |-> "down", backoff |-> 1]

Running == proc.pc \in {"starting", "polling", "sleeping"}

-----------------------------------------------------------------------------
(* create_backup, by the loop and by commands.                              *)

\* The name is the second at which the backup begins.
BeginBackup(j) ==
    /\ \/ j = Loop /\ job[j].pc = "ready"
       \/ j # Loop /\ job[j].pc = "off" /\ proc.pc = "polling"
    /\ job' = [job EXCEPT ![j] = [pc |-> "named", name |-> now, holds |-> Nothing]]
    /\ UNCHANGED <<now, since, files, proc>>

\* pg_dump takes its snapshot.
TakeSnapshot(j) ==
    /\ job[j].pc = "named"
    /\ job' = [job EXCEPT ![j].pc = "dumped", ![j].holds = Max({v \in Versions : since[v] # Nothing})]
    /\ UNCHANGED <<now, since, files, proc>>

\* What is next for a job that has come to an end.
Ended(j) == IF j = Loop THEN [Off EXCEPT !.pc = "asleep"] ELSE Off

\* The file of that name, if there is one, is overwritten, and then the newest.
Written(name, holds) ==
    Append(RemoveFirstMatch(files, LAMBDA f : f.name = name), [name |-> name, holds |-> holds])

\* What may be left of some files when each of them may be removed.
Remains(fs) ==
    LET n == Len(fs)
    IN  {[k \in DOMAIN h |-> fs[h[k]]] :
            h \in {g \in UNION {[1..k -> 1..n] : k \in 0..n} : \A i, k \in DOMAIN g : i < k => g[i] < g[k]}}

\* Mutant: the files are not sorted in reverse.
PruningsOldestKept(fs) ==
    IF Len(fs) <= Keep THEN {fs}
    ELSE {SubSeq(fs, 1, Keep) \o left : left \in Remains(SubSeq(fs, Keep + 1, Len(fs)))}

\* _prune_old_backups keeps the last Keep files by their time of modification; an older
\* one that cannot be removed stays.
Prunings(fs) ==
    IF Len(fs) <= Keep THEN {fs}
    ELSE {left \o SubSeq(fs, Len(fs) - Keep + 1, Len(fs)) : left \in Remains(SubSeq(fs, 1, Len(fs) - Keep))}

\* Mutant: the file is named when it is written.
WriteFileNamedLate(j) ==
    /\ job[j].pc = "dumped"
    /\ \E fs \in {Written(now, job[j].holds)} : files' \in Prunings(fs)
    /\ job' = [job EXCEPT ![j] = IF j = Loop THEN Ended(j) ELSE [Off EXCEPT !.pc = "written"]]
    /\ UNCHANGED <<now, since, proc>>

WriteFile(j) ==
    /\ job[j].pc = "dumped"
    /\ \E fs \in {Written(job[j].name, job[j].holds)} : files' \in Prunings(fs)
    /\ job' = [job EXCEPT ![j] = IF j = Loop THEN Ended(j) ELSE [Off EXCEPT !.pc = "written"]]
    /\ UNCHANGED <<now, since, proc>>

\* The disk is full or the process is killed meanwhile: the file is cut.
CutFile(j) ==
    /\ job[j].pc = "dumped"
    /\ files' = Written(job[j].name, Nothing)

WriteFails(j) ==
    /\ CutFile(j)
    /\ job' = [job EXCEPT ![j] = Ended(j)]
    /\ UNCHANGED <<now, since, proc>>

Upload(j) ==
    /\ job[j].pc = "written"
    /\ job' = [job EXCEPT ![j] = Off]
    /\ UNCHANGED <<now, since, files, proc>>

\* Mutant: the loop does not catch what it does not expect.
BackupFailsForGood(j) ==
    /\ job[j].pc \in {"named", "written"}
    /\ job' = [job EXCEPT ![j] = Off]
    /\ UNCHANGED <<now, since, files, proc>>

\* pg_dump cannot be started, fails or takes 300 seconds; or Telegram fails.
BackupFails(j) ==
    /\ job[j].pc \in {"named", "written"}
    /\ job' = [job EXCEPT ![j] = Ended(j)]
    /\ UNCHANGED <<now, since, files, proc>>

\* A day has passed.
Wake ==
    /\ job[Loop].pc = "asleep"
    /\ job' = [job EXCEPT ![Loop].pc = "ready"]
    /\ UNCHANGED <<now, since, files, proc>>

-----------------------------------------------------------------------------
(* The process.                                                             *)

\* run_migrations has succeeded (else the process exits and is started again); the loops
\* are started.
StartProcess ==
    /\ proc.pc = "down"
    /\ proc' = [pc |-> "starting", backoff |-> 1]
    /\ job' = [job EXCEPT ![Loop].pc = "ready"]
    /\ UNCHANGED <<now, since, files>>

StartPolling ==
    /\ proc.pc = "starting"
    /\ proc' = [pc |-> "polling", backoff |-> 1]
    /\ UNCHANGED <<now, since, files, job>>

\* A start fails or polling crashes, and waits.
PollingFails ==
    /\ proc.pc \in {"starting", "polling"}
    /\ proc' = [proc EXCEPT !.pc = "sleeping"]
    /\ UNCHANGED <<now, since, files, job>>

\* Mutant: the pause has no limit.
DoubledUnbounded(n) == 2 * n

Doubled(n) == IF 2 * n < MaxBackoff THEN 2 * n ELSE MaxBackoff

\* Mutant: after the longest pause it gives up.
RetryGivesUp ==
    /\ proc.pc = "sleeping" /\ proc.backoff < MaxBackoff
    /\ proc' = [pc |-> "starting", backoff |-> Doubled(proc.backoff)]
    /\ UNCHANGED <<now, since, files, job>>

Retry ==
    /\ proc.pc = "sleeping"
    /\ proc' = [pc |-> "starting", backoff |-> Doubled(proc.backoff)]
    /\ UNCHANGED <<now, since, files, job>>

\* A signal ends the process, a crash has it started again: all tasks are gone, and a
\* file that was being written may be cut.
ProcessExits ==
    /\ Running
    /\ proc' \in {[proc EXCEPT !.pc = "stopped"], [proc EXCEPT !.pc = "down"]}
    /\ UNCHANGED files \/ \E j \in Jobs : CutFile(j)
    /\ job' = [j \in Jobs |-> Off]
    /\ UNCHANGED <<now, since>>

StartAgain ==
    /\ proc.pc = "stopped"
    /\ proc' = [proc EXCEPT !.pc = "down"]
    /\ UNCHANGED <<now, since, files, job>>

-----------------------------------------------------------------------------
(* The surroundings.                                                        *)

\* A handler commits.
HandlerCommits(v) ==
    /\ Running
    /\ since[v] = Nothing /\ since[v - 1] # Nothing
    /\ since' = [since EXCEPT ![v] = now]
    /\ UNCHANGED <<now, files, job, proc>>

Tick ==
    /\ now < MaxTime
    /\ now' = now + 1
    /\ UNCHANGED <<since, files, job, proc>>

BackupStep(j) ==
    BeginBackup(j) \/ TakeSnapshot(j) \/ WriteFile(j) \/ WriteFails(j) \/ Upload(j) \/ BackupFails(j)

BackupNext ==
    \/ \E j \in Jobs : BackupStep(j)
    \/ Wake
    \/ StartProcess \/ StartPolling \/ PollingFails \/ Retry \/ ProcessExits \/ StartAgain
    \/ \E v \in 1..MaxCommits : HandlerCommits(v)
    \/ Tick

BackupSpec == BackupInit /\ [][BackupNext]_backupVars

\* The event loop goes on with a backup that has begun, a day passes, a sleep ends; neither
\* the migrations nor the start of polling fails for ever.
FairBackupSpec ==
    /\ BackupSpec
    /\ \A j \in Jobs : WF_backupVars(job[j].pc # "off" /\ BackupStep(j))
    /\ WF_backupVars(Wake) /\ WF_backupVars(StartProcess) /\ WF_backupVars(Retry)
    /\ SF_backupVars(StartPolling)

-----------------------------------------------------------------------------
(* Properties.                                                              *)

\* A backup holds whatever had been committed before the second in its name: the name is
\* taken before the snapshot, also when a namesake was overwritten.
NameTellsTime ==
    \A f \in ToSet(files), v \in Versions :
        f.holds # Nothing /\ since[v] # Nothing /\ since[v] < f.name => v <= f.holds

\* A file is lost only to a namesake of the same second, or when there are Keep newer ones,
\* the newest of which is a dump that has just succeeded: a backup that fails costs
\* nothing older, however many fail.
LostOnlyToNewer ==
    [][\A i \in 1..Len(files) : files[i] \notin ToSet(files') =>
        \/ \E g \in ToSet(files') : g.name = files[i].name
        \/ /\ Cardinality({Last(files')} \cup (ToSet(files') \ {files[k] : k \in 1..i})) >= Keep
           /\ \E j \in Jobs : /\ job[j].pc = "dumped"
                              /\ Last(files') = [name |-> job[j].name, holds |-> job[j].holds]]_backupVars

\* No failure stops the daily backups: while the process runs there is always a next one.
BackupsGoOn == []<>(job[Loop].pc = "named") \/ []<>~Running

\* After a crash polling comes back, unless the process ends.
PollingComesBack == proc.pc = "sleeping" ~> proc.pc = "polling" \/ ~Running

=============================================================================
