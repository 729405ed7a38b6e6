---------------------------- MODULE ConfigStore ----------------------------
(***************************************************************************)
(* config/storage.rs: the config tree on disk, written by tasks of the     *)
(* daemon and by the tetron command line, and the daemon's cache of it.    *)
(*                                                                         *)
(* A thread runs one job.  Settings jobs load the whole config, through    *)
(* the cache in the daemon, change a field and save settings.toml.         *)
(* Network jobs read and save one networks/<name>.toml, under              *)
(* NETWORK_UPDATE_LOCK when they go through update_network.  A save makes  *)
(* a temporary file, writes it and renames it; the temporary name is the   *)
(* process's, so threads of the daemon share it.                           *)
(***************************************************************************)
EXTENDS Integers, FiniteSets

CONSTANTS
    Thread,      \* the tasks and processes that use the tree
    Job,         \* Job[t]: what t does
    RacyWindow,  \* RACY_WINDOW, in ticks of the file system's clock
    MaxClock,    \* bound: how far that clock runs
    MaxJobs,     \* bound: how many of the threads run
    MaxCrash     \* bound: how often the daemon dies

SettingsJobs == {"set_operator", "activate", "config_set"}
LockedJobs == {"grant", "roster"}
NetworkJobs == LockedJobs \cup {"hostname", "leave"}
Jobs == SettingsJobs \cup NetworkJobs \cup {"status"}

ASSUME ConstantsOK ==
    /\ Job \in [Thread -> Jobs]
    /\ RacyWindow \in Nat \ {0}
    /\ MaxClock \in Nat /\ MaxJobs \in Nat /\ MaxCrash \in Nat

File == {"settings", "network"}

\* The file a job reads and saves; a field is named for the job that sets it.
FileOf(t) == IF Job[t] \in NetworkJobs THEN "network" ELSE "settings"
Writes(t) == Job[t] # "status"
Process == {"daemon", "cli"}
ProcessOf(t) == IF Job[t] = "config_set" THEN "cli" ELSE "daemon"

VARIABLES
    clock,    \* the file system's coarse clock
    disk,     \* disk[f]: the file at the path
    dirtime,  \* the mtime of networks/
    tmp,      \* tmp[p][f]: process p's temporary file for f
    cache,    \* CONFIG_CACHE of the daemon
    lock,     \* NETWORK_UPDATE_LOCK: held or not
    thread,   \* thread[t]: where t is, its copy of the file, its fingerprint
    crashes,
    overlap,  \* overlap[f]: who has been seen changing f at the same time (history)
    slow      \* a text was renamed later than RACY_WINDOW after it was written (history)

storeVars == <<clock, disk, dirtime, tmp, cache, lock, thread, crashes, overlap, slow>>

-----------------------------------------------------------------------------
(* Files.  whole: the text is all there; has: the fields it sets; at: mtime.  *)
(* Lengths are taken equal, which hides the most from a fingerprint.          *)

NoTime == -1
NoFile == [there |-> FALSE, whole |-> TRUE, has |-> {}, at |-> NoTime]
NewFile(whole, has) == [there |-> TRUE, whole |-> whole, has |-> has, at |-> clock]

\* What load_in makes of the tree: a network whose text does not parse is
\* skipped.
NetworkConfig == [there |-> disk["network"].there /\ disk["network"].whole,
                  has |-> IF disk["network"].whole THEN disk["network"].has ELSE {}]

\* fingerprint_full
FingerprintFull ==
    LET stamps == {disk["settings"].at, disk["network"].at, dirtime} \ {NoTime} IN
    [settings |-> disk["settings"].at, networks_dir |-> dirtime, network |-> disk["network"].at,
     trusted |-> \A m \in stamps : m + RacyWindow <= clock]

\* fingerprint_still_valid: it looks only at the files the entry names.
StillValid(fp) ==
    /\ fp.trusted
    /\ fp.settings = disk["settings"].at
    /\ fp.networks_dir = dirtime
    /\ fp.network # NoTime => fp.network = disk["network"].at

NoFingerprint == [settings |-> NoTime, networks_dir |-> NoTime, network |-> NoTime,
                  trusted |-> FALSE]
NoEntry == [fp |-> NoFingerprint, settings |-> {}, network |-> [there |-> FALSE, has |-> {}]]

Idle == [pc |-> "idle", copy |-> {}, fp |-> NoFingerprint, fd |-> "none", result |-> "none"]

StoreInit ==
    /\ clock = 1
    /\ disk = [f \in File |-> [there |-> TRUE, whole |-> TRUE, has |-> {}, at |-> 0]]
    /\ dirtime = 0
    /\ tmp = [p \in Process |-> [f \in File |-> NoFile]]
    /\ cache = NoEntry
    /\ lock = FALSE
    /\ thread = [t \in Thread |-> Idle]
    /\ crashes = 0
    /\ overlap = [f \in File |-> {}]
    /\ slow = FALSE

-----------------------------------------------------------------------------
(* History: two threads at one file, between the first's read and its rename. *)

Busy(u) == thread[u].pc \notin {"idle", "done"}

Meets(t) ==
    LET others == {u \in Thread \ {t} : Busy(u) /\ Writes(u) /\ FileOf(u) = FileOf(t)} IN
    IF ~Writes(t) THEN {}
    ELSE {IF ProcessOf(u) = ProcessOf(t) THEN "threads" ELSE "processes" : u \in others}

Note(t) == overlap' = [overlap EXCEPT ![FileOf(t)] = @ \cup Meets(t)]

At(t, here) == thread[t].pc = here
Go(t, there) == thread' = [thread EXCEPT ![t].pc = there]
Ended(result) == [Idle EXCEPT !.pc = "done", !.result = result]
Finish(t, result) == thread' = [thread EXCEPT ![t] = Ended(result)]

-----------------------------------------------------------------------------
(* Loading.                                                                   *)

\* The next field a settings job writes with what it has loaded.
Loaded(t, has) ==
    [thread EXCEPT ![t] = IF Writes(t) THEN [Idle EXCEPT !.pc = "create", !.copy = has \cup {Job[t]}]
                          ELSE Ended("ok")]

\* load_cached_in, the cache lookup: a hit gives the copy, a miss goes on to the
\* files.  The command line has no cache yet.
Load(t) ==
    /\ FileOf(t) = "settings" /\ At(t, "idle")
    /\ Note(t)
    /\ IF ProcessOf(t) = "daemon" /\ StillValid(cache.fp)
       THEN thread' = Loaded(t, cache.settings)
       ELSE Go(t, "fingerprint")
    /\ UNCHANGED <<clock, disk, dirtime, tmp, cache, lock, crashes, slow>>

\* A slip for the mutants: the stamps are taken as good however recent they are.
FingerprintTrusting(t) ==
    /\ At(t, "fingerprint")
    /\ thread' = [thread EXCEPT ![t].pc = "read",
                                ![t].fp = [FingerprintFull EXCEPT !.trusted = TRUE]]
    /\ UNCHANGED <<clock, disk, dirtime, tmp, cache, lock, crashes, overlap, slow>>

\* The fingerprint is taken before the files are read.
Fingerprint(t) ==
    /\ At(t, "fingerprint")
    /\ thread' = [thread EXCEPT ![t].pc = "read", ![t].fp = FingerprintFull]
    /\ UNCHANGED <<clock, disk, dirtime, tmp, cache, lock, crashes, overlap, slow>>

\* load_in, settings.toml.  A text cut short is an error, or one that sets
\* fewer fields than it should.
ReadSettings(t) ==
    /\ At(t, "read")
    /\ \/ \E has \in (IF disk["settings"].whole THEN {disk["settings"].has} ELSE {{}}) :
             thread' = [thread EXCEPT ![t].pc = "read_networks", ![t].copy = has]
       \/ ~disk["settings"].whole /\ Finish(t, "error")
    /\ UNCHANGED <<clock, disk, dirtime, tmp, cache, lock, crashes, overlap, slow>>

\* load_in, networks/*.toml, and cache_store.
ReadNetworks(t) ==
    /\ At(t, "read_networks")
    /\ cache' = IF ProcessOf(t) = "daemon"
                THEN [fp |-> thread[t].fp, settings |-> thread[t].copy, network |-> NetworkConfig]
                ELSE cache
    /\ thread' = Loaded(t, thread[t].copy)
    /\ UNCHANGED <<clock, disk, dirtime, tmp, lock, crashes, overlap, slow>>

\* The same load made in one go, where the model has no use for its steps: what
\* it returns, and the cache it leaves.
LoadNow == IF StillValid(cache.fp) THEN cache.settings
           ELSE IF disk["settings"].whole THEN disk["settings"].has ELSE {}
CacheNow == IF StillValid(cache.fp) THEN cache
            ELSE [fp |-> FingerprintFull, settings |-> LoadNow, network |-> NetworkConfig]

\* A slip for the mutants: update_network does not wait for the lock.
UnlockedRead(t) ==
    /\ FileOf(t) = "network" /\ Job[t] # "leave" /\ At(t, "idle")
    /\ Note(t)
    /\ IF disk["network"].there /\ disk["network"].whole
       THEN thread' = [thread EXCEPT ![t].pc = "create", ![t].copy = disk["network"].has \cup {Job[t]}]
       ELSE Finish(t, "nothing")
    /\ UNCHANGED <<clock, disk, dirtime, tmp, cache, lock, crashes, slow>>

\* load_network: by update_network, which holds the lock from here to the end of
\* its save, and by reconcile_local_hostname, which does not.  A network with no
\* saved config, or one that does not parse, is left alone.
ReadNetwork(t) ==
    /\ FileOf(t) = "network" /\ Job[t] # "leave" /\ At(t, "idle")
    /\ Job[t] \in LockedJobs => ~lock
    /\ Note(t)
    /\ IF disk["network"].there /\ disk["network"].whole
       THEN /\ thread' = [thread EXCEPT ![t].pc = "create", ![t].copy = disk["network"].has \cup {Job[t]}]
            /\ lock' = (lock \/ Job[t] \in LockedJobs)
       ELSE Finish(t, "nothing") /\ lock' = lock
    /\ UNCHANGED <<clock, disk, dirtime, tmp, cache, crashes, slow>>

-----------------------------------------------------------------------------
(* write_file.                                                                *)

Unlock(t) == lock' = (lock /\ Job[t] \notin LockedJobs)

\* A change to an entry of networks/ shows in its mtime.
Touch(f) == dirtime' = IF f = "network" THEN clock ELSE dirtime

\* The temporary name holds the process id.
TmpName(t) == ProcessOf(t)

\* File::create: a new file, or the old one cut to nothing.
Create(t) ==
    LET p == TmpName(t)
        f == FileOf(t) IN
    /\ At(t, "create")
    /\ tmp' = [tmp EXCEPT ![p][f] = NewFile(FALSE, {})]
    /\ thread' = [thread EXCEPT ![t].pc = "write", ![t].fd = "tmp"]
    /\ IF tmp[p][f].there THEN dirtime' = dirtime ELSE Touch(f)
    /\ UNCHANGED <<clock, disk, cache, lock, crashes, overlap, slow>>

\* The text a write leaves: over the text of another thread's write it may be a
\* mix of the two.
Texts(t, old) == {NewFile(whole, thread[t].copy) : whole \in (IF old.whole THEN BOOLEAN ELSE {TRUE})}

\* write_all: the descriptor may since have become that of the live file, or of
\* one that has been replaced.
Write(t) ==
    LET p == TmpName(t)
        f == FileOf(t) IN
    /\ At(t, "write")
    /\ thread' = [thread EXCEPT ![t] = [Idle EXCEPT !.pc = "rename"]]
    /\ \/ /\ thread[t].fd = "tmp" /\ disk' = disk
          /\ \E new \in Texts(t, tmp[p][f]) : tmp' = [tmp EXCEPT ![p][f] = new]
       \/ /\ thread[t].fd = "live" /\ tmp' = tmp
          /\ \E new \in Texts(t, disk[f]) : disk' = [disk EXCEPT ![f] = new]
       \/ thread[t].fd = "gone" /\ UNCHANGED <<disk, tmp>>
    /\ UNCHANGED <<clock, dirtime, cache, lock, crashes, overlap, slow>>

\* The create or the write fails: the save returns the error and leaves the
\* temporary file.
WriteFails(t) ==
    /\ At(t, "create") \/ At(t, "write")
    /\ Finish(t, "error")
    /\ Unlock(t)
    /\ UNCHANGED <<clock, disk, dirtime, tmp, cache, crashes, overlap, slow>>

\* What the open descriptors refer to once the file at the path is replaced by
\* process p's temporary one (or by none).
Redirect(f, p, u) ==
    IF thread[u].pc # "write" \/ FileOf(u) # f THEN thread[u].fd
    ELSE IF thread[u].fd = "tmp" /\ TmpName(u) = p THEN "live"
    ELSE IF thread[u].fd = "live" THEN "gone" ELSE thread[u].fd

\* The rename.  Another thread may have renamed the temporary file already: then
\* it fails.
Rename(t) ==
    LET p == TmpName(t)
        f == FileOf(t) IN
    /\ At(t, "rename")
    /\ IF tmp[p][f].there
       THEN /\ disk' = [disk EXCEPT ![f] = tmp[p][f]]
            /\ tmp' = [tmp EXCEPT ![p][f] = NoFile]
            /\ Touch(f)
            /\ slow' = (slow \/ tmp[p][f].at + RacyWindow <= clock)
            /\ thread' = [u \in Thread |->
                             IF u = t THEN Ended("ok")
                             ELSE [thread[u] EXCEPT !.fd = Redirect(f, p, u)]]
       ELSE Finish(t, "error") /\ UNCHANGED <<disk, tmp, dirtime, slow>>
    /\ Unlock(t)
    /\ UNCHANGED <<clock, cache, crashes, overlap>>

\* delete_network, the end of a leave.
Delete(t) ==
    /\ Job[t] = "leave" /\ At(t, "idle")
    /\ Note(t)
    /\ disk' = [disk EXCEPT !["network"] = NoFile]
    /\ Touch("network")
    /\ thread' = [u \in Thread |->
                     IF u = t THEN Ended("ok")
                     ELSE IF thread[u].fd = "live" /\ FileOf(u) = "network"
                          THEN [thread[u] EXCEPT !.fd = "gone"] ELSE thread[u]]
    /\ UNCHANGED <<clock, tmp, cache, lock, crashes, slow>>

-----------------------------------------------------------------------------
(* The world.                                                                 *)

Tick ==
    /\ clock < MaxClock /\ clock' = clock + 1
    /\ UNCHANGED <<disk, dirtime, tmp, cache, lock, thread, crashes, overlap, slow>>

\* The daemon dies: its threads end where they are, and the next one has another
\* process id and an empty cache.
Crash ==
    /\ crashes < MaxCrash /\ crashes' = crashes + 1
    /\ thread' = [t \in Thread |->
                     IF ProcessOf(t) = "daemon" /\ Busy(t)
                     THEN Ended("error") ELSE thread[t]]
    /\ tmp' = [tmp EXCEPT !["daemon"] = [f \in File |-> NoFile]]
    /\ cache' = NoEntry
    /\ lock' = FALSE
    /\ UNCHANGED <<clock, disk, dirtime, overlap, slow>>

\* The steps of a job.
SettingsStep(t) == Load(t) \/ Fingerprint(t) \/ ReadSettings(t) \/ ReadNetworks(t)
NetworkStart(t) == ReadNetwork(t) \/ Delete(t)
SaveStep(t) == Create(t) \/ Write(t) \/ WriteFails(t) \/ Rename(t)

MayRun(t) == At(t, "idle") => Cardinality({u \in Thread : ~At(u, "idle")}) < MaxJobs

StoreNext ==
    \/ \E t \in Thread : MayRun(t) /\ (SettingsStep(t) \/ NetworkStart(t) \/ SaveStep(t))
    \/ Tick \/ Crash

StoreSpec == StoreInit /\ [][StoreNext]_storeVars

-----------------------------------------------------------------------------
(* Properties.                                                                *)

StoreTypeOK ==
    /\ clock \in 0..MaxClock /\ dirtime \in 0..MaxClock
    /\ \A f \in File : disk[f].has \subseteq Jobs /\ disk[f].at \in NoTime..clock
    /\ \A p \in Process, f \in File : tmp[p][f].has \subseteq Jobs
    /\ lock \in BOOLEAN
    /\ \A t \in Thread : thread[t].copy \subseteq Jobs

\* storage.rs: "the cached value is returned only while the files it was built
\* from are unchanged".  A cached config whose fingerprint still holds is what
\* the files say.  For settings.toml, whose directory the fingerprint does not
\* stamp, that needs a rename within RACY_WINDOW of the write: a text renamed
\* later brings a stamp as old as that of the text it replaces may be.
CacheSound ==
    StillValid(cache.fp) =>
        /\ cache.network = NetworkConfig
        /\ disk["settings"].whole => cache.settings = disk["settings"].has \/ slow

\* write_file: a file is never seen half written, whatever is written by another
\* process at the same time and wherever a process dies.  Threads of one process
\* share the temporary file, and can tear it when they save at the same time.
NeverTorn == \A f \in File : ~disk[f].whole => "threads" \in overlap[f]

\* A field that a save reported saved stays in its file, as long as only saves
\* that do not overlap, or that update_network serialises, follow it: none of
\* them starts from an older copy.  (A leave takes the file away.)
SavesKept ==
    \A t \in Thread :
        LET f == FileOf(t)
            serial == \/ overlap[f] = {}
                      \/ /\ f = "network"
                         /\ \A u \in Thread : Job[u] \in NetworkJobs \ LockedJobs => thread[u].pc = "idle"
        IN  thread[t].result = "ok" /\ Writes(t) /\ disk[f].there /\ serial /\ ~slow
                => Job[t] \in disk[f].has \/ Job[t] = "leave"

\* What write_file and update_network promise of a save together: it is seen whole
\* or not at all, and once reported it is not undone by another.
SavesHold == NeverTorn /\ SavesKept

\* Doc: storage.rs says "a concurrent reader never observes a torn file".
FilesAreWhole == \A f \in File : disk[f].whole

\* Doc: reconverge.rs says of the roster's save that it is "Serialized with the
\* other config writers".
GrantedKeyStays ==
    \A t \in Thread :
        thread[t].result = "ok" /\ Job[t] = "grant" /\ disk["network"].there
            => "grant" \in disk["network"].has
=============================================================================
