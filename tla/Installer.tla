----------------------------- MODULE Installer -----------------------------
(***************************************************************************)
(* The streaming installer, run_reader in                                  *)
(* src/crates/xodus-cli/src/commands/streaming.rs: it installs or updates  *)
(* a game in a directory.  The package's metadata is read through a prefix *)
(* cache in .xodus-streaming-tmp.msixvc; the files whose hashes differ     *)
(* from those in .xodus-streaming.msixvc, the cache kept by the last run   *)
(* that finished, are downloaded, Parallel at a time; then the new cache   *)
(* takes the place of the old one.  A run may end at any point: expect()   *)
(* and unwrap() panic on every error, and the user may interrupt it.  The  *)
(* directory is what the next run finds.                                   *)
(*                                                                         *)
(* A package version gives every file a content or none.  Two contents are *)
(* taken to have the same hashes only when they are the same.              *)
(***************************************************************************)
EXTENDS Integers, FiniteSets

CONSTANTS
  Files,          \* paths of files
  Versions,       \* package versions
  Contents,       \* contents of files
  Content,        \* Content[v][f]: what version v has for file f
  Missing,        \* no file
  Partial,        \* a file that was truncated and not yet wholly written
  NoVersion,      \* no cache file
  Unhashed,       \* files without hashes: empty, or outside the hashed regions
  Parallel,       \* the option --parallel, 4 by default
  MaxCrashes      \* bound on the runs that are cut short

ASSUME ContentAssumption ==
  /\ Content \in [Versions -> [Files -> Contents \cup {Missing}]]
  /\ Missing \notin Contents /\ Partial \notin Contents /\ Missing # Partial
  /\ NoVersion \notin Versions
ASSUME BoundsAssumption ==
  /\ Unhashed \subseteq Files /\ IsFiniteSet(Files)
  /\ Parallel \in Nat \ {0} /\ MaxCrashes \in Nat

VARIABLES
  remote,      \* the version at the url
  phase,       \* "idle", "parsing", "installing" or "removed"
  target,      \* the version the run installs
  plan,        \* the files it downloads
  active,      \* those being downloaded
  finished,    \* those downloaded
  disk,        \* the content of each file in the directory
  final,       \* the version .xodus-streaming.msixvc describes
  tmp,         \* the version .xodus-streaming-tmp.msixvc describes
  crashes,     \* runs cut short so far
  opened_for   \* history: the version each file was last opened for

runVars  == <<phase, target, plan, active, finished>>
dirVars  == <<disk, final, tmp, opened_for>>
vars == <<remote, runVars, dirVars, crashes>>

FilesOf(v) == {f \in Files : Content[v][f] # Missing}

Init ==
  /\ remote \in Versions
  /\ phase = "idle" /\ target = NoVersion
  /\ plan = {} /\ active = {} /\ finished = {}
  /\ disk = [f \in Files |-> Missing]
  /\ final = NoVersion /\ tmp = NoVersion
  /\ crashes = 0
  /\ opened_for = [f \in Files |-> NoVersion]

\* Another version is put at the url.
Publish(v) ==
  /\ remote' = v
  /\ UNCHANGED <<runVars, dirVars, crashes>>

\* The run opens the url and truncates the temporary cache.
Start ==
  /\ phase = "idle"
  /\ phase' = "parsing"
  /\ target' = remote
  /\ tmp' = NoVersion
  /\ UNCHANGED <<remote, plan, active, finished, disk, final, opened_for, crashes>>

\* Variant: a file that is there is taken to be there in full.
SameAsInstalledOrPresent(f) == disk[f] # Missing

\* Variant: the installed cache is not looked at.
SameAsInstalledNever(f) == FALSE

\* The hashes of f are the same in the installed cache and in the new one.
SameAsInstalled(f) ==
  /\ final # NoVersion
  /\ Content[final][f] = Content[target][f]
  /\ f \notin Unhashed

\* The package, its metadata and the installed cache are parsed, there is a
\* license and space enough: what is to be downloaded is known.
Plan ==
  /\ phase = "parsing"
  /\ phase' = "installing"
  /\ tmp' = target
  /\ plan' = {f \in FilesOf(target) : ~SameAsInstalled(f)}
  /\ UNCHANGED <<remote, target, active, finished, disk, final, opened_for, crashes>>

\* There is no license, or not space enough: the run returns.
Decline ==
  /\ phase = "parsing"
  /\ phase' = "idle"
  /\ tmp' = target
  /\ target' = NoVersion
  /\ UNCHANGED <<remote, plan, active, finished, disk, final, opened_for, crashes>>

\* Variant: for_each instead of for_each_concurrent with a limit.
MayStartAny(f) == f \in plan \ (active \cup finished)

MayStart(f) ==
  /\ f \in plan \ (active \cup finished)
  /\ Cardinality(active) < Parallel

\* A job of for_each_concurrent truncates its file.
StartFile(f) ==
  /\ phase = "installing" /\ MayStart(f)
  /\ active' = active \cup {f}
  /\ disk' = [disk EXCEPT ![f] = Partial]
  /\ opened_for' = [opened_for EXCEPT ![f] = target]
  /\ UNCHANGED <<remote, phase, target, plan, finished, final, tmp, crashes>>

\* Its download is complete.
FinishFile(f) ==
  /\ phase = "installing" /\ f \in active
  /\ active' = active \ {f}
  /\ finished' = finished \cup {f}
  /\ disk' = [disk EXCEPT ![f] = Content[target][f]]
  /\ UNCHANGED <<remote, phase, target, plan, final, tmp, opened_for, crashes>>

\* Variants: the last downloads are not waited for; only all files of any
\* version would do.
AllStarted == finished \cup active = plan
AllOfDirectory == finished = Files

\* for_each_concurrent is done.
AllDone == finished = plan

\* remove_file(final_path).
RemoveFinal ==
  /\ phase = "installing" /\ AllDone
  /\ phase' = "removed"
  /\ final' = NoVersion
  /\ UNCHANGED <<remote, target, plan, active, finished, disk, tmp, opened_for, crashes>>

\* rename(cache_path, final_path); the run is over.
Rename ==
  /\ phase = "removed"
  /\ phase' = "idle"
  /\ final' = tmp
  /\ tmp' = NoVersion
  /\ target' = NoVersion /\ plan' = {} /\ active' = {} /\ finished' = {}
  /\ UNCHANGED <<remote, disk, opened_for, crashes>>

\* The run is cut short: an error panics, or the user interrupts it.
Crash ==
  /\ phase # "idle" /\ crashes < MaxCrashes
  /\ crashes' = crashes + 1
  /\ phase' = "idle"
  /\ target' = NoVersion /\ plan' = {} /\ active' = {} /\ finished' = {}
  /\ UNCHANGED <<remote, dirVars>>

Next ==
  \/ \E v \in Versions : Publish(v)
  \/ Start
  \/ Plan
  \/ Decline
  \/ \E f \in Files : StartFile(f) \/ FinishFile(f)
  \/ RemoveFinal
  \/ Rename
  \/ Crash

Spec == Init /\ [][Next]_vars

\* The user runs the installer again and again, a run that has begun goes on
\* and its downloads end (download_file_http retries for ever), and a run is
\* not declined every time.
Fairness ==
  /\ WF_vars(Start)
  /\ SF_vars(Plan)
  /\ \A f \in Files : WF_vars(StartFile(f) \/ FinishFile(f))
  /\ WF_vars(RemoveFinal)
  /\ WF_vars(Rename)

FairSpec == Spec /\ Fairness
-----------------------------------------------------------------------------
\* Type invariant.
TypeOK ==
  /\ remote \in Versions
  /\ phase \in {"idle", "parsing", "installing", "removed"}
  /\ target \in Versions \cup {NoVersion}
  /\ plan \subseteq Files /\ active \subseteq plan /\ finished \subseteq plan \ active
  /\ Cardinality(active) <= Parallel
  /\ disk \in [Files -> Contents \cup {Missing, Partial}]
  /\ final \in Versions \cup {NoVersion}
  /\ tmp \in Versions \cup {NoVersion}
  /\ crashes \in 0 .. MaxCrashes
  /\ opened_for \in [Files -> Versions \cup {NoVersion}]

Stale(f) == final # NoVersion /\ f \in FilesOf(final) /\ disk[f] # Content[final][f]

\* While no run was cut short, the directory holds, between runs, exactly what
\* the kept cache describes, for every file it describes: the hash comparison
\* leaves no changed file out and the cache is kept only after the last
\* download.
InstalledAsDescribed == crashes = 0 /\ phase = "idle" => \A f \in Files : ~Stale(f)

\* A run that was cut short leaves a file in a state the next run does not see,
\* since it compares caches and not files.  All the same a file is never stale
\* when it was last opened for the content the kept cache describes: running
\* the same version again repairs the directory, and only a version that takes
\* back a change can leave a file stale.
StaleOnlyIfReverted ==
  \A f \in Files \ Unhashed :
    Stale(f) => /\ opened_for[f] # NoVersion
                /\ Content[opened_for[f]][f] # Content[final][f]

\* While one version stays at the url, no hashed file is stale, however many
\* runs are cut short and wherever.
NothingStale == \A f \in Files \ Unhashed : ~Stale(f)

\* A run writes no file but those of its version whose hashes are not known to
\* be the installed ones: an update leaves alone what has not changed.
OnlyChangedWritten ==
  [][\A f \in Files : disk'[f] # disk[f] =>
       /\ f \in FilesOf(target)
       /\ final = NoVersion \/ f \in Unhashed \/ Content[final][f] # Content[target][f]]_vars

\* A version that stays at the url is installed in the end, however many runs
\* are cut short before.
Installs == \A v \in Versions : <>[](remote = v) => []<>(final = v)
=============================================================================
