------------------------------- MODULE Store -------------------------------
(***************************************************************************)
(* internal/store under the web server: the config file and the history    *)
(* file, replaced by writeFileAtomic while storeMu is held and read without *)
(* any lock.  A step is one file operation.  Any of them may fail, the     *)
(* process may be killed between two of them, and the machine may lose     *)
(* power, after which a file that was not synced is torn and the directory *)
(* is as it was at some moment since it last reached the disk (nothing     *)
(* syncs the directory; its updates are taken to reach the disk in order). *)
(***************************************************************************)
EXTENDS Lists

CONSTANTS
  Missing, Empty, Garbage, Torn,   \* contents: no file, no byte, edited by hand
                                   \* into something unreadable, half written
  Configs, Defaults,               \* contents of the config file
  Ids,        \* run ids
  Histories,  \* what an earlier process or an operator left of the history
  Bad,        \* a line of the history that does not decode
  Limit,      \* the configuration's history_limit
  Readers,    \* handlers that read the history
  MaxOps, MaxFaults, MaxCrashes    \* bounds: requests, failing calls, crashes

ASSUME LimitAssumption == Limit \in Int
ASSUME ContentAssumption ==
  /\ Missing \notin Configs \cup {Defaults, Empty, Garbage, Torn}
  /\ Torn \notin Configs \cup {Defaults, Empty, Garbage}
  /\ Bad \notin Ids
  /\ Torn \notin Seq(Ids \cup {Bad}) /\ Histories \subseteq Seq(Ids \cup {Bad})

Paths == {"config", "runs"}
None  == 0    \* no inode

VARIABLES
  inodes,     \* files created so far, the temporary ones included
  data,       \* per file: what was written to it,
  whole,      \* whether all of that was written,
  synced,     \* and whether that is on the disk
  dir,        \* the directory as the system shows it: the inode of each path,
              \* and those that have a temporary name
  recent,     \* the directories a power loss may bring back
  proc,       \* the process: "down", "starting", "up", "refused"
  at,         \* where writeFileAtomic is, "idle" when nobody writes
  target, new, tmp,   \* its path, its content and its temporary file
  opened, held,       \* per reader: the inode it opened, what the path held then
  left,       \* temporary files nobody will remove any more
  ops, faults, crashes

disk   == <<inodes, data, whole, synced>>
files  == <<disk, dir, recent>>
write  == <<target, new, tmp>>
reader == <<opened, held>>
vars   == <<files, proc, at, write, reader, left, ops, faults, crashes>>

Content(d, p) ==
  IF d.path[p] = None THEN Missing ELSE IF whole[d.path[p]] THEN data[d.path[p]] ELSE Torn
View(d) == [p \in Paths |-> Content(d, p)]
Now == View(dir)

\* LoadRuns: malformed lines are skipped, a missing file has no line.
LoadRuns(lines) == IF lines \in {Missing, Torn} THEN <<>> ELSE Without(lines, {Bad})

-----------------------------------------------------------------------------
(* Operations.  Each computes the whole new content under storeMu. *)

Write(p, content) == target' = p /\ new' = content /\ tmp' = None /\ at' = "create"
NoWrite == target' = "config" /\ new' = Missing /\ tmp' = None /\ at' = "idle"
NobodyReads == /\ opened' = [r \in Readers |-> None]
               /\ held' = [r \in Readers |-> Missing]

\* SetConfig's Save.
Save ==
  /\ proc = "up" /\ at = "idle" /\ ops < MaxOps
  /\ \E c \in Configs : Write("config", c)
  /\ ops' = ops + 1
  /\ UNCHANGED <<files, proc, reader, left, faults, crashes>>

\* AppendRun: the run is new to the history.
AppendRun ==
  /\ proc = "up" /\ at = "idle" /\ ops < MaxOps
  /\ \E id \in Ids : /\ \A i \in DOMAIN LoadRuns(Now.runs) : LoadRuns(Now.runs)[i] # id
                   /\ Write("runs", Newest(Append(LoadRuns(Now.runs), id), Limit))
  /\ ops' = ops + 1
  /\ UNCHANGED <<files, proc, reader, left, faults, crashes>>

\* DeleteRun: an id that is not there writes nothing.
DeleteRun ==
  /\ proc = "up" /\ at = "idle" /\ ops < MaxOps
  /\ \E id \in Ids :
       /\ \E i \in DOMAIN LoadRuns(Now.runs) : LoadRuns(Now.runs)[i] = id
       /\ Write("runs", Without(LoadRuns(Now.runs), {id}))
  /\ ops' = ops + 1
  /\ UNCHANGED <<files, proc, reader, left, faults, crashes>>

\* AppendRun or DeleteRun cannot read the file: nothing is written.
LoadFails ==
  /\ proc = "up" /\ at = "idle" /\ ops < MaxOps /\ faults < MaxFaults
  /\ ops' = ops + 1 /\ faults' = faults + 1
  /\ UNCHANGED <<files, proc, at, write, reader, left, crashes>>

\* Mutant of Start: a file it cannot read is taken for a missing one.
Start_Overwrites ==
  /\ proc = "down"
  /\ \/ Now.config \in {Missing, Empty, Garbage, Torn} /\ proc' = "starting" /\ Write("config", Defaults)
     \/ Now.config \in Configs \cup {Defaults} /\ proc' = "up" /\ UNCHANGED <<write, at>>
  /\ UNCHANGED <<files, reader, left, ops, faults, crashes>>

\* LoadOrCreateConfig, and the exit when it fails.
Start ==
  /\ proc = "down"
  /\ \/ Now.config = Missing /\ proc' = "starting" /\ Write("config", Defaults)
     \/ Now.config \in {Garbage, Torn} /\ proc' = "refused" /\ UNCHANGED <<write, at>>
     \/ Now.config \notin {Missing, Garbage, Torn} /\ proc' = "up" /\ UNCHANGED <<write, at>>
  /\ UNCHANGED <<files, reader, left, ops, faults, crashes>>

-----------------------------------------------------------------------------
(* writeFileAtomic.  Every call may fail; the deferred Remove runs in any    *)
(* case, and its own failure is ignored.                                     *)

Fault == faults < MaxFaults /\ faults' = faults + 1

\* The directory changes; a power loss may still bring back the former ones.
Relink(d) == dir' = d /\ recent' = recent \cup {d}

\* MkdirAll, CreateTemp; nothing is left behind when they fail.
Create ==
  /\ at = "create"
  /\ inodes' = inodes + 1
  /\ data'   = [i \in 1..inodes' |-> IF i = inodes' THEN Empty ELSE data[i]]
  /\ whole'  = [i \in 1..inodes' |-> i # inodes' /\ whole[i]]
  /\ synced' = [i \in 1..inodes' |-> i # inodes' /\ synced[i]]
  /\ Relink([dir EXCEPT !.temps = @ \cup {inodes'}])
  /\ tmp' = inodes'
  /\ at' = "write"
  /\ UNCHANGED <<proc, target, new, reader, left, ops, faults, crashes>>

CreateFails ==
  /\ at = "create" /\ Fault
  /\ at' = "failed"
  /\ UNCHANGED <<files, proc, write, reader, left, ops, crashes>>

\* Mutant of WriteTemp: no Sync before the Rename.
WriteTemp_Unsynced ==
  /\ at = "write"
  /\ data' = [data EXCEPT ![tmp] = new] /\ whole' = [whole EXCEPT ![tmp] = TRUE]
  /\ at' = "rename"
  /\ UNCHANGED <<inodes, synced, dir, recent, proc, write, reader, left, ops, faults, crashes>>

\* tmp.Write, and a Write that stores only a part.
WriteTemp ==
  /\ at = "write"
  /\ \/ /\ data' = [data EXCEPT ![tmp] = new] /\ whole' = [whole EXCEPT ![tmp] = TRUE]
        /\ at' = "sync"
        /\ UNCHANGED faults
     \/ Fault /\ at' = "cleanup" /\ UNCHANGED <<data, whole>>
  /\ UNCHANGED <<inodes, synced, dir, recent, proc, write, reader, left, ops, crashes>>

\* tmp.Sync.
Sync ==
  /\ at = "sync"
  /\ \/ /\ synced' = [synced EXCEPT ![tmp] = TRUE]
        /\ at' = "rename"
        /\ UNCHANGED faults
     \/ Fault /\ at' = "cleanup" /\ UNCHANGED synced
  /\ UNCHANGED <<inodes, data, whole, dir, recent, proc, write, reader, left, ops, crashes>>

\* Close, Chmod and Rename.
Rename ==
  /\ at = "rename"
  /\ Relink([path |-> [dir.path EXCEPT ![target] = tmp], temps |-> dir.temps \ {tmp}])
  /\ at' = "renamed"
  /\ UNCHANGED <<disk, proc, write, reader, left, ops, faults, crashes>>

\* Mutant of RenameFails: the temporary file stays.
RenameFails_Leaves ==
  /\ at = "rename" /\ Fault
  /\ at' = "failed"
  /\ UNCHANGED <<files, proc, write, reader, left, ops, crashes>>

RenameFails ==
  /\ at = "rename" /\ Fault
  /\ at' = "cleanup"
  /\ UNCHANGED <<files, proc, write, reader, left, ops, crashes>>

\* The deferred Remove after an error.
Cleanup ==
  /\ at = "cleanup"
  /\ \/ Relink([dir EXCEPT !.temps = @ \ {tmp}]) /\ UNCHANGED <<left, faults>>
     \/ Fault /\ left' = left \cup {tmp} /\ UNCHANGED <<dir, recent>>
  /\ at' = "failed"
  /\ UNCHANGED <<disk, proc, write, reader, ops, crashes>>

\* The operation returns.  At the start an error ends the process.
Return ==
  /\ at \in {"renamed", "failed"}
  /\ NoWrite
  /\ proc' = IF proc = "up" \/ at = "renamed" THEN "up" ELSE "down"
  /\ UNCHANGED <<files, reader, left, ops, faults, crashes>>

-----------------------------------------------------------------------------
(* Readers: handleRuns, handleLatest, handleRunOne, handleExport, handleStatus *)
(* call os.ReadFile without storeMu.                                          *)

Open(r) ==
  /\ proc = "up"
  /\ opened[r] = None /\ dir.path["runs"] # None
  /\ opened' = [opened EXCEPT ![r] = dir.path["runs"]]
  /\ held' = [held EXCEPT ![r] = Content(dir, "runs")]
  /\ UNCHANGED <<files, proc, at, write, left, ops, faults, crashes>>

Read(r) ==
  /\ opened[r] # None
  /\ opened' = [opened EXCEPT ![r] = None] /\ held' = [held EXCEPT ![r] = Missing]
  /\ UNCHANGED <<files, proc, at, write, left, ops, faults, crashes>>

-----------------------------------------------------------------------------
(* The system around the process. *)

Flush ==
  /\ recent # {dir}
  /\ recent' = {dir}
  /\ UNCHANGED <<disk, dir, proc, at, write, reader, left, ops, faults, crashes>>

\* The process ends between two steps and its state with it; what has a temporary
\* name in d, the directory the next process finds, keeps it.
Dies(d) ==
  /\ crashes < MaxCrashes
  /\ crashes' = crashes + 1
  /\ proc' = "down" /\ NoWrite /\ NobodyReads
  /\ left' = d.temps
  /\ UNCHANGED <<ops, faults>>

Killed == proc # "down" /\ Dies(dir) /\ UNCHANGED files

PowerLoss ==
  \E d \in recent :
    /\ Dies(d)
    /\ dir' = d /\ recent' = {d}
    /\ whole'  = [i \in 1..inodes |-> whole[i] /\ synced[i]]
    /\ synced' = [i \in 1..inodes |-> TRUE]
    /\ UNCHANGED <<inodes, data>>

\* Whatever an operator or an earlier process may have left.
Init ==
  /\ \E c \in {Missing, Empty, Garbage} \cup Configs, h \in {Missing} \cup Histories :
       /\ inodes = 2 /\ data = <<c, h>>
       /\ dir = [path  |-> [config |-> IF c = Missing THEN None ELSE 1,
                            runs   |-> IF h = Missing THEN None ELSE 2],
                 temps |-> {}]
  /\ whole = [i \in 1..2 |-> TRUE] /\ synced = [i \in 1..2 |-> TRUE]
  /\ recent = {dir}
  /\ proc = "down" /\ at = "idle"
  /\ target = "config" /\ new = Missing /\ tmp = None
  /\ opened = [r \in Readers |-> None] /\ held = [r \in Readers |-> Missing]
  /\ left = {} /\ ops = 0 /\ faults = 0 /\ crashes = 0

Next ==
  \/ Start \/ Save \/ AppendRun \/ DeleteRun \/ LoadFails
  \/ Create \/ CreateFails \/ WriteTemp \/ Sync \/ Rename \/ RenameFails \/ Cleanup \/ Return
  \/ \E r \in Readers : Open(r) \/ Read(r)
  \/ Flush \/ Killed \/ PowerLoss

Spec == Init /\ [][Next]_vars

-----------------------------------------------------------------------------
(* Properties. *)

Lines    == Ids \cup {Bad}
Contents == Configs \cup {Missing, Empty, Garbage, Torn, Defaults} \cup Seq(Lines)

Dirs == [path : [Paths -> 0..inodes], temps : SUBSET (1..inodes)]

\* The files, the writer and the readers always have one of the shapes above;
\* a writer past its Create has a temporary file of its own.
TypeOK ==
  /\ inodes \in Nat /\ whole \in [1..inodes -> BOOLEAN] /\ synced \in [1..inodes -> BOOLEAN]
  /\ \A i \in 1..inodes : data[i] \in Contents
  /\ recent \subseteq Dirs /\ dir \in recent
  /\ proc \in {"down", "starting", "up", "refused"}
  /\ at \in {"idle", "create", "write", "sync", "rename", "renamed", "cleanup", "failed"}
  /\ target \in Paths /\ new \in Contents /\ tmp \in 0..inodes
  /\ at \in {"write", "sync", "rename", "cleanup"} => tmp \in dir.temps
  /\ at # "idle" => proc \in {"starting", "up"}
  /\ opened \in [Readers -> 0..inodes] /\ left \subseteq 1..inodes

\* "A crash mid-write cannot leave a half-parsed config that would refuse to
\* start" (the package comment): whatever directory a power loss brings back, both
\* files are whole and on the disk, only a config file some operator spoiled ends
\* a start, and a reader that opened the history reads the version the path had
\* then, however many times it is replaced before the read.
FilesAreWhole ==
  /\ \A d \in recent, p \in Paths : d.path[p] # None => whole[d.path[p]] /\ synced[d.path[p]]
  /\ proc = "refused" => Content(dir, "config") = Garbage
  /\ \A r \in Readers : opened[r] # None => whole[opened[r]] /\ data[opened[r]] = held[r]

\* writeFileAtomic leaves no temporary file behind on any of its paths: outside a
\* write there is none but those a crash or a failed Remove left.
TempsOnlyFromCrashes == at \in {"idle", "create"} => dir.temps \subseteq left

\* Seen by those who open the two paths, all of this is whole-file replacement.
Promise == INSTANCE AtomicFiles WITH shown <- Now, recent <- {View(d) : d \in recent}
ImplementsAtomicFiles == Promise!Spec
=============================================================================
