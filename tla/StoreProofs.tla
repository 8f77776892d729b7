---------------------------- MODULE StoreProofs ----------------------------
(***************************************************************************)
(* Theorems about Store, for any contents, any number of readers and any   *)
(* number of operations, failing calls and crashes: the files are whole    *)
(* whatever a power loss brings back, and no temporary file is forgotten.  *)
(***************************************************************************)
EXTENDS Store, ListProofs

\* The variables keep their shape.  What files hold is left open.
ShapeInv ==
  /\ inodes \in Nat /\ whole \in [1..inodes -> BOOLEAN] /\ synced \in [1..inodes -> BOOLEAN]
  /\ data = [i \in 1..inodes |-> data[i]]
  /\ recent \subseteq Dirs /\ dir \in recent
  /\ target \in Paths /\ tmp \in 0..inodes
  /\ opened \in [Readers -> 0..inodes] /\ held = [r \in Readers |-> held[r]]

Linked(i) == \E d \in recent, p \in Paths : d.path[p] = i

\* Whatever a path may lead to is on the disk, and is not a config file cut short.
LinkInv ==
  /\ \A d \in recent, p \in Paths : d.path[p] # None => whole[d.path[p]] /\ synced[d.path[p]]
  /\ \A d \in recent : d.path["config"] # None => data[d.path["config"]] # Torn

\* Until the rename nobody but the writer can get at the temporary file, which is
\* whole after the write and on the disk after the sync.
WriterInv ==
  /\ at \in {"write", "sync", "rename"} =>
       tmp # None /\ ~Linked(tmp) /\ \A r \in Readers : opened[r] # tmp
  /\ at \in {"sync", "rename"} => whole[tmp] /\ data[tmp] = new
  /\ at = "rename" => synced[tmp]
  /\ at \in {"create", "write", "sync", "rename"} /\ target = "config" => new # Torn

ReaderInv ==
  \A r \in Readers : opened[r] # None => whole[opened[r]] /\ data[opened[r]] = held[r]

\* A process that is not there writes nothing, so the file it refused stays.
ProcessInv ==
  /\ proc \in {"down", "refused"} => at = "idle"
  /\ proc = "refused" => Content(dir, "config") = Garbage

StoreInv == ShapeInv /\ LinkInv /\ WriterInv /\ ReaderInv /\ ProcessInv

-----------------------------------------------------------------------------
\* The system starts with the files of an earlier process, all whole.
LEMMA InitInv == Init => StoreInv
<1> SUFFICES ASSUME Init PROVE StoreInv
  OBVIOUS
<1>1. PICK c \in {Missing, Empty, Garbage} \cup Configs, h \in {Missing} \cup Histories :
        /\ inodes = 2 /\ data = <<c, h>>
        /\ dir = [path  |-> [config |-> IF c = Missing THEN None ELSE 1,
                             runs   |-> IF h = Missing THEN None ELSE 2],
                  temps |-> {}]
  BY DEF Init
<1>2. data = [i \in 1..inodes |-> data[i]] /\ data[1] = c
  BY <1>1
<1>3. /\ dir \in Dirs
      /\ dir.path["config"] = (IF c = Missing THEN None ELSE 1)
      /\ dir.path["runs"] \in {None, 2}
  <2>1. [config |-> IF c = Missing THEN None ELSE 1, runs |-> IF h = Missing THEN None ELSE 2]
          \in [Paths -> 0..inodes]
    BY <1>1 DEF Paths, None
  <2> QED
    BY <2>1, <1>1 DEF Dirs, None
<1>4. recent = {dir}
  BY DEF Init
<1>5. ShapeInv
  BY <1>1, <1>2, <1>3, <1>4 DEF Init, ShapeInv, Paths, None
<1>6. LinkInv
  BY <1>1, <1>2, <1>3, <1>4, ContentAssumption DEF Init, LinkInv, Paths, None, ContentAssumption
<1> QED
  BY <1>5, <1>6 DEF Init, StoreInv, WriterInv, ReaderInv, ProcessInv

\* The requests and the start: a new writer, with no temporary file yet.
LEMMA RequestStep ==
  ASSUME StoreInv, Save \/ AppendRun \/ DeleteRun \/ LoadFails \/ Start PROVE StoreInv'
<1> USE DEF StoreInv
<1>1. UNCHANGED <<files, reader>>
  BY DEF Save, AppendRun, DeleteRun, LoadFails, Start, files, reader
<1>2. \/ UNCHANGED <<at, write>>
      \/ /\ at' = "create" /\ tmp' = None /\ target' \in Paths
         /\ target' = "config" => new' \in Configs \cup {Defaults}
  BY DEF Save, AppendRun, DeleteRun, LoadFails, Start, Write, Paths
<1>3. ShapeInv'
  BY <1>1, <1>2 DEF ShapeInv, Dirs, Paths, None, files, disk, reader, write
<1>4. LinkInv' /\ ReaderInv'
  BY <1>1 DEF LinkInv, ReaderInv, files, disk, reader
<1>5. WriterInv'
  BY <1>1, <1>2, ContentAssumption
     DEF WriterInv, Linked, ContentAssumption, files, disk, reader, write
<1>6. ProcessInv'
  <2>1. Content(dir, "config")' = Content(dir, "config")
    BY <1>1 DEF Content, files, disk
  <2>2. CASE Start
    <3>1. CASE proc' = "refused"
      <4>1. Content(dir, "config") \in {Garbage, Torn} /\ UNCHANGED at /\ proc = "down"
        BY <2>2, <3>1 DEF Start, Now, View, Paths
      <4>2. Content(dir, "config") # Torn
        BY ContentAssumption DEF LinkInv, ShapeInv, Content, Paths, ContentAssumption
      <4> QED
        BY <2>1, <3>1, <4>1, <4>2 DEF ProcessInv
    <3>2. CASE proc' # "refused"
      BY <2>2, <3>2 DEF Start, ProcessInv
    <3> QED
      BY <3>1, <3>2
  <2>3. CASE Save \/ AppendRun \/ DeleteRun \/ LoadFails
    BY <2>3 DEF Save, AppendRun, DeleteRun, LoadFails, ProcessInv
  <2> QED
    BY <2>2, <2>3
<1> QED
  BY <1>3, <1>4, <1>5, <1>6

\* The new temporary file has a number that nothing else leads to.
LEMMA CreateStep == ASSUME StoreInv, Create PROVE StoreInv'
<1> USE DEF StoreInv, None
<1> DEFINE here == [dir EXCEPT !.temps = @ \cup {inodes'}]
<1>1. inodes \in Nat /\ inodes' = inodes + 1 /\ dir \in Dirs /\ recent \subseteq Dirs
  BY DEF Create, ShapeInv
<1>2. \A d \in Dirs : d \in Dirs' /\ \A p \in Paths : d.path[p] \in 0..inodes
  BY <1>1 DEF Dirs
<1>3. here \in Dirs' /\ here.path = dir.path
  BY <1>1, <1>2 DEF Dirs
<1>4. dir' = here /\ recent' = recent \cup {here}
  BY DEF Create, Relink
<1>5. \A i \in 1..inodes : whole'[i] = whole[i] /\ synced'[i] = synced[i] /\ data'[i] = data[i]
  <2>1. \A i \in 1..inodes : i \in 1..inodes' /\ i # inodes'
    BY <1>1
  <2> QED
    BY <2>1 DEF Create, ShapeInv
<1>6. ShapeInv'
  <2>1. whole' \in [1..inodes' -> BOOLEAN] /\ synced' \in [1..inodes' -> BOOLEAN]
    <3>1. \A i \in 1..inodes' : i # inodes' => i \in 1..inodes
      BY <1>1
    <3> QED
      BY <3>1 DEF Create, ShapeInv
  <2>2. data' = [i \in 1..inodes' |-> data'[i]]
    BY DEF Create
  <2>3. recent' \subseteq Dirs' /\ dir' \in recent'
    BY <1>1, <1>2, <1>3, <1>4
  <2> QED
    BY <1>1, <2>1, <2>2, <2>3 DEF Create, ShapeInv, reader
<1>7. \A d \in recent' : \E e \in recent : d.path = e.path
  BY <1>3, <1>4 DEF ShapeInv
<1>8. LinkInv'
  <2>1. \A d \in recent, p \in Paths : d.path[p] # 0 => d.path[p] \in 1..inodes
    BY <1>1, <1>2
  <2> QED
    BY <2>1, <1>5, <1>7 DEF LinkInv, Paths
<1>9. WriterInv'
  <2>1. ~Linked(tmp)'
    BY <1>1, <1>2, <1>7 DEF Linked, Create
  <2> QED
    BY <1>1, <2>1 DEF Create, WriterInv, ShapeInv, reader
<1>10. ReaderInv'
  <2>1. \A r \in Readers : opened[r] # 0 => opened[r] \in 1..inodes
    BY <1>1 DEF ShapeInv
  <2>2. UNCHANGED reader
    BY DEF Create
  <2> QED
    BY <1>5, <2>1, <2>2 DEF ReaderInv, reader
<1> QED
  BY <1>6, <1>8, <1>9, <1>10 DEF Create, ProcessInv

\* Writing and syncing touch the temporary file alone.
LEMMA FillStep == ASSUME StoreInv, WriteTemp \/ Sync PROVE StoreInv'
<1> USE DEF StoreInv, None
<1>1. /\ UNCHANGED <<inodes, dir, recent, write, reader, proc>>
      /\ at' \in {"sync", "rename", "cleanup"} /\ at \in {"write", "sync"}
  BY DEF WriteTemp, Sync
<1>2. /\ tmp \in 1..inodes
      /\ \A d \in recent, p \in Paths : d.path[p] # tmp
      /\ \A r \in Readers : opened[r] # tmp
  BY <1>1 DEF WriterInv, ShapeInv, Linked
<1>3. /\ whole' \in [1..inodes -> BOOLEAN] /\ synced' \in [1..inodes -> BOOLEAN]
      /\ data' = [i \in 1..inodes |-> data'[i]]
      /\ \A i \in 1..inodes :
           /\ whole[i] => whole'[i]
           /\ synced[i] => synced'[i]
           /\ i # tmp => data'[i] = data[i]
  BY <1>2 DEF WriteTemp, Sync, ShapeInv
<1>4. ShapeInv'
  BY <1>1, <1>3 DEF ShapeInv, Dirs, write, reader
<1>5. LinkInv'
  <2>1. \A d \in recent, p \in Paths : d.path[p] # 0 => d.path[p] \in 1..inodes
    BY DEF ShapeInv, Dirs
  <2> QED
    BY <1>1, <1>2, <1>3, <2>1 DEF LinkInv, Paths
<1>6. WriterInv'
  <2>1. ~Linked(tmp)' /\ tmp' = tmp
    BY <1>1, <1>2 DEF Linked, write
  <2>2. CASE WriteTemp
    BY <2>1, <2>2, <1>1, <1>2 DEF WriteTemp, WriterInv, ShapeInv, write, reader
  <2>3. CASE Sync
    BY <2>1, <2>3, <1>1, <1>2 DEF Sync, WriterInv, ShapeInv, write, reader
  <2> QED
    BY <2>2, <2>3
<1>7. ReaderInv'
  <2>1. \A r \in Readers : opened[r] # 0 => opened[r] \in 1..inodes
    BY DEF ShapeInv
  <2> QED
    BY <1>1, <1>2, <1>3, <2>1 DEF ReaderInv, reader
<1> QED
  BY <1>1, <1>4, <1>5, <1>6, <1>7 DEF ProcessInv

\* The rename makes the file that was filled the one a path leads to.
LEMMA RenameStep == ASSUME StoreInv, Rename PROVE StoreInv'
<1> USE DEF StoreInv, None
<1> DEFINE here == [path |-> [dir.path EXCEPT ![target] = tmp], temps |-> dir.temps \ {tmp}]
<1>1. /\ dir' = here /\ recent' = recent \cup {here} /\ at = "rename" /\ at' = "renamed"
      /\ UNCHANGED <<disk, proc, write, reader>>
  BY DEF Rename, Relink
<1>2. dir \in Dirs /\ target \in Paths /\ tmp \in 1..inodes
  BY <1>1 DEF ShapeInv, WriterInv
<1>3. here \in Dirs /\ here.path[target] = tmp
      /\ \A p \in Paths : p # target => here.path[p] = dir.path[p]
  BY <1>2 DEF Dirs
<1>4. whole[tmp] /\ synced[tmp] /\ (target = "config" => data[tmp] # Torn)
  BY <1>1 DEF WriterInv
<1>5. ShapeInv'
  BY <1>1, <1>3 DEF ShapeInv, Dirs, disk, write, reader
<1>6. LinkInv'
  <2>1. \A p \in Paths : here.path[p] # 0 => whole[here.path[p]] /\ synced[here.path[p]]
    BY <1>3, <1>4 DEF LinkInv, ShapeInv
  <2>2. here.path["config"] # 0 => data[here.path["config"]] # Torn
    BY <1>3, <1>4 DEF LinkInv, ShapeInv, Paths
  <2>3. /\ \A d \in recent', p \in Paths : d.path[p] # 0 => whole[d.path[p]] /\ synced[d.path[p]]
        /\ \A d \in recent' : d.path["config"] # 0 => data[d.path["config"]] # Torn
    BY <1>1, <2>1, <2>2 DEF LinkInv
  <2> QED
    BY <1>1, <2>3 DEF LinkInv, disk
<1>7. WriterInv' /\ ReaderInv'
  BY <1>1 DEF WriterInv, ReaderInv, disk, reader
<1> QED
  BY <1>1, <1>5, <1>6, <1>7 DEF ProcessInv

\* Steps that leave the files as they are, but for a temporary name, and no writer
\* that a later step could go wrong with.
LEMMA EndStep ==
  ASSUME StoreInv, CreateFails \/ RenameFails \/ Cleanup \/ Return PROVE StoreInv'
<1> USE DEF StoreInv, None
<1> DEFINE here == [dir EXCEPT !.temps = @ \ {tmp}]
<1>1. /\ UNCHANGED <<disk, reader>> /\ at' \in {"cleanup", "failed", "idle"}
      /\ tmp' \in {0, tmp} /\ target' \in Paths
  BY DEF CreateFails, RenameFails, Cleanup, Return, NoWrite, files, write, Paths, ShapeInv
<1>2. here \in Dirs /\ here.path = dir.path
  BY DEF ShapeInv, Dirs
<1>3. UNCHANGED <<dir, recent>> \/ (dir' = here /\ recent' = recent \cup {here})
  BY DEF CreateFails, RenameFails, Cleanup, Return, Relink, files
<1>4. recent' \subseteq Dirs /\ dir' \in recent'
      /\ \A d \in recent' : \E e \in recent : d.path = e.path
  BY <1>2, <1>3 DEF ShapeInv
<1>5. ShapeInv'
  BY <1>1, <1>4 DEF ShapeInv, Dirs, disk, reader
<1>6. LinkInv'
  BY <1>1, <1>4 DEF LinkInv, disk
<1>7. WriterInv' /\ ReaderInv'
  BY <1>1 DEF WriterInv, ReaderInv, disk, reader
<1>8. ProcessInv'
  <2>1. at # "idle" => proc' # "refused" /\ (proc' = "down" => at' = "idle")
    BY DEF CreateFails, RenameFails, Cleanup, Return, NoWrite, ProcessInv
  <2> QED
    BY <2>1 DEF CreateFails, RenameFails, Cleanup, Return, ProcessInv
<1> QED
  BY <1>5, <1>6, <1>7, <1>8

\* Readers open a file a path leads to, and hold on to it.
LEMMA ReadStep ==
  ASSUME StoreInv, NEW r \in Readers, Open(r) \/ Read(r) PROVE StoreInv'
<1> USE DEF StoreInv, None
<1>1. UNCHANGED <<files, proc, at, write>>
  BY DEF Open, Read
<1>2. CASE Open(r)
  <2> DEFINE i == dir.path["runs"]
  <2>1. /\ i \in 1..inodes /\ whole[i] /\ Content(dir, "runs") = data[i]
        /\ at \in {"write", "sync", "rename"} => i # tmp
    BY <1>2 DEF Open, ShapeInv, LinkInv, WriterInv, Linked, Dirs, Paths, Content
  <2>2. /\ opened' = [opened EXCEPT ![r] = i]
        /\ held' = [held EXCEPT ![r] = data[i]]
    BY <1>2, <2>1 DEF Open
  <2>3. /\ opened' \in [Readers -> 0..inodes] /\ held' = [q \in Readers |-> held'[q]]
        /\ opened'[r] = i /\ held'[r] = data[i]
        /\ \A q \in Readers : q # r => opened'[q] = opened[q] /\ held'[q] = held[q]
    <3>1. /\ opened' \in [Readers -> 0..inodes] /\ opened'[r] = i
          /\ \A q \in Readers : q # r => opened'[q] = opened[q]
      BY <2>1, <2>2 DEF ShapeInv
    <3>2. held = [q \in Readers |-> held[q]]
      BY DEF ShapeInv
    <3>3. held' = [q \in Readers |-> IF q = r THEN data[i] ELSE held[q]]
      BY <2>2, <3>2
    <3> QED
      BY <3>1, <3>3
  <2>4. ShapeInv'
    BY <1>1, <2>3 DEF ShapeInv, Dirs, files, disk, write
  <2>5. WriterInv'
    BY <1>1, <2>1, <2>3 DEF WriterInv, Linked, files, disk, write
  <2>6. ReaderInv'
    BY <1>1, <2>1, <2>3 DEF ReaderInv, files, disk
  <2> QED
    BY <1>1, <2>4, <2>5, <2>6 DEF LinkInv, ProcessInv, Content, files, disk
<1>3. CASE Read(r)
  <2>1. /\ opened' = [opened EXCEPT ![r] = 0] /\ held' = [held EXCEPT ![r] = Missing]
    BY <1>3 DEF Read
  <2>2. /\ opened' \in [Readers -> 0..inodes] /\ held' = [q \in Readers |-> held'[q]]
        /\ \A q \in Readers : opened'[q] = 0 \/ (opened'[q] = opened[q] /\ held'[q] = held[q])
    <3>1. /\ opened' \in [Readers -> 0..inodes] /\ opened'[r] = 0
          /\ \A q \in Readers : q # r => opened'[q] = opened[q]
      BY <2>1 DEF ShapeInv
    <3>2. held = [q \in Readers |-> held[q]]
      BY DEF ShapeInv
    <3>3. held' = [q \in Readers |-> IF q = r THEN Missing ELSE held[q]]
      BY <2>1, <3>2
    <3> QED
      BY <3>1, <3>3
  <2>3. ShapeInv'
    BY <1>1, <2>2 DEF ShapeInv, Dirs, files, disk, write
  <2>4. WriterInv'
    BY <1>1, <2>2 DEF WriterInv, Linked, files, disk, write
  <2>5. ReaderInv'
    BY <1>1, <2>2 DEF ReaderInv, files, disk
  <2> QED
    BY <1>1, <2>3, <2>4, <2>5 DEF LinkInv, ProcessInv, Content, files, disk
<1> QED
  BY <1>2, <1>3

\* The directory reaches the disk, or the process dies and takes the state of its
\* writer and of its readers with it.
LEMMA WorldStep == ASSUME StoreInv, Flush \/ Killed \/ PowerLoss PROVE StoreInv'
<1> USE DEF StoreInv, None
<1>1. CASE Flush
  <2>1. /\ recent' = {dir} /\ UNCHANGED <<disk, dir, proc, at, write, reader>>
    BY <1>1 DEF Flush
  <2>2. dir \in recent
    BY DEF ShapeInv
  <2>3. ShapeInv'
    BY <2>1, <2>2 DEF ShapeInv, Dirs, disk, write, reader
  <2>4. LinkInv' /\ ReaderInv'
    BY <2>1, <2>2 DEF LinkInv, ReaderInv, disk, reader
  <2>5. WriterInv'
    BY <2>1, <2>2 DEF WriterInv, Linked, disk, write, reader
  <2> QED
    BY <2>1, <2>3, <2>4, <2>5 DEF ProcessInv, Content, disk
<1>2. ASSUME NEW d \in recent, Dies(d)
      PROVE  /\ proc' = "down" /\ at' = "idle" /\ target' \in Paths /\ tmp' = 0
             /\ opened' \in [Readers -> 0..inodes] /\ held' = [r \in Readers |-> held'[r]]
             /\ \A r \in Readers : opened'[r] = 0
  BY <1>2 DEF Dies, NoWrite, NobodyReads, Paths, ShapeInv
<1>3. CASE Killed
  <2>1. Dies(dir) /\ dir \in recent /\ UNCHANGED files
    BY <1>3 DEF Killed, ShapeInv
  <2>2. ShapeInv'
    BY <1>2, <2>1 DEF ShapeInv, Dirs, files, disk
  <2>3. LinkInv'
    BY <2>1 DEF LinkInv, files, disk
  <2> QED
    BY <1>2, <2>1, <2>2, <2>3 DEF WriterInv, ReaderInv, ProcessInv
<1>4. CASE PowerLoss
  <2>1. PICK d \in recent :
          /\ Dies(d)
          /\ dir' = d /\ recent' = {d}
          /\ whole'  = [i \in 1..inodes |-> whole[i] /\ synced[i]]
          /\ synced' = [i \in 1..inodes |-> TRUE]
          /\ UNCHANGED <<inodes, data>>
    BY <1>4 DEF PowerLoss
  <2>2. whole' \in [1..inodes -> BOOLEAN] /\ synced' \in [1..inodes -> BOOLEAN]
    BY <2>1
  <2>3. ShapeInv'
    BY <1>2, <2>1, <2>2 DEF ShapeInv, Dirs
  <2>4. LinkInv'
    <3>1. \A p \in Paths : d.path[p] # 0 =>
            d.path[p] \in 1..inodes /\ whole[d.path[p]] /\ synced[d.path[p]]
      BY DEF ShapeInv, LinkInv, Dirs
    <3> QED
      BY <2>1, <3>1 DEF LinkInv
  <2> QED
    BY <1>2, <2>1, <2>3, <2>4 DEF WriterInv, ReaderInv, ProcessInv
<1> QED
  BY <1>1, <1>3, <1>4

\* StoreInv holds on.
LEMMA StoreInvHolds == Spec => []StoreInv
<1>1. StoreInv /\ [Next]_vars => StoreInv'
  <2> SUFFICES ASSUME StoreInv, [Next]_vars PROVE StoreInv'
    OBVIOUS
  <2>1. CASE UNCHANGED vars
    <3>1. ShapeInv' /\ LinkInv'
      BY <2>1 DEF vars, files, disk, write, reader, StoreInv, ShapeInv, Dirs, LinkInv
    <3>2. WriterInv' /\ ReaderInv'
      BY <2>1 DEF vars, files, disk, write, reader, StoreInv, WriterInv, Linked, ReaderInv
    <3>3. ProcessInv'
      BY <2>1 DEF vars, files, disk, StoreInv, ProcessInv, Content
    <3> QED
      BY <3>1, <3>2, <3>3 DEF StoreInv
  <2>2. CASE Next
    BY <2>2, RequestStep, CreateStep, FillStep, RenameStep, EndStep, ReadStep, WorldStep DEF Next
  <2> QED
    BY <2>1, <2>2
<1> QED
  BY <1>1, InitInv, PTL DEF Spec

-----------------------------------------------------------------------------
\* Whatever a power loss brings back, both files are whole and on the disk, only a
\* config file some operator spoiled ends a start, and a reader reads the version
\* the path had when it opened it (writeFileAtomic, Load, and the handlers that read
\* the history without storeMu).
THEOREM FilesStayWhole == Spec => []FilesAreWhole
<1>1. StoreInv => FilesAreWhole
  BY DEF StoreInv, LinkInv, ReaderInv, ProcessInv, FilesAreWhole
<1> QED
  BY <1>1, StoreInvHolds, PTL

\* A temporary name belongs to the write under way, or is one that was given up.
TempsInv ==
  dir.temps \subseteq left \cup
    (IF at \in {"write", "sync", "rename", "cleanup"} THEN {tmp} ELSE {})

\* writeFileAtomic leaves no temporary file behind on any of its paths (its deferred
\* Remove): outside a write there is none but those a crash or a failed Remove left.
THEOREM NoTempIsForgotten == Spec => []TempsOnlyFromCrashes
<1>1. Init => TempsInv
  BY DEF Init, TempsInv
<1>2. StoreInv /\ TempsInv /\ [Next]_vars => TempsInv'
  <2> SUFFICES ASSUME StoreInv, TempsInv, [Next]_vars PROVE TempsInv'
    OBVIOUS
  <2>1. dir \in Dirs
    BY DEF StoreInv, ShapeInv
  <2>2. CASE UNCHANGED vars
    BY <2>2 DEF vars, files, write, TempsInv
  <2>3. CASE Save \/ AppendRun \/ DeleteRun \/ LoadFails \/ Start
    <3>1. at = "idle"
      BY <2>3 DEF Save, AppendRun, DeleteRun, LoadFails, Start, StoreInv, ProcessInv
    <3>2. at' \in {"idle", "create"} /\ UNCHANGED <<dir, left>>
      BY <2>3, <3>1 DEF Save, AppendRun, DeleteRun, LoadFails, Start, Write, files
    <3> QED
      BY <3>1, <3>2 DEF TempsInv
  <2>4. CASE Create
    <3>1. dir'.temps = dir.temps \cup {tmp'}
      BY <2>1, <2>4 DEF Create, Relink, Dirs
    <3> QED
      BY <2>4, <3>1 DEF Create, TempsInv
  <2>5. CASE CreateFails \/ RenameFails \/ Return
    BY <2>5 DEF CreateFails, RenameFails, Return, NoWrite, files, write, TempsInv
  <2>6. CASE WriteTemp \/ Sync
    BY <2>6 DEF WriteTemp, Sync, write, TempsInv
  <2>7. CASE Rename
    BY <2>7 DEF Rename, Relink, write, TempsInv
  <2>8. CASE Cleanup
    <3>1. at = "cleanup" /\ at' = "failed" /\ dir.temps \subseteq left \cup {tmp}
      BY <2>8 DEF Cleanup, TempsInv
    <3>2. [dir EXCEPT !.temps = @ \ {tmp}].temps = dir.temps \ {tmp}
      BY <2>1 DEF Dirs
    <3>3. (dir'.temps = dir.temps \ {tmp} /\ left' = left) \/ (dir' = dir /\ left' = left \cup {tmp})
      BY <2>8, <3>2 DEF Cleanup, Relink
    <3> QED
      BY <3>1, <3>3 DEF TempsInv
  <2>9. CASE \E r \in Readers : Open(r) \/ Read(r)
    BY <2>9 DEF Open, Read, files, write, TempsInv
  <2>10. CASE Flush
    BY <2>10 DEF Flush, write, TempsInv
  <2>11. CASE Killed \/ PowerLoss
    BY <2>11 DEF Killed, PowerLoss, Dies, NoWrite, files, TempsInv
  <2> QED
    BY <2>2, <2>3, <2>4, <2>5, <2>6, <2>7, <2>8, <2>9, <2>10, <2>11 DEF Next
<1>3. TempsInv => TempsOnlyFromCrashes
  BY DEF TempsInv, TempsOnlyFromCrashes
<1> QED
  BY <1>1, <1>2, <1>3, StoreInvHolds, PTL DEF Spec
-----------------------------------------------------------------------------
(* What the files hold, and whole-file replacement *)

Stages == {"create", "write", "sync", "rename"}

StageInv ==
  /\ proc \in {"down", "starting", "up", "refused"}
  /\ at \in Stages \cup {"idle", "renamed", "cleanup", "failed"}
  /\ at \in {"write", "sync", "rename", "cleanup"} => tmp \in dir.temps
  /\ at # "idle" => proc \in {"starting", "up"}
  /\ left \subseteq 1..inodes

\* A history that a path leads to is a sequence of lines.
ContentInv ==
  /\ \A i \in 1..inodes : data[i] \in Contents
  /\ new \in Contents
  /\ \A d \in recent : d.path["runs"] # None => data[d.path["runs"]] \in Seq(Lines)

\* What the writer is to put in place is what the operation makes of the content
\* that is in place: with storeMu held nobody else changes that.
OrderInv ==
  at \in Stages =>
    /\ target = "config" =>
         new \in Configs \cup {Defaults} /\ (new = Defaults => Now.config = Missing \/ Defaults \in Configs)
    /\ target = "runs" =>
         /\ new \in Seq(Lines)
         /\ \E id \in Ids :
              \/ new = Newest(Append(LoadRuns(Now.runs), id), Limit)
              \/ /\ \E i \in 1..Len(LoadRuns(Now.runs)) : LoadRuns(Now.runs)[i] = id
                 /\ new = Without(LoadRuns(Now.runs), {id})

MoreInv == StageInv /\ ContentInv /\ OrderInv

\* What LoadRuns makes of the history is a sequence of lines.
LEMMA Loads ==
  ASSUME StoreInv, ContentInv
  PROVE  /\ Now.runs = Missing \/ Now.runs \in Seq(Lines)
         /\ LoadRuns(Now.runs) \in Seq(Lines)
         /\ Now.runs # Torn \/ Now.runs = Missing
<1>1. Now.runs = Content(dir, "runs")
  BY DEF Now, View, Paths
<1>2. Now.runs = Missing \/ Now.runs \in Seq(Lines)
  BY <1>1 DEF Content, StoreInv, LinkInv, ShapeInv, ContentInv, Paths
<1>3. Now.runs \in Seq(Lines) => Without(Now.runs, {Bad}) \in Seq(Lines)
  BY WithoutKeepsTheRest
<1> QED
  BY <1>2, <1>3, ContentAssumption DEF LoadRuns, Lines

\* The contents of the directories that are on the disk stay what they are while the
\* paths and the files they lead to do.
LEMMA ContentStays ==
  ASSUME StoreInv, NEW d \in recent,
         \A p \in Paths : d.path[p] # None =>
           whole'[d.path[p]] /\ data'[d.path[p]] = data[d.path[p]]
  PROVE  View(d)' = View(d)
<1>1. \A p \in Paths : Content(d, p)' = Content(d, p)
  BY DEF StoreInv, LinkInv, Content
<1> QED
  BY <1>1 DEF View

\* While no file is written to, every directory shows what it showed.
LEMMA FilesStay == ASSUME StoreInv, UNCHANGED <<inodes, data, whole>>, NEW d \in recent
                   PROVE  View(d)' = View(d)
  BY ContentStays DEF StoreInv, LinkInv

\* What each directory that may survive shows.
Views == {View(d) : d \in recent}

\* What a step does to the files as those see them who open the paths: nothing, but
\* for the rename, the directory reaching the disk and a power loss.
LEMMA ViewStep ==
  ASSUME StoreInv, [Next]_vars
  PROVE  \/ ~Rename /\ Now' = Now /\ Views' = Views
         \/ Rename /\ Now' = [Now EXCEPT ![target] = new] /\ Views' = Views \cup {Now'}
         \/ Flush /\ Now' = Now /\ Views' = {Now'}
         \/ PowerLoss /\ Now' \in Views /\ Views' = {Now'}
<1>0. dir \in recent /\ recent \subseteq Dirs /\ target \in Paths /\ inodes \in Nat
  BY DEF StoreInv, ShapeInv
<1>1. ASSUME UNCHANGED <<disk, dir, recent>> PROVE Now' = Now /\ Views' = Views
  <2>1. \A d \in recent : View(d)' = View(d)
    BY <1>1, FilesStay DEF disk
  <2> QED
    BY <1>0, <1>1, <2>1 DEF Now, Views
<1>2. ASSUME NEW e, e.path = dir.path, dir' = e, recent' = recent \cup {e},
             \A d \in recent : View(d)' = View(d)
      PROVE  Now' = Now /\ Views' = Views
  <2>0. PICK c \in recent : c = dir
    BY <1>0
  <2>1. View(e)' = View(c)'
    BY <1>2, <2>0 DEF View, Content
  <2>2. Now' = View(e)' /\ Now = View(c)
    BY <1>2, <2>0 DEF Now
  <2>3. Now' = Now
    BY <1>2, <2>0, <2>1, <2>2
  <2>4. Views' = {View(d)' : d \in recent'}
    BY DEF Views
  <2> QED
    BY <1>2, <2>0, <2>1, <2>3, <2>4 DEF Views
<1>3. CASE UNCHANGED vars
  BY <1>1, <1>3 DEF vars, files, Rename, disk
<1>4. CASE Save \/ AppendRun \/ DeleteRun \/ LoadFails \/ Start \/ CreateFails \/ RenameFails \/ Return
  <2>1. UNCHANGED files
    BY <1>4 DEF Save, AppendRun, DeleteRun, LoadFails, Start, CreateFails, RenameFails, Return
  <2>2. ~Rename
    BY <1>4 DEF Save, AppendRun, DeleteRun, LoadFails, Start, CreateFails, RenameFails, Return,
       Write, NoWrite, Rename, StoreInv, ProcessInv
  <2> QED
    BY <1>1, <2>1, <2>2 DEF files
<1>5. CASE Create
  <2> DEFINE here == [dir EXCEPT !.temps = @ \cup {inodes'}]
  <2>1. \A i \in 1..inodes : whole'[i] = whole[i] /\ data'[i] = data[i]
    <3>1. \A i \in 1..inodes : i \in 1..inodes' /\ i # inodes'
      BY <1>0, <1>5 DEF Create
    <3> QED
      BY <1>5, <3>1 DEF Create, StoreInv, ShapeInv
  <2>2. \A d \in recent, p \in Paths : d.path[p] # None => d.path[p] \in 1..inodes
    BY <1>0 DEF Dirs, None
  <2>3. \A d \in recent : View(d)' = View(d)
    BY <2>1, <2>2, ContentStays DEF StoreInv, LinkInv
  <2>4. here.path = dir.path
    BY <1>0 DEF Dirs
  <2>5. dir' = here /\ recent' = recent \cup {here}
    BY <1>5 DEF Create, Relink
  <2> HIDE DEF here
  <2>6. Now' = Now /\ Views' = Views
    BY <1>2, <2>3, <2>4, <2>5
  <2> QED
    BY <1>5, <2>6 DEF Create, Rename
<1>6. CASE WriteTemp \/ Sync
  <2>1. tmp \in 1..inodes /\ \A d \in recent, p \in Paths : d.path[p] # tmp
    BY <1>6 DEF WriteTemp, Sync, StoreInv, WriterInv, ShapeInv, Linked, None
  <2>2. \A d \in recent, p \in Paths : d.path[p] # None => d.path[p] \in 1..inodes
    BY <1>0 DEF Dirs, None
  <2>3. \A i \in 1..inodes : i # tmp => whole'[i] = whole[i] /\ data'[i] = data[i]
    BY <1>6, <2>1 DEF WriteTemp, Sync, StoreInv, ShapeInv
  <2>4. \A d \in recent : View(d)' = View(d)
    BY <2>1, <2>2, <2>3, ContentStays DEF StoreInv, LinkInv
  <2>5. dir' = dir /\ recent' = recent
    BY <1>6 DEF WriteTemp, Sync
  <2>6. Now' = Now /\ Views' = Views
    BY <1>0, <2>4, <2>5 DEF Now, Views
  <2> QED
    BY <1>6, <2>6 DEF WriteTemp, Sync, Rename
<1>7. CASE Rename
  <2>0. PICK h : h = [path |-> [dir.path EXCEPT ![target] = tmp], temps |-> dir.temps \ {tmp}]
    OBVIOUS
  <2>1. dir' = h /\ recent' = recent \cup {h} /\ UNCHANGED <<inodes, data, whole>>
    BY <1>7, <2>0 DEF Rename, Relink, disk
  <2>2. \A d \in recent : View(d)' = View(d)
    BY <2>1, FilesStay
  <2>3. tmp \in 1..inodes /\ whole[tmp] /\ data[tmp] = new
    BY <1>7 DEF Rename, StoreInv, WriterInv, ShapeInv, None
  <2>4. h.path[target] = tmp /\ \A p \in Paths : p # target => h.path[p] = dir.path[p]
    BY <1>0, <2>0 DEF Dirs
  <2>5. \A p \in Paths : Content(h, p)' = IF p = target THEN new ELSE Content(dir, p)
    <3>1. \A p \in Paths : Content(h, p)' = Content(h, p)
      BY <2>1 DEF Content
    <3>2. \A p \in Paths : Content(h, p) = IF p = target THEN new ELSE Content(dir, p)
      BY <2>3, <2>4 DEF Content, None
    <3> QED
      BY <3>1, <3>2
  <2>6. View(h)' = [p \in Paths |-> Content(h, p)']
    BY DEF View
  <2>7. View(h)' = [Now EXCEPT ![target] = new]
    BY <2>5, <2>6 DEF View, Now
  <2>8. Now' = View(h)'
    BY <2>1 DEF Now
  <2>9. Views' = {View(d)' : d \in recent'}
    BY DEF Views
  <2>10. Views' = Views \cup {Now'}
    BY <2>1, <2>2, <2>8, <2>9 DEF Views
  <2> QED
    BY <1>7, <2>7, <2>8, <2>10
<1>8. CASE Cleanup
  <2> DEFINE here == [dir EXCEPT !.temps = @ \ {tmp}]
  <2>1. UNCHANGED disk /\ (UNCHANGED <<dir, recent>> \/ (dir' = here /\ recent' = recent \cup {here}))
    BY <1>8 DEF Cleanup, Relink
  <2>2. here.path = dir.path
    BY <1>0 DEF Dirs
  <2>3. \A d \in recent : View(d)' = View(d)
    BY <2>1, FilesStay DEF disk
  <2> HIDE DEF here
  <2>4. Now' = Now /\ Views' = Views
    BY <1>1, <1>2, <2>1, <2>2, <2>3
  <2> QED
    BY <1>8, <2>4 DEF Cleanup, Rename
<1>9. CASE \E r \in Readers : Open(r) \/ Read(r)
  BY <1>1, <1>9 DEF Open, Read, files, Rename, disk, reader
<1>10. CASE Flush
  <2>1. dir' = dir /\ recent' = {dir} /\ UNCHANGED <<inodes, data, whole>>
    BY <1>10 DEF Flush, disk
  <2>2. View(dir)' = View(dir)
    BY <1>0, <2>1, FilesStay
  <2>3. Now' = Now
    BY <2>1, <2>2 DEF Now
  <2>4. Views' = {View(d)' : d \in recent'}
    BY DEF Views
  <2>5. Views' = {Now'}
    BY <2>1, <2>2, <2>3, <2>4 DEF Now
  <2> QED
    BY <1>10, <2>3, <2>5
<1>11. CASE Killed
  <2>1. Now' = Now /\ Views' = Views
    BY <1>1, <1>11 DEF Killed, files
  <2>2. ~Rename
    BY <1>11 DEF Killed, Dies, NoWrite, Rename
  <2> QED
    BY <2>1, <2>2
<1>12. CASE PowerLoss
  <2>1. PICK d \in recent :
          /\ dir' = d /\ recent' = {d}
          /\ whole'  = [i \in 1..inodes |-> whole[i] /\ synced[i]]
          /\ UNCHANGED <<inodes, data>>
    BY <1>12 DEF PowerLoss
  <2>2. \A p \in Paths : d.path[p] # None => d.path[p] \in 1..inodes
    BY <1>0 DEF Dirs, None
  <2>3. \A p \in Paths : d.path[p] # None => whole'[d.path[p]] /\ data'[d.path[p]] = data[d.path[p]]
    BY <2>1, <2>2 DEF StoreInv, LinkInv
  <2>4. View(d)' = View(d)
    BY <2>3, ContentStays
  <2>5. Now' = View(d)'
    BY <2>1 DEF Now
  <2>6. Views' = {View(e)' : e \in recent'}
    BY DEF Views
  <2>7. Views' = {Now'} /\ Now' \in Views
    BY <2>1, <2>4, <2>5, <2>6 DEF Views
  <2> QED
    BY <1>12, <2>7
<1> QED
  BY <1>3, <1>4, <1>5, <1>6, <1>7, <1>8, <1>9, <1>10, <1>11, <1>12 DEF Next

\* The new content is computed from the content in place, and stays what it makes of it
\* until the rename.
LEMMA OrderStep == StoreInv /\ MoreInv /\ [Next]_vars => OrderInv'
<1> SUFFICES ASSUME StoreInv, MoreInv, [Next]_vars PROVE OrderInv'
  OBVIOUS
<1>0. LoadRuns(Now.runs) \in Seq(Lines)
  BY Loads DEF MoreInv
<1>1. CASE at' \in Stages /\ at \in Stages /\ UNCHANGED <<target, new, Now>>
  BY <1>1 DEF MoreInv, OrderInv
<1>2. CASE at' \notin Stages
  BY <1>2 DEF OrderInv
<1>3. CASE Save
  <2>1. target' = "config" /\ new' \in Configs
    BY <1>3 DEF Save, Write
  <2>2. new' = Defaults => Defaults \in Configs
    BY <2>1
  <2> QED
    BY <2>1, <2>2 DEF OrderInv
<1>4. CASE AppendRun
  <2>1. Now' = Now
    BY <1>4, ViewStep DEF AppendRun, Rename, Flush, PowerLoss, Dies, StoreInv, ProcessInv
  <2>2. PICK id \in Ids : Write("runs", Newest(Append(LoadRuns(Now.runs), id), Limit))
    BY <1>4 DEF AppendRun
  <2>3. target' = "runs" /\ new' = Newest(Append(LoadRuns(Now.runs), id), Limit)
    BY <2>2 DEF Write
  <2>4. Append(LoadRuns(Now.runs), id) \in Seq(Lines) /\ Limit \in Int
    BY <1>0, LimitAssumption DEF Lines
  <2>5. new' \in Seq(Lines)
    BY <2>3, <2>4, NewestIsSuffix
  <2> QED
    BY <2>1, <2>3, <2>5 DEF OrderInv
<1>5. CASE DeleteRun
  <2>1. Now' = Now
    BY <1>5, ViewStep DEF DeleteRun, Rename, Flush, PowerLoss, Dies, StoreInv, ProcessInv
  <2>2. PICK id \in Ids :
          /\ \E i \in DOMAIN LoadRuns(Now.runs) : LoadRuns(Now.runs)[i] = id
          /\ Write("runs", Without(LoadRuns(Now.runs), {id}))
    BY <1>5 DEF DeleteRun
  <2>3. target' = "runs" /\ new' = Without(LoadRuns(Now.runs), {id})
    BY <2>2 DEF Write
  <2>4. new' \in Seq(Lines)
    BY <1>0, <2>3, WithoutKeepsTheRest
  <2>5. \E i \in 1..Len(LoadRuns(Now.runs)) : LoadRuns(Now.runs)[i] = id
    BY <1>0, <2>2
  <2> QED
    BY <2>1, <2>3, <2>4, <2>5 DEF OrderInv
<1>6. CASE Start
  <2>1. Now' = Now
    BY <1>6, ViewStep DEF Start, Rename, Flush, PowerLoss, Dies, StoreInv, ProcessInv
  <2>2. CASE Now.config = Missing /\ Write("config", Defaults)
    BY <2>1, <2>2 DEF Write, OrderInv
  <2>3. CASE UNCHANGED <<write, at>>
    <3>1. at = "idle"
      BY <1>6 DEF Start, StoreInv, ProcessInv
    <3> QED
      BY <2>3, <3>1 DEF Stages, OrderInv
  <2> QED
    BY <1>6, <2>2, <2>3 DEF Start
<1>7. CASE LoadFails \/ Create \/ CreateFails \/ WriteTemp \/ Sync \/ RenameFails
  <2>1. at' \in Stages => at \in Stages /\ UNCHANGED <<target, new>>
    BY <1>7 DEF LoadFails, Create, CreateFails, WriteTemp, Sync, RenameFails, Stages, write
  <2>2. at' \in Stages => Now' = Now
    BY <1>7, <2>1, ViewStep DEF LoadFails, Create, CreateFails, WriteTemp, Sync, RenameFails,
       Rename, Flush, PowerLoss, Dies, NoWrite, Stages
  <2> QED
    BY <1>1, <1>2, <2>1, <2>2
<1>8. CASE Rename \/ Cleanup \/ Return \/ Killed \/ PowerLoss
  BY <1>2, <1>8 DEF Rename, Cleanup, Return, Killed, PowerLoss, Dies, NoWrite, Stages
<1>9. CASE UNCHANGED <<at, write>> /\ ~Rename /\ ~PowerLoss
  <2>1. Now' = Now
    BY <1>9, ViewStep
  <2> QED
    BY <1>1, <1>2, <1>9, <2>1 DEF write
<1>10. CASE Flush \/ (\E r \in Readers : Open(r) \/ Read(r)) \/ UNCHANGED vars
  <2>1. UNCHANGED <<at, write>>
    BY <1>10 DEF Flush, Open, Read, vars
  <2>2. ~Rename
    BY <1>10, <2>1 DEF Rename
  <2> QED
    BY <1>8, <1>9, <2>1, <2>2
<1> QED
  BY <1>3, <1>4, <1>5, <1>6, <1>7, <1>8, <1>10 DEF Next

\* Where the writer is tells what it has done so far.
LEMMA StageStep == StoreInv /\ StageInv /\ [Next]_vars => StageInv'
<1> SUFFICES ASSUME StoreInv, StageInv, [Next]_vars PROVE StageInv'
  OBVIOUS
<1> USE DEF StageInv, Stages
<1>0. dir \in Dirs /\ recent \subseteq Dirs /\ tmp \in 0..inodes /\ inodes \in Nat
      /\ (proc \in {"down", "refused"} => at = "idle")
  BY DEF StoreInv, ShapeInv, ProcessInv
<1>1. CASE Save \/ AppendRun \/ DeleteRun \/ LoadFails \/ Start
  <2>1. UNCHANGED <<inodes, left>> /\ at' \in {"idle", "create"}
    BY <1>0, <1>1 DEF Save, AppendRun, DeleteRun, LoadFails, Start, Write, files, disk
  <2>2. proc' \in {"starting", "up", "refused"} /\ (at' = "create" => proc' \in {"starting", "up"})
    BY <1>0, <1>1 DEF Save, AppendRun, DeleteRun, LoadFails, Start, Write
  <2> QED
    BY <2>1, <2>2
<1>2. CASE Create
  <2>1. dir'.temps = dir.temps \cup {tmp'}
    BY <1>0, <1>2 DEF Create, Relink, Dirs
  <2> QED
    BY <1>0, <1>2, <2>1 DEF Create
<1>3. CASE CreateFails \/ RenameFails
  BY <1>3 DEF CreateFails, RenameFails, files, disk, write
<1>4. CASE WriteTemp \/ Sync
  BY <1>4 DEF WriteTemp, Sync, write
<1>5. CASE Rename
  BY <1>5 DEF Rename, disk
<1>6. CASE Cleanup
  <2>1. tmp \in 1..inodes
    BY <1>0, <1>6 DEF Cleanup, Dirs
  <2> QED
    BY <1>6, <2>1 DEF Cleanup, disk
<1>7. CASE Return
  BY <1>7 DEF Return, NoWrite, files, disk
<1>8. CASE (\E r \in Readers : Open(r) \/ Read(r)) \/ Flush \/ UNCHANGED vars
  BY <1>8 DEF Open, Read, Flush, vars, files, disk, write
<1>9. CASE Killed \/ PowerLoss
  <2>1. PICK d \in recent : Dies(d)
    BY <1>9 DEF Killed, PowerLoss, StoreInv, ShapeInv
  <2>2. inodes' = inodes
    BY <1>9 DEF Killed, PowerLoss, files, disk
  <2>3. d.temps \subseteq 1..inodes
    BY <1>0 DEF Dirs
  <2> QED
    BY <2>1, <2>2, <2>3 DEF Dies, NoWrite
<1> QED
  BY <1>1, <1>2, <1>3, <1>4, <1>5, <1>6, <1>7, <1>8, <1>9 DEF Next

\* What every path shows, now or after a power loss, is a config or a history that
\* somebody wrote whole.
LEMMA ContentStep == StoreInv /\ MoreInv /\ OrderInv' /\ [Next]_vars => ContentInv'
<1> SUFFICES ASSUME StoreInv, MoreInv, OrderInv', [Next]_vars PROVE ContentInv'
  OBVIOUS
<1>0. /\ dir \in recent /\ recent \subseteq Dirs /\ inodes \in Nat /\ tmp \in 0..inodes
      /\ \A d \in recent, p \in Paths : d.path[p] \in 0..inodes
      /\ ContentInv
  BY DEF StoreInv, ShapeInv, Dirs, MoreInv
<1>1. new' \in Contents
  <2>1. CASE new' = new
    BY <1>0, <2>1 DEF ContentInv
  <2>2. CASE new' = Missing
    BY <2>2 DEF Contents
  <2>3. CASE at' \in Stages /\ target' \in Paths
    BY <2>3 DEF OrderInv, Contents, Paths
  <2>4. new' = new \/ new' = Missing \/ (at' \in Stages /\ target' \in Paths)
    BY DEF Next, vars, write, Save, AppendRun, DeleteRun, LoadFails, Start, Write, NoWrite, Create,
       CreateFails, WriteTemp, Sync, Rename, RenameFails, Cleanup, Return, Open, Read, Flush,
       Killed, PowerLoss, Dies, Stages, Paths
  <2> QED
    BY <2>1, <2>2, <2>3, <2>4
<1>2. CASE UNCHANGED <<inodes, data>> /\ \A d \in recent' : \E e \in recent : d.path["runs"] = e.path["runs"]
  BY <1>0, <1>1, <1>2 DEF ContentInv
<1>3. CASE recent' \subseteq recent /\ UNCHANGED <<inodes, data>>
  BY <1>2, <1>3
<1>4. CASE Save \/ AppendRun \/ DeleteRun \/ LoadFails \/ Start \/ CreateFails \/ RenameFails \/ Return
  BY <1>3, <1>4 DEF Save, AppendRun, DeleteRun, LoadFails, Start, CreateFails, RenameFails,
     Return, files, disk
<1>5. CASE Create
  <2> DEFINE here == [dir EXCEPT !.temps = @ \cup {inodes'}]
  <2>1. \A i \in 1..inodes : data'[i] = data[i]
    <3>1. \A i \in 1..inodes : i \in 1..inodes' /\ i # inodes'
      BY <1>0, <1>5 DEF Create
    <3> QED
      BY <1>5, <3>1 DEF Create
  <2>2. inodes' = inodes + 1 /\ data'[inodes + 1] = Empty
    BY <1>0, <1>5 DEF Create
  <2>3. \A i \in 1..inodes' : i \in 1..inodes \/ i = inodes + 1
    BY <1>0, <2>2
  <2>4. \A i \in 1..inodes' : data'[i] \in Contents
    BY <1>0, <2>1, <2>2, <2>3 DEF ContentInv, Contents
  <2>5. here.path = dir.path /\ recent' = recent \cup {here}
    BY <1>0, <1>5 DEF Dirs, Create, Relink
  <2>6. \A d \in recent' : \E e \in recent : d.path["runs"] = e.path["runs"]
    BY <1>0, <2>5
  <2>7. \A d \in recent : d.path["runs"] # None => d.path["runs"] \in 1..inodes
    BY <1>0 DEF None, Paths
  <2> HIDE DEF here
  <2> QED
    BY <1>0, <1>1, <2>1, <2>4, <2>6, <2>7 DEF ContentInv
<1>6. CASE WriteTemp \/ Sync
  <2>1. tmp \in 1..inodes /\ \A d \in recent, p \in Paths : d.path[p] # tmp
    BY <1>6 DEF WriteTemp, Sync, StoreInv, WriterInv, ShapeInv, Linked, None
  <2>2. \A i \in 1..inodes : data'[i] = data[i] \/ (i = tmp /\ data'[i] = new)
    BY <1>6, <2>1 DEF WriteTemp, Sync, StoreInv, ShapeInv
  <2>3. \A d \in recent : d.path["runs"] # None => d.path["runs"] \in 1..inodes
    BY <1>0 DEF None, Paths
  <2>4. recent' = recent /\ inodes' = inodes
    BY <1>6 DEF WriteTemp, Sync
  <2> QED
    BY <1>0, <1>1, <2>1, <2>2, <2>3, <2>4 DEF ContentInv, Paths
<1>7. CASE Rename
  <2> DEFINE here == [path |-> [dir.path EXCEPT ![target] = tmp], temps |-> dir.temps \ {tmp}]
  <2>1. recent' = recent \cup {here} /\ UNCHANGED <<inodes, data>>
    BY <1>7 DEF Rename, Relink, disk
  <2>2. data[tmp] = new /\ tmp # None /\ (target = "runs" => new \in Seq(Lines))
    BY <1>7 DEF Rename, StoreInv, WriterInv, MoreInv, OrderInv, Stages
  <2>3. here.path["runs"] = IF target = "runs" THEN tmp ELSE dir.path["runs"]
    BY <1>0 DEF Dirs, Paths
  <2> HIDE DEF here
  <2>4. here.path["runs"] # None => data[here.path["runs"]] \in Seq(Lines)
    BY <1>0, <2>2, <2>3 DEF ContentInv
  <2> QED
    BY <1>0, <1>1, <2>1, <2>4 DEF ContentInv
<1>8. CASE Cleanup
  <2>1. [dir EXCEPT !.temps = @ \ {tmp}].path = dir.path
    BY <1>0 DEF Dirs
  <2>2. \A d \in recent' : d \in recent \/ d.path = dir.path
    BY <1>8, <2>1 DEF Cleanup, Relink
  <2>3. UNCHANGED <<inodes, data>>
    BY <1>8 DEF Cleanup, disk
  <2> QED
    BY <1>0, <1>2, <2>2, <2>3
<1>9. CASE (\E r \in Readers : Open(r) \/ Read(r)) \/ Flush \/ Killed \/ PowerLoss \/ UNCHANGED vars
  BY <1>0, <1>3, <1>9 DEF Open, Read, Flush, Killed, PowerLoss, vars, files, disk
<1> QED
  BY <1>4, <1>5, <1>6, <1>7, <1>8, <1>9 DEF Next

\* The files a process finds satisfy the stronger invariant.
LEMMA MoreInit == Init => MoreInv
<1> SUFFICES ASSUME Init PROVE MoreInv
  OBVIOUS
<1>1. PICK c \in {Missing, Empty, Garbage} \cup Configs, h \in {Missing} \cup Histories :
        /\ inodes = 2 /\ data = <<c, h>>
        /\ dir = [path  |-> [config |-> IF c = Missing THEN None ELSE 1,
                             runs   |-> IF h = Missing THEN None ELSE 2],
                  temps |-> {}]
  BY DEF Init
<1>2. h = Missing \/ h \in Seq(Lines)
  BY ContentAssumption DEF Lines
<1>3. \A i \in 1..inodes : data[i] \in Contents
  BY <1>1, <1>2 DEF Contents
<1>4. ContentInv
  BY <1>1, <1>2, <1>3 DEF Init, ContentInv, Contents, None
<1>5. StageInv /\ OrderInv
  BY DEF Init, StageInv, OrderInv, Stages
<1> QED
  BY <1>4, <1>5 DEF MoreInv

\* The stronger invariant holds throughout.
LEMMA MoreInvHolds == Spec => []MoreInv
<1>1. StoreInv /\ MoreInv /\ [Next]_vars => MoreInv'
  BY OrderStep, StageStep, ContentStep DEF MoreInv
<1> QED
  BY <1>1, MoreInit, StoreInvHolds, PTL DEF Spec

\* Type correctness for any contents and bounds; a writer past its Create has a
\* temporary file of its own, and only a process that is there writes.
THEOREM TypeCorrect == Spec => []TypeOK
<1>1. StoreInv /\ MoreInv => TypeOK
  BY DEF StoreInv, ShapeInv, MoreInv, StageInv, ContentInv, Stages, TypeOK
<1> QED
  BY <1>1, StoreInvHolds, MoreInvHolds, PTL

\* Temporary files, synced writes and renames, with calls that fail, kills and power
\* losses, are whole-file replacement to whoever opens the paths.
THEOREM ImplementsAtomicReplacement == Spec => ImplementsAtomicFiles
<1>1. Init => Promise!Init
  <2>1. Init => recent = {dir}
    BY DEF Init
  <2>2. Init => {View(d) : d \in recent} = {Now}
    BY <2>1 DEF Now
  <2> QED
    BY <2>2 DEF Promise!Init
<1>2. StoreInv /\ MoreInv /\ [Next]_vars => [Promise!Next]_Promise!vars
  <2> SUFFICES ASSUME StoreInv, MoreInv, [Next]_vars PROVE [Promise!Next]_Promise!vars
    OBVIOUS
  <2>0. Views = {View(d) : d \in recent}
    BY DEF Views
  <2>1. CASE Now' = Now /\ Views' = Views
    BY <2>1 DEF Promise!vars, Views
  <2>2. CASE Rename
    <3>1. /\ Now' = [Now EXCEPT ![target] = new]
          /\ {View(d) : d \in recent}' = {View(d) : d \in recent} \cup {[Now EXCEPT ![target] = new]}
      BY <2>2, ViewStep DEF Views, Rename, Flush, PowerLoss, Dies, NoWrite
    <3>2. at \in Stages /\ target \in Paths
      BY <2>2 DEF Rename, Stages, StoreInv, ShapeInv
    <3>3. CASE target = "config"
      <4>1. new \in Configs \cup {Defaults} /\ (new = Defaults => Now.config = Missing \/ Defaults \in Configs)
        BY <3>2, <3>3 DEF MoreInv, OrderInv
      <4>2. Promise!SaveConfig
        BY <3>1, <3>3, <4>1 DEF Promise!SaveConfig, Promise!Replaced
      <4> QED
        BY <4>2 DEF Promise!Next
    <3>4. CASE target = "runs"
      <4>1. LoadRuns(Now.runs) = Promise!Runs(Now.runs)
        <5>1. Now.runs # Torn \/ Now.runs = Missing
          BY Loads DEF MoreInv
        <5> QED
          BY <5>1 DEF LoadRuns, Promise!Runs, Without, Promise!Without
      <4>2. PICK id \in Ids :
              \/ new = Newest(Append(LoadRuns(Now.runs), id), Limit)
              \/ /\ \E i \in 1..Len(LoadRuns(Now.runs)) : LoadRuns(Now.runs)[i] = id
                 /\ new = Without(LoadRuns(Now.runs), {id})
        BY <3>2, <3>4 DEF MoreInv, OrderInv
      <4>3. CASE new = Newest(Append(LoadRuns(Now.runs), id), Limit)
        <5>1. new = Promise!Newest(Append(Promise!Runs(Now.runs), id), Limit)
          BY <4>1, <4>3 DEF Newest, Promise!Newest
        <5>2. Promise!AppendRun
          BY <3>1, <3>4, <5>1 DEF Promise!AppendRun, Promise!Replaced
        <5> QED
          BY <5>2 DEF Promise!Next
      <4>4. CASE /\ \E i \in 1..Len(LoadRuns(Now.runs)) : LoadRuns(Now.runs)[i] = id
                 /\ new = Without(LoadRuns(Now.runs), {id})
        <5>1. new = Promise!Without(Promise!Runs(Now.runs), {id})
          BY <4>1, <4>4 DEF Without, Promise!Without
        <5>2. Promise!DeleteRun
          BY <3>1, <3>4, <4>1, <4>4, <5>1 DEF Promise!DeleteRun, Promise!Replaced
        <5> QED
          BY <5>2 DEF Promise!Next
      <4> QED
        BY <4>2, <4>3, <4>4
    <3> QED
      BY <3>2, <3>3, <3>4 DEF Paths
  <2>3. CASE Now' = Now /\ Views' = {Now'}
    BY <2>3 DEF Promise!Next, Promise!Flush, Views
  <2>4. CASE Now' \in Views /\ Views' = {Now'}
    BY <2>4 DEF Promise!Next, Promise!PowerLoss, Views
  <2> QED
    BY <2>1, <2>2, <2>3, <2>4, ViewStep
<1> QED
  BY <1>1, <1>2, StoreInvHolds, MoreInvHolds, PTL DEF Spec, ImplementsAtomicFiles, Promise!Spec
=============================================================================
