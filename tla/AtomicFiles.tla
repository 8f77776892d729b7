---------------------------- MODULE AtomicFiles ----------------------------
(***************************************************************************)
(* What internal/store promises of its two files: a reader finds the last  *)
(* whole version some operation wrote, an operation that fails changes     *)
(* nothing, and after a power loss the files are a version they had since  *)
(* the directory last reached the disk, never a mixture.  Store.tla, with  *)
(* its temporary files, is shown to implement it.                          *)
(***************************************************************************)
EXTENDS Lists

CONSTANTS
  Configs,    \* the configurations a PUT may save
  Defaults,   \* the configuration of a first start
  Missing,    \* the content of a file that does not exist
  Ids,        \* run ids
  Bad,        \* a line of the history that does not decode
  Limit       \* history_limit: 0 or less keeps every run

VARIABLES
  shown,      \* what a reader who opens the files now finds
  recent      \* what a power loss may leave of them

vars == <<shown, recent>>

Replaced(new) == shown' = new /\ recent' = recent \cup {new}

\* A PUT saves a configuration; a start supplies one only where there is none.
SaveConfig ==
  \E c \in Configs \cup {Defaults} :
    /\ c = Defaults => shown.config = Missing \/ Defaults \in Configs
    /\ Replaced([shown EXCEPT !.config = c])

Runs(lines) == IF lines = Missing THEN <<>> ELSE Without(lines, {Bad})

\* A finished run becomes the newest, and the oldest leave when they exceed Limit.
AppendRun ==
  \E id \in Ids :
    Replaced([shown EXCEPT !.runs = Newest(Append(Runs(shown.runs), id), Limit)])

\* One run leaves the history, the others stay in their order.
DeleteRun ==
  \E id \in Ids :
    /\ \E i \in 1..Len(Runs(shown.runs)) : Runs(shown.runs)[i] = id
    /\ Replaced([shown EXCEPT !.runs = Without(Runs(shown.runs), {id})])

\* The directory reaches the disk.
Flush == recent' = {shown} /\ UNCHANGED shown

PowerLoss == shown' \in recent /\ recent' = {shown'}

Init == recent = {shown}
Next == SaveConfig \/ AppendRun \/ DeleteRun \/ Flush \/ PowerLoss
Spec == Init /\ [][Next]_vars
=============================================================================
