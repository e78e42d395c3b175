------------------------------- MODULE FileWriter -------------------------------
(***************************************************************************)
(* internal/client/config: WriteFileAtomic, its calls of the file system    *)
(* one by one, for any number of goroutines that write one path.  An action *)
(* of the tray and the shutdown can have a session each, both of which      *)
(* write the sync state.                                                    *)
(*                                                                          *)
(* The file system is POSIX: a rename replaces the name at once, data is    *)
(* durable when it was synced, and a name that was not is the old or the    *)
(* new one after power loss.                                                *)
(***************************************************************************)
EXTENDS Integers

CONSTANTS
  Writer, Content,
  Absent,   \* os.ErrNotExist
  Torn      \* not a whole version: empty, cut short, or lost in part

Mode == {"private", "shared"}   \* 0600, or any wider mode
File == [data : Content \cup {Torn}, synced : BOOLEAN, mode : Mode]

ASSUME FileAssumption == Absent \notin File /\ Torn \notin Content

VARIABLES
  file,     \* the file at the path
  older,    \* the files that the name may stand for after power loss
  pc,       \* pc[w]: the next call of the file system
  want,     \* want[w]: raw
  perm,     \* perm[w]: what existingPerm returned
  temp,     \* temp[w]: the file at w's temporary path
  raced     \* history: the user changed the mode while a write was under way

vars == <<file, older, pc, want, perm, temp, raced>>

Calls == {"stat", "create", "chmod", "write", "sync", "close", "rename"}
PC == Calls \cup {"idle", "done", "failed"}

Init ==
  /\ file \in {Absent} \cup [data : Content, synced : {TRUE}, mode : Mode]
  /\ older = {}
  /\ pc = [w \in Writer |-> "idle"]
  /\ want \in [Writer -> Content]
  /\ perm = [w \in Writer |-> "private"]
  /\ temp = [w \in Writer |-> Absent]
  /\ raced = FALSE

GoTo(w, place) == pc' = [pc EXCEPT ![w] = place]

Begin(w) ==
  /\ pc[w] = "idle"
  /\ \E c \in Content : want' = [want EXCEPT ![w] = c]
  /\ GoTo(w, "stat")
  /\ UNCHANGED <<file, older, perm, temp, raced>>

\* The mode of the file is not looked at.
PermOf_Default(f) == "private"

\* existingPerm.
PermOf(f) == IF f = Absent THEN "private" ELSE f.mode

Stat(w) ==
  /\ pc[w] = "stat"
  /\ perm' = [perm EXCEPT ![w] = PermOf(file)]
  /\ GoTo(w, "create")
  /\ UNCHANGED <<file, older, want, temp, raced>>

\* MkdirAll, then CreateTemp with a name of its own.
Create(w) ==
  /\ pc[w] = "create"
  /\ temp' = [temp EXCEPT ![w] =
                [data |-> Torn, synced |-> FALSE, mode |-> "private"]]
  /\ GoTo(w, "chmod")
  /\ UNCHANGED <<file, older, want, perm, raced>>

Chmod(w) ==
  /\ pc[w] = "chmod"
  /\ temp' = [temp EXCEPT ![w] = [@ EXCEPT !.mode = perm[w]]]
  /\ GoTo(w, "write")
  /\ UNCHANGED <<file, older, want, perm, raced>>

Write(w) ==
  /\ pc[w] = "write"
  /\ temp' = [temp EXCEPT ![w] = [@ EXCEPT !.data = want[w], !.synced = FALSE]]
  /\ GoTo(w, "sync")
  /\ UNCHANGED <<file, older, want, perm, raced>>

\* The data is left in the page cache.
AfterSync_Cached(f) == f

\* What Sync makes of the temporary file.
AfterSync(f) == [f EXCEPT !.synced = TRUE]

Sync(w) ==
  /\ pc[w] = "sync"
  /\ temp' = [temp EXCEPT ![w] = AfterSync(@)]
  /\ GoTo(w, "close")
  /\ UNCHANGED <<file, older, want, perm, raced>>

Close(w) ==
  /\ pc[w] = "close"
  /\ GoTo(w, "rename")
  /\ UNCHANGED <<file, older, want, perm, temp, raced>>

\* The last call that can fail; after it the write is reported done.
Rename(w) ==
  /\ pc[w] = "rename"
  /\ file' = temp[w]
  /\ older' = older \cup {file}
  /\ temp' = [temp EXCEPT ![w] = Absent]
  /\ GoTo(w, "done")
  /\ UNCHANGED <<want, perm, raced>>

\* A call returns an error.  The temporary file is removed; one that cannot
\* be removed is left behind, under a name that nobody reads.
Fail(w) ==
  /\ pc[w] \in Calls
  /\ temp' = [temp EXCEPT ![w] = Absent]
  /\ GoTo(w, "failed")
  /\ UNCHANGED <<file, older, want, perm, raced>>

Return(w) ==
  /\ pc[w] \in {"done", "failed"}
  /\ GoTo(w, "idle")
  /\ UNCHANGED <<file, older, want, perm, temp, raced>>

-------------------------------------------------------------------------------
(* The surroundings *)

\* The user changes the mode of the file.
UserChmod(m) ==
  /\ file # Absent
  /\ file' = [file EXCEPT !.mode = m]
  /\ raced' = (raced \/ \E w \in Writer : pc[w] \in Calls)
  /\ UNCHANGED <<older, pc, want, perm, temp>>

\* The process dies.
Crash ==
  /\ pc' = [w \in Writer |-> "idle"]
  /\ temp' = [w \in Writer |-> Absent]
  /\ UNCHANGED <<file, older, want, perm, raced>>

\* The system writes back what it caches, the directory included.
Flush ==
  /\ older' = {}
  /\ file' = IF file = Absent THEN file ELSE [file EXCEPT !.synced = TRUE]
  /\ UNCHANGED <<pc, want, perm, temp, raced>>

\* What is left of f: data that was not synced may be lost.
Survivors(f) ==
  IF f = Absent \/ f.synced THEN {f}
  ELSE {f, [f EXCEPT !.data = Torn, !.synced = TRUE]}

PowerLoss ==
  /\ file' \in UNION {Survivors(f) : f \in {file} \cup older}
  /\ older' = {}
  /\ pc' = [w \in Writer |-> "idle"]
  /\ temp' = [w \in Writer |-> Absent]
  /\ UNCHANGED <<want, perm, raced>>

Step(w) ==
  \/ Begin(w) \/ Stat(w) \/ Create(w) \/ Chmod(w) \/ Write(w) \/ Sync(w)
  \/ Close(w) \/ Rename(w) \/ Fail(w) \/ Return(w)

Next ==
  \/ \E w \in Writer : Step(w)
  \/ \E m \in Mode : UserChmod(m)
  \/ Crash \/ Flush \/ PowerLoss

Spec == Init /\ [][Next]_vars

-------------------------------------------------------------------------------
(* Properties *)

TypeOK ==
  /\ file \in File \cup {Absent}
  /\ older \subseteq File \cup {Absent}
  /\ pc \in [Writer -> PC]
  /\ want \in [Writer -> Content]
  /\ perm \in [Writer -> Mode]
  /\ temp \in [Writer -> File \cup {Absent}]
  /\ raced \in BOOLEAN

(***************************************************************************)
(* The file and whatever power loss may put in its place are whole and      *)
(* durable, a temporary file is complete before it is renamed, and durable  *)
(* by then too.                                                             *)
(***************************************************************************)
Whole(f) == f = Absent \/ (f.data \in Content /\ f.synced)

WholeFiles ==
  /\ \A f \in {file} \cup older : Whole(f)
  /\ \A w \in Writer :
       /\ pc[w] \in {"chmod", "write", "sync", "close", "rename"} => temp[w] # Absent
       /\ pc[w] \in {"sync", "close", "rename"} => temp[w].data = want[w]
       /\ pc[w] \in {"close", "rename"} => temp[w].synced

\* The file as its readers and callers see it.
DataOf(f) == IF f = Absent THEN Absent ELSE f.data
CallOf(place) == IF place \in Calls THEN "writing" ELSE place

Register == INSTANCE AtomicFile WITH
  value <- DataOf(file),
  older <- {DataOf(f) : f \in older},
  call <- [w \in Writer |-> CallOf(pc[w])],
  want <- want

(***************************************************************************)
(* WriteFileAtomic makes a register of a file: whoever else writes the      *)
(* path, and wherever a call fails, the process dies or the power goes, a   *)
(* reader finds a whole version, "done" means that the write took effect    *)
(* and an error that it did not.                                            *)
(***************************************************************************)
ImplementsAtomicFile == Register!Spec

(***************************************************************************)
(* Replacing a file keeps the mode that its user gave it, however many      *)
(* writers looked at it and replace it in whatever order, and a file that   *)
(* is new is private: it has keys in it.  A user who changes the mode while *)
(* a write is under way may find it changed back.                           *)
(***************************************************************************)
ModeIsKept ==
  [][\A w \in Writer : pc[w] = "rename" /\ pc'[w] = "done" /\ ~ raced =>
       file'.mode = IF file = Absent THEN "private" ELSE file.mode]_vars
===============================================================================
