------------------------------- MODULE AtomicFile -------------------------------
(***************************************************************************)
(* What the configuration, the sync state and the Codex files are written   *)
(* on the assumption of: a file is a register.  A write that is reported    *)
(* done took effect at one moment, one that failed never did, and a reader  *)
(* finds a whole version at any time, even after a crash.  Only power loss  *)
(* can take back a write, and it brings back a whole older version.         *)
(***************************************************************************)
CONSTANTS
  Writer,    \* the goroutines that write the file
  Content,   \* what they write
  Absent     \* there is no file

VARIABLES
  value,     \* what a reader finds
  older,     \* what power loss may bring back
  call,      \* call[w]: idle, writing, done or failed
  want       \* want[w]: what w writes

vars == <<value, older, call, want>>

Init ==
  /\ value \in Content \cup {Absent}
  /\ older = {}
  /\ call = [w \in Writer |-> "idle"]
  /\ want \in [Writer -> Content]

Begin(w) ==
  /\ call[w] = "idle"
  /\ \E c \in Content : want' = [want EXCEPT ![w] = c]
  /\ call' = [call EXCEPT ![w] = "writing"]
  /\ UNCHANGED <<value, older>>

Commit(w) ==
  /\ call[w] = "writing"
  /\ value' = want[w]
  /\ older' = older \cup {value}
  /\ call' = [call EXCEPT ![w] = "done"]
  /\ UNCHANGED want

Fail(w) ==
  /\ call[w] = "writing"
  /\ call' = [call EXCEPT ![w] = "failed"]
  /\ UNCHANGED <<value, older, want>>

Return(w) ==
  /\ call[w] \in {"done", "failed"}
  /\ call' = [call EXCEPT ![w] = "idle"]
  /\ UNCHANGED <<value, older, want>>

Crash ==
  /\ call' = [w \in Writer |-> "idle"]
  /\ UNCHANGED <<value, older, want>>

Flush ==
  /\ older' = {}
  /\ UNCHANGED <<value, call, want>>

PowerLoss ==
  /\ value' \in {value} \cup older
  /\ older' = {}
  /\ call' = [w \in Writer |-> "idle"]
  /\ UNCHANGED want

Next ==
  \/ \E w \in Writer : Begin(w) \/ Commit(w) \/ Fail(w) \/ Return(w)
  \/ Crash \/ Flush \/ PowerLoss

Spec == Init /\ [][Next]_vars
===============================================================================
