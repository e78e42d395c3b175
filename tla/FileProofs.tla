------------------------------- MODULE FileProofs -------------------------------
(***************************************************************************)
(* WriteFileAtomic makes a register of a file, for any number of writers    *)
(* and any contents: type correctness, the invariant that what is renamed   *)
(* is complete and durable, the refinement of AtomicFile step by step, and  *)
(* that modes are kept.                                                     *)
(***************************************************************************)
EXTENDS FileWriter, TLAPS

\* Places at which the temporary file exists, is complete, is durable, has
\* its mode, and at which existingPerm has answered.
HasTemp == {"chmod", "write", "sync", "close", "rename"}
HasData == {"sync", "close", "rename"}
IsDurable == {"close", "rename"}
HasMode == {"write", "sync", "close", "rename"}
KnowsPerm == {"create"} \cup HasTemp

\* The modes that writers found are those they will replace the file with.
ModesAgree ==
  \A w \in Writer :
    /\ pc[w] \in HasMode => temp[w].mode = perm[w]
    /\ ~ raced /\ pc[w] \in KnowsPerm => perm[w] = PermOf(file)

IInv == TypeOK /\ WholeFiles /\ ModesAgree

-------------------------------------------------------------------------------
LEMMA InitGood == Init => IInv
<1> SUFFICES ASSUME Init PROVE IInv
  OBVIOUS
<1>1. TypeOK
  BY FileAssumption DEF Init, TypeOK, File, Mode, PC
<1>2. WholeFiles
  BY DEF Init, WholeFiles, Whole
<1>3. ModesAgree
  BY DEF Init, ModesAgree, HasMode, KnowsPerm, HasTemp
<1> QED
  BY <1>1, <1>2, <1>3 DEF IInv

-------------------------------------------------------------------------------
(* A writer's steps before the rename: its own place and temporary file. *)

LEMMA BeginKeeps == ASSUME IInv, NEW w \in Writer, Begin(w) PROVE IInv'
<1> USE DEF IInv, Begin, GoTo
<1>1. TypeOK'
  BY DEF TypeOK, PC, Calls
<1>2. WholeFiles'
  BY DEF TypeOK, WholeFiles, Whole
<1>3. ModesAgree'
  BY DEF TypeOK, ModesAgree, HasMode, KnowsPerm, HasTemp
<1> QED
  BY <1>1, <1>2, <1>3

LEMMA StatKeeps == ASSUME IInv, NEW w \in Writer, Stat(w) PROVE IInv'
<1> USE DEF IInv, Stat, GoTo
<1>1. PermOf(file) \in Mode
  BY FileAssumption DEF TypeOK, PermOf, File, Mode
<1>2. TypeOK'
  BY <1>1 DEF TypeOK, PC, Calls
<1>3. WholeFiles'
  BY DEF TypeOK, WholeFiles, Whole
<1>4. ModesAgree'
  BY <1>1 DEF TypeOK, ModesAgree, HasMode, KnowsPerm, HasTemp, PermOf
<1> QED
  BY <1>2, <1>3, <1>4

LEMMA CreateKeeps == ASSUME IInv, NEW w \in Writer, Create(w) PROVE IInv'
<1> USE DEF IInv, Create, GoTo
<1>1. [data |-> Torn, synced |-> FALSE, mode |-> "private"] \in File
  BY DEF File, Mode
<1>2. TypeOK'
  BY <1>1 DEF TypeOK, PC, Calls
<1>3. WholeFiles'
  BY <1>1, FileAssumption DEF TypeOK, WholeFiles, Whole
<1>4. ModesAgree'
  BY DEF TypeOK, ModesAgree, HasMode, KnowsPerm, HasTemp, PermOf
<1> QED
  BY <1>2, <1>3, <1>4

LEMMA ChmodKeeps == ASSUME IInv, NEW w \in Writer, Chmod(w) PROVE IInv'
<1> USE DEF IInv, Chmod, GoTo
<1> DEFINE t == [temp[w] EXCEPT !.mode = perm[w]]
<1>1. t \in File /\ t.mode = perm[w]
  <2>1. temp[w] \in File /\ perm[w] \in Mode
    BY DEF TypeOK, WholeFiles
  <2> QED
    BY <2>1 DEF File
<1>2. TypeOK'
  BY <1>1 DEF TypeOK, PC, Calls
<1>3. WholeFiles'
  BY <1>1, FileAssumption DEF TypeOK, WholeFiles, Whole
<1>4. ModesAgree'
  BY <1>1 DEF TypeOK, ModesAgree, HasMode, KnowsPerm, HasTemp, PermOf
<1> QED
  BY <1>2, <1>3, <1>4

LEMMA WriteKeeps == ASSUME IInv, NEW w \in Writer, Write(w) PROVE IInv'
<1> USE DEF IInv, Write, GoTo
<1> DEFINE t == [temp[w] EXCEPT !.data = want[w], !.synced = FALSE]
<1>1. t \in File /\ t.mode = temp[w].mode /\ t.data = want[w]
  <2>1. temp[w] \in File /\ want[w] \in Content
    BY DEF TypeOK, WholeFiles
  <2> QED
    BY <2>1 DEF File
<1>2. TypeOK'
  BY <1>1 DEF TypeOK, PC, Calls
<1>3. WholeFiles'
  BY <1>1, FileAssumption DEF TypeOK, WholeFiles, Whole
<1>4. ModesAgree'
  BY <1>1 DEF TypeOK, ModesAgree, HasMode, KnowsPerm, HasTemp, PermOf
<1> QED
  BY <1>2, <1>3, <1>4

LEMMA SyncKeeps == ASSUME IInv, NEW w \in Writer, Sync(w) PROVE IInv'
<1> USE DEF IInv, Sync, GoTo
<1> DEFINE t == AfterSync(temp[w])
<1>1. t \in File /\ t.mode = temp[w].mode /\ t.data = temp[w].data /\ t.synced
  <2>1. temp[w] \in File
    BY DEF TypeOK, WholeFiles
  <2> QED
    BY <2>1 DEF File, AfterSync
<1> HIDE DEF t
<1>2. temp' = [temp EXCEPT ![w] = t]
  BY DEF t
<1>3. TypeOK'
  BY <1>1, <1>2 DEF TypeOK, PC, Calls
<1>4. WholeFiles'
  BY <1>1, <1>2, FileAssumption DEF TypeOK, WholeFiles, Whole
<1>5. ModesAgree'
  BY <1>1, <1>2 DEF TypeOK, ModesAgree, HasMode, KnowsPerm, HasTemp, PermOf
<1> QED
  BY <1>3, <1>4, <1>5

LEMMA CloseKeeps == ASSUME IInv, NEW w \in Writer, Close(w) PROVE IInv'
<1> USE DEF IInv, Close, GoTo
<1>1. TypeOK'
  BY DEF TypeOK, PC, Calls
<1>2. WholeFiles'
  BY DEF TypeOK, WholeFiles, Whole
<1>3. ModesAgree'
  BY DEF TypeOK, ModesAgree, HasMode, KnowsPerm, HasTemp, PermOf
<1> QED
  BY <1>1, <1>2, <1>3

\* What is renamed is whole, and has the mode of what it replaces.
LEMMA RenameKeeps == ASSUME IInv, NEW w \in Writer, Rename(w) PROVE IInv'
<1> USE DEF IInv, Rename, GoTo
<1>1. file' \in File /\ Whole(file') /\ file'.mode = perm[w]
  BY DEF TypeOK, WholeFiles, Whole, ModesAgree, HasMode
<1>2. ~ raced => PermOf(file') = PermOf(file)
  BY <1>1, FileAssumption DEF PermOf, ModesAgree, KnowsPerm, HasTemp
<1>3. TypeOK'
  BY <1>1 DEF TypeOK, PC, Calls
<1>4. WholeFiles'
  BY <1>1 DEF TypeOK, WholeFiles
<1>5. ModesAgree'
  BY <1>2 DEF TypeOK, ModesAgree, HasMode, KnowsPerm, HasTemp
<1> QED
  BY <1>3, <1>4, <1>5

LEMMA FailKeeps == ASSUME IInv, NEW w \in Writer, Fail(w) PROVE IInv'
<1> USE DEF IInv, Fail, GoTo
<1>1. TypeOK'
  BY DEF TypeOK, PC, Calls
<1>2. WholeFiles'
  BY DEF TypeOK, WholeFiles, Whole
<1>3. ModesAgree'
  BY DEF TypeOK, ModesAgree, HasMode, KnowsPerm, HasTemp, PermOf
<1> QED
  BY <1>1, <1>2, <1>3

LEMMA ReturnKeeps == ASSUME IInv, NEW w \in Writer, Return(w) PROVE IInv'
<1> USE DEF IInv, Return, GoTo
<1>1. TypeOK'
  BY DEF TypeOK, PC, Calls
<1>2. WholeFiles'
  BY DEF TypeOK, WholeFiles, Whole
<1>3. ModesAgree'
  BY DEF TypeOK, ModesAgree, HasMode, KnowsPerm, HasTemp, PermOf
<1> QED
  BY <1>1, <1>2, <1>3

-------------------------------------------------------------------------------
(* The surroundings *)

\* A mode is changed behind the writers' backs: that is a race.
LEMMA UserChmodKeeps == ASSUME IInv, NEW m \in Mode, UserChmod(m) PROVE IInv'
<1> USE DEF IInv, UserChmod
<1>1. file' \in File /\ Whole(file')
  <2>1. file \in File /\ Whole(file)
    BY DEF TypeOK, WholeFiles
  <2> QED
    BY <2>1, FileAssumption DEF File, Whole
<1>2. TypeOK'
  BY <1>1 DEF TypeOK
<1>3. WholeFiles'
  BY <1>1 DEF TypeOK, WholeFiles
<1>4. ModesAgree'
  BY DEF TypeOK, ModesAgree, HasMode, KnowsPerm, HasTemp, Calls
<1> QED
  BY <1>2, <1>3, <1>4

LEMMA CrashKeeps == ASSUME IInv, Crash PROVE IInv'
<1> USE DEF IInv, Crash
<1>1. TypeOK'
  BY DEF TypeOK, PC
<1>2. WholeFiles'
  BY DEF TypeOK, WholeFiles, Whole
<1>3. ModesAgree'
  BY DEF TypeOK, ModesAgree, HasMode, KnowsPerm, HasTemp
<1> QED
  BY <1>1, <1>2, <1>3

LEMMA FlushKeeps == ASSUME IInv, Flush PROVE IInv'
<1> USE DEF IInv, Flush
<1>1. /\ file' \in File \cup {Absent} /\ Whole(file')
      /\ PermOf(file') = PermOf(file)
  <2>1. CASE file = Absent
    BY <2>1 DEF Whole
  <2>2. CASE file # Absent
    <3>1. file \in File /\ Whole(file)
      BY <2>2 DEF TypeOK, WholeFiles
    <3> QED
      BY <2>2, <3>1, FileAssumption DEF File, Whole, PermOf
  <2> QED
    BY <2>1, <2>2
<1>2. TypeOK'
  BY <1>1 DEF TypeOK
<1>3. WholeFiles'
  BY <1>1 DEF TypeOK, WholeFiles
<1>4. ModesAgree'
  BY <1>1 DEF TypeOK, ModesAgree, HasMode, KnowsPerm, HasTemp
<1> QED
  BY <1>2, <1>3, <1>4

\* A file that is whole and durable survives as it is.
LEMMA WholeSurvives ==
  ASSUME NEW f, Whole(f) PROVE Survivors(f) = {f}
BY DEF Whole, Survivors

LEMMA PowerLossPicks ==
  ASSUME IInv, PowerLoss PROVE file' \in {file} \cup older
<1>1. PICK f \in {file} \cup older : file' \in Survivors(f)
  BY DEF PowerLoss
<1>2. Survivors(f) = {f}
  BY WholeSurvives DEF IInv, WholeFiles
<1> QED
  BY <1>1, <1>2

LEMMA PowerLossKeeps == ASSUME IInv, PowerLoss PROVE IInv'
<1>1. file' \in {file} \cup older
  BY PowerLossPicks
<1>2. TypeOK'
  BY <1>1 DEF IInv, PowerLoss, TypeOK, PC
<1>3. WholeFiles'
  BY <1>1 DEF IInv, PowerLoss, TypeOK, WholeFiles
<1>4. ModesAgree'
  BY DEF IInv, PowerLoss, TypeOK, ModesAgree, HasMode, KnowsPerm, HasTemp
<1> QED
  BY <1>2, <1>3, <1>4 DEF IInv

-------------------------------------------------------------------------------
LEMMA StutterKeeps == ASSUME IInv, UNCHANGED vars PROVE IInv'
BY DEF IInv, vars, TypeOK, WholeFiles, Whole, ModesAgree

LEMMA StepKeeps == IInv /\ [Next]_vars => IInv'
<1> SUFFICES ASSUME IInv, [Next]_vars PROVE IInv'
  OBVIOUS
<1>1. ASSUME NEW w \in Writer, Step(w) PROVE IInv'
  BY <1>1, BeginKeeps, StatKeeps, CreateKeeps, ChmodKeeps, WriteKeeps,
     SyncKeeps, CloseKeeps, RenameKeeps, FailKeeps, ReturnKeeps DEF Step
<1>2. ASSUME NEW m \in Mode, UserChmod(m) PROVE IInv'
  BY <1>2, UserChmodKeeps
<1>3. CASE Crash
  BY <1>3, CrashKeeps
<1>4. CASE Flush
  BY <1>4, FlushKeeps
<1>5. CASE PowerLoss
  BY <1>5, PowerLossKeeps
<1>6. CASE UNCHANGED vars
  BY <1>6, StutterKeeps
<1> QED
  BY <1>1, <1>2, <1>3, <1>4, <1>5, <1>6 DEF Next

LEMMA Invariant == Spec => []IInv
BY InitGood, StepKeeps, PTL DEF Spec

\* The variables of WriteFileAtomic have their types, in any interleaving of
\* any number of writers with failures, crashes and power losses.
THEOREM TypeCorrect == Spec => []TypeOK
<1>1. IInv => TypeOK
  BY DEF IInv
<1> QED
  BY <1>1, Invariant, PTL

\* What a reader can find, now or after power loss, is whole and durable, and
\* what is about to be renamed is complete and synced.
THEOREM FilesAreWhole == Spec => []WholeFiles
<1>1. IInv => WholeFiles
  BY DEF IInv
<1> QED
  BY <1>1, Invariant, PTL

\* Replacing a file keeps its mode, and a new file is private (existingPerm
\* and the Chmod of the temporary file), whoever else replaces it.
THEOREM ModesKept == Spec => ModeIsKept
<1> DEFINE Keeps ==
      \A w \in Writer : pc[w] = "rename" /\ pc'[w] = "done" /\ ~ raced =>
        file'.mode = IF file = Absent THEN "private" ELSE file.mode
<1>1. IInv /\ [Next]_vars => [Keeps]_vars
  <2> SUFFICES ASSUME IInv, Next, NEW w \in Writer,
                      pc[w] = "rename", pc'[w] = "done", ~ raced
               PROVE file'.mode = PermOf(file)
    BY DEF PermOf
  <2>1. Rename(w)
    <3>1. PICK v \in Writer : Step(v)
      BY DEF Next, Crash, Flush, PowerLoss, UserChmod, IInv, TypeOK
    <3>2. v = w
      BY <3>1 DEF Step, GoTo, Begin, Stat, Create, Chmod, Write, Sync, Close,
                  Rename, Fail, Return, IInv, TypeOK
    <3> QED
      BY <3>1, <3>2 DEF Step, GoTo, Begin, Stat, Create, Chmod, Write, Sync,
                        Close, Fail, Return, Calls, IInv, TypeOK
  <2>2. file' = temp[w]
    BY <2>1 DEF Rename
  <2> QED
    BY <2>2 DEF IInv, ModesAgree, HasMode, KnowsPerm, HasTemp
<1> QED
  BY <1>1, Invariant, PTL DEF Spec, ModeIsKept

-------------------------------------------------------------------------------
(* The refinement *)

\* The register's variables.
value == DataOf(file)
fallbacks == {DataOf(f) : f \in older}
call == [w \in Writer |-> CallOf(pc[w])]

\* Only the places at which a call of WriteFileAtomic begins, ends well, ends
\* badly or is left are seen by its caller.
LEMMA CallMoves ==
  ASSUME TypeOK, NEW w \in Writer, NEW place \in PC, GoTo(w, place)
  PROVE  call' = [call EXCEPT ![w] = CallOf(place)]
BY DEF TypeOK, GoTo, call

LEMMA CallStays ==
  ASSUME TypeOK, NEW w \in Writer, NEW place \in Calls, pc[w] \in Calls,
         GoTo(w, place)
  PROVE  call' = call
BY DEF TypeOK, GoTo, call, CallOf

LEMMA FileUnchanged ==
  ASSUME UNCHANGED <<file, older>> PROVE UNCHANGED <<value, fallbacks>>
BY DEF value, fallbacks

LEMMA InitMaps == Init => Register!Init
<1> SUFFICES ASSUME Init PROVE Register!Init
  OBVIOUS
<1>1. DataOf(file) \in Content \cup {Absent}
  BY FileAssumption DEF Init, DataOf
<1>2. {DataOf(f) : f \in older} = {}
  BY DEF Init
<1>3. [w \in Writer |-> CallOf(pc[w])] = [w \in Writer |-> "idle"]
  BY DEF Init, CallOf, Calls
<1> QED
  BY <1>1, <1>2, <1>3 DEF Init, Register!Init

LEMMA WriterMaps ==
  ASSUME IInv, NEW w \in Writer, Step(w)
  PROVE  [Register!Next]_(Register!vars)
<1> USE DEF value, fallbacks, call
<1>1. CASE Begin(w)
  <2>1. call' = [call EXCEPT ![w] = "writing"] /\ UNCHANGED <<value, fallbacks>>
    BY <1>1, CallMoves, FileUnchanged DEF IInv, Begin, CallOf, PC, Calls
  <2>2. call[w] = "idle"
    BY <1>1 DEF Begin, CallOf, Calls
  <2> QED
    BY <1>1, <2>1, <2>2 DEF Begin, Register!Begin, Register!Next
<1>2. CASE Stat(w) \/ Create(w) \/ Chmod(w) \/ Write(w) \/ Sync(w) \/ Close(w)
  <2>1. UNCHANGED <<value, fallbacks, want>>
    BY <1>2 DEF Stat, Create, Chmod, Write, Sync, Close
  <2>2. call' = call
    BY <1>2, CallStays
    DEF IInv, Calls, Stat, Create, Chmod, Write, Sync, Close
  <2> QED
    BY <2>1, <2>2 DEF Register!vars
<1>3. CASE Rename(w)
  <2>1. value' = want[w]
    BY <1>3, FileAssumption DEF Rename, DataOf, IInv, TypeOK, WholeFiles
  <2>2. fallbacks' = fallbacks \cup {value}
    BY <1>3 DEF Rename
  <2>3. call' = [call EXCEPT ![w] = "done"] /\ call[w] = "writing"
    BY <1>3, CallMoves DEF IInv, Rename, CallOf, PC, Calls
  <2> QED
    BY <1>3, <2>1, <2>2, <2>3 DEF Rename, Register!Commit, Register!Next
<1>4. CASE Fail(w)
  <2>1. call' = [call EXCEPT ![w] = "failed"] /\ call[w] = "writing"
    BY <1>4, CallMoves DEF IInv, Fail, CallOf, PC, Calls
  <2> QED
    BY <1>4, <2>1, FileUnchanged DEF Fail, Register!Fail, Register!Next
<1>5. CASE Return(w)
  <2>1. call' = [call EXCEPT ![w] = "idle"] /\ call[w] \in {"done", "failed"}
    BY <1>5, CallMoves DEF IInv, Return, CallOf, PC, Calls
  <2> QED
    BY <1>5, <2>1, FileUnchanged DEF Return, Register!Return, Register!Next
<1> QED
  BY <1>1, <1>2, <1>3, <1>4, <1>5 DEF Step

LEMMA AllIdle ==
  ASSUME pc' = [w \in Writer |-> "idle"] PROVE call' = [w \in Writer |-> "idle"]
BY DEF call, CallOf, Calls

LEMMA SurroundingsMap ==
  ASSUME IInv,
         (\E m \in Mode : UserChmod(m)) \/ Crash \/ Flush \/ PowerLoss
  PROVE  [Register!Next]_(Register!vars)
<1> USE DEF value, fallbacks, call
<1>1. CASE \E m \in Mode : UserChmod(m)
  <2>1. value' = value
    BY <1>1, FileAssumption DEF UserChmod, DataOf, IInv, TypeOK, File
  <2> QED
    BY <1>1, <2>1 DEF UserChmod, Register!vars
<1>2. CASE Crash
  <2>1. call' = [w \in Writer |-> "idle"]
    BY <1>2, AllIdle DEF Crash
  <2> QED
    BY <1>2, <2>1, FileUnchanged DEF Crash, Register!Crash, Register!Next
<1>3. CASE Flush
  <2>1. value' = value
    BY <1>3, FileAssumption DEF Flush, DataOf, IInv, TypeOK, File
  <2>2. fallbacks' = {}
    BY <1>3 DEF Flush
  <2> QED
    BY <1>3, <2>1, <2>2 DEF Flush, Register!Flush, Register!Next
<1>4. CASE PowerLoss
  <2>1. value' \in {value} \cup fallbacks
    BY <1>4, PowerLossPicks
  <2>2. fallbacks' = {}
    BY <1>4 DEF PowerLoss
  <2>3. call' = [w \in Writer |-> "idle"]
    BY <1>4, AllIdle DEF PowerLoss
  <2> QED
    BY <1>4, <2>1, <2>2, <2>3 DEF PowerLoss, Register!PowerLoss, Register!Next
<1> QED
  BY <1>1, <1>2, <1>3, <1>4

\* WriteFileAtomic implements a register: a write reported done took effect
\* at one moment, a failed one never did, and readers find whole versions.
THEOREM WriterImplementsRegister == Spec => ImplementsAtomicFile
<1>1. IInv /\ [Next]_vars => [Register!Next]_(Register!vars)
  <2> SUFFICES ASSUME IInv, [Next]_vars PROVE [Register!Next]_(Register!vars)
    OBVIOUS
  <2>1. CASE UNCHANGED vars
    BY <2>1 DEF vars, Register!vars
  <2>2. CASE Next
    BY <2>2, WriterMaps, SurroundingsMap DEF Next
  <2> QED
    BY <2>1, <2>2
<1> QED
  BY <1>1, InitMaps, Invariant, PTL DEF Spec, ImplementsAtomicFile, Register!Spec
===============================================================================
