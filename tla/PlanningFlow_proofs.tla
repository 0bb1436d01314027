------------------------ MODULE PlanningFlow_proofs ------------------------
(***************************************************************************)
(* That a feature's packets are made once and that nobody plans behind      *)
(* another's back, for any features and any number of planning tasks.       *)
(*                                                                          *)
(* The two need each other: an approval makes packets of a feature that is  *)
(* not queued, which the approving task knows because its row still says    *)
(* what it wrote there, and that is PlannerIsAlone.                         *)
(***************************************************************************)
EXTENDS PlanningFlow, TLAPS

Row == [status : Status, plan : Verdict, made : Nat]
TaskRecord == [feature : Feature, kind : Kind, handled : BOOLEAN,
               at : {"start", "context", "architect", "repair", "ended"},
               tries : 0 .. MaxRepairs]

\* What MaterializedOnce says of one row.
MadeOnce(r) == r.made = IF r.status = "queued" THEN 1 ELSE 0

\* What a live task's place says of its row's status.
StatusAt(at) == IF at = "repair" THEN "PLAN_FAILED" ELSE "PLANNING"

PInv == PTypeOK /\ MaterializedOnce /\ PlannerIsAlone

Unplanned(f) == \A t \in Task : Of(t) = f => At(t) = "ended"

-----------------------------------------------------------------------------
(* A row that nobody plans may be rewritten.                                *)
LEMMA RowKeeps ==
    ASSUME PInv, NEW f \in Feature, Unplanned(f), NEW r \in Row, MadeOnce(r),
           row' = [row EXCEPT ![f] = r], auto' \in [Feature -> BOOLEAN],
           tasks' = tasks, lost' = lost
    PROVE  PInv'
<1>1. PTypeOK'
  BY DEF PInv, PTypeOK, Row
<1>2. MaterializedOnce'
  BY DEF PInv, PTypeOK, MaterializedOnce, MadeOnce
<1>3. PlannerIsAlone'
  BY DEF PInv, PTypeOK, PlannerIsAlone, Unplanned, Task, At, Of
<1> QED BY <1>1, <1>2, <1>3 DEF PInv

(* A row that nobody plans may get a planner.                               *)
LEMMA NewTaskKeeps ==
    ASSUME PInv, NEW f \in Feature, Unplanned(f),
           NEW r \in Row, MadeOnce(r), r.status = "PLANNING",
           NEW kind \in Kind, NEW handled \in BOOLEAN, NewTask(f, kind, handled),
           row' = [row EXCEPT ![f] = r], auto' \in [Feature -> BOOLEAN], lost' = lost
    PROVE  PInv'
<1> DEFINE k == [feature |-> f, kind |-> kind, handled |-> handled,
                 at |-> "start", tries |-> 0]
<1>1. k \in TaskRecord /\ tasks' = Append(tasks, k) /\ Len(tasks) < MaxTasks
  BY PlanningAssumption DEF NewTask, TaskRecord
<1>2. tasks \in Seq(TaskRecord)
  BY DEF PInv, PTypeOK, TaskRecord
<1>3. k.feature = f /\ k.at = "start"
  OBVIOUS
<1> HIDE DEF k
<1>4. /\ tasks' \in Seq(TaskRecord) /\ Len(tasks') = Len(tasks) + 1
      /\ DOMAIN tasks' = DOMAIN tasks \cup {Len(tasks) + 1}
      /\ \A t \in DOMAIN tasks : tasks'[t] = tasks[t]
      /\ tasks'[Len(tasks) + 1] = k
  BY <1>1, <1>2
<1>5. PTypeOK'
  <2>1. row' \in [Feature -> Row]
    BY DEF PInv, PTypeOK, Row
  <2>2. Len(tasks') <= MaxTasks
    <3>1. Len(tasks) \in Nat
      BY <1>2
    <3> QED BY <3>1, <1>1, <1>4, PlanningAssumption
  <2>3. lost' \subseteq Feature
    BY DEF PInv, PTypeOK
  <2> QED BY <2>1, <2>2, <2>3, <1>4 DEF PTypeOK, TaskRecord, Row
<1>6. MaterializedOnce'
  BY DEF PInv, PTypeOK, MaterializedOnce, MadeOnce
<1>7. PlannerIsAlone'
  BY <1>3, <1>4 DEF PInv, PTypeOK, PlannerIsAlone, Unplanned, Task, At, Of
<1> QED BY <1>5, <1>6, <1>7 DEF PInv

(* A live task may move on and rewrite its row, if the row says where it is *)
(* or the task has ended.                                                   *)
LEMMA TaskKeeps ==
    ASSUME PInv, NEW t \in Task, At(t) # "ended",
           NEW k \in TaskRecord, k.feature = Of(t), NEW r \in Row, MadeOnce(r),
           k.at = "ended" \/ r.status = StatusAt(k.at),
           tasks' = [tasks EXCEPT ![t] = k], row' = [row EXCEPT ![Of(t)] = r],
           auto' = auto, lost' \subseteq Feature
    PROVE  PInv'
<1>2. tasks \in Seq(TaskRecord) /\ Len(tasks) <= MaxTasks
  BY DEF PInv, PTypeOK, TaskRecord
<1>4. /\ tasks' \in Seq(TaskRecord) /\ Len(tasks') = Len(tasks)
      /\ DOMAIN tasks' = DOMAIN tasks /\ tasks'[t] = k
      /\ \A u \in DOMAIN tasks : u # t => tasks'[u] = tasks[u]
  BY <1>2 DEF Task
<1>5. PTypeOK'
  <2>1. Of(t) \in Feature
    BY <1>2 DEF Task, Of, TaskRecord
  <2>2. row' \in [Feature -> Row]
    BY <2>1 DEF PInv, PTypeOK, Row
  <2>3. auto' \in [Feature -> BOOLEAN] /\ Len(tasks') <= MaxTasks
    BY <1>2, <1>4 DEF PInv, PTypeOK
  <2> QED BY <2>2, <2>3, <1>4 DEF PTypeOK, TaskRecord, Row
<1>6. MaterializedOnce'
  BY DEF PInv, PTypeOK, MaterializedOnce, MadeOnce
<1>7. PlannerIsAlone'
  <2>1. \A u \in Task : u # t /\ At(u) # "ended" => Of(u) # Of(t)
    BY DEF PInv, PlannerIsAlone
  <2>2. Of(t) \in Feature /\ \A u \in Task : Of(u) \in Feature
    <3>1. \A u \in Task : tasks[u] \in TaskRecord
      BY <1>2 DEF Task
    <3> QED BY <3>1 DEF Of, TaskRecord
  <2>3. row'[Of(t)] = r /\ \A f \in Feature : f # Of(t) => row'[f] = row[f]
    BY <2>2 DEF PInv, PTypeOK
  <2> SUFFICES ASSUME NEW u \in Task', At(u)' # "ended"
               PROVE  /\ row'[Of(u)'] = row'[tasks'[u].feature]
                      /\ row'[Of(u)'].status = StatusAt(At(u)')
                      /\ \A v \in Task' : At(v)' # "ended" /\ Of(v)' = Of(u)' => v = u
    BY DEF PlannerIsAlone, StatusAt, At, Of, Task
  <2> QED BY <1>4, <2>1, <2>2, <2>3 DEF PInv, PlannerIsAlone, StatusAt, At, Of, Task
<1> QED BY <1>5, <1>6, <1>7 DEF PInv

(* What the code between two questions does to a row without packets.       *)
LEMMA PlanKept ==
    ASSUME NEW r \in Row, r.made = 0, NEW answer \in Verdict \cup {"failed"}
    PROVE  /\ Finalized(r, answer) \in Row
           /\ Finalized(r, answer).made = 0
           /\ Finalized(r, answer).status \in {"PLAN_READY", "PLAN_FAILED"}
           /\ answer # "failed" => Finalized(r, answer).plan = answer
  BY DEF Finalized, Row, Verdict, Status

LEMMA ApprovedOnce ==
    ASSUME NEW r \in Row, r.made = 0
    PROVE  /\ Approved(r) \in Row
           /\ MadeOnce(Approved(r))
           /\ ~Compiles(r.plan) => Approved(r).status = "PLAN_FAILED"
<1>1. CASE Compiles(r.plan)
  <2>1. PICK a : a = [r EXCEPT !.status = "queued", !.made = 1]
    OBVIOUS
  <2>2. a \in Row /\ a.status = "queued" /\ a.made = 1
    BY <2>1 DEF Row, Status
  <2>3. r.made + 1 = 1
    OBVIOUS
  <2>4. Approved(r) = a
    BY <1>1, <2>1, <2>3 DEF Approved
  <2> QED BY <1>1, <2>2, <2>4 DEF MadeOnce
<1>2. CASE ~Compiles(r.plan)
  <2>1. PICK a : a = [r EXCEPT !.status = "PLAN_FAILED"]
    OBVIOUS
  <2>2. a \in Row /\ a.status = "PLAN_FAILED" /\ a.made = 0
    BY <2>1 DEF Row, Status
  <2>3. Approved(r) = a
    BY <1>2, <2>1 DEF Approved
  <2> QED BY <2>2, <2>3 DEF MadeOnce
<1> QED BY <1>1, <1>2

LEMMA StatusSet ==
    ASSUME NEW r \in Row, r.made = 0, NEW s \in {"PLANNING", "PLAN_READY", "PLAN_FAILED"}
    PROVE  /\ [r EXCEPT !.status = s] \in Row
           /\ [r EXCEPT !.status = s].status = s
           /\ [r EXCEPT !.status = s].made = 0
  BY DEF Row, Status

LEMMA NoneMade ==
    ASSUME NEW r \in Row, r.made = 0, r.status # "queued"
    PROVE  MadeOnce(r)
  BY DEF MadeOnce

LEMMA RowTyped ==
    ASSUME PInv, NEW f \in Feature
    PROVE  row[f] \in Row /\ MadeOnce(row[f])
  BY DEF PInv, PTypeOK, MaterializedOnce, MadeOnce, Row

LEMMA LiveTask ==
    ASSUME PInv, NEW t \in Task, At(t) # "ended"
    PROVE  /\ Of(t) \in Feature /\ tasks[t] \in TaskRecord
           /\ row[Of(t)] \in Row /\ row[Of(t)].made = 0
           /\ row[Of(t)].status = StatusAt(At(t))
           /\ row[Of(t)].status # "queued"
<1>0. tasks \in Seq(TaskRecord)
  BY DEF PInv, PTypeOK, TaskRecord
<1>1. tasks[t] \in TaskRecord
  BY <1>0 DEF Task
<1>2. Of(t) \in Feature
  BY <1>1 DEF Of, TaskRecord
<1>3. row[Of(t)] \in Row /\ MadeOnce(row[Of(t)])
  BY <1>2, RowTyped
<1>4. row[Of(t)].status = StatusAt(At(t))
  BY DEF PInv, PlannerIsAlone, StatusAt
<1> QED BY <1>1, <1>2, <1>3, <1>4 DEF StatusAt, MadeOnce

-----------------------------------------------------------------------------
(* A task's last step may leave any row that has its packets at most once.  *)
LEMMA EndKeeps ==
    ASSUME PInv, NEW t \in Task, At(t) # "ended", Ends(t),
           NEW r \in Row, MadeOnce(r), Writes(t, r), auto' = auto, lost' \subseteq Feature
    PROVE  PInv'
<1>1. PICK k : k = [tasks[t] EXCEPT !.at = "ended"]
  OBVIOUS
<1>2. k \in TaskRecord /\ k.at = "ended" /\ k.feature = Of(t)
  BY <1>1, LiveTask DEF TaskRecord, Of
<1>3. tasks' = [tasks EXCEPT ![t] = k]
  BY <1>1 DEF Ends
<1>4. row' = [row EXCEPT ![Of(t)] = r]
  BY DEF Writes
<1> QED BY <1>2, <1>3, <1>4, TaskKeeps

LEMMA LostTyped ==
    ASSUME PInv PROVE lost \subseteq Feature
  BY DEF PInv, PTypeOK

LEMMA RaiseKeeps ==
    ASSUME PInv, NEW t \in Task, At(t) # "ended", Raise(t)
    PROVE  PInv'
<1>1. Ends(t) /\ auto' = auto
  BY DEF Raise
<1>2. CASE row' = row
  <2>1. PICK r : r = row[Of(t)]
    OBVIOUS
  <2>2. r \in Row /\ MadeOnce(r)
    BY <2>1, LiveTask, NoneMade
  <2>3. Writes(t, r)
    BY <1>2, <2>1, LiveTask DEF Writes, PInv, PTypeOK
  <2>4. lost' \subseteq Feature
    BY LiveTask, LostTyped DEF Raise
  <2> QED BY <1>1, <2>2, <2>3, <2>4, EndKeeps
<1>3. CASE row' # row
  <2>1. PICK r : r = [row[Of(t)] EXCEPT !.status = "PLAN_FAILED"]
    OBVIOUS
  <2>2. r \in Row /\ MadeOnce(r)
    BY <2>1, LiveTask, StatusSet, NoneMade
  <2>3. Writes(t, r) /\ lost' = lost
    BY <1>3, <2>1 DEF Raise
  <2> QED BY <1>1, <2>2, <2>3, LostTyped, EndKeeps
<1> QED BY <1>2, <1>3

(* A task moves on and leaves its row alone.                                *)
LEMMA MoveKeeps ==
    ASSUME PInv, NEW t \in Task, At(t) # "ended", NEW k \in TaskRecord,
           k.feature = Of(t), k.at # "ended", StatusAt(k.at) = StatusAt(At(t)),
           tasks' = [tasks EXCEPT ![t] = k], UNCHANGED <<row, auto, lost>>
    PROVE  PInv'
<1>1. PICK r : r = row[Of(t)]
  OBVIOUS
<1>2. r \in Row /\ MadeOnce(r) /\ r.status = StatusAt(k.at)
  BY <1>1, LiveTask, NoneMade
<1>3. row' = [row EXCEPT ![Of(t)] = r]
  BY <1>1, LiveTask DEF PInv, PTypeOK
<1> QED BY <1>2, <1>3, LostTyped, TaskKeeps

-----------------------------------------------------------------------------
LEMMA BeginKeeps ==
    ASSUME PInv, NEW t \in Task, Begin(t)
    PROVE  PInv'
<1>1. At(t) # "ended"
  BY DEF Begin
<1>2. CASE Raise(t)
  BY <1>1, <1>2, RaiseKeeps
<1>3. CASE ~Raise(t)
  <2>1. PICK k : k = [tasks[t] EXCEPT !.at = "context"]
    OBVIOUS
  <2>2. k \in TaskRecord /\ k.at = "context" /\ k.feature = Of(t)
    BY <1>1, <2>1, LiveTask DEF TaskRecord, Of
  <2>3. tasks' = [tasks EXCEPT ![t] = k] /\ UNCHANGED <<row, auto, lost>>
    BY <1>3, <2>1 DEF Begin
  <2>4. StatusAt(k.at) = StatusAt(At(t))
    BY <2>2 DEF StatusAt, Begin
  <2> QED BY <1>1, <2>2, <2>3, <2>4, MoveKeeps
<1> QED BY <1>2, <1>3

LEMMA ContextDoneKeeps ==
    ASSUME PInv, NEW t \in Task, ContextDone(t)
    PROVE  PInv'
<1>1. At(t) # "ended"
  BY DEF ContextDone
<1>2. CASE Raise(t)
  BY <1>1, <1>2, RaiseKeeps
<1>3. CASE ~Raise(t)
  <2>1. PICK k : k = [tasks[t] EXCEPT !.at = "architect"]
    OBVIOUS
  <2>2. k \in TaskRecord /\ k.at = "architect" /\ k.feature = Of(t)
    BY <1>1, <2>1, LiveTask DEF TaskRecord, Of
  <2>3. tasks' = [tasks EXCEPT ![t] = k] /\ UNCHANGED <<row, auto, lost>>
    BY <1>3, <2>1 DEF ContextDone
  <2>4. StatusAt(k.at) = StatusAt(At(t))
    BY <2>2 DEF StatusAt, ContextDone
  <2> QED BY <1>1, <2>2, <2>3, <2>4, MoveKeeps
<1> QED BY <1>2, <1>3

(* The plan is written, approved or not, and the task ends.                 *)
LEMMA PlanWrittenKeeps ==
    ASSUME PInv, NEW t \in Task, At(t) # "ended", Ends(t),
           NEW answer \in Verdict \cup {"failed"},
           \/ Writes(t, Finalized(row[Of(t)], answer))
           \/ Writes(t, Approved(Finalized(row[Of(t)], answer))),
           auto' = auto, lost' = lost
    PROVE  PInv'
<1>1. PICK r : r = Finalized(row[Of(t)], answer)
  OBVIOUS
<1>2. PICK a : a = Approved(r)
  OBVIOUS
<1>3. r \in Row /\ r.made = 0 /\ r.status # "queued"
  BY <1>1, LiveTask, PlanKept
<1>4. MadeOnce(r) /\ a \in Row /\ MadeOnce(a)
  BY <1>2, <1>3, NoneMade, ApprovedOnce
<1>5. CASE Writes(t, r)
  BY <1>3, <1>4, <1>5, LostTyped, EndKeeps
<1>6. CASE Writes(t, a)
  BY <1>4, <1>6, LostTyped, EndKeeps
<1> QED BY <1>1, <1>2, <1>5, <1>6

LEMMA AutofixKeeps ==
    ASSUME PInv, NEW t \in Task, At(t) = "architect",
           NEW fixed \in Verdict \ {"empty"}, Autofix(t, fixed), auto' = auto
    PROVE  PInv'
<1>1. At(t) # "ended" /\ lost' = lost
  BY DEF Autofix
<1>2. CASE fixed \in {"ok", "other"}
  <2>1. Ends(t)
    BY <1>2 DEF Autofix
  <2>2. \E answer \in Verdict : \/ Writes(t, Finalized(row[Of(t)], answer))
                                \/ Writes(t, Approved(Finalized(row[Of(t)], answer)))
    BY <1>2 DEF Autofix, Verdict
  <2> QED BY <1>1, <2>1, <2>2, PlanWrittenKeeps
<1>3. CASE fixed = "repairable"
  <2>1. PICK k : k = [tasks[t] EXCEPT !.at = "repair", !.tries = 1]
    OBVIOUS
  <2>2. PICK p : p = Finalized(row[Of(t)], "repairable")
    OBVIOUS
  <2>3. PICK r : r = Approved(p)
    OBVIOUS
  <2>4. k \in TaskRecord /\ k.at = "repair" /\ k.feature = Of(t)
    <3>1. 1 \in 0 .. MaxRepairs
      BY PlanningAssumption
    <3>2. tasks[t] \in TaskRecord
      BY <1>1, LiveTask
    <3> QED BY <2>1, <3>1, <3>2 DEF TaskRecord, Of
  <2>5. p \in Row /\ p.made = 0 /\ p.plan = "repairable"
    BY <1>1, <2>2, LiveTask, PlanKept DEF Verdict
  <2>6. r \in Row /\ MadeOnce(r) /\ r.status = "PLAN_FAILED"
    BY <2>3, <2>5, ApprovedOnce DEF Compiles
  <2>7. tasks' = [tasks EXCEPT ![t] = k] /\ row' = [row EXCEPT ![Of(t)] = r]
    BY <1>3, <2>1, <2>2, <2>3 DEF Autofix, Writes
  <2>8. r.status = StatusAt(k.at)
    BY <2>4, <2>6 DEF StatusAt
  <2> QED BY <1>1, <2>4, <2>6, <2>7, <2>8, LostTyped, TaskKeeps
<1> QED BY <1>2, <1>3 DEF Verdict, Autofix

LEMMA ArchitectDoneKeeps ==
    ASSUME PInv, NEW t \in Task, ArchitectDone(t)
    PROVE  PInv'
<1>1. At(t) = "architect" /\ At(t) # "ended" /\ auto' = auto
  BY DEF ArchitectDone
<1>2. CASE Raise(t)
  BY <1>1, <1>2, RaiseKeeps
<1>3. CASE ~Raise(t)
  <2>1. PICK answer \in Verdict \cup {"failed"} :
          \/ /\ \/ Writes(t, Finalized(row[Of(t)], answer))
                \/ Writes(t, Approved(Finalized(row[Of(t)], answer)))
             /\ Ends(t) /\ UNCHANGED lost
          \/ \E fixed \in Verdict \ {"empty"} : Autofix(t, fixed)
    BY <1>3 DEF ArchitectDone
  <2> QED BY <1>1, <2>1, PlanWrittenKeeps, AutofixKeeps
<1> QED BY <1>2, <1>3

LEMMA RepairAnsweredKeeps ==
    ASSUME PInv, NEW t \in Task, RepairAnswered(t)
    PROVE  PInv'
<1>1. At(t) = "repair" /\ At(t) # "ended"
  BY DEF RepairAnswered
<1>2. CASE Raise(t)
  BY <1>1, <1>2, RaiseKeeps
<1>3. CASE \E v \in {"ok", "empty"} :
             /\ Writes(t, Approved(Finalized(row[Of(t)], v)))
             /\ Ends(t) /\ UNCHANGED <<auto, lost>>
  BY <1>1, <1>3, PlanWrittenKeeps DEF Verdict
<1>4. CASE /\ ~Exhausted(t)
           /\ tasks' = [tasks EXCEPT ![t].tries = @ + 1]
           /\ UNCHANGED <<row, auto, lost>>
  <2>1. PICK k : k = [tasks[t] EXCEPT !.tries = @ + 1]
    OBVIOUS
  <2>2. tasks[t].tries + 1 \in 0 .. MaxRepairs
    BY <1>1, <1>4, LiveTask, PlanningAssumption DEF Exhausted, TaskRecord
  <2>3. k \in TaskRecord /\ k.at = At(t) /\ k.feature = Of(t)
    BY <1>1, <2>1, <2>2, LiveTask DEF TaskRecord, Of, At
  <2>4. tasks' = [tasks EXCEPT ![t] = k]
    BY <1>4, <2>1
  <2> QED BY <1>1, <1>4, <2>3, <2>4, MoveKeeps
<1>5. CASE /\ Writes(t, [row[Of(t)] EXCEPT !.status = "PLAN_READY"])
           /\ Ends(t) /\ UNCHANGED <<auto, lost>>
  <2>1. PICK r : r = [row[Of(t)] EXCEPT !.status = "PLAN_READY"]
    OBVIOUS
  <2>2. r \in Row /\ MadeOnce(r)
    BY <1>1, <2>1, LiveTask, StatusSet, NoneMade
  <2> QED BY <1>1, <1>5, <2>1, <2>2, LostTyped, EndKeeps
<1> QED BY <1>2, <1>3, <1>4, <1>5 DEF RepairAnswered

-----------------------------------------------------------------------------
(* Only PLANNING features have a task, and PLAN_FAILED ones while somebody  *)
(* repairs their plan, which keeps every request from writing.              *)
LEMMA RestingIsUnplanned ==
    ASSUME PInv, NEW f \in Feature, ~WriteLocked(0), row[f].status # "PLANNING"
    PROVE  Unplanned(f)
<1> SUFFICES ASSUME NEW t \in Task, Of(t) = f, At(t) # "ended"
             PROVE  FALSE
  BY DEF Unplanned
<1>1. At(t) # "repair"
  <2>1. t # 0
    BY DEF PInv, PTypeOK, Task
  <2> QED BY <2>1 DEF WriteLocked
<1> QED BY <1>1, LiveTask DEF StatusAt

LEMMA SubmitKeeps ==
    ASSUME PInv, NEW f \in Feature, Submit(f)
    PROVE  PInv'
<1>1. PICK isAuto \in BOOLEAN, kind \in Kind, handled \in BOOLEAN :
        auto' = [auto EXCEPT ![f] = isAuto] /\ NewTask(f, kind, handled)
  BY DEF Submit
<1>3. PICK r : r = [row[f] EXCEPT !.status = "PLANNING"]
  OBVIOUS
<1>4. row[f] \in Row /\ row[f].made = 0
  BY RowTyped DEF Submit, MadeOnce
<1>5. r \in Row /\ MadeOnce(r) /\ r.status = "PLANNING"
  BY <1>3, <1>4, StatusSet, NoneMade
<1>6. Unplanned(f)
  BY RestingIsUnplanned DEF Submit
<1>7. /\ row' = [row EXCEPT ![f] = r] /\ lost' = lost
      /\ auto' \in [Feature -> BOOLEAN]
  BY <1>1, <1>3 DEF Submit, PInv, PTypeOK
<1> QED BY <1>1, <1>5, <1>6, <1>7, NewTaskKeeps

LEMMA SubmitWavesKeeps ==
    ASSUME PInv, NEW f \in Feature, SubmitWaves(f)
    PROVE  PInv'
<1>1. PICK isAuto \in BOOLEAN, v \in Verdict \ {"empty"} :
        /\ auto' = [auto EXCEPT ![f] = isAuto]
        /\ row' = [row EXCEPT ![f] = Approved(Finalized(row[f], v))]
  BY DEF SubmitWaves
<1>2. row[f] \in Row /\ row[f].made = 0
  BY RowTyped DEF SubmitWaves, MadeOnce
<1>3. PICK p : p = Finalized(row[f], v)
  OBVIOUS
<1>4. PICK r : r = Approved(p)
  OBVIOUS
<1>5. p \in Row /\ p.made = 0
  BY <1>2, <1>3, PlanKept
<1>6. r \in Row /\ MadeOnce(r)
  BY <1>4, <1>5, ApprovedOnce
<1>7. Unplanned(f)
  BY RestingIsUnplanned DEF SubmitWaves
<1>8. /\ row' = [row EXCEPT ![f] = r] /\ tasks' = tasks /\ lost' = lost
      /\ auto' \in [Feature -> BOOLEAN]
  BY <1>1, <1>3, <1>4 DEF SubmitWaves, PInv, PTypeOK
<1> QED BY <1>6, <1>7, <1>8, RowKeeps

LEMMA ApproveKeeps ==
    ASSUME PInv, NEW f \in Feature, Approve(f)
    PROVE  PInv'
<1>1. row[f] \in Row /\ row[f].made = 0
  BY RowTyped DEF Approve, MadeOnce
<1>2. PICK r : r = Approved(row[f])
  OBVIOUS
<1>3. r \in Row /\ MadeOnce(r)
  BY <1>1, <1>2, ApprovedOnce
<1>4. Unplanned(f)
  BY RestingIsUnplanned DEF Approve
<1>5. /\ row' = [row EXCEPT ![f] = r] /\ tasks' = tasks /\ lost' = lost
      /\ auto' \in [Feature -> BOOLEAN]
  BY <1>2 DEF Approve, PInv, PTypeOK
<1> QED BY <1>3, <1>4, <1>5, RowKeeps

LEMMA RegenerateKeeps ==
    ASSUME PInv, NEW f \in Feature, Regenerate(f)
    PROVE  PInv'
<1>1. row[f] \in Row /\ row[f].made = 0
  BY RowTyped DEF Regenerate, MadeOnce
<1>2. PICK r : r = [row[f] EXCEPT !.status = "PLANNING", !.plan = "empty"]
  OBVIOUS
<1>3. r \in Row /\ MadeOnce(r) /\ r.status = "PLANNING"
  BY <1>1, <1>2 DEF Row, Status, Verdict, MadeOnce
<1>4. Unplanned(f)
  BY RestingIsUnplanned DEF Regenerate
<1>5. PICK kind \in Kind : NewTask(f, kind, TRUE)
  BY DEF Regenerate, Kind
<1>6. /\ row' = [row EXCEPT ![f] = r] /\ lost' = lost
      /\ auto' \in [Feature -> BOOLEAN]
  BY <1>2 DEF Regenerate, PInv, PTypeOK
<1> QED BY <1>3, <1>4, <1>5, <1>6, NewTaskKeeps

LEMMA CrashKeeps ==
    ASSUME PInv, Crash
    PROVE  PInv'
<1>1. tasks \in Seq(TaskRecord) /\ Len(tasks) <= MaxTasks
  BY DEF PInv, PTypeOK, TaskRecord
<1>2. \A t \in Task : [tasks[t] EXCEPT !.at = "ended"] \in TaskRecord
  <2> SUFFICES ASSUME NEW t \in Task PROVE [tasks[t] EXCEPT !.at = "ended"] \in TaskRecord
    OBVIOUS
  <2>1. tasks[t] \in TaskRecord
    BY <1>1 DEF Task
  <2> QED BY <2>1 DEF TaskRecord
<1>3. tasks' = [t \in 1 .. Len(tasks) |-> [tasks[t] EXCEPT !.at = "ended"]]
  BY <1>1 DEF Crash, Task
<1>4. tasks' \in Seq(TaskRecord) /\ Len(tasks') = Len(tasks)
  BY <1>1, <1>2, <1>3 DEF Task
<1>5. \A t \in Task' : tasks'[t].at = "ended"
  <2> SUFFICES ASSUME NEW t \in Task' PROVE tasks'[t].at = "ended"
    OBVIOUS
  <2>1. t \in Task /\ tasks'[t] = [tasks[t] EXCEPT !.at = "ended"]
    BY <1>1, <1>3, <1>4 DEF Task
  <2>2. tasks[t] \in TaskRecord
    BY <1>1, <2>1 DEF Task
  <2> QED BY <2>1, <2>2 DEF TaskRecord
<1>6. PTypeOK'
  BY <1>1, <1>4 DEF PInv, PTypeOK, Crash, TaskRecord
<1>7. MaterializedOnce'
  BY DEF PInv, MaterializedOnce, Crash
<1>8. PlannerIsAlone'
  BY <1>5 DEF PlannerIsAlone, At
<1> QED BY <1>6, <1>7, <1>8 DEF PInv

LEMMA PInitEstablishes ==
    ASSUME PInit PROVE PInv
<1>1. PTypeOK
  BY PlanningAssumption DEF PInit, PTypeOK, NoRow, Status, Verdict
<1>2. MaterializedOnce
  BY DEF PInit, MaterializedOnce, NoRow
<1>3. PlannerIsAlone
  BY DEF PInit, PlannerIsAlone, Task
<1> QED BY <1>1, <1>2, <1>3 DEF PInv

LEMMA PNextKeeps ==
    ASSUME PInv, [PNext]_pvars PROVE PInv'
<1>1. ASSUME NEW f \in Feature, Submit(f) PROVE PInv'
  BY <1>1, SubmitKeeps
<1>2. ASSUME NEW f \in Feature, SubmitWaves(f) PROVE PInv'
  BY <1>2, SubmitWavesKeeps
<1>3. ASSUME NEW f \in Feature, Approve(f) PROVE PInv'
  BY <1>3, ApproveKeeps
<1>4. ASSUME NEW f \in Feature, Regenerate(f) PROVE PInv'
  BY <1>4, RegenerateKeeps
<1>5. ASSUME NEW t \in Task, Step(t) PROVE PInv'
  BY <1>5, BeginKeeps, ContextDoneKeeps, ArchitectDoneKeeps, RepairAnsweredKeeps DEF Step
<1>6. CASE Crash
  BY <1>6, CrashKeeps
<1>7. CASE UNCHANGED pvars
  BY <1>7 DEF pvars, PInv, PTypeOK, MaterializedOnce, PlannerIsAlone, Task, At, Of
<1> QED BY <1>1, <1>2, <1>3, <1>4, <1>5, <1>6, <1>7 DEF PNext

(* Rows, packets and tasks fit together in every state of the planning.     *)
THEOREM PlanningInvariant == PSpec => []PInv
  BY PInitEstablishes, PNextKeeps, PTL DEF PSpec

(* Rows and tasks have their types; in particular no repair asks more often *)
(* than max_repair_attempts.                                                *)
THEOREM PlanningTyped == PSpec => []PTypeOK
  BY PlanningInvariant, PTL DEF PInv

(* However approvals, regenerations, repairs and crashes overlap, a queued  *)
(* feature's packets were made once and no other feature has any.           *)
THEOREM PacketsMadeOnce == PSpec => []MaterializedOnce
  BY PlanningInvariant, PTL DEF PInv

(* A feature has one live planning task at most, whose writes therefore     *)
(* find the row as the task left it.                                        *)
THEOREM PlannersAlone == PSpec => []PlannerIsAlone
  BY PlanningInvariant, PTL DEF PInv
=============================================================================
