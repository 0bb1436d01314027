---------------------------- MODULE PlanningFlow ----------------------------
(***************************************************************************)
(* How a feature gets its plan and its packets: api/routers/features.py and *)
(* architect.py, services/feature_intake_service.py, context_builder_stage, *)
(* architect_stage, planning_approval_service and planning_repair_service.  *)
(*                                                                          *)
(* Everything runs in the API's event loop, and code that touches the       *)
(* database does not suspend except while a language model is asked: for    *)
(* the context, for the plan, and for the repair of a plan the compiler     *)
(* rejected.  The repair asks with an uncommitted change in its session, so *)
(* SQLite refuses everybody else's writes meanwhile.                        *)
(*                                                                          *)
(* A plan is what the compiler says about it.                               *)
(***************************************************************************)
EXTENDS Integers, Sequences

CONSTANTS
    Feature,    \* the features that may be submitted
    MaxRepairs, \* max_repair_attempts of try_approve_or_repair_plan
    MaxTasks    \* bound: planning tasks ever started

ASSUME PlanningAssumption == MaxRepairs \in Nat \ {0} /\ MaxTasks \in Nat

\* No waves; no errors; errors that are all repairable; anything else.
Verdict == {"empty", "ok", "repairable", "other"}
Status == {"none", "PLANNING", "PLAN_READY", "PLAN_FAILED", "queued"}
Kind == {"repair", "approve", "manual"}

VARIABLES
    row,   \* the committed row: status, plan, how often packets were made of it
    auto,  \* spec_json["approval_mode"] = "auto"
    tasks, \* every planning task: its feature, where it is, what it does at the end
    lost   \* PLANNING features whose task went away without a word (history)

pvars == <<row, auto, tasks, lost>>

NoRow == [status |-> "none", plan |-> "empty", made |-> 0]

PTypeOK ==
    /\ row \in [Feature -> [status : Status, plan : Verdict, made : Nat]]
    /\ auto \in [Feature -> BOOLEAN]
    /\ tasks \in Seq([feature : Feature, kind : Kind, handled : BOOLEAN,
                      at : {"start", "context", "architect", "repair", "ended"},
                      tries : 0 .. MaxRepairs])
    /\ Len(tasks) <= MaxTasks
    /\ lost \subseteq Feature

PInit ==
    /\ row = [f \in Feature |-> NoRow]
    /\ auto = [f \in Feature |-> TRUE]
    /\ tasks = <<>>
    /\ lost = {}

-----------------------------------------------------------------------------
Task == DOMAIN tasks
At(t) == tasks[t].at
Of(t) == tasks[t].feature

(* Altered form of WriteLocked: committed before the language model is      *)
(* asked.                                                                   *)
AlteredWriteLocked(t) == FALSE

(* Another task has flushed a change and waits for the repaired plan: a     *)
(* write of t, or of a request (t = 0), ends in "database is locked".       *)
WriteLocked(t) == \E u \in Task : u # t /\ At(u) = "repair"

Compiles(v) == v \in {"empty", "ok"}

(* approve_plan of a PLAN_READY feature.                                    *)
Approved(r) ==
    IF Compiles(r.plan) THEN [r EXCEPT !.status = "queued", !.made = @ + 1]
                        ELSE [r EXCEPT !.status = "PLAN_FAILED"]

(* finalize_plan; a failed Architect leaves the fallback plan, which has no *)
(* waves.                                                                   *)
Finalized(r, answer) ==
    IF answer = "failed" THEN [r EXCEPT !.status = "PLAN_FAILED", !.plan = "empty"]
                         ELSE [r EXCEPT !.status = "PLAN_READY", !.plan = answer]

Ends(t) == tasks' = [tasks EXCEPT ![t].at = "ended"]
Writes(t, r) == row' = [row EXCEPT ![Of(t)] = r]

(* Altered form of Raise: the background task logs the error only.          *)
AlteredRaise(t) == Ends(t) /\ UNCHANGED <<row, auto, lost>>

(* An exception leaves the planning code.  A background task writes         *)
(* PLAN_FAILED from its handler if it can; a planning request that runs in  *)
(* its caller's request has no handler.                                     *)
Raise(t) ==
    /\ Ends(t)
    /\ UNCHANGED auto
    /\ \/ /\ tasks[t].handled /\ ~WriteLocked(t)
          /\ Writes(t, [row[Of(t)] EXCEPT !.status = "PLAN_FAILED"])
          /\ UNCHANGED lost
       \/ /\ ~tasks[t].handled \/ WriteLocked(t)
          /\ lost' = IF row[Of(t)].status = "PLANNING" THEN lost \cup {Of(t)} ELSE lost
          /\ UNCHANGED row

-----------------------------------------------------------------------------
NewTask(f, kind, handled) ==
    /\ Len(tasks) < MaxTasks
    /\ tasks' = Append(tasks, [feature |-> f, kind |-> kind, handled |-> handled,
                               at |-> "start", tries |-> 0])

(* What follows a feature's plan, by entry point: a draft plan and an       *)
(* auto_queue request of /features, a plan request of /architect in the     *)
(* background or in the request.                                            *)
Route(isAuto, kind, handled) ==
    \/ kind = "repair" /\ isAuto /\ handled
    \/ kind = "approve" /\ (isAuto \/ ~handled)
    \/ kind = "manual" /\ ~isAuto

Submit(f) ==
    /\ row[f].status = "none" /\ ~WriteLocked(0)
    /\ \E isAuto \in BOOLEAN, kind \in Kind, handled \in BOOLEAN :
          /\ Route(isAuto, kind, handled)
          /\ auto' = [auto EXCEPT ![f] = isAuto]
          /\ NewTask(f, kind, handled)
    /\ row' = [row EXCEPT ![f].status = "PLANNING"]
    /\ UNCHANGED lost

(* /architect with the waves given: submitted and approved in one step.     *)
SubmitWaves(f) ==
    /\ row[f].status = "none" /\ ~WriteLocked(0)
    /\ \E isAuto \in BOOLEAN, v \in Verdict \ {"empty"} :
          /\ auto' = [auto EXCEPT ![f] = isAuto]
          /\ row' = [row EXCEPT ![f] = Approved(Finalized(@, v))]
    /\ UNCHANGED <<tasks, lost>>

(* The operator's approval, whatever the approval mode.                     *)
Approve(f) ==
    /\ row[f].status = "PLAN_READY" /\ ~WriteLocked(0)
    /\ row' = [row EXCEPT ![f] = Approved(@)]
    /\ UNCHANGED <<auto, tasks, lost>>

(* Altered form of Regenerate: a queued feature may be planned anew.        *)
AlteredRegenerate(f) ==
    /\ row[f].status \notin {"none", "PLANNING"} /\ ~WriteLocked(0)
    /\ row' = [row EXCEPT ![f].status = "PLANNING", ![f].plan = "empty"]
    /\ NewTask(f, IF auto[f] THEN "approve" ELSE "manual", TRUE)
    /\ UNCHANGED <<auto, lost>>

Regenerate(f) ==
    /\ row[f].status \in {"PLAN_READY", "PLAN_FAILED"} /\ ~WriteLocked(0)
    /\ row' = [row EXCEPT ![f].status = "PLANNING", ![f].plan = "empty"]
    /\ NewTask(f, IF auto[f] THEN "approve" ELSE "manual", TRUE)
    /\ UNCHANGED <<auto, lost>>

-----------------------------------------------------------------------------
(* A task's first write, and its question for the context.                  *)
Begin(t) ==
    /\ At(t) = "start"
    /\ \/ WriteLocked(t) /\ Raise(t)
       \/ /\ ~WriteLocked(t)
          /\ tasks' = [tasks EXCEPT ![t].at = "context"]
          /\ UNCHANGED <<row, auto, lost>>

(* The context is written and the Architect asked, in one step.  Any error  *)
(* of the context builder gives a fallback context, unless its agent        *)
(* changed the workspace.                                                   *)
ContextDone(t) ==
    /\ At(t) = "context"
    /\ \/ Raise(t) \* mutated, or locked
       \/ /\ ~WriteLocked(t)
          /\ tasks' = [tasks EXCEPT ![t].at = "architect"]
          /\ UNCHANGED <<row, auto, lost>>

(* What try_approve_or_repair_plan makes of a plan with repairable errors   *)
(* before it asks: the rejection is committed, and up to three passes of    *)
(* fixes leave a plan that compiles, one past repair, or one to ask about.  *)
Autofix(t, fixed) ==
    /\ UNCHANGED lost
    /\ \/ /\ fixed = "ok"
          /\ Writes(t, Approved(Finalized(row[Of(t)], "ok")))
          /\ Ends(t)
       \/ /\ fixed = "other"
          /\ Writes(t, Finalized(row[Of(t)], "repairable"))
          /\ Ends(t)
       \/ /\ fixed = "repairable"
          /\ Writes(t, Approved(Finalized(row[Of(t)], "repairable")))
          /\ tasks' = [tasks EXCEPT ![t].at = "repair", ![t].tries = 1]

(* The Architect's answer, or its second failure; the plan is written and,  *)
(* with no suspension in between, approved if the route says so.            *)
ArchitectDone(t) ==
    /\ At(t) = "architect"
    /\ UNCHANGED auto
    /\ \/ WriteLocked(t) /\ Raise(t)
       \/ /\ ~WriteLocked(t)
          /\ \E answer \in Verdict \cup {"failed"} :
                LET r == Finalized(row[Of(t)], answer)
                IN  \/ /\ tasks[t].kind = "manual" \/ answer = "failed"
                       /\ Writes(t, r) /\ Ends(t) /\ UNCHANGED lost
                    \/ /\ tasks[t].kind # "manual" /\ answer # "failed"
                       /\ tasks[t].kind = "approve" \/ answer # "repairable"
                       /\ Writes(t, Approved(r)) /\ Ends(t) /\ UNCHANGED lost
                    \/ /\ tasks[t].kind = "repair" /\ answer = "repairable"
                       /\ \E fixed \in Verdict \ {"empty"} : Autofix(t, fixed)

(* Altered form of Exhausted: one attempt too many.                         *)
AlteredExhausted(t) == tasks[t].tries > MaxRepairs

Exhausted(t) == tasks[t].tries >= MaxRepairs

(* The model's answer to a repair request.  A plan that compiles is         *)
(* approved.  Without one the attempt is repeated or given up, and giving   *)
(* up commits what the session still holds: PLAN_READY, with the rejected   *)
(* plan.  An exception of the runner rolls that back.                       *)
RepairAnswered(t) ==
    /\ At(t) = "repair"
    /\ \/ \E v \in {"ok", "empty"} :
             /\ Writes(t, Approved(Finalized(row[Of(t)], v)))
             /\ Ends(t) /\ UNCHANGED <<auto, lost>>
       \/ /\ ~Exhausted(t)
          /\ tasks' = [tasks EXCEPT ![t].tries = @ + 1]
          /\ UNCHANGED <<row, auto, lost>>
       \/ /\ Writes(t, [row[Of(t)] EXCEPT !.status = "PLAN_READY"])
          /\ Ends(t) /\ UNCHANGED <<auto, lost>>
       \/ Raise(t)

(* The API process dies: its tasks and uncommitted changes are gone, and    *)
(* nothing resumes them.                                                    *)
Crash ==
    /\ \E t \in Task : At(t) # "ended"
    /\ tasks' = [t \in Task |-> [tasks[t] EXCEPT !.at = "ended"]]
    /\ lost' = lost \cup {f \in Feature : row[f].status = "PLANNING"}
    /\ UNCHANGED <<row, auto>>

Step(t) == Begin(t) \/ ContextDone(t) \/ ArchitectDone(t) \/ RepairAnswered(t)

PNext ==
    \/ \E f \in Feature : Submit(f) \/ SubmitWaves(f) \/ Approve(f) \/ Regenerate(f)
    \/ \E t \in Task : Step(t)
    \/ Crash

PSpec == PInit /\ [][PNext]_pvars

(* Agents are run with a time limit, so every question is answered.         *)
PLiveSpec == PSpec /\ \A t \in 1 .. MaxTasks : WF_pvars(t \in Task /\ Step(t))

-----------------------------------------------------------------------------
(* A feature's packets are made once, when it is queued, and never again,   *)
(* whatever approvals, regenerations and repairs overlap.                   *)
MaterializedOnce ==
    \A f \in Feature : row[f].made = IF row[f].status = "queued" THEN 1 ELSE 0

(* Nobody plans a feature behind another's back: it has one live task, and  *)
(* its row says so, PLANNING until the plan is there and PLAN_FAILED while  *)
(* it is being repaired.                                                    *)
PlannerIsAlone ==
    \A t \in Task : At(t) # "ended" =>
        /\ row[Of(t)].status = IF At(t) = "repair" THEN "PLAN_FAILED" ELSE "PLANNING"
        /\ \A u \in Task : At(u) # "ended" /\ Of(u) = Of(t) => u = t

(* Planning comes to an end, unless the process died, the request that      *)
(* planned had no handler, or the handler found the database locked.        *)
PlanningEnds ==
    \A f \in Feature :
        row[f].status = "PLANNING" ~> (row[f].status # "PLANNING" \/ f \in lost)
=============================================================================
