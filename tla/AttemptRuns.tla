----------------------------- MODULE AttemptRuns -----------------------------
(***************************************************************************)
(* The attempts at one packet, from the claim to the verdict.  An executor  *)
(* (adapters/packet_executor.py) runs in a worker process per attempt: it    *)
(* writes its packet_runs row, runs the coding agent in a worktree, sends    *)
(* the result through the scope check, the acceptance pipeline, the evidence *)
(* verifier and the reviewer, writes the verdict into the row, and answers   *)
(* the worker, which releases the packet.  A packet can be reclaimed while   *)
(* its executor goes on, so executors of several attempts overlap; rows,     *)
(* worktrees and the packet are shared.  Operators retry, cancel, and ask    *)
(* for a stage to be rerun on the work of an earlier attempt; the recovery   *)
(* controller reopens or ends what a worker released as blocked.             *)
(*                                                                          *)
(* Leases are PacketLease's: here a packet has the attempt that owns it.    *)
(* The replacements a rework verdict creates are FeatureFlow's.              *)
(***************************************************************************)
EXTENDS PacketStates, Naturals, FiniteSets

CONSTANTS
    MaxAttempt,     \* bound: the attempt numbers explored
    Budget,         \* Packet.max_attempts as planned
    Fast,           \* the packet's acceptance profile is FAST
    KeepFailed,     \* dev_keep_failed_worktrees
    Recovery,       \* the recovery controller is enabled
    CoderAttempts   \* RecoveryPolicy.max_total_coder_attempts

ASSUME ConstantsOK ==
    /\ MaxAttempt \in Nat /\ Budget \in Nat /\ CoderAttempts \in Nat
    /\ {Fast, KeepFailed, Recovery} \subseteq BOOLEAN

VARIABLES
    state,      \* Packet.state
    count,      \* Packet.attempt_count
    budget,     \* Packet.max_attempts; zero is unlimited
    marker,     \* spec_json["rerun_stage"], or ""
    owner,      \* the attempt that holds the lease, or whose result was accepted
    exec,       \* the executor and worker of each attempt
    row,        \* the packet_runs row of each attempt
    tree,       \* attempts whose worktree is on disk
    passed      \* the gates the work of an attempt has passed (history); an
                \* attempt that does not end accepted leaves none

avars == <<state, count, budget, marker, owner, exec, row, tree, passed>>

Attempt == 1..MaxAttempt
Rerunnable == {"verifier", "reviewer"}
Verdict == {"PASS", "REWORK_TO_CODER", "RETURN_TO_ARCHITECT"}
Rework == "REWORK_TO_CODER"    \* also the verdict of a skipped gate's report
Return == "RETURN_TO_ARCHITECT"

CoderStages == {"agent", "inspect", "acceptance", "verify", "review"}
Stages == CoderStages \cup {"prepare", "rerun", "reverify", "rereview"}
Gates == {"acceptance", "verifier", "reviewer"}
Answers == {"", "accepted", "rejected", "scope", "blocked", "timeout", "error"}
Decisions == {"retry", "architect", "block"}

(* work: the attempt whose worktree the row's legacy_result names, or zero.  *)
NoRow == [status |-> "none", report |-> FALSE, evidence |-> FALSE,
          base |-> FALSE, work |-> 0, ev |-> "", rv |-> ""]
Idle == [at |-> "idle", told |-> "", max |-> 0, work |-> 0, ev |-> "",
         answer |-> ""]

ExecRecord ==
    [at : Stages \cup {"idle", "begin", "return", "merge", "retry", "recover",
                       "apply", "gone"},
     told : Rerunnable \cup {""}, max : Nat, work : 0..MaxAttempt,
     ev : Verdict \cup {""}, answer : Answers \cup Decisions]

RunRow ==
    [status : {"none", "running", "accepted", "rejected", "blocked",
               "blocked_recoverable", "failed"},
     report : BOOLEAN, evidence : BOOLEAN, base : BOOLEAN,
     work : 0..MaxAttempt, ev : Verdict \cup {""}, rv : Verdict \cup {""}]

(* The state is well formed: an attempt that was never claimed has neither   *)
(* executor nor row, so that no number is given twice, and reopening keeps   *)
(* the budget within what the attempts call for.                             *)
ATypeOK ==
    /\ state \in PacketState
    /\ count \in 0..MaxAttempt
    /\ budget \in 0..(Budget + MaxAttempt + 1)
    /\ marker \in Rerunnable \cup {""}
    /\ owner \in 0..MaxAttempt
    /\ exec \in [Attempt -> ExecRecord]
    /\ row \in [Attempt -> RunRow]
    /\ tree \subseteq Attempt
    /\ passed \in [Attempt -> SUBSET Gates]
    /\ \A a \in Attempt : a > count => exec[a] = Idle /\ row[a] = NoRow

AInit ==
    /\ state = READY /\ count = 0 /\ budget = Budget /\ marker = "" /\ owner = 0
    /\ exec = [a \in Attempt |-> Idle]
    /\ row = [a \in Attempt |-> NoRow]
    /\ tree = {}
    /\ passed = [a \in Attempt |-> {}]

-----------------------------------------------------------------------------
(* The executor. *)
packet == <<state, count, budget, owner>>

At(a, stage) == exec[a].at = stage

Goes(a, stage) == exec' = [exec EXCEPT ![a].at = stage]

Answer(a, answer) ==
    exec' = [exec EXCEPT ![a].at = "return", ![a].answer = answer, ![a].ev = ""]

Fails(a, answer) ==
    /\ Answer(a, answer)
    /\ passed' = [passed EXCEPT ![a] = {}]

(* The cycle is over; what the attempt judged is remembered. *)
Ends(a) ==
    exec' = [exec EXCEPT ![a] = [Idle EXCEPT !.at = "gone", !.work = exec[a].work]]

(* A claim hands the executor the packet's spec, marker and all.  The serial *)
(* queue offers READY packets; the number of an attempt is never used again. *)
Claim(a) ==
    /\ state = READY /\ a = count + 1
    /\ state' = RUNNING /\ count' = a /\ owner' = a
    /\ exec' = [exec EXCEPT ![a] = [Idle EXCEPT !.at = "begin",
                                                !.told = marker,
                                                !.max = budget]]
    /\ UNCHANGED <<budget, marker, row, tree, passed>>

(* Altered form of Begin: the attempt goes on when its row cannot be written. *)
AlteredBegin(a) ==
    /\ At(a, "begin")
    /\ \/ row' = [row EXCEPT ![a].status = "running"]
       \/ row' = row
    /\ Goes(a, "prepare")
    /\ UNCHANGED <<packet, marker, tree, passed>>

(* _load_packet_from_claim commits the row before anything else.  It may     *)
(* fail (a locked database), and so may what follows it outside the try.     *)
Begin(a) ==
    /\ At(a, "begin")
    /\ \/ row' = [row EXCEPT ![a].status = "running"] /\ Goes(a, "prepare")
       \/ row' = [row EXCEPT ![a].status = "running"] /\ Answer(a, "error")
       \/ row' = row /\ Answer(a, "error")
    /\ UNCHANGED <<packet, marker, tree, passed>>

(* EvidenceService.update_run_result swallows a failed write, and the row    *)
(* stays as it was.                                                         *)
Writes(a, new) == row' = [row EXCEPT ![a] = new] \/ row' = row

(* TerminalStateCleanup removes the attempt's worktree, or fails quietly. *)
CleansUp(a) ==
    \/ tree' = IF KeepFailed THEN tree ELSE tree \ {a}
    \/ tree' = tree

(* What a rejection answers: the worker takes a reason that mentions the     *)
(* scope, or a blocked verdict, for a scope violation.                       *)
Rejections == {"rejected", "scope"}

(* fast_reject: reports of skipped gates and no acceptance report. *)
FastReject(a) ==
    /\ Writes(a, [row[a] EXCEPT !.status = "rejected", !.report = FALSE,
                    !.evidence = FALSE, !.work = 0,
                    !.ev = Rework, !.rv = Rework])
    /\ CleansUp(a)
    /\ \E answer \in Rejections : Fails(a, answer)
    /\ UNCHANGED <<packet, marker>>

(* persist_run, and persist_rejected within route_after: the reports are     *)
(* kept, the evidence path is left empty.                                   *)
PersistRejected(a, status, ev, rv) ==
    /\ Writes(a, [row[a] EXCEPT !.status = status, !.report = TRUE,
                    !.evidence = FALSE, !.base = TRUE, !.work = a,
                    !.ev = ev, !.rv = rv])
    /\ CleansUp(a)
    /\ UNCHANGED <<packet, marker>>

PersistAccepted(a, ev, rv) ==
    /\ Writes(a, [row[a] EXCEPT !.status = "accepted", !.report = TRUE,
                    !.evidence = TRUE, !.base = TRUE, !.work = a,
                    !.ev = ev, !.rv = rv])
    /\ Answer(a, "accepted")
    /\ UNCHANGED <<packet, marker, tree>>

(* Altered form of Consumes: any attempt that was told takes the marker. *)
AlteredConsumes(a) == exec[a].told # "" /\ marker = exec[a].told

(* consume_rerun_stage: one transaction compares the marker with the one in  *)
(* the claim, and the packet's attempt with the executor's.                  *)
Consumes(a) == exec[a].told # "" /\ marker = exec[a].told /\ count = a

Prepare(a) ==
    /\ At(a, "prepare")
    /\ \/ FastReject(a)
       \/ /\ Consumes(a)
          /\ marker' = "" /\ Goes(a, "rerun")
          /\ UNCHANGED <<packet, row, tree, passed>>
       \/ /\ ~Consumes(a)
          /\ Goes(a, "agent")
          /\ UNCHANGED <<packet, marker, row, tree, passed>>

(* The workspace may fail to be built, which leaves no worktree. *)
AgentDone(a) ==
    /\ At(a, "agent")
    /\ \/ /\ tree' = tree \cup {a}
          /\ row' = [row EXCEPT ![a].base = TRUE]
       \/ UNCHANGED <<tree, row>>
    /\ Goes(a, "inspect")
    /\ UNCHANGED <<packet, marker, passed>>

(* inspect_worktree and enforce_scope: no worktree, no changes, an unusable  *)
(* diff or a path out of scope reject.                                       *)
Inspect(a) ==
    /\ At(a, "inspect")
    /\ \/ FastReject(a)
       \/ /\ a \in tree
          /\ Goes(a, "acceptance")
          /\ UNCHANGED <<packet, marker, row, tree, passed>>

(* evaluate_ladder: odd attempts and those from the seventh on do not ask   *)
(* the verifier about a failed acceptance.                                  *)
SkipsVerifier(a) == a % 2 = 1 \/ a >= 7

Credit(w, gate) == passed' = [passed EXCEPT ![w] = @ \cup {gate}]

(* The acceptance pipeline, T0 to the evidence check, and the self-evolution *)
(* guard, which rejects in the same way.  FAST ends here.                    *)
Acceptance(a) ==
    /\ At(a, "acceptance")
    /\ \/ /\ \E ev \in IF SkipsVerifier(a) THEN {Rework} ELSE Verdict :
                PersistRejected(a, "rejected", ev, Rework)
          /\ \E answer \in Rejections : Fails(a, answer)
       \/ /\ ~Fast /\ Goes(a, "verify") /\ Credit(a, "acceptance")
          /\ UNCHANGED <<packet, marker, row, tree>>
       \/ /\ Fast /\ PersistAccepted(a, Rework, Rework)
          /\ Credit(a, "acceptance")

(* route_after.  A return to the architect is persisted as blocked, and the  *)
(* report of the reviewer that was not asked is a skipped one.               *)
Refused(a, verdict, ev, rv) ==
    \/ /\ verdict = Rework
       /\ PersistRejected(a, "rejected", ev, rv)
       /\ \E answer \in Rejections : Fails(a, answer)
    \/ /\ verdict = Return
       /\ PersistRejected(a, "blocked", ev, rv)
       /\ Fails(a, "blocked")

Verify(a) ==
    /\ At(a, "verify")
    /\ \/ /\ Goes(a, "review") /\ Credit(a, "verifier")
          /\ UNCHANGED <<packet, marker, row, tree>>
       \/ \E ev \in {Rework, Return} : Refused(a, ev, ev, Rework)

Review(a) ==
    /\ At(a, "review")
    /\ \/ PersistAccepted(a, "PASS", "PASS") /\ Credit(a, "reviewer")
       \/ \E rv \in {Rework, Return} : Refused(a, rv, "PASS", rv)

-----------------------------------------------------------------------------
(* The rerun of a gate on the work of an earlier attempt. *)
Terminal == {"accepted", "rejected", "failed", "blocked"}

MaxOf(S) == CHOOSE n \in S : \A m \in S : m <= n

EarlierRuns(a) == {b \in Attempt \ {a} : row[b].status \in Terminal}

(* Altered form of Usable: the run's evidence is not asked for. *)
AlteredUsable(b) == row[b].report /\ row[b].work \in tree

(* load_previous_terminal_context looks at the latest terminal run only. *)
Usable(b) == row[b].report /\ row[b].work \in tree /\ row[b].evidence

Source(a) == {b \in EarlierRuns(a) :
                 Usable(b) /\ \A c \in EarlierRuns(a) : c <= b}

(* persist_rerun_result writes the whole result and an evidence path of the  *)
(* rerun's own; it does not swallow failures.                                *)
PersistRerun(a, status, work, ev, rv) ==
    /\ row' = [row EXCEPT ![a] = [@ EXCEPT !.status = status, !.report = TRUE,
                    !.evidence = TRUE, !.work = work, !.ev = ev, !.rv = rv]]
    /\ UNCHANGED <<packet, marker, tree>>

RerunRefused(a, work, ev, rv) ==
    /\ PersistRerun(a, "rejected", work, ev, rv)
    /\ \E answer \in Rejections : Fails(a, answer)

Rerun(a) ==
    /\ At(a, "rerun")
    /\ \/ Source(a) = {} /\ RerunRefused(a, 0, "", "")
       \/ \E b \in Source(a) :
             /\ exec[a].told = "reviewer" /\ row[b].ev # "PASS"
             /\ RerunRefused(a, row[b].work, "", "")
       \/ \E b \in Source(a) :
             /\ exec[a].told = "verifier" \/ row[b].ev = "PASS"
             /\ exec' = [exec EXCEPT
                   ![a].at = IF exec[a].told = "verifier" THEN "reverify"
                                                          ELSE "rereview",
                   ![a].work = row[b].work]
             /\ UNCHANGED <<packet, marker, row, tree, passed>>

(* A gate that fails without a verdict refuses too, and no report is kept. *)
Reverify(a) ==
    /\ At(a, "reverify")
    /\ \/ /\ exec' = [exec EXCEPT ![a].at = "rereview", ![a].ev = "PASS"]
          /\ Credit(exec[a].work, "verifier")
          /\ UNCHANGED <<packet, marker, row, tree>>
       \/ \E ev \in {Rework, Return, ""} :
             RerunRefused(a, exec[a].work, ev, "")

Rereview(a) ==
    LET work == exec[a].work
    IN  /\ At(a, "rereview")
        /\ \/ /\ PersistRerun(a, "accepted", work, exec[a].ev, "PASS")
              /\ Answer(a, "accepted")
              /\ Credit(work, "reviewer")
           \/ \E rv \in {Rework, Return} :
                 RerunRefused(a, work, exec[a].ev, rv)
           \/ RerunRefused(a, work, "", "")

-----------------------------------------------------------------------------
(* Altered form of Timeout: only the agent's run is bounded. *)
AlteredTimeout(a) ==
    /\ At(a, "agent")
    /\ Fails(a, "timeout")
    /\ UNCHANGED <<packet, marker, row, tree>>

(* The worker's hard timeout cancels the executor where it waits, and the    *)
(* row stays running: at the agent, at the git commands of the inspection,   *)
(* at the verifier and the reviewer.  Acceptance itself does not wait; the   *)
(* verifier that an even attempt asks after a failed one does.               *)
Timeout(a) ==
    /\ \/ exec[a].at \in {"agent", "inspect", "verify", "review",
                          "reverify", "rereview"}
       \/ At(a, "acceptance") /\ ~SkipsVerifier(a)
    /\ Fails(a, "timeout")
    /\ UNCHANGED <<packet, marker, row, tree>>

(* Any other exception marks the row failed and is raised to the worker. *)
Raise(a) ==
    /\ exec[a].at \in Stages
    /\ row' = [row EXCEPT ![a].status = "failed"]
    /\ Fails(a, "error")
    /\ UNCHANGED <<packet, marker, tree>>

(* The worker dies, or the process is stopped. *)
Crash(a) ==
    /\ exec[a].at \notin {"idle", "gone"}
    /\ Ends(a)
    /\ passed' = IF exec[a].at \in CoderStages
                 THEN [passed EXCEPT ![a] = {}] ELSE passed
    /\ UNCHANGED <<packet, marker, row, tree>>

(* determine_release_status.  The claim's own max_attempts is compared. *)
Outcome(a) ==
    LET answer == exec[a].answer
        remain == exec[a].max = 0 \/ a < exec[a].max
    IN  CASE answer = "accepted" -> "accepted"
          [] answer \in {"scope", "blocked"} -> "blocked_recoverable"
          [] OTHER -> IF remain THEN "rejected"
                      ELSE IF Recovery THEN "blocked_recoverable" ELSE "failed"

LatestRow == {b \in Attempt : /\ row[b].status # "none"
                              /\ \A c \in Attempt : row[c].status # "none" => c <= b}

Follows(a, status) ==
    CASE status = "accepted" -> Goes(a, "merge")
      [] status = "rejected" -> Goes(a, "retry")
      [] status = "blocked_recoverable" /\ Recovery -> Goes(a, "recover")
      [] OTHER -> Ends(a)

(* PacketService.release finishes the packet's latest row if it still says   *)
(* running, whichever attempt it belongs to.  A release that is not the      *)
(* owner's is refused and ends the cycle.                                    *)
Release(a) ==
    LET status == Outcome(a)
    IN  /\ At(a, "return")
        /\ \/ /\ owner = a /\ state = RUNNING
              /\ state' = ReleaseTarget(status)
              /\ owner' = IF status = "accepted" THEN a ELSE 0
              /\ row' = [b \in Attempt |->
                    IF b \in LatestRow /\ row[b].status = "running"
                    THEN [row[b] EXCEPT !.status = status] ELSE row[b]]
              /\ Follows(a, status)
              /\ UNCHANGED <<count, budget>>
           \/ /\ ~(owner = a /\ state = RUNNING)
              /\ Ends(a)
              /\ UNCHANGED <<packet, row>>
        /\ UNCHANGED <<marker, tree, passed>>

(* The worker's retry of its rejected packet. *)
Retry(a) ==
    /\ At(a, "retry")
    /\ Ends(a)
    /\ state' = IF state \notin {REJECTED, BLOCKED_RECOVERABLE} THEN state
                ELSE IF budget # 0 /\ count >= budget
                THEN (IF CanTransition(state, FAILED) THEN FAILED ELSE state)
                ELSE READY
    /\ UNCHANGED <<count, budget, owner, marker, row, tree, passed>>

(* The merge of an accepted attempt, and the block when the target moved on  *)
(* or the row carries no base.  Either removes the worktree.                 *)
Merge(a) ==
    /\ At(a, "merge")
    /\ Ends(a)
    /\ \/ /\ owner = a /\ state = ACCEPTED /\ row[a].base
          /\ state' = MERGED /\ tree' = tree \ {row[a].work}
          /\ UNCHANGED row
       \/ /\ owner = a /\ state = ACCEPTED
          /\ state' = BLOCKED_RECOVERABLE /\ tree' = tree \ {row[a].work}
          /\ row' = [row EXCEPT ![a].status = "blocked_recoverable"]
       \/ UNCHANGED <<state, row, tree>>
    /\ UNCHANGED <<count, budget, owner, marker, passed>>

-----------------------------------------------------------------------------
(* The recovery controller (core/recovery_controller.py), called by the      *)
(* worker after a blocked release.  build_signal: of each report the newest  *)
(* there is, whatever attempt it came from; an unresolved return of the      *)
(* reviewer, or else of the verifier, takes its place.                       *)
EvRows == {b \in Attempt : row[b].ev # ""}
RvRows == {b \in Attempt : row[b].rv # ""}
LastEv == IF EvRows = {} THEN "" ELSE row[MaxOf(EvRows)].ev
LastRv == IF RvRows = {} THEN "" ELSE row[MaxOf(RvRows)].rv
RvReturned == \E b \in RvRows : row[b].rv = Return
EvReturned == \E b \in EvRows : row[b].ev = Return
CoderFailures ==
    {b \in Attempt : row[b].status \in {"rejected", "failed", "blocked"}}

SignalRv == IF LastRv # "PASS" /\ RvReturned THEN Return ELSE LastRv
SignalEv == IF ~(LastRv # "PASS" /\ RvReturned) /\ LastEv # "PASS" /\ EvReturned
            THEN Return ELSE LastEv

(* classify_failure and decide_recovery: the reviewer's report first, then   *)
(* the verifier's, then the reason; a reason that names a blocker wins over  *)
(* all of them.  Of the counters only that of failed runs is ever above zero. *)
CoderDecision ==
    IF Cardinality(CoderFailures) >= CoderAttempts THEN "architect" ELSE "retry"

Decide(a) ==
    CASE SignalRv = Return -> "architect"
      [] SignalRv = Rework -> CoderDecision
      [] SignalEv = Return -> "architect"
      [] SignalEv = Rework -> CoderDecision
      [] SignalEv = "PASS" \/ SignalRv = "PASS" -> "retry"
      [] OTHER -> IF exec[a].answer = "timeout" THEN CoderDecision
                  ELSE IF count <= 1 THEN "retry" ELSE "block"

ReadSignal(a) ==
    /\ At(a, "recover")
    /\ \/ LatestRow = {} /\ Ends(a)
       \/ /\ LatestRow # {}
          /\ \E d \in {Decide(a), "block"} :
                exec' = [exec EXCEPT ![a].at = "apply", ![a].answer = d]
    /\ UNCHANGED <<packet, marker, row, tree, passed>>

(* The decision is applied in a transaction of its own, without a token, as  *)
(* far as the table of transitions allows.                                   *)
Reopen ==
    /\ CanTransition(state, READY)
    /\ state' = READY
    /\ budget' = IF budget > count THEN budget ELSE count + 1

Apply(a) ==
    LET decision == exec[a].answer
    IN  /\ At(a, "apply")
        /\ Ends(a)
        /\ \/ decision = "retry" /\ Reopen
           \/ /\ decision # "retry" /\ CanTransition(state, BLOCKED_FINAL)
              /\ state' = BLOCKED_FINAL /\ UNCHANGED budget
           \/ /\ ~CanTransition(state, IF decision = "retry" THEN READY
                                                             ELSE BLOCKED_FINAL)
              /\ UNCHANGED <<state, budget>>
        /\ UNCHANGED <<count, owner, marker, row, tree, passed>>

-----------------------------------------------------------------------------
(* The lease scan takes the packet from its executor, alive or not. *)
Reclaim ==
    /\ state = RUNNING
    /\ state' = READY /\ owner' = 0
    /\ UNCHANGED <<count, budget, marker, exec, row, tree, passed>>

(* retry_packet of the admin pipeline: no budget is looked at, and the       *)
(* number of an attempt that never runs is used up.                          *)
OperatorRetry ==
    /\ state \in {BLOCKED_RECOVERABLE, REJECTED} /\ count < MaxAttempt
    /\ state' = READY /\ count' = count + 1
    /\ UNCHANGED <<budget, marker, owner, exec, row, tree, passed>>

(* Altered form of RerunStage: the attempts are counted afresh. *)
AlteredRerunStage(k) ==
    /\ count < MaxAttempt
    /\ state' = IF CanTransition(state, READY) THEN READY ELSE state
    /\ count' = 0
    /\ marker' = k
    /\ UNCHANGED <<budget, owner, exec, row, tree, passed>>

(* rerun_stage raises the attempt number and leaves the marker in any state; *)
(* the packet becomes READY where the table allows it.                       *)
RerunStage(k) ==
    /\ count < MaxAttempt
    /\ state' = IF CanTransition(state, READY) THEN READY ELSE state
    /\ count' = count + 1
    /\ marker' = k
    /\ UNCHANGED <<budget, owner, exec, row, tree, passed>>

-----------------------------------------------------------------------------
(* Steps of an executor that come without waiting for an agent or a model. *)
Prompt(a) ==
    \/ Begin(a)
    \/ Prepare(a)
    \/ Inspect(a)
    \/ Acceptance(a)
    \/ Rerun(a)
    \/ Release(a)

(* Steps that wait for an agent or a model, or come from outside. *)
Loose(a) ==
    \/ Claim(a)
    \/ AgentDone(a)
    \/ Verify(a)
    \/ Review(a)
    \/ Reverify(a)
    \/ Rereview(a)
    \/ Raise(a)
    \/ Crash(a)
    \/ Retry(a)
    \/ Merge(a)
    \/ ReadSignal(a)
    \/ Apply(a)

ANext ==
    \/ \E a \in Attempt : Prompt(a) \/ Loose(a) \/ Timeout(a)
    \/ Reclaim
    \/ OperatorRetry
    \/ \E k \in Rerunnable : RerunStage(k)

(* The lease of a worker that died is not renewed, and the scan reclaims it. *)
ReclaimDead ==
    /\ owner # 0 => exec[owner].at = "gone"
    /\ Reclaim

(* The worker that holds the packet goes on, or times out where it waits. *)
OwnerMoves == owner # 0 /\ (Prompt(owner) \/ Timeout(owner))

ASpec ==
    /\ AInit /\ [][ANext]_avars
    /\ WF_avars(ReclaimDead)
    /\ WF_avars(OwnerMoves)

-----------------------------------------------------------------------------
Required == IF Fast THEN {"acceptance"} ELSE Gates

(* What a packet was accepted with has passed every gate of its profile,     *)
(* though a rerun takes the acceptance, and the verifier's report too, from  *)
(* the run of an earlier attempt, and rejected runs may keep their worktree. *)
AcceptedOnGates ==
    state \in {ACCEPTED, MERGED} =>
        Required \subseteq passed[IF exec[owner].work = 0 THEN owner
                                                          ELSE exec[owner].work]

(* The merge reads base, contract and evidence from the packet's latest row: *)
(* while a packet waits for its merge that row is the one of the attempt     *)
(* that was accepted, and says so, though rows are written by executors that *)
(* lost the packet, late, or not at all.                                     *)
LatestRowIsAccepted ==
    state = ACCEPTED =>
        /\ LatestRow = {owner}
        /\ row[owner].status \in {"accepted", "blocked_recoverable"}

(* An attempt claimed for a rerun never starts the coder while it owns the   *)
(* packet, unless another request came after its claim.                      *)
RerunLeavesCoder ==
    \A a \in Attempt :
        owner = a /\ exec[a].told # "" /\ exec[a].at \in CoderStages =>
            count # a

(* Who owns the packet is the latest attempt claimed, its row is its own     *)
(* until it is released, and the marker it was told of waits for it unless   *)
(* another request came.                                                     *)
OwnerInv ==
    /\ owner <= count
    /\ state = RUNNING \/ state = ACCEPTED => owner # 0
    /\ \A a \in Attempt :
          /\ owner # 0 /\ a > owner => exec[a] = Idle /\ row[a] = NoRow
          /\ owner = a /\ exec[a].at \in Stages => row[a].status = "running"
          /\ owner = a /\ At(a, "return") /\ exec[a].answer = "accepted" =>
                row[a].status \in {"running", "accepted"}
          /\ owner = a /\ count = a /\ exec[a].told # ""
             /\ exec[a].at \in {"begin", "prepare"} => marker = exec[a].told

(* The attempt whose work a run judges. *)
WorkOf(a) == IF exec[a].work = 0 THEN a ELSE exec[a].work

(* The work can no longer lose what it has passed: its executor is through. *)
Settled(a) == exec[a].at \notin Stages \cup {"idle", "begin"}

Cleared(a, gates) == gates \subseteq passed[a] /\ Settled(a)

(* What a row offers for a rerun, what a rerun judges and what an attempt of *)
(* the coder has behind it have passed the gates they must have.             *)
RowOffers(a) ==
    row[a].evidence /\ row[a].work # 0 =>
        /\ Cleared(row[a].work, {"acceptance"})
        /\ row[a].ev = "PASS" => "verifier" \in passed[row[a].work]

GatesBehind(a) ==
    /\ RowOffers(a)
    /\ exec[a].at \in CoderStages \cup {"idle", "begin", "prepare", "rerun"} =>
          exec[a].work = 0
    /\ exec[a].at \in {"verify", "review"} => "acceptance" \in passed[a] /\ ~Fast
    /\ At(a, "review") => "verifier" \in passed[a]
    /\ exec[a].at \in {"reverify", "rereview"} =>
          exec[a].work # 0 /\ Cleared(exec[a].work, {"acceptance"})
    /\ At(a, "rereview") => "verifier" \in passed[exec[a].work]
    /\ At(a, "return") /\ exec[a].answer = "accepted" =>
          Cleared(WorkOf(a), Required)

GateInv ==
    /\ \A a \in Attempt : GatesBehind(a)
    /\ state \in {ACCEPTED, MERGED} =>
          /\ owner # 0 /\ Settled(owner)
          /\ Cleared(WorkOf(owner), Required)

(* The inductive invariant. *)
AttemptInv == ATypeOK /\ OwnerInv /\ GateInv /\ LatestRowIsAccepted /\ RerunLeavesCoder

(* Every attempt lets go of its packet: it is released or reclaimed, whatever *)
(* agent or model it waits for, and wherever its worker dies.                *)
AttemptEnds == state = RUNNING ~> state # RUNNING

Unresolved ==
    \/ EvReturned /\ LastEv # "PASS"
    \/ RvReturned /\ LastRv # "PASS"

(* recovery_controller.py: an unresolved return to the architect stays       *)
(* authoritative, so recovery does not reopen the packet for the coder.      *)
ReturnIsAuthoritative ==
    [][\A a \in Attempt :
          ReadSignal(a) /\ Unresolved => exec'[a].answer # "retry"]_avars
=============================================================================
