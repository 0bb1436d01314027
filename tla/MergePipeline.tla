---------------------------- MODULE MergePipeline ----------------------------
(***************************************************************************)
(* The way of an ACCEPTED packet into the target branch (parallel claims):  *)
(* services/merge_service.py and what it is made of, the admission, the     *)
(* guard, the mutations, the recovery and the merge lease of               *)
(* merge_coordinator_service.py, with the supervisor's cleanup beside it.   *)
(*                                                                          *)
(* A merge is a sequence of database and git steps of one API process.      *)
(* Between two steps the process may stall until the lease has expired, or  *)
(* die; another process may take the slot over, the cleanup may sweep, the  *)
(* worker's reservation may lapse.  A git step and the fencing checks       *)
(* before it are one action: the heartbeat thread renews the lease for as   *)
(* long as the step runs.                                                   *)
(*                                                                          *)
(* Commits of the target branch are numbered; a head is the number of them. *)
(***************************************************************************)
EXTENDS PacketStates, Integers, Sequences

CONSTANTS
    Packet,         \* packets, numbered by wave order, creation time and id
    Api,            \* API processes
    NoLease,        \* the absent merge_leases row
    MergeTTL,       \* settings.merge_lease_ttl_seconds, in ticks
    CleanupAge,     \* the cleanup's older_than_minutes, in ticks
    MaxAttempts     \* bound: executions of each packet

ASSUME MergeAssumption ==
    /\ Packet \subseteq Nat \ {0}
    /\ MergeTTL \in Nat \ {0} /\ CleanupAge \in Nat
    /\ MaxAttempts \in [Packet -> Nat]
    /\ NoLease \notin [packet : Packet, token : Nat, left : Int]

VARIABLES
    state,      \* packets.state
    attempt,    \* packets.attempt_count
    base,       \* packet_runs.base_sha: the head the attempt started from
    held,       \* the reservation of the attempt is live
    asking,     \* the attempt's worker has a merge request to be answered
    target,     \* the commits of the target branch
    pushed,     \* how many of them the remote has
    tree,       \* the target's working tree: clean, or merging
    mlease,     \* the target's merge_leases row
    tokens,     \* lease tokens handed out
    run,        \* the merge each API process is in the middle of
    crossed     \* packets a merge of an earlier attempt blocked (history)

packetvars == <<state, attempt, base, held, asking, crossed>>
repovars == <<target, pushed, tree>>
mvars == <<packetvars, repovars, mlease, tokens, run>>

Idle == [packet |-> 0, step |-> "none"]
Step == {"prepare", "checkout", "merge", "conflict", "push", "finish"}
Run == [packet : Packet, attempt : Nat, token : Nat, step : Step,
        on : Nat, rechecked : BOOLEAN]
Commit == [packet : Packet, attempt : Nat, on : Nat]

MTypeOK ==
    /\ state \in [Packet -> PacketState]
    /\ attempt \in [Packet -> Nat] /\ base \in [Packet -> Nat]
    /\ held \in [Packet -> BOOLEAN] /\ asking \in [Packet -> BOOLEAN]
    /\ target \in Seq(Commit)
    /\ pushed \in 0 .. Len(target)
    /\ tree \in {"clean", "merging"}
    /\ tokens \in Nat
    /\ mlease \in [packet : Packet, token : Nat, left : Int] \cup {NoLease}
    /\ run \in [Api -> Run \cup {Idle}]
    /\ crossed \subseteq Packet

TargetHead == Len(target)
Accepted == {p \in Packet : state[p] = ACCEPTED}

(* The first n commits of the target hold the result of p's latest attempt. *)
Holds(n, p) ==
    \E i \in 1 .. n : target[i].packet = p /\ target[i].attempt = attempt[p]

MInit ==
    /\ state = [p \in Packet |-> READY]
    /\ attempt = [p \in Packet |-> 0] /\ base = [p \in Packet |-> 0]
    /\ held = [p \in Packet |-> FALSE] /\ asking = [p \in Packet |-> FALSE]
    /\ target = <<>> /\ pushed = 0 /\ tree = "clean"
    /\ mlease = NoLease /\ tokens = 0
    /\ run = [a \in Api |-> Idle]
    /\ crossed = {}

-----------------------------------------------------------------------------
(* What leads to a merge.  A packet, after a retry if it was blocked, is    *)
(* claimed and its worktree made from the current head.                     *)
Start(p) ==
    /\ state[p] \in {READY, BLOCKED_RECOVERABLE}
    /\ attempt[p] < MaxAttempts[p]
    /\ state' = [state EXCEPT ![p] = RUNNING]
    /\ attempt' = [attempt EXCEPT ![p] = @ + 1]
    /\ base' = [base EXCEPT ![p] = TargetHead]
    /\ held' = [held EXCEPT ![p] = TRUE]
    /\ asking' = [asking EXCEPT ![p] = FALSE]
    /\ UNCHANGED <<repovars, mlease, tokens, run, crossed>>

(* The accepted release; its worker goes on to ask for the merge. *)
Accept(p) ==
    /\ state[p] = RUNNING
    /\ state' = [state EXCEPT ![p] = ACCEPTED]
    /\ asking' = [asking EXCEPT ![p] = TRUE]
    /\ UNCHANGED <<attempt, base, held, repovars, mlease, tokens, run, crossed>>

(* The reservation is not renewed in time; it cannot be renewed any more.   *)
Lapse(p) ==
    /\ held[p] /\ held' = [held EXCEPT ![p] = FALSE]
    /\ UNCHANGED <<state, attempt, base, asking, repovars, mlease, tokens, run,
                   crossed>>

(* The worker dies, or its request is lost: it asks no more. *)
GiveUp(p) ==
    /\ asking[p] /\ asking' = [asking EXCEPT ![p] = FALSE]
    /\ UNCHANGED <<state, attempt, base, held, repovars, mlease, tokens, run,
                   crossed>>

(* An operator cleans the working tree an interrupted merge left. *)
Repair ==
    /\ tree = "merging" /\ tree' = "clean"
    /\ UNCHANGED <<packetvars, target, pushed, mlease, tokens, run>>

-----------------------------------------------------------------------------
(* Altered form of Vacant: an expired row still counts. *)
AlteredVacant == mlease = NoLease

Vacant == mlease # NoLease => mlease.left <= 0

(* can_merge_now: the first ACCEPTED packet in the merge order. *)
CanMergeNow(p) == p \in Accepted /\ \A q \in Accepted : p <= q

(* MergeAdmissionService.admit and the acquisition of the merge lease: an   *)
(* expired row is replaced only when the repository is sane.                *)
Admit(a, p) ==
    /\ run[a] = Idle
    /\ asking[p] /\ held[p]
    /\ CanMergeNow(p)
    /\ Vacant
    /\ mlease # NoLease => tree = "clean"
    /\ tokens' = tokens + 1
    /\ mlease' = [packet |-> p, token |-> tokens', left |-> MergeTTL]
    /\ run' = [run EXCEPT ![a] =
          [packet |-> p, attempt |-> attempt[p], token |-> tokens',
           step |-> "prepare", on |-> base[p], rechecked |-> FALSE]]
    /\ asking' = [asking EXCEPT ![p] = FALSE]
    /\ UNCHANGED <<state, attempt, base, held, repovars, crossed>>

(* A request the service answers with an error: the worker stops asking.    *)
(* A wait for the slot or for the order changes nothing and is asked again. *)
Refuse(p) ==
    /\ asking[p]
    /\ \/ state[p] # ACCEPTED \/ ~held[p]
       \/ CanMergeNow(p) /\ mlease # NoLease /\ Vacant /\ tree # "clean"
    /\ asking' = [asking EXCEPT ![p] = FALSE]
    /\ UNCHANGED <<state, attempt, base, held, repovars, mlease, tokens, run,
                   crossed>>

-----------------------------------------------------------------------------
(* Altered form of Current: any live lease will do. *)
AlteredCurrent(a) == mlease # NoLease /\ mlease.left > 0

(* assert_current of the merge lease. *)
Current(a) ==
    /\ mlease # NoLease /\ mlease.left > 0
    /\ mlease.packet = run[a].packet /\ mlease.token = run[a].token

(* assert_parallel_lease_current: the reservation of the run's attempt. *)
Reserved(a) == held[run[a].packet] /\ attempt[run[a].packet] = run[a].attempt

(* Before each mutation of the target both are looked at. *)
MayMutate(a) == Current(a) /\ Reserved(a)

(* The finally clause of merge_packet gives the lease back, if it is still  *)
(* the run's.                                                               *)
EndRun(a) ==
    /\ run' = [run EXCEPT ![a] = Idle]
    /\ mlease' = IF Current(a) THEN NoLease ELSE mlease
    /\ UNCHANGED <<attempt, base, asking, tokens>>

GoOn(a, step) ==
    /\ run' = [run EXCEPT ![a].step = step]
    /\ UNCHANGED <<packetvars, mlease, tokens>>

(* An error or a fence: the run ends and the packet stays as it is. *)
Fail(a) == EndRun(a) /\ UNCHANGED <<state, held, crossed>>

(* Altered form of BlockRun: the deprecated name of the state is written. *)
AlteredBlockRun(a) ==
    /\ EndRun(a)
    /\ state' = [state EXCEPT ![run[a].packet] = "blocked"]
    /\ UNCHANGED <<held, crossed>>

(* block_stale_packet: PacketService.block knows neither the merge lease    *)
(* nor the attempt, and fails where the table has no such transition.       *)
BlockRun(a) ==
    LET p == run[a].packet
    IN  /\ EndRun(a)
        /\ IF CanTransition(state[p], BLOCKED_RECOVERABLE)
           THEN /\ state' = [state EXCEPT ![p] = BLOCKED_RECOVERABLE]
                /\ held' = [held EXCEPT ![p] = FALSE]
                /\ crossed' = IF run[a].attempt = attempt[p] THEN crossed
                                                            ELSE crossed \cup {p}
           ELSE UNCHANGED <<state, held, crossed>>

(* Altered form of Stale: the base is not compared with the head. *)
AlteredStale(a) == FALSE

Stale(a) == run[a].on # TargetHead

(* The checks before the first mutation, and the integration recheck of a   *)
(* stale base.  A recheck that fails, or that loses the lease while it      *)
(* runs, blocks the packet.                                                 *)
Prepare(a) ==
    /\ run[a].step = "prepare"
    /\ \/ ~(Reserved(a) /\ tree = "clean") /\ Fail(a)
       \/ /\ Reserved(a) /\ tree = "clean"
          /\ \/ ~Stale(a) /\ GoOn(a, "checkout")
             \/ /\ Stale(a) /\ Current(a)
                /\ run' = [run EXCEPT ![a].step = "checkout",
                               ![a].on = TargetHead, ![a].rechecked = TRUE]
                /\ UNCHANGED <<packetvars, mlease, tokens>>
             \/ Stale(a) /\ BlockRun(a)
    /\ UNCHANGED repovars

(* Checkout and fetch, and the second look at a head that was rechecked. *)
Checkout(a) ==
    /\ run[a].step = "checkout"
    /\ \/ Fail(a)
       \/ MayMutate(a) /\ ~(run[a].rechecked /\ Stale(a)) /\ GoOn(a, "merge")
       \/ run[a].rechecked /\ Stale(a) /\ BlockRun(a)
    /\ UNCHANGED repovars

(* git merge --no-ff.  It may fail, or meet a conflict; when the lease is   *)
(* lost meanwhile, the conflict stays in the working tree.                  *)
MergeBranch(a) ==
    /\ run[a].step = "merge"
    /\ \/ Fail(a) /\ UNCHANGED repovars
       \/ /\ MayMutate(a)
          /\ \/ /\ tree = "clean"
                /\ target' = Append(target, [packet |-> run[a].packet,
                      attempt |-> run[a].attempt, on |-> run[a].on])
                /\ GoOn(a, "push") /\ UNCHANGED <<pushed, tree>>
             \/ /\ tree' = "merging"
                /\ GoOn(a, "conflict") \/ Fail(a)
                /\ UNCHANGED <<target, pushed>>

(* After a conflict the merge is aborted, if the lease allows it and git    *)
(* manages to, and the packet is blocked.                                   *)
Conflict(a) ==
    /\ run[a].step = "conflict"
    /\ tree' \in IF Current(a) THEN {"clean", tree} ELSE {tree}
    /\ BlockRun(a)
    /\ UNCHANGED <<target, pushed>>

(* Altered form of Push: a push that failed is not noticed. *)
AlteredPush(a) ==
    /\ run[a].step = "push"
    /\ MayMutate(a)
    /\ pushed' \in {pushed, TargetHead}
    /\ GoOn(a, "finish")
    /\ UNCHANGED <<target, tree>>

Push(a) ==
    /\ run[a].step = "push"
    /\ \/ Fail(a) /\ UNCHANGED pushed
       \/ MayMutate(a) /\ pushed' = TargetHead /\ GoOn(a, "finish")
    /\ UNCHANGED <<target, tree>>

(* The last look at the merge lease and the transition to MERGED. *)
Finish(a) ==
    LET p == run[a].packet
        sure == Current(a) /\ CanTransition(state[p], MERGED)
    IN  /\ run[a].step = "finish"
        /\ \/ ~sure /\ Fail(a)
           \/ /\ sure /\ EndRun(a)
              /\ state' = [state EXCEPT ![p] = MERGED]
              /\ held' = [held EXCEPT ![p] = FALSE]
              /\ UNCHANGED crossed
        /\ UNCHANGED repovars

MergeStep(a) ==
    \/ Prepare(a) \/ Checkout(a) \/ MergeBranch(a) \/ Conflict(a)
    \/ Push(a) \/ Finish(a)

-----------------------------------------------------------------------------
(* The heartbeat thread renews the lease while a mutation runs. *)
Beat(a) ==
    /\ run[a] # Idle /\ run[a].step # "finish"
    /\ Current(a)
    /\ mlease' = [mlease EXCEPT !.left = MergeTTL]
    /\ UNCHANGED <<packetvars, repovars, tokens, run>>

(* The API process dies.  A git merge it was about to run may be cut short. *)
Crash(a) ==
    /\ run[a] # Idle
    /\ run' = [run EXCEPT ![a] = Idle]
    /\ tree' \in IF run[a].step = "merge" /\ MayMutate(a)
                 THEN {tree, "merging"} ELSE {tree}
    /\ UNCHANGED <<packetvars, target, pushed, mlease, tokens>>

(* Altered form of Forgotten: the age of the row is not looked at. *)
AlteredForgotten == mlease # NoLease /\ tree = "clean"

(* A merge lease the cleanup may delete: long expired, repository sane. *)
Forgotten ==
    mlease # NoLease /\ mlease.left < -CleanupAge /\ tree = "clean"

(* ACCEPTED packets whose reservation elapsed and that have no merge lease; *)
(* a row deleted by the same sweep still counts, the session not flushing.  *)
Abandoned ==
    {p \in Accepted : ~held[p] /\ ~(mlease # NoLease /\ mlease.packet = p)}

(* SupervisorCleanupService._release_stale_leases.  The packets with a long *)
(* expired ordinary lease, whose worker is gone, fail.                      *)
Cleanup(gone) ==
    /\ \A p \in gone : state[p] = RUNNING
    /\ state' = [p \in Packet |->
          CASE p \in gone -> FAILED
            [] p \in Abandoned -> BLOCKED_RECOVERABLE
            [] OTHER -> state[p]]
    /\ held' = [p \in Packet |-> held[p] /\ p \notin gone]
    /\ mlease' = IF Forgotten THEN NoLease ELSE mlease
    /\ UNCHANGED <<attempt, base, asking, repovars, tokens, run, crossed>>

(* Time, until the row is old enough for the cleanup. *)
Tick ==
    /\ mlease # NoLease /\ mlease.left >= -CleanupAge
    /\ mlease' = [mlease EXCEPT !.left = @ - 1]
    /\ UNCHANGED <<packetvars, repovars, tokens, run>>

MNext ==
    \/ \E p \in Packet :
          \/ Start(p) \/ Accept(p) \/ Lapse(p) \/ GiveUp(p) \/ Refuse(p)
          \/ \E a \in Api : Admit(a, p)
    \/ \E a \in Api : MergeStep(a) \/ Beat(a) \/ Crash(a)
    \/ \E gone \in SUBSET Packet : Cleanup(gone)
    \/ Repair \/ Tick

(* A worker with a request is answered or admitted, a merge that was begun  *)
(* takes its next step, and time passes.                                    *)
Ask(p) == Refuse(p) \/ \E a \in Api : Admit(a, p)

MSpec ==
    /\ MInit /\ [][MNext]_mvars
    /\ WF_mvars(Tick)
    /\ \A p \in Packet : WF_mvars(Ask(p))
    /\ \A a \in Api : WF_mvars(MergeStep(a))

-----------------------------------------------------------------------------
(* A MERGED packet's accepted result is on the remote's target branch       *)
(* (merge_packet: merge, push, transition, each fenced on its own).  The    *)
(* transition does not compare attempts: when a stalled merge of an earlier *)
(* attempt blocked the packet behind the merge that was about to finish,    *)
(* that merge may mark a later attempt MERGED, and what is on the remote is *)
(* its own result.                                                          *)
MergedIsPushed ==
    \A p \in Packet : state[p] = MERGED =>
        \/ Holds(pushed, p)
        \/ p \in crossed /\ \E i \in 1 .. pushed : target[i].packet = p

(* A packet is merged onto the very head its execution or its recheck was   *)
(* verified on, though merges stall between two steps, lose the lease and   *)
(* are taken over (prepare, target_head_race, the fencing of mutations).    *)
VerifiedWhereMerged == \A i \in 1 .. TargetHead : target[i].on = i - 1

(* A live merge lease is taken only from a run that ends: neither another   *)
(* request nor the cleanup removes it.                                      *)
LiveLeaseKept ==
    [][mlease # NoLease /\ mlease.left > 0
       /\ (mlease' = NoLease \/ mlease'.token # mlease.token)
       => \E a \in Api : /\ run[a] # Idle /\ run[a].token = mlease.token
                         /\ run'[a] = Idle]_mvars

(* The first packet in the merge order is admitted or answered, whoever     *)
(* crashed with the slot before.                                            *)
FirstIsServed ==
    \A p \in Packet :
        asking[p] /\ CanMergeNow(p) ~> ~asking[p] \/ ~CanMergeNow(p)

(* The refinement mapping: what landed is the target branch, and a packet   *)
(* is done when it is MERGED.                                               *)
Merges == INSTANCE VerifiedMerges
    WITH Attempt <- UNION {0 .. MaxAttempts[p] : p \in Packet},
         trunk <- target, remote <- pushed,
         done <- {p \in Packet : state[p] = MERGED}

(* However merges stall, crash, lose the lease and are taken over, the      *)
(* target branch sees only results that land on the head they were verified *)
(* on, once per attempt and in the order of the attempts, publications of   *)
(* all there is, and a packet turning MERGED when all of its own is on the  *)
(* remote, which then stays so.                                             *)
ImplementsVerifiedMerges == Merges!LSpec
=============================================================================
