----------------------------- MODULE WorkerCycle -----------------------------
(***************************************************************************)
(* The worker process (worker/worker.py, worker/api_client.py) against the  *)
(* control plane of PacketLease.  A worker runs two asyncio tasks over one  *)
(* set of fields: the main task goes claim, execute, release, merge or      *)
(* retry, and the heartbeat task renews the lease of whatever packet the    *)
(* fields name.  Each has at most one HTTP request in flight, so a renewal  *)
(* and a release of the same worker overlap and are answered in any order.  *)
(* A request may fail before or after the server acted on it, the server    *)
(* may act on it long after the client gave up, and a worker may die at any *)
(* point; worker ids are fresh per process, so it does not come back.       *)
(*                                                                          *)
(* Requests of the main task: the phase names the request.  The recovery    *)
(* controller, off by default, is not part of this module.                  *)
(***************************************************************************)
EXTENDS PacketLease

CONSTANT NoClaim    \* no active claim

ASSUME WorkerAssumption == NoClaim \notin ClaimResult

VARIABLES
    phase,      \* ExecutionState.phase of the current cycle, or idle, or dead
    token,      \* the claim's fencing tokens (_active_packet_id and others)
    outcome,    \* the status the main task releases with
    released,   \* _active_lease_released: the accepted release went through
    loss,       \* _active_lease_loss_reason
    call,       \* the main task's request: none, sent, or its answer
    beat,       \* the heartbeat task's renewal: its token, kind and answer
    late,       \* a main-task request the client gave up and the server may
                \* still serve; bound: one per worker
    merged      \* the token whose request merged the packet (history)

wvars == <<phase, token, outcome, released, loss, call, beat, late, merged>>
allvars == <<vars, wvars>>
mainvars == <<phase, token, outcome, released, call, late, merged>>

Phase == {"idle", "executing", "releasing", "merging", "retrying", "dead"}
Answer == {"ok", "stale_lease", "error"}
Quiet == [at |-> "none", kind |-> "lease", with |-> NoClaim]
Nothing == [do |-> "none", with |-> NoClaim, status |-> "rejected"]

WTypeOK ==
    /\ TypeOK
    /\ phase \in [WorkerId -> Phase]
    /\ token \in [WorkerId -> claims \cup {NoClaim}]
    /\ outcome \in [WorkerId -> ReleaseStatus]
    /\ released \in [WorkerId -> BOOLEAN]
    /\ loss \in [WorkerId -> {"", "stale_lease", "parallel_lease_lost"}]
    /\ call \in [WorkerId -> {"none", "sent", "wait"} \cup Answer]
    /\ beat \in [WorkerId ->
          [at : {"none", "sent", "parallel_lease_lost"} \cup Answer,
           kind : {"lease", "parallel"}, with : claims \cup {NoClaim}]]
    /\ late \in [WorkerId -> [do : Phase \cup {"none"}, status : ReleaseStatus,
                              with : claims \cup {NoClaim}]]
    /\ merged \in [Packet -> claims \cup {NoClaim}]

WInit ==
    /\ Init
    /\ phase = [w \in WorkerId |-> "idle"]
    /\ token = [w \in WorkerId |-> NoClaim]
    /\ outcome = [w \in WorkerId |-> "rejected"]
    /\ released = [w \in WorkerId |-> FALSE]
    /\ loss = [w \in WorkerId |-> ""]
    /\ call = [w \in WorkerId |-> "none"]
    /\ beat = [w \in WorkerId |-> Quiet]
    /\ late = [w \in WorkerId |-> Nothing]
    /\ merged = [p \in Packet |-> NoClaim]

-----------------------------------------------------------------------------
(* The finally clause of _run_one_cycle clears every active field. *)
EndCycle(w) ==
    /\ phase' = [phase EXCEPT ![w] = "idle"]
    /\ token' = [token EXCEPT ![w] = NoClaim]
    /\ released' = [released EXCEPT ![w] = FALSE]
    /\ loss' = [loss EXCEPT ![w] = ""]
    /\ call' = [call EXCEPT ![w] = "none"]
    /\ UNCHANGED <<outcome, beat, late, merged>>

GoTo(w, ph, c) ==
    /\ phase' = [phase EXCEPT ![w] = ph]
    /\ call' = [call EXCEPT ![w] = c]

(* _phase_claim: the new tokens replace the old and the loss reason is      *)
(* cleared.  The queue offers READY packets only.  A claim whose answer is  *)
(* lost leaves the worker idle.                                             *)
WClaim(w, p) ==
    /\ phase[w] = "idle"
    /\ state[p] = READY
    /\ Claim(p, w)
    /\ \E c \in claims' \ claims : token' = [token EXCEPT ![w] = c]
    /\ GoTo(w, "executing", "none")
    /\ released' = [released EXCEPT ![w] = FALSE]
    /\ loss' = [loss EXCEPT ![w] = ""]
    /\ UNCHANGED <<outcome, beat, late, merged>>

WClaimLost(w, p) ==
    /\ phase[w] = "idle"
    /\ state[p] = READY
    /\ Claim(p, w)
    /\ UNCHANGED wvars

(* _phase_execute ends and determine_release_status picks the status: a     *)
(* failure is retryable while attempts remain and final after that, and a   *)
(* scope violation is blocked recoverably.                                  *)
AttemptsRemain(w) == MaxAttempts = 0 \/ token[w].attempt < MaxAttempts

Outcomes(w) ==
    {"accepted", "blocked_recoverable",
     IF AttemptsRemain(w) THEN "rejected" ELSE "failed"}

WExecuted(w) ==
    /\ phase[w] = "executing"
    /\ loss[w] = ""
    /\ \E status \in Outcomes(w) : outcome' = [outcome EXCEPT ![w] = status]
    /\ GoTo(w, "releasing", "sent")
    /\ UNCHANGED <<vars, token, released, loss, beat, late, merged>>

(* With a loss reason set the result is dropped without a release. *)
WAbandon(w) ==
    /\ phase[w] = "executing"
    /\ loss[w] # ""
    /\ EndCycle(w)
    /\ UNCHANGED vars

(* The API serves the main task's request.  Anything but success is a 4xx   *)
(* answer; only the release tells a 409 from the others.                    *)
Reply(w, answer) ==
    /\ call' = [call EXCEPT ![w] = answer]
    /\ UNCHANGED <<phase, token, outcome, released, loss, beat, late>>

ServeRelease(w) ==
    /\ phase[w] = "releasing" /\ call[w] = "sent"
    /\ \/ Release(token[w], outcome[w]) /\ Reply(w, "ok")
       \/ /\ ~(ReleaseFenced(token[w]) /\ state[token[w].packet] = RUNNING)
          /\ Reply(w, "stale_lease") /\ UNCHANGED vars
    /\ UNCHANGED merged

ServeRetry(w) ==
    LET p == token[w].packet
    IN  /\ phase[w] = "retrying" /\ call[w] = "sent"
        /\ \/ Retry(p) /\ Reply(w, "ok")
           \/ ~RetryAccepted(p) /\ Reply(w, "error") /\ UNCHANGED vars
        /\ UNCHANGED merged

(* Altered form of MergeAdmitted: the worker's reservation is not compared. *)
AlteredMergeAdmitted(c) == state[c.packet] = ACCEPTED

(* POST merge, whose handler runs without suspending: the packet must be    *)
(* ACCEPTED and with parallel claims on the reservation must be the         *)
(* worker's.  It merges, blocks the packet when the target moved on, waits  *)
(* for the merge slot, or fails and leaves the packet as it is.             *)
MergeAdmitted(c) ==
    /\ state[c.packet] = ACCEPTED
    /\ Parallel => ParallelFenced(c.packet, c.worker, c.attempt)

MergeWith(c) ==
    /\ MergeAdmitted(c)
    /\ Merge(c.packet)
    /\ merged' = [merged EXCEPT ![c.packet] = c]

BlockWith(c) ==
    /\ MergeAdmitted(c)
    /\ BlockStale(c.packet)
    /\ UNCHANGED merged

ServeMerge(w) ==
    LET c == token[w]
    IN  /\ phase[w] = "merging" /\ call[w] = "sent"
        /\ \/ MergeWith(c) /\ Reply(w, "ok")
           \/ BlockWith(c) /\ Reply(w, "error")
           \/ /\ MergeAdmitted(c) /\ Reply(w, "wait")
              /\ UNCHANGED <<vars, merged>>
           \/ Reply(w, "error") /\ UNCHANGED <<vars, merged>>

(* The client raises: the request or its answer is lost, or the answer did  *)
(* not come in time and the request is still on its way.                    *)
LoseCall(w) ==
    /\ call[w] # "none"
    /\ Reply(w, "error")
    /\ UNCHANGED <<vars, merged>>

GiveUpCall(w) ==
    /\ call[w] = "sent" /\ late[w] = Nothing
    /\ call' = [call EXCEPT ![w] = "error"]
    /\ late' = [late EXCEPT ![w] =
          [do |-> phase[w], with |-> token[w], status |-> outcome[w]]]
    /\ UNCHANGED <<vars, phase, token, outcome, released, loss, beat, merged>>

ServeLate(w) ==
    LET c == late[w].with
    IN  /\ late' = [late EXCEPT ![w] = Nothing]
        /\ \/ /\ late[w].do = "releasing"
              /\ Release(c, late[w].status) /\ UNCHANGED merged
           \/ late[w].do = "retrying" /\ Retry(c.packet) /\ UNCHANGED merged
           \/ late[w].do = "merging" /\ (MergeWith(c) \/ BlockWith(c))
           \/ late[w].do # "none" /\ UNCHANGED <<vars, merged>>
        /\ UNCHANGED <<phase, token, outcome, released, loss, call, beat>>

(* Altered form of ReleaseConfirmed: a release that failed counts as well. *)
AlteredReleaseConfirmed(w) == outcome[w] = "accepted"

(* _phase_release notes the lease as released only on a successful answer.  *)
ReleaseConfirmed(w) == outcome[w] = "accepted" /\ call[w] = "ok"

(* _phase_release and what follows it.  After an API error the status the   *)
(* execution set is still there: an accepted result goes on to the merge, a *)
(* rejected one to the retry, unless the execution timed out and set none.  *)
WReleased(w) ==
    /\ phase[w] = "releasing"
    /\ \/ /\ call[w] = "stale_lease"
          /\ EndCycle(w)
       \/ /\ call[w] \in {"ok", "error"} /\ outcome[w] = "accepted"
          /\ GoTo(w, "merging", "none")
          /\ released' = [released EXCEPT ![w] = ReleaseConfirmed(w)]
          /\ UNCHANGED <<token, outcome, loss, beat, late, merged>>
       \/ /\ call[w] = "ok" /\ outcome[w] = "rejected"
          /\ GoTo(w, "retrying", "sent")
          /\ UNCHANGED <<token, outcome, released, loss, beat, late, merged>>
       \/ /\ call[w] = "error" /\ outcome[w] \in {"rejected", "failed"}
          /\ GoTo(w, "retrying", "sent")
          /\ UNCHANGED <<token, outcome, released, loss, beat, late, merged>>
       \/ /\ call[w] = "error" /\ outcome[w] \in {"rejected", "failed"}
          /\ EndCycle(w)
       \/ /\ call[w] \in {"ok", "error"} /\ outcome[w] = "blocked_recoverable"
          /\ EndCycle(w)
       \/ /\ call[w] = "ok" /\ outcome[w] = "failed"
          /\ EndCycle(w)
    /\ UNCHANGED vars

(* The loop of _phase_merge: the loss reason is looked at before every      *)
(* merge request; only a merge-slot wait comes back to it.                  *)
WMergeTurn(w) ==
    /\ phase[w] = "merging" /\ call[w] \in {"none", "wait"}
    /\ IF loss[w] # ""
       THEN EndCycle(w)
       ELSE /\ call' = [call EXCEPT ![w] = "sent"]
            /\ UNCHANGED <<phase, token, outcome, released, loss, beat, late,
                           merged>>
    /\ UNCHANGED vars

(* Altered form of WCycleDone: a failed request does not end the cycle. *)
AlteredWCycleDone(w) ==
    /\ phase[w] \in {"merging", "retrying"} /\ call[w] = "ok"
    /\ EndCycle(w)
    /\ UNCHANGED vars

WCycleDone(w) ==
    /\ phase[w] \in {"merging", "retrying"} /\ call[w] \in Answer
    /\ EndCycle(w)
    /\ UNCHANGED vars

-----------------------------------------------------------------------------
(* Altered form of BeatSend: with parallel claims on only the reservation is *)
(* renewed.                                                                 *)
AlteredBeatSend(w) ==
    /\ beat[w].at = "none"
    /\ token[w] # NoClaim /\ loss[w] = ""
    /\ beat' = [beat EXCEPT ![w] =
          [at |-> "sent", with |-> token[w],
           kind |-> IF Parallel THEN "parallel" ELSE "lease"]]
    /\ UNCHANGED <<vars, loss>> /\ UNCHANGED mainvars

(* _heartbeat_loop: renews the reservation after an accepted release, the   *)
(* ordinary lease before, and nothing once a loss reason is set.            *)
BeatSend(w) ==
    /\ beat[w].at = "none"
    /\ token[w] # NoClaim /\ loss[w] = ""
    /\ released[w] => Parallel
    /\ beat' = [beat EXCEPT ![w] =
          [at |-> "sent", with |-> token[w],
           kind |-> IF released[w] THEN "parallel" ELSE "lease"]]
    /\ UNCHANGED <<vars, loss>> /\ UNCHANGED mainvars

(* The API serves the renewal.  A refused reservation inside renew_lease is *)
(* an internal error, not a 409.  The worker counts every failed renewal of *)
(* the reservation as a loss, a server error included.                      *)
OrdinaryFenced(c) ==
    LET row == lease[c.packet]
    IN  /\ state[c.packet] = RUNNING
        /\ row # NoLease
        /\ row.worker = c.worker /\ row.id = c.lease /\ row.left >= 0

ServeBeat(w) ==
    LET c == beat[w].with
        Answered(a) == beat' = [beat EXCEPT ![w].at = a]
    IN  /\ beat[w].at = "sent"
        /\ \/ beat[w].kind = "lease" /\ Renew(c) /\ Answered("ok")
           \/ /\ beat[w].kind = "lease" /\ ~OrdinaryFenced(c)
              /\ Answered("stale_lease") /\ UNCHANGED vars
           \/ /\ beat[w].kind = "lease"
              /\ OrdinaryFenced(c) /\ ~RenewAccepted(c)
              /\ Answered("error") /\ UNCHANGED vars
           \/ beat[w].kind = "parallel" /\ RenewParallel(c) /\ Answered("ok")
           \/ /\ beat[w].kind = "parallel"
              /\ Answered("parallel_lease_lost") /\ UNCHANGED vars
        /\ UNCHANGED loss /\ UNCHANGED mainvars

(* Altered form of BeatAnswered: any failed renewal counts as a loss. *)
AlteredBeatAnswered(w) ==
    /\ beat[w].at \notin {"none", "sent"}
    /\ beat' = [beat EXCEPT ![w] = Quiet]
    /\ loss' = IF beat[w].at # "ok"
               THEN [loss EXCEPT ![w] = beat[w].at] ELSE loss
    /\ UNCHANGED vars /\ UNCHANGED mainvars

(* The heartbeat task resumes with the answer and sets the loss reason of   *)
(* whatever claim is active by then.                                        *)
BeatAnswered(w) ==
    /\ beat[w].at \notin {"none", "sent"}
    /\ beat' = [beat EXCEPT ![w] = Quiet]
    /\ loss' = IF beat[w].at \in {"stale_lease", "parallel_lease_lost"}
               THEN [loss EXCEPT ![w] = beat[w].at] ELSE loss
    /\ UNCHANGED vars /\ UNCHANGED mainvars

LoseBeat(w) ==
    /\ beat[w].at # "none"
    /\ beat' = [beat EXCEPT ![w] = Quiet]
    /\ UNCHANGED <<vars, loss>> /\ UNCHANGED mainvars

(* Altered form of Crash: the main task is gone, its heartbeat goes on. *)
AlteredCrash(w) ==
    /\ phase[w] # "dead"
    /\ phase' = [phase EXCEPT ![w] = "dead"]
    /\ call' = [call EXCEPT ![w] = "none"]
    /\ UNCHANGED <<vars, token, outcome, released, loss, beat, late, merged>>

(* The process dies; what the server already did stands. *)
Crash(w) ==
    /\ phase[w] # "dead"
    /\ phase' = [phase EXCEPT ![w] = "dead"]
    /\ token' = [token EXCEPT ![w] = NoClaim]
    /\ released' = [released EXCEPT ![w] = FALSE]
    /\ loss' = [loss EXCEPT ![w] = ""]
    /\ call' = [call EXCEPT ![w] = "none"]
    /\ beat' = [beat EXCEPT ![w] = Quiet]
    /\ UNCHANGED <<vars, outcome, late, merged>>

-----------------------------------------------------------------------------
(* What happens in the API process without the workers: scans, time, the    *)
(* wave gate, and operators who cancel.                                     *)
Server ==
    \/ LeaseScan
    \/ StuckScan
    \/ ClaimNothing
    \/ Tick
    \/ \E p \in Packet : PromoteDraft(p) \/ Cancel(p)

(* Progress of the main task and of its request.  An execution may take any *)
(* time, or never end, so its end is not among these steps.                 *)
MainStep(w) ==
    \/ WAbandon(w)
    \/ ServeRelease(w)
    \/ ServeRetry(w)
    \/ ServeMerge(w)
    \/ WReleased(w)
    \/ WMergeTurn(w)
    \/ WCycleDone(w)

BeatStep(w) ==
    \/ BeatSend(w)
    \/ ServeBeat(w)
    \/ BeatAnswered(w)

WNext ==
    \/ Server /\ UNCHANGED wvars
    \/ \E w \in WorkerId :
          \/ \E p \in Packet : WClaim(w, p) \/ WClaimLost(w, p)
          \/ WExecuted(w)
          \/ MainStep(w)
          \/ BeatStep(w)
          \/ LoseCall(w)
          \/ GiveUpCall(w)
          \/ ServeLate(w)
          \/ LoseBeat(w)
          \/ Crash(w)

(* Scans run and time passes; a worker that lives takes its steps, and the  *)
(* API answers what reaches it.  Nothing obliges a worker to claim, or an   *)
(* execution to end or to have any particular result.                       *)
WFairness ==
    /\ WF_allvars(Tick /\ UNCHANGED wvars)
    /\ WF_allvars(LeaseScan /\ UNCHANGED wvars)
    /\ \A w \in WorkerId : WF_allvars(MainStep(w)) /\ WF_allvars(BeatStep(w))

WSpec == WInit /\ [][WNext]_allvars /\ WFairness

-----------------------------------------------------------------------------
(* The attempt a worker is on has not been taken from it: it holds the      *)
(* lease, or its accepted result waits for its merge.                       *)
StillOwns(w) ==
    LET c == token[w]
    IN  /\ c # NoClaim
        /\ attempts[c.packet] = c.attempt
        /\ state[c.packet] \in {RUNNING, ACCEPTED}

(* A merge is the merge of the result that was accepted: the request that   *)
(* turned a packet MERGED carries the packet's latest attempt, and that     *)
(* attempt was recorded as accepted.  A worker whose packet was reclaimed,  *)
(* executed and accepted again cannot put its own branch in, not even with  *)
(* a request served long after the fact (parallel claims).                  *)
MergedByAcceptedAttempt ==
    \A p \in Packet : merged[p] # NoClaim =>
        [packet |-> p, worker |-> merged[p].worker, attempt |-> attempts[p],
         to |-> ACCEPTED] \in results
        /\ merged[p].attempt = attempts[p]

(* A worker in the merge loop after an accepted release is the one whose    *)
(* acceptance is recorded.                                                  *)
ReleasedMeansRecorded ==
    \A w \in WorkerId : released[w] =>
        \E r \in results :
            /\ r.packet = token[w].packet /\ r.worker = w
            /\ r.attempt = token[w].attempt /\ r.to = ACCEPTED

(* The packet of a dead worker is taken from it. *)
DeadWorkersPacketReclaimed ==
    \A w \in WorkerId, p \in Packet :
        (phase[w] = "dead" /\ lease[p] # NoLease /\ lease[p].worker = w)
        ~> (lease[p] = NoLease \/ lease[p].worker # w)

(* A reservation left over by a reclaim does not keep its packet out of the *)
(* queue for good: no worker goes on renewing it.                           *)
LeftoverReservationElapses ==
    \A p \in Packet :
        state[p] = READY ~> (state[p] # READY \/ ~Live(please[p]))

(* No worker is stuck with its release: once it has started to deliver a    *)
(* result, its cycle ends, or the process dies, or an accepted answer has   *)
(* brought it to the wait for the merge, which may last as long as the      *)
(* merge slot is taken and is not promised to end here.                     *)
CycleEnds ==
    \A w \in WorkerId :
        (phase[w] \in {"releasing", "retrying"})
        ~> (phase[w] \in {"idle", "merging", "dead"})

(* worker.py's fencing invariant: the result of a worker whose packet was   *)
(* taken over must not merge.  Its branch is the one of its own attempt.    *)
StaleResultNotMerged ==
    \A p \in Packet : merged[p] # NoClaim => merged[p].attempt = attempts[p]
=============================================================================
