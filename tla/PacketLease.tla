----------------------------- MODULE PacketLease -----------------------------
(***************************************************************************)
(* The control plane's packet ownership protocol: PacketService             *)
(* (services/packet_service.py), the parallel reservation that travels with *)
(* a packet (services/parallel_lease_service.py), and the two background    *)
(* scanners that reclaim abandoned packets (core/lease_manager.py and       *)
(* core/stuck_scanner.py).                                                  *)
(*                                                                          *)
(* The API process runs every handler and every scan to completion on one   *)
(* event loop, without suspending between its reads and its writes, so each *)
(* is one action.  What is concurrent is the clients: a ClaimResult, once   *)
(* issued, is the fencing token of every request its worker ever sends, and *)
(* requests may be late, repeated or never sent.  `claims' keeps all tokens *)
(* ever issued and a request may present any of them at any time.           *)
(*                                                                          *)
(* Time is counted in ticks.  A lease row holds `left', the ticks until its *)
(* expires_at: expires_at > now is left > 0, expires_at < now is left < 0.  *)
(***************************************************************************)
EXTENDS PacketStates, Integers, FiniteSets

CONSTANTS
    Packet,         \* packet ids
    WorkerId,       \* worker ids
    NoLease,        \* the absent row
    MaxAttempts,    \* Packet.max_attempts, 0 meaning unlimited
    Parallel,       \* TRUE when max_concurrency > 1: claims also reserve
    TTL,            \* settings.lease_ttl_seconds
    ParallelTTL,    \* ParallelLeaseService's ttl, settings.lease_ttl_seconds by default
    Grace,          \* settings.lease_expiration_grace_seconds
    MaxClaims       \* bound: claims of one packet

Row == [id : Nat, worker : WorkerId, attempt : Nat, left : Int]
Reservation == [worker : WorkerId, attempt : Nat, left : Int]

ASSUME LeaseAssumption ==
    /\ MaxAttempts \in Nat
    /\ Parallel \in BOOLEAN
    /\ TTL \in Nat \ {0} /\ ParallelTTL \in Nat \ {0}
    /\ Grace \in Nat
    /\ MaxClaims \in Nat
    /\ NoLease \notin Row /\ NoLease \notin Reservation

VARIABLES
    state,      \* packets.state
    attempts,   \* packets.attempt_count
    lease,      \* the leases row of each packet, packet_id being unique
    please,     \* the parallel_leases row of each packet; its uuid is new at
                \* each claim, so the attempt stands for it
    claims,     \* every ClaimResult issued (history)
    results     \* every release that was recorded, with its token (history)

vars == <<state, attempts, lease, please, claims, results>>

ClaimResult == [packet : Packet, worker : WorkerId, lease : Nat, attempt : Nat]
Recorded == [packet : Packet, worker : WorkerId, attempt : Nat,
             to : PacketState]

TypeOK ==
    /\ state \in [Packet -> PacketState]
    /\ attempts \in [Packet -> Nat]
    /\ lease \in [Packet -> Row \cup {NoLease}]
    /\ please \in [Packet -> Reservation \cup {NoLease}]
    /\ claims \in SUBSET ClaimResult
    /\ results \in SUBSET Recorded

(* The definitions named Altered... and the like are plausible mistakes in  *)
(* the definition that follows them.  No specification uses them; each      *)
(* shows that some property below depends on the code getting it right.     *)

Leased == {p \in Packet : lease[p] # NoLease}

(* leases.id is an INTEGER PRIMARY KEY without AUTOINCREMENT: SQLite gives  *)
(* a new row one more than the largest id present, so ids are reused.       *)
IsNextId(id) ==
    /\ id \in {1} \cup {lease[q].id + 1 : q \in Leased}
    /\ \A q \in Leased : lease[q].id < id

Live(row) == row # NoLease /\ row.left > 0

(* Altered form of Overdue: the grace period is forgotten. *)
AlteredOverdue(row) == row # NoLease /\ row.left < 0

Overdue(row) == row # NoLease /\ row.left < -Grace

-----------------------------------------------------------------------------
(* PacketService._transition_in_session, without the lease row: the state   *)
(* change and what it does to the parallel reservation.                     *)
AfterTransition(p, to) ==
    /\ state' = [state EXCEPT ![p] = to]
    /\ please' = IF to \in ParallelReleasingStates
                 THEN [please EXCEPT ![p] = NoLease]
                 ELSE please

Transition(p, to) ==
    /\ CanTransition(state[p], to)
    /\ AfterTransition(p, to)

(* Altered form of Expired: the state of the packet is not looked at. *)
AlteredExpired(st) ==
    [q \in Packet |->
        IF please[q] # NoLease /\ please[q].left <= 0 THEN NoLease ELSE please[q]]

(* ParallelLeaseService.expire, in a session where the states are st:       *)
(* elapsed reservations go unless the packet is RUNNING or ACCEPTED.        *)
Expired(st) ==
    [q \in Packet |->
        IF please[q] # NoLease /\ please[q].left <= 0
           /\ st[q] \notin {RUNNING, ACCEPTED}
        THEN NoLease ELSE please[q]]

(* ParallelLeaseService._assert_fenced for a token of worker w, attempt n. *)
ParallelFenced(p, w, n) ==
    /\ Live(please[p])
    /\ please[p].worker = w
    /\ please[p].attempt = n

-----------------------------------------------------------------------------
Init ==
    /\ state \in [Packet -> {DRAFT, READY}]
    /\ attempts = [p \in Packet |-> 0]
    /\ lease = [p \in Packet |-> NoLease]
    /\ please = [p \in Packet |-> NoLease]
    /\ claims = {}
    /\ results = {}

(* core/wave_gate.py: the previous wave completed and this DRAFT opens. *)
PromoteDraft(p) ==
    /\ state[p] = DRAFT
    /\ state' = [state EXCEPT ![p] = READY]
    /\ UNCHANGED <<attempts, lease, please, claims, results>>

(* _claim_in_session; with concurrency above one it runs inside             *)
(* SafeQueueClaimService._claim_once, which first expires reservations and  *)
(* then acquires the packet's own in the same transaction.                  *)
Claim(p, w) ==
    LET n == attempts[p] + 1
    IN  /\ attempts[p] < MaxClaims
        /\ state[p] \in ClaimableStates
        /\ ~Live(lease[p])
        /\ Parallel => ~Live(please[p])
        /\ state' = [state EXCEPT ![p] = RUNNING]
        /\ attempts' = [attempts EXCEPT ![p] = n]
        /\ \E id \in {1} \cup {lease[q].id + 1 : q \in Leased} :
             /\ IsNextId(id)
             /\ lease' = [lease EXCEPT ![p] =
                   [id |-> id, worker |-> w, attempt |-> n, left |-> TTL]]
             /\ claims' = claims \cup
                   {[packet |-> p, worker |-> w, lease |-> id, attempt |-> n]}
        /\ please' = IF Parallel
                     THEN [Expired(state) EXCEPT ![p] =
                             [worker |-> w, attempt |-> n, left |-> ParallelTTL]]
                     ELSE please
        /\ UNCHANGED results

(* A _claim_once that finds no candidate still commits its expiry sweep. *)
ClaimNothing ==
    /\ Parallel
    /\ please' = Expired(state)
    /\ UNCHANGED <<state, attempts, lease, claims, results>>

(* Altered form of RenewAccepted: a lapsed lease can be renewed. *)
AlteredRenewAccepted(c) ==
    LET p == c.packet
    IN  /\ state[p] = RUNNING
        /\ lease[p] # NoLease
        /\ lease[p].worker = c.worker
        /\ lease[p].id = c.lease

(* What PacketService.renew_lease requires of a request with token c.  The  *)
(* request carries the worker and the lease id, not the attempt; a live     *)
(* parallel reservation must be renewable with the row's own attempt.       *)
RenewAccepted(c) ==
    LET p == c.packet
    IN  /\ state[p] = RUNNING
        /\ lease[p] # NoLease
        /\ lease[p].worker = c.worker
        /\ lease[p].id = c.lease
        /\ lease[p].left >= 0
        /\ please[p] # NoLease => ParallelFenced(p, c.worker, lease[p].attempt)

Renew(c) ==
    LET p == c.packet
    IN  /\ RenewAccepted(c)
        /\ lease' = [lease EXCEPT ![p].left = TTL]
        /\ please' = IF please[p] # NoLease
                     THEN [please EXCEPT ![p].left = ParallelTTL]
                     ELSE please
        /\ UNCHANGED <<state, attempts, claims, results>>

(* POST renew-parallel-lease: fenced by worker and attempt, in any state. *)
RenewParallel(c) ==
    LET p == c.packet
    IN  /\ ParallelFenced(p, c.worker, c.attempt)
        /\ please' = [please EXCEPT ![p].left = ParallelTTL]
        /\ UNCHANGED <<state, attempts, lease, claims, results>>

(* Altered forms of ReleaseFenced: no token is compared, and the attempt is  *)
(* not.                                                                     *)
AlteredReleaseFenced(c) == lease[c.packet] # NoLease

AlteredReleaseFencedByLease(c) ==
    LET row == lease[c.packet]
    IN  row # NoLease => row.worker = c.worker /\ row.id = c.lease

(* PacketService.release: all three tokens must match when a lease row      *)
(* exists, and the packet must be RUNNING.  Expiry is not looked at.        *)
ReleaseFenced(c) ==
    LET row == lease[c.packet]
    IN  row # NoLease => /\ row.worker = c.worker
                         /\ row.id = c.lease
                         /\ row.attempt = c.attempt

Release(c, status) ==
    LET p == c.packet
        to == ReleaseTarget(status)
    IN  /\ ReleaseFenced(c)
        /\ state[p] = RUNNING
        /\ Transition(p, to)
        /\ lease' = [lease EXCEPT ![p] = NoLease]
        /\ results' = results \cup {[packet |-> p, worker |-> c.worker,
                                     attempt |-> c.attempt, to |-> to]}
        /\ UNCHANGED <<attempts, claims>>

(* PacketService.retry.  An exhausted packet is failed instead; from        *)
(* BLOCKED_RECOVERABLE that transition is refused and nothing happens.      *)
Exhausted(p) == MaxAttempts # 0 /\ attempts[p] >= MaxAttempts

RetryTarget(p) == IF Exhausted(p) THEN FAILED ELSE READY

RetryAccepted(p) ==
    /\ state[p] \in {REJECTED, BLOCKED_RECOVERABLE}
    /\ CanTransition(state[p], RetryTarget(p))

Retry(p) ==
    /\ RetryAccepted(p)
    /\ AfterTransition(p, RetryTarget(p))
    /\ UNCHANGED <<attempts, lease, claims, results>>

(* Altered form of CancelAccepted: the transition table is not asked. *)
AlteredCancelAccepted(p) == state[p] \notin TerminalStates

(* PacketService.cancel *)
CancelAccepted(p) ==
    /\ state[p] \notin TerminalStates
    /\ CanTransition(state[p], CANCELLED)

Cancel(p) ==
    /\ CancelAccepted(p)
    /\ AfterTransition(p, CANCELLED)
    /\ lease' = [lease EXCEPT ![p] = NoLease]
    /\ UNCHANGED <<attempts, claims, results>>

(* The merge pipeline's two outcomes for an ACCEPTED packet: the transition *)
(* to MERGED of a packet that reworks no other, and PacketService.block     *)
(* when its target went stale.                                              *)
Merge(p) ==
    /\ state[p] = ACCEPTED
    /\ Transition(p, MERGED)
    /\ UNCHANGED <<attempts, lease, claims, results>>

BlockStale(p) ==
    /\ state[p] = ACCEPTED
    /\ Transition(p, BLOCKED_RECOVERABLE)
    /\ UNCHANGED <<attempts, lease, claims, results>>

(* Altered form of LeaseScan: a reclaimed attempt is not counted. *)
AlteredLeaseScan ==
    LET lapsed == {p \in Packet : Overdue(lease[p])}
    IN  /\ state' = [p \in Packet |-> IF p \in lapsed THEN READY ELSE state[p]]
        /\ lease' = [p \in Packet |-> IF p \in lapsed THEN NoLease ELSE lease[p]]
        /\ attempts' = [p \in Packet |->
                IF p \in lapsed THEN attempts[p] - 1 ELSE attempts[p]]
        /\ please' = Expired(state')
        /\ UNCHANGED <<claims, results>>

(* lease_manager.check_expired_leases: one sweep over the overdue rows,     *)
(* then the expiry of reservations in the same session.                     *)
LeaseScan ==
    /\ state' = [p \in Packet |->
            IF Overdue(lease[p]) /\ state[p] = RUNNING
            THEN READY ELSE state[p]]
    /\ lease' = [p \in Packet |->
            IF Overdue(lease[p]) THEN NoLease ELSE lease[p]]
    /\ please' = Expired(state')
    /\ UNCHANGED <<attempts, claims, results>>

(* stuck_scanner.run_stuck_scan, as far as packets and leases go: RUNNING   *)
(* packets with no lease or an overdue one, then leases of packets that are *)
(* not RUNNING.                                                             *)
StuckScan ==
    /\ state' = [p \in Packet |->
            IF state[p] = RUNNING /\ (lease[p] = NoLease \/ Overdue(lease[p]))
            THEN READY ELSE state[p]]
    /\ lease' = [p \in Packet |->
            IF state'[p] = RUNNING THEN lease[p] ELSE NoLease]
    /\ UNCHANGED <<attempts, please, claims, results>>

(* One tick of the clock.  A row overdue by more than the grace period      *)
(* stays equally overdue.                                                   *)
Aged(row) ==
    IF row # NoLease /\ row.left >= -Grace
    THEN [row EXCEPT !.left = @ - 1] ELSE row

Tick ==
    /\ lease' = [p \in Packet |-> Aged(lease[p])]
    /\ please' = [p \in Packet |-> Aged(please[p])]
    /\ UNCHANGED <<state, attempts, claims, results>>

Next ==
    \/ \E p \in Packet :
          \/ PromoteDraft(p)
          \/ \E w \in WorkerId : Claim(p, w)
          \/ Retry(p)
          \/ Cancel(p)
          \/ Merge(p)
          \/ BlockStale(p)
    \/ \E c \in claims :
          \/ Renew(c)
          \/ RenewParallel(c)
          \/ \E status \in ReleaseStatus : Release(c, status)
    \/ ClaimNothing
    \/ LeaseScan
    \/ StuckScan
    \/ Tick

(* The lifespan task runs both scans for as long as the process lives, and  *)
(* time passes; no client is ever obliged to do anything.                   *)
Fairness == WF_vars(Tick) /\ WF_vars(LeaseScan) /\ WF_vars(StuckScan)

Spec == Init /\ [][Next]_vars /\ Fairness
-----------------------------------------------------------------------------
(* A lease row exists exactly while its packet is RUNNING: no handler or    *)
(* scan leaves an orphan lease behind, and none leaves a RUNNING packet     *)
(* that release would accept without any token (stuck_scanner.py:242).      *)
LeaseIffRunning ==
    \A p \in Packet : lease[p] # NoLease <=> state[p] = RUNNING

(* The row belongs to the packet's latest claim, and was handed out as that *)
(* claim's token: nobody else's token carries its attempt.                  *)
LeaseIsLatestClaim ==
    \A p \in Packet : lease[p] # NoLease =>
        /\ lease[p].attempt = attempts[p]
        /\ \A c \in claims : c.packet = p /\ c.attempt = attempts[p] =>
              c.worker = lease[p].worker /\ c.lease = lease[p].id

(* Live rows never share an id although SQLite reuses the ids of deleted    *)
(* ones.                                                                    *)
DistinctLeaseIds ==
    \A p, q \in Leased : lease[p].id = lease[q].id => p = q

(* With parallel claims on, a packet keeps the reservation of its latest    *)
(* claim for as long as it is RUNNING or ACCEPTED, however late the clock:  *)
(* its scope stays blocked for others until the merge or a give-up.         *)
ReservationCovers ==
    Parallel => \A p \in Packet : state[p] \in {RUNNING, ACCEPTED} =>
        /\ please[p] # NoLease
        /\ please[p].attempt = attempts[p]
        /\ state[p] = RUNNING => please[p].worker = lease[p].worker

(* However requests are delayed, repeated or reordered, an attempt has at   *)
(* most one recorded result, and the worker it was handed to recorded it.   *)
OneResultPerAttempt ==
    /\ \A r, s \in results :
          r.packet = s.packet /\ r.attempt = s.attempt => r = s
    /\ \A r \in results : \E c \in claims :
          c.packet = r.packet /\ c.attempt = r.attempt /\ c.worker = r.worker

(* Tokens and results are numbered by the attempts handed out so far, and   *)
(* the open attempt has no result yet.                                      *)
ClaimsNumbered ==
    \A c \in claims : c.attempt <= attempts[c.packet]

ResultsNumbered ==
    \A r \in results :
        /\ r.attempt <= attempts[r.packet]
        /\ lease[r.packet] # NoLease => r.attempt # attempts[r.packet]

(* The inductive invariant: every action preserves this conjunction, and    *)
(* each of the invariants above follows from it.                            *)
LeaseInv ==
    /\ TypeOK
    /\ LeaseIffRunning
    /\ LeaseIsLatestClaim
    /\ DistinctLeaseIds
    /\ ReservationCovers
    /\ ClaimsNumbered
    /\ ResultsNumbered
    /\ OneResultPerAttempt

(* W01 fencing: a result is recorded only for the packet's latest claim.  A *)
(* worker whose lease was reclaimed and claimed again cannot release it,    *)
(* not even one that holds the same worker id and a reused lease id.        *)
ResultsAreCurrent ==
    [][\A r \in results' \ results : r.attempt = attempts[r.packet]]_vars

(* A worker keeps its packet through the whole lease time and the grace     *)
(* period after it: until then only a release or a cancel takes the row.    *)
GraceRespected ==
    [][\A p \in Packet :
          /\ lease[p] # NoLease /\ lease[p].left >= -Grace
          /\ lease'[p] = NoLease \/ lease'[p].attempt # lease[p].attempt
          => state'[p] \in {CANCELLED, ACCEPTED, REJECTED, FAILED,
                            BLOCKED_FINAL, BLOCKED_RECOVERABLE}]_vars

(* Packets move only along the transition table, up to the two steps the    *)
(* code takes outside it: a scanner returns RUNNING to READY, and a claim   *)
(* passes through READY.  In particular MERGED and CANCELLED are final and  *)
(* an ACCEPTED packet is never executed again without having been blocked.  *)
AllowedMoves ==
    [][\A p \in Packet : state'[p] # state[p] =>
          \/ CanTransition(state[p], state'[p])
          \/ state[p] = RUNNING /\ state'[p] = READY
          \/ state[p] \in ClaimableStates /\ state'[p] = RUNNING]_vars

(* A RUNNING packet whose lease lapsed is eventually taken away from its    *)
(* worker: the lapsed lease can no longer be renewed, so the scan gets it.  *)
LapsedLeaseReclaimed ==
    \A p \in Packet :
        lease[p] # NoLease /\ lease[p].left < 0 ~> lease[p] = NoLease

(* The refinement mapping: an attempt is open while the packet has a lease  *)
(* row, and its owner is the worker and attempt the row names.              *)
Owner ==
    [p \in Packet |->
        IF lease[p] = NoLease THEN {}
        ELSE {[worker |-> lease[p].worker, attempt |-> lease[p].attempt]}]

Attempt == INSTANCE ExclusiveAttempts
    WITH Outcome <- PacketState,
         owner <- Owner, epoch <- attempts, recorded <- results

(* The whole protocol implements the promise: every handler, scan and tick  *)
(* is a grant, a finish by the owner, a revocation or nothing.              *)
ImplementsExclusiveAttempts == Attempt!ASpec
=============================================================================
