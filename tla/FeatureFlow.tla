----------------------------- MODULE FeatureFlow -----------------------------
(***************************************************************************)
(* The way of whole features through the system (parallel claims): the     *)
(* claim queue of services/safe_queue_claim_service.py, the wave gate and   *)
(* the feature gate (core/wave_gate.py, core/feature_gate.py), and rework:  *)
(* services/rework_packet_service.py with the verdict handler of            *)
(* services/packet_execution_completion_service.py and the retirement of    *)
(* ancestors in services/packet_service.py.                                 *)
(*                                                                          *)
(* A packet's life is coarser here than in PacketLease: ownership is left   *)
(* to that module, and "stale" says that an execution which lost its packet *)
(* (reclaimed or cancelled) is still running and may yet give a verdict.    *)
(*                                                                          *)
(* Packets are numbered in the order of their creation, features in the     *)
(* order the queue serves them.                                             *)
(***************************************************************************)
EXTENDS PacketStates, Integers, Sequences, FiniteSets

CONSTANTS
    Plan,           \* the materialised packets: feature, wave, deps, area
    LastWave,       \* the number of waves of each feature
    MaxConcurrency, \* get_max_concurrency()
    MaxAttempts,    \* packets.max_attempts
    Outcomes,       \* bound: the statuses executions report
    Executions,     \* bound: executions of each packet
    MaxPackets      \* bound: packets, replacements included

Feature == DOMAIN LastWave
Area == UNION {Plan[p].area : p \in DOMAIN Plan}

ASSUME FlowAssumption ==
    /\ MaxConcurrency \in Nat \ {0} /\ MaxAttempts \in Nat
    /\ Outcomes \subseteq ReleaseStatus
    /\ LastWave \in Seq(Nat)
    /\ Plan \in Seq([feature : Feature, wave : Nat, deps : SUBSET Nat,
                     area : SUBSET Area])
    /\ MaxPackets \in Nat /\ Len(Plan) <= MaxPackets
    /\ Executions \in [1 .. MaxPackets -> Nat]
    /\ \A p \in DOMAIN Plan :
          /\ Plan[p].wave \in 1 .. LastWave[Plan[p].feature]
          /\ Plan[p].deps \subseteq DOMAIN Plan

WaveOf == UNION {{f} \X (1 .. LastWave[f]) : f \in Feature}

VARIABLES
    feature,    \* features.status
    wave,       \* waves.status
    packets     \* the packet rows, in the order of their creation

fvars == <<feature, wave, packets>>

FeatureStatus == {"queued", "active", "degraded", "done", "COMPLETED"}
WaveStatus == {"PLANNED", "IN_PROGRESS", "DEGRADED", "COMPLETED"}

(* The verdicts and the operator's decision a replacement may come from.    *)
Source == {"evidence_verifier", "reviewer", "architect_repack"}

(* parent and source are of a replacement only; judged: the execution owning *)
(* the packet has asked for rework; held: a live parallel reservation.       *)
PacketRow ==
    [feature : Feature, wave : Nat, deps : SUBSET Nat, area : SUBSET Area,
     parent : Nat, source : Source \cup {"plan"}, state : PacketState,
     attempts : Nat, held : BOOLEAN, judged : BOOLEAN, stale : BOOLEAN]

FTypeOK ==
    /\ feature \in [Feature -> FeatureStatus]
    /\ wave \in [WaveOf -> WaveStatus]
    /\ packets \in Seq(PacketRow) /\ Len(packets) <= MaxPackets

Row(f, w, deps, area, parent, source, state) ==
    [feature |-> f, wave |-> w, deps |-> deps, area |-> area,
     parent |-> parent, source |-> source, state |-> state,
     attempts |-> 0, held |-> FALSE, judged |-> FALSE, stale |-> FALSE]

(* What _materialize_plan leaves: the first wave READY, the others DRAFT.   *)
FInit ==
    /\ feature = [f \in Feature |-> "queued"]
    /\ wave = [fw \in WaveOf |-> IF fw[2] = 1 THEN "IN_PROGRESS" ELSE "PLANNED"]
    /\ packets = [p \in DOMAIN Plan |->
          Row(Plan[p].feature, Plan[p].wave, Plan[p].deps, Plan[p].area, 0,
              "plan", IF Plan[p].wave = 1 THEN READY ELSE DRAFT)]

-----------------------------------------------------------------------------
(* Reading the rows.                                                        *)
Packets == DOMAIN packets
State(p) == packets[p].state
Of(f) == {p \in Packets : packets[p].feature = f}
InWave(f, w) == {p \in Of(f) : packets[p].wave = w}
Busy == {p \in Packets : State(p) \in {RUNNING, ACCEPTED}}
Done(p) == State(p) \in {MERGED, CANCELLED}
Exhausted(p) == packets[p].attempts >= MaxAttempts
Least(S) == CHOOSE n \in S : \A m \in S : n <= m

LiveChildren(p) ==
    {c \in Packets : packets[c].parent = p /\ State(c) # CANCELLED}

(* effective_rework_packets: the packets no live replacement stands for.    *)
Effective(S) == {p \in S : LiveChildren(p) = {}}

Degrading(p) ==
    \/ State(p) \in {FAILED, BLOCKED_FINAL}
    \/ State(p) = REJECTED /\ Exhausted(p)

(* The packet a dependency's title stands for: the parent's chain is        *)
(* followed for as long as there is exactly one live replacement.           *)
Standing[p \in Packets] ==
    IF Cardinality(LiveChildren(p)) = 1
    THEN Standing[CHOOSE c \in LiveChildren(p) : TRUE]
    ELSE p

Ancestors[p \in Packets] ==
    IF packets[p].parent = 0 THEN {}
    ELSE {packets[p].parent} \cup Ancestors[packets[p].parent]

(* Altered form of DependenciesSatisfied: a superseded packet is enough.    *)
AlteredDependenciesSatisfied(p) ==
    \A d \in packets[p].deps : Done(Standing[d]) \/ Standing[d] # d

DependenciesSatisfied(p) == \A d \in packets[p].deps : Done(Standing[d])

(* Altered form of CanRunTogether: what waits for its merge is not counted. *)
AlteredCanRunTogether(p) ==
    \A q \in Packets :
        packets[q].held /\ State(q) # ACCEPTED =>
            packets[p].area \cap packets[q].area = {}

(* Of all reservations that are active, its own included, none is for       *)
(* anything the packet would write to.                                      *)
CanRunTogether(p) ==
    \A q \in Packets :
        packets[q].held => packets[p].area \cap packets[q].area = {}

-----------------------------------------------------------------------------
(* The claim transaction.  The first active feature is served; if there is  *)
(* none, a degraded one that has a READY replacement, then a queued one.    *)
ReadyReworks(f) ==
    {p \in Effective(Of(f)) : State(p) = READY /\ packets[p].parent # 0}
WithStatus(s) == {f \in Feature : feature[f] = s}
Recoverable == {f \in WithStatus("degraded") : ReadyReworks(f) # {}}

Selection ==
    LET waiting == IF WithStatus("active") # {} THEN WithStatus("active")
                   ELSE IF Recoverable # {} THEN Recoverable
                   ELSE WithStatus("queued")
    IN  IF waiting = {} THEN {} ELSE {Least(waiting)}

Reopened(f) ==
    [fw \in WaveOf |->
        IF /\ fw[1] = f /\ feature[f] = "degraded"
           /\ \E p \in ReadyReworks(f) : packets[p].wave = fw[2]
        THEN "IN_PROGRESS" ELSE wave[fw]]

(* Altered form of OpenWaves: waves that only wait for someone are skipped. *)
AlteredOpenWaves(f) ==
    {w \in 1 .. LastWave[f] :
        \E p \in Effective(InWave(f, w)) :
            ~Done(p) /\ State(p) # BLOCKED_RECOVERABLE}

OpenWaves(f) ==
    {w \in 1 .. LastWave[f] : \E p \in Effective(InWave(f, w)) : ~Done(p)}

(* Altered form of Frontier: READY packets are looked for wherever they are. *)
AlteredFrontier(f) == Effective(Of(f))

Frontier(f) == Effective(InWave(f, Least(OpenWaves(f))))
HasRoom == Cardinality(Busy) < MaxConcurrency
Degraded(f) == OpenWaves(f) # {} /\ \E p \in Frontier(f) : Degrading(p)
Finished(f) == OpenWaves(f) = {} /\ Of(f) # {}

Candidates(f) ==
    IF OpenWaves(f) = {} \/ Degraded(f) \/ ~HasRoom THEN {}
    ELSE {p \in Frontier(f) : /\ State(p) = READY
                              /\ DependenciesSatisfied(p)
                              /\ CanRunTogether(p)}

Claim(f) ==
    /\ Candidates(f) # {}
    /\ LET p == Least(Candidates(f)) IN
          /\ packets[p].attempts < Executions[p]
          /\ packets' = [packets EXCEPT ![p].state = RUNNING,
                           ![p].attempts = @ + 1, ![p].held = TRUE,
                           ![p].judged = FALSE]
    /\ feature' = [feature EXCEPT ![f] = "active"]
    /\ wave' = Reopened(f)

Degrade(f) ==
    /\ HasRoom /\ Degraded(f)
    /\ feature' = [feature EXCEPT ![f] = "degraded"]
    /\ wave' = Reopened(f)
    /\ UNCHANGED packets

Finish(f) ==
    /\ HasRoom /\ Finished(f)
    /\ feature' = [feature EXCEPT ![f] = "done"]
    /\ wave' = Reopened(f)
    /\ UNCHANGED packets

(* The answer is "wait"; the choice of the feature is kept.                 *)
Wait(f) ==
    /\ Candidates(f) = {}
    /\ HasRoom => ~Degraded(f) /\ ~Finished(f)
    /\ feature' = [feature EXCEPT ![f] = "active"]
    /\ wave' = Reopened(f)
    /\ UNCHANGED packets

ClaimNext ==
    \E f \in Selection : Claim(f) \/ Degrade(f) \/ Finish(f) \/ Wait(f)

-----------------------------------------------------------------------------
(* The gates, each a pass over one feature.                                 *)
AllDone(S) == S # {} /\ \A p \in S : Done(p)
GateDegraded(S) ==
    \E p \in S : State(p) \in {FAILED, REJECTED, BLOCKED_RECOVERABLE,
                               BLOCKED_FINAL}

WaveIsOver(f, w) == AllDone(Effective(InWave(f, w)))

WaveAfterGate(f, w) ==
    CASE w < LastWave[f] /\ WaveIsOver(f, w) -> "COMPLETED"
      [] w < LastWave[f] /\ GateDegraded(Effective(InWave(f, w))) -> "DEGRADED"
      [] w > 1 /\ WaveIsOver(f, w - 1) -> "IN_PROGRESS"
      [] OTHER -> wave[<<f, w>>]

WaveGate(f) ==
    /\ wave' = [fw \in WaveOf |->
          IF fw[1] = f THEN WaveAfterGate(f, fw[2]) ELSE wave[fw]]
    /\ packets' = [p \in Packets |->
          IF /\ p \in Of(f) /\ State(p) = DRAFT /\ packets[p].wave > 1
             /\ WaveIsOver(f, packets[p].wave - 1)
          THEN [packets[p] EXCEPT !.state = READY] ELSE packets[p]]
    /\ UNCHANGED feature

FeatureGate(f) ==
    /\ feature[f] # "COMPLETED" /\ AllDone(Of(f))
    /\ feature' = [feature EXCEPT ![f] = "COMPLETED"]
    /\ UNCHANGED <<wave, packets>>

-----------------------------------------------------------------------------
(* What happens to a claimed packet, as far as the queue can see.           *)

(* A transition of the packet; entering a releasing state frees its area.   *)
Moved(p, s) ==
    [packets EXCEPT ![p].state = s,
        ![p].held = @ /\ s \notin ParallelReleasingStates]

(* The release by the execution that owns the packet.  Having asked for     *)
(* rework it was not accepted; which of the other statuses the worker makes *)
(* of that, it takes from the reason's wording and the attempts left.       *)
Release(p, status) ==
    /\ State(p) = RUNNING
    /\ packets[p].judged =>
          status \in {"rejected", "blocked_recoverable", "failed"}
    /\ packets' = Moved(p, ReleaseTarget(status))
    /\ UNCHANGED <<feature, wave>>

(* The worker is silent until its lease is reclaimed; the reservation is    *)
(* left to expire, and the execution may still be running.                  *)
Reclaim(p) ==
    /\ State(p) = RUNNING
    /\ packets[p].attempts < Executions[p]
    /\ packets' = [packets EXCEPT ![p].state = READY, ![p].stale = TRUE]
    /\ UNCHANGED <<feature, wave>>

(* An operator cancels a running packet; its reservation stays as well.     *)
Cancel(p) ==
    /\ State(p) = RUNNING
    /\ packets' = [packets EXCEPT ![p].state = CANCELLED, ![p].stale = TRUE]
    /\ UNCHANGED <<feature, wave>>

(* Altered form of Lapse: the reservation counts until the packet is done.  *)
AlteredLapse(p) ==
    /\ packets[p].held /\ Done(p)
    /\ packets' = [packets EXCEPT ![p].held = FALSE]
    /\ UNCHANGED <<feature, wave>>

(* ParallelLeaseService.expire: a reservation counts for as long as its     *)
(* packet is worked on, whatever its deadline.                              *)
Lapse(p) ==
    /\ packets[p].held /\ p \notin Busy
    /\ packets' = [packets EXCEPT ![p].held = FALSE]
    /\ UNCHANGED <<feature, wave>>

(* PacketService.retry, by an operator.                                     *)
Retry(p) ==
    LET target == IF Exhausted(p) THEN FAILED ELSE READY IN
    /\ State(p) \in {REJECTED, BLOCKED_RECOVERABLE}
    /\ CanTransition(State(p), target)
    /\ target = READY => packets[p].attempts < Executions[p]
    /\ packets' = Moved(p, target)
    /\ UNCHANGED <<feature, wave>>

(* Altered form of Retire: only the immediate parent is retired.            *)
AlteredRetire(p, rows) ==
    [q \in Packets |->
        IF q = rows[p].parent /\ CanTransition(rows[q].state, CANCELLED)
        THEN [rows[q] EXCEPT !.state = CANCELLED] ELSE rows[q]]

(* _supersede_rework_ancestors: what the merged replacement stands for is   *)
(* cancelled wherever the transition table allows it.                       *)
Retire(p, rows) ==
    [q \in Packets |->
        IF q \in Ancestors[p] /\ CanTransition(rows[q].state, CANCELLED)
        THEN [rows[q] EXCEPT !.state = CANCELLED] ELSE rows[q]]

Merge(p) ==
    /\ State(p) = ACCEPTED
    /\ packets' = Retire(p, Moved(p, MERGED))
    /\ UNCHANGED <<feature, wave>>

(* A conflict, or a failed recheck after the merge.                         *)
MergeBlocked(p) ==
    /\ State(p) = ACCEPTED
    /\ packets' = Moved(p, BLOCKED_RECOVERABLE)
    /\ UNCHANGED <<feature, wave>>

-----------------------------------------------------------------------------
(* Rework.                                                                  *)

(* Where the replacement writes: in its parent's place.  An architect's      *)
(* repack may add to it, and where the parent has no scope a default is put. *)
Places(p, source) ==
    IF source = "architect_repack" \/ packets[p].area = {}
    THEN {place \in SUBSET Area : packets[p].area \subseteq place}
    ELSE {packets[p].area}

Child(p, source, place) ==
    Row(packets[p].feature, packets[p].wave, packets[p].deps, place,
        p, source, READY)

(* One replacement for each parent and source, unless it has failed.        *)
AlreadyReplaced(p, source) ==
    \E c \in Packets :
        /\ packets[c].parent = p /\ packets[c].source = source
        /\ State(c) \in {READY, RUNNING, REJECTED, ACCEPTED, MERGED}

(* Altered form of Replaced: nobody looks for an existing replacement.      *)
AlteredReplaced(p, source, place, rows) ==
    Append(rows, Child(p, source, place))

Replaced(p, source, place, rows) ==
    IF AlreadyReplaced(p, source) THEN rows
    ELSE Append(rows, Child(p, source, place))

(* maybe_create_rework_packet, called by an execution that the evidence     *)
(* verifier or the reviewer sends back to the coder.  Nothing asks whether  *)
(* the execution still owns the packet.                                     *)
Rework(p, source) ==
    /\ source \in {"evidence_verifier", "reviewer"}
    /\ AlreadyReplaced(p, source) \/ Len(packets) < MaxPackets
    /\ \E place \in Places(p, source) :
          \/ /\ State(p) = RUNNING /\ ~packets[p].judged
             /\ packets' = Replaced(p, source, place,
                             [packets EXCEPT ![p].judged = TRUE])
          \/ /\ packets[p].stale
             /\ packets' = Replaced(p, source, place,
                             [packets EXCEPT ![p].stale = FALSE])
    /\ UNCHANGED <<feature, wave>>

Repackable(p) ==
    \/ State(p) \in {FAILED, BLOCKED_FINAL, CANCELLED}
    \/ State(p) = REJECTED /\ Exhausted(p)

(* Altered form of Requeue: a repacked feature is served at once.           *)
AlteredRequeue(p) ==
    /\ feature' = [feature EXCEPT ![packets[p].feature] = "active"]
    /\ wave' = [wave EXCEPT
          ![<<packets[p].feature, packets[p].wave>>] = "IN_PROGRESS"]

(* _requeue_feature_for_repack, whatever the feature's status was.          *)
Requeue(p) ==
    /\ feature' = [feature EXCEPT ![packets[p].feature] =
                     IF @ = "active" THEN @ ELSE "queued"]
    /\ wave' = [wave EXCEPT
          ![<<packets[p].feature, packets[p].wave>>] = "IN_PROGRESS"]

(* create_architect_repack_packet: a live replacement refuses the request,  *)
(* unless it is the one an equal request has made.                          *)
Repack(p) ==
    /\ Repackable(p)
    /\ \/ /\ LiveChildren(p) = {} /\ Len(packets) < MaxPackets
          /\ \E place \in Places(p, "architect_repack") :
                packets' = Append(packets, Child(p, "architect_repack", place))
       \/ /\ LiveChildren(p) # {}
          /\ packets[Least(LiveChildren(p))].source = "architect_repack"
          /\ UNCHANGED packets
    /\ Requeue(p)

-----------------------------------------------------------------------------
Operator == \E p \in Packets : Cancel(p) \/ Retry(p) \/ Repack(p)

FNext ==
    \/ ClaimNext
    \/ \E f \in Feature : WaveGate(f) \/ FeatureGate(f)
    \/ \E p \in Packets, status \in Outcomes : Release(p, status)
    \/ \E p \in Packets, source \in Source : Rework(p, source)
    \/ \E p \in Packets :
          Reclaim(p) \/ Lapse(p) \/ Merge(p) \/ MergeBlocked(p)
    \/ Operator

FSpec == FInit /\ [][FNext]_fvars

(* Workers poll, executions end, accepted packets get to the merge, the     *)
(* loops of the API and the deadlines go on.  Nobody has to decide anything.*)
FFairness ==
    /\ WF_fvars(ClaimNext)
    /\ \A f \in Feature : WF_fvars(WaveGate(f)) /\ WF_fvars(FeatureGate(f))
    /\ \A p \in 1 .. MaxPackets :
          /\ WF_fvars(p \in Packets /\ \E s \in Outcomes : Release(p, s))
          /\ WF_fvars(p \in Packets /\ Lapse(p))
          /\ WF_fvars(p \in Packets /\ (Merge(p) \/ MergeBlocked(p)))

FLiveSpec == FSpec /\ FFairness

-----------------------------------------------------------------------------
(* Two packets that write to the same place are never worked on, or waiting *)
(* for their merge, at once: reservations against reclaims, cancellations,  *)
(* retries and replacements, which all leave something of the earlier       *)
(* execution behind.                                                        *)
NoOverlap ==
    \A p, q \in Busy : p # q => packets[p].area \cap packets[q].area = {}

(* At most one feature is served at a time: the queue's choice against the  *)
(* repack that puts a feature back and the reactivation of degraded ones.   *)
OneActiveFeature == Cardinality(WithStatus("active")) <= 1

(* What a merged replacement stands for is out of the way for good: no      *)
(* ancestor, however distant, can be claimed or executed again.  This rests *)
(* on a replacement keeping its ancestor's place: were the scope empty,     *)
(* as the plan compiler lets a verifier's be, nothing would keep the stale  *)
(* execution of an ancestor from being accepted beside its replacement.     *)
AncestorsRetired ==
    \A p \in Packets :
        State(p) = MERGED => \A a \in Ancestors[p] : Done(a)

(* A feature that is done or COMPLETED has no work left but what a stale    *)
(* execution asked for after the packet had been merged or cancelled.       *)
LeftoversAreStale ==
    \A p \in Packets :
        feature[packets[p].feature] \in {"done", "COMPLETED"} =>
            Done(p) \/ \E a \in Ancestors[p] : Done(a)

(* The packets that take part in d's replacement, and those it came to.     *)
Lineage(d) ==
    {p \in Packets : \/ p = d
                     \/ /\ d \in Ancestors[p] /\ State(p) # CANCELLED
                        /\ \A a \in Ancestors[p] \ Ancestors[d] :
                              a = d \/ State(a) # CANCELLED}
Forked(p) == Cardinality(LiveChildren(p)) > 1
Started(p) == State(p) = READY /\ packets'[p].state = RUNNING

(* A packet starts when all that stands for its dependencies is merged or   *)
(* cancelled; only below a finished packet that had two replacements, one   *)
(* from each verdict source, may work be left.                              *)
DependenciesServed ==
    [][\A p \in Packets : Started(p) =>
          \A d \in packets[p].deps :
              \/ \A q \in Effective(Lineage(d)) : Done(q)
              \/ \E q \in Lineage(d) : Forked(q) /\ Done(q)]_fvars

(* A packet starts when nothing of an earlier wave of its feature is left,  *)
(* replacements that came after that wave was closed included.              *)
WavesInOrder ==
    [][\A p \in Packets : Started(p) =>
          \A q \in Effective(Of(packets[p].feature)) :
              packets[q].wave < packets[p].wave => Done(q)]_fvars

WaitsForOperator(f) ==
    /\ feature[f] = "active"
    /\ \E p \in Effective(Of(f)) :
          State(p) \in {REJECTED, BLOCKED_RECOVERABLE} /\ ~Degrading(p)

(* A queued feature is served eventually, unless the active one waits for a *)
(* decision of an operator (the queue looks at no other feature meanwhile)  *)
(* or operators never stop: an old feature can be put back again and again. *)
QueueMoves ==
    <>[][~Operator]_fvars =>
        \A f \in Feature :
            feature[f] = "queued" ~>
                (feature[f] # "queued" \/ \E g \in Feature : WaitsForOperator(g))
=============================================================================
