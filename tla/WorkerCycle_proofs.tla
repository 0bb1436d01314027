------------------------- MODULE WorkerCycle_proofs -------------------------
(***************************************************************************)
(* That a worker which believes its acceptance was recorded is right, and   *)
(* that with parallel claims only the accepted attempt is ever merged, for  *)
(* any packets, workers and times, with requests lost, late and repeated.   *)
(*                                                                          *)
(* The argument: every request carries a token that was issued, so each     *)
(* step of the whole is a step of PacketLease, whose invariant holds.  The  *)
(* reservation of an ACCEPTED packet is the one of the recorded acceptance  *)
(* (AcceptedRecorded), and it is what a merge request is compared with.     *)
(***************************************************************************)
EXTENDS WorkerCycle, PacketLease_proofs

Acceptance(p, w, n) ==
    [packet |-> p, worker |-> w, attempt |-> n, to |-> ACCEPTED]

\* The reservation of an ACCEPTED packet names who was recorded.
AcceptedRecorded ==
    Parallel => \A p \in Packet : state[p] = ACCEPTED =>
        Acceptance(p, please[p].worker, attempts[p]) \in results

\* Whose result it was once the packet is MERGED.
MergesRecorded ==
    Parallel => \A p \in Packet : merged[p] # NoClaim =>
        /\ state[p] = MERGED
        /\ merged[p].attempt = attempts[p]
        /\ Acceptance(p, merged[p].worker, attempts[p]) \in results

Busy == {"executing", "releasing", "merging", "retrying"}

\* A busy worker has a token of its own, and requests under way have one.
TokensHeld ==
    \A w \in WorkerId :
        /\ phase[w] \in Busy => token[w] \in claims /\ token[w].worker = w
        /\ late[w].do \in Busy => late[w].with \in claims
        /\ beat[w].at # "none" => beat[w].with \in claims

\* A confirmed acceptance is on record.
OnRecord(w) == Acceptance(token[w].packet, w, token[w].attempt) \in results

Noted ==
    \A w \in WorkerId :
        /\ phase[w] = "releasing" /\ call[w] = "ok" /\ outcome[w] = "accepted"
              => OnRecord(w)
        /\ released[w] => phase[w] \in Busy /\ OnRecord(w)

WInv ==
    /\ LeaseInv /\ WTypeOK
    /\ TokensHeld /\ Noted
    /\ AcceptedRecorded /\ MergesRecorded

-----------------------------------------------------------------------------
(* What is on record stays there, and tokens stay issued.                   *)
LEMMA HistoryGrows ==
    ASSUME [Next]_vars
    PROVE  claims \subseteq claims' /\ results \subseteq results'
  BY DEF Next, vars, PromoteDraft, Claim, Retry, Cancel, Merge, BlockStale,
     Renew, RenewParallel, Release, ClaimNothing, LeaseScan, StuckScan, Tick

LEMMA StatesDiffer ==
    /\ ACCEPTED \notin {RUNNING, READY, DRAFT, FAILED, MERGED, CANCELLED,
                        BLOCKED_RECOVERABLE}
    /\ ACCEPTED \notin ClaimableStates /\ MERGED \notin ClaimableStates
    /\ ACCEPTED \notin ParallelReleasingStates
    /\ MERGED \notin {RUNNING, READY, DRAFT, REJECTED, BLOCKED_RECOVERABLE}
    /\ MERGED \in TerminalStates /\ \A to : ~ CanTransition(MERGED, to)
    /\ ACCEPTED \in PacketState
  BY DEF ClaimableStates, ParallelReleasingStates, TerminalStates, PacketState,
     CanTransition, ValidTransitions, DRAFT, READY, RUNNING, ACCEPTED, REJECTED,
     BLOCKED_RECOVERABLE, BLOCKED_FINAL, MERGED, FAILED, CANCELLED

(* MERGED is the end, and nobody claims such a packet.                      *)
LEMMA MergedStays ==
    ASSUME LeaseInv, [Next]_vars, NEW p \in Packet, state[p] = MERGED
    PROVE  state'[p] = MERGED /\ attempts'[p] = attempts[p]
  <1> USE StatesDiffer DEF LeaseInv, TypeOK
  <1>1. ASSUME NEW q \in Packet, NEW w \in WorkerId, Claim(q, w)
        PROVE  state'[p] = MERGED /\ attempts'[p] = attempts[p]
    BY <1>1 DEF Claim
  <1>2. ASSUME NEW q \in Packet, NEW to, Transition(q, to)
        PROVE  state'[p] = MERGED
    BY <1>2 DEF Transition, AfterTransition
  <1>3. ASSUME NEW q \in Packet, Retry(q) \/ Merge(q) \/ BlockStale(q)
        PROVE  state'[p] = MERGED /\ attempts'[p] = attempts[p]
    BY <1>2, <1>3, RetryTransition DEF Retry, Merge, BlockStale
  <1>4. ASSUME NEW q \in Packet, Cancel(q) \/ PromoteDraft(q)
        PROVE  state'[p] = MERGED /\ attempts'[p] = attempts[p]
    BY <1>4 DEF Cancel, CancelAccepted, AfterTransition, PromoteDraft
  <1>5. ASSUME NEW c \in claims, NEW status \in ReleaseStatus, Release(c, status)
        PROVE  state'[p] = MERGED /\ attempts'[p] = attempts[p]
    <2>1. c.packet \in Packet
      BY DEF ClaimResult
    <2> QED BY <1>2, <1>5, <2>1 DEF Release
  <1>6. CASE LeaseScan \/ StuckScan
    BY <1>6 DEF LeaseScan, StuckScan
  <1>7. CASE UNCHANGED <<state, attempts>>
    BY <1>7
  <1> QED
    BY <1>1, <1>3, <1>4, <1>5, <1>6, <1>7 DEF Next, vars, Renew, RenewParallel,
       ClaimNothing, Tick

\* Sweeps and ticks leave the reservation of an ACCEPTED packet to its owner.
LEMMA AcceptedKeepsReservation ==
    ASSUME LeaseInv, Parallel, [Next]_vars, NEW p \in Packet,
           state[p] = ACCEPTED, state'[p] = ACCEPTED
    PROVE  attempts'[p] = attempts[p] /\ please'[p].worker = please[p].worker
  <1> USE StatesDiffer DEF LeaseInv, TypeOK
  <1>r. please[p] \in Reservation
    BY DEF ReservationCovers
  <1>1. ASSUME NEW q \in Packet, NEW w \in WorkerId, Claim(q, w)
        PROVE  attempts'[p] = attempts[p] /\ please'[p].worker = please[p].worker
    <2>1. q # p
      BY <1>1 DEF Claim
    <2>2. attempts'[p] = attempts[p]
      BY <1>1, <2>1 DEF Claim
    <2>3. please'[p] = Expired(state)[p]
      BY <1>1, <2>1, ExpiredType DEF Claim
    <2> QED BY <2>2, <2>3 DEF Expired
  <1>2. ASSUME NEW q \in Packet, NEW to, AfterTransition(q, to), to # ACCEPTED
        PROVE  please'[p] = please[p]
    <2>1. q # p
      BY <1>2 DEF AfterTransition
    <2> QED BY <1>2, <2>1 DEF AfterTransition
  <1>3. ASSUME NEW q \in Packet, Retry(q) \/ Merge(q) \/ BlockStale(q) \/ Cancel(q)
        PROVE  attempts'[p] = attempts[p] /\ please'[p].worker = please[p].worker
    BY <1>2, <1>3 DEF Retry, RetryTarget, Merge, BlockStale, Cancel, Transition
  <1>4. ASSUME NEW c \in claims, NEW status \in ReleaseStatus, Release(c, status)
        PROVE  attempts'[p] = attempts[p] /\ please'[p].worker = please[p].worker
    <2>1. c.packet \in Packet /\ c.packet # p
      BY <1>4 DEF ClaimResult, Release
    <2> QED BY <1>4, <2>1 DEF Release, Transition, AfterTransition
  <1>5. ASSUME NEW c \in claims, Renew(c) \/ RenewParallel(c)
        PROVE  attempts'[p] = attempts[p] /\ please'[p].worker = please[p].worker
    <2>1. \/ please' = [please EXCEPT ![c.packet].left = ParallelTTL]
          \/ please' = please
      BY <1>5 DEF Renew, RenewParallel
    <2>2. please'[p].worker = please[p].worker
      <3>1. CASE please' = [please EXCEPT ![c.packet].left = ParallelTTL] /\ c.packet = p
        BY <1>r, <3>1 DEF Reservation
      <3>2. CASE please' = [please EXCEPT ![c.packet].left = ParallelTTL] /\ c.packet # p
        BY <3>2
      <3>3. CASE please' = please
        BY <3>3
      <3> QED BY <2>1, <3>1, <3>2, <3>3
    <2> QED BY <1>5, <2>2 DEF Renew, RenewParallel
  <1>6. CASE LeaseScan \/ ClaimNothing
    BY <1>6 DEF LeaseScan, ClaimNothing, Expired
  <1>7. CASE Tick
    BY <1>r, <1>7, AgedReservation, LeaseAssumption DEF Tick
  <1>8. CASE UNCHANGED <<attempts, please>>
    BY <1>8
  <1> QED
    BY <1>1, <1>3, <1>4, <1>5, <1>6, <1>7, <1>8 DEF Next, vars, PromoteDraft, StuckScan

\* A packet becomes ACCEPTED by a release only, of the latest claim, whose
\* worker the reservation names.
LEMMA AcceptedByRelease ==
    ASSUME LeaseInv, Parallel, [Next]_vars, NEW p \in Packet,
           state[p] # ACCEPTED, state'[p] = ACCEPTED
    PROVE  Acceptance(p, please'[p].worker, attempts'[p]) \in results'
  <1> USE StatesDiffer DEF LeaseInv, TypeOK
  <1>1. ASSUME NEW q \in Packet, NEW w \in WorkerId, Claim(q, w)
        PROVE  FALSE
    BY <1>1 DEF Claim
  <1>2. ASSUME NEW q \in Packet, NEW to, AfterTransition(q, to), to # ACCEPTED
        PROVE  FALSE
    BY <1>2 DEF AfterTransition
  <1>3. ASSUME NEW q \in Packet, Retry(q) \/ Merge(q) \/ BlockStale(q) \/ Cancel(q)
        PROVE  FALSE
    BY <1>2, <1>3 DEF Retry, RetryTarget, Merge, BlockStale, Cancel, Transition
  <1>4. ASSUME NEW q \in Packet, PromoteDraft(q)
        PROVE  FALSE
    BY <1>4 DEF PromoteDraft
  <1>5. ~ LeaseScan /\ ~ StuckScan /\ state' # state
    BY DEF LeaseScan, StuckScan
  <1>6. PICK c \in claims, status \in ReleaseStatus : Release(c, status)
    BY <1>1, <1>3, <1>4, <1>5 DEF Next, vars, Renew, RenewParallel, ClaimNothing, Tick
  <1>7. c.packet = p /\ ReleaseTarget(status) = ACCEPTED
    <2>1. c.packet \in Packet
      BY DEF ClaimResult
    <2> QED BY <1>6, <2>1 DEF Release, Transition, AfterTransition
  <1>8. please' = please /\ attempts' = attempts
    BY <1>6, <1>7 DEF Release, Transition, AfterTransition
  <1>9. lease[p] # NoLease /\ state[p] = RUNNING
    BY <1>6, <1>7 DEF Release, LeaseIffRunning
  <1>10. c.worker = please[p].worker /\ c.attempt = attempts[p]
    BY <1>6, <1>7, <1>9 DEF Release, ReleaseFenced, LeaseIsLatestClaim, ReservationCovers
  <1>11. results' = results \cup {Acceptance(p, c.worker, c.attempt)}
    BY <1>6, <1>7 DEF Release, Acceptance
  <1> QED BY <1>8, <1>10, <1>11

LEMMA AcceptedStep ==
    ASSUME LeaseInv, AcceptedRecorded, [Next]_vars
    PROVE  AcceptedRecorded'
  <1> SUFFICES ASSUME Parallel, NEW p \in Packet, state'[p] = ACCEPTED
               PROVE  Acceptance(p, please'[p].worker, attempts'[p]) \in results'
    BY DEF AcceptedRecorded, Acceptance
  <1>1. CASE state[p] = ACCEPTED
    BY <1>1, AcceptedKeepsReservation, HistoryGrows DEF AcceptedRecorded
  <1>2. CASE state[p] # ACCEPTED
    BY <1>2, AcceptedByRelease
  <1> QED BY <1>1, <1>2

-----------------------------------------------------------------------------
(* Every step of a worker or of the server, late answers included, is a step *)
(* of PacketLease, because it presents a token that was issued.             *)
LEMMA VarsStep ==
    ASSUME WTypeOK, TokensHeld, WNext
    PROVE  [Next]_vars
  <1> USE DEF WTypeOK, TypeOK, Busy
  <1>p. \A c \in claims : c.packet \in Packet
    BY DEF ClaimResult
  <1>s. \A w \in WorkerId : outcome[w] \in ReleaseStatus /\ late[w].status \in ReleaseStatus
    OBVIOUS
  <1>1. CASE Server
    BY <1>1 DEF Server, Next
  <1>2. ASSUME NEW w \in WorkerId, NEW p \in Packet, WClaim(w, p) \/ WClaimLost(w, p)
        PROVE  Next
    BY <1>2 DEF WClaim, WClaimLost, Next
  <1>3. ASSUME NEW w \in WorkerId,
               \/ WExecuted(w) \/ WAbandon(w) \/ WReleased(w) \/ WMergeTurn(w)
               \/ WCycleDone(w) \/ BeatSend(w) \/ BeatAnswered(w) \/ LoseCall(w)
               \/ GiveUpCall(w) \/ LoseBeat(w) \/ Crash(w)
        PROVE  UNCHANGED vars
    BY <1>3 DEF WExecuted, WAbandon, WReleased, WMergeTurn, WCycleDone, BeatSend,
       BeatAnswered, LoseCall, GiveUpCall, LoseBeat, Crash
  <1>4. ASSUME NEW w \in WorkerId, ServeRelease(w) PROVE [Next]_vars
    <2>1. token[w] \in claims
      BY <1>4 DEF ServeRelease, TokensHeld
    <2> QED BY <1>s, <1>4, <2>1 DEF ServeRelease, Next
  <1>5. ASSUME NEW w \in WorkerId, ServeRetry(w) PROVE [Next]_vars
    <2>1. token[w] \in claims
      BY <1>5 DEF ServeRetry, TokensHeld
    <2> QED BY <1>p, <1>5, <2>1 DEF ServeRetry, Next
  <1>6. ASSUME NEW w \in WorkerId, ServeMerge(w) PROVE [Next]_vars
    <2>1. token[w] \in claims
      BY <1>6 DEF ServeMerge, TokensHeld
    <2> QED BY <1>p, <1>6, <2>1 DEF ServeMerge, MergeWith, BlockWith, Next
  <1>7. ASSUME NEW w \in WorkerId, ServeLate(w) PROVE [Next]_vars
    <2>1. CASE late[w].do \in {"releasing", "retrying", "merging"}
      <3>1. late[w].with \in claims
        BY <2>1 DEF TokensHeld
      <3> QED BY <1>p, <1>s, <1>7, <3>1 DEF ServeLate, MergeWith, BlockWith, Next
    <2>2. CASE late[w].do \notin {"releasing", "retrying", "merging"}
      BY <1>7, <2>2 DEF ServeLate
    <2> QED BY <2>1, <2>2
  <1>8. ASSUME NEW w \in WorkerId, ServeBeat(w) PROVE [Next]_vars
    <2>1. beat[w].with \in claims
      BY <1>8 DEF ServeBeat, TokensHeld
    <2> QED BY <1>8, <2>1 DEF ServeBeat, Next
  <1> QED
    BY <1>1, <1>2, <1>3, <1>4, <1>5, <1>6, <1>7, <1>8 DEF WNext, MainStep, BeatStep

-----------------------------------------------------------------------------
(* What the workers know, and the step that extends it.                     *)
Known == WTypeOK /\ TokensHeld /\ Noted

Grown == TypeOK' /\ claims \subseteq claims' /\ results \subseteq results'

LEMMA EndCycleKnown ==
    ASSUME Known, Grown, NEW w \in WorkerId, EndCycle(w)
    PROVE  Known'
  <1> USE DEF Known, Grown, EndCycle
  <1>1. WTypeOK'
    BY DEF WTypeOK, Phase
  <1>2. TokensHeld'
    BY DEF TokensHeld, WTypeOK, Busy
  <1>3. Noted'
    BY DEF Noted, OnRecord, Acceptance, WTypeOK, Busy
  <1> QED BY <1>1, <1>2, <1>3

LEMMA ClaimKnown ==
    ASSUME Known, Grown, NEW w \in WorkerId, NEW p \in Packet, WClaim(w, p)
    PROVE  Known'
  <1> USE DEF Known, Grown
  <1>1. PICK c \in claims' \ claims : token' = [token EXCEPT ![w] = c]
    BY DEF WClaim
  <1>2. c.worker = w
    <2>1. PICK id : claims' = claims \cup
             {[packet |-> p, worker |-> w, lease |-> id, attempt |-> attempts[p] + 1]}
      BY DEF WClaim, Claim
    <2> QED BY <1>1, <2>1
  <1>3. WTypeOK'
    BY <1>1 DEF WClaim, GoTo, WTypeOK, Phase
  <1>4. TokensHeld'
    BY <1>1, <1>2 DEF WClaim, GoTo, TokensHeld, WTypeOK, Busy
  <1>5. Noted'
    BY <1>1 DEF WClaim, GoTo, Noted, OnRecord, Acceptance, WTypeOK, Busy
  <1> QED BY <1>3, <1>4, <1>5

LEMMA IdleKnown ==
    ASSUME Known, Grown, UNCHANGED wvars
    PROVE  Known'
  <1> USE DEF Known, Grown, wvars
  <1>1. WTypeOK'
    BY DEF WTypeOK
  <1>2. TokensHeld'
    BY DEF TokensHeld
  <1>3. Noted'
    BY DEF Noted, OnRecord, Acceptance
  <1> QED BY <1>1, <1>2, <1>3

LEMMA ExecutedKnown ==
    ASSUME Known, Grown, NEW w \in WorkerId, WExecuted(w)
    PROVE  Known'
  <1> USE DEF Known, Grown, WExecuted, GoTo
  <1>1. PICK status \in Outcomes(w) : outcome' = [outcome EXCEPT ![w] = status]
    OBVIOUS
  <1>2. status \in ReleaseStatus
    BY DEF Outcomes, ReleaseStatus
  <1>3. WTypeOK'
    BY <1>1, <1>2 DEF WTypeOK, Phase
  <1>4. TokensHeld'
    BY DEF TokensHeld, WTypeOK, Busy
  <1>5. Noted'
    BY <1>1 DEF Noted, OnRecord, Acceptance, WTypeOK, Busy
  <1> QED BY <1>3, <1>4, <1>5

(* An answer; only a release that succeeds gives its worker more to know.   *)
LEMMA ReplyKnown ==
    ASSUME Known, Grown, NEW w \in WorkerId, NEW a \in {"wait"} \cup Answer,
           Reply(w, a), merged' \in [Packet -> claims' \cup {NoClaim}],
           phase[w] = "releasing" /\ a = "ok" /\ outcome[w] = "accepted"
              => Acceptance(token[w].packet, w, token[w].attempt) \in results'
    PROVE  Known'
  <1> USE DEF Known, Grown, Reply
  <1>1. WTypeOK'
    BY DEF WTypeOK
  <1>2. TokensHeld'
    BY DEF TokensHeld
  <1>3. Noted'
    BY DEF Noted, OnRecord, Acceptance, WTypeOK
  <1> QED BY <1>1, <1>2, <1>3

LEMMA ReleaseKnown ==
    ASSUME Known, Grown, NEW w \in WorkerId, ServeRelease(w)
    PROVE  Known'
  <1> USE DEF Known
  <1>1. merged' \in [Packet -> claims' \cup {NoClaim}]
    BY DEF ServeRelease, Grown, WTypeOK
  <1>2. CASE Release(token[w], outcome[w]) /\ Reply(w, "ok")
    <2>1. token[w].worker = w
      BY DEF ServeRelease, TokensHeld, Busy
    <2>2. outcome[w] = "accepted"
             => Acceptance(token[w].packet, w, token[w].attempt) \in results'
      BY <1>2, <2>1 DEF Release, ReleaseTarget, Acceptance
    <2> QED BY <1>1, <1>2, <2>2, ReplyKnown DEF Answer
  <1>3. CASE Reply(w, "stale_lease")
    BY <1>1, <1>3, ReplyKnown DEF Answer
  <1> QED BY <1>2, <1>3 DEF ServeRelease

LEMMA OtherReplyKnown ==
    ASSUME Known, Grown, NEW w \in WorkerId,
           ServeRetry(w) \/ ServeMerge(w) \/ LoseCall(w)
    PROVE  Known'
  <1> USE DEF Known
  <1>1. CASE ServeRetry(w)
    <2>1. merged' \in [Packet -> claims' \cup {NoClaim}]
      BY <1>1 DEF ServeRetry, Grown, WTypeOK
    <2> QED BY <1>1, <2>1, ReplyKnown DEF ServeRetry, Answer
  <1>2. CASE ServeMerge(w)
    <2>1. token[w] \in claims
      BY <1>2 DEF ServeMerge, TokensHeld, Busy
    <2>2. merged' \in [Packet -> claims' \cup {NoClaim}]
      BY <1>2, <2>1 DEF ServeMerge, MergeWith, BlockWith, Grown, WTypeOK
    <2> QED BY <1>2, <2>2, ReplyKnown DEF ServeMerge, Answer
  <1>3. CASE LoseCall(w)
    <2>1. merged' \in [Packet -> claims' \cup {NoClaim}]
      BY <1>3 DEF LoseCall, Grown, WTypeOK
    <2> QED BY <1>3, <2>1, ReplyKnown DEF LoseCall, Answer
  <1> QED BY <1>1, <1>2, <1>3

LEMMA LateKnown ==
    ASSUME Known, Grown, NEW w \in WorkerId, GiveUpCall(w) \/ ServeLate(w)
    PROVE  Known'
  <1> USE DEF Known, Grown
  <1>1. CASE GiveUpCall(w)
    <2> USE <1>1 DEF GiveUpCall
    <2>1. PICK r : /\ r = [do |-> phase[w], with |-> token[w], status |-> outcome[w]]
                   /\ late' = [late EXCEPT ![w] = r]
      OBVIOUS
    <2>2. /\ r.do = phase[w] /\ r.with = token[w]
          /\ r \in [do : Phase \cup {"none"}, status : ReleaseStatus,
                     with : claims \cup {NoClaim}]
      BY <2>1 DEF WTypeOK
    <2>3. WTypeOK'
      <3> DEFINE Asked == [do : Phase \cup {"none"}, status : ReleaseStatus,
                           with : claims \cup {NoClaim}]
                 Asked2 == [do : Phase \cup {"none"}, status : ReleaseStatus,
                            with : claims' \cup {NoClaim}]
      <3>1. Asked \subseteq Asked2 /\ r \in Asked /\ late \in [WorkerId -> Asked]
        BY <2>2 DEF WTypeOK
      <3>2. late' \in [WorkerId -> Asked2]
        <4> HIDE DEF Asked, Asked2
        <4> QED BY <2>1, <3>1
      <3>3. phase' = phase /\ token' = token /\ outcome' = outcome
            /\ released' = released /\ loss' = loss /\ beat' = beat /\ merged' = merged
            /\ call' = [call EXCEPT ![w] = "error"]
        OBVIOUS
      <3> HIDE <1>1 DEF GiveUpCall
      <3> QED BY <3>2, <3>3 DEF WTypeOK, Answer
    <2>4. TokensHeld'
      BY <2>1, <2>2 DEF TokensHeld, WTypeOK
    <2>5. Noted'
      BY DEF Noted, OnRecord, Acceptance, WTypeOK
    <2> QED BY <2>3, <2>4, <2>5
  <1>2. CASE ServeLate(w)
    <2> USE <1>2 DEF ServeLate
    <2>1. Nothing.do \notin Busy
          /\ Nothing \in [do : Phase \cup {"none"}, status : ReleaseStatus,
                          with : claims' \cup {NoClaim}]
      BY DEF Nothing, Busy, ReleaseStatus
    <2>2. merged' \in [Packet -> claims' \cup {NoClaim}]
      <3>1. CASE late[w].do = "merging" /\ MergeWith(late[w].with)
        <4>1. late[w].with \in claims
          BY <3>1 DEF TokensHeld, Busy
        <4> QED BY <3>1, <4>1 DEF MergeWith, WTypeOK
      <3>2. CASE merged' = merged
        BY <3>2 DEF WTypeOK
      <3> QED BY <3>1, <3>2 DEF BlockWith
    <2>3. WTypeOK'
      BY <2>1, <2>2 DEF WTypeOK
    <2>4. TokensHeld'
      BY <2>1 DEF TokensHeld, WTypeOK
    <2>5. Noted'
      BY DEF Noted, OnRecord, Acceptance
    <2> QED BY <2>3, <2>4, <2>5
  <1> QED BY <1>1, <1>2

LEMMA MainKnown ==
    ASSUME Known, Grown, NEW w \in WorkerId,
           WAbandon(w) \/ WReleased(w) \/ WMergeTurn(w) \/ WCycleDone(w)
    PROVE  Known'
  <1>1. CASE EndCycle(w)
    BY <1>1, EndCycleKnown
  <1>2. ASSUME phase[w] = "releasing", GoTo(w, "retrying", "sent"),
               UNCHANGED <<token, outcome, released, loss, beat, late, merged>>
        PROVE  Known'
    <2> USE <1>2 DEF Known, Grown, GoTo
    <2>1. WTypeOK'
      BY DEF WTypeOK, Phase
    <2>2. TokensHeld'
      BY DEF TokensHeld, WTypeOK, Busy
    <2>3. Noted'
      BY DEF Noted, OnRecord, Acceptance, WTypeOK, Busy
    <2> QED BY <2>1, <2>2, <2>3
  <1>3. ASSUME phase[w] = "releasing", call[w] \in {"ok", "error"},
               outcome[w] = "accepted", GoTo(w, "merging", "none"),
               released' = [released EXCEPT ![w] = ReleaseConfirmed(w)],
               UNCHANGED <<token, outcome, loss, beat, late, merged>>
        PROVE  Known'
    <2> USE <1>3 DEF Known, Grown, GoTo
    <2>1. WTypeOK'
      BY DEF WTypeOK, Phase, ReleaseConfirmed
    <2>2. TokensHeld'
      BY DEF TokensHeld, WTypeOK, Busy
    <2>3. ReleaseConfirmed(w) => OnRecord(w)
      BY DEF ReleaseConfirmed, Noted
    <2>4. Noted'
      BY <2>3 DEF Noted, OnRecord, Acceptance, WTypeOK, Busy
    <2> QED BY <2>1, <2>2, <2>4
  <1>4. ASSUME call' = [call EXCEPT ![w] = "sent"],
               UNCHANGED <<phase, token, outcome, released, loss, beat, late, merged>>
        PROVE  Known'
    <2> USE <1>4 DEF Known, Grown
    <2>1. WTypeOK'
      BY DEF WTypeOK
    <2>2. TokensHeld'
      BY DEF TokensHeld
    <2>3. Noted'
      BY DEF Noted, OnRecord, Acceptance, WTypeOK
    <2> QED BY <2>1, <2>2, <2>3
  <1> QED
    BY <1>1, <1>2, <1>3, <1>4 DEF WAbandon, WReleased, WMergeTurn, WCycleDone

LEMMA BeatKnown ==
    ASSUME Known, Grown, NEW w \in WorkerId,
           \/ BeatSend(w) \/ ServeBeat(w) \/ BeatAnswered(w) \/ LoseBeat(w)
    PROVE  Known'
  <1> USE DEF Known, Grown, mainvars
  <1> DEFINE Beats(S) == [at : {"none", "sent", "parallel_lease_lost"} \cup Answer,
                          kind : {"lease", "parallel"}, with : S \cup {NoClaim}]
  <1>q. Quiet \in Beats(claims') /\ Quiet.at = "none"
    BY DEF Quiet
  <1>m. UNCHANGED mainvars
    BY DEF BeatSend, ServeBeat, BeatAnswered, LoseBeat
  <1>1. \E b \in Beats(claims') :
           /\ beat' = [beat EXCEPT ![w] = b]
           /\ b.at # "none" => b.with \in claims'
    <2>1. CASE BeatSend(w)
      <3>1. PICK b : /\ b = [at |-> "sent", with |-> token[w],
                             kind |-> IF released[w] THEN "parallel" ELSE "lease"]
                     /\ beat' = [beat EXCEPT ![w] = b]
        BY <2>1 DEF BeatSend
      <3>2. token[w] \in claims
        BY <2>1 DEF BeatSend, WTypeOK
      <3>3. b \in Beats(claims') /\ b.with \in claims'
        BY <3>1, <3>2
      <3> QED BY <3>1, <3>3
    <2>2. CASE ServeBeat(w)
      <3>1. PICK a \in {"parallel_lease_lost"} \cup Answer :
                beat' = [beat EXCEPT ![w].at = a]
        BY <2>2 DEF ServeBeat, Answer
      <3>2. beat[w] \in Beats(claims) /\ beat[w].with \in claims
        BY <2>2 DEF ServeBeat, WTypeOK, TokensHeld
      <3>3. PICK b : b = [beat[w] EXCEPT !.at = a]
        OBVIOUS
      <3>4. b \in Beats(claims') /\ b.with \in claims'
        BY <3>2, <3>3
      <3>5. beat' = [beat EXCEPT ![w] = b]
        BY <3>1, <3>3 DEF WTypeOK
      <3> QED BY <3>4, <3>5
    <2>3. CASE BeatAnswered(w) \/ LoseBeat(w)
      BY <1>q, <2>3 DEF BeatAnswered, LoseBeat
    <2> QED BY <2>1, <2>2, <2>3
  <1>2. loss' \in [WorkerId -> {"", "stale_lease", "parallel_lease_lost"}]
    BY DEF BeatSend, ServeBeat, BeatAnswered, LoseBeat, WTypeOK
  <1>3. PICK b \in Beats(claims') :
           /\ beat' = [beat EXCEPT ![w] = b]
           /\ b.at # "none" => b.with \in claims'
    BY <1>1
  <1>4. beat' \in [WorkerId -> Beats(claims')]
    <2>1. Beats(claims) \subseteq Beats(claims') /\ beat \in [WorkerId -> Beats(claims)]
      BY DEF WTypeOK
    <2> HIDE DEF Beats
    <2> QED BY <1>3, <2>1
  <1>5. WTypeOK'
    BY <1>m, <1>2, <1>4 DEF WTypeOK
  <1>6. TokensHeld'
    BY <1>m, <1>3 DEF TokensHeld, WTypeOK
  <1>7. Noted'
    BY <1>m DEF Noted, OnRecord, Acceptance
  <1> QED BY <1>5, <1>6, <1>7

LEMMA CrashKnown ==
    ASSUME Known, Grown, NEW w \in WorkerId, Crash(w)
    PROVE  Known'
  <1> USE DEF Known, Grown, Crash
  <1>1. WTypeOK'
    BY DEF WTypeOK, Phase, Quiet
  <1>2. TokensHeld'
    BY DEF TokensHeld, WTypeOK, Busy, Quiet
  <1>3. Noted'
    BY DEF Noted, OnRecord, Acceptance, WTypeOK, Busy
  <1> QED BY <1>1, <1>2, <1>3

LEMMA KnownStep ==
    ASSUME Known, Grown, WNext
    PROVE  Known'
  <1>1. CASE UNCHANGED wvars
    BY <1>1, IdleKnown
  <1>2. ASSUME NEW w \in WorkerId, NEW p \in Packet, WClaim(w, p) \/ WClaimLost(w, p)
        PROVE  Known'
    BY <1>1, <1>2, ClaimKnown DEF WClaimLost
  <1> QED
    BY <1>1, <1>2, ExecutedKnown, ReleaseKnown, OtherReplyKnown, LateKnown, MainKnown,
       BeatKnown, CrashKnown DEF WNext, MainStep, BeatStep

-----------------------------------------------------------------------------
(* Only a merge request that was let through changes whose result a merge   *)
(* was, and it is for an ACCEPTED packet.                                   *)
LEMMA OnlyMergeMerges ==
    ASSUME WTypeOK, TokensHeld, WNext, merged' # merged
    PROVE  \E c \in claims : MergeWith(c)
  <1>1. PICK w \in WorkerId : ServeMerge(w) \/ ServeLate(w)
    BY DEF WNext, wvars, WClaim, WClaimLost, WExecuted, MainStep, WAbandon, EndCycle,
       ServeRelease, ServeRetry, WReleased, WMergeTurn, WCycleDone, BeatStep,
       BeatSend, ServeBeat, BeatAnswered, mainvars, LoseCall, GiveUpCall,
       LoseBeat, Crash
  <1>2. CASE ServeMerge(w)
    <2>1. token[w] \in claims
      BY <1>2 DEF ServeMerge, TokensHeld, Busy
    <2> QED BY <1>2, <2>1 DEF ServeMerge, BlockWith
  <1>3. CASE ServeLate(w)
    <2>1. late[w].do = "merging" /\ MergeWith(late[w].with)
      BY <1>3 DEF ServeLate, BlockWith
    <2>2. late[w].with \in claims
      BY <2>1 DEF TokensHeld, Busy
    <2> QED BY <2>1, <2>2
  <1> QED BY <1>1, <1>2, <1>3

LEMMA MergesStep ==
    ASSUME WInv, WNext
    PROVE  MergesRecorded'
  <1> USE DEF WInv
  <1> SUFFICES ASSUME Parallel, NEW p \in Packet, merged'[p] # NoClaim
               PROVE  /\ state'[p] = MERGED
                      /\ merged'[p].attempt = attempts'[p]
                      /\ Acceptance(p, merged'[p].worker, attempts'[p]) \in results'
    BY DEF MergesRecorded, Acceptance
  <1>0. [Next]_vars /\ results \subseteq results'
    BY VarsStep, HistoryGrows
  <1>1. CASE merged'[p] = merged[p]
    BY <1>0, <1>1, MergedStays DEF MergesRecorded
  <1>2. CASE merged'[p] # merged[p]
    <2>1. PICK c \in claims : MergeWith(c)
      BY <1>2, OnlyMergeMerges
    <2>2. c.packet = p /\ merged'[p] = c
      BY <1>2, <2>1 DEF MergeWith, WTypeOK
    <2>3. state[p] = ACCEPTED /\ ParallelFenced(p, c.worker, c.attempt)
      BY <2>1, <2>2 DEF MergeWith, MergeAdmitted
    <2>4. please[p].worker = c.worker /\ please[p].attempt = c.attempt
      BY <2>3 DEF ParallelFenced
    <2>5. c.attempt = attempts[p]
      BY <2>3, <2>4 DEF LeaseInv, ReservationCovers
    <2>6. Acceptance(p, c.worker, attempts[p]) \in results
      BY <2>3, <2>4 DEF AcceptedRecorded
    <2>7. state'[p] = MERGED /\ attempts' = attempts
      BY <2>1, <2>2 DEF MergeWith, Merge, Transition, AfterTransition, LeaseInv, TypeOK
    <2> QED BY <1>0, <2>2, <2>5, <2>6, <2>7
  <1> QED BY <1>1, <1>2

-----------------------------------------------------------------------------
LEMMA InitWorkers == WInit => WInv
  <1> SUFFICES ASSUME WInit PROVE WInv
    OBVIOUS
  <1> USE DEF WInit
  <1>1. LeaseInv /\ TypeOK
    BY InitLease, InitType
  <1>2. WTypeOK
    BY <1>1 DEF WTypeOK, Phase, Quiet, Nothing, ReleaseStatus
  <1>3. TokensHeld /\ Noted
    BY DEF TokensHeld, Noted, Busy, Quiet, Nothing
  <1>4. AcceptedRecorded /\ MergesRecorded
    BY DEF AcceptedRecorded, MergesRecorded, Init, ACCEPTED, DRAFT, READY
  <1> QED BY <1>1, <1>2, <1>3, <1>4 DEF WInv

LEMMA StepWorkers == WInv /\ [WNext]_allvars => WInv'
  <1> SUFFICES ASSUME WInv, [WNext]_allvars PROVE WInv'
    OBVIOUS
  <1>1. [Next]_vars
    BY VarsStep DEF WInv, allvars
  <1>2. LeaseInv' /\ Grown
    BY <1>1, StepLease, HistoryGrows DEF WInv, LeaseInv, Grown
  <1>3. Known'
    BY <1>2, KnownStep, IdleKnown DEF WInv, Known, allvars
  <1>4. AcceptedRecorded'
    BY <1>1, AcceptedStep DEF WInv
  <1>5. MergesRecorded'
    <2>1. CASE UNCHANGED allvars
      BY <2>1 DEF WInv, allvars, vars, wvars, MergesRecorded, Acceptance
    <2> QED BY <2>1, MergesStep
  <1> QED BY <1>2, <1>3, <1>4, <1>5 DEF WInv, Known

(* Control plane and workers together keep the whole invariant, whatever    *)
(* requests are lost, given up or served late and whoever dies.             *)
THEOREM WorkerInvariant == WSpec => []WInv
  <1> QED BY InitWorkers, StepWorkers, PTL DEF WSpec

(* Fields, requests and answers of every worker have their types. *)
THEOREM WorkersTyped == WSpec => []WTypeOK
  <1>1. WInv => WTypeOK
    BY DEF WInv
  <1> QED BY <1>1, WorkerInvariant, PTL

(* _active_lease_released: a worker that holds its release for accepted is  *)
(* named by a recorded acceptance of its own attempt.                       *)
THEOREM ReleasesRecorded == WSpec => []ReleasedMeansRecorded
  <1>1. WInv => ReleasedMeansRecorded
    BY DEF WInv, Noted, OnRecord, Acceptance, ReleasedMeansRecorded
  <1> QED BY <1>1, WorkerInvariant, PTL

(* With parallel claims on, what turned a packet MERGED is the request of   *)
(* the worker and attempt whose acceptance was recorded, and no attempt     *)
(* came after it.                                                           *)
THEOREM MergesAreAccepted ==
    ASSUME Parallel
    PROVE  WSpec => []MergedByAcceptedAttempt
  <1>1. WInv => MergedByAcceptedAttempt
    BY DEF WInv, MergesRecorded, Acceptance, MergedByAcceptedAttempt
  <1> QED BY <1>1, WorkerInvariant, PTL
-----------------------------------------------------------------------------
(* The workers and the control plane together.                              *)

(* Workers, their heartbeats and their lost, repeated and late requests do  *)
(* to packets and leases only what PacketLease allows to clients that hold  *)
(* tokens: WorkerCycle implements the safety part of PacketLease.           *)
THEOREM WorkersFollowProtocol == WSpec => Init /\ [][Next]_vars
  <1>1. WInit => Init
    BY DEF WInit
  <1>2. WInv /\ [WNext]_allvars => [Next]_vars
    BY VarsStep DEF WInv, allvars
  <1> QED BY <1>1, <1>2, WorkerInvariant, PTL DEF WSpec

(* So W01 fencing holds of the workers as they are: whatever they send, and *)
(* whenever it is served, a result is recorded only under the packet's      *)
(* latest claim.                                                            *)
THEOREM WorkersAreFenced == WSpec => ResultsAreCurrent
  <1>1. WInv => LeaseInv
    BY DEF WInv
  <1> QED BY <1>1, FencedStep, WorkerInvariant, WorkersFollowProtocol, PTL
          DEF ResultsAreCurrent

(* No worker loses its lease within the lease time and its grace but by its *)
(* own release or a cancel.                                                 *)
THEOREM WorkersKeepGrace == WSpec => GraceRespected
  <1>1. WInv => LeaseInv
    BY DEF WInv
  <1> QED BY <1>1, GraceStep, WorkerInvariant, WorkersFollowProtocol, PTL
          DEF GraceRespected

(* And every attempt a worker executes is granted, finished or revoked as   *)
(* ExclusiveAttempts promises.                                              *)
THEOREM WorkersAreExclusive == WSpec => ImplementsExclusiveAttempts
  <1>1. WInv => LeaseInv
    BY DEF WInv
  <1>2. WInit => Init
    BY DEF WInit
  <1> QED BY <1>1, <1>2, InitRefines, StepRefines, WorkerInvariant,
             WorkersFollowProtocol, PTL
          DEF WSpec, ImplementsExclusiveAttempts, Attempt!ASpec
=============================================================================
