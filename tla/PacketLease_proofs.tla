------------------------- MODULE PacketLease_proofs -------------------------
(***************************************************************************)
(* Proofs about PacketLease for any sets of packets and workers and any     *)
(* lease times: type correctness, the lease invariant, the fencing action   *)
(* property and the refinement of ExclusiveAttempts.                        *)
(***************************************************************************)
EXTENDS PacketLease, TLAPS

-----------------------------------------------------------------------------
(* Every release status leads to a packet state other than RUNNING. *)
LEMMA ReleaseTargetState ==
    ASSUME NEW status \in ReleaseStatus
    PROVE  /\ ReleaseTarget(status) \in PacketState
           /\ ReleaseTarget(status) \notin {RUNNING, READY, DRAFT}
  BY DEF ReleaseStatus, ReleaseTarget, PacketState, DRAFT, READY, RUNNING,
         ACCEPTED, REJECTED, BLOCKED_RECOVERABLE, BLOCKED_FINAL, MERGED,
         FAILED, CANCELLED

(* The transition table leads from a state to packet states only, and only  *)
(* READY leads to RUNNING.                                                  *)
LEMMA TransitionTargets ==
    ASSUME NEW from, NEW to, CanTransition(from, to)
    PROVE  /\ to \in PacketState
           /\ to = RUNNING => from = READY
  BY DEF CanTransition, ValidTransitions, PacketState, DRAFT, READY, RUNNING,
         ACCEPTED, REJECTED, BLOCKED_RECOVERABLE, BLOCKED_FINAL, MERGED,
         FAILED, CANCELLED

(* An aged row is still a row, the same but for its time. *)
LEMMA AgedRow ==
    ASSUME NEW row \in Row \cup {NoLease}
    PROVE  /\ Aged(row) \in Row \cup {NoLease}
           /\ Aged(row) = NoLease <=> row = NoLease
           /\ row # NoLease => /\ Aged(row).id = row.id
                               /\ Aged(row).worker = row.worker
                               /\ Aged(row).attempt = row.attempt
  BY LeaseAssumption DEF Aged, Row

LEMMA AgedReservation ==
    ASSUME NEW row \in Reservation \cup {NoLease}
    PROVE  /\ Aged(row) \in Reservation \cup {NoLease}
           /\ Aged(row) = NoLease <=> row = NoLease
           /\ row # NoLease => /\ Aged(row).worker = row.worker
                               /\ Aged(row).attempt = row.attempt
  BY LeaseAssumption DEF Aged, Reservation

LEMMA ExpiredType ==
    ASSUME TypeOK, NEW st
    PROVE  Expired(st) \in [Packet -> Reservation \cup {NoLease}]
  BY DEF TypeOK, Expired

(* A retry moves its packet along the transition table. *)
LEMMA RetryTransition ==
    ASSUME NEW p \in Packet, Retry(p)
    PROVE  Transition(p, RetryTarget(p))
  BY DEF Retry, RetryAccepted, Transition

-----------------------------------------------------------------------------
LEMMA InitType == Init => TypeOK
  BY DEF Init, TypeOK, PacketState, DRAFT, READY

LEMMA StepType == TypeOK /\ [Next]_vars => TypeOK'
  <1> SUFFICES ASSUME TypeOK, [Next]_vars PROVE TypeOK'
    OBVIOUS
  <1> USE DEF TypeOK
  <1>0. READY \in PacketState /\ RUNNING \in PacketState /\ FAILED \in PacketState
        /\ MERGED \in PacketState /\ CANCELLED \in PacketState
        /\ BLOCKED_RECOVERABLE \in PacketState
    BY DEF PacketState, READY, RUNNING, FAILED, MERGED, CANCELLED, BLOCKED_RECOVERABLE
  <1>t. ASSUME NEW p \in Packet, NEW to, Transition(p, to)
        PROVE  /\ state' \in [Packet -> PacketState]
               /\ please' \in [Packet -> Reservation \cup {NoLease}]
    BY <1>t, TransitionTargets DEF Transition, AfterTransition
  <1>1. ASSUME NEW p \in Packet, PromoteDraft(p) PROVE TypeOK'
    BY <1>0, <1>1 DEF PromoteDraft
  <1>2. ASSUME NEW p \in Packet, NEW w \in WorkerId, Claim(p, w) PROVE TypeOK'
    <2> DEFINE n == attempts[p] + 1
    <2>1. PICK id \in {1} \cup {lease[q].id + 1 : q \in Leased} :
              /\ lease' = [lease EXCEPT ![p] =
                    [id |-> id, worker |-> w, attempt |-> n, left |-> TTL]]
              /\ claims' = claims \cup
                    {[packet |-> p, worker |-> w, lease |-> id, attempt |-> n]}
      BY <1>2 DEF Claim
    <2>2. id \in Nat
      BY DEF Leased, Row
    <2>3. n \in Nat
      OBVIOUS
    <2>4. lease' \in [Packet -> Row \cup {NoLease}]
      BY <2>1, <2>2, <2>3, LeaseAssumption DEF Row
    <2>5. claims' \in SUBSET ClaimResult
      BY <2>1, <2>2, <2>3 DEF ClaimResult
    <2>6. please' \in [Packet -> Reservation \cup {NoLease}]
      BY <1>2, <2>3, ExpiredType, LeaseAssumption DEF Claim, Reservation
    <2>7. QED
      BY <1>0, <1>2, <2>3, <2>4, <2>5, <2>6 DEF Claim
  <1>3. ASSUME NEW p \in Packet, Retry(p) PROVE TypeOK'
    BY <1>3, <1>t, RetryTransition DEF Retry
  <1>4. ASSUME NEW p \in Packet, Cancel(p) PROVE TypeOK'
    BY <1>0, <1>4 DEF Cancel, AfterTransition
  <1>5. ASSUME NEW p \in Packet, Merge(p) PROVE TypeOK'
    BY <1>5, <1>t DEF Merge
  <1>6. ASSUME NEW p \in Packet, BlockStale(p) PROVE TypeOK'
    BY <1>6, <1>t DEF BlockStale
  <1>7. ASSUME NEW c \in claims, Renew(c) PROVE TypeOK'
    <2>1. c.packet \in Packet /\ lease[c.packet] \in Row
      BY <1>7 DEF Renew, RenewAccepted, ClaimResult
    <2>2. lease' \in [Packet -> Row \cup {NoLease}]
      BY <1>7, <2>1, LeaseAssumption DEF Renew, Row
    <2>3. please' \in [Packet -> Reservation \cup {NoLease}]
      BY <1>7, <2>1, LeaseAssumption DEF Renew, Reservation
    <2>4. QED
      BY <1>7, <2>2, <2>3 DEF Renew
  <1>8. ASSUME NEW c \in claims, RenewParallel(c) PROVE TypeOK'
    <2>1. c.packet \in Packet /\ please[c.packet] \in Reservation
      BY <1>8 DEF RenewParallel, ParallelFenced, Live, ClaimResult
    <2>2. QED
      BY <1>8, <2>1, LeaseAssumption DEF RenewParallel, Reservation
  <1>9. ASSUME NEW c \in claims, NEW status \in ReleaseStatus, Release(c, status)
        PROVE  TypeOK'
    <2>1. c.packet \in Packet /\ c.worker \in WorkerId /\ c.attempt \in Nat
      BY DEF ClaimResult
    <2>2. results' \in SUBSET Recorded
      BY <1>9, <2>1, ReleaseTargetState DEF Release, Recorded
    <2>3. QED
      BY <1>9, <1>t, <2>1, <2>2 DEF Release
  <1>10. CASE ClaimNothing
    BY <1>10, ExpiredType DEF ClaimNothing
  <1>11. CASE LeaseScan
    <2>1. please' \in [Packet -> Reservation \cup {NoLease}]
      BY <1>11, ExpiredType DEF LeaseScan
    <2>2. QED
      BY <1>0, <1>11, <2>1 DEF LeaseScan
  <1>12. CASE StuckScan
    BY <1>0, <1>12 DEF StuckScan
  <1>13. CASE Tick
    BY <1>13, AgedRow, AgedReservation DEF Tick
  <1>14. CASE UNCHANGED vars
    BY <1>14 DEF vars
  <1>15. QED
    BY <1>1, <1>2, <1>3, <1>4, <1>5, <1>6, <1>7, <1>8, <1>9, <1>10, <1>11,
       <1>12, <1>13, <1>14 DEF Next

(* The variables keep their types: every handler and scan writes packet     *)
(* states and whole rows only.                                              *)
THEOREM TypeCorrect == Spec => []TypeOK
  <1>1. QED
    BY InitType, StepType, PTL DEF Spec

-----------------------------------------------------------------------------
(* What a step that claims nothing, records nothing and leaves every lease  *)
(* row with its identity or deletes it does to the invariant: only the two  *)
(* conjuncts that relate rows to states are left to show.                   *)
RowsKeptOrDropped ==
    \A p \in Packet :
        \/ lease'[p] = NoLease
        \/ /\ lease[p] # NoLease
           /\ lease'[p].id = lease[p].id
           /\ lease'[p].worker = lease[p].worker
           /\ lease'[p].attempt = lease[p].attempt

LEMMA KeepRows ==
    ASSUME LeaseInv, TypeOK', RowsKeptOrDropped,
           UNCHANGED <<attempts, claims, results>>,
           LeaseIffRunning', ReservationCovers'
    PROVE  LeaseInv'
  <1>1. LeaseIsLatestClaim'
    BY DEF LeaseInv, LeaseIsLatestClaim, RowsKeptOrDropped
  <1>2. DistinctLeaseIds'
    BY DEF LeaseInv, DistinctLeaseIds, Leased, RowsKeptOrDropped
  <1>3. ClaimsNumbered'
    BY DEF LeaseInv, ClaimsNumbered
  <1>4. ResultsNumbered'
    <2>1. \A r \in results : r.packet \in Packet
      BY DEF LeaseInv, TypeOK, Recorded
    <2>2. QED
      BY <2>1 DEF LeaseInv, ResultsNumbered, RowsKeptOrDropped
  <1>5. OneResultPerAttempt'
    BY DEF LeaseInv, OneResultPerAttempt
  <1>6. QED
    BY <1>1, <1>2, <1>3, <1>4, <1>5 DEF LeaseInv

LEMMA InitLease == Init => LeaseInv
  <1> SUFFICES ASSUME Init PROVE LeaseInv
    OBVIOUS
  <1>1. LeaseIffRunning /\ ReservationCovers
    BY DEF Init, LeaseIffRunning, ReservationCovers, DRAFT, READY, RUNNING, ACCEPTED
  <1>2. QED
    BY <1>1, InitType DEF Init, LeaseInv, LeaseIsLatestClaim, DistinctLeaseIds, Leased,
       ClaimsNumbered, ResultsNumbered, OneResultPerAttempt

(* A transition out of a state without a lease, into one without. *)
LEMMA PlainTransition ==
    ASSUME LeaseInv, TypeOK', NEW p \in Packet, NEW to,
           state[p] # RUNNING, to \notin {RUNNING, ACCEPTED},
           AfterTransition(p, to),
           UNCHANGED <<attempts, lease, claims, results>>
    PROVE  LeaseInv'
  <1>1. RowsKeptOrDropped
    BY DEF RowsKeptOrDropped
  <1>2. LeaseIffRunning'
    BY DEF LeaseInv, LeaseIffRunning, AfterTransition, TypeOK
  <1>3. ReservationCovers'
    BY DEF LeaseInv, ReservationCovers, AfterTransition, TypeOK
  <1>4. QED
    BY <1>1, <1>2, <1>3, KeepRows

LEMMA ClaimLease ==
    ASSUME LeaseInv, TypeOK', NEW p \in Packet, NEW w \in WorkerId, Claim(p, w)
    PROVE  LeaseInv'
  <1> USE DEF LeaseInv
  <1> DEFINE n == attempts[p] + 1
  <1>1. PICK id \in {1} \cup {lease[q].id + 1 : q \in Leased} :
            /\ IsNextId(id)
            /\ lease' = [lease EXCEPT ![p] =
                  [id |-> id, worker |-> w, attempt |-> n, left |-> TTL]]
            /\ claims' = claims \cup
                  {[packet |-> p, worker |-> w, lease |-> id, attempt |-> n]}
    BY DEF Claim
  <1>2. /\ state' = [state EXCEPT ![p] = RUNNING]
        /\ attempts' = [attempts EXCEPT ![p] = n]
        /\ results' = results
    BY DEF Claim
  <1>3. n \in Nat /\ n > attempts[p]
    BY DEF TypeOK
  <1>4. lease'[p].id = id /\ lease'[p].worker = w /\ lease'[p].attempt = n
    BY <1>1 DEF TypeOK
  <1>5. lease'[p] # NoLease
    <2>1. [id |-> id, worker |-> w, attempt |-> n, left |-> TTL] \in Row
      BY <1>1, <1>3, LeaseAssumption DEF Row, Leased, TypeOK
    <2>2. QED
      BY <1>1, <2>1, LeaseAssumption DEF TypeOK
  <1>6. \A q \in Packet \ {p} : lease'[q] = lease[q] /\ state'[q] = state[q]
                                /\ attempts'[q] = attempts[q]
    BY <1>1, <1>2 DEF TypeOK
  <1>7. LeaseIffRunning'
    BY <1>2, <1>5, <1>6 DEF LeaseIffRunning, TypeOK
  <1>8. LeaseIsLatestClaim'
    <2> SUFFICES ASSUME NEW q \in Packet, lease'[q] # NoLease
                 PROVE  /\ lease'[q].attempt = attempts'[q]
                        /\ \A c \in claims' :
                              c.packet = q /\ c.attempt = attempts'[q] =>
                              c.worker = lease'[q].worker /\ c.lease = lease'[q].id
      BY DEF LeaseIsLatestClaim
    <2>1. CASE q = p
      <3>1. attempts'[p] = n
        BY <1>2 DEF TypeOK
      <3>2. \A c \in claims : c.packet = p => c.attempt # n
        BY <1>3 DEF ClaimsNumbered, TypeOK, ClaimResult
      <3>3. QED
        BY <1>1, <1>4, <2>1, <3>1, <3>2
    <2>2. CASE q # p
      BY <1>1, <1>6, <2>2 DEF LeaseIsLatestClaim
    <2>3. QED
      BY <2>1, <2>2
  <1>9. DistinctLeaseIds'
    <2>1. \A q \in Packet \ {p} : lease'[q] # NoLease => lease'[q].id # id
      BY <1>1, <1>6 DEF IsNextId, Leased, TypeOK, Row
    <2>2. QED
      BY <1>4, <1>6, <2>1 DEF DistinctLeaseIds, Leased
  <1>10. ReservationCovers'
    <2> SUFFICES ASSUME Parallel, NEW q \in Packet, state'[q] \in {RUNNING, ACCEPTED}
                 PROVE  /\ please'[q] # NoLease
                        /\ please'[q].attempt = attempts'[q]
                        /\ state'[q] = RUNNING => please'[q].worker = lease'[q].worker
      BY DEF ReservationCovers
    <2>1. please' = [Expired(state) EXCEPT ![p] =
                        [worker |-> w, attempt |-> n, left |-> ParallelTTL]]
      BY DEF Claim
    <2>2. CASE q = p
      <3>1. please'[p] = [worker |-> w, attempt |-> n, left |-> ParallelTTL]
        BY <2>1, ExpiredType
      <3>2. [worker |-> w, attempt |-> n, left |-> ParallelTTL] \in Reservation
        BY <1>3, LeaseAssumption DEF Reservation
      <3>3. attempts'[p] = n
        BY <1>2 DEF TypeOK
      <3>4. please'[p] # NoLease
        BY <3>1, <3>2, LeaseAssumption
      <3>5. QED
        BY <1>4, <2>2, <3>1, <3>3, <3>4
    <2>3. CASE q # p
      <3>1. please'[q] = please[q]
        BY <1>6, <2>1, <2>3, ExpiredType DEF Expired
      <3>2. QED
        BY <1>6, <2>3, <3>1 DEF ReservationCovers
    <2>4. QED
      BY <2>2, <2>3
  <1>11. ClaimsNumbered'
    <2>1. \A c \in claims : c.packet \in Packet /\ c.attempt \in Nat
      BY DEF TypeOK, ClaimResult
    <2>2. \A q \in Packet : attempts[q] \in Nat /\ attempts'[q] >= attempts[q]
      BY <1>2, <1>3, <1>6 DEF TypeOK
    <2>3. \A c \in claims : c.attempt <= attempts'[c.packet]
      BY <1>2, <1>3, <2>1, <2>2 DEF ClaimsNumbered, TypeOK
    <2>4. attempts'[p] = n
      BY <1>2 DEF TypeOK
    <2>5. QED
      BY <1>1, <1>3, <2>3, <2>4 DEF ClaimsNumbered
  <1>12. ResultsNumbered'
    <2>1. \A r \in results : r.packet \in Packet /\ r.attempt \in Nat
      BY DEF TypeOK, Recorded
    <2>2. attempts'[p] = n
      BY <1>2 DEF TypeOK
    <2>3. ASSUME NEW r \in results
          PROVE  /\ r.attempt <= attempts'[r.packet]
                 /\ lease'[r.packet] # NoLease => r.attempt # attempts'[r.packet]
      <3>1. CASE r.packet = p
        BY <1>3, <2>1, <2>2, <3>1 DEF ResultsNumbered, TypeOK
      <3>2. CASE r.packet # p
        BY <1>6, <2>1, <3>2 DEF ResultsNumbered
      <3>3. QED
        BY <3>1, <3>2
    <2>4. QED
      BY <1>2, <2>3 DEF ResultsNumbered
  <1>13. OneResultPerAttempt'
    BY <1>1, <1>2 DEF OneResultPerAttempt
  <1>14. QED
    BY <1>7, <1>8, <1>9, <1>10, <1>11, <1>12, <1>13

LEMMA ReleaseLease ==
    ASSUME LeaseInv, TypeOK', NEW c \in claims, NEW status \in ReleaseStatus,
           Release(c, status)
    PROVE  LeaseInv'
  <1> USE DEF LeaseInv
  <1> DEFINE p == c.packet
             to == ReleaseTarget(status)
             r == [packet |-> p, worker |-> c.worker, attempt |-> c.attempt, to |-> to]
  <1>1. p \in Packet /\ c.worker \in WorkerId /\ c.attempt \in Nat
    BY DEF TypeOK, ClaimResult
  <1>2. /\ state[p] = RUNNING /\ to # RUNNING
        /\ state' = [state EXCEPT ![p] = to]
        /\ lease' = [lease EXCEPT ![p] = NoLease]
        /\ results' = results \cup {r}
        /\ UNCHANGED <<attempts, claims>>
    BY ReleaseTargetState DEF Release, Transition, AfterTransition
  <1>3. lease[p] # NoLease /\ c.attempt = lease[p].attempt /\ c.attempt = attempts[p]
    BY <1>1, <1>2 DEF LeaseIffRunning, LeaseIsLatestClaim, Release, ReleaseFenced
  <1>4. /\ lease'[p] = NoLease
        /\ \A q \in Packet \ {p} : lease'[q] = lease[q] /\ state'[q] = state[q]
    BY <1>1, <1>2 DEF TypeOK
  <1>5. LeaseIffRunning'
    BY <1>1, <1>2, <1>4 DEF LeaseIffRunning, TypeOK
  <1>6. LeaseIsLatestClaim' /\ DistinctLeaseIds' /\ ClaimsNumbered'
    BY <1>2, <1>4 DEF LeaseIsLatestClaim, DistinctLeaseIds, Leased, ClaimsNumbered
  <1>7. ReservationCovers'
    BY <1>1, <1>2, <1>4 DEF ReservationCovers, Release, Transition, AfterTransition,
       TypeOK, ParallelReleasingStates, RUNNING, ACCEPTED, MERGED, REJECTED,
       FAILED, BLOCKED_RECOVERABLE, BLOCKED_FINAL, CANCELLED
  <1>8. ResultsNumbered'
    BY <1>1, <1>2, <1>3, <1>4 DEF ResultsNumbered, TypeOK, Recorded
  <1>9. OneResultPerAttempt'
    <2>1. \A s \in results : s.packet = p => s.attempt # c.attempt
      BY <1>3 DEF ResultsNumbered
    <2>2. QED
      BY <1>2, <2>1 DEF OneResultPerAttempt
  <1>10. QED
    BY <1>5, <1>6, <1>7, <1>8, <1>9

(* Both scans and the clock keep or drop whole rows. *)
LEMMA ScanLease ==
    ASSUME LeaseInv, TypeOK', LeaseScan \/ StuckScan \/ Tick
    PROVE  LeaseInv'
  <1> USE DEF LeaseInv
  <1>1. CASE LeaseScan
    <2>1. RowsKeptOrDropped
      BY <1>1 DEF LeaseScan, RowsKeptOrDropped
    <2>2. LeaseIffRunning'
      BY <1>1 DEF LeaseScan, LeaseIffRunning, Overdue, READY, RUNNING
    <2>3. ReservationCovers'
      BY <1>1 DEF LeaseScan, ReservationCovers, Expired, READY, RUNNING, ACCEPTED
    <2>4. QED
      BY <1>1, <2>1, <2>2, <2>3, KeepRows DEF LeaseScan
  <1>2. CASE StuckScan
    <2>1. RowsKeptOrDropped
      BY <1>2 DEF StuckScan, RowsKeptOrDropped
    <2>2. LeaseIffRunning'
      BY <1>2 DEF StuckScan, LeaseIffRunning, READY, RUNNING
    <2>3. ReservationCovers'
      BY <1>2 DEF StuckScan, ReservationCovers, READY, RUNNING, ACCEPTED
    <2>4. QED
      BY <1>2, <2>1, <2>2, <2>3, KeepRows DEF StuckScan
  <1>3. CASE Tick
    <2>1. \A q \in Packet :
             /\ lease'[q] = NoLease <=> lease[q] = NoLease
             /\ lease[q] # NoLease => /\ lease'[q].id = lease[q].id
                                      /\ lease'[q].worker = lease[q].worker
                                      /\ lease'[q].attempt = lease[q].attempt
      BY <1>3, AgedRow DEF Tick, TypeOK
    <2>2. \A q \in Packet :
             /\ please'[q] = NoLease <=> please[q] = NoLease
             /\ please[q] # NoLease => /\ please'[q].worker = please[q].worker
                                       /\ please'[q].attempt = please[q].attempt
      BY <1>3, AgedReservation DEF Tick, TypeOK
    <2>3. RowsKeptOrDropped
      BY <2>1 DEF RowsKeptOrDropped
    <2>4. LeaseIffRunning'
      BY <1>3, <2>1 DEF LeaseIffRunning, Tick
    <2>5. ReservationCovers'
      BY <1>3, <2>1, <2>2 DEF ReservationCovers, LeaseIffRunning, Tick
    <2>6. QED
      BY <1>3, <2>3, <2>4, <2>5, KeepRows DEF Tick
  <1>4. QED
    BY <1>1, <1>2, <1>3

(* A renewal changes the remaining time of rows that are there. *)
LEMMA RenewLease ==
    ASSUME LeaseInv, TypeOK', NEW c \in claims, Renew(c) \/ RenewParallel(c)
    PROVE  LeaseInv'
  <1> USE DEF LeaseInv
  <1> DEFINE p == c.packet
  <1>1. p \in Packet
    BY DEF TypeOK, ClaimResult
  <1>2. \A q \in Packet :
           /\ lease'[q] = NoLease <=> lease[q] = NoLease
           /\ lease[q] # NoLease => /\ lease'[q].id = lease[q].id
                                    /\ lease'[q].worker = lease[q].worker
                                    /\ lease'[q].attempt = lease[q].attempt
    <2>1. CASE Renew(c)
      <3>1. lease[p] \in Row
        BY <1>1, <2>1 DEF Renew, RenewAccepted, TypeOK
      <3>2. lease' = [lease EXCEPT ![p].left = TTL]
        BY <2>1 DEF Renew
      <3>3. /\ lease'[p] \in Row /\ lease'[p].id = lease[p].id
            /\ lease'[p].worker = lease[p].worker
            /\ lease'[p].attempt = lease[p].attempt
        BY <1>1, <3>1, <3>2, LeaseAssumption DEF Row, TypeOK
      <3>4. QED
        BY <1>1, <3>1, <3>2, <3>3, LeaseAssumption DEF TypeOK
    <2>2. CASE RenewParallel(c)
      BY <2>2 DEF RenewParallel
    <2>3. QED
      BY <2>1, <2>2
  <1>3. \A q \in Packet :
           /\ please'[q] = NoLease <=> please[q] = NoLease
           /\ please[q] # NoLease => /\ please'[q].worker = please[q].worker
                                     /\ please'[q].attempt = please[q].attempt
    <2>1. CASE please[p] = NoLease
      BY <2>1 DEF Renew, RenewParallel, ParallelFenced, Live
    <2>2. CASE please[p] # NoLease
      <3>1. please[p] \in Reservation
        BY <1>1, <2>2 DEF TypeOK
      <3>2. please' = [please EXCEPT ![p].left = ParallelTTL]
        BY <2>2 DEF Renew, RenewParallel
      <3>3. /\ please'[p] \in Reservation
            /\ please'[p].worker = please[p].worker
            /\ please'[p].attempt = please[p].attempt
        BY <1>1, <3>1, <3>2, LeaseAssumption DEF Reservation, TypeOK
      <3>4. QED
        BY <1>1, <2>2, <3>2, <3>3, LeaseAssumption DEF TypeOK
    <2>3. QED
      BY <2>1, <2>2
  <1>4. UNCHANGED <<state, attempts, claims, results>>
    BY DEF Renew, RenewParallel
  <1>5. RowsKeptOrDropped
    BY <1>2 DEF RowsKeptOrDropped
  <1>6. LeaseIffRunning'
    BY <1>2, <1>4 DEF LeaseIffRunning
  <1>7. ReservationCovers'
    BY <1>2, <1>3, <1>4 DEF ReservationCovers, LeaseIffRunning
  <1>8. QED
    BY <1>4, <1>5, <1>6, <1>7, KeepRows

LEMMA StepLease == LeaseInv /\ [Next]_vars => LeaseInv'
  <1> SUFFICES ASSUME LeaseInv, [Next]_vars PROVE LeaseInv'
    OBVIOUS
  <1>0. TypeOK'
    BY StepType DEF LeaseInv
  <1>s. /\ DRAFT # RUNNING /\ REJECTED # RUNNING /\ ACCEPTED # RUNNING
        /\ BLOCKED_RECOVERABLE # RUNNING
        /\ {READY, FAILED, MERGED, BLOCKED_RECOVERABLE} \cap {RUNNING, ACCEPTED} = {}
    BY DEF DRAFT, READY, RUNNING, REJECTED, ACCEPTED, BLOCKED_RECOVERABLE, FAILED, MERGED
  <1>1. ASSUME NEW p \in Packet, PromoteDraft(p) PROVE LeaseInv'
    <2>1. RowsKeptOrDropped
      BY <1>1 DEF PromoteDraft, RowsKeptOrDropped
    <2>2. LeaseIffRunning' /\ ReservationCovers'
      BY <1>s, <1>1 DEF PromoteDraft, LeaseInv, LeaseIffRunning, ReservationCovers, TypeOK
    <2>3. QED
      BY <1>0, <1>1, <2>1, <2>2, KeepRows DEF PromoteDraft
  <1>2. ASSUME NEW p \in Packet, NEW w \in WorkerId, Claim(p, w) PROVE LeaseInv'
    BY <1>0, <1>2, ClaimLease
  <1>3. ASSUME NEW p \in Packet, Retry(p) PROVE LeaseInv'
    <2>1. state[p] # RUNNING /\ RetryTarget(p) \notin {RUNNING, ACCEPTED}
      BY <1>s, <1>3 DEF Retry, RetryAccepted, RetryTarget
    <2>2. QED
      BY <1>0, <1>3, <2>1, PlainTransition DEF Retry
  <1>4. ASSUME NEW p \in Packet, Cancel(p) PROVE LeaseInv'
    <2>1. RowsKeptOrDropped
      BY <1>4 DEF Cancel, RowsKeptOrDropped, LeaseInv, TypeOK
    <2>2. LeaseIffRunning'
      BY <1>4 DEF Cancel, AfterTransition, LeaseInv, LeaseIffRunning, TypeOK,
         CANCELLED, RUNNING
    <2>3. ReservationCovers'
      BY <1>4 DEF Cancel, AfterTransition, LeaseInv, ReservationCovers, TypeOK,
         CANCELLED, RUNNING, ACCEPTED
    <2>4. QED
      BY <1>0, <1>4, <2>1, <2>2, <2>3, KeepRows DEF Cancel
  <1>5. ASSUME NEW p \in Packet, Merge(p) PROVE LeaseInv'
    BY <1>0, <1>s, <1>5, PlainTransition DEF Merge, Transition
  <1>6. ASSUME NEW p \in Packet, BlockStale(p) PROVE LeaseInv'
    BY <1>0, <1>s, <1>6, PlainTransition DEF BlockStale, Transition
  <1>7. ASSUME NEW c \in claims, Renew(c) \/ RenewParallel(c) PROVE LeaseInv'
    BY <1>0, <1>7, RenewLease
  <1>8. ASSUME NEW c \in claims, NEW status \in ReleaseStatus, Release(c, status)
        PROVE  LeaseInv'
    BY <1>0, <1>8, ReleaseLease
  <1>9. CASE ClaimNothing
    <2>1. RowsKeptOrDropped
      BY <1>9 DEF ClaimNothing, RowsKeptOrDropped
    <2>2. LeaseIffRunning' /\ ReservationCovers'
      BY <1>9 DEF ClaimNothing, Expired, LeaseInv, LeaseIffRunning, ReservationCovers
    <2>3. QED
      BY <1>0, <1>9, <2>1, <2>2, KeepRows DEF ClaimNothing
  <1>10. CASE LeaseScan \/ StuckScan \/ Tick
    BY <1>0, <1>10, ScanLease
  <1>11. CASE UNCHANGED vars
    <2>1. RowsKeptOrDropped
      BY <1>11 DEF vars, RowsKeptOrDropped
    <2>2. LeaseIffRunning' /\ ReservationCovers'
      BY <1>11 DEF vars, LeaseInv, LeaseIffRunning, ReservationCovers
    <2>3. QED
      BY <1>0, <1>11, <2>1, <2>2, KeepRows DEF vars
  <1>12. QED
    BY <1>1, <1>2, <1>3, <1>4, <1>5, <1>6, <1>7, <1>8, <1>9, <1>10, <1>11 DEF Next

THEOREM LeaseInvariant == Spec => []LeaseInv
  <1>1. QED
    BY InitLease, StepLease, PTL DEF Spec

(* No orphan lease and no RUNNING packet without one, whatever clients and  *)
(* scanners do.                                                             *)
THEOREM LeasesMatchStates == Spec => []LeaseIffRunning
  <1>1. LeaseInv => LeaseIffRunning
    BY DEF LeaseInv
  <1>2. QED
    BY <1>1, LeaseInvariant, PTL

(* An attempt is reported at most once, and by its own worker. *)
THEOREM ResultsUnique == Spec => []OneResultPerAttempt
  <1>1. LeaseInv => OneResultPerAttempt
    BY DEF LeaseInv
  <1>2. QED
    BY <1>1, LeaseInvariant, PTL

(* A parallel reservation outlives its elapsed time while the packet runs   *)
(* or waits for its merge.                                                  *)
THEOREM ReservationsHeld == Spec => []ReservationCovers
  <1>1. LeaseInv => ReservationCovers
    BY DEF LeaseInv
  <1>2. QED
    BY <1>1, LeaseInvariant, PTL

-----------------------------------------------------------------------------
(* Only a release changes the recorded results. *)
LEMMA OnlyReleaseRecords ==
    ASSUME [Next]_vars, results' # results
    PROVE  \E c \in claims, status \in ReleaseStatus : Release(c, status)
  BY DEF Next, vars, PromoteDraft, Claim, Retry, Cancel, Merge, BlockStale,
     Renew, RenewParallel, ClaimNothing, LeaseScan, StuckScan, Tick

\* What a step records, it records under the packet's latest claim.
LEMMA FencedStep ==
    ASSUME LeaseInv, [Next]_vars
    PROVE  \A r \in results' \ results : r.attempt = attempts[r.packet]
  <1> SUFFICES ASSUME NEW r \in results' \ results
               PROVE  r.attempt = attempts[r.packet]
    OBVIOUS
  <1>1. PICK c \in claims, status \in ReleaseStatus : Release(c, status)
    BY OnlyReleaseRecords
  <1>2. c.packet \in Packet
    BY DEF LeaseInv, TypeOK, ClaimResult
  <1>3. lease[c.packet] # NoLease /\ c.attempt = attempts[c.packet]
    BY <1>1, <1>2 DEF Release, ReleaseFenced, LeaseInv, LeaseIffRunning,
       LeaseIsLatestClaim
  <1>4. r = [packet |-> c.packet, worker |-> c.worker, attempt |-> c.attempt,
             to |-> ReleaseTarget(status)]
    BY <1>1 DEF Release
  <1>5. QED
    BY <1>3, <1>4

(* W01 fencing, for every worker set and any reuse of lease ids: a result   *)
(* is recorded only under the packet's latest claim.                        *)
THEOREM FencedResults == Spec => ResultsAreCurrent
  <1>1. QED
    BY FencedStep, LeaseInvariant, PTL DEF Spec, ResultsAreCurrent

\* A step that takes a lease within its time is a release or a cancel.
LEMMA GraceStep ==
    ASSUME LeaseInv, [Next]_vars
    PROVE  \A p \in Packet :
              /\ lease[p] # NoLease /\ lease[p].left >= -Grace
              /\ lease'[p] = NoLease \/ lease'[p].attempt # lease[p].attempt
              => state'[p] \in {CANCELLED, ACCEPTED, REJECTED, FAILED,
                                BLOCKED_FINAL, BLOCKED_RECOVERABLE}
  <1> SUFFICES ASSUME NEW p \in Packet, lease[p] # NoLease, lease[p].left >= -Grace,
                      lease'[p] = NoLease \/ lease'[p].attempt # lease[p].attempt
               PROVE  state'[p] \in {CANCELLED, ACCEPTED, REJECTED, FAILED,
                                     BLOCKED_FINAL, BLOCKED_RECOVERABLE}
    OBVIOUS
  <1> USE DEF LeaseInv, TypeOK
  <1>0. state[p] = RUNNING
    BY DEF LeaseIffRunning
  <1>1. ASSUME NEW q \in Packet, Cancel(q)
        PROVE  state'[p] = CANCELLED
    BY <1>1 DEF Cancel, AfterTransition
  <1>2. ASSUME NEW c \in claims, NEW status \in ReleaseStatus, Release(c, status)
        PROVE  state'[p] = ReleaseTarget(status)
    <2>1. p = c.packet
      BY <1>2 DEF Release
    <2>2. QED
      BY <1>2, <2>1 DEF Release, Transition, AfterTransition
  <1>3. ASSUME NEW q \in Packet, NEW w \in WorkerId, Claim(q, w)
        PROVE  FALSE
    <2>1. q # p
      BY <1>0, <1>3 DEF Claim, ClaimableStates, READY, DRAFT, REJECTED,
         BLOCKED_RECOVERABLE, RUNNING
    <2>2. QED
      BY <1>3, <2>1 DEF Claim
  <1>4. ASSUME NEW c \in claims, Renew(c) PROVE FALSE
    <2>1. CASE c.packet = p
      <3>1. lease[p] \in Row /\ lease' = [lease EXCEPT ![p].left = TTL]
        BY <1>4, <2>1 DEF Renew
      <3>2. lease'[p].attempt = lease[p].attempt /\ lease'[p] \in Row
        BY <3>1, LeaseAssumption DEF Row
      <3>3. QED
        BY <3>2, LeaseAssumption
    <2>2. CASE c.packet # p
      BY <1>4, <2>2 DEF Renew
    <2>3. QED
      BY <2>1, <2>2
  <1>5. ~Tick
    BY AgedRow DEF Tick
  <1>6. ~LeaseScan /\ ~StuckScan
    <2>1. ~Overdue(lease[p])
      BY LeaseAssumption DEF Overdue, Row
    <2>2. QED
      BY <1>0, <2>1 DEF LeaseScan, StuckScan
  <1>7. lease' # lease
    BY DEF TypeOK
  <1>8. \/ \E q \in Packet : Cancel(q)
        \/ \E c \in claims, status \in ReleaseStatus : Release(c, status)
    BY <1>3, <1>4, <1>5, <1>6, <1>7 DEF Next, vars, PromoteDraft, Retry, Merge,
       BlockStale, RenewParallel, ClaimNothing
  <1>9. QED
    BY <1>1, <1>2, <1>8, ReleaseTargetState DEF ReleaseTarget, ReleaseStatus

(* Only a release, a cancel or a scan that finds the row overdue takes a    *)
(* lease away.                                                              *)
THEOREM GraceKept == Spec => GraceRespected
  <1>1. QED
    BY GraceStep, LeaseInvariant, PTL DEF Spec, GraceRespected

\* A step moves a packet along the table, reclaims it or claims it.
LEMMA MovesStep ==
    ASSUME LeaseInv, [Next]_vars
    PROVE  \A p \in Packet : state'[p] # state[p] =>
              \/ CanTransition(state[p], state'[p])
              \/ state[p] = RUNNING /\ state'[p] = READY
              \/ state[p] \in ClaimableStates /\ state'[p] = RUNNING
  <1> SUFFICES ASSUME NEW p \in Packet, state'[p] # state[p]
               PROVE  \/ CanTransition(state[p], state'[p])
                      \/ state[p] = RUNNING /\ state'[p] = READY
                      \/ state[p] \in ClaimableStates /\ state'[p] = RUNNING
    OBVIOUS
  <1> USE DEF LeaseInv, TypeOK
  <1>t. ASSUME NEW q \in Packet, NEW to, Transition(q, to)
        PROVE  CanTransition(state[p], state'[p])
    <2>1. q = p /\ state'[p] = to
      BY <1>t DEF Transition, AfterTransition
    <2>2. QED
      BY <1>t, <2>1 DEF Transition
  <1>1. ASSUME NEW q \in Packet, PromoteDraft(q)
        PROVE  CanTransition(state[p], state'[p])
    <2>1. state[p] = DRAFT /\ state'[p] = READY
      BY <1>1 DEF PromoteDraft
    <2>2. CanTransition(DRAFT, READY)
      BY DEF CanTransition, ValidTransitions, DRAFT, READY, RUNNING, REJECTED,
         BLOCKED_RECOVERABLE, BLOCKED_FINAL, ACCEPTED, FAILED
    <2>3. QED
      BY <2>1, <2>2
  <1>2. ASSUME NEW q \in Packet, Cancel(q)
        PROVE  CanTransition(state[p], state'[p])
    BY <1>2 DEF Cancel, CancelAccepted, AfterTransition
  <1>3. ASSUME NEW q \in Packet, NEW w \in WorkerId, Claim(q, w)
        PROVE  state[p] \in ClaimableStates /\ state'[p] = RUNNING
    BY <1>3 DEF Claim
  <1>4. ASSUME NEW c \in claims, NEW status \in ReleaseStatus, Release(c, status)
        PROVE  CanTransition(state[p], state'[p])
    <2>1. c.packet \in Packet
      BY DEF ClaimResult
    <2>2. QED
      BY <1>t, <1>4, <2>1 DEF Release
  <1>5. ASSUME LeaseScan \/ StuckScan
        PROVE  state[p] = RUNNING /\ state'[p] = READY
    BY <1>5 DEF LeaseScan, StuckScan
  <1>6. ASSUME NEW q \in Packet, Retry(q) \/ Merge(q) \/ BlockStale(q)
        PROVE  CanTransition(state[p], state'[p])
    <2>1. PICK to : Transition(q, to)
      BY <1>6, RetryTransition DEF Merge, BlockStale
    <2>2. QED
      BY <1>t, <2>1
  <1>7. QED
    BY <1>1, <1>2, <1>3, <1>4, <1>5, <1>6 DEF Next, vars, Renew, RenewParallel,
       ClaimNothing, Tick

(* Packets move along the transition table but for the reclaim by a scanner *)
(* and the claim.                                                           *)
THEOREM MovesAllowed == Spec => AllowedMoves
  <1>1. QED
    BY MovesStep, LeaseInvariant, PTL DEF Spec, AllowedMoves

-----------------------------------------------------------------------------
(* The refinement of ExclusiveAttempts: each action of PacketLease is a     *)
(* grant, a finish, a revocation or a stutter of the abstract attempts.     *)
LEMMA InitRefines == Init => Attempt!AInit
  BY DEF Init, Attempt!AInit, Owner

(* Dropping the rows of a set of packets is a revocation. *)
LEMMA DroppedRowsRevoke ==
    ASSUME UNCHANGED <<attempts, results>>, RowsKeptOrDropped
    PROVE  Attempt!Revoke({q \in Packet : lease'[q] = NoLease})
  BY DEF Attempt!Revoke, Owner, RowsKeptOrDropped

LEMMA ClaimGrants ==
    ASSUME LeaseInv, NEW p \in Packet, NEW w \in WorkerId, Claim(p, w)
    PROVE  Attempt!Grant(p, w)
  <1> USE DEF LeaseInv, TypeOK
  <1> DEFINE n == attempts[p] + 1
  <1>1. lease[p] = NoLease
    BY DEF Claim, LeaseIffRunning, ClaimableStates, READY, DRAFT, REJECTED,
       BLOCKED_RECOVERABLE, RUNNING
  <1>2. PICK id \in {1} \cup {lease[q].id + 1 : q \in Leased} :
            lease' = [lease EXCEPT ![p] =
                  [id |-> id, worker |-> w, attempt |-> n, left |-> TTL]]
    BY DEF Claim
  <1>3. [id |-> id, worker |-> w, attempt |-> n, left |-> TTL] \in Row
    BY <1>2, LeaseAssumption DEF Row, Leased
  <1>4. lease'[p] # NoLease /\ lease'[p].worker = w /\ lease'[p].attempt = n
    BY <1>2, <1>3, LeaseAssumption
  <1>5. \A q \in Packet \ {p} : lease'[q] = lease[q]
    BY <1>2
  <1>6. Owner' = [Owner EXCEPT ![p] = {[worker |-> w, attempt |-> n]}]
    BY <1>4, <1>5 DEF Owner
  <1>7. QED
    BY <1>1, <1>6 DEF Attempt!Grant, Claim, Owner

LEMMA ReleaseFinishes ==
    ASSUME LeaseInv, NEW c \in claims, NEW status \in ReleaseStatus,
           Release(c, status)
    PROVE  \E o \in Owner[c.packet] :
              Attempt!Finish(c.packet, o, ReleaseTarget(status))
  <1> USE DEF LeaseInv, TypeOK
  <1> DEFINE o == [worker |-> c.worker, attempt |-> c.attempt]
  <1>1. c.packet \in Packet
    BY DEF ClaimResult
  <1>2. /\ lease[c.packet] # NoLease
        /\ lease[c.packet].worker = c.worker
        /\ lease[c.packet].attempt = c.attempt
    BY <1>1 DEF Release, ReleaseFenced, LeaseIffRunning
  <1>3. Owner' = [Owner EXCEPT ![c.packet] = {}]
    BY <1>1 DEF Release, Owner
  <1>4. o \in Owner[c.packet]
    BY <1>1, <1>2 DEF Owner
  <1>5. results' = results \cup
           {[packet |-> c.packet, worker |-> o.worker,
             attempt |-> o.attempt, to |-> ReleaseTarget(status)]}
    BY DEF Release
  <1>6. UNCHANGED attempts
    BY DEF Release
  <1>7. Attempt!Finish(c.packet, o, ReleaseTarget(status))
    BY <1>3, <1>4, <1>5, <1>6 DEF Attempt!Finish
  <1>8. QED
    BY <1>4, <1>7

LEMMA StepRefines ==
    LeaseInv /\ [Next]_vars => [Attempt!ANext]_(Attempt!avars)
  <1> SUFFICES ASSUME LeaseInv, [Next]_vars
               PROVE  Attempt!ANext \/ UNCHANGED Attempt!avars
    OBVIOUS
  <1> USE DEF LeaseInv, TypeOK
  <1>1. ASSUME NEW p \in Packet, NEW w \in WorkerId, Claim(p, w)
        PROVE  Attempt!ANext
    BY <1>1, ClaimGrants DEF Attempt!ANext
  <1>2. ASSUME NEW c \in claims, NEW status \in ReleaseStatus, Release(c, status)
        PROVE  Attempt!ANext
    <2>1. c.packet \in Packet
      BY DEF ClaimResult
    <2>2. QED
      BY <1>2, <2>1, ReleaseFinishes, ReleaseTargetState DEF Attempt!ANext
  <1>r. ASSUME UNCHANGED <<attempts, results>>, RowsKeptOrDropped
        PROVE  Attempt!ANext
    <2>1. {q \in Packet : lease'[q] = NoLease} \in SUBSET Packet
      OBVIOUS
    <2>2. QED
      BY <1>r, <2>1, DroppedRowsRevoke DEF Attempt!ANext
  <1>3. ASSUME NEW p \in Packet, Cancel(p) PROVE Attempt!ANext
    BY <1>3, <1>r DEF Cancel, RowsKeptOrDropped
  <1>4. CASE LeaseScan \/ StuckScan
    BY <1>4, <1>r DEF LeaseScan, StuckScan, RowsKeptOrDropped
  <1>5. CASE Tick
    <2>1. RowsKeptOrDropped
      BY <1>5, AgedRow DEF Tick, RowsKeptOrDropped
    <2>2. QED
      BY <1>5, <1>r, <2>1 DEF Tick
  <1>6. ASSUME NEW c \in claims, Renew(c) PROVE Attempt!ANext
    <2>1. c.packet \in Packet /\ lease[c.packet] \in Row
      BY <1>6 DEF ClaimResult, Renew, RenewAccepted
    <2>2. lease' = [lease EXCEPT ![c.packet].left = TTL]
      BY <1>6 DEF Renew
    <2>3. RowsKeptOrDropped
      BY <2>1, <2>2, LeaseAssumption DEF RowsKeptOrDropped, Row
    <2>4. QED
      BY <1>6, <1>r, <2>3 DEF Renew
  <1>7. CASE UNCHANGED <<lease, attempts, results>>
    BY <1>7 DEF Attempt!avars, Owner
  <1>8. QED
    BY <1>1, <1>2, <1>3, <1>4, <1>5, <1>6, <1>7 DEF Next, vars, PromoteDraft,
       Retry, Merge, BlockStale, RenewParallel, ClaimNothing

(* Leases, tokens, expiry and scanners together implement exclusive         *)
(* attempts.                                                                *)
THEOREM Implements == Spec => ImplementsExclusiveAttempts
  <1>1. QED
    BY InitRefines, StepRefines, LeaseInvariant, PTL
       DEF Spec, ImplementsExclusiveAttempts, Attempt!ASpec
=============================================================================
