---------------------- MODULE ExclusiveAttempts_proofs ----------------------
(* What follows from the promise of ExclusiveAttempts, whoever keeps it. *)
EXTENDS ExclusiveAttempts, TLAPS

(* The inductive invariant: results are numbered by past attempts. *)
AttemptInv ==
    /\ ATypeOK
    /\ OneOwner
    /\ OpenAttemptIsLatest
    /\ AtMostOneResult
    /\ \A r \in recorded : r.attempt <= epoch[r.packet]

LEMMA InitAttempt == AInit => AttemptInv
  BY DEF AInit, AttemptInv, ATypeOK, OneOwner, OpenAttemptIsLatest, AtMostOneResult

LEMMA StepAttempt == AttemptInv /\ [ANext]_avars => AttemptInv'
  <1> SUFFICES ASSUME AttemptInv, [ANext]_avars PROVE AttemptInv'
    OBVIOUS
  <1> USE DEF AttemptInv, ATypeOK, Result
  <1>1. ASSUME NEW p \in Packet, NEW w \in WorkerId, Grant(p, w)
        PROVE  AttemptInv'
    <2> DEFINE n == epoch[p] + 1
    <2>1. /\ n \in Nat
          /\ epoch' = [epoch EXCEPT ![p] = n]
          /\ owner' = [owner EXCEPT ![p] = {[worker |-> w, attempt |-> n]}]
          /\ recorded' = recorded
      BY <1>1 DEF Grant
    <2>2. ATypeOK'
      BY <2>1
    <2>3. \A r \in recorded : r.packet \in Packet /\ r.attempt \in Nat
      OBVIOUS
    <2>4. \A r \in recorded' : r.attempt <= epoch'[r.packet]
      BY <2>1, <2>3
    <2>5. OneOwner' /\ OpenAttemptIsLatest'
      BY <2>1, <2>3 DEF OneOwner, OpenAttemptIsLatest
    <2>6. AtMostOneResult'
      BY <2>1 DEF AtMostOneResult
    <2>7. QED
      BY <2>2, <2>4, <2>5, <2>6
  <1>2. ASSUME NEW p \in Packet, NEW o \in owner[p], NEW to \in Outcome,
               Finish(p, o, to)
        PROVE  AttemptInv'
    <2> DEFINE r == [packet |-> p, worker |-> o.worker,
                     attempt |-> o.attempt, to |-> to]
    <2>1. /\ recorded' = recorded \cup {r}
          /\ owner' = [owner EXCEPT ![p] = {}]
          /\ epoch' = epoch
      BY <1>2 DEF Finish
    <2>2. /\ o \in [worker : WorkerId, attempt : Nat]
          /\ r.attempt = epoch[p] /\ r.packet = p
          /\ \A s \in recorded : s.packet = p => s.attempt # epoch[p]
      BY DEF OpenAttemptIsLatest
    <2>3. ATypeOK'
      BY <2>1, <2>2
    <2>4. OneOwner' /\ OpenAttemptIsLatest'
      BY <2>1, <2>2 DEF OneOwner, OpenAttemptIsLatest
    <2>5. AtMostOneResult'
      BY <2>1, <2>2 DEF AtMostOneResult
    <2>6. \A s \in recorded' : s.attempt <= epoch'[s.packet]
      BY <2>1, <2>2
    <2>7. QED
      BY <2>3, <2>4, <2>5, <2>6
  <1>3. ASSUME NEW S \in SUBSET Packet, Revoke(S) PROVE AttemptInv'
    BY <1>3 DEF Revoke, OneOwner, OpenAttemptIsLatest, AtMostOneResult
  <1>4. CASE UNCHANGED avars
    BY <1>4 DEF avars, OneOwner, OpenAttemptIsLatest, AtMostOneResult
  <1>5. QED
    BY <1>1, <1>2, <1>3, <1>4 DEF ANext

(* However often attempts are taken away and granted again, no attempt ever *)
(* has two results.                                                         *)
THEOREM OneResult == ASpec => []AtMostOneResult
  <1>1. AttemptInv => AtMostOneResult
    BY DEF AttemptInv
  <1>2. QED
    BY <1>1, InitAttempt, StepAttempt, PTL DEF ASpec

(* An attempt that was taken away stays without a result: what is open is   *)
(* always the latest attempt.                                               *)
THEOREM LatestOpen == ASpec => []OpenAttemptIsLatest
  <1>1. AttemptInv => OpenAttemptIsLatest
    BY DEF AttemptInv
  <1>2. QED
    BY <1>1, InitAttempt, StepAttempt, PTL DEF ASpec

(* A packet is never owned by two workers, nor twice by one. *)
THEOREM SingleOwner == ASpec => []OneOwner
  <1>1. AttemptInv => OneOwner
    BY DEF AttemptInv
  <1>2. QED
    BY <1>1, InitAttempt, StepAttempt, PTL DEF ASpec
=============================================================================
