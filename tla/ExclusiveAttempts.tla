-------------------------- MODULE ExclusiveAttempts --------------------------
(***************************************************************************)
(* What the control plane promises about the execution of packets, with no  *)
(* leases, tokens, clocks or scanners in it.  The attempts of a packet are  *)
(* numbered; at any time at most one attempt is open and one worker owns    *)
(* it; an attempt is closed either by its owner's result, which is then     *)
(* recorded under that attempt, or by being taken away, and then no result  *)
(* of it is ever recorded.  PacketLease is shown to implement this.         *)
(***************************************************************************)
EXTENDS Naturals

CONSTANTS Packet, WorkerId, Outcome

VARIABLES
    owner,      \* the open attempts of each packet, with their workers
    epoch,      \* how many attempts of each packet were granted
    recorded    \* every result that was accepted

avars == <<owner, epoch, recorded>>

Result == [packet : Packet, worker : WorkerId, attempt : Nat, to : Outcome]

ATypeOK ==
    /\ owner \in [Packet -> SUBSET [worker : WorkerId, attempt : Nat]]
    /\ epoch \in [Packet -> Nat]
    /\ recorded \in SUBSET Result

AInit ==
    /\ owner = [p \in Packet |-> {}]
    /\ epoch = [p \in Packet |-> 0]
    /\ recorded = {}

(* The next attempt of p is handed to w. *)
Grant(p, w) ==
    /\ owner[p] = {}
    /\ epoch' = [epoch EXCEPT ![p] = epoch[p] + 1]
    /\ owner' = [owner EXCEPT ![p] =
          {[worker |-> w, attempt |-> epoch[p] + 1]}]
    /\ UNCHANGED recorded

(* The owner of p's open attempt reports its outcome. *)
Finish(p, o, to) ==
    /\ o \in owner[p]
    /\ recorded' = recorded \cup
          {[packet |-> p, worker |-> o.worker, attempt |-> o.attempt, to |-> to]}
    /\ owner' = [owner EXCEPT ![p] = {}]
    /\ UNCHANGED epoch

(* The open attempts of the packets in S are taken away. *)
Revoke(S) ==
    /\ owner' = [p \in Packet |-> IF p \in S THEN {} ELSE owner[p]]
    /\ UNCHANGED <<epoch, recorded>>

ANext ==
    \/ \E p \in Packet, w \in WorkerId : Grant(p, w)
    \/ \E p \in Packet : \E o \in owner[p], to \in Outcome : Finish(p, o, to)
    \/ \E S \in SUBSET Packet : Revoke(S)

ASpec == AInit /\ [][ANext]_avars

(* An attempt has at most one result, whoever may have worked on it. *)
AtMostOneResult ==
    \A r, s \in recorded :
        r.packet = s.packet /\ r.attempt = s.attempt => r = s

(* No packet is owned twice. *)
OneOwner ==
    \A p \in Packet : \A o, u \in owner[p] : o = u

(* The open attempt is the latest, and it has no result yet. *)
OpenAttemptIsLatest ==
    \A p \in Packet : \A o \in owner[p] :
        /\ o.attempt = epoch[p]
        /\ \A r \in recorded : r.packet = p => r.attempt # epoch[p]
=============================================================================
