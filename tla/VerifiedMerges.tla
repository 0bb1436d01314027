---------------------------- MODULE VerifiedMerges ----------------------------
(***************************************************************************)
(* What the merge of packets promises about the target branch, with no      *)
(* merge lease, reservation, working tree or crash in it.  The results of   *)
(* packets land on the target one after the other, each on the very head it *)
(* was verified on and an earlier attempt never after a later one; what     *)
(* landed is published as a whole; and a packet is done only when all that  *)
(* ever landed for it is published, after which nothing more lands for it.  *)
(* MergePipeline is shown to implement this.                                *)
(***************************************************************************)
EXTENDS Naturals, Sequences

CONSTANTS Packet, Attempt

VARIABLES
    trunk,      \* the results on the target branch
    remote,     \* how many of them are published
    done        \* packets whose merge is over

lvars == <<trunk, remote, done>>

Landed(p) == {i \in DOMAIN trunk : trunk[i].packet = p}

LInit == trunk = <<>> /\ remote = 0 /\ done = {}

(* The result of p's n-th attempt, verified on the present head, lands. *)
Land(p, n) ==
    /\ p \notin done
    /\ \A i \in Landed(p) : trunk[i].attempt < n
    /\ trunk' = Append(trunk, [packet |-> p, attempt |-> n, on |-> Len(trunk)])
    /\ UNCHANGED <<remote, done>>

Publish ==
    /\ remote' = Len(trunk)
    /\ UNCHANGED <<trunk, done>>

Conclude(p) ==
    /\ Landed(p) # {} /\ Landed(p) \subseteq 1 .. remote
    /\ done' = done \cup {p}
    /\ UNCHANGED <<trunk, remote>>

LNext ==
    \/ \E p \in Packet : Conclude(p) \/ \E n \in Attempt : Land(p, n)
    \/ Publish

LSpec == LInit /\ [][LNext]_lvars

(* Of a packet that is done nothing is missing on the remote. *)
DoneIsWhole ==
    \A p \in done : Landed(p) # {} /\ Landed(p) \subseteq 1 .. remote
===============================================================================
