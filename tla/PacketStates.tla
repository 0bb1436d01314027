---------------------------- MODULE PacketStates ----------------------------
(***************************************************************************)
(* The packet life cycle of core/state_machine.py: the states a packet row  *)
(* may be in and the transition table PacketStateMachine enforces.  Every   *)
(* other module refers to packet states through this one.                   *)
(***************************************************************************)

DRAFT == "draft"
READY == "ready"
RUNNING == "running"
ACCEPTED == "accepted"
REJECTED == "rejected"
BLOCKED_RECOVERABLE == "blocked_recoverable"
BLOCKED_FINAL == "blocked_final"
MERGED == "merged"
FAILED == "failed"
CANCELLED == "cancelled"

PacketState ==
    {DRAFT, READY, RUNNING, ACCEPTED, REJECTED, BLOCKED_RECOVERABLE,
     BLOCKED_FINAL, MERGED, FAILED, CANCELLED}

(* The table proper.  The deprecated alias "blocked" is normalised to       *)
(* BLOCKED_FINAL before the table is consulted and has no entry of its own. *)
ValidTransitions(from) ==
    CASE from = DRAFT -> {READY}
      [] from = READY -> {RUNNING, CANCELLED}
      [] from = RUNNING -> {ACCEPTED, REJECTED, BLOCKED_RECOVERABLE,
                            BLOCKED_FINAL, FAILED, CANCELLED}
      [] from = REJECTED -> {READY, FAILED, BLOCKED_RECOVERABLE,
                             BLOCKED_FINAL, CANCELLED}
      [] from = BLOCKED_RECOVERABLE -> {READY, BLOCKED_FINAL, CANCELLED}
      [] from = BLOCKED_FINAL -> {CANCELLED}
      [] from = ACCEPTED -> {MERGED, BLOCKED_RECOVERABLE}
      [] from = FAILED -> {CANCELLED}
      [] OTHER -> {}

CanTransition(from, to) == to \in ValidTransitions(from)

(* PacketStateMachine.TERMINAL_STATES, repeated in PacketService. *)
TerminalStates == {MERGED, FAILED, BLOCKED_FINAL, CANCELLED}

(* Altered form of ClaimableStates: a RUNNING packet can be taken over. *)
ClaimableOrRunning ==
    {READY, DRAFT, REJECTED, BLOCKED_RECOVERABLE, RUNNING}

(* The states PacketService.claim accepts: READY itself, and those it moves *)
(* through READY on the way to RUNNING.                                     *)
ClaimableStates == {READY, DRAFT, REJECTED, BLOCKED_RECOVERABLE}

(* The statuses a worker may report and the state each one leads to.        *)
ReleaseStatus ==
    {"accepted", "rejected", "blocked", "blocked_recoverable", "failed"}

ReleaseTarget(status) ==
    CASE status = "accepted" -> ACCEPTED
      [] status = "rejected" -> REJECTED
      [] status = "blocked" -> BLOCKED_FINAL
      [] status = "blocked_recoverable" -> BLOCKED_RECOVERABLE
      [] status = "failed" -> FAILED

(* Entering one of these states gives up the packet's parallel reservation; *)
(* ACCEPTED keeps it until the merge.                                       *)
ParallelReleasingStates ==
    {MERGED, REJECTED, FAILED, BLOCKED_RECOVERABLE, BLOCKED_FINAL, CANCELLED}
=============================================================================
