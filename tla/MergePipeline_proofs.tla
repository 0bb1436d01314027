------------------------ MODULE MergePipeline_proofs ------------------------
(***************************************************************************)
(* Proofs about MergePipeline for any packets, any number of API processes, *)
(* any lease times and any number of executions: what is in the target was  *)
(* verified on the head it was merged onto, and MERGED packets are pushed.  *)
(*                                                                          *)
(* Both rest on the merge lease's token.  A process may stall anywhere and  *)
(* any number of merges may be under way, but of all of them one at most    *)
(* has the token of the row, and what that one knows is still true: its     *)
(* head is the target's, its packet is ACCEPTED in the attempt it merges.   *)
(* From the same facts the pipeline is shown to implement VerifiedMerges,   *)
(* where there are no leases, runs or crashes: only what lands, what is     *)
(* published and what is done.                                              *)
(***************************************************************************)
EXTENDS MergePipeline, TLAPS

Busy(a) == run[a] # Idle

\* a's merge has the token of the row, live or not.
HoldsRow(a) == Busy(a) /\ mlease # NoLease /\ mlease.token = run[a].token

\* The result of attempt k of p is among the target's first n commits.
Result(n, p, k) ==
    \E i \in 1 .. n : target[i].packet = p /\ target[i].attempt = k

\* A new token is new.
TokensNumbered ==
    /\ mlease # NoLease => mlease.token <= tokens
    /\ \A a \in Api : Busy(a) => run[a].token <= tokens
    /\ \A a, b \in Api : Busy(a) /\ Busy(b) /\ run[a].token = run[b].token => a = b

RowIsOfItsRun == \A a \in Api : HoldsRow(a) => mlease.packet = run[a].packet

\* The merge of an attempt is asked for once.
AttemptsNumbered ==
    \A a \in Api : Busy(a) =>
        /\ run[a].attempt <= attempt[run[a].packet]
        /\ state[run[a].packet] = RUNNING \/ asking[run[a].packet]
              => run[a].attempt < attempt[run[a].packet]

OneRunPerAttempt ==
    \A a, b \in Api :
        Busy(a) /\ Busy(b) /\ run[a].packet = run[b].packet
        /\ run[a].attempt = run[b].attempt => a = b

\* The packet of the row's merge is as its admission found it.
HolderIsCurrent ==
    \A a \in Api : HoldsRow(a) =>
        \/ run[a].packet \in crossed
        \/ /\ state[run[a].packet] = ACCEPTED
           /\ attempt[run[a].packet] = run[a].attempt

\* The head the row's merge was verified on is the target's.
HolderIsVerified ==
    \A a \in Api : HoldsRow(a) /\ run[a].step \in {"checkout", "merge"}
        => run[a].on = TargetHead

\* A merge that is past a step has done what the step does.
StepsDone ==
    \A a \in Api : Busy(a) =>
        /\ run[a].step = "push" => Result(TargetHead, run[a].packet, run[a].attempt)
        /\ run[a].step = "finish" => Result(pushed, run[a].packet, run[a].attempt)

RunsInv == /\ TokensNumbered /\ RowIsOfItsRun /\ OneRunPerAttempt
           /\ HolderIsVerified /\ StepsDone

MergeInv == /\ MTypeOK /\ RunsInv /\ AttemptsNumbered /\ HolderIsCurrent
            /\ VerifiedWhereMerged /\ MergedIsPushed

-----------------------------------------------------------------------------
LEMMA BusyRun ==
    ASSUME MTypeOK, NEW a \in Api, Busy(a)
    PROVE  /\ run[a] \in Run
           /\ run[a].packet \in Packet /\ run[a].attempt \in Nat
           /\ run[a].token \in Nat /\ run[a].on \in Nat
<1>1. run[a] \in Run
  BY DEF MTypeOK, Busy
<1> QED BY <1>1 DEF Run

LEMMA IdleOrBusy ==
    ASSUME MTypeOK, NEW a \in Api, run[a].step # "none" PROVE Busy(a)
  BY DEF Busy, Idle

LEMMA Typed ==
    ASSUME MTypeOK
    PROVE  /\ target \in Seq(Commit) /\ Len(target) \in Nat
           /\ DOMAIN target = 1 .. Len(target)
           /\ pushed \in Nat /\ pushed <= Len(target) /\ tokens \in Nat
  BY DEF MTypeOK

(* The row of an unchanged or deleted lease.                                *)
SameRow ==
    mlease' # NoLease => /\ mlease # NoLease /\ mlease'.packet = mlease.packet
                         /\ mlease'.token = mlease.token

(* Merges may end, and nothing else happens to them.                        *)
OnlyEnds == \A b \in Api : run'[b] = run[b] \/ run'[b] = Idle

LEMMA StillBusy ==
    ASSUME OnlyEnds, SameRow, NEW a \in Api
    PROVE  /\ Busy(a)' => Busy(a) /\ run'[a] = run[a]
           /\ HoldsRow(a)' => HoldsRow(a) /\ run'[a] = run[a]
  BY DEF OnlyEnds, SameRow, Busy, HoldsRow

LEMMA RunsKept ==
    ASSUME MTypeOK, RunsInv, OnlyEnds, SameRow, UNCHANGED <<tokens, target, pushed>>
    PROVE  RunsInv'
<1>1. TokensNumbered'
  BY StillBusy DEF RunsInv, TokensNumbered, SameRow
<1>2. RowIsOfItsRun'
  <2> SUFFICES ASSUME NEW a \in Api, HoldsRow(a)' PROVE mlease'.packet = run'[a].packet
    BY DEF RowIsOfItsRun
  <2>1. HoldsRow(a) /\ run'[a] = run[a] /\ mlease' # NoLease
    BY StillBusy DEF HoldsRow
  <2> QED BY <2>1 DEF RunsInv, RowIsOfItsRun, SameRow
<1>3. OneRunPerAttempt'
  BY StillBusy DEF RunsInv, OneRunPerAttempt
<1>4. HolderIsVerified'
  BY StillBusy DEF RunsInv, HolderIsVerified, TargetHead
<1>5. StepsDone'
  BY StillBusy DEF RunsInv, StepsDone, Result, TargetHead
<1> QED BY <1>1, <1>2, <1>3, <1>4, <1>5 DEF RunsInv

(* What is pushed stays, so a MERGED packet is still pushed.                *)
LEMMA MergedKept ==
    ASSUME MTypeOK, MergedIsPushed, pushed' \in Nat, pushed <= pushed',
           \A i \in 1 .. Len(target) : target'[i] = target[i],
           attempt' = attempt, crossed \subseteq crossed',
           \A q \in Packet : state'[q] = MERGED => state[q] = MERGED
    PROVE  MergedIsPushed'
<1> SUFFICES ASSUME NEW p \in Packet, state'[p] = MERGED
             PROVE  (\/ Holds(pushed, p)
                     \/ p \in crossed /\ \E i \in 1 .. pushed : target[i].packet = p)'
  BY DEF MergedIsPushed
<1>1. \/ Holds(pushed, p)
      \/ p \in crossed /\ \E i \in 1 .. pushed : target[i].packet = p
  BY DEF MergedIsPushed
<1>2. \A i \in 1 .. pushed : i \in 1 .. pushed' /\ target'[i] = target[i]
  BY Typed
<1> QED BY <1>1, <1>2 DEF Holds

(* A step outside the merges, or the end of one: attempts are not changed,  *)
(* nobody starts or asks anew, and the packet of the row's merge keeps its  *)
(* state unless it is crossed.                                              *)
LEMMA OutsideKeeps ==
    ASSUME MergeInv, MTypeOK', MergedIsPushed', OnlyEnds, SameRow,
           UNCHANGED <<tokens, target, pushed, attempt>>, crossed \subseteq crossed',
           \A q \in Packet : \/ state'[q] = RUNNING
                             \/ asking'[q] => state[q] = RUNNING \/ asking[q],
           \A q \in Packet : state'[q] = RUNNING => state[q] = RUNNING,
           \A a \in Api : HoldsRow(a) /\ HoldsRow(a)' =>
               \/ run[a].packet \in crossed'
               \/ state'[run[a].packet] = state[run[a].packet]
    PROVE  MergeInv'
<1>1. RunsInv'
  BY RunsKept DEF MergeInv
<1>2. AttemptsNumbered'
  <2> SUFFICES ASSUME NEW a \in Api, Busy(a)'
               PROVE  /\ run'[a].attempt <= attempt'[run'[a].packet]
                      /\ state'[run'[a].packet] = RUNNING \/ asking'[run'[a].packet]
                            => run'[a].attempt < attempt'[run'[a].packet]
    BY DEF AttemptsNumbered
  <2>1. Busy(a) /\ run'[a] = run[a] /\ run[a].packet \in Packet
    BY StillBusy, BusyRun DEF MergeInv
  <2> QED BY <2>1 DEF MergeInv, AttemptsNumbered
<1>3. HolderIsCurrent'
  BY StillBusy DEF MergeInv, HolderIsCurrent
<1>4. VerifiedWhereMerged'
  BY DEF MergeInv, VerifiedWhereMerged, TargetHead
<1> QED BY <1>1, <1>2, <1>3, <1>4 DEF MergeInv

(* A merge takes a step.  It may add to the target only while it has the    *)
(* row's token.                                                             *)
LEMMA InsideKeeps ==
    ASSUME MergeInv, MTypeOK', VerifiedWhereMerged', NEW a \in Api, Busy(a),
           NEW k \in Run, k.packet = run[a].packet, k.attempt = run[a].attempt,
           k.token = run[a].token, run' = [run EXCEPT ![a] = k],
           UNCHANGED <<packetvars, mlease, tokens>>,
           Len(target) <= Len(target'), pushed <= pushed',
           \A i \in 1 .. Len(target) : target'[i] = target[i],
           Len(target') = Len(target) \/ HoldsRow(a),
           HoldsRow(a) /\ k.step \in {"checkout", "merge"} => k.on = Len(target'),
           k.step = "push" => Result(TargetHead, k.packet, k.attempt)',
           k.step = "finish" => Result(pushed, k.packet, k.attempt)'
    PROVE  MergeInv'
<1>0. /\ Len(target) \in Nat /\ pushed \in Nat /\ pushed <= Len(target)
      /\ Len(target') \in Nat /\ pushed' \in Nat
  <2>1. target' \in Seq(Commit) /\ pushed' \in 0 .. Len(target')
    BY DEF MTypeOK
  <2>2. Len(target') \in Nat
    BY <2>1
  <2> QED BY <2>1, <2>2, Typed DEF MergeInv
<1>1. /\ run'[a] = k /\ k # Idle
      /\ \A b \in Api : b # a => run'[b] = run[b]
  BY DEF MergeInv, MTypeOK, Run, Idle, Step
<1>2. \A b \in Api : Busy(b)' <=> Busy(b)
  BY <1>1 DEF Busy
<1>3. \A b \in Api : /\ run'[b].packet = run[b].packet
                     /\ run'[b].attempt = run[b].attempt
                     /\ run'[b].token = run[b].token
  BY <1>1
<1>4. \A b \in Api : HoldsRow(b)' <=> HoldsRow(b)
  BY <1>2, <1>3 DEF HoldsRow
<1>5. TokensNumbered' /\ RowIsOfItsRun' /\ OneRunPerAttempt'
  BY <1>2, <1>3, <1>4 DEF MergeInv, RunsInv, TokensNumbered, RowIsOfItsRun, OneRunPerAttempt
<1>6. HolderIsVerified'
  <2> SUFFICES ASSUME NEW b \in Api, HoldsRow(b), run'[b].step \in {"checkout", "merge"}
               PROVE  run'[b].on = Len(target')
    BY <1>4 DEF HolderIsVerified, TargetHead
  <2>1. CASE b = a
    BY <1>1, <2>1
  <2>2. CASE b # a
    <3>1. ~HoldsRow(a)
      BY <2>2 DEF HoldsRow, MergeInv, RunsInv, TokensNumbered
    <3> QED BY <1>1, <2>2, <3>1 DEF MergeInv, RunsInv, HolderIsVerified, TargetHead
  <2> QED BY <2>1, <2>2
<1>7. StepsDone'
  <2> SUFFICES ASSUME NEW b \in Api, Busy(b)
               PROVE  /\ run'[b].step = "push"
                            => Result(TargetHead, run[b].packet, run[b].attempt)'
                      /\ run'[b].step = "finish"
                            => Result(pushed, run[b].packet, run[b].attempt)'
    BY <1>2 DEF StepsDone
  <2>1. CASE b = a
    BY <1>1, <2>1
  <2>2. CASE b # a
    <3>1. run'[b] = run[b]
      BY <1>1, <2>2
    <3>2. \A i \in 1 .. Len(target) : i \in 1 .. Len(target') /\ target'[i] = target[i]
      BY <1>0
    <3>3. \A i \in 1 .. pushed : i \in 1 .. pushed' /\ target'[i] = target[i]
      BY <1>0
    <3>4. /\ run[b].step = "push" => Result(Len(target), run[b].packet, run[b].attempt)
          /\ run[b].step = "finish" => Result(pushed, run[b].packet, run[b].attempt)
      BY DEF MergeInv, RunsInv, StepsDone, TargetHead
    <3> QED BY <3>1, <3>2, <3>3, <3>4 DEF Result, TargetHead
  <2> QED BY <2>1, <2>2
<1>8. AttemptsNumbered' /\ HolderIsCurrent'
  BY <1>2, <1>3, <1>4 DEF MergeInv, AttemptsNumbered, HolderIsCurrent, packetvars
<1>9. MergedIsPushed'
  <2>1. attempt' = attempt /\ crossed' = crossed /\ state' = state
    BY DEF packetvars
  <2> QED BY <1>0, <2>1, MergedKept DEF MergeInv
<1> QED BY <1>5, <1>6, <1>7, <1>8, <1>9 DEF MergeInv, RunsInv

-----------------------------------------------------------------------------
LEMMA StatesTyped ==
    /\ READY \in PacketState /\ RUNNING \in PacketState /\ ACCEPTED \in PacketState
    /\ BLOCKED_RECOVERABLE \in PacketState /\ FAILED \in PacketState
    /\ MERGED \in PacketState
    /\ RUNNING \notin {READY, BLOCKED_RECOVERABLE, ACCEPTED, FAILED, MERGED}
    /\ MERGED \notin {READY, BLOCKED_RECOVERABLE, ACCEPTED, FAILED, RUNNING}
    /\ ACCEPTED \notin {READY, BLOCKED_RECOVERABLE, RUNNING}
  BY DEF PacketState, READY, RUNNING, ACCEPTED, BLOCKED_RECOVERABLE, FAILED, MERGED

LEMMA EndRunEffect ==
    ASSUME MTypeOK, NEW a \in Api, EndRun(a)
    PROVE  /\ OnlyEnds /\ SameRow /\ run'[a] = Idle
           /\ run' \in [Api -> Run \cup {Idle}]
           /\ mlease' \in [packet : Packet, token : Nat, left : Int] \cup {NoLease}
           /\ UNCHANGED <<attempt, base, asking, tokens>>
  BY DEF EndRun, OnlyEnds, SameRow, MTypeOK

LEMMA FailKeeps ==
    ASSUME MergeInv, NEW a \in Api, Fail(a), tree' \in {"clean", "merging"},
           UNCHANGED <<target, pushed>>
    PROVE  MergeInv'
<1>1. EndRun(a) /\ UNCHANGED <<state, held, crossed>>
  BY DEF Fail
<1>2. MTypeOK'
  BY <1>1, EndRunEffect DEF MergeInv, MTypeOK
<1>3. MergedIsPushed'
  BY <1>1, EndRunEffect, MergedKept, Typed DEF MergeInv
<1> QED BY <1>1, <1>2, <1>3, EndRunEffect, OutsideKeeps DEF MergeInv

(* A run that is not the one with the row's token and is of the same        *)
(* packet merges an earlier attempt.                                        *)
LEMMA BlockKeeps ==
    ASSUME MergeInv, NEW a \in Api, Busy(a), BlockRun(a), tree' \in {"clean", "merging"},
           UNCHANGED <<target, pushed>>
    PROVE  MergeInv'
<1>0. EndRun(a) /\ run[a].packet \in Packet
  BY BusyRun DEF BlockRun, MergeInv
<1>1. CASE UNCHANGED <<state, held, crossed>>
  BY <1>0, <1>1, FailKeeps DEF Fail
<1>2. CASE ~UNCHANGED <<state, held, crossed>>
  <2> DEFINE p == run[a].packet
  <2>1. /\ state' = [state EXCEPT ![p] = BLOCKED_RECOVERABLE]
        /\ held' = [held EXCEPT ![p] = FALSE]
        /\ crossed' = IF run[a].attempt = attempt[p] THEN crossed ELSE crossed \cup {p}
    BY <1>2 DEF BlockRun
  <2>2. MTypeOK'
    BY <1>0, <2>1, EndRunEffect, StatesTyped DEF MergeInv, MTypeOK
  <2>3. /\ crossed \subseteq crossed'
        /\ \A q \in Packet : state'[q] = MERGED => state[q] = MERGED
        /\ \A q \in Packet : state'[q] = RUNNING => state[q] = RUNNING
    BY <2>1, StatesTyped DEF MergeInv, MTypeOK
  <2>4. MergedIsPushed'
    BY <1>0, <2>3, EndRunEffect, MergedKept, Typed DEF MergeInv
  <2>5. ASSUME NEW b \in Api, HoldsRow(b), HoldsRow(b)'
        PROVE  run[b].packet \in crossed' \/ state'[run[b].packet] = state[run[b].packet]
    <3>1. b # a /\ Busy(b)
      BY <1>0, <2>5, EndRunEffect DEF HoldsRow, Busy, MergeInv
    <3>2. CASE run[b].packet # p
      BY <2>1, <3>1, <3>2, BusyRun DEF MergeInv, MTypeOK
    <3>3. CASE run[b].packet = p
      <4>1. p \in crossed \/ attempt[p] = run[b].attempt
        BY <2>5, <3>3 DEF MergeInv, HolderIsCurrent
      <4>2. run[a].attempt # run[b].attempt
        BY <3>1, <3>3 DEF MergeInv, RunsInv, OneRunPerAttempt
      <4> QED BY <2>1, <3>3, <4>1, <4>2
    <3> QED BY <3>2, <3>3
  <2>6. \A q \in Packet : state'[q] = RUNNING \/ asking'[q] => state[q] = RUNNING \/ asking[q]
    BY <1>0, <2>3, EndRunEffect DEF MergeInv
  <2> QED BY <1>0, <2>2, <2>3, <2>4, <2>5, <2>6, EndRunEffect, OutsideKeeps DEF MergeInv
<1> QED BY <1>1, <1>2

LEMMA FinishKeeps ==
    ASSUME MergeInv, NEW a \in Api, Finish(a)
    PROVE  MergeInv'
<1>0. Busy(a) /\ UNCHANGED <<target, pushed, tree>>
  BY IdleOrBusy DEF Finish, repovars, MergeInv
<1>1. CASE Fail(a)
  BY <1>0, <1>1, FailKeeps DEF MergeInv, MTypeOK
<1>2. CASE ~Fail(a)
  <2> DEFINE p == run[a].packet
  <2>1. /\ run[a].step = "finish" /\ Current(a) /\ EndRun(a)
        /\ state' = [state EXCEPT ![p] = MERGED]
        /\ held' = [held EXCEPT ![p] = FALSE] /\ crossed' = crossed
    BY <1>2 DEF Finish
  <2>2. p \in Packet /\ run[a].attempt \in Nat
    BY <1>0, BusyRun DEF MergeInv
  <2>3. MTypeOK'
    BY <1>0, <2>1, <2>2, EndRunEffect, StatesTyped DEF MergeInv, MTypeOK
  <2>4. p \in crossed \/ attempt[p] = run[a].attempt
    BY <1>0, <2>1 DEF MergeInv, HolderIsCurrent, HoldsRow, Current
  <2>5. Result(pushed, p, run[a].attempt)
    BY <1>0, <2>1 DEF MergeInv, RunsInv, StepsDone
  <2>6. MergedIsPushed'
    <3> SUFFICES ASSUME NEW q \in Packet, state'[q] = MERGED
                 PROVE  \/ Holds(pushed, q)
                        \/ q \in crossed /\ \E i \in 1 .. pushed : target[i].packet = q
      BY <1>0, <2>1, EndRunEffect DEF MergedIsPushed, Holds, MergeInv
    <3>1. CASE q = p
      BY <2>4, <2>5, <3>1 DEF Result, Holds
    <3>2. CASE q # p
      BY <2>1, <2>2, <3>2 DEF MergeInv, MTypeOK, MergedIsPushed
    <3> QED BY <3>1, <3>2
  <2>7. \A q \in Packet : state'[q] = RUNNING => state[q] = RUNNING
    BY <2>1, StatesTyped DEF MergeInv, MTypeOK
  <2>8. ASSUME NEW b \in Api, HoldsRow(b), HoldsRow(b)' PROVE FALSE
    <3>1. b # a /\ Busy(b)
      BY <2>1, <2>8, EndRunEffect DEF HoldsRow, Busy, MergeInv
    <3> QED BY <1>0, <2>1, <2>8, <3>1 DEF HoldsRow, Current, MergeInv, RunsInv, TokensNumbered
  <2>9. \A q \in Packet : state'[q] = RUNNING \/ asking'[q] => state[q] = RUNNING \/ asking[q]
    BY <2>1, <2>7, EndRunEffect DEF MergeInv
  <2> QED BY <1>0, <2>1, <2>3, <2>6, <2>7, <2>8, <2>9, EndRunEffect, OutsideKeeps DEF MergeInv
<1> QED BY <1>1, <1>2

-----------------------------------------------------------------------------
(* A step of a merge that leaves the target alone.                          *)
LEMMA MovesKeep ==
    ASSUME MergeInv, NEW a \in Api, Busy(a),
           NEW k \in Run, k.packet = run[a].packet, k.attempt = run[a].attempt,
           k.token = run[a].token, run' = [run EXCEPT ![a] = k],
           UNCHANGED <<packetvars, target, mlease, tokens>>,
           tree' \in {"clean", "merging"}, pushed' \in {pushed, Len(target)},
           HoldsRow(a) /\ k.step \in {"checkout", "merge"} => k.on = Len(target),
           k.step # "push",
           k.step = "finish" => pushed' = Len(target)
                                /\ Result(TargetHead, k.packet, k.attempt)
    PROVE  MergeInv'
<1>1. MTypeOK'
  <2>1. run' \in [Api -> Run \cup {Idle}]
    BY DEF MergeInv, MTypeOK
  <2>2. pushed' \in 0 .. Len(target')
    BY Typed DEF MergeInv, MTypeOK
  <2> QED BY <2>1, <2>2 DEF MergeInv, MTypeOK, packetvars
<1>2. VerifiedWhereMerged'
  BY DEF MergeInv, VerifiedWhereMerged, TargetHead
<1>3. pushed <= pushed' /\ Len(target) <= Len(target')
  BY Typed DEF MergeInv
<1>4. k.step = "finish" => Result(pushed, k.packet, k.attempt)'
  BY DEF Result, TargetHead
<1>5. UNCHANGED <<packetvars, mlease, tokens>> /\ target' = target
  OBVIOUS
<1> QED BY <1>1, <1>2, <1>3, <1>4, <1>5, InsideKeeps

LEMMA PrepareKeeps ==
    ASSUME MergeInv, NEW a \in Api, Prepare(a)
    PROVE  MergeInv'
<1>0. Busy(a) /\ UNCHANGED <<target, pushed, tree>> /\ tree \in {"clean", "merging"}
  BY IdleOrBusy DEF Prepare, repovars, MergeInv, MTypeOK
<1>1. CASE Fail(a)
  BY <1>0, <1>1, FailKeeps
<1>2. CASE BlockRun(a)
  BY <1>0, <1>2, BlockKeeps
<1>3. CASE ~Stale(a) /\ GoOn(a, "checkout")
  <2>1. PICK k : k = [run[a] EXCEPT !.step = "checkout"]
    OBVIOUS
  <2>2. k \in Run /\ k.step = "checkout" /\ k.packet = run[a].packet
        /\ k.attempt = run[a].attempt /\ k.token = run[a].token /\ k.on = run[a].on
    BY <1>0, <2>1, BusyRun DEF Run, Step, MergeInv
  <2>3. /\ run' = [run EXCEPT ![a] = k] /\ UNCHANGED <<packetvars, target, mlease, tokens>>
        /\ k.on = Len(target)
    BY <1>0, <1>3, <2>1, <2>2 DEF GoOn, Stale, TargetHead
  <2> QED BY <1>0, <2>2, <2>3, MovesKeep
<1>4. CASE /\ run' = [run EXCEPT ![a].step = "checkout",
                               ![a].on = TargetHead, ![a].rechecked = TRUE]
           /\ UNCHANGED <<packetvars, mlease, tokens>>
  <2>1. PICK k : k = [run[a] EXCEPT !.step = "checkout", !.on = TargetHead,
                                    !.rechecked = TRUE]
    OBVIOUS
  <2>2. k \in Run /\ k.step = "checkout" /\ k.packet = run[a].packet
        /\ k.attempt = run[a].attempt /\ k.token = run[a].token /\ k.on = Len(target)
    <3>1. TargetHead \in Nat /\ run[a] \in Run
      BY <1>0, BusyRun, Typed DEF TargetHead, MergeInv
    <3> QED BY <2>1, <3>1 DEF Run, Step, TargetHead
  <2>3. run' = [run EXCEPT ![a] = k] /\ UNCHANGED <<packetvars, target, mlease, tokens>>
    BY <1>0, <1>4, <2>1
  <2> QED BY <1>0, <2>2, <2>3, MovesKeep
<1> QED BY <1>1, <1>2, <1>3, <1>4 DEF Prepare

LEMMA CheckoutKeeps ==
    ASSUME MergeInv, NEW a \in Api, Checkout(a)
    PROVE  MergeInv'
<1>0. Busy(a) /\ UNCHANGED <<target, pushed, tree>> /\ tree \in {"clean", "merging"}
  BY IdleOrBusy DEF Checkout, repovars, MergeInv, MTypeOK
<1>1. CASE Fail(a)
  BY <1>0, <1>1, FailKeeps
<1>2. CASE BlockRun(a)
  BY <1>0, <1>2, BlockKeeps
<1>3. CASE GoOn(a, "merge")
  <2>1. PICK k : k = [run[a] EXCEPT !.step = "merge"]
    OBVIOUS
  <2>2. k \in Run /\ k.step = "merge" /\ k.packet = run[a].packet
        /\ k.attempt = run[a].attempt /\ k.token = run[a].token /\ k.on = run[a].on
    BY <1>0, <2>1, BusyRun DEF Run, Step, MergeInv
  <2>3. run' = [run EXCEPT ![a] = k] /\ UNCHANGED <<packetvars, target, mlease, tokens>>
    BY <1>0, <1>3, <2>1 DEF GoOn
  <2>4. HoldsRow(a) => k.on = Len(target)
    BY <2>2 DEF Checkout, MergeInv, RunsInv, HolderIsVerified, TargetHead
  <2> QED BY <1>0, <2>2, <2>3, <2>4, MovesKeep
<1> QED BY <1>1, <1>2, <1>3 DEF Checkout

LEMMA ConflictKeeps ==
    ASSUME MergeInv, NEW a \in Api, Conflict(a)
    PROVE  MergeInv'
<1>1. Busy(a) /\ BlockRun(a) /\ UNCHANGED <<target, pushed>>
  BY IdleOrBusy DEF Conflict, MergeInv
<1>2. tree' \in {"clean", "merging"}
  BY DEF Conflict, MergeInv, MTypeOK
<1> QED BY <1>1, <1>2, BlockKeeps

LEMMA PushKeeps ==
    ASSUME MergeInv, NEW a \in Api, Push(a)
    PROVE  MergeInv'
<1>0. Busy(a) /\ UNCHANGED <<target, tree>> /\ tree \in {"clean", "merging"}
  BY IdleOrBusy DEF Push, MergeInv, MTypeOK
<1>1. CASE Fail(a) /\ UNCHANGED pushed
  BY <1>0, <1>1, FailKeeps
<1>2. CASE pushed' = TargetHead /\ GoOn(a, "finish")
  <2>1. PICK k : k = [run[a] EXCEPT !.step = "finish"]
    OBVIOUS
  <2>2. k \in Run /\ k.step = "finish" /\ k.packet = run[a].packet
        /\ k.attempt = run[a].attempt /\ k.token = run[a].token
    BY <1>0, <2>1, BusyRun DEF Run, Step, MergeInv
  <2>3. run' = [run EXCEPT ![a] = k] /\ UNCHANGED <<packetvars, target, mlease, tokens>>
    BY <1>0, <1>2, <2>1 DEF GoOn
  <2>4. Result(TargetHead, k.packet, k.attempt) /\ pushed' = Len(target)
    BY <1>0, <1>2, <2>2 DEF Push, MergeInv, RunsInv, StepsDone, TargetHead
  <2> QED BY <1>0, <2>2, <2>3, <2>4, MovesKeep
<1> QED BY <1>1, <1>2 DEF Push

LEMMA MergeBranchKeeps ==
    ASSUME MergeInv, NEW a \in Api, MergeBranch(a)
    PROVE  MergeInv'
<1>0. Busy(a) /\ run[a].step = "merge" /\ tree \in {"clean", "merging"}
  BY IdleOrBusy DEF MergeBranch, MergeInv, MTypeOK
<1>1. CASE Fail(a) /\ target' = target /\ pushed' = pushed
  <2>1. tree' \in {"clean", "merging"}
    BY <1>0, <1>1 DEF MergeBranch, repovars
  <2> QED BY <1>1, <2>1, FailKeeps
<1>2. CASE tree' = "merging" /\ GoOn(a, "conflict") /\ UNCHANGED <<target, pushed>>
  <2>1. PICK k : k = [run[a] EXCEPT !.step = "conflict"]
    OBVIOUS
  <2>2. k \in Run /\ k.step = "conflict" /\ k.packet = run[a].packet
        /\ k.attempt = run[a].attempt /\ k.token = run[a].token
    BY <1>0, <2>1, BusyRun DEF Run, Step, MergeInv
  <2>3. run' = [run EXCEPT ![a] = k] /\ UNCHANGED <<packetvars, target, mlease, tokens>>
    BY <1>2, <2>1 DEF GoOn
  <2> QED BY <1>0, <1>2, <2>2, <2>3, MovesKeep
<1>3. CASE /\ MayMutate(a) /\ GoOn(a, "push") /\ UNCHANGED <<pushed, tree>>
           /\ target' = Append(target, [packet |-> run[a].packet,
                                        attempt |-> run[a].attempt, on |-> run[a].on])
  <2>1. PICK k : k = [run[a] EXCEPT !.step = "push"]
    OBVIOUS
  <2>2. k \in Run /\ k.step = "push" /\ k.packet = run[a].packet
        /\ k.attempt = run[a].attempt /\ k.token = run[a].token
    BY <1>0, <2>1, BusyRun DEF Run, Step, MergeInv
  <2>3. run' = [run EXCEPT ![a] = k] /\ UNCHANGED <<packetvars, mlease, tokens>>
    BY <1>3, <2>1 DEF GoOn
  <2>4. PICK c : c = [packet |-> run[a].packet, attempt |-> run[a].attempt,
                      on |-> run[a].on]
    OBVIOUS
  <2>5. c \in Commit /\ c.packet = k.packet /\ c.attempt = k.attempt /\ c.on = run[a].on
    BY <1>0, <2>2, <2>4, BusyRun DEF Commit, MergeInv
  <2>6. /\ target' \in Seq(Commit) /\ Len(target') = Len(target) + 1
        /\ \A i \in 1 .. Len(target) : target'[i] = target[i]
        /\ target'[Len(target) + 1] = c
    BY <1>3, <2>4, <2>5, Typed DEF MergeInv
  <2>7. MTypeOK'
    <3>1. run' \in [Api -> Run \cup {Idle}]
      BY <2>2, <2>3 DEF MergeInv, MTypeOK
    <3>2. pushed' \in 0 .. Len(target')
      BY <1>3, <2>6, Typed DEF MergeInv
    <3> QED BY <1>3, <2>3, <2>6, <3>1, <3>2 DEF MergeInv, MTypeOK, packetvars
  <2>8. HoldsRow(a)
    BY <1>0, <1>3 DEF HoldsRow, MayMutate, Current
  <2>9. c.on = Len(target)
    BY <1>0, <2>5, <2>8 DEF MergeInv, RunsInv, HolderIsVerified, TargetHead
  <2>10. VerifiedWhereMerged'
    <3> SUFFICES ASSUME NEW i \in 1 .. Len(target') PROVE target'[i].on = i - 1
      BY DEF VerifiedWhereMerged, TargetHead
    <3>1. CASE i \in 1 .. Len(target)
      BY <2>6, <3>1 DEF MergeInv, VerifiedWhereMerged, TargetHead
    <3>2. CASE i \notin 1 .. Len(target)
      <4>1. i = Len(target) + 1
        BY <2>6, <3>2, Typed DEF MergeInv
      <4> QED BY <2>6, <2>9, <4>1, Typed DEF MergeInv
    <3> QED BY <3>1, <3>2
  <2>11. Result(TargetHead, k.packet, k.attempt)'
    <3>1. Len(target) + 1 \in 1 .. Len(target')
      BY <2>6, Typed DEF MergeInv
    <3> QED BY <2>5, <2>6, <3>1 DEF Result, TargetHead
  <2>12. Len(target) <= Len(target') /\ pushed <= pushed'
    BY <1>3, <2>6, Typed DEF MergeInv
  <2> QED BY <1>0, <2>2, <2>3, <2>6, <2>7, <2>8, <2>10, <2>11, <2>12, InsideKeeps
<1> QED BY <1>1, <1>2, <1>3 DEF MergeBranch, repovars

-----------------------------------------------------------------------------
(* Steps that end no merge, or an API process's.                            *)
LEMMA AcceptKeeps ==
    ASSUME MergeInv, NEW p \in Packet, Accept(p)
    PROVE  MergeInv'
<1>1. /\ state[p] = RUNNING
      /\ state' = [state EXCEPT ![p] = ACCEPTED]
      /\ asking' = [asking EXCEPT ![p] = TRUE]
      /\ UNCHANGED <<attempt, base, held, target, pushed, tree, mlease, tokens, run, crossed>>
  BY DEF Accept, repovars
<1>2. MTypeOK'
  BY <1>1, StatesTyped DEF MergeInv, MTypeOK
<1>3. /\ \A q \in Packet : state'[q] = MERGED => state[q] = MERGED
      /\ \A q \in Packet : state'[q] = RUNNING => state[q] = RUNNING
      /\ \A q \in Packet : state'[q] = RUNNING \/ asking'[q] => state[q] = RUNNING \/ asking[q]
  BY <1>1, StatesTyped DEF MergeInv, MTypeOK
<1>4. MergedIsPushed'
  BY <1>1, <1>3, MergedKept, Typed DEF MergeInv
<1>5. ASSUME NEW b \in Api, HoldsRow(b)
      PROVE  run[b].packet \in crossed' \/ state'[run[b].packet] = state[run[b].packet]
  <2>1. CASE run[b].packet = p
    BY <1>1, <1>5, <2>1, StatesTyped DEF MergeInv, HolderIsCurrent
  <2>2. CASE run[b].packet # p
    BY <1>1, <1>5, <2>2, BusyRun DEF MergeInv, MTypeOK, HoldsRow
  <2> QED BY <2>1, <2>2
<1> QED BY <1>1, <1>2, <1>3, <1>4, <1>5, OutsideKeeps DEF OnlyEnds, SameRow

(* Reservations, requests and time do not change what the merges rely on.   *)
LEMMA SurroundingsKeep ==
    ASSUME MergeInv, MTypeOK', OnlyEnds, SameRow,
           UNCHANGED <<tokens, target, pushed, attempt, state, crossed>>,
           \A q \in Packet : asking'[q] => asking[q]
    PROVE  MergeInv'
<1>1. MergedIsPushed'
  BY MergedKept, Typed DEF MergeInv
<1> QED BY <1>1, OutsideKeeps

LEMMA RequestsKeep ==
    ASSUME MergeInv, NEW p \in Packet, Lapse(p) \/ GiveUp(p) \/ Refuse(p)
    PROVE  MergeInv'
<1>1. /\ UNCHANGED <<state, attempt, base, target, pushed, tree, mlease, tokens, run, crossed>>
      /\ held' = held \/ held' = [held EXCEPT ![p] = FALSE]
      /\ asking' = asking \/ asking' = [asking EXCEPT ![p] = FALSE]
  BY DEF Lapse, GiveUp, Refuse, repovars
<1>2. MTypeOK' /\ \A q \in Packet : asking'[q] => asking[q]
  BY <1>1 DEF MergeInv, MTypeOK
<1> QED BY <1>1, <1>2, SurroundingsKeep DEF OnlyEnds, SameRow

LEMMA ClockKeeps ==
    ASSUME MergeInv, Tick \/ \E a \in Api : Beat(a)
    PROVE  MergeInv'
<1>1. /\ UNCHANGED <<packetvars, target, pushed, tree, tokens, run>>
      /\ mlease # NoLease
      /\ \/ mlease' = [mlease EXCEPT !.left = mlease.left - 1]
         \/ mlease' = [mlease EXCEPT !.left = MergeTTL]
  BY DEF Tick, Beat, Current, repovars
<1>2. mlease \in [packet : Packet, token : Nat, left : Int]
  BY <1>1 DEF MergeInv, MTypeOK
<1>3. MergeTTL \in Int /\ mlease.left - 1 \in Int
  BY <1>2, MergeAssumption
<1>4. /\ mlease' \in [packet : Packet, token : Nat, left : Int]
      /\ mlease'.packet = mlease.packet /\ mlease'.token = mlease.token
  <2>1. PICK n \in Int : mlease' = [mlease EXCEPT !.left = n]
    BY <1>1, <1>3
  <2> QED BY <1>2, <2>1
<1>5. MTypeOK'
  BY <1>1, <1>4 DEF MergeInv, MTypeOK, packetvars
<1>6. UNCHANGED <<tokens, target, pushed, attempt, state, crossed, asking, run>>
  BY <1>1 DEF packetvars
<1> QED BY <1>1, <1>4, <1>5, <1>6, SurroundingsKeep DEF OnlyEnds, SameRow

LEMMA RepairKeeps ==
    ASSUME MergeInv, Repair
    PROVE  MergeInv'
<1>1. UNCHANGED <<packetvars, target, pushed, mlease, tokens, run>> /\ tree' = "clean"
  BY DEF Repair
<1>2. MTypeOK'
  BY <1>1 DEF MergeInv, MTypeOK, packetvars
<1> QED BY <1>1, <1>2, SurroundingsKeep DEF OnlyEnds, SameRow, packetvars

LEMMA CrashKeeps ==
    ASSUME MergeInv, NEW a \in Api, Crash(a)
    PROVE  MergeInv'
<1>1. /\ UNCHANGED <<packetvars, target, pushed, mlease, tokens>>
      /\ run' = [run EXCEPT ![a] = Idle] /\ tree' \in {"clean", "merging"}
  BY DEF Crash, MergeInv, MTypeOK
<1>2. MTypeOK'
  BY <1>1 DEF MergeInv, MTypeOK, packetvars
<1>3. OnlyEnds
  BY <1>1 DEF OnlyEnds, MergeInv, MTypeOK
<1> QED BY <1>1, <1>2, <1>3, SurroundingsKeep DEF SameRow, packetvars

LEMMA CleanupKeeps ==
    ASSUME MergeInv, NEW gone \in SUBSET Packet, Cleanup(gone)
    PROVE  MergeInv'
<1>1. /\ \A p \in gone : state[p] = RUNNING
      /\ state' = [p \in Packet |-> CASE p \in gone -> FAILED
                                      [] p \in Abandoned -> BLOCKED_RECOVERABLE
                                      [] OTHER -> state[p]]
      /\ held' = [p \in Packet |-> held[p] /\ p \notin gone]
      /\ mlease' = NoLease \/ mlease' = mlease
      /\ UNCHANGED <<attempt, base, asking, target, pushed, tree, tokens, run, crossed>>
  BY DEF Cleanup, repovars
<1>2. \A p \in Packet : \/ p \in gone /\ state'[p] = FAILED
                        \/ p \notin gone /\ p \in Abandoned /\ state'[p] = BLOCKED_RECOVERABLE
                        \/ p \notin gone /\ p \notin Abandoned /\ state'[p] = state[p]
  <2>1. \A p \in gone : p \notin Abandoned
    BY <1>1, StatesTyped DEF Abandoned, Accepted
  <2> QED BY <1>1, <2>1
<1>3. MTypeOK'
  <2>1. state' \in [Packet -> PacketState]
    <3>1. \A p \in Packet : state'[p] \in PacketState
      BY <1>2, StatesTyped DEF MergeInv, MTypeOK
    <3> QED BY <1>1, <3>1
  <2>2. held' \in [Packet -> BOOLEAN]
    BY <1>1 DEF MergeInv, MTypeOK
  <2> QED BY <1>1, <2>1, <2>2 DEF MergeInv, MTypeOK
<1>4. /\ \A q \in Packet : state'[q] = MERGED => state[q] = MERGED
      /\ \A q \in Packet : state'[q] = RUNNING => state[q] = RUNNING
  BY <1>2, StatesTyped
<1>5. MergedIsPushed'
  BY <1>1, <1>4, MergedKept, Typed DEF MergeInv
<1>6. ASSUME NEW b \in Api, HoldsRow(b)
      PROVE  run[b].packet \in crossed' \/ state'[run[b].packet] = state[run[b].packet]
  <2>1. run[b].packet \in Packet /\ mlease # NoLease /\ mlease.packet = run[b].packet
    BY <1>6, BusyRun DEF MergeInv, RunsInv, RowIsOfItsRun, HoldsRow
  <2>2. run[b].packet \notin Abandoned
    BY <2>1 DEF Abandoned
  <2>3. run[b].packet \in crossed \/ state[run[b].packet] = ACCEPTED
    BY <1>6 DEF MergeInv, HolderIsCurrent
  <2> QED BY <1>1, <1>2, <2>1, <2>2, <2>3, StatesTyped
<1> QED BY <1>1, <1>3, <1>4, <1>5, <1>6, OutsideKeeps DEF OnlyEnds, SameRow

-----------------------------------------------------------------------------
(* A new execution of p: no merge of p has the row's token any more, except *)
(* where p was crossed.                                                     *)
LEMMA StartKeeps ==
    ASSUME MergeInv, NEW p \in Packet, Start(p)
    PROVE  MergeInv'
<1>1. /\ state[p] \in {READY, BLOCKED_RECOVERABLE}
      /\ state' = [state EXCEPT ![p] = RUNNING]
      /\ attempt' = [attempt EXCEPT ![p] = @ + 1]
      /\ base' = [base EXCEPT ![p] = TargetHead]
      /\ held' = [held EXCEPT ![p] = TRUE] /\ asking' = [asking EXCEPT ![p] = FALSE]
      /\ UNCHANGED <<target, pushed, tree, mlease, tokens, run, crossed>>
  BY DEF Start, repovars
<1>2. MTypeOK'
  <2>1. TargetHead \in Nat /\ attempt[p] + 1 \in Nat
    BY Typed DEF MergeInv, MTypeOK, TargetHead
  <2>2. attempt' \in [Packet -> Nat] /\ base' \in [Packet -> Nat]
    BY <1>1, <2>1 DEF MergeInv, MTypeOK
  <2>3. state' \in [Packet -> PacketState] /\ held' \in [Packet -> BOOLEAN]
        /\ asking' \in [Packet -> BOOLEAN]
    BY <1>1, StatesTyped DEF MergeInv, MTypeOK
  <2> QED BY <1>1, <2>2, <2>3 DEF MergeInv, MTypeOK
<1>3. OnlyEnds /\ SameRow
  BY <1>1 DEF OnlyEnds, SameRow
<1>4. RunsInv'
  BY <1>1, <1>3, RunsKept DEF MergeInv
<1>5. /\ \A q \in Packet : q # p => /\ state'[q] = state[q] /\ attempt'[q] = attempt[q]
                                    /\ asking'[q] = asking[q]
      /\ state'[p] = RUNNING /\ attempt'[p] = attempt[p] + 1
  BY <1>1 DEF MergeInv, MTypeOK
<1>6. AttemptsNumbered'
  <2> SUFFICES ASSUME NEW a \in Api, Busy(a)
               PROVE  /\ run[a].attempt <= attempt'[run[a].packet]
                      /\ state'[run[a].packet] = RUNNING \/ asking'[run[a].packet]
                            => run[a].attempt < attempt'[run[a].packet]
    BY <1>1 DEF AttemptsNumbered, Busy
  <2>1. run[a].packet \in Packet /\ run[a].attempt \in Nat
        /\ attempt[run[a].packet] \in Nat /\ run[a].attempt <= attempt[run[a].packet]
    BY BusyRun DEF MergeInv, AttemptsNumbered, MTypeOK
  <2>2. CASE run[a].packet = p
    <3>1. attempt'[run[a].packet] = attempt[run[a].packet] + 1
      BY <1>5, <2>2
    <3> QED BY <2>1, <3>1
  <2>3. CASE run[a].packet # p
    BY <1>5, <2>1, <2>3 DEF MergeInv, AttemptsNumbered
  <2> QED BY <2>2, <2>3
<1>7. HolderIsCurrent'
  <2> SUFFICES ASSUME NEW a \in Api, HoldsRow(a)
               PROVE  \/ run[a].packet \in crossed
                      \/ /\ state'[run[a].packet] = ACCEPTED
                         /\ attempt'[run[a].packet] = run[a].attempt
    BY <1>1 DEF HolderIsCurrent, HoldsRow, Busy
  <2>1. run[a].packet \in Packet
    BY BusyRun DEF MergeInv, HoldsRow
  <2>2. \/ run[a].packet \in crossed
        \/ /\ state[run[a].packet] = ACCEPTED
           /\ attempt[run[a].packet] = run[a].attempt
    BY DEF MergeInv, HolderIsCurrent
  <2> QED BY <1>1, <1>5, <2>1, <2>2, StatesTyped
<1>8. VerifiedWhereMerged'
  BY <1>1 DEF MergeInv, VerifiedWhereMerged, TargetHead
<1>9. MergedIsPushed'
  <2> SUFFICES ASSUME NEW q \in Packet, state'[q] = MERGED
               PROVE  (\/ Holds(pushed, q)
                       \/ q \in crossed /\ \E i \in 1 .. pushed : target[i].packet = q)'
    BY DEF MergedIsPushed
  <2>1. q # p /\ state[q] = MERGED
    BY <1>5, StatesTyped
  <2> QED BY <1>1, <1>5, <2>1 DEF MergeInv, MergedIsPushed, Holds
<1> QED BY <1>2, <1>4, <1>6, <1>7, <1>8, <1>9 DEF MergeInv

(* A new merge: its token is nobody's, and nobody has its attempt.          *)
LEMMA AdmitKeeps ==
    ASSUME MergeInv, NEW p \in Packet, NEW a \in Api, Admit(a, p)
    PROVE  MergeInv'
<1>1. PICK k : k = [packet |-> p, attempt |-> attempt[p], token |-> tokens + 1,
                    step |-> "prepare", on |-> base[p], rechecked |-> FALSE]
  OBVIOUS
<1>2. PICK row : row = [packet |-> p, token |-> tokens + 1, left |-> MergeTTL]
  OBVIOUS
<1>3. tokens \in Nat /\ tokens' = tokens + 1 /\ tokens' \in Nat
  BY Typed DEF Admit, MergeInv
<1>4. /\ k \in Run /\ k # Idle /\ k.packet = p /\ k.attempt = attempt[p]
      /\ k.token = tokens + 1 /\ k.step = "prepare"
  BY <1>1, <1>3 DEF Run, Step, Idle, MergeInv, MTypeOK
<1>5. /\ row \in [packet : Packet, token : Nat, left : Int]
      /\ row.packet = p /\ row.token = tokens + 1
  BY <1>2, <1>3, MergeAssumption
<1>6. /\ run[a] = Idle /\ asking[p] /\ state[p] = ACCEPTED
      /\ mlease' = row /\ run' = [run EXCEPT ![a] = k]
      /\ asking' = [asking EXCEPT ![p] = FALSE]
      /\ UNCHANGED <<state, attempt, base, held, target, pushed, tree, crossed>>
  BY <1>1, <1>2 DEF Admit, CanMergeNow, Accepted, repovars
<1>7. /\ run'[a] = k
      /\ \A b \in Api : b # a => run'[b] = run[b]
  BY <1>6 DEF MergeInv, MTypeOK
<1>8. \A b \in Api : Busy(b)' <=> b = a \/ Busy(b)
  BY <1>4, <1>7 DEF Busy
<1>9. \A b \in Api : Busy(b) => /\ b # a /\ run'[b] = run[b]
                                /\ run[b].token \in Nat /\ run[b].token <= tokens
  BY <1>6, <1>7, BusyRun DEF Busy, MergeInv, RunsInv, TokensNumbered
<1>10. \A b \in Api : HoldsRow(b)' => b = a
  <2> SUFFICES ASSUME NEW b \in Api, HoldsRow(b)', b # a PROVE FALSE
    OBVIOUS
  <2>1. Busy(b) /\ row.token = run[b].token
    BY <1>6, <1>7, <1>8 DEF HoldsRow
  <2>2. run[b].token <= tokens /\ run[b].token = tokens + 1 /\ run[b].token \in Nat
    BY <1>5, <1>9, <2>1
  <2> QED BY <1>3, <2>2
<1>11. MTypeOK'
  <2>1. run' \in [Api -> Run \cup {Idle}] /\ asking' \in [Packet -> BOOLEAN]
    BY <1>4, <1>6 DEF MergeInv, MTypeOK
  <2> QED BY <1>3, <1>5, <1>6, <2>1 DEF MergeInv, MTypeOK
<1>12. TokensNumbered'
  <2>1. mlease'.token <= tokens'
    BY <1>3, <1>5, <1>6
  <2>2. \A b \in Api : Busy(b)' => run'[b].token <= tokens'
    <3> SUFFICES ASSUME NEW b \in Api, Busy(b)' PROVE run'[b].token <= tokens'
      OBVIOUS
    <3>1. CASE b = a
      BY <1>3, <1>4, <1>7, <3>1
    <3>2. CASE b # a
      <4>1. run'[b] = run[b] /\ run[b].token \in Nat /\ run[b].token <= tokens
        BY <1>8, <1>9, <3>2
      <4> QED BY <1>3, <4>1
    <3> QED BY <3>1, <3>2
  <2>3. \A b \in Api : Busy(b) => run[b].token # k.token
    <3> SUFFICES ASSUME NEW b \in Api, Busy(b), run[b].token = tokens + 1 PROVE FALSE
      BY <1>4
    <3>1. run[b].token <= tokens
      BY <1>9
    <3> QED BY <1>3, <3>1
  <2>4. \A b, c \in Api : Busy(b)' /\ Busy(c)' /\ run'[b].token = run'[c].token => b = c
    BY <1>7, <1>8, <1>9, <2>3 DEF MergeInv, RunsInv, TokensNumbered
  <2> QED BY <2>1, <2>2, <2>4 DEF TokensNumbered
<1>13. RowIsOfItsRun'
  BY <1>4, <1>5, <1>6, <1>7, <1>10 DEF RowIsOfItsRun
<1>14. \A b \in Api : Busy(b) /\ run[b].packet = p => run[b].attempt # attempt[p]
  <2> SUFFICES ASSUME NEW b \in Api, Busy(b), run[b].packet = p PROVE run[b].attempt # attempt[p]
    OBVIOUS
  <2>1. run[b].attempt < attempt[p]
    BY <1>6 DEF MergeInv, AttemptsNumbered
  <2>2. run[b].attempt \in Nat /\ attempt[p] \in Nat
    BY BusyRun DEF MergeInv, MTypeOK
  <2> QED BY <2>1, <2>2
<1>15. OneRunPerAttempt'
  BY <1>4, <1>7, <1>8, <1>9, <1>14 DEF MergeInv, RunsInv, OneRunPerAttempt
<1>16. HolderIsVerified'
  BY <1>4, <1>7, <1>10 DEF HolderIsVerified
<1>17. StepsDone'
  <2> SUFFICES ASSUME NEW b \in Api, Busy(b)'
               PROVE  /\ run'[b].step = "push"
                            => Result(TargetHead, run[b].packet, run[b].attempt)'
                      /\ run'[b].step = "finish"
                            => Result(pushed, run[b].packet, run[b].attempt)'
    BY DEF StepsDone
  <2>1. CASE b = a
    BY <1>4, <1>7, <2>1
  <2>2. CASE b # a
    BY <1>6, <1>7, <1>8, <2>2 DEF MergeInv, RunsInv, StepsDone, Result, TargetHead
  <2> QED BY <2>1, <2>2
<1>18. AttemptsNumbered'
  <2> SUFFICES ASSUME NEW b \in Api, Busy(b)'
               PROVE  /\ run'[b].attempt <= attempt[run'[b].packet]
                      /\ state[run'[b].packet] = RUNNING \/ asking'[run'[b].packet]
                            => run'[b].attempt < attempt[run'[b].packet]
    BY <1>6 DEF AttemptsNumbered
  <2>1. CASE b = a
    <3>1. state[p] # RUNNING /\ ~asking'[p] /\ attempt[p] \in Nat
      BY <1>6, StatesTyped DEF MergeInv, MTypeOK
    <3> QED BY <1>4, <1>7, <2>1, <3>1
  <2>2. CASE b # a
    <3>1. Busy(b) /\ run'[b] = run[b] /\ run[b].packet \in Packet
      BY <1>7, <1>8, <2>2, BusyRun DEF MergeInv
    <3>2. asking'[run[b].packet] => asking[run[b].packet]
      BY <1>6, <3>1 DEF MergeInv, MTypeOK
    <3> QED BY <3>1, <3>2 DEF MergeInv, AttemptsNumbered
  <2> QED BY <2>1, <2>2
<1>19. HolderIsCurrent'
  BY <1>4, <1>6, <1>7, <1>10 DEF HolderIsCurrent
<1>20. VerifiedWhereMerged' /\ MergedIsPushed'
  <2>1. VerifiedWhereMerged'
    BY <1>6 DEF MergeInv, VerifiedWhereMerged, TargetHead
  <2>2. MergedIsPushed'
    BY <1>6, MergedKept, Typed DEF MergeInv
  <2> QED BY <2>1, <2>2
<1> QED BY <1>11, <1>12, <1>13, <1>15, <1>16, <1>17, <1>18, <1>19, <1>20 DEF MergeInv, RunsInv

-----------------------------------------------------------------------------
LEMMA MInitEstablishes ==
    ASSUME MInit PROVE MergeInv
<1>1. \A a \in Api : ~Busy(a)
  BY DEF MInit, Busy
<1>2. MTypeOK
  BY DEF MInit, MTypeOK, PacketState, READY
<1>3. TokensNumbered
  BY <1>1 DEF MInit, TokensNumbered
<1>4. RunsInv /\ AttemptsNumbered /\ HolderIsCurrent
  BY <1>1, <1>3 DEF RunsInv, RowIsOfItsRun, OneRunPerAttempt, HolderIsVerified, StepsDone,
                    AttemptsNumbered, HolderIsCurrent, HoldsRow
<1>5. VerifiedWhereMerged /\ MergedIsPushed
  BY StatesTyped DEF MInit, VerifiedWhereMerged, MergedIsPushed, TargetHead
<1> QED BY <1>2, <1>4, <1>5 DEF MergeInv

LEMMA MNextKeeps ==
    ASSUME MergeInv, [MNext]_mvars PROVE MergeInv'
<1>1. ASSUME NEW p \in Packet,
             Start(p) \/ Accept(p) \/ Lapse(p) \/ GiveUp(p) \/ Refuse(p)
             \/ \E a \in Api : Admit(a, p)
      PROVE  MergeInv'
  BY <1>1, StartKeeps, AcceptKeeps, RequestsKeep, AdmitKeeps
<1>2. ASSUME NEW a \in Api, MergeStep(a)
      PROVE  MergeInv'
  BY <1>2, PrepareKeeps, CheckoutKeeps, MergeBranchKeeps, ConflictKeeps, PushKeeps,
     FinishKeeps DEF MergeStep
<1>3. ASSUME NEW a \in Api, Beat(a) \/ Crash(a)
      PROVE  MergeInv'
  BY <1>3, ClockKeeps, CrashKeeps
<1>4. ASSUME NEW gone \in SUBSET Packet, Cleanup(gone)
      PROVE  MergeInv'
  BY <1>4, CleanupKeeps
<1>5. CASE Repair \/ Tick
  BY <1>5, RepairKeeps, ClockKeeps
<1>6. CASE UNCHANGED mvars
  <2>1. UNCHANGED <<packetvars, target, pushed, tree, mlease, tokens, run>>
    BY <1>6 DEF mvars, repovars
  <2>2. MTypeOK'
    BY <2>1 DEF MergeInv, MTypeOK, packetvars
  <2> QED BY <2>1, <2>2, SurroundingsKeep DEF OnlyEnds, SameRow, packetvars
<1> QED BY <1>1, <1>2, <1>3, <1>4, <1>5, <1>6 DEF MNext

(* The merge lease, the merges under way and the target fit together,       *)
(* however many processes stall, die and take over.                         *)
THEOREM MergeInvariant == MSpec => []MergeInv
  BY MInitEstablishes, MNextKeeps, PTL DEF MSpec

THEOREM MergesTyped == MSpec => []MTypeOK
  BY MergeInvariant, PTL DEF MergeInv

(* Every commit of the target was verified on the very head it was merged   *)
(* onto, for any number of API processes and merges.                        *)
THEOREM MergedOnVerifiedHead == MSpec => []VerifiedWhereMerged
  BY MergeInvariant, PTL DEF MergeInv

(* What is MERGED is on the remote: the result of the latest attempt, or,   *)
(* where a merge of an earlier attempt blocked the packet meanwhile, the    *)
(* one whose merge was about to finish.                                     *)
THEOREM MergedArePushed == MSpec => []MergedIsPushed
  BY MergeInvariant, PTL DEF MergeInv

-----------------------------------------------------------------------------
Taken == mlease # NoLease /\ mlease.left > 0
         /\ (mlease' = NoLease \/ mlease'.token # mlease.token)

Gives(a) == run[a] # Idle /\ run[a].token = mlease.token /\ run'[a] = Idle

LEMMA EndRunGives ==
    ASSUME MTypeOK, NEW a \in Api, Busy(a), EndRun(a), Taken
    PROVE  Gives(a)
<1>1. mlease' # mlease
  BY DEF Taken
<1>2. Current(a)
  BY <1>1 DEF EndRun
<1> QED BY <1>2, EndRunEffect DEF Current, Gives, Busy

LEMMA StepGives ==
    ASSUME MTypeOK, [MNext]_mvars, Taken
    PROVE  \E a \in Api : Gives(a)
<1>1. mlease' # mlease
  BY DEF Taken
<1>2. ASSUME NEW p \in Packet,
             Start(p) \/ Accept(p) \/ Lapse(p) \/ GiveUp(p) \/ Refuse(p)
      PROVE  FALSE
  BY <1>1, <1>2 DEF Start, Accept, Lapse, GiveUp, Refuse
<1>3. ASSUME NEW p \in Packet, NEW a \in Api, Admit(a, p)
      PROVE  FALSE
  <2>1. mlease.left \in Int /\ mlease.left > 0
    BY DEF Taken, MTypeOK
  <2>2. mlease.left <= 0
    BY <1>3 DEF Admit, Vacant, Taken
  <2> QED BY <2>1, <2>2
<1>4. ASSUME NEW a \in Api, MergeStep(a)
      PROVE  Gives(a)
  <2>1. Busy(a)
    BY <1>4, IdleOrBusy DEF MergeStep, Prepare, Checkout, MergeBranch, Conflict, Push, Finish
  <2>2. EndRun(a)
    BY <1>1, <1>4 DEF MergeStep, Prepare, Checkout, MergeBranch, Conflict, Push, Finish,
                      Fail, BlockRun, GoOn
  <2> QED BY <2>1, <2>2, EndRunGives
<1>5. ASSUME Tick \/ \E a \in Api : Beat(a)
      PROVE  FALSE
  <2>1. mlease \in [packet : Packet, token : Nat, left : Int]
    BY DEF Taken, MTypeOK
  <2>2. MergeTTL \in Int /\ mlease.left - 1 \in Int
    BY <2>1, MergeAssumption
  <2>3. PICK n \in Int : mlease' = [mlease EXCEPT !.left = n]
    BY <1>5, <2>2 DEF Tick, Beat
  <2>4. /\ mlease' \in [packet : Packet, token : Nat, left : Int]
        /\ mlease'.token = mlease.token
    BY <2>1, <2>3
  <2> QED BY <2>4, MergeAssumption DEF Taken
<1>6. ASSUME NEW a \in Api, Crash(a)
      PROVE  FALSE
  BY <1>1, <1>6 DEF Crash
<1>7. ASSUME NEW gone \in SUBSET Packet, Cleanup(gone)
      PROVE  FALSE
  <2>1. Forgotten
    BY <1>1, <1>7 DEF Cleanup
  <2>2. mlease.left \in Int /\ mlease.left > 0 /\ mlease.left < -CleanupAge
    BY <2>1 DEF Forgotten, Taken, MTypeOK
  <2> QED BY <2>2, MergeAssumption
<1>8. CASE Repair
  BY <1>1, <1>8 DEF Repair
<1>9. CASE UNCHANGED mvars
  BY <1>1, <1>9 DEF mvars
<1> QED BY <1>2, <1>3, <1>4, <1>5, <1>6, <1>7, <1>8, <1>9 DEF MNext

(* A live merge lease goes away only with the end of the run it belongs to. *)
THEOREM LiveLeasesKept == MSpec => LiveLeaseKept
<1>1. MTypeOK /\ [MNext]_mvars =>
        [mlease # NoLease /\ mlease.left > 0
         /\ (mlease' = NoLease \/ mlease'.token # mlease.token)
         => \E a \in Api : /\ run[a] # Idle /\ run[a].token = mlease.token
                           /\ run'[a] = Idle]_mvars
  BY StepGives DEF Taken, Gives
<1> QED BY <1>1, MergesTyped, PTL DEF LiveLeaseKept, MSpec

-----------------------------------------------------------------------------
(***************************************************************************)
(* The refinement of VerifiedMerges: the commits on the target, how many of *)
(* them are pushed and the packets in MERGED are the trunk, the remote and  *)
(* the packets that are done.  Beyond MergeInv it needs to know that a      *)
(* merge that has not pushed yet has nothing on the target, that an         *)
(* execution which still runs or still asks for its merge has not either,   *)
(* and that all of the target is pushed when the row's merge finishes.      *)
(***************************************************************************)

(* Executions are no more than the packet's budget of them.                 *)
AttemptsBounded == \A p \in Packet : attempt[p] <= MaxAttempts[p]

\* What is on the target is of attempts that were made, and an execution that
\* runs or whose merge is still asked for has nothing there.
LandedNumbered ==
    \A i \in 1 .. Len(target) :
        /\ target[i].attempt <= attempt[target[i].packet]
        /\ state[target[i].packet] = RUNNING \/ asking[target[i].packet]
              => target[i].attempt < attempt[target[i].packet]

(* The steps of a merge up to its own.                                      *)
BeforePush == {"prepare", "checkout", "merge", "conflict"}

(* A merge before its git merge has nothing on the target.                  *)
NotYetLanded ==
    \A a \in Api : Busy(a) /\ run[a].step \in BeforePush
        => ~Result(Len(target), run[a].packet, run[a].attempt)

\* Nothing lands behind the back of the row's merge.
HolderHasPushed ==
    \A a \in Api : HoldsRow(a) /\ run[a].step = "finish" => pushed = Len(target)

(* A merged packet is off the reservations: no merge may mutate for it.     *)
MergedIsClosed == \A p \in Packet : state[p] = MERGED => ~held[p]

(* The strengthening the refinement rests on.                               *)
LandedInv == /\ AttemptsBounded /\ LandedNumbered /\ NotYetLanded
             /\ HolderHasPushed /\ MergedIsClosed

(* Every commit on the target is a packet's numbered attempt.               *)
LEMMA LandedCommit ==
    ASSUME MTypeOK, NEW i \in 1 .. Len(target)
    PROVE  /\ target[i] \in Commit /\ target[i].packet \in Packet
           /\ target[i].attempt \in Nat
<1>1. target[i] \in Commit
  BY Typed
<1> QED BY <1>1 DEF Commit

(* A step that leaves the target alone and starts nothing.                  *)
StaysMerged == \A q \in Packet : state'[q] = MERGED <=> state[q] = MERGED

Aside ==
    /\ OnlyEnds /\ SameRow /\ UNCHANGED <<target, pushed, attempt>>
    /\ \A q \in Packet :
          /\ state'[q] = RUNNING \/ asking'[q] => state[q] = RUNNING \/ asking[q]
          /\ held'[q] => held[q]
          /\ state'[q] = MERGED => state[q] = MERGED \/ ~held'[q]

(* Such a step keeps the strengthening.                                     *)
LEMMA AsideLanded ==
    ASSUME MTypeOK, LandedInv, Aside
    PROVE  LandedInv'
<1>1. AttemptsBounded' /\ MergedIsClosed'
  BY DEF Aside, LandedInv, AttemptsBounded, MergedIsClosed
<1>2. LandedNumbered'
  <2> SUFFICES ASSUME NEW i \in 1 .. Len(target)
               PROVE  /\ target[i].attempt <= attempt[target[i].packet]
                      /\ state'[target[i].packet] = RUNNING \/ asking'[target[i].packet]
                            => target[i].attempt < attempt[target[i].packet]
    BY DEF Aside, LandedNumbered
  <2> QED BY LandedCommit DEF Aside, LandedInv, LandedNumbered
<1>3. NotYetLanded'
  BY StillBusy DEF Aside, LandedInv, NotYetLanded, Result
<1>4. HolderHasPushed'
  BY StillBusy DEF Aside, LandedInv, HolderHasPushed
<1> QED BY <1>1, <1>2, <1>3, <1>4 DEF LandedInv

\* Nothing happened to the abstract merges.
LEMMA StaysMergedSame ==
    ASSUME StaysMerged, UNCHANGED <<target, pushed>>
    PROVE  UNCHANGED Merges!lvars
BY DEF StaysMerged, Merges!lvars

\* The steps of MNext that are aside and conclude nothing.
LEMMA EndAside ==
    ASSUME MTypeOK, NEW a \in Api, EndRun(a), UNCHANGED <<target, pushed>>,
           \A q \in Packet : /\ state'[q] = RUNNING => state[q] = RUNNING
                             /\ held'[q] => held[q]
                             /\ state'[q] = MERGED => state[q] = MERGED \/ ~held'[q]
    PROVE  Aside
BY EndRunEffect DEF Aside

(* A merge that fails is aside.                                             *)
LEMMA FailAside ==
    ASSUME MTypeOK, NEW a \in Api, Fail(a), UNCHANGED <<target, pushed>>
    PROVE  Aside /\ StaysMerged
BY EndAside DEF Fail, StaysMerged

(* So is one that blocks its packet: a merged packet is never blocked.      *)
LEMMA BlockAside ==
    ASSUME MTypeOK, NEW a \in Api, Busy(a), BlockRun(a), UNCHANGED <<target, pushed>>
    PROVE  Aside /\ StaysMerged
<1>1. EndRun(a) /\ run[a].packet \in Packet
  BY BusyRun DEF BlockRun
<1>2. CASE UNCHANGED <<state, held, crossed>>
  BY <1>1, <1>2, EndAside DEF StaysMerged
<1>3. CASE ~UNCHANGED <<state, held, crossed>>
  <2> DEFINE p == run[a].packet
  <2>1. /\ state' = [state EXCEPT ![p] = BLOCKED_RECOVERABLE]
        /\ held' = [held EXCEPT ![p] = FALSE]
        /\ CanTransition(state[p], BLOCKED_RECOVERABLE)
    BY <1>3 DEF BlockRun
  <2>2. state[p] # MERGED /\ BLOCKED_RECOVERABLE # MERGED /\ BLOCKED_RECOVERABLE # RUNNING
    BY <2>1 DEF CanTransition, ValidTransitions, DRAFT, READY, RUNNING, ACCEPTED,
       REJECTED, BLOCKED_RECOVERABLE, BLOCKED_FINAL, MERGED, FAILED
  <2>3. /\ StaysMerged
        /\ \A q \in Packet : /\ state'[q] = RUNNING => state[q] = RUNNING
                             /\ held'[q] => held[q]
    BY <1>1, <2>1, <2>2 DEF StaysMerged, MTypeOK
  <2> QED BY <1>1, <2>3, EndAside DEF StaysMerged
<1> QED BY <1>2, <1>3

(* So are the packet's own events, the lease's clock and a crash.           *)
LEMMA SurroundingsAside ==
    ASSUME MTypeOK,
           \/ \E p \in Packet : Accept(p) \/ Lapse(p) \/ GiveUp(p) \/ Refuse(p)
           \/ \E a \in Api : Beat(a) \/ Crash(a)
           \/ Repair \/ Tick
    PROVE  Aside /\ StaysMerged
<1>1. ASSUME NEW p \in Packet, Accept(p) PROVE Aside /\ StaysMerged
  <2>1. /\ state[p] = RUNNING
        /\ state' = [state EXCEPT ![p] = ACCEPTED]
        /\ asking' = [asking EXCEPT ![p] = TRUE]
        /\ UNCHANGED <<attempt, base, held, target, pushed, tree, mlease, tokens, run, crossed>>
    BY <1>1 DEF Accept, repovars
  <2>2. StaysMerged
    BY <2>1, StatesTyped DEF StaysMerged, MTypeOK
  <2>3. \A q \in Packet : state'[q] = RUNNING \/ asking'[q] => state[q] = RUNNING \/ asking[q]
    BY <2>1, StatesTyped DEF MTypeOK
  <2> QED BY <2>1, <2>2, <2>3 DEF Aside, StaysMerged, OnlyEnds, SameRow
<1>2. ASSUME NEW p \in Packet, Lapse(p) \/ GiveUp(p) \/ Refuse(p)
      PROVE  Aside /\ StaysMerged
  <2>1. /\ UNCHANGED <<state, attempt, target, pushed, mlease, run>>
        /\ held' = held \/ held' = [held EXCEPT ![p] = FALSE]
        /\ asking' = asking \/ asking' = [asking EXCEPT ![p] = FALSE]
    BY <1>2 DEF Lapse, GiveUp, Refuse, repovars
  <2>2. \A q \in Packet : (asking'[q] => asking[q]) /\ (held'[q] => held[q])
    BY <2>1 DEF MTypeOK
  <2> QED BY <2>1, <2>2 DEF Aside, StaysMerged, OnlyEnds, SameRow
<1>3. CASE Tick \/ \E a \in Api : Beat(a)
  <2>1. /\ UNCHANGED <<packetvars, target, pushed, run>>
        /\ mlease # NoLease
        /\ \/ mlease' = [mlease EXCEPT !.left = mlease.left - 1]
           \/ mlease' = [mlease EXCEPT !.left = MergeTTL]
    BY <1>3 DEF Tick, Beat, Current, repovars
  <2>2. mlease \in [packet : Packet, token : Nat, left : Int]
    BY <2>1 DEF MTypeOK
  <2>3. mlease'.packet = mlease.packet /\ mlease'.token = mlease.token
    <3>1. PICK n : mlease' = [mlease EXCEPT !.left = n]
      BY <2>1
    <3> QED BY <2>2, <3>1
  <2> QED BY <2>1, <2>3 DEF Aside, StaysMerged, OnlyEnds, SameRow, packetvars
<1>4. ASSUME NEW a \in Api, Crash(a) PROVE Aside /\ StaysMerged
  <2>1. /\ UNCHANGED <<packetvars, target, pushed, mlease>>
        /\ run' = [run EXCEPT ![a] = Idle]
    BY <1>4 DEF Crash
  <2>2. OnlyEnds
    BY <2>1 DEF OnlyEnds, MTypeOK
  <2> QED BY <2>1, <2>2 DEF Aside, StaysMerged, SameRow, packetvars
<1>5. CASE Repair
  BY <1>5 DEF Repair, Aside, StaysMerged, OnlyEnds, SameRow, packetvars
<1> QED BY <1>1, <1>2, <1>3, <1>4, <1>5

(* So is the supervisor's cleanup.                                          *)
LEMMA CleanupAside ==
    ASSUME MTypeOK, NEW gone \in SUBSET Packet, Cleanup(gone)
    PROVE  Aside /\ StaysMerged
<1>1. /\ \A p \in gone : state[p] = RUNNING
      /\ state' = [p \in Packet |-> CASE p \in gone -> FAILED
                                      [] p \in Abandoned -> BLOCKED_RECOVERABLE
                                      [] OTHER -> state[p]]
      /\ held' = [p \in Packet |-> held[p] /\ p \notin gone]
      /\ mlease' = NoLease \/ mlease' = mlease
      /\ UNCHANGED <<attempt, asking, target, pushed, run>>
  BY DEF Cleanup, repovars
<1>2. \A p \in Abandoned : state[p] = ACCEPTED
  BY DEF Abandoned, Accepted
<1>3. \A p \in Packet : \/ state[p] = RUNNING /\ state'[p] = FAILED
                        \/ state[p] = ACCEPTED /\ state'[p] = BLOCKED_RECOVERABLE
                        \/ state'[p] = state[p]
  BY <1>1, <1>2
<1>4. StaysMerged /\ \A q \in Packet : state'[q] = RUNNING => state[q] = RUNNING
  BY <1>3, StatesTyped DEF StaysMerged
<1>5. \A q \in Packet : held'[q] => held[q]
  BY <1>1 DEF MTypeOK
<1> QED BY <1>1, <1>4, <1>5 DEF Aside, StaysMerged, OnlyEnds, SameRow

(* A merge takes a step and lands nothing.                                  *)
LEMMA MoveLanded ==
    ASSUME MTypeOK, LandedInv, NEW a \in Api, Busy(a),
           NEW k \in Run, k.packet = run[a].packet, k.attempt = run[a].attempt,
           k.token = run[a].token, run' = [run EXCEPT ![a] = k],
           UNCHANGED <<packetvars, target, mlease>>,
           pushed' \in {pushed, Len(target)},
           k.step \in BeforePush => run[a].step \in BeforePush,
           k.step = "finish" => pushed' = Len(target)
    PROVE  LandedInv'
<1>1. /\ run'[a] = k /\ k # Idle
      /\ \A b \in Api : b # a => run'[b] = run[b]
  BY DEF MTypeOK, Run, Idle, Step
<1>2. /\ \A b \in Api : Busy(b)' <=> Busy(b)
      /\ \A b \in Api : HoldsRow(b)' <=> HoldsRow(b)
  BY <1>1 DEF Busy, HoldsRow
<1>3. AttemptsBounded' /\ MergedIsClosed' /\ LandedNumbered'
  BY DEF LandedInv, AttemptsBounded, MergedIsClosed, LandedNumbered, packetvars
<1>4. NotYetLanded'
  <2> SUFFICES ASSUME NEW b \in Api, Busy(b), run'[b].step \in BeforePush
               PROVE  ~Result(Len(target), run'[b].packet, run'[b].attempt)
    BY <1>2 DEF NotYetLanded, Result
  <2> QED BY <1>1 DEF LandedInv, NotYetLanded
<1>5. HolderHasPushed'
  <2> SUFFICES ASSUME NEW b \in Api, HoldsRow(b), run'[b].step = "finish"
               PROVE  pushed' = Len(target)
    BY <1>2 DEF HolderHasPushed
  <2> QED BY <1>1 DEF LandedInv, HolderHasPushed
<1> QED BY <1>3, <1>4, <1>5 DEF LandedInv

\* The next step of a run as a value.
LEMMA NextRun ==
    ASSUME MTypeOK, NEW a \in Api, Busy(a), NEW s \in Step, GoOn(a, s)
    PROVE  /\ UNCHANGED <<packetvars, mlease>>
           /\ \E k \in Run : /\ run' = [run EXCEPT ![a] = k] /\ k.step = s
                             /\ k.packet = run[a].packet /\ k.token = run[a].token
                             /\ k.attempt = run[a].attempt
<1>1. PICK k : k = [run[a] EXCEPT !.step = s]
  OBVIOUS
<1>2. /\ k \in Run /\ k.step = s /\ k.packet = run[a].packet
      /\ k.attempt = run[a].attempt /\ k.token = run[a].token
  BY <1>1, BusyRun DEF Run
<1>3. run' = [run EXCEPT ![a] = k] /\ UNCHANGED <<packetvars, mlease>>
  BY <1>1 DEF GoOn
<1> QED BY <1>2, <1>3

\* What the steps of a merge do to the abstract merges.
Held == LandedInv' /\ UNCHANGED Merges!lvars

(* A step aside that concludes nothing is a stutter of the abstract merges. *)
LEMMA AsideHeld ==
    ASSUME MTypeOK, LandedInv, Aside, StaysMerged
    PROVE  Held
BY AsideLanded, StaysMergedSame DEF Held, Aside

(* A move between steps that lands and pushes nothing is a stutter.         *)
LEMMA MoveStays ==
    ASSUME UNCHANGED <<packetvars, target, pushed>>
    PROVE  UNCHANGED Merges!lvars
BY DEF packetvars, Merges!lvars

(* Preparing, checking out and a conflict are stutters.                     *)
LEMMA PrepareHeld ==
    ASSUME MTypeOK, LandedInv, NEW a \in Api, Prepare(a)
    PROVE  Held
<1>0. Busy(a) /\ UNCHANGED <<target, pushed>> /\ run[a].step \in BeforePush
  BY IdleOrBusy DEF Prepare, repovars, BeforePush
<1>1. CASE Fail(a)
  BY <1>0, <1>1, FailAside, AsideHeld
<1>2. CASE BlockRun(a)
  BY <1>0, <1>2, BlockAside, AsideHeld
<1>3. CASE GoOn(a, "checkout")
  <2>1. "checkout" \in Step
    BY DEF Step
  <2>2. PICK k \in Run :
            /\ run' = [run EXCEPT ![a] = k] /\ k.step = "checkout"
            /\ k.packet = run[a].packet /\ k.token = run[a].token
            /\ k.attempt = run[a].attempt
    BY <1>0, <1>3, <2>1, NextRun
  <2>3. UNCHANGED <<packetvars, target, mlease>>
    BY <1>0, <1>3 DEF GoOn
  <2> QED BY <1>0, <2>2, <2>3, MoveLanded, MoveStays DEF Held
<1>4. CASE /\ run' = [run EXCEPT ![a].step = "checkout",
                               ![a].on = TargetHead, ![a].rechecked = TRUE]
           /\ UNCHANGED <<packetvars, mlease, tokens>>
  <2>1. PICK k : k = [run[a] EXCEPT !.step = "checkout", !.on = TargetHead,
                                    !.rechecked = TRUE]
    OBVIOUS
  <2>2. k \in Run /\ k.step = "checkout" /\ k.packet = run[a].packet
        /\ k.attempt = run[a].attempt /\ k.token = run[a].token
    <3>1. TargetHead \in Nat /\ run[a] \in Run
      BY <1>0, BusyRun, Typed DEF TargetHead
    <3> QED BY <2>1, <3>1 DEF Run, Step
  <2>3. run' = [run EXCEPT ![a] = k] /\ UNCHANGED <<packetvars, target, mlease>>
    BY <1>0, <1>4, <2>1
  <2> QED BY <1>0, <2>2, <2>3, MoveLanded, MoveStays DEF Held
<1> QED BY <1>1, <1>2, <1>3, <1>4 DEF Prepare

(* The checkout of the target is a stutter.                                 *)
LEMMA CheckoutHeld ==
    ASSUME MTypeOK, LandedInv, NEW a \in Api, Checkout(a)
    PROVE  Held
<1>0. Busy(a) /\ UNCHANGED <<target, pushed>> /\ run[a].step \in BeforePush
  BY IdleOrBusy DEF Checkout, repovars, BeforePush
<1>1. CASE Fail(a)
  BY <1>0, <1>1, FailAside, AsideHeld
<1>2. CASE BlockRun(a)
  BY <1>0, <1>2, BlockAside, AsideHeld
<1>3. CASE GoOn(a, "merge")
  <2>1. "merge" \in Step
    BY DEF Step
  <2>2. PICK k \in Run :
            /\ run' = [run EXCEPT ![a] = k] /\ k.step = "merge"
            /\ k.packet = run[a].packet /\ k.token = run[a].token
            /\ k.attempt = run[a].attempt
    BY <1>0, <1>3, <2>1, NextRun
  <2>3. UNCHANGED <<packetvars, target, mlease>>
    BY <1>0, <1>3 DEF GoOn
  <2> QED BY <1>0, <2>2, <2>3, MoveLanded, MoveStays DEF Held
<1> QED BY <1>1, <1>2, <1>3 DEF Checkout

(* A merge that met a conflict ends as a stutter.                           *)
LEMMA ConflictHeld ==
    ASSUME MTypeOK, LandedInv, NEW a \in Api, Conflict(a)
    PROVE  Held
<1>1. Busy(a) /\ BlockRun(a) /\ UNCHANGED <<target, pushed>>
  BY IdleOrBusy DEF Conflict
<1> QED BY <1>1, BlockAside, AsideHeld

(* The push publishes the whole target, or fails as a stutter.              *)
LEMMA PushPublishes ==
    ASSUME MTypeOK, LandedInv, NEW a \in Api, Push(a)
    PROVE  LandedInv' /\ (Merges!Publish \/ UNCHANGED Merges!lvars)
<1>0. Busy(a) /\ target' = target
  BY IdleOrBusy DEF Push
<1>1. CASE Fail(a) /\ UNCHANGED pushed
  BY <1>0, <1>1, FailAside, AsideHeld DEF Held
<1>2. CASE pushed' = TargetHead /\ GoOn(a, "finish")
  <2>1. "finish" \in Step
    BY DEF Step
  <2>2. PICK k \in Run :
            /\ run' = [run EXCEPT ![a] = k] /\ k.step = "finish"
            /\ k.packet = run[a].packet /\ k.token = run[a].token
            /\ k.attempt = run[a].attempt
    BY <1>0, <1>2, <2>1, NextRun
  <2>3. UNCHANGED <<packetvars, target, mlease>> /\ pushed' = Len(target)
    BY <1>0, <1>2 DEF GoOn, TargetHead
  <2>4. LandedInv'
    BY <1>0, <2>2, <2>3, MoveLanded DEF BeforePush
  <2>5. Merges!Publish
    BY <2>3 DEF Merges!Publish, packetvars
  <2> QED BY <2>4, <2>5
<1> QED BY <1>1, <1>2 DEF Push

(* The last step of a merge concludes its packet.                           *)
LEMMA FinishConcludes ==
    ASSUME MergeInv, LandedInv, NEW a \in Api, Finish(a)
    PROVE  /\ LandedInv'
           /\ UNCHANGED Merges!lvars \/ \E p \in Packet : Merges!Conclude(p)
<1>0. MTypeOK /\ Busy(a) /\ UNCHANGED <<target, pushed>> /\ run[a].step = "finish"
  BY IdleOrBusy DEF Finish, repovars, MergeInv
<1>1. CASE Fail(a)
  BY <1>0, <1>1, FailAside, AsideHeld DEF Held
<1>2. CASE ~Fail(a)
  <2>0. PICK p \in Packet : p = run[a].packet
    BY <1>0, BusyRun
  <2>1. /\ Current(a) /\ EndRun(a)
        /\ state' = [state EXCEPT ![p] = MERGED]
        /\ held' = [held EXCEPT ![p] = FALSE]
    BY <1>2, <2>0 DEF Finish
  <2>2. HoldsRow(a)
    BY <1>0, <2>1 DEF HoldsRow, Current
  <2>3. \A q \in Packet : /\ state'[q] = RUNNING => state[q] = RUNNING
                          /\ held'[q] => held[q]
                          /\ state'[q] = MERGED => state[q] = MERGED \/ ~held'[q]
    BY <1>0, <2>1, StatesTyped DEF MTypeOK
  <2>4. LandedInv'
    BY <1>0, <2>1, <2>3, EndAside, AsideLanded
  <2>5. pushed = Len(target)
    BY <1>0, <2>2 DEF LandedInv, HolderHasPushed
  <2>6. Merges!Landed(p) # {} /\ Merges!Landed(p) \subseteq 1 .. pushed
    <3>1. PICK i \in 1 .. pushed : target[i].packet = p
      BY <1>0, <2>0 DEF MergeInv, RunsInv, StepsDone, Result
    <3>2. DOMAIN target = 1 .. pushed
      BY <1>0, <2>5, Typed
    <3> QED BY <3>1, <3>2 DEF Merges!Landed
  <2>7. {q \in Packet : state'[q] = MERGED} = {q \in Packet : state[q] = MERGED} \cup {p}
    BY <1>0, <2>1 DEF MTypeOK
  <2>8. Merges!Conclude(p)
    BY <1>0, <2>6, <2>7 DEF Merges!Conclude
  <2> QED BY <2>4, <2>8
<1> QED BY <1>1, <1>2

(* The merge of the branch lands the result of the run's attempt, which is  *)
(* the packet's latest and has nothing on the target yet.                   *)
LEMMA MergeLands ==
    ASSUME MergeInv, LandedInv, NEW a \in Api, MergeBranch(a)
    PROVE  /\ LandedInv'
           /\ \/ UNCHANGED Merges!lvars
              \/ \E p \in Packet : \E n \in UNION {0 .. MaxAttempts[q] : q \in Packet} :
                    Merges!Land(p, n)
<1>0. MTypeOK /\ Busy(a) /\ run[a].step = "merge" /\ run[a].step \in BeforePush
  BY IdleOrBusy DEF MergeBranch, MergeInv, BeforePush
<1>1. CASE Fail(a) /\ target' = target /\ pushed' = pushed
  BY <1>0, <1>1, FailAside, AsideHeld DEF Held
<1>2. CASE GoOn(a, "conflict") /\ UNCHANGED <<target, pushed>>
  <2>1. "conflict" \in Step
    BY DEF Step
  <2>2. PICK k \in Run :
            /\ run' = [run EXCEPT ![a] = k] /\ k.step = "conflict"
            /\ k.packet = run[a].packet /\ k.token = run[a].token
            /\ k.attempt = run[a].attempt
    BY <1>0, <1>2, <2>1, NextRun
  <2>3. UNCHANGED <<packetvars, target, mlease>>
    BY <1>2 DEF GoOn
  <2> QED BY <1>0, <1>2, <2>2, <2>3, MoveLanded, MoveStays
<1>3. CASE /\ MayMutate(a) /\ GoOn(a, "push") /\ pushed' = pushed
           /\ target' = Append(target, [packet |-> run[a].packet,
                                        attempt |-> run[a].attempt, on |-> run[a].on])
  <2>1. "push" \in Step
    BY DEF Step
  <2>2. PICK k \in Run :
            /\ run' = [run EXCEPT ![a] = k] /\ k.step = "push"
            /\ k.packet = run[a].packet /\ k.token = run[a].token
            /\ k.attempt = run[a].attempt
    BY <1>0, <1>3, <2>1, NextRun
  <2>3. PICK p \in Packet, n \in Nat : p = run[a].packet /\ n = run[a].attempt
    BY <1>0, BusyRun
  <2>4. /\ HoldsRow(a) /\ held[p] /\ n = attempt[p] /\ run[a].on = Len(target)
        /\ UNCHANGED <<state, attempt, asking, held, mlease>>
    BY <1>0, <1>3, <2>3 DEF MayMutate, Current, Reserved, HoldsRow, GoOn, packetvars,
       MergeInv, RunsInv, HolderIsVerified, TargetHead
  <2>5. PICK c \in Commit : /\ c = [packet |-> p, attempt |-> n, on |-> Len(target)]
                            /\ c.packet = p /\ c.attempt = n
    <3>1. PICK c : c = [packet |-> p, attempt |-> n, on |-> Len(target)]
      OBVIOUS
    <3> QED BY <1>0, <3>1, Typed DEF Commit
  <2>6. target' = Append(target, c)
    BY <1>3, <2>3, <2>4, <2>5
  <2>7. /\ Len(target) \in Nat /\ DOMAIN target = 1 .. Len(target)
        /\ Len(target') = Len(target) + 1
        /\ \A i \in 1 .. Len(target) : target'[i] = target[i]
        /\ target'[Len(target) + 1] = c
    BY <1>0, <2>6, Typed
  <2>8. state[p] # RUNNING /\ ~asking[p]
    <3>1. state[p] = RUNNING \/ asking[p] => n < attempt[p]
      BY <1>0, <2>3 DEF MergeInv, RunsInv, AttemptsNumbered
    <3>2. ~(n < attempt[p])
      BY <2>4
    <3> QED BY <3>1, <3>2
  <2>9. \A i \in 1 .. Len(target) : target[i].packet = p => target[i].attempt < n
    <3> SUFFICES ASSUME NEW i \in 1 .. Len(target), target[i].packet = p
                 PROVE  target[i].attempt < n
      OBVIOUS
    <3>1. target[i].attempt \in Nat /\ target[i].attempt <= n
      BY <1>0, <2>4, LandedCommit DEF LandedInv, LandedNumbered
    <3>2. target[i].attempt # n
      BY <1>0, <2>3 DEF LandedInv, NotYetLanded, Result
    <3> QED BY <3>1, <3>2
  <2>10. \A i \in 1 .. Len(target') : i \in 1 .. Len(target) \/ target'[i] = c
    BY <2>7
  <2>11. AttemptsBounded' /\ MergedIsClosed'
    BY <2>4 DEF LandedInv, AttemptsBounded, MergedIsClosed
  <2>12. LandedNumbered'
    <3> SUFFICES ASSUME NEW i \in 1 .. Len(target')
                 PROVE  /\ target'[i].attempt <= attempt[target'[i].packet]
                        /\ state[target'[i].packet] = RUNNING \/ asking[target'[i].packet]
                              => target'[i].attempt < attempt[target'[i].packet]
      BY <2>4 DEF LandedNumbered
    <3>1. CASE i \in 1 .. Len(target)
      BY <2>7, <3>1 DEF LandedInv, LandedNumbered
    <3>2. CASE target'[i] = c
      BY <2>4, <2>5, <2>8, <3>2
    <3> QED BY <2>10, <3>1, <3>2
  <2>13. /\ run'[a] = k /\ \A b \in Api : b # a => run'[b] = run[b]
         /\ \A b \in Api : (Busy(b)' => Busy(b)) /\ (HoldsRow(b)' => HoldsRow(b))
    <3>1. run'[a] = k /\ \A b \in Api : b # a => run'[b] = run[b]
      BY <1>0, <2>2 DEF MTypeOK
    <3> QED BY <1>0, <2>2, <2>4, <3>1 DEF Busy, HoldsRow
  <2>14. NotYetLanded'
    <3> SUFFICES ASSUME NEW b \in Api, Busy(b)', run'[b].step \in BeforePush,
                        NEW i \in 1 .. Len(target'),
                        target'[i].packet = run'[b].packet,
                        target'[i].attempt = run'[b].attempt
                 PROVE  FALSE
      BY DEF NotYetLanded, Result
    <3>1. b # a /\ run'[b] = run[b] /\ Busy(b)
      BY <2>2, <2>13 DEF BeforePush
    <3>2. CASE i \in 1 .. Len(target)
      BY <2>7, <3>1, <3>2 DEF LandedInv, NotYetLanded, Result
    <3>3. CASE target'[i] = c
      BY <1>0, <2>3, <2>5, <3>1, <3>3 DEF MergeInv, RunsInv, OneRunPerAttempt
    <3> QED BY <2>10, <3>2, <3>3
  <2>15. HolderHasPushed'
    <3> SUFFICES ASSUME NEW b \in Api, HoldsRow(b)', run'[b].step = "finish" PROVE FALSE
      BY DEF HolderHasPushed
    <3>1. b # a /\ HoldsRow(b)
      BY <2>2, <2>13
    <3> QED BY <2>4, <3>1 DEF HoldsRow, MergeInv, RunsInv, TokensNumbered
  <2>16. LandedInv'
    BY <2>11, <2>12, <2>14, <2>15 DEF LandedInv
  <2>17. n \in UNION {0 .. MaxAttempts[q] : q \in Packet}
    <3>1. n <= MaxAttempts[p] /\ MaxAttempts[p] \in Nat
      BY <2>4, MergeAssumption DEF LandedInv, AttemptsBounded
    <3>2. n \in 0 .. MaxAttempts[p]
      BY <3>1
    <3> QED BY <3>2
  <2>18. Merges!Land(p, n)
    <3>1. p \notin {q \in Packet : state[q] = MERGED}
      BY <2>4 DEF LandedInv, MergedIsClosed
    <3>2. \A i \in Merges!Landed(p) : target[i].attempt < n
      BY <2>7, <2>9 DEF Merges!Landed
    <3>3. target' = Append(target, [packet |-> p, attempt |-> n, on |-> Len(target)])
      BY <2>5, <2>6
    <3>4. {q \in Packet : state'[q] = MERGED} = {q \in Packet : state[q] = MERGED}
      BY <2>4
    <3> QED BY <1>3, <3>1, <3>2, <3>3, <3>4 DEF Merges!Land
  <2> QED BY <2>16, <2>17, <2>18
<1> QED BY <1>1, <1>2, <1>3 DEF MergeBranch, repovars

(* A new execution: the attempts on the target are earlier ones.            *)
LEMMA StartLanded ==
    ASSUME MTypeOK, LandedInv, NEW p \in Packet, Start(p)
    PROVE  Held
<1>1. /\ state[p] \in {READY, BLOCKED_RECOVERABLE} /\ attempt[p] < MaxAttempts[p]
      /\ state' = [state EXCEPT ![p] = RUNNING]
      /\ held' = [held EXCEPT ![p] = TRUE] /\ asking' = [asking EXCEPT ![p] = FALSE]
      /\ UNCHANGED <<target, pushed, mlease, run>>
  BY DEF Start, repovars
<1>2. PICK n \in Nat : n = attempt[p] + 1 /\ attempt' = [attempt EXCEPT ![p] = n]
  <2>1. attempt[p] + 1 \in Nat
    BY DEF MTypeOK
  <2>2. attempt' = [attempt EXCEPT ![p] = attempt[p] + 1]
    BY DEF Start
  <2> QED BY <2>1, <2>2
<1>3. /\ attempt'[p] = n /\ n = attempt[p] + 1 /\ attempt[p] \in Nat
      /\ state'[p] = RUNNING /\ state[p] # MERGED
      /\ \A q \in Packet \ {p} : /\ attempt'[q] = attempt[q] /\ state'[q] = state[q]
                                 /\ held'[q] = held[q] /\ asking'[q] = asking[q]
  BY <1>1, <1>2, StatesTyped DEF MTypeOK
<1>4. AttemptsBounded'
  <2>1. n <= MaxAttempts[p]
    BY <1>1, <1>2, <1>3, MergeAssumption
  <2> QED BY <1>3, <2>1 DEF LandedInv, AttemptsBounded
<1>5. MergedIsClosed'
  BY <1>3, StatesTyped DEF LandedInv, MergedIsClosed
<1>6. LandedNumbered'
  <2> SUFFICES ASSUME NEW i \in 1 .. Len(target)
               PROVE  /\ target[i].attempt <= attempt'[target[i].packet]
                      /\ state'[target[i].packet] = RUNNING \/ asking'[target[i].packet]
                            => target[i].attempt < attempt'[target[i].packet]
    BY <1>1 DEF LandedNumbered
  <2>1. /\ target[i].packet \in Packet /\ target[i].attempt \in Nat
        /\ target[i].attempt <= attempt[target[i].packet]
    BY LandedCommit DEF LandedInv, LandedNumbered
  <2>2. CASE target[i].packet = p
    BY <1>3, <2>1, <2>2
  <2>3. CASE target[i].packet # p
    BY <1>3, <2>1, <2>3 DEF LandedInv, LandedNumbered
  <2> QED BY <2>2, <2>3
<1>7. NotYetLanded' /\ HolderHasPushed'
  BY <1>1 DEF LandedInv, NotYetLanded, HolderHasPushed, Result, Busy, HoldsRow
<1>8. StaysMerged
  BY <1>3, StatesTyped DEF StaysMerged
<1> QED BY <1>1, <1>4, <1>5, <1>6, <1>7, <1>8, StaysMergedSame DEF Held, LandedInv

(* A new merge: what its worker asks for has not landed.                    *)
LEMMA AdmitLanded ==
    ASSUME MergeInv, LandedInv, NEW p \in Packet, NEW a \in Api, Admit(a, p)
    PROVE  Held
<1>0. MTypeOK /\ tokens \in Nat
  BY Typed DEF MergeInv
<1>1. PICK k : k = [packet |-> p, attempt |-> attempt[p], token |-> tokens + 1,
                    step |-> "prepare", on |-> base[p], rechecked |-> FALSE]
  OBVIOUS
<1>2. PICK row : row = [packet |-> p, token |-> tokens + 1, left |-> MergeTTL]
  OBVIOUS
<1>3. k.packet = p /\ k.attempt = attempt[p] /\ k.step = "prepare" /\ row.token = tokens + 1
  BY <1>1, <1>2
<1>4. /\ run[a] = Idle /\ asking[p]
      /\ mlease' = row /\ run' = [run EXCEPT ![a] = k]
      /\ asking' = [asking EXCEPT ![p] = FALSE]
      /\ UNCHANGED <<state, attempt, held, target, pushed>>
  BY <1>1, <1>2 DEF Admit, repovars
<1>5. run'[a] = k /\ \A b \in Api : b # a => run'[b] = run[b]
  BY <1>0, <1>4 DEF MTypeOK
<1>6. \A q \in Packet : asking'[q] => asking[q]
  BY <1>0, <1>4 DEF MTypeOK
<1>7. AttemptsBounded' /\ MergedIsClosed' /\ LandedNumbered'
  <2>1. LandedNumbered'
    <3> SUFFICES ASSUME NEW i \in 1 .. Len(target)
                 PROVE  /\ target[i].attempt <= attempt[target[i].packet]
                        /\ state[target[i].packet] = RUNNING \/ asking'[target[i].packet]
                              => target[i].attempt < attempt[target[i].packet]
      BY <1>4 DEF LandedNumbered
    <3>1. target[i].packet \in Packet
      BY <1>0, LandedCommit
    <3> QED BY <1>6, <3>1 DEF LandedInv, LandedNumbered
  <2> QED BY <1>4, <2>1 DEF LandedInv, AttemptsBounded, MergedIsClosed
<1>8. NotYetLanded'
  <2> SUFFICES ASSUME NEW b \in Api, Busy(b)', run'[b].step \in BeforePush,
                      NEW i \in 1 .. Len(target), target[i].packet = run'[b].packet,
                      target[i].attempt = run'[b].attempt
               PROVE  FALSE
    BY <1>4 DEF NotYetLanded, Result
  <2>1. CASE b = a
    <3>1. target[i].packet = p /\ target[i].attempt = attempt[p]
      BY <1>3, <1>5, <2>1
    <3>2. target[i].attempt < attempt[p] /\ attempt[p] \in Nat
      BY <1>0, <1>4, <3>1 DEF LandedInv, LandedNumbered, MTypeOK
    <3> QED BY <3>1, <3>2
  <2>2. CASE b # a
    <3>1. run'[b] = run[b] /\ Busy(b)
      BY <1>5, <2>2 DEF Busy
    <3> QED BY <3>1 DEF LandedInv, NotYetLanded, Result
  <2> QED BY <2>1, <2>2
<1>9. HolderHasPushed'
  <2> SUFFICES ASSUME NEW b \in Api, HoldsRow(b)', run'[b].step = "finish" PROVE FALSE
    BY DEF HolderHasPushed
  <2>1. b # a
    BY <1>3, <1>5
  <2>2. Busy(b) /\ run[b].token = tokens + 1
    BY <1>3, <1>4, <1>5, <2>1 DEF HoldsRow, Busy
  <2>3. run[b].token <= tokens
    BY <2>2 DEF MergeInv, RunsInv, TokensNumbered
  <2> QED BY <1>0, <2>2, <2>3
<1>10. StaysMerged
  BY <1>4 DEF StaysMerged
<1> QED BY <1>4, <1>7, <1>8, <1>9, <1>10, StaysMergedSame DEF Held, LandedInv

(* Every step keeps the strengthening and is a step of the abstract merges. *)
LEMMA LandedStep ==
    ASSUME MergeInv, LandedInv, [MNext]_mvars
    PROVE  LandedInv' /\ [Merges!LNext]_(Merges!lvars)
<1>0. MTypeOK
  BY DEF MergeInv
<1>h. CASE Held
  BY <1>h DEF Held
<1>1. ASSUME NEW p \in Packet,
             Start(p) \/ Accept(p) \/ Lapse(p) \/ GiveUp(p) \/ Refuse(p)
             \/ \E a \in Api : Admit(a, p)
      PROVE  Held
  BY <1>0, <1>1, StartLanded, AdmitLanded, SurroundingsAside, AsideHeld
<1>2. ASSUME NEW a \in Api, Prepare(a) \/ Checkout(a) \/ Conflict(a)
      PROVE  Held
  BY <1>0, <1>2, PrepareHeld, CheckoutHeld, ConflictHeld
<1>3. ASSUME NEW a \in Api, MergeBranch(a)
      PROVE  LandedInv' /\ [Merges!LNext]_(Merges!lvars)
  BY <1>3, MergeLands DEF Merges!LNext
<1>4. ASSUME NEW a \in Api, Push(a)
      PROVE  LandedInv' /\ [Merges!LNext]_(Merges!lvars)
  BY <1>0, <1>4, PushPublishes DEF Merges!LNext
<1>5. ASSUME NEW a \in Api, Finish(a)
      PROVE  LandedInv' /\ [Merges!LNext]_(Merges!lvars)
  BY <1>5, FinishConcludes DEF Merges!LNext
<1>6. ASSUME (\E a \in Api : Beat(a) \/ Crash(a)) \/ Repair \/ Tick
      PROVE  Held
  BY <1>0, <1>6, SurroundingsAside, AsideHeld
<1>7. ASSUME NEW gone \in SUBSET Packet, Cleanup(gone) PROVE Held
  BY <1>0, <1>7, CleanupAside, AsideHeld
<1>8. ASSUME UNCHANGED mvars PROVE Held
  <2>1. UNCHANGED <<packetvars, target, pushed, mlease, run>>
    BY <1>8 DEF mvars, repovars
  <2>2. Aside /\ StaysMerged
    BY <2>1 DEF Aside, StaysMerged, OnlyEnds, SameRow, packetvars
  <2> QED BY <1>0, <2>2, AsideHeld
<1> QED BY <1>h, <1>1, <1>2, <1>3, <1>4, <1>5, <1>6, <1>7, <1>8 DEF MNext, MergeStep

(* The first state is the abstract merges' first.                           *)
LEMMA LandedInit ==
    ASSUME MInit PROVE LandedInv /\ Merges!LInit
<1>1. \A p \in Packet : MaxAttempts[p] \in Nat
  BY MergeAssumption
<1>2. LandedInv
  BY <1>1, StatesTyped DEF MInit, LandedInv, AttemptsBounded, LandedNumbered, NotYetLanded,
     HolderHasPushed, MergedIsClosed, HoldsRow, Busy
<1>3. Merges!LInit
  BY StatesTyped DEF MInit, Merges!LInit
<1> QED BY <1>2, <1>3

(* Whatever the merges, their leases and the crashes between their steps do *)
(* together, what has landed is of attempts that were made, a merge before  *)
(* its git merge has landed nothing, and the row's merge finishes with the  *)
(* whole target pushed.                                                     *)
THEOREM LandedInvariant == MSpec => []LandedInv
  BY LandedInit, LandedStep, MergeInvariant, PTL DEF MSpec

(* ImplementsVerifiedMerges, step by step: the git merge lands a verified   *)
(* attempt later than all of its packet's on the trunk, the push publishes  *)
(* all of it, the final transition concludes a packet none of whose commits *)
(* is unpublished, and every other step changes nothing of the promise.     *)
THEOREM MergesImplement == MSpec => ImplementsVerifiedMerges
  BY LandedInit, LandedStep, LandedInvariant, MergeInvariant, PTL
     DEF MSpec, ImplementsVerifiedMerges, Merges!LSpec

(* A step of the abstract merges keeps done packets whole on the remote.    *)
LEMMA WholeStep ==
    ASSUME MTypeOK, Merges!DoneIsWhole, [Merges!LNext]_(Merges!lvars)
    PROVE  Merges!DoneIsWhole'
<1> DEFINE done == {p \in Packet : state[p] = MERGED}
<1>0. /\ Len(target) \in Nat /\ DOMAIN target = 1 .. Len(target)
      /\ \A c : DOMAIN Append(target, c) = 1 .. Len(target) + 1
      /\ \A c : \A i \in 1 .. Len(target) : Append(target, c)[i] = target[i]
      /\ \A c : Append(target, c)[Len(target) + 1] = c
  BY Typed
<1> SUFFICES ASSUME NEW q \in done'
             PROVE  Merges!Landed(q)' # {} /\ Merges!Landed(q)' \subseteq 1 .. pushed'
  BY DEF Merges!DoneIsWhole
<1>1. CASE UNCHANGED Merges!lvars
  BY <1>1 DEF Merges!lvars, Merges!DoneIsWhole, Merges!Landed
<1>2. ASSUME NEW p \in Packet, Merges!Conclude(p)
      PROVE  Merges!Landed(q)' # {} /\ Merges!Landed(q)' \subseteq 1 .. pushed'
  BY <1>2 DEF Merges!Conclude, Merges!DoneIsWhole, Merges!Landed
<1>3. CASE Merges!Publish
  BY <1>0, <1>3 DEF Merges!Publish, Merges!DoneIsWhole, Merges!Landed
<1>4. ASSUME NEW p \in Packet, NEW n, Merges!Land(p, n)
      PROVE  Merges!Landed(q)' # {} /\ Merges!Landed(q)' \subseteq 1 .. pushed'
  <2>1. PICK c : c.packet = p /\ target' = Append(target, c)
    BY <1>4 DEF Merges!Land
  <2>2. q \in done /\ p # q /\ pushed' = pushed
    BY <1>4 DEF Merges!Land
  <2>3. /\ DOMAIN target' = 1 .. Len(target) + 1
        /\ target'[Len(target) + 1].packet # q
        /\ \A i \in 1 .. Len(target) : target'[i] = target[i]
    BY <1>0, <2>1, <2>2
  <2>4. Merges!Landed(q)' = Merges!Landed(q)
    BY <1>0, <2>3 DEF Merges!Landed
  <2> QED BY <2>2, <2>4 DEF Merges!DoneIsWhole
<1> QED BY <1>1, <1>2, <1>3, <1>4 DEF Merges!LNext

(* A packet in MERGED has a commit on the target and all its commits, those *)
(* of earlier crashed merges too, are among the pushed ones from then on.   *)
THEOREM MergedIsWhole == MSpec => []Merges!DoneIsWhole
<1>1. MInit => Merges!DoneIsWhole
  BY StatesTyped DEF MInit, Merges!DoneIsWhole
<1>2. MergeInv => MTypeOK
  BY DEF MergeInv
<1> QED BY <1>1, <1>2, WholeStep, LandedStep, LandedInvariant, MergeInvariant, PTL DEF MSpec
=============================================================================
