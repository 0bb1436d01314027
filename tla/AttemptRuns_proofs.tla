------------------------- MODULE AttemptRuns_proofs -------------------------
(***************************************************************************)
(* Proofs about AttemptRuns for any number of attempts, any budget, either   *)
(* acceptance profile, with and without the recovery controller: the state   *)
(* stays well formed, what is accepted has passed its gates, the merge finds *)
(* the row of the accepted attempt, and a rerun leaves the coder alone.      *)
(*                                                                          *)
(* Most steps are steps of one executor that leave the packet with its       *)
(* attempt.  Each of them is shown to satisfy Proceeds, and Proceeds to keep *)
(* the invariant; the steps that give the packet away are treated one by one.*)
(***************************************************************************)
EXTENDS AttemptRuns, TLAPS

-----------------------------------------------------------------------------
(* Only the executor of a, and only the row of a. *)
ExecOf(a) ==
    /\ exec' \in [Attempt -> ExecRecord]
    /\ \A b \in Attempt : b # a => exec'[b] = exec[b]

RowOf(a) ==
    /\ row' \in [Attempt -> RunRow]
    /\ \A b \in Attempt : b # a => row'[b] = row[b]

(* Only what the work of an attempt has passed, and no gate is taken back    *)
(* but from an attempt that is still at work.                                *)
PassedBy(a) ==
    /\ passed' \in [Attempt -> SUBSET Gates]
    /\ \A w \in Attempt : w # a \/ Settled(a) => passed[w] \subseteq passed'[w]

(* The packet stays with its attempt, and is merged only when accepted. *)
PacketMoves ==
    /\ UNCHANGED <<count, owner>>
    /\ budget' \in 0..(Budget + MaxAttempt + 1)
    /\ \/ state' \in PacketState \ {RUNNING, ACCEPTED, MERGED}
       \/ state' = MERGED /\ state = ACCEPTED
       \/ state' = state

(* A step of the executor of a that leaves the packet with its attempt. *)
Proceeds(a) ==
    /\ UNCHANGED packet \/ PacketMoves
    /\ ExecOf(a) /\ RowOf(a) /\ PassedBy(a)
    /\ marker' \in Rerunnable \cup {""} /\ tree' \subseteq Attempt
    /\ exec[a] # Idle
    /\ exec'[a].at \notin {"idle", "begin"}
    /\ exec'[a].told \in {exec[a].told, ""}
    /\ Settled(a) => /\ Settled(a)' /\ exec'[a].work = exec[a].work
                     /\ row'[a] = row[a] \/ state' # ACCEPTED
    /\ marker' # marker => Consumes(a) /\ exec'[a].at = "rerun"
    /\ exec'[a].at = "prepare" => exec[a].at = "begin"
    /\ exec'[a].at \in CoderStages =>
          exec[a].at \in CoderStages \/ (exec[a].at = "prepare" /\ ~Consumes(a))
    /\ exec'[a].at \in Stages =>
          \/ row'[a].status = "running"
          \/ exec[a].at \in Stages /\ row'[a].status = row[a].status
    /\ exec'[a].at = "return" /\ exec'[a].answer = "accepted" =>
          \/ row'[a].status = "accepted"
          \/ exec[a].at \in Stages /\ row'[a].status = row[a].status
    /\ GatesBehind(a)'

-----------------------------------------------------------------------------
(* What the operators that change one attempt's executor do. *)
LEMMA IdleAt == Idle.at = "idle" /\ Idle.work = 0 /\ Idle.told = ""
  BY DEF Idle

LEMMA NoRowStatus == NoRow.status = "none" /\ ~NoRow.evidence
  BY DEF NoRow

LEMMA GoesRecord ==
    ASSUME NEW r \in ExecRecord,
           NEW stage \in Stages \cup {"return", "merge", "retry", "recover", "apply"}
    PROVE  /\ [r EXCEPT !.at = stage] \in ExecRecord
           /\ [r EXCEPT !.at = stage].at = stage
           /\ [r EXCEPT !.at = stage].told = r.told
           /\ [r EXCEPT !.at = stage].work = r.work
           /\ [r EXCEPT !.at = stage].ev = r.ev
           /\ [r EXCEPT !.at = stage].answer = r.answer
  BY DEF ExecRecord, Stages, CoderStages

LEMMA AnswerRecord ==
    ASSUME NEW r \in ExecRecord, NEW answer \in Answers \cup Decisions
    PROVE  LET s == [r EXCEPT !.at = "return", !.answer = answer, !.ev = ""]
           IN  /\ s \in ExecRecord
               /\ s.at = "return" /\ s.told = r.told /\ s.work = r.work
               /\ s.answer = answer
  BY DEF ExecRecord, Stages, CoderStages

LEMMA GoesEffect ==
    ASSUME ATypeOK, NEW a \in Attempt, NEW stage, Goes(a, stage),
           stage \in Stages \cup {"return", "merge", "retry", "recover", "apply"}
    PROVE  /\ ExecOf(a)
           /\ exec'[a].at = stage /\ exec'[a].told = exec[a].told
           /\ exec'[a].work = exec[a].work /\ exec'[a].ev = exec[a].ev
           /\ exec'[a].answer = exec[a].answer
  <1>1. exec \in [Attempt -> ExecRecord]
    BY DEF ATypeOK
  <1>2. exec' = [exec EXCEPT ![a] = [exec[a] EXCEPT !.at = stage]]
    BY <1>1 DEF Goes
  <1>3. exec[a] \in ExecRecord
    BY <1>1
  <1> DEFINE e == [exec[a] EXCEPT !.at = stage]
  <1>4. /\ e \in ExecRecord /\ e.at = stage /\ e.told = exec[a].told
        /\ e.work = exec[a].work /\ e.ev = exec[a].ev /\ e.answer = exec[a].answer
    BY <1>3, GoesRecord
  <1> HIDE DEF e
  <1>5. exec' = [exec EXCEPT ![a] = e]
    BY <1>2 DEF e
  <1>6. QED
    BY <1>1, <1>4, <1>5 DEF ExecOf

LEMMA AnswerEffect ==
    ASSUME ATypeOK, NEW a \in Attempt, NEW answer \in Answers, Answer(a, answer)
    PROVE  /\ ExecOf(a)
           /\ exec'[a].at = "return" /\ exec'[a].told = exec[a].told
           /\ exec'[a].work = exec[a].work /\ exec'[a].answer = answer
  <1>1. exec \in [Attempt -> ExecRecord]
    BY DEF ATypeOK
  <1>2. exec' = [exec EXCEPT ![a].at = "return", ![a].answer = answer, ![a].ev = ""]
    BY DEF Answer
  <1> DEFINE e == [exec[a] EXCEPT !.at = "return", !.answer = answer, !.ev = ""]
  <1>3. exec' = [exec EXCEPT ![a] = e]
    BY <1>1, <1>2
  <1>4. exec[a] \in ExecRecord
    BY <1>1
  <1>5. /\ e \in ExecRecord /\ e.at = "return" /\ e.told = exec[a].told
        /\ e.work = exec[a].work /\ e.answer = answer
    BY <1>4, AnswerRecord
  <1> HIDE DEF e
  <1>6. QED
    BY <1>1, <1>3, <1>5 DEF ExecOf

LEMMA EndsEffect ==
    ASSUME ATypeOK, NEW a \in Attempt, Ends(a)
    PROVE  /\ ExecOf(a)
           /\ exec'[a].at = "gone" /\ exec'[a].told = ""
           /\ exec'[a].work = exec[a].work
  <1>1. exec \in [Attempt -> ExecRecord]
    BY DEF ATypeOK
  <1> DEFINE e == [Idle EXCEPT !.at = "gone", !.work = exec[a].work]
  <1>2. exec' = [exec EXCEPT ![a] = e]
    BY DEF Ends
  <1>3. exec[a].work \in 0..MaxAttempt
    BY <1>1 DEF ExecRecord
  <1>4. /\ e \in ExecRecord /\ e.at = "gone" /\ e.told = ""
        /\ e.work = exec[a].work
    BY <1>3 DEF Idle, ExecRecord, Answers
  <1> HIDE DEF e
  <1>5. QED
    BY <1>1, <1>2, <1>4 DEF ExecOf

LEMMA FailsEffect ==
    ASSUME ATypeOK, NEW a \in Attempt, NEW answer \in Answers, Fails(a, answer)
    PROVE  /\ ExecOf(a)
           /\ exec'[a].at = "return" /\ exec'[a].told = exec[a].told
           /\ exec'[a].work = exec[a].work /\ exec'[a].answer = answer
           /\ passed' \in [Attempt -> SUBSET Gates]
           /\ \A w \in Attempt : w # a => passed'[w] = passed[w]
  BY AnswerEffect DEF Fails, ATypeOK

LEMMA CreditEffect ==
    ASSUME ATypeOK, NEW w \in Attempt, NEW gate \in Gates, Credit(w, gate)
    PROVE  /\ passed' \in [Attempt -> SUBSET Gates]
           /\ \A v \in Attempt : passed[v] \subseteq passed'[v]
           /\ passed'[w] = passed[w] \cup {gate}
  BY DEF Credit, ATypeOK

(* The rows that are written, and what each of them offers. *)
SkippedRow(r) ==
    [r EXCEPT !.status = "rejected", !.report = FALSE, !.evidence = FALSE,
              !.work = 0, !.ev = Rework, !.rv = Rework]

RefusedRow(r, status, work, ev, rv) ==
    [r EXCEPT !.status = status, !.report = TRUE, !.evidence = FALSE,
              !.base = TRUE, !.work = work, !.ev = ev, !.rv = rv]

AcceptedRow(r, work, ev, rv) ==
    [r EXCEPT !.status = "accepted", !.report = TRUE, !.evidence = TRUE,
              !.base = TRUE, !.work = work, !.ev = ev, !.rv = rv]

RerunRow(r, status, work, ev, rv) ==
    [r EXCEPT !.status = status, !.report = TRUE, !.evidence = TRUE,
              !.work = work, !.ev = ev, !.rv = rv]

LEMMA AttemptNumber == Attempt \subseteq 0..MaxAttempt /\ 0 \in 0..MaxAttempt
  BY ConstantsOK DEF Attempt

LEMMA NonZeroAttempt == \A n \in 0..MaxAttempt : n # 0 => n \in Attempt
  BY ConstantsOK DEF Attempt

LEMMA NotZero == \A n \in Attempt : n # 0 /\ n \in 0..MaxAttempt
  BY ConstantsOK DEF Attempt

LEMMA AttemptIsNat == Attempt \subseteq Nat
  BY ConstantsOK DEF Attempt

LEMMA Skipped == Rework \in Verdict \cup {""} /\ Return \in Verdict \cup {""}
  BY DEF Rework, Return, Verdict

LEMMA SkippedRowType ==
    ASSUME NEW r \in RunRow
    PROVE  SkippedRow(r) \in RunRow /\ ~SkippedRow(r).evidence
  BY AttemptNumber, Skipped DEF RunRow, SkippedRow

LEMMA RefusedRowType ==
    ASSUME NEW r \in RunRow, NEW status \in {"rejected", "blocked"},
           NEW work \in 0..MaxAttempt,
           NEW ev \in Verdict \cup {""}, NEW rv \in Verdict \cup {""}
    PROVE  /\ RefusedRow(r, status, work, ev, rv) \in RunRow
           /\ ~RefusedRow(r, status, work, ev, rv).evidence
  BY DEF RunRow, RefusedRow

LEMMA StatusEffect ==
    ASSUME ATypeOK, NEW a \in Attempt,
           NEW status \in {"running", "accepted", "rejected", "blocked_recoverable", "failed"},
           row' = [row EXCEPT ![a].status = status]
    PROVE  /\ RowOf(a)
           /\ row'[a].status = status /\ row'[a].evidence = row[a].evidence
           /\ row'[a].work = row[a].work /\ row'[a].ev = row[a].ev
  <1>1. row \in [Attempt -> RunRow] /\ row[a] \in RunRow
    BY DEF ATypeOK
  <1> DEFINE r == [row[a] EXCEPT !.status = status]
  <1>2. row' = [row EXCEPT ![a] = r]
    BY <1>1
  <1>3. /\ r \in RunRow /\ r.status = status /\ r.evidence = row[a].evidence
        /\ r.work = row[a].work /\ r.ev = row[a].ev
    BY <1>1 DEF RunRow
  <1> HIDE DEF r
  <1>4. QED
    BY <1>1, <1>2, <1>3 DEF RowOf

LEMMA AcceptedRowEffect ==
    ASSUME ATypeOK, NEW a \in Attempt, NEW work \in 0..MaxAttempt,
           NEW ev \in Verdict \cup {""}, NEW rv \in Verdict \cup {""},
           row' = [row EXCEPT ![a] = AcceptedRow(row[a], work, ev, rv)]
    PROVE  /\ RowOf(a)
           /\ row'[a].status = "accepted" /\ row'[a].work = work /\ row'[a].ev = ev
  <1>1. row \in [Attempt -> RunRow] /\ row[a] \in RunRow
    BY DEF ATypeOK
  <1> DEFINE r == AcceptedRow(row[a], work, ev, rv)
  <1>2. r \in RunRow /\ r.status = "accepted" /\ r.work = work /\ r.ev = ev
    BY <1>1 DEF RunRow, AcceptedRow
  <1> HIDE DEF r
  <1>3. QED
    BY <1>1, <1>2 DEF RowOf, r

SetsRow(a, r) == row' = [row EXCEPT ![a] = r]

LEMMA RerunRowEffect ==
    ASSUME ATypeOK, NEW a \in Attempt, NEW status \in {"accepted", "rejected"},
           NEW work \in 0..MaxAttempt,
           NEW ev \in Verdict \cup {""}, NEW rv \in Verdict \cup {""},
           SetsRow(a, RerunRow(row[a], status, work, ev, rv))
    PROVE  /\ RowOf(a)
           /\ row'[a].status = status /\ row'[a].work = work /\ row'[a].ev = ev
  <1>1. row \in [Attempt -> RunRow] /\ row[a] \in RunRow
    BY DEF ATypeOK
  <1> DEFINE r == RerunRow(row[a], status, work, ev, rv)
  <1>2. r \in RunRow /\ r.status = status /\ r.work = work /\ r.ev = ev
    BY <1>1 DEF RunRow, RerunRow
  <1> HIDE DEF r
  <1>3. QED
    BY <1>1, <1>2 DEF RowOf, SetsRow, r

(* What an attempt has behind it once settled it keeps. *)
LEMMA ClearedStays ==
    ASSUME ATypeOK, NEW a \in Attempt, ExecOf(a), PassedBy(a), Settled(a) => Settled(a)',
           NEW w \in Attempt, NEW gates, Cleared(w, gates)
    PROVE  Cleared(w, gates)'
  BY DEF Cleared, Settled, ExecOf, PassedBy

LEMMA RowOffersStays ==
    ASSUME ATypeOK, NEW a \in Attempt, ExecOf(a), PassedBy(a), Settled(a) => Settled(a)',
           NEW b \in Attempt, RowOffers(b), row'[b].evidence = row[b].evidence,
           row'[b].work = row[b].work, row'[b].ev = row[b].ev
    PROVE  RowOffers(b)'
  <1>1. row[b].work \in 0..MaxAttempt
    BY DEF ATypeOK, RunRow
  <1>2. SUFFICES ASSUME row[b].evidence, row[b].work # 0
                 PROVE  RowOffers(b)'
    BY DEF RowOffers
  <1>3. PICK w \in Attempt : w = row[b].work
    BY <1>1, <1>2, ConstantsOK DEF Attempt
  <1>4. Cleared(w, {"acceptance"}) /\ (row[b].ev = "PASS" => "verifier" \in passed[w])
    BY <1>2, <1>3 DEF RowOffers
  <1>5. passed[w] \subseteq passed'[w]
    BY <1>4 DEF PassedBy, Cleared
  <1>6. Cleared(w, {"acceptance"})'
    BY <1>4, ClearedStays
  <1>7. QED
    BY <1>3, <1>4, <1>5, <1>6 DEF RowOffers

LEMMA GatesStay ==
    ASSUME ATypeOK, NEW a \in Attempt, ExecOf(a), PassedBy(a),
           Settled(a) => Settled(a)', NEW b \in Attempt, b # a, GatesBehind(b),
           row'[b].evidence = row[b].evidence, row'[b].work = row[b].work,
           row'[b].ev = row[b].ev
    PROVE  GatesBehind(b)'
  <1>1. exec'[b] = exec[b] /\ passed[b] \subseteq passed'[b]
    BY DEF ExecOf, PassedBy
  <1>2. RowOffers(b)'
    BY <1>1, RowOffersStays DEF GatesBehind
  <1>3. exec[b].at \in CoderStages \cup {"idle", "begin", "prepare", "rerun"} =>
            exec[b].work = 0
    BY DEF GatesBehind
  <1>4. /\ exec[b].at \in {"verify", "review"} => "acceptance" \in passed'[b] /\ ~Fast
        /\ exec[b].at = "review" => "verifier" \in passed'[b]
    BY <1>1 DEF GatesBehind, At
  <1>5. exec[b].work \in 0..MaxAttempt
    BY DEF ATypeOK, ExecRecord
  <1>6. ASSUME exec[b].at \in {"reverify", "rereview"}
        PROVE  /\ exec[b].work # 0 /\ Cleared(exec[b].work, {"acceptance"})'
               /\ exec[b].at = "rereview" => "verifier" \in passed'[exec[b].work]
    <2>1. exec[b].work # 0
      BY <1>6 DEF GatesBehind
    <2>2. PICK w \in Attempt : w = exec[b].work
      BY <1>5, <2>1, ConstantsOK DEF Attempt
    <2>3. Cleared(w, {"acceptance"}) /\ (exec[b].at = "rereview" => "verifier" \in passed[w])
      BY <1>6, <2>2 DEF GatesBehind, At
    <2>4. passed[w] \subseteq passed'[w]
      BY <2>3 DEF PassedBy, Cleared
    <2>5. Cleared(w, {"acceptance"})'
      BY <2>3, ClearedStays
    <2>6. QED
      BY <1>1, <2>1, <2>2, <2>3, <2>4, <2>5
  <1>7. ASSUME exec[b].at = "return", exec[b].answer = "accepted"
        PROVE  Cleared(WorkOf(b), Required)'
    <2>1. PICK w \in Attempt : w = WorkOf(b)
      BY <1>5, ConstantsOK DEF WorkOf, Attempt
    <2>2. Cleared(w, Required)'
      BY <1>7, <2>1, ClearedStays DEF GatesBehind, At
    <2>3. WorkOf(b)' = w
      BY <1>1, <2>1 DEF WorkOf
    <2>4. QED
      BY <2>2, <2>3
  <1>8. QED
    BY <1>1, <1>2, <1>3, <1>4, <1>6, <1>7 DEF GatesBehind, At

-----------------------------------------------------------------------------
(* The steps of an executor that leave the packet alone. *)
LEMMA FailsProceeds ==
    ASSUME ATypeOK, NEW a \in Attempt, exec[a].at \in Stages,
           NEW answer \in Answers \ {"accepted"}, Fails(a, answer),
           RowOf(a), RowOffers(a)', UNCHANGED packet, UNCHANGED marker,
           tree' \subseteq Attempt
    PROVE  Proceeds(a)
  <1>1. /\ ExecOf(a)
        /\ exec'[a].at = "return" /\ exec'[a].told = exec[a].told
        /\ exec'[a].answer = answer
        /\ passed' \in [Attempt -> SUBSET Gates]
        /\ \A w \in Attempt : w # a => passed'[w] = passed[w]
    BY FailsEffect
  <1>2. ~Settled(a) /\ exec[a].at \notin {"idle", "begin"}
    BY DEF Settled, Stages, CoderStages
  <1>3. PassedBy(a)
    BY <1>1, <1>2 DEF PassedBy
  <1>4. GatesBehind(a)'
    BY <1>1 DEF GatesBehind, At, CoderStages
  <1>5. exec[a] # Idle
    BY <1>2, IdleAt
  <1>6. marker' \in Rerunnable \cup {""}
    BY DEF ATypeOK
  <1>7. exec'[a].at \notin Stages \cup {"idle", "begin", "prepare"}
    BY <1>1 DEF Stages, CoderStages
  <1>8. exec'[a].at \notin CoderStages
    BY <1>7 DEF Stages
  <1>9. QED
    BY <1>1, <1>2, <1>3, <1>4, <1>5, <1>6, <1>7, <1>8 DEF Proceeds

(* A row whose evidence path is empty offers nothing. *)
LEMMA WritesNoEvidence ==
    ASSUME ATypeOK, NEW a \in Attempt, exec[a].at \in Stages,
           NEW new \in RunRow, Writes(a, new), ~new.evidence,
           NEW answer \in Answers, Fails(a, answer), RowOffers(a)
    PROVE  RowOf(a) /\ RowOffers(a)'
  <1>1. ExecOf(a) /\ PassedBy(a) /\ ~Settled(a)
    BY FailsEffect DEF PassedBy, Settled
  <1>2. CASE row' = row
    BY <1>1, <1>2, RowOffersStays DEF RowOf, ATypeOK
  <1>3. CASE row' = [row EXCEPT ![a] = new]
    <2>1. row' \in [Attempt -> RunRow] /\ row'[a] = new
          /\ \A b \in Attempt : b # a => row'[b] = row[b]
      BY <1>3 DEF ATypeOK
    <2>2. QED
      BY <2>1 DEF RowOf, RowOffers
  <1>4. QED
    BY <1>2, <1>3 DEF Writes

LEMMA FastRejectProceeds ==
    ASSUME ATypeOK, NEW a \in Attempt, exec[a].at \in Stages, GatesBehind(a),
           FastReject(a)
    PROVE  Proceeds(a)
  <1> DEFINE new == SkippedRow(row[a])
  <1>1. row[a] \in RunRow
    BY DEF ATypeOK
  <1>2. new \in RunRow /\ ~new.evidence
    BY <1>1, SkippedRowType
  <1>3. Writes(a, new)
    BY DEF FastReject, SkippedRow
  <1>4. PICK answer \in Rejections : Fails(a, answer)
    BY DEF FastReject
  <1>5. answer \in Answers \ {"accepted"}
    BY <1>4 DEF Rejections, Answers
  <1>6. RowOffers(a)
    BY DEF GatesBehind
  <1> HIDE DEF new
  <1>7. RowOf(a) /\ RowOffers(a)'
    BY <1>2, <1>3, <1>4, <1>5, <1>6, WritesNoEvidence
  <1>8. tree' \subseteq Attempt /\ UNCHANGED packet /\ UNCHANGED marker
    BY DEF FastReject, CleansUp, ATypeOK
  <1>9. QED
    BY <1>4, <1>5, <1>7, <1>8, FailsProceeds

LEMMA RefusalProceeds ==
    ASSUME ATypeOK, NEW a \in Attempt, exec[a].at \in Stages, GatesBehind(a),
           NEW status \in {"rejected", "blocked"},
           NEW ev \in Verdict \cup {""}, NEW rv \in Verdict \cup {""},
           PersistRejected(a, status, ev, rv),
           NEW answer \in Answers \ {"accepted"}, Fails(a, answer)
    PROVE  Proceeds(a)
  <1> DEFINE new == RefusedRow(row[a], status, a, ev, rv)
  <1>1. row[a] \in RunRow
    BY DEF ATypeOK
  <1>2. new \in RunRow /\ ~new.evidence
    BY <1>1, RefusedRowType, AttemptNumber
  <1>3. Writes(a, new)
    BY DEF PersistRejected, RefusedRow
  <1>4. RowOffers(a)
    BY DEF GatesBehind
  <1> HIDE DEF new
  <1>5. RowOf(a) /\ RowOffers(a)'
    BY <1>2, <1>3, <1>4, WritesNoEvidence
  <1>6. tree' \subseteq Attempt /\ UNCHANGED packet /\ UNCHANGED marker
    BY DEF PersistRejected, CleansUp, ATypeOK
  <1>7. QED
    BY <1>5, <1>6, FailsProceeds

LEMMA BeginProceeds ==
    ASSUME ATypeOK, NEW a \in Attempt, GatesBehind(a), Begin(a)
    PROVE  Proceeds(a)
  <1>1. /\ exec[a].at = "begin" /\ exec[a].work = 0 /\ RowOffers(a)
        /\ UNCHANGED packet /\ UNCHANGED <<marker, tree, passed>>
    BY DEF Begin, At, GatesBehind
  <1>2. exec[a] # Idle
    BY <1>1, IdleAt
  <1>3. PassedBy(a) /\ ~Settled(a) /\ marker' \in Rerunnable \cup {""} /\ tree' \subseteq Attempt
    BY <1>1 DEF PassedBy, Settled, ATypeOK
  <1>4. ASSUME row' = [row EXCEPT ![a].status = "running"], Goes(a, "prepare")
        PROVE  Proceeds(a)
    <2>1. /\ ExecOf(a) /\ exec'[a].at = "prepare"
          /\ exec'[a].told = exec[a].told /\ exec'[a].work = 0
      BY <1>1, <1>4, GoesEffect DEF Stages
    <2>2. /\ RowOf(a) /\ row'[a].status = "running" /\ row'[a].work = row[a].work
          /\ row'[a].evidence = row[a].evidence /\ row'[a].ev = row[a].ev
      BY <1>4, StatusEffect
    <2>3. RowOffers(a)'
      BY <1>1, <1>3, <2>1, <2>2, RowOffersStays
    <2>4. GatesBehind(a)'
      BY <2>1, <2>3 DEF GatesBehind, At
    <2>5. QED
      BY <1>1, <1>2, <1>3, <2>1, <2>2, <2>4 DEF Proceeds, CoderStages
  <1>5. ASSUME \/ row' = [row EXCEPT ![a].status = "running"]
               \/ row' = row,
               Answer(a, "error")
        PROVE  Proceeds(a)
    <2>1. /\ ExecOf(a) /\ exec'[a].at = "return" /\ exec'[a].answer = "error"
          /\ exec'[a].told = exec[a].told
      BY <1>5, AnswerEffect DEF Answers
    <2>2. /\ RowOf(a) /\ row'[a].work = row[a].work
          /\ row'[a].evidence = row[a].evidence /\ row'[a].ev = row[a].ev
      BY <1>5, StatusEffect DEF RowOf, ATypeOK
    <2>3. RowOffers(a)'
      BY <1>1, <1>3, <2>1, <2>2, RowOffersStays
    <2>4. GatesBehind(a)'
      BY <2>1, <2>3 DEF GatesBehind, At, CoderStages
    <2>5. QED
      BY <1>1, <1>2, <1>3, <2>1, <2>2, <2>4 DEF Proceeds, CoderStages, Stages
  <1>6. QED
    BY <1>4, <1>5 DEF Begin

(* A coder's attempt goes on to its next stage. *)
LEMMA AdvanceProceeds ==
    ASSUME ATypeOK, NEW a \in Attempt, GatesBehind(a), exec[a].at \in Stages,
           NEW stage \in (CoderStages \cup {"rerun"}), Goes(a, stage),
           UNCHANGED packet, RowOf(a), row'[a].status = row[a].status,
           row'[a].evidence = row[a].evidence, row'[a].work = row[a].work,
           row'[a].ev = row[a].ev, tree' \subseteq Attempt,
           marker' \in Rerunnable \cup {""},
           marker' # marker => Consumes(a) /\ stage = "rerun",
           passed' \in [Attempt -> SUBSET Gates],
           \A w \in Attempt : passed[w] \subseteq passed'[w],
           exec[a].at \in CoderStages \/ exec[a].at = "prepare",
           stage \in CoderStages =>
              exec[a].at \in CoderStages \/ (exec[a].at = "prepare" /\ ~Consumes(a)),
           stage \in {"verify", "review"} => "acceptance" \in passed'[a] /\ ~Fast,
           stage = "review" => "verifier" \in passed'[a]
    PROVE  Proceeds(a)
  <1>1. /\ ExecOf(a) /\ exec'[a].at = stage
        /\ exec'[a].told = exec[a].told /\ exec'[a].work = exec[a].work
    BY GoesEffect DEF Stages
  <1>2. exec[a].work = 0 /\ RowOffers(a)
    BY DEF GatesBehind
  <1>3. ~Settled(a) /\ exec[a].at \notin {"idle", "begin"}
    BY DEF Settled, Stages, CoderStages
  <1>4. PassedBy(a)
    BY DEF PassedBy
  <1>5. RowOffers(a)'
    BY <1>1, <1>2, <1>3, <1>4, RowOffersStays
  <1>6. GatesBehind(a)'
    BY <1>1, <1>2, <1>5 DEF GatesBehind, At, CoderStages
  <1>7. exec[a] # Idle
    BY <1>3, IdleAt
  <1>8. exec'[a].at \notin {"idle", "begin", "prepare", "return"}
    BY <1>1 DEF CoderStages
  <1>9. QED
    BY <1>1, <1>3, <1>4, <1>6, <1>7, <1>8 DEF Proceeds

(* A coder's attempt is accepted: it has passed its last gate. *)
LEMMA AcceptProceeds ==
    ASSUME ATypeOK, NEW a \in Attempt, GatesBehind(a), exec[a].at \in CoderStages,
           NEW ev \in Verdict \cup {""}, NEW rv \in Verdict \cup {""},
           PersistAccepted(a, ev, rv), NEW gate \in Gates, Credit(a, gate),
           Required \cup {"acceptance"} \subseteq passed[a] \cup {gate},
           ev = "PASS" => "verifier" \in passed[a] \cup {gate}
    PROVE  Proceeds(a)
  <1>1. /\ ExecOf(a) /\ exec'[a].at = "return" /\ exec'[a].answer = "accepted"
        /\ exec'[a].told = exec[a].told /\ exec'[a].work = exec[a].work
    BY AnswerEffect DEF PersistAccepted, Answers
  <1>2. /\ passed' \in [Attempt -> SUBSET Gates]
        /\ \A v \in Attempt : passed[v] \subseteq passed'[v]
        /\ passed'[a] = passed[a] \cup {gate}
    BY CreditEffect
  <1>3. exec[a].work = 0 /\ RowOffers(a)
    BY DEF GatesBehind
  <1>4. exec[a].at \in Stages /\ ~Settled(a) /\ exec[a].at \notin {"idle", "begin"}
    BY DEF Settled, Stages, CoderStages
  <1>5. PassedBy(a)
    BY <1>2 DEF PassedBy
  <1>6. Settled(a)'
    BY <1>1 DEF Settled, Stages, CoderStages
  <1>7. RowOf(a) /\ RowOffers(a)' /\ row'[a].status \in {"accepted", row[a].status}
    <2>1. CASE row' = row
      BY <1>1, <1>3, <1>4, <1>5, <2>1, RowOffersStays DEF RowOf, ATypeOK
    <2>2. CASE row' = [row EXCEPT ![a] = AcceptedRow(row[a], a, ev, rv)]
      <3>1. RowOf(a) /\ row'[a].status = "accepted" /\ row'[a].work = a /\ row'[a].ev = ev
        BY <2>2, AttemptNumber, AcceptedRowEffect
      <3>2. Cleared(a, {"acceptance"})' /\ (ev = "PASS" => "verifier" \in passed'[a])
        BY <1>2, <1>6 DEF Cleared
      <3>3. RowOffers(a)'
        BY <3>1, <3>2 DEF RowOffers
      <3>4. QED
        BY <3>1, <3>3
    <2>3. QED
      BY <2>1, <2>2 DEF PersistAccepted, Writes, AcceptedRow
  <1>8. GatesBehind(a)'
    <2>1. WorkOf(a)' = a
      BY <1>1, <1>3 DEF WorkOf
    <2>2. Cleared(a, Required)'
      BY <1>2, <1>6 DEF Cleared, Required
    <2>3. QED
      BY <1>1, <1>7, <2>1, <2>2 DEF GatesBehind, At, CoderStages
  <1>9. exec[a] # Idle
    BY <1>4, IdleAt
  <1>10. marker' = marker /\ marker' \in Rerunnable \cup {""} /\ tree' \subseteq Attempt
         /\ UNCHANGED packet
    BY DEF PersistAccepted, ATypeOK
  <1>11. exec'[a].at \notin Stages \cup {"idle", "begin", "prepare"}
         /\ exec'[a].at \notin CoderStages
    BY <1>1 DEF Stages, CoderStages
  <1>12. QED
    BY <1>1, <1>4, <1>5, <1>7, <1>8, <1>9, <1>10, <1>11 DEF Proceeds

LEMMA PrepareProceeds ==
    ASSUME ATypeOK, NEW a \in Attempt, GatesBehind(a), Prepare(a)
    PROVE  Proceeds(a)
  <1>1. exec[a].at = "prepare" /\ exec[a].at \in Stages
    BY DEF Prepare, At, Stages
  <1>2. CASE FastReject(a)
    BY <1>1, <1>2, FastRejectProceeds
  <1>3. CASE ~FastReject(a)
    <2>1. /\ UNCHANGED <<packet, row, tree, passed>>
          /\ \/ Consumes(a) /\ marker' = "" /\ Goes(a, "rerun")
             \/ ~Consumes(a) /\ marker' = marker /\ Goes(a, "agent")
      BY <1>3 DEF Prepare
    <2>2. RowOf(a) /\ tree' \subseteq Attempt /\ marker' \in Rerunnable \cup {""}
          /\ passed' \in [Attempt -> SUBSET Gates]
      BY <2>1 DEF RowOf, ATypeOK
    <2>3. QED
      BY <1>1, <2>1, <2>2, AdvanceProceeds DEF CoderStages
  <1>4. QED
    BY <1>2, <1>3

LEMMA AgentDoneProceeds ==
    ASSUME ATypeOK, NEW a \in Attempt, GatesBehind(a), AgentDone(a)
    PROVE  Proceeds(a)
  <1>1. /\ exec[a].at = "agent" /\ Goes(a, "inspect")
        /\ UNCHANGED <<packet, marker, passed>>
        /\ \/ tree' = tree \cup {a} /\ row' = [row EXCEPT ![a].base = TRUE]
           \/ UNCHANGED <<tree, row>>
    BY DEF AgentDone, At
  <1>2. /\ RowOf(a) /\ row'[a].status = row[a].status
        /\ row'[a].evidence = row[a].evidence /\ row'[a].work = row[a].work
        /\ row'[a].ev = row[a].ev
    <2>1. row \in [Attempt -> RunRow] /\ row[a] \in RunRow
      BY DEF ATypeOK
    <2>2. CASE row' = row
      BY <2>1, <2>2 DEF RowOf
    <2>3. CASE row' = [row EXCEPT ![a].base = TRUE]
      <3> DEFINE r == [row[a] EXCEPT !.base = TRUE]
      <3>1. row' = [row EXCEPT ![a] = r]
        BY <2>1, <2>3
      <3>2. /\ r \in RunRow /\ r.status = row[a].status /\ r.evidence = row[a].evidence
            /\ r.work = row[a].work /\ r.ev = row[a].ev
        BY <2>1 DEF RunRow
      <3> HIDE DEF r
      <3>3. QED
        BY <2>1, <3>1, <3>2 DEF RowOf
    <2>4. QED
      BY <1>1, <2>2, <2>3
  <1>3. tree' \subseteq Attempt /\ marker' \in Rerunnable \cup {""}
        /\ passed' \in [Attempt -> SUBSET Gates]
    BY <1>1 DEF ATypeOK
  <1>4. QED
    BY <1>1, <1>2, <1>3, AdvanceProceeds DEF CoderStages, Stages

LEMMA InspectProceeds ==
    ASSUME ATypeOK, NEW a \in Attempt, GatesBehind(a), Inspect(a)
    PROVE  Proceeds(a)
  <1>1. exec[a].at = "inspect" /\ exec[a].at \in CoderStages /\ exec[a].at \in Stages
    BY DEF Inspect, At, Stages, CoderStages
  <1>2. CASE FastReject(a)
    BY <1>1, <1>2, FastRejectProceeds
  <1>3. CASE ~FastReject(a)
    <2>1. Goes(a, "acceptance") /\ UNCHANGED <<packet, marker, row, tree, passed>>
      BY <1>3 DEF Inspect
    <2>2. RowOf(a) /\ tree' \subseteq Attempt /\ marker' \in Rerunnable \cup {""}
          /\ passed' \in [Attempt -> SUBSET Gates]
      BY <2>1 DEF RowOf, ATypeOK
    <2>3. "acceptance" \in CoderStages
      BY DEF CoderStages
    <2>4. UNCHANGED packet /\ marker' = marker /\ row' = row /\ passed' = passed
      BY <2>1
    <2>5. QED
      BY <1>1, <2>1, <2>2, <2>3, <2>4, AdvanceProceeds
  <1>4. QED
    BY <1>2, <1>3

LEMMA AcceptanceProceeds ==
    ASSUME ATypeOK, NEW a \in Attempt, GatesBehind(a), Acceptance(a)
    PROVE  Proceeds(a)
  <1>1. exec[a].at = "acceptance" /\ exec[a].at \in CoderStages /\ exec[a].at \in Stages
    BY DEF Acceptance, At, Stages, CoderStages
  <1>2. ASSUME NEW ev \in Verdict \cup {""}, PersistRejected(a, "rejected", ev, Rework),
               NEW answer \in Rejections, Fails(a, answer)
        PROVE  Proceeds(a)
    BY <1>1, <1>2, Skipped, RefusalProceeds DEF Rejections, Answers
  <1>3. ASSUME ~Fast, Goes(a, "verify"), Credit(a, "acceptance"),
               UNCHANGED <<packet, marker, row, tree>>
        PROVE  Proceeds(a)
    <2>1. /\ passed' \in [Attempt -> SUBSET Gates]
          /\ \A v \in Attempt : passed[v] \subseteq passed'[v]
          /\ passed'[a] = passed[a] \cup {"acceptance"}
      BY <1>3, CreditEffect DEF Gates
    <2>2. RowOf(a) /\ tree' \subseteq Attempt /\ marker' \in Rerunnable \cup {""}
      BY <1>3 DEF RowOf, ATypeOK
    <2>3. QED
      BY <1>1, <1>3, <2>1, <2>2, AdvanceProceeds DEF CoderStages
  <1>4. ASSUME Fast, PersistAccepted(a, Rework, Rework), Credit(a, "acceptance")
        PROVE  Proceeds(a)
    <2>1. Required = {"acceptance"} /\ Rework # "PASS" /\ "acceptance" \in Gates
      BY <1>4 DEF Required, Rework, Gates
    <2>2. QED
      BY <1>1, <1>4, <2>1, Skipped, AcceptProceeds
  <1>5. QED
    <2>1. (IF SkipsVerifier(a) THEN {Rework} ELSE Verdict) \subseteq Verdict \cup {""}
      BY Skipped
    <2>2. QED
      BY <1>2, <1>3, <1>4, <2>1 DEF Acceptance

LEMMA RefusedProceeds ==
    ASSUME ATypeOK, NEW a \in Attempt, GatesBehind(a), exec[a].at \in Stages,
           NEW verdict, NEW ev \in Verdict \cup {""}, NEW rv \in Verdict \cup {""},
           Refused(a, verdict, ev, rv)
    PROVE  Proceeds(a)
  <1>1. CASE /\ PersistRejected(a, "rejected", ev, rv)
             /\ \E answer \in Rejections : Fails(a, answer)
    BY <1>1, RefusalProceeds DEF Rejections, Answers
  <1>2. CASE PersistRejected(a, "blocked", ev, rv) /\ Fails(a, "blocked")
    BY <1>2, RefusalProceeds DEF Answers
  <1>3. QED
    BY <1>1, <1>2 DEF Refused

LEMMA VerifyProceeds ==
    ASSUME ATypeOK, NEW a \in Attempt, GatesBehind(a), Verify(a)
    PROVE  Proceeds(a)
  <1>1. exec[a].at = "verify" /\ exec[a].at \in CoderStages /\ exec[a].at \in Stages
    BY DEF Verify, At, Stages, CoderStages
  <1>2. ASSUME Goes(a, "review"), Credit(a, "verifier"),
               UNCHANGED <<packet, marker, row, tree>>
        PROVE  Proceeds(a)
    <2>1. /\ passed' \in [Attempt -> SUBSET Gates]
          /\ \A v \in Attempt : passed[v] \subseteq passed'[v]
          /\ passed'[a] = passed[a] \cup {"verifier"}
      BY <1>2, CreditEffect DEF Gates
    <2>2. "acceptance" \in passed[a] /\ ~Fast
      BY <1>1 DEF GatesBehind
    <2>3. RowOf(a) /\ tree' \subseteq Attempt /\ marker' \in Rerunnable \cup {""}
      BY <1>2 DEF RowOf, ATypeOK
    <2>4. QED
      BY <1>1, <1>2, <2>1, <2>2, <2>3, AdvanceProceeds DEF CoderStages
  <1>3. ASSUME NEW ev \in {Rework, Return}, Refused(a, ev, ev, Rework)
        PROVE  Proceeds(a)
    BY <1>1, <1>3, Skipped, RefusedProceeds
  <1>4. QED
    BY <1>2, <1>3 DEF Verify

LEMMA ReviewProceeds ==
    ASSUME ATypeOK, NEW a \in Attempt, GatesBehind(a), Review(a)
    PROVE  Proceeds(a)
  <1>1. exec[a].at = "review" /\ exec[a].at \in CoderStages /\ exec[a].at \in Stages
    BY DEF Review, At, Stages, CoderStages
  <1>2. "PASS" \in Verdict \cup {""}
    BY DEF Verdict
  <1>3. ASSUME PersistAccepted(a, "PASS", "PASS"), Credit(a, "reviewer")
        PROVE  Proceeds(a)
    <2>1. {"acceptance", "verifier"} \subseteq passed[a]
      BY <1>1 DEF GatesBehind, At
    <2>2. "reviewer" \in Gates /\ Required \subseteq {"acceptance", "verifier", "reviewer"}
      BY DEF Gates, Required
    <2>3. QED
      BY <1>1, <1>2, <1>3, <2>1, <2>2, AcceptProceeds
  <1>4. ASSUME NEW rv \in {Rework, Return}, Refused(a, rv, "PASS", rv)
        PROVE  Proceeds(a)
    BY <1>1, <1>2, <1>4, Skipped, RefusedProceeds
  <1>5. QED
    BY <1>3, <1>4 DEF Review

LEMMA TimeoutProceeds ==
    ASSUME ATypeOK, NEW a \in Attempt, GatesBehind(a), Timeout(a)
    PROVE  Proceeds(a)
  <1>1. exec[a].at \in Stages /\ Fails(a, "timeout") /\ "timeout" \in Answers
    BY DEF Timeout, At, Stages, CoderStages, Answers
  <1>2. UNCHANGED <<packet, marker, row, tree>>
    BY DEF Timeout
  <1>3. RowOf(a) /\ tree' \subseteq Attempt
    BY <1>2 DEF RowOf, ATypeOK
  <1>4. RowOffers(a)'
    <2>1. ExecOf(a) /\ PassedBy(a) /\ ~Settled(a)
      BY <1>1, FailsEffect DEF PassedBy, Settled
    <2>2. RowOffers(a)
      BY DEF GatesBehind
    <2>3. QED
      BY <1>2, <2>1, <2>2, RowOffersStays
  <1>5. QED
    BY <1>1, <1>2, <1>3, <1>4, FailsProceeds

LEMMA RaiseProceeds ==
    ASSUME ATypeOK, NEW a \in Attempt, GatesBehind(a), Raise(a)
    PROVE  Proceeds(a)
  <1>1. exec[a].at \in Stages /\ Fails(a, "error") /\ "error" \in Answers
    BY DEF Raise, Answers
  <1>2. row' = [row EXCEPT ![a].status = "failed"] /\ UNCHANGED <<packet, marker, tree>>
    BY DEF Raise
  <1>3. /\ RowOf(a) /\ row'[a].evidence = row[a].evidence
        /\ row'[a].work = row[a].work /\ row'[a].ev = row[a].ev
    BY <1>2, StatusEffect
  <1>4. RowOffers(a)'
    <2>1. ExecOf(a) /\ PassedBy(a) /\ ~Settled(a)
      BY <1>1, FailsEffect DEF PassedBy, Settled
    <2>2. RowOffers(a)
      BY DEF GatesBehind
    <2>3. QED
      BY <1>3, <2>1, <2>2, RowOffersStays
  <1>5. tree' \subseteq Attempt
    BY <1>2 DEF ATypeOK
  <1>6. QED
    BY <1>1, <1>2, <1>3, <1>4, <1>5, FailsProceeds

(* The cycle ends. *)
LEMMA EndsProceeds ==
    ASSUME ATypeOK, NEW a \in Attempt, GatesBehind(a),
           exec[a].at \notin {"idle", "gone"}, Ends(a), PassedBy(a), row' = row,
           UNCHANGED packet \/ PacketMoves, UNCHANGED <<marker, tree>>
    PROVE  Proceeds(a)
  <1>1. /\ ExecOf(a) /\ exec'[a].at = "gone" /\ exec'[a].told = ""
        /\ exec'[a].work = exec[a].work
    BY EndsEffect
  <1>2. Settled(a)'
    BY <1>1 DEF Settled, Stages, CoderStages
  <1>3. RowOf(a) /\ marker' \in Rerunnable \cup {""} /\ tree' \subseteq Attempt
    BY DEF RowOf, ATypeOK
  <1>4. RowOffers(a)'
    BY <1>1, <1>2, RowOffersStays DEF GatesBehind
  <1>5. GatesBehind(a)'
    BY <1>1, <1>4 DEF GatesBehind, At, CoderStages
  <1>6. exec[a] # Idle
    BY IdleAt
  <1>7. exec'[a].at \notin Stages \cup CoderStages \cup {"idle", "begin", "prepare", "return"}
    BY <1>1 DEF Stages, CoderStages
  <1>8. QED
    BY <1>1, <1>2, <1>3, <1>5, <1>6, <1>7 DEF Proceeds

LEMMA EndsAndMoves ==
    ASSUME ATypeOK, NEW a \in Attempt, GatesBehind(a),
           exec[a].at \in {"return", "merge", "retry", "apply"}, Ends(a), PacketMoves,
           UNCHANGED <<marker, row, tree, passed>>
    PROVE  Proceeds(a)
  <1>1. PassedBy(a)
    BY DEF PassedBy, ATypeOK
  <1>2. QED
    BY <1>1, EndsProceeds

LEMMA CrashProceeds ==
    ASSUME ATypeOK, NEW a \in Attempt, GatesBehind(a), Crash(a)
    PROVE  Proceeds(a)
  <1>1. /\ exec[a].at \notin {"idle", "gone"} /\ Ends(a)
        /\ row' = row /\ UNCHANGED packet /\ UNCHANGED <<marker, tree>>
    BY DEF Crash
  <1>2. PassedBy(a)
    <2>1. passed \in [Attempt -> SUBSET Gates]
      BY DEF ATypeOK
    <2>2. CASE exec[a].at \in CoderStages
      <3>1. ~Settled(a)
        BY <2>2 DEF Settled, Stages
      <3>2. passed' = [passed EXCEPT ![a] = {}]
        BY <2>2 DEF Crash
      <3>3. QED
        BY <2>1, <3>1, <3>2 DEF PassedBy
    <2>3. CASE exec[a].at \notin CoderStages
      BY <2>1, <2>3 DEF Crash, PassedBy
    <2>4. QED
      BY <2>2, <2>3
  <1>3. QED
    BY <1>1, <1>2, EndsProceeds

LEMMA DecideType == ASSUME NEW a PROVE Decide(a) \in Decisions
  BY DEF Decide, CoderDecision, Decisions

LEMMA ReadSignalProceeds ==
    ASSUME ATypeOK, NEW a \in Attempt, GatesBehind(a), ReadSignal(a)
    PROVE  Proceeds(a)
  <1>1. exec[a].at = "recover" /\ UNCHANGED <<packet, marker, row, tree, passed>>
    BY DEF ReadSignal, At
  <1>2. PassedBy(a)
    BY <1>1 DEF PassedBy, ATypeOK
  <1>3. CASE Ends(a)
    BY <1>1, <1>2, <1>3, EndsProceeds
  <1>4. ASSUME NEW d \in {Decide(a), "block"},
               exec' = [exec EXCEPT ![a].at = "apply", ![a].answer = d]
        PROVE  Proceeds(a)
    <2>1. d \in Decisions
      BY <1>4, DecideType DEF Decisions
    <2>2. exec \in [Attempt -> ExecRecord] /\ exec[a] \in ExecRecord
      BY DEF ATypeOK
    <2> DEFINE e == [exec[a] EXCEPT !.at = "apply", !.answer = d]
    <2>3. exec' = [exec EXCEPT ![a] = e]
      BY <1>4, <2>2
    <2>4. /\ e \in ExecRecord /\ e.at = "apply" /\ e.told = exec[a].told
          /\ e.work = exec[a].work
      BY <2>1, <2>2 DEF ExecRecord
    <2> HIDE DEF e
    <2>5. /\ ExecOf(a) /\ exec'[a].at = "apply" /\ exec'[a].told = exec[a].told
          /\ exec'[a].work = exec[a].work
      BY <2>2, <2>3, <2>4 DEF ExecOf
    <2>6. Settled(a)'
      BY <2>5 DEF Settled, Stages, CoderStages
    <2>7. RowOf(a) /\ marker' \in Rerunnable \cup {""} /\ tree' \subseteq Attempt
      BY <1>1 DEF RowOf, ATypeOK
    <2>8. RowOffers(a)'
      BY <1>1, <1>2, <2>5, <2>6, RowOffersStays DEF GatesBehind
    <2>9. GatesBehind(a)'
      BY <2>5, <2>8 DEF GatesBehind, At, CoderStages
    <2>10. exec[a] # Idle
      BY <1>1, IdleAt
    <2>11. exec'[a].at \notin Stages \cup CoderStages \cup {"idle", "begin", "prepare", "return"}
      BY <2>5 DEF Stages, CoderStages
    <2>12. QED
      BY <1>1, <1>2, <2>5, <2>6, <2>7, <2>9, <2>10, <2>11 DEF Proceeds
  <1>5. QED
    BY <1>3, <1>4 DEF ReadSignal

(* A rerun that is refused offers no more than the work it judged. *)
LEMMA RerunRefusedProceeds ==
    ASSUME ATypeOK, NEW a \in Attempt, exec[a].at \in {"rerun", "reverify", "rereview"},
           NEW work \in 0..MaxAttempt,
           NEW ev \in Verdict \cup {""}, NEW rv \in Verdict \cup {""},
           work # 0 => /\ Cleared(work, {"acceptance"})
                       /\ ev = "PASS" => "verifier" \in passed[work],
           RerunRefused(a, work, ev, rv)
    PROVE  Proceeds(a)
  <1>1. PICK answer \in Rejections : Fails(a, answer)
    BY DEF RerunRefused
  <1>2. answer \in Answers \ {"accepted"} /\ exec[a].at \in Stages /\ ~Settled(a)
    BY <1>1 DEF Rejections, Answers, Stages, Settled
  <1>3. /\ ExecOf(a) /\ PassedBy(a)
        /\ \A w \in Attempt : w # a => passed'[w] = passed[w]
    BY <1>1, <1>2, FailsEffect DEF PassedBy
  <1>4. /\ SetsRow(a, RerunRow(row[a], "rejected", work, ev, rv))
        /\ UNCHANGED <<packet, marker, tree>>
    <2>1. row \in [Attempt -> RunRow]
      BY DEF ATypeOK
    <2>2. QED
      BY <2>1 DEF RerunRefused, PersistRerun, RerunRow, SetsRow
  <1>5. RowOf(a) /\ row'[a].work = work /\ row'[a].ev = ev
    BY <1>4, RerunRowEffect
  <1>6. RowOffers(a)'
    <2>1. CASE work = 0
      BY <1>5, <2>1 DEF RowOffers
    <2>2. CASE work # 0
      <3>1. work \in Attempt
        BY <2>2, NonZeroAttempt
      <3>2. Cleared(work, {"acceptance"})'
        BY <1>2, <1>3, <2>2, <3>1, ClearedStays
      <3>3. work # a
        BY <1>2, <2>2 DEF Cleared
      <3>4. QED
        BY <1>3, <1>5, <2>2, <3>1, <3>2, <3>3 DEF RowOffers
    <2>3. QED
      BY <2>1, <2>2
  <1>7. tree' \subseteq Attempt
    BY <1>4 DEF ATypeOK
  <1>8. QED
    BY <1>1, <1>2, <1>4, <1>5, <1>6, <1>7, FailsProceeds

LEMMA NoReport == "" \in Verdict \cup {""} /\ "" # "PASS"
  OBVIOUS

LEMMA RerunProceeds ==
    ASSUME ATypeOK, NEW a \in Attempt, \A b \in Attempt : GatesBehind(b), Rerun(a)
    PROVE  Proceeds(a)
  <1>1. exec[a].at = "rerun" /\ ~Settled(a) /\ exec[a].at \in Stages
    BY DEF Rerun, At, Settled, Stages
  <1>2. ASSUME RerunRefused(a, 0, "", "")
        PROVE  Proceeds(a)
    BY <1>1, <1>2, NoReport, AttemptNumber, RerunRefusedProceeds
  <1>3. ASSUME NEW b \in Source(a)
        PROVE  \E w \in Attempt :
                  /\ w = row[b].work /\ Cleared(w, {"acceptance"})
                  /\ row[b].ev = "PASS" => "verifier" \in passed[w]
    <2>1. b \in Attempt /\ row[b].evidence /\ row[b].work \in tree
      BY <1>3 DEF Source, EarlierRuns, Usable
    <2>2. row[b].work \in Attempt /\ row[b].work # 0
      BY <2>1, NotZero DEF ATypeOK
    <2>3. QED
      BY <2>1, <2>2 DEF GatesBehind, RowOffers
  <1>4. ASSUME NEW b \in Source(a), RerunRefused(a, row[b].work, "", "")
        PROVE  Proceeds(a)
    <2>1. PICK w \in Attempt : w = row[b].work /\ Cleared(w, {"acceptance"})
      BY <1>3
    <2>2. w \in 0..MaxAttempt
      BY AttemptNumber
    <2>3. RerunRefused(a, w, "", "")
      BY <1>4, <2>1
    <2>4. QED
      BY <1>1, <2>1, <2>2, <2>3, NoReport, RerunRefusedProceeds
  <1>5. ASSUME NEW b \in Source(a), exec[a].told = "verifier" \/ row[b].ev = "PASS",
               exec' = [exec EXCEPT
                   ![a].at = IF exec[a].told = "verifier" THEN "reverify" ELSE "rereview",
                   ![a].work = row[b].work],
               UNCHANGED <<packet, marker, row, tree, passed>>
        PROVE  Proceeds(a)
    <2>1. PICK w \in Attempt : /\ w = row[b].work /\ Cleared(w, {"acceptance"})
                               /\ row[b].ev = "PASS" => "verifier" \in passed[w]
      BY <1>3
    <2>2. w \in 0..MaxAttempt /\ w # 0
      BY ConstantsOK DEF Attempt
    <2>3. PICK stage \in {"reverify", "rereview"} :
             stage = IF exec[a].told = "verifier" THEN "reverify" ELSE "rereview"
      OBVIOUS
    <2>4. exec \in [Attempt -> ExecRecord] /\ exec[a] \in ExecRecord
      BY DEF ATypeOK
    <2> DEFINE e == [exec[a] EXCEPT !.at = stage, !.work = w]
    <2>5. exec' = [exec EXCEPT ![a] = e]
      BY <1>5, <2>1, <2>3, <2>4
    <2>6. e \in ExecRecord /\ e.at = stage /\ e.told = exec[a].told /\ e.work = w
      BY <2>2, <2>4 DEF ExecRecord, Stages
    <2> HIDE DEF e
    <2>7. /\ ExecOf(a) /\ exec'[a].at = stage /\ exec'[a].told = exec[a].told
          /\ exec'[a].work = w
      BY <2>4, <2>5, <2>6 DEF ExecOf
    <2>8. RowOf(a) /\ PassedBy(a) /\ marker' \in Rerunnable \cup {""} /\ tree' \subseteq Attempt
      BY <1>5 DEF RowOf, PassedBy, ATypeOK
    <2>9. RowOffers(a)'
      BY <1>1, <1>5, <2>7, <2>8, RowOffersStays DEF GatesBehind
    <2>10. Cleared(w, {"acceptance"})'
      BY <1>1, <2>1, <2>7, <2>8, ClearedStays
    <2>11. stage = "rereview" => "verifier" \in passed'[w]
      BY <1>5, <2>1, <2>3
    <2>12. GatesBehind(a)'
      BY <2>2, <2>3, <2>7, <2>9, <2>10, <2>11 DEF GatesBehind, At, CoderStages
    <2>13. exec[a] # Idle
      BY <1>1, IdleAt
    <2>14. exec'[a].at \notin CoderStages \cup {"idle", "begin", "prepare", "return"}
      BY <2>3, <2>7 DEF CoderStages
    <2>15. QED
      BY <1>1, <1>5, <2>7, <2>8, <2>12, <2>13, <2>14 DEF Proceeds
  <1>6. QED
    BY <1>2, <1>4, <1>5 DEF Rerun

LEMMA ReverifyProceeds ==
    ASSUME ATypeOK, NEW a \in Attempt, GatesBehind(a), Reverify(a)
    PROVE  Proceeds(a)
  <1>1. exec[a].at = "reverify" /\ ~Settled(a) /\ exec[a].at \in Stages
    BY DEF Reverify, At, Settled, Stages
  <1>2. exec \in [Attempt -> ExecRecord] /\ exec[a] \in ExecRecord
    BY DEF ATypeOK
  <1>3. PICK w \in Attempt : w = exec[a].work /\ Cleared(w, {"acceptance"})
    <2>1. exec[a].work \in 0..MaxAttempt
      BY <1>2 DEF ExecRecord
    <2>2. QED
      BY <1>1, <2>1, ConstantsOK DEF GatesBehind, Attempt
  <1>4. w \in 0..MaxAttempt /\ w # 0
    BY ConstantsOK DEF Attempt
  <1>5. ASSUME NEW ev \in {Rework, Return, ""}, RerunRefused(a, exec[a].work, ev, "")
        PROVE  Proceeds(a)
    <2>1. ev \in Verdict \cup {""} /\ ev # "PASS"
      BY Skipped DEF Rework, Return
    <2>2. RerunRefused(a, w, ev, "")
      BY <1>3, <1>5
    <2>3. QED
      BY <1>1, <1>3, <1>4, <2>1, <2>2, NoReport, RerunRefusedProceeds
  <1>6. ASSUME exec' = [exec EXCEPT ![a].at = "rereview", ![a].ev = "PASS"],
               Credit(exec[a].work, "verifier"), UNCHANGED <<packet, marker, row, tree>>
        PROVE  Proceeds(a)
    <2> DEFINE e == [exec[a] EXCEPT !.at = "rereview", !.ev = "PASS"]
    <2>1. exec' = [exec EXCEPT ![a] = e]
      BY <1>2, <1>6
    <2>2. e \in ExecRecord /\ e.at = "rereview" /\ e.told = exec[a].told /\ e.work = w
      BY <1>2, <1>3 DEF ExecRecord, Stages, Verdict
    <2> HIDE DEF e
    <2>3. /\ ExecOf(a) /\ exec'[a].at = "rereview" /\ exec'[a].told = exec[a].told
          /\ exec'[a].work = w
      BY <1>2, <2>1, <2>2 DEF ExecOf
    <2>4. /\ passed' \in [Attempt -> SUBSET Gates]
          /\ \A v \in Attempt : passed[v] \subseteq passed'[v]
          /\ passed'[w] = passed[w] \cup {"verifier"}
      <3>1. Credit(w, "verifier") /\ "verifier" \in Gates
        BY <1>3, <1>6 DEF Gates
      <3>2. QED
        BY <3>1, CreditEffect
    <2>5. RowOf(a) /\ PassedBy(a) /\ marker' \in Rerunnable \cup {""} /\ tree' \subseteq Attempt
      BY <1>6, <2>4 DEF RowOf, PassedBy, ATypeOK
    <2>6. RowOffers(a)'
      BY <1>1, <1>6, <2>3, <2>5, RowOffersStays DEF GatesBehind
    <2>7. Cleared(w, {"acceptance"})'
      BY <1>1, <1>3, <2>3, <2>5, ClearedStays
    <2>8. GatesBehind(a)'
      BY <1>4, <2>3, <2>4, <2>6, <2>7 DEF GatesBehind, At, CoderStages
    <2>9. exec[a] # Idle
      BY <1>1, IdleAt
    <2>10. exec'[a].at \notin CoderStages \cup {"idle", "begin", "prepare", "return"}
      BY <2>3 DEF CoderStages
    <2>11. QED
      BY <1>1, <1>6, <2>3, <2>5, <2>8, <2>9, <2>10 DEF Proceeds
  <1>7. QED
    BY <1>5, <1>6 DEF Reverify

LEMMA RereviewProceeds ==
    ASSUME ATypeOK, NEW a \in Attempt, GatesBehind(a), Rereview(a)
    PROVE  Proceeds(a)
  <1>1. exec[a].at = "rereview" /\ ~Settled(a) /\ exec[a].at \in Stages
    BY DEF Rereview, At, Settled, Stages
  <1>2. exec[a] \in ExecRecord
    BY DEF ATypeOK
  <1>3. PICK w \in Attempt : /\ w = exec[a].work /\ Cleared(w, {"acceptance"})
                             /\ "verifier" \in passed[w]
    <2>1. exec[a].work \in 0..MaxAttempt
      BY <1>2 DEF ExecRecord
    <2>2. QED
      BY <1>1, <2>1, ConstantsOK DEF GatesBehind, At, Attempt
  <1>4. w \in 0..MaxAttempt /\ w # 0 /\ w # a
    BY <1>1, <1>3, ConstantsOK DEF Attempt, Cleared
  <1>5. PICK ev \in Verdict \cup {""} : ev = exec[a].ev
    BY <1>2 DEF ExecRecord
  <1>6. ASSUME NEW ev2 \in {ev, ""}, NEW rv \in {Rework, Return, ""},
               RerunRefused(a, exec[a].work, ev2, rv)
        PROVE  Proceeds(a)
    <2>1. ev2 \in Verdict \cup {""} /\ rv \in Verdict \cup {""}
      BY Skipped
    <2>2. RerunRefused(a, w, ev2, rv)
      BY <1>3, <1>6
    <2>3. QED
      BY <1>1, <1>3, <1>4, <2>1, <2>2, RerunRefusedProceeds
  <1>7. ASSUME PersistRerun(a, "accepted", exec[a].work, exec[a].ev, "PASS"),
               Answer(a, "accepted"), Credit(exec[a].work, "reviewer")
        PROVE  Proceeds(a)
    <2>1. /\ ExecOf(a) /\ exec'[a].at = "return" /\ exec'[a].answer = "accepted"
          /\ exec'[a].told = exec[a].told /\ exec'[a].work = w
      BY <1>3, <1>7, AnswerEffect DEF Answers
    <2>2. /\ passed' \in [Attempt -> SUBSET Gates]
          /\ \A v \in Attempt : passed[v] \subseteq passed'[v]
          /\ passed'[w] = passed[w] \cup {"reviewer"}
      <3>1. Credit(w, "reviewer") /\ "reviewer" \in Gates
        BY <1>3, <1>7 DEF Gates
      <3>2. QED
        BY <3>1, CreditEffect
    <2>3. /\ SetsRow(a, RerunRow(row[a], "accepted", w, ev, "PASS"))
          /\ UNCHANGED <<packet, marker, tree>>
      <3>1. row \in [Attempt -> RunRow]
        BY DEF ATypeOK
      <3>2. QED
        BY <1>3, <1>5, <1>7, <3>1 DEF PersistRerun, RerunRow, SetsRow
    <2>4. /\ RowOf(a) /\ row'[a].status = "accepted" /\ row'[a].work = w
      BY <1>4, <2>3, RerunRowEffect DEF Verdict
    <2>5. PassedBy(a) /\ marker' \in Rerunnable \cup {""} /\ tree' \subseteq Attempt
      BY <2>2, <2>3 DEF PassedBy, ATypeOK
    <2>6. Cleared(w, {"acceptance"})'
      BY <1>1, <1>3, <2>1, <2>5, ClearedStays
    <2>7. {"acceptance", "verifier", "reviewer"} \subseteq passed'[w]
      BY <1>3, <2>2, <2>6 DEF Cleared
    <2>8. RowOffers(a)'
      BY <2>4, <2>6, <2>7 DEF RowOffers
    <2>9. Cleared(WorkOf(a), Required)'
      <3>1. WorkOf(a)' = w
        BY <1>4, <2>1 DEF WorkOf
      <3>2. Required \subseteq passed'[w]
        BY <2>7 DEF Required, Gates
      <3>3. QED
        BY <2>6, <3>1, <3>2 DEF Cleared, Required
    <2>10. GatesBehind(a)'
      BY <2>1, <2>8, <2>9 DEF GatesBehind, At, CoderStages
    <2>11. exec[a] # Idle
      BY <1>1, IdleAt
    <2>12. exec'[a].at \notin Stages \cup CoderStages \cup {"idle", "begin", "prepare"}
      BY <2>1 DEF Stages, CoderStages
    <2>13. UNCHANGED packet /\ marker' = marker
      BY <2>3
    <2>14. QED
      BY <1>1, <2>1, <2>4, <2>5, <2>10, <2>11, <2>12, <2>13 DEF Proceeds
  <1>8. QED
    BY <1>5, <1>6, <1>7 DEF Rereview

-----------------------------------------------------------------------------
(* The invariant holds along the steps of the executors. *)
LEMMA ProceedsKeepsTypes ==
    ASSUME AttemptInv, NEW a \in Attempt, Proceeds(a)
    PROVE  ATypeOK'
  <1>1. /\ state \in PacketState /\ count \in 0..MaxAttempt /\ owner \in 0..MaxAttempt
        /\ budget \in 0..(Budget + MaxAttempt + 1)
        /\ \A b \in Attempt : b > count => exec[b] = Idle /\ row[b] = NoRow
    BY DEF AttemptInv, ATypeOK
  <1>2. /\ state' \in PacketState /\ count' = count /\ owner' = owner
        /\ budget' \in 0..(Budget + MaxAttempt + 1)
    BY <1>1 DEF Proceeds, PacketMoves, packet, PacketState
  <1>3. \A b \in Attempt : b > count => exec'[b] = Idle /\ row'[b] = NoRow
    BY <1>1 DEF Proceeds, ExecOf, RowOf
  <1>4. QED
    BY <1>1, <1>2, <1>3 DEF Proceeds, ExecOf, RowOf, PassedBy, ATypeOK

LEMMA ProceedsKeepsOwner ==
    ASSUME AttemptInv, NEW a \in Attempt, Proceeds(a)
    PROVE  OwnerInv'
  <1>1. count' = count /\ owner' = owner
    BY DEF Proceeds, PacketMoves, packet
  <1>2. state' = RUNNING \/ state' = ACCEPTED => state' = state
    BY DEF Proceeds, PacketMoves, packet, RUNNING, ACCEPTED, MERGED
  <1>3. OwnerInv
    BY DEF AttemptInv
  <1>4. ASSUME NEW b \in Attempt, owner # 0, b > owner
        PROVE  exec'[b] = Idle /\ row'[b] = NoRow
    BY <1>3, <1>4 DEF OwnerInv, Proceeds, ExecOf, RowOf
  <1>5. ASSUME NEW b \in Attempt, owner = b, exec'[b].at \in Stages
        PROVE  row'[b].status = "running"
    BY <1>3, <1>5 DEF OwnerInv, Proceeds, ExecOf, RowOf
  <1>6. ASSUME NEW b \in Attempt, owner = b, exec'[b].at = "return",
               exec'[b].answer = "accepted"
        PROVE  row'[b].status \in {"running", "accepted"}
    BY <1>3, <1>6 DEF OwnerInv, At, Proceeds, ExecOf, RowOf
  <1>7. ASSUME NEW b \in Attempt, owner = b, count = b, exec'[b].told # "",
               exec'[b].at \in {"begin", "prepare"}
        PROVE  marker' = exec'[b].told
    <2>1. CASE b = a
      BY <1>3, <1>7, <2>1 DEF OwnerInv, Proceeds
    <2>2. CASE b # a
      <3>1. exec'[b] = exec[b] /\ marker = exec[b].told
        BY <1>3, <1>7, <2>2 DEF OwnerInv, Proceeds, ExecOf
      <3>2. marker' = marker
        BY <1>7, <2>2 DEF Proceeds, Consumes
      <3>3. QED
        BY <3>1, <3>2
    <2>3. QED
      BY <2>1, <2>2
  <1>8. QED
    BY <1>1, <1>2, <1>3, <1>4, <1>5, <1>6, <1>7 DEF OwnerInv, At

LEMMA ProceedsKeepsGates ==
    ASSUME AttemptInv, NEW a \in Attempt, Proceeds(a)
    PROVE  GateInv'
  <1>1. ATypeOK /\ GateInv /\ ExecOf(a) /\ RowOf(a) /\ PassedBy(a)
    BY DEF AttemptInv, Proceeds
  <1>2. Settled(a) => Settled(a)' /\ exec'[a].work = exec[a].work
    BY DEF Proceeds
  <1>3. ASSUME NEW b \in Attempt
        PROVE  GatesBehind(b)'
    <2>1. GatesBehind(b)
      BY <1>1 DEF GateInv
    <2>2. CASE b = a
      BY <2>2 DEF Proceeds
    <2>3. CASE b # a
      BY <1>1, <1>2, <2>1, <2>3, GatesStay DEF RowOf
    <2>4. QED
      BY <2>2, <2>3
  <1>4. ASSUME state' \in {ACCEPTED, MERGED}
        PROVE  owner' # 0 /\ Settled(owner)' /\ Cleared(WorkOf(owner), Required)'
    <2>1. state \in {ACCEPTED, MERGED} /\ owner' = owner
      BY <1>4 DEF Proceeds, PacketMoves, packet
    <2>2. owner # 0 /\ Settled(owner) /\ Cleared(WorkOf(owner), Required)
      BY <1>1, <2>1 DEF GateInv
    <2>3. PICK o \in Attempt : o = owner
      BY <1>1, <2>2, NonZeroAttempt DEF ATypeOK
    <2>4. exec[o].work \in 0..MaxAttempt
      BY <1>1 DEF ATypeOK, ExecRecord
    <2>5. PICK w \in Attempt : w = WorkOf(o)
      BY <2>4, NonZeroAttempt DEF WorkOf
    <2>6. Cleared(w, Required)'
      BY <1>1, <1>2, <2>2, <2>3, <2>5, ClearedStays
    <2>7. exec'[o].work = exec[o].work /\ Settled(o)'
      BY <1>1, <1>2, <2>2, <2>3 DEF ExecOf, Settled
    <2>8. WorkOf(o)' = w
      BY <2>5, <2>7 DEF WorkOf
    <2>9. owner' = o
      BY <2>1, <2>3
    <2>10. WorkOf(owner)' = w /\ Settled(owner)'
      BY <2>7, <2>8, <2>9 DEF WorkOf, Settled
    <2>11. QED
      BY <2>1, <2>2, <2>6, <2>10 DEF Cleared
  <1>5. QED
    BY <1>3, <1>4 DEF GateInv

LEMMA ProceedsKeepsRow ==
    ASSUME AttemptInv, NEW a \in Attempt, Proceeds(a)
    PROVE  LatestRowIsAccepted'
  <1>1. SUFFICES ASSUME state' = ACCEPTED
                 PROVE  /\ LatestRow' = {owner'}
                        /\ row'[owner'].status \in {"accepted", "blocked_recoverable"}
    BY DEF LatestRowIsAccepted
  <1>2. state = ACCEPTED /\ owner' = owner
    BY <1>1 DEF Proceeds, PacketMoves, packet, ACCEPTED, MERGED
  <1>3. /\ owner # 0 /\ Settled(owner)
        /\ \A b \in Attempt : b > owner => exec[b] = Idle /\ row[b] = NoRow
    BY <1>2 DEF AttemptInv, OwnerInv, GateInv
  <1>4. owner \in Attempt
    BY <1>3, NonZeroAttempt DEF AttemptInv, ATypeOK
  <1>5. row[owner].status \in {"accepted", "blocked_recoverable"}
    BY <1>2 DEF AttemptInv, LatestRowIsAccepted
  <1>6. row'[owner] = row[owner]
    BY <1>1, <1>3, <1>4 DEF Proceeds, RowOf
  <1>7. \A b \in Attempt : b > owner => row'[b].status = "none"
    BY <1>3, NoRowStatus DEF Proceeds, RowOf
  <1>8. \A b \in Attempt : row'[b].status # "none" => b <= owner
    BY <1>4, <1>7 DEF Attempt
  <1>9. owner \in LatestRow'
    BY <1>4, <1>5, <1>6, <1>8 DEF LatestRow
  <1>10. \A b \in LatestRow' : b = owner
    BY <1>4, <1>5, <1>6, <1>8 DEF LatestRow, Attempt
  <1>11. QED
    BY <1>2, <1>5, <1>6, <1>9, <1>10

LEMMA ProceedsKeepsRerun ==
    ASSUME AttemptInv, NEW a \in Attempt, Proceeds(a)
    PROVE  RerunLeavesCoder'
  <1>1. count' = count /\ owner' = owner
    BY DEF Proceeds, PacketMoves, packet
  <1>2. SUFFICES ASSUME NEW b \in Attempt, owner = b, exec'[b].told # "",
                        exec'[b].at \in CoderStages
                 PROVE  count # b
    BY <1>1 DEF RerunLeavesCoder
  <1>3. RerunLeavesCoder /\ OwnerInv
    BY DEF AttemptInv
  <1>4. CASE b # a
    BY <1>2, <1>3, <1>4 DEF RerunLeavesCoder, Proceeds, ExecOf
  <1>5. CASE b = a
    <2>1. exec[a].told # ""
      BY <1>2, <1>5 DEF Proceeds
    <2>2. CASE exec[a].at \in CoderStages
      BY <1>2, <1>3, <1>5, <2>1, <2>2 DEF RerunLeavesCoder
    <2>3. CASE exec[a].at = "prepare" /\ ~Consumes(a)
      BY <1>2, <1>3, <1>5, <2>1, <2>3 DEF OwnerInv, Consumes
    <2>4. QED
      BY <1>2, <1>5, <2>2, <2>3 DEF Proceeds
  <1>6. QED
    BY <1>4, <1>5

LEMMA ProceedsKeeps ==
    ASSUME AttemptInv, NEW a \in Attempt, Proceeds(a)
    PROVE  AttemptInv'
  BY ProceedsKeepsTypes, ProceedsKeepsOwner, ProceedsKeepsGates, ProceedsKeepsRow,
     ProceedsKeepsRerun DEF AttemptInv

-----------------------------------------------------------------------------
(* The steps of an executor or its worker that move the packet on. *)
LEMMA RetryProceeds ==
    ASSUME AttemptInv, NEW a \in Attempt, Retry(a)
    PROVE  Proceeds(a)
  <1>1. /\ ATypeOK /\ GatesBehind(a) /\ exec[a].at = "retry" /\ Ends(a)
        /\ UNCHANGED <<count, budget, owner, marker, row, tree, passed>>
    BY DEF Retry, At, AttemptInv, GateInv
  <1>2. PacketMoves
    BY <1>1 DEF Retry, PacketMoves, ATypeOK, PacketState, READY, FAILED, RUNNING,
                ACCEPTED, MERGED
  <1>3. QED
    BY <1>1, <1>2, EndsAndMoves

LEMMA ApplyProceeds ==
    ASSUME AttemptInv, NEW a \in Attempt, Apply(a)
    PROVE  Proceeds(a)
  <1>1. /\ ATypeOK /\ GatesBehind(a) /\ exec[a].at = "apply" /\ Ends(a)
        /\ UNCHANGED <<count, owner, marker, row, tree, passed>>
    BY DEF Apply, At, AttemptInv, GateInv
  <1>2. budget' \in 0..(Budget + MaxAttempt + 1)
    <2>1. /\ budget \in 0..(Budget + MaxAttempt + 1) /\ count \in 0..MaxAttempt
          /\ Budget \in Nat /\ MaxAttempt \in Nat
      BY <1>1, ConstantsOK DEF ATypeOK
    <2>2. budget' \in {budget, count + 1}
      BY DEF Apply, Reopen
    <2>3. QED
      BY <2>1, <2>2
  <1>3. state' \in {READY, BLOCKED_FINAL, state}
    BY DEF Apply, Reopen
  <1>4. PacketMoves
    BY <1>1, <1>2, <1>3 DEF PacketMoves, PacketState, READY, BLOCKED_FINAL, RUNNING,
                ACCEPTED, MERGED
  <1>5. QED
    BY <1>1, <1>4, EndsAndMoves

LEMMA MergeProceeds ==
    ASSUME AttemptInv, NEW a \in Attempt, Merge(a)
    PROVE  Proceeds(a)
  <1>1. /\ ATypeOK /\ GatesBehind(a) /\ exec[a].at = "merge" /\ Ends(a)
        /\ UNCHANGED <<count, budget, owner, marker, passed>>
    BY DEF Merge, At, AttemptInv, GateInv
  <1>2. CASE UNCHANGED <<state, row, tree>>
    <2>1. PacketMoves
      BY <1>1, <1>2 DEF PacketMoves, ATypeOK
    <2>2. QED
      BY <1>1, <1>2, <2>1, EndsAndMoves
  <1>3. CASE ~UNCHANGED <<state, row, tree>>
    <2>1. /\ state = ACCEPTED /\ tree' \subseteq Attempt
          /\ \/ state' = MERGED /\ row' = row
             \/ /\ state' = BLOCKED_RECOVERABLE
                /\ row' = [row EXCEPT ![a].status = "blocked_recoverable"]
      BY <1>1, <1>3 DEF Merge, ATypeOK
    <2>2. PacketMoves /\ state' # ACCEPTED
      BY <1>1, <2>1 DEF PacketMoves, ATypeOK, PacketState, BLOCKED_RECOVERABLE, RUNNING,
                ACCEPTED, MERGED
    <2>3. /\ ExecOf(a) /\ exec'[a].at = "gone" /\ exec'[a].told = ""
          /\ exec'[a].work = exec[a].work
      BY <1>1, EndsEffect
    <2>4. Settled(a)'
      BY <2>3 DEF Settled, Stages, CoderStages
    <2>5. PassedBy(a) /\ marker' = marker /\ marker' \in Rerunnable \cup {""}
      BY <1>1 DEF PassedBy, ATypeOK
    <2>6. /\ RowOf(a) /\ row'[a].evidence = row[a].evidence
          /\ row'[a].work = row[a].work /\ row'[a].ev = row[a].ev
      BY <1>1, <2>1, StatusEffect DEF RowOf, ATypeOK
    <2>7. RowOffers(a)'
      BY <1>1, <2>3, <2>4, <2>5, <2>6, RowOffersStays DEF GatesBehind
    <2>8. GatesBehind(a)'
      BY <2>3, <2>7 DEF GatesBehind, At, CoderStages
    <2>9. exec[a] # Idle
      BY <1>1, IdleAt
    <2>10. exec'[a].at \notin Stages \cup CoderStages \cup {"idle", "begin", "prepare", "return"}
      BY <2>3 DEF Stages, CoderStages
    <2>11. QED
      BY <2>1, <2>2, <2>3, <2>4, <2>5, <2>6, <2>8, <2>9, <2>10 DEF Proceeds
  <1>4. QED
    BY <1>2, <1>3

-----------------------------------------------------------------------------
(* The claim. *)
LEMMA CountsType ==
    ASSUME ATypeOK
    PROVE  /\ count \in Nat /\ budget \in Nat /\ owner \in Nat
           /\ count \in 0..MaxAttempt /\ budget \in 0..(Budget + MaxAttempt + 1)
  <1>1. /\ count \in 0..MaxAttempt /\ budget \in 0..(Budget + MaxAttempt + 1)
        /\ owner \in 0..MaxAttempt
    BY DEF ATypeOK
  <1>2. QED
    BY <1>1, ConstantsOK

LEMMA ClaimEffect ==
    ASSUME AttemptInv, NEW a \in Attempt, Claim(a)
    PROVE  /\ exec[a] = Idle /\ row[a] = NoRow /\ ExecOf(a)
           /\ exec'[a].at = "begin" /\ exec'[a].told = marker /\ exec'[a].work = 0
  <1>1. /\ exec \in [Attempt -> ExecRecord] /\ a = count + 1
        /\ marker \in Rerunnable \cup {""} /\ budget \in Nat
        /\ exec[a] = Idle /\ row[a] = NoRow
    <2>1. ATypeOK /\ a = count + 1
      BY DEF AttemptInv, Claim
    <2>2. count \in Nat /\ budget \in Nat
      BY <2>1, CountsType
    <2>3. a > count
      BY <2>1, <2>2
    <2>4. QED
      BY <2>1, <2>2, <2>3 DEF ATypeOK
  <1> DEFINE e == [Idle EXCEPT !.at = "begin", !.told = marker, !.max = budget]
  <1>3. exec' = [exec EXCEPT ![a] = e]
    BY DEF Claim
  <1>4. e \in ExecRecord /\ e.at = "begin" /\ e.told = marker /\ e.work = 0
    BY <1>1, AttemptNumber DEF Idle, ExecRecord, Answers
  <1> HIDE DEF e
  <1>5. QED
    BY <1>1, <1>3, <1>4 DEF ExecOf

LEMMA ClaimKeeps ==
    ASSUME AttemptInv, NEW a \in Attempt, Claim(a)
    PROVE  AttemptInv'
  <1>1. /\ exec[a] = Idle /\ row[a] = NoRow /\ ExecOf(a)
        /\ exec'[a].at = "begin" /\ exec'[a].told = marker /\ exec'[a].work = 0
    BY ClaimEffect
  <1>2. /\ a = count + 1 /\ count' = a /\ owner' = a /\ state' = RUNNING
        /\ UNCHANGED <<budget, marker, row, tree, passed>>
    BY DEF Claim
  <1>3. ATypeOK /\ GateInv /\ count \in Nat /\ a \in 0..MaxAttempt /\ a # 0
    <2>1. ATypeOK /\ GateInv
      BY DEF AttemptInv
    <2>2. QED
      BY <2>1, CountsType, NotZero
  <1>4. \A b \in Attempt : b > a => b # a /\ b > count
    BY <1>2, <1>3 DEF Attempt
  <1>5. \A b \in Attempt : b > a => exec'[b] = Idle /\ row'[b] = NoRow
    BY <1>1, <1>2, <1>3, <1>4 DEF ATypeOK, ExecOf
  <1>6. ATypeOK'
    BY <1>1, <1>2, <1>3, <1>5 DEF ATypeOK, ExecOf, PacketState
  <1>7. OwnerInv'
    <2>1. exec'[a].at \notin Stages /\ exec'[a].at # "return"
      BY <1>1 DEF Stages, CoderStages
    <2>2. owner' <= count'
      BY <1>2, <1>3
    <2>3. QED
      BY <1>1, <1>2, <1>3, <1>5, <2>1, <2>2 DEF OwnerInv, At
  <1>8. GateInv'
    <2>1. PassedBy(a)
      BY <1>2, <1>3 DEF PassedBy, ATypeOK
    <2>2. ~Settled(a)
      BY <1>1, IdleAt DEF Settled
    <2>3. ASSUME NEW b \in Attempt
          PROVE  GatesBehind(b)'
      <3>1. CASE b = a
        <4>1. RowOffers(a)'
          BY <1>1, <1>2, NoRowStatus DEF RowOffers
        <4>2. QED
          BY <1>1, <3>1, <4>1 DEF GatesBehind, At
      <3>2. CASE b # a
        BY <1>1, <1>2, <1>3, <2>1, <2>2, <3>2, GatesStay DEF GateInv
      <3>3. QED
        BY <3>1, <3>2
    <2>4. state' \notin {ACCEPTED, MERGED}
      BY <1>2 DEF RUNNING, ACCEPTED, MERGED
    <2>5. QED
      BY <2>3, <2>4 DEF GateInv
  <1>9. LatestRowIsAccepted'
    BY <1>2 DEF LatestRowIsAccepted, RUNNING, ACCEPTED
  <1>10. RerunLeavesCoder'
    BY <1>1, <1>2 DEF RerunLeavesCoder, CoderStages
  <1>11. QED
    BY <1>6, <1>7, <1>8, <1>9, <1>10 DEF AttemptInv

-----------------------------------------------------------------------------
(* The release. *)
LEMMA OutcomeType ==
    ASSUME NEW a
    PROVE  /\ Outcome(a) \in {"accepted", "rejected", "blocked_recoverable", "failed"}
           /\ Outcome(a) = "accepted" => exec[a].answer = "accepted"
  BY DEF Outcome

LEMMA FollowsEffect ==
    ASSUME ATypeOK, NEW a \in Attempt, NEW status, Follows(a, status)
    PROVE  /\ ExecOf(a) /\ exec'[a].at \in {"merge", "retry", "recover", "gone"}
           /\ exec'[a].work = exec[a].work
  <1>1. CASE Ends(a)
    BY <1>1, EndsEffect
  <1>2. ASSUME NEW stage \in {"merge", "retry", "recover"}, Goes(a, stage)
        PROVE  /\ ExecOf(a) /\ exec'[a].at = stage
               /\ exec'[a].work = exec[a].work
    BY <1>2, GoesEffect
  <1>3. QED
    BY <1>1, <1>2 DEF Follows

LEMMA ReleaseRows ==
    ASSUME ATypeOK, NEW status \in {"accepted", "rejected", "blocked_recoverable", "failed"},
           row' = [b \in Attempt |->
                     IF b \in LatestRow /\ row[b].status = "running"
                     THEN [row[b] EXCEPT !.status = status] ELSE row[b]]
    PROVE  /\ row' \in [Attempt -> RunRow]
           /\ \A b \in Attempt : /\ row'[b].evidence = row[b].evidence
                                  /\ row'[b].work = row[b].work
                                  /\ row'[b].ev = row[b].ev
                                  /\ row[b] = NoRow => row'[b] = NoRow
                                  /\ row'[b].status = IF b \in LatestRow /\ row[b].status = "running"
                                                      THEN status ELSE row[b].status
  <1>1. ASSUME NEW b \in Attempt
        PROVE  /\ row'[b] \in RunRow
               /\ row'[b].evidence = row[b].evidence /\ row'[b].work = row[b].work
               /\ row'[b].ev = row[b].ev
               /\ row[b] = NoRow => row'[b] = NoRow
               /\ row'[b].status = IF b \in LatestRow /\ row[b].status = "running"
                                   THEN status ELSE row[b].status
    <2>1. row[b] \in RunRow
      BY DEF ATypeOK
    <2>2. CASE b \in LatestRow /\ row[b].status = "running"
      <3> DEFINE r == [row[b] EXCEPT !.status = status]
      <3>1. row'[b] = r
        BY <2>2
      <3>2. /\ r \in RunRow /\ r.status = status /\ r.evidence = row[b].evidence
            /\ r.work = row[b].work /\ r.ev = row[b].ev
        BY <2>1 DEF RunRow
      <3>3. row[b] # NoRow
        BY <2>2, NoRowStatus
      <3> HIDE DEF r
      <3>4. QED
        BY <2>2, <3>1, <3>2, <3>3
    <2>3. CASE ~(b \in LatestRow /\ row[b].status = "running")
      <3>1. row'[b] = row[b]
        BY <2>3
      <3>2. QED
        BY <2>1, <2>3, <3>1
    <2>4. QED
      BY <2>2, <2>3
  <1>2. row' = [b \in Attempt |-> row'[b]]
    OBVIOUS
  <1>3. QED
    BY <1>1, <1>2

(* The owner's release.  Its row is the latest, so that an accepted packet   *)
(* finds its own row accepted; any other result gives the packet up.         *)
LEMMA OwnReleaseKeeps ==
    ASSUME AttemptInv, NEW a \in Attempt, exec[a].at = "return", owner = a,
           NEW status \in {"accepted", "rejected", "blocked_recoverable", "failed"},
           status = "accepted" => exec[a].answer = "accepted",
           state' = ReleaseTarget(status),
           owner' = IF status = "accepted" THEN a ELSE 0,
           row' = [b \in Attempt |->
                     IF b \in LatestRow /\ row[b].status = "running"
                     THEN [row[b] EXCEPT !.status = status] ELSE row[b]],
           Follows(a, status), UNCHANGED <<count, budget, marker, tree, passed>>
    PROVE  AttemptInv'
  <1>1. ATypeOK /\ OwnerInv /\ GateInv
    BY DEF AttemptInv
  <1>2. /\ ExecOf(a) /\ exec'[a].at \in {"merge", "retry", "recover", "gone"}
        /\ exec'[a].work = exec[a].work
    BY <1>1, FollowsEffect
  <1>3. /\ row' \in [Attempt -> RunRow]
        /\ \A b \in Attempt : /\ row'[b].evidence = row[b].evidence
                               /\ row'[b].work = row[b].work
                               /\ row'[b].ev = row[b].ev
                               /\ row[b] = NoRow => row'[b] = NoRow
                               /\ row'[b].status = IF b \in LatestRow /\ row[b].status = "running"
                                                   THEN status ELSE row[b].status
    BY <1>1, ReleaseRows
  <1>4. /\ state' \in PacketState \ {RUNNING, MERGED}
        /\ state' = ACCEPTED => status = "accepted"
    BY DEF ReleaseTarget, PacketState, ACCEPTED, REJECTED, BLOCKED_RECOVERABLE, FAILED,
           RUNNING, MERGED
  <1>5. a # 0 /\ a \in 0..MaxAttempt /\ 0 \in 0..MaxAttempt
    BY NotZero, AttemptNumber
  <1>6. \A b \in Attempt : b > a => exec'[b] = Idle /\ row'[b] = NoRow
    <2>1. SUFFICES ASSUME NEW b \in Attempt, b > a PROVE exec'[b] = Idle /\ row'[b] = NoRow
      OBVIOUS
    <2>2. exec[b] = Idle /\ row[b] = NoRow
      BY <1>1, <1>5, <2>1 DEF OwnerInv
    <2>3. b # a
      BY <2>1 DEF Attempt
    <2>4. QED
      BY <1>2, <1>3, <2>2, <2>3 DEF ExecOf
  <1>7. a <= count /\ count \in Nat
    BY <1>1, CountsType DEF OwnerInv
  <1>8. ATypeOK'
    <2>1. \A b \in Attempt : b > count => b > a
      BY <1>7 DEF Attempt
    <2>2. \A b \in Attempt : b > count' => exec'[b] = Idle /\ row'[b] = NoRow
      BY <1>6, <2>1
    <2>3. QED
      BY <1>1, <1>2, <1>3, <1>4, <1>5, <2>2 DEF ATypeOK, ExecOf
  <1>9. Settled(a)' /\ exec'[a].at \notin Stages \cup CoderStages
        /\ exec'[a].at \notin {"return", "begin", "prepare", "idle"}
    BY <1>2 DEF Settled, Stages, CoderStages
  <1>10. owner' = a \/ owner' = 0
    OBVIOUS
  <1>11. OwnerInv'
    <2>1. owner' <= count'
      BY <1>7, <1>10
    <2>2. state' = RUNNING \/ state' = ACCEPTED => owner' # 0
      BY <1>4, <1>5
    <2>3. ASSUME NEW b \in Attempt
          PROVE  /\ owner' # 0 /\ b > owner' => exec'[b] = Idle /\ row'[b] = NoRow
                 /\ owner' = b => b = a
      BY <1>6, <1>10, <2>3, NotZero
    <2>4. QED
      BY <1>9, <2>1, <2>2, <2>3 DEF OwnerInv, At
  <1>12. GateInv'
    <2>1. PassedBy(a)
      BY <1>1 DEF PassedBy, ATypeOK
    <2>2. ASSUME NEW b \in Attempt
          PROVE  GatesBehind(b)'
      <3>1. GatesBehind(b)
        BY <1>1 DEF GateInv
      <3>2. CASE b = a
        <4>1. RowOffers(a)'
          BY <1>1, <1>2, <1>3, <1>9, <2>1, <3>1, <3>2, RowOffersStays DEF GatesBehind
        <4>2. QED
          BY <1>2, <1>9, <3>2, <4>1 DEF GatesBehind, At
      <3>3. CASE b # a
        BY <1>1, <1>2, <1>3, <1>9, <2>1, <3>1, <3>3, GatesStay
      <3>4. QED
        BY <3>2, <3>3
    <2>3. ASSUME state' = ACCEPTED
          PROVE  owner' # 0 /\ Settled(owner)' /\ Cleared(WorkOf(owner), Required)'
      <3>1. owner' = a /\ exec[a].answer = "accepted"
        BY <1>4, <2>3
      <3>2. Cleared(WorkOf(a), Required)
        BY <1>1, <3>1 DEF GateInv, GatesBehind, At
      <3>3. exec[a].work \in 0..MaxAttempt
        BY <1>1 DEF ATypeOK, ExecRecord
      <3>4. PICK w \in Attempt : w = WorkOf(a)
        BY <3>3, NonZeroAttempt DEF WorkOf
      <3>5. Cleared(w, Required)'
        BY <1>1, <1>2, <1>9, <2>1, <3>2, <3>4, ClearedStays
      <3>6. WorkOf(owner)' = w /\ Settled(owner)'
        BY <1>2, <1>9, <3>1, <3>4 DEF WorkOf, Settled
      <3>7. QED
        BY <1>5, <3>1, <3>5, <3>6 DEF Cleared
    <2>4. QED
      BY <1>4, <2>2, <2>3 DEF GateInv
  <1>13. LatestRowIsAccepted'
    <2>1. SUFFICES ASSUME state' = ACCEPTED
                   PROVE  /\ LatestRow' = {owner'}
                          /\ row'[owner'].status \in {"accepted", "blocked_recoverable"}
      BY DEF LatestRowIsAccepted
    <2>2. status = "accepted" /\ owner' = a /\ exec[a].answer = "accepted"
      BY <1>4, <2>1
    <2>3. row[a].status \in {"running", "accepted"}
      BY <1>1, <2>2 DEF OwnerInv, At
    <2>4. \A b \in Attempt : b > a => row[b].status = "none" /\ row'[b].status = "none"
      BY <1>1, <1>5, <1>6, NoRowStatus DEF OwnerInv
    <2>5. \A b \in Attempt : /\ row[b].status # "none" => b <= a
                             /\ row'[b].status # "none" => b <= a
      BY <2>4 DEF Attempt
    <2>6. a \in LatestRow
      BY <2>3, <2>5 DEF LatestRow
    <2>7. row'[a].status = "accepted"
      BY <1>3, <2>2, <2>3, <2>6
    <2>8. a \in LatestRow'
      BY <2>5, <2>7 DEF LatestRow
    <2>9. \A b \in LatestRow' : b = a
      BY <2>5, <2>7 DEF LatestRow, Attempt
    <2>10. QED
      BY <2>2, <2>7, <2>8, <2>9
  <1>14. RerunLeavesCoder'
    <2>1. \A b \in Attempt : owner' = b => b = a
      BY <1>10, NotZero
    <2>2. QED
      BY <1>9, <2>1 DEF RerunLeavesCoder
  <1>15. QED
    BY <1>8, <1>11, <1>12, <1>13, <1>14 DEF AttemptInv

LEMMA ReleaseKeeps ==
    ASSUME AttemptInv, NEW a \in Attempt, Release(a)
    PROVE  AttemptInv'
  <1>1. exec[a].at = "return" /\ UNCHANGED <<marker, tree, passed>>
    BY DEF Release, At
  <1>2. CASE owner = a /\ state = RUNNING
    <2>1. PICK status \in {"accepted", "rejected", "blocked_recoverable", "failed"} :
             status = Outcome(a) /\ (status = "accepted" => exec[a].answer = "accepted")
      BY OutcomeType
    <2>2. /\ state' = ReleaseTarget(status)
          /\ owner' = IF status = "accepted" THEN a ELSE 0
          /\ row' = [b \in Attempt |->
                       IF b \in LatestRow /\ row[b].status = "running"
                       THEN [row[b] EXCEPT !.status = status] ELSE row[b]]
          /\ Follows(a, status) /\ UNCHANGED <<count, budget>>
      BY <1>2, <2>1 DEF Release
    <2>3. QED
      BY <1>1, <1>2, <2>1, <2>2, OwnReleaseKeeps
  <1>3. CASE ~(owner = a /\ state = RUNNING)
    <2>1. Ends(a) /\ UNCHANGED packet /\ row' = row
      BY <1>3 DEF Release
    <2>2. ATypeOK /\ GatesBehind(a) /\ PassedBy(a)
      BY <1>1 DEF AttemptInv, GateInv, ATypeOK, PassedBy
    <2>3. Proceeds(a)
      BY <1>1, <2>1, <2>2, EndsProceeds
    <2>4. QED
      BY <2>3, ProceedsKeeps
  <1>4. QED
    BY <1>2, <1>3

-----------------------------------------------------------------------------
(* The lease scan and the operators touch the packet only. *)
LEMMA PacketOnlyKeeps ==
    ASSUME AttemptInv, UNCHANGED <<budget, exec, row, tree, passed>>,
           count' \in 0..MaxAttempt, marker' \in Rerunnable \cup {""},
           (count' = count /\ marker' = marker) \/ count' = count + 1,
           \/ owner' = owner /\ state' = state
           \/ owner' \in {owner, 0} /\ state' = READY
    PROVE  AttemptInv'
  <1>1. ATypeOK /\ OwnerInv /\ GateInv /\ count \in Nat /\ owner \in Nat
        /\ LatestRowIsAccepted /\ RerunLeavesCoder
    <2>1. ATypeOK
      BY DEF AttemptInv
    <2>2. QED
      BY <2>1, CountsType DEF AttemptInv
  <1>2. /\ count' \in Nat /\ owner <= count /\ owner' <= count'
        /\ \A b \in Nat : b > count' => b > count
        /\ count' # count => owner # count'
        /\ count # count + 1
    <2>1. count \in Nat /\ owner \in Nat /\ owner <= count
      BY <1>1 DEF OwnerInv
    <2>2. count' = count \/ count' = count + 1
      OBVIOUS
    <2>3. owner' = owner \/ owner' = 0
      OBVIOUS
    <2>4. QED
      BY ONLY <2>1, <2>2, <2>3
  <1>3. owner' \in {owner, 0} /\ (state' # state => state' = READY)
        /\ (state' # READY => owner' = owner)
    OBVIOUS
  <1>4. ATypeOK'
    <2>1. \A b \in Attempt : b > count' => exec'[b] = Idle /\ row'[b] = NoRow
      BY <1>1, <1>2, AttemptIsNat DEF ATypeOK
    <2>2. state' \in PacketState /\ owner' \in 0..MaxAttempt
      BY <1>1, <1>3, AttemptNumber DEF ATypeOK, PacketState
    <2>3. QED
      BY <1>1, <2>1, <2>2 DEF ATypeOK
  <1>5. \A b \in Attempt : owner' = b => owner = b
    BY <1>3, NotZero
  <1>6. owner' # 0 => owner' = owner
    BY <1>3
  <1>7. \A b \in Attempt : owner' = b /\ count' = b =>
                            count' = count /\ marker' = marker
    BY <1>2, <1>5
  <1>8. OwnerInv'
    <2>1. state' = RUNNING \/ state' = ACCEPTED => owner' # 0
      BY <1>1, <1>3 DEF OwnerInv, RUNNING, ACCEPTED, READY
    <2>2. QED
      BY <1>1, <1>2, <1>5, <1>6, <1>7, <2>1 DEF OwnerInv, At
  <1>9. GateInv'
    <2>1. state' \in {ACCEPTED, MERGED} => state' = state /\ owner' = owner
      BY <1>3 DEF ACCEPTED, MERGED, READY
    <2>2. QED
      BY <1>1, <2>1 DEF GateInv, GatesBehind, RowOffers, Cleared, Settled, WorkOf, At
  <1>10. LatestRowIsAccepted'
    <2>1. state' = ACCEPTED => state' = state /\ owner' = owner
      BY <1>3 DEF ACCEPTED, READY
    <2>2. QED
      BY <1>1, <2>1 DEF LatestRowIsAccepted, LatestRow
  <1>11. RerunLeavesCoder'
    BY <1>1, <1>5, <1>7 DEF RerunLeavesCoder
  <1>12. QED
    BY <1>4, <1>8, <1>9, <1>10, <1>11 DEF AttemptInv

LEMMA ReclaimKeeps ==
    ASSUME AttemptInv, Reclaim
    PROVE  AttemptInv'
  <1>1. count \in 0..MaxAttempt /\ marker \in Rerunnable \cup {""}
    BY DEF AttemptInv, ATypeOK
  <1>2. QED
    BY <1>1, PacketOnlyKeeps DEF Reclaim

LEMMA OperatorsKeep ==
    ASSUME AttemptInv, OperatorRetry \/ \E k \in Rerunnable : RerunStage(k)
    PROVE  AttemptInv'
  <1>1. count \in 0..MaxAttempt /\ MaxAttempt \in Nat /\ marker \in Rerunnable \cup {""}
    BY ConstantsOK DEF AttemptInv, ATypeOK
  <1>2. count < MaxAttempt /\ count' = count + 1
    BY DEF OperatorRetry, RerunStage
  <1>3. count' \in 0..MaxAttempt
    <2>1. count \in Nat
      BY CountsType DEF AttemptInv
    <2>2. QED
      BY <1>2, <2>1, ConstantsOK
  <1>4. marker' \in Rerunnable \cup {""} /\ UNCHANGED <<budget, exec, row, tree, passed>>
    BY <1>1 DEF OperatorRetry, RerunStage
  <1>5. owner' = owner /\ (state' = state \/ state' = READY)
    BY DEF OperatorRetry, RerunStage
  <1>6. QED
    BY <1>2, <1>3, <1>4, <1>5, PacketOnlyKeeps

-----------------------------------------------------------------------------
LEMMA InitEstablishes ==
    ASSUME AInit
    PROVE  AttemptInv
  <1>1. /\ state = READY /\ count = 0 /\ budget = Budget /\ marker = "" /\ owner = 0
        /\ tree = {}
        /\ \A a \in Attempt : exec[a] = Idle /\ row[a] = NoRow /\ passed[a] = {}
    BY DEF AInit
  <1>2. Idle \in ExecRecord /\ NoRow \in RunRow
    BY AttemptNumber DEF Idle, NoRow, ExecRecord, RunRow, Answers
  <1>3. /\ exec \in [Attempt -> ExecRecord] /\ row \in [Attempt -> RunRow]
        /\ passed \in [Attempt -> SUBSET Gates]
    BY <1>2 DEF AInit
  <1>4. Budget \in 0..(Budget + MaxAttempt + 1) /\ 0 \in 0..MaxAttempt
    BY ConstantsOK
  <1>5. ATypeOK
    BY <1>1, <1>3, <1>4 DEF ATypeOK, PacketState
  <1>6. \A a \in Attempt : exec[a].at = "idle" /\ exec[a].work = 0 /\ ~row[a].evidence
    BY <1>1, IdleAt, NoRowStatus
  <1>7. OwnerInv
    <2>1. owner = 0 /\ state # RUNNING /\ state # ACCEPTED
      BY <1>1 DEF READY, RUNNING, ACCEPTED
    <2>2. \A a \in Attempt : owner # a
      BY <1>1, NotZero
    <2>3. owner <= count
      <3>1. owner = 0 /\ count = 0
        BY <1>1
      <3>2. QED
        BY ONLY <3>1
    <2>4. QED
      BY <2>1, <2>2, <2>3 DEF OwnerInv
  <1>8. GateInv
    BY <1>1, <1>6 DEF GateInv, GatesBehind, RowOffers, At, READY, ACCEPTED, MERGED
  <1>9. LatestRowIsAccepted /\ RerunLeavesCoder
    BY <1>1, NotZero DEF LatestRowIsAccepted, RerunLeavesCoder, READY, ACCEPTED
  <1>10. QED
    BY <1>5, <1>7, <1>8, <1>9 DEF AttemptInv

LEMMA ExecutorStepKeeps ==
    ASSUME AttemptInv, NEW a \in Attempt, Prompt(a) \/ Loose(a) \/ Timeout(a)
    PROVE  AttemptInv'
  <1>1. ATypeOK /\ GatesBehind(a) /\ \A b \in Attempt : GatesBehind(b)
    BY DEF AttemptInv, GateInv
  <1>2. CASE Claim(a)
    BY <1>2, ClaimKeeps
  <1>3. CASE Release(a)
    BY <1>3, ReleaseKeeps
  <1>4. CASE Begin(a)
    BY <1>1, <1>4, BeginProceeds, ProceedsKeeps
  <1>5. CASE Prepare(a)
    BY <1>1, <1>5, PrepareProceeds, ProceedsKeeps
  <1>6. CASE AgentDone(a)
    BY <1>1, <1>6, AgentDoneProceeds, ProceedsKeeps
  <1>7. CASE Inspect(a)
    BY <1>1, <1>7, InspectProceeds, ProceedsKeeps
  <1>8. CASE Acceptance(a)
    BY <1>1, <1>8, AcceptanceProceeds, ProceedsKeeps
  <1>9. CASE Verify(a)
    BY <1>1, <1>9, VerifyProceeds, ProceedsKeeps
  <1>10. CASE Review(a)
    BY <1>1, <1>10, ReviewProceeds, ProceedsKeeps
  <1>11. CASE Rerun(a)
    BY <1>1, <1>11, RerunProceeds, ProceedsKeeps
  <1>12. CASE Reverify(a)
    BY <1>1, <1>12, ReverifyProceeds, ProceedsKeeps
  <1>13. CASE Rereview(a)
    BY <1>1, <1>13, RereviewProceeds, ProceedsKeeps
  <1>14. CASE Timeout(a)
    BY <1>1, <1>14, TimeoutProceeds, ProceedsKeeps
  <1>15. CASE Raise(a)
    BY <1>1, <1>15, RaiseProceeds, ProceedsKeeps
  <1>16. CASE Crash(a)
    BY <1>1, <1>16, CrashProceeds, ProceedsKeeps
  <1>17. CASE Retry(a)
    BY <1>17, RetryProceeds, ProceedsKeeps
  <1>18. CASE Merge(a)
    BY <1>18, MergeProceeds, ProceedsKeeps
  <1>19. CASE ReadSignal(a)
    BY <1>1, <1>19, ReadSignalProceeds, ProceedsKeeps
  <1>20. CASE Apply(a)
    BY <1>20, ApplyProceeds, ProceedsKeeps
  <1>21. QED
    BY <1>2, <1>3, <1>4, <1>5, <1>6, <1>7, <1>8, <1>9, <1>10, <1>11, <1>12, <1>13,
       <1>14, <1>15, <1>16, <1>17, <1>18, <1>19, <1>20 DEF Prompt, Loose

LEMMA StutterKeeps ==
    ASSUME AttemptInv, UNCHANGED avars
    PROVE  AttemptInv'
  BY DEF AttemptInv, avars, ATypeOK, OwnerInv, GateInv, LatestRowIsAccepted,
         RerunLeavesCoder, GatesBehind, RowOffers, Cleared, Settled, WorkOf, At, LatestRow

LEMMA NextKeeps ==
    ASSUME AttemptInv, [ANext]_avars
    PROVE  AttemptInv'
  <1>1. CASE \E a \in Attempt : Prompt(a) \/ Loose(a) \/ Timeout(a)
    BY <1>1, ExecutorStepKeeps
  <1>2. CASE Reclaim
    BY <1>2, ReclaimKeeps
  <1>3. CASE OperatorRetry \/ \E k \in Rerunnable : RerunStage(k)
    BY <1>3, OperatorsKeep
  <1>4. CASE UNCHANGED avars
    BY <1>4, StutterKeeps
  <1>5. QED
    BY <1>1, <1>2, <1>3, <1>4 DEF ANext

-----------------------------------------------------------------------------
(* The inductive invariant holds of every attempt at a packet, however many  *)
(* there are and however their executors overlap.                            *)
THEOREM AttemptInvariant == ASpec => []AttemptInv
  <1>1. AInit => AttemptInv
    BY InitEstablishes
  <1>2. AttemptInv /\ [ANext]_avars => AttemptInv'
    BY NextKeeps
  <1>3. QED
    BY <1>1, <1>2, PTL DEF ASpec

(* What was accepted or merged has passed every gate of its profile, though  *)
(* reruns of a gate take the others from the run of an earlier attempt.      *)
THEOREM GatesPassed == ASpec => []AcceptedOnGates
  <1>1. AttemptInv => AcceptedOnGates
    <2>1. SUFFICES ASSUME AttemptInv, state \in {ACCEPTED, MERGED}
                   PROVE  Required \subseteq passed[IF exec[owner].work = 0
                                                     THEN owner ELSE exec[owner].work]
      BY DEF AcceptedOnGates
    <2>2. Cleared(WorkOf(owner), Required)
      BY <2>1 DEF AttemptInv, GateInv
    <2>3. QED
      BY <2>2 DEF Cleared, WorkOf
  <1>2. QED
    BY <1>1, AttemptInvariant, PTL

(* While a packet waits for its merge, its latest row is the one of the      *)
(* attempt that was accepted.                                                *)
THEOREM MergeFindsItsRow == ASpec => []LatestRowIsAccepted
  <1>1. AttemptInv => LatestRowIsAccepted
    BY DEF AttemptInv
  <1>2. QED
    BY <1>1, AttemptInvariant, PTL

(* An attempt that was claimed to rerun a gate never starts the coder while  *)
(* it owns the packet and no other request came.                             *)
THEOREM RerunsLeaveCoder == ASpec => []RerunLeavesCoder
  <1>1. AttemptInv => RerunLeavesCoder
    BY DEF AttemptInv
  <1>2. QED
    BY <1>1, AttemptInvariant, PTL
=============================================================================
