------------------------- MODULE FeatureFlow_proofs -------------------------
(***************************************************************************)
(* That packets with a common place never run at once, that one feature is  *)
(* active at a time, that waves and dependencies are served in order, that  *)
(* replaced packets are out of the way and that done features are done, for *)
(* any plan, any number of packets and any limit.                           *)
(*                                                                          *)
(* What the invariant adds to these: who is busy holds its reservation, for *)
(* the claim compares reservations and not states; every packet belongs to  *)
(* a wave of its feature, for the claim looks at the first open wave; and   *)
(* replacements form a forest in the order of creation, each with all the   *)
(* places of its parent, which has left DRAFT for good.                     *)
(***************************************************************************)
EXTENDS FeatureFlow, FiniteSetTheorems, WellFoundedInduction, TLAPS

KnownRow == {r \in PacketRow : r.wave \in 1 .. LastWave[r.feature]}

IsBusy(r) == r.state \in {RUNNING, ACCEPTED}

\* The packet rows are as they should be.
RowsOK(rows) ==
    /\ rows \in Seq(KnownRow) /\ Len(rows) <= MaxPackets
    /\ \A p \in DOMAIN rows : IsBusy(rows[p]) => rows[p].held
    /\ \A p, q \in DOMAIN rows :
          IsBusy(rows[p]) /\ IsBusy(rows[q]) /\ p # q =>
              rows[p].area \cap rows[q].area = {}

\* A row changes without being claimed.
Settles(old, new) ==
    /\ new.area = old.area
    /\ IsBusy(new) => IsBusy(old) /\ new.held = old.held
    /\ new.state = RUNNING => old.state = RUNNING

OneActive ==
    \A f, g \in Feature : feature[f] = "active" /\ feature[g] = "active" => f = g

FInv ==
    /\ feature \in [Feature -> FeatureStatus]
    /\ wave \in [WaveOf -> WaveStatus]
    /\ OneActive
    /\ RowsOK(packets)

-----------------------------------------------------------------------------
(* A set of numbers has its least one.                                      *)
LEMMA LeastIsThere ==
    ASSUME NEW S \in SUBSET Nat, S # {}
    PROVE  Least(S) \in S /\ \A m \in S : Least(S) <= m
<1>1. \E n \in S : \A m \in S : ~ (<<m, n>> \in OpToRel(<, Nat))
  BY NatLessThanWellFounded, WFMin
<1>2. PICK n \in S : \A m \in S : ~ (<<m, n>> \in OpToRel(<, Nat))
  BY <1>1
<1>3. \A m \in S : n <= m
  <2> TAKE m \in S
  <2>1. m \in Nat /\ n \in Nat
    OBVIOUS
  <2>2. ~ (m < n)
    BY <1>2, <2>1 DEF OpToRel
  <2> QED BY <2>1, <2>2
<1> QED BY <1>3 DEF Least

-----------------------------------------------------------------------------
(* Rows that settle stay as they should be, and so do they with a new row   *)
(* that is not busy.                                                        *)
LEMMA SettledRows ==
    ASSUME NEW old, RowsOK(old), NEW new \in [DOMAIN old -> KnownRow],
           \A p \in DOMAIN old : Settles(old[p], new[p])
    PROVE  RowsOK(new)
<1>1. old \in Seq(KnownRow) /\ DOMAIN old = 1 .. Len(old) /\ Len(old) \in Nat
  BY DEF RowsOK
<1>2. new \in Seq(KnownRow) /\ DOMAIN new = DOMAIN old /\ Len(new) = Len(old)
  BY <1>1
<1>3. \A p \in DOMAIN new : IsBusy(new[p]) => new[p].held
  BY <1>2 DEF RowsOK, Settles
<1>4. \A p, q \in DOMAIN new :
          IsBusy(new[p]) /\ IsBusy(new[q]) /\ p # q =>
              new[p].area \cap new[q].area = {}
  BY <1>2 DEF RowsOK, Settles
<1> QED BY <1>2, <1>3, <1>4 DEF RowsOK

LEMMA AppendedRow ==
    ASSUME NEW old, RowsOK(old), NEW r \in KnownRow, ~ IsBusy(r),
           Len(old) < MaxPackets
    PROVE  /\ RowsOK(Append(old, r))
           /\ DOMAIN old \subseteq DOMAIN Append(old, r)
           /\ \A p \in DOMAIN old : Append(old, r)[p] = old[p]
<1>1. old \in Seq(KnownRow) /\ DOMAIN old = 1 .. Len(old) /\ Len(old) \in Nat
  BY DEF RowsOK
<1> DEFINE new == Append(old, r)
<1>2. /\ new \in Seq(KnownRow) /\ Len(new) = Len(old) + 1
      /\ DOMAIN new = 1 .. Len(old) + 1
      /\ \A p \in DOMAIN old : new[p] = old[p]
      /\ new[Len(old) + 1] = r
  BY <1>1
<1> HIDE DEF new
<1>3. Len(new) <= MaxPackets
  BY <1>1, <1>2, FlowAssumption
<1>4. \A p \in DOMAIN new : IsBusy(new[p]) => p \in DOMAIN old
  BY <1>1, <1>2
<1>5. \A p \in DOMAIN new : IsBusy(new[p]) => new[p].held
  BY <1>2, <1>4 DEF RowsOK
<1>6. \A p, q \in DOMAIN new :
          IsBusy(new[p]) /\ IsBusy(new[q]) /\ p # q =>
              new[p].area \cap new[q].area = {}
  BY <1>2, <1>4 DEF RowsOK
<1>7. DOMAIN old \subseteq DOMAIN new
  BY <1>1, <1>2
<1> QED BY <1>2, <1>3, <1>5, <1>6, <1>7 DEF RowsOK, new

-----------------------------------------------------------------------------
(* What the steps other than a claim do to the rows.                        *)
Calm ==
    /\ RowsOK(packets')
    /\ Packets \subseteq DOMAIN packets'
    /\ \A p \in Packets : Settles(packets[p], packets'[p])

LEMMA CalmRows ==
    ASSUME RowsOK(packets), packets' \in [Packets -> KnownRow],
           \A p \in Packets : Settles(packets[p], packets'[p])
    PROVE  Calm
BY SettledRows DEF Calm, Packets

LEMMA QuietCalm ==
    ASSUME RowsOK(packets), packets' = packets
    PROVE  Calm
BY DEF Calm, Packets, Settles

\* One row changes.
LEMMA OneRowCalm ==
    ASSUME RowsOK(packets), NEW p \in Packets, NEW r,
           r \in KnownRow, Settles(packets[p], r),
           packets' = [packets EXCEPT ![p] = r]
    PROVE  Calm
<1>1. packets \in [Packets -> KnownRow]
  BY DEF RowsOK, Packets
<1>2. packets' \in [Packets -> KnownRow]
  BY <1>1
<1>3. \A q \in Packets : Settles(packets[q], packets'[q])
  BY <1>1 DEF Settles
<1> QED BY <1>2, <1>3, CalmRows

LEMMA RowFields ==
    ASSUME RowsOK(packets), NEW p \in Packets
    PROVE  /\ packets[p] \in KnownRow /\ packets[p] \in PacketRow
           /\ packets[p].feature \in Feature /\ packets[p].wave \in Nat
           /\ packets[p].wave \in 1 .. LastWave[packets[p].feature]
BY DEF RowsOK, Packets, KnownRow, PacketRow

LEMMA MovedRows ==
    ASSUME RowsOK(packets), NEW p \in Packets, NEW s \in PacketState,
           s # RUNNING, s = ACCEPTED => IsBusy(packets[p])
    PROVE  /\ Moved(p, s) \in [Packets -> KnownRow]
           /\ \A q \in Packets : Settles(packets[q], Moved(p, s)[q])
<1> DEFINE r == [packets[p] EXCEPT !.state = s,
                   !.held = @ /\ s \notin ParallelReleasingStates]
<1>1. packets[p] \in KnownRow
  BY RowFields
<1>2. r \in KnownRow
  BY <1>1 DEF KnownRow, PacketRow
<1>3. ACCEPTED \notin ParallelReleasingStates
  BY DEF ACCEPTED, ParallelReleasingStates, MERGED, REJECTED, FAILED,
         BLOCKED_RECOVERABLE, BLOCKED_FINAL, CANCELLED
<1>4. packets[p].held \in BOOLEAN
  BY <1>1 DEF KnownRow, PacketRow
<1>5. /\ r.area = packets[p].area /\ r.state = s
      /\ s = ACCEPTED => r.held = packets[p].held
  BY <1>1, <1>3, <1>4 DEF KnownRow, PacketRow
<1>6. Settles(packets[p], r)
  BY <1>5 DEF Settles, IsBusy
<1>7. packets \in [Packets -> KnownRow]
  BY DEF RowsOK, Packets
<1>8. Moved(p, s) = [packets EXCEPT ![p] = r]
  BY <1>1 DEF Moved, KnownRow, PacketRow
<1> HIDE DEF r
<1>9. /\ Moved(p, s) \in [Packets -> KnownRow]
      /\ Moved(p, s)[p] = r
      /\ \A q \in Packets : q # p => Moved(p, s)[q] = packets[q]
  BY <1>2, <1>7, <1>8
<1>10. \A q \in Packets : Settles(packets[q], packets[q])
  BY DEF Settles
<1> QED BY <1>6, <1>9, <1>10

LEMMA MovedCalm ==
    ASSUME RowsOK(packets), NEW p \in Packets, NEW s \in PacketState,
           s # RUNNING, s = ACCEPTED => IsBusy(packets[p]),
           packets' = Moved(p, s)
    PROVE  Calm
BY MovedRows, CalmRows

LEMMA ReleaseCalm ==
    ASSUME RowsOK(packets), NEW p \in Packets, NEW status \in Outcomes,
           Release(p, status)
    PROVE  Calm
<1>1. status \in ReleaseStatus
  BY FlowAssumption
<1>2. /\ ReleaseTarget(status) \in PacketState
      /\ ReleaseTarget(status) # RUNNING
  BY <1>1 DEF ReleaseStatus, ReleaseTarget, PacketState, RUNNING, ACCEPTED,
              REJECTED, BLOCKED_FINAL, BLOCKED_RECOVERABLE, FAILED
<1>3. IsBusy(packets[p])
  BY DEF Release, State, IsBusy
<1>4. packets' = Moved(p, ReleaseTarget(status))
  BY DEF Release
<1> QED BY <1>2, <1>3, <1>4, MovedCalm

LEMMA NotBusy ==
    /\ READY # RUNNING /\ READY # ACCEPTED /\ CANCELLED # RUNNING
    /\ CANCELLED # ACCEPTED /\ MERGED # RUNNING /\ MERGED # ACCEPTED
    /\ FAILED # RUNNING /\ FAILED # ACCEPTED /\ RUNNING # ACCEPTED
    /\ BLOCKED_RECOVERABLE # RUNNING /\ BLOCKED_RECOVERABLE # ACCEPTED
    /\ {READY, CANCELLED, MERGED, FAILED, BLOCKED_RECOVERABLE, RUNNING}
          \subseteq PacketState
BY DEF READY, RUNNING, ACCEPTED, CANCELLED, MERGED, FAILED,
       BLOCKED_RECOVERABLE, PacketState

\* A row that ends where nobody is busy settles.
LEMMA EndedRow ==
    ASSUME NEW old \in KnownRow, NEW s \in PacketState, s # RUNNING, s # ACCEPTED,
           NEW stale \in BOOLEAN
    PROVE  /\ [old EXCEPT !.state = s, !.stale = stale] \in KnownRow
           /\ Settles(old, [old EXCEPT !.state = s, !.stale = stale])
           /\ [old EXCEPT !.state = s] \in KnownRow
           /\ Settles(old, [old EXCEPT !.state = s])
BY DEF KnownRow, PacketRow, Settles, IsBusy

LEMMA TakenCalm ==
    ASSUME RowsOK(packets), NEW p \in Packets, Reclaim(p) \/ Cancel(p)
    PROVE  Calm
<1>1. PICK s \in {READY, CANCELLED} :
          packets' = [packets EXCEPT ![p].state = s, ![p].stale = TRUE]
  BY DEF Reclaim, Cancel
<1>2. packets[p] \in KnownRow
  BY RowFields
<1> DEFINE r == [packets[p] EXCEPT !.state = s, !.stale = TRUE]
<1>3. s \in PacketState /\ s # RUNNING /\ s # ACCEPTED
  BY NotBusy
<1>4. r \in KnownRow /\ Settles(packets[p], r)
  BY <1>2, <1>3, EndedRow
<1>5. packets' = [packets EXCEPT ![p] = r]
  BY <1>1, <1>2 DEF KnownRow, PacketRow
<1> QED BY <1>4, <1>5, OneRowCalm

LEMMA LapseCalm ==
    ASSUME RowsOK(packets), NEW p \in Packets, Lapse(p)
    PROVE  Calm
<1> DEFINE r == [packets[p] EXCEPT !.held = FALSE]
<1>1. packets[p] \in KnownRow
  BY RowFields
<1>2. ~ IsBusy(packets[p])
  BY DEF Lapse, Busy, State, IsBusy
<1>3. r \in KnownRow /\ Settles(packets[p], r)
  BY <1>1, <1>2 DEF KnownRow, PacketRow, Settles, IsBusy
<1>4. packets' = [packets EXCEPT ![p] = r]
  BY DEF Lapse
<1> QED BY <1>3, <1>4, OneRowCalm

LEMMA RetryCalm ==
    ASSUME RowsOK(packets), NEW p \in Packets, Retry(p)
    PROVE  Calm
<1>1. PICK s \in {FAILED, READY} : packets' = Moved(p, s)
  BY DEF Retry
<1> QED BY <1>1, NotBusy, MovedCalm

LEMMA BlockedCalm ==
    ASSUME RowsOK(packets), NEW p \in Packets, MergeBlocked(p)
    PROVE  Calm
<1>1. packets' = Moved(p, BLOCKED_RECOVERABLE)
  BY DEF MergeBlocked
<1> QED BY <1>1, NotBusy, MovedCalm

LEMMA MergeCalm ==
    ASSUME RowsOK(packets), NEW p \in Packets, Merge(p)
    PROVE  Calm
<1> DEFINE rows == Moved(p, MERGED)
<1>2. /\ rows \in [Packets -> KnownRow]
      /\ \A q \in Packets : Settles(packets[q], rows[q])
  BY MovedRows, NotBusy
<1>3. packets' = Retire(p, rows)
  BY DEF Merge
<1> HIDE DEF rows
<1>4. DOMAIN packets' = Packets
  BY <1>3 DEF Retire
<1>5. ASSUME NEW q \in Packets
      PROVE  packets'[q] \in KnownRow /\ Settles(packets[q], packets'[q])
  <2>1. rows[q] \in KnownRow
    BY <1>2
  <2>2. /\ [rows[q] EXCEPT !.state = CANCELLED] \in KnownRow
        /\ Settles(rows[q], [rows[q] EXCEPT !.state = CANCELLED])
    BY <2>1, NotBusy, EndedRow
  <2>3. \/ packets'[q] = rows[q]
        \/ packets'[q] = [rows[q] EXCEPT !.state = CANCELLED]
    BY <1>3 DEF Retire
  <2> QED BY <1>2, <2>1, <2>2, <2>3 DEF Settles
<1>6. packets' \in [Packets -> KnownRow]
  BY <1>3, <1>4, <1>5 DEF Retire
<1> QED BY <1>5, <1>6, CalmRows

LEMMA GateCalm ==
    ASSUME RowsOK(packets), NEW f \in Feature, WaveGate(f)
    PROVE  Calm
<1>1. packets \in [Packets -> KnownRow]
  BY DEF RowsOK, Packets
<1>2. DOMAIN packets' = Packets
  BY DEF WaveGate
<1>3. ASSUME NEW q \in Packets
      PROVE  packets'[q] \in KnownRow /\ Settles(packets[q], packets'[q])
  <2>1. packets[q] \in KnownRow
    BY <1>1
  <2>2. /\ [packets[q] EXCEPT !.state = READY] \in KnownRow
        /\ Settles(packets[q], [packets[q] EXCEPT !.state = READY])
    BY <2>1, NotBusy, EndedRow
  <2>3. \/ packets'[q] = packets[q]
        \/ packets'[q] = [packets[q] EXCEPT !.state = READY]
    BY DEF WaveGate
  <2> QED BY <2>1, <2>2, <2>3 DEF Settles
<1>4. packets' \in [Packets -> KnownRow]
  BY <1>2, <1>3 DEF WaveGate
<1> QED BY <1>3, <1>4, CalmRows

\* A replacement writes to the places of the packet that it replaces, and
\* perhaps to more.
LEMMA PlacesKeep ==
    ASSUME RowsOK(packets), NEW p \in Packets, NEW source \in Source,
           NEW place \in Places(p, source)
    PROVE  place \in SUBSET Area /\ packets[p].area \subseteq place
<1>1. packets[p].area \in SUBSET Area
  BY RowFields DEF PacketRow
<1> QED BY <1>1 DEF Places

\* The rows with a replacement, after a change that settles.
LEMMA ChildCalm ==
    ASSUME RowsOK(packets), NEW p \in Packets, NEW source \in Source,
           NEW place \in SUBSET Area, NEW rows \in [Packets -> KnownRow],
           \A q \in Packets : Settles(packets[q], rows[q]),
           \/ packets' = rows
           \/ /\ packets' = Append(rows, Child(p, source, place))
              /\ Len(packets) < MaxPackets
    PROVE  Calm
<1>1. RowsOK(rows) /\ DOMAIN rows = Packets
  BY SettledRows DEF Packets
<1>2. Len(rows) = Len(packets)
  BY <1>1 DEF RowsOK, Packets
<1>3. packets[p] \in KnownRow /\ p \in Nat
  BY RowFields DEF Packets, RowsOK
<1>4. Child(p, source, place) \in KnownRow /\ Child(p, source, place).state = READY
  BY <1>3, NotBusy DEF Child, Row, KnownRow, PacketRow
<1>5. ~ IsBusy(Child(p, source, place))
  BY <1>4, NotBusy DEF IsBusy
<1>6. CASE packets' = rows
  BY <1>6, CalmRows
<1>7. CASE packets' = Append(rows, Child(p, source, place)) /\ Len(packets) < MaxPackets
  <2> DEFINE r == Child(p, source, place)
  <2>1. /\ RowsOK(Append(rows, r))
        /\ DOMAIN rows \subseteq DOMAIN Append(rows, r)
        /\ \A q \in DOMAIN rows : Append(rows, r)[q] = rows[q]
    BY <1>1, <1>2, <1>4, <1>5, <1>7, AppendedRow
  <2> QED BY <1>1, <1>7, <2>1 DEF Calm
<1> QED BY <1>6, <1>7

LEMMA ReworkCalm ==
    ASSUME RowsOK(packets), NEW p \in Packets, NEW source \in Source,
           Rework(p, source)
    PROVE  Calm
<1>0. PICK place \in Places(p, source) :
          \/ packets' = Replaced(p, source, place, [packets EXCEPT ![p].judged = TRUE])
          \/ packets' = Replaced(p, source, place, [packets EXCEPT ![p].stale = FALSE])
  BY DEF Rework
<1>a. place \in SUBSET Area /\ packets[p].area \subseteq place
  BY PlacesKeep
<1>1. packets \in [Packets -> KnownRow]
  BY DEF RowsOK, Packets
<1>2. PICK r \in {[packets[p] EXCEPT !.judged = TRUE],
                  [packets[p] EXCEPT !.stale = FALSE]} :
          packets' = Replaced(p, source, place, [packets EXCEPT ![p] = r])
  <2>1. \/ packets' = Replaced(p, source, place, [packets EXCEPT ![p].judged = TRUE])
        \/ packets' = Replaced(p, source, place, [packets EXCEPT ![p].stale = FALSE])
    BY <1>0
  <2> QED BY <2>1
<1>3. r \in KnownRow /\ Settles(packets[p], r)
  BY <1>1, <1>2 DEF KnownRow, PacketRow, Settles, IsBusy
<1> DEFINE rows == [packets EXCEPT ![p] = r]
<1>4. rows \in [Packets -> KnownRow]
  BY <1>1, <1>3
<1>5. \A q \in Packets : Settles(packets[q], rows[q])
  BY <1>1, <1>3 DEF Settles
<1>6. \/ packets' = rows
      \/ /\ packets' = Append(rows, Child(p, source, place))
         /\ Len(packets) < MaxPackets
  BY <1>2 DEF Replaced, Rework
<1> HIDE DEF rows
<1> QED BY <1>a, <1>4, <1>5, <1>6, ChildCalm

LEMMA RepackCalm ==
    ASSUME RowsOK(packets), NEW p \in Packets, Repack(p)
    PROVE  Calm
<1>1. packets \in [Packets -> KnownRow]
  BY DEF RowsOK, Packets
<1>2. \A q \in Packets : Settles(packets[q], packets[q])
  BY DEF Settles
<1>3. "architect_repack" \in Source
  BY DEF Source
<1>4. CASE packets' = packets
  BY <1>1, <1>4, CalmRows, <1>2
<1>5. CASE packets' # packets
  <2>1. PICK place \in Places(p, "architect_repack") :
            /\ packets' = Append(packets, Child(p, "architect_repack", place))
            /\ Len(packets) < MaxPackets
    BY <1>5 DEF Repack
  <2>2. place \in SUBSET Area
    BY <1>3, PlacesKeep
  <2> QED BY <1>1, <1>2, <1>3, <2>1, <2>2, ChildCalm
<1> QED BY <1>4, <1>5

-----------------------------------------------------------------------------
(* The claim.                                                               *)
\* Only an active feature is served while there is one.
LEMMA SelectedFeature ==
    ASSUME NEW f \in Selection
    PROVE  f \in Feature /\ (WithStatus("active") # {} => feature[f] = "active")
<1> DEFINE waiting == IF WithStatus("active") # {} THEN WithStatus("active")
                      ELSE IF Recoverable # {} THEN Recoverable
                      ELSE WithStatus("queued")
<1>1. waiting # {} /\ f = Least(waiting)
  BY DEF Selection
<1>2. waiting \subseteq Feature /\ Feature \subseteq Nat
  BY FlowAssumption DEF WithStatus, Recoverable, Feature
<1>3. f \in waiting
  BY <1>1, <1>2, LeastIsThere
<1> QED BY <1>2, <1>3 DEF WithStatus

\* What is claimed is READY and belongs to the first open wave.
LEMMA ClaimedPacket ==
    ASSUME RowsOK(packets), NEW f \in Feature, Claim(f)
    PROVE  \E p \in Candidates(f) :
              /\ p \in Packets /\ State(p) = READY /\ CanRunTogether(p)
              /\ packets[p].feature = f
              /\ packets[p].wave = Least(OpenWaves(f)) /\ OpenWaves(f) # {}
              /\ packets' = [packets EXCEPT ![p].state = RUNNING,
                               ![p].attempts = @ + 1, ![p].held = TRUE,
                               ![p].judged = FALSE]
<1> DEFINE p == Least(Candidates(f))
<1>1. /\ Candidates(f) # {}
      /\ packets' = [packets EXCEPT ![p].state = RUNNING,
                       ![p].attempts = @ + 1, ![p].held = TRUE,
                       ![p].judged = FALSE]
  BY DEF Claim
<1>2. Candidates(f) \subseteq Packets /\ Packets \subseteq Nat
  BY DEF Candidates, Frontier, Effective, InWave, Of, Packets, RowsOK
<1>3. p \in Candidates(f)
  BY <1>1, <1>2, LeastIsThere
<1>4. /\ p \in Frontier(f) /\ State(p) = READY /\ CanRunTogether(p)
      /\ OpenWaves(f) # {}
  BY <1>3 DEF Candidates
<1>5. packets[p].feature = f /\ packets[p].wave = Least(OpenWaves(f))
  BY <1>4 DEF Frontier, Effective, InWave, Of
<1> HIDE DEF p
<1> QED BY <1>1, <1>2, <1>3, <1>4, <1>5

LEMMA ClaimRows ==
    ASSUME RowsOK(packets), NEW f \in Feature, Claim(f)
    PROVE  RowsOK(packets')
<1>1. PICK p \in Packets :
          /\ CanRunTogether(p)
          /\ packets' = [packets EXCEPT ![p].state = RUNNING,
                           ![p].attempts = @ + 1, ![p].held = TRUE,
                           ![p].judged = FALSE]
  BY ClaimedPacket
<1>2. /\ packets \in [Packets -> KnownRow] /\ packets \in Seq(KnownRow)
      /\ Packets = 1 .. Len(packets) /\ Len(packets) \in Nat
  BY DEF RowsOK, Packets
<1>3. packets[p] \in KnownRow /\ packets[p].attempts \in Nat
  BY <1>2 DEF KnownRow, PacketRow
<1>4. PICK n \in Nat : n = packets[p].attempts + 1
  BY <1>3
<1> DEFINE r == [packets[p] EXCEPT !.state = RUNNING, !.attempts = n,
                                   !.held = TRUE, !.judged = FALSE]
<1>5. r \in KnownRow /\ r.area = packets[p].area /\ r.held
  BY <1>3, NotBusy DEF KnownRow, PacketRow
<1>6. packets' = [packets EXCEPT ![p] = r]
  BY <1>1, <1>3, <1>4 DEF KnownRow, PacketRow
<1> HIDE DEF r
<1>7. /\ packets' \in [Packets -> KnownRow] /\ packets'[p] = r
      /\ \A q \in Packets : q # p => packets'[q] = packets[q]
  BY <1>2, <1>5, <1>6
<1>8. packets' \in Seq(KnownRow) /\ Len(packets') = Len(packets)
  BY <1>2, <1>7
<1>9. \A q \in Packets : IsBusy(packets'[q]) => packets'[q].held
  BY <1>5, <1>7 DEF RowsOK, Packets
<1>10. \A q \in Packets :
          q # p /\ IsBusy(packets[q]) => packets[p].area \cap packets[q].area = {}
  BY <1>1 DEF CanRunTogether, RowsOK, Packets
<1>11. ASSUME NEW q1 \in Packets, NEW q2 \in Packets, q1 # q2,
              IsBusy(packets'[q1]), IsBusy(packets'[q2])
       PROVE  packets'[q1].area \cap packets'[q2].area = {}
  <2>1. CASE q1 = p
    BY <1>5, <1>7, <1>10, <1>11, <2>1
  <2>2. CASE q2 = p
    BY <1>5, <1>7, <1>10, <1>11, <2>2
  <2>3. CASE q1 # p /\ q2 # p
    BY <1>7, <1>11, <2>3 DEF RowsOK, Packets
  <2> QED BY <2>1, <2>2, <2>3
<1>12. DOMAIN packets' = Packets
  BY <1>7
<1>13. Len(packets') <= MaxPackets
  BY <1>8 DEF RowsOK
<1> QED BY <1>8, <1>9, <1>11, <1>12, <1>13 DEF RowsOK

\* A step claims a packet or is calm.
LEMMA StepRows ==
    ASSUME RowsOK(packets), FNext
    PROVE  Calm \/ \E f \in Selection : Claim(f)
<1>1. CASE ClaimNext
  <2>1. PICK f \in Selection : Claim(f) \/ Degrade(f) \/ Finish(f) \/ Wait(f)
    BY <1>1 DEF ClaimNext
  <2>2. CASE Claim(f)
    BY <2>2
  <2>3. CASE Degrade(f) \/ Finish(f) \/ Wait(f)
    BY <2>3, QuietCalm DEF Degrade, Finish, Wait
  <2> QED BY <2>1, <2>2, <2>3
<1>2. CASE \E f \in Feature : WaveGate(f) \/ FeatureGate(f)
  BY <1>2, GateCalm, QuietCalm DEF FeatureGate
<1>3. CASE \E p \in Packets, status \in Outcomes : Release(p, status)
  BY <1>3, ReleaseCalm
<1>4. CASE \E p \in Packets, source \in Source : Rework(p, source)
  BY <1>4, ReworkCalm
<1>5. CASE \E p \in Packets : Reclaim(p) \/ Lapse(p) \/ Merge(p) \/ MergeBlocked(p)
  BY <1>5, TakenCalm, LapseCalm, MergeCalm, BlockedCalm
<1>6. CASE Operator
  BY <1>6, TakenCalm, RetryCalm, RepackCalm DEF Operator
<1> QED BY <1>1, <1>2, <1>3, <1>4, <1>5, <1>6 DEF FNext

-----------------------------------------------------------------------------
(* The features.                                                            *)
FeaturesOK ==
    /\ feature \in [Feature -> FeatureStatus]
    /\ wave \in [WaveOf -> WaveStatus]
    /\ OneActive

LEMMA ReopenedTyped ==
    ASSUME FeaturesOK, NEW f
    PROVE  Reopened(f) \in [WaveOf -> WaveStatus]
BY DEF FeaturesOK, Reopened, WaveStatus

LEMMA RequeueKeeps ==
    ASSUME FeaturesOK, RowsOK(packets), NEW p \in Packets, Requeue(p)
    PROVE  FeaturesOK'
<1>1. packets[p].feature \in Feature
  BY RowFields
<1>2. PICK s \in {"active", "queued"} :
          /\ feature' = [feature EXCEPT ![packets[p].feature] = s]
          /\ s = "active" => feature[packets[p].feature] = "active"
  BY DEF Requeue
<1>3. feature' \in [Feature -> FeatureStatus]
  BY <1>1, <1>2 DEF FeaturesOK, FeatureStatus
<1>4. wave' \in [WaveOf -> WaveStatus]
  BY DEF Requeue, FeaturesOK, WaveStatus
<1>5. OneActive'
  BY <1>1, <1>2 DEF FeaturesOK, OneActive
<1> QED BY <1>3, <1>4, <1>5 DEF FeaturesOK

\* The status of one feature changes, not to active; or to active when the
\* queue has chosen it.
LEMMA FeatureKeeps ==
    ASSUME FeaturesOK, NEW f \in Feature, NEW s \in FeatureStatus,
           s = "active" => f \in Selection,
           feature' = [feature EXCEPT ![f] = s], wave' \in [WaveOf -> WaveStatus]
    PROVE  FeaturesOK'
<1>1. feature' \in [Feature -> FeatureStatus]
  BY DEF FeaturesOK
<1>2. OneActive'
  <2>1. CASE s # "active"
    BY <2>1 DEF FeaturesOK, OneActive
  <2>2. CASE s = "active" /\ WithStatus("active") = {}
    BY <2>2 DEF FeaturesOK, OneActive, WithStatus
  <2>3. CASE s = "active" /\ WithStatus("active") # {}
    <3>1. feature[f] = "active"
      BY <2>3, SelectedFeature
    <3> QED BY <2>3, <3>1 DEF FeaturesOK, OneActive
  <2> QED BY <2>1, <2>2, <2>3
<1> QED BY <1>1, <1>2 DEF FeaturesOK

LEMMA StepFeatures ==
    ASSUME FeaturesOK, RowsOK(packets), FNext
    PROVE  FeaturesOK'
<1>1. CASE UNCHANGED <<feature, wave>>
  BY <1>1 DEF FeaturesOK, OneActive
<1>2. CASE ClaimNext
  <2>1. PICK f \in Selection : Claim(f) \/ Degrade(f) \/ Finish(f) \/ Wait(f)
    BY <1>2 DEF ClaimNext
  <2>2. f \in Feature
    BY SelectedFeature
  <2>3. PICK s \in {"active", "degraded", "done"} :
            feature' = [feature EXCEPT ![f] = s]
    BY <2>1 DEF Claim, Degrade, Finish, Wait
  <2>4. wave' = Reopened(f)
    BY <2>1 DEF Claim, Degrade, Finish, Wait
  <2>5. wave' \in [WaveOf -> WaveStatus]
    BY <2>4, ReopenedTyped
  <2>6. s \in FeatureStatus
    BY DEF FeatureStatus
  <2> QED BY <2>1, <2>2, <2>3, <2>5, <2>6, FeatureKeeps
<1>3. CASE \E f \in Feature : WaveGate(f)
  <2>1. wave' \in [WaveOf -> WaveStatus]
    BY <1>3 DEF WaveGate, WaveAfterGate, FeaturesOK, WaveStatus, WaveOf
  <2>2. feature' = feature
    BY <1>3 DEF WaveGate
  <2> QED BY <2>1, <2>2 DEF FeaturesOK, OneActive
<1>4. CASE \E f \in Feature : FeatureGate(f)
  <2>1. PICK f \in Feature : feature' = [feature EXCEPT ![f] = "COMPLETED"]
    BY <1>4 DEF FeatureGate
  <2>2. wave' \in [WaveOf -> WaveStatus]
    BY <1>4 DEF FeatureGate, FeaturesOK
  <2> QED BY <2>1, <2>2, FeatureKeeps DEF FeatureStatus
<1>5. CASE \E p \in Packets : Repack(p)
  BY <1>5, RequeueKeeps DEF Repack
<1>6. CASE \E p \in Packets, status \in Outcomes : Release(p, status)
  BY <1>1, <1>6 DEF Release
<1>7. CASE \E p \in Packets, source \in Source : Rework(p, source)
  BY <1>1, <1>7 DEF Rework
<1>8. CASE \E p \in Packets : Reclaim(p) \/ Lapse(p) \/ Merge(p) \/ MergeBlocked(p)
  BY <1>1, <1>8 DEF Reclaim, Lapse, Merge, MergeBlocked
<1>9. CASE \E p \in Packets : Cancel(p) \/ Retry(p)
  BY <1>1, <1>9 DEF Cancel, Retry
<1> QED BY <1>2, <1>3, <1>4, <1>5, <1>6, <1>7, <1>8, <1>9 DEF FNext, Operator

-----------------------------------------------------------------------------
LEMMA InitHolds ==
    ASSUME FInit
    PROVE  FInv
<1>1. /\ DOMAIN Plan = 1 .. Len(Plan) /\ Len(Plan) \in Nat
      /\ Plan \in [DOMAIN Plan -> [feature : Feature, wave : Nat,
                                  deps : SUBSET Nat, area : SUBSET Area]]
  <2> DEFINE Planned == [feature : Feature, wave : Nat, deps : SUBSET Nat,
                         area : SUBSET Area]
  <2>1. Plan \in Seq(Planned)
    BY FlowAssumption
  <2> HIDE DEF Planned
  <2>2. /\ DOMAIN Plan = 1 .. Len(Plan) /\ Len(Plan) \in Nat
        /\ Plan \in [DOMAIN Plan -> Planned]
    BY <2>1
  <2> QED BY <2>2 DEF Planned
<1>2. ASSUME NEW p \in DOMAIN Plan
      PROVE  packets[p] \in KnownRow /\ ~ IsBusy(packets[p])
  <2>1. /\ Plan[p].feature \in Feature /\ Plan[p].wave \in Nat
        /\ Plan[p].deps \in SUBSET Nat /\ Plan[p].area \in SUBSET Area
        /\ Plan[p].wave \in 1 .. LastWave[Plan[p].feature]
    BY <1>1, FlowAssumption
  <2>2. PICK s \in {DRAFT, READY} :
            packets[p] = Row(Plan[p].feature, Plan[p].wave, Plan[p].deps,
                             Plan[p].area, 0, "plan", s)
    BY DEF FInit
  <2>3. s \in PacketState /\ s # RUNNING /\ s # ACCEPTED
    BY DEF DRAFT, READY, RUNNING, ACCEPTED, PacketState
  <2>4. packets[p] \in PacketRow
    BY <2>1, <2>2, <2>3 DEF Row, PacketRow
  <2> QED BY <2>1, <2>2, <2>3, <2>4 DEF Row, KnownRow, IsBusy
<1>3. packets \in Seq(KnownRow) /\ Len(packets) = Len(Plan)
  <2>1. packets \in [1 .. Len(Plan) -> KnownRow]
    BY <1>1, <1>2 DEF FInit
  <2> QED BY <1>1, <2>1
<1>4. DOMAIN packets = DOMAIN Plan
  BY DEF FInit
<1>5. RowsOK(packets)
  BY <1>2, <1>3, <1>4, FlowAssumption DEF RowsOK
<1>6. feature \in [Feature -> FeatureStatus] /\ OneActive
  BY DEF FInit, FeatureStatus, OneActive
<1>7. wave \in [WaveOf -> WaveStatus]
  BY DEF FInit, WaveStatus
<1> QED BY <1>5, <1>6, <1>7 DEF FInv

LEMMA StepKeeps ==
    ASSUME FInv, [FNext]_fvars
    PROVE  FInv'
<1>1. CASE FNext
  <2>1. FeaturesOK /\ RowsOK(packets)
    BY DEF FInv, FeaturesOK
  <2>2. FeaturesOK'
    BY <1>1, <2>1, StepFeatures
  <2>3. RowsOK(packets')
    BY <1>1, <2>1, StepRows, ClaimRows, SelectedFeature DEF Calm
  <2> QED BY <2>2, <2>3 DEF FInv, FeaturesOK
<1>2. CASE UNCHANGED fvars
  BY <1>2 DEF FInv, OneActive, fvars
<1> QED BY <1>1, <1>2

(* The rows, the reservations and the feature statuses agree, for any plan. *)
THEOREM FlowInvariant == FSpec => []FInv
<1>1. FInit => FInv
  BY InitHolds
<1>2. FInv /\ [FNext]_fvars => FInv'
  BY StepKeeps
<1> QED BY <1>1, <1>2, PTL DEF FSpec

(* Every claim, gate pass, verdict and repack keeps features, waves and      *)
(* packet rows in their types.                                              *)
THEOREM FlowTyped == FSpec => []FTypeOK
<1>1. FInv => FTypeOK
  <2> SUFFICES ASSUME FInv PROVE FTypeOK
    OBVIOUS
  <2>1. packets \in Seq(KnownRow) /\ KnownRow \subseteq PacketRow
    BY DEF FInv, RowsOK, KnownRow
  <2>2. packets \in Seq(PacketRow)
    BY <2>1
  <2> QED BY <2>2 DEF FInv, RowsOK, FTypeOK
<1> QED BY <1>1, FlowInvariant, PTL

(* Packets that would write to a common place are never RUNNING or ACCEPTED *)
(* together: the claim's comparison of reservations is enough.              *)
THEOREM NeverOverlapping == FSpec => []NoOverlap
<1>1. FInv => NoOverlap
  BY DEF FInv, RowsOK, NoOverlap, Busy, State, Packets, IsBusy
<1> QED BY <1>1, FlowInvariant, PTL

(* The queue, repacks and the reactivation of degraded features never make  *)
(* two features active.                                                     *)
THEOREM OneServed == FSpec => []OneActiveFeature
<1>1. FInv => OneActiveFeature
  <2> SUFFICES ASSUME FInv PROVE OneActiveFeature
    OBVIOUS
  <2>1. WithStatus("active") = {} \/ \E f \in Feature : WithStatus("active") = {f}
    BY DEF FInv, OneActive, WithStatus
  <2>2. \/ Cardinality(WithStatus("active")) = 0
        \/ Cardinality(WithStatus("active")) = 1
    BY <2>1, FS_EmptySet, FS_Singleton
  <2> QED BY <2>2 DEF OneActiveFeature
<1> QED BY <1>1, FlowInvariant, PTL

(* A packet is started when nothing is left of an earlier wave.             *)
THEOREM WavesServedInOrder == FSpec => WavesInOrder
<1> DEFINE A == \A p \in Packets : Started(p) =>
              \A q \in Effective(Of(packets[p].feature)) :
                  packets[q].wave < packets[p].wave => Done(q)
<1>1. ASSUME FInv, FNext
      PROVE  A
  <2> SUFFICES ASSUME NEW p \in Packets, Started(p),
                      NEW q \in Effective(Of(packets[p].feature)),
                      packets[q].wave < packets[p].wave
               PROVE  Done(q)
    OBVIOUS
  <2>1. RowsOK(packets)
    BY <1>1 DEF FInv
  <2>2. State(p) = READY /\ packets'[p].state = RUNNING
    BY DEF Started
  <2>3. ~ Calm
    BY <2>2, NotBusy DEF Calm, Settles, State
  <2>4. PICK f \in Selection : Claim(f)
    BY <1>1, <2>1, <2>3, StepRows
  <2>5. f \in Feature
    BY SelectedFeature
  <2>6. PICK c \in Packets :
            /\ packets[c].feature = f
            /\ packets[c].wave = Least(OpenWaves(f)) /\ OpenWaves(f) # {}
            /\ packets' = [packets EXCEPT ![c].state = RUNNING,
                             ![c].attempts = @ + 1, ![c].held = TRUE,
                             ![c].judged = FALSE]
    BY <2>1, <2>4, <2>5, ClaimedPacket
  <2>7. p = c
    <3>1. p # c => packets'[p] = packets[p]
      BY <2>6 DEF Packets
    <3> QED BY <2>2, <3>1, NotBusy DEF State
  <2>8. q \in Packets /\ packets[q].feature = f
    BY <2>6, <2>7 DEF Effective, Of
  <2>9. packets[q].wave \in 1 .. LastWave[f]
    BY <2>1, <2>8, RowFields
  <2>10. OpenWaves(f) \subseteq Nat
    BY DEF OpenWaves
  <2>11. packets[q].wave \notin OpenWaves(f)
    <3>1. \A m \in OpenWaves(f) : Least(OpenWaves(f)) <= m
      BY <2>6, <2>10, LeastIsThere
    <3>2. Least(OpenWaves(f)) \in Nat
      BY <2>6, <2>10, LeastIsThere
    <3> QED BY <2>6, <2>7, <2>9, <3>1, <3>2
  <2>12. q \in Effective(InWave(f, packets[q].wave))
    BY <2>6, <2>7, <2>8 DEF Effective, InWave, Of
  <2> QED BY <2>9, <2>11, <2>12 DEF OpenWaves
<1>2. FInv /\ [FNext]_fvars => [A]_fvars
  BY <1>1
<1>3. FSpec => [][A]_fvars
  BY <1>2, FlowInvariant, PTL DEF FSpec
<1> QED BY <1>3 DEF WavesInOrder

-----------------------------------------------------------------------------
(* Recursion over the packets.  Both Ancestors and Standing lead from a      *)
(* packet to one with a lower, or a higher, number; that a function with     *)
(* such an equation exists, and what it returns, is shown with the least     *)
(* packet that would be an exception.                                        *)
\* A set of numbers has its least one; in the form the inductions below use.
LEMMA LeastNumber ==
    ASSUME NEW S \in SUBSET Nat, S # {}
    PROVE  \E n \in S : \A m \in S : n <= m
BY LeastIsThere

\* What follows from the definition of Ancestors for any numbering in which a
\* parent comes before its children: there is such a function.
LEMMA DownwardFunction ==
    ASSUME NEW N \in Nat, NEW par \in [1 .. N -> Nat],
           \A p \in 1 .. N : par[p] < p
    PROVE  \E F \in [1 .. N -> SUBSET Nat] : \A p \in 1 .. N :
              F[p] = IF par[p] = 0 THEN {} ELSE {par[p]} \cup F[par[p]]
<1> DEFINE Upto(F, n) == \A p \in 1 .. n :
              F[p] = IF par[p] = 0 THEN {} ELSE {par[p]} \cup F[par[p]]
           T == {n \in 0 .. N : ~ \E F \in [1 .. N -> SUBSET Nat] : Upto(F, n)}
<1>1. CASE T = {}
  <2>1. N \notin T /\ N \in 0 .. N
    <3> HIDE DEF T
    <3> QED BY <1>1
  <2>2. \E F \in [1 .. N -> SUBSET Nat] : Upto(F, N)
    BY <2>1
  <2> QED BY <2>2
<1>2. CASE T # {}
  <2>1. PICK n \in T : \A m \in T : n <= m
    <3>1. T \in SUBSET Nat
      OBVIOUS
    <3> HIDE DEF T
    <3> QED BY <1>2, <3>1, LeastNumber
  <2>2. n # 0
    <3>1. [p \in 1 .. N |-> {}] \in [1 .. N -> SUBSET Nat]
      OBVIOUS
    <3>2. Upto([p \in 1 .. N |-> {}], 0)
      OBVIOUS
    <3> QED BY <2>1, <3>1, <3>2
  <2>3. n - 1 \in 0 .. N /\ n - 1 \notin T /\ n \in 1 .. N
    <3>1. n \in 0 .. N
      OBVIOUS
    <3> HIDE DEF T
    <3> QED BY <2>1, <2>2, <3>1
  <2>4. PICK G \in [1 .. N -> SUBSET Nat] : Upto(G, n - 1)
    BY <2>3
  <2>5. PICK S \in SUBSET Nat :
            S = IF par[n] = 0 THEN {} ELSE {par[n]} \cup G[par[n]]
    <3>1. par[n] \in Nat /\ par[n] < n
      BY <2>3
    <3>2. par[n] # 0 => G[par[n]] \in SUBSET Nat
      BY <2>3, <3>1
    <3> QED BY <3>1, <3>2
  <2> DEFINE F == [G EXCEPT ![n] = S]
  <2>6. F \in [1 .. N -> SUBSET Nat]
    OBVIOUS
  <2>7. Upto(F, n)
    <3> SUFFICES ASSUME NEW p \in 1 .. n
                 PROVE  F[p] = IF par[p] = 0 THEN {} ELSE {par[p]} \cup F[par[p]]
      OBVIOUS
    <3>1. p \in 1 .. N /\ par[p] \in Nat /\ par[p] < p
      BY <2>3
    <3>2. par[p] # 0 => par[p] \in 1 .. N /\ par[p] # n
      BY <2>3, <3>1
    <3>3. par[p] # 0 => F[par[p]] = G[par[p]]
      BY <3>2
    <3>4. CASE p = n
      BY <2>3, <2>5, <3>3, <3>4
    <3>5. CASE p # n
      <4>1. p \in 1 .. n - 1 /\ F[p] = G[p]
        BY <2>3, <3>1, <3>5
      <4> QED BY <2>4, <3>3, <4>1
    <3> QED BY <3>4, <3>5
  <2> HIDE DEF F, Upto
  <2>8. n \notin T
    BY <2>6, <2>7
  <2> QED BY <2>1, <2>8
<1> QED BY <1>1, <1>2


LineageOK(rows) ==
    \A p \in DOMAIN rows :
        /\ rows[p].parent < p
        /\ rows[p].deps \subseteq DOMAIN rows
        /\ rows[p].stale => rows[p].state # DRAFT
        /\ rows[p].parent # 0 =>
              /\ rows[rows[p].parent].feature = rows[p].feature
              /\ rows[rows[p].parent].area \subseteq rows[p].area
              /\ rows[rows[p].parent].state # DRAFT

FamilyOK == RowsOK(packets) /\ LineageOK(packets)

LEMMA Numbered ==
    ASSUME FamilyOK
    PROVE  /\ Packets = 1 .. Len(packets) /\ Len(packets) \in Nat
           /\ \A p \in Packets : /\ packets[p].parent \in Nat
                                 /\ packets[p].parent < p
                                 /\ packets[p].parent # 0 => packets[p].parent \in Packets
<1>1. Packets = 1 .. Len(packets) /\ Len(packets) \in Nat
  BY DEF RowsOK, Packets, FamilyOK
<1>2. \A p \in Packets : packets[p].parent \in Nat
  BY RowFields DEF PacketRow, FamilyOK
<1>3. \A p \in Packets : packets[p].parent < p
  BY DEF LineageOK, FamilyOK, Packets
<1>4. \A p \in Packets : packets[p].parent # 0 => packets[p].parent \in Packets
  BY <1>1, <1>2, <1>3
<1> QED BY <1>1, <1>2, <1>3, <1>4

(* Ancestors is what its definition says.                                   *)
LEMMA AncestorsEquation ==
    FamilyOK => \A p \in Packets :
        Ancestors[p] = IF packets[p].parent = 0 THEN {}
                       ELSE {packets[p].parent} \cup Ancestors[packets[p].parent]
<1> SUFFICES ASSUME FamilyOK
             PROVE  \A p \in Packets :
        Ancestors[p] = IF packets[p].parent = 0 THEN {}
                       ELSE {packets[p].parent} \cup Ancestors[packets[p].parent]
  OBVIOUS
<1> DEFINE par == [p \in Packets |-> packets[p].parent]
           Body(F) == [p \in Packets |->
               IF packets[p].parent = 0 THEN {}
               ELSE {packets[p].parent} \cup F[packets[p].parent]]
<1>1. /\ par \in [Packets -> Nat] /\ \A p \in Packets : par[p] < p
      /\ Packets = 1 .. Len(packets) /\ Len(packets) \in Nat
  BY Numbered
<1>2. PICK F \in [Packets -> SUBSET Nat] : \A p \in Packets :
          F[p] = IF par[p] = 0 THEN {} ELSE {par[p]} \cup F[par[p]]
  <2>1. PICK N \in Nat : Packets = 1 .. N
    BY <1>1
  <2> HIDE DEF par
  <2>2. par \in [1 .. N -> Nat] /\ \A p \in 1 .. N : par[p] < p
    BY <1>1, <2>1
  <2>3. \E F \in [1 .. N -> SUBSET Nat] : \A p \in 1 .. N :
            F[p] = IF par[p] = 0 THEN {} ELSE {par[p]} \cup F[par[p]]
    BY <2>2, DownwardFunction
  <2> QED BY <2>1, <2>3
<1>3. F = Body(F)
  BY <1>2
<1>4. Ancestors = CHOOSE f : f = Body(f)
  BY DEF Ancestors
<1> HIDE DEF Body
<1>5. Ancestors = Body(Ancestors)
  BY <1>3, <1>4
<1> QED BY <1>5 DEF Body

(* An ancestor is a packet that was there before.                           *)
LEMMA AncestorsBefore ==
    FamilyOK => \A p \in Packets : Ancestors[p] \subseteq 1 .. p - 1
<1> SUFFICES ASSUME FamilyOK
             PROVE  \A p \in Packets : Ancestors[p] \subseteq 1 .. p - 1
  OBVIOUS
<1> DEFINE T == {p \in Packets : ~ (Ancestors[p] \subseteq 1 .. p - 1)}
<1> SUFFICES ASSUME T # {} PROVE FALSE
  OBVIOUS
<1>1. T \in SUBSET Nat
  BY Numbered
<1>2. PICK n \in T : \A m \in T : n <= m
  <2> HIDE DEF T
  <2> QED BY <1>1, LeastNumber
<1>3. n \in Packets /\ n \in Nat
  BY <1>1
<1>4. Ancestors[n] = IF packets[n].parent = 0 THEN {}
                     ELSE {packets[n].parent} \cup Ancestors[packets[n].parent]
  BY <1>3, AncestorsEquation
<1>5. packets[n].parent # 0
  BY <1>3, <1>4
<1>6. /\ packets[n].parent \in Packets /\ packets[n].parent \in Nat
      /\ packets[n].parent < n
  BY <1>3, <1>5, Numbered
<1>7. packets[n].parent \notin T
  BY <1>2, <1>3, <1>6
<1>8. Ancestors[packets[n].parent] \subseteq 1 .. packets[n].parent - 1
  BY <1>6, <1>7
<1> QED BY <1>3, <1>4, <1>5, <1>6, <1>8

(* The same for Standing: where each packet leads to a later one, or ends.   *)
LEMMA UpwardFunction ==
    ASSUME NEW N \in Nat, NEW next \in [1 .. N -> Nat],
           \A p \in 1 .. N : next[p] # 0 => next[p] \in p + 1 .. N
    PROVE  \E F \in [1 .. N -> Nat] : \A p \in 1 .. N :
              F[p] = IF next[p] = 0 THEN p ELSE F[next[p]]
<1> DEFINE Since(F, n) == \A p \in 1 .. N :
              N - n < p => F[p] = IF next[p] = 0 THEN p ELSE F[next[p]]
           T == {n \in 0 .. N : ~ \E F \in [1 .. N -> Nat] : Since(F, n)}
<1>1. CASE T = {}
  <2>1. N \notin T /\ N \in 0 .. N
    <3> HIDE DEF T
    <3> QED BY <1>1
  <2>2. PICK F \in [1 .. N -> Nat] : Since(F, N)
    BY <2>1
  <2>3. \A p \in 1 .. N : N - N < p
    OBVIOUS
  <2>4. \A p \in 1 .. N : F[p] = IF next[p] = 0 THEN p ELSE F[next[p]]
    BY <2>2, <2>3
  <2> HIDE DEF Since
  <2> QED BY <2>4
<1>2. CASE T # {}
  <2>1. PICK n \in T : \A m \in T : n <= m
    <3>1. T \in SUBSET Nat
      OBVIOUS
    <3> HIDE DEF T
    <3> QED BY <1>2, <3>1, LeastNumber
  <2>2. n # 0
    <3>1. [p \in 1 .. N |-> 0] \in [1 .. N -> Nat]
      OBVIOUS
    <3>2. Since([p \in 1 .. N |-> 0], 0)
      OBVIOUS
    <3> QED BY <2>1, <3>1, <3>2
  <2>3. n - 1 \in 0 .. N /\ n - 1 \notin T /\ n \in 1 .. N
    <3>1. n \in 0 .. N
      OBVIOUS
    <3> HIDE DEF T
    <3> QED BY <2>1, <2>2, <3>1
  <2>4. PICK G \in [1 .. N -> Nat] : Since(G, n - 1)
    BY <2>3
  <2>5. PICK q \in 1 .. N : q = N - n + 1
    BY <2>3
  <2>6. PICK s \in Nat : s = IF next[q] = 0 THEN q ELSE G[next[q]]
    <3>1. next[q] # 0 => next[q] \in 1 .. N
      OBVIOUS
    <3> QED BY <3>1
  <2> DEFINE F == [G EXCEPT ![q] = s]
  <2>7. F \in [1 .. N -> Nat]
    OBVIOUS
  <2>8. Since(F, n)
    <3> SUFFICES ASSUME NEW p \in 1 .. N, N - n < p
                 PROVE  F[p] = IF next[p] = 0 THEN p ELSE F[next[p]]
      OBVIOUS
    <3>1. q <= p
      BY <2>3, <2>5
    <3>2. next[p] # 0 => next[p] \in 1 .. N /\ next[p] # q
      BY <3>1
    <3>3. next[p] # 0 => F[next[p]] = G[next[p]]
      BY <3>2
    <3>4. CASE p = q
      BY <2>6, <3>3, <3>4
    <3>5. CASE p # q
      <4>1. N - (n - 1) < p /\ F[p] = G[p]
        BY <2>3, <2>5, <3>1, <3>5
      <4> QED BY <2>4, <3>3, <4>1
    <3> QED BY <3>4, <3>5
  <2> HIDE DEF F, Since
  <2>9. n \notin T
    BY <2>7, <2>8
  <2> QED BY <2>1, <2>9
<1> QED BY <1>1, <1>2

LEMMA ChildrenLater ==
    ASSUME FamilyOK, NEW p \in Packets
    PROVE  /\ LiveChildren(p) \subseteq p + 1 .. Len(packets)
           /\ IsFiniteSet(LiveChildren(p))
           /\ Cardinality(LiveChildren(p)) = 1 =>
                 \E c \in LiveChildren(p) : LiveChildren(p) = {c}
<1>1. Packets = 1 .. Len(packets) /\ Len(packets) \in Nat
  BY Numbered
<1>2. LiveChildren(p) \subseteq p + 1 .. Len(packets)
  <2> SUFFICES ASSUME NEW c \in LiveChildren(p)
               PROVE  c \in p + 1 .. Len(packets)
    OBVIOUS
  <2>1. c \in Packets /\ packets[c].parent = p
    BY DEF LiveChildren
  <2>2. packets[c].parent < c
    BY <2>1, Numbered
  <2> QED BY <1>1, <2>1, <2>2
<1>3. IsFiniteSet(Packets) /\ LiveChildren(p) \subseteq Packets
  BY <1>1, FS_Interval DEF LiveChildren
<1>4. IsFiniteSet(LiveChildren(p))
  BY <1>3, FS_Subset
<1> QED BY <1>2, <1>4, FS_Singleton

(* Standing is what its definition says.                                    *)
LEMMA StandingEquation ==
    ASSUME FamilyOK, NEW p \in Packets
    PROVE  /\ Cardinality(LiveChildren(p)) # 1 => Standing[p] = p
           /\ \A c \in LiveChildren(p) :
                 Cardinality(LiveChildren(p)) = 1 => Standing[p] = Standing[c]
<1> DEFINE next == [q \in Packets |-> IF Cardinality(LiveChildren(q)) = 1
                                      THEN CHOOSE c \in LiveChildren(q) : TRUE
                                      ELSE 0]
           Body(F) == [q \in Packets |->
               IF Cardinality(LiveChildren(q)) = 1
               THEN F[CHOOSE c \in LiveChildren(q) : TRUE] ELSE q]
<1>1. ASSUME NEW q \in Packets, Cardinality(LiveChildren(q)) = 1
      PROVE  /\ next[q] \in LiveChildren(q) /\ LiveChildren(q) = {next[q]}
             /\ next[q] \in q + 1 .. Len(packets) /\ next[q] # 0
  <2>1. PICK c \in LiveChildren(q) : LiveChildren(q) = {c}
    BY <1>1, ChildrenLater
  <2>2. next[q] = c
    BY <1>1, <2>1
  <2>3. c \in q + 1 .. Len(packets) /\ q \in Nat
    BY <2>1, ChildrenLater, Numbered
  <2> HIDE DEF next
  <2> QED BY <2>1, <2>2, <2>3
<1>2. \A q \in Packets : Cardinality(LiveChildren(q)) # 1 => next[q] = 0
  OBVIOUS
<1>3. PICK N \in Nat : Packets = 1 .. N /\ N = Len(packets)
  BY Numbered
<1>4. next \in [1 .. N -> Nat]
  <2>1. \A q \in Packets : next[q] \in Nat
    <3> HIDE DEF next
    <3> QED BY <1>1, <1>2, <1>3
  <2> QED BY <1>3, <2>1
<1>5. \A q \in 1 .. N : next[q] # 0 => next[q] \in q + 1 .. N
  <2> HIDE DEF next
  <2> QED BY <1>1, <1>2, <1>3
<1>6. PICK F \in [1 .. N -> Nat] : \A q \in 1 .. N :
          F[q] = IF next[q] = 0 THEN q ELSE F[next[q]]
  <2> HIDE DEF next
  <2> QED BY <1>4, <1>5, UpwardFunction
<1>7. F = Body(F)
  <2>1. ASSUME NEW q \in Packets PROVE F[q] = Body(F)[q]
    <3>1. CASE Cardinality(LiveChildren(q)) = 1
      <4>1. F[q] = F[next[q]]
        <5> HIDE DEF next
        <5> QED BY <1>1, <1>3, <1>6, <3>1
      <4> QED BY <3>1, <4>1
    <3>2. CASE Cardinality(LiveChildren(q)) # 1
      <4>1. F[q] = q
        <5> HIDE DEF next
        <5> QED BY <1>2, <1>3, <1>6, <3>2
      <4> QED BY <3>2, <4>1
    <3> QED BY <3>1, <3>2
  <2>2. DOMAIN F = DOMAIN Body(F)
    BY <1>3
  <2>3. Body(F) = [q \in Packets |-> Body(F)[q]] /\ F = [q \in Packets |-> F[q]]
    BY <1>3
  <2> HIDE DEF Body
  <2> QED BY <2>1, <2>3
<1>8. Standing = CHOOSE f : f = Body(f)
  BY DEF Standing
<1>9. Standing = Body(Standing)
  <2> HIDE DEF Body
  <2> QED BY <1>7, <1>8
<1>10. CASE Cardinality(LiveChildren(p)) # 1
  BY <1>9, <1>10
<1>11. CASE Cardinality(LiveChildren(p)) = 1
  <2>1. Standing[p] = Standing[next[p]]
    BY <1>9, <1>11
  <2> HIDE DEF next
  <2> QED BY <1>1, <1>11, <2>1
<1> QED BY <1>10, <1>11

-----------------------------------------------------------------------------
(* All that stands for d came to the same packet as d, unless a finished    *)
(* packet on the way has two live replacements.                             *)
LEMMA OneStanding ==
    ASSUME FamilyOK, NEW d \in Packets, Done(Standing[d]),
           \A q \in Lineage(d) : ~ (Forked(q) /\ Done(q))
    PROVE  \A x \in Lineage(d) : Standing[x] = Standing[d]
<1> DEFINE T == {x \in Lineage(d) : Standing[x] # Standing[d]}
<1> SUFFICES ASSUME T # {} PROVE FALSE
  OBVIOUS
<1>1. T \in SUBSET Nat /\ T \subseteq Packets
  BY Numbered DEF Lineage
<1>2. PICK x \in T : \A m \in T : x <= m
  <2> HIDE DEF T
  <2> QED BY <1>1, LeastNumber
<1>3. /\ x \in Packets /\ x \in Nat /\ x # d /\ d \in Ancestors[x]
      /\ State(x) # CANCELLED
      /\ \A a \in Ancestors[x] \ Ancestors[d] : a = d \/ State(a) # CANCELLED
  BY <1>1 DEF Lineage
<1>4. PICK y \in Packets : y = packets[x].parent /\ y < x /\ y \in Nat
  BY <1>3, AncestorsEquation, Numbered
<1>5. Ancestors[x] = {y} \cup Ancestors[y]
  BY <1>3, <1>4, AncestorsEquation, Numbered
<1>6. y \in Lineage(d)
  <2>1. CASE y = d
    BY <2>1 DEF Lineage
  <2>2. CASE y # d
    <3>1. d \in Ancestors[y]
      BY <1>3, <1>5, <2>2
    <3>2. y \notin Ancestors[d]
      <4>1. d \in 1 .. y - 1 /\ d \in Nat
        BY <3>1, AncestorsBefore, Numbered
      <4>2. y \in Ancestors[d] => y \in 1 .. d - 1
        BY AncestorsBefore
      <4> QED BY <1>4, <4>1, <4>2
    <3>3. State(y) # CANCELLED
      BY <1>3, <1>5, <2>2, <3>2
    <3> QED BY <1>3, <1>5, <3>1, <3>3 DEF Lineage
  <2> QED BY <2>1, <2>2
<1>7. Standing[y] = Standing[d]
  BY <1>2, <1>3, <1>4, <1>6
<1>8. x \in LiveChildren(y)
  BY <1>3, <1>4 DEF LiveChildren, State
<1>9. CASE Cardinality(LiveChildren(y)) = 1
  BY <1>2, <1>7, <1>8, <1>9, StandingEquation
<1>10. CASE Cardinality(LiveChildren(y)) # 1
  <2>1. Standing[y] = y
    BY <1>10, StandingEquation
  <2>2. Done(y)
    BY <1>7, <2>1
  <2>3. Cardinality(LiveChildren(y)) \in Nat /\ Cardinality(LiveChildren(y)) # 0
    BY <1>8, ChildrenLater, FS_CardinalityType, FS_EmptySet
  <2>4. Forked(y)
    BY <1>10, <2>3 DEF Forked
  <2> QED BY <1>6, <2>2, <2>4
<1> QED BY <1>9, <1>10

LEMMA ServedAll ==
    ASSUME FamilyOK, NEW d \in Packets, Done(Standing[d])
    PROVE  \/ \A q \in Effective(Lineage(d)) : Done(q)
           \/ \E q \in Lineage(d) : Forked(q) /\ Done(q)
<1> SUFFICES ASSUME \A q \in Lineage(d) : ~ (Forked(q) /\ Done(q)),
                    NEW q \in Effective(Lineage(d))
             PROVE  Done(q)
  OBVIOUS
<1>1. q \in Lineage(d) /\ LiveChildren(q) = {} /\ q \in Packets
  BY DEF Effective, Lineage
<1>2. Standing[q] = q
  BY <1>1, StandingEquation, FS_EmptySet
<1>3. Standing[q] = Standing[d]
  BY <1>1, OneStanding
<1> QED BY <1>2, <1>3

(* A feature without an open wave has no work left at all.                  *)
LEMMA NothingLeft ==
    ASSUME FamilyOK, AncestorsRetired, NEW f \in Feature, OpenWaves(f) = {}
    PROVE  \A p \in Of(f) : Done(p)
<1> DEFINE Rest == {p \in Of(f) : ~ Done(p)}
           T == {n \in 0 .. Len(packets) : Len(packets) - n \in Rest}
<1> SUFFICES ASSUME Rest # {} PROVE FALSE
  OBVIOUS
<1>1. Packets = 1 .. Len(packets) /\ Len(packets) \in Nat /\ Rest \subseteq Packets
  BY Numbered DEF Of
<1>2. T # {}
  <2>1. PICK p \in Rest : TRUE
    OBVIOUS
  <2> HIDE DEF Rest
  <2>2. Len(packets) - p \in 0 .. Len(packets) /\ Len(packets) - (Len(packets) - p) = p
    BY <1>1, <2>1
  <2> QED BY <2>1, <2>2
<1>3. PICK n \in T : \A m \in T : n <= m
  <2>1. T \in SUBSET Nat
    OBVIOUS
  <2> HIDE DEF T
  <2> QED BY <1>2, <2>1, LeastNumber
<1>4. PICK p \in Rest : p = Len(packets) - n
  OBVIOUS
<1>5. p \in Packets /\ packets[p].feature = f /\ ~ Done(p)
  BY DEF Of
<1>6. packets[p].wave \in 1 .. LastWave[f]
  BY <1>5, RowFields DEF FamilyOK
<1>7. packets[p].wave \notin OpenWaves(f)
  OBVIOUS
<1>8. p \notin Effective(InWave(f, packets[p].wave))
  BY <1>5, <1>6, <1>7 DEF OpenWaves
<1>9. PICK c \in LiveChildren(p) : TRUE
  BY <1>5, <1>8 DEF Effective, InWave, Of
<1>10. c \in p + 1 .. Len(packets)
  BY <1>5, ChildrenLater
<1>11. /\ c \in Packets /\ packets[c].parent = p /\ State(c) # CANCELLED
  BY DEF LiveChildren, State
<1>12. p # 0
  BY <1>1, <1>5
<1>13. packets[c].feature = f
  BY <1>5, <1>11, <1>12 DEF FamilyOK, LineageOK, Packets
<1>14. Done(c)
  <2>1. Len(packets) - c \in 0 .. Len(packets) /\ Len(packets) - (Len(packets) - c) = c
        /\ Len(packets) - c < n
    BY <1>1, <1>4, <1>5, <1>10
  <2>2. Len(packets) - c \notin T
    <3>1. n \in Nat
      OBVIOUS
    <3> HIDE DEF T
    <3> QED BY <1>3, <2>1, <3>1
  <2>3. c \notin Rest
    <3> HIDE DEF Rest
    <3> QED BY <2>1, <2>2
  <2> QED BY <1>11, <1>13, <2>3 DEF Of
<1>15. p \in Ancestors[c]
  BY <1>11, <1>12, AncestorsEquation
<1> QED BY <1>5, <1>11, <1>14, <1>15 DEF AncestorsRetired, Done

-----------------------------------------------------------------------------
(* What a step does to the packets' families: old rows keep their place,    *)
(* nobody leaves MERGED or CANCELLED, and a new row is a replacement.       *)
Kept(old, new) ==
    /\ new.parent = old.parent /\ new.feature = old.feature
    /\ new.deps = old.deps /\ new.area = old.area
    /\ new.state = DRAFT => old.state = DRAFT
    /\ new.stale => old.stale \/ new.state # DRAFT
    /\ old.state \in {MERGED, CANCELLED} => new.state = old.state

\* The row q is a replacement for p, as it was just made.
IsChild(r, p) ==
    /\ r.parent = p /\ r.feature = packets[p].feature /\ r.deps = packets[p].deps
    /\ packets[p].area \subseteq r.area /\ r.state = READY /\ r.stale = FALSE

Kin ==
    /\ Packets \subseteq DOMAIN packets'
    /\ \A p \in Packets : Kept(packets[p], packets'[p])
    /\ \A p \in DOMAIN packets' \ Packets :
          \E q \in Packets : IsChild(packets'[p], q) /\ packets'[q].state # DRAFT

\* No packet gets to MERGED but together with its ancestors' retirement.
Retiring ==
    \A p \in Packets :
        packets'[p].state = MERGED =>
            \/ State(p) = MERGED
            \/ \A a \in Ancestors[p] : packets'[a].state \in {MERGED, CANCELLED}

LEMMA States ==
    /\ DRAFT \notin {READY, RUNNING, ACCEPTED, REJECTED, BLOCKED_RECOVERABLE,
                     BLOCKED_FINAL, MERGED, FAILED, CANCELLED}
    /\ MERGED \notin {DRAFT, READY, RUNNING, ACCEPTED, REJECTED,
                      BLOCKED_RECOVERABLE, BLOCKED_FINAL, FAILED, CANCELLED}
    /\ CANCELLED \notin {DRAFT, READY, RUNNING, ACCEPTED, REJECTED,
                         BLOCKED_RECOVERABLE, BLOCKED_FINAL, FAILED}
BY DEF DRAFT, READY, RUNNING, ACCEPTED, REJECTED, BLOCKED_RECOVERABLE,
       BLOCKED_FINAL, MERGED, FAILED, CANCELLED

\* Every row is kept, there is no new one, and nobody merges.
LEMMA KeptKin ==
    ASSUME DOMAIN packets' = Packets,
           \A p \in Packets : /\ Kept(packets[p], packets'[p])
                              /\ packets'[p].state = MERGED => State(p) = MERGED
    PROVE  Kin /\ Retiring
BY DEF Kin, Retiring

LEMMA QuietKin ==
    ASSUME packets' = packets
    PROVE  Kin /\ Retiring
BY KeptKin DEF Kept, Packets, State

LEMMA OneRowKin ==
    ASSUME FamilyOK, NEW p \in Packets, NEW r, Kept(packets[p], r),
           packets' = [packets EXCEPT ![p] = r], r.state # MERGED
    PROVE  Kin /\ Retiring
<1>1. DOMAIN packets' = Packets
  BY DEF Packets
<1>2. packets'[p] = r /\ \A q \in Packets : q # p => packets'[q] = packets[q]
  BY DEF Packets
<1>3. \A q \in Packets : Kept(packets[q], packets[q])
  BY DEF Kept
<1> QED BY <1>1, <1>2, <1>3, KeptKin DEF State

LEMMA ClaimKin ==
    ASSUME FamilyOK, NEW f \in Feature, Claim(f)
    PROVE  Kin /\ Retiring
<1>1. PICK p \in Packets :
          /\ State(p) = READY
          /\ packets' = [packets EXCEPT ![p].state = RUNNING,
                           ![p].attempts = @ + 1, ![p].held = TRUE,
                           ![p].judged = FALSE]
  BY ClaimedPacket DEF FamilyOK
<1>2. packets[p] \in PacketRow
  BY RowFields DEF FamilyOK
<1>3. PICK n : n = packets[p].attempts + 1
  OBVIOUS
<1> DEFINE r == [packets[p] EXCEPT !.state = RUNNING, !.attempts = n,
                                   !.held = TRUE, !.judged = FALSE]
<1>4. packets' = [packets EXCEPT ![p] = r]
  BY <1>1, <1>2, <1>3 DEF PacketRow
<1>5. Kept(packets[p], r) /\ r.state # MERGED
  BY <1>1, <1>2, States DEF Kept, PacketRow, State
<1> HIDE DEF r
<1> QED BY <1>4, <1>5, OneRowKin

\* A transition from a state that is not final.
LEMMA MovedKept ==
    ASSUME FamilyOK, NEW p \in Packets, NEW s, s # DRAFT,
           State(p) \notin {MERGED, CANCELLED}
    PROVE  /\ DOMAIN Moved(p, s) = Packets
           /\ Moved(p, s)[p].state = s
           /\ \A q \in Packets : /\ Kept(packets[q], Moved(p, s)[q])
                                 /\ q # p => Moved(p, s)[q] = packets[q]
<1>1. packets[p] \in PacketRow
  BY RowFields DEF FamilyOK
<1> DEFINE r == [packets[p] EXCEPT !.state = s,
                   !.held = @ /\ s \notin ParallelReleasingStates]
<1>2. Moved(p, s) = [packets EXCEPT ![p] = r]
  BY <1>1 DEF Moved, PacketRow
<1>3. Kept(packets[p], r) /\ r.state = s
  BY <1>1 DEF Kept, PacketRow, State
<1> HIDE DEF r
<1>4. \A q \in Packets : Kept(packets[q], packets[q])
  BY DEF Kept
<1>5. /\ DOMAIN Moved(p, s) = Packets /\ Moved(p, s)[p] = r
      /\ \A q \in Packets : q # p => Moved(p, s)[q] = packets[q]
  BY <1>2 DEF Packets
<1> HIDE DEF Moved
<1> QED BY <1>3, <1>4, <1>5

LEMMA MovedKin ==
    ASSUME FamilyOK, NEW p \in Packets, NEW s, s # DRAFT, s # MERGED,
           State(p) \notin {MERGED, CANCELLED}, packets' = Moved(p, s)
    PROVE  Kin /\ Retiring
BY MovedKept, KeptKin DEF State

LEMMA TransitionKin ==
    ASSUME FamilyOK, NEW p \in Packets,
           \/ \E status \in Outcomes : Release(p, status)
           \/ Retry(p) \/ MergeBlocked(p)
    PROVE  Kin /\ Retiring
<1>1. \A status \in Outcomes : ReleaseTarget(status) \in
          {ACCEPTED, REJECTED, BLOCKED_FINAL, BLOCKED_RECOVERABLE, FAILED}
  BY FlowAssumption DEF ReleaseStatus, ReleaseTarget
<1>2. PICK s \in {ACCEPTED, REJECTED, BLOCKED_FINAL, BLOCKED_RECOVERABLE, FAILED,
                  READY} : packets' = Moved(p, s)
  BY <1>1 DEF Release, Retry, MergeBlocked
<1>3. State(p) \in {RUNNING, REJECTED, BLOCKED_RECOVERABLE, ACCEPTED}
  BY DEF Release, Retry, MergeBlocked
<1> QED BY <1>2, <1>3, States, MovedKin

LEMMA TakenKin ==
    ASSUME FamilyOK, NEW p \in Packets, Reclaim(p) \/ Cancel(p)
    PROVE  Kin /\ Retiring
<1>1. PICK s \in {READY, CANCELLED} :
          packets' = [packets EXCEPT ![p].state = s, ![p].stale = TRUE]
  BY DEF Reclaim, Cancel
<1>2. packets[p] \in PacketRow /\ packets[p].state = RUNNING
  BY RowFields DEF FamilyOK, Reclaim, Cancel, State
<1> DEFINE r == [packets[p] EXCEPT !.state = s, !.stale = TRUE]
<1>3. packets' = [packets EXCEPT ![p] = r]
  BY <1>1, <1>2 DEF PacketRow
<1>4. Kept(packets[p], r) /\ r.state # MERGED
  BY <1>2, States DEF Kept, PacketRow
<1> HIDE DEF r
<1> QED BY <1>3, <1>4, OneRowKin

LEMMA LapseKin ==
    ASSUME FamilyOK, NEW p \in Packets, Lapse(p)
    PROVE  Kin /\ Retiring
<1>1. packets[p] \in PacketRow
  BY RowFields DEF FamilyOK
<1>2. \A q \in Packets : /\ Kept(packets[q], packets'[q])
                         /\ packets'[q].state = packets[q].state
  BY <1>1 DEF Lapse, Kept, PacketRow, Packets
<1>3. DOMAIN packets' = Packets
  BY DEF Lapse, Packets
<1> QED BY <1>2, <1>3, KeptKin DEF State

LEMMA GateKin ==
    ASSUME FamilyOK, NEW f \in Feature, WaveGate(f)
    PROVE  Kin /\ Retiring
<1>1. DOMAIN packets' = Packets
  BY DEF WaveGate
<1>2. ASSUME NEW q \in Packets
      PROVE  /\ Kept(packets[q], packets'[q])
             /\ packets'[q].state = MERGED => State(q) = MERGED
  <2>1. packets[q] \in PacketRow
    BY RowFields DEF FamilyOK
  <2>2. \/ packets'[q] = packets[q]
        \/ /\ packets'[q] = [packets[q] EXCEPT !.state = READY]
           /\ State(q) = DRAFT
    BY DEF WaveGate
  <2> QED BY <2>1, <2>2, States DEF Kept, PacketRow, State
<1> QED BY <1>1, <1>2, KeptKin

-----------------------------------------------------------------------------
(* A replacement's row.                                                     *)
LEMMA AppendedTo ==
    ASSUME NEW S, NEW s \in Seq(S), NEW r \in S
    PROVE  /\ DOMAIN Append(s, r) = DOMAIN s \cup {Len(s) + 1}
           /\ Append(s, r)[Len(s) + 1] = r
           /\ \A i \in DOMAIN s : Append(s, r)[i] = s[i]
<1>1. /\ Append(s, r) \in Seq(S) /\ Len(Append(s, r)) = Len(s) + 1
      /\ DOMAIN s = 1 .. Len(s) /\ Len(s) \in Nat
      /\ DOMAIN Append(s, r) = 1 .. Len(s) + 1
  OBVIOUS
<1>2. DOMAIN Append(s, r) = DOMAIN s \cup {Len(s) + 1}
  BY <1>1
<1> QED BY <1>2

LEMMA ChildKin ==
    ASSUME FamilyOK, NEW p \in Packets, NEW source \in Source,
           NEW place \in SUBSET Area, packets[p].area \subseteq place, NEW rows,
           DOMAIN rows = Packets, rows \in Seq(PacketRow), State(p) # DRAFT,
           \A q \in Packets : Kept(packets[q], rows[q]) /\ rows[q].state = State(q),
           packets' = rows \/ packets' = Append(rows, Child(p, source, place))
    PROVE  Kin /\ Retiring
<1>1. CASE packets' = rows
  BY <1>1, KeptKin
<1>2. CASE packets' = Append(rows, Child(p, source, place))
  <2> DEFINE r == Child(p, source, place)
  <2>1. IsChild(r, p)
    BY DEF IsChild, Child, Row
  <2>0. r \in PacketRow
    <3>1. packets[p] \in PacketRow /\ p \in Nat /\ READY \in PacketState
      BY RowFields, Numbered, NotBusy DEF FamilyOK
    <3> QED BY <3>1 DEF Child, Row, PacketRow
  <2> HIDE DEF r
  <2>2. /\ DOMAIN packets' = Packets \cup {Len(rows) + 1}
        /\ packets'[Len(rows) + 1] = r
        /\ \A q \in Packets : packets'[q] = rows[q]
    <3>1. packets' = Append(rows, r)
      BY <1>2 DEF r
    <3> QED BY <2>0, <3>1, AppendedTo
  <2>3. \A q \in DOMAIN packets' \ Packets : packets'[q] = r
    BY <2>2
  <2>4. packets'[p].state # DRAFT
    BY <2>2
  <2>5. Kin
    BY <2>1, <2>2, <2>3, <2>4 DEF Kin
  <2>6. Retiring
    BY <2>2 DEF Retiring
  <2> QED BY <2>5, <2>6
<1> QED BY <1>1, <1>2

LEMMA ReworkKin ==
    ASSUME FamilyOK, NEW p \in Packets, NEW source \in Source, Rework(p, source)
    PROVE  Kin /\ Retiring
<1>0. PICK place \in Places(p, source) :
          \/ packets' = Replaced(p, source, place, [packets EXCEPT ![p].judged = TRUE])
          \/ packets' = Replaced(p, source, place, [packets EXCEPT ![p].stale = FALSE])
  BY DEF Rework
<1>a. place \in SUBSET Area /\ packets[p].area \subseteq place
  BY PlacesKeep DEF FamilyOK
<1>1. /\ packets \in Seq(PacketRow) /\ packets[p] \in PacketRow
      /\ packets \in [Packets -> PacketRow] /\ Packets = 1 .. Len(packets)
      /\ Len(packets) \in Nat
  <2>1. packets \in Seq(KnownRow) /\ KnownRow \subseteq PacketRow
    BY DEF FamilyOK, RowsOK, KnownRow
  <2>2. packets \in Seq(PacketRow)
    BY <2>1
  <2> QED BY <2>2 DEF Packets
<1>2. PICK r \in {[packets[p] EXCEPT !.judged = TRUE],
                  [packets[p] EXCEPT !.stale = FALSE]} :
          packets' = Replaced(p, source, place, [packets EXCEPT ![p] = r])
  <2>1. \/ packets' = Replaced(p, source, place, [packets EXCEPT ![p].judged = TRUE])
        \/ packets' = Replaced(p, source, place, [packets EXCEPT ![p].stale = FALSE])
    BY <1>0
  <2> QED BY <2>1
<1>3. r \in PacketRow /\ Kept(packets[p], r) /\ r.state = packets[p].state
  BY <1>1, <1>2 DEF PacketRow, Kept
<1> DEFINE rows == [packets EXCEPT ![p] = r]
<1>4. packets' = rows \/ packets' = Append(rows, Child(p, source, place))
  BY <1>2 DEF Replaced
<1>5. rows \in [1 .. Len(packets) -> PacketRow] /\ DOMAIN rows = Packets
  BY <1>1, <1>3
<1>6. rows \in Seq(PacketRow)
  BY <1>1, <1>5
<1>7. \A q \in Packets : Kept(packets[q], rows[q]) /\ rows[q].state = State(q)
  <2>1. \A q \in Packets : Kept(packets[q], packets[q])
    BY DEF Kept
  <2> QED BY <1>1, <1>3, <2>1 DEF State
<1>8. State(p) # DRAFT
  BY States DEF Rework, State, FamilyOK, LineageOK, Packets
<1> HIDE DEF rows
<1> QED BY <1>a, <1>4, <1>5, <1>6, <1>7, <1>8, ChildKin

LEMMA RepackKin ==
    ASSUME FamilyOK, NEW p \in Packets, Repack(p)
    PROVE  Kin /\ Retiring
<1>1. packets \in Seq(PacketRow) /\ DOMAIN packets = Packets
  <2>1. packets \in Seq(KnownRow) /\ KnownRow \subseteq PacketRow
    BY DEF FamilyOK, RowsOK, KnownRow
  <2> QED BY <2>1 DEF Packets
<1>2. \A q \in Packets : Kept(packets[q], packets[q]) /\ packets[q].state = State(q)
  BY DEF Kept, State
<1>3. State(p) # DRAFT /\ "architect_repack" \in Source
  BY States DEF Repack, Repackable, Source
<1>4. CASE packets' = packets
  BY <1>1, <1>2, <1>4, KeptKin
<1>5. CASE packets' # packets
  <2>1. PICK place \in Places(p, "architect_repack") :
            packets' = Append(packets, Child(p, "architect_repack", place))
    BY <1>5 DEF Repack
  <2>2. place \in SUBSET Area /\ packets[p].area \subseteq place
    BY <1>3, PlacesKeep DEF FamilyOK
  <2> QED BY <1>1, <1>2, <1>3, <2>1, <2>2, ChildKin
<1> QED BY <1>4, <1>5

-----------------------------------------------------------------------------
(* The merge.  No ancestor can be in the way of its retirement: a DRAFT has *)
(* no replacements, and an ACCEPTED one would be busy at a common place.    *)
Writers == \A p \in DOMAIN Plan : Plan[p].area # {}

EveryoneWrites == \A p \in Packets : packets[p].area # {}

LEMMA WithinArea ==
    FamilyOK => \A p \in Packets : \A a \in Ancestors[p] :
        /\ a \in Packets /\ a # p
        /\ packets[a].area \subseteq packets[p].area /\ State(a) # DRAFT
<1> SUFFICES ASSUME FamilyOK
             PROVE  \A p \in Packets : \A a \in Ancestors[p] :
        /\ a \in Packets /\ a # p
        /\ packets[a].area \subseteq packets[p].area /\ State(a) # DRAFT
  OBVIOUS
<1> DEFINE Good(p) == \A a \in Ancestors[p] :
               packets[a].area \subseteq packets[p].area /\ State(a) # DRAFT
           T == {p \in Packets : ~ Good(p)}
<1>1. T = {}
  <2> SUFFICES ASSUME T # {} PROVE FALSE
    OBVIOUS
  <2>1. T \in SUBSET Nat
    BY Numbered
  <2>2. PICK n \in T : \A m \in T : n <= m
    <3> HIDE DEF T
    <3> QED BY <2>1, LeastNumber
  <2>3. n \in Packets /\ n \in Nat /\ ~ Good(n)
    BY <2>1
  <2>4. PICK y : y = packets[n].parent
    OBVIOUS
  <2>5. y # 0 /\ y \in Packets /\ Ancestors[n] = {y} \cup Ancestors[y]
    BY <2>3, <2>4, AncestorsEquation, Numbered
  <2>6. y < n /\ y \in Nat
    BY <2>3, <2>4, Numbered
  <2>7. packets[y].area \subseteq packets[n].area /\ State(y) # DRAFT
    BY <2>3, <2>4, <2>5 DEF FamilyOK, LineageOK, Packets, State
  <2>8. Good(y)
    <3>1. y \notin T
      <4> HIDE DEF T
      <4> QED BY <2>2, <2>3, <2>6
    <3> QED BY <2>5, <3>1
  <2> QED BY <2>3, <2>5, <2>7, <2>8
<1>2. \A p \in Packets : Ancestors[p] \subseteq 1 .. p - 1
  BY AncestorsBefore
<1>3. \A p \in Packets : 1 .. p - 1 \subseteq Packets /\ p \notin 1 .. p - 1
  BY Numbered
<1> QED BY <1>1, <1>2, <1>3

LEMMA MergeKin ==
    ASSUME FamilyOK, NEW p \in Packets, Merge(p)
    PROVE  Kin /\ (EveryoneWrites => Retiring)
<1> DEFINE rows == Moved(p, MERGED)
<1>1. State(p) = ACCEPTED /\ packets' = Retire(p, rows)
  BY DEF Merge
<1>2. /\ DOMAIN rows = Packets /\ rows[p].state = MERGED
      /\ \A q \in Packets : /\ Kept(packets[q], rows[q])
                            /\ q # p => rows[q] = packets[q]
  BY <1>1, States, MovedKept
<1>3. DOMAIN packets' = Packets
  BY <1>1 DEF Retire
<1>4. rows \in [Packets -> KnownRow]
  BY MovedRows, NotBusy DEF FamilyOK
<1> HIDE DEF rows
<1>5. ASSUME NEW q \in Packets
      PROVE  /\ Kept(packets[q], packets'[q])
             /\ \/ packets'[q] = rows[q]
                \/ q \in Ancestors[p] /\ packets'[q].state = CANCELLED
             /\ q \in Ancestors[p] /\ CanTransition(rows[q].state, CANCELLED)
                   => packets'[q].state = CANCELLED
  <2>1. rows[q] \in PacketRow
    BY <1>4 DEF KnownRow
  <2>2. \/ packets'[q] = rows[q] /\ ~ (q \in Ancestors[p]
                                       /\ CanTransition(rows[q].state, CANCELLED))
        \/ /\ packets'[q] = [rows[q] EXCEPT !.state = CANCELLED]
           /\ q \in Ancestors[p] /\ CanTransition(rows[q].state, CANCELLED)
    BY <1>1 DEF Retire
  <2>3. CanTransition(rows[q].state, CANCELLED) =>
            rows[q].state \notin {MERGED, CANCELLED, DRAFT}
    BY DEF CanTransition, ValidTransitions, DRAFT, READY, RUNNING, ACCEPTED,
           REJECTED, BLOCKED_RECOVERABLE, BLOCKED_FINAL, MERGED, FAILED, CANCELLED
  <2>4. Kept(packets[q], rows[q])
    BY <1>2
  <2> QED BY <2>1, <2>2, <2>3, <2>4, States DEF Kept, PacketRow
<1>6. Kin
  BY <1>3, <1>5 DEF Kin
<1>7. ASSUME EveryoneWrites, NEW a \in Ancestors[p]
      PROVE  packets'[a].state \in {MERGED, CANCELLED}
  <2>1. /\ a \in Packets /\ a # p /\ packets[a].area \subseteq packets[p].area
        /\ State(a) # DRAFT
    BY WithinArea
  <2>2. State(a) # ACCEPTED
    <3>1. packets[a].area # {}
      BY <1>7, <2>1 DEF EveryoneWrites
    <3>2. packets[p].area \cap packets[a].area # {}
      BY <2>1, <3>1
    <3> QED BY <1>1, <2>1, <3>2 DEF FamilyOK, RowsOK, IsBusy, Packets, State
  <2>3. rows[a] = packets[a] /\ State(a) \in PacketState
    BY <1>2, <2>1, RowFields DEF FamilyOK, PacketRow, State
  <2>4. State(a) \in {MERGED, CANCELLED} \/ CanTransition(State(a), CANCELLED)
    BY <2>1, <2>2, <2>3
       DEF PacketState, CanTransition, ValidTransitions, DRAFT, READY, RUNNING,
           ACCEPTED, REJECTED, BLOCKED_RECOVERABLE, BLOCKED_FINAL, MERGED, FAILED,
           CANCELLED
  <2> QED BY <1>5, <2>1, <2>3, <2>4 DEF State
<1>8. EveryoneWrites => Retiring
  <2> SUFFICES ASSUME EveryoneWrites, NEW q \in Packets, packets'[q].state = MERGED,
                      State(q) # MERGED
               PROVE  \A a \in Ancestors[q] : packets'[a].state \in {MERGED, CANCELLED}
    BY DEF Retiring
  <2>1. packets'[q] = rows[q]
    BY <1>5, States
  <2>2. q = p
    BY <1>2, <2>1 DEF State
  <2> QED BY <1>7, <2>2
<1> QED BY <1>6, <1>8

LEMMA StepKin ==
    ASSUME FamilyOK, FNext
    PROVE  Kin /\ (EveryoneWrites => Retiring)
<1>1. CASE ClaimNext
  <2>1. PICK f \in Selection : Claim(f) \/ Degrade(f) \/ Finish(f) \/ Wait(f)
    BY <1>1 DEF ClaimNext
  <2>2. CASE Claim(f)
    BY <2>2, SelectedFeature, ClaimKin
  <2>3. CASE Degrade(f) \/ Finish(f) \/ Wait(f)
    BY <2>3, QuietKin DEF Degrade, Finish, Wait
  <2> QED BY <2>1, <2>2, <2>3
<1>2. CASE \E f \in Feature : WaveGate(f) \/ FeatureGate(f)
  BY <1>2, GateKin, QuietKin DEF FeatureGate
<1>3. CASE \E p \in Packets, status \in Outcomes : Release(p, status)
  BY <1>3, TransitionKin
<1>4. CASE \E p \in Packets, source \in Source : Rework(p, source)
  BY <1>4, ReworkKin
<1>5. CASE \E p \in Packets : Reclaim(p) \/ Lapse(p) \/ Merge(p) \/ MergeBlocked(p)
  BY <1>5, TakenKin, LapseKin, MergeKin, TransitionKin
<1>6. CASE Operator
  BY <1>6, TakenKin, TransitionKin, RepackKin DEF Operator
<1> QED BY <1>1, <1>2, <1>3, <1>4, <1>5, <1>6 DEF FNext

-----------------------------------------------------------------------------
(* The families through a step.                                             *)
LEMMA KinLineage ==
    ASSUME FamilyOK, RowsOK(packets'), Kin
    PROVE  LineageOK(packets')
<1>1. /\ Packets = 1 .. Len(packets) /\ Len(packets) \in Nat
      /\ DOMAIN packets' \subseteq Nat \ {0}
  BY Numbered DEF RowsOK
<1> SUFFICES ASSUME NEW p \in DOMAIN packets'
             PROVE  /\ packets'[p].parent < p
                    /\ packets'[p].deps \subseteq DOMAIN packets'
                    /\ packets'[p].stale => packets'[p].state # DRAFT
                    /\ packets'[p].parent # 0 =>
                          /\ packets'[packets'[p].parent].feature = packets'[p].feature
                          /\ packets'[packets'[p].parent].area \subseteq packets'[p].area
                          /\ packets'[packets'[p].parent].state # DRAFT
  BY DEF LineageOK
<1>2. CASE p \in Packets
  <2>1. Kept(packets[p], packets'[p]) /\ Packets \subseteq DOMAIN packets'
    BY <1>2 DEF Kin
  <2>2. PICK y : y = packets[p].parent
    OBVIOUS
  <2>3. /\ y < p /\ packets[p].deps \subseteq Packets
        /\ packets[p].stale => packets[p].state # DRAFT
        /\ y # 0 => /\ packets[y].feature = packets[p].feature
                    /\ packets[y].area \subseteq packets[p].area
                    /\ packets[y].state # DRAFT
    BY <1>2, <2>2 DEF FamilyOK, LineageOK, Packets
  <2>4. y # 0 => Kept(packets[y], packets'[y])
    BY <1>2, <2>2, Numbered DEF Kin
  <2> QED BY <2>1, <2>2, <2>3, <2>4 DEF Kept
<1>3. CASE p \notin Packets
  <2>1. PICK q \in Packets : IsChild(packets'[p], q) /\ packets'[q].state # DRAFT
    BY <1>3 DEF Kin
  <2>2. q < p
    BY <1>1, <1>3
  <2>3. packets[q].deps \subseteq DOMAIN packets' /\ Kept(packets[q], packets'[q])
    BY DEF FamilyOK, LineageOK, Packets, Kin
  <2> QED BY <2>1, <2>2, <2>3 DEF IsChild, Kept
<1> QED BY <1>2, <1>3

LEMMA StepFamily ==
    ASSUME FInv, LineageOK(packets), [FNext]_fvars
    PROVE  FInv' /\ LineageOK(packets')
<1>1. FInv'
  BY StepKeeps
<1>2. CASE FNext
  <2>1. FamilyOK
    BY DEF FamilyOK, FInv
  <2>2. RowsOK(packets')
    BY <1>1 DEF FInv
  <2>3. Kin
    BY <1>2, <2>1, StepKin
  <2> QED BY <1>1, <2>1, <2>2, <2>3, KinLineage
<1>3. CASE UNCHANGED fvars
  BY <1>1, <1>3 DEF fvars
<1> QED BY <1>2, <1>3

LEMMA InitFamily ==
    ASSUME FInit
    PROVE  LineageOK(packets)
<1>1. FInv
  BY InitHolds
<1>2. DOMAIN packets = DOMAIN Plan /\ DOMAIN packets \subseteq Nat \ {0}
  BY <1>1 DEF FInit, FInv, RowsOK
<1>3. ASSUME NEW p \in DOMAIN packets
      PROVE  /\ packets[p].parent = 0 /\ packets[p].deps = Plan[p].deps
             /\ packets[p].stale = FALSE
  BY <1>2 DEF FInit, Row
<1>4. \A p \in DOMAIN packets : p \in Nat /\ 0 < p
  BY <1>2
<1> QED BY <1>2, <1>3, <1>4, FlowAssumption DEF LineageOK

\* What is known of the rows in every reachable state.
FamilyInv == FInv /\ LineageOK(packets)

(* Who replaces whom is a forest in the order of creation, and a replacement *)
(* keeps the feature and the places of its parent, which is not DRAFT.       *)
THEOREM FamilyInvariant == FSpec => []FamilyInv
<1>1. FInit => FamilyInv
  BY InitHolds, InitFamily DEF FamilyInv
<1>2. FamilyInv /\ [FNext]_fvars => FamilyInv'
  BY StepFamily DEF FamilyInv
<1> QED BY <1>1, <1>2, PTL DEF FSpec

LEMMA FamilyIsOK == FamilyInv => FamilyOK
BY DEF FamilyInv, FInv, FamilyOK

\* The same, after a step.
LEMMA FamilyIsOKNext == FamilyInv' => FamilyOK'
BY FamilyIsOK, PTL

LEMMA EquationNext ==
    FamilyOK' => \A p \in DOMAIN packets' :
        Ancestors'[p] = IF packets'[p].parent = 0 THEN {}
                        ELSE {packets'[p].parent} \cup Ancestors'[packets'[p].parent]
<1>1. (FamilyOK => \A p \in Packets :
        Ancestors[p] = IF packets[p].parent = 0 THEN {}
                       ELSE {packets[p].parent} \cup Ancestors[packets[p].parent])'
  BY AncestorsEquation, PTL
<1> QED BY <1>1 DEF Packets

(* Old packets keep their ancestors; a new one has its parent's, and it.    *)
LEMMA SameAncestors ==
    ASSUME FamilyOK, FamilyOK', Kin
    PROVE  /\ \A p \in Packets : Ancestors'[p] = Ancestors[p]
           /\ \A p \in DOMAIN packets' \ Packets :
                 \E q \in Packets : /\ IsChild(packets'[p], q)
                                    /\ Ancestors'[p] = {q} \cup Ancestors[q]
<1>1. PICK A : A = Ancestors'
  OBVIOUS
<1>2. PICK new : new = packets'
  OBVIOUS
<1>3. \A p \in DOMAIN new :
          A[p] = IF new[p].parent = 0 THEN {}
                 ELSE {new[p].parent} \cup A[new[p].parent]
  BY <1>1, <1>2, EquationNext
<1>4. /\ Packets \subseteq DOMAIN new
      /\ \A p \in Packets : new[p].parent = packets[p].parent
      /\ \A p \in DOMAIN new \ Packets : \E q \in Packets : IsChild(new[p], q)
  BY <1>2 DEF Kin, Kept
<1> DEFINE T == {p \in Packets : A[p] # Ancestors[p]}
<1>5. T = {}
  <2> SUFFICES ASSUME T # {} PROVE FALSE
    OBVIOUS
  <2>1. T \in SUBSET Nat
    BY Numbered
  <2>2. PICK n \in T : \A m \in T : n <= m
    <3> HIDE DEF T
    <3> QED BY <2>1, LeastNumber
  <2>3. n \in Packets /\ n \in Nat /\ A[n] # Ancestors[n]
    BY <2>1
  <2>4. PICK y : y = packets[n].parent
    OBVIOUS
  <2>5. /\ A[n] = IF y = 0 THEN {} ELSE {y} \cup A[y]
        /\ Ancestors[n] = IF y = 0 THEN {} ELSE {y} \cup Ancestors[y]
    BY <1>3, <1>4, <2>3, <2>4, AncestorsEquation
  <2>6. y # 0 => y \in Packets /\ y < n /\ y \in Nat
    BY <2>3, <2>4, Numbered
  <2>7. y # 0 => y \notin T
    <3> HIDE DEF T
    <3> QED BY <2>2, <2>3, <2>6
  <2> QED BY <2>3, <2>5, <2>6, <2>7
<1>6. \A p \in Packets : A[p] = Ancestors[p]
  BY <1>5
<1>7. ASSUME NEW p \in DOMAIN new \ Packets
      PROVE  \E q \in Packets : IsChild(new[p], q) /\ A[p] = {q} \cup Ancestors[q]
  <2>1. PICK q \in Packets : IsChild(new[p], q)
    BY <1>4
  <2>2. q # 0 /\ new[p].parent = q
    BY <2>1, Numbered DEF IsChild
  <2>3. A[p] = {q} \cup A[q]
    BY <1>3, <2>2
  <2> QED BY <1>6, <2>1, <2>3
<1> QED BY <1>1, <1>2, <1>6, <1>7

-----------------------------------------------------------------------------
(* The retirement.                                                          *)
LEMMA InitRetired ==
    ASSUME FInit
    PROVE  AncestorsRetired /\ LeftoversAreStale
<1>1. DOMAIN Plan = DOMAIN packets
  BY DEF FInit
<1>2. \A p \in Packets : State(p) # MERGED
  BY <1>1 DEF FInit, Row, State, Packets, READY, DRAFT, MERGED
<1>3. FInv
  BY InitHolds
<1>4. \A p \in Packets : packets[p].feature \in Feature
  BY <1>3, RowFields DEF FInv
<1>5. \A f \in Feature : feature[f] = "queued"
  BY DEF FInit
<1> QED BY <1>2, <1>4, <1>5 DEF AncestorsRetired, LeftoversAreStale

LEMMA WritersKeep ==
    ASSUME EveryoneWrites, Kin
    PROVE  EveryoneWrites'
BY DEF EveryoneWrites, Kin, Kept, IsChild, Packets

LEMMA StepRetired ==
    ASSUME FamilyInv, FamilyInv', AncestorsRetired, Kin, Retiring
    PROVE  AncestorsRetired'
<1>1. FamilyOK /\ FamilyOK'
  BY FamilyIsOK, FamilyIsOKNext
<1>2. \A p \in Packets : Ancestors'[p] = Ancestors[p]
  BY <1>1, SameAncestors
<1>3. \A p \in DOMAIN packets' \ Packets : packets'[p].state # MERGED
  BY States DEF Kin, IsChild
<1>4. ASSUME NEW p \in Packets, packets'[p].state = MERGED, NEW a \in Ancestors[p]
      PROVE  packets'[a].state \in {MERGED, CANCELLED}
  <2>1. CASE State(p) # MERGED
    BY <1>4, <2>1 DEF Retiring
  <2>2. CASE State(p) = MERGED
    <3>1. a \in Packets /\ State(a) \in {MERGED, CANCELLED}
      BY <1>1, <1>4, <2>2, WithinArea DEF AncestorsRetired, Done
    <3> QED BY <3>1 DEF Kin, Kept, State
  <2> QED BY <2>1, <2>2
<1> QED BY <1>2, <1>3, <1>4 DEF AncestorsRetired, Done, State, Packets

(* A feature becomes done or COMPLETED when all of it is MERGED or CANCELLED. *)
Over(f) == feature[f] \in {"done", "COMPLETED"}

LEMMA FeatureOver ==
    ASSUME FamilyInv, AncestorsRetired, FNext, NEW g \in Feature,
           feature'[g] \in {"done", "COMPLETED"}
    PROVE  \/ Over(g)
           \/ packets' = packets /\ \A p \in Of(g) : Done(p)
<1>1. FamilyOK /\ feature \in [Feature -> FeatureStatus]
  BY FamilyIsOK DEF FamilyInv, FInv
<1>2. CASE ClaimNext
  <2>1. PICK f \in Selection : Claim(f) \/ Degrade(f) \/ Finish(f) \/ Wait(f)
    BY <1>2 DEF ClaimNext
  <2>2. f \in Feature
    BY SelectedFeature
  <2>3. CASE Finish(f)
    <3>1. \A p \in Of(f) : Done(p)
      BY <1>1, <2>2, <2>3, NothingLeft DEF Finish, Finished
    <3>2. g # f => feature'[g] = feature[g]
      BY <1>1, <2>3 DEF Finish
    <3>3. packets' = packets
      BY <2>3 DEF Finish
    <3> QED BY <3>1, <3>2, <3>3 DEF Over
  <2>4. CASE Claim(f) \/ Degrade(f) \/ Wait(f)
    <3>1. PICK s \in {"active", "degraded"} : feature' = [feature EXCEPT ![f] = s]
      BY <2>4 DEF Claim, Degrade, Wait
    <3>2. feature'[f] \notin {"done", "COMPLETED"}
      BY <1>1, <2>2, <3>1
    <3>3. g # f => feature'[g] = feature[g]
      BY <1>1, <3>1
    <3> QED BY <3>2, <3>3 DEF Over
  <2> QED BY <2>1, <2>3, <2>4
<1>3. CASE \E f \in Feature : FeatureGate(f)
  <2>1. PICK f \in Feature : FeatureGate(f)
    BY <1>3
  <2>2. /\ packets' = packets /\ \A p \in Of(f) : Done(p)
        /\ g # f => feature'[g] = feature[g]
    BY <1>1, <2>1 DEF FeatureGate, AllDone
  <2> QED BY <2>2 DEF Over
<1>4. CASE \E p \in Packets : Repack(p)
  <2>1. PICK p \in Packets : Requeue(p)
    BY <1>4 DEF Repack
  <2>2. packets[p].feature \in Feature
    BY <1>1, RowFields DEF FamilyOK
  <2>3. PICK s \in {"active", "queued"} :
            feature' = [feature EXCEPT ![packets[p].feature] = s]
    BY <2>1 DEF Requeue
  <2> QED BY <1>1, <2>2, <2>3 DEF Over
<1>5. CASE UNCHANGED feature
  BY <1>5 DEF Over
<1>6. (\E f \in Feature : WaveGate(f)) => UNCHANGED feature
  BY DEF WaveGate
<1>7. (\E p \in Packets, status \in Outcomes : Release(p, status)) => UNCHANGED feature
  BY DEF Release
<1>8. (\E p \in Packets, source \in Source : Rework(p, source)) => UNCHANGED feature
  BY DEF Rework
<1>9. (\E p \in Packets : Reclaim(p) \/ Lapse(p) \/ Merge(p) \/ MergeBlocked(p))
          => UNCHANGED feature
  BY DEF Reclaim, Lapse, Merge, MergeBlocked
<1>10. (\E p \in Packets : Cancel(p) \/ Retry(p)) => UNCHANGED feature
  BY DEF Cancel, Retry
<1> HIDE DEF Over
<1> QED BY <1>2, <1>3, <1>4, <1>5, <1>6, <1>7, <1>8, <1>9, <1>10 DEF FNext, Operator

LEMMA StepLeftovers ==
    ASSUME FamilyInv, FamilyInv', AncestorsRetired, LeftoversAreStale, Kin, FNext
    PROVE  LeftoversAreStale'
<1>1. FamilyOK /\ FamilyOK'
  BY FamilyIsOK, FamilyIsOKNext
<1>2. /\ \A p \in Packets : Ancestors'[p] = Ancestors[p]
      /\ \A p \in DOMAIN packets' \ Packets :
            \E q \in Packets : /\ IsChild(packets'[p], q)
                               /\ Ancestors'[p] = {q} \cup Ancestors[q]
  BY <1>1, SameAncestors
<1> DEFINE Ended(p) == packets'[p].state \in {MERGED, CANCELLED}
<1>3. \A p \in Packets : Done(p) => Ended(p)
  BY DEF Kin, Kept, Done, State
<1>4. \A p \in Packets : packets'[p].feature = packets[p].feature
                          /\ packets[p].feature \in Feature
  BY <1>1, RowFields DEF Kin, Kept, FamilyOK
<1>5. ASSUME NEW q \in Packets,
             feature'[packets[q].feature] \in {"done", "COMPLETED"},
             Over(packets[q].feature)
      PROVE  Ended(q) \/ \E a \in Ancestors[q] : Ended(a)
  <2>1. Done(q) \/ \E a \in Ancestors[q] : Done(a)
    BY <1>5 DEF LeftoversAreStale, Over
  <2>2. \A a \in Ancestors[q] : a \in Packets
    BY <1>1, WithinArea
  <2> HIDE DEF Ended
  <2> QED BY <1>3, <2>1, <2>2
<1>6. ASSUME NEW p \in DOMAIN packets',
             feature'[packets'[p].feature] \in {"done", "COMPLETED"}
      PROVE  Ended(p) \/ \E a \in Ancestors'[p] : Ended(a)
  <2>1. CASE p \in Packets
    <3>1. CASE Over(packets[p].feature)
      BY <1>2, <1>4, <1>5, <1>6, <2>1, <3>1
    <3>2. CASE ~ Over(packets[p].feature)
      <4>1. \A r \in Of(packets[p].feature) : Done(r)
        BY <1>4, <1>6, <2>1, <3>2, FeatureOver
      <4>2. Done(p)
        BY <2>1, <4>1 DEF Of
      <4> QED BY <1>3, <2>1, <4>2
    <3> QED BY <3>1, <3>2
  <2>2. CASE p \notin Packets
    <3>1. PICK q \in Packets : /\ IsChild(packets'[p], q)
                               /\ Ancestors'[p] = {q} \cup Ancestors[q]
      BY <1>2, <2>2
    <3>2. packets'[p].feature = packets[q].feature
      BY <3>1 DEF IsChild
    <3>3. Over(packets[q].feature)
      <4>1. packets' # packets
        BY <2>2 DEF Packets
      <4> QED BY <1>4, <1>6, <3>2, <4>1, FeatureOver
    <3>4. Ended(q) \/ \E a \in Ancestors[q] : Ended(a)
      BY <1>5, <1>6, <3>2, <3>3
    <3> QED BY <3>1, <3>4
  <2> QED BY <2>1, <2>2
<1> HIDE DEF Ended
<1>7. \A p \in DOMAIN packets' : Ended(p) <=> Done(p)'
  BY DEF Ended, Done, State
<1>8. \A p \in DOMAIN packets' : \A a \in Ancestors'[p] : Ended(a) <=> Done(a)'
  BY DEF Ended, Done, State
<1> QED BY <1>6, <1>7, <1>8 DEF LeftoversAreStale, Packets

RetiredInv ==
    FamilyInv /\ EveryoneWrites /\ AncestorsRetired /\ LeftoversAreStale

LEMMA RetiredInvariant == Writers /\ FSpec => []RetiredInv
<1>1. Writers /\ FInit => RetiredInv
  <2> SUFFICES ASSUME Writers, FInit PROVE RetiredInv
    OBVIOUS
  <2>1. EveryoneWrites
    BY DEF Writers, EveryoneWrites, FInit, Row, Packets
  <2>2. FamilyInv
    BY InitHolds, InitFamily DEF FamilyInv
  <2> QED BY <2>1, <2>2, InitRetired DEF RetiredInv
<1>2. RetiredInv /\ [FNext]_fvars => RetiredInv'
  <2> SUFFICES ASSUME RetiredInv, [FNext]_fvars PROVE RetiredInv'
    OBVIOUS
  <2>1. FamilyInv /\ FamilyInv'
    BY StepFamily DEF FamilyInv, RetiredInv
  <2>2. CASE FNext
    <3>1. Kin /\ Retiring
      BY <2>1, <2>2, FamilyIsOK, StepKin DEF RetiredInv
    <3> QED BY <2>1, <2>2, <3>1, WritersKeep, StepRetired, StepLeftovers
            DEF RetiredInv
  <2>3. CASE UNCHANGED fvars
    <3>1. packets' = packets /\ feature' = feature
      BY <2>3 DEF fvars
    <3>2. Ancestors' = Ancestors
      BY <3>1 DEF Ancestors, Packets
    <3> QED BY <2>1, <3>1, <3>2 DEF RetiredInv, EveryoneWrites, AncestorsRetired,
               LeftoversAreStale, Done, State, Packets
  <2> QED BY <2>2, <2>3
<1> QED BY <1>1, <1>2, PTL DEF FSpec

(* Nothing a merged replacement stands for can be claimed again, if every   *)
(* packet of the plan has a place to write to.                              *)
THEOREM AncestorsStayRetired == Writers /\ FSpec => []AncestorsRetired
BY RetiredInvariant, PTL DEF RetiredInv

(* What is left in a done feature was asked for by an execution that had    *)
(* already lost its packet.                                                 *)
THEOREM OnlyStaleLeftovers == Writers /\ FSpec => []LeftoversAreStale
BY RetiredInvariant, PTL DEF RetiredInv

(* A packet starts when all that stands for its dependencies is finished.   *)
THEOREM DependenciesAreServed == FSpec => DependenciesServed
<1> DEFINE A == \A p \in Packets : Started(p) =>
              \A d \in packets[p].deps :
                  \/ \A q \in Effective(Lineage(d)) : Done(q)
                  \/ \E q \in Lineage(d) : Forked(q) /\ Done(q)
<1>1. ASSUME FamilyInv, FNext
      PROVE  A
  <2> SUFFICES ASSUME NEW p \in Packets, Started(p), NEW d \in packets[p].deps
               PROVE  \/ \A q \in Effective(Lineage(d)) : Done(q)
                      \/ \E q \in Lineage(d) : Forked(q) /\ Done(q)
    OBVIOUS
  <2>1. RowsOK(packets) /\ FamilyOK
    BY <1>1, FamilyIsOK DEF FamilyOK
  <2>2. State(p) = READY /\ packets'[p].state = RUNNING
    BY DEF Started
  <2>3. ~ Calm
    BY <2>2, NotBusy DEF Calm, Settles, State
  <2>4. PICK f \in Selection : Claim(f)
    BY <1>1, <2>1, <2>3, StepRows
  <2>5. PICK c \in Candidates(f) :
            /\ c \in Packets
            /\ packets' = [packets EXCEPT ![c].state = RUNNING,
                             ![c].attempts = @ + 1, ![c].held = TRUE,
                             ![c].judged = FALSE]
    BY <2>1, <2>4, SelectedFeature, ClaimedPacket
  <2>6. p = c
    <3>1. p # c => packets'[p] = packets[p]
      BY <2>5 DEF Packets
    <3> QED BY <2>2, <3>1, NotBusy DEF State
  <2>7. DependenciesSatisfied(p)
    BY <2>5, <2>6 DEF Candidates
  <2>8. d \in Packets /\ Done(Standing[d])
    BY <2>1, <2>7 DEF DependenciesSatisfied, FamilyOK, LineageOK, Packets
  <2> QED BY <2>1, <2>8, ServedAll
<1>2. FamilyInv /\ [FNext]_fvars => [A]_fvars
  BY <1>1
<1>3. FSpec => [][A]_fvars
  BY <1>2, FamilyInvariant, PTL DEF FSpec
<1> QED BY <1>3 DEF DependenciesServed
=============================================================================
