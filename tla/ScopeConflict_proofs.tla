--------------------------- MODULE ScopeConflict_proofs ---------------------------
(***************************************************************************)
(* Proofs about ScopeConflict: for every set of packets, of entries and of  *)
(* files, what the conflict policy lets run together shares a file only in  *)
(* the one way SharedOnlyBelowDirectory names, the policy is exact for      *)
(* entries without patterns, and ScopeGuard lets through what               *)
(* RuntimeScopeEnforcer stops only in the two cases of                      *)
(* GuardWiderInTwoCases.                                                    *)
(*                                                                          *)
(* Matches and Normalized are recursive functions, over a pattern and over  *)
(* an entry.  Their equations are proved from the least index at which they *)
(* could fail, and so is what they are used for: a pattern's plain          *)
(* beginning is the beginning of all it matches (ReachedPlain), and only    *)
(* the empty names are lost (KeptNames, KeptPlain).                         *)
(***************************************************************************)
EXTENDS ScopeConflict, WellFoundedInduction, TLAPS

(* A set of numbers has a least one.                                        *)
LEMMA LeastNumber ==
    ASSUME NEW S \in SUBSET Nat, S # {}
    PROVE  \E n \in S : \A m \in S : n <= m
<1>1. \E n \in S : \A m \in S : ~ (<<m, n>> \in OpToRel(<, Nat))
  BY NatLessThanWellFounded, WFMin
<1>2. PICK n \in S : \A m \in S : ~ (<<m, n>> \in OpToRel(<, Nat))
  BY <1>1
<1>3. \A m \in S : n <= m
  <2> TAKE m \in S
  <2>1. m \in Nat /\ n \in Nat
    OBVIOUS
  <2>2. ~ (m < n)
    BY <1>2, <2>1 DEF OpToRel
  <2> QED BY <2>1, <2>2
<1> QED BY <1>3

-----------------------------------------------------------------------------
(* Prefixes.                                                                *)

\* IsPrefix compares component by component.
LEMMA PrefixPoint ==
    ASSUME NEW S, NEW s \in Seq(S), NEW t \in Seq(S)
    PROVE  IsPrefix(s, t) <=>
              Len(s) <= Len(t) /\ \A i \in 1 .. Len(s) : s[i] = t[i]
<1>1. ASSUME Len(s) <= Len(t)
      PROVE  /\ SubSeq(s, 1, Len(s)) \in Seq(S)
             /\ Len(SubSeq(s, 1, Len(s))) = Len(s)
             /\ \A i \in 1 .. Len(s) : SubSeq(s, 1, Len(s))[i] = s[i]
             /\ SubSeq(t, 1, Len(s)) \in Seq(S)
             /\ Len(SubSeq(t, 1, Len(s))) = Len(s)
             /\ \A i \in 1 .. Len(s) : SubSeq(t, 1, Len(s))[i] = t[i]
  BY <1>1
<1>2. ASSUME Len(s) <= Len(t), \A i \in 1 .. Len(s) : s[i] = t[i]
      PROVE  SubSeq(s, 1, Len(s)) = SubSeq(t, 1, Len(s))
  BY <1>1, <1>2
<1> QED BY <1>1, <1>2 DEF IsPrefix

(* Two beginnings of one path are comparable.                               *)
LEMMA Comparable ==
    ASSUME NEW S, NEW s \in Seq(S), NEW t \in Seq(S), NEW f \in Seq(S),
           IsPrefix(s, f), IsPrefix(t, f)
    PROVE  IsPrefix(s, t) \/ IsPrefix(t, s)
BY PrefixPoint

\* A sequence and one more component.
LEMMA AppendedTo ==
    ASSUME NEW S, NEW s \in Seq(S), NEW x \in S
    PROVE  /\ Append(s, x) \in Seq(S)
           /\ Range(Append(s, x)) = Range(s) \cup {x}
<1>1. /\ Append(s, x) \in Seq(S) /\ DOMAIN Append(s, x) = 1 .. Len(s) + 1
      /\ DOMAIN s = 1 .. Len(s) /\ Len(s) \in Nat
      /\ \A j \in 1 .. Len(s) : Append(s, x)[j] = s[j]
      /\ Append(s, x)[Len(s) + 1] = x
  OBVIOUS
<1>2. DOMAIN Append(s, x) = DOMAIN s \cup {Len(s) + 1}
  BY <1>1
<1> QED BY <1>1, <1>2 DEF Range

-----------------------------------------------------------------------------
(* What is left of an entry: normalize_scope.                               *)

\* The equations of the recursive function Kept.
LEMMA KeptEquation ==
    ASSUME NEW S, NEW entry \in Seq(S)
    PROVE  /\ Kept(entry)[0] = <<>>
           /\ \A i \in 1 .. Len(entry) :
                 Kept(entry)[i] = IF entry[i] \in Nothing THEN Kept(entry)[i - 1]
                                  ELSE Append(Kept(entry)[i - 1], entry[i])
<1> DEFINE L == Len(entry)
           Body(F) == [i \in 0 .. L |->
               IF i = 0 THEN <<>>
               ELSE IF entry[i] \in Nothing THEN F[i - 1]
               ELSE Append(F[i - 1], entry[i])]
           Upto(F, n) == \A i \in 0 .. n : F[i] = Body(F)[i]
           T == {n \in 0 .. L : ~ \E F \in [0 .. L -> Seq(S)] : Upto(F, n)}
<1>1. L \in Nat
  OBVIOUS
<1>2. T = {}
  <2> SUFFICES ASSUME T # {} PROVE FALSE
    OBVIOUS
  <2>1. PICK n \in T : \A m \in T : n <= m
    <3>1. T \in SUBSET Nat
      OBVIOUS
    <3> HIDE DEF T
    <3> QED BY <3>1, LeastNumber
  <2>2. n \in 0 .. L
    OBVIOUS
  <2>3. n # 0
    <3>1. [i \in 0 .. L |-> <<>>] \in [0 .. L -> Seq(S)]
      OBVIOUS
    <3>2. Upto([i \in 0 .. L |-> <<>>], 0)
      OBVIOUS
    <3> HIDE DEF Upto
    <3>3. 0 \notin T
      BY <3>1, <3>2
    <3> QED BY <2>1, <3>3
  <2>4. n - 1 \in 0 .. L /\ n - 1 \notin T /\ n \in 1 .. L
    <3> HIDE DEF T
    <3> QED BY <1>1, <2>1, <2>2, <2>3
  <2>5. PICK G \in [0 .. L -> Seq(S)] : Upto(G, n - 1)
    BY <2>4
  <2>6. PICK s \in Seq(S) : s = Body(G)[n]
    <3>1. G[n - 1] \in Seq(S) /\ entry[n] \in S
      <4>1. G[n - 1] \in Seq(S)
        BY <2>4
      <4> QED BY <2>4, <4>1
    <3>2. Append(G[n - 1], entry[n]) \in Seq(S)
      BY <3>1
    <3>3. Body(G)[n] \in {G[n - 1], Append(G[n - 1], entry[n])}
      BY <2>2, <2>3
    <3> QED BY <3>1, <3>2, <3>3
  <2> DEFINE F == [G EXCEPT ![n] = s]
  <2>7. F \in [0 .. L -> Seq(S)]
    OBVIOUS
  <2>8. Upto(F, n)
    <3> SUFFICES ASSUME NEW i \in 0 .. n PROVE F[i] = Body(F)[i]
      OBVIOUS
    <3>1. i \in 0 .. L /\ (i # 0 => i - 1 \in 0 .. L /\ i - 1 # n)
      BY <2>2
    <3>2. i # 0 => F[i - 1] = G[i - 1]
      BY <3>1
    <3>3. Body(F)[i] = Body(G)[i]
      BY <3>1, <3>2
    <3>4. CASE i = n
      BY <2>2, <2>6, <3>3, <3>4
    <3>5. CASE i # n
      <4>1. i \in 0 .. n - 1 /\ F[i] = G[i]
        BY <2>2, <3>1, <3>5
      <4>2. G[i] = Body(G)[i]
        BY <2>5, <4>1
      <4> QED BY <3>3, <4>1, <4>2
    <3> QED BY <3>4, <3>5
  <2> HIDE DEF F, Upto
  <2>9. n \notin T
    BY <2>7, <2>8
  <2> QED BY <2>1, <2>9
<1>3. PICK F \in [0 .. L -> Seq(S)] : Upto(F, L)
  <2>1. L \notin T /\ L \in 0 .. L
    <3> HIDE DEF T
    <3> QED BY <1>1, <1>2
  <2> HIDE DEF Upto
  <2> QED BY <2>1
<1>4. F = Body(F)
  BY <1>3
<1>5. Kept(entry) = CHOOSE F1 : F1 = Body(F1)
  BY DEF Kept
<1> HIDE DEF Body
<1>6. Kept(entry) = Body(Kept(entry))
  BY <1>4, <1>5
<1>7. \A i \in 0 .. L : Kept(entry)[i] = Body(Kept(entry))[i]
  BY <1>6
<1>8. Kept(entry)[0] = <<>>
  BY <1>1, <1>7 DEF Body
<1>9. ASSUME NEW i \in 1 .. Len(entry)
      PROVE  Kept(entry)[i] = IF entry[i] \in Nothing THEN Kept(entry)[i - 1]
                              ELSE Append(Kept(entry)[i - 1], entry[i])
  <2>1. i \in 0 .. L /\ i # 0
    OBVIOUS
  <2>2. Kept(entry)[i] = Body(Kept(entry))[i]
    BY <1>7, <2>1
  <2> QED BY <2>1, <2>2 DEF Body
<1> QED BY <1>8, <1>9

\* The names that are left are those of the entry, but for the empty ones.
LEMMA KeptNames ==
    ASSUME NEW S, NEW entry \in Seq(S), NEW n \in 0 .. Len(entry)
    PROVE  /\ Kept(entry)[n] \in Seq(S)
           /\ Range(Kept(entry)[n]) = {entry[k] : k \in 1 .. n} \ Nothing
<1> DEFINE K == Kept(entry)
           Good(i) == /\ K[i] \in Seq(S)
                      /\ Range(K[i]) = {entry[k] : k \in 1 .. i} \ Nothing
           T == {i \in 0 .. Len(entry) : ~ Good(i)}
<1> SUFFICES ASSUME T # {} PROVE FALSE
  OBVIOUS
<1>1. PICK i \in T : \A m \in T : i <= m
  <2>1. T \in SUBSET Nat
    OBVIOUS
  <2> HIDE DEF T
  <2> QED BY <2>1, LeastNumber
<1>2. i \in 0 .. Len(entry) /\ ~ Good(i)
  OBVIOUS
<1> HIDE DEF K
<1>3. i # 0
  <2>1. K[0] = <<>>
    BY KeptEquation DEF K
  <2>2. Range(<<>>) = {} /\ <<>> \in Seq(S)
    BY DEF Range
  <2>3. {entry[k] : k \in 1 .. 0} = {}
    OBVIOUS
  <2> QED BY <1>2, <2>1, <2>2, <2>3
<1>4. i - 1 \in 0 .. Len(entry) /\ i \in 1 .. Len(entry) /\ i - 1 \notin T
  <2> HIDE DEF T
  <2> QED BY <1>1, <1>2, <1>3
<1>5. Good(i - 1)
  BY <1>4
<1>6. K[i] = IF entry[i] \in Nothing THEN K[i - 1] ELSE Append(K[i - 1], entry[i])
  BY <1>4, KeptEquation DEF K
<1>7. {entry[k] : k \in 1 .. i} = {entry[k] : k \in 1 .. i - 1} \cup {entry[i]}
  <2>1. 1 .. i = (1 .. i - 1) \cup {i}
    BY <1>4
  <2> QED BY <2>1
<1>8. entry[i] \in S
  BY <1>4
<1>9. CASE entry[i] \in Nothing
  BY <1>5, <1>6, <1>7, <1>9
<1>10. CASE entry[i] \notin Nothing
  <2>1. /\ K[i] \in Seq(S)
        /\ Range(K[i]) = Range(K[i - 1]) \cup {entry[i]}
    BY <1>5, <1>6, <1>8, <1>10, AppendedTo
  <2> QED BY <1>5, <1>7, <1>10, <2>1
<1> QED BY <1>2, <1>9, <1>10

\* Where nothing is dropped, a beginning of the entry is left.
LEMMA KeptPlain ==
    ASSUME NEW S, NEW entry \in Seq(S), NEW n \in 0 .. Len(entry),
           \A k \in 1 .. n : entry[k] \notin Nothing
    PROVE  Kept(entry)[n] = SubSeq(entry, 1, n)
<1> DEFINE K == Kept(entry)
           T == {i \in 0 .. n : K[i] # SubSeq(entry, 1, i)}
<1> SUFFICES ASSUME T # {} PROVE FALSE
  OBVIOUS
<1>1. PICK i \in T : \A m \in T : i <= m
  <2>1. T \in SUBSET Nat
    OBVIOUS
  <2> HIDE DEF T
  <2> QED BY <2>1, LeastNumber
<1>2. i \in 0 .. n /\ K[i] # SubSeq(entry, 1, i)
  OBVIOUS
<1> HIDE DEF K
<1>3. i # 0
  <2>1. K[0] = <<>>
    BY KeptEquation DEF K
  <2>2. SubSeq(entry, 1, 0) = <<>>
    OBVIOUS
  <2> QED BY <1>2, <2>1, <2>2
<1>4. i - 1 \in 0 .. n /\ i \in 1 .. Len(entry) /\ i \in 1 .. n /\ i - 1 \notin T
  <2> HIDE DEF T
  <2> QED BY <1>1, <1>2, <1>3
<1>5. K[i - 1] = SubSeq(entry, 1, i - 1)
  BY <1>4
<1>6. K[i] = Append(K[i - 1], entry[i])
  BY <1>4, KeptEquation DEF K
<1>7. Append(SubSeq(entry, 1, i - 1), entry[i]) = SubSeq(entry, 1, i)
  BY <1>4
<1> QED BY <1>2, <1>5, <1>6, <1>7

\* The wildcards and the classes are neither empty names nor "..".
LEMMA SpecialNames ==
    /\ Special \cap Nothing = {} /\ Wild \cap Nothing = {} /\ Wild \subseteq Special
    /\ ".." \notin Special /\ ".." \notin Nothing /\ "" \in Nothing
<1>1. /\ Wild \cap Nothing = {} /\ ".." \notin Wild
      /\ ".." \notin Nothing /\ "" \in Nothing
  BY DEF Wild, Nothing
<1>2. DOMAIN Class \cap Nothing = {} /\ ".." \notin DOMAIN Class
  BY ScopeAssumption
<1> QED BY <1>1, <1>2 DEF Special

\* Normalising an entry loses only the empty names, so it stays a pattern if it
\* was one.
LEMMA NormalizedNames ==
    ASSUME NEW S, NEW entry \in Seq(S)
    PROVE  /\ Normalized(entry) \in Seq(S)
           /\ Range(Normalized(entry)) = Range(entry) \ Nothing
           /\ Glob(Normalized(entry)) <=> Glob(entry)
<1>1. Len(entry) \in 0 .. Len(entry) /\ DOMAIN entry = 1 .. Len(entry)
  OBVIOUS
<1>2. Range(entry) = {entry[k] : k \in 1 .. Len(entry)}
  BY <1>1 DEF Range
<1>3. /\ Normalized(entry) \in Seq(S)
      /\ Range(Normalized(entry)) = Range(entry) \ Nothing
  BY <1>1, <1>2, KeptNames DEF Normalized
<1>4. Special \cap Nothing = {}
  BY SpecialNames
<1> QED BY <1>3, <1>4 DEF Glob

-----------------------------------------------------------------------------
(* What a pattern matches: fnmatch.                                         *)

\* The equations of the recursive function Reached.
LEMMA ReachedEquation ==
    ASSUME NEW S, NEW pattern \in Seq(S), NEW path \in Seq(S)
    PROVE  /\ Reached(pattern, path)[0] = {0}
           /\ \A i \in 1 .. Len(pattern) :
                 Reached(pattern, path)[i] =
                     {j \in DOMAIN path :
                        IF pattern[i] \in Wild
                        THEN \E k \in Reached(pattern, path)[i - 1] : k < j
                        ELSE path[j] \in Named(pattern[i]) /\
                             j - 1 \in Reached(pattern, path)[i - 1]}
<1> DEFINE L == Len(pattern)
           Next(P, i) == {j \in DOMAIN path :
                            IF pattern[i] \in Wild THEN \E k \in P : k < j
                            ELSE path[j] \in Named(pattern[i]) /\ j - 1 \in P}
           Body(F) == [i \in 0 .. L |-> IF i = 0 THEN {0} ELSE Next(F[i - 1], i)]
           Upto(F, n) == \A i \in 0 .. n : F[i] = Body(F)[i]
           T == {n \in 0 .. L : ~ \E F \in [0 .. L -> SUBSET Nat] : Upto(F, n)}
<1>1. L \in Nat
  OBVIOUS
<1>2. \A P, i : Next(P, i) \in SUBSET Nat
  OBVIOUS
<1> HIDE DEF Next
<1>3. T = {}
  <2> SUFFICES ASSUME T # {} PROVE FALSE
    OBVIOUS
  <2>1. PICK n \in T : \A m \in T : n <= m
    <3>1. T \in SUBSET Nat
      OBVIOUS
    <3> HIDE DEF T
    <3> QED BY <3>1, LeastNumber
  <2>2. n \in 0 .. L
    OBVIOUS
  <2>3. n # 0
    <3>1. [i \in 0 .. L |-> {0}] \in [0 .. L -> SUBSET Nat]
      OBVIOUS
    <3>2. Upto([i \in 0 .. L |-> {0}], 0)
      OBVIOUS
    <3> HIDE DEF Upto
    <3>3. 0 \notin T
      BY <3>1, <3>2
    <3> QED BY <2>1, <3>3
  <2>4. n - 1 \in 0 .. L /\ n - 1 \notin T /\ n \in 1 .. L
    <3> HIDE DEF T
    <3> QED BY <1>1, <2>1, <2>2, <2>3
  <2>5. PICK G \in [0 .. L -> SUBSET Nat] : Upto(G, n - 1)
    BY <2>4
  <2>6. PICK s \in SUBSET Nat : s = Body(G)[n]
    BY <1>2, <2>2, <2>3
  <2> DEFINE F == [G EXCEPT ![n] = s]
  <2>7. F \in [0 .. L -> SUBSET Nat]
    OBVIOUS
  <2>8. Upto(F, n)
    <3> SUFFICES ASSUME NEW i \in 0 .. n PROVE F[i] = Body(F)[i]
      OBVIOUS
    <3>1. i \in 0 .. L /\ (i # 0 => i - 1 \in 0 .. L /\ i - 1 # n)
      BY <2>2
    <3>2. i # 0 => F[i - 1] = G[i - 1]
      BY <3>1
    <3>3. Body(F)[i] = Body(G)[i]
      BY <3>1, <3>2
    <3>4. CASE i = n
      BY <2>2, <2>6, <3>3, <3>4
    <3>5. CASE i # n
      <4>1. i \in 0 .. n - 1 /\ F[i] = G[i]
        BY <2>2, <3>1, <3>5
      <4>2. G[i] = Body(G)[i]
        BY <2>5, <4>1
      <4> QED BY <3>3, <4>1, <4>2
    <3> QED BY <3>4, <3>5
  <2> HIDE DEF F, Upto
  <2>9. n \notin T
    BY <2>7, <2>8
  <2> QED BY <2>1, <2>9
<1>4. PICK F \in [0 .. L -> SUBSET Nat] : Upto(F, L)
  <2>1. L \notin T /\ L \in 0 .. L
    <3> HIDE DEF T
    <3> QED BY <1>1, <1>3
  <2> HIDE DEF Upto
  <2> QED BY <2>1
<1>5. F = Body(F)
  BY <1>4
<1>6. Reached(pattern, path) = CHOOSE F1 : F1 = Body(F1)
  BY DEF Reached, Next
<1> HIDE DEF Body
<1>7. Reached(pattern, path) = Body(Reached(pattern, path))
  BY <1>5, <1>6
<1>8. \A i \in 0 .. L :
          Reached(pattern, path)[i] = Body(Reached(pattern, path))[i]
  BY <1>7
<1>9. Reached(pattern, path)[0] = {0}
  BY <1>1, <1>8 DEF Body
<1>10. ASSUME NEW i \in 1 .. Len(pattern)
       PROVE  Reached(pattern, path)[i] = Next(Reached(pattern, path)[i - 1], i)
  <2>1. i \in 0 .. L /\ i # 0
    OBVIOUS
  <2>2. Reached(pattern, path)[i] = Body(Reached(pattern, path))[i]
    BY <1>8, <2>1
  <2> QED BY <2>1, <2>2 DEF Body
<1> QED BY <1>9, <1>10 DEF Next

\* Neither a wildcard nor a class among the first n components.
PlainUpto(pattern, n) == \A k \in 1 .. n : pattern[k] \notin Special

\* The components before the first wildcard or class stand at the same places in what
\* is matched, and every other component that is neither occurs in it.
LEMMA ReachedPlain ==
    ASSUME NEW S, NEW pattern \in Seq(S), NEW path \in Seq(S),
           NEW n \in 0 .. Len(pattern), PlainUpto(pattern, n),
           NEW i \in 0 .. Len(pattern), NEW j \in Reached(pattern, path)[i]
    PROVE  /\ j \in 0 .. Len(path)
           /\ i <= n => j = i
           /\ \A k \in 1 .. n : k <= i => k <= j /\ pattern[k] = path[k]
           /\ \A k \in 1 .. i : pattern[k] \notin Special =>
                 \E l \in 1 .. Len(path) : path[l] = pattern[k]
<1> DEFINE R == Reached(pattern, path)
           Good(m) == \A x \in R[m] :
              /\ x \in 0 .. Len(path)
              /\ m <= n => x = m
              /\ \A k \in 1 .. n : k <= m => k <= x /\ pattern[k] = path[k]
              /\ \A k \in 1 .. m : pattern[k] \notin Special =>
                    \E l \in 1 .. Len(path) : path[l] = pattern[k]
           T == {m \in 0 .. Len(pattern) : ~ Good(m)}
<1>1. T = {}
  <2> SUFFICES ASSUME T # {} PROVE FALSE
    OBVIOUS
  <2>1. PICK m \in T : \A x \in T : m <= x
    <3>1. T \in SUBSET Nat
      OBVIOUS
    <3> HIDE DEF T
    <3> QED BY <3>1, LeastNumber
  <2>2. m \in 0 .. Len(pattern) /\ ~ Good(m)
    OBVIOUS
  <2> HIDE DEF R
  <2>3. m # 0
    <3>1. R[0] = {0}
      BY ReachedEquation DEF R
    <3>2. Good(0)
      BY <3>1
    <3> QED BY <2>2, <3>2
  <2>4. m - 1 \in 0 .. Len(pattern) /\ m \in 1 .. Len(pattern) /\ m - 1 \notin T
    <3> HIDE DEF T
    <3> QED BY <2>1, <2>2, <2>3
  <2>5. Good(m - 1)
    BY <2>4
  <2>6. R[m] = {x \in DOMAIN path :
                  IF pattern[m] \in Wild THEN \E k \in R[m - 1] : k < x
                  ELSE path[x] \in Named(pattern[m]) /\ x - 1 \in R[m - 1]}
    BY <2>4, ReachedEquation DEF R
  <2>7. PICK x \in R[m] : ~ ( /\ x \in 0 .. Len(path)
                              /\ m <= n => x = m
                              /\ \A k \in 1 .. n : k <= m => k <= x /\ pattern[k] = path[k]
                              /\ \A k \in 1 .. m : pattern[k] \notin Special =>
                                    \E l \in 1 .. Len(path) : path[l] = pattern[k])
    BY <2>2
  <2>8. x \in 1 .. Len(path)
    BY <2>6
  <2>9. PICK w \in R[m - 1] : w < x /\ (pattern[m] \notin Special => w = x - 1)
    <3>1. pattern[m] \notin Special => pattern[m] \notin Wild
      BY DEF Special
    <3> QED BY <2>6, <2>8, <3>1
  <2>10. /\ w \in 0 .. Len(path)
         /\ m - 1 <= n => w = m - 1
         /\ \A k \in 1 .. n : k <= m - 1 => k <= w /\ pattern[k] = path[k]
         /\ \A k \in 1 .. m - 1 : pattern[k] \notin Special =>
               \E l \in 1 .. Len(path) : path[l] = pattern[k]
    BY <2>5, <2>9
  <2>11. m <= n => pattern[m] \notin Special
    BY <2>4 DEF PlainUpto
  <2>12. pattern[m] \notin Special => pattern[m] = path[x]
    BY <2>6 DEF Special, Named
  <2>13. m <= n => x = m
    BY <2>4, <2>8, <2>9, <2>10, <2>11
  <2>14. ASSUME NEW k \in 1 .. n, k <= m
         PROVE  k <= x /\ pattern[k] = path[k]
    <3>1. CASE k = m
      BY <2>4, <2>8, <2>11, <2>12, <2>13, <2>14, <3>1
    <3>2. CASE k # m
      BY <2>4, <2>8, <2>9, <2>10, <2>14, <3>2
    <3> QED BY <3>1, <3>2
  <2>15. ASSUME NEW k \in 1 .. m, pattern[k] \notin Special
         PROVE  \E l \in 1 .. Len(path) : path[l] = pattern[k]
    <3>1. CASE k = m
      BY <2>8, <2>12, <2>15, <3>1
    <3>2. CASE k # m
      <4>1. k \in 1 .. m - 1
        BY <2>4, <3>2
      <4> QED BY <2>10, <2>15, <4>1
    <3> QED BY <3>1, <3>2
  <2> QED BY <2>7, <2>8, <2>13, <2>14, <2>15
<1> HIDE DEF R
<1>2. Good(i)
  BY <1>1
<1> QED BY <1>2 DEF R

\* The static prefix is all that comes before the first wildcard or class.
LEMMA StaticBeginning ==
    ASSUME NEW S, NEW path \in Seq(S)
    PROVE  \E n \in 0 .. Len(path) :
              /\ StaticPrefix(path) = SubSeq(path, 1, n)
              /\ \A k \in 1 .. n : path[k] \notin Special
<1> DEFINE wild == {i \in DOMAIN path : path[i] \in Special}
<1>1. DOMAIN path = 1 .. Len(path) /\ Len(path) \in Nat
  OBVIOUS
<1>2. CASE wild = {}
  <2>1. StaticPrefix(path) = path
    BY <1>2 DEF StaticPrefix
  <2>2. path = SubSeq(path, 1, Len(path))
    OBVIOUS
  <2>3. \A k \in 1 .. Len(path) : path[k] \notin Special
    BY <1>1, <1>2
  <2>4. Len(path) \in 0 .. Len(path)
    BY <1>1
  <2> QED BY <2>1, <2>2, <2>3, <2>4
<1>3. CASE wild # {}
  <2>1. \E i \in wild : \A j \in wild : i <= j
    <3>1. wild \in SUBSET Nat
      BY <1>1
    <3> HIDE DEF wild
    <3> QED BY <1>3, <3>1, LeastNumber
  <2>2. PICK i \in wild : i = (CHOOSE w \in wild : \A j \in wild : w <= j)
                           /\ \A j \in wild : i <= j
    BY <2>1
  <2>3. StaticPrefix(path) = SubSeq(path, 1, i - 1)
    BY <1>3, <2>2 DEF StaticPrefix
  <2>4. i - 1 \in 0 .. Len(path) /\ \A k \in 1 .. i - 1 : path[k] \notin Special
    <3>1. i \in 1 .. Len(path)
      BY <1>1
    <3>2. ASSUME NEW k \in 1 .. i - 1 PROVE path[k] \notin Special
      <4>1. k \in DOMAIN path /\ ~ (i <= k)
        BY <1>1, <3>1
      <4>2. k \notin wild
        <5> HIDE DEF wild
        <5> QED BY <2>2, <4>1
      <4> QED BY <4>1, <4>2
    <3> QED BY <3>1, <3>2
  <2> QED BY <2>3, <2>4
<1> QED BY <1>2, <1>3

\* What a pattern matches begins with the pattern's static prefix and has all
\* its names.
LEMMA MatchedPath ==
    ASSUME NEW S, NEW pattern \in Seq(S), NEW path \in Seq(S), Matches(pattern, path)
    PROVE  /\ StaticPrefix(pattern) \in Seq(S)
           /\ IsPrefix(StaticPrefix(pattern), path)
           /\ Range(pattern) \subseteq Range(path) \cup Special
<1>1. Len(pattern) \in 0 .. Len(pattern) /\ DOMAIN pattern = 1 .. Len(pattern)
      /\ Len(pattern) \in Nat /\ DOMAIN path = 1 .. Len(path) /\ Len(path) \in Nat
  OBVIOUS
<1>2. Len(path) \in Reached(pattern, path)[Len(pattern)]
  BY DEF Matches
<1>3. PICK n \in 0 .. Len(pattern) :
          /\ StaticPrefix(pattern) = SubSeq(pattern, 1, n)
          /\ \A k \in 1 .. n : pattern[k] \notin Special
  BY StaticBeginning
<1>4. /\ \A k \in 1 .. n : k <= Len(path) /\ pattern[k] = path[k]
      /\ \A k \in 1 .. Len(pattern) : pattern[k] \notin Special =>
            \E l \in 1 .. Len(path) : path[l] = pattern[k]
  <2>1. \A k \in 1 .. n : k <= Len(pattern)
    BY <1>1
  <2>2. /\ \A k \in 1 .. n : k <= Len(pattern) => k <= Len(path) /\ pattern[k] = path[k]
        /\ \A k \in 1 .. Len(pattern) : pattern[k] \notin Special =>
              \E l \in 1 .. Len(path) : path[l] = pattern[k]
    <3>1. PICK i \in 0 .. Len(pattern) : i = Len(pattern)
      BY <1>1
    <3>2. PICK j \in Reached(pattern, path)[i] : j = Len(path)
      BY <1>2, <3>1
    <3>3. PlainUpto(pattern, n)
      BY <1>3 DEF PlainUpto
    <3>4. /\ j \in 0 .. Len(path)
          /\ i <= n => j = i
          /\ \A k \in 1 .. n : k <= i => k <= j /\ pattern[k] = path[k]
          /\ \A k \in 1 .. i : pattern[k] \notin Special =>
                \E l \in 1 .. Len(path) : path[l] = pattern[k]
      BY <3>3, ReachedPlain
    <3> QED BY <3>1, <3>2, <3>4
  <2> QED BY <2>1, <2>2
<1>5. /\ StaticPrefix(pattern) \in Seq(S) /\ Len(StaticPrefix(pattern)) = n
      /\ \A k \in 1 .. n : StaticPrefix(pattern)[k] = pattern[k]
  BY <1>1, <1>3
<1>6. n <= Len(path)
  <2>1. CASE n = 0
    BY <1>1, <2>1
  <2>2. CASE n # 0
    <3>1. n \in 1 .. n
      BY <1>1, <2>2
    <3> QED BY <1>4, <3>1
  <2> QED BY <2>1, <2>2
<1>7. IsPrefix(StaticPrefix(pattern), path)
  BY <1>4, <1>5, <1>6, PrefixPoint
<1>8. Range(pattern) \subseteq Range(path) \cup Special
  BY <1>1, <1>4 DEF Range
<1> QED BY <1>5, <1>7, <1>8

-----------------------------------------------------------------------------
(* The policy.                                                              *)
ScopesTyped == scope \in [Packet -> Scope]

\* The entries of a scope.
LEMMA ScopeEntries ==
    ASSUME NEW s \in Scope, NEW e \in s
    PROVE  e \in Entry
BY ScopeAssumption

\* An entry is a sequence of names, and so is its normalised form.
LEMMA EntryNames ==
    ASSUME NEW e \in Entry
    PROVE  /\ e \in Seq(STRING) /\ Len(e) \in Nat \ {0}
           /\ Normalized(e) \in Seq(STRING)
           /\ Range(Normalized(e)) = Range(e) \ Nothing
           /\ Glob(Normalized(e)) <=> Glob(e)
<1>1. e \in Seq(STRING) /\ e # <<>>
  BY ScopeAssumption
<1>2. PICK S : S = STRING
  OBVIOUS
<1>3. Len(e) \in Nat \ {0}
  <2>1. e \in Seq(S)
    BY <1>1, <1>2
  <2> QED BY <1>1, <2>1
<1>4. /\ Normalized(e) \in Seq(S)
      /\ Range(Normalized(e)) = Range(e) \ Nothing
      /\ Glob(Normalized(e)) <=> Glob(e)
  BY <1>1, <1>2, NormalizedNames
<1> QED BY <1>1, <1>2, <1>3, <1>4

\* A file's path has only ordinary names.
LEMMA FileNames ==
    ASSUME NEW f \in File
    PROVE  /\ f \in Seq(STRING) /\ f # <<>>
           /\ Range(f) \cap Nothing = {} /\ Range(f) \cap Wild = {}
           /\ ".." \notin Range(f)
BY ScopeAssumption

\* A path begins with its static prefix.
LEMMA StaticIsPrefix ==
    ASSUME NEW S, NEW path \in Seq(S)
    PROVE  StaticPrefix(path) \in Seq(S) /\ IsPrefix(StaticPrefix(path), path)
<1>1. PICK n \in 0 .. Len(path) : StaticPrefix(path) = SubSeq(path, 1, n)
  BY StaticBeginning
<1>2. /\ SubSeq(path, 1, n) \in Seq(S) /\ Len(SubSeq(path, 1, n)) = n
      /\ \A k \in 1 .. n : SubSeq(path, 1, n)[k] = path[k]
      /\ n <= Len(path)
  BY <1>1
<1> QED BY <1>1, <1>2, PrefixPoint

\* What an entry admits begins as the entry does, and a pattern either matches
\* it or is spelled like it.
LEMMA FileInScope ==
    ASSUME NEW e \in Entry, NEW f \in File, InScope(f, e)
    PROVE  /\ Normalized(e) \in Seq(STRING) /\ Normalized(e) # <<>>
           /\ Glob(e) => /\ Matches(Normalized(e), f) \/ f = Normalized(e)
                         /\ StaticPrefix(Normalized(e)) \in Seq(STRING)
                         /\ IsPrefix(StaticPrefix(Normalized(e)), f)
           /\ ~ Glob(e) => IsPrefix(Normalized(e), f)
<1>1. PICK S : S = STRING
  OBVIOUS
<1>2. /\ Normalized(e) \in Seq(S) /\ f \in Seq(S)
      /\ Glob(Normalized(e)) <=> Glob(e)
  BY <1>1, EntryNames, FileNames
<1>3. /\ Normalized(e) # <<>>
      /\ Glob(e) => Matches(Normalized(e), f) \/ f = Normalized(e)
      /\ ~ Glob(e) => f = Normalized(e) \/ IsPrefix(Normalized(e), f)
  BY <1>2 DEF InScope
<1>4. IsPrefix(f, f)
  BY <1>2, PrefixPoint
<1>5. f = Normalized(e) => /\ StaticPrefix(Normalized(e)) \in Seq(S)
                           /\ IsPrefix(StaticPrefix(Normalized(e)), f)
  BY <1>2, StaticIsPrefix
<1>6. Matches(Normalized(e), f) => /\ StaticPrefix(Normalized(e)) \in Seq(S)
                                   /\ IsPrefix(StaticPrefix(Normalized(e)), f)
  BY <1>2, MatchedPath
<1> QED BY <1>1, <1>2, <1>3, <1>4, <1>5, <1>6

\* Two entries conflict if both are left after normalisation and overlap.
EntriesConflict(e1, e2) ==
    /\ Normalized(e1) # <<>> /\ Normalized(e2) # <<>>
    /\ EntriesOverlap(Normalized(e1), Normalized(e2))

\* scopes_overlap does not depend on the order of its arguments.
LEMMA OverlapSymmetric ==
    ASSUME NEW s1, NEW s2
    PROVE  ScopesOverlap(s1, s2) <=> ScopesOverlap(s2, s1)
<1>1. ASSUME NEW e1, NEW e2
      PROVE  EntriesConflict(e1, e2) <=> EntriesConflict(e2, e1)
  BY DEF EntriesConflict, EntriesOverlap, Disjoint
<1>2. /\ ScopesOverlap(s1, s2) <=> \E l \in s1, r \in s2 : EntriesConflict(l, r)
      /\ ScopesOverlap(s2, s1) <=> \E l \in s2, r \in s1 : EntriesConflict(l, r)
  BY DEF ScopesOverlap, EntriesConflict
<1> QED BY <1>1, <1>2

\* Packets that run together were compared with each other.
SInv ==
    /\ ScopesTyped /\ running \subseteq Packet
    /\ \A p \in running : \A e \in scope[p] : Valid(e)
    /\ \A p, q \in running : p # q => ~ ScopesOverlap(scope[p], scope[q])

(* The packets with active reservations have valid entries that do not      *)
(* overlap, whichever of them came first: the claim compares the newcomer   *)
(* with each of them, and ParallelConflictService compares symmetrically.   *)
THEOREM ComparedInvariant == SSpec => []SInv
<1>1. SInit => SInv
  BY DEF SInit, SInv, ScopesTyped
<1>2. SInv /\ [SNext]_svars => SInv'
  <2> SUFFICES ASSUME SInv, [SNext]_svars PROVE SInv'
    OBVIOUS
  <2>1. ASSUME NEW p \in Packet, Claim(p) PROVE SInv'
    <3>1. /\ scope' = scope /\ running' = running \cup {p}
          /\ \A e \in scope[p] : Valid(e)
          /\ \A q \in running : ~ ScopesOverlap(scope[p], scope[q])
      BY <2>1 DEF Claim, CanRunTogether
    <3>2. \A q \in running : ~ ScopesOverlap(scope[q], scope[p])
      BY <3>1, OverlapSymmetric
    <3> QED BY <3>1, <3>2 DEF SInv, ScopesTyped
  <2>2. ASSUME NEW p \in Packet, Finish(p) PROVE SInv'
    BY <2>2 DEF Finish, SInv, ScopesTyped
  <2>3. CASE UNCHANGED svars
    BY <2>3 DEF svars, SInv, ScopesTyped
  <2> QED BY <2>1, <2>2, <2>3 DEF SNext
<1> QED BY <1>1, <1>2, PTL DEF SSpec

-----------------------------------------------------------------------------
(* Which pairs of entries can share a file though they do not overlap.      *)

\* Not two plain paths.
LEMMA PlainShared ==
    ASSUME NEW e1 \in Entry, NEW e2 \in Entry, ~ Glob(e1), ~ Glob(e2),
           NEW f \in File, InScope(f, e1), InScope(f, e2)
    PROVE  EntriesConflict(e1, e2)
<1>1. /\ Normalized(e1) \in Seq(STRING) /\ Normalized(e1) # <<>>
      /\ Normalized(e2) \in Seq(STRING) /\ Normalized(e2) # <<>>
      /\ IsPrefix(Normalized(e1), f) /\ IsPrefix(Normalized(e2), f)
      /\ f \in Seq(STRING)
  BY FileInScope, FileNames
<1>2. \/ IsPrefix(Normalized(e1), Normalized(e2))
      \/ IsPrefix(Normalized(e2), Normalized(e1))
  BY <1>1, Comparable
<1> QED BY <1>1, <1>2 DEF EntriesConflict, EntriesOverlap, Within

\* Nor two patterns.
LEMMA PatternsShared ==
    ASSUME NEW e1 \in Entry, NEW e2 \in Entry, Glob(e1), Glob(e2),
           NEW f \in File, InScope(f, e1), InScope(f, e2)
    PROVE  EntriesConflict(e1, e2)
<1> DEFINE l == Normalized(e1)
           r == Normalized(e2)
<1>1. /\ l # <<>> /\ r # <<>> /\ f \in Seq(STRING) /\ Glob(l) /\ Glob(r)
      /\ StaticPrefix(l) \in Seq(STRING) /\ IsPrefix(StaticPrefix(l), f)
      /\ StaticPrefix(r) \in Seq(STRING) /\ IsPrefix(StaticPrefix(r), f)
  BY FileInScope, FileNames, EntryNames
<1> HIDE DEF l, r
<1>2. \/ IsPrefix(StaticPrefix(l), StaticPrefix(r))
      \/ IsPrefix(StaticPrefix(r), StaticPrefix(l))
  BY <1>1, Comparable
<1>3. ~ Disjoint(StaticPrefix(l), StaticPrefix(r))
  BY <1>2 DEF Disjoint, Within
<1>4. EntriesOverlap(l, r)
  BY <1>1, <1>3 DEF EntriesOverlap
<1> QED BY <1>1, <1>4 DEF EntriesConflict, l, r

\* The gap: a pattern and a plain path that share a file and were let through.
LEMMA PatternAndPlain ==
    ASSUME NEW e1 \in Entry, NEW e2 \in Entry, Glob(e1), ~ Glob(e2),
           NEW f \in File, InScope(f, e1), InScope(f, e2),
           ~ EntriesConflict(e1, e2)
    PROVE  Gap(e1, e2, f)
<1> DEFINE l == Normalized(e1)
           r == Normalized(e2)
<1>1. /\ l # <<>> /\ r # <<>> /\ f \in Seq(STRING) /\ Glob(l) /\ ~ Glob(r)
      /\ l \in Seq(STRING) /\ r \in Seq(STRING)
      /\ StaticPrefix(l) \in Seq(STRING) /\ IsPrefix(StaticPrefix(l), f)
      /\ Matches(l, f) \/ f = l
      /\ IsPrefix(r, f)
  BY FileInScope, FileNames, EntryNames
<1>2. Range(l) = Range(e1) \ Nothing
  BY EntryNames
<1>3. ~ EntriesOverlap(l, r)
  BY <1>1 DEF EntriesConflict
<1> HIDE DEF l, r
<1>4. IsPrefix(StaticPrefix(l), r) \/ IsPrefix(r, StaticPrefix(l))
  BY <1>1, Comparable
<1>5. ~ Disjoint(StaticPrefix(l), r)
  BY <1>4 DEF Disjoint, Within
<1>6. ~ Matches(l, r) /\ "**" \notin Range(l) /\ Range(l) \cap Unpaired = {}
  BY <1>1, <1>3, <1>5 DEF EntriesOverlap, GlobAndExactOverlap
<1>7. f # l
  BY <1>1, <1>3 DEF EntriesOverlap, Within
<1>8. r # f
  BY <1>1, <1>6, <1>7
<1>9. ({"**"} \cup Unpaired) \cap Nothing = {}
  <2>1. "**" \notin Nothing
    BY DEF Nothing
  <2> QED BY <2>1, ScopeAssumption
<1> QED BY <1>1, <1>2, <1>6, <1>8, <1>9 DEF Gap, IsStrictPrefix, r

(* Of two packets that run together, both can change a file only if one has *)
(* a pattern without "**" and the other a plain directory above the file:   *)
(* _glob_and_exact_overlap asks whether the pattern matches the directory,  *)
(* not what is below it.  No other pair of their entries is let through.    *)
THEOREM OneGapOnly == SSpec => []SharedOnlyBelowDirectory
<1>1. SInv => SharedOnlyBelowDirectory
  <2> SUFFICES ASSUME SInv, NEW p \in running, NEW q \in running, p # q,
                      NEW f \in Shared(p, q),
                      NEW l \in scope[p], NEW r \in scope[q],
                      InScope(f, l), InScope(f, r)
               PROVE  Gap(l, r, f) \/ Gap(r, l, f)
    BY DEF SharedOnlyBelowDirectory
  <2>1. /\ scope[p] \in Scope /\ scope[q] \in Scope /\ f \in File
        /\ ~ ScopesOverlap(scope[p], scope[q])
        /\ ~ ScopesOverlap(scope[q], scope[p])
    BY DEF SInv, ScopesTyped, Shared, Writable
  <2>2. l \in Entry /\ r \in Entry
    BY <2>1, ScopeEntries
  <2>3. ~ EntriesConflict(l, r) /\ ~ EntriesConflict(r, l)
    BY <2>1 DEF ScopesOverlap, EntriesConflict
  <2>4. Glob(l) \/ Glob(r)
    BY <2>1, <2>2, <2>3, PlainShared
  <2>5. ~ Glob(l) \/ ~ Glob(r)
    BY <2>1, <2>2, <2>3, PatternsShared
  <2>6. CASE Glob(l) /\ ~ Glob(r)
    BY <2>1, <2>2, <2>3, <2>6, PatternAndPlain
  <2>7. CASE Glob(r) /\ ~ Glob(l)
    BY <2>1, <2>2, <2>3, <2>7, PatternAndPlain
  <2> QED BY <2>4, <2>5, <2>6, <2>7
<1> QED BY <1>1, ComparedInvariant, PTL

\* What the policy accepts the enforcer does not find invalid.
LEMMA ValidIsAccepted ==
    ASSUME NEW e \in Entry, Valid(e)
    PROVE  ~ InvalidScopePath(e)
<1>1. e \in Seq(STRING) /\ Len(e) \in Nat \ {0}
  BY EntryNames
<1>2. DOMAIN e = 1 .. Len(e)
  <2>1. PICK S : S = STRING
    OBVIOUS
  <2>2. e \in Seq(S)
    BY <1>1, <2>1
  <2> QED BY <2>2
<1>3. \A i \in 1 .. Len(e) : e[i] # ".."
  BY <1>2 DEF Valid, Range
<1>4. Head(e) = e[1]
  BY <1>1
<1>5. Head(e) # ".."
  <2>1. 1 \in 1 .. Len(e)
    BY <1>1
  <2> QED BY <1>3, <1>4, <2>1
<1>6. \A i \in 2 .. Len(e) - 1 : i \in 1 .. Len(e)
  BY <1>1
<1> QED BY <1>3, <1>5, <1>6 DEF Valid, InvalidScopePath

(* ParallelConflictService keeps two packets without patterns apart exactly *)
(* when RuntimeScopeEnforcer would let both change one file: it never lets  *)
(* two collide, and never serialises two that could not.                    *)
THEOREM ExactForPlainPaths == SSpec => []PlainPathsExact
<1>1. SInv => PlainPathsExact
  <2> SUFFICES ASSUME SInv, NEW p \in Packet, NEW q \in Packet,
                      Plain(scope[p]), Plain(scope[q])
               PROVE  ScopesOverlap(scope[p], scope[q]) <=>
                        \E f \in File : Enforced(f, scope[p]) /\ Enforced(f, scope[q])
    BY DEF PlainPathsExact
  <2>1. scope[p] \in Scope /\ scope[q] \in Scope
    BY DEF SInv, ScopesTyped
  <2>2. /\ \A e \in scope[p] : e \in Entry /\ Valid(e) /\ ~ Glob(e)
                               /\ ~ InvalidScopePath(e)
        /\ \A e \in scope[q] : e \in Entry /\ Valid(e) /\ ~ Glob(e)
                               /\ ~ InvalidScopePath(e)
    BY <2>1, ScopeEntries, ValidIsAccepted DEF Plain
  <2>3. ASSUME NEW e1 \in Entry, NEW e2 \in Entry, ~ Glob(e1), ~ Glob(e2),
               Valid(e2), Normalized(e1) # <<>>, Normalized(e2) # <<>>,
               IsPrefix(Normalized(e1), Normalized(e2))
        PROVE  \E f \in File : InScope(f, e1) /\ InScope(f, e2)
    <3>1. PICK f \in File : IsPrefix(Normalized(e2), f)
      BY <2>3, ScopeAssumption
    <3>2. /\ Normalized(e1) \in Seq(STRING) /\ Normalized(e2) \in Seq(STRING)
          /\ ~ Glob(Normalized(e1)) /\ ~ Glob(Normalized(e2))
      BY <2>3, EntryNames
    <3>3. IsPrefix(Normalized(e1), f)
      <4>1. f \in Seq(STRING)
        BY FileNames
      <4> QED BY <2>3, <3>1, <3>2, <4>1, PrefixPoint
    <3> QED BY <2>3, <3>1, <3>2, <3>3 DEF InScope
  <2>4. ASSUME ScopesOverlap(scope[p], scope[q])
        PROVE  \E f \in File : Enforced(f, scope[p]) /\ Enforced(f, scope[q])
    <3>1. PICK l \in scope[p], r \in scope[q] :
            /\ Normalized(l) # <<>> /\ Normalized(r) # <<>>
            /\ EntriesOverlap(Normalized(l), Normalized(r))
      BY <2>4 DEF ScopesOverlap
    <3>2. ~ Glob(Normalized(l)) /\ ~ Glob(Normalized(r))
      BY <2>2, EntryNames
    <3>3. \/ IsPrefix(Normalized(l), Normalized(r))
          \/ IsPrefix(Normalized(r), Normalized(l))
      BY <3>1, <3>2 DEF EntriesOverlap, Within
    <3>4. PICK f \in File : InScope(f, l) /\ InScope(f, r)
      BY <2>2, <2>3, <3>1, <3>3
    <3> QED BY <2>2, <3>4 DEF Enforced
  <2>5. ASSUME NEW f \in File, Enforced(f, scope[p]), Enforced(f, scope[q])
        PROVE  ScopesOverlap(scope[p], scope[q])
    <3>1. PICK l \in scope[p], r \in scope[q] : InScope(f, l) /\ InScope(f, r)
      BY <2>5 DEF Enforced
    <3>2. EntriesConflict(l, r)
      BY <2>2, <3>1, PlainShared
    <3> QED BY <3>2 DEF ScopesOverlap, EntriesConflict
  <2> QED BY <2>4, <2>5
<1> QED BY <1>1, ComparedInvariant, PTL

\* What has none of the empty names is left as it is.
LEMMA PlainEntry ==
    ASSUME NEW S, NEW e \in Seq(S), Range(e) \cap Nothing = {}
    PROVE  Normalized(e) = e
<1>1. \A k \in 1 .. Len(e) : e[k] \notin Nothing
  BY DEF Range
<1>2. PICK n \in 0 .. Len(e) : n = Len(e)
  OBVIOUS
<1>3. Kept(e)[n] = SubSeq(e, 1, n)
  BY <1>1, <1>2, KeptPlain
<1>4. SubSeq(e, 1, Len(e)) = e
  OBVIOUS
<1> QED BY <1>2, <1>3, <1>4 DEF Normalized

\* Of a directory with its slash only the slash is dropped.
LEMMA DirectoryEntry ==
    ASSUME NEW S, NEW e \in Seq(S), Len(e) > 1, Last(e) \in Nothing,
           Range(Front(e)) \cap Nothing = {}
    PROVE  Normalized(e) = Front(e)
<1>1. PICK n \in Nat : n = Len(e) - 1
  <2>1. Len(e) \in Nat
    OBVIOUS
  <2> QED BY <2>1
<1>2. Front(e) \in Seq(S) /\ Len(Front(e)) = n /\ \A k \in 1 .. n : Front(e)[k] = e[k]
  BY <1>1 DEF Front
<1>3. \A k \in 1 .. n : e[k] \notin Nothing
  <2>1. DOMAIN Front(e) = 1 .. n
    BY <1>2
  <2> QED BY <1>2, <2>1 DEF Range
<1>4. Kept(e)[n] = SubSeq(e, 1, n)
  <2>1. n \in 0 .. Len(e)
    BY <1>1
  <2> QED BY <1>3, <2>1, KeptPlain
<1>5. Kept(e)[Len(e)] = Kept(e)[n]
  <2>1. Len(e) \in 1 .. Len(e) /\ e[Len(e)] \in Nothing
    BY DEF Last
  <2>2. Kept(e)[Len(e)] = Kept(e)[Len(e) - 1]
    BY <2>1, KeptEquation
  <2> QED BY <1>1, <2>2
<1> QED BY <1>1, <1>4, <1>5 DEF Normalized, Front

\* The entry is a directory whose spelling is above the file.
SpelledAbove(entry, file) ==
    Directory(entry) /\ IsStrictPrefix(Front(entry), file)

\* Such an entry has no names but the file's.
LEMMA DirectoryAbove ==
    ASSUME NEW S, NEW e \in Seq(S), NEW f \in Seq(S), NEW n \in Nat,
           Len(e) = n + 1, n > 0, SpelledAbove(e, f)
    PROVE  /\ Range(e) \subseteq Range(f) \cup {""} /\ Front(e) # <<>>
           /\ Range(Front(e)) \subseteq Range(f)
<1>1. /\ Front(e) \in Seq(S) /\ Len(Front(e)) = n
      /\ \A k \in 1 .. n : Front(e)[k] = e[k]
  BY DEF Front
<1>2. IsPrefix(Front(e), f)
  BY DEF SpelledAbove, IsStrictPrefix
<1>3. n <= Len(f) /\ \A k \in 1 .. n : e[k] = f[k]
  BY <1>1, <1>2, PrefixPoint
<1>4. \A k \in 1 .. n : e[k] \in Range(f)
  <2>1. DOMAIN f = 1 .. Len(f) /\ Len(f) \in Nat
    OBVIOUS
  <2>2. \A k \in 1 .. n : k \in DOMAIN f
    BY <1>3, <2>1
  <2> QED BY <1>3, <2>2 DEF Range
<1>5. Range(Front(e)) \subseteq Range(f)
  <2>1. DOMAIN Front(e) = 1 .. n
    BY <1>1
  <2> QED BY <1>1, <1>4, <2>1 DEF Range
<1>6. \A x \in Range(e) : x \in Range(f) \/ x = ""
  <2>1. \A k \in DOMAIN e : k \in 1 .. n \/ k = Len(e)
    OBVIOUS
  <2>2. e[Len(e)] = ""
    BY DEF SpelledAbove, Directory, Last
  <2> QED BY <1>4, <2>1, <2>2 DEF Range
<1>7. Front(e) # <<>>
  BY <1>1
<1> QED BY <1>5, <1>6, <1>7

(* ScopeGuard reads an entry as it is written, RuntimeScopeEnforcer         *)
(* normalises it and looks for brackets.  Only an entry that the enforcer   *)
(* finds invalid, or a directory with such a name, makes the guard let      *)
(* through a file that the enforcer stops.                                  *)
THEOREM GuardGapsAreTwo == SSpec => []GuardWiderInTwoCases
<1>1. ASSUME NEW e \in Entry, NEW f \in File,
             f = e \/ SpelledAbove(e, f) \/ (Starred(e) /\ Matches(e, f)),
             SpelledAbove(e, f) => Range(e) \cap DOMAIN Class = {}
      PROVE  InScope(f, e)
  <2>1. PICK S : S = STRING
    OBVIOUS
  <2>2. /\ e \in Seq(S) /\ f \in Seq(S) /\ Len(e) \in Nat \ {0} /\ f # <<>> /\ e # <<>>
        /\ Range(f) \cap Nothing = {} /\ Range(f) \cap Wild = {}
        /\ Glob(Normalized(e)) <=> Glob(e)
    BY <2>1, EntryNames, FileNames, ScopeAssumption
  <2>3. CASE f = e
    <3>1. Normalized(e) = e
      BY <2>2, <2>3, PlainEntry
    <3> QED BY <2>2, <2>3, <3>1 DEF InScope
  <2>4. CASE SpelledAbove(e, f)
    <3>1. PICK n \in Nat : Len(e) = n + 1 /\ n > 0
      <4>1. Len(e) - 1 \in Nat /\ Len(e) = (Len(e) - 1) + 1 /\ Len(e) - 1 > 0
        <5>1. Len(e) > 1
          BY <2>4 DEF SpelledAbove, Directory
        <5> QED BY ONLY <2>2, <5>1
      <4> QED BY <4>1
    <3>2. Last(e) = "" /\ Last(e) \in Nothing /\ Len(e) > 1
      BY <2>4, SpecialNames DEF SpelledAbove, Directory
    <3>3. /\ Range(e) \subseteq Range(f) \cup {""} /\ Front(e) # <<>>
          /\ Range(Front(e)) \subseteq Range(f)
      BY <2>2, <2>4, <3>1, <3>2, DirectoryAbove
    <3>4. Range(Front(e)) \cap Nothing = {}
      BY <2>2, <3>3
    <3>5. Normalized(e) = Front(e)
      BY <2>2, <3>2, <3>4, DirectoryEntry
    <3>6. ~ Glob(e)
      <4>1. Range(e) \cap DOMAIN Class = {}
        BY <1>1, <2>4
      <4>2. Range(e) \cap Wild = {}
        BY <2>2, <3>3, SpecialNames
      <4> QED BY <4>1, <4>2 DEF Glob, Special
    <3>7. IsPrefix(Front(e), f)
      BY <2>4 DEF SpelledAbove, IsStrictPrefix
    <3> QED BY <2>2, <3>3, <3>5, <3>6, <3>7 DEF InScope
  <2>5. CASE Starred(e) /\ Matches(e, f)
    <3>1. Range(e) \subseteq Range(f) \cup Special
      BY <2>2, <2>5, MatchedPath
    <3>2. Range(e) \cap Nothing = {}
      BY <2>2, <3>1, SpecialNames
    <3>3. Normalized(e) = e
      BY <2>2, <3>2, PlainEntry
    <3>4. Glob(e)
      BY <2>5 DEF Starred, Glob, Special
    <3> QED BY <2>2, <2>5, <3>3, <3>4 DEF InScope
  <2> QED BY <1>1, <2>3, <2>4, <2>5
<1>2. SInv => GuardWiderInTwoCases
  <2> SUFFICES ASSUME SInv, NEW p \in Packet, NEW f \in File,
                      Guarded(f, scope[p]), ~ Enforced(f, scope[p]),
                      \A e \in scope[p] : ~ InvalidScopePath(e)
               PROVE  \E e \in scope[p] :
                        SpelledAbove(e, f) /\ Range(e) \cap DOMAIN Class # {}
    BY DEF GuardWiderInTwoCases, SpelledAbove
  <2>1. PICK e \in scope[p] :
            f = e \/ SpelledAbove(e, f) \/ (Starred(e) /\ Matches(e, f))
    BY DEF Guarded, SpelledAbove
  <2>2. ~ InScope(f, e)
    BY DEF Enforced
  <2>3. e \in Entry
    BY ScopeEntries DEF SInv, ScopesTyped
  <2> QED BY <1>1, <2>1, <2>2, <2>3
<1> QED BY <1>2, ComparedInvariant, PTL
===================================================================================
