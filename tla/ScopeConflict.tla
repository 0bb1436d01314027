---------------------------- MODULE ScopeConflict ----------------------------
(***************************************************************************)
(* Which packets may run at the same time, and what they may write then:    *)
(* the conflict policy of services/parallel_conflict_service.py beside the  *)
(* two checks of an execution's changed files, RuntimeScopeEnforcer         *)
(* (runtime/runtime_scope_enforcer.py) and ScopeGuard (core/scope_guard.py).*)
(*                                                                          *)
(* A path is the sequence of its components; a trailing "/" is an empty     *)
(* last component.  "*" and "**" stand for wildcard components; fnmatch     *)
(* lets either match any number of components, at least one.  A component   *)
(* with a "[" or a "?" is in DOMAIN Class, with the names that it matches.  *)
(* The three readers differ on such a component: to the policy and to the   *)
(* enforcer it makes the entry a pattern, to the guard only a "*" does.     *)
(***************************************************************************)
EXTENDS SequencesExt

CONSTANTS
    Packet,     \* packets that want to run
    Entry,      \* scope entries, as written
    Scope,      \* the scopes a packet may carry: sets of entries
    Class,      \* what the components with "[" or "?" match
    Unpaired,   \* those of them whose brackets do not pair up
    Extends,    \* pairs of names of which the second begins with the first
    File        \* the files of the repository

VARIABLES
    scope,      \* the packet's scope: packets.spec_json["scope"]
    running     \* the packets whose reservations are active

svars == <<scope, running>>

Wild == {"*", "**"}
Special == Wild \cup DOMAIN Class

\* _GLOB_CHARS of the policy, and the markers of the enforcer.
Glob(path) == Range(path) \cap Special # {}

\* ScopeGuard looks for a "*" only.
Starred(path) == Range(path) \cap Wild # {}

Named(name) == IF name \in DOMAIN Class THEN Class[name] ELSE {name}

(* fnmatch: reached[i] holds the lengths of the path's beginnings that the  *)
(* first i components of the pattern match.                                 *)
Reached(pattern, path) ==
    LET reached[i \in 0 .. Len(pattern)] ==
          IF i = 0 THEN {0}
          ELSE {j \in DOMAIN path :
                  IF pattern[i] \in Wild THEN \E k \in reached[i - 1] : k < j
                  ELSE path[j] \in Named(pattern[i]) /\ j - 1 \in reached[i - 1]}
    IN  reached

Matches(pattern, path) == Len(path) \in Reached(pattern, path)[Len(pattern)]

-----------------------------------------------------------------------------
(* The conflict policy.                                                     *)

Absolute(entry) == Len(entry) > 1 /\ Head(entry) = ""

(* normalize_scope refuses an entry that is absolute or may leave the       *)
(* repository.                                                              *)
Valid(entry) == ".." \notin Range(entry) /\ ~Absolute(entry)

\* What normpath drops.
Nothing == {"", "."}

(* The names left of the first i components, for every i.                   *)
Kept(entry) ==
    LET kept[i \in 0 .. Len(entry)] ==
          IF i = 0 THEN <<>>
          ELSE IF entry[i] \in Nothing THEN kept[i - 1]
          ELSE Append(kept[i - 1], entry[i])
    IN  kept

Normalized(entry) == Kept(entry)[Len(entry)]

(* Altered form of Within: the names are compared as strings, without the   *)
(* slash that ends a directory.                                             *)
AlteredWithin(parent, child) ==
    \/ IsPrefix(parent, child)
    \/ /\ parent # <<>> /\ Len(parent) <= Len(child)
       /\ IsPrefix(Front(parent), child)
       /\ <<Last(parent), child[Len(parent)]>> \in Extends

Within(parent, child) == IsPrefix(parent, child)

StaticPrefix(path) ==
    LET wild == {i \in DOMAIN path : path[i] \in Special} IN
    IF wild = {} THEN path
    ELSE SubSeq(path, 1, (CHOOSE i \in wild : \A j \in wild : i <= j) - 1)

Disjoint(l, r) ==
    l # <<>> /\ r # <<>> /\ ~Within(l, r) /\ ~Within(r, l)

(* Altered form of GlobAndExactOverlap: only what matches is in the way.    *)
AlteredGlobAndExactOverlap(pattern, exact) == Matches(pattern, exact)

GlobAndExactOverlap(pattern, exact) ==
    \/ Range(pattern) \cap Unpaired # {}
    \/ StaticPrefix(pattern) # <<>> /\ IsStrictPrefix(exact, StaticPrefix(pattern))
    \/ /\ ~Disjoint(StaticPrefix(pattern), exact)
       /\ Matches(pattern, exact) \/ "**" \in Range(pattern)

EntriesOverlap(l, r) ==
    \/ Within(l, r) \/ Within(r, l)
    \/ Glob(l) /\ Glob(r) /\ ~Disjoint(StaticPrefix(l), StaticPrefix(r))
    \/ Glob(l) /\ ~Glob(r) /\ GlobAndExactOverlap(l, r)
    \/ Glob(r) /\ ~Glob(l) /\ GlobAndExactOverlap(r, l)

(* Entries that come to nothing are dropped before the comparison.          *)
ScopesOverlap(left, right) ==
    \E l \in left, r \in right :
        /\ Normalized(l) # <<>> /\ Normalized(r) # <<>>
        /\ EntriesOverlap(Normalized(l), Normalized(r))

(* One entry that is refused fails the comparison, and with it the claim.   *)
CanRunTogether(p) ==
    /\ \A e \in scope[p] : Valid(e)
    /\ \A q \in running : ~ScopesOverlap(scope[p], scope[q])

-----------------------------------------------------------------------------
(* What an execution may change.                                            *)

(* The enforcer's own test of an entry: ".." at its end is not looked for.  *)
InvalidScopePath(entry) ==
    \/ Absolute(entry)
    \/ Head(entry) = ".."
    \/ \E i \in 2 .. Len(entry) - 1 : entry[i] = ".."

(* Altered form of InScope: no comparison with the entry as a name before   *)
(* it is read as a pattern.                                                 *)
AlteredInScope(file, entry) ==
    LET sp == Normalized(entry) IN
    sp # <<>> /\ IF Glob(sp) THEN Matches(sp, file) ELSE IsPrefix(sp, file)

(* _in_scope: the entry is normalised; unless it is a pattern it stands for *)
(* all that is below it, and a pattern matches its own spelling as well.    *)
InScope(file, entry) ==
    LET sp == Normalized(entry) IN
    /\ sp # <<>>
    /\ \/ file = sp
       \/ IF Glob(sp) THEN Matches(sp, file) ELSE IsPrefix(sp, file)

(* RuntimeScopeEnforcer: one invalid entry and every change is refused.     *)
Enforced(file, entries) ==
    /\ \A e \in entries : ~InvalidScopePath(e)
    /\ \E e \in entries : InScope(file, e)

Directory(entry) == Len(entry) > 1 /\ Last(entry) = ""

(* ScopeGuard takes the entries one by one and as they are written.  An     *)
(* entry with a slash at its end is the directory of that spelling, even if *)
(* it has brackets; without it, only the file itself.                       *)
Guarded(file, entries) ==
    \E e \in entries :
        \/ file = e
        \/ Directory(e) /\ IsStrictPrefix(Front(e), file)
        \/ Starred(e) /\ Matches(e, file)

(* What gets through both of them.                                          *)
Writable(entries) == {f \in File : Enforced(f, entries) /\ Guarded(f, entries)}

-----------------------------------------------------------------------------
(* An entry has a component (the empty string is <<"">>); a file, as git    *)
(* reports it, has no wildcard and no empty name, though it may be spelled  *)
(* like a class, and lies in none of the build and cache directories that   *)
(* the enforcer passes over.  What a plain entry stands for may come to     *)
(* exist, as a file or as a directory with a file in it.                    *)
ASSUME ScopeAssumption ==
    /\ \A e \in Entry : e \in Seq(STRING) /\ e # <<>>
    /\ Scope \subseteq SUBSET Entry
    /\ DOMAIN Class \cap ({".."} \cup Nothing \cup Wild) = {}
    /\ Unpaired \subseteq DOMAIN Class
    /\ \A f \in File :
          f \in Seq(STRING) /\ f # <<>>
              /\ Range(f) \cap ({".."} \cup Nothing \cup Wild) = {}
    /\ \A e \in Entry :
          Valid(e) /\ ~Glob(e) /\ Normalized(e) # <<>> =>
              \E f \in File : IsPrefix(Normalized(e), f)

SInit ==
    /\ scope \in [Packet -> Scope]
    /\ running = {}

Claim(p) ==
    /\ p \notin running /\ CanRunTogether(p)
    /\ running' = running \cup {p}
    /\ UNCHANGED scope

Finish(p) ==
    /\ p \in running
    /\ running' = running \ {p}
    /\ UNCHANGED scope

SNext == \E p \in Packet : Claim(p) \/ Finish(p)

SSpec == SInit /\ [][SNext]_svars

-----------------------------------------------------------------------------
Shared(p, q) == Writable(scope[p]) \cap Writable(scope[q])

\* The policy asks whether the pattern matches the directory, and that alone.
Gap(pattern, directory, file) ==
    /\ Glob(pattern) /\ ~Glob(directory)
    /\ IsStrictPrefix(Normalized(directory), file)
    /\ Range(pattern) \cap ({"**"} \cup Unpaired) = {}

(* The policy's one gap: of packets that run together two entries admit one *)
(* file only if they are a pattern, without "**" and with its brackets      *)
(* paired, and a directory above the file.  Two plain paths, two patterns,  *)
(* and a pattern and a file never share one.                                *)
SharedOnlyBelowDirectory ==
    \A p, q \in running : p # q => \A f \in Shared(p, q) :
        \A l \in scope[p], r \in scope[q] :
            InScope(f, l) /\ InScope(f, r) => Gap(l, r, f) \/ Gap(r, l, f)

Plain(entries) == \A e \in entries : Valid(e) /\ ~Glob(e)

(* Two packets without patterns are kept apart exactly when a path of one   *)
(* is one of the other's or below it: names that merely begin alike never   *)
(* serialise them, and no file is reachable from both otherwise.            *)
PlainPathsExact ==
    \A p, q \in Packet :
        Plain(scope[p]) /\ Plain(scope[q])
            => (ScopesOverlap(scope[p], scope[q]) <=>
                  \E f \in File : Enforced(f, scope[p]) /\ Enforced(f, scope[q]))

(* The guard, which acceptance asks, and the enforcer, which comes before   *)
(* acceptance, read one scope differently.  The guard passes a file that    *)
(* the enforcer stops in two cases alone: an entry that the enforcer finds  *)
(* invalid makes it refuse everything, and below a directory whose name has *)
(* a bracket or a "?" the guard goes by the spelling where the enforcer     *)
(* matches a pattern.                                                       *)
GuardWiderInTwoCases ==
    \A p \in Packet : \A f \in File :
        Guarded(f, scope[p]) /\ ~Enforced(f, scope[p]) =>
            \E e \in scope[p] :
                \/ InvalidScopePath(e)
                \/ /\ Directory(e) /\ IsStrictPrefix(Front(e), f)
                   /\ Range(e) \cap DOMAIN Class # {}
=============================================================================
