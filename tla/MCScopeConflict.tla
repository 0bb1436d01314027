--------------------------- MODULE MCScopeConflict ---------------------------
(* ScopeConflict for two packets.  Every entry of up to three components    *)
(* over two names, of which one begins with the other, and both wildcards;  *)
(* every entry of up to two that has a class among them, with and without a *)
(* slash at its end; and the odd ones.  A scope is none of them, one, or    *)
(* two of a chosen few.                                                     *)
EXTENDS ScopeConflict

Name == {"a", "ab"}
Classes == "[a]" :> {"a"} @@ "[b" :> {"[b"}
Broken == {"[b"}

Paths(S, n) == UNION {[1 .. k -> S] : k \in 1 .. n}
Files ==
    Paths(Name, 4) \cup Paths({"a", "[a]"}, 3) \cup {<<"[b">>, <<"[b", "a">>}
Entries ==
    Paths(Name \cup Wild, 3) \cup Paths({"a", "*", "[a]"}, 2)
        \cup {Append(path, "") : path \in Paths(Name \cup {"[a]"}, 2)}
        \cup {<<".", "a">>, <<"..", "a">>, <<".">>, <<"a", "..", "ab">>,
              <<"">>, <<"", "">>, <<"", "a">>, <<"a", "", "ab">>,
              <<"a", "..">>, <<"[b">>, <<"[b", "">>, <<"[b", "*">>}
Few == {<<"a", "">>, <<"a", "*">>, <<"ab", "a">>, <<"[a]", "">>,
        <<"..", "a">>, <<"a", "..">>}
Scopes == {{}} \cup {{e} : e \in Entries} \cup {{d, e} : d, e \in Few}
BeginsLike == {<<"a", "ab">>}
Alike == Permutations(Packet)
=============================================================================
