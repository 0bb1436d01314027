---------------------------- MODULE MCFeatureFlow ----------------------------
(* FeatureFlow on small instances.  Lineage: one feature with a dependency  *)
(* inside its first wave, and a second wave; all but one packet write to    *)
(* the same place, and the first may be executed twice.  Queue: two features *)
(* with two waves and one wave.                                             *)
EXTENDS FeatureFlow

Planned(f, w, deps, area) ==
    [feature |-> f, wave |-> w, deps |-> deps, area |-> area]

Lineages ==
    <<Planned(1, 1, {}, {"a"}), Planned(1, 1, {1}, {"b"}),
      Planned(1, 2, {}, {"a"})>>
Queue ==
    <<Planned(1, 1, {}, {"a"}), Planned(1, 2, {}, {"a"}),
      Planned(2, 1, {}, {"a"})>>

TwoWaves == <<2>>
TwoFeatures == <<2, 1>>
FirstTwice == [p \in 1 .. MaxPackets |-> IF p = 1 THEN 2 ELSE 1]
=============================================================================
