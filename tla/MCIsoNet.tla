------------------------------- MODULE MCIsoNet -------------------------------
(* Segments of two stations for TLC.                                       *)
EXTENDS IsoNet

\* Every station prefers address 0; the configurable range starts at 1.
NameIsNumber == [s \in Station |-> s]
AllNamedOne == [s \in Station |-> 1]
AllPreferZero == [s \in Station |-> 0]
PreferOwnNumber == [s \in Station |-> s]
MixedRtxd == [s \in Station |-> (s + 1) % 2]

NoneWatched == [s \in Station |-> {}]
FirstWatches == [s \in Station |-> IF s = 1 THEN Name \ {1} ELSE {}]

NoneAdoptable == [s \in Station |-> {}]
FirstAdopts == [s \in Station |-> IF s = 1 THEN Name ELSE {}]
===============================================================================
