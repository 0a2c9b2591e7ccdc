---------------------------- MODULE MCNeedsPlan ----------------------------
(* Instances of NeedsPlan for TLC: every graph of needs over three releases *)
(* (cycles included), chains and diamonds of four, two definitions of one   *)
(* ID next to a need that nobody defines, and two releases of one name.     *)
EXTENDS NeedsPlan, TLC

CONSTANTS relA, relB, relC, relD, dupA, otherA, ghost

AllDefs == {relA, relB, relC, relD, dupA, otherA}
AllIds == {relA, relB, relC, relD, otherA, ghost}
PlainIds == AllIds \ {otherA}
IdOfDef == [d \in AllDefs |-> IF d = dupA THEN relA ELSE d]
Named == [i \in AllIds |-> IF i = otherA THEN relA ELSE i]

Three == {relA, relB, relC}
Graphs == {f \in [Three -> SUBSET Three] : \A d \in Three : d \notin f[d]}
Chains == {f \in [{relA, relB, relC, relD} -> SUBSET AllIds] :
             /\ f[relD] = {relC} /\ f[relC] \subseteq {relA, relB}
             /\ f[relB] \in {{relA}, {relA, relC}} /\ f[relA] = {}}
Duplicates == {f \in [{relA, dupA, relB} -> SUBSET {relA, relB, ghost}] :
                 /\ f[relA] \subseteq {relB} /\ f[dupA] \subseteq {relB, ghost}
                 /\ f[relB] \subseteq {relA}}

\* otherA is a release named like relA in another namespace.
Namesakes == {f \in [{relA, otherA, relB, relC} -> SUBSET {relA, otherA, relC}] :
                /\ f[relA] \subseteq {relC} /\ f[otherA] \subseteq {relC}
                /\ relA \in f[relB] /\ f[relC] = {}}

PlannedStates == Graphs \cup Chains \cup Duplicates \cup Namesakes
=============================================================================
