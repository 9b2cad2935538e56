----------------------------- MODULE MCTreeSync -----------------------------
EXTENDS TreeSync, TLC
CONSTANTS a, b, c, p1, c1, c2
Pair == {{a, b}}
Chain == {{a, b}, {b, c}}

\* Two devices that do the same, and contents none of which is there to begin with.
Symmetry == Permutations({a, b}) \cup Permutations(Content \ {First})

\* Two changes under disagreeing clocks, with a breakdown.
TwoSkewed == [stamps |-> {2, 3}, skewed |-> TRUE, drops |-> 1,
              paths |-> Path, contents |-> Content]

\* Three changes of the content or the presence under clocks in step.
ThreeInStep == [stamps |-> {2, 3, 4}, skewed |-> FALSE, drops |-> 0,
                paths |-> {p1}, contents |-> {c1, c2}]

OneChange == [stamps |-> {2}, skewed |-> FALSE, drops |-> 1,
              paths |-> Path, contents |-> Content]

TwoInStep == [stamps |-> {2, 3}, skewed |-> FALSE, drops |-> 0,
              paths |-> Path, contents |-> Content]

\* Three changes of the presence on devices that meet only afterwards.
ThreeOffline == [ThreeInStep EXCEPT !.contents = {c1}]

Offline == /\ (\E l \in Ends : stage[l] # "down") => stamps = ThreeOffline.stamps
           /\ \A d \in Device : ~file[d].purged

Pairs == {TwoSkewed, ThreeInStep}
JustOffline == {ThreeOffline}
OneLoss == {OneChange}
NoLoss == {TwoInStep}
=============================================================================
