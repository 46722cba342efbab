-------------------------- MODULE MCTouchGestures --------------------------
\* TouchGestures for TLC: two devices, two pointers, two that send by themselves.
EXTENDS TouchGestures, TLC
Symmetry == Permutations(Udids) \cup Permutations(Pointers) \cup Permutations(Players)
\* Bound: fingers that are left down or shared at a time.
FewStray == Cardinality(abandoned) <= 1 /\ Cardinality(abandoned \cup shared) <= 2
\* Bound: gestures under way before another one begins.
FewGestures ==
  Cardinality({cp \in Udids \X Pointers : gesture[cp[1]][cp[2]] # NoGesture})
    + Cardinality({s \in Players : ~Idle(s)}) <= 2
=============================================================================
