------------------------------ MODULE Induction ------------------------------
(***************************************************************************)
(* Induction on the natural numbers, stated for sets: a set that holds 0   *)
(* and is closed under the successor holds every number. What a recursive  *)
(* function of a module computes is proved with it.                        *)
(***************************************************************************)
EXTENDS Integers, TLAPS, WellFoundedInduction

\* A set of naturals that is not empty has a least element.
LEMMA LeastNatural ==
    ASSUME NEW T \in SUBSET Nat, T # {}
    PROVE  \E n \in T : \A m \in T : n <= m
<1>1. PICK n \in T : \A m \in T : ~ (<<m, n>> \in OpToRel(<, Nat))
    BY NatLessThanWellFounded, WFMin
<1>2. \A m \in T : ~ (m < n)
    BY <1>1 DEF OpToRel
<1> QED
    BY <1>2

\* The least number outside of the set would follow one inside.
LEMMA NaturalInduction ==
    ASSUME NEW T, 0 \in T, \A n \in Nat : n \in T => n + 1 \in T
    PROVE  Nat \subseteq T
<1> SUFFICES ASSUME Nat \ T # {} PROVE FALSE
    OBVIOUS
<1>1. PICK n \in Nat \ T : \A m \in Nat \ T : n <= m
    BY LeastNatural
<1>2. n # 0 /\ n - 1 \in Nat /\ n - 1 \in T
    BY <1>1
<1> QED
    BY <1>2

\* The same up to a bound, going up one number at a time.
LEMMA BoundedInduction ==
    ASSUME NEW m \in Nat, NEW T, 0 \in T, \A n \in 1 .. m : n - 1 \in T => n \in T
    PROVE  0 .. m \subseteq T
<1> DEFINE U == T \cup {n \in Nat : n > m}
<1>1. 0 \in U
    OBVIOUS
<1>2. ASSUME NEW n \in Nat, n \in U PROVE n + 1 \in U
    <2>1. CASE n + 1 > m
        BY <2>1
    <2>2. CASE n + 1 <= m
        <3>1. n \in T /\ n + 1 \in 1 .. m /\ (n + 1) - 1 = n
            BY <1>2, <2>2
        <3> QED
            BY <3>1
    <2> QED
        BY <2>1, <2>2
<1> HIDE DEF U
<1>3. Nat \subseteq U
    BY <1>1, <1>2, NaturalInduction
<1> QED
    BY <1>3 DEF U

\* g holds the results of a step taken m times from a base.
Runs(g, S, base, step, m) ==
    /\ g \in [0 .. m -> S]
    /\ g[0] = base
    /\ \A n \in 1 .. m : g[n] = step[n][g[n - 1]]

\* A step can be taken any number of times.
LEMMA Iteration ==
    ASSUME NEW S, NEW base \in S, NEW m \in Nat, NEW step \in [1 .. m -> [S -> S]]
    PROVE  \E g : Runs(g, S, base, step, m)
<1> USE DEF Runs
<1> DEFINE T == {k \in 0 .. m : \E g : Runs(g, S, base, step, k)}
<1>1. 0 \in T
    <2> DEFINE g == [n \in 0 .. 0 |-> base]
    <2>1. Runs(g, S, base, step, 0)
        OBVIOUS
    <2> HIDE DEF g
    <2>2. (\E f : Runs(f, S, base, step, 0)) /\ 0 \in 0 .. m
        BY <2>1
    <2> QED
        BY <2>2
<1>2. ASSUME NEW k \in 1 .. m, k - 1 \in T PROVE k \in T
    <2>1. PICK g : Runs(g, S, base, step, k - 1)
        BY <1>2
    <2> DEFINE last == step[k][g[k - 1]]
               h == [n \in 0 .. k |-> IF n = k THEN last ELSE g[n]]
    <2>2. g[k - 1] \in S /\ k - 1 \in 0 .. k - 1
        BY <2>1
    <2>3. last \in S
        BY <2>2
    <2>4. h \in [0 .. k -> S]
        BY <2>1, <2>3
    <2>5. h[0] = base /\ h[k] = last /\ \A n \in 0 .. k - 1 : h[n] = g[n]
        BY <2>1
    <2> HIDE DEF h
    <2>6. ASSUME NEW n \in 1 .. k PROVE h[n] = step[n][h[n - 1]]
        <3>1. CASE n = k
            BY <2>2, <2>5, <3>1
        <3>2. CASE n # k
            <4>1. n \in 1 .. k - 1 /\ n \in 0 .. k - 1 /\ n - 1 \in 0 .. k - 1
                BY <3>2
            <4> QED
                BY <2>1, <2>5, <4>1
        <3> QED
            BY <3>1, <3>2
    <2>7. Runs(h, S, base, step, k)
        BY <2>4, <2>5, <2>6
    <2> QED
        BY <2>7
<1> HIDE DEF T
<1>3. 0 .. m \subseteq T
    BY <1>1, <1>2, BoundedInduction
<1>4. m \in T
    BY <1>3
<1> QED
    BY <1>4 DEF T

=============================================================================
