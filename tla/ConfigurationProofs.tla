------------------------- MODULE ConfigurationProofs -------------------------
(***************************************************************************)
(* Proofs about Configuration, for every config file and every list of     *)
(* flags: the readers Load resolves are those its layers promise.          *)
(*                                                                         *)
(* Every loop of loader.go goes over a list once and keeps the result so   *)
(* far. Each has a lemma that says what its recursive function is, and an  *)
(* induction over the part of the list it has seen.                        *)
(***************************************************************************)
EXTENDS Configuration, Induction, FiniteSetTheorems

-----------------------------------------------------------------------------
(***************************************************************************)
(* Sequences.                                                              *)
(***************************************************************************)
LEMMA SequenceFacts ==
    /\ \A S : << >> \in Seq(S) /\ Len(<< >>) = 0 /\ DOMAIN << >> = {}
    /\ \A S : \A s \in Seq(S) :
          /\ Len(s) \in Nat /\ DOMAIN s = 1 .. Len(s)
          /\ \A i \in 1 .. Len(s) : s[i] \in S
OBVIOUS

LEMMA AppendFacts ==
    ASSUME NEW S, NEW s \in Seq(S), NEW e \in S
    PROVE  /\ Append(s, e) \in Seq(S) /\ Len(Append(s, e)) = Len(s) + 1
           /\ DOMAIN Append(s, e) = 1 .. Len(s) + 1
           /\ \A i \in 1 .. Len(s) : Append(s, e)[i] = s[i]
           /\ Append(s, e)[Len(s) + 1] = e
OBVIOUS

LEMMA ConcatFacts ==
    ASSUME NEW S, NEW s \in Seq(S), NEW t \in Seq(S)
    PROVE  /\ s \o t \in Seq(S) /\ Len(s \o t) = Len(s) + Len(t)
           /\ DOMAIN (s \o t) = 1 .. Len(s) + Len(t)
           /\ \A i \in 1 .. Len(s) : (s \o t)[i] = s[i]
           /\ \A i \in 1 .. Len(t) : (s \o t)[Len(s) + i] = t[i]
OBVIOUS

\* A function on an initial segment of the numbers is a sequence.
LEMMA FunctionIsSeq ==
    ASSUME NEW S, NEW n \in Nat, NEW f \in [1 .. n -> S]
    PROVE  f \in Seq(S) /\ Len(f) = n
OBVIOUS

LEMMA WiderSequence ==
    ASSUME NEW S, NEW T, S \subseteq T, NEW s \in Seq(S)
    PROVE  s \in Seq(T)
<1>1. Len(s) \in Nat /\ DOMAIN s = 1 .. Len(s) /\ \A i \in 1 .. Len(s) : s[i] \in T
    BY SequenceFacts
<1>2. s = [i \in 1 .. Len(s) |-> s[i]]
    BY <1>1
<1>3. s \in [1 .. Len(s) -> T]
    BY <1>1, <1>2
<1> QED
    BY <1>1, <1>3, FunctionIsSeq

\* Sequences of one length with the same elements are one.
LEMMA SameSequence ==
    ASSUME NEW S, NEW s \in Seq(S), NEW t \in Seq(S), Len(s) = Len(t),
           \A i \in 1 .. Len(s) : s[i] = t[i]
    PROVE  s = t
OBVIOUS

\* The names in a list.
NamesIn(R) == {r.name : r \in R}

LEMMA NamedFacts ==
    ASSUME NEW R, NEW s \in Seq(R)
    PROVE  /\ Named(s) \in Seq(NamesIn(R)) /\ Len(Named(s)) = Len(s)
           /\ DOMAIN Named(s) = 1 .. Len(s)
           /\ \A i \in 1 .. Len(s) : Named(s)[i] = s[i].name
<1>1. Len(s) \in Nat /\ DOMAIN s = 1 .. Len(s) /\ \A i \in 1 .. Len(s) : s[i] \in R
    BY SequenceFacts
<1>2. Named(s) = [i \in 1 .. Len(s) |-> s[i].name]
    BY <1>1 DEF Named
<1>3. Named(s) \in [1 .. Len(s) -> NamesIn(R)]
    BY <1>1, <1>2 DEF NamesIn
<1> QED
    BY <1>1, <1>2, <1>3, FunctionIsSeq

-----------------------------------------------------------------------------
(***************************************************************************)
(* The order of the names.                                                 *)
(***************************************************************************)

\* In a list, a comes before any b.
Before(all, a, b) == \E i \in DOMAIN all : all[i] = a /\ \A j \in 1 .. i : all[j] # b

\* The names are those of the list, each once, in the order it first has them.
InOrder(names, all) ==
    /\ Range(names) = Range(all)
    /\ \A i, j \in DOMAIN names : i < j => Before(all, names[i], names[j])

\* What comes first in a list comes first in a longer one.
LEMMA BeforeExtends ==
    ASSUME NEW S, NEW all \in Seq(S), NEW more \in Seq(S), Len(all) <= Len(more),
           \A i \in 1 .. Len(all) : more[i] = all[i],
           NEW a, NEW b, Before(all, a, b)
    PROVE  Before(more, a, b)
<1>1. /\ Len(all) \in Nat /\ DOMAIN all = 1 .. Len(all)
      /\ Len(more) \in Nat /\ DOMAIN more = 1 .. Len(more)
    BY SequenceFacts
<1>2. PICK i \in 1 .. Len(all) : all[i] = a /\ \A j \in 1 .. i : all[j] # b
    BY <1>1 DEF Before
<1>3. i \in 1 .. Len(more) /\ \A j \in 1 .. i : j \in 1 .. Len(all)
    BY <1>1
<1> QED
    BY <1>1, <1>2, <1>3 DEF Before

\* Nothing comes before itself, so each name is there once.
LEMMA InOrderDistinct ==
    ASSUME NEW names, NEW S, NEW all \in Seq(S), InOrder(names, all),
           NEW i \in DOMAIN names, NEW j \in DOMAIN names, i < j
    PROVE  names[i] # names[j]
<1>1. PICK k \in DOMAIN all : all[k] = names[i] /\ \A l \in 1 .. k : all[l] # names[j]
    BY DEF InOrder, Before
<1>2. k \in 1 .. k
    BY <1>1, SequenceFacts
<1> QED
    BY <1>1, <1>2

\* Noting a name as it is met keeps the order.
LEMMA NotedInOrder ==
    ASSUME NEW S, NEW names \in Seq(S), NEW all \in Seq(S), NEW e \in S, InOrder(names, all)
    PROVE  /\ Noted(names, e) \in Seq(S)
           /\ InOrder(Noted(names, e), Append(all, e))
<1> DEFINE more == Append(all, e)
<1>1. /\ Len(all) \in Nat /\ DOMAIN all = 1 .. Len(all)
      /\ Len(names) \in Nat /\ DOMAIN names = 1 .. Len(names)
    BY SequenceFacts
<1>2. /\ more \in Seq(S) /\ Len(more) = Len(all) + 1 /\ DOMAIN more = 1 .. Len(all) + 1
      /\ \A i \in 1 .. Len(all) : more[i] = all[i]
      /\ more[Len(all) + 1] = e
    BY AppendFacts
<1> HIDE DEF more
<1>3. Range(more) = Range(all) \cup {e}
    BY <1>1, <1>2 DEF Range
<1>4. Range(names) = Range(all) /\ \A i, j \in DOMAIN names : i < j =>
          Before(all, names[i], names[j])
    BY DEF InOrder
<1>5. ASSUME NEW i \in DOMAIN names, NEW j \in DOMAIN names, i < j
      PROVE  Before(more, names[i], names[j])
    <2>1. Before(all, names[i], names[j])
        BY <1>4, <1>5
    <2> QED
        BY <1>1, <1>2, <2>1, BeforeExtends
<1>6. CASE e \in Range(names)
    <2>1. Noted(names, e) = names
        BY <1>6 DEF Noted
    <2>2. Range(names) = Range(more)
        BY <1>3, <1>4, <1>6
    <2>3. InOrder(names, more)
        BY <1>5, <2>2 DEF InOrder
    <2> QED
        BY <2>1, <2>3 DEF more
<1>7. CASE e \notin Range(names)
    <2> DEFINE noted == Append(names, e)
    <2>1. Noted(names, e) = noted
        BY <1>7 DEF Noted
    <2>2. /\ noted \in Seq(S) /\ DOMAIN noted = 1 .. Len(names) + 1
          /\ \A i \in 1 .. Len(names) : noted[i] = names[i]
          /\ noted[Len(names) + 1] = e
        BY AppendFacts
    <2> HIDE DEF noted
    <2>3. Range(noted) = Range(more)
        <3>1. Range(noted) = Range(names) \cup {e}
            BY <1>1, <2>2 DEF Range
        <3> QED
            BY <1>3, <1>4, <3>1
    <2>4. ASSUME NEW i \in DOMAIN noted, NEW j \in DOMAIN noted, i < j
          PROVE  Before(more, noted[i], noted[j])
        <3>1. i \in 1 .. Len(names) /\ noted[i] = names[i]
            BY <1>1, <2>2, <2>4
        <3>2. CASE j \in 1 .. Len(names)
            BY <1>1, <1>5, <2>2, <2>4, <3>1, <3>2
        <3>3. CASE j = Len(names) + 1
            <4>1. names[i] \in Range(all)
                BY <1>1, <1>4, <3>1 DEF Range
            <4>2. PICK k \in 1 .. Len(all) : all[k] = names[i]
                BY <1>1, <4>1 DEF Range
            <4>3. \A l \in 1 .. Len(all) : all[l] # e
                BY <1>1, <1>4, <1>7 DEF Range
            <4>4. k \in DOMAIN more /\ more[k] = names[i] /\ \A l \in 1 .. k : more[l] # e
                BY <1>1, <1>2, <4>2, <4>3
            <4>5. Before(more, names[i], e)
                BY <4>4 DEF Before
            <4> QED
                BY <2>2, <3>1, <3>3, <4>5
        <3> QED
            BY <1>1, <2>2, <3>2, <3>3
    <2>5. InOrder(noted, more)
        BY <2>3, <2>4 DEF InOrder
    <2> QED
        BY <2>1, <2>2, <2>5 DEF more
<1> QED
    BY <1>6, <1>7

-----------------------------------------------------------------------------
(***************************************************************************)
(* One layer over those below it.                                          *)
(***************************************************************************)

\* Each reader is the override, or was in its place and has another name.
Replaced(result, readers, o) ==
    \A i \in DOMAIN result :
        \/ result[i] = o
        \/ result[i].name # o.name /\ i \in DOMAIN readers /\ result[i] = readers[i]

\* A list has no name twice.
DistinctNames(readers) ==
    \A i, j \in DOMAIN readers : i < j => readers[i].name # readers[j].name

\* replaceReader notes the name of the reader it is given, and where names are
\* distinct that reader is found under its name and the others are as they were.
LEMMA ReplaceFacts ==
    ASSUME NEW R, NEW readers \in Seq(R), NEW o \in R
    PROVE  /\ ReplaceReader(readers, o) \in Seq(R)
           /\ Named(ReplaceReader(readers, o)) = Noted(Named(readers), o.name)
           /\ DistinctNames(readers) => Replaced(ReplaceReader(readers, o), readers, o)
<1> DEFINE same == {i \in DOMAIN readers : readers[i].name = o.name}
           result == ReplaceReader(readers, o)
<1>1. /\ Len(readers) \in Nat /\ DOMAIN readers = 1 .. Len(readers)
      /\ \A i \in 1 .. Len(readers) : readers[i] \in R
    BY SequenceFacts
<1>2. /\ Named(readers) \in Seq(NamesIn(R)) /\ Len(Named(readers)) = Len(readers)
      /\ DOMAIN Named(readers) = 1 .. Len(readers)
      /\ \A i \in 1 .. Len(readers) : Named(readers)[i] = readers[i].name
    BY NamedFacts
<1>3. o.name \in NamesIn(R)
    BY DEF NamesIn
<1>4. same = {} <=> o.name \notin Range(Named(readers))
    BY <1>1, <1>2 DEF Range
<1>5. CASE same = {}
    <2>1. result = Append(readers, o)
        BY <1>5 DEF ReplaceReader
    <2>2. /\ result \in Seq(R) /\ Len(result) = Len(readers) + 1
          /\ DOMAIN result = 1 .. Len(readers) + 1
          /\ \A i \in 1 .. Len(readers) : result[i] = readers[i]
          /\ result[Len(readers) + 1] = o
        BY <2>1, AppendFacts
    <2> HIDE DEF result
    <2> DEFINE noted == Append(Named(readers), o.name)
    <2>3. Noted(Named(readers), o.name) = noted
        BY <1>4, <1>5 DEF Noted
    <2>4. /\ noted \in Seq(NamesIn(R)) /\ Len(noted) = Len(readers) + 1
          /\ \A i \in 1 .. Len(readers) : noted[i] = readers[i].name
          /\ noted[Len(readers) + 1] = o.name
        <3> HIDE DEF noted
        <3> QED
            BY <1>2, <1>3, AppendFacts DEF noted
    <2> HIDE DEF noted
    <2>5. /\ Named(result) \in Seq(NamesIn(R)) /\ Len(Named(result)) = Len(readers) + 1
          /\ \A i \in 1 .. Len(readers) + 1 : Named(result)[i] = result[i].name
        BY <2>2, NamedFacts
    <2>6. Named(result) = noted
        <3>1. ASSUME NEW i \in 1 .. Len(readers) + 1 PROVE Named(result)[i] = noted[i]
            <4>1. i \in 1 .. Len(readers) \/ i = Len(readers) + 1
                BY <1>1
            <4> QED
                BY <2>2, <2>4, <2>5, <4>1
        <3> QED
            BY <2>4, <2>5, <3>1, SameSequence
    <2>7. \A i \in DOMAIN result : result[i] = o \/
              (result[i].name # o.name /\ i \in DOMAIN readers /\ result[i] = readers[i])
        BY <1>1, <1>5, <2>2
    <2> QED
        BY <2>2, <2>3, <2>6, <2>7 DEF result, Replaced
<1>6. CASE same # {}
    <2> DEFINE c == CHOOSE i \in same : \A j \in same : i <= j
    <2>1. c \in same
        <3>1. same \in SUBSET Nat
            BY <1>1
        <3>2. \E i \in same : \A j \in same : i <= j
            BY <1>6, <3>1, LeastNatural
        <3> QED
            BY <3>2, Zenon
    <2>2. result = [readers EXCEPT ![c] = o]
        BY <1>6 DEF ReplaceReader
    <2> HIDE DEF c
    <2>3. c \in 1 .. Len(readers) /\ readers[c].name = o.name
        BY <1>1, <2>1
    <2>4. /\ result \in Seq(R) /\ Len(result) = Len(readers)
          /\ DOMAIN result = 1 .. Len(readers)
          /\ result[c] = o
          /\ \A i \in 1 .. Len(readers) : i # c => result[i] = readers[i]
        BY <1>1, <2>2, <2>3
    <2> HIDE DEF result
    <2>5. /\ Named(result) \in Seq(NamesIn(R)) /\ Len(Named(result)) = Len(readers)
          /\ \A i \in 1 .. Len(readers) : Named(result)[i] = result[i].name
        BY <2>4, NamedFacts
    <2>6. Named(result) = Named(readers)
        <3>1. \A i \in 1 .. Len(readers) : Named(result)[i] = Named(readers)[i]
            BY <1>2, <2>3, <2>4, <2>5
        <3> QED
            BY <1>2, <2>5, <3>1, SameSequence
    <2>7. Noted(Named(readers), o.name) = Named(readers)
        BY <1>4, <1>6 DEF Noted
    <2>8. ASSUME \A i, j \in DOMAIN readers : i < j => readers[i].name # readers[j].name,
                 NEW i \in DOMAIN result
          PROVE  result[i] = o \/
                     (result[i].name # o.name /\ i \in DOMAIN readers /\ result[i] = readers[i])
        <3>1. CASE i = c
            BY <2>4, <3>1
        <3>2. CASE i # c
            <4>1. i \in 1 .. Len(readers) /\ (i < c \/ c < i)
                BY <2>3, <2>4, <3>2
            <4>2. readers[i].name # o.name
                BY <1>1, <2>3, <2>8, <4>1
            <4> QED
                BY <1>1, <2>4, <3>2, <4>1, <4>2
        <3> QED
            BY <3>1, <3>2
    <2> QED
        BY <2>4, <2>6, <2>7, <2>8 DEF result, Replaced, DistinctNames
<1> QED
    BY <1>5, <1>6

\* The lists of readers after each step of Override.
Overrides(f, base, over) ==
    /\ f[0] = base
    /\ \A n \in 1 .. Len(over) : f[n] = ReplaceReader(f[n - 1], over[n])
    /\ Override(base, over) = f[Len(over)]

\* Override is the last of its steps.
LEMMA OverrideSteps ==
    ASSUME NEW R, NEW base \in Seq(R), NEW over \in Seq(R)
    PROVE  \E f \in [0 .. Len(over) -> Seq(R)] : Overrides(f, base, over)
<1> DEFINE m == Len(over)
           Is(f) == f = [n \in 0 .. m |->
                            IF n = 0 THEN base ELSE ReplaceReader(f[n - 1], over[n])]
<1>1. m \in Nat /\ \A n \in 1 .. m : over[n] \in R
    BY SequenceFacts
<1>2. Override(base, over) = (CHOOSE f : Is(f))[m]
    BY DEF Override
<1>3. \A readers \in Seq(R) : \A o \in R : ReplaceReader(readers, o) \in Seq(R)
    BY ReplaceFacts
<1> HIDE DEF m
<1> DEFINE step == [n \in 1 .. m |-> [readers \in Seq(R) |-> ReplaceReader(readers, over[n])]]
<1>4. step \in [1 .. m -> [Seq(R) -> Seq(R)]]
    BY <1>1, <1>3
<1>5. \A n \in 1 .. m : \A readers \in Seq(R) :
          step[n][readers] = ReplaceReader(readers, over[n])
    OBVIOUS
<1> HIDE DEF step
<1>6. PICK g : Runs(g, Seq(R), base, step, m)
    <2>1. base \in Seq(R)
        OBVIOUS
    <2> QED
        BY <1>1, <1>4, <2>1, Iteration, Zenon
<1>7. Is(g)
    <2>1. ASSUME NEW n \in 0 .. m
          PROVE  g[n] = IF n = 0 THEN base ELSE ReplaceReader(g[n - 1], over[n])
        <3>1. CASE n = 0
            BY <1>6, <3>1 DEF Runs
        <3>2. CASE n # 0
            <4>1. n \in 1 .. m /\ n - 1 \in 0 .. m
                BY <1>1, <3>2
            <4>2. g[n - 1] \in Seq(R)
                BY <1>6, <4>1 DEF Runs
            <4>3. g[n] = ReplaceReader(g[n - 1], over[n])
                BY <1>5, <1>6, <4>1, <4>2 DEF Runs
            <4> QED
                BY <3>2, <4>3
        <3> QED
            BY <3>1, <3>2
    <2>2. g = [n \in 0 .. m |-> g[n]]
        BY <1>6 DEF Runs
    <2> QED
        BY <2>1, <2>2
<1>8. PICK f : Is(f) /\ Override(base, over) = f[m]
    <2>1. Is(CHOOSE f : Is(f))
        <3> HIDE DEF Is
        <3> QED
            BY <1>7, Zenon
    <2> HIDE DEF Is
    <2> QED
        BY <1>2, <2>1
<1>9. f[0] = base /\ \A n \in 1 .. m : f[n] = ReplaceReader(f[n - 1], over[n])
    <2>1. \A n \in 0 .. m : f[n] = IF n = 0 THEN base ELSE ReplaceReader(f[n - 1], over[n])
        BY <1>8
    <2> HIDE DEF Is
    <2> QED
        BY <1>1, <2>1
<1>10. f \in [0 .. m -> Seq(R)]
    <2>1. f = [n \in 0 .. m |-> f[n]]
        BY <1>8
    <2> HIDE DEF Is
    <2> DEFINE T == {n \in 0 .. m : f[n] \in Seq(R)}
    <2>2. 0 \in T
        BY <1>1, <1>9
    <2>3. ASSUME NEW n \in 1 .. m, n - 1 \in T PROVE n \in T
        <3>1. f[n - 1] \in Seq(R) /\ over[n] \in R
            BY <1>1, <2>3
        <3>2. f[n] = ReplaceReader(f[n - 1], over[n]) /\ n \in 0 .. m
            BY <1>1, <1>9
        <3>3. f[n] \in Seq(R)
            BY <1>3, <3>1, <3>2, Zenon
        <3> QED
            BY <3>2, <3>3
    <2> HIDE DEF T
    <2>4. 0 .. m \subseteq T
        BY <1>1, <2>2, <2>3, BoundedInduction
    <2> QED
        BY <2>1, <2>4 DEF T
<1> HIDE DEF Is
<1> QED
    BY <1>8, <1>9, <1>10 DEF m, Overrides

\* NamesOf is the last of its steps.
LEMMA NamesSteps ==
    ASSUME NEW R, NEW flags \in Seq(R)
    PROVE  \E f \in [0 .. Len(flags) -> Seq(NamesIn(R))] :
               /\ f[0] = << >>
               /\ \A n \in 1 .. Len(flags) : f[n] = Noted(f[n - 1], flags[n].name)
               /\ NamesOf(flags) = f[Len(flags)]
<1> DEFINE m == Len(flags)
           Is(f) == f = [n \in 0 .. m |->
                            IF n = 0 THEN << >> ELSE Noted(f[n - 1], flags[n].name)]
<1>1. m \in Nat /\ \A n \in 1 .. m : flags[n].name \in NamesIn(R)
    BY SequenceFacts DEF NamesIn
<1>2. NamesOf(flags) = (CHOOSE f : Is(f))[m]
    BY DEF NamesOf
<1>3. \A names \in Seq(NamesIn(R)) : \A o \in NamesIn(R) : Noted(names, o) \in Seq(NamesIn(R))
    BY AppendFacts DEF Noted
<1> HIDE DEF m
<1> DEFINE step == [n \in 1 .. m |-> [names \in Seq(NamesIn(R)) |-> Noted(names, flags[n].name)]]
<1>4. step \in [1 .. m -> [Seq(NamesIn(R)) -> Seq(NamesIn(R))]]
    BY <1>1, <1>3
<1>5. \A n \in 1 .. m : \A names \in Seq(NamesIn(R)) :
          step[n][names] = Noted(names, flags[n].name)
    OBVIOUS
<1> HIDE DEF step
<1>6. PICK g : Runs(g, Seq(NamesIn(R)), << >>, step, m)
    <2>1. << >> \in Seq(NamesIn(R))
        OBVIOUS
    <2> QED
        BY <1>1, <1>4, <2>1, Iteration, Zenon
<1>7. Is(g)
    <2>1. ASSUME NEW n \in 0 .. m
          PROVE  g[n] = IF n = 0 THEN << >> ELSE Noted(g[n - 1], flags[n].name)
        <3>1. CASE n = 0
            BY <1>6, <3>1 DEF Runs
        <3>2. CASE n # 0
            <4>1. n \in 1 .. m /\ n - 1 \in 0 .. m
                BY <1>1, <3>2
            <4>2. g[n - 1] \in Seq(NamesIn(R))
                BY <1>6, <4>1 DEF Runs
            <4>3. g[n] = Noted(g[n - 1], flags[n].name)
                BY <1>5, <1>6, <4>1, <4>2 DEF Runs
            <4> QED
                BY <3>2, <4>3
        <3> QED
            BY <3>1, <3>2
    <2>2. g = [n \in 0 .. m |-> g[n]]
        BY <1>6 DEF Runs
    <2> QED
        BY <2>1, <2>2
<1>8. PICK f : Is(f) /\ NamesOf(flags) = f[m]
    <2>1. Is(CHOOSE f : Is(f))
        <3> HIDE DEF Is
        <3> QED
            BY <1>7, Zenon
    <2> HIDE DEF Is
    <2> QED
        BY <1>2, <2>1
<1>9. f[0] = << >> /\ \A n \in 1 .. m : f[n] = Noted(f[n - 1], flags[n].name)
    <2>1. \A n \in 0 .. m : f[n] = IF n = 0 THEN << >> ELSE Noted(f[n - 1], flags[n].name)
        BY <1>8
    <2> HIDE DEF Is
    <2> QED
        BY <1>1, <2>1
<1>10. f \in [0 .. m -> Seq(NamesIn(R))]
    <2>1. f = [n \in 0 .. m |-> f[n]]
        BY <1>8
    <2> HIDE DEF Is
    <2> DEFINE T == {n \in 0 .. m : f[n] \in Seq(NamesIn(R))}
    <2>2. 0 \in T
        <3>1. << >> \in Seq(NamesIn(R))
            OBVIOUS
        <3>2. f[0] \in Seq(NamesIn(R))
            BY <1>9, <3>1, Zenon
        <3> QED
            BY <1>1, <3>2
    <2>3. ASSUME NEW n \in 1 .. m, n - 1 \in T PROVE n \in T
        <3>1. f[n - 1] \in Seq(NamesIn(R)) /\ flags[n].name \in NamesIn(R)
            BY <1>1, <2>3
        <3>2. f[n] = Noted(f[n - 1], flags[n].name) /\ n \in 0 .. m
            BY <1>1, <1>9
        <3>3. f[n] \in Seq(NamesIn(R))
            BY <1>3, <3>1, <3>2, Zenon
        <3> QED
            BY <3>2, <3>3
    <2> HIDE DEF T
    <2>4. 0 .. m \subseteq T
        BY <1>1, <2>2, <2>3, BoundedInduction
    <2> QED
        BY <2>1, <2>4 DEF T
<1> HIDE DEF Is
<1> QED
    BY <1>8, <1>9, <1>10 DEF m

\* The step of FlagsNamed.
Keep(kept, flag, name) == IF flag.name = name THEN Append(kept, flag) ELSE kept

Keeps(f, flags, name) ==
    /\ f[0] = << >>
    /\ \A n \in 1 .. Len(flags) : f[n] = Keep(f[n - 1], flags[n], name)
    /\ FlagsNamed(flags, name) = f[Len(flags)]

\* FlagsNamed is the last of its steps.
LEMMA FlagsSteps ==
    ASSUME NEW R, NEW flags \in Seq(R), NEW name
    PROVE  \E f \in [0 .. Len(flags) -> Seq(R)] : Keeps(f, flags, name)
<1> DEFINE m == Len(flags)
           Is(f) == f = [n \in 0 .. m |->
                            IF n = 0 THEN << >> ELSE Keep(f[n - 1], flags[n], name)]
<1>1. m \in Nat /\ \A n \in 1 .. m : flags[n] \in R
    BY SequenceFacts
<1>2. FlagsNamed(flags, name) = (CHOOSE f : Is(f))[m]
    BY DEF FlagsNamed, Keep
<1>3. \A kept \in Seq(R) : \A o \in R : Keep(kept, o, name) \in Seq(R)
    BY AppendFacts DEF Keep
<1> HIDE DEF m
<1> DEFINE step == [n \in 1 .. m |-> [kept \in Seq(R) |-> Keep(kept, flags[n], name)]]
<1>4. step \in [1 .. m -> [Seq(R) -> Seq(R)]]
    BY <1>1, <1>3
<1>5. \A n \in 1 .. m : \A kept \in Seq(R) :
          step[n][kept] = Keep(kept, flags[n], name)
    OBVIOUS
<1> HIDE DEF step
<1>6. PICK g : Runs(g, Seq(R), << >>, step, m)
    <2>1. << >> \in Seq(R)
        OBVIOUS
    <2> QED
        BY <1>1, <1>4, <2>1, Iteration, Zenon
<1>7. Is(g)
    <2>1. ASSUME NEW n \in 0 .. m
          PROVE  g[n] = IF n = 0 THEN << >> ELSE Keep(g[n - 1], flags[n], name)
        <3>1. CASE n = 0
            BY <1>6, <3>1 DEF Runs
        <3>2. CASE n # 0
            <4>1. n \in 1 .. m /\ n - 1 \in 0 .. m
                BY <1>1, <3>2
            <4>2. g[n - 1] \in Seq(R)
                BY <1>6, <4>1 DEF Runs
            <4>3. g[n] = Keep(g[n - 1], flags[n], name)
                BY <1>5, <1>6, <4>1, <4>2 DEF Runs
            <4> QED
                BY <3>2, <4>3
        <3> QED
            BY <3>1, <3>2
    <2>2. g = [n \in 0 .. m |-> g[n]]
        BY <1>6 DEF Runs
    <2> QED
        BY <2>1, <2>2
<1>8. PICK f : Is(f) /\ FlagsNamed(flags, name) = f[m]
    <2>1. Is(CHOOSE f : Is(f))
        <3> HIDE DEF Is
        <3> QED
            BY <1>7, Zenon
    <2> HIDE DEF Is
    <2> QED
        BY <1>2, <2>1
<1>9. f[0] = << >> /\ \A n \in 1 .. m : f[n] = Keep(f[n - 1], flags[n], name)
    <2>1. \A n \in 0 .. m : f[n] = IF n = 0 THEN << >> ELSE Keep(f[n - 1], flags[n], name)
        BY <1>8
    <2> HIDE DEF Is
    <2> QED
        BY <1>1, <2>1
<1>10. f \in [0 .. m -> Seq(R)]
    <2>1. f = [n \in 0 .. m |-> f[n]]
        BY <1>8
    <2> HIDE DEF Is
    <2> DEFINE T == {n \in 0 .. m : f[n] \in Seq(R)}
    <2>2. 0 \in T
        <3>1. << >> \in Seq(R)
            OBVIOUS
        <3>2. f[0] \in Seq(R)
            BY <1>9, <3>1, Zenon
        <3> QED
            BY <1>1, <3>2
    <2>3. ASSUME NEW n \in 1 .. m, n - 1 \in T PROVE n \in T
        <3>1. f[n - 1] \in Seq(R) /\ flags[n] \in R
            BY <1>1, <2>3
        <3>2. f[n] = Keep(f[n - 1], flags[n], name) /\ n \in 0 .. m
            BY <1>1, <1>9
        <3>3. f[n] \in Seq(R)
            BY <1>3, <3>1, <3>2, Zenon
        <3> QED
            BY <3>2, <3>3
    <2> HIDE DEF T
    <2>4. 0 .. m \subseteq T
        BY <1>1, <2>2, <2>3, BoundedInduction
    <2> QED
        BY <2>1, <2>4 DEF T
<1> HIDE DEF Is
<1> QED
    BY <1>8, <1>9, <1>10 DEF m, Keeps
-----------------------------------------------------------------------------
(***************************************************************************)
(* What a layer leaves: the names in order, and each from where it last    *)
(* was.                                                                    *)
(***************************************************************************)

\* The first n of a list.
Part(list, n) == [i \in 1 .. n |-> list[i]]

\* A list after another has one more element with each part.
Grows(s, t) == \A n \in 1 .. Len(t) : s \o Part(t, n) = Append(s \o Part(t, n - 1), t[n])

LEMMA PartFacts ==
    ASSUME NEW S, NEW s \in Seq(S), NEW t \in Seq(S)
    PROVE  /\ s \o Part(t, 0) = s
           /\ s \o Part(t, Len(t)) = s \o t
           /\ \A n \in 0 .. Len(t) : s \o Part(t, n) \in Seq(S)
           /\ Grows(s, t)
<1>1. /\ Len(s) \in Nat /\ Len(t) \in Nat
      /\ \A i \in 1 .. Len(t) : t[i] \in S
    BY SequenceFacts
<1>2. ASSUME NEW n \in 0 .. Len(t)
      PROVE  /\ Part(t, n) \in Seq(S) /\ Len(Part(t, n)) = n
             /\ \A i \in 1 .. n : Part(t, n)[i] = t[i]
    <2>1. n \in Nat /\ Part(t, n) \in [1 .. n -> S]
        BY <1>1, <1>2 DEF Part
    <2>2. Part(t, n) \in Seq(S) /\ Len(Part(t, n)) = n
        BY <2>1, FunctionIsSeq
    <2> QED
        BY <2>2 DEF Part
<1>3. ASSUME NEW n \in 0 .. Len(t)
      PROVE  /\ s \o Part(t, n) \in Seq(S) /\ Len(s \o Part(t, n)) = Len(s) + n
             /\ \A i \in 1 .. Len(s) : (s \o Part(t, n))[i] = s[i]
             /\ \A i \in 1 .. n : (s \o Part(t, n))[Len(s) + i] = t[i]
    <2>1. /\ Part(t, n) \in Seq(S) /\ Len(Part(t, n)) = n
          /\ \A i \in 1 .. n : Part(t, n)[i] = t[i]
        BY <1>2
    <2> DEFINE p == Part(t, n)
    <2>0. p \in Seq(S)
        BY <2>1
    <2> HIDE DEF p
    <2>2. /\ s \o p \in Seq(S) /\ Len(s \o p) = Len(s) + Len(p)
          /\ \A i \in 1 .. Len(s) : (s \o p)[i] = s[i]
          /\ \A i \in 1 .. Len(p) : (s \o p)[Len(s) + i] = p[i]
        BY <2>0, ConcatFacts
    <2> QED
        BY <2>1, <2>2 DEF p
<1>4. s \o Part(t, 0) = s
    <2> DEFINE all == s \o Part(t, 0)
    <2>1. all \in Seq(S) /\ Len(all) = Len(s) /\ \A i \in 1 .. Len(s) : all[i] = s[i]
        BY <1>1, <1>3
    <2> HIDE DEF all
    <2>2. all = s
        BY <2>1, SameSequence
    <2> QED
        BY <2>2 DEF all
<1>5. Part(t, Len(t)) = t
    <2> DEFINE all == Part(t, Len(t))
    <2>1. all \in Seq(S) /\ Len(all) = Len(t) /\ \A i \in 1 .. Len(t) : all[i] = t[i]
        BY <1>1, <1>2
    <2> HIDE DEF all
    <2>2. all = t
        BY <2>1, SameSequence
    <2> QED
        BY <2>2 DEF all
<1>6. ASSUME NEW n \in 1 .. Len(t)
      PROVE  s \o Part(t, n) = Append(s \o Part(t, n - 1), t[n])
    <2> DEFINE now == s \o Part(t, n)
               before == s \o Part(t, n - 1)
               next == Append(before, t[n])
    <2>1. n \in 0 .. Len(t) /\ n - 1 \in 0 .. Len(t) /\ t[n] \in S
        BY <1>1
    <2>2. /\ now \in Seq(S) /\ Len(now) = Len(s) + n
          /\ \A i \in 1 .. Len(s) : now[i] = s[i]
          /\ \A i \in 1 .. n : now[Len(s) + i] = t[i]
        BY <1>3, <2>1
    <2>3. /\ before \in Seq(S) /\ Len(before) = Len(s) + (n - 1)
          /\ \A i \in 1 .. Len(s) : before[i] = s[i]
          /\ \A i \in 1 .. n - 1 : before[Len(s) + i] = t[i]
        BY <1>3, <2>1
    <2> HIDE DEF now, before
    <2>4. /\ next \in Seq(S) /\ Len(next) = Len(before) + 1
          /\ \A i \in 1 .. Len(before) : next[i] = before[i]
          /\ next[Len(before) + 1] = t[n]
        BY <2>1, <2>3, AppendFacts
    <2> HIDE DEF next
    <2>5. Len(next) = Len(now)
        BY <1>1, <2>1, <2>2, <2>3, <2>4
    <2>6. ASSUME NEW i \in 1 .. Len(now) PROVE now[i] = next[i]
        <3>1. CASE i \in 1 .. Len(s)
            <4>1. i \in 1 .. Len(before)
                BY <1>1, <2>1, <2>3, <3>1
            <4> QED
                BY <2>2, <2>3, <2>4, <3>1, <4>1
        <3>2. CASE i = Len(s) + n
            <4>1. n \in 1 .. n /\ i = Len(before) + 1
                BY <1>1, <2>1, <2>3, <3>2
            <4>2. now[i] = t[n]
                BY <2>2, <3>2, <4>1
            <4>3. next[i] = t[n]
                BY <2>4, <4>1
            <4> QED
                BY <4>2, <4>3
        <3>3. CASE i \notin 1 .. Len(s) /\ i # Len(s) + n
            <4>1. PICK k \in 1 .. n - 1 : i = Len(s) + k
                <5>1. i - Len(s) \in 1 .. n - 1 /\ i = Len(s) + (i - Len(s))
                    BY <1>1, <2>1, <2>2, <3>3
                <5> QED
                    BY <5>1
            <4>2. k \in 1 .. n /\ i \in 1 .. Len(before)
                BY <1>1, <2>1, <2>3, <4>1
            <4>3. now[i] = t[k] /\ before[i] = t[k] /\ next[i] = before[i]
                BY <2>2, <2>3, <2>4, <4>1, <4>2
            <4> QED
                BY <4>3
        <3> QED
            BY <3>1, <3>2, <3>3
    <2>7. now = next
        BY <2>2, <2>4, <2>5, <2>6, SameSequence
    <2> QED
        BY <2>7 DEF now, next, before
<1> QED
    BY <1>3, <1>4, <1>5, <1>6 DEF Grows

\* A reader is the last of its name in the first n of a layer, or else was there below.
Supplied(reader, base, over, n) ==
    \/ \E q \in 1 .. n : over[q] = reader /\ \A j \in q + 1 .. n : over[j].name # reader.name
    \/ /\ \E k \in DOMAIN base : base[k] = reader
       /\ \A j \in 1 .. n : over[j].name # reader.name

LEMMA OverrideInOrder ==
    ASSUME NEW R, NEW base \in Seq(R), NEW over \in Seq(R), NEW names \in Seq(NamesIn(R)),
           InOrder(Named(base), names)
    PROVE  LET result == Override(base, over)
           IN  /\ result \in Seq(R)
               /\ InOrder(Named(result), names \o Named(over))
               /\ \A i \in DOMAIN result : Supplied(result[i], base, over, Len(over))
<1>0. PICK f \in [0 .. Len(over) -> Seq(R)] : Overrides(f, base, over)
    BY OverrideSteps, ZenonT(30)
<1>1. /\ f \in [0 .. Len(over) -> Seq(R)]
      /\ f[0] = base
      /\ \A n \in 1 .. Len(over) : f[n] = ReplaceReader(f[n - 1], over[n])
      /\ Override(base, over) = f[Len(over)]
    BY <1>0, ZenonT(30) DEF Overrides
<1> DEFINE m == Len(over)
           seen(n) == names \o Part(Named(over), n)
           T == {n \in 0 .. m : /\ InOrder(Named(f[n]), seen(n))
                                /\ \A i \in DOMAIN f[n] : Supplied(f[n][i], base, over, n)}
<1>2. m \in Nat /\ \A n \in 1 .. m : over[n] \in R
    BY SequenceFacts
<1>3. /\ Named(over) \in Seq(NamesIn(R)) /\ Len(Named(over)) = m
      /\ \A i \in 1 .. m : Named(over)[i] = over[i].name
    BY NamedFacts
<1>4. /\ seen(0) = names /\ seen(m) = names \o Named(over)
      /\ \A n \in 0 .. m : seen(n) \in Seq(NamesIn(R))
      /\ \A n \in 1 .. m : seen(n) = Append(seen(n - 1), over[n].name)
    <2> DEFINE t == Named(over)
    <2>1. t \in Seq(NamesIn(R)) /\ Len(t) = m
        BY <1>3
    <2> HIDE DEF t, m
    <2>2. names \o Part(t, 0) = names
        BY <2>1, PartFacts, Zenon
    <2>3. names \o Part(t, Len(t)) = names \o t
        BY <2>1, PartFacts, Zenon
    <2>4. \A n \in 0 .. Len(t) : names \o Part(t, n) \in Seq(NamesIn(R))
        BY <2>1, PartFacts, Zenon
    <2>5. Grows(names, t)
        BY <2>1, PartFacts, Zenon
    <2> QED
        BY <1>3, <2>1, <2>2, <2>3, <2>4, <2>5, Zenon DEF t, Grows
<1> HIDE DEF m, seen
<1>5. 0 \in T
    <2>1. \A i \in DOMAIN base : Supplied(base[i], base, over, 0)
        BY DEF Supplied
    <2>2. 0 \in 0 .. m
        BY <1>2
    <2> QED
        BY <1>1, <1>4, <2>1, <2>2
<1>6. ASSUME NEW n \in 1 .. m, n - 1 \in T PROVE n \in T
    <2> DEFINE old == f[n - 1]
               o == over[n]
               new == f[n]
    <2>1. n \in 0 .. m /\ n - 1 \in 0 .. m
        BY <1>2
    <2>2. old \in Seq(R) /\ o \in R /\ new = ReplaceReader(old, o)
        BY <1>1, <1>2, <2>1 DEF m
    <2>3. InOrder(Named(old), seen(n - 1))
        BY <1>6
    <2>4. \A i \in DOMAIN old : Supplied(old[i], base, over, n - 1)
        BY <1>6
    <2>5. seen(n - 1) \in Seq(NamesIn(R)) /\ seen(n) = Append(seen(n - 1), o.name)
        BY <1>4, <2>1
    <2> HIDE DEF old, new, T
    <2>6. /\ Named(old) \in Seq(NamesIn(R))
          /\ DOMAIN Named(old) = DOMAIN old
          /\ \A i \in DOMAIN old : Named(old)[i] = old[i].name
        <3>1. DOMAIN old = 1 .. Len(old)
            BY <2>2, SequenceFacts
        <3> QED
            BY <2>2, <3>1, NamedFacts
    <2>7. o.name \in NamesIn(R)
        BY <2>2 DEF NamesIn
    <2>8. DistinctNames(old)
        BY <2>3, <2>5, <2>6, InOrderDistinct DEF DistinctNames
    <2> HIDE DEF o
    <2>9. /\ Named(new) = Noted(Named(old), o.name)
          /\ Replaced(new, old, o)
        BY <2>2, <2>8, ReplaceFacts, Zenon
    <2>10. InOrder(Named(new), seen(n))
        BY <2>3, <2>5, <2>6, <2>7, <2>9, NotedInOrder
    <2>11. ASSUME NEW i \in DOMAIN new PROVE Supplied(new[i], base, over, n)
        <3>1. CASE new[i] = o
            <4>1. n \in 1 .. n /\ over[n] = o /\ n + 1 .. n = {}
                BY <1>2 DEF o
            <4> QED
                BY <3>1, <4>1 DEF Supplied
        <3>2. CASE new[i].name # o.name /\ i \in DOMAIN old /\ new[i] = old[i]
            <4>1. Supplied(new[i], base, over, n - 1)
                BY <2>4, <3>2
            <4> DEFINE r == new[i]
            <4>2. over[n].name # r.name
                BY <3>2 DEF o
            <4> HIDE DEF r
            <4>3. CASE \E q \in 1 .. n - 1 : over[q] = r /\
                           \A j \in q + 1 .. n - 1 : over[j].name # r.name
                <5>1. PICK q \in 1 .. n - 1 : over[q] = r /\
                          \A j \in q + 1 .. n - 1 : over[j].name # r.name
                    BY <4>3
                <5>2. q \in 1 .. n /\ \A j \in q + 1 .. n : j = n \/ j \in q + 1 .. n - 1
                    BY <1>2
                <5>3. \A j \in q + 1 .. n : over[j].name # r.name
                    BY <4>2, <5>1, <5>2
                <5> QED
                    BY <5>1, <5>2, <5>3 DEF Supplied, r
            <4>4. CASE /\ \E k \in DOMAIN base : base[k] = r
                       /\ \A j \in 1 .. n - 1 : over[j].name # r.name
                <5>1. \A j \in 1 .. n : j = n \/ j \in 1 .. n - 1
                    BY <1>2
                <5>2. \A j \in 1 .. n : over[j].name # r.name
                    BY <4>2, <4>4, <5>1
                <5> QED
                    BY <4>4, <5>2 DEF Supplied, r
            <4> QED
                BY <4>1, <4>3, <4>4 DEF Supplied, r
        <3> QED
            BY <2>9, <3>1, <3>2 DEF Replaced
    <2> QED
        BY <2>1, <2>10, <2>11 DEF T, new
<1> HIDE DEF T
<1>7. 0 .. m \subseteq T
    BY <1>2, <1>5, <1>6, BoundedInduction
<1>8. m \in T /\ m \in 0 .. m
    BY <1>2, <1>7
<1>9. /\ f[m] \in Seq(R)
      /\ InOrder(Named(f[m]), seen(m))
      /\ \A i \in DOMAIN f[m] : Supplied(f[m][i], base, over, m)
    BY <1>1, <1>8 DEF T, m
<1> QED
    BY <1>1, <1>4, <1>9 DEF m

\* The names of the flags are in the order they were first given.
LEMMA NamesOfInOrder ==
    ASSUME NEW R, NEW flags \in Seq(R)
    PROVE  /\ NamesOf(flags) \in Seq(NamesIn(R))
           /\ InOrder(NamesOf(flags), Named(flags))
<1>1. PICK f \in [0 .. Len(flags) -> Seq(NamesIn(R))] :
          /\ f[0] = << >>
          /\ \A n \in 1 .. Len(flags) : f[n] = Noted(f[n - 1], flags[n].name)
          /\ NamesOf(flags) = f[Len(flags)]
    BY NamesSteps
<1> DEFINE m == Len(flags)
           seen(n) == << >> \o Part(Named(flags), n)
           T == {n \in 0 .. m : InOrder(f[n], seen(n))}
<1>2. m \in Nat /\ \A n \in 1 .. m : flags[n].name \in NamesIn(R)
    BY SequenceFacts DEF NamesIn
<1>3. /\ Named(flags) \in Seq(NamesIn(R)) /\ Len(Named(flags)) = m
      /\ \A i \in 1 .. m : Named(flags)[i] = flags[i].name
    BY NamedFacts
<1>4. << >> \in Seq(NamesIn(R)) /\ << >> \o Named(flags) = Named(flags)
    <2>1. << >> \in Seq(NamesIn(R)) /\ Len(<< >>) = 0
        OBVIOUS
    <2> DEFINE all == << >> \o Named(flags)
    <2>2. /\ all \in Seq(NamesIn(R)) /\ Len(all) = 0 + m
          /\ \A i \in 1 .. m : all[0 + i] = Named(flags)[i]
        BY <1>3, <2>1, ConcatFacts
    <2> HIDE DEF all
    <2>3. all = Named(flags)
        BY <1>2, <1>3, <2>2, SameSequence
    <2> QED
        BY <2>1, <2>3 DEF all
<1>5. /\ seen(0) = << >> /\ seen(m) = Named(flags)
      /\ \A n \in 0 .. m : seen(n) \in Seq(NamesIn(R))
      /\ \A n \in 1 .. m : seen(n) = Append(seen(n - 1), flags[n].name)
    <2> DEFINE t == Named(flags)
    <2>1. t \in Seq(NamesIn(R)) /\ Len(t) = m
        BY <1>3
    <2> HIDE DEF t, m
    <2>2. /\ << >> \o Part(t, 0) = << >>
          /\ << >> \o Part(t, m) = << >> \o t
          /\ \A n \in 0 .. m : << >> \o Part(t, n) \in Seq(NamesIn(R))
          /\ \A n \in 1 .. m : << >> \o Part(t, n) = Append(<< >> \o Part(t, n - 1), t[n])
        <3>1. << >> \in Seq(NamesIn(R))
            BY <1>4
        <3> DEFINE none == << >>
        <3> HIDE DEF none
        <3>2. none \o Part(t, 0) = none
            BY <2>1, <3>1, PartFacts, Zenon DEF none
        <3>3. none \o Part(t, Len(t)) = none \o t
            BY <2>1, <3>1, PartFacts, Zenon DEF none
        <3>4. \A n \in 0 .. Len(t) : none \o Part(t, n) \in Seq(NamesIn(R))
            BY <2>1, <3>1, PartFacts, Zenon DEF none
        <3>5. Grows(none, t)
            BY <2>1, <3>1, PartFacts, Zenon DEF none
        <3> QED
            BY <2>1, <3>2, <3>3, <3>4, <3>5, Zenon DEF none, Grows
    <2> QED
        BY <1>3, <1>4, <2>2, Zenon DEF t
<1> HIDE DEF m, seen
<1>6. 0 \in T
    <2>1. InOrder(<< >>, << >>)
        BY DEF InOrder, Range
    <2> QED
        BY <1>1, <1>2, <1>5, <2>1
<1>7. ASSUME NEW n \in 1 .. m, n - 1 \in T PROVE n \in T
    <2>1. n \in 0 .. m /\ n - 1 \in 0 .. m
        BY <1>2
    <2>2. InOrder(f[n - 1], seen(n - 1)) /\ f[n - 1] \in Seq(NamesIn(R))
        BY <1>1, <1>7, <2>1 DEF m
    <2>3. InOrder(Noted(f[n - 1], flags[n].name), Append(seen(n - 1), flags[n].name))
        BY <1>2, <1>5, <2>1, <2>2, NotedInOrder
    <2>4. f[n] = Noted(f[n - 1], flags[n].name)
        BY <1>1 DEF m
    <2> QED
        BY <1>5, <2>1, <2>3, <2>4
<1> HIDE DEF T
<1>8. 0 .. m \subseteq T
    BY <1>2, <1>6, <1>7, BoundedInduction
<1>9. m \in T /\ m \in 0 .. m
    BY <1>2, <1>8
<1> QED
    BY <1>1, <1>5, <1>9 DEF T, m

\* What two lists hold, one after the other.
LEMMA RangeOfBoth ==
    ASSUME NEW S, NEW s \in Seq(S), NEW t \in Seq(S)
    PROVE  \A e : e \in Range(s \o t) <=> e \in Range(s) \/ e \in Range(t)
<1> DEFINE both == s \o t
<1>1. /\ Len(s) \in Nat /\ DOMAIN s = 1 .. Len(s)
      /\ Len(t) \in Nat /\ DOMAIN t = 1 .. Len(t)
    BY SequenceFacts
<1>2. /\ DOMAIN both = 1 .. Len(s) + Len(t)
      /\ \A i \in 1 .. Len(s) : both[i] = s[i]
      /\ \A i \in 1 .. Len(t) : both[Len(s) + i] = t[i]
    BY ConcatFacts
<1> HIDE DEF both
<1> SUFFICES ASSUME NEW e
             PROVE  e \in Range(both) <=> e \in Range(s) \/ e \in Range(t)
    BY DEF both
<1>3. ASSUME NEW i \in DOMAIN both, both[i] = e PROVE e \in Range(s) \/ e \in Range(t)
    <2>1. CASE i \in 1 .. Len(s)
        <3>1. s[i] = e
            BY <1>2, <1>3, <2>1, Zenon
        <3> QED
            BY <1>1, <2>1, <3>1, ZenonT(30) DEF Range
    <2>2. CASE i \notin 1 .. Len(s)
        <3>1. i - Len(s) \in 1 .. Len(t) /\ i = Len(s) + (i - Len(s))
            BY <1>1, <1>2, <2>2
        <3>2. t[i - Len(s)] = e
            BY <1>2, <1>3, <3>1, Zenon
        <3> QED
            BY <1>1, <3>1, <3>2, ZenonT(30) DEF Range
    <2> QED
        BY <2>1, <2>2
<1>4. ASSUME NEW i \in DOMAIN s, s[i] = e PROVE e \in Range(both)
    <2>1. i \in DOMAIN both /\ both[i] = e
        BY <1>1, <1>2, <1>4
    <2> QED
        BY <2>1, ZenonT(30) DEF Range
<1>5. ASSUME NEW i \in DOMAIN t, t[i] = e PROVE e \in Range(both)
    <2>1. Len(s) + i \in DOMAIN both /\ both[Len(s) + i] = e
        BY <1>1, <1>2, <1>5
    <2> QED
        BY <2>1, ZenonT(30) DEF Range
<1>6. \A i \in DOMAIN both : both[i] = e => e \in Range(s) \/ e \in Range(t)
    BY <1>3
<1>7. \A i \in DOMAIN s : s[i] = e => e \in Range(both)
    BY <1>4
<1>8. \A i \in DOMAIN t : t[i] = e => e \in Range(both)
    BY <1>5
<1>9. \A f : e \in Range(f) => \E i \in DOMAIN f : f[i] = e
    BY ZenonT(30) DEF Range
<1> QED
    BY <1>6, <1>7, <1>8, <1>9, ZenonT(30)

\* A list of names may take the place of one that has them in order.
LEMMA InOrderOfBoth ==
    ASSUME NEW S, NEW below \in Seq(S), NEW order \in Seq(S), NEW list \in Seq(S),
           InOrder(order, list), NEW names, InOrder(names, below \o order)
    PROVE  InOrder(names, below \o list)
<1> DEFINE short == below \o order
           long == below \o list
<1>1. /\ Len(below) \in Nat /\ DOMAIN below = 1 .. Len(below)
      /\ Len(order) \in Nat /\ DOMAIN order = 1 .. Len(order)
      /\ Len(list) \in Nat /\ DOMAIN list = 1 .. Len(list)
    BY SequenceFacts
<1>2. /\ short \in Seq(S) /\ Len(short) = Len(below) + Len(order)
      /\ DOMAIN short = 1 .. Len(below) + Len(order)
      /\ \A i \in 1 .. Len(below) : short[i] = below[i]
      /\ \A i \in 1 .. Len(order) : short[Len(below) + i] = order[i]
    BY ConcatFacts
<1>3. /\ long \in Seq(S) /\ Len(long) = Len(below) + Len(list)
      /\ DOMAIN long = 1 .. Len(below) + Len(list)
      /\ \A i \in 1 .. Len(below) : long[i] = below[i]
      /\ \A i \in 1 .. Len(list) : long[Len(below) + i] = list[i]
    BY ConcatFacts
<1>4. Range(names) = Range(short) /\ \A i, j \in DOMAIN names : i < j =>
          Before(short, names[i], names[j])
    BY DEF InOrder
<1>5. Range(order) = Range(list) /\ \A i, j \in DOMAIN order : i < j =>
          Before(list, order[i], order[j])
    BY DEF InOrder
<1> HIDE DEF short, long
<1>6. Range(short) = Range(long)
    <2>1. \A e : e \in Range(short) <=> e \in Range(below) \/ e \in Range(order)
        BY RangeOfBoth DEF short
    <2>2. \A e : e \in Range(long) <=> e \in Range(below) \/ e \in Range(list)
        BY RangeOfBoth DEF long
    <2> QED
        BY <1>5, <2>1, <2>2
<1>7. ASSUME NEW i \in DOMAIN names, NEW j \in DOMAIN names, i < j
      PROVE  Before(long, names[i], names[j])
    <2> DEFINE a == names[i]
               b == names[j]
    <2>1. PICK k \in DOMAIN short : short[k] = a /\ \A l \in 1 .. k : short[l] # b
        BY <1>4, <1>7 DEF Before
    <2> HIDE DEF a, b
    <2>2. CASE k \in 1 .. Len(below)
        <3>1. /\ k \in DOMAIN long /\ long[k] = a
              /\ \A l \in 1 .. k : l \in 1 .. Len(below) /\ long[l] # b
            BY <1>1, <1>2, <1>3, <2>1, <2>2
        <3> QED
            BY <3>1 DEF Before, a, b
    <2>3. CASE k \notin 1 .. Len(below)
        <3> DEFINE p == k - Len(below)
        <3>1. p \in 1 .. Len(order) /\ k = Len(below) + p
            BY <1>1, <1>2, <2>1, <2>3
        <3>2. order[p] = a
            BY <1>2, <2>1, <3>1
        <3> HIDE DEF p
        <3>3. \A l \in 1 .. Len(below) : below[l] # b
            <4>1. \A l \in 1 .. Len(below) : l \in 1 .. k
                BY <1>1, <3>1
            <4> QED
                BY <1>2, <2>1, <4>1
        <3>4. \A l \in 1 .. p : order[l] # b
            <4>1. \A l \in 1 .. p : Len(below) + l \in 1 .. k /\ l \in 1 .. Len(order)
                BY <1>1, <3>1
            <4> QED
                BY <1>2, <2>1, <4>1
        <3>5. PICK l \in 1 .. Len(list) : list[l] = a /\ \A r \in 1 .. l : list[r] # b
            <4>1. CASE b \in Range(order)
                <5>1. PICK r \in 1 .. Len(order) : order[r] = b
                    BY <1>1, <4>1 DEF Range
                <5>2. p < r
                    BY <1>1, <3>1, <3>4, <5>1
                <5>3. Before(list, a, b)
                    BY <1>1, <1>5, <3>1, <3>2, <5>1, <5>2
                <5> QED
                    BY <1>1, <5>3 DEF Before
            <4>2. CASE b \notin Range(order)
                <5>1. a \in Range(list) /\ b \notin Range(list)
                    BY <1>1, <1>5, <3>1, <3>2, <4>2 DEF Range
                <5>2. PICK l \in 1 .. Len(list) : list[l] = a
                    BY <1>1, <5>1 DEF Range
                <5>3. \A r \in 1 .. l : r \in 1 .. Len(list) /\ list[r] # b
                    BY <1>1, <5>1, <5>2 DEF Range
                <5> QED
                    BY <5>2, <5>3
            <4> QED
                BY <4>1, <4>2
        <3>6. Len(below) + l \in DOMAIN long /\ long[Len(below) + l] = a
            BY <1>1, <1>3, <3>5
        <3>7. ASSUME NEW r \in 1 .. Len(below) + l PROVE long[r] # b
            <4>1. CASE r \in 1 .. Len(below)
                BY <1>3, <3>3, <4>1
            <4>2. CASE r \notin 1 .. Len(below)
                <5>1. r - Len(below) \in 1 .. l /\ r - Len(below) \in 1 .. Len(list)
                      /\ r = Len(below) + (r - Len(below))
                    BY <1>1, <3>5, <4>2
                <5> QED
                    BY <1>3, <3>5, <5>1
            <4> QED
                BY <4>1, <4>2
        <3> QED
            BY <3>6, <3>7 DEF Before, a, b
    <2> QED
        BY <2>2, <2>3
<1>8. InOrder(names, long)
    BY <1>4, <1>6, <1>7 DEF InOrder
<1> QED
    BY <1>8 DEF long

\* Where a list first has one of its names.
LEMMA FirstPlaceFacts ==
    ASSUME NEW S, NEW names \in Seq(S), NEW name \in Range(names)
    PROVE  /\ FirstPlace(names, name) \in 1 .. Len(names)
           /\ names[FirstPlace(names, name)] = name
           /\ \A j \in 1 .. FirstPlace(names, name) - 1 : names[j] # name
<1>1. Len(names) \in Nat /\ DOMAIN names = 1 .. Len(names)
    BY SequenceFacts
<1> DEFINE there == {i \in DOMAIN names : names[i] = name}
           Is(i) == names[i] = name /\ \A j \in 1 .. i - 1 : names[j] # name
<1>2. there \in SUBSET Nat /\ there # {}
    BY <1>1 DEF Range
<1>3. PICK i \in there : \A j \in there : i <= j
    BY <1>2, LeastNatural
<1>4. i \in DOMAIN names /\ Is(i)
    <2>1. ASSUME NEW j \in 1 .. i - 1 PROVE names[j] # name
        <3>1. j \in DOMAIN names /\ ~ (i <= j)
            BY <1>1, <1>3
        <3> QED
            BY <1>3, <3>1
    <2> QED
        BY <1>3, <2>1
<1>5. FirstPlace(names, name) = CHOOSE k \in DOMAIN names : Is(k)
    BY DEF FirstPlace
<1> HIDE DEF Is
<1>6. FirstPlace(names, name) \in DOMAIN names /\ Is(FirstPlace(names, name))
    BY <1>4, <1>5, Zenon
<1> QED
    BY <1>1, <1>6 DEF Is

\* What is before another in a list has the lower first place.
LEMMA BeforeIsFirst ==
    ASSUME NEW S, NEW names \in Seq(S), NEW a \in Range(names), NEW b \in Range(names),
           Before(names, a, b)
    PROVE  FirstPlace(names, a) < FirstPlace(names, b)
<1> DEFINE p == FirstPlace(names, a)
           q == FirstPlace(names, b)
<1>1. Len(names) \in Nat /\ DOMAIN names = 1 .. Len(names)
    BY SequenceFacts
<1>2. p \in 1 .. Len(names) /\ \A j \in 1 .. p - 1 : names[j] # a
    BY FirstPlaceFacts
<1>3. q \in 1 .. Len(names) /\ names[q] = b
    BY FirstPlaceFacts
<1> HIDE DEF p, q
<1>4. PICK i \in 1 .. Len(names) : names[i] = a /\ \A j \in 1 .. i : names[j] # b
    BY <1>1 DEF Before
<1>5. ~ (i \in 1 .. p - 1) /\ ~ (q \in 1 .. i)
    BY <1>2, <1>3, <1>4
<1>6. p <= i /\ i < q
    BY <1>1, <1>2, <1>3, <1>4, <1>5
<1>7. p < q
    BY <1>1, <1>2, <1>3, <1>4, <1>6
<1> QED
    BY <1>7 DEF p, q

\* The last entry of a name is the one that none of its name follows.
LEMMA LastEntryIs ==
    ASSUME NEW S, NEW entries \in Seq(S), NEW q \in 1 .. Len(entries), NEW name,
           entries[q].name = name,
           \A j \in q + 1 .. Len(entries) : entries[j].name # name
    PROVE  LastEntry(entries, name) = entries[q]
<1>1. Len(entries) \in Nat /\ DOMAIN entries = 1 .. Len(entries)
    BY SequenceFacts
<1> DEFINE Is(i) == entries[i].name = name /\ \A j \in i + 1 .. Len(entries) : entries[j].name # name
           c == CHOOSE i \in DOMAIN entries : Is(i)
<1>2. LastEntry(entries, name) = entries[c]
    BY DEF LastEntry
<1>3. q \in DOMAIN entries /\ Is(q)
    BY <1>1
<1> HIDE DEF Is
<1>4. c \in DOMAIN entries /\ Is(c)
    BY <1>3, Zenon
<1> HIDE DEF c
<1>5. ~ (q \in c + 1 .. Len(entries)) /\ ~ (c \in q + 1 .. Len(entries))
    BY <1>3, <1>4 DEF Is
<1>6. c = q
    BY <1>1, <1>4, <1>5
<1> QED
    BY <1>2, <1>6
-----------------------------------------------------------------------------
(***************************************************************************)
(* What the flags say.                                                     *)
(***************************************************************************)

\* How many of the first n flags are of the name.
GivenUpTo(flags, name, n) == Cardinality({j \in Given(flags, name) : j <= n})

LEMMA GivenCounts ==
    ASSUME NEW R, NEW flags \in Seq(R), NEW name
    PROVE  /\ GivenUpTo(flags, name, 0) = 0
           /\ \A n \in 1 .. Len(flags) :
                 /\ GivenUpTo(flags, name, n - 1) \in Nat
                 /\ GivenUpTo(flags, name, n) =
                       IF flags[n].name = name
                       THEN GivenUpTo(flags, name, n - 1) + 1
                       ELSE GivenUpTo(flags, name, n - 1)
           /\ GivenUpTo(flags, name, Len(flags)) = Cardinality(Given(flags, name))
<1> DEFINE upTo(n) == {j \in Given(flags, name) : j <= n}
<1>1. Len(flags) \in Nat /\ DOMAIN flags = 1 .. Len(flags)
    BY SequenceFacts
<1>2. \A j : j \in Given(flags, name) <=> j \in 1 .. Len(flags) /\ flags[j].name = name
    BY <1>1 DEF Given
<1>3. upTo(0) = {}
    BY <1>1, <1>2
<1>4. upTo(Len(flags)) = Given(flags, name)
    BY <1>1, <1>2
<1>5. ASSUME NEW n \in 1 .. Len(flags)
      PROVE  /\ n \notin upTo(n - 1)
             /\ flags[n].name = name => upTo(n) = upTo(n - 1) \cup {n}
             /\ flags[n].name # name => upTo(n) = upTo(n - 1)
    BY <1>1, <1>2
<1>6. ASSUME NEW n \in 0 .. Len(flags) PROVE IsFiniteSet(upTo(n))
    <2>1. upTo(n) \subseteq 1 .. Len(flags)
        BY <1>2
    <2>2. IsFiniteSet(1 .. Len(flags))
        BY <1>1, FS_Interval
    <2> HIDE DEF upTo
    <2> QED
        BY <2>1, <2>2, FS_Subset
<1>7. \A n : GivenUpTo(flags, name, n) = Cardinality(upTo(n))
    BY DEF GivenUpTo
<1> HIDE DEF upTo
<1>8. ASSUME NEW n \in 1 .. Len(flags)
      PROVE  /\ Cardinality(upTo(n - 1)) \in Nat
             /\ Cardinality(upTo(n)) = IF flags[n].name = name
                                       THEN Cardinality(upTo(n - 1)) + 1
                                       ELSE Cardinality(upTo(n - 1))
    <2>1. n - 1 \in 0 .. Len(flags)
        BY <1>1
    <2>2. IsFiniteSet(upTo(n - 1))
        BY <1>6, <2>1
    <2>3. Cardinality(upTo(n - 1)) \in Nat
        BY <2>2, FS_CardinalityType
    <2>4. Cardinality(upTo(n - 1) \cup {n}) = Cardinality(upTo(n - 1)) + 1
        BY <1>5, <2>2, FS_AddElement
    <2> QED
        BY <1>5, <2>3, <2>4
<1> QED
    BY <1>3, <1>4, <1>7, <1>8, FS_EmptySet

\* Each flag of the name is kept, at its place among those of the name.
LEMMA FlagsNamedFacts ==
    ASSUME NEW R, NEW flags \in Seq(R), NEW name
    PROVE  /\ FlagsNamed(flags, name) \in Seq(R)
           /\ Len(FlagsNamed(flags, name)) = Cardinality(Given(flags, name))
           /\ \A k \in Given(flags, name) :
                 /\ GivenUpTo(flags, name, k) \in 1 .. Len(FlagsNamed(flags, name))
                 /\ FlagsNamed(flags, name)[GivenUpTo(flags, name, k)] = flags[k]
<1> DEFINE m == Len(flags)
           count(n) == GivenUpTo(flags, name, n)
<1>1. PICK f \in [0 .. m -> Seq(R)] :
          /\ f[0] = << >>
          /\ \A n \in 1 .. m : f[n] = Keep(f[n - 1], flags[n], name)
          /\ FlagsNamed(flags, name) = f[m]
    <2>1. PICK f \in [0 .. Len(flags) -> Seq(R)] : Keeps(f, flags, name)
        BY FlagsSteps, Zenon
    <2> QED
        BY <2>1, Zenon DEF Keeps
<1>2. m \in Nat /\ \A n \in 1 .. m : flags[n] \in R
    BY SequenceFacts
<1>3. \A j : j \in Given(flags, name) <=> j \in 1 .. m /\ flags[j].name = name
    BY SequenceFacts DEF Given
<1>4. /\ count(0) = 0
      /\ \A n \in 1 .. m :
            /\ count(n - 1) \in Nat
            /\ count(n) = IF flags[n].name = name THEN count(n - 1) + 1 ELSE count(n - 1)
      /\ count(m) = Cardinality(Given(flags, name))
    BY GivenCounts
<1> HIDE DEF m, count
<1> DEFINE Kept(n) ==
               /\ Len(f[n]) = count(n)
               /\ \A k \in Given(flags, name) : k <= n =>
                     count(k) \in 1 .. Len(f[n]) /\ f[n][count(k)] = flags[k]
           T == {n \in 0 .. m : Kept(n)}
<1>5. 0 \in T
    <2>1. Len(f[0]) = 0
        BY <1>1, SequenceFacts
    <2>2. \A k \in Given(flags, name) : ~ (k <= 0)
        BY <1>2, <1>3
    <2> QED
        BY <1>2, <1>4, <2>1, <2>2
<1>6. ASSUME NEW n \in 1 .. m, n - 1 \in T PROVE n \in T
    <2> DEFINE old == f[n - 1]
               new == f[n]
    <2>1. n \in 0 .. m /\ n - 1 \in 0 .. m
        BY <1>2
    <2>2. old \in Seq(R) /\ new = Keep(old, flags[n], name) /\ flags[n] \in R
        BY <1>1, <1>2, <2>1
    <2>3. /\ Len(old) = count(n - 1)
          /\ \A k \in Given(flags, name) : k <= n - 1 =>
                count(k) \in 1 .. Len(old) /\ old[count(k)] = flags[k]
        BY <1>6
    <2>4. \A k \in Given(flags, name) : k <= n => k = n \/ k <= n - 1
        BY <1>2, <1>3
    <2>5. count(n - 1) \in Nat
        BY <1>4
    <2> SUFFICES Kept(n)
        BY <2>1
    <2> HIDE DEF old, new
    <2>6. CASE flags[n].name = name
        <3>1. new = Append(old, flags[n])
            BY <2>2, <2>6 DEF Keep
        <3>2. /\ Len(new) = Len(old) + 1
              /\ \A i \in 1 .. Len(old) : new[i] = old[i]
              /\ new[Len(old) + 1] = flags[n]
            BY <2>2, <3>1, AppendFacts
        <3>3. count(n) = count(n - 1) + 1
            BY <1>4, <2>6
        <3>4. Len(new) = count(n)
            BY <2>3, <3>2, <3>3
        <3>5. ASSUME NEW k \in Given(flags, name), k <= n
              PROVE  count(k) \in 1 .. Len(new) /\ new[count(k)] = flags[k]
            <4>1. CASE k = n
                BY <2>3, <2>5, <3>2, <3>3, <4>1
            <4>2. CASE k <= n - 1
                <5>1. count(k) \in 1 .. Len(old) /\ old[count(k)] = flags[k]
                    BY <2>3, <4>2
                <5> QED
                    BY <2>3, <2>5, <3>2, <5>1
            <4> QED
                BY <2>4, <3>5, <4>1, <4>2
        <3> QED
            BY <3>4, <3>5 DEF new
    <2>7. CASE flags[n].name # name
        <3>1. new = old /\ count(n) = count(n - 1)
            BY <1>4, <2>2, <2>7 DEF Keep
        <3>2. \A k \in Given(flags, name) : k <= n => k <= n - 1
            BY <1>3, <2>4, <2>7
        <3> QED
            BY <2>3, <3>1, <3>2 DEF new
    <2> QED
        BY <2>6, <2>7
<1> HIDE DEF T
<1>7. 0 .. m \subseteq T
    BY <1>2, <1>5, <1>6, BoundedInduction
<1>8. m \in T /\ m \in 0 .. m
    BY <1>2, <1>7
<1>9. Kept(m) /\ f[m] \in Seq(R)
    BY <1>1, <1>8 DEF T
<1>10. \A k \in Given(flags, name) : k <= m
    BY <1>2, <1>3
<1> QED
    BY <1>1, <1>4, <1>9, <1>10 DEF count
-----------------------------------------------------------------------------
(***************************************************************************)
(* The layers as lists of readers.                                         *)
(***************************************************************************)

\* The provers do not know of a literal that it is a string.
Words == STRING \cup {":", "nvda", "pipe", "nvdaMcpBridge", "tcp", "127.0.0.1", "8765"}

WordEntries == [name : Words, endpoints : Seq(Seq(Words))]

WordFlags == [name : Words, spec : Seq(Words)]

AllEndpoints == {ParseEndpoint(spec) : spec \in Seq(Words)}

AllReaders == [name : Words, endpoints : Seq(AllEndpoints)]

Parsed(specs) == [k \in DOMAIN specs |-> ParseEndpoint(specs[k])]

LEMMA ParsedType ==
    ASSUME NEW specs \in Seq(Seq(Words))
    PROVE  Parsed(specs) \in Seq(AllEndpoints) /\ Len(Parsed(specs)) = Len(specs)
<1>1. /\ Len(specs) \in Nat /\ DOMAIN specs = 1 .. Len(specs)
      /\ \A k \in 1 .. Len(specs) : specs[k] \in Seq(Words)
    BY SequenceFacts
<1>2. Parsed(specs) \in [1 .. Len(specs) -> AllEndpoints]
    BY <1>1 DEF Parsed, AllEndpoints
<1> QED
    BY <1>1, <1>2, FunctionIsSeq

LEMMA NameTypes ==
    NamesIn(AllReaders) = Words /\ NamesIn(WordEntries) = Words /\ NamesIn(WordFlags) = Words
<1>1. << >> \in Seq(AllEndpoints) /\ << >> \in Seq(Seq(Words)) /\ << >> \in Seq(Words)
    OBVIOUS
<1>2. ASSUME NEW s \in Words
      PROVE  s \in NamesIn(AllReaders) /\ s \in NamesIn(WordEntries) /\ s \in NamesIn(WordFlags)
    <2>1. /\ [name |-> s, endpoints |-> << >>] \in AllReaders
          /\ [name |-> s, endpoints |-> << >>].name = s
        BY <1>1 DEF AllReaders
    <2>2. /\ [name |-> s, endpoints |-> << >>] \in WordEntries
          /\ [name |-> s, endpoints |-> << >>].name = s
        BY <1>1 DEF WordEntries
    <2>3. /\ [name |-> s, spec |-> << >>] \in WordFlags
          /\ [name |-> s, spec |-> << >>].name = s
        BY <1>1 DEF WordFlags
    <2> QED
        BY <2>1, <2>2, <2>3 DEF NamesIn
<1>3. /\ \A r \in AllReaders : r.name \in Words
      /\ \A e \in WordEntries : e.name \in Words
      /\ \A g \in WordFlags : g.name \in Words
    BY DEF AllReaders, WordEntries, WordFlags
<1> QED
    BY <1>2, <1>3 DEF NamesIn

\* A document is read entry by entry.
LEMMA ToReadersFacts ==
    ASSUME NEW document \in Seq(WordEntries)
    PROVE  /\ ToReaders(document) \in Seq(AllReaders)
           /\ Len(ToReaders(document)) = Len(document)
           /\ Named(ToReaders(document)) = Named(document)
           /\ \A i \in 1 .. Len(document) :
                 /\ ToReaders(document)[i].name = document[i].name
                 /\ ToReaders(document)[i].endpoints = Parsed(document[i].endpoints)
<1> DEFINE readers == ToReaders(document)
<1>1. /\ Len(document) \in Nat /\ DOMAIN document = 1 .. Len(document)
      /\ \A i \in 1 .. Len(document) : document[i] \in WordEntries
    BY SequenceFacts
<1>2. \A i \in 1 .. Len(document) :
          document[i].name \in Words /\ document[i].endpoints \in Seq(Seq(Words))
    BY <1>1 DEF WordEntries
<1>3. readers = [i \in 1 .. Len(document) |->
                    [name |-> document[i].name, endpoints |-> Parsed(document[i].endpoints)]]
    BY <1>1 DEF ToReaders, Parsed
<1> HIDE DEF readers
<1>4. \A i \in 1 .. Len(document) :
          [name |-> document[i].name, endpoints |-> Parsed(document[i].endpoints)] \in AllReaders
    BY <1>2, ParsedType DEF AllReaders
<1>5. readers \in [1 .. Len(document) -> AllReaders]
    BY <1>3, <1>4
<1>6. readers \in Seq(AllReaders) /\ Len(readers) = Len(document)
    BY <1>1, <1>5, FunctionIsSeq
<1>7. \A i \in 1 .. Len(document) :
          /\ readers[i].name = document[i].name
          /\ readers[i].endpoints = Parsed(document[i].endpoints)
    BY <1>3
<1>8. /\ DOMAIN readers = 1 .. Len(document)
      /\ Named(readers) = [i \in 1 .. Len(document) |-> readers[i].name]
      /\ Named(document) = [i \in 1 .. Len(document) |-> document[i].name]
    BY <1>1, <1>3 DEF Named
<1>9. Named(readers) = Named(document)
    BY <1>7, <1>8
<1> QED
    BY <1>6, <1>7, <1>9 DEF readers

\* The flags make one reader for each of their names.
LEMMA FromFlagsFacts ==
    ASSUME NEW flags \in Seq(WordFlags)
    PROVE  /\ ReadersFromFlags(flags) \in Seq(AllReaders)
           /\ Named(ReadersFromFlags(flags)) = NamesOf(flags)
           /\ \A i \in DOMAIN ReadersFromFlags(flags) :
                 LET reader == ReadersFromFlags(flags)[i]
                     named == FlagsNamed(flags, reader.name)
                 IN  /\ Len(reader.endpoints) = Len(named)
                     /\ \A k \in 1 .. Len(named) :
                           reader.endpoints[k] = ParseEndpoint(named[k].spec)
<1> DEFINE readers == ReadersFromFlags(flags)
           names == NamesOf(flags)
           listed(name) == [k \in DOMAIN FlagsNamed(flags, name) |->
                               ParseEndpoint(FlagsNamed(flags, name)[k].spec)]
<1>1. names \in Seq(Words)
    BY NamesOfInOrder, NameTypes
<1>2. Len(names) \in Nat /\ DOMAIN names = 1 .. Len(names) /\ \A i \in 1 .. Len(names) : names[i] \in Words
    BY <1>1, SequenceFacts
<1>3. readers = [i \in 1 .. Len(names) |->
                    [name |-> names[i], endpoints |-> listed(names[i])]]
    BY <1>2 DEF ReadersFromFlags
<1> HIDE DEF readers, names
<1>4. ASSUME NEW name
      PROVE  /\ listed(name) \in Seq(AllEndpoints)
             /\ Len(listed(name)) = Len(FlagsNamed(flags, name))
             /\ \A k \in 1 .. Len(FlagsNamed(flags, name)) :
                   listed(name)[k] = ParseEndpoint(FlagsNamed(flags, name)[k].spec)
    <2> DEFINE named == FlagsNamed(flags, name)
    <2>1. named \in Seq(WordFlags)
        BY FlagsNamedFacts
    <2> HIDE DEF named
    <2>2. /\ Len(named) \in Nat /\ DOMAIN named = 1 .. Len(named)
          /\ \A k \in 1 .. Len(named) : named[k] \in WordFlags
        BY <2>1, SequenceFacts
    <2> DEFINE list == [k \in DOMAIN named |-> ParseEndpoint(named[k].spec)]
    <2>3. \A k \in 1 .. Len(named) : named[k].spec \in Seq(Words)
        BY <2>2 DEF WordFlags
    <2>4. list \in [1 .. Len(named) -> AllEndpoints]
        BY <2>2, <2>3 DEF AllEndpoints
    <2>5. list \in Seq(AllEndpoints) /\ Len(list) = Len(named)
        BY <2>2, <2>4, FunctionIsSeq
    <2>6. \A k \in 1 .. Len(named) : list[k] = ParseEndpoint(named[k].spec)
        BY <2>2
    <2> QED
        BY <2>5, <2>6 DEF named
<1> HIDE DEF listed
<1>5. readers \in [1 .. Len(names) -> AllReaders]
    <2>1. \A i \in 1 .. Len(names) :
              [name |-> names[i], endpoints |-> listed(names[i])] \in AllReaders
        BY <1>2, <1>4 DEF AllReaders
    <2> QED
        BY <1>3, <2>1
<1>6. readers \in Seq(AllReaders)
    BY <1>2, <1>5, FunctionIsSeq
<1>7. DOMAIN readers = 1 .. Len(names) /\ \A i \in 1 .. Len(names) :
          readers[i].name = names[i] /\ readers[i].endpoints = listed(names[i])
    BY <1>3
<1>8. Named(readers) = names
    <2>1. /\ Named(readers) = [i \in 1 .. Len(names) |-> names[i]]
        BY <1>7 DEF Named
    <2>2. names = [i \in 1 .. Len(names) |-> names[i]]
        BY <1>1
    <2> QED
        BY <2>1, <2>2
<1>9. \A i \in DOMAIN readers :
          /\ Len(readers[i].endpoints) = Len(FlagsNamed(flags, readers[i].name))
          /\ \A k \in 1 .. Len(FlagsNamed(flags, readers[i].name)) :
                readers[i].endpoints[k] =
                    ParseEndpoint(FlagsNamed(flags, readers[i].name)[k].spec)
    BY <1>4, <1>7
<1> QED
    BY <1>6, <1>8, <1>9, Zenon DEF readers, names

\* The defaults are one reader's.
LEMMA DefaultsFacts ==
    Defaults \in Seq(WordEntries) /\ Len(Defaults) = 1
<1> DEFINE pipe == <<"pipe", ":", "nvdaMcpBridge">>
           socket == <<"tcp", ":", "127.0.0.1", ":", "8765">>
           specs == <<pipe, socket>>
<1>1. pipe \in Seq(Words) /\ socket \in Seq(Words)
    <2>1. \A a, b, c \in Words : <<a, b, c>> \in Seq(Words)
        OBVIOUS
    <2>2. \A a, b, c, d, e \in Words : <<a, b, c, d, e>> \in Seq(Words)
        OBVIOUS
    <2>3. /\ ":" \in Words /\ "pipe" \in Words /\ "nvdaMcpBridge" \in Words
          /\ "tcp" \in Words /\ "127.0.0.1" \in Words /\ "8765" \in Words
        BY DEF Words
    <2> QED
        BY <2>1, <2>2, <2>3
<1> HIDE DEF pipe, socket
<1>2. specs \in Seq(Seq(Words))
    BY <1>1
<1> HIDE DEF specs
<1> DEFINE entry == [name |-> "nvda", endpoints |-> specs]
<1>3. entry \in WordEntries
    <2>1. "nvda" \in Words
        BY DEF Words
    <2> QED
        BY <1>2, <2>1 DEF WordEntries
<1>4. Defaults = <<entry>>
    BY DEF Defaults, specs, pipe, socket
<1> HIDE DEF entry
<1> QED
    BY <1>3, <1>4
-----------------------------------------------------------------------------
(***************************************************************************)
(* The three layers.                                                       *)
(***************************************************************************)

\* A reader of the defaults and the file has the endpoints of its last entry.
LEMMA BelowIsLast ==
    ASSUME NEW file \in Seq(WordEntries), NEW reader,
           Supplied(reader, ToReaders(Defaults), ToReaders(file), Len(file))
    PROVE  reader.endpoints = Parsed(LastEntry(Defaults \o file, reader.name).endpoints)
<1> DEFINE entries == Defaults \o file
           base == ToReaders(Defaults)
           over == ToReaders(file)
<1>1. Defaults \in Seq(WordEntries) /\ Len(Defaults) = 1
    BY DefaultsFacts
<1>2. Len(file) \in Nat
    BY SequenceFacts
<1>3. /\ entries \in Seq(WordEntries) /\ Len(entries) = 1 + Len(file)
      /\ entries[1] = Defaults[1]
      /\ \A i \in 1 .. Len(file) : entries[1 + i] = file[i]
    <2> DEFINE d == Defaults
    <2>1. d \in Seq(WordEntries) /\ Len(d) = 1
        BY <1>1
    <2>0. d \in Seq(WordEntries)
        BY <2>1
    <2> HIDE DEF d
    <2>2. /\ d \o file \in Seq(WordEntries) /\ Len(d \o file) = Len(d) + Len(file)
          /\ \A i \in 1 .. Len(d) : (d \o file)[i] = d[i]
          /\ \A i \in 1 .. Len(file) : (d \o file)[Len(d) + i] = file[i]
        BY <2>0, ConcatFacts
    <2> QED
        BY <2>1, <2>2 DEF d
<1>4. /\ DOMAIN base = 1 .. 1
      /\ base[1].name = Defaults[1].name
      /\ base[1].endpoints = Parsed(Defaults[1].endpoints)
    BY <1>1, ToReadersFacts, SequenceFacts
<1>5. \A i \in 1 .. Len(file) :
          /\ over[i].name = file[i].name
          /\ over[i].endpoints = Parsed(file[i].endpoints)
    BY ToReadersFacts
<1> HIDE DEF entries, base, over
<1>6. \A j \in 2 .. Len(entries) :
          j - 1 \in 1 .. Len(file) /\ entries[j] = file[j - 1]
    BY <1>2, <1>3
<1>7. SUFFICES \E p \in 1 .. Len(entries) :
          /\ entries[p].name = reader.name
          /\ reader.endpoints = Parsed(entries[p].endpoints)
          /\ \A j \in p + 1 .. Len(entries) : entries[j].name # reader.name
    <2>1. PICK p \in 1 .. Len(entries) :
              /\ entries[p].name = reader.name
              /\ reader.endpoints = Parsed(entries[p].endpoints)
              /\ \A j \in p + 1 .. Len(entries) : entries[j].name # reader.name
        BY <1>7
    <2>2. LastEntry(entries, reader.name) = entries[p]
        BY <1>3, <2>1, LastEntryIs, ZenonT(60)
    <2> QED
        BY <2>1, <2>2 DEF entries
<1>8. CASE \E q \in 1 .. Len(file) : over[q] = reader /\
               \A j \in q + 1 .. Len(file) : over[j].name # reader.name
    <2>1. PICK q \in 1 .. Len(file) : over[q] = reader /\
              \A j \in q + 1 .. Len(file) : over[j].name # reader.name
        BY <1>8
    <2>2. 1 + q \in 1 .. Len(entries) /\ entries[1 + q] = file[q]
        BY <1>2, <1>3
    <2>3. file[q].name = reader.name /\ reader.endpoints = Parsed(file[q].endpoints)
        BY <1>5, <2>1
    <2>4. ASSUME NEW j \in (1 + q) + 1 .. Len(entries) PROVE entries[j].name # reader.name
        <3>1. j \in 2 .. Len(entries) /\ j - 1 \in q + 1 .. Len(file) /\ j - 1 \in 1 .. Len(file)
            BY <1>2, <1>3
        <3> QED
            BY <1>5, <1>6, <2>1, <3>1
    <2> QED
        BY <2>2, <2>3, <2>4
<1>9. CASE /\ \E k \in DOMAIN base : base[k] = reader
           /\ \A j \in 1 .. Len(file) : over[j].name # reader.name
    <2>1. base[1] = reader
        BY <1>4, <1>9
    <2>2. 1 \in 1 .. Len(entries) /\ entries[1].name = reader.name
          /\ reader.endpoints = Parsed(entries[1].endpoints)
        BY <1>2, <1>3, <1>4, <2>1
    <2>3. \A j \in 1 + 1 .. Len(entries) : entries[j].name # reader.name
        BY <1>5, <1>6, <1>9
    <2> QED
        BY <2>2, <2>3
<1> QED
    BY <1>8, <1>9 DEF Supplied, base, over

\* The readers of every config file and of every list of flags are layered as
\* loader.go promises: each name of a layer once, in the order the names are
\* first met, with the endpoints of the highest layer that has it.
THEOREM LoadLayers ==
    ASSUME NEW options \in Options
    PROVE  Layered(options, Load(options))
<1> DEFINE file == options.file
           flags == options.flags
           base == ToReaders(Defaults)
           over == ToReaders(file)
           given == ReadersFromFlags(flags)
           lower == Override(base, over)
           result == Override(lower, given)
           both == Named(Defaults) \o Named(file)
           all == both \o Named(flags)
<1>1. file \in Seq(WordEntries) /\ flags \in Seq(WordFlags)
    <2>1. options.file \in Seq(Entries) /\ options.flags \in Seq(Flags)
        BY DEF Options
    <2>2. Entries \subseteq WordEntries /\ Flags \subseteq WordFlags
        <3>1. STRING \subseteq Words
            BY DEF Words
        <3>2. Seq(STRING) \subseteq Seq(Words)
            BY <3>1, WiderSequence
        <3>3. Seq(Seq(STRING)) \subseteq Seq(Seq(Words))
            BY <3>2, WiderSequence
        <3> QED
            BY <3>1, <3>2, <3>3 DEF Entries, WordEntries, Flags, WordFlags
    <2> QED
        BY <2>1, <2>2
<1> HIDE DEF file, flags
<1>2. /\ base \in Seq(AllReaders) /\ Named(base) = Named(Defaults) /\ Len(Defaults) = 1
      /\ Defaults \in Seq(WordEntries)
    BY DefaultsFacts, ToReadersFacts
<1>3. over \in Seq(AllReaders) /\ Named(over) = Named(file) /\ Len(over) = Len(file)
    BY <1>1, ToReadersFacts
<1>4. given \in Seq(AllReaders) /\ Named(given) = NamesOf(flags)
    BY <1>1, FromFlagsFacts
<1>5. /\ Named(Defaults) \in Seq(Words)
      /\ Named(file) \in Seq(Words)
      /\ Named(flags) \in Seq(Words)
      /\ NamesIn(AllReaders) = Words
      /\ both \in Seq(Words)
      /\ all \in Seq(Words)
    <2>1. NamesIn(AllReaders) = Words /\ NamesIn(WordEntries) = Words /\ NamesIn(WordFlags) = Words
        BY NameTypes
    <2>2. Named(Defaults) \in Seq(Words)
        BY <1>2, <2>1, NamedFacts
    <2>3. Named(file) \in Seq(Words)
        BY <1>1, <2>1, NamedFacts
    <2>4. Named(flags) \in Seq(Words)
        BY <1>1, <2>1, NamedFacts
    <2>5. both \in Seq(Words)
        BY <2>2, <2>3, ConcatFacts
    <2> HIDE DEF both
    <2>6. all \in Seq(Words)
        BY <2>4, <2>5, ConcatFacts
    <2> QED
        BY <2>1, <2>2, <2>3, <2>4, <2>5, <2>6
<1>6. InOrder(Named(base), Named(Defaults))
    <2>1. DOMAIN Named(Defaults) = 1 .. 1
        BY <1>2, NamedFacts
    <2>2. \A i, j \in 1 .. 1 : ~ (i < j)
        OBVIOUS
    <2> QED
        BY <1>2, <2>1, <2>2 DEF InOrder
<1> HIDE DEF base, over, given, both, all
<1>7. /\ lower \in Seq(AllReaders)
      /\ InOrder(Named(lower), both)
      /\ \A i \in DOMAIN lower : Supplied(lower[i], base, over, Len(over))
    BY <1>2, <1>3, <1>5, <1>6, OverrideInOrder DEF both
<1> HIDE DEF lower
<1>8. /\ result \in Seq(AllReaders)
      /\ InOrder(Named(result), both \o Named(given))
      /\ \A i \in DOMAIN result : Supplied(result[i], lower, given, Len(given))
    BY <1>4, <1>5, <1>7, OverrideInOrder
<1> HIDE DEF result
<1>9. NamesOf(flags) \in Seq(Words) /\ InOrder(NamesOf(flags), Named(flags))
    BY <1>1, NamesOfInOrder, NameTypes
<1>10. InOrder(Named(result), all)
    BY <1>4, <1>5, <1>8, <1>9, InOrderOfBoth DEF all
<1>11. /\ DOMAIN Named(result) = DOMAIN result
       /\ \A i \in DOMAIN result : Named(result)[i] = result[i].name
    <2>1. DOMAIN result = 1 .. Len(result)
        BY <1>8, SequenceFacts
    <2> QED
        BY <1>8, <2>1, NamedFacts
<1>12. AllNames(options) = all /\ Load(options) = result
    BY DEF AllNames, Load, all, both, result, lower, base, over, given, file, flags
<1>13. Range(Named(result)) = Range(all)
    BY <1>10 DEF InOrder
<1>14. ASSUME NEW i \in DOMAIN result, NEW j \in DOMAIN result, i < j
       PROVE  FirstPlace(all, result[i].name) < FirstPlace(all, result[j].name)
    <2>1. Before(all, result[i].name, result[j].name)
        BY <1>10, <1>11, <1>14 DEF InOrder
    <2>2. result[i].name \in Range(all) /\ result[j].name \in Range(all)
        BY <1>11, <1>13 DEF Range
    <2> QED
        BY <1>5, <2>1, <2>2, BeforeIsFirst
<1>15. ASSUME NEW i \in DOMAIN result
       PROVE  LET g == Given(flags, result[i].name)
                  specs == LastEntry(Defaults \o file, result[i].name).endpoints
              IN  IF g = {}
                  THEN result[i].endpoints = [k \in DOMAIN specs |-> ParseEndpoint(specs[k])]
                  ELSE /\ Len(result[i].endpoints) = Cardinality(g)
                       /\ \A k \in g :
                             result[i].endpoints[Cardinality({j \in g : j <= k})] =
                                 ParseEndpoint(flags[k].spec)
    <2> DEFINE reader == result[i]
               g == Given(flags, reader.name)
    <2>1. Supplied(reader, lower, given, Len(given))
        BY <1>8
    <2>2. DOMAIN given = 1 .. Len(given)
        BY <1>4, SequenceFacts
    <2>3. \A q \in 1 .. Len(given) : Named(given)[q] = given[q].name
        BY <1>4, NamedFacts
    <2>4. DOMAIN Named(given) = 1 .. Len(given)
        BY <1>4, NamedFacts
    <2>5. Range(Named(given)) = Range(Named(flags))
        BY <1>4, <1>9 DEF InOrder
    <2>6. DOMAIN flags = 1 .. Len(flags)
        BY <1>1, SequenceFacts
    <2>7. /\ DOMAIN Named(flags) = DOMAIN flags
          /\ \A k \in DOMAIN flags : Named(flags)[k] = flags[k].name
        BY <1>1, <2>6, NamedFacts
    <2>8. g = {} <=> \A q \in 1 .. Len(given) : given[q].name # reader.name
        <3>1. g = {} <=> reader.name \notin Range(Named(flags))
            BY <2>7 DEF Given, Range
        <3>2. reader.name \notin Range(Named(given)) <=>
                  \A q \in 1 .. Len(given) : given[q].name # reader.name
            BY <2>3, <2>4 DEF Range
        <3> QED
            BY <2>5, <3>1, <3>2
    <2> HIDE DEF reader, g
    <2>9. CASE g = {}
        <3>1. PICK k \in DOMAIN lower : lower[k] = reader
            BY <2>1, <2>8, <2>9 DEF Supplied
        <3>2. Supplied(reader, base, over, Len(file))
            BY <1>3, <1>7, <3>1
        <3>3. reader.endpoints = Parsed(LastEntry(Defaults \o file, reader.name).endpoints)
            BY <1>1, <3>2, BelowIsLast DEF base, over
        <3> QED
            BY <2>9, <3>3 DEF Parsed, reader, g
    <2>10. CASE g # {}
        <3>1. PICK q \in 1 .. Len(given) : given[q] = reader
            BY <2>1, <2>8, <2>10 DEF Supplied
        <3> DEFINE named == FlagsNamed(flags, reader.name)
        <3>2. /\ Len(reader.endpoints) = Len(named)
              /\ \A k \in 1 .. Len(named) :
                    reader.endpoints[k] = ParseEndpoint(named[k].spec)
            BY <1>1, <2>2, <3>1, FromFlagsFacts DEF given
        <3>3. /\ Len(named) = Cardinality(g)
              /\ \A k \in g :
                    /\ GivenUpTo(flags, reader.name, k) \in 1 .. Len(named)
                    /\ named[GivenUpTo(flags, reader.name, k)] = flags[k]
            BY <1>1, FlagsNamedFacts DEF g
        <3> HIDE DEF named
        <3>4. \A k : GivenUpTo(flags, reader.name, k) = Cardinality({j \in g : j <= k})
            BY DEF GivenUpTo, g
        <3>5. Len(reader.endpoints) = Cardinality(g)
            BY <3>2, <3>3
        <3>6. ASSUME NEW k \in g
              PROVE  reader.endpoints[Cardinality({j \in g : j <= k})] =
                         ParseEndpoint(flags[k].spec)
            <4> DEFINE c == GivenUpTo(flags, reader.name, k)
            <4>1. c \in 1 .. Len(named) /\ named[c] = flags[k]
                BY <3>3
            <4>2. c = Cardinality({j \in g : j <= k})
                BY <3>4
            <4> HIDE DEF c
            <4>3. reader.endpoints[c] = ParseEndpoint(flags[k].spec)
                BY <3>2, <4>1
            <4> QED
                BY <4>2, <4>3, Zenon
        <3> QED
            BY <2>10, <3>5, <3>6, Zenon DEF reader, g
    <2> QED
        BY <2>9, <2>10
<1> QED
    BY <1>12, <1>13, <1>14, <1>15, Zenon DEF Layered, file, flags

=============================================================================
