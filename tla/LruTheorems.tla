----------------------------- MODULE LruTheorems -----------------------------
(***************************************************************************)
(* What the operators of Lru do, for every set of frames and every number  *)
(* of ways.                                                                *)
(***************************************************************************)
EXTENDS Lru, WellFoundedInduction, TLAPS

\* A set of natural numbers has a least element (the scans that stop at the
\* first free way find one).
LEMMA LeastNatural ==
    ASSUME NEW T \in SUBSET Nat, T # {}
    PROVE  \E x \in T : \A y \in T : x <= y
<1> DEFINE R == OpToRel(<, Nat)
<1>1. IsWellFoundedOn(R, Nat)
  BY NatLessThanWellFounded
<1>2. \A x, y \in Nat : y < x => <<y, x>> \in R
  BY DEF R, OpToRel
<1> HIDE DEF R
<1>3. PICK x \in T : \A y \in T : ~ (<<y, x>> \in R)
  BY <1>1, WFMin
<1>4. ASSUME NEW y \in T PROVE x <= y
  <2>1. x \in Nat /\ y \in Nat
    OBVIOUS
  <2>2. ~ (y < x)
    BY <1>2, <1>3, <2>1
  <2> QED
    BY <2>1, <2>2
<1> QED
  BY <1>4

\* A bounded set of natural numbers has a greatest element.
LEMMA GreatestNatural ==
    ASSUME NEW T \in SUBSET Nat, T # {}, NEW b \in Nat, \A x \in T : x <= b
    PROVE  \E x \in T : \A y \in T : y <= x
<1> DEFINE D == {b - x : x \in T}
<1>1. \A x \in T : x \in Nat /\ b - x \in Nat
  OBVIOUS
<1>2. D \in SUBSET Nat
  BY <1>1
<1>3. PICK t \in T : TRUE
  OBVIOUS
<1>4. b - t \in D
  OBVIOUS
<1>5. D # {}
  BY <1>4
<1>6. PICK d \in D : \A y \in D : d <= y
  BY <1>2, <1>5, LeastNatural
<1>7. PICK x \in T : d = b - x
  OBVIOUS
<1>8. \A y \in T : b - y \in D
  OBVIOUS
<1>9. \A y \in T : b - x <= b - y
  BY <1>6, <1>7, <1>8
<1> QED
  BY <1>1, <1>9

\* The frames of a set, their ways and counters in range.
Scannable(S, counter, num_ways) ==
    /\ S # {}
    /\ num_ways \in Nat \ {0}
    /\ \A f \in S : f.way \in 0 .. num_ways - 1
    /\ \A f \in S : counter[f] \in 0 .. num_ways - 1

\* When a way is free the victim is a free frame (cache_request, the break of
\* the scan).
LEMMA VictimFree ==
    ASSUME NEW S, NEW tag_addr, NEW counter, NEW num_ways,
           Scannable(S, counter, num_ways),
           FreeFrames(S, tag_addr) # {}
    PROVE  /\ Victim(S, tag_addr, counter) \in S
           /\ tag_addr[Victim(S, tag_addr, counter)] = INVALID_TAG
<1> DEFINE T == FreeFrames(S, tag_addr)
           W == {f.way : f \in T}
<1>1. T \subseteq S /\ \A f \in T : tag_addr[f] = INVALID_TAG
  BY DEF FreeFrames
<1>2. \A f \in T : f.way \in Nat
  BY <1>1 DEF Scannable
<1>3. W \in SUBSET Nat /\ W # {}
  BY <1>2
<1>4. PICK w \in W : \A y \in W : w <= y
  BY <1>3, LeastNatural
<1>5. PICK f \in T : w = f.way
  BY <1>4
<1>6. \A g \in T : f.way <= g.way
  BY <1>4, <1>5
<1>7. Victim(S, tag_addr, counter) \in T
  BY <1>5, <1>6 DEF Victim
<1> QED
  BY <1>1, <1>7

\* When no way is free the victim is a frame with the largest counter.
LEMMA VictimOldest ==
    ASSUME NEW S, NEW tag_addr, NEW counter, NEW num_ways,
           Scannable(S, counter, num_ways),
           FreeFrames(S, tag_addr) = {}
    PROVE  /\ Victim(S, tag_addr, counter) \in S
           /\ \A g \in S : counter[g] <= counter[Victim(S, tag_addr, counter)]
<1> DEFINE C == {counter[f] : f \in S}
<1>1. C \in SUBSET Nat /\ C # {} /\ num_ways \in Nat /\ \A x \in C : x <= num_ways
  BY DEF Scannable
<1>2. PICK c \in C : \A y \in C : y <= c
  BY <1>1, GreatestNatural
<1> DEFINE T == {f \in S : counter[f] = c}
           W == {f.way : f \in T}
<1>3. W \in SUBSET Nat /\ W # {} /\ \A x \in W : x <= num_ways
  BY <1>2 DEF Scannable
<1>4. PICK w \in W : \A y \in W : y <= w
  BY <1>1, <1>3, GreatestNatural
<1>5. PICK f \in T : w = f.way
  BY <1>4
<1>6. ASSUME NEW g \in S
      PROVE  \/ counter[g] < counter[f]
             \/ counter[g] = counter[f] /\ g.way <= f.way
  <2>1. counter[g] \in C /\ counter[f] = c
    BY <1>5
  <2>2. counter[g] <= c /\ counter[g] \in Nat /\ c \in Nat
    BY <1>1, <1>2, <2>1
  <2>3. CASE counter[g] = c
    <3>1. g.way \in W
      BY <2>3
    <3> QED
      BY <1>4, <1>5, <2>1, <2>3, <3>1
  <2>4. CASE counter[g] # c
    BY <2>1, <2>2, <2>4
  <2> QED
    BY <2>3, <2>4
<1> DEFINE v == Victim(S, tag_addr, counter)
<1>7. v \in S /\ \A g \in S : \/ counter[g] < counter[v]
                              \/ counter[g] = counter[v] /\ g.way <= v.way
  BY <1>5, <1>6 DEF Victim
<1> QED
  BY <1>7 DEF Scannable

\* In both cases the victim is a frame of the set.
LEMMA VictimInSet ==
    ASSUME NEW S, NEW tag_addr, NEW counter, NEW num_ways,
           Scannable(S, counter, num_ways)
    PROVE  Victim(S, tag_addr, counter) \in S
BY VictimFree, VictimOldest

\* The counters of a set are an order of its frames.
DistinctOn(S, counter) == \A f, g \in S : counter[f] = counter[g] => f = g

\* What a use does to one counter of the set: no counter wraps around.
LEMMA TouchValue ==
    ASSUME NEW S, NEW counter, NEW num_ways, NEW f \in S, NEW g \in S,
           Scannable(S, counter, num_ways),
           DistinctOn(S, counter),
           S \subseteq DOMAIN counter
    PROVE  LET new == Touch(counter, S, f, num_ways) IN
           /\ new[g] \in 0 .. num_ways - 1
           /\ g = f => new[g] = 0
           /\ g # f /\ counter[g] < counter[f] => new[g] = counter[g] + 1
           /\ g # f /\ counter[f] < counter[g] => new[g] = counter[g]
<1>1. /\ counter[f] \in 0 .. num_ways - 1
      /\ counter[g] \in 0 .. num_ways - 1
      /\ num_ways \in Nat \ {0}
      /\ g # f => counter[g] # counter[f]
      /\ f \in DOMAIN counter /\ g \in DOMAIN counter
  BY DEF Scannable, DistinctOn
<1>2. CASE counter[f] = 0
  BY <1>1, <1>2 DEF Touch
<1>3. CASE counter[f] # 0
  <2>1. Touch(counter, S, f, num_ways)[g] =
          IF g = f THEN 0
          ELSE IF counter[g] <= counter[f] THEN (counter[g] + 1) % num_ways
          ELSE counter[g]
    BY <1>1, <1>3 DEF Touch
  <2>2. ASSUME counter[g] < counter[f]
        PROVE  (counter[g] + 1) % num_ways = counter[g] + 1
    BY <1>1, <2>2
  <2> QED
    BY <1>1, <2>1, <2>2
<1> QED
  BY <1>2, <1>3

\* Using a frame makes it the youngest and leaves the order of the others.
LEMMA TouchOrder ==
    ASSUME NEW S, NEW counter, NEW num_ways, NEW f \in S,
           Scannable(S, counter, num_ways),
           DistinctOn(S, counter),
           S \subseteq DOMAIN counter
    PROVE  LET new == Touch(counter, S, f, num_ways) IN
           /\ Scannable(S, new, num_ways)
           /\ DistinctOn(S, new)
           /\ \A g \in S : g # f => new[f] < new[g]
           /\ \A g, h \in S : g # f /\ h # f =>
                (new[g] < new[h] <=> counter[g] < counter[h])
<1> DEFINE new == Touch(counter, S, f, num_ways)
<1>1. \A g \in S : /\ new[g] \in 0 .. num_ways - 1
                   /\ g = f => new[g] = 0
                   /\ g # f /\ counter[g] < counter[f] => new[g] = counter[g] + 1
                   /\ g # f /\ counter[f] < counter[g] => new[g] = counter[g]
  BY TouchValue
<1>2. \A g \in S : counter[g] \in 0 .. num_ways - 1
  BY DEF Scannable
<1>3. \A g, h \in S : g # h => \/ counter[g] < counter[h]
                               \/ counter[h] < counter[g]
  BY <1>2 DEF DistinctOn
<1>4. num_ways \in Nat \ {0}
  BY DEF Scannable
<1> HIDE DEF new
<1>5. Scannable(S, new, num_ways)
  BY <1>1 DEF Scannable
<1>6. \A g \in S : g # f => new[f] < new[g]
  BY <1>1, <1>2, <1>3, <1>4
<1>7. ASSUME NEW g \in S, NEW h \in S, g # f, h # f
      PROVE  new[g] < new[h] <=> counter[g] < counter[h]
  BY <1>1, <1>2, <1>3, <1>4, <1>7
<1>8. ASSUME NEW g \in S, NEW h \in S, g # h
      PROVE  new[g] # new[h]
  <2>1. CASE g = f \/ h = f
    BY <1>1, <1>6, <1>8, <2>1
  <2>2. CASE g # f /\ h # f
    BY <1>1, <1>3, <1>7, <1>8, <2>2
  <2> QED
    BY <2>1, <2>2
<1>9. DistinctOn(S, new)
  BY <1>8 DEF DistinctOn
<1> QED
  BY <1>5, <1>6, <1>7, <1>9 DEF new

\* With distinct counters the assertion of the scan holds, whichever ways are
\* free.
LEMMA ScanUnambiguous ==
    ASSUME NEW S, NEW tag_addr, NEW counter, DistinctOn(S, counter),
           \A f \in S : f.way \in Nat
    PROVE  ScanFaults(S, tag_addr, counter) = {}
<1>1. ASSUME NEW f \in S, NEW g \in S, f.way < g.way, counter[f] = counter[g]
      PROVE  FALSE
  <2>1. f = g
    BY <1>1 DEF DistinctOn
  <2>2. f.way \in Nat
    OBVIOUS
  <2> QED
    BY <1>1, <2>1, <2>2
<1> QED
  BY <1>1 DEF ScanFaults, Scanned

=============================================================================
