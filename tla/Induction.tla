----------------------------- MODULE Induction ------------------------------
(***************************************************************************)
(* Induction over the natural numbers and functions that are defined by    *)
(* recursion, in a form without operator parameters: the least element of  *)
(* a set of numbers takes the place of the induction principle.            *)
(***************************************************************************)
EXTENDS Integers, WellFoundedInduction, TLAPS

\* A set of natural numbers that is not empty has a least element.
LEMMA NatMin ==
  ASSUME NEW T \in SUBSET Nat, T # {}
  PROVE  \E x \in T : \A y \in T : x <= y
<1>1. \E R : IsWellFoundedOn(R, Nat) /\ \A y, x \in Nat : <<y, x>> \in R <=> y < x
  <2>1. IsWellFoundedOn(OpToRel(<, Nat), Nat)
    BY NatLessThanWellFounded
  <2>2. \A y, x \in Nat : <<y, x>> \in OpToRel(<, Nat) <=> y < x
    BY DEF OpToRel
  <2> QED BY <2>1, <2>2, Zenon
<1>2. PICK R : IsWellFoundedOn(R, Nat) /\ \A y, x \in Nat : <<y, x>> \in R <=> y < x
  BY <1>1, Zenon
<1>3. T \subseteq Nat /\ IsWellFoundedOn(R, Nat)
  BY <1>2, Zenon
<1>4. \E x \in T : \A y \in T : ~ (<<y, x>> \in R)
  BY <1>3, WFMin, Zenon
<1>5. PICK x \in T : \A y \in T : ~ (<<y, x>> \in R)
  BY <1>4, Zenon
<1>6. \A y \in T : ~ (y < x)
  BY <1>2, <1>3, <1>5, Zenon
<1>7. \A y \in T : y \in Nat /\ x \in Nat
  BY <1>3
<1> QED BY <1>6, <1>7

\* f is the sequence of the iterates of G from a, up to the N-th.
Iterates(f, G, a, N) == f[0] = a /\ \A n \in 1 .. N : f[n] = G[f[n - 1]]

\* A function may be iterated any number of times.
LEMMA IteratesExist ==
  ASSUME NEW S, NEW G \in [S -> S], NEW a \in S, NEW N \in Nat
  PROVE  \E f \in [0 .. N -> S] : Iterates(f, G, a, N)
<1> DEFINE Good(k) == \E f \in [0 .. k -> S] : Iterates(f, G, a, k)
           T == {k \in Nat : ~Good(k)}
<1>1. SUFFICES ASSUME T # {} PROVE FALSE
  OBVIOUS
<1>2. PICK k \in T : \A y \in T : k <= y
  <2> HIDE DEF Good
  <2> QED BY <1>1, NatMin
<1>3. k # 0
  <2> SUFFICES Good(0)
    BY <1>2
  <2> DEFINE f == [n \in 0 .. 0 |-> a]
  <2>1. f \in [0 .. 0 -> S] /\ Iterates(f, G, a, 0)
    BY DEF Iterates
  <2> QED BY <2>1
<1>4. Good(k - 1) /\ k \in Nat /\ k - 1 \in Nat
  BY <1>2, <1>3
<1>5. PICK f \in [0 .. k - 1 -> S] : Iterates(f, G, a, k - 1)
  BY <1>4
<1> DEFINE g == [n \in 0 .. k |-> IF n = k THEN G[f[k - 1]] ELSE f[n]]
<1>6. g \in [0 .. k -> S]
  BY <1>3, <1>4
<1>7. Iterates(g, G, a, k)
  BY <1>3, <1>4, <1>5 DEF Iterates
<1> QED BY <1>2, <1>6, <1>7

\* The number of iterations does not matter to what they are.
LEMMA IteratesAgree ==
  ASSUME NEW S, NEW G \in [S -> S], NEW a \in S, NEW M \in Nat, NEW N \in Nat,
         NEW f, Iterates(f, G, a, M), NEW g, Iterates(g, G, a, N)
  PROVE  \A k \in Nat : k <= M /\ k <= N => f[k] = g[k]
<1> DEFINE T == {k \in Nat : k <= M /\ k <= N /\ f[k] # g[k]}
<1>1. SUFFICES ASSUME T # {} PROVE FALSE
  OBVIOUS
<1>2. PICK k \in T : \A y \in T : k <= y
  BY <1>1, NatMin
<1>3. k # 0
  BY <1>2 DEF Iterates
<1>4. k - 1 \in Nat /\ k \in 1 .. M /\ k \in 1 .. N /\ k - 1 \notin T
  BY <1>2, <1>3
<1>5. f[k - 1] = g[k - 1]
  BY <1>2, <1>4
<1>6. f[k] = g[k]
  BY <1>4, <1>5 DEF Iterates
<1> QED BY <1>2, <1>6

\* f is the sequence of all iterates of G from a.
IteratesAll(f, G, a) == f[0] = a /\ \A n \in Nat : f[n + 1] = G[f[n]]

\* A function may be iterated for ever.
LEMMA IteratesForever ==
  ASSUME NEW S, NEW G \in [S -> S], NEW a \in S
  PROVE  \E f \in [Nat -> S] : IteratesAll(f, G, a)
<1> DEFINE First(N) == CHOOSE f \in [0 .. N -> S] : Iterates(f, G, a, N)
<1>1. ASSUME NEW N \in Nat PROVE First(N) \in [0 .. N -> S] /\ Iterates(First(N), G, a, N)
  BY IteratesExist, Zenon
<1> DEFINE f == [n \in Nat |-> First(n)[n]]
<1> HIDE DEF First
<1>2. f \in [Nat -> S]
  <2> SUFFICES ASSUME NEW n \in Nat PROVE First(n)[n] \in S
    OBVIOUS
  <2>1. n \in 0 .. n
    OBVIOUS
  <2> QED BY <2>1, <1>1
<1>3. f[0] = a
  BY <1>1 DEF Iterates
<1>4. ASSUME NEW n \in Nat PROVE f[n + 1] = G[f[n]]
  <2>1. n + 1 \in Nat /\ n + 1 \in 1 .. n + 1 /\ (n + 1) - 1 = n /\ n <= n + 1
    OBVIOUS
  <2>2. Iterates(First(n), G, a, n) /\ Iterates(First(n + 1), G, a, n + 1)
    BY <1>1, <2>1
  <2>3. First(n)[n] = First(n + 1)[n]
    BY <2>1, <2>2, IteratesAgree
  <2>4. First(n + 1)[n + 1] = G[First(n + 1)[n]]
    BY <2>1, <2>2 DEF Iterates
  <2> QED BY <2>1, <2>3, <2>4
<1>5. IteratesAll(f, G, a)
  <2> HIDE DEF f
  <2> QED BY <1>3, <1>4 DEF IteratesAll
<1> QED BY <1>2, <1>5, Zenon

\* f begins with a, and G makes each of its next N values of the number of that
\* value and the one before.
Steps(f, G, a, N) == f[0] = a /\ \A i \in 1 .. N : f[i] = G[<<i, f[i - 1]>>]

\* A function may be defined by steps that depend on their number.
LEMMA StepsExist ==
  ASSUME NEW S, NEW N \in Nat, NEW G \in [(1 .. N) \X S -> S], NEW a \in S
  PROVE  \E f \in [0 .. N -> S] : Steps(f, G, a, N)
<1> DEFINE Good(k) == \E f \in [0 .. k -> S] : Steps(f, G, a, k)
           T == {k \in 0 .. N : ~Good(k)}
<1>1. SUFFICES ASSUME T # {} PROVE FALSE
  OBVIOUS
<1>2. PICK k \in T : \A y \in T : k <= y
  <2> HIDE DEF Good
  <2>1. T \in SUBSET Nat
    OBVIOUS
  <2> QED BY <1>1, <2>1, NatMin
<1>3. k # 0
  <2> SUFFICES Good(0)
    BY <1>2
  <2> DEFINE f == [n \in 0 .. 0 |-> a]
  <2>1. f \in [0 .. 0 -> S] /\ Steps(f, G, a, 0)
    BY DEF Steps
  <2> QED BY <2>1
<1>4. Good(k - 1) /\ k \in 1 .. N /\ k - 1 \in Nat
  BY <1>2, <1>3
<1>5. PICK f \in [0 .. k - 1 -> S] : Steps(f, G, a, k - 1)
  BY <1>4
<1> DEFINE last == G[<<k, f[k - 1]>>]
           g == [n \in 0 .. k |-> IF n = k THEN last ELSE f[n]]
<1>6. last \in S
  <2>1. f[k - 1] \in S
    BY <1>4, <1>5
  <2>2. <<k, f[k - 1]>> \in (1 .. N) \X S
    BY <1>4, <2>1
  <2> QED BY <2>2
<1>7. g \in [0 .. k -> S]
  <2> HIDE DEF last
  <2> QED BY <1>4, <1>5, <1>6
<1>8. Steps(g, G, a, k)
  <2>1. g[0] = a
    BY <1>4, <1>5 DEF Steps
  <2>2. ASSUME NEW i \in 1 .. k PROVE g[i] = G[<<i, g[i - 1]>>]
    <3>1. i - 1 \in 0 .. k - 1 /\ g[i - 1] = f[i - 1]
      <4> HIDE DEF last
      <4> QED BY <1>4
    <3>2. CASE i = k
      BY <3>1, <3>2, <1>4
    <3>3. CASE i # k
      <4>1. i \in 1 .. k - 1
        BY <3>3, <1>4
      <4> HIDE DEF last
      <4> QED BY <3>1, <3>3, <4>1, <1>4, <1>5 DEF Steps
    <3> QED BY <3>2, <3>3
  <2> HIDE DEF g
  <2> QED BY <2>1, <2>2 DEF Steps
<1> QED
  <2> HIDE DEF g, last
  <2> QED BY <1>2, <1>7, <1>8

=============================================================================
